------------------------ MODULE MC_NinePAsyncClient ------------------------
(* Up to three calls, two of one message type and one of another.          *)
EXTENDS NinePAsyncClient, TLC

CONSTANTS c1, c2, c3

MCCalls == {c1, c2, c3}
MCTwoCalls == {c1, c2}
MCKindOf == [c \in MCCalls |-> IF c = c3 THEN "Twalk" ELSE "Tread"]
MCSymmetry == Permutations({c1, c2})
=============================================================================
