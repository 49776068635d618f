----------------------------- MODULE MC_KextRpc -----------------------------
(* Three threads, two with requests of one type.                           *)
EXTENDS KextRpc

CONSTANTS t1, t2, t3

MCThreads == {t1, t2, t3}
MCKindOf == [t \in MCThreads |-> IF t = t3 THEN "Tstat" ELSE "Tread"]
=============================================================================
