----------------------------- MODULE RpcService -----------------------------
(***************************************************************************)
(* What a multiplexed 9P connection promises its callers, independent of   *)
(* tags, readers and sockets (the contract behind the comment that opens   *)
(* NinePAsyncClient.swift): a call is issued once and ends once; it ends   *)
(* with the server's answer to that very call, with the loss of the        *)
(* connection, or as cancelled when its own caller gave it up.             *)
(***************************************************************************)
CONSTANT Calls

VARIABLES
    phase,      \* phase[c] : "idle", "waiting" or "done"
    ending,     \* ending[c] : how c ended, Pending before
    givenUp     \* the calls whose caller asked for cancellation

vars == <<phase, ending, givenUp>>

Pending == [is |-> "pending"]

(* How a call may end: `is` names the way, `of` the call that caused it.   *)
Ending(c) ==
    {[is |-> i, of |-> c] : i \in {"reply", "rerror", "lost", "unsent"}}
        \cup IF c \in givenUp THEN {[is |-> "cancelled", of |-> c]} ELSE {}

Init ==
    /\ phase = [c \in Calls |-> "idle"]
    /\ ending = [c \in Calls |-> Pending]
    /\ givenUp = {}

Issue(c) ==
    /\ phase[c] = "idle"
    /\ phase' = [phase EXCEPT ![c] = "waiting"]
    /\ UNCHANGED <<ending, givenUp>>

(* The request could not be written to the connection.                     *)
Refuse(c) ==
    /\ phase[c] = "idle"
    /\ phase' = [phase EXCEPT ![c] = "done"]
    /\ ending' = [ending EXCEPT ![c] = [is |-> "unsent", of |-> c]]
    /\ UNCHANGED givenUp

GiveUp(c) ==
    /\ phase[c] # "idle"
    /\ givenUp' = givenUp \cup {c}
    /\ UNCHANGED <<phase, ending>>

(* One or, when the connection is lost, several waiting calls end.         *)
Finish(S) ==
    \E e \in [S -> UNION {Ending(c) : c \in S}] :
        /\ \A c \in S : phase[c] = "waiting" /\ e[c] \in Ending(c)
        /\ ending' = [c \in Calls |-> IF c \in S THEN e[c] ELSE ending[c]]
        /\ phase' = [c \in Calls |-> IF c \in S THEN "done" ELSE phase[c]]
        /\ UNCHANGED givenUp

Next ==
    \/ \E c \in Calls : Issue(c) \/ Refuse(c) \/ GiveUp(c)
    \/ \E S \in (SUBSET Calls) \ {{}} : Finish(S)

Spec == Init /\ [][Next]_vars
=============================================================================
