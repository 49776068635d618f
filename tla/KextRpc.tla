------------------------------ MODULE KextRpc ------------------------------
(***************************************************************************)
(* rpc_9p of the kernel extension as it is built (without USE_UPCALL): the *)
(* threads that call it take turns on the socket under F_SENDLOCK, from    *)
(* the write of the request to the read of the reply.                      *)
(*                                                                         *)
(* The lock is two bits of nmp->flags.  SET and CLR are plain read-modify- *)
(* write sequences under nmp->lck, while unmount changes a third bit of    *)
(* the same word with OSBitOrAtomic and OSBitAndAtomic and no lock, so a   *)
(* store may write back an old copy of that bit.                           *)
(***************************************************************************)
EXTENDS Naturals, Sequences, FiniteSets

CONSTANTS
    Threads,    \* the activations of rpc_9p; tx of each is a request
    KindOf,     \* KindOf[t] : tx->type, which fixes the reply type
    NoThread,
    MaxUnmounts,\* bound: how often vfs_unmount_9p is tried
    Faults      \* a subset of AllFaults

(* "encode"  convS2M finds no room      "send"    sock_send fails          *)
(* "rerror"  the server answers Rerror  "timeout" SO_RCVTIMEO runs out     *)
AllFaults == {"encode", "send", "rerror", "timeout"}

ASSUME RpcAssumption ==
    NoThread \notin Threads /\ MaxUnmounts \in Nat /\ Faults \subseteq AllFaults

Flags == {"SENDLOCK", "WAITSENDLOCK", "UNMOUNTING"}
Endings == {"reply", "rerror", "EBADRPC", "EINVAL", "ESEND", "ETIMEDOUT"}

VARIABLES
    flags,      \* nmp->flags
    lck,        \* who holds nmp->lck
    copy,       \* the value of flags a thread has loaded and will write back
    at,         \* where each thread is
    ending,     \* how its rpc ended, and whose reply ended it
    owed,       \* requests the server has read and not answered
    stream,     \* replies on their way, in order
    timeouts,   \* how many receives have timed out
    unmount,    \* "no" or "flushing"
    unmounts    \* how many unmounts were tried

sockVars == <<owed, stream, timeouts>>
unmountVars == <<unmount, unmounts>>
vars == <<flags, lck, copy, at, ending, sockVars, unmountVars>>

Pending == [is |-> "pending", of |-> NoThread]

Init ==
    /\ flags = {}
    /\ lck = NoThread
    /\ copy = [t \in Threads |-> {}]
    /\ at = [t \in Threads |-> "idle"]
    /\ ending = [t \in Threads |-> Pending]
    /\ owed = {}
    /\ stream = <<>>
    /\ timeouts = 0
    /\ unmount = "no"
    /\ unmounts = 0

Goto(t, place) == at' = [at EXCEPT ![t] = place]

-----------------------------------------------------------------------------
(* rpclock                                                                 *)

(* Mutant: `if` in place of `while`, so a woken thread does not test again.*)
EnterRpclockIf(t) ==
    /\ at[t] \in {"idle", "woken"}
    /\ lck = NoThread
    /\ lck' = t
    /\ copy' = [copy EXCEPT ![t] = flags]
    /\ Goto(t, IF "SENDLOCK" \in flags /\ at[t] = "idle" THEN "setWait" ELSE "setSend")
    /\ UNCHANGED <<flags, ending, sockVars, unmountVars>>

(* lck_mtx_lock, the test of the while, and the load of the SET after it.  *)
EnterRpclock(t) ==
    /\ at[t] \in {"idle", "woken"}
    /\ lck = NoThread
    /\ lck' = t
    /\ copy' = [copy EXCEPT ![t] = flags]
    /\ Goto(t, IF "SENDLOCK" \in flags THEN "setWait" ELSE "setSend")
    /\ UNCHANGED <<flags, ending, sockVars, unmountVars>>

(* Mutant: tsleep in place of msleep, so nmp->lck is kept.                 *)
SleepWithLck(t) ==
    /\ at[t] = "setWait"
    /\ flags' = copy[t] \cup {"WAITSENDLOCK"}
    /\ Goto(t, "asleep")
    /\ UNCHANGED <<lck, copy, ending, sockVars, unmountVars>>

(* The store of F_WAITSENDLOCK; msleep gives up nmp->lck as it sleeps.     *)
SleepOnRpcbuf(t) ==
    /\ at[t] = "setWait"
    /\ flags' = copy[t] \cup {"WAITSENDLOCK"}
    /\ lck' = NoThread
    /\ Goto(t, "asleep")
    /\ UNCHANGED <<copy, ending, sockVars, unmountVars>>

(* Mutant: F_SENDLOCK is not stored.                                       *)
TakeSendlockUnset(t) ==
    /\ at[t] = "setSend"
    /\ flags' = copy[t]
    /\ lck' = NoThread
    /\ Goto(t, "send")
    /\ UNCHANGED <<copy, ending, sockVars, unmountVars>>

(* The store of F_SENDLOCK and lck_mtx_unlock.                             *)
TakeSendlock(t) ==
    /\ at[t] = "setSend"
    /\ flags' = copy[t] \cup {"SENDLOCK"}
    /\ lck' = NoThread
    /\ Goto(t, "send")
    /\ UNCHANGED <<copy, ending, sockVars, unmountVars>>

-----------------------------------------------------------------------------
(* The body of rpc_9p, between rpclock and rpcunlock.                      *)

End(t, way, of) ==
    /\ ending' = [ending EXCEPT ![t] = [is |-> way, of |-> of]]
    /\ Goto(t, "unlock")

(* convS2M returns 0.                                                      *)
EncodeFails(t) ==
    /\ "encode" \in Faults
    /\ at[t] = "send"
    /\ End(t, "EINVAL", t)
    /\ UNCHANGED <<flags, lck, copy, sockVars, unmountVars>>

SendFails(t) ==
    /\ "send" \in Faults
    /\ at[t] = "send"
    /\ End(t, "ESEND", t)
    /\ UNCHANGED <<flags, lck, copy, sockVars, unmountVars>>

Send(t) ==
    /\ at[t] = "send"
    /\ owed' = owed \cup {t}
    /\ Goto(t, "recv")
    /\ UNCHANGED <<flags, lck, copy, ending, stream, timeouts, unmountVars>>

(* The server answers what it owes in any order.                           *)
ServerAnswers(t, way) ==
    /\ t \in owed
    /\ way = "reply" \/ way \in Faults
    /\ owed' = owed \ {t}
    /\ stream' = Append(stream, [is |-> way, of |-> t])
    /\ UNCHANGED <<flags, lck, copy, at, ending, timeouts, unmountVars>>

(* recvmsg_9p takes the next message, whatever its tag: only its type is   *)
(* compared with tx->type + 1.                                             *)
Receive(t) ==
    LET rx == Head(stream) IN
    /\ at[t] = "recv"
    /\ stream # <<>>
    /\ stream' = Tail(stream)
    /\ \/ rx.is = "rerror" /\ End(t, "rerror", rx.of)
       \/ rx.is = "reply" /\ KindOf[rx.of] = KindOf[t] /\ End(t, "reply", rx.of)
       \/ rx.is = "reply" /\ KindOf[rx.of] # KindOf[t] /\ End(t, "EBADRPC", rx.of)
    /\ UNCHANGED <<flags, lck, copy, owed, timeouts, unmountVars>>

(* sock_receive gives up after ten seconds; the reply is still to come.    *)
ReceiveTimesOut(t) ==
    /\ "timeout" \in Faults
    /\ at[t] = "recv"
    /\ stream = <<>>
    /\ timeouts' = timeouts + 1
    /\ End(t, "ETIMEDOUT", t)
    /\ UNCHANGED <<flags, lck, copy, owed, stream, unmountVars>>

-----------------------------------------------------------------------------
(* rpcunlock                                                               *)

(* lck_mtx_lock, the test that would panic, and the load of the CLRs.      *)
EnterRpcunlock(t) ==
    /\ at[t] = "unlock"
    /\ lck = NoThread
    /\ lck' = t
    /\ copy' = [copy EXCEPT ![t] = flags]
    /\ Goto(t, IF "SENDLOCK" \in flags THEN "clear" ELSE "panic")
    /\ UNCHANGED <<flags, ending, sockVars, unmountVars>>

(* Mutant: F_WAITSENDLOCK is tested after it was cleared.                  *)
DropSendlockUnseen(t) ==
    /\ at[t] = "clear"
    /\ flags' = copy[t] \ {"SENDLOCK", "WAITSENDLOCK"}
    /\ lck' = NoThread
    /\ Goto(t, IF "WAITSENDLOCK" \in flags' THEN "wakeup" ELSE "done")
    /\ UNCHANGED <<copy, ending, sockVars, unmountVars>>

(* The stores that clear the bits, and lck_mtx_unlock.                     *)
DropSendlock(t) ==
    /\ at[t] = "clear"
    /\ flags' = copy[t] \ {"SENDLOCK", "WAITSENDLOCK"}
    /\ lck' = NoThread
    /\ Goto(t, IF "WAITSENDLOCK" \in copy[t] THEN "wakeup" ELSE "done")
    /\ UNCHANGED <<copy, ending, sockVars, unmountVars>>

(* Mutant: wakeup_one in place of wakeup.                                  *)
WakeupOne(t) ==
    /\ at[t] = "wakeup"
    /\ \/ \E u \in Threads : at[u] = "asleep" /\ at' = [at EXCEPT ![t] = "done", ![u] = "woken"]
       \/ (\A u \in Threads : at[u] # "asleep") /\ Goto(t, "done")
    /\ UNCHANGED <<flags, lck, copy, ending, sockVars, unmountVars>>

(* wakeup(nmp->rpcbuf), after nmp->lck is dropped: every sleeper starts    *)
(* over.                                                                   *)
Wakeup(t) ==
    /\ at[t] = "wakeup"
    /\ at' = [u \in Threads |-> IF u = t THEN "done"
                                ELSE IF at[u] = "asleep" THEN "woken" ELSE at[u]]
    /\ UNCHANGED <<flags, lck, copy, ending, sockVars, unmountVars>>

-----------------------------------------------------------------------------
(* vfs_unmount_9p marks the mount without nmp->lck, and takes the mark off *)
(* when a vnode turns out to be busy.                                      *)

MarkUnmounting ==
    /\ unmount = "no" /\ unmounts < MaxUnmounts
    /\ unmount' = "flushing"
    /\ unmounts' = unmounts + 1
    /\ flags' = flags \cup {"UNMOUNTING"}
    /\ UNCHANGED <<lck, copy, at, ending, sockVars>>

UnmountBusy ==
    /\ unmount = "flushing"
    /\ unmount' = "no"
    /\ flags' = flags \ {"UNMOUNTING"}
    /\ UNCHANGED <<lck, copy, at, ending, sockVars, unmounts>>

-----------------------------------------------------------------------------
Step(t) ==
    \/ EnterRpclock(t) \/ SleepOnRpcbuf(t) \/ TakeSendlock(t)
    \/ EncodeFails(t) \/ SendFails(t) \/ Send(t) \/ Receive(t) \/ ReceiveTimesOut(t)
    \/ EnterRpcunlock(t) \/ DropSendlock(t) \/ Wakeup(t)

Next ==
    \/ \E t \in Threads : Step(t) \/ \E way \in {"reply", "rerror"} : ServerAnswers(t, way)
    \/ MarkUnmounting \/ UnmountBusy

Spec == Init /\ [][Next]_vars

(* Threads that can run are scheduled and the server answers; a thread     *)
(* that has called rpc_9p goes on, but nobody has to call it.              *)
Fairness ==
    \A t \in Threads :
        /\ WF_vars(at[t] # "idle" /\ Step(t))
        /\ WF_vars(\E way \in {"reply", "rerror"} : ServerAnswers(t, way))

FairSpec == Spec /\ Fairness

-----------------------------------------------------------------------------
(* Properties.                                                             *)

(* Where a thread has loaded flags and not yet stored them.                *)
Loaded == {"setWait", "setSend", "clear", "panic"}

TypeOK ==
    /\ flags \subseteq Flags
    /\ lck \in Threads \cup {NoThread}
    /\ \A t \in Threads : at[t] \in Loaded <=> lck = t
    /\ copy \in [Threads -> SUBSET Flags]
    /\ at \in [Threads -> {"idle", "setWait", "setSend", "asleep", "woken", "send", "recv",
                           "unlock", "clear", "wakeup", "done", "panic"}]
    /\ ending \in [Threads -> [is : Endings \cup {"pending"}, of : Threads \cup {NoThread}]]
    /\ owed \subseteq Threads
    /\ stream \in Seq([is : {"reply", "rerror"}, of : Threads])
    /\ timeouts \in Nat
    /\ unmount \in {"no", "flushing"}
    /\ unmounts \in 0 .. MaxUnmounts

(* The threads between rpclock and rpcunlock.                              *)
Senders == {t \in Threads : at[t] \in {"send", "recv", "unlock", "clear"}}

(* One thread at a time uses rpcbuf and the socket, F_SENDLOCK is set      *)
(* exactly meanwhile although unmount rewrites the same word unlocked, and *)
(* so the assertion in rpcunlock never panics.                             *)
OneSender ==
    /\ \A t, u \in Senders : t = u
    /\ "SENDLOCK" \in flags <=> Senders # {}
    /\ \A t \in Threads : at[t] # "panic"

(* A thread that sleeps for the lock has somebody who will wake it: the    *)
(* holder is bound to see F_WAITSENDLOCK, or a wakeup is on its way.       *)
SleeperSeen ==
    \A t \in Threads : at[t] = "asleep" =>
        \/ {"SENDLOCK", "WAITSENDLOCK"} \subseteq flags
        \/ \E u \in Threads : at[u] = "wakeup"

(* Until a receive has timed out, every rpc ends by its own reply, although *)
(* rpc_9p never looks at the tag of what it reads.                         *)
OwnReplyBeforeTimeout ==
    timeouts = 0 => \A t \in Threads : ending[t] # Pending => ending[t].of = t

(* Every thread that called rpc_9p leaves it: nobody sleeps for ever on    *)
(* the send lock.                                                          *)
EveryRpcEnds == \A t \in Threads : at[t] = "send" \/ at[t] = "asleep" ~> at[t] = "done"
=============================================================================
