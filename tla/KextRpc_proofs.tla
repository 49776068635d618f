--------------------------- MODULE KextRpc_proofs ---------------------------
(***************************************************************************)
(* Theorems about the send lock of rpc_9p for any number of threads and    *)
(* any set of faults.                                                      *)
(***************************************************************************)
EXTENDS KextRpc, SequenceTheorems, TLAPS

USE RpcAssumption

(* The inductive invariant.  A thread that has loaded flags holds nmp->lck *)
(* and its copy may be stale only in F_UNMOUNTING; the send lock's holder  *)
(* is unique and F_SENDLOCK says whether there is one.                     *)
LockBits == {"SENDLOCK", "WAITSENDLOCK"}

LckInv ==
    /\ \A t \in Threads : lck = t => \A b \in LockBits : b \in copy[t] <=> b \in flags
    /\ \A t \in Threads : at[t] = "setSend" => "SENDLOCK" \notin flags
    /\ \A t \in Threads : at[t] = "setWait" => "SENDLOCK" \in flags

IInv == TypeOK /\ LckInv /\ OneSender

LEMMA TypeInit == Init => TypeOK
<1> SUFFICES ASSUME Init PROVE TypeOK
  OBVIOUS
<1>1. stream \in Seq([is : {"reply", "rerror"}, of : Threads])
  BY DEF Init
<1>2. flags \subseteq Flags /\ copy \in [Threads -> SUBSET Flags]
  BY DEF Init
<1>3. ending \in [Threads -> [is : Endings \cup {"pending"}, of : Threads \cup {NoThread}]]
  BY DEF Init, Pending
<1> QED
  BY <1>1, <1>2, <1>3 DEF Init, TypeOK, Loaded

LEMMA TypeStep == TypeOK /\ [Next]_vars => TypeOK'
<1> SUFFICES ASSUME TypeOK, [Next]_vars PROVE TypeOK'
  OBVIOUS
<1> USE DEF TypeOK, sockVars, unmountVars, Goto, Flags, Loaded
<1>1. ASSUME NEW t \in Threads, EnterRpclock(t) PROVE TypeOK'
  BY <1>1 DEF EnterRpclock
<1>2. ASSUME NEW t \in Threads, SleepOnRpcbuf(t) PROVE TypeOK'
  BY <1>2 DEF SleepOnRpcbuf
<1>3. ASSUME NEW t \in Threads, TakeSendlock(t) PROVE TypeOK'
  BY <1>3 DEF TakeSendlock
<1>4. ASSUME NEW t \in Threads, EncodeFails(t) PROVE TypeOK'
  BY <1>4 DEF EncodeFails, End, Endings
<1>5. ASSUME NEW t \in Threads, SendFails(t) PROVE TypeOK'
  BY <1>5 DEF SendFails, End, Endings
<1>6. ASSUME NEW t \in Threads, Send(t) PROVE TypeOK'
  BY <1>6 DEF Send
<1>7. ASSUME NEW t \in Threads, Receive(t) PROVE TypeOK'
  <2>1. Head(stream) \in [is : {"reply", "rerror"}, of : Threads]
        /\ stream' \in Seq([is : {"reply", "rerror"}, of : Threads])
    <3> DEFINE Replies == [is : {"reply", "rerror"}, of : Threads]
    <3>1. stream \in Seq(Replies) /\ stream # <<>> /\ stream' = Tail(stream)
      BY <1>7 DEF Receive
    <3> HIDE DEF Replies
    <3>2. Head(stream) \in Replies /\ stream' \in Seq(Replies)
      BY <3>1, HeadTailProperties
    <3> QED
      BY <3>2 DEF Replies
  <2>2. \E way \in Endings : \E of \in Threads : End(t, way, of)
    BY <1>7, <2>1 DEF Receive, Endings
  <2>3. ending' \in [Threads -> [is : Endings \cup {"pending"}, of : Threads \cup {NoThread}]]
        /\ at' = [at EXCEPT ![t] = "unlock"]
    BY <2>2 DEF End
  <2> QED
    BY <1>7, <2>1, <2>3 DEF Receive
<1>8. ASSUME NEW t \in Threads, ReceiveTimesOut(t) PROVE TypeOK'
  BY <1>8 DEF ReceiveTimesOut, End, Endings
<1>9. ASSUME NEW t \in Threads, EnterRpcunlock(t) PROVE TypeOK'
  BY <1>9 DEF EnterRpcunlock
<1>10. ASSUME NEW t \in Threads, DropSendlock(t) PROVE TypeOK'
  BY <1>10 DEF DropSendlock
<1>11. ASSUME NEW t \in Threads, Wakeup(t) PROVE TypeOK'
  <2>1. \A u \in Threads : at'[u] \in Loaded <=> at[u] \in Loaded
    BY <1>11 DEF Wakeup
  <2>2. at' \in [Threads -> {"idle", "setWait", "setSend", "asleep", "woken", "send", "recv",
                           "unlock", "clear", "wakeup", "done", "panic"}]
    BY <1>11 DEF Wakeup
  <2> QED
    BY <1>11, <2>1, <2>2 DEF Wakeup
<1>12. ASSUME NEW t \in Threads, NEW way \in {"reply", "rerror"}, ServerAnswers(t, way)
       PROVE  TypeOK'
  <2>1. [is |-> way, of |-> t] \in [is : {"reply", "rerror"}, of : Threads]
    OBVIOUS
  <2>2. stream' \in Seq([is : {"reply", "rerror"}, of : Threads])
    BY <1>12, <2>1 DEF ServerAnswers
  <2> QED
    BY <1>12, <2>2 DEF ServerAnswers
<1>13. CASE MarkUnmounting
  BY <1>13 DEF MarkUnmounting
<1>14. CASE UnmountBusy
  BY <1>14 DEF UnmountBusy
<1>15. CASE UNCHANGED vars
  BY <1>15 DEF vars
<1> HIDE DEF TypeOK
<1> QED
  BY <1>1, <1>2, <1>3, <1>4, <1>5, <1>6, <1>7, <1>8, <1>9, <1>10, <1>11, <1>12, <1>13,
     <1>14, <1>15 DEF Next, Step

LEMMA LockStep == IInv /\ [Next]_vars => LckInv' /\ OneSender'
<1> SUFFICES ASSUME IInv, [Next]_vars PROVE LckInv' /\ OneSender'
  OBVIOUS
<1> USE DEF IInv, LckInv, OneSender, Senders, TypeOK, Loaded, LockBits, Goto
<1>1. ASSUME NEW t \in Threads, EnterRpclock(t) PROVE LckInv' /\ OneSender'
  BY <1>1 DEF EnterRpclock
<1>2. ASSUME NEW t \in Threads, SleepOnRpcbuf(t) PROVE LckInv' /\ OneSender'
  BY <1>2 DEF SleepOnRpcbuf
<1>3. ASSUME NEW t \in Threads, TakeSendlock(t) PROVE LckInv' /\ OneSender'
  BY <1>3 DEF TakeSendlock
(* The holder moves on while it keeps the lock.                            *)
<1>4. ASSUME NEW t \in Threads, at[t] \in {"send", "recv"},
             at' = [at EXCEPT ![t] = "recv"] \/ at' = [at EXCEPT ![t] = "unlock"],
             UNCHANGED <<flags, lck, copy>>
      PROVE  LckInv' /\ OneSender'
  <2>1. PICK place \in {"recv", "unlock"} : at' = [at EXCEPT ![t] = place]
    BY <1>4
  <2>2. Senders' = Senders /\ \A u \in Threads : at'[u] \in Loaded <=> at[u] \in Loaded
    BY <1>4, <2>1
  <2> QED
    BY <1>4, <2>1, <2>2
<1>5. ASSUME NEW t \in Threads,
             EncodeFails(t) \/ SendFails(t) \/ Send(t) \/ Receive(t) \/ ReceiveTimesOut(t)
      PROVE  LckInv' /\ OneSender'
  BY <1>4, <1>5 DEF EncodeFails, SendFails, Send, Receive, ReceiveTimesOut, End
<1>6. ASSUME NEW t \in Threads, EnterRpcunlock(t) PROVE LckInv' /\ OneSender'
  <2>1. "SENDLOCK" \in flags
    BY <1>6 DEF EnterRpcunlock
  <2> QED
    BY <1>6, <2>1 DEF EnterRpcunlock
<1>7. ASSUME NEW t \in Threads, DropSendlock(t) PROVE LckInv' /\ OneSender'
  <2>1. PICK place \in {"wakeup", "done"} : at' = [at EXCEPT ![t] = place]
    BY <1>7 DEF DropSendlock
  <2>2. t \in Senders /\ lck = t /\ lck' = NoThread /\ "SENDLOCK" \notin flags'
    BY <1>7 DEF DropSendlock
  <2>3. Senders' = {}
    BY <2>1, <2>2
  <2>4. \A u \in Threads : at'[u] \notin Loaded /\ at'[u] # "panic"
    BY <2>1, <2>2
  <2> QED
    BY <2>2, <2>3, <2>4
<1>8. ASSUME NEW t \in Threads, Wakeup(t) PROVE LckInv' /\ OneSender'
  <2>1. \A u \in Threads : \/ at'[u] = at[u]
                           \/ at[u] \in {"wakeup", "asleep"} /\ at'[u] \in {"done", "woken"}
    BY <1>8 DEF Wakeup
  <2>2. UNCHANGED <<flags, lck, copy>>
    BY <1>8 DEF Wakeup
  <2>3. \A u \in Threads : (at'[u] \in Loaded <=> at[u] \in Loaded)
                          /\ (at'[u] = "setSend" <=> at[u] = "setSend")
                          /\ (at'[u] = "setWait" <=> at[u] = "setWait")
                          /\ (at'[u] = "panic" <=> at[u] = "panic")
    BY <2>1
  <2>4. Senders' = Senders
    BY <2>1
  <2>5. LckInv'
    BY <2>2, <2>3
  <2>6. OneSender'
    BY <2>2, <2>3, <2>4
  <2> QED
    BY <2>5, <2>6
<1>9. ASSUME NEW t \in Threads, NEW way, ServerAnswers(t, way) PROVE LckInv' /\ OneSender'
  BY <1>9 DEF ServerAnswers
<1>10. CASE MarkUnmounting
  BY <1>10 DEF MarkUnmounting
<1>11. CASE UnmountBusy
  BY <1>11 DEF UnmountBusy
<1>12. CASE UNCHANGED vars
  BY <1>12 DEF vars
<1> QED
  BY <1>1, <1>2, <1>3, <1>5, <1>6, <1>7, <1>8, <1>9, <1>10, <1>11, <1>12 DEF Next, Step

LEMMA InvHolds == Spec => []IInv
<1>1. Init => IInv
  BY TypeInit DEF Init, IInv, LckInv, OneSender, Senders, Loaded
<1>2. IInv /\ [Next]_vars => IInv'
  BY TypeStep, LockStep DEF IInv
<1> QED
  BY <1>1, <1>2, PTL DEF Spec

(* Every variable keeps its type.                                          *)
THEOREM TypeCorrect == Spec => []TypeOK
<1>1. IInv => TypeOK
  BY DEF IInv
<1> QED
  BY <1>1, InvHolds, PTL

(* One thread at a time is between rpclock and rpcunlock, and rpcunlock    *)
(* never panics, however many threads there are and whatever unmount does. *)
THEOREM OneSenderHolds == Spec => []OneSender
<1>1. IInv => OneSender
  BY DEF IInv
<1> QED
  BY <1>1, InvHolds, PTL

-----------------------------------------------------------------------------
(* No wakeup is lost: a thread goes to sleep only after it has set         *)
(* F_WAITSENDLOCK beside F_SENDLOCK, and whoever clears the two goes on to *)
(* wake every sleeper.                                                     *)
LEMMA SleeperStep == IInv /\ SleeperSeen /\ [Next]_vars => SleeperSeen'
<1> SUFFICES ASSUME IInv, SleeperSeen, [Next]_vars PROVE SleeperSeen'
  OBVIOUS
<1> DEFINE AtType == at \in [Threads -> {"idle", "setWait", "setSend", "asleep", "woken",
                              "send", "recv", "unlock", "clear", "wakeup", "done", "panic"}]
<1> USE DEF SleeperSeen, Goto
<1>0. AtType
  BY DEF IInv, TypeOK
(* Steps that neither make a thread sleep nor end a wakeup.                *)
<1>1. ASSUME LockBits \cap flags \subseteq flags',
             \A t \in Threads : at'[t] = "asleep" => at[t] = "asleep",
             \A t \in Threads : at[t] = "wakeup" => at'[t] = "wakeup"
      PROVE  SleeperSeen'
  BY <1>1 DEF LockBits
<1>2. ASSUME NEW t \in Threads, EnterRpclock(t) \/ EnterRpcunlock(t) PROVE SleeperSeen'
  BY <1>0, <1>1, <1>2 DEF EnterRpclock, EnterRpcunlock
<1>3. ASSUME NEW t \in Threads, SleepOnRpcbuf(t) PROVE SleeperSeen'
  <2>1. "SENDLOCK" \in flags /\ (\A b \in LockBits : b \in copy[t] <=> b \in flags)
    BY <1>3 DEF SleepOnRpcbuf, IInv, LckInv, TypeOK, Loaded
  <2> QED
    BY <1>3, <2>1 DEF SleepOnRpcbuf, LockBits
<1>4. ASSUME NEW t \in Threads, TakeSendlock(t) PROVE SleeperSeen'
  <2>1. \A b \in LockBits : b \in copy[t] <=> b \in flags
    BY <1>4 DEF TakeSendlock, IInv, LckInv, TypeOK, Loaded
  <2> QED
    BY <1>0, <1>1, <1>4, <2>1 DEF TakeSendlock, LockBits
<1>5. ASSUME NEW t \in Threads, DropSendlock(t) PROVE SleeperSeen'
  <2>1. \A b \in LockBits : b \in copy[t] <=> b \in flags
    BY <1>5 DEF DropSendlock, IInv, LckInv, TypeOK, Loaded
  <2>2. CASE "WAITSENDLOCK" \in copy[t]
    BY <1>0, <1>5, <2>2 DEF DropSendlock
  <2>3. CASE "WAITSENDLOCK" \notin copy[t]
    BY <1>0, <1>5, <2>1, <2>3 DEF DropSendlock, LockBits
  <2> QED
    BY <2>2, <2>3
<1>6. ASSUME NEW t \in Threads, Wakeup(t) PROVE SleeperSeen'
  BY <1>6 DEF Wakeup
<1>7. ASSUME NEW t \in Threads,
             EncodeFails(t) \/ SendFails(t) \/ Send(t) \/ Receive(t) \/ ReceiveTimesOut(t)
      PROVE  SleeperSeen'
  <2>1. at[t] \in {"send", "recv"} /\ flags' = flags
        /\ (at' = [at EXCEPT ![t] = "recv"] \/ at' = [at EXCEPT ![t] = "unlock"])
    BY <1>7 DEF EncodeFails, SendFails, Send, Receive, ReceiveTimesOut, End
  <2> QED
    BY <1>0, <1>1, <2>1
<1>8. ASSUME NEW t \in Threads, NEW way, ServerAnswers(t, way) PROVE SleeperSeen'
  BY <1>8 DEF ServerAnswers
<1>9. CASE MarkUnmounting \/ UnmountBusy
  BY <1>1, <1>9 DEF MarkUnmounting, UnmountBusy, LockBits
<1>10. CASE UNCHANGED vars
  BY <1>10 DEF vars
<1> QED
  BY <1>2, <1>3, <1>4, <1>5, <1>6, <1>7, <1>8, <1>9, <1>10 DEF Next, Step

(* A thread asleep in rpclock is seen by the holder of the send lock or by *)
(* a thread about to wake everybody.                                       *)
THEOREM SleeperSeenHolds == Spec => []SleeperSeen
<1>1. Init => SleeperSeen
  BY DEF Init, SleeperSeen
<1> QED
  BY <1>1, SleeperStep, InvHolds, PTL DEF Spec

-----------------------------------------------------------------------------
(* While no receive has timed out at most one request is outstanding, as   *)
(* an owed answer or as a reply on its way, and it is the request of the   *)
(* thread that waits for it.                                               *)
Outstanding ==
    timeouts = 0 =>
        /\ \A t \in owed : at[t] = "recv"
        /\ Len(stream) <= 1
        /\ stream # <<>> => owed = {} /\ at[Head(stream).of] = "recv"
        /\ \A t \in Threads : ending[t] # Pending => ending[t].of = t

LEMMA OutstandingStep == IInv /\ Outstanding /\ [Next]_vars => Outstanding'
<1> SUFFICES ASSUME IInv, Outstanding, [Next]_vars PROVE Outstanding'
  OBVIOUS
<1> DEFINE Replies == [is : {"reply", "rerror"}, of : Threads]
<1>0. /\ at \in [Threads -> {"idle", "setWait", "setSend", "asleep", "woken", "send", "recv",
                           "unlock", "clear", "wakeup", "done", "panic"}]
      /\ ending \in [Threads -> [is : Endings \cup {"pending"}, of : Threads \cup {NoThread}]]
      /\ owed \subseteq Threads /\ timeouts \in Nat /\ stream \in Seq(Replies)
      /\ \A t, u \in Senders : t = u
  BY DEF IInv, TypeOK, OneSender
<1> USE DEF Goto, sockVars
(* Steps that leave the socket and the waiting threads alone.              *)
<1>1. ASSUME UNCHANGED <<owed, stream, timeouts>>,
             \A t \in Threads : at[t] = "recv" => at'[t] = "recv",
             \A t \in Threads : ending'[t] = ending[t] \/ ending'[t].of = t
      PROVE  Outstanding'
  <2> SUFFICES ASSUME timeouts = 0 PROVE Outstanding'
    BY <1>1 DEF Outstanding
  <2>1. stream # <<>> => Head(stream).of \in Threads
    <3> HIDE DEF Replies
    <3>1. stream # <<>> => Head(stream) \in Replies
      BY <1>0, HeadTailProperties
    <3> QED
      BY <3>1 DEF Replies
  <2> QED
    BY <1>0, <1>1, <2>1 DEF Outstanding, Pending
<1>2. ASSUME NEW t \in Threads,
             \/ EnterRpclock(t) \/ SleepOnRpcbuf(t) \/ TakeSendlock(t)
             \/ EnterRpcunlock(t) \/ DropSendlock(t) \/ Wakeup(t)
      PROVE  Outstanding'
  <2>1. UNCHANGED <<owed, stream, timeouts, ending>>
    BY <1>2 DEF EnterRpclock, SleepOnRpcbuf, TakeSendlock, EnterRpcunlock, DropSendlock, Wakeup
  <2>2. \A u \in Threads : at[u] = "recv" => at'[u] = "recv"
    BY <1>0, <1>2
       DEF EnterRpclock, SleepOnRpcbuf, TakeSendlock, EnterRpcunlock, DropSendlock, Wakeup
  <2> QED
    BY <1>1, <2>1, <2>2
<1>3. ASSUME NEW t \in Threads, EncodeFails(t) \/ SendFails(t) PROVE Outstanding'
  <2>1. UNCHANGED <<owed, stream, timeouts>> /\ \A u \in Threads : at[u] = "recv" => at'[u] = "recv"
    BY <1>0, <1>3 DEF EncodeFails, SendFails, End
  <2>2. \A u \in Threads : ending'[u] = ending[u] \/ ending'[u].of = u
    BY <1>0, <1>3 DEF EncodeFails, SendFails, End
  <2> QED
    BY <1>1, <2>1, <2>2
<1>4. ASSUME NEW t \in Threads, Send(t) PROVE Outstanding'
  <2> SUFFICES ASSUME timeouts = 0 PROVE Outstanding'
    BY <1>4 DEF Send, Outstanding
  <2>1. \A u \in Threads : at[u] # "recv"
    BY <1>0, <1>4 DEF Send, Senders
  <2>2. owed = {} /\ stream = <<>>
    <3>1. stream # <<>> => Head(stream).of \in Threads
      <4> HIDE DEF Replies
      <4>1. stream # <<>> => Head(stream) \in Replies
        BY <1>0, HeadTailProperties
      <4> QED
        BY <4>1 DEF Replies
    <3> QED
      BY <1>0, <2>1, <3>1 DEF Outstanding
  <2>3. owed' = {t} /\ stream' = <<>> /\ at'[t] = "recv" /\ ending' = ending /\ Len(stream') <= 1
    BY <1>0, <1>4, <2>2 DEF Send
  <2> QED
    BY <2>3 DEF Outstanding
<1>5. ASSUME NEW t \in Threads, NEW way \in {"reply", "rerror"}, ServerAnswers(t, way)
      PROVE  Outstanding'
  <2> SUFFICES ASSUME timeouts = 0 PROVE Outstanding'
    BY <1>5 DEF ServerAnswers, Outstanding
  <2>1. at[t] = "recv" /\ stream = <<>> /\ UNCHANGED <<at, ending, timeouts>>
    BY <1>5 DEF ServerAnswers, Outstanding
  <2>2. owed' = {}
    BY <1>0, <1>5 DEF ServerAnswers, Outstanding, Senders
  <2>3. stream' = <<[is |-> way, of |-> t]>>
    BY <1>5, <2>1 DEF ServerAnswers
  <2>4. Len(stream') <= 1 /\ Head(stream').of = t
    BY <2>3
  <2> QED
    BY <2>1, <2>2, <2>4 DEF Outstanding
<1>6. ASSUME NEW t \in Threads, Receive(t) PROVE Outstanding'
  <2> SUFFICES ASSUME timeouts = 0 PROVE Outstanding'
    BY <1>6 DEF Receive, Outstanding
  <2> DEFINE rx == Head(stream)
  <2>1. at[t] = "recv" /\ stream # <<>> /\ stream' = Tail(stream) /\ UNCHANGED <<owed, timeouts>>
    BY <1>6 DEF Receive
  <2>2. rx.of \in Threads /\ Len(Tail(stream)) = Len(stream) - 1 /\ Tail(stream) \in Seq(Replies)
    <3> HIDE DEF Replies
    <3>1. rx \in Replies /\ Len(Tail(stream)) = Len(stream) - 1 /\ Tail(stream) \in Seq(Replies)
      BY <1>0, <2>1, HeadTailProperties
    <3> QED
      BY <3>1 DEF Replies
  <2>3. rx.of = t /\ owed = {} /\ Len(stream) = 1
    <3>1. at[rx.of] = "recv" /\ owed = {} /\ Len(stream) <= 1
      BY <2>1 DEF Outstanding
    <3>2. Len(stream) \in Nat /\ Len(Tail(stream)) \in Nat
      BY <1>0, <2>2
    <3> QED
      BY <1>0, <2>1, <2>2, <3>1, <3>2 DEF Senders
  <2>4. stream' = <<>> /\ Len(stream') <= 1
    BY <2>1, <2>2, <2>3
  <2>5. \E way : ending' = [ending EXCEPT ![t] = [is |-> way, of |-> t]]
    BY <1>6, <2>3 DEF Receive, End
  <2>6. \A u \in Threads : ending'[u] = ending[u] \/ ending'[u].of = u
    BY <1>0, <2>5
  <2> QED
    BY <2>1, <2>3, <2>4, <2>6 DEF Outstanding, Pending
<1>7. ASSUME NEW t \in Threads, ReceiveTimesOut(t) PROVE Outstanding'
  BY <1>0, <1>7 DEF ReceiveTimesOut, Outstanding
<1>8. CASE MarkUnmounting \/ UnmountBusy
  BY <1>1, <1>8 DEF MarkUnmounting, UnmountBusy
<1>9. CASE UNCHANGED vars
  BY <1>1, <1>9 DEF vars
<1> QED
  BY <1>2, <1>3, <1>4, <1>5, <1>6, <1>7, <1>8, <1>9 DEF Next, Step

(* Until a receive times out every rpc ends by its own reply: the send     *)
(* lock, not the tag, matches replies with requests.                       *)
THEOREM OwnReplyBeforeTimeoutHolds == Spec => []OwnReplyBeforeTimeout
<1>1. Init => Outstanding
  BY DEF Init, Outstanding, Pending
<1>2. Outstanding => OwnReplyBeforeTimeout
  BY DEF Outstanding, OwnReplyBeforeTimeout
<1> QED
  BY <1>1, <1>2, OutstandingStep, InvHolds, PTL DEF Spec
=============================================================================
