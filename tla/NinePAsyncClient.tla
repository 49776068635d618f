-------------------------- MODULE NinePAsyncClient --------------------------
(***************************************************************************)
(* The actor NinePAsyncClient of fskit-core: concurrent 9P requests that   *)
(* share one connection, told apart by their tags.                         *)
(*                                                                         *)
(* The actor runs one synchronous stretch of code at a time; each stretch  *)
(* is an action here.  Around it run the detached reader task (which       *)
(* blocks in recv outside the actor), the tasks that onCancel spawns, and  *)
(* the server, which answers what it owes in any order.                    *)
(***************************************************************************)
EXTENDS Naturals, FiniteSets

CONSTANTS
    Calls,      \* the activations of rpcAsync in a behaviour
    KindOf,     \* KindOf[c] : the message type of call c, which fixes the
                \* reply type it expects
    NoCall,     \* no entry
    NOTAG,      \* the reserved tag, the last one of the tag space (0xFFFF)
    MaxConn,    \* bound: how often connectAndNegotiate may connect
    Faults      \* the disturbances that may happen, a subset of AllFaults

(* "cancel"      a caller's task is cancelled while its call waits         *)
(* "rerror"      the server answers a request with Rerror                  *)
(* "undecodable" the server answers with a type decodeHeader rejects, as   *)
(*               Rlerror of 9P2000.L, which NineP.MsgType does not list    *)
(* "hangup"      the peer closes the connection                            *)
(* "frame"       a message with a size below 7 arrives                     *)
(* "remount"     connectAndNegotiate runs again with no disconnect between *)
AllFaults == {"cancel", "rerror", "undecodable", "hangup", "frame", "remount"}

ASSUME CallsAssumption == NoCall \notin Calls
ASSUME NotagAssumption == NOTAG \in Nat \ {0}
ASSUME MaxConnAssumption == MaxConn \in Nat
ASSUME FaultsAssumption == Faults \subseteq AllFaults

Tags == 0 .. (NOTAG - 1)        \* every tag a request may carry
Conns == 1 .. MaxConn           \* a connection, and the reader started with it
NoConn == 0                     \* fd = -1, readerTask = nil
Answers == {"reply", "rerror", "undecodable"}
Endings == {"reply", "rerror", "mismatch", "undecodable", "lost", "reset",
            "unsent", "cancelled"}

VARIABLES
    nextTag,        \* the counter allocTag starts from
    inflight,       \* tag -> the call whose continuation is registered
    status,         \* "idle", "waiting" (suspended on its continuation), "done"
    tagOf,          \* the local `tag` of each call, captured by onCancel
    ending,         \* how each call ended and which call's message did it
    resumes,        \* how often each continuation has been resumed
    cancelTask,     \* "none", "queued" or "run": the task onCancel spawns
    conn,           \* sock.fd
    opened,         \* how many connections were made
    down,           \* connections one of the two ends has closed
    owed,           \* requests the server has received and not yet answered
    readerTask,     \* the handle readerTask
    readerAt,       \* where each reader is in its loop
    readerCancelled,\* the readers whose task is cancelled
    readerFd,       \* the descriptor recvMessage works on, NoConn outside it
    readerMsg,      \* the message each reader holds
    spinning        \* allocTag loops for ever and holds the actor

callVars == <<status, tagOf, ending, resumes>>
readerVars == <<readerAt, readerCancelled, readerFd, readerMsg>>
sockVars == <<conn, opened, down>>
vars == <<nextTag, inflight, callVars, cancelTask, sockVars, owed, readerTask,
          readerVars, spinning>>

Pending == [is |-> "pending"]
Nothing == [is |-> "nothing"]
Message == [is : Answers, tag : Tags, call : Calls]
Request == [conn : Conns, tag : Tags, call : Calls]

Init ==
    /\ nextTag = 1
    /\ inflight = [t \in Tags |-> NoCall]
    /\ status = [c \in Calls |-> "idle"]
    /\ tagOf = [c \in Calls |-> NOTAG]
    /\ ending = [c \in Calls |-> Pending]
    /\ resumes = [c \in Calls |-> 0]
    /\ cancelTask = [c \in Calls |-> "none"]
    /\ conn = NoConn
    /\ opened = 0
    /\ down = {}
    /\ owed = {}
    /\ readerTask = NoConn
    /\ readerAt = [r \in Conns |-> "none"]
    /\ readerCancelled = {}
    /\ readerFd = [r \in Conns |-> NoConn]
    /\ readerMsg = [r \in Conns |-> Nothing]
    /\ spinning = FALSE

-----------------------------------------------------------------------------
(* Continuations and the inflight table.                                   *)

(* Resume the continuations of the calls in DOMAIN e; e[c] is how c ends.  *)
Resume(e) ==
    /\ status' = [c \in Calls |-> IF c \in DOMAIN e THEN "done" ELSE status[c]]
    /\ ending' = [c \in Calls |-> IF c \in DOMAIN e THEN e[c] ELSE ending[c]]
    /\ resumes' = [c \in Calls |-> IF c \in DOMAIN e THEN resumes[c] + 1
                                                     ELSE resumes[c]]
    /\ UNCHANGED tagOf

Registered == {inflight[t] : t \in Tags} \ {NoCall}

(* Mutant: the waiters are resumed and the table is left as it is.         *)
FailAllKeepsTable(way) ==
    /\ UNCHANGED inflight
    /\ Resume([c \in Registered |-> [is |-> way, of |-> c]])

(* failAllInflight(error), and the same loop in disconnect.                *)
FailAll(way) ==
    /\ inflight' = [t \in Tags |-> NoCall]
    /\ Resume([c \in Registered |-> [is |-> way, of |-> c]])

(* inflight.removeValue(forKey: tag) and, when there was an entry, its     *)
(* continuation is resumed.                                                *)
TakeAndResume(tag, way, of) ==
    /\ inflight' = [inflight EXCEPT ![tag] = NoCall]
    /\ Resume([c \in {inflight[tag]} \ {NoCall} |-> [is |-> way, of |-> of]])

-----------------------------------------------------------------------------
(* Requests.                                                               *)

TagSpace == NOTAG + 1

(* Mutant: the reserved tag is not skipped.                                *)
FreeNotag(t) == IF t = NOTAG THEN TRUE ELSE inflight[t] = NoCall

Free(t) == t # NOTAG /\ inflight[t] = NoCall

(* Mutant: the counter stays, so a tag is taken again as soon as its entry *)
(* is gone.                                                                *)
AllocTagAgain(t) ==
    /\ \E k \in 0 .. NOTAG :
          /\ t = (nextTag + k) % TagSpace
          /\ Free(t)
          /\ \A j \in 0 .. (k - 1) : ~Free((nextTag + j) % TagSpace)
    /\ UNCHANGED nextTag

(* allocTag: the first free tag from nextTag on, round the 16-bit space.   *)
AllocTag(t) ==
    /\ \E k \in 0 .. NOTAG :
          /\ t = (nextTag + k) % TagSpace
          /\ Free(t)
          /\ \A j \in 0 .. (k - 1) : ~Free((nextTag + j) % TagSpace)
    /\ nextTag' = (t + 1) % TagSpace

(* rpcAsync up to its suspension: the tag is taken, the continuation       *)
(* registered and the request written, all in one stretch on the actor.    *)
(* A peer that has hung up leaves the write to succeed or to fail.         *)
Start(c) ==
    /\ ~spinning
    /\ status[c] = "idle"
    /\ conn # NoConn
    /\ \E t \in 0 .. NOTAG :
          /\ AllocTag(t)
          /\ inflight' = [inflight EXCEPT ![t] = c]
          /\ tagOf' = [tagOf EXCEPT ![c] = t]
          /\ owed' = IF conn \in down THEN owed
                     ELSE owed \cup {[conn |-> conn, tag |-> t, call |-> c]}
    /\ status' = [status EXCEPT ![c] = "waiting"]
    /\ UNCHANGED <<ending, resumes, cancelTask, sockVars, readerTask, readerVars,
                   spinning>>

(* Mutant: the entry stays registered when the write throws.               *)
StartFailsKeepsEntry(c) ==
    /\ ~spinning
    /\ status[c] = "idle"
    /\ conn = NoConn \/ conn \in down
    /\ \E t \in 0 .. NOTAG :
          /\ AllocTag(t)
          /\ inflight' = [inflight EXCEPT ![t] = c]
          /\ tagOf' = [tagOf EXCEPT ![c] = t]
    /\ status' = [status EXCEPT ![c] = "done"]
    /\ ending' = [ending EXCEPT ![c] = [is |-> "unsent", of |-> c]]
    /\ resumes' = [resumes EXCEPT ![c] = @ + 1]
    /\ UNCHANGED <<cancelTask, sockVars, owed, readerTask, readerVars, spinning>>

(* The write throws: the entry is dropped again and the call ends.         *)
StartFails(c) ==
    /\ ~spinning
    /\ status[c] = "idle"
    /\ conn = NoConn \/ conn \in down
    /\ \E t \in 0 .. NOTAG :
          /\ AllocTag(t)
          /\ tagOf' = [tagOf EXCEPT ![c] = t]
    /\ status' = [status EXCEPT ![c] = "done"]
    /\ ending' = [ending EXCEPT ![c] = [is |-> "unsent", of |-> c]]
    /\ resumes' = [resumes EXCEPT ![c] = @ + 1]
    /\ UNCHANGED <<inflight, cancelTask, sockVars, owed, readerTask, readerVars,
                   spinning>>

(* With every tag in use allocTag never leaves its loop, and the actor it  *)
(* holds can take neither a reply nor a cancellation.                      *)
AllocTagSpins(c) ==
    /\ ~spinning
    /\ status[c] = "idle"
    /\ \A t \in Tags : ~Free(t)
    /\ spinning' = TRUE
    /\ UNCHANGED <<nextTag, inflight, callVars, cancelTask, sockVars, owed,
                   readerTask, readerVars>>

(* onCancel, in the cancelling thread: it only queues a task.  The handler *)
(* stays in force until the resumed call has left its scope, so it may     *)
(* still run for a call that has ended.                                    *)
OnCancel(c) ==
    /\ "cancel" \in Faults
    /\ status[c] # "idle"
    /\ cancelTask[c] = "none"
    /\ cancelTask' = [cancelTask EXCEPT ![c] = "queued"]
    /\ UNCHANGED <<nextTag, inflight, callVars, sockVars, owed, readerTask,
                   readerVars, spinning>>

(* Mutant: one cancellation ends every waiting call.                       *)
CancelAll(c) ==
    /\ ~spinning
    /\ cancelTask[c] = "queued"
    /\ cancelTask' = [cancelTask EXCEPT ![c] = "run"]
    /\ FailAll("cancelled")
    /\ UNCHANGED <<nextTag, sockVars, owed, readerTask, readerVars, spinning>>

(* cancel(tag:), when that task gets the actor: whoever is registered      *)
(* under the tag by then is resumed.  The server is not told.              *)
Cancel(c) ==
    /\ ~spinning
    /\ cancelTask[c] = "queued"
    /\ cancelTask' = [cancelTask EXCEPT ![c] = "run"]
    /\ TakeAndResume(tagOf[c], "cancelled", c)
    /\ UNCHANGED <<nextTag, sockVars, owed, readerTask, readerVars, spinning>>

-----------------------------------------------------------------------------
(* The connection.                                                         *)

(* Mutant: a reader is started whether or not one is held already.         *)
ConnectStartsReader ==
    /\ ~spinning
    /\ opened < MaxConn
    /\ (conn = NoConn /\ readerTask = NoConn) \/ "remount" \in Faults
    /\ opened' = opened + 1
    /\ conn' = opened + 1
    /\ readerTask' = opened + 1
    /\ readerAt' = [readerAt EXCEPT ![opened + 1] = "loop"]
    /\ UNCHANGED <<nextTag, inflight, callVars, cancelTask, down, owed,
                   readerCancelled, readerFd, readerMsg, spinning>>

(* connectAndNegotiate up to its first request: sock.connect puts the new  *)
(* descriptor in place of the old one, startReaderIfNeeded starts a reader *)
(* only when it holds no handle.  The Tversion requests are Calls.         *)
Connect ==
    /\ ~spinning
    /\ opened < MaxConn
    /\ (conn = NoConn /\ readerTask = NoConn) \/ "remount" \in Faults
    /\ opened' = opened + 1
    /\ conn' = opened + 1
    /\ IF readerTask = NoConn
       THEN /\ readerTask' = opened + 1
            /\ readerAt' = [readerAt EXCEPT ![opened + 1] = "loop"]
       ELSE UNCHANGED <<readerTask, readerAt>>
    /\ UNCHANGED <<nextTag, inflight, callVars, cancelTask, down, owed,
                   readerCancelled, readerFd, readerMsg, spinning>>

(* disconnect: cancel the reader, close the socket, fail every waiter.     *)
Disconnect ==
    /\ ~spinning
    /\ conn # NoConn
    /\ readerCancelled' = readerCancelled \cup ({readerTask} \ {NoConn})
    /\ readerTask' = NoConn
    /\ conn' = NoConn
    /\ down' = down \cup {conn}
    /\ owed' = {q \in owed : q.conn # conn}
    /\ FailAll("reset")
    /\ UNCHANGED <<nextTag, cancelTask, opened, readerAt, readerFd, readerMsg,
                   spinning>>

(* The peer closes a connection; what it still owed is not answered.       *)
HangUp(k) ==
    /\ "hangup" \in Faults
    /\ k <= opened /\ k \notin down
    /\ down' = down \cup {k}
    /\ owed' = {q \in owed : q.conn # k}
    /\ UNCHANGED <<nextTag, inflight, callVars, cancelTask, conn, opened,
                   readerTask, readerVars, spinning>>

-----------------------------------------------------------------------------
(* The reader task.                                                        *)

(* `while !Task.isCancelled`, then recvMessage on the descriptor of now.   *)
ReaderLoop(r) ==
    /\ readerAt[r] = "loop"
    /\ IF r \in readerCancelled
       THEN /\ readerAt' = [readerAt EXCEPT ![r] = "exited"]
            /\ UNCHANGED readerFd
       ELSE /\ readerAt' = [readerAt EXCEPT ![r] = "recv"]
            /\ readerFd' = [readerFd EXCEPT ![r] = conn]
    /\ UNCHANGED <<nextTag, inflight, callVars, cancelTask, sockVars, owed,
                   readerTask, readerCancelled, readerMsg, spinning>>

(* The server answers call c and recvMessage returns the answer.           *)
Receive(r, c) ==
    /\ readerAt[r] = "recv"
    /\ \E q \in owed, a \in Answers :
          /\ q.call = c /\ q.conn = readerFd[r]
          /\ a = "reply" \/ a \in Faults
          /\ owed' = owed \ {q}
          /\ readerMsg' = [readerMsg EXCEPT
                              ![r] = [is |-> a, tag |-> q.tag, call |-> c]]
    /\ readerAt' = [readerAt EXCEPT ![r] = "handle"]
    /\ readerFd' = [readerFd EXCEPT ![r] = NoConn]
    /\ UNCHANGED <<nextTag, inflight, callVars, cancelTask, sockVars, readerTask,
                   readerCancelled, spinning>>

(* recvMessage throws: a closed descriptor, end of file, or a bad frame.   *)
ReceiveFails(r) ==
    /\ readerAt[r] = "recv"
    /\ readerFd[r] = NoConn \/ readerFd[r] \in down \/ "frame" \in Faults
    /\ readerAt' = [readerAt EXCEPT ![r] = "fail"]
    /\ readerFd' = [readerFd EXCEPT ![r] = NoConn]
    /\ UNCHANGED <<nextTag, inflight, callVars, cancelTask, sockVars, owed,
                   readerTask, readerCancelled, readerMsg, spinning>>

(* How the call registered under m's tag ends: a reply of a type it does   *)
(* not expect is EPROTO.                                                   *)
Verdict(m) ==
    IF m.is = "reply" /\ inflight[m.tag] \in {c \in Calls : KindOf[c] # KindOf[m.call]}
    THEN "mismatch"
    ELSE m.is

(* Mutant: a message that cannot be decoded is dropped.                    *)
HandleIncomingDrops(r) ==
    LET m == readerMsg[r] IN
    /\ ~spinning
    /\ readerAt[r] = "handle"
    /\ \/ m.is = "undecodable" /\ UNCHANGED <<inflight, callVars>>
       \/ m.is # "undecodable" /\ TakeAndResume(m.tag, Verdict(m), m.call)
    /\ readerAt' = [readerAt EXCEPT ![r] = "loop"]
    /\ readerMsg' = [readerMsg EXCEPT ![r] = Nothing]
    /\ UNCHANGED <<nextTag, cancelTask, sockVars, owed, readerTask,
                   readerCancelled, readerFd, spinning>>

(* handleIncoming(msg) on the actor.                                       *)
HandleIncoming(r) ==
    LET m == readerMsg[r] IN
    /\ ~spinning
    /\ readerAt[r] = "handle"
    /\ \/ m.is = "undecodable" /\ FailAll("undecodable")
       \/ m.is # "undecodable" /\ TakeAndResume(m.tag, Verdict(m), m.call)
    /\ readerAt' = [readerAt EXCEPT ![r] = "loop"]
    /\ readerMsg' = [readerMsg EXCEPT ![r] = Nothing]
    /\ UNCHANGED <<nextTag, cancelTask, sockVars, owed, readerTask,
                   readerCancelled, readerFd, spinning>>

(* The reader's last act after an error; its handle stays in readerTask.   *)
FailAllInflight(r) ==
    /\ ~spinning
    /\ readerAt[r] = "fail"
    /\ readerAt' = [readerAt EXCEPT ![r] = "exited"]
    /\ FailAll("lost")
    /\ UNCHANGED <<nextTag, cancelTask, sockVars, owed, readerTask,
                   readerCancelled, readerFd, readerMsg, spinning>>

-----------------------------------------------------------------------------
Next ==
    \/ Connect \/ Disconnect
    \/ \E c \in Calls :
          Start(c) \/ StartFails(c) \/ AllocTagSpins(c) \/ OnCancel(c) \/ Cancel(c)
    \/ \E k \in Conns : HangUp(k)
    \/ \E r \in Conns :
          \/ ReaderLoop(r) \/ ReceiveFails(r) \/ HandleIncoming(r)
          \/ FailAllInflight(r)
          \/ \E c \in Calls : Receive(r, c)

Spec == Init /\ [][Next]_vars

(* The server answers what it owes, a failing recv returns, and tasks that *)
(* are ready to run are scheduled.  Nobody is obliged to start, cancel,    *)
(* connect or disconnect, and no fault has to happen.                      *)
Fairness ==
    /\ \A c \in Calls : WF_vars(Cancel(c))
    /\ \A r \in Conns :
          /\ WF_vars(ReaderLoop(r))
          /\ WF_vars(HandleIncoming(r))
          /\ WF_vars(FailAllInflight(r))
          /\ WF_vars(readerFd[r] \in down \cup {NoConn} /\ ReceiveFails(r))
          /\ \A c \in Calls : WF_vars(Receive(r, c))

FairSpec == Spec /\ Fairness

-----------------------------------------------------------------------------
(* Properties.                                                             *)

TypeOK ==
    /\ nextTag \in 0 .. NOTAG
    /\ inflight \in [Tags -> Calls \cup {NoCall}]
    /\ status \in [Calls -> {"idle", "waiting", "done"}]
    /\ tagOf \in [Calls -> 0 .. NOTAG]
    /\ ending \in [Calls -> [is : Endings, of : Calls] \cup {Pending}]
    /\ resumes \in [Calls -> Nat]
    /\ cancelTask \in [Calls -> {"none", "queued", "run"}]
    /\ conn \in 0 .. MaxConn
    /\ opened \in 0 .. MaxConn
    /\ down \subseteq Conns
    /\ owed \subseteq Request
    /\ readerTask \in 0 .. MaxConn
    /\ readerAt \in [Conns -> {"none", "loop", "recv", "handle", "fail", "exited"}]
    /\ readerCancelled \subseteq Conns
    /\ readerFd \in [Conns -> 0 .. MaxConn]
    /\ readerMsg \in [Conns -> Message \cup {Nothing}]
    /\ \A r \in Conns : readerAt[r] = "handle" => readerMsg[r] \in Message
    /\ spinning \in BOOLEAN

(* A call is suspended exactly while it is registered under its own tag:   *)
(* no waiter is ever dropped from inflight without being resumed, and no   *)
(* two waiting calls hold one tag, whatever fails or is cancelled.         *)
Registration ==
    /\ \A t \in Tags : inflight[t] # NoCall =>
          status[inflight[t]] = "waiting" /\ tagOf[inflight[t]] = t
    /\ \A c \in Calls : status[c] = "waiting" =>
          tagOf[c] \in Tags /\ inflight[tagOf[c]] = c

(* The continuation of a call is resumed once, by whichever of the reply,  *)
(* the failed write, the cancellation, the disconnection and the reader's  *)
(* failure comes first: a second resume traps in CheckedContinuation.      *)
ResumedOnce ==
    \A c \in Calls : resumes[c] = IF status[c] = "done" THEN 1 ELSE 0

(* Only the reader that readerTask holds goes on reading; every other one  *)
(* is cancelled or has ended, so no two readers share one stream for good. *)
OneReader ==
    \A r \in Conns :
        readerAt[r] \notin {"none", "exited"} /\ r \notin readerCancelled
            => r = readerTask

(* A call ends by its own message: the answer to it, not to another call.  *)
OwnReply ==
    \A c \in Calls : status[c] = "done" => ending[c].of = c

(* Responses are matched by tag and resume the appropriate waiter: what    *)
(* the server answers to a call resumes no other call.                     *)
OwnAnswer ==
    \A c \in Calls : ending[c] # Pending /\ ending[c].is \in {"reply", "rerror", "mismatch"}
                        => ending[c].of = c

(* The service the callers see, with the tags and the readers hidden: a    *)
(* reset connection and one that talks nonsense are lost to them.          *)
Shown(e) ==
    IF e # Pending /\ e.is \in {"reset", "undecodable"} THEN [is |-> "lost", of |-> e.of] ELSE e

shownEnding == [c \in Calls |-> Shown(ending[c])]
givenUp == {c \in Calls : cancelTask[c] # "none"}

Service == INSTANCE RpcService WITH phase <- status, ending <- shownEnding, givenUp <- givenUp

(* The detailed client implements RpcService: each call ends once, with    *)
(* its own answer, with the loss of the connection or with a cancellation  *)
(* its own caller asked for.                                               *)
ImplementsService == Service!Spec

(* The reader has ended but its handle is kept, so no other one is started *)
(* and the connection, if there is one, is not read again.                 *)
Unread == readerTask # NoConn /\ readerAt[readerTask] \in {"fail", "exited"}

(* Every call that was sent ends.                                          *)
EveryCallEnds == \A c \in Calls : status[c] = "waiting" ~> status[c] = "done"

(* A call waits for ever only when nobody reads its connection any more.   *)
EveryReadCallEnds ==
    \A c \in Calls : status[c] = "waiting" ~> (status[c] = "done" \/ Unread)
=============================================================================
