----------------------- MODULE NinePAsyncClient_proofs -----------------------
(***************************************************************************)
(* Theorems about NinePAsyncClient for every set of calls, every size of   *)
(* the tag space, any number of reconnections and every set of faults.     *)
(***************************************************************************)
EXTENDS NinePAsyncClient, FiniteSetTheorems, TLAPS

USE CallsAssumption, NotagAssumption, MaxConnAssumption, FaultsAssumption

(* allocTag never picks the reserved tag.                                  *)
LEMMA AllocTagPicksTag == \A t \in 0 .. NOTAG : AllocTag(t) => t \in Tags
  BY DEF AllocTag, Free, Tags

(* What allocTag picks is a free tag, and its counter stays in the 16-bit  *)
(* space.                                                                  *)
LEMMA AllocTagPicksFree ==
    ASSUME NEW t \in Tags, AllocTag(t)
    PROVE  /\ inflight[t] = NoCall
           /\ nextTag' \in 0 .. NOTAG
           /\ nextTag' = t + 1
<1>1. (t + 1) % (NOTAG + 1) = t + 1
  BY DEF Tags
<1> QED
  BY <1>1 DEF AllocTag, Free, Tags, TagSpace

(* Resuming keeps the per-call records well typed.                         *)
LEMMA ResumeType ==
    ASSUME TypeOK, NEW e, DOMAIN e \subseteq Calls, Resume(e),
           \A c \in DOMAIN e : e[c] \in [is : Endings, of : Calls]
    PROVE  /\ status' \in [Calls -> {"idle", "waiting", "done"}]
           /\ tagOf' \in [Calls -> 0 .. NOTAG]
           /\ ending' \in [Calls -> [is : Endings, of : Calls] \cup {Pending}]
           /\ resumes' \in [Calls -> Nat]
  BY DEF Resume, TypeOK

(* The calls found in inflight are calls.                                  *)
LEMMA RegisteredCalls == TypeOK => Registered \subseteq Calls
  BY DEF TypeOK, Registered

LEMMA FailAllType ==
    ASSUME TypeOK, NEW way \in Endings, FailAll(way)
    PROVE  /\ inflight' \in [Tags -> Calls \cup {NoCall}]
           /\ status' \in [Calls -> {"idle", "waiting", "done"}]
           /\ tagOf' \in [Calls -> 0 .. NOTAG]
           /\ ending' \in [Calls -> [is : Endings, of : Calls] \cup {Pending}]
           /\ resumes' \in [Calls -> Nat]
<1> DEFINE e == [c \in Registered |-> [is |-> way, of |-> c]]
<1>1. inflight' \in [Tags -> Calls \cup {NoCall}] /\ Resume(e)
  BY DEF FailAll
<1>2. DOMAIN e \subseteq Calls /\ \A c \in DOMAIN e : e[c] \in [is : Endings, of : Calls]
  BY RegisteredCalls
<1> HIDE DEF e
<1> QED
  BY <1>1, <1>2, ResumeType

LEMMA TakeAndResumeType ==
    ASSUME TypeOK, NEW tag \in Tags, NEW way \in Endings, NEW of \in Calls,
           TakeAndResume(tag, way, of)
    PROVE  /\ inflight' \in [Tags -> Calls \cup {NoCall}]
           /\ status' \in [Calls -> {"idle", "waiting", "done"}]
           /\ tagOf' \in [Calls -> 0 .. NOTAG]
           /\ ending' \in [Calls -> [is : Endings, of : Calls] \cup {Pending}]
           /\ resumes' \in [Calls -> Nat]
<1> DEFINE e == [c \in {inflight[tag]} \ {NoCall} |-> [is |-> way, of |-> of]]
<1>1. inflight' \in [Tags -> Calls \cup {NoCall}] /\ Resume(e)
  BY DEF TakeAndResume, TypeOK
<1>2. DOMAIN e \subseteq Calls /\ \A c \in DOMAIN e : e[c] \in [is : Endings, of : Calls]
  BY DEF TypeOK
<1> HIDE DEF e
<1> QED
  BY <1>1, <1>2, ResumeType

(* A call with a queued cancellation has been given a tag.                 *)
TaggedInv ==
    \A c \in Calls : (cancelTask[c] # "none" \/ status[c] # "idle") => tagOf[c] \in Tags

LEMMA TypeStep == TypeOK /\ TaggedInv /\ [Next]_vars => TypeOK'
<1> SUFFICES ASSUME TypeOK, TaggedInv, [Next]_vars PROVE TypeOK'
  OBVIOUS
<1> USE DEF callVars, readerVars, sockVars, Conns, NoConn
<1>1. CASE Connect
  BY <1>1, SMTT(20) DEF Connect, TypeOK
<1>2. CASE Disconnect
  <2>1. FailAll("reset") /\ "reset" \in Endings
    BY <1>2 DEF Disconnect, Endings
  <2>2. conn' \in 0 .. MaxConn /\ readerTask' \in 0 .. MaxConn /\ down' \subseteq Conns
        /\ readerCancelled' \subseteq Conns /\ owed' \subseteq Request
    BY <1>2 DEF Disconnect, TypeOK
  <2> QED
    BY <1>2, <2>1, <2>2, FailAllType DEF Disconnect, TypeOK
<1>3. ASSUME NEW c \in Calls, Start(c) PROVE TypeOK'
  <2>1. PICK t \in Tags :
          /\ AllocTag(t)
          /\ inflight' = [inflight EXCEPT ![t] = c]
          /\ tagOf' = [tagOf EXCEPT ![c] = t]
          /\ owed' = IF conn \in down THEN owed
                     ELSE owed \cup {[conn |-> conn, tag |-> t, call |-> c]}
    BY <1>3, AllocTagPicksTag DEF Start
  <2>2. nextTag' \in 0 .. NOTAG
    BY <2>1, AllocTagPicksFree
  <2>3. tagOf' \in [Calls -> 0 .. NOTAG] /\ inflight' \in [Tags -> Calls \cup {NoCall}]
    BY <2>1 DEF TypeOK, Tags
  <2>4. owed' \subseteq Request
    BY <1>3, <2>1 DEF Start, TypeOK, Request
  <2> QED
    BY <1>3, <2>2, <2>3, <2>4 DEF Start, TypeOK
<1>4. ASSUME NEW c \in Calls, StartFails(c) PROVE TypeOK'
  <2>1. PICK t \in Tags : AllocTag(t) /\ tagOf' = [tagOf EXCEPT ![c] = t]
    BY <1>4, AllocTagPicksTag DEF StartFails
  <2>2. nextTag' \in 0 .. NOTAG /\ tagOf' \in [Calls -> 0 .. NOTAG]
    BY <2>1, AllocTagPicksFree DEF TypeOK, Tags
  <2>3. ending' \in [Calls -> [is : Endings, of : Calls] \cup {Pending}]
    BY <1>4 DEF StartFails, TypeOK, Endings
  <2>4. status' \in [Calls -> {"idle", "waiting", "done"}] /\ resumes' \in [Calls -> Nat]
    BY <1>4 DEF StartFails, TypeOK
  <2>5. UNCHANGED <<inflight, cancelTask, sockVars, owed, readerTask, readerVars, spinning>>
    BY <1>4 DEF StartFails
  <2> QED
    BY <2>2, <2>3, <2>4, <2>5 DEF TypeOK, sockVars, readerVars
<1>5. ASSUME NEW c \in Calls, AllocTagSpins(c) PROVE TypeOK'
  BY <1>5 DEF AllocTagSpins, TypeOK
<1>6. ASSUME NEW c \in Calls, OnCancel(c) PROVE TypeOK'
  BY <1>6 DEF OnCancel, TypeOK
<1>7. ASSUME NEW c \in Calls, Cancel(c) PROVE TypeOK'
  <2>1. TakeAndResume(tagOf[c], "cancelled", c) /\ tagOf[c] \in Tags /\ "cancelled" \in Endings
    BY <1>7 DEF Cancel, TaggedInv, Endings
  <2>2. cancelTask' \in [Calls -> {"none", "queued", "run"}]
    BY <1>7 DEF Cancel, TypeOK
  <2> QED
    BY <1>7, <2>1, <2>2, TakeAndResumeType DEF Cancel, TypeOK
<1>8. ASSUME NEW k \in Conns, HangUp(k) PROVE TypeOK'
  BY <1>8 DEF HangUp, TypeOK
<1>9. ASSUME NEW r \in Conns, ReaderLoop(r) PROVE TypeOK'
  <2>1. readerAt' \in [Conns -> {"none", "loop", "recv", "handle", "fail", "exited"}]
    BY <1>9 DEF ReaderLoop, TypeOK
  <2>2. readerFd' \in [Conns -> 0 .. MaxConn] /\ \A p \in Conns : readerAt'[p] = "handle" => readerAt[p] = "handle"
    BY <1>9 DEF ReaderLoop, TypeOK
  <2> QED
    BY <1>9, <2>1, <2>2 DEF ReaderLoop, TypeOK
<1>10. ASSUME NEW r \in Conns, ReceiveFails(r) PROVE TypeOK'
  BY <1>10 DEF ReceiveFails, TypeOK
<1>11. ASSUME NEW r \in Conns, HandleIncoming(r) PROVE TypeOK'
  <2> DEFINE m == readerMsg[r]
  <2>1. m \in Message
    BY <1>11 DEF HandleIncoming, TypeOK
  <2>2. Verdict(m) \in Endings /\ m.tag \in Tags /\ m.call \in Calls /\ "undecodable" \in Endings
    BY <2>1 DEF Verdict, Endings, Answers, Message
  <2>3. FailAll("undecodable") \/ TakeAndResume(m.tag, Verdict(m), m.call)
    BY <1>11 DEF HandleIncoming
  <2>4. /\ inflight' \in [Tags -> Calls \cup {NoCall}]
        /\ status' \in [Calls -> {"idle", "waiting", "done"}]
        /\ tagOf' \in [Calls -> 0 .. NOTAG]
        /\ ending' \in [Calls -> [is : Endings, of : Calls] \cup {Pending}]
        /\ resumes' \in [Calls -> Nat]
    BY <2>2, <2>3, FailAllType, TakeAndResumeType
  <2>5. readerAt' \in [Conns -> {"none", "loop", "recv", "handle", "fail", "exited"}]
        /\ readerMsg' \in [Conns -> Message \cup {Nothing}]
        /\ \A q \in Conns : readerAt'[q] = "handle" => readerMsg'[q] \in Message
    BY <1>11 DEF HandleIncoming, TypeOK
  <2> QED
    BY <1>11, <2>4, <2>5 DEF HandleIncoming, TypeOK
<1>12. ASSUME NEW r \in Conns, FailAllInflight(r) PROVE TypeOK'
  <2>1. FailAll("lost") /\ "lost" \in Endings
    BY <1>12 DEF FailAllInflight, Endings
  <2>2. readerAt' \in [Conns -> {"none", "loop", "recv", "handle", "fail", "exited"}]
        /\ \A q \in Conns : readerAt'[q] = "handle" => readerMsg[q] \in Message
    BY <1>12 DEF FailAllInflight, TypeOK
  <2> QED
    BY <1>12, <2>1, <2>2, FailAllType DEF FailAllInflight, TypeOK
<1>13. ASSUME NEW r \in Conns, NEW c \in Calls, Receive(r, c) PROVE TypeOK'
  <2>1. PICK q \in owed, a \in Answers :
          /\ q.call = c
          /\ owed' = owed \ {q}
          /\ readerMsg' = [readerMsg EXCEPT ![r] = [is |-> a, tag |-> q.tag, call |-> c]]
    BY <1>13 DEF Receive
  <2>2. [is |-> a, tag |-> q.tag, call |-> c] \in Message
    BY <2>1 DEF TypeOK, Request, Message
  <2> DEFINE m == [is |-> a, tag |-> q.tag, call |-> c]
  <2> HIDE DEF m
  <2>3. readerMsg' = [readerMsg EXCEPT ![r] = m] /\ m \in Message
    BY <2>1, <2>2 DEF m
  <2>4. readerMsg' \in [Conns -> Message \cup {Nothing}]
        /\ \A p \in Conns : readerAt'[p] = "handle" => readerMsg'[p] \in Message
    BY <1>13, <2>3 DEF Receive, TypeOK
  <2> QED
    BY <1>13, <2>1, <2>4 DEF Receive, TypeOK
<1>14. CASE UNCHANGED vars
  BY <1>14 DEF vars, TypeOK
<1> QED
  BY <1>1, <1>2, <1>3, <1>4, <1>5, <1>6, <1>7, <1>8, <1>9, <1>10, <1>11, <1>12,
     <1>13, <1>14 DEF Next

-----------------------------------------------------------------------------
(* The inductive invariant behind Registration and ResumedOnce: the two    *)
(* support each other (an entry that is resumed must not have been resumed *)
(* before), and a call under cancellation must already own a tag.          *)
IInv == TypeOK /\ TaggedInv /\ Registration /\ ResumedOnce

(* Resuming exactly the calls that leave the table keeps the books.        *)
LEMMA FailAllKeeps ==
    ASSUME IInv, NEW way, FailAll(way)
    PROVE  /\ Registration' /\ ResumedOnce'
           /\ tagOf' = tagOf
           /\ \A c \in Calls : status'[c] = IF status[c] = "waiting" THEN "done" ELSE status[c]
<1> USE DEF IInv
<1>1. /\ inflight' = [t \in Tags |-> NoCall]
      /\ status' = [c \in Calls |-> IF c \in Registered THEN "done" ELSE status[c]]
      /\ resumes' = [c \in Calls |-> IF c \in Registered THEN resumes[c] + 1 ELSE resumes[c]]
      /\ tagOf' = tagOf
  BY DEF FailAll, Resume
<1>2. \A c \in Calls : c \in Registered <=> status[c] = "waiting"
  BY DEF Registered, Registration, TypeOK
<1>3. \A c \in Calls : status'[c] = IF status[c] = "waiting" THEN "done" ELSE status[c]
  BY <1>1, <1>2
<1>4. Registration'
  BY <1>1, <1>3 DEF Registration, TypeOK
<1>5. ResumedOnce'
  BY <1>1, <1>2, <1>3 DEF ResumedOnce, TypeOK
<1> QED
  BY <1>1, <1>3, <1>4, <1>5

LEMMA TakeAndResumeKeeps ==
    ASSUME IInv, NEW tag \in Tags, NEW way, NEW of, TakeAndResume(tag, way, of)
    PROVE  /\ Registration' /\ ResumedOnce'
           /\ tagOf' = tagOf
           /\ \A c \in Calls : status'[c] = IF c = inflight[tag] THEN "done" ELSE status[c]
<1> USE DEF IInv
<1> DEFINE w == inflight[tag]
<1>1. /\ inflight' = [inflight EXCEPT ![tag] = NoCall]
      /\ status' = [c \in Calls |-> IF c \in {w} \ {NoCall} THEN "done" ELSE status[c]]
      /\ resumes' = [c \in Calls |-> IF c \in {w} \ {NoCall} THEN resumes[c] + 1
                                                             ELSE resumes[c]]
      /\ tagOf' = tagOf
  BY DEF TakeAndResume, Resume
<1>2. \A c \in Calls : c \in {w} \ {NoCall} <=> c = w
  BY CallsAssumption
<1>3. \A c \in Calls : status'[c] = IF c = w THEN "done" ELSE status[c]
  BY <1>1, <1>2
<1>4. w \in Calls => status[w] = "waiting" /\ tagOf[w] = tag
  BY CallsAssumption DEF Registration
<1>5. ResumedOnce'
  BY <1>1, <1>2, <1>3, <1>4 DEF ResumedOnce, TypeOK
<1>6. Registration'
  <2>1. \A t \in Tags : inflight'[t] # NoCall =>
          status'[inflight'[t]] = "waiting" /\ tagOf'[inflight'[t]] = t
    <3> SUFFICES ASSUME NEW t \in Tags, inflight'[t] # NoCall
                 PROVE  status'[inflight'[t]] = "waiting" /\ tagOf'[inflight'[t]] = t
      OBVIOUS
    <3>1. t # tag /\ inflight'[t] = inflight[t] /\ inflight[t] \in Calls
      BY <1>1 DEF TypeOK
    <3>2. status[inflight[t]] = "waiting" /\ tagOf[inflight[t]] = t
      BY <3>1 DEF Registration
    <3>3. inflight[t] # w
      BY <1>4, <3>1, <3>2
    <3> QED
      BY <1>1, <1>3, <3>1, <3>2, <3>3
  <2>2. \A c \in Calls : status'[c] = "waiting" =>
          tagOf'[c] \in Tags /\ inflight'[tagOf'[c]] = c
    <3> SUFFICES ASSUME NEW c \in Calls, status'[c] = "waiting"
                 PROVE  tagOf'[c] \in Tags /\ inflight'[tagOf'[c]] = c
      OBVIOUS
    <3>1. c # w /\ status[c] = "waiting"
      BY <1>3
    <3>2. tagOf[c] \in Tags /\ inflight[tagOf[c]] = c
      BY <3>1 DEF Registration
    <3> QED
      BY <1>1, <3>1, <3>2 DEF TypeOK
  <2> QED
    BY <2>1, <2>2 DEF Registration
<1> QED
  BY <1>1, <1>3, <1>5, <1>6

LEMMA InvStep == IInv /\ [Next]_vars => IInv'
<1> SUFFICES ASSUME IInv, [Next]_vars PROVE TaggedInv' /\ Registration' /\ ResumedOnce'
  BY TypeStep DEF IInv
<1> USE DEF IInv
<1>1. ASSUME UNCHANGED <<inflight, callVars>>,
             \A c \in Calls : cancelTask'[c] # "none" =>
                              cancelTask[c] # "none" \/ status[c] # "idle"
      PROVE  TaggedInv' /\ Registration' /\ ResumedOnce'
  BY <1>1 DEF TaggedInv, Registration, ResumedOnce, callVars
<1>2. ASSUME tagOf' = tagOf, UNCHANGED cancelTask,
             \A c \in Calls : status'[c] # "idle" => status[c] # "idle"
      PROVE  TaggedInv'
  BY <1>2 DEF TaggedInv
<1>3. CASE Connect
  BY <1>1, <1>3 DEF Connect
<1>4. CASE Disconnect
  <2>1. FailAll("reset") /\ UNCHANGED cancelTask
    BY <1>4 DEF Disconnect
  <2> QED
    BY <1>2, <2>1, FailAllKeeps
<1>5. ASSUME NEW c \in Calls, Start(c) PROVE TaggedInv' /\ Registration' /\ ResumedOnce'
  <2>1. PICK t \in Tags :
          /\ AllocTag(t)
          /\ inflight' = [inflight EXCEPT ![t] = c]
          /\ tagOf' = [tagOf EXCEPT ![c] = t]
    BY <1>5, AllocTagPicksTag DEF Start
  <2>2. inflight[t] = NoCall
    BY <2>1, AllocTagPicksFree
  <2>3. status[c] = "idle" /\ status' = [status EXCEPT ![c] = "waiting"]
        /\ UNCHANGED <<resumes, cancelTask>>
    BY <1>5 DEF Start
  <2>4. Registration'
    <3>1. \A u \in Tags : inflight'[u] # NoCall =>
            status'[inflight'[u]] = "waiting" /\ tagOf'[inflight'[u]] = u
      BY <2>1, <2>3 DEF Registration, TypeOK
    <3>2. \A d \in Calls : status'[d] = "waiting" =>
            tagOf'[d] \in Tags /\ inflight'[tagOf'[d]] = d
      BY <2>1, <2>2, <2>3, CallsAssumption DEF Registration, TypeOK
    <3> QED
      BY <3>1, <3>2 DEF Registration
  <2>5. ResumedOnce'
    BY <2>3 DEF ResumedOnce, TypeOK
  <2>6. TaggedInv'
    BY <2>1, <2>3 DEF TaggedInv, TypeOK
  <2> QED
    BY <2>4, <2>5, <2>6
<1>6. ASSUME NEW c \in Calls, StartFails(c) PROVE TaggedInv' /\ Registration' /\ ResumedOnce'
  <2>1. PICK t \in Tags : tagOf' = [tagOf EXCEPT ![c] = t]
    BY <1>6, AllocTagPicksTag DEF StartFails
  <2>2. /\ status[c] = "idle" /\ status' = [status EXCEPT ![c] = "done"]
        /\ resumes' = [resumes EXCEPT ![c] = @ + 1]
        /\ UNCHANGED <<inflight, cancelTask>>
    BY <1>6 DEF StartFails
  <2>3. Registration'
    BY <2>1, <2>2 DEF Registration, TypeOK
  <2>4. ResumedOnce'
    BY <2>2 DEF ResumedOnce, TypeOK
  <2>5. TaggedInv'
    BY <2>1, <2>2 DEF TaggedInv, TypeOK
  <2> QED
    BY <2>3, <2>4, <2>5
<1>7. ASSUME NEW c \in Calls, AllocTagSpins(c)
      PROVE  TaggedInv' /\ Registration' /\ ResumedOnce'
  BY <1>1, <1>7 DEF AllocTagSpins
<1>8. ASSUME NEW c \in Calls, OnCancel(c) PROVE TaggedInv' /\ Registration' /\ ResumedOnce'
  BY <1>1, <1>8 DEF OnCancel, TypeOK
<1>9. ASSUME NEW c \in Calls, Cancel(c) PROVE TaggedInv' /\ Registration' /\ ResumedOnce'
  <2>1. TakeAndResume(tagOf[c], "cancelled", c) /\ tagOf[c] \in Tags
    BY <1>9 DEF Cancel, TaggedInv
  <2>2. Registration' /\ ResumedOnce' /\ tagOf' = tagOf
        /\ \A d \in Calls : status'[d] # "idle" => status[d] # "idle" \/ d = inflight[tagOf[c]]
    BY <2>1, TakeAndResumeKeeps
  <2>3. \A d \in Calls : status'[d] # "idle" => status[d] # "idle"
    BY <2>1, <2>2, CallsAssumption DEF Registration
  <2>4. TaggedInv'
    BY <1>9, <2>2, <2>3 DEF Cancel, TaggedInv, TypeOK
  <2> QED
    BY <2>2, <2>4
<1>10. ASSUME NEW k \in Conns, HangUp(k) PROVE TaggedInv' /\ Registration' /\ ResumedOnce'
  BY <1>1, <1>10 DEF HangUp
<1>11. ASSUME NEW r \in Conns, ReaderLoop(r) PROVE TaggedInv' /\ Registration' /\ ResumedOnce'
  BY <1>1, <1>11 DEF ReaderLoop
<1>12. ASSUME NEW r \in Conns, ReceiveFails(r) PROVE TaggedInv' /\ Registration' /\ ResumedOnce'
  BY <1>1, <1>12 DEF ReceiveFails
<1>13. ASSUME NEW r \in Conns, HandleIncoming(r)
       PROVE  TaggedInv' /\ Registration' /\ ResumedOnce'
  <2> DEFINE m == readerMsg[r]
  <2>1. m \in Message /\ UNCHANGED cancelTask
    BY <1>13 DEF HandleIncoming, TypeOK
  <2>2. CASE FailAll("undecodable")
    BY <1>2, <2>1, <2>2, FailAllKeeps
  <2>3. CASE TakeAndResume(m.tag, Verdict(m), m.call)
    <3>1. m.tag \in Tags
      BY <2>1 DEF Message
    <3>2. Registration' /\ ResumedOnce' /\ tagOf' = tagOf
          /\ \A d \in Calls : status'[d] # "idle" => status[d] # "idle" \/ d = inflight[m.tag]
      BY <2>3, <3>1, TakeAndResumeKeeps
    <3>3. \A d \in Calls : status'[d] # "idle" => status[d] # "idle"
      BY <3>1, <3>2, CallsAssumption DEF Registration
    <3> QED
      BY <1>2, <2>1, <3>2, <3>3
  <2> QED
    BY <1>13, <2>2, <2>3 DEF HandleIncoming
<1>14. ASSUME NEW r \in Conns, FailAllInflight(r)
       PROVE  TaggedInv' /\ Registration' /\ ResumedOnce'
  <2>1. FailAll("lost") /\ UNCHANGED cancelTask
    BY <1>14 DEF FailAllInflight
  <2> QED
    BY <1>2, <2>1, FailAllKeeps
<1>15. ASSUME NEW r \in Conns, NEW c \in Calls, Receive(r, c)
       PROVE  TaggedInv' /\ Registration' /\ ResumedOnce'
  BY <1>1, <1>15 DEF Receive
<1>16. CASE UNCHANGED vars
  BY <1>1, <1>16 DEF vars
<1> QED
  BY <1>3, <1>4, <1>5, <1>6, <1>7, <1>8, <1>9, <1>10, <1>11, <1>12, <1>13,
     <1>14, <1>15, <1>16 DEF Next

LEMMA InvInit == Init => IInv
<1> SUFFICES ASSUME Init PROVE IInv
  OBVIOUS
<1>1. TypeOK
  <2>1. 1 \in 0 .. NOTAG /\ NOTAG \in 0 .. NOTAG /\ 0 \in 0 .. MaxConn
    OBVIOUS
  <2> QED
    BY <2>1 DEF Init, TypeOK, NoConn
<1>2. TaggedInv
  BY DEF Init, TaggedInv
<1>3. Registration /\ ResumedOnce
  BY DEF Init, Registration, ResumedOnce
<1> QED
  BY <1>1, <1>2, <1>3 DEF IInv

LEMMA InvHolds == Spec => []IInv
  BY InvInit, InvStep, PTL DEF Spec

(* Every variable keeps its type, whatever the calls, tags and faults.     *)
THEOREM TypeCorrect == Spec => []TypeOK
<1>1. IInv => TypeOK
  BY DEF IInv
<1> QED
  BY <1>1, InvHolds, PTL

(* A call is suspended exactly while it is registered under its own tag.   *)
THEOREM RegistrationHolds == Spec => []Registration
<1>1. IInv => Registration
  BY DEF IInv
<1> QED
  BY <1>1, InvHolds, PTL

(* No continuation is resumed twice, and none ends without a resume.       *)
THEOREM ResumedOnceHolds == Spec => []ResumedOnce
<1>1. IInv => ResumedOnce
  BY DEF IInv
<1> QED
  BY <1>1, InvHolds, PTL

-----------------------------------------------------------------------------
(* A step that starts no reader, and keeps the handle and the cancelled    *)
(* ones, keeps OneReader; connect starts one only without a handle, and    *)
(* disconnect cancels the one whose handle it drops.                       *)
LEMMA OneReaderStep == TypeOK /\ OneReader /\ [Next]_vars => OneReader'
<1> SUFFICES ASSUME TypeOK, OneReader, [Next]_vars PROVE OneReader'
  OBVIOUS
<1>1. ASSUME UNCHANGED <<readerTask, readerCancelled>>,
             \A r \in Conns : readerAt[r] \in {"none", "exited"} =>
                                readerAt'[r] \in {"none", "exited"}
      PROVE  OneReader'
  BY <1>1 DEF OneReader
<1>2. CASE Connect
  <2>1. readerCancelled' = readerCancelled /\ opened' \in Conns /\ opened' = opened + 1
    BY <1>2 DEF Connect, TypeOK, Conns
  <2>2. CASE readerTask = NoConn
    <3>1. readerTask' = opened' /\ readerAt' = [readerAt EXCEPT ![opened'] = "loop"]
      BY <1>2, <2>1, <2>2 DEF Connect
    <3>2. \A r \in Conns : readerAt[r] \notin {"none", "exited"} => r \in readerCancelled
      BY <2>2 DEF OneReader, Conns, NoConn
    <3> QED
      BY <2>1, <3>1, <3>2 DEF OneReader, TypeOK
  <2>3. CASE readerTask # NoConn
    BY <1>1, <1>2, <2>1, <2>3 DEF Connect
  <2> QED
    BY <2>2, <2>3
<1>3. CASE Disconnect
  BY <1>3 DEF Disconnect, OneReader, NoConn
<1>4. ASSUME NEW r \in Conns,
             ReaderLoop(r) \/ ReceiveFails(r) \/ HandleIncoming(r) \/ FailAllInflight(r)
                \/ \E c \in Calls : Receive(r, c)
      PROVE  OneReader'
  <2>1. UNCHANGED <<readerTask, readerCancelled>> /\ readerAt[r] \notin {"none", "exited"}
    BY <1>4 DEF ReaderLoop, ReceiveFails, HandleIncoming, FailAllInflight, Receive
  <2>2. \E place : readerAt' = [readerAt EXCEPT ![r] = place]
    BY <1>4 DEF ReaderLoop, ReceiveFails, HandleIncoming, FailAllInflight, Receive
  <2> QED
    BY <1>1, <2>1, <2>2 DEF TypeOK
<1>5. ASSUME NEW c \in Calls,
             Start(c) \/ StartFails(c) \/ AllocTagSpins(c) \/ OnCancel(c) \/ Cancel(c)
      PROVE  OneReader'
  <2>1. UNCHANGED <<readerTask, readerVars>>
    BY <1>5 DEF Start, StartFails, AllocTagSpins, OnCancel, Cancel
  <2> QED
    BY <1>1, <2>1 DEF readerVars
<1>6. ASSUME NEW k \in Conns, HangUp(k) PROVE OneReader'
  BY <1>1, <1>6 DEF HangUp, readerVars
<1>7. CASE UNCHANGED vars
  BY <1>1, <1>7 DEF vars, readerVars
<1> QED
  BY <1>2, <1>3, <1>4, <1>5, <1>6, <1>7 DEF Next

(* Every reader that goes on reading is the one readerTask holds.          *)
THEOREM OneReaderHolds == Spec => []OneReader
<1>1. Init => OneReader
  BY DEF Init, OneReader
<1>2. IInv => TypeOK
  BY DEF IInv
<1>3. TypeOK /\ OneReader /\ [Next]_vars => OneReader'
  BY OneReaderStep
<1> QED
  BY <1>1, <1>2, <1>3, InvHolds, PTL DEF Spec

-----------------------------------------------------------------------------
(* While fewer requests were made than there are tags, every request owns  *)
(* its tag for good: a late answer finds its own call or nobody.           *)
FewCalls == IsFiniteSet(Calls) /\ Cardinality(Calls) < NOTAG

Started == {c \in Calls : status[c] # "idle"}

FreshTags ==
    /\ nextTag = 1 + Cardinality(Started)
    /\ \A c \in Started : tagOf[c] \in 1 .. (nextTag - 1)
    /\ \A c, d \in Started : tagOf[c] = tagOf[d] => c = d
    /\ \A q \in owed : q.call \in Started /\ q.tag = tagOf[q.call]
    /\ \A r \in Conns : readerAt[r] = "handle" =>
          readerMsg[r].call \in Started /\ readerMsg[r].tag = tagOf[readerMsg[r].call]
    /\ \A c \in Calls : cancelTask[c] # "none" => c \in Started
    /\ OwnReply

(* The next request gets the tag nextTag, which nobody ever had.           *)
LEMMA AllocTagFresh ==
    ASSUME FewCalls, IInv, FreshTags, NEW c \in Calls, status[c] = "idle",
           NEW t \in Tags, AllocTag(t)
    PROVE  /\ t = nextTag /\ nextTag' = nextTag + 1
           /\ IsFiniteSet(Started)
           /\ Cardinality(Started \cup {c}) = Cardinality(Started) + 1
<1> USE DEF FewCalls
<1>1. Started \subseteq Calls /\ c \notin Started /\ c \in Calls
  BY DEF Started
<1>2. IsFiniteSet(Started)
  BY <1>1, FS_Subset
<1>3. Cardinality(Started \cup {c}) = Cardinality(Started) + 1
  BY <1>1, <1>2, FS_AddElement
<1>4. Cardinality(Started \cup {c}) <= Cardinality(Calls)
  BY <1>1, FS_Subset
<1>5. Cardinality(Started) \in Nat /\ Cardinality(Calls) \in Nat
  BY <1>2, FS_CardinalityType
<1>6. nextTag \in 1 .. (NOTAG - 1)
  BY <1>3, <1>4, <1>5 DEF FreshTags
<1>7. Free(nextTag)
  <2>1. nextTag \in Tags /\ nextTag # NOTAG
    BY <1>6 DEF Tags
  <2>2. ASSUME inflight[nextTag] # NoCall PROVE FALSE
    <3>1. inflight[nextTag] \in Started /\ tagOf[inflight[nextTag]] = nextTag
      BY <2>1, <2>2 DEF IInv, Registration, TypeOK, Started
    <3> QED
      BY <1>6, <3>1 DEF FreshTags
  <2> QED
    BY <2>1, <2>2 DEF Free
<1>8. (nextTag + 0) % TagSpace = nextTag
  BY <1>6 DEF TagSpace
<1>9. t = nextTag
  <2>1. PICK k \in 0 .. NOTAG :
          /\ t = (nextTag + k) % TagSpace
          /\ \A j \in 0 .. (k - 1) : ~Free((nextTag + j) % TagSpace)
    BY DEF AllocTag
  <2>2. k = 0
    <3>1. ASSUME k # 0 PROVE FALSE
      <4>1. 0 \in 0 .. (k - 1)
        BY <3>1
      <4> QED
        BY <4>1, <2>1, <1>7, <1>8
    <3> QED
      BY <3>1
  <2> QED
    BY <2>1, <2>2, <1>8
<1> QED
  BY <1>2, <1>3, <1>9, AllocTagPicksFree

LEMMA FreshStep ==
    ASSUME FewCalls, IInv, FreshTags, [Next]_vars
    PROVE  FreshTags'
<1> USE DEF IInv
<1>1. ASSUME UNCHANGED <<nextTag, callVars>>, owed' \subseteq owed,
             \A r \in Conns : readerAt'[r] = "handle" =>
                 readerAt[r] = "handle" /\ readerMsg'[r] = readerMsg[r],
             \A c \in Calls : cancelTask'[c] # "none" =>
                 cancelTask[c] # "none" \/ status[c] # "idle"
      PROVE  FreshTags'
  <2>1. Started' = Started /\ \A c \in Calls : status[c] # "idle" => c \in Started
    BY <1>1 DEF callVars, Started
  <2> QED
    BY <1>1, <2>1 DEF FreshTags, OwnReply, callVars
(* Steps that resume some calls, each by its own message.                  *)
<1>2. ASSUME UNCHANGED <<nextTag, tagOf>>, owed' \subseteq owed,
             \A r \in Conns : readerAt'[r] = "handle" =>
                 readerAt[r] = "handle" /\ readerMsg'[r] = readerMsg[r],
             \A c \in Calls : cancelTask'[c] # "none" => cancelTask[c] # "none",
             \A c \in Calls : status'[c] # "idle" <=> status[c] # "idle",
             \A c \in Calls : \/ status'[c] = status[c] /\ ending'[c] = ending[c]
                             \/ ending'[c].of = c
      PROVE  FreshTags'
  <2>1. Started' = Started
    BY <1>2 DEF Started
  <2>2. OwnReply'
    BY <1>2 DEF OwnReply, FreshTags
  <2> QED
    BY <1>2, <2>1, <2>2 DEF FreshTags
<1>3. ASSUME NEW way, FailAll(way)
      PROVE  /\ UNCHANGED tagOf
             /\ \A c \in Calls : status'[c] # "idle" <=> status[c] # "idle"
             /\ \A c \in Calls : \/ status'[c] = status[c] /\ ending'[c] = ending[c]
                                \/ ending'[c].of = c
  <2>1. tagOf' = tagOf /\ \A c \in Calls : status'[c] # "idle" <=> status[c] # "idle"
    BY <1>3, FailAllKeeps
  <2>2. \A c \in Calls : \/ status'[c] = status[c] /\ ending'[c] = ending[c]
                        \/ ending'[c] = [is |-> way, of |-> c]
    BY <1>3 DEF FailAll, Resume
  <2>3. \A c \in Calls : [is |-> way, of |-> c].of = c
    OBVIOUS
  <2>4. \A c \in Calls : \/ status'[c] = status[c] /\ ending'[c] = ending[c]
                        \/ ending'[c].of = c
    BY <2>2, <2>3
  <2> QED
    BY <2>1, <2>4
<1>4. ASSUME NEW way, NEW of \in Started, TakeAndResume(tagOf[of], way, of)
      PROVE  /\ UNCHANGED tagOf
             /\ \A c \in Calls : status'[c] # "idle" <=> status[c] # "idle"
             /\ \A c \in Calls : \/ status'[c] = status[c] /\ ending'[c] = ending[c]
                                \/ ending'[c].of = c
  <2> DEFINE w == inflight[tagOf[of]]
  <2>1. tagOf[of] \in Tags /\ of \in Calls
    BY DEF TaggedInv, Started
  <2>2. w \in Calls => w = of
    BY <2>1, CallsAssumption DEF Registration, Started, FreshTags
  <2>3. tagOf' = tagOf /\ \A c \in Calls : status'[c] = IF c = w THEN "done" ELSE status[c]
    BY <1>4, <2>1, TakeAndResumeKeeps
  <2>4. w \in Calls => status[w] = "waiting"
    BY <2>1, CallsAssumption DEF Registration
  <2> DEFINE e == [c \in {w} \ {NoCall} |-> [is |-> way, of |-> of]]
  <2>5. ending' = [c \in Calls |-> IF c \in {w} \ {NoCall} THEN e[c] ELSE ending[c]]
    BY <1>4 DEF TakeAndResume, Resume
  <2>6. \A c \in {w} \ {NoCall} : e[c].of = of
    OBVIOUS
  <2> HIDE DEF e
  <2>7. \A c \in Calls : \/ c # w /\ ending'[c] = ending[c]
                        \/ ending'[c].of = c
    BY <2>2, <2>5, <2>6, CallsAssumption
  <2> QED
    BY <2>3, <2>4, <2>7
<1>5. CASE Connect
  BY <1>1, <1>5 DEF Connect, TypeOK, Conns
<1>6. CASE Disconnect
  <2>1. FailAll("reset") /\ UNCHANGED <<nextTag, cancelTask, readerAt, readerMsg>>
        /\ owed' \subseteq owed
    BY <1>6 DEF Disconnect
  <2> QED
    BY <1>2, <1>3, <2>1
<1>7. ASSUME NEW c \in Calls, NEW t \in Tags, AllocTag(t), status[c] = "idle",
             tagOf' = [tagOf EXCEPT ![c] = t],
             status' = [status EXCEPT ![c] = status'[c]], status'[c] # "idle",
             UNCHANGED <<cancelTask, readerAt, readerMsg>>,
             owed' = owed \/ \E k : owed' = owed \cup {[conn |-> k, tag |-> t, call |-> c]},
             OwnReply'
      PROVE  FreshTags'
  <2>1. t = nextTag /\ nextTag' = nextTag + 1 /\ IsFiniteSet(Started)
        /\ Cardinality(Started \cup {c}) = Cardinality(Started) + 1
    BY <1>7, AllocTagFresh
  <2>2. Started' = Started \cup {c} /\ c \notin Started
    BY <1>7 DEF Started, TypeOK
  <2>3. \A d \in Started : d \in Calls /\ d # c /\ tagOf'[d] = tagOf[d]
    BY <1>7, <2>2 DEF Started, TypeOK
  <2>4. tagOf'[c] = nextTag
    BY <1>7, <2>1 DEF TypeOK
  <2>5. Cardinality(Started) \in Nat
    BY <2>1, FS_CardinalityType
  <2>6. nextTag' = 1 + Cardinality(Started')
    BY <2>1, <2>2, <2>5 DEF FreshTags
  <2>7. \A d \in Started' : tagOf'[d] \in 1 .. (nextTag' - 1)
    BY <2>1, <2>2, <2>3, <2>4, <2>5 DEF FreshTags
  <2>8. \A d, e \in Started' : tagOf'[d] = tagOf'[e] => d = e
    <3>1. \A d \in Started : tagOf'[d] # nextTag
      BY <2>3, <2>5 DEF FreshTags
    <3> QED
      BY <2>2, <2>3, <2>4, <3>1 DEF FreshTags
  <2>9. \A q \in owed' : q.call \in Started' /\ q.tag = tagOf'[q.call]
    BY <1>7, <2>1, <2>2, <2>3, <2>4 DEF FreshTags
  <2>10. \A r \in Conns : readerAt'[r] = "handle" =>
           readerMsg'[r].call \in Started' /\ readerMsg'[r].tag = tagOf'[readerMsg'[r].call]
    BY <1>7, <2>2, <2>3 DEF FreshTags
  <2>11. \A d \in Calls : cancelTask'[d] # "none" => d \in Started'
    BY <1>7, <2>2 DEF FreshTags
  <2> QED
    BY <1>7, <2>6, <2>7, <2>8, <2>9, <2>10, <2>11 DEF FreshTags
<1>8. ASSUME NEW c \in Calls, Start(c) PROVE FreshTags'
  <2>1. PICK t \in Tags :
          /\ AllocTag(t)
          /\ tagOf' = [tagOf EXCEPT ![c] = t]
          /\ owed' = IF conn \in down THEN owed
                     ELSE owed \cup {[conn |-> conn, tag |-> t, call |-> c]}
    BY <1>8, AllocTagPicksTag DEF Start
  <2>2. /\ status[c] = "idle" /\ status' = [status EXCEPT ![c] = "waiting"]
        /\ UNCHANGED <<ending, cancelTask, readerAt, readerMsg>>
    BY <1>8 DEF Start, readerVars
  <2>3. status' = [status EXCEPT ![c] = status'[c]] /\ status'[c] # "idle" /\ OwnReply'
    BY <2>2 DEF OwnReply, FreshTags, TypeOK
  <2> QED
    BY <1>7, <2>1, <2>2, <2>3
<1>9. ASSUME NEW c \in Calls, StartFails(c) PROVE FreshTags'
  <2>1. PICK t \in Tags : AllocTag(t) /\ tagOf' = [tagOf EXCEPT ![c] = t]
    BY <1>9, AllocTagPicksTag DEF StartFails
  <2>2. /\ status[c] = "idle" /\ status' = [status EXCEPT ![c] = "done"]
        /\ ending' = [ending EXCEPT ![c] = [is |-> "unsent", of |-> c]]
        /\ UNCHANGED <<cancelTask, readerAt, readerMsg, owed>>
    BY <1>9 DEF StartFails, readerVars
  <2>3. ending'[c].of = c /\ \A d \in Calls : d # c => ending'[d] = ending[d]
    BY <2>2 DEF TypeOK
  <2>4. status' = [status EXCEPT ![c] = status'[c]] /\ status'[c] # "idle" /\ OwnReply'
    BY <2>2, <2>3 DEF OwnReply, FreshTags, TypeOK
  <2> QED
    BY <1>7, <2>1, <2>2, <2>4
<1>10. ASSUME NEW c \in Calls, AllocTagSpins(c) PROVE FreshTags'
  BY <1>1, <1>10 DEF AllocTagSpins, readerVars
<1>11. ASSUME NEW c \in Calls, OnCancel(c) PROVE FreshTags'
  BY <1>1, <1>11 DEF OnCancel, readerVars, TypeOK
<1>12. ASSUME NEW c \in Calls, Cancel(c) PROVE FreshTags'
  <2>1. TakeAndResume(tagOf[c], "cancelled", c) /\ c \in Started
        /\ UNCHANGED <<nextTag, owed, readerAt, readerMsg>>
        /\ \A d \in Calls : cancelTask'[d] # "none" => cancelTask[d] # "none"
    BY <1>12 DEF Cancel, FreshTags, readerVars, TypeOK
  <2> QED
    BY <1>2, <1>4, <2>1
<1>13. ASSUME NEW k \in Conns, HangUp(k) PROVE FreshTags'
  BY <1>1, <1>13 DEF HangUp, readerVars
<1>14. ASSUME NEW r \in Conns, ReaderLoop(r) PROVE FreshTags'
  BY <1>1, <1>14 DEF ReaderLoop, TypeOK
<1>15. ASSUME NEW r \in Conns, ReceiveFails(r) PROVE FreshTags'
  BY <1>1, <1>15 DEF ReceiveFails, TypeOK
<1>16. ASSUME NEW r \in Conns, HandleIncoming(r) PROVE FreshTags'
  <2> DEFINE m == readerMsg[r]
  <2>1. m.call \in Started /\ m.tag = tagOf[m.call]
    BY <1>16 DEF HandleIncoming, FreshTags
  <2>2. /\ UNCHANGED <<nextTag, cancelTask, owed>>
        /\ \A p \in Conns : readerAt'[p] = "handle" =>
               readerAt[p] = "handle" /\ readerMsg'[p] = readerMsg[p]
    BY <1>16 DEF HandleIncoming, TypeOK
  <2>3. CASE FailAll("undecodable")
    BY <1>2, <1>3, <2>2, <2>3
  <2>4. CASE TakeAndResume(m.tag, Verdict(m), m.call)
    BY <1>2, <1>4, <2>1, <2>2, <2>4
  <2> QED
    BY <1>16, <2>3, <2>4 DEF HandleIncoming
<1>17. ASSUME NEW r \in Conns, FailAllInflight(r) PROVE FreshTags'
  <2>1. FailAll("lost") /\ UNCHANGED <<nextTag, cancelTask, owed>>
        /\ \A p \in Conns : readerAt'[p] = "handle" =>
               readerAt[p] = "handle" /\ readerMsg'[p] = readerMsg[p]
    BY <1>17 DEF FailAllInflight, TypeOK
  <2> QED
    BY <1>2, <1>3, <2>1
<1>18. ASSUME NEW r \in Conns, NEW c \in Calls, Receive(r, c) PROVE FreshTags'
  <2>1. PICK q \in owed, a \in Answers :
          /\ q.call = c
          /\ owed' = owed \ {q}
          /\ readerMsg' = [readerMsg EXCEPT ![r] = [is |-> a, tag |-> q.tag, call |-> c]]
    BY <1>18 DEF Receive
  <2>2. readerMsg'[r].call = c /\ readerMsg'[r].tag = q.tag
        /\ \A p \in Conns : p # r => readerMsg'[p] = readerMsg[p] /\ readerAt'[p] = readerAt[p]
    BY <1>18, <2>1 DEF Receive, TypeOK
  <2>3. Started' = Started /\ UNCHANGED <<nextTag, tagOf, cancelTask>> /\ OwnReply'
    BY <1>18 DEF Receive, Started, callVars, OwnReply, FreshTags
  <2> QED
    BY <2>1, <2>2, <2>3 DEF FreshTags
<1>19. CASE UNCHANGED vars
  BY <1>1, <1>19 DEF vars, readerVars
<1> QED
  BY <1>5, <1>6, <1>8, <1>9, <1>10, <1>11, <1>12, <1>13, <1>14, <1>15, <1>16,
     <1>17, <1>18, <1>19 DEF Next

LEMMA FreshInit == Init => FreshTags
<1> SUFFICES ASSUME Init PROVE FreshTags
  OBVIOUS
<1>1. Started = {} /\ Cardinality({}) = 0
  BY FS_EmptySet DEF Init, Started
<1>2. OwnReply
  BY DEF Init, OwnReply
<1> QED
  BY <1>1, <1>2 DEF Init, FreshTags

(* As long as fewer requests were made than there are tags, every call     *)
(* ends by its own message, whatever is cancelled, answered late, lost or  *)
(* reconnected.                                                            *)
THEOREM OwnReplyHolds == ASSUME FewCalls PROVE Spec => []OwnReply
<1>1. Init => IInv /\ FreshTags
  BY InvInit, FreshInit
<1>2. IInv /\ FreshTags /\ [Next]_vars => (IInv /\ FreshTags)'
  BY InvStep, FreshStep
<1>3. IInv /\ FreshTags => OwnReply
  BY DEF FreshTags
<1> QED
  BY <1>1, <1>2, <1>3, PTL DEF Spec

-----------------------------------------------------------------------------
(* The refinement of RpcService.                                           *)

(* What touches neither the calls nor their cancellations is a stutter.    *)
LEMMA StutterStep == UNCHANGED <<status, ending, cancelTask>> => UNCHANGED Service!vars
  BY DEF Service!vars, shownEnding, givenUp

(* A step that ends some waiting calls, and nothing else, is a Finish, or  *)
(* a stutter when there are none.                                          *)
LEMMA FinishStep ==
    ASSUME TypeOK, NEW S \in SUBSET Calls, NEW e,
           \A c \in S : status[c] = "waiting" /\ Shown(e[c]) \in Service!Ending(c),
           status' = [c \in Calls |-> IF c \in S THEN "done" ELSE status[c]],
           ending' = [c \in Calls |-> IF c \in S THEN e[c] ELSE ending[c]],
           \A c \in Calls : cancelTask'[c] # "none" <=> cancelTask[c] # "none"
    PROVE  [Service!Next]_(Service!vars)
<1> DEFINE f == [c \in S |-> Shown(e[c])]
<1>1. shownEnding' = [c \in Calls |-> IF c \in S THEN f[c] ELSE shownEnding[c]]
  BY DEF shownEnding
<1>2. givenUp' = givenUp
  BY DEF givenUp
<1>3. CASE S = {}
  <2>1. status' = status
    BY <1>3 DEF TypeOK
  <2>2. shownEnding' = shownEnding
    BY <1>1, <1>3 DEF shownEnding
  <2> QED
    BY <1>2, <2>1, <2>2 DEF Service!vars
<1>4. CASE S # {}
  <2>1. f \in [S -> UNION {Service!Ending(c) : c \in S}]
    OBVIOUS
  <2>2. \A c \in S : status[c] = "waiting" /\ f[c] \in Service!Ending(c)
    OBVIOUS
  <2> HIDE DEF f
  <2>3. Service!Finish(S)
    BY <1>1, <1>2, <2>1, <2>2 DEF Service!Finish
  <2>4. S \in (SUBSET Calls) \ {{}}
    BY <1>4
  <2>5. Service!Next
    BY <2>3, <2>4 DEF Service!Next
  <2> QED
    BY <2>5
<1> QED
  BY <1>3, <1>4

LEMMA FailAllRefines ==
    ASSUME IInv, NEW way \in {"lost", "reset", "undecodable"}, FailAll(way), UNCHANGED cancelTask
    PROVE  [Service!Next]_(Service!vars)
<1> DEFINE e == [c \in Registered |-> [is |-> way, of |-> c]]
<1>1. Registered \in SUBSET Calls /\ \A c \in Registered : status[c] = "waiting"
  BY RegisteredCalls DEF IInv, Registration, Registered
<1>2. /\ status' = [c \in Calls |-> IF c \in Registered THEN "done" ELSE status[c]]
      /\ ending' = [c \in Calls |-> IF c \in Registered THEN e[c] ELSE ending[c]]
  BY DEF FailAll, Resume
<1>3. \A c \in Registered : Shown(e[c]) \in Service!Ending(c)
  <2> SUFFICES ASSUME NEW c \in Registered PROVE Shown([is |-> way, of |-> c]) \in Service!Ending(c)
    OBVIOUS
  <2>1. Shown([is |-> way, of |-> c]) = [is |-> "lost", of |-> c]
    BY DEF Shown, Pending
  <2> QED
    BY <2>1 DEF Service!Ending
<1> HIDE DEF e
<1> QED
  BY <1>1, <1>2, <1>3, FinishStep DEF IInv

(* Whoever is registered under a call's own tag is that call.              *)
LEMMA TakeOwnRefines ==
    ASSUME IInv, FreshTags, NEW c \in Calls, c \in Started,
           NEW way \in {"reply", "rerror", "cancelled"},
           way = "cancelled" => cancelTask[c] # "none",
           TakeAndResume(tagOf[c], way, c),
           \A d \in Calls : cancelTask'[d] # "none" <=> cancelTask[d] # "none"
    PROVE  [Service!Next]_(Service!vars)
<1> DEFINE S == {inflight[tagOf[c]]} \ {NoCall}
           e == [d \in S |-> [is |-> way, of |-> c]]
<1>1. tagOf[c] \in Tags
  BY DEF IInv, TaggedInv, Started
<1>2. \A d \in S : d = c /\ status[d] = "waiting"
  BY <1>1 DEF IInv, TypeOK, Registration, Started, FreshTags
<1>3. /\ status' = [d \in Calls |-> IF d \in S THEN "done" ELSE status[d]]
      /\ ending' = [d \in Calls |-> IF d \in S THEN e[d] ELSE ending[d]]
  BY DEF TakeAndResume, Resume
<1>4. Shown([is |-> way, of |-> c]) \in Service!Ending(c)
  <2>1. Shown([is |-> way, of |-> c]) = [is |-> way, of |-> c]
    BY DEF Shown, Pending
  <2> QED
    BY <2>1 DEF Service!Ending, givenUp
<1>5. \A d \in S : status[d] = "waiting" /\ Shown(e[d]) \in Service!Ending(d)
  BY <1>2, <1>4
<1>6. S \in SUBSET Calls
  BY <1>2
<1> HIDE DEF e, S
<1> QED
  BY <1>3, <1>5, <1>6, FinishStep DEF IInv

LEMMA RefinementStep ==
    ASSUME IInv, FreshTags, [Next]_vars
    PROVE  [Service!Next]_(Service!vars)
<1>1. CASE Connect
  BY <1>1, StutterStep DEF Connect, callVars
<1>2. CASE Disconnect
  BY <1>2, FailAllRefines DEF Disconnect
<1>3. ASSUME NEW c \in Calls, Start(c) PROVE Service!Issue(c)
  <2>1. status[c] = "idle" /\ status' = [status EXCEPT ![c] = "waiting"] /\ UNCHANGED <<ending, cancelTask>>
    BY <1>3 DEF Start
  <2>2. shownEnding' = shownEnding /\ givenUp' = givenUp
    BY <2>1 DEF shownEnding, givenUp
  <2> QED
    BY <2>1, <2>2 DEF Service!Issue
<1>4. ASSUME NEW c \in Calls, StartFails(c) PROVE Service!Refuse(c)
  <2>1. /\ status[c] = "idle" /\ status' = [status EXCEPT ![c] = "done"] /\ UNCHANGED cancelTask
        /\ ending' = [ending EXCEPT ![c] = [is |-> "unsent", of |-> c]]
    BY <1>4 DEF StartFails
  <2>2. Shown([is |-> "unsent", of |-> c]) = [is |-> "unsent", of |-> c]
    BY DEF Shown, Pending
  <2>3. shownEnding' = [shownEnding EXCEPT ![c] = [is |-> "unsent", of |-> c]] /\ givenUp' = givenUp
    BY <2>1, <2>2 DEF IInv, TypeOK, shownEnding, givenUp
  <2> QED
    BY <2>1, <2>3 DEF Service!Refuse
<1>5. ASSUME NEW c \in Calls, AllocTagSpins(c) PROVE UNCHANGED Service!vars
  BY <1>5, StutterStep DEF AllocTagSpins, callVars
<1>6. ASSUME NEW c \in Calls, OnCancel(c) PROVE Service!GiveUp(c)
  <2>1. /\ status[c] # "idle" /\ cancelTask' = [cancelTask EXCEPT ![c] = "queued"]
        /\ UNCHANGED <<status, ending>>
    BY <1>6 DEF OnCancel, callVars
  <2>2. givenUp' = givenUp \cup {c} /\ shownEnding' = shownEnding
    BY <2>1 DEF IInv, TypeOK, givenUp, shownEnding
  <2> QED
    BY <2>1, <2>2 DEF Service!GiveUp
<1>7. ASSUME NEW c \in Calls, Cancel(c) PROVE [Service!Next]_(Service!vars)
  <2>1. TakeAndResume(tagOf[c], "cancelled", c) /\ cancelTask[c] = "queued" /\ c \in Started
    BY <1>7 DEF Cancel, FreshTags
  <2>2. \A d \in Calls : cancelTask'[d] # "none" <=> cancelTask[d] # "none"
    BY <1>7 DEF Cancel, IInv, TypeOK
  <2> QED
    BY <2>1, <2>2, TakeOwnRefines
<1>8. ASSUME NEW k \in Conns, HangUp(k) PROVE UNCHANGED Service!vars
  BY <1>8, StutterStep DEF HangUp, callVars
<1>9. ASSUME NEW r \in Conns, ReaderLoop(r) \/ ReceiveFails(r) PROVE UNCHANGED Service!vars
  BY <1>9, StutterStep DEF ReaderLoop, ReceiveFails, callVars
<1>10. ASSUME NEW r \in Conns, HandleIncoming(r) PROVE [Service!Next]_(Service!vars)
  <2>1. CASE FailAll("undecodable")
    BY <1>10, <2>1, FailAllRefines DEF HandleIncoming
  <2>2. CASE ~FailAll("undecodable")
    <3> PICK m : m = readerMsg[r]
      OBVIOUS
    <3>1. /\ m \in Message /\ m.call \in Started /\ m.call \in Calls /\ m.tag = tagOf[m.call]
          /\ m.is # "undecodable" /\ TakeAndResume(m.tag, Verdict(m), m.call) /\ UNCHANGED cancelTask
      BY <1>10, <2>2 DEF HandleIncoming, FreshTags, IInv, TypeOK, Started
    <3>2. inflight[m.tag] \in Calls => inflight[m.tag] = m.call
      BY <3>1 DEF IInv, Registration, FreshTags, Started, TaggedInv, Message
    <3>3. Verdict(m) = m.is /\ m.is \in {"reply", "rerror"}
      BY <3>1, <3>2 DEF Verdict, Message, Answers
    <3> QED
      BY <3>1, <3>3, TakeOwnRefines
  <2> QED
    BY <2>1, <2>2
<1>11. ASSUME NEW r \in Conns, FailAllInflight(r) PROVE [Service!Next]_(Service!vars)
  BY <1>11, FailAllRefines DEF FailAllInflight
<1>12. ASSUME NEW r \in Conns, NEW c \in Calls, Receive(r, c) PROVE UNCHANGED Service!vars
  BY <1>12, StutterStep DEF Receive, callVars
<1>13. CASE UNCHANGED vars
  BY <1>13, StutterStep DEF vars, callVars
<1> QED
  BY <1>1, <1>2, <1>3, <1>4, <1>5, <1>6, <1>7, <1>8, <1>9, <1>10, <1>11, <1>12, <1>13
     DEF Next, Service!Next

LEMMA RefinementInit == Init => Service!Init
  BY DEF Init, Service!Init, Service!Pending, Pending, shownEnding, givenUp, Shown

(* While fewer requests were made than there are tags, the client is an    *)
(* RpcService: each call ends once, with its own answer, with the loss of  *)
(* the connection, or cancelled because its own caller gave it up.         *)
THEOREM ImplementsServiceHolds == ASSUME FewCalls PROVE Spec => ImplementsService
<1>1. Init => IInv /\ FreshTags /\ Service!Init
  BY InvInit, FreshInit, RefinementInit
<1>2. IInv /\ FreshTags /\ [Next]_vars => (IInv /\ FreshTags)'
  BY InvStep, FreshStep
<1>3. IInv /\ FreshTags /\ [Next]_vars => [Service!Next]_(Service!vars)
  BY RefinementStep
<1> QED
  BY <1>1, <1>2, <1>3, PTL DEF Spec, ImplementsService, Service!Spec
=============================================================================
