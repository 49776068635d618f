-------------------------- MODULE KextFileFids_proofs --------------------------
(***************************************************************************)
(* Theorems about the fids of the vnode operations: whose each one is and  *)
(* what the server has it as.  They stand on the invariants of             *)
(* KextFiles_proofs (locks, slots and counts).                             *)
(***************************************************************************)
EXTENDS KextFiles_proofs

USE FilesAssumption

-----------------------------------------------------------------------------
(* The bound on calls bounds the fids: an open walks to one, a create to   *)
(* two, and each has done so or will.                                      *)

ToWalk == {t \in Threads : loc[t].o.op \in {"open", "create"} /\ loc[t].st \in Before}
ToWalkAgain == {t \in Threads : loc[t].o.op = "create" /\ loc[t].st \in {"create", "walk"}}

NumInv ==
    /\ calls \in 0 .. MaxCalls
    /\ nfid + 2 * Cardinality(ToWalk) + Cardinality(ToWalkAgain) <= 6 + 2 * calls

Weight(t) == IF t \in ToWalk THEN 2 ELSE IF t \in ToWalkAgain THEN 1 ELSE 0

LEMMA SetOfOne ==
  ASSUME NEW S, IsFiniteSet(S), NEW x
  PROVE  /\ Cardinality(S \ {x}) \in Nat
         /\ Cardinality(S) = Cardinality(S \ {x}) + (IF x \in S THEN 1 ELSE 0)
<1>1. CASE x \in S
  <2>1. IsFiniteSet(S \ {x}) /\ Cardinality(S \ {x}) = Cardinality(S) - 1
    BY <1>1, FS_RemoveElement
  <2>2. Cardinality(S \ {x}) \in Nat /\ Cardinality(S) \in Nat
    BY <2>1, FS_CardinalityType
  <2> QED
    BY <1>1, <2>1, <2>2
<1>2. CASE x \notin S
  <2>1. S \ {x} = S
    BY <1>2
  <2>2. Cardinality(S) \in Nat
    BY FS_CardinalityType
  <2>3. Cardinality(S \ {x}) = Cardinality(S)
    BY <2>1
  <2> QED
    BY <1>2, <2>2, <2>3
<1> QED
  BY <1>1, <1>2

LEMMA WalkersFinite ==
  ASSUME PlaceInv, SlotInv
  PROVE  IsFiniteSet(ToWalk) /\ IsFiniteSet(ToWalkAgain) /\ ToWalk \cap ToWalkAgain = {}
<1>1. ToWalk \subseteq Active /\ ToWalkAgain \subseteq Active
  BY DEF ToWalk, ToWalkAgain, Active, Before
<1>2. ToWalk \cap ToWalkAgain = {}
  BY DEF ToWalk, ToWalkAgain, Before
<1> QED
  BY <1>1, <1>2, FS_Subset DEF SlotInv, SlotTypes

LEMMA WeightSum ==
  ASSUME NEW N \in Nat, NEW a \in Nat, NEW b \in Nat, NEW c \in Nat, NEW d \in Nat, NEW M \in Nat,
         NEW x \in {0, 1, 2}, NEW y \in {0, 1, 2}, NEW A \in Nat, NEW B \in Nat,
         2 * a + b = 2 * A + B + x, 2 * c + d = 2 * A + B + y,
         NEW C \in Nat, NEW D \in Nat,
         N + 2 * a + b <= 6 + 2 * C, M + y + 2 * C <= N + x + 2 * D
  PROVE  M + 2 * c + d <= 6 + 2 * D
  OBVIOUS

(* The rest of the sum is the same before and after.                       *)
LEMMA NumStep ==
  ASSUME NEW t \in Threads, IInv, IInv', PlaceInv, PlaceInv', SlotInv, SlotInv', NumInv, Others(t),
         calls' \in 0 .. MaxCalls, nfid' + Weight(t)' + 2 * calls <= nfid + Weight(t) + 2 * calls'
  PROVE  NumInv'
<1> PICK A, B : A = Cardinality(ToWalk \ {t}) /\ B = Cardinality(ToWalkAgain \ {t})
  OBVIOUS
<1>1. ToWalk' \ {t} = ToWalk \ {t} /\ ToWalkAgain' \ {t} = ToWalkAgain \ {t}
  BY DEF Others, ToWalk, ToWalkAgain
<1>2. IsFiniteSet(ToWalk) /\ IsFiniteSet(ToWalkAgain) /\ ToWalk \cap ToWalkAgain = {}
  BY WalkersFinite
<1>3. IsFiniteSet(ToWalk') /\ IsFiniteSet(ToWalkAgain') /\ ToWalk' \cap ToWalkAgain' = {}
  <2>1. ToWalk' \subseteq Active' /\ ToWalkAgain' \subseteq Active'
    BY DEF ToWalk, ToWalkAgain, Active, Before
  <2>2. ToWalk' \cap ToWalkAgain' = {}
    BY DEF ToWalk, ToWalkAgain, Before
  <2> QED
    BY <2>1, <2>2, FS_Subset DEF SlotInv, SlotTypes
<1>4. /\ A \in Nat /\ B \in Nat
      /\ Cardinality(ToWalk) = A + (IF t \in ToWalk THEN 1 ELSE 0)
      /\ Cardinality(ToWalkAgain) = B + (IF t \in ToWalkAgain THEN 1 ELSE 0)
  BY <1>2, SetOfOne
<1>5. /\ Cardinality(ToWalk') = A + (IF t \in ToWalk' THEN 1 ELSE 0)
      /\ Cardinality(ToWalkAgain') = B + (IF t \in ToWalkAgain' THEN 1 ELSE 0)
  BY <1>1, <1>3, SetOfOne
<1>6. /\ Weight(t) \in {0, 1, 2} /\ Cardinality(ToWalk) \in Nat /\ Cardinality(ToWalkAgain) \in Nat
      /\ 2 * Cardinality(ToWalk) + Cardinality(ToWalkAgain) = 2 * A + B + Weight(t)
  BY <1>2, <1>4 DEF Weight
<1>7. /\ Weight(t)' \in {0, 1, 2} /\ Cardinality(ToWalk') \in Nat /\ Cardinality(ToWalkAgain') \in Nat
      /\ 2 * Cardinality(ToWalk') + Cardinality(ToWalkAgain') = 2 * A + B + Weight(t)'
  <2>1. Weight(t)' = IF t \in ToWalk' THEN 2 ELSE IF t \in ToWalkAgain' THEN 1 ELSE 0
    BY DEF Weight
  <2>2. t \in ToWalk' => t \notin ToWalkAgain'
    BY <1>3
  <2>3. CASE t \in ToWalk'
    BY <1>4, <1>5, <2>1, <2>2, <2>3
  <2>4. CASE t \notin ToWalk'
    BY <1>4, <1>5, <2>1, <2>4
  <2> QED
    BY <2>3, <2>4
<1>8. nfid \in Nat /\ nfid' \in Nat /\ calls \in Nat /\ calls' \in Nat
  BY DEF IInv, LockType, NumInv
<1>9. nfid + 2 * Cardinality(ToWalk) + Cardinality(ToWalkAgain) <= 6 + 2 * calls
  BY DEF NumInv
<1>10. nfid' + 2 * Cardinality(ToWalk') + Cardinality(ToWalkAgain') <= 6 + 2 * calls'
  BY <1>4, <1>6, <1>7, <1>8, <1>9, WeightSum
<1> QED
  BY <1>10 DEF NumInv

Light(t) ==
    \/ loc'[t].st \notin {"lock", "note", "body", "create", "walk"}
    \/ loc'[t].o.op \notin {"open", "create"}

Pays(t) == Others(t) /\ calls' = calls /\ nfid' + Weight(t)' <= nfid + Weight(t)

LEMMA LightPays ==
  ASSUME NEW t \in Threads, IInv, Others(t), Light(t), calls' = calls, nfid' = nfid PROVE Pays(t)
<1>1. Weight(t)' = 0
  BY DEF Light, Weight, ToWalk, ToWalkAgain, Before
<1>2. Weight(t) \in {0, 1, 2} /\ nfid \in Nat
  BY DEF Weight, IInv, LockType
<1> QED
  BY <1>1, <1>2 DEF Pays

LEMMA LockingsPays ==
  ASSUME NEW t \in Threads, IInv, PlaceInv, Lockings(t) PROVE Pays(t)
<1>1. UNCHANGED data /\ Others(t) /\ Around(t) /\ nfid \in Nat
  BY LockingsLocked DEF IInv, LockType
<1>2. CASE loc'[t] = Idle
  BY <1>1, <1>2, LightPays, IdleFacts DEF Light, data, server
<1>3. CASE loc'[t] # Idle
  <2>1. t \in ToWalk <=> t \in ToWalk'
    BY <1>1, <1>3 DEF Around, SameLocals, ToWalk, Before
  <2>2. t \in ToWalkAgain <=> t \in ToWalkAgain'
    BY <1>1, <1>3 DEF Around, SameLocals, ToWalkAgain
  <2>3. Weight(t)' = Weight(t) /\ Weight(t) \in {0, 1, 2}
    BY <2>1, <2>2 DEF Weight
  <2> QED
    BY <1>1, <2>3 DEF Pays, data, server
<1> QED
  BY <1>2, <1>3

LEMMA OpensPays ==
  ASSUME NEW t \in Threads, IInv, Opens(t) PROVE Pays(t)
<1>0. nfid \in Nat
  BY DEF IInv, LockType
<1>1. CASE OpenShared(t) \/ OpenOpen(t) \/ OpenError(t)
  <2>1. SetsFid(t, "unlock", NOFID) /\ calls' = calls /\ nfid' = nfid
    BY <1>1, OpensMove DEF OpenShared, OpenOpen, OpenError, server
  <2> QED
    BY <2>1, LightPays DEF SetsFid, Light
<1>2. CASE OpenWalk(t)
  <2>1. SetsFid(t, "open", nfid) /\ calls' = calls /\ nfid' = nfid + 1 /\ loc[t].o.op = "open" /\ loc[t].st = "body"
    BY <1>2, OpensMove DEF OpenWalk, WalkTo, Opening
  <2>2. Weight(t) = 2
    BY <2>1 DEF Weight, ToWalk, Before
  <2>3. Weight(t)' = 0
    BY <2>1 DEF SetsFid, Weight, ToWalk, ToWalkAgain, Before
  <2> QED
    BY <1>0, <2>1, <2>2, <2>3 DEF Pays, SetsFid
<1>3. CASE OpenWalkFails(t)
  <2>1. PICK f : SetsFid(t, "failed", f)
    BY <1>3, OpensMove
  <2>2. calls' = calls /\ nfid' = nfid
    BY <1>3 DEF OpenWalkFails, server
  <2> QED
    BY <2>1, <2>2, LightPays DEF SetsFid, Light
<1>4. CASE OpenOpenFails(t)
  <2>1. Others(t) /\ loc'[t].st = "failed" /\ calls' = calls /\ nfid' = nfid
    BY <1>4, GotoFields DEF OpenOpenFails, server
  <2> QED
    BY <2>1, LightPays DEF Light
<1> QED
  BY <1>1, <1>2, <1>3, <1>4 DEF Opens

LEMMA CreatesPays ==
  ASSUME NEW t \in Threads, IInv, Creates(t) PROVE Pays(t)
<1>0. nfid \in Nat
  BY DEF IInv, LockType
<1>1. CASE CreateClone(t)
  <2>1. /\ SetsOpen(t, "create", nfid) /\ calls' = calls /\ nfid' = nfid + 1
        /\ loc[t].o.op = "create" /\ loc[t].st = "body"
    BY <1>1, CreatesMove DEF CreateClone, WalkTo, Creating
  <2>2. Weight(t) = 2
    BY <2>1 DEF Weight, ToWalk, Before
  <2>3. Weight(t)' = 1
    BY <2>1 DEF SetsOpen, Weight, ToWalk, ToWalkAgain, Before
  <2> QED
    BY <1>0, <2>1, <2>2, <2>3 DEF Pays, SetsOpen
<1>2. CASE CreateWalk(t)
  <2>1. /\ SetsFid(t, "nget", nfid) /\ calls' = calls /\ nfid' = nfid + 1
        /\ loc[t].o.op = "create" /\ loc[t].st = "walk"
    BY <1>2, CreatesMove DEF CreateWalk, WalkTo, Creating
  <2>2. Weight(t) = 1
    BY <2>1 DEF Weight, ToWalk, ToWalkAgain, Before
  <2>3. Weight(t)' = 0
    BY <2>1 DEF SetsFid, Weight, ToWalk, ToWalkAgain, Before
  <2> QED
    BY <1>0, <2>1, <2>2, <2>3 DEF Pays, SetsFid
<1>3. CASE CreateNode(t)
  <2>1. Others(t) /\ loc'[t].st = "unlock" /\ calls' = calls /\ nfid' = nfid
    BY <1>3, NodeFields DEF CreateNode, server
  <2> QED
    BY <2>1, LightPays DEF Light
<1>4. CASE CreateCloneFails(t) \/ CreateRefused(t) \/ CreateWalkFails(t) \/ CreateNodeFails(t)
  <2>1. Others(t) /\ loc'[t].st = "clunkopen" /\ calls' = calls /\ nfid' = nfid
    BY <1>4, GotoFields DEF CreateCloneFails, CreateRefused, CreateWalkFails, CreateNodeFails, server
  <2> QED
    BY <2>1, LightPays DEF Light
<1>5. CASE CreateFile(t)
  <2>1. /\ Others(t) /\ SameLocals(t) /\ loc'[t].st = "walk" /\ calls' = calls /\ nfid' = nfid
        /\ loc[t].o.op = "create" /\ loc[t].st = "create"
    BY <1>5, GotoFields DEF CreateFile, Creating
  <2>2. Weight(t) = 1
    BY <2>1 DEF Weight, ToWalk, ToWalkAgain, Before
  <2>3. Weight(t)' = 1
    BY <2>1 DEF SameLocals, Weight, ToWalk, ToWalkAgain, Before
  <2> QED
    BY <1>0, <2>1, <2>2, <2>3 DEF Pays
<1>6. CASE CreateClunkOpen(t)
  <2>1. SetsOpen(t, "clunkfid", NOFID) /\ calls' = calls /\ nfid' = nfid
    BY <1>6, CreatesMove DEF CreateClunkOpen
  <2> QED
    BY <2>1, LightPays DEF SetsOpen, Light
<1>7. CASE CreateClunkFid(t)
  <2>1. SetsFid(t, "unlock", NOFID) /\ calls' = calls /\ nfid' = nfid
    BY <1>7, CreatesMove DEF CreateClunkFid
  <2> QED
    BY <2>1, LightPays DEF SetsFid, Light
<1> QED
  BY <1>1, <1>2, <1>3, <1>4, <1>5, <1>6, <1>7 DEF Creates

LEMMA RestPays ==
  ASSUME NEW t \in Threads, IInv,
         Closes(t) \/ Transferring(t) \/ Attributes(t) \/ Remove(t) \/ RemoveRefused(t)
  PROVE  Pays(t)
<1> USE DEF Closing, Doing, Pick, server, Light
<1>1. CASE Closes(t)
  <2>1. /\ calls' = calls /\ nfid' = nfid
        /\ Goto(t, "push") \/ Goto(t, "unlock") \/ Goto(t, "reset")
    BY <1>1 DEF Closes, CloseDecrement, CloseClunk, CloseReset, LastRef
  <2>2. Others(t) /\ loc'[t].st \in {"push", "unlock", "reset"}
    BY <2>1, GotoFields
  <2> QED
    BY <2>1, <2>2, LightPays
<1>2. CASE Transferring(t)
  <2>1. calls' = calls /\ nfid' = nfid
    BY <1>2 DEF Transferring, ReadCached, ReadUncached, WriteCached, WriteFillFails, Push, Nread, Nwrite, Readdir,
                Strategy, TransferEnds, TransferEBADF
  <2>2. Others(t) /\ loc'[t].st \in {"pick", "unlock", "EBADF", "push", "io", "clunk", "wstat"}
    <3>1. CASE Nread(t) \/ Nwrite(t) \/ Readdir(t) \/ Strategy(t)
      <4>1. Goto(t, "EBADF") \/ \E m : loc' = [loc EXCEPT ![t].st = "io", ![t].pick = m]
        BY <3>1 DEF Nread, Nwrite, Readdir, Strategy
      <4> QED
        BY <4>1, GotoFields, PickFields
    <3>2. CASE ReadCached(t) \/ ReadUncached(t) \/ WriteCached(t) \/ WriteFillFails(t) \/ TransferEBADF(t)
      <4>1. Goto(t, "pick") \/ Goto(t, "unlock") \/ Goto(t, "push") \/ Goto(t, "EBADF")
        BY <3>2 DEF ReadCached, ReadUncached, WriteCached, WriteFillFails, TransferEBADF
      <4> QED
        BY <4>1, GotoFields
    <3>3. CASE Push(t)
      <4>1. Goto(t, "clunk") \/ Goto(t, "wstat") \/ Goto(t, "pick")
        BY <3>3 DEF Push
      <4> QED
        BY <4>1, GotoFields
    <3>4. CASE TransferEnds(t)
      BY <3>4, PickFields DEF TransferEnds
    <3> QED
      BY <1>2, <3>1, <3>2, <3>3, <3>4 DEF Transferring
  <2> QED
    BY <2>1, <2>2, LightPays
<1>3. CASE Attributes(t)
  <2>1. calls' = calls /\ nfid' = nfid /\ (Goto(t, "unlock") \/ Goto(t, "push"))
    BY <1>3 DEF Attributes, Getattr, Setattr, Rename, Ends, FsyncPush, FsyncWstat
  <2>2. Others(t) /\ loc'[t].st \in {"unlock", "push"}
    BY <2>1, GotoFields
  <2> QED
    BY <2>1, <2>2, LightPays
<1>4. CASE Remove(t) \/ RemoveRefused(t)
  <2>1. calls' = calls /\ nfid' = nfid /\ Goto(t, "unlock")
    BY <1>4 DEF Remove, RemoveRefused, Removed
  <2>2. Others(t) /\ loc'[t].st = "unlock"
    BY <2>1, GotoFields
  <2> QED
    BY <2>1, <2>2, LightPays
<1> QED
  BY <1>1, <1>2, <1>3, <1>4

LEMMA NumInit == Init => NumInv
<1> SUFFICES ASSUME Init PROVE NumInv
  OBVIOUS
<1>1. \A t \in Threads : loc[t] = Idle
  BY DEF Init
<1>2. ToWalk = {} /\ ToWalkAgain = {}
  BY <1>1, IdleFacts DEF ToWalk, ToWalkAgain
<1>3. Cardinality({}) = 0
  BY FS_EmptySet
<1> QED
  BY <1>2, <1>3 DEF NumInv, Init, FilesAssumption

LEMMA NumNext ==
  ASSUME IInv, IInv', PlaceInv, PlaceInv', SlotInv, SlotInv', NumInv, [Next]_vars PROVE NumInv'
<1>0. nfid \in Nat /\ nfid' \in Nat /\ calls \in Nat /\ calls \in 0 .. MaxCalls
  BY DEF IInv, LockType, NumInv
<1>1. CASE UNCHANGED vars
  BY <1>1 DEF vars, server, NumInv, ToWalk, ToWalkAgain
<1>2. ASSUME NEW t \in Threads, Begin(t) PROVE NumInv'
  <2>1. Others(t) /\ loc[t].st = "idle" /\ calls' = calls + 1 /\ calls < MaxCalls /\ nfid' = nfid
    BY <1>2, BeginFields DEF Begin, server
  <2>2. Weight(t) = 0
    BY <2>1 DEF Weight, ToWalk, ToWalkAgain, Before
  <2>3. Weight(t)' \in {0, 1, 2}
    BY DEF Weight
  <2>4. nfid' + Weight(t)' + 2 * calls <= nfid + Weight(t) + 2 * calls'
    BY <1>0, <2>1, <2>2, <2>3
  <2>5. calls' \in 0 .. MaxCalls
    BY <1>0, <2>1 DEF FilesAssumption
  <2> QED
    BY <2>1, <2>4, <2>5, NumStep
<1>3. ASSUME NEW t \in Threads, Step(t) PROVE NumInv'
  <2>1. Pays(t)
    BY <1>3, LockingsPays, OpensPays, CreatesPays, RestPays DEF Step
  <2>2. Weight(t) \in {0, 1, 2} /\ Weight(t)' \in {0, 1, 2}
    BY DEF Weight
  <2>3. nfid' + Weight(t)' + 2 * calls <= nfid + Weight(t) + 2 * calls'
    BY <1>0, <2>1, <2>2 DEF Pays
  <2> QED
    BY <1>0, <2>1, <2>3, NumStep DEF Pays
<1> QED
  BY <1>1, <1>2, <1>3 DEF Next

(* So a number that is walked to is one of Fids.                           *)
LEMMA WalkRoom ==
  ASSUME IInv, PlaceInv, SlotInv, NumInv
  PROVE  /\ \A f \in Nat : f < nfid /\ f # NOFID => f \in Fids
         /\ \A t \in Threads : t \in ToWalk \cup ToWalkAgain => nfid \in Fids
<1>1. IsFiniteSet(ToWalk) /\ IsFiniteSet(ToWalkAgain)
  BY WalkersFinite
<1>2. Cardinality(ToWalk) \in Nat /\ Cardinality(ToWalkAgain) \in Nat
  BY <1>1, FS_CardinalityType
<1>3. /\ nfid \in Nat /\ nfid >= 6 /\ calls \in Nat /\ MaxCalls \in Nat /\ calls <= MaxCalls
      /\ nfid + 2 * Cardinality(ToWalk) + Cardinality(ToWalkAgain) <= 6 + 2 * calls
  BY DEF IInv, LockType, PlaceInv, NumInv, FilesAssumption
<1>4. \A f \in Nat : f < nfid /\ f # NOFID => f \in Fids
  BY <1>2, <1>3 DEF Fids, NOFID
<1>5. ASSUME NEW t \in ToWalk \cup ToWalkAgain PROVE nfid \in Fids
  <2>1. Cardinality(ToWalk) >= 1 \/ Cardinality(ToWalkAgain) >= 1
    <3>1. Cardinality(ToWalk) # 0 \/ Cardinality(ToWalkAgain) # 0
      BY <1>1, FS_EmptySet
    <3> QED
      BY <1>2, <3>1
  <2> QED
    BY <1>2, <1>3, <2>1 DEF Fids
<1> QED
  BY <1>4, <1>5

-----------------------------------------------------------------------------
(* Whose a fid is, and what the server has it as                           *)

SrvRec == [n : Node \cup {"none"}, m : Mode \cup {"no"}]

FidTypes == srv \in [Fids -> SrvRec] /\ lost \subseteq Fids /\ stray \in BOOLEAN

BelowInv ==
    /\ fid["dir"] = 1 /\ fid["file"] < nfid
    /\ \A n \in Node, m \in Mode : slot[n][m].fid < nfid
    /\ \A t \in Threads : loc[t].fid < nfid /\ loc[t].open < nfid
    /\ \A f \in Fids : srv[f] # Free => f < nfid

Owned(f) ==
    \/ \E n \in Node : fid[n] = f
    \/ \E n \in Node, m \in Mode : slot[n][m].fid = f
    \/ \E t \in Threads : f \in {loc[t].fid, loc[t].open}

OwnedInv == \A f \in Fids : srv[f] # Free => Owned(f) \/ f \in lost

(* vnop_close_9p forgets a fid only when it has clunked it.                *)
ResetInv(t) ==
    loc[t].o.op = "close" /\ loc[t].st = "reset" =>
       LET f == slot[loc[t].o.n][loc[t].o.m].fid IN srv[f] = Free \/ f \in lost

Locals(t) == {loc[t].fid, loc[t].open} \ {NOFID}

OneOwner ==
    /\ fid["file"] # fid["dir"]
    /\ \A n, k \in Node, m, l \in Mode :
          slot[n][m].fid # NOFID /\ slot[n][m].fid = slot[k][l].fid => n = k /\ m = l
    /\ \A n, k \in Node, m \in Mode : slot[k][m].fid # NOFID => slot[k][m].fid # fid[n]
    /\ \A t \in Threads, n \in Node : fid[n] \notin Locals(t)
    /\ \A t \in Threads, n \in Node, m \in Mode : slot[n][m].fid \notin Locals(t)
    /\ \A t, u \in Threads : t # u => Locals(t) \cap Locals(u) = {}
    /\ \A t \in Threads : loc[t].fid # NOFID => loc[t].fid # loc[t].open

Resetting(n, m) ==
    \E t \in Threads : /\ loc[t].o.op = "close" /\ loc[t].st = "reset"
                       /\ loc[t].o.n = n /\ loc[t].o.m = m

SlotBound(n, m) == slot[n][m].fid # NOFID => srv[slot[n][m].fid] = Is(n, m) \/ Resetting(n, m)

NodeBound ==
    /\ srv[fid["dir"]] = Is("dir", "no")
    /\ fid["file"] # NOFID /\ name = "there" => srv[fid["file"]] = Is("file", "no")

ThreadBound(t) ==
    /\ loc[t].o.op = "open" /\ loc[t].st = "open" => srv[loc[t].fid] = Is(loc[t].o.n, "no")
    /\ loc[t].o.op = "create" /\ loc[t].st \in {"walk", "nget"} => srv[loc[t].open] = Is("file", "ORDWR")
    /\ loc[t].o.op = "create" /\ loc[t].st = "nget" => srv[loc[t].fid] = Is("file", "no")

BoundInv ==
    /\ OneOwner /\ NodeBound
    /\ \A n \in Node, m \in Mode : SlotBound(n, m)
    /\ \A t \in Threads : ThreadBound(t)

FidInv ==
    /\ FidTypes /\ BelowInv /\ OwnedInv
    /\ \A t \in Threads : ResetInv(t)
    /\ stray \/ BoundInv

(* The whole of it.                                                        *)
AllInv == IInv /\ PlaceInv /\ SlotInv /\ NumInv /\ FidInv

LEMMA FidTypesFacts ==
  ASSUME AllInv
  PROVE  /\ fid \in [Node -> Nat] /\ nfid \in Nat /\ nfid >= 6
         /\ \A n \in Node, m \in Mode : slot[n][m].fid \in Nat
         /\ \A t \in Threads : loc[t].fid \in Nat /\ loc[t].open \in Nat
         /\ \A f \in Nat : f < nfid /\ f # NOFID => f \in Fids
         /\ \A n \in Node : fid[n] # NOFID => fid[n] \in Fids
         /\ \A n \in Node, m \in Mode : slot[n][m].fid # NOFID => slot[n][m].fid \in Fids
         /\ \A t \in Threads : Locals(t) \subseteq Fids
<1> USE DEF AllInv
<1>1. /\ fid \in [Node -> Nat] /\ nfid \in Nat /\ nfid >= 6
      /\ \A n \in Node, m \in Mode : slot[n][m].fid \in Nat
      /\ \A t \in Threads : loc[t].fid \in Nat /\ loc[t].open \in Nat
  <2>1. fid \in [Node -> Nat] /\ nfid \in Nat /\ nfid >= 6
    BY DEF SlotInv, SlotTypes, IInv, LockType, PlaceInv
  <2>2. \A n \in Node, m \in Mode : slot[n][m].fid \in Nat
    BY CountFacts
  <2>3. \A t \in Threads : loc[t].fid \in Nat /\ loc[t].open \in Nat
    BY DEF IInv, LockType, LocType
  <2> QED
    BY <2>1, <2>2, <2>3
<1>2. \A f \in Nat : f < nfid /\ f # NOFID => f \in Fids
  BY WalkRoom
<1>3. \A n \in Node : fid[n] < nfid
  BY <1>1 DEF FidInv, BelowInv, Node
<1>4. \A n \in Node, m \in Mode : slot[n][m].fid < nfid
  BY DEF FidInv, BelowInv
<1>5. \A t \in Threads : loc[t].fid < nfid /\ loc[t].open < nfid
  BY DEF FidInv, BelowInv
<1> QED
  BY <1>1, <1>2, <1>3, <1>4, <1>5 DEF Locals

-----------------------------------------------------------------------------
(* Steps in which nobody gets a fid                                        *)

Shrinks ==
    /\ fid' = fid /\ nfid' = nfid
    /\ \A n \in Node, m \in Mode : slot'[n][m].fid \in {slot[n][m].fid, NOFID}
    /\ \A t \in Threads : loc'[t].fid \in {loc[t].fid, NOFID} /\ loc'[t].open \in {loc[t].open, NOFID}
    /\ \A f \in Fids : srv'[f] # Free => srv[f] # Free

LEMMA ShrinksOwners == ASSUME Shrinks, OneOwner PROVE OneOwner'
<1>1. \A t \in Threads : Locals(t)' \subseteq Locals(t)
  BY DEF Shrinks, Locals
<1>2. \A n \in Node, m \in Mode : slot'[n][m].fid \in {slot[n][m].fid, NOFID}
  BY DEF Shrinks
<1>3. fid' = fid
  BY DEF Shrinks
<1>4. \A n, k \in Node, m, l \in Mode :
         slot'[n][m].fid # NOFID /\ slot'[n][m].fid = slot'[k][l].fid => n = k /\ m = l
  BY <1>2 DEF OneOwner
<1>5. \A n, k \in Node, m \in Mode : slot'[k][m].fid # NOFID => slot'[k][m].fid # fid'[n]
  BY <1>2, <1>3 DEF OneOwner
<1>6. \A t \in Threads, n \in Node, m \in Mode : fid'[n] \notin Locals(t)' /\ slot'[n][m].fid \notin Locals(t)'
  <2>1. \A t \in Threads : NOFID \notin Locals(t)
    BY DEF Locals
  <2> QED
    BY <1>1, <1>2, <1>3, <2>1 DEF OneOwner
<1>7. \A t, u \in Threads : t # u => Locals(t)' \cap Locals(u)' = {}
  BY <1>1 DEF OneOwner
<1>8. \A t \in Threads : loc'[t].fid # NOFID => loc'[t].fid # loc'[t].open
  BY DEF Shrinks, OneOwner
<1>9. \A t \in Threads, n \in Node : fid'[n] \notin Locals(t)'
  BY <1>1, <1>3 DEF OneOwner
<1> QED
  BY <1>3, <1>4, <1>5, <1>6, <1>7, <1>8, <1>9 DEF OneOwner

LEMMA ShrinksBelow == ASSUME AllInv, Shrinks PROVE BelowInv'
<1>1. BelowInv /\ nfid > NOFID
  BY FidTypesFacts DEF AllInv, FidInv, NOFID
<1>2. \A n \in Node, m \in Mode : slot'[n][m].fid < nfid
  BY <1>1 DEF Shrinks, BelowInv
<1>3. \A t \in Threads : loc'[t].fid < nfid /\ loc'[t].open < nfid
  BY <1>1 DEF Shrinks, BelowInv
<1> QED
  BY <1>1, <1>2, <1>3 DEF Shrinks, BelowInv

Binding == {"open", "reset", "walk", "nget"}

(* A step of no consequence for the fids.                                  *)
Calm(t) ==
    /\ Others(t) /\ UNCHANGED <<fid, srv, nfid, lost, stray>>
    /\ \A n \in Node, m \in Mode : slot'[n][m].fid = slot[n][m].fid
    /\ loc'[t].fid = loc[t].fid /\ loc'[t].open = loc[t].open
    /\ loc'[t].st \notin Binding /\ loc[t].st # "reset"
    /\ name' = "there" => name = "there"

(* The others find everything as it was.                                   *)
LEMMA OthersReset ==
  ASSUME AllInv, NEW t \in Threads, Others(t), NEW u \in Threads, u # t,
         \A n \in Node, m \in Mode :
            n = loc[u].o.n /\ m = loc[u].o.m /\ slot[n][m].fid # NOFID =>
               slot'[n][m].fid = slot[n][m].fid,
         \A f \in Fids : srv[f] = Free \/ f \in lost => srv'[f] = Free \/ f \in lost'
  PROVE  ResetInv(u)'
<1>1. loc'[u] = loc[u] /\ loc[u].o \in AnyOp /\ ResetInv(u)
  BY DEF Others, AllInv, FidInv, IInv, LockType, LocType
<1>2. ASSUME loc[u].o.op = "close", loc[u].st = "reset"
      PROVE  LET f == slot'[loc[u].o.n][loc[u].o.m].fid IN srv'[f] = Free \/ f \in lost'
  <2> PICK n, m : n = loc[u].o.n /\ m = loc[u].o.m
    OBVIOUS
  <2>1. n \in Node /\ m \in Mode
    BY <1>1, <1>2, OpFacts
  <2>2. u \in Ending(n, m)
    BY <1>2 DEF Ending, Closers, After
  <2>3. slot[n][m].fid # NOFID
    BY <2>1, <2>2 DEF AllInv, SlotInv, ShutInv
  <2>4. slot[n][m].fid \in Fids /\ slot'[n][m].fid = slot[n][m].fid
    BY <2>1, <2>3, FidTypesFacts
  <2> QED
    BY <1>1, <1>2, <2>4 DEF ResetInv
<1> QED
  BY <1>1, <1>2 DEF ResetInv

LEMMA CalmKeeps == ASSUME NEW t \in Threads, AllInv, Calm(t) PROVE FidInv'
<1> USE DEF AllInv
<1>0. \A u \in Threads : /\ u # t => loc'[u] = loc[u]
                         /\ loc'[u].fid = loc[u].fid /\ loc'[u].open = loc[u].open
  BY DEF Calm, Others
<1>1. Shrinks
  BY <1>0 DEF Calm, Shrinks
<1>2. FidTypes' /\ BelowInv'
  BY <1>1, ShrinksBelow DEF Calm, FidInv, FidTypes
<1>3. OwnedInv'
  <2>1. \A f \in Fids : Owned(f) => Owned(f)'
    BY <1>0 DEF Calm, Owned
  <2> QED
    BY <2>1 DEF Calm, FidInv, OwnedInv
<1>4. ASSUME NEW u \in Threads PROVE ResetInv(u)'
  <2>1. CASE u = t
    BY <2>1 DEF Calm, Binding, ResetInv
  <2>2. CASE u # t
    BY <2>2, OthersReset DEF Calm
  <2> QED
    BY <2>1, <2>2
<1>5. ASSUME ~stray PROVE BoundInv'
  <2>0. BoundInv
    BY <1>5 DEF FidInv
  <2>1. OneOwner'
    BY <1>1, <2>0, ShrinksOwners DEF BoundInv
  <2>2. NodeBound'
    BY <2>0 DEF Calm, BoundInv, NodeBound
  <2>3. ASSUME NEW n \in Node, NEW m \in Mode PROVE SlotBound(n, m)'
    <3>1. Resetting(n, m) => Resetting(n, m)'
      BY <1>0 DEF Calm, Resetting
    <3> QED
      BY <2>0, <3>1 DEF Calm, BoundInv, SlotBound
  <2>4. ASSUME NEW u \in Threads PROVE ThreadBound(u)'
    <3>1. CASE u = t
      BY <3>1 DEF Calm, Binding, ThreadBound
    <3>2. CASE u # t
      BY <1>0, <2>0, <3>2 DEF Calm, BoundInv, ThreadBound
    <3> QED
      BY <3>1, <3>2
  <2> QED
    BY <2>1, <2>2, <2>3, <2>4 DEF BoundInv
<1> QED
  BY <1>2, <1>3, <1>4, <1>5 DEF FidInv, Calm

-----------------------------------------------------------------------------
(* A thread clunks a fid of its own.                                       *)

Drops(t, f) ==
    \/ f = loc[t].fid /\ loc'[t].fid = NOFID /\ loc'[t].open = loc[t].open
    \/ f = loc[t].open /\ loc'[t].open = NOFID /\ loc'[t].fid = loc[t].fid

LEMMA ClunkFacts ==
  ASSUME AllInv, NEW f \in Fids \cup {NOFID}, DoClunk(f)
  PROVE  /\ srv' \in [Fids -> SrvRec] /\ lost \subseteq lost' /\ lost' \subseteq Fids
         /\ \A g \in Fids : g # f => srv'[g] = srv[g]
         /\ \A g \in Fids : srv'[g] # Free => srv[g] # Free
         /\ f # NOFID => srv'[f] = Free \/ f \in lost'
         /\ \A g \in Fids : srv[g] = Free \/ g \in lost => srv'[g] = Free \/ g \in lost'
<1>1. srv \in [Fids -> SrvRec] /\ lost \subseteq Fids
  BY DEF AllInv, FidInv, FidTypes
<1>2. Free \in SrvRec
  BY DEF Free, Is, SrvRec
<1>3. CASE f = NOFID /\ UNCHANGED <<srv, lost>>
  BY <1>1, <1>3
<1>4. CASE f # NOFID /\ srv' = [srv EXCEPT ![f] = Free] /\ UNCHANGED lost
  BY <1>1, <1>2, <1>4
<1>5. CASE f # NOFID /\ lost' = lost \cup {f} /\ UNCHANGED srv
  BY <1>1, <1>5
<1> QED
  BY <1>3, <1>4, <1>5 DEF DoClunk

LEMMA ClunkKeeps ==
  ASSUME NEW t \in Threads, AllInv, Others(t), NEW f, Drops(t, f), DoClunk(f),
         UNCHANGED <<fid, slot, nfid, name, stray>>,
         loc'[t].st \notin Binding, loc[t].st # "reset"
  PROVE  FidInv'
<1> USE DEF AllInv
<1>1. f \in Fids \cup {NOFID} /\ (f # NOFID => f \in Locals(t))
  BY FidTypesFacts DEF Drops, Locals
<1>2. /\ srv' \in [Fids -> SrvRec] /\ lost \subseteq lost' /\ lost' \subseteq Fids
      /\ \A g \in Fids : g # f => srv'[g] = srv[g]
      /\ \A g \in Fids : srv'[g] # Free => srv[g] # Free
      /\ f # NOFID => srv'[f] = Free \/ f \in lost'
      /\ \A g \in Fids : srv[g] = Free \/ g \in lost => srv'[g] = Free \/ g \in lost'
  BY <1>1, ClunkFacts
<1>3. \A u \in Threads : u # t => loc'[u] = loc[u]
  BY DEF Others
<1>4. Shrinks
  BY <1>2, <1>3 DEF Drops, Shrinks
<1>5. FidTypes' /\ BelowInv'
  BY <1>2, <1>4, ShrinksBelow DEF FidInv, FidTypes
<1>6. OwnedInv'
  <2> SUFFICES ASSUME NEW g \in Fids, srv'[g] # Free, g \notin lost' PROVE Owned(g)'
    BY DEF OwnedInv
  <2>1. g # f /\ Owned(g) /\ g # NOFID
    BY <1>2 DEF FidInv, OwnedInv, Fids, NOFID
  <2>2. CASE \E u \in Threads : u # t /\ g \in {loc[u].fid, loc[u].open}
    BY <1>3, <2>2 DEF Owned
  <2>3. CASE g \in {loc[t].fid, loc[t].open}
    BY <2>1, <2>3 DEF Owned, Drops
  <2>4. CASE (\E n \in Node : fid[n] = g) \/ (\E n \in Node, m \in Mode : slot[n][m].fid = g)
    BY <2>4 DEF Owned
  <2> QED
    BY <2>1, <2>2, <2>3, <2>4 DEF Owned
<1>7. ASSUME NEW u \in Threads PROVE ResetInv(u)'
  <2>1. CASE u = t
    BY <2>1 DEF Binding, ResetInv
  <2>2. CASE u # t
    BY <1>2, <2>2, OthersReset
  <2> QED
    BY <2>1, <2>2
<1>8. ASSUME ~stray PROVE BoundInv'
  <2>0. BoundInv /\ OneOwner
    BY <1>8 DEF FidInv, BoundInv
  <2>1. OneOwner'
    BY <1>4, <2>0, ShrinksOwners
  <2>2. \A n \in Node : fid[n] # NOFID => srv'[fid[n]] = srv[fid[n]]
    BY <1>1, <1>2, <2>0, FidTypesFacts DEF OneOwner
  <2>3. NodeBound'
    <3>1. fid["dir"] # NOFID /\ "dir" \in Node /\ "file" \in Node
      BY DEF FidInv, BelowInv, NOFID, Node
    <3> QED
      BY <2>0, <2>2, <3>1 DEF BoundInv, NodeBound
  <2>4. ASSUME NEW n \in Node, NEW m \in Mode PROVE SlotBound(n, m)'
    <3>1. slot[n][m].fid # NOFID => srv'[slot[n][m].fid] = srv[slot[n][m].fid]
      BY <1>1, <1>2, <2>0, FidTypesFacts DEF OneOwner
    <3>2. Resetting(n, m) => Resetting(n, m)'
      BY <1>3 DEF Resetting
    <3> QED
      BY <2>0, <3>1, <3>2 DEF BoundInv, SlotBound
  <2>5. ASSUME NEW u \in Threads PROVE ThreadBound(u)'
    <3>1. CASE u = t
      BY <3>1 DEF Binding, ThreadBound
    <3>2. CASE u # t
      <4>1. \A g \in Locals(u) : srv'[g] = srv[g]
        <5> SUFFICES ASSUME NEW g \in Locals(u) PROVE srv'[g] = srv[g]
          OBVIOUS
        <5>1. g \in Fids /\ g # NOFID
          BY FidTypesFacts DEF Locals
        <5>2. Locals(t) \cap Locals(u) = {}
          BY <2>0, <3>2 DEF OneOwner
        <5>3. g # f
          BY <1>1, <5>1, <5>2
        <5> QED
          BY <1>2, <5>1, <5>3
      <4>2. /\ loc[u].o.op = "open" /\ loc[u].st = "open" => loc[u].fid \in Locals(u)
            /\ loc[u].o.op = "create" /\ loc[u].st \in {"walk", "nget"} => loc[u].open \in Locals(u)
            /\ loc[u].o.op = "create" /\ loc[u].st = "nget" => loc[u].fid \in Locals(u)
        BY DEF PlaceInv, LocalInv, Locals
      <4>3. loc'[u] = loc[u] /\ ThreadBound(u)
        BY <1>3, <2>0, <3>2 DEF BoundInv
      <4> QED
        BY <4>1, <4>2, <4>3 DEF ThreadBound
    <3> QED
      BY <3>1, <3>2
  <2> QED
    BY <2>1, <2>3, <2>4, <2>5 DEF BoundInv
<1> QED
  BY <1>5, <1>6, <1>7, <1>8 DEF FidInv

-----------------------------------------------------------------------------
(* A thread walks to a fid that is new.                                    *)

Gains(t, f) ==
    \/ loc[t].fid = NOFID /\ loc'[t].fid = f /\ loc'[t].open = loc[t].open
    \/ loc[t].open = NOFID /\ loc'[t].open = f /\ loc'[t].fid = loc[t].fid

LEMMA WalkKeeps ==
  ASSUME NEW t \in Threads, AllInv, Others(t), Gains(t, nfid), NEW k \in Node, WalkTo(k, nfid), nfid \in Fids,
         UNCHANGED <<fid, slot, name, lost, stray>>,
         loc'[t].st # "reset", loc[t].st # "reset", ~stray => ThreadBound(t)'
  PROVE  FidInv'
<1> USE DEF AllInv
<1>0. /\ fid \in [Node -> Nat] /\ nfid \in Nat /\ nfid >= 6 /\ nfid' = nfid + 1 /\ nfid < nfid' /\ nfid # NOFID
      /\ \A u \in Threads : loc[u].fid \in Nat /\ loc[u].open \in Nat
      /\ \A n \in Node, m \in Mode : slot[n][m].fid \in Nat
  BY FidTypesFacts DEF WalkTo, NOFID
<1>1. /\ srv' \in [Fids -> SrvRec] /\ srv'[nfid] = Is(k, "no") /\ srv'[nfid] # Free
      /\ \A g \in Fids : g # nfid => srv'[g] = srv[g]
  BY DEF WalkTo, FidInv, FidTypes, SrvRec, Is, Free, Node
<1>2. \A u \in Threads : u # t => loc'[u] = loc[u]
  BY DEF Others
<1>3. /\ \A n \in Node : fid[n] < nfid
      /\ \A n \in Node, m \in Mode : slot[n][m].fid < nfid
      /\ \A u \in Threads : loc[u].fid < nfid /\ loc[u].open < nfid
  BY <1>0 DEF FidInv, BelowInv, Node
<1>4. /\ \A n \in Node : fid[n] # nfid
      /\ \A n \in Node, m \in Mode : slot[n][m].fid # nfid
      /\ \A u \in Threads : nfid \notin Locals(u)
  BY <1>0, <1>3 DEF Locals
<1>5. Locals(t)' = Locals(t) \cup {nfid} /\ \A u \in Threads : u # t => Locals(u)' = Locals(u)
  BY <1>0, <1>2 DEF Locals, Gains
<1>6. FidTypes' /\ BelowInv'
  <2>1. \A x \in Nat : x < nfid => x < nfid'
    BY <1>0
  <2>2. \A u \in Threads : loc'[u].fid < nfid' /\ loc'[u].open < nfid'
    BY <1>0, <1>2, <1>3, <2>1 DEF Gains
  <2>3. \A g \in Fids : srv'[g] # Free => g < nfid'
    BY <1>0, <1>1, <2>1 DEF FidInv, BelowInv, Fids
  <2>4. fid["file"] < nfid' /\ \A n \in Node, m \in Mode : slot[n][m].fid < nfid'
    BY <1>0, <1>3, <2>1 DEF Node
  <2> QED
    BY <1>1, <2>2, <2>3, <2>4 DEF FidInv, FidTypes, BelowInv
<1>7. OwnedInv'
  <2> SUFFICES ASSUME NEW g \in Fids, srv'[g] # Free, g \notin lost' PROVE Owned(g)'
    BY DEF OwnedInv
  <2>1. CASE g = nfid
    BY <2>1 DEF Owned, Gains
  <2>2. CASE g # nfid
    <3>1. Owned(g) /\ g # NOFID
      BY <1>1, <2>2 DEF FidInv, OwnedInv, Fids, NOFID
    <3>2. \A u \in Threads : g \in {loc[u].fid, loc[u].open} => g \in {loc'[u].fid, loc'[u].open}
      BY <1>2, <3>1 DEF Gains
    <3> QED
      BY <3>1, <3>2 DEF Owned
  <2> QED
    BY <2>1, <2>2
<1>8. ASSUME NEW u \in Threads PROVE ResetInv(u)'
  <2>1. CASE u = t
    BY <2>1 DEF ResetInv
  <2>2. CASE u # t
    <3>1. \A f \in Fids : srv[f] = Free \/ f \in lost => srv'[f] = Free \/ f \in lost' \/ f = nfid
      BY <1>1
    <3>2. loc'[u] = loc[u] /\ loc[u].o \in AnyOp /\ ResetInv(u)
      BY <1>2, <2>2 DEF FidInv, IInv, LockType, LocType
    <3>3. ASSUME loc[u].o.op = "close", loc[u].st = "reset"
          PROVE  LET f == slot'[loc[u].o.n][loc[u].o.m].fid IN srv'[f] = Free \/ f \in lost'
      <4> PICK n, m : n = loc[u].o.n /\ m = loc[u].o.m
        OBVIOUS
      <4>1. n \in Node /\ m \in Mode
        BY <3>2, <3>3, OpFacts
      <4>2. u \in Ending(n, m)
        BY <3>3 DEF Ending, Closers, After
      <4>3. slot[n][m].fid # NOFID /\ slot[n][m].fid # nfid
        BY <1>4, <4>1, <4>2 DEF SlotInv, ShutInv
      <4>4. slot[n][m].fid \in Fids
        BY <4>1, <4>3, FidTypesFacts
      <4> QED
        BY <3>1, <3>2, <3>3, <4>3, <4>4 DEF ResetInv
    <3> QED
      BY <3>2, <3>3 DEF ResetInv
  <2> QED
    BY <2>1, <2>2
<1>9. ASSUME ~stray PROVE BoundInv'
  <2>0. BoundInv /\ OneOwner
    BY <1>9 DEF FidInv, BoundInv
  <2>1. OneOwner'
    <3>1. \A u \in Threads, n \in Node : fid'[n] \notin Locals(u)'
      BY <1>4, <1>5, <2>0 DEF OneOwner
    <3>2. \A u \in Threads, n \in Node, m \in Mode : slot'[n][m].fid \notin Locals(u)'
      BY <1>4, <1>5, <2>0 DEF OneOwner
    <3>3. \A u, v \in Threads : u # v => Locals(u)' \cap Locals(v)' = {}
      BY <1>4, <1>5, <2>0 DEF OneOwner
    <3>4. \A u \in Threads : loc'[u].fid # NOFID => loc'[u].fid # loc'[u].open
      <4>1. loc'[t].fid # NOFID => loc'[t].fid # loc'[t].open
        BY <1>0, <1>3 DEF Gains
      <4> QED
        BY <1>2, <2>0, <4>1 DEF OneOwner
    <3> QED
      BY <2>0, <3>1, <3>2, <3>3, <3>4 DEF OneOwner
  <2>2. NodeBound'
    <3>1. /\ "dir" \in Node /\ "file" \in Node /\ fid["dir"] # NOFID
          /\ \A n \in Node : fid[n] # NOFID => srv'[fid[n]] = srv[fid[n]]
      BY <1>1, <1>4, FidTypesFacts DEF FidInv, BelowInv, NOFID, Node
    <3> QED
      BY <2>0, <3>1 DEF BoundInv, NodeBound
  <2>3. ASSUME NEW n \in Node, NEW m \in Mode PROVE SlotBound(n, m)'
    <3>1. slot[n][m].fid # NOFID => srv'[slot[n][m].fid] = srv[slot[n][m].fid]
      BY <1>1, <1>4, FidTypesFacts
    <3>2. Resetting(n, m) => Resetting(n, m)'
      BY <1>2 DEF Resetting
    <3> QED
      BY <2>0, <3>1, <3>2 DEF BoundInv, SlotBound
  <2>4. ASSUME NEW u \in Threads PROVE ThreadBound(u)'
    <3>1. CASE u = t
      BY <1>9, <3>1
    <3>2. CASE u # t
      <4>1. \A g \in Locals(u) : srv'[g] = srv[g]
        BY <1>1, <1>4, FidTypesFacts
      <4>2. /\ loc[u].o.op = "open" /\ loc[u].st = "open" => loc[u].fid \in Locals(u)
            /\ loc[u].o.op = "create" /\ loc[u].st \in {"walk", "nget"} => loc[u].open \in Locals(u)
            /\ loc[u].o.op = "create" /\ loc[u].st = "nget" => loc[u].fid \in Locals(u)
        BY DEF PlaceInv, LocalInv, Locals
      <4>3. loc'[u] = loc[u] /\ ThreadBound(u)
        BY <1>2, <2>0, <3>2 DEF BoundInv
      <4> QED
        BY <4>1, <4>2, <4>3 DEF ThreadBound
    <3> QED
      BY <3>1, <3>2
  <2> QED
    BY <2>1, <2>2, <2>3, <2>4 DEF BoundInv
<1> QED
  BY <1>6, <1>7, <1>8, <1>9 DEF FidInv

-----------------------------------------------------------------------------
(* The steps of no consequence                                             *)

LEMMA LockingsCalm == ASSUME NEW t \in Threads, AllInv, Lockings(t) PROVE Calm(t)
<1> USE DEF AllInv
<1>1. UNCHANGED data /\ Others(t) /\ Around(t) /\ LocalInv(t)
  BY LockingsLocked DEF PlaceInv
<1>2. UNCHANGED <<fid, slot, srv, nfid, lost, stray, name>>
  BY <1>1 DEF data, server, history
<1>3. CASE loc[t].st \in {"unlock", "drop"} /\ loc'[t] = Idle
  <2>1. loc[t].fid = NOFID /\ loc[t].open = NOFID
    BY <1>1, <1>3 DEF LocalInv
  <2> QED
    BY <1>1, <1>2, <1>3, <2>1, IdleFacts DEF Calm, Binding
<1>4. CASE ~(loc[t].st \in {"unlock", "drop"} /\ loc'[t] = Idle)
  BY <1>1, <1>2, <1>4 DEF Around, SameLocals, Calm, Binding
<1> QED
  BY <1>3, <1>4

LEMMA BeginCalm == ASSUME NEW t \in Threads, AllInv, Begin(t) PROVE Calm(t)
<1> USE DEF AllInv
<1>1. /\ Others(t) /\ loc[t].st = "idle" /\ loc'[t].fid = NOFID /\ loc'[t].open = NOFID
      /\ loc'[t].st \in {"body", "lock"}
  BY BeginFields
<1>2. loc[t].fid = NOFID /\ loc[t].open = NOFID
  BY <1>1 DEF PlaceInv, LocalInv
<1>3. UNCHANGED <<fid, slot, srv, nfid, lost, stray, name>>
  BY DEF Begin, server, history
<1> QED
  BY <1>1, <1>2, <1>3 DEF Calm, Binding

(* A step that goes from one place in the body to another.                 *)
LEMMA GoesCalm ==
  ASSUME NEW t \in Threads, Others(t), SameLocals(t), loc'[t].st \notin Binding, loc[t].st # "reset",
         UNCHANGED <<fid, slot, srv, nfid, lost, stray, name>>
  PROVE  Calm(t)
  BY DEF Calm, SameLocals

LEMMA OpensCalm ==
  ASSUME NEW t \in Threads, AllInv, OpenShared(t) \/ OpenOpenFails(t) PROVE Calm(t)
<1> USE DEF AllInv
<1>1. CASE OpenShared(t)
  <2> PICK n, m, f : n = loc[t].o.n /\ m = loc[t].o.m /\ f = slot[n][m].fid
    OBVIOUS
  <2>1. SetsFid(t, "unlock", NOFID) /\ loc[t].st = "body" /\ loc[t].o.op = "open"
    BY <1>1, OpensMove DEF Opens, OpenShared, Opening
  <2>2. loc[t].fid = NOFID
    BY <2>1 DEF PlaceInv, LocalInv
  <2>3. loc[t].o \in AnyOp
    BY DEF IInv, LockType, LocType
  <2>4. n \in Node /\ m \in Mode /\ SlotTypes
    BY <2>1, <2>3, OpFacts DEF SlotInv
  <2>5. slot' = [slot EXCEPT ![n][m] = [fid |-> f, ref |-> @.ref + 1]]
    BY <1>1 DEF OpenShared, OpenRef
  <2>6. \A k \in Node, l \in Mode : slot'[k][l].fid = slot[k][l].fid
    BY <2>4, <2>5 DEF SlotTypes
  <2>7. UNCHANGED <<fid, srv, nfid, lost, stray, name>>
    BY <1>1 DEF OpenShared, server, history
  <2> QED
    BY <2>1, <2>2, <2>6, <2>7 DEF SetsFid, Calm, Binding
<1>2. CASE OpenOpenFails(t)
  <2>1. /\ Others(t) /\ SameLocals(t) /\ loc'[t].st = "failed" /\ loc[t].st = "open"
        /\ UNCHANGED <<fid, slot, srv, nfid, lost, stray, name>>
    BY <1>2, GotoFields DEF OpenOpenFails, Opening, server, history
  <2> QED
    BY <2>1, GoesCalm DEF Binding
<1> QED
  BY <1>1, <1>2

LEMMA RefFids ==
  ASSUME SlotTypes, NEW n \in Node, NEW m \in Mode, NEW c, slot' = [slot EXCEPT ![n][m].ref = c]
  PROVE  \A k \in Node, l \in Mode : slot'[k][l].fid = slot[k][l].fid
<1>1. slot \in [Node -> [Mode -> [fid : Nat, ref : Nat]]] /\ slot[n][m] \in [fid : Nat, ref : Nat]
  BY DEF SlotTypes
<1>2. slot'[n][m] = [slot[n][m] EXCEPT !.ref = c]
  BY <1>1
<1>3. slot'[n][m].fid = slot[n][m].fid
  BY <1>1, <1>2
<1>4. \A k \in Node, l \in Mode : k # n \/ l # m => slot'[k][l] = slot[k][l]
  BY <1>1
<1> QED
  BY <1>3, <1>4

LEMMA CloseDecrementCalm == ASSUME NEW t \in Threads, AllInv, CloseDecrement(t) PROVE Calm(t)
<1> USE DEF AllInv
<1> PICK n, m : n = loc[t].o.n /\ m = loc[t].o.m
  OBVIOUS
<1>1. /\ loc[t].o \in AnyOp /\ loc[t].o.op = "close" /\ loc[t].st = "body"
      /\ UNCHANGED <<fid, srv, nfid, lost, stray, name>>
  BY DEF IInv, LockType, LocType, CloseDecrement, Closing, server, history
<1>2. n \in Node /\ m \in Mode /\ SlotTypes
  BY <1>1, OpFacts DEF SlotInv
<1>3. \A k \in Node, l \in Mode : slot'[k][l].fid = slot[k][l].fid
  <2> PICK c : c = slot[n][m].ref - 1
    OBVIOUS
  <2>1. slot' = slot \/ slot' = [slot EXCEPT ![n][m].ref = c]
    BY <1>2 DEF CloseDecrement, SlotTypes
  <2>2. CASE slot' = slot
    BY <2>2
  <2>3. CASE slot' = [slot EXCEPT ![n][m].ref = c]
    BY <1>2, <2>3, RefFids
  <2> QED
    BY <2>1, <2>2, <2>3
<1>4. Goto(t, "unlock") \/ Goto(t, "push")
  BY DEF CloseDecrement
<1>5. Others(t) /\ SameLocals(t) /\ loc'[t].st \in {"unlock", "push"}
  BY <1>4, GotoFields
<1> QED
  BY <1>1, <1>3, <1>5 DEF SameLocals, Calm, Binding

LEMMA TransferringCalm == ASSUME NEW t \in Threads, AllInv, Transferring(t) PROVE Calm(t)
<1> USE DEF AllInv, Doing, Pick
<1>1. UNCHANGED <<fid, slot, srv, nfid, lost, stray, name>>
  BY DEF Transferring, ReadCached, ReadUncached, WriteCached, WriteFillFails, Push, Nread, Nwrite, Readdir,
         Strategy, TransferEnds, TransferEBADF, server, history
<1>2. /\ Others(t) /\ SameLocals(t) /\ loc'[t].st \in {"pick", "unlock", "EBADF", "push", "io", "clunk", "wstat"}
      /\ loc[t].st # "reset"
  <2>1. CASE Nread(t) \/ Nwrite(t) \/ Readdir(t) \/ Strategy(t)
    <3>1. /\ Goto(t, "EBADF") \/ \E m : loc' = [loc EXCEPT ![t].st = "io", ![t].pick = m]
          /\ loc[t].st \in {"pick", "body"}
      BY <2>1 DEF Nread, Nwrite, Readdir, Strategy
    <3> QED
      BY <3>1, GotoFields, PickFields
  <2>2. CASE ReadCached(t) \/ ReadUncached(t) \/ WriteCached(t) \/ WriteFillFails(t) \/ TransferEBADF(t)
    <3>1. /\ Goto(t, "pick") \/ Goto(t, "unlock") \/ Goto(t, "push") \/ Goto(t, "EBADF")
          /\ loc[t].st \in {"body", "EBADF"}
      BY <2>2 DEF ReadCached, ReadUncached, WriteCached, WriteFillFails, TransferEBADF
    <3> QED
      BY <3>1, GotoFields
  <2>3. CASE Push(t)
    <3>1. (Goto(t, "clunk") \/ Goto(t, "wstat") \/ Goto(t, "pick")) /\ loc[t].st = "push"
      BY <2>3 DEF Push
    <3> QED
      BY <3>1, GotoFields
  <2>4. CASE TransferEnds(t)
    BY <2>4, PickFields DEF TransferEnds
  <2> QED
    BY <2>1, <2>2, <2>3, <2>4 DEF Transferring
<1> QED
  BY <1>1, <1>2, GoesCalm DEF Binding

LEMMA AttributesCalm == ASSUME NEW t \in Threads, AllInv, Attributes(t) PROVE Calm(t)
<1> USE DEF AllInv
<1>1. /\ UNCHANGED <<fid, slot, srv, nfid, lost, stray, name>> /\ (Goto(t, "unlock") \/ Goto(t, "push"))
      /\ loc[t].st \in {"body", "wstat"}
  BY DEF Attributes, Getattr, Setattr, Rename, Ends, FsyncPush, FsyncWstat, Doing, server, history
<1>2. Others(t) /\ SameLocals(t) /\ loc'[t].st \in {"unlock", "push"}
  BY <1>1, GotoFields
<1> QED
  BY <1>1, <1>2, GoesCalm DEF Binding

LEMMA CreatesCalm ==
  ASSUME NEW t \in Threads, AllInv,
         CreateCloneFails(t) \/ CreateRefused(t) \/ CreateWalkFails(t) \/ CreateNodeFails(t)
  PROVE  Calm(t)
<1> USE DEF AllInv
<1>1. /\ UNCHANGED <<fid, slot, srv, nfid, lost, stray, name>> /\ Goto(t, "clunkopen")
      /\ loc[t].st \in {"body", "create", "walk", "nget"}
  BY DEF CreateCloneFails, CreateRefused, CreateWalkFails, CreateNodeFails, Creating, server, history
<1>2. Others(t) /\ SameLocals(t) /\ loc'[t].st = "clunkopen"
  BY <1>1, GotoFields
<1> QED
  BY <1>1, <1>2, GoesCalm DEF Binding

-----------------------------------------------------------------------------
(* The steps that walk to a fid, or clunk one                              *)

LEMMA ClunksKeep ==
  ASSUME NEW t \in Threads, AllInv, OpenError(t) \/ CreateClunkOpen(t) \/ CreateClunkFid(t)
  PROVE  FidInv'
<1> USE DEF AllInv
<1>1. CASE OpenError(t)
  <2> PICK f : f = loc[t].fid
    OBVIOUS
  <2>1. /\ SetsFid(t, "unlock", NOFID) /\ loc[t].st = "failed" /\ DoClunk(f)
        /\ UNCHANGED <<fid, slot, nfid, name, stray>>
    BY <1>1, OpensMove DEF Opens, OpenError, Opening
  <2>2. Drops(t, f) /\ Others(t) /\ loc'[t].st \notin Binding /\ loc[t].st # "reset"
    BY <2>1 DEF SetsFid, Drops, Binding
  <2> QED
    BY <2>1, <2>2, ClunkKeeps
<1>2. CASE CreateClunkOpen(t)
  <2> PICK f : f = loc[t].open
    OBVIOUS
  <2>1. /\ SetsOpen(t, "clunkfid", NOFID) /\ loc[t].st = "clunkopen" /\ DoClunk(f)
        /\ UNCHANGED <<fid, slot, nfid, name, stray>>
    BY <1>2, CreatesMove DEF Creates, CreateClunkOpen, Creating
  <2>2. Drops(t, f) /\ Others(t) /\ loc'[t].st \notin Binding /\ loc[t].st # "reset"
    BY <2>1 DEF SetsOpen, Drops, Binding
  <2> QED
    BY <2>1, <2>2, ClunkKeeps
<1>3. CASE CreateClunkFid(t)
  <2> PICK f : f = loc[t].fid
    OBVIOUS
  <2>1. /\ SetsFid(t, "unlock", NOFID) /\ loc[t].st = "clunkfid" /\ DoClunk(f)
        /\ UNCHANGED <<fid, slot, nfid, name, stray>>
    BY <1>3, CreatesMove DEF Creates, CreateClunkFid, Creating
  <2>2. Drops(t, f) /\ Others(t) /\ loc'[t].st \notin Binding /\ loc[t].st # "reset"
    BY <2>1 DEF SetsFid, Drops, Binding
  <2> QED
    BY <2>1, <2>2, ClunkKeeps
<1> QED
  BY <1>1, <1>2, <1>3

LEMMA NewFid ==
  ASSUME AllInv, NEW k, WalkTo(k, nfid), nfid \in Fids PROVE srv'[nfid] = Is(k, "no")
  BY DEF AllInv, FidInv, FidTypes, WalkTo

LEMMA WalksKeep ==
  ASSUME NEW t \in Threads, AllInv, OpenWalk(t) \/ CreateClone(t) \/ CreateWalk(t)
  PROVE  FidInv'
<1> USE DEF AllInv
<1>0. loc[t].o \in AnyOp
  BY DEF IInv, LockType, LocType
<1>1. CASE OpenWalk(t)
  <2> PICK k : k = loc[t].o.n
    OBVIOUS
  <2>1. /\ SetsFid(t, "open", nfid) /\ loc[t].st = "body" /\ loc[t].o.op = "open" /\ WalkTo(k, nfid)
        /\ UNCHANGED <<fid, slot, name, lost, stray>>
    BY <1>1, OpensMove DEF Opens, OpenWalk, Opening, history
  <2>2. k \in Node
    BY <1>0, <2>1, OpFacts
  <2>3. loc[t].fid = NOFID
    BY <2>1 DEF PlaceInv, LocalInv
  <2>4. Gains(t, nfid) /\ Others(t) /\ loc'[t].st # "reset" /\ loc[t].st # "reset"
    BY <2>1, <2>3 DEF SetsFid, Gains
  <2>5. nfid \in Fids
    BY <2>1, WalkRoom DEF ToWalk, Before
  <2>6. ThreadBound(t)'
    <3>1. srv'[nfid] = Is(k, "no")
      BY <2>1, <2>5, NewFid
    <3> QED
      BY <2>1, <3>1 DEF SetsFid, ThreadBound
  <2> QED
    BY <2>1, <2>2, <2>4, <2>5, <2>6, WalkKeeps
<1>2. CASE CreateClone(t)
  <2>1. /\ SetsOpen(t, "create", nfid) /\ loc[t].st = "body" /\ loc[t].o.op = "create" /\ WalkTo("dir", nfid)
        /\ UNCHANGED <<fid, slot, name, lost, stray>>
    BY <1>2, CreatesMove DEF Creates, CreateClone, Creating, history
  <2>3. loc[t].open = NOFID
    BY <2>1 DEF PlaceInv, LocalInv
  <2>4. Gains(t, nfid) /\ Others(t) /\ loc'[t].st # "reset" /\ loc[t].st # "reset" /\ "dir" \in Node
    BY <2>1, <2>3 DEF SetsOpen, Gains, Node
  <2>5. nfid \in Fids
    BY <2>1, WalkRoom DEF ToWalk, Before
  <2>6. ThreadBound(t)'
    BY <2>1 DEF SetsOpen, ThreadBound
  <2> QED
    BY <2>1, <2>4, <2>5, <2>6, WalkKeeps
<1>3. CASE CreateWalk(t)
  <2>1. /\ SetsFid(t, "nget", nfid) /\ loc[t].st = "walk" /\ loc[t].o.op = "create" /\ WalkTo("file", nfid)
        /\ UNCHANGED <<fid, slot, name, lost, stray>>
    BY <1>3, CreatesMove DEF Creates, CreateWalk, Creating, history
  <2>2. "file" \in Node
    BY DEF Node
  <2>3. loc[t].fid = NOFID /\ loc[t].open # NOFID
    BY <2>1 DEF PlaceInv, LocalInv
  <2>4. Gains(t, nfid) /\ Others(t) /\ loc'[t].st # "reset" /\ loc[t].st # "reset"
    BY <2>1, <2>3 DEF SetsFid, Gains
  <2>5. nfid \in Fids
    BY <2>1, WalkRoom DEF ToWalkAgain
  <2>6. ASSUME ~stray PROVE ThreadBound(t)'
    <3>1. srv'[nfid] = Is("file", "no")
      BY <2>1, <2>5, NewFid
    <3>2. srv[loc[t].open] = Is("file", "ORDWR")
      BY <2>1, <2>6 DEF FidInv, BoundInv, ThreadBound
    <3>3. loc[t].open < nfid /\ loc[t].open \in Nat /\ loc[t].open \in Fids /\ nfid \in Nat
      BY <2>3, FidTypesFacts DEF FidInv, BelowInv
    <3>4. loc[t].open # nfid
      BY <3>3
    <3>5. srv'[loc[t].open] = srv[loc[t].open]
      BY <2>1, <3>3, <3>4 DEF WalkTo, FidInv, FidTypes
    <3> QED
      BY <2>1, <3>1, <3>2, <3>5 DEF SetsFid, ThreadBound
  <2> QED
    BY <2>1, <2>2, <2>4, <2>5, <2>6, WalkKeeps
<1> QED
  BY <1>1, <1>2, <1>3

(* The walk that fails, and leaves in fid what the stack held.             *)
LEMMA OpenWalkFailsKeeps == ASSUME NEW t \in Threads, AllInv, OpenWalkFails(t) PROVE FidInv'
<1> USE DEF AllInv
<1>1. PICK f \in {NOFID} \cup {g \in Fids : srv[g] # Free} :
             SetsFid(t, "failed", f) /\ stray' = (stray \/ f # NOFID)
  BY OpensMove DEF Opens
<1>2. /\ loc[t].st = "body" /\ loc[t].o.op = "open"
      /\ UNCHANGED <<fid, slot, srv, nfid, lost, name>>
  BY DEF OpenWalkFails, Opening, server, history
<1>3. loc[t].fid = NOFID /\ stray \in BOOLEAN
  BY <1>2 DEF PlaceInv, LocalInv, FidInv, FidTypes
<1>4. CASE f = NOFID
  <2>1. stray' = stray
    BY <1>1, <1>3, <1>4
  <2>2. Calm(t)
    BY <1>1, <1>2, <1>3, <1>4, <2>1 DEF SetsFid, Calm, Binding
  <2> QED
    BY <2>2, CalmKeeps
<1>5. CASE f # NOFID
  <2>1. f \in Fids /\ srv[f] # Free /\ stray' = TRUE
    BY <1>1, <1>5
  <2>2. \A u \in Threads : u # t => loc'[u] = loc[u]
    BY <1>1 DEF SetsFid, Others
  <2>3. FidTypes'
    BY <1>2, <2>1 DEF FidInv, FidTypes
  <2>4. BelowInv'
    <3>1. \A u \in Threads : loc'[u].fid < nfid /\ loc'[u].open < nfid
      BY <1>1, <2>1, <2>2 DEF SetsFid, FidInv, BelowInv
    <3> QED
      BY <1>2, <3>1 DEF FidInv, BelowInv
  <2>5. OwnedInv'
    <3>1. \A g \in Fids : Owned(g) => Owned(g)'
      <4> SUFFICES ASSUME NEW g \in Fids, Owned(g) PROVE Owned(g)'
        OBVIOUS
      <4>1. g # NOFID
        BY DEF Fids, NOFID
      <4>2. \A u \in Threads : g \in {loc[u].fid, loc[u].open} => g \in {loc'[u].fid, loc'[u].open}
        BY <1>1, <1>3, <2>2, <4>1 DEF SetsFid
      <4> QED
        BY <1>2, <4>2 DEF Owned
    <3> QED
      BY <1>2, <3>1 DEF FidInv, OwnedInv
  <2>6. ASSUME NEW u \in Threads PROVE ResetInv(u)'
    <3>1. CASE u = t
      BY <1>1, <3>1 DEF SetsFid, ResetInv
    <3>2. CASE u # t
      BY <1>1, <1>2, <3>2, OthersReset DEF SetsFid
    <3> QED
      BY <3>1, <3>2
  <2> QED
    BY <2>1, <2>3, <2>4, <2>5, <2>6 DEF FidInv
<1> QED
  BY <1>4, <1>5

-----------------------------------------------------------------------------
(* The file's fid goes, and the node keeps its number.                     *)
LEMMA RemovesKeep == ASSUME NEW t \in Threads, AllInv, Remove(t) \/ RemoveRefused(t) PROVE FidInv'
<1> USE DEF AllInv
<1> PICK f : f = fid["file"]
  OBVIOUS
<1>1. /\ UNCHANGED <<fid, slot, nfid, lost, stray>> /\ srv' = [srv EXCEPT ![f] = Free] /\ Goto(t, "unlock")
      /\ loc[t].st = "body" /\ name' # "there"
  BY DEF Remove, RemoveRefused, Removed, Doing, server, history
<1>2. Others(t) /\ SameLocals(t) /\ loc'[t].st = "unlock"
  BY <1>1, GotoFields
<1>3. \A u \in Threads : /\ u # t => loc'[u] = loc[u]
                         /\ loc'[u].fid = loc[u].fid /\ loc'[u].open = loc[u].open
  BY <1>2 DEF Others, SameLocals
<1>4. /\ srv' \in [Fids -> SrvRec] /\ \A g \in Fids : g # f => srv'[g] = srv[g]
      /\ \A g \in Fids : srv'[g] # Free => srv[g] # Free
      /\ \A g \in Fids : srv[g] = Free => srv'[g] = Free
  <2>1. Free \in SrvRec /\ srv \in [Fids -> SrvRec]
    BY DEF Free, Is, SrvRec, FidInv, FidTypes
  <2> QED
    BY <1>1, <2>1
<1>5. Shrinks
  BY <1>1, <1>3, <1>4 DEF Shrinks
<1>6. FidTypes' /\ BelowInv'
  BY <1>1, <1>4, <1>5, ShrinksBelow DEF FidInv, FidTypes
<1>7. OwnedInv'
  <2>1. \A g \in Fids : Owned(g) => Owned(g)'
    BY <1>1, <1>3 DEF Owned
  <2> QED
    BY <1>1, <1>4, <2>1 DEF FidInv, OwnedInv
<1>8. ASSUME NEW u \in Threads PROVE ResetInv(u)'
  <2>1. CASE u = t
    BY <1>2, <2>1 DEF ResetInv
  <2>2. CASE u # t
    BY <1>1, <1>2, <1>4, <2>2, OthersReset
  <2> QED
    BY <2>1, <2>2
<1>9. ASSUME ~stray PROVE BoundInv'
  <2>0. BoundInv /\ OneOwner
    BY <1>9 DEF FidInv, BoundInv
  <2>1. OneOwner'
    BY <1>5, <2>0, ShrinksOwners
  <2>2. "file" \in Node /\ "dir" \in Node /\ fid["dir"] # f /\ fid["dir"] # NOFID
    BY <2>0 DEF OneOwner, Node, FidInv, BelowInv, NOFID
  <2>3. NodeBound'
    <3>1. srv'[fid["dir"]] = srv[fid["dir"]]
      BY <1>4, <2>2, FidTypesFacts
    <3> QED
      BY <1>1, <2>0, <3>1 DEF BoundInv, NodeBound
  <2>4. ASSUME NEW n \in Node, NEW m \in Mode PROVE SlotBound(n, m)'
    <3>1. slot[n][m].fid # NOFID => srv'[slot[n][m].fid] = srv[slot[n][m].fid]
      BY <1>4, <2>0, <2>2, FidTypesFacts DEF OneOwner
    <3>2. Resetting(n, m) => Resetting(n, m)'
      BY <1>1, <1>3 DEF Resetting
    <3> QED
      BY <1>1, <2>0, <3>1, <3>2 DEF BoundInv, SlotBound
  <2>5. ASSUME NEW u \in Threads PROVE ThreadBound(u)'
    <3>1. CASE u = t
      BY <1>2, <3>1 DEF ThreadBound
    <3>2. CASE u # t
      <4>1. \A g \in Locals(u) : srv'[g] = srv[g]
        BY <1>4, <2>0, <2>2, FidTypesFacts DEF OneOwner
      <4>2. /\ loc[u].o.op = "open" /\ loc[u].st = "open" => loc[u].fid \in Locals(u)
            /\ loc[u].o.op = "create" /\ loc[u].st \in {"walk", "nget"} => loc[u].open \in Locals(u)
            /\ loc[u].o.op = "create" /\ loc[u].st = "nget" => loc[u].fid \in Locals(u)
        BY DEF PlaceInv, LocalInv, Locals
      <4>3. loc'[u] = loc[u] /\ ThreadBound(u)
        BY <1>3, <2>0, <3>2 DEF BoundInv
      <4> QED
        BY <4>1, <4>2, <4>3 DEF ThreadBound
    <3> QED
      BY <3>1, <3>2
  <2> QED
    BY <2>1, <2>3, <2>4, <2>5 DEF BoundInv
<1> QED
  BY <1>1, <1>6, <1>7, <1>8, <1>9 DEF FidInv

-----------------------------------------------------------------------------
(* The steps that change whose a fid is                                    *)

LEMMA OtherBound ==
  ASSUME AllInv, NEW u \in Threads, loc'[u] = loc[u], ThreadBound(u), \A g \in Locals(u) : srv'[g] = srv[g]
  PROVE  ThreadBound(u)'
<1>1. /\ loc[u].o.op = "open" /\ loc[u].st = "open" => loc[u].fid \in Locals(u)
      /\ loc[u].o.op = "create" /\ loc[u].st \in {"walk", "nget"} => loc[u].open \in Locals(u)
      /\ loc[u].o.op = "create" /\ loc[u].st = "nget" => loc[u].fid \in Locals(u)
  BY DEF AllInv, PlaceInv, LocalInv, Locals
<1> QED
  BY <1>1 DEF ThreadBound

LEMMA CloseClunkKeeps == ASSUME NEW t \in Threads, AllInv, CloseClunk(t) PROVE FidInv'
<1> USE DEF AllInv
<1> PICK n, m, f : n = loc[t].o.n /\ m = loc[t].o.m /\ f = slot[n][m].fid
  OBVIOUS
<1>1. /\ loc[t].o \in AnyOp /\ loc[t].o.op = "close" /\ loc[t].st = "clunk"
      /\ UNCHANGED <<fid, slot, nfid, name, stray>> /\ DoClunk(f)
      /\ Others(t) /\ SameLocals(t) /\ loc'[t].st = "reset"
  BY GotoFields DEF IInv, LockType, LocType, CloseClunk, Closing, ClosedSlot, history
<1>2. n \in Node /\ m \in Mode
  BY <1>1, OpFacts
<1>3. f \in Fids /\ f # NOFID
  <2>1. t \in Ending(n, m)
    BY <1>1 DEF Ending, Closers, After
  <2>2. f # NOFID
    BY <1>2, <2>1 DEF SlotInv, ShutInv
  <2> QED
    BY <1>2, <2>2, FidTypesFacts
<1>4. /\ srv' \in [Fids -> SrvRec] /\ lost \subseteq lost' /\ lost' \subseteq Fids
      /\ \A g \in Fids : g # f => srv'[g] = srv[g]
      /\ \A g \in Fids : srv'[g] # Free => srv[g] # Free
      /\ srv'[f] = Free \/ f \in lost'
      /\ \A g \in Fids : srv[g] = Free \/ g \in lost => srv'[g] = Free \/ g \in lost'
  BY <1>1, <1>3, ClunkFacts
<1>5. \A u \in Threads : /\ u # t => loc'[u] = loc[u]
                         /\ loc'[u].o = loc[u].o /\ loc'[u].fid = loc[u].fid /\ loc'[u].open = loc[u].open
  BY <1>1 DEF Others, SameLocals
<1>6. Shrinks
  BY <1>1, <1>4, <1>5 DEF Shrinks
<1>7. FidTypes' /\ BelowInv'
  BY <1>1, <1>4, <1>6, ShrinksBelow DEF FidInv, FidTypes
<1>8. OwnedInv'
  <2>1. \A g \in Fids : Owned(g) => Owned(g)'
    BY <1>1, <1>5 DEF Owned
  <2> QED
    BY <1>4, <2>1 DEF FidInv, OwnedInv
<1>9. ASSUME NEW u \in Threads PROVE ResetInv(u)'
  <2>1. CASE u = t
    BY <1>1, <1>4, <1>5, <2>1 DEF ResetInv
  <2>2. CASE u # t
    BY <1>1, <1>4, <2>2, OthersReset
  <2> QED
    BY <2>1, <2>2
<1>10. ASSUME ~stray PROVE BoundInv'
  <2>0. BoundInv /\ OneOwner
    BY <1>10 DEF FidInv, BoundInv
  <2>1. OneOwner'
    BY <1>6, <2>0, ShrinksOwners
  <2>2. NodeBound'
    <3>1. "file" \in Node /\ "dir" \in Node /\ fid["dir"] # NOFID
      BY DEF Node, FidInv, BelowInv, NOFID
    <3>2. \A k \in Node : fid[k] # NOFID => srv'[fid[k]] = srv[fid[k]]
      <4>1. \A k \in Node : fid[k] # f
        BY <1>2, <1>3, <2>0 DEF OneOwner
      <4> QED
        BY <1>4, <4>1, FidTypesFacts
    <3> QED
      BY <1>1, <2>0, <3>1, <3>2 DEF BoundInv, NodeBound
  <2>3. ASSUME NEW k \in Node, NEW l \in Mode PROVE SlotBound(k, l)'
    <3>1. CASE k = n /\ l = m
      BY <1>1, <1>5, <3>1 DEF SlotBound, Resetting
    <3>2. CASE k # n \/ l # m
      <4>1. slot[k][l].fid # NOFID => slot[k][l].fid # f
        BY <1>2, <2>0, <3>2 DEF OneOwner
      <4>2. slot[k][l].fid # NOFID => srv'[slot[k][l].fid] = srv[slot[k][l].fid]
        BY <1>4, <4>1, FidTypesFacts
      <4>3. Resetting(k, l) => Resetting(k, l)'
        BY <1>1, <1>5 DEF Resetting
      <4> QED
        BY <1>1, <2>0, <4>2, <4>3 DEF BoundInv, SlotBound
    <3> QED
      BY <3>1, <3>2
  <2>4. ASSUME NEW u \in Threads PROVE ThreadBound(u)'
    <3>1. CASE u = t
      BY <1>1, <3>1 DEF ThreadBound
    <3>2. CASE u # t
      <4>1. \A g \in Locals(u) : srv'[g] = srv[g]
        <5>1. f \notin Locals(u)
          BY <1>2, <2>0 DEF OneOwner
        <5> QED
          BY <1>4, <5>1, FidTypesFacts
      <4> QED
        BY <1>5, <2>0, <3>2, <4>1, OtherBound DEF BoundInv
    <3> QED
      BY <3>1, <3>2
  <2> QED
    BY <2>1, <2>2, <2>3, <2>4 DEF BoundInv
<1> QED
  BY <1>1, <1>7, <1>8, <1>9, <1>10 DEF FidInv

LEMMA CloseResetKeeps == ASSUME NEW t \in Threads, AllInv, CloseReset(t) PROVE FidInv'
<1> USE DEF AllInv
<1> PICK n, m, f : n = loc[t].o.n /\ m = loc[t].o.m /\ f = slot[n][m].fid
  OBVIOUS
<1>1. /\ loc[t].o \in AnyOp /\ loc[t].o.op = "close" /\ loc[t].st = "reset" /\ loc[t].st \in Busy
      /\ UNCHANGED <<fid, srv, nfid, lost, name, stray>>
      /\ Others(t) /\ SameLocals(t) /\ loc'[t].st = "unlock"
  BY BusyStates, GotoFields DEF IInv, LockType, LocType, CloseReset, Closing, history, server
<1>2. n \in Node /\ m \in Mode /\ SlotTypes
  BY <1>1, OpFacts DEF SlotInv
<1>3. /\ slot'[n][m].fid = NOFID
      /\ \A k \in Node, l \in Mode : k # n \/ l # m => slot'[k][l] = slot[k][l]
  <2>1. slot \in [Node -> [Mode -> [fid : Nat, ref : Nat]]] /\ slot[n][m] \in [fid : Nat, ref : Nat]
    BY <1>2 DEF SlotTypes
  <2>2. slot' = [slot EXCEPT ![n][m].fid = NOFID]
    BY DEF CloseReset
  <2>3. slot'[n][m] = [slot[n][m] EXCEPT !.fid = NOFID]
    BY <1>2, <2>1, <2>2
  <2>4. \A k \in Node, l \in Mode : k # n \/ l # m => slot'[k][l] = slot[k][l]
    BY <1>2, <2>1, <2>2
  <2> QED
    BY <2>1, <2>3, <2>4
<1>4. \A u \in Threads : /\ u # t => loc'[u] = loc[u]
                         /\ loc'[u].o = loc[u].o /\ loc'[u].fid = loc[u].fid /\ loc'[u].open = loc[u].open
  BY <1>1 DEF Others, SameLocals
<1>5. Shrinks
  BY <1>1, <1>3, <1>4 DEF Shrinks
<1>6. FidTypes' /\ BelowInv'
  BY <1>1, <1>5, ShrinksBelow DEF FidInv, FidTypes
<1>7. OwnedInv'
  <2>1. srv[f] = Free \/ f \in lost
    BY <1>1 DEF FidInv, ResetInv
  <2>2. \A g \in Fids : Owned(g) /\ g # f => Owned(g)'
    BY <1>1, <1>3, <1>4 DEF Owned
  <2> QED
    BY <1>1, <2>1, <2>2 DEF FidInv, OwnedInv
<1>8. ASSUME NEW u \in Threads PROVE ResetInv(u)'
  <2>1. CASE u = t \/ loc[u].o.op # "close" \/ loc[u].st # "reset"
    BY <1>1, <1>4, <2>1 DEF ResetInv
  <2>2. CASE u # t /\ loc[u].o.op = "close" /\ loc[u].st = "reset"
    <3>1. loc[u].o.n # n
      <4>1. ex[n] = t
        BY <1>1 DEF PlaceInv, LockedInv, Guarded
      <4> QED
        BY <1>2, <2>2, <4>1, BusyStates, HolderAlone
    <3> QED
      BY <1>1, <1>3, <2>2, <3>1, OthersReset
  <2> QED
    BY <2>1, <2>2
<1>9. ASSUME ~stray PROVE BoundInv'
  <2>0. BoundInv /\ OneOwner
    BY <1>9 DEF FidInv, BoundInv
  <2>1. OneOwner'
    BY <1>5, <2>0, ShrinksOwners
  <2>2. NodeBound'
    BY <1>1, <2>0 DEF BoundInv, NodeBound
  <2>3. ASSUME NEW k \in Node, NEW l \in Mode PROVE SlotBound(k, l)'
    <3>1. CASE k = n /\ l = m
      BY <1>3, <3>1 DEF SlotBound
    <3>2. CASE k # n \/ l # m
      <4>1. Resetting(k, l) => Resetting(k, l)'
        BY <1>4, <3>2 DEF Resetting
      <4> QED
        BY <1>1, <1>3, <2>0, <3>2, <4>1 DEF BoundInv, SlotBound
    <3> QED
      BY <3>1, <3>2
  <2>4. ASSUME NEW u \in Threads PROVE ThreadBound(u)'
    <3>1. CASE u = t
      BY <1>1, <3>1 DEF ThreadBound
    <3>2. CASE u # t
      BY <1>1, <1>4, <2>0, <3>2 DEF BoundInv, ThreadBound
    <3> QED
      BY <3>1, <3>2
  <2> QED
    BY <2>1, <2>2, <2>3, <2>4 DEF BoundInv
<1> QED
  BY <1>1, <1>6, <1>7, <1>8, <1>9 DEF FidInv

(* The server opens a fid the thread has, and the thread passes it on.     *)
LEMMA OpenOpenKeeps == ASSUME NEW t \in Threads, AllInv, OpenOpen(t) PROVE FidInv'
<1> USE DEF AllInv
<1> PICK n, m, f, r : n = loc[t].o.n /\ m = loc[t].o.m /\ f = loc[t].fid /\ r = slot[n][m].ref + 1
  OBVIOUS
<1>1. /\ loc[t].o \in AnyOp /\ loc[t].o.op = "open" /\ loc[t].st = "open"
      /\ UNCHANGED <<fid, nfid, lost, name, stray>> /\ srv[f] # Free
      /\ SetsFid(t, "unlock", NOFID) /\ Others(t)
  BY OpensMove DEF IInv, LockType, LocType, Opens, OpenOpen, Opening, history, SetsFid
<1>2. n \in Node /\ m \in Mode /\ SlotTypes
  BY <1>1, OpFacts DEF SlotInv
<1>3. f \in Fids /\ f # NOFID /\ f \in Locals(t) /\ loc[t].open = NOFID /\ f \in Nat /\ f < nfid
  <2>1. f # NOFID /\ loc[t].open = NOFID
    BY <1>1 DEF PlaceInv, LocalInv
  <2>2. f \in Locals(t)
    BY <2>1 DEF Locals
  <2> QED
    BY <2>1, <2>2, FidTypesFacts DEF FidInv, BelowInv
<1>4. slot[n][m].fid = NOFID
  BY <1>1 DEF SlotInv, BodyInv
<1>5. /\ slot'[n][m].fid = f
      /\ \A k \in Node, l \in Mode : k # n \/ l # m => slot'[k][l] = slot[k][l]
  <2>1. slot' = [slot EXCEPT ![n][m] = [fid |-> f, ref |-> r]]
    BY <1>2 DEF OpenOpen, OpenRef, SlotTypes
  <2>2. r \in Nat
    BY <1>2, CountFacts
  <2>3. SetsSlot(n, m, f, r)
    BY <1>2, <1>3, <2>1, <2>2, SlotSet
  <2> QED
    BY <2>3 DEF SetsSlot
<1>6. /\ srv' \in [Fids -> SrvRec] /\ srv'[f] = [srv[f] EXCEPT !.m = m]
      /\ \A g \in Fids : g # f => srv'[g] = srv[g]
  <2>1. srv' = [srv EXCEPT ![f].m = m]
    BY DEF OpenOpen
  <2>2. srv \in [Fids -> SrvRec] /\ srv[f] \in SrvRec
    BY <1>3 DEF FidInv, FidTypes
  <2>3. [srv[f] EXCEPT !.m = m] \in SrvRec
    BY <1>2, <2>2 DEF SrvRec
  <2> QED
    BY <1>3, <2>1, <2>2, <2>3
<1>7. \A u \in Threads : u # t => loc'[u] = loc[u]
  BY <1>1 DEF Others
<1>8. /\ loc'[t].fid = NOFID /\ loc'[t].open = NOFID /\ loc'[t].st = "unlock" /\ Locals(t)' = {}
      /\ \A u \in Threads : u # t => Locals(u)' = Locals(u)
  BY <1>1, <1>3, <1>7 DEF SetsFid, Locals
<1>9. FidTypes'
  BY <1>1, <1>6 DEF FidInv, FidTypes
<1>10. BelowInv'
  <2>1. nfid > NOFID
    BY FidTypesFacts DEF NOFID
  <2>2. \A u \in Threads : loc'[u].fid < nfid /\ loc'[u].open < nfid
    BY <1>7, <1>8, <2>1 DEF FidInv, BelowInv
  <2>3. \A k \in Node, l \in Mode : slot'[k][l].fid < nfid
    BY <1>3, <1>5 DEF FidInv, BelowInv
  <2>4. \A g \in Fids : srv'[g] # Free => g < nfid
    BY <1>3, <1>6 DEF FidInv, BelowInv
  <2> QED
    BY <1>1, <2>2, <2>3, <2>4 DEF FidInv, BelowInv
<1>11. OwnedInv'
  <2> SUFFICES ASSUME NEW g \in Fids, srv'[g] # Free, g \notin lost' PROVE Owned(g)'
    BY DEF OwnedInv
  <2>0. g # NOFID
    BY DEF Fids, NOFID
  <2>1. CASE g = f
    BY <1>2, <1>5, <2>1 DEF Owned
  <2>2. CASE g # f
    <3>1. Owned(g)
      BY <1>1, <1>6, <2>2 DEF FidInv, OwnedInv
    <3>2. \A u \in Threads : g \in {loc[u].fid, loc[u].open} => g \in {loc'[u].fid, loc'[u].open}
      BY <1>3, <1>7, <2>0, <2>2
    <3>3. \A k \in Node, l \in Mode : slot[k][l].fid = g => slot'[k][l].fid = g
      BY <1>4, <1>5, <2>0
    <3> QED
      BY <1>1, <3>1, <3>2, <3>3 DEF Owned
  <2> QED
    BY <2>1, <2>2
<1>12. ASSUME NEW u \in Threads PROVE ResetInv(u)'
  <2>1. CASE u = t
    BY <1>8, <2>1 DEF ResetInv
  <2>2. CASE u # t
    <3>1. \A g \in Fids : srv[g] = Free \/ g \in lost => srv'[g] = Free \/ g \in lost'
      BY <1>1, <1>6
    <3>2. \A k \in Node, l \in Mode : slot[k][l].fid # NOFID => slot'[k][l].fid = slot[k][l].fid
      BY <1>4, <1>5
    <3> QED
      BY <1>1, <2>2, <3>1, <3>2, OthersReset
  <2> QED
    BY <2>1, <2>2
<1>13. ASSUME ~stray PROVE BoundInv'
  <2>0. BoundInv /\ OneOwner
    BY <1>13 DEF FidInv, BoundInv
  <2>1. /\ \A k \in Node : fid[k] # f
        /\ \A k \in Node, l \in Mode : slot[k][l].fid # f
        /\ \A u \in Threads : u # t => f \notin Locals(u)
    BY <1>3, <2>0 DEF OneOwner
  <2>2. OneOwner'
    <3>1. \A k, j \in Node, l, i \in Mode :
             slot'[k][l].fid # NOFID /\ slot'[k][l].fid = slot'[j][i].fid => k = j /\ l = i
      BY SMTT(20), <1>5, <2>0, <2>1 DEF OneOwner
    <3>2. \A k, j \in Node, l \in Mode : slot'[k][l].fid # NOFID => slot'[k][l].fid # fid[j]
      BY <1>5, <2>0, <2>1 DEF OneOwner
    <3>3. \A u \in Threads, k \in Node : fid[k] \notin Locals(u)'
      BY <1>8, <2>0 DEF OneOwner
    <3>4. \A u \in Threads, k \in Node, l \in Mode : slot'[k][l].fid \notin Locals(u)'
      BY <1>5, <1>8, <2>0, <2>1 DEF OneOwner
    <3>5. \A u, v \in Threads : u # v => Locals(u)' \cap Locals(v)' = {}
      BY <1>8, <2>0 DEF OneOwner
    <3>6. \A u \in Threads : loc'[u].fid # NOFID => loc'[u].fid # loc'[u].open
      BY <1>7, <1>8, <2>0 DEF OneOwner
    <3>7. fid["file"] # fid["dir"]
      BY <2>0 DEF OneOwner
    <3> QED
      BY <1>1, <3>1, <3>2, <3>3, <3>4, <3>5, <3>6, <3>7 DEF OneOwner
  <2>3. NodeBound'
    <3>1. "file" \in Node /\ "dir" \in Node /\ fid["dir"] # NOFID
      BY DEF Node, FidInv, BelowInv, NOFID
    <3>2. \A k \in Node : fid[k] # NOFID => srv'[fid[k]] = srv[fid[k]]
      BY <1>6, <2>1, FidTypesFacts
    <3> QED
      BY <1>1, <2>0, <3>1, <3>2 DEF BoundInv, NodeBound
  <2>4. ASSUME NEW k \in Node, NEW l \in Mode PROVE SlotBound(k, l)'
    <3>1. CASE k = n /\ l = m
      <4>1. srv[f] = Is(n, "no")
        BY <1>1, <2>0 DEF BoundInv, ThreadBound
      <4>2. srv'[f] = Is(n, m)
        BY <1>6, <4>1 DEF Is
      <4> QED
        BY <1>5, <3>1, <4>2 DEF SlotBound
    <3>2. CASE k # n \/ l # m
      <4>1. slot[k][l].fid # NOFID => srv'[slot[k][l].fid] = srv[slot[k][l].fid]
        BY <1>6, <2>1, FidTypesFacts
      <4>2. Resetting(k, l) => Resetting(k, l)'
        BY <1>1, <1>7 DEF Resetting
      <4> QED
        BY <1>5, <2>0, <3>2, <4>1, <4>2 DEF BoundInv, SlotBound
    <3> QED
      BY <3>1, <3>2
  <2>5. ASSUME NEW u \in Threads PROVE ThreadBound(u)'
    <3>1. CASE u = t
      BY <1>8, <3>1 DEF ThreadBound
    <3>2. CASE u # t
      <4>1. \A g \in Locals(u) : srv'[g] = srv[g]
        BY <1>6, <2>1, <3>2, FidTypesFacts
      <4> QED
        BY <1>7, <2>0, <3>2, <4>1, OtherBound DEF BoundInv
    <3> QED
      BY <3>1, <3>2
  <2> QED
    BY <2>2, <2>3, <2>4, <2>5 DEF BoundInv
<1> QED
  BY <1>1, <1>9, <1>10, <1>11, <1>12, <1>13 DEF FidInv

(* The clone of the directory's fid becomes the new file's, open.          *)
LEMMA CreateFileKeeps == ASSUME NEW t \in Threads, AllInv, CreateFile(t) PROVE FidInv'
<1> USE DEF AllInv
<1> PICK f : f = loc[t].open
  OBVIOUS
<1>1. /\ loc[t].o.op = "create" /\ loc[t].st = "create" /\ name = "absent" /\ srv[f] # Free
      /\ UNCHANGED <<fid, slot, nfid, lost, stray>> /\ srv' = [srv EXCEPT ![f] = Is("file", "ORDWR")]
      /\ Others(t) /\ SameLocals(t) /\ loc'[t].st = "walk"
  BY GotoFields DEF CreateFile, Creating, history
<1>2. f \in Fids /\ f # NOFID /\ f \in Locals(t)
  <2>1. f # NOFID
    BY <1>1 DEF PlaceInv, LocalInv
  <2> QED
    BY <2>1, FidTypesFacts DEF Locals
<1>3. /\ srv' \in [Fids -> SrvRec] /\ srv'[f] = Is("file", "ORDWR")
      /\ \A g \in Fids : g # f => srv'[g] = srv[g]
  <2>1. srv \in [Fids -> SrvRec] /\ Is("file", "ORDWR") \in SrvRec
    BY DEF FidInv, FidTypes, Is, SrvRec, Node, Mode
  <2> QED
    BY <1>1, <1>2, <2>1
<1>4. \A u \in Threads : /\ u # t => loc'[u] = loc[u]
                         /\ loc'[u].o = loc[u].o /\ loc'[u].fid = loc[u].fid /\ loc'[u].open = loc[u].open
  BY <1>1 DEF Others, SameLocals
<1>5. Shrinks
  BY <1>1, <1>2, <1>3, <1>4 DEF Shrinks
<1>6. FidTypes' /\ BelowInv'
  BY <1>1, <1>3, <1>5, ShrinksBelow DEF FidInv, FidTypes
<1>7. OwnedInv'
  <2>1. \A g \in Fids : Owned(g) => Owned(g)'
    BY <1>1, <1>4 DEF Owned
  <2>2. \A g \in Fids : srv'[g] # Free => srv[g] # Free
    BY <1>5 DEF Shrinks
  <2> QED
    BY <1>1, <2>1, <2>2 DEF FidInv, OwnedInv
<1>8. ASSUME NEW u \in Threads PROVE ResetInv(u)'
  <2>1. CASE u = t
    BY <1>1, <2>1 DEF ResetInv
  <2>2. CASE u # t
    BY <1>1, <1>3, <2>2, OthersReset
  <2> QED
    BY <2>1, <2>2
<1>9. ASSUME ~stray PROVE BoundInv'
  <2>0. BoundInv /\ OneOwner
    BY <1>9 DEF FidInv, BoundInv
  <2>1. /\ \A k \in Node : fid[k] # f
        /\ \A k \in Node, l \in Mode : slot[k][l].fid # f
        /\ \A u \in Threads : u # t => f \notin Locals(u)
    BY <1>2, <2>0 DEF OneOwner
  <2>2. OneOwner'
    BY <1>5, <2>0, ShrinksOwners
  <2>3. NodeBound'
    <3>1. fid["file"] = NOFID /\ "dir" \in Node /\ fid["dir"] # NOFID
      BY <1>1 DEF SlotInv, AbsentInv, Node, FidInv, BelowInv, NOFID
    <3>2. srv'[fid["dir"]] = srv[fid["dir"]]
      BY <1>3, <2>1, <3>1, FidTypesFacts
    <3> QED
      BY <1>1, <2>0, <3>1, <3>2 DEF BoundInv, NodeBound
  <2>4. ASSUME NEW k \in Node, NEW l \in Mode PROVE SlotBound(k, l)'
    <3>1. slot[k][l].fid # NOFID => srv'[slot[k][l].fid] = srv[slot[k][l].fid]
      BY <1>3, <2>1, FidTypesFacts
    <3>2. Resetting(k, l) => Resetting(k, l)'
      BY <1>1, <1>4 DEF Resetting
    <3> QED
      BY <1>1, <2>0, <3>1, <3>2 DEF BoundInv, SlotBound
  <2>5. ASSUME NEW u \in Threads PROVE ThreadBound(u)'
    <3>1. CASE u = t
      BY <1>1, <1>3, <1>4, <3>1 DEF ThreadBound
    <3>2. CASE u # t
      <4>1. \A g \in Locals(u) : srv'[g] = srv[g]
        BY <1>3, <2>1, <3>2, FidTypesFacts
      <4> QED
        BY <1>4, <2>0, <3>2, <4>1, OtherBound DEF BoundInv
    <3> QED
      BY <3>1, <3>2
  <2> QED
    BY <2>2, <2>3, <2>4, <2>5 DEF BoundInv
<1> QED
  BY <1>1, <1>6, <1>7, <1>8, <1>9 DEF FidInv

(* The node takes both the fids of the thread that created it.             *)
LEMMA CreateNodeKeeps == ASSUME NEW t \in Threads, AllInv, CreateNode(t) PROVE FidInv'
<1> USE DEF AllInv
<1> PICK f, g, r : f = loc[t].open /\ g = loc[t].fid /\ r = slot["file"]["ORDWR"].ref + 1
  OBVIOUS
<1>0. "file" \in Node /\ "dir" \in Node /\ "ORDWR" \in Mode /\ \A k \in Node : k = "dir" \/ k = "file"
  BY DEF Node, Mode
<1>1. /\ loc[t].o.op = "create" /\ loc[t].st = "nget"
      /\ UNCHANGED <<srv, nfid, lost, name, stray>> /\ fid' = [fid EXCEPT !["file"] = g]
      /\ Others(t) /\ loc'[t].st = "unlock" /\ loc'[t].fid = NOFID /\ loc'[t].open = NOFID
  BY NodeFields DEF CreateNode, Creating, server
<1>2. /\ f \in Fids /\ f # NOFID /\ f \in Locals(t) /\ f \in Nat /\ f < nfid
      /\ g \in Fids /\ g # NOFID /\ g \in Locals(t) /\ g \in Nat /\ g < nfid
  <2>1. f # NOFID /\ g # NOFID
    BY <1>1 DEF PlaceInv, LocalInv
  <2>2. f \in Locals(t) /\ g \in Locals(t)
    BY <2>1 DEF Locals
  <2> QED
    BY <2>1, <2>2, FidTypesFacts DEF FidInv, BelowInv
<1>3. fid["file"] = NOFID /\ slot["file"]["ORDWR"].fid = NOFID
  BY <1>0, <1>1 DEF SlotInv, BodyInv, AbsentInv
<1>4. fid'["file"] = g /\ fid'["dir"] = fid["dir"]
  BY <1>0, <1>1 DEF SlotInv, SlotTypes
<1>5. /\ slot'["file"]["ORDWR"].fid = f
      /\ \A k \in Node, l \in Mode : k # "file" \/ l # "ORDWR" => slot'[k][l] = slot[k][l]
  <2>1. slot' = [slot EXCEPT !["file"]["ORDWR"] = [fid |-> f, ref |-> r]]
    BY <1>0 DEF CreateNode, SlotInv, SlotTypes
  <2>2. r \in Nat /\ SlotTypes
    BY <1>0, CountFacts DEF SlotInv
  <2>3. SetsSlot("file", "ORDWR", f, r)
    BY <1>0, <1>2, <2>1, <2>2, SlotSet
  <2> QED
    BY <2>3 DEF SetsSlot
<1>6. \A u \in Threads : u # t => loc'[u] = loc[u]
  BY <1>1 DEF Others
<1>7. /\ Locals(t) = {f, g} /\ Locals(t)' = {}
      /\ \A u \in Threads : u # t => Locals(u)' = Locals(u)
  BY <1>1, <1>2, <1>6 DEF Locals
<1>8. FidTypes'
  BY <1>1 DEF FidInv, FidTypes
<1>9. BelowInv'
  <2>1. nfid > NOFID
    BY FidTypesFacts DEF NOFID
  <2>2. \A u \in Threads : loc'[u].fid < nfid /\ loc'[u].open < nfid
    BY <1>1, <1>6, <2>1 DEF FidInv, BelowInv
  <2>3. \A k \in Node, l \in Mode : slot'[k][l].fid < nfid
    BY <1>2, <1>5 DEF FidInv, BelowInv
  <2> QED
    BY <1>1, <1>2, <1>4, <2>2, <2>3 DEF FidInv, BelowInv
<1>10. OwnedInv'
  <2> SUFFICES ASSUME NEW h \in Fids, srv[h] # Free, h \notin lost PROVE Owned(h)'
    BY <1>1 DEF OwnedInv
  <2>0. h # NOFID /\ Owned(h)
    BY DEF Fids, NOFID, FidInv, OwnedInv
  <2>1. CASE h = f
    BY <1>0, <1>5, <2>1 DEF Owned
  <2>2. CASE h = g
    BY <1>0, <1>4, <2>2 DEF Owned
  <2>3. CASE h # f /\ h # g
    <3>1. \A u \in Threads : h \in {loc[u].fid, loc[u].open} => h \in {loc'[u].fid, loc'[u].open}
      BY <1>6, <2>3
    <3>2. \A k \in Node, l \in Mode : slot[k][l].fid = h => slot'[k][l].fid = h
      BY <1>3, <1>5, <2>0
    <3>3. \A k \in Node : fid[k] = h => fid'[k] = h
      BY <1>0, <1>3, <1>4, <2>0
    <3> QED
      BY <2>0, <3>1, <3>2, <3>3 DEF Owned
  <2> QED
    BY <2>1, <2>2, <2>3
<1>11. ASSUME NEW u \in Threads PROVE ResetInv(u)'
  <2>1. CASE u = t
    BY <1>1, <2>1 DEF ResetInv
  <2>2. CASE u # t
    <3>1. \A k \in Node, l \in Mode : slot[k][l].fid # NOFID => slot'[k][l].fid = slot[k][l].fid
      BY <1>3, <1>5
    <3> QED
      BY <1>1, <2>2, <3>1, OthersReset
  <2> QED
    BY <2>1, <2>2
<1>12. ASSUME ~stray PROVE BoundInv'
  <2>0. BoundInv /\ OneOwner
    BY <1>12 DEF FidInv, BoundInv
  <2>1. /\ f # g
        /\ \A h \in {f, g} : /\ \A k \in Node : fid[k] # h
                             /\ \A k \in Node, l \in Mode : slot[k][l].fid # h
                             /\ \A u \in Threads : u # t => h \notin Locals(u)
    BY <1>2, <2>0 DEF OneOwner
  <2>2. OneOwner'
    <3>1. \A k, j \in Node, l, i \in Mode :
             slot'[k][l].fid # NOFID /\ slot'[k][l].fid = slot'[j][i].fid => k = j /\ l = i
      BY <1>5, <2>0, <2>1 DEF OneOwner
    <3>2. \A k, j \in Node, l \in Mode : slot'[k][l].fid # NOFID => slot'[k][l].fid # fid'[j]
      <4>1. \A k \in Node, l \in Mode : slot'[k][l].fid # g
        BY <1>5, <2>1
      <4>2. \A k \in Node, l \in Mode : slot'[k][l].fid # NOFID => slot'[k][l].fid # fid["dir"]
        BY <1>0, <1>5, <2>0, <2>1 DEF OneOwner
      <4> QED
        BY <1>0, <1>4, <4>1, <4>2
    <3>3. \A u \in Threads, k \in Node : fid'[k] \notin Locals(u)'
      BY <1>0, <1>4, <1>7, <2>0, <2>1 DEF OneOwner
    <3>4. \A u \in Threads, k \in Node, l \in Mode : slot'[k][l].fid \notin Locals(u)'
      BY <1>5, <1>7, <2>0, <2>1 DEF OneOwner
    <3>5. \A u, v \in Threads : u # v => Locals(u)' \cap Locals(v)' = {}
      BY <1>7, <2>0 DEF OneOwner
    <3>6. \A u \in Threads : loc'[u].fid # NOFID => loc'[u].fid # loc'[u].open
      BY <1>1, <1>6, <2>0 DEF OneOwner
    <3>7. fid'["file"] # fid'["dir"]
      BY <1>0, <1>4, <2>1
    <3> QED
      BY <3>1, <3>2, <3>3, <3>4, <3>5, <3>6, <3>7 DEF OneOwner
  <2>3. srv[f] = Is("file", "ORDWR") /\ srv[g] = Is("file", "no")
    BY <1>1, <2>0 DEF BoundInv, ThreadBound
  <2>4. NodeBound'
    BY <1>1, <1>4, <2>0, <2>3 DEF BoundInv, NodeBound
  <2>5. ASSUME NEW k \in Node, NEW l \in Mode PROVE SlotBound(k, l)'
    <3>1. CASE k = "file" /\ l = "ORDWR"
      BY <1>1, <1>5, <2>3, <3>1 DEF SlotBound
    <3>2. CASE k # "file" \/ l # "ORDWR"
      <4>1. Resetting(k, l) => Resetting(k, l)'
        BY <1>1, <1>6 DEF Resetting
      <4> QED
        BY <1>1, <1>5, <2>0, <3>2, <4>1 DEF BoundInv, SlotBound
    <3> QED
      BY <3>1, <3>2
  <2>6. ASSUME NEW u \in Threads PROVE ThreadBound(u)'
    <3>1. CASE u = t
      BY <1>1, <3>1 DEF ThreadBound
    <3>2. CASE u # t
      BY <1>1, <1>6, <2>0, <3>2 DEF BoundInv, ThreadBound
    <3> QED
      BY <3>1, <3>2
  <2> QED
    BY <2>2, <2>4, <2>5, <2>6 DEF BoundInv
<1> QED
  BY <1>1, <1>8, <1>9, <1>10, <1>11, <1>12 DEF FidInv

-----------------------------------------------------------------------------
LEMMA FidStep == ASSUME AllInv, [Next]_vars PROVE FidInv'
<1>1. CASE UNCHANGED vars
  <2>1. UNCHANGED <<fid, slot, srv, nfid, name, loc, lost, stray>> /\ FidInv
    BY <1>1 DEF vars, server, history, AllInv
  <2>2. FidTypes' /\ BelowInv'
    BY <2>1 DEF FidInv, FidTypes, BelowInv
  <2>3. OwnedInv' /\ \A t \in Threads : ResetInv(t)'
    BY <2>1 DEF FidInv, OwnedInv, Owned, ResetInv
  <2>4. ASSUME ~stray PROVE BoundInv'
    <3>1. OneOwner' /\ NodeBound'
      BY <2>1, <2>4 DEF FidInv, BoundInv, OneOwner, Locals, NodeBound
    <3>2. \A n \in Node, m \in Mode : SlotBound(n, m)'
      BY <2>1, <2>4 DEF FidInv, BoundInv, SlotBound, Resetting
    <3>3. \A t \in Threads : ThreadBound(t)'
      BY <2>1, <2>4 DEF FidInv, BoundInv, ThreadBound
    <3> QED
      BY <3>1, <3>2, <3>3 DEF BoundInv
  <2> QED
    BY <2>1, <2>2, <2>3, <2>4 DEF FidInv
<1>2. ASSUME NEW t \in Threads, Begin(t) PROVE FidInv'
  BY <1>2, BeginCalm, CalmKeeps
<1>3. ASSUME NEW t \in Threads, Step(t) PROVE FidInv'
  <2>1. CASE Lockings(t)
    BY <2>1, LockingsCalm, CalmKeeps
  <2>2. CASE Opens(t)
    BY <2>2, OpensCalm, CalmKeeps, WalksKeep, OpenWalkFailsKeeps, OpenOpenKeeps, ClunksKeep DEF Opens
  <2>3. CASE Closes(t)
    BY <2>3, CloseDecrementCalm, CalmKeeps, CloseClunkKeeps, CloseResetKeeps DEF Closes
  <2>4. CASE Transferring(t) \/ Attributes(t)
    BY <2>4, TransferringCalm, AttributesCalm, CalmKeeps
  <2>5. CASE Remove(t) \/ RemoveRefused(t)
    BY <2>5, RemovesKeep
  <2>6. CASE Creates(t)
    BY <2>6, CreatesCalm, CalmKeeps, WalksKeep, CreateFileKeeps, CreateNodeKeeps, ClunksKeep DEF Creates
  <2> QED
    BY <1>3, <2>1, <2>2, <2>3, <2>4, <2>5, <2>6 DEF Step
<1> QED
  BY <1>1, <1>2, <1>3 DEF Next

LEMMA FidInit == Init => FidInv
<1> SUFFICES ASSUME Init PROVE FidInv
  OBVIOUS
<1> DEFINE first == [m \in Mode |-> CASE m = "OREAD" -> 3 [] m = "OWRITE" -> 4 [] OTHER -> 5]
<1>1. PICK present \in BOOLEAN, opened \in Opened :
         /\ present \/ opened = {}
         /\ fid = [dir |-> 1, file |-> IF present THEN 2 ELSE NOFID]
         /\ name = IF present THEN "there" ELSE "absent"
         /\ slot = [n \in Node |-> [m \in Mode |->
                      IF n = "file" /\ m \in opened THEN [fid |-> first[m], ref |-> 1] ELSE Closed]]
         /\ srv = [f \in Fids |->
                      IF f = 1 THEN Is("dir", "no") ELSE IF f = 2 /\ present THEN Is("file", "no")
                      ELSE IF \E m \in opened : first[m] = f THEN Is("file", CHOOSE m \in Mode : first[m] = f)
                      ELSE Free]
  BY DEF Init
<1>2. /\ \A m \in Mode : first[m] \in {3, 4, 5}
      /\ \A m, l \in Mode : first[m] = first[l] => m = l
  BY DEF Mode
<1> HIDE DEF first
<1>3. nfid = 6 /\ lost = {} /\ stray = FALSE
  BY DEF Init
<1>4. \A t \in Threads : /\ loc[t] = Idle /\ loc[t].o.op = "none" /\ loc[t].st = "idle"
                         /\ loc[t].fid = NOFID /\ loc[t].open = NOFID
  <2>1. \A t \in Threads : loc[t] = Idle
    BY DEF Init
  <2> QED
    BY <2>1, IdleFacts
<1>5. opened \subseteq Mode /\ \A f \in 1 .. 5 : f \in Fids
  BY DEF FilesAssumption, Fids
<1>6. /\ fid["dir"] = 1 /\ fid["file"] = (IF present THEN 2 ELSE NOFID)
      /\ "dir" \in Node /\ "file" \in Node /\ \A n \in Node : n = "dir" \/ n = "file"
  BY <1>1 DEF Node
<1>7. /\ \A m \in opened : slot["file"][m].fid = first[m]
      /\ \A n \in Node, m \in Mode : ~(n = "file" /\ m \in opened) => slot[n][m].fid = NOFID
  BY <1>1, <1>5, <1>6 DEF Closed
<1>8. /\ srv[1] = Is("dir", "no") /\ (present => srv[2] = Is("file", "no"))
      /\ \A m \in opened : srv[first[m]] = Is("file", m)
      /\ \A f \in Fids : srv[f] # Free =>
            f = 1 \/ (f = 2 /\ present) \/ \E m \in opened : f = first[m]
  <2>1. \A m \in Mode : (CHOOSE l \in Mode : first[l] = first[m]) = m
    BY <1>2
  <2>2. srv[1] = Is("dir", "no") /\ (present => srv[2] = Is("file", "no"))
    BY <1>1, <1>5
  <2>3. \A m \in opened : srv[first[m]] = Is("file", m)
    <3> SUFFICES ASSUME NEW m \in opened PROVE srv[first[m]] = Is("file", m)
      OBVIOUS
    <3> PICK f : f = first[m]
      OBVIOUS
    <3>1. f \in Fids /\ f # 1 /\ f # 2
      BY <1>2, <1>5
    <3>2. srv[f] = Is("file", CHOOSE l \in Mode : first[l] = f)
      BY <1>1, <3>1
    <3> QED
      BY <1>5, <2>1, <3>2
  <2>4. \A f \in Fids : srv[f] # Free => f = 1 \/ (f = 2 /\ present) \/ \E m \in opened : f = first[m]
    BY <1>1
  <2> QED
    BY <2>2, <2>3, <2>4
<1>9. FidTypes
  <2>1. Is("dir", "no") \in SrvRec /\ Is("file", "no") \in SrvRec /\ Free \in SrvRec
    BY DEF Is, Free, SrvRec, Node
  <2>2. \A m \in Mode : Is("file", m) \in SrvRec
    BY DEF Is, SrvRec, Node
  <2>3. \A f \in Fids : srv[f] \in SrvRec
    BY <1>5, <1>8, <2>1, <2>2
  <2>4. srv = [f \in Fids |-> srv[f]]
    BY <1>1
  <2> QED
    BY <1>3, <2>3, <2>4 DEF FidTypes
<1>10. BelowInv
  <2>1. fid["dir"] = 1 /\ fid["file"] < nfid
    BY <1>3, <1>6 DEF NOFID
  <2>2. \A n \in Node, m \in Mode : slot[n][m].fid < nfid
    BY <1>2, <1>3, <1>5, <1>7 DEF NOFID
  <2>3. \A t \in Threads : loc[t].fid < nfid /\ loc[t].open < nfid
    BY <1>3, <1>4 DEF NOFID
  <2>4. \A f \in Fids : srv[f] # Free => f < nfid
    BY <1>2, <1>3, <1>5, <1>8
  <2> QED
    BY <2>1, <2>2, <2>3, <2>4 DEF BelowInv
<1>11. OwnedInv
  <2> SUFFICES ASSUME NEW f \in Fids, srv[f] # Free PROVE Owned(f)
    BY DEF OwnedInv
  <2>1. CASE f = 1 \/ (f = 2 /\ present)
    BY <1>6, <2>1 DEF Owned
  <2>2. CASE \E m \in opened : f = first[m]
    BY <1>5, <1>6, <1>7, <2>2 DEF Owned
  <2> QED
    BY <1>8, <2>1, <2>2
<1>12. \A t \in Threads : ResetInv(t) /\ ThreadBound(t)
  BY <1>4 DEF ResetInv, ThreadBound
<1>13. OneOwner
  <2>0. \A t \in Threads : Locals(t) = {}
    BY <1>4 DEF Locals
  <2>1. \A n, k \in Node, m, l \in Mode :
           slot[n][m].fid # NOFID /\ slot[n][m].fid = slot[k][l].fid => n = k /\ m = l
    BY <1>2, <1>7
  <2>2. \A n, k \in Node, m \in Mode : slot[k][m].fid # NOFID => slot[k][m].fid # fid[n]
    <3>1. \A n \in Node : fid[n] \in {0, 1, 2}
      BY <1>6 DEF NOFID
    <3>2. \A k \in Node, m \in Mode : slot[k][m].fid # NOFID => slot[k][m].fid \in {3, 4, 5}
      BY <1>2, <1>7
    <3> QED
      BY <3>1, <3>2
  <2>3. fid["file"] # fid["dir"]
    BY <1>6 DEF NOFID
  <2> QED
    BY <1>4, <2>0, <2>1, <2>2, <2>3 DEF OneOwner
<1>14. NodeBound
  <2>1. present = TRUE \/ present = FALSE
    OBVIOUS
  <2> QED
    BY <1>6, <1>8, <2>1 DEF NodeBound
<1>15. \A n \in Node, m \in Mode : SlotBound(n, m)
  <2> SUFFICES ASSUME NEW n \in Node, NEW m \in Mode, slot[n][m].fid # NOFID PROVE srv[slot[n][m].fid] = Is(n, m)
    BY DEF SlotBound
  <2>1. n = "file" /\ m \in opened
    BY <1>7
  <2> QED
    BY <1>7, <1>8, <2>1
<1> QED
  BY <1>9, <1>10, <1>11, <1>12, <1>13, <1>14, <1>15 DEF FidInv, BoundInv

LEMMA AllInit == Init => AllInv
  BY InvInit, PlaceInit, SlotInit, NumInit, FidInit DEF AllInv

LEMMA AllStep == AllInv /\ [Next]_vars => AllInv'
<1> SUFFICES ASSUME AllInv, [Next]_vars PROVE AllInv'
  OBVIOUS
<1>1. IInv /\ PlaceInv /\ SlotInv /\ NumInv
  BY DEF AllInv
<1>2. IInv' /\ PlaceInv' /\ SlotInv'
  BY <1>1, InvStep, PlaceStep, SlotStep
<1>3. NumInv'
  BY <1>1, <1>2, NumNext
<1>4. FidInv'
  BY FidStep
<1> QED
  BY <1>2, <1>3, <1>4 DEF AllInv

LEMMA AllHolds == Spec => []AllInv
  BY AllInit, AllStep, PTL DEF Spec

-----------------------------------------------------------------------------
(* lcktype says "exclusive" only under an exclusive lock.                  *)

LckInv == \A n \in Node : lcktype[n] = "exclusive" => ex[n] # Null

LEMMA LckStep == ASSUME AllInv, LckInv, [Next]_vars PROVE LckInv'
<1> USE DEF AllInv
<1>0. Null \notin Threads /\ ex \in [Node -> Threads \cup {Null}]
      /\ lcktype \in [Node -> {"none", "shared", "exclusive"}]
  BY DEF FilesAssumption, IInv, LockType
<1>1. CASE UNCHANGED locks
  BY <1>1 DEF locks, LckInv
<1>2. ASSUME NEW t \in Threads, Step(t), ~UNCHANGED locks PROVE LckInv'
  <2>1. CASE NlockTake(t)
    <3>1. UNCHANGED lcktype /\ (ex' = ex \/ \E n : ex' = [ex EXCEPT ![n] = t])
      BY <2>1 DEF NlockTake
    <3> QED
      BY <1>0, <3>1 DEF LckInv
  <2>2. CASE NlockNote(t)
    <3> PICK l : l = Head(loc[t].want)
      OBVIOUS
    <3>1. /\ loc[t].st = "note" /\ loc[t].want \in Seq(LockRec) /\ loc[t].want # <<>>
          /\ lcktype' = [lcktype EXCEPT ![l.n] = l.type] /\ ex' = ex
      BY <2>2 DEF NlockNote, IInv, ThreadInv, Shape, LockType, LocType
    <3>2. l = loc[t].want[1] /\ l \in LockRec
      BY <3>1
    <3>3. Has(t, l)
      BY <3>1, <3>2 DEF IInv, ThreadInv, Noting
    <3>4. l.type = "exclusive" => ex[l.n] = t
      BY <3>3 DEF Has
    <3> QED
      BY <1>0, <3>1, <3>4 DEF LckInv
  <2>3. CASE Nunlock(t)
    <3> PICK n : n = Head(loc[t].held).n
      OBVIOUS
    <3>0. n \in Node
      <4>1. loc[t].held \in Seq(LockRec) /\ loc[t].held # <<>>
        BY <2>3 DEF Nunlock, IInv, LockType, LocType
      <4>2. Head(loc[t].held) \in LockRec
        BY <4>1
      <4> QED
        BY <4>2 DEF LockRec
    <3>1. ex' = ex /\ (lcktype' = lcktype \/ \E k : lcktype' = [lcktype EXCEPT ![k] = "none"])
      <4>1. lcktype[n] \in {"none", "shared", "exclusive"} /\ ex' = ex
        BY <1>0, <2>3, <3>0 DEF Nunlock
      <4>2. CASE lcktype[n] = "exclusive"
        BY <2>3, <4>2 DEF Nunlock
      <4>3. CASE lcktype[n] \in {"none", "shared"}
        BY <2>3, <4>3 DEF Nunlock
      <4> QED
        BY <4>1, <4>2, <4>3
    <3> QED
      BY <1>0, <3>1 DEF LckInv
  <2>4. CASE NunlockDrop(t)
    <3>1. /\ loc[t].st = "drop" /\ loc[t].held \in Seq(LockRec) /\ loc[t].held # <<>>
          /\ lcktype' = lcktype /\ ex' = [ex EXCEPT ![Head(loc[t].held).n] = Null]
      BY <2>4 DEF NunlockDrop, IInv, ThreadInv, Shape, LockType, LocType
    <3>2. Head(loc[t].held) = loc[t].held[1]
      BY <3>1
    <3>3. lcktype[loc[t].held[1].n] # "exclusive"
      BY <3>1 DEF PlaceInv, LockedInv
    <3> QED
      BY <1>0, <3>1, <3>2, <3>3 DEF LckInv
  <2>5. CASE CreateNode(t)
    <3>1. ex' = [ex EXCEPT !["file"] = t] /\ lcktype' = [lcktype EXCEPT !["file"] = "exclusive"]
      BY <2>5 DEF CreateNode
    <3> QED
      BY <1>0, <3>1 DEF LckInv
  <2>6. CASE Return(t)
    BY <1>2, <2>6 DEF Return
  <2>7. CASE Quiet(t)
    BY <1>2, <2>7 DEF Quiet
  <2> QED
    BY <1>2, <2>1, <2>2, <2>3, <2>4, <2>5, <2>6, <2>7, OpensQuiet, ClosesQuiet, TransferringQuiet, AttributesQuiet,
       RemovesQuiet, CreatesQuiet DEF Step, Lockings
<1>3. ASSUME NEW t \in Threads, Begin(t) PROVE UNCHANGED locks
  BY <1>3 DEF Begin
<1> QED
  BY <1>1, <1>2, <1>3 DEF Next, vars

LEMMA LckHolds == Spec => []LckInv
<1>1. Init => LckInv
  BY DEF Init, LckInv
<1>2. AllInv /\ LckInv /\ [Next]_vars => LckInv'
  BY LckStep
<1> QED
  BY <1>1, <1>2, AllHolds, PTL DEF Spec

-----------------------------------------------------------------------------
(* Every variable has its type: the bound on calls bounds the fids, and    *)
(* lcktype says "exclusive" only of a node that is locked so.              *)
THEOREM TypeCorrect == Spec => []TypeOK
<1>1. AllInv /\ LckInv => TypeOK
  <2> SUFFICES ASSUME AllInv, LckInv PROVE TypeOK
    OBVIOUS
  <2> USE DEF AllInv
  <2>1. /\ sh \in [Node -> SUBSET Threads] /\ ex \in [Node -> Threads \cup {Null}]
        /\ lcktype \in [Node -> {"none", "shared", "exclusive"}]
        /\ \A n \in Node : (ex[n] # Null => sh[n] = {}) /\ (lcktype[n] = "exclusive" => ex[n] # Null)
    BY DEF IInv, LockType, Excl, LckInv
  <2>2. /\ opens \in [Node -> [Mode -> Nat]] /\ kept \in Nat /\ calls \in 0 .. MaxCalls
        /\ name \in {"absent", "there", "refused", "removed"} /\ dirty \in BOOLEAN
    BY DEF SlotInv, SlotTypes, NumInv
  <2>3. srv \in [Fids -> [n : Node \cup {"none"}, m : Mode \cup {"no"}]] /\ lost \subseteq Fids
    BY DEF FidInv, FidTypes, SrvRec
  <2>4. fid \in [Node -> Fids \cup {NOFID}] /\ nfid \in Nat
    BY FidTypesFacts
  <2>5. slot \in [Node -> [Mode -> [fid : Fids \cup {NOFID}, ref : Nat]]]
    <3>1. slot \in [Node -> [Mode -> [fid : Nat, ref : Nat]]]
      BY DEF SlotInv, SlotTypes
    <3>2. \A n \in Node, m \in Mode : slot[n][m] \in [fid : Fids \cup {NOFID}, ref : Nat]
      <4> SUFFICES ASSUME NEW n \in Node, NEW m \in Mode PROVE slot[n][m] \in [fid : Fids \cup {NOFID}, ref : Nat]
        OBVIOUS
      <4>1. slot[n][m] \in [fid : Nat, ref : Nat] /\ slot[n][m].fid \in Fids \cup {NOFID}
        BY <3>1, FidTypesFacts
      <4> QED
        BY <4>1
    <3> QED
      BY <3>1, <3>2
  <2>6. \A t \in Threads : loc[t].fid \in Fids \cup {NOFID} /\ loc[t].open \in Fids \cup {NOFID}
    BY FidTypesFacts DEF Locals
  <2> QED
    BY <2>1, <2>2, <2>3, <2>4, <2>5, <2>6 DEF TypeOK
<1> QED
  BY <1>1, AllHolds, LckHolds, PTL

(* A slot counts the opens not yet closed, and but while its last close is *)
(* under way has a fid, open at the server in its mode, just when it       *)
(* counts any: vnop_open_9p's and vnop_close_9p's atomic counts suffice.   *)
THEOREM SlotsExactHolds == Spec => []SlotsExact
<1>1. AllInv => SlotsExact
  <2> SUFFICES ASSUME AllInv, NEW n \in Node, NEW m \in Mode
               PROVE  LET closing(states) == {t \in Threads : Doing(t, {"close"}, loc[t].st) /\ loc[t].o.n = n
                                                 /\ loc[t].o.m = m /\ loc[t].st \in states}
                          s == slot[n][m] IN
                      /\ s.ref = opens[n][m] + Cardinality(closing({"lock", "note", "body"}))
                                   + (IF n = "file" /\ m = "ORDWR" THEN kept ELSE 0)
                      /\ closing({"push", "clunk", "reset"}) = {} =>
                            \/ s.fid = NOFID /\ s.ref = 0
                            \/ /\ s.fid # NOFID
                               /\ s.ref > 0
                               /\ srv[s.fid] = Is(n, m) \/ stray
    BY DEF SlotsExact
  <2> DEFINE closing(states) == {t \in Threads : Doing(t, {"close"}, loc[t].st) /\ loc[t].o.n = n
                                                 /\ loc[t].o.m = m /\ loc[t].st \in states}
  <2> USE DEF AllInv
  <2>1. closing({"lock", "note", "body"}) = Coming(n, m) /\ closing({"push", "clunk", "reset"}) = Ending(n, m)
    BY DEF Doing, Coming, Ending, Closers, Before, After
  <2>2. /\ slot[n][m].ref \in Nat
        /\ slot[n][m].ref = opens[n][m] + Cardinality(Coming(n, m)) + Extra(n, m)
    BY CountFacts
  <2>3. ASSUME Ending(n, m) = {}
        PROVE  \/ slot[n][m].fid = NOFID /\ slot[n][m].ref = 0
               \/ slot[n][m].fid # NOFID /\ slot[n][m].ref > 0 /\ (srv[slot[n][m].fid] = Is(n, m) \/ stray)
    <3>1. slot[n][m].ref = 0 <=> slot[n][m].fid = NOFID
      BY <2>3 DEF SlotInv, ShutInv
    <3>2. ~Resetting(n, m)
      BY <2>3 DEF Resetting, Ending, Closers, After
    <3>3. slot[n][m].fid # NOFID => srv[slot[n][m].fid] = Is(n, m) \/ stray
      BY <3>2 DEF FidInv, BoundInv, SlotBound
    <3> QED
      BY <2>2, <3>1, <3>3
  <2> HIDE DEF closing
  <2>4. /\ slot[n][m].ref = opens[n][m] + Cardinality(closing({"lock", "note", "body"}))
                              + (IF n = "file" /\ m = "ORDWR" THEN kept ELSE 0)
        /\ closing({"push", "clunk", "reset"}) = {} =>
              \/ slot[n][m].fid = NOFID /\ slot[n][m].ref = 0
              \/ slot[n][m].fid # NOFID /\ slot[n][m].ref > 0 /\ (srv[slot[n][m].fid] = Is(n, m) \/ stray)
    BY <2>1, <2>2, <2>3 DEF Extra
  <2> QED
    BY <2>4 DEF closing
<1> QED
  BY <1>1, AllHolds, PTL

-----------------------------------------------------------------------------
LEMMA SlotUsable ==
  ASSUME AllInv, ~stray, NEW n \in Node, NEW m \in Mode, slot[n][m].fid # NOFID, ~Resetting(n, m)
  PROVE  srv[slot[n][m].fid] = Is(n, m)
  BY DEF AllInv, FidInv, BoundInv, SlotBound

(* Who reads, writes or lists does it on a fid the server has open for     *)
(* that, and finds one for the cache's pages, though the three slots of a  *)
(* node open and close under it; and a node's own fid is never opened.     *)
THEOREM FidUsableHolds == Spec => []FidUsable
<1>1. AllInv => FidUsable
  <2> SUFFICES ASSUME AllInv, ~stray
               PROVE  /\ \A t \in Threads :
                            /\ Doing(t, {"read", "write", "readdir"}, "io") =>
                                  Serves(loc[t].o.n, loc[t].o.op, loc[t].pick)
                            /\ loc[t].st = "EBADF" =>
                                  \/ loc[t].o.op \in {"pagein", "pageout"}
                                  \/ loc[t].o.op = "write" /\ slot["file"]["OREAD"].fid = NOFID
                                       /\ slot["file"]["ORDWR"].fid = NOFID
                      /\ dirty => Serves("file", "write", SlotFor("file", "write"))
                      /\ \A n \in Node : fid[n] # NOFID /\ (n = "file" => name = "there") =>
                                            srv[fid[n]] = Is(n, "no")
    BY DEF FidUsable
  <2>0. IInv /\ PlaceInv /\ SlotInv /\ FidInv /\ BoundInv
    BY DEF AllInv, FidInv
  <2>1. ASSUME NEW t \in Threads, loc[t].o.op \in {"read", "write", "readdir"}, loc[t].st = "io"
        PROVE  Serves(loc[t].o.n, loc[t].o.op, loc[t].pick)
    <3> PICK n, p, op : n = loc[t].o.n /\ p = loc[t].pick /\ op = loc[t].o.op
      OBVIOUS
    <3>1. n \in Node /\ \A m \in Mode : Ending(n, m) = {}
      BY <2>0, <2>1, BusyStates, UserHasFid
    <3>2. p \in (IF op = "write" THEN Writable ELSE Readable) /\ slot[n][p].fid # NOFID
      BY <2>0, <2>1 DEF SlotInv, BodyInv
    <3>3. p \in Mode
      BY <3>2 DEF Readable, Writable, Mode
    <3>4. ~Resetting(n, p)
      BY <3>1, <3>3 DEF Resetting, Ending, Closers, After
    <3>5. srv[slot[n][p].fid] = Is(n, p)
      BY <3>1, <3>2, <3>3, <3>4, SlotUsable
    <3>6. op \in Reads <=> op # "write"
      BY <2>1 DEF Reads
    <3>7. Serves(n, op, p)
      BY <3>2, <3>5, <3>6 DEF Serves, Readable, Writable
    <3> QED
      BY <3>7
  <2>2. ASSUME NEW t \in Threads, loc[t].st = "EBADF"
        PROVE  \/ loc[t].o.op \in {"pagein", "pageout"}
               \/ loc[t].o.op = "write" /\ slot["file"]["OREAD"].fid = NOFID /\ slot["file"]["ORDWR"].fid = NOFID
    BY <2>0, <2>2 DEF SlotInv, BodyInv, Readable
  <2>3. ASSUME dirty PROVE Serves("file", "write", SlotFor("file", "write"))
    <3> PICK p : p = SlotFor("file", "write")
      OBVIOUS
    <3>1. /\ \E m \in Writable : slot["file"][m].fid # NOFID
          /\ \A t \in Threads : loc[t].o.op = "close" /\ loc[t].o.n = "file" => loc[t].st \notin {"clunk", "reset"}
      BY <2>0, <2>3 DEF SlotInv, DirtyInv
    <3>2. p \in Writable /\ slot["file"][p].fid # NOFID /\ "write" \notin Reads
      BY <3>1 DEF SlotFor, Reads, Writable
    <3>3. p \in Mode /\ "file" \in Node /\ ~Resetting("file", p)
      BY <3>1, <3>2 DEF Writable, Mode, Node, Resetting
    <3>4. srv[slot["file"][p].fid] = Is("file", p)
      BY <3>2, <3>3, SlotUsable
    <3>5. Serves("file", "write", p)
      BY <3>2, <3>4 DEF Serves, Writable
    <3> QED
      BY <3>5
  <2>4. \A n \in Node : fid[n] # NOFID /\ (n = "file" => name = "there") => srv[fid[n]] = Is(n, "no")
    BY <2>0 DEF BoundInv, NodeBound, Node
  <2> QED
    BY <2>1, <2>2, <2>3, <2>4 DEF Doing
<1> QED
  BY <1>1, AllHolds, PTL

(* A fid the server has is a node's, a slot's or a thread's, of one only,  *)
(* or its clunk has failed: no interleaving of opens, closes, creates and  *)
(* removes loses one or has it used, and clunked, twice.                   *)
THEOREM FidsAccountedHolds == Spec => []FidsAccounted
<1>1. AllInv => FidsAccounted
  <2> SUFFICES ASSUME AllInv, NEW f \in Fids, srv[f] # Free, f \notin lost
               PROVE  Cardinality(Owners(f)) = 1 \/ (stray /\ Owners(f) # {})
    BY DEF FidsAccounted
  <2>0. Owned(f) /\ f # NOFID /\ (stray \/ OneOwner)
    BY DEF AllInv, FidInv, OwnedInv, BoundInv, Fids, NOFID
  <2>1. /\ \A n \in Node : fid[n] = f => <<"node", n>> \in Owners(f)
        /\ \A n \in Node, m \in Mode : slot[n][m].fid = f => <<"slot", <<n, m>>>> \in Owners(f)
        /\ \A t \in Threads : f \in {loc[t].fid, loc[t].open} => <<"thread", t>> \in Owners(f)
    BY DEF Owners
  <2>2. Owners(f) # {}
    BY <2>0, <2>1 DEF Owned
  <2>3. ASSUME OneOwner PROVE \E x : Owners(f) = {x}
    <3>0. \A t \in Threads : f \in {loc[t].fid, loc[t].open} => f \in Locals(t)
      BY <2>0 DEF Locals
    <3>1. \A n, k \in Node : fid[n] = f /\ fid[k] = f => n = k
      BY <2>3 DEF OneOwner, Node
    <3>2. \A n, k \in Node, m, l \in Mode : slot[n][m].fid = f /\ slot[k][l].fid = f => n = k /\ m = l
      BY <2>0, <2>3 DEF OneOwner
    <3>3. \A n, k \in Node, m \in Mode : ~(slot[k][m].fid = f /\ fid[n] = f)
      BY <2>0, <2>3 DEF OneOwner
    <3>4. \A t \in Threads : f \in {loc[t].fid, loc[t].open} =>
             /\ \A n \in Node : fid[n] # f
             /\ \A n \in Node, m \in Mode : slot[n][m].fid # f
             /\ \A u \in Threads : f \in {loc[u].fid, loc[u].open} => u = t
      BY <2>3, <3>0 DEF OneOwner
    <3>5. CASE \E n \in Node : fid[n] = f
      <4> PICK n \in Node : fid[n] = f
        BY <3>5
      <4>1. {<<"node", k>> : k \in {k \in Node : fid[k] = f}} = {<<"node", n>>}
        BY <3>1
      <4>2. {<<"slot", p>> : p \in {k \in Node \X Mode : slot[k[1]][k[2]].fid = f}} = {}
        BY <3>3
      <4>3. {<<"thread", t>> : t \in {k \in Threads : f \in {loc[k].fid, loc[k].open}}} = {}
        BY <3>4
      <4> QED
        BY <4>1, <4>2, <4>3 DEF Owners
    <3>6. CASE \E n \in Node, m \in Mode : slot[n][m].fid = f
      <4> PICK n \in Node, m \in Mode : slot[n][m].fid = f
        BY <3>6
      <4>1. {<<"node", k>> : k \in {k \in Node : fid[k] = f}} = {}
        BY <3>3
      <4>2. {<<"slot", p>> : p \in {k \in Node \X Mode : slot[k[1]][k[2]].fid = f}} = {<<"slot", <<n, m>>>>}
        <5>1. {k \in Node \X Mode : slot[k[1]][k[2]].fid = f} = {<<n, m>>}
          BY <3>2
        <5> QED
          BY <5>1
      <4>3. {<<"thread", t>> : t \in {k \in Threads : f \in {loc[k].fid, loc[k].open}}} = {}
        BY <3>4
      <4> QED
        BY <4>1, <4>2, <4>3 DEF Owners
    <3>7. CASE \E t \in Threads : f \in {loc[t].fid, loc[t].open}
      <4> PICK t \in Threads : f \in {loc[t].fid, loc[t].open}
        BY <3>7
      <4>1. {<<"node", k>> : k \in {k \in Node : fid[k] = f}} = {}
        BY <3>4
      <4>2. {<<"slot", p>> : p \in {k \in Node \X Mode : slot[k[1]][k[2]].fid = f}} = {}
        BY <3>4
      <4>3. {<<"thread", u>> : u \in {k \in Threads : f \in {loc[k].fid, loc[k].open}}} = {<<"thread", t>>}
        BY <3>4
      <4> QED
        BY <4>1, <4>2, <4>3 DEF Owners
    <3> QED
      BY <2>0, <3>5, <3>6, <3>7 DEF Owned
  <2>4. \A x : Cardinality({x}) = 1
    BY FS_Singleton
  <2> QED
    BY <2>0, <2>2, <2>3, <2>4
<1> QED
  BY <1>1, AllHolds, PTL
=============================================================================
