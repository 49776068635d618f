--------------------------- MODULE KextFiles_proofs ---------------------------
(***************************************************************************)
(* Theorems about the node locks of the vnode operations, for any number   *)
(* of threads and calls and any set of faults.                             *)
(***************************************************************************)
EXTENDS KextFiles, SequenceTheorems, FiniteSetTheorems, TLAPS

USE FilesAssumption

LockRec == [n : Node, type : {"shared", "exclusive"}]

States ==
    {"idle", "lock", "note", "body", "unlock", "drop", "failed", "open", "push", "clunk", "reset",
     "pick", "io", "EBADF", "wstat", "create", "walk", "nget", "clunkopen", "clunkfid"}

AnyOp == Operations \cup {[op |-> "none"]}

LocType ==
    [o : AnyOp, st : States, want : Seq(LockRec), held : Seq(LockRec),
     fid : Nat, open : Nat, pick : Mode \cup {"no"}]

LockType ==
    /\ sh \in [Node -> SUBSET Threads] /\ ex \in [Node -> Threads \cup {Null}]
    /\ lcktype \in [Node -> {"none", "shared", "exclusive"}]
    /\ loc \in [Threads -> LocType] /\ nfid \in Nat

(* The lock itself, apart from the note in lcktype.                        *)
Has(t, l) == IF l.type = "shared" THEN t \in sh[l.n] ELSE ex[l.n] = t

Shape(t) ==
    /\ loc[t].st \in {"lock", "note"} => loc[t].want # <<>>
    /\ loc[t].st = "drop" => loc[t].held # <<>>

(* What a thread holds it has, in the mode lcktype says; but when it is    *)
(* between the two statements of an exclusive unlock the note is gone.     *)
Holding(t) ==
    \A i \in 1 .. Len(loc[t].held) :
        IF loc[t].st = "drop" /\ i = 1
        THEN ex[loc[t].held[1].n] = t
        ELSE Has(t, loc[t].held[i]) /\ lcktype[loc[t].held[i].n] = loc[t].held[i].type

Noting(t) == loc[t].st = "note" => Has(t, loc[t].want[1])

(* No operation asks for a node twice.                                     *)
Distinct(t) ==
    /\ \A i, j \in 1 .. Len(loc[t].held) : loc[t].held[i].n = loc[t].held[j].n => i = j
    /\ \A i, j \in 1 .. Len(loc[t].want) : loc[t].want[i].n = loc[t].want[j].n => i = j
    /\ \A i \in 1 .. Len(loc[t].held), j \in 1 .. Len(loc[t].want) :
          loc[t].held[i].n # loc[t].want[j].n

(* ncreate_9p holds its directory alone until it has made the node.        *)
InDir(t) ==
    loc[t].o.op = "create" /\ loc[t].st \notin {"unlock", "drop"} =>
        /\ \A i \in 1 .. Len(loc[t].held) : loc[t].held[i].n = "dir"
        /\ \A i \in 1 .. Len(loc[t].want) : loc[t].want[i].n = "dir"

ThreadInv(t) == Shape(t) /\ Holding(t) /\ Noting(t) /\ Distinct(t) /\ InDir(t)

Excl == \A n \in Node : ex[n] # Null => sh[n] = {}

IInv == LockType /\ Excl /\ \A t \in Threads : ThreadInv(t)

-----------------------------------------------------------------------------
(* Sequences                                                               *)

LEMMA TailFacts ==
  ASSUME NEW s \in Seq(LockRec), s # <<>>
  PROVE  /\ Len(s) \in Nat \ {0} /\ Head(s) = s[1] /\ s[1] \in LockRec
         /\ Tail(s) \in Seq(LockRec) /\ Len(Tail(s)) = Len(s) - 1
         /\ \A i \in 1 .. Len(s) - 1 : Tail(s)[i] = s[i + 1]
<1> DEFINE L == LockRec
<1>1. s \in Seq(L) OBVIOUS
<1> HIDE DEF L
<1>2. Head(s) = s[1] /\ s[1] \in L /\ Tail(s) \in Seq(L) /\ Len(Tail(s)) = Len(s) - 1
      /\ Len(s) \in Nat \ {0}
  BY <1>1, HeadTailProperties, EmptySeq, ElementOfSeq
<1>3. \A i \in 1 .. Len(s) - 1 : Tail(s)[i] = s[i + 1]
  BY <1>1, <1>2, HeadTailProperties
<1> QED
  BY <1>2, <1>3 DEF L

LEMMA PushFacts ==
  ASSUME NEW s \in Seq(LockRec), NEW l \in LockRec
  PROVE  /\ <<l>> \o s \in Seq(LockRec) /\ Len(<<l>> \o s) = Len(s) + 1
         /\ (<<l>> \o s)[1] = l
         /\ \A i \in 1 .. Len(s) : (<<l>> \o s)[i + 1] = s[i]
<1> DEFINE L == LockRec
<1>1. s \in Seq(L) /\ l \in L OBVIOUS
<1> HIDE DEF L
<1>2. <<l>> \in Seq(L) /\ Len(<<l>>) = 1 /\ <<l>>[1] = l /\ Len(s) \in Nat
  BY <1>1
<1>3. <<l>> \o s \in Seq(L) /\ Len(<<l>> \o s) = Len(s) + 1 /\ (<<l>> \o s)[1] = l
  BY <1>1, <1>2, ConcatProperties
<1>4. \A i \in 1 .. Len(s) : (<<l>> \o s)[i + 1] = s[i]
  BY <1>1, <1>2, ConcatProperties
<1> QED
  BY <1>3, <1>4 DEF L

-----------------------------------------------------------------------------
LEMMA LocksFacts ==
  ASSUME NEW o \in Operations
  PROVE  /\ Locks(o) \in Seq(LockRec)
         /\ \A i, j \in 1 .. Len(Locks(o)) : Locks(o)[i].n = Locks(o)[j].n => i = j
         /\ o.op = "create" => \A i \in 1 .. Len(Locks(o)) : Locks(o)[i].n = "dir"
<1>1. o.n \in Node /\ (o.op = "create" => o.n = "dir")
  BY DEF Operations, Node, Plain
<1>2. CASE o.op \in {"pagein", "pageout"}
  <2>1. Locks(o) = <<>>
    BY <1>2 DEF Locks
  <2> QED
    BY <2>1
<1>3. CASE o.op = "read"
  <2>1. Locks(o) = <<Lock(o.n, "shared")>> /\ Lock(o.n, "shared") \in LockRec
    BY <1>1, <1>3 DEF Locks, Lock, LockRec
  <2> QED
    BY <1>3, <2>1
<1>4. CASE o.op \in {"remove", "rename"}
  <2>1. /\ Locks(o) = <<Lock("dir", "exclusive"), Lock("file", "exclusive")>>
        /\ Lock("dir", "exclusive") \in LockRec /\ Lock("file", "exclusive") \in LockRec
    BY <1>4 DEF Locks, Lock, LockRec, Node
  <2>2. /\ Len(Locks(o)) = 2 /\ Locks(o)[1].n = "dir" /\ Locks(o)[2].n = "file"
        /\ Locks(o) \in Seq(LockRec)
    BY <2>1 DEF Lock
  <2> QED
    BY <1>4, <2>2
<1>5. CASE o.op \notin {"pagein", "pageout", "read", "remove", "rename"}
  <2>1. Locks(o) = <<Lock(o.n, "exclusive")>> /\ Lock(o.n, "exclusive") \in LockRec
    BY <1>1, <1>5 DEF Locks, Lock, LockRec
  <2>2. Len(Locks(o)) = 1 /\ Locks(o)[1].n = o.n /\ Locks(o) \in Seq(LockRec)
    BY <2>1 DEF Lock
  <2> QED
    BY <1>1, <2>2
<1> QED
  BY <1>2, <1>3, <1>4, <1>5

-----------------------------------------------------------------------------
(* Most steps go from one statement of an operation's body to another.     *)

Busy == States \ {"idle", "lock", "note", "drop", "unlock"}

Quiet(t) ==
    /\ UNCHANGED locks /\ nfid' \in Nat
    /\ loc' \in [Threads -> LocType] /\ \A u \in Threads \ {t} : loc'[u] = loc[u]
    /\ loc[t].st \in Busy /\ loc'[t].st \in Busy \cup {"unlock"}
    /\ loc'[t].o = loc[t].o /\ loc'[t].want = loc[t].want /\ loc'[t].held = loc[t].held

LEMMA QuietKeeps == ASSUME NEW t \in Threads, IInv, Quiet(t) PROVE IInv'
<1>1. LockType' /\ Excl'
  BY DEF IInv, Quiet, LockType, Excl, locks
<1>2. ASSUME NEW u \in Threads, u # t PROVE ThreadInv(u)'
  <2>1. loc'[u] = loc[u] /\ sh' = sh /\ ex' = ex /\ lcktype' = lcktype /\ ThreadInv(u)
    BY <1>2 DEF Quiet, locks, IInv
  <2> QED
    BY <2>1 DEF ThreadInv, Shape, Holding, Noting, Distinct, InDir, Has
<1>3. ThreadInv(t)'
  <2>1. /\ sh' = sh /\ ex' = ex /\ lcktype' = lcktype /\ ThreadInv(t)
        /\ loc[t].st \notin {"lock", "note", "drop", "unlock"} /\ loc'[t].st \notin {"lock", "note", "drop"}
        /\ loc'[t].o = loc[t].o /\ loc'[t].want = loc[t].want /\ loc'[t].held = loc[t].held
    BY DEF Quiet, locks, IInv, Busy
  <2>2. Shape(t)' /\ Noting(t)' /\ InDir(t)'
    BY <2>1 DEF ThreadInv, Shape, Noting, InDir
  <2>3. Holding(t)'
    BY <2>1 DEF ThreadInv, Holding, Has
  <2>4. Distinct(t)'
    BY <2>1 DEF ThreadInv, Distinct
  <2> QED
    BY <2>2, <2>3, <2>4 DEF ThreadInv
<1> QED
  BY <1>1, <1>2, <1>3 DEF IInv

-----------------------------------------------------------------------------
(* nlock_9p and nunlock_9p                                                 *)

(* The threads a step does not move keep what they hold, if the step       *)
(* takes nothing from them.                                                *)
LEMMA OtherKeeps ==
  ASSUME NEW u \in Threads, ThreadInv(u), loc'[u] = loc[u],
         \A l \in LockRec : Has(u, l) => Has(u, l)' /\ lcktype'[l.n] \in {lcktype[l.n], l.type},
         loc[u] \in LocType
  PROVE  ThreadInv(u)'
<1>1. Shape(u)' /\ Distinct(u)' /\ InDir(u)'
  BY DEF ThreadInv, Shape, Distinct, InDir
<1>2. loc[u].held \in Seq(LockRec) /\ loc[u].want \in Seq(LockRec)
  BY DEF LocType
<1>3. Holding(u)'
  <2> SUFFICES ASSUME NEW i \in 1 .. Len(loc[u].held)
               PROVE  IF loc[u].st = "drop" /\ i = 1
                      THEN ex'[loc[u].held[1].n] = u
                      ELSE Has(u, loc[u].held[i])' /\ lcktype'[loc[u].held[i].n] = loc[u].held[i].type
    BY DEF Holding, Has
  <2>1. loc[u].held[i] \in LockRec
    BY <1>2
  <2>2. CASE loc[u].st = "drop" /\ i = 1
    <3>1. ex[loc[u].held[1].n] = u
      BY <2>2 DEF ThreadInv, Holding
    <3>2. [n |-> loc[u].held[1].n, type |-> "exclusive"] \in LockRec
      BY <2>1, <2>2 DEF LockRec
    <3> QED
      BY <2>2, <3>1, <3>2 DEF Has
  <2>3. CASE ~(loc[u].st = "drop" /\ i = 1)
    <3>1. Has(u, loc[u].held[i]) /\ lcktype[loc[u].held[i].n] = loc[u].held[i].type
      BY <2>3 DEF ThreadInv, Holding
    <3> QED
      BY <2>1, <2>3, <3>1
  <2> QED
    BY <2>2, <2>3
<1>4. Noting(u)'
  <2>1. ASSUME loc[u].st = "note" PROVE Has(u, loc[u].want[1])'
    <3>1. loc[u].want # <<>> /\ Has(u, loc[u].want[1])
      BY <2>1 DEF ThreadInv, Shape, Noting
    <3> QED
      BY <1>2, <3>1, TailFacts
  <2> QED
    BY <2>1 DEF Noting, Has
<1> QED
  BY <1>1, <1>3, <1>4 DEF ThreadInv

LEMMA NlockTakeStep == ASSUME NEW t \in Threads, IInv, NlockTake(t) PROVE IInv'
<1> DEFINE n == loc[t].want[1].n
<1>1. /\ loc[t] \in LocType /\ loc[t].st = "lock" /\ loc[t].want # <<>> /\ ThreadInv(t)
      /\ loc[t].want \in Seq(LockRec) /\ loc[t].held \in Seq(LockRec)
  BY DEF IInv, LockType, LocType, NlockTake, ThreadInv, Shape
<1>2. Head(loc[t].want) = loc[t].want[1] /\ loc[t].want[1] \in LockRec /\ n \in Node
  BY <1>1, TailFacts DEF LockRec
<1>3. /\ ex[n] = Null /\ loc' = [loc EXCEPT ![t].st = "note"] /\ UNCHANGED <<lcktype, nfid>>
      /\ IF loc[t].want[1].type = "shared"
         THEN sh' = [sh EXCEPT ![n] = @ \cup {t}] /\ ex' = ex
         ELSE sh[n] = {} /\ ex' = [ex EXCEPT ![n] = t] /\ sh' = sh
  BY <1>2 DEF NlockTake, Goto, server
<1> HIDE DEF n
<1>4. LockType'
  <2>1. loc' \in [Threads -> LocType]
    BY <1>1, <1>3 DEF IInv, LockType, LocType, States
  <2>2. sh' \in [Node -> SUBSET Threads] /\ ex' \in [Node -> Threads \cup {Null}]
    BY <1>3 DEF IInv, LockType
  <2> QED
    BY <1>3, <2>1, <2>2 DEF IInv, LockType
<1>5. Excl'
  BY <1>2, <1>3 DEF IInv, LockType, Excl
<1>6. \A u \in Threads, l \in LockRec : Has(u, l) => Has(u, l)'
  <2>1. Null \notin Threads
    BY DEF FilesAssumption
  <2> QED
    BY <1>2, <1>3, <2>1 DEF Has, IInv, LockType, LockRec
<1>7. ASSUME NEW u \in Threads, u # t PROVE ThreadInv(u)'
  BY <1>3, <1>6, <1>7, OtherKeeps DEF IInv, LockType
<1>8. ThreadInv(t)'
  <2>1. loc'[t] = [loc[t] EXCEPT !.st = "note"]
    BY <1>3 DEF IInv, LockType
  <2>2. /\ loc'[t].st = "note" /\ loc'[t].o = loc[t].o
        /\ loc'[t].want = loc[t].want /\ loc'[t].held = loc[t].held
    BY <1>1, <2>1 DEF LocType
  <2>3. Shape(t)' /\ Distinct(t)' /\ InDir(t)'
    BY <1>1, <2>2 DEF ThreadInv, Shape, Distinct, InDir
  <2>4. \A i \in 1 .. Len(loc[t].held) : loc[t].held[i] \in LockRec
    BY <1>1
  <2>5. Holding(t)'
    BY <1>1, <1>3, <1>6, <2>2, <2>4 DEF ThreadInv, Holding
  <2>6. Has(t, loc[t].want[1])'
    BY <1>2, <1>3 DEF Has, IInv, LockType, n
  <2>7. Noting(t)'
    BY <2>2, <2>6 DEF Noting, Has
  <2> QED
    BY <2>3, <2>5, <2>7 DEF ThreadInv
<1> QED
  BY <1>4, <1>5, <1>7, <1>8 DEF IInv

LEMMA NlockNoteStep == ASSUME NEW t \in Threads, IInv, NlockNote(t) PROVE IInv'
<1> PICK l, w, h : l = loc[t].want[1] /\ w = Tail(loc[t].want) /\ h = <<l>> \o loc[t].held
  OBVIOUS
<1>1. /\ loc[t] \in LocType /\ loc[t].st = "note" /\ loc[t].want # <<>> /\ ThreadInv(t)
      /\ loc[t].want \in Seq(LockRec) /\ loc[t].held \in Seq(LockRec)
  BY DEF IInv, LockType, LocType, NlockNote, ThreadInv, Shape
<1>2. /\ Head(loc[t].want) = l /\ l \in LockRec /\ w \in Seq(LockRec)
      /\ Len(loc[t].want) \in Nat \ {0} /\ Len(w) = Len(loc[t].want) - 1
      /\ \A i \in 1 .. Len(w) : w[i] = loc[t].want[i + 1]
  BY <1>1, TailFacts
<1>3. /\ h \in Seq(LockRec) /\ Len(h) = Len(loc[t].held) + 1 /\ h[1] = l
      /\ \A i \in 1 .. Len(loc[t].held) : h[i + 1] = loc[t].held[i]
  BY <1>1, <1>2, PushFacts
<1>4. Len(loc[t].held) \in Nat
  BY <1>1
<1>5. /\ lcktype' = [lcktype EXCEPT ![l.n] = l.type] /\ UNCHANGED <<sh, ex, nfid>>
      /\ loc' = [loc EXCEPT ![t].st = IF Len(loc[t].want) = 1 THEN "body" ELSE "lock",
                            ![t].want = w, ![t].held = h]
  BY <1>2 DEF NlockNote, server, IInv, LockType
<1>6. /\ loc' \in [Threads -> LocType] /\ \A u \in Threads \ {t} : loc'[u] = loc[u]
      /\ loc'[t].st = (IF Len(loc[t].want) = 1 THEN "body" ELSE "lock") /\ loc'[t].o = loc[t].o
      /\ loc'[t].want = w /\ loc'[t].held = h
  BY <1>1, <1>2, <1>3, <1>5 DEF IInv, LockType, LocType, States
<1>7. LockType' /\ Excl'
  BY <1>2, <1>5, <1>6 DEF IInv, LockType, Excl, LockRec
<1>8. Has(t, l)
  BY <1>1 DEF ThreadInv, Noting
<1>9. \A u \in Threads, k \in LockRec : Has(u, k) /\ k.n = l.n => k.type = l.type /\ (l.type = "exclusive" => u = t)
  <2>1. Null \notin Threads
    BY DEF FilesAssumption
  <2> QED
    BY <1>2, <1>8, <2>1 DEF Has, IInv, LockType, Excl, LockRec
<1>10. ASSUME NEW u \in Threads, u # t PROVE ThreadInv(u)'
  <2>1. \A k \in LockRec : Has(u, k) => Has(u, k)' /\ lcktype'[k.n] \in {lcktype[k.n], k.type}
    BY <1>5, <1>9 DEF Has, IInv, LockType, LockRec
  <2> QED
    BY <1>6, <1>10, <2>1, OtherKeeps DEF IInv, LockType
<1>11. Shape(t)' /\ Noting(t)'
  <2>1. Len(loc[t].want) # 1 => w # <<>>
    <3>1. Len(loc[t].want) # 1 => Len(w) # 0
      BY <1>2
    <3>2. w = <<>> => Len(w) = 0
      BY EmptySeq
    <3> QED
      BY <3>1, <3>2
  <2> QED
    BY <1>6, <2>1 DEF Shape, Noting
<1>12. Holding(t)'
  <2> SUFFICES ASSUME NEW i \in 1 .. Len(h)
               PROVE  Has(t, h[i])' /\ lcktype'[h[i].n] = h[i].type
    BY <1>6 DEF Holding, Has
  <2>1. CASE i = 1
    BY <1>2, <1>3, <1>5, <1>8, <2>1 DEF Has, IInv, LockType, LockRec
  <2>2. CASE i # 1
    <3>1. i - 1 \in 1 .. Len(loc[t].held) /\ h[i] = loc[t].held[i - 1] /\ h[i] \in LockRec
      <4>1. i - 1 \in 1 .. Len(loc[t].held) /\ i = (i - 1) + 1
        BY <1>3, <1>4, <2>2
      <4>2. h[i] = loc[t].held[i - 1]
        BY <1>3, <4>1
      <4> QED
        BY <1>3, <4>1, <4>2
    <3>2. Has(t, h[i]) /\ lcktype[h[i].n] = h[i].type
      BY <1>1, <3>1 DEF ThreadInv, Holding
    <3>3. 1 \in 1 .. Len(loc[t].want)
      BY <1>2
    <3>4. h[i].n # l.n
      BY <1>1, <3>1, <3>3 DEF ThreadInv, Distinct
    <3> QED
      BY <1>5, <3>1, <3>2, <3>4 DEF Has, IInv, LockType, LockRec
  <2> QED
    BY <2>1, <2>2
<1>13. Distinct(t)'
  <2> PICK hh, ww : hh = loc[t].held /\ ww = loc[t].want
    OBVIOUS
  <2>0. /\ \A i, j \in 1 .. Len(hh) : hh[i].n = hh[j].n => i = j
        /\ \A i, j \in 1 .. Len(ww) : ww[i].n = ww[j].n => i = j
        /\ \A i \in 1 .. Len(hh), j \in 1 .. Len(ww) : hh[i].n # ww[j].n
    BY <1>1 DEF ThreadInv, Distinct
  <2>1. \A i \in 1 .. Len(h) : i = 1 \/ (i - 1 \in 1 .. Len(hh) /\ h[i] = hh[i - 1])
    <3> SUFFICES ASSUME NEW i \in 1 .. Len(h), i # 1
                 PROVE  i - 1 \in 1 .. Len(hh) /\ h[i] = hh[i - 1]
      OBVIOUS
    <3>1. i - 1 \in 1 .. Len(hh) /\ i = (i - 1) + 1
      BY <1>3, <1>4
    <3> QED
      BY <1>3, <3>1
  <2>2. \A i \in 1 .. Len(w) : i + 1 \in 1 .. Len(ww) /\ w[i] = ww[i + 1] /\ i + 1 # 1
    BY <1>2
  <2>3. h[1] = ww[1] /\ 1 \in 1 .. Len(ww)
    BY <1>2, <1>3
  <2>4. \A i, j \in 1 .. Len(h) : h[i].n = h[j].n => i = j
    <3> SUFFICES ASSUME NEW i \in 1 .. Len(h), NEW j \in 1 .. Len(h), h[i].n = h[j].n PROVE i = j
      OBVIOUS
    <3>1. CASE i = 1 /\ j # 1
      <4>1. j - 1 \in 1 .. Len(hh) /\ h[j] = hh[j - 1]
        BY <2>1, <3>1
      <4>2. h[i] = ww[1]
        BY <2>3, <3>1
      <4>3. hh[j - 1].n # ww[1].n
        BY <2>0, <2>3, <4>1
      <4> QED
        BY <4>1, <4>2, <4>3
    <3>2. CASE i # 1 /\ j = 1
      <4>1. i - 1 \in 1 .. Len(hh) /\ h[i] = hh[i - 1]
        BY <2>1, <3>2
      <4>2. h[j] = ww[1]
        BY <2>3, <3>2
      <4>3. hh[i - 1].n # ww[1].n
        BY <2>0, <2>3, <4>1
      <4> QED
        BY <4>1, <4>2, <4>3
    <3>3. CASE i # 1 /\ j # 1
      <4>1. i - 1 = j - 1
        <5>1. i - 1 \in 1 .. Len(hh) /\ h[i] = hh[i - 1]
          BY <2>1, <3>3
        <5>2. j - 1 \in 1 .. Len(hh) /\ h[j] = hh[j - 1]
          BY <2>1, <3>3
        <5> QED
          BY <2>0, <5>1, <5>2
      <4> QED
        BY <1>3, <1>4, <4>1
    <3> QED
      BY <3>1, <3>2, <3>3
  <2>5. \A i, j \in 1 .. Len(w) : w[i].n = w[j].n => i = j
    <3> SUFFICES ASSUME NEW i \in 1 .. Len(w), NEW j \in 1 .. Len(w), w[i].n = w[j].n PROVE i = j
      OBVIOUS
    <3>1. i + 1 = j + 1
      BY <2>0, <2>2
    <3> QED
      BY <3>1
  <2>6. \A i \in 1 .. Len(h), j \in 1 .. Len(w) : h[i].n # w[j].n
    <3> SUFFICES ASSUME NEW i \in 1 .. Len(h), NEW j \in 1 .. Len(w) PROVE h[i].n # w[j].n
      OBVIOUS
    <3>1. j + 1 \in 1 .. Len(ww) /\ w[j] = ww[j + 1] /\ j + 1 # 1
      BY <2>2
    <3>2. CASE i = 1
      BY <2>0, <2>3, <3>1, <3>2
    <3>3. CASE i # 1
      BY <2>0, <2>1, <3>1, <3>3
    <3> QED
      BY <3>2, <3>3
  <2>7. loc'[t].held = h /\ loc'[t].want = w
    BY <1>6
  <2> QED
    BY <2>4, <2>5, <2>6, <2>7 DEF Distinct
<1>14. InDir(t)'
  <2>1. ASSUME loc[t].o.op = "create"
        PROVE  /\ \A i \in 1 .. Len(h) : h[i].n = "dir"
               /\ \A i \in 1 .. Len(w) : w[i].n = "dir"
    <3>1. /\ \A i \in 1 .. Len(loc[t].held) : loc[t].held[i].n = "dir"
          /\ \A i \in 1 .. Len(loc[t].want) : loc[t].want[i].n = "dir"
      BY <1>1, <2>1 DEF ThreadInv, InDir
    <3>2. \A i \in 1 .. Len(w) : i + 1 \in 1 .. Len(loc[t].want) /\ w[i] = loc[t].want[i + 1]
      BY <1>2
    <3>3. \A i \in 1 .. Len(h) : i = 1 \/ (i - 1 \in 1 .. Len(loc[t].held) /\ i = (i - 1) + 1)
      BY <1>3, <1>4
    <3>4. 1 \in 1 .. Len(loc[t].want)
      BY <1>2
    <3>5. ASSUME NEW i \in 1 .. Len(h) PROVE h[i].n = "dir"
      <4>1. CASE i = 1
        BY <1>3, <3>1, <3>4, <4>1
      <4>2. CASE i # 1
        <5>1. i - 1 \in 1 .. Len(loc[t].held) /\ h[i] = loc[t].held[i - 1]
          BY <1>3, <3>3, <4>2
        <5> QED
          BY <3>1, <5>1
      <4> QED
        BY <4>1, <4>2
    <3> QED
      BY <3>1, <3>2, <3>5
  <2> QED
    BY <1>6, <2>1 DEF InDir
<1> QED
  BY <1>7, <1>10, <1>11, <1>12, <1>13, <1>14 DEF IInv, ThreadInv

(* The end of an unlock: on to the next, or out.                           *)
LEMMA UnlockedFacts ==
  ASSUME NEW t \in Threads, IInv, loc[t].held # <<>>, loc[t].st \in {"unlock", "drop"}, Unlocked(t)
  PROVE  /\ loc' \in [Threads -> LocType] /\ \A u \in Threads \ {t} : loc'[u] = loc[u]
         /\ \/ loc'[t].st = "idle" /\ loc'[t].held = <<>> /\ loc'[t].want = <<>>
            \/ /\ loc'[t].st = "unlock" /\ loc'[t].held = Tail(loc[t].held)
               /\ loc'[t].want = loc[t].want /\ loc'[t].o = loc[t].o
<1>1. loc[t] \in LocType /\ loc[t].held \in Seq(LockRec) /\ Tail(loc[t].held) \in Seq(LockRec)
  BY TailFacts DEF IInv, LockType, LocType
<1>2. Idle \in LocType /\ Idle.st = "idle" /\ Idle.held = <<>> /\ Idle.want = <<>>
  BY DEF Idle, LocType, States, AnyOp, NOFID
<1>3. [loc[t] EXCEPT !.st = "unlock", !.held = Tail(loc[t].held)] \in LocType
  BY <1>1 DEF LocType, States
<1>4. CASE Len(loc[t].held) = 1
  <2>1. loc' = [loc EXCEPT ![t] = Idle]
    BY <1>4 DEF Unlocked
  <2> QED
    BY <1>2, <2>1 DEF IInv, LockType
<1>5. CASE Len(loc[t].held) # 1
  <2>1. loc' = [loc EXCEPT ![t] = [loc[t] EXCEPT !.st = "unlock", !.held = Tail(loc[t].held)]]
    BY <1>5 DEF Unlocked
  <2>2. loc'[t] = [loc[t] EXCEPT !.st = "unlock", !.held = Tail(loc[t].held)]
    BY <2>1 DEF IInv, LockType
  <2>3. /\ loc'[t].st = "unlock" /\ loc'[t].held = Tail(loc[t].held)
        /\ loc'[t].want = loc[t].want /\ loc'[t].o = loc[t].o
    BY <1>1, <2>2 DEF LocType
  <2> QED
    BY <1>3, <2>1, <2>3 DEF IInv, LockType
<1> QED
  BY <1>4, <1>5

(* What is left of a thread's locks when it has given back the first.      *)
LEMMA RestKeeps ==
  ASSUME NEW t \in Threads, IInv, loc[t].held # <<>>, loc[t].st \in {"unlock", "drop"}, Unlocked(t),
         \A l \in LockRec : l.n # loc[t].held[1].n /\ Has(t, l) => Has(t, l)' /\ lcktype'[l.n] = lcktype[l.n]
  PROVE  ThreadInv(t)'
<1> PICK h, k : h = loc[t].held /\ k = Tail(loc[t].held)
  OBVIOUS
<1>1. h \in Seq(LockRec) /\ h # <<>> /\ ThreadInv(t)
  BY DEF IInv, LockType, LocType
<1>2. /\ Len(h) \in Nat \ {0} /\ h[1] \in LockRec /\ k \in Seq(LockRec) /\ Len(k) = Len(h) - 1
      /\ \A i \in 1 .. Len(k) : k[i] = h[i + 1] /\ i + 1 \in 1 .. Len(h) /\ i + 1 # 1
  BY <1>1, TailFacts
<1>3. CASE loc'[t].st = "idle" /\ loc'[t].held = <<>> /\ loc'[t].want = <<>>
  <2>1. Len(<<>>) = 0
    OBVIOUS
  <2> QED
    BY <1>3, <2>1 DEF ThreadInv, Shape, Holding, Noting, Distinct, InDir
<1>4. CASE loc'[t].st = "unlock" /\ loc'[t].held = k /\ loc'[t].want = loc[t].want /\ loc'[t].o = loc[t].o
  <2>1. Shape(t)' /\ Noting(t)' /\ InDir(t)'
    BY <1>4 DEF Shape, Noting, InDir
  <2>2. Distinct(t)'
    <3>1. /\ \A i, j \in 1 .. Len(h) : h[i].n = h[j].n => i = j
          /\ \A i, j \in 1 .. Len(loc[t].want) : loc[t].want[i].n = loc[t].want[j].n => i = j
          /\ \A i \in 1 .. Len(h), j \in 1 .. Len(loc[t].want) : h[i].n # loc[t].want[j].n
      BY <1>1 DEF ThreadInv, Distinct
    <3>2. ASSUME NEW i \in 1 .. Len(k), NEW j \in 1 .. Len(k), k[i].n = k[j].n PROVE i = j
      <4>1. i + 1 = j + 1
        BY <1>2, <3>1, <3>2
      <4> QED
        BY <4>1
    <3>3. \A i \in 1 .. Len(k), j \in 1 .. Len(loc[t].want) : k[i].n # loc[t].want[j].n
      BY <1>2, <3>1
    <3>4. loc'[t].held = k /\ loc'[t].want = loc[t].want
      BY <1>4
    <3> QED
      BY <3>1, <3>2, <3>3, <3>4 DEF Distinct
  <2>3. Holding(t)'
    <3> SUFFICES ASSUME NEW i \in 1 .. Len(k) PROVE Has(t, k[i])' /\ lcktype'[k[i].n] = k[i].type
      BY <1>4 DEF Holding, Has
    <3>1. k[i] = h[i + 1] /\ i + 1 \in 1 .. Len(h) /\ i + 1 # 1 /\ k[i] \in LockRec /\ 1 \in 1 .. Len(h)
      BY <1>2
    <3>2. Has(t, k[i]) /\ lcktype[k[i].n] = k[i].type
      BY <1>1, <3>1 DEF ThreadInv, Holding
    <3>3. k[i].n # h[1].n
      BY <1>1, <3>1 DEF ThreadInv, Distinct
    <3> QED
      BY <3>1, <3>2, <3>3
  <2> QED
    BY <2>1, <2>2, <2>3 DEF ThreadInv
<1> QED
  BY <1>3, <1>4, UnlockedFacts

LEMMA NunlockStep == ASSUME NEW t \in Threads, IInv, Nunlock(t) PROVE IInv'
<1> PICK l : l = loc[t].held[1]
  OBVIOUS
<1>0. Null \notin Threads
  BY DEF FilesAssumption
<1>1. /\ loc[t].st = "unlock" /\ loc[t].held # <<>> /\ ThreadInv(t) /\ loc[t] \in LocType
      /\ loc[t].held \in Seq(LockRec)
  BY DEF Nunlock, IInv, LockType, LocType
<1>2. Head(loc[t].held) = l /\ l \in LockRec /\ l.n \in Node /\ Len(loc[t].held) \in Nat \ {0}
  BY <1>1, TailFacts DEF LockRec
<1>3. Has(t, l) /\ lcktype[l.n] = l.type
  BY <1>1, <1>2 DEF ThreadInv, Holding
<1>4. UNCHANGED <<ex, nfid>>
  BY DEF Nunlock, server
<1>5. CASE l.type = "shared"
  <2>1. sh' = [sh EXCEPT ![l.n] = @ \ {t}] /\ Unlocked(t) /\ lcktype' = lcktype
    BY <1>2, <1>3, <1>5 DEF Nunlock
  <2>2. loc' \in [Threads -> LocType] /\ \A u \in Threads \ {t} : loc'[u] = loc[u]
    BY <1>1, <2>1, UnlockedFacts
  <2>3. LockType' /\ Excl'
    BY <1>2, <1>4, <2>1, <2>2 DEF IInv, LockType, Excl
  <2>4. ASSUME NEW u \in Threads, u # t PROVE ThreadInv(u)'
    <3>1. \A k \in LockRec : Has(u, k) => Has(u, k)'
      BY <1>4, <2>1, <2>4 DEF Has, IInv, LockType, LockRec
    <3> QED
      BY <2>1, <2>2, <2>4, <3>1, OtherKeeps DEF IInv, LockType
  <2>5. \A k \in LockRec : k.n # l.n /\ Has(t, k) => Has(t, k)'
    BY <1>2, <1>4, <2>1 DEF Has, IInv, LockType, LockRec
  <2>6. ThreadInv(t)'
    BY <1>1, <2>1, <2>5, RestKeeps
  <2> QED
    BY <2>3, <2>4, <2>6 DEF IInv
<1>6. CASE l.type = "exclusive"
  <2>1. lcktype' = [lcktype EXCEPT ![l.n] = "none"] /\ loc' = [loc EXCEPT ![t].st = "drop"] /\ sh' = sh
    BY <1>2, <1>3, <1>6 DEF Nunlock, Goto
  <2>2. ex[l.n] = t
    BY <1>3, <1>6 DEF Has
  <2>3. /\ loc' \in [Threads -> LocType] /\ \A u \in Threads \ {t} : loc'[u] = loc[u]
        /\ loc'[t].st = "drop" /\ loc'[t].held = loc[t].held /\ loc'[t].want = loc[t].want
        /\ loc'[t].o = loc[t].o
    BY <1>1, <2>1 DEF IInv, LockType, LocType, States
  <2>4. LockType' /\ Excl'
    BY <1>2, <1>4, <2>1, <2>3 DEF IInv, LockType, Excl
  <2>5. ASSUME NEW u \in Threads, u # t PROVE ThreadInv(u)'
    <3>1. ASSUME NEW k \in LockRec, Has(u, k) PROVE Has(u, k)' /\ lcktype'[k.n] = lcktype[k.n]
      <4>1. k.n # l.n
        BY <1>0, <1>2, <2>2, <2>5, <3>1 DEF Has, IInv, LockType, Excl, LockRec
      <4> QED
        BY <1>4, <2>1, <3>1, <4>1 DEF Has, IInv, LockType, LockRec
    <3> QED
      BY <2>3, <2>5, <3>1, OtherKeeps DEF IInv, LockType
  <2>6. Shape(t)' /\ Noting(t)' /\ Distinct(t)' /\ InDir(t)'
    <3>1. Shape(t)' /\ Noting(t)' /\ InDir(t)'
      BY <1>1, <2>3 DEF Shape, Noting, InDir
    <3>2. Distinct(t)
      BY <1>1 DEF ThreadInv
    <3>3. Distinct(t)'
      BY <2>3, <3>2 DEF Distinct
    <3> QED
      BY <3>1, <3>3
  <2>7. Holding(t)'
    <3> SUFFICES ASSUME NEW i \in 1 .. Len(loc[t].held)
                 PROVE  IF i = 1 THEN ex'[loc[t].held[1].n] = t
                        ELSE Has(t, loc[t].held[i])' /\ lcktype'[loc[t].held[i].n] = loc[t].held[i].type
      BY <2>3 DEF Holding, Has
    <3> PICK k : k = loc[t].held[i]
      OBVIOUS
    <3>1. k \in LockRec
      BY <1>1
    <3>2. CASE i = 1
      BY <1>4, <2>2, <3>2
    <3>3. CASE i # 1
      <4>1. Has(t, k) /\ lcktype[k.n] = k.type
        BY <1>1, <3>3 DEF ThreadInv, Holding
      <4>2. k.n # l.n
        BY <1>1, <1>2, <3>3 DEF ThreadInv, Distinct
      <4>3. Has(t, k)' /\ lcktype'[k.n] = k.type
        BY <1>4, <2>1, <3>1, <4>1, <4>2 DEF Has, IInv, LockType, LockRec
      <4> QED
        BY <2>3, <3>3, <4>3 DEF Has
    <3> QED
      BY <3>2, <3>3
  <2> QED
    BY <2>4, <2>5, <2>6, <2>7 DEF IInv, ThreadInv
<1> QED
  BY <1>2, <1>5, <1>6 DEF LockRec

LEMMA NunlockDropStep == ASSUME NEW t \in Threads, IInv, NunlockDrop(t) PROVE IInv'
<1> PICK l : l = loc[t].held[1]
  OBVIOUS
<1>0. Null \notin Threads
  BY DEF FilesAssumption
<1>1. /\ loc[t].st = "drop" /\ loc[t].held # <<>> /\ ThreadInv(t) /\ loc[t] \in LocType
      /\ loc[t].held \in Seq(LockRec)
  BY DEF NunlockDrop, IInv, LockType, LocType, ThreadInv, Shape
<1>2. Head(loc[t].held) = l /\ l \in LockRec /\ l.n \in Node /\ Len(loc[t].held) \in Nat \ {0}
  BY <1>1, TailFacts DEF LockRec
<1>3. ex[l.n] = t
  BY <1>1, <1>2 DEF ThreadInv, Holding
<1>4. ex' = [ex EXCEPT ![l.n] = Null] /\ Unlocked(t) /\ UNCHANGED <<sh, lcktype, nfid>>
  BY <1>2 DEF NunlockDrop, server
<1>5. loc' \in [Threads -> LocType] /\ \A u \in Threads \ {t} : loc'[u] = loc[u]
  BY <1>1, <1>4, UnlockedFacts
<1>6. LockType' /\ Excl'
  BY <1>2, <1>4, <1>5 DEF IInv, LockType, Excl
<1>7. ASSUME NEW u \in Threads, u # t PROVE ThreadInv(u)'
  <2>1. \A k \in LockRec : Has(u, k) => Has(u, k)'
    BY <1>2, <1>3, <1>4, <1>7 DEF Has, IInv, LockType, LockRec
  <2> QED
    BY <1>4, <1>5, <1>7, <2>1, OtherKeeps DEF IInv, LockType
<1>8. \A k \in LockRec : k.n # l.n /\ Has(t, k) => Has(t, k)'
  BY <1>2, <1>4 DEF Has, IInv, LockType, LockRec
<1>9. ThreadInv(t)'
  BY <1>1, <1>4, <1>8, RestKeeps
<1> QED
  BY <1>6, <1>7, <1>9 DEF IInv

(* A thread that starts or ends holds nothing.                             *)
LEMMA FreshStep ==
  ASSUME NEW t \in Threads, IInv, NEW r \in LocType, loc' = [loc EXCEPT ![t] = r],
         UNCHANGED locks, nfid' \in Nat, r.held = <<>>, r.st \in {"idle", "lock", "body"},
         r.st = "lock" => r.want # <<>>,
         \A i, j \in 1 .. Len(r.want) : r.want[i].n = r.want[j].n => i = j,
         r.o.op = "create" => \A i \in 1 .. Len(r.want) : r.want[i].n = "dir"
  PROVE  IInv'
<1>1. loc' \in [Threads -> LocType] /\ loc'[t] = r /\ \A u \in Threads \ {t} : loc'[u] = loc[u]
  BY DEF IInv, LockType
<1>2. LockType' /\ Excl'
  BY <1>1 DEF IInv, LockType, Excl, locks
<1>3. ASSUME NEW u \in Threads, u # t PROVE ThreadInv(u)'
  BY <1>1, <1>3, OtherKeeps DEF IInv, LockType, Has, locks
<1>4. ThreadInv(t)'
  <2>1. Len(r.held) = 0
    OBVIOUS
  <2>2. Shape(t)' /\ Noting(t)' /\ Holding(t)'
    BY <1>1, <2>1 DEF Shape, Noting, Holding
  <2>3. Distinct(t)'
    BY <1>1, <2>1 DEF Distinct
  <2>4. InDir(t)'
    BY <1>1, <2>1 DEF InDir
  <2> QED
    BY <2>2, <2>3, <2>4 DEF ThreadInv
<1> QED
  BY <1>2, <1>3, <1>4 DEF IInv

LEMMA ReturnStep == ASSUME NEW t \in Threads, IInv, Return(t) PROVE IInv'
<1>1. Idle \in LocType /\ Idle.st = "idle" /\ Idle.held = <<>> /\ Idle.want = <<>> /\ Len(Idle.want) = 0
  BY DEF Idle, LocType, States, AnyOp, NOFID
<1>2. loc' = [loc EXCEPT ![t] = Idle] /\ UNCHANGED <<locks, nfid>>
  BY DEF Return, server
<1>3. nfid' \in Nat
  BY <1>2 DEF IInv, LockType
<1>4. /\ \A i, j \in 1 .. Len(Idle.want) : Idle.want[i].n = Idle.want[j].n => i = j
      /\ \A i \in 1 .. Len(Idle.want) : Idle.want[i].n = "dir"
  BY <1>1
<1> PICK r : r = Idle
  OBVIOUS
<1>5. /\ r \in LocType /\ loc' = [loc EXCEPT ![t] = r] /\ r.held = <<>> /\ r.st \in {"idle", "lock", "body"}
      /\ r.st = "lock" => r.want # <<>>
      /\ \A i, j \in 1 .. Len(r.want) : r.want[i].n = r.want[j].n => i = j
      /\ r.o.op = "create" => \A i \in 1 .. Len(r.want) : r.want[i].n = "dir"
  BY <1>1, <1>2, <1>4
<1> QED
  BY <1>2, <1>3, <1>5, FreshStep

LEMMA BeginStep == ASSUME NEW t \in Threads, IInv, Begin(t) PROVE IInv'
<1>1. PICK o \in Operations :
          loc' = [loc EXCEPT ![t] = [Idle EXCEPT !.o = o, !.want = Locks(o),
                                                 !.st = IF Locks(o) = <<>> THEN "body" ELSE "lock"]]
  BY DEF Begin
<1> PICK r : r = [Idle EXCEPT !.o = o, !.want = Locks(o),
                              !.st = IF Locks(o) = <<>> THEN "body" ELSE "lock"]
  OBVIOUS
<1>2. Idle \in LocType /\ Idle.held = <<>>
  BY DEF Idle, LocType, States, AnyOp, NOFID
<1>3. /\ r \in LocType /\ r.held = <<>> /\ r.want = Locks(o) /\ r.o = o
      /\ r.st = IF Locks(o) = <<>> THEN "body" ELSE "lock"
  BY <1>2, LocksFacts DEF LocType, States, AnyOp
<1>4. UNCHANGED locks /\ nfid' \in Nat
  BY DEF Begin, server, IInv, LockType
<1>5. /\ loc' = [loc EXCEPT ![t] = r] /\ r.st \in {"idle", "lock", "body"}
      /\ r.st = "lock" => r.want # <<>>
  BY <1>1, <1>3
<1>6. /\ \A i, j \in 1 .. Len(r.want) : r.want[i].n = r.want[j].n => i = j
      /\ r.o.op = "create" => \A i \in 1 .. Len(r.want) : r.want[i].n = "dir"
  BY <1>3, LocksFacts
<1> QED
  BY <1>3, <1>4, <1>5, <1>6, FreshStep

LEMMA CreateNodeStep == ASSUME NEW t \in Threads, IInv, CreateNode(t) PROVE IInv'
<1> PICK l, g, h, w : /\ l = Lock("file", "exclusive") /\ g = loc[t].held /\ h = <<l>> \o g
                      /\ w = loc[t].want
  OBVIOUS
<1>0. Null \notin Threads
  BY DEF FilesAssumption
<1>1. /\ loc[t].st = "nget" /\ loc[t].o.op = "create" /\ ThreadInv(t) /\ loc[t] \in LocType
      /\ g \in Seq(LockRec) /\ l \in LockRec /\ l.n = "file" /\ l.type = "exclusive" /\ "file" \in Node
  BY DEF CreateNode, Creating, IInv, LockType, LocType, Lock, LockRec, Node
<1>2. /\ h \in Seq(LockRec) /\ Len(h) = Len(g) + 1 /\ h[1] = l /\ Len(g) \in Nat
      /\ \A i \in 1 .. Len(g) : h[i + 1] = g[i]
  BY <1>1, PushFacts
<1>3. /\ ex["file"] = Null /\ sh["file"] = {} /\ ex' = [ex EXCEPT !["file"] = t]
      /\ lcktype' = [lcktype EXCEPT !["file"] = "exclusive"] /\ UNCHANGED <<sh, nfid>>
      /\ loc' = [loc EXCEPT ![t].st = "unlock", ![t].fid = NOFID, ![t].open = NOFID, ![t].held = h]
  BY DEF CreateNode, server, IInv, LockType
<1>4. /\ loc' \in [Threads -> LocType] /\ \A u \in Threads \ {t} : loc'[u] = loc[u]
      /\ loc'[t].st = "unlock" /\ loc'[t].held = h /\ loc'[t].want = w /\ loc'[t].o = loc[t].o
  BY <1>1, <1>2, <1>3 DEF IInv, LockType, LocType, States, NOFID
<1>5. LockType' /\ Excl'
  BY <1>1, <1>3, <1>4 DEF IInv, LockType, Excl
<1>6. ASSUME NEW u \in Threads, NEW k \in LockRec, Has(u, k)
      PROVE  k.n # "file" /\ Has(u, k)' /\ lcktype'[k.n] = lcktype[k.n]
  <2>1. k.n # "file"
    BY <1>0, <1>3, <1>6 DEF Has
  <2> QED
    BY <1>3, <1>6, <2>1 DEF Has, IInv, LockType, LockRec
<1>7. ASSUME NEW u \in Threads, u # t PROVE ThreadInv(u)'
  BY <1>4, <1>6, <1>7, OtherKeeps DEF IInv, LockType
<1>8. /\ \A i \in 1 .. Len(g) : g[i].n = "dir" /\ g[i] \in LockRec
      /\ \A i \in 1 .. Len(w) : w[i].n = "dir"
      /\ \A i, j \in 1 .. Len(g) : g[i].n = g[j].n => i = j
      /\ \A i, j \in 1 .. Len(w) : w[i].n = w[j].n => i = j
      /\ \A i \in 1 .. Len(g), j \in 1 .. Len(w) : g[i].n # w[j].n
      /\ \A i \in 1 .. Len(g) : Has(t, g[i]) /\ lcktype[g[i].n] = g[i].type
  BY <1>1 DEF ThreadInv, InDir, Distinct, Holding
<1>9. \A i \in 1 .. Len(h) : i = 1 \/ (i - 1 \in 1 .. Len(g) /\ h[i] = g[i - 1])
  <2> SUFFICES ASSUME NEW i \in 1 .. Len(h), i # 1 PROVE i - 1 \in 1 .. Len(g) /\ h[i] = g[i - 1]
    OBVIOUS
  <2>1. i - 1 \in 1 .. Len(g) /\ i = (i - 1) + 1
    BY <1>2
  <2> QED
    BY <1>2, <2>1
<1>10. Shape(t)' /\ Noting(t)' /\ InDir(t)'
  BY <1>4 DEF Shape, Noting, InDir
<1>11. Holding(t)'
  <2> SUFFICES ASSUME NEW i \in 1 .. Len(h) PROVE Has(t, h[i])' /\ lcktype'[h[i].n] = h[i].type
    BY <1>4 DEF Holding, Has
  <2>1. CASE i = 1
    BY <1>1, <1>2, <1>3, <2>1 DEF Has, IInv, LockType
  <2>2. CASE i # 1
    <3>1. h[i] \in LockRec /\ Has(t, h[i]) /\ lcktype[h[i].n] = h[i].type
      BY <1>8, <1>9, <2>2
    <3> QED
      BY <1>6, <3>1
  <2> QED
    BY <2>1, <2>2
<1>12. Distinct(t)'
  <2>1. ASSUME NEW i \in 1 .. Len(h), NEW j \in 1 .. Len(h), h[i].n = h[j].n PROVE i = j
    <3>0. \A m \in 1 .. Len(h) : m # 1 => h[m].n = "dir"
      BY <1>8, <1>9
    <3>1. CASE i = 1 /\ j # 1
      <4> h[1].n = "file" /\ h[j].n = "dir"
        BY <1>1, <1>2, <3>0, <3>1
      <4> QED
        BY <2>1, <3>1
    <3>2. CASE i # 1 /\ j = 1
      <4> h[1].n = "file" /\ h[i].n = "dir"
        BY <1>1, <1>2, <3>0, <3>2
      <4> QED
        BY <2>1, <3>2
    <3>3. CASE i # 1 /\ j # 1
      <4>1. i - 1 \in 1 .. Len(g) /\ h[i] = g[i - 1] /\ j - 1 \in 1 .. Len(g) /\ h[j] = g[j - 1]
        BY <1>9, <3>3
      <4>2. i - 1 = j - 1
        BY <1>8, <2>1, <4>1
      <4> QED
        BY <1>2, <4>2
    <3> QED
      BY <3>1, <3>2, <3>3
  <2>2. ASSUME NEW i \in 1 .. Len(h), NEW j \in 1 .. Len(w) PROVE h[i].n # w[j].n
    <3>1. CASE i = 1
      BY <1>1, <1>2, <1>8, <3>1
    <3>2. CASE i # 1
      <4>1. i - 1 \in 1 .. Len(g) /\ h[i] = g[i - 1]
        BY <1>9, <3>2
      <4> QED
        BY <1>8, <4>1
    <3> QED
      BY <3>1, <3>2
  <2>3. loc'[t].held = h /\ loc'[t].want = w
    BY <1>4
  <2>4. \A i, j \in 1 .. Len(w) : w[i].n = w[j].n => i = j
    BY <1>8
  <2> QED
    BY <2>1, <2>2, <2>3, <2>4 DEF Distinct
<1> QED
  BY <1>5, <1>7, <1>10, <1>11, <1>12 DEF IInv, ThreadInv

-----------------------------------------------------------------------------
(* The other steps                                                         *)

LEMMA RestQuiet ==
  ASSUME NEW t \in Threads, IInv, NEW r \in LocType, loc' = [loc EXCEPT ![t] = r],
         UNCHANGED locks, nfid' \in Nat, loc[t].st \in Busy, r.st \in Busy \cup {"unlock"},
         r.o = loc[t].o, r.want = loc[t].want, r.held = loc[t].held
  PROVE  Quiet(t)
<1>1. loc' \in [Threads -> LocType] /\ loc'[t] = r /\ \A u \in Threads \ {t} : loc'[u] = loc[u]
  BY DEF IInv, LockType
<1> QED
  BY <1>1 DEF Quiet

LEMMA GotoQuiet ==
  ASSUME NEW t \in Threads, IInv, NEW s \in Busy \cup {"unlock"}, Goto(t, s),
         UNCHANGED locks, nfid' \in Nat, loc[t].st \in Busy
  PROVE  Quiet(t)
<1> PICK r : r = [loc[t] EXCEPT !.st = s]
  OBVIOUS
<1>0. loc[t] \in LocType /\ s \in States
  BY DEF IInv, LockType, Busy, States
<1>1. /\ r \in LocType /\ r.st = s /\ r.o = loc[t].o /\ r.want = loc[t].want
      /\ r.held = loc[t].held
  BY <1>0 DEF LocType
<1>2. loc' = [loc EXCEPT ![t] = r]
  BY DEF Goto
<1> QED
  BY <1>1, <1>2, RestQuiet

LEMMA FidQuiet ==
  ASSUME NEW t \in Threads, IInv, NEW s \in Busy \cup {"unlock"}, NEW f \in Nat,
         loc' = [loc EXCEPT ![t].st = s, ![t].fid = f],
         UNCHANGED locks, nfid' \in Nat, loc[t].st \in Busy
  PROVE  Quiet(t)
<1> PICK r : r = [loc[t] EXCEPT !.st = s, !.fid = f]
  OBVIOUS
<1>0. loc[t] \in LocType /\ s \in States
  BY DEF IInv, LockType, Busy, States
<1>1. /\ r \in LocType /\ r.st = s /\ r.o = loc[t].o /\ r.want = loc[t].want
      /\ r.held = loc[t].held
  BY <1>0 DEF LocType
<1>2. loc' = [loc EXCEPT ![t] = r]
  OBVIOUS
<1> QED
  BY <1>1, <1>2, RestQuiet

LEMMA OpenQuiet ==
  ASSUME NEW t \in Threads, IInv, NEW s \in Busy \cup {"unlock"}, NEW f \in Nat,
         loc' = [loc EXCEPT ![t].st = s, ![t].open = f],
         UNCHANGED locks, nfid' \in Nat, loc[t].st \in Busy
  PROVE  Quiet(t)
<1> PICK r : r = [loc[t] EXCEPT !.st = s, !.open = f]
  OBVIOUS
<1>0. loc[t] \in LocType /\ s \in States
  BY DEF IInv, LockType, Busy, States
<1>1. /\ r \in LocType /\ r.st = s /\ r.o = loc[t].o /\ r.want = loc[t].want
      /\ r.held = loc[t].held
  BY <1>0 DEF LocType
<1>2. loc' = [loc EXCEPT ![t] = r]
  OBVIOUS
<1> QED
  BY <1>1, <1>2, RestQuiet

LEMMA PickQuiet ==
  ASSUME NEW t \in Threads, IInv, NEW s \in Busy \cup {"unlock"}, NEW m \in Mode \cup {"no"},
         loc' = [loc EXCEPT ![t].st = s, ![t].pick = m],
         UNCHANGED locks, nfid' \in Nat, loc[t].st \in Busy
  PROVE  Quiet(t)
<1> PICK r : r = [loc[t] EXCEPT !.st = s, !.pick = m]
  OBVIOUS
<1>0. loc[t] \in LocType /\ s \in States
  BY DEF IInv, LockType, Busy, States
<1>1. /\ r \in LocType /\ r.st = s /\ r.o = loc[t].o /\ r.want = loc[t].want
      /\ r.held = loc[t].held
  BY <1>0 DEF LocType
<1>2. loc' = [loc EXCEPT ![t] = r]
  OBVIOUS
<1> QED
  BY <1>1, <1>2, RestQuiet

LEMMA BusyStates ==
  {"body", "failed", "open", "push", "clunk", "reset", "pick", "io", "EBADF", "wstat", "create",
   "walk", "nget", "clunkopen", "clunkfid"} \subseteq Busy
  BY DEF Busy, States

LEMMA Naturals0 == IInv => nfid \in Nat /\ nfid + 1 \in Nat /\ NOFID \in Nat
  BY DEF IInv, LockType, NOFID

LEMMA OpensQuiet == ASSUME NEW t \in Threads, IInv, Opens(t) PROVE Quiet(t)
<1> USE BusyStates, Naturals0 DEF Opening, server
<1>1. CASE OpenShared(t)
  BY <1>1, FidQuiet DEF OpenShared, OpenRef
<1>2. CASE OpenWalk(t)
  BY <1>2, FidQuiet DEF OpenWalk, WalkTo
<1>3. CASE OpenWalkFails(t)
  <2>1. PICK f \in {NOFID} \cup {g \in Fids : srv[g] # Free} : loc' = [loc EXCEPT ![t].st = "failed", ![t].fid = f]
    BY <1>3 DEF OpenWalkFails
  <2>2. f \in Nat
    BY DEF Fids, NOFID
  <2> QED
    BY <1>3, <2>1, <2>2, FidQuiet DEF OpenWalkFails
<1>4. CASE OpenOpen(t)
  BY <1>4, FidQuiet DEF OpenOpen, OpenRef
<1>5. CASE OpenOpenFails(t)
  BY <1>5, GotoQuiet DEF OpenOpenFails
<1>6. CASE OpenError(t)
  BY <1>6, FidQuiet DEF OpenError
<1> QED
  BY <1>1, <1>2, <1>3, <1>4, <1>5, <1>6 DEF Opens

LEMMA ClosesQuiet == ASSUME NEW t \in Threads, IInv, Closes(t) PROVE Quiet(t)
<1> USE BusyStates, Naturals0 DEF Closing, server
<1>1. CASE CloseDecrement(t)
  BY <1>1, GotoQuiet DEF CloseDecrement
<1>2. CASE CloseClunk(t)
  BY <1>2, GotoQuiet DEF CloseClunk
<1>3. CASE CloseReset(t)
  BY <1>3, GotoQuiet DEF CloseReset
<1> QED
  BY <1>1, <1>2, <1>3 DEF Closes

LEMMA TransferringQuiet == ASSUME NEW t \in Threads, IInv, Transferring(t) PROVE Quiet(t)
<1> USE BusyStates, Naturals0 DEF Doing, server
<1>1. CASE ReadCached(t)
  BY <1>1, GotoQuiet DEF ReadCached
<1>2. CASE ReadUncached(t)
  BY <1>2, GotoQuiet DEF ReadUncached
<1>3. CASE WriteCached(t)
  BY <1>3, GotoQuiet DEF WriteCached
<1>4. CASE WriteFillFails(t)
  BY <1>4, GotoQuiet DEF WriteFillFails
<1>5. CASE Push(t)
  BY <1>5, GotoQuiet DEF Push
<1>6. ASSUME NEW m \in Mode, Pick(t, m), loc[t].st \in {"pick", "body"} PROVE Quiet(t)
  BY <1>6, GotoQuiet, PickQuiet DEF Pick
<1>7. \A n, op : SlotFor(n, op) \in Mode
  BY DEF SlotFor, Mode
<1>8. "OREAD" \in Mode
  BY DEF Mode
<1>9. CASE Nread(t)
  BY <1>6, <1>7, <1>9 DEF Nread
<1>10. CASE Nwrite(t)
  BY <1>6, <1>7, <1>10 DEF Nwrite
<1>11. CASE Readdir(t)
  BY <1>6, <1>8, <1>11 DEF Readdir
<1>12. CASE Strategy(t)
  BY <1>6, <1>7, <1>12 DEF Strategy
<1>13. CASE TransferEnds(t)
  BY <1>13, PickQuiet DEF TransferEnds
<1>14. CASE TransferEBADF(t)
  BY <1>14, GotoQuiet DEF TransferEBADF
<1> QED
  BY <1>1, <1>2, <1>3, <1>4, <1>5, <1>9, <1>10, <1>11, <1>12, <1>13, <1>14 DEF Transferring

LEMMA AttributesQuiet == ASSUME NEW t \in Threads, IInv, Attributes(t) PROVE Quiet(t)
<1> USE BusyStates, Naturals0 DEF Doing, server
<1>1. CASE Getattr(t) \/ Setattr(t) \/ Rename(t)
  BY <1>1, GotoQuiet DEF Getattr, Setattr, Rename, Ends
<1>2. CASE FsyncPush(t)
  BY <1>2, GotoQuiet DEF FsyncPush
<1>3. CASE FsyncWstat(t)
  BY <1>3, GotoQuiet DEF FsyncWstat, Ends
<1> QED
  BY <1>1, <1>2, <1>3 DEF Attributes

LEMMA RemovesQuiet == ASSUME NEW t \in Threads, IInv, Remove(t) \/ RemoveRefused(t) PROVE Quiet(t)
<1>1. loc[t].st = "body" /\ UNCHANGED locks /\ Goto(t, "unlock") /\ UNCHANGED nfid
  BY DEF Remove, RemoveRefused, Removed, Doing
<1> QED
  BY <1>1, BusyStates, Naturals0, GotoQuiet

LEMMA CreatesQuiet == ASSUME NEW t \in Threads, IInv, Creates(t), ~CreateNode(t) PROVE Quiet(t)
<1> USE BusyStates, Naturals0 DEF Creating, server
<1>1. CASE CreateClone(t)
  BY <1>1, OpenQuiet DEF CreateClone, WalkTo
<1>2. CASE CreateCloneFails(t)
  BY <1>2, GotoQuiet DEF CreateCloneFails
<1>3. CASE CreateFile(t)
  BY <1>3, GotoQuiet DEF CreateFile
<1>4. CASE CreateRefused(t)
  BY <1>4, GotoQuiet DEF CreateRefused
<1>5. CASE CreateWalk(t)
  BY <1>5, FidQuiet DEF CreateWalk, WalkTo
<1>6. CASE CreateWalkFails(t)
  BY <1>6, GotoQuiet DEF CreateWalkFails
<1>7. CASE CreateNodeFails(t)
  BY <1>7, GotoQuiet DEF CreateNodeFails
<1>8. CASE CreateClunkOpen(t)
  BY <1>8, OpenQuiet DEF CreateClunkOpen
<1>9. CASE CreateClunkFid(t)
  BY <1>9, FidQuiet DEF CreateClunkFid
<1> QED
  BY <1>1, <1>2, <1>3, <1>4, <1>5, <1>6, <1>7, <1>8, <1>9 DEF Creates

LEMMA CreatesKeep == ASSUME NEW t \in Threads, IInv, Creates(t) PROVE IInv'
<1>1. CASE CreateNode(t)
  BY <1>1, CreateNodeStep
<1>2. CASE ~CreateNode(t)
  BY <1>2, CreatesQuiet, QuietKeeps
<1> QED
  BY <1>1, <1>2

-----------------------------------------------------------------------------
LEMMA InvInit == Init => IInv
<1> SUFFICES ASSUME Init PROVE IInv
  OBVIOUS
<1>1. Idle \in LocType /\ Idle.st = "idle" /\ Len(Idle.held) = 0 /\ Len(Idle.want) = 0
      /\ Idle.o.op = "none"
  BY DEF Idle, LocType, States, AnyOp, NOFID
<1>2. /\ sh = [n \in Node |-> {}] /\ ex = [n \in Node |-> Null] /\ lcktype = [n \in Node |-> "none"]
      /\ nfid = 6 /\ loc = [t \in Threads |-> Idle]
  BY DEF Init
<1>3. LockType /\ Excl
  BY <1>1, <1>2 DEF LockType, Excl
<1>4. ASSUME NEW t \in Threads PROVE ThreadInv(t)
  BY <1>1, <1>2 DEF ThreadInv, Shape, Holding, Noting, Distinct, InDir
<1> QED
  BY <1>3, <1>4 DEF IInv

LEMMA InvStep == IInv /\ [Next]_vars => IInv'
<1> SUFFICES ASSUME IInv, [Next]_vars PROVE IInv'
  OBVIOUS
<1>1. ASSUME NEW t \in Threads, Begin(t) PROVE IInv'
  BY <1>1, BeginStep
<1>2. ASSUME NEW t \in Threads, Lockings(t) PROVE IInv'
  BY <1>2, NlockTakeStep, NlockNoteStep, NunlockStep, NunlockDropStep, ReturnStep DEF Lockings
<1>3. ASSUME NEW t \in Threads,
             Opens(t) \/ Closes(t) \/ Transferring(t) \/ Attributes(t) \/ Remove(t) \/ RemoveRefused(t)
      PROVE  IInv'
  BY <1>3, QuietKeeps, OpensQuiet, ClosesQuiet, TransferringQuiet, AttributesQuiet, RemovesQuiet
<1>4. ASSUME NEW t \in Threads, Creates(t) PROVE IInv'
  BY <1>4, CreatesKeep
<1>5. CASE UNCHANGED vars
  BY <1>5 DEF vars, locks, server, IInv, LockType, Excl, ThreadInv, Shape, Holding, Noting, Distinct,
              InDir, Has
<1> QED
  BY <1>1, <1>2, <1>3, <1>4, <1>5 DEF Next, Step

LEMMA InvHolds == Spec => []IInv
  BY InvInit, InvStep, PTL DEF Spec

(* However many threads share and lock the nodes, nunlock_9p always finds  *)
(* in lcktype the mode its own caller locked the node in, though lcktype   *)
(* is written and read by all of them.                                     *)
THEOREM UnlockRightHolds == Spec => []UnlockRight
<1>1. IInv => UnlockRight
  <2> SUFFICES ASSUME IInv, NEW t \in Threads, loc[t].st = "unlock", loc[t].held # <<>>
               PROVE  LET l == Head(loc[t].held) IN
                      /\ lcktype[l.n] = l.type
                      /\ IF l.type = "shared" THEN t \in sh[l.n] ELSE ex[l.n] = t
    BY DEF UnlockRight
  <2>1. loc[t].held \in Seq(LockRec) /\ ThreadInv(t)
    BY DEF IInv, LockType, LocType
  <2>2. Head(loc[t].held) = loc[t].held[1] /\ 1 \in 1 .. Len(loc[t].held)
    BY <2>1, TailFacts
  <2> QED
    BY <2>1, <2>2 DEF ThreadInv, Holding, Has
<1> QED
  BY <1>1, InvHolds, PTL

-----------------------------------------------------------------------------
(***************************************************************************)
(* The open fids the nodes share: what their counts count, that they are   *)
(* there for who has the file open, and that no fid of the server is lost. *)
(* They stand on the invariant above, that every thread has the locks it   *)
(* thinks it has.                                                          *)
(***************************************************************************)

-----------------------------------------------------------------------------
(* What a thread has locked, and when it has a fid in a local variable.    *)

Guarded(t) ==
    /\ loc[t].o.op \in {"open", "close", "write", "readdir", "create"} => ex[loc[t].o.n] = t
    /\ loc[t].o.op = "read" => t \in sh[loc[t].o.n]

LockedInv(t) ==
    /\ loc[t].st = "idle" <=> loc[t].o.op = "none"
    /\ loc[t].st \in {"lock", "note"} /\ loc[t].o.op \notin {"remove", "rename"} =>
          loc[t].want = Locks(loc[t].o)
    /\ loc[t].st \in Busy => Guarded(t)
    /\ loc[t].st = "drop" => lcktype[loc[t].held[1].n] # "exclusive"

LocalInv(t) ==
    /\ loc[t].fid # NOFID =>
          \/ loc[t].o.op = "open" /\ loc[t].st \in {"open", "failed"}
          \/ loc[t].o.op = "create" /\ loc[t].st \in {"nget", "clunkopen", "clunkfid"}
    /\ loc[t].open # NOFID =>
          loc[t].o.op = "create" /\ loc[t].st \in {"create", "walk", "nget", "clunkopen"}
    /\ loc[t].o.op = "open" /\ loc[t].st = "open" => loc[t].fid # NOFID
    /\ loc[t].o.op = "create" /\ loc[t].st \in {"create", "walk", "nget"} => loc[t].open # NOFID
    /\ loc[t].o.op = "create" /\ loc[t].st = "nget" => loc[t].fid # NOFID

PlaceInv == nfid >= 6 /\ \A t \in Threads : LockedInv(t) /\ LocalInv(t)

-----------------------------------------------------------------------------
(* The fields an operation has.                                            *)
LEMMA OpFacts ==
  ASSUME NEW o \in AnyOp
  PROVE  /\ o.op # "none" => o \in Operations /\ o.n \in Node
         /\ o.op \in {"open", "close"} => o.m \in Mode
         /\ o.op = "read" => o.n = "file" /\ o.m \in {"OREAD", "ORDWR"}
         /\ o.op = "write" => o.n = "file" /\ o.m \in {"OWRITE", "ORDWR"}
         /\ o.op = "readdir" => o.n = "dir" /\ o.m = "OREAD"
         /\ o.op = "create" => o.n = "dir"
  BY DEF AnyOp, Operations, Node, Mode, Plain

LEMMA OneLock ==
  ASSUME NEW o \in Operations, o.op \notin {"pagein", "pageout", "remove", "rename"}
  PROVE  /\ Locks(o) = <<Lock(o.n, IF o.op = "read" THEN "shared" ELSE "exclusive")>>
         /\ Len(Locks(o)) = 1
         /\ Locks(o)[1] = [n |-> o.n, type |-> IF o.op = "read" THEN "shared" ELSE "exclusive"]
<1>1. Locks(o) = <<Lock(o.n, IF o.op = "read" THEN "shared" ELSE "exclusive")>>
  BY DEF Locks
<1> QED
  BY <1>1 DEF Lock

LEMMA IdleFacts ==
  /\ Idle \in LocType /\ Idle.st = "idle" /\ Idle.o.op = "none" /\ Idle.fid = NOFID /\ Idle.open = NOFID
  /\ Idle.held = <<>> /\ Idle.want = <<>>
  BY DEF Idle, LocType, States, AnyOp, NOFID

(* A thread that does not move keeps its locks, if nobody takes them.      *)
LEMMA OtherLocked ==
  ASSUME NEW u \in Threads, loc[u] \in LocType, ThreadInv(u), LockedInv(u), loc'[u] = loc[u],
         \A n \in Node : /\ ex[n] = u => ex'[n] = u
                         /\ u \in sh[n] => u \in sh'[n]
                         /\ ex[n] = u /\ lcktype[n] # "exclusive" => lcktype'[n] # "exclusive"
  PROVE  LockedInv(u)'
<1>1. loc[u].o \in AnyOp /\ loc[u].held \in Seq(LockRec)
  BY DEF LocType
<1>2. loc[u].st \in Busy => Guarded(u)'
  BY <1>1, OpFacts DEF LockedInv, Guarded
<1>3. loc[u].st = "drop" => lcktype'[loc[u].held[1].n] # "exclusive"
  <2> SUFFICES ASSUME loc[u].st = "drop" PROVE lcktype'[loc[u].held[1].n] # "exclusive"
    OBVIOUS
  <2>1. loc[u].held # <<>>
    BY DEF ThreadInv, Shape
  <2>2. loc[u].held[1] \in LockRec /\ Len(loc[u].held) \in Nat \ {0}
    BY <1>1, <2>1, TailFacts
  <2>3. ex[loc[u].held[1].n] = u
    BY <2>2 DEF ThreadInv, Holding
  <2>4. loc[u].held[1].n \in Node
    BY <2>2 DEF LockRec
  <2> QED
    BY <2>3, <2>4 DEF LockedInv
<1> QED
  BY <1>2, <1>3 DEF LockedInv

-----------------------------------------------------------------------------
(* The steps of nlock_9p and nunlock_9p                                    *)

data == <<fid, slot, server, name, dirty, opens, history, calls>>

Others(t) == \A u \in Threads \ {t} : loc'[u] = loc[u]

SameLocals(t) ==
    /\ loc'[t].o = loc[t].o /\ loc'[t].fid = loc[t].fid /\ loc'[t].open = loc[t].open

(* From one place around the body of an operation to another.              *)
Around(t) ==
    \/ loc[t].st \in {"unlock", "drop"} /\ loc'[t] = Idle
    \/ /\ SameLocals(t)
       /\ \/ loc[t].st \in {"lock", "note"} /\ loc'[t].st \in {"lock", "note", "body"}
          \/ loc[t].st \in {"unlock", "drop"} /\ loc'[t].st \in {"unlock", "drop"}

LEMMA UnlockedAround ==
  ASSUME NEW t \in Threads, IInv, loc[t].st \in {"unlock", "drop"}, Unlocked(t)
  PROVE  Others(t) /\ Around(t) /\ (loc'[t] = Idle \/ loc'[t].st = "unlock")
<1>1. loc[t] \in LocType
  BY DEF IInv, LockType
<1>2. CASE Len(loc[t].held) = 1
  <2>1. loc' = [loc EXCEPT ![t] = Idle]
    BY <1>2 DEF Unlocked
  <2> QED
    BY <2>1 DEF IInv, LockType, Around, Others
<1>3. CASE Len(loc[t].held) # 1
  <2>1. loc' = [loc EXCEPT ![t] = [loc[t] EXCEPT !.st = "unlock", !.held = Tail(loc[t].held)]]
    BY <1>3 DEF Unlocked
  <2>2. loc'[t] = [loc[t] EXCEPT !.st = "unlock", !.held = Tail(loc[t].held)] /\ Others(t)
    BY <2>1 DEF IInv, LockType, Others
  <2>3. loc'[t].st = "unlock" /\ SameLocals(t)
    BY <1>1, <2>2 DEF LocType, SameLocals
  <2> QED
    BY <2>2, <2>3 DEF Around
<1> QED
  BY <1>2, <1>3

LEMMA NlockTakeLocked ==
  ASSUME NEW t \in Threads, IInv, PlaceInv, NlockTake(t)
  PROVE  UNCHANGED data /\ Others(t) /\ Around(t) /\ \A u \in Threads : LockedInv(u)'
<1>0. Null \notin Threads
  BY DEF FilesAssumption
<1>1. /\ loc[t] \in LocType /\ loc[t].st = "lock" /\ loc[t].want # <<>> /\ ThreadInv(t)
      /\ loc[t].want \in Seq(LockRec)
  BY DEF IInv, LockType, LocType, NlockTake, ThreadInv, Shape
<1> PICK n : n = loc[t].want[1].n
  OBVIOUS
<1>2. Head(loc[t].want) = loc[t].want[1] /\ loc[t].want[1] \in LockRec /\ n \in Node
  BY <1>1, TailFacts DEF LockRec
<1>3. /\ ex[n] = Null /\ loc' = [loc EXCEPT ![t].st = "note"] /\ UNCHANGED lcktype
      /\ \/ sh' = [sh EXCEPT ![n] = @ \cup {t}] /\ ex' = ex
         \/ ex' = [ex EXCEPT ![n] = t] /\ sh' = sh
  BY <1>2 DEF NlockTake, Goto
<1>4. /\ Others(t) /\ loc'[t].st = "note" /\ SameLocals(t) /\ loc'[t].want = loc[t].want
  BY <1>1, <1>3 DEF IInv, LockType, LocType, Others, SameLocals
<1>5. ASSUME NEW u \in Threads, u # t PROVE LockedInv(u)'
  <2>1. \A k \in Node : /\ ex[k] = u => ex'[k] = u
                        /\ u \in sh[k] => u \in sh'[k]
    BY <1>0, <1>2, <1>3, <1>5 DEF IInv, LockType
  <2>2. loc'[u] = loc[u] /\ LockedInv(u) /\ loc[u] \in LocType /\ ThreadInv(u)
    BY <1>4, <1>5 DEF Others, PlaceInv, IInv, LockType
  <2> QED
    BY <1>3, <2>1, <2>2, OtherLocked
<1>6. LockedInv(t)'
  BY <1>1, <1>4 DEF LockedInv, PlaceInv, SameLocals, Busy
<1>7. UNCHANGED data /\ Around(t)
  BY <1>1, <1>4 DEF NlockTake, data, Around
<1> QED
  BY <1>4, <1>5, <1>6, <1>7

LEMMA NlockNoteLocked ==
  ASSUME NEW t \in Threads, IInv, PlaceInv, NlockNote(t)
  PROVE  UNCHANGED data /\ Others(t) /\ Around(t) /\ \A u \in Threads : LockedInv(u)'
<1>0. Null \notin Threads
  BY DEF FilesAssumption
<1>1. /\ loc[t] \in LocType /\ loc[t].st = "note" /\ loc[t].want # <<>> /\ ThreadInv(t)
      /\ loc[t].want \in Seq(LockRec) /\ LockedInv(t)
  BY DEF IInv, LockType, LocType, NlockNote, ThreadInv, Shape, PlaceInv
<1> PICK l, w, h : l = loc[t].want[1] /\ w = Tail(loc[t].want) /\ h = <<l>> \o loc[t].held
  OBVIOUS
<1>2. Head(loc[t].want) = l /\ l \in LockRec /\ l.n \in Node
  BY <1>1, TailFacts DEF LockRec
<1>3. /\ lcktype' = [lcktype EXCEPT ![l.n] = l.type] /\ UNCHANGED <<sh, ex>>
      /\ loc' = [loc EXCEPT ![t].st = IF Len(loc[t].want) = 1 THEN "body" ELSE "lock",
                            ![t].want = w, ![t].held = h]
  BY <1>2 DEF NlockNote, IInv, LockType
<1>4. /\ Others(t) /\ SameLocals(t)
      /\ loc'[t].st = IF Len(loc[t].want) = 1 THEN "body" ELSE "lock"
  BY <1>1, <1>3 DEF IInv, LockType, LocType, Others, SameLocals
<1>5. Has(t, l)
  BY <1>1 DEF ThreadInv, Noting
<1>6. ASSUME NEW u \in Threads, u # t PROVE LockedInv(u)'
  <2>1. \A k \in Node : ex[k] = u /\ lcktype[k] # "exclusive" => lcktype'[k] # "exclusive"
    BY <1>0, <1>2, <1>3, <1>5, <1>6 DEF IInv, LockType, Has, Excl, LockRec
  <2>2. loc'[u] = loc[u] /\ LockedInv(u) /\ loc[u] \in LocType /\ ThreadInv(u)
    BY <1>4, <1>6 DEF Others, PlaceInv, IInv, LockType
  <2> QED
    BY <1>3, <2>1, <2>2, OtherLocked
<1>7. LockedInv(t)'
  <2>1. loc[t].o \in Operations /\ (loc[t].o.op = "create" => loc[t].o.n \in Node)
    BY <1>1, OpFacts DEF LockedInv, LocType
  <2>2. CASE loc[t].o.op \in {"remove", "rename"}
    BY <1>1, <1>4, <2>2 DEF LockedInv, SameLocals, Guarded, Busy
  <2>3. CASE loc[t].o.op \in {"pagein", "pageout"}
    BY <1>1, <2>3 DEF LockedInv, Locks
  <2>4. CASE loc[t].o.op \notin {"remove", "rename", "pagein", "pageout"}
    <3>1. Len(loc[t].want) = 1 /\ l = [n |-> loc[t].o.n, type |-> IF loc[t].o.op = "read" THEN "shared" ELSE "exclusive"]
      BY <1>1, <2>1, <2>4, OneLock DEF LockedInv
    <3>2. Guarded(t)'
      BY <1>3, <1>4, <1>5, <3>1 DEF Guarded, Has, SameLocals
    <3> QED
      BY <1>1, <1>4, <3>1, <3>2 DEF LockedInv, SameLocals
  <2> QED
    BY <2>2, <2>3, <2>4
<1>8. UNCHANGED data /\ Around(t)
  BY <1>1, <1>4 DEF NlockNote, data, Around
<1> QED
  BY <1>4, <1>6, <1>7, <1>8

LEMMA NunlockLocked ==
  ASSUME NEW t \in Threads, IInv, PlaceInv, Nunlock(t)
  PROVE  UNCHANGED data /\ Others(t) /\ Around(t) /\ \A u \in Threads : LockedInv(u)'
<1>0. Null \notin Threads
  BY DEF FilesAssumption
<1>1. /\ loc[t] \in LocType /\ loc[t].st = "unlock" /\ loc[t].held # <<>> /\ ThreadInv(t)
      /\ loc[t].held \in Seq(LockRec) /\ LockedInv(t)
  BY DEF IInv, LockType, LocType, Nunlock, ThreadInv, PlaceInv
<1> PICK l : l = loc[t].held[1]
  OBVIOUS
<1>2. Head(loc[t].held) = l /\ l \in LockRec /\ l.n \in Node /\ Len(loc[t].held) \in Nat \ {0}
  BY <1>1, TailFacts DEF LockRec
<1>3. Has(t, l) /\ lcktype[l.n] = l.type
  BY <1>1, <1>2 DEF ThreadInv, Holding
<1>4. CASE l.type = "shared"
  <2>1. sh' = [sh EXCEPT ![l.n] = @ \ {t}] /\ Unlocked(t) /\ lcktype' = lcktype /\ ex' = ex
    BY <1>2, <1>3, <1>4 DEF Nunlock
  <2>2. Others(t) /\ Around(t) /\ (loc'[t] = Idle \/ loc'[t].st = "unlock")
    BY <1>1, <2>1, UnlockedAround
  <2>3. ASSUME NEW u \in Threads, u # t PROVE LockedInv(u)'
    <3>1. \A k \in Node : u \in sh[k] => u \in sh'[k]
      BY <1>2, <2>1, <2>3 DEF IInv, LockType
    <3>2. loc'[u] = loc[u] /\ LockedInv(u) /\ loc[u] \in LocType /\ ThreadInv(u)
      BY <2>2, <2>3 DEF Others, PlaceInv, IInv, LockType
    <3> QED
      BY <2>1, <3>1, <3>2, OtherLocked
  <2>4. LockedInv(t)'
    BY <1>1, <2>2, IdleFacts DEF LockedInv, Around, SameLocals, Busy
  <2> QED
    BY <2>2, <2>3, <2>4 DEF Nunlock, data
<1>5. CASE l.type = "exclusive"
  <2>1. lcktype' = [lcktype EXCEPT ![l.n] = "none"] /\ loc' = [loc EXCEPT ![t].st = "drop"]
        /\ sh' = sh /\ ex' = ex
    BY <1>2, <1>3, <1>5 DEF Nunlock, Goto
  <2>2. Others(t) /\ loc'[t].st = "drop" /\ SameLocals(t) /\ loc'[t].held = loc[t].held
    BY <1>1, <2>1 DEF IInv, LockType, LocType, Others, SameLocals
  <2>3. ASSUME NEW u \in Threads, u # t PROVE LockedInv(u)'
    <3>1. \A k \in Node : lcktype[k] # "exclusive" => lcktype'[k] # "exclusive"
      BY <1>2, <2>1 DEF IInv, LockType
    <3>2. loc'[u] = loc[u] /\ LockedInv(u) /\ loc[u] \in LocType /\ ThreadInv(u)
      BY <2>2, <2>3 DEF Others, PlaceInv, IInv, LockType
    <3> QED
      BY <2>1, <3>1, <3>2, OtherLocked
  <2>4. LockedInv(t)'
    <3>1. lcktype'[l.n] # "exclusive"
      BY <1>2, <2>1 DEF IInv, LockType
    <3> QED
      BY <1>1, <2>2, <3>1 DEF LockedInv, SameLocals, Busy
  <2>5. Around(t)
    BY <1>1, <2>2 DEF Around
  <2> QED
    BY <2>2, <2>3, <2>4, <2>5 DEF Nunlock, data
<1> QED
  BY <1>2, <1>4, <1>5 DEF LockRec

LEMMA NunlockDropLocked ==
  ASSUME NEW t \in Threads, IInv, PlaceInv, NunlockDrop(t)
  PROVE  UNCHANGED data /\ Others(t) /\ Around(t) /\ \A u \in Threads : LockedInv(u)'
<1>1. /\ loc[t] \in LocType /\ loc[t].st = "drop" /\ loc[t].held # <<>> /\ ThreadInv(t)
      /\ loc[t].held \in Seq(LockRec) /\ LockedInv(t)
  BY DEF IInv, LockType, LocType, NunlockDrop, ThreadInv, PlaceInv, Shape
<1> PICK l : l = loc[t].held[1]
  OBVIOUS
<1>2. Head(loc[t].held) = l /\ l \in LockRec /\ l.n \in Node /\ Len(loc[t].held) \in Nat \ {0}
  BY <1>1, TailFacts DEF LockRec
<1>3. ex[l.n] = t
  BY <1>1, <1>2 DEF ThreadInv, Holding
<1>4. ex' = [ex EXCEPT ![l.n] = Null] /\ Unlocked(t) /\ UNCHANGED <<sh, lcktype>>
  BY <1>2 DEF NunlockDrop
<1>5. Others(t) /\ Around(t) /\ (loc'[t] = Idle \/ loc'[t].st = "unlock")
  BY <1>1, <1>4, UnlockedAround
<1>6. ASSUME NEW u \in Threads, u # t PROVE LockedInv(u)'
  <2>1. \A k \in Node : ex[k] = u => ex'[k] = u
    BY <1>2, <1>3, <1>4, <1>6 DEF IInv, LockType
  <2>2. loc'[u] = loc[u] /\ LockedInv(u) /\ loc[u] \in LocType /\ ThreadInv(u)
    BY <1>5, <1>6 DEF Others, PlaceInv, IInv, LockType
  <2> QED
    BY <1>4, <2>1, <2>2, OtherLocked
<1>7. LockedInv(t)'
  BY <1>1, <1>5, IdleFacts DEF LockedInv, Around, SameLocals, Busy
<1> QED
  BY <1>5, <1>6, <1>7 DEF NunlockDrop, data

(* What leaves the locks as they are leaves the other threads theirs.      *)
LEMMA SameLocks ==
  ASSUME NEW t \in Threads, IInv, PlaceInv, UNCHANGED locks, Others(t)
  PROVE  \A u \in Threads \ {t} : LockedInv(u)'
<1> SUFFICES ASSUME NEW u \in Threads, u # t PROVE LockedInv(u)'
  OBVIOUS
<1>1. loc'[u] = loc[u] /\ LockedInv(u) /\ loc[u] \in LocType /\ ThreadInv(u)
  BY DEF Others, PlaceInv, IInv, LockType
<1>2. sh' = sh /\ ex' = ex /\ lcktype' = lcktype
  BY DEF locks
<1> QED
  BY <1>1, <1>2, OtherLocked

LEMMA ReturnLocked ==
  ASSUME NEW t \in Threads, IInv, PlaceInv, Return(t)
  PROVE  UNCHANGED data /\ Others(t) /\ Around(t) /\ \A u \in Threads : LockedInv(u)'
<1>1. Others(t) /\ loc'[t] = Idle /\ loc[t].st = "unlock" /\ UNCHANGED data /\ UNCHANGED locks
  BY DEF Return, IInv, LockType, Others, data
<1>2. LockedInv(t)'
  BY <1>1, IdleFacts DEF LockedInv, Busy
<1> QED
  BY <1>1, <1>2, SameLocks DEF Around

LEMMA LockingsLocked ==
  ASSUME NEW t \in Threads, IInv, PlaceInv, Lockings(t)
  PROVE  UNCHANGED data /\ Others(t) /\ Around(t) /\ \A u \in Threads : LockedInv(u)'
  BY NlockTakeLocked, NlockNoteLocked, NunlockLocked, NunlockDropLocked, ReturnLocked DEF Lockings

LEMMA AroundLocal ==
  ASSUME NEW t \in Threads, LocalInv(t), Around(t) PROVE LocalInv(t)'
<1>1. CASE loc'[t] = Idle
  BY <1>1, IdleFacts DEF LocalInv
<1>2. CASE SameLocals(t) /\ loc[t].st \in {"lock", "note", "unlock", "drop"}
           /\ loc'[t].st \in {"lock", "note", "body", "unlock", "drop"}
  BY <1>2 DEF SameLocals, LocalInv
<1> QED
  BY <1>1, <1>2 DEF Around

-----------------------------------------------------------------------------
(* The steps of an operation's body move one thread, by some of its fields. *)

LEMMA RecordFields ==
  ASSUME NEW t \in Threads, IInv, NEW r, loc' = [loc EXCEPT ![t] = r] PROVE Others(t) /\ loc'[t] = r
  BY DEF IInv, LockType, Others

LEMMA GotoFields ==
  ASSUME NEW t \in Threads, IInv, NEW s, Goto(t, s)
  PROVE  /\ Others(t) /\ SameLocals(t)
         /\ loc'[t].st = s /\ loc'[t].pick = loc[t].pick
<1>1. loc[t] \in LocType /\ Others(t) /\ loc'[t] = [loc[t] EXCEPT !.st = s]
  BY DEF IInv, LockType, Goto, Others
<1> QED
  BY <1>1 DEF LocType, SameLocals

SetsFid(t, s, f) ==
    /\ Others(t) /\ loc'[t].o = loc[t].o /\ loc'[t].open = loc[t].open /\ loc'[t].pick = loc[t].pick
    /\ loc'[t].st = s /\ loc'[t].fid = f

SetsOpen(t, s, f) ==
    /\ Others(t) /\ loc'[t].o = loc[t].o /\ loc'[t].fid = loc[t].fid /\ loc'[t].pick = loc[t].pick
    /\ loc'[t].st = s /\ loc'[t].open = f

LEMMA FidFields ==
  ASSUME NEW t \in Threads, IInv, NEW s \in Busy \cup {"unlock"}, NEW f \in Nat,
         loc' = [loc EXCEPT ![t].st = s, ![t].fid = f]
  PROVE  SetsFid(t, s, f)
<1>1. loc[t] \in LocType /\ Others(t) /\ loc'[t] = [loc[t] EXCEPT !.st = s, !.fid = f]
  BY DEF IInv, LockType, Others
<1> QED
  BY <1>1 DEF LocType, SetsFid

LEMMA OpenFields ==
  ASSUME NEW t \in Threads, IInv, NEW s \in Busy \cup {"unlock"}, NEW f \in Nat,
         loc' = [loc EXCEPT ![t].st = s, ![t].open = f]
  PROVE  SetsOpen(t, s, f)
<1>1. loc[t] \in LocType /\ Others(t) /\ loc'[t] = [loc[t] EXCEPT !.st = s, !.open = f]
  BY DEF IInv, LockType, Others
<1> QED
  BY <1>1 DEF LocType, SetsOpen

LEMMA PickFields ==
  ASSUME NEW t \in Threads, IInv, NEW s, NEW m, loc' = [loc EXCEPT ![t].st = s, ![t].pick = m]
  PROVE  Others(t) /\ SameLocals(t) /\ loc'[t].st = s /\ loc'[t].pick = m
<1>1. loc[t] \in LocType /\ Others(t) /\ loc'[t] = [loc[t] EXCEPT !.st = s, !.pick = m]
  BY DEF IInv, LockType, Others
<1> QED
  BY <1>1 DEF LocType, SameLocals

LEMMA NodeFields ==
  ASSUME NEW t \in Threads, IInv, CreateNode(t)
  PROVE  /\ Others(t) /\ loc'[t].o = loc[t].o /\ loc'[t].st = "unlock"
         /\ loc'[t].fid = NOFID /\ loc'[t].open = NOFID
<1> PICK h : h = <<Lock("file", "exclusive")>> \o loc[t].held
  OBVIOUS
<1>1. loc' = [loc EXCEPT ![t].st = "unlock", ![t].fid = NOFID, ![t].open = NOFID, ![t].held = h]
  BY DEF CreateNode, IInv, LockType
<1>2. /\ loc[t] \in LocType /\ Others(t)
      /\ loc'[t] = [loc[t] EXCEPT !.st = "unlock", !.fid = NOFID, !.open = NOFID, !.held = h]
  BY <1>1 DEF IInv, LockType, Others
<1> QED
  BY <1>2 DEF LocType

LEMMA BeginFields ==
  ASSUME NEW t \in Threads, IInv, PlaceInv, Begin(t)
  PROVE  /\ Others(t) /\ loc[t].st = "idle" /\ loc[t].o.op = "none"
         /\ \E o \in Operations :
               /\ May(o) /\ o.op # "none"
               /\ opens' = IF o.op = "close" THEN [opens EXCEPT ![o.n][o.m] = @ - 1] ELSE opens
               /\ loc'[t].o = o /\ loc'[t].want = Locks(o) /\ loc'[t].fid = NOFID /\ loc'[t].open = NOFID
               /\ loc'[t].st = IF Locks(o) = <<>> THEN "body" ELSE "lock"
<1>1. PICK o \in Operations :
          /\ May(o)
          /\ loc' = [loc EXCEPT ![t] = [Idle EXCEPT !.o = o, !.want = Locks(o),
                                                 !.st = IF Locks(o) = <<>> THEN "body" ELSE "lock"]]
          /\ opens' = IF o.op = "close" THEN [opens EXCEPT ![o.n][o.m] = @ - 1] ELSE opens
  BY DEF Begin
<1> PICK r : r = [Idle EXCEPT !.o = o, !.want = Locks(o),
                              !.st = IF Locks(o) = <<>> THEN "body" ELSE "lock"]
  OBVIOUS
<1>2. Others(t) /\ loc'[t] = r
  BY <1>1, RecordFields
<1>3. /\ r.o = o /\ r.want = Locks(o) /\ r.fid = NOFID /\ r.open = NOFID
      /\ r.st = IF Locks(o) = <<>> THEN "body" ELSE "lock"
  BY IdleFacts DEF LocType
<1>4. o.op # "none"
  BY DEF Operations, Plain
<1>5. loc[t].st = "idle" /\ loc[t].o.op = "none"
  BY DEF Begin, PlaceInv, LockedInv
<1> QED
  BY <1>1, <1>2, <1>3, <1>4, <1>5

-----------------------------------------------------------------------------
LEMMA QuietLocked ==
  ASSUME NEW t \in Threads, IInv, PlaceInv, Quiet(t) PROVE \A u \in Threads : LockedInv(u)'
<1>1. LockedInv(t)'
  <2>1. /\ sh' = sh /\ ex' = ex /\ LockedInv(t) /\ loc'[t].o = loc[t].o
        /\ loc[t].st \in Busy /\ loc'[t].st \in Busy \cup {"unlock"}
    BY DEF Quiet, PlaceInv, locks
  <2> QED
    BY <2>1 DEF LockedInv, Guarded, Busy
<1>2. UNCHANGED locks /\ Others(t)
  BY DEF Quiet, Others
<1> QED
  BY <1>1, <1>2, SameLocks

LEMMA BeginLocked ==
  ASSUME NEW t \in Threads, IInv, PlaceInv, Begin(t)
  PROVE  \A u \in Threads : LockedInv(u)' /\ LocalInv(u)'
<1>1. UNCHANGED locks /\ Others(t)
  BY BeginFields DEF Begin
<1>2. PICK o \in Operations :
         /\ o.op # "none" /\ loc'[t].o = o /\ loc'[t].want = Locks(o)
         /\ loc'[t].fid = NOFID /\ loc'[t].open = NOFID
         /\ loc'[t].st = IF Locks(o) = <<>> THEN "body" ELSE "lock"
  BY BeginFields
<1>3. Locks(o) = <<>> => o.op \in {"pagein", "pageout"}
  BY DEF Locks
<1>4. LockedInv(t)'
  BY <1>2, <1>3 DEF LockedInv, Guarded, Busy
<1>5. LocalInv(t)'
  BY <1>2 DEF LocalInv
<1>6. \A u \in Threads \ {t} : LocalInv(u)'
  BY <1>1 DEF Others, PlaceInv, LocalInv
<1> QED
  BY <1>1, <1>4, <1>5, <1>6, SameLocks

LEMMA CreateNodeLocked ==
  ASSUME NEW t \in Threads, IInv, PlaceInv, CreateNode(t) PROVE \A u \in Threads : LockedInv(u)'
<1>0. Null \notin Threads
  BY DEF FilesAssumption
<1>1. /\ Others(t) /\ loc'[t].o = loc[t].o /\ loc'[t].st = "unlock"
      /\ loc[t].st = "nget" /\ loc[t].o.op = "create" /\ LockedInv(t)
  BY NodeFields DEF CreateNode, Creating, PlaceInv
<1>2. /\ ex["file"] = Null /\ sh' = sh /\ ex' = [ex EXCEPT !["file"] = t]
      /\ lcktype' = [lcktype EXCEPT !["file"] = "exclusive"]
  BY DEF CreateNode
<1>3. ASSUME NEW u \in Threads, u # t PROVE LockedInv(u)'
  <2>1. \A k \in Node : /\ ex[k] = u => ex'[k] = u
                        /\ ex[k] = u /\ lcktype[k] # "exclusive" => lcktype'[k] # "exclusive"
    BY <1>0, <1>2 DEF IInv, LockType
  <2>2. loc'[u] = loc[u] /\ LockedInv(u) /\ loc[u] \in LocType /\ ThreadInv(u)
    BY <1>1, <1>3 DEF Others, PlaceInv, IInv, LockType
  <2> QED
    BY <1>2, <2>1, <2>2, OtherLocked
<1>4. LockedInv(t)'
  BY <1>1 DEF LockedInv, Busy
<1> QED
  BY <1>3, <1>4

-----------------------------------------------------------------------------
(* What each step of a body does to the thread's own fids.                 *)

LEMMA OpensMove ==
  ASSUME NEW t \in Threads, IInv, Opens(t)
  PROVE  /\ OpenShared(t) \/ OpenOpen(t) \/ OpenError(t) => SetsFid(t, "unlock", NOFID)
         /\ OpenWalk(t) => SetsFid(t, "open", nfid)
         /\ OpenWalkFails(t) => \E f \in {NOFID} \cup {g \in Fids : srv[g] # Free} :
                                   SetsFid(t, "failed", f) /\ stray' = (stray \/ f # NOFID)
<1> USE BusyStates, Naturals0
<1>1. OpenShared(t) \/ OpenOpen(t) \/ OpenError(t) => SetsFid(t, "unlock", NOFID)
  BY FidFields DEF OpenShared, OpenOpen, OpenRef, OpenError
<1>2. OpenWalk(t) => SetsFid(t, "open", nfid)
  BY FidFields DEF OpenWalk
<1>3. ASSUME OpenWalkFails(t)
      PROVE  \E f \in {NOFID} \cup {g \in Fids : srv[g] # Free} :
                SetsFid(t, "failed", f) /\ stray' = (stray \/ f # NOFID)
  <2>1. PICK f \in {NOFID} \cup {g \in Fids : srv[g] # Free} :
               loc' = [loc EXCEPT ![t].st = "failed", ![t].fid = f] /\ stray' = (stray \/ f # NOFID)
    BY <1>3 DEF OpenWalkFails
  <2>2. f \in Nat
    BY DEF Fids
  <2> QED
    BY <2>1, <2>2, FidFields
<1> QED
  BY <1>1, <1>2, <1>3

LEMMA CreatesMove ==
  ASSUME NEW t \in Threads, IInv, Creates(t)
  PROVE  /\ CreateClone(t) => SetsOpen(t, "create", nfid)
         /\ CreateWalk(t) => SetsFid(t, "nget", nfid)
         /\ CreateClunkOpen(t) => SetsOpen(t, "clunkfid", NOFID)
         /\ CreateClunkFid(t) => SetsFid(t, "unlock", NOFID)
<1> USE BusyStates, Naturals0
<1>1. CreateClone(t) => SetsOpen(t, "create", nfid)
  BY OpenFields DEF CreateClone
<1>2. CreateWalk(t) => SetsFid(t, "nget", nfid)
  BY FidFields DEF CreateWalk
<1>3. CreateClunkOpen(t) => SetsOpen(t, "clunkfid", NOFID)
  BY OpenFields DEF CreateClunkOpen
<1>4. CreateClunkFid(t) => SetsFid(t, "unlock", NOFID)
  BY FidFields DEF CreateClunkFid
<1> QED
  BY <1>1, <1>2, <1>3, <1>4

LEMMA OpensLocal == ASSUME NEW t \in Threads, IInv, PlaceInv, Opens(t) PROVE LocalInv(t)'
<1>0. LocalInv(t) /\ nfid # NOFID
  BY DEF PlaceInv, NOFID
<1>1. CASE OpenShared(t) \/ OpenOpen(t) \/ OpenError(t)
  <2>1. SetsFid(t, "unlock", NOFID) /\ loc[t].o.op = "open"
    BY <1>1, OpensMove DEF OpenShared, OpenOpen, OpenError, Opening
  <2> QED
    BY <1>0, <2>1 DEF SetsFid, LocalInv
<1>2. CASE OpenWalk(t)
  <2>1. SetsFid(t, "open", nfid) /\ loc[t].o.op = "open"
    BY <1>2, OpensMove DEF OpenWalk, Opening
  <2> QED
    BY <1>0, <2>1 DEF SetsFid, LocalInv
<1>3. CASE OpenWalkFails(t)
  <2>1. PICK f : SetsFid(t, "failed", f)
    BY <1>3, OpensMove
  <2>2. loc[t].o.op = "open"
    BY <1>3 DEF OpenWalkFails, Opening
  <2> QED
    BY <1>0, <2>1, <2>2 DEF SetsFid, LocalInv
<1>4. CASE OpenOpenFails(t)
  <2>1. SameLocals(t) /\ loc[t].o.op = "open" /\ loc'[t].st = "failed" /\ loc[t].st = "open"
    BY <1>4, GotoFields DEF OpenOpenFails, Opening
  <2> QED
    BY <1>0, <2>1 DEF SameLocals, LocalInv
<1> QED
  BY <1>1, <1>2, <1>3, <1>4 DEF Opens

LEMMA CreatesLocal == ASSUME NEW t \in Threads, IInv, PlaceInv, Creates(t) PROVE LocalInv(t)'
<1>0. LocalInv(t) /\ nfid # NOFID
  BY DEF PlaceInv, NOFID
<1>1. CASE CreateClone(t)
  <2>1. SetsOpen(t, "create", nfid) /\ loc[t].o.op = "create" /\ loc[t].st = "body"
    BY <1>1, CreatesMove DEF CreateClone, Creating
  <2> QED
    BY <1>0, <2>1 DEF SetsOpen, LocalInv
<1>2. CASE CreateWalk(t)
  <2>1. SetsFid(t, "nget", nfid) /\ loc[t].o.op = "create" /\ loc[t].st = "walk"
    BY <1>2, CreatesMove DEF CreateWalk, Creating
  <2> QED
    BY <1>0, <2>1 DEF SetsFid, LocalInv
<1>3. CASE CreateNode(t)
  BY <1>3, NodeFields DEF LocalInv
<1>4. CASE CreateCloneFails(t) \/ CreateRefused(t) \/ CreateWalkFails(t) \/ CreateNodeFails(t)
  <2>1. /\ SameLocals(t) /\ loc[t].o.op = "create" /\ loc'[t].st = "clunkopen"
        /\ loc[t].st \in {"body", "create", "walk", "nget"}
    BY <1>4, GotoFields DEF CreateCloneFails, CreateRefused, CreateWalkFails, CreateNodeFails, Creating
  <2> QED
    BY <1>0, <2>1 DEF SameLocals, LocalInv
<1>5. CASE CreateFile(t)
  <2>1. SameLocals(t) /\ loc[t].o.op = "create" /\ loc'[t].st = "walk" /\ loc[t].st = "create"
    BY <1>5, GotoFields DEF CreateFile, Creating
  <2> QED
    BY <1>0, <2>1 DEF SameLocals, LocalInv
<1>6. CASE CreateClunkOpen(t)
  <2>1. SetsOpen(t, "clunkfid", NOFID) /\ loc[t].o.op = "create" /\ loc[t].st = "clunkopen"
    BY <1>6, CreatesMove DEF CreateClunkOpen, Creating
  <2> QED
    BY <1>0, <2>1 DEF SetsOpen, LocalInv
<1>7. CASE CreateClunkFid(t)
  <2>1. SetsFid(t, "unlock", NOFID) /\ loc[t].o.op = "create" /\ loc[t].st = "clunkfid"
    BY <1>7, CreatesMove DEF CreateClunkFid, Creating
  <2> QED
    BY <1>0, <2>1 DEF SetsFid, LocalInv
<1> QED
  BY <1>1, <1>2, <1>3, <1>4, <1>5, <1>6, <1>7 DEF Creates

(* The others have no fids of their own.                                   *)
LEMMA RestLocal ==
  ASSUME NEW t \in Threads, IInv, PlaceInv,
         Closes(t) \/ Transferring(t) \/ Attributes(t) \/ Remove(t) \/ RemoveRefused(t)
  PROVE  LocalInv(t)'
<1> USE DEF Closing, Doing, Pick
<1>1. SameLocals(t) /\ loc'[t].st \notin {"open", "failed", "nget", "clunkopen", "clunkfid", "create", "walk"}
      /\ loc[t].st \in {"body", "push", "pick", "io", "EBADF", "wstat", "clunk", "reset"}
  <2>1. CASE Closes(t)
    <3>1. /\ loc[t].st \in {"body", "clunk", "reset"}
          /\ Goto(t, "push") \/ Goto(t, "unlock") \/ Goto(t, "reset")
      BY <2>1 DEF Closes, CloseDecrement, CloseClunk, CloseReset, LastRef
    <3> QED
      BY <3>1, GotoFields
  <2>2. CASE Transferring(t)
    <3>1. CASE Nread(t) \/ Nwrite(t) \/ Readdir(t) \/ Strategy(t)
      <4>1. /\ loc[t].st \in {"body", "pick"}
            /\ Goto(t, "EBADF") \/ \E m : loc' = [loc EXCEPT ![t].st = "io", ![t].pick = m]
        BY <3>1 DEF Nread, Nwrite, Readdir, Strategy
      <4> QED
        BY <4>1, GotoFields, PickFields
    <3>2. CASE ReadCached(t) \/ ReadUncached(t) \/ WriteCached(t) \/ WriteFillFails(t) \/ TransferEBADF(t)
      BY <3>2, GotoFields DEF ReadCached, ReadUncached, WriteCached, WriteFillFails, TransferEBADF
    <3>3. CASE Push(t) \/ TransferEnds(t)
      BY <3>3, GotoFields, PickFields DEF Push, TransferEnds
    <3> QED
      BY <2>2, <3>1, <3>2, <3>3 DEF Transferring
  <2>3. CASE Attributes(t)
    BY <2>3, GotoFields DEF Attributes, Getattr, Setattr, Rename, Ends, FsyncPush, FsyncWstat
  <2>4. CASE Remove(t) \/ RemoveRefused(t)
    BY <2>4, GotoFields DEF Remove, RemoveRefused, Removed
  <2> QED
    BY <2>1, <2>2, <2>3, <2>4
<1>2. LocalInv(t) /\ loc[t].fid = NOFID /\ loc[t].open = NOFID
  BY <1>1 DEF PlaceInv, LocalInv
<1> QED
  BY <1>1, <1>2 DEF LocalInv, SameLocals

-----------------------------------------------------------------------------
LEMMA PlaceInit == Init => PlaceInv
<1> SUFFICES ASSUME Init, NEW t \in Threads PROVE nfid >= 6 /\ LockedInv(t) /\ LocalInv(t)
  BY DEF PlaceInv, Init
<1>1. loc[t] = Idle /\ nfid = 6
  BY DEF Init
<1> QED
  BY <1>1, IdleFacts DEF LockedInv, LocalInv, Busy

LEMMA PlaceStep == ASSUME IInv, PlaceInv, [Next]_vars PROVE PlaceInv'
<1>1. nfid' >= 6
  <2>0. nfid \in Nat /\ nfid >= 6
    BY DEF IInv, LockType, PlaceInv
  <2>1. nfid' \in {nfid, nfid + 1}
    <3> USE DEF server
    <3>1. ASSUME NEW t \in Threads, Begin(t) \/ Lockings(t) PROVE nfid' = nfid
      BY <3>1 DEF Begin, Lockings, NlockTake, NlockNote, Nunlock, NunlockDrop, Return
    <3>2. ASSUME NEW t \in Threads, Opens(t) \/ Closes(t) PROVE nfid' \in {nfid, nfid + 1}
      BY <3>2 DEF Opens, OpenShared, OpenWalk, OpenWalkFails, OpenOpen, OpenOpenFails, OpenError, WalkTo,
                  Closes, CloseDecrement, CloseClunk, CloseReset
    <3>3. ASSUME NEW t \in Threads, Transferring(t) PROVE nfid' = nfid
      BY <3>3 DEF Transferring, ReadCached, ReadUncached, WriteCached, WriteFillFails, Push, Nread, Nwrite,
                  Readdir, Strategy, Pick, TransferEnds, TransferEBADF
    <3>4. ASSUME NEW t \in Threads, Attributes(t) \/ Remove(t) \/ RemoveRefused(t) PROVE nfid' = nfid
      BY <3>4 DEF Attributes, Getattr, Setattr, Rename, FsyncPush, FsyncWstat, Ends, Remove, RemoveRefused,
                  Removed
    <3>5. ASSUME NEW t \in Threads, Creates(t) PROVE nfid' \in {nfid, nfid + 1}
      BY <3>5 DEF Creates, CreateClone, CreateCloneFails, CreateFile, CreateRefused, CreateWalk, WalkTo,
                  CreateWalkFails, CreateNode, CreateNodeFails, CreateClunkOpen, CreateClunkFid
    <3>6. CASE UNCHANGED vars
      BY <3>6 DEF vars
    <3> QED
      BY <3>1, <3>2, <3>3, <3>4, <3>5, <3>6 DEF Next, Step
  <2> QED
    BY <2>0, <2>1
<1>2. CASE UNCHANGED vars
  BY <1>1, <1>2 DEF vars, locks, PlaceInv, LockedInv, LocalInv, Guarded
<1>3. ASSUME NEW t \in Threads, Begin(t) PROVE PlaceInv'
  BY <1>1, <1>3, BeginLocked DEF PlaceInv
<1>4. ASSUME NEW t \in Threads, Step(t) PROVE PlaceInv'
  <2>1. ASSUME Others(t), LocalInv(t)' PROVE \A u \in Threads : LocalInv(u)'
    BY <2>1 DEF Others, PlaceInv, LocalInv
  <2>2. CASE Lockings(t)
    BY <1>1, <2>1, <2>2, LockingsLocked, AroundLocal DEF PlaceInv
  <2>3. CASE CreateNode(t)
    BY <1>1, <2>1, <2>3, CreateNodeLocked, CreatesLocal, NodeFields DEF PlaceInv, Creates
  <2>4. ASSUME Quiet(t), LocalInv(t)' PROVE PlaceInv'
    BY <1>1, <2>1, <2>4, QuietLocked DEF PlaceInv, Quiet, Others
  <2>5. CASE Opens(t)
    BY <2>4, <2>5, OpensQuiet, OpensLocal
  <2>6. CASE Closes(t) \/ Transferring(t) \/ Attributes(t) \/ Remove(t) \/ RemoveRefused(t)
    BY <2>4, <2>6, ClosesQuiet, TransferringQuiet, AttributesQuiet, RemovesQuiet, RestLocal
  <2>7. CASE Creates(t) /\ ~CreateNode(t)
    BY <2>4, <2>7, CreatesQuiet, CreatesLocal
  <2> QED
    BY <1>4, <2>2, <2>3, <2>5, <2>6, <2>7 DEF Step
<1> QED
  BY <1>2, <1>3, <1>4 DEF Next

-----------------------------------------------------------------------------
(* What a slot counts, and whether it has a fid.                           *)

Closers(n, m, states) ==
    {t \in Threads : loc[t].o.op = "close" /\ loc[t].o.n = n /\ loc[t].o.m = m /\ loc[t].st \in states}
Before == {"lock", "note", "body"}
After == {"push", "clunk", "reset"}
Coming(n, m) == Closers(n, m, Before)
Ending(n, m) == Closers(n, m, After)

Active == {t \in Threads : loc[t].st # "idle"}

SlotTypes ==
    /\ fid \in [Node -> Nat] /\ slot \in [Node -> [Mode -> [fid : Nat, ref : Nat]]]
    /\ opens \in [Node -> [Mode -> Nat]] /\ kept \in Nat /\ dirty \in BOOLEAN
    /\ name \in {"absent", "there", "refused", "removed"} /\ IsFiniteSet(Active)

Extra(n, m) == IF n = "file" /\ m = "ORDWR" THEN kept ELSE 0

CountInv ==
    \A n \in Node, m \in Mode :
       slot[n][m].ref = opens[n][m] + Cardinality(Coming(n, m)) + Extra(n, m)

(* From the last close's decrement to its reset a slot has a fid that      *)
(* nobody counts.                                                          *)
ShutInv ==
    \A n \in Node, m \in Mode :
       IF Ending(n, m) # {} THEN slot[n][m].ref = 0 /\ slot[n][m].fid # NOFID
       ELSE slot[n][m].ref = 0 <=> slot[n][m].fid = NOFID

OnFile(t) == loc[t].o.op \in {"open", "close", "read", "write"} /\ loc[t].o.n = "file"

(* Before the file's node exists.                                          *)
AbsentInv ==
    /\ name = "absent" => fid["file"] = NOFID
    /\ fid["file"] = NOFID =>
          /\ \A m \in Mode : slot["file"][m].fid = NOFID /\ opens["file"][m] = 0
          /\ \A t \in Threads : ~OnFile(t)

(* The kernel uses what is open, and does not close it while it does.      *)
UsingInv == \A n \in Node, m \in Mode : Using(n, m) # {} => opens[n][m] > 0

Readable == {"OREAD", "ORDWR"}
Writable == {"OWRITE", "ORDWR"}

(* What a thread has found out about a slot or about the file and still    *)
(* relies on.                                                              *)
BodyInv(t) ==
    /\ loc[t].o.op = "open" /\ loc[t].st = "open" => slot[loc[t].o.n][loc[t].o.m].fid = NOFID
    /\ loc[t].o.op = "create" /\ loc[t].st \in {"walk", "nget"} => name # "absent" /\ fid["file"] = NOFID
    /\ loc[t].o.op \in {"read", "write", "readdir"} /\ loc[t].st = "io" =>
          /\ loc[t].pick \in (IF loc[t].o.op = "write" THEN Writable ELSE Readable)
          /\ slot[loc[t].o.n][loc[t].pick].fid # NOFID
    /\ loc[t].st = "EBADF" =>
          \/ loc[t].o.op \in {"pagein", "pageout"}
          \/ loc[t].o.op = "write" /\ \A m \in Readable : slot["file"][m].fid = NOFID

(* Pages to be written have a slot to be written on.                       *)
DirtyInv ==
    dirty => /\ \E m \in Writable : slot["file"][m].fid # NOFID
             /\ \A t \in Threads : loc[t].o.op = "close" /\ loc[t].o.n = "file" =>
                                      loc[t].st \notin {"clunk", "reset"}

SlotInv ==
    /\ SlotTypes /\ CountInv /\ ShutInv /\ AbsentInv /\ UsingInv /\ DirtyInv
    /\ \A t \in Threads : BodyInv(t)

(* A thread neither starts nor ends a close, nor comes to its last steps   *)
(* with pages left.                                                        *)
ClosesAsBefore(t) ==
    /\ loc'[t].o = loc[t].o \/ (loc'[t] = Idle /\ loc[t].st \in {"unlock", "drop"})
    /\ loc'[t].st = "idle" \/ loc[t].st # "idle"
    /\ loc[t].o.op = "close" /\ loc'[t].o = loc[t].o =>
          /\ loc'[t].st \in Before <=> loc[t].st \in Before
          /\ loc'[t].st \in After <=> loc[t].st \in After
          /\ loc'[t].st \in {"clunk", "reset"} /\ loc[t].o.n = "file" /\ dirty' =>
                loc[t].st \in {"clunk", "reset"}

LEMMA SameClosers ==
  ASSUME NEW t \in Threads, Others(t), ClosesAsBefore(t), NEW n, NEW m
  PROVE  Coming(n, m)' = Coming(n, m) /\ Ending(n, m)' = Ending(n, m)
<1>1. \A u \in Threads \ {t} : loc'[u] = loc[u]
  BY DEF Others
<1>2. \A s \in {"unlock", "drop", "idle"} : s \notin Before /\ s \notin After
  BY DEF Before, After
<1>3. CASE loc'[t].o = loc[t].o
  BY <1>1, <1>3 DEF ClosesAsBefore, Coming, Ending, Closers
<1>4. CASE loc'[t] = Idle /\ loc[t].st \in {"unlock", "drop"}
  BY <1>1, <1>2, <1>4, IdleFacts DEF Coming, Ending, Closers
<1> QED
  BY <1>3, <1>4 DEF ClosesAsBefore

(* A step that leaves the slots and the node's fids alone.                 *)
LEMMA SlotFrame ==
  ASSUME NEW t \in Threads, IInv, SlotInv, Others(t), ClosesAsBefore(t), BodyInv(t)',
         UNCHANGED <<fid, slot, opens, kept>>, dirty' \in BOOLEAN, dirty' => dirty,
         name' \in {"absent", "there", "refused", "removed"}, name' = "absent" => name = "absent"
  PROVE  SlotInv'
<1> USE DEF SlotInv
<1>1. \A u \in Threads \ {t} : loc'[u] = loc[u]
  BY DEF Others
<1>2. SlotTypes'
  <2>1. Active' \subseteq Active
    BY <1>1 DEF Active, ClosesAsBefore
  <2>2. IsFiniteSet(Active')
    BY <2>1, FS_Subset DEF SlotTypes
  <2> QED
    BY <2>2 DEF SlotTypes
<1>3. CountInv' /\ ShutInv'
  BY SameClosers DEF CountInv, ShutInv, Extra
<1>4. AbsentInv'
  <2>1. OnFile(t)' => OnFile(t)
    BY IdleFacts DEF OnFile, ClosesAsBefore
  <2> QED
    BY <1>1, <2>1 DEF AbsentInv, OnFile
<1>5. UsingInv'
  <2>1. \A n, m : Using(n, m)' \subseteq Using(n, m)
    BY <1>1, IdleFacts DEF Using, ClosesAsBefore
  <2> QED
    BY <2>1 DEF UsingInv
<1>6. DirtyInv'
  <2> SUFFICES ASSUME dirty', NEW u \in Threads, loc'[u].o.op = "close", loc'[u].o.n = "file",
                      loc'[u].st \in {"clunk", "reset"}
               PROVE  FALSE
    BY DEF DirtyInv
  <2>1. dirty /\ loc[u].o = loc'[u].o /\ loc[u].st \in {"clunk", "reset"}
    BY <1>1, IdleFacts DEF ClosesAsBefore
  <2> QED
    BY <2>1 DEF DirtyInv
<1>7. ASSUME NEW u \in Threads, u # t PROVE BodyInv(u)'
  <2>1. loc'[u] = loc[u] /\ BodyInv(u)
    BY <1>1, <1>7
  <2> QED
    BY <2>1 DEF BodyInv
<1> QED
  BY <1>2, <1>3, <1>4, <1>5, <1>6, <1>7

LEMMA CountFacts ==
  ASSUME IInv, SlotInv, NEW n \in Node, NEW m \in Mode
  PROVE  /\ IsFiniteSet(Coming(n, m)) /\ Cardinality(Coming(n, m)) \in Nat /\ Extra(n, m) \in Nat
         /\ slot[n][m].ref \in Nat /\ slot[n][m].fid \in Nat /\ opens[n][m] \in Nat
         /\ slot[n][m].ref = opens[n][m] + Cardinality(Coming(n, m)) + Extra(n, m)
<1>1. IsFiniteSet(Active) /\ Coming(n, m) \subseteq Active
  BY DEF SlotInv, SlotTypes, Active, Coming, Closers, Before
<1>2. IsFiniteSet(Coming(n, m))
  BY <1>1, FS_Subset
<1>3. Cardinality(Coming(n, m)) \in Nat
  BY <1>2, FS_CardinalityType
<1>4. slot[n][m] \in [fid : Nat, ref : Nat] /\ opens[n][m] \in Nat /\ Extra(n, m) \in Nat
  BY DEF SlotInv, SlotTypes, Extra
<1> QED
  BY <1>2, <1>3, <1>4 DEF SlotInv, CountInv

(* Who works on a node that another thread has locked?  Nobody.            *)
LEMMA HolderAlone ==
  ASSUME IInv, PlaceInv, NEW t \in Threads, NEW n \in Node, ex[n] = t \/ t \in sh[n],
         NEW u \in Threads, loc[u].st \in Busy, loc[u].o.n = n,
         loc[u].o.op \in {"open", "close", "write", "readdir", "create"}
  PROVE  u = t
<1>1. ex[n] = u /\ u # Null
  BY DEF PlaceInv, LockedInv, Guarded, FilesAssumption
<1>2. sh[n] = {}
  BY <1>1 DEF IInv, Excl
<1> QED
  BY <1>1, <1>2

LEMMA NoneEnding ==
  ASSUME IInv, PlaceInv, NEW t \in Threads, NEW n \in Node, ex[n] = t \/ t \in sh[n],
         ~(loc[t].o.op = "close" /\ loc[t].st \in After), NEW m \in Mode
  PROVE  Ending(n, m) = {}
<1> SUFFICES ASSUME NEW u \in Ending(n, m) PROVE FALSE
  OBVIOUS
<1>1. /\ u \in Threads /\ loc[u].o.op = "close" /\ loc[u].o.n = n /\ loc[u].st \in After
      /\ loc[u].st \in Busy
  BY BusyStates DEF Ending, Closers, After
<1>2. u = t
  BY <1>1, HolderAlone
<1> QED
  BY <1>1, <1>2

(* Who reads or writes an open file finds the fid of its open.             *)
LEMMA UserHasFid ==
  ASSUME IInv, PlaceInv, SlotInv, NEW t \in Threads, loc[t].st \in Busy,
         loc[t].o.op \in {"read", "write", "readdir"}
  PROVE  /\ loc[t].o.n \in Node /\ loc[t].o.m \in Mode
         /\ ex[loc[t].o.n] = t \/ t \in sh[loc[t].o.n]
         /\ \A m \in Mode : Ending(loc[t].o.n, m) = {}
         /\ slot[loc[t].o.n][loc[t].o.m].fid # NOFID
         /\ loc[t].o.op = "read" => loc[t].o.n = "file" /\ loc[t].o.m \in Readable
         /\ loc[t].o.op = "write" => loc[t].o.n = "file" /\ loc[t].o.m \in Writable
         /\ loc[t].o.op = "readdir" => loc[t].o.n = "dir" /\ loc[t].o.m = "OREAD"
<1> PICK n, m : n = loc[t].o.n /\ m = loc[t].o.m
  OBVIOUS
<1>1. loc[t].o \in AnyOp
  BY DEF IInv, LockType, LocType
<1>2. /\ n \in Node /\ m \in Mode
      /\ loc[t].o.op = "read" => n = "file" /\ m \in Readable
      /\ loc[t].o.op = "write" => n = "file" /\ m \in Writable
      /\ loc[t].o.op = "readdir" => n = "dir" /\ m = "OREAD"
  BY <1>1, OpFacts DEF Mode, Readable, Writable
<1>3. ex[n] = t \/ t \in sh[n]
  BY DEF PlaceInv, LockedInv, Guarded
<1>4. \A k \in Mode : Ending(n, k) = {}
  BY <1>2, <1>3, NoneEnding
<1>5. t \in Using(n, m)
  BY DEF Using
<1>6. opens[n][m] > 0
  BY <1>2, <1>5 DEF SlotInv, UsingInv
<1>7. slot[n][m].ref # 0
  BY <1>2, <1>6, CountFacts
<1>8. slot[n][m].fid # NOFID
  BY <1>2, <1>4, <1>7 DEF SlotInv, ShutInv
<1> QED
  BY <1>2, <1>3, <1>4, <1>8

-----------------------------------------------------------------------------
LEMMA LockingsSlots ==
  ASSUME NEW t \in Threads, IInv, PlaceInv, SlotInv, Lockings(t) PROVE SlotInv'
<1>1. UNCHANGED data /\ Others(t) /\ Around(t)
  BY LockingsLocked
<1>2. ClosesAsBefore(t)
  <2>1. CASE loc'[t] = Idle /\ loc[t].st \in {"unlock", "drop"}
    BY <2>1, IdleFacts DEF ClosesAsBefore, PlaceInv, LockedInv
  <2>2. CASE ~(loc'[t] = Idle /\ loc[t].st \in {"unlock", "drop"})
    BY <1>1, <2>2 DEF Around, SameLocals, ClosesAsBefore, Before, After
  <2> QED
    BY <2>1, <2>2
<1>3. BodyInv(t)'
  BY <1>1, IdleFacts DEF Around, BodyInv
<1> QED
  BY <1>1, <1>2, <1>3, SlotFrame DEF data, history, SlotInv, SlotTypes

(* A step of the body that goes to a place where nothing is relied on.     *)
LEMMA Onward ==
  ASSUME NEW t \in Threads, IInv, SlotInv, Others(t), loc'[t].o = loc[t].o, loc[t].st \in Busy,
         loc'[t].st \in {"unlock", "failed", "push", "pick", "wstat", "create", "clunkopen", "clunkfid"},
         loc[t].o.op # "close",
         UNCHANGED <<fid, slot, opens, kept>>, dirty' \in BOOLEAN, dirty' => dirty,
         name' \in {"absent", "there", "refused", "removed"}, name' = "absent" => name = "absent"
  PROVE  SlotInv'
<1>1. ClosesAsBefore(t)
  BY DEF ClosesAsBefore, Busy
<1>2. BodyInv(t)'
  BY DEF BodyInv
<1> QED
  BY <1>1, <1>2, SlotFrame

LEMMA OpensSlotsSame ==
  ASSUME NEW t \in Threads, IInv, PlaceInv, SlotInv,
         OpenWalk(t) \/ OpenWalkFails(t) \/ OpenOpenFails(t) \/ OpenError(t)
  PROVE  SlotInv'
<1>0. dirty \in BOOLEAN /\ name \in {"absent", "there", "refused", "removed"}
  BY DEF SlotInv, SlotTypes
<1>1. loc[t].o.op = "open" /\ loc[t].st \in Busy /\ UNCHANGED <<fid, slot, opens, kept, dirty, name>>
  BY BusyStates DEF OpenWalk, OpenWalkFails, OpenOpenFails, OpenError, Opening, history
<1>2. CASE OpenWalk(t)
  <2>1. SetsFid(t, "open", nfid)
    BY <1>2, OpensMove DEF Opens
  <2>2. ClosesAsBefore(t)
    BY <1>1, <2>1 DEF SetsFid, ClosesAsBefore, Busy
  <2>3. BodyInv(t)'
    BY <1>1, <1>2, <2>1 DEF SetsFid, BodyInv, OpenWalk
  <2> QED
    BY <1>0, <1>1, <2>1, <2>2, <2>3, SlotFrame DEF SetsFid
<1>3. CASE OpenWalkFails(t)
  <2>1. PICK f : SetsFid(t, "failed", f)
    BY <1>3, OpensMove DEF Opens
  <2> QED
    BY <1>0, <1>1, <2>1, Onward DEF SetsFid
<1>4. CASE OpenOpenFails(t)
  <2>1. Others(t) /\ SameLocals(t) /\ loc'[t].st = "failed"
    BY <1>4, GotoFields DEF OpenOpenFails
  <2> QED
    BY <1>0, <1>1, <2>1, Onward DEF SameLocals
<1>5. CASE OpenError(t)
  <2>1. SetsFid(t, "unlock", NOFID)
    BY <1>5, OpensMove DEF Opens
  <2> QED
    BY <1>0, <1>1, <2>1, Onward DEF SetsFid
<1> QED
  BY <1>2, <1>3, <1>4, <1>5

LEMMA RemoveSlots ==
  ASSUME NEW t \in Threads, IInv, PlaceInv, SlotInv, Remove(t) \/ RemoveRefused(t) PROVE SlotInv'
<1>0. dirty \in BOOLEAN /\ name \in {"absent", "there", "refused", "removed"}
  BY DEF SlotInv, SlotTypes
<1>1. /\ loc[t].o.op = "remove" /\ loc[t].st \in Busy /\ Goto(t, "unlock")
      /\ UNCHANGED <<fid, slot, opens, kept, dirty>>
      /\ name' \in {"removed", "refused", name} /\ (name' = "absent" => name = "absent")
  BY BusyStates DEF Remove, RemoveRefused, Removed, Doing, history
<1>2. Others(t) /\ SameLocals(t) /\ loc'[t].st = "unlock"
  BY <1>1, GotoFields
<1> QED
  BY <1>0, <1>1, <1>2, Onward DEF SameLocals

LEMMA AttributesSlots ==
  ASSUME NEW t \in Threads, IInv, PlaceInv, SlotInv, Attributes(t) PROVE SlotInv'
<1>0. dirty \in BOOLEAN /\ name \in {"absent", "there", "refused", "removed"}
  BY DEF SlotInv, SlotTypes
<1>1. /\ loc[t].o.op \in Plain \cup {"rename"} /\ loc[t].st \in Busy
      /\ Goto(t, "unlock") \/ Goto(t, "push")
      /\ UNCHANGED <<fid, slot, opens, kept, dirty, name>>
  BY BusyStates DEF Attributes, Getattr, Setattr, Rename, FsyncPush, FsyncWstat, Ends, Doing, history, Plain
<1>2. Others(t) /\ SameLocals(t) /\ loc'[t].st \in {"unlock", "push"}
  BY <1>1, GotoFields
<1> QED
  BY <1>0, <1>1, <1>2, Onward DEF SameLocals, Plain

(* nread_9p and nwrite_9p, for a reader or a writer and for the cache      *)
LEMMA PickSlots ==
  ASSUME NEW t \in Threads, IInv, PlaceInv, SlotInv,
         Nread(t) \/ Nwrite(t) \/ Readdir(t) \/ Strategy(t)
  PROVE  SlotInv'
<1>0. dirty \in BOOLEAN /\ name \in {"absent", "there", "refused", "removed"}
  BY DEF SlotInv, SlotTypes
<1> PICK n : n = loc[t].o.n
  OBVIOUS
<1>1. /\ loc[t].o.op \in {"read", "write", "readdir", "pagein", "pageout"} /\ loc[t].st \in {"body", "pick"}
      /\ UNCHANGED <<fid, slot, opens, kept, dirty, name>>
  BY DEF Nread, Nwrite, Readdir, Strategy, Doing, Pick, history
<1> PICK m : m = CASE loc[t].o.op = "read" -> SlotFor(n, "read") [] loc[t].o.op = "write" -> SlotFor(n, "write")
                   [] loc[t].o.op = "readdir" -> "OREAD" [] OTHER -> SlotFor(n, loc[t].o.op)
  OBVIOUS
<1>2. Pick(t, m)
  BY DEF Nread, Nwrite, Readdir, Strategy, Doing
<1>3. /\ Others(t) /\ SameLocals(t)
      /\ \/ loc'[t].st = "EBADF" /\ slot[n][m].fid = NOFID
         \/ loc'[t].st = "io" /\ loc'[t].pick = m /\ slot[n][m].fid # NOFID
  <2>1. CASE slot[n][m].fid = NOFID
    <3>1. Goto(t, "EBADF")
      BY <1>2, <2>1 DEF Pick
    <3> QED
      BY <2>1, <3>1, GotoFields
  <2>2. CASE slot[n][m].fid # NOFID
    <3>1. loc' = [loc EXCEPT ![t].st = "io", ![t].pick = m]
      BY <1>2, <2>2 DEF Pick
    <3>2. Others(t) /\ SameLocals(t) /\ loc'[t].st = "io" /\ loc'[t].pick = m
      BY <3>1, PickFields
    <3> QED
      BY <2>2, <3>2
  <2> QED
    BY <2>1, <2>2
<1>4. ClosesAsBefore(t)
  BY <1>1, <1>3 DEF SameLocals, ClosesAsBefore
<1>5. ASSUME loc[t].o.op \in {"read", "write", "readdir"}
      PROVE  slot[n][m].fid # NOFID /\ m \in (IF loc[t].o.op = "write" THEN Writable ELSE Readable)
  <2>1. loc[t].st \in Busy
    BY <1>1, BusyStates
  <2>2. /\ slot[n][loc[t].o.m].fid # NOFID
        /\ loc[t].o.op = "read" => n = "file" /\ loc[t].o.m \in Readable
        /\ loc[t].o.op = "write" => n = "file" /\ loc[t].o.m \in Writable
        /\ loc[t].o.op = "readdir" => n = "dir" /\ loc[t].o.m = "OREAD"
    BY <1>5, <2>1, UserHasFid
  <2>3. CASE loc[t].o.op = "read"
    BY <2>2, <2>3 DEF SlotFor, Reads, Readable
  <2>4. CASE loc[t].o.op = "write"
    BY <2>2, <2>4 DEF SlotFor, Reads, Writable
  <2>5. CASE loc[t].o.op = "readdir"
    BY <2>2, <2>5 DEF Readable
  <2> QED
    BY <1>5, <2>3, <2>4, <2>5
<1>6. BodyInv(t)'
  BY <1>1, <1>3, <1>5 DEF BodyInv, SameLocals
<1> QED
  BY <1>0, <1>1, <1>3, <1>4, <1>6, SlotFrame

LEMMA PushSlots ==
  ASSUME NEW t \in Threads, IInv, PlaceInv, SlotInv, Push(t) PROVE SlotInv'
<1>0. dirty \in BOOLEAN /\ name \in {"absent", "there", "refused", "removed"}
  BY DEF SlotInv, SlotTypes
<1>1. /\ loc[t].st = "push" /\ loc[t].st \in Busy /\ UNCHANGED <<fid, slot, opens, kept, name>>
      /\ dirty' = (dirty /\ loc[t].o.n # "file")
  BY BusyStates DEF Push, history
<1>2. /\ Others(t) /\ SameLocals(t)
      /\ loc'[t].st = CASE loc[t].o.op = "close" -> "clunk" [] loc[t].o.op = "fsync" -> "wstat" [] OTHER -> "pick"
  BY GotoFields DEF Push
<1>3. CASE loc[t].o.op # "close"
  BY <1>0, <1>1, <1>2, <1>3, Onward DEF SameLocals
<1>4. CASE loc[t].o.op = "close"
  <2>1. ClosesAsBefore(t)
    BY <1>1, <1>2, <1>4 DEF SameLocals, ClosesAsBefore, Before, After
  <2>2. BodyInv(t)'
    BY <1>2, <1>4 DEF BodyInv, SameLocals
  <2> QED
    BY <1>0, <1>1, <1>2, <2>1, <2>2, SlotFrame
<1> QED
  BY <1>3, <1>4

(* A write that stays in the cache: the writer's own slot is there.        *)
LEMMA WriteCachedSlots ==
  ASSUME NEW t \in Threads, IInv, PlaceInv, SlotInv, WriteCached(t) PROVE SlotInv'
<1>1. /\ loc[t].o.op = "write" /\ loc[t].st = "body" /\ loc[t].st \in Busy /\ dirty' = TRUE
      /\ UNCHANGED <<fid, slot, opens, kept, name>>
  BY BusyStates DEF WriteCached, Doing, history
<1>2. Others(t) /\ SameLocals(t) /\ loc'[t].st = "unlock"
  BY GotoFields DEF WriteCached
<1>3. /\ loc[t].o.n = "file" /\ loc[t].o.m \in Writable /\ slot["file"][loc[t].o.m].fid # NOFID
      /\ \A m \in Mode : Ending("file", m) = {}
  BY <1>1, UserHasFid
<1>4. ClosesAsBefore(t) /\ BodyInv(t)'
  BY <1>1, <1>2 DEF SameLocals, ClosesAsBefore, BodyInv
<1>5. \A u \in Threads : u # t => loc'[u] = loc[u]
  BY <1>2 DEF Others
<1>6. SlotTypes'
  <2>1. Active' \subseteq Active
    BY <1>1, <1>5 DEF Active
  <2>2. IsFiniteSet(Active')
    BY <2>1, FS_Subset DEF SlotInv, SlotTypes
  <2> QED
    BY <1>1, <2>2 DEF SlotInv, SlotTypes
<1>7. CountInv' /\ ShutInv'
  BY <1>1, <1>2, <1>4, SameClosers DEF SlotInv, CountInv, ShutInv, Extra
<1>8. AbsentInv' /\ UsingInv'
  <2>1. \A n, m : Using(n, m)' = Using(n, m)
    BY <1>2, <1>5 DEF Using, SameLocals
  <2>2. \A u \in Threads : OnFile(u)' = OnFile(u)
    BY <1>2, <1>5 DEF OnFile, SameLocals
  <2> QED
    BY <1>1, <2>1, <2>2 DEF SlotInv, AbsentInv, UsingInv
<1>9. DirtyInv'
  <2> SUFFICES ASSUME NEW u \in Threads, loc'[u].o.op = "close", loc'[u].o.n = "file",
                      loc'[u].st \in {"clunk", "reset"}
               PROVE  FALSE
    BY <1>1, <1>3 DEF DirtyInv
  <2>1. u # t /\ loc[u] = loc'[u]
    BY <1>1, <1>2, <1>5 DEF SameLocals
  <2>2. loc[u].o \in AnyOp
    BY DEF IInv, LockType, LocType
  <2>3. loc[u].o.m \in Mode
    BY <2>1, <2>2, OpFacts
  <2>4. u \in Ending("file", loc[u].o.m)
    BY <2>1 DEF Ending, Closers, After
  <2> QED
    BY <1>3, <2>3, <2>4
<1>10. ASSUME NEW u \in Threads PROVE BodyInv(u)'
  BY <1>1, <1>4, <1>5 DEF SlotInv, BodyInv
<1> QED
  BY <1>6, <1>7, <1>8, <1>9, <1>10 DEF SlotInv

LEMMA TransferringSlots ==
  ASSUME NEW t \in Threads, IInv, PlaceInv, SlotInv, Transferring(t) PROVE SlotInv'
<1>0. dirty \in BOOLEAN /\ name \in {"absent", "there", "refused", "removed"}
  BY DEF SlotInv, SlotTypes
<1>1. CASE ReadCached(t) \/ ReadUncached(t)
  <2>1. /\ loc[t].o.op = "read" /\ loc[t].st \in Busy
        /\ UNCHANGED <<fid, slot, opens, kept, dirty, name>>
        /\ Goto(t, "pick") \/ Goto(t, "unlock") \/ Goto(t, "push")
    BY <1>1, BusyStates DEF ReadCached, ReadUncached, Doing, history
  <2>2. Others(t) /\ SameLocals(t) /\ loc'[t].st \in {"pick", "unlock", "push"}
    BY <2>1, GotoFields
  <2> QED
    BY <1>0, <2>1, <2>2, Onward DEF SameLocals
<1>2. CASE WriteFillFails(t)
  <2>1. /\ loc[t].o.op = "write" /\ loc[t].st = "body" /\ loc[t].st \in Busy
        /\ UNCHANGED <<fid, slot, opens, kept, dirty, name>>
        /\ Others(t) /\ SameLocals(t) /\ loc'[t].st = "EBADF"
        /\ slot[loc[t].o.n][SlotFor(loc[t].o.n, "read")].fid = NOFID
    BY <1>2, BusyStates, GotoFields DEF WriteFillFails, Doing, history
  <2>2. loc[t].o.n = "file"
    BY <2>1, UserHasFid
  <2>3. \A m \in Readable : slot["file"][m].fid = NOFID
    BY <2>1, <2>2 DEF SlotFor, Reads, Readable
  <2>4. ClosesAsBefore(t) /\ BodyInv(t)'
    BY <2>1, <2>3 DEF ClosesAsBefore, SameLocals, BodyInv
  <2> QED
    BY <1>0, <2>1, <2>4, SlotFrame
<1>3. CASE TransferEnds(t)
  <2>1. /\ loc[t].o.op \in Transfers /\ loc[t].st \in Busy
        /\ UNCHANGED <<fid, slot, opens, kept, name>> /\ dirty' = (dirty /\ loc[t].o.op # "pageout")
        /\ Others(t) /\ SameLocals(t) /\ loc'[t].st = "unlock"
    BY <1>3, BusyStates, PickFields DEF TransferEnds, Doing, history
  <2> QED
    BY <1>0, <2>1, Onward DEF SameLocals, Transfers, Reads
<1>4. CASE TransferEBADF(t)
  <2>1. /\ loc[t].o.op # "close" /\ loc[t].st \in Busy
        /\ UNCHANGED <<fid, slot, opens, kept, name, dirty>>
        /\ Others(t) /\ SameLocals(t) /\ loc'[t].st = "unlock"
    BY <1>4, BusyStates, GotoFields DEF TransferEBADF, SlotInv, BodyInv, history
  <2> QED
    BY <1>0, <2>1, Onward DEF SameLocals
<1> QED
  BY <1>1, <1>2, <1>3, <1>4, PickSlots, PushSlots, WriteCachedSlots DEF Transferring

LEMMA CloseClunkSlots ==
  ASSUME NEW t \in Threads, IInv, PlaceInv, SlotInv, CloseClunk(t) PROVE SlotInv'
<1>0. dirty \in BOOLEAN /\ name \in {"absent", "there", "refused", "removed"}
  BY DEF SlotInv, SlotTypes
<1>1. /\ loc[t].o.op = "close" /\ loc[t].st = "clunk" /\ UNCHANGED <<fid, slot, opens, kept, dirty, name>>
      /\ Others(t) /\ SameLocals(t) /\ loc'[t].st = "reset"
  BY GotoFields DEF CloseClunk, Closing
<1>2. ClosesAsBefore(t) /\ BodyInv(t)'
  BY <1>1 DEF ClosesAsBefore, SameLocals, Before, After, BodyInv
<1> QED
  BY <1>0, <1>1, <1>2, SlotFrame

LEMMA CreatesSlotsSame ==
  ASSUME NEW t \in Threads, IInv, PlaceInv, SlotInv, Creates(t), ~CreateNode(t) PROVE SlotInv'
<1>0. dirty \in BOOLEAN /\ name \in {"absent", "there", "refused", "removed"}
  BY DEF SlotInv, SlotTypes
<1>1. loc[t].o.op = "create" /\ loc[t].st \in Busy /\ UNCHANGED <<fid, slot, opens, kept, dirty>>
  BY BusyStates DEF Creates, CreateClone, CreateCloneFails, CreateFile, CreateRefused, CreateWalk,
     CreateWalkFails, CreateNodeFails, CreateClunkOpen, CreateClunkFid, Creating, history
<1>2. CASE CreateClone(t)
  <2>1. SetsOpen(t, "create", nfid) /\ name' = name
    BY <1>2, CreatesMove DEF Creates, CreateClone
  <2> QED
    BY <1>0, <1>1, <2>1, Onward DEF SetsOpen
<1>3. CASE CreateCloneFails(t) \/ CreateRefused(t) \/ CreateWalkFails(t) \/ CreateNodeFails(t)
  <2>1. Others(t) /\ SameLocals(t) /\ loc'[t].st = "clunkopen" /\ name' = name
    BY <1>3, GotoFields DEF CreateCloneFails, CreateRefused, CreateWalkFails, CreateNodeFails
  <2> QED
    BY <1>0, <1>1, <2>1, Onward DEF SameLocals
<1>4. CASE CreateFile(t)
  <2>1. /\ Others(t) /\ SameLocals(t) /\ loc'[t].st = "walk" /\ name = "absent" /\ name' = "there"
    BY <1>4, GotoFields DEF CreateFile
  <2>2. fid["file"] = NOFID
    BY <2>1 DEF SlotInv, AbsentInv
  <2>3. ClosesAsBefore(t) /\ BodyInv(t)'
    BY <1>1, <2>1, <2>2 DEF ClosesAsBefore, SameLocals, BodyInv, Busy
  <2> QED
    BY <1>0, <1>1, <2>1, <2>3, SlotFrame
<1>5. CASE CreateWalk(t)
  <2>1. SetsFid(t, "nget", nfid) /\ name' = name /\ loc[t].st = "walk"
    BY <1>5, CreatesMove DEF Creates, CreateWalk, Creating
  <2>2. ClosesAsBefore(t) /\ BodyInv(t)'
    BY <1>1, <2>1 DEF ClosesAsBefore, SetsFid, BodyInv, SlotInv
  <2> QED
    BY <1>0, <1>1, <2>1, <2>2, SlotFrame DEF SetsFid
<1>6. CASE CreateClunkOpen(t)
  <2>1. SetsOpen(t, "clunkfid", NOFID) /\ name' = name
    BY <1>6, CreatesMove DEF Creates, CreateClunkOpen
  <2> QED
    BY <1>0, <1>1, <2>1, Onward DEF SetsOpen
<1>7. CASE CreateClunkFid(t)
  <2>1. SetsFid(t, "unlock", NOFID) /\ name' = name
    BY <1>7, CreatesMove DEF Creates, CreateClunkFid
  <2> QED
    BY <1>0, <1>1, <2>1, Onward DEF SetsFid
<1> QED
  BY <1>2, <1>3, <1>4, <1>5, <1>6, <1>7 DEF Creates

-----------------------------------------------------------------------------
(* The steps that change a slot or a count                                 *)

SetsSlot(n, m, f, c) ==
    /\ slot' \in [Node -> [Mode -> [fid : Nat, ref : Nat]]]
    /\ slot'[n][m].fid = f /\ slot'[n][m].ref = c
    /\ \A k \in Node, l \in Mode : k # n \/ l # m => slot'[k][l] = slot[k][l]

LEMMA SlotSet ==
  ASSUME SlotTypes, NEW n \in Node, NEW m \in Mode, NEW f \in Nat, NEW c \in Nat,
         slot' = [slot EXCEPT ![n][m] = [fid |-> f, ref |-> c]]
  PROVE  SetsSlot(n, m, f, c)
<1>1. [fid |-> f, ref |-> c] \in [fid : Nat, ref : Nat]
  OBVIOUS
<1>2. slot'[n][m] = [fid |-> f, ref |-> c] /\ slot' \in [Node -> [Mode -> [fid : Nat, ref : Nat]]]
  BY <1>1 DEF SlotTypes
<1> QED
  BY <1>2 DEF SlotTypes, SetsSlot

SetsOpens(n, m, c) ==
    /\ opens' \in [Node -> [Mode -> Nat]] /\ opens'[n][m] = c
    /\ \A k \in Node, l \in Mode : k # n \/ l # m => opens'[k][l] = opens[k][l]

LEMMA OpensSet ==
  ASSUME SlotTypes, NEW n \in Node, NEW m \in Mode, NEW c \in Nat, opens' = [opens EXCEPT ![n][m] = c]
  PROVE  SetsOpens(n, m, c)
  BY DEF SlotTypes, SetsOpens

(* A thread that has begun no close and ends none.                         *)
LEMMA NotClosing ==
  ASSUME NEW t \in Threads, Others(t), loc[t].o.op # "close", loc'[t].o.op # "close", NEW n, NEW m
  PROVE  Coming(n, m)' = Coming(n, m) /\ Ending(n, m)' = Ending(n, m)
<1>1. \A u \in Threads \ {t} : loc'[u] = loc[u]
  BY DEF Others
<1> QED
  BY <1>1 DEF Coming, Ending, Closers

LEMMA UsingFinite ==
  ASSUME IInv, PlaceInv, SlotInv, NEW n, NEW m
  PROVE  /\ IsFiniteSet(Using(n, m)) /\ Cardinality(Using(n, m)) \in Nat
         /\ Using(n, m) # {} => Cardinality(Using(n, m)) > 0
<1>1. Using(n, m) \subseteq Active /\ IsFiniteSet(Active)
  BY DEF Using, Active, PlaceInv, LockedInv, SlotInv, SlotTypes
<1>2. IsFiniteSet(Using(n, m))
  BY <1>1, FS_Subset
<1>3. Cardinality(Using(n, m)) \in Nat
  BY <1>2, FS_CardinalityType
<1>4. Cardinality(Using(n, m)) = 0 <=> Using(n, m) = {}
  BY <1>2, FS_EmptySet
<1> QED
  BY <1>2, <1>3, <1>4

(* What the kernel knows when it begins an operation.                      *)
LEMMA MayFacts ==
  ASSUME SlotInv, NEW o \in Operations, May(o)
  PROVE  /\ o.op \in {"read", "write", "readdir"} => opens[o.n][o.m] > 0
         /\ o.op = "close" => opens[o.n][o.m] > Cardinality(Using(o.n, o.m))
         /\ o.op = "open" => fid[o.n] # NOFID
<1>0. dirty \in BOOLEAN
  BY DEF SlotInv, SlotTypes
<1>1. CASE o.op \in {"read", "write", "readdir"}
  BY <1>0, <1>1 DEF May, Plain
<1>2. CASE o.op = "close"
  BY <1>0, <1>2 DEF May, Plain
<1>3. CASE o.op = "open"
  BY <1>3 DEF May, Plain
<1> QED
  BY <1>1, <1>2, <1>3

LEMMA BeginSlots ==
  ASSUME NEW t \in Threads, IInv, PlaceInv, SlotInv, Begin(t) PROVE SlotInv'
<1>1. PICK o \in Operations :
         /\ May(o) /\ o.op # "none"
         /\ opens' = IF o.op = "close" THEN [opens EXCEPT ![o.n][o.m] = @ - 1] ELSE opens
         /\ loc'[t].o = o /\ loc'[t].want = Locks(o) /\ loc'[t].fid = NOFID /\ loc'[t].open = NOFID
         /\ loc'[t].st = IF Locks(o) = <<>> THEN "body" ELSE "lock"
  BY BeginFields
<1>2. /\ Others(t) /\ loc[t].st = "idle" /\ loc[t].o.op = "none"
      /\ UNCHANGED <<fid, slot, kept, dirty, name>>
  BY BeginFields DEF Begin, history
<1>3. \A u \in Threads : u # t => loc'[u] = loc[u]
  BY <1>2 DEF Others
<1>4. o \in AnyOp /\ o.n \in Node
  BY <1>1, OpFacts DEF AnyOp
<1>5. IsFiniteSet(Active')
  <2>1. Active' \subseteq Active \cup {t}
    BY <1>3 DEF Active
  <2>2. IsFiniteSet(Active \cup {t})
    BY FS_AddElement DEF SlotInv, SlotTypes
  <2> QED
    BY <2>1, <2>2, FS_Subset
<1>6. DirtyInv'
  <2>1. \A u \in Threads : loc'[u].st \in {"clunk", "reset"} => loc'[u] = loc[u]
    BY <1>1, <1>3
  <2> QED
    BY <1>2, <2>1 DEF SlotInv, DirtyInv
<1>7. ASSUME NEW u \in Threads PROVE BodyInv(u)'
  <2>1. CASE u = t
    BY <1>1, <2>1 DEF BodyInv
  <2>2. CASE u # t
    BY <1>2, <1>3, <2>2 DEF SlotInv, BodyInv
  <2> QED
    BY <2>1, <2>2
<1>8. \A n, m : Ending(n, m)' = Ending(n, m)
  BY <1>1, <1>2, <1>3 DEF Ending, Closers, After
<1>9. ShutInv'
  BY <1>2, <1>8 DEF SlotInv, ShutInv
<1>10. o.op \in {"open", "close", "read", "write"} /\ o.n = "file" => fid["file"] # NOFID
  <2>1. CASE o.op = "open" /\ o.n = "file"
    BY <1>1, <2>1, MayFacts
  <2>2. CASE o.op \in {"close", "read", "write"} /\ o.n = "file"
    <3>1. o.m \in Mode
      BY <1>4, <2>2, OpFacts DEF Mode
    <3>2. opens["file"][o.m] > 0
      <4>1. CASE o.op = "close"
        <5>1. opens["file"][o.m] > Cardinality(Using("file", o.m))
          BY <1>1, <2>2, <4>1, MayFacts
        <5>2. opens["file"][o.m] \in Nat
          BY <1>4, <2>2, <3>1, CountFacts
        <5>3. Cardinality(Using("file", o.m)) \in Nat
          BY UsingFinite
        <5> QED
          BY <5>1, <5>2, <5>3
      <4>2. CASE o.op # "close"
        BY <1>1, <2>2, <4>2, MayFacts
      <4> QED
        BY <4>1, <4>2
    <3> QED
      BY <3>1, <3>2 DEF SlotInv, AbsentInv
  <2> QED
    BY <2>1, <2>2
<1>11. CASE o.op = "close"
  <2> PICK n, m, c : n = o.n /\ m = o.m /\ c = opens[n][m] - 1
    OBVIOUS
  <2>1. n \in Node /\ m \in Mode
    BY <1>4, <1>11, OpFacts
  <2>2. opens[n][m] > Cardinality(Using(n, m)) /\ opens[n][m] \in Nat
    BY <1>1, <1>11, <2>1, CountFacts, MayFacts
  <2>3. c \in Nat /\ c + 1 = opens[n][m] /\ (Using(n, m) # {} => c > 0)
    BY <2>2, UsingFinite
  <2>4. opens' = [opens EXCEPT ![n][m] = c]
    BY <1>1, <1>11
  <2>12. SetsOpens(n, m, c)
    <3>1. SlotTypes
      BY DEF SlotInv
    <3> QED
      BY <2>1, <2>3, <2>4, <3>1, OpensSet
  <2>5. /\ opens' \in [Node -> [Mode -> Nat]] /\ opens'[n][m] = c
        /\ \A k \in Node, l \in Mode : k # n \/ l # m => opens'[k][l] = opens[k][l]
    BY <2>12 DEF SetsOpens
  <2>6. SlotTypes'
    BY <1>2, <1>5, <2>5 DEF SlotInv, SlotTypes
  <2>7. loc'[t].st = "lock"
    BY <1>1, <1>4, <1>11, OneLock, EmptySeq
  <2>8. CountInv'
    <3> SUFFICES ASSUME NEW k \in Node, NEW l \in Mode
                 PROVE  slot[k][l].ref = opens'[k][l] + Cardinality(Coming(k, l)') + Extra(k, l)
      BY <1>2 DEF CountInv, Extra
    <3>1. CASE k # n \/ l # m
      <4>1. Coming(k, l)' = Coming(k, l)
        BY <1>1, <1>2, <1>3, <3>1 DEF Coming, Closers, Before
      <4> QED
        BY <2>5, <3>1, <4>1 DEF SlotInv, CountInv
    <3>2. CASE k = n /\ l = m
      <4>1. Coming(k, l)' = Coming(k, l) \cup {t} /\ t \notin Coming(k, l)
        BY <1>1, <1>2, <1>3, <1>11, <2>7, <3>2 DEF Coming, Closers, Before
      <4>2. IsFiniteSet(Coming(k, l))
        BY CountFacts
      <4>3. Cardinality(Coming(k, l)') = Cardinality(Coming(k, l)) + 1
        BY <4>1, <4>2, FS_AddElement
      <4> QED
        BY <2>3, <2>5, <3>2, <4>3, CountFacts
    <3> QED
      BY <3>1, <3>2
  <2>9. UsingInv'
    <3>1. \A k, l : Using(k, l)' = Using(k, l)
      BY <1>1, <1>2, <1>3, <1>11 DEF Using
    <3> QED
      BY <2>3, <2>5, <3>1 DEF SlotInv, UsingInv
  <2>10. AbsentInv'
    <3>1. fid["file"] = NOFID => n # "file"
      BY <1>10, <1>11
    <3>2. \A u \in Threads : fid["file"] = NOFID => ~OnFile(u)'
      BY <1>1, <1>3, <1>10 DEF SlotInv, AbsentInv, OnFile
    <3>3. \A l \in Mode : fid["file"] = NOFID => opens'["file"][l] = 0
      BY <2>5, <3>1 DEF SlotInv, AbsentInv, Node
    <3> QED
      BY <1>2, <3>2, <3>3 DEF SlotInv, AbsentInv
  <2> QED
    BY <1>6, <1>7, <1>9, <2>6, <2>8, <2>9, <2>10 DEF SlotInv
<1>12. CASE o.op # "close"
  <2>1. SlotTypes'
    BY <1>1, <1>2, <1>5, <1>12 DEF SlotInv, SlotTypes
  <2>2. CountInv'
    BY <1>1, <1>2, <1>12, NotClosing DEF SlotInv, CountInv, Extra
  <2>3. UsingInv'
    <3> SUFFICES ASSUME NEW k \in Node, NEW l \in Mode, NEW u \in Using(k, l)' PROVE opens[k][l] > 0
      BY <1>1, <1>12 DEF UsingInv
    <3>1. CASE u # t
      <4>1. u \in Using(k, l)
        BY <1>3, <3>1 DEF Using
      <4> QED
        BY <4>1 DEF SlotInv, UsingInv
    <3>2. CASE u = t
      <4>1. o.op \in {"read", "write", "readdir"} /\ o.n = k /\ o.m = l
        BY <1>1, <3>2 DEF Using
      <4> QED
        BY <1>1, <4>1, MayFacts
    <3> QED
      BY <3>1, <3>2
  <2>4. AbsentInv'
    <3>1. \A u \in Threads : fid["file"] = NOFID => ~OnFile(u)'
      BY <1>1, <1>3, <1>10 DEF SlotInv, AbsentInv, OnFile
    <3> QED
      BY <1>1, <1>2, <1>12, <3>1 DEF SlotInv, AbsentInv
  <2> QED
    BY <1>6, <1>7, <1>9, <2>1, <2>2, <2>3, <2>4 DEF SlotInv
<1> QED
  BY <1>11, <1>12

(* Nobody but t is at work on node n.                                      *)
Vacant(t, n) ==
    \A u \in Threads \ {t} :
       loc[u].st \in Busy /\ loc[u].o.op \in {"open", "close", "read", "write", "readdir"} => loc[u].o.n # n

LEMMA HolderVacates ==
  ASSUME IInv, PlaceInv, NEW t \in Threads, NEW n \in Node, ex[n] = t PROVE Vacant(t, n)
<1> SUFFICES ASSUME NEW u \in Threads, u # t, loc[u].st \in Busy, loc[u].o.n = n,
                    loc[u].o.op \in {"open", "close", "read", "write", "readdir"}
             PROVE  FALSE
  BY DEF Vacant
<1>1. loc[u].o.op = "read"
  BY HolderAlone
<1>2. u \in sh[n] /\ ex[n] # Null
  BY <1>1 DEF PlaceInv, LockedInv, Guarded, FilesAssumption
<1> QED
  BY <1>2 DEF IInv, Excl

(* Then what the others rely on is not in that node's slots.               *)
LEMMA OthersBody ==
  ASSUME IInv, PlaceInv, SlotInv, NEW t \in Threads, NEW n \in Node, NEW m \in Mode, NEW f, NEW c,
         Vacant(t, n), SetsSlot(n, m, f, c), Others(t), name' = name,
         fid' = fid \/ \A u \in Threads \ {t} : ~(loc[u].o.op = "create" /\ loc[u].st \in Busy),
         NEW u \in Threads, u # t
  PROVE  BodyInv(u)'
<1>1. loc'[u] = loc[u] /\ BodyInv(u) /\ loc[u].o \in AnyOp
  BY DEF Others, SlotInv, IInv, LockType, LocType
<1>2. loc[u].st \in {"open", "io", "EBADF", "walk", "nget"} => loc[u].st \in Busy
  BY BusyStates
<1>3. \A k \in Node, l \in Mode : k # n => slot'[k][l] = slot[k][l]
  BY DEF SetsSlot
<1>4. ASSUME loc[u].o.op = "open", loc[u].st = "open" PROVE slot'[loc[u].o.n][loc[u].o.m].fid = NOFID
  <2>1. loc[u].o.n # n
    BY <1>2, <1>4 DEF Vacant
  <2>2. loc[u].o.n \in Node /\ loc[u].o.m \in Mode
    BY <1>1, <1>4, OpFacts
  <2> QED
    BY <1>1, <1>3, <1>4, <2>1, <2>2 DEF BodyInv
<1>5. ASSUME loc[u].o.op \in {"read", "write", "readdir"}, loc[u].st = "io"
      PROVE  /\ loc[u].pick \in (IF loc[u].o.op = "write" THEN Writable ELSE Readable)
             /\ slot'[loc[u].o.n][loc[u].pick].fid # NOFID
  <2>1. loc[u].o.n # n
    BY <1>2, <1>5 DEF Vacant
  <2>2. loc[u].o.n \in Node
    BY <1>1, <1>5, OpFacts
  <2>3. /\ loc[u].pick \in (IF loc[u].o.op = "write" THEN Writable ELSE Readable)
        /\ slot[loc[u].o.n][loc[u].pick].fid # NOFID
    BY <1>1, <1>5 DEF BodyInv
  <2>4. loc[u].pick \in Mode
    BY <2>3 DEF Readable, Writable, Mode
  <2> QED
    BY <1>3, <2>1, <2>2, <2>3, <2>4
<1>6. ASSUME loc[u].st = "EBADF", loc[u].o.op = "write", \A l \in Readable : slot["file"][l].fid = NOFID
      PROVE  \A l \in Readable : slot'["file"][l].fid = NOFID
  <2>1. loc[u].o.n = "file" /\ "file" # n
    BY <1>1, <1>2, <1>6, OpFacts DEF Vacant
  <2>2. \A l \in Readable : l \in Mode
    BY DEF Readable, Mode
  <2> QED
    BY <1>3, <1>6, <2>1, <2>2 DEF Node
<1>7. ASSUME loc[u].o.op = "create", loc[u].st \in {"walk", "nget"}
      PROVE  name' # "absent" /\ fid'["file"] = NOFID
  <2>1. fid' = fid
    BY <1>2, <1>7
  <2> QED
    BY <1>1, <1>7, <2>1 DEF BodyInv
<1>8. loc[u].st = "EBADF" =>
        \/ loc[u].o.op \in {"pagein", "pageout"}
        \/ loc[u].o.op = "write" /\ \A l \in Readable : slot'["file"][l].fid = NOFID
  BY <1>1, <1>6 DEF BodyInv
<1> QED
  BY <1>1, <1>4, <1>5, <1>7, <1>8 DEF BodyInv

(* Both ways to open a file add to a slot.                                 *)
LEMMA OpenRefSlots ==
  ASSUME NEW t \in Threads, IInv, PlaceInv, SlotInv, loc[t].o.op = "open", loc[t].st \in Busy,
         NEW f \in Nat, f # NOFID, OpenRef(t, f), UNCHANGED <<fid, kept, dirty, name>>,
         SetsFid(t, "unlock", NOFID)
  PROVE  SlotInv'
<1> PICK n, m, r, c : n = loc[t].o.n /\ m = loc[t].o.m /\ r = slot[n][m].ref + 1 /\ c = opens[n][m] + 1
  OBVIOUS
<1>1. loc[t].o \in AnyOp
  BY DEF IInv, LockType, LocType
<1>2. n \in Node /\ m \in Mode
  BY <1>1, OpFacts
<1>3. r \in Nat /\ c \in Nat /\ r > 0 /\ c > 0
  BY <1>2, CountFacts
<1>4. SetsSlot(n, m, f, r)
  <2>1. slot' = [slot EXCEPT ![n][m] = [fid |-> f, ref |-> r]]
    BY <1>2 DEF OpenRef, SlotInv, SlotTypes
  <2>2. SlotTypes
    BY DEF SlotInv
  <2> QED
    BY <1>2, <1>3, <2>1, <2>2, SlotSet
<1>5. SetsOpens(n, m, c)
  <2>1. opens' = [opens EXCEPT ![n][m] = c]
    BY <1>2 DEF OpenRef, SlotInv, SlotTypes
  <2>2. SlotTypes
    BY DEF SlotInv
  <2> QED
    BY <1>2, <1>3, <2>1, <2>2, OpensSet
<1>6. ex[n] = t
  BY DEF PlaceInv, LockedInv, Guarded
<1>7. Others(t) /\ loc'[t].o = loc[t].o /\ loc'[t].st = "unlock"
  BY DEF SetsFid
<1>8. \A u \in Threads : loc'[u].o = loc[u].o /\ (u # t => loc'[u] = loc[u])
  BY <1>7 DEF Others
<1>9. \A k, l : Coming(k, l)' = Coming(k, l) /\ Ending(k, l)' = Ending(k, l)
  <2>1. loc[t].o.op # "close" /\ loc'[t].o.op # "close"
    BY <1>7
  <2> QED
    BY <1>7, <2>1, NotClosing
<1>10. Ending(n, m) = {}
  BY <1>2, <1>6, NoneEnding
<1>11. SlotTypes'
  <2>1. Active' \subseteq Active
    BY <1>8, BusyStates DEF Active, Busy
  <2>2. IsFiniteSet(Active')
    BY <2>1, FS_Subset DEF SlotInv, SlotTypes
  <2> QED
    BY <1>4, <1>5, <2>2 DEF SlotInv, SlotTypes, SetsSlot, SetsOpens
<1>12. CountInv'
  <2> SUFFICES ASSUME NEW k \in Node, NEW l \in Mode
               PROVE  slot'[k][l].ref = opens'[k][l] + Cardinality(Coming(k, l)') + Extra(k, l)
    BY DEF CountInv, Extra
  <2>1. Coming(k, l)' = Coming(k, l)
    BY <1>9
  <2>2. CASE k # n \/ l # m
    BY <1>4, <1>5, <2>1, <2>2 DEF SlotInv, CountInv, SetsSlot, SetsOpens
  <2>3. CASE k = n /\ l = m
    <3>1. slot'[k][l].ref = r /\ opens'[k][l] = c
      BY <1>4, <1>5, <2>3 DEF SetsSlot, SetsOpens
    <3>2. slot[k][l].ref \in Nat /\ opens[k][l] \in Nat /\ Cardinality(Coming(k, l)) \in Nat /\ Extra(k, l) \in Nat
          /\ slot[k][l].ref = opens[k][l] + Cardinality(Coming(k, l)) + Extra(k, l)
      BY CountFacts
    <3>3. r = slot[k][l].ref + 1 /\ c = opens[k][l] + 1
      BY <2>3
    <3> QED
      BY <2>1, <3>1, <3>2, <3>3
  <2> QED
    BY <2>2, <2>3
<1>13. ShutInv'
  <2> SUFFICES ASSUME NEW k \in Node, NEW l \in Mode
               PROVE  IF Ending(k, l) # {} THEN slot'[k][l].ref = 0 /\ slot'[k][l].fid # NOFID
                      ELSE slot'[k][l].ref = 0 <=> slot'[k][l].fid = NOFID
    BY <1>9 DEF ShutInv
  <2>1. CASE k # n \/ l # m
    <3>1. slot'[k][l] = slot[k][l]
      BY <1>4, <2>1 DEF SetsSlot
    <3> QED
      BY <3>1 DEF SlotInv, ShutInv
  <2>2. CASE k = n /\ l = m
    <3>1. Ending(k, l) = {} /\ slot'[k][l].ref = r /\ slot'[k][l].fid = f
      BY <1>4, <1>10, <2>2 DEF SetsSlot
    <3>2. r # 0
      BY <1>3
    <3> QED
      BY <3>1, <3>2
  <2> QED
    BY <2>1, <2>2
<1>14. AbsentInv'
  <2>1. fid["file"] = NOFID => n # "file"
    BY DEF SlotInv, AbsentInv, OnFile
  <2>2. \A u \in Threads : OnFile(u)' = OnFile(u)
    BY <1>8 DEF OnFile
  <2>3. fid["file"] = NOFID => \A l \in Mode : slot'["file"][l] = slot["file"][l] /\ opens'["file"][l] = opens["file"][l]
    BY <1>4, <1>5, <2>1 DEF SetsSlot, SetsOpens, Node
  <2> QED
    BY <2>2, <2>3 DEF SlotInv, AbsentInv
<1>15. UsingInv'
  <2>1. \A k, l : Using(k, l)' = Using(k, l)
    BY <1>8 DEF Using
  <2>2. \A k \in Node, l \in Mode : opens[k][l] > 0 => opens'[k][l] > 0
    BY <1>3, <1>5 DEF SetsOpens
  <2> QED
    BY <2>1, <2>2 DEF SlotInv, UsingInv
<1>16. DirtyInv'
  <2>1. \A k \in Node, l \in Mode : slot[k][l].fid # NOFID => slot'[k][l].fid # NOFID
    BY <1>4 DEF SetsSlot
  <2>2. \A l \in Writable : l \in Mode
    BY DEF Writable, Mode
  <2>3. \A u \in Threads : loc'[u].st \in {"clunk", "reset"} => loc[u] = loc'[u]
    BY <1>7, <1>8
  <2> QED
    BY <2>1, <2>2, <2>3 DEF SlotInv, DirtyInv, Node
<1>17. ASSUME NEW u \in Threads PROVE BodyInv(u)'
  <2>1. CASE u = t
    BY <1>7, <2>1 DEF BodyInv
  <2>2. CASE u # t
    <3>1. Vacant(t, n)
      BY <1>2, <1>6, HolderVacates
    <3> QED
      BY <1>2, <1>4, <1>7, <2>2, <3>1, OthersBody
  <2> QED
    BY <2>1, <2>2
<1> QED
  BY <1>11, <1>12, <1>13, <1>14, <1>15, <1>16, <1>17 DEF SlotInv

LEMMA OpensSlots ==
  ASSUME NEW t \in Threads, IInv, PlaceInv, SlotInv, Opens(t) PROVE SlotInv'
<1>1. CASE OpenShared(t)
  <2> PICK f : f = slot[loc[t].o.n][loc[t].o.m].fid
    OBVIOUS
  <2>1. loc[t].o \in AnyOp /\ loc[t].o.op = "open" /\ loc[t].st \in Busy
    BY <1>1, BusyStates DEF IInv, LockType, LocType, OpenShared, Opening
  <2>2. f \in Nat
    BY <2>1, OpFacts, CountFacts
  <2>3. f # NOFID /\ OpenRef(t, f) /\ UNCHANGED <<fid, kept, dirty, name>>
    BY <1>1 DEF OpenShared, history
  <2>4. SetsFid(t, "unlock", NOFID)
    BY <1>1, OpensMove
  <2> QED
    BY <2>1, <2>2, <2>3, <2>4, OpenRefSlots
<1>2. CASE OpenOpen(t)
  <2>1. loc[t] \in LocType /\ loc[t].o.op = "open" /\ loc[t].st = "open" /\ loc[t].st \in Busy
    BY <1>2, BusyStates DEF IInv, LockType, OpenOpen, Opening
  <2>2. loc[t].fid \in Nat /\ loc[t].fid # NOFID
    BY <2>1 DEF LocType, PlaceInv, LocalInv
  <2>3. OpenRef(t, loc[t].fid) /\ UNCHANGED <<fid, kept, dirty, name>>
    BY <1>2 DEF OpenOpen, history
  <2>4. SetsFid(t, "unlock", NOFID)
    BY <1>2, OpensMove
  <2> QED
    BY <2>1, <2>2, <2>3, <2>4, OpenRefSlots
<1> QED
  BY <1>1, <1>2, OpensSlotsSame DEF Opens

(* Both steps of a close that write its slot.                              *)
LEMMA CloseSets ==
  ASSUME NEW t \in Threads, IInv, PlaceInv, SlotInv, loc[t].o.op = "close", loc[t].st \in Busy,
         NEW n \in Node, NEW m \in Mode, n = loc[t].o.n, m = loc[t].o.m,
         NEW f \in Nat, NEW c \in Nat, SetsSlot(n, m, f, c),
         Others(t), SameLocals(t), loc'[t].st \in {"push", "unlock"},
         UNCHANGED <<fid, opens, kept, dirty, name>>,
         c = opens[n][m] + Cardinality(Coming(n, m)') + Extra(n, m),
         IF Ending(n, m)' # {} THEN c = 0 /\ f # NOFID ELSE c = 0 <=> f = NOFID,
         f = NOFID /\ n = "file" => ~dirty
  PROVE  SlotInv'
<1>1. ex[n] = t
  BY DEF PlaceInv, LockedInv, Guarded
<1>2. \A u \in Threads : loc'[u].o = loc[u].o /\ (u # t => loc'[u] = loc[u])
  BY DEF Others, SameLocals
<1>3. ASSUME NEW k, NEW l, k # n \/ l # m
      PROVE  Coming(k, l)' = Coming(k, l) /\ Ending(k, l)' = Ending(k, l)
  <2>1. \A u \in Threads : loc[u].o.n = k /\ loc[u].o.m = l => loc'[u] = loc[u]
    BY <1>2, <1>3
  <2>2. \A u \in Threads : u \in Coming(k, l)' <=> u \in Coming(k, l)
    BY <1>2, <2>1 DEF Coming, Closers
  <2>3. \A u \in Threads : u \in Ending(k, l)' <=> u \in Ending(k, l)
    BY <1>2, <2>1 DEF Ending, Closers
  <2>4. /\ Coming(k, l)' \subseteq Threads /\ Coming(k, l) \subseteq Threads
        /\ Ending(k, l)' \subseteq Threads /\ Ending(k, l) \subseteq Threads
    BY DEF Coming, Ending, Closers
  <2> QED
    BY <2>2, <2>3, <2>4
<1>4. SlotTypes'
  <2>1. Active' \subseteq Active
    BY <1>2, BusyStates DEF Active, Busy
  <2>2. IsFiniteSet(Active')
    BY <2>1, FS_Subset DEF SlotInv, SlotTypes
  <2> QED
    BY <2>2 DEF SlotInv, SlotTypes, SetsSlot
<1>5. CountInv'
  <2> SUFFICES ASSUME NEW k \in Node, NEW l \in Mode
               PROVE  slot'[k][l].ref = opens[k][l] + Cardinality(Coming(k, l)') + Extra(k, l)
    BY DEF CountInv, Extra
  <2>1. CASE k # n \/ l # m
    <3>1. slot'[k][l] = slot[k][l] /\ Coming(k, l)' = Coming(k, l)
      BY <1>3, <2>1 DEF SetsSlot
    <3> QED
      BY <3>1 DEF SlotInv, CountInv
  <2>2. CASE k = n /\ l = m
    BY <2>2 DEF SetsSlot
  <2> QED
    BY <2>1, <2>2
<1>6. ShutInv'
  <2> SUFFICES ASSUME NEW k \in Node, NEW l \in Mode
               PROVE  IF Ending(k, l)' # {} THEN slot'[k][l].ref = 0 /\ slot'[k][l].fid # NOFID
                      ELSE slot'[k][l].ref = 0 <=> slot'[k][l].fid = NOFID
    BY DEF ShutInv
  <2>1. CASE k # n \/ l # m
    <3>1. slot'[k][l] = slot[k][l] /\ Ending(k, l)' = Ending(k, l)
      BY <1>3, <2>1 DEF SetsSlot
    <3> QED
      BY <3>1 DEF SlotInv, ShutInv
  <2>2. CASE k = n /\ l = m
    <3>1. slot'[k][l].ref = c /\ slot'[k][l].fid = f /\ Ending(k, l)' = Ending(n, m)'
      BY <2>2 DEF SetsSlot
    <3> QED
      BY <3>1
  <2> QED
    BY <2>1, <2>2
<1>7. AbsentInv'
  <2>1. fid["file"] = NOFID => n # "file"
    BY DEF SlotInv, AbsentInv, OnFile
  <2>2. \A u \in Threads : OnFile(u)' = OnFile(u)
    BY <1>2 DEF OnFile
  <2>3. fid["file"] = NOFID => \A l \in Mode : slot'["file"][l] = slot["file"][l]
    BY <2>1 DEF SetsSlot, Node
  <2> QED
    BY <2>2, <2>3 DEF SlotInv, AbsentInv
<1>8. UsingInv'
  <2>1. \A k, l : Using(k, l)' = Using(k, l)
    BY <1>2 DEF Using
  <2> QED
    BY <2>1 DEF SlotInv, UsingInv
<1>9. DirtyInv'
  <2>1. dirty => \A l \in Mode : slot["file"][l].fid # NOFID => slot'["file"][l].fid # NOFID
    BY DEF SetsSlot, Node
  <2>2. \A l \in Writable : l \in Mode
    BY DEF Writable, Mode
  <2>3. \A u \in Threads : loc'[u].st \in {"clunk", "reset"} => loc[u] = loc'[u]
    BY <1>2
  <2> QED
    BY <2>1, <2>2, <2>3 DEF SlotInv, DirtyInv
<1>10. ASSUME NEW u \in Threads PROVE BodyInv(u)'
  <2>1. CASE u = t
    BY <1>2, <2>1 DEF BodyInv
  <2>2. CASE u # t
    <3>1. Vacant(t, n)
      BY <1>1, HolderVacates
    <3> QED
      BY <2>2, <3>1, OthersBody
  <2> QED
    BY <2>1, <2>2
<1> QED
  BY <1>4, <1>5, <1>6, <1>7, <1>8, <1>9, <1>10 DEF SlotInv

OneLess(r, c, a, d, e) ==
    /\ c \in Nat /\ c = r - 1 /\ c = a + d + e /\ r # 0
    /\ r = 1 => c = 0
    /\ r # 1 => c # 0

LEMMA LessOne ==
  ASSUME NEW r \in Nat, NEW a \in Nat, NEW b \in Nat, NEW d \in Nat, NEW e \in Nat,
         r = a + b + e, d = b - 1
  PROVE  OneLess(r, r - 1, a, d, e)
  BY DEF OneLess

LEMMA RefSet ==
  ASSUME SlotTypes, NEW n \in Node, NEW m \in Mode, NEW c \in Nat,
         slot' = [slot EXCEPT ![n][m].ref = c]
  PROVE  SetsSlot(n, m, slot[n][m].fid, c)
<1>1. slot \in [Node -> [Mode -> [fid : Nat, ref : Nat]]] /\ slot[n][m] \in [fid : Nat, ref : Nat]
  BY DEF SlotTypes
<1>2. [slot[n][m] EXCEPT !.ref = c] = [fid |-> slot[n][m].fid, ref |-> c] /\ slot[n][m].fid \in Nat
  BY <1>1
<1>3. slot' = [slot EXCEPT ![n][m] = [fid |-> slot[n][m].fid, ref |-> c]]
  BY <1>1, <1>2
<1> QED
  BY <1>2, <1>3, SlotSet

LEMMA CloseDecrementSlots ==
  ASSUME NEW t \in Threads, IInv, PlaceInv, SlotInv, CloseDecrement(t) PROVE SlotInv'
<1> PICK n, m, f, r : n = loc[t].o.n /\ m = loc[t].o.m /\ f = slot[n][m].fid /\ r = slot[n][m].ref
  OBVIOUS
<1>1. /\ loc[t].o \in AnyOp /\ loc[t].o.op = "close" /\ loc[t].st = "body" /\ loc[t].st \in Busy
      /\ UNCHANGED <<fid, opens, kept, dirty, name>>
  BY BusyStates DEF IInv, LockType, LocType, CloseDecrement, Closing, history
<1>2. n \in Node /\ m \in Mode
  BY <1>1, OpFacts
<1>3. ex[n] = t
  BY <1>1 DEF PlaceInv, LockedInv, Guarded
<1>4. t \in Coming(n, m) /\ Ending(n, m) = {}
  <2>1. ~(loc[t].o.op = "close" /\ loc[t].st \in After)
    BY <1>1 DEF After
  <2> QED
    BY <1>1, <1>2, <1>3, <2>1, NoneEnding DEF Coming, Closers, Before
<1>5. /\ IsFiniteSet(Coming(n, m)) /\ Cardinality(Coming(n, m)) \in Nat /\ Extra(n, m) \in Nat
      /\ r \in Nat /\ f \in Nat /\ opens[n][m] \in Nat
      /\ r = opens[n][m] + Cardinality(Coming(n, m)) + Extra(n, m)
  BY <1>2, CountFacts
<1>6. Cardinality(Coming(n, m) \ {t}) = Cardinality(Coming(n, m)) - 1 /\ Cardinality(Coming(n, m) \ {t}) \in Nat
  <2>1. IsFiniteSet(Coming(n, m) \ {t}) /\ Cardinality(Coming(n, m) \ {t}) = Cardinality(Coming(n, m)) - 1
    <3>1. IsFiniteSet(Coming(n, m))
      BY <1>5
    <3> QED
      BY <1>4, <3>1, FS_RemoveElement
  <2> QED
    BY <2>1, FS_CardinalityType
<1>7. OneLess(r, r - 1, opens[n][m], Cardinality(Coming(n, m) \ {t}), Extra(n, m))
  BY <1>5, <1>6, LessOne
<1> PICK c : c = r - 1
  OBVIOUS
<1>16. OneLess(r, c, opens[n][m], Cardinality(Coming(n, m) \ {t}), Extra(n, m))
  BY <1>7
<1>8. f # NOFID
  <2>1. r # 0
    BY <1>16 DEF OneLess
  <2> QED
    BY <1>2, <1>4, <2>1 DEF SlotInv, ShutInv
<1>9. /\ slot' = [slot EXCEPT ![n][m].ref = r - 1]
      /\ Goto(t, IF r = 1 THEN "push" ELSE "unlock")
  BY <1>2, <1>8 DEF CloseDecrement, ClosedSlot, LastRef, SlotInv, SlotTypes
<1>10. SetsSlot(n, m, f, c)
  <2>1. slot' = [slot EXCEPT ![n][m].ref = c] /\ SlotTypes
    BY <1>9 DEF SlotInv
  <2> QED
    BY <1>2, <1>16, <2>1, RefSet DEF OneLess
<1>11. Others(t) /\ SameLocals(t) /\ loc'[t].st = IF r = 1 THEN "push" ELSE "unlock"
  BY <1>9, GotoFields
<1>12. \A u \in Threads : loc'[u].o = loc[u].o /\ (u # t => loc'[u] = loc[u])
  BY <1>11 DEF Others, SameLocals
<1>13. Coming(n, m)' = Coming(n, m) \ {t}
  BY <1>11, <1>12 DEF Coming, Closers, Before
<1>14. IF Ending(n, m)' # {} THEN c = 0 /\ f # NOFID ELSE c = 0 <=> f = NOFID
  <2>1. CASE r = 1
    <3>1. t \in Ending(n, m)'
      BY <1>1, <1>11, <2>1 DEF Ending, Closers, After, SameLocals
    <3>2. c = 0
      BY <1>16, <2>1 DEF OneLess
    <3> QED
      BY <1>8, <3>1, <3>2
  <2>2. CASE r # 1
    <3>1. Ending(n, m)' = Ending(n, m)
      BY <1>1, <1>11, <1>12, <2>2 DEF Ending, Closers, After
    <3>2. c # 0
      BY <1>16, <2>2 DEF OneLess
    <3> QED
      BY <1>4, <1>8, <3>1, <3>2
  <2> QED
    BY <2>1, <2>2
<1>17. c \in Nat
  BY <1>16 DEF OneLess
<1>15. c = opens[n][m] + Cardinality(Coming(n, m)') + Extra(n, m)
  BY <1>16, <1>13 DEF OneLess
<1> QED
  BY <1>1, <1>2, <1>5, <1>17, <1>8, <1>10, <1>11, <1>14, <1>15, CloseSets

LEMMA CloseResetSlots ==
  ASSUME NEW t \in Threads, IInv, PlaceInv, SlotInv, CloseReset(t) PROVE SlotInv'
<1> PICK n, m : n = loc[t].o.n /\ m = loc[t].o.m
  OBVIOUS
<1>1. /\ loc[t].o \in AnyOp /\ loc[t].o.op = "close" /\ loc[t].st = "reset" /\ loc[t].st \in Busy
      /\ UNCHANGED <<fid, opens, kept, dirty, name>>
  BY BusyStates DEF IInv, LockType, LocType, CloseReset, Closing, history
<1>2. n \in Node /\ m \in Mode
  BY <1>1, OpFacts
<1>3. ex[n] = t
  BY <1>1 DEF PlaceInv, LockedInv, Guarded
<1>4. slot[n][m].ref = 0
  <2>1. t \in Ending(n, m)
    BY <1>1 DEF Ending, Closers, After
  <2> QED
    BY <1>2, <2>1 DEF SlotInv, ShutInv
<1>5. SetsSlot(n, m, NOFID, 0)
  <2>1. slot \in [Node -> [Mode -> [fid : Nat, ref : Nat]]]
    BY DEF SlotInv, SlotTypes
  <2>2. slot[n][m] \in [fid : Nat, ref : Nat]
    BY <1>2, <2>1
  <2>3. [slot[n][m] EXCEPT !.fid = NOFID] = [fid |-> NOFID, ref |-> 0]
    BY <1>4, <2>2
  <2>4. slot' = [slot EXCEPT ![n][m].fid = NOFID]
    BY DEF CloseReset
  <2>5. slot' = [slot EXCEPT ![n][m] = [fid |-> NOFID, ref |-> 0]]
    BY <1>2, <2>1, <2>3, <2>4
  <2>6. SlotTypes /\ NOFID \in Nat /\ 0 \in Nat
    BY Naturals0 DEF SlotInv
  <2> QED
    BY <1>2, <2>5, <2>6, SlotSet
<1>6. Others(t) /\ SameLocals(t) /\ loc'[t].st = "unlock"
  BY GotoFields DEF CloseReset
<1>7. \A u \in Threads : loc'[u].o = loc[u].o /\ (u # t => loc'[u] = loc[u])
  BY <1>6 DEF Others, SameLocals
<1>8. Coming(n, m)' = Coming(n, m)
  BY <1>1, <1>6, <1>7 DEF Coming, Closers, Before
<1>9. Ending(n, m)' = {}
  <2> SUFFICES ASSUME NEW u \in Ending(n, m)' PROVE FALSE
    OBVIOUS
  <2>1. u \in Threads /\ loc'[u].st \in After /\ loc'[u].o.op = "close" /\ loc'[u].o.n = n
    BY DEF Ending, Closers
  <2>2. u # t
    BY <1>6, <2>1 DEF After
  <2>3. loc[u].st \in Busy /\ loc[u].o.op = "close" /\ loc[u].o.n = n
    BY <1>7, <2>1, <2>2, BusyStates DEF After
  <2> QED
    BY <1>2, <1>3, <2>1, <2>2, <2>3, HolderAlone
<1>10. 0 = opens[n][m] + Cardinality(Coming(n, m)') + Extra(n, m)
  BY <1>2, <1>4, <1>8, CountFacts
<1>11. n = "file" => ~dirty
  BY <1>1 DEF SlotInv, DirtyInv
<1>12. NOFID \in Nat /\ 0 \in Nat
  BY Naturals0
<1> QED
  BY <1>1, <1>2, <1>5, <1>6, <1>9, <1>10, <1>11, <1>12, CloseSets

(* nget_9p makes the file's node, with ncreate_9p's fids in it.            *)
LEMMA CreateNodeSlots ==
  ASSUME NEW t \in Threads, IInv, PlaceInv, SlotInv, CreateNode(t) PROVE SlotInv'
<1> PICK f, r : f = loc[t].open /\ r = slot["file"]["ORDWR"].ref + 1
  OBVIOUS
<1>0. "file" \in Node /\ "dir" \in Node /\ "ORDWR" \in Mode
  BY DEF Node, Mode
<1>1. /\ loc[t] \in LocType /\ loc[t].o.op = "create" /\ loc[t].st = "nget" /\ loc[t].st \in Busy
      /\ fid' = [fid EXCEPT !["file"] = loc[t].fid] /\ kept' = kept + 1
      /\ UNCHANGED <<opens, dirty, name>>
  BY BusyStates DEF IInv, LockType, CreateNode, Creating
<1>2. f \in Nat /\ f # NOFID /\ loc[t].fid \in Nat /\ loc[t].fid # NOFID
  BY <1>1 DEF LocType, PlaceInv, LocalInv
<1>3. fid["file"] = NOFID /\ name # "absent"
  BY <1>1 DEF SlotInv, BodyInv
<1>4. \A u \in Threads : ~OnFile(u)
  BY <1>3 DEF SlotInv, AbsentInv
<1>5. Others(t) /\ loc'[t].o = loc[t].o /\ loc'[t].st = "unlock"
  BY NodeFields
<1>6. \A u \in Threads : loc'[u].o = loc[u].o /\ (u # t => loc'[u] = loc[u])
  BY <1>5 DEF Others
<1>7. r \in Nat /\ r > 0
  BY <1>0, CountFacts
<1>8. SetsSlot("file", "ORDWR", f, r)
  <2>1. slot' = [slot EXCEPT !["file"]["ORDWR"] = [fid |-> f, ref |-> r]]
    BY <1>0 DEF CreateNode, SlotInv, SlotTypes
  <2>2. SlotTypes
    BY DEF SlotInv
  <2> QED
    BY <1>0, <1>2, <1>7, <2>1, <2>2, SlotSet
<1>9. \A k, l : Coming(k, l)' = Coming(k, l) /\ Ending(k, l)' = Ending(k, l)
  <2>1. loc[t].o.op # "close" /\ loc'[t].o.op # "close"
    BY <1>1, <1>5
  <2> QED
    BY <1>5, <2>1, NotClosing
<1>10. \A l : Ending("file", l) = {}
  BY <1>4 DEF OnFile, Ending, Closers
<1>11. SlotTypes'
  <2>1. Active' \subseteq Active
    BY <1>1, <1>6 DEF Active
  <2>2. IsFiniteSet(Active')
    BY <2>1, FS_Subset DEF SlotInv, SlotTypes
  <2>3. fid' \in [Node -> Nat]
    BY <1>1, <1>2 DEF SlotInv, SlotTypes
  <2>4. kept' \in Nat
    BY <1>1 DEF SlotInv, SlotTypes
  <2> QED
    BY <1>1, <1>8, <2>2, <2>3, <2>4 DEF SlotInv, SlotTypes, SetsSlot
<1>12. CountInv'
  <2> SUFFICES ASSUME NEW k \in Node, NEW l \in Mode
               PROVE  slot'[k][l].ref = opens[k][l] + Cardinality(Coming(k, l)') + Extra(k, l)'
    BY <1>1 DEF CountInv
  <2>1. Coming(k, l)' = Coming(k, l)
    BY <1>9
  <2>2. CASE k # "file" \/ l # "ORDWR"
    <3>1. slot'[k][l] = slot[k][l] /\ Extra(k, l)' = Extra(k, l)
      BY <1>8, <2>2 DEF SetsSlot, Extra
    <3> QED
      BY <2>1, <3>1 DEF SlotInv, CountInv
  <2>3. CASE k = "file" /\ l = "ORDWR"
    <3>1. slot'[k][l].ref = slot[k][l].ref + 1 /\ Extra(k, l)' = Extra(k, l) + 1
      BY <1>1, <1>8, <2>3 DEF SetsSlot, Extra
    <3>2. slot[k][l].ref \in Nat /\ opens[k][l] \in Nat /\ Cardinality(Coming(k, l)) \in Nat /\ Extra(k, l) \in Nat
          /\ slot[k][l].ref = opens[k][l] + Cardinality(Coming(k, l)) + Extra(k, l)
      BY CountFacts
    <3> QED
      BY <2>1, <3>1, <3>2
  <2> QED
    BY <2>2, <2>3
<1>13. ShutInv'
  <2> SUFFICES ASSUME NEW k \in Node, NEW l \in Mode
               PROVE  IF Ending(k, l) # {} THEN slot'[k][l].ref = 0 /\ slot'[k][l].fid # NOFID
                      ELSE slot'[k][l].ref = 0 <=> slot'[k][l].fid = NOFID
    BY <1>9 DEF ShutInv
  <2>1. CASE k # "file" \/ l # "ORDWR"
    <3>1. slot'[k][l] = slot[k][l]
      BY <1>8, <2>1 DEF SetsSlot
    <3> QED
      BY <3>1 DEF SlotInv, ShutInv
  <2>2. CASE k = "file" /\ l = "ORDWR"
    <3>1. Ending(k, l) = {} /\ slot'[k][l].ref = r /\ slot'[k][l].fid = f
      BY <1>8, <1>10, <2>2 DEF SetsSlot
    <3>2. r # 0
      BY <1>7
    <3> QED
      BY <1>2, <3>1, <3>2
  <2> QED
    BY <2>1, <2>2
<1>14. AbsentInv'
  <2>1. fid'["file"] = loc[t].fid
    BY <1>0, <1>1 DEF SlotInv, SlotTypes
  <2> QED
    BY <1>1, <1>2, <1>3, <2>1 DEF AbsentInv
<1>15. UsingInv'
  <2>1. \A k, l : Using(k, l)' = Using(k, l)
    BY <1>6 DEF Using
  <2> QED
    BY <1>1, <2>1 DEF SlotInv, UsingInv
<1>16. DirtyInv'
  <2>1. \A k \in Node, l \in Mode : slot[k][l].fid # NOFID => slot'[k][l].fid # NOFID
    BY <1>2, <1>8 DEF SetsSlot
  <2>2. \A l \in Writable : l \in Mode
    BY DEF Writable, Mode
  <2>3. \A u \in Threads : loc'[u].st \in {"clunk", "reset"} => loc[u] = loc'[u]
    BY <1>5, <1>6
  <2> QED
    BY <1>0, <1>1, <2>1, <2>2, <2>3 DEF SlotInv, DirtyInv
<1>17. ASSUME NEW u \in Threads PROVE BodyInv(u)'
  <2>1. CASE u = t
    BY <1>5, <2>1 DEF BodyInv
  <2>2. CASE u # t
    <3>1. Vacant(t, "file")
      <4> SUFFICES ASSUME NEW v \in Threads, loc[v].st \in Busy, loc[v].o.n = "file",
                          loc[v].o.op \in {"open", "close", "read", "write", "readdir"}
                   PROVE  FALSE
        BY DEF Vacant
      <4>1. loc[v].o.op = "readdir" /\ loc[v].o \in AnyOp
        BY <1>4 DEF OnFile, IInv, LockType, LocType
      <4> QED
        BY <4>1, OpFacts
    <3>2. \A v \in Threads \ {t} : ~(loc[v].o.op = "create" /\ loc[v].st \in Busy)
      <4> SUFFICES ASSUME NEW v \in Threads, v # t, loc[v].o.op = "create", loc[v].st \in Busy PROVE FALSE
        OBVIOUS
      <4>1. loc[v].o \in AnyOp /\ loc[t].o \in AnyOp
        BY DEF IInv, LockType, LocType
      <4>2. loc[v].o.n = "dir" /\ loc[t].o.n = "dir"
        BY <1>1, <4>1, OpFacts
      <4>3. ex["dir"] = t
        BY <1>1, <4>2 DEF PlaceInv, LockedInv, Guarded
      <4> QED
        BY <1>0, <4>2, <4>3, HolderAlone
    <3> QED
      BY <1>0, <1>1, <1>5, <1>8, <2>2, <3>1, <3>2, OthersBody
  <2> QED
    BY <2>1, <2>2
<1> QED
  BY <1>11, <1>12, <1>13, <1>14, <1>15, <1>16, <1>17 DEF SlotInv

-----------------------------------------------------------------------------
LEMMA SlotInit == Init => SlotInv
<1> SUFFICES ASSUME Init PROVE SlotInv
  OBVIOUS
<1>1. /\ loc = [t \in Threads |-> Idle] /\ kept = 0 /\ dirty = FALSE
  BY DEF Init
<1> DEFINE first == [m \in Mode |-> CASE m = "OREAD" -> 3 [] m = "OWRITE" -> 4 [] OTHER -> 5]
<1>2. PICK present \in BOOLEAN, opened \in Opened :
         /\ present \/ opened = {}
         /\ fid = [dir |-> 1, file |-> IF present THEN 2 ELSE NOFID]
         /\ name = IF present THEN "there" ELSE "absent"
         /\ slot = [n \in Node |-> [m \in Mode |->
                      IF n = "file" /\ m \in opened THEN [fid |-> first[m], ref |-> 1] ELSE Closed]]
         /\ opens = [n \in Node |-> [m \in Mode |-> IF n = "file" /\ m \in opened THEN 1 ELSE 0]]
  BY DEF Init
<1>3. \A m \in Mode : first[m] \in {3, 4, 5}
  OBVIOUS
<1> HIDE DEF first
<1>4. \A t \in Threads : loc[t] = Idle /\ loc[t].o.op = "none" /\ loc[t].st = "idle"
  BY <1>1, IdleFacts
<1>5. \A n, m : Coming(n, m) = {} /\ Ending(n, m) = {} /\ Using(n, m) = {}
  BY <1>4 DEF Coming, Ending, Closers, Using
<1>6. Closed = [fid |-> NOFID, ref |-> 0]
  BY DEF Closed
<1>7. SlotTypes
  <2>1. Active = {}
    BY <1>4 DEF Active
  <2>2. IsFiniteSet(Active)
    BY <2>1, FS_EmptySet
  <2>3. slot \in [Node -> [Mode -> [fid : Nat, ref : Nat]]] /\ opens \in [Node -> [Mode -> Nat]]
    BY <1>2, <1>3, <1>6 DEF NOFID
  <2>4. fid \in [Node -> Nat]
    BY <1>2 DEF Node, NOFID
  <2> QED
    BY <1>1, <1>2, <2>2, <2>3, <2>4 DEF SlotTypes
<1>8. CountInv
  <2>1. Cardinality({}) = 0
    BY FS_EmptySet
  <2> SUFFICES ASSUME NEW n \in Node, NEW m \in Mode
               PROVE  slot[n][m].ref = opens[n][m] + Cardinality(Coming(n, m)) + Extra(n, m)
    BY DEF CountInv
  <2>2. Cardinality(Coming(n, m)) = 0 /\ Extra(n, m) = 0
    BY <1>1, <1>5, <2>1 DEF Extra
  <2>3. slot[n][m].ref = opens[n][m] /\ opens[n][m] \in {0, 1}
    BY <1>2, <1>6
  <2> QED
    BY <2>2, <2>3
<1>9. ShutInv
  <2> SUFFICES ASSUME NEW n \in Node, NEW m \in Mode PROVE slot[n][m].ref = 0 <=> slot[n][m].fid = NOFID
    BY <1>5 DEF ShutInv
  <2> QED
    BY <1>2, <1>3, <1>6 DEF NOFID
<1>10. AbsentInv
  <2>1. fid["file"] = NOFID <=> ~present
    BY <1>2 DEF NOFID
  <2> QED
    BY <1>2, <1>4, <1>6, <2>1 DEF AbsentInv, OnFile, Node
<1>11. UsingInv /\ DirtyInv
  BY <1>1, <1>5 DEF UsingInv, DirtyInv
<1>12. \A t \in Threads : BodyInv(t)
  BY <1>4 DEF BodyInv
<1> QED
  BY <1>7, <1>8, <1>9, <1>10, <1>11, <1>12 DEF SlotInv

LEMMA SlotStep == ASSUME IInv, PlaceInv, SlotInv, [Next]_vars PROVE SlotInv'
<1>1. CASE UNCHANGED vars
  <2>1. UNCHANGED <<locks, fid, slot, name, dirty, loc, opens, kept>>
    BY <1>1 DEF vars, history
  <2>2. /\ SlotTypes => SlotTypes'
        /\ DirtyInv /\ UsingInv => DirtyInv' /\ UsingInv'
    BY <2>1 DEF SlotTypes, DirtyInv, UsingInv, Active, Using
  <2>3. (CountInv => CountInv') /\ (ShutInv => ShutInv')
    BY <2>1 DEF CountInv, ShutInv, Coming, Ending, Closers, Extra
  <2>4. (AbsentInv => AbsentInv') /\ \A t \in Threads : BodyInv(t) => BodyInv(t)'
    BY <2>1 DEF AbsentInv, BodyInv, OnFile, Using
  <2> QED
    BY <2>2, <2>3, <2>4 DEF SlotInv
<1>2. ASSUME NEW t \in Threads, Begin(t) PROVE SlotInv'
  BY <1>2, BeginSlots
<1>3. ASSUME NEW t \in Threads, Step(t) PROVE SlotInv'
  BY <1>3, LockingsSlots, OpensSlots, CloseDecrementSlots, CloseClunkSlots, CloseResetSlots, TransferringSlots,
     AttributesSlots, RemoveSlots, CreatesSlotsSame, CreateNodeSlots DEF Step, Closes
<1> QED
  BY <1>1, <1>2, <1>3 DEF Next
=============================================================================
