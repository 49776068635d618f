-------------------------- MODULE Mac9PVolume_proofs --------------------------
(***************************************************************************)
(* Theorems about the volume's fids for every number of lookups and files, *)
(* every size of the fid space and every set of faults, however the        *)
(* lookups of a file overlap.                                              *)
(***************************************************************************)
EXTENDS Mac9PVolume, FiniteSetTheorems, SequenceTheorems, TLAPS

USE VolumeAssumption

Temps == {l \in Lookups : at[l] \in {"walk", "check", "insert", "clunkTemp", "releaseTemp"}}
Givers == {l \in Lookups : at[l] \in {"clunk", "release"}}
Entered == {x \in Files : fidTable[x] # NoEntry}
Sharing == {"live", "clunkTemp", "releaseTemp"}

(* The pool hands out numbers below nextFid; what is not in use is unknown *)
(* to the server.                                                          *)
PoolInv ==
    /\ nextFid \in 1 .. NOFID
    /\ freeFids \in Seq(1 .. nextFid - 1)
    /\ inUseFids \subseteq 1 .. nextFid - 1
    /\ \A m, n \in 1 .. Len(freeFids) : freeFids[m] = freeFids[n] => m = n
    /\ \A n \in 1 .. Len(freeFids) : freeFids[n] \notin inUseFids
    /\ \A f \in Fids : f \notin inUseFids => bound[f] = Unbound
    /\ strayed \subseteq inUseFids
    /\ rootFid = 0 \/ rootFid \in inUseFids

(* A fid in use has one owner: a lookup before its entry, an entry, or a   *)
(* reclaim after it.                                                       *)
Owned(f) == f \in inUseFids \ strayed /\ f # rootFid

OwnInv ==
    /\ \A l \in Temps : Owned(tempFid[l])
    /\ \A l \in Givers : Owned(itemFid[l])
    /\ \A x \in Entered : Owned(fidTable[x].fid)
    /\ \A k, l \in Temps : tempFid[k] = tempFid[l] => k = l
    /\ \A k, l \in Givers : itemFid[k] = itemFid[l] => k = l
    /\ \A x, y \in Entered : fidTable[x].fid = fidTable[y].fid => x = y
    /\ \A l \in Temps, k \in Givers : tempFid[l] # itemFid[k]
    /\ \A l \in Temps, x \in Entered : tempFid[l] # fidTable[x].fid
    /\ \A k \in Givers, x \in Entered : itemFid[k] # fidTable[x].fid

(* No fid in use is without one.                                           *)
HasOwner(f) ==
    \/ f \in strayed
    \/ mounted /\ f = rootFid
    \/ \E l \in Temps : tempFid[l] = f
    \/ \E l \in Givers : itemFid[l] = f
    \/ \E x \in Entered : fidTable[x].fid = f

(* What the server has bound a fid to at each stage of its life.           *)
BoundInv ==
    /\ \A l \in Temps : bound[tempFid[l]] =
          IF at[l] \in {"walk", "releaseTemp"} THEN Unbound ELSE target[l]
    /\ \A l \in Givers : bound[itemFid[l]] = IF at[l] = "clunk" THEN target[l] ELSE Unbound
    /\ \A x \in Entered : bound[fidTable[x].fid] = x

(* A lookup's Item whose entry was written over: it alone has the fid now. *)
Orphan(l) == itemFid[l] \in strayed /\ bound[itemFid[l]] = target[l]

(* An Item that is out, or about to be, has the fid of its file's entry,   *)
(* and its share in the entry's count, or is an orphan.  One whose lookup  *)
(* failed after counting keeps its share until its fid strays.             *)
ItemInv(l) ==
    /\ at[l] \notin {"idle", "gone", "failed"} => target[l] \in Files
    /\ at[l] \in {"idle", "walk", "check", "insert"} => itemFid[l] = 0
    /\ at[l] \in Sharing =>
          \/ target[l] \in Entered /\ itemFid[l] = fidTable[target[l]].fid
          \/ Orphan(l)
    /\ at[l] = "failed" /\ itemFid[l] # 0 =>
          \/ itemFid[l] \in strayed
          \/ target[l] \in Entered /\ itemFid[l] = fidTable[target[l]].fid

Sharers(x) ==
    {l \in Lookups : /\ target[l] = x /\ itemFid[l] # 0
                     /\ itemFid[l] = fidTable[x].fid
                     /\ at[l] \in {"live", "clunkTemp", "releaseTemp", "failed"}}

CountInv ==
    \A x \in Files :
        IsFiniteSet(Sharers(x)) /\ fidTable[x].refCount = Cardinality(Sharers(x))

(* The root's entry lives as long as its Item, and the lookups meanwhile.  *)
RootInv ==
    /\ target[RootItem] = RootFile
    /\ at[RootItem] \in {"idle", "live", "clunk", "release", "gone"}
    /\ fidTable[RootFile] = IF at[RootItem] = "live" THEN [fid |-> rootFid, refCount |-> 1] ELSE NoEntry
    /\ at[RootItem] \in {"live", "clunk", "release"} => mounted /\ itemFid[RootItem] = rootFid
    /\ mounted => rootFid \in inUseFids
    /\ mounted => bound[rootFid] = IF at[RootItem] \in {"live", "clunk"} THEN RootFile ELSE Unbound
    /\ at[RootItem] # "live" => \A l \in Lookups : at[l] \in {"idle", "gone", "failed"}

UnmountedInv ==
    ~mounted => inUseFids \subseteq strayed /\ Entered = {}

(* What holds until the numbers wrap or a reclaim is crossed.              *)
Safe ==
    /\ PoolInv /\ OwnInv /\ (\A f \in inUseFids : HasOwner(f)) /\ BoundInv
    /\ (\A l \in Lookups : ItemInv(l)) /\ CountInv /\ RootInv /\ UnmountedInv

IInv == TypeOK /\ (Uncrossed => Safe)

-----------------------------------------------------------------------------
States == {"idle", "walk", "check", "insert", "clunkTemp", "releaseTemp", "live", "clunk", "release",
           "gone", "failed"}

LEMMA SeqSubset == ASSUME NEW S, NEW T, S \subseteq T, NEW s \in Seq(S) PROVE s \in Seq(T)
<1>1. Len(s) \in Nat /\ s \in [1 .. Len(s) -> T]
  OBVIOUS
<1> QED
  BY <1>1, SeqDef

(* What a step of one lookup does to the places.                           *)
LEMMA AtFacts ==
  ASSUME TypeOK, NEW i \in Items, NEW s \in States, at' = [at EXCEPT ![i] = s]
  PROVE  /\ at' \in [Items -> States] /\ at'[i] = s /\ \A k \in Items \ {i} : at'[k] = at[k]
         /\ Lookups \subseteq Items /\ RootItem \in Items /\ RootItem \notin Lookups
  BY DEF TypeOK, States, Items

LEMMA WalkStep == ASSUME TypeOK, Safe, NEW l \in Lookups, Walk(l) PROVE Safe'
<1> USE DEF Safe
<1>1. /\ at[l] = "walk" /\ bound[tempFid[l]] = Unbound
      /\ bound' = [bound EXCEPT ![tempFid[l]] = target[l]]
      /\ at' = [at EXCEPT ![l] = "check"] /\ at[RootItem] = "live"
      /\ UNCHANGED <<mounted, mounts, nextFid, freeFids, inUseFids, rootFid, fidTable, target, tempFid, itemFid, strayed>>
  BY DEF Walk, poolVars, RootInv
<1>2. /\ at' \in [Items -> States] /\ at'[l] = "check" /\ \A k \in Items \ {l} : at'[k] = at[k]
      /\ Lookups \subseteq Items /\ RootItem \in Items /\ RootItem \notin Lookups
  BY <1>1, AtFacts DEF States, Items
<1>3. Temps' = Temps /\ Givers' = Givers /\ Entered' = Entered /\ l \in Temps
  BY <1>1, <1>2 DEF Temps, Givers, Entered
<1>4. PoolInv'
  BY <1>1, <1>3 DEF PoolInv, OwnInv, Owned, TypeOK
<1>5. OwnInv' /\ (\A f \in inUseFids : HasOwner(f))'
  BY <1>1, <1>3 DEF OwnInv, Owned, HasOwner
<1>6. BoundInv'
  BY <1>1, <1>2, <1>3 DEF BoundInv, OwnInv, TypeOK, Temps, Givers, Entered, Owned
<1>7. (\A k \in Lookups : ItemInv(k))'
  BY <1>1, <1>2, <1>3 DEF ItemInv, Sharing, Orphan
<1>8. CountInv'
  <2>1. \A x : Sharers(x)' = Sharers(x)
    BY <1>1, <1>2 DEF Sharers
  <2> QED
    BY <1>1, <2>1 DEF CountInv
<1>9. RootInv'
  BY <1>1, <1>2, <1>3 DEF RootInv, OwnInv, Owned, TypeOK
<1>10. UnmountedInv'
  BY <1>1, <1>3 DEF UnmountedInv
<1> QED
  BY <1>4, <1>5, <1>6, <1>7, <1>8, <1>9, <1>10

LEMMA WalkFailsStep == ASSUME TypeOK, Safe, NEW l \in Lookups, WalkFails(l) PROVE Safe'
<1> USE DEF Safe
<1>1. /\ at[l] = "walk" /\ at' = [at EXCEPT ![l] = "failed"] /\ strayed' = strayed \cup {tempFid[l]}
      /\ UNCHANGED <<mounted, mounts, nextFid, freeFids, inUseFids, rootFid, bound, fidTable, target, tempFid, itemFid>>
  BY DEF WalkFails, poolVars
<1>2. /\ at' \in [Items -> States] /\ at'[l] = "failed" /\ \A k \in Items \ {l} : at'[k] = at[k]
      /\ Lookups \subseteq Items /\ RootItem \in Items /\ RootItem \notin Lookups
  BY <1>1, AtFacts DEF States, Items
<1>3. /\ Temps' = Temps \ {l} /\ Givers' = Givers /\ Entered' = Entered /\ l \in Temps
      /\ tempFid[l] \in inUseFids \ strayed /\ tempFid[l] # rootFid
  BY <1>1, <1>2 DEF Temps, Givers, Entered, OwnInv, Owned
<1>4. PoolInv'
  BY <1>1, <1>3 DEF PoolInv
<1>5. OwnInv'
  BY <1>1, <1>3 DEF OwnInv, Owned
<1>6. (\A f \in inUseFids : HasOwner(f))'
  BY <1>1, <1>3 DEF HasOwner
<1>7. BoundInv'
  BY <1>1, <1>2, <1>3 DEF BoundInv, Temps, Givers
<1>8. (\A k \in Lookups : ItemInv(k))'
  BY <1>1, <1>2, <1>3 DEF ItemInv, Sharing, Orphan
<1>9. CountInv'
  <2>1. itemFid[l] = 0
    BY <1>1 DEF ItemInv
  <2>2. \A x : Sharers(x)' = Sharers(x)
    BY <1>1, <1>2, <2>1 DEF Sharers
  <2> QED
    BY <1>1, <2>2 DEF CountInv
<1>10. RootInv' /\ UnmountedInv'
  BY <1>1, <1>2, <1>3 DEF RootInv, UnmountedInv
<1> QED
  BY <1>4, <1>5, <1>6, <1>7, <1>8, <1>9, <1>10

(* releaseFid of a fid in use that is not the root's.                      *)
LEMMA ReleaseFacts ==
  ASSUME TypeOK, PoolInv, NEW f \in inUseFids, f # rootFid, ReleaseFid(f)
  PROVE  /\ inUseFids' = inUseFids \ {f} /\ UNCHANGED <<nextFid, rootFid>>
         /\ freeFids' \in Seq(1 .. nextFid - 1)
         /\ \A m, n \in 1 .. Len(freeFids') : freeFids'[m] = freeFids'[n] => m = n
         /\ \A n \in 1 .. Len(freeFids') : freeFids'[n] \notin inUseFids'
<1>1. f \in 1 .. nextFid - 1 /\ f # 0 /\ f # NOFID
  BY DEF PoolInv
<1>2. inUseFids' = inUseFids \ {f} /\ UNCHANGED <<nextFid, rootFid>> /\ freeFids' = Append(freeFids, f)
  BY <1>1 DEF ReleaseFid
<1>3. /\ freeFids' \in Seq(1 .. nextFid - 1) /\ Len(freeFids') = Len(freeFids) + 1
      /\ Len(freeFids) \in Nat
      /\ \A n \in 1 .. Len(freeFids) : freeFids'[n] = freeFids[n]
      /\ freeFids'[Len(freeFids) + 1] = f
  BY <1>1, <1>2 DEF PoolInv
<1>4. \A n \in 1 .. Len(freeFids') : n \in 1 .. Len(freeFids) \/ n = Len(freeFids) + 1
  BY <1>3
<1> QED
  BY <1>2, <1>3, <1>4 DEF PoolInv

(* A lookup gives back tempFid, which the server does not know.            *)
LEMMA ReleaseTempKeeps ==
  ASSUME TypeOK, Safe, NEW l \in Temps, NEW s \in {"failed", "live"}, ReleaseFid(tempFid[l]),
         IF s = "live" THEN at[l] = "releaseTemp" ELSE at[l] = "walk",
         at' = [at EXCEPT ![l] = s],
         UNCHANGED <<mounted, mounts, bound, fidTable, target, tempFid, itemFid, strayed>>
  PROVE  Safe'
<1> USE DEF Safe
<1>1. /\ tempFid[l] \in inUseFids \ strayed /\ tempFid[l] # rootFid /\ bound[tempFid[l]] = Unbound
      /\ l \in Lookups
  BY DEF OwnInv, Owned, BoundInv, Temps
<1>2. /\ at' \in [Items -> States] /\ at'[l] = s /\ \A k \in Items \ {l} : at'[k] = at[k]
      /\ Lookups \subseteq Items /\ RootItem \in Items /\ RootItem \notin Lookups
  BY <1>1, AtFacts DEF States, Items
<1>3. Temps' = Temps \ {l} /\ Givers' = Givers /\ Entered' = Entered
  BY <1>1, <1>2 DEF Temps, Givers, Entered
<1>4. /\ inUseFids' = inUseFids \ {tempFid[l]} /\ UNCHANGED <<nextFid, rootFid>>
      /\ freeFids' \in Seq(1 .. nextFid - 1)
      /\ \A m, n \in 1 .. Len(freeFids') : freeFids'[m] = freeFids'[n] => m = n
      /\ \A n \in 1 .. Len(freeFids') : freeFids'[n] \notin inUseFids'
  BY <1>1, ReleaseFacts
<1>5. PoolInv'
  <2>1. strayed' \subseteq inUseFids' /\ (rootFid' = 0 \/ rootFid' \in inUseFids')
    BY <1>1, <1>4 DEF PoolInv
  <2>2. \A f \in Fids : f \notin inUseFids' => bound'[f] = Unbound
    BY <1>1, <1>4 DEF PoolInv
  <2> QED
    BY <1>3, <1>4, <2>1, <2>2 DEF PoolInv
<1>6. OwnInv'
  <2>1. /\ \A k \in Temps' : tempFid[k] # tempFid[l]
        /\ \A k \in Givers : itemFid[k] # tempFid[l]
        /\ \A x \in Entered : fidTable[x].fid # tempFid[l]
    BY <1>3 DEF OwnInv
  <2> QED
    BY <1>3, <1>4, <2>1 DEF OwnInv, Owned
<1>7. (\A f \in inUseFids : HasOwner(f))'
  BY <1>3, <1>4 DEF HasOwner
<1>8. BoundInv'
  BY <1>2, <1>3 DEF BoundInv, Temps, Givers
<1>9. (\A k \in Lookups : ItemInv(k))'
  BY <1>1, <1>2, <1>3 DEF ItemInv, Sharing, Orphan
<1>10. CountInv'
  <2>1. at[l] = "walk" => itemFid[l] = 0
    BY <1>1 DEF ItemInv
  <2>2. \A x : Sharers(x)' = Sharers(x)
    BY <1>1, <1>2, <2>1 DEF Sharers
  <2> QED
    BY <2>2 DEF CountInv
<1>11. RootInv'
  BY <1>1, <1>2, <1>4 DEF RootInv
<1>12. UnmountedInv'
  BY <1>1, <1>3, <1>4 DEF UnmountedInv
<1> QED
  BY <1>5, <1>6, <1>7, <1>8, <1>9, <1>10, <1>11, <1>12

LEMMA WalkEmptyStep == ASSUME TypeOK, Safe, NEW l \in Lookups, WalkEmpty(l) PROVE Safe'
<1>1. l \in Temps
  BY DEF WalkEmpty, Temps
<1> QED
  BY <1>1, ReleaseTempKeeps DEF WalkEmpty

LEMMA ReleaseTempStep == ASSUME TypeOK, Safe, NEW l \in Lookups, ReleaseTemp(l) PROVE Safe'
<1>1. l \in Temps
  BY DEF ReleaseTemp, Temps
<1> QED
  BY <1>1, ReleaseTempKeeps DEF ReleaseTemp

LEMMA ClunkTempStep == ASSUME TypeOK, Safe, NEW l \in Lookups, ClunkTemp(l) \/ ClunkTempFails(l) PROVE Safe'
<1> USE DEF Safe
<1> DEFINE s == at'[l]
<1>1. /\ at[l] = "clunkTemp" /\ bound' = [bound EXCEPT ![tempFid[l]] = Unbound]
      /\ \/ at' = [at EXCEPT ![l] = "releaseTemp"] /\ strayed' = strayed
         \/ at' = [at EXCEPT ![l] = "failed"] /\ strayed' = strayed \cup {tempFid[l]}
      /\ UNCHANGED <<mounted, mounts, nextFid, freeFids, inUseFids, rootFid, fidTable, target, tempFid, itemFid>>
  BY DEF ClunkTemp, ClunkTempFails, ClunkAnswered, ClunkRefused, poolVars
<1>2. /\ at' \in [Items -> States] /\ s \in {"releaseTemp", "failed"} /\ \A k \in Items \ {l} : at'[k] = at[k]
      /\ Lookups \subseteq Items /\ RootItem \in Items /\ RootItem \notin Lookups
      /\ strayed' = IF s = "failed" THEN strayed \cup {tempFid[l]} ELSE strayed
  BY <1>1, AtFacts DEF States, Items
<1>3. /\ Temps' = (IF s = "failed" THEN Temps \ {l} ELSE Temps)
      /\ Givers' = Givers /\ Entered' = Entered /\ l \in Temps
      /\ tempFid[l] \in inUseFids \ strayed /\ tempFid[l] # rootFid
  BY <1>1, <1>2 DEF Temps, Givers, Entered, OwnInv, Owned
<1>4. PoolInv'
  BY <1>1, <1>2, <1>3 DEF PoolInv, TypeOK
<1>5. OwnInv'
  <2>1. \A k \in Temps' : k \in Temps /\ Owned(tempFid[k])'
    BY <1>1, <1>2, <1>3 DEF OwnInv, Owned
  <2>2. (\A k \in Givers : Owned(itemFid[k])') /\ (\A x \in Entered : Owned(fidTable[x].fid)')
    BY <1>1, <1>2, <1>3 DEF OwnInv, Owned
  <2> QED
    BY <1>1, <1>3, <2>1, <2>2 DEF OwnInv
<1>6. (\A f \in inUseFids : HasOwner(f))'
  BY <1>1, <1>2, <1>3 DEF HasOwner
<1>7. BoundInv'
  <2>1. /\ \A k \in Temps : k # l => tempFid[k] # tempFid[l]
        /\ \A k \in Givers : itemFid[k] # tempFid[l]
        /\ \A x \in Entered : fidTable[x].fid # tempFid[l]
    BY <1>3 DEF OwnInv
  <2>2. \A f : f # tempFid[l] => bound'[f] = bound[f]
    BY <1>1
  <2>3. bound'[tempFid[l]] = Unbound
    BY <1>1 DEF TypeOK, Items
  <2>4. \A k \in Temps' : bound'[tempFid[k]] = IF at'[k] \in {"walk", "releaseTemp"} THEN Unbound ELSE target[k]
    BY <1>2, <1>3, <2>1, <2>2, <2>3 DEF BoundInv, Temps
  <2>5. \A k \in Givers : bound'[itemFid[k]] = (IF at'[k] = "clunk" THEN target[k] ELSE Unbound)
    BY <1>1, <1>2, <2>1, <2>2 DEF BoundInv, Givers
  <2>6. \A x \in Entered : bound'[fidTable[x].fid] = x
    BY <2>1, <2>2 DEF BoundInv
  <2> QED
    BY <1>1, <1>3, <2>4, <2>5, <2>6 DEF BoundInv
<1>8. (\A k \in Lookups : ItemInv(k))'
  BY <1>1, <1>2, <1>3 DEF ItemInv, Sharing, Orphan
<1>9. CountInv'
  <2>1. \A x : Sharers(x)' = Sharers(x)
    BY <1>1, <1>2 DEF Sharers
  <2> QED
    BY <1>1, <2>1 DEF CountInv
<1>10. RootInv'
  BY <1>1, <1>2, <1>3 DEF RootInv, TypeOK
<1>11. UnmountedInv'
  BY <1>1, <1>2, <1>3 DEF UnmountedInv
<1> QED
  BY <1>4, <1>5, <1>6, <1>7, <1>8, <1>9, <1>10, <1>11

LEMMA EntryFacts ==
  ASSUME TypeOK, PoolInv, OwnInv
  PROVE  /\ Entered \subseteq Files /\ Files \subseteq DOMAIN fidTable /\ RootFile \in DOMAIN fidTable
         /\ \A x \in Entered : /\ fidTable[x] \in [fid : Fids, refCount : Nat \ {0}]
                               /\ fidTable[x].fid # 0 /\ fidTable[x].fid \in Fids
                               /\ fidTable[x].refCount \in Nat \ {0}
         /\ \A x \in Files \ Entered : fidTable[x].fid = 0 /\ fidTable[x].refCount = 0
<1>1. \A x \in Entered : fidTable[x].fid \in 1 .. nextFid - 1
  BY DEF OwnInv, Owned, PoolInv
<1>2. \A x \in Entered : fidTable[x].fid # 0
  BY <1>1 DEF PoolInv
<1>3. /\ Entered \subseteq Files /\ Files \subseteq DOMAIN fidTable /\ RootFile \in DOMAIN fidTable
      /\ \A x \in Entered : /\ fidTable[x] \in [fid : Fids, refCount : Nat \ {0}]
                            /\ fidTable[x].fid \in Fids /\ fidTable[x].refCount \in Nat \ {0}
      /\ \A x \in Files \ Entered : fidTable[x].fid = 0 /\ fidTable[x].refCount = 0
  BY DEF TypeOK, Entered, NoEntry
<1> QED
  BY <1>2, <1>3

LEMMA CheckTableShares ==
  ASSUME TypeOK, Safe, NEW l \in Lookups, CheckTable(l), target[l] \in Entered PROVE Safe'
<1> USE DEF Safe
<1> DEFINE x == target[l]
<1>1. /\ at[l] = "check" /\ fidTable' = [fidTable EXCEPT ![x].refCount = @ + 1]
      /\ itemFid' = [itemFid EXCEPT ![l] = fidTable[x].fid] /\ at' = [at EXCEPT ![l] = "clunkTemp"]
      /\ UNCHANGED <<mounted, mounts, nextFid, freeFids, inUseFids, rootFid, bound, target, tempFid, strayed>>
  BY DEF CheckTable, poolVars, Entered
<1>2. /\ at' \in [Items -> States] /\ at'[l] = "clunkTemp" /\ \A k \in Items \ {l} : at'[k] = at[k]
      /\ Lookups \subseteq Items /\ RootItem \in Items /\ RootItem \notin Lookups
  BY <1>1, AtFacts DEF States, Items
<1>3. /\ x \in Files /\ x # RootFile /\ itemFid[l] = 0
      /\ itemFid' \in [Items -> Fids] /\ itemFid'[l] = fidTable[x].fid /\ fidTable[x].fid # 0
      /\ \A k \in Items \ {l} : itemFid'[k] = itemFid[k]
  BY <1>1, <1>2, EntryFacts DEF Entered, ItemInv, TypeOK, Items
<1>4. /\ DOMAIN fidTable' = DOMAIN fidTable
      /\ fidTable'[x] = [fid |-> fidTable[x].fid, refCount |-> fidTable[x].refCount + 1]
      /\ \A y : y # x => fidTable'[y] = fidTable[y]
      /\ fidTable'[x] \in [fid : Fids, refCount : Nat \ {0}]
  BY <1>1, <1>3, EntryFacts
<1>5. /\ Temps' = Temps /\ Givers' = Givers /\ Entered' = Entered /\ l \in Temps
      /\ \A y \in Entered : fidTable'[y].fid = fidTable[y].fid
  <2>1. fidTable'[x] # NoEntry
    BY <1>4, <1>3 DEF NoEntry
  <2> QED
    BY <1>1, <1>2, <1>3, <1>4, <2>1 DEF Temps, Givers, Entered
<1>6. PoolInv'
  BY <1>1, <1>5 DEF PoolInv
<1>7. OwnInv'
  <2>1. \A k \in Givers : itemFid'[k] = itemFid[k]
    BY <1>1, <1>2, <1>3 DEF Givers
  <2> QED
    BY <1>1, <1>5, <2>1 DEF OwnInv, Owned
<1>8. (\A f \in inUseFids : HasOwner(f))'
  <2>1. \A k \in Givers : itemFid'[k] = itemFid[k]
    BY <1>1, <1>2, <1>3 DEF Givers
  <2> QED
    BY <1>1, <1>5, <2>1 DEF HasOwner
<1>9. BoundInv'
  BY <1>1, <1>2, <1>3, <1>5 DEF BoundInv, Temps, Givers
<1>10. (\A k \in Lookups : ItemInv(k))'
  <2>1. ItemInv(l)'
    BY <1>1, <1>2, <1>3, <1>5 DEF ItemInv, Sharing, Orphan
  <2>2. ASSUME NEW k \in Lookups \ {l} PROVE ItemInv(k)'
    <3>1. at'[k] = at[k] /\ itemFid'[k] = itemFid[k]
      BY <1>2, <1>3
    <3> QED
      BY <1>1, <1>5, <3>1 DEF ItemInv, Sharing, Orphan
  <2> QED
    BY <2>1, <2>2
<1>11. CountInv'
  <2>1. Sharers(x)' = Sharers(x) \cup {l} /\ l \notin Sharers(x)
    BY <1>1, <1>2, <1>3, <1>4 DEF Sharers
  <2>2. \A y : y # x => Sharers(y)' = Sharers(y)
    BY <1>1, <1>2, <1>3, <1>4 DEF Sharers
  <2>3. Cardinality(Sharers(x) \cup {l}) = Cardinality(Sharers(x)) + 1
    BY <1>3, <2>1, FS_AddElement DEF CountInv
  <2>4. IsFiniteSet(Sharers(x)') /\ (fidTable[x].refCount)' = Cardinality(Sharers(x)')
    BY <1>1, <1>3, <1>4, <2>1, <2>3, FS_AddElement DEF CountInv
  <2>5. ASSUME NEW y \in Files, y # x
        PROVE  IsFiniteSet(Sharers(y)') /\ (fidTable[y].refCount)' = Cardinality(Sharers(y)')
    BY <1>4, <2>2, <2>5 DEF CountInv
  <2> QED
    BY <1>1, <2>4, <2>5 DEF CountInv
<1>12. RootInv' /\ UnmountedInv'
  BY <1>1, <1>2, <1>3, <1>4, <1>5 DEF RootInv, UnmountedInv
<1> QED
  BY <1>6, <1>7, <1>8, <1>9, <1>10, <1>11, <1>12

LEMMA CheckTableMisses ==
  ASSUME TypeOK, Safe, NEW l \in Lookups, CheckTable(l), target[l] \notin Entered PROVE Safe'
<1> USE DEF Safe
<1>0. at[l] = "check" /\ target[l] \in Files
  BY DEF CheckTable, ItemInv
<1>1. /\ at' = [at EXCEPT ![l] = "insert"]
      /\ UNCHANGED <<mounted, mounts, nextFid, freeFids, inUseFids, rootFid, bound, fidTable, target, tempFid, itemFid, strayed>>
  BY <1>0 DEF CheckTable, poolVars, Entered
<1>2. /\ at' \in [Items -> States] /\ at'[l] = "insert" /\ \A k \in Items \ {l} : at'[k] = at[k]
      /\ Lookups \subseteq Items /\ RootItem \in Items /\ RootItem \notin Lookups
  BY <1>1, AtFacts DEF States, Items
<1>3. Temps' = Temps /\ Givers' = Givers /\ Entered' = Entered /\ l \in Temps
  BY <1>0, <1>1, <1>2 DEF Temps, Givers, Entered
<1>4. PoolInv'
  BY <1>1, <1>3 DEF PoolInv
<1>5. OwnInv' /\ (\A f \in inUseFids : HasOwner(f))'
  BY <1>1, <1>3 DEF OwnInv, Owned, HasOwner
<1>6. BoundInv'
  BY <1>0, <1>1, <1>2, <1>3 DEF BoundInv, Temps, Givers
<1>7. (\A k \in Lookups : ItemInv(k))'
  BY <1>0, <1>1, <1>2, <1>3 DEF ItemInv, Sharing, Orphan
<1>8. CountInv'
  <2>1. \A x : Sharers(x)' = Sharers(x)
    BY <1>0, <1>1, <1>2 DEF Sharers
  <2> QED
    BY <1>1, <2>1 DEF CountInv
<1>9. RootInv' /\ UnmountedInv'
  BY <1>0, <1>1, <1>2, <1>3 DEF RootInv, UnmountedInv
<1> QED
  BY <1>4, <1>5, <1>6, <1>7, <1>8, <1>9

(* An entry another lookup has written meanwhile is written over: its fid  *)
(* strays, and the Items that have it keep it.                             *)
LEMMA InsertEntryStep == ASSUME TypeOK, Safe, NEW l \in Lookups, InsertEntry(l) PROVE Safe'
<1> USE DEF Safe
<1> DEFINE x == target[l]
<1>1. /\ at[l] = "insert" /\ fidTable' = [fidTable EXCEPT ![x] = [fid |-> tempFid[l], refCount |-> 1]]
      /\ itemFid' = [itemFid EXCEPT ![l] = tempFid[l]] /\ at' = [at EXCEPT ![l] = "live"]
      /\ UNCHANGED <<mounted, mounts, nextFid, freeFids, inUseFids, rootFid, bound, target, tempFid>>
      /\ strayed' = strayed \cup (IF fidTable[x] # NoEntry THEN {fidTable[x].fid} ELSE {})
  BY DEF InsertEntry, poolVars
<1>2. /\ at' \in [Items -> States] /\ at'[l] = "live" /\ \A k \in Items \ {l} : at'[k] = at[k]
      /\ Lookups \subseteq Items /\ RootItem \in Items /\ RootItem \notin Lookups
  BY <1>1, AtFacts DEF States, Items
<1>3. /\ l \in Temps /\ x \in Files /\ x # RootFile /\ itemFid[l] = 0
      /\ tempFid[l] \in inUseFids \ strayed /\ tempFid[l] # rootFid
      /\ tempFid[l] \in Fids \ {0} /\ bound[tempFid[l]] = x
  <2>1. l \in Temps
    BY <1>1 DEF Temps
  <2>2. x \in Files /\ itemFid[l] = 0
    BY <1>1 DEF ItemInv
  <2>3. Owned(tempFid[l])
    BY <2>1 DEF OwnInv
  <2>4. tempFid[l] \in 1 .. nextFid - 1 /\ nextFid \in 1 .. NOFID
    BY <2>3 DEF Owned, PoolInv
  <2>5. bound[tempFid[l]] = x
    BY <1>1, <2>1 DEF BoundInv
  <2> QED
    BY <2>1, <2>2, <2>3, <2>4, <2>5 DEF Owned, Fids
<1>4. /\ itemFid' \in [Items -> Fids] /\ itemFid'[l] = tempFid[l]
      /\ \A k \in Items \ {l} : itemFid'[k] = itemFid[k]
      /\ fidTable'[x] = [fid |-> tempFid[l], refCount |-> 1]
      /\ \A y : y # x => fidTable'[y] = fidTable[y]
  BY <1>1, <1>2, <1>3 DEF TypeOK
<1>5. /\ Temps' = Temps \ {l} /\ Givers' = Givers /\ Entered' = Entered \cup {x}
      /\ \A y \in Entered \ {x} : fidTable'[y] = fidTable[y]
      /\ \A k \in Givers : itemFid'[k] = itemFid[k]
  <2>1. fidTable'[x] # NoEntry
    BY <1>4, <1>3 DEF NoEntry
  <2> QED
    BY <1>1, <1>2, <1>3, <1>4, <2>1 DEF Temps, Givers, Entered
(* What strays is the fid of the entry written over, which had no other    *)
(* owner.                                                                  *)
<1>6. /\ \A f : f \in strayed' => f \in strayed \/ (x \in Entered /\ f = fidTable[x].fid)
      /\ x \in Entered => fidTable[x].fid \in strayed'
      /\ strayed \subseteq strayed' /\ strayed' \subseteq inUseFids /\ tempFid[l] \notin strayed'
  <2>1. x \in Entered <=> fidTable[x] # NoEntry
    BY <1>3 DEF Entered
  <2>2. x \in Entered => fidTable[x].fid \in inUseFids /\ fidTable[x].fid # tempFid[l]
    BY <1>3 DEF OwnInv, Owned
  <2> QED
    BY <1>1, <1>3, <2>1, <2>2 DEF PoolInv
<1>7. PoolInv'
  BY <1>1, <1>5, <1>6 DEF PoolInv
<1>8. OwnInv'
  <2>1. /\ \A k \in Temps' : tempFid[k] # tempFid[l]
        /\ \A k \in Givers : itemFid[k] # tempFid[l]
        /\ \A y \in Entered : fidTable[y].fid # tempFid[l]
    BY <1>3, <1>5 DEF OwnInv
  <2>2. fidTable'[x].fid = tempFid[l] /\ \A y \in Entered \ {x} : fidTable'[y].fid = fidTable[y].fid
    BY <1>4, <1>5
  <2>3. x \in Entered => /\ \A k \in Temps : tempFid[k] # fidTable[x].fid
                         /\ \A k \in Givers : itemFid[k] # fidTable[x].fid
                         /\ \A y \in Entered \ {x} : fidTable[y].fid # fidTable[x].fid
    BY DEF OwnInv
  <2>4. /\ \A k \in Temps' : Owned(tempFid[k])'
        /\ \A k \in Givers' : Owned(itemFid[k])'
    BY <1>1, <1>3, <1>5, <1>6, <2>3 DEF OwnInv, Owned
  <2>5. \A y \in Entered' : Owned(fidTable[y].fid)'
    BY <1>1, <1>3, <1>5, <1>6, <2>2, <2>3 DEF OwnInv, Owned
  <2>6. \A y, z \in Entered' : fidTable'[y].fid = fidTable'[z].fid => y = z
    BY <1>5, <2>1, <2>2 DEF OwnInv
  <2>7. /\ \A k \in Temps', y \in Entered' : tempFid'[k] # fidTable'[y].fid
        /\ \A k \in Givers', y \in Entered' : itemFid'[k] # fidTable'[y].fid
    BY <1>1, <1>5, <2>1, <2>2 DEF OwnInv
  <2> QED
    BY <1>1, <1>5, <2>4, <2>5, <2>6, <2>7 DEF OwnInv
<1>9. (\A f \in inUseFids : HasOwner(f))'
  <2> SUFFICES ASSUME NEW f \in inUseFids PROVE HasOwner(f)'
    BY <1>1
  <2>1. CASE f = tempFid[l]
    BY <1>4, <1>5, <2>1 DEF HasOwner
  <2>2. CASE x \in Entered /\ f = fidTable[x].fid
    BY <1>6, <2>2 DEF HasOwner
  <2>3. CASE f # tempFid[l] /\ ~(x \in Entered /\ f = fidTable[x].fid)
    <3>1. HasOwner(f)
      OBVIOUS
    <3>2. CASE f \in strayed \/ (mounted /\ f = rootFid)
      BY <1>1, <1>6, <3>2 DEF HasOwner
    <3>3. CASE \E k \in Temps : tempFid[k] = f
      BY <1>1, <1>5, <2>3, <3>3 DEF HasOwner
    <3>4. CASE \E k \in Givers : itemFid[k] = f
      BY <1>5, <3>4 DEF HasOwner
    <3>5. CASE \E y \in Entered : fidTable[y].fid = f
      BY <1>5, <2>3, <3>5 DEF HasOwner
    <3> QED
      BY <3>1, <3>2, <3>3, <3>4, <3>5 DEF HasOwner
  <2> QED
    BY <2>1, <2>2, <2>3
<1>10. BoundInv'
  <2>1. \A y \in Entered' : bound[fidTable'[y].fid] = y
    BY <1>3, <1>4, <1>5 DEF BoundInv
  <2> QED
    BY <1>1, <1>2, <1>5, <2>1 DEF BoundInv, Temps, Givers
<1>11. (\A k \in Lookups : ItemInv(k))'
  <2>1. ItemInv(l)'
    BY <1>1, <1>2, <1>3, <1>4, <1>5 DEF ItemInv, Sharing
  <2>2. ASSUME NEW k \in Lookups \ {l} PROVE ItemInv(k)'
    <3>1. at'[k] = at[k] /\ itemFid'[k] = itemFid[k] /\ ItemInv(k)
      BY <1>2, <1>4
    <3>2. target[k] = x /\ x \in Entered /\ itemFid[k] = fidTable[x].fid
             => itemFid[k] \in strayed' /\ bound[itemFid[k]] = x
      BY <1>6 DEF BoundInv
    <3>3. at[k] \in Sharing => \/ target[k] \in Entered' /\ itemFid[k] = fidTable'[target[k]].fid
                               \/ itemFid[k] \in strayed' /\ bound[itemFid[k]] = target[k]
      BY <1>5, <1>6, <3>1, <3>2 DEF ItemInv, Orphan
    <3>4. at[k] = "failed" /\ itemFid[k] # 0 =>
             itemFid[k] \in strayed' \/ (target[k] \in Entered' /\ itemFid[k] = fidTable'[target[k]].fid)
      BY <1>5, <1>6, <3>1, <3>2 DEF ItemInv
    <3> QED
      BY <1>1, <3>1, <3>3, <3>4 DEF ItemInv, Orphan
  <2> QED
    BY <2>1, <2>2
<1>12. CountInv'
  <2>1. ASSUME NEW k \in Lookups, k # l, target[k] = x, itemFid[k] # 0,
               at[k] \in {"live", "clunkTemp", "releaseTemp", "failed"}
        PROVE  itemFid[k] # tempFid[l]
    <3>1. itemFid[k] \in strayed \/ (x \in Entered /\ itemFid[k] = fidTable[x].fid)
      BY <2>1 DEF ItemInv, Sharing, Orphan
    <3> QED
      BY <1>3, <3>1 DEF OwnInv
  <2>2. Sharers(x)' = {l}
    BY <1>1, <1>2, <1>3, <1>4, <2>1 DEF Sharers
  <2>3. \A y : y # x => Sharers(y)' = Sharers(y)
    BY <1>1, <1>2, <1>3, <1>4 DEF Sharers
  <2>4. IsFiniteSet({l}) /\ Cardinality({l}) = 1
    BY FS_Singleton
  <2>5. IsFiniteSet(Sharers(x)') /\ (fidTable[x].refCount)' = Cardinality(Sharers(x)')
    BY <1>1, <1>4, <2>2, <2>4
  <2>6. ASSUME NEW y \in Files, y # x
        PROVE  IsFiniteSet(Sharers(y)') /\ (fidTable[y].refCount)' = Cardinality(Sharers(y)')
    BY <1>4, <2>3, <2>6 DEF CountInv
  <2> QED
    BY <1>1, <2>5, <2>6 DEF CountInv
<1>13. RootInv' /\ UnmountedInv'
  BY <1>1, <1>2, <1>3, <1>4, <1>5 DEF RootInv, UnmountedInv, TypeOK
<1> QED
  BY <1>7, <1>8, <1>9, <1>10, <1>11, <1>12, <1>13

(* An orphan is given up: its file has no entry any more, or the reclaim   *)
(* would be crossed, and its fid stays where it has strayed.               *)
LEMMA ReclaimOrphan ==
  ASSUME TypeOK, Safe, NEW l \in Lookups, at[l] = "live", target[l] \notin Entered, Reclaim(l)
  PROVE  Safe'
<1> USE DEF Safe
<1>1. target[l] \in Files /\ itemFid[l] \in strayed
  BY DEF ItemInv, Sharing, Orphan
<1>2. /\ at' = [at EXCEPT ![l] = "gone"]
      /\ UNCHANGED <<mounted, mounts, nextFid, freeFids, inUseFids, rootFid, bound, fidTable, target, tempFid, itemFid, strayed>>
  BY <1>1 DEF Reclaim, poolVars, Entered
<1>3. /\ at' \in [Items -> States] /\ at'[l] = "gone" /\ \A k \in Items \ {l} : at'[k] = at[k]
      /\ Lookups \subseteq Items /\ RootItem \in Items /\ RootItem \notin Lookups
  BY <1>2, AtFacts DEF States, Items
<1>4. Temps' = Temps /\ Givers' = Givers /\ Entered' = Entered
  BY <1>2, <1>3 DEF Temps, Givers, Entered
<1>5. PoolInv' /\ UnmountedInv'
  BY <1>2, <1>4 DEF PoolInv, UnmountedInv
<1>6. OwnInv' /\ (\A f \in inUseFids : HasOwner(f))'
  BY <1>2, <1>4 DEF OwnInv, Owned, HasOwner
<1>7. BoundInv'
  BY <1>2, <1>3, <1>4 DEF BoundInv, Temps, Givers
<1>8. (\A k \in Lookups : ItemInv(k))'
  BY <1>2, <1>3, <1>4 DEF ItemInv, Sharing, Orphan
<1>9. CountInv'
  <2>1. \A x \in Files : l \notin Sharers(x)
    BY <1>1, EntryFacts DEF Sharers
  <2>2. \A x \in Files : Sharers(x)' = Sharers(x)
    BY <1>2, <1>3, <2>1 DEF Sharers
  <2> QED
    BY <1>2, <2>2 DEF CountInv
<1>10. RootInv'
  BY <1>2, <1>3 DEF RootInv
<1> QED
  BY <1>5, <1>6, <1>7, <1>8, <1>9, <1>10

(* A reclaim that is not crossed counts down its own entry.                *)
LEMMA ReclaimOwn ==
  ASSUME NEW l \in Lookups, target[l] \in Entered, Reclaim(l), Uncrossed'
  PROVE  itemFid[l] = fidTable[target[l]].fid
  BY DEF Reclaim, CountDown, Entered, Uncrossed

(* The Item gives up one of several shares.                                *)
LEMMA ReclaimShare ==
  ASSUME TypeOK, Safe, NEW l \in Lookups, at[l] = "live", target[l] \in Entered,
         itemFid[l] = fidTable[target[l]].fid, fidTable[target[l]].refCount > 1, Reclaim(l)
  PROVE  Safe'
<1> USE DEF Safe
<1> DEFINE x == target[l]
<1>0. x \in Files /\ x # RootFile /\ x \in Entered /\ itemFid[l] = fidTable[x].fid
  BY DEF ItemInv, Sharing, Orphan
<1>1. /\ fidTable' = [fidTable EXCEPT ![x].refCount = @ - 1] /\ at' = [at EXCEPT ![l] = "gone"]
      /\ UNCHANGED <<mounted, mounts, nextFid, freeFids, inUseFids, rootFid, bound, target, tempFid, itemFid, strayed>>
  <2>1. fidTable[x] # NoEntry /\ fidTable[x].refCount \in Nat
    BY <1>0, EntryFacts DEF Entered
  <2> QED
    BY <2>1 DEF Reclaim, poolVars
<1>2. /\ at' \in [Items -> States] /\ at'[l] = "gone" /\ \A k \in Items \ {l} : at'[k] = at[k]
      /\ Lookups \subseteq Items /\ RootItem \in Items /\ RootItem \notin Lookups
  BY <1>1, AtFacts DEF States, Items
<1>3. /\ DOMAIN fidTable' = DOMAIN fidTable
      /\ fidTable'[x] = [fid |-> fidTable[x].fid, refCount |-> fidTable[x].refCount - 1]
      /\ \A y : y # x => fidTable'[y] = fidTable[y]
      /\ fidTable'[x] \in [fid : Fids, refCount : Nat \ {0}]
      /\ fidTable[x].fid # 0 /\ fidTable[x].refCount \in Nat
  <2>1. /\ x \in DOMAIN fidTable /\ fidTable[x] \in [fid : Fids, refCount : Nat \ {0}]
        /\ fidTable[x].fid # 0
    BY <1>0, EntryFacts
  <2> QED
    BY <1>1, <2>1
<1>4. /\ Temps' = Temps /\ Givers' = Givers /\ Entered' = Entered
      /\ \A y \in Entered : fidTable'[y].fid = fidTable[y].fid
  <2>1. fidTable'[x] # NoEntry
    BY <1>3 DEF NoEntry
  <2> QED
    BY <1>0, <1>1, <1>2, <1>3, <2>1 DEF Temps, Givers, Entered
<1>5. PoolInv'
  BY <1>1, <1>4 DEF PoolInv
<1>6. OwnInv' /\ (\A f \in inUseFids : HasOwner(f))'
  BY <1>1, <1>4 DEF OwnInv, Owned, HasOwner
<1>7. BoundInv'
  BY <1>1, <1>2, <1>4 DEF BoundInv, Temps, Givers
<1>8. (\A k \in Lookups : ItemInv(k))'
  BY <1>1, <1>2, <1>4 DEF ItemInv, Sharing, Orphan
<1>9. CountInv'
  <2>1. Sharers(x)' = Sharers(x) \ {l} /\ l \in Sharers(x)
    BY <1>0, <1>1, <1>2, <1>3 DEF Sharers
  <2>2. \A y : y # x => Sharers(y)' = Sharers(y)
    BY <1>1, <1>2, <1>3 DEF Sharers
  <2>3. Cardinality(Sharers(x) \ {l}) = Cardinality(Sharers(x)) - 1
    BY <1>0, <2>1, FS_RemoveElement DEF CountInv
  <2>4. IsFiniteSet(Sharers(x)') /\ (fidTable[x].refCount)' = Cardinality(Sharers(x)')
    BY <1>0, <1>1, <1>3, <2>1, <2>3, FS_RemoveElement DEF CountInv
  <2>5. ASSUME NEW y \in Files, y # x
        PROVE  IsFiniteSet(Sharers(y)') /\ (fidTable[y].refCount)' = Cardinality(Sharers(y)')
    BY <1>3, <2>2, <2>5 DEF CountInv
  <2> QED
    BY <1>1, <2>4, <2>5 DEF CountInv
<1>10. RootInv' /\ UnmountedInv'
  BY <1>0, <1>1, <1>2, <1>3, <1>4 DEF RootInv, UnmountedInv
<1> QED
  BY <1>5, <1>6, <1>7, <1>8, <1>9, <1>10

(* The last share: the entry goes, and its fid becomes the reclaim's.      *)
LEMMA ReclaimLast ==
  ASSUME TypeOK, Safe, NEW l \in Lookups, at[l] = "live", target[l] \in Entered,
         itemFid[l] = fidTable[target[l]].fid, ~(fidTable[target[l]].refCount > 1), Reclaim(l)
  PROVE  Safe'
<1> USE DEF Safe
<1> DEFINE x == target[l]
<1>0. x \in Files /\ x # RootFile /\ x \in Entered /\ itemFid[l] = fidTable[x].fid
  BY DEF ItemInv, Sharing, Orphan
<1>1. /\ fidTable' = [fidTable EXCEPT ![x] = NoEntry] /\ at' = [at EXCEPT ![l] = "clunk"]
      /\ UNCHANGED <<mounted, mounts, nextFid, freeFids, inUseFids, rootFid, bound, target, tempFid, itemFid, strayed>>
      /\ fidTable[x].refCount = 1 /\ itemFid[l] # 0
  <2>1. fidTable[x] # NoEntry /\ fidTable[x].refCount \in Nat \ {0} /\ itemFid[l] # 0
    BY <1>0, EntryFacts DEF Entered
  <2> QED
    BY <2>1 DEF Reclaim, poolVars
<1>2. /\ at' \in [Items -> States] /\ at'[l] = "clunk" /\ \A k \in Items \ {l} : at'[k] = at[k]
      /\ Lookups \subseteq Items /\ RootItem \in Items /\ RootItem \notin Lookups
  BY <1>1, AtFacts DEF States, Items
<1>3. fidTable'[x] = NoEntry /\ \A y : y # x => fidTable'[y] = fidTable[y]
  BY <1>0, <1>1, EntryFacts
<1>4. /\ Temps' = Temps /\ Givers' = Givers \cup {l} /\ Entered' = Entered \ {x}
      /\ l \notin Givers /\ itemFid[l] \in inUseFids \ strayed /\ itemFid[l] # rootFid
  BY <1>0, <1>1, <1>2, <1>3 DEF Temps, Givers, Entered, OwnInv, Owned
<1>5. \A k \in Sharers(x) : k = l
  <2>1. Cardinality(Sharers(x)) = 1 /\ IsFiniteSet(Sharers(x)) /\ l \in Sharers(x)
    BY <1>0, <1>1 DEF CountInv, Sharers
  <2>2. PICK s : Sharers(x) = {s}
    BY <2>1, FS_Singleton
  <2> QED
    BY <2>1, <2>2
<1>6. PoolInv'
  BY <1>1, <1>4 DEF PoolInv
<1>7. OwnInv'
  <2>1. /\ \A k \in Temps : tempFid[k] # itemFid[l]
        /\ \A k \in Givers : itemFid[k] # itemFid[l]
        /\ \A y \in Entered : y # x => fidTable[y].fid # itemFid[l]
    BY <1>0 DEF OwnInv
  <2>2. \A y \in Entered' : y \in Entered /\ fidTable'[y] = fidTable[y]
    BY <1>3, <1>4
  <2>3. /\ \A k \in Temps : Owned(tempFid[k])'
        /\ \A k \in Givers' : Owned(itemFid[k])'
        /\ \A y \in Entered' : Owned(fidTable[y].fid)'
    BY <1>1, <1>4, <2>2 DEF OwnInv, Owned
  <2>4. \A j, k \in Givers' : itemFid[j] = itemFid[k] => j = k
    BY <1>4, <2>1 DEF OwnInv
  <2>5. /\ \A y, z \in Entered' : fidTable'[y].fid = fidTable'[z].fid => y = z
        /\ \A k \in Temps, y \in Entered' : tempFid[k] # fidTable'[y].fid
        /\ \A k \in Givers', y \in Entered' : itemFid[k] # fidTable'[y].fid
    BY <1>4, <2>1, <2>2 DEF OwnInv
  <2>6. \A k \in Temps, j \in Givers' : tempFid[k] # itemFid[j]
    BY <1>4, <2>1 DEF OwnInv
  <2> QED
    BY <1>1, <1>4, <2>3, <2>4, <2>5, <2>6 DEF OwnInv
<1>8. (\A f \in inUseFids : HasOwner(f))'
  BY <1>0, <1>1, <1>3, <1>4 DEF HasOwner
<1>9. BoundInv'
  <2>1. bound[itemFid[l]] = x
    BY <1>0 DEF BoundInv
  <2> QED
    BY <1>1, <1>2, <1>3, <1>4, <2>1 DEF BoundInv, Temps, Givers
<1>10. (\A k \in Lookups : ItemInv(k))'
  <2>1. ItemInv(l)'
    BY <1>0, <1>1, <1>2 DEF ItemInv, Sharing, Orphan
  <2>2. ASSUME NEW k \in Lookups \ {l} PROVE ItemInv(k)'
    <3>1. at'[k] = at[k]
      BY <1>2
    <3>2. /\ at[k] \in Sharing /\ target[k] = x => Orphan(k)
          /\ at[k] = "failed" /\ target[k] = x /\ itemFid[k] # 0 => itemFid[k] # fidTable[x].fid
      BY <1>0, <1>1, <1>5 DEF Sharers, ItemInv, Sharing, Orphan
    <3> QED
      BY <1>1, <1>3, <1>4, <3>1, <3>2 DEF ItemInv, Sharing, Orphan
  <2> QED
    BY <2>1, <2>2
<1>11. CountInv'
  <2>1. Sharers(x)' = {}
    BY <1>1, <1>3 DEF Sharers, NoEntry
  <2>2. \A y : y # x => Sharers(y)' = Sharers(y)
    BY <1>1, <1>2, <1>3 DEF Sharers
  <2>3. IsFiniteSet(Sharers(x)') /\ (fidTable[x].refCount)' = Cardinality(Sharers(x)')
    BY <1>1, <1>3, <2>1, FS_EmptySet DEF NoEntry
  <2>4. ASSUME NEW y \in Files, y # x
        PROVE  IsFiniteSet(Sharers(y)') /\ (fidTable[y].refCount)' = Cardinality(Sharers(y)')
    BY <1>3, <2>2, <2>4 DEF CountInv
  <2> QED
    BY <1>1, <2>3, <2>4 DEF CountInv
<1>12. RootInv' /\ UnmountedInv'
  BY <1>0, <1>1, <1>2, <1>3, <1>4 DEF RootInv, UnmountedInv
<1> QED
  BY <1>6, <1>7, <1>8, <1>9, <1>10, <1>11, <1>12

LEMMA ClunkItemStep ==
  ASSUME TypeOK, Safe, NEW l \in Lookups, ClunkItem(l) \/ ClunkItemFails(l) PROVE Safe'
<1> USE DEF Safe
<1> DEFINE s == at'[l]
<1>1. /\ at[l] = "clunk" /\ bound' = [bound EXCEPT ![itemFid[l]] = Unbound]
      /\ \/ at' = [at EXCEPT ![l] = "release"] /\ strayed' = strayed
         \/ at' = [at EXCEPT ![l] = "gone"] /\ strayed' = strayed \cup {itemFid[l]}
      /\ UNCHANGED <<mounted, mounts, nextFid, freeFids, inUseFids, rootFid, fidTable, target, tempFid, itemFid>>
  BY DEF ClunkItem, ClunkItemFails, ClunkAnswered, ClunkRefused, poolVars
<1>2. /\ at' \in [Items -> States] /\ s \in {"release", "gone"} /\ \A k \in Items \ {l} : at'[k] = at[k]
      /\ Lookups \subseteq Items /\ RootItem \in Items /\ RootItem \notin Lookups
      /\ strayed' = IF s = "gone" THEN strayed \cup {itemFid[l]} ELSE strayed
  BY <1>1, AtFacts DEF States, Items
<1>3. /\ Givers' = (IF s = "gone" THEN Givers \ {l} ELSE Givers)
      /\ Temps' = Temps /\ Entered' = Entered /\ l \in Givers
      /\ itemFid[l] \in inUseFids \ strayed /\ itemFid[l] # rootFid
  BY <1>1, <1>2 DEF Temps, Givers, Entered, OwnInv, Owned
<1>4. PoolInv'
  BY <1>1, <1>2, <1>3 DEF PoolInv, TypeOK
<1>5. OwnInv'
  <2>1. \A k \in Givers' : k \in Givers /\ Owned(itemFid[k])'
    BY <1>1, <1>2, <1>3 DEF OwnInv, Owned
  <2>2. (\A k \in Temps : Owned(tempFid[k])') /\ (\A x \in Entered : Owned(fidTable[x].fid)')
    BY <1>1, <1>2, <1>3 DEF OwnInv, Owned
  <2> QED
    BY <1>1, <1>3, <2>1, <2>2 DEF OwnInv
<1>6. (\A f \in inUseFids : HasOwner(f))'
  BY <1>1, <1>2, <1>3 DEF HasOwner
<1>7. BoundInv'
  <2>1. /\ \A k \in Givers : k # l => itemFid[k] # itemFid[l]
        /\ \A k \in Temps : tempFid[k] # itemFid[l]
        /\ \A x \in Entered : fidTable[x].fid # itemFid[l]
    BY <1>3 DEF OwnInv
  <2>2. \A f : f # itemFid[l] => bound'[f] = bound[f]
    BY <1>1
  <2>3. bound'[itemFid[l]] = Unbound
    BY <1>1, <1>2 DEF TypeOK
  <2>4. \A k \in Givers' : bound'[itemFid[k]] = (IF at'[k] = "clunk" THEN target[k] ELSE Unbound)
    BY <1>2, <1>3, <2>1, <2>2, <2>3 DEF BoundInv, Givers
  <2>5. \A k \in Temps : bound'[tempFid[k]] = IF at'[k] \in {"walk", "releaseTemp"} THEN Unbound ELSE target[k]
    BY <1>1, <1>2, <2>1, <2>2 DEF BoundInv, Temps
  <2>6. \A x \in Entered : bound'[fidTable[x].fid] = x
    BY <2>1, <2>2 DEF BoundInv
  <2> QED
    BY <1>1, <1>3, <2>4, <2>5, <2>6 DEF BoundInv
<1>8. (\A k \in Lookups : ItemInv(k))'
  BY <1>1, <1>2, <1>3 DEF ItemInv, Sharing, Orphan
<1>9. CountInv'
  <2>1. \A x : Sharers(x)' = Sharers(x)
    BY <1>1, <1>2 DEF Sharers
  <2> QED
    BY <1>1, <2>1 DEF CountInv
<1>10. RootInv'
  BY <1>1, <1>2, <1>3 DEF RootInv, TypeOK
<1>11. UnmountedInv'
  BY <1>1, <1>2, <1>3 DEF UnmountedInv
<1> QED
  BY <1>4, <1>5, <1>6, <1>7, <1>8, <1>9, <1>10, <1>11

LEMMA ReleaseItemStep == ASSUME TypeOK, Safe, NEW l \in Lookups, ReleaseItem(l) PROVE Safe'
<1> USE DEF Safe
<1>1. /\ at[l] = "release" /\ at' = [at EXCEPT ![l] = "gone"] /\ ReleaseFid(itemFid[l])
      /\ UNCHANGED <<mounted, mounts, bound, fidTable, target, tempFid, itemFid, strayed>>
  BY DEF ReleaseItem
<1>2. /\ at' \in [Items -> States] /\ at'[l] = "gone" /\ \A k \in Items \ {l} : at'[k] = at[k]
      /\ Lookups \subseteq Items /\ RootItem \in Items /\ RootItem \notin Lookups
  BY <1>1, AtFacts DEF States, Items
<1>3. /\ Givers' = Givers \ {l} /\ Temps' = Temps /\ Entered' = Entered /\ l \in Givers
      /\ itemFid[l] \in inUseFids \ strayed /\ itemFid[l] # rootFid /\ bound[itemFid[l]] = Unbound
  BY <1>1, <1>2 DEF Temps, Givers, Entered, OwnInv, Owned, BoundInv
<1>4. /\ inUseFids' = inUseFids \ {itemFid[l]} /\ UNCHANGED <<nextFid, rootFid>>
      /\ freeFids' \in Seq(1 .. nextFid - 1)
      /\ \A m, n \in 1 .. Len(freeFids') : freeFids'[m] = freeFids'[n] => m = n
      /\ \A n \in 1 .. Len(freeFids') : freeFids'[n] \notin inUseFids'
  BY <1>1, <1>3, ReleaseFacts
<1>5. PoolInv'
  <2>1. strayed' \subseteq inUseFids' /\ (rootFid' = 0 \/ rootFid' \in inUseFids')
    BY <1>1, <1>3, <1>4 DEF PoolInv
  <2>2. \A f \in Fids : f \notin inUseFids' => bound'[f] = Unbound
    BY <1>1, <1>3, <1>4 DEF PoolInv
  <2> QED
    BY <1>1, <1>3, <1>4, <2>1, <2>2 DEF PoolInv
<1>6. OwnInv'
  <2>1. /\ \A k \in Givers' : itemFid[k] # itemFid[l]
        /\ \A k \in Temps : tempFid[k] # itemFid[l]
        /\ \A x \in Entered : fidTable[x].fid # itemFid[l]
    BY <1>3 DEF OwnInv
  <2> QED
    BY <1>1, <1>3, <1>4, <2>1 DEF OwnInv, Owned
<1>7. (\A f \in inUseFids : HasOwner(f))'
  BY <1>1, <1>3, <1>4 DEF HasOwner
<1>8. BoundInv'
  BY <1>1, <1>2, <1>3 DEF BoundInv, Temps, Givers
<1>9. (\A k \in Lookups : ItemInv(k))'
  BY <1>1, <1>2, <1>3 DEF ItemInv, Sharing, Orphan
<1>10. CountInv'
  <2>1. \A x : Sharers(x)' = Sharers(x)
    BY <1>1, <1>2 DEF Sharers
  <2> QED
    BY <1>1, <2>1 DEF CountInv
<1>11. RootInv'
  BY <1>1, <1>2, <1>3, <1>4 DEF RootInv
<1>12. UnmountedInv'
  BY <1>1, <1>3, <1>4 DEF UnmountedInv
<1> QED
  BY <1>5, <1>6, <1>7, <1>8, <1>9, <1>10, <1>11, <1>12

LEMMA ReclaimRoot == ASSUME TypeOK, Safe, Reclaim(RootItem) PROVE Safe'
<1> USE DEF Safe
<1>0. fidTable[RootFile] = [fid |-> rootFid, refCount |-> 1] /\ rootFid # 0 /\ itemFid[RootItem] = rootFid
      /\ at[RootItem] = "live" /\ target[RootItem] = RootFile /\ mounted
  BY DEF RootInv, Reclaim, PoolInv
<1>1. /\ fidTable' = [fidTable EXCEPT ![RootFile] = NoEntry] /\ at' = [at EXCEPT ![RootItem] = "clunk"]
      /\ \A k \in Lookups : at[k] \in {"idle", "gone", "failed"}
      /\ UNCHANGED <<mounted, mounts, nextFid, freeFids, inUseFids, rootFid, bound, target, tempFid, itemFid, strayed>>
  <2>1. fidTable[RootFile] # NoEntry
    BY <1>0 DEF NoEntry
  <2> QED
    BY <1>0, <2>1 DEF Reclaim, poolVars, Resting
<1>2. /\ at' \in [Items -> States] /\ at'[RootItem] = "clunk" /\ \A k \in Items \ {RootItem} : at'[k] = at[k]
      /\ Lookups \subseteq Items /\ RootItem \in Items /\ RootItem \notin Lookups
  BY <1>1, AtFacts DEF States, Items
<1>3. fidTable'[RootFile] = NoEntry /\ \A y : y # RootFile => fidTable'[y] = fidTable[y]
  BY <1>1, EntryFacts
<1>4. Temps' = Temps /\ Givers' = Givers /\ Entered' = Entered
  BY <1>1, <1>2, <1>3 DEF Temps, Givers, Entered
<1>5. \A k \in Lookups : at'[k] = at[k]
  BY <1>2
<1>6. PoolInv'
  BY <1>1, <1>4 DEF PoolInv
<1>7. \A y \in Entered : fidTable'[y] = fidTable[y]
  BY <1>3 DEF Entered
<1>8. OwnInv' /\ (\A f \in inUseFids : HasOwner(f))'
  BY <1>1, <1>4, <1>7 DEF OwnInv, Owned, HasOwner
<1>9. BoundInv'
  BY <1>1, <1>4, <1>5, <1>7 DEF BoundInv, Temps, Givers
<1>10. (\A k \in Lookups : ItemInv(k))'
  BY <1>1, <1>4, <1>5, <1>7 DEF ItemInv, Sharing, Orphan
<1>11. CountInv'
  <2>1. \A y \in Files : Sharers(y)' = Sharers(y) /\ fidTable'[y] = fidTable[y]
    BY <1>1, <1>3, <1>5 DEF Sharers
  <2> QED
    BY <2>1 DEF CountInv
<1>12. RootInv' /\ UnmountedInv'
  BY <1>0, <1>1, <1>2, <1>3, <1>4 DEF RootInv, UnmountedInv
<1> QED
  BY <1>6, <1>8, <1>9, <1>10, <1>11, <1>12

LEMMA ClunkRoot == ASSUME TypeOK, Safe, ClunkItem(RootItem) \/ ClunkItemFails(RootItem) PROVE Safe'
<1> USE DEF Safe
<1> DEFINE s == at'[RootItem]
<1>0. at[RootItem] = "clunk" /\ itemFid[RootItem] = rootFid /\ mounted /\ rootFid \in inUseFids
      /\ \A k \in Lookups : at[k] \in {"idle", "gone", "failed"}
  BY DEF RootInv, ClunkItem, ClunkItemFails
<1>1. /\ bound' = [bound EXCEPT ![rootFid] = Unbound]
      /\ \/ at' = [at EXCEPT ![RootItem] = "release"] /\ strayed' = strayed
         \/ at' = [at EXCEPT ![RootItem] = "gone"] /\ strayed' = strayed \cup {rootFid}
      /\ UNCHANGED <<mounted, mounts, nextFid, freeFids, inUseFids, rootFid, fidTable, target, tempFid, itemFid>>
  BY <1>0 DEF ClunkItem, ClunkItemFails, ClunkAnswered, ClunkRefused, poolVars
<1>2. /\ at' \in [Items -> States] /\ s \in {"release", "gone"} /\ \A k \in Items \ {RootItem} : at'[k] = at[k]
      /\ Lookups \subseteq Items /\ RootItem \in Items /\ RootItem \notin Lookups
      /\ strayed' = IF s = "gone" THEN strayed \cup {rootFid} ELSE strayed
  <2>1. RootItem \in Items
    BY DEF Items
  <2> QED
    BY <1>1, <2>1, AtFacts DEF States, Items
<1>3. Temps' = Temps /\ Givers' = Givers /\ Entered' = Entered /\ Temps = {} /\ Givers = {}
  BY <1>0, <1>1, <1>2 DEF Temps, Givers, Entered
<1>4. \A k \in Lookups : at'[k] = at[k]
  BY <1>2
<1>5. PoolInv'
  BY <1>0, <1>1, <1>2, <1>3 DEF PoolInv, TypeOK
<1>6. OwnInv' /\ (\A f \in inUseFids : HasOwner(f))'
  <2>1. \A x \in Entered : Owned(fidTable[x].fid)'
    BY <1>1, <1>2 DEF OwnInv, Owned
  <2> QED
    BY <1>1, <1>2, <1>3, <2>1 DEF OwnInv, HasOwner
<1>7. BoundInv'
  <2>1. \A x \in Entered : fidTable[x].fid # rootFid
    BY DEF OwnInv, Owned
  <2> QED
    BY <1>1, <1>3, <2>1 DEF BoundInv
<1>8. (\A k \in Lookups : ItemInv(k))'
  BY <1>0, <1>1, <1>2, <1>3, <1>4 DEF ItemInv, Sharing, Orphan
<1>9. CountInv'
  <2>1. \A x : Sharers(x)' = Sharers(x)
    BY <1>1, <1>4 DEF Sharers
  <2> QED
    BY <1>1, <2>1 DEF CountInv
<1>10. RootInv'
  <2>1. bound'[rootFid] = Unbound
    BY <1>1 DEF TypeOK
  <2> QED
    BY <1>0, <1>1, <1>2, <1>4, <2>1 DEF RootInv
<1>11. UnmountedInv'
  BY <1>0, <1>1 DEF UnmountedInv
<1> QED
  BY <1>5, <1>6, <1>7, <1>8, <1>9, <1>10, <1>11

(* releaseFid does nothing for the root's fid.                             *)
LEMMA ReleaseRoot == ASSUME TypeOK, Safe, ReleaseItem(RootItem) PROVE Safe'
<1> USE DEF Safe
<1>0. at[RootItem] = "release" /\ itemFid[RootItem] = rootFid /\ mounted
  BY DEF RootInv, ReleaseItem
<1>1. /\ at' = [at EXCEPT ![RootItem] = "gone"]
      /\ UNCHANGED <<mounted, mounts, nextFid, freeFids, inUseFids, rootFid, bound, fidTable, target, tempFid, itemFid, strayed>>
  BY <1>0 DEF ReleaseItem, ReleaseFid, poolVars
<1>2. /\ at' \in [Items -> States] /\ at'[RootItem] = "gone" /\ \A k \in Items \ {RootItem} : at'[k] = at[k]
      /\ Lookups \subseteq Items /\ RootItem \in Items /\ RootItem \notin Lookups
  BY <1>1, AtFacts DEF States, Items
<1>3. Temps' = Temps /\ Givers' = Givers /\ Entered' = Entered
  BY <1>1, <1>2 DEF Temps, Givers, Entered
<1>4. \A k \in Lookups : at'[k] = at[k]
  BY <1>2
<1>5. PoolInv'
  BY <1>1, <1>3 DEF PoolInv
<1>6. OwnInv' /\ (\A f \in inUseFids : HasOwner(f))'
  BY <1>1, <1>3 DEF OwnInv, Owned, HasOwner
<1>7. BoundInv'
  BY <1>1, <1>3, <1>4 DEF BoundInv, Temps, Givers
<1>8. (\A k \in Lookups : ItemInv(k))'
  BY <1>1, <1>3, <1>4 DEF ItemInv, Sharing, Orphan
<1>9. CountInv'
  <2>1. \A x : Sharers(x)' = Sharers(x)
    BY <1>1, <1>4 DEF Sharers
  <2> QED
    BY <1>1, <2>1 DEF CountInv
<1>10. RootInv' /\ UnmountedInv'
  BY <1>0, <1>1, <1>2, <1>3, <1>4 DEF RootInv, UnmountedInv
<1> QED
  BY <1>5, <1>6, <1>7, <1>8, <1>9, <1>10

(* The server drops every fid; the pool's books keep those in use.         *)
LEMMA UnmountStep == ASSUME TypeOK, Safe, Unmount PROVE Safe'
<1> USE DEF Safe
<1>1. /\ mounted' = FALSE /\ bound' = [f \in Fids |-> Unbound] /\ strayed' = strayed \cup inUseFids
      /\ fidTable' = [x \in Files \cup {RootFile} |-> NoEntry]
      /\ at' = [i \in Items |-> IF at[i] = "live" THEN "gone" ELSE at[i]]
      /\ \A i \in Items : at[i] \in {"idle", "live", "gone", "failed"}
      /\ Lookups \subseteq Items /\ RootItem \in Items
      /\ UNCHANGED <<mounts, nextFid, freeFids, inUseFids, rootFid, target, tempFid, itemFid>>
  BY DEF Unmount, poolVars, Resting, TypeOK, Items
<1>2. \A i \in Items : at'[i] \in {"idle", "gone", "failed"} /\ (at'[i] = "idle" <=> at[i] = "idle")
                       /\ (at'[i] = "failed" <=> at[i] = "failed")
  BY <1>1
<1>3. \A x \in Files \cup {RootFile} : fidTable'[x] = NoEntry /\ fidTable'[x].fid = 0 /\ fidTable'[x].refCount = 0
  BY <1>1 DEF NoEntry
<1>4. Temps' = {} /\ Givers' = {} /\ Entered' = {}
  BY <1>1, <1>2, <1>3 DEF Temps, Givers, Entered
<1>5. PoolInv'
  <2>1. strayed' \subseteq inUseFids /\ \A f \in Fids : bound'[f] = Unbound
    BY <1>1 DEF PoolInv
  <2> QED
    BY <1>1, <1>4, <2>1 DEF PoolInv
<1>6. OwnInv' /\ BoundInv' /\ UnmountedInv'
  BY <1>1, <1>4 DEF OwnInv, BoundInv, UnmountedInv
<1>7. (\A f \in inUseFids : HasOwner(f))'
  BY <1>1 DEF HasOwner
<1>8. (\A k \in Lookups : ItemInv(k))'
  <2> SUFFICES ASSUME NEW k \in Lookups PROVE ItemInv(k)'
    OBVIOUS
  <2>1. at[k] = "failed" /\ itemFid[k] # 0 => itemFid[k] \in strayed'
    BY <1>1 DEF ItemInv, OwnInv, Owned
  <2>2. at[k] = "idle" => itemFid[k] = 0
    BY DEF ItemInv
  <2> QED
    BY <1>1, <1>2, <2>1, <2>2 DEF ItemInv, Sharing, Orphan
<1>9. CountInv'
  <2>1. \A x \in Files : Sharers(x)' = {}
    BY <1>1, <1>3 DEF Sharers
  <2> QED
    BY <1>3, <2>1, FS_EmptySet DEF CountInv
<1>10. RootInv'
  BY <1>1, <1>2, <1>3 DEF RootInv
<1> QED
  BY <1>5, <1>6, <1>7, <1>8, <1>9, <1>10

(* allocFid while the numbers last: a fid of nobody, and the rest of the   *)
(* pool as sound as before.                                                *)
LEMMA AllocFacts ==
  ASSUME PoolInv, NEW f \in Fids, AllocFid(f), Uncrossed'
  PROVE  /\ nextFid' \in 1 .. NOFID /\ nextFid <= nextFid' /\ nextFid' <= nextFid + 1
         /\ f \in 1 .. nextFid' - 1 /\ f \notin inUseFids /\ f \in Fids \ {0, NOFID}
         /\ 1 .. nextFid' - 1 \subseteq Fids /\ inUseFids \cup {f} \subseteq 1 .. nextFid' - 1
         /\ freeFids' \in Seq(1 .. nextFid' - 1)
         /\ \A m, n \in 1 .. Len(freeFids') : freeFids'[m] = freeFids'[n] => m = n
         /\ \A n \in 1 .. Len(freeFids') : freeFids'[n] \notin inUseFids \cup {f}
<1>0. nextFid \in 1 .. NOFID /\ freeFids \in Seq(1 .. nextFid - 1) /\ inUseFids \subseteq 1 .. nextFid - 1
  BY DEF PoolInv
<1>1. CASE freeFids # <<>>
  <2>1. PICK n \in Nat : n = Len(freeFids) /\ n > 0
    BY <1>0, <1>1
  <2>2. f = freeFids[n] /\ freeFids' = SubSeq(freeFids, 1, n - 1) /\ nextFid' = nextFid
    BY <1>1, <2>1 DEF AllocFid
  <2>3. \A m \in 1 .. n : freeFids[m] \in 1 .. nextFid - 1 /\ freeFids[m] \notin inUseFids
    BY <1>0, <2>1 DEF PoolInv
  <2>4. \A k, m \in 1 .. n : freeFids[k] = freeFids[m] => k = m
    BY <2>1 DEF PoolInv
  <2>5. /\ freeFids' \in Seq(1 .. nextFid - 1) /\ Len(freeFids') = n - 1
        /\ \A m \in 1 .. n - 1 : freeFids'[m] = freeFids[m]
    <3>1. n - 1 \in Int /\ 1 \in Int /\ (IF 1 <= n - 1 THEN (n - 1) - 1 + 1 ELSE 0) = n - 1
      BY <2>1
    <3>2. \A m \in 1 .. n - 1 : freeFids[m] \in 1 .. nextFid - 1
      BY <2>3
    <3>3. /\ freeFids' \in Seq(1 .. nextFid - 1)
          /\ Len(freeFids') = IF 1 <= n - 1 THEN (n - 1) - 1 + 1 ELSE 0
          /\ \A m \in 1 .. (n - 1) - 1 + 1 : freeFids'[m] = freeFids[1 + m - 1]
      BY <2>2, <3>1, <3>2, SubSeqProperties
    <3> QED
      BY <2>1, <3>1, <3>3
  <2>6. f \in 1 .. nextFid - 1 /\ f \notin inUseFids
    BY <2>1, <2>2, <2>3
  <2>7. \A m \in 1 .. Len(freeFids') : freeFids'[m] \notin inUseFids \cup {f}
    <3> SUFFICES ASSUME NEW m \in 1 .. n - 1 PROVE freeFids[m] # f /\ freeFids[m] \notin inUseFids
      BY <2>5
    <3>1. m \in 1 .. n /\ n \in 1 .. n /\ m # n
      BY <2>1
    <3> QED
      BY <2>2, <2>3, <2>4, <3>1
  <2>8. \A k, m \in 1 .. Len(freeFids') : freeFids'[k] = freeFids'[m] => k = m
    BY <2>1, <2>4, <2>5
  <2>9. 1 .. nextFid - 1 \subseteq Fids /\ f \in Fids \ {0, NOFID}
    BY <1>0, <2>6 DEF Fids
  <2>10. /\ nextFid' \in 1 .. NOFID /\ nextFid <= nextFid' /\ nextFid' <= nextFid + 1
         /\ inUseFids \cup {f} \subseteq 1 .. nextFid' - 1
    <3>1. nextFid' = nextFid
      BY <2>2
    <3> QED
      BY <1>0, <2>6, <3>1
  <2> QED
    BY <2>2, <2>5, <2>6, <2>7, <2>8, <2>9, <2>10
<1>2. CASE freeFids = <<>>
  <2>0. nextFid # NOFID
    BY <1>2 DEF AllocFid, Uncrossed
  <2>1. f = nextFid /\ nextFid' = nextFid + 1 /\ freeFids' = <<>>
    BY <1>0, <1>2, <2>0 DEF AllocFid
  <2>2. freeFids' \in Seq(1 .. nextFid' - 1) /\ 1 .. Len(freeFids') = {}
    BY <2>1
  <2>3. 1 .. nextFid' - 1 \subseteq Fids /\ f \in Fids \ {0, NOFID} /\ f \notin inUseFids
    BY <1>0, <2>0, <2>1 DEF Fids
  <2>4. /\ nextFid' \in 1 .. NOFID /\ nextFid <= nextFid' /\ nextFid' <= nextFid + 1
        /\ f \in 1 .. nextFid' - 1 /\ inUseFids \cup {f} \subseteq 1 .. nextFid' - 1
    BY <1>0, <2>0, <2>1
  <2> QED
    BY <2>2, <2>3, <2>4
<1> QED
  BY <1>1, <1>2

LEMMA MountFailsStep == ASSUME TypeOK, Safe, MountFails, Uncrossed' PROVE Safe'
<1> USE DEF Safe
<1>1. /\ mounts < MaxMounts /\ mounts' = mounts + 1
      /\ UNCHANGED <<mounted, inUseFids, rootFid, bound, fidTable, at, target, tempFid, itemFid, strayed>>
  BY DEF MountFails, taskVars
<1>2. PICK f \in Fids : AllocFid(f)
  BY DEF MountFails
<1>4. /\ nextFid' \in 1 .. NOFID /\ nextFid <= nextFid' /\ nextFid' <= nextFid + 1
      /\ 1 .. nextFid' - 1 \subseteq Fids /\ inUseFids \subseteq 1 .. nextFid' - 1
      /\ freeFids' \in Seq(1 .. nextFid' - 1)
      /\ \A m, n \in 1 .. Len(freeFids') : freeFids'[m] = freeFids'[n] => m = n
      /\ \A n \in 1 .. Len(freeFids') : freeFids'[n] \notin inUseFids
  BY <1>2, AllocFacts
<1>5. Temps' = Temps /\ Givers' = Givers /\ Entered' = Entered
  BY <1>1 DEF Temps, Givers, Entered
<1>6. PoolInv'
  BY <1>1, <1>4, <1>5 DEF PoolInv
<1>7. OwnInv' /\ (\A f_1 \in inUseFids : HasOwner(f_1))' /\ BoundInv'
  BY <1>1, <1>5 DEF OwnInv, Owned, HasOwner, BoundInv
<1>8. (\A k \in Lookups : ItemInv(k))'
  BY <1>1, <1>5 DEF ItemInv, Sharing, Orphan
<1>9. CountInv'
  BY <1>1 DEF CountInv, Sharers
<1>10. RootInv' /\ UnmountedInv'
  BY <1>1, <1>5 DEF RootInv, UnmountedInv
<1> QED
  BY <1>6, <1>7, <1>8, <1>9, <1>10

LEMMA MountStep == ASSUME TypeOK, Safe, Mount, Uncrossed' PROVE Safe'
<1> USE DEF Safe
<1>1. /\ ~mounted /\ mounts < MaxMounts /\ mounted' = TRUE /\ mounts' = mounts + 1
      /\ at' = [at EXCEPT ![RootItem] = "live"]
      /\ UNCHANGED <<target, tempFid, strayed>>
  BY DEF Mount
<1>2. PICK f \in Fids :
        /\ AllocFid(f) /\ rootFid' = f /\ inUseFids' = inUseFids \cup {f}
        /\ bound' = [bound EXCEPT ![f] = RootFile]
        /\ fidTable' = [fidTable EXCEPT ![RootFile] = [fid |-> f, refCount |-> 1]]
        /\ itemFid' = [itemFid EXCEPT ![RootItem] = f]
  BY DEF Mount
<1>3. /\ at' \in [Items -> States] /\ at'[RootItem] = "live" /\ \A k \in Items \ {RootItem} : at'[k] = at[k]
      /\ Lookups \subseteq Items /\ RootItem \in Items /\ RootItem \notin Lookups
  BY <1>1, AtFacts DEF States, Items
<1>4. /\ \A k \in Lookups : at'[k] = at[k] /\ itemFid'[k] = itemFid[k] /\ at[k] \in {"idle", "gone", "failed"}
      /\ inUseFids \subseteq strayed /\ Entered = {} /\ Temps = {} /\ Givers = {}
  BY <1>1, <1>2, <1>3 DEF RootInv, UnmountedInv, Temps, Givers
<1>6. /\ nextFid' \in 1 .. NOFID /\ nextFid <= nextFid' /\ nextFid' <= nextFid + 1
      /\ f \in 1 .. nextFid' - 1 /\ f \notin inUseFids /\ f \in Fids \ {0, NOFID}
      /\ 1 .. nextFid' - 1 \subseteq Fids /\ inUseFids' \subseteq 1 .. nextFid' - 1
      /\ freeFids' \in Seq(1 .. nextFid' - 1)
      /\ \A m, n \in 1 .. Len(freeFids') : freeFids'[m] = freeFids'[n] => m = n
      /\ \A n \in 1 .. Len(freeFids') : freeFids'[n] \notin inUseFids'
  BY <1>2, AllocFacts
<1>7. /\ fidTable'[RootFile] = [fid |-> f, refCount |-> 1] /\ \A y : y # RootFile => fidTable'[y] = fidTable[y]
      /\ bound'[f] = RootFile /\ \A g \in Fids : g # f => bound'[g] = bound[g]
      /\ itemFid'[RootItem] = f
  <2>1. /\ DOMAIN fidTable = Files \cup {RootFile} /\ DOMAIN bound = Fids /\ DOMAIN itemFid = Items
    BY DEF TypeOK
  <2>2. fidTable'[RootFile] = [fid |-> f, refCount |-> 1] /\ \A y : y # RootFile => fidTable'[y] = fidTable[y]
    BY <1>2, <2>1
  <2>3. bound'[f] = RootFile /\ \A g \in Fids : g # f => bound'[g] = bound[g]
    BY <1>2, <2>1
  <2>4. itemFid'[RootItem] = f
    BY <1>2, <1>3, <2>1
  <2> QED
    BY <2>2, <2>3, <2>4
<1>8. Temps' = {} /\ Givers' = {} /\ Entered' = {}
  BY <1>4, <1>7 DEF Temps, Givers, Entered
<1>9. PoolInv'
  <2>2. (\A g \in Fids : g \notin inUseFids' => bound'[g] = Unbound) /\ strayed' \subseteq inUseFids'
    BY <1>1, <1>2, <1>7 DEF PoolInv
  <2> QED
    BY <1>1, <1>2, <1>6, <1>8, <2>2 DEF PoolInv
<1>10. OwnInv' /\ BoundInv'
  BY <1>8 DEF OwnInv, BoundInv
<1>11. (\A g \in inUseFids : HasOwner(g))'
  BY <1>1, <1>2, <1>4 DEF HasOwner
<1>12. (\A k \in Lookups : ItemInv(k))'
  BY <1>1, <1>4, <1>8 DEF ItemInv, Sharing, Orphan
<1>13. CountInv'
  <2>1. \A y \in Files : Sharers(y)' = Sharers(y) /\ fidTable'[y] = fidTable[y]
    BY <1>1, <1>4, <1>7 DEF Sharers
  <2> QED
    BY <2>1 DEF CountInv
<1>14. RootInv' /\ UnmountedInv'
  BY <1>1, <1>2, <1>3, <1>7 DEF RootInv, UnmountedInv
<1> QED
  BY <1>9, <1>10, <1>11, <1>12, <1>13, <1>14

(* The fid is nobody's, so that the lookup owns it.                        *)
LEMMA BeginLookupStep ==
  ASSUME TypeOK, Safe, NEW l \in Lookups, NEW x \in Files, BeginLookup(l, x), Uncrossed' PROVE Safe'
<1> USE DEF Safe
<1>1. /\ at[l] = "idle" /\ at[RootItem] = "live" /\ mounted
      /\ target' = [target EXCEPT ![l] = x] /\ at' = [at EXCEPT ![l] = "walk"]
      /\ UNCHANGED <<mounted, mounts, rootFid, bound, fidTable, itemFid, strayed>>
  BY DEF BeginLookup, RootInv
<1>2. PICK f \in Fids : AllocFid(f) /\ inUseFids' = inUseFids \cup {f} /\ tempFid' = [tempFid EXCEPT ![l] = f]
  BY DEF BeginLookup
<1>3. /\ at' \in [Items -> States] /\ at'[l] = "walk" /\ \A k \in Items \ {l} : at'[k] = at[k]
      /\ Lookups \subseteq Items /\ RootItem \in Items /\ RootItem \notin Lookups
  BY <1>1, AtFacts DEF States, Items
<1>5. /\ nextFid' \in 1 .. NOFID /\ nextFid <= nextFid' /\ nextFid' <= nextFid + 1
      /\ f \in 1 .. nextFid' - 1 /\ f \notin inUseFids /\ f \in Fids \ {0, NOFID}
      /\ 1 .. nextFid' - 1 \subseteq Fids /\ inUseFids' \subseteq 1 .. nextFid' - 1
      /\ freeFids' \in Seq(1 .. nextFid' - 1)
      /\ \A m, n \in 1 .. Len(freeFids') : freeFids'[m] = freeFids'[n] => m = n
      /\ \A n \in 1 .. Len(freeFids') : freeFids'[n] \notin inUseFids'
  BY <1>2, AllocFacts
<1>6. /\ tempFid'[l] = f /\ target'[l] = x /\ itemFid[l] = 0
      /\ \A k \in Items \ {l} : tempFid'[k] = tempFid[k] /\ target'[k] = target[k]
      /\ tempFid' \in [Items -> Fids] /\ target' \in [Items -> Files \cup {RootFile}]
  BY <1>1, <1>2, <1>3 DEF TypeOK, ItemInv
<1>7. /\ Temps' = Temps \cup {l} /\ l \notin Temps
      /\ Givers' = Givers /\ l \notin Givers /\ Entered' = Entered
  BY <1>1, <1>3 DEF Temps, Givers, Entered
<1>8. /\ \A k \in Temps : tempFid'[k] = tempFid[k] /\ tempFid[k] # f
      /\ \A k \in Givers : itemFid[k] # f
      /\ \A y \in Entered : fidTable[y].fid # f
      /\ rootFid # f
  <2>1. \A k \in Temps : tempFid'[k] = tempFid[k]
    BY <1>3, <1>6, <1>7 DEF Temps
  <2> QED
    BY <1>1, <1>5, <2>1 DEF OwnInv, Owned, RootInv
<1>9. PoolInv'
  <2>3. /\ \A g \in Fids : g \notin inUseFids' => bound'[g] = Unbound
        /\ strayed' \subseteq inUseFids' /\ (rootFid' = 0 \/ rootFid' \in inUseFids')
    BY <1>1, <1>2 DEF PoolInv
  <2> QED
    BY <1>5, <2>3 DEF PoolInv
<1>10. OwnInv'
  <2>1. Owned(f)'
    BY <1>1, <1>2, <1>5, <1>8 DEF Owned, PoolInv
  <2>2. /\ \A k \in Temps : Owned(tempFid[k])'
        /\ \A k \in Givers : Owned(itemFid[k])'
        /\ \A y \in Entered : Owned(fidTable[y].fid)'
    BY <1>1, <1>2, <1>8 DEF OwnInv, Owned
  <2>3. \A j, k \in Temps' : tempFid'[j] = tempFid'[k] => j = k
    BY <1>6, <1>7, <1>8 DEF OwnInv
  <2>4. /\ \A k \in Temps', j \in Givers : tempFid'[k] # itemFid[j]
        /\ \A k \in Temps', y \in Entered : tempFid'[k] # fidTable[y].fid
    BY <1>6, <1>7, <1>8 DEF OwnInv
  <2>5. \A k \in Temps' : Owned(tempFid[k])'
    BY <1>6, <1>7, <2>1, <2>2
  <2> QED
    BY <1>1, <1>7, <2>2, <2>3, <2>4, <2>5 DEF OwnInv
<1>11. (\A g \in inUseFids : HasOwner(g))'
  BY <1>1, <1>2, <1>6, <1>7, <1>8 DEF HasOwner
<1>12. BoundInv'
  <2>1. bound[f] = Unbound
    BY <1>5 DEF PoolInv
  <2>2. \A k \in Temps' : bound[tempFid'[k]] = IF at'[k] \in {"walk", "releaseTemp"} THEN Unbound ELSE target'[k]
    BY <1>3, <1>6, <1>7, <1>8, <2>1 DEF BoundInv, Temps
  <2>3. \A k \in Givers : bound[itemFid[k]] = IF at'[k] = "clunk" THEN target'[k] ELSE Unbound
    BY <1>3, <1>6, <1>7 DEF BoundInv, Givers
  <2> QED
    BY <1>1, <1>7, <2>2, <2>3 DEF BoundInv
<1>13. (\A k \in Lookups : ItemInv(k))'
  <2>1. ItemInv(l)'
    BY <1>1, <1>3, <1>6 DEF ItemInv, Sharing, Orphan
  <2>2. ASSUME NEW k \in Lookups \ {l} PROVE ItemInv(k)'
    <3>1. at'[k] = at[k] /\ target'[k] = target[k]
      BY <1>3, <1>6
    <3> QED
      BY <1>1, <1>7, <3>1 DEF ItemInv, Sharing, Orphan
  <2> QED
    BY <2>1, <2>2
<1>14. CountInv'
  <2>1. \A y : Sharers(y)' = Sharers(y)
    BY <1>1, <1>3, <1>6 DEF Sharers
  <2> QED
    BY <1>1, <2>1 DEF CountInv
<1>15. RootInv' /\ UnmountedInv'
  BY <1>1, <1>2, <1>3, <1>6, <1>7 DEF RootInv, UnmountedInv
<1> QED
  BY <1>9, <1>10, <1>11, <1>12, <1>13, <1>14, <1>15

-----------------------------------------------------------------------------
(* What a step does to the types, whatever has happened before.            *)
LEMMA PoolTypes ==
  ASSUME TypeOK, NEW f \in Fids
  PROVE  /\ AllocFid(f) => /\ nextFid' \in Fids /\ freeFids' \in Seq(Fids)
                           /\ mishaps' \subseteq {"wrapped", "crossed"}
         /\ ReleaseFid(f) => /\ nextFid' \in Fids /\ freeFids' \in Seq(Fids)
                             /\ inUseFids' \subseteq Fids /\ rootFid' \in Fids
<1> USE DEF TypeOK
<1>1. ASSUME AllocFid(f), freeFids # <<>>
      PROVE  nextFid' \in Fids /\ freeFids' \in Seq(Fids) /\ mishaps' \subseteq {"wrapped", "crossed"}
  <2>1. PICK n \in Nat : n = Len(freeFids) /\ n > 0
    BY <1>1
  <2>2. freeFids' = SubSeq(freeFids, 1, n - 1) /\ nextFid' = nextFid /\ mishaps' = mishaps
    BY <1>1, <2>1 DEF AllocFid
  <2>3. n - 1 \in Int /\ \A m \in 1 .. n - 1 : freeFids[m] \in Fids
    BY <2>1
  <2>4. freeFids' \in Seq(Fids)
    BY <2>2, <2>3, SubSeqProperties
  <2> QED
    BY <2>2, <2>4
<1>2. ASSUME AllocFid(f), freeFids = <<>>
      PROVE  nextFid' \in Fids /\ freeFids' \in Seq(Fids) /\ mishaps' \subseteq {"wrapped", "crossed"}
  <2>1. f + 1 \in Nat /\ (f + 1) % (NOFID + 1) \in 0 .. NOFID
    BY DEF Fids
  <2> QED
    BY <1>2, <2>1 DEF AllocFid, Fids
<1>3. ASSUME ReleaseFid(f)
      PROVE  /\ nextFid' \in Fids /\ freeFids' \in Seq(Fids)
             /\ inUseFids' \subseteq Fids /\ rootFid' \in Fids
  <2>1. CASE f \in {0, NOFID, rootFid}
    BY <1>3, <2>1 DEF ReleaseFid, poolVars
  <2>2. CASE f \notin {0, NOFID, rootFid}
    <3>1. /\ inUseFids' = inUseFids \ {f} /\ freeFids' = Append(freeFids, f)
          /\ nextFid' = nextFid /\ rootFid' = rootFid
      BY <1>3, <2>2 DEF ReleaseFid
    <3>2. Append(freeFids, f) \in Seq(Fids)
      BY AppendProperties
    <3> QED
      BY <3>1, <3>2
  <2> QED
    BY <2>1, <2>2
<1> QED
  BY <1>1, <1>2, <1>3

LEMMA TypeLookup ==
  ASSUME TypeOK, NEW l \in Lookups,
         \/ (\E x \in Files : BeginLookup(l, x)) \/ Walk(l) \/ WalkFails(l) \/ WalkEmpty(l) \/ CheckTable(l)
         \/ InsertEntry(l) \/ ClunkTemp(l) \/ ClunkTempFails(l) \/ ReleaseTemp(l)
  PROVE  TypeOK'
<1>0. l \in Items /\ tempFid[l] \in Fids /\ itemFid[l] \in Fids /\ target[l] \in Files \cup {RootFile}
  BY DEF Items, TypeOK
<1>1. ASSUME NEW x \in Files, BeginLookup(l, x) PROVE TypeOK'
  <2>1. PICK f \in Fids : AllocFid(f) /\ inUseFids' = inUseFids \cup {f} /\ tempFid' = [tempFid EXCEPT ![l] = f]
    BY <1>1 DEF BeginLookup
  <2>2. nextFid' \in Fids /\ freeFids' \in Seq(Fids) /\ mishaps' \subseteq {"wrapped", "crossed"}
    BY <2>1, PoolTypes
  <2> QED
    BY <1>0, <1>1, <2>1, <2>2 DEF BeginLookup, TypeOK
<1>2. CASE Walk(l) \/ WalkFails(l)
  BY <1>0, <1>2 DEF Walk, WalkFails, poolVars, TypeOK
<1>3. CASE WalkEmpty(l) \/ ReleaseTemp(l)
  <2>1. nextFid' \in Fids /\ freeFids' \in Seq(Fids) /\ inUseFids' \subseteq Fids /\ rootFid' \in Fids
    BY <1>0, <1>3, PoolTypes DEF WalkEmpty, ReleaseTemp
  <2> QED
    BY <1>0, <1>3, <2>1 DEF WalkEmpty, ReleaseTemp, TypeOK
<1>4. CASE CheckTable(l)
  <2>1. CASE fidTable[target[l]] # NoEntry
    <3>1. /\ fidTable[target[l]].fid \in Fids /\ fidTable[target[l]].refCount + 1 \in Nat \ {0}
          /\ fidTable[target[l]] \in [fid : Fids, refCount : Nat \ {0}]
      BY <1>0, <2>1 DEF TypeOK
    <3>2. fidTable' = [fidTable EXCEPT ![target[l]].refCount = @ + 1]
      BY <1>4, <2>1 DEF CheckTable
    <3>3. fidTable' \in [Files \cup {RootFile} -> {NoEntry} \cup [fid : Fids, refCount : Nat \ {0}]]
      BY <1>0, <3>1, <3>2 DEF TypeOK
    <3> QED
      BY <1>0, <1>4, <2>1, <3>1, <3>3 DEF CheckTable, poolVars, TypeOK
  <2>2. CASE fidTable[target[l]] = NoEntry
    BY <1>0, <1>4, <2>2 DEF CheckTable, poolVars, TypeOK
  <2> QED
    BY <2>1, <2>2
<1>5. CASE InsertEntry(l)
  <2>1. strayed' \subseteq Fids
    <3>1. fidTable[target[l]] # NoEntry => fidTable[target[l]].fid \in Fids
      BY <1>0 DEF TypeOK
    <3> QED
      BY <1>5, <3>1 DEF InsertEntry, TypeOK
  <2>2. fidTable' \in [Files \cup {RootFile} -> {NoEntry} \cup [fid : Fids, refCount : Nat \ {0}]]
    <3>1. [fid |-> tempFid[l], refCount |-> 1] \in [fid : Fids, refCount : Nat \ {0}]
      BY <1>0
    <3> QED
      BY <1>5, <3>1 DEF InsertEntry, TypeOK
  <2> QED
    BY <1>0, <1>5, <2>1, <2>2 DEF InsertEntry, poolVars, TypeOK
<1>6. CASE ClunkTemp(l) \/ ClunkTempFails(l)
  BY <1>0, <1>6 DEF ClunkTemp, ClunkTempFails, ClunkAnswered, ClunkRefused, poolVars, TypeOK
<1> QED
  BY <1>1, <1>2, <1>3, <1>4, <1>5, <1>6

LEMMA TypeReclaim ==
  ASSUME TypeOK, NEW i \in Items, Reclaim(i) \/ ClunkItem(i) \/ ClunkItemFails(i) \/ ReleaseItem(i)
  PROVE  TypeOK'
<1>0. itemFid[i] \in Fids /\ target[i] \in Files \cup {RootFile}
  BY DEF TypeOK
<1>1. CASE Reclaim(i)
  <2> DEFINE x == target[i]
  <2>1. mishaps' \subseteq {"wrapped", "crossed"} /\ at' \in [Items -> States]
    BY <1>1 DEF Reclaim, CountDown, TypeOK, States
  <2>2. fidTable' \in [Files \cup {RootFile} -> {NoEntry} \cup [fid : Fids, refCount : Nat \ {0}]]
    <3>1. CASE fidTable' = fidTable \/ fidTable' = [fidTable EXCEPT ![x] = NoEntry]
      BY <3>1 DEF TypeOK
    <3>2. CASE fidTable[x] # NoEntry /\ fidTable[x].refCount > 1
               /\ fidTable' = [fidTable EXCEPT ![x].refCount = @ - 1]
      <4>1. /\ fidTable[x] \in [fid : Fids, refCount : Nat \ {0}]
            /\ fidTable[x].refCount - 1 \in Nat \ {0}
        BY <1>0, <3>2 DEF TypeOK
      <4> QED
        BY <1>0, <3>2, <4>1 DEF TypeOK
    <3> QED
      BY <1>1, <3>1, <3>2 DEF Reclaim
  <2> QED
    BY <1>1, <2>1, <2>2 DEF Reclaim, poolVars, TypeOK, States
<1>2. CASE ClunkItem(i) \/ ClunkItemFails(i)
  BY <1>0, <1>2 DEF ClunkItem, ClunkItemFails, ClunkAnswered, ClunkRefused, poolVars, TypeOK
<1>3. CASE ReleaseItem(i)
  <2>1. nextFid' \in Fids /\ freeFids' \in Seq(Fids) /\ inUseFids' \subseteq Fids /\ rootFid' \in Fids
    BY <1>0, <1>3, PoolTypes DEF ReleaseItem
  <2> QED
    BY <1>0, <1>3, <2>1 DEF ReleaseItem, TypeOK
<1> QED
  BY <1>1, <1>2, <1>3

LEMMA TypeMount == ASSUME TypeOK, Mount \/ MountFails \/ Unmount PROVE TypeOK'
<1>0. RootItem \in Items
  BY DEF Items
<1>1. CASE Mount
  <2>1. PICK f \in Fids :
          /\ AllocFid(f) /\ rootFid' = f /\ inUseFids' = inUseFids \cup {f}
          /\ bound' = [bound EXCEPT ![f] = RootFile]
          /\ fidTable' = [fidTable EXCEPT ![RootFile] = [fid |-> f, refCount |-> 1]]
          /\ itemFid' = [itemFid EXCEPT ![RootItem] = f]
    BY <1>1 DEF Mount
  <2>2. nextFid' \in Fids /\ freeFids' \in Seq(Fids) /\ mishaps' \subseteq {"wrapped", "crossed"}
    BY <2>1, PoolTypes
  <2>3. fidTable' \in [Files \cup {RootFile} -> {NoEntry} \cup [fid : Fids, refCount : Nat \ {0}]]
    <3>1. [fid |-> f, refCount |-> 1] \in [fid : Fids, refCount : Nat \ {0}]
      OBVIOUS
    <3> QED
      BY <2>1, <3>1 DEF TypeOK
  <2>4. mounts' \in 0 .. MaxMounts /\ mounted' \in BOOLEAN
    BY <1>1 DEF Mount, TypeOK
  <2>5. /\ inUseFids' \subseteq Fids /\ rootFid' \in Fids /\ bound' \in [Fids -> Files \cup {RootFile, Unbound}]
        /\ itemFid' \in [Items -> Fids]
    BY <2>1 DEF TypeOK
  <2> QED
    BY <1>0, <1>1, <2>2, <2>3, <2>4, <2>5 DEF Mount, TypeOK
<1>2. CASE MountFails
  <2>1. nextFid' \in Fids /\ freeFids' \in Seq(Fids) /\ mishaps' \subseteq {"wrapped", "crossed"}
    BY <1>2, PoolTypes DEF MountFails
  <2>2. mounts' \in 0 .. MaxMounts
    BY <1>2 DEF MountFails, TypeOK
  <2> QED
    BY <1>2, <2>1, <2>2 DEF MountFails, taskVars, TypeOK
<1>3. CASE Unmount
  <2>1. fidTable' \in [Files \cup {RootFile} -> {NoEntry} \cup [fid : Fids, refCount : Nat \ {0}]]
    BY <1>3 DEF Unmount, TypeOK
  <2>2. at' \in [Items -> States]
    BY <1>3 DEF Unmount, TypeOK, States
  <2> QED
    BY <1>3, <2>1, <2>2 DEF Unmount, poolVars, TypeOK, States
<1> QED
  BY <1>1, <1>2, <1>3

-----------------------------------------------------------------------------
LEMMA InvInit == ASSUME Init PROVE IInv
<1> USE DEF Init
<1>1. /\ Temps = {} /\ Givers = {} /\ Entered = {} /\ Lookups \subseteq Items /\ RootItem \in Items
  BY DEF Temps, Givers, Entered, Items
<1>2. 0 \in Fids /\ 1 \in Fids /\ 1 \in 1 .. NOFID
  BY DEF Fids
<1>3. TypeOK
  <2>1. bound \in [Fids -> Files \cup {RootFile, Unbound}] /\ freeFids \in Seq(Fids) /\ mounts \in 0 .. MaxMounts
    OBVIOUS
  <2>2. fidTable \in [Files \cup {RootFile} -> {NoEntry} \cup [fid : Fids, refCount : Nat \ {0}]]
    OBVIOUS
  <2>3. /\ target \in [Items -> Files \cup {RootFile}] /\ tempFid \in [Items -> Fids]
        /\ itemFid \in [Items -> Fids] /\ at \in [Items -> States]
    BY <1>2 DEF States
  <2> QED
    BY <1>2, <2>1, <2>2, <2>3 DEF TypeOK, States
<1>4. PoolInv
  BY <1>1, <1>2 DEF PoolInv
<1>5. OwnInv /\ (\A f \in inUseFids : HasOwner(f)) /\ BoundInv
  BY <1>1 DEF OwnInv, BoundInv
<1>6. \A l \in Lookups : ItemInv(l)
  BY <1>1 DEF ItemInv, Sharing
<1>7. CountInv
  <2>1. \A x \in Files : Sharers(x) = {} /\ fidTable[x].refCount = 0
    BY <1>1 DEF Sharers, NoEntry
  <2> QED
    BY <2>1, FS_EmptySet DEF CountInv
<1>8. RootInv /\ UnmountedInv
  BY <1>1 DEF RootInv, UnmountedInv
<1> QED
  BY <1>3, <1>4, <1>5, <1>6, <1>7, <1>8 DEF IInv, Safe

LEMMA InvStutters == ASSUME IInv, UNCHANGED vars PROVE IInv'
<1>1. UNCHANGED <<mounted, mounts, nextFid, freeFids, inUseFids, rootFid, bound, fidTable, at, target,
                  tempFid, itemFid, strayed, mishaps>>
  BY DEF vars, poolVars, taskVars
<1>2. TypeOK'
  BY <1>1 DEF IInv, TypeOK
<1>3. ASSUME Safe PROVE Safe'
  <2>1. UnmountedInv' /\ CountInv'
    BY <1>1, <1>3 DEF Safe, UnmountedInv, Entered, CountInv, Sharers
  <2>2. PoolInv' /\ RootInv'
    BY <1>1, <1>3 DEF Safe, PoolInv, RootInv
  <2>3. OwnInv' /\ BoundInv' /\ (\A f \in inUseFids : HasOwner(f))'
    BY <1>1, <1>3 DEF Safe, OwnInv, BoundInv, HasOwner, Owned, Temps, Givers, Entered
  <2>4. (\A l \in Lookups : ItemInv(l))'
    BY <1>1, <1>3 DEF Safe, ItemInv, Sharing, Orphan, Entered
  <2> QED
    BY <2>1, <2>2, <2>3, <2>4 DEF Safe
<1> QED
  BY <1>1, <1>2, <1>3 DEF IInv, Uncrossed

(* The history only grows, so what holds until a mishap held before it.    *)
LEMMA UncrossedBefore == ASSUME Next, Uncrossed' PROVE Uncrossed
<1>1. mishaps \subseteq mishaps'
  BY DEF Next, Mount, MountFails, Unmount, BeginLookup, Walk, WalkFails, WalkEmpty, CheckTable, InsertEntry,
         ClunkTemp, ClunkTempFails, ReleaseTemp, Reclaim, ClunkItem, ClunkItemFails, ReleaseItem, AllocFid,
         CountDown
<1> QED
  BY <1>1 DEF Uncrossed

LEMMA SafeStep == ASSUME TypeOK, Safe, Next, Uncrossed' PROVE Safe'
<1>1. CASE Mount
  BY <1>1, MountStep
<1>2. CASE MountFails
  BY <1>2, MountFailsStep
<1>3. CASE Unmount
  BY <1>3, UnmountStep
<1>4. ASSUME NEW l \in Lookups, NEW x \in Files, BeginLookup(l, x) PROVE Safe'
  BY <1>4, BeginLookupStep
<1>5. ASSUME NEW l \in Lookups,
             \/ Walk(l) \/ WalkFails(l) \/ WalkEmpty(l) \/ CheckTable(l) \/ InsertEntry(l)
             \/ ClunkTemp(l) \/ ClunkTempFails(l) \/ ReleaseTemp(l)
      PROVE  Safe'
  <2>1. CASE Walk(l) \/ WalkFails(l) \/ WalkEmpty(l)
    BY <2>1, WalkStep, WalkFailsStep, WalkEmptyStep
  <2>2. CASE CheckTable(l) \/ InsertEntry(l)
    BY <2>2, CheckTableShares, CheckTableMisses, InsertEntryStep
  <2>3. CASE ClunkTemp(l) \/ ClunkTempFails(l) \/ ReleaseTemp(l)
    BY <2>3, ClunkTempStep, ReleaseTempStep
  <2> QED
    BY <1>5, <2>1, <2>2, <2>3
<1>6. ASSUME NEW i \in Items, Reclaim(i) \/ ClunkItem(i) \/ ClunkItemFails(i) \/ ReleaseItem(i) PROVE Safe'
  <2>1. CASE i = RootItem
    BY <1>6, <2>1, ReclaimRoot, ClunkRoot, ReleaseRoot
  <2>2. CASE i \in Lookups /\ Reclaim(i)
    <3>1. at[i] = "live"
      BY <2>2 DEF Reclaim
    <3>2. CASE target[i] \notin Entered
      BY <2>2, <3>1, <3>2, ReclaimOrphan
    <3>3. CASE target[i] \in Entered
      <4>1. itemFid[i] = fidTable[target[i]].fid
        BY <2>2, <3>3, ReclaimOwn
      <4> QED
        BY <2>2, <3>1, <3>3, <4>1, ReclaimShare, ReclaimLast
    <3> QED
      BY <3>2, <3>3
  <2>3. CASE i \in Lookups /\ (ClunkItem(i) \/ ClunkItemFails(i) \/ ReleaseItem(i))
    BY <2>3, ClunkItemStep, ReleaseItemStep
  <2> QED
    BY <1>6, <2>1, <2>2, <2>3 DEF Items
<1> QED
  BY <1>1, <1>2, <1>3, <1>4, <1>5, <1>6 DEF Next

LEMMA InvStep == ASSUME IInv, [Next]_vars PROVE IInv'
<1>1. CASE UNCHANGED vars
  BY <1>1, InvStutters
<1>2. CASE Next
  <2>1. TypeOK'
    <3>1. CASE Mount \/ MountFails \/ Unmount
      BY <3>1, TypeMount DEF IInv
    <3>2. ASSUME NEW l \in Lookups, NEW x \in Files, BeginLookup(l, x) PROVE TypeOK'
      BY <3>2, TypeLookup DEF IInv
    <3>3. ASSUME NEW l \in Lookups,
                 \/ Walk(l) \/ WalkFails(l) \/ WalkEmpty(l) \/ CheckTable(l) \/ InsertEntry(l)
                 \/ ClunkTemp(l) \/ ClunkTempFails(l) \/ ReleaseTemp(l)
          PROVE  TypeOK'
      BY <3>3, TypeLookup DEF IInv
    <3>4. ASSUME NEW i \in Items, Reclaim(i) \/ ClunkItem(i) \/ ClunkItemFails(i) \/ ReleaseItem(i)
          PROVE  TypeOK'
      BY <3>4, TypeReclaim DEF IInv
    <3> QED
      BY <1>2, <3>1, <3>2, <3>3, <3>4 DEF Next
  <2>2. Uncrossed' => Safe'
    BY <1>2, UncrossedBefore, SafeStep DEF IInv
  <2> QED
    BY <2>1, <2>2 DEF IInv
<1> QED
  BY <1>1, <1>2

LEMMA Invariance == Spec => []IInv
<1>1. Init => IInv
  BY InvInit
<1>2. IInv /\ [Next]_vars => IInv'
  BY InvStep
<1> QED
  BY <1>1, <1>2, PTL DEF Spec

-----------------------------------------------------------------------------
(* Every variable of the volume, the pool and the server keeps its type,   *)
(* whatever overlaps and however often the numbers wrap; an entry of       *)
(* fidTable never has a count below one.                                   *)
THEOREM TypeCorrect == Spec => []TypeOK
<1>1. IInv => TypeOK
  BY DEF IInv
<1> QED
  BY <1>1, Invariance, PTL

(* Until a reclaim counts down an entry of another fid, or the numbers run *)
(* out, allocFid hands out no fid that somebody holds, holds twice, or the *)
(* server still has bound: whatever order lookups and reclaims end in, two *)
(* lookups of one file at once included, and whichever of their requests   *)
(* are refused.                                                            *)
THEOREM PoolSoundHolds == Spec => []PoolSound
<1>1. IInv => PoolSound
  <2> SUFFICES ASSUME TypeOK, Safe PROVE PoolSound
    BY DEF IInv, PoolSound
  <2>1. /\ DOMAIN freeFids = 1 .. Len(freeFids) /\ \A n \in 1 .. Len(freeFids) : freeFids[n] \in Fids
    BY DEF TypeOK
  <2> QED
    BY <2>1 DEF Safe, PoolInv, PoolSound
<1> QED
  BY <1>1, Invariance, PTL

(* Until then an Item FSKit holds has a fid that the server has bound to   *)
(* that Item's file: neither a clunk of a shared or reused fid nor a       *)
(* second insert over its entry takes it from the Item.                    *)
THEOREM LiveItemBoundHolds == Spec => []LiveItemBoundUncrossed
<1>1. IInv => LiveItemBoundUncrossed
  <2> SUFFICES ASSUME Safe, NEW i \in Items, at[i] = "live" PROVE bound[itemFid[i]] = target[i]
    BY DEF IInv, LiveItemBound, LiveItemBoundUncrossed
  <2>1. CASE i = RootItem
    BY <2>1 DEF Safe, RootInv
  <2>2. CASE i \in Lookups
    <3>1. ItemInv(i) /\ at[i] \in Sharing
      BY <2>2 DEF Safe, Sharing
    <3>2. CASE target[i] \in Entered /\ itemFid[i] = fidTable[target[i]].fid
      BY <3>2 DEF Safe, BoundInv
    <3>3. CASE Orphan(i)
      BY <3>3 DEF Orphan
    <3> QED
      BY <3>1, <3>2, <3>3 DEF ItemInv
  <2> QED
    BY <2>1, <2>2 DEF Items
<1> QED
  BY <1>1, Invariance, PTL

(* Until then the pool's books balance: a fid in use is held by the mount, *)
(* a table entry, a lookup or a reclaim, or was left behind, for good, by  *)
(* a refused walk, a refused clunk, an insert over another entry or an     *)
(* unmount; and none of those holds a fid that is not in use.              *)
THEOREM FidsAccountedHolds == Spec => []FidsAccounted
<1>1. IInv => FidsAccounted
  <2> SUFFICES ASSUME TypeOK, Safe PROVE inUseFids = Held \cup strayed
    BY DEF IInv, FidsAccounted
  <2>1. ASSUME NEW f \in inUseFids PROVE f \in Held \cup strayed
    <3>1. HasOwner(f)
      BY DEF Safe
    <3>2. Files \subseteq DOMAIN fidTable /\ Lookups \subseteq Items
      BY DEF TypeOK, Items
    <3> QED
      BY <3>1, <3>2 DEF HasOwner, Held, Temps, Givers, Entered
  <2>2. strayed \subseteq inUseFids /\ (mounted => rootFid \in inUseFids)
    BY DEF Safe, PoolInv, RootInv
  <2>3. \A x \in DOMAIN fidTable : fidTable[x] # NoEntry => fidTable[x].fid \in inUseFids
    <3>1. DOMAIN fidTable = Files \cup {RootFile}
      BY DEF TypeOK
    <3>2. fidTable[RootFile] # NoEntry => mounted /\ fidTable[RootFile].fid = rootFid
      BY DEF Safe, RootInv
    <3>3. \A x \in Files : fidTable[x] # NoEntry => fidTable[x].fid \in inUseFids
      BY DEF Safe, OwnInv, Owned, Entered
    <3> QED
      BY <2>2, <3>1, <3>2, <3>3
  <2>4. \A l \in Temps : tempFid[l] \in inUseFids
    BY DEF Safe, OwnInv, Owned
  <2>5. \A i \in Items : at[i] \in {"clunk", "release"} => itemFid[i] \in inUseFids
    <3>1. at[RootItem] \in {"clunk", "release"} => itemFid[RootItem] \in inUseFids
      BY <2>2 DEF Safe, RootInv
    <3>2. \A l \in Lookups : at[l] \in {"clunk", "release"} => itemFid[l] \in inUseFids
      BY DEF Safe, OwnInv, Owned, Givers
    <3> QED
      BY <3>1, <3>2 DEF Items
  <2> QED
    BY <2>1, <2>2, <2>3, <2>4, <2>5 DEF Held, Temps
<1> QED
  BY <1>1, Invariance, PTL

(* Until then the refCount of an entry is the number of lookups that share *)
(* its fid, those included whose own clunk was refused after they had      *)
(* counted: these nobody counts down, so the fid of an entry with such a   *)
(* share is never clunked; without one it is clunked when the last Item    *)
(* goes.                                                                   *)
THEOREM RefCountExactHolds == Spec => []RefCountExact
<1>1. IInv => RefCountExact
  BY DEF IInv, Safe, CountInv, Sharers, RefCountExact
<1> QED
  BY <1>1, Invariance, PTL
=============================================================================
