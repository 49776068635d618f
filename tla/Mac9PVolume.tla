---------------------------- MODULE Mac9PVolume ----------------------------
(***************************************************************************)
(* The fid life cycle of the FSKit volume: Mac9PVolume's fidTable (behind  *)
(* an NSLock), the fid pool of the NinePAsyncClient actor, and the fids    *)
(* the server has bound.                                                   *)
(*                                                                         *)
(* FSKit calls lookupItem and reclaimItem from any thread; each runs a     *)
(* Task.  A task is cut here at every await and at every lock section, so  *)
(* the tasks interleave as they do in the extension.                       *)
(***************************************************************************)
EXTENDS Naturals, Sequences, FiniteSets

CONSTANTS
    Lookups,        \* the calls of lookupItem, and the Item each one returns
    RootItem,       \* the volume's rootItem
    Files,          \* children of the root, that is qid.path values
    RootFile,       \* what the root fid is bound to
    Unbound,        \* a fid the server does not know
    NOFID,          \* the reserved fid, the last one (0xFFFFFFFF)
    MaxMounts,      \* bound: how often mount runs
    Faults          \* which errors happen, a subset of AllFaults

(* "attach" Tattach is refused    "walk"  Twalk gets Rerror                *)
(* "empty"  Rwalk has no qids     "clunk" Tclunk gets Rerror               *)
AllFaults == {"attach", "walk", "empty", "clunk"}

ASSUME VolumeAssumption ==
    /\ RootItem \notin Lookups
    /\ RootFile \notin Files /\ Unbound \notin Files \cup {RootFile}
    /\ NOFID \in Nat /\ NOFID > 1
    /\ MaxMounts \in Nat
    /\ Faults \subseteq AllFaults

Items == Lookups \cup {RootItem}
Fids == 0 .. NOFID

VARIABLES
    mounted,    \* between a successful mount and unmount
    mounts,     \* how many mounts were tried
    nextFid, freeFids, inUseFids, rootFid,  \* the pool in NinePAsyncClient
    bound,      \* the server: fid -> the file it is bound to
    fidTable,   \* file -> [fid, refCount], NoEntry when absent
    at,         \* where each lookup, or the reclaim of its Item, stands
    target,     \* the file a lookup resolves
    tempFid,    \* its tempFid
    itemFid,    \* Item.fid of the Item it returns
    strayed,    \* history: fids left in inUseFids by an error, an unmount
                \* or an entry written over
    mishaps     \* history: "wrapped" when the fid numbers have run out,
                \* "crossed" when a reclaim has counted down an entry that
                \* has another fid than its Item

poolVars == <<nextFid, freeFids, inUseFids, rootFid>>
taskVars == <<at, target, tempFid, itemFid>>
vars == <<mounted, mounts, poolVars, bound, fidTable, taskVars, strayed, mishaps>>

NoEntry == [fid |-> 0, refCount |-> 0]

Init ==
    /\ mounted = FALSE
    /\ mounts = 0
    /\ nextFid = 1
    /\ freeFids = <<>>
    /\ inUseFids = {}
    /\ rootFid = 0
    /\ bound = [f \in Fids |-> Unbound]
    /\ fidTable = [x \in Files \cup {RootFile} |-> NoEntry]
    /\ at = [i \in Items |-> "idle"]
    /\ target = [i \in Items |-> RootFile]
    /\ tempFid = [i \in Items |-> 0]
    /\ itemFid = [i \in Items |-> 0]
    /\ strayed = {} /\ mishaps = {}

-----------------------------------------------------------------------------
(* The fid pool.                                                           *)

(* allocFid: the last fid released, or else the next number; a number that *)
(* is reserved is stepped over once.                                       *)
AllocFid(f) ==
    \/ /\ freeFids # <<>>
       /\ f = freeFids[Len(freeFids)]
       /\ freeFids' = SubSeq(freeFids, 1, Len(freeFids) - 1)
       /\ UNCHANGED <<nextFid, mishaps>>
    \/ /\ freeFids = <<>>
       /\ f = IF nextFid \in {0, NOFID} THEN (nextFid + 1) % (NOFID + 1) ELSE nextFid
       /\ nextFid' = (f + 1) % (NOFID + 1)
       /\ mishaps' = mishaps \cup (IF nextFid = NOFID THEN {"wrapped"} ELSE {})
       /\ UNCHANGED freeFids

(* releaseFid.                                                             *)
ReleaseFid(f) ==
    IF f \in {0, NOFID, rootFid}
    THEN UNCHANGED poolVars
    ELSE /\ inUseFids' = inUseFids \ {f}
         /\ freeFids' = Append(freeFids, f)
         /\ UNCHANGED <<nextFid, rootFid>>

-----------------------------------------------------------------------------
(* mount and unmount.  FSKit sends no other operation while one of them    *)
(* runs, so each is one step.                                              *)

(* mount: connect, attach with a fid from the pool, enter the root.        *)
Mount ==
    /\ ~mounted /\ mounts < MaxMounts
    /\ mounted' = TRUE
    /\ mounts' = mounts + 1
    /\ \E f \in Fids :
          /\ AllocFid(f)
          /\ rootFid' = f
          /\ inUseFids' = inUseFids \cup {f}
          /\ bound' = [bound EXCEPT ![f] = RootFile]
          /\ fidTable' = [fidTable EXCEPT ![RootFile] = [fid |-> f, refCount |-> 1]]
          /\ itemFid' = [itemFid EXCEPT ![RootItem] = f]
    /\ at' = [at EXCEPT ![RootItem] = "live"]
    /\ UNCHANGED <<target, tempFid, strayed>>

(* attach throws: its fid is neither in use nor free any more.             *)
MountFails ==
    /\ "attach" \in Faults
    /\ ~mounted /\ mounts < MaxMounts
    /\ mounts' = mounts + 1
    /\ \E f \in Fids : AllocFid(f)
    /\ UNCHANGED <<mounted, inUseFids, rootFid, bound, fidTable, taskVars, strayed>>

Resting == {"idle", "live", "gone", "failed"}

(* unmount: disconnect, so that the server drops every fid, and empty the  *)
(* table.  The pool keeps its books; the kernel forgets its Items.         *)
Unmount ==
    /\ mounted
    /\ \A i \in Items : at[i] \in Resting
    /\ mounted' = FALSE
    /\ bound' = [f \in Fids |-> Unbound]
    /\ fidTable' = [x \in DOMAIN fidTable |-> NoEntry]
    /\ at' = [i \in Items |-> IF at[i] = "live" THEN "gone" ELSE at[i]]
    /\ strayed' = strayed \cup inUseFids
    /\ UNCHANGED <<mounts, poolVars, target, tempFid, itemFid, mishaps>>

-----------------------------------------------------------------------------
(* lookupItem                                                              *)

(* client.allocateFid, on the actor.                                       *)
BeginLookup(l, x) ==
    /\ at[l] = "idle" /\ at[RootItem] = "live"
    /\ \E f \in Fids :
          /\ AllocFid(f)
          /\ inUseFids' = inUseFids \cup {f}
          /\ tempFid' = [tempFid EXCEPT ![l] = f]
    /\ target' = [target EXCEPT ![l] = x]
    /\ at' = [at EXCEPT ![l] = "walk"]
    /\ UNCHANGED <<mounted, mounts, rootFid, bound, fidTable, itemFid, strayed>>

(* The server walks from the directory to tempFid and the reply arrives.   *)
Walk(l) ==
    /\ at[l] = "walk"
    /\ bound[itemFid[RootItem]] = RootFile /\ bound[tempFid[l]] = Unbound
    /\ bound' = [bound EXCEPT ![tempFid[l]] = target[l]]
    /\ at' = [at EXCEPT ![l] = "check"]
    /\ UNCHANGED <<mounted, mounts, poolVars, fidTable, target, tempFid, itemFid, strayed, mishaps>>

(* Rerror, for a missing name, a fid already bound or an unknown one: the  *)
(* catch replies with the error and leaves tempFid in use.                 *)
WalkFails(l) ==
    /\ at[l] = "walk"
    /\ \/ "walk" \in Faults
       \/ bound[itemFid[RootItem]] # RootFile \/ bound[tempFid[l]] # Unbound
    /\ at' = [at EXCEPT ![l] = "failed"]
    /\ strayed' = strayed \cup {tempFid[l]}
    /\ UNCHANGED <<mounted, mounts, poolVars, bound, fidTable, target, tempFid, itemFid, mishaps>>

(* Mutant: the pool does not get tempFid back.                             *)
WalkEmptyKeepsFid(l) ==
    /\ "empty" \in Faults
    /\ at[l] = "walk"
    /\ at' = [at EXCEPT ![l] = "failed"]
    /\ UNCHANGED <<mounted, mounts, poolVars, bound, fidTable, target, tempFid, itemFid, strayed, mishaps>>

(* Rwalk without qids: tempFid goes back to the pool and ENOENT out.       *)
WalkEmpty(l) ==
    /\ "empty" \in Faults
    /\ at[l] = "walk"
    /\ ReleaseFid(tempFid[l])
    /\ at' = [at EXCEPT ![l] = "failed"]
    /\ UNCHANGED <<mounted, mounts, bound, fidTable, target, tempFid, itemFid, strayed, mishaps>>

(* Mutant: the entry is shared and its count stays.                        *)
CheckTableUncounted(l) ==
    LET e == fidTable[target[l]] IN
    /\ at[l] = "check"
    /\ \/ e # NoEntry /\ itemFid' = [itemFid EXCEPT ![l] = e.fid]
          /\ at' = [at EXCEPT ![l] = "clunkTemp"]
       \/ e = NoEntry /\ at' = [at EXCEPT ![l] = "insert"] /\ UNCHANGED itemFid
    /\ UNCHANGED <<mounted, mounts, poolVars, bound, fidTable, target, tempFid, strayed, mishaps>>

(* First lock section: an entry is shared and its count raised.            *)
CheckTable(l) ==
    LET e == fidTable[target[l]] IN
    /\ at[l] = "check"
    /\ \/ /\ e # NoEntry
          /\ fidTable' = [fidTable EXCEPT ![target[l]].refCount = @ + 1]
          /\ itemFid' = [itemFid EXCEPT ![l] = e.fid]
          /\ at' = [at EXCEPT ![l] = "clunkTemp"]
       \/ /\ e = NoEntry
          /\ at' = [at EXCEPT ![l] = "insert"]
          /\ UNCHANGED <<fidTable, itemFid>>
    /\ UNCHANGED <<mounted, mounts, poolVars, bound, target, tempFid, strayed, mishaps>>

(* Second lock section: the entry is written, and the Item handed out.     *)
(* Another lookup may have written one since the table was checked; its    *)
(* fid is in no entry then.                                                *)
InsertEntry(l) ==
    LET e == fidTable[target[l]] IN
    /\ at[l] = "insert"
    /\ fidTable' = [fidTable EXCEPT ![target[l]] = [fid |-> tempFid[l], refCount |-> 1]]
    /\ itemFid' = [itemFid EXCEPT ![l] = tempFid[l]]
    /\ at' = [at EXCEPT ![l] = "live"]
    /\ strayed' = strayed \cup (IF e # NoEntry THEN {e.fid} ELSE {})
    /\ UNCHANGED <<mounted, mounts, poolVars, bound, target, tempFid, mishaps>>

(* Tclunk: the fid is gone at the server whatever the answer is, and the   *)
(* answer is Rerror when the server did not know it.                       *)
ClunkAnswered(f) == bound[f] # Unbound /\ bound' = [bound EXCEPT ![f] = Unbound]

ClunkRefused(f) ==
    /\ "clunk" \in Faults \/ bound[f] = Unbound
    /\ bound' = [bound EXCEPT ![f] = Unbound]

ClunkTemp(l) ==
    /\ at[l] = "clunkTemp"
    /\ ClunkAnswered(tempFid[l])
    /\ at' = [at EXCEPT ![l] = "releaseTemp"]
    /\ UNCHANGED <<mounted, mounts, poolVars, fidTable, target, tempFid, itemFid, strayed, mishaps>>

(* The catch replies with the error; the count stays raised.               *)
ClunkTempFails(l) ==
    /\ at[l] = "clunkTemp"
    /\ ClunkRefused(tempFid[l])
    /\ at' = [at EXCEPT ![l] = "failed"]
    /\ strayed' = strayed \cup {tempFid[l]}
    /\ UNCHANGED <<mounted, mounts, poolVars, fidTable, target, tempFid, itemFid, mishaps>>

(* Mutant: the shared fid is released in place of tempFid.                 *)
ReleaseTempShared(l) ==
    /\ at[l] = "releaseTemp"
    /\ ReleaseFid(itemFid[l])
    /\ at' = [at EXCEPT ![l] = "live"]
    /\ UNCHANGED <<mounted, mounts, bound, fidTable, target, tempFid, itemFid, strayed, mishaps>>

(* releaseFid on the actor; the Item with the shared fid is handed out.    *)
ReleaseTemp(l) ==
    /\ at[l] = "releaseTemp"
    /\ ReleaseFid(tempFid[l])
    /\ at' = [at EXCEPT ![l] = "live"]
    /\ UNCHANGED <<mounted, mounts, bound, fidTable, target, tempFid, itemFid, strayed, mishaps>>

-----------------------------------------------------------------------------
(* reclaimItem                                                             *)

(* The entry is found by the file alone; its fid may be another one.       *)
CountDown(i) ==
    LET e == fidTable[target[i]] IN
    mishaps' = mishaps \cup (IF e # NoEntry /\ e.fid # itemFid[i] THEN {"crossed"} ELSE {})

(* Mutant: the count is compared before it is lowered.                     *)
ReclaimAtZero(i) ==
    LET e == fidTable[target[i]] IN
    /\ at[i] = "live"
    /\ i = RootItem => \A l \in Lookups : at[l] \in Resting \ {"live"}
    /\ at' = [at EXCEPT ![i] = "gone"]
    /\ \/ e = NoEntry /\ UNCHANGED fidTable
       \/ e # NoEntry /\ fidTable' = [fidTable EXCEPT ![target[i]].refCount = @ - 1]
    /\ CountDown(i)
    /\ UNCHANGED <<mounted, mounts, poolVars, bound, target, tempFid, itemFid, strayed>>

(* Mutant: the entry goes while one more Item shares it.                   *)
ReclaimEarly(i) ==
    LET e == fidTable[target[i]] IN
    /\ at[i] = "live"
    /\ i = RootItem => \A l \in Lookups : at[l] \in Resting \ {"live"}
    /\ \/ /\ e # NoEntry /\ e.refCount <= 2
          /\ fidTable' = [fidTable EXCEPT ![target[i]] = NoEntry]
          /\ at' = [at EXCEPT ![i] = IF itemFid[i] # 0 THEN "clunk" ELSE "gone"]
       \/ /\ e # NoEntry /\ e.refCount > 2
          /\ fidTable' = [fidTable EXCEPT ![target[i]].refCount = @ - 1]
          /\ at' = [at EXCEPT ![i] = "gone"]
       \/ e = NoEntry /\ at' = [at EXCEPT ![i] = "gone"] /\ UNCHANGED fidTable
    /\ CountDown(i)
    /\ UNCHANGED <<mounted, mounts, poolVars, bound, target, tempFid, itemFid, strayed>>

(* The lock section.  The kernel gives up the root after everything else.  *)
Reclaim(i) ==
    LET e == fidTable[target[i]] IN
    /\ at[i] = "live"
    /\ i = RootItem => \A l \in Lookups : at[l] \in Resting \ {"live"}
    /\ \/ /\ e # NoEntry /\ e.refCount <= 1
          /\ fidTable' = [fidTable EXCEPT ![target[i]] = NoEntry]
          /\ at' = [at EXCEPT ![i] = IF itemFid[i] # 0 THEN "clunk" ELSE "gone"]
       \/ /\ e # NoEntry /\ e.refCount > 1
          /\ fidTable' = [fidTable EXCEPT ![target[i]].refCount = @ - 1]
          /\ at' = [at EXCEPT ![i] = "gone"]
       \/ /\ e = NoEntry
          /\ at' = [at EXCEPT ![i] = "gone"]
          /\ UNCHANGED fidTable
    /\ CountDown(i)
    /\ UNCHANGED <<mounted, mounts, poolVars, bound, target, tempFid, itemFid, strayed>>

ClunkItem(i) ==
    /\ at[i] = "clunk"
    /\ ClunkAnswered(itemFid[i])
    /\ at' = [at EXCEPT ![i] = "release"]
    /\ UNCHANGED <<mounted, mounts, poolVars, fidTable, target, tempFid, itemFid, strayed, mishaps>>

(* The catch replies with the error and never releases the fid.            *)
ClunkItemFails(i) ==
    /\ at[i] = "clunk"
    /\ ClunkRefused(itemFid[i])
    /\ at' = [at EXCEPT ![i] = "gone"]
    /\ strayed' = strayed \cup {itemFid[i]}
    /\ UNCHANGED <<mounted, mounts, poolVars, fidTable, target, tempFid, itemFid, mishaps>>

ReleaseItem(i) ==
    /\ at[i] = "release"
    /\ ReleaseFid(itemFid[i])
    /\ at' = [at EXCEPT ![i] = "gone"]
    /\ UNCHANGED <<mounted, mounts, bound, fidTable, target, tempFid, itemFid, strayed, mishaps>>

-----------------------------------------------------------------------------
Next ==
    \/ Mount \/ MountFails \/ Unmount
    \/ \E l \in Lookups :
          \/ \E x \in Files : BeginLookup(l, x)
          \/ Walk(l) \/ WalkFails(l) \/ WalkEmpty(l) \/ CheckTable(l) \/ InsertEntry(l)
          \/ ClunkTemp(l) \/ ClunkTempFails(l) \/ ReleaseTemp(l)
    \/ \E i \in Items :
          Reclaim(i) \/ ClunkItem(i) \/ ClunkItemFails(i) \/ ReleaseItem(i)

Spec == Init /\ [][Next]_vars

-----------------------------------------------------------------------------
(* Properties.                                                             *)

TypeOK ==
    /\ mounted \in BOOLEAN
    /\ mounts \in 0 .. MaxMounts
    /\ nextFid \in Fids
    /\ freeFids \in Seq(Fids)
    /\ inUseFids \subseteq Fids
    /\ rootFid \in Fids
    /\ bound \in [Fids -> Files \cup {RootFile, Unbound}]
    /\ fidTable \in [Files \cup {RootFile} ->
                     {NoEntry} \cup [fid : Fids, refCount : Nat \ {0}]]
    /\ at \in [Items -> {"idle", "walk", "check", "insert", "clunkTemp",
                         "releaseTemp", "live", "clunk", "release", "gone", "failed"}]
    /\ target \in [Items -> Files \cup {RootFile}]
    /\ tempFid \in [Items -> Fids]
    /\ itemFid \in [Items -> Fids]
    /\ strayed \subseteq Fids
    /\ mishaps \subseteq {"wrapped", "crossed"}

(* The fid of every Item FSKit holds still names that Item's file at the   *)
(* server: stat, read and readDir on it reach the right file.              *)
LiveItemBound ==
    \A i \in Items : at[i] = "live" => bound[itemFid[i]] = target[i]

(* The properties below are about every behaviour, lookups of one file     *)
(* that overlap and entries written over included, up to the first reclaim *)
(* that counts down an entry of another fid, or until the fid numbers have *)
(* run out.                                                                *)
Uncrossed == mishaps = {}

(* Until then no Item loses its fid, although a second insert may have     *)
(* taken its entry away from it.                                           *)
LiveItemBoundUncrossed == Uncrossed => LiveItemBound

(* A fid the pool may hand out is handed out once, belongs to nobody and   *)
(* is unknown to the server.                                               *)
PoolSound ==
    Uncrossed =>
        /\ \A m, n \in DOMAIN freeFids : freeFids[m] = freeFids[n] => m = n
        /\ \A n \in DOMAIN freeFids :
              freeFids[n] \notin inUseFids /\ bound[freeFids[n]] = Unbound

(* The fids some task or table entry is responsible for.                   *)
Held ==
    (IF mounted THEN {rootFid} ELSE {})
    \cup {fidTable[x].fid : x \in {y \in DOMAIN fidTable : fidTable[y] # NoEntry}}
    \cup {tempFid[l] : l \in {k \in Lookups : at[k] \in
             {"walk", "check", "insert", "clunkTemp", "releaseTemp"}}}
    \cup {itemFid[i] : i \in {k \in Items : at[k] \in {"clunk", "release"}}}

(* Only a refused walk, a refused clunk, an unmount and an entry written   *)
(* over leave a fid behind in inUseFids: every other fid in use is held by *)
(* an entry or a task.                                                     *)
FidsAccounted == Uncrossed => inUseFids = Held \cup strayed

(* The count of an entry is the number of Items that share its fid, those  *)
(* about to be handed out included, and those whose lookup failed after it *)
(* had counted, which nobody will ever count down.                         *)
RefCountExact ==
    Uncrossed =>
        \A x \in Files : fidTable[x].refCount =
            Cardinality({l \in Lookups : /\ target[l] = x /\ itemFid[l] # 0
                                         /\ itemFid[l] = fidTable[x].fid
                                         /\ at[l] \in {"live", "clunkTemp", "releaseTemp", "failed"}})
=============================================================================
