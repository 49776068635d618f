----------------------------- MODULE KextFiles -----------------------------
(***************************************************************************)
(* The vnode operations of the kernel extension on a directory and one     *)
(* file in it (vnops.c): their locks, the three open fids each node shares *)
(* among all who have opened it, and the fids they walk, open and clunk.   *)
(*                                                                         *)
(* Node table, reclaim and lookup are KextNodes' subject, what a request   *)
(* says and returns is KextRequests'.  Here a request is one step, in      *)
(* which the server takes its effect or the request fails.  The kernel is  *)
(* external: it reads, writes and closes only what it has opened, and not  *)
(* a descriptor somebody is using, but it pages in and out when it likes.  *)
(***************************************************************************)
EXTENDS Integers, FiniteSets, Sequences

CONSTANTS
    Threads,
    Null,
    MaxCalls,    \* bound: vnode operations begun
    Opened,      \* bound: the sets of modes the file may be open in at first
    Faults       \* which requests may fail: subset of Requests

Requests == {"walk", "open", "create", "clunk", "remove", "memory"}

Node == {"dir", "file"}
Mode == {"OREAD", "OWRITE", "ORDWR"}

ASSUME FilesAssumption ==
    /\ Null \notin Threads /\ Threads # {} /\ MaxCalls \in Nat
    /\ Opened \subseteq SUBSET Mode /\ {} \in Opened /\ Faults \subseteq Requests

Fids == 1 .. 2 * MaxCalls + 5
NOFID == 0

VARIABLES
    sh,       \* np->lck: the threads that have it shared
    ex,       \* np->lck: the thread that has it exclusive, or Null
    lcktype,  \* np->lcktype
    fid,      \* np->fid; NOFID for the file until its node exists
    slot,     \* np->openfid: [fid, ref] for each mode
    srv,      \* server: what each fid is, and how it was opened
    nfid,     \* nmp->nfid
    name,     \* server: what has become of the file's name
    dirty,    \* kernel: pages of the file yet to be written
    loc,      \* what each thread is doing
    opens,    \* kernel: opens that have not been closed
    kept,     \* history: references ncreate_9p took, nobody's to close
    lost,     \* history: fids whose clunk failed
    stray,    \* history: open has clunked a fid it never walked to
    calls     \* operations begun

locks == <<sh, ex, lcktype>>
server == <<srv, nfid>>
history == <<kept, lost, stray>>
vars == <<locks, fid, slot, server, name, dirty, loc, opens, history, calls>>

Is(n, m) == [n |-> n, m |-> m]
Free == Is("none", "no")
Closed == [fid |-> NOFID, ref |-> 0]

(* st is where a thread is; want the locks it has yet to take and held     *)
(* those it has, with how it asked for them; fid and open its local fids;  *)
(* pick the slot nread_9p and nwrite_9p point op at.                       *)
Idle == [o |-> [op |-> "none"], st |-> "idle", want |-> <<>>, held |-> <<>>,
         fid |-> NOFID, open |-> NOFID, pick |-> "no"]

(* The file is there and open in any of the modes, or is not there yet.    *)
Init ==
    /\ sh = [n \in Node |-> {}] /\ ex = [n \in Node |-> Null] /\ lcktype = [n \in Node |-> "none"]
    /\ \E present \in BOOLEAN, opened \in Opened :
          LET first == [m \in Mode |-> CASE m = "OREAD" -> 3 [] m = "OWRITE" -> 4 [] OTHER -> 5]
              open(n, m) == n = "file" /\ m \in opened IN
          /\ present \/ opened = {}
          /\ fid = [dir |-> 1, file |-> IF present THEN 2 ELSE NOFID]
          /\ name = IF present THEN "there" ELSE "absent"
          /\ slot = [n \in Node |-> [m \in Mode |-> IF open(n, m) THEN [fid |-> first[m], ref |-> 1] ELSE Closed]]
          /\ opens = [n \in Node |-> [m \in Mode |-> IF open(n, m) THEN 1 ELSE 0]]
          /\ srv = [f \in Fids |->
                       IF f = 1 THEN Is("dir", "no") ELSE IF f = 2 /\ present THEN Is("file", "no")
                       ELSE IF \E m \in opened : first[m] = f THEN Is("file", CHOOSE m \in Mode : first[m] = f)
                       ELSE Free]
    /\ nfid = 6 /\ dirty = FALSE
    /\ loc = [t \in Threads |-> Idle]
    /\ kept = 0 /\ lost = {} /\ stray = FALSE /\ calls = 0

-----------------------------------------------------------------------------
(* Operations.  Those that lock one node and make at most one request on   *)
(* its own fid, which changes nothing here, differ in no more than that.   *)

Plain == {"getattr", "setattr", "fsync"}

Operations ==
    [op : {"open", "close"}, n : {"file"}, m : Mode] \cup [op : {"open", "close"}, n : {"dir"}, m : {"OREAD"}]
    \cup [op : {"read"}, n : {"file"}, m : {"OREAD", "ORDWR"}]
    \cup [op : {"write"}, n : {"file"}, m : {"OWRITE", "ORDWR"}]
    \cup [op : {"readdir"}, n : {"dir"}, m : {"OREAD"}]
    \cup [op : Plain \cup {"remove", "rename", "pagein", "pageout"}, n : {"file"}]
    \cup [op : {"create"}, n : {"dir"}]

Lock(n, type) == [n |-> n, type |-> type]

(* Mutant: close only shares the node.                                     *)
LocksCloseShared(o) ==
    CASE o.op \in {"pagein", "pageout"} -> <<>>
      [] o.op \in {"read", "close"} -> <<Lock(o.n, "shared")>>
      [] o.op \in {"remove", "rename"} -> <<Lock("dir", "exclusive"), Lock("file", "exclusive")>>
      [] OTHER -> <<Lock(o.n, "exclusive")>>

(* Mutant: rename locks the file before its directory.                     *)
LocksCrossed(o) ==
    CASE o.op \in {"pagein", "pageout"} -> <<>>
      [] o.op = "read" -> <<Lock(o.n, "shared")>>
      [] o.op = "remove" -> <<Lock("dir", "exclusive"), Lock("file", "exclusive")>>
      [] o.op = "rename" -> <<Lock("file", "exclusive"), Lock("dir", "exclusive")>>
      [] OTHER -> <<Lock(o.n, "exclusive")>>

(* vnop_pagein and vnop_pageout take no lock of ours.                      *)
Locks(o) ==
    CASE o.op \in {"pagein", "pageout"} -> <<>>
      [] o.op = "read" -> <<Lock(o.n, "shared")>>
      [] o.op \in {"remove", "rename"} -> <<Lock("dir", "exclusive"), Lock("file", "exclusive")>>
      [] OTHER -> <<Lock(o.n, "exclusive")>>

Using(n, m) == {t \in Threads : loc[t].o.op \in {"read", "write", "readdir"} /\ loc[t].o.n = n /\ loc[t].o.m = m}

(* What the kernel may ask for.  After a remove the name is gone and what  *)
(* is open stays open.  Bound: one file is created, before any remove.     *)
May(o) ==
    CASE o.op \in {"read", "write", "readdir"} -> opens[o.n][o.m] > 0
      [] o.op = "close" -> opens[o.n][o.m] > Cardinality(Using(o.n, o.m))
      [] o.op = "create" -> name = "absent"
      [] o.op = "remove" -> fid["file"] # NOFID /\ name # "removed" /\ \A t \in Threads : loc[t].o.op # "create"
      [] o.op = "pageout" -> dirty
      [] o.op \in Plain \cup {"pagein"} -> fid[o.n] # NOFID
      [] OTHER -> fid[o.n] # NOFID /\ (o.n = "file" => name # "removed")

(* Bound: nothing more is begun once open has clunked what is not its own. *)
Begin(t) ==
    /\ loc[t].st = "idle" /\ calls < MaxCalls /\ ~stray
    /\ calls' = calls + 1
    /\ \E o \in Operations :
          /\ May(o)
          /\ loc' = [loc EXCEPT ![t] = [Idle EXCEPT !.o = o, !.want = Locks(o),
                                                     !.st = IF Locks(o) = <<>> THEN "body" ELSE "lock"]]
          /\ opens' = IF o.op = "close" THEN [opens EXCEPT ![o.n][o.m] = @ - 1] ELSE opens
    /\ UNCHANGED <<locks, fid, slot, server, name, dirty, history>>

Goto(t, s) == loc' = [loc EXCEPT ![t].st = s]

-----------------------------------------------------------------------------
(* nlock_9p and nunlock_9p: the lock, and apart from it the note of how it *)
(* was taken, which the unlock goes by.                                    *)

NlockTake(t) ==
    /\ loc[t].st = "lock"
    /\ LET n == Head(loc[t].want).n IN
       /\ ex[n] = Null
       /\ IF Head(loc[t].want).type = "shared"
          THEN sh' = [sh EXCEPT ![n] = @ \cup {t}] /\ UNCHANGED ex
          ELSE sh[n] = {} /\ ex' = [ex EXCEPT ![n] = t] /\ UNCHANGED sh
    /\ Goto(t, "note")
    /\ UNCHANGED <<lcktype, fid, slot, server, name, dirty, opens, history, calls>>

NlockNote(t) ==
    /\ loc[t].st = "note"
    /\ LET l == Head(loc[t].want) IN
       /\ lcktype' = [lcktype EXCEPT ![l.n] = l.type]
       /\ loc' = [loc EXCEPT ![t].st = IF Len(loc[t].want) = 1 THEN "body" ELSE "lock",
                             ![t].want = Tail(@), ![t].held = <<l>> \o @]
    /\ UNCHANGED <<sh, ex, fid, slot, server, name, dirty, opens, history, calls>>

(* The handler goes on to its next unlock, or returns.                     *)
Unlocked(t) ==
    loc' = [loc EXCEPT ![t] = IF Len(loc[t].held) = 1 THEN Idle
                              ELSE [loc[t] EXCEPT !.st = "unlock", !.held = Tail(loc[t].held)]]

(* Mutant: an exclusive unlock leaves the note.                            *)
NunlockKeeps(t) ==
    /\ loc[t].st = "unlock" /\ loc[t].held # <<>>
    /\ LET n == Head(loc[t].held).n IN
       /\ IF lcktype[n] = "shared" THEN sh' = [sh EXCEPT ![n] = @ \ {t}] ELSE UNCHANGED sh
       /\ IF lcktype[n] = "exclusive" THEN Goto(t, "drop") ELSE Unlocked(t)
    /\ UNCHANGED <<ex, lcktype, fid, slot, server, name, dirty, opens, history, calls>>

(* Mutant: a shared unlock also takes the note back.                       *)
NunlockNone(t) ==
    /\ loc[t].st = "unlock" /\ loc[t].held # <<>>
    /\ LET n == Head(loc[t].held).n IN
       /\ lcktype' = [lcktype EXCEPT ![n] = "none"]
       /\ IF lcktype[n] = "shared" THEN sh' = [sh EXCEPT ![n] = @ \ {t}] ELSE UNCHANGED sh
       /\ IF lcktype[n] = "exclusive" THEN Goto(t, "drop")
          ELSE Unlocked(t)
    /\ UNCHANGED <<ex, fid, slot, server, name, dirty, opens, history, calls>>

Nunlock(t) ==
    /\ loc[t].st = "unlock" /\ loc[t].held # <<>>
    /\ LET n == Head(loc[t].held).n IN
       CASE lcktype[n] = "shared" ->
               /\ sh' = [sh EXCEPT ![n] = @ \ {t}]
               /\ Unlocked(t)
               /\ UNCHANGED lcktype
         [] lcktype[n] = "exclusive" ->
               /\ lcktype' = [lcktype EXCEPT ![n] = "none"]
               /\ Goto(t, "drop")
               /\ UNCHANGED sh
         [] lcktype[n] = "none" ->
               /\ Unlocked(t)
               /\ UNCHANGED <<sh, lcktype>>
    /\ UNCHANGED <<ex, fid, slot, server, name, dirty, opens, history, calls>>

NunlockDrop(t) ==
    /\ loc[t].st = "drop"
    /\ ex' = [ex EXCEPT ![Head(loc[t].held).n] = Null]
    /\ Unlocked(t)
    /\ UNCHANGED <<sh, lcktype, fid, slot, server, name, dirty, opens, history, calls>>

(* vnop_pagein_9p and vnop_pageout_9p have nothing to unlock.              *)
Return(t) ==
    /\ loc[t].st = "unlock" /\ loc[t].held = <<>>
    /\ loc' = [loc EXCEPT ![t] = Idle]
    /\ UNCHANGED <<locks, fid, slot, server, name, dirty, opens, history, calls>>

-----------------------------------------------------------------------------
(* Requests                                                                *)

(* walk_9p: a fid for n.  The number that a walk which fails uses up is    *)
(* never seen again and not counted.                                       *)
WalkTo(n, f) ==
    /\ srv' = [srv EXCEPT ![f] = Is(n, "no")]
    /\ nfid' = nfid + 1

(* clunk_9p.  When it fails the fid stays as it is.                        *)
DoClunk(f) ==
    \/ f = NOFID /\ UNCHANGED <<srv, lost>>
    \/ f # NOFID /\ srv' = [srv EXCEPT ![f] = Free] /\ UNCHANGED lost
    \/ f # NOFID /\ "clunk" \in Faults /\ lost' = lost \cup {f} /\ UNCHANGED srv

-----------------------------------------------------------------------------
(* vnop_open_9p                                                            *)

Opening(t, s) == loc[t].o.op = "open" /\ loc[t].st = s

(* Both ways end in OSIncrementAtomic(&op->ref).                           *)
OpenRef(t, f) ==
    /\ slot' = [slot EXCEPT ![loc[t].o.n][loc[t].o.m] = [fid |-> f, ref |-> @.ref + 1]]
    /\ opens' = [opens EXCEPT ![loc[t].o.n][loc[t].o.m] = @ + 1]
    /\ loc' = [loc EXCEPT ![t].st = "unlock", ![t].fid = NOFID]

OpenShared(t) ==
    /\ Opening(t, "body")
    /\ LET f == slot[loc[t].o.n][loc[t].o.m].fid IN f # NOFID /\ OpenRef(t, f)
    /\ UNCHANGED <<locks, fid, server, name, dirty, history, calls>>

OpenWalk(t) ==
    /\ Opening(t, "body")
    /\ slot[loc[t].o.n][loc[t].o.m].fid = NOFID /\ srv[fid[loc[t].o.n]] # Free
    /\ WalkTo(loc[t].o.n, nfid)
    /\ loc' = [loc EXCEPT ![t].st = "open", ![t].fid = nfid]
    /\ UNCHANGED <<locks, fid, slot, name, dirty, opens, history, calls>>

(* fid has not been set, and what the stack holds is clunked.  A number    *)
(* the server does not know does as little as NOFID.                       *)
OpenWalkFails(t) ==
    /\ Opening(t, "body")
    /\ slot[loc[t].o.n][loc[t].o.m].fid = NOFID
    /\ "walk" \in Faults \/ srv[fid[loc[t].o.n]] = Free
    /\ \E f \in {NOFID} \cup {g \in Fids : srv[g] # Free} :
          /\ loc' = [loc EXCEPT ![t].st = "failed", ![t].fid = f]
          /\ stray' = (stray \/ f # NOFID)
    /\ UNCHANGED <<locks, fid, slot, server, name, dirty, opens, kept, lost, calls>>

OpenOpen(t) ==
    /\ Opening(t, "open") /\ srv[loc[t].fid] # Free
    /\ srv' = [srv EXCEPT ![loc[t].fid].m = loc[t].o.m]
    /\ OpenRef(t, loc[t].fid)
    /\ UNCHANGED <<locks, fid, nfid, name, dirty, history, calls>>

OpenOpenFails(t) ==
    /\ Opening(t, "open") /\ ("open" \in Faults \/ srv[loc[t].fid] = Free)
    /\ Goto(t, "failed")
    /\ UNCHANGED <<locks, fid, slot, server, name, dirty, opens, history, calls>>

(* Mutant: the fid that could not be opened is forgotten.                  *)
OpenErrorKeeps(t) ==
    /\ Opening(t, "failed")
    /\ loc' = [loc EXCEPT ![t].st = "unlock", ![t].fid = NOFID]
    /\ UNCHANGED <<locks, fid, slot, server, name, dirty, opens, history, calls>>

OpenError(t) ==
    /\ Opening(t, "failed")
    /\ DoClunk(loc[t].fid)
    /\ loc' = [loc EXCEPT ![t].st = "unlock", ![t].fid = NOFID]
    /\ UNCHANGED <<locks, fid, slot, nfid, name, dirty, opens, kept, stray, calls>>

-----------------------------------------------------------------------------
(* vnop_close_9p                                                           *)

Closing(t, s) == loc[t].o.op = "close" /\ loc[t].st = s
ClosedSlot(t) == slot[loc[t].o.n][loc[t].o.m]

(* Mutant: OSDecrementAtomic is taken to return the new value.             *)
LastRefNew(ref) == ref - 1 = 1

(* OSDecrementAtomic(&op->ref) == 1, the value before                      *)
LastRef(ref) == ref = 1

CloseDecrement(t) ==
    /\ Closing(t, "body")
    /\ LET s == ClosedSlot(t) IN
       IF s.fid = NOFID
       THEN Goto(t, "unlock") /\ UNCHANGED slot
       ELSE /\ slot' = [slot EXCEPT ![loc[t].o.n][loc[t].o.m].ref = @ - 1]
            /\ Goto(t, IF LastRef(s.ref) THEN "push" ELSE "unlock")
    /\ UNCHANGED <<locks, fid, server, name, dirty, opens, history, calls>>

CloseClunk(t) ==
    /\ Closing(t, "clunk")
    /\ DoClunk(ClosedSlot(t).fid)
    /\ Goto(t, "reset")
    /\ UNCHANGED <<locks, fid, slot, nfid, name, dirty, opens, kept, stray, calls>>

CloseReset(t) ==
    /\ Closing(t, "reset")
    /\ slot' = [slot EXCEPT ![loc[t].o.n][loc[t].o.m].fid = NOFID]
    /\ Goto(t, "unlock")
    /\ UNCHANGED <<locks, fid, server, name, dirty, opens, history, calls>>

-----------------------------------------------------------------------------
(* nread_9p and nwrite_9p, called by vnop_read_9p and vnop_write_9p, or by *)
(* vnop_strategy_9p for the cache; vnop_readdir_9p; and the pages the      *)
(* cache still has to write, which close, fsync and an uncached read push. *)

Reads == {"read", "pagein", "readdir"}
Transfers == Reads \cup {"write", "pageout"}
Doing(t, ops, s) == loc[t].o.op \in ops /\ loc[t].st = s

(* op, the slot that is used                                               *)
SlotFor(n, op) ==
    LET first == IF op \in Reads THEN "OREAD" ELSE "OWRITE" IN
    IF slot[n][first].fid # NOFID THEN first ELSE "ORDWR"

(* A read takes from the server what the cache lacks, if anything, and a   *)
(* write may stay in the cache.                                            *)
ReadCached(t) ==
    /\ Doing(t, {"read"}, "body")
    /\ \E s \in {"pick", "unlock"} : Goto(t, s)
    /\ UNCHANGED <<locks, fid, slot, server, name, dirty, opens, history, calls>>

WriteCached(t) ==
    /\ Doing(t, {"write"}, "body")
    /\ dirty' = TRUE
    /\ Goto(t, "unlock")
    /\ UNCHANGED <<locks, fid, slot, server, name, opens, history, calls>>

(* The kernel reads what a write leaves of a page, by vnop_strategy_9p.    *)
WriteFillFails(t) ==
    /\ Doing(t, {"write"}, "body")
    /\ slot[loc[t].o.n][SlotFor(loc[t].o.n, "read")].fid = NOFID
    /\ Goto(t, "EBADF")
    /\ UNCHANGED <<locks, fid, slot, server, name, dirty, opens, history, calls>>

ReadUncached(t) ==
    /\ Doing(t, {"read"}, "body")
    /\ Goto(t, "push")
    /\ UNCHANGED <<locks, fid, slot, server, name, dirty, opens, history, calls>>

(* What cannot be written is lost: nobody looks at cluster_push's result.  *)
Push(t) ==
    /\ loc[t].st = "push"
    /\ dirty' = (dirty /\ loc[t].o.n # "file")
    /\ Goto(t, CASE loc[t].o.op = "close" -> "clunk" [] loc[t].o.op = "fsync" -> "wstat" [] OTHER -> "pick")
    /\ UNCHANGED <<locks, fid, slot, server, name, opens, history, calls>>

Pick(t, m) ==
    /\ IF slot[loc[t].o.n][m].fid = NOFID
       THEN Goto(t, "EBADF")
       ELSE loc' = [loc EXCEPT ![t].st = "io", ![t].pick = m]
    /\ UNCHANGED <<locks, fid, slot, server, name, dirty, opens, history, calls>>

Nread(t) == Doing(t, {"read"}, "pick") /\ Pick(t, SlotFor(loc[t].o.n, "read"))
Nwrite(t) == Doing(t, {"write"}, "body") /\ Pick(t, SlotFor(loc[t].o.n, "write"))
Readdir(t) == Doing(t, {"readdir"}, "body") /\ Pick(t, "OREAD")

(* nread_9p or nwrite_9p under no lock                                     *)
Strategy(t) ==
    /\ Doing(t, {"pagein", "pageout"}, "body")
    /\ Pick(t, SlotFor(loc[t].o.n, loc[t].o.op))

(* Until then any number of requests have gone out, each on the fid the    *)
(* slot had at that moment.                                                *)
TransferEnds(t) ==
    /\ Doing(t, Transfers, "io")
    /\ dirty' = (dirty /\ loc[t].o.op # "pageout")
    /\ loc' = [loc EXCEPT ![t].st = "unlock", ![t].pick = "no"]
    /\ UNCHANGED <<locks, fid, slot, server, name, opens, history, calls>>

TransferEBADF(t) ==
    /\ loc[t].st = "EBADF"
    /\ Goto(t, "unlock")
    /\ UNCHANGED <<locks, fid, slot, server, name, dirty, opens, history, calls>>

-----------------------------------------------------------------------------
(* Operations that change no fid: one Tstat or Twstat on np->fid, or none, *)
(* and the return whatever was answered.                                   *)

Ends(t) ==
    /\ Goto(t, "unlock")
    /\ UNCHANGED <<locks, fid, slot, server, name, dirty, opens, history, calls>>

Getattr(t) == Doing(t, {"getattr"}, "body") /\ Ends(t)
Setattr(t) == Doing(t, {"setattr"}, "body") /\ Ends(t)
Rename(t) == Doing(t, {"rename"}, "body") /\ Ends(t)

FsyncPush(t) ==
    /\ Doing(t, {"fsync"}, "body")
    /\ Goto(t, "push")
    /\ UNCHANGED <<locks, fid, slot, server, name, dirty, opens, history, calls>>

FsyncWstat(t) == Doing(t, {"fsync"}, "wstat") /\ Ends(t)

-----------------------------------------------------------------------------
(* vnop_remove_9p.  The server drops the fid whether it removes or not.    *)

Removed(t, becomes) ==
    /\ srv' = [srv EXCEPT ![fid["file"]] = Free]
    /\ name' = becomes
    /\ Goto(t, "unlock")
    /\ UNCHANGED <<locks, fid, slot, nfid, dirty, opens, history, calls>>

Remove(t) ==
    /\ Doing(t, {"remove"}, "body") /\ srv[fid["file"]] # Free
    /\ Removed(t, "removed")

RemoveRefused(t) ==
    /\ Doing(t, {"remove"}, "body")
    /\ "remove" \in Faults \/ srv[fid["file"]] = Free
    /\ Removed(t, IF name = "there" THEN "refused" ELSE name)

-----------------------------------------------------------------------------
(* ncreate_9p, for a regular file                                          *)

Creating(t, s) == loc[t].o.op = "create" /\ loc[t].st = s

(* openfid, a clone of the directory's fid                                 *)
CreateClone(t) ==
    /\ Creating(t, "body") /\ srv[fid["dir"]] # Free
    /\ WalkTo("dir", nfid)
    /\ loc' = [loc EXCEPT ![t].st = "create", ![t].open = nfid]
    /\ UNCHANGED <<locks, fid, slot, name, dirty, opens, history, calls>>

CreateCloneFails(t) ==
    /\ Creating(t, "body") /\ ("walk" \in Faults \/ srv[fid["dir"]] = Free)
    /\ Goto(t, "clunkopen")
    /\ UNCHANGED <<locks, fid, slot, server, name, dirty, opens, history, calls>>

CreateFile(t) ==
    /\ Creating(t, "create") /\ name = "absent" /\ srv[loc[t].open] # Free
    /\ name' = "there"
    /\ srv' = [srv EXCEPT ![loc[t].open] = Is("file", "ORDWR")]
    /\ Goto(t, "walk")
    /\ UNCHANGED <<locks, fid, slot, nfid, dirty, opens, history, calls>>

CreateRefused(t) ==
    /\ Creating(t, "create")
    /\ "create" \in Faults \/ name # "absent" \/ srv[loc[t].open] = Free
    /\ Goto(t, "clunkopen")
    /\ UNCHANGED <<locks, fid, slot, server, name, dirty, opens, history, calls>>

CreateWalk(t) ==
    /\ Creating(t, "walk") /\ srv[fid["dir"]] # Free
    /\ WalkTo("file", nfid)
    /\ loc' = [loc EXCEPT ![t].st = "nget", ![t].fid = nfid]
    /\ UNCHANGED <<locks, fid, slot, name, dirty, opens, history, calls>>

CreateWalkFails(t) ==
    /\ Creating(t, "walk") /\ ("walk" \in Faults \/ srv[fid["dir"]] = Free)
    /\ Goto(t, "clunkopen")
    /\ UNCHANGED <<locks, fid, slot, server, name, dirty, opens, history, calls>>

(* nget_9p locks the node it makes.  The reference counted here comes      *)
(* beside that of the open which follows, and no close is for it.          *)
CreateNode(t) ==
    /\ Creating(t, "nget")
    /\ ex["file"] = Null /\ sh["file"] = {}
    /\ fid' = [fid EXCEPT !["file"] = loc[t].fid]
    /\ ex' = [ex EXCEPT !["file"] = t]
    /\ lcktype' = [lcktype EXCEPT !["file"] = "exclusive"]
    /\ slot' = [slot EXCEPT !["file"]["ORDWR"] = [fid |-> loc[t].open, ref |-> @.ref + 1]]
    /\ kept' = kept + 1
    /\ loc' = [loc EXCEPT ![t].st = "unlock", ![t].fid = NOFID, ![t].open = NOFID,
                          ![t].held = <<Lock("file", "exclusive")>> \o @]
    /\ UNCHANGED <<sh, server, name, dirty, opens, lost, stray, calls>>

CreateNodeFails(t) ==
    /\ Creating(t, "nget") /\ "memory" \in Faults
    /\ Goto(t, "clunkopen")
    /\ UNCHANGED <<locks, fid, slot, server, name, dirty, opens, history, calls>>

CreateClunkOpen(t) ==
    /\ Creating(t, "clunkopen")
    /\ DoClunk(loc[t].open)
    /\ loc' = [loc EXCEPT ![t].st = "clunkfid", ![t].open = NOFID]
    /\ UNCHANGED <<locks, fid, slot, nfid, name, dirty, opens, kept, stray, calls>>

CreateClunkFid(t) ==
    /\ Creating(t, "clunkfid")
    /\ DoClunk(loc[t].fid)
    /\ loc' = [loc EXCEPT ![t].st = "unlock", ![t].fid = NOFID]
    /\ UNCHANGED <<locks, fid, slot, nfid, name, dirty, opens, kept, stray, calls>>

-----------------------------------------------------------------------------
Lockings(t) == NlockTake(t) \/ NlockNote(t) \/ Nunlock(t) \/ NunlockDrop(t) \/ Return(t)
Opens(t) ==
    \/ OpenShared(t) \/ OpenWalk(t) \/ OpenWalkFails(t) \/ OpenOpen(t)
    \/ OpenOpenFails(t) \/ OpenError(t)
Closes(t) == CloseDecrement(t) \/ CloseClunk(t) \/ CloseReset(t)
Transferring(t) ==
    \/ ReadCached(t) \/ ReadUncached(t) \/ WriteCached(t) \/ WriteFillFails(t) \/ Push(t)
    \/ Nread(t) \/ Nwrite(t) \/ Readdir(t) \/ Strategy(t) \/ TransferEnds(t) \/ TransferEBADF(t)
Attributes(t) ==
    \/ Getattr(t) \/ Setattr(t) \/ Rename(t)
    \/ FsyncPush(t) \/ FsyncWstat(t)
Creates(t) ==
    \/ CreateClone(t) \/ CreateCloneFails(t) \/ CreateFile(t) \/ CreateRefused(t)
    \/ CreateWalk(t) \/ CreateWalkFails(t) \/ CreateNode(t) \/ CreateNodeFails(t)
    \/ CreateClunkOpen(t) \/ CreateClunkFid(t)
Step(t) ==
    \/ Lockings(t) \/ Opens(t) \/ Closes(t) \/ Transferring(t) \/ Attributes(t)
    \/ Remove(t) \/ RemoveRefused(t) \/ Creates(t)

Next == \E t \in Threads : Begin(t) \/ Step(t)

(* A thread inside the file system runs on: each rpc ends (KextRpc), and a *)
(* lock that is free goes to somebody who waits for it.                    *)
Fairness == \A t \in Threads : WF_vars(Step(t))

Spec == Init /\ [][Next]_vars /\ Fairness

-----------------------------------------------------------------------------
(* Types; and lcktype says "exclusive" only under an exclusive lock, or    *)
(* the next nunlock_9p would release what nobody has.                      *)
TypeOK ==
    /\ sh \in [Node -> SUBSET Threads] /\ ex \in [Node -> Threads \cup {Null}]
    /\ lcktype \in [Node -> {"none", "shared", "exclusive"}]
    /\ \A n \in Node : (ex[n] # Null => sh[n] = {}) /\ (lcktype[n] = "exclusive" => ex[n] # Null)
    /\ fid \in [Node -> Fids \cup {NOFID}] /\ nfid \in Nat
    /\ slot \in [Node -> [Mode -> [fid : Fids \cup {NOFID}, ref : Nat]]]
    /\ srv \in [Fids -> [n : Node \cup {"none"}, m : Mode \cup {"no"}]]
    /\ name \in {"absent", "there", "refused", "removed"} /\ dirty \in BOOLEAN
    /\ \A t \in Threads : loc[t].fid \in Fids \cup {NOFID} /\ loc[t].open \in Fids \cup {NOFID}
    /\ opens \in [Node -> [Mode -> Nat]] /\ kept \in Nat /\ lost \subseteq Fids /\ calls \in 0 .. MaxCalls

(* A thread that unlocks a node finds in lcktype the mode it locked it in, *)
(* though others that share the node write and unlock by the same field.   *)
UnlockRight ==
    \A t \in Threads : loc[t].st = "unlock" /\ loc[t].held # <<>> =>
       LET l == Head(loc[t].held) IN
       /\ lcktype[l.n] = l.type
       /\ IF l.type = "shared" THEN t \in sh[l.n] ELSE ex[l.n] = t

(* A slot counts the opens that have not been closed, and the one ncreate  *)
(* took, and has a fid exactly while it counts any; the fid is one the     *)
(* server has opened in the slot's mode.  vnop_close_9p's last steps, and  *)
(* what a stray clunk hits, are excepted.                                  *)
SlotsExact ==
    \A n \in Node, m \in Mode :
       LET closing(states) == {t \in Threads : Doing(t, {"close"}, loc[t].st) /\ loc[t].o.n = n
                                                 /\ loc[t].o.m = m /\ loc[t].st \in states}
           s == slot[n][m] IN
       /\ s.ref = opens[n][m] + Cardinality(closing({"lock", "note", "body"}))
                    + (IF n = "file" /\ m = "ORDWR" THEN kept ELSE 0)
       /\ closing({"push", "clunk", "reset"}) = {} =>
             \/ s.fid = NOFID /\ s.ref = 0
             \/ /\ s.fid # NOFID
                /\ s.ref > 0
                /\ srv[s.fid] = Is(n, m) \/ stray

(* Who has a file open reads and writes it on a fid the server has open    *)
(* for that, however often other slots of the file open and close at the   *)
(* same time, and finds one for the pages the cache still has; and a node  *)
(* keeps a fid of its own that is never opened.  Excepted: pages moved     *)
(* with no lock, a write whose page nobody may read, a refused remove,     *)
(* which costs the node its fid, and a stray clunk.                        *)
Serves(n, op, m) ==
    /\ slot[n][m].fid # NOFID
    /\ srv[slot[n][m].fid] \in {Is(n, IF op \in Reads THEN "OREAD" ELSE "OWRITE"), Is(n, "ORDWR")}

FidUsable ==
    stray \/
    /\ \A t \in Threads :
          LET l == loc[t] IN
          /\ Doing(t, {"read", "write", "readdir"}, "io") => Serves(l.o.n, l.o.op, l.pick)
          /\ l.st = "EBADF" =>
                \/ l.o.op \in {"pagein", "pageout"}
                \/ l.o.op = "write" /\ slot["file"]["OREAD"].fid = NOFID /\ slot["file"]["ORDWR"].fid = NOFID
    /\ dirty => Serves("file", "write", SlotFor("file", "write"))
    /\ \A n \in Node : fid[n] # NOFID /\ (n = "file" => name = "there") => srv[fid[n]] = Is(n, "no")

(* Every fid the server has is a node's, a slot's or some thread's, or one *)
(* whose clunk failed; and but for stray clunks it has one owner only.     *)
Owners(f) ==
    {<<"node", n>> : n \in {k \in Node : fid[k] = f}}
    \cup {<<"slot", p>> : p \in {k \in Node \X Mode : slot[k[1]][k[2]].fid = f}}
    \cup {<<"thread", t>> : t \in {k \in Threads : f \in {loc[k].fid, loc[k].open}}}

FidsAccounted ==
    \A f \in Fids : srv[f] # Free => Cardinality(Owners(f)) = 1 \/ f \in lost \/ (stray /\ Owners(f) # {})

(* Every vnode operation returns: no two of them wait for each other.      *)
EveryCallEnds == \A t \in Threads : loc[t].st # "idle" ~> loc[t].st = "idle"
=============================================================================
