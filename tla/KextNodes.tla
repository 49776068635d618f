----------------------------- MODULE KextNodes -----------------------------
(***************************************************************************)
(* The node table of the kernel extension: nget_9p finds or makes the node *)
(* of a qid, vnop_lookup_9p and vfs_vget_9p call it, vnop_reclaim_9p takes *)
(* a node away when the kernel gives its vnode back.                       *)
(*                                                                         *)
(* A node is a block of memory that is freed and allocated again.  A vnode *)
(* belongs to the kernel and is never freed; its vid changes whenever it   *)
(* is reclaimed, so vnode_getwithvid can tell an old use from a new one.   *)
(* Directories stay open throughout: only their locks are modelled.        *)
(***************************************************************************)
EXTENDS Integers, FiniteSets

CONSTANTS
    Threads,     \* threads in vnop_lookup_9p or vfs_vget_9p
    Dirs,        \* directories a lookup may start from
    Files,       \* qid paths; one may be linked in several directories
    Nodes,       \* memory blocks for struct node_9p
    Vnodes,      \* vnodes of the kernel
    Null,
    MaxFid,      \* bound: fids handed out by OSIncrementAtomic(&nmp->nfid)
    MaxVgets,    \* bound: calls of vfs_vget_9p
    MaxUnmounts, \* bound: attempts to unmount
    Faults       \* a subset of AllFaults

(* "walk" the server has no such name   "memory" malloc_9p fails           *)
(* "stat" the Tstat of ngetdir_9p fails "vnode"  vnode_create fails        *)
AllFaults == {"walk", "memory", "stat", "vnode"}

ASSUME NodesAssumption ==
    /\ IsFiniteSet(Threads)
    /\ Null \notin Threads \cup Dirs \cup Files \cup Nodes \cup Vnodes
    /\ Threads \cap Vnodes = {}
    /\ MaxFid \in Nat /\ MaxVgets \in Nat /\ MaxUnmounts \in Nat
    /\ Faults \subseteq AllFaults

NOFID == 0
Fids == 1 .. MaxFid
NodeFlags == {"INIT", "WAITINIT", "RECL", "WAITRECL"}

VARIABLES
    allocated,  \* the blocks that are nodes now
    list,       \* the nodes on nmp->node, the hash chains
    node,       \* contents of each block, those of a freed one included
    nodelck,    \* holder of nmp->nodelck
    dirlck,     \* holder of each directory's np->lck
    vnode,      \* the kernel's vnodes
    nfid,       \* fids handed out so far
    bound,      \* what each fid stands for at the server
    at,         \* where each thread is
    act,        \* its arguments and local variables
    vgets,      \* calls of vget so far
    unmounting, \* F_UNMOUNTING
    unmounts,   \* attempts so far
    unclunked,  \* fids of nodes reclaimed under F_UNMOUNTING
    extra,      \* iocounts vget has taken and nobody gives back
    broken      \* a freed node was used in a way C leaves undefined

kernelVars == <<vnode, extra>>
serverVars == <<nfid, bound>>
unmountVars == <<unmounting, unmounts, unclunked>>
nodeVars == <<allocated, list, node>>
lockVars == <<nodelck, dirlck>>
restVars == <<vgets, unmountVars, broken>>
vars == <<nodeVars, lockVars, kernelVars, serverVars, at, act, restVars>>

NewNode == [file |-> Null, fid |-> NOFID, flags |-> {}, vp |-> Null, lck |-> Null]
Act(f, d, v) == [file |-> f, dir |-> d, fid |-> NOFID, np |-> Null, vp |-> v,
                 vid |-> 0, stale |-> FALSE]
NoAct == Act(Null, Null, Null)

Init ==
    /\ allocated = {} /\ list = {}
    /\ node = [b \in Nodes |-> NewNode]
    /\ nodelck = Null
    /\ dirlck = [d \in Dirs |-> Null]
    /\ vnode = [v \in Vnodes |-> [is |-> "free", np |-> Null, iocount |-> 0, vid |-> 0]]
    /\ nfid = 0
    /\ bound = [f \in Fids |-> Null]
    /\ at = [t \in Threads |-> "idle"]
    /\ act = [t \in Threads |-> NoAct]
    /\ vgets = 0
    /\ unmounting = FALSE /\ unmounts = 0 /\ unclunked = {}
    /\ extra = [v \in Vnodes |-> 0]
    /\ broken = FALSE

Goto(t, place) == at' = [at EXCEPT ![t] = place]

(* Mutant: nobody is woken.                                                *)
WakeNobody(b, t, place) == at' = [s \in Threads |-> IF s = t THEN place ELSE at[s]]

(* wakeup(np): the threads asleep on that address go back to loop.         *)
WakeupAnd(b, t, place) ==
    at' = [s \in Threads |-> IF s = t THEN place
                             ELSE IF at[s] = "asleep" /\ act[s].np = b THEN "search"
                             ELSE at[s]]

WakeIf(flag, b, t, place) ==
    IF flag \in node[b].flags
    THEN WakeupAnd(b, t, place)
    ELSE at' = [s \in Threads |-> IF s = t THEN place ELSE at[s]]

(* free_9p(np); whoever still has np to read from is noted.                *)
Free(b) ==
    /\ allocated' = allocated \ {b}
    /\ act' = [s \in Threads |->
                  [act[s] EXCEPT !.stale = @ \/ (at[s] = "reload" /\ act[s].np = b)]]

-----------------------------------------------------------------------------
(* vnop_lookup_9p and vfs_vget_9p up to nget_9p                            *)

Walking == {t \in Threads : at[t] = "walk"}

(* nlock_9p(dnp) of a name that is not in the name cache.                  *)
BeginLookup(t, d, f) ==
    /\ at[t] = "idle" /\ nfid + Cardinality(Walking) < MaxFid
    /\ dirlck[d] = Null
    /\ dirlck' = [dirlck EXCEPT ![d] = t]
    /\ act' = [act EXCEPT ![t] = Act(f, d, Null)]
    /\ Goto(t, "walk")
    /\ UNCHANGED <<nodeVars, nodelck, kernelVars, serverVars, restVars>>

(* cache_lookup finds the vnode.                                           *)
LookupCached(t, v) ==
    /\ at[t] = "idle"
    /\ vnode[v].is = "live"
    /\ vnode' = [vnode EXCEPT ![v].iocount = @ + 1]
    /\ act' = [act EXCEPT ![t] = Act(node[vnode[v].np].file, Null, v)]
    /\ Goto(t, "hold")
    /\ UNCHANGED <<nodeVars, lockVars, extra, serverVars, restVars>>

(* vfs_vget_9p passes NOFID: a node is found or the call fails.            *)
BeginVget(t, f) ==
    /\ at[t] = "idle" /\ vgets < MaxVgets
    /\ vgets' = vgets + 1
    /\ act' = [act EXCEPT ![t] = Act(f, Null, Null)]
    /\ Goto(t, "search")
    /\ UNCHANGED <<nodeVars, lockVars, kernelVars, serverVars, unmountVars, broken>>

Walk(t) ==
    /\ at[t] = "walk"
    /\ nfid' = nfid + 1
    /\ bound' = [bound EXCEPT ![nfid'] = act[t].file]
    /\ act' = [act EXCEPT ![t].fid = nfid']
    /\ Goto(t, "search")
    /\ UNCHANGED <<nodeVars, lockVars, kernelVars, restVars>>

WalkFails(t) ==
    /\ "walk" \in Faults
    /\ at[t] = "walk"
    /\ nfid' = nfid + 1
    /\ dirlck' = [dirlck EXCEPT ![act[t].dir] = Null]
    /\ act' = [act EXCEPT ![t] = NoAct]
    /\ Goto(t, "idle")
    /\ UNCHANGED <<nodeVars, nodelck, kernelVars, bound, restVars>>

-----------------------------------------------------------------------------
(* nget_9p.  What it does under nodelck is one step, nothing sleeps in it. *)

(* Mutant: a node still being made is passed over.                        *)
FoundReady(f) == {b \in list : node[b].file = f /\ "INIT" \notin node[b].flags}

Found(f) == {b \in list : node[b].file = f}

Searches(t) == at[t] = "search" /\ nodelck = Null

(* msleep with PDROP: nodelck is not held when it returns.                 *)
SleepOnNode(t, b, flag, wait) ==
    /\ Searches(t)
    /\ b \in Found(act[t].file) /\ flag \in node[b].flags
    /\ node' = [node EXCEPT ![b].flags = @ \cup {wait}]
    /\ act' = [act EXCEPT ![t].np = b]
    /\ Goto(t, "asleep")
    /\ UNCHANGED <<allocated, list, lockVars, kernelVars, serverVars, restVars>>

SleepOnInit(t, b) == SleepOnNode(t, b, "INIT", "WAITINIT")

(* Mutant: NODE_WAITRECL is not set.                                       *)
SleepOnReclUnasked(t, b) ==
    /\ "INIT" \notin node[b].flags
    /\ SleepOnNode(t, b, "RECL", "RECL")

SleepOnRecl(t, b) ==
    /\ "INIT" \notin node[b].flags
    /\ SleepOnNode(t, b, "RECL", "WAITRECL")

ReadVid(t, b) ==
    /\ Searches(t)
    /\ b \in Found(act[t].file) /\ node[b].flags \cap {"INIT", "RECL"} = {}
    /\ act' = [act EXCEPT ![t] = [@ EXCEPT !.np = b, !.vid = vnode[node[b].vp].vid]]
    /\ Goto(t, "reload")
    /\ UNCHANGED <<nodeVars, lockVars, kernelVars, serverVars, restVars>>

(* vnode_getwithvid(np->vp, vid) loads np->vp again, without nodelck.  A   *)
(* block that was freed and allocated again may hold no vnode yet.         *)
ReloadVp(t) ==
    /\ at[t] = "reload"
    /\ IF node[act[t].np].vp = Null
       THEN broken' = TRUE /\ UNCHANGED <<at, act>>
       ELSE /\ act' = [act EXCEPT ![t].vp = node[act[t].np].vp]
            /\ Goto(t, "getvnode")
            /\ UNCHANGED broken
    /\ UNCHANGED <<nodeVars, lockVars, kernelVars, serverVars, vgets, unmountVars>>

(* Mutant: vnode_get in place of vnode_getwithvid.                         *)
AnyVid(t) == vnode[act[t].vp].is = "live"

VidCurrent(t) == vnode[act[t].vp].is = "live" /\ vnode[act[t].vp].vid = act[t].vid

(* The kernel waits while a vnode is being reclaimed, then compares vids.  *)
GetVnode(t) ==
    /\ at[t] = "getvnode"
    /\ VidCurrent(t)
    /\ vnode' = [vnode EXCEPT ![act[t].vp].iocount = @ + 1]
    /\ broken' = act[t].stale
    /\ Goto(t, "nlock")
    /\ UNCHANGED <<nodeVars, lockVars, extra, serverVars, act, vgets, unmountVars>>

GetVnodeFails(t) ==
    /\ at[t] = "getvnode"
    /\ vnode[act[t].vp].is \in {"free", "live"} /\ ~VidCurrent(t)
    /\ act' = [act EXCEPT ![t] = [@ EXCEPT !.np = Null, !.vp = Null, !.vid = 0, !.stale = FALSE]]
    /\ Goto(t, "search")
    /\ UNCHANGED <<nodeVars, lockVars, kernelVars, serverVars, restVars>>

NlockFound(t) ==
    /\ at[t] = "nlock"
    /\ node[act[t].np].lck = Null
    /\ node' = [node EXCEPT ![act[t].np].lck = t]
    /\ Goto(t, "got")
    /\ UNCHANGED <<allocated, list, lockVars, kernelVars, serverVars, act, restVars>>

Absent(t) == Searches(t) /\ Found(act[t].file) = {}

(* `return EFAULT' leaves nodelck locked.                                  *)
VgetAbsent(t) ==
    /\ Absent(t) /\ act[t].fid = NOFID
    /\ nodelck' = t
    /\ Goto(t, "efault")
    /\ UNCHANGED <<nodeVars, dirlck, kernelVars, serverVars, act, restVars>>

NoMemory(t) ==
    /\ "memory" \in Faults
    /\ Absent(t) /\ act[t].fid # NOFID
    /\ Goto(t, "failed")
    /\ UNCHANGED <<nodeVars, lockVars, kernelVars, serverVars, act, restVars>>

InsertNode(t, b) ==
    /\ Absent(t) /\ act[t].fid # NOFID
    /\ b \notin allocated
    /\ allocated' = allocated \cup {b}
    /\ node' = [node EXCEPT ![b] = [file |-> act[t].file, fid |-> act[t].fid,
                                    flags |-> {"INIT"}, vp |-> Null, lck |-> t]]
    /\ list' = list \cup {b}
    /\ act' = [act EXCEPT ![t].np = b]
    /\ Goto(t, "stat")
    /\ UNCHANGED <<lockVars, kernelVars, serverVars, restVars>>

Ngetdir(t) ==
    /\ at[t] = "stat"
    /\ \/ Goto(t, "create")
       \/ "stat" \in Faults /\ Goto(t, "err1")
    /\ UNCHANGED <<nodeVars, lockVars, kernelVars, serverVars, act, restVars>>

(* Mutant: nget_9p takes an iocount besides the one vnode_create gives.    *)
CreateVnodeTwice(t, v) ==
    /\ at[t] = "create"
    /\ vnode[v].is = "free"
    /\ vnode' = [vnode EXCEPT ![v] = [is |-> "live", np |-> act[t].np, iocount |-> 2, vid |-> @.vid]]
    /\ node' = [node EXCEPT ![act[t].np].vp = v]
    /\ act' = [act EXCEPT ![t].vp = v]
    /\ Goto(t, "ready")
    /\ UNCHANGED <<allocated, list, lockVars, extra, serverVars, restVars>>

CreateVnode(t, v) ==
    /\ at[t] = "create"
    /\ vnode[v].is = "free"
    /\ vnode' = [vnode EXCEPT ![v] = [is |-> "live", np |-> act[t].np, iocount |-> 1, vid |-> @.vid]]
    /\ node' = [node EXCEPT ![act[t].np].vp = v]
    /\ act' = [act EXCEPT ![t].vp = v]
    /\ Goto(t, "ready")
    /\ UNCHANGED <<allocated, list, lockVars, extra, serverVars, restVars>>

CreateVnodeFails(t) ==
    /\ "vnode" \in Faults
    /\ at[t] = "create"
    /\ Goto(t, "err1")
    /\ UNCHANGED <<nodeVars, lockVars, kernelVars, serverVars, act, restVars>>

(* err1: the node leaves the list, its waiters look again, it is freed.    *)
Err1(t) ==
    LET b == act[t].np IN
    /\ at[t] = "err1" /\ nodelck = Null
    /\ list' = list \ {b}
    /\ node' = [node EXCEPT ![b].flags = {}, ![b].lck = Null]
    /\ WakeIf("WAITINIT", b, t, "failed")
    /\ Free(b)
    /\ UNCHANGED <<lockVars, kernelVars, serverVars, restVars>>

NodeReady(t) ==
    LET b == act[t].np IN
    /\ at[t] = "ready" /\ nodelck = Null
    /\ node' = [node EXCEPT ![b].flags = @ \ {"INIT", "WAITINIT"}]
    /\ WakeIf("WAITINIT", b, t, "got")
    /\ UNCHANGED <<allocated, list, lockVars, kernelVars, serverVars, act, restVars>>

-----------------------------------------------------------------------------
(* After nget_9p                                                           *)

Clunk(f) == bound' = [bound EXCEPT ![f] = Null]

LookupFailed(t) ==
    /\ at[t] = "failed"
    /\ Clunk(act[t].fid)
    /\ dirlck' = [dirlck EXCEPT ![act[t].dir] = Null]
    /\ act' = [act EXCEPT ![t] = NoAct]
    /\ Goto(t, "idle")
    /\ UNCHANGED <<nodeVars, nodelck, kernelVars, nfid, restVars>>

(* The nunlocks; the caller gets the vnode with one iocount.               *)
ReturnNode(t) ==
    /\ node' = [node EXCEPT ![act[t].np].lck = Null]
    /\ dirlck' = [d \in Dirs |-> IF d = act[t].dir THEN Null ELSE dirlck[d]]
    /\ act' = [act EXCEPT ![t] = Act(act[t].file, Null, node[act[t].np].vp)]
    /\ Goto(t, "hold")
    /\ UNCHANGED <<allocated, list, nodelck, nfid, restVars>>

(* Mutant: the walk's fid is never clunked.                                *)
LookupGotNoClunk(t) ==
    /\ at[t] = "got" /\ act[t].dir # Null
    /\ ReturnNode(t)
    /\ UNCHANGED <<kernelVars, bound>>

(* Mutant: the walk's fid is clunked also when the new node keeps it.      *)
LookupGotClunk(t) ==
    /\ at[t] = "got" /\ act[t].dir # Null
    /\ Clunk(act[t].fid)
    /\ ReturnNode(t)
    /\ UNCHANGED kernelVars

(* The walk's fid is clunked when the node has another.                    *)
LookupGot(t) ==
    /\ at[t] = "got" /\ act[t].dir # Null
    /\ IF node[act[t].np].fid # act[t].fid THEN Clunk(act[t].fid) ELSE UNCHANGED bound
    /\ ReturnNode(t)
    /\ UNCHANGED kernelVars

(* vnode_get takes a second iocount; the caller will put one.              *)
VgetGot(t) ==
    /\ at[t] = "got" /\ act[t].dir = Null
    /\ vnode' = [vnode EXCEPT ![act[t].vp].iocount = @ + 1]
    /\ extra' = [extra EXCEPT ![act[t].vp] = @ + 1]
    /\ ReturnNode(t)
    /\ UNCHANGED bound

(* The caller's vnode_put.                                                 *)
PutVnode(t) ==
    /\ at[t] = "hold"
    /\ vnode' = [vnode EXCEPT ![act[t].vp].iocount = @ - 1]
    /\ act' = [act EXCEPT ![t] = NoAct]
    /\ Goto(t, "idle")
    /\ UNCHANGED <<nodeVars, lockVars, extra, serverVars, restVars>>

-----------------------------------------------------------------------------
(* vnop_reclaim_9p, on behalf of a vnode nobody uses                       *)

VnodeGoes(v, from, to) ==
    vnode[v].is = from /\ vnode' = [vnode EXCEPT ![v].is = to]

(* The kernel picks an idle vnode.                                         *)
Terminate(v) ==
    /\ vnode[v].iocount = 0
    /\ VnodeGoes(v, "live", "terminating")
    /\ UNCHANGED <<nodeVars, lockVars, extra, serverVars, at, act, restVars>>

(* nlock_9p and SET(np->flags, NODE_RECL), without nodelck.                *)
ReclaimLock(v) ==
    LET b == vnode[v].np IN
    /\ VnodeGoes(v, "terminating", "locked")
    /\ node[b].lck = Null
    /\ node' = [node EXCEPT ![b].lck = v, ![b].flags = @ \cup {"RECL"}]
    /\ UNCHANGED <<allocated, list, lockVars, extra, serverVars, at, act, restVars>>

(* Mutant: without ndel_9p.                                                *)
ReclaimKeepsNode(v) ==
    /\ nodelck = Null
    /\ VnodeGoes(v, "locked", "removed")
    /\ node' = [node EXCEPT ![vnode[v].np].lck = Null]
    /\ UNCHANGED <<allocated, list, lockVars, extra, serverVars, at, act, restVars>>

(* ndel_9p, vnode_clearfsnode, cache_purge, nunlock_9p.                    *)
ReclaimDel(v) ==
    LET b == vnode[v].np IN
    /\ nodelck = Null
    /\ VnodeGoes(v, "locked", "removed")
    /\ list' = list \ {b}
    /\ node' = [node EXCEPT ![b].lck = Null]
    /\ UNCHANGED <<allocated, lockVars, extra, serverVars, at, act, restVars>>

ReclaimClunk(v) ==
    LET f == node[vnode[v].np].fid IN
    /\ VnodeGoes(v, "removed", "clunked")
    /\ IF unmounting
       THEN unclunked' = unclunked \cup {f} /\ UNCHANGED bound
       ELSE Clunk(f) /\ UNCHANGED unclunked
    /\ UNCHANGED <<nodeVars, lockVars, extra, nfid, at, act, vgets,
                   unmounting, unmounts, broken>>

(* CLR(NODE_RECL), the wakeup and the frees; the kernel gives it a new vid.*)
ReclaimFree(v) ==
    LET b == vnode[v].np IN
    /\ vnode[v].is = "clunked"
    /\ vnode' = [vnode EXCEPT ![v] = [is |-> "free", np |-> Null, iocount |-> 0,
                                      vid |-> @.vid + 1]]
    /\ node' = [node EXCEPT ![b].flags = @ \ {"RECL", "WAITRECL"}]
    /\ WakeIf("WAITRECL", b, Null, "idle")
    /\ Free(b)
    /\ UNCHANGED <<list, lockVars, extra, serverVars, restVars>>

(* vfs_unmount_9p while a directory is open: vflush reclaims what it can   *)
(* (the actions above) and answers EBUSY.                                  *)
BeginUnmount ==
    /\ ~unmounting /\ unmounts < MaxUnmounts
    /\ unmounting' = TRUE /\ unmounts' = unmounts + 1
    /\ UNCHANGED <<nodeVars, lockVars, kernelVars, serverVars, at, act, vgets,
                   unclunked, broken>>

UnmountBusy ==
    /\ unmounting
    /\ unmounting' = FALSE
    /\ UNCHANGED <<nodeVars, lockVars, kernelVars, serverVars, at, act, vgets,
                   unmounts, unclunked, broken>>

-----------------------------------------------------------------------------
Begin(t) ==
    \/ \E d \in Dirs, f \in Files : BeginLookup(t, d, f)
    \/ \E v \in Vnodes : LookupCached(t, v)
    \/ \E f \in Files : BeginVget(t, f)

Nget(t) ==
    \/ \E b \in Nodes : SleepOnInit(t, b) \/ SleepOnRecl(t, b) \/ ReadVid(t, b) \/ InsertNode(t, b)
    \/ ReloadVp(t) \/ GetVnode(t) \/ GetVnodeFails(t) \/ NlockFound(t)
    \/ VgetAbsent(t) \/ NoMemory(t) \/ Ngetdir(t)
    \/ \E v \in Vnodes : CreateVnode(t, v)
    \/ CreateVnodeFails(t) \/ Err1(t) \/ NodeReady(t)

Thread(t) ==
    Walk(t) \/ WalkFails(t) \/ Nget(t) \/ LookupFailed(t) \/ LookupGot(t) \/ VgetGot(t) \/ PutVnode(t)

Reclaim(v) ==
    ReclaimLock(v) \/ ReclaimDel(v) \/ ReclaimClunk(v) \/ ReclaimFree(v)

Next ==
    /\ ~broken
    /\ \/ \E t \in Threads : Begin(t) \/ Thread(t)
       \/ \E v \in Vnodes : Terminate(v) \/ Reclaim(v)
       \/ BeginUnmount \/ UnmountBusy

Spec == Init /\ [][Next]_vars

(* A thread that can go on does, and so does a reclaim the kernel began.   *)
FairSpec ==
    /\ Spec
    /\ \A t \in Threads : WF_vars(~broken /\ Thread(t))
    /\ \A v \in Vnodes : WF_vars(~broken /\ Reclaim(v))
-----------------------------------------------------------------------------
(* Properties                                                              *)

Places == {"idle", "walk", "search", "asleep", "reload", "getvnode", "nlock", "stat",
           "create", "ready", "err1", "failed", "got", "hold", "efault"}

VnodeStates == {"free", "live", "terminating", "locked", "removed", "clunked"}

NodeType == [file : Files \cup {Null}, fid : Nat, flags : SUBSET NodeFlags,
             vp : Vnodes \cup {Null}, lck : Threads \cup Vnodes \cup {Null}]
VnodeType == [is : VnodeStates, np : Nodes \cup {Null}, iocount : Int, vid : Nat]
ActType == [file : Files \cup {Null}, dir : Dirs \cup {Null}, fid : Nat,
            np : Nodes \cup {Null}, vp : Vnodes \cup {Null}, vid : Nat, stale : BOOLEAN]

TypeOK ==
    /\ allocated \subseteq Nodes /\ list \subseteq allocated
    /\ node \in [Nodes -> NodeType]
    /\ nodelck \in Threads \cup {Null}
    /\ dirlck \in [Dirs -> Threads \cup {Null}]
    /\ vnode \in [Vnodes -> VnodeType]
    /\ nfid \in Nat
    /\ bound \in [Fids -> Files \cup {Null}]
    /\ at \in [Threads -> Places]
    /\ act \in [Threads -> ActType]
    /\ vgets \in 0 .. MaxVgets
    /\ unmounting \in BOOLEAN /\ unmounts \in 0 .. MaxUnmounts
    /\ unclunked \subseteq Nat
    /\ extra \in [Vnodes -> Nat]
    /\ broken \in BOOLEAN

(* A file has at most one node on the hash chains (nget_9p searches and    *)
(* inserts in one hold of nodelck), so two lookups share one node lock.    *)
OneNode ==
    \A b, c \in list : node[b].file = node[c].file => b = c

NodeHeld(t) ==
    /\ at[t] \in {"nlock", "got"} =>
          /\ act[t].np \in list
          /\ node[act[t].np].file = act[t].file
          /\ node[act[t].np].vp = act[t].vp
    /\ at[t] \in {"nlock", "got", "ready", "hold"} =>
          /\ vnode[act[t].vp].is = "live"
          /\ node[vnode[act[t].vp].np].file = act[t].file

(* A node a thread has taken an iocount for is the one it searched for, is *)
(* still allocated and keeps its vnode, unless np->vp was read from a node *)
(* that had been freed (vnops.c:128).                                      *)
HeldNodeLive ==
    ~broken => \A t \in Threads : NodeHeld(t)

Making == {"stat", "create", "ready", "err1"}

(* Whoever sleeps in nget_9p is seen: its node is still there with the bit *)
(* it waits for and the bit that asks for a wakeup, and somebody is about  *)
(* to clear them (the msleep/wakeup table of 9p.h).                        *)
SleeperSeen ==
    \A t \in Threads : at[t] = "asleep" =>
        LET b == act[t].np IN
        /\ b \in allocated
        /\ \/ /\ {"INIT", "WAITINIT"} \subseteq node[b].flags
              /\ \E s \in Threads : at[s] \in Making /\ act[s].np = b
           \/ /\ {"RECL", "WAITRECL"} \subseteq node[b].flags
              /\ \E v \in Vnodes : /\ vnode[v].is \in {"locked", "removed", "clunked"}
                                   /\ vnode[v].np = b

(* The fid of a node on the chains stands for the node's file at the       *)
(* server, so no operation on a node is answered for another file.         *)
NodeFidBound ==
    \A b \in list : bound[node[b].fid] = node[b].file

OfNode(f) ==
    \E b \in allocated : node[b].fid = f
OfLookup(f) ==
    \E t \in Threads : act[t].fid = f

(* Every fid the server keeps is a node's, a lookup's in progress, or was  *)
(* left by a reclaim under F_UNMOUNTING: no lookup and no reclaim loses it.*)
FidsAccounted ==
    \A f \in Fids : bound[f] # Null => OfNode(f) \/ OfLookup(f) \/ f \in unclunked

(* "root gets clunk in vfs_unmount_9p()" (vnops.c:1165) is why a reclaim   *)
(* under F_UNMOUNTING clunks nothing: on a mount that goes on being used   *)
(* no fid but the root's would be left to it.                              *)
NoFidStranded ==
    ~unmounting => \A f \in Fids : bound[f] # Null => OfNode(f) \/ OfLookup(f)

Users(v) ==
    {t \in Threads : at[t] \in {"nlock", "got", "ready", "hold"} /\ act[t].vp = v}

(* The iocounts of a vnode are those of the threads that use it and the    *)
(* ones vget took twice; a vnode being reclaimed has none.                 *)
IocountExact ==
    ~broken => \A v \in Vnodes : vnode[v].iocount = Cardinality(Users(v)) + extra[v]

Stuck == broken \/ nodelck # Null

(* Every lookup, vget and reclaim ends, unless vget has kept nodelck.      *)
EveryCallEnds ==
    /\ \A t \in Threads : at[t] # "idle" ~> at[t] = "idle" \/ Stuck
    /\ \A v \in Vnodes : vnode[v].is = "terminating" ~> vnode[v].is = "free" \/ Stuck
=============================================================================
