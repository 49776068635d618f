-------------------------- MODULE KextNodes_proofs --------------------------
(***************************************************************************)
(* Theorems about the node table for any number of threads, files, blocks  *)
(* and vnodes and any set of faults.                                       *)
(***************************************************************************)
EXTENDS KextNodes, FiniteSetTheorems, TLAPS

USE NodesAssumption

(* The inductive invariant: what the holder of each node, each vnode and   *)
(* each thread may rely on as long as no freed node has been misread.      *)

(* A node off INIT has a vnode that knows it; one in INIT has a maker.     *)
Listed(b) ==
    /\ "INIT" \notin node[b].flags =>
          /\ node[b].vp \in Vnodes
          /\ vnode[node[b].vp].np = b
          /\ vnode[node[b].vp].is \in {"live", "terminating", "locked"}
          /\ "RECL" \in node[b].flags => vnode[node[b].vp].is = "locked"
    /\ "INIT" \in node[b].flags =>
          node[b].lck \in Threads /\ at[node[b].lck] \in Making /\ act[node[b].lck].np = b

ListInv == \A b \in list : Listed(b)

(* The thread that makes a node holds its lock until it is ready.          *)
MakingOK(t) ==
    at[t] \in Making =>
    LET b == act[t].np IN
    /\ b \in list /\ "INIT" \in node[b].flags /\ "RECL" \notin node[b].flags
    /\ node[b].lck = t
    /\ node[b].file = act[t].file
    /\ IF at[t] = "ready"
       THEN node[b].vp = act[t].vp /\ act[t].vp \in Vnodes /\ vnode[act[t].vp].np = b
       ELSE node[b].vp = Null

MakingInv == \A t \in Threads : MakingOK(t)

(* A vnode and its node point to each other until the node is freed.       *)
Paired(v) ==
    /\ vnode[v].is # "live" => vnode[v].iocount = 0
    /\ vnode[v].is # "free" =>
          /\ vnode[v].np \in allocated
          /\ node[vnode[v].np].vp = v
    /\ vnode[v].is \in {"live", "terminating", "locked"} => vnode[v].np \in list
    /\ vnode[v].is \in {"removed", "clunked"} => vnode[v].np \notin list
    /\ vnode[v].is \in {"locked", "removed", "clunked"} =>
          "RECL" \in node[vnode[v].np].flags /\ "INIT" \notin node[vnode[v].np].flags
    /\ vnode[v].is = "locked" => node[vnode[v].np].lck = v

VnodeInv == \A v \in Vnodes : Paired(v)

(* What a thread has read before it has an iocount is old or still true.   *)
ReadOK(t) ==
    /\ at[t] \in {"asleep", "reload", "getvnode"} => act[t].np \in Nodes
    /\ at[t] = "getvnode" => act[t].vp \in Vnodes
    /\ at[t] = "reload" /\ ~act[t].stale =>
          LET v == node[act[t].np].vp IN
          /\ v \in Vnodes /\ vnode[v].is # "free"
          /\ vnode[v].np = act[t].np /\ vnode[v].vid = act[t].vid
          /\ node[act[t].np].file = act[t].file
    /\ at[t] = "getvnode" /\ ~act[t].stale =>
          LET v == act[t].vp IN
          /\ act[t].vid <= vnode[v].vid
          /\ vnode[v].vid = act[t].vid =>
                /\ vnode[v].is # "free" /\ vnode[v].np = act[t].np
                /\ node[act[t].np].file = act[t].file

ReadInv == \A t \in Threads : ReadOK(t)

UserOK(t) ==
    /\ at[t] \in {"nlock", "got", "ready", "hold"} =>
          act[t].vp \in Vnodes /\ act[t].np \in Nodes \cup {Null}
    /\ at[t] = "got" => node[act[t].np].lck = t

UserInv == \A t \in Threads : UserOK(t)

(* The bits a sleeper has left are still on its node.                      *)
AsleepOK(t) ==
    at[t] = "asleep" =>
    LET b == act[t].np IN
    /\ b \in allocated
    /\ \/ b \in list /\ {"INIT", "WAITINIT"} \subseteq node[b].flags
       \/ /\ {"RECL", "WAITRECL"} \subseteq node[b].flags
          /\ "INIT" \notin node[b].flags
          /\ node[b].vp \in Vnodes /\ vnode[node[b].vp].np = b
          /\ vnode[node[b].vp].is \in {"locked", "removed", "clunked"}

AsleepInv == \A t \in Threads : AsleepOK(t)

Core ==
    /\ ListInv /\ MakingInv /\ VnodeInv /\ ReadInv /\ UserInv
    /\ AsleepInv /\ OneNode /\ HeldNodeLive /\ IocountExact

IInv == TypeOK /\ OneNode /\ SleeperSeen /\ (~broken => Core)

USE DEF vars, nodeVars, lockVars, kernelVars, serverVars, unmountVars, restVars

(* Two updates of one record keep its type.                                *)
LEMMA ActTyped ==
    ASSUME NEW a \in ActType, NEW np \in Nodes \cup {Null}, NEW n \in Nat
    PROVE  /\ [a EXCEPT !.np = np, !.vid = n] \in ActType
           /\ [a EXCEPT !.np = Null, !.vp = Null, !.vid = 0, !.stale = FALSE] \in ActType
<1>1. [a EXCEPT !.np = np] \in ActType
  BY DEF ActType
<1>2. \A r \in ActType : [r EXCEPT !.vid = n] \in ActType
  BY DEF ActType
<1>3. [a EXCEPT !.np = Null, !.vp = Null] \in ActType
  BY DEF ActType
<1>4. \A r \in ActType : [r EXCEPT !.vid = 0] \in ActType /\ [r EXCEPT !.stale = FALSE] \in ActType
  BY DEF ActType
<1> QED
  BY <1>1, <1>2, <1>3, <1>4

(* A freed node keeps its type.                                            *)
LEMMA NodeTyped ==
    ASSUME NEW r \in NodeType PROVE [r EXCEPT !.flags = {}, !.lck = Null] \in NodeType
<1>1. [r EXCEPT !.flags = {}] \in NodeType
  BY DEF NodeType
<1>2. \A q \in NodeType : [q EXCEPT !.lck = Null] \in NodeType
  BY DEF NodeType
<1> QED
  BY <1>1, <1>2

(* From the invariant, no step gives a variable a value out of its         *)
(* type.                                                                   *)
LEMMA TypeStep == IInv /\ [Next]_vars => TypeOK'
<1> SUFFICES ASSUME TypeOK, ~broken => Core, [Next]_vars PROVE TypeOK'
  BY DEF IInv
<1> USE DEF TypeOK
<1>1. ASSUME NEW t \in Threads, NEW d \in Dirs, NEW f \in Files, ~broken, BeginLookup(t, d,
     f) PROVE TypeOK'
  <2>1. dirlck' \in [Dirs -> Threads \cup {Null}]
    BY <1>1 DEF BeginLookup
  <2>2. at' \in [Threads -> Places]
    BY <1>1 DEF BeginLookup, Goto, Places
  <2>3. act' \in [Threads -> ActType]
    BY <1>1 DEF BeginLookup, ActType, NoAct, Act, NOFID
  <2> QED
    BY <1>1, <2>1, <2>2, <2>3 DEF BeginLookup
<1>2. ASSUME NEW t \in Threads, NEW v \in Vnodes, ~broken, LookupCached(t, v) PROVE TypeOK'
  <2>1. node[vnode[v].np].file \in Files \cup {Null}
    BY <1>2 DEF LookupCached, Core, VnodeInv, Paired, NodeType
  <2>2. vnode' \in [Vnodes -> VnodeType]
    BY <1>2, <2>1 DEF LookupCached, VnodeType, VnodeStates
  <2>3. at' \in [Threads -> Places]
    BY <1>2, <2>1 DEF LookupCached, Goto, Places
  <2>4. act' \in [Threads -> ActType]
    BY <1>2, <2>1 DEF LookupCached, ActType, NoAct, Act, NOFID
  <2> QED
    BY <1>2, <2>1, <2>2, <2>3, <2>4 DEF LookupCached
<1>3. ASSUME NEW t \in Threads, NEW f \in Files, ~broken, BeginVget(t, f) PROVE TypeOK'
  <2>1. at' \in [Threads -> Places]
    BY <1>3 DEF BeginVget, Goto, Places
  <2>2. act' \in [Threads -> ActType]
    BY <1>3 DEF BeginVget, ActType, NoAct, Act, NOFID
  <2>3. vgets' \in 0 .. MaxVgets
    BY <1>3 DEF BeginVget
  <2> QED
    BY <1>3, <2>1, <2>2, <2>3 DEF BeginVget
<1>4. ASSUME NEW t \in Threads, ~broken, Walk(t) PROVE TypeOK'
  <2>1. act[t].file \in Files \cup {Null}
    BY <1>4 DEF ActType
  <2>2. nfid' \in Nat
    BY <1>4, <2>1 DEF Walk
  <2>3. bound' \in [Fids -> Files \cup {Null}]
    BY <1>4, <2>1 DEF Walk
  <2>4. at' \in [Threads -> Places]
    BY <1>4, <2>1 DEF Walk, Goto, Places
  <2>5. act' \in [Threads -> ActType]
    BY <1>4, <2>1 DEF Walk, ActType
  <2> QED
    BY <1>4, <2>1, <2>2, <2>3, <2>4, <2>5 DEF Walk
<1>5. ASSUME NEW t \in Threads, ~broken, WalkFails(t) PROVE TypeOK'
  <2>1. dirlck' \in [Dirs -> Threads \cup {Null}]
    BY <1>5 DEF WalkFails
  <2>2. nfid' \in Nat
    BY <1>5 DEF WalkFails
  <2>3. at' \in [Threads -> Places]
    BY <1>5 DEF WalkFails, Goto, Places
  <2>4. act' \in [Threads -> ActType]
    BY <1>5 DEF WalkFails, ActType, NoAct, Act, NOFID
  <2> QED
    BY <1>5, <2>1, <2>2, <2>3, <2>4 DEF WalkFails
<1>6. ASSUME NEW t \in Threads, NEW b \in Nodes, ~broken, SleepOnInit(t, b) PROVE TypeOK'
  <2>1. node' \in [Nodes -> NodeType]
    BY <1>6 DEF SleepOnInit, SleepOnNode, NodeType, NodeFlags
  <2>2. at' \in [Threads -> Places]
    BY <1>6 DEF SleepOnInit, SleepOnNode, Goto, Places
  <2>3. act' \in [Threads -> ActType]
    BY <1>6 DEF SleepOnInit, SleepOnNode, ActType
  <2> QED
    BY <1>6, <2>1, <2>2, <2>3 DEF SleepOnInit, SleepOnNode
<1>7. ASSUME NEW t \in Threads, NEW b \in Nodes, ~broken, SleepOnRecl(t, b) PROVE TypeOK'
  <2>1. node' \in [Nodes -> NodeType]
    BY <1>7 DEF SleepOnRecl, SleepOnNode, NodeType, NodeFlags
  <2>2. at' \in [Threads -> Places]
    BY <1>7 DEF SleepOnRecl, SleepOnNode, Goto, Places
  <2>3. act' \in [Threads -> ActType]
    BY <1>7 DEF SleepOnRecl, SleepOnNode, ActType
  <2> QED
    BY <1>7, <2>1, <2>2, <2>3 DEF SleepOnRecl, SleepOnNode
<1>8. ASSUME NEW t \in Threads, NEW b \in Nodes, ~broken, ReadVid(t, b) PROVE TypeOK'
  <2>1. vnode[node[b].vp].vid \in Nat
    BY <1>8 DEF ReadVid, Searches, Found, Core, ListInv, Listed, VnodeType
  <2>2. at' \in [Threads -> Places]
    BY <1>8, <2>1 DEF ReadVid, Goto, Places
  <2>3. act' \in [Threads -> ActType]
    <3>1. [act[t] EXCEPT !.np = b, !.vid = vnode[node[b].vp].vid] \in ActType
      BY <1>8, <2>1, act[t] \in ActType, ActTyped
    <3> QED
      BY <1>8, <3>1 DEF ReadVid
  <2> QED
    BY <1>8, <2>1, <2>2, <2>3 DEF ReadVid
<1>9. ASSUME NEW t \in Threads, NEW b \in Nodes, ~broken, InsertNode(t, b) PROVE TypeOK'
  <2>1. act[t].file \in Files \cup {Null} /\ act[t].fid \in Nat
    BY <1>9 DEF ActType
  <2>2. allocated' \subseteq Nodes
    BY <1>9, <2>1 DEF InsertNode
  <2>3. list' \subseteq allocated'
    BY <1>9, <2>1 DEF InsertNode
  <2>4. node' \in [Nodes -> NodeType]
    BY <1>9, <2>1 DEF InsertNode, NodeType, NodeFlags
  <2>5. at' \in [Threads -> Places]
    BY <1>9, <2>1 DEF InsertNode, Goto, Places
  <2>6. act' \in [Threads -> ActType]
    BY <1>9, <2>1 DEF InsertNode, ActType
  <2> QED
    BY <1>9, <2>1, <2>2, <2>3, <2>4, <2>5, <2>6 DEF InsertNode
<1>10. ASSUME NEW t \in Threads, ~broken, ReloadVp(t) PROVE TypeOK'
  <2>1. act[t].np \in Nodes /\ node[act[t].np].vp \in Vnodes \cup {Null}
    BY <1>10 DEF ReloadVp, Core, ReadInv, ReadOK, NodeType
  <2>2. at' \in [Threads -> Places]
    BY <1>10, <2>1 DEF ReloadVp, Goto, Places
  <2>3. act' \in [Threads -> ActType]
    <3>1. [act[t] EXCEPT !.vp = node[act[t].np].vp] \in ActType
      <4>1. act[t] \in ActType
        OBVIOUS
      <4> HIDE DEF TypeOK
      <4> QED
        BY <2>1, <4>1 DEF ActType
    <3> QED
      BY <1>10, <3>1 DEF ReloadVp
  <2>4. broken' \in BOOLEAN
    BY <1>10, <2>1 DEF ReloadVp
  <2> QED
    BY <1>10, <2>1, <2>2, <2>3, <2>4 DEF ReloadVp
<1>11. ASSUME NEW t \in Threads, ~broken, GetVnode(t) PROVE TypeOK'
  <2>1. act[t].vp \in Vnodes /\ vnode[act[t].vp] \in VnodeType /\ act[t].stale \in BOOLEAN
    BY <1>11 DEF GetVnode, Core, ReadInv, ReadOK, ActType
  <2>2. vnode' \in [Vnodes -> VnodeType]
    <3>1. [vnode[act[t].vp] EXCEPT !.iocount = @ + 1] \in VnodeType
      <4>1. vnode[act[t].vp] \in VnodeType
        BY <2>1
      <4> HIDE DEF TypeOK
      <4> QED
        BY <2>1, <4>1 DEF VnodeType
    <3> QED
      BY <1>11, <2>1, <3>1 DEF GetVnode
  <2>3. at' \in [Threads -> Places]
    BY <1>11, <2>1 DEF GetVnode, Goto, Places
  <2>4. broken' \in BOOLEAN
    BY <1>11, <2>1 DEF GetVnode
  <2> QED
    BY <1>11, <2>1, <2>2, <2>3, <2>4 DEF GetVnode
<1>12. ASSUME NEW t \in Threads, ~broken, GetVnodeFails(t) PROVE TypeOK'
  <2>1. at' \in [Threads -> Places]
    BY <1>12 DEF GetVnodeFails, Goto, Places
  <2>2. act' \in [Threads -> ActType]
    <3>1. [act[t] EXCEPT !.np = Null, !.vp = Null, !.vid = 0, !.stale = FALSE] \in ActType
      BY <1>12, act[t] \in ActType, ActTyped
    <3> QED
      BY <1>12, <3>1 DEF GetVnodeFails
  <2> QED
    BY <1>12, <2>1, <2>2 DEF GetVnodeFails
<1>13. ASSUME NEW t \in Threads, ~broken, NlockFound(t) PROVE TypeOK'
  <2>1. act[t].np \in Nodes
    BY <1>13 DEF NlockFound, Core, HeldNodeLive, NodeHeld
  <2>2. node' \in [Nodes -> NodeType]
    <3>1. [node[act[t].np] EXCEPT !.lck = t] \in NodeType
      <4>1. node[act[t].np] \in NodeType
        BY <2>1
      <4> HIDE DEF TypeOK
      <4> QED
        BY <2>1, <4>1 DEF NodeType
    <3> QED
      BY <1>13, <2>1, <3>1 DEF NlockFound
  <2>3. at' \in [Threads -> Places]
    BY <1>13, <2>1 DEF NlockFound, Goto, Places
  <2> QED
    BY <1>13, <2>1, <2>2, <2>3 DEF NlockFound
<1>14. ASSUME NEW t \in Threads, ~broken, VgetAbsent(t) PROVE TypeOK'
  <2>1. nodelck' \in Threads \cup {Null}
    BY <1>14 DEF VgetAbsent
  <2>2. at' \in [Threads -> Places]
    BY <1>14 DEF VgetAbsent, Goto, Places
  <2> QED
    BY <1>14, <2>1, <2>2 DEF VgetAbsent
<1>15. ASSUME NEW t \in Threads, ~broken, NoMemory(t) PROVE TypeOK'
  <2>1. at' \in [Threads -> Places]
    BY <1>15 DEF NoMemory, Goto, Places
  <2> QED
    BY <1>15, <2>1 DEF NoMemory
<1>16. ASSUME NEW t \in Threads, ~broken, Ngetdir(t) PROVE TypeOK'
  <2>1. at' \in [Threads -> Places]
    BY <1>16 DEF Ngetdir, Goto, Places
  <2> QED
    BY <1>16, <2>1 DEF Ngetdir
<1>17. ASSUME NEW t \in Threads, NEW v \in Vnodes, ~broken, CreateVnode(t, v) PROVE TypeOK'
  <2>1. act[t].np \in Nodes
    BY <1>17 DEF CreateVnode, Core, MakingInv, MakingOK, Making
  <2>2. node' \in [Nodes -> NodeType]
    <3>1. [node[act[t].np] EXCEPT !.vp = v] \in NodeType
      <4>1. node[act[t].np] \in NodeType
        BY <2>1
      <4> HIDE DEF TypeOK
      <4> QED
        BY <2>1, <4>1 DEF NodeType
    <3> QED
      BY <1>17, <2>1, <3>1 DEF CreateVnode
  <2>3. vnode' \in [Vnodes -> VnodeType]
    BY <1>17, <2>1 DEF CreateVnode, VnodeType, VnodeStates
  <2>4. at' \in [Threads -> Places]
    BY <1>17, <2>1 DEF CreateVnode, Goto, Places
  <2>5. act' \in [Threads -> ActType]
    <3>1. [act[t] EXCEPT !.vp = v] \in ActType
      <4>1. act[t] \in ActType
        BY <2>1
      <4> HIDE DEF TypeOK
      <4> QED
        BY <2>1, <4>1 DEF ActType
    <3> QED
      BY <1>17, <2>1, <3>1 DEF CreateVnode
  <2> QED
    BY <1>17, <2>1, <2>2, <2>3, <2>4, <2>5 DEF CreateVnode
<1>18. ASSUME NEW t \in Threads, ~broken, CreateVnodeFails(t) PROVE TypeOK'
  <2>1. at' \in [Threads -> Places]
    BY <1>18 DEF CreateVnodeFails, Goto, Places
  <2> QED
    BY <1>18, <2>1 DEF CreateVnodeFails
<1>19. ASSUME NEW t \in Threads, ~broken, Err1(t) PROVE TypeOK'
  <2>1. act[t].np \in Nodes
    BY <1>19 DEF Err1, Core, MakingInv, MakingOK, Making
  <2>2. allocated' \subseteq Nodes
    BY <1>19, <2>1 DEF Err1, Free
  <2>3. list' \subseteq allocated'
    BY <1>19, <2>1 DEF Err1, Free
  <2>4. node' \in [Nodes -> NodeType]
    <3>1. [node[act[t].np] EXCEPT !.flags = {}, !.lck = Null] \in NodeType
      BY <1>19, <2>1, NodeTyped
    <3> QED
      BY <1>19, <2>1, <3>1 DEF Err1
  <2>5. at' \in [Threads -> Places]
    BY <1>19, <2>1 DEF Err1, WakeIf, WakeupAnd, Goto, Places
  <2>6. act' \in [Threads -> ActType]
    <3> SUFFICES ASSUME NEW s \in Threads PROVE act'[s] \in ActType
      BY <1>19 DEF Err1, Free
    <3>1. act[s] \in ActType
      OBVIOUS
    <3>2. act'[s] = [act[s] EXCEPT !.stale = @ \/ (at[s] = "reload" /\ act[s].np = act[t].np)]
      BY <1>19 DEF Err1, Free
    <3> QED
      BY <3>1, <3>2 DEF ActType
  <2> QED
    BY <1>19, <2>1, <2>2, <2>3, <2>4, <2>5, <2>6 DEF Err1, Free
<1>20. ASSUME NEW t \in Threads, ~broken, NodeReady(t) PROVE TypeOK'
  <2>1. act[t].np \in Nodes
    BY <1>20 DEF NodeReady, Core, MakingInv, MakingOK, Making
  <2>2. node' \in [Nodes -> NodeType]
    BY <1>20, <2>1 DEF NodeReady, NodeType, NodeFlags
  <2>3. at' \in [Threads -> Places]
    BY <1>20, <2>1 DEF NodeReady, WakeIf, WakeupAnd, Goto, Places
  <2> QED
    BY <1>20, <2>1, <2>2, <2>3 DEF NodeReady
<1>21. ASSUME NEW t \in Threads, ~broken, LookupFailed(t) PROVE TypeOK'
  <2>1. dirlck' \in [Dirs -> Threads \cup {Null}]
    BY <1>21 DEF LookupFailed, Clunk
  <2>2. bound' \in [Fids -> Files \cup {Null}]
    BY <1>21 DEF LookupFailed, Clunk
  <2>3. at' \in [Threads -> Places]
    BY <1>21 DEF LookupFailed, Clunk, Goto, Places
  <2>4. act' \in [Threads -> ActType]
    BY <1>21 DEF LookupFailed, Clunk, ActType, NoAct, Act, NOFID
  <2> QED
    BY <1>21, <2>1, <2>2, <2>3, <2>4 DEF LookupFailed, Clunk
<1>22. ASSUME NEW t \in Threads, ~broken, LookupGot(t) PROVE TypeOK'
  <2>1. act[t].np \in Nodes /\ act[t].file \in Files \cup {Null}
        /\ node[act[t].np].vp \in Vnodes \cup {Null}
    BY <1>22 DEF LookupGot, Core, HeldNodeLive, NodeHeld, NodeType, ActType
  <2>2. node' \in [Nodes -> NodeType]
    <3>1. [node[act[t].np] EXCEPT !.lck = Null] \in NodeType
      <4>1. node[act[t].np] \in NodeType
        BY <2>1
      <4> HIDE DEF TypeOK
      <4> QED
        BY <2>1, <4>1 DEF NodeType
    <3> QED
      BY <1>22, <2>1, <3>1 DEF LookupGot, ReturnNode, Clunk
  <2>3. dirlck' \in [Dirs -> Threads \cup {Null}]
    BY <1>22, <2>1 DEF LookupGot, ReturnNode, Clunk
  <2>4. bound' \in [Fids -> Files \cup {Null}]
    BY <1>22, <2>1 DEF LookupGot, ReturnNode, Clunk
  <2>5. at' \in [Threads -> Places]
    BY <1>22, <2>1 DEF LookupGot, ReturnNode, Clunk, Goto, Places
  <2>6. act' \in [Threads -> ActType]
    BY <1>22, <2>1 DEF LookupGot, ReturnNode, Clunk, ActType, NoAct, Act, NOFID
  <2> QED
    BY <1>22, <2>1, <2>2, <2>3, <2>4, <2>5, <2>6 DEF LookupGot, ReturnNode, Clunk
<1>23. ASSUME NEW t \in Threads, ~broken, VgetGot(t) PROVE TypeOK'
  <2>1. act[t].np \in Nodes /\ act[t].file \in Files \cup {Null}
        /\ act[t].vp \in Vnodes /\ vnode[act[t].vp] \in VnodeType
        /\ node[act[t].np].vp \in Vnodes \cup {Null}
    BY <1>23 DEF VgetGot, Core, HeldNodeLive, NodeHeld, UserInv, UserOK, NodeType, ActType
  <2>2. node' \in [Nodes -> NodeType]
    <3>1. [node[act[t].np] EXCEPT !.lck = Null] \in NodeType
      <4>1. node[act[t].np] \in NodeType
        BY <2>1
      <4> HIDE DEF TypeOK
      <4> QED
        BY <2>1, <4>1 DEF NodeType
    <3> QED
      BY <1>23, <2>1, <3>1 DEF VgetGot, ReturnNode
  <2>3. dirlck' \in [Dirs -> Threads \cup {Null}]
    BY <1>23, <2>1 DEF VgetGot, ReturnNode
  <2>4. vnode' \in [Vnodes -> VnodeType]
    <3>1. [vnode[act[t].vp] EXCEPT !.iocount = @ + 1] \in VnodeType
      <4>1. vnode[act[t].vp] \in VnodeType
        BY <2>1
      <4> HIDE DEF TypeOK
      <4> QED
        BY <2>1, <4>1 DEF VnodeType
    <3> QED
      BY <1>23, <2>1, <3>1 DEF VgetGot, ReturnNode
  <2>5. extra' \in [Vnodes -> Nat]
    BY <1>23, <2>1 DEF VgetGot, ReturnNode
  <2>6. at' \in [Threads -> Places]
    BY <1>23, <2>1 DEF VgetGot, ReturnNode, Goto, Places
  <2>7. act' \in [Threads -> ActType]
    BY <1>23, <2>1 DEF VgetGot, ReturnNode, ActType, NoAct, Act, NOFID
  <2> QED
    BY <1>23, <2>1, <2>2, <2>3, <2>4, <2>5, <2>6, <2>7 DEF VgetGot, ReturnNode
<1>24. ASSUME NEW t \in Threads, ~broken, PutVnode(t) PROVE TypeOK'
  <2>1. act[t].vp \in Vnodes /\ vnode[act[t].vp] \in VnodeType
    BY <1>24 DEF PutVnode, Core, UserInv, UserOK
  <2>2. vnode' \in [Vnodes -> VnodeType]
    BY <1>24, <2>1 DEF PutVnode, VnodeType, VnodeStates
  <2>3. at' \in [Threads -> Places]
    BY <1>24, <2>1 DEF PutVnode, Goto, Places
  <2>4. act' \in [Threads -> ActType]
    BY <1>24, <2>1 DEF PutVnode, ActType, NoAct, Act, NOFID
  <2> QED
    BY <1>24, <2>1, <2>2, <2>3, <2>4 DEF PutVnode
<1>25. ASSUME NEW v \in Vnodes, ~broken, Terminate(v) PROVE TypeOK'
  <2>1. vnode' \in [Vnodes -> VnodeType]
    BY <1>25 DEF Terminate, VnodeGoes, VnodeType, VnodeStates
  <2> QED
    BY <1>25, <2>1 DEF Terminate, VnodeGoes
<1>26. ASSUME NEW v \in Vnodes, ~broken, ReclaimLock(v) PROVE TypeOK'
  <2>1. vnode[v].np \in Nodes /\ node[vnode[v].np] \in NodeType
    BY <1>26 DEF ReclaimLock, VnodeGoes, Core, VnodeInv, Paired
  <2>2. node' \in [Nodes -> NodeType]
    BY <1>26, <2>1 DEF ReclaimLock, VnodeGoes, NodeType, NodeFlags
  <2>3. vnode' \in [Vnodes -> VnodeType]
    BY <1>26, <2>1 DEF ReclaimLock, VnodeGoes, VnodeType, VnodeStates
  <2> QED
    BY <1>26, <2>1, <2>2, <2>3 DEF ReclaimLock, VnodeGoes
<1>27. ASSUME NEW v \in Vnodes, ~broken, ReclaimDel(v) PROVE TypeOK'
  <2>1. vnode[v].np \in Nodes /\ node[vnode[v].np] \in NodeType
    BY <1>27 DEF ReclaimDel, VnodeGoes, Core, VnodeInv, Paired
  <2>2. list' \subseteq allocated'
    BY <1>27, <2>1 DEF ReclaimDel, VnodeGoes
  <2>3. node' \in [Nodes -> NodeType]
    BY <1>27, <2>1 DEF ReclaimDel, VnodeGoes, NodeType, NodeFlags
  <2>4. vnode' \in [Vnodes -> VnodeType]
    BY <1>27, <2>1 DEF ReclaimDel, VnodeGoes, VnodeType, VnodeStates
  <2> QED
    BY <1>27, <2>1, <2>2, <2>3, <2>4 DEF ReclaimDel, VnodeGoes
<1>28. ASSUME NEW v \in Vnodes, ~broken, ReclaimClunk(v) PROVE TypeOK'
  <2>1. vnode[v].np \in Nodes /\ node[vnode[v].np] \in NodeType /\ node[vnode[v].np].fid \in Nat
    BY <1>28 DEF ReclaimClunk, VnodeGoes, Core, VnodeInv, Paired, NodeType
  <2>2. vnode' \in [Vnodes -> VnodeType]
    BY <1>28, <2>1 DEF ReclaimClunk, Clunk, VnodeGoes, VnodeType, VnodeStates
  <2>3. bound' \in [Fids -> Files \cup {Null}]
    BY <1>28, <2>1 DEF ReclaimClunk, Clunk, VnodeGoes
  <2>4. unclunked' \subseteq Nat
    BY <1>28, <2>1 DEF ReclaimClunk, Clunk, VnodeGoes
  <2> QED
    BY <1>28, <2>1, <2>2, <2>3, <2>4 DEF ReclaimClunk, Clunk, VnodeGoes
<1>29. ASSUME NEW v \in Vnodes, ~broken, ReclaimFree(v) PROVE TypeOK'
  <2>1. vnode[v].np \in Nodes /\ node[vnode[v].np] \in NodeType /\ vnode[v].np \notin list
    BY <1>29 DEF ReclaimFree, Core, VnodeInv, Paired
  <2>2. allocated' \subseteq Nodes
    BY <1>29, <2>1 DEF ReclaimFree, Free
  <2>3. node' \in [Nodes -> NodeType]
    BY <1>29, <2>1 DEF ReclaimFree, NodeType, NodeFlags
  <2>4. vnode' \in [Vnodes -> VnodeType]
    BY <1>29, <2>1 DEF ReclaimFree, VnodeType, VnodeStates
  <2>5. at' \in [Threads -> Places]
    BY <1>29, <2>1 DEF ReclaimFree, WakeIf, WakeupAnd, Goto, Places
  <2>6. act' \in [Threads -> ActType]
    <3> SUFFICES ASSUME NEW s \in Threads PROVE act'[s] \in ActType
      BY <1>29 DEF ReclaimFree, Free
    <3>1. act[s] \in ActType
      OBVIOUS
    <3>2. act'[s] = [act[s] EXCEPT !.stale = @ \/ (at[s] = "reload" /\ act[s].np = vnode[v].np)]
      BY <1>29 DEF ReclaimFree, Free
    <3> QED
      BY <3>1, <3>2 DEF ActType
  <2> QED
    BY <1>29, <2>1, <2>2, <2>3, <2>4, <2>5, <2>6 DEF ReclaimFree, Free
<1>30. ASSUME ~broken, BeginUnmount PROVE TypeOK'
  <2>1. unmounting' \in BOOLEAN
    BY <1>30 DEF BeginUnmount
  <2>2. unmounts' \in 0 .. MaxUnmounts
    BY <1>30 DEF BeginUnmount
  <2> QED
    BY <1>30, <2>1, <2>2 DEF BeginUnmount
<1>31. ASSUME ~broken, UnmountBusy PROVE TypeOK'
  <2>1. unmounting' \in BOOLEAN
    BY <1>31 DEF UnmountBusy
  <2> QED
    BY <1>31, <2>1 DEF UnmountBusy
<1>32. CASE UNCHANGED vars
  BY <1>32
<1> QED
  BY <1>1, <1>2, <1>3, <1>4, <1>5, <1>6, <1>7, <1>8, <1>9, <1>10, <1>11, <1>12, <1>13, <1>14, <1>15,
       <1>16, <1>17, <1>18, <1>19, <1>20, <1>21, <1>22, <1>23, <1>24, <1>25, <1>26, <1>27, <1>28,
       <1>29, <1>30, <1>31, <1>32 DEF Next, Begin, Thread, Nget, Reclaim

-----------------------------------------------------------------------------
(* What the steps that do several things at once change.                   *)
(* free_9p leaves every thread's locals alone but notes a pending          *)
(* reload.                                                                 *)
LEMMA FreeEffect ==
    ASSUME TypeOK, NEW b \in Nodes, Free(b)
    PROVE  /\ allocated' = allocated \ {b}
           /\ \A s \in Threads :
                 /\ act'[s].np = act[s].np /\ act'[s].vp = act[s].vp
                 /\ act'[s].vid = act[s].vid /\ act'[s].file = act[s].file
                 /\ ~act'[s].stale => ~act[s].stale /\ ~(at[s] = "reload" /\ act[s].np = b)
<1> SUFFICES ASSUME NEW s \in Threads
             PROVE  /\ act'[s].np = act[s].np /\ act'[s].vp = act[s].vp
                    /\ act'[s].vid = act[s].vid /\ act'[s].file = act[s].file
                    /\ ~act'[s].stale => ~act[s].stale /\ ~(at[s] = "reload" /\ act[s].np = b)
  BY DEF Free
<1> DEFINE old == act[s].stale \/ (at[s] = "reload" /\ act[s].np = b)
<1>1. act[s] \in ActType
  BY DEF TypeOK
<1>2. act'[s] = [act[s] EXCEPT !.stale = old]
  BY DEF Free
<1>3. act'[s].stale = old
  <2> HIDE DEF old
  <2> QED
    BY <1>1, <1>2 DEF ActType
<1>4. ~act'[s].stale => ~old
  <2> HIDE DEF old
  <2> QED
    BY <1>3
<1> QED
  BY <1>1, <1>2, <1>4 DEF ActType

(* err1 of nget_9p: what changes, for the thread that failed and the       *)
(* others.                                                                 *)
LEMMA Err1Effect ==
    ASSUME TypeOK, Core, ~broken, NEW t \in Threads, Err1(t)
    PROVE  LET b == act[t].np IN
           /\ at[t] = "err1" /\ at'[t] = "failed" /\ b \in list /\ b \in Nodes
           /\ node[b].lck = t /\ node[b].vp = Null
           /\ list' = list \ {b} /\ allocated' = allocated \ {b}
           /\ UNCHANGED <<vnode, extra>>
           /\ \A c \in Nodes : c # b => node'[c] = node[c]
           /\ node'[b].file = node[b].file /\ node'[b].vp = node[b].vp
           /\ \A s \in Threads :
                 /\ act'[s].np = act[s].np /\ act'[s].vp = act[s].vp
                 /\ act'[s].vid = act[s].vid /\ act'[s].file = act[s].file
                 /\ ~act'[s].stale => ~act[s].stale /\ ~(at[s] = "reload" /\ act[s].np = b)
           /\ \A s \in Threads \ {t} :
                 at'[s] = IF "WAITINIT" \in node[b].flags /\ at[s] = "asleep" /\ act[s].np = b
                          THEN "search" ELSE at[s]
           /\ \A c \in Nodes : node'[c].file = node[c].file /\ node'[c].vp = node[c].vp
<1> USE DEF TypeOK
<1>1. act[t].np \in list /\ act[t].np \in Nodes /\ at[t] = "err1"
      /\ node[act[t].np].lck = t /\ node[act[t].np].vp = Null
  BY DEF Err1, Core, MakingInv, MakingOK, Making
<1>2. Free(act[t].np)
  BY DEF Err1
<1>3. at'[t] = "failed" /\ \A s \in Threads \ {t} :
         at'[s] = IF "WAITINIT" \in node[act[t].np].flags /\ at[s] = "asleep" /\ act[s].np = act[t].np
                  THEN "search" ELSE at[s]
  BY DEF Err1, WakeIf, WakeupAnd
<1>4. /\ \A c \in Nodes : c # act[t].np => node'[c] = node[c]
      /\ node'[act[t].np].file = node[act[t].np].file /\ node'[act[t].np].vp = node[act[t].np].vp
  BY <1>1 DEF Err1, NodeType
<1> HIDE DEF TypeOK
<1> QED
  BY <1>1, <1>2, <1>3, <1>4, FreeEffect DEF Err1

(* The end of vnop_reclaim_9p: what changes, for vnode, node and           *)
(* sleepers.                                                               *)
LEMMA ReclaimFreeEffect ==
    ASSUME TypeOK, Core, ~broken, NEW v \in Vnodes, ReclaimFree(v)
    PROVE  LET b == vnode[v].np IN
           /\ vnode[v].is = "clunked" /\ b \in Nodes /\ b \in allocated /\ b \notin list
           /\ node[b].vp = v
           /\ vnode'[v].is = "free" /\ vnode'[v].iocount = 0 /\ vnode'[v].vid = vnode[v].vid + 1
           /\ \A w \in Vnodes : w # v => vnode'[w] = vnode[w]
           /\ list' = list /\ extra' = extra /\ allocated' = allocated \ {b}
           /\ \A c \in Nodes : c # b => node'[c] = node[c]
           /\ node'[b].file = node[b].file /\ node'[b].vp = node[b].vp /\ node'[b].lck = node[b].lck
           /\ \A s \in Threads :
                 /\ act'[s].np = act[s].np /\ act'[s].vp = act[s].vp
                 /\ act'[s].vid = act[s].vid /\ act'[s].file = act[s].file
                 /\ ~act'[s].stale => ~act[s].stale /\ ~(at[s] = "reload" /\ act[s].np = b)
           /\ \A s \in Threads :
                 at'[s] = IF "WAITRECL" \in node[b].flags /\ at[s] = "asleep" /\ act[s].np = b
                          THEN "search" ELSE at[s]
           /\ \A c \in Nodes : node'[c].file = node[c].file /\ node'[c].vp = node[c].vp
<1> USE DEF TypeOK
<1>1. vnode[v].np \in Nodes /\ vnode[v].is = "clunked" /\ vnode[v].np \in allocated
      /\ vnode[v].np \notin list /\ node[vnode[v].np].vp = v
  BY DEF ReclaimFree, Core, VnodeInv, Paired
<1>2. Free(vnode[v].np)
  BY DEF ReclaimFree
<1>3. \A s \in Threads :
         at'[s] = IF "WAITRECL" \in node[vnode[v].np].flags /\ at[s] = "asleep" /\ act[s].np = vnode[v].np
                  THEN "search" ELSE at[s]
  BY DEF ReclaimFree, WakeIf, WakeupAnd
<1>4. /\ \A c \in Nodes : c # vnode[v].np => node'[c] = node[c]
      /\ node'[vnode[v].np].file = node[vnode[v].np].file
      /\ node'[vnode[v].np].vp = node[vnode[v].np].vp
      /\ node'[vnode[v].np].lck = node[vnode[v].np].lck
  BY <1>1 DEF ReclaimFree, NodeType
<1>5. /\ vnode'[v].is = "free" /\ vnode'[v].iocount = 0 /\ vnode'[v].vid = vnode[v].vid + 1
      /\ \A w \in Vnodes : w # v => vnode'[w] = vnode[w]
  BY DEF ReclaimFree, VnodeType
<1> HIDE DEF TypeOK
<1> QED
  BY <1>1, <1>2, <1>3, <1>4, <1>5, FreeEffect DEF ReclaimFree

(* The nlock_9p of vnop_reclaim_9p: a node off INIT gets NODE_RECL.        *)
LEMMA ReclaimLockEffect ==
    ASSUME TypeOK, Core, ~broken, NEW v \in Vnodes, ReclaimLock(v)
    PROVE  LET b == vnode[v].np IN
           /\ vnode[v].is = "terminating" /\ b \in Nodes /\ b \in list
           /\ node[b].vp = v /\ node[b].lck = Null /\ "INIT" \notin node[b].flags
           /\ vnode'[v].is = "locked" /\ vnode'[v].np = b
           /\ vnode'[v].iocount = vnode[v].iocount /\ vnode'[v].vid = vnode[v].vid
           /\ \A w \in Vnodes : w # v => vnode'[w] = vnode[w]
           /\ \A c \in Nodes : c # b => node'[c] = node[c]
           /\ node'[b].file = node[b].file /\ node'[b].vp = node[b].vp /\ node'[b].lck = v
           /\ node'[b].flags = node[b].flags \cup {"RECL"}
           /\ UNCHANGED <<allocated, list, extra, at, act>>
           /\ \A c \in Nodes : node'[c].file = node[c].file /\ node'[c].vp = node[c].vp
<1> USE DEF TypeOK
<1>1. /\ vnode[v].is = "terminating" /\ vnode[v].np \in list /\ vnode[v].np \in Nodes
      /\ node[vnode[v].np].vp = v /\ node[vnode[v].np].lck = Null
  BY DEF ReclaimLock, VnodeGoes, Core, VnodeInv, Paired
<1>2. "INIT" \notin node[vnode[v].np].flags
  BY <1>1 DEF Core, ListInv, Listed
<1>3. /\ \A c \in Nodes : c # vnode[v].np => node'[c] = node[c]
      /\ node'[vnode[v].np].file = node[vnode[v].np].file
      /\ node'[vnode[v].np].vp = node[vnode[v].np].vp
      /\ node'[vnode[v].np].lck = v
      /\ node'[vnode[v].np].flags = node[vnode[v].np].flags \cup {"RECL"}
  BY <1>1 DEF ReclaimLock, NodeType
<1>4. /\ vnode'[v].is = "locked" /\ vnode'[v].np = vnode[v].np
      /\ vnode'[v].iocount = vnode[v].iocount /\ vnode'[v].vid = vnode[v].vid
      /\ \A w \in Vnodes : w # v => vnode'[w] = vnode[w]
  BY DEF ReclaimLock, VnodeGoes, VnodeType
<1> QED
  BY <1>1, <1>2, <1>3, <1>4 DEF ReclaimLock

(* The end of nget_9p for a new node: INIT goes, its waiters look          *)
(* again.                                                                  *)
LEMMA NodeReadyEffect ==
    ASSUME TypeOK, Core, ~broken, NEW t \in Threads, NodeReady(t)
    PROVE  LET b == act[t].np IN
           /\ at[t] = "ready" /\ at'[t] = "got" /\ b \in list /\ b \in Nodes
           /\ node[b].lck = t /\ "INIT" \in node[b].flags /\ "RECL" \notin node[b].flags
           /\ node[b].file = act[t].file /\ node[b].vp = act[t].vp /\ act[t].vp \in Vnodes
           /\ \A c \in Nodes : c # b => node'[c] = node[c]
           /\ node'[b].file = node[b].file /\ node'[b].vp = node[b].vp /\ node'[b].lck = t
           /\ node'[b].flags = node[b].flags \ {"INIT", "WAITINIT"}
           /\ UNCHANGED <<allocated, list, vnode, extra, act>>
           /\ \A s \in Threads \ {t} :
                 at'[s] = IF "WAITINIT" \in node[b].flags /\ at[s] = "asleep" /\ act[s].np = b
                          THEN "search" ELSE at[s]
           /\ \A c \in Nodes : node'[c].file = node[c].file /\ node'[c].vp = node[c].vp
<1> USE DEF TypeOK
<1>1. /\ act[t].np \in list /\ act[t].np \in Nodes /\ at[t] = "ready"
      /\ node[act[t].np].lck = t /\ "INIT" \in node[act[t].np].flags
      /\ "RECL" \notin node[act[t].np].flags
      /\ node[act[t].np].file = act[t].file
      /\ node[act[t].np].vp = act[t].vp /\ act[t].vp \in Vnodes
  BY DEF NodeReady, Core, MakingInv, MakingOK, Making
<1>2. at'[t] = "got" /\ \A s \in Threads \ {t} :
         at'[s] = IF "WAITINIT" \in node[act[t].np].flags /\ at[s] = "asleep" /\ act[s].np = act[t].np
                  THEN "search" ELSE at[s]
  BY DEF NodeReady, WakeIf, WakeupAnd
<1>3. /\ \A c \in Nodes : c # act[t].np => node'[c] = node[c]
      /\ node'[act[t].np].file = node[act[t].np].file /\ node'[act[t].np].vp = node[act[t].np].vp
      /\ node'[act[t].np].lck = node[act[t].np].lck
      /\ node'[act[t].np].flags = node[act[t].np].flags \ {"INIT", "WAITINIT"}
  BY <1>1 DEF NodeReady, NodeType
<1> QED
  BY <1>1, <1>2, <1>3 DEF NodeReady

(* A lookup or vget that ends: the node's lock is free, the iocount kept.   *)
LEMMA GotEffect ==
    ASSUME TypeOK, Core, ~broken, NEW t \in Threads, LookupGot(t) \/ VgetGot(t)
    PROVE  LET b == act[t].np IN
           /\ at[t] = "got" /\ at'[t] = "hold" /\ b \in Nodes /\ b \in list /\ node[b].lck = t
           /\ act[t].vp \in Vnodes /\ act'[t].np = Null /\ act'[t].vp = act[t].vp
           /\ act'[t].file = act[t].file /\ ~act'[t].stale
           /\ \A s \in Threads \ {t} : at'[s] = at[s] /\ act'[s] = act[s]
           /\ \A c \in Nodes : node'[c].file = node[c].file /\ node'[c].vp = node[c].vp
                               /\ node'[c].flags = node[c].flags
           /\ \A c \in Nodes : c # b => node'[c] = node[c]
           /\ \A w \in Vnodes : vnode'[w].is = vnode[w].is /\ vnode'[w].np = vnode[w].np
                                /\ vnode'[w].vid = vnode[w].vid
           /\ UNCHANGED <<allocated, list>>
<1>0. node \in [Nodes -> NodeType] /\ vnode \in [Vnodes -> VnodeType] /\ act \in [Threads -> ActType]
      /\ at \in [Threads -> Places] /\ list \subseteq allocated /\ allocated \subseteq Nodes
  BY DEF TypeOK
<1>1. NodeHeld(t) /\ UserOK(t)
  BY DEF Core, HeldNodeLive, UserInv
<1>2. /\ at[t] = "got" /\ act[t].np \in list /\ act[t].np \in Nodes /\ act[t].vp \in Vnodes
      /\ node[act[t].np].vp = act[t].vp /\ node[act[t].np].lck = t
  BY <1>0, <1>1 DEF LookupGot, VgetGot, NodeHeld, UserOK
<1>3. /\ \A c \in Nodes : c # act[t].np => node'[c] = node[c]
      /\ \A c \in Nodes : node'[c].file = node[c].file /\ node'[c].vp = node[c].vp
                          /\ node'[c].flags = node[c].flags
  BY <1>0, <1>2 DEF LookupGot, VgetGot, ReturnNode, NodeType
<1>4. \A w \in Vnodes : vnode'[w].is = vnode[w].is /\ vnode'[w].np = vnode[w].np
                        /\ vnode'[w].vid = vnode[w].vid
  BY <1>0, <1>2 DEF LookupGot, VgetGot, VnodeType
<1>5. /\ at'[t] = "hold" /\ act'[t].np = Null /\ act'[t].vp = act[t].vp
      /\ act'[t].file = act[t].file /\ ~act'[t].stale
      /\ \A s \in Threads \ {t} : at'[s] = at[s] /\ act'[s] = act[s]
  BY <1>0, <1>2 DEF LookupGot, VgetGot, ReturnNode, Goto, Act
<1> QED
  BY <1>2, <1>3, <1>4, <1>5 DEF LookupGot, VgetGot, ReturnNode

-----------------------------------------------------------------------------
(* One lemma for each part of the invariant, one step for each action.     *)

(* Each listed node stays ready with its vnode, or in INIT with its        *)
(* maker.                                                                  *)
LEMMA ListStep ==
    ASSUME TypeOK, Core, Next, ~broken, ~broken'
    PROVE  ListInv'
<1> USE DEF TypeOK, NodeType, VnodeType, ActType, Core, ListInv, MakingInv, VnodeInv, HeldNodeLive,
     UserInv, Making, Listed, MakingOK, Paired, NodeHeld, UserOK
<1>1. ASSUME NEW t \in Threads, NEW d \in Dirs, NEW f \in Files, BeginLookup(t, d, f) PROVE ListInv'
  BY <1>1 DEF BeginLookup, Goto, Act, NoAct, NOFID
<1>2. ASSUME NEW t \in Threads, NEW v \in Vnodes, LookupCached(t, v) PROVE ListInv'
  BY <1>2 DEF LookupCached, Goto, Act, NoAct, NOFID
<1>3. ASSUME NEW t \in Threads, NEW f \in Files, BeginVget(t, f) PROVE ListInv'
  BY <1>3 DEF BeginVget, Goto, Act, NoAct, NOFID
<1>4. ASSUME NEW t \in Threads, Walk(t) PROVE ListInv'
  BY <1>4 DEF Walk, Goto
<1>5. ASSUME NEW t \in Threads, WalkFails(t) PROVE ListInv'
  BY <1>5 DEF WalkFails, Goto, Act, NoAct, NOFID
<1>6. ASSUME NEW t \in Threads, NEW b \in Nodes, SleepOnInit(t, b) PROVE ListInv'
  BY <1>6 DEF SleepOnInit, SleepOnNode, Goto, Searches, Found
<1>7. ASSUME NEW t \in Threads, NEW b \in Nodes, SleepOnRecl(t, b) PROVE ListInv'
  BY <1>7 DEF SleepOnRecl, SleepOnNode, Goto, Searches, Found
<1>8. ASSUME NEW t \in Threads, NEW b \in Nodes, ReadVid(t, b) PROVE ListInv'
  BY <1>8 DEF ReadVid, Goto, Searches, Found
<1>9. ASSUME NEW t \in Threads, NEW b \in Nodes, InsertNode(t, b) PROVE ListInv'
  BY <1>9 DEF InsertNode, Goto, Absent, Searches, Found
<1>10. ASSUME NEW t \in Threads, ReloadVp(t) PROVE ListInv'
  BY <1>10 DEF ReloadVp, Goto
<1>11. ASSUME NEW t \in Threads, GetVnode(t) PROVE ListInv'
  BY <1>11 DEF GetVnode, Goto, VidCurrent
<1>12. ASSUME NEW t \in Threads, GetVnodeFails(t) PROVE ListInv'
  BY <1>12 DEF GetVnodeFails, Goto, VidCurrent
<1>13. ASSUME NEW t \in Threads, NlockFound(t) PROVE ListInv'
  BY <1>13 DEF NlockFound, Goto
<1>14. ASSUME NEW t \in Threads, VgetAbsent(t) PROVE ListInv'
  BY <1>14 DEF VgetAbsent, Goto, Absent, Searches, Found
<1>15. ASSUME NEW t \in Threads, NoMemory(t) PROVE ListInv'
  BY <1>15 DEF NoMemory, Goto, Absent, Searches, Found
<1>16. ASSUME NEW t \in Threads, Ngetdir(t) PROVE ListInv'
  BY <1>16 DEF Ngetdir, Goto
<1>17. ASSUME NEW t \in Threads, NEW v \in Vnodes, CreateVnode(t, v) PROVE ListInv'
  BY <1>17 DEF CreateVnode, Goto
<1>18. ASSUME NEW t \in Threads, CreateVnodeFails(t) PROVE ListInv'
  BY <1>18 DEF CreateVnodeFails, Goto
<1>19. ASSUME NEW t \in Threads, Err1(t) PROVE ListInv'
  BY <1>19, Err1Effect
<1>20. ASSUME NEW t \in Threads, NodeReady(t) PROVE ListInv'
  <2> DEFINE b == act[t].np
  <2>1. \A c \in list : c # b => Listed(c)'
    <3> SUFFICES ASSUME NEW c \in list, c # b PROVE Listed(c)'
      OBVIOUS
    <3>1. c \in Nodes /\ node'[c] = node[c]
      <4>1. c \in Nodes
        OBVIOUS
      <4> HIDE DEF TypeOK, NodeType, VnodeType, ActType, Core, Listed, MakingOK
      <4> QED
        BY <1>20, <4>1, NodeReadyEffect
    <3>2. ASSUME "INIT" \notin node[c].flags PROVE Listed(c)'
      <4>1. /\ node[c].vp \in Vnodes /\ vnode[node[c].vp].np = c
            /\ vnode[node[c].vp].is \in {"live", "terminating", "locked"}
            /\ "RECL" \in node[c].flags => vnode[node[c].vp].is = "locked"
        BY <3>2
      <4>2. vnode'[node[c].vp] = vnode[node[c].vp]
        BY <1>20, <4>1, NodeReadyEffect
      <4> QED
        BY <3>1, <3>2, <4>1, <4>2
    <3>3. ASSUME "INIT" \in node[c].flags PROVE Listed(c)'
      <4>1. node[c].lck \in Threads /\ at[node[c].lck] \in Making /\ act[node[c].lck].np = c
        BY <3>3
      <4>2. at'[node[c].lck] \in Making /\ act'[node[c].lck].np = c
        <5>1. node[c].lck # t
          BY <4>1
        <5> QED
          BY <1>20, <4>1, <5>1, NodeReadyEffect
      <4> QED
        BY <3>1, <3>3, <4>1, <4>2
    <3> QED
      BY <3>2, <3>3
  <2>2. \A c \in list : c = b => Listed(c)'
    <3>1. /\ node'[b].vp = act[t].vp /\ act[t].vp \in Vnodes /\ vnode' = vnode
          /\ "INIT" \notin node'[b].flags /\ "RECL" \notin node'[b].flags
      BY <1>20, NodeReadyEffect
    <3>2. vnode[act[t].vp].np = b /\ vnode[act[t].vp].is = "live"
      BY <1>20, NodeReadyEffect
    <3> QED
      BY <3>1, <3>2
  <2>3. list' = list
    BY <1>20, NodeReadyEffect
  <2> HIDE DEF Listed, b
  <2> QED
    BY <2>1, <2>2, <2>3
<1>21. ASSUME NEW t \in Threads, LookupFailed(t) PROVE ListInv'
  BY <1>21 DEF LookupFailed, Clunk, Goto, Act, NoAct, NOFID
<1>got. ASSUME NEW t \in Threads, LookupGot(t) \/ VgetGot(t) PROVE ListInv'
  <2> SUFFICES ASSUME NEW c \in list PROVE Listed(c)'
    BY <1>got, GotEffect DEF ListInv
  <2>1. c \in Nodes /\ Listed(c) /\ act[t].np \in Nodes
    BY <1>got, GotEffect
  <2>2. node'[c].vp = node[c].vp /\ node'[c].flags = node[c].flags
    BY <1>got, <2>1, GotEffect
  <2>3. \A w \in Vnodes : vnode'[w].np = vnode[w].np /\ vnode'[w].is = vnode[w].is
    BY <1>got, GotEffect
  <2>4. ASSUME "INIT" \in node[c].flags
        PROVE  /\ node'[c].lck \in Threads /\ at'[node'[c].lck] \in Making
               /\ act'[node'[c].lck].np = c
    <3>1. node[c].lck \in Threads /\ at[node[c].lck] \in Making /\ act[node[c].lck].np = c
      BY <2>1, <2>4
    <3>2. node[c].lck # t /\ c # act[t].np
      BY <1>got, <3>1, GotEffect
    <3>3. node'[c] = node[c] /\ at'[node[c].lck] = at[node[c].lck] /\ act'[node[c].lck] = act[node[c].lck]
      BY <1>got, <2>1, <3>1, <3>2, GotEffect
    <3> QED
      BY <3>1, <3>3
  <2> HIDE DEF TypeOK, NodeType, VnodeType, ActType, Core, MakingInv, VnodeInv, HeldNodeLive,
       UserInv, Making, MakingOK, Paired, NodeHeld, UserOK
  <2> QED
    BY <2>1, <2>2, <2>3, <2>4
<1>22. ASSUME NEW t \in Threads, LookupGot(t) PROVE ListInv'
  BY <1>22, <1>got
<1>23. ASSUME NEW t \in Threads, VgetGot(t) PROVE ListInv'
  BY <1>23, <1>got
<1>24. ASSUME NEW t \in Threads, PutVnode(t) PROVE ListInv'
  BY <1>24 DEF PutVnode, Goto, Act, NoAct, NOFID
<1>25. ASSUME NEW v \in Vnodes, Terminate(v) PROVE ListInv'
  BY <1>25 DEF Terminate, VnodeGoes
<1>26. ASSUME NEW v \in Vnodes, ReclaimLock(v) PROVE ListInv'
  <2> DEFINE b == vnode[v].np
  <2>1. \A c \in list : c # b => Listed(c)'
    <3> SUFFICES ASSUME NEW c \in list, c # b PROVE Listed(c)'
      OBVIOUS
    <3>1. c \in Nodes /\ node'[c] = node[c]
      BY <1>26, ReclaimLockEffect
    <3>2. ASSUME "INIT" \notin node[c].flags PROVE Listed(c)'
      <4>1. /\ node[c].vp \in Vnodes /\ vnode[node[c].vp].np = c
            /\ vnode[node[c].vp].is \in {"live", "terminating", "locked"}
            /\ "RECL" \in node[c].flags => vnode[node[c].vp].is = "locked"
        BY <3>2
      <4>2. vnode'[node[c].vp] = vnode[node[c].vp]
        BY <1>26, <4>1, ReclaimLockEffect
      <4> QED
        BY <3>1, <3>2, <4>1, <4>2
    <3>3. ASSUME "INIT" \in node[c].flags PROVE Listed(c)'
      <4>1. node[c].lck \in Threads /\ at[node[c].lck] \in Making /\ act[node[c].lck].np = c
        BY <3>3
      <4>2. at'[node[c].lck] \in Making /\ act'[node[c].lck].np = c
        <5>1. node[c].lck \in Threads
          BY <4>1
        <5> QED
          BY <1>26, <4>1, <5>1, ReclaimLockEffect
      <4> QED
        BY <3>1, <3>3, <4>1, <4>2
    <3> QED
      BY <3>2, <3>3
  <2>2. \A c \in list : c = b => Listed(c)'
    <3>1. /\ node'[b].vp = v /\ "INIT" \notin node'[b].flags
          /\ vnode'[v].np = b /\ vnode'[v].is = "locked"
      BY <1>26, ReclaimLockEffect
    <3> QED
      BY <3>1
  <2>3. list' = list
    BY <1>26, ReclaimLockEffect
  <2> HIDE DEF Listed, b
  <2> QED
    BY <2>1, <2>2, <2>3
<1>27. ASSUME NEW v \in Vnodes, ReclaimDel(v) PROVE ListInv'
  BY <1>27 DEF ReclaimDel, VnodeGoes
<1>28. ASSUME NEW v \in Vnodes, ReclaimClunk(v) PROVE ListInv'
  BY <1>28 DEF ReclaimClunk, Clunk, VnodeGoes
<1>29. ASSUME NEW v \in Vnodes, ReclaimFree(v) PROVE ListInv'
  <2> DEFINE b == vnode[v].np
  <2>1. \A c \in list : c # b => Listed(c)'
    <3> SUFFICES ASSUME NEW c \in list, c # b PROVE Listed(c)'
      OBVIOUS
    <3>1. c \in Nodes /\ node'[c] = node[c]
      BY <1>29, ReclaimFreeEffect
    <3>2. ASSUME "INIT" \notin node[c].flags PROVE Listed(c)'
      <4>1. /\ node[c].vp \in Vnodes /\ vnode[node[c].vp].np = c
            /\ vnode[node[c].vp].is \in {"live", "terminating", "locked"}
            /\ "RECL" \in node[c].flags => vnode[node[c].vp].is = "locked"
        BY <3>2
      <4>2. vnode'[node[c].vp] = vnode[node[c].vp]
        BY <1>29, <4>1, ReclaimFreeEffect
      <4> QED
        BY <3>1, <3>2, <4>1, <4>2
    <3>3. ASSUME "INIT" \in node[c].flags PROVE Listed(c)'
      <4>1. node[c].lck \in Threads /\ at[node[c].lck] \in Making /\ act[node[c].lck].np = c
        BY <3>3
      <4>2. at'[node[c].lck] \in Making /\ act'[node[c].lck].np = c
        <5>1. node[c].lck \in Threads
          BY <4>1
        <5> QED
          BY <1>29, <4>1, <5>1, ReclaimFreeEffect
      <4> QED
        BY <3>1, <3>3, <4>1, <4>2
    <3> QED
      BY <3>2, <3>3
  <2>2. \A c \in list : c = b => Listed(c)'
    <3>1. vnode[v].np \notin list
      BY <1>29, ReclaimFreeEffect
    <3> QED
      BY <3>1
  <2>3. list' = list
    BY <1>29, ReclaimFreeEffect
  <2> HIDE DEF Listed, b
  <2> QED
    BY <2>1, <2>2, <2>3
<1>30. ASSUME
           \/ BeginUnmount
           \/ UnmountBusy
    PROVE  ListInv'
  <2>1. UNCHANGED <<act, at, list, node, vnode>>
    BY <1>30 DEF BeginUnmount, UnmountBusy
  <2> HIDE DEF TypeOK, NodeType, VnodeType, ActType, Core, MakingInv, VnodeInv, HeldNodeLive,
       UserInv, Making, Listed, MakingOK, Paired, NodeHeld, UserOK
  <2> QED
    BY <2>1 DEF Core, ListInv, Listed, Making
<1> QED
  BY <1>1, <1>2, <1>3, <1>4, <1>5, <1>6, <1>7, <1>8, <1>9, <1>10, <1>11, <1>12, <1>13, <1>14, <1>15,
       <1>16, <1>17, <1>18, <1>19, <1>20, <1>21, <1>22, <1>23, <1>24, <1>25, <1>26, <1>27, <1>28,
       <1>29, <1>30 DEF Next, Begin, Thread, Nget, Reclaim

(* The maker of a node keeps its lock and its place on the chains.         *)
LEMMA MakingStep ==
    ASSUME TypeOK, Core, Next, ~broken, ~broken'
    PROVE  MakingInv'
<1> USE DEF TypeOK, NodeType, VnodeType, ActType, Core, MakingInv, HeldNodeLive, UserInv, VnodeInv,
     ListInv, Making, MakingOK, NodeHeld, UserOK, Paired, Listed
<1>1. ASSUME NEW t \in Threads, NEW d \in Dirs, NEW f \in Files, BeginLookup(t, d, f) PROVE MakingInv'
  BY <1>1 DEF BeginLookup, Goto, Act, NoAct, NOFID
<1>2. ASSUME NEW t \in Threads, NEW v \in Vnodes, LookupCached(t, v) PROVE MakingInv'
  BY <1>2 DEF LookupCached, Goto, Act, NoAct, NOFID
<1>3. ASSUME NEW t \in Threads, NEW f \in Files, BeginVget(t, f) PROVE MakingInv'
  BY <1>3 DEF BeginVget, Goto, Act, NoAct, NOFID
<1>4. ASSUME NEW t \in Threads, Walk(t) PROVE MakingInv'
  BY <1>4 DEF Walk, Goto
<1>5. ASSUME NEW t \in Threads, WalkFails(t) PROVE MakingInv'
  BY <1>5 DEF WalkFails, Goto, Act, NoAct, NOFID
<1>6. ASSUME NEW t \in Threads, NEW b \in Nodes, SleepOnInit(t, b) PROVE MakingInv'
  BY <1>6 DEF SleepOnInit, SleepOnNode, Goto, Searches, Found
<1>7. ASSUME NEW t \in Threads, NEW b \in Nodes, SleepOnRecl(t, b) PROVE MakingInv'
  BY <1>7 DEF SleepOnRecl, SleepOnNode, Goto, Searches, Found
<1>8. ASSUME NEW t \in Threads, NEW b \in Nodes, ReadVid(t, b) PROVE MakingInv'
  BY <1>8 DEF ReadVid, Goto, Searches, Found
<1>9. ASSUME NEW t \in Threads, NEW b \in Nodes, InsertNode(t, b) PROVE MakingInv'
  BY <1>9 DEF InsertNode, Goto, Absent, Searches, Found
<1>10. ASSUME NEW t \in Threads, ReloadVp(t) PROVE MakingInv'
  BY <1>10 DEF ReloadVp, Goto
<1>11. ASSUME NEW t \in Threads, GetVnode(t) PROVE MakingInv'
  BY <1>11 DEF GetVnode, Goto, VidCurrent
<1>12. ASSUME NEW t \in Threads, GetVnodeFails(t) PROVE MakingInv'
  BY <1>12 DEF GetVnodeFails, Goto, VidCurrent
<1>13. ASSUME NEW t \in Threads, NlockFound(t) PROVE MakingInv'
  BY <1>13 DEF NlockFound, Goto
<1>14. ASSUME NEW t \in Threads, VgetAbsent(t) PROVE MakingInv'
  BY <1>14 DEF VgetAbsent, Goto, Absent, Searches, Found
<1>15. ASSUME NEW t \in Threads, NoMemory(t) PROVE MakingInv'
  BY <1>15 DEF NoMemory, Goto, Absent, Searches, Found
<1>16. ASSUME NEW t \in Threads, Ngetdir(t) PROVE MakingInv'
  BY <1>16 DEF Ngetdir, Goto
<1>17. ASSUME NEW t \in Threads, NEW v \in Vnodes, CreateVnode(t, v) PROVE MakingInv'
  BY <1>17 DEF CreateVnode, Goto
<1>18. ASSUME NEW t \in Threads, CreateVnodeFails(t) PROVE MakingInv'
  BY <1>18 DEF CreateVnodeFails, Goto
<1>19. ASSUME NEW t \in Threads, Err1(t) PROVE MakingInv'
  <2> SUFFICES ASSUME NEW s \in Threads, at'[s] \in Making PROVE MakingOK(s)'
    BY DEF MakingInv
  <2>1. /\ s # t /\ at'[s] = at[s] /\ act'[s].np = act[s].np /\ act'[s].vp = act[s].vp
        /\ act'[s].file = act[s].file
    BY <1>19, Err1Effect
  <2>2. /\ MakingOK(s) /\ Making = {"stat", "create", "ready", "err1"}
        /\ allocated \subseteq Nodes /\ list \subseteq allocated
    OBVIOUS
  <2> HIDE DEF TypeOK, NodeType, VnodeType, ActType, Core, MakingInv, HeldNodeLive, UserInv, VnodeInv,
       ListInv, Making, NodeHeld, UserOK, Paired, Listed
  <2>3. act[s].np \in Nodes /\ act[s].np # act[t].np
    BY <1>19, <2>1, <2>2, Err1Effect
  <2>4. node'[act[s].np] = node[act[s].np] /\ list' = list \ {act[t].np} /\ vnode' = vnode
    BY <1>19, <2>3, Err1Effect
  <2> QED
    BY <2>1, <2>2, <2>3, <2>4
<1>20. ASSUME NEW t \in Threads, NodeReady(t) PROVE MakingInv'
  BY <1>20 DEF NodeReady, WakeIf, WakeupAnd, Goto
<1>21. ASSUME NEW t \in Threads, LookupFailed(t) PROVE MakingInv'
  BY <1>21 DEF LookupFailed, Clunk, Goto, Act, NoAct, NOFID
<1>22. ASSUME NEW t \in Threads, LookupGot(t) PROVE MakingInv'
  BY <1>22 DEF LookupGot, ReturnNode, Clunk, Goto, Act, NoAct, NOFID
<1>23. ASSUME NEW t \in Threads, VgetGot(t) PROVE MakingInv'
  BY <1>23 DEF VgetGot, ReturnNode, Goto, Act, NoAct, NOFID
<1>24. ASSUME NEW t \in Threads, PutVnode(t) PROVE MakingInv'
  BY <1>24 DEF PutVnode, Goto, Act, NoAct, NOFID
<1>25. ASSUME NEW v \in Vnodes, Terminate(v) PROVE MakingInv'
  BY <1>25 DEF Terminate, VnodeGoes
<1>26. ASSUME NEW v \in Vnodes, ReclaimLock(v) PROVE MakingInv'
  <2> SUFFICES ASSUME NEW s \in Threads, at'[s] \in Making PROVE MakingOK(s)'
    BY DEF MakingInv
  <2>0. /\ allocated \subseteq Nodes /\ list \subseteq allocated
        /\ MakingOK(s) /\ Making = {"stat", "create", "ready", "err1"}
    OBVIOUS
  <2> HIDE DEF TypeOK, NodeType, VnodeType, ActType, Core, MakingInv, HeldNodeLive, UserInv, VnodeInv,
       ListInv, Making, NodeHeld, UserOK, Paired, Listed
  <2>1. UNCHANGED <<list, at, act>>
    BY <1>26, ReclaimLockEffect
  <2>2. act[s].np \in Nodes /\ act[s].np # vnode[v].np
    BY <1>26, <2>0, <2>1, ReclaimLockEffect
  <2>3. node'[act[s].np] = node[act[s].np] /\ \A w \in Vnodes : vnode'[w].np = vnode[w].np
    <3>1. node'[act[s].np] = node[act[s].np]
      BY <1>26, <2>2, ReclaimLockEffect
    <3>2. vnode'[v].np = vnode[v].np /\ \A w \in Vnodes : w # v => vnode'[w] = vnode[w]
      BY <1>26, ReclaimLockEffect
    <3> QED
      BY <3>1, <3>2
  <2> QED
    BY <2>0, <2>1, <2>2, <2>3
<1>27. ASSUME NEW v \in Vnodes, ReclaimDel(v) PROVE MakingInv'
  BY <1>27 DEF ReclaimDel, VnodeGoes
<1>28. ASSUME NEW v \in Vnodes, ReclaimClunk(v) PROVE MakingInv'
  BY <1>28 DEF ReclaimClunk, Clunk, VnodeGoes
<1>29. ASSUME NEW v \in Vnodes, ReclaimFree(v) PROVE MakingInv'
  <2> SUFFICES ASSUME NEW s \in Threads, at'[s] \in Making PROVE MakingOK(s)'
    BY DEF MakingInv
  <2>0. /\ allocated \subseteq Nodes /\ list \subseteq allocated
        /\ MakingOK(s) /\ Making = {"stat", "create", "ready", "err1"}
    OBVIOUS
  <2> HIDE DEF TypeOK, NodeType, VnodeType, ActType, Core, MakingInv, HeldNodeLive, UserInv, VnodeInv,
       ListInv, Making, NodeHeld, UserOK, Paired, Listed
  <2>1. /\ list' = list /\ at'[s] = at[s] /\ act'[s].np = act[s].np /\ act'[s].vp = act[s].vp
        /\ act'[s].file = act[s].file
    BY <1>29, <2>0, ReclaimFreeEffect
  <2>2. act[s].np \in Nodes /\ act[s].np # vnode[v].np
    BY <1>29, <2>0, <2>1, ReclaimFreeEffect
  <2>3. node'[act[s].np] = node[act[s].np]
    BY <1>29, <2>2, ReclaimFreeEffect
  <2>4. /\ vnode[v].np # act[s].np
        /\ \A w \in Vnodes : w # v => vnode'[w] = vnode[w]
    BY <1>29, <2>2, ReclaimFreeEffect
  <2> QED
    BY <2>0, <2>1, <2>2, <2>3, <2>4
<1>30. ASSUME
           \/ BeginUnmount
           \/ UnmountBusy
    PROVE  MakingInv'
  <2>1. UNCHANGED <<act, at, list, node, vnode>>
    BY <1>30 DEF BeginUnmount, UnmountBusy
  <2> HIDE DEF TypeOK, NodeType, VnodeType, ActType, Core, HeldNodeLive, UserInv, VnodeInv, ListInv,
       Making, MakingOK, NodeHeld, UserOK, Paired, Listed
  <2> QED
    BY <2>1 DEF Core, MakingInv, MakingOK, Making
<1> QED
  BY <1>1, <1>2, <1>3, <1>4, <1>5, <1>6, <1>7, <1>8, <1>9, <1>10, <1>11, <1>12, <1>13, <1>14, <1>15,
       <1>16, <1>17, <1>18, <1>19, <1>20, <1>21, <1>22, <1>23, <1>24, <1>25, <1>26, <1>27, <1>28,
       <1>29, <1>30 DEF Next, Begin, Thread, Nget, Reclaim

(* A vnode and its node stay paired until the node is freed.               *)
LEMMA VnodeStep ==
    ASSUME TypeOK, Core, Next, ~broken, ~broken'
    PROVE  VnodeInv'
<1> USE DEF TypeOK, NodeType, VnodeType, ActType, Core, VnodeInv, MakingInv, ListInv, HeldNodeLive,
     UserInv, ReadInv, Making, Paired, MakingOK, Listed, NodeHeld, UserOK, ReadOK
<1>1. ASSUME NEW t \in Threads, NEW v \in Vnodes, LookupCached(t, v) PROVE VnodeInv'
  BY <1>1 DEF LookupCached, Goto, Act, NoAct, NOFID
<1>2. ASSUME NEW t \in Threads, NEW b \in Nodes, SleepOnInit(t, b) PROVE VnodeInv'
  BY <1>2 DEF SleepOnInit, SleepOnNode, Goto, Searches, Found
<1>3. ASSUME NEW t \in Threads, NEW b \in Nodes, SleepOnRecl(t, b) PROVE VnodeInv'
  BY <1>3 DEF SleepOnRecl, SleepOnNode, Goto, Searches, Found
<1>4. ASSUME NEW t \in Threads, NEW b \in Nodes, InsertNode(t, b) PROVE VnodeInv'
  BY <1>4 DEF InsertNode, Goto, Absent, Searches, Found
<1>5. ASSUME NEW t \in Threads, GetVnode(t) PROVE VnodeInv'
  <2> SUFFICES ASSUME NEW w \in Vnodes PROVE Paired(w)'
    BY DEF VnodeInv
  <2>1. act[t].vp \in Vnodes /\ vnode[act[t].vp].is = "live"
    BY <1>5 DEF GetVnode, VidCurrent
  <2>2. \A v \in Vnodes : /\ vnode'[v].is = vnode[v].is /\ vnode'[v].np = vnode[v].np
                          /\ v # act[t].vp => vnode'[v].iocount = vnode[v].iocount
    BY <1>5, <2>1 DEF GetVnode
  <2>3. UNCHANGED <<allocated, list, node>>
    BY <1>5 DEF GetVnode
  <2>5. Paired(w)
    OBVIOUS
  <2> HIDE DEF TypeOK, NodeType, VnodeType, ActType, Core, VnodeInv, MakingInv, ListInv,
       HeldNodeLive, UserInv, ReadInv, Making, MakingOK, Listed, NodeHeld, UserOK, ReadOK
  <2> QED
    BY <2>1, <2>2, <2>3, <2>5
<1>6. ASSUME NEW t \in Threads, NlockFound(t) PROVE VnodeInv'
  <2> SUFFICES ASSUME NEW w \in Vnodes PROVE Paired(w)'
    BY DEF VnodeInv
  <2>1. Paired(w) /\ act[t].np \in Nodes /\ node[act[t].np].lck = Null
    BY <1>6 DEF NlockFound
  <2>2. /\ \A c \in Nodes : node'[c].vp = node[c].vp /\ node'[c].flags = node[c].flags
        /\ \A c \in Nodes : c # act[t].np => node'[c] = node[c]
        /\ UNCHANGED <<allocated, list, vnode>>
    BY <1>6, <2>1 DEF NlockFound
  <2>3. vnode[w].is = "locked" => vnode[w].np # act[t].np
    BY <2>1
  <2>4. vnode[w].is # "free" => vnode[w].np \in Nodes
    BY <2>1
  <2> HIDE DEF TypeOK, NodeType, VnodeType, ActType, Core, VnodeInv, MakingInv, ListInv,
       HeldNodeLive, UserInv, ReadInv, Making, MakingOK, Listed, NodeHeld, UserOK, ReadOK
  <2> QED
    BY <2>1, <2>2, <2>3, <2>4
<1>7. ASSUME NEW t \in Threads, NEW v \in Vnodes, CreateVnode(t, v) PROVE VnodeInv'
  <2> SUFFICES ASSUME NEW w \in Vnodes PROVE Paired(w)'
    BY DEF VnodeInv
  <2>1. Paired(w) /\ MakingOK(t)
    OBVIOUS
  <2>2. /\ act[t].np \in Nodes /\ act[t].np \in list /\ act[t].np \in allocated
        /\ node[act[t].np].vp = Null
    BY <1>7 DEF CreateVnode
  <2>3. /\ vnode'[v].is = "live" /\ vnode'[v].np = act[t].np
        /\ w # v => vnode'[w] = vnode[w]
        /\ node'[act[t].np].vp = v
        /\ \A c \in Nodes : c # act[t].np => node'[c] = node[c]
        /\ UNCHANGED <<allocated, list>>
    BY <1>7, <2>2 DEF CreateVnode
  <2>4. vnode[w].is # "free" => vnode[w].np \in Nodes /\ vnode[w].np # act[t].np
    BY <2>1, <2>2
  <2> HIDE DEF TypeOK, NodeType, VnodeType, ActType, Core, VnodeInv, MakingInv, ListInv,
       HeldNodeLive, UserInv, ReadInv, Making, MakingOK, Listed, NodeHeld, UserOK, ReadOK
  <2> QED
    BY <2>1, <2>2, <2>3, <2>4
<1>8. ASSUME NEW t \in Threads, Err1(t) PROVE VnodeInv'
  <2> SUFFICES ASSUME NEW w \in Vnodes PROVE Paired(w)'
    BY DEF VnodeInv
  <2>1. Paired(w)
    OBVIOUS
  <2>0. allocated \subseteq Nodes /\ list \subseteq allocated
    OBVIOUS
  <2> HIDE DEF TypeOK, NodeType, VnodeType, ActType, Core, VnodeInv, MakingInv, ListInv,
       HeldNodeLive, UserInv, ReadInv, Making, MakingOK, Listed, NodeHeld, UserOK, ReadOK
  <2>2. vnode' = vnode /\ list' = list \ {act[t].np} /\ allocated' = allocated \ {act[t].np}
    BY <1>8, Err1Effect
  <2>3. vnode[w].is # "free" => vnode[w].np # act[t].np
    BY <1>8, <2>1, <2>0, Err1Effect
  <2>4. vnode[w].is # "free" => node'[vnode[w].np] = node[vnode[w].np]
    BY <1>8, <2>1, <2>3, <2>0, Err1Effect
  <2> QED
    BY <2>1, <2>2, <2>3, <2>4
<1>9. ASSUME NEW t \in Threads, NodeReady(t) PROVE VnodeInv'
  BY <1>9 DEF NodeReady, WakeIf, WakeupAnd, Goto
<1>10. ASSUME NEW t \in Threads, LookupGot(t) PROVE VnodeInv'
  BY <1>10 DEF LookupGot, ReturnNode, Clunk, Goto, Act, NoAct, NOFID
<1>11. ASSUME NEW t \in Threads, VgetGot(t) PROVE VnodeInv'
  <2> SUFFICES ASSUME NEW w \in Vnodes PROVE Paired(w)'
    BY DEF VnodeInv
  <2>1. act[t].vp \in Vnodes /\ vnode[act[t].vp].is = "live" /\ act[t].np \in list /\ act[t].np \in Nodes
        /\ node[act[t].np].lck = t
    BY <1>11 DEF VgetGot
  <2>2. \A v \in Vnodes : /\ vnode'[v].is = vnode[v].is /\ vnode'[v].np = vnode[v].np
                          /\ v # act[t].vp => vnode'[v].iocount = vnode[v].iocount
    BY <1>11, <2>1 DEF VgetGot
  <2>3. \A b \in Nodes : /\ node'[b].vp = node[b].vp /\ node'[b].flags = node[b].flags
                         /\ b # act[t].np => node'[b].lck = node[b].lck
    BY <1>11, <2>1 DEF VgetGot, ReturnNode
  <2>4. UNCHANGED <<allocated, list>>
    BY <1>11 DEF VgetGot, ReturnNode
  <2>5. Paired(w)
    OBVIOUS
  <2>6. vnode[w].is = "locked" => vnode[w].np # act[t].np
    BY <2>1, <2>5
  <2>7. vnode[w].is # "free" => vnode[w].np \in Nodes
    BY <2>5
  <2> HIDE DEF TypeOK, NodeType, VnodeType, ActType, Core, VnodeInv, MakingInv, ListInv,
       HeldNodeLive, UserInv, ReadInv, Making, MakingOK, Listed, NodeHeld, UserOK, ReadOK
  <2> QED
    BY <2>1, <2>2, <2>3, <2>4, <2>5, <2>6, <2>7
<1>12. ASSUME NEW t \in Threads, PutVnode(t) PROVE VnodeInv'
  <2> SUFFICES ASSUME NEW w \in Vnodes PROVE Paired(w)'
    BY DEF VnodeInv
  <2>1. act[t].vp \in Vnodes /\ vnode[act[t].vp].is = "live"
    BY <1>12 DEF PutVnode
  <2>2. \A v \in Vnodes : /\ vnode'[v].is = vnode[v].is /\ vnode'[v].np = vnode[v].np
                          /\ v # act[t].vp => vnode'[v].iocount = vnode[v].iocount
    BY <1>12, <2>1 DEF PutVnode
  <2>3. UNCHANGED <<allocated, list, node>>
    BY <1>12 DEF PutVnode
  <2>5. Paired(w)
    OBVIOUS
  <2> HIDE DEF TypeOK, NodeType, VnodeType, ActType, Core, VnodeInv, MakingInv, ListInv,
       HeldNodeLive, UserInv, ReadInv, Making, MakingOK, Listed, NodeHeld, UserOK, ReadOK
  <2> QED
    BY <2>1, <2>2, <2>3, <2>5
<1>13. ASSUME NEW v \in Vnodes, Terminate(v) PROVE VnodeInv'
  BY <1>13 DEF Terminate, VnodeGoes
<1>14. ASSUME NEW v \in Vnodes, ReclaimLock(v) PROVE VnodeInv'
  <2> SUFFICES ASSUME NEW w \in Vnodes PROVE Paired(w)'
    BY DEF VnodeInv
  <2>1. Paired(w) /\ Paired(v)
    OBVIOUS
  <2>0. allocated \subseteq Nodes /\ list \subseteq allocated
    OBVIOUS
  <2> HIDE DEF TypeOK, NodeType, VnodeType, ActType, Core, VnodeInv, MakingInv, ListInv,
       HeldNodeLive, UserInv, ReadInv, Making, MakingOK, Listed, NodeHeld, UserOK, ReadOK
  <2>2. /\ vnode[v].is = "terminating" /\ vnode'[v].is = "locked" /\ vnode'[v].np = vnode[v].np
        /\ vnode'[v].iocount = vnode[v].iocount
        /\ node'[vnode[v].np].lck = v /\ node'[vnode[v].np].flags = node[vnode[v].np].flags \cup {"RECL"}
        /\ node'[vnode[v].np].vp = v /\ "INIT" \notin node[vnode[v].np].flags
        /\ UNCHANGED <<allocated, list>>
    BY <1>14, ReclaimLockEffect
  <2>3. w # v => vnode'[w] = vnode[w] /\ (vnode[w].is # "free" => node'[vnode[w].np] = node[vnode[w].np])
    BY <1>14, <2>0, <2>1, ReclaimLockEffect
  <2> QED
    BY <2>1, <2>2, <2>3
<1>15. ASSUME NEW v \in Vnodes, ReclaimDel(v) PROVE VnodeInv'
  BY <1>15 DEF ReclaimDel, VnodeGoes
<1>16. ASSUME NEW v \in Vnodes, ReclaimClunk(v) PROVE VnodeInv'
  BY <1>16 DEF ReclaimClunk, Clunk, VnodeGoes
<1>17. ASSUME NEW v \in Vnodes, ReclaimFree(v) PROVE VnodeInv'
  <2> SUFFICES ASSUME NEW w \in Vnodes PROVE Paired(w)'
    BY DEF VnodeInv
  <2>1. Paired(w) /\ Paired(v)
    OBVIOUS
  <2>0. allocated \subseteq Nodes /\ list \subseteq allocated
    OBVIOUS
  <2> HIDE DEF TypeOK, NodeType, VnodeType, ActType, Core, VnodeInv, MakingInv, ListInv,
       HeldNodeLive, UserInv, ReadInv, Making, MakingOK, Listed, NodeHeld, UserOK, ReadOK
  <2>2. /\ vnode'[v].is = "free" /\ vnode'[v].iocount = 0 /\ node[vnode[v].np].vp = v
        /\ list' = list /\ allocated' = allocated \ {vnode[v].np}
    BY <1>17, ReclaimFreeEffect
  <2>3. w # v => vnode'[w] = vnode[w]
    BY <1>17, ReclaimFreeEffect
  <2>4. w # v /\ vnode[w].is # "free" => vnode[w].np # vnode[v].np /\ node'[vnode[w].np] = node[vnode[w].np]
    BY <1>17, <2>0, <2>1, <2>2, ReclaimFreeEffect
  <2> QED
    BY <2>1, <2>2, <2>3, <2>4
<1>18. ASSUME NEW t \in Threads,
           \/ (\E d \in Dirs, f \in Files : BeginLookup(t, d, f))
           \/ (\E f \in Files : BeginVget(t, f))
           \/ Walk(t)
           \/ WalkFails(t)
           \/ (\E b \in Nodes : ReadVid(t, b))
           \/ ReloadVp(t)
           \/ GetVnodeFails(t)
           \/ VgetAbsent(t)
           \/ NoMemory(t)
           \/ Ngetdir(t)
           \/ CreateVnodeFails(t)
           \/ LookupFailed(t)
    PROVE  VnodeInv'
  <2>1. UNCHANGED <<allocated, list, node, vnode>>
    BY <1>18 DEF BeginLookup, BeginVget, Walk, WalkFails, ReadVid, ReloadVp, GetVnodeFails,
         VgetAbsent, NoMemory, Ngetdir, CreateVnodeFails, LookupFailed, Clunk
  <2> HIDE DEF TypeOK, NodeType, VnodeType, ActType, Core, MakingInv, ListInv, HeldNodeLive, UserInv,
       ReadInv, Making, Paired, MakingOK, Listed, NodeHeld, UserOK, ReadOK
  <2> QED
    BY <2>1 DEF Core, VnodeInv, Paired
<1>19. ASSUME
           \/ BeginUnmount
           \/ UnmountBusy
    PROVE  VnodeInv'
  <2>1. UNCHANGED <<allocated, list, node, vnode>>
    BY <1>19 DEF BeginUnmount, UnmountBusy
  <2> HIDE DEF TypeOK, NodeType, VnodeType, ActType, Core, MakingInv, ListInv, HeldNodeLive, UserInv,
       ReadInv, Making, Paired, MakingOK, Listed, NodeHeld, UserOK, ReadOK
  <2> QED
    BY <2>1 DEF Core, VnodeInv, Paired
<1> QED
  BY <1>1, <1>2, <1>3, <1>4, <1>5, <1>6, <1>7, <1>8, <1>9, <1>10, <1>11, <1>12, <1>13, <1>14, <1>15,
       <1>16, <1>17, <1>18, <1>19 DEF Next, Begin, Thread, Nget, Reclaim

(* A thread's unlocked reads of np stay true or become recognisably        *)
(* old.                                                                    *)
LEMMA ReadStep ==
    ASSUME TypeOK, Core, Next, ~broken, ~broken'
    PROVE  ReadInv'
<1> SUFFICES ASSUME NEW s \in Threads PROVE ReadOK(s)'
  BY DEF ReadInv
<1>types. /\ list \subseteq allocated /\ allocated \subseteq Nodes
          /\ node \in [Nodes -> NodeType] /\ vnode \in [Vnodes -> VnodeType]
          /\ at \in [Threads -> Places] /\ act \in [Threads -> ActType]
  BY DEF TypeOK
<1>old. ReadOK(s)
  BY DEF Core, ReadInv
<1> USE <1>types, <1>old DEF NodeType, VnodeType, ActType, ReadOK, Making
<1>1. ASSUME NEW t \in Threads, NEW d \in Dirs, NEW f \in Files, BeginLookup(t, d, f) PROVE ReadOK(s)'
  BY <1>1 DEF BeginLookup, Goto, Act, NoAct, NOFID
<1>2. ASSUME NEW t \in Threads, NEW v \in Vnodes, LookupCached(t, v) PROVE ReadOK(s)'
  BY <1>2 DEF LookupCached, Goto, Act, NoAct, NOFID
<1>3. ASSUME NEW t \in Threads, NEW f \in Files, BeginVget(t, f) PROVE ReadOK(s)'
  BY <1>3 DEF BeginVget, Goto, Act, NoAct, NOFID
<1>4. ASSUME NEW t \in Threads, Walk(t) PROVE ReadOK(s)'
  BY <1>4 DEF Walk, Goto
<1>5. ASSUME NEW t \in Threads, WalkFails(t) PROVE ReadOK(s)'
  BY <1>5 DEF WalkFails, Goto, Act, NoAct, NOFID
<1>6. ASSUME NEW t \in Threads, NEW b \in Nodes, SleepOnInit(t, b) PROVE ReadOK(s)'
  BY <1>6 DEF SleepOnInit, SleepOnNode, Goto, Searches, Found
<1>7. ASSUME NEW t \in Threads, NEW b \in Nodes, SleepOnRecl(t, b) PROVE ReadOK(s)'
  BY <1>7 DEF SleepOnRecl, SleepOnNode, Goto, Searches, Found
<1>8. ASSUME NEW t \in Threads, NEW b \in Nodes, ReadVid(t, b) PROVE ReadOK(s)'
  <2>1. b \in list /\ Listed(b)
    BY <1>8 DEF ReadVid, Searches, Found, Core, ListInv
  <2> QED
    BY <1>8, <2>1 DEF ReadVid, Goto, Searches, Found, Listed
<1>9. ASSUME NEW t \in Threads, NEW b \in Nodes, InsertNode(t, b) PROVE ReadOK(s)'
  <2>1. b \in Nodes \ allocated /\ \A v \in Vnodes : Paired(v)
    BY <1>9 DEF InsertNode, Absent, Core, VnodeInv
  <2> QED
    BY <1>9, <2>1 DEF InsertNode, Goto, Absent, Searches, Found, Paired
<1>10. ASSUME NEW t \in Threads, ReloadVp(t) PROVE ReadOK(s)'
  BY <1>10, SMTT(30) DEF ReloadVp, Goto
<1>11. ASSUME NEW t \in Threads, GetVnode(t) PROVE ReadOK(s)'
  BY <1>11 DEF GetVnode, Goto, VidCurrent
<1>12. ASSUME NEW t \in Threads, GetVnodeFails(t) PROVE ReadOK(s)'
  BY <1>12 DEF GetVnodeFails, Goto, VidCurrent
<1>13. ASSUME NEW t \in Threads, NlockFound(t) PROVE ReadOK(s)'
  BY <1>13 DEF NlockFound, Goto
<1>14. ASSUME NEW t \in Threads, VgetAbsent(t) PROVE ReadOK(s)'
  BY <1>14 DEF VgetAbsent, Goto, Absent, Searches, Found
<1>15. ASSUME NEW t \in Threads, NoMemory(t) PROVE ReadOK(s)'
  BY <1>15 DEF NoMemory, Goto, Absent, Searches, Found
<1>16. ASSUME NEW t \in Threads, Ngetdir(t) PROVE ReadOK(s)'
  BY <1>16 DEF Ngetdir, Goto
<1>17. ASSUME NEW t \in Threads, NEW v \in Vnodes, CreateVnode(t, v) PROVE ReadOK(s)'
  <2>1. act[t].np \in Nodes /\ node[act[t].np].vp = Null
    BY <1>17 DEF CreateVnode, Core, MakingInv, MakingOK
  <2> QED
    BY <1>17, <2>1 DEF CreateVnode, Goto
<1>18. ASSUME NEW t \in Threads, CreateVnodeFails(t) PROVE ReadOK(s)'
  BY <1>18 DEF CreateVnodeFails, Goto
<1>19. ASSUME NEW t \in Threads, Err1(t) PROVE ReadOK(s)'
  BY <1>19, Err1Effect
<1>20. ASSUME NEW t \in Threads, NodeReady(t) PROVE ReadOK(s)'
  <2>1. \A c \in Nodes : node'[c].file = node[c].file /\ node'[c].vp = node[c].vp
    BY <1>20, NodeReadyEffect
  <2>2. at'[s] \in {"reload", "getvnode"} => at'[s] = at[s] /\ act'[s].np = act[s].np
           /\ act'[s].vp = act[s].vp /\ act'[s].vid = act[s].vid
           /\ act'[s].file = act[s].file /\ (~act'[s].stale => ~act[s].stale)
    BY <1>20, NodeReadyEffect
  <2>3. at'[s] = "asleep" => at[s] = "asleep" /\ act'[s].np = act[s].np
    BY <1>20, NodeReadyEffect
  <2>4. vnode' = vnode
    BY <1>20, NodeReadyEffect
  <2>5. ReadOK(s)
    OBVIOUS
  <2> HIDE DEF TypeOK, NodeType, VnodeType, ActType, Core, ReadInv, ListInv, VnodeInv, MakingInv,
       Making, Listed, Paired, MakingOK
  <2> QED
    BY <2>1, <2>2, <2>3, <2>4, <2>5
<1>21. ASSUME NEW t \in Threads, LookupFailed(t) PROVE ReadOK(s)'
  BY <1>21 DEF LookupFailed, Clunk, Goto, Act, NoAct, NOFID
<1>22. ASSUME NEW t \in Threads, LookupGot(t) PROVE ReadOK(s)'
  BY <1>22 DEF LookupGot, ReturnNode, Clunk, Goto, Act, NoAct, NOFID
<1>23. ASSUME NEW t \in Threads, VgetGot(t) PROVE ReadOK(s)'
  <2>1. act[t].np \in Nodes /\ act[t].vp \in Vnodes
    BY <1>23 DEF VgetGot, Core, HeldNodeLive, NodeHeld, UserInv, UserOK
  <2> QED
    BY <1>23, GotEffect
<1>24. ASSUME NEW t \in Threads, PutVnode(t) PROVE ReadOK(s)'
  BY <1>24 DEF PutVnode, Goto, Act, NoAct, NOFID
<1>25. ASSUME NEW v \in Vnodes, Terminate(v) PROVE ReadOK(s)'
  BY <1>25 DEF Terminate, VnodeGoes
<1>26. ASSUME NEW v \in Vnodes, ReclaimLock(v) PROVE ReadOK(s)'
  <2>1. \A c \in Nodes : node'[c].file = node[c].file /\ node'[c].vp = node[c].vp
    BY <1>26, ReclaimLockEffect
  <2>2. at'[s] \in {"reload", "getvnode"} => at'[s] = at[s] /\ act'[s].np = act[s].np
           /\ act'[s].vp = act[s].vp /\ act'[s].vid = act[s].vid
           /\ act'[s].file = act[s].file /\ (~act'[s].stale => ~act[s].stale)
    BY <1>26, ReclaimLockEffect
  <2>3. at'[s] = "asleep" => at[s] = "asleep" /\ act'[s].np = act[s].np
    BY <1>26, ReclaimLockEffect
  <2>4. \A w \in Vnodes : /\ vnode'[w].np = vnode[w].np /\ vnode'[w].vid = vnode[w].vid
                          /\ vnode[w].is # "free" => vnode'[w].is # "free"
    <3> SUFFICES ASSUME NEW w \in Vnodes
                 PROVE  vnode'[w].np = vnode[w].np /\ vnode'[w].vid = vnode[w].vid
                        /\ (vnode[w].is # "free" => vnode'[w].is # "free")
      OBVIOUS
    <3>1. w = v => vnode'[w].is = "locked" /\ vnode'[w].np = vnode[w].np /\ vnode'[w].vid = vnode[w].vid
      BY <1>26, ReclaimLockEffect
    <3>2. w # v => vnode'[w] = vnode[w]
      BY <1>26, ReclaimLockEffect
    <3> QED
      BY <3>1, <3>2
  <2>5. ReadOK(s)
    OBVIOUS
  <2> HIDE DEF TypeOK, NodeType, VnodeType, ActType, Core, ReadInv, ListInv, VnodeInv, MakingInv,
       Making, Listed, Paired, MakingOK
  <2> QED
    BY <2>1, <2>2, <2>3, <2>4, <2>5
<1>27. ASSUME NEW v \in Vnodes, ReclaimDel(v) PROVE ReadOK(s)'
  BY <1>27 DEF ReclaimDel, VnodeGoes
<1>28. ASSUME NEW v \in Vnodes, ReclaimClunk(v) PROVE ReadOK(s)'
  BY <1>28 DEF ReclaimClunk, Clunk, VnodeGoes
<1>29. ASSUME NEW v \in Vnodes, ReclaimFree(v) PROVE ReadOK(s)'
  <2>1. \A c \in Nodes : node'[c].file = node[c].file /\ node'[c].vp = node[c].vp
    BY <1>29, ReclaimFreeEffect
  <2>2. at'[s] \in {"reload", "getvnode"} => at'[s] = at[s] /\ act'[s].np = act[s].np
           /\ act'[s].vp = act[s].vp /\ act'[s].vid = act[s].vid
           /\ act'[s].file = act[s].file /\ (~act'[s].stale => ~act[s].stale)
    BY <1>29, ReclaimFreeEffect
  <2>3. at'[s] = "asleep" => at[s] = "asleep" /\ act'[s].np = act[s].np
    BY <1>29, ReclaimFreeEffect
  <2>4. ASSUME at'[s] = "reload", ~act'[s].stale PROVE ReadOK(s)'
    <3>1. at[s] = "reload" /\ ~act[s].stale /\ act[s].np # vnode[v].np
      BY <1>29, <2>4, ReclaimFreeEffect
    <3> DEFINE w == node[act[s].np].vp
    <3>2. w \in Vnodes /\ w # v /\ act[s].np \in Nodes
      BY <3>1
    <3>3. vnode'[w] = vnode[w]
      BY <1>29, <3>2, ReclaimFreeEffect
    <3>4. ReadOK(s)
      OBVIOUS
    <3> HIDE DEF TypeOK, NodeType, VnodeType, ActType, Core, ReadInv, ListInv, VnodeInv, MakingInv,
         Making, Listed, Paired, MakingOK
    <3> QED
      BY <3>4, <2>1, <2>2, <2>4, <3>1, <3>2, <3>3
  <2>5. ASSUME at'[s] = "getvnode", ~act'[s].stale PROVE ReadOK(s)'
    <3>1. at[s] = "getvnode" /\ ~act[s].stale /\ act[s].vp \in Vnodes /\ act[s].np \in Nodes
      BY <1>29, <2>2, <2>5
    <3>2. CASE act[s].vp = v
      <4>1. vnode'[v].vid = vnode[v].vid + 1 /\ act[s].vid <= vnode[v].vid
            /\ act[s].vid \in Nat /\ vnode[v].vid \in Nat
        BY <1>29, <3>1, <3>2, ReclaimFreeEffect
      <4> QED
        BY <2>2, <2>5, <3>1, <3>2, <4>1
    <3>3. CASE act[s].vp # v
      <4>1. vnode'[act[s].vp] = vnode[act[s].vp]
        BY <1>29, <3>1, <3>3, ReclaimFreeEffect
      <4>2. ReadOK(s)
        OBVIOUS
      <4> HIDE DEF TypeOK, NodeType, VnodeType, ActType, Core, ReadInv, ListInv, VnodeInv, MakingInv,
           Making, Listed, Paired, MakingOK
      <4> QED
        BY <4>2, <2>1, <2>2, <2>5, <3>1, <3>3, <4>1
    <3> QED
      BY <3>2, <3>3
  <2> QED
    BY <2>2, <2>3, <2>4, <2>5
<1>30. ASSUME
           \/ BeginUnmount
           \/ UnmountBusy
    PROVE  ReadOK(s)'
  <2>1. UNCHANGED <<act, at, node, vnode>>
    BY <1>30 DEF BeginUnmount, UnmountBusy
  <2> HIDE DEF TypeOK, NodeType, VnodeType, ActType, Core, ListInv, VnodeInv, MakingInv, Making,
       ReadOK, Listed, Paired, MakingOK
  <2> QED
    BY <2>1 DEF Core, ReadInv, ReadOK
<1> QED
  BY <1>1, <1>2, <1>3, <1>4, <1>5, <1>6, <1>7, <1>8, <1>9, <1>10, <1>11, <1>12, <1>13, <1>14, <1>15,
       <1>16, <1>17, <1>18, <1>19, <1>20, <1>21, <1>22, <1>23, <1>24, <1>25, <1>26, <1>27, <1>28,
       <1>29, <1>30 DEF Next, Begin, Thread, Nget, Reclaim

(* Whoever has an iocount has a vnode; whoever got the node, its lock.     *)
LEMMA UserStep ==
    ASSUME TypeOK, Core, Next, ~broken, ~broken'
    PROVE  UserInv'
<1> SUFFICES ASSUME NEW s \in Threads PROVE UserOK(s)'
  BY DEF UserInv
<1>types. /\ list \subseteq allocated /\ allocated \subseteq Nodes
          /\ node \in [Nodes -> NodeType] /\ vnode \in [Vnodes -> VnodeType]
          /\ at \in [Threads -> Places] /\ act \in [Threads -> ActType]
  BY DEF TypeOK
<1>old. UserOK(s) /\ NodeHeld(s) /\ ReadOK(s) /\ MakingOK(s)
  BY DEF Core, HeldNodeLive, UserInv, ReadInv, MakingInv
<1> USE <1>types, <1>old DEF NodeType, VnodeType, ActType, NodeHeld, UserOK, ReadOK, MakingOK, Making
<1>1. ASSUME NEW t \in Threads, NEW d \in Dirs, NEW f \in Files, BeginLookup(t, d, f) PROVE UserOK(s)'
  BY <1>1 DEF BeginLookup, Goto, Act, NoAct, NOFID
<1>2. ASSUME NEW t \in Threads, NEW v \in Vnodes, LookupCached(t, v) PROVE UserOK(s)'
  BY <1>2 DEF LookupCached, Goto, Act, NoAct, NOFID
<1>3. ASSUME NEW t \in Threads, NEW f \in Files, BeginVget(t, f) PROVE UserOK(s)'
  BY <1>3 DEF BeginVget, Goto, Act, NoAct, NOFID
<1>4. ASSUME NEW t \in Threads, Walk(t) PROVE UserOK(s)'
  BY <1>4 DEF Walk, Goto
<1>5. ASSUME NEW t \in Threads, WalkFails(t) PROVE UserOK(s)'
  BY <1>5 DEF WalkFails, Goto, Act, NoAct, NOFID
<1>6. ASSUME NEW t \in Threads, NEW b \in Nodes, SleepOnInit(t, b) PROVE UserOK(s)'
  BY <1>6 DEF SleepOnInit, SleepOnNode, Goto, Searches, Found
<1>7. ASSUME NEW t \in Threads, NEW b \in Nodes, SleepOnRecl(t, b) PROVE UserOK(s)'
  BY <1>7 DEF SleepOnRecl, SleepOnNode, Goto, Searches, Found
<1>8. ASSUME NEW t \in Threads, NEW b \in Nodes, ReadVid(t, b) PROVE UserOK(s)'
  BY <1>8 DEF ReadVid, Goto, Searches, Found
<1>9. ASSUME NEW t \in Threads, NEW b \in Nodes, InsertNode(t, b) PROVE UserOK(s)'
  BY <1>9 DEF InsertNode, Goto, Absent, Searches, Found
<1>10. ASSUME NEW t \in Threads, ReloadVp(t) PROVE UserOK(s)'
  BY <1>10 DEF ReloadVp, Goto
<1>11. ASSUME NEW t \in Threads, GetVnode(t) PROVE UserOK(s)'
  BY <1>11 DEF GetVnode, Goto, VidCurrent
<1>12. ASSUME NEW t \in Threads, GetVnodeFails(t) PROVE UserOK(s)'
  BY <1>12 DEF GetVnodeFails, Goto, VidCurrent
<1>13. ASSUME NEW t \in Threads, NlockFound(t) PROVE UserOK(s)'
  BY <1>13 DEF NlockFound, Goto
<1>14. ASSUME NEW t \in Threads, VgetAbsent(t) PROVE UserOK(s)'
  BY <1>14 DEF VgetAbsent, Goto, Absent, Searches, Found
<1>15. ASSUME NEW t \in Threads, NoMemory(t) PROVE UserOK(s)'
  BY <1>15 DEF NoMemory, Goto, Absent, Searches, Found
<1>16. ASSUME NEW t \in Threads, Ngetdir(t) PROVE UserOK(s)'
  BY <1>16 DEF Ngetdir, Goto
<1>17. ASSUME NEW t \in Threads, NEW v \in Vnodes, CreateVnode(t, v) PROVE UserOK(s)'
  BY <1>17 DEF CreateVnode, Goto
<1>18. ASSUME NEW t \in Threads, CreateVnodeFails(t) PROVE UserOK(s)'
  BY <1>18 DEF CreateVnodeFails, Goto
<1>19. ASSUME NEW t \in Threads, Err1(t) PROVE UserOK(s)'
  <2>1. at'[s] \in {"nlock", "got", "ready", "hold"} =>
          /\ at[s] = at'[s] /\ act'[s].np = act[s].np /\ act'[s].vp = act[s].vp
    BY <1>19, Err1Effect
  <2>2. UserOK(s) /\ NodeHeld(s)
    BY DEF HeldNodeLive
  <2>3. at'[s] = "got" => act[s].np # act[t].np /\ act[s].np \in Nodes
    BY <1>19, <2>1, <2>2, Err1Effect
  <2>4. at'[s] = "got" => node'[act[s].np] = node[act[s].np]
    BY <1>19, <2>3, Err1Effect
  <2> QED
    BY <2>1, <2>2, <2>3, <2>4
<1>20. ASSUME NEW t \in Threads, NodeReady(t) PROVE UserOK(s)'
  BY <1>20, NodeReadyEffect
<1>21. ASSUME NEW t \in Threads, LookupFailed(t) PROVE UserOK(s)'
  BY <1>21 DEF LookupFailed, Clunk, Goto, Act, NoAct, NOFID
<1>22. ASSUME NEW t \in Threads, LookupGot(t) PROVE UserOK(s)'
  <2>1. act[t].np \in Nodes /\ act[t].vp \in Vnodes /\ NodeHeld(t) /\ UserOK(t)
    BY <1>22 DEF LookupGot, Core, HeldNodeLive, UserInv
  <2> QED
    BY <1>22, <2>1 DEF LookupGot, ReturnNode, Clunk, Goto, Act, NoAct, NOFID
<1>23. ASSUME NEW t \in Threads, VgetGot(t) PROVE UserOK(s)'
  <2>1. act[t].np \in Nodes /\ act[t].vp \in Vnodes /\ NodeHeld(t) /\ UserOK(t)
    BY <1>23 DEF VgetGot, Core, HeldNodeLive, UserInv
  <2> QED
    BY <1>23, <2>1 DEF VgetGot, ReturnNode, Goto, Act, NoAct, NOFID
<1>24. ASSUME NEW t \in Threads, PutVnode(t) PROVE UserOK(s)'
  BY <1>24 DEF PutVnode, Goto, Act, NoAct, NOFID
<1>25. ASSUME NEW v \in Vnodes, ReclaimLock(v) PROVE UserOK(s)'
  BY <1>25, ReclaimLockEffect
<1>26. ASSUME NEW v \in Vnodes, ReclaimDel(v) PROVE UserOK(s)'
  <2>1. Paired(v)
    BY <1>26 DEF Core, VnodeInv
  <2> QED
    BY <1>26, <2>1 DEF ReclaimDel, VnodeGoes, Paired
<1>27. ASSUME NEW v \in Vnodes, ReclaimFree(v) PROVE UserOK(s)'
  BY <1>27, ReclaimFreeEffect
<1>28. ASSUME NEW v \in Vnodes,
           \/ Terminate(v)
           \/ ReclaimClunk(v)
    PROVE  UserOK(s)'
  <2>1. UNCHANGED <<act, at, node>>
    BY <1>28 DEF Terminate, VnodeGoes, ReclaimClunk, Clunk
  <2> HIDE DEF TypeOK, NodeType, VnodeType, ActType, Core, HeldNodeLive, MakingInv, VnodeInv,
       ReadInv, Making, UserOK, NodeHeld, MakingOK, Paired, ReadOK
  <2> QED
    BY <2>1 DEF Core, UserInv, UserOK
<1>29. ASSUME
           \/ BeginUnmount
           \/ UnmountBusy
    PROVE  UserOK(s)'
  <2>1. UNCHANGED <<act, at, node>>
    BY <1>29 DEF BeginUnmount, UnmountBusy
  <2> HIDE DEF TypeOK, NodeType, VnodeType, ActType, Core, HeldNodeLive, MakingInv, VnodeInv,
       ReadInv, Making, UserOK, NodeHeld, MakingOK, Paired, ReadOK
  <2> QED
    BY <2>1 DEF Core, UserInv, UserOK
<1> QED
  BY <1>1, <1>2, <1>3, <1>4, <1>5, <1>6, <1>7, <1>8, <1>9, <1>10, <1>11, <1>12, <1>13, <1>14, <1>15,
       <1>16, <1>17, <1>18, <1>19, <1>20, <1>21, <1>22, <1>23, <1>24, <1>25, <1>26, <1>27, <1>28,
       <1>29 DEF Next, Begin, Thread, Nget, Reclaim

(* No step lists a second node of a file.                                  *)
LEMMA OneStep ==
    ASSUME TypeOK, Core, Next, ~broken, ~broken'
    PROVE  OneNode'
<1> USE DEF TypeOK, NodeType, VnodeType, ActType, Core, OneNode, Making
<1>1. ASSUME NEW t \in Threads, NEW b \in Nodes, SleepOnInit(t, b) PROVE OneNode'
  BY <1>1 DEF SleepOnInit, SleepOnNode, Goto, Searches, Found
<1>2. ASSUME NEW t \in Threads, NEW b \in Nodes, SleepOnRecl(t, b) PROVE OneNode'
  BY <1>2 DEF SleepOnRecl, SleepOnNode, Goto, Searches, Found
<1>3. ASSUME NEW t \in Threads, NEW b \in Nodes, InsertNode(t, b) PROVE OneNode'
  BY <1>3 DEF InsertNode, Goto, Absent, Searches, Found
<1>4. ASSUME NEW t \in Threads, NlockFound(t) PROVE OneNode'
  BY <1>4 DEF NlockFound, Goto
<1>5. ASSUME NEW t \in Threads, NEW v \in Vnodes, CreateVnode(t, v) PROVE OneNode'
  BY <1>5 DEF CreateVnode, Goto
<1>6. ASSUME NEW t \in Threads, Err1(t) PROVE OneNode'
  BY <1>6 DEF Err1, WakeIf, WakeupAnd, Free, Goto
<1>7. ASSUME NEW t \in Threads, NodeReady(t) PROVE OneNode'
  BY <1>7 DEF NodeReady, WakeIf, WakeupAnd, Goto
<1>8. ASSUME NEW t \in Threads, LookupGot(t) PROVE OneNode'
  BY <1>8 DEF LookupGot, ReturnNode, Clunk, Goto, Act, NoAct, NOFID
<1>9. ASSUME NEW t \in Threads, VgetGot(t) PROVE OneNode'
  BY <1>9 DEF VgetGot, ReturnNode, Goto, Act, NoAct, NOFID
<1>10. ASSUME NEW v \in Vnodes, ReclaimLock(v) PROVE OneNode'
  BY <1>10 DEF ReclaimLock, VnodeGoes
<1>11. ASSUME NEW v \in Vnodes, ReclaimDel(v) PROVE OneNode'
  BY <1>11 DEF ReclaimDel, VnodeGoes
<1>12. ASSUME NEW v \in Vnodes, ReclaimFree(v) PROVE OneNode'
  BY <1>12 DEF ReclaimFree, WakeIf, WakeupAnd, Free, Goto
<1>13. ASSUME NEW t \in Threads,
           \/ (\E d \in Dirs, f \in Files : BeginLookup(t, d, f))
           \/ (\E v \in Vnodes : LookupCached(t, v))
           \/ (\E f \in Files : BeginVget(t, f))
           \/ Walk(t)
           \/ WalkFails(t)
           \/ (\E b \in Nodes : ReadVid(t, b))
           \/ ReloadVp(t)
           \/ GetVnode(t)
           \/ GetVnodeFails(t)
           \/ VgetAbsent(t)
           \/ NoMemory(t)
           \/ Ngetdir(t)
           \/ CreateVnodeFails(t)
           \/ LookupFailed(t)
           \/ PutVnode(t)
    PROVE  OneNode'
  <2>1. UNCHANGED <<list, node>>
    BY <1>13 DEF BeginLookup, LookupCached, BeginVget, Walk, WalkFails, ReadVid, ReloadVp, GetVnode,
         GetVnodeFails, VgetAbsent, NoMemory, Ngetdir, CreateVnodeFails, LookupFailed, Clunk, PutVnode
  <2> HIDE DEF TypeOK, NodeType, VnodeType, ActType, Core, Making
  <2> QED
    BY <2>1 DEF Core, OneNode
<1>14. ASSUME NEW v \in Vnodes,
           \/ Terminate(v)
           \/ ReclaimClunk(v)
    PROVE  OneNode'
  <2>1. UNCHANGED <<list, node>>
    BY <1>14 DEF Terminate, VnodeGoes, ReclaimClunk, Clunk
  <2> HIDE DEF TypeOK, NodeType, VnodeType, ActType, Core, Making
  <2> QED
    BY <2>1 DEF Core, OneNode
<1>15. ASSUME
           \/ BeginUnmount
           \/ UnmountBusy
    PROVE  OneNode'
  <2>1. UNCHANGED <<list, node>>
    BY <1>15 DEF BeginUnmount, UnmountBusy
  <2> HIDE DEF TypeOK, NodeType, VnodeType, ActType, Core, Making
  <2> QED
    BY <2>1 DEF Core, OneNode
<1> QED
  BY <1>1, <1>2, <1>3, <1>4, <1>5, <1>6, <1>7, <1>8, <1>9, <1>10, <1>11, <1>12, <1>13, <1>14,
       <1>15 DEF Next, Begin, Thread, Nget, Reclaim

(* No step takes a node from a thread that has an iocount for it.          *)
LEMMA HeldStep ==
    ASSUME TypeOK, Core, Next, ~broken, ~broken'
    PROVE  HeldNodeLive'
<1> SUFFICES ASSUME NEW s \in Threads PROVE NodeHeld(s)'
  BY DEF HeldNodeLive
<1>types. /\ list \subseteq allocated /\ allocated \subseteq Nodes
          /\ node \in [Nodes -> NodeType] /\ vnode \in [Vnodes -> VnodeType]
          /\ at \in [Threads -> Places] /\ act \in [Threads -> ActType]
  BY DEF TypeOK
<1>old. NodeHeld(s) /\ UserOK(s) /\ ReadOK(s) /\ MakingOK(s)
  BY DEF Core, HeldNodeLive, UserInv, ReadInv, MakingInv
<1> USE <1>types, <1>old DEF NodeType, VnodeType, ActType, NodeHeld, UserOK, ReadOK, MakingOK, Making
<1>1. ASSUME NEW t \in Threads, NEW d \in Dirs, NEW f \in Files, BeginLookup(t, d,
     f) PROVE NodeHeld(s)'
  BY <1>1 DEF BeginLookup, Goto, Act, NoAct, NOFID
<1>2. ASSUME NEW t \in Threads, NEW v \in Vnodes, LookupCached(t, v) PROVE NodeHeld(s)'
  BY <1>2 DEF LookupCached, Goto, Act, NoAct, NOFID
<1>3. ASSUME NEW t \in Threads, NEW f \in Files, BeginVget(t, f) PROVE NodeHeld(s)'
  BY <1>3 DEF BeginVget, Goto, Act, NoAct, NOFID
<1>4. ASSUME NEW t \in Threads, Walk(t) PROVE NodeHeld(s)'
  BY <1>4 DEF Walk, Goto
<1>5. ASSUME NEW t \in Threads, WalkFails(t) PROVE NodeHeld(s)'
  BY <1>5 DEF WalkFails, Goto, Act, NoAct, NOFID
<1>6. ASSUME NEW t \in Threads, NEW b \in Nodes, SleepOnInit(t, b) PROVE NodeHeld(s)'
  BY <1>6 DEF SleepOnInit, SleepOnNode, Goto, Searches, Found
<1>7. ASSUME NEW t \in Threads, NEW b \in Nodes, SleepOnRecl(t, b) PROVE NodeHeld(s)'
  BY <1>7 DEF SleepOnRecl, SleepOnNode, Goto, Searches, Found
<1>8. ASSUME NEW t \in Threads, NEW b \in Nodes, ReadVid(t, b) PROVE NodeHeld(s)'
  BY <1>8 DEF ReadVid, Goto, Searches, Found
<1>9. ASSUME NEW t \in Threads, NEW b \in Nodes, InsertNode(t, b) PROVE NodeHeld(s)'
  <2>1. b \in Nodes \ allocated /\ \A v \in Vnodes : Paired(v)
    BY <1>9 DEF InsertNode, Absent, Core, VnodeInv
  <2> QED
    BY <1>9, <2>1 DEF InsertNode, Goto, Absent, Searches, Found, Paired
<1>10. ASSUME NEW t \in Threads, ReloadVp(t) PROVE NodeHeld(s)'
  BY <1>10 DEF ReloadVp, Goto
<1>11. ASSUME NEW t \in Threads, GetVnode(t) PROVE NodeHeld(s)'
  <2>1. act[t].vp \in Vnodes /\ ReadOK(t) /\ Paired(act[t].vp)
    BY <1>11 DEF GetVnode, Core, ReadInv, VnodeInv
  <2> QED
    BY <1>11, <2>1 DEF GetVnode, Goto, VidCurrent, Paired
<1>12. ASSUME NEW t \in Threads, GetVnodeFails(t) PROVE NodeHeld(s)'
  BY <1>12 DEF GetVnodeFails, Goto, VidCurrent
<1>13. ASSUME NEW t \in Threads, NlockFound(t) PROVE NodeHeld(s)'
  BY <1>13 DEF NlockFound, Goto
<1>14. ASSUME NEW t \in Threads, VgetAbsent(t) PROVE NodeHeld(s)'
  BY <1>14 DEF VgetAbsent, Goto, Absent, Searches, Found
<1>15. ASSUME NEW t \in Threads, NoMemory(t) PROVE NodeHeld(s)'
  BY <1>15 DEF NoMemory, Goto, Absent, Searches, Found
<1>16. ASSUME NEW t \in Threads, Ngetdir(t) PROVE NodeHeld(s)'
  BY <1>16 DEF Ngetdir, Goto
<1>17. ASSUME NEW t \in Threads, NEW v \in Vnodes, CreateVnode(t, v) PROVE NodeHeld(s)'
  <2>1. MakingOK(t) /\ act[t].np \in Nodes /\ act[t].np \in list /\ node[act[t].np].vp = Null
    BY <1>17 DEF CreateVnode, Core, MakingInv
  <2> QED
    BY <1>17, <2>1 DEF CreateVnode, Goto
<1>18. ASSUME NEW t \in Threads, CreateVnodeFails(t) PROVE NodeHeld(s)'
  BY <1>18 DEF CreateVnodeFails, Goto
<1>19. ASSUME NEW t \in Threads, Err1(t) PROVE NodeHeld(s)'
  <2>1. \A c \in Nodes : node'[c].file = node[c].file /\ node'[c].vp = node[c].vp
    BY <1>19, Err1Effect
  <2>2. NodeHeld(s) /\ UserOK(s) /\ MakingOK(s)
    BY DEF HeldNodeLive
  <2>3. ASSUME at'[s] \in {"nlock", "got", "ready", "hold"} PROVE NodeHeld(s)'
    <3>1. at[s] = at'[s] /\ act'[s].np = act[s].np /\ act'[s].vp = act[s].vp
          /\ act'[s].file = act[s].file /\ act[s].vp \in Vnodes
      BY <1>19, <2>3, Err1Effect
    <3>2. at[s] \in {"nlock", "got"} => act[s].np # act[t].np
      BY <1>19, <2>2, <3>1, Err1Effect
    <3>3. vnode' = vnode /\ list' = list \ {act[t].np} /\ vnode[act[s].vp].np \in Nodes
      BY <1>19, <2>2, <2>3, <3>1, Err1Effect DEF Core, VnodeInv, Paired
    <3> QED
      BY <2>1, <2>2, <3>1, <3>2, <3>3
  <2> QED
    BY <2>3
<1>20. ASSUME NEW t \in Threads, NodeReady(t) PROVE NodeHeld(s)'
  <2>1. \A c \in Nodes : node'[c].file = node[c].file /\ node'[c].vp = node[c].vp
    BY <1>20, NodeReadyEffect
  <2>2. NodeHeld(s) /\ UserOK(s) /\ MakingOK(s)
    BY DEF HeldNodeLive
  <2>3. ASSUME at'[s] \in {"nlock", "got", "ready", "hold"} PROVE NodeHeld(s)'
    <3>1. act' = act /\ vnode' = vnode /\ list' = list /\ act[s].vp \in Vnodes
          /\ IF s = t THEN at'[s] = "got" /\ at[s] = "ready" ELSE at'[s] = at[s]
      BY <1>20, <2>3, NodeReadyEffect
    <3>2. vnode[act[s].vp].np \in Nodes
      BY <1>20, <2>2, <2>3, <3>1 DEF Core, VnodeInv, Paired
    <3>3. s = t => act[s].np \in list /\ node[act[s].np].file = act[s].file
                   /\ node[act[s].np].vp = act[s].vp
      BY <1>20, NodeReadyEffect
    <3> QED
      BY <2>1, <2>2, <3>1, <3>2, <3>3
  <2> QED
    BY <2>3
<1>21. ASSUME NEW t \in Threads, LookupFailed(t) PROVE NodeHeld(s)'
  BY <1>21 DEF LookupFailed, Clunk, Goto, Act, NoAct, NOFID
<1>got. ASSUME NEW t \in Threads, LookupGot(t) \/ VgetGot(t) PROVE NodeHeld(s)'
  <2>1. act[t].np \in Nodes /\ act[t].vp \in Vnodes /\ NodeHeld(t) /\ UserOK(t)
    BY <1>got DEF LookupGot, VgetGot, Core, HeldNodeLive, UserInv
  <2>2. \A w \in Vnodes : vnode[w].is = "live" => vnode[w].np \in Nodes
    BY DEF Core, VnodeInv, Paired
  <2>3. CASE s = t
    BY <1>got, <2>1, <2>2, <2>3, GotEffect
  <2>4. CASE s # t
    <3>1. at'[s] = at[s] /\ act'[s] = act[s] /\ list' = list
      BY <1>got, <2>4, GotEffect
    <3>2. /\ \A c \in Nodes : node'[c].file = node[c].file /\ node'[c].vp = node[c].vp
          /\ \A w \in Vnodes : vnode'[w].is = vnode[w].is /\ vnode'[w].np = vnode[w].np
      BY <1>got, GotEffect
    <3> QED
      BY <2>2, <3>1, <3>2
  <2> QED
    BY <2>3, <2>4
<1>22. ASSUME NEW t \in Threads, LookupGot(t) PROVE NodeHeld(s)'
  BY <1>22, <1>got
<1>23. ASSUME NEW t \in Threads, VgetGot(t) PROVE NodeHeld(s)'
  BY <1>23, <1>got
<1>24. ASSUME NEW t \in Threads, PutVnode(t) PROVE NodeHeld(s)'
  BY <1>24 DEF PutVnode, Goto, Act, NoAct, NOFID
<1>25. ASSUME NEW v \in Vnodes, Terminate(v) PROVE NodeHeld(s)'
  <2>1. NodeHeld(s) /\ UserOK(s)
    BY DEF HeldNodeLive
  <2>2. Users(v) = {}
    <3>1. Users(v) \subseteq Threads
      BY DEF Users
    <3>2. IsFiniteSet(Users(v)) /\ Cardinality(Users(v)) \in Nat
      BY <3>1, FS_Subset, FS_CardinalityType
    <3>3. Cardinality(Users(v)) + extra[v] = 0
      BY <1>25 DEF Terminate, IocountExact, Core
    <3>4. Cardinality(Users(v)) = 0
      BY <3>2, <3>3 DEF TypeOK
    <3> QED
      BY <3>2, <3>4, FS_EmptySet
  <2>3. at[s] \in {"nlock", "got", "ready", "hold"} => act[s].vp # v
    BY <2>2 DEF Users
  <2>4. \A w \in Vnodes : /\ vnode'[w].np = vnode[w].np
                          /\ w # v => vnode'[w].is = vnode[w].is
    BY <1>25 DEF Terminate, VnodeGoes
  <2>5. UNCHANGED <<list, node, at, act>>
    BY <1>25 DEF Terminate
  <2> QED
    BY <2>1, <2>3, <2>4, <2>5
<1>26. ASSUME NEW v \in Vnodes, ReclaimLock(v) PROVE NodeHeld(s)'
  <2>1. \A c \in Nodes : node'[c].file = node[c].file /\ node'[c].vp = node[c].vp
    BY <1>26, ReclaimLockEffect
  <2>2. NodeHeld(s) /\ UserOK(s) /\ MakingOK(s)
    BY DEF HeldNodeLive
  <2>3. ASSUME at'[s] \in {"nlock", "got", "ready", "hold"} PROVE NodeHeld(s)'
    <3>1. at[s] = at'[s] /\ act'[s].np = act[s].np /\ act'[s].vp = act[s].vp
          /\ act'[s].file = act[s].file /\ act[s].vp \in Vnodes /\ list' = list
      BY <1>26, <2>3, ReclaimLockEffect
    <3>2. vnode'[act[s].vp] = vnode[act[s].vp] /\ vnode[act[s].vp].np \in Nodes
      BY <1>26, <2>2, <2>3, <3>1, ReclaimLockEffect DEF Core, VnodeInv, Paired
    <3> QED
      BY <2>1, <2>2, <3>1, <3>2
  <2> QED
    BY <2>3
<1>27. ASSUME NEW v \in Vnodes, ReclaimDel(v) PROVE NodeHeld(s)'
  <2>1. Paired(v)
    BY <1>27 DEF Core, VnodeInv
  <2> QED
    BY <1>27, <2>1 DEF ReclaimDel, VnodeGoes, Paired
<1>28. ASSUME NEW v \in Vnodes, ReclaimClunk(v) PROVE NodeHeld(s)'
  BY <1>28 DEF ReclaimClunk, Clunk, VnodeGoes
<1>29. ASSUME NEW v \in Vnodes, ReclaimFree(v) PROVE NodeHeld(s)'
  <2>1. \A c \in Nodes : node'[c].file = node[c].file /\ node'[c].vp = node[c].vp
    BY <1>29, ReclaimFreeEffect
  <2>2. NodeHeld(s) /\ UserOK(s) /\ MakingOK(s)
    BY DEF HeldNodeLive
  <2>3. ASSUME at'[s] \in {"nlock", "got", "ready", "hold"} PROVE NodeHeld(s)'
    <3>1. at[s] = at'[s] /\ act'[s].np = act[s].np /\ act'[s].vp = act[s].vp
          /\ act'[s].file = act[s].file /\ act[s].vp \in Vnodes /\ list' = list
      BY <1>29, <2>3, ReclaimFreeEffect
    <3>2. vnode'[act[s].vp] = vnode[act[s].vp] /\ vnode[act[s].vp].np \in Nodes
      BY <1>29, <2>2, <2>3, <3>1, ReclaimFreeEffect DEF Core, VnodeInv, Paired
    <3> QED
      BY <2>1, <2>2, <3>1, <3>2
  <2> QED
    BY <2>3
<1>30. ASSUME
           \/ BeginUnmount
           \/ UnmountBusy
    PROVE  NodeHeld(s)'
  <2>1. UNCHANGED <<act, at, list, node, vnode>>
    BY <1>30 DEF BeginUnmount, UnmountBusy
  <2> HIDE DEF TypeOK, NodeType, VnodeType, ActType, Core, MakingInv, VnodeInv, ReadInv, UserInv,
       ListInv, Making, NodeHeld, MakingOK, Paired, ReadOK, UserOK, Listed
  <2> QED
    BY <2>1 DEF Core, HeldNodeLive, NodeHeld
<1> QED
  BY <1>1, <1>2, <1>3, <1>4, <1>5, <1>6, <1>7, <1>8, <1>9, <1>10, <1>11, <1>12, <1>13, <1>14, <1>15,
       <1>16, <1>17, <1>18, <1>19, <1>20, <1>21, <1>22, <1>23, <1>24, <1>25, <1>26, <1>27, <1>28,
       <1>29, <1>30 DEF Next, Begin, Thread, Nget, Reclaim

(* No step forgets a sleeper.                                              *)
LEMMA SleeperStep ==
    ASSUME TypeOK, Core, Next, ~broken, ~broken'
    PROVE  AsleepInv'
<1> SUFFICES ASSUME NEW s \in Threads PROVE AsleepOK(s)'
  BY DEF AsleepInv
<1>types. /\ list \subseteq allocated /\ allocated \subseteq Nodes
          /\ node \in [Nodes -> NodeType] /\ vnode \in [Vnodes -> VnodeType]
          /\ at \in [Threads -> Places] /\ act \in [Threads -> ActType]
  BY DEF TypeOK
<1>old. AsleepOK(s)
  BY DEF Core, AsleepInv
<1> USE <1>types, <1>old DEF NodeType, VnodeType, ActType, AsleepOK, Making
<1>1. ASSUME NEW t \in Threads, NEW d \in Dirs, NEW f \in Files, BeginLookup(t, d, f) PROVE AsleepOK(s)'
  BY <1>1 DEF BeginLookup, Goto, Act, NoAct, NOFID
<1>2. ASSUME NEW t \in Threads, NEW v \in Vnodes, LookupCached(t, v) PROVE AsleepOK(s)'
  BY <1>2 DEF LookupCached, Goto, Act, NoAct, NOFID
<1>3. ASSUME NEW t \in Threads, NEW f \in Files, BeginVget(t, f) PROVE AsleepOK(s)'
  BY <1>3 DEF BeginVget, Goto, Act, NoAct, NOFID
<1>4. ASSUME NEW t \in Threads, Walk(t) PROVE AsleepOK(s)'
  BY <1>4 DEF Walk, Goto
<1>5. ASSUME NEW t \in Threads, WalkFails(t) PROVE AsleepOK(s)'
  BY <1>5 DEF WalkFails, Goto, Act, NoAct, NOFID
<1>6. ASSUME NEW t \in Threads, NEW b \in Nodes, SleepOnInit(t, b) PROVE AsleepOK(s)'
  BY <1>6 DEF SleepOnInit, SleepOnNode, Goto, Searches, Found
<1>7. ASSUME NEW t \in Threads, NEW b \in Nodes, SleepOnRecl(t, b) PROVE AsleepOK(s)'
  <2>1. b \in list /\ Listed(b)
    BY <1>7 DEF SleepOnRecl, SleepOnNode, Searches, Found, Core, ListInv
  <2> QED
    BY <1>7, <2>1 DEF SleepOnRecl, SleepOnNode, Goto, Searches, Found, Listed
<1>8. ASSUME NEW t \in Threads, NEW b \in Nodes, ReadVid(t, b) PROVE AsleepOK(s)'
  BY <1>8 DEF ReadVid, Goto, Searches, Found
<1>9. ASSUME NEW t \in Threads, NEW b \in Nodes, InsertNode(t, b) PROVE AsleepOK(s)'
  BY <1>9 DEF InsertNode, Goto, Absent, Searches, Found
<1>10. ASSUME NEW t \in Threads, ReloadVp(t) PROVE AsleepOK(s)'
  BY <1>10 DEF ReloadVp, Goto
<1>11. ASSUME NEW t \in Threads, GetVnode(t) PROVE AsleepOK(s)'
  BY <1>11 DEF GetVnode, Goto, VidCurrent
<1>12. ASSUME NEW t \in Threads, GetVnodeFails(t) PROVE AsleepOK(s)'
  BY <1>12 DEF GetVnodeFails, Goto, VidCurrent
<1>13. ASSUME NEW t \in Threads, NlockFound(t) PROVE AsleepOK(s)'
  BY <1>13 DEF NlockFound, Goto
<1>14. ASSUME NEW t \in Threads, VgetAbsent(t) PROVE AsleepOK(s)'
  BY <1>14 DEF VgetAbsent, Goto, Absent, Searches, Found
<1>15. ASSUME NEW t \in Threads, NoMemory(t) PROVE AsleepOK(s)'
  BY <1>15 DEF NoMemory, Goto, Absent, Searches, Found
<1>16. ASSUME NEW t \in Threads, Ngetdir(t) PROVE AsleepOK(s)'
  BY <1>16 DEF Ngetdir, Goto
<1>17. ASSUME NEW t \in Threads, NEW v \in Vnodes, CreateVnode(t, v) PROVE AsleepOK(s)'
  <2>1. act[t].np \in Nodes /\ node[act[t].np].vp = Null
    BY <1>17 DEF CreateVnode, Core, MakingInv, MakingOK
  <2> QED
    <3>1. \A w \in Vnodes : vnode[w].is # "free" => vnode'[w] = vnode[w]
      BY <1>17 DEF CreateVnode
    <3>2. \A c \in Nodes : /\ node'[c].flags = node[c].flags
                           /\ node[c].vp # Null => node'[c].vp = node[c].vp
      BY <1>17, <2>1 DEF CreateVnode
    <3>3. /\ UNCHANGED <<list, allocated>>
          /\ at'[s] = "asleep" => at[s] = "asleep" /\ act'[s].np = act[s].np
      BY <1>17 DEF CreateVnode, Goto
    <3> QED
      BY <3>1, <3>2, <3>3
<1>18. ASSUME NEW t \in Threads, CreateVnodeFails(t) PROVE AsleepOK(s)'
  BY <1>18 DEF CreateVnodeFails, Goto
<1>19. ASSUME NEW t \in Threads, Err1(t) PROVE AsleepOK(s)'
  BY <1>19, Err1Effect
<1>20. ASSUME NEW t \in Threads, NodeReady(t) PROVE AsleepOK(s)'
  BY <1>20, NodeReadyEffect
<1>21. ASSUME NEW t \in Threads, LookupFailed(t) PROVE AsleepOK(s)'
  BY <1>21 DEF LookupFailed, Clunk, Goto, Act, NoAct, NOFID
<1>22. ASSUME NEW t \in Threads, LookupGot(t) PROVE AsleepOK(s)'
  BY <1>22 DEF LookupGot, ReturnNode, Clunk, Goto, Act, NoAct, NOFID
<1>23. ASSUME NEW t \in Threads, VgetGot(t) PROVE AsleepOK(s)'
  <2>1. at'[s] = "asleep" => at[s] = "asleep" /\ act'[s].np = act[s].np /\ act[s].np \in Nodes
    BY <1>23, GotEffect
  <2>2. /\ UNCHANGED <<allocated, list>>
        /\ \A c \in Nodes : node'[c].vp = node[c].vp /\ node'[c].flags = node[c].flags
        /\ \A w \in Vnodes : vnode'[w].np = vnode[w].np /\ vnode'[w].is = vnode[w].is
    BY <1>23, GotEffect
  <2> QED
    BY <2>1, <2>2
<1>24. ASSUME NEW t \in Threads, PutVnode(t) PROVE AsleepOK(s)'
  BY <1>24 DEF PutVnode, Goto, Act, NoAct, NOFID
<1>25. ASSUME NEW v \in Vnodes, Terminate(v) PROVE AsleepOK(s)'
  BY <1>25 DEF Terminate, VnodeGoes
<1>26. ASSUME NEW v \in Vnodes, ReclaimLock(v) PROVE AsleepOK(s)'
  <2>1. UNCHANGED <<allocated, list, at, act>> /\ AsleepOK(s)
    BY <1>26, <1>old, ReclaimLockEffect
  <2>2. \A c \in Nodes : /\ node'[c].vp = node[c].vp /\ node[c].flags \subseteq node'[c].flags
                         /\ "INIT" \in node'[c].flags => "INIT" \in node[c].flags
    <3> SUFFICES ASSUME NEW c \in Nodes
                 PROVE  node'[c].vp = node[c].vp /\ node[c].flags \subseteq node'[c].flags
                        /\ ("INIT" \in node'[c].flags => "INIT" \in node[c].flags)
      OBVIOUS
    <3>1. c = vnode[v].np => node'[c].vp = node[c].vp /\ node'[c].flags = node[c].flags \cup {"RECL"}
      BY <1>26, ReclaimLockEffect
    <3>2. c # vnode[v].np => node'[c] = node[c]
      BY <1>26, ReclaimLockEffect
    <3> QED
      BY <3>1, <3>2
  <2>3. \A w \in Vnodes : /\ vnode'[w].np = vnode[w].np
                          /\ vnode[w].is \in {"locked", "removed",
                               "clunked"} => vnode'[w].is = vnode[w].is
    <3>1. \A w \in Vnodes : w # v => vnode'[w] = vnode[w]
      BY <1>26, ReclaimLockEffect
    <3>2. vnode'[v].np = vnode[v].np /\ vnode[v].is = "terminating"
      BY <1>26, ReclaimLockEffect
    <3> QED
      BY <3>1, <3>2
  <2>4. at[s] = "asleep" => act[s].np \in Nodes
    BY <1>old, <1>types DEF AsleepOK
  <2> HIDE DEF TypeOK, NodeType, VnodeType, ActType, Core, AsleepInv, ListInv, MakingInv, VnodeInv,
       Making, Listed, MakingOK, Paired
  <2> QED
    BY <2>1, <2>2, <2>3, <2>4 DEF AsleepOK
<1>27. ASSUME NEW v \in Vnodes, ReclaimDel(v) PROVE AsleepOK(s)'
  <2>1. Paired(v)
    BY <1>27 DEF Core, VnodeInv
  <2> QED
    BY <1>27, <2>1 DEF ReclaimDel, VnodeGoes, Paired
<1>28. ASSUME NEW v \in Vnodes, ReclaimClunk(v) PROVE AsleepOK(s)'
  BY <1>28 DEF ReclaimClunk, Clunk, VnodeGoes
<1>29. ASSUME NEW v \in Vnodes, ReclaimFree(v) PROVE AsleepOK(s)'
  <2> SUFFICES ASSUME at'[s] = "asleep" PROVE AsleepOK(s)'
    OBVIOUS
  <2>1. at[s] = "asleep" /\ act'[s].np = act[s].np /\ act[s].np \in Nodes /\ AsleepOK(s)
        /\ ~("WAITRECL" \in node[vnode[v].np].flags /\ act[s].np = vnode[v].np)
    BY <1>29, ReclaimFreeEffect
  <2>2. act[s].np # vnode[v].np
    BY <1>29, <2>1, ReclaimFreeEffect
  <2>3. node'[act[s].np] = node[act[s].np] /\ list' = list
    <3>1. \A c \in Nodes : c # vnode[v].np => node'[c] = node[c]
      BY <1>29, ReclaimFreeEffect
    <3>2. list' = list
      BY <1>29, ReclaimFreeEffect
    <3> QED
      BY <2>1, <2>2, <3>1, <3>2
  <2>5. act[s].np \in allocated'
    <3>1. allocated' = allocated \ {vnode[v].np}
      BY <1>29, ReclaimFreeEffect
    <3> QED
      BY <2>1, <2>2, <3>1
  <2>4. ASSUME node[act[s].np].vp \in Vnodes, vnode[node[act[s].np].vp].np = act[s].np
        PROVE  vnode'[node[act[s].np].vp] = vnode[node[act[s].np].vp]
    <3>1. node[act[s].np].vp # v
      BY <2>2, <2>4
    <3>2. \A w \in Vnodes : w # v => vnode'[w] = vnode[w]
      BY <1>29, ReclaimFreeEffect
    <3> QED
      BY <2>4, <3>1, <3>2
  <2> HIDE DEF TypeOK, NodeType, VnodeType, ActType, Core, AsleepInv, ListInv, MakingInv, VnodeInv,
       Making, Listed, MakingOK, Paired
  <2> QED
    BY <2>1, <2>3, <2>4, <2>5
<1>30. ASSUME
           \/ BeginUnmount
           \/ UnmountBusy
    PROVE  AsleepOK(s)'
  <2>1. UNCHANGED <<act, allocated, at, list, node, vnode>>
    BY <1>30 DEF BeginUnmount, UnmountBusy
  <2> HIDE DEF TypeOK, NodeType, VnodeType, ActType, Core, ListInv, MakingInv, VnodeInv, Making,
       AsleepOK, Listed, MakingOK, Paired
  <2> QED
    BY <2>1 DEF Core, AsleepInv, AsleepOK
<1> QED
  BY <1>1, <1>2, <1>3, <1>4, <1>5, <1>6, <1>7, <1>8, <1>9, <1>10, <1>11, <1>12, <1>13, <1>14, <1>15,
       <1>16, <1>17, <1>18, <1>19, <1>20, <1>21, <1>22, <1>23, <1>24, <1>25, <1>26, <1>27, <1>28,
       <1>29, <1>30 DEF Next, Begin, Thread, Nget, Reclaim

-----------------------------------------------------------------------------
(* The iocounts and the users of a vnode change together: first, the       *)
(* users are finitely many.                                                *)
LEMMA UsersFinite ==
    ASSUME NEW v \in Vnodes
    PROVE  /\ IsFiniteSet(Users(v)) /\ Cardinality(Users(v)) \in Nat
           /\ IsFiniteSet(Users(v)') /\ Cardinality(Users(v)') \in Nat
<1>1. Users(v) \subseteq Threads /\ Users(v)' \subseteq Threads
  BY DEF Users
<1> QED
  BY <1>1, FS_Subset, FS_CardinalityType

(* A step that keeps the users keeps the count.                            *)
LEMMA CountKept ==
    ASSUME TypeOK, TypeOK', IocountExact, ~broken,
           \A s \in Threads :
              /\ at'[s] \in {"nlock", "got", "ready", "hold"} <=>
                    at[s] \in {"nlock", "got", "ready", "hold"}
              /\ at[s] \in {"nlock", "got", "ready", "hold"} => act'[s].vp = act[s].vp,
           \A v \in Vnodes : vnode'[v].iocount - extra'[v] = vnode[v].iocount - extra[v]
    PROVE  IocountExact'
<1> SUFFICES ASSUME NEW v \in Vnodes
             PROVE  vnode'[v].iocount = Cardinality(Users(v)') + extra'[v]
  BY DEF IocountExact
<1>1. Users(v)' = Users(v)
  BY DEF Users
<1>2. vnode[v].iocount = Cardinality(Users(v)) + extra[v]
  BY DEF IocountExact
<1>3. vnode[v].iocount \in Int /\ vnode'[v].iocount \in Int /\ extra[v] \in Int /\ extra'[v] \in Int
  BY DEF TypeOK, VnodeType
<1> QED
  BY <1>1, <1>2, <1>3, UsersFinite

(* A step that adds or removes one user changes the count by one.          *)
LEMMA CountChanged ==
    ASSUME TypeOK, TypeOK', IocountExact, ~broken, NEW t \in Threads, NEW w \in Vnodes,
           \A s \in Threads \ {t} : at'[s] = at[s] /\ act'[s].vp = act[s].vp,
           \A v \in Vnodes \ {w} : vnode'[v].iocount = vnode[v].iocount,
           extra' = extra,
           \/ /\ at[t] \notin {"nlock", "got", "ready", "hold"}
              /\ at'[t] \in {"nlock", "got", "ready", "hold"} /\ act'[t].vp = w
              /\ vnode'[w].iocount = vnode[w].iocount + 1
           \/ /\ at[t] \in {"nlock", "got", "ready", "hold"} /\ act[t].vp = w
              /\ at'[t] \notin {"nlock", "got", "ready", "hold"}
              /\ vnode'[w].iocount = vnode[w].iocount - 1
    PROVE  IocountExact'
<1> SUFFICES ASSUME NEW v \in Vnodes
             PROVE  vnode'[v].iocount = Cardinality(Users(v)') + extra'[v]
  BY DEF IocountExact
<1>1. vnode[v].iocount = Cardinality(Users(v)) + extra[v]
  BY DEF IocountExact
<1>2. vnode[v].iocount \in Int /\ vnode'[v].iocount \in Int /\ extra[v] \in Int
  BY DEF TypeOK, VnodeType
<1>3. CASE v # w
  <2>1. Users(v)' = Users(v)
    BY <1>3 DEF Users
  <2> QED
    BY <1>1, <1>3, <2>1
<1>4. CASE v = w /\ at[t] \notin {"nlock", "got", "ready", "hold"}
  <2>1. t \notin Users(v) /\ Users(v)' = Users(v) \cup {t}
    BY <1>4 DEF Users
  <2>2. Cardinality(Users(v)') = Cardinality(Users(v)) + 1
    <3>1. IsFiniteSet(Users(v))
      BY UsersFinite
    <3> QED
      BY <2>1, <3>1, FS_AddElement
  <2> QED
    BY <1>1, <1>2, <1>4, <2>2, UsersFinite
<1>5. CASE v = w /\ at[t] \in {"nlock", "got", "ready", "hold"}
  <2>1. t \in Users(v) /\ Users(v)' = Users(v) \ {t}
    BY <1>5 DEF Users
  <2>2. Cardinality(Users(v)') = Cardinality(Users(v)) - 1
    BY <2>1, UsersFinite, FS_RemoveElement
  <2> QED
    BY <1>1, <1>2, <1>5, <2>2, UsersFinite
<1> QED
  BY <1>3, <1>4, <1>5

(* Every step keeps the count or changes it with the users.                *)
LEMMA IocountStep ==
    ASSUME TypeOK, TypeOK', Core, Next, ~broken, ~broken'
    PROVE  IocountExact'
<1> USE DEF TypeOK
<1> DEFINE Kept ==
          /\ \A s \in Threads :
                /\ at'[s] \in {"nlock", "got", "ready", "hold"} <=>
                      at[s] \in {"nlock", "got", "ready", "hold"}
                /\ at[s] \in {"nlock", "got", "ready", "hold"} => act'[s].vp = act[s].vp
          /\ \A u \in Vnodes : vnode'[u].iocount - extra'[u] = vnode[u].iocount - extra[u]
<1>0. IocountExact
  BY DEF Core
<1>1. ASSUME NEW t \in Threads, NEW d \in Dirs, NEW f \in Files, BeginLookup(t, d, f) PROVE Kept
  BY <1>1 DEF BeginLookup, Goto, Act, NoAct
<1>2. ASSUME NEW t \in Threads, NEW v \in Vnodes, LookupCached(t, v) PROVE IocountExact'
  <2>1. v \in Vnodes /\ extra' = extra
    BY <1>2 DEF LookupCached, Goto, Act, NoAct, VnodeType
  <2>2. \A s \in Threads \ {t} : at'[s] = at[s] /\ act'[s].vp = act[s].vp
    BY <1>2 DEF LookupCached, Goto, Act, NoAct, VnodeType
  <2>3. \A u \in Vnodes \ {v} : vnode'[u].iocount = vnode[u].iocount
    BY <1>2, <2>1 DEF LookupCached, Goto, Act, NoAct, VnodeType
  <2>4. /\ at[t] \notin {"nlock", "got", "ready", "hold"}
        /\ at'[t] \in {"nlock", "got", "ready", "hold"} /\ act'[t].vp = v
        /\ vnode'[v].iocount = vnode[v].iocount + 1
    BY <1>2, <2>1 DEF LookupCached, Goto, Act, NoAct, VnodeType
  <2> HIDE DEF TypeOK
  <2> QED
    BY <1>0, <2>1, <2>2, <2>3, <2>4, CountChanged
<1>3. ASSUME NEW t \in Threads, NEW f \in Files, BeginVget(t, f) PROVE Kept
  BY <1>3 DEF BeginVget, Goto, Act, NoAct
<1>4. ASSUME NEW t \in Threads, Walk(t) PROVE Kept
  BY <1>4 DEF Walk, Goto
<1>5. ASSUME NEW t \in Threads, WalkFails(t) PROVE Kept
  BY <1>5 DEF WalkFails, Goto, Act, NoAct
<1>6. ASSUME NEW t \in Threads, NEW b \in Nodes, SleepOnInit(t, b) PROVE Kept
  BY <1>6 DEF SleepOnInit, SleepOnNode, Goto, Searches
<1>7. ASSUME NEW t \in Threads, NEW b \in Nodes, SleepOnRecl(t, b) PROVE Kept
  BY <1>7 DEF SleepOnRecl, SleepOnNode, Goto, Searches
<1>8. ASSUME NEW t \in Threads, NEW b \in Nodes, ReadVid(t, b) PROVE Kept
  BY <1>8 DEF ReadVid, Goto, Searches
<1>9. ASSUME NEW t \in Threads, NEW b \in Nodes, InsertNode(t, b) PROVE Kept
  BY <1>9 DEF InsertNode, Goto, Searches, Absent
<1>10. ASSUME NEW t \in Threads, ReloadVp(t) PROVE Kept
  BY <1>10 DEF ReloadVp, Goto
<1>11. ASSUME NEW t \in Threads, GetVnode(t) PROVE IocountExact'
  <2>1. act[t].vp \in Vnodes /\ extra' = extra
    BY <1>11 DEF GetVnode, Goto, VidCurrent, Core, ReadInv, ReadOK, VnodeType
  <2>2. \A s \in Threads \ {t} : at'[s] = at[s] /\ act'[s].vp = act[s].vp
    BY <1>11 DEF GetVnode, Goto
  <2>3. \A u \in Vnodes \ {act[t].vp} : vnode'[u].iocount = vnode[u].iocount
    BY <1>11, <2>1 DEF GetVnode, Goto, VnodeType
  <2>4. /\ at[t] \notin {"nlock", "got", "ready", "hold"}
        /\ at'[t] \in {"nlock", "got", "ready", "hold"} /\ act'[t].vp = act[t].vp
        /\ vnode'[act[t].vp].iocount = vnode[act[t].vp].iocount + 1
    BY <1>11, <2>1 DEF GetVnode, Goto, VnodeType
  <2> HIDE DEF TypeOK
  <2> QED
    BY <1>0, <2>1, <2>2, <2>3, <2>4, CountChanged
<1>12. ASSUME NEW t \in Threads, GetVnodeFails(t) PROVE Kept
  BY <1>12 DEF GetVnodeFails, Goto
<1>13. ASSUME NEW t \in Threads, NlockFound(t) PROVE Kept
  BY <1>13 DEF NlockFound, Goto
<1>14. ASSUME NEW t \in Threads, VgetAbsent(t) PROVE Kept
  BY <1>14 DEF VgetAbsent, Goto, Searches, Absent
<1>15. ASSUME NEW t \in Threads, NoMemory(t) PROVE Kept
  BY <1>15 DEF NoMemory, Goto, Searches, Absent
<1>16. ASSUME NEW t \in Threads, Ngetdir(t) PROVE Kept
  BY <1>16 DEF Ngetdir, Goto
<1>17. ASSUME NEW t \in Threads, NEW v \in Vnodes, CreateVnode(t, v) PROVE IocountExact'
  <2>1. v \in Vnodes /\ extra' = extra
    BY <1>17 DEF CreateVnode, Goto, Core, VnodeInv, Paired, ActType, VnodeType
  <2>2. \A s \in Threads \ {t} : at'[s] = at[s] /\ act'[s].vp = act[s].vp
    BY <1>17 DEF CreateVnode, Goto, Core, VnodeInv, Paired, ActType, VnodeType
  <2>3. \A u \in Vnodes \ {v} : vnode'[u].iocount = vnode[u].iocount
    BY <1>17, <2>1 DEF CreateVnode, Goto, Core, VnodeInv, Paired, ActType, VnodeType
  <2>4. /\ at[t] \notin {"nlock", "got", "ready", "hold"}
        /\ at'[t] \in {"nlock", "got", "ready", "hold"} /\ act'[t].vp = v
        /\ vnode'[v].iocount = vnode[v].iocount + 1
    BY <1>17, <2>1 DEF CreateVnode, Goto, Core, VnodeInv, Paired, ActType, VnodeType
  <2> HIDE DEF TypeOK
  <2> QED
    BY <1>0, <2>1, <2>2, <2>3, <2>4, CountChanged
<1>18. ASSUME NEW t \in Threads, CreateVnodeFails(t) PROVE Kept
  BY <1>18 DEF CreateVnodeFails, Goto
<1>19. ASSUME NEW t \in Threads, Err1(t) PROVE Kept
  BY <1>19, Err1Effect
<1>20. ASSUME NEW t \in Threads, NodeReady(t) PROVE Kept
  BY <1>20, NodeReadyEffect
<1>21. ASSUME NEW t \in Threads, LookupFailed(t) PROVE Kept
  BY <1>21 DEF LookupFailed, Clunk, Goto, Act, NoAct
<1>22. ASSUME NEW t \in Threads, LookupGot(t) PROVE Kept
  BY <1>22 DEF LookupGot, ReturnNode, Clunk, Goto, Act, NoAct, Core, HeldNodeLive, NodeHeld, ActType
<1>23. ASSUME NEW t \in Threads, VgetGot(t) PROVE Kept
  <2>1. \A s \in Threads :
          /\ at'[s] \in {"nlock", "got", "ready", "hold"} <=>
                at[s] \in {"nlock", "got", "ready", "hold"}
          /\ at[s] \in {"nlock", "got", "ready", "hold"} => act'[s].vp = act[s].vp
    BY <1>23 DEF VgetGot, ReturnNode, Goto, Act, NoAct, Core, HeldNodeLive, NodeHeld, UserInv,
         UserOK, VnodeType
  <2>2. \A u \in Vnodes : vnode'[u].iocount - extra'[u] = vnode[u].iocount - extra[u]
    BY <1>23 DEF VgetGot, ReturnNode, Goto, Act, NoAct, Core, HeldNodeLive, NodeHeld, UserInv,
         UserOK, VnodeType
  <2> QED
    BY <2>1, <2>2
<1>24. ASSUME NEW t \in Threads, PutVnode(t) PROVE IocountExact'
  <2>1. act[t].vp \in Vnodes /\ extra' = extra
    BY <1>24 DEF PutVnode, Goto, Act, NoAct, Core, UserInv, UserOK, VnodeType
  <2>2. \A s \in Threads \ {t} : at'[s] = at[s] /\ act'[s].vp = act[s].vp
    BY <1>24 DEF PutVnode, Goto, Act, NoAct, Core, UserInv, UserOK, VnodeType
  <2>3. \A u \in Vnodes \ {act[t].vp} : vnode'[u].iocount = vnode[u].iocount
    BY <1>24, <2>1 DEF PutVnode, Goto, Act, NoAct, Core, UserInv, UserOK, VnodeType
  <2>4. at[t] = "hold" /\ at'[t] = "idle" /\ vnode'[act[t].vp].iocount = vnode[act[t].vp].iocount - 1
    BY <1>24, <2>1 DEF PutVnode, Goto, Act, NoAct, Core, UserInv, UserOK, VnodeType
  <2> HIDE DEF TypeOK
  <2> QED
    BY <1>0, <2>1, <2>2, <2>3, <2>4, CountChanged
<1>25. ASSUME NEW v \in Vnodes, Terminate(v) PROVE Kept
  BY <1>25 DEF Terminate, VnodeGoes, VnodeType
<1>26. ASSUME NEW v \in Vnodes, ReclaimLock(v) PROVE Kept
  BY <1>26, ReclaimLockEffect
<1>27. ASSUME NEW v \in Vnodes, ReclaimDel(v) PROVE Kept
  BY <1>27 DEF ReclaimDel, VnodeGoes, VnodeType
<1>28. ASSUME NEW v \in Vnodes, ReclaimClunk(v) PROVE Kept
  BY <1>28 DEF ReclaimClunk, Clunk, VnodeGoes, VnodeType
<1>29. ASSUME NEW v \in Vnodes, ReclaimFree(v) PROVE Kept
  <2>1. \A s \in Threads : at'[s] = at[s] \/ (at[s] = "asleep" /\ at'[s] = "search")
    BY <1>29, ReclaimFreeEffect
  <2>2. \A s \in Threads : act'[s].vp = act[s].vp
    BY <1>29, ReclaimFreeEffect
  <2>3. vnode'[v].iocount = 0 /\ vnode[v].iocount = 0
    BY <1>29, ReclaimFreeEffect DEF Core, VnodeInv, Paired
  <2>4. extra' = extra /\ \A u \in Vnodes : u # v => vnode'[u] = vnode[u]
    BY <1>29, ReclaimFreeEffect
  <2>5. \A u \in Vnodes : vnode'[u].iocount - extra'[u] = vnode[u].iocount - extra[u]
    BY <2>3, <2>4
  <2> QED
    BY <2>1, <2>2, <2>5
<1>30. ASSUME BeginUnmount \/ UnmountBusy PROVE Kept
  BY <1>30 DEF BeginUnmount, UnmountBusy
<1>31. ASSUME Kept PROVE IocountExact'
  <2> HIDE DEF TypeOK
  <2> QED
    BY <1>0, <1>31, CountKept
<1> HIDE DEF Kept
<1> QED
  BY <1>1, <1>2, <1>3, <1>4, <1>5, <1>6, <1>7, <1>8, <1>9, <1>10, <1>11, <1>12, <1>13, <1>14, <1>15,
       <1>16, <1>17, <1>18, <1>19, <1>20, <1>21, <1>22, <1>23, <1>24, <1>25, <1>26, <1>27, <1>28,
       <1>29, <1>30, <1>31 DEF Next, Begin, Thread, Nget, Reclaim

-----------------------------------------------------------------------------
(* A misread of a freed node disturbs neither the chains nor a sleeper.    *)
LEMMA BrokenStep ==
    ASSUME TypeOK, Core, SleeperSeen, Next, ~broken, broken'
    PROVE  OneNode' /\ SleeperSeen'
<1>1. \E t \in Threads : ReloadVp(t) \/ GetVnode(t)
  <2>1. ASSUME NEW t \in Threads, Begin(t) PROVE FALSE
    BY <2>1 DEF Begin, BeginLookup, LookupCached, BeginVget
  <2>2. ASSUME NEW t \in Threads, Nget(t) PROVE ReloadVp(t) \/ GetVnode(t)
    <3>1. ASSUME NEW b \in Nodes PROVE ~SleepOnInit(t, b) /\ ~SleepOnRecl(t, b) /\ ~ReadVid(t, b)
                                        /\ ~InsertNode(t, b)
      BY DEF SleepOnInit, SleepOnRecl, SleepOnNode, ReadVid, InsertNode
    <3>2. ~GetVnodeFails(t) /\ ~NlockFound(t) /\ ~VgetAbsent(t) /\ ~NoMemory(t) /\ ~Ngetdir(t)
      BY DEF GetVnodeFails, NlockFound, VgetAbsent, NoMemory, Ngetdir
    <3>3. \A v \in Vnodes : ~CreateVnode(t, v)
      BY DEF CreateVnode
    <3>4. ~CreateVnodeFails(t) /\ ~Err1(t) /\ ~NodeReady(t)
      BY DEF CreateVnodeFails, Err1, NodeReady
    <3> QED
      BY <2>2, <3>1, <3>2, <3>3, <3>4 DEF Nget
  <2>3. ASSUME NEW t \in Threads PROVE ~Walk(t) /\ ~WalkFails(t) /\ ~LookupFailed(t) /\ ~LookupGot(t)
                                      /\ ~VgetGot(t) /\ ~PutVnode(t)
    BY DEF Walk, WalkFails, LookupFailed, LookupGot, VgetGot, ReturnNode, PutVnode
  <2>4. ASSUME NEW v \in Vnodes PROVE ~Terminate(v) /\ ~Reclaim(v)
    BY DEF Terminate, Reclaim, ReclaimLock, ReclaimDel, ReclaimClunk, ReclaimFree
  <2>5. ~BeginUnmount /\ ~UnmountBusy
    BY DEF BeginUnmount, UnmountBusy
  <2> QED
    BY <2>1, <2>2, <2>3, <2>4, <2>5 DEF Next, Thread
<1>2. PICK t \in Threads : ReloadVp(t) \/ GetVnode(t)
  BY <1>1
<1>3. /\ UNCHANGED <<allocated, list, node, act>>
      /\ \A s \in Threads : at[s] \in Making \cup {"asleep"} \/ at'[s] \in Making \cup {"asleep"} =>
                                at'[s] = at[s]
  <2>1. CASE ReloadVp(t)
    BY <2>1 DEF ReloadVp
  <2>2. CASE GetVnode(t)
    BY <2>2 DEF GetVnode, Goto, TypeOK, Making
  <2> QED
    BY <1>2, <2>1, <2>2
<1>4. \A v \in Vnodes : vnode'[v].is = vnode[v].is /\ vnode'[v].np = vnode[v].np
  <2>1. CASE ReloadVp(t)
    BY <2>1 DEF ReloadVp
  <2>2. CASE GetVnode(t)
    <3>1. act[t].vp \in Vnodes
      BY <2>2 DEF GetVnode, Core, ReadInv, ReadOK
    <3> QED
      BY <2>2, <3>1 DEF GetVnode, TypeOK, VnodeType
  <2> QED
    BY <1>2, <2>1, <2>2
<1>5. OneNode'
  BY <1>3 DEF Core, OneNode
<1>6. SleeperSeen'
  BY <1>3, <1>4 DEF SleeperSeen, Making
<1> QED
  BY <1>5, <1>6

(* The bits on a sleeper's node lead to the one who will clear them.       *)
LEMMA CoreSeesSleepers == TypeOK /\ Core => SleeperSeen
<1> SUFFICES ASSUME TypeOK, Core, NEW t \in Threads, at[t] = "asleep"
             PROVE  LET b == act[t].np IN
                    /\ b \in allocated
                    /\ \/ /\ {"INIT", "WAITINIT"} \subseteq node[b].flags
                          /\ \E s \in Threads : at[s] \in Making /\ act[s].np = b
                       \/ /\ {"RECL", "WAITRECL"} \subseteq node[b].flags
                          /\ \E v \in Vnodes : /\ vnode[v].is \in {"locked", "removed", "clunked"}
                                               /\ vnode[v].np = b
  BY DEF SleeperSeen
<1>1. AsleepOK(t)
  BY DEF Core, AsleepInv
<1>2. \A b \in list : Listed(b)
  BY DEF Core, ListInv
<1> QED
  BY <1>1, <1>2 DEF AsleepOK, Listed

(* The initial states satisfy the inductive invariant.                     *)
LEMMA InvInit == Init => IInv
<1> SUFFICES ASSUME Init PROVE IInv
  OBVIOUS
<1> USE DEF Init
<1>1. TypeOK
  <2>1. node \in [Nodes -> NodeType] /\ vnode \in [Vnodes -> VnodeType]
    BY DEF NodeType, NodeFlags, NewNode, NOFID, VnodeType, VnodeStates
  <2>2. at \in [Threads -> Places] /\ act \in [Threads -> ActType]
    BY DEF Places, ActType, NoAct, Act, NOFID
  <2>3. bound \in [Fids -> Files \cup {Null}] /\ dirlck \in [Dirs -> Threads \cup {Null}]
    OBVIOUS
  <2>4. extra \in [Vnodes -> Nat] /\ vgets \in 0 .. MaxVgets /\ unmounts \in 0 .. MaxUnmounts
    OBVIOUS
  <2>5. /\ allocated = {} /\ list = {} /\ nodelck = Null /\ nfid = 0
        /\ unmounting = FALSE /\ unclunked = {} /\ broken = FALSE
    OBVIOUS
  <2> HIDE DEF Init
  <2> QED
    BY <2>1, <2>2, <2>3, <2>4, <2>5 DEF TypeOK
<1>2. ListInv /\ MakingInv /\ VnodeInv /\ ReadInv /\ UserInv /\ AsleepInv /\ OneNode /\ HeldNodeLive
  BY DEF ListInv, MakingInv, MakingOK, Making, VnodeInv, Paired, ReadInv, ReadOK, UserInv, UserOK,
         AsleepInv, AsleepOK, OneNode, HeldNodeLive, NodeHeld
<1>3. IocountExact
  <2>1. \A v \in Vnodes : Users(v) = {}
    BY DEF Users
  <2>2. Cardinality({}) = 0
    BY FS_EmptySet
  <2>3. \A v \in Vnodes : vnode[v].iocount = 0 /\ extra[v] = 0
    OBVIOUS
  <2> HIDE DEF Init
  <2> QED
    BY <2>1, <2>2, <2>3 DEF IocountExact
<1> QED
  BY <1>1, <1>2, <1>3, CoreSeesSleepers DEF IInv, Core

(* Every step keeps the inductive invariant.                               *)
LEMMA InvStep == IInv /\ [Next]_vars => IInv'
<1> SUFFICES ASSUME IInv, [Next]_vars PROVE IInv'
  OBVIOUS
<1>1. TypeOK'
  BY TypeStep
<1>2. CASE Next
  <2>1. TypeOK /\ Core /\ ~broken /\ SleeperSeen
    BY <1>2 DEF Next, IInv
  <2>2. ASSUME ~broken' PROVE Core'
    BY <1>1, <1>2, <2>1, <2>2, ListStep, MakingStep, VnodeStep, ReadStep, UserStep, SleeperStep,
       OneStep, HeldStep, IocountStep DEF Core
  <2>3. CASE ~broken'
    <3>1. SleeperSeen'
      BY <1>1, <2>2, <2>3, CoreSeesSleepers, PTL
    <3> QED
      BY <1>1, <2>2, <2>3, <3>1 DEF IInv, Core
  <2>4. CASE broken'
    BY <1>1, <1>2, <2>1, <2>4, BrokenStep DEF IInv
  <2> QED
    BY <2>3, <2>4
<1>3. CASE UNCHANGED vars
  <2>1. Core => Core'
    <3>0. UNCHANGED <<allocated, list, node, vnode, extra, at, act, broken>>
      BY <1>3
    <3>1. (ListInv => ListInv') /\ (MakingInv => MakingInv') /\ (VnodeInv => VnodeInv')
      BY <3>0 DEF ListInv, Listed, MakingInv, MakingOK, Making, VnodeInv, Paired
    <3>2. (ReadInv => ReadInv') /\ (UserInv => UserInv') /\ (AsleepInv => AsleepInv')
      BY <3>0 DEF ReadInv, ReadOK, UserInv, UserOK, AsleepInv, AsleepOK
    <3>3. (OneNode => OneNode') /\ (HeldNodeLive => HeldNodeLive')
      BY <3>0 DEF OneNode, HeldNodeLive, NodeHeld
    <3>4. IocountExact => IocountExact'
      BY <3>0 DEF IocountExact, Users
    <3> QED
      BY <3>1, <3>2, <3>3, <3>4 DEF Core
  <2>2. OneNode' /\ SleeperSeen'
    BY <1>3 DEF IInv, OneNode, SleeperSeen, Making
  <2> QED
    BY <1>1, <1>3, <2>1, <2>2 DEF IInv
<1> QED
  BY <1>2, <1>3

(* In every reachable state the inductive invariant holds.                 *)
THEOREM Invariance == Spec => []IInv
  BY InvInit, InvStep, PTL DEF Spec

(* The node table's variables keep their types: no step dereferences a     *)
(* vnode or a node that is not there while no freed node has been misread. *)
THEOREM TypeCorrect == Spec => []TypeOK
<1>1. IInv => TypeOK
  BY DEF IInv
<1> QED
  BY <1>1, Invariance, PTL

(* Two lookups of a file never leave it with two nodes on the hash chains  *)
(* (nget_9p searches and inserts in one hold of nodelck).                  *)
THEOREM OneNodeHolds == Spec => []OneNode
<1>1. IInv => OneNode
  BY DEF IInv
<1> QED
  BY <1>1, Invariance, PTL

(* As long as no freed node was misread, the node a thread has taken an    *)
(* iocount for stays listed, keeps its vnode and is the file asked for.    *)
THEOREM HeldNodeLiveHolds == Spec => []HeldNodeLive
<1>1. IInv => HeldNodeLive
  BY DEF IInv, Core, HeldNodeLive
<1> QED
  BY <1>1, Invariance, PTL

(* No wakeup is lost in nget_9p: whoever sleeps on a node has its bit set  *)
(* and somebody is about to clear it.                                      *)
THEOREM SleeperSeenHolds == Spec => []SleeperSeen
<1>1. IInv => SleeperSeen
  BY DEF IInv
<1> QED
  BY <1>1, Invariance, PTL

(* A vnode's iocounts are those of its users and of vget's second ones, so *)
(* the kernel reclaims no vnode a lookup still returns.                    *)
THEOREM IocountExactHolds == Spec => []IocountExact
<1>1. IInv => IocountExact
  BY DEF IInv, Core, IocountExact
<1> QED
  BY <1>1, Invariance, PTL

-----------------------------------------------------------------------------
(***************************************************************************)
(* The fids of the node table: a fid has one owner, a node on the chains   *)
(* has its file's fid, and no lookup and no reclaim loses one.             *)
(***************************************************************************)

(* OSIncrementAtomic hands out each number once.                           *)
NumbersInv ==
    /\ nfid + Cardinality(Walking) <= MaxFid
    /\ \A f \in Fids : f > nfid => bound[f] = Null

(* A lookup's fid, from the answer to its walk until nget_9p has returned. *)
ThreadFid(t) ==
    /\ act[t].fid \in 0 .. nfid
    /\ at[t] \in {"idle", "walk", "hold", "efault"} \/ act[t].dir = Null => act[t].fid = NOFID
    /\ act[t].fid # NOFID => bound[act[t].fid] = act[t].file
    /\ at[t] \in Making => act[t].fid # NOFID /\ node[act[t].np].fid = act[t].fid
    /\ at[t] = "failed" => act[t].fid # NOFID
    /\ at[t] = "walk" => act[t].dir # Null

(* A node's fid is its file's as long as the node can be found.            *)
NodeFid(b) ==
    /\ node[b].fid \in 1 .. nfid
    /\ b \in list => bound[node[b].fid] = node[b].file

(* Two owners of one fid are a lookup and the node it makes or has made.   *)
OneOwner ==
    /\ \A s, t \in Threads : act[s].fid = act[t].fid /\ act[t].fid # NOFID => s = t
    /\ \A b, c \in allocated : node[b].fid = node[c].fid => b = c
    /\ \A t \in Threads, b \in allocated :
          act[t].fid = node[b].fid => at[t] \in Making \cup {"got"} /\ act[t].np = b

ClunkedFid(v) ==
    vnode[v].is = "clunked" =>
    LET f == node[vnode[v].np].fid IN bound[f] = Null \/ f \in unclunked

FidInv ==
    /\ NumbersInv /\ (\A t \in Threads : ThreadFid(t)) /\ (\A b \in allocated : NodeFid(b))
    /\ OneOwner /\ (\A v \in Vnodes : ClunkedFid(v)) /\ FidsAccounted

-----------------------------------------------------------------------------
(* A step that leaves fids, their owners and the server alone.             *)
FidQuiet ==
    /\ UNCHANGED <<bound, allocated, unclunked>> /\ list' \subseteq list
    /\ nfid' \in Nat /\ nfid' >= nfid
    /\ \A b \in Nodes : node'[b].fid = node[b].fid /\ node'[b].file = node[b].file
    /\ \A t \in Threads :
          /\ act'[t].fid = act[t].fid
          /\ at'[t] = "walk" => act'[t].dir # Null
          /\ act[t].fid # NOFID => act'[t].file = act[t].file /\ act'[t].dir # Null
          /\ at'[t] \in {"idle", "walk", "hold", "efault"} => act[t].fid = NOFID
          /\ at[t] \in Making \cup {"got"} /\ act[t].fid # NOFID =>
                at'[t] \in Making \cup {"got"} /\ act'[t].np = act[t].np
          /\ at'[t] \in Making => at[t] \in Making /\ act'[t].np = act[t].np
          /\ at'[t] = "failed" => act[t].fid # NOFID
    /\ \A v \in Vnodes : vnode'[v].is = "clunked" => vnode[v].is = "clunked" /\ vnode'[v].np = vnode[v].np

(* And no walk begins or ends.                                             *)
SameWalks == nfid' = nfid /\ \A t \in Threads : at'[t] = "walk" <=> at[t] = "walk"

LEMMA FidQuietKeeps ==
    ASSUME TypeOK, Core, FidInv, FidQuiet, NumbersInv' \/ SameWalks PROVE FidInv'
<1> USE DEF FidInv
<1>1. allocated' = allocated /\ allocated \subseteq Nodes /\ list' \subseteq list /\ list \subseteq allocated
  BY DEF FidQuiet, TypeOK
<1>2. NumbersInv'
  <2>1. CASE SameWalks
    <3>1. Walking' = Walking
      BY <2>1 DEF SameWalks, Walking
    <3> QED
      BY <2>1, <3>1 DEF FidQuiet, SameWalks, NumbersInv
  <2> QED
    BY <2>1
<1>3. ASSUME NEW t \in Threads PROVE ThreadFid(t)'
  <2>1. at[t] \in Making => act[t].np \in Nodes
    BY <1>1 DEF Core, MakingInv, MakingOK
  <2>2. ThreadFid(t)
    OBVIOUS
  <2>3. act'[t].fid \in 0 .. nfid' /\ (act'[t].fid # NOFID => bound'[act'[t].fid] = act'[t].file)
    BY <2>2 DEF FidQuiet, ThreadFid, TypeOK
  <2>4. at'[t] \in {"idle", "walk", "hold", "efault"} \/ act'[t].dir = Null => act'[t].fid = NOFID
    BY <2>2 DEF FidQuiet, ThreadFid
  <2>5. at'[t] \in Making => act'[t].fid # NOFID /\ node'[act'[t].np].fid = act'[t].fid
    BY <2>1, <2>2 DEF FidQuiet, ThreadFid
  <2>6. (at'[t] = "failed" => act'[t].fid # NOFID) /\ (at'[t] = "walk" => act'[t].dir # Null)
    BY DEF FidQuiet
  <2> QED
    BY <2>3, <2>4, <2>5, <2>6 DEF ThreadFid
<1>4. (\A b \in allocated : NodeFid(b))'
  BY <1>1 DEF FidQuiet, NodeFid, TypeOK
<1>5. OneOwner'
  <2>1. \A s, t \in Threads : act'[s].fid = act'[t].fid /\ act'[t].fid # NOFID => s = t
    BY DEF FidQuiet, OneOwner
  <2>2. \A b, c \in allocated' : node'[b].fid = node'[c].fid => b = c
    BY <1>1 DEF FidQuiet, OneOwner
  <2>3. ASSUME NEW t \in Threads, NEW b \in allocated', act'[t].fid = node'[b].fid
        PROVE  at'[t] \in Making \cup {"got"} /\ act'[t].np = b
    <3>1. act[t].fid = node[b].fid /\ node[b].fid \in 1 .. nfid
      BY <1>1, <2>3 DEF FidQuiet, NodeFid
    <3>2. at[t] \in Making \cup {"got"} /\ act[t].np = b /\ act[t].fid # NOFID
      BY <1>1, <3>1 DEF OneOwner, NOFID
    <3> QED
      BY <3>2 DEF FidQuiet
  <2> QED
    BY <2>1, <2>2, <2>3 DEF OneOwner
<1>6. (\A v \in Vnodes : ClunkedFid(v))'
  <2>1. \A v \in Vnodes : vnode[v].is = "clunked" => vnode[v].np \in Nodes
    BY <1>1 DEF Core, VnodeInv, Paired
  <2> QED
    BY <2>1 DEF FidQuiet, ClunkedFid
<1>7. FidsAccounted'
  BY <1>1 DEF FidQuiet, FidsAccounted, OfNode, OfLookup
<1> QED
  BY <1>2, <1>3, <1>4, <1>5, <1>6, <1>7

(* A search that goes on.                                                  *)
LEMMA OnlyAct ==
    ASSUME TypeOK, FidInv, NEW t \in Threads, NEW place \in {"asleep", "reload"}, at[t] = "search",
           at' = [at EXCEPT ![t] = place],
           \A s \in Threads \ {t} : act'[s] = act[s],
           act'[t].fid = act[t].fid /\ act'[t].file = act[t].file /\ act'[t].dir = act[t].dir,
           UNCHANGED <<nfid, bound, allocated, unclunked, list, vnode>>,
           \A c \in Nodes : node'[c].fid = node[c].fid /\ node'[c].file = node[c].file
    PROVE  FidQuiet /\ SameWalks
<1>1. ASSUME NEW s \in Threads
      PROVE  /\ act'[s].fid = act[s].fid /\ (at'[s] = "walk" <=> at[s] = "walk")
             /\ act[s].fid # NOFID => act'[s].file = act[s].file /\ act'[s].dir # Null
             /\ at'[s] \in {"idle", "walk", "hold", "efault"} => act[s].fid = NOFID
             /\ at'[s] = "walk" => act'[s].dir # Null
             /\ at[s] \in Making \cup {"got"} => at'[s] \in Making \cup {"got"} /\ act'[s].np = act[s].np
             /\ at'[s] \in Making => at[s] \in Making /\ act'[s].np = act[s].np
             /\ at'[s] = "failed" => act[s].fid # NOFID
  <2>1. ThreadFid(s) /\ at \in [Threads -> Places]
    BY DEF FidInv, TypeOK
  <2>2. CASE s = t
    BY <2>1, <2>2 DEF ThreadFid, Making
  <2>3. CASE s # t
    BY <2>1, <2>3 DEF ThreadFid
  <2> QED
    BY <2>2, <2>3
<1> QED
  BY <1>1 DEF FidQuiet, SameWalks, TypeOK

(* nget_9p up to the node's readiness, and the threads that have no fid.   *)
LEMMA QuietThread ==
    ASSUME TypeOK, Core, FidInv, ~broken, NEW t \in Threads,
           \/ \E v \in Vnodes : LookupCached(t, v)
           \/ \E f \in Files : BeginVget(t, f)
           \/ \E b \in Nodes : SleepOnInit(t, b) \/ SleepOnRecl(t, b) \/ ReadVid(t, b)
           \/ ReloadVp(t) \/ GetVnode(t) \/ GetVnodeFails(t) \/ NlockFound(t)
           \/ VgetAbsent(t) \/ NoMemory(t) \/ Ngetdir(t)
           \/ \E v \in Vnodes : CreateVnode(t, v)
           \/ CreateVnodeFails(t) \/ NodeReady(t) \/ VgetGot(t) \/ PutVnode(t)
    PROVE  FidQuiet /\ SameWalks
<1>0. /\ ThreadFid(t) /\ act \in [Threads -> ActType] /\ at \in [Threads -> Places]
      /\ node \in [Nodes -> NodeType] /\ vnode \in [Vnodes -> VnodeType]
      /\ \A s \in Threads : ThreadFid(s)
  BY DEF FidInv, TypeOK
<1>nat. nfid \in Nat
  BY DEF TypeOK
<1> USE <1>nat
<1> USE DEF FidQuiet, SameWalks, Goto, Making
<1>1. ASSUME NEW v \in Vnodes, LookupCached(t, v) PROVE FidQuiet /\ SameWalks
  BY <1>0, <1>1 DEF LookupCached, Act, ThreadFid, VnodeType
<1>2. ASSUME NEW f \in Files, BeginVget(t, f) PROVE FidQuiet /\ SameWalks
  BY <1>0, <1>2 DEF BeginVget, Act, ThreadFid
<1>3. ASSUME NEW b \in Nodes, SleepOnInit(t, b) \/ SleepOnRecl(t, b) PROVE FidQuiet /\ SameWalks
  <2>1. /\ at[t] = "search" /\ at' = [at EXCEPT ![t] = "asleep"] /\ act' = [act EXCEPT ![t].np = b]
        /\ UNCHANGED <<nfid, bound, allocated, unclunked, list, vnode>>
    BY <1>3 DEF SleepOnInit, SleepOnRecl, SleepOnNode, Searches
  <2>2. \A c \in Nodes : node'[c].fid = node[c].fid /\ node'[c].file = node[c].file
    BY <1>0, <1>3 DEF SleepOnInit, SleepOnRecl, SleepOnNode, NodeType
  <2>3. /\ \A s \in Threads \ {t} : act'[s] = act[s]
        /\ act'[t].fid = act[t].fid /\ act'[t].file = act[t].file /\ act'[t].dir = act[t].dir
    BY <1>0, <2>1 DEF ActType
  <2> HIDE DEF FidQuiet, SameWalks
  <2> QED
    BY <2>1, <2>2, <2>3, OnlyAct
<1>4. ASSUME NEW b \in Nodes, ReadVid(t, b) PROVE FidQuiet /\ SameWalks
  <2>1. /\ at[t] = "search" /\ at' = [at EXCEPT ![t] = "reload"]
        /\ act' = [act EXCEPT ![t] = [@ EXCEPT !.np = b, !.vid = vnode[node[b].vp].vid]]
        /\ UNCHANGED <<nfid, bound, allocated, unclunked, list, node, vnode>>
    BY <1>4 DEF ReadVid, Searches
  <2>3. /\ \A s \in Threads \ {t} : act'[s] = act[s]
        /\ act'[t].fid = act[t].fid /\ act'[t].file = act[t].file /\ act'[t].dir = act[t].dir
    BY <1>0, <2>1 DEF ActType
  <2> HIDE DEF FidQuiet, SameWalks
  <2> QED
    BY <2>1, <2>3, OnlyAct
<1>5. CASE ReloadVp(t)
  BY <1>0, <1>5 DEF ReloadVp, ThreadFid, ActType
<1>6. CASE GetVnode(t)
  BY <1>0, <1>6 DEF GetVnode, ThreadFid, ActType, VnodeType
<1>7. CASE GetVnodeFails(t)
  BY <1>0, <1>7 DEF GetVnodeFails, ThreadFid, ActType
<1>8. CASE NlockFound(t)
  BY <1>0, <1>8 DEF NlockFound, ThreadFid, NodeType
<1>9. CASE VgetAbsent(t) \/ NoMemory(t)
  BY <1>0, <1>9 DEF VgetAbsent, NoMemory, Absent, Searches, ThreadFid
<1>10. CASE Ngetdir(t) \/ CreateVnodeFails(t)
  BY <1>0, <1>10 DEF Ngetdir, CreateVnodeFails, ThreadFid
<1>11. ASSUME NEW v \in Vnodes, CreateVnode(t, v) PROVE FidQuiet /\ SameWalks
  BY <1>0, <1>11 DEF CreateVnode, ThreadFid, ActType, NodeType, VnodeType
<1>12. CASE NodeReady(t)
  BY <1>0, <1>12 DEF NodeReady, WakeIf, WakeupAnd, ThreadFid, NodeType
<1>13. CASE VgetGot(t)
  BY <1>0, <1>13 DEF VgetGot, ReturnNode, Act, ThreadFid, NodeType, VnodeType
<1>14. CASE PutVnode(t)
  BY <1>0, <1>14 DEF PutVnode, NoAct, Act, ThreadFid, VnodeType
<1> QED
  BY <1>1, <1>2, <1>3, <1>4, <1>5, <1>6, <1>7, <1>8, <1>9, <1>10, <1>11, <1>12, <1>13, <1>14

LEMMA QuietKernel ==
    ASSUME TypeOK, Core, FidInv, ~broken,
           \/ \E v \in Vnodes : Terminate(v) \/ ReclaimLock(v) \/ ReclaimDel(v)
           \/ BeginUnmount \/ UnmountBusy
    PROVE  FidQuiet /\ SameWalks
<1>0. /\ \A s \in Threads : ThreadFid(s)
      /\ node \in [Nodes -> NodeType] /\ vnode \in [Vnodes -> VnodeType]
  BY DEF FidInv, TypeOK
<1>nat. nfid \in Nat
  BY DEF TypeOK
<1> USE <1>nat
<1> USE DEF FidQuiet, SameWalks, Making, VnodeGoes
<1>1. ASSUME NEW v \in Vnodes, Terminate(v) PROVE FidQuiet /\ SameWalks
  BY <1>0, <1>1 DEF Terminate, ThreadFid, VnodeType
<1>2. ASSUME NEW v \in Vnodes, ReclaimLock(v) PROVE FidQuiet /\ SameWalks
  <2>1. UNCHANGED <<allocated, list, nfid, bound, unclunked, at, act>>
    BY <1>2 DEF ReclaimLock
  <2>2. \A b \in Nodes : node'[b].fid = node[b].fid /\ node'[b].file = node[b].file
    BY <1>0, <1>2 DEF ReclaimLock, NodeType
  <2>3. \A w \in Vnodes : vnode'[w].is = "clunked" => vnode[w].is = "clunked" /\ vnode'[w].np = vnode[w].np
    BY <1>0, <1>2 DEF ReclaimLock, VnodeType
  <2> QED
    BY <1>0, <2>1, <2>2, <2>3 DEF ThreadFid
<1>3. ASSUME NEW v \in Vnodes, ReclaimDel(v) PROVE FidQuiet /\ SameWalks
  BY <1>0, <1>3 DEF ReclaimDel, ThreadFid, NodeType, VnodeType
<1>4. CASE BeginUnmount \/ UnmountBusy
  BY <1>0, <1>4 DEF BeginUnmount, UnmountBusy, ThreadFid
<1> QED
  BY <1>1, <1>2, <1>3, <1>4

-----------------------------------------------------------------------------
(* The walk of a lookup takes a number.                                    *)
LEMMA WalkCount ==
    ASSUME NEW t \in Threads
    PROVE  /\ IsFiniteSet(Walking) /\ Cardinality(Walking) \in Nat
           /\ t \in Walking => Cardinality(Walking \ {t}) = Cardinality(Walking) - 1
           /\ t \notin Walking => Cardinality(Walking \cup {t}) = Cardinality(Walking) + 1
<1>1. IsFiniteSet(Walking)
  BY FS_Subset DEF Walking
<1> QED
  BY <1>1, FS_CardinalityType, FS_AddElement, FS_RemoveElement

LEMMA BeginLookupFids ==
    ASSUME TypeOK, Core, FidInv, NEW t \in Threads, NEW d \in Dirs, NEW f \in Files, BeginLookup(t, d, f)
    PROVE  FidInv'
<1>1. /\ at[t] = "idle" /\ nfid + Cardinality(Walking) < MaxFid
      /\ at' = [at EXCEPT ![t] = "walk"] /\ act' = [act EXCEPT ![t] = Act(f, d, Null)]
      /\ UNCHANGED <<nfid, bound, allocated, unclunked, list, node, vnode>>
  BY DEF BeginLookup, Goto
<1>2. NumbersInv'
  <2>1. Walking' = Walking \cup {t} /\ t \notin Walking
    BY <1>1 DEF Walking, TypeOK
  <2>2. nfid + Cardinality(Walking') <= MaxFid
    BY <1>1, <2>1, WalkCount DEF TypeOK
  <2> QED
    BY <1>1, <2>2 DEF NumbersInv, FidInv
<1>3. ASSUME NEW s \in Threads
      PROVE  /\ act'[s].fid = act[s].fid /\ (at'[s] = "walk" => act'[s].dir # Null)
             /\ act[s].fid # NOFID => act'[s].file = act[s].file /\ act'[s].dir # Null
             /\ at'[s] \in {"idle", "walk", "hold", "efault"} => act[s].fid = NOFID
             /\ at[s] \in Making \cup {"got"} /\ act[s].fid # NOFID =>
                   at'[s] \in Making \cup {"got"} /\ act'[s].np = act[s].np
             /\ at'[s] \in Making => at[s] \in Making /\ act'[s].np = act[s].np
             /\ at'[s] = "failed" => act[s].fid # NOFID
  <2>1. ThreadFid(s) /\ d # Null
    BY DEF FidInv
  <2>2. CASE s = t
    BY <1>1, <2>1, <2>2 DEF ThreadFid, Act, Making, TypeOK
  <2>3. CASE s # t
    BY <1>1, <2>1, <2>3 DEF ThreadFid, TypeOK
  <2> QED
    BY <2>2, <2>3
<1>4. FidQuiet
  BY <1>1, <1>3 DEF FidQuiet, TypeOK
<1> QED
  BY <1>2, <1>4, FidQuietKeeps

LEMMA WalkFailsFids == ASSUME TypeOK, Core, FidInv, NEW t \in Threads, WalkFails(t) PROVE FidInv'
<1>1. /\ at[t] = "walk" /\ nfid' = nfid + 1
      /\ at' = [at EXCEPT ![t] = "idle"] /\ act' = [act EXCEPT ![t] = NoAct]
      /\ UNCHANGED <<bound, allocated, unclunked, list, node, vnode>>
  BY DEF WalkFails, Goto
<1>2. NumbersInv'
  <2>1. Walking' = Walking \ {t} /\ t \in Walking
    BY <1>1 DEF Walking, TypeOK
  <2>2. nfid' + Cardinality(Walking') <= MaxFid
    BY <1>1, <2>1, WalkCount DEF TypeOK, NumbersInv, FidInv
  <2> QED
    BY <1>1, <2>2 DEF NumbersInv, FidInv, TypeOK, Fids
<1>3. ASSUME NEW s \in Threads
      PROVE  /\ act'[s].fid = act[s].fid /\ (at'[s] = "walk" => act'[s].dir # Null)
             /\ act[s].fid # NOFID => act'[s].file = act[s].file /\ act'[s].dir # Null
             /\ at'[s] \in {"idle", "walk", "hold", "efault"} => act[s].fid = NOFID
             /\ at[s] \in Making \cup {"got"} /\ act[s].fid # NOFID =>
                   at'[s] \in Making \cup {"got"} /\ act'[s].np = act[s].np
             /\ at'[s] \in Making => at[s] \in Making /\ act'[s].np = act[s].np
             /\ at'[s] = "failed" => act[s].fid # NOFID
  <2>1. ThreadFid(s)
    BY DEF FidInv
  <2>2. CASE s = t
    BY <1>1, <2>1, <2>2 DEF ThreadFid, NoAct, Act, Making, TypeOK
  <2>3. CASE s # t
    BY <1>1, <2>1, <2>3 DEF ThreadFid, TypeOK
  <2> QED
    BY <2>2, <2>3
<1>4. FidQuiet
  BY <1>1, <1>3 DEF FidQuiet, TypeOK
<1> QED
  BY <1>2, <1>4, FidQuietKeeps

(* The new fid is nobody's yet.                                            *)
LEMMA WalkFids == ASSUME TypeOK, Core, FidInv, NEW t \in Threads, Walk(t) PROVE FidInv'
<1> USE DEF FidInv
<1>0. PICK g \in Nat : g = nfid + 1
  BY DEF TypeOK
<1>1. /\ at[t] = "walk" /\ nfid' = g /\ bound' = [bound EXCEPT ![g] = act[t].file]
      /\ at' = [at EXCEPT ![t] = "search"] /\ act' = [act EXCEPT ![t].fid = g]
      /\ UNCHANGED <<allocated, unclunked, list, node, vnode>>
  BY <1>0 DEF Walk, Goto
<1>2. Walking' = Walking \ {t} /\ t \in Walking
  BY <1>1 DEF Walking, TypeOK
<1>3. nfid' + Cardinality(Walking') <= MaxFid
  BY <1>0, <1>1, <1>2, WalkCount DEF TypeOK, NumbersInv
<1>4. g \in Fids
  <2>1. Cardinality(Walking') \in Nat
    BY <1>2, WalkCount, FS_RemoveElement, FS_CardinalityType
  <2> QED
    BY <1>0, <1>1, <1>3, <2>1 DEF Fids, TypeOK
<1>5. /\ bound'[g] = act[t].file /\ \A f \in Fids : f # g => bound'[f] = bound[f]
      /\ \A f \in 0 .. nfid : bound'[f] = bound[f]
  BY <1>0, <1>1, <1>4 DEF TypeOK
<1>6. /\ act'[t].fid = g /\ act'[t].file = act[t].file /\ act'[t].dir = act[t].dir /\ act'[t].np = act[t].np
      /\ at'[t] = "search" /\ \A s \in Threads : s # t => act'[s] = act[s] /\ at'[s] = at[s]
  BY <1>1 DEF TypeOK, ActType
<1>7. NumbersInv'
  BY <1>0, <1>1, <1>3, <1>5 DEF NumbersInv, Fids, TypeOK
<1>8. ASSUME NEW s \in Threads PROVE ThreadFid(s)'
  <2>1. CASE s = t
    BY <1>0, <1>1, <1>5, <1>6, <2>1 DEF ThreadFid, Making, NOFID
  <2>2. CASE s # t
    <3>1. ThreadFid(s) /\ at'[s] = at[s] /\ act'[s] = act[s]
      BY <1>6, <2>2
    <3>2. act[s].fid \in 0 .. nfid'
      BY <1>0, <1>1, <3>1 DEF ThreadFid, TypeOK
    <3> QED
      BY <1>1, <1>5, <3>1, <3>2 DEF ThreadFid
  <2> QED
    BY <2>1, <2>2
<1>9. ASSUME NEW b \in allocated PROVE NodeFid(b)'
  <2>1. node[b].fid \in 1 .. nfid /\ node[b].fid \in 0 .. nfid /\ node[b].fid \in 1 .. nfid'
    BY <1>0, <1>1 DEF NodeFid, TypeOK
  <2> QED
    BY <1>1, <1>5, <2>1 DEF NodeFid
<1>10. OneOwner'
  <2>1. \A s \in Threads : act[s].fid # g
    BY <1>0 DEF ThreadFid, TypeOK
  <2>2. \A b \in allocated : node[b].fid # g
    BY <1>0 DEF NodeFid, TypeOK
  <2>3. \A r, s \in Threads : act'[r].fid = act'[s].fid /\ act'[s].fid # NOFID => r = s
    BY <1>6, <2>1 DEF OneOwner
  <2>4. \A s \in Threads, b \in allocated :
           act'[s].fid = node[b].fid => at'[s] \in Making \cup {"got"} /\ act'[s].np = b
    BY <1>6, <2>2 DEF OneOwner
  <2> QED
    BY <1>1, <2>3, <2>4 DEF OneOwner
<1>11. ASSUME NEW v \in Vnodes PROVE ClunkedFid(v)'
  <2>1. vnode[v].is = "clunked" => vnode[v].np \in allocated
    BY DEF Core, VnodeInv, Paired
  <2>2. vnode[v].is = "clunked" => node[vnode[v].np].fid \in 0 .. nfid
    BY <2>1 DEF NodeFid
  <2> QED
    BY <1>1, <1>5, <2>2 DEF ClunkedFid
<1>12. FidsAccounted'
  <2> SUFFICES ASSUME NEW f \in Fids, bound'[f] # Null PROVE OfNode(f)' \/ OfLookup(f)' \/ f \in unclunked
    BY <1>1 DEF FidsAccounted
  <2>1. CASE f = g
    BY <1>6, <2>1 DEF OfLookup
  <2>2. CASE f # g
    <3>1. OfNode(f) \/ OfLookup(f) \/ f \in unclunked
      BY <1>5, <2>2 DEF FidsAccounted
    <3>2. OfLookup(f) => OfLookup(f)'
      <4>1. ASSUME NEW s \in Threads, act[s].fid = f PROVE s # t
        BY <1>1, <4>1 DEF ThreadFid, Fids, NOFID
      <4> QED
        BY <1>6, <4>1 DEF OfLookup
    <3> QED
      BY <1>1, <3>1, <3>2 DEF OfNode
  <2> QED
    BY <2>1, <2>2
<1> QED
  BY <1>1, <1>7, <1>8, <1>9, <1>10, <1>11, <1>12

(* The lookup's fid becomes its node's.                                    *)
LEMMA InsertNodeFids ==
    ASSUME TypeOK, Core, FidInv, NEW t \in Threads, NEW b \in Nodes, InsertNode(t, b) PROVE FidInv'
<1> USE DEF FidInv
<1>1. /\ at[t] = "search" /\ act[t].fid # NOFID /\ b \notin allocated
      /\ allocated' = allocated \cup {b} /\ list' = list \cup {b}
      /\ node' = [node EXCEPT ![b] = [file |-> act[t].file, fid |-> act[t].fid,
                                      flags |-> {"INIT"}, vp |-> Null, lck |-> t]]
      /\ at' = [at EXCEPT ![t] = "stat"] /\ act' = [act EXCEPT ![t].np = b]
      /\ UNCHANGED <<nfid, bound, unclunked, vnode>>
  BY DEF InsertNode, Absent, Searches, Goto
<1>2. /\ \A s \in Threads : act'[s].fid = act[s].fid /\ act'[s].file = act[s].file /\ act'[s].dir = act[s].dir
      /\ act'[t].np = b /\ at'[t] = "stat"
      /\ \A s \in Threads : s # t => act'[s] = act[s] /\ at'[s] = at[s]
      /\ node'[b].fid = act[t].fid /\ node'[b].file = act[t].file /\ \A c \in Nodes : c # b => node'[c] = node[c]
      /\ allocated \subseteq Nodes /\ list \subseteq allocated /\ nfid \in Nat
  BY <1>1 DEF TypeOK, ActType
<1>3. NumbersInv'
  <2>1. Walking' = Walking
    BY <1>1, <1>2 DEF Walking
  <2> QED
    BY <1>1, <2>1 DEF NumbersInv
<1>4. ASSUME NEW s \in Threads PROVE ThreadFid(s)'
  <2>1. CASE s = t
    BY <1>1, <1>2, <2>1 DEF ThreadFid, Making
  <2>2. CASE s # t
    <3>1. at[s] \in Making => act[s].np \in allocated
      BY <1>2 DEF Core, MakingInv, MakingOK
    <3>2. at[s] \in Making => node'[act[s].np] = node[act[s].np]
      BY <1>1, <1>2, <3>1
    <3> QED
      BY <1>1, <1>2, <2>2, <3>2 DEF ThreadFid
  <2> QED
    BY <2>1, <2>2
<1>5. ASSUME NEW c \in allocated' PROVE NodeFid(c)'
  <2>1. CASE c = b
    BY <1>1, <1>2, <2>1 DEF NodeFid, ThreadFid, NOFID
  <2>2. CASE c # b
    BY <1>1, <1>2, <2>2 DEF NodeFid
  <2> QED
    BY <2>1, <2>2
<1>6. OneOwner'
  <2>1. \A c \in allocated : node[c].fid # act[t].fid
    BY <1>1 DEF OneOwner, Making
  <2>2. \A c, d \in allocated' : node'[c].fid = node'[d].fid => c = d
    BY <1>1, <1>2, <2>1 DEF OneOwner
  <2>3. ASSUME NEW s \in Threads, NEW c \in allocated', act'[s].fid = node'[c].fid
        PROVE  at'[s] \in Making \cup {"got"} /\ act'[s].np = c
    <3>1. CASE c = b
      BY <1>1, <1>2, <2>3, <3>1 DEF OneOwner, Making
    <3>2. CASE c # b
      BY <1>1, <1>2, <2>1, <2>3, <3>2 DEF OneOwner
    <3> QED
      BY <3>1, <3>2
  <2> QED
    BY <1>2, <2>2, <2>3 DEF OneOwner
<1>7. ASSUME NEW v \in Vnodes PROVE ClunkedFid(v)'
  <2>1. vnode[v].is = "clunked" => vnode[v].np \in allocated
    BY DEF Core, VnodeInv, Paired
  <2> QED
    BY <1>1, <1>2, <2>1 DEF ClunkedFid
<1>8. FidsAccounted'
  BY <1>1, <1>2 DEF FidsAccounted, OfNode, OfLookup
<1> QED
  BY <1>3, <1>4, <1>5, <1>6, <1>7, <1>8

(* Every fid in use is one the server may have bound.                      *)
LEMMA FidsInRange ==
    ASSUME TypeOK, FidInv
    PROVE  /\ \A b \in allocated : node[b].fid \in Fids
           /\ \A t \in Threads : act[t].fid # NOFID => act[t].fid \in Fids
<1>1. nfid \in Nat /\ nfid <= MaxFid
  <2>1. PICK n \in Nat : n = Cardinality(Walking)
    BY WalkCount, FS_CardinalityType, FS_Subset DEF Walking
  <2> QED
    BY <2>1 DEF FidInv, NumbersInv, TypeOK
<1> QED
  BY <1>1 DEF FidInv, NodeFid, ThreadFid, Fids, NOFID

(* At err1 the node is freed and its fid stays the lookup's.               *)
LEMMA Err1Fids == ASSUME TypeOK, Core, FidInv, ~broken, NEW t \in Threads, Err1(t) PROVE FidInv'
<1> USE DEF FidInv
<1>0. PICK b \in Nodes : b = act[t].np
  BY Err1Effect
<1>1. /\ at[t] = "err1" /\ at'[t] = "failed" /\ b \in list /\ list' = list \ {b} /\ allocated' = allocated \ {b}
      /\ UNCHANGED <<nfid, bound, unclunked, vnode>>
      /\ \A s \in Threads : act'[s].np = act[s].np /\ act'[s].file = act[s].file
      /\ \A s \in Threads \ {t} : at'[s] = at[s] \/ (at[s] = "asleep" /\ at'[s] = "search")
  <2>1. UNCHANGED <<nfid, bound, unclunked>>
    BY DEF Err1
  <2>2. /\ at[t] = "err1" /\ at'[t] = "failed" /\ b \in list /\ list' = list \ {b}
        /\ allocated' = allocated \ {b} /\ vnode' = vnode
    BY <1>0, Err1Effect
  <2>3. \A s \in Threads : act'[s].np = act[s].np /\ act'[s].file = act[s].file
    BY Err1Effect
  <2>4. \A s \in Threads \ {t} : at'[s] = at[s] \/ (at[s] = "asleep" /\ at'[s] = "search")
    BY Err1Effect
  <2> QED
    BY <2>1, <2>2, <2>3, <2>4
<1>2. \A s \in Threads : act'[s].fid = act[s].fid /\ act'[s].dir = act[s].dir
  BY DEF Err1, Free, TypeOK, ActType
<1>3. \A c \in Nodes : node'[c].fid = node[c].fid /\ node'[c].file = node[c].file
  BY DEF Err1, TypeOK, NodeType
<1>4. allocated \subseteq Nodes /\ list \subseteq allocated
  BY DEF TypeOK
<1>5. act[t].fid # NOFID /\ node[b].fid = act[t].fid
  BY <1>0, <1>1 DEF ThreadFid, Making
<1>6. NumbersInv'
  <2>1. Walking' = Walking
    BY <1>1 DEF Walking
  <2> QED
    BY <1>1, <2>1 DEF NumbersInv
<1>7. ASSUME NEW s \in Threads PROVE ThreadFid(s)'
  <2>1. CASE s = t
    BY <1>1, <1>2, <1>5, <2>1 DEF ThreadFid, Making
  <2>2. CASE s # t
    <3>1. at[s] \in Making => act[s].np \in Nodes
      BY <1>4 DEF Core, MakingInv, MakingOK
    <3> QED
      BY <1>1, <1>2, <1>3, <2>2, <3>1 DEF ThreadFid, Making
  <2> QED
    BY <2>1, <2>2
<1>8. (\A c \in allocated : NodeFid(c))'
  BY <1>1, <1>3, <1>4 DEF NodeFid
<1>9. OneOwner'
  <2>1. ASSUME NEW s \in Threads, NEW c \in allocated', act'[s].fid = node'[c].fid
        PROVE  at'[s] \in Making \cup {"got"} /\ act'[s].np = c
    <3>1. at[s] \in Making \cup {"got"} /\ act[s].np = c /\ c # b
      BY <1>1, <1>2, <1>3, <1>4, <2>1 DEF OneOwner
    <3>2. s # t
      BY <1>0, <3>1
    <3> QED
      BY <1>1, <3>1, <3>2 DEF Making
  <2> QED
    BY <1>1, <1>2, <1>3, <1>4, <2>1 DEF OneOwner
<1>10. ASSUME NEW v \in Vnodes PROVE ClunkedFid(v)'
  <2>1. vnode[v].is = "clunked" => vnode[v].np \in Nodes
    BY <1>4 DEF Core, VnodeInv, Paired
  <2> QED
    BY <1>1, <1>3, <2>1 DEF ClunkedFid
<1>11. FidsAccounted'
  <2> SUFFICES ASSUME NEW f \in Fids, bound[f] # Null PROVE OfNode(f)' \/ OfLookup(f)' \/ f \in unclunked
    BY <1>1 DEF FidsAccounted
  <2>1. OfLookup(f) => OfLookup(f)'
    BY <1>2 DEF OfLookup
  <2>2. OfNode(f) => OfNode(f)' \/ OfLookup(f)'
    BY <1>1, <1>2, <1>3, <1>4, <1>5 DEF OfNode, OfLookup
  <2> QED
    BY <2>1, <2>2 DEF FidsAccounted
<1> QED
  BY <1>6, <1>7, <1>8, <1>9, <1>10, <1>11

(* A lookup ends: its fid is clunked, unless its node has it.              *)
LEMMA FidGivenUp ==
    ASSUME TypeOK, Core, FidInv, NEW t \in Threads, at[t] \in {"failed", "got"}, NEW place \in {"idle", "hold"},
           at' = [at EXCEPT ![t] = place],
           \A s \in Threads \ {t} : act'[s] = act[s],
           act'[t].fid = NOFID,
           UNCHANGED <<nfid, allocated, unclunked, list, vnode>>,
           \A c \in Nodes : node'[c].fid = node[c].fid /\ node'[c].file = node[c].file,
           \/ /\ \A c \in allocated : node[c].fid # act[t].fid
              /\ bound' = [bound EXCEPT ![act[t].fid] = Null]
           \/ (\E c \in allocated : node[c].fid = act[t].fid) /\ bound' = bound
    PROVE  FidInv'
<1> USE DEF FidInv
<1>1. /\ at'[t] = place /\ \A s \in Threads : s # t => at'[s] = at[s]
      /\ allocated \subseteq Nodes /\ list \subseteq allocated
      /\ \A f \in Fids : f # act[t].fid => bound'[f] = bound[f]
      /\ \A f \in Fids : bound'[f] = bound[f] \/ bound'[f] = Null
      /\ \A c \in allocated : bound'[node[c].fid] = bound[node[c].fid]
  <2>1. /\ at'[t] = place /\ \A s \in Threads : s # t => at'[s] = at[s]
        /\ allocated \subseteq Nodes /\ list \subseteq allocated
    BY DEF TypeOK
  <2>2. bound \in [Fids -> Files \cup {Null}] /\ \A c \in allocated : node[c].fid \in Fids
    BY FidsInRange DEF TypeOK
  <2>3. CASE bound' = bound
    BY <2>1, <2>3
  <2>4. CASE bound' = [bound EXCEPT ![act[t].fid] = Null] /\ \A c \in allocated : node[c].fid # act[t].fid
    BY <2>1, <2>2, <2>4
  <2> QED
    BY <2>3, <2>4
<1>2. NumbersInv'
  <2>1. Walking' = Walking
    BY <1>1 DEF Walking
  <2> QED
    BY <1>1, <2>1 DEF NumbersInv
<1>3. ASSUME NEW s \in Threads PROVE ThreadFid(s)'
  <2>1. CASE s = t
    BY <1>1, <2>1 DEF ThreadFid, Making, NOFID, TypeOK
  <2>2. CASE s # t
    <3>1. at[s] \in Making => act[s].np \in Nodes
      BY <1>1 DEF Core, MakingInv, MakingOK
    <3>2. act[s].fid # NOFID => bound'[act[s].fid] = bound[act[s].fid]
      <4>1. act[s].fid # NOFID => act[s].fid # act[t].fid
        BY <2>2 DEF OneOwner
      <4> QED
        BY <1>1, <4>1, FidsInRange
    <3> QED
      BY <1>1, <2>2, <3>1, <3>2 DEF ThreadFid
  <2> QED
    BY <2>1, <2>2
<1>4. (\A c \in allocated : NodeFid(c))'
  BY <1>1 DEF NodeFid
<1>5. OneOwner'
  <2>1. \A c \in allocated : node[c].fid # NOFID
    BY DEF NodeFid, NOFID
  <2>2. \A r, s \in Threads : act'[r].fid = act'[s].fid /\ act'[s].fid # NOFID => r = s
    BY DEF OneOwner
  <2>3. \A c, d \in allocated : node'[c].fid = node'[d].fid => c = d
    BY <1>1 DEF OneOwner
  <2>4. \A s \in Threads, c \in allocated :
           act'[s].fid = node'[c].fid => at'[s] \in Making \cup {"got"} /\ act'[s].np = c
    BY <1>1, <2>1 DEF OneOwner
  <2> QED
    BY <2>2, <2>3, <2>4 DEF OneOwner
<1>6. ASSUME NEW v \in Vnodes PROVE ClunkedFid(v)'
  <2>1. vnode[v].is = "clunked" => vnode[v].np \in allocated
    BY DEF Core, VnodeInv, Paired
  <2> QED
    BY <1>1, <2>1 DEF ClunkedFid
<1>7. FidsAccounted'
  <2> SUFFICES ASSUME NEW f \in Fids, bound'[f] # Null PROVE OfNode(f)' \/ OfLookup(f)' \/ f \in unclunked
    BY DEF FidsAccounted
  <2>1. bound[f] # Null
    BY <1>1
  <2>2. CASE f = act[t].fid
    <3>1. bound' = bound
      BY <2>2 DEF TypeOK
    <3> QED
      BY <1>1, <2>2, <3>1 DEF OfNode, TypeOK
  <2>3. CASE f # act[t].fid
    <3>1. OfLookup(f) => OfLookup(f)'
      BY <2>3 DEF OfLookup
    <3>2. OfNode(f) => OfNode(f)'
      BY <1>1 DEF OfNode
    <3> QED
      BY <2>1, <3>1, <3>2 DEF FidsAccounted
  <2> QED
    BY <2>2, <2>3
<1> QED
  BY <1>2, <1>3, <1>4, <1>5, <1>6, <1>7

LEMMA LookupEndFids ==
    ASSUME TypeOK, Core, FidInv, ~broken, NEW t \in Threads, LookupFailed(t) \/ LookupGot(t) PROVE FidInv'
<1> USE DEF FidInv
<1>1. CASE LookupFailed(t)
  <2>1. /\ at[t] = "failed" /\ at' = [at EXCEPT ![t] = "idle"]
        /\ \A s \in Threads \ {t} : act'[s] = act[s]
        /\ act'[t].fid = NOFID
        /\ bound' = [bound EXCEPT ![act[t].fid] = Null]
        /\ UNCHANGED <<nfid, allocated, unclunked, list, node, vnode>>
    BY <1>1 DEF LookupFailed, Clunk, Goto, NoAct, Act, TypeOK
  <2>2. \A c \in allocated : node[c].fid # act[t].fid
    BY <2>1 DEF OneOwner, Making
  <2> QED
    BY <2>1, <2>2, FidGivenUp
<1>2. CASE LookupGot(t)
  <2>1. /\ at[t] = "got" /\ at' = [at EXCEPT ![t] = "hold"]
        /\ \A s \in Threads \ {t} : act'[s] = act[s]
        /\ act'[t].fid = NOFID
        /\ bound' = IF node[act[t].np].fid # act[t].fid THEN [bound EXCEPT ![act[t].fid] = Null] ELSE bound
        /\ UNCHANGED <<nfid, allocated, unclunked, list, vnode>>
        /\ \A c \in Nodes : node'[c].fid = node[c].fid /\ node'[c].file = node[c].file
    BY <1>2 DEF LookupGot, ReturnNode, Clunk, Goto, Act, TypeOK, NodeType
  <2>2. act[t].np \in allocated
    BY <2>1 DEF Core, HeldNodeLive, NodeHeld, TypeOK
  <2>3. CASE node[act[t].np].fid = act[t].fid
    BY <2>1, <2>2, <2>3, FidGivenUp
  <2>4. CASE node[act[t].np].fid # act[t].fid
    <3>1. \A c \in allocated : node[c].fid # act[t].fid
      BY <2>4 DEF OneOwner
    <3> QED
      BY <2>1, <2>4, <3>1, FidGivenUp
  <2> QED
    BY <2>3, <2>4
<1> QED
  BY <1>1, <1>2

(* The reclaim clunks a fid that no lookup and no other node has.          *)
LEMMA ReclaimClunkFids == ASSUME TypeOK, Core, FidInv, ~broken, NEW v \in Vnodes, ReclaimClunk(v) PROVE FidInv'
<1> USE DEF FidInv
<1> DEFINE b == vnode[v].np
           f == node[b].fid
<1>1. /\ vnode[v].is = "removed" /\ b \in allocated /\ b \notin list
      /\ UNCHANGED <<nfid, allocated, list, node, at, act>>
      /\ vnode' = [vnode EXCEPT ![v].is = "clunked"]
      /\ \/ unclunked' = unclunked \cup {f} /\ bound' = bound
         \/ unclunked' = unclunked /\ bound' = [bound EXCEPT ![f] = Null]
  BY DEF ReclaimClunk, VnodeGoes, Clunk, Core, VnodeInv, Paired
<1>2. /\ vnode'[v].is = "clunked" /\ \A w \in Vnodes : vnode'[w].np = vnode[w].np
      /\ \A w \in Vnodes : w # v => vnode'[w] = vnode[w]
      /\ unclunked \subseteq unclunked' /\ list \subseteq allocated
      /\ f \in Fids /\ (bound'[f] = Null \/ f \in unclunked')
      /\ \A g \in Fids : g # f => bound'[g] = bound[g]
      /\ \A g \in Fids : bound'[g] = bound[g] \/ bound'[g] = Null
      /\ \A c \in allocated : node[c].fid \in Fids
      /\ \A s \in Threads : act[s].fid # NOFID => act[s].fid \in Fids
  <2>1. /\ \A c \in allocated : node[c].fid \in Fids
        /\ \A s \in Threads : act[s].fid # NOFID => act[s].fid \in Fids
    BY FidsInRange
  <2>2. /\ vnode'[v].is = "clunked" /\ \A w \in Vnodes : vnode'[w].np = vnode[w].np
        /\ \A w \in Vnodes : w # v => vnode'[w] = vnode[w]
    BY <1>1 DEF TypeOK, VnodeType
  <2>3. unclunked \subseteq unclunked' /\ list \subseteq allocated /\ f \in Fids
    BY <1>1, <2>1 DEF TypeOK
  <2>4. /\ bound'[f] = Null \/ f \in unclunked'
        /\ \A g \in Fids : g # f => bound'[g] = bound[g]
        /\ \A g \in Fids : bound'[g] = bound[g] \/ bound'[g] = Null
    BY <1>1, <2>3 DEF TypeOK
  <2> QED
    BY <2>1, <2>2, <2>3, <2>4
<1>3. \A s \in Threads : act[s].fid # f
  <2> SUFFICES ASSUME NEW s \in Threads, act[s].fid = f PROVE b \in list
    BY <1>1
  <2>1. at[s] \in Making \cup {"got"} /\ act[s].np = b
    BY <1>1 DEF OneOwner
  <2> QED
    BY <2>1 DEF Core, MakingInv, MakingOK, HeldNodeLive, NodeHeld
<1>4. \A c \in list : node[c].fid # f
  BY <1>1, <1>2 DEF OneOwner
<1>5. NumbersInv'
  <2>1. Walking' = Walking
    BY <1>1 DEF Walking
  <2> QED
    BY <1>1, <1>2, <2>1 DEF NumbersInv
<1>6. ASSUME NEW s \in Threads PROVE ThreadFid(s)'
  BY <1>1, <1>2, <1>3 DEF ThreadFid
<1>7. (\A c \in allocated : NodeFid(c))'
  BY <1>1, <1>2, <1>4 DEF NodeFid
<1>8. OneOwner'
  BY <1>1 DEF OneOwner
<1>9. ASSUME NEW w \in Vnodes PROVE ClunkedFid(w)'
  <2>1. CASE w = v
    BY <1>1, <1>2, <2>1 DEF ClunkedFid
  <2>2. CASE w # v
    <3>1. vnode[w].is = "clunked" => vnode[w].np \in allocated
      BY DEF Core, VnodeInv, Paired
    <3> QED
      BY <1>1, <1>2, <2>2, <3>1 DEF ClunkedFid
  <2> QED
    BY <2>1, <2>2
<1>10. FidsAccounted'
  BY <1>1, <1>2 DEF FidsAccounted, OfNode, OfLookup
<1> QED
  BY <1>5, <1>6, <1>7, <1>8, <1>9, <1>10

(* The node is freed after its fid is clunked or given up for lost.        *)
LEMMA ReclaimFreeFids == ASSUME TypeOK, Core, FidInv, ~broken, NEW v \in Vnodes, ReclaimFree(v) PROVE FidInv'
<1> USE DEF FidInv
<1>0. PICK b \in Nodes : b = vnode[v].np
  BY ReclaimFreeEffect
<1>1. /\ vnode[v].is = "clunked" /\ b \in allocated /\ b \notin list /\ list' = list /\ allocated' = allocated \ {b}
      /\ UNCHANGED <<nfid, bound, unclunked>>
      /\ vnode'[v].is = "free" /\ \A w \in Vnodes : w # v => vnode'[w] = vnode[w]
      /\ \A s \in Threads : act'[s].np = act[s].np /\ act'[s].file = act[s].file
      /\ \A s \in Threads : at'[s] = at[s] \/ (at[s] = "asleep" /\ at'[s] = "search")
  <2>1. UNCHANGED <<nfid, bound, unclunked>>
    BY DEF ReclaimFree
  <2>2. \A s \in Threads : at'[s] = at[s] \/ (at[s] = "asleep" /\ at'[s] = "search")
    BY <1>0, ReclaimFreeEffect
  <2>3. \A s \in Threads : act'[s].np = act[s].np /\ act'[s].file = act[s].file
    BY <1>0, ReclaimFreeEffect
  <2> QED
    BY <1>0, <2>1, <2>2, <2>3, ReclaimFreeEffect
<1>2. \A s \in Threads : act'[s].fid = act[s].fid /\ act'[s].dir = act[s].dir
  BY DEF ReclaimFree, Free, TypeOK, ActType
<1>3. \A c \in Nodes : node'[c].fid = node[c].fid /\ node'[c].file = node[c].file
  BY DEF ReclaimFree, TypeOK, NodeType
<1>4. allocated \subseteq Nodes /\ list \subseteq allocated
  BY DEF TypeOK
<1>5. NumbersInv'
  <2>1. Walking' = Walking
    BY <1>1 DEF Walking
  <2> QED
    BY <1>1, <2>1 DEF NumbersInv
<1>6. ASSUME NEW s \in Threads PROVE ThreadFid(s)'
  <2>1. at[s] \in Making => act[s].np \in Nodes
    BY <1>4 DEF Core, MakingInv, MakingOK
  <2> QED
    BY <1>1, <1>2, <1>3, <2>1 DEF ThreadFid, Making
<1>7. (\A c \in allocated : NodeFid(c))'
  BY <1>1, <1>3, <1>4 DEF NodeFid
<1>8. OneOwner'
  <2>1. ASSUME NEW s \in Threads, NEW c \in allocated', act'[s].fid = node'[c].fid
        PROVE  at'[s] \in Making \cup {"got"} /\ act'[s].np = c
    <3>1. at[s] \in Making \cup {"got"} /\ act[s].np = c
      BY <1>1, <1>2, <1>3, <1>4, <2>1 DEF OneOwner
    <3> QED
      BY <1>1, <3>1 DEF Making
  <2> QED
    BY <1>1, <1>2, <1>3, <1>4, <2>1 DEF OneOwner
<1>9. ASSUME NEW w \in Vnodes PROVE ClunkedFid(w)'
  <2>1. vnode[w].is = "clunked" => vnode[w].np \in Nodes
    BY <1>4 DEF Core, VnodeInv, Paired
  <2> QED
    BY <1>1, <1>3, <2>1 DEF ClunkedFid
<1>10. FidsAccounted'
  <2> SUFFICES ASSUME NEW f \in Fids, bound[f] # Null PROVE OfNode(f)' \/ OfLookup(f)' \/ f \in unclunked
    BY <1>1 DEF FidsAccounted
  <2>1. OfLookup(f) => OfLookup(f)'
    BY <1>2 DEF OfLookup
  <2>2. node[b].fid = f => f \in unclunked
    BY <1>0, <1>1 DEF ClunkedFid
  <2>3. OfNode(f) => OfNode(f)' \/ f \in unclunked
    BY <1>1, <1>3, <1>4, <2>2 DEF OfNode
  <2> QED
    BY <2>1, <2>3 DEF FidsAccounted
<1> QED
  BY <1>5, <1>6, <1>7, <1>8, <1>9, <1>10

-----------------------------------------------------------------------------
LEMMA FidInit == Init => FidInv
<1> SUFFICES ASSUME Init PROVE FidInv
  OBVIOUS
<1> USE DEF Init
<1>1. Walking = {}
  BY DEF Walking
<1>2. NumbersInv
  BY <1>1, FS_EmptySet DEF NumbersInv
<1>3. \A t \in Threads : act[t].fid = NOFID /\ at[t] = "idle"
  BY DEF NoAct, Act
<1>4. \A t \in Threads : ThreadFid(t)
  BY <1>3 DEF ThreadFid, Making, NOFID
<1>5. OneOwner /\ \A b \in allocated : NodeFid(b)
  BY <1>3 DEF OneOwner
<1>6. (\A v \in Vnodes : ClunkedFid(v)) /\ FidsAccounted
  BY DEF ClunkedFid, FidsAccounted
<1> QED
  BY <1>2, <1>4, <1>5, <1>6 DEF FidInv

LEMMA FidStep == ASSUME IInv, FidInv, [Next]_vars PROVE FidInv'
<1>1. CASE Next
  <2>1. TypeOK /\ Core /\ ~broken
    BY <1>1 DEF Next, IInv
  <2>2. ASSUME FidQuiet, SameWalks PROVE FidInv'
    BY <2>1, <2>2, FidQuietKeeps
  <2>3. ASSUME NEW t \in Threads, Begin(t) PROVE FidInv'
    BY <2>1, <2>2, <2>3, QuietThread, BeginLookupFids DEF Begin
  <2>4. ASSUME NEW t \in Threads, Nget(t) PROVE FidInv'
    BY <2>1, <2>2, <2>4, QuietThread, InsertNodeFids, Err1Fids DEF Nget
  <2>5. ASSUME NEW t \in Threads, Thread(t) PROVE FidInv'
    BY <2>1, <2>2, <2>4, <2>5, QuietThread, WalkFids, WalkFailsFids, LookupEndFids DEF Thread
  <2>6. ASSUME NEW v \in Vnodes, Terminate(v) \/ Reclaim(v) PROVE FidInv'
    BY <2>1, <2>2, <2>6, QuietKernel, ReclaimClunkFids, ReclaimFreeFids DEF Reclaim
  <2>7. ASSUME BeginUnmount \/ UnmountBusy PROVE FidInv'
    BY <2>1, <2>2, <2>7, QuietKernel
  <2> QED
    BY <1>1, <2>3, <2>5, <2>6, <2>7 DEF Next
<1>2. CASE UNCHANGED vars
  BY <1>2 DEF FidInv, NumbersInv, Walking, ThreadFid, NodeFid, OneOwner, ClunkedFid, FidsAccounted,
              OfNode, OfLookup, Making
<1> QED
  BY <1>1, <1>2

LEMMA FidInvariance == Spec => []FidInv
<1>1. IInv /\ FidInv /\ [Next]_vars => FidInv'
  BY FidStep
<1> QED
  BY <1>1, FidInit, Invariance, PTL DEF Spec

(* Whatever lookups, reclaims, failures and unmounts run at once, the fid  *)
(* of a node on the hash chains is bound to the node's file at the server. *)
THEOREM NodeFidBoundHolds == Spec => []NodeFidBound
<1>1. TypeOK /\ FidInv => NodeFidBound
  BY DEF FidInv, NodeFid, NodeFidBound, TypeOK
<1> QED
  BY <1>1, TypeCorrect, FidInvariance, PTL

(* Every fid bound at the server belongs to a node or to a lookup that is  *)
(* running, or was left by a reclaim under F_UNMOUNTING.                   *)
THEOREM FidsAccountedHolds == Spec => []FidsAccounted
<1>1. FidInv => FidsAccounted
  BY DEF FidInv
<1> QED
  BY <1>1, FidInvariance, PTL
=============================================================================
