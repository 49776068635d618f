# Mac9P: specifications, model checking and proofs

Mac9P mounts 9P file servers on macOS.  The repository holds two generations of
it: a kernel extension in C (`kext/`, with the user-space tools around it) and
an FSKit extension in Swift (`fskit/`, over the library `fskit-core/`).  This
directory keeps TLA+ models of the parts whose correctness depends on order:
many requests on one connection, fids shared by tasks that interleave at every
`await`, threads that take turns on a socket, open files shared by all who use
them, and two codecs of one protocol that have to agree byte for byte.

To run: `tlc -config X.cfg M` for a pair of the table *Runs* below, `tlapm
M_proofs.tla` for the proofs.

## 1. Inventory

| Component | State it keeps | Operations | Talks to | What is hard | What makes it correct |
|---|---|---|---|---|---|
| `NinePAsyncClient` (actor) | `inflight`, `nextTag`, `readerTask`, `sock.fd`, fid pool, `rootFid` | `rpcAsync`, `cancel`, `connectAndNegotiate`, `disconnect`, reader loop, `handleIncoming`, `allocFid`/`releaseFid` | server over TCP; called by the volume's tasks | cancellation racing an answer, tag reuse, a reader outside the actor, reconnects | each call ends once, by its own message; nobody waits for ever |
| `Mac9PVolume` | `fidTable` under a lock, `dirSnapshots`, `rootItem` | mount, unmount, lookup, reclaim, read, getAttributes, enumerate | FSKit callbacks from any thread; the client | two lock sections with nothing between, errors at each `await` | the fid of an item in use names its file; no fid has two owners |
| `NinePClient` (synchronous) and the Swift codecs | socket, tag and fid counters | the same messages, one at a time | server | short directory reads, a second implementation of the wire format | sends and reads what the kernel extension does |
| Kext transport (`socket.c`) | `nmp->flags`, `nmp->lck`, socket | `rpclock`, `rpc_9p`, `rpcunlock`, connect, disconnect | VFS threads, server | sleep and wakeup, timeouts, flag word changed without the lock | one sender, no lost wakeup, replies matched |
| Kext node table (`vnops.c`) | hash of nodes, per-node locks and flags, the kernel's vnodes | `nget`, `ndel`, `lookup`, `reclaim`, `vget` | VFS, transport | creation racing reclaim, waiting flags, unlocked reads of a node, error paths that keep a lock | one node per qid, no lost wakeup, a node in use is not freed, every fid accounted for |
| Kext open files (`vnops.c`) | node locks and `lcktype`, `openfid` by mode, counts, the kernel's cache | `open`, `close`, `create`, `read`, `write`, `strategy`, `readdir`, `getattr`, `setattr`, `fsync`, `remove`, `rename` | transport, kernel | error paths and shared fids, page I/O without a lock, lock order, appends | counts exact, each open has a usable fid, no fid lost, every operation returns |
| Kext mount (`vfsops.c`) | `mount_9p` | mount, unmount, root, vget, sync | all of the kext | failure after part of a mount, busy unmount | nothing leaks, `F_UNMOUNTING` exact |
| Protocol and codec (`proto.c`, `fcall.c`) | `msize`, `F_DOTU`, the stream of bytes | one function per message | transport | three tables of layouts, two dialects, sizes that are wrong, loops over partial answers | understood by the other end, nothing else accepted, the result is what was answered |
| Version negotiation (`common/versneg.c`) | none | build the candidates | mount, clients | order, duplicates | requested first, no duplicate |
| Authentication (`auth.c`, `crypt.c`) | ticket buffers | p9any/p9sk1 exchange | auth server | -- | -- |
| User tools, installer, Xcode project | none | argument parsing, packaging | mount(2) | -- | -- |

`PROJECT.json` lists every component with its status, and under `hazards` each
place of the code where something can go wrong that a test would hardly reach,
with the properties that watch it or the reason none does.

## 2. Modules

| Module | What it is |
|---|---|
| `RpcService` | What a multiplexed connection promises its callers: a call is issued once, ends once, and ends with its own answer, its connection's loss or its own caller's cancellation. |
| `NinePAsyncClient` | The actor, its reader task, the tasks `onCancel` spawns, the connection and the server. Implements `RpcService`. |
| `MC_NinePAsyncClient` | Its instances for TLC. |
| `NinePAsyncClient_proofs` | Theorems about it, the refinement of `RpcService` among them. |
| `Mac9PVolume`, `MC_Mac9PVolume` | Items, `fidTable`, the fid pool and the server's bound fids. |
| `Mac9PVolume_proofs` | Theorems about it. |
| `KextRpc`, `MC_KextRpc` | `rpclock`, `rpc_9p`, `rpcunlock` with `F_UNMOUNTING` beside the lock bits. |
| `KextRpc_proofs` | Theorems about it. |
| `KextNodes`, `MC_KextNodes` | `nget_9p` under `vnop_lookup_9p` and `vfs_vget_9p`, against `vnop_reclaim_9p` and a busy unmount. |
| `KextNodes_proofs` | Theorems about its nodes, vnodes and locks, and about its fids. |
| `Fcall` | The codec of `fcall.c` on sequences of bytes. |
| `Fcall_proofs` | What is written is read back, and what is cut, too long or in the other dialect is refused. |
| `KextRequests` | Each request of `proto.c` over it, `recvmsg_9p`'s stream, the errors, and a server that answers rightly or not. |
| `NinePClient`, `MC_NinePClient` | The Swift codec and requests beside those of `KextRequests`, in the same exchange. |
| `KextRequests_proofs` | Theorems about the requests and the Swift client's messages, on top of `Fcall_proofs`. |
| `KextFiles`, `MC_KextFiles` | Node locks, open fids and the vnode operations that use them. |
| `KextFiles_proofs` | A theorem about the locks, and the invariants of the slots and what they count. |
| `KextFileFids_proofs` | Theorems about the slots and the fids, on top of it. |

`Mac9PVolume` stands on the fid pool of the client and assumes its calls
answered; `KextNodes` and `KextFiles` stand on `KextRpc` and take each rpc as one
step that succeeds or fails.  `NinePClient` extends `KextRequests`, which extends
`Fcall`.

Every operator headed *Mutant* is a plausible slip in the definition that
follows it, kept to show that a property notices it.  No specification uses one.

### NinePAsyncClient

The actor runs one synchronous stretch of code at a time, so each stretch is an
action: `Start` is `rpcAsync` from `allocTag` to the suspension (the tag is
taken, the continuation registered, the request written), `Cancel` is
`cancel(tag:)`, `HandleIncoming` and `FailAllInflight` are what the reader calls
on the actor.  Outside the actor run `OnCancel` (which only queues a task, and
may still run for a call that has been resumed but has not left the handler's
scope), and `ReaderLoop`, `Receive`, `ReceiveFails`, the three places of the
detached reader.  A reader is named after the connection it was started with
but reads `sock.fd` of the moment, as the code does.

`allocTag`'s loop is one action when a tag is free; when none is, it is
`AllocTagSpins`, after which nothing can enter the actor.  The tag space is
`0 .. NOTAG` with `NOTAG` reserved, as `0xFFFF` is.

Not modelled: a message arrives whole, so a `recvMessage` torn by a change of
`fd` between two `recv`s is left out, and so is a `send` that writes part of a
message and then fails; `send` does not block (`sendAll` inside the actor can
stop the reader from delivering replies when both socket buffers are full);
`deinit`, which cannot run while the reader task holds its strong reference;
the list of `Tversion` candidates, which are ordinary calls here.

### Mac9PVolume

A lookup is cut at each `await` and lock section: `BeginLookup` (allocateFid),
`Walk`/`WalkFails`/`WalkEmpty`, `CheckTable`, then `InsertEntry`, or `ClunkTemp`
and `ReleaseTemp`.  A reclaim is `Reclaim` (the lock section), `ClunkItem`,
`ReleaseItem`.  The server is the function `bound`; it drops a fid on Tclunk
whether it answers Rclunk or Rerror, as the protocol asks.  An Item is named by
the lookup that returned it.  `strayed` is a history variable with the fids that
errors, unmounts and entries written over leave in `inUseFids`, and `mishaps` one
with two things that have happened: `allocFid` has run out of numbers
("wrapped"), or a reclaim has found its file's entry with another fid than its
own item's and counted that down ("crossed").

Nothing in the code keeps two lookups of one file apart, and nothing in the model
does.  Both may find no entry and both insert; the second then writes over the
first, which alone harms nobody: each item still has its own fid
(`LiveItemBoundUncrossed`).  The harm comes with the first crossed reclaim, which
clunks a fid under an entry that others share.  The properties hold up to that
step or a wrap (`Uncrossed`), and `volume_overlap` shows what it leads to.

What the model shows, beside its properties, as exceptions they name: a refused
walk or clunk leaves its fid in `inUseFids` for ever (`strayed`), and a lookup
whose own clunk is refused after it has counted leaves the count of the shared
entry raised (`RefCountExact` counts it), so that fid is never clunked.

Assumed of FSKit: it sends no operation while a mount or unmount runs, reclaims
what it holds one item at a time, and gives the root up last.  All lookups are
of children of the root (the code treats every directory alike, by its fid).

### KextRpc

`SET` and `CLR` of `nmp->flags` compile to a load and a store.  Each thread has
a `copy`, loaded when it takes `nmp->lck` and stored later, and `MarkUnmounting`
and `UnmountBusy` change the word between the two, as `OSBitOrAtomic` does in
`vfs_unmount_9p`.  So a store may undo or revive `F_UNMOUNTING`; the properties
show that the lock bits cannot be hurt the other way round.  `rpc_9p` compares
only the type of the reply; `KindOf` says which requests share one.  `ntag` is
sent and never compared, so it is left out.

Not modelled: sizes out of range and replies `convM2S` rejects (the hazard at
`socket.c:77`), a partial write or read ended by the ten-second timeouts, the
value of the error an Rerror becomes, and the variant with `USE_UPCALL`, which
no build defines.

### KextNodes

A node is a block of memory: `allocated` says which blocks are nodes, `list`
which are on the hash chains, and `node` keeps the contents of a freed block,
since `nget_9p` may still read them.  A vnode belongs to the kernel and is never
freed; `iocount` and `vid` are the kernel's, and `vnode_getwithvid` succeeds for
a live vnode of that vid.  What `nget_9p` does in one hold of `nodelck` is one
step: `SleepOnInit`, `SleepOnRecl`, `ReadVid`, `VgetAbsent`, `NoMemory` and
`InsertNode` are the ways out of the search, `NodeReady` and `Err1` the two
later sections.  Between `ReadVid` and `GetVnode` no lock is held: `ReloadVp`
reads `np->vp` once more from a node that may be freed, or be a node again for
another file.  `stale` records that, and `broken` that such a read got a null
vnode, or a vnode whose vid agrees by chance; what the kernel does then is
undefined, and the model stops.  `vnop_reclaim_9p` is four steps for a vnode
without iocounts, and the kernel gives the vnode its new vid in the last.

What the model shows, beside its properties:

* `nget_9p` reads `np->vp` after it has dropped `nodelck` (`vnops.c:128`), and
  `broken` is reachable: a reclaim may free the node in between.
* `return EFAULT` in `nget_9p` (`vnops.c:143`) keeps `nodelck`; every later
  lookup and reclaim then waits, which is why `EveryCallEnds` excepts `Stuck`.
* `vfs_vget_9p` takes an iocount on top of the one `nget_9p` returns
  (`vfsops.c:408`) and nobody gives it back: `extra` counts them.

Not modelled: what the name cache holds (a lookup finds a live vnode in it or
does not); the shared mode of the node lock, as lookups, vget and reclaim ask
for the exclusive one; `ngetdir_9p` writing another qid than the one looked up;
the closing of directories; errors of Tclunk; `FORCECLOSE`.  An unmount finds a
directory open and ends in EBUSY.

### Fcall, KextRequests and NinePClient

`fcall.c` says three times what a message looks like: `SizeT`/`SizeR` count it,
`PutT`/`PutR` write it, `GetT`/`GetR` read it; the model keeps the three apart,
so that they could disagree.  A byte has `Byte` values, a 64-bit number stands as
its eight bytes, and a string is a sequence of bytes that a NUL ends.  What has
to be followed element by element (numbers, lists, the fields of a message, the
pieces of a directory) is a recursive function, so that it can be reasoned about.
`StatFixed`, `StatStrings`, `StatNumbers` are the parts of `convM2D`, and
`Statcheck` and `ConvD2M` go with them.

In `KextRequests` a call is `Call` (what `proto.c` builds, `SessionMsg` to
`EntryMsg`, and `SendTx`, of which `convS2M` or `sendn_9p` may fail), then the
server's `Answer`, perhaps `Arrive` for the rest of the bytes, then `Receive`
(`recvmsg_9p`, `rpc_9p`'s error and the result of the call), `ReceiveNoMem` (there
is no memory for the message) or `ReceiveFails`.  Of a message that `convM2S`
refuses `rx` keeps the type and the tag, which are set first (`HeaderSet`).  `readdirs` sends again until it reads nothing
and hands the whole to `Dirpackage`.  The server may answer in either dialect's
form, with an error of any text and number, late, in two pieces, or with a size
field that is too small, too large or of another message.

`NinePClient` has the Swift `Writer`, `Reader` and codecs and compares: in every
exchange of `KextRequests` it must have sent the same bytes for the same request
and drawn the same result from the same reply.

What the model shows, beside its properties:

* An impossible size is no error for `recvmsg_9p` (`socket.c:77`): `rpc_9p` goes
  on with a zeroed `rx`, and the rest of the message stays in the stream, which
  is `torn` from then on.
* `auth_9p` takes any Rerror for "no authentication needed" (`proto.c:60`): also
  one that `convM2S` has refused, and, as it looks at `rx` after every error, what
  an `rx` that was never set holds by chance.  And an Rerror with the text "no
  error" is a success.
* An Rwrite may claim any count, and the caller is told it as it came
  (`proto.c:202`).
* The Swift client always adds `n_uname` to Tattach, which is the 9P2000.u form;
  `SwiftSendsTheSame` says that a server which speaks 9P2000 and counts the bytes
  refuses it (see *Disagreements*).
* `readDir` stops at the first read that is not filled.  `SwiftReadsTheSame` says
  when it has the whole directory and what it returns otherwise, for every size of
  read the server's `msize` and `Chunks` make (see *Disagreements*).
* A string in a message may hold a NUL: `gstring` cuts it there, while the message
  is counted whole, so `AcceptsOnlyEncodings` compares the string before the cut.

Not modelled: memory that is short in `proto.c` itself (the buffers of
`readdirs_9p`, `dirpackage`, `stat_9p` and `wstat_9p`); values of a field that do
not fit the scaled-down byte; the
tables of `ename2errno` beyond "no error", one known text and one unknown;
answers that make the code read an address it has not set (a "no error" in reply
to Tversion or Tstat); the printing functions of `fcall.c`; UTF-8.

### KextFiles

One directory and one file in it.  Each thread runs a vnode operation from
`Begin` to its last unlock.  `NlockTake` and `NlockNote` are the two statements
of `nlock_9p`, the lock and the field `lcktype` beside it, and `Nunlock` reads
that field to choose which unlock to call, as the code does; an exclusive unlock
clears the field first (`Nunlock`, then `NunlockDrop`).  `slot[n][m]` is
`np->openfid[m]`, shared by everybody who has the node open in mode `m`.

* open: `OpenShared`, or `OpenWalk`, `OpenOpen`; `OpenWalkFails` leaves the local
  `fid` as the stack had it, and `OpenError` clunks that.
* close: `CloseDecrement`; at the last reference `Push` (the cache's pages go
  out), `CloseClunk`, `CloseReset`.
* create: `CreateClone`, `CreateFile`, `CreateWalk`, `CreateNode`, and for each a
  failure that ends in `CreateClunkOpen`, `CreateClunkFid`.
* read, write, readdir and pages: `Nread`, `Nwrite`, `Readdir`, `Strategy` choose
  the slot; state "io" is any number of requests, each on the fid the slot has at
  that moment, until `TransferEnds`.  `dirty` says that the cache has pages to
  write.
* getattr, setattr, fsync, rename, remove: one request on `np->fid`.

The server is `srv`: what each fid is and how it was opened.  It drops the fid of
a Tremove whether it removes the file or not, as the protocol says.

What the model shows, beside its properties, as exceptions the properties name:

* `vnop_open_9p` clunks an uninitialised `fid` when the walk fails
  (`vnops.c:507`); `stray` marks that a fid which was not open's own was hit.
* `ncreate_9p` counts a reference beside that of the open which follows
  (`vnops.c:395`); `kept` counts them, and such a slot is never clunked.
* A refused remove leaves the node with a fid the server no longer knows
  (`name = "refused"`).
* Pages move with no lock, so a close may clunk the fid meanwhile; and a write to
  part of a page of a file that is open for writing only fails with EBADF, as
  `nread_9p` finds no slot to read the rest of the page by.

Assumed of the kernel: it reads, writes and closes only what it has opened,
closes no descriptor in use, and asks for the rest of a page as `cluster_write`
does.  Left out: `NODE_MMAPPED` and what a mapping writes after the last close,
`iounit`, file lengths and the offsets of appends (`vnops.c:825` takes them before
the lock), `direntries`, `F_UNMOUNTING`, and reclaim, which is in `KextNodes`.

## 3. Runs

| Run | Instance | Checks |
|---|---|---|
| `async_wrap` | 3 calls, 2 tags, 2 connections, all faults | `TypeOK`, `Registration`, `ResumedOnce`, `OneReader` |
| `async_fresh` | 2 calls, 3 tags, 2 connections, all faults but a reconnect without disconnect; fair | `OwnReply`, `ImplementsService`, `EveryReadCallEnds` |
| `async_late_reply` | 3 calls, 2 tags, cancellations only | `OwnAnswer` is violated |
| `async_reader_gone` | 2 calls, one hang-up; fair | `EveryCallEnds` is violated |
| `volume` | 4 lookups, 2 files, 2 mounts, 5 fids, all faults | `TypeOK`, `LiveItemBoundUncrossed`, `PoolSound`, `FidsAccounted`, `RefCountExact` |
| `volume_overlap` | 3 lookups, no fault | `LiveItemBound` is violated |
| `kext_rpc` | 3 threads, one unmount attempt, all faults; fair | `TypeOK`, `OneSender`, `SleeperSeen`, `OwnReplyBeforeTimeout`, `EveryRpcEnds` |
| `kext_nodes` | 2 threads, 2 directories, 2 files, 2 blocks, 2 vnodes, 3 fids, 1 vget, 1 unmount, all faults | `TypeOK`, `OneNode`, `HeldNodeLive`, `SleeperSeen`, `NodeFidBound`, `FidsAccounted`, `IocountExact` |
| `kext_nodes_ends` | the same with one file and two fids; fair | `EveryCallEnds` |
| `kext_nodes_busy` | 1 unmount that ends in EBUSY | `NoFidStranded` is violated |
| `kext_requests` | 2 calls, 128 values of a byte, 2 strings, 2 entries, all answers | `TypeOK`, `RequestUnderstood`, `AcceptsOnlyEncodings`, `ResultFromReply`, `StreamAligned`, `DirsExact`, `TransfersFit`, `SwiftSendsTheSame`, `SwiftReadsTheSame` |
| `kext_files` | 2 threads, 3 operations, the file absent, closed or open for reading and for both, all faults; fair | `TypeOK`, `UnlockRight`, `SlotsExact`, `FidUsable`, `FidsAccounted`, `EveryCallEnds` |

Bounds.  Two tags are the smallest space in which one tag is held while another
comes round again, and three calls exhaust it, so the wrap and the spinning
`allocTag` both happen.  Two connections let an old reader meet a new
connection.  Two lookups of one file and one of another let a fid be reused for
another file while the first is still held; the fourth makes a count of three, or
overlaps with another when two have shared.  In `volume` the numbers below
`NOFID = 6` are one fewer than four lookups and two mounts can take, so that they
run out (in the code it takes 2^32 fids that were never released); in
`volume_overlap` they suffice.  Three threads give a holder and two sleepers, of which one
wakes, and a thread that comes in before the woken ones.  Two blocks for two
files let one be freed and used again for the other file while a thread still
has its address; three fids are two lookups whose nodes keep theirs and one that
must give its own back.  In
`kext_requests` two calls let the first be a Tversion that sets `msize` and the
dialect of the second, or leave bytes in the stream for it; `MaxMsg = 110` is
more than any message of these strings but the largest write, which must be
refused, `msize = 20` is below `IOHDRSZ` and 127 above `MaxMsg`; a directory is
read 30, 65 or 200 bytes at a time, or what `msize` leaves, so that an entry is cut,
one entry comes whole, or all come at once, below and above the `DirCount = 70`
bytes that stand for the 8192 of `readDir`.  Once a stream is out of step no further call is made on it.  In
`kext_files` a file that is open for reading and for both lets one close meet a
read through the slot it closes; three operations are a reader, the close that
disturbs it and one more, or a create, an open and a close.  The file is created
once, and nothing is begun after a stray clunk.  Calls, lookups and
files are interchangeable and used as symmetry sets in the runs that check no
liveness; only calls of the same kind are permuted.

Deadlock is not checked: in each model every call may be over and the bounds
used up, which is not an error.  That nobody waits for ever is what the liveness
properties say.

Fairness.  A task that is ready to run is scheduled, the server answers what it
owes, `recv` on a closed descriptor returns, and kernel threads that can run do.
In `kext_files` every step of an operation that has begun is fair: an rpc ends,
by the timeouts of `KextRpc` at the latest, and a node lock that is free goes to
somebody who waits for it.  `kext_requests` checks no liveness.
A reclaim the kernel has begun goes on (`vclean` does not return before it is
done), but the kernel need not begin one.
Nothing obliges anybody to start a call, to cancel, to connect or to unmount,
and no fault has to happen.  Weak fairness is enough: none of these steps is
enabled and disabled again and again by others, except taking `nmp->lck`, whose
holders are finitely many here.

### Disagreements with the repository's own words

* `async_late_reply`: "Responses are matched by tag and resume the appropriate
  waiter." (`NinePAsyncClient.swift:8`).  `cancel(tag:)` frees the tag although
  the answer is still to come; once the counter has wrapped, the late answer
  ends another call: `OwnAnswer` asks that an answer which ends a call is the
  answer to it.  9P has Tflush for this.  The wider `OwnReply` also fails once tags
  are reused, in one more way: the task a cancellation has queued may run when
  its tag is another call's, and cancel that one.
* `async_reader_gone`: "A single reader task continuously reads messages from
  the socket." (`NinePAsyncClient.swift:6`).  The reader returns after the first
  error and its handle stays, so `startReaderIfNeeded` never starts another; a
  call whose write still succeeds then waits for ever.
* `volume_overlap`: "fid lifecycle (refcount + clunk + reuse without
  collisions): **DONE (FSKit layer + fskit-core pool + tests)**"
  (`TODO.md:15`).  The table is checked and filled in two lock sections, so of two overlapping lookups both insert.
* `kext_nodes_busy`: "root gets clunk in vfs_unmount_9p()" (`vnops.c:1165`) is
  the reason a reclaim under `F_UNMOUNTING` clunks nothing.  `vfs_unmount_9p`
  sets the flag before `vflush`, and when that answers EBUSY the mount lives on
  without the fids of the nodes it reclaimed.
* `kext_requests`, `SwiftSendsTheSame`: "We always send unamenum (server may
  ignore if not dotu); harmless for MVP." (`NinePClient.swift:200`).  A server of
  9P2000 that counts the bytes of a message, as `convM2S` does, does not ignore
  the four bytes but refuses the Tattach, and the mount fails.  The property
  asserts that refusal; of every other message it asserts the bytes of `convS2M`.
* `kext_requests`, `SwiftReadsTheSame`: "Classic 9P directory reads: read
  repeatedly until empty." (`NinePClient.swift:145`).  `readDir` also stops at a
  read of fewer than 8192 bytes (line 153), which is every read of a server with a
  smaller `msize` (the one it answered is dropped, lines 99-100) or of one that
  returns whole entries.  The property asserts that a directory which does not fit
  the first such read comes back short, or as an error if an entry is cut.

The last two are stated by the property of a run that passes: it says what the
code does in the very case that the comment excludes.

## 4. Proofs

All theorems hold for every value of the constants that satisfies the named
assumptions of the modules (for instance `NOTAG \in Nat \ {0}`), with any number
of calls or threads.

* `NinePAsyncClient_proofs`.  The inductive invariant is `TypeOK`,
  `Registration`, `ResumedOnce` and the remark that a call which was started or
  whose cancellation is queued has a tag (without it `Cancel` could index
  `inflight` with anything).  From it follow `TypeCorrect`, `RegistrationHolds`
  and `ResumedOnceHolds`.  `OneReaderHolds` is inductive beside `TypeOK`.
  `OwnReplyHolds` assumes `FewCalls` (fewer calls than tags) and adds
  `FreshTags`: `nextTag` is one more than the number of calls started, so every
  call has its tag for good and an owed, travelling or queued item can only mean
  its own call.  `async_late_reply`, with more calls than tags, shows that the
  assumption is needed.
  `ImplementsServiceHolds` proves the refinement under the same assumption: each
  step that resumes calls is a `Finish` of `RpcService` with endings the service
  allows (`OwnReply` makes an answer the call's own, and a cancellation is
  delivered only where the caller asked for one), `Start` is its `Issue` or
  `Refuse`, and every other step a stutter.
* `Mac9PVolume_proofs`.  The theorems assume nothing of the order of calls, of
  their number or of the fid space but `VolumeAssumption`; lookups of one file may
  overlap and numbers may run out.  The invariant `IInv` is `TypeOK` and, as long
  as no reclaim was crossed and the numbers have not run out (`Uncrossed`), `Safe`:
  a fid is free or in use and not both, and unbound at the server while free
  (`PoolInv`); a fid in use belongs to one lookup, one reclaim, one entry, the root
  or is strayed (`OwnInv`, `HasOwner`); what the server has each bound to
  (`BoundInv`); an item that is out shares the fid of its file's entry, or is an
  `Orphan`, whose entry was written over and which alone has its fid (`ItemInv`);
  an entry counts those that share it (`CountInv`); and what is left when the root
  goes and when the volume is unmounted (`RootInv`, `UnmountedInv`).  No part is
  inductive alone: that the last reclaim may give the fid back needs `CountInv`,
  and that one needs `ItemInv`; that an insert over an entry harms nobody needs
  `OwnInv` and makes the sharers of the old entry orphans.  A reclaim by an orphan
  finds either no entry or one of another fid, and that is the crossed one.  From
  `IInv` follow `TypeCorrect`, which needs no exception, and `PoolSoundHolds`,
  `LiveItemBoundHolds`, `FidsAccountedHolds` and `RefCountExactHolds`, which hold
  while `Uncrossed`; `volume_overlap` shows that afterwards they do not.
* `KextRpc_proofs`.  The inductive invariant says that a thread between load and
  store holds `nmp->lck`, and that its copy differs from `flags` in
  `F_UNMOUNTING` only; from it `TypeCorrect` and `OneSenderHolds` (no panic
  included).  `SleeperSeenHolds` is inductive on top of it.
  `OwnReplyBeforeTimeoutHolds` adds `Outstanding`: before a timeout at most one
  request is owed or its reply travelling, and its thread is the one in `recv`.
* `KextNodes_proofs`.  The inductive invariant `IInv` is `TypeOK`, `OneNode`,
  `SleeperSeen` and, while `~broken`, `Core`: a listed node either is in
  `NODE_INIT` with its lock held by the thread that makes it, or has a vnode that
  points back to it (`ListInv`, `MakingInv`); a vnode and its node point to each
  other until the node is freed, and only a reclaim sets `NODE_RECL` (`VnodeInv`);
  what a thread has read of a node without a lock is still so, or its vid has
  become too small (`ReadInv`); the bits a sleeper has set are still set
  (`AsleepInv`).  The properties are not inductive without these: that a held
  vnode is not reclaimed needs `IocountExact`, and that the count is exact needs
  to know which vnode a lookup returns.  Each part has a lemma with a step for
  each action, and the actions that do several things at once (`Err1`,
  `NodeReady`, `ReclaimLock`, `ReclaimFree`) one that says what they change.
  They give `TypeCorrect`, `OneNodeHolds`, `HeldNodeLiveHolds`,
  `SleeperSeenHolds` and `IocountExactHolds`.  `HeldNodeLive` and `IocountExact`
  say nothing of a state with `broken`.
* Its second half adds `FidInv` to that: a number above `nfid` is not bound,
  and the walks under way will not exceed the bound (`NumbersInv`); a lookup's fid
  is bound to its file from the walk until `nget_9p` returns (`ThreadFid`); a
  listed node's fid to its file (`NodeFid`); a fid has one owner, or two that are
  a lookup and the node it is making (`OneOwner`); and a reclaim that has clunked
  leaves the fid unbound or noted as lost (`ClunkedFid`).  `NodeFidBoundHolds` and
  `FidsAccountedHolds` follow.
* `KextFiles_proofs`.  `UnlockRightHolds` needs to know what every thread has of
  a node at each statement of `nlock_9p` and `nunlock_9p`: `IInv` says that who
  is noting or holding a lock has it (`Noting`, `Holding`), that an exclusive lock
  excludes shared ones (`Excl`), that no operation asks for a node twice
  (`Distinct`), and that `ncreate_9p` holds its directory alone until it makes the
  file's node (`InDir`).  Steps in the body of an operation are `Quiet`: they
  change neither a lock nor what a thread holds, and `QuietKeeps` serves them all.

* The rest of it and `KextFileFids_proofs` go on from there, in layers
  that each use the ones before.  `PlaceInv`: a thread in the body of an operation
  has the lock the operation asks for (so two opens or closes of a node never
  overlap, `HolderAlone`), and has fids in its local variables only between the
  steps that fill and empty them.  `SlotInv`: a slot's `ref` is the opens not yet
  closed, the closes that have yet to decrement and ncreate's reference
  (`CountInv`); it is zero just when the slot has no fid, but while its last close
  is between decrement and reset (`ShutInv`); before the file's node exists nothing
  of it is open (`AbsentInv`); who reads or writes has an open that is not closed
  meanwhile (`UsingInv`); what a thread found in a slot and relies on is still so
  (`BodyInv`); and dirty pages have a slot for writing that no close is about to
  clunk, since the close pushes them first (`DirtyInv`).  `NumInv` counts the walks
  still to come, which bounds the fids.  `FidInv`: every fid the server has is
  owned or lost (`OwnedInv`), a close resets only what it has clunked (`ResetInv`),
  and, as long as `vnop_open_9p` has clunked no fid that it never walked to, each
  fid has one owner and the server has it open as that owner takes it to be
  (`BoundInv`).  `AllInv` is all of these, and `TypeCorrect`, `SlotsExactHolds`,
  `FidUsableHolds` and `FidsAccountedHolds` follow from it.  A step falls under one
  of a few lemmas: `CalmKeeps` for the many that move no fid, `ClunkKeeps` and
  `WalkKeeps` for a thread that drops or gains one, and a lemma of its own where a
  fid changes hands (`OpenOpenKeeps`, `CloseClunkKeeps`, `CloseResetKeeps`,
  `CreateFileKeeps`, `CreateNodeKeeps`, `RemovesKeep`).

* `Fcall_proofs`.  `MessageRoundTrip`: what `convS2M` writes of a message
  (`MsgOk`: each field within what its width can say), `convM2S` reads back to
  the last byte, in either dialect; `EntryRoundTrip` says it of `convD2M` and
  `convM2D`.  `CutMessage`, `LongMessage` and `OtherDialect` say what is refused.
  The argument has three layers.  A number of any width is its bytes (`Values`,
  `Numbers`), by induction over the width.  The three descriptions of a message
  agree: for each type, what `PutT` or `PutR` writes is the `Encoding` of its
  fields one after the other, as long as `SizeT` or `SizeR` says (the `Agree`
  lemmas).  And reading a list of fields where their encoding stands gives the
  fields and ends where it ends (`AllRead`), or nothing if the buffer ends before
  (`CutRead`), by induction over the list.  Inductions are over sets of numbers
  for which the claim holds, with `SetInduction` proved once from the least
  element of a set of naturals; each recursive function has a lemma that it
  exists and satisfies its equation.  Assumed (`CodecAssumption`): a byte has more
  than 127 values, so that it can say the number of every message.
* `KextRequests_proofs`.  Assumed (`RequestsAssumption`): strings have no NUL and
  are far below what 16 bits count, as `NAME_MAX` has it, `MaxMsg` and the sizes
  of the entries fit 16 bits (the buffer of the code has 10000 bytes), "no error"
  and the other error differ, and contents, counts, qids and entries are of their
  types.  The inductive invariant `IInv` is `Shape` (types); `TxOk`, that the
  message is one the call makes, with the fields of its type and within the size
  agreed; `SentOk`, that the server was sent all its bytes, or none because they
  were too many; `AnswerOk`, that the answer is one to that message; and
  `StreamOk`, which says what is in the stream: nothing, or the bytes of the
  answer in the dialect it was sent in, or, out of step, those of an answer whose
  size is wrong or what a failure has left.  Without `StreamOk` the others are not kept, since `Receive`
  works on bytes: `ReceivedIs` uses the codec's theorems to say that it gets the
  answer meant, or an empty message.  Each operation has a lemma for its request
  (`TxVersion` to `TxWstat`) and each reply one (`AnswerRversion` to
  `AnswerRflush`).  `TypeCorrect`, `Requests`, `Stream` and `Transfers` follow from
  `IInv`.  `Replied` is inductive beside it and excepts no answer of the server:
  a step of `Receive` returns 0, or one of `auth_9p` that finds an Rerror;
  `ToldBy` compares the result with the reply, and `StatAnswered` shows that
  `stat_9p` accepts no entry that is cut or in the other dialect, since each is
  read short of its end or not at all (`EntryCut`, `EntryOther`).  Of an answer
  of a wrong size or in the other dialect it has to be shown that nothing but
  `auth_9p` makes a 0 of it, and of a write only that the count is the server's.
  `SwiftRequests` follows from `IInv` and `SwiftWrites`, that the Swift codec's
  bytes are those of `convS2M` in 9P2000.u; its Tattach in 9P2000 is a
  `LongMessage`.

Only model-checked are the liveness properties, as fairness is out of the
prover's reach, and three properties of `kext_requests`:

* `AcceptsOnlyEncodings` is about every byte of an answer and every way to cut it,
  with 0 among the values a byte may get; that it holds of every length and value
  was not taken up.
* `DirsExact` needs a message size that leaves room to read: with `msize` equal to
  `IOHDRSZ` a read asks for nothing, and the listing ends at once.  The sizes of
  the run are not that one.
* `SwiftReadsTheSame` compares two readers of directories, each by recursion over
  the bytes; the equations of these functions were not taken up.

## 5. Not modelled

* Mounting and the end of an unmount (`vfsops.c`, `vfs_mount_9p` and the last
  part of `vfs_unmount_9p`): a straight line of calls with one error path that
  calls the unmount; the root node is made before anybody can look anything up.
* `connect_9p` and `disconnect_9p`: socket options and one `connect`.
* Authentication (`auth.c`, `crypt.c`): ciphers on fixed buffers and one exchange
  with a server, with no state that outlives it.
* Version negotiation (`versneg.c`): a list of at most a few names without
  duplicates, whose unit tests cover it.
* `enumerateDirectory` and `dirSnapshots` of the volume: what pages a caller sees
  depends on how FSKit uses cookies and verifiers, which the code does not say.
* A `send` that blocks inside the actor and a message torn by a change of
  descriptor (see *NinePAsyncClient*).
* `NODE_MMAPPED`, offsets of appends and the lengths the cache is told (see
  *KextFiles*).
* The user tools, the file system plug-in, the installer scripts, the Xcode
  project and the tests: they keep no state of the file system.
