---------------------------- MODULE KextRequests ----------------------------
(***************************************************************************)
(* The requests of the kernel extension (proto.c), one at a time over the  *)
(* stream of bytes recvmsg_9p reads (socket.c) in the encoding of Fcall.   *)
(* Who may send when is KextRpc's subject; here it is what is asked, what  *)
(* the server says and what the caller is told.  Memory may be short for a *)
(* message that is received; what proto.c itself allocates is there.       *)
(*                                                                         *)
(* The server is external.  It answers with any reply or error, in either  *)
(* dialect, whole, late, or with a size field that is wrong.               *)
(***************************************************************************)
EXTENDS Fcall

CONSTANTS
    Null,
    MaxMsg,      \* sizeof(nmp->rpcbuf)
    MSizes,      \* the msize a server answers
    MaxCalls,    \* bound: calls made
    Strings,     \* names and other strings of requests and replies, none empty
    VersionU,    \* the string "9P2000.u", one of Strings
    Datas,       \* contents of a read or a write
    Counts,      \* byte counts asked of a read, or said to be written
    Qids,
    Entries,     \* directory entries
    Chunks,      \* bytes of a directory the server gives at a time
    NoError,     \* "no error", the first entry of errtab
    UnknownFid   \* "unknown fid", standing for the others

(* Strings are at most NAME_MAX long, far below what 16 bits can count.     *)
ASSUME RequestsAssumption ==
    /\ \A s \in Strings \cup {NoError, UnknownFid} :
          Len(s) + STATFIXLEN + STATUEXTRALEN \in Numbers(BIT16SZ)
    /\ MaxMsg \in Numbers(BIT16SZ) /\ MaxCalls \in Numbers(BIT16SZ)
    /\ MSizes \subseteq Numbers(BIT32SZ) /\ Counts \subseteq Numbers(BIT32SZ)
    /\ Strings \subseteq CStrings \ {<<>>} /\ VersionU \in Strings
    /\ NoError \in CStrings /\ UnknownFid \in CStrings \ {NoError}
    /\ Datas \subseteq Buffers /\ (\A b \in Datas : Len(b) \in Numbers(BIT32SZ)) /\ Chunks \subseteq Nat \ {0}
    /\ Qids \subseteq QidType /\ Entries \subseteq DirType
    /\ \A d \in Entries, u \in BOOLEAN : SizeD2M(d, u) \in Numbers(BIT16SZ)

IOHDRSZ == 24
NOFID == Values(BIT32SZ) - 1
NOTAG == Values(BIT16SZ) - 1

DIRMAX == Values(BIT16SZ)

VARIABLES
    msize,    \* nmp->msize
    dotu,     \* F_DOTU
    call,     \* the last call made, or Null
    pending,  \* it has not returned
    tx,       \* its message as the caller built it
    sent,     \* the bytes the server has been sent
    said,     \* the reply the server meant and how it sent it
    wire,     \* bytes of the stream that have arrived and are unread
    coming,   \* bytes still on their way
    listing,  \* the bytes of the directory the server reads from
    buf,      \* readdirs_9p: what has been read of it
    torn,     \* history: a size field was wrong, or a send or a receive failed
    res,      \* what the last call returned
    calls     \* calls so far

nmp == <<msize, dotu>>
stream == <<wire, coming, torn>>
vars == <<nmp, call, pending, tx, sent, said, stream, listing, buf, res, calls>>

Nothing == [m |-> NoFcall, how |-> "none"]
Ret(e, v) == [e |-> e, v |-> v]

(* After a mount, or before it: then version_9p may be called.             *)
Init ==
    /\ msize = MaxMsg /\ dotu \in BOOLEAN
    /\ call = Null /\ pending = FALSE /\ tx = NoFcall /\ sent = <<>> /\ said = Nothing
    /\ wire = <<>> /\ coming = <<>> /\ torn = FALSE
    /\ listing = <<>> /\ buf = <<>> /\ res = Ret("none", Null) /\ calls = 0

-----------------------------------------------------------------------------
(* The messages proto.c builds                                             *)

Fid == 1
Offset(n) == PBIT(BIT64SZ, n)

(* nulldir: a field that is not to change is all ones, or empty.           *)
Ones(w) == Values(w) - 1
Nulldir ==
    [dtype |-> Ones(2), dev |-> Ones(4), mode |-> Ones(4), atime |-> Ones(4), mtime |-> Ones(4),
     qid |-> [type |-> Ones(1), vers |-> Ones(4), path |-> [i \in 1 .. 8 |-> Ones(1)]],
     length |-> [i \in 1 .. 8 |-> Ones(1)], name |-> <<>>, uid |-> <<>>, gid |-> <<>>,
     muid |-> <<>>, ext |-> <<>>, uidnum |-> Ones(4), gidnum |-> Ones(4), muidnum |-> Ones(4)]

Calls ==
    [op : {"version", "auth", "attach", "walk", "create", "wstat"}, name : Strings]
    \cup [op : {"clone", "open", "clunk", "remove", "stat", "readdirs"}]
    \cup [op : {"read"}, count : Counts] \cup [op : {"write"}, data : Datas]

(* Mutant: a read or a write asks for more than a message holds.           *)
ClampNot(n) == n

(* MIN(count, nmp->msize-IOHDRSZ), a subtraction of unsigned numbers       *)
Clamp(n) == Min({n, (msize - IOHDRSZ) % Values(BIT32SZ)})

StatBuf(d, u) == ConvD2M(d, SizeD2M(d, u), u)

(* version_9p, auth_9p and attach_9p                                       *)
SessionMsg(c, tag) ==
    CASE c.op = "version" -> [type |-> "Tversion", tag |-> NOTAG, msize |-> MaxMsg, version |-> c.name]
      [] c.op = "auth"    -> [type |-> "Tauth", tag |-> tag, afid |-> Fid,
                             uname |-> c.name, aname |-> c.name, unamenum |-> 0]
      [] c.op = "attach"  -> [type |-> "Tattach", tag |-> tag, fid |-> Fid, afid |-> NOFID,
                             uname |-> c.name, aname |-> c.name, unamenum |-> 0]

(* walk_9p, with a name or without, and opencreate_9p                      *)
FileMsg(c, tag) ==
    LET Walk(names) == [type |-> "Twalk", tag |-> tag, fid |-> Fid, newfid |-> Fid + 1, wname |-> names] IN
    CASE c.op = "clone"   -> Walk(<<>>)
      [] c.op = "walk"    -> Walk(<<c.name>>)
      [] c.op = "open"    -> [type |-> "Topen", tag |-> tag, fid |-> Fid, mode |-> 0]
      [] c.op = "create"  -> [type |-> "Tcreate", tag |-> tag, fid |-> Fid,
                              name |-> c.name, perm |-> 0, mode |-> 2, ext |-> c.name]

(* rdwr_9p, for read_9p, write_9p and the loop of readdirs_9p              *)
IoMsg(c, tag) ==
    LET Read(off, n) == [type |-> "Tread", tag |-> tag, fid |-> Fid, offset |-> Offset(off), count |-> n] IN
    CASE c.op = "read"     -> Read(0, Clamp(c.count))
      [] c.op = "readdirs" -> Read(Len(buf'), Clamp(DIRMAX))
      [] c.op = "write"    -> [type |-> "Twrite", tag |-> tag, fid |-> Fid, offset |-> Offset(0),
                               data |-> SubSeq(c.data, 1, Clamp(Len(c.data)))]

(* clunk_9p, remove_9p, stat_9p and wstat_9p                               *)
EntryMsg(c, tag) ==
    LET M(t) == [type |-> t, tag |-> tag, fid |-> Fid] IN
    CASE c.op = "clunk"   -> M("Tclunk")
      [] c.op = "remove"  -> M("Tremove")
      [] c.op = "stat"    -> M("Tstat")
      [] c.op = "wstat"   -> [type |-> "Twstat", tag |-> tag, fid |-> Fid,
                              stat |-> StatBuf([Nulldir EXCEPT !.name = c.name], dotu)]

Message(c, tag) ==
    CASE c.op \in {"version", "auth", "attach"}        -> SessionMsg(c, tag)
      [] c.op \in {"clone", "walk", "open", "create"}  -> FileMsg(c, tag)
      [] c.op \in {"read", "write", "readdirs"}        -> IoMsg(c, tag)
      [] c.op \in {"clunk", "remove", "stat", "wstat"} -> EntryMsg(c, tag)

(* Only version_9p, auth_9p and attach_9p set tx.tag.  What the others     *)
(* pass may happen to be NOTAG, and is then sent.                          *)
TagsOf(c) == IF c.op \in {"auth", "attach"} THEN {calls} ELSE {calls, NOTAG}

Return(e, v) == res' = Ret(e, v) /\ pending' = FALSE

(* When nothing was received auth_9p looks at an rx.type that was never    *)
(* set: by chance an Rerror, and then no authentication is no error.       *)
Refuse(c, e) ==
    \/ Return(e, Null)
    \/ c.op = "auth" /\ Return("0", NOFID)

(* What sendn_9p returns: EPIPE stands for the errors of sock_send, and    *)
(* nothing sent without one is EINVAL.                                     *)
SendErrors == {"EPIPE", "EINVAL"}

(* rpc_9p up to the answer: convS2M and sendn_9p.  Of a send that fails    *)
(* any part may have gone out.                                             *)
SendTx(c, tag) ==
    /\ tx' = Message(c, tag)
    /\ sent' = ConvS2M(tx', IF c.op = "version" THEN MaxMsg ELSE msize, dotu)
    /\ said' = Nothing
    /\ \/ sent' = <<>> /\ Refuse(c, "EINVAL") /\ torn' = torn
       \/ sent' # <<>> /\ pending' = TRUE /\ res' = Ret("none", Null) /\ torn' = torn
       \/ sent' # <<>> /\ (\E e \in SendErrors : Refuse(c, e)) /\ torn' = TRUE

Directories == {<<>>} \cup {ds \in Entries \X Entries : ds[1] # ds[2]}
Packed(ds) == Each(LAMBDA d : StatBuf(d, dotu), ds)

(* Bound: the code goes on to use a stream that is out of step, what comes *)
(* of it is not followed.                                                  *)
MayCall == ~pending /\ calls < MaxCalls /\ ~torn

(* version_9p is called once, when the file system is mounted.             *)
Call(c) ==
    /\ MayCall
    /\ c.op = "version" => calls = 0 /\ ~dotu
    /\ calls' = calls + 1 /\ call' = c /\ buf' = <<>>
    /\ \E tag \in TagsOf(c) : SendTx(c, tag)
    /\ IF c.op = "readdirs"
       THEN \E b \in {Packed(ds) : ds \in Directories}, cut \in {0, 1} :
                listing' = SubSeq(b, 1, Len(b) - cut)
       ELSE listing' = <<>>
    /\ msize' = IF c.op = "version" THEN MaxMsg ELSE msize
    /\ UNCHANGED <<dotu, wire, coming>>

(* clunk_9p of no fid                                                      *)
ClunkNofid ==
    /\ MayCall
    /\ calls' = calls + 1 /\ call' = [op |-> "clunk"] /\ buf' = <<>>
    /\ Return("EBADF", Null)
    /\ tx' = NoFcall /\ sent' = <<>> /\ said' = Nothing
    /\ listing' = <<>>
    /\ UNCHANGED <<nmp, stream>>

-----------------------------------------------------------------------------
(* The server, which keeps to the msize it agreed to                       *)

ReadFrom(q) ==
    IF call.op # "readdirs" THEN Datas
    ELSE LET rest == SubSeq(listing, GBIT(q.offset) + 1, Len(listing)) IN
         {SubSeq(rest, 1, Min({k, q.count, Len(rest), msize - HDRSZ - BIT32SZ})) : k \in Chunks}

(* In the dialect agreed, in the other one, and one byte short             *)
StatsOf(d) ==
    LET Cut(b) == {b, SubSeq(b, 1, Len(b) - 1)}
    IN {StatBuf(d, ~dotu)} \cup Cut(StatBuf(d, dotu))

Replies(q) ==
    LET r == ReplyType(q.type)
        type == {r}
        tag == {q.tag}
    IN CASE r = "Rversion" -> [type : type, tag : tag, msize : MSizes, version : Strings \cup {<<>>}]
         [] r \in {"Rauth", "Rattach"} -> [type : type, tag : tag, qid : Qids]
         [] r = "Rwalk" -> [type : type, tag : tag, wqid : {<<>>} \cup {<<i>> : i \in Qids}]
         [] r \in {"Ropen", "Rcreate"} -> [type : type, tag : tag, qid : Qids, iounit : {0}]
         [] r = "Rread" -> [type : type, tag : tag, data : ReadFrom(q)]
         [] r = "Rwrite" -> [type : type, tag : tag, count : Counts]
         [] r = "Rstat" -> [type : type, tag : tag, stat : UNION {StatsOf(d) : d \in Entries}]
         [] OTHER -> [type : type, tag : tag]

(* "no error" in answer to a Tversion or a Tstat is left out: the code     *)
(* then reads a string or an entry at address nil.                         *)
Errors(q) ==
    [type : {"Rerror"}, tag : {q.tag}, errnum : {0, 1},
     ename : {UnknownFid} \cup (IF q.type \in {"Tversion", "Tstat"} THEN {} ELSE {NoError})]

Wrong(q) == {[type |-> "Rflush", tag |-> q.tag]}

(* The ways a message is sent; each leaves what arrives now and later.     *)
WrongSize == {"tiny", "huge", "short", "long"}
Ways == WrongSize \cup {"whole", "late", "other"}

WithSize(b, n) == U32(n) \o SubSeq(b, BIT32SZ + 1, Len(b))

OnWire(b, how) ==
    CASE how \in {"whole", "other"} -> <<b, <<>>>>
      [] how = "late"  -> <<SubSeq(b, 1, Len(b) - 1), <<Last(b)>>>>
      [] how = "tiny"  -> <<WithSize(b, BIT32SZ), <<>>>>
      [] how = "huge"  -> <<WithSize(b, msize + 1), <<>>>>
      [] how = "short" -> <<WithSize(b, Len(b) - 1), <<>>>>
      [] how = "long"  -> <<WithSize(b, Len(b) + 1) \o <<NUL>>, <<>>>>

Answer ==
    /\ pending /\ said = Nothing
    /\ \E q \in {ConvM2S(sent, dotu).f} :
       \E m \in Replies(q) \cup Errors(q) \cup Wrong(q), how \in Ways :
       \E b \in {ConvS2M(m, msize - 1, (how = "other") # dotu)} :
           /\ b # <<>>
           /\ how = "other" => m.type = "Rerror"
           /\ said' = [m |-> m, how |-> how]
           /\ wire' = wire \o OnWire(b, how)[1]
           /\ coming' = OnWire(b, how)[2]
           /\ torn' = (torn \/ how \in WrongSize)
    /\ UNCHANGED <<nmp, call, pending, tx, sent, listing, buf, res, calls>>

Arrive ==
    /\ coming # <<>>
    /\ wire' = wire \o coming /\ coming' = <<>>
    /\ UNCHANGED <<nmp, call, pending, tx, sent, said, torn, listing, buf, res, calls>>

-----------------------------------------------------------------------------
(* What the caller makes of it                                             *)

(* Mutant: the size is compared with the most a read or a write carries.   *)
SizeOkIo(n) == n > BIT32SZ /\ n <= msize - IOHDRSZ

SizeOk(n) == n > BIT32SZ /\ n <= msize

WireSize == GBIT(Bytes(wire, 0, BIT32SZ))

Complete == Len(wire) >= BIT32SZ /\ (SizeOk(WireSize) => Len(wire) >= WireSize)

(* Of a message that convM2S refuses rx keeps what was set before: the     *)
(* type and the tag, once there is a header, and fields nobody looks at.   *)
HeaderSet(m) ==
    LET i == GBIT(Bytes(m, BIT32SZ, BIT8SZ)) - 99
    IN IF Len(m) < HDRSZ \/ i \notin DOMAIN MsgTypes THEN NoFcall
       ELSE [type |-> MsgTypes[i], tag |-> GBIT(Bytes(m, 5, 2))]

(* An impossible size is no error of recvmsg_9p, which leaves rx zeroed    *)
(* and what follows the size in the stream.                                *)
Recvmsg ==
    IF ~SizeOk(WireSize) THEN [e |-> "0", used |-> BIT32SZ, rx |-> NoFcall]
    ELSE LET Of(m, d) == IF d.n = WireSize THEN [e |-> "0", used |-> WireSize, rx |-> d.f]
                         ELSE [e |-> "EIO", used |-> WireSize, rx |-> HeaderSet(m)]
             Read(m) == Of(m, ConvM2S(m, dotu))
         IN Read(Bytes(wire, 0, WireSize))

(* A field of the zeroed rx that the message did not set                   *)
Field(rx, x, zero) == IF x \in DOMAIN rx THEN rx[x] ELSE zero
ZeroQid == [type |-> 0, vers |-> 0, path |-> [i \in 1 .. 8 |-> 0]]

(* errtab, of which the first entry and one other stand for all.           *)
Ename2errno(s) == CASE s = NoError -> "0" [] s = UnknownFid -> "EBADF" [] OTHER -> "EINVAL"

(* Mutant: the name is not looked at in the dialect that has numbers.      *)
ErrnoOfU(rx) ==
    IF ~dotu THEN Ename2errno(rx.ename) ELSE IF rx.errnum # 0 THEN "EIO" ELSE "0"

Errno(rx) == IF dotu /\ rx.errnum # 0 THEN "EIO" ELSE Ename2errno(rx.ename)

(* What rpc_9p returns once it has received rx.                            *)
RpcError(rx) ==
    IF rx.type = "Rerror" THEN Errno(rx)
    ELSE IF rx.type # ReplyType(tx.type) THEN "EBADRPC" ELSE "0"

(* The entries of a buffer, each as long as it says; an empty one marks    *)
(* where the buffer stops making sense.                                    *)
Pieces(b) ==
    LET from[i \in 0 .. Len(b)] ==
            LET One(m) == IF ~Fits(b, i, m) \/ ~Statcheck(Bytes(b, i, m), dotu) THEN <<<<>>>>
                          ELSE <<Bytes(b, i, m)>> \o from[i + m]
            IN IF i = Len(b) THEN <<>>
               ELSE IF ~Fits(b, i, BIT16SZ) THEN <<<<>>>>
               ELSE One(BIT16SZ + GBIT(Bytes(b, i, BIT16SZ)))
    IN from[0]

Dirpackage(b) ==
    LET Read(p) == IF p = <<>> THEN Refused ELSE ConvM2D(p, dotu)
        Checked(ps, ds) == IF \A i \in DOMAIN ps : ps[i] # <<>> /\ ds[i].n = Len(ps[i])
                           THEN Ret("0", [i \in DOMAIN ds |-> ds[i].f])
                           ELSE Ret("EBADRPC", Null)
        ReadEach(ps) == Checked(ps, [i \in DOMAIN ps |-> Read(ps[i])])
    IN ReadEach(Pieces(b))

LastQid(rx) ==
    LET qs == Field(rx, "wqid", <<>>) IN IF qs = <<>> THEN ZeroQid ELSE Last(qs)

(* What each of the calls returns once rpc_9p has returned 0.              *)
Result(rx) ==
    CASE call.op = "version" -> IF rx.version = <<>> THEN Ret("EINVAL", Null) ELSE Ret("0", rx.version)
      [] call.op = "auth"    -> Ret("0", tx.afid)
      [] call.op = "attach"  -> Ret("0", Field(rx, "qid", ZeroQid))
      [] call.op = "clone"   -> Ret("0", LastQid(rx))
      [] call.op = "walk"    -> IF Field(rx, "wqid", <<>>) = <<>> THEN Ret("ENOENT", Null)
                                ELSE Ret("0", LastQid(rx))
      [] call.op \in {"open", "create"} -> Ret("0", <<Field(rx, "qid", ZeroQid), Field(rx, "iounit", 0)>>)
      [] call.op = "read"    -> LET d == Field(rx, "data", <<>>) IN
                                Ret("0", SubSeq(d, 1, Min({Len(d), tx.count})))
      [] call.op = "write"   -> Ret("0", Field(rx, "count", 0))
      [] call.op = "stat"    -> LET Read(d) == IF d.n # Len(rx.stat) THEN Ret("EBADRPC", Null)
                                               ELSE Ret("0", d.f)
                                IN Read(ConvM2D(rx.stat, dotu))
      [] call.op = "readdirs" -> Dirpackage(buf)
      [] OTHER               -> Ret("0", Null)

ReadAgain(rx) == call.op = "readdirs" /\ Field(rx, "data", <<>>) # <<>>

Receive ==
    /\ pending /\ Complete
    /\ \E r \in {Recvmsg} :
       \E rx \in {r.rx}, e \in {IF r.e # "0" THEN r.e ELSE RpcError(r.rx)} :
       /\ wire' = Bytes(wire, r.used, Len(wire) - r.used)
       /\ IF e # "0"
          THEN /\ IF call.op = "auth" /\ rx.type = "Rerror" THEN Return("0", NOFID) ELSE Return(e, Null)
               /\ UNCHANGED <<nmp, tx, sent, said, buf, torn>>
          ELSE IF ReadAgain(rx)
          THEN /\ buf' = buf \o SubSeq(rx.data, 1, Min({Len(rx.data), tx.count}))
               /\ SendTx(call, tx.tag)
               /\ UNCHANGED nmp
          ELSE /\ res' = Result(rx) /\ pending' = FALSE
               /\ msize' = IF call.op = "version" THEN Min({rx.msize, MaxMsg}) ELSE msize
               /\ dotu' = IF call.op = "version" THEN call.name = VersionU /\ rx.version = VersionU ELSE dotu
               /\ UNCHANGED <<tx, sent, said, buf, torn>>
    /\ UNCHANGED <<call, coming, listing, calls>>

(* malloc_9p has no room for the message: its size has been read and the   *)
(* rest of it stays in the stream.                                         *)
ReceiveNoMem ==
    /\ pending /\ Len(wire) >= BIT32SZ /\ SizeOk(WireSize)
    /\ Return("ENOMEM", Null)
    /\ wire' = Bytes(wire, BIT32SZ, Len(wire) - BIT32SZ) /\ torn' = TRUE
    /\ UNCHANGED <<nmp, call, tx, sent, said, coming, listing, buf, calls>>

(* recvn_9p gives up after ten seconds, or at the end of the stream, and   *)
(* what it has read is lost.                                               *)
ReceiveFails ==
    /\ pending /\ ~Complete
    /\ \E e \in {"EAGAIN", "EINVAL"} : Return(e, Null)
    /\ wire' = <<>> /\ torn' = TRUE
    /\ UNCHANGED <<nmp, call, tx, sent, said, coming, listing, buf, calls>>

Next ==
    \/ \E c \in Calls : Call(c)
    \/ ClunkNofid
    \/ Answer
    \/ Arrive
    \/ Receive
    \/ ReceiveNoMem
    \/ ReceiveFails

Spec == Init /\ [][Next]_vars

-----------------------------------------------------------------------------
(* Properties                                                              *)

(* The state has its shape.                                                *)
TypeOK ==
    /\ msize \in 0 .. MaxMsg /\ dotu \in BOOLEAN /\ pending \in BOOLEAN /\ torn \in BOOLEAN
    /\ call = Null \/ call \in Calls
    /\ tx.type \in ToSet(MsgTypes) \cup {"none"}
    /\ said.how \in Ways \cup {"none"}
    /\ \A b \in {sent, wire, coming, listing, buf} : b \in Seq(0 .. Byte - 1)
    /\ res.e \in {"none", "0", "EINVAL", "EAGAIN", "EIO", "EPIPE", "ENOMEM", "EBADRPC", "EBADF", "ENOENT"}
    /\ calls \in 0 .. MaxCalls

Optional == {"unamenum", "ext"}

(* What rpc_9p sends is read by the other end as the message the caller    *)
(* built, with the fields of 9P2000.u when that is spoken and without them *)
(* when it is not; and a message is refused only if it is too big.         *)
RequestUnderstood ==
    /\ pending => \A d \in {ConvM2S(sent, dotu)} :
        /\ d.n = Len(sent)
        /\ \A x \in DOMAIN d.f : d.f[x] = tx[x]
        /\ DOMAIN tx \ DOMAIN d.f \subseteq Optional
        /\ dotu => Optional \cap DOMAIN tx \subseteq DOMAIN d.f
        /\ tx.type = "Twstat" =>
               \E s \in {ConvM2D(tx.stat, dotu)} : s.n = Len(tx.stat) /\ s.f.name = call.name
    /\ tx # NoFcall /\ sent = <<>> => SizeS2M(tx, dotu) > msize

(* f with its string as it stands in the message c, NULs and all.          *)
Uncut(c, f) ==
    CASE f.type = "Rerror"   -> [f EXCEPT !.ename = Gcounted(c, HDRSZ, BIT16SZ).v]
      [] f.type = "Rversion" -> [f EXCEPT !.version = Gcounted(c, HDRSZ + BIT32SZ, BIT16SZ).v]
      [] OTHER -> f

(* However one byte of a reply is changed, or its end is lost or           *)
(* lengthened: what convM2S accepts, in either dialect, is exactly the     *)
(* encoding of what it makes of it.  Except that a string in which a byte  *)
(* became NUL is counted whole and used up to there.                       *)
AcceptsOnlyEncodings ==
    LET Damaged(b) == {[b EXCEPT ![i] = v] : i \in DOMAIN b, v \in {NUL, 1, Byte - 1}}
                      \cup {SubSeq(b, 1, n) : n \in 0 .. Len(b)} \cup {b \o <<1>>}
    IN pending /\ said.how = "whole" =>
           \A c \in Damaged(ConvS2M(said.m, MaxMsg, dotu)), u \in BOOLEAN :
           \A d \in {ConvM2S(c, u)} : d.n # 0 => \A f \in {Uncut(c, d.f)} :
               /\ ConvS2M(f, MaxMsg, u) = SubSeq(c, 1, d.n)
               /\ \A x \in DOMAIN f : IF x \in {"ename", "version"} THEN d.f[x] = CStr(f[x])
                                       ELSE d.f[x] = f[x]

(* A whole answer, to this request, on a stream in step.                   *)
Answered == call # Null /\ ~pending /\ ~torn /\ said.how \in {"whole", "late"}

SameEntry(f, d) == \A x \in DOMAIN f \ {"size"} : f[x] = d[x]

Told(c, m) ==
    CASE c.op = "version" -> res.v = m.version
      [] c.op = "auth"    -> res.v = tx.afid
      [] c.op = "attach"  -> res.v = m.qid
      [] c.op = "walk"    -> res.v = m.wqid[1]
      [] c.op = "clone"   -> res.v = IF m.wqid = <<>> THEN ZeroQid ELSE m.wqid[1]
      [] c.op \in {"open", "create"} -> res.v = <<m.qid, m.iounit>>
      [] c.op = "read"    -> IsPrefix(res.v, m.data) /\ Len(res.v) = Min({c.count, Len(m.data), tx.count})
      [] c.op = "write"   -> res.v = m.count
      [] c.op = "stat"    -> \E d \in Entries : m.stat = StatBuf(d, dotu) /\ SameEntry(res.v, d)
      [] OTHER            -> TRUE

(* A call returns 0 only when the server has sent the reply to that very   *)
(* request, in the dialect spoken and with the right size, and then it     *)
(* returns what the reply says: an entry only if it is whole, of a read no *)
(* more bytes than were asked for, of a write the server's count, which    *)
(* nothing compares with what was sent (proto.c:202).  Two more things     *)
(* become 0: an Rerror with the text "no error" and no number, and         *)
(* whatever goes wrong with an auth_9p that finds an Rerror in rx, which   *)
(* says that nothing needs to be authenticated.                            *)
ResultFromReply ==
    call # Null /\ ~pending /\ res.e = "0" =>
        \/ said.m.type = ReplyType(tx.type) /\ said.how \in {"whole", "late"} /\ Told(call, said.m)
        \/ /\ said.m.type = "Rerror" /\ said.how \in {"whole", "late"}
           /\ said.m.ename = NoError /\ (dotu => said.m.errnum = 0)
        \/ call.op = "auth" /\ res.v = NOFID

(* Between two calls nothing is left unread of the stream, unless a size   *)
(* was wrong or a receive failed: a message that is refused is consumed.   *)
StreamAligned == ~pending /\ ~torn => wire \o coming = <<>>

(* readdirs_9p returns each entry of the directory once and in order       *)
(* however the server cuts it into reads, in the middle of an entry too,   *)
(* and refuses a directory that ends inside one.                           *)
DirsExact ==
    Answered /\ call.op = "readdirs" /\ said.m.type = "Rread" =>
        \/ \E ds \in Directories :
               /\ listing = Packed(ds) /\ res.e = "0" /\ Len(res.v) = Len(ds)
               /\ \A i \in DOMAIN ds : SameEntry(res.v[i], ds[i])
        \/ res.e = "EBADRPC" /\ \A ds \in Directories : listing # Packed(ds)

(* Once the server has agreed to a msize of at least IOHDRSZ, the reply to *)
(* a read never has to be larger, and no write is refused for its size.    *)
(* Below it the subtraction of rdwr_9p wraps and bounds nothing.           *)
TransfersFit ==
    msize >= IOHDRSZ =>
        /\ pending /\ tx.type = "Tread" => HDRSZ + BIT32SZ + tx.count <= msize
        /\ tx.type = "Twrite" => sent # <<>>
=============================================================================
