---------------------------- MODULE NinePClient ----------------------------
(***************************************************************************)
(* The codec of Mac9PCore (NinePDataCodec, NinePWireCodec) and the         *)
(* requests the synchronous NinePClient makes with it, beside those of the *)
(* kernel extension: two implementations of one protocol that talk to the  *)
(* same servers.  NinePClient waits for each reply, so what it does with   *)
(* one is a function of it; it is compared with what KextRequests does in  *)
(* the same exchange.                                                      *)
(*                                                                         *)
(* Strings are ASCII: what UTF-8 refuses is not modelled.                  *)
(***************************************************************************)
EXTENDS KextRequests

CONSTANT DirCount    \* what readDir asks for, 8192 in the code

ASSUME DirCountAssumption == DirCount \in Nat \ {0}

-----------------------------------------------------------------------------
(* Writer.  UInt8(truncatingIfNeeded:) of successive shifts                *)

WriterU(w, v) == PBIT(w, v)
WriterString(s) == WriterU(BIT16SZ, Len(s)) \o s

(* The bodies of rpcTversion, rpcTattach and so on.  unamenum is always    *)
(* sent.                                                                   *)
Body(q) ==
    CASE q.type = "Tversion" -> WriterU(4, q.msize) \o WriterString(q.version)
      [] q.type = "Tattach"  -> WriterU(4, q.fid) \o WriterU(4, q.afid) \o WriterString(q.uname)
                                \o WriterString(q.aname) \o WriterU(4, q.unamenum)
      [] q.type = "Twalk"    -> WriterU(4, q.fid) \o WriterU(4, q.newfid) \o WriterU(2, Len(q.wname))
                                \o Each(WriterString, q.wname)
      [] q.type = "Topen"    -> WriterU(4, q.fid) \o WriterU(1, q.mode)
      [] q.type = "Tread"    -> WriterU(4, q.fid) \o q.offset \o WriterU(4, q.count)
      [] q.type \in {"Tclunk", "Tstat"} -> WriterU(4, q.fid)

Asked == {"Tversion", "Tattach", "Twalk", "Topen", "Tread", "Tclunk", "Tstat"}

(* Mutant: the size is that of the body.                                   *)
PatchSizeBody(body) == Len(body)

(* What is patched over the first four bytes                               *)
PatchSize(body) == HDRSZ + Len(body)

EncodeMessage(q) ==
    LET Framed(body) == WriterU(4, PatchSize(body)) \o WriterU(1, Number(q.type)) \o WriterU(2, q.tag)
                        \o body
    IN Framed(Body(q))

-----------------------------------------------------------------------------
(* Reader.  A read returns where it ended and what it read, or throws.     *)

Thrown == Got(Nil, "EBADMSG")

(* Mutant: the last byte can not be read.                                  *)
NeedMore(b, i, n) == Len(b) - i > n

Need(b, i, n) == Len(b) - i >= n

ReaderBytes(b, i, n) ==
    IF i = Nil THEN Thrown ELSE IF ~Need(b, i, n) THEN Thrown ELSE Got(i + n, Bytes(b, i, n))

ReaderU(b, i, w) ==
    LET Valued(g) == IF g.p = Nil THEN Thrown ELSE Got(g.p, GBIT(g.v))
    IN Valued(ReaderBytes(b, i, w))

ReaderCounted(b, i, w) ==
    LET Rest(n) == IF n.p = Nil THEN Thrown ELSE ReaderBytes(b, n.p, n.v)
    IN Rest(ReaderU(b, i, w))

DecodeQid(b, i) ==
    IF i = Nil THEN Thrown
    ELSE IF ~Need(b, i, QIDSZ) THEN Thrown
    ELSE Got(i + QIDSZ, [type |-> GBIT(Bytes(b, i, 1)), vers |-> GBIT(Bytes(b, i + 1, 4)),
                         path |-> Bytes(b, i + 5, 8)])

(* Fields read one after the other: a name, and how it is read.            *)
ReaderGet(b, i, kind) ==
    CASE kind = "qid" -> DecodeQid(b, i)
      [] kind = "str" -> ReaderCounted(b, i, BIT16SZ)
      [] kind = "u64" -> ReaderBytes(b, i, BIT64SZ)
      [] OTHER        -> ReaderU(b, i, Width[kind])

ReaderGetAll(b, i, fields) ==
    LET With(g, name, h) == IF h.p = Nil THEN Thrown ELSE Got(h.p, Joined(g.v, [x \in {name} |-> h.v]))
        One(g, d) == IF g.p = Nil THEN Thrown ELSE With(g, d[1], ReaderGet(b, g.p, d[2]))
        upto[k \in 0 .. Len(fields)] == IF k = 0 THEN Got(i, <<>>) ELSE One(upto[k - 1], fields[k])
    IN upto[Len(fields)]

MsgType ==
    {"Tversion", "Rversion", "Tauth", "Rauth", "Tattach", "Rattach", "Rerror", "Twalk", "Rwalk",
     "Topen", "Ropen", "Tread", "Rread", "Tclunk", "Rclunk", "Tstat", "Rstat"}

DecodeHeader(msg) ==
    LET Checked(g) ==
            IF g.p = Nil THEN NoFcall
            ELSE IF g.v.size # Len(msg) \/ \A t \in MsgType : Number(t) # g.v.type THEN NoFcall
            ELSE [type |-> MsgTypes[g.v.type - 99], tag |-> g.v.tag, body |-> Bytes(msg, g.p, Len(msg) - g.p)]
    IN Checked(ReaderGetAll(msg, 0, <<<<"size", "u32">>, <<"type", "u8">>, <<"tag", "u16">>>>))

(* type, dev and the entry's own size are skipped, so is what follows muid.*)
DecodeStat(b) ==
    IF ~Need(b, 0, BIT64SZ) THEN Thrown
    ELSE ReaderGetAll(b, BIT64SZ,
             <<<<"qid", "qid">>, <<"mode", "u32">>, <<"atime", "u32">>, <<"mtime", "u32">>,
               <<"length", "u64">>, <<"name", "str">>, <<"uid", "str">>, <<"gid", "str">>,
               <<"muid", "str">>>>)

(* splitDirReadIntoStats                                                   *)
SplitDirRead(b) ==
    LET from[i \in 0 .. Len(b)] ==
            LET One(e) == IF e.p = Nil THEN <<Thrown>>
                          ELSE <<DecodeStat(Bytes(b, i, e.p - i))>> \o from[e.p]
            IN IF i = Len(b) THEN <<>> ELSE One(ReaderCounted(b, i, 2))
    IN from[0]

(* readDir on a directory of which the server gives k bytes at a time, the *)
(* last ones in less: it stops at the first chunk that is shorter than it  *)
(* asked for.                                                              *)
ReadDir(dir, k) ==
    LET chunk(i) == Min({k, DirCount, Len(dir) - i})
        upto[i \in 0 .. Len(dir)] ==
            IF chunk(i) < DirCount THEN i + chunk(i) ELSE upto[i + chunk(i)]
        Whole(gs) == IF \E i \in DOMAIN gs : gs[i].p = Nil THEN Thrown ELSE Got(upto[0], gs)
    IN Whole(SplitDirRead(SubSeq(dir, 1, upto[0])))

(* The reply to a request of type t, body b: what the rpcT function        *)
(* returns, of one that is not rerror.                                     *)
Reply(t, b) ==
    LET Stat(s) == IF s.p = Nil THEN Thrown ELSE DecodeStat(s.v)
        With(g, h) == IF h.p = Nil THEN Thrown ELSE Got(h.p, Append(g.v, h.v))
        Opened(g) == IF g.p = Nil THEN Thrown ELSE With(Got(g.p, <<g.v>>), ReaderU(b, g.p, 4))
        WalkQids(n) ==
            LET One(g) == With(g, DecodeQid(b, g.p))
                upto[i \in 0 .. n.v] == IF i = 0 THEN Got(n.p, <<>>) ELSE One(upto[i - 1])
            IN IF n.p = Nil THEN Thrown ELSE upto[n.v]
    IN CASE t = "Tversion" -> IF Need(b, 0, 4) THEN ReaderCounted(b, 4, 2) ELSE Thrown
         [] t = "Tattach"  -> DecodeQid(b, 0)
         [] t = "Topen"    -> Opened(DecodeQid(b, 0))
         [] t = "Tread"    -> ReaderCounted(b, 0, 4)
         [] t = "Tstat"    -> Stat(ReaderCounted(b, 0, 2))
         [] t = "Twalk"    -> WalkQids(ReaderU(b, 0, 2))
         [] OTHER          -> Got(0, <<>>)

(* rpc and the guard on the type.  An rerror is thrown whatever it says,   *)
(* and a tag of 0xFFFF is anybody's.                                       *)
Rpc(q, msg) ==
    LET Of(h) == IF h.type # ReplyType(q.type) THEN Thrown
                 ELSE IF h.tag \notin {q.tag, Values(BIT16SZ) - 1} THEN Thrown
                 ELSE Reply(q.type, h.body)
    IN Of(DecodeHeader(msg))

-----------------------------------------------------------------------------
(* Properties                                                              *)

(* For the requests both clients make, the Swift codec writes the bytes    *)
(* that convS2M writes, and convM2S reads them as what was meant.  All but *)
(* the Tattach of 9P2000, which has the form of 9P2000.u nevertheless: a   *)
(* server that speaks 9P2000 and counts the bytes refuses it, which the    *)
(* comment at NinePClient.swift:200 calls harmless.                        *)
SwiftSendsTheSame ==
    pending /\ tx.type \in Asked =>
        \A b \in {EncodeMessage(tx)} : \A d \in {ConvM2S(b, TRUE)} :
            /\ d.n = Len(b) /\ \A x \in DOMAIN d.f : d.f[x] = tx[x]
            /\ IF tx.type = "Tattach" /\ ~dotu THEN ConvM2S(b, FALSE) = Refused ELSE b = sent

SwiftEntry(g, d) == g.p # Nil /\ \A x \in DOMAIN g.v : g.v[x] = d[x]

(* The entries in ds are what the bytes dir say, one after the other.  The *)
(* Swift client has them all if its reads are filled, or if one read takes *)
(* the directory; of a server whose reads are shorter than the client asks *)
(* for, because its msize or the next entry does not allow more, it takes  *)
(* the first for all there is: it throws, or returns the first entries.    *)
SwiftDirectory(dir, ds) ==
    \A gs \in {SplitDirRead(dir)} :
        /\ Len(gs) = Len(ds) /\ \A i \in DOMAIN ds : SwiftEntry(gs[i], ds[i])
        /\ \A n \in {Min({k, msize - HDRSZ - BIT32SZ}) : k \in Chunks} : \A r \in {ReadDir(dir, n)} :
            /\ r.p = Nil \/ IsPrefix(r.v, gs)
            /\ r.p = Len(dir) <=> n >= DirCount \/ Len(dir) <= n

(* What a server answers is read by both clients as the same thing: an     *)
(* answer the kernel extension accepts gives the Swift client the same     *)
(* value, an error is an error to it even when its text is "no error", and *)
(* a directory is split into the same entries; but where readdirs_9p finds *)
(* each, readDir finds those of the first read that is not filled, against *)
(* "read repeatedly until empty" (NinePClient.swift:145).                  *)
SwiftReadsTheSame ==
    Answered /\ tx.type \in Asked =>
        \A r \in {Rpc(tx, ConvS2M(said.m, Values(BIT16SZ), dotu))} :
        /\ said.m.type # ReplyType(tx.type) => r.p = Nil
        /\ said.m.type = ReplyType(tx.type) /\ res.e = "0" =>
            /\ r.p # Nil
            /\ CASE call.op \in {"version", "attach", "open"} -> r.v = res.v
                 [] call.op = "walk" -> Last(r.v) = res.v
                 [] call.op = "read" -> IsPrefix(res.v, r.v)
                 [] call.op = "stat" -> SwiftEntry(r, res.v)
                 [] call.op = "readdirs" -> SwiftDirectory(listing, res.v)
                 [] OTHER -> TRUE
=============================================================================
