------------------------------- MODULE Fcall -------------------------------
(***************************************************************************)
(* The codec of the kernel extension.  A message is written by convS2M in  *)
(* the space sizeS2M counted and read back by convM2S; a directory entry   *)
(* goes through sizeD2M, convD2M, statcheck and convM2D.                    *)
(*                                                                         *)
(* A buffer is a sequence of bytes.  64-bit fields are opaque, they stand  *)
(* as their eight bytes; strings are sequences of characters, themselves   *)
(* bytes, and end at the first NUL as C strings do.  The three switch      *)
(* statements of the code are three tables, so that they may disagree.     *)
(***************************************************************************)
EXTENDS Integers, SequencesExt

CONSTANTS
    Byte,        \* values of a byte, 256 in the code
    MAXWELEM     \* names of a Twalk

(* The numbers of the messages are bytes, the last is 127.                 *)
ASSUME CodecAssumption == Byte \in Nat /\ Byte > 127 /\ MAXWELEM \in Nat \ {0}

(* How many values w bytes have.                                           *)
Values(w) == LET p[i \in 0 .. w] == IF i = 0 THEN 1 ELSE Byte * p[i - 1] IN p[w]

BIT8SZ == 1
BIT16SZ == 2
BIT32SZ == 4
BIT64SZ == 8
QIDSZ == BIT8SZ + BIT32SZ + BIT64SZ
HDRSZ == BIT32SZ + BIT8SZ + BIT16SZ

NUL == 0

(* What w bytes can say; what the fields of a message and of a directory   *)
(* entry hold.  Strings have no NUL inside.                                *)
Numbers(w) == 0 .. Values(w) - 1
Buffers == Seq(Numbers(BIT8SZ))
CStrings == Seq(Numbers(BIT8SZ) \ {NUL})

QidType == [type : Numbers(BIT8SZ), vers : Numbers(BIT32SZ), path : [1 .. BIT64SZ -> Numbers(BIT8SZ)]]

DirType ==
    [dtype : Numbers(BIT16SZ), dev : Numbers(BIT32SZ), qid : QidType, mode : Numbers(BIT32SZ),
     atime : Numbers(BIT32SZ), mtime : Numbers(BIT32SZ), length : [1 .. BIT64SZ -> Numbers(BIT8SZ)],
     name : CStrings, uid : CStrings, gid : CStrings, muid : CStrings, ext : CStrings,
     uidnum : Numbers(BIT32SZ), gidnum : Numbers(BIT32SZ), muidnum : Numbers(BIT32SZ)]

(* Mutant: a byte keeps the bits above it.                                 *)
PBITWide(w, v) ==
    LET rest[i \in 0 .. w] == IF i = 0 THEN v ELSE rest[i - 1] \div Byte
    IN [i \in 1 .. w |-> rest[i - 1]]

PBIT(w, v) ==
    LET rest[i \in 0 .. w] == IF i = 0 THEN v ELSE rest[i - 1] \div Byte
    IN [i \in 1 .. w |-> rest[i - 1] % Byte]

GBIT(b) ==
    LET last[i \in 0 .. Len(b)] == IF i = 0 THEN 0 ELSE b[Len(b) + 1 - i] + Byte * last[i - 1]
    IN last[Len(b)]

(* What a C function sees of the characters between two addresses.         *)
CStr(s) ==
    IF Contains(s, NUL) THEN SubSeq(s, 1, SelectInSeq(s, LAMBDA c : c = NUL) - 1) ELSE s

(* The types in the order of their numbers, from 100.                      *)
MsgTypes ==
    <<"Tversion", "Rversion", "Tauth", "Rauth", "Tattach", "Rattach", "Terror", "Rerror",
      "Tflush", "Rflush", "Twalk", "Rwalk", "Topen", "Ropen", "Tcreate", "Rcreate",
      "Tread", "Rread", "Twrite", "Rwrite", "Tclunk", "Rclunk", "Tremove", "Rremove",
      "Tstat", "Rstat", "Twstat", "Rwstat">>

Number(t) == 99 + SelectInSeq(MsgTypes, LAMBDA u : u = t)

(* tx->type + 1                                                            *)
ReplyType(t) == MsgTypes[Number(t) - 98]

-----------------------------------------------------------------------------
(* sizeS2M                                                                 *)

Stringsz(s) == BIT16SZ + Len(s)
StringsSz(ss) ==
    LET sum[i \in 0 .. Len(ss)] == IF i = 0 THEN 0 ELSE sum[i - 1] + Stringsz(ss[i])
    IN sum[Len(ss)]

(* Mutant: the fields of 9P2000.u are not counted.                         *)
DotUNever(dotu, n) == 0

DotU(dotu, n) == IF dotu THEN n ELSE 0

SizeT(f, dotu) ==
    CASE f.type = "Tversion" -> BIT32SZ + Stringsz(f.version)
      [] f.type = "Tflush"   -> BIT16SZ
      [] f.type = "Tauth"    -> BIT32SZ + Stringsz(f.uname) + Stringsz(f.aname) + DotU(dotu, BIT32SZ)
      [] f.type = "Tattach"  -> 2 * BIT32SZ + Stringsz(f.uname) + Stringsz(f.aname) + DotU(dotu, BIT32SZ)
      [] f.type = "Twalk"    -> 2 * BIT32SZ + BIT16SZ + StringsSz(f.wname)
      [] f.type = "Topen"    -> BIT32SZ + BIT8SZ
      [] f.type = "Tcreate"  -> 2 * BIT32SZ + BIT8SZ + Stringsz(f.name) + DotU(dotu, Stringsz(f.ext))
      [] f.type = "Tread"    -> 2 * BIT32SZ + BIT64SZ
      [] f.type = "Twrite"   -> 2 * BIT32SZ + BIT64SZ + Len(f.data)
      [] f.type \in {"Tclunk", "Tremove", "Tstat"} -> BIT32SZ
      [] f.type = "Twstat"   -> BIT32SZ + BIT16SZ + Len(f.stat)

SizeR(f, dotu) ==
    CASE f.type = "Rversion" -> BIT32SZ + Stringsz(f.version)
      [] f.type = "Rerror"   -> Stringsz(f.ename) + DotU(dotu, BIT32SZ)
      [] f.type \in {"Rauth", "Rattach"} -> QIDSZ
      [] f.type = "Rwalk"    -> BIT16SZ + Len(f.wqid) * QIDSZ
      [] f.type \in {"Ropen", "Rcreate"} -> QIDSZ + BIT32SZ
      [] f.type = "Rread"    -> BIT32SZ + Len(f.data)
      [] f.type = "Rwrite"   -> BIT32SZ
      [] f.type = "Rstat"    -> BIT16SZ + Len(f.stat)
      [] f.type \in {"Rflush", "Rclunk", "Rremove", "Rwstat"} -> 0

IsT(t) == Number(t) % 2 = 0

SizeS2M(f, dotu) == HDRSZ + (IF IsT(f.type) THEN SizeT(f, dotu) ELSE SizeR(f, dotu))

-----------------------------------------------------------------------------
(* convS2M                                                                 *)

U8(v) == PBIT(BIT8SZ, v)
U16(v) == PBIT(BIT16SZ, v)
U32(v) == PBIT(BIT32SZ, v)
Pstring(s) == U16(Len(s)) \o s
Pqid(q) == U8(q.type) \o U32(q.vers) \o q.path
IfU(dotu, b) == IF dotu THEN b ELSE <<>>
Each(P(_), ss) == FlattenSeq([i \in DOMAIN ss |-> P(ss[i])])

PutT(f, dotu) ==
    CASE f.type = "Tversion" -> U32(f.msize) \o Pstring(f.version)
      [] f.type = "Tflush"   -> U16(f.oldtag)
      [] f.type = "Tauth"    -> U32(f.afid) \o Pstring(f.uname) \o Pstring(f.aname)
                                \o IfU(dotu, U32(f.unamenum))
      [] f.type = "Tattach"  -> U32(f.fid) \o U32(f.afid) \o Pstring(f.uname) \o Pstring(f.aname)
                                \o IfU(dotu, U32(f.unamenum))
      [] f.type = "Twalk"    -> U32(f.fid) \o U32(f.newfid) \o U16(Len(f.wname)) \o Each(Pstring, f.wname)
      [] f.type = "Topen"    -> U32(f.fid) \o U8(f.mode)
      [] f.type = "Tcreate"  -> U32(f.fid) \o Pstring(f.name) \o U32(f.perm) \o U8(f.mode)
                                \o IfU(dotu, Pstring(f.ext))
      [] f.type = "Tread"    -> U32(f.fid) \o f.offset \o U32(f.count)
      [] f.type = "Twrite"   -> U32(f.fid) \o f.offset \o U32(Len(f.data)) \o f.data
      [] f.type \in {"Tclunk", "Tremove", "Tstat"} -> U32(f.fid)
      [] f.type = "Twstat"   -> U32(f.fid) \o U16(Len(f.stat)) \o f.stat

PutR(f, dotu) ==
    CASE f.type = "Rversion" -> U32(f.msize) \o Pstring(f.version)
      [] f.type = "Rerror"   -> Pstring(f.ename) \o IfU(dotu, U32(f.errnum))
      [] f.type \in {"Rauth", "Rattach"} -> Pqid(f.qid)
      [] f.type = "Rwalk"    -> U16(Len(f.wqid)) \o Each(Pqid, f.wqid)
      [] f.type \in {"Ropen", "Rcreate"} -> Pqid(f.qid) \o U32(f.iounit)
      [] f.type = "Rread"    -> U32(Len(f.data)) \o f.data
      [] f.type = "Rwrite"   -> U32(f.count)
      [] f.type = "Rstat"    -> U16(Len(f.stat)) \o f.stat
      [] f.type \in {"Rflush", "Rclunk", "Rremove", "Rwstat"} -> <<>>

TooMany(f) ==
    \/ f.type = "Twalk" /\ Len(f.wname) > MAXWELEM
    \/ f.type = "Rwalk" /\ Len(f.wqid) > MAXWELEM

(* The bytes, or none when the code returns 0.                             *)
ConvS2M(f, nap, dotu) ==
    LET Checked(size, b) == IF size > nap \/ TooMany(f) \/ size # Len(b) THEN <<>> ELSE b
        Written(size, body) == Checked(size, U32(size) \o U8(Number(f.type)) \o U16(f.tag) \o body)
    IN Written(SizeS2M(f, dotu), IF IsT(f.type) THEN PutT(f, dotu) ELSE PutR(f, dotu))

-----------------------------------------------------------------------------
(* convM2S: each field is a name and what is read for it.  A read that     *)
(* would pass the end of the buffer refuses the message.                   *)

GetT(t, dotu) ==
    CASE t = "Tversion" -> <<<<"msize", "u32">>, <<"version", "str">>>>
      [] t = "Tflush"   -> <<<<"oldtag", "u16">>>>
      [] t = "Tauth"    -> <<<<"afid", "u32">>, <<"uname", "str">>, <<"aname", "str">>>>
                           \o IfU(dotu, <<<<"unamenum", "u32">>>>)
      [] t = "Tattach"  -> <<<<"fid", "u32">>, <<"afid", "u32">>, <<"uname", "str">>, <<"aname", "str">>>>
                           \o IfU(dotu, <<<<"unamenum", "u32">>>>)
      [] t = "Twalk"    -> <<<<"fid", "u32">>, <<"newfid", "u32">>, <<"wname", "names">>>>
      [] t = "Topen"    -> <<<<"fid", "u32">>, <<"mode", "u8">>>>
      [] t = "Tcreate"  -> <<<<"fid", "u32">>, <<"name", "str">>, <<"perm", "u32">>, <<"mode", "u8">>>>
                           \o IfU(dotu, <<<<"ext", "str">>>>)
      [] t = "Tread"    -> <<<<"fid", "u32">>, <<"offset", "u64">>, <<"count", "u32">>>>
      [] t = "Twrite"   -> <<<<"fid", "u32">>, <<"offset", "u64">>, <<"data", "data">>>>
      [] t \in {"Tclunk", "Tremove", "Tstat"} -> <<<<"fid", "u32">>>>
      [] t = "Twstat"   -> <<<<"fid", "u32">>, <<"stat", "stat">>>>

GetR(t, dotu) ==
    CASE t = "Rversion" -> <<<<"msize", "u32">>, <<"version", "str">>>>
      [] t = "Rerror"   -> <<<<"ename", "str">>>> \o IfU(dotu, <<<<"errnum", "u32">>>>)
      [] t \in {"Rauth", "Rattach"} -> <<<<"qid", "qid">>>>
      [] t = "Rwalk"    -> <<<<"wqid", "qids">>>>
      [] t \in {"Ropen", "Rcreate"} -> <<<<"qid", "qid">>, <<"iounit", "u32">>>>
      [] t = "Rread"    -> <<<<"data", "data">>>>
      [] t = "Rwrite"   -> <<<<"count", "u32">>>>
      [] t = "Rstat"    -> <<<<"stat", "stat">>>>
      [] t \in {"Rflush", "Rclunk", "Rremove", "Rwstat"} -> <<>>

(* An address nil, which every later read keeps.                           *)
Nil == -1
Got(p, v) == [p |-> p, v |-> v]
NotGot == Got(Nil, <<>>)

(* w bytes from address p, counted from 0.                                 *)
Bytes(m, p, w) == SubSeq(m, p + 1, p + w)
Fits(m, p, w) == p + w <= Len(m)

(* A count of w bytes and as many bytes.                                   *)
Gcounted(m, p, w) ==
    LET Rest(n) == IF ~Fits(m, p + w, n) THEN NotGot ELSE Got(p + w + n, Bytes(m, p + w, n))
    IN IF ~Fits(m, p, w) THEN NotGot ELSE Rest(GBIT(Bytes(m, p, w)))

Gstring(m, p) == [Gcounted(m, p, BIT16SZ) EXCEPT !.v = CStr(@)]

Gqid(m, p) ==
    IF ~Fits(m, p, QIDSZ) THEN NotGot
    ELSE Got(p + QIDSZ, [type |-> GBIT(Bytes(m, p, 1)), vers |-> GBIT(Bytes(m, p + 1, 4)),
                         path |-> Bytes(m, p + 5, 8)])

(* A count of 16 bits, at most MAXWELEM, and as many elements.             *)
Glist(m, p, G(_, _)) ==
    LET With(g, h) == Got(h.p, Append(g.v, h.v))
        One(g) == IF g.p = Nil THEN g ELSE With(g, G(m, g.p))
        upto[i \in 0 .. MAXWELEM] == IF i = 0 THEN Got(p + BIT16SZ, <<>>) ELSE One(upto[i - 1])
        Elements(n) == IF n > MAXWELEM THEN NotGot ELSE upto[n]
    IN IF ~Fits(m, p, BIT16SZ) THEN NotGot ELSE Elements(GBIT(Bytes(m, p, BIT16SZ)))

Width == [u8 |-> BIT8SZ, u16 |-> BIT16SZ, u32 |-> BIT32SZ, u64 |-> BIT64SZ]

Get(m, p, kind) ==
    IF p = Nil THEN NotGot ELSE
    CASE kind = "str"    -> Gstring(m, p)
      [] kind = "qid"    -> Gqid(m, p)
      [] kind = "names"  -> Glist(m, p, Gstring)
      [] kind = "qids"   -> Glist(m, p, Gqid)
      [] kind = "data"   -> Gcounted(m, p, BIT32SZ)
      [] kind = "stat"   -> Gcounted(m, p, BIT16SZ)
      [] OTHER           -> IF ~Fits(m, p, Width[kind]) THEN NotGot
                            ELSE LET b == Bytes(m, p, Width[kind]) IN
                                 Got(p + Len(b), IF kind = "u64" THEN b ELSE GBIT(b))

(* Two records as one; in a field of both the first counts.                *)
Joined(r, s) == [x \in DOMAIN r \cup DOMAIN s |-> IF x \in DOMAIN r THEN r[x] ELSE s[x]]

(* Fields read one after the other, into a record.                         *)
GetAll(m, p, fields) ==
    LET With(g, name, h) == Got(h.p, Joined(g.v, [x \in {name} |-> h.v]))
        One(g, d) == With(g, d[1], Get(m, g.p, d[2]))
        upto[i \in 0 .. Len(fields)] == IF i = 0 THEN Got(p, <<>>) ELSE One(upto[i - 1], fields[i])
    IN upto[Len(fields)]

NoFcall == [type |-> "none"]
Decoded(n, f) == [n |-> n, f |-> f]
Refused == Decoded(0, NoFcall)

(* Mutant: what is left of the message after its last field is ignored.    *)
EndedInside(p, size) == p # Nil

Ended(p, size) == p = size

ConvM2S(m, dotu) ==
    LET size == GBIT(Bytes(m, 0, BIT32SZ))
        i == GBIT(Bytes(m, BIT32SZ, BIT8SZ)) - 99
        Whole(g, f) == IF ~Ended(g.p, size) THEN Refused ELSE Decoded(size, Joined(f, g.v))
        OfType(t) ==
            IF t = "Terror" THEN Refused
            ELSE Whole(GetAll(m, HDRSZ, IF IsT(t) THEN GetT(t, dotu) ELSE GetR(t, dotu)),
                       [type |-> t, tag |-> GBIT(Bytes(m, 5, 2))])
    IN IF Len(m) < HDRSZ \/ size \notin HDRSZ .. Len(m) \/ i \notin DOMAIN MsgTypes THEN Refused
       ELSE OfType(MsgTypes[i])

-----------------------------------------------------------------------------
(* Directory entries.  The leading 16-bit size does not count itself.      *)

STATFIXLEN == BIT16SZ + QIDSZ + 5 * BIT16SZ + 4 * BIT32SZ + BIT64SZ
STATUEXTRALEN == BIT16SZ + 3 * BIT32SZ

StatFixed ==
    <<<<"size", "u16">>, <<"dtype", "u16">>, <<"dev", "u32">>, <<"qid", "qid">>, <<"mode", "u32">>,
      <<"atime", "u32">>, <<"mtime", "u32">>, <<"length", "u64">>>>
StatStrings(dotu) ==
    <<<<"name", "str">>, <<"uid", "str">>, <<"gid", "str">>, <<"muid", "str">>>>
    \o IfU(dotu, <<<<"ext", "str">>>>)
StatNumbers(dotu) ==
    IfU(dotu, <<<<"uidnum", "u32">>, <<"gidnum", "u32">>, <<"muidnum", "u32">>>>)

StringsOf(d, dotu) == [i \in DOMAIN StatStrings(dotu) |-> d[StatStrings(dotu)[i][1]]]

SizeD2M(d, dotu) ==
    LET ss == StringsOf(d, dotu)
        sum[i \in 0 .. Len(ss)] ==
            IF i = 0 THEN STATFIXLEN + DotU(dotu, STATUEXTRALEN) ELSE sum[i - 1] + Len(ss[i])
    IN sum[Len(ss)]

(* None for 0; when the space is short, only the size that is needed.      *)
ConvD2M(d, nbuf, dotu) ==
    LET Within(ss, b) == IF nbuf < BIT16SZ THEN <<>>
                         ELSE IF ss > nbuf THEN U16(ss - BIT16SZ)
                         ELSE IF ss # Len(b) THEN <<>> ELSE b
        Written(ss) ==
             U16(ss - BIT16SZ) \o U16(d.dtype) \o U32(d.dev) \o Pqid(d.qid) \o U32(d.mode)
             \o U32(d.atime) \o U32(d.mtime) \o d.length \o Each(Pstring, StringsOf(d, dotu))
             \o IfU(dotu, U32(d.uidnum) \o U32(d.gidnum) \o U32(d.muidnum))
    IN Within(SizeD2M(d, dotu), Written(SizeD2M(d, dotu)))

(* Mutant: the numbers of 9P2000.u are not stepped over.                   *)
StatEndStrings(p, dotu) == p

StatEnd(p, dotu) == p + DotU(dotu, STATUEXTRALEN - BIT16SZ)

(* Only the counts of the strings are looked at, and where they lead.      *)
Statcheck(b, dotu) ==
    LET Skip(p) == IF p = Nil \/ ~Fits(b, p, BIT16SZ) THEN Nil
                   ELSE p + BIT16SZ + GBIT(Bytes(b, p, BIT16SZ))
        upto[i \in 0 .. Len(StatStrings(dotu))] ==
            IF i = 0 THEN STATFIXLEN - 4 * BIT16SZ ELSE Skip(upto[i - 1])
        EndsAt(p) == p # Nil /\ StatEnd(p, dotu) = Len(b)
    IN EndsAt(upto[Len(StatStrings(dotu))])

(* The fixed part is read before anything is compared with nbuf: a buffer  *)
(* shorter than it is then refused at the first string.                    *)
ConvM2D(b, dotu) ==
    LET Whole(g) == IF g.p = Nil THEN Refused ELSE Decoded(g.p, g.v)
    IN Whole(GetAll(b, 0, StatFixed \o StatStrings(dotu) \o StatNumbers(dotu)))
=============================================================================
