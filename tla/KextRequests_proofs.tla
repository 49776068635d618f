------------------------- MODULE KextRequests_proofs -------------------------
(***************************************************************************)
(* Theorems about the requests of the kernel extension: for every message  *)
(* size, every set of strings, data, directories and identifiers, and      *)
(* whatever the server answers, a request is read as what was asked, a     *)
(* transfer fits the size that was agreed, the stream stays in step, and   *)
(* what a call returns is what its own reply says.  The requests that the  *)
(* Swift client makes too are the same bytes.                              *)
(*                                                                         *)
(* What the codec makes of a message is in Fcall_proofs.  Here are the     *)
(* inductive invariant, the messages that the operations build, the        *)
(* answers that the server chooses from, and one lemma for each action.    *)
(***************************************************************************)
EXTENDS NinePClient, Fcall_proofs

-----------------------------------------------------------------------------
(* The inductive invariant, in parts.                                      *)

(* The names of the fields of fs, a sequence of pairs of a name and a kind. *)
NamesIn(fs) == {fs[i][1] : i \in DOMAIN fs}

(* The fields of a message of type t.                                      *)
FieldsOf(t, u) == {"type", "tag"} \cup NamesIn(MsgFields(t, u))

Results == {"none", "0", "EINVAL", "EAGAIN", "EIO", "EPIPE", "ENOMEM", "EBADRPC", "EBADF", "ENOENT"}

(* The state has its shape.                                                *)
Shape ==
    /\ msize \in 0 .. MaxMsg /\ dotu \in BOOLEAN /\ pending \in BOOLEAN /\ torn \in BOOLEAN
    /\ call = Null \/ call \in Calls
    /\ said.how \in Ways \cup {"none"}
    /\ sent \in Buffers /\ wire \in Buffers /\ coming \in Buffers /\ listing \in Buffers /\ buf \in Buffers
    /\ res.e \in Results
    /\ calls \in 0 .. MaxCalls

(* The type of the request each call makes.                                *)
TypeFor(c, t) ==
    /\ c.op = "version" => t = "Tversion"
    /\ c.op = "auth" => t = "Tauth"
    /\ c.op = "attach" => t = "Tattach"
    /\ c.op = "clone" => t = "Twalk"
    /\ c.op = "walk" => t = "Twalk"
    /\ c.op = "open" => t = "Topen"
    /\ c.op = "create" => t = "Tcreate"
    /\ c.op = "read" => t = "Tread"
    /\ c.op = "readdirs" => t = "Tread"
    /\ c.op = "write" => t = "Twrite"
    /\ c.op = "clunk" => t = "Tclunk"
    /\ c.op = "remove" => t = "Tremove"
    /\ c.op = "stat" => t = "Tstat"
    /\ c.op = "wstat" => t = "Twstat"

(* A request of the call c, of the message size ms and the dialect u.      *)
TxFor(c, t, ms, u) ==
    /\ t.type \in Ts /\ (\A v \in BOOLEAN : MsgOk(t, v)) /\ DOMAIN t = FieldsOf(t.type, TRUE)
    /\ TypeFor(c, t.type)
    /\ c.op = "read" => t.count <= c.count
    /\ t.type = "Tread" => /\ t.offset \in [1 .. BIT64SZ -> Numbers(BIT8SZ)]
                           /\ t.count \in Numbers(BIT32SZ)
                           /\ ms >= IOHDRSZ => t.count <= ms - IOHDRSZ
    /\ t.type = "Twrite" => (ms >= IOHDRSZ => Len(t.data) <= ms - IOHDRSZ)
    /\ c.op = "wstat" => t.stat = StatBuf([Nulldir EXCEPT !.name = c.name], u)

(* The message is one of the last call.                                    *)
TxOk == tx = NoFcall \/ (call \in Calls /\ TxFor(call, tx, msize, dotu))

(* What the server has is its bytes, all of them; none were sent only if   *)
(* they were too many.                                                     *)
SentOk ==
    /\ pending => tx # NoFcall /\ sent = MsgBytes(tx, dotu) /\ SizeS2M(tx, dotu) <= MaxMsg
    /\ tx # NoFcall /\ sent = <<>> => SizeS2M(tx, dotu) > msize

(* An answer to the request q.                                             *)
AnswerFor(q, m) ==
    /\ m.type \in {ReplyType(q.type), "Rerror", "Rflush"} \cap Rs
    /\ (\A v \in BOOLEAN : MsgOk(m, v)) /\ DOMAIN m = FieldsOf(m.type, TRUE)
    /\ m.type = "Rversion" => m.msize \in Numbers(BIT32SZ)
    /\ m.type = "Rread" => m.data \in Buffers
    /\ m.type = "Rwalk" => m.wqid = <<>> \/ \E i \in Qids : m.wqid = <<i>>
    /\ m.type = "Rstat" => \E d \in Entries : m.stat \in StatsOf(d)
    /\ m.type = "Rerror" => /\ m.ename \in {UnknownFid, NoError} /\ m.errnum \in Numbers(BIT32SZ)
                            /\ q.type \in {"Tversion", "Tstat"} => m.ename = UnknownFid

AnswerOk == said = Nothing \/ (said.how \in Ways /\ tx # NoFcall /\ AnswerFor(tx, said.m))

(* The dialect the answer is sent in.                                      *)
Spoken == (said.how = "other") # dotu

(* In step, the stream holds the answer that is not read yet, or nothing.  *)
(* Out of step before the call has returned, it holds the answer that did  *)
(* it.                                                                     *)
InStep ==
    \/ wire = <<>> /\ coming = <<>> /\ (pending => said = Nothing)
    \/ /\ pending /\ said # Nothing /\ said.how \notin WrongSize
       /\ said.how = "other" => said.m.type = "Rerror"
       /\ Then(wire, coming) = MsgBytes(said.m, Spoken)
       /\ SizeS2M(said.m, Spoken) < msize /\ Length(coming) <= 1

OutOfStep ==
    /\ said # Nothing /\ said.how \in WrongSize
    /\ wire = OnWire(MsgBytes(said.m, dotu), said.how)[1] /\ coming = <<>>
    /\ SizeS2M(said.m, dotu) < msize

StreamOk == IF torn THEN pending => OutOfStep ELSE InStep

IInv == Shape /\ TxOk /\ SentOk /\ AnswerOk /\ StreamOk

-----------------------------------------------------------------------------
(* The names of the fields of each message.                                *)

LEMMA NamesOf1 == \A d1 : NamesIn(Fields1(d1)) = {d1[1]}
<1> TAKE d1
<1> DEFINE s == Fields1(d1)
<1>1. DOMAIN s = 1 .. 1 /\ s[1] = d1
  BY DEF Fields1
<1> HIDE DEF s
<1>2. {s[i][1] : i \in DOMAIN s} = {d1[1]}
  BY <1>1
<1> QED BY <1>2 DEF s, NamesIn

LEMMA NamesOf2 == \A d1, d2 : NamesIn(Fields2(d1, d2)) = {d1[1], d2[1]}
<1> TAKE d1, d2
<1> DEFINE s == Fields2(d1, d2)
<1>1. DOMAIN s = 1 .. 2 /\ s[1] = d1 /\ s[2] = d2
  BY DEF Fields2
<1> HIDE DEF s
<1>2. {s[i][1] : i \in DOMAIN s} = {d1[1], d2[1]}
  BY <1>1
<1> QED BY <1>2 DEF s, NamesIn

LEMMA NamesOf3 == \A d1, d2, d3 : NamesIn(Fields3(d1, d2, d3)) = {d1[1], d2[1], d3[1]}
<1> TAKE d1, d2, d3
<1> DEFINE s == Fields3(d1, d2, d3)
<1>1. DOMAIN s = 1 .. 3 /\ s[1] = d1 /\ s[2] = d2 /\ s[3] = d3
  BY DEF Fields3
<1> HIDE DEF s
<1>2. {s[i][1] : i \in DOMAIN s} = {d1[1], d2[1], d3[1]}
  BY <1>1
<1> QED BY <1>2 DEF s, NamesIn

LEMMA NamesOf4 == \A d1, d2, d3, d4 : NamesIn(Fields4(d1, d2, d3, d4)) = {d1[1], d2[1], d3[1], d4[1]}
<1> TAKE d1, d2, d3, d4
<1> DEFINE s == Fields4(d1, d2, d3, d4)
<1>1. DOMAIN s = 1 .. 4 /\ s[1] = d1 /\ s[2] = d2 /\ s[3] = d3 /\ s[4] = d4
  BY DEF Fields4
<1> HIDE DEF s
<1>2. {s[i][1] : i \in DOMAIN s} = {d1[1], d2[1], d3[1], d4[1]}
  BY <1>1
<1> QED BY <1>2 DEF s, NamesIn

LEMMA NamesOf5 == \A d1, d2, d3, d4, d5 : NamesIn(Fields5(d1, d2, d3, d4, d5)) = {d1[1], d2[1], d3[1], d4[1], d5[1]}
<1> TAKE d1, d2, d3, d4, d5
<1> DEFINE s == Fields5(d1, d2, d3, d4, d5)
<1>1. DOMAIN s = 1 .. 5 /\ s[1] = d1 /\ s[2] = d2 /\ s[3] = d3 /\ s[4] = d4 /\ s[5] = d5
  BY DEF Fields5
<1> HIDE DEF s
<1>2. {s[i][1] : i \in DOMAIN s} = {d1[1], d2[1], d3[1], d4[1], d5[1]}
  BY <1>1
<1> QED BY <1>2 DEF s, NamesIn

LEMMA FieldsOfTversion ==
    ASSUME NEW t, NEW u \in BOOLEAN, t = "Tversion"
    PROVE  FieldsOf(t, u) = {"type", "tag", "msize", "version"}
<1>1. MsgFields(t, u) = GetT(t, u)
  <2>1. IsT(t)
    BY RequestsAre
  <2> QED BY <2>1 DEF MsgFields
<1> DEFINE d1 == <<"msize", "u32">>
           d2 == <<"version", "str">>
           fields == MsgFields(t, u)
<1>2. NamesIn(fields) = {"msize", "version"}
  <2>1. GetT(t, u) = Fields2(d1, d2)
    BY Zenon DEF GetT, Fields2
  <2>2. fields = Fields2(d1, d2)
    BY Zenon, <1>1, <2>1
  <2>3. NamesIn(fields) = {"msize", "version"}
    <3>1. d1[1] = "msize" /\ d2[1] = "version"
      OBVIOUS
    <3> HIDE DEF d1, d2, fields
    <3>2. NamesIn(fields) = {d1[1], d2[1]}
      BY <2>2, NamesOf2
    <3> QED BY <3>1, <3>2
  <2> QED BY <2>3
<1> HIDE DEF fields
<1> QED BY <1>2 DEF FieldsOf, fields

LEMMA FieldsOfTflush ==
    ASSUME NEW t, NEW u \in BOOLEAN, t = "Tflush"
    PROVE  FieldsOf(t, u) = {"type", "tag", "oldtag"}
<1>1. MsgFields(t, u) = GetT(t, u)
  <2>1. IsT(t)
    BY RequestsAre
  <2> QED BY <2>1 DEF MsgFields
<1> DEFINE d1 == <<"oldtag", "u16">>
           fields == MsgFields(t, u)
<1>2. NamesIn(fields) = {"oldtag"}
  <2>1. GetT(t, u) = Fields1(d1)
    BY Zenon DEF GetT, Fields1
  <2>2. fields = Fields1(d1)
    BY Zenon, <1>1, <2>1
  <2>3. NamesIn(fields) = {"oldtag"}
    <3>1. d1[1] = "oldtag"
      OBVIOUS
    <3> HIDE DEF d1, fields
    <3>2. NamesIn(fields) = {d1[1]}
      BY <2>2, NamesOf1
    <3> QED BY <3>1, <3>2
  <2> QED BY <2>3
<1> HIDE DEF fields
<1> QED BY <1>2 DEF FieldsOf, fields

LEMMA FieldsOfTauth ==
    ASSUME NEW t, NEW u \in BOOLEAN, t = "Tauth"
    PROVE  FieldsOf(t, u) = {"type", "tag", "afid", "uname", "aname"} \cup (IF u THEN {"unamenum"} ELSE {})
<1>1. MsgFields(t, u) = GetT(t, u)
  <2>1. IsT(t)
    BY RequestsAre
  <2> QED BY <2>1 DEF MsgFields
<1> DEFINE d1 == <<"afid", "u32">>
           d2 == <<"uname", "str">>
           d3 == <<"aname", "str">>
           d4 == <<"unamenum", "u32">>
           fields == MsgFields(t, u)
<1>0. d1 \in FieldType /\ d2 \in FieldType /\ d3 \in FieldType /\ d4 \in FieldType
  <2>1. "afid" \in FieldNames /\ "uname" \in FieldNames /\ "aname" \in FieldNames /\ "unamenum" \in FieldNames
    BY DEF FieldNames
  <2> QED BY Zenon, <2>1, FieldTypes
<1>4. CASE u
  <2>1. GetT(t, u) = Fields3(d1, d2, d3) \o Fields1(d4)
    BY Zenon, <1>4 DEF GetT, IfU, Fields1, Fields3
  <2>2. fields = Fields4(d1, d2, d3, d4)
    <3> HIDE DEF d1, d2, d3, d4, fields
    <3> QED BY <1>0, <1>1, <2>1, Grown4 DEF fields
  <2>3. NamesIn(fields) = {"afid", "uname", "aname", "unamenum"}
    <3>1. d1[1] = "afid" /\ d2[1] = "uname" /\ d3[1] = "aname" /\ d4[1] = "unamenum"
      OBVIOUS
    <3> HIDE DEF d1, d2, d3, d4, fields
    <3>2. NamesIn(fields) = {d1[1], d2[1], d3[1], d4[1]}
      BY <2>2, NamesOf4
    <3> QED BY <3>1, <3>2
  <2> HIDE DEF fields
  <2> QED BY <1>4, <2>3 DEF FieldsOf, fields
<1>5. CASE ~ u
  <2>1. GetT(t, u) = Fields3(d1, d2, d3) \o <<>>
    BY Zenon, <1>5 DEF GetT, IfU, Fields3
  <2>2. fields = Fields3(d1, d2, d3)
    <3> HIDE DEF d1, d2, d3, d4, fields
    <3> QED BY <1>0, <1>1, <2>1, Grown3 DEF fields
  <2>3. NamesIn(fields) = {"afid", "uname", "aname"}
    <3>1. d1[1] = "afid" /\ d2[1] = "uname" /\ d3[1] = "aname"
      OBVIOUS
    <3> HIDE DEF d1, d2, d3, fields
    <3>2. NamesIn(fields) = {d1[1], d2[1], d3[1]}
      BY <2>2, NamesOf3
    <3> QED BY <3>1, <3>2
  <2> HIDE DEF fields
  <2> QED BY <1>5, <2>3 DEF FieldsOf, fields
<1> QED BY <1>4, <1>5

LEMMA FieldsOfTattach ==
    ASSUME NEW t, NEW u \in BOOLEAN, t = "Tattach"
    PROVE  FieldsOf(t, u) = {"type", "tag", "fid", "afid", "uname", "aname"} \cup (IF u THEN {"unamenum"} ELSE {})
<1>1. MsgFields(t, u) = GetT(t, u)
  <2>1. IsT(t)
    BY RequestsAre
  <2> QED BY <2>1 DEF MsgFields
<1> DEFINE d1 == <<"fid", "u32">>
           d2 == <<"afid", "u32">>
           d3 == <<"uname", "str">>
           d4 == <<"aname", "str">>
           d5 == <<"unamenum", "u32">>
           fields == MsgFields(t, u)
<1>0. d1 \in FieldType /\ d2 \in FieldType /\ d3 \in FieldType /\ d4 \in FieldType /\ d5 \in FieldType
  <2>1. "fid" \in FieldNames /\ "afid" \in FieldNames /\ "uname" \in FieldNames /\ "aname" \in FieldNames /\ "unamenum" \in FieldNames
    BY DEF FieldNames
  <2> QED BY Zenon, <2>1, FieldTypes
<1>4. CASE u
  <2>1. GetT(t, u) = Fields4(d1, d2, d3, d4) \o Fields1(d5)
    BY Zenon, <1>4 DEF GetT, IfU, Fields1, Fields4
  <2>2. fields = Fields5(d1, d2, d3, d4, d5)
    <3> HIDE DEF d1, d2, d3, d4, d5, fields
    <3> QED BY <1>0, <1>1, <2>1, Grown5 DEF fields
  <2>3. NamesIn(fields) = {"fid", "afid", "uname", "aname", "unamenum"}
    <3>1. d1[1] = "fid" /\ d2[1] = "afid" /\ d3[1] = "uname" /\ d4[1] = "aname" /\ d5[1] = "unamenum"
      OBVIOUS
    <3> HIDE DEF d1, d2, d3, d4, d5, fields
    <3>2. NamesIn(fields) = {d1[1], d2[1], d3[1], d4[1], d5[1]}
      BY <2>2, NamesOf5
    <3> QED BY <3>1, <3>2
  <2> HIDE DEF fields
  <2> QED BY <1>4, <2>3 DEF FieldsOf, fields
<1>5. CASE ~ u
  <2>1. GetT(t, u) = Fields4(d1, d2, d3, d4) \o <<>>
    BY Zenon, <1>5 DEF GetT, IfU, Fields4
  <2>2. fields = Fields4(d1, d2, d3, d4)
    <3> HIDE DEF d1, d2, d3, d4, d5, fields
    <3> QED BY <1>0, <1>1, <2>1, Grown4 DEF fields
  <2>3. NamesIn(fields) = {"fid", "afid", "uname", "aname"}
    <3>1. d1[1] = "fid" /\ d2[1] = "afid" /\ d3[1] = "uname" /\ d4[1] = "aname"
      OBVIOUS
    <3> HIDE DEF d1, d2, d3, d4, fields
    <3>2. NamesIn(fields) = {d1[1], d2[1], d3[1], d4[1]}
      BY <2>2, NamesOf4
    <3> QED BY <3>1, <3>2
  <2> HIDE DEF fields
  <2> QED BY <1>5, <2>3 DEF FieldsOf, fields
<1> QED BY <1>4, <1>5

LEMMA FieldsOfTwalk ==
    ASSUME NEW t, NEW u \in BOOLEAN, t = "Twalk"
    PROVE  FieldsOf(t, u) = {"type", "tag", "fid", "newfid", "wname"}
<1>1. MsgFields(t, u) = GetT(t, u)
  <2>1. IsT(t)
    BY RequestsAre
  <2> QED BY <2>1 DEF MsgFields
<1> DEFINE d1 == <<"fid", "u32">>
           d2 == <<"newfid", "u32">>
           d3 == <<"wname", "names">>
           fields == MsgFields(t, u)
<1>2. NamesIn(fields) = {"fid", "newfid", "wname"}
  <2>1. GetT(t, u) = Fields3(d1, d2, d3)
    BY Zenon DEF GetT, Fields3
  <2>2. fields = Fields3(d1, d2, d3)
    BY Zenon, <1>1, <2>1
  <2>3. NamesIn(fields) = {"fid", "newfid", "wname"}
    <3>1. d1[1] = "fid" /\ d2[1] = "newfid" /\ d3[1] = "wname"
      OBVIOUS
    <3> HIDE DEF d1, d2, d3, fields
    <3>2. NamesIn(fields) = {d1[1], d2[1], d3[1]}
      BY <2>2, NamesOf3
    <3> QED BY <3>1, <3>2
  <2> QED BY <2>3
<1> HIDE DEF fields
<1> QED BY <1>2 DEF FieldsOf, fields

LEMMA FieldsOfTopen ==
    ASSUME NEW t, NEW u \in BOOLEAN, t = "Topen"
    PROVE  FieldsOf(t, u) = {"type", "tag", "fid", "mode"}
<1>1. MsgFields(t, u) = GetT(t, u)
  <2>1. IsT(t)
    BY RequestsAre
  <2> QED BY <2>1 DEF MsgFields
<1> DEFINE d1 == <<"fid", "u32">>
           d2 == <<"mode", "u8">>
           fields == MsgFields(t, u)
<1>2. NamesIn(fields) = {"fid", "mode"}
  <2>1. GetT(t, u) = Fields2(d1, d2)
    BY Zenon DEF GetT, Fields2
  <2>2. fields = Fields2(d1, d2)
    BY Zenon, <1>1, <2>1
  <2>3. NamesIn(fields) = {"fid", "mode"}
    <3>1. d1[1] = "fid" /\ d2[1] = "mode"
      OBVIOUS
    <3> HIDE DEF d1, d2, fields
    <3>2. NamesIn(fields) = {d1[1], d2[1]}
      BY <2>2, NamesOf2
    <3> QED BY <3>1, <3>2
  <2> QED BY <2>3
<1> HIDE DEF fields
<1> QED BY <1>2 DEF FieldsOf, fields

LEMMA FieldsOfTcreate ==
    ASSUME NEW t, NEW u \in BOOLEAN, t = "Tcreate"
    PROVE  FieldsOf(t, u) = {"type", "tag", "fid", "name", "perm", "mode"} \cup (IF u THEN {"ext"} ELSE {})
<1>1. MsgFields(t, u) = GetT(t, u)
  <2>1. IsT(t)
    BY RequestsAre
  <2> QED BY <2>1 DEF MsgFields
<1> DEFINE d1 == <<"fid", "u32">>
           d2 == <<"name", "str">>
           d3 == <<"perm", "u32">>
           d4 == <<"mode", "u8">>
           d5 == <<"ext", "str">>
           fields == MsgFields(t, u)
<1>0. d1 \in FieldType /\ d2 \in FieldType /\ d3 \in FieldType /\ d4 \in FieldType /\ d5 \in FieldType
  <2>1. "fid" \in FieldNames /\ "name" \in FieldNames /\ "perm" \in FieldNames /\ "mode" \in FieldNames /\ "ext" \in FieldNames
    BY DEF FieldNames
  <2> QED BY Zenon, <2>1, FieldTypes
<1>4. CASE u
  <2>1. GetT(t, u) = Fields4(d1, d2, d3, d4) \o Fields1(d5)
    BY Zenon, <1>4 DEF GetT, IfU, Fields1, Fields4
  <2>2. fields = Fields5(d1, d2, d3, d4, d5)
    <3> HIDE DEF d1, d2, d3, d4, d5, fields
    <3> QED BY <1>0, <1>1, <2>1, Grown5 DEF fields
  <2>3. NamesIn(fields) = {"fid", "name", "perm", "mode", "ext"}
    <3>1. d1[1] = "fid" /\ d2[1] = "name" /\ d3[1] = "perm" /\ d4[1] = "mode" /\ d5[1] = "ext"
      OBVIOUS
    <3> HIDE DEF d1, d2, d3, d4, d5, fields
    <3>2. NamesIn(fields) = {d1[1], d2[1], d3[1], d4[1], d5[1]}
      BY <2>2, NamesOf5
    <3> QED BY <3>1, <3>2
  <2> HIDE DEF fields
  <2> QED BY <1>4, <2>3 DEF FieldsOf, fields
<1>5. CASE ~ u
  <2>1. GetT(t, u) = Fields4(d1, d2, d3, d4) \o <<>>
    BY Zenon, <1>5 DEF GetT, IfU, Fields4
  <2>2. fields = Fields4(d1, d2, d3, d4)
    <3> HIDE DEF d1, d2, d3, d4, d5, fields
    <3> QED BY <1>0, <1>1, <2>1, Grown4 DEF fields
  <2>3. NamesIn(fields) = {"fid", "name", "perm", "mode"}
    <3>1. d1[1] = "fid" /\ d2[1] = "name" /\ d3[1] = "perm" /\ d4[1] = "mode"
      OBVIOUS
    <3> HIDE DEF d1, d2, d3, d4, fields
    <3>2. NamesIn(fields) = {d1[1], d2[1], d3[1], d4[1]}
      BY <2>2, NamesOf4
    <3> QED BY <3>1, <3>2
  <2> HIDE DEF fields
  <2> QED BY <1>5, <2>3 DEF FieldsOf, fields
<1> QED BY <1>4, <1>5

LEMMA FieldsOfTread ==
    ASSUME NEW t, NEW u \in BOOLEAN, t = "Tread"
    PROVE  FieldsOf(t, u) = {"type", "tag", "fid", "offset", "count"}
<1>1. MsgFields(t, u) = GetT(t, u)
  <2>1. IsT(t)
    BY RequestsAre
  <2> QED BY <2>1 DEF MsgFields
<1> DEFINE d1 == <<"fid", "u32">>
           d2 == <<"offset", "u64">>
           d3 == <<"count", "u32">>
           fields == MsgFields(t, u)
<1>2. NamesIn(fields) = {"fid", "offset", "count"}
  <2>1. GetT(t, u) = Fields3(d1, d2, d3)
    BY Zenon DEF GetT, Fields3
  <2>2. fields = Fields3(d1, d2, d3)
    BY Zenon, <1>1, <2>1
  <2>3. NamesIn(fields) = {"fid", "offset", "count"}
    <3>1. d1[1] = "fid" /\ d2[1] = "offset" /\ d3[1] = "count"
      OBVIOUS
    <3> HIDE DEF d1, d2, d3, fields
    <3>2. NamesIn(fields) = {d1[1], d2[1], d3[1]}
      BY <2>2, NamesOf3
    <3> QED BY <3>1, <3>2
  <2> QED BY <2>3
<1> HIDE DEF fields
<1> QED BY <1>2 DEF FieldsOf, fields

LEMMA FieldsOfTwrite ==
    ASSUME NEW t, NEW u \in BOOLEAN, t = "Twrite"
    PROVE  FieldsOf(t, u) = {"type", "tag", "fid", "offset", "data"}
<1>1. MsgFields(t, u) = GetT(t, u)
  <2>1. IsT(t)
    BY RequestsAre
  <2> QED BY <2>1 DEF MsgFields
<1> DEFINE d1 == <<"fid", "u32">>
           d2 == <<"offset", "u64">>
           d3 == <<"data", "data">>
           fields == MsgFields(t, u)
<1>2. NamesIn(fields) = {"fid", "offset", "data"}
  <2>1. GetT(t, u) = Fields3(d1, d2, d3)
    BY Zenon DEF GetT, Fields3
  <2>2. fields = Fields3(d1, d2, d3)
    BY Zenon, <1>1, <2>1
  <2>3. NamesIn(fields) = {"fid", "offset", "data"}
    <3>1. d1[1] = "fid" /\ d2[1] = "offset" /\ d3[1] = "data"
      OBVIOUS
    <3> HIDE DEF d1, d2, d3, fields
    <3>2. NamesIn(fields) = {d1[1], d2[1], d3[1]}
      BY <2>2, NamesOf3
    <3> QED BY <3>1, <3>2
  <2> QED BY <2>3
<1> HIDE DEF fields
<1> QED BY <1>2 DEF FieldsOf, fields

LEMMA FieldsOfTclunk ==
    ASSUME NEW t, NEW u \in BOOLEAN, t \in {"Tclunk", "Tremove", "Tstat"}
    PROVE  FieldsOf(t, u) = {"type", "tag", "fid"}
<1>1. MsgFields(t, u) = GetT(t, u)
  <2>1. IsT(t)
    BY RequestsAre
  <2> QED BY <2>1 DEF MsgFields
<1> DEFINE d1 == <<"fid", "u32">>
           fields == MsgFields(t, u)
<1>2. NamesIn(fields) = {"fid"}
  <2>1. GetT(t, u) = Fields1(d1)
    BY Zenon DEF GetT, Fields1
  <2>2. fields = Fields1(d1)
    BY Zenon, <1>1, <2>1
  <2>3. NamesIn(fields) = {"fid"}
    <3>1. d1[1] = "fid"
      OBVIOUS
    <3> HIDE DEF d1, fields
    <3>2. NamesIn(fields) = {d1[1]}
      BY <2>2, NamesOf1
    <3> QED BY <3>1, <3>2
  <2> QED BY <2>3
<1> HIDE DEF fields
<1> QED BY <1>2 DEF FieldsOf, fields

LEMMA FieldsOfTwstat ==
    ASSUME NEW t, NEW u \in BOOLEAN, t = "Twstat"
    PROVE  FieldsOf(t, u) = {"type", "tag", "fid", "stat"}
<1>1. MsgFields(t, u) = GetT(t, u)
  <2>1. IsT(t)
    BY RequestsAre
  <2> QED BY <2>1 DEF MsgFields
<1> DEFINE d1 == <<"fid", "u32">>
           d2 == <<"stat", "stat">>
           fields == MsgFields(t, u)
<1>2. NamesIn(fields) = {"fid", "stat"}
  <2>1. GetT(t, u) = Fields2(d1, d2)
    BY Zenon DEF GetT, Fields2
  <2>2. fields = Fields2(d1, d2)
    BY Zenon, <1>1, <2>1
  <2>3. NamesIn(fields) = {"fid", "stat"}
    <3>1. d1[1] = "fid" /\ d2[1] = "stat"
      OBVIOUS
    <3> HIDE DEF d1, d2, fields
    <3>2. NamesIn(fields) = {d1[1], d2[1]}
      BY <2>2, NamesOf2
    <3> QED BY <3>1, <3>2
  <2> QED BY <2>3
<1> HIDE DEF fields
<1> QED BY <1>2 DEF FieldsOf, fields

LEMMA FieldsOfRversion ==
    ASSUME NEW t, NEW u \in BOOLEAN, t = "Rversion"
    PROVE  FieldsOf(t, u) = {"type", "tag", "msize", "version"}
<1>1. MsgFields(t, u) = GetR(t, u)
  <2>1. ~ IsT(t)
    BY ResponsesAre
  <2> QED BY <2>1 DEF MsgFields
<1> DEFINE d1 == <<"msize", "u32">>
           d2 == <<"version", "str">>
           fields == MsgFields(t, u)
<1>2. NamesIn(fields) = {"msize", "version"}
  <2>1. GetR(t, u) = Fields2(d1, d2)
    BY Zenon DEF GetR, Fields2
  <2>2. fields = Fields2(d1, d2)
    BY Zenon, <1>1, <2>1
  <2>3. NamesIn(fields) = {"msize", "version"}
    <3>1. d1[1] = "msize" /\ d2[1] = "version"
      OBVIOUS
    <3> HIDE DEF d1, d2, fields
    <3>2. NamesIn(fields) = {d1[1], d2[1]}
      BY <2>2, NamesOf2
    <3> QED BY <3>1, <3>2
  <2> QED BY <2>3
<1> HIDE DEF fields
<1> QED BY <1>2 DEF FieldsOf, fields

LEMMA FieldsOfRerror ==
    ASSUME NEW t, NEW u \in BOOLEAN, t = "Rerror"
    PROVE  FieldsOf(t, u) = {"type", "tag", "ename"} \cup (IF u THEN {"errnum"} ELSE {})
<1>1. MsgFields(t, u) = GetR(t, u)
  <2>1. ~ IsT(t)
    BY ResponsesAre
  <2> QED BY <2>1 DEF MsgFields
<1> DEFINE d1 == <<"ename", "str">>
           d2 == <<"errnum", "u32">>
           fields == MsgFields(t, u)
<1>0. d1 \in FieldType /\ d2 \in FieldType
  <2>1. "ename" \in FieldNames /\ "errnum" \in FieldNames
    BY DEF FieldNames
  <2> QED BY Zenon, <2>1, FieldTypes
<1>4. CASE u
  <2>1. GetR(t, u) = Fields1(d1) \o Fields1(d2)
    BY Zenon, <1>4 DEF GetR, IfU, Fields1
  <2>2. fields = Fields2(d1, d2)
    <3> HIDE DEF d1, d2, fields
    <3> QED BY <1>0, <1>1, <2>1, Grown2 DEF fields
  <2>3. NamesIn(fields) = {"ename", "errnum"}
    <3>1. d1[1] = "ename" /\ d2[1] = "errnum"
      OBVIOUS
    <3> HIDE DEF d1, d2, fields
    <3>2. NamesIn(fields) = {d1[1], d2[1]}
      BY <2>2, NamesOf2
    <3> QED BY <3>1, <3>2
  <2> HIDE DEF fields
  <2> QED BY <1>4, <2>3 DEF FieldsOf, fields
<1>5. CASE ~ u
  <2>1. GetR(t, u) = Fields1(d1) \o <<>>
    BY Zenon, <1>5 DEF GetR, IfU, Fields1
  <2>2. fields = Fields1(d1)
    <3> HIDE DEF d1, d2, fields
    <3> QED BY <1>0, <1>1, <2>1, Grown1 DEF fields
  <2>3. NamesIn(fields) = {"ename"}
    <3>1. d1[1] = "ename"
      OBVIOUS
    <3> HIDE DEF d1, fields
    <3>2. NamesIn(fields) = {d1[1]}
      BY <2>2, NamesOf1
    <3> QED BY <3>1, <3>2
  <2> HIDE DEF fields
  <2> QED BY <1>5, <2>3 DEF FieldsOf, fields
<1> QED BY <1>4, <1>5

LEMMA FieldsOfRauth ==
    ASSUME NEW t, NEW u \in BOOLEAN, t \in {"Rauth", "Rattach"}
    PROVE  FieldsOf(t, u) = {"type", "tag", "qid"}
<1>1. MsgFields(t, u) = GetR(t, u)
  <2>1. ~ IsT(t)
    BY ResponsesAre
  <2> QED BY <2>1 DEF MsgFields
<1> DEFINE d1 == <<"qid", "qid">>
           fields == MsgFields(t, u)
<1>2. NamesIn(fields) = {"qid"}
  <2>1. GetR(t, u) = Fields1(d1)
    BY Zenon DEF GetR, Fields1
  <2>2. fields = Fields1(d1)
    BY Zenon, <1>1, <2>1
  <2>3. NamesIn(fields) = {"qid"}
    <3>1. d1[1] = "qid"
      OBVIOUS
    <3> HIDE DEF d1, fields
    <3>2. NamesIn(fields) = {d1[1]}
      BY <2>2, NamesOf1
    <3> QED BY <3>1, <3>2
  <2> QED BY <2>3
<1> HIDE DEF fields
<1> QED BY <1>2 DEF FieldsOf, fields

LEMMA FieldsOfRwalk ==
    ASSUME NEW t, NEW u \in BOOLEAN, t = "Rwalk"
    PROVE  FieldsOf(t, u) = {"type", "tag", "wqid"}
<1>1. MsgFields(t, u) = GetR(t, u)
  <2>1. ~ IsT(t)
    BY ResponsesAre
  <2> QED BY <2>1 DEF MsgFields
<1> DEFINE d1 == <<"wqid", "qids">>
           fields == MsgFields(t, u)
<1>2. NamesIn(fields) = {"wqid"}
  <2>1. GetR(t, u) = Fields1(d1)
    BY Zenon DEF GetR, Fields1
  <2>2. fields = Fields1(d1)
    BY Zenon, <1>1, <2>1
  <2>3. NamesIn(fields) = {"wqid"}
    <3>1. d1[1] = "wqid"
      OBVIOUS
    <3> HIDE DEF d1, fields
    <3>2. NamesIn(fields) = {d1[1]}
      BY <2>2, NamesOf1
    <3> QED BY <3>1, <3>2
  <2> QED BY <2>3
<1> HIDE DEF fields
<1> QED BY <1>2 DEF FieldsOf, fields

LEMMA FieldsOfRopen ==
    ASSUME NEW t, NEW u \in BOOLEAN, t \in {"Ropen", "Rcreate"}
    PROVE  FieldsOf(t, u) = {"type", "tag", "qid", "iounit"}
<1>1. MsgFields(t, u) = GetR(t, u)
  <2>1. ~ IsT(t)
    BY ResponsesAre
  <2> QED BY <2>1 DEF MsgFields
<1> DEFINE d1 == <<"qid", "qid">>
           d2 == <<"iounit", "u32">>
           fields == MsgFields(t, u)
<1>2. NamesIn(fields) = {"qid", "iounit"}
  <2>1. GetR(t, u) = Fields2(d1, d2)
    BY Zenon DEF GetR, Fields2
  <2>2. fields = Fields2(d1, d2)
    BY Zenon, <1>1, <2>1
  <2>3. NamesIn(fields) = {"qid", "iounit"}
    <3>1. d1[1] = "qid" /\ d2[1] = "iounit"
      OBVIOUS
    <3> HIDE DEF d1, d2, fields
    <3>2. NamesIn(fields) = {d1[1], d2[1]}
      BY <2>2, NamesOf2
    <3> QED BY <3>1, <3>2
  <2> QED BY <2>3
<1> HIDE DEF fields
<1> QED BY <1>2 DEF FieldsOf, fields

LEMMA FieldsOfRread ==
    ASSUME NEW t, NEW u \in BOOLEAN, t = "Rread"
    PROVE  FieldsOf(t, u) = {"type", "tag", "data"}
<1>1. MsgFields(t, u) = GetR(t, u)
  <2>1. ~ IsT(t)
    BY ResponsesAre
  <2> QED BY <2>1 DEF MsgFields
<1> DEFINE d1 == <<"data", "data">>
           fields == MsgFields(t, u)
<1>2. NamesIn(fields) = {"data"}
  <2>1. GetR(t, u) = Fields1(d1)
    BY Zenon DEF GetR, Fields1
  <2>2. fields = Fields1(d1)
    BY Zenon, <1>1, <2>1
  <2>3. NamesIn(fields) = {"data"}
    <3>1. d1[1] = "data"
      OBVIOUS
    <3> HIDE DEF d1, fields
    <3>2. NamesIn(fields) = {d1[1]}
      BY <2>2, NamesOf1
    <3> QED BY <3>1, <3>2
  <2> QED BY <2>3
<1> HIDE DEF fields
<1> QED BY <1>2 DEF FieldsOf, fields

LEMMA FieldsOfRwrite ==
    ASSUME NEW t, NEW u \in BOOLEAN, t = "Rwrite"
    PROVE  FieldsOf(t, u) = {"type", "tag", "count"}
<1>1. MsgFields(t, u) = GetR(t, u)
  <2>1. ~ IsT(t)
    BY ResponsesAre
  <2> QED BY <2>1 DEF MsgFields
<1> DEFINE d1 == <<"count", "u32">>
           fields == MsgFields(t, u)
<1>2. NamesIn(fields) = {"count"}
  <2>1. GetR(t, u) = Fields1(d1)
    BY Zenon DEF GetR, Fields1
  <2>2. fields = Fields1(d1)
    BY Zenon, <1>1, <2>1
  <2>3. NamesIn(fields) = {"count"}
    <3>1. d1[1] = "count"
      OBVIOUS
    <3> HIDE DEF d1, fields
    <3>2. NamesIn(fields) = {d1[1]}
      BY <2>2, NamesOf1
    <3> QED BY <3>1, <3>2
  <2> QED BY <2>3
<1> HIDE DEF fields
<1> QED BY <1>2 DEF FieldsOf, fields

LEMMA FieldsOfRstat ==
    ASSUME NEW t, NEW u \in BOOLEAN, t = "Rstat"
    PROVE  FieldsOf(t, u) = {"type", "tag", "stat"}
<1>1. MsgFields(t, u) = GetR(t, u)
  <2>1. ~ IsT(t)
    BY ResponsesAre
  <2> QED BY <2>1 DEF MsgFields
<1> DEFINE d1 == <<"stat", "stat">>
           fields == MsgFields(t, u)
<1>2. NamesIn(fields) = {"stat"}
  <2>1. GetR(t, u) = Fields1(d1)
    BY Zenon DEF GetR, Fields1
  <2>2. fields = Fields1(d1)
    BY Zenon, <1>1, <2>1
  <2>3. NamesIn(fields) = {"stat"}
    <3>1. d1[1] = "stat"
      OBVIOUS
    <3> HIDE DEF d1, fields
    <3>2. NamesIn(fields) = {d1[1]}
      BY <2>2, NamesOf1
    <3> QED BY <3>1, <3>2
  <2> QED BY <2>3
<1> HIDE DEF fields
<1> QED BY <1>2 DEF FieldsOf, fields

LEMMA FieldsOfRflush ==
    ASSUME NEW t, NEW u \in BOOLEAN, t \in {"Rflush", "Rclunk", "Rremove", "Rwstat"}
    PROVE  FieldsOf(t, u) = {"type", "tag"}
<1>1. MsgFields(t, u) = GetR(t, u)
  <2>1. ~ IsT(t)
    BY ResponsesAre
  <2> QED BY <2>1 DEF MsgFields
<1>2. GetR(t, u) = <<>>
  BY Zenon DEF GetR
<1> QED BY <1>1, <1>2 DEF FieldsOf, NamesIn

-----------------------------------------------------------------------------
(* The numbers the requests are made of.                                   *)

LEMMA MinIs == \A a, b \in Int : Min({a, b}) = IF a <= b THEN a ELSE b
<1> TAKE a, b \in Int
<1> DEFINE m == IF a <= b THEN a ELSE b
<1>1. m \in {a, b} /\ \A y \in {a, b} : m <= y
  OBVIOUS
<1>2. \A x \in {a, b} : (\A y \in {a, b} : x <= y) => x = m
  OBVIOUS
<1> HIDE DEF m
<1>3. Min({a, b}) = m
  BY <1>1, <1>2 DEF Min
<1> QED BY <1>3 DEF m

LEMMA SmallIs ==
    /\ \A n \in 0 .. 127 : n \in Numbers(BIT8SZ) /\ n \in Numbers(BIT16SZ) /\ n \in Numbers(BIT32SZ)
    /\ Numbers(BIT8SZ) \subseteq Numbers(BIT16SZ) /\ Numbers(BIT16SZ) \subseteq Numbers(BIT32SZ)
    /\ Numbers(BIT32SZ) \subseteq Nat
    /\ \A w \in {1, 2, 4} : Ones(w) \in Numbers(w)
    /\ NOFID \in Numbers(BIT32SZ) /\ NOTAG \in Numbers(BIT16SZ) /\ DIRMAX \in Numbers(BIT32SZ)
    /\ Fid \in 0 .. 127 /\ Fid + 1 \in 0 .. 127
<1>1. Values(1) \in Nat /\ Values(2) \in Nat /\ Values(4) \in Nat
  BY ValuesPositive
<1>2. Values(1) > 127 /\ Values(1) < Values(2) /\ Values(2) < Values(4)
  BY ValuesOf
<1> HIDE DEF Values
<1> QED BY <1>1, <1>2, BitsAre DEF Numbers, Ones, NOFID, NOTAG, DIRMAX, Fid

LEMMA ModBelow == \A n \in Nat, v \in Nat : n < v => n % v = n
OBVIOUS

LEMMA ClampIs ==
    ASSUME msize \in 0 .. MaxMsg, NEW n \in Numbers(BIT32SZ)
    PROVE  /\ Clamp(n) \in Nat /\ Clamp(n) <= n /\ Clamp(n) \in Numbers(BIT32SZ)
           /\ msize >= IOHDRSZ => Clamp(n) <= msize - IOHDRSZ
<1> DEFINE v == Values(BIT32SZ)
           r == (msize - IOHDRSZ) % v
<1>1. v \in Nat \ {0} /\ MaxMsg \in Nat /\ MaxMsg < v
  <2>1. MaxMsg \in Numbers(BIT32SZ)
    BY RequestsAssumption, SmallIs
  <2> QED BY <2>1, ValuesPositive, BitsAre DEF Numbers
<1>2. n \in Nat /\ n < v
  BY <1>1 DEF Numbers
<1> HIDE DEF v
<1>3. r \in Nat
  BY <1>1 DEF IOHDRSZ
<1>4. msize >= IOHDRSZ => r = msize - IOHDRSZ
  BY <1>1, ModBelow DEF IOHDRSZ
<1>5. Clamp(n) = Min({n, r})
  BY DEF Clamp, v
<1> HIDE DEF r
<1>6. Clamp(n) = IF n <= r THEN n ELSE r
  BY <1>2, <1>3, <1>5, MinIs
<1>7. Clamp(n) \in Nat /\ Clamp(n) <= n
  BY <1>2, <1>3, <1>6
<1>8. msize >= IOHDRSZ => Clamp(n) <= msize - IOHDRSZ
  BY <1>2, <1>3, <1>4, <1>6 DEF IOHDRSZ
<1>9. Clamp(n) \in Numbers(BIT32SZ)
  BY <1>1, <1>2, <1>7 DEF Numbers, v
<1> QED BY <1>7, <1>8, <1>9

(* Strings, entries and what is said of them.                              *)

LEMMA StatLens == STATFIXLEN = 49 /\ STATUEXTRALEN = 14
BY DEF STATFIXLEN, STATUEXTRALEN, QIDSZ, BIT8SZ, BIT16SZ, BIT32SZ, BIT64SZ

LEMMA BufferLens == \A b \in Buffers : Len(b) \in Nat
BY BufferIs

LEMMA StringsAre ==
    /\ \A s \in Strings \cup {NoError, UnknownFid} :
          s \in Names /\ Len(s) \in Nat /\ Len(s) + 63 \in Numbers(BIT16SZ)
    /\ <<>> \in Names
<1>1. \A s \in Strings \cup {NoError, UnknownFid} : s \in CStrings /\ Len(s) \in Nat
  <2>1. \A s \in Strings \cup {NoError, UnknownFid} : s \in CStrings
    BY RequestsAssumption
  <2>2. \A s \in CStrings : Len(s) \in Nat
    BY LenProperties DEF CStrings
  <2> QED BY <2>1, <2>2
<1>2. \A s \in Strings \cup {NoError, UnknownFid} : Len(s) + 63 \in Numbers(BIT16SZ)
  BY <1>1, RequestsAssumption, StatLens
<1>3. Values(BIT16SZ) \in Nat
  BY ValuesPositive, BitsAre
<1>4. \A s \in Strings \cup {NoError, UnknownFid} : Len(s) \in Numbers(BIT16SZ)
  BY <1>1, <1>2, <1>3 DEF Numbers
<1>5. <<>> \in Names
  <2>1. <<>> \in CStrings /\ Len(<<>>) = 0
    BY DEF CStrings
  <2> QED BY <2>1, SmallIs DEF Names
<1> QED BY <1>1, <1>2, <1>4, <1>5 DEF Names

(* The length of an entry counts its strings.                              *)
LEMMA EntriesOk ==
    \A d \in Entries : DirOk(d) /\ \A u \in BOOLEAN : SizeD2M(d, u) \in Numbers(BIT16SZ)
<1> TAKE d \in Entries
<1>1. d \in DirType /\ \A u \in BOOLEAN : SizeD2M(d, u) \in Numbers(BIT16SZ)
  BY RequestsAssumption
<1>2. /\ d.name \in CStrings /\ d.uid \in CStrings /\ d.gid \in CStrings /\ d.muid \in CStrings
      /\ d.ext \in CStrings
  BY <1>1 DEF DirType
<1>3. \A s \in CStrings : Len(s) \in Nat
  BY LenProperties DEF CStrings
<1> DEFINE l1 == Len(d.name)
           l2 == Len(d.uid)
           l3 == Len(d.gid)
           l4 == Len(d.muid)
           l5 == Len(d.ext)
           a == DirBase(TRUE)
<1>4. a + l1 + l2 + l3 + l4 + l5 \in Numbers(BIT16SZ)
  <2>1. SizeD2M(d, TRUE) \in Numbers(BIT16SZ)
    BY <1>1
  <2> QED BY <1>1, <2>1, SizeD2MOf
<1>5. l1 \in Nat /\ l2 \in Nat /\ l3 \in Nat /\ l4 \in Nat /\ l5 \in Nat /\ a \in Nat
  <2>1. a \in Nat
    BY StatLens DEF DirBase, DotU
  <2> QED BY <1>2, <1>3, <2>1
<1> DEFINE v == Values(BIT16SZ)
<1>6. v \in Nat
  BY ValuesPositive, BitsAre
<1> HIDE DEF l1, l2, l3, l4, l5, a, v
<1>7. a + l1 + l2 + l3 + l4 + l5 < v
  BY <1>4, <1>5, <1>6 DEF Numbers, v
<1>8. l1 < v /\ l2 < v /\ l3 < v /\ l4 < v /\ l5 < v
  BY <1>5, <1>6, <1>7
<1>9. /\ l1 \in Numbers(BIT16SZ) /\ l2 \in Numbers(BIT16SZ) /\ l3 \in Numbers(BIT16SZ)
      /\ l4 \in Numbers(BIT16SZ) /\ l5 \in Numbers(BIT16SZ)
  BY <1>5, <1>6, <1>8 DEF Numbers, v
<1>10. DirOk(d)
  BY <1>1, <1>2, <1>9 DEF DirOk, Strung, Names, l1, l2, l3, l4, l5
<1> QED BY <1>1, <1>10

(* nulldir with a name, which wstat_9p sends.                              *)
Renamed(n) == [Nulldir EXCEPT !.name = n]

LEMMA RenamedOk ==
    \A n \in Strings : /\ DirOk(Renamed(n)) /\ Renamed(n).name = n
                       /\ \A u \in BOOLEAN : SizeD2M(Renamed(n), u) \in Numbers(BIT16SZ)
<1> TAKE n \in Strings
<1> DEFINE d == Renamed(n)
<1>1. n \in Names /\ n \in CStrings /\ <<>> \in Names /\ <<>> \in CStrings
  BY StringsAre DEF Names
<1>2. Ones(1) \in Numbers(BIT8SZ) /\ Ones(2) \in Numbers(BIT16SZ) /\ Ones(4) \in Numbers(BIT32SZ)
  BY SmallIs, BitsAre
<1> DEFINE e8 == [i \in 1 .. 8 |-> Ones(1)]
           q == [type |-> Ones(1), vers |-> Ones(4), path |-> e8]
<1>3. e8 \in [1 .. BIT64SZ -> Numbers(BIT8SZ)]
  BY <1>2, BitsAre
<1> HIDE DEF e8
<1>4. q \in QidType
  BY <1>2, <1>3 DEF QidType
<1> HIDE DEF q
<1> DEFINE r == Nulldir
<1> HIDE DEF d, r
<1>5. r = [dtype |-> Ones(2), dev |-> Ones(4), mode |-> Ones(4), atime |-> Ones(4), mtime |-> Ones(4),
           qid |-> q, length |-> e8, name |-> <<>>, uid |-> <<>>, gid |-> <<>>,
           muid |-> <<>>, ext |-> <<>>, uidnum |-> Ones(4), gidnum |-> Ones(4), muidnum |-> Ones(4)]
  BY DEF r, Nulldir, q, e8
<1>10. r \in DirType
  BY <1>1, <1>2, <1>3, <1>4, <1>5 DEF DirType
<1>11. d = [r EXCEPT !.name = n]
  BY DEF d, r, Renamed
<1>6. d \in DirType
  BY <1>1, <1>10, <1>11 DEF DirType
<1>7. d.name = n /\ d.uid = <<>> /\ d.gid = <<>> /\ d.muid = <<>> /\ d.ext = <<>>
  <2>1. r.uid = <<>> /\ r.gid = <<>> /\ r.muid = <<>> /\ r.ext = <<>>
    BY <1>5
  <2> QED BY <1>10, <1>11, <2>1 DEF DirType
<1>8. DirOk(d)
  BY <1>1, <1>6, <1>7 DEF DirOk, Strung
<1>9. ASSUME NEW u \in BOOLEAN
      PROVE  SizeD2M(d, u) \in Numbers(BIT16SZ)
  <2> DEFINE l == Len(n)
             s == SizeD2M(d, u)
             v == Values(BIT16SZ)
  <2>1. l \in Nat /\ l + 63 \in Numbers(BIT16SZ)
    BY StringsAre
  <2>2. s = DirBase(u) + Len(d.name) + Len(d.uid) + Len(d.gid) + Len(d.muid) + (IF u THEN Len(d.ext) ELSE 0)
    BY <1>6, SizeD2MOf
  <2>3. Len(<<>>) = 0
    OBVIOUS
  <2>4. DirBase(u) \in 49 .. 63
    BY StatLens DEF DirBase, DotU
  <2>5. v \in Nat
    BY ValuesPositive, BitsAre
  <2> DEFINE b == DirBase(u)
  <2> HIDE DEF l, s, v, b
  <2>6. s = b + l
    BY <1>7, <2>1, <2>2, <2>3, <2>4 DEF l, b
  <2>7. s \in 0 .. v - 1
    BY <2>1, <2>4, <2>5, <2>6 DEF Numbers, v, b
  <2> QED BY <2>7 DEF s, v, Numbers
<1> QED BY <1>7, <1>8, <1>9 DEF d

LEMMA StatBufIs ==
    ASSUME NEW d, DirOk(d), NEW u \in BOOLEAN, SizeD2M(d, u) \in Numbers(BIT16SZ)
    PROVE  /\ StatBuf(d, u) \in Counted(BIT16SZ) /\ StatBuf(d, u) \in Buffers
           /\ Len(StatBuf(d, u)) = SizeD2M(d, u) /\ Len(StatBuf(d, u)) \in Nat /\ Len(StatBuf(d, u)) >= 49
<1> DEFINE n == SizeD2M(d, u)
           b == StatBuf(d, u)
<1>1. n - BIT16SZ \in Numbers(BIT16SZ) /\ n \in Nat /\ n >= 49 /\ b = DirBytes(d, n - BIT16SZ, u)
  BY DirWritten DEF StatBuf
<1>2. DirBytes(d, n - BIT16SZ, u) \in Buffers /\ Length(DirBytes(d, n - BIT16SZ, u)) = n
  BY <1>1, DirEncoding
<1> HIDE DEF n, b
<1>3. b \in Buffers /\ Length(b) = n
  BY <1>1, <1>2 DEF n
<1> QED BY <1>1, <1>3 DEF Length, Counted, n, b

(* The message of each call is one that can be written, with the fields of *)
(* its type; a read or a write asks for no more than the message holds.    *)
LEMMA WriteIs ==
    ASSUME msize \in 0 .. MaxMsg, NEW b \in Datas
    PROVE  /\ SubSeq(b, 1, Clamp(Len(b))) \in Counted(BIT32SZ)
           /\ msize >= IOHDRSZ => Len(SubSeq(b, 1, Clamp(Len(b)))) <= msize - IOHDRSZ
<1>1. b \in Buffers /\ Len(b) \in Numbers(BIT32SZ) /\ Len(b) \in Nat
  BY RequestsAssumption, BufferLens
<1> DEFINE c == Clamp(Len(b))
           s == SubSeq(b, 1, c)
<1>2. c \in Nat /\ c <= Len(b) /\ c \in Numbers(BIT32SZ) /\ (msize >= IOHDRSZ => c <= msize - IOHDRSZ)
  BY <1>1, ClampIs
<1> HIDE DEF c
<1>3. s \in Buffers /\ Len(s) = c
  BY <1>1, <1>2, SubSeqProperties DEF Buffers
<1> HIDE DEF s
<1>4. s \in Counted(BIT32SZ)
  BY <1>2, <1>3 DEF Counted
<1> QED BY <1>2, <1>3, <1>4 DEF s, c

LEMMA TxVersion ==
    ASSUME msize \in 0 .. MaxMsg, dotu \in BOOLEAN,
           NEW c \in Calls, c.op = "version", NEW tag \in Numbers(BIT16SZ)
    PROVE  TxFor(c, Message(c, tag), msize, dotu)
<1> DEFINE m == [type |-> "Tversion", tag |-> NOTAG, msize |-> MaxMsg, version |-> c.name]
<1>1. Message(c, tag) = m
  BY DEF Message, SessionMsg
<1>2. c.name \in Strings /\ c.name \in Names
  <2>1. c.name \in Strings
    BY DEF Calls
  <2> QED BY <2>1, StringsAre
<1>5. m.type = "Tversion" /\ m.tag \in Numbers(BIT16SZ)
  BY SmallIs
<1>6. ASSUME NEW v \in BOOLEAN
      PROVE  MsgOk(m, v)
  BY <1>5, SmallIs, <1>2, RequestsAssumption, OkTversion
<1>7. DOMAIN m = FieldsOf(m.type, TRUE)
  BY <1>5, FieldsOfTversion
<1> HIDE DEF m
<1> QED BY <1>1, <1>5, <1>6, <1>7 DEF TxFor, TypeFor, Ts

LEMMA TxAuth ==
    ASSUME msize \in 0 .. MaxMsg, dotu \in BOOLEAN,
           NEW c \in Calls, c.op = "auth", NEW tag \in Numbers(BIT16SZ)
    PROVE  TxFor(c, Message(c, tag), msize, dotu)
<1> DEFINE m == [type |-> "Tauth", tag |-> tag, afid |-> Fid, uname |-> c.name, aname |-> c.name, unamenum |-> 0]
<1>1. Message(c, tag) = m
  BY DEF Message, SessionMsg
<1>2. c.name \in Strings /\ c.name \in Names
  <2>1. c.name \in Strings
    BY DEF Calls
  <2> QED BY <2>1, StringsAre
<1>5. m.type = "Tauth" /\ m.tag \in Numbers(BIT16SZ)
  BY SmallIs
<1>6. ASSUME NEW v \in BOOLEAN
      PROVE  MsgOk(m, v)
  BY <1>5, SmallIs, <1>2, OkTauth
<1>7. DOMAIN m = FieldsOf(m.type, TRUE)
  BY <1>5, FieldsOfTauth
<1> HIDE DEF m
<1> QED BY <1>1, <1>5, <1>6, <1>7 DEF TxFor, TypeFor, Ts

LEMMA TxAttach ==
    ASSUME msize \in 0 .. MaxMsg, dotu \in BOOLEAN,
           NEW c \in Calls, c.op = "attach", NEW tag \in Numbers(BIT16SZ)
    PROVE  TxFor(c, Message(c, tag), msize, dotu)
<1> DEFINE m == [type |-> "Tattach", tag |-> tag, fid |-> Fid, afid |-> NOFID, uname |-> c.name, aname |-> c.name, unamenum |-> 0]
<1>1. Message(c, tag) = m
  BY DEF Message, SessionMsg
<1>2. c.name \in Strings /\ c.name \in Names
  <2>1. c.name \in Strings
    BY DEF Calls
  <2> QED BY <2>1, StringsAre
<1>5. m.type = "Tattach" /\ m.tag \in Numbers(BIT16SZ)
  BY SmallIs
<1>6. ASSUME NEW v \in BOOLEAN
      PROVE  MsgOk(m, v)
  BY <1>5, SmallIs, <1>2, OkTattach
<1>7. DOMAIN m = FieldsOf(m.type, TRUE)
  BY <1>5, FieldsOfTattach
<1> HIDE DEF m
<1> QED BY <1>1, <1>5, <1>6, <1>7 DEF TxFor, TypeFor, Ts

LEMMA TxClone ==
    ASSUME msize \in 0 .. MaxMsg, dotu \in BOOLEAN,
           NEW c \in Calls, c.op = "clone", NEW tag \in Numbers(BIT16SZ)
    PROVE  TxFor(c, Message(c, tag), msize, dotu)
<1> DEFINE m == [type |-> "Twalk", tag |-> tag, fid |-> Fid, newfid |-> Fid + 1, wname |-> <<>>]
<1>1. Message(c, tag) = m
  BY DEF Message, FileMsg
<1>3. <<>> \in Lists(Names)
  <2>1. <<>> \in Seq(Names) /\ Len(<<>>) = 0
    OBVIOUS
  <2>2. MAXWELEM \in Nat \ {0}
    BY CodecAssumption
  <2>3. 0 \in Numbers(BIT16SZ)
    BY SmallIs
  <2> HIDE DEF m
  <2> QED BY <2>1, <2>2, <2>3 DEF Lists
<1>5. m.type = "Twalk" /\ m.tag \in Numbers(BIT16SZ)
  BY SmallIs
<1>6. ASSUME NEW v \in BOOLEAN
      PROVE  MsgOk(m, v)
  BY <1>5, SmallIs, <1>3, OkTwalk
<1>7. DOMAIN m = FieldsOf(m.type, TRUE)
  BY <1>5, FieldsOfTwalk
<1> HIDE DEF m
<1> QED BY <1>1, <1>5, <1>6, <1>7 DEF TxFor, TypeFor, Ts

LEMMA TxWalk ==
    ASSUME msize \in 0 .. MaxMsg, dotu \in BOOLEAN,
           NEW c \in Calls, c.op = "walk", NEW tag \in Numbers(BIT16SZ)
    PROVE  TxFor(c, Message(c, tag), msize, dotu)
<1> DEFINE m == [type |-> "Twalk", tag |-> tag, fid |-> Fid, newfid |-> Fid + 1, wname |-> <<c.name>>]
<1>1. Message(c, tag) = m
  BY DEF Message, FileMsg
<1>2. c.name \in Strings /\ c.name \in Names
  <2>1. c.name \in Strings
    BY DEF Calls
  <2> QED BY <2>1, StringsAre
<1>3. <<c.name>> \in Lists(Names)
  <2>1. <<c.name>> \in Seq(Names) /\ Len(<<c.name>>) = 1
    BY <1>2
  <2>2. MAXWELEM \in Nat \ {0}
    BY CodecAssumption
  <2>3. 1 \in Numbers(BIT16SZ)
    BY SmallIs
  <2> HIDE DEF m
  <2> QED BY <2>1, <2>2, <2>3 DEF Lists
<1>5. m.type = "Twalk" /\ m.tag \in Numbers(BIT16SZ)
  BY SmallIs
<1>6. ASSUME NEW v \in BOOLEAN
      PROVE  MsgOk(m, v)
  BY <1>5, SmallIs, <1>2, <1>3, OkTwalk
<1>7. DOMAIN m = FieldsOf(m.type, TRUE)
  BY <1>5, FieldsOfTwalk
<1> HIDE DEF m
<1> QED BY <1>1, <1>5, <1>6, <1>7 DEF TxFor, TypeFor, Ts

LEMMA TxOpen ==
    ASSUME msize \in 0 .. MaxMsg, dotu \in BOOLEAN,
           NEW c \in Calls, c.op = "open", NEW tag \in Numbers(BIT16SZ)
    PROVE  TxFor(c, Message(c, tag), msize, dotu)
<1> DEFINE m == [type |-> "Topen", tag |-> tag, fid |-> Fid, mode |-> 0]
<1>1. Message(c, tag) = m
  BY DEF Message, FileMsg
<1>5. m.type = "Topen" /\ m.tag \in Numbers(BIT16SZ)
  BY SmallIs
<1>6. ASSUME NEW v \in BOOLEAN
      PROVE  MsgOk(m, v)
  BY <1>5, SmallIs, OkTopen
<1>7. DOMAIN m = FieldsOf(m.type, TRUE)
  BY <1>5, FieldsOfTopen
<1> HIDE DEF m
<1> QED BY <1>1, <1>5, <1>6, <1>7 DEF TxFor, TypeFor, Ts

LEMMA TxCreate ==
    ASSUME msize \in 0 .. MaxMsg, dotu \in BOOLEAN,
           NEW c \in Calls, c.op = "create", NEW tag \in Numbers(BIT16SZ)
    PROVE  TxFor(c, Message(c, tag), msize, dotu)
<1> DEFINE m == [type |-> "Tcreate", tag |-> tag, fid |-> Fid, name |-> c.name, perm |-> 0, mode |-> 2, ext |-> c.name]
<1>1. Message(c, tag) = m
  BY DEF Message, FileMsg
<1>2. c.name \in Strings /\ c.name \in Names
  <2>1. c.name \in Strings
    BY DEF Calls
  <2> QED BY <2>1, StringsAre
<1>5. m.type = "Tcreate" /\ m.tag \in Numbers(BIT16SZ)
  BY SmallIs
<1>6. ASSUME NEW v \in BOOLEAN
      PROVE  MsgOk(m, v)
  BY <1>5, SmallIs, <1>2, OkTcreate
<1>7. DOMAIN m = FieldsOf(m.type, TRUE)
  BY <1>5, FieldsOfTcreate
<1> HIDE DEF m
<1> QED BY <1>1, <1>5, <1>6, <1>7 DEF TxFor, TypeFor, Ts

LEMMA TxRead ==
    ASSUME msize \in 0 .. MaxMsg, dotu \in BOOLEAN,
           NEW c \in Calls, c.op = "read", NEW tag \in Numbers(BIT16SZ)
    PROVE  TxFor(c, Message(c, tag), msize, dotu)
<1> DEFINE m == [type |-> "Tread", tag |-> tag, fid |-> Fid, offset |-> Offset(0), count |-> Clamp(c.count)]
<1>1. Message(c, tag) = m
  BY DEF Message, IoMsg
<1>3. Offset(0) \in [1 .. BIT64SZ -> Numbers(BIT8SZ)]
  <2>1. 0 \in Nat
    OBVIOUS
  <2>2. BIT64SZ \in Nat
    BY BitsAre
  <2> QED BY <2>1, <2>2, PBITBytes DEF Offset
<1>4. /\ c.count \in Numbers(BIT32SZ) /\ Clamp(c.count) \in Nat /\ Clamp(c.count) <= c.count /\ Clamp(c.count) \in Numbers(BIT32SZ)
      /\ msize >= IOHDRSZ => Clamp(c.count) <= msize - IOHDRSZ
  <2>1. c.count \in Numbers(BIT32SZ)
    BY RequestsAssumption DEF Calls
  <2> QED BY <2>1, ClampIs
<1>5. m.type = "Tread" /\ m.tag \in Numbers(BIT16SZ)
  BY SmallIs
<1>6. ASSUME NEW v \in BOOLEAN
      PROVE  MsgOk(m, v)
  BY <1>5, SmallIs, <1>3, <1>4, OkTread
<1>7. DOMAIN m = FieldsOf(m.type, TRUE)
  BY <1>5, FieldsOfTread
<1>8. m.count = Clamp(c.count) /\ m.offset = Offset(0)
  OBVIOUS
<1> HIDE DEF m
<1> QED BY <1>1, <1>3, <1>4, <1>5, <1>6, <1>7, <1>8 DEF TxFor, TypeFor, Ts

LEMMA TxReaddirs ==
    ASSUME msize \in 0 .. MaxMsg, dotu \in BOOLEAN, buf' \in Buffers,
           NEW c \in Calls, c.op = "readdirs", NEW tag \in Numbers(BIT16SZ)
    PROVE  TxFor(c, Message(c, tag), msize, dotu)
<1> DEFINE m == [type |-> "Tread", tag |-> tag, fid |-> Fid, offset |-> Offset(Len(buf')), count |-> Clamp(DIRMAX)]
<1>1. Message(c, tag) = m
  BY DEF Message, IoMsg
<1>3. Offset(Len(buf')) \in [1 .. BIT64SZ -> Numbers(BIT8SZ)]
  <2>1. Len(buf') \in Nat
    BY BufferLens
  <2>2. BIT64SZ \in Nat
    BY BitsAre
  <2> QED BY <2>1, <2>2, PBITBytes DEF Offset
<1>4. /\ DIRMAX \in Numbers(BIT32SZ) /\ Clamp(DIRMAX) \in Nat /\ Clamp(DIRMAX) <= DIRMAX /\ Clamp(DIRMAX) \in Numbers(BIT32SZ)
      /\ msize >= IOHDRSZ => Clamp(DIRMAX) <= msize - IOHDRSZ
  <2>1. DIRMAX \in Numbers(BIT32SZ)
    BY SmallIs
  <2> QED BY <2>1, ClampIs
<1>5. m.type = "Tread" /\ m.tag \in Numbers(BIT16SZ)
  BY SmallIs
<1>6. ASSUME NEW v \in BOOLEAN
      PROVE  MsgOk(m, v)
  BY <1>5, SmallIs, <1>3, <1>4, OkTread
<1>7. DOMAIN m = FieldsOf(m.type, TRUE)
  BY <1>5, FieldsOfTread
<1>8. m.count = Clamp(DIRMAX) /\ m.offset = Offset(Len(buf'))
  OBVIOUS
<1> HIDE DEF m
<1> QED BY <1>1, <1>3, <1>4, <1>5, <1>6, <1>7, <1>8 DEF TxFor, TypeFor, Ts

LEMMA TxWrite ==
    ASSUME msize \in 0 .. MaxMsg, dotu \in BOOLEAN,
           NEW c \in Calls, c.op = "write", NEW tag \in Numbers(BIT16SZ)
    PROVE  TxFor(c, Message(c, tag), msize, dotu)
<1> DEFINE m == [type |-> "Twrite", tag |-> tag, fid |-> Fid, offset |-> Offset(0), data |-> SubSeq(c.data, 1, Clamp(Len(c.data)))]
<1>1. Message(c, tag) = m
  BY DEF Message, IoMsg
<1>3. Offset(0) \in [1 .. BIT64SZ -> Numbers(BIT8SZ)]
  <2>1. 0 \in Nat
    OBVIOUS
  <2>2. BIT64SZ \in Nat
    BY BitsAre
  <2> QED BY <2>1, <2>2, PBITBytes DEF Offset
<1>4. /\ m.data \in Counted(BIT32SZ)
      /\ msize >= IOHDRSZ => Len(m.data) <= msize - IOHDRSZ
  <2>1. c.data \in Datas
    BY DEF Calls
  <2> QED BY <2>1, WriteIs
<1>5. m.type = "Twrite" /\ m.tag \in Numbers(BIT16SZ)
  BY SmallIs
<1>6. ASSUME NEW v \in BOOLEAN
      PROVE  MsgOk(m, v)
  BY <1>5, SmallIs, <1>3, <1>4, OkTwrite
<1>7. DOMAIN m = FieldsOf(m.type, TRUE)
  BY <1>5, FieldsOfTwrite
<1> HIDE DEF m
<1> QED BY <1>1, <1>4, <1>5, <1>6, <1>7 DEF TxFor, TypeFor, Ts

LEMMA TxClunk ==
    ASSUME msize \in 0 .. MaxMsg, dotu \in BOOLEAN,
           NEW c \in Calls, c.op = "clunk", NEW tag \in Numbers(BIT16SZ)
    PROVE  TxFor(c, Message(c, tag), msize, dotu)
<1> DEFINE m == [type |-> "Tclunk", tag |-> tag, fid |-> Fid]
<1>1. Message(c, tag) = m
  BY DEF Message, EntryMsg
<1>5. m.type = "Tclunk" /\ m.tag \in Numbers(BIT16SZ)
  BY SmallIs
<1>6. ASSUME NEW v \in BOOLEAN
      PROVE  MsgOk(m, v)
  BY <1>5, SmallIs, OkTclunk
<1>7. DOMAIN m = FieldsOf(m.type, TRUE)
  BY <1>5, FieldsOfTclunk
<1> HIDE DEF m
<1> QED BY <1>1, <1>5, <1>6, <1>7 DEF TxFor, TypeFor, Ts

LEMMA TxRemove ==
    ASSUME msize \in 0 .. MaxMsg, dotu \in BOOLEAN,
           NEW c \in Calls, c.op = "remove", NEW tag \in Numbers(BIT16SZ)
    PROVE  TxFor(c, Message(c, tag), msize, dotu)
<1> DEFINE m == [type |-> "Tremove", tag |-> tag, fid |-> Fid]
<1>1. Message(c, tag) = m
  BY DEF Message, EntryMsg
<1>5. m.type = "Tremove" /\ m.tag \in Numbers(BIT16SZ)
  BY SmallIs
<1>6. ASSUME NEW v \in BOOLEAN
      PROVE  MsgOk(m, v)
  BY <1>5, SmallIs, OkTclunk
<1>7. DOMAIN m = FieldsOf(m.type, TRUE)
  BY <1>5, FieldsOfTclunk
<1> HIDE DEF m
<1> QED BY <1>1, <1>5, <1>6, <1>7 DEF TxFor, TypeFor, Ts

LEMMA TxStat ==
    ASSUME msize \in 0 .. MaxMsg, dotu \in BOOLEAN,
           NEW c \in Calls, c.op = "stat", NEW tag \in Numbers(BIT16SZ)
    PROVE  TxFor(c, Message(c, tag), msize, dotu)
<1> DEFINE m == [type |-> "Tstat", tag |-> tag, fid |-> Fid]
<1>1. Message(c, tag) = m
  BY DEF Message, EntryMsg
<1>5. m.type = "Tstat" /\ m.tag \in Numbers(BIT16SZ)
  BY SmallIs
<1>6. ASSUME NEW v \in BOOLEAN
      PROVE  MsgOk(m, v)
  BY <1>5, SmallIs, OkTclunk
<1>7. DOMAIN m = FieldsOf(m.type, TRUE)
  BY <1>5, FieldsOfTclunk
<1> HIDE DEF m
<1> QED BY <1>1, <1>5, <1>6, <1>7 DEF TxFor, TypeFor, Ts

LEMMA TxWstat ==
    ASSUME msize \in 0 .. MaxMsg, dotu \in BOOLEAN,
           NEW c \in Calls, c.op = "wstat", NEW tag \in Numbers(BIT16SZ)
    PROVE  TxFor(c, Message(c, tag), msize, dotu)
<1> DEFINE m == [type |-> "Twstat", tag |-> tag, fid |-> Fid, stat |-> StatBuf(Renamed(c.name), dotu)]
<1>1. Message(c, tag) = m
  BY DEF Message, EntryMsg, Renamed
<1>2. c.name \in Strings /\ c.name \in Names
  <2>1. c.name \in Strings
    BY DEF Calls
  <2> QED BY <2>1, StringsAre
<1>4. StatBuf(Renamed(c.name), dotu) \in Counted(BIT16SZ)
  BY <1>2, RenamedOk, StatBufIs
<1>5. m.type = "Twstat" /\ m.tag \in Numbers(BIT16SZ)
  BY SmallIs
<1>6. ASSUME NEW v \in BOOLEAN
      PROVE  MsgOk(m, v)
  BY <1>5, SmallIs, <1>2, <1>4, OkTwstat
<1>7. DOMAIN m = FieldsOf(m.type, TRUE)
  BY <1>5, FieldsOfTwstat
<1>8. m.stat = StatBuf([Nulldir EXCEPT !.name = c.name], dotu)
  BY DEF Renamed
<1> HIDE DEF m
<1> QED BY <1>1, <1>5, <1>6, <1>7, <1>8 DEF TxFor, TypeFor, Ts

LEMMA MessageFor ==
    ASSUME msize \in 0 .. MaxMsg, dotu \in BOOLEAN, buf' \in Buffers,
           NEW c \in Calls, NEW tag \in Numbers(BIT16SZ)
    PROVE  TxFor(c, Message(c, tag), msize, dotu)
<1>1. c.op \in {"version", "auth", "attach", "walk", "create", "wstat", "clone", "open", "clunk",
                "remove", "stat", "readdirs", "read", "write"}
  BY DEF Calls
<1> QED BY <1>1, TxVersion, TxAuth, TxAttach, TxClone, TxWalk, TxOpen, TxCreate, TxRead, TxReaddirs,
           TxWrite, TxClunk, TxRemove, TxStat, TxWstat

-----------------------------------------------------------------------------
(* The answers of the server.                                              *)

LEMMA ReplyTypes ==
    /\ ReplyType("Tversion") = "Rversion" /\ ReplyType("Tauth") = "Rauth" /\ ReplyType("Tattach") = "Rattach"
    /\ ReplyType("Tflush") = "Rflush" /\ ReplyType("Twalk") = "Rwalk" /\ ReplyType("Topen") = "Ropen"
    /\ ReplyType("Tcreate") = "Rcreate" /\ ReplyType("Tread") = "Rread" /\ ReplyType("Twrite") = "Rwrite"
    /\ ReplyType("Tclunk") = "Rclunk" /\ ReplyType("Tremove") = "Rremove" /\ ReplyType("Tstat") = "Rstat"
    /\ ReplyType("Twstat") = "Rwstat"
<1>1. \A i \in 1 .. 27 : ReplyType(MsgTypes[i]) = MsgTypes[i + 1]
  <2> TAKE i \in 1 .. 27
  <2>1. Number(MsgTypes[i]) - 98 = i + 1
    BY NumbersOfTypes
  <2> QED BY Zenon, <2>1 DEF ReplyType
<1> QED BY <1>1, TypesAre

LEMMA MinOfFour ==
    ASSUME NEW a \in Int, NEW b \in Int, NEW c \in Int, NEW d \in Int
    PROVE  /\ Min({a, b, c, d}) \in Int
           /\ Min({a, b, c, d}) <= a /\ Min({a, b, c, d}) <= b /\ Min({a, b, c, d}) <= c /\ Min({a, b, c, d}) <= d
<1> DEFINE S == {a, b, c, d}
<1>1. \E x \in S : \A y \in S : x <= y
  OBVIOUS
<1>2. Min(S) \in S /\ \A y \in S : Min(S) <= y
  BY <1>1 DEF Min
<1> QED BY <1>2

LEMMA SubSeqBuffer ==
    ASSUME NEW b \in Buffers, NEW m \in Nat \ {0}, NEW n \in Int, n <= Len(b)
    PROVE  SubSeq(b, m, n) \in Buffers /\ Len(SubSeq(b, m, n)) = IF m <= n THEN n - m + 1 ELSE 0
<1>1. Len(b) \in Nat
  BY BufferLens
<1>2. CASE m <= n
  BY <1>1, <1>2, SubSeqProperties DEF Buffers
<1>3. CASE ~ (m <= n)
  <2>1. SubSeq(b, m, n) = <<>>
    BY <1>1, <1>3 DEF Buffers
  <2> QED BY <1>3, <2>1, EmptyBuffer
<1> QED BY <1>2, <1>3

(* What is read of the directory.                                          *)
LEMMA ReadFromIs ==
    ASSUME NEW q, call.op = "readdirs" => q.offset \in [1 .. BIT64SZ -> Numbers(BIT8SZ)] /\ q.count \in Numbers(BIT32SZ),
           listing \in Buffers, msize \in 0 .. MaxMsg
    PROVE  ReadFrom(q) \subseteq Counted(BIT32SZ)
<1>1. CASE call.op # "readdirs"
  <2>1. ReadFrom(q) = Datas
    BY <1>1 DEF ReadFrom
  <2> QED BY <2>1, RequestsAssumption DEF Counted
<1>2. CASE call.op = "readdirs"
  <2> DEFINE off == GBIT(q.offset)
             rest == SubSeq(listing, off + 1, Len(listing))
             lim(k) == Min({k, q.count, Len(rest), msize - HDRSZ - BIT32SZ})
  <2>1. off \in Nat /\ q.count \in Numbers(BIT32SZ)
    <3>1. q.offset \in Buffers /\ Len(q.offset) = BIT64SZ
      BY <1>2, OpaqueBuffer
    <3> QED BY <1>2, <3>1, GBITNumber, NumbersAre, BitsAre
  <2> HIDE DEF off
  <2>2. rest \in Buffers /\ Len(rest) \in Nat
    BY <2>1, SubSeqBuffer, BufferLens
  <2>3. msize \in Int /\ HDRSZ \in Int /\ BIT32SZ \in Int /\ q.count \in Int /\ q.count \in Nat
    <3>1. MaxMsg \in Nat
      BY RequestsAssumption, SmallIs
    <3> QED BY <2>1, <3>1, BitsAre, SmallIs
  <2>4. ReadFrom(q) = {SubSeq(rest, 1, lim(k)) : k \in Chunks}
    BY Zenon, <1>2 DEF ReadFrom, off
  <2> HIDE DEF rest
  <2>5. ASSUME NEW k \in Chunks
        PROVE  SubSeq(rest, 1, lim(k)) \in Counted(BIT32SZ)
    <3>1. k \in Int
      BY RequestsAssumption
    <3>2. lim(k) \in Int /\ lim(k) <= q.count /\ lim(k) <= Len(rest)
      <4> DEFINE a == q.count
                 l == Len(rest)
                 r == msize - HDRSZ - BIT32SZ
      <4>1. a \in Int /\ l \in Int /\ r \in Int
        BY <2>2, <2>3
      <4> HIDE DEF a, l, r
      <4>2. Min({k, a, l, r}) \in Int /\ Min({k, a, l, r}) <= a /\ Min({k, a, l, r}) <= l
        BY <3>1, <4>1, MinOfFour
      <4> QED BY <4>2 DEF a, l, r
    <3> DEFINE n == lim(k)
               s == SubSeq(rest, 1, n)
               v == Values(BIT32SZ)
    <3> HIDE DEF n
    <3>3. s \in Buffers /\ Len(s) = IF 1 <= n THEN n - 1 + 1 ELSE 0
      BY <2>2, <3>2, SubSeqBuffer DEF n
    <3>4. v \in Nat \ {0}
      BY ValuesPositive, BitsAre
    <3> HIDE DEF s, v
    <3>5. Len(s) \in Numbers(BIT32SZ)
      BY <2>1, <2>3, <3>2, <3>3, <3>4 DEF Numbers, v, n
    <3> QED BY <3>3, <3>5 DEF Counted, s, n
  <2> HIDE DEF lim
  <2> QED BY <2>4, <2>5
<1> QED BY <1>1, <1>2

(* An entry, whole, in the other dialect or one byte short.                *)
LEMMA StatsAre ==
    ASSUME dotu \in BOOLEAN
    PROVE  \A d \in Entries : StatsOf(d) \subseteq Counted(BIT16SZ)
<1> SUFFICES ASSUME NEW d \in Entries PROVE StatsOf(d) \subseteq Counted(BIT16SZ)
  OBVIOUS
<1>1. \A u \in BOOLEAN : StatBuf(d, u) \in Counted(BIT16SZ) /\ StatBuf(d, u) \in Buffers /\ Len(StatBuf(d, u)) \in Nat /\ Len(StatBuf(d, u)) >= 49
  BY EntriesOk, StatBufIs
<1> DEFINE w == StatBuf(d, dotu)
           x == StatBuf(d, ~ dotu)
           c == SubSeq(w, 1, Len(w) - 1)
<1>2. StatsOf(d) = {x} \cup {w, c}
  BY Zenon DEF StatsOf
<1>3. w \in Counted(BIT16SZ) /\ w \in Buffers /\ Len(w) \in Nat /\ Len(w) >= 49 /\ x \in Counted(BIT16SZ)
  <2>1. dotu \in BOOLEAN /\ (~ dotu) \in BOOLEAN
    OBVIOUS
  <2> QED BY <1>1, <2>1
<1> HIDE DEF w, x
<1>4. c \in Counted(BIT16SZ)
  <2>1. c \in Buffers /\ Len(c) = Len(w) - 1
    BY <1>3, SubSeqBuffer
  <2>2. Len(w) \in Numbers(BIT16SZ) /\ Values(BIT16SZ) \in Nat
    BY <1>3, ValuesPositive, BitsAre DEF Counted
  <2> HIDE DEF c
  <2>3. Len(c) \in Numbers(BIT16SZ)
    BY <1>3, <2>1, <2>2 DEF Numbers
  <2> QED BY <2>1, <2>3 DEF Counted
<1> HIDE DEF c
<1> QED BY <1>2, <1>3, <1>4

(* What the server answers is an answer, whatever it says.                 *)
AskedOf(q) ==
    /\ q.type \in Ts \ {"Tflush"} /\ q.tag \in Numbers(BIT16SZ)
    /\ (q.type = "Tread" \/ call.op = "readdirs") =>
          q.offset \in [1 .. BIT64SZ -> Numbers(BIT8SZ)] /\ q.count \in Numbers(BIT32SZ)

LEMMA AnswerRversion ==
    ASSUME NEW q, AskedOf(q), q.type = "Tversion", NEW m \in Replies(q),
           listing \in Buffers, msize \in 0 .. MaxMsg, dotu \in BOOLEAN
    PROVE  AnswerFor(q, m)
<1>1. ReplyType(q.type) = "Rversion"
  BY ReplyTypes
<1>2. Replies(q) = [type : {"Rversion"}, tag : {q.tag}, msize : MSizes, version : Strings \cup {<<>>}]
  BY <1>1 DEF Replies
<1>3. m.type = "Rversion" /\ m.tag \in Numbers(BIT16SZ)
  BY <1>2 DEF AskedOf
<1>4. DOMAIN m = FieldsOf(m.type, TRUE)
  BY <1>2, <1>3, FieldsOfRversion
<1>5. m.msize \in Numbers(BIT32SZ) /\ m.version \in Names
  BY <1>2, RequestsAssumption, StringsAre
<1>6. ASSUME NEW v \in BOOLEAN
      PROVE  MsgOk(m, v)
  BY <1>3, <1>5, OkRversion
<1> QED BY <1>1, <1>3, <1>4, <1>5, <1>6 DEF AnswerFor, Rs

LEMMA AnswerRauth ==
    ASSUME NEW q, AskedOf(q), q.type = "Tauth", NEW m \in Replies(q),
           listing \in Buffers, msize \in 0 .. MaxMsg, dotu \in BOOLEAN
    PROVE  AnswerFor(q, m)
<1>1. ReplyType(q.type) = "Rauth"
  BY ReplyTypes
<1>2. Replies(q) = [type : {"Rauth"}, tag : {q.tag}, qid : Qids]
  BY <1>1 DEF Replies
<1>3. m.type = "Rauth" /\ m.tag \in Numbers(BIT16SZ)
  BY <1>2 DEF AskedOf
<1>4. DOMAIN m = FieldsOf(m.type, TRUE)
  BY <1>2, <1>3, FieldsOfRauth
<1>5. m.qid \in QidType
  BY <1>2, RequestsAssumption
<1>6. ASSUME NEW v \in BOOLEAN
      PROVE  MsgOk(m, v)
  BY <1>3, <1>5, OkRauth
<1> QED BY <1>1, <1>3, <1>4, <1>6 DEF AnswerFor, Rs

LEMMA AnswerRattach ==
    ASSUME NEW q, AskedOf(q), q.type = "Tattach", NEW m \in Replies(q),
           listing \in Buffers, msize \in 0 .. MaxMsg, dotu \in BOOLEAN
    PROVE  AnswerFor(q, m)
<1>1. ReplyType(q.type) = "Rattach"
  BY ReplyTypes
<1>2. Replies(q) = [type : {"Rattach"}, tag : {q.tag}, qid : Qids]
  BY <1>1 DEF Replies
<1>3. m.type = "Rattach" /\ m.tag \in Numbers(BIT16SZ)
  BY <1>2 DEF AskedOf
<1>4. DOMAIN m = FieldsOf(m.type, TRUE)
  BY <1>2, <1>3, FieldsOfRauth
<1>5. m.qid \in QidType
  BY <1>2, RequestsAssumption
<1>6. ASSUME NEW v \in BOOLEAN
      PROVE  MsgOk(m, v)
  BY <1>3, <1>5, OkRauth
<1> QED BY <1>1, <1>3, <1>4, <1>6 DEF AnswerFor, Rs

LEMMA AnswerRwalk ==
    ASSUME NEW q, AskedOf(q), q.type = "Twalk", NEW m \in Replies(q),
           listing \in Buffers, msize \in 0 .. MaxMsg, dotu \in BOOLEAN
    PROVE  AnswerFor(q, m)
<1>1. ReplyType(q.type) = "Rwalk"
  BY ReplyTypes
<1>2. Replies(q) = [type : {"Rwalk"}, tag : {q.tag}, wqid : {<<>>} \cup {<<i>> : i \in Qids}]
  BY <1>1 DEF Replies
<1>3. m.type = "Rwalk" /\ m.tag \in Numbers(BIT16SZ)
  BY <1>2 DEF AskedOf
<1>4. DOMAIN m = FieldsOf(m.type, TRUE)
  BY <1>2, <1>3, FieldsOfRwalk
<1>7. m.wqid = <<>> \/ \E i \in Qids : m.wqid = <<i>>
  BY <1>2
<1>5. m.wqid \in Lists(QidType)
  <2> DEFINE w == m.wqid
  <2>1. w \in Seq(QidType) /\ Len(w) \in {0, 1}
    <3>1. CASE w = <<>>
      <4>1. <<>> \in Seq(QidType) /\ Len(<<>>) = 0
        OBVIOUS
      <4> HIDE DEF w
      <4> QED BY <3>1, <4>1
    <3>2. ASSUME NEW i \in Qids, w = <<i>>
          PROVE  w \in Seq(QidType) /\ Len(w) \in {0, 1}
      <4>1. i \in QidType
        BY RequestsAssumption
      <4>2. <<i>> \in Seq(QidType) /\ Len(<<i>>) = 1
        BY <4>1
      <4> HIDE DEF w
      <4> QED BY <3>2, <4>2
    <3> QED BY <1>7, <3>1, <3>2
  <2>2. Len(w) <= MAXWELEM
    <3>1. MAXWELEM \in Nat \ {0}
      BY CodecAssumption
    <3> DEFINE k == Len(w)
    <3>2. k \in {0, 1}
      BY <2>1
    <3> HIDE DEF k
    <3>3. k <= MAXWELEM
      BY <3>1, <3>2
    <3> QED BY <3>3 DEF k
  <2>3. 0 \in Numbers(BIT16SZ) /\ 1 \in Numbers(BIT16SZ)
    BY SmallIs
  <2> HIDE DEF w
  <2>5. Len(w) \in Numbers(BIT16SZ)
    BY <2>1, <2>3
  <2>4. w \in Lists(QidType)
    BY <2>1, <2>2, <2>5 DEF Lists
  <2> QED BY <2>4 DEF w
<1>6. ASSUME NEW v \in BOOLEAN
      PROVE  MsgOk(m, v)
  BY <1>3, <1>5, OkRwalk
<1> QED BY <1>1, <1>3, <1>4, <1>6, <1>7 DEF AnswerFor, Rs

LEMMA AnswerRopen ==
    ASSUME NEW q, AskedOf(q), q.type = "Topen", NEW m \in Replies(q),
           listing \in Buffers, msize \in 0 .. MaxMsg, dotu \in BOOLEAN
    PROVE  AnswerFor(q, m)
<1>1. ReplyType(q.type) = "Ropen"
  BY ReplyTypes
<1>2. Replies(q) = [type : {"Ropen"}, tag : {q.tag}, qid : Qids, iounit : {0}]
  BY <1>1 DEF Replies
<1>3. m.type = "Ropen" /\ m.tag \in Numbers(BIT16SZ)
  BY <1>2 DEF AskedOf
<1>4. DOMAIN m = FieldsOf(m.type, TRUE)
  BY <1>2, <1>3, FieldsOfRopen
<1>5. m.qid \in QidType /\ m.iounit \in Numbers(BIT32SZ)
  BY <1>2, RequestsAssumption, SmallIs
<1>6. ASSUME NEW v \in BOOLEAN
      PROVE  MsgOk(m, v)
  BY <1>3, <1>5, OkRopen
<1> QED BY <1>1, <1>3, <1>4, <1>6 DEF AnswerFor, Rs

LEMMA AnswerRcreate ==
    ASSUME NEW q, AskedOf(q), q.type = "Tcreate", NEW m \in Replies(q),
           listing \in Buffers, msize \in 0 .. MaxMsg, dotu \in BOOLEAN
    PROVE  AnswerFor(q, m)
<1>1. ReplyType(q.type) = "Rcreate"
  BY ReplyTypes
<1>2. Replies(q) = [type : {"Rcreate"}, tag : {q.tag}, qid : Qids, iounit : {0}]
  BY <1>1 DEF Replies
<1>3. m.type = "Rcreate" /\ m.tag \in Numbers(BIT16SZ)
  BY <1>2 DEF AskedOf
<1>4. DOMAIN m = FieldsOf(m.type, TRUE)
  BY <1>2, <1>3, FieldsOfRopen
<1>5. m.qid \in QidType /\ m.iounit \in Numbers(BIT32SZ)
  BY <1>2, RequestsAssumption, SmallIs
<1>6. ASSUME NEW v \in BOOLEAN
      PROVE  MsgOk(m, v)
  BY <1>3, <1>5, OkRopen
<1> QED BY <1>1, <1>3, <1>4, <1>6 DEF AnswerFor, Rs

LEMMA AnswerRread ==
    ASSUME NEW q, AskedOf(q), q.type = "Tread", NEW m \in Replies(q),
           listing \in Buffers, msize \in 0 .. MaxMsg, dotu \in BOOLEAN
    PROVE  AnswerFor(q, m)
<1>1. ReplyType(q.type) = "Rread"
  BY ReplyTypes
<1>2. Replies(q) = [type : {"Rread"}, tag : {q.tag}, data : ReadFrom(q)]
  BY <1>1 DEF Replies
<1>3. m.type = "Rread" /\ m.tag \in Numbers(BIT16SZ)
  BY <1>2 DEF AskedOf
<1>4. DOMAIN m = FieldsOf(m.type, TRUE)
  BY <1>2, <1>3, FieldsOfRread
<1>7. m.data \in Counted(BIT32SZ) /\ m.data \in Buffers
  <2>1. m.data \in ReadFrom(q)
    BY <1>2
  <2> QED BY <2>1, ReadFromIs DEF AskedOf, Counted
<1>6. ASSUME NEW v \in BOOLEAN
      PROVE  MsgOk(m, v)
  BY <1>3, <1>7, OkRread
<1> QED BY <1>1, <1>3, <1>4, <1>6, <1>7 DEF AnswerFor, Rs

LEMMA AnswerRwrite ==
    ASSUME NEW q, AskedOf(q), q.type = "Twrite", NEW m \in Replies(q),
           listing \in Buffers, msize \in 0 .. MaxMsg, dotu \in BOOLEAN
    PROVE  AnswerFor(q, m)
<1>1. ReplyType(q.type) = "Rwrite"
  BY ReplyTypes
<1>2. Replies(q) = [type : {"Rwrite"}, tag : {q.tag}, count : Counts]
  BY <1>1 DEF Replies
<1>3. m.type = "Rwrite" /\ m.tag \in Numbers(BIT16SZ)
  BY <1>2 DEF AskedOf
<1>4. DOMAIN m = FieldsOf(m.type, TRUE)
  BY <1>2, <1>3, FieldsOfRwrite
<1>5. m.count \in Numbers(BIT32SZ)
  BY <1>2, RequestsAssumption
<1>6. ASSUME NEW v \in BOOLEAN
      PROVE  MsgOk(m, v)
  BY <1>3, <1>5, OkRwrite
<1> QED BY <1>1, <1>3, <1>4, <1>6 DEF AnswerFor, Rs

LEMMA AnswerRclunk ==
    ASSUME NEW q, AskedOf(q), q.type = "Tclunk", NEW m \in Replies(q),
           listing \in Buffers, msize \in 0 .. MaxMsg, dotu \in BOOLEAN
    PROVE  AnswerFor(q, m)
<1>1. ReplyType(q.type) = "Rclunk"
  BY ReplyTypes
<1>2. Replies(q) = [type : {"Rclunk"}, tag : {q.tag}]
  BY <1>1 DEF Replies
<1>3. m.type = "Rclunk" /\ m.tag \in Numbers(BIT16SZ)
  BY <1>2 DEF AskedOf
<1>4. DOMAIN m = FieldsOf(m.type, TRUE)
  BY <1>2, <1>3, FieldsOfRflush
<1>6. ASSUME NEW v \in BOOLEAN
      PROVE  MsgOk(m, v)
  BY <1>3, OkRflush
<1> QED BY <1>1, <1>3, <1>4, <1>6 DEF AnswerFor, Rs

LEMMA AnswerRremove ==
    ASSUME NEW q, AskedOf(q), q.type = "Tremove", NEW m \in Replies(q),
           listing \in Buffers, msize \in 0 .. MaxMsg, dotu \in BOOLEAN
    PROVE  AnswerFor(q, m)
<1>1. ReplyType(q.type) = "Rremove"
  BY ReplyTypes
<1>2. Replies(q) = [type : {"Rremove"}, tag : {q.tag}]
  BY <1>1 DEF Replies
<1>3. m.type = "Rremove" /\ m.tag \in Numbers(BIT16SZ)
  BY <1>2 DEF AskedOf
<1>4. DOMAIN m = FieldsOf(m.type, TRUE)
  BY <1>2, <1>3, FieldsOfRflush
<1>6. ASSUME NEW v \in BOOLEAN
      PROVE  MsgOk(m, v)
  BY <1>3, OkRflush
<1> QED BY <1>1, <1>3, <1>4, <1>6 DEF AnswerFor, Rs

LEMMA AnswerRstat ==
    ASSUME NEW q, AskedOf(q), q.type = "Tstat", NEW m \in Replies(q),
           listing \in Buffers, msize \in 0 .. MaxMsg, dotu \in BOOLEAN
    PROVE  AnswerFor(q, m)
<1>1. ReplyType(q.type) = "Rstat"
  BY ReplyTypes
<1>2. Replies(q) = [type : {"Rstat"}, tag : {q.tag}, stat : UNION {StatsOf(d) : d \in Entries}]
  BY <1>1 DEF Replies
<1>3. m.type = "Rstat" /\ m.tag \in Numbers(BIT16SZ)
  BY <1>2 DEF AskedOf
<1>4. DOMAIN m = FieldsOf(m.type, TRUE)
  BY <1>2, <1>3, FieldsOfRstat
<1>7. \E d \in Entries : m.stat \in StatsOf(d)
  BY <1>2
<1>5. m.stat \in Counted(BIT16SZ)
  BY <1>7, StatsAre
<1>6. ASSUME NEW v \in BOOLEAN
      PROVE  MsgOk(m, v)
  BY <1>3, <1>5, OkRstat
<1> QED BY <1>1, <1>3, <1>4, <1>6, <1>7 DEF AnswerFor, Rs

LEMMA AnswerRwstat ==
    ASSUME NEW q, AskedOf(q), q.type = "Twstat", NEW m \in Replies(q),
           listing \in Buffers, msize \in 0 .. MaxMsg, dotu \in BOOLEAN
    PROVE  AnswerFor(q, m)
<1>1. ReplyType(q.type) = "Rwstat"
  BY ReplyTypes
<1>2. Replies(q) = [type : {"Rwstat"}, tag : {q.tag}]
  BY <1>1 DEF Replies
<1>3. m.type = "Rwstat" /\ m.tag \in Numbers(BIT16SZ)
  BY <1>2 DEF AskedOf
<1>4. DOMAIN m = FieldsOf(m.type, TRUE)
  BY <1>2, <1>3, FieldsOfRflush
<1>6. ASSUME NEW v \in BOOLEAN
      PROVE  MsgOk(m, v)
  BY <1>3, OkRflush
<1> QED BY <1>1, <1>3, <1>4, <1>6 DEF AnswerFor, Rs

LEMMA AnswerRerror ==
    ASSUME NEW q, AskedOf(q), NEW m \in Errors(q)
    PROVE  AnswerFor(q, m)
<1>1. m.type = "Rerror" /\ m.tag \in Numbers(BIT16SZ)
  BY DEF Errors, AskedOf
<1>2. DOMAIN m = FieldsOf(m.type, TRUE)
  BY <1>1, FieldsOfRerror DEF Errors
<1>3. m.ename \in {UnknownFid, NoError} /\ m.errnum \in {0, 1}
  BY DEF Errors
<1>4. q.type \in {"Tversion", "Tstat"} => m.ename = UnknownFid
  BY DEF Errors
<1>5. m.ename \in Names /\ m.errnum \in Numbers(BIT32SZ)
  <2>1. UnknownFid \in Names /\ NoError \in Names
    BY StringsAre
  <2>2. 0 \in Numbers(BIT32SZ) /\ 1 \in Numbers(BIT32SZ)
    BY SmallIs
  <2> QED BY <1>3, <2>1, <2>2
<1>6. ASSUME NEW v \in BOOLEAN
      PROVE  MsgOk(m, v)
  BY <1>1, <1>5, OkRerror
<1> QED BY <1>1, <1>2, <1>3, <1>4, <1>5, <1>6 DEF AnswerFor, Rs

LEMMA AnswerRflush ==
    ASSUME NEW q, AskedOf(q), NEW m \in Wrong(q)
    PROVE  AnswerFor(q, m)
<1>1. m.type = "Rflush" /\ m.tag \in Numbers(BIT16SZ)
  BY DEF Wrong, AskedOf
<1>2. DOMAIN m = FieldsOf(m.type, TRUE)
  BY <1>1, FieldsOfRflush DEF Wrong
<1>6. ASSUME NEW v \in BOOLEAN
      PROVE  MsgOk(m, v)
  BY <1>1, OkRflush
<1> QED BY <1>1, <1>2, <1>6 DEF AnswerFor, Rs

LEMMA AnswerIs ==
    ASSUME NEW q, AskedOf(q), NEW m \in Replies(q) \cup Errors(q) \cup Wrong(q),
           listing \in Buffers, msize \in 0 .. MaxMsg, dotu \in BOOLEAN
    PROVE  AnswerFor(q, m)
<1>1. CASE m \in Errors(q) \cup Wrong(q)
  BY <1>1, AnswerRerror, AnswerRflush
<1>2. CASE m \in Replies(q)
  <2>1. q.type \in {"Tversion", "Tauth", "Tattach", "Twalk", "Topen", "Tcreate", "Tread", "Twrite",
                    "Tclunk", "Tremove", "Tstat", "Twstat"}
    BY DEF AskedOf, Ts
  <2> QED BY <1>2, <2>1, AnswerRversion, AnswerRauth, AnswerRattach, AnswerRwalk, AnswerRopen,
             AnswerRcreate, AnswerRread, AnswerRwrite, AnswerRclunk, AnswerRremove, AnswerRstat,
             AnswerRwstat
<1> QED BY <1>1, <1>2

-----------------------------------------------------------------------------
(* What is sent and what the other end makes of it.                        *)

LEMMA NotTooMany == \A f : \A u \in BOOLEAN : MsgOk(f, u) => ~ TooMany(f)
<1> SUFFICES ASSUME NEW f, NEW u \in BOOLEAN, MsgOk(f, u) PROVE ~ TooMany(f)
  OBVIOUS
<1>1. CASE f.type = "Twalk"
  <2> DEFINE d1 == <<"fid", "u32">>
             d2 == <<"newfid", "u32">>
             d3 == <<"wname", "names">>
  <2>1. MsgFields(f.type, u) = Fields3(d1, d2, d3)
    <3>1. IsT(f.type)
      BY <1>1, RequestsAre
    <3>2. GetT(f.type, u) = Fields3(d1, d2, d3)
      BY Zenon, <1>1 DEF GetT, Fields3
    <3> QED BY Zenon, <3>1, <3>2 DEF MsgFields
  <2>2. d1 \in FieldType /\ d2 \in FieldType /\ d3 \in FieldType
    BY DEF FieldType, FieldNames, Kinds
  <2>3. FieldOk(f, d3)
    <3> HIDE DEF d1, d2, d3
    <3> QED BY <2>1, <2>2, Typed3 DEF MsgOk
  <2>4. f.wname \in Lists(Names)
    BY <2>3 DEF FieldOk, Meant
  <2>5. Len(f.wname) <= MAXWELEM /\ Len(f.wname) \in Nat
    BY <2>4, LenProperties DEF Lists
  <2> QED BY <1>1, <2>5, CodecAssumption DEF TooMany
<1>2. CASE f.type = "Rwalk"
  <2> DEFINE d1 == <<"wqid", "qids">>
  <2>1. MsgFields(f.type, u) = Fields1(d1)
    <3>1. ~ IsT(f.type)
      BY <1>2, ResponsesAre
    <3>2. GetR(f.type, u) = Fields1(d1)
      BY Zenon, <1>2 DEF GetR, Fields1
    <3> QED BY Zenon, <3>1, <3>2 DEF MsgFields
  <2>2. d1 \in FieldType
    BY DEF FieldType, FieldNames, Kinds
  <2>3. FieldOk(f, d1)
    <3> HIDE DEF d1
    <3> QED BY <2>1, <2>2, Typed1 DEF MsgOk
  <2>4. f.wqid \in Lists(QidType)
    BY <2>3 DEF FieldOk, Meant
  <2>5. Len(f.wqid) <= MAXWELEM /\ Len(f.wqid) \in Nat
    BY <2>4, LenProperties DEF Lists
  <2> QED BY <1>2, <2>5, CodecAssumption DEF TooMany
<1> QED BY <1>1, <1>2 DEF TooMany

LEMMA TakenFields ==
    ASSUME NEW f, NEW u
    PROVE  /\ DOMAIN MsgTaken(f, u) = FieldsOf(f.type, u)
           /\ \A x \in FieldsOf(f.type, u) : MsgTaken(f, u)[x] = f[x]
           /\ MsgTaken(f, u).type = f.type /\ MsgTaken(f, u).tag = f.tag
<1> DEFINE h == [type |-> f.type, tag |-> f.tag]
           t == Taken(f, MsgFields(f.type, u))
           S == NamesIn(MsgFields(f.type, u))
<1>1. DOMAIN t = S /\ \A x \in S : t[x] = f[x]
  BY DEF Taken, NamesIn
<1>2. DOMAIN h = {"type", "tag"} /\ h.type = f.type /\ h.tag = f.tag
  OBVIOUS
<1> HIDE DEF h, t
<1>3. MsgTaken(f, u) = [x \in DOMAIN h \cup DOMAIN t |-> IF x \in DOMAIN h THEN h[x] ELSE t[x]]
  BY Zenon DEF MsgTaken, Joined, h, t
<1>4. FieldsOf(f.type, u) = DOMAIN h \cup DOMAIN t
  BY Zenon, <1>1, <1>2 DEF FieldsOf
<1> HIDE DEF S
<1> QED BY <1>1, <1>2, <1>3, <1>4

(* The bytes of a message, or none if they are too many.                   *)
LEMMA SentIs ==
    ASSUME NEW f, NEW u \in BOOLEAN, MsgOk(f, u), NEW nap \in Int
    PROVE  /\ MsgBytes(f, u) \in Buffers /\ Len(MsgBytes(f, u)) = SizeS2M(f, u) /\ MsgBytes(f, u) # <<>>
           /\ SizeS2M(f, u) \in Nat /\ SizeS2M(f, u) >= HDRSZ
           /\ ConvS2M(f, nap, u) = IF SizeS2M(f, u) > nap THEN <<>> ELSE MsgBytes(f, u)
<1> DEFINE b == MsgBytes(f, u)
           n == SizeS2M(f, u)
           w == ConvS2M(f, nap, u)
<1>1. b \in Buffers /\ Length(b) = n /\ w = IF n > nap \/ TooMany(f) THEN <<>> ELSE b
  BY WrittenIs
<1>2. n \in Nat /\ n >= HDRSZ
  <2> DEFINE k == Length(MsgBody(f, u))
  <2>1. n = HDRSZ + k /\ MsgBody(f, u) \in Buffers
    BY MsgParts
  <2>2. k \in Nat
    BY <2>1, BufferIs DEF Length
  <2> HIDE DEF n, k
  <2> QED BY <2>1, <2>2, BitsAre
<1>3. ~ TooMany(f)
  BY NotTooMany
<1> HIDE DEF b, n, w
<1>4. b # <<>>
  BY <1>1, <1>2, EmptyBuffer, BitsAre DEF Length
<1>5. w = IF n > nap THEN <<>> ELSE b
  BY <1>1, <1>3
<1> QED BY <1>1, <1>2, <1>4, <1>5 DEF b, n, w, Length

(* A request to set up a session says the same in every dialect and size.  *)
LEMMA TxForAny ==
    ASSUME NEW c, NEW t, NEW ms, NEW u, TxFor(c, t, ms, u), c.op = "version", NEW ns, NEW v
    PROVE  TxFor(c, t, ns, v)
<1>1. t.type = "Tversion"
  BY DEF TxFor, TypeFor
<1>2. c.op # "wstat" /\ t.type # "Tread" /\ t.type # "Twrite"
  BY <1>1
<1> QED BY Zenon, <1>2 DEF TxFor

(* A request that is sent, or refused, is one of the call; the server has  *)
(* all of it.                                                              *)
LEMMA MessageFields ==
    ASSUME NEW c \in Calls, NEW tag
    PROVE  Message(c, tag) # NoFcall
<1>1. c.op \in {"version", "auth", "attach", "walk", "create", "wstat", "clone", "open", "clunk",
                "remove", "stat", "readdirs", "read", "write"}
  BY DEF Calls
<1>2. NoFcall.type = "none"
  BY DEF NoFcall
<1>3. Message(c, tag).type # "none"
  <2>1. CASE c.op \in {"version", "auth", "attach"}
    BY <2>1 DEF Message, SessionMsg
  <2>2. CASE c.op \in {"clone", "walk", "open", "create"}
    BY <2>2 DEF Message, FileMsg
  <2>3. CASE c.op \in {"read", "write", "readdirs"}
    BY <2>3 DEF Message, IoMsg
  <2>4. CASE c.op \in {"clunk", "remove", "stat", "wstat"}
    BY <2>4 DEF Message, EntryMsg
  <2> QED BY <1>1, <2>1, <2>2, <2>3, <2>4
<1> QED BY <1>2, <1>3

LEMMA SendOk ==
    ASSUME msize \in 0 .. MaxMsg, dotu \in BOOLEAN, dotu' = dotu, buf' \in Buffers,
           NEW c \in Calls, call' = c, NEW tag \in Numbers(BIT16SZ), SendTx(c, tag),
           msize' = IF c.op = "version" THEN MaxMsg ELSE msize
    PROVE  /\ TxOk' /\ SentOk' /\ AnswerOk' /\ said' = Nothing
           /\ sent' \in Buffers /\ pending' \in BOOLEAN /\ res'.e \in Results
           /\ torn' = torn \/ (torn' = TRUE /\ pending' = FALSE)
<1> DEFINE m == Message(c, tag)
           n == SizeS2M(m, dotu)
           b == MsgBytes(m, dotu)
<1>0. MaxMsg \in Nat /\ msize' \in Int /\ msize' <= MaxMsg /\ msize \in Int
  BY RequestsAssumption, NumbersAre, BitsAre
<1>1. tx' = m /\ said' = Nothing /\ sent' = ConvS2M(m, msize', dotu)
  <2>1. sent' = ConvS2M(tx', IF c.op = "version" THEN MaxMsg ELSE msize, dotu) /\ tx' = m /\ said' = Nothing
    BY Zenon DEF SendTx
  <2> QED BY Zenon, <2>1
<1>2. TxFor(c, m, msize, dotu)
  BY MessageFor
<1>3. TxFor(c, m, msize', dotu')
  <2>1. CASE c.op = "version"
    <3> HIDE DEF m
    <3> QED BY <1>2, <2>1, TxForAny
  <2>2. CASE c.op # "version"
    BY Zenon, <1>2, <2>2
  <2> QED BY <2>1, <2>2
<1>4. m # NoFcall
  BY MessageFields
<1>5. /\ b \in Buffers /\ b # <<>> /\ n \in Nat
      /\ sent' = IF n > msize' THEN <<>> ELSE b
  <2>1. MsgOk(m, dotu)
    BY <1>2 DEF TxFor
  <2> HIDE DEF m
  <2> QED BY <1>0, <1>1, <2>1, SentIs
<1>6. /\ res'.e \in Results
      /\ \/ sent' = <<>> /\ pending' = FALSE /\ torn' = torn
         \/ sent' # <<>> /\ pending' = TRUE /\ torn' = torn
         \/ sent' # <<>> /\ pending' = FALSE /\ torn' = TRUE
  <2>1. \/ sent' = <<>> /\ Refuse(c, "EINVAL") /\ torn' = torn
        \/ sent' # <<>> /\ pending' = TRUE /\ res' = Ret("none", Null) /\ torn' = torn
        \/ sent' # <<>> /\ (\E e \in SendErrors : Refuse(c, e)) /\ torn' = TRUE
    BY Zenon DEF SendTx
  <2>2. \A e \in SendErrors : Refuse(c, e) => pending' = FALSE /\ res'.e \in Results
    BY DEF Refuse, Return, Ret, Results, SendErrors
  <2>3. "EINVAL" \in SendErrors /\ Ret("none", Null).e \in Results
    BY DEF SendErrors, Ret, Results
  <2> HIDE DEF Results, SendErrors, Refuse
  <2> QED BY <2>1, <2>2, <2>3
<1> HIDE DEF m, n, b
<1>7. TxOk'
  BY <1>1, <1>3 DEF TxOk
<1>8. SentOk'
  <2>1. (SizeS2M(tx, dotu))' = n /\ (MsgBytes(tx, dotu))' = b
    BY Zenon, <1>1 DEF n, b
  <2>2. pending' => tx' # NoFcall /\ sent' = b /\ n <= MaxMsg
    BY <1>0, <1>1, <1>4, <1>5, <1>6
  <2>3. sent' = <<>> => n > msize'
    BY <1>5
  <2> QED BY <2>1, <2>2, <2>3 DEF SentOk
<1>9. AnswerOk'
  BY <1>1 DEF AnswerOk, Nothing
<1>a. sent' \in Buffers /\ pending' \in BOOLEAN
  BY <1>5, <1>6, EmptyBuffer
<1> QED BY <1>1, <1>6, <1>7, <1>8, <1>9, <1>a

(* A directory the server reads from is a string of bytes.                 *)
LEMMA PackedBuffer ==
    ASSUME dotu \in BOOLEAN, NEW ds \in Directories
    PROVE  Packed(ds) \in Buffers
<1> DEFINE s == [i \in DOMAIN ds |-> StatBuf(ds[i], dotu)]
<1>1. ds \in Seq(Entries)
  <2>1. CASE ds = <<>>
    BY <2>1
  <2>2. CASE ds # <<>>
    <3>1. ds \in Entries \X Entries
      BY <2>2 DEF Directories
    <3>2. PICK d \in Entries, e \in Entries : ds = <<d, e>>
      BY <3>1
    <3> QED BY <3>2
  <2> QED BY <2>1, <2>2
<1>2. s \in Seq(Buffers)
  <2>1. Len(ds) \in Nat /\ DOMAIN ds = 1 .. Len(ds) /\ \A i \in 1 .. Len(ds) : ds[i] \in Entries
    BY <1>1, LenProperties, ElementOfSeq
  <2>2. \A d \in Entries : StatBuf(d, dotu) \in Buffers
    BY EntriesOk, StatBufIs
  <2> HIDE DEF Buffers
  <2> QED BY <2>1, <2>2
<1>3. Packed(ds) = FlattenSeq(s)
  BY DEF Packed, Each
<1> HIDE DEF s
<1>4. FlattenSeq(s) = Cat(s)[Len(s)] /\ Len(s) \in 0 .. Len(s) /\ \A i \in 0 .. Len(s) : Cat(s)[i] \in Buffers
  <2>1. Len(s) \in Nat /\ \A i \in 0 .. Len(s) : Cat(s)[i] \in Buffers
    BY <1>2, CatIs
  <2>2. FlattenSeq(s) = Cat(s)[Len(s)]
    BY <1>2, FlattenIs
  <2> HIDE DEF Buffers
  <2>3. Len(s) \in 0 .. Len(s)
    BY <2>1
  <2> QED BY <2>1, <2>2, <2>3
<1> QED BY <1>3, <1>4

(* The first state.                                                        *)
LEMMA InitOk == Init => IInv
<1> SUFFICES ASSUME Init PROVE IInv
  OBVIOUS
<1>1. Shape
  <2>1. MaxMsg \in Nat /\ MaxCalls \in Nat
    BY RequestsAssumption, NumbersAre, BitsAre
  <2>2. msize \in 0 .. MaxMsg /\ calls \in 0 .. MaxCalls
    BY <2>1 DEF Init
  <2>3. said.how = "none" /\ res.e = "none"
    BY DEF Init, Nothing, Ret
  <2>4. sent \in Buffers /\ wire \in Buffers /\ coming \in Buffers /\ listing \in Buffers /\ buf \in Buffers
    BY EmptyBuffer DEF Init
  <2>5. dotu \in BOOLEAN /\ pending \in BOOLEAN /\ torn \in BOOLEAN /\ call = Null
    BY DEF Init
  <2> QED BY <2>2, <2>3, <2>4, <2>5 DEF Shape, Results
<1>2. TxOk /\ SentOk /\ AnswerOk
  BY DEF Init, TxOk, SentOk, AnswerOk
<1>3. StreamOk
  BY DEF Init, StreamOk, InStep
<1> QED BY <1>1, <1>2, <1>3 DEF IInv

LEMMA CallKeeps == ASSUME IInv, NEW c \in Calls, Call(c) PROVE IInv'
<1>1. /\ msize \in 0 .. MaxMsg /\ dotu \in BOOLEAN /\ wire \in Buffers /\ coming \in Buffers
      /\ calls \in 0 .. MaxCalls /\ MaxCalls \in Nat /\ MaxMsg \in Nat
  BY RequestsAssumption, NumbersAre, BitsAre DEF IInv, Shape
<1>2. /\ ~ pending /\ ~ torn /\ calls < MaxCalls /\ calls' = calls + 1 /\ call' = c /\ buf' = <<>>
      /\ dotu' = dotu /\ wire' = wire /\ coming' = coming
      /\ msize' = IF c.op = "version" THEN MaxMsg ELSE msize
  BY DEF Call, MayCall
<1>3. PICK tag \in TagsOf(c) : SendTx(c, tag)
  BY DEF Call
<1>4. tag \in Numbers(BIT16SZ)
  <2>1. calls \in Numbers(BIT16SZ)
    BY <1>1, RequestsAssumption, ValuesPositive, BitsAre DEF Numbers
  <2> QED BY <2>1, SmallIs DEF TagsOf
<1>5. /\ TxOk' /\ SentOk' /\ AnswerOk' /\ said' = Nothing
      /\ sent' \in Buffers /\ pending' \in BOOLEAN /\ res'.e \in Results
      /\ torn' = FALSE \/ (torn' = TRUE /\ pending' = FALSE)
  <2>1. /\ TxOk' /\ SentOk' /\ AnswerOk' /\ said' = Nothing
        /\ sent' \in Buffers /\ pending' \in BOOLEAN /\ res'.e \in Results
        /\ torn' = torn \/ (torn' = TRUE /\ pending' = FALSE)
    BY <1>1, <1>2, <1>3, <1>4, SendOk, EmptyBuffer
  <2>2. torn = FALSE
    BY <1>2 DEF IInv, Shape
  <2> QED BY <2>1, <2>2
<1>6. listing' \in Buffers
  <2>1. CASE c.op = "readdirs"
    <3>1. PICK b \in {Packed(ds) : ds \in Directories}, cut \in {0, 1} : listing' = SubSeq(b, 1, Len(b) - cut)
      BY <2>1 DEF Call
    <3>2. b \in Buffers /\ Len(b) \in Nat
      BY <1>1, PackedBuffer, BufferLens
    <3>3. SubSeq(b, 1, Len(b) - cut) \in Buffers
      BY <3>2, SubSeqBuffer
    <3> QED BY <3>1, <3>3
  <2>2. CASE c.op # "readdirs"
    BY <2>2, EmptyBuffer DEF Call
  <2> QED BY <2>1, <2>2
<1>7. Shape'
  <2>1. msize' \in 0 .. MaxMsg /\ calls' \in 0 .. MaxCalls
    BY <1>1, <1>2
  <2>2. said'.how = "none"
    BY <1>5 DEF Nothing
  <2>3. wire' \in Buffers /\ coming' \in Buffers /\ buf' \in Buffers
    BY <1>1, <1>2, EmptyBuffer
  <2>4. dotu' \in BOOLEAN /\ torn' \in BOOLEAN /\ call' \in Calls
    BY <1>2, <1>5 DEF IInv, Shape
  <2> QED BY <1>5, <1>6, <2>1, <2>2, <2>3, <2>4 DEF Shape
<1>8. StreamOk'
  <2>1. wire = <<>> /\ coming = <<>>
    BY <1>2 DEF IInv, StreamOk, InStep
  <2> QED BY <1>2, <1>5, <2>1 DEF StreamOk, InStep
<1> QED BY <1>5, <1>7, <1>8 DEF IInv

LEMMA ClunkNofidKeeps == ASSUME IInv, ClunkNofid PROVE IInv'
<1>1. /\ ~ pending /\ ~ torn /\ calls < MaxCalls /\ calls' = calls + 1 /\ call' = [op |-> "clunk"]
      /\ buf' = <<>> /\ listing' = <<>> /\ sent' = <<>> /\ tx' = NoFcall /\ said' = Nothing
      /\ msize' = msize /\ dotu' = dotu /\ wire' = wire /\ coming' = coming /\ torn' = torn
      /\ pending' = FALSE /\ res'.e = "EBADF"
  BY DEF ClunkNofid, MayCall, stream, nmp, Return, Ret
<1>2. call' \in Calls
  BY <1>1 DEF Calls
<1>3. Shape'
  <2>1. msize' \in 0 .. MaxMsg /\ calls' \in 0 .. MaxCalls
    BY <1>1, RequestsAssumption, NumbersAre, BitsAre DEF IInv, Shape
  <2>2. said'.how = "none" /\ res'.e \in Results
    BY <1>1 DEF Nothing, Results
  <2>3. wire' \in Buffers /\ coming' \in Buffers /\ buf' \in Buffers /\ sent' \in Buffers /\ listing' \in Buffers
    BY <1>1, EmptyBuffer DEF IInv, Shape
  <2>4. dotu' \in BOOLEAN /\ torn' \in BOOLEAN /\ pending' \in BOOLEAN
    BY <1>1 DEF IInv, Shape
  <2> QED BY <1>2, <2>1, <2>2, <2>3, <2>4 DEF Shape
<1>4. TxOk' /\ SentOk' /\ AnswerOk'
  BY <1>1 DEF TxOk, SentOk, AnswerOk
<1>5. StreamOk'
  BY <1>1 DEF IInv, StreamOk, InStep
<1> QED BY <1>3, <1>4, <1>5 DEF IInv

(* What the call asked and what the server said stay what they are.        *)
LEMMA TxSame ==
    ASSUME TxOk, tx' = tx, call' = call, msize' = msize, dotu' = dotu
    PROVE  TxOk'
<1>1. TxFor(call', tx', msize', dotu') <=> TxFor(call, tx, msize, dotu)
  BY Zenon
<1> HIDE DEF TxFor
<1> QED BY <1>1 DEF TxOk

LEMMA AnswerSame ==
    ASSUME AnswerOk, tx' = tx, said' = said, dotu' = dotu
    PROVE  AnswerOk'
<1>1. \A d : (StatsOf(d))' = StatsOf(d)
  BY Zenon DEF StatsOf
<1>2. CASE said = Nothing
  BY <1>2 DEF AnswerOk
<1>3. CASE said # Nothing
  <2>1. said.how \in Ways /\ tx # NoFcall /\ AnswerFor(tx, said.m)
    BY <1>3 DEF AnswerOk
  <2>2. (AnswerFor(tx, said.m))'
    <3>1. tx'.type = tx.type /\ said'.m = said.m
      OBVIOUS
    <3> QED BY Zenon, <1>1, <2>1, <3>1 DEF AnswerFor
  <2>3. said'.how \in Ways /\ tx' # NoFcall
    BY <2>1
  <2> QED BY <2>2, <2>3 DEF AnswerOk
<1> QED BY <1>2, <1>3

LEMMA ReceiveFailsKeeps == ASSUME IInv, ReceiveFails PROVE IInv'
<1>1. /\ pending /\ pending' = FALSE /\ res'.e \in {"EAGAIN", "EINVAL"} /\ wire' = <<>> /\ torn' = TRUE
      /\ msize' = msize /\ dotu' = dotu /\ coming' = coming /\ call' = call /\ tx' = tx /\ sent' = sent
      /\ said' = said /\ listing' = listing /\ buf' = buf /\ calls' = calls
  BY DEF ReceiveFails, nmp, Return, Ret
<1>2. Shape'
  BY <1>1, EmptyBuffer DEF IInv, Shape, Results
<1>3. TxOk' /\ AnswerOk'
  BY <1>1, TxSame, AnswerSame DEF IInv
<1>4. SentOk'
  <2>1. (SizeS2M(tx, dotu))' = SizeS2M(tx, dotu)
    BY Zenon, <1>1
  <2> HIDE DEF SizeS2M
  <2> QED BY <1>1, <2>1 DEF IInv, SentOk
<1>5. StreamOk'
  BY <1>1 DEF StreamOk
<1> QED BY <1>2, <1>3, <1>4, <1>5 DEF IInv

LEMMA ReceiveNoMemKeeps == ASSUME IInv, ReceiveNoMem PROVE IInv'
<1>1. /\ pending /\ pending' = FALSE /\ res'.e = "ENOMEM" /\ wire' \in Buffers /\ torn' = TRUE
      /\ msize' = msize /\ dotu' = dotu /\ coming' = coming /\ call' = call /\ tx' = tx /\ sent' = sent
      /\ said' = said /\ listing' = listing /\ buf' = buf /\ calls' = calls
  <2>1. wire \in Buffers /\ Len(wire) \in Nat /\ Len(wire) >= BIT32SZ
    BY BufferLens DEF IInv, Shape, ReceiveNoMem
  <2>2. Fits(wire, BIT32SZ, Len(wire) - BIT32SZ) /\ BIT32SZ \in Nat /\ Len(wire) - BIT32SZ \in Nat
    BY <2>1, BitsAre DEF Fits
  <2>3. wire' \in Buffers
    BY <2>1, <2>2, BytesBuffer DEF ReceiveNoMem
  <2> QED BY <2>3 DEF ReceiveNoMem, nmp, Return, Ret
<1>2. Shape'
  BY <1>1 DEF IInv, Shape, Results
<1>3. TxOk' /\ AnswerOk'
  BY <1>1, TxSame, AnswerSame DEF IInv
<1>4. SentOk'
  <2>1. (SizeS2M(tx, dotu))' = SizeS2M(tx, dotu)
    BY Zenon, <1>1
  <2> HIDE DEF SizeS2M
  <2> QED BY <1>1, <2>1 DEF IInv, SentOk
<1>5. StreamOk'
  BY <1>1 DEF StreamOk
<1> QED BY <1>2, <1>3, <1>4, <1>5 DEF IInv

(* What the server makes of a request.                                     *)
LEMMA SizesFit ==
    /\ MaxMsg \in Nat /\ MaxMsg + 1 \in Numbers(BIT32SZ)
    /\ \A n \in 0 .. MaxMsg + 1 : n \in Numbers(BIT32SZ)
<1>1. MaxMsg \in Nat /\ MaxMsg + 1 <= Values(BIT16SZ) /\ Values(BIT16SZ) < Values(BIT32SZ)
  <2>1. Values(BIT16SZ) \in Nat /\ Values(BIT16SZ) < Values(BIT32SZ)
    BY ValuesOf, ValuesPositive, BitsAre
  <2>2. MaxMsg \in Numbers(BIT16SZ)
    BY RequestsAssumption
  <2> HIDE DEF Values
  <2> QED BY <2>1, <2>2 DEF Numbers
<1>2. Values(BIT16SZ) \in Nat /\ Values(BIT32SZ) \in Nat
  BY ValuesPositive, BitsAre
<1> HIDE DEF Values
<1> QED BY <1>1, <1>2 DEF Numbers

LEMMA AskedIs ==
    ASSUME IInv, pending
    PROVE  /\ ConvM2S(sent, dotu) = Decoded(Len(sent), MsgTaken(tx, dotu))
           /\ tx.type \in Ts \ {"Tflush"} /\ MsgTaken(tx, dotu).type = tx.type
           /\ AskedOf(MsgTaken(tx, dotu))
           /\ call \in Calls /\ TxFor(call, tx, msize, dotu)
<1> DEFINE n == SizeS2M(tx, dotu)
           q == MsgTaken(tx, dotu)
<1>1. tx # NoFcall /\ sent = MsgBytes(tx, dotu) /\ n <= MaxMsg /\ dotu \in BOOLEAN
  BY DEF IInv, SentOk, Shape
<1>2. call \in Calls /\ TxFor(call, tx, msize, dotu)
  BY <1>1 DEF IInv, TxOk
<1>3. tx.type \in Ts /\ MsgOk(tx, dotu)
  BY <1>1, <1>2 DEF TxFor
<1>4. n \in Nat /\ Len(sent) = n
  BY <1>1, <1>3, SentIs
<1>5. n \in Numbers(BIT32SZ)
  <2> HIDE DEF n
  <2> QED BY <1>1, <1>4, SizesFit
<1>6. ConvM2S(sent, dotu) = Decoded(n, q)
  <2>1. ConvM2S(MsgBytes(tx, dotu), dotu) = Decoded(n, q)
    BY <1>1, <1>3, <1>5, MessageRoundTrip
  <2> QED BY Zenon, <1>1, <2>1
<1>7. q.type = tx.type /\ q.tag = tx.tag
  BY TakenFields
<1>8. tx.type # "Tflush"
  <2>1. call.op \in {"version", "auth", "attach", "walk", "create", "wstat", "clone", "open", "clunk",
                     "remove", "stat", "readdirs", "read", "write"}
    BY <1>2 DEF Calls
  <2>2. TypeFor(call, tx.type)
    BY <1>2 DEF TxFor
  <2> QED BY <2>1, <2>2 DEF TypeFor
<1>9. tx.type = "Tread" => q.offset \in [1 .. BIT64SZ -> Numbers(BIT8SZ)] /\ q.count \in Numbers(BIT32SZ)
  <2> SUFFICES ASSUME tx.type = "Tread"
               PROVE  q.offset \in [1 .. BIT64SZ -> Numbers(BIT8SZ)] /\ q.count \in Numbers(BIT32SZ)
    OBVIOUS
  <2>1. FieldsOf(tx.type, dotu) = {"type", "tag", "fid", "offset", "count"}
    BY <1>1, FieldsOfTread
  <2>2. q["offset"] = tx["offset"] /\ q["count"] = tx["count"]
    <3> HIDE DEF q
    <3>1. \A x \in FieldsOf(tx.type, dotu) : q[x] = tx[x]
      BY TakenFields DEF q
    <3> QED BY <2>1, <3>1
  <2>3. tx.offset \in [1 .. BIT64SZ -> Numbers(BIT8SZ)] /\ tx.count \in Numbers(BIT32SZ)
    BY <1>2 DEF TxFor
  <2> HIDE DEF q
  <2> QED BY <2>2, <2>3
<1>a. call.op = "readdirs" => tx.type = "Tread"
  BY <1>2 DEF TxFor, TypeFor
<1>b. tx.tag \in Numbers(BIT16SZ)
  BY <1>3 DEF MsgOk
<1>c. AskedOf(q)
  <2> HIDE DEF q
  <2> QED BY <1>3, <1>7, <1>8, <1>9, <1>a, <1>b DEF AskedOf
<1> HIDE DEF q, n
<1> QED BY <1>2, <1>3, <1>4, <1>6, <1>7, <1>8, <1>c DEF q

(* A message with another size field.                                      *)
LEMMA WithSizeIs ==
    ASSUME NEW f, NEW u \in BOOLEAN, MsgOk(f, u), NEW n \in Nat
    PROVE  WithSize(MsgBytes(f, u), n) = Wire(f, n, MsgBody(f, u)) /\ Wire(f, n, MsgBody(f, u)) \in Buffers
<1> DEFINE z == SizeS2M(f, u)
           a == U32(z)
           a2 == U32(n)
           b == U8(Number(f.type))
           c == U16(f.tag)
           d == MsgBody(f, u)
           r == Then(b, Then(c, d))
           m == MsgBytes(f, u)
<1>0. f.type \in Ts \cup Rs /\ f.tag \in Numbers(BIT16SZ) /\ z \in Nat /\ d \in Buffers
  BY MsgParts DEF MsgOk
<1>1. /\ a \in Buffers /\ Length(a) = BIT32SZ /\ a2 \in Buffers /\ Length(a2) = BIT32SZ
      /\ b \in Buffers /\ c \in Buffers
  BY <1>0, HeaderParts
<1>2. m = Then(Then(Then(a, b), c), d)
  BY Zenon DEF MsgBytes, MsgHeader
<1>3. Wire(f, n, d) = Then(Then(Then(a2, b), c), d)
  BY Zenon DEF Wire, MsgHeader
<1> HIDE DEF a, a2, b, c, d, m, z
<1>4. \A x \in Buffers : Then(Then(Then(x, b), c), d) = Then(x, r) /\ r \in Buffers
  <2>1. Then(c, d) \in Buffers /\ r \in Buffers
    BY <1>0, <1>1, ThenBuffer
  <2> SUFFICES ASSUME NEW x \in Buffers
               PROVE  Then(Then(Then(x, b), c), d) = Then(x, r)
    BY <2>1
  <2>2. Then(Then(x, b), c) = Then(x, Then(b, c)) /\ Then(b, c) \in Buffers
    BY <1>1, ThenAssociative, ThenBuffer
  <2>3. Then(Then(x, Then(b, c)), d) = Then(x, Then(Then(b, c), d))
    BY <1>0, <2>2, ThenAssociative
  <2>4. Then(Then(b, c), d) = r
    BY <1>0, <1>1, ThenAssociative
  <2> QED BY <2>2, <2>3, <2>4
<1>5. m = Then(a, r) /\ Wire(f, n, d) = Then(a2, r) /\ r \in Buffers
  BY <1>1, <1>2, <1>3, <1>4
<1> HIDE DEF r
<1>6. SubSeq(Then(a, r), BIT32SZ + 1, Len(Then(a, r))) = r
  <2> DEFINE s == Then(a, r)
             t == SubSeq(s, BIT32SZ + 1, Len(s))
             k == Len(r)
  <2>1. s \in Buffers /\ Len(s) = 4 + k /\ k \in Nat /\ \A i \in 1 .. k : s[4 + i] = r[i]
    <3>1. Len(a) = 4
      BY <1>1, BitsAre DEF Length
    <3>2. s \in Buffers /\ Len(s) = Len(a) + k /\ \A i \in 1 .. k : s[Len(a) + i] = r[i]
      BY <1>1, <1>5, ConcatBuffers DEF Then
    <3>3. k \in Nat
      BY <1>5, BufferIs
    <3> HIDE DEF s, k
    <3> QED BY <3>1, <3>2, <3>3
  <2>2. r \in Seq(Numbers(BIT8SZ)) /\ s \in Seq(Numbers(BIT8SZ))
    BY <1>5, <2>1 DEF Buffers
  <2> HIDE DEF s
  <2>3. t \in Seq(Numbers(BIT8SZ)) /\ Len(t) = k /\ \A i \in 1 .. k : t[i] = s[4 + i]
    BY <2>1, <2>2, BitsAre, SubSeqProperties
  <2> HIDE DEF t
  <2>4. t = r
    BY <2>1, <2>2, <2>3
  <2> QED BY <2>4 DEF t, s
<1>7. WithSize(m, n) = a2 \o r
  BY Zenon, <1>5, <1>6 DEF WithSize, a2
<1>8. Then(a2, r) \in Buffers
  BY <1>1, <1>5, ThenBuffer
<1>9. WithSize(m, n) = Wire(f, n, d)
  BY Zenon, <1>5, <1>7 DEF Then
<1> QED BY Zenon, <1>5, <1>8, <1>9 DEF m, d

-----------------------------------------------------------------------------
(* The server answers.                                                     *)

LEMMA NulBuffer == <<NUL>> \in Buffers /\ Len(<<NUL>>) = 1
<1>1. 0 \in 0 .. Byte - 1
  BY CodecAssumption
<1>2. 0 \in Numbers(BIT8SZ)
  BY <1>1, ByteIs
<1> QED BY <1>2 DEF Buffers, NUL

(* What is on the wire, by the way it was sent.                            *)
LEMMA WrongIs ==
    ASSUME NEW f, NEW u \in BOOLEAN, MsgOk(f, u), msize \in Nat
    PROVE  LET b == MsgBytes(f, u)
               body == MsgBody(f, u)
               n == SizeS2M(f, u)
           IN /\ OnWire(b, "tiny") = <<Wire(f, BIT32SZ, body), <<>>>>
              /\ OnWire(b, "huge") = <<Wire(f, msize + 1, body), <<>>>>
              /\ OnWire(b, "short") = <<Wire(f, n - 1, body), <<>>>>
              /\ OnWire(b, "long") = <<Wire(f, n + 1, Then(body, <<NUL>>)), <<>>>>
              /\ body \in Buffers /\ Then(body, <<NUL>>) \in Buffers
              /\ \A how \in WrongSize : OnWire(b, how)[1] \in Buffers /\ OnWire(b, how)[2] = <<>>
<1> DEFINE b == MsgBytes(f, u)
           body == MsgBody(f, u)
           n == SizeS2M(f, u)
<1>1. b \in Buffers /\ Len(b) = n /\ n \in Nat /\ n >= HDRSZ
  BY SentIs
<1>2. \A k \in Nat : WithSize(b, k) = Wire(f, k, body) /\ Wire(f, k, body) \in Buffers
  BY WithSizeIs
<1>3. body \in Buffers
  BY MsgParts
<1>4. BIT32SZ \in Nat /\ msize + 1 \in Nat /\ n - 1 \in Nat /\ n + 1 \in Nat
  <2> HIDE DEF n
  <2> QED BY <1>1, BitsAre
<1>5. Then(body, <<NUL>>) \in Buffers
  <2> HIDE DEF body
  <2> QED BY <1>3, NulBuffer, ThenBuffer
<1>6. Then(Wire(f, n + 1, body), <<NUL>>) = Wire(f, n + 1, Then(body, <<NUL>>)) /\ Then(Wire(f, n + 1, body), <<NUL>>) \in Buffers
  <2> DEFINE h == MsgHeader(f, n + 1)
             z == <<NUL>>
  <2>1. h \in Buffers
    <3> HIDE DEF n
    <3>1. f.type \in Ts \cup Rs /\ f.tag \in Numbers(BIT16SZ)
      BY DEF MsgOk
    <3> QED BY <1>4, <3>1, HeaderParts
  <2>2. z \in Buffers
    BY NulBuffer
  <2> HIDE DEF h, z, body
  <2>3. Then(Then(h, body), z) = Then(h, Then(body, z)) /\ Then(Then(h, body), z) \in Buffers
    BY <1>3, <2>1, <2>2, ThenAssociative, ThenBuffer
  <2> QED BY Zenon, <2>3 DEF Wire, h, z
<1>7. OnWire(b, "tiny") = <<Wire(f, BIT32SZ, body), <<>>>>
  <2>1. OnWire(b, "tiny") = <<WithSize(b, BIT32SZ), <<>>>>
    BY DEF OnWire
  <2> QED BY Zenon, <1>2, <1>4, <2>1
<1>8. OnWire(b, "huge") = <<Wire(f, msize + 1, body), <<>>>>
  <2>1. OnWire(b, "huge") = <<WithSize(b, msize + 1), <<>>>>
    BY DEF OnWire
  <2> QED BY Zenon, <1>2, <1>4, <2>1
<1>9. OnWire(b, "short") = <<Wire(f, n - 1, body), <<>>>>
  <2>1. OnWire(b, "short") = <<WithSize(b, Len(b) - 1), <<>>>>
    BY DEF OnWire
  <2> QED BY Zenon, <1>1, <1>2, <1>4, <2>1
<1>a. OnWire(b, "long") = <<Wire(f, n + 1, Then(body, <<NUL>>)), <<>>>>
  <2>1. OnWire(b, "long") = <<Then(WithSize(b, Len(b) + 1), <<NUL>>), <<>>>>
    BY DEF OnWire, Then
  <2> QED BY Zenon, <1>1, <1>2, <1>4, <1>6, <2>1
<1> HIDE DEF b, body, n
<1>b. ASSUME NEW how \in WrongSize PROVE OnWire(b, how)[1] \in Buffers /\ OnWire(b, how)[2] = <<>>
  <2> DEFINE o == OnWire(b, how)
  <2>1. how \in {"tiny", "huge", "short", "long"}
    BY DEF WrongSize
  <2>2. PICK w \in Buffers : o = <<w, <<>>>>
    BY <1>2, <1>4, <1>6, <1>7, <1>8, <1>9, <1>a, <2>1
  <2> HIDE DEF o
  <2> QED BY <2>2 DEF o
<1> QED BY <1>3, <1>5, <1>7, <1>8, <1>9, <1>a, <1>b DEF b, body, n

LEMMA RightIs ==
    ASSUME NEW b \in Buffers, Len(b) >= HDRSZ
    PROVE  /\ OnWire(b, "whole") = <<b, <<>>>> /\ OnWire(b, "other") = <<b, <<>>>>
           /\ OnWire(b, "late")[1] \in Buffers /\ OnWire(b, "late")[2] \in Buffers
           /\ Then(OnWire(b, "late")[1], OnWire(b, "late")[2]) = b /\ Length(OnWire(b, "late")[2]) = 1
<1> DEFINE n == Len(b)
           w == SubSeq(b, 1, n - 1)
           c == <<b[n]>>
<1>1. n \in Nat /\ n >= 7 /\ b \in Seq(Numbers(BIT8SZ)) /\ \A i \in 1 .. n : b[i] \in Numbers(BIT8SZ)
  <2>1. n \in Nat /\ b \in Seq(Numbers(BIT8SZ))
    BY LenProperties DEF Buffers
  <2>2. n >= 7
    BY <2>1, BitsAre
  <2> HIDE DEF Numbers
  <2> QED BY <2>1, <2>2, ElementOfSeq
<1>2. OnWire(b, "whole") = <<b, <<>>>> /\ OnWire(b, "other") = <<b, <<>>>>
  BY DEF OnWire
<1>3. OnWire(b, "late") = <<w, c>>
  BY DEF OnWire, Last
<1> HIDE DEF n
<1>4. b[n] \in Numbers(BIT8SZ) /\ n \in 1 .. n
  BY <1>1
<1>5. c \in Buffers /\ Len(c) = 1 /\ c[1] = b[n]
  <2> HIDE DEF Numbers
  <2> QED BY <1>4 DEF Buffers
<1>6. w \in Buffers /\ Len(w) = n - 1 /\ \A i \in 1 .. n - 1 : w[i] = b[i]
  <2> HIDE DEF Numbers
  <2> QED BY <1>1, SubSeqProperties DEF Buffers, n
<1> HIDE DEF w, c
<1>7. w \o c = b
  <2> DEFINE s == w \o c
  <2>1. s \in Buffers /\ Len(s) = Len(w) + Len(c) /\ (\A i \in 1 .. Len(w) : s[i] = w[i]) /\ \A i \in 1 .. Len(c) : s[Len(w) + i] = c[i]
    BY <1>5, <1>6, ConcatBuffers
  <2> HIDE DEF s
  <2>2. Len(s) = n /\ \A i \in 1 .. n - 1 : s[i] = b[i]
    BY <1>1, <1>5, <1>6, <2>1
  <2>3. s[n] = b[n]
    <3>1. s[(n - 1) + 1] = c[1]
      BY <1>1, <1>5, <1>6, <2>1
    <3> QED BY <1>1, <1>5, <3>1
  <2>4. \A i \in 1 .. n : s[i] = b[i]
    BY <1>1, <2>2, <2>3
  <2>5. s \in Seq(Numbers(BIT8SZ)) /\ Len(b) = n
    BY <2>1 DEF Buffers, n
  <2> HIDE DEF Numbers
  <2>6. s = b
    BY <1>1, <2>2, <2>4, <2>5
  <2> QED BY <2>6 DEF s
<1>8. OnWire(b, "late")[1] = w /\ OnWire(b, "late")[2] = c
  BY <1>3
<1>9. Then(w, c) = b /\ Length(c) = 1
  BY <1>5, <1>7 DEF Then, Length
<1> QED BY <1>2, <1>5, <1>6, <1>8, <1>9

LEMMA AnswerKeeps == ASSUME IInv, Answer PROVE IInv'
<1> DEFINE q == MsgTaken(tx, dotu)
<1>0. msize \in Nat /\ msize \in 0 .. MaxMsg /\ dotu \in BOOLEAN /\ listing \in Buffers /\ wire \in Buffers
  BY RequestsAssumption, NumbersAre, BitsAre DEF IInv, Shape
<1>1. pending /\ said = Nothing
  BY DEF Answer
<1>2. ConvM2S(sent, dotu) = Decoded(Len(sent), q) /\ AskedOf(q) /\ q.type = tx.type /\ tx # NoFcall
  BY <1>1, AskedIs DEF IInv, SentOk
<1>3. ConvM2S(sent, dotu).f = q
  <2>1. Decoded(Len(sent), q).f = q
    BY DEF Decoded
  <2> QED BY Zenon, <1>2, <2>1
<1> HIDE DEF q
<1>4. PICK m \in Replies(q) \cup Errors(q) \cup Wrong(q), how \in Ways :
         \E b \in {ConvS2M(m, msize - 1, (how = "other") # dotu)} :
           /\ b # <<>>
           /\ how = "other" => m.type = "Rerror"
           /\ said' = [m |-> m, how |-> how]
           /\ wire' = wire \o OnWire(b, how)[1]
           /\ coming' = OnWire(b, how)[2]
           /\ torn' = (torn \/ how \in WrongSize)
  BY <1>3 DEF Answer
<1> DEFINE u == (how = "other") # dotu
           b == MsgBytes(m, u)
           n == SizeS2M(m, u)
           o == OnWire(b, how)
<1>5. u \in BOOLEAN
  OBVIOUS
<1>6. AnswerFor(q, m) /\ MsgOk(m, u)
  <2>1. AnswerFor(q, m)
    BY <1>0, <1>2, AnswerIs
  <2> QED BY <1>5, <2>1 DEF AnswerFor
<1>7. b \in Buffers /\ Len(b) = n /\ n >= HDRSZ /\ n \in Nat /\ ConvS2M(m, msize - 1, u) = IF n > msize - 1 THEN <<>> ELSE b
  <2>1. msize - 1 \in Int
    BY <1>0
  <2> HIDE DEF u
  <2> QED BY <1>5, <1>6, <2>1, SentIs
<1>8. /\ n < msize
      /\ how = "other" => m.type = "Rerror"
      /\ said' = [m |-> m, how |-> how]
      /\ wire' = wire \o o[1] /\ coming' = o[2]
      /\ torn' = (torn \/ how \in WrongSize)
  <2>1. PICK c \in {ConvS2M(m, msize - 1, u)} :
           /\ c # <<>>
           /\ how = "other" => m.type = "Rerror"
           /\ said' = [m |-> m, how |-> how]
           /\ wire' = wire \o OnWire(c, how)[1]
           /\ coming' = OnWire(c, how)[2]
           /\ torn' = (torn \/ how \in WrongSize)
    BY <1>4
  <2> HIDE DEF u, b, n
  <2>2. n < msize /\ c = b
    BY <1>0, <1>7, <2>1
  <2> QED BY <2>1, <2>2
<1>9. UNCHANGED <<nmp, call, pending, tx, sent, listing, buf, res, calls>>
  BY DEF Answer
<1>a. msize' = msize /\ dotu' = dotu /\ pending' = pending /\ tx' = tx
  BY <1>9 DEF nmp
<1>b. said' # Nothing /\ said'.how = how /\ said'.m = m /\ how # "none"
  BY <1>8 DEF Nothing, Ways, WrongSize
<1>c. ~ torn /\ wire = <<>> /\ coming = <<>>
  BY <1>1 DEF IInv, StreamOk, InStep, OutOfStep
<1>d. \/ how \in WrongSize /\ o[1] \in Buffers /\ o[2] = <<>>
      \/ how \in {"whole", "other"} /\ o[1] = b /\ o[2] = <<>>
      \/ how = "late" /\ o[1] \in Buffers /\ o[2] \in Buffers /\ Then(o[1], o[2]) = b /\ Length(o[2]) = 1
  <2>1. CASE how \in WrongSize
    <3>1. o[1] \in Buffers /\ o[2] = <<>>
      <4> HIDE DEF u
      <4> QED BY <1>0, <1>5, <1>6, <2>1, WrongIs
    <3> QED BY <2>1, <3>1
  <2>2. CASE how \in {"whole", "other"}
    <3>1. o = <<b, <<>>>>
      <4> HIDE DEF b, n
      <4> QED BY <1>7, <2>2, RightIs
    <3> HIDE DEF o, b
    <3> QED BY <2>2, <3>1
  <2>3. CASE how = "late"
    <3>1. o = OnWire(b, "late")
      BY Zenon, <2>3
    <3> HIDE DEF b, n, o
    <3> QED BY <1>7, <2>3, <3>1, RightIs
  <2> QED BY <2>1, <2>2, <2>3 DEF Ways, WrongSize
<1>e. o[1] \in Buffers /\ o[2] \in Buffers
  <2> HIDE DEF o, b, n
  <2> QED BY <1>7, <1>d, EmptyBuffer
<1>f. wire' = o[1] /\ coming' = o[2] /\ torn' = (how \in WrongSize)
  <2> HIDE DEF o
  <2>1. Then(<<>>, o[1]) = o[1]
    BY <1>e, ThenEmpty
  <2> QED BY <1>8, <1>c, <2>1 DEF Then
<1>g. Shape'
  <2>1. said'.how \in Ways
    BY <1>b
  <2>2. wire' \in Buffers /\ coming' \in Buffers /\ torn' \in BOOLEAN
    BY <1>e, <1>f
  <2>3. Shape
    BY DEF IInv
  <2> QED BY <1>9, <2>1, <2>2, <2>3 DEF Shape, nmp
<1>h. TxOk'
  BY <1>9, TxSame DEF IInv, nmp
<1>i. SentOk'
  <2>1. SentOk
    BY DEF IInv
  <2> QED BY Zenon, <1>9, <2>1 DEF SentOk, nmp
<1>j. AnswerOk'
  <2>1. \A d : (StatsOf(d))' = StatsOf(d)
    BY Zenon, <1>a DEF StatsOf
  <2>2. (AnswerFor(tx, said.m))'
    BY Zenon, <1>2, <1>6, <1>a, <1>b, <2>1 DEF AnswerFor
  <2> QED BY <1>2, <1>a, <1>b, <2>2 DEF AnswerOk
<1>k. StreamOk'
  <2> HIDE DEF o
  <2>1. CASE how \in WrongSize
    <3>1. how # "other"
      BY <2>1 DEF WrongSize
    <3>2. b = MsgBytes(m, dotu) /\ n = SizeS2M(m, dotu)
      BY Zenon, <1>0, <3>1
    <3>3. (OnWire(MsgBytes(said.m, dotu), said.how))' = o
      BY Zenon, <1>a, <1>b, <3>2 DEF OnWire, WithSize, o
    <3>4. (SizeS2M(said.m, dotu))' = n
      BY Zenon, <1>a, <1>b, <3>2
    <3>5. o[2] = <<>>
      BY <1>d, <2>1 DEF WrongSize
    <3> HIDE DEF b, n
    <3>6. OutOfStep'
      BY <1>8, <1>a, <1>b, <1>f, <2>1, <3>3, <3>4, <3>5 DEF OutOfStep
    <3> QED BY <1>f, <2>1, <3>6 DEF StreamOk
  <2>2. CASE how \notin WrongSize
    <3>1. Then(o[1], o[2]) = b /\ Length(o[2]) <= 1
      <4> HIDE DEF b, n
      <4>1. CASE how = "late"
        BY <1>d, <2>2, <4>1
      <4>2. CASE how # "late"
        <5>1. o[1] = b /\ o[2] = <<>>
          BY <1>d, <2>2, <4>2
        <5>2. Then(b, <<>>) = b /\ Length(<<>>) = 0
          BY <1>7, ThenEmpty, EmptyBuffer DEF Length
        <5> QED BY <5>1, <5>2
      <4> QED BY <4>1, <4>2
    <3>2. Spoken' = u
      BY Zenon, <1>a, <1>b DEF Spoken
    <3>3. (MsgBytes(said.m, Spoken))' = b /\ (SizeS2M(said.m, Spoken))' = n
      BY Zenon, <1>b, <3>2
    <3> HIDE DEF b, n
    <3>4. InStep'
      BY <1>1, <1>8, <1>a, <1>b, <1>f, <2>2, <3>1, <3>3 DEF InStep
    <3> QED BY <1>f, <2>2, <3>4 DEF StreamOk
  <2> QED BY <2>1, <2>2
<1> QED BY <1>g, <1>h, <1>i, <1>j, <1>k DEF IInv

-----------------------------------------------------------------------------
(* The bytes arrive, and recvmsg takes them.                               *)

LEMMA ArriveKeeps == ASSUME IInv, Arrive PROVE IInv'
<1>1. /\ coming # <<>> /\ wire' = Then(wire, coming) /\ coming' = <<>>
      /\ msize' = msize /\ dotu' = dotu /\ call' = call /\ pending' = pending /\ tx' = tx /\ sent' = sent
      /\ said' = said /\ torn' = torn /\ listing' = listing /\ buf' = buf /\ res' = res /\ calls' = calls
  BY DEF Arrive, nmp, Then
<1>2. wire \in Buffers /\ coming \in Buffers /\ wire' \in Buffers
  <2>1. wire \in Buffers /\ coming \in Buffers
    BY DEF IInv, Shape
  <2> QED BY <1>1, <2>1, ThenBuffer
<1>3. Shape'
  BY <1>1, <1>2, EmptyBuffer DEF IInv, Shape
<1>4. TxOk' /\ AnswerOk'
  BY <1>1, TxSame, AnswerSame DEF IInv
<1>5. SentOk'
  <2>1. SentOk
    BY DEF IInv
  <2> QED BY Zenon, <1>1, <2>1 DEF SentOk
<1>6. StreamOk'
  <2>1. CASE torn
    BY <1>1, <2>1 DEF IInv, StreamOk, OutOfStep
  <2>2. CASE ~ torn
    <3> DEFINE b == MsgBytes(said.m, Spoken)
               n == SizeS2M(said.m, Spoken)
    <3>1. /\ pending /\ said # Nothing /\ said.how \notin WrongSize
          /\ said.how = "other" => said.m.type = "Rerror"
          /\ Then(wire, coming) = b /\ n < msize
      BY <1>1, <2>2 DEF IInv, StreamOk, InStep
    <3>2. (MsgBytes(said.m, Spoken))' = b /\ (SizeS2M(said.m, Spoken))' = n
      <4>1. Spoken' = Spoken
        BY Zenon, <1>1 DEF Spoken
      <4> QED BY Zenon, <1>1, <4>1
    <3>3. Then(wire', coming') = b /\ Length(coming') <= 1
      BY <1>1, <1>2, <3>1, ThenEmpty, EmptyBuffer DEF Length
    <3> HIDE DEF b, n
    <3>4. InStep'
      BY <1>1, <3>1, <3>2, <3>3 DEF InStep
    <3> QED BY <1>1, <2>2, <3>4 DEF StreamOk
  <2> QED BY <2>1, <2>2
<1> QED BY <1>3, <1>4, <1>5, <1>6 DEF IInv

-----------------------------------------------------------------------------
(* What is received.                                                       *)

LEMMA BytesAll == \A b \in Buffers : Bytes(b, 0, Len(b)) = b
<1> TAKE b \in Buffers
<1>1. Len(b) \in Nat /\ At(b, 0, b)
  BY BufferIs, AtSelf
<1> QED BY <1>1, AtBytes

LEMMA RecvSmall ==
    ASSUME ~ SizeOk(WireSize)
    PROVE  Recvmsg.e = "0" /\ Recvmsg.used = BIT32SZ /\ Recvmsg.rx = NoFcall
BY DEF Recvmsg

LEMMA RecvIs ==
    ASSUME SizeOk(WireSize), NEW d, ConvM2S(Bytes(wire, 0, WireSize), dotu) = d
    PROVE  /\ Recvmsg.used = WireSize
           /\ Recvmsg.e = IF d.n = WireSize THEN "0" ELSE "EIO"
           /\ d.n = WireSize => Recvmsg.rx = d.f
<1> DEFINE m == Bytes(wire, 0, WireSize)
           ok == [e |-> "0", used |-> WireSize, rx |-> d.f]
           bad == [e |-> "EIO", used |-> WireSize, rx |-> HeaderSet(m)]
<1>1. Recvmsg = IF d.n = WireSize THEN ok ELSE bad
  BY Zenon DEF Recvmsg
<1>2. ok.e = "0" /\ ok.used = WireSize /\ ok.rx = d.f /\ bad.e = "EIO" /\ bad.used = WireSize
  <2> HIDE DEF m, WireSize, HeaderSet
  <2> QED OBVIOUS
<1> HIDE DEF ok, bad, WireSize, Recvmsg
<1>3. CASE d.n = WireSize
  BY <1>1, <1>2, <1>3
<1>4. CASE d.n # WireSize
  BY <1>1, <1>2, <1>4
<1> QED BY <1>3, <1>4

LEMMA SizeRead ==
    ASSUME wire \in Buffers, NEW b \in Buffers, Prefix(wire, b), Len(wire) >= BIT32SZ
    PROVE  WireSize = GBIT(Bytes(b, 0, BIT32SZ))
<1>1. 0 \in Nat /\ BIT32SZ \in Nat
  BY BitsAre
<1>2. Fits(wire, 0, BIT32SZ)
  BY <1>1 DEF Fits
<1>3. Bytes(wire, 0, BIT32SZ) = Bytes(b, 0, BIT32SZ)
  BY <1>1, <1>2, SameBytes
<1> QED BY <1>3 DEF WireSize

LEMMA SizeField ==
    ASSUME NEW f, f.type \in Ts \cup Rs, f.tag \in Numbers(BIT16SZ), NEW z \in Numbers(BIT32SZ), NEW c \in Buffers
    PROVE  GBIT(Bytes(Wire(f, z, c), 0, BIT32SZ)) = z
<1> DEFINE m == Wire(f, z, c)
<1>1. m \in Buffers
  BY Converted
<1>2. m = Then(MsgHeader(f, z), c)
  BY DEF Wire
<1> HIDE DEF m
<1> QED BY <1>1, <1>2, HeaderRead DEF m

LEMMA ReceivedInStep ==
    ASSUME IInv, pending, Complete, ~ torn
    PROVE  /\ said # Nothing /\ coming = <<>> /\ Recvmsg.used = Len(wire)
           /\ \/ said.how \in {"whole", "late"} /\ Recvmsg.e = "0" /\ Recvmsg.rx = MsgTaken(said.m, dotu)
              \/ Recvmsg.e = "EIO"
<1> DEFINE m == said.m
           u == Spoken
           b == MsgBytes(m, u)
           n == SizeS2M(m, u)
           body == MsgBody(m, u)
<1>0. wire \in Buffers /\ coming \in Buffers /\ msize \in Nat /\ msize <= MaxMsg /\ Len(wire) \in Nat
      /\ Len(coming) \in Nat /\ Len(wire) >= BIT32SZ /\ dotu \in BOOLEAN
  BY SizesFit, BufferLens DEF IInv, Shape, Complete
<1>1. /\ said # Nothing /\ said.how \notin WrongSize /\ Then(wire, coming) = b /\ n < msize
      /\ said.how = "other" => m.type = "Rerror"
  <2>1. wire # <<>>
    BY <1>0, EmptyBuffer, BitsAre
  <2> QED BY <2>1 DEF IInv, StreamOk, InStep
<1>2. said.how \in {"whole", "late", "other"} /\ tx # NoFcall /\ AnswerFor(tx, m) /\ u \in BOOLEAN
  BY <1>1 DEF IInv, AnswerOk, Ways, WrongSize, Spoken
<1>3. \A v \in BOOLEAN : MsgOk(m, v)
  BY <1>2 DEF AnswerFor
<1>4. m.type \in Ts \cup Rs /\ m.tag \in Numbers(BIT16SZ)
  BY <1>3 DEF MsgOk
<1>5. b \in Buffers /\ Len(b) = n /\ n \in Nat /\ n >= HDRSZ
  <2> HIDE DEF u
  <2> QED BY <1>2, <1>3, SentIs
<1>6. n \in Numbers(BIT32SZ)
  <2> HIDE DEF n
  <2> QED BY <1>0, <1>1, <1>5, SizesFit
<1>7. Prefix(wire, b) /\ Len(wire) + Len(coming) = n
  <2> HIDE DEF b, n
  <2> QED BY <1>0, <1>1, <1>5, PrefixOfThen
<1>8. WireSize = n
  <2>1. b = Wire(m, n, body) /\ body \in Buffers
    <3>1. body \in Buffers
      BY <1>2, <1>3, MsgParts
    <3> QED BY <3>1 DEF MsgBytes, Wire
  <2>2. GBIT(Bytes(b, 0, BIT32SZ)) = n
    <3> HIDE DEF b, n, body, m
    <3> QED BY <1>4, <1>6, <2>1, SizeField
  <2> HIDE DEF b, n
  <2> QED BY <1>0, <1>5, <1>7, <2>2, SizeRead
<1>9. SizeOk(WireSize)
  <2> HIDE DEF n
  <2> QED BY <1>0, <1>1, <1>5, <1>8, BitsAre DEF SizeOk
<1>a. coming = <<>> /\ wire = b /\ Len(wire) = n
  <2> HIDE DEF b, n
  <2>1. Len(wire) >= n
    BY <1>8, <1>9 DEF Complete
  <2>2. Len(coming) = 0 /\ Len(wire) = n
    BY <1>0, <1>5, <1>7, <2>1
  <2>3. coming = <<>>
    <3>1. coming \in Seq(Numbers(BIT8SZ))
      BY <1>0 DEF Buffers
    <3> HIDE DEF Numbers
    <3> QED BY <2>2, <3>1
  <2>4. Then(wire, <<>>) = wire
    BY <1>0, ThenEmpty
  <2> QED BY <1>1, <2>2, <2>3, <2>4
<1> DEFINE d == ConvM2S(b, dotu)
<1>b. ConvM2S(Bytes(wire, 0, WireSize), dotu) = d
  <2>1. Bytes(wire, 0, WireSize) = b
    <3> HIDE DEF b, n, WireSize
    <3> QED BY <1>0, <1>8, <1>a, BytesAll
  <2> QED BY Zenon, <2>1
<1>c. /\ Recvmsg.used = n
      /\ Recvmsg.e = IF d.n = n THEN "0" ELSE "EIO"
      /\ d.n = n => Recvmsg.rx = d.f
  <2>1. /\ Recvmsg.used = WireSize
        /\ Recvmsg.e = IF d.n = WireSize THEN "0" ELSE "EIO"
        /\ d.n = WireSize => Recvmsg.rx = d.f
    <3> HIDE DEF d, WireSize, Recvmsg
    <3> QED BY <1>9, <1>b, RecvIs
  <2> HIDE DEF d, WireSize, Recvmsg, n
  <2> QED BY <1>8, <2>1
<1>d. CASE said.how # "other"
  <2>1. u = dotu
    BY <1>0, <1>d DEF Spoken
  <2>2. d = Decoded(n, MsgTaken(m, dotu))
    <3>1. ConvM2S(MsgBytes(m, u), u) = Decoded(SizeS2M(m, u), MsgTaken(m, u))
      <4> HIDE DEF u
      <4> QED BY <1>2, <1>3, <1>6, MessageRoundTrip
    <3> QED BY Zenon, <2>1, <3>1
  <2>3. d.n = n /\ d.f = MsgTaken(m, dotu)
    <3> HIDE DEF d, n, m
    <3> QED BY <2>2 DEF Decoded
  <2> HIDE DEF d, n, Recvmsg
  <2> QED BY <1>1, <1>2, <1>a, <1>c, <1>d, <2>3
<1>e. CASE said.how = "other"
  <2>1. m.type = "Rerror" /\ u # dotu
    BY <1>0, <1>1, <1>e DEF Spoken
  <2>2. m.ename \in Names /\ m.errnum \in Numbers(BIT32SZ)
    <3>1. m.ename \in {UnknownFid, NoError} /\ m.errnum \in Numbers(BIT32SZ)
      BY <1>2, <2>1 DEF AnswerFor
    <3>2. UnknownFid \in Names /\ NoError \in Names
      BY StringsAre
    <3> QED BY <3>1, <3>2
  <2>3. d = Refused
    <3> HIDE DEF u
    <3> QED BY <1>0, <1>2, <1>3, <1>6, <2>1, <2>2, OtherDialect
  <2>4. d.n = 0
    BY <2>3 DEF Refused, Decoded
  <2>5. 0 # n
    <3> HIDE DEF n
    <3> QED BY <1>5, BitsAre
  <2> HIDE DEF d, n, Recvmsg
  <2> QED BY <1>1, <1>a, <1>c, <2>4, <2>5
<1> QED BY <1>d, <1>e

(* The body without its last byte.                                         *)
LEMMA ShortMessage ==
    ASSUME NEW f, NEW u \in BOOLEAN, MsgOk(f, u), NEW z \in Numbers(BIT32SZ), z = SizeS2M(f, u) - 1
    PROVE  ConvM2S(Bytes(Wire(f, z, MsgBody(f, u)), 0, z), u) = Refused
<1> DEFINE body == MsgBody(f, u)
           k == Len(body)
           h == MsgHeader(f, z)
           t == Wire(f, z, body)
<1>1. body \in Buffers /\ k \in Nat /\ z = (HDRSZ + k) - 1 /\ z \in Nat
  <2>1. body \in Buffers /\ SizeS2M(f, u) = HDRSZ + Length(body)
    BY MsgParts
  <2>2. k \in Nat
    BY <2>1, BufferLens
  <2>3. z \in Nat
    BY NumbersAre, BitsAre
  <2> HIDE DEF body
  <2> QED BY <2>1, <2>2, <2>3 DEF Length
<1>2. h \in Buffers /\ Len(h) = HDRSZ
  <2>1. f.type \in Ts \cup Rs /\ f.tag \in Numbers(BIT16SZ)
    BY DEF MsgOk
  <2> QED BY <1>1, <2>1, HeaderParts DEF Length
<1>3. t = Then(h, body)
  BY DEF Wire
<1>4. t \in Buffers /\ Len(t) = HDRSZ + k
  <2> HIDE DEF h, body, t
  <2> QED BY <1>1, <1>2, <1>3, ThenBuffer
<1>5. CASE k = 0
  <2> DEFINE w == Bytes(t, 0, z)
  <2>1. Len(w) = z /\ z < HDRSZ
    <3> HIDE DEF t, k
    <3>1. z < HDRSZ /\ Fits(t, 0, z) /\ 0 \in Nat
      BY <1>1, <1>4, <1>5, BitsAre DEF Fits
    <3> QED BY <1>1, <1>4, <3>1, BytesBuffer
  <2> HIDE DEF w
  <2>2. Len(w) < HDRSZ
    BY <2>1
  <2>3. ConvM2S(w, u) = Refused
    BY <2>2 DEF ConvM2S
  <2> QED BY <2>3 DEF w
<1>6. CASE k # 0
  <2> DEFINE c == SubSeq(body, 1, k - 1)
             e == Wire(f, z, c)
  <2>1. c \in Buffers /\ Len(c) = k - 1 /\ \A i \in 1 .. k - 1 : c[i] = body[i]
    <3>1. body \in Seq(Numbers(BIT8SZ)) /\ k = Len(body) /\ k - 1 \in 0 .. k /\ k - 1 \in Nat
      <4> HIDE DEF Numbers, body
      <4>1. body \in Seq(Numbers(BIT8SZ))
        BY <1>1 DEF Buffers
      <4> QED BY <1>1, <1>6, <4>1
    <3> HIDE DEF Numbers, body, k
    <3> QED BY <3>1, SubSeqProperties DEF Buffers
  <2> HIDE DEF c
  <2>2. Prefix(c, body) /\ Len(c) < Len(body)
    <3> HIDE DEF body
    <3>1. k = Len(body)
      BY DEF k
    <3> HIDE DEF k
    <3> QED BY <1>1, <1>6, <2>1, <3>1 DEF Prefix
  <2>3. ConvM2S(e, u) = Refused
    BY <2>1, <2>2, CutMessage
  <2>4. e = Then(h, c)
    BY DEF Wire
  <2>5. e \in Buffers /\ Prefix(e, t) /\ Len(e) = z
    <3> HIDE DEF e, h, t, body
    <3>1. Then(h, c) \in Buffers /\ Prefix(Then(h, c), Then(h, body)) /\ Len(Then(h, c)) = Len(h) + Len(c)
      BY <1>1, <1>2, <2>1, <2>2, PrefixThen
    <3>2. HDRSZ + (k - 1) = z
      <4> HIDE DEF k
      <4> QED BY <1>1, BitsAre
    <3> HIDE DEF k
    <3> QED BY <1>2, <1>3, <2>1, <2>4, <3>1, <3>2
  <2>6. Bytes(t, 0, z) = e
    <3> HIDE DEF e, t
    <3>1. At(t, 0, e)
      <4>1. \A i \in 1 .. Len(e) : 0 + i = i
        BY <1>1, <2>5
      <4> QED BY <1>1, <1>4, <2>5, <4>1 DEF At, Prefix
    <3>2. Len(t) \in Nat /\ 0 \in Nat
      BY <1>4, BufferLens
    <3> QED BY <2>5, <3>1, <3>2, AtBytes
  <2> QED BY Zenon, <2>3, <2>6
<1> QED BY <1>5, <1>6

LEMMA UsedIs ==
    ASSUME Complete, Len(wire) \in Nat, msize \in Nat, WireSize \in Nat
    PROVE  Recvmsg.used \in Nat /\ Recvmsg.used <= Len(wire)
<1>1. CASE ~ SizeOk(WireSize)
  BY <1>1, RecvSmall, BitsAre DEF Complete
<1>2. CASE SizeOk(WireSize)
  <2>1. Recvmsg.used = WireSize
    <3> HIDE DEF WireSize, Recvmsg
    <3> QED BY <1>2, RecvIs
  <2> HIDE DEF WireSize, Recvmsg
  <2> QED BY <1>2, <2>1 DEF Complete
<1> QED BY <1>1, <1>2

LEMMA ReceivedTorn ==
    ASSUME IInv, pending, Complete, torn
    PROVE  /\ Recvmsg.e = "EIO" \/ (Recvmsg.e = "0" /\ Recvmsg.rx = NoFcall)
           /\ Recvmsg.used \in Nat /\ Recvmsg.used <= Len(wire) /\ coming = <<>>
<1> DEFINE m == said.m
           n == SizeS2M(m, dotu)
           body == MsgBody(m, dotu)
           b == MsgBytes(m, dotu)
<1>0. wire \in Buffers /\ msize \in Nat /\ msize <= MaxMsg /\ Len(wire) \in Nat
      /\ Len(wire) >= BIT32SZ /\ dotu \in BOOLEAN
  BY SizesFit, BufferLens DEF IInv, Shape, Complete
<1>1. said # Nothing /\ said.how \in WrongSize /\ wire = OnWire(b, said.how)[1] /\ coming = <<>> /\ n < msize
  BY DEF IInv, StreamOk, OutOfStep
<1>2. tx # NoFcall /\ AnswerFor(tx, m)
  BY <1>1 DEF IInv, AnswerOk
<1>3. MsgOk(m, dotu)
  BY <1>0, <1>2 DEF AnswerFor
<1>4. m.type \in Ts \cup Rs /\ m.tag \in Numbers(BIT16SZ)
  BY <1>3 DEF MsgOk
<1>5. n \in Nat /\ n >= HDRSZ
  BY <1>0, <1>3, SentIs
<1>6. /\ OnWire(b, "tiny") = <<Wire(m, BIT32SZ, body), <<>>>>
      /\ OnWire(b, "huge") = <<Wire(m, msize + 1, body), <<>>>>
      /\ OnWire(b, "short") = <<Wire(m, n - 1, body), <<>>>>
      /\ OnWire(b, "long") = <<Wire(m, n + 1, Then(body, <<NUL>>)), <<>>>>
      /\ body \in Buffers /\ Then(body, <<NUL>>) \in Buffers
  BY <1>0, <1>3, WrongIs
<1> DEFINE x == Then(body, <<NUL>>)
<1> HIDE DEF n, b, body, x, m
<1>7. /\ BIT32SZ \in Numbers(BIT32SZ) /\ msize + 1 \in Numbers(BIT32SZ)
      /\ n - 1 \in Numbers(BIT32SZ) /\ n + 1 \in Numbers(BIT32SZ)
  <2>1. \A k \in 0 .. MaxMsg + 1 : k \in Numbers(BIT32SZ)
    BY SizesFit
  <2>2. BIT32SZ \in 0 .. MaxMsg + 1 /\ msize + 1 \in 0 .. MaxMsg + 1 /\ n - 1 \in 0 .. MaxMsg + 1 /\ n + 1 \in 0 .. MaxMsg + 1
    BY <1>0, <1>1, <1>5, SizesFit, BitsAre
  <2> QED BY <2>1, <2>2
<1>8. \A z \in Numbers(BIT32SZ), c \in Buffers : wire = Wire(m, z, c) => WireSize = z
  <2> TAKE z \in Numbers(BIT32SZ), c \in Buffers
  <2> HAVE wire = Wire(m, z, c)
  <2>1. GBIT(Bytes(Wire(m, z, c), 0, BIT32SZ)) = z
    BY <1>4, SizeField
  <2> QED BY Zenon, <2>1 DEF WireSize
<1>9. ASSUME NEW z \in Numbers(BIT32SZ), NEW c \in Buffers, wire = Wire(m, z, c),
             SizeOk(z) => ConvM2S(Bytes(wire, 0, z), dotu) = Refused
      PROVE  /\ Recvmsg.e = "EIO" \/ (Recvmsg.e = "0" /\ Recvmsg.rx = NoFcall)
             /\ Recvmsg.used \in Nat /\ Recvmsg.used <= Len(wire)
  <2>1. WireSize = z /\ z \in Nat
    BY <1>8, <1>9, NumbersAre, BitsAre
  <2>2. Recvmsg.used \in Nat /\ Recvmsg.used <= Len(wire)
    <3> HIDE DEF Recvmsg, WireSize
    <3> QED BY <1>0, <2>1, UsedIs
  <2>3. CASE ~ SizeOk(z)
    <3>1. ~ SizeOk(WireSize)
      BY Zenon, <2>1, <2>3
    <3> HIDE DEF Recvmsg, WireSize
    <3> QED BY <2>2, <3>1, RecvSmall
  <2>4. CASE SizeOk(z)
    <3> DEFINE d == ConvM2S(Bytes(wire, 0, z), dotu)
    <3>1. d.n = 0 /\ z # 0
      BY <1>9, <2>1, <2>4, BitsAre DEF Refused, Decoded, SizeOk
    <3>2. SizeOk(WireSize) /\ ConvM2S(Bytes(wire, 0, WireSize), dotu) = d
      BY Zenon, <2>1, <2>4
    <3> HIDE DEF Recvmsg, WireSize, d
    <3>3. Recvmsg.e = IF d.n = WireSize THEN "0" ELSE "EIO"
      BY <3>2, RecvIs
    <3>4. d.n # WireSize
      BY <2>1, <3>1
    <3> QED BY <2>2, <3>3, <3>4
  <2> QED BY <2>3, <2>4
<1>a. CASE said.how = "tiny"
  <2>1. wire = Wire(m, BIT32SZ, body)
    BY <1>1, <1>6, <1>a
  <2>2. ~ SizeOk(BIT32SZ)
    BY BitsAre DEF SizeOk
  <2> HIDE DEF Recvmsg
  <2> QED BY <1>1, <1>6, <1>7, <1>9, <2>1, <2>2
<1>b. CASE said.how = "huge"
  <2>1. wire = Wire(m, msize + 1, body)
    BY <1>1, <1>6, <1>b
  <2>2. ~ SizeOk(msize + 1)
    BY <1>0 DEF SizeOk
  <2> HIDE DEF Recvmsg
  <2> QED BY <1>1, <1>6, <1>7, <1>9, <2>1, <2>2
<1>c. CASE said.how = "short"
  <2>1. wire = Wire(m, n - 1, body)
    BY <1>1, <1>6, <1>c
  <2>2. ConvM2S(Bytes(wire, 0, n - 1), dotu) = Refused
    <3> DEFINE z == n - 1
    <3>1. z \in Numbers(BIT32SZ) /\ z = SizeS2M(m, dotu) - 1
      BY <1>7 DEF n
    <3> HIDE DEF z
    <3>2. ConvM2S(Bytes(Wire(m, z, MsgBody(m, dotu)), 0, z), dotu) = Refused
      BY <1>0, <1>3, <3>1, ShortMessage
    <3> QED BY Zenon, <2>1, <3>2 DEF z, body
  <2> HIDE DEF Recvmsg
  <2> QED BY <1>1, <1>6, <1>7, <1>9, <2>1, <2>2
<1>d. CASE said.how = "long"
  <2> DEFINE z == n + 1
  <2>1. wire = Wire(m, z, x)
    BY <1>1, <1>6, <1>d DEF x
  <2>2. z # SizeS2M(m, dotu) /\ z \in Numbers(BIT32SZ) /\ Len(wire) = z
    <3>1. n + 1 # n /\ n = SizeS2M(m, dotu)
      BY <1>5 DEF n
    <3>2. Len(Wire(m, z, x)) = HDRSZ + Len(x)
      <4> HIDE DEF z
      <4>1. z \in Numbers(BIT32SZ) /\ x \in Buffers
        BY <1>6, <1>7 DEF z, x
      <4> QED BY <1>4, <4>1, Converted
    <3>3. Len(x) = Len(body) + 1 /\ Len(body) \in Nat
      BY <1>6, NulBuffer, ThenBuffer, BufferLens DEF x
    <3>4. n = HDRSZ + Len(body)
      BY <1>0, <1>3, MsgParts DEF n, Length, body
    <3>5. HDRSZ + Len(x) = z
      <4> DEFINE k == Len(body)
                 l == Len(x)
      <4> HIDE DEF k, l
      <4>1. l = k + 1 /\ k \in Nat /\ n = HDRSZ + k
        BY <3>3, <3>4 DEF k, l
      <4>2. HDRSZ + l = n + 1
        BY <4>1, BitsAre
      <4> QED BY <4>2 DEF l
    <3> QED BY <1>7, <2>1, <3>1, <3>2, <3>5
  <2> HIDE DEF z
  <2>3. ConvM2S(Bytes(wire, 0, z), dotu) = Refused
    <3>1. Bytes(wire, 0, z) = wire
      BY <1>0, <2>2, BytesAll
    <3>2. ConvM2S(Wire(m, z, Then(MsgBody(m, dotu), <<NUL>>)), dotu) = Refused
      BY <1>0, <1>3, <2>2, NulBuffer, LongMessage
    <3> QED BY Zenon, <2>1, <3>1, <3>2 DEF x, body
  <2> HIDE DEF Recvmsg
  <2>4. x \in Buffers
    BY <1>6 DEF x
  <2> QED BY <1>1, <1>9, <2>1, <2>2, <2>3, <2>4
<1> HIDE DEF Recvmsg
<1> QED BY <1>1, <1>a, <1>b, <1>c, <1>d DEF WrongSize

-----------------------------------------------------------------------------
(* What rpc_9p and its caller make of the reply.                           *)

LEMMA ReceivedIs ==
    ASSUME IInv, pending, Complete
    PROVE  /\ Recvmsg.used \in Nat /\ Recvmsg.used <= Len(wire) /\ coming = <<>>
           /\ torn \/ Recvmsg.used = Len(wire)
           /\ \/ Recvmsg.e = "EIO"
              \/ Recvmsg.e = "0" /\ Recvmsg.rx = NoFcall
              \/ /\ Recvmsg.e = "0" /\ ~ torn /\ said.how \in {"whole", "late"} /\ said # Nothing
                 /\ tx # NoFcall /\ AnswerFor(tx, said.m) /\ Recvmsg.rx = MsgTaken(said.m, dotu)
<1> DEFINE r == Recvmsg
<1>0. Len(wire) \in Nat
  BY BufferLens DEF IInv, Shape
<1>1. CASE torn
  <2>1. /\ r.e = "EIO" \/ (r.e = "0" /\ r.rx = NoFcall)
        /\ r.used \in Nat /\ r.used <= Len(wire) /\ coming = <<>>
    BY <1>1, ReceivedTorn
  <2> HIDE DEF r
  <2> QED BY <1>1, <2>1 DEF r
<1>2. CASE ~ torn
  <2>1. /\ said # Nothing /\ coming = <<>> /\ r.used = Len(wire)
        /\ \/ said.how \in {"whole", "late"} /\ r.e = "0" /\ r.rx = MsgTaken(said.m, dotu)
           \/ r.e = "EIO"
    BY <1>2, ReceivedInStep
  <2>2. tx # NoFcall /\ AnswerFor(tx, said.m)
    BY <2>1 DEF IInv, AnswerOk
  <2> HIDE DEF r
  <2> QED BY <1>0, <1>2, <2>1, <2>2 DEF r
<1> QED BY <1>1, <1>2

(* What rpc_9p and its callers return is one of the error numbers.         *)
LEMMA ErrorsAre == \A rx : RpcError(rx) \in {"0", "EIO", "EBADF", "EINVAL", "EBADRPC"}
BY DEF RpcError, Errno, Ename2errno

LEMMA DirpackageIs == \A b : Dirpackage(b).e \in {"0", "EBADRPC"}
BY DEF Dirpackage, Ret

LEMMA ResultsAre == ASSUME call \in Calls PROVE \A rx : Result(rx).e \in Results
<1> SUFFICES ASSUME NEW rx PROVE Result(rx).e \in Results
  OBVIOUS
<1>1. call.op \in {"version", "auth", "attach", "walk", "create", "wstat", "clone", "open", "clunk",
                   "remove", "stat", "readdirs", "read", "write"}
  BY DEF Calls
<1>2. CASE call.op = "version"
  BY <1>2 DEF Result, Results, Ret
<1>3. CASE call.op = "auth"
  BY <1>3 DEF Result, Results, Ret
<1>4. CASE call.op = "attach"
  BY <1>4 DEF Result, Results, Ret
<1>5. CASE call.op = "clone"
  BY <1>5 DEF Result, Results, Ret
<1>6. CASE call.op = "walk"
  BY <1>6 DEF Result, Results, Ret
<1>7. CASE call.op \in {"open", "create"}
  BY <1>7 DEF Result, Results, Ret
<1>8. CASE call.op = "read"
  BY <1>8 DEF Result, Results, Ret
<1>9. CASE call.op = "write"
  BY <1>9 DEF Result, Results, Ret
<1>a. CASE call.op = "stat"
  BY <1>a DEF Result, Results, Ret
<1>b. CASE call.op = "readdirs"
  <2>1. Result(rx) = Dirpackage(buf)
    BY <1>b DEF Result
  <2> QED BY <2>1, DirpackageIs DEF Results
<1>c. CASE call.op \in {"clunk", "remove", "wstat"}
  BY <1>c DEF Result, Results, Ret
<1> QED BY <1>1, <1>2, <1>3, <1>4, <1>5, <1>6, <1>7, <1>8, <1>9, <1>a, <1>b, <1>c

(* Only the reply to the request, or an error that says "no error", lets   *)
(* the caller go on; what it then uses is what was sent.                   *)
LEMMA NoReply == \A t \in Ts \ {"Tflush"} : ReplyType(t) \in Rs /\ ReplyType(t) # "none" /\ ReplyType(t) # "Rerror" /\ ReplyType(t) # "Rflush"
BY ReplyTypes DEF Ts, Rs

LEMMA GoesOn ==
    ASSUME IInv, pending, NEW rx,
           \/ rx = NoFcall
           \/ tx # NoFcall /\ AnswerFor(tx, said.m) /\ rx = MsgTaken(said.m, dotu),
           RpcError(rx) = "0"
    PROVE  /\ rx = MsgTaken(said.m, dotu) /\ AnswerFor(tx, said.m) /\ rx.type = said.m.type /\ rx # NoFcall
           /\ said.m.type = ReplyType(tx.type) \/ (said.m.type = "Rerror" /\ Errno(rx) = "0")
           /\ \A x \in FieldsOf(said.m.type, dotu) : rx[x] = said.m[x]
           /\ DOMAIN rx = FieldsOf(said.m.type, dotu)
<1>1. tx.type \in Ts \ {"Tflush"}
  BY AskedIs
<1>2. rx # NoFcall
  <2> SUFFICES ASSUME rx = NoFcall PROVE FALSE
    OBVIOUS
  <2>1. rx.type = "none" /\ ReplyType(tx.type) # "none"
    BY <1>1, NoReply DEF NoFcall
  <2>2. RpcError(rx) = "EBADRPC"
    BY <2>1 DEF RpcError
  <2> QED BY <2>2
<1>3. rx = MsgTaken(said.m, dotu) /\ AnswerFor(tx, said.m)
  BY <1>2
<1>4. /\ rx.type = said.m.type /\ DOMAIN rx = FieldsOf(said.m.type, dotu)
      /\ \A x \in FieldsOf(said.m.type, dotu) : rx[x] = said.m[x]
  BY <1>3, TakenFields
<1>5. rx.type = ReplyType(tx.type) \/ (rx.type = "Rerror" /\ Errno(rx) = "0")
  BY DEF RpcError
<1> HIDE DEF FieldsOf
<1> QED BY <1>2, <1>3, <1>4, <1>5

LEMMA VersionAnswered ==
    ASSUME IInv, pending, NEW rx, RpcError(rx) = "0", call.op = "version",
           \/ rx = NoFcall
           \/ tx # NoFcall /\ AnswerFor(tx, said.m) /\ rx = MsgTaken(said.m, dotu)
    PROVE  said.m.type = "Rversion" /\ rx.msize \in Numbers(BIT32SZ)
<1>0. dotu \in BOOLEAN
  BY DEF IInv, Shape
<1>1. /\ AnswerFor(tx, said.m)
      /\ said.m.type = ReplyType(tx.type) \/ (said.m.type = "Rerror" /\ Errno(rx) = "0")
      /\ \A x \in FieldsOf(said.m.type, dotu) : rx[x] = said.m[x]
  BY GoesOn
<1>2. tx.type = "Tversion"
  BY AskedIs DEF TxFor, TypeFor
<1>3. said.m.type # "Rerror"
  <2> SUFFICES ASSUME said.m.type = "Rerror" PROVE FALSE
    OBVIOUS
  <2>1. said.m.ename = UnknownFid
    BY <1>1, <1>2 DEF AnswerFor
  <2>2. "ename" \in FieldsOf(said.m.type, dotu)
    BY <1>0, FieldsOfRerror
  <2>3. rx.ename = UnknownFid
    BY <1>1, <2>1, <2>2
  <2>4. UnknownFid # NoError
    BY RequestsAssumption
  <2>5. Errno(rx) # "0"
    BY <2>3, <2>4 DEF Errno, Ename2errno
  <2>6. ReplyType(tx.type) # "Rerror"
    BY <1>2, ReplyTypes
  <2> QED BY <1>1, <2>5, <2>6
<1>4. said.m.type = "Rversion"
  BY <1>1, <1>2, <1>3, ReplyTypes
<1>5. "msize" \in FieldsOf(said.m.type, dotu)
  BY <1>0, <1>4, FieldsOfRversion
<1>6. said.m.msize \in Numbers(BIT32SZ)
  BY <1>1, <1>4 DEF AnswerFor
<1> QED BY <1>1, <1>4, <1>5, <1>6

LEMMA ReadAnswered ==
    ASSUME IInv, pending, NEW rx, RpcError(rx) = "0", ReadAgain(rx),
           \/ rx = NoFcall
           \/ tx # NoFcall /\ AnswerFor(tx, said.m) /\ rx = MsgTaken(said.m, dotu)
    PROVE  /\ call.op = "readdirs" /\ tx.type = "Tread" /\ tx.tag \in Numbers(BIT16SZ)
           /\ said.m.type = "Rread" /\ rx.data \in Buffers /\ tx.count \in Numbers(BIT32SZ)
<1>0. dotu \in BOOLEAN
  BY DEF IInv, Shape
<1>1. /\ AnswerFor(tx, said.m) /\ DOMAIN rx = FieldsOf(said.m.type, dotu)
      /\ said.m.type = ReplyType(tx.type) \/ (said.m.type = "Rerror" /\ Errno(rx) = "0")
      /\ \A x \in FieldsOf(said.m.type, dotu) : rx[x] = said.m[x]
  BY GoesOn
<1>2. call.op = "readdirs" /\ "data" \in DOMAIN rx
  BY DEF ReadAgain, Field
<1>3. tx.type = "Tread" /\ tx.count \in Numbers(BIT32SZ) /\ tx.tag \in Numbers(BIT16SZ)
  BY <1>0, <1>2, AskedIs DEF TxFor, TypeFor, MsgOk
<1>4. said.m.type # "Rerror"
  <2> SUFFICES ASSUME said.m.type = "Rerror" PROVE FALSE
    OBVIOUS
  <2>1. "data" \notin FieldsOf(said.m.type, dotu)
    BY <1>0, FieldsOfRerror
  <2> QED BY <1>1, <1>2, <2>1
<1>5. said.m.type = "Rread"
  BY <1>1, <1>3, <1>4, ReplyTypes
<1>6. said.m.data \in Buffers
  BY <1>1, <1>5 DEF AnswerFor
<1>7. rx.data = said.m.data
  BY <1>1, <1>2
<1> QED BY <1>2, <1>3, <1>5, <1>6, <1>7

LEMMA ReceiveKeeps == ASSUME IInv, Receive PROVE IInv'
<1> DEFINE r == Recvmsg
<1>0. /\ pending /\ Complete /\ msize \in 0 .. MaxMsg /\ dotu \in BOOLEAN /\ wire \in Buffers
      /\ buf \in Buffers /\ call \in Calls /\ tx # NoFcall /\ Len(wire) \in Nat /\ MaxMsg \in Nat
  <2>1. pending /\ Complete
    BY DEF Receive
  <2>2. msize \in 0 .. MaxMsg /\ dotu \in BOOLEAN /\ wire \in Buffers /\ buf \in Buffers /\ tx # NoFcall
    BY <2>1 DEF IInv, Shape, SentOk
  <2>3. call \in Calls
    BY <2>1, AskedIs
  <2> QED BY <2>1, <2>2, <2>3, BufferLens, SizesFit
<1>1. PICK rx \in {r.rx}, e \in {IF r.e # "0" THEN r.e ELSE RpcError(r.rx)} :
       /\ wire' = Bytes(wire, r.used, Len(wire) - r.used)
       /\ IF e # "0"
          THEN /\ IF call.op = "auth" /\ rx.type = "Rerror" THEN Return("0", NOFID) ELSE Return(e, Null)
               /\ UNCHANGED <<nmp, tx, sent, said, buf, torn>>
          ELSE IF ReadAgain(rx)
          THEN /\ buf' = buf \o SubSeq(rx.data, 1, Min({Len(rx.data), tx.count}))
               /\ SendTx(call, tx.tag)
               /\ UNCHANGED nmp
          ELSE /\ res' = Result(rx) /\ pending' = FALSE
               /\ msize' = IF call.op = "version" THEN Min({rx.msize, MaxMsg}) ELSE msize
               /\ dotu' = IF call.op = "version" THEN call.name = VersionU /\ rx.version = VersionU ELSE dotu
               /\ UNCHANGED <<tx, sent, said, buf, torn>>
  <2>1. PICK q \in {r} :
          \E rx \in {q.rx}, e \in {IF q.e # "0" THEN q.e ELSE RpcError(q.rx)} :
             /\ wire' = Bytes(wire, q.used, Len(wire) - q.used)
             /\ IF e # "0"
                THEN /\ IF call.op = "auth" /\ rx.type = "Rerror" THEN Return("0", NOFID) ELSE Return(e, Null)
                     /\ UNCHANGED <<nmp, tx, sent, said, buf, torn>>
                ELSE IF ReadAgain(rx)
                THEN /\ buf' = buf \o SubSeq(rx.data, 1, Min({Len(rx.data), tx.count}))
                     /\ SendTx(call, tx.tag)
                     /\ UNCHANGED nmp
                ELSE /\ res' = Result(rx) /\ pending' = FALSE
                     /\ msize' = IF call.op = "version" THEN Min({rx.msize, MaxMsg}) ELSE msize
                     /\ dotu' = IF call.op = "version" THEN call.name = VersionU /\ rx.version = VersionU ELSE dotu
                     /\ UNCHANGED <<tx, sent, said, buf, torn>>
    BY Zenon DEF Receive
  <2>2. q = r
    BY <2>1
  <2> QED BY Zenon, <2>1, <2>2
<1>2. UNCHANGED <<call, coming, listing, calls>>
  BY DEF Receive
<1>3. /\ r.used \in Nat /\ r.used <= Len(wire) /\ coming = <<>>
      /\ torn \/ r.used = Len(wire)
      /\ r.e \in {"0", "EIO"}
      /\ \/ r.e = "EIO"
         \/ rx = NoFcall
         \/ tx # NoFcall /\ AnswerFor(tx, said.m) /\ rx = MsgTaken(said.m, dotu)
  <2>1. /\ r.used \in Nat /\ r.used <= Len(wire) /\ coming = <<>>
        /\ torn \/ r.used = Len(wire)
        /\ r.e \in {"0", "EIO"}
        /\ r.e = "EIO" \/ r.rx = NoFcall \/ (tx # NoFcall /\ AnswerFor(tx, said.m) /\ r.rx = MsgTaken(said.m, dotu))
    BY <1>0, ReceivedIs
  <2>2. rx = r.rx
    BY <1>1
  <2> HIDE DEF r
  <2> QED BY <2>1, <2>2
<1>4. e = IF r.e # "0" THEN r.e ELSE RpcError(rx)
  BY <1>1
<1> HIDE DEF r
<1>5. wire' \in Buffers /\ (~ torn => wire' = <<>>)
  <2>1. Fits(wire, r.used, Len(wire) - r.used) /\ Len(wire) - r.used \in Nat
    BY <1>0, <1>3 DEF Fits
  <2>2. wire' \in Buffers /\ Len(wire') = Len(wire) - r.used
    BY <1>0, <1>1, <1>3, <2>1, BytesBuffer
  <2>3. ~ torn => Len(wire') = 0
    BY <1>0, <1>3, <2>2
  <2>4. wire' \in Seq(Numbers(BIT8SZ))
    BY <2>2 DEF Buffers
  <2> HIDE DEF Numbers
  <2> QED BY <2>2, <2>3, <2>4
<1>6. coming' = <<>> /\ coming' \in Buffers /\ call' = call
  BY <1>2, <1>3, EmptyBuffer
<1>7. ASSUME ~ pending', msize' \in 0 .. MaxMsg, dotu' \in BOOLEAN, pending' \in BOOLEAN, res'.e \in Results,
             tx' = tx, sent' = sent, said' = said, buf' = buf, torn' = torn,
             TxOk', AnswerOk'
      PROVE  IInv'
  <2>1. Shape'
    BY <1>2, <1>5, <1>6, <1>7 DEF IInv, Shape
  <2>2. sent' # <<>>
    <3>1. sent = MsgBytes(tx, dotu) /\ MsgOk(tx, dotu)
      BY <1>0, AskedIs DEF IInv, SentOk, TxFor
    <3>2. MsgBytes(tx, dotu) # <<>>
      BY <1>0, <3>1, SentIs
    <3> QED BY <1>7, <3>1, <3>2
  <2>3. SentOk'
    BY <1>7, <2>2 DEF SentOk
  <2>4. StreamOk'
    BY <1>5, <1>6, <1>7 DEF StreamOk, InStep
  <2> QED BY <1>7, <2>1, <2>3, <2>4 DEF IInv
<1>8. CASE e # "0"
  <2>1. /\ IF call.op = "auth" /\ rx.type = "Rerror" THEN Return("0", NOFID) ELSE Return(e, Null)
        /\ UNCHANGED <<nmp, tx, sent, said, buf, torn>>
    BY <1>1, <1>8
  <2>2. /\ msize' = msize /\ dotu' = dotu /\ tx' = tx /\ sent' = sent /\ said' = said /\ buf' = buf
        /\ torn' = torn
    BY <2>1 DEF nmp
  <2>3. e \in Results
    BY <1>3, <1>4, ErrorsAre DEF Results
  <2>4. pending' = FALSE /\ res'.e \in Results
    <3> HIDE DEF Results
    <3>1. "0" \in Results
      BY DEF Results
    <3> QED BY <2>1, <2>3, <3>1 DEF Return, Ret
  <2>5. TxOk' /\ AnswerOk'
    BY <1>6, <2>2, TxSame, AnswerSame DEF IInv
  <2> HIDE DEF Results
  <2> QED BY <1>0, <1>7, <2>2, <2>4, <2>5
<1>9. CASE e = "0"
  <2>0. /\ RpcError(rx) = "0" /\ r.e = "0"
        /\ rx = NoFcall \/ (tx # NoFcall /\ AnswerFor(tx, said.m) /\ rx = MsgTaken(said.m, dotu))
    BY <1>3, <1>4, <1>9
  <2>1. CASE ReadAgain(rx)
    <3>1. /\ buf' = buf \o SubSeq(rx.data, 1, Min({Len(rx.data), tx.count}))
          /\ SendTx(call, tx.tag)
          /\ UNCHANGED nmp
      BY <1>1, <1>9, <2>1
    <3>2. /\ call.op = "readdirs" /\ tx.type = "Tread" /\ tx.tag \in Numbers(BIT16SZ)
          /\ said.m.type = "Rread" /\ rx.data \in Buffers /\ tx.count \in Numbers(BIT32SZ)
      BY <1>0, <2>0, <2>1, ReadAnswered
    <3>3. buf' \in Buffers
      <4> DEFINE k == Min({Len(rx.data), tx.count})
                 s == SubSeq(rx.data, 1, k)
      <4>1. Len(rx.data) \in Nat /\ tx.count \in Nat
        BY <3>2, BufferLens, SmallIs
      <4>2. k \in Nat /\ k <= Len(rx.data)
        BY <4>1, MinIs
      <4> HIDE DEF k
      <4>3. s \in Buffers
        BY <3>2, <4>1, <4>2, SubSeqBuffer
      <4> HIDE DEF s
      <4>4. buf' = Then(buf, s)
        BY <3>1 DEF Then, s, k
      <4> QED BY <1>0, <4>3, <4>4, ThenBuffer
    <3>4. msize' = msize /\ dotu' = dotu
      BY <3>1 DEF nmp
    <3>5. msize' = IF call.op = "version" THEN MaxMsg ELSE msize
      BY <3>2, <3>4
    <3>6. /\ TxOk' /\ SentOk' /\ AnswerOk' /\ said' = Nothing
          /\ sent' \in Buffers /\ pending' \in BOOLEAN /\ res'.e \in Results
          /\ torn' = torn \/ (torn' = TRUE /\ pending' = FALSE)
      BY <1>0, <1>6, <3>1, <3>2, <3>3, <3>4, <3>5, SendOk
    <3>7. Shape'
      <4>1. said'.how = "none"
        BY <3>6 DEF Nothing
      <4>2. UNCHANGED <<call, listing, calls>>
        BY <1>2
      <4> QED BY <1>0, <1>5, <1>6, <3>3, <3>4, <3>6, <4>1, <4>2 DEF IInv, Shape
    <3>8. StreamOk'
      <4>1. ~ torn
        <5> SUFFICES ASSUME torn PROVE FALSE
          OBVIOUS
        <5>1. r.rx = NoFcall
          BY <1>0, <2>0, ReceivedTorn DEF r
        <5>2. rx = NoFcall
          BY <1>1, <5>1
        <5>3. rx.type = "none"
          BY <5>2 DEF NoFcall
        <5>4. said.m.type = rx.type
          BY <1>0, <2>0, GoesOn
        <5> QED BY <3>2, <5>3, <5>4
      <4> QED BY <1>5, <1>6, <3>6, <4>1 DEF StreamOk, InStep
    <3> QED BY <3>6, <3>7, <3>8 DEF IInv
  <2>2. CASE ~ ReadAgain(rx)
    <3>1. /\ res' = Result(rx) /\ pending' = FALSE
          /\ msize' = IF call.op = "version" THEN Min({rx.msize, MaxMsg}) ELSE msize
          /\ dotu' = IF call.op = "version" THEN call.name = VersionU /\ rx.version = VersionU ELSE dotu
          /\ UNCHANGED <<tx, sent, said, buf, torn>>
      BY <1>1, <1>9, <2>2
    <3>2. res'.e \in Results
      BY <1>0, <3>1, ResultsAre
    <3>3. tx' = tx /\ sent' = sent /\ said' = said /\ buf' = buf /\ torn' = torn
      BY <3>1
    <3>4. CASE call.op = "version"
      <4>1. said.m.type = "Rversion" /\ rx.msize \in Numbers(BIT32SZ)
        BY <1>0, <2>0, <3>4, VersionAnswered
      <4>2. msize' \in 0 .. MaxMsg
        <5>1. rx.msize \in Nat
          BY <4>1, SmallIs
        <5>2. Min({rx.msize, MaxMsg}) \in 0 .. MaxMsg
          BY <1>0, <5>1, MinIs
        <5> QED BY <3>1, <3>4, <5>2
      <4>3. dotu' \in BOOLEAN
        BY <3>1, <3>4
      <4>4. TxOk'
        <5>1. TxFor(call, tx, msize, dotu)
          BY <1>0, AskedIs
        <5>2. TxFor(call, tx, msize', dotu')
          BY <3>4, <5>1, TxForAny
        <5>3. TxFor(call', tx', msize', dotu')
          BY Zenon, <1>6, <3>3, <5>2
        <5> HIDE DEF TxFor
        <5> QED BY <1>0, <1>6, <5>3 DEF TxOk
      <4>5. AnswerOk'
        <5>1. AnswerFor(tx, said.m) /\ said.how \in Ways /\ said # Nothing
          <6>1. AnswerFor(tx, said.m)
            BY <1>0, <2>0, GoesOn
          <6>2. said # Nothing
            <7>1. Nothing.m.type = "none"
              BY DEF Nothing, NoFcall
            <7> QED BY <4>1, <7>1
          <6> QED BY <6>1, <6>2 DEF IInv, AnswerOk
        <5>2. said'.m = said.m /\ said'.m.type = "Rversion" /\ said'.how = said.how
          BY <3>3, <4>1
        <5>3. said.m.type # "Rstat"
          BY <4>1
        <5>4. (AnswerFor(tx, said.m))'
          BY Zenon, <3>3, <5>1, <5>3 DEF AnswerFor
        <5> QED BY <1>0, <3>3, <5>1, <5>4 DEF AnswerOk
      <4> HIDE DEF Results
      <4> QED BY <1>7, <3>1, <3>2, <3>3, <4>2, <4>3, <4>4, <4>5
    <3>5. CASE call.op # "version"
      <4>1. msize' = msize /\ dotu' = dotu
        BY <3>1, <3>5
      <4>2. TxOk' /\ AnswerOk'
        BY <1>6, <3>3, <4>1, TxSame, AnswerSame DEF IInv
      <4> HIDE DEF Results
      <4> QED BY <1>0, <1>7, <3>1, <3>2, <3>3, <4>1, <4>2
    <3> QED BY <3>4, <3>5
  <2> QED BY <2>1, <2>2
<1> QED BY <1>8, <1>9

LEMMA StuttersKeep == ASSUME IInv, UNCHANGED vars PROVE IInv'
<1>1. /\ msize' = msize /\ dotu' = dotu /\ call' = call /\ pending' = pending /\ tx' = tx /\ sent' = sent
      /\ said' = said /\ wire' = wire /\ coming' = coming /\ torn' = torn /\ listing' = listing
      /\ buf' = buf /\ res' = res /\ calls' = calls
  BY DEF vars, nmp, stream
<1>2. Shape'
  BY <1>1 DEF IInv, Shape
<1>3. TxOk' /\ AnswerOk'
  BY <1>1, TxSame, AnswerSame DEF IInv
<1>4. SentOk'
  <2>1. SentOk
    BY DEF IInv
  <2> QED BY Zenon, <1>1, <2>1 DEF SentOk
<1>5. StreamOk'
  <2>1. StreamOk
    BY DEF IInv
  <2> QED BY Zenon, <1>1, <2>1 DEF StreamOk, InStep, OutOfStep, Spoken, OnWire, WithSize
<1> QED BY <1>2, <1>3, <1>4, <1>5 DEF IInv

THEOREM Invariant == Spec => []IInv
<1>1. Init => IInv
  BY InitOk
<1>2. IInv /\ [Next]_vars => IInv'
  <2> SUFFICES ASSUME IInv, [Next]_vars PROVE IInv'
    OBVIOUS
  <2> HIDE DEF IInv
  <2>1. CASE \E c \in Calls : Call(c)
    BY <2>1, CallKeeps
  <2>2. CASE ClunkNofid
    BY <2>2, ClunkNofidKeeps
  <2>3. CASE Answer
    BY <2>3, AnswerKeeps
  <2>4. CASE Arrive
    BY <2>4, ArriveKeeps
  <2>5. CASE Receive
    BY <2>5, ReceiveKeeps
  <2>6. CASE ReceiveNoMem
    BY <2>6, ReceiveNoMemKeeps
  <2>7. CASE ReceiveFails
    BY <2>7, ReceiveFailsKeeps
  <2>8. CASE UNCHANGED vars
    BY <2>8, StuttersKeep
  <2> QED BY <2>1, <2>2, <2>3, <2>4, <2>5, <2>6, <2>7, <2>8 DEF Next
<1> QED BY <1>1, <1>2, PTL DEF Spec

-----------------------------------------------------------------------------
(* What the invariant says of the properties.                              *)

LEMMA TypesOk == IInv => TypeOK
<1> SUFFICES ASSUME IInv PROVE TypeOK
  OBVIOUS
<1>1. tx.type \in ToSet(MsgTypes) \cup {"none"}
  <2>1. CASE tx = NoFcall
    BY <2>1 DEF NoFcall
  <2>2. CASE tx # NoFcall
    <3>1. tx.type \in Ts
      BY <2>2 DEF IInv, TxOk, TxFor
    <3>2. PICK i \in 1 .. 28 : MsgTypes[i] = tx.type
      BY <3>1, TypesMember
    <3>3. DOMAIN MsgTypes = 1 .. 28
      BY TypesAre
    <3> HIDE DEF MsgTypes
    <3> QED BY <3>2, <3>3 DEF ToSet
  <2> QED BY <2>1, <2>2
<1>2. \A b \in {sent, wire, coming, listing, buf} : b \in Seq(0 .. Byte - 1)
  <2>1. Buffers = Seq(0 .. Byte - 1)
    BY ByteIs DEF Buffers
  <2> QED BY <2>1 DEF IInv, Shape
<1> QED BY <1>1, <1>2 DEF TypeOK, IInv, Shape, Results

LEMMA Aligned == IInv => StreamAligned
BY DEF IInv, StreamOk, InStep, StreamAligned

LEMMA WriteSize ==
    ASSUME NEW f, f.type = "Twrite", NEW u, Len(f.data) \in Nat
    PROVE  SizeS2M(f, u) = 23 + Len(f.data)
<1>1. IsT(f.type)
  BY RequestsAre
<1>2. SizeT(f, u) = 2 * BIT32SZ + BIT64SZ + Len(f.data)
  BY DEF SizeT
<1>3. SizeS2M(f, u) = HDRSZ + SizeT(f, u)
  BY <1>1 DEF SizeS2M
<1> QED BY <1>2, <1>3, BitsAre

LEMMA Fit == IInv => TransfersFit
<1> SUFFICES ASSUME IInv, msize >= IOHDRSZ
             PROVE  /\ pending /\ tx.type = "Tread" => HDRSZ + BIT32SZ + tx.count <= msize
                    /\ tx.type = "Twrite" => sent # <<>>
  BY DEF TransfersFit
<1>0. msize \in Nat /\ msize >= 24 /\ dotu \in BOOLEAN
  BY SizesFit DEF IInv, Shape, IOHDRSZ
<1>1. ASSUME pending, tx.type = "Tread" PROVE HDRSZ + BIT32SZ + tx.count <= msize
  <2>1. tx.count \in Numbers(BIT32SZ) /\ tx.count <= msize - 24
    BY <1>1, AskedIs DEF TxFor, IOHDRSZ
  <2>2. tx.count \in Nat
    BY <2>1, SmallIs
  <2> QED BY <1>0, <2>1, <2>2, BitsAre
<1>2. ASSUME tx.type = "Twrite", sent = <<>> PROVE FALSE
  <2>1. tx # NoFcall
    BY <1>2 DEF NoFcall
  <2>2. TxFor(call, tx, msize, dotu)
    BY <2>1 DEF IInv, TxOk
  <2>3. Len(tx.data) <= msize - 24 /\ MsgOk(tx, dotu)
    BY <1>0, <1>2, <2>2 DEF TxFor, IOHDRSZ
  <2>4. SizeS2M(tx, dotu) > msize
    BY <1>2, <2>1 DEF IInv, SentOk
  <2>5. Len(tx.data) \in Nat
    <3>1. tx.data \in Counted(BIT32SZ)
      <4> DEFINE d1 == <<"fid", "u32">>
                 d2 == <<"offset", "u64">>
                 d3 == <<"data", "data">>
      <4>1. MsgFields(tx.type, dotu) = Fields3(d1, d2, d3)
        <5>1. IsT(tx.type)
          BY <1>2, RequestsAre
        <5>2. GetT(tx.type, dotu) = Fields3(d1, d2, d3)
          BY Zenon, <1>2 DEF GetT, Fields3
        <5> QED BY Zenon, <5>1, <5>2 DEF MsgFields
      <4>2. d1 \in FieldType /\ d2 \in FieldType /\ d3 \in FieldType
        BY DEF FieldType, FieldNames, Kinds
      <4>3. FieldOk(tx, d3)
        <5> HIDE DEF d1, d2, d3
        <5> QED BY <2>3, <4>1, <4>2, Typed3 DEF MsgOk
      <4> QED BY <4>3 DEF FieldOk, Meant
    <3> QED BY <3>1, BufferLens DEF Counted
  <2>6. SizeS2M(tx, dotu) = 23 + Len(tx.data)
    BY <1>2, <2>5, WriteSize
  <2> QED BY <1>0, <2>3, <2>4, <2>5, <2>6
<1> QED BY <1>1, <1>2

(* The fields that only 9P2000.u has.                                      *)
LEMMA OnlyOptional ==
    ASSUME NEW t \in Ts, NEW u \in BOOLEAN
    PROVE  /\ FieldsOf(t, TRUE) \ FieldsOf(t, u) \subseteq Optional
           /\ u => FieldsOf(t, u) = FieldsOf(t, TRUE)
           /\ FieldsOf(t, u) \subseteq FieldsOf(t, TRUE)
<1>0. u => FieldsOf(t, u) = FieldsOf(t, TRUE)
  BY Zenon
<1>1. CASE t = "Tversion"
  BY <1>0, <1>1, FieldsOfTversion
<1>2. CASE t = "Tauth"
  BY <1>0, <1>2, FieldsOfTauth DEF Optional
<1>3. CASE t = "Tattach"
  BY <1>0, <1>3, FieldsOfTattach DEF Optional
<1>4. CASE t = "Tflush"
  BY <1>0, <1>4, FieldsOfTflush
<1>5. CASE t = "Twalk"
  BY <1>0, <1>5, FieldsOfTwalk
<1>6. CASE t = "Topen"
  BY <1>0, <1>6, FieldsOfTopen
<1>7. CASE t = "Tcreate"
  BY <1>0, <1>7, FieldsOfTcreate DEF Optional
<1>8. CASE t = "Tread"
  BY <1>0, <1>8, FieldsOfTread
<1>9. CASE t = "Twrite"
  BY <1>0, <1>9, FieldsOfTwrite
<1>a. CASE t \in {"Tclunk", "Tremove", "Tstat"}
  BY <1>0, <1>a, FieldsOfTclunk
<1>b. CASE t = "Twstat"
  BY <1>0, <1>b, FieldsOfTwstat
<1> QED BY <1>1, <1>2, <1>3, <1>4, <1>5, <1>6, <1>7, <1>8, <1>9, <1>a, <1>b DEF Ts

LEMMA NameWritten ==
    ASSUME NEW d, DirOk(d), NEW u \in BOOLEAN
    PROVE  "name" \in NamesIn(DirFields(u))
<1> DEFINE a == StatFixed
           b == StatStrings(u)
           c == StatNumbers(u)
<1>2. a \in Seq(FieldType)
  <2>1. 0 \in Numbers(BIT16SZ)
    BY SmallIs
  <2> QED BY <2>1, FixedEncoding
<1>3. b \in Seq(FieldType) /\ Len(b) >= 4 /\ b[1][1] = "name"
  BY StatStringsAre
<1>4. c \in Seq(FieldType)
  <2>1. CASE u
    <3>1. 0 \in Numbers(BIT16SZ)
      BY SmallIs
    <3>2. StatNumbers(TRUE) \in Seq(FieldType)
      BY <3>1, IdsEncodingU
    <3>3. u = TRUE
      BY <2>1
    <3> QED BY Zenon, <3>2, <3>3
  <2>2. CASE ~u
    <3>1. StatNumbers(u) = <<>>
      BY Zenon, <2>2 DEF StatNumbers, IfU
    <3> QED BY <3>1
  <2> QED BY <2>1, <2>2
<1>5. DirFields(u) = (a \o b) \o c
  BY Zenon DEF DirFields
<1> HIDE DEF a, b, c
<1> DEFINE i == Len(a) + 1
<1>6. i \in DOMAIN DirFields(u) /\ DirFields(u)[i] = b[1]
  <2>1. a \o b \in Seq(FieldType) /\ Len(a \o b) = Len(a) + Len(b) /\ (a \o b)[i] = b[1]
    BY <1>2, <1>3
  <2> DEFINE ab == a \o b
  <2>2. Len(a) \in Nat /\ Len(b) \in Nat /\ Len(c) \in Nat
    BY <1>2, <1>3, <1>4
  <2>3. i \in 1 .. Len(ab)
    BY <1>3, <2>1, <2>2
  <2> HIDE DEF ab, i
  <2>4. ab \o c \in Seq(FieldType) /\ Len(ab \o c) = Len(ab) + Len(c) /\ (ab \o c)[i] = ab[i]
    BY <1>4, <2>1, <2>3 DEF ab
  <2> QED BY <1>5, <2>1, <2>2, <2>3, <2>4 DEF ab
<1> HIDE DEF i
<1> QED BY <1>3, <1>6 DEF NamesIn

(* The entry of a wstat is read with the name it was given.                *)
LEMMA RenameRead ==
    ASSUME NEW s \in Strings, NEW u \in BOOLEAN
    PROVE  LET b == StatBuf([Nulldir EXCEPT !.name = s], u)
               e == ConvM2D(b, u)
           IN e.n = Len(b) /\ e.f.name = s
<1> DEFINE d == [Nulldir EXCEPT !.name = s]
           n == SizeD2M(d, u)
           b == StatBuf(d, u)
           e == ConvM2D(b, u)
<1>1. DirOk(d) /\ n \in Numbers(BIT16SZ) /\ d.name = s
  BY RenamedOk DEF Renamed, Nulldir
<1>2. b = ConvD2M(d, n, u)
  BY DEF StatBuf
<1>3. Len(b) = n /\ e = Decoded(n, DirTaken(d, u))
  <2>1. /\ Len(ConvD2M(d, SizeD2M(d, u), u)) = SizeD2M(d, u)
        /\ ConvM2D(ConvD2M(d, SizeD2M(d, u), u), u) = Decoded(SizeD2M(d, u), DirTaken(d, u))
    <3> HIDE DEF d
    <3>1. SizeD2M(d, u) \in Numbers(BIT16SZ)
      BY <1>1
    <3> QED BY <1>1, <3>1, EntryRoundTrip
  <2> QED BY Zenon, <1>2, <2>1
<1>4. DirTaken(d, u).name = s
  <2>1. "name" \in NamesIn(DirFields(u))
    BY <1>1, NameWritten
  <2> DEFINE g == Sized(d, n - BIT16SZ)
             fs == DirFields(u)
  <2>2. DirTaken(d, u) = Taken(g, fs)
    BY Zenon DEF DirTaken
  <2>3. g["name"] = s
    <3>1. "name" \in DirNames
      BY DEF DirNames, StringNames
    <3> DEFINE k == n - BIT16SZ
    <3> HIDE DEF d, k
    <3> QED BY Zenon, <1>1, <3>1, SizedIs DEF k
  <2> HIDE DEF g, fs, d, n
  <2>4. Taken(g, fs)["name"] = g["name"]
    <3>1. "name" \in NamesIn(fs)
      BY <2>1 DEF fs
    <3> QED BY <3>1 DEF Taken, NamesIn
  <2> QED BY <2>2, <2>3, <2>4
<1> HIDE DEF b, e, n, d
<1>5. e.n = n /\ e.f = DirTaken(d, u)
  BY <1>3 DEF Decoded
<1> QED BY <1>3, <1>4, <1>5 DEF b, e, d
LEMMA Understood == IInv => RequestUnderstood
<1> SUFFICES ASSUME IInv PROVE RequestUnderstood
  OBVIOUS
<1> DEFINE Reads(q) ==
             /\ q.n = Len(sent)
             /\ \A x \in DOMAIN q.f : q.f[x] = tx[x]
             /\ DOMAIN tx \ DOMAIN q.f \subseteq Optional
             /\ dotu => Optional \cap DOMAIN tx \subseteq DOMAIN q.f
             /\ tx.type = "Twstat" =>
                   \E s \in {ConvM2D(tx.stat, dotu)} : s.n = Len(tx.stat) /\ s.f.name = call.name
<1>1. ASSUME pending PROVE Reads(ConvM2S(sent, dotu))
  <2> DEFINE f == MsgTaken(tx, dotu)
             q == ConvM2S(sent, dotu)
  <2>1. /\ q = Decoded(Len(sent), f) /\ tx.type \in Ts
        /\ call \in Calls /\ TxFor(call, tx, msize, dotu) /\ dotu \in BOOLEAN
    BY <1>1, AskedIs DEF IInv, Shape
  <2>2. DOMAIN f = FieldsOf(tx.type, dotu) /\ (\A x \in FieldsOf(tx.type, dotu) : f[x] = tx[x])
    BY TakenFields
  <2>3. DOMAIN tx = FieldsOf(tx.type, TRUE)
    BY <2>1 DEF TxFor
  <2>4. /\ FieldsOf(tx.type, TRUE) \ FieldsOf(tx.type, dotu) \subseteq Optional
        /\ dotu => FieldsOf(tx.type, dotu) = FieldsOf(tx.type, TRUE)
    BY <2>1, OnlyOptional
  <2>5. ASSUME tx.type = "Twstat"
        PROVE  \E s \in {ConvM2D(tx.stat, dotu)} : s.n = Len(tx.stat) /\ s.f.name = call.name
    <3>1. call.op = "wstat"
      <4>1. call.op \in {"version", "auth", "attach", "walk", "create", "wstat", "clone", "open", "clunk",
                         "remove", "stat", "readdirs", "read", "write"}
        BY <2>1 DEF Calls
      <4>2. TypeFor(call, "Twstat")
        BY <2>1, <2>5 DEF TxFor
      <4> QED BY <4>1, <4>2 DEF TypeFor
    <3> DEFINE b == StatBuf([Nulldir EXCEPT !.name = call.name], dotu)
               e == ConvM2D(b, dotu)
    <3>2. tx.stat = b
      BY <2>1, <3>1 DEF TxFor
    <3>3. call.name \in Strings
      BY <2>1, <3>1 DEF Calls
    <3>4. e.n = Len(b) /\ e.f.name = call.name
      BY <2>1, <3>3, RenameRead
    <3> HIDE DEF b
    <3> QED BY <3>2, <3>4
  <2> HIDE DEF f, q
  <2>6. q.n = Len(sent) /\ q.f = f
    BY <2>1 DEF Decoded
  <2>7. Reads(q)
    BY <2>2, <2>3, <2>4, <2>5, <2>6
  <2> QED BY <2>7 DEF q
<1>2. tx # NoFcall /\ sent = <<>> => SizeS2M(tx, dotu) > msize
  BY DEF IInv, SentOk
<1>3. pending => \A q \in {ConvM2S(sent, dotu)} : Reads(q)
  <2> HIDE DEF Reads
  <2> QED BY <1>1
<1> QED BY <1>2, <1>3 DEF RequestUnderstood

-----------------------------------------------------------------------------
(* What a caller is told.                                                  *)

(* With the same size field an entry in 9P2000.u begins with the bytes it  *)
(* has in 9P2000.                                                          *)
LEMMA EntryGrows ==
    ASSUME NEW d, DirOk(d), NEW n \in Numbers(BIT16SZ)
    PROVE  \E r \in Buffers : DirBytes(d, n, TRUE) = Then(DirBytes(d, n, FALSE), r) /\ Len(r) >= 12 /\ Len(r) \in Nat
<1> DEFINE e == Sized(d, n)
           h == DirHead(d, n)
           y == Encoding(e, StatStrings(FALSE))
           x == Pstring(d.ext)
           i == DirIds(d)
<1>1. h \in Buffers
  <2>1. h = Encoding(e, StatFixed) /\ StatFixed \in Seq(FieldType) /\ WellTyped(e, StatFixed)
    BY Zenon, FixedEncoding DEF DirHead
  <2> HIDE DEF h, e
  <2> QED BY <2>1, EncodingIs
<1>2. y \in Buffers /\ Each(Pstring, StringsOf(d, FALSE)) = y
  <2>1. StatStrings(FALSE) \in Seq(FieldType) /\ WellTyped(e, StatStrings(FALSE))
    BY NamesEncoding
  <2>2. Each(Pstring, StringsOf(d, FALSE)) = y
    BY StringsEach
  <2> HIDE DEF e
  <2> QED BY <2>1, <2>2, EncodingIs
<1>3. x \in Buffers
  BY DirParts, StringBuffer DEF StringNames
<1>4. Each(Pstring, StringsOf(d, TRUE)) = Then(y, x)
  <2>1. Each(Pstring, StringsOf(d, TRUE)) = Encoding(e, StatStrings(TRUE))
    BY StringsEach
  <2>2. Encoding(e, StatStrings(TRUE)) = Then(y, x)
    BY Zenon, NamesEncoding, NamesEncodingU
  <2> QED BY Zenon, <2>1, <2>2
<1>5. i \in Buffers /\ Len(i) = 12
  <2>1. /\ StatNumbers(TRUE) \in Seq(FieldType) /\ WellTyped(e, StatNumbers(TRUE))
        /\ Encoding(e, StatNumbers(TRUE)) = IfU(TRUE, i) /\ Length(Encoding(e, StatNumbers(TRUE))) = 12
    BY DirIdsEncoding
  <2>2. IfU(TRUE, i) = i
    BY Zenon DEF IfU
  <2> DEFINE w == Encoding(e, StatNumbers(TRUE))
  <2>3. w = i /\ Length(w) = 12
    BY Zenon, <2>1, <2>2
  <2>4. w \in Buffers
    <3> HIDE DEF e
    <3> QED BY <2>1, EncodingIs
  <2> HIDE DEF w, i
  <2> QED BY <2>3, <2>4 DEF Length
<1>6. DirBytes(d, n, FALSE) = Then(h, y)
  <2>1. DirBytes(d, n, FALSE) = Then(Then(h, y), <<>>)
    BY Zenon, <1>2 DEF DirBytes, IfU
  <2>2. Then(h, y) \in Buffers
    <3> HIDE DEF h, y
    <3> QED BY <1>1, <1>2, ThenBuffer
  <2> QED BY Zenon, <2>1, <2>2, ThenEmpty
<1>7. DirBytes(d, n, TRUE) = Then(Then(h, Then(y, x)), i)
  BY Zenon, <1>4 DEF DirBytes, IfU
<1> HIDE DEF h, y, x, i
<1>8. Then(Then(h, Then(y, x)), i) = Then(Then(h, y), Then(x, i))
  <2>1. Then(h, Then(y, x)) = Then(Then(h, y), x)
    BY <1>1, <1>2, <1>3, ThenAssociative
  <2>2. Then(h, y) \in Buffers
    BY <1>1, <1>2, ThenBuffer
  <2>3. Then(Then(Then(h, y), x), i) = Then(Then(h, y), Then(x, i))
    BY <1>3, <1>5, <2>2, ThenAssociative
  <2> QED BY Zenon, <2>1, <2>3
<1>9. Then(x, i) \in Buffers /\ Len(Then(x, i)) >= 12 /\ Len(Then(x, i)) \in Nat
  <2>1. Then(x, i) \in Buffers /\ Len(Then(x, i)) = Len(x) + Len(i) /\ Len(x) \in Nat
    BY <1>3, <1>5, ThenBuffer, BufferIs
  <2> DEFINE a == Len(x)
             b == Len(Then(x, i))
  <2>2. a \in Nat /\ b = a + 12
    BY <1>5, <2>1
  <2> HIDE DEF a, b
  <2>3. b >= 12 /\ b \in Nat
    BY <2>2
  <2> QED BY <2>1, <2>3 DEF b
<1> QED BY <1>6, <1>7, <1>8, <1>9

(* An entry of which the end is lost is refused.                           *)
LEMMA EntryCut ==
    ASSUME NEW d, DirOk(d), NEW n \in Numbers(BIT16SZ), NEW u \in BOOLEAN,
           NEW t \in Buffers, Prefix(t, DirBytes(d, n, u)), Len(t) < Len(DirBytes(d, n, u))
    PROVE  ConvM2D(t, u) = Refused
<1> DEFINE e == Sized(d, n)
           fields == DirFields(u)
           m == DirBytes(d, n, u)
           g == GetAll(t, 0, fields)
<1>1. /\ fields \in Seq(FieldType) /\ WellTyped(e, fields) /\ Encoding(e, fields) = m /\ m \in Buffers
  BY DirEncoding
<1>2. Len(t) \in Nat /\ Len(m) \in Nat
  BY <1>1, BufferIs
<1>3. At(m, 0, m) /\ 0 \in 0 .. Len(t)
  <2> HIDE DEF m
  <2> QED BY <1>1, <1>2, AtSelf
<1>4. g.p = Nil
  <2>1. Prefix(t, m) /\ Len(t) < 0 + Len(m)
    <3> DEFINE k == Len(m)
    <3>1. k \in Nat /\ Len(t) < k
      BY <1>2
    <3> HIDE DEF k
    <3> QED BY <3>1 DEF k
  <2>2. At(m, 0, Encoding(e, fields)) /\ Len(t) < 0 + Len(Encoding(e, fields))
    BY Zenon, <1>1, <1>3, <2>1
  <2> HIDE DEF m, fields, e
  <2> QED BY <1>1, <1>3, <2>1, <2>2, CutRead
<1>5. ConvM2D(t, u) = IF g.p = Nil THEN Refused ELSE Decoded(g.p, g.v)
  BY Zenon DEF ConvM2D, DirFields
<1> QED BY Zenon, <1>4, <1>5

(* An entry with more behind it is read to its own end only.               *)
LEMMA EntryLong ==
    ASSUME NEW d, DirOk(d), NEW n \in Numbers(BIT16SZ), NEW u \in BOOLEAN, NEW r \in Buffers
    PROVE  ConvM2D(Then(DirBytes(d, n, u), r), u).n = Len(DirBytes(d, n, u))
<1> DEFINE e == Sized(d, n)
           fields == DirFields(u)
           m == DirBytes(d, n, u)
           t == Then(m, r)
           g == GetAll(t, 0, fields)
<1>1. /\ fields \in Seq(FieldType) /\ WellTyped(e, fields) /\ Encoding(e, fields) = m /\ m \in Buffers
  BY DirEncoding
<1>2. t \in Buffers /\ At(t, 0, m) /\ Len(m) \in Nat
  <2> HIDE DEF m
  <2>1. t \in Buffers /\ At(t, 0, t) /\ Len(t) \in Nat /\ Len(m) \in Nat
    BY <1>1, ThenBuffer, AtSelf, BufferIs
  <2>2. At(t, 0, m \o r)
    BY Zenon, <2>1 DEF Then
  <2> HIDE DEF t
  <2> QED BY <1>1, <2>1, <2>2, AtConcat
<1>3. g = Got(0 + Len(Encoding(e, fields)), Taken(e, fields))
  <2>1. At(t, 0, Encoding(e, fields))
    BY Zenon, <1>1, <1>2
  <2> HIDE DEF t, m, fields, e
  <2> QED BY <1>1, <1>2, <2>1, AllRead
<1>4. 0 + Len(Encoding(e, fields)) = Len(m)
  <2> HIDE DEF m, fields, e
  <2> QED BY <1>1, <1>2
<1>5. g.p = Len(m)
  <2> HIDE DEF g, fields, e, m
  <2> QED BY <1>3, <1>4 DEF Got
<1>6. ConvM2D(t, u) = IF g.p = Nil THEN Refused ELSE Decoded(g.p, g.v)
  BY Zenon DEF ConvM2D, DirFields
<1> HIDE DEF g, m, t
<1>7. ConvM2D(t, u).n = Len(m)
  BY <1>2, <1>5, <1>6 DEF Nil, Decoded
<1> QED BY <1>7 DEF m, t

(* An entry in the other dialect is read short of its end, or not at all.  *)
LEMMA EntryOther ==
    ASSUME NEW d, DirOk(d), NEW u \in BOOLEAN, NEW v \in BOOLEAN, u # v, SizeD2M(d, u) \in Numbers(BIT16SZ)
    PROVE  ConvM2D(StatBuf(d, u), v).n # Len(StatBuf(d, u))
<1> DEFINE n == SizeD2M(d, u) - BIT16SZ
           b == DirBytes(d, n, u)
           short == DirBytes(d, n, FALSE)
           whole == DirBytes(d, n, TRUE)
<1>1. n \in Numbers(BIT16SZ) /\ StatBuf(d, u) = b
  BY DirWritten DEF StatBuf
<1>2. StatBuf(d, u) \in Buffers /\ Len(StatBuf(d, u)) \in Nat /\ Len(StatBuf(d, u)) >= 49
  BY StatBufIs
<1> HIDE DEF n
<1>3. PICK r \in Buffers : whole = Then(short, r) /\ Len(r) >= 12 /\ Len(r) \in Nat
  BY <1>1, EntryGrows
<1>4. short \in Buffers
  BY <1>1, DirEncoding
<1>5. Prefix(short, whole) /\ Len(whole) = Len(short) + Len(r) /\ Len(short) \in Nat
  <2> HIDE DEF short, whole
  <2> QED BY <1>3, <1>4, PrefixOfThen, BufferIs
<1>6. Len(short) < Len(whole)
  <2> DEFINE x == Len(short)
             y == Len(whole)
             z == Len(r)
  <2>1. x \in Nat /\ z \in Nat /\ z >= 12 /\ y = x + z
    BY <1>3, <1>5
  <2> HIDE DEF x, y, z
  <2>2. x < y
    BY <2>1
  <2> QED BY <2>2 DEF x, y
<1>7. CASE v
  <2>1. u = FALSE /\ v = TRUE
    BY <1>7
  <2>2. ConvM2D(short, TRUE) = Refused
    BY <1>1, <1>4, <1>5, <1>6, EntryCut
  <2>3. ConvM2D(StatBuf(d, u), v) = Refused
    BY Zenon, <1>1, <2>1, <2>2
  <2>4. Refused.n = 0
    BY DEF Refused, Decoded
  <2> HIDE DEF short, whole, b
  <2> QED BY <1>2, <2>3, <2>4
<1>8. CASE ~ v
  <2>1. u = TRUE /\ v = FALSE
    BY <1>8
  <2>2. ConvM2D(Then(short, r), FALSE).n = Len(short)
    BY <1>1, <1>3, EntryLong
  <2>3. ConvM2D(StatBuf(d, u), v).n = Len(short) /\ Len(StatBuf(d, u)) = Len(whole)
    BY Zenon, <1>1, <1>3, <2>1, <2>2
  <2> DEFINE x == Len(short)
             y == Len(whole)
  <2>4. x < y /\ x \in Nat /\ y \in Nat
    <3>1. Len(whole) \in Nat
      BY Zenon, <1>2, <2>3
    <3> QED BY <1>5, <1>6, <3>1
  <2> HIDE DEF x, y
  <2>5. x # y
    BY <2>4
  <2> QED BY <2>3, <2>5 DEF x, y
<1> QED BY <1>7, <1>8

(* The names of the fields of an entry.                                    *)
LEMMA NamesOfCat ==
    ASSUME NEW a \in Seq(FieldType), NEW b \in Seq(FieldType)
    PROVE  a \o b \in Seq(FieldType) /\ NamesIn(a \o b) = NamesIn(a) \cup NamesIn(b)
<1> DEFINE c == a \o b
           n == Len(a)
           k == Len(b)
<1>1. n \in Nat /\ k \in Nat /\ DOMAIN a = 1 .. n /\ DOMAIN b = 1 .. k
  BY LenProperties
<1>2. /\ c \in Seq(FieldType) /\ Len(c) = n + k
      /\ \A i \in 1 .. n + k : c[i] = IF i <= n THEN a[i] ELSE b[i - n]
  BY ConcatProperties
<1>3. DOMAIN c = 1 .. n + k
  <2> HIDE DEF c, n, k
  <2> QED BY <1>2, LenProperties
<1> HIDE DEF c, n, k
<1>4. ASSUME NEW i \in 1 .. n + k PROVE c[i][1] \in NamesIn(a) \cup NamesIn(b)
  <2>1. CASE i <= n
    <3>1. i \in DOMAIN a /\ c[i] = a[i]
      BY <1>1, <1>2, <2>1
    <3> QED BY <3>1 DEF NamesIn
  <2>2. CASE ~ (i <= n)
    <3>1. i - n \in DOMAIN b /\ c[i] = b[i - n]
      BY <1>1, <1>2, <2>2
    <3> QED BY <3>1 DEF NamesIn
  <2> QED BY <2>1, <2>2
<1>5. ASSUME NEW i \in 1 .. n PROVE a[i][1] \in NamesIn(c)
  <2>1. i \in DOMAIN c /\ c[i] = a[i]
    BY <1>1, <1>2, <1>3
  <2> QED BY <2>1 DEF NamesIn
<1>6. ASSUME NEW i \in 1 .. k PROVE b[i][1] \in NamesIn(c)
  <2> DEFINE j == n + i
  <2>1. j \in 1 .. n + k /\ j - n = i /\ ~ (j <= n)
    BY <1>1
  <2> HIDE DEF j
  <2>2. j \in DOMAIN c /\ c[j] = b[i]
    BY <1>2, <1>3, <2>1
  <2> QED BY <2>2 DEF NamesIn
<1>7. NamesIn(c) = NamesIn(a) \cup NamesIn(b)
  <2>1. NamesIn(c) \subseteq NamesIn(a) \cup NamesIn(b)
    BY <1>3, <1>4 DEF NamesIn
  <2>2. NamesIn(a) \subseteq NamesIn(c)
    BY <1>1, <1>5 DEF NamesIn
  <2>3. NamesIn(b) \subseteq NamesIn(c)
    BY <1>1, <1>6 DEF NamesIn
  <2> QED BY <2>1, <2>2, <2>3
<1> QED BY <1>2, <1>7 DEF c

LEMMA FixedNamesAre ==
    ASSUME NEW d, DirOk(d)
    PROVE  StatFixed \in Seq(FieldType) /\ NamesIn(StatFixed) \subseteq DirNames \cup {"size"}
<1> DEFINE s == StatFixed
<1>1. Len(s) = 8 /\ DOMAIN s = 1 .. 8
  BY DEF StatFixed
<1>2. /\ s[1] = <<"size", "u16">> /\ s[2] = <<"dtype", "u16">> /\ s[3] = <<"dev", "u32">> /\ s[4] = <<"qid", "qid">>
      /\ s[5] = <<"mode", "u32">> /\ s[6] = <<"atime", "u32">> /\ s[7] = <<"mtime", "u32">> /\ s[8] = <<"length", "u64">>
  BY DEF StatFixed
<1>3. s \in Seq(FieldType)
  <2>1. 0 \in Numbers(BIT16SZ)
    BY SmallIs
  <2> QED BY <2>1, FixedEncoding
<1> HIDE DEF s
<1>4. \A i \in 1 .. 8 : s[i][1] \in DirNames \cup {"size"}
  BY <1>2 DEF DirNames, FixedNames
<1>5. NamesIn(s) \subseteq DirNames \cup {"size"}
  BY <1>1, <1>4 DEF NamesIn
<1> QED BY <1>3, <1>5 DEF s

LEMMA NumberNamesAre ==
    \A u \in BOOLEAN : StatNumbers(u) \in Seq(FieldType) /\ NamesIn(StatNumbers(u)) \subseteq DirNames
<1> TAKE u \in BOOLEAN
<1> DEFINE d1 == <<"uidnum", "u32">>
           d2 == <<"gidnum", "u32">>
           d3 == <<"muidnum", "u32">>
<1>1. CASE u
  <2>1. StatNumbers(u) = Fields3(d1, d2, d3)
    BY Zenon, <1>1 DEF StatNumbers, IfU, Fields3
  <2>2. d1 \in FieldType /\ d2 \in FieldType /\ d3 \in FieldType
    BY DEF FieldType, FieldNames, Kinds
  <2>3. NamesIn(Fields3(d1, d2, d3)) = {d1[1], d2[1], d3[1]}
    <3> HIDE DEF d1, d2, d3
    <3> QED BY NamesOf3
  <2>4. Fields3(d1, d2, d3) \in Seq(FieldType)
    <3> HIDE DEF d1, d2, d3
    <3> QED BY <2>2 DEF Fields3
  <2> QED BY <2>1, <2>3, <2>4 DEF DirNames, NumberNames
<1>2. CASE ~ u
  <2>1. StatNumbers(u) = <<>>
    BY Zenon, <1>2 DEF StatNumbers, IfU
  <2>2. NamesIn(<<>>) = {} /\ <<>> \in Seq(FieldType)
    BY DEF NamesIn
  <2> QED BY <2>1, <2>2
<1> QED BY <1>1, <1>2

LEMMA EntryNames ==
    ASSUME NEW d, DirOk(d), NEW u \in BOOLEAN
    PROVE  NamesIn(DirFields(u)) \subseteq DirNames \cup {"size"}
<1> DEFINE a == StatFixed
           b == StatStrings(u)
           c == StatNumbers(u)
<1>1. a \in Seq(FieldType) /\ NamesIn(a) \subseteq DirNames \cup {"size"}
  BY FixedNamesAre
<1>2. b \in Seq(FieldType) /\ NamesIn(b) \subseteq DirNames
  <2>1. b \in Seq(FieldType) /\ \A i \in 1 .. Len(b) : b[i][1] \in StringNames
    BY StatStringsAre
  <2>2. DOMAIN b = 1 .. Len(b)
    BY <2>1, LenProperties
  <2> HIDE DEF b
  <2> QED BY <2>1, <2>2 DEF NamesIn, DirNames
<1>3. c \in Seq(FieldType) /\ NamesIn(c) \subseteq DirNames
  BY NumberNamesAre
<1>4. DirFields(u) = (a \o b) \o c
  BY Zenon DEF DirFields
<1> HIDE DEF a, b, c
<1>5. a \o b \in Seq(FieldType) /\ NamesIn(a \o b) = NamesIn(a) \cup NamesIn(b)
  BY <1>1, <1>2, NamesOfCat
<1> DEFINE ab == a \o b
<1> HIDE DEF ab
<1>6. NamesIn(ab \o c) = NamesIn(ab) \cup NamesIn(c)
  BY <1>3, <1>5, NamesOfCat DEF ab
<1>7. DirFields(u) = ab \o c /\ NamesIn(ab) = NamesIn(a) \cup NamesIn(b)
  BY Zenon, <1>4, <1>5 DEF ab
<1> QED BY <1>1, <1>2, <1>3, <1>6, <1>7

(* What is taken of an entry are its fields.                               *)
LEMMA TakenSame ==
    ASSUME NEW d, DirOk(d), NEW u \in BOOLEAN
    PROVE  SameEntry(DirTaken(d, u), d)
<1> DEFINE g == Sized(d, SizeD2M(d, u) - BIT16SZ)
           fs == DirFields(u)
           t == Taken(g, fs)
<1>1. DirTaken(d, u) = t
  BY Zenon DEF DirTaken
<1>2. DOMAIN t = NamesIn(fs) /\ \A x \in NamesIn(fs) : t[x] = g[x]
  BY DEF Taken, NamesIn
<1>3. NamesIn(fs) \subseteq DirNames \cup {"size"}
  BY EntryNames
<1>4. \A x \in DirNames : g[x] = d[x]
  <2> DEFINE k == SizeD2M(d, u) - BIT16SZ
  <2> HIDE DEF k
  <2> QED BY Zenon, SizedIs DEF k
<1> HIDE DEF t, g, fs
<1>5. \A x \in DOMAIN t \ {"size"} : t[x] = d[x]
  BY <1>2, <1>3, <1>4
<1> QED BY Zenon, <1>1, <1>5 DEF SameEntry

(* What stat_9p accepts is the entry, whole and in the dialect spoken.     *)
LEMMA StatAnswered ==
    ASSUME dotu \in BOOLEAN, NEW d \in Entries, NEW s \in StatsOf(d), ConvM2D(s, dotu).n = Len(s)
    PROVE  s = StatBuf(d, dotu) /\ SameEntry(ConvM2D(s, dotu).f, d)
<1> DEFINE w == StatBuf(d, dotu)
           x == StatBuf(d, ~ dotu)
           c == SubSeq(w, 1, Len(w) - 1)
           n == SizeD2M(d, dotu)
<1>0. DirOk(d) /\ \A u \in BOOLEAN : SizeD2M(d, u) \in Numbers(BIT16SZ)
  BY EntriesOk
<1>1. StatsOf(d) = {x} \cup {w, c}
  BY Zenon DEF StatsOf
<1>2. w \in Buffers /\ Len(w) \in Nat /\ Len(w) >= 49
  BY <1>0, StatBufIs
<1>3. s # x
  <2>1. (~ dotu) \in BOOLEAN /\ (~ dotu) # dotu
    OBVIOUS
  <2>2. ConvM2D(x, dotu).n # Len(x)
    BY <1>0, <2>1, EntryOther
  <2> HIDE DEF x
  <2> QED BY <2>2
<1>4. s # c
  <2> SUFFICES ASSUME s = c PROVE FALSE
    OBVIOUS
  <2>1. n - BIT16SZ \in Numbers(BIT16SZ) /\ w = DirBytes(d, n - BIT16SZ, dotu)
    BY <1>0, DirWritten DEF StatBuf
  <2> HIDE DEF w, n
  <2>2. c \in Buffers /\ Len(c) = Len(w) - 1 /\ \A i \in 1 .. Len(c) : c[i] = w[i]
    <3>1. c \in Buffers /\ Len(c) = Len(w) - 1
      BY <1>2, SubSeqBuffer
    <3>2. \A i \in 1 .. Len(w) - 1 : c[i] = w[i]
      <4>1. w \in Seq(Numbers(BIT8SZ))
        BY <1>2 DEF Buffers
      <4> HIDE DEF Numbers
      <4> QED BY <1>2, <4>1
    <3> HIDE DEF c
    <3> QED BY <3>1, <3>2
  <2> HIDE DEF c
  <2>3. Prefix(c, w) /\ Len(c) < Len(w) /\ Len(c) # 0
    BY <1>2, <2>2 DEF Prefix
  <2>4. ConvM2D(c, dotu) = Refused
    BY <1>0, <2>1, <2>2, <2>3, EntryCut
  <2>5. Refused.n = 0
    BY DEF Refused, Decoded
  <2> QED BY <2>3, <2>4, <2>5
<1>5. s = w
  <2> HIDE DEF w, x, c
  <2> QED BY <1>1, <1>3, <1>4
<1>6. ConvM2D(w, dotu) = Decoded(n, DirTaken(d, dotu))
  <2>1. w = ConvD2M(d, n, dotu)
    BY DEF StatBuf
  <2>2. ConvM2D(ConvD2M(d, n, dotu), dotu) = Decoded(n, DirTaken(d, dotu))
    BY <1>0, EntryRoundTrip
  <2> QED BY Zenon, <2>1, <2>2
<1>7. SameEntry(DirTaken(d, dotu), d)
  BY <1>0, TakenSame
<1>8. ConvM2D(s, dotu).f = DirTaken(d, dotu)
  <2>1. Decoded(n, DirTaken(d, dotu)).f = DirTaken(d, dotu)
    BY DEF Decoded
  <2> QED BY Zenon, <1>5, <1>6, <2>1
<1> QED BY Zenon, <1>5, <1>7, <1>8

(* What a call returns, v, by the answer m to the request t in dialect u.  *)
Tells(v, c, m, t, u) ==
    /\ c.op = "version" => v = m.version
    /\ c.op = "auth" => v = t.afid
    /\ c.op = "attach" => v = m.qid
    /\ c.op = "walk" => v = m.wqid[1]
    /\ c.op = "clone" => v = IF m.wqid = <<>> THEN ZeroQid ELSE m.wqid[1]
    /\ c.op \in {"open", "create"} => v = <<m.qid, m.iounit>>
    /\ c.op = "read" => IsPrefix(v, m.data) /\ Len(v) = Min({c.count, Len(m.data), t.count})
    /\ c.op = "write" => v = m.count
    /\ c.op = "stat" => \E d \in Entries : m.stat = StatBuf(d, u) /\ SameEntry(v, d)

OpsAre(c) == c.op \in {"version", "auth", "attach", "walk", "create", "wstat", "clone", "open", "clunk",
                       "remove", "stat", "readdirs", "read", "write"}

LEMMA CallOps == \A c \in Calls : OpsAre(c)
BY DEF Calls, OpsAre

LEMMA LeastOfThree ==
    ASSUME NEW a \in Int, NEW b \in Int, NEW c \in Int, c <= a
    PROVE  Min({a, b, c}) = Min({b, c})
<1> DEFINE m == IF b <= c THEN b ELSE c
           S == {a, b, c}
<1>1. m \in S /\ \A y \in S : m <= y
  OBVIOUS
<1>2. \A x \in S : (\A y \in S : x <= y) => x = m
  OBVIOUS
<1> HIDE DEF m, S
<1>3. Min(S) = m
  BY <1>1, <1>2 DEF Min
<1>4. Min({b, c}) = m
  BY MinIs DEF m
<1> QED BY <1>3, <1>4 DEF S

LEMMA PrefixTaken ==
    ASSUME NEW b \in Buffers, NEW k \in Nat, k <= Len(b)
    PROVE  IsPrefix(SubSeq(b, 1, k), b) /\ Len(SubSeq(b, 1, k)) = k
<1> DEFINE s == SubSeq(b, 1, k)
<1>1. Len(b) \in Nat
  BY BufferLens
<1>2. s \in Buffers /\ Len(s) = k
  BY <1>1, SubSeqBuffer
<1>3. \A i \in 1 .. k : s[i] = b[i]
  <2>1. b \in Seq(Numbers(BIT8SZ))
    BY DEF Buffers
  <2> HIDE DEF Numbers
  <2> QED BY <1>1, <2>1
<1> HIDE DEF s
<1>4. SubSeq(s, 1, Len(s)) = SubSeq(b, 1, Len(s))
  <2>1. s \in Seq(Numbers(BIT8SZ))
    BY <1>2 DEF Buffers
  <2>2. SubSeq(s, 1, Len(s)) = s
    <3> HIDE DEF Numbers
    <3> QED BY <2>1
  <2> QED BY <1>2, <2>2 DEF s
<1>5. IsPrefix(s, b)
  BY <1>1, <1>2, <1>4 DEF IsPrefix
<1> QED BY <1>2, <1>5 DEF s

(* What the caller is told when the reply to its request has come.         *)
LEMMA ToldBy ==
    ASSUME IInv, pending, NEW rx, Result(rx).e = "0",
           AnswerFor(tx, said.m), said.m.type = ReplyType(tx.type),
           \A x \in FieldsOf(said.m.type, dotu) : rx[x] = said.m[x],
           DOMAIN rx = FieldsOf(said.m.type, dotu)
    PROVE  Tells(Result(rx).v, call, said.m, tx, dotu)
<1> DEFINE v == Result(rx).v
           m == said.m
<1>0. dotu \in BOOLEAN /\ call \in Calls /\ TxFor(call, tx, msize, dotu) /\ OpsAre(call)
  BY AskedIs, CallOps DEF IInv, Shape
<1>t. TypeFor(call, tx.type)
  BY <1>0 DEF TxFor
<1>1. ASSUME call.op = "version" PROVE v = m.version
  <2>1. m.type = "Rversion"
    BY <1>1, <1>t, ReplyTypes DEF TypeFor
  <2>2. "version" \in FieldsOf(m.type, dotu)
    BY <1>0, <2>1, FieldsOfRversion
  <2>3. rx.version = m.version
    BY <2>2
  <2> QED BY <1>1, <2>3 DEF Result, Ret
<1>2. ASSUME call.op = "auth" PROVE v = tx.afid
  BY <1>2 DEF Result, Ret
<1>3. ASSUME call.op = "attach" PROVE v = m.qid
  <2>1. m.type = "Rattach"
    BY <1>3, <1>t, ReplyTypes DEF TypeFor
  <2>2. "qid" \in FieldsOf(m.type, dotu)
    BY <1>0, <2>1, FieldsOfRauth
  <2>3. Field(rx, "qid", ZeroQid) = m.qid
    BY <2>2 DEF Field
  <2> QED BY <1>3, <2>3 DEF Result, Ret
<1>4. ASSUME call.op \in {"walk", "clone"}
      PROVE  /\ Field(rx, "wqid", <<>>) = m.wqid
             /\ m.wqid = <<>> \/ \E i \in Qids : m.wqid = <<i>>
             /\ LastQid(rx) = IF m.wqid = <<>> THEN ZeroQid ELSE m.wqid[1]
  <2>1. m.type = "Rwalk"
    BY <1>4, <1>t, ReplyTypes DEF TypeFor
  <2>2. "wqid" \in FieldsOf(m.type, dotu)
    BY <1>0, <2>1, FieldsOfRwalk
  <2>3. Field(rx, "wqid", <<>>) = m.wqid
    BY <2>2 DEF Field
  <2>4. m.wqid = <<>> \/ \E i \in Qids : m.wqid = <<i>>
    BY <2>1 DEF AnswerFor
  <2>5. m.wqid = <<>> \/ Last(m.wqid) = m.wqid[1]
    <3> SUFFICES ASSUME m.wqid # <<>> PROVE Last(m.wqid) = m.wqid[1]
      OBVIOUS
    <3>1. PICK i \in Qids : m.wqid = <<i>>
      BY <2>4
    <3> DEFINE w == m.wqid
    <3>2. Len(w) = 1
      BY <3>1
    <3> HIDE DEF w
    <3>3. Last(w) = w[1]
      BY <3>2 DEF Last
    <3> QED BY <3>3 DEF w
  <2>6. LastQid(rx) = IF m.wqid = <<>> THEN ZeroQid ELSE Last(m.wqid)
    BY Zenon, <2>3 DEF LastQid
  <2> QED BY <2>3, <2>4, <2>5, <2>6
<1>5. ASSUME call.op = "walk" PROVE v = m.wqid[1]
  <2>1. /\ Field(rx, "wqid", <<>>) = m.wqid
        /\ LastQid(rx) = IF m.wqid = <<>> THEN ZeroQid ELSE m.wqid[1]
    BY <1>4, <1>5
  <2>2. Result(rx) = IF m.wqid = <<>> THEN Ret("ENOENT", Null) ELSE Ret("0", LastQid(rx))
    BY <1>5, <2>1 DEF Result
  <2>3. m.wqid # <<>>
    BY <2>2 DEF Ret
  <2> QED BY <2>1, <2>2, <2>3 DEF Ret
<1>6. ASSUME call.op = "clone" PROVE v = IF m.wqid = <<>> THEN ZeroQid ELSE m.wqid[1]
  <2>1. LastQid(rx) = IF m.wqid = <<>> THEN ZeroQid ELSE m.wqid[1]
    BY <1>4, <1>6
  <2>2. Result(rx) = Ret("0", LastQid(rx))
    BY <1>6 DEF Result
  <2> QED BY <2>1, <2>2 DEF Ret
<1>7. ASSUME call.op \in {"open", "create"} PROVE v = <<m.qid, m.iounit>>
  <2>1. m.type \in {"Ropen", "Rcreate"}
    BY <1>7, <1>t, ReplyTypes DEF TypeFor
  <2>2. "qid" \in FieldsOf(m.type, dotu) /\ "iounit" \in FieldsOf(m.type, dotu)
    BY <1>0, <2>1, FieldsOfRopen
  <2>3. Field(rx, "qid", ZeroQid) = m.qid /\ Field(rx, "iounit", 0) = m.iounit
    BY <2>2 DEF Field
  <2>4. Result(rx) = Ret("0", <<Field(rx, "qid", ZeroQid), Field(rx, "iounit", 0)>>)
    BY <1>7 DEF Result
  <2>5. v = <<Field(rx, "qid", ZeroQid), Field(rx, "iounit", 0)>>
    BY <2>4 DEF Ret
  <2> HIDE DEF v
  <2> QED BY <2>3, <2>5
<1>8. ASSUME call.op = "read" PROVE IsPrefix(v, m.data) /\ Len(v) = Min({call.count, Len(m.data), tx.count})
  <2>1. m.type = "Rread" /\ tx.type = "Tread"
    BY <1>8, <1>t, ReplyTypes DEF TypeFor
  <2>2. "data" \in FieldsOf(m.type, dotu)
    BY <1>0, <2>1, FieldsOfRread
  <2>3. Field(rx, "data", <<>>) = m.data
    BY <2>2 DEF Field
  <2>4. m.data \in Buffers /\ Len(m.data) \in Nat
    BY <2>1, BufferLens DEF AnswerFor
  <2>5. tx.count \in Nat /\ tx.count <= call.count /\ call.count \in Nat
    <3>1. tx.count \in Numbers(BIT32SZ) /\ tx.count <= call.count
      BY <1>0, <1>8, <2>1 DEF TxFor
    <3>2. call.count \in Counts
      BY <1>0, <1>8 DEF Calls
    <3>3. Counts \subseteq Numbers(BIT32SZ) /\ Numbers(BIT32SZ) \subseteq Nat
      BY RequestsAssumption, SmallIs
    <3> QED BY <3>1, <3>2, <3>3
  <2> DEFINE k == Min({Len(m.data), tx.count})
  <2>6. k \in Nat /\ k <= Len(m.data)
    BY <2>4, <2>5, MinIs
  <2>7. Min({call.count, Len(m.data), tx.count}) = k
    <3> DEFINE a == Len(m.data)
               b == tx.count
               c == call.count
    <3>1. a \in Int /\ b \in Int /\ c \in Int /\ b <= c
      BY <2>4, <2>5
    <3> HIDE DEF a, b, c
    <3>2. Min({c, a, b}) = Min({a, b})
      BY <3>1, LeastOfThree
    <3> QED BY Zenon, <3>2 DEF a, b, c
  <2>8. v = SubSeq(m.data, 1, k)
    <3>1. Result(rx) = LET d == Field(rx, "data", <<>>) IN Ret("0", SubSeq(d, 1, Min({Len(d), tx.count})))
      BY Zenon, <1>8 DEF Result
    <3>2. Result(rx) = Ret("0", SubSeq(m.data, 1, k))
      BY Zenon, <2>3, <3>1
    <3> DEFINE s == SubSeq(m.data, 1, k)
    <3>3. Result(rx) = Ret("0", s)
      BY Zenon, <3>2
    <3> HIDE DEF s
    <3>4. v = s
      BY <3>3 DEF Ret
    <3> QED BY Zenon, <3>4 DEF s
  <2> HIDE DEF k, v
  <2>9. IsPrefix(SubSeq(m.data, 1, k), m.data) /\ Len(SubSeq(m.data, 1, k)) = k
    BY <2>4, <2>6, PrefixTaken
  <2> QED BY Zenon, <2>7, <2>8, <2>9
<1>9. ASSUME call.op = "write" PROVE v = m.count
  <2>1. m.type = "Rwrite"
    BY <1>9, <1>t, ReplyTypes DEF TypeFor
  <2>2. "count" \in FieldsOf(m.type, dotu)
    BY <1>0, <2>1, FieldsOfRwrite
  <2>3. Field(rx, "count", 0) = m.count
    BY <2>2 DEF Field
  <2> QED BY <1>9, <2>3 DEF Result, Ret
<1>10. ASSUME call.op = "stat" PROVE \E d \in Entries : m.stat = StatBuf(d, dotu) /\ SameEntry(v, d)
  <2>1. m.type = "Rstat"
    BY <1>10, <1>t, ReplyTypes DEF TypeFor
  <2>2. "stat" \in FieldsOf(m.type, dotu)
    BY <1>0, <2>1, FieldsOfRstat
  <2>3. rx.stat = m.stat
    BY <2>2
  <2>4. PICK d \in Entries : m.stat \in StatsOf(d)
    BY <2>1 DEF AnswerFor
  <2> DEFINE q == ConvM2D(m.stat, dotu)
  <2>5. Result(rx) = IF q.n # Len(m.stat) THEN Ret("EBADRPC", Null) ELSE Ret("0", q.f)
    <3>1. Result(rx) = LET Read(e) == IF e.n # Len(rx.stat) THEN Ret("EBADRPC", Null) ELSE Ret("0", e.f)
                       IN Read(ConvM2D(rx.stat, dotu))
      BY Zenon, <1>10 DEF Result
    <3> QED BY Zenon, <2>3, <3>1
  <2> HIDE DEF q
  <2>6. q.n = Len(m.stat) /\ v = q.f
    BY <2>5 DEF Ret
  <2>7. m.stat = StatBuf(d, dotu) /\ SameEntry(q.f, d)
    BY <1>0, <2>4, <2>6, StatAnswered DEF q
  <2> HIDE DEF v, m
  <2> QED BY <2>6, <2>7
<1> HIDE DEF v, m
<1> QED BY <1>1, <1>2, <1>3, <1>5, <1>6, <1>7, <1>8, <1>9, <1>10 DEF Tells, v, m

(* The steps after which there is nothing to tell, or what was told.       *)
LEMMA NothingTold ==
    ASSUME pending' \/ res'.e # "0" \/ (call'.op = "auth" /\ res'.v = NOFID)
    PROVE  ResultFromReply'
BY DEF ResultFromReply

LEMMA SendTells ==
    ASSUME NEW c, NEW tag, SendTx(c, tag), call' = c
    PROVE  ResultFromReply'
<1>1. \/ Refuse(c, "EINVAL")
      \/ pending' = TRUE
      \/ \E e \in SendErrors : Refuse(c, e)
  BY Zenon DEF SendTx
<1>2. ASSUME NEW e \in SendErrors, Refuse(c, e) PROVE ResultFromReply'
  <2>1. res'.e # "0" \/ (c.op = "auth" /\ res'.v = NOFID)
    BY <1>2 DEF Refuse, Return, Ret, SendErrors
  <2> QED BY <2>1, NothingTold
<1>3. "EINVAL" \in SendErrors
  BY DEF SendErrors
<1>4. CASE pending' = TRUE
  BY <1>4, NothingTold
<1> QED BY Zenon, <1>1, <1>2, <1>3, <1>4

LEMMA ToldSame ==
    ASSUME ResultFromReply, call' = call, pending' = pending, said' = said,
           res' = res, tx' = tx, dotu' = dotu
    PROVE  ResultFromReply'
<1>1. (Told(call, said.m))' <=> Told(call, said.m)
  BY Zenon DEF Told
<1> QED BY Zenon, <1>1 DEF ResultFromReply

(* An error that becomes 0 says that there is none.                        *)
LEMMA NoErrorSaid ==
    ASSUME dotu \in BOOLEAN, NEW rx, NEW m, m.type = "Rerror", Errno(rx) = "0",
           \A x \in FieldsOf(m.type, dotu) : rx[x] = m[x]
    PROVE  m.ename = NoError /\ (dotu => m.errnum = 0)
<1>1. "ename" \in FieldsOf(m.type, dotu) /\ (dotu => "errnum" \in FieldsOf(m.type, dotu))
  BY FieldsOfRerror
<1>2. rx.ename = m.ename /\ (dotu => rx.errnum = m.errnum)
  BY <1>1
<1>3. Ename2errno(rx.ename) = "0" /\ (dotu => rx.errnum = 0)
  BY DEF Errno
<1>4. rx.ename = NoError
  BY <1>3 DEF Ename2errno
<1> QED BY <1>2, <1>3, <1>4

LEMMA ReceiveTells == ASSUME IInv, ResultFromReply, Receive PROVE ResultFromReply'
<1> DEFINE r == Recvmsg
<1>0. pending /\ Complete /\ dotu \in BOOLEAN /\ call \in Calls /\ OpsAre(call)
  <2>1. pending /\ Complete
    BY DEF Receive
  <2>2. dotu \in BOOLEAN /\ call \in Calls
    BY <2>1, AskedIs DEF IInv, Shape
  <2> QED BY <2>1, <2>2, CallOps
<1>1. PICK rx \in {r.rx}, e \in {IF r.e # "0" THEN r.e ELSE RpcError(r.rx)} :
       /\ wire' = Bytes(wire, r.used, Len(wire) - r.used)
       /\ IF e # "0"
          THEN /\ IF call.op = "auth" /\ rx.type = "Rerror" THEN Return("0", NOFID) ELSE Return(e, Null)
               /\ UNCHANGED <<nmp, tx, sent, said, buf, torn>>
          ELSE IF ReadAgain(rx)
          THEN /\ buf' = buf \o SubSeq(rx.data, 1, Min({Len(rx.data), tx.count}))
               /\ SendTx(call, tx.tag)
               /\ UNCHANGED nmp
          ELSE /\ res' = Result(rx) /\ pending' = FALSE
               /\ msize' = IF call.op = "version" THEN Min({rx.msize, MaxMsg}) ELSE msize
               /\ dotu' = IF call.op = "version" THEN call.name = VersionU /\ rx.version = VersionU ELSE dotu
               /\ UNCHANGED <<tx, sent, said, buf, torn>>
  <2>1. PICK q \in {r} :
          \E rx \in {q.rx}, e \in {IF q.e # "0" THEN q.e ELSE RpcError(q.rx)} :
             /\ wire' = Bytes(wire, q.used, Len(wire) - q.used)
             /\ IF e # "0"
                THEN /\ IF call.op = "auth" /\ rx.type = "Rerror" THEN Return("0", NOFID) ELSE Return(e, Null)
                     /\ UNCHANGED <<nmp, tx, sent, said, buf, torn>>
                ELSE IF ReadAgain(rx)
                THEN /\ buf' = buf \o SubSeq(rx.data, 1, Min({Len(rx.data), tx.count}))
                     /\ SendTx(call, tx.tag)
                     /\ UNCHANGED nmp
                ELSE /\ res' = Result(rx) /\ pending' = FALSE
                     /\ msize' = IF call.op = "version" THEN Min({rx.msize, MaxMsg}) ELSE msize
                     /\ dotu' = IF call.op = "version" THEN call.name = VersionU /\ rx.version = VersionU ELSE dotu
                     /\ UNCHANGED <<tx, sent, said, buf, torn>>
    BY Zenon DEF Receive
  <2>2. q = r
    BY <2>1
  <2> QED BY Zenon, <2>1, <2>2
<1>2. \/ r.e = "EIO"
      \/ rx = NoFcall
      \/ /\ said.how \in {"whole", "late"}
         /\ tx # NoFcall /\ AnswerFor(tx, said.m) /\ rx = MsgTaken(said.m, dotu)
  <2>1. \/ r.e = "EIO"
        \/ r.rx = NoFcall
        \/ /\ said.how \in {"whole", "late"}
           /\ tx # NoFcall /\ AnswerFor(tx, said.m) /\ r.rx = MsgTaken(said.m, dotu)
    BY <1>0, ReceivedIs
  <2>2. rx = r.rx
    BY <1>1
  <2> HIDE DEF r
  <2> QED BY <2>1, <2>2
<1>3. e = "0" => RpcError(rx) = "0" /\ r.e = "0"
  BY <1>1
<1>4. call' = call
  BY DEF Receive
<1> HIDE DEF r
<1>5. CASE e # "0"
  <2>1. /\ IF call.op = "auth" /\ rx.type = "Rerror" THEN Return("0", NOFID) ELSE Return(e, Null)
        /\ UNCHANGED <<nmp, tx, sent, said, buf, torn>>
    BY <1>1, <1>5
  <2>2. CASE call.op = "auth" /\ rx.type = "Rerror"
    <3>1. res'.v = NOFID /\ call'.op = "auth"
      BY <1>4, <2>1, <2>2 DEF Return, Ret
    <3> QED BY <3>1, NothingTold
  <2>3. CASE ~ (call.op = "auth" /\ rx.type = "Rerror")
    <3>1. res'.e # "0"
      BY <1>5, <2>1, <2>3 DEF Return, Ret
    <3> QED BY <3>1, NothingTold
  <2> QED BY <2>2, <2>3
<1>6. CASE e = "0" /\ ReadAgain(rx)
  <2>1. SendTx(call, tx.tag)
    BY <1>1, <1>6
  <2> QED BY <1>4, <2>1, SendTells
<1>7. CASE e = "0" /\ ~ ReadAgain(rx)
  <2>1. /\ res' = Result(rx) /\ pending' = FALSE
        /\ dotu' = IF call.op = "version" THEN call.name = VersionU /\ rx.version = VersionU ELSE dotu
        /\ UNCHANGED <<tx, sent, said, buf, torn>>
    BY <1>1, <1>7
  <2>2. /\ RpcError(rx) = "0"
        /\ \/ rx = NoFcall
           \/ /\ said.how \in {"whole", "late"}
              /\ tx # NoFcall /\ AnswerFor(tx, said.m) /\ rx = MsgTaken(said.m, dotu)
    BY <1>2, <1>3, <1>7
  <2>3. /\ said.how \in {"whole", "late"}
        /\ AnswerFor(tx, said.m) /\ DOMAIN rx = FieldsOf(said.m.type, dotu)
        /\ said.m.type = ReplyType(tx.type) \/ (said.m.type = "Rerror" /\ Errno(rx) = "0")
        /\ \A x \in FieldsOf(said.m.type, dotu) : rx[x] = said.m[x]
    <3>1. /\ AnswerFor(tx, said.m) /\ DOMAIN rx = FieldsOf(said.m.type, dotu) /\ rx # NoFcall
          /\ said.m.type = ReplyType(tx.type) \/ (said.m.type = "Rerror" /\ Errno(rx) = "0")
          /\ \A x \in FieldsOf(said.m.type, dotu) : rx[x] = said.m[x]
      BY <1>0, <2>2, GoesOn
    <3> QED BY <2>2, <3>1
  <2>4. call.op = "version" => said.m.type = "Rversion"
    BY <1>0, <2>2, VersionAnswered
  <2>5. said' = said /\ tx' = tx /\ said'.how \in {"whole", "late"}
    BY <2>1, <2>3
  <2>6. CASE said.m.type = "Rerror" /\ Errno(rx) = "0"
    <3>1. said.m.ename = NoError /\ (dotu => said.m.errnum = 0)
      BY <1>0, <2>3, <2>6, NoErrorSaid
    <3>2. dotu' = dotu
      BY <2>1, <2>4, <2>6
    <3> QED BY <2>5, <2>6, <3>1, <3>2 DEF ResultFromReply
  <2>7. CASE said.m.type = ReplyType(tx.type)
    <3>1. CASE Result(rx).e # "0"
      BY <2>1, <3>1 DEF ResultFromReply
    <3>2. CASE Result(rx).e = "0"
      <4>1. Tells(Result(rx).v, call, said.m, tx, dotu)
        BY <1>0, <2>3, <2>7, <3>2, ToldBy
      <4>2. Tells(res'.v, call, said.m, tx, dotu)
        BY Zenon, <2>1, <4>1
      <4>3. Told(call, said.m)'
        <5> DEFINE m == said.m
                   v == res'.v
        <5>1. call' = call /\ said'.m = m /\ tx' = tx /\ (call.op = "stat" => dotu' = dotu)
          BY <1>4, <2>1, <2>5
        <5> HIDE DEF m, v
        <5>2. Tells(v, call, m, tx, dotu)
          BY Zenon, <4>2 DEF m, v
        <5> QED BY <1>0, <5>1, <5>2 DEF Told, Tells, OpsAre, v
      <4>4. said'.m.type = ReplyType(tx'.type)
        BY <2>5, <2>7
      <4> QED BY Zenon, <2>5, <4>3, <4>4 DEF ResultFromReply
    <3> QED BY <3>1, <3>2
  <2> QED BY <2>3, <2>6, <2>7
<1> QED BY <1>5, <1>6, <1>7

-----------------------------------------------------------------------------
(* The Swift codec's messages.                                             *)

(* The writer of the Swift codec writes what the macros of fcall.c write.  *)
LEMMA WritersAgree ==
    /\ \A v : WriterU(1, v) = U8(v) /\ WriterU(2, v) = U16(v) /\ WriterU(4, v) = U32(v)
    /\ \A s : WriterString(s) = Pstring(s)
    /\ \A ss : Each(WriterString, ss) = Each(Pstring, ss)
<1>1. 1 = BIT8SZ /\ 2 = BIT16SZ /\ 4 = BIT32SZ
  BY BitsAre
<1>2. \A v : WriterU(1, v) = U8(v) /\ WriterU(2, v) = U16(v) /\ WriterU(4, v) = U32(v)
  BY Zenon, <1>1 DEF WriterU, U8, U16, U32
<1>3. \A s : WriterString(s) = Pstring(s)
  BY Zenon DEF WriterString, Pstring, WriterU, U16
<1>4. ASSUME NEW ss PROVE Each(WriterString, ss) = Each(Pstring, ss)
  <2>1. [i \in DOMAIN ss |-> WriterString(ss[i])] = [i \in DOMAIN ss |-> Pstring(ss[i])]
    BY Zenon, <1>3
  <2> QED BY Zenon, <2>1 DEF Each
<1> QED BY <1>2, <1>3, <1>4

LEMMA BodiesAgree ==
    ASSUME NEW f, f.type \in Asked
    PROVE  /\ Body(f) = MsgBody(f, TRUE)
           /\ f.type # "Tattach" => MsgBody(f, FALSE) = MsgBody(f, TRUE)
<1>0. IsT(f.type)
  BY RequestsAre DEF Asked
<1>1. \A u : MsgBody(f, u) = PutT(f, u)
  BY Zenon, <1>0 DEF MsgBody
<1>2. CASE f.type = "Tversion"
  <2>1. Body(f) = U32(f.msize) \o Pstring(f.version)
    BY Zenon, <1>2, WritersAgree DEF Body
  <2>2. \A u : PutT(f, u) = U32(f.msize) \o Pstring(f.version)
    BY Zenon, <1>2 DEF PutT
  <2>3. Body(f) = PutT(f, TRUE) /\ PutT(f, FALSE) = PutT(f, TRUE)
    BY Zenon, <2>1, <2>2
  <2>4. MsgBody(f, TRUE) = PutT(f, TRUE) /\ MsgBody(f, FALSE) = PutT(f, FALSE)
    BY Zenon, <1>1
  <2> QED BY Zenon, <2>3, <2>4
<1>3. CASE f.type = "Tattach"
  <2>1. Body(f) = U32(f.fid) \o U32(f.afid) \o Pstring(f.uname) \o Pstring(f.aname) \o U32(f.unamenum)
    BY Zenon, <1>3, WritersAgree DEF Body
  <2>2. PutT(f, TRUE) = U32(f.fid) \o U32(f.afid) \o Pstring(f.uname) \o Pstring(f.aname) \o U32(f.unamenum)
    BY Zenon, <1>3 DEF PutT, IfU
  <2>3. Body(f) = MsgBody(f, TRUE)
    BY Zenon, <1>1, <2>1, <2>2
  <2> QED BY <1>3, <2>3
<1>4. CASE f.type = "Twalk"
  <2>1. Body(f) = U32(f.fid) \o U32(f.newfid) \o U16(Len(f.wname)) \o Each(Pstring, f.wname)
    <3>1. Body(f) = WriterU(4, f.fid) \o WriterU(4, f.newfid) \o WriterU(2, Len(f.wname)) \o Each(WriterString, f.wname)
      BY Zenon, <1>4 DEF Body
    <3> QED BY Zenon, <3>1, WritersAgree
  <2>2. \A u : PutT(f, u) = U32(f.fid) \o U32(f.newfid) \o U16(Len(f.wname)) \o Each(Pstring, f.wname)
    BY Zenon, <1>4 DEF PutT
  <2>3. Body(f) = PutT(f, TRUE) /\ PutT(f, FALSE) = PutT(f, TRUE)
    BY Zenon, <2>1, <2>2
  <2>4. MsgBody(f, TRUE) = PutT(f, TRUE) /\ MsgBody(f, FALSE) = PutT(f, FALSE)
    BY Zenon, <1>1
  <2> QED BY Zenon, <2>3, <2>4
<1>5. CASE f.type = "Topen"
  <2>1. Body(f) = U32(f.fid) \o U8(f.mode)
    BY Zenon, <1>5, WritersAgree DEF Body
  <2>2. \A u : PutT(f, u) = U32(f.fid) \o U8(f.mode)
    BY Zenon, <1>5 DEF PutT
  <2>3. Body(f) = PutT(f, TRUE) /\ PutT(f, FALSE) = PutT(f, TRUE)
    BY Zenon, <2>1, <2>2
  <2>4. MsgBody(f, TRUE) = PutT(f, TRUE) /\ MsgBody(f, FALSE) = PutT(f, FALSE)
    BY Zenon, <1>1
  <2> QED BY Zenon, <2>3, <2>4
<1>6. CASE f.type = "Tread"
  <2>1. Body(f) = U32(f.fid) \o f.offset \o U32(f.count)
    BY Zenon, <1>6, WritersAgree DEF Body
  <2>2. \A u : PutT(f, u) = U32(f.fid) \o f.offset \o U32(f.count)
    BY Zenon, <1>6 DEF PutT
  <2>3. Body(f) = PutT(f, TRUE) /\ PutT(f, FALSE) = PutT(f, TRUE)
    BY Zenon, <2>1, <2>2
  <2>4. MsgBody(f, TRUE) = PutT(f, TRUE) /\ MsgBody(f, FALSE) = PutT(f, FALSE)
    BY Zenon, <1>1
  <2> QED BY Zenon, <2>3, <2>4
<1>7. CASE f.type \in {"Tclunk", "Tstat"}
  <2>0. f.type \in {"Tclunk", "Tremove", "Tstat"} /\ f.type \notin {"Tversion", "Tattach", "Twalk", "Topen", "Tread"}
        /\ f.type \notin {"Tflush", "Tauth", "Tcreate", "Twrite"}
    BY <1>7
  <2>1. Body(f) = WriterU(4, f.fid)
    BY <1>7 DEF Body
  <2>2. \A u : PutT(f, u) = U32(f.fid)
    BY <1>7 DEF PutT
  <2>3. Body(f) = PutT(f, TRUE) /\ PutT(f, FALSE) = PutT(f, TRUE)
    BY Zenon, <2>1, <2>2, WritersAgree
  <2>4. MsgBody(f, TRUE) = PutT(f, TRUE) /\ MsgBody(f, FALSE) = PutT(f, FALSE)
    BY Zenon, <1>1
  <2> QED BY Zenon, <2>3, <2>4
<1> QED BY <1>2, <1>3, <1>4, <1>5, <1>6, <1>7 DEF Asked

LEMMA SwiftWrites ==
    ASSUME NEW f, f.type \in Asked, MsgOk(f, TRUE)
    PROVE  EncodeMessage(f) = MsgBytes(f, TRUE)
<1> DEFINE b == MsgBody(f, TRUE)
<1>1. Body(f) = b
  BY BodiesAgree
<1>2. PatchSize(Body(f)) = SizeS2M(f, TRUE)
  <2>1. SizeS2M(f, TRUE) = HDRSZ + Len(b)
    BY MsgParts DEF Length
  <2> HIDE DEF b
  <2> QED BY Zenon, <1>1, <2>1 DEF PatchSize
<1>3. EncodeMessage(f) = WriterU(4, PatchSize(Body(f))) \o WriterU(1, Number(f.type)) \o WriterU(2, f.tag) \o Body(f)
  BY Zenon DEF EncodeMessage
<1>4. EncodeMessage(f) = U32(SizeS2M(f, TRUE)) \o U8(Number(f.type)) \o U16(f.tag) \o b
  BY Zenon, <1>1, <1>2, <1>3, WritersAgree
<1> QED BY Zenon, <1>4 DEF MsgBytes, MsgHeader, Then

(* A Tattach in 9P2000.u is one in 9P2000 with a number behind it.         *)
LEMMA AttachBody ==
    ASSUME NEW f, f.type = "Tattach", MsgOk(f, FALSE)
    PROVE  MsgBody(f, FALSE) \in Buffers /\ MsgBody(f, TRUE) = Then(MsgBody(f, FALSE), U32(f.unamenum))
<1> DEFINE d1 == <<"fid", "u32">>
           d2 == <<"afid", "u32">>
           d3 == <<"uname", "str">>
           d4 == <<"aname", "str">>
           fields == Fields4(d1, d2, d3, d4)
           x == Then(Then(Then(U32(f.fid), U32(f.afid)), Pstring(f.uname)), Pstring(f.aname))
<1>0. d1 \in FieldType /\ d2 \in FieldType /\ d3 \in FieldType /\ d4 \in FieldType
  <2>1. "fid" \in FieldNames /\ "afid" \in FieldNames /\ "uname" \in FieldNames /\ "aname" \in FieldNames
    BY DEF FieldNames
  <2> QED BY Zenon, <2>1, FieldTypes
<1>1. IsT(f.type)
  BY RequestsAre
<1>2. MsgFields(f.type, FALSE) = fields
  <2>1. MsgFields(f.type, FALSE) = fields \o <<>>
    BY Zenon, <1>1 DEF MsgFields, GetT, IfU, Fields4
  <2> HIDE DEF d1, d2, d3, d4
  <2> QED BY <1>0, <2>1, Grown4
<1>3. FieldOk(f, d1) /\ FieldOk(f, d2) /\ FieldOk(f, d3) /\ FieldOk(f, d4)
  <2>1. WellTyped(f, fields)
    BY <1>2 DEF MsgOk
  <2> HIDE DEF d1, d2, d3, d4
  <2> QED BY <1>0, <2>1, Typed4
<1>4. FieldBytes(f, d1) = U32(f.fid) /\ FieldBytes(f, d2) = U32(f.afid)
      /\ FieldBytes(f, d3) = Pstring(f.uname) /\ FieldBytes(f, d4) = Pstring(f.aname)
  BY FieldParts
<1>5. /\ fields \in Seq(FieldType) /\ WellTyped(f, fields)
      /\ Encoding(f, fields) = Then(Then(Then(FieldBytes(f, d1), FieldBytes(f, d2)), FieldBytes(f, d3)), FieldBytes(f, d4))
  <2> HIDE DEF d1, d2, d3, d4
  <2> QED BY <1>3, Encoding4
<1>6. x \in Buffers
  <2>1. Encoding(f, fields) \in Buffers
    <3> HIDE DEF fields
    <3> QED BY <1>5, EncodingIs
  <2>2. Encoding(f, fields) = x
    BY Zenon, <1>4, <1>5
  <2> HIDE DEF x, fields
  <2> QED BY <2>1, <2>2
<1>7. MsgBody(f, FALSE) = Then(x, <<>>) /\ MsgBody(f, TRUE) = Then(x, U32(f.unamenum))
  BY Zenon, <1>1 DEF MsgBody, PutT, IfU, Then
<1> HIDE DEF x
<1>8. Then(x, <<>>) = x
  BY <1>6, ThenEmpty
<1> QED BY Zenon, <1>6, <1>7, <1>8

LEMMA AttachLonger ==
    ASSUME NEW f, f.type = "Tattach", MsgOk(f, FALSE), MsgOk(f, TRUE), f.unamenum \in Numbers(BIT32SZ)
    PROVE  /\ SizeS2M(f, TRUE) = SizeS2M(f, FALSE) + 4
           /\ SizeS2M(f, TRUE) \in Numbers(BIT32SZ) => ConvM2S(MsgBytes(f, TRUE), FALSE) = Refused
<1> DEFINE a == MsgBody(f, FALSE)
           n == U32(f.unamenum)
           z == SizeS2M(f, TRUE)
           y == SizeS2M(f, FALSE)
           t == Then(a, n)
<1>1. a \in Buffers /\ MsgBody(f, TRUE) = t
  BY AttachBody
<1>2. n \in Buffers /\ Len(n) = 4
  BY PBITBytes, NumbersAre, BitsAre DEF U32
<1>3. Len(t) = Len(a) + Len(n) /\ Len(a) \in Nat
  <2> HIDE DEF a, n
  <2> QED BY <1>1, <1>2, ThenBuffer, BufferIs
<1>4. z = HDRSZ + Len(t) /\ y = HDRSZ + Len(a)
  BY <1>1, MsgParts DEF Length
<1>5. z = y + 4 /\ z # y
  <2> DEFINE h == HDRSZ
             k == Len(a)
             l == Len(t)
  <2>1. h \in Nat /\ k \in Nat /\ l = k + 4 /\ z = h + l /\ y = h + k
    BY <1>2, <1>3, <1>4, BitsAre
  <2> HIDE DEF h, k, l, z, y
  <2> QED BY <2>1
<1>6. MsgBytes(f, TRUE) = Wire(f, z, t)
  BY Zenon, <1>1 DEF MsgBytes, Wire
<1>7. ASSUME z \in Numbers(BIT32SZ) PROVE ConvM2S(MsgBytes(f, TRUE), FALSE) = Refused
  <2> HIDE DEF n, z
  <2>1. ConvM2S(Wire(f, z, t), FALSE) = Refused
    BY <1>2, <1>5, <1>7, LongMessage
  <2> QED BY Zenon, <1>6, <2>1
<1> QED BY Zenon, <1>5, <1>7

LEMMA AttachRefused ==
    ASSUME NEW f, f.type = "Tattach", MsgOk(f, FALSE), MsgOk(f, TRUE), f.unamenum \in Numbers(BIT32SZ),
           SizeS2M(f, TRUE) \in Numbers(BIT32SZ)
    PROVE  ConvM2S(MsgBytes(f, TRUE), FALSE) = Refused
BY AttachLonger

LEMMA AttachNumber ==
    ASSUME NEW f, f.type = "Tattach", MsgOk(f, TRUE)
    PROVE  f.unamenum \in Numbers(BIT32SZ)
<1> DEFINE d1 == <<"fid", "u32">>
           d2 == <<"afid", "u32">>
           d3 == <<"uname", "str">>
           d4 == <<"aname", "str">>
           d5 == <<"unamenum", "u32">>
           fields == Fields5(d1, d2, d3, d4, d5)
<1>0. d1 \in FieldType /\ d2 \in FieldType /\ d3 \in FieldType /\ d4 \in FieldType /\ d5 \in FieldType
  <2>1. "fid" \in FieldNames /\ "afid" \in FieldNames /\ "uname" \in FieldNames /\ "aname" \in FieldNames /\ "unamenum" \in FieldNames
    BY DEF FieldNames
  <2> QED BY Zenon, <2>1, FieldTypes
<1>1. MsgFields(f.type, TRUE) = fields
  <2>1. IsT(f.type)
    BY RequestsAre
  <2>2. MsgFields(f.type, TRUE) = Fields4(d1, d2, d3, d4) \o Fields1(d5)
    BY Zenon, <2>1 DEF MsgFields, GetT, IfU, Fields1, Fields4
  <2> HIDE DEF d1, d2, d3, d4, d5
  <2> QED BY <1>0, <2>2, Grown5
<1>2. FieldOk(f, d5)
  <2>1. WellTyped(f, fields)
    BY <1>1 DEF MsgOk
  <2> HIDE DEF d1, d2, d3, d4, d5
  <2> QED BY <1>0, <2>1, Typed5
<1>3. f.unamenum \in Meant("u32")
  BY <1>2 DEF FieldOk
<1> QED BY <1>3, MeantParts

LEMMA AttachFits == \A n \in 0 .. MaxMsg : n + 4 \in Numbers(BIT32SZ)
<1> DEFINE v == Byte * Byte
<1>1. Values(BIT16SZ) = v /\ Values(BIT32SZ) = v * v /\ v > 127
  <2>1. Values(2) = v /\ Values(4) = v * v /\ v > 127
    <3>1. Values(2) = v /\ Values(4) = v * v
      BY Zenon, ValuesOf
    <3>2. Values(1) > 127 /\ Values(1) < Values(2) /\ Values(1) \in Nat /\ Values(2) \in Nat
      BY ValuesOf, ValuesPositive
    <3> HIDE DEF v, Values
    <3>3. Values(2) > 127
      BY <3>2
    <3> QED BY <3>1, <3>3
  <2>2. BIT16SZ = 2 /\ BIT32SZ = 4
    BY BitsAre
  <2> QED BY Zenon, <2>1, <2>2
<1>2. v \in Nat /\ MaxMsg \in Nat /\ MaxMsg < v
  BY <1>1, RequestsAssumption, ValuesPositive, BitsAre DEF Numbers
<1> HIDE DEF v
<1>3. v * v >= v + v
  BY <1>1, <1>2
<1>4. \A n \in 0 .. MaxMsg : n + 4 \in Nat /\ n + 4 < v * v
  BY <1>1, <1>2, <1>3
<1> HIDE DEF Values
<1> QED BY <1>1, <1>2, <1>4 DEF Numbers

LEMMA SendsSame == IInv => SwiftSendsTheSame
<1> SUFFICES ASSUME IInv, pending, tx.type \in Asked
             PROVE  \A b \in {EncodeMessage(tx)} : \A d \in {ConvM2S(b, TRUE)} :
                        /\ d.n = Len(b) /\ \A x \in DOMAIN d.f : d.f[x] = tx[x]
                        /\ IF tx.type = "Tattach" /\ ~dotu THEN ConvM2S(b, FALSE) = Refused ELSE b = sent
  BY Zenon DEF SwiftSendsTheSame
<1> DEFINE b == MsgBytes(tx, TRUE)
           z == SizeS2M(tx, TRUE)
           y == SizeS2M(tx, FALSE)
           g == MsgTaken(tx, TRUE)
<1>1. /\ dotu \in BOOLEAN /\ tx # NoFcall /\ sent = MsgBytes(tx, dotu) /\ SizeS2M(tx, dotu) <= MaxMsg
      /\ TxFor(call, tx, msize, dotu)
  BY AskedIs DEF IInv, SentOk, Shape
<1>2. MsgOk(tx, TRUE) /\ MsgOk(tx, FALSE) /\ DOMAIN tx = FieldsOf(tx.type, TRUE)
  BY <1>1 DEF TxFor
<1>3. EncodeMessage(tx) = b
  BY <1>2, SwiftWrites
<1>4. z \in Nat /\ y \in Nat /\ Length(b) = z
  BY <1>2, MsgParts, WrittenIs
<1>5. /\ z \in Numbers(BIT32SZ)
      /\ IF tx.type = "Tattach" /\ ~dotu THEN ConvM2S(b, FALSE) = Refused ELSE b = sent
  <2>1. CASE dotu
    <3>1. dotu = TRUE
      BY <2>1
    <3>2. sent = b /\ z <= MaxMsg
      BY Zenon, <1>1, <3>1
    <3>3. z \in Numbers(BIT32SZ)
      <4> HIDE DEF z
      <4> QED BY <1>4, <3>2, SizesFit
    <3> HIDE DEF z, b
    <3> QED BY <2>1, <3>2, <3>3
  <2>2. CASE ~ dotu
    <3>1. dotu = FALSE
      BY <1>1, <2>2
    <3>2. y <= MaxMsg /\ sent = MsgBytes(tx, FALSE)
      BY Zenon, <1>1, <3>1
    <3>3. CASE tx.type # "Tattach"
      <4>1. MsgBody(tx, FALSE) = MsgBody(tx, TRUE)
        BY <3>3, BodiesAgree
      <4>2. y = z
        <5>1. y = HDRSZ + Length(MsgBody(tx, FALSE)) /\ z = HDRSZ + Length(MsgBody(tx, TRUE))
          BY <1>2, MsgParts
        <5> QED BY Zenon, <4>1, <5>1
      <4>3. MsgBytes(tx, FALSE) = b
        BY Zenon, <4>1, <4>2 DEF MsgBytes
      <4> HIDE DEF y, z, b
      <4>4. z \in Numbers(BIT32SZ)
        BY <1>4, <3>2, <4>2, SizesFit
      <4> QED BY <3>2, <3>3, <4>3, <4>4
    <3>4. CASE tx.type = "Tattach"
      <4>1. tx.unamenum \in Numbers(BIT32SZ)
        BY <1>2, <3>4, AttachNumber
      <4>2. z = y + 4
        BY <1>2, <3>4, <4>1, AttachLonger
      <4>3. z \in Numbers(BIT32SZ)
        <5> HIDE DEF z, y
        <5> QED BY <1>4, <3>2, <4>2, AttachFits
      <4>4. ConvM2S(b, FALSE) = Refused
        BY <1>2, <3>4, <4>1, <4>3, AttachRefused
      <4> QED BY <2>2, <3>4, <4>3, <4>4
    <3> QED BY <3>3, <3>4
  <2> QED BY <2>1, <2>2
<1>6. ConvM2S(b, TRUE) = Decoded(z, g)
  BY <1>2, <1>5, MessageRoundTrip
<1>7. DOMAIN g = FieldsOf(tx.type, TRUE) /\ \A x \in FieldsOf(tx.type, TRUE) : g[x] = tx[x]
  BY TakenFields
<1> DEFINE d == ConvM2S(b, TRUE)
<1>8. d.n = Len(b) /\ d.f = g
  <2>1. Decoded(z, g).n = z /\ Decoded(z, g).f = g /\ Len(b) = z
    BY Zenon, <1>4 DEF Decoded, Length
  <2> QED BY Zenon, <1>6, <2>1
<1> HIDE DEF b, g, d
<1>9. \A x \in DOMAIN d.f : d.f[x] = tx[x]
  BY <1>7, <1>8
<1> QED BY <1>3, <1>5, <1>8, <1>9 DEF d

-----------------------------------------------------------------------------
(* The theorems.                                                           *)

(* Every variable holds what it may, whatever the server answers.          *)
THEOREM TypeCorrect == Spec => []TypeOK
BY Invariant, TypesOk, PTL

(* What a server reads of a request is what the client asked: every field  *)
(* that the dialect has, with its value, to the last byte; and only a      *)
(* request that is too large for a message is not sent.                    *)
THEOREM Requests == Spec => []RequestUnderstood
BY Invariant, Understood, PTL

(* The replies are read from the stream in whole messages, as long as no   *)
(* answer had a size that was wrong.                                       *)
THEOREM Stream == Spec => []StreamAligned
BY Invariant, Aligned, PTL

(* The reads ask for no more, and the writes carry no more, than fits one  *)
(* message of the size that was agreed.                                    *)
THEOREM Transfers == Spec => []TransfersFit
BY Invariant, Fit, PTL

(* A call that returns 0 has had, whole and in the dialect spoken, the     *)
(* reply to its own request and returns what that says, whether or not the *)
(* stream was put out of step; but for the text "no error", and an auth_9p *)
(* that finds an Rerror in rx, received, refused or left there by chance.  *)
THEOREM Replied == Spec => []ResultFromReply
<1>1. Init => ResultFromReply
  BY DEF Init, ResultFromReply
<1>2. IInv /\ ResultFromReply /\ [Next]_vars => ResultFromReply'
  <2> SUFFICES ASSUME IInv, ResultFromReply, [Next]_vars PROVE ResultFromReply'
    OBVIOUS
  <2> HIDE DEF IInv, ResultFromReply
  <2>1. ASSUME NEW c \in Calls, Call(c) PROVE ResultFromReply'
    <3>1. PICK tag \in TagsOf(c) : SendTx(c, tag)
      BY <2>1 DEF Call
    <3>2. call' = c
      BY <2>1 DEF Call
    <3> QED BY <3>1, <3>2, SendTells
  <2>2. CASE ClunkNofid
    <3>1. res'.e # "0"
      BY <2>2 DEF ClunkNofid, Return, Ret
    <3> QED BY <3>1, NothingTold
  <2>3. CASE Answer
    <3>1. pending'
      BY <2>3 DEF Answer
    <3> QED BY <3>1, NothingTold
  <2>4. CASE Arrive
    <3>1. call' = call /\ pending' = pending /\ said' = said /\ res' = res /\ tx' = tx /\ dotu' = dotu
      BY <2>4 DEF Arrive, nmp
    <3> QED BY <3>1, ToldSame
  <2>5. CASE Receive
    BY <2>5, ReceiveTells
  <2>6. CASE ReceiveNoMem
    <3>1. res'.e # "0"
      BY <2>6 DEF ReceiveNoMem, Return, Ret
    <3> QED BY <3>1, NothingTold
  <2>7. CASE ReceiveFails
    <3>1. res'.e # "0"
      BY <2>7 DEF ReceiveFails, Return, Ret
    <3> QED BY <3>1, NothingTold
  <2>8. CASE UNCHANGED vars
    <3>1. call' = call /\ pending' = pending /\ said' = said /\ res' = res /\ tx' = tx /\ dotu' = dotu
      BY <2>8 DEF vars, nmp
    <3> QED BY <3>1, ToldSame
  <2> QED BY <2>1, <2>2, <2>3, <2>4, <2>5, <2>6, <2>7, <2>8 DEF Next
<1> QED BY <1>1, <1>2, Invariant, PTL DEF Spec

(* The Swift client's requests are the kernel extension's, byte for byte,  *)
(* and are read as what was meant; but its Tattach of 9P2000 is refused by *)
(* every server that counts the bytes, harmless as the code thinks it is.  *)
THEOREM SwiftRequests == Spec => []SwiftSendsTheSame
BY SendsSame, Invariant, PTL
=============================================================================
