---------------------------- MODULE Fcall_proofs ----------------------------
(***************************************************************************)
(* Theorems about the codec: what GBIT makes of PBIT, what convM2S makes   *)
(* of what convS2M has written, and convM2D of convD2M, for every message  *)
(* and every entry.                                                        *)
(*                                                                         *)
(* Induction is over sets of numbers (SetInduction, from WFMin, which      *)
(* takes a set), since the provers cannot instantiate the theorems that    *)
(* take an operator.  Each recursive function of Fcall has a lemma that    *)
(* such a function exists, and one that it is defined as it reads.         *)
(***************************************************************************)
EXTENDS Fcall, WellFoundedInduction, SequenceTheorems, TLAPS

(* A set of numbers that is not empty has a least one.                     *)
LEMMA LeastOf ==
    ASSUME NEW T, T \subseteq Nat, T # {}
    PROVE  \E x \in T : \A y \in T : x <= y
<1>1. PICK x \in T : \A y \in T : ~ (<<y, x>> \in OpToRel(<, Nat))
  BY NatLessThanWellFounded, WFMin
<1>2. \A y \in T : ~ (y < x)
  BY <1>1 DEF OpToRel
<1> QED BY <1>2

(* A set that has 0 and with each number the next has all of them.         *)
LEMMA SetInduction ==
    ASSUME NEW T, 0 \in T, \A n \in Nat : n \in T => n + 1 \in T
    PROVE  Nat \subseteq T
<1> DEFINE U == Nat \ T
<1> SUFFICES ASSUME U # {} PROVE FALSE
  OBVIOUS
<1>1. PICK x \in U : \A y \in U : x <= y
  <2> HIDE DEF U
  <2>1. U \subseteq Nat BY DEF U
  <2> QED BY <2>1, LeastOf
<1>2. x # 0 /\ x - 1 \in Nat
  OBVIOUS
<1>3. x - 1 \in T
  BY <1>1, <1>2
<1> QED BY <1>2, <1>3

(* The same up to a bound.                                                 *)
LEMMA BoundedInduction ==
    ASSUME NEW n \in Nat, NEW T, 0 \in T, \A i \in 0 .. n - 1 : i \in T => i + 1 \in T
    PROVE  0 .. n \subseteq T
<1> DEFINE U == {i \in Nat : i <= n => i \in T}
<1>1. 0 \in U
  OBVIOUS
<1>2. \A i \in Nat : i \in U => i + 1 \in U
  OBVIOUS
<1>3. Nat \subseteq U
  <2> HIDE DEF U
  <2> QED BY <1>1, <1>2, SetInduction
<1> QED BY <1>3

-----------------------------------------------------------------------------
(* Numbers                                                                 *)

LEMMA ValuesExist ==
    ASSUME NEW w \in Nat
    PROVE  \E p : p = [i \in 0 .. w |-> IF i = 0 THEN 1 ELSE Byte * p[i - 1]]
<1> DEFINE Is(k, p) == p = [i \in 0 .. k |-> IF i = 0 THEN 1 ELSE Byte * p[i - 1]]
           T == {k \in Nat : \E p : Is(k, p)}
<1>1. 0 \in T
  <2> DEFINE p == [i \in 0 .. 0 |-> 1]
  <2>1. Is(0, p)
    OBVIOUS
  <2> QED BY <2>1
<1>2. ASSUME NEW k \in Nat, k \in T PROVE k + 1 \in T
  <2>1. PICK p : Is(k, p)
    BY <1>2
  <2> DEFINE q == [i \in 0 .. k + 1 |-> IF i = k + 1 THEN Byte * p[k] ELSE p[i]]
  <2>2. Is(k + 1, q)
    BY <2>1
  <2> HIDE DEF Is, q
  <2> QED BY <2>2
<1>3. Nat \subseteq T
  <2> HIDE DEF T
  <2> QED BY <1>1, <1>2, SetInduction
<1> QED BY <1>3

(* Powers, for the proofs: Power(w) is the function in Values(w).          *)
Power(w) == CHOOSE p : p = [i \in 0 .. w |-> IF i = 0 THEN 1 ELSE Byte * p[i - 1]]

LEMMA PowerIs ==
    ASSUME NEW w \in Nat
    PROVE  Power(w) = [i \in 0 .. w |-> IF i = 0 THEN 1 ELSE Byte * Power(w)[i - 1]]
BY ValuesExist DEF Power

LEMMA ValuesIs == ASSUME NEW w \in Nat PROVE Values(w) = Power(w)[w]
BY DEF Values, Power

(* The functions of two numbers of bytes agree where both are defined.     *)
LEMMA PowersAgree ==
    ASSUME NEW w \in Nat, NEW k \in 0 .. w
    PROVE  Power(w)[k] = Values(k)
<1> DEFINE T == {i \in Nat : i <= k => Power(w)[i] = Power(k)[i]}
<1>1. 0 \in T
  BY PowerIs
<1>2. \A i \in Nat : i \in T => i + 1 \in T
  BY PowerIs
<1> HIDE DEF T
<1>3. k \in T
  BY <1>1, <1>2, SetInduction
<1> QED BY <1>3, ValuesIs DEF T

LEMMA ValuesNext ==
    /\ Values(0) = 1
    /\ \A w \in Nat : Values(w + 1) = Byte * Values(w)
<1>1. Values(0) = 1
  BY PowerIs, ValuesIs
<1>2. ASSUME NEW w \in Nat PROVE Values(w + 1) = Byte * Values(w)
  <2>1. Power(w + 1)[w] = Values(w)
    BY PowersAgree
  <2>2. Power(w + 1)[w + 1] = Byte * Power(w + 1)[w]
    BY PowerIs
  <2> QED BY <2>1, <2>2, ValuesIs
<1> QED BY <1>1, <1>2

LEMMA ValuesPositive == \A w \in Nat : Values(w) \in Nat \ {0}
<1> DEFINE T == {w \in Nat : Values(w) \in Nat \ {0}}
<1>1. 0 \in T
  BY ValuesNext
<1>2. \A w \in Nat : w \in T => w + 1 \in T
  BY ValuesNext, CodecAssumption
<1> HIDE DEF T
<1>3. Nat \subseteq T
  BY <1>1, <1>2, SetInduction
<1> QED BY <1>3 DEF T

(* The widths of the protocol; a byte can say the number of each message.  *)
LEMMA ValuesOf ==
    /\ Values(1) = Byte
    /\ Values(2) = Byte * Byte
    /\ Values(4) = (Byte * Byte) * (Byte * Byte)
    /\ Values(1) > 127
    /\ Values(1) < Values(2) /\ Values(2) < Values(4)
<1>1. Values(1) = Byte /\ Values(2) = Byte * Byte
  <2>1. Values(0 + 1) = Byte * Values(0) /\ Values(1 + 1) = Byte * Values(1)
    BY ValuesNext
  <2> QED BY <2>1, ValuesNext, CodecAssumption
<1>2. Values(4) = Byte * (Byte * (Byte * Byte))
  <2>1. Values(2 + 1) = Byte * Values(2) /\ Values(3 + 1) = Byte * Values(3)
    BY ValuesNext
  <2> QED BY <2>1, <1>1, CodecAssumption
<1>3. Byte * (Byte * (Byte * Byte)) = (Byte * Byte) * (Byte * Byte)
  BY CodecAssumption
<1>4. \A n \in Nat : n > 127 => n * n > n /\ n * n \in Nat
  OBVIOUS
<1>5. Byte * Byte > Byte /\ Byte * Byte \in Nat
  BY <1>4, CodecAssumption
<1>6. (Byte * Byte) * (Byte * Byte) > Byte * Byte
  BY <1>4, <1>5, CodecAssumption
<1> QED BY <1>1, <1>2, <1>3, <1>5, <1>6, CodecAssumption

LEMMA ByteIs == Numbers(BIT8SZ) = 0 .. Byte - 1
BY ValuesOf DEF Numbers, BIT8SZ

(* What a buffer is.                                                       *)
LEMMA BufferIs ==
    ASSUME NEW b \in Buffers
    PROVE  Len(b) \in Nat /\ DOMAIN b = 1 .. Len(b) /\ \A i \in 1 .. Len(b) : b[i] \in 0 .. Byte - 1
<1>1. b \in Seq(0 .. Byte - 1)
  BY ByteIs DEF Buffers
<1> QED BY <1>1, ElementOfSeq, LenProperties

-----------------------------------------------------------------------------
(* PBIT and GBIT                                                           *)

(* r is what is left of v after each byte.                                 *)
RestsOf(r, w, v) == r = [i \in 0 .. w |-> IF i = 0 THEN v ELSE r[i - 1] \div Byte]
Rests(w, v) == CHOOSE r : RestsOf(r, w, v)

LEMMA RestsExist ==
    ASSUME NEW w \in Nat, NEW v
    PROVE  \E r : RestsOf(r, w, v)
<1> DEFINE Is(k, r) == r = [i \in 0 .. k |-> IF i = 0 THEN v ELSE r[i - 1] \div Byte]
           T == {k \in Nat : \E r : Is(k, r)}
<1>1. 0 \in T
  <2> DEFINE r == [i \in 0 .. 0 |-> v]
  <2>1. Is(0, r)
    OBVIOUS
  <2> QED BY <2>1
<1>2. ASSUME NEW k \in Nat, k \in T PROVE k + 1 \in T
  <2>1. PICK r : Is(k, r)
    BY <1>2
  <2> DEFINE q == [i \in 0 .. k + 1 |-> IF i = k + 1 THEN r[k] \div Byte ELSE r[i]]
  <2>2. Is(k + 1, q)
    BY <2>1
  <2> HIDE DEF Is, q
  <2> QED BY <2>2
<1>3. Nat \subseteq T
  <2> HIDE DEF T
  <2> QED BY <1>1, <1>2, SetInduction
<1>4. \E r : Is(w, r)
  BY <1>3
<1> QED BY Zenon, <1>4 DEF RestsOf

LEMMA RestsIs ==
    ASSUME NEW w \in Nat, NEW v \in Nat
    PROVE  /\ PBIT(w, v) = [i \in 1 .. w |-> Rests(w, v)[i - 1] % Byte]
           /\ Rests(w, v)[0] = v
           /\ \A i \in 1 .. w : Rests(w, v)[i] = Rests(w, v)[i - 1] \div Byte
           /\ \A i \in 0 .. w : Rests(w, v)[i] \in Nat
<1> DEFINE r == Rests(w, v)
<1>1. PBIT(w, v) = [i \in 1 .. w |-> r[i - 1] % Byte]
  BY DEF PBIT, Rests, RestsOf
<1>2. r = [i \in 0 .. w |-> IF i = 0 THEN v ELSE r[i - 1] \div Byte]
  <2>1. RestsOf(r, w, v)
    BY RestsExist DEF Rests
  <2> QED BY Zenon, <2>1 DEF RestsOf
<1> HIDE DEF r
<1>3. r[0] = v /\ \A i \in 1 .. w : r[i] = r[i - 1] \div Byte
  BY <1>2
<1> DEFINE T == {i \in Nat : r[i] \in Nat}
<1>4. \A i \in 0 .. w - 1 : i \in T => i + 1 \in T
  BY <1>3, CodecAssumption
<1>5. 0 .. w \subseteq T
  <2>1. 0 \in T BY <1>3
  <2> HIDE DEF T
  <2> QED BY <2>1, <1>4, BoundedInduction
<1> QED BY <1>1, <1>3, <1>5 DEF r

(* PBIT writes w bytes, whatever the number.                               *)
LEMMA PBITBytes ==
    ASSUME NEW w \in Nat, NEW v \in Nat
    PROVE  PBIT(w, v) \in Buffers /\ Len(PBIT(w, v)) = w /\ PBIT(w, v) \in [1 .. w -> Numbers(BIT8SZ)]
<1>1. PBIT(w, v) \in [1 .. w -> 0 .. Byte - 1]
  <2>1. ASSUME NEW i \in 1 .. w PROVE Rests(w, v)[i - 1] % Byte \in 0 .. Byte - 1
    <3>1. Rests(w, v)[i - 1] \in Nat
      BY RestsIs
    <3> QED BY <3>1, CodecAssumption
  <2> QED BY <2>1, RestsIs
<1>2. PBIT(w, v) \in Seq(0 .. Byte - 1)
  BY <1>1, SeqDef
<1>3. Len(PBIT(w, v)) = w
  BY <1>1
<1> QED BY <1>1, <1>2, <1>3, ByteIs DEF Buffers

LEMMA LastsExist ==
    ASSUME NEW n \in Nat, NEW b
    PROVE  \E l : l = [i \in 0 .. n |-> IF i = 0 THEN 0 ELSE b[Len(b) + 1 - i] + Byte * l[i - 1]]
<1> DEFINE Is(k, l) == l = [i \in 0 .. k |-> IF i = 0 THEN 0 ELSE b[Len(b) + 1 - i] + Byte * l[i - 1]]
           T == {k \in Nat : \E l : Is(k, l)}
<1>1. 0 \in T
  <2> DEFINE l == [i \in 0 .. 0 |-> 0]
  <2>1. Is(0, l)
    OBVIOUS
  <2> QED BY <2>1
<1>2. ASSUME NEW k \in Nat, k \in T PROVE k + 1 \in T
  <2>1. PICK l : Is(k, l)
    BY <1>2
  <2> DEFINE q == [i \in 0 .. k + 1 |-> IF i = k + 1 THEN b[Len(b) + 1 - (k + 1)] + Byte * l[k] ELSE l[i]]
  <2>2. Is(k + 1, q)
    BY <2>1
  <2> HIDE DEF Is, q
  <2> QED BY <2>2
<1>3. Nat \subseteq T
  <2> HIDE DEF T
  <2> QED BY <1>1, <1>2, SetInduction
<1> QED BY <1>3

(* The value of the last i bytes.                                          *)
Lasts(b) ==
    CHOOSE l : l = [i \in 0 .. Len(b) |-> IF i = 0 THEN 0 ELSE b[Len(b) + 1 - i] + Byte * l[i - 1]]

LEMMA LastsIs ==
    ASSUME NEW b \in Buffers
    PROVE  /\ GBIT(b) = Lasts(b)[Len(b)]
           /\ Lasts(b)[0] = 0
           /\ \A i \in 1 .. Len(b) : Lasts(b)[i] = b[Len(b) + 1 - i] + Byte * Lasts(b)[i - 1]
<1> DEFINE l == Lasts(b)
<1>1. GBIT(b) = l[Len(b)]
  BY DEF GBIT, Lasts
<1>2. Len(b) \in Nat
  BY DEF Buffers
<1>3. l = [i \in 0 .. Len(b) |-> IF i = 0 THEN 0 ELSE b[Len(b) + 1 - i] + Byte * l[i - 1]]
  <2>1. \E k : k = [i \in 0 .. Len(b) |-> IF i = 0 THEN 0 ELSE b[Len(b) + 1 - i] + Byte * k[i - 1]]
    BY <1>2, LastsExist
  <2> QED BY <2>1 DEF Lasts
<1> HIDE DEF l
<1>4. l[0] = 0 /\ \A i \in 1 .. Len(b) : l[i] = b[Len(b) + 1 - i] + Byte * l[i - 1]
  BY <1>2, <1>3
<1> QED BY <1>1, <1>4 DEF l

(* GBIT reads a number that so many bytes can say.                         *)
LEMMA GBITNumber ==
    ASSUME NEW b \in Buffers
    PROVE  GBIT(b) \in Numbers(Len(b))
<1> DEFINE n == Len(b)
           l == Lasts(b)
<1>1. n \in Nat /\ \A i \in 1 .. n : b[i] \in 0 .. Byte - 1
  BY BufferIs
<1> DEFINE T == {i \in Nat : l[i] \in 0 .. Values(i) - 1}
<1>2. 0 \in T
  BY LastsIs, ValuesNext
<1>3. ASSUME NEW i \in 0 .. n - 1, i \in T PROVE i + 1 \in T
  <2>1. l[i + 1] = b[n + 1 - (i + 1)] + Byte * l[i]
    BY <1>1, LastsIs
  <2>2. b[n + 1 - (i + 1)] \in 0 .. Byte - 1
    BY <1>1
  <2>3. Values(i + 1) = Byte * Values(i) /\ Values(i) \in Nat
    <3>1. i \in Nat BY <1>1
    <3> QED BY <3>1, ValuesNext, ValuesPositive
  <2>4. \A x, y, a \in Nat : x <= y - 1 /\ a <= Byte - 1 => a + Byte * x <= Byte * y - 1 /\ a + Byte * x \in Nat
    <3> SUFFICES ASSUME NEW x \in Nat, NEW y \in Nat, NEW a \in Nat, x <= y - 1, a <= Byte - 1
                 PROVE  a + Byte * x <= Byte * y - 1 /\ a + Byte * x \in Nat
      OBVIOUS
    <3>1. Byte * x <= Byte * (y - 1) /\ Byte * x \in Nat
      BY CodecAssumption
    <3>2. Byte * (y - 1) = Byte * y - Byte
      BY CodecAssumption
    <3> QED BY <3>1, <3>2, CodecAssumption
  <2>5. l[i] \in Nat /\ l[i] <= Values(i) - 1
    BY <1>3, <2>3
  <2>6. b[n + 1 - (i + 1)] + Byte * l[i] <= Byte * Values(i) - 1 /\ b[n + 1 - (i + 1)] + Byte * l[i] \in Nat
    <3> HIDE DEF l, n
    <3> QED BY <2>2, <2>3, <2>4, <2>5, CodecAssumption
  <2> QED BY <2>1, <2>3, <2>6
<1>4. 0 .. n \subseteq T
  <2> HIDE DEF T
  <2> QED BY <1>1, <1>2, <1>3, BoundedInduction
<1> QED BY <1>1, <1>4, LastsIs DEF Numbers

(* GBIT reads what PBIT has written.                                       *)
LEMMA GBITofPBIT ==
    ASSUME NEW w \in Nat, NEW v \in Numbers(w)
    PROVE  GBIT(PBIT(w, v)) = v
<1> DEFINE r == Rests(w, v)
           b == PBIT(w, v)
           l == Lasts(b)
<1>0. v \in Nat /\ v < Values(w)
  BY ValuesPositive DEF Numbers
<1>b. b \in Buffers /\ Len(b) = w
  BY <1>0, PBITBytes
<1>r. r[0] = v /\ (\A i \in 1 .. w : r[i] = r[i - 1] \div Byte) /\ \A i \in 0 .. w : r[i] \in Nat
  BY <1>0, RestsIs
<1>p. \A i \in 1 .. w : b[i] = r[i - 1] % Byte
  BY <1>0, RestsIs
<1>l. GBIT(b) = l[w] /\ l[0] = 0 /\ \A i \in 1 .. w : l[i] = b[w + 1 - i] + Byte * l[i - 1]
  BY <1>b, LastsIs
<1> HIDE DEF r, b, l
<1>1. r[w] = 0
  <2> DEFINE T == {i \in Nat : r[i] * Values(i) <= v}
  <2>1. 0 \in T
    BY <1>0, <1>r, ValuesNext
  <2>2. ASSUME NEW i \in 0 .. w - 1, i \in T PROVE i + 1 \in T
    <3>1. r[i + 1] = r[i] \div Byte /\ r[i] \in Nat /\ r[i + 1] \in Nat
      BY <1>r
    <3>2. Values(i + 1) = Byte * Values(i) /\ Values(i) \in Nat
      BY ValuesNext, ValuesPositive
    <3>3. (r[i] \div Byte) * Byte <= r[i]
      BY <3>1, CodecAssumption
    <3>4. \A x, y, z \in Nat : x * Byte <= y => x * (Byte * z) <= y * z
      <4> SUFFICES ASSUME NEW x \in Nat, NEW y \in Nat, NEW z \in Nat, x * Byte <= y
                   PROVE  x * (Byte * z) <= y * z
        OBVIOUS
      <4>1. x * (Byte * z) = (x * Byte) * z
        BY CodecAssumption
      <4>2. x * Byte \in Nat
        BY CodecAssumption
      <4>3. \A k \in Nat : k <= y => k * z <= y * z
        OBVIOUS
      <4> QED BY <4>1, <4>2, <4>3
    <3>5. r[i + 1] * Values(i + 1) <= r[i] * Values(i)
      BY <3>1, <3>2, <3>3, <3>4
    <3>6. r[i] * Values(i) <= v
      BY <2>2
    <3>7. r[i + 1] * Values(i + 1) \in Nat /\ r[i] * Values(i) \in Nat
      BY <3>1, <3>2, CodecAssumption
    <3> QED BY <3>5, <3>6, <3>7, <1>0
  <2>3. 0 .. w \subseteq T
    <3> HIDE DEF T
    <3> QED BY <2>1, <2>2, BoundedInduction
  <2>4. r[w] * Values(w) <= v /\ r[w] \in Nat /\ Values(w) \in Nat
    BY <2>3, <1>r, ValuesPositive
  <2>5. \A x, y \in Nat : x * y <= v /\ v < y => x = 0
    BY <1>0
  <2> QED BY <2>4, <2>5, <1>0
<1>2. w \in {i \in Nat : l[i] = r[w - i]}
  <2> DEFINE T == {i \in Nat : l[i] = r[w - i]}
  <2>1. 0 \in T
    BY <1>1, <1>l
  <2>2. ASSUME NEW i \in 0 .. w - 1, i \in T PROVE i + 1 \in T
    <3> DEFINE x == r[w - i - 1]
    <3>1. l[i + 1] = b[w - i] + Byte * l[i] /\ l[i] = r[w - i]
      BY <2>2, <1>l
    <3>2. b[w - i] = x % Byte /\ r[w - i] = x \div Byte /\ x \in Nat
      BY <1>p, <1>r
    <3>3. (x % Byte) + Byte * (x \div Byte) = x
      BY <3>2, CodecAssumption
    <3> QED BY <3>1, <3>2, <3>3
  <2> HIDE DEF T
  <2>3. w \in T
    BY <2>1, <2>2, BoundedInduction
  <2> QED BY <2>3 DEF T
<1> QED BY <1>2, <1>l, <1>r DEF b

-----------------------------------------------------------------------------
(* Where the bytes e stand in the bytes m, from address p on.              *)

At(m, p, e) == p + Len(e) <= Len(m) /\ \A i \in 1 .. Len(e) : m[p + i] = e[i]

LEMMA ConcatBuffers ==
    ASSUME NEW a \in Buffers, NEW b \in Buffers
    PROVE  /\ a \o b \in Buffers
           /\ Len(a \o b) = Len(a) + Len(b)
           /\ \A i \in 1 .. Len(a) : (a \o b)[i] = a[i]
           /\ \A i \in 1 .. Len(b) : (a \o b)[Len(a) + i] = b[i]
<1>1. a \o b \in Buffers /\ Len(a \o b) = Len(a) + Len(b)
  BY ConcatProperties DEF Buffers
<1>2. \A i \in 1 .. Len(a) + Len(b) : (a \o b)[i] = IF i <= Len(a) THEN a[i] ELSE b[i - Len(a)]
  BY ConcatProperties DEF Buffers
<1> QED BY <1>1, <1>2, BufferIs

LEMMA ConcatLen == \A a, b \in Buffers : a \o b \in Buffers /\ Len(a \o b) = Len(a) + Len(b)
BY ConcatBuffers

LEMMA EmptyBuffer == <<>> \in Buffers /\ Len(<<>>) = 0
BY EmptySeq DEF Buffers

LEMMA AtSelf == ASSUME NEW m \in Buffers PROVE At(m, 0, m)
BY BufferIs DEF At

LEMMA AtConcat ==
    ASSUME NEW m, NEW p \in Nat, NEW a \in Buffers, NEW b \in Buffers, At(m, p, a \o b), Len(m) \in Nat
    PROVE  At(m, p, a) /\ At(m, p + Len(a), b)
<1>1. Len(a) \in Nat /\ Len(b) \in Nat /\ Len(a \o b) = Len(a) + Len(b)
  BY BufferIs, ConcatBuffers
<1>2. p + (Len(a) + Len(b)) <= Len(m)
  BY <1>1 DEF At
<1>3. ASSUME NEW i \in 1 .. Len(a) PROVE m[p + i] = a[i]
  <2>1. i \in 1 .. Len(a \o b) /\ (a \o b)[i] = a[i]
    BY <1>1, ConcatBuffers
  <2> QED BY <2>1 DEF At
<1>4. ASSUME NEW i \in 1 .. Len(b) PROVE m[(p + Len(a)) + i] = b[i]
  <2>1. Len(a) + i \in 1 .. Len(a \o b) /\ (a \o b)[Len(a) + i] = b[i]
    BY <1>1, ConcatBuffers
  <2>2. m[p + (Len(a) + i)] = b[i]
    BY <2>1 DEF At
  <2>3. p + (Len(a) + i) = (p + Len(a)) + i
    BY <1>1
  <2> QED BY <2>2, <2>3
<1> QED BY <1>1, <1>2, <1>3, <1>4 DEF At

LEMMA AtBytes ==
    ASSUME NEW m, Len(m) \in Nat, NEW p \in Nat, NEW e \in Buffers, At(m, p, e)
    PROVE  Bytes(m, p, Len(e)) = e
<1> DEFINE n == Len(e)
           S == 0 .. Byte - 1
<1>1. n \in Nat /\ \A i \in 1 .. n : e[i] \in S
  BY BufferIs
<1>2. \A i \in p + 1 .. p + n : m[i] \in S
  <2> SUFFICES ASSUME NEW i \in p + 1 .. p + n PROVE m[i] \in S
    OBVIOUS
  <2>1. i - p \in 1 .. n /\ p + (i - p) = i
    BY <1>1
  <2>2. m[p + (i - p)] = e[i - p]
    BY <2>1 DEF At
  <2> QED BY <1>1, <2>1, <2>2
<1> DEFINE s == SubSeq(m, p + 1, p + n)
<1>3. s \in Seq(S) /\ Len(s) = n
  BY <1>1, <1>2, SubSeqProperties
<1>4. ASSUME NEW i \in 1 .. n PROVE s[i] = e[i]
  <2>1. s[i] = m[p + 1 + i - 1]
    BY <1>1, <1>2, SubSeqProperties
  <2>2. p + 1 + i - 1 = p + i
    BY <1>1
  <2> QED BY <2>1, <2>2 DEF At
<1>5. e \in Seq(S)
  BY ByteIs DEF Buffers
<1> HIDE DEF s, S, n
<1>6. s = e
  BY <1>3, <1>4, <1>5, SeqEqual DEF n
<1> QED BY <1>6 DEF s, n, Bytes

(* A part of a buffer is a buffer.                                         *)
LEMMA BytesBuffer ==
    ASSUME NEW m \in Buffers, NEW p \in Nat, NEW w \in Nat, Fits(m, p, w)
    PROVE  /\ Bytes(m, p, w) \in Buffers /\ Len(Bytes(m, p, w)) = w
           /\ \A i \in 1 .. w : Bytes(m, p, w)[i] = m[p + i]
<1> DEFINE S == 0 .. Byte - 1
<1>1. p + w <= Len(m) /\ \A i \in 1 .. Len(m) : m[i] \in S
  BY BufferIs DEF Fits
<1>2. Len(m) \in Nat
  BY BufferIs
<1>3. \A i \in p + 1 .. p + w : m[i] \in S
  BY <1>1, <1>2
<1> HIDE DEF S
<1>4. Bytes(m, p, w) \in Seq(S) /\ Len(Bytes(m, p, w)) = w
  BY <1>3, SubSeqProperties DEF Bytes
<1>5. ASSUME NEW i \in 1 .. w PROVE Bytes(m, p, w)[i] = m[p + i]
  <2>1. Bytes(m, p, w)[i] = m[p + 1 + i - 1]
    BY <1>3, SubSeqProperties DEF Bytes
  <2> QED BY <2>1
<1> QED BY <1>4, <1>5, ByteIs DEF Buffers, S

(* A string of C is read to its end.                                       *)
LEMMA CStrWhole ==
    ASSUME NEW s \in CStrings
    PROVE  CStr(s) = s /\ s \in Buffers
<1>1. s \in Seq(1 .. Byte - 1)
  <2>1. Numbers(BIT8SZ) \ {NUL} = 1 .. Byte - 1
    BY ByteIs, CodecAssumption DEF NUL
  <2> QED BY <2>1 DEF CStrings
<1>2. \A i \in 1 .. Len(s) : s[i] \in 1 .. Byte - 1
  BY <1>1, ElementOfSeq
<1>3. ~ Contains(s, NUL)
  BY <1>2 DEF Contains, NUL
<1>4. s \in Seq(0 .. Byte - 1)
  <2>1. Len(s) \in Nat /\ s \in [1 .. Len(s) -> 1 .. Byte - 1]
    BY <1>1, LenProperties
  <2>2. s \in [1 .. Len(s) -> 0 .. Byte - 1]
    BY <1>2, <2>1
  <2> QED BY <2>1, <2>2, SeqDef
<1> QED BY <1>3, <1>4, ByteIs DEF CStr, Buffers

-----------------------------------------------------------------------------
(* One field.  How it is written, and what it can be.                      *)

Counted(w) == {b \in Buffers : Len(b) \in Numbers(w)}
Names == {s \in CStrings : Len(s) \in Numbers(BIT16SZ)}
Lists(S) == {v \in Seq(S) : Len(v) <= MAXWELEM /\ Len(v) \in Numbers(BIT16SZ)}

Kinds == {"u8", "u16", "u32", "u64", "str", "qid", "data", "stat", "names", "qids"}

Meant(kind) ==
    CASE kind = "str"   -> Names
      [] kind = "qid"   -> QidType
      [] kind = "names" -> Lists(Names)
      [] kind = "qids"  -> Lists(QidType)
      [] kind = "data"  -> Counted(BIT32SZ)
      [] kind = "stat"  -> Counted(BIT16SZ)
      [] kind = "u64"   -> [1 .. BIT64SZ -> Numbers(BIT8SZ)]
      [] OTHER          -> Numbers(Width[kind])

Written(kind, v) ==
    CASE kind = "str"   -> Pstring(v)
      [] kind = "qid"   -> Pqid(v)
      [] kind = "names" -> U16(Len(v)) \o Each(Pstring, v)
      [] kind = "qids"  -> U16(Len(v)) \o Each(Pqid, v)
      [] kind = "data"  -> U32(Len(v)) \o v
      [] kind = "stat"  -> U16(Len(v)) \o v
      [] kind = "u64"   -> v
      [] OTHER          -> PBIT(Width[kind], v)

LEMMA NumbersAre == \A w \in Nat : Numbers(w) \subseteq Nat
BY ValuesPositive DEF Numbers

(* A number is read as it was written.                                     *)
LEMMA NumberRead ==
    ASSUME NEW m \in Buffers, NEW p \in Nat, NEW w \in Nat, NEW v \in Numbers(w), At(m, p, PBIT(w, v))
    PROVE  Fits(m, p, w) /\ GBIT(Bytes(m, p, w)) = v
<1>1. PBIT(w, v) \in Buffers /\ Len(PBIT(w, v)) = w
  BY PBITBytes, NumbersAre
<1>2. Bytes(m, p, w) = PBIT(w, v)
  BY <1>1, AtBytes, BufferIs
<1> QED BY <1>1, <1>2, GBITofPBIT DEF At, Fits

(* So is a count and as many bytes.                                        *)
LEMMA CountedRead ==
    ASSUME NEW m \in Buffers, NEW p \in Nat, NEW w \in Nat, NEW b \in Counted(w),
           At(m, p, PBIT(w, Len(b)) \o b)
    PROVE  Gcounted(m, p, w) = Got(p + Len(PBIT(w, Len(b)) \o b), b)
<1>1. b \in Buffers /\ Len(b) \in Numbers(w) /\ Len(b) \in Nat /\ Len(m) \in Nat
  BY NumbersAre, BufferIs DEF Counted
<1>2. PBIT(w, Len(b)) \in Buffers /\ Len(PBIT(w, Len(b))) = w
  BY <1>1, PBITBytes
<1>3. At(m, p, PBIT(w, Len(b))) /\ At(m, p + w, b)
  BY <1>1, <1>2, AtConcat
<1>4. Fits(m, p, w) /\ GBIT(Bytes(m, p, w)) = Len(b)
  BY <1>1, <1>3, NumberRead
<1>5. Fits(m, p + w, Len(b)) /\ Bytes(m, p + w, Len(b)) = b
  <2>1. p + w \in Nat
    OBVIOUS
  <2> QED BY <1>1, <1>3, <2>1, AtBytes DEF Fits, At
<1>6. Len(PBIT(w, Len(b)) \o b) = w + Len(b)
  BY <1>1, <1>2, ConcatBuffers
<1>7. p + w + Len(b) = p + (w + Len(b))
  BY <1>1
<1> QED BY <1>4, <1>5, <1>6, <1>7 DEF Gcounted

LEMMA NamesCounted == \A s \in Names : s \in Counted(BIT16SZ) /\ CStr(s) = s
BY CStrWhole DEF Names, Counted

LEMMA StringRead ==
    ASSUME NEW m \in Buffers, NEW p \in Nat, NEW s \in Names, At(m, p, Pstring(s))
    PROVE  Gstring(m, p) = Got(p + Len(Pstring(s)), s)
<1>1. Gcounted(m, p, BIT16SZ) = Got(p + Len(Pstring(s)), s)
  BY NamesCounted, CountedRead DEF Pstring, U16, BIT16SZ
<1> QED BY <1>1, NamesCounted DEF Gstring, Got

LEMMA StringBuffer == \A s \in Names : Pstring(s) \in Buffers /\ Len(Pstring(s)) = Stringsz(s)
<1> TAKE s \in Names
<1>1. s \in Buffers /\ Len(s) \in Nat
  BY NamesCounted, BufferIs DEF Counted
<1>2. U16(Len(s)) \in Buffers /\ Len(U16(Len(s))) = BIT16SZ
  BY <1>1, PBITBytes DEF U16, BIT16SZ
<1> QED BY <1>1, <1>2, ConcatBuffers DEF Pstring, Stringsz

(* A function of bytes is a buffer.                                        *)
LEMMA OpaqueBuffer == \A v \in [1 .. BIT64SZ -> Numbers(BIT8SZ)] : v \in Buffers /\ Len(v) = BIT64SZ
<1> TAKE v \in [1 .. BIT64SZ -> Numbers(BIT8SZ)]
<1>1. v \in Seq(Numbers(BIT8SZ))
  BY SeqDef DEF BIT64SZ
<1>2. Len(v) = BIT64SZ
  BY <1>1, LenProperties DEF BIT64SZ
<1> QED BY <1>1, <1>2 DEF Buffers

LEMMA QidBuffer ==
    \A q \in QidType :
        /\ Pqid(q) \in Buffers /\ Len(Pqid(q)) = QIDSZ
        /\ U8(q.type) \o U32(q.vers) \in Buffers /\ Len(U8(q.type) \o U32(q.vers)) = BIT8SZ + BIT32SZ
<1> TAKE q \in QidType
<1> DEFINE a == U8(q.type)
           b == U32(q.vers)
           c == q.path
<1>1. q.type \in Nat /\ q.vers \in Nat /\ c \in Buffers /\ Len(c) = BIT64SZ
  <2>1. q.type \in Numbers(BIT8SZ) /\ q.vers \in Numbers(BIT32SZ) /\ c \in [1 .. BIT64SZ -> Numbers(BIT8SZ)]
    BY DEF QidType
  <2> QED BY <2>1, NumbersAre, OpaqueBuffer DEF BIT8SZ, BIT32SZ
<1>2. a \in Buffers /\ Len(a) = BIT8SZ /\ b \in Buffers /\ Len(b) = BIT32SZ
  <2>1. BIT8SZ \in Nat /\ BIT32SZ \in Nat
    BY DEF BIT8SZ, BIT32SZ
  <2> QED BY <1>1, <2>1, PBITBytes DEF U8, U32
<1>p. Pqid(q) = a \o b \o c
  BY DEF Pqid
<1> HIDE DEF a, b, c
<1>3. a \o b \in Buffers /\ Len(a \o b) = BIT8SZ + BIT32SZ
  BY <1>2, ConcatLen
<1>5. a \o b \o c \in Buffers /\ Len(a \o b \o c) = BIT8SZ + BIT32SZ + BIT64SZ
  BY <1>1, <1>3, ConcatLen
<1> QED BY <1>p, <1>3, <1>5 DEF QIDSZ, a, b

LEMMA QidRead ==
    ASSUME NEW m \in Buffers, NEW p \in Nat, NEW q \in QidType, At(m, p, Pqid(q))
    PROVE  Gqid(m, p) = Got(p + Len(Pqid(q)), q)
<1> DEFINE a == U8(q.type)
           b == U32(q.vers)
           c == q.path
<1>n. BIT8SZ \in Nat /\ BIT32SZ \in Nat /\ BIT64SZ \in Nat
  BY DEF BIT8SZ, BIT32SZ, BIT64SZ
<1>1. /\ q.type \in Numbers(BIT8SZ) /\ q.vers \in Numbers(BIT32SZ)
      /\ c \in [1 .. BIT64SZ -> Numbers(BIT8SZ)]
      /\ q = [type |-> q.type, vers |-> q.vers, path |-> c]
  BY DEF QidType
<1>c. c \in Buffers /\ Len(c) = BIT64SZ
  BY <1>1, OpaqueBuffer
<1>2. a \in Buffers /\ Len(a) = BIT8SZ /\ b \in Buffers /\ Len(b) = BIT32SZ
  BY <1>1, <1>n, PBITBytes, NumbersAre DEF U8, U32
<1>3. a \o b \in Buffers /\ Len(a \o b) = BIT8SZ + BIT32SZ
  BY QidBuffer
<1>4. Len(m) \in Nat
  BY BufferIs
<1>p. Pqid(q) = a \o b \o c
  BY DEF Pqid
<1>6. /\ At(m, p, a) /\ At(m, p + BIT8SZ, b) /\ At(m, p + (BIT8SZ + BIT32SZ), c)
  <2> HIDE DEF a, b, c
  <2> DEFINE d == a \o b
  <2>1. At(m, p, d) /\ At(m, p + (BIT8SZ + BIT32SZ), c)
    <3>1. At(m, p, d \o c) /\ d \in Buffers /\ Len(d) = BIT8SZ + BIT32SZ
      BY <1>p, <1>3
    <3> HIDE DEF d
    <3> QED BY <1>c, <1>4, <3>1, AtConcat
  <2> QED BY <1>2, <1>4, <2>1, AtConcat
<1>7. GBIT(Bytes(m, p, BIT8SZ)) = q.type /\ GBIT(Bytes(m, p + BIT8SZ, BIT32SZ)) = q.vers
  <2>1. p + BIT8SZ \in Nat /\ a = PBIT(BIT8SZ, q.type) /\ b = PBIT(BIT32SZ, q.vers)
    BY <1>n DEF U8, U32
  <2> HIDE DEF a, b
  <2> QED BY <1>n, <1>1, <1>6, <2>1, NumberRead
<1>8. Bytes(m, p + (BIT8SZ + BIT32SZ), BIT64SZ) = c
  BY <1>n, <1>c, <1>4, <1>6, AtBytes
<1>9. Len(Pqid(q)) = QIDSZ /\ Fits(m, p, QIDSZ)
  BY QidBuffer DEF At, Fits
<1> HIDE DEF c
<1> QED BY <1>1, <1>7, <1>8, <1>9 DEF Gqid, BIT8SZ, BIT32SZ, BIT64SZ

-----------------------------------------------------------------------------
(* Buffers one after the other                                             *)

(* The same as \o, but nothing the provers take apart.                     *)
Then(a, b) == a \o b

LEMMA CatExists ==
    ASSUME NEW n \in Nat, NEW s
    PROVE  \E c : c = [i \in 0 .. n |-> IF i = 0 THEN <<>> ELSE c[i - 1] \o s[i]]
<1> DEFINE Is(k, c) == c = [i \in 0 .. k |-> IF i = 0 THEN <<>> ELSE Then(c[i - 1], s[i])]
           T == {k \in Nat : \E c : Is(k, c)}
<1>1. 0 \in T
  <2> DEFINE c == [i \in 0 .. 0 |-> <<>>]
  <2>1. Is(0, c)
    OBVIOUS
  <2> QED BY <2>1
<1>2. ASSUME NEW k \in Nat, k \in T PROVE k + 1 \in T
  <2>1. PICK c : Is(k, c)
    BY <1>2
  <2> DEFINE q == [i \in 0 .. k + 1 |-> IF i = k + 1 THEN Then(c[k], s[k + 1]) ELSE c[i]]
  <2>2. Is(k + 1, q)
    BY <2>1
  <2> HIDE DEF Is, q
  <2> QED BY <2>2
<1>3. Nat \subseteq T
  <2> HIDE DEF T
  <2> QED BY <1>1, <1>2, SetInduction
<1> QED BY <1>3 DEF Then

(* What the first i elements of s make.                                    *)
Cat(s) == CHOOSE c : c = [i \in 0 .. Len(s) |-> IF i = 0 THEN <<>> ELSE c[i - 1] \o s[i]]

LEMMA CatIs ==
    ASSUME NEW s \in Seq(Buffers)
    PROVE  /\ Len(s) \in Nat
           /\ Cat(s)[0] = <<>>
           /\ \A i \in 1 .. Len(s) : s[i] \in Buffers /\ Cat(s)[i] = Cat(s)[i - 1] \o s[i]
           /\ \A i \in 0 .. Len(s) : Cat(s)[i] \in Buffers
<1> DEFINE c == Cat(s)
           n == Len(s)
<1>1. n \in Nat /\ \A i \in 1 .. n : s[i] \in Buffers
  BY ElementOfSeq, LenProperties
<1>2. c = [i \in 0 .. n |-> IF i = 0 THEN <<>> ELSE Then(c[i - 1], s[i])]
  <2>1. \E k : k = [i \in 0 .. n |-> IF i = 0 THEN <<>> ELSE k[i - 1] \o s[i]]
    BY <1>1, CatExists
  <2> QED BY <2>1 DEF Cat, Then
<1> HIDE DEF c, n
<1>3. c[0] = <<>> /\ \A i \in 1 .. n : c[i] = Then(c[i - 1], s[i])
  BY <1>1, <1>2
<1> DEFINE T == {i \in Nat : c[i] \in Buffers}
<1>4. 0 \in T
  BY <1>3, EmptyBuffer
<1>5. ASSUME NEW i \in 0 .. n - 1, i \in T PROVE i + 1 \in T
  <2>1. i + 1 \in 1 .. n /\ (i + 1) - 1 = i /\ i \in Nat
    BY <1>1
  <2>2. c[i + 1] = Then(c[i], s[i + 1]) /\ s[i + 1] \in Buffers
    BY <1>1, <1>3, <2>1
  <2>3. \A a, b \in Buffers : Then(a, b) \in Buffers
    BY ConcatLen DEF Then
  <2> QED BY <1>5, <2>1, <2>2, <2>3
<1>6. 0 .. n \subseteq T
  <2> HIDE DEF T
  <2> QED BY <1>1, <1>4, <1>5, BoundedInduction
<1> QED BY <1>1, <1>3, <1>6 DEF c, n, Then

LEMMA FlattenIs ==
    ASSUME NEW s \in Seq(Buffers)
    PROVE  FlattenSeq(s) = Cat(s)[Len(s)]
<1> DEFINE n == Len(s)
           c == Cat(s)
           Is(f) == f = [i \in 1 .. n |-> IF i = 1 THEN s[i] ELSE Then(f[i - 1], s[i])]
           g == CHOOSE f : Is(f)
<1>1. /\ n \in Nat /\ c[0] = <<>> /\ \A i \in 1 .. n : c[i] = Then(c[i - 1], s[i])
      /\ \A i \in 1 .. n : s[i] \in Buffers
  BY CatIs DEF Then
<1>2. CASE n = 0
  <2>1. s = <<>>
    BY <1>2, EmptySeq
  <2> QED BY <1>1, <1>2, <2>1 DEF FlattenSeq
<1>3. CASE n # 0
  <2>1. FlattenSeq(s) = g[n]
    BY <1>3 DEF FlattenSeq, Then
  <2> HIDE DEF c, n
  <2>2. 1 \in 1 .. n => c[1] = s[1]
    <3> SUFFICES ASSUME 1 \in 1 .. n PROVE c[1] = s[1]
      OBVIOUS
    <3>1. c[1] = Then(c[0], s[1]) /\ s[1] \in Buffers
      BY <1>1
    <3>2. \A b \in Buffers : Then(<<>>, b) = b
      BY ConcatEmptySeq DEF Buffers, Then
    <3> QED BY <3>1, <3>2, <1>1
  <2>3. Is([i \in 1 .. n |-> c[i]])
    BY <1>1, <2>2
  <2>4. Is(g)
    <3> HIDE DEF Is
    <3> QED BY <2>3
  <2> HIDE DEF g
  <2> DEFINE T == {i \in Nat : i # 0 => g[i] = c[i]}
  <2>5. \A i \in 0 .. n - 1 : i \in T => i + 1 \in T
    BY <1>1, <2>2, <2>4
  <2>6. n \in T
    <3>1. 0 \in T /\ n \in Nat
      BY <1>1
    <3> HIDE DEF T
    <3>2. 0 .. n \subseteq T
      BY <2>5, <3>1, BoundedInduction
    <3> QED BY <3>1, <3>2
  <2> QED BY <1>3, <2>1, <2>6 DEF c, n
<1> QED BY <1>2, <1>3

(* Each element stands where those before it end.                          *)
LEMMA AtCat ==
    ASSUME NEW m \in Buffers, NEW p \in Nat, NEW s \in Seq(Buffers), At(m, p, Cat(s)[Len(s)])
    PROVE  /\ \A i \in 0 .. Len(s) : Len(Cat(s)[i]) \in Nat
           /\ \A i \in 1 .. Len(s) :
                  /\ At(m, p + Len(Cat(s)[i - 1]), s[i])
                  /\ Len(Cat(s)[i]) = Len(Cat(s)[i - 1]) + Len(s[i])
           /\ Len(Cat(s)[0]) = 0
<1> DEFINE n == Len(s)
           c == Cat(s)
           T == {k \in Nat : At(m, p, c[n - k])}
<1>1. /\ n \in Nat /\ c[0] = <<>> /\ \A i \in 0 .. n : c[i] \in Buffers
      /\ \A i \in 1 .. n : s[i] \in Buffers /\ c[i] = c[i - 1] \o s[i]
  BY CatIs
<1>2. Len(m) \in Nat
  BY BufferIs
<1> HIDE DEF c
<1>3. ASSUME NEW i \in 1 .. n, At(m, p, c[i])
      PROVE  At(m, p, c[i - 1]) /\ At(m, p + Len(c[i - 1]), s[i])
  <2>1. i - 1 \in 0 .. n
    BY <1>1
  <2> QED BY <1>1, <1>2, <1>3, <2>1, AtConcat
<1>4. 0 .. n \subseteq T
  <2>1. 0 \in T
    BY <1>1 DEF c
  <2>2. ASSUME NEW k \in 0 .. n - 1, k \in T PROVE k + 1 \in T
    <3>1. n - k \in 1 .. n /\ (n - k) - 1 = n - (k + 1) /\ k \in Nat
      BY <1>1
    <3> QED BY <1>3, <2>2, <3>1
  <2> HIDE DEF T
  <2> QED BY <1>1, <2>1, <2>2, BoundedInduction
<1>5. ASSUME NEW i \in 1 .. n PROVE At(m, p + Len(c[i - 1]), s[i])
  <2>1. n - i \in 0 .. n /\ n - (n - i) = i
    BY <1>1
  <2> QED BY <1>3, <1>4, <2>1
<1>6. \A i \in 0 .. n : Len(c[i]) \in Nat
  BY <1>1, BufferIs
<1>7. ASSUME NEW i \in 1 .. n PROVE Len(c[i]) = Len(c[i - 1]) + Len(s[i])
  <2>1. i - 1 \in 0 .. n
    BY <1>1
  <2> QED BY <1>1, <2>1, ConcatLen
<1> QED BY <1>1, <1>5, <1>6, <1>7, EmptyBuffer DEF c

-----------------------------------------------------------------------------
(* Lists of names and of qids                                              *)

(* The next element, of either kind.                                       *)
ListStep(m, g, kind) ==
    IF g.p = Nil THEN g ELSE Got(Get(m, g.p, kind).p, Append(g.v, Get(m, g.p, kind).v))

ListFrom(l, n, m, g, kind) == l = [i \in 0 .. n |-> IF i = 0 THEN g ELSE ListStep(m, l[i - 1], kind)]

LEMMA ListExists ==
    ASSUME NEW n \in Nat, NEW m, NEW g, NEW kind
    PROVE  \E l : ListFrom(l, n, m, g, kind)
<1> DEFINE Is(k, l) == l = [i \in 0 .. k |-> IF i = 0 THEN g ELSE ListStep(m, l[i - 1], kind)]
           T == {k \in Nat : \E l : Is(k, l)}
<1>1. 0 \in T
  <2> DEFINE l == [i \in 0 .. 0 |-> g]
  <2>1. Is(0, l)
    OBVIOUS
  <2> QED BY <2>1
<1>2. ASSUME NEW k \in Nat, k \in T PROVE k + 1 \in T
  <2>1. PICK l : Is(k, l)
    BY <1>2
  <2> DEFINE q == [i \in 0 .. k + 1 |-> IF i = k + 1 THEN ListStep(m, l[k], kind) ELSE l[i]]
  <2>2. Is(k + 1, q)
    BY <2>1
  <2> HIDE DEF Is, q
  <2> QED BY <2>2
<1>3. Nat \subseteq T
  <2> HIDE DEF T
  <2> QED BY <1>1, <1>2, SetInduction
<1> QED BY <1>3 DEF ListFrom

(* What Glist goes through.                                                *)
ListIs(l, m, p, kind) == ListFrom(l, MAXWELEM, m, Got(p + BIT16SZ, <<>>), kind)

GlistOf(m, p, l) ==
    IF ~Fits(m, p, BIT16SZ) THEN NotGot
    ELSE IF GBIT(Bytes(m, p, BIT16SZ)) > MAXWELEM THEN NotGot
    ELSE l[GBIT(Bytes(m, p, BIT16SZ))]

LEMMA NamesUnfold ==
    ASSUME NEW m, NEW p
    PROVE  \E l : ListIs(l, m, p, "str") /\ Glist(m, p, Gstring) = GlistOf(m, p, l)
<1> DEFINE Is(l) ==
        l = [i \in 0 .. MAXWELEM |->
                IF i = 0 THEN Got(p + BIT16SZ, <<>>)
                ELSE IF l[i - 1].p = Nil THEN l[i - 1]
                     ELSE Got(Gstring(m, l[i - 1].p).p, Append(l[i - 1].v, Gstring(m, l[i - 1].p).v))]
           l == CHOOSE l : Is(l)
<1>1. \A q : ListIs(q, m, p, "str") <=> Is(q)
  <2>1. \A g : ListStep(m, g, "str") = IF g.p = Nil THEN g ELSE Got(Gstring(m, g.p).p, Append(g.v, Gstring(m, g.p).v))
    BY DEF ListStep, Get
  <2> QED BY <2>1 DEF ListIs, ListFrom
<1>2. \E q : Is(q)
  <2>1. \E q : ListIs(q, m, p, "str")
    <3>1. MAXWELEM \in Nat
      BY CodecAssumption
    <3> QED BY <3>1, ListExists DEF ListIs
  <2> HIDE DEF Is
  <2> QED BY <1>1, <2>1
<1>3. Is(l)
  <2> HIDE DEF Is
  <2> QED BY <1>2
<1>4. Glist(m, p, Gstring) = GlistOf(m, p, l)
  BY DEF Glist, GlistOf
<1> HIDE DEF Is, l
<1> QED BY <1>1, <1>3, <1>4

LEMMA QidsUnfold ==
    ASSUME NEW m, NEW p
    PROVE  \E l : ListIs(l, m, p, "qid") /\ Glist(m, p, Gqid) = GlistOf(m, p, l)
<1> DEFINE Is(l) ==
        l = [i \in 0 .. MAXWELEM |->
                IF i = 0 THEN Got(p + BIT16SZ, <<>>)
                ELSE IF l[i - 1].p = Nil THEN l[i - 1]
                     ELSE Got(Gqid(m, l[i - 1].p).p, Append(l[i - 1].v, Gqid(m, l[i - 1].p).v))]
           l == CHOOSE l : Is(l)
<1>1. \A q : ListIs(q, m, p, "qid") <=> Is(q)
  <2>1. \A g : ListStep(m, g, "qid") = IF g.p = Nil THEN g ELSE Got(Gqid(m, g.p).p, Append(g.v, Gqid(m, g.p).v))
    BY DEF ListStep, Get
  <2> QED BY <2>1 DEF ListIs, ListFrom
<1>2. \E q : Is(q)
  <2>1. \E q : ListIs(q, m, p, "qid")
    <3>1. MAXWELEM \in Nat
      BY CodecAssumption
    <3> QED BY <3>1, ListExists DEF ListIs
  <2> HIDE DEF Is
  <2> QED BY <1>1, <2>1
<1>3. Is(l)
  <2> HIDE DEF Is
  <2> QED BY <1>2
<1>4. Glist(m, p, Gqid) = GlistOf(m, p, l)
  BY DEF Glist, GlistOf
<1> HIDE DEF Is, l
<1> QED BY <1>1, <1>3, <1>4

(* One more element of a sequence.                                         *)
LEMMA SubSeqNext ==
    ASSUME NEW S, NEW v \in Seq(S), NEW k \in 0 .. Len(v) - 1
    PROVE  Append(SubSeq(v, 1, k), v[k + 1]) = SubSeq(v, 1, k + 1)
<1>1. Len(v) \in Nat /\ k \in Nat /\ k + 1 \in 1 .. Len(v) /\ 1 \in 1 .. Len(v) /\ k + 1 \in 1 .. Len(v) /\ (k + 1) - 1 = k
  BY LenProperties
<1>2. SubSeq(v, 1, k + 1) = SubSeq(v, 1, k) \o << v[k + 1] >>
  BY <1>1, SubSeqRecursiveSecond
<1>3. v[k + 1] \in S /\ \A i \in 1 .. k : v[i] \in S
  <2>1. \A i \in 1 .. Len(v) : v[i] \in S
    BY ElementOfSeq
  <2> QED BY <1>1, <2>1
<1>4. SubSeq(v, 1, k) \in Seq(S)
  BY <1>1, <1>3, SubSeqProperties
<1> QED BY <1>2, <1>3, <1>4, AppendIsConcat

LEMMA ElementRead ==
    ASSUME NEW m \in Buffers, NEW p \in Nat, NEW kind \in {"str", "qid"}, NEW v \in Meant(kind),
           At(m, p, Written(kind, v))
    PROVE  Get(m, p, kind) = Got(p + Len(Written(kind, v)), v) /\ Written(kind, v) \in Buffers
<1>1. p # Nil
  BY DEF Nil
<1>2. CASE kind = "str"
  BY <1>1, <1>2, StringRead, StringBuffer DEF Get, Meant, Written
<1>3. CASE kind = "qid"
  BY <1>1, <1>3, QidRead, QidBuffer DEF Get, Meant, Written
<1> QED BY <1>2, <1>3

(* A list is read as it was written.                                       *)
LEMMA ListRead ==
    ASSUME NEW m \in Buffers, NEW p \in Nat, NEW kind \in {"str", "qid"}, NEW v \in Lists(Meant(kind)),
           NEW s \in Seq(Buffers), Len(s) = Len(v), \A i \in 1 .. Len(v) : s[i] = Written(kind, v[i]),
           At(m, p, U16(Len(v)) \o Cat(s)[Len(s)]),
           NEW l, ListIs(l, m, p, kind)
    PROVE  GlistOf(m, p, l) = Got(p + Len(U16(Len(v)) \o Cat(s)[Len(s)]), v)
<1> DEFINE n == Len(v)
           S == Meant(kind)
           c == Cat(s)
           e == U16(Len(v))
<1>n. BIT16SZ \in Nat
  BY DEF BIT16SZ
<1>1. /\ n \in Nat /\ n <= MAXWELEM /\ n \in Numbers(BIT16SZ) /\ v \in Seq(S)
      /\ \A i \in 1 .. n : v[i] \in S
  BY LenProperties, ElementOfSeq DEF Lists
<1>2. e \in Buffers /\ Len(e) = BIT16SZ /\ e = PBIT(BIT16SZ, n)
  BY <1>n, <1>1, PBITBytes DEF U16
<1>4. Len(m) \in Nat
  BY BufferIs
<1>5. Len(s) = n
  OBVIOUS
<1> HIDE DEF n
<1>3. c[n] \in Buffers /\ Len(c[n]) \in Nat
  <2>1. \A i \in 0 .. n : c[i] \in Buffers
    BY <1>5, CatIs
  <2>2. n \in 0 .. n
    BY <1>1
  <2> HIDE DEF c
  <2> QED BY <2>1, <2>2, BufferIs
<1> HIDE DEF c, e
<1>6. At(m, p, e \o c[n])
  BY <1>5 DEF c, e
<1>7. At(m, p, e) /\ At(m, p + BIT16SZ, c[n])
  BY <1>2, <1>3, <1>4, <1>6, AtConcat
<1>8. Fits(m, p, BIT16SZ) /\ GBIT(Bytes(m, p, BIT16SZ)) = n
  BY <1>n, <1>1, <1>2, <1>7, NumberRead
<1>9. GlistOf(m, p, l) = l[n]
  <2>1. ~ (n > MAXWELEM)
    BY <1>1, CodecAssumption
  <2> QED BY <1>8, <2>1 DEF GlistOf
<1>a. l[0] = Got(p + BIT16SZ, <<>>) /\ \A i \in 1 .. n : l[i] = ListStep(m, l[i - 1], kind)
  BY <1>1, CodecAssumption DEF ListIs, ListFrom
<1> DEFINE q == p + BIT16SZ
           end(i) == q + Len(c[i])
<1>q. q \in Nat
  BY <1>n
<1>b. /\ \A i \in 0 .. n : end(i) \in Nat
      /\ \A i \in 1 .. n : At(m, end(i - 1), s[i]) /\ end(i) = end(i - 1) + Len(s[i])
      /\ end(0) = q
  <2> DEFINE o(i) == Len(c[i])
  <2>1. /\ \A i \in 0 .. n : o(i) \in Nat
        /\ \A i \in 1 .. n : At(m, q + o(i - 1), s[i]) /\ o(i) = o(i - 1) + Len(s[i])
        /\ o(0) = 0
    <3>1. At(m, q, Cat(s)[Len(s)])
      BY <1>5, <1>7 DEF c
    <3> HIDE DEF q
    <3>2. /\ \A i \in 0 .. Len(s) : Len(Cat(s)[i]) \in Nat
          /\ \A i \in 1 .. Len(s) :
                 /\ At(m, q + Len(Cat(s)[i - 1]), s[i])
                 /\ Len(Cat(s)[i]) = Len(Cat(s)[i - 1]) + Len(s[i])
          /\ Len(Cat(s)[0]) = 0
      BY <1>q, <3>1, AtCat
    <3> QED BY <1>5, <3>2 DEF c
  <2>2. \A i \in 1 .. n : Len(s[i]) \in Nat
    BY <1>5, CatIs, BufferIs
  <2>3. \A i \in 0 .. n : end(i) = q + o(i)
    OBVIOUS
  <2>4. \A i \in 1 .. n : i - 1 \in 0 .. n /\ i \in 0 .. n
    BY <1>1
  <2>5. 0 \in 0 .. n
    BY <1>1
  <2> HIDE DEF o, q, end
  <2> QED BY <1>q, <2>1, <2>2, <2>3, <2>4, <2>5
<1> HIDE DEF q, end
<1> DEFINE T == {i \in Nat : l[i] = Got(end(i), SubSeq(v, 1, i))}
<1>c. 0 \in T
  <2>1. SubSeq(v, 1, 0) = <<>>
    BY SubSeqEmpty
  <2> QED BY <1>a, <1>b, <2>1 DEF q
<1>d. ASSUME NEW i \in 0 .. n - 1, i \in T PROVE i + 1 \in T
  <2>1. i \in Nat /\ i + 1 \in 1 .. n /\ (i + 1) - 1 = i /\ i \in 0 .. n
    BY <1>1
  <2>2. end(i) \in Nat /\ end(i) # Nil
    BY <1>b, <2>1 DEF Nil
  <2>3. Get(m, end(i), kind) = Got(end(i + 1), v[i + 1])
    <3>1. At(m, end(i), Written(kind, v[i + 1])) /\ s[i + 1] = Written(kind, v[i + 1])
      BY <1>b, <2>1 DEF n
    <3>2. v[i + 1] \in Meant(kind)
      BY <1>1, <2>1
    <3>3. Get(m, end(i), kind) = Got(end(i) + Len(s[i + 1]), v[i + 1])
      <4> DEFINE x == v[i + 1]
      <4>1. At(m, end(i), Written(kind, x)) /\ x \in Meant(kind)
        BY <3>1, <3>2
      <4> HIDE DEF x
      <4>2. Get(m, end(i), kind) = Got(end(i) + Len(Written(kind, x)), x)
        BY <2>2, <4>1, ElementRead
      <4> QED BY <3>1, <4>2 DEF x
    <3> QED BY <1>b, <2>1, <3>3
  <2>5. Append(SubSeq(v, 1, i), v[i + 1]) = SubSeq(v, 1, i + 1)
    BY <1>1, SubSeqNext DEF n
  <2>6. l[i] = Got(end(i), SubSeq(v, 1, i))
    BY <1>d
  <2>7. l[i + 1] = ListStep(m, l[i], kind)
    BY <1>a, <2>1
  <2>8. l[i + 1] = Got(end(i + 1), Append(SubSeq(v, 1, i), v[i + 1]))
    <3> DEFINE b == SubSeq(v, 1, i)
               x == v[i + 1]
    <3> HIDE DEF b, x
    <3>1. l[i] = Got(end(i), b) /\ Get(m, end(i), kind) = Got(end(i + 1), x)
      BY <2>3, <2>6 DEF b, x
    <3>2. l[i + 1] = Got(end(i + 1), Append(b, x))
      BY <2>2, <2>7, <3>1 DEF ListStep, Got
    <3> QED BY <3>2 DEF b, x
  <2>9. l[i + 1] = Got(end(i + 1), SubSeq(v, 1, i + 1))
    <3> DEFINE a == Append(SubSeq(v, 1, i), v[i + 1])
               b == SubSeq(v, 1, i + 1)
    <3>1. a = b /\ l[i + 1] = Got(end(i + 1), a)
      BY <2>5, <2>8
    <3> HIDE DEF a, b
    <3>2. l[i + 1] = Got(end(i + 1), b)
      BY <3>1
    <3> QED BY <3>2 DEF b
  <2> QED BY <2>1, <2>9
<1>e. 0 .. n \subseteq T
  <2> HIDE DEF T
  <2> QED BY <1>1, <1>c, <1>d, BoundedInduction
<1>f. l[n] = Got(end(n), v)
  <2>1. n \in 0 .. n
    BY <1>1
  <2>2. SubSeq(v, 1, n) = v
    BY <1>1, SubSeqFull DEF n
  <2> QED BY <1>e, <2>1, <2>2
<1>h. end(n) = p + Len(e \o c[n])
  <2> DEFINE d == c[n]
  <2>1. e \in Buffers /\ d \in Buffers
    BY <1>2, <1>3
  <2> HIDE DEF d
  <2>2. Len(e \o d) = BIT16SZ + Len(d) /\ Len(d) \in Nat
    BY <1>2, <2>1, ConcatLen, BufferIs
  <2>3. (p + BIT16SZ) + Len(d) = p + Len(e \o d)
    BY <2>2, <1>n
  <2> QED BY <2>3 DEF q, d, end
<1> QED BY <1>9, <1>f, <1>h, <1>5 DEF c, e

LEMMA EachName ==
    ASSUME NEW v \in Seq(Names)
    PROVE  \E s \in Seq(Buffers) :
               /\ Len(s) = Len(v)
               /\ \A i \in 1 .. Len(v) : s[i] = Pstring(v[i]) /\ s[i] = Written("str", v[i])
               /\ Each(Pstring, v) = Cat(s)[Len(s)]
               /\ Each(Pstring, v) \in Buffers
<1> DEFINE n == Len(v)
           s == [i \in 1 .. n |-> Pstring(v[i])]
<1>1. n \in Nat /\ DOMAIN v = 1 .. n /\ \A i \in 1 .. n : v[i] \in Names
  BY LenProperties, ElementOfSeq
<1>2. Each(Pstring, v) = FlattenSeq(s)
  BY <1>1 DEF Each
<1>3. s \in Seq(Buffers)
  <2>1. \A i \in 1 .. n : Pstring(v[i]) \in Buffers
    BY <1>1, StringBuffer
  <2>2. s \in [1 .. n -> Buffers]
    BY <2>1
  <2> HIDE DEF s
  <2> QED BY <1>1, <2>2, SeqDef
<1>4. Len(s) = n
  BY <1>1
<1>5. \A i \in 1 .. n : s[i] = Pstring(v[i]) /\ s[i] = Written("str", v[i])
  BY DEF Written
<1> HIDE DEF s
<1>6. FlattenSeq(s) = Cat(s)[Len(s)] /\ Cat(s)[Len(s)] \in Buffers
  <2>1. Len(s) \in 0 .. Len(s)
    BY <1>1, <1>4
  <2> QED BY <1>3, <2>1, FlattenIs, CatIs
<1> QED BY <1>2, <1>3, <1>4, <1>5, <1>6

LEMMA EachQid ==
    ASSUME NEW v \in Seq(QidType)
    PROVE  \E s \in Seq(Buffers) :
               /\ Len(s) = Len(v)
               /\ \A i \in 1 .. Len(v) : s[i] = Pqid(v[i]) /\ s[i] = Written("qid", v[i])
               /\ Each(Pqid, v) = Cat(s)[Len(s)]
               /\ Each(Pqid, v) \in Buffers
<1> DEFINE n == Len(v)
           s == [i \in 1 .. n |-> Pqid(v[i])]
<1>1. n \in Nat /\ DOMAIN v = 1 .. n /\ \A i \in 1 .. n : v[i] \in QidType
  BY LenProperties, ElementOfSeq
<1>2. Each(Pqid, v) = FlattenSeq(s)
  BY <1>1 DEF Each
<1>3. s \in Seq(Buffers)
  <2>1. \A i \in 1 .. n : Pqid(v[i]) \in Buffers
    BY <1>1, QidBuffer
  <2>2. s \in [1 .. n -> Buffers]
    BY <2>1
  <2> HIDE DEF s
  <2> QED BY <1>1, <2>2, SeqDef
<1>4. Len(s) = n
  BY <1>1
<1>5. \A i \in 1 .. n : s[i] = Pqid(v[i]) /\ s[i] = Written("qid", v[i])
  BY DEF Written
<1> HIDE DEF s
<1>6. FlattenSeq(s) = Cat(s)[Len(s)] /\ Cat(s)[Len(s)] \in Buffers
  <2>1. Len(s) \in 0 .. Len(s)
    BY <1>1, <1>4
  <2> QED BY <1>3, <2>1, FlattenIs, CatIs
<1> QED BY <1>2, <1>3, <1>4, <1>5, <1>6

(* Each field is read as it was written.                                   *)
LEMMA WrittenBuffer ==
    ASSUME NEW kind \in Kinds, NEW v \in Meant(kind)
    PROVE  Written(kind, v) \in Buffers
<1>1. CASE kind = "str"
  BY <1>1, StringBuffer DEF Meant, Written
<1>2. CASE kind = "qid"
  BY <1>2, QidBuffer DEF Meant, Written
<1>3. CASE kind = "names"
  <2>1. v \in Seq(Names) /\ Len(v) \in Nat
    BY <1>3, LenProperties DEF Meant, Lists
  <2>2. Each(Pstring, v) \in Buffers /\ U16(Len(v)) \in Buffers
    BY <2>1, EachName, PBITBytes DEF U16, BIT16SZ
  <2> QED BY <1>3, <2>2, ConcatLen DEF Written
<1>4. CASE kind = "qids"
  <2>1. v \in Seq(QidType) /\ Len(v) \in Nat
    BY <1>4, LenProperties DEF Meant, Lists
  <2>2. Each(Pqid, v) \in Buffers /\ U16(Len(v)) \in Buffers
    BY <2>1, EachQid, PBITBytes DEF U16, BIT16SZ
  <2> QED BY <1>4, <2>2, ConcatLen DEF Written
<1>5. CASE kind = "data"
  <2>1. v \in Buffers /\ Len(v) \in Nat
    BY <1>5, BufferIs DEF Meant, Counted
  <2>2. U32(Len(v)) \in Buffers
    BY <2>1, PBITBytes DEF U32, BIT32SZ
  <2> QED BY <1>5, <2>1, <2>2, ConcatLen DEF Written
<1>6. CASE kind = "stat"
  <2>1. v \in Buffers /\ Len(v) \in Nat
    BY <1>6, BufferIs DEF Meant, Counted
  <2>2. U16(Len(v)) \in Buffers
    BY <2>1, PBITBytes DEF U16, BIT16SZ
  <2> QED BY <1>6, <2>1, <2>2, ConcatLen DEF Written
<1>7. CASE kind = "u64"
  BY <1>7, OpaqueBuffer DEF Meant, Written
<1>8. CASE kind \in {"u8", "u16", "u32"}
  <2>1. Width[kind] \in Nat
    BY <1>8 DEF Width, BIT8SZ, BIT16SZ, BIT32SZ
  <2>2. v \in Numbers(Width[kind]) /\ Written(kind, v) = PBIT(Width[kind], v)
    BY <1>8 DEF Meant, Written
  <2> QED BY <2>1, <2>2, PBITBytes, NumbersAre
<1> QED BY <1>1, <1>2, <1>3, <1>4, <1>5, <1>6, <1>7, <1>8 DEF Kinds

LEMMA FieldRead ==
    ASSUME NEW m \in Buffers, NEW p \in Nat, NEW kind \in Kinds, NEW v \in Meant(kind),
           At(m, p, Written(kind, v))
    PROVE  Get(m, p, kind) = Got(p + Len(Written(kind, v)), v)
<1>0. p # Nil
  BY DEF Nil
<1>1. CASE kind \in {"str", "qid"}
  BY <1>1, ElementRead
<1>3. CASE kind = "names"
  <2>1. v \in Lists(Names) /\ v \in Seq(Names) /\ Lists(Names) = Lists(Meant("str"))
    BY <1>3 DEF Meant, Lists
  <2>2. PICK s \in Seq(Buffers) :
            /\ Len(s) = Len(v) /\ \A i \in 1 .. Len(v) : s[i] = Written("str", v[i])
            /\ Each(Pstring, v) = Cat(s)[Len(s)]
    BY <2>1, EachName
  <2>3. PICK l : ListIs(l, m, p, "str") /\ Glist(m, p, Gstring) = GlistOf(m, p, l)
    BY NamesUnfold
  <2>4. Written(kind, v) = U16(Len(v)) \o Cat(s)[Len(s)]
    BY <1>3, <2>2 DEF Written
  <2> DEFINE b == U16(Len(v)) \o Cat(s)[Len(s)]
  <2>5. At(m, p, b) /\ Written(kind, v) = b
    BY <2>4
  <2>6. GlistOf(m, p, l) = Got(p + Len(b), v)
    <3>1. v \in Lists(Meant("str"))
      BY <2>1
    <3>2. Len(s) = Len(v) /\ \A i \in 1 .. Len(v) : s[i] = Written("str", v[i])
      BY <2>2
    <3>3. ListIs(l, m, p, "str")
      BY <2>3
    <3>4. "str" \in {"str", "qid"}
      OBVIOUS
    <3> QED BY <2>5, <3>1, <3>2, <3>3, <3>4, ListRead
  <2>7. Get(m, p, kind) = Glist(m, p, Gstring)
    BY <1>0, <1>3 DEF Get
  <2> HIDE DEF b
  <2> QED BY <2>3, <2>5, <2>6, <2>7
<1>4. CASE kind = "qids"
  <2>1. v \in Lists(QidType) /\ v \in Seq(QidType) /\ Lists(QidType) = Lists(Meant("qid"))
    BY <1>4 DEF Meant, Lists
  <2>2. PICK s \in Seq(Buffers) :
            /\ Len(s) = Len(v) /\ \A i \in 1 .. Len(v) : s[i] = Written("qid", v[i])
            /\ Each(Pqid, v) = Cat(s)[Len(s)]
    BY <2>1, EachQid
  <2>3. PICK l : ListIs(l, m, p, "qid") /\ Glist(m, p, Gqid) = GlistOf(m, p, l)
    BY QidsUnfold
  <2>4. Written(kind, v) = U16(Len(v)) \o Cat(s)[Len(s)]
    BY <1>4, <2>2 DEF Written
  <2> DEFINE b == U16(Len(v)) \o Cat(s)[Len(s)]
  <2>5. At(m, p, b) /\ Written(kind, v) = b
    BY <2>4
  <2>6. GlistOf(m, p, l) = Got(p + Len(b), v)
    <3>1. v \in Lists(Meant("qid"))
      BY <2>1
    <3>2. Len(s) = Len(v) /\ \A i \in 1 .. Len(v) : s[i] = Written("qid", v[i])
      BY <2>2
    <3>3. ListIs(l, m, p, "qid")
      BY <2>3
    <3>4. "qid" \in {"str", "qid"}
      OBVIOUS
    <3> QED BY <2>5, <3>1, <3>2, <3>3, <3>4, ListRead
  <2>7. Get(m, p, kind) = Glist(m, p, Gqid)
    BY <1>0, <1>4 DEF Get
  <2> HIDE DEF b
  <2> QED BY <2>3, <2>5, <2>6, <2>7
<1>5. CASE kind = "data"
  <2> DEFINE b == PBIT(BIT32SZ, Len(v)) \o v
  <2>1. v \in Counted(BIT32SZ) /\ Written(kind, v) = b
    BY <1>5 DEF Meant, Written, U32
  <2>2. Gcounted(m, p, BIT32SZ) = Got(p + Len(b), v)
    BY <2>1, CountedRead DEF BIT32SZ
  <2>3. Get(m, p, kind) = Gcounted(m, p, BIT32SZ)
    BY <1>0, <1>5 DEF Get
  <2> HIDE DEF b
  <2> QED BY <2>1, <2>2, <2>3
<1>6. CASE kind = "stat"
  <2> DEFINE b == PBIT(BIT16SZ, Len(v)) \o v
  <2>1. v \in Counted(BIT16SZ) /\ Written(kind, v) = b
    BY <1>6 DEF Meant, Written, U16
  <2>2. Gcounted(m, p, BIT16SZ) = Got(p + Len(b), v)
    BY <2>1, CountedRead DEF BIT16SZ
  <2>3. Get(m, p, kind) = Gcounted(m, p, BIT16SZ)
    BY <1>0, <1>6 DEF Get
  <2> HIDE DEF b
  <2> QED BY <2>1, <2>2, <2>3
<1>7. CASE kind = "u64"
  <2>1. v \in Buffers /\ Len(v) = BIT64SZ /\ Written(kind, v) = v
    BY <1>7, OpaqueBuffer DEF Meant, Written
  <2>2. Bytes(m, p, BIT64SZ) = v /\ Fits(m, p, BIT64SZ)
    <3>1. At(m, p, v) /\ Len(m) \in Nat
      BY <2>1, BufferIs
    <3> QED BY <2>1, <3>1, AtBytes DEF At, Fits
  <2>3. Width[kind] = BIT64SZ
    BY <1>7 DEF Width
  <2> QED BY <1>0, <1>7, <2>1, <2>2, <2>3 DEF Get
<1>8. CASE kind \in {"u8", "u16", "u32"}
  <2> DEFINE w == Width[kind]
             b == Bytes(m, p, w)
  <2>1. w \in Nat
    BY <1>8 DEF Width, BIT8SZ, BIT16SZ, BIT32SZ
  <2>2. v \in Numbers(w) /\ Written(kind, v) = PBIT(w, v)
    BY <1>8 DEF Meant, Written
  <2>3. Get(m, p, kind) = IF ~Fits(m, p, w) THEN NotGot ELSE Got(p + Len(b), GBIT(b))
    BY <1>0, <1>8 DEF Get
  <2> HIDE DEF w, b
  <2>4. Fits(m, p, w) /\ GBIT(b) = v /\ Len(b) = w
    BY <2>1, <2>2, NumberRead, BytesBuffer DEF b
  <2>5. Len(Written(kind, v)) = w
    BY <2>1, <2>2, PBITBytes, NumbersAre
  <2> QED BY <2>3, <2>4, <2>5
<1> QED BY <1>1, <1>3, <1>4, <1>5, <1>6, <1>7, <1>8 DEF Kinds

-----------------------------------------------------------------------------
(* Fields one after the other                                              *)

FieldNames ==
    {"msize", "version", "oldtag", "afid", "uname", "aname", "unamenum", "fid", "newfid", "wname",
     "mode", "name", "perm", "ext", "offset", "count", "data", "stat", "ename", "errnum", "qid",
     "wqid", "iounit", "size", "dtype", "dev", "atime", "mtime", "length", "uid", "gid", "muid",
     "uidnum", "gidnum", "muidnum"}
FieldType == FieldNames \X Kinds

GetStep(m, g, d) ==
    Got(Get(m, g.p, d[2]).p, Joined(g.v, [x \in {d[1]} |-> Get(m, g.p, d[2]).v]))

GetsFrom(u, n, m, p, fields) ==
    u = [i \in 0 .. n |-> IF i = 0 THEN Got(p, <<>>) ELSE GetStep(m, u[i - 1], fields[i])]

LEMMA GetsExist ==
    ASSUME NEW n \in Nat, NEW m, NEW p, NEW fields
    PROVE  \E u : GetsFrom(u, n, m, p, fields)
<1> DEFINE Is(k, u) == u = [i \in 0 .. k |-> IF i = 0 THEN Got(p, <<>>) ELSE GetStep(m, u[i - 1], fields[i])]
           T == {k \in Nat : \E u : Is(k, u)}
<1>1. 0 \in T
  <2> DEFINE u == [i \in 0 .. 0 |-> Got(p, <<>>)]
  <2>1. Is(0, u)
    OBVIOUS
  <2> QED BY <2>1
<1>2. ASSUME NEW k \in Nat, k \in T PROVE k + 1 \in T
  <2>1. PICK u : Is(k, u)
    BY <1>2
  <2> DEFINE q == [i \in 0 .. k + 1 |-> IF i = k + 1 THEN GetStep(m, u[k], fields[k + 1]) ELSE u[i]]
  <2>2. Is(k + 1, q)
    BY <2>1
  <2> HIDE DEF Is, q
  <2> QED BY <2>2
<1>3. Nat \subseteq T
  <2> HIDE DEF T
  <2> QED BY <1>1, <1>2, SetInduction
<1> QED BY <1>3 DEF GetsFrom

LEMMA GetAllUnfold ==
    ASSUME NEW m, NEW p, NEW fields, Len(fields) \in Nat
    PROVE  \E u : GetsFrom(u, Len(fields), m, p, fields) /\ GetAll(m, p, fields) = u[Len(fields)]
<1> DEFINE n == Len(fields)
           Is(u) ==
               u = [i \in 0 .. n |->
                       IF i = 0 THEN Got(p, <<>>)
                       ELSE Got(Get(m, u[i - 1].p, fields[i][2]).p,
                                Joined(u[i - 1].v, [x \in {fields[i][1]} |-> Get(m, u[i - 1].p, fields[i][2]).v]))]
           u == CHOOSE q : Is(q)
<1>1. \A q : GetsFrom(q, n, m, p, fields) <=> Is(q)
  <2> DEFINE One(g, d) == Got(Get(m, g.p, d[2]).p, Joined(g.v, [x \in {d[1]} |-> Get(m, g.p, d[2]).v]))
  <2>1. \A q : Is(q) <=> q = [i \in 0 .. n |-> IF i = 0 THEN Got(p, <<>>) ELSE One(q[i - 1], fields[i])]
    OBVIOUS
  <2>2. \A g, d : GetStep(m, g, d) = One(g, d)
    BY DEF GetStep
  <2> HIDE DEF Is, One
  <2> QED BY <2>1, <2>2 DEF GetsFrom
<1>2. \E q : Is(q)
  <2>1. \E q : GetsFrom(q, n, m, p, fields)
    <3> HIDE DEF n
    <3> QED BY GetsExist DEF n
  <2> HIDE DEF Is
  <2> QED BY <1>1, <2>1
<1>3. Is(u)
  <2> HIDE DEF Is
  <2> QED BY <1>2
<1>4. GetAll(m, p, fields) = u[n]
  BY DEF GetAll
<1> HIDE DEF Is, u
<1> QED BY <1>1, <1>3, <1>4

(* The bytes of the fields, and the record of them.                        *)
Encoding(f, fields) == FlattenSeq([i \in DOMAIN fields |-> Written(fields[i][2], f[fields[i][1]])])
Taken(f, fields) == [x \in {fields[i][1] : i \in DOMAIN fields} |-> f[x]]
WellTyped(f, fields) == \A i \in DOMAIN fields : f[fields[i][1]] \in Meant(fields[i][2])

LEMMA EncodingIs ==
    ASSUME NEW f, NEW fields \in Seq(FieldType), WellTyped(f, fields)
    PROVE  \E s \in Seq(Buffers) :
               /\ Len(s) = Len(fields)
               /\ \A i \in 1 .. Len(fields) : s[i] = Written(fields[i][2], f[fields[i][1]])
               /\ Encoding(f, fields) = Cat(s)[Len(s)]
               /\ Encoding(f, fields) \in Buffers
<1> DEFINE n == Len(fields)
           s == [i \in 1 .. n |-> Written(fields[i][2], f[fields[i][1]])]
<1>1. n \in Nat /\ DOMAIN fields = 1 .. n /\ \A i \in 1 .. n : fields[i] \in FieldType
  BY LenProperties, ElementOfSeq
<1>2. Encoding(f, fields) = FlattenSeq(s)
  BY <1>1 DEF Encoding
<1>3. s \in Seq(Buffers)
  <2>1. ASSUME NEW i \in 1 .. n PROVE Written(fields[i][2], f[fields[i][1]]) \in Buffers
    <3>1. fields[i][2] \in Kinds
      BY <1>1 DEF FieldType
    <3>2. f[fields[i][1]] \in Meant(fields[i][2])
      BY <1>1 DEF WellTyped
    <3> QED BY <3>1, <3>2, WrittenBuffer
  <2>2. s \in [1 .. n -> Buffers]
    BY <2>1
  <2> HIDE DEF s
  <2> QED BY <1>1, <2>2, SeqDef
<1>4. Len(s) = n /\ \A i \in 1 .. n : s[i] = Written(fields[i][2], f[fields[i][1]])
  BY <1>1
<1> HIDE DEF s
<1>5. FlattenSeq(s) = Cat(s)[Len(s)] /\ Cat(s)[Len(s)] \in Buffers
  <2>1. Len(s) \in 0 .. Len(s)
    BY <1>1, <1>4
  <2> QED BY <1>3, <2>1, FlattenIs, CatIs
<1> QED BY <1>2, <1>3, <1>4, <1>5

(* Fields are read as they were written, whatever their kinds and number.  *)
LEMMA AllRead ==
    ASSUME NEW m \in Buffers, NEW p \in Nat, NEW f, NEW fields \in Seq(FieldType), WellTyped(f, fields),
           At(m, p, Encoding(f, fields))
    PROVE  GetAll(m, p, fields) = Got(p + Len(Encoding(f, fields)), Taken(f, fields))
<1> DEFINE n == Len(fields)
<1>1. n \in Nat /\ DOMAIN fields = 1 .. n /\ \A i \in 1 .. n : fields[i] \in FieldType
  BY LenProperties, ElementOfSeq
<1>2. PICK s \in Seq(Buffers) :
          /\ Len(s) = n
          /\ \A i \in 1 .. n : s[i] = Written(fields[i][2], f[fields[i][1]])
          /\ Encoding(f, fields) = Cat(s)[n]
  <2>1. PICK s \in Seq(Buffers) :
            /\ Len(s) = Len(fields)
            /\ \A i \in 1 .. Len(fields) : s[i] = Written(fields[i][2], f[fields[i][1]])
            /\ Encoding(f, fields) = Cat(s)[Len(s)]
    BY EncodingIs
  <2> QED BY <2>1
<1>3. PICK u : GetsFrom(u, n, m, p, fields) /\ GetAll(m, p, fields) = u[n]
  BY <1>1, GetAllUnfold
<1> DEFINE end(i) == p + Len(Cat(s)[i])
           got(i) == [x \in {fields[j][1] : j \in 1 .. i} |-> f[x]]
<1> HIDE DEF n
<1>4. /\ \A i \in 0 .. n : end(i) \in Nat
      /\ \A i \in 1 .. n : At(m, end(i - 1), s[i]) /\ end(i) = end(i - 1) + Len(s[i])
      /\ end(0) = p
  <2> DEFINE o(i) == Len(Cat(s)[i])
  <2>1. /\ \A i \in 0 .. n : o(i) \in Nat
        /\ \A i \in 1 .. n : At(m, p + o(i - 1), s[i]) /\ o(i) = o(i - 1) + Len(s[i])
        /\ o(0) = 0
    <3> DEFINE c == Cat(s)
               k == Len(s)
    <3>1. k = n /\ At(m, p, c[k])
      BY <1>2
    <3>2. /\ \A i \in 0 .. k : Len(c[i]) \in Nat
          /\ \A i \in 1 .. k : At(m, p + Len(c[i - 1]), s[i]) /\ Len(c[i]) = Len(c[i - 1]) + Len(s[i])
          /\ Len(c[0]) = 0
      BY <3>1, AtCat
    <3> HIDE DEF c, k
    <3> QED BY <3>1, <3>2 DEF c
  <2>2. \A i \in 1 .. n : Len(s[i]) \in Nat
    BY <1>2, CatIs, BufferIs
  <2>3. \A i \in 0 .. n : end(i) = p + o(i)
    OBVIOUS
  <2>4. \A i \in 1 .. n : i - 1 \in 0 .. n /\ i \in 0 .. n
    BY <1>1
  <2>5. 0 \in 0 .. n
    BY <1>1
  <2> HIDE DEF o, end
  <2> QED BY <2>1, <2>2, <2>3, <2>4, <2>5
<1>5. u[0] = Got(p, <<>>) /\ \A i \in 1 .. n : u[i] = GetStep(m, u[i - 1], fields[i])
  BY <1>1, <1>3 DEF GetsFrom
<1> DEFINE T == {i \in Nat : u[i] = Got(end(i), got(i))}
<1>6. 0 \in T
  <2>1. got(0) = <<>>
    OBVIOUS
  <2> HIDE DEF end, got
  <2> QED BY <1>4, <1>5, <2>1
<1>7. ASSUME NEW i \in 0 .. n - 1, i \in T PROVE i + 1 \in T
  <2> DEFINE name == fields[i + 1][1]
             kind == fields[i + 1][2]
  <2>1. i \in Nat /\ i + 1 \in 1 .. n /\ (i + 1) - 1 = i /\ i \in 0 .. n
    BY <1>1
  <2>2. kind \in Kinds /\ f[name] \in Meant(kind) /\ s[i + 1] = Written(kind, f[name])
    BY <1>1, <1>2, <2>1 DEF FieldType, WellTyped
  <2>3. u[i] = Got(end(i), got(i)) /\ u[i + 1] = GetStep(m, u[i], fields[i + 1])
    BY <1>5, <1>7, <2>1
  <2>4. Get(m, end(i), kind) = Got(end(i + 1), f[name])
    <3> DEFINE v == f[name]
    <3>1. At(m, end(i), Written(kind, v)) /\ end(i + 1) = end(i) + Len(Written(kind, v)) /\ end(i) \in Nat
      <4> HIDE DEF end, kind, name
      <4> QED BY <1>4, <2>1, <2>2
    <3>2. kind \in Kinds /\ v \in Meant(kind)
      BY <2>2
    <3> HIDE DEF v, kind, end
    <3>3. Get(m, end(i), kind) = Got(end(i) + Len(Written(kind, v)), v)
      BY <3>1, <3>2, FieldRead
    <3> QED BY <3>1, <3>3 DEF v
  <2>5. Joined(got(i), [x \in {name} |-> f[name]]) = got(i + 1)
    <3>1. {fields[j][1] : j \in 1 .. i + 1} = {fields[j][1] : j \in 1 .. i} \cup {name}
      BY <2>1
    <3> DEFINE A == {fields[j][1] : j \in 1 .. i}
               a == name
    <3>2. got(i) = [x \in A |-> f[x]] /\ got(i + 1) = [x \in A \cup {a} |-> f[x]]
      BY <3>1
    <3> HIDE DEF A, a, got
    <3>3. Joined(got(i), [x \in {a} |-> f[a]]) = got(i + 1)
      BY <3>2 DEF Joined
    <3> QED BY <3>3 DEF a
  <2>6. u[i + 1] = Got(end(i + 1), Joined(got(i), [x \in {name} |-> f[name]]))
    <3> HIDE DEF end, got
    <3> QED BY <2>3, <2>4 DEF GetStep, Got
  <2>7. u[i + 1] = Got(end(i + 1), got(i + 1))
    <3> HIDE DEF end, got, name
    <3> QED BY <2>5, <2>6
  <2> HIDE DEF end, got
  <2> QED BY <2>1, <2>7
<1>8. 0 .. n \subseteq T
  <2> HIDE DEF T
  <2> QED BY <1>1, <1>6, <1>7, BoundedInduction
<1>9. u[n] = Got(end(n), got(n))
  <2>1. n \in 0 .. n
    BY <1>1
  <2> HIDE DEF end, got
  <2> QED BY <1>8, <2>1
<1>a. got(n) = Taken(f, fields)
  BY <1>1 DEF Taken
<1>b. end(n) = p + Len(Encoding(f, fields))
  BY <1>2
<1> HIDE DEF end, got
<1> QED BY <1>3, <1>9, <1>a, <1>b

-----------------------------------------------------------------------------
(* Sizes                                                                   *)

(* How many bytes a field takes.                                           *)
FieldSize(kind, v) ==
    CASE kind = "str"   -> Stringsz(v)
      [] kind = "qid"   -> QIDSZ
      [] kind = "names" -> BIT16SZ + StringsSz(v)
      [] kind = "qids"  -> BIT16SZ + Len(v) * QIDSZ
      [] kind = "data"  -> BIT32SZ + Len(v)
      [] kind = "stat"  -> BIT16SZ + Len(v)
      [] OTHER          -> Width[kind]

SumFrom(q, ss) == q = [i \in 0 .. Len(ss) |-> IF i = 0 THEN 0 ELSE q[i - 1] + Stringsz(ss[i])]

LEMMA SumExists ==
    ASSUME NEW n \in Nat, NEW ss
    PROVE  \E q : q = [i \in 0 .. n |-> IF i = 0 THEN 0 ELSE q[i - 1] + Stringsz(ss[i])]
<1> DEFINE Is(k, q) == q = [i \in 0 .. k |-> IF i = 0 THEN 0 ELSE q[i - 1] + Stringsz(ss[i])]
           T == {k \in Nat : \E q : Is(k, q)}
<1>1. 0 \in T
  <2> DEFINE q == [i \in 0 .. 0 |-> 0]
  <2>1. Is(0, q)
    OBVIOUS
  <2> QED BY <2>1
<1>2. ASSUME NEW k \in Nat, k \in T PROVE k + 1 \in T
  <2>1. PICK r : Is(k, r)
    BY <1>2
  <2> DEFINE q == [i \in 0 .. k + 1 |-> IF i = k + 1 THEN r[k] + Stringsz(ss[k + 1]) ELSE r[i]]
  <2>2. Is(k + 1, q)
    BY <2>1
  <2> HIDE DEF Is, q
  <2> QED BY <2>2
<1>3. Nat \subseteq T
  <2> HIDE DEF T
  <2> QED BY <1>1, <1>2, SetInduction
<1> QED BY <1>3

(* Sequences of parts of these sizes have the sum of them as their length. *)
LEMMA StringsSzIs ==
    ASSUME NEW ss, Len(ss) \in Nat, NEW s \in Seq(Buffers), Len(s) = Len(ss),
           \A i \in 1 .. Len(ss) : Len(s[i]) = Stringsz(ss[i])
    PROVE  Len(Cat(s)[Len(s)]) = StringsSz(ss)
<1> DEFINE n == Len(ss)
           q == CHOOSE q : SumFrom(q, ss)
           o(i) == Len(Cat(s)[i])
           z(i) == Len(s[i])
<1>1. StringsSz(ss) = q[n]
  BY DEF StringsSz, SumFrom
<1>2. SumFrom(q, ss)
  <2>1. \E r : SumFrom(r, ss)
    BY SumExists DEF SumFrom
  <2> QED BY <2>1
<1>5. o(0) = 0 /\ \A i \in 1 .. n : o(i) = o(i - 1) + z(i)
  <2> DEFINE c == Cat(s)
             k == Len(s)
  <2>1. k \in Nat /\ c[0] = <<>> /\ \A i \in 1 .. k : c[i - 1] \in Buffers /\ s[i] \in Buffers /\ c[i] = c[i - 1] \o s[i]
    <3>1. k \in Nat
      BY CatIs
    <3>2. \A i \in 1 .. k : i - 1 \in 0 .. k
      BY <3>1
    <3> QED BY <3>1, <3>2, CatIs
  <2>2. \A i \in 1 .. k : Len(c[i]) = Len(c[i - 1]) + Len(s[i])
    <3> HIDE DEF c, k
    <3> QED BY <2>1, ConcatLen
  <2>3. Len(c[0]) = 0
    BY <2>1, EmptyBuffer
  <2>4. k = n
    OBVIOUS
  <2> HIDE DEF c, k, n
  <2> QED BY <2>2, <2>3, <2>4 DEF c
<1>6. n \in Nat /\ Len(s) = n /\ \A i \in 1 .. n : z(i) = Stringsz(ss[i])
  OBVIOUS
<1> HIDE DEF n, q, o, z
<1>7. q[0] = 0 /\ \A i \in 1 .. n : q[i] = q[i - 1] + Stringsz(ss[i])
  BY <1>2, <1>6 DEF SumFrom, n
<1> DEFINE T == {i \in Nat : o(i) = q[i]}
<1>8. 0 \in T
  BY <1>5, <1>7
<1>9. \A i \in 0 .. n - 1 : i \in T => i + 1 \in T
  <2> SUFFICES ASSUME NEW i \in 0 .. n - 1, i \in T PROVE i + 1 \in T
    OBVIOUS
  <2>1. i \in Nat /\ i + 1 \in 1 .. n /\ (i + 1) - 1 = i
    BY <1>6
  <2>2. o(i + 1) = o(i) + z(i + 1) /\ q[i + 1] = q[i] + Stringsz(ss[i + 1]) /\ z(i + 1) = Stringsz(ss[i + 1])
    BY <1>5, <1>6, <1>7, <2>1
  <2> QED BY <2>1, <2>2
<1>a. 0 .. n \subseteq T
  <2> HIDE DEF T
  <2> QED BY <1>6, <1>8, <1>9, BoundedInduction
<1>b. o(n) = q[n]
  BY <1>6, <1>a
<1> QED BY <1>1, <1>6, <1>b DEF o

(* The same for parts that are all qids.                                   *)
LEMMA QidsSize ==
    ASSUME NEW s \in Seq(Buffers), \A i \in 1 .. Len(s) : Len(s[i]) = QIDSZ
    PROVE  Len(Cat(s)[Len(s)]) = Len(s) * QIDSZ
<1> DEFINE n == Len(s)
           o(i) == Len(Cat(s)[i])
           z(i) == Len(s[i])
<1>5. n \in Nat /\ o(0) = 0 /\ \A i \in 1 .. n : o(i) = o(i - 1) + z(i)
  <2> DEFINE c == Cat(s)
  <2>1. n \in Nat /\ c[0] = <<>> /\ \A i \in 1 .. n : c[i - 1] \in Buffers /\ s[i] \in Buffers /\ c[i] = c[i - 1] \o s[i]
    <3>1. n \in Nat
      BY CatIs
    <3>2. \A i \in 1 .. n : i - 1 \in 0 .. n
      BY <3>1
    <3> QED BY <3>1, <3>2, CatIs
  <2>2. \A i \in 1 .. n : Len(c[i]) = Len(c[i - 1]) + Len(s[i])
    <3> HIDE DEF c, n
    <3> QED BY <2>1, ConcatLen
  <2>3. Len(c[0]) = 0
    BY <2>1, EmptyBuffer
  <2> HIDE DEF c, n
  <2> QED BY <2>1, <2>2, <2>3 DEF c
<1>6. \A i \in 1 .. n : z(i) = QIDSZ
  OBVIOUS
<1>q. QIDSZ \in Nat
  BY DEF QIDSZ, BIT8SZ, BIT32SZ, BIT64SZ
<1> HIDE DEF n, o, z
<1> DEFINE T == {i \in Nat : o(i) = i * QIDSZ}
<1>8. 0 \in T
  BY <1>5, <1>q
<1>9. ASSUME NEW i \in 0 .. n - 1, i \in T PROVE i + 1 \in T
  <2>1. i \in Nat /\ i + 1 \in 1 .. n /\ (i + 1) - 1 = i
    BY <1>5
  <2>2. o(i + 1) = o(i) + z(i + 1) /\ z(i + 1) = QIDSZ
    BY <1>5, <1>6, <2>1
  <2>3. (i + 1) * QIDSZ = i * QIDSZ + QIDSZ
    BY <2>1, <1>q
  <2> QED BY <1>9, <2>1, <2>2, <2>3
<1>a. 0 .. n \subseteq T
  <2> HIDE DEF T
  <2> QED BY <1>5, <1>8, <1>9, BoundedInduction
<1>b. o(n) = n * QIDSZ
  BY <1>5, <1>a
<1> QED BY <1>b DEF o, n

LEMMA WrittenSize ==
    ASSUME NEW kind \in Kinds, NEW v \in Meant(kind)
    PROVE  Len(Written(kind, v)) = FieldSize(kind, v) /\ FieldSize(kind, v) \in Nat
<1> SUFFICES Len(Written(kind, v)) = FieldSize(kind, v)
  <2>1. Len(Written(kind, v)) \in Nat
    BY WrittenBuffer, BufferIs
  <2> QED BY <2>1
<1>n. BIT8SZ \in Nat /\ BIT16SZ \in Nat /\ BIT32SZ \in Nat
  BY DEF BIT8SZ, BIT16SZ, BIT32SZ
<1>1. CASE kind = "str"
  BY <1>1, StringBuffer DEF Meant, Written, FieldSize
<1>2. CASE kind = "qid"
  BY <1>2, QidBuffer DEF Meant, Written, FieldSize
<1>3. CASE kind = "names"
  <2>1. v \in Seq(Names) /\ Len(v) \in Nat /\ \A i \in 1 .. Len(v) : v[i] \in Names
    BY <1>3, LenProperties, ElementOfSeq DEF Meant, Lists
  <2>2. PICK s \in Seq(Buffers) :
            /\ Len(s) = Len(v) /\ \A i \in 1 .. Len(v) : s[i] = Pstring(v[i])
            /\ Each(Pstring, v) = Cat(s)[Len(s)] /\ Each(Pstring, v) \in Buffers
    BY <2>1, EachName
  <2>3. \A i \in 1 .. Len(v) : Len(s[i]) = Stringsz(v[i])
    BY <2>1, <2>2, StringBuffer
  <2> DEFINE b == Each(Pstring, v)
             e == U16(Len(v))
  <2>4. Len(b) = StringsSz(v)
    BY <2>1, <2>2, <2>3, StringsSzIs
  <2>5. e \in Buffers /\ Len(e) = BIT16SZ /\ b \in Buffers
    BY <2>1, <2>2, <1>n, PBITBytes DEF U16
  <2>6. Written(kind, v) = e \o b /\ FieldSize(kind, v) = BIT16SZ + StringsSz(v)
    BY <1>3 DEF Written, FieldSize
  <2> HIDE DEF b, e
  <2> QED BY <2>4, <2>5, <2>6, ConcatLen
<1>4. CASE kind = "qids"
  <2>1. v \in Seq(QidType) /\ Len(v) \in Nat /\ \A i \in 1 .. Len(v) : v[i] \in QidType
    BY <1>4, LenProperties, ElementOfSeq DEF Meant, Lists
  <2>2. PICK s \in Seq(Buffers) :
            /\ Len(s) = Len(v) /\ \A i \in 1 .. Len(v) : s[i] = Pqid(v[i])
            /\ Each(Pqid, v) = Cat(s)[Len(s)] /\ Each(Pqid, v) \in Buffers
    BY <2>1, EachQid
  <2>3. \A i \in 1 .. Len(s) : Len(s[i]) = QIDSZ
    BY <2>1, <2>2, QidBuffer
  <2> DEFINE b == Each(Pqid, v)
             e == U16(Len(v))
  <2>4. Len(b) = Len(s) * QIDSZ
    BY <2>2, <2>3, QidsSize
  <2>5. e \in Buffers /\ Len(e) = BIT16SZ /\ b \in Buffers
    BY <2>1, <2>2, <1>n, PBITBytes DEF U16
  <2>6. Written(kind, v) = e \o b /\ FieldSize(kind, v) = BIT16SZ + Len(s) * QIDSZ
    <3>1. Len(s) = Len(v)
      BY <2>2
    <3> QED BY <1>4, <3>1 DEF Written, FieldSize
  <2> HIDE DEF b, e
  <2> QED BY <2>4, <2>5, <2>6, ConcatLen
<1>5. CASE kind = "data"
  <2> DEFINE e == U32(Len(v))
  <2>1. v \in Buffers /\ Len(v) \in Nat
    BY <1>5, BufferIs DEF Meant, Counted
  <2>2. e \in Buffers /\ Len(e) = BIT32SZ
    BY <2>1, <1>n, PBITBytes DEF U32
  <2>3. Written(kind, v) = e \o v /\ FieldSize(kind, v) = BIT32SZ + Len(v)
    BY <1>5 DEF Written, FieldSize
  <2> HIDE DEF e
  <2> QED BY <2>1, <2>2, <2>3, ConcatLen
<1>6. CASE kind = "stat"
  <2> DEFINE e == U16(Len(v))
  <2>1. v \in Buffers /\ Len(v) \in Nat
    BY <1>6, BufferIs DEF Meant, Counted
  <2>2. e \in Buffers /\ Len(e) = BIT16SZ
    BY <2>1, <1>n, PBITBytes DEF U16
  <2>3. Written(kind, v) = e \o v /\ FieldSize(kind, v) = BIT16SZ + Len(v)
    BY <1>6 DEF Written, FieldSize
  <2> HIDE DEF e
  <2> QED BY <2>1, <2>2, <2>3, ConcatLen
<1>7. CASE kind = "u64"
  BY <1>7, OpaqueBuffer DEF Meant, Written, FieldSize, Width
<1>8. CASE kind \in {"u8", "u16", "u32"}
  <2>1. Width[kind] \in Nat
    BY <1>8 DEF Width, BIT8SZ, BIT16SZ, BIT32SZ
  <2>2. v \in Numbers(Width[kind]) /\ Written(kind, v) = PBIT(Width[kind], v) /\ FieldSize(kind, v) = Width[kind]
    BY <1>8 DEF Meant, Written, FieldSize
  <2> QED BY <2>1, <2>2, PBITBytes, NumbersAre
<1> QED BY <1>1, <1>2, <1>3, <1>4, <1>5, <1>6, <1>7, <1>8 DEF Kinds

-----------------------------------------------------------------------------
(* Parts of an encoding                                                    *)

LEMMA ThenAssociative == \A a, b, c \in Buffers : Then(Then(a, b), c) = Then(a, Then(b, c))
BY ConcatAssociative DEF Then, Buffers

LEMMA ThenEmpty == \A a \in Buffers : Then(a, <<>>) = a /\ Then(<<>>, a) = a
BY ConcatEmptySeq DEF Then, Buffers

LEMMA ThenBuffer == \A a, b \in Buffers : Then(a, b) \in Buffers /\ Len(Then(a, b)) = Len(a) + Len(b)
BY ConcatLen DEF Then

LEMMA FlattenConcat ==
    ASSUME NEW s \in Seq(Buffers), NEW t \in Seq(Buffers)
    PROVE  s \o t \in Seq(Buffers) /\ FlattenSeq(s \o t) = FlattenSeq(s) \o FlattenSeq(t)
<1> DEFINE r == s \o t
           a == Len(s)
           b == Len(t)
           c == Cat(r)
           cs == Cat(s)
           ct == Cat(t)
<1>1. r \in Seq(Buffers) /\ Len(r) = a + b /\ \A i \in 1 .. a + b : r[i] = IF i <= a THEN s[i] ELSE t[i - a]
  BY ConcatProperties
<1>2. /\ a \in Nat /\ cs[0] = <<>> /\ \A i \in 1 .. a : s[i] \in Buffers /\ cs[i] = Then(cs[i - 1], s[i])
      /\ \A i \in 0 .. a : cs[i] \in Buffers
  BY CatIs DEF Then
<1>3. /\ b \in Nat /\ ct[0] = <<>> /\ \A i \in 1 .. b : t[i] \in Buffers /\ ct[i] = Then(ct[i - 1], t[i])
      /\ \A i \in 0 .. b : ct[i] \in Buffers
  BY CatIs DEF Then
<1>4. c[0] = <<>> /\ \A i \in 1 .. a + b : c[i] = Then(c[i - 1], r[i])
  <2> DEFINE n == Len(r)
  <2>1. c[0] = <<>> /\ \A i \in 1 .. n : c[i] = Then(c[i - 1], r[i])
    <3> HIDE DEF r
    <3> QED BY <1>1, CatIs DEF Then
  <2>2. n = a + b
    BY <1>1
  <2> HIDE DEF n
  <2> QED BY <2>1, <2>2
<1>f. FlattenSeq(r) = c[a + b] /\ FlattenSeq(s) = cs[a] /\ FlattenSeq(t) = ct[b]
  <2>1. FlattenSeq(r) = c[Len(r)]
    <3> HIDE DEF r
    <3> QED BY <1>1, FlattenIs
  <2>2. Len(r) = a + b
    BY <1>1
  <2> QED BY <2>1, <2>2, FlattenIs
<1> HIDE DEF r, a, b, c, cs, ct
<1>5. \A i \in 1 .. a : r[i] = s[i]
  BY <1>1, <1>2, <1>3
<1>6. \A i \in 1 .. b : r[a + i] = t[i]
  <2> TAKE i \in 1 .. b
  <2>1. a + i \in 1 .. a + b /\ ~ (a + i <= a) /\ (a + i) - a = i
    BY <1>2, <1>3
  <2> QED BY <1>1, <2>1
<1> DEFINE S == {i \in Nat : c[i] = cs[i]}
<1>7. c[a] = cs[a]
  <2>1. 0 \in S
    BY <1>2, <1>4
  <2>2. ASSUME NEW i \in 0 .. a - 1, i \in S PROVE i + 1 \in S
    <3>1. i + 1 \in 1 .. a /\ i + 1 \in 1 .. a + b /\ (i + 1) - 1 = i /\ i + 1 \in Nat
      BY <1>2, <1>3
    <3> QED BY <1>2, <1>4, <1>5, <2>2, <3>1
  <2>3. 0 .. a \subseteq S
    <3> HIDE DEF S
    <3> QED BY <1>2, <2>1, <2>2, BoundedInduction
  <2> QED BY <1>2, <2>3
<1> DEFINE T == {i \in Nat : c[a + i] = Then(cs[a], ct[i])}
<1>8. c[a + b] = Then(cs[a], ct[b])
  <2>0. cs[a] \in Buffers
    BY <1>2
  <2>1. 0 \in T
    BY <1>2, <1>3, <1>7, <2>0, ThenEmpty
  <2>2. ASSUME NEW i \in 0 .. b - 1, i \in T PROVE i + 1 \in T
    <3>1. i + 1 \in 1 .. b /\ i \in 0 .. b /\ (i + 1) - 1 = i /\ i + 1 \in Nat
      BY <1>3
    <3>2. a + (i + 1) \in 1 .. a + b /\ (a + (i + 1)) - 1 = a + i
      BY <1>2, <1>3, <3>1
    <3>3. c[a + (i + 1)] = Then(c[a + i], t[i + 1])
      BY <1>4, <1>6, <3>1, <3>2
    <3>4. c[a + i] = Then(cs[a], ct[i]) /\ ct[i + 1] = Then(ct[i], t[i + 1])
      BY <1>3, <2>2, <3>1
    <3>5. ct[i] \in Buffers /\ t[i + 1] \in Buffers
      BY <1>3, <3>1
    <3>6. c[a + (i + 1)] = Then(cs[a], ct[i + 1])
      BY <2>0, <3>3, <3>4, <3>5, ThenAssociative
    <3> QED BY <3>1, <3>6
  <2>3. 0 .. b \subseteq T
    <3> HIDE DEF T
    <3> QED BY <1>3, <2>1, <2>2, BoundedInduction
  <2> QED BY <1>3, <2>3
<1> QED BY <1>1, <1>8, <1>f DEF r, Then

LEMMA EncodingConcat ==
    ASSUME NEW f, NEW a \in Seq(FieldType), NEW b \in Seq(FieldType), WellTyped(f, a), WellTyped(f, b)
    PROVE  /\ a \o b \in Seq(FieldType) /\ WellTyped(f, a \o b)
           /\ Encoding(f, a \o b) = Encoding(f, a) \o Encoding(f, b)
<1> DEFINE W(fields) == [i \in DOMAIN fields |-> Written(fields[i][2], f[fields[i][1]])]
           n == Len(a)
           k == Len(b)
<1>1. n \in Nat /\ DOMAIN a = 1 .. n /\ k \in Nat /\ DOMAIN b = 1 .. k
  BY LenProperties
<1>2. /\ a \o b \in Seq(FieldType) /\ Len(a \o b) = n + k /\ DOMAIN (a \o b) = 1 .. n + k
      /\ \A i \in 1 .. n + k : (a \o b)[i] = IF i <= n THEN a[i] ELSE b[i - n]
  BY ConcatProperties, LenProperties
<1>3. WellTyped(f, a \o b)
  <2> DEFINE c == a \o b
  <2> SUFFICES ASSUME NEW i \in 1 .. n + k PROVE f[c[i][1]] \in Meant(c[i][2])
    BY <1>2 DEF WellTyped
  <2>1. CASE i <= n
    <3>1. i \in DOMAIN a /\ c[i] = a[i]
      BY <1>1, <1>2, <2>1
    <3> HIDE DEF c
    <3> QED BY <3>1 DEF WellTyped
  <2>2. CASE ~ (i <= n)
    <3>1. i - n \in DOMAIN b /\ c[i] = b[i - n]
      BY <1>1, <1>2, <2>2
    <3> HIDE DEF c
    <3> QED BY <3>1 DEF WellTyped
  <2> QED BY <2>1, <2>2
<1>4. \A g \in Seq(FieldType) : WellTyped(f, g) => W(g) \in Seq(Buffers) /\ Len(W(g)) = Len(g)
  <2> SUFFICES ASSUME NEW g \in Seq(FieldType), WellTyped(f, g) PROVE W(g) \in Seq(Buffers) /\ Len(W(g)) = Len(g)
    OBVIOUS
  <2>1. Len(g) \in Nat /\ DOMAIN g = 1 .. Len(g) /\ \A i \in 1 .. Len(g) : g[i] \in FieldType
    BY LenProperties, ElementOfSeq
  <2>2. ASSUME NEW i \in 1 .. Len(g) PROVE Written(g[i][2], f[g[i][1]]) \in Buffers
    <3>1. g[i][2] \in Kinds
      BY <2>1 DEF FieldType
    <3>2. f[g[i][1]] \in Meant(g[i][2])
      BY <2>1 DEF WellTyped
    <3> QED BY <3>1, <3>2, WrittenBuffer
  <2>3. W(g) \in [1 .. Len(g) -> Buffers]
    BY <2>1, <2>2
  <2> HIDE DEF W
  <2>4. W(g) \in Seq(Buffers)
    BY <2>1, <2>3, SeqDef
  <2> QED BY <2>1, <2>3, <2>4, LenProperties
<1>5. W(a \o b) = W(a) \o W(b)
  <2> DEFINE c == a \o b
             r == W(a) \o W(b)
  <2>1. c \in Seq(FieldType) /\ WellTyped(f, c) /\ Len(c) = n + k
    BY <1>2, <1>3
  <2>2. W(c) \in Seq(Buffers) /\ Len(W(c)) = n + k
    <3> HIDE DEF c, W
    <3> QED BY <1>4, <2>1
  <2>3. W(a) \in Seq(Buffers) /\ Len(W(a)) = n /\ W(b) \in Seq(Buffers) /\ Len(W(b)) = k
    <3> HIDE DEF W
    <3> QED BY <1>4
  <2>4. /\ r \in Seq(Buffers) /\ Len(r) = n + k
        /\ \A i \in 1 .. n + k : r[i] = IF i <= n THEN W(a)[i] ELSE W(b)[i - n]
    <3> DEFINE x == W(a)
               y == W(b)
    <3>1. x \in Seq(Buffers) /\ y \in Seq(Buffers) /\ Len(x) = n /\ Len(y) = k
      BY <2>3
    <3> HIDE DEF x, y, n, k
    <3>2. /\ x \o y \in Seq(Buffers) /\ Len(x \o y) = n + k
          /\ \A i \in 1 .. n + k : (x \o y)[i] = IF i <= n THEN x[i] ELSE y[i - n]
      BY <3>1, ConcatProperties
    <3> QED BY <3>2 DEF x, y
  <2>5. ASSUME NEW i \in 1 .. n + k PROVE W(c)[i] = r[i]
    <3>0. W(c)[i] = Written(c[i][2], f[c[i][1]])
      <4>1. i \in DOMAIN c
        BY <1>2
      <4> HIDE DEF c
      <4> QED BY <4>1
    <3>1. CASE i <= n
      <4>1. i \in DOMAIN a /\ c[i] = a[i] /\ r[i] = W(a)[i]
        <5> HIDE DEF W
        <5> QED BY <1>1, <1>2, <2>4, <3>1
      <4> HIDE DEF c, r
      <4> QED BY <3>0, <4>1
    <3>2. CASE ~ (i <= n)
      <4>1. i - n \in DOMAIN b /\ c[i] = b[i - n] /\ r[i] = W(b)[i - n]
        <5> HIDE DEF W
        <5> QED BY <1>1, <1>2, <2>4, <3>2
      <4> HIDE DEF c, r
      <4> QED BY <3>0, <4>1
    <3> QED BY <3>1, <3>2
  <2> HIDE DEF W, r, c, n, k
  <2>6. W(c) = r
    BY <2>2, <2>4, <2>5, SeqEqual
  <2> QED BY <2>6 DEF r, c
<1>6. W(a) \in Seq(Buffers) /\ W(b) \in Seq(Buffers)
  <2> HIDE DEF W
  <2> QED BY <1>4
<1>7. \A g : Encoding(f, g) = FlattenSeq(W(g))
  BY DEF Encoding
<1> DEFINE x == W(a)
           y == W(b)
           c == a \o b
<1>8. x \in Seq(Buffers) /\ y \in Seq(Buffers) /\ W(c) = x \o y
  BY <1>5, <1>6
<1>9. Encoding(f, c) = FlattenSeq(W(c)) /\ Encoding(f, a) = FlattenSeq(x) /\ Encoding(f, b) = FlattenSeq(y)
  BY <1>7
<1> HIDE DEF W, x, y
<1> QED BY <1>2, <1>3, <1>8, <1>9, FlattenConcat

(* One field alone, and one more field.                                    *)
FieldOk(f, d) == d \in FieldType /\ f[d[1]] \in Meant(d[2])
FieldBytes(f, d) == Written(d[2], f[d[1]])
FieldLen(f, d) == FieldSize(d[2], f[d[1]])

LEMMA EncodingNone == ASSUME NEW f PROVE Encoding(f, <<>>) = <<>> /\ WellTyped(f, <<>>) /\ <<>> \in Seq(FieldType)
<1>1. [i \in DOMAIN <<>> |-> Written(<<>>[i][2], f[<<>>[i][1]])] = <<>>
  OBVIOUS
<1>2. FlattenSeq(<<>>) = <<>>
  BY DEF FlattenSeq
<1> QED BY <1>1, <1>2 DEF Encoding, WellTyped

LEMMA EncodingOne ==
    ASSUME NEW f, NEW d, FieldOk(f, d)
    PROVE  /\ <<d>> \in Seq(FieldType) /\ WellTyped(f, <<d>>) /\ Encoding(f, <<d>>) = FieldBytes(f, d)
           /\ FieldBytes(f, d) \in Buffers
           /\ Len(FieldBytes(f, d)) = FieldLen(f, d) /\ FieldLen(f, d) \in Nat
<1> DEFINE w == FieldBytes(f, d)
<1>0. d \in FieldType /\ f[d[1]] \in Meant(d[2])
  BY DEF FieldOk
<1>1. d[2] \in Kinds
  BY <1>0 DEF FieldType
<1>2. w \in Buffers /\ Len(w) = FieldLen(f, d) /\ FieldLen(f, d) \in Nat
  BY <1>0, <1>1, WrittenBuffer, WrittenSize DEF FieldBytes, FieldLen
<1>3. <<d>> \in Seq(FieldType) /\ WellTyped(f, <<d>>)
  BY <1>0 DEF WellTyped
<1>4. Encoding(f, <<d>>) = FlattenSeq(<<w>>)
  <2>1. [i \in DOMAIN <<d>> |-> Written(<<d>>[i][2], f[<<d>>[i][1]])] = <<w>>
    BY DEF FieldBytes
  <2> QED BY <2>1 DEF Encoding
<1> HIDE DEF w
<1>5. FlattenSeq(<<w>>) = w
  <2>1. <<w>> \in Seq(Buffers) /\ Len(<<w>>) = 1
    BY <1>2
  <2> DEFINE s == <<w>>
             n == Len(s)
  <2>2. s \in Seq(Buffers) /\ n = 1 /\ s[1] = w
    BY <2>1
  <2> HIDE DEF s, n
  <2>3. FlattenSeq(s) = Cat(s)[n] /\ Cat(s)[0] = <<>> /\ \A i \in 1 .. n : Cat(s)[i] = Then(Cat(s)[i - 1], s[i])
    BY <2>2, FlattenIs, CatIs DEF n, Then
  <2>4. FlattenSeq(s) = Then(<<>>, w)
    BY <2>2, <2>3
  <2> QED BY <1>2, <2>4, ThenEmpty DEF s
<1> QED BY <1>2, <1>3, <1>4, <1>5 DEF w

(* As Then: nothing to take apart.                                         *)
Length(b) == Len(b)
Plus(fields, d) == fields \o <<d>>
Fields1(a) == <<a>>
Fields2(a, b) == <<a, b>>
Fields3(a, b, c) == <<a, b, c>>
Fields4(a, b, c, d) == <<a, b, c, d>>
Fields5(a, b, c, d, e) == <<a, b, c, d, e>>

LEMMA EncodingMore ==
    ASSUME NEW f, NEW a \in Seq(FieldType), NEW d, WellTyped(f, a), FieldOk(f, d)
    PROVE  /\ Plus(a, d) \in Seq(FieldType) /\ WellTyped(f, Plus(a, d))
           /\ Encoding(f, Plus(a, d)) = Then(Encoding(f, a), FieldBytes(f, d))
           /\ Length(Encoding(f, Plus(a, d))) = Length(Encoding(f, a)) + FieldLen(f, d)
<1> DEFINE b == <<d>>
           c == a \o b
<1>1. b \in Seq(FieldType) /\ WellTyped(f, b) /\ Encoding(f, b) = FieldBytes(f, d)
  BY EncodingOne
<1>2. FieldBytes(f, d) \in Buffers /\ Len(FieldBytes(f, d)) = FieldLen(f, d)
  BY EncodingOne
<1> HIDE DEF b
<1>3. c \in Seq(FieldType) /\ WellTyped(f, c) /\ Encoding(f, c) = Encoding(f, a) \o FieldBytes(f, d)
  BY <1>1, EncodingConcat
<1> HIDE DEF c
<1>4. Encoding(f, a) \in Buffers /\ Encoding(f, c) \in Buffers
  BY <1>3, EncodingIs
<1> DEFINE x == Encoding(f, a)
           y == FieldBytes(f, d)
           z == Encoding(f, c)
<1>5. Len(z) = Len(x) + Len(y)
  <2>1. x \in Buffers /\ y \in Buffers /\ z = x \o y
    BY <1>2, <1>3, <1>4
  <2> HIDE DEF x, y, z
  <2> QED BY <2>1, ConcatLen
<1>6. Len(z) = Len(x) + FieldLen(f, d)
  BY <1>2, <1>5
<1>7. Plus(a, d) = c
  BY DEF Plus, b, c
<1> QED BY <1>3, <1>6, <1>7 DEF Length, Then

LEMMA TupleOfTwo == ASSUME NEW S, NEW a \in S, NEW b \in S PROVE <<a>> \o <<b>> = <<a,b>>
<1> DEFINE x == <<a>>
           y == <<b>>
           z == <<a, b>>
           n == Len(x)
           k == Len(y)
<1>1. x \in Seq(S) /\ y \in Seq(S) /\ z \in Seq(S) /\ x[1] = a /\ y[1] = b /\ z[1] = a /\ z[2] = b
  OBVIOUS
<1>2. n = 1 /\ k = 1 /\ Len(z) = n + k
  OBVIOUS
<1> HIDE DEF x, y, z, n, k
<1>3. x \o y \in Seq(S) /\ Len(x \o y) = n + k /\ \A i \in 1 .. n + k : (x \o y)[i] = IF i <= n THEN x[i] ELSE y[i - n]
  BY <1>1, ConcatProperties DEF n, k
<1>4. ASSUME NEW i \in 1 .. n + k PROVE (x \o y)[i] = z[i]
  BY <1>1, <1>2, <1>3
<1> DEFINE w == x \o y
<1>5. w \in Seq(S) /\ Len(w) = Len(z) /\ \A i \in 1 .. Len(w) : w[i] = z[i]
  BY <1>2, <1>3, <1>4
<1>6. w = z
  <2> HIDE DEF w
  <2> QED BY <1>1, <1>5, SeqEqual
<1> QED BY <1>6 DEF x, y, z

(* So one to five fields.                                                  *)
LEMMA Encoding1 ==
    \A f, d1 : FieldOk(f, d1) =>
        /\ Fields1(d1) \in Seq(FieldType) /\ WellTyped(f, Fields1(d1))
        /\ Encoding(f, Fields1(d1)) = FieldBytes(f, d1)
        /\ Length(Encoding(f, Fields1(d1))) = FieldLen(f, d1)
BY EncodingOne DEF Fields1, Length

LEMMA Encoding2 ==
    \A f, d1, d2 :
        FieldOk(f, d1) /\ FieldOk(f, d2) =>
        /\ Fields2(d1, d2) \in Seq(FieldType) /\ WellTyped(f, Fields2(d1, d2))
        /\ Encoding(f, Fields2(d1, d2)) =
               Then(FieldBytes(f, d1), FieldBytes(f, d2))
        /\ Length(Encoding(f, Fields2(d1, d2))) = FieldLen(f, d1) + FieldLen(f, d2)
<1> TAKE f, d1, d2
<1> HAVE FieldOk(f, d1) /\ FieldOk(f, d2)
<1>1. Fields2(d1, d2) = Plus(Fields1(d1), d2)
  BY TupleOfTwo DEF Fields1, Fields2, Plus, FieldOk
<1> DEFINE a == Fields1(d1)
           w == FieldBytes(f, d1)
           l == FieldLen(f, d1)
<1>2. a \in Seq(FieldType) /\ WellTyped(f, a) /\ Encoding(f, a) = w /\ Length(Encoding(f, a)) = l
  BY Encoding1
<1> DEFINE s == Plus(a, d2)
<1> HIDE DEF a, w, l
<1>3. /\ s \in Seq(FieldType) /\ WellTyped(f, s) /\ Encoding(f, s) = Then(w, FieldBytes(f, d2))
      /\ Length(Encoding(f, s)) = l + FieldLen(f, d2)
  BY <1>2, EncodingMore
<1>4. Fields2(d1, d2) = s
  BY <1>1 DEF a
<1> HIDE DEF s
<1> QED BY <1>3, <1>4 DEF w, l

LEMMA Encoding3 ==
    \A f, d1, d2, d3 :
        FieldOk(f, d1) /\ FieldOk(f, d2) /\ FieldOk(f, d3) =>
        /\ Fields3(d1, d2, d3) \in Seq(FieldType) /\ WellTyped(f, Fields3(d1, d2, d3))
        /\ Encoding(f, Fields3(d1, d2, d3)) =
               Then(Then(FieldBytes(f, d1), FieldBytes(f, d2)), FieldBytes(f, d3))
        /\ Length(Encoding(f, Fields3(d1, d2, d3))) = FieldLen(f, d1) + FieldLen(f, d2) + FieldLen(f, d3)
<1> TAKE f, d1, d2, d3
<1> HAVE FieldOk(f, d1) /\ FieldOk(f, d2) /\ FieldOk(f, d3)
<1>1. Fields3(d1, d2, d3) = Plus(Fields2(d1, d2), d3)
  BY DEF Fields2, Fields3, Plus, FieldOk
<1> DEFINE a == Fields2(d1, d2)
           w == Then(FieldBytes(f, d1), FieldBytes(f, d2))
           l == FieldLen(f, d1) + FieldLen(f, d2)
<1>2. a \in Seq(FieldType) /\ WellTyped(f, a) /\ Encoding(f, a) = w /\ Length(Encoding(f, a)) = l
  BY Encoding2
<1> DEFINE s == Plus(a, d3)
<1> HIDE DEF a, w, l
<1>3. /\ s \in Seq(FieldType) /\ WellTyped(f, s) /\ Encoding(f, s) = Then(w, FieldBytes(f, d3))
      /\ Length(Encoding(f, s)) = l + FieldLen(f, d3)
  BY <1>2, EncodingMore
<1>4. Fields3(d1, d2, d3) = s
  BY <1>1 DEF a
<1> HIDE DEF s
<1> QED BY <1>3, <1>4 DEF w, l

LEMMA Encoding4 ==
    \A f, d1, d2, d3, d4 :
        FieldOk(f, d1) /\ FieldOk(f, d2) /\ FieldOk(f, d3) /\ FieldOk(f, d4) =>
        /\ Fields4(d1, d2, d3, d4) \in Seq(FieldType) /\ WellTyped(f, Fields4(d1, d2, d3, d4))
        /\ Encoding(f, Fields4(d1, d2, d3, d4)) =
               Then(Then(Then(FieldBytes(f, d1), FieldBytes(f, d2)), FieldBytes(f, d3)), FieldBytes(f, d4))
        /\ Length(Encoding(f, Fields4(d1, d2, d3, d4))) = FieldLen(f, d1) + FieldLen(f, d2) + FieldLen(f, d3) + FieldLen(f, d4)
<1> TAKE f, d1, d2, d3, d4
<1> HAVE FieldOk(f, d1) /\ FieldOk(f, d2) /\ FieldOk(f, d3) /\ FieldOk(f, d4)
<1>1. Fields4(d1, d2, d3, d4) = Plus(Fields3(d1, d2, d3), d4)
  BY DEF Fields3, Fields4, Plus, FieldOk
<1> DEFINE a == Fields3(d1, d2, d3)
           w == Then(Then(FieldBytes(f, d1), FieldBytes(f, d2)), FieldBytes(f, d3))
           l == FieldLen(f, d1) + FieldLen(f, d2) + FieldLen(f, d3)
<1>2. a \in Seq(FieldType) /\ WellTyped(f, a) /\ Encoding(f, a) = w /\ Length(Encoding(f, a)) = l
  BY Encoding3
<1> DEFINE s == Plus(a, d4)
<1> HIDE DEF a, w, l
<1>3. /\ s \in Seq(FieldType) /\ WellTyped(f, s) /\ Encoding(f, s) = Then(w, FieldBytes(f, d4))
      /\ Length(Encoding(f, s)) = l + FieldLen(f, d4)
  BY <1>2, EncodingMore
<1>4. Fields4(d1, d2, d3, d4) = s
  BY <1>1 DEF a
<1> HIDE DEF s
<1> QED BY <1>3, <1>4 DEF w, l

LEMMA Encoding5 ==
    \A f, d1, d2, d3, d4, d5 :
        FieldOk(f, d1) /\ FieldOk(f, d2) /\ FieldOk(f, d3) /\ FieldOk(f, d4) /\ FieldOk(f, d5) =>
        /\ Fields5(d1, d2, d3, d4, d5) \in Seq(FieldType) /\ WellTyped(f, Fields5(d1, d2, d3, d4, d5))
        /\ Encoding(f, Fields5(d1, d2, d3, d4, d5)) =
               Then(Then(Then(Then(FieldBytes(f, d1), FieldBytes(f, d2)), FieldBytes(f, d3)), FieldBytes(f, d4)), FieldBytes(f, d5))
        /\ Length(Encoding(f, Fields5(d1, d2, d3, d4, d5))) = FieldLen(f, d1) + FieldLen(f, d2) + FieldLen(f, d3) + FieldLen(f, d4) + FieldLen(f, d5)
<1> TAKE f, d1, d2, d3, d4, d5
<1> HAVE FieldOk(f, d1) /\ FieldOk(f, d2) /\ FieldOk(f, d3) /\ FieldOk(f, d4) /\ FieldOk(f, d5)
<1>1. Fields5(d1, d2, d3, d4, d5) = Plus(Fields4(d1, d2, d3, d4), d5)
  BY DEF Fields4, Fields5, Plus, FieldOk
<1> DEFINE a == Fields4(d1, d2, d3, d4)
           w == Then(Then(Then(FieldBytes(f, d1), FieldBytes(f, d2)), FieldBytes(f, d3)), FieldBytes(f, d4))
           l == FieldLen(f, d1) + FieldLen(f, d2) + FieldLen(f, d3) + FieldLen(f, d4)
<1>2. a \in Seq(FieldType) /\ WellTyped(f, a) /\ Encoding(f, a) = w /\ Length(Encoding(f, a)) = l
  BY Encoding4
<1> DEFINE s == Plus(a, d5)
<1> HIDE DEF a, w, l
<1>3. /\ s \in Seq(FieldType) /\ WellTyped(f, s) /\ Encoding(f, s) = Then(w, FieldBytes(f, d5))
      /\ Length(Encoding(f, s)) = l + FieldLen(f, d5)
  BY <1>2, EncodingMore
<1>4. Fields5(d1, d2, d3, d4, d5) = s
  BY <1>1 DEF a
<1> HIDE DEF s
<1> QED BY <1>3, <1>4 DEF w, l

-----------------------------------------------------------------------------
(* Messages                                                                *)

LEMMA FieldParts ==
    \A f, x :
        /\ FieldBytes(f, <<x, "u8">>) = U8(f[x]) /\ FieldLen(f, <<x, "u8">>) = BIT8SZ
        /\ FieldBytes(f, <<x, "u16">>) = U16(f[x]) /\ FieldLen(f, <<x, "u16">>) = BIT16SZ
        /\ FieldBytes(f, <<x, "u32">>) = U32(f[x]) /\ FieldLen(f, <<x, "u32">>) = BIT32SZ
        /\ FieldBytes(f, <<x, "u64">>) = f[x] /\ FieldLen(f, <<x, "u64">>) = BIT64SZ
        /\ FieldBytes(f, <<x, "str">>) = Pstring(f[x]) /\ FieldLen(f, <<x, "str">>) = Stringsz(f[x])
        /\ FieldBytes(f, <<x, "qid">>) = Pqid(f[x]) /\ FieldLen(f, <<x, "qid">>) = QIDSZ
<1> TAKE f, x
<1>1. FieldBytes(f, <<x, "u8">>) = U8(f[x]) /\ FieldLen(f, <<x, "u8">>) = BIT8SZ
  BY DEF FieldBytes, FieldLen, Written, FieldSize, Width, U8
<1>2. FieldBytes(f, <<x, "u16">>) = U16(f[x]) /\ FieldLen(f, <<x, "u16">>) = BIT16SZ
  BY DEF FieldBytes, FieldLen, Written, FieldSize, Width, U16
<1>3. FieldBytes(f, <<x, "u32">>) = U32(f[x]) /\ FieldLen(f, <<x, "u32">>) = BIT32SZ
  BY DEF FieldBytes, FieldLen, Written, FieldSize, Width, U32
<1>4. FieldBytes(f, <<x, "u64">>) = f[x] /\ FieldLen(f, <<x, "u64">>) = BIT64SZ
  BY DEF FieldBytes, FieldLen, Written, FieldSize, Width
<1>5. FieldBytes(f, <<x, "str">>) = Pstring(f[x]) /\ FieldLen(f, <<x, "str">>) = Stringsz(f[x])
  BY DEF FieldBytes, FieldLen, Written, FieldSize
<1>6. FieldBytes(f, <<x, "qid">>) = Pqid(f[x]) /\ FieldLen(f, <<x, "qid">>) = QIDSZ
  BY DEF FieldBytes, FieldLen, Written, FieldSize
<1> QED BY <1>1, <1>2, <1>3, <1>4, <1>5, <1>6

(* Fields that are well typed are so one by one.                           *)
LEMMA Typed1 ==
    \A f, d1 : d1 \in FieldType /\ WellTyped(f, Fields1(d1)) =>
        FieldOk(f, d1)
<1> TAKE f, d1
<1> HAVE d1 \in FieldType /\ WellTyped(f, Fields1(d1))
<1>1. f[d1[1]] \in Meant(d1[2])
  <2>1. 1 \in DOMAIN Fields1(d1) /\ Fields1(d1)[1] = d1
    BY DEF Fields1
  <2> QED BY <2>1 DEF WellTyped
<1> QED BY <1>1 DEF FieldOk

LEMMA Typed2 ==
    \A f, d1, d2 : d1 \in FieldType /\ d2 \in FieldType /\ WellTyped(f, Fields2(d1, d2)) =>
        FieldOk(f, d1) /\ FieldOk(f, d2)
<1> TAKE f, d1, d2
<1> HAVE d1 \in FieldType /\ d2 \in FieldType /\ WellTyped(f, Fields2(d1, d2))
<1>1. f[d1[1]] \in Meant(d1[2])
  <2>1. 1 \in DOMAIN Fields2(d1, d2) /\ Fields2(d1, d2)[1] = d1
    BY DEF Fields2
  <2> QED BY <2>1 DEF WellTyped
<1>2. f[d2[1]] \in Meant(d2[2])
  <2>1. 2 \in DOMAIN Fields2(d1, d2) /\ Fields2(d1, d2)[2] = d2
    BY DEF Fields2
  <2> QED BY <2>1 DEF WellTyped
<1> QED BY <1>1, <1>2 DEF FieldOk

LEMMA Typed3 ==
    \A f, d1, d2, d3 : d1 \in FieldType /\ d2 \in FieldType /\ d3 \in FieldType /\ WellTyped(f, Fields3(d1, d2, d3)) =>
        FieldOk(f, d1) /\ FieldOk(f, d2) /\ FieldOk(f, d3)
<1> TAKE f, d1, d2, d3
<1> HAVE d1 \in FieldType /\ d2 \in FieldType /\ d3 \in FieldType /\ WellTyped(f, Fields3(d1, d2, d3))
<1>1. f[d1[1]] \in Meant(d1[2])
  <2>1. 1 \in DOMAIN Fields3(d1, d2, d3) /\ Fields3(d1, d2, d3)[1] = d1
    BY DEF Fields3
  <2> QED BY <2>1 DEF WellTyped
<1>2. f[d2[1]] \in Meant(d2[2])
  <2>1. 2 \in DOMAIN Fields3(d1, d2, d3) /\ Fields3(d1, d2, d3)[2] = d2
    BY DEF Fields3
  <2> QED BY <2>1 DEF WellTyped
<1>3. f[d3[1]] \in Meant(d3[2])
  <2>1. 3 \in DOMAIN Fields3(d1, d2, d3) /\ Fields3(d1, d2, d3)[3] = d3
    BY DEF Fields3
  <2> QED BY <2>1 DEF WellTyped
<1> QED BY <1>1, <1>2, <1>3 DEF FieldOk

LEMMA Typed4 ==
    \A f, d1, d2, d3, d4 : d1 \in FieldType /\ d2 \in FieldType /\ d3 \in FieldType /\ d4 \in FieldType /\ WellTyped(f, Fields4(d1, d2, d3, d4)) =>
        FieldOk(f, d1) /\ FieldOk(f, d2) /\ FieldOk(f, d3) /\ FieldOk(f, d4)
<1> TAKE f, d1, d2, d3, d4
<1> HAVE d1 \in FieldType /\ d2 \in FieldType /\ d3 \in FieldType /\ d4 \in FieldType /\ WellTyped(f, Fields4(d1, d2, d3, d4))
<1>1. f[d1[1]] \in Meant(d1[2])
  <2>1. 1 \in DOMAIN Fields4(d1, d2, d3, d4) /\ Fields4(d1, d2, d3, d4)[1] = d1
    BY DEF Fields4
  <2> QED BY <2>1 DEF WellTyped
<1>2. f[d2[1]] \in Meant(d2[2])
  <2>1. 2 \in DOMAIN Fields4(d1, d2, d3, d4) /\ Fields4(d1, d2, d3, d4)[2] = d2
    BY DEF Fields4
  <2> QED BY <2>1 DEF WellTyped
<1>3. f[d3[1]] \in Meant(d3[2])
  <2>1. 3 \in DOMAIN Fields4(d1, d2, d3, d4) /\ Fields4(d1, d2, d3, d4)[3] = d3
    BY DEF Fields4
  <2> QED BY <2>1 DEF WellTyped
<1>4. f[d4[1]] \in Meant(d4[2])
  <2>1. 4 \in DOMAIN Fields4(d1, d2, d3, d4) /\ Fields4(d1, d2, d3, d4)[4] = d4
    BY DEF Fields4
  <2> QED BY <2>1 DEF WellTyped
<1> QED BY <1>1, <1>2, <1>3, <1>4 DEF FieldOk

LEMMA Typed5 ==
    \A f, d1, d2, d3, d4, d5 : d1 \in FieldType /\ d2 \in FieldType /\ d3 \in FieldType /\ d4 \in FieldType /\ d5 \in FieldType /\ WellTyped(f, Fields5(d1, d2, d3, d4, d5)) =>
        FieldOk(f, d1) /\ FieldOk(f, d2) /\ FieldOk(f, d3) /\ FieldOk(f, d4) /\ FieldOk(f, d5)
<1> TAKE f, d1, d2, d3, d4, d5
<1> HAVE d1 \in FieldType /\ d2 \in FieldType /\ d3 \in FieldType /\ d4 \in FieldType /\ d5 \in FieldType /\ WellTyped(f, Fields5(d1, d2, d3, d4, d5))
<1>1. f[d1[1]] \in Meant(d1[2])
  <2>1. 1 \in DOMAIN Fields5(d1, d2, d3, d4, d5) /\ Fields5(d1, d2, d3, d4, d5)[1] = d1
    BY DEF Fields5
  <2> QED BY <2>1 DEF WellTyped
<1>2. f[d2[1]] \in Meant(d2[2])
  <2>1. 2 \in DOMAIN Fields5(d1, d2, d3, d4, d5) /\ Fields5(d1, d2, d3, d4, d5)[2] = d2
    BY DEF Fields5
  <2> QED BY <2>1 DEF WellTyped
<1>3. f[d3[1]] \in Meant(d3[2])
  <2>1. 3 \in DOMAIN Fields5(d1, d2, d3, d4, d5) /\ Fields5(d1, d2, d3, d4, d5)[3] = d3
    BY DEF Fields5
  <2> QED BY <2>1 DEF WellTyped
<1>4. f[d4[1]] \in Meant(d4[2])
  <2>1. 4 \in DOMAIN Fields5(d1, d2, d3, d4, d5) /\ Fields5(d1, d2, d3, d4, d5)[4] = d4
    BY DEF Fields5
  <2> QED BY <2>1 DEF WellTyped
<1>5. f[d5[1]] \in Meant(d5[2])
  <2>1. 5 \in DOMAIN Fields5(d1, d2, d3, d4, d5) /\ Fields5(d1, d2, d3, d4, d5)[5] = d5
    BY DEF Fields5
  <2> QED BY <2>1 DEF WellTyped
<1> QED BY <1>1, <1>2, <1>3, <1>4, <1>5 DEF FieldOk

(* The strings of a Twalk have a length.                                   *)
LEMMA StringsSzNat ==
    ASSUME NEW v \in Lists(Names)
    PROVE  StringsSz(v) \in Nat
<1>1. v \in Seq(Names) /\ Len(v) \in Nat /\ \A i \in 1 .. Len(v) : v[i] \in Names
  BY LenProperties, ElementOfSeq DEF Lists
<1>2. PICK s \in Seq(Buffers) :
          /\ Len(s) = Len(v) /\ \A i \in 1 .. Len(v) : s[i] = Pstring(v[i])
          /\ Each(Pstring, v) = Cat(s)[Len(s)] /\ Each(Pstring, v) \in Buffers
  BY <1>1, EachName
<1>3. \A i \in 1 .. Len(v) : Len(s[i]) = Stringsz(v[i])
  BY <1>1, <1>2, StringBuffer
<1> DEFINE b == Each(Pstring, v)
<1>4. Len(b) = StringsSz(v)
  BY <1>1, <1>2, <1>3, StringsSzIs
<1>5. b \in Buffers
  BY <1>2
<1> HIDE DEF b
<1> QED BY <1>4, <1>5, BufferIs

(* The three tables agree about a message.                                 *)
Agree(f, fields, b, size) ==
    /\ fields \in Seq(FieldType) /\ WellTyped(f, fields)
    /\ b = Encoding(f, fields) /\ Length(b) = size

(* Tables of fields are made of names and kinds, some with a last field.      *)
LEMMA FieldTypes ==
    \A x \in FieldNames :
        /\ <<x, "u8">> \in FieldType
        /\ <<x, "u16">> \in FieldType
        /\ <<x, "u32">> \in FieldType
        /\ <<x, "u64">> \in FieldType
        /\ <<x, "str">> \in FieldType
        /\ <<x, "qid">> \in FieldType
        /\ <<x, "data">> \in FieldType
        /\ <<x, "stat">> \in FieldType
        /\ <<x, "names">> \in FieldType
        /\ <<x, "qids">> \in FieldType
BY DEF FieldType, Kinds

LEMMA Grown1 == \A d1 : d1 \in FieldType => Fields1(d1) \o <<>> = Fields1(d1)
  BY ConcatEmptySeq DEF Fields1

LEMMA Grown2 ==
    \A d1, d2 :
        d1 \in FieldType /\ d2 \in FieldType =>
        Fields1(d1) \o Fields1(d2) = Fields2(d1, d2) /\ Fields2(d1, d2) \o <<>> = Fields2(d1, d2)
<1> TAKE d1, d2
<1> HAVE d1 \in FieldType /\ d2 \in FieldType
<1>1. Fields2(d1, d2) = Fields1(d1) \o Fields1(d2)
  BY TupleOfTwo DEF Fields1, Fields2
<1>2. Fields2(d1, d2) \in Seq(FieldType)
  BY DEF Fields2
<1> QED BY <1>1, <1>2, ConcatEmptySeq

LEMMA Grown3 ==
    \A d1, d2, d3 :
        d1 \in FieldType /\ d2 \in FieldType /\ d3 \in FieldType =>
        Fields2(d1, d2) \o Fields1(d3) = Fields3(d1, d2, d3) /\ Fields3(d1, d2, d3) \o <<>> = Fields3(d1, d2, d3)
<1> TAKE d1, d2, d3
<1> HAVE d1 \in FieldType /\ d2 \in FieldType /\ d3 \in FieldType
<1>1. Fields3(d1, d2, d3) = Fields2(d1, d2) \o Fields1(d3)
  BY DEF Fields1, Fields3, Fields2
<1>2. Fields3(d1, d2, d3) \in Seq(FieldType)
  BY DEF Fields3
<1> QED BY <1>1, <1>2, ConcatEmptySeq

LEMMA Grown4 ==
    \A d1, d2, d3, d4 :
        d1 \in FieldType /\ d2 \in FieldType /\ d3 \in FieldType /\ d4 \in FieldType =>
        Fields3(d1, d2, d3) \o Fields1(d4) = Fields4(d1, d2, d3, d4) /\ Fields4(d1, d2, d3, d4) \o <<>> = Fields4(d1, d2, d3, d4)
<1> TAKE d1, d2, d3, d4
<1> HAVE d1 \in FieldType /\ d2 \in FieldType /\ d3 \in FieldType /\ d4 \in FieldType
<1>1. Fields4(d1, d2, d3, d4) = Fields3(d1, d2, d3) \o Fields1(d4)
  BY DEF Fields1, Fields4, Fields3
<1>2. Fields4(d1, d2, d3, d4) \in Seq(FieldType)
  BY DEF Fields4
<1> QED BY <1>1, <1>2, ConcatEmptySeq

LEMMA Grown5 ==
    \A d1, d2, d3, d4, d5 :
        d1 \in FieldType /\ d2 \in FieldType /\ d3 \in FieldType /\ d4 \in FieldType /\ d5 \in FieldType =>
        Fields4(d1, d2, d3, d4) \o Fields1(d5) = Fields5(d1, d2, d3, d4, d5) /\ Fields5(d1, d2, d3, d4, d5) \o <<>> = Fields5(d1, d2, d3, d4, d5)
<1> TAKE d1, d2, d3, d4, d5
<1> HAVE d1 \in FieldType /\ d2 \in FieldType /\ d3 \in FieldType /\ d4 \in FieldType /\ d5 \in FieldType
<1>1. Fields5(d1, d2, d3, d4, d5) = Fields4(d1, d2, d3, d4) \o Fields1(d5)
  BY DEF Fields1, Fields5, Fields4
<1>2. Fields5(d1, d2, d3, d4, d5) \in Seq(FieldType)
  BY DEF Fields5
<1> QED BY <1>1, <1>2, ConcatEmptySeq

LEMMA AgreeTversion ==
    ASSUME NEW dotu \in BOOLEAN, NEW f, f.type = "Tversion", WellTyped(f, GetT(f.type, dotu))
    PROVE  Agree(f, GetT(f.type, dotu), PutT(f, dotu), SizeT(f, dotu))
<1> DEFINE d1 == <<"msize", "u32">>
           d2 == <<"version", "str">>
           fields == Fields2(d1, d2)
<1>0. d1 \in FieldType /\ d2 \in FieldType
  <2>1. "msize" \in FieldNames /\ "version" \in FieldNames
    BY DEF FieldNames
  <2> QED BY Zenon, <2>1, FieldTypes
<1>1. GetT(f.type, dotu) = fields
  BY Zenon DEF GetT, Fields2
<1>2. PutT(f, dotu) = Then(U32(f.msize), Pstring(f.version))
  BY Zenon DEF PutT, Then
<1>3. SizeT(f, dotu) = BIT32SZ + Stringsz(f.version)
  BY DEF SizeT
<1>4. FieldOk(f, d1) /\ FieldOk(f, d2)
  <2>2. WellTyped(f, fields)
    BY <1>1
  <2> HIDE DEF d1, d2
  <2> QED BY <1>0, <2>2, Typed2
<1>5a. FieldBytes(f, d1) = U32(f.msize) /\ FieldLen(f, d1) = BIT32SZ
  BY FieldParts
<1>5b. FieldBytes(f, d2) = Pstring(f.version) /\ FieldLen(f, d2) = Stringsz(f.version)
  BY FieldParts
<1>6. /\ fields \in Seq(FieldType) /\ WellTyped(f, fields)
      /\ Encoding(f, fields) = Then(FieldBytes(f, d1), FieldBytes(f, d2))
      /\ Length(Encoding(f, fields)) = FieldLen(f, d1) + FieldLen(f, d2)
  <2> HIDE DEF d1, d2
  <2> QED BY <1>4, Encoding2
<1> HIDE DEF fields, d1, d2
<1>7. Encoding(f, fields) = Then(U32(f.msize), Pstring(f.version))
  BY <1>6, <1>5a, <1>5b
<1>8. Length(Encoding(f, fields)) = BIT32SZ + Stringsz(f.version)
  <2> DEFINE l1 == BIT32SZ
             l2 == Stringsz(f.version)
  <2>1. l1 \in Nat /\ l2 \in Nat
    BY <1>4, EncodingOne, <1>5a, <1>5b
  <2>2. BIT32SZ \in Nat
    BY DEF BIT32SZ
  <2>4. Length(Encoding(f, fields)) = l1 + l2
    BY <1>6, <1>5a, <1>5b
  <2>5. l1 + l2 = BIT32SZ + Stringsz(f.version)
    BY <2>1, <2>2
  <2> QED BY <2>4, <2>5
<1>9. PutT(f, dotu) = Encoding(f, fields)
  BY <1>2, <1>7
<1> QED BY <1>1, <1>3, <1>6, <1>8, <1>9 DEF Agree

LEMMA AgreeTflush ==
    ASSUME NEW dotu \in BOOLEAN, NEW f, f.type = "Tflush", WellTyped(f, GetT(f.type, dotu))
    PROVE  Agree(f, GetT(f.type, dotu), PutT(f, dotu), SizeT(f, dotu))
<1> DEFINE d1 == <<"oldtag", "u16">>
           fields == Fields1(d1)
<1>0. d1 \in FieldType
  <2>1. "oldtag" \in FieldNames
    BY DEF FieldNames
  <2> QED BY Zenon, <2>1, FieldTypes
<1>1. GetT(f.type, dotu) = fields
  BY Zenon DEF GetT, Fields1
<1>2. PutT(f, dotu) = U16(f.oldtag)
  BY Zenon DEF PutT, Then
<1>3. SizeT(f, dotu) = BIT16SZ
  BY DEF SizeT
<1>4. FieldOk(f, d1)
  <2>2. WellTyped(f, fields)
    BY <1>1
  <2> HIDE DEF d1
  <2> QED BY <1>0, <2>2, Typed1
<1>5a. FieldBytes(f, d1) = U16(f.oldtag) /\ FieldLen(f, d1) = BIT16SZ
  BY FieldParts
<1>6. /\ fields \in Seq(FieldType) /\ WellTyped(f, fields)
      /\ Encoding(f, fields) = FieldBytes(f, d1)
      /\ Length(Encoding(f, fields)) = FieldLen(f, d1)
  <2> HIDE DEF d1
  <2> QED BY <1>4, Encoding1
<1> HIDE DEF fields, d1
<1>7. Encoding(f, fields) = U16(f.oldtag)
  BY <1>6, <1>5a
<1>8. Length(Encoding(f, fields)) = BIT16SZ
  BY <1>6, <1>5a
<1>9. PutT(f, dotu) = Encoding(f, fields)
  BY <1>2, <1>7
<1> QED BY <1>1, <1>3, <1>6, <1>8, <1>9 DEF Agree

LEMMA AgreeTauthU ==
    ASSUME NEW dotu \in BOOLEAN, NEW f, f.type = "Tauth", WellTyped(f, GetT(f.type, dotu)), dotu
    PROVE  Agree(f, GetT(f.type, dotu), PutT(f, dotu), SizeT(f, dotu))
<1> DEFINE d1 == <<"afid", "u32">>
           d2 == <<"uname", "str">>
           d3 == <<"aname", "str">>
           d4 == <<"unamenum", "u32">>
           fields == Fields4(d1, d2, d3, d4)
<1>0. d1 \in FieldType /\ d2 \in FieldType /\ d3 \in FieldType /\ d4 \in FieldType
  <2>1. "afid" \in FieldNames /\ "uname" \in FieldNames /\ "aname" \in FieldNames /\ "unamenum" \in FieldNames
    BY DEF FieldNames
  <2> QED BY Zenon, <2>1, FieldTypes
<1>1. GetT(f.type, dotu) = fields
  <2>1. GetT(f.type, dotu) = Fields3(d1, d2, d3) \o Fields1(d4)
    BY Zenon DEF GetT, IfU, Fields1, Fields3
  <2> HIDE DEF d1, d2, d3, d4
  <2> QED BY <1>0, <2>1, Grown4
<1>2. PutT(f, dotu) = Then(Then(Then(U32(f.afid), Pstring(f.uname)), Pstring(f.aname)), U32(f.unamenum))
  BY Zenon DEF PutT, Then, IfU
<1>3. SizeT(f, dotu) = BIT32SZ + Stringsz(f.uname) + Stringsz(f.aname) + BIT32SZ
  BY DEF SizeT, DotU
<1>4. FieldOk(f, d1) /\ FieldOk(f, d2) /\ FieldOk(f, d3) /\ FieldOk(f, d4)
  <2>2. WellTyped(f, fields)
    BY <1>1
  <2> HIDE DEF d1, d2, d3, d4
  <2> QED BY <1>0, <2>2, Typed4
<1>5a. FieldBytes(f, d1) = U32(f.afid) /\ FieldLen(f, d1) = BIT32SZ
  BY FieldParts
<1>5b. FieldBytes(f, d2) = Pstring(f.uname) /\ FieldLen(f, d2) = Stringsz(f.uname)
  BY FieldParts
<1>5c. FieldBytes(f, d3) = Pstring(f.aname) /\ FieldLen(f, d3) = Stringsz(f.aname)
  BY FieldParts
<1>5d. FieldBytes(f, d4) = U32(f.unamenum) /\ FieldLen(f, d4) = BIT32SZ
  BY FieldParts
<1>6. /\ fields \in Seq(FieldType) /\ WellTyped(f, fields)
      /\ Encoding(f, fields) = Then(Then(Then(FieldBytes(f, d1), FieldBytes(f, d2)), FieldBytes(f, d3)), FieldBytes(f, d4))
      /\ Length(Encoding(f, fields)) = FieldLen(f, d1) + FieldLen(f, d2) + FieldLen(f, d3) + FieldLen(f, d4)
  <2> HIDE DEF d1, d2, d3, d4
  <2> QED BY <1>4, Encoding4
<1> HIDE DEF fields, d1, d2, d3, d4
<1>7. Encoding(f, fields) = Then(Then(Then(U32(f.afid), Pstring(f.uname)), Pstring(f.aname)), U32(f.unamenum))
  BY <1>6, <1>5a, <1>5b, <1>5c, <1>5d
<1>8. Length(Encoding(f, fields)) = BIT32SZ + Stringsz(f.uname) + Stringsz(f.aname) + BIT32SZ
  <2> DEFINE l1 == BIT32SZ
             l2 == Stringsz(f.uname)
             l3 == Stringsz(f.aname)
             l4 == BIT32SZ
  <2>1. l1 \in Nat /\ l2 \in Nat /\ l3 \in Nat /\ l4 \in Nat
    BY <1>4, EncodingOne, <1>5a, <1>5b, <1>5c, <1>5d
  <2>2. BIT32SZ \in Nat
    BY DEF BIT32SZ
  <2>4. Length(Encoding(f, fields)) = l1 + l2 + l3 + l4
    BY <1>6, <1>5a, <1>5b, <1>5c, <1>5d
  <2>5. l1 + l2 + l3 + l4 = BIT32SZ + Stringsz(f.uname) + Stringsz(f.aname) + BIT32SZ
    BY <2>1, <2>2
  <2> QED BY <2>4, <2>5
<1>9. PutT(f, dotu) = Encoding(f, fields)
  BY <1>2, <1>7
<1> QED BY <1>1, <1>3, <1>6, <1>8, <1>9 DEF Agree

LEMMA AgreeTauth ==
    ASSUME NEW dotu \in BOOLEAN, NEW f, f.type = "Tauth", WellTyped(f, GetT(f.type, dotu)), ~dotu
    PROVE  Agree(f, GetT(f.type, dotu), PutT(f, dotu), SizeT(f, dotu))
<1> DEFINE d1 == <<"afid", "u32">>
           d2 == <<"uname", "str">>
           d3 == <<"aname", "str">>
           fields == Fields3(d1, d2, d3)
<1>0. d1 \in FieldType /\ d2 \in FieldType /\ d3 \in FieldType
  <2>1. "afid" \in FieldNames /\ "uname" \in FieldNames /\ "aname" \in FieldNames
    BY DEF FieldNames
  <2> QED BY Zenon, <2>1, FieldTypes
<1>1. GetT(f.type, dotu) = fields
  <2>1. GetT(f.type, dotu) = fields \o <<>>
    BY Zenon DEF GetT, IfU, Fields3
  <2> HIDE DEF d1, d2, d3
  <2> QED BY <1>0, <2>1, Grown3
<1>2. PutT(f, dotu) = Then(Then(Then(U32(f.afid), Pstring(f.uname)), Pstring(f.aname)), <<>>)
  BY Zenon DEF PutT, IfU, Then
<1>3. SizeT(f, dotu) = BIT32SZ + Stringsz(f.uname) + Stringsz(f.aname) + 0
  BY DEF SizeT, DotU
<1>4. FieldOk(f, d1) /\ FieldOk(f, d2) /\ FieldOk(f, d3)
  <2>2. WellTyped(f, fields)
    BY <1>1
  <2> HIDE DEF d1, d2, d3
  <2> QED BY <1>0, <2>2, Typed3
<1>5a. FieldBytes(f, d1) = U32(f.afid) /\ FieldLen(f, d1) = BIT32SZ
  BY FieldParts
<1>5b. FieldBytes(f, d2) = Pstring(f.uname) /\ FieldLen(f, d2) = Stringsz(f.uname)
  BY FieldParts
<1>5c. FieldBytes(f, d3) = Pstring(f.aname) /\ FieldLen(f, d3) = Stringsz(f.aname)
  BY FieldParts
<1>6. /\ fields \in Seq(FieldType) /\ WellTyped(f, fields)
      /\ Encoding(f, fields) = Then(Then(FieldBytes(f, d1), FieldBytes(f, d2)), FieldBytes(f, d3))
      /\ Length(Encoding(f, fields)) = FieldLen(f, d1) + FieldLen(f, d2) + FieldLen(f, d3)
  <2> HIDE DEF d1, d2, d3
  <2> QED BY <1>4, Encoding3
<1> HIDE DEF fields, d1, d2, d3
<1>7. Encoding(f, fields) = Then(Then(U32(f.afid), Pstring(f.uname)), Pstring(f.aname))
  BY <1>6, <1>5a, <1>5b, <1>5c
<1>8. Length(Encoding(f, fields)) = BIT32SZ + Stringsz(f.uname) + Stringsz(f.aname) + 0
  <2> DEFINE l1 == BIT32SZ
             l2 == Stringsz(f.uname)
             l3 == Stringsz(f.aname)
  <2>1. l1 \in Nat /\ l2 \in Nat /\ l3 \in Nat
    BY <1>4, EncodingOne, <1>5a, <1>5b, <1>5c
  <2>2. BIT32SZ \in Nat
    BY DEF BIT32SZ
  <2>4. Length(Encoding(f, fields)) = l1 + l2 + l3
    BY <1>6, <1>5a, <1>5b, <1>5c
  <2>5. l1 + l2 + l3 = BIT32SZ + Stringsz(f.uname) + Stringsz(f.aname) + 0
    BY <2>1, <2>2
  <2> QED BY <2>4, <2>5
<1>9. PutT(f, dotu) = Encoding(f, fields)
  BY <1>2, <1>6, <1>7, EncodingIs, ThenEmpty
<1> QED BY <1>1, <1>3, <1>6, <1>8, <1>9 DEF Agree

LEMMA AgreeTattachU ==
    ASSUME NEW dotu \in BOOLEAN, NEW f, f.type = "Tattach", WellTyped(f, GetT(f.type, dotu)), dotu
    PROVE  Agree(f, GetT(f.type, dotu), PutT(f, dotu), SizeT(f, dotu))
<1> DEFINE d1 == <<"fid", "u32">>
           d2 == <<"afid", "u32">>
           d3 == <<"uname", "str">>
           d4 == <<"aname", "str">>
           d5 == <<"unamenum", "u32">>
           fields == Fields5(d1, d2, d3, d4, d5)
<1>0. d1 \in FieldType /\ d2 \in FieldType /\ d3 \in FieldType /\ d4 \in FieldType /\ d5 \in FieldType
  <2>1. "fid" \in FieldNames /\ "afid" \in FieldNames /\ "uname" \in FieldNames /\ "aname" \in FieldNames /\ "unamenum" \in FieldNames
    BY DEF FieldNames
  <2> QED BY Zenon, <2>1, FieldTypes
<1>1. GetT(f.type, dotu) = fields
  <2>1. GetT(f.type, dotu) = Fields4(d1, d2, d3, d4) \o Fields1(d5)
    BY Zenon DEF GetT, IfU, Fields1, Fields4
  <2> HIDE DEF d1, d2, d3, d4, d5
  <2> QED BY <1>0, <2>1, Grown5
<1>2. PutT(f, dotu) = Then(Then(Then(Then(U32(f.fid), U32(f.afid)), Pstring(f.uname)), Pstring(f.aname)), U32(f.unamenum))
  BY Zenon DEF PutT, Then, IfU
<1>3. SizeT(f, dotu) = 2 * BIT32SZ + Stringsz(f.uname) + Stringsz(f.aname) + BIT32SZ
  BY DEF SizeT, DotU
<1>4. FieldOk(f, d1) /\ FieldOk(f, d2) /\ FieldOk(f, d3) /\ FieldOk(f, d4) /\ FieldOk(f, d5)
  <2>2. WellTyped(f, fields)
    BY <1>1
  <2> HIDE DEF d1, d2, d3, d4, d5
  <2> QED BY <1>0, <2>2, Typed5
<1>5a. FieldBytes(f, d1) = U32(f.fid) /\ FieldLen(f, d1) = BIT32SZ
  BY FieldParts
<1>5b. FieldBytes(f, d2) = U32(f.afid) /\ FieldLen(f, d2) = BIT32SZ
  BY FieldParts
<1>5c. FieldBytes(f, d3) = Pstring(f.uname) /\ FieldLen(f, d3) = Stringsz(f.uname)
  BY FieldParts
<1>5d. FieldBytes(f, d4) = Pstring(f.aname) /\ FieldLen(f, d4) = Stringsz(f.aname)
  BY FieldParts
<1>5e. FieldBytes(f, d5) = U32(f.unamenum) /\ FieldLen(f, d5) = BIT32SZ
  BY FieldParts
<1>6. /\ fields \in Seq(FieldType) /\ WellTyped(f, fields)
      /\ Encoding(f, fields) = Then(Then(Then(Then(FieldBytes(f, d1), FieldBytes(f, d2)), FieldBytes(f, d3)), FieldBytes(f, d4)), FieldBytes(f, d5))
      /\ Length(Encoding(f, fields)) = FieldLen(f, d1) + FieldLen(f, d2) + FieldLen(f, d3) + FieldLen(f, d4) + FieldLen(f, d5)
  <2> HIDE DEF d1, d2, d3, d4, d5
  <2> QED BY <1>4, Encoding5
<1> HIDE DEF fields, d1, d2, d3, d4, d5
<1>7. Encoding(f, fields) = Then(Then(Then(Then(U32(f.fid), U32(f.afid)), Pstring(f.uname)), Pstring(f.aname)), U32(f.unamenum))
  BY <1>6, <1>5a, <1>5b, <1>5c, <1>5d, <1>5e
<1>8. Length(Encoding(f, fields)) = 2 * BIT32SZ + Stringsz(f.uname) + Stringsz(f.aname) + BIT32SZ
  <2> DEFINE l1 == BIT32SZ
             l2 == BIT32SZ
             l3 == Stringsz(f.uname)
             l4 == Stringsz(f.aname)
             l5 == BIT32SZ
  <2>1. l1 \in Nat /\ l2 \in Nat /\ l3 \in Nat /\ l4 \in Nat /\ l5 \in Nat
    BY <1>4, EncodingOne, <1>5a, <1>5b, <1>5c, <1>5d, <1>5e
  <2>2. BIT32SZ \in Nat
    BY DEF BIT32SZ
  <2>4. Length(Encoding(f, fields)) = l1 + l2 + l3 + l4 + l5
    BY <1>6, <1>5a, <1>5b, <1>5c, <1>5d, <1>5e
  <2>5. l1 + l2 + l3 + l4 + l5 = 2 * BIT32SZ + Stringsz(f.uname) + Stringsz(f.aname) + BIT32SZ
    BY <2>1, <2>2
  <2> QED BY <2>4, <2>5
<1>9. PutT(f, dotu) = Encoding(f, fields)
  BY <1>2, <1>7
<1> QED BY <1>1, <1>3, <1>6, <1>8, <1>9 DEF Agree

LEMMA AgreeTattach ==
    ASSUME NEW dotu \in BOOLEAN, NEW f, f.type = "Tattach", WellTyped(f, GetT(f.type, dotu)), ~dotu
    PROVE  Agree(f, GetT(f.type, dotu), PutT(f, dotu), SizeT(f, dotu))
<1> DEFINE d1 == <<"fid", "u32">>
           d2 == <<"afid", "u32">>
           d3 == <<"uname", "str">>
           d4 == <<"aname", "str">>
           fields == Fields4(d1, d2, d3, d4)
<1>0. d1 \in FieldType /\ d2 \in FieldType /\ d3 \in FieldType /\ d4 \in FieldType
  <2>1. "fid" \in FieldNames /\ "afid" \in FieldNames /\ "uname" \in FieldNames /\ "aname" \in FieldNames
    BY DEF FieldNames
  <2> QED BY Zenon, <2>1, FieldTypes
<1>1. GetT(f.type, dotu) = fields
  <2>1. GetT(f.type, dotu) = fields \o <<>>
    BY Zenon DEF GetT, IfU, Fields4
  <2> HIDE DEF d1, d2, d3, d4
  <2> QED BY <1>0, <2>1, Grown4
<1>2. PutT(f, dotu) = Then(Then(Then(Then(U32(f.fid), U32(f.afid)), Pstring(f.uname)), Pstring(f.aname)), <<>>)
  BY Zenon DEF PutT, IfU, Then
<1>3. SizeT(f, dotu) = 2 * BIT32SZ + Stringsz(f.uname) + Stringsz(f.aname) + 0
  BY DEF SizeT, DotU
<1>4. FieldOk(f, d1) /\ FieldOk(f, d2) /\ FieldOk(f, d3) /\ FieldOk(f, d4)
  <2>2. WellTyped(f, fields)
    BY <1>1
  <2> HIDE DEF d1, d2, d3, d4
  <2> QED BY <1>0, <2>2, Typed4
<1>5a. FieldBytes(f, d1) = U32(f.fid) /\ FieldLen(f, d1) = BIT32SZ
  BY FieldParts
<1>5b. FieldBytes(f, d2) = U32(f.afid) /\ FieldLen(f, d2) = BIT32SZ
  BY FieldParts
<1>5c. FieldBytes(f, d3) = Pstring(f.uname) /\ FieldLen(f, d3) = Stringsz(f.uname)
  BY FieldParts
<1>5d. FieldBytes(f, d4) = Pstring(f.aname) /\ FieldLen(f, d4) = Stringsz(f.aname)
  BY FieldParts
<1>6. /\ fields \in Seq(FieldType) /\ WellTyped(f, fields)
      /\ Encoding(f, fields) = Then(Then(Then(FieldBytes(f, d1), FieldBytes(f, d2)), FieldBytes(f, d3)), FieldBytes(f, d4))
      /\ Length(Encoding(f, fields)) = FieldLen(f, d1) + FieldLen(f, d2) + FieldLen(f, d3) + FieldLen(f, d4)
  <2> HIDE DEF d1, d2, d3, d4
  <2> QED BY <1>4, Encoding4
<1> HIDE DEF fields, d1, d2, d3, d4
<1>7. Encoding(f, fields) = Then(Then(Then(U32(f.fid), U32(f.afid)), Pstring(f.uname)), Pstring(f.aname))
  BY <1>6, <1>5a, <1>5b, <1>5c, <1>5d
<1>8. Length(Encoding(f, fields)) = 2 * BIT32SZ + Stringsz(f.uname) + Stringsz(f.aname) + 0
  <2> DEFINE l1 == BIT32SZ
             l2 == BIT32SZ
             l3 == Stringsz(f.uname)
             l4 == Stringsz(f.aname)
  <2>1. l1 \in Nat /\ l2 \in Nat /\ l3 \in Nat /\ l4 \in Nat
    BY <1>4, EncodingOne, <1>5a, <1>5b, <1>5c, <1>5d
  <2>2. BIT32SZ \in Nat
    BY DEF BIT32SZ
  <2>4. Length(Encoding(f, fields)) = l1 + l2 + l3 + l4
    BY <1>6, <1>5a, <1>5b, <1>5c, <1>5d
  <2>5. l1 + l2 + l3 + l4 = 2 * BIT32SZ + Stringsz(f.uname) + Stringsz(f.aname) + 0
    BY <2>1, <2>2
  <2> QED BY <2>4, <2>5
<1>9. PutT(f, dotu) = Encoding(f, fields)
  BY <1>2, <1>6, <1>7, EncodingIs, ThenEmpty
<1> QED BY <1>1, <1>3, <1>6, <1>8, <1>9 DEF Agree

LEMMA AgreeTwalk ==
    ASSUME NEW dotu \in BOOLEAN, NEW f, f.type = "Twalk", WellTyped(f, GetT(f.type, dotu))
    PROVE  Agree(f, GetT(f.type, dotu), PutT(f, dotu), SizeT(f, dotu))
<1> DEFINE d1 == <<"fid", "u32">>
           d2 == <<"newfid", "u32">>
           d3 == <<"wname", "names">>
           fields == Fields3(d1, d2, d3)
<1>0. d1 \in FieldType /\ d2 \in FieldType /\ d3 \in FieldType
  <2>1. "fid" \in FieldNames /\ "newfid" \in FieldNames /\ "wname" \in FieldNames
    BY DEF FieldNames
  <2> QED BY Zenon, <2>1, FieldTypes
<1>1. GetT(f.type, dotu) = fields
  BY Zenon DEF GetT, Fields3
<1>2. PutT(f, dotu) = Then(Then(Then(U32(f.fid), U32(f.newfid)), U16(Len(f.wname))), Each(Pstring, f.wname))
  BY Zenon DEF PutT, Then
<1>3. SizeT(f, dotu) = 2 * BIT32SZ + BIT16SZ + StringsSz(f.wname)
  BY DEF SizeT
<1>4. FieldOk(f, d1) /\ FieldOk(f, d2) /\ FieldOk(f, d3)
  <2>2. WellTyped(f, fields)
    BY <1>1
  <2> HIDE DEF d1, d2, d3
  <2> QED BY <1>0, <2>2, Typed3
<1>5a. FieldBytes(f, d1) = U32(f.fid) /\ FieldLen(f, d1) = BIT32SZ
  BY FieldParts
<1>5b. FieldBytes(f, d2) = U32(f.newfid) /\ FieldLen(f, d2) = BIT32SZ
  BY FieldParts
<1>5c. FieldBytes(f, d3) = Then(U16(Len(f.wname)), Each(Pstring, f.wname)) /\ FieldLen(f, d3) = BIT16SZ + StringsSz(f.wname)
  BY DEF FieldBytes, FieldLen, Written, FieldSize, Then
<1>6. /\ fields \in Seq(FieldType) /\ WellTyped(f, fields)
      /\ Encoding(f, fields) = Then(Then(FieldBytes(f, d1), FieldBytes(f, d2)), FieldBytes(f, d3))
      /\ Length(Encoding(f, fields)) = FieldLen(f, d1) + FieldLen(f, d2) + FieldLen(f, d3)
  <2> HIDE DEF d1, d2, d3
  <2> QED BY <1>4, Encoding3
<1> HIDE DEF fields, d1, d2, d3
<1>7. Encoding(f, fields) = Then(Then(U32(f.fid), U32(f.newfid)), Then(U16(Len(f.wname)), Each(Pstring, f.wname)))
  BY <1>6, <1>5a, <1>5b, <1>5c
<1>8. Length(Encoding(f, fields)) = 2 * BIT32SZ + BIT16SZ + StringsSz(f.wname)
  <2> DEFINE l1 == BIT32SZ
             l2 == BIT32SZ
             l3 == BIT16SZ + StringsSz(f.wname)
  <2>1. l1 \in Nat /\ l2 \in Nat /\ l3 \in Nat
    BY <1>4, EncodingOne, <1>5a, <1>5b, <1>5c
  <2>2. BIT32SZ \in Nat
    BY DEF BIT32SZ
  <2>4. Length(Encoding(f, fields)) = l1 + l2 + l3
    BY <1>6, <1>5a, <1>5b, <1>5c
  <2>5. l1 + l2 + l3 = 2 * BIT32SZ + BIT16SZ + StringsSz(f.wname)
    <3> DEFINE x == StringsSz(f.wname)
    <3>1. x \in Int
      <4>1. f.wname \in Meant("names")
        BY <1>4 DEF FieldOk, d3
      <4>2. f.wname \in Lists(Names)
        BY <4>1 DEF Meant
      <4> HIDE DEF x
      <4> QED BY <4>2, StringsSzNat DEF x
    <3>2. BIT8SZ \in Nat /\ BIT16SZ \in Nat /\ BIT32SZ \in Nat /\ BIT64SZ \in Nat
      BY DEF BIT8SZ, BIT16SZ, BIT32SZ, BIT64SZ
    <3> HIDE DEF x
    <3>3. BIT32SZ + BIT32SZ + (BIT16SZ + x) = 2 * BIT32SZ + BIT16SZ + x
      BY <3>1, <3>2
    <3> QED BY <3>3 DEF x
  <2> QED BY <2>4, <2>5
<1>9. PutT(f, dotu) = Encoding(f, fields)
  <2> DEFINE x == Then(U32(f.fid), U32(f.newfid))
             y == U16(Len(f.wname))
             z == Each(Pstring, f.wname)
  <2>1. x \in Buffers
    <3>1. U32(f.fid) \in Buffers /\ U32(f.newfid) \in Buffers
      BY <1>4, <1>5a, <1>5b, EncodingOne
    <3> QED BY <3>1, ThenBuffer
  <2>2. y \in Buffers /\ z \in Buffers
    <3>1. f.wname \in Meant("names")
      BY <1>4 DEF FieldOk, d3
    <3>2. f.wname \in Seq(Names) /\ Len(f.wname) \in Nat
      BY <3>1, LenProperties DEF Meant, Lists
    <3> QED BY <3>2, EachName, PBITBytes DEF U16, BIT16SZ
  <2>3. PutT(f, dotu) = Then(Then(x, y), z) /\ Encoding(f, fields) = Then(x, Then(y, z))
    BY <1>2, <1>7
  <2> HIDE DEF x, y, z
  <2> QED BY <2>1, <2>2, <2>3, ThenAssociative
<1> QED BY <1>1, <1>3, <1>6, <1>8, <1>9 DEF Agree

LEMMA AgreeTopen ==
    ASSUME NEW dotu \in BOOLEAN, NEW f, f.type = "Topen", WellTyped(f, GetT(f.type, dotu))
    PROVE  Agree(f, GetT(f.type, dotu), PutT(f, dotu), SizeT(f, dotu))
<1> DEFINE d1 == <<"fid", "u32">>
           d2 == <<"mode", "u8">>
           fields == Fields2(d1, d2)
<1>0. d1 \in FieldType /\ d2 \in FieldType
  <2>1. "fid" \in FieldNames /\ "mode" \in FieldNames
    BY DEF FieldNames
  <2> QED BY Zenon, <2>1, FieldTypes
<1>1. GetT(f.type, dotu) = fields
  BY Zenon DEF GetT, Fields2
<1>2. PutT(f, dotu) = Then(U32(f.fid), U8(f.mode))
  BY Zenon DEF PutT, Then
<1>3. SizeT(f, dotu) = BIT32SZ + BIT8SZ
  BY DEF SizeT
<1>4. FieldOk(f, d1) /\ FieldOk(f, d2)
  <2>2. WellTyped(f, fields)
    BY <1>1
  <2> HIDE DEF d1, d2
  <2> QED BY <1>0, <2>2, Typed2
<1>5a. FieldBytes(f, d1) = U32(f.fid) /\ FieldLen(f, d1) = BIT32SZ
  BY FieldParts
<1>5b. FieldBytes(f, d2) = U8(f.mode) /\ FieldLen(f, d2) = BIT8SZ
  BY FieldParts
<1>6. /\ fields \in Seq(FieldType) /\ WellTyped(f, fields)
      /\ Encoding(f, fields) = Then(FieldBytes(f, d1), FieldBytes(f, d2))
      /\ Length(Encoding(f, fields)) = FieldLen(f, d1) + FieldLen(f, d2)
  <2> HIDE DEF d1, d2
  <2> QED BY <1>4, Encoding2
<1> HIDE DEF fields, d1, d2
<1>7. Encoding(f, fields) = Then(U32(f.fid), U8(f.mode))
  BY <1>6, <1>5a, <1>5b
<1>8. Length(Encoding(f, fields)) = BIT32SZ + BIT8SZ
  <2> DEFINE l1 == BIT32SZ
             l2 == BIT8SZ
  <2>1. l1 \in Nat /\ l2 \in Nat
    BY <1>4, EncodingOne, <1>5a, <1>5b
  <2>2. BIT32SZ \in Nat
    BY DEF BIT32SZ
  <2>4. Length(Encoding(f, fields)) = l1 + l2
    BY <1>6, <1>5a, <1>5b
  <2>5. l1 + l2 = BIT32SZ + BIT8SZ
    BY <2>1, <2>2
  <2> QED BY <2>4, <2>5
<1>9. PutT(f, dotu) = Encoding(f, fields)
  BY <1>2, <1>7
<1> QED BY <1>1, <1>3, <1>6, <1>8, <1>9 DEF Agree

LEMMA AgreeTcreateU ==
    ASSUME NEW dotu \in BOOLEAN, NEW f, f.type = "Tcreate", WellTyped(f, GetT(f.type, dotu)), dotu
    PROVE  Agree(f, GetT(f.type, dotu), PutT(f, dotu), SizeT(f, dotu))
<1> DEFINE d1 == <<"fid", "u32">>
           d2 == <<"name", "str">>
           d3 == <<"perm", "u32">>
           d4 == <<"mode", "u8">>
           d5 == <<"ext", "str">>
           fields == Fields5(d1, d2, d3, d4, d5)
<1>0. d1 \in FieldType /\ d2 \in FieldType /\ d3 \in FieldType /\ d4 \in FieldType /\ d5 \in FieldType
  <2>1. "fid" \in FieldNames /\ "name" \in FieldNames /\ "perm" \in FieldNames /\ "mode" \in FieldNames /\ "ext" \in FieldNames
    BY DEF FieldNames
  <2> QED BY Zenon, <2>1, FieldTypes
<1>1. GetT(f.type, dotu) = fields
  <2>1. GetT(f.type, dotu) = Fields4(d1, d2, d3, d4) \o Fields1(d5)
    BY Zenon DEF GetT, IfU, Fields1, Fields4
  <2> HIDE DEF d1, d2, d3, d4, d5
  <2> QED BY <1>0, <2>1, Grown5
<1>2. PutT(f, dotu) = Then(Then(Then(Then(U32(f.fid), Pstring(f.name)), U32(f.perm)), U8(f.mode)), Pstring(f.ext))
  BY Zenon DEF PutT, Then, IfU
<1>3. SizeT(f, dotu) = 2 * BIT32SZ + BIT8SZ + Stringsz(f.name) + Stringsz(f.ext)
  BY DEF SizeT, DotU
<1>4. FieldOk(f, d1) /\ FieldOk(f, d2) /\ FieldOk(f, d3) /\ FieldOk(f, d4) /\ FieldOk(f, d5)
  <2>2. WellTyped(f, fields)
    BY <1>1
  <2> HIDE DEF d1, d2, d3, d4, d5
  <2> QED BY <1>0, <2>2, Typed5
<1>5a. FieldBytes(f, d1) = U32(f.fid) /\ FieldLen(f, d1) = BIT32SZ
  BY FieldParts
<1>5b. FieldBytes(f, d2) = Pstring(f.name) /\ FieldLen(f, d2) = Stringsz(f.name)
  BY FieldParts
<1>5c. FieldBytes(f, d3) = U32(f.perm) /\ FieldLen(f, d3) = BIT32SZ
  BY FieldParts
<1>5d. FieldBytes(f, d4) = U8(f.mode) /\ FieldLen(f, d4) = BIT8SZ
  BY FieldParts
<1>5e. FieldBytes(f, d5) = Pstring(f.ext) /\ FieldLen(f, d5) = Stringsz(f.ext)
  BY FieldParts
<1>6. /\ fields \in Seq(FieldType) /\ WellTyped(f, fields)
      /\ Encoding(f, fields) = Then(Then(Then(Then(FieldBytes(f, d1), FieldBytes(f, d2)), FieldBytes(f, d3)), FieldBytes(f, d4)), FieldBytes(f, d5))
      /\ Length(Encoding(f, fields)) = FieldLen(f, d1) + FieldLen(f, d2) + FieldLen(f, d3) + FieldLen(f, d4) + FieldLen(f, d5)
  <2> HIDE DEF d1, d2, d3, d4, d5
  <2> QED BY <1>4, Encoding5
<1> HIDE DEF fields, d1, d2, d3, d4, d5
<1>7. Encoding(f, fields) = Then(Then(Then(Then(U32(f.fid), Pstring(f.name)), U32(f.perm)), U8(f.mode)), Pstring(f.ext))
  BY <1>6, <1>5a, <1>5b, <1>5c, <1>5d, <1>5e
<1>8. Length(Encoding(f, fields)) = 2 * BIT32SZ + BIT8SZ + Stringsz(f.name) + Stringsz(f.ext)
  <2> DEFINE l1 == BIT32SZ
             l2 == Stringsz(f.name)
             l3 == BIT32SZ
             l4 == BIT8SZ
             l5 == Stringsz(f.ext)
  <2>1. l1 \in Nat /\ l2 \in Nat /\ l3 \in Nat /\ l4 \in Nat /\ l5 \in Nat
    BY <1>4, EncodingOne, <1>5a, <1>5b, <1>5c, <1>5d, <1>5e
  <2>2. BIT32SZ \in Nat
    BY DEF BIT32SZ
  <2>4. Length(Encoding(f, fields)) = l1 + l2 + l3 + l4 + l5
    BY <1>6, <1>5a, <1>5b, <1>5c, <1>5d, <1>5e
  <2>5. l1 + l2 + l3 + l4 + l5 = 2 * BIT32SZ + BIT8SZ + Stringsz(f.name) + Stringsz(f.ext)
    BY <2>1, <2>2
  <2> QED BY <2>4, <2>5
<1>9. PutT(f, dotu) = Encoding(f, fields)
  BY <1>2, <1>7
<1> QED BY <1>1, <1>3, <1>6, <1>8, <1>9 DEF Agree

LEMMA AgreeTcreate ==
    ASSUME NEW dotu \in BOOLEAN, NEW f, f.type = "Tcreate", WellTyped(f, GetT(f.type, dotu)), ~dotu
    PROVE  Agree(f, GetT(f.type, dotu), PutT(f, dotu), SizeT(f, dotu))
<1> DEFINE d1 == <<"fid", "u32">>
           d2 == <<"name", "str">>
           d3 == <<"perm", "u32">>
           d4 == <<"mode", "u8">>
           fields == Fields4(d1, d2, d3, d4)
<1>0. d1 \in FieldType /\ d2 \in FieldType /\ d3 \in FieldType /\ d4 \in FieldType
  <2>1. "fid" \in FieldNames /\ "name" \in FieldNames /\ "perm" \in FieldNames /\ "mode" \in FieldNames
    BY DEF FieldNames
  <2> QED BY Zenon, <2>1, FieldTypes
<1>1. GetT(f.type, dotu) = fields
  <2>1. GetT(f.type, dotu) = fields \o <<>>
    BY Zenon DEF GetT, IfU, Fields4
  <2> HIDE DEF d1, d2, d3, d4
  <2> QED BY <1>0, <2>1, Grown4
<1>2. PutT(f, dotu) = Then(Then(Then(Then(U32(f.fid), Pstring(f.name)), U32(f.perm)), U8(f.mode)), <<>>)
  BY Zenon DEF PutT, IfU, Then
<1>3. SizeT(f, dotu) = 2 * BIT32SZ + BIT8SZ + Stringsz(f.name) + 0
  BY DEF SizeT, DotU
<1>4. FieldOk(f, d1) /\ FieldOk(f, d2) /\ FieldOk(f, d3) /\ FieldOk(f, d4)
  <2>2. WellTyped(f, fields)
    BY <1>1
  <2> HIDE DEF d1, d2, d3, d4
  <2> QED BY <1>0, <2>2, Typed4
<1>5a. FieldBytes(f, d1) = U32(f.fid) /\ FieldLen(f, d1) = BIT32SZ
  BY FieldParts
<1>5b. FieldBytes(f, d2) = Pstring(f.name) /\ FieldLen(f, d2) = Stringsz(f.name)
  BY FieldParts
<1>5c. FieldBytes(f, d3) = U32(f.perm) /\ FieldLen(f, d3) = BIT32SZ
  BY FieldParts
<1>5d. FieldBytes(f, d4) = U8(f.mode) /\ FieldLen(f, d4) = BIT8SZ
  BY FieldParts
<1>6. /\ fields \in Seq(FieldType) /\ WellTyped(f, fields)
      /\ Encoding(f, fields) = Then(Then(Then(FieldBytes(f, d1), FieldBytes(f, d2)), FieldBytes(f, d3)), FieldBytes(f, d4))
      /\ Length(Encoding(f, fields)) = FieldLen(f, d1) + FieldLen(f, d2) + FieldLen(f, d3) + FieldLen(f, d4)
  <2> HIDE DEF d1, d2, d3, d4
  <2> QED BY <1>4, Encoding4
<1> HIDE DEF fields, d1, d2, d3, d4
<1>7. Encoding(f, fields) = Then(Then(Then(U32(f.fid), Pstring(f.name)), U32(f.perm)), U8(f.mode))
  BY <1>6, <1>5a, <1>5b, <1>5c, <1>5d
<1>8. Length(Encoding(f, fields)) = 2 * BIT32SZ + BIT8SZ + Stringsz(f.name) + 0
  <2> DEFINE l1 == BIT32SZ
             l2 == Stringsz(f.name)
             l3 == BIT32SZ
             l4 == BIT8SZ
  <2>1. l1 \in Nat /\ l2 \in Nat /\ l3 \in Nat /\ l4 \in Nat
    BY <1>4, EncodingOne, <1>5a, <1>5b, <1>5c, <1>5d
  <2>2. BIT32SZ \in Nat
    BY DEF BIT32SZ
  <2>4. Length(Encoding(f, fields)) = l1 + l2 + l3 + l4
    BY <1>6, <1>5a, <1>5b, <1>5c, <1>5d
  <2>5. l1 + l2 + l3 + l4 = 2 * BIT32SZ + BIT8SZ + Stringsz(f.name) + 0
    BY <2>1, <2>2
  <2> QED BY <2>4, <2>5
<1>9. PutT(f, dotu) = Encoding(f, fields)
  BY <1>2, <1>6, <1>7, EncodingIs, ThenEmpty
<1> QED BY <1>1, <1>3, <1>6, <1>8, <1>9 DEF Agree

LEMMA AgreeTread ==
    ASSUME NEW dotu \in BOOLEAN, NEW f, f.type = "Tread", WellTyped(f, GetT(f.type, dotu))
    PROVE  Agree(f, GetT(f.type, dotu), PutT(f, dotu), SizeT(f, dotu))
<1> DEFINE d1 == <<"fid", "u32">>
           d2 == <<"offset", "u64">>
           d3 == <<"count", "u32">>
           fields == Fields3(d1, d2, d3)
<1>0. d1 \in FieldType /\ d2 \in FieldType /\ d3 \in FieldType
  <2>1. "fid" \in FieldNames /\ "offset" \in FieldNames /\ "count" \in FieldNames
    BY DEF FieldNames
  <2> QED BY Zenon, <2>1, FieldTypes
<1>1. GetT(f.type, dotu) = fields
  BY Zenon DEF GetT, Fields3
<1>2. PutT(f, dotu) = Then(Then(U32(f.fid), f.offset), U32(f.count))
  BY Zenon DEF PutT, Then
<1>3. SizeT(f, dotu) = 2 * BIT32SZ + BIT64SZ
  BY DEF SizeT
<1>4. FieldOk(f, d1) /\ FieldOk(f, d2) /\ FieldOk(f, d3)
  <2>2. WellTyped(f, fields)
    BY <1>1
  <2> HIDE DEF d1, d2, d3
  <2> QED BY <1>0, <2>2, Typed3
<1>5a. FieldBytes(f, d1) = U32(f.fid) /\ FieldLen(f, d1) = BIT32SZ
  BY FieldParts
<1>5b. FieldBytes(f, d2) = f.offset /\ FieldLen(f, d2) = BIT64SZ
  BY FieldParts
<1>5c. FieldBytes(f, d3) = U32(f.count) /\ FieldLen(f, d3) = BIT32SZ
  BY FieldParts
<1>6. /\ fields \in Seq(FieldType) /\ WellTyped(f, fields)
      /\ Encoding(f, fields) = Then(Then(FieldBytes(f, d1), FieldBytes(f, d2)), FieldBytes(f, d3))
      /\ Length(Encoding(f, fields)) = FieldLen(f, d1) + FieldLen(f, d2) + FieldLen(f, d3)
  <2> HIDE DEF d1, d2, d3
  <2> QED BY <1>4, Encoding3
<1> HIDE DEF fields, d1, d2, d3
<1>7. Encoding(f, fields) = Then(Then(U32(f.fid), f.offset), U32(f.count))
  BY <1>6, <1>5a, <1>5b, <1>5c
<1>8. Length(Encoding(f, fields)) = 2 * BIT32SZ + BIT64SZ
  <2> DEFINE l1 == BIT32SZ
             l2 == BIT64SZ
             l3 == BIT32SZ
  <2>1. l1 \in Nat /\ l2 \in Nat /\ l3 \in Nat
    BY <1>4, EncodingOne, <1>5a, <1>5b, <1>5c
  <2>2. BIT32SZ \in Nat
    BY DEF BIT32SZ
  <2>4. Length(Encoding(f, fields)) = l1 + l2 + l3
    BY <1>6, <1>5a, <1>5b, <1>5c
  <2>5. l1 + l2 + l3 = 2 * BIT32SZ + BIT64SZ
    BY <2>1, <2>2
  <2> QED BY <2>4, <2>5
<1>9. PutT(f, dotu) = Encoding(f, fields)
  BY <1>2, <1>7
<1> QED BY <1>1, <1>3, <1>6, <1>8, <1>9 DEF Agree

LEMMA AgreeTwrite ==
    ASSUME NEW dotu \in BOOLEAN, NEW f, f.type = "Twrite", WellTyped(f, GetT(f.type, dotu))
    PROVE  Agree(f, GetT(f.type, dotu), PutT(f, dotu), SizeT(f, dotu))
<1> DEFINE d1 == <<"fid", "u32">>
           d2 == <<"offset", "u64">>
           d3 == <<"data", "data">>
           fields == Fields3(d1, d2, d3)
<1>0. d1 \in FieldType /\ d2 \in FieldType /\ d3 \in FieldType
  <2>1. "fid" \in FieldNames /\ "offset" \in FieldNames /\ "data" \in FieldNames
    BY DEF FieldNames
  <2> QED BY Zenon, <2>1, FieldTypes
<1>1. GetT(f.type, dotu) = fields
  BY Zenon DEF GetT, Fields3
<1>2. PutT(f, dotu) = Then(Then(Then(U32(f.fid), f.offset), U32(Len(f.data))), f.data)
  BY Zenon DEF PutT, Then
<1>3. SizeT(f, dotu) = 2 * BIT32SZ + BIT64SZ + Len(f.data)
  BY DEF SizeT
<1>4. FieldOk(f, d1) /\ FieldOk(f, d2) /\ FieldOk(f, d3)
  <2>2. WellTyped(f, fields)
    BY <1>1
  <2> HIDE DEF d1, d2, d3
  <2> QED BY <1>0, <2>2, Typed3
<1>5a. FieldBytes(f, d1) = U32(f.fid) /\ FieldLen(f, d1) = BIT32SZ
  BY FieldParts
<1>5b. FieldBytes(f, d2) = f.offset /\ FieldLen(f, d2) = BIT64SZ
  BY FieldParts
<1>5c. FieldBytes(f, d3) = Then(U32(Len(f.data)), f.data) /\ FieldLen(f, d3) = BIT32SZ + Len(f.data)
  BY DEF FieldBytes, FieldLen, Written, FieldSize, Then
<1>6. /\ fields \in Seq(FieldType) /\ WellTyped(f, fields)
      /\ Encoding(f, fields) = Then(Then(FieldBytes(f, d1), FieldBytes(f, d2)), FieldBytes(f, d3))
      /\ Length(Encoding(f, fields)) = FieldLen(f, d1) + FieldLen(f, d2) + FieldLen(f, d3)
  <2> HIDE DEF d1, d2, d3
  <2> QED BY <1>4, Encoding3
<1> HIDE DEF fields, d1, d2, d3
<1>7. Encoding(f, fields) = Then(Then(U32(f.fid), f.offset), Then(U32(Len(f.data)), f.data))
  BY <1>6, <1>5a, <1>5b, <1>5c
<1>8. Length(Encoding(f, fields)) = 2 * BIT32SZ + BIT64SZ + Len(f.data)
  <2> DEFINE l1 == BIT32SZ
             l2 == BIT64SZ
             l3 == BIT32SZ + Len(f.data)
  <2>1. l1 \in Nat /\ l2 \in Nat /\ l3 \in Nat
    BY <1>4, EncodingOne, <1>5a, <1>5b, <1>5c
  <2>2. BIT32SZ \in Nat
    BY DEF BIT32SZ
  <2>4. Length(Encoding(f, fields)) = l1 + l2 + l3
    BY <1>6, <1>5a, <1>5b, <1>5c
  <2>5. l1 + l2 + l3 = 2 * BIT32SZ + BIT64SZ + Len(f.data)
    <3> DEFINE x == Len(f.data)
    <3>1. x \in Int
      <4>1. f.data \in Meant("data")
        BY <1>4 DEF FieldOk, d3
      <4> QED BY <4>1, BufferIs DEF Meant, Counted
    <3>2. BIT8SZ \in Nat /\ BIT16SZ \in Nat /\ BIT32SZ \in Nat /\ BIT64SZ \in Nat
      BY DEF BIT8SZ, BIT16SZ, BIT32SZ, BIT64SZ
    <3> HIDE DEF x
    <3>3. BIT32SZ + BIT64SZ + (BIT32SZ + x) = 2 * BIT32SZ + BIT64SZ + x
      BY <3>1, <3>2
    <3> QED BY <3>3 DEF x
  <2> QED BY <2>4, <2>5
<1>9. PutT(f, dotu) = Encoding(f, fields)
  <2> DEFINE x == Then(U32(f.fid), f.offset)
             y == U32(Len(f.data))
             z == f.data
  <2>1. x \in Buffers
    <3>1. U32(f.fid) \in Buffers /\ f.offset \in Buffers
      BY <1>4, <1>5a, <1>5b, EncodingOne
    <3> QED BY <3>1, ThenBuffer
  <2>2. y \in Buffers /\ z \in Buffers
    <3>1. f.data \in Meant("data")
      BY <1>4 DEF FieldOk, d3
    <3>2. f.data \in Buffers /\ Len(f.data) \in Nat
      BY <3>1, BufferIs DEF Meant, Counted
    <3> QED BY <3>2, PBITBytes DEF U32, BIT32SZ
  <2>3. PutT(f, dotu) = Then(Then(x, y), z) /\ Encoding(f, fields) = Then(x, Then(y, z))
    BY <1>2, <1>7
  <2> HIDE DEF x, y, z
  <2> QED BY <2>1, <2>2, <2>3, ThenAssociative
<1> QED BY <1>1, <1>3, <1>6, <1>8, <1>9 DEF Agree

LEMMA AgreeTclunk ==
    ASSUME NEW dotu \in BOOLEAN, NEW f, f.type \in {"Tclunk", "Tremove", "Tstat"}, WellTyped(f, GetT(f.type, dotu))
    PROVE  Agree(f, GetT(f.type, dotu), PutT(f, dotu), SizeT(f, dotu))
<1> DEFINE d1 == <<"fid", "u32">>
           fields == Fields1(d1)
<1>0. d1 \in FieldType
  <2>1. "fid" \in FieldNames
    BY DEF FieldNames
  <2> QED BY Zenon, <2>1, FieldTypes
<1>1. GetT(f.type, dotu) = fields
  BY Zenon DEF GetT, Fields1
<1>2. PutT(f, dotu) = U32(f.fid)
  BY Zenon DEF PutT, Then
<1>3. SizeT(f, dotu) = BIT32SZ
  BY DEF SizeT
<1>4. FieldOk(f, d1)
  <2>2. WellTyped(f, fields)
    BY <1>1
  <2> HIDE DEF d1
  <2> QED BY <1>0, <2>2, Typed1
<1>5a. FieldBytes(f, d1) = U32(f.fid) /\ FieldLen(f, d1) = BIT32SZ
  BY FieldParts
<1>6. /\ fields \in Seq(FieldType) /\ WellTyped(f, fields)
      /\ Encoding(f, fields) = FieldBytes(f, d1)
      /\ Length(Encoding(f, fields)) = FieldLen(f, d1)
  <2> HIDE DEF d1
  <2> QED BY <1>4, Encoding1
<1> HIDE DEF fields, d1
<1>7. Encoding(f, fields) = U32(f.fid)
  BY <1>6, <1>5a
<1>8. Length(Encoding(f, fields)) = BIT32SZ
  BY <1>6, <1>5a
<1>9. PutT(f, dotu) = Encoding(f, fields)
  BY <1>2, <1>7
<1> QED BY <1>1, <1>3, <1>6, <1>8, <1>9 DEF Agree

LEMMA AgreeTwstat ==
    ASSUME NEW dotu \in BOOLEAN, NEW f, f.type = "Twstat", WellTyped(f, GetT(f.type, dotu))
    PROVE  Agree(f, GetT(f.type, dotu), PutT(f, dotu), SizeT(f, dotu))
<1> DEFINE d1 == <<"fid", "u32">>
           d2 == <<"stat", "stat">>
           fields == Fields2(d1, d2)
<1>0. d1 \in FieldType /\ d2 \in FieldType
  <2>1. "fid" \in FieldNames /\ "stat" \in FieldNames
    BY DEF FieldNames
  <2> QED BY Zenon, <2>1, FieldTypes
<1>1. GetT(f.type, dotu) = fields
  BY Zenon DEF GetT, Fields2
<1>2. PutT(f, dotu) = Then(Then(U32(f.fid), U16(Len(f.stat))), f.stat)
  BY Zenon DEF PutT, Then
<1>3. SizeT(f, dotu) = BIT32SZ + BIT16SZ + Len(f.stat)
  BY DEF SizeT
<1>4. FieldOk(f, d1) /\ FieldOk(f, d2)
  <2>2. WellTyped(f, fields)
    BY <1>1
  <2> HIDE DEF d1, d2
  <2> QED BY <1>0, <2>2, Typed2
<1>5a. FieldBytes(f, d1) = U32(f.fid) /\ FieldLen(f, d1) = BIT32SZ
  BY FieldParts
<1>5b. FieldBytes(f, d2) = Then(U16(Len(f.stat)), f.stat) /\ FieldLen(f, d2) = BIT16SZ + Len(f.stat)
  BY DEF FieldBytes, FieldLen, Written, FieldSize, Then
<1>6. /\ fields \in Seq(FieldType) /\ WellTyped(f, fields)
      /\ Encoding(f, fields) = Then(FieldBytes(f, d1), FieldBytes(f, d2))
      /\ Length(Encoding(f, fields)) = FieldLen(f, d1) + FieldLen(f, d2)
  <2> HIDE DEF d1, d2
  <2> QED BY <1>4, Encoding2
<1> HIDE DEF fields, d1, d2
<1>7. Encoding(f, fields) = Then(U32(f.fid), Then(U16(Len(f.stat)), f.stat))
  BY <1>6, <1>5a, <1>5b
<1>8. Length(Encoding(f, fields)) = BIT32SZ + BIT16SZ + Len(f.stat)
  <2> DEFINE l1 == BIT32SZ
             l2 == BIT16SZ + Len(f.stat)
  <2>1. l1 \in Nat /\ l2 \in Nat
    BY <1>4, EncodingOne, <1>5a, <1>5b
  <2>2. BIT32SZ \in Nat
    BY DEF BIT32SZ
  <2>4. Length(Encoding(f, fields)) = l1 + l2
    BY <1>6, <1>5a, <1>5b
  <2>5. l1 + l2 = BIT32SZ + BIT16SZ + Len(f.stat)
    <3> DEFINE x == Len(f.stat)
    <3>1. x \in Int
      <4>1. f.stat \in Meant("stat")
        BY <1>4 DEF FieldOk, d2
      <4> QED BY <4>1, BufferIs DEF Meant, Counted
    <3>2. BIT8SZ \in Nat /\ BIT16SZ \in Nat /\ BIT32SZ \in Nat /\ BIT64SZ \in Nat
      BY DEF BIT8SZ, BIT16SZ, BIT32SZ, BIT64SZ
    <3> HIDE DEF x
    <3>3. BIT32SZ + (BIT16SZ + x) = BIT32SZ + BIT16SZ + x
      BY <3>1, <3>2
    <3> QED BY <3>3 DEF x
  <2> QED BY <2>4, <2>5
<1>9. PutT(f, dotu) = Encoding(f, fields)
  <2> DEFINE x == U32(f.fid)
             y == U16(Len(f.stat))
             z == f.stat
  <2>1. x \in Buffers
    <3>1. U32(f.fid) \in Buffers
      BY <1>4, <1>5a, EncodingOne
    <3> QED BY <3>1, ThenBuffer
  <2>2. y \in Buffers /\ z \in Buffers
    <3>1. f.stat \in Meant("stat")
      BY <1>4 DEF FieldOk, d2
    <3>2. f.stat \in Buffers /\ Len(f.stat) \in Nat
      BY <3>1, BufferIs DEF Meant, Counted
    <3> QED BY <3>2, PBITBytes DEF U16, BIT16SZ
  <2>3. PutT(f, dotu) = Then(Then(x, y), z) /\ Encoding(f, fields) = Then(x, Then(y, z))
    BY <1>2, <1>7
  <2> HIDE DEF x, y, z
  <2> QED BY <2>1, <2>2, <2>3, ThenAssociative
<1> QED BY <1>1, <1>3, <1>6, <1>8, <1>9 DEF Agree

LEMMA AgreeRversion ==
    ASSUME NEW dotu \in BOOLEAN, NEW f, f.type = "Rversion", WellTyped(f, GetR(f.type, dotu))
    PROVE  Agree(f, GetR(f.type, dotu), PutR(f, dotu), SizeR(f, dotu))
<1> DEFINE d1 == <<"msize", "u32">>
           d2 == <<"version", "str">>
           fields == Fields2(d1, d2)
<1>0. d1 \in FieldType /\ d2 \in FieldType
  <2>1. "msize" \in FieldNames /\ "version" \in FieldNames
    BY DEF FieldNames
  <2> QED BY Zenon, <2>1, FieldTypes
<1>1. GetR(f.type, dotu) = fields
  BY Zenon DEF GetR, Fields2
<1>2. PutR(f, dotu) = Then(U32(f.msize), Pstring(f.version))
  BY Zenon DEF PutR, Then
<1>3. SizeR(f, dotu) = BIT32SZ + Stringsz(f.version)
  BY DEF SizeR
<1>4. FieldOk(f, d1) /\ FieldOk(f, d2)
  <2>2. WellTyped(f, fields)
    BY <1>1
  <2> HIDE DEF d1, d2
  <2> QED BY <1>0, <2>2, Typed2
<1>5a. FieldBytes(f, d1) = U32(f.msize) /\ FieldLen(f, d1) = BIT32SZ
  BY FieldParts
<1>5b. FieldBytes(f, d2) = Pstring(f.version) /\ FieldLen(f, d2) = Stringsz(f.version)
  BY FieldParts
<1>6. /\ fields \in Seq(FieldType) /\ WellTyped(f, fields)
      /\ Encoding(f, fields) = Then(FieldBytes(f, d1), FieldBytes(f, d2))
      /\ Length(Encoding(f, fields)) = FieldLen(f, d1) + FieldLen(f, d2)
  <2> HIDE DEF d1, d2
  <2> QED BY <1>4, Encoding2
<1> HIDE DEF fields, d1, d2
<1>7. Encoding(f, fields) = Then(U32(f.msize), Pstring(f.version))
  BY <1>6, <1>5a, <1>5b
<1>8. Length(Encoding(f, fields)) = BIT32SZ + Stringsz(f.version)
  <2> DEFINE l1 == BIT32SZ
             l2 == Stringsz(f.version)
  <2>1. l1 \in Nat /\ l2 \in Nat
    BY <1>4, EncodingOne, <1>5a, <1>5b
  <2>2. BIT32SZ \in Nat
    BY DEF BIT32SZ
  <2>4. Length(Encoding(f, fields)) = l1 + l2
    BY <1>6, <1>5a, <1>5b
  <2>5. l1 + l2 = BIT32SZ + Stringsz(f.version)
    BY <2>1, <2>2
  <2> QED BY <2>4, <2>5
<1>9. PutR(f, dotu) = Encoding(f, fields)
  BY <1>2, <1>7
<1> QED BY <1>1, <1>3, <1>6, <1>8, <1>9 DEF Agree

LEMMA AgreeRerrorU ==
    ASSUME NEW dotu \in BOOLEAN, NEW f, f.type = "Rerror", WellTyped(f, GetR(f.type, dotu)), dotu
    PROVE  Agree(f, GetR(f.type, dotu), PutR(f, dotu), SizeR(f, dotu))
<1> DEFINE d1 == <<"ename", "str">>
           d2 == <<"errnum", "u32">>
           fields == Fields2(d1, d2)
<1>0. d1 \in FieldType /\ d2 \in FieldType
  <2>1. "ename" \in FieldNames /\ "errnum" \in FieldNames
    BY DEF FieldNames
  <2> QED BY Zenon, <2>1, FieldTypes
<1>1. GetR(f.type, dotu) = fields
  <2>1. GetR(f.type, dotu) = Fields1(d1) \o Fields1(d2)
    BY Zenon DEF GetR, IfU, Fields1
  <2> HIDE DEF d1, d2
  <2> QED BY <1>0, <2>1, Grown2
<1>2. PutR(f, dotu) = Then(Pstring(f.ename), U32(f.errnum))
  BY Zenon DEF PutR, Then, IfU
<1>3. SizeR(f, dotu) = Stringsz(f.ename) + BIT32SZ
  BY DEF SizeR, DotU
<1>4. FieldOk(f, d1) /\ FieldOk(f, d2)
  <2>2. WellTyped(f, fields)
    BY <1>1
  <2> HIDE DEF d1, d2
  <2> QED BY <1>0, <2>2, Typed2
<1>5a. FieldBytes(f, d1) = Pstring(f.ename) /\ FieldLen(f, d1) = Stringsz(f.ename)
  BY FieldParts
<1>5b. FieldBytes(f, d2) = U32(f.errnum) /\ FieldLen(f, d2) = BIT32SZ
  BY FieldParts
<1>6. /\ fields \in Seq(FieldType) /\ WellTyped(f, fields)
      /\ Encoding(f, fields) = Then(FieldBytes(f, d1), FieldBytes(f, d2))
      /\ Length(Encoding(f, fields)) = FieldLen(f, d1) + FieldLen(f, d2)
  <2> HIDE DEF d1, d2
  <2> QED BY <1>4, Encoding2
<1> HIDE DEF fields, d1, d2
<1>7. Encoding(f, fields) = Then(Pstring(f.ename), U32(f.errnum))
  BY <1>6, <1>5a, <1>5b
<1>8. Length(Encoding(f, fields)) = Stringsz(f.ename) + BIT32SZ
  <2> DEFINE l1 == Stringsz(f.ename)
             l2 == BIT32SZ
  <2>1. l1 \in Nat /\ l2 \in Nat
    BY <1>4, EncodingOne, <1>5a, <1>5b
  <2>2. BIT32SZ \in Nat
    BY DEF BIT32SZ
  <2>4. Length(Encoding(f, fields)) = l1 + l2
    BY <1>6, <1>5a, <1>5b
  <2>5. l1 + l2 = Stringsz(f.ename) + BIT32SZ
    BY <2>1, <2>2
  <2> QED BY <2>4, <2>5
<1>9. PutR(f, dotu) = Encoding(f, fields)
  BY <1>2, <1>7
<1> QED BY <1>1, <1>3, <1>6, <1>8, <1>9 DEF Agree

LEMMA AgreeRerror ==
    ASSUME NEW dotu \in BOOLEAN, NEW f, f.type = "Rerror", WellTyped(f, GetR(f.type, dotu)), ~dotu
    PROVE  Agree(f, GetR(f.type, dotu), PutR(f, dotu), SizeR(f, dotu))
<1> DEFINE d1 == <<"ename", "str">>
           fields == Fields1(d1)
<1>0. d1 \in FieldType
  <2>1. "ename" \in FieldNames
    BY DEF FieldNames
  <2> QED BY Zenon, <2>1, FieldTypes
<1>1. GetR(f.type, dotu) = fields
  <2>1. GetR(f.type, dotu) = fields \o <<>>
    BY Zenon DEF GetR, IfU, Fields1
  <2> HIDE DEF d1
  <2> QED BY <1>0, <2>1, Grown1
<1>2. PutR(f, dotu) = Then(Pstring(f.ename), <<>>)
  BY Zenon DEF PutR, IfU, Then
<1>3. SizeR(f, dotu) = Stringsz(f.ename) + 0
  BY DEF SizeR, DotU
<1>4. FieldOk(f, d1)
  <2>2. WellTyped(f, fields)
    BY <1>1
  <2> HIDE DEF d1
  <2> QED BY <1>0, <2>2, Typed1
<1>5a. FieldBytes(f, d1) = Pstring(f.ename) /\ FieldLen(f, d1) = Stringsz(f.ename)
  BY FieldParts
<1>6. /\ fields \in Seq(FieldType) /\ WellTyped(f, fields)
      /\ Encoding(f, fields) = FieldBytes(f, d1)
      /\ Length(Encoding(f, fields)) = FieldLen(f, d1)
  <2> HIDE DEF d1
  <2> QED BY <1>4, Encoding1
<1> HIDE DEF fields, d1
<1>7. Encoding(f, fields) = Pstring(f.ename)
  BY <1>6, <1>5a
<1>8. Length(Encoding(f, fields)) = Stringsz(f.ename) + 0
  <2>1. FieldLen(f, d1) \in Nat
    BY <1>4, EncodingOne
  <2>2. Length(Encoding(f, fields)) = FieldLen(f, d1) + 0
    BY <2>1, <1>6
  <2> QED BY <2>2, <1>5a
<1>9. PutR(f, dotu) = Encoding(f, fields)
  BY <1>2, <1>6, <1>7, EncodingIs, ThenEmpty
<1> QED BY <1>1, <1>3, <1>6, <1>8, <1>9 DEF Agree

LEMMA AgreeRauth ==
    ASSUME NEW dotu \in BOOLEAN, NEW f, f.type \in {"Rauth", "Rattach"}, WellTyped(f, GetR(f.type, dotu))
    PROVE  Agree(f, GetR(f.type, dotu), PutR(f, dotu), SizeR(f, dotu))
<1> DEFINE d1 == <<"qid", "qid">>
           fields == Fields1(d1)
<1>0. d1 \in FieldType
  <2>1. "qid" \in FieldNames
    BY DEF FieldNames
  <2> QED BY Zenon, <2>1, FieldTypes
<1>1. GetR(f.type, dotu) = fields
  BY Zenon DEF GetR, Fields1
<1>2. PutR(f, dotu) = Pqid(f.qid)
  BY Zenon DEF PutR, Then
<1>3. SizeR(f, dotu) = QIDSZ
  BY DEF SizeR
<1>4. FieldOk(f, d1)
  <2>2. WellTyped(f, fields)
    BY <1>1
  <2> HIDE DEF d1
  <2> QED BY <1>0, <2>2, Typed1
<1>5a. FieldBytes(f, d1) = Pqid(f.qid) /\ FieldLen(f, d1) = QIDSZ
  BY FieldParts
<1>6. /\ fields \in Seq(FieldType) /\ WellTyped(f, fields)
      /\ Encoding(f, fields) = FieldBytes(f, d1)
      /\ Length(Encoding(f, fields)) = FieldLen(f, d1)
  <2> HIDE DEF d1
  <2> QED BY <1>4, Encoding1
<1> HIDE DEF fields, d1
<1>7. Encoding(f, fields) = Pqid(f.qid)
  BY <1>6, <1>5a
<1>8. Length(Encoding(f, fields)) = QIDSZ
  BY <1>6, <1>5a
<1>9. PutR(f, dotu) = Encoding(f, fields)
  BY <1>2, <1>7
<1> QED BY <1>1, <1>3, <1>6, <1>8, <1>9 DEF Agree

LEMMA AgreeRwalk ==
    ASSUME NEW dotu \in BOOLEAN, NEW f, f.type = "Rwalk", WellTyped(f, GetR(f.type, dotu))
    PROVE  Agree(f, GetR(f.type, dotu), PutR(f, dotu), SizeR(f, dotu))
<1> DEFINE d1 == <<"wqid", "qids">>
           fields == Fields1(d1)
<1>0. d1 \in FieldType
  <2>1. "wqid" \in FieldNames
    BY DEF FieldNames
  <2> QED BY Zenon, <2>1, FieldTypes
<1>1. GetR(f.type, dotu) = fields
  BY Zenon DEF GetR, Fields1
<1>2. PutR(f, dotu) = Then(U16(Len(f.wqid)), Each(Pqid, f.wqid))
  BY Zenon DEF PutR, Then
<1>3. SizeR(f, dotu) = BIT16SZ + Len(f.wqid) * QIDSZ
  BY DEF SizeR
<1>4. FieldOk(f, d1)
  <2>2. WellTyped(f, fields)
    BY <1>1
  <2> HIDE DEF d1
  <2> QED BY <1>0, <2>2, Typed1
<1>5a. FieldBytes(f, d1) = Then(U16(Len(f.wqid)), Each(Pqid, f.wqid)) /\ FieldLen(f, d1) = BIT16SZ + Len(f.wqid) * QIDSZ
  BY DEF FieldBytes, FieldLen, Written, FieldSize, Then
<1>6. /\ fields \in Seq(FieldType) /\ WellTyped(f, fields)
      /\ Encoding(f, fields) = FieldBytes(f, d1)
      /\ Length(Encoding(f, fields)) = FieldLen(f, d1)
  <2> HIDE DEF d1
  <2> QED BY <1>4, Encoding1
<1> HIDE DEF fields, d1
<1>7. Encoding(f, fields) = Then(U16(Len(f.wqid)), Each(Pqid, f.wqid))
  BY <1>6, <1>5a
<1>8. Length(Encoding(f, fields)) = BIT16SZ + Len(f.wqid) * QIDSZ
  BY <1>6, <1>5a
<1>9. PutR(f, dotu) = Encoding(f, fields)
  BY <1>2, <1>7
<1> QED BY <1>1, <1>3, <1>6, <1>8, <1>9 DEF Agree

LEMMA AgreeRopen ==
    ASSUME NEW dotu \in BOOLEAN, NEW f, f.type \in {"Ropen", "Rcreate"}, WellTyped(f, GetR(f.type, dotu))
    PROVE  Agree(f, GetR(f.type, dotu), PutR(f, dotu), SizeR(f, dotu))
<1> DEFINE d1 == <<"qid", "qid">>
           d2 == <<"iounit", "u32">>
           fields == Fields2(d1, d2)
<1>0. d1 \in FieldType /\ d2 \in FieldType
  <2>1. "qid" \in FieldNames /\ "iounit" \in FieldNames
    BY DEF FieldNames
  <2> QED BY Zenon, <2>1, FieldTypes
<1>1. GetR(f.type, dotu) = fields
  BY Zenon DEF GetR, Fields2
<1>2. PutR(f, dotu) = Then(Pqid(f.qid), U32(f.iounit))
  BY Zenon DEF PutR, Then
<1>3. SizeR(f, dotu) = QIDSZ + BIT32SZ
  BY DEF SizeR
<1>4. FieldOk(f, d1) /\ FieldOk(f, d2)
  <2>2. WellTyped(f, fields)
    BY <1>1
  <2> HIDE DEF d1, d2
  <2> QED BY <1>0, <2>2, Typed2
<1>5a. FieldBytes(f, d1) = Pqid(f.qid) /\ FieldLen(f, d1) = QIDSZ
  BY FieldParts
<1>5b. FieldBytes(f, d2) = U32(f.iounit) /\ FieldLen(f, d2) = BIT32SZ
  BY FieldParts
<1>6. /\ fields \in Seq(FieldType) /\ WellTyped(f, fields)
      /\ Encoding(f, fields) = Then(FieldBytes(f, d1), FieldBytes(f, d2))
      /\ Length(Encoding(f, fields)) = FieldLen(f, d1) + FieldLen(f, d2)
  <2> HIDE DEF d1, d2
  <2> QED BY <1>4, Encoding2
<1> HIDE DEF fields, d1, d2
<1>7. Encoding(f, fields) = Then(Pqid(f.qid), U32(f.iounit))
  BY <1>6, <1>5a, <1>5b
<1>8. Length(Encoding(f, fields)) = QIDSZ + BIT32SZ
  <2> DEFINE l1 == QIDSZ
             l2 == BIT32SZ
  <2>1. l1 \in Nat /\ l2 \in Nat
    BY <1>4, EncodingOne, <1>5a, <1>5b
  <2>2. BIT32SZ \in Nat
    BY DEF BIT32SZ
  <2>4. Length(Encoding(f, fields)) = l1 + l2
    BY <1>6, <1>5a, <1>5b
  <2>5. l1 + l2 = QIDSZ + BIT32SZ
    BY <2>1, <2>2
  <2> QED BY <2>4, <2>5
<1>9. PutR(f, dotu) = Encoding(f, fields)
  BY <1>2, <1>7
<1> QED BY <1>1, <1>3, <1>6, <1>8, <1>9 DEF Agree

LEMMA AgreeRread ==
    ASSUME NEW dotu \in BOOLEAN, NEW f, f.type = "Rread", WellTyped(f, GetR(f.type, dotu))
    PROVE  Agree(f, GetR(f.type, dotu), PutR(f, dotu), SizeR(f, dotu))
<1> DEFINE d1 == <<"data", "data">>
           fields == Fields1(d1)
<1>0. d1 \in FieldType
  <2>1. "data" \in FieldNames
    BY DEF FieldNames
  <2> QED BY Zenon, <2>1, FieldTypes
<1>1. GetR(f.type, dotu) = fields
  BY Zenon DEF GetR, Fields1
<1>2. PutR(f, dotu) = Then(U32(Len(f.data)), f.data)
  BY Zenon DEF PutR, Then
<1>3. SizeR(f, dotu) = BIT32SZ + Len(f.data)
  BY DEF SizeR
<1>4. FieldOk(f, d1)
  <2>2. WellTyped(f, fields)
    BY <1>1
  <2> HIDE DEF d1
  <2> QED BY <1>0, <2>2, Typed1
<1>5a. FieldBytes(f, d1) = Then(U32(Len(f.data)), f.data) /\ FieldLen(f, d1) = BIT32SZ + Len(f.data)
  BY DEF FieldBytes, FieldLen, Written, FieldSize, Then
<1>6. /\ fields \in Seq(FieldType) /\ WellTyped(f, fields)
      /\ Encoding(f, fields) = FieldBytes(f, d1)
      /\ Length(Encoding(f, fields)) = FieldLen(f, d1)
  <2> HIDE DEF d1
  <2> QED BY <1>4, Encoding1
<1> HIDE DEF fields, d1
<1>7. Encoding(f, fields) = Then(U32(Len(f.data)), f.data)
  BY <1>6, <1>5a
<1>8. Length(Encoding(f, fields)) = BIT32SZ + Len(f.data)
  BY <1>6, <1>5a
<1>9. PutR(f, dotu) = Encoding(f, fields)
  BY <1>2, <1>7
<1> QED BY <1>1, <1>3, <1>6, <1>8, <1>9 DEF Agree

LEMMA AgreeRwrite ==
    ASSUME NEW dotu \in BOOLEAN, NEW f, f.type = "Rwrite", WellTyped(f, GetR(f.type, dotu))
    PROVE  Agree(f, GetR(f.type, dotu), PutR(f, dotu), SizeR(f, dotu))
<1> DEFINE d1 == <<"count", "u32">>
           fields == Fields1(d1)
<1>0. d1 \in FieldType
  <2>1. "count" \in FieldNames
    BY DEF FieldNames
  <2> QED BY Zenon, <2>1, FieldTypes
<1>1. GetR(f.type, dotu) = fields
  BY Zenon DEF GetR, Fields1
<1>2. PutR(f, dotu) = U32(f.count)
  BY Zenon DEF PutR, Then
<1>3. SizeR(f, dotu) = BIT32SZ
  BY DEF SizeR
<1>4. FieldOk(f, d1)
  <2>2. WellTyped(f, fields)
    BY <1>1
  <2> HIDE DEF d1
  <2> QED BY <1>0, <2>2, Typed1
<1>5a. FieldBytes(f, d1) = U32(f.count) /\ FieldLen(f, d1) = BIT32SZ
  BY FieldParts
<1>6. /\ fields \in Seq(FieldType) /\ WellTyped(f, fields)
      /\ Encoding(f, fields) = FieldBytes(f, d1)
      /\ Length(Encoding(f, fields)) = FieldLen(f, d1)
  <2> HIDE DEF d1
  <2> QED BY <1>4, Encoding1
<1> HIDE DEF fields, d1
<1>7. Encoding(f, fields) = U32(f.count)
  BY <1>6, <1>5a
<1>8. Length(Encoding(f, fields)) = BIT32SZ
  BY <1>6, <1>5a
<1>9. PutR(f, dotu) = Encoding(f, fields)
  BY <1>2, <1>7
<1> QED BY <1>1, <1>3, <1>6, <1>8, <1>9 DEF Agree

LEMMA AgreeRstat ==
    ASSUME NEW dotu \in BOOLEAN, NEW f, f.type = "Rstat", WellTyped(f, GetR(f.type, dotu))
    PROVE  Agree(f, GetR(f.type, dotu), PutR(f, dotu), SizeR(f, dotu))
<1> DEFINE d1 == <<"stat", "stat">>
           fields == Fields1(d1)
<1>0. d1 \in FieldType
  <2>1. "stat" \in FieldNames
    BY DEF FieldNames
  <2> QED BY Zenon, <2>1, FieldTypes
<1>1. GetR(f.type, dotu) = fields
  BY Zenon DEF GetR, Fields1
<1>2. PutR(f, dotu) = Then(U16(Len(f.stat)), f.stat)
  BY Zenon DEF PutR, Then
<1>3. SizeR(f, dotu) = BIT16SZ + Len(f.stat)
  BY DEF SizeR
<1>4. FieldOk(f, d1)
  <2>2. WellTyped(f, fields)
    BY <1>1
  <2> HIDE DEF d1
  <2> QED BY <1>0, <2>2, Typed1
<1>5a. FieldBytes(f, d1) = Then(U16(Len(f.stat)), f.stat) /\ FieldLen(f, d1) = BIT16SZ + Len(f.stat)
  BY DEF FieldBytes, FieldLen, Written, FieldSize, Then
<1>6. /\ fields \in Seq(FieldType) /\ WellTyped(f, fields)
      /\ Encoding(f, fields) = FieldBytes(f, d1)
      /\ Length(Encoding(f, fields)) = FieldLen(f, d1)
  <2> HIDE DEF d1
  <2> QED BY <1>4, Encoding1
<1> HIDE DEF fields, d1
<1>7. Encoding(f, fields) = Then(U16(Len(f.stat)), f.stat)
  BY <1>6, <1>5a
<1>8. Length(Encoding(f, fields)) = BIT16SZ + Len(f.stat)
  BY <1>6, <1>5a
<1>9. PutR(f, dotu) = Encoding(f, fields)
  BY <1>2, <1>7
<1> QED BY <1>1, <1>3, <1>6, <1>8, <1>9 DEF Agree

LEMMA AgreeRflush ==
    ASSUME NEW dotu \in BOOLEAN, NEW f, f.type \in {"Rflush", "Rclunk", "Rremove", "Rwstat"}, WellTyped(f, GetR(f.type, dotu))
    PROVE  Agree(f, GetR(f.type, dotu), PutR(f, dotu), SizeR(f, dotu))
<1>1. GetR(f.type, dotu) = <<>> /\ PutR(f, dotu) = <<>> /\ SizeR(f, dotu) = 0
  BY DEF GetR, PutR, SizeR
<1> QED BY <1>1, EncodingNone, EmptyBuffer DEF Agree, Length

-----------------------------------------------------------------------------
(* The numbers of the types: those of the requests are even.               *)

LEMMA SelectOne ==
    ASSUME NEW s, Len(s) \in Nat, NEW i \in 1 .. Len(s), \A j \in 1 .. Len(s) : s[j] = s[i] => j = i
    PROVE  SelectInSeq(s, LAMBDA u : u = s[i]) = i
<1> DEFINE I == {j \in 1 .. Len(s) : s[j] = s[i]}
<1>1. I = {i}
  OBVIOUS
<1>2. I # {} /\ Min(I) = i
  BY <1>1 DEF Min
<1> QED BY <1>2 DEF SelectInSeq

LEMMA TypesAre ==
    /\ Len(MsgTypes) = 28 /\ DOMAIN MsgTypes = 1 .. 28
    /\ MsgTypes[1] = "Tversion"
    /\ MsgTypes[2] = "Rversion"
    /\ MsgTypes[3] = "Tauth"
    /\ MsgTypes[4] = "Rauth"
    /\ MsgTypes[5] = "Tattach"
    /\ MsgTypes[6] = "Rattach"
    /\ MsgTypes[7] = "Terror"
    /\ MsgTypes[8] = "Rerror"
    /\ MsgTypes[9] = "Tflush"
    /\ MsgTypes[10] = "Rflush"
    /\ MsgTypes[11] = "Twalk"
    /\ MsgTypes[12] = "Rwalk"
    /\ MsgTypes[13] = "Topen"
    /\ MsgTypes[14] = "Ropen"
    /\ MsgTypes[15] = "Tcreate"
    /\ MsgTypes[16] = "Rcreate"
    /\ MsgTypes[17] = "Tread"
    /\ MsgTypes[18] = "Rread"
    /\ MsgTypes[19] = "Twrite"
    /\ MsgTypes[20] = "Rwrite"
    /\ MsgTypes[21] = "Tclunk"
    /\ MsgTypes[22] = "Rclunk"
    /\ MsgTypes[23] = "Tremove"
    /\ MsgTypes[24] = "Rremove"
    /\ MsgTypes[25] = "Tstat"
    /\ MsgTypes[26] = "Rstat"
    /\ MsgTypes[27] = "Twstat"
    /\ MsgTypes[28] = "Rwstat"
BY DEF MsgTypes

LEMMA TypesDiffer == \A i, j \in 1 .. 28 : MsgTypes[i] = MsgTypes[j] => i = j
<1> SUFFICES ASSUME NEW i \in 1 .. 28, NEW j \in 1 .. 28, MsgTypes[i] = MsgTypes[j] PROVE i = j
  OBVIOUS
<1> QED BY TypesAre

LEMMA NumbersOfTypes == \A i \in 1 .. 28 : Number(MsgTypes[i]) = 99 + i
<1> SUFFICES ASSUME NEW i \in 1 .. 28 PROVE Number(MsgTypes[i]) = 99 + i
  OBVIOUS
<1>1. Len(MsgTypes) = 28
  BY TypesAre
<1>2. SelectInSeq(MsgTypes, LAMBDA u : u = MsgTypes[i]) = i
  <2> DEFINE s == MsgTypes
  <2>1. Len(s) \in Nat /\ i \in 1 .. Len(s) /\ \A j \in 1 .. Len(s) : s[j] = s[i] => j = i
    BY <1>1, TypesDiffer
  <2> HIDE DEF s
  <2>2. SelectInSeq(s, LAMBDA u : u = s[i]) = i
    BY <2>1, SelectOne
  <2> QED BY <2>2 DEF s
<1> QED BY <1>2 DEF Number

LEMMA Parity == \A i \in 1 .. 28 : IsT(MsgTypes[i]) <=> (99 + i) % 2 = 0
BY NumbersOfTypes DEF IsT

LEMMA RequestsAre ==
    /\ IsT("Tversion") /\ IsT("Tauth") /\ IsT("Tattach") /\ IsT("Tflush") /\ IsT("Twalk")
    /\ IsT("Topen") /\ IsT("Tcreate") /\ IsT("Tread") /\ IsT("Twrite") /\ IsT("Tclunk")
    /\ IsT("Tremove") /\ IsT("Tstat") /\ IsT("Twstat")
BY Parity, TypesAre

LEMMA ResponsesAre ==
    /\ ~ IsT("Rversion") /\ ~ IsT("Rauth") /\ ~ IsT("Rattach") /\ ~ IsT("Rerror") /\ ~ IsT("Rflush")
    /\ ~ IsT("Rwalk") /\ ~ IsT("Ropen") /\ ~ IsT("Rcreate") /\ ~ IsT("Rread") /\ ~ IsT("Rwrite")
    /\ ~ IsT("Rclunk") /\ ~ IsT("Rremove") /\ ~ IsT("Rstat") /\ ~ IsT("Rwstat")
BY Parity, TypesAre

(* The messages the code writes, and their fields.                         *)
Ts == {"Tversion", "Tauth", "Tattach", "Tflush", "Twalk", "Topen", "Tcreate",
       "Tread", "Twrite", "Tclunk", "Tremove", "Tstat", "Twstat"}
Rs == {"Rversion", "Rauth", "Rattach", "Rerror", "Rflush", "Rwalk", "Ropen",
       "Rcreate", "Rread", "Rwrite", "Rclunk", "Rremove", "Rstat", "Rwstat"}
MsgFields(t, dotu) == IF IsT(t) THEN GetT(t, dotu) ELSE GetR(t, dotu)
MsgBody(f, dotu) == IF IsT(f.type) THEN PutT(f, dotu) ELSE PutR(f, dotu)
MsgSize(f, dotu) == IF IsT(f.type) THEN SizeT(f, dotu) ELSE SizeR(f, dotu)

LEMMA TypesMember == \A t \in Ts \cup Rs : t # "Terror" /\ \E i \in 1 .. 28 : MsgTypes[i] = t
<1> SUFFICES ASSUME NEW t \in Ts \cup Rs PROVE t # "Terror" /\ \E i \in 1 .. 28 : MsgTypes[i] = t
  OBVIOUS
<1>1. t # "Terror"
  BY DEF Ts, Rs
<1>2. \E i \in 1 .. 28 : MsgTypes[i] = t
  BY TypesAre DEF Ts, Rs
<1> QED BY <1>1, <1>2

LEMMA AgreeT ==
    ASSUME NEW dotu \in BOOLEAN, NEW f, f.type \in Ts, WellTyped(f, GetT(f.type, dotu))
    PROVE  IsT(f.type) /\ Agree(f, GetT(f.type, dotu), PutT(f, dotu), SizeT(f, dotu))
<1>1. IsT(f.type)
  BY RequestsAre DEF Ts
<1>Tversion. CASE f.type = "Tversion"
  BY <1>1, <1>Tversion, AgreeTversion
<1>Tauth. CASE f.type = "Tauth"
  <2>1. CASE dotu
    BY <1>1, <1>Tauth, <2>1, AgreeTauthU
  <2>2. CASE ~ dotu
    BY <1>1, <1>Tauth, <2>2, AgreeTauth
  <2> QED BY <2>1, <2>2
<1>Tattach. CASE f.type = "Tattach"
  <2>1. CASE dotu
    BY <1>1, <1>Tattach, <2>1, AgreeTattachU
  <2>2. CASE ~ dotu
    BY <1>1, <1>Tattach, <2>2, AgreeTattach
  <2> QED BY <2>1, <2>2
<1>Tflush. CASE f.type = "Tflush"
  BY <1>1, <1>Tflush, AgreeTflush
<1>Twalk. CASE f.type = "Twalk"
  BY <1>1, <1>Twalk, AgreeTwalk
<1>Topen. CASE f.type = "Topen"
  BY <1>1, <1>Topen, AgreeTopen
<1>Tcreate. CASE f.type = "Tcreate"
  <2>1. CASE dotu
    BY <1>1, <1>Tcreate, <2>1, AgreeTcreateU
  <2>2. CASE ~ dotu
    BY <1>1, <1>Tcreate, <2>2, AgreeTcreate
  <2> QED BY <2>1, <2>2
<1>Tread. CASE f.type = "Tread"
  BY <1>1, <1>Tread, AgreeTread
<1>Twrite. CASE f.type = "Twrite"
  BY <1>1, <1>Twrite, AgreeTwrite
<1>Tclunk. CASE f.type \in {"Tclunk", "Tremove", "Tstat"}
  BY <1>1, <1>Tclunk, AgreeTclunk
<1>Twstat. CASE f.type = "Twstat"
  BY <1>1, <1>Twstat, AgreeTwstat
<1> QED BY <1>1, <1>Tversion, <1>Tauth, <1>Tattach, <1>Tflush, <1>Twalk, <1>Topen, <1>Tcreate, <1>Tread, <1>Twrite, <1>Tclunk, <1>Twstat DEF Ts

LEMMA AgreeR ==
    ASSUME NEW dotu \in BOOLEAN, NEW f, f.type \in Rs, WellTyped(f, GetR(f.type, dotu))
    PROVE  ~ IsT(f.type) /\ Agree(f, GetR(f.type, dotu), PutR(f, dotu), SizeR(f, dotu))
<1>1. ~ IsT(f.type)
  BY ResponsesAre DEF Rs
<1>Rversion. CASE f.type = "Rversion"
  BY <1>1, <1>Rversion, AgreeRversion
<1>Rauth. CASE f.type \in {"Rauth", "Rattach"}
  BY <1>1, <1>Rauth, AgreeRauth
<1>Rerror. CASE f.type = "Rerror"
  <2>1. CASE dotu
    BY <1>1, <1>Rerror, <2>1, AgreeRerrorU
  <2>2. CASE ~ dotu
    BY <1>1, <1>Rerror, <2>2, AgreeRerror
  <2> QED BY <2>1, <2>2
<1>Rflush. CASE f.type \in {"Rflush", "Rclunk", "Rremove", "Rwstat"}
  BY <1>1, <1>Rflush, AgreeRflush
<1>Rwalk. CASE f.type = "Rwalk"
  BY <1>1, <1>Rwalk, AgreeRwalk
<1>Ropen. CASE f.type \in {"Ropen", "Rcreate"}
  BY <1>1, <1>Ropen, AgreeRopen
<1>Rread. CASE f.type = "Rread"
  BY <1>1, <1>Rread, AgreeRread
<1>Rwrite. CASE f.type = "Rwrite"
  BY <1>1, <1>Rwrite, AgreeRwrite
<1>Rstat. CASE f.type = "Rstat"
  BY <1>1, <1>Rstat, AgreeRstat
<1> QED BY <1>1, <1>Rversion, <1>Rauth, <1>Rerror, <1>Rflush, <1>Rwalk, <1>Ropen, <1>Rread, <1>Rwrite, <1>Rstat DEF Rs

LEMMA AgreeAll ==
    ASSUME NEW dotu \in BOOLEAN, NEW f, f.type \in Ts \cup Rs, WellTyped(f, MsgFields(f.type, dotu))
    PROVE  Agree(f, MsgFields(f.type, dotu), MsgBody(f, dotu), MsgSize(f, dotu))
<1>1. CASE f.type \in Ts
  <2>1. IsT(f.type)
    BY <1>1, RequestsAre DEF Ts
  <2>2. MsgFields(f.type, dotu) = GetT(f.type, dotu) /\ MsgBody(f, dotu) = PutT(f, dotu) /\ MsgSize(f, dotu) = SizeT(f, dotu)
    BY <2>1 DEF MsgFields, MsgBody, MsgSize
  <2> QED BY <1>1, <2>2, AgreeT
<1>2. CASE f.type \in Rs
  <2>1. ~ IsT(f.type)
    BY <1>2, ResponsesAre DEF Rs
  <2>2. MsgFields(f.type, dotu) = GetR(f.type, dotu) /\ MsgBody(f, dotu) = PutR(f, dotu) /\ MsgSize(f, dotu) = SizeR(f, dotu)
    BY <2>1 DEF MsgFields, MsgBody, MsgSize
  <2> QED BY <1>2, <2>2, AgreeR
<1> QED BY <1>1, <1>2

-----------------------------------------------------------------------------
(* A whole message.                                                        *)

(* What the code is given to write.                                        *)
MsgOk(f, dotu) ==
    /\ f.type \in Ts \cup Rs /\ f.tag \in Numbers(BIT16SZ)
    /\ WellTyped(f, MsgFields(f.type, dotu))

MsgHeader(f, size) == Then(Then(U32(size), U8(Number(f.type))), U16(f.tag))
MsgBytes(f, dotu) == Then(MsgHeader(f, SizeS2M(f, dotu)), MsgBody(f, dotu))

LEMMA BitsAre == BIT8SZ = 1 /\ BIT16SZ = 2 /\ BIT32SZ = 4 /\ BIT64SZ = 8 /\ HDRSZ = 7
BY DEF BIT8SZ, BIT16SZ, BIT32SZ, BIT64SZ, HDRSZ

LEMMA NumberOk ==
    \A t \in Ts \cup Rs : Number(t) \in Numbers(BIT8SZ) /\ Number(t) \in Nat /\ Number(t) - 99 \in DOMAIN MsgTypes
                          /\ MsgTypes[Number(t) - 99] = t /\ t # "Terror"
<1> SUFFICES ASSUME NEW t \in Ts \cup Rs
             PROVE  Number(t) \in Numbers(BIT8SZ) /\ Number(t) \in Nat /\ Number(t) - 99 \in DOMAIN MsgTypes
                    /\ MsgTypes[Number(t) - 99] = t /\ t # "Terror"
  OBVIOUS
<1>1. PICK i \in 1 .. 28 : MsgTypes[i] = t
  BY TypesMember
<1>2. Number(t) = 99 + i
  BY <1>1, NumbersOfTypes
<1>3. Number(t) \in 0 .. Byte - 1
  BY <1>2, CodecAssumption
<1>4. Number(t) \in Numbers(BIT8SZ)
  BY <1>3, ByteIs
<1>5. Number(t) \in Nat /\ Number(t) - 99 = i
  BY <1>2
<1>6. DOMAIN MsgTypes = 1 .. 28
  BY TypesAre
<1>7. t # "Terror"
  BY TypesMember
<1> QED BY <1>1, <1>4, <1>5, <1>6, <1>7

LEMMA MsgParts ==
    ASSUME NEW dotu \in BOOLEAN, NEW f, MsgOk(f, dotu)
    PROVE  /\ MsgBody(f, dotu) = Encoding(f, MsgFields(f.type, dotu))
           /\ MsgBody(f, dotu) \in Buffers /\ MsgFields(f.type, dotu) \in Seq(FieldType)
           /\ SizeS2M(f, dotu) = HDRSZ + Length(MsgBody(f, dotu))
           /\ SizeS2M(f, dotu) \in Nat
<1> DEFINE fields == MsgFields(f.type, dotu)
           b == MsgBody(f, dotu)
<1>1. Agree(f, fields, b, MsgSize(f, dotu))
  BY AgreeAll DEF MsgOk
<1>2. b = Encoding(f, fields) /\ fields \in Seq(FieldType) /\ WellTyped(f, fields) /\ Length(b) = MsgSize(f, dotu)
  BY <1>1 DEF Agree
<1>3. b \in Buffers
  <2> HIDE DEF fields, b
  <2> QED BY <1>2, EncodingIs
<1>4. SizeS2M(f, dotu) = HDRSZ + MsgSize(f, dotu)
  BY DEF SizeS2M, MsgSize
<1>5. Length(b) \in Nat
  <2> HIDE DEF b
  <2> QED BY <1>3, BufferIs DEF Length
<1> HIDE DEF b, fields
<1>6. HDRSZ + Length(b) \in Nat
  BY <1>5, BitsAre
<1> QED BY <1>2, <1>3, <1>4, <1>6 DEF b, fields

LEMMA HeaderParts ==
    ASSUME NEW f, NEW size \in Nat, f.type \in Ts \cup Rs, f.tag \in Numbers(BIT16SZ)
    PROVE  /\ U32(size) \in Buffers /\ Length(U32(size)) = BIT32SZ
           /\ U8(Number(f.type)) \in Buffers /\ Length(U8(Number(f.type))) = BIT8SZ
           /\ U16(f.tag) \in Buffers /\ Length(U16(f.tag)) = BIT16SZ
           /\ MsgHeader(f, size) \in Buffers /\ Length(MsgHeader(f, size)) = HDRSZ
<1> DEFINE a == U32(size)
           b == U8(Number(f.type))
           c == U16(f.tag)
           d == Then(a, b)
           e == Then(d, c)
<1>0. BIT8SZ \in Nat /\ BIT16SZ \in Nat /\ BIT32SZ \in Nat /\ f.tag \in Nat /\ Number(f.type) \in Nat
  BY BitsAre, NumberOk, NumbersAre
<1>1. /\ a \in Buffers /\ Length(a) = BIT32SZ
      /\ b \in Buffers /\ Length(b) = BIT8SZ
      /\ c \in Buffers /\ Length(c) = BIT16SZ
  BY <1>0, PBITBytes DEF U32, U8, U16, Length
<1>2. d \in Buffers /\ Length(d) = BIT32SZ + BIT8SZ
  <2> HIDE DEF a, b
  <2> QED BY <1>1, ConcatLen DEF Then, Length
<1>3. e \in Buffers /\ Length(e) = (BIT32SZ + BIT8SZ) + BIT16SZ
  <2> HIDE DEF a, b, c, d
  <2> QED BY <1>1, <1>2, ConcatLen DEF Then, Length
<1>4. (BIT32SZ + BIT8SZ) + BIT16SZ = HDRSZ
  BY BitsAre
<1>5. e = MsgHeader(f, size)
  BY DEF MsgHeader
<1> HIDE DEF a, b, c, d, e
<1> QED BY <1>1, <1>3, <1>4, <1>5 DEF a, b, c

(* The code writes as many bytes as it counted, or nothing.                *)
LEMMA WrittenIs ==
    ASSUME NEW dotu \in BOOLEAN, NEW f, MsgOk(f, dotu), NEW nap
    PROVE  /\ MsgBytes(f, dotu) \in Buffers
           /\ Length(MsgBytes(f, dotu)) = SizeS2M(f, dotu)
           /\ ConvS2M(f, nap, dotu) =
                  IF SizeS2M(f, dotu) > nap \/ TooMany(f) THEN <<>> ELSE MsgBytes(f, dotu)
<1> DEFINE size == SizeS2M(f, dotu)
           h == MsgHeader(f, size)
           body == MsgBody(f, dotu)
           b == MsgBytes(f, dotu)
<1>1. size \in Nat /\ size = HDRSZ + Length(body) /\ body \in Buffers
  BY MsgParts
<1>2. h \in Buffers /\ Length(h) = HDRSZ
  <2> HIDE DEF size
  <2> QED BY <1>1, HeaderParts DEF MsgOk
<1>3. b = Then(h, body)
  BY DEF MsgBytes
<1>4. b \in Buffers /\ Length(b) = size
  <2> HIDE DEF h, body, b, size
  <2> QED BY <1>1, <1>2, <1>3, ConcatLen DEF Then, Length
<1>5. b = U32(size) \o U8(Number(f.type)) \o U16(f.tag) \o (IF IsT(f.type) THEN PutT(f, dotu) ELSE PutR(f, dotu))
  BY Zenon DEF MsgBytes, MsgHeader, MsgBody, Then
<1>6. ConvS2M(f, nap, dotu) = IF size > nap \/ TooMany(f) \/ size # Len(b) THEN <<>> ELSE b
  <2> DEFINE w == U32(size) \o U8(Number(f.type)) \o U16(f.tag) \o (IF IsT(f.type) THEN PutT(f, dotu) ELSE PutR(f, dotu))
  <2>1. ConvS2M(f, nap, dotu) = IF size > nap \/ TooMany(f) \/ size # Len(w) THEN <<>> ELSE w
    BY Zenon DEF ConvS2M
  <2> QED BY Zenon, <1>5, <2>1
<1> HIDE DEF b, size
<1>7. Len(b) = size
  BY <1>4 DEF Length
<1>8. ConvS2M(f, nap, dotu) = IF size > nap \/ TooMany(f) THEN <<>> ELSE b
  BY Zenon, <1>6, <1>7
<1> QED BY <1>4, <1>8 DEF b, size

(* The header is read as it was written.                                   *)
LEMMA HeaderRead ==
    ASSUME NEW f, NEW size \in Numbers(BIT32SZ), f.type \in Ts \cup Rs, f.tag \in Numbers(BIT16SZ),
           NEW body \in Buffers, NEW m \in Buffers, m = Then(MsgHeader(f, size), body)
    PROVE  /\ GBIT(Bytes(m, 0, BIT32SZ)) = size
           /\ GBIT(Bytes(m, BIT32SZ, BIT8SZ)) = Number(f.type)
           /\ GBIT(Bytes(m, 5, 2)) = f.tag
           /\ At(m, HDRSZ, body)
<1> DEFINE a == U32(size)
           b == U8(Number(f.type))
           c == U16(f.tag)
           d == Then(a, b)
           h == MsgHeader(f, size)
<1>0. BIT8SZ \in Nat /\ BIT16SZ \in Nat /\ BIT32SZ \in Nat /\ HDRSZ \in Nat /\ size \in Nat
  BY BitsAre, NumbersAre
<1>1. /\ a \in Buffers /\ Length(a) = BIT32SZ
      /\ b \in Buffers /\ Length(b) = BIT8SZ
      /\ c \in Buffers /\ Length(c) = BIT16SZ
      /\ h \in Buffers /\ Length(h) = HDRSZ
  BY <1>0, HeaderParts
<1>2. d \in Buffers /\ Length(d) = BIT32SZ + BIT8SZ
  <2> HIDE DEF a, b
  <2> QED BY <1>1, ConcatLen DEF Then, Length
<1>3. h = Then(d, c)
  BY DEF MsgHeader
<1>4. Len(m) \in Nat /\ At(m, 0, m)
  BY BufferIs, AtSelf
<1>5. At(m, 0, h) /\ At(m, 0 + Length(h), body)
  <2> HIDE DEF h
  <2>1. At(m, 0, h \o body)
    <3>1. m = h \o body
      BY Zenon DEF Then, h
    <3> QED BY Zenon, <1>4, <3>1
  <2>2. At(m, 0, h) /\ At(m, 0 + Len(h), body)
    BY <1>1, <1>4, <2>1, AtConcat
  <2> QED BY <2>2 DEF Length
<1>6. At(m, 0, d) /\ At(m, 0 + Length(d), c)
  <2> HIDE DEF h, c, d
  <2> QED BY <1>1, <1>2, <1>3, <1>4, <1>5, AtConcat DEF Then, Length
<1>7. At(m, 0, a) /\ At(m, 0 + Length(a), b)
  <2> HIDE DEF a, b
  <2> QED BY <1>1, <1>4, <1>6, AtConcat DEF Then, Length
<1>8. At(m, BIT32SZ, b) /\ At(m, 5, c) /\ At(m, HDRSZ, body)
  <2>1. 0 + BIT32SZ = BIT32SZ /\ 0 + (BIT32SZ + BIT8SZ) = 5 /\ 0 + HDRSZ = HDRSZ
    BY BitsAre
  <2> HIDE DEF a, b, c, d, h
  <2> QED BY <1>1, <1>2, <1>5, <1>6, <1>7, <2>1
<1>9. GBIT(Bytes(m, 0, BIT32SZ)) = size
  BY <1>0, <1>7, NumberRead DEF U32
<1>a. GBIT(Bytes(m, BIT32SZ, BIT8SZ)) = Number(f.type)
  <2> DEFINE n == Number(f.type)
  <2>1. n \in Numbers(BIT8SZ)
    BY NumberOk
  <2>2. At(m, BIT32SZ, PBIT(BIT8SZ, n))
    BY <1>8 DEF U8
  <2> HIDE DEF n
  <2>3. GBIT(Bytes(m, BIT32SZ, BIT8SZ)) = n
    BY <1>0, <2>1, <2>2, NumberRead
  <2> QED BY <2>3 DEF n
<1>b. GBIT(Bytes(m, 5, BIT16SZ)) = f.tag
  <2> DEFINE n == f.tag
  <2>1. At(m, 5, PBIT(BIT16SZ, n)) /\ n \in Numbers(BIT16SZ)
    BY <1>8 DEF U16
  <2> HIDE DEF n
  <2>2. GBIT(Bytes(m, 5, BIT16SZ)) = n
    BY <1>0, <2>1, NumberRead
  <2> QED BY <2>2 DEF n
<1> QED BY <1>8, <1>9, <1>a, <1>b, BitsAre

(* A field is read as it was written, and so is a message: what convM2S    *)
(* makes of the bytes of convS2M is the message, in both dialects, for     *)
(* every message the code writes.                                          *)
MsgTaken(f, dotu) == Joined([type |-> f.type, tag |-> f.tag], Taken(f, MsgFields(f.type, dotu)))

THEOREM MessageRoundTrip ==
    ASSUME NEW dotu \in BOOLEAN, NEW f, MsgOk(f, dotu), SizeS2M(f, dotu) \in Numbers(BIT32SZ)
    PROVE  ConvM2S(MsgBytes(f, dotu), dotu) = Decoded(SizeS2M(f, dotu), MsgTaken(f, dotu))
<1> DEFINE size == SizeS2M(f, dotu)
           m == MsgBytes(f, dotu)
           body == MsgBody(f, dotu)
           fields == MsgFields(f.type, dotu)
           g == GetAll(m, HDRSZ, fields)
<1>1. m \in Buffers /\ Length(m) = size
  <2>1. 0 \in Nat
    OBVIOUS
  <2> QED BY <2>1, WrittenIs
<1>2. /\ body = Encoding(f, fields) /\ body \in Buffers /\ fields \in Seq(FieldType)
      /\ size = HDRSZ + Length(body) /\ size \in Nat /\ WellTyped(f, fields)
  BY MsgParts DEF MsgOk
<1>3. f.type \in Ts \cup Rs /\ f.tag \in Numbers(BIT16SZ)
  BY DEF MsgOk
<1>4. m = Then(MsgHeader(f, size), body)
  BY DEF MsgBytes
<1>5. /\ GBIT(Bytes(m, 0, BIT32SZ)) = size
      /\ GBIT(Bytes(m, BIT32SZ, BIT8SZ)) = Number(f.type)
      /\ GBIT(Bytes(m, 5, 2)) = f.tag
      /\ At(m, HDRSZ, body)
  <2> HIDE DEF m, body, size
  <2>1. size \in Numbers(BIT32SZ)
    BY DEF size
  <2> QED BY <1>1, <1>2, <1>3, <1>4, <2>1, HeaderRead
<1>6. g = Got(size, Taken(f, fields))
  <2>1. HDRSZ \in Nat
    BY BitsAre
  <2>2. g = Got(HDRSZ + Len(Encoding(f, fields)), Taken(f, fields))
    <3> HIDE DEF m, body, fields
    <3> QED BY <1>1, <1>2, <1>5, <2>1, AllRead
  <2> HIDE DEF m, body, fields, g, size
  <2> QED BY <1>2, <2>2 DEF Length
<1>7. GetAll(m, HDRSZ, IF IsT(f.type) THEN GetT(f.type, dotu) ELSE GetR(f.type, dotu)) = g
  BY DEF MsgFields
<1> DEFINE t == f.type
           i == Number(t) - 99
           fc == [type |-> t, tag |-> f.tag]
           c == ConvM2S(m, dotu)
<1>8. i \in DOMAIN MsgTypes /\ MsgTypes[i] = t /\ t # "Terror"
  BY <1>3, NumberOk
<1>9. ~ (Len(m) < HDRSZ) /\ size \in HDRSZ .. Len(m)
  <2>1. HDRSZ \in Nat /\ Length(body) \in Nat
    BY <1>2, BitsAre, BufferIs DEF Length
  <2> HIDE DEF m, size, body
  <2> QED BY <1>1, <1>2, <2>1 DEF Length
<1>a. c = Decoded(size, Joined(fc, Taken(f, fields)))
  <2>1. c = IF g.p # size THEN Refused ELSE Decoded(size, Joined(fc, g.v))
    <3> HIDE DEF m, size
    <3> QED BY <1>5, <1>7, <1>8, <1>9 DEF ConvM2S, Ended
  <2>2. g.p = size /\ g.v = Taken(f, fields)
    <3> HIDE DEF g, size, fields
    <3> QED BY <1>6 DEF Got
  <2> QED BY Zenon, <2>1, <2>2
<1> QED BY <1>a DEF MsgTaken

-----------------------------------------------------------------------------
(* Directory entries                                                       *)

Fields6(a, b, c, d, e, f) == <<a, b, c, d, e, f>>
Fields7(a, b, c, d, e, f, g) == <<a, b, c, d, e, f, g>>
Fields8(a, b, c, d, e, f, g, h) == <<a, b, c, d, e, f, g, h>>

LEMMA Encoding6 ==
    \A f, d1, d2, d3, d4, d5, d6 :
        FieldOk(f, d1) /\ FieldOk(f, d2) /\ FieldOk(f, d3) /\ FieldOk(f, d4) /\ FieldOk(f, d5) /\ FieldOk(f, d6) =>
        /\ Fields6(d1, d2, d3, d4, d5, d6) \in Seq(FieldType) /\ WellTyped(f, Fields6(d1, d2, d3, d4, d5, d6))
        /\ Encoding(f, Fields6(d1, d2, d3, d4, d5, d6)) = Then(Then(Then(Then(Then(FieldBytes(f, d1), FieldBytes(f, d2)), FieldBytes(f, d3)), FieldBytes(f, d4)), FieldBytes(f, d5)), FieldBytes(f, d6))
        /\ Length(Encoding(f, Fields6(d1, d2, d3, d4, d5, d6))) = FieldLen(f, d1) + FieldLen(f, d2) + FieldLen(f, d3) + FieldLen(f, d4) + FieldLen(f, d5) + FieldLen(f, d6)
<1> TAKE f, d1, d2, d3, d4, d5, d6
<1> HAVE FieldOk(f, d1) /\ FieldOk(f, d2) /\ FieldOk(f, d3) /\ FieldOk(f, d4) /\ FieldOk(f, d5) /\ FieldOk(f, d6)
<1>1. Fields6(d1, d2, d3, d4, d5, d6) = Plus(Fields5(d1, d2, d3, d4, d5), d6)
  BY DEF Fields5, Fields6, Plus, FieldOk
<1> DEFINE a == Fields5(d1, d2, d3, d4, d5)
           w == Then(Then(Then(Then(FieldBytes(f, d1), FieldBytes(f, d2)), FieldBytes(f, d3)), FieldBytes(f, d4)), FieldBytes(f, d5))
           l == FieldLen(f, d1) + FieldLen(f, d2) + FieldLen(f, d3) + FieldLen(f, d4) + FieldLen(f, d5)
<1>2. a \in Seq(FieldType) /\ WellTyped(f, a) /\ Encoding(f, a) = w /\ Length(Encoding(f, a)) = l
  BY Encoding5
<1> DEFINE s == Plus(a, d6)
<1> HIDE DEF a, w, l
<1>3. /\ s \in Seq(FieldType) /\ WellTyped(f, s) /\ Encoding(f, s) = Then(w, FieldBytes(f, d6))
      /\ Length(Encoding(f, s)) = l + FieldLen(f, d6)
  BY <1>2, EncodingMore
<1>4. Fields6(d1, d2, d3, d4, d5, d6) = s
  BY <1>1 DEF a
<1> HIDE DEF s
<1> QED BY <1>3, <1>4 DEF w, l

LEMMA Encoding7 ==
    \A f, d1, d2, d3, d4, d5, d6, d7 :
        FieldOk(f, d1) /\ FieldOk(f, d2) /\ FieldOk(f, d3) /\ FieldOk(f, d4) /\ FieldOk(f, d5) /\ FieldOk(f, d6) /\ FieldOk(f, d7) =>
        /\ Fields7(d1, d2, d3, d4, d5, d6, d7) \in Seq(FieldType) /\ WellTyped(f, Fields7(d1, d2, d3, d4, d5, d6, d7))
        /\ Encoding(f, Fields7(d1, d2, d3, d4, d5, d6, d7)) = Then(Then(Then(Then(Then(Then(FieldBytes(f, d1), FieldBytes(f, d2)), FieldBytes(f, d3)), FieldBytes(f, d4)), FieldBytes(f, d5)), FieldBytes(f, d6)), FieldBytes(f, d7))
        /\ Length(Encoding(f, Fields7(d1, d2, d3, d4, d5, d6, d7))) = FieldLen(f, d1) + FieldLen(f, d2) + FieldLen(f, d3) + FieldLen(f, d4) + FieldLen(f, d5) + FieldLen(f, d6) + FieldLen(f, d7)
<1> TAKE f, d1, d2, d3, d4, d5, d6, d7
<1> HAVE FieldOk(f, d1) /\ FieldOk(f, d2) /\ FieldOk(f, d3) /\ FieldOk(f, d4) /\ FieldOk(f, d5) /\ FieldOk(f, d6) /\ FieldOk(f, d7)
<1>1. Fields7(d1, d2, d3, d4, d5, d6, d7) = Plus(Fields6(d1, d2, d3, d4, d5, d6), d7)
  BY DEF Fields6, Fields7, Plus, FieldOk
<1> DEFINE a == Fields6(d1, d2, d3, d4, d5, d6)
           w == Then(Then(Then(Then(Then(FieldBytes(f, d1), FieldBytes(f, d2)), FieldBytes(f, d3)), FieldBytes(f, d4)), FieldBytes(f, d5)), FieldBytes(f, d6))
           l == FieldLen(f, d1) + FieldLen(f, d2) + FieldLen(f, d3) + FieldLen(f, d4) + FieldLen(f, d5) + FieldLen(f, d6)
<1>2. a \in Seq(FieldType) /\ WellTyped(f, a) /\ Encoding(f, a) = w /\ Length(Encoding(f, a)) = l
  BY Encoding6
<1> DEFINE s == Plus(a, d7)
<1> HIDE DEF a, w, l
<1>3. /\ s \in Seq(FieldType) /\ WellTyped(f, s) /\ Encoding(f, s) = Then(w, FieldBytes(f, d7))
      /\ Length(Encoding(f, s)) = l + FieldLen(f, d7)
  BY <1>2, EncodingMore
<1>4. Fields7(d1, d2, d3, d4, d5, d6, d7) = s
  BY <1>1 DEF a
<1> HIDE DEF s
<1> QED BY <1>3, <1>4 DEF w, l

LEMMA Encoding8 ==
    \A f, d1, d2, d3, d4, d5, d6, d7, d8 :
        FieldOk(f, d1) /\ FieldOk(f, d2) /\ FieldOk(f, d3) /\ FieldOk(f, d4) /\ FieldOk(f, d5) /\ FieldOk(f, d6) /\ FieldOk(f, d7) /\ FieldOk(f, d8) =>
        /\ Fields8(d1, d2, d3, d4, d5, d6, d7, d8) \in Seq(FieldType) /\ WellTyped(f, Fields8(d1, d2, d3, d4, d5, d6, d7, d8))
        /\ Encoding(f, Fields8(d1, d2, d3, d4, d5, d6, d7, d8)) = Then(Then(Then(Then(Then(Then(Then(FieldBytes(f, d1), FieldBytes(f, d2)), FieldBytes(f, d3)), FieldBytes(f, d4)), FieldBytes(f, d5)), FieldBytes(f, d6)), FieldBytes(f, d7)), FieldBytes(f, d8))
        /\ Length(Encoding(f, Fields8(d1, d2, d3, d4, d5, d6, d7, d8))) = FieldLen(f, d1) + FieldLen(f, d2) + FieldLen(f, d3) + FieldLen(f, d4) + FieldLen(f, d5) + FieldLen(f, d6) + FieldLen(f, d7) + FieldLen(f, d8)
<1> TAKE f, d1, d2, d3, d4, d5, d6, d7, d8
<1> HAVE FieldOk(f, d1) /\ FieldOk(f, d2) /\ FieldOk(f, d3) /\ FieldOk(f, d4) /\ FieldOk(f, d5) /\ FieldOk(f, d6) /\ FieldOk(f, d7) /\ FieldOk(f, d8)
<1>1. Fields8(d1, d2, d3, d4, d5, d6, d7, d8) = Plus(Fields7(d1, d2, d3, d4, d5, d6, d7), d8)
  BY DEF Fields7, Fields8, Plus, FieldOk
<1> DEFINE a == Fields7(d1, d2, d3, d4, d5, d6, d7)
           w == Then(Then(Then(Then(Then(Then(FieldBytes(f, d1), FieldBytes(f, d2)), FieldBytes(f, d3)), FieldBytes(f, d4)), FieldBytes(f, d5)), FieldBytes(f, d6)), FieldBytes(f, d7))
           l == FieldLen(f, d1) + FieldLen(f, d2) + FieldLen(f, d3) + FieldLen(f, d4) + FieldLen(f, d5) + FieldLen(f, d6) + FieldLen(f, d7)
<1>2. a \in Seq(FieldType) /\ WellTyped(f, a) /\ Encoding(f, a) = w /\ Length(Encoding(f, a)) = l
  BY Encoding7
<1> DEFINE s == Plus(a, d8)
<1> HIDE DEF a, w, l
<1>3. /\ s \in Seq(FieldType) /\ WellTyped(f, s) /\ Encoding(f, s) = Then(w, FieldBytes(f, d8))
      /\ Length(Encoding(f, s)) = l + FieldLen(f, d8)
  BY <1>2, EncodingMore
<1>4. Fields8(d1, d2, d3, d4, d5, d6, d7, d8) = s
  BY <1>1 DEF a
<1> HIDE DEF s
<1> QED BY <1>3, <1>4 DEF w, l

Strung(d, x) == d[x] \in Names

(* An entry whose strings are not longer than their counts can say, and    *)
(* the fields of it that are written.                                      *)
DirOk(d) ==
    d \in DirType /\ Strung(d, "name") /\ Strung(d, "uid") /\ Strung(d, "gid") /\ Strung(d, "muid") /\ Strung(d, "ext")

Sized(d, n) == [x \in DOMAIN d \cup {"size"} |-> IF x = "size" THEN n ELSE d[x]]

DirFields(dotu) == StatFixed \o StatStrings(dotu) \o StatNumbers(dotu)

FixedNames == {"dtype", "dev", "qid", "mode", "atime", "mtime", "length"}
StringNames == {"name", "uid", "gid", "muid", "ext"}
NumberNames == {"uidnum", "gidnum", "muidnum"}
DirNames == FixedNames \cup StringNames \cup NumberNames

LEMMA DirParts ==
    ASSUME NEW d, DirOk(d)
    PROVE  /\ DOMAIN d = DirNames
           /\ d.dtype \in Numbers(BIT16SZ) /\ d.dev \in Numbers(BIT32SZ) /\ d.qid \in QidType
           /\ d.mode \in Numbers(BIT32SZ) /\ d.atime \in Numbers(BIT32SZ) /\ d.mtime \in Numbers(BIT32SZ)
           /\ d.length \in [1 .. BIT64SZ -> Numbers(BIT8SZ)]
           /\ d.uidnum \in Numbers(BIT32SZ) /\ d.gidnum \in Numbers(BIT32SZ) /\ d.muidnum \in Numbers(BIT32SZ)
           /\ \A x \in StringNames : d[x] \in Names
<1>1. d \in DirType
  BY DEF DirOk
<1>2. DOMAIN d = DirNames
  BY <1>1 DEF DirType, DirNames, FixedNames, StringNames, NumberNames
<1>3. \A x \in StringNames : d[x] \in Names
  BY DEF DirOk, Strung, StringNames
<1> QED BY <1>1, <1>2, <1>3 DEF DirType

LEMMA SizedIs ==
    \A d, n : DirOk(d) => /\ \A x \in DirNames : Sized(d, n)[x] = d[x]
                           /\ Sized(d, n)["size"] = n
<1> SUFFICES ASSUME NEW d, NEW n, DirOk(d)
             PROVE  /\ \A x \in DirNames : Sized(d, n)[x] = d[x]
                    /\ Sized(d, n)["size"] = n
  OBVIOUS
<1>1. DOMAIN d = DirNames
  BY DirParts
<1>2. \A x \in DirNames : x # "size"
  BY DEF DirNames, FixedNames, StringNames, NumberNames
<1>3. ASSUME NEW x \in DirNames PROVE Sized(d, n)[x] = d[x]
  BY <1>1, <1>2 DEF Sized
<1>4. Sized(d, n)["size"] = n
  BY DEF Sized
<1> QED BY <1>3, <1>4

LEMMA MeantParts ==
    /\ Meant("u8") = Numbers(BIT8SZ) /\ Meant("u16") = Numbers(BIT16SZ) /\ Meant("u32") = Numbers(BIT32SZ)
    /\ Meant("u64") = [1 .. BIT64SZ -> Numbers(BIT8SZ)] /\ Meant("str") = Names /\ Meant("qid") = QidType
BY DEF Meant, Width

LEMMA FixedEncoding ==
    ASSUME NEW d, DirOk(d), NEW n \in Numbers(BIT16SZ)
    PROVE  /\ StatFixed \in Seq(FieldType) /\ WellTyped(Sized(d, n), StatFixed)
           /\ Encoding(Sized(d, n), StatFixed) =
                  Then(Then(Then(Then(Then(Then(Then(U16(n), U16(d.dtype)), U32(d.dev)), Pqid(d.qid)), U32(d.mode)), U32(d.atime)), U32(d.mtime)), d.length)
           /\ Length(Encoding(Sized(d, n), StatFixed)) = BIT16SZ + BIT16SZ + BIT32SZ + QIDSZ + BIT32SZ + BIT32SZ + BIT32SZ + BIT64SZ
<1> DEFINE e == Sized(d, n)
           d1 == <<"size", "u16">>
           d2 == <<"dtype", "u16">>
           d3 == <<"dev", "u32">>
           d4 == <<"qid", "qid">>
           d5 == <<"mode", "u32">>
           d6 == <<"atime", "u32">>
           d7 == <<"mtime", "u32">>
           d8 == <<"length", "u64">>
           fields == Fields8(d1, d2, d3, d4, d5, d6, d7, d8)
<1>0. d1 \in FieldType /\ d2 \in FieldType /\ d3 \in FieldType /\ d4 \in FieldType /\ d5 \in FieldType /\ d6 \in FieldType /\ d7 \in FieldType /\ d8 \in FieldType
  <2>1. "size" \in FieldNames /\ "dtype" \in FieldNames /\ "dev" \in FieldNames /\ "qid" \in FieldNames /\ "mode" \in FieldNames /\ "atime" \in FieldNames /\ "mtime" \in FieldNames /\ "length" \in FieldNames
    BY DEF FieldNames
  <2> QED BY Zenon, <2>1, FieldTypes
<1>1. StatFixed = fields
  BY Zenon DEF StatFixed, Fields8
<1>2. /\ e["size"] = n /\ e["size"] \in Meant("u16")
      /\ e["dtype"] = d.dtype /\ e["dtype"] \in Meant("u16")
      /\ e["dev"] = d.dev /\ e["dev"] \in Meant("u32")
      /\ e["qid"] = d.qid /\ e["qid"] \in Meant("qid")
      /\ e["mode"] = d.mode /\ e["mode"] \in Meant("u32")
      /\ e["atime"] = d.atime /\ e["atime"] \in Meant("u32")
      /\ e["mtime"] = d.mtime /\ e["mtime"] \in Meant("u32")
      /\ e["length"] = d.length /\ e["length"] \in Meant("u64")
  <2>1. "dtype" \in DirNames /\ "dev" \in DirNames /\ "qid" \in DirNames /\ "mode" \in DirNames /\ "atime" \in DirNames /\ "mtime" \in DirNames /\ "length" \in DirNames
    BY DEF DirNames, FixedNames, StringNames, NumberNames
  <2>2. e["size"] = n /\ e["dtype"] = d.dtype /\ e["dev"] = d.dev /\ e["qid"] = d.qid /\ e["mode"] = d.mode /\ e["atime"] = d.atime /\ e["mtime"] = d.mtime /\ e["length"] = d.length
    BY <2>1, SizedIs
  <2>3. n \in Meant("u16") /\ d.dtype \in Meant("u16") /\ d.dev \in Meant("u32") /\ d.qid \in Meant("qid") /\ d.mode \in Meant("u32") /\ d.atime \in Meant("u32") /\ d.mtime \in Meant("u32") /\ d.length \in Meant("u64")
    BY DirParts, MeantParts DEF StringNames
  <2> HIDE DEF e
  <2> QED BY <2>2, <2>3
<1>3. FieldOk(e, d1) /\ FieldOk(e, d2) /\ FieldOk(e, d3) /\ FieldOk(e, d4) /\ FieldOk(e, d5) /\ FieldOk(e, d6) /\ FieldOk(e, d7) /\ FieldOk(e, d8)
  BY <1>0, <1>2 DEF FieldOk
<1>4a. FieldBytes(e, d1) = U16(n) /\ FieldLen(e, d1) = BIT16SZ
  <2>1. FieldBytes(e, d1) = U16(e["size"]) /\ FieldLen(e, d1) = BIT16SZ
    BY FieldParts
  <2> QED BY <1>2, <2>1
<1>4b. FieldBytes(e, d2) = U16(d.dtype) /\ FieldLen(e, d2) = BIT16SZ
  <2>1. FieldBytes(e, d2) = U16(e["dtype"]) /\ FieldLen(e, d2) = BIT16SZ
    BY FieldParts
  <2> QED BY <1>2, <2>1
<1>4c. FieldBytes(e, d3) = U32(d.dev) /\ FieldLen(e, d3) = BIT32SZ
  <2>1. FieldBytes(e, d3) = U32(e["dev"]) /\ FieldLen(e, d3) = BIT32SZ
    BY FieldParts
  <2> QED BY <1>2, <2>1
<1>4d. FieldBytes(e, d4) = Pqid(d.qid) /\ FieldLen(e, d4) = QIDSZ
  <2>1. FieldBytes(e, d4) = Pqid(e["qid"]) /\ FieldLen(e, d4) = QIDSZ
    BY FieldParts
  <2> QED BY <1>2, <2>1
<1>4e. FieldBytes(e, d5) = U32(d.mode) /\ FieldLen(e, d5) = BIT32SZ
  <2>1. FieldBytes(e, d5) = U32(e["mode"]) /\ FieldLen(e, d5) = BIT32SZ
    BY FieldParts
  <2> QED BY <1>2, <2>1
<1>4f. FieldBytes(e, d6) = U32(d.atime) /\ FieldLen(e, d6) = BIT32SZ
  <2>1. FieldBytes(e, d6) = U32(e["atime"]) /\ FieldLen(e, d6) = BIT32SZ
    BY FieldParts
  <2> QED BY <1>2, <2>1
<1>4g. FieldBytes(e, d7) = U32(d.mtime) /\ FieldLen(e, d7) = BIT32SZ
  <2>1. FieldBytes(e, d7) = U32(e["mtime"]) /\ FieldLen(e, d7) = BIT32SZ
    BY FieldParts
  <2> QED BY <1>2, <2>1
<1>4h. FieldBytes(e, d8) = d.length /\ FieldLen(e, d8) = BIT64SZ
  <2>1. FieldBytes(e, d8) = e["length"] /\ FieldLen(e, d8) = BIT64SZ
    BY FieldParts
  <2> QED BY <1>2, <2>1
<1> HIDE DEF e, d1, d2, d3, d4, d5, d6, d7, d8
<1>5. /\ fields \in Seq(FieldType) /\ WellTyped(e, fields)
      /\ Encoding(e, fields) = Then(Then(Then(Then(Then(Then(Then(FieldBytes(e, d1), FieldBytes(e, d2)), FieldBytes(e, d3)), FieldBytes(e, d4)), FieldBytes(e, d5)), FieldBytes(e, d6)), FieldBytes(e, d7)), FieldBytes(e, d8))
      /\ Length(Encoding(e, fields)) = FieldLen(e, d1) + FieldLen(e, d2) + FieldLen(e, d3) + FieldLen(e, d4) + FieldLen(e, d5) + FieldLen(e, d6) + FieldLen(e, d7) + FieldLen(e, d8)
  BY <1>3, Encoding8
<1> HIDE DEF fields
<1>6. /\ Encoding(e, fields) = Then(Then(Then(Then(Then(Then(Then(U16(n), U16(d.dtype)), U32(d.dev)), Pqid(d.qid)), U32(d.mode)), U32(d.atime)), U32(d.mtime)), d.length)
      /\ Length(Encoding(e, fields)) = BIT16SZ + BIT16SZ + BIT32SZ + QIDSZ + BIT32SZ + BIT32SZ + BIT32SZ + BIT64SZ
  BY Zenon, <1>5, <1>4a, <1>4b, <1>4c, <1>4d, <1>4e, <1>4f, <1>4g, <1>4h
<1> QED BY <1>1, <1>5, <1>6 DEF e

LEMMA NamesEncoding ==
    ASSUME NEW d, DirOk(d), NEW n \in Numbers(BIT16SZ)
    PROVE  /\ StatStrings(FALSE) \in Seq(FieldType) /\ WellTyped(Sized(d, n), StatStrings(FALSE))
           /\ Encoding(Sized(d, n), StatStrings(FALSE)) =
                  Then(Then(Then(Pstring(d.name), Pstring(d.uid)), Pstring(d.gid)), Pstring(d.muid))
           /\ Length(Encoding(Sized(d, n), StatStrings(FALSE))) = Stringsz(d.name) + Stringsz(d.uid) + Stringsz(d.gid) + Stringsz(d.muid)
<1> DEFINE e == Sized(d, n)
           d1 == <<"name", "str">>
           d2 == <<"uid", "str">>
           d3 == <<"gid", "str">>
           d4 == <<"muid", "str">>
           fields == Fields4(d1, d2, d3, d4)
<1>0. d1 \in FieldType /\ d2 \in FieldType /\ d3 \in FieldType /\ d4 \in FieldType
  <2>1. "name" \in FieldNames /\ "uid" \in FieldNames /\ "gid" \in FieldNames /\ "muid" \in FieldNames
    BY DEF FieldNames
  <2> QED BY Zenon, <2>1, FieldTypes
<1>1. StatStrings(FALSE) = fields
  <2>1. StatStrings(FALSE) = fields \o <<>>
    BY Zenon DEF StatStrings, IfU, Fields4
  <2> HIDE DEF d1, d2, d3, d4
  <2> QED BY <1>0, <2>1, Grown4
<1>2. /\ e["name"] = d.name /\ e["name"] \in Meant("str")
      /\ e["uid"] = d.uid /\ e["uid"] \in Meant("str")
      /\ e["gid"] = d.gid /\ e["gid"] \in Meant("str")
      /\ e["muid"] = d.muid /\ e["muid"] \in Meant("str")
  <2>1. "name" \in DirNames /\ "uid" \in DirNames /\ "gid" \in DirNames /\ "muid" \in DirNames
    BY DEF DirNames, FixedNames, StringNames, NumberNames
  <2>2. e["name"] = d.name /\ e["uid"] = d.uid /\ e["gid"] = d.gid /\ e["muid"] = d.muid
    BY <2>1, SizedIs
  <2>3. d.name \in Meant("str") /\ d.uid \in Meant("str") /\ d.gid \in Meant("str") /\ d.muid \in Meant("str")
    BY DirParts, MeantParts DEF StringNames
  <2> HIDE DEF e
  <2> QED BY <2>2, <2>3
<1>3. FieldOk(e, d1) /\ FieldOk(e, d2) /\ FieldOk(e, d3) /\ FieldOk(e, d4)
  BY <1>0, <1>2 DEF FieldOk
<1>4a. FieldBytes(e, d1) = Pstring(d.name) /\ FieldLen(e, d1) = Stringsz(d.name)
  <2>1. FieldBytes(e, d1) = Pstring(e["name"]) /\ FieldLen(e, d1) = Stringsz(e["name"])
    BY FieldParts
  <2> QED BY <1>2, <2>1
<1>4b. FieldBytes(e, d2) = Pstring(d.uid) /\ FieldLen(e, d2) = Stringsz(d.uid)
  <2>1. FieldBytes(e, d2) = Pstring(e["uid"]) /\ FieldLen(e, d2) = Stringsz(e["uid"])
    BY FieldParts
  <2> QED BY <1>2, <2>1
<1>4c. FieldBytes(e, d3) = Pstring(d.gid) /\ FieldLen(e, d3) = Stringsz(d.gid)
  <2>1. FieldBytes(e, d3) = Pstring(e["gid"]) /\ FieldLen(e, d3) = Stringsz(e["gid"])
    BY FieldParts
  <2> QED BY <1>2, <2>1
<1>4d. FieldBytes(e, d4) = Pstring(d.muid) /\ FieldLen(e, d4) = Stringsz(d.muid)
  <2>1. FieldBytes(e, d4) = Pstring(e["muid"]) /\ FieldLen(e, d4) = Stringsz(e["muid"])
    BY FieldParts
  <2> QED BY <1>2, <2>1
<1> HIDE DEF e, d1, d2, d3, d4
<1>5. /\ fields \in Seq(FieldType) /\ WellTyped(e, fields)
      /\ Encoding(e, fields) = Then(Then(Then(FieldBytes(e, d1), FieldBytes(e, d2)), FieldBytes(e, d3)), FieldBytes(e, d4))
      /\ Length(Encoding(e, fields)) = FieldLen(e, d1) + FieldLen(e, d2) + FieldLen(e, d3) + FieldLen(e, d4)
  BY <1>3, Encoding4
<1> HIDE DEF fields
<1>6. /\ Encoding(e, fields) = Then(Then(Then(Pstring(d.name), Pstring(d.uid)), Pstring(d.gid)), Pstring(d.muid))
      /\ Length(Encoding(e, fields)) = Stringsz(d.name) + Stringsz(d.uid) + Stringsz(d.gid) + Stringsz(d.muid)
  BY Zenon, <1>5, <1>4a, <1>4b, <1>4c, <1>4d
<1> QED BY <1>1, <1>5, <1>6 DEF e

LEMMA NamesEncodingU ==
    ASSUME NEW d, DirOk(d), NEW n \in Numbers(BIT16SZ)
    PROVE  /\ StatStrings(TRUE) \in Seq(FieldType) /\ WellTyped(Sized(d, n), StatStrings(TRUE))
           /\ Encoding(Sized(d, n), StatStrings(TRUE)) =
                  Then(Then(Then(Then(Pstring(d.name), Pstring(d.uid)), Pstring(d.gid)), Pstring(d.muid)), Pstring(d.ext))
           /\ Length(Encoding(Sized(d, n), StatStrings(TRUE))) = Stringsz(d.name) + Stringsz(d.uid) + Stringsz(d.gid) + Stringsz(d.muid) + Stringsz(d.ext)
<1> DEFINE e == Sized(d, n)
           d1 == <<"name", "str">>
           d2 == <<"uid", "str">>
           d3 == <<"gid", "str">>
           d4 == <<"muid", "str">>
           d5 == <<"ext", "str">>
           fields == Fields5(d1, d2, d3, d4, d5)
<1>0. d1 \in FieldType /\ d2 \in FieldType /\ d3 \in FieldType /\ d4 \in FieldType /\ d5 \in FieldType
  <2>1. "name" \in FieldNames /\ "uid" \in FieldNames /\ "gid" \in FieldNames /\ "muid" \in FieldNames /\ "ext" \in FieldNames
    BY DEF FieldNames
  <2> QED BY Zenon, <2>1, FieldTypes
<1>1. StatStrings(TRUE) = fields
  <2>1. StatStrings(TRUE) = Fields4(d1, d2, d3, d4) \o Fields1(d5)
    BY Zenon DEF StatStrings, IfU, Fields4, Fields1
  <2> HIDE DEF d1, d2, d3, d4, d5
  <2> QED BY <1>0, <2>1, Grown5
<1>2. /\ e["name"] = d.name /\ e["name"] \in Meant("str")
      /\ e["uid"] = d.uid /\ e["uid"] \in Meant("str")
      /\ e["gid"] = d.gid /\ e["gid"] \in Meant("str")
      /\ e["muid"] = d.muid /\ e["muid"] \in Meant("str")
      /\ e["ext"] = d.ext /\ e["ext"] \in Meant("str")
  <2>1. "name" \in DirNames /\ "uid" \in DirNames /\ "gid" \in DirNames /\ "muid" \in DirNames /\ "ext" \in DirNames
    BY DEF DirNames, FixedNames, StringNames, NumberNames
  <2>2. e["name"] = d.name /\ e["uid"] = d.uid /\ e["gid"] = d.gid /\ e["muid"] = d.muid /\ e["ext"] = d.ext
    BY <2>1, SizedIs
  <2>3. d.name \in Meant("str") /\ d.uid \in Meant("str") /\ d.gid \in Meant("str") /\ d.muid \in Meant("str") /\ d.ext \in Meant("str")
    BY DirParts, MeantParts DEF StringNames
  <2> HIDE DEF e
  <2> QED BY <2>2, <2>3
<1>3. FieldOk(e, d1) /\ FieldOk(e, d2) /\ FieldOk(e, d3) /\ FieldOk(e, d4) /\ FieldOk(e, d5)
  BY <1>0, <1>2 DEF FieldOk
<1>4a. FieldBytes(e, d1) = Pstring(d.name) /\ FieldLen(e, d1) = Stringsz(d.name)
  <2>1. FieldBytes(e, d1) = Pstring(e["name"]) /\ FieldLen(e, d1) = Stringsz(e["name"])
    BY FieldParts
  <2> QED BY <1>2, <2>1
<1>4b. FieldBytes(e, d2) = Pstring(d.uid) /\ FieldLen(e, d2) = Stringsz(d.uid)
  <2>1. FieldBytes(e, d2) = Pstring(e["uid"]) /\ FieldLen(e, d2) = Stringsz(e["uid"])
    BY FieldParts
  <2> QED BY <1>2, <2>1
<1>4c. FieldBytes(e, d3) = Pstring(d.gid) /\ FieldLen(e, d3) = Stringsz(d.gid)
  <2>1. FieldBytes(e, d3) = Pstring(e["gid"]) /\ FieldLen(e, d3) = Stringsz(e["gid"])
    BY FieldParts
  <2> QED BY <1>2, <2>1
<1>4d. FieldBytes(e, d4) = Pstring(d.muid) /\ FieldLen(e, d4) = Stringsz(d.muid)
  <2>1. FieldBytes(e, d4) = Pstring(e["muid"]) /\ FieldLen(e, d4) = Stringsz(e["muid"])
    BY FieldParts
  <2> QED BY <1>2, <2>1
<1>4e. FieldBytes(e, d5) = Pstring(d.ext) /\ FieldLen(e, d5) = Stringsz(d.ext)
  <2>1. FieldBytes(e, d5) = Pstring(e["ext"]) /\ FieldLen(e, d5) = Stringsz(e["ext"])
    BY FieldParts
  <2> QED BY <1>2, <2>1
<1> HIDE DEF e, d1, d2, d3, d4, d5
<1>5. /\ fields \in Seq(FieldType) /\ WellTyped(e, fields)
      /\ Encoding(e, fields) = Then(Then(Then(Then(FieldBytes(e, d1), FieldBytes(e, d2)), FieldBytes(e, d3)), FieldBytes(e, d4)), FieldBytes(e, d5))
      /\ Length(Encoding(e, fields)) = FieldLen(e, d1) + FieldLen(e, d2) + FieldLen(e, d3) + FieldLen(e, d4) + FieldLen(e, d5)
  BY <1>3, Encoding5
<1> HIDE DEF fields
<1>6. /\ Encoding(e, fields) = Then(Then(Then(Then(Pstring(d.name), Pstring(d.uid)), Pstring(d.gid)), Pstring(d.muid)), Pstring(d.ext))
      /\ Length(Encoding(e, fields)) = Stringsz(d.name) + Stringsz(d.uid) + Stringsz(d.gid) + Stringsz(d.muid) + Stringsz(d.ext)
  BY Zenon, <1>5, <1>4a, <1>4b, <1>4c, <1>4d, <1>4e
<1> QED BY <1>1, <1>5, <1>6 DEF e

LEMMA IdsEncodingU ==
    ASSUME NEW d, DirOk(d), NEW n \in Numbers(BIT16SZ)
    PROVE  /\ StatNumbers(TRUE) \in Seq(FieldType) /\ WellTyped(Sized(d, n), StatNumbers(TRUE))
           /\ Encoding(Sized(d, n), StatNumbers(TRUE)) =
                  Then(Then(U32(d.uidnum), U32(d.gidnum)), U32(d.muidnum))
           /\ Length(Encoding(Sized(d, n), StatNumbers(TRUE))) = BIT32SZ + BIT32SZ + BIT32SZ
<1> DEFINE e == Sized(d, n)
           d1 == <<"uidnum", "u32">>
           d2 == <<"gidnum", "u32">>
           d3 == <<"muidnum", "u32">>
           fields == Fields3(d1, d2, d3)
<1>0. d1 \in FieldType /\ d2 \in FieldType /\ d3 \in FieldType
  <2>1. "uidnum" \in FieldNames /\ "gidnum" \in FieldNames /\ "muidnum" \in FieldNames
    BY DEF FieldNames
  <2> QED BY Zenon, <2>1, FieldTypes
<1>1. StatNumbers(TRUE) = fields
  BY Zenon DEF StatNumbers, IfU, Fields3
<1>2. /\ e["uidnum"] = d.uidnum /\ e["uidnum"] \in Meant("u32")
      /\ e["gidnum"] = d.gidnum /\ e["gidnum"] \in Meant("u32")
      /\ e["muidnum"] = d.muidnum /\ e["muidnum"] \in Meant("u32")
  <2>1. "uidnum" \in DirNames /\ "gidnum" \in DirNames /\ "muidnum" \in DirNames
    BY DEF DirNames, FixedNames, StringNames, NumberNames
  <2>2. e["uidnum"] = d.uidnum /\ e["gidnum"] = d.gidnum /\ e["muidnum"] = d.muidnum
    BY <2>1, SizedIs
  <2>3. d.uidnum \in Meant("u32") /\ d.gidnum \in Meant("u32") /\ d.muidnum \in Meant("u32")
    BY DirParts, MeantParts DEF StringNames
  <2> HIDE DEF e
  <2> QED BY <2>2, <2>3
<1>3. FieldOk(e, d1) /\ FieldOk(e, d2) /\ FieldOk(e, d3)
  BY <1>0, <1>2 DEF FieldOk
<1>4a. FieldBytes(e, d1) = U32(d.uidnum) /\ FieldLen(e, d1) = BIT32SZ
  <2>1. FieldBytes(e, d1) = U32(e["uidnum"]) /\ FieldLen(e, d1) = BIT32SZ
    BY FieldParts
  <2> QED BY <1>2, <2>1
<1>4b. FieldBytes(e, d2) = U32(d.gidnum) /\ FieldLen(e, d2) = BIT32SZ
  <2>1. FieldBytes(e, d2) = U32(e["gidnum"]) /\ FieldLen(e, d2) = BIT32SZ
    BY FieldParts
  <2> QED BY <1>2, <2>1
<1>4c. FieldBytes(e, d3) = U32(d.muidnum) /\ FieldLen(e, d3) = BIT32SZ
  <2>1. FieldBytes(e, d3) = U32(e["muidnum"]) /\ FieldLen(e, d3) = BIT32SZ
    BY FieldParts
  <2> QED BY <1>2, <2>1
<1> HIDE DEF e, d1, d2, d3
<1>5. /\ fields \in Seq(FieldType) /\ WellTyped(e, fields)
      /\ Encoding(e, fields) = Then(Then(FieldBytes(e, d1), FieldBytes(e, d2)), FieldBytes(e, d3))
      /\ Length(Encoding(e, fields)) = FieldLen(e, d1) + FieldLen(e, d2) + FieldLen(e, d3)
  BY <1>3, Encoding3
<1> HIDE DEF fields
<1>6. /\ Encoding(e, fields) = Then(Then(U32(d.uidnum), U32(d.gidnum)), U32(d.muidnum))
      /\ Length(Encoding(e, fields)) = BIT32SZ + BIT32SZ + BIT32SZ
  BY Zenon, <1>5, <1>4a, <1>4b, <1>4c
<1> QED BY <1>1, <1>5, <1>6 DEF e

(* The strings, as the loops of the code go over them.                     *)
LEMMA StatStringsAre ==
    \A dotu \in BOOLEAN :
        /\ StatStrings(dotu) \in Seq(FieldType)
        /\ Len(StatStrings(dotu)) = IF dotu THEN 5 ELSE 4
        /\ \A i \in 1 .. Len(StatStrings(dotu)) :
              StatStrings(dotu)[i][2] = "str" /\ StatStrings(dotu)[i][1] \in StringNames
        /\ StatStrings(dotu)[1][1] = "name" /\ StatStrings(dotu)[2][1] = "uid"
        /\ StatStrings(dotu)[3][1] = "gid" /\ StatStrings(dotu)[4][1] = "muid"
        /\ dotu => StatStrings(dotu)[5][1] = "ext"
<1> TAKE dotu \in BOOLEAN
<1> DEFINE d1 == <<"name", "str">>
           d2 == <<"uid", "str">>
           d3 == <<"gid", "str">>
           d4 == <<"muid", "str">>
           d5 == <<"ext", "str">>
<1>0. d1 \in FieldType /\ d2 \in FieldType /\ d3 \in FieldType /\ d4 \in FieldType /\ d5 \in FieldType
  <2>1. "name" \in FieldNames /\ "uid" \in FieldNames /\ "gid" \in FieldNames /\ "muid" \in FieldNames /\ "ext" \in FieldNames
    BY DEF FieldNames
  <2> QED BY Zenon, <2>1, FieldTypes
<1>1. /\ d1[2] = "str" /\ d1[1] = "name" /\ d2[2] = "str" /\ d2[1] = "uid" /\ d3[2] = "str" /\ d3[1] = "gid"
      /\ d4[2] = "str" /\ d4[1] = "muid" /\ d5[2] = "str" /\ d5[1] = "ext"
  OBVIOUS
<1>2. "name" \in StringNames /\ "uid" \in StringNames /\ "gid" \in StringNames /\ "muid" \in StringNames /\ "ext" \in StringNames
  BY DEF StringNames
<1>3. CASE dotu
  <2>1. StatStrings(dotu) = Fields4(d1, d2, d3, d4) \o Fields1(d5)
    BY Zenon, <1>3 DEF StatStrings, IfU, Fields4, Fields1
  <2> HIDE DEF d1, d2, d3, d4, d5
  <2>2. StatStrings(dotu) = Fields5(d1, d2, d3, d4, d5)
    BY <1>0, <2>1, Grown5
  <2> DEFINE s == Fields5(d1, d2, d3, d4, d5)
  <2>3. s \in Seq(FieldType) /\ Len(s) = 5 /\ s[1] = d1 /\ s[2] = d2 /\ s[3] = d3 /\ s[4] = d4 /\ s[5] = d5
    BY <1>0 DEF Fields5
  <2> HIDE DEF s
  <2>4. StatStrings(dotu) = s
    BY <2>2 DEF s
  <2>5. \A i \in 1 .. 5 : s[i][2] = "str" /\ s[i][1] \in StringNames
    BY <1>1, <1>2, <2>3
  <2> QED BY <1>1, <1>3, <2>3, <2>4, <2>5
<1>4. CASE ~ dotu
  <2>1. StatStrings(dotu) = Fields4(d1, d2, d3, d4) \o <<>>
    BY Zenon, <1>4 DEF StatStrings, IfU, Fields4
  <2> HIDE DEF d1, d2, d3, d4, d5
  <2>2. StatStrings(dotu) = Fields4(d1, d2, d3, d4)
    BY <1>0, <2>1, Grown4
  <2>3. <<d1, d2, d3, d4>> \in Seq(FieldType) /\ Len(<<d1, d2, d3, d4>>) = 4
    BY <1>0
  <2> QED BY <1>1, <1>2, <1>4, <2>2, <2>3 DEF Fields4
<1> QED BY <1>3, <1>4

LEMMA StringsOfIs ==
    ASSUME NEW d, DirOk(d), NEW dotu \in BOOLEAN
    PROVE  /\ StringsOf(d, dotu) \in Seq(Names) /\ Len(StringsOf(d, dotu)) = Len(StatStrings(dotu))
           /\ \A i \in 1 .. Len(StatStrings(dotu)) : StringsOf(d, dotu)[i] = d[StatStrings(dotu)[i][1]]
<1> DEFINE fs == StatStrings(dotu)
           k == Len(fs)
           ss == StringsOf(d, dotu)
<1>1. k \in Nat /\ DOMAIN fs = 1 .. k /\ \A i \in 1 .. k : fs[i][1] \in StringNames
  BY StatStringsAre, LenProperties
<1>2. ss = [i \in DOMAIN fs |-> d[fs[i][1]]]
  BY Zenon DEF StringsOf
<1>3. \A x \in StringNames : d[x] \in Names
  BY DirParts
<1> HIDE DEF fs, k, ss
<1>4. ss \in [1 .. k -> Names] /\ \A i \in 1 .. k : ss[i] = d[fs[i][1]]
  BY <1>1, <1>2, <1>3
<1>5. ss \in Seq(Names)
  BY <1>1, <1>4, SeqDef
<1>6. Len(ss) = k
  BY <1>1, <1>4, <1>5, LenProperties
<1> QED BY <1>4, <1>5, <1>6 DEF fs, k, ss

LEMMA StringsEach ==
    ASSUME NEW d, DirOk(d), NEW n, NEW dotu \in BOOLEAN
    PROVE  Each(Pstring, StringsOf(d, dotu)) = Encoding(Sized(d, n), StatStrings(dotu))
<1> DEFINE fs == StatStrings(dotu)
           k == Len(fs)
           ss == StringsOf(d, dotu)
           e == Sized(d, n)
           a == [i \in DOMAIN ss |-> Pstring(ss[i])]
           b == [i \in DOMAIN fs |-> Written(fs[i][2], e[fs[i][1]])]
<1>1. k \in Nat /\ DOMAIN fs = 1 .. k /\ \A i \in 1 .. k : fs[i][1] \in StringNames /\ fs[i][2] = "str"
  BY StatStringsAre, LenProperties
<1>2. DOMAIN ss = 1 .. k /\ \A i \in 1 .. k : ss[i] = d[fs[i][1]]
  <2>1. Len(ss) = k /\ ss \in Seq(Names)
    BY StringsOfIs
  <2>2. DOMAIN ss = 1 .. k
    <3> HIDE DEF ss, k
    <3> QED BY <2>1, LenProperties
  <2> QED BY <2>2, StringsOfIs
<1>3. \A x \in StringNames : e[x] = d[x]
  BY SizedIs DEF DirNames
<1>4. \A v : Written("str", v) = Pstring(v)
  BY DEF Written
<1> HIDE DEF fs, k, ss, e
<1>5. \A i \in 1 .. k : Pstring(ss[i]) = Written(fs[i][2], e[fs[i][1]])
  BY <1>1, <1>2, <1>3, <1>4
<1>6. a = b
  <2>1. a = [i \in 1 .. k |-> Pstring(ss[i])] /\ b = [i \in 1 .. k |-> Written(fs[i][2], e[fs[i][1]])]
    BY Zenon, <1>1, <1>2
  <2> HIDE DEF a, b
  <2> QED BY <1>5, <2>1
<1>7. Each(Pstring, ss) = FlattenSeq(a) /\ Encoding(e, fs) = FlattenSeq(b)
  BY Zenon DEF Each, Encoding
<1> QED BY Zenon, <1>6, <1>7 DEF ss, e, fs

(* sizeD2M                                                                 *)
AddFrom(q, n, a, ss) == q = [i \in 0 .. n |-> IF i = 0 THEN a ELSE q[i - 1] + Len(ss[i])]

LEMMA AddExists ==
    ASSUME NEW n \in Nat, NEW a, NEW ss
    PROVE  \E q : AddFrom(q, n, a, ss)
<1> DEFINE Is(k, q) == q = [i \in 0 .. k |-> IF i = 0 THEN a ELSE q[i - 1] + Len(ss[i])]
           T == {k \in Nat : \E q : Is(k, q)}
<1>1. 0 \in T
  <2> DEFINE q == [i \in 0 .. 0 |-> a]
  <2>1. Is(0, q)
    OBVIOUS
  <2> QED BY <2>1
<1>2. ASSUME NEW k \in Nat, k \in T PROVE k + 1 \in T
  <2>1. PICK r : Is(k, r)
    BY <1>2
  <2> DEFINE q == [i \in 0 .. k + 1 |-> IF i = k + 1 THEN r[k] + Len(ss[k + 1]) ELSE r[i]]
  <2>2. Is(k + 1, q)
    BY <2>1
  <2> HIDE DEF Is, q
  <2> QED BY <2>2
<1>3. Nat \subseteq T
  <2> HIDE DEF T
  <2> QED BY <1>1, <1>2, SetInduction
<1> QED BY <1>3 DEF AddFrom

DirBase(dotu) == STATFIXLEN + DotU(dotu, STATUEXTRALEN)

LEMMA StringsGiven ==
    ASSUME NEW d \in DirType, NEW dotu \in BOOLEAN
    PROVE  /\ Len(StringsOf(d, dotu)) = Len(StatStrings(dotu))
           /\ \A i \in 1 .. Len(StatStrings(dotu)) : StringsOf(d, dotu)[i] = d[StatStrings(dotu)[i][1]]
<1> DEFINE fs == StatStrings(dotu)
           k == Len(fs)
           ss == StringsOf(d, dotu)
<1>1. k \in Nat /\ DOMAIN fs = 1 .. k /\ \A i \in 1 .. k : fs[i][1] \in StringNames
  BY StatStringsAre, LenProperties
<1>2. ss = [i \in DOMAIN fs |-> d[fs[i][1]]]
  BY Zenon DEF StringsOf
<1>3. \A x \in StringNames : d[x] \in CStrings
  BY DEF DirType, StringNames
<1> HIDE DEF fs, k, ss
<1>4. ss \in [1 .. k -> CStrings] /\ \A i \in 1 .. k : ss[i] = d[fs[i][1]]
  BY <1>1, <1>2, <1>3
<1>5. ss \in Seq(CStrings)
  BY <1>1, <1>4, SeqDef
<1>6. Len(ss) = k
  BY <1>1, <1>4, <1>5, LenProperties
<1> QED BY <1>4, <1>6 DEF fs, k, ss

LEMMA SizeD2MOf ==
    ASSUME NEW d \in DirType, NEW dotu \in BOOLEAN
    PROVE  SizeD2M(d, dotu) =
               DirBase(dotu) + Len(d.name) + Len(d.uid) + Len(d.gid) + Len(d.muid) + (IF dotu THEN Len(d.ext) ELSE 0)
<1> DEFINE ss == StringsOf(d, dotu)
           a == DirBase(dotu)
           n == Len(ss)
           q == CHOOSE q : AddFrom(q, n, a, ss)
<1>1. /\ n = IF dotu THEN 5 ELSE 4
      /\ ss[1] = d.name /\ ss[2] = d.uid /\ ss[3] = d.gid /\ ss[4] = d.muid
      /\ dotu => ss[5] = d.ext
  <2> DEFINE fs == StatStrings(dotu)
             k == Len(fs)
  <2>1. /\ k = IF dotu THEN 5 ELSE 4
        /\ fs[1][1] = "name" /\ fs[2][1] = "uid" /\ fs[3][1] = "gid" /\ fs[4][1] = "muid"
        /\ dotu => fs[5][1] = "ext"
    BY StatStringsAre
  <2>2. n = k /\ \A i \in 1 .. k : ss[i] = d[fs[i][1]]
    BY StringsGiven
  <2> HIDE DEF fs, k, ss, n
  <2> QED BY <2>1, <2>2
<1>2. SizeD2M(d, dotu) = q[n]
  BY Zenon DEF SizeD2M, AddFrom, DirBase
<1>3. AddFrom(q, n, a, ss)
  <2>1. n \in Nat
    BY <1>1
  <2>2. \E r : AddFrom(r, n, a, ss)
    <3> HIDE DEF a, ss, n
    <3> QED BY <2>1, AddExists
  <2> HIDE DEF a, ss, n
  <2> QED BY <2>2
<1> HIDE DEF ss, a, n, q
<1>4. q = [i \in 0 .. n |-> IF i = 0 THEN a ELSE q[i - 1] + Len(ss[i])]
  BY Zenon, <1>3 DEF AddFrom, n
<1>5. q[0] = a /\ q[1] = q[0] + Len(ss[1]) /\ q[2] = q[1] + Len(ss[2]) /\ q[3] = q[2] + Len(ss[3]) /\ q[4] = q[3] + Len(ss[4])
  BY <1>1, <1>4
<1>6. dotu => q[5] = q[4] + Len(ss[5])
  BY <1>1, <1>4
<1>7. /\ a \in Nat
      /\ Len(d.name) \in Nat /\ Len(d.uid) \in Nat /\ Len(d.gid) \in Nat /\ Len(d.muid) \in Nat /\ Len(d.ext) \in Nat
  <2>1. \A s \in CStrings : Len(s) \in Nat
    BY LenProperties DEF CStrings
  <2>2. a \in Nat
    BY BitsAre DEF a, DirBase, DotU, STATFIXLEN, STATUEXTRALEN, QIDSZ
  <2> QED BY <2>1, <2>2 DEF DirType
<1>8. CASE dotu
  BY <1>1, <1>2, <1>5, <1>6, <1>7, <1>8 DEF a
<1>9. CASE ~ dotu
  <2>1. q[4] = q[0] + Len(d.name) + Len(d.uid) + Len(d.gid) + Len(d.muid) /\ q[0] = DirBase(dotu)
    BY <1>1, <1>5 DEF a
  <2>2. q[4] \in Nat
    <3>1. Len(ss[1]) \in Nat /\ Len(ss[2]) \in Nat /\ Len(ss[3]) \in Nat /\ Len(ss[4]) \in Nat
      BY <1>1, <1>7
    <3>2. q[0] \in Nat
      BY <1>5, <1>7
    <3> DEFINE l1 == Len(ss[1])
               l2 == Len(ss[2])
               l3 == Len(ss[3])
               l4 == Len(ss[4])
    <3>3. q[1] = q[0] + l1 /\ q[2] = q[1] + l2 /\ q[3] = q[2] + l3 /\ q[4] = q[3] + l4
      BY <1>5
    <3> HIDE DEF l1, l2, l3, l4
    <3>4. l1 \in Nat /\ l2 \in Nat /\ l3 \in Nat /\ l4 \in Nat
      BY <3>1 DEF l1, l2, l3, l4
    <3> QED BY <3>2, <3>3, <3>4
  <2>3. SizeD2M(d, dotu) = q[4]
    BY <1>1, <1>2, <1>9
  <2> QED BY <1>9, <2>1, <2>2, <2>3
<1> QED BY <1>8, <1>9

LEMMA SizeD2MIs ==
    ASSUME NEW d, DirOk(d), NEW dotu \in BOOLEAN
    PROVE  SizeD2M(d, dotu) =
               DirBase(dotu) + Len(d.name) + Len(d.uid) + Len(d.gid) + Len(d.muid) + (IF dotu THEN Len(d.ext) ELSE 0)
BY SizeD2MOf DEF DirOk

(* An entry as the code writes it, n in its size field.                    *)
DirHead(d, n) ==
    Then(Then(Then(Then(Then(Then(Then(U16(n), U16(d.dtype)), U32(d.dev)), Pqid(d.qid)), U32(d.mode)),
         U32(d.atime)), U32(d.mtime)), d.length)
DirIds(d) == Then(Then(U32(d.uidnum), U32(d.gidnum)), U32(d.muidnum))
DirBytes(d, n, dotu) ==
    Then(Then(DirHead(d, n), Each(Pstring, StringsOf(d, dotu))), IfU(dotu, DirIds(d)))

LEMMA LensAre == \A s \in Names : Len(s) \in Nat /\ Stringsz(s) = 2 + Len(s)
BY StringBuffer, NamesCounted, BufferIs, BitsAre DEF Counted, Stringsz

LEMMA DirNamesEncoding ==
    ASSUME NEW d, DirOk(d), NEW n \in Numbers(BIT16SZ), NEW dotu \in BOOLEAN
    PROVE  /\ StatStrings(dotu) \in Seq(FieldType) /\ WellTyped(Sized(d, n), StatStrings(dotu))
           /\ Length(Encoding(Sized(d, n), StatStrings(dotu))) =
                  8 + Len(d.name) + Len(d.uid) + Len(d.gid) + Len(d.muid) + (IF dotu THEN 2 + Len(d.ext) ELSE 0)
<1> DEFINE l1 == Len(d.name)
           l2 == Len(d.uid)
           l3 == Len(d.gid)
           l4 == Len(d.muid)
           l5 == Len(d.ext)
<1>1. /\ l1 \in Nat /\ l2 \in Nat /\ l3 \in Nat /\ l4 \in Nat /\ l5 \in Nat
      /\ Stringsz(d.name) = 2 + l1 /\ Stringsz(d.uid) = 2 + l2 /\ Stringsz(d.gid) = 2 + l3
      /\ Stringsz(d.muid) = 2 + l4 /\ Stringsz(d.ext) = 2 + l5
  BY LensAre, DirParts DEF StringNames
<1>2. CASE dotu
  <2> DEFINE l == Length(Encoding(Sized(d, n), StatStrings(TRUE)))
  <2>1. /\ StatStrings(TRUE) \in Seq(FieldType) /\ WellTyped(Sized(d, n), StatStrings(TRUE))
        /\ l = Stringsz(d.name) + Stringsz(d.uid) + Stringsz(d.gid) + Stringsz(d.muid) + Stringsz(d.ext)
    BY NamesEncodingU
  <2> HIDE DEF l, l1, l2, l3, l4, l5
  <2>2. l = 8 + l1 + l2 + l3 + l4 + (2 + l5)
    BY <1>1, <2>1
  <2> QED BY <1>2, <2>1, <2>2 DEF l, l1, l2, l3, l4, l5
<1>3. CASE ~ dotu
  <2> DEFINE l == Length(Encoding(Sized(d, n), StatStrings(FALSE)))
  <2>1. /\ StatStrings(FALSE) \in Seq(FieldType) /\ WellTyped(Sized(d, n), StatStrings(FALSE))
        /\ l = Stringsz(d.name) + Stringsz(d.uid) + Stringsz(d.gid) + Stringsz(d.muid)
    BY NamesEncoding
  <2> HIDE DEF l, l1, l2, l3, l4, l5
  <2>2. l = 8 + l1 + l2 + l3 + l4 + 0
    BY <1>1, <2>1
  <2> QED BY <1>3, <2>1, <2>2 DEF l, l1, l2, l3, l4, l5
<1> QED BY <1>2, <1>3

LEMMA DirIdsEncoding ==
    ASSUME NEW d, DirOk(d), NEW n \in Numbers(BIT16SZ), NEW dotu \in BOOLEAN
    PROVE  /\ StatNumbers(dotu) \in Seq(FieldType) /\ WellTyped(Sized(d, n), StatNumbers(dotu))
           /\ Encoding(Sized(d, n), StatNumbers(dotu)) = IfU(dotu, DirIds(d))
           /\ Length(Encoding(Sized(d, n), StatNumbers(dotu))) = (IF dotu THEN 12 ELSE 0)
<1>1. CASE dotu
  <2>1. /\ StatNumbers(TRUE) \in Seq(FieldType) /\ WellTyped(Sized(d, n), StatNumbers(TRUE))
        /\ Encoding(Sized(d, n), StatNumbers(TRUE)) = DirIds(d)
        /\ Length(Encoding(Sized(d, n), StatNumbers(TRUE))) = BIT32SZ + BIT32SZ + BIT32SZ
    BY IdsEncodingU DEF DirIds
  <2>2. BIT32SZ + BIT32SZ + BIT32SZ = 12
    BY BitsAre
  <2>3. IfU(TRUE, DirIds(d)) = DirIds(d) /\ dotu = TRUE
    BY <1>1 DEF IfU
  <2> QED BY <1>1, <2>1, <2>2, <2>3
<1>2. CASE ~ dotu
  <2>1. StatNumbers(dotu) = <<>> /\ IfU(dotu, DirIds(d)) = <<>>
    BY Zenon, <1>2 DEF StatNumbers, IfU
  <2>2. Length(<<>>) = 0
    BY EmptyBuffer DEF Length
  <2> QED BY <1>2, <2>1, <2>2, EncodingNone
<1> QED BY <1>1, <1>2

LEMMA DirEncoding ==
    ASSUME NEW d, DirOk(d), NEW n \in Numbers(BIT16SZ), NEW dotu \in BOOLEAN
    PROVE  /\ DirFields(dotu) \in Seq(FieldType) /\ WellTyped(Sized(d, n), DirFields(dotu))
           /\ Encoding(Sized(d, n), DirFields(dotu)) = DirBytes(d, n, dotu)
           /\ DirBytes(d, n, dotu) \in Buffers
           /\ Length(DirBytes(d, n, dotu)) = SizeD2M(d, dotu)
<1> DEFINE e == Sized(d, n)
           a == StatFixed
           b == StatStrings(dotu)
           c == StatNumbers(dotu)
           ab == a \o b
           x == Encoding(e, a)
           y == Encoding(e, b)
           z == Encoding(e, c)
<1>1. /\ a \in Seq(FieldType) /\ WellTyped(e, a) /\ x = DirHead(d, n) /\ Length(x) = 41
  <2>1. /\ a \in Seq(FieldType) /\ WellTyped(e, a) /\ x = DirHead(d, n)
        /\ Length(x) = BIT16SZ + BIT16SZ + BIT32SZ + QIDSZ + BIT32SZ + BIT32SZ + BIT32SZ + BIT64SZ
    BY FixedEncoding DEF DirHead
  <2>2. BIT16SZ + BIT16SZ + BIT32SZ + QIDSZ + BIT32SZ + BIT32SZ + BIT32SZ + BIT64SZ = 41
    BY BitsAre DEF QIDSZ
  <2> QED BY <2>1, <2>2
<1>2. /\ b \in Seq(FieldType) /\ WellTyped(e, b) /\ y = Each(Pstring, StringsOf(d, dotu))
      /\ Length(y) = 8 + Len(d.name) + Len(d.uid) + Len(d.gid) + Len(d.muid) + (IF dotu THEN 2 + Len(d.ext) ELSE 0)
  BY DirNamesEncoding, StringsEach
<1>3. /\ c \in Seq(FieldType) /\ WellTyped(e, c) /\ z = IfU(dotu, DirIds(d)) /\ Length(z) = IF dotu THEN 12 ELSE 0
  BY DirIdsEncoding
<1>4. /\ ab \in Seq(FieldType) /\ WellTyped(e, ab) /\ Encoding(e, ab) = x \o y
  <2> HIDE DEF e, a, b
  <2> QED BY <1>1, <1>2, EncodingConcat
<1>5. /\ ab \o c \in Seq(FieldType) /\ WellTyped(e, ab \o c) /\ Encoding(e, ab \o c) = Encoding(e, ab) \o z
  <2> HIDE DEF e, ab, c
  <2> QED BY <1>3, <1>4, EncodingConcat
<1>6. x \in Buffers /\ y \in Buffers /\ z \in Buffers
  <2> HIDE DEF e, a, b, c
  <2> QED BY <1>1, <1>2, <1>3, EncodingIs
<1>7. DirFields(dotu) = ab \o c
  BY Zenon DEF DirFields
<1>8. DirBytes(d, n, dotu) = (x \o y) \o z
  BY Zenon, <1>1, <1>2, <1>3 DEF DirBytes, Then
<1>9. Encoding(e, ab \o c) = (x \o y) \o z
  BY Zenon, <1>4, <1>5
<1> DEFINE w == (x \o y) \o z
<1>a. w \in Buffers /\ Len(w) = (Len(x) + Len(y)) + Len(z)
  <2> HIDE DEF x, y, z
  <2> QED BY <1>6, ConcatLen
<1>b. Len(w) = SizeD2M(d, dotu)
  <2> DEFINE l1 == Len(d.name)
             l2 == Len(d.uid)
             l3 == Len(d.gid)
             l4 == Len(d.muid)
             l5 == Len(d.ext)
             k == Len(w)
  <2>1. l1 \in Nat /\ l2 \in Nat /\ l3 \in Nat /\ l4 \in Nat /\ l5 \in Nat
    BY LensAre, DirParts DEF StringNames
  <2>2. SizeD2M(d, dotu) = DirBase(dotu) + l1 + l2 + l3 + l4 + (IF dotu THEN l5 ELSE 0)
    BY SizeD2MIs
  <2>3. k = (41 + (8 + l1 + l2 + l3 + l4 + (IF dotu THEN 2 + l5 ELSE 0))) + (IF dotu THEN 12 ELSE 0)
    <3> HIDE DEF x, y, z, w
    <3> QED BY <1>1, <1>2, <1>3, <1>a DEF Length
  <2>4. DirBase(dotu) = 49 + (IF dotu THEN 14 ELSE 0)
    BY BitsAre DEF DirBase, STATFIXLEN, STATUEXTRALEN, DotU, QIDSZ
  <2> HIDE DEF k, l1, l2, l3, l4, l5
  <2>5. k = SizeD2M(d, dotu)
    BY <2>1, <2>2, <2>3, <2>4
  <2> QED BY <2>5 DEF k
<1> HIDE DEF w
<1>c. DirBytes(d, n, dotu) = w
  BY Zenon, <1>8 DEF w
<1>d. Encoding(e, DirFields(dotu)) = w /\ DirFields(dotu) \in Seq(FieldType) /\ WellTyped(e, DirFields(dotu))
  BY Zenon, <1>5, <1>7, <1>9 DEF w
<1> QED BY <1>a, <1>b, <1>c, <1>d DEF Length

(* convD2M writes all of an entry into the space sizeD2M counted.          *)
LEMMA DirWritten ==
    ASSUME NEW d, DirOk(d), NEW dotu \in BOOLEAN, SizeD2M(d, dotu) \in Numbers(BIT16SZ)
    PROVE  /\ SizeD2M(d, dotu) - BIT16SZ \in Numbers(BIT16SZ)
           /\ SizeD2M(d, dotu) \in Nat /\ SizeD2M(d, dotu) >= 49
           /\ ConvD2M(d, SizeD2M(d, dotu), dotu) = DirBytes(d, SizeD2M(d, dotu) - BIT16SZ, dotu)
<1> DEFINE ss == SizeD2M(d, dotu)
           n == ss - BIT16SZ
           b == DirBytes(d, n, dotu)
<1>1. ss \in Nat /\ ss >= 49
  <2> DEFINE l1 == Len(d.name)
             l2 == Len(d.uid)
             l3 == Len(d.gid)
             l4 == Len(d.muid)
             l5 == Len(d.ext)
  <2>1. l1 \in Nat /\ l2 \in Nat /\ l3 \in Nat /\ l4 \in Nat /\ l5 \in Nat
    BY LensAre, DirParts DEF StringNames
  <2>2. ss = DirBase(dotu) + l1 + l2 + l3 + l4 + (IF dotu THEN l5 ELSE 0)
    BY SizeD2MIs
  <2>3. DirBase(dotu) = 49 + (IF dotu THEN 14 ELSE 0)
    BY BitsAre DEF DirBase, STATFIXLEN, STATUEXTRALEN, DotU, QIDSZ
  <2> HIDE DEF ss, l1, l2, l3, l4, l5
  <2> QED BY <2>1, <2>2, <2>3
<1>2. ss < Values(BIT16SZ) /\ Values(BIT16SZ) \in Nat
  <2> HIDE DEF ss
  <2>1. BIT16SZ \in Nat
    BY BitsAre
  <2> QED BY <1>1, <2>1, ValuesPositive DEF Numbers, ss
<1>3. n \in Numbers(BIT16SZ) /\ n \in Nat
  <2> HIDE DEF ss
  <2> QED BY <1>1, <1>2, BitsAre DEF Numbers
<1>4. b \in Buffers /\ Len(b) = ss
  <2> HIDE DEF n
  <2> QED BY <1>3, DirEncoding DEF Length
<1>5. b = U16(n) \o U16(d.dtype) \o U32(d.dev) \o Pqid(d.qid) \o U32(d.mode)
          \o U32(d.atime) \o U32(d.mtime) \o d.length \o Each(Pstring, StringsOf(d, dotu))
          \o IfU(dotu, U32(d.uidnum) \o U32(d.gidnum) \o U32(d.muidnum))
  BY Zenon DEF DirBytes, DirHead, DirIds, Then
<1>6. ConvD2M(d, ss, dotu) = IF ss < BIT16SZ THEN <<>>
                             ELSE IF ss > ss THEN U16(ss - BIT16SZ)
                             ELSE IF ss # Len(b) THEN <<>> ELSE b
  <2> DEFINE w == U16(n) \o U16(d.dtype) \o U32(d.dev) \o Pqid(d.qid) \o U32(d.mode)
                  \o U32(d.atime) \o U32(d.mtime) \o d.length \o Each(Pstring, StringsOf(d, dotu))
                  \o IfU(dotu, U32(d.uidnum) \o U32(d.gidnum) \o U32(d.muidnum))
  <2>1. ConvD2M(d, ss, dotu) = IF ss < BIT16SZ THEN <<>>
                               ELSE IF ss > ss THEN U16(ss - BIT16SZ)
                               ELSE IF ss # Len(w) THEN <<>> ELSE w
    BY Zenon DEF ConvD2M
  <2> QED BY Zenon, <1>5, <2>1
<1>7. ~ (ss < BIT16SZ) /\ ~ (ss > ss)
  <2> HIDE DEF ss
  <2> QED BY <1>1, BitsAre
<1>8. ConvD2M(d, ss, dotu) = b
  BY Zenon, <1>4, <1>6, <1>7
<1> QED BY <1>1, <1>3, <1>8

(* What convM2D makes of it is the entry.                                  *)
DirTaken(d, dotu) == Taken(Sized(d, SizeD2M(d, dotu) - BIT16SZ), DirFields(dotu))

(* A directory entry that convD2M writes into the space sizeD2M counted is *)
(* read by convM2D, all of it, as the entry that was written.              *)
THEOREM EntryRoundTrip ==
    ASSUME NEW d, DirOk(d), NEW dotu \in BOOLEAN, SizeD2M(d, dotu) \in Numbers(BIT16SZ)
    PROVE  /\ Len(ConvD2M(d, SizeD2M(d, dotu), dotu)) = SizeD2M(d, dotu)
           /\ ConvM2D(ConvD2M(d, SizeD2M(d, dotu), dotu), dotu) = Decoded(SizeD2M(d, dotu), DirTaken(d, dotu))
<1> DEFINE ss == SizeD2M(d, dotu)
           n == ss - BIT16SZ
           e == Sized(d, n)
           b == DirBytes(d, n, dotu)
           fields == DirFields(dotu)
           g == GetAll(b, 0, fields)
<1>1. n \in Numbers(BIT16SZ) /\ ss \in Nat /\ ConvD2M(d, ss, dotu) = b
  BY DirWritten
<1>2. /\ fields \in Seq(FieldType) /\ WellTyped(e, fields) /\ Encoding(e, fields) = b
      /\ b \in Buffers /\ Len(b) = ss
  <2> HIDE DEF n, fields
  <2> QED BY <1>1, DirEncoding DEF fields, Length
<1>3. g = Got(ss, Taken(e, fields))
  <2>1. At(b, 0, b)
    <3> HIDE DEF b
    <3> QED BY <1>2, AtSelf
  <2>2. g = Got(0 + Len(Encoding(e, fields)), Taken(e, fields))
    <3> HIDE DEF b, fields, e
    <3> QED BY <1>2, <2>1, AllRead
  <2>3. 0 + Len(Encoding(e, fields)) = ss
    <3> HIDE DEF b, fields, e, ss
    <3> QED BY <1>1, <1>2
  <2> QED BY Zenon, <2>2, <2>3
<1>4. ConvM2D(b, dotu) = IF g.p = Nil THEN Refused ELSE Decoded(g.p, g.v)
  BY Zenon DEF ConvM2D, DirFields
<1>5. g.p = ss /\ g.v = Taken(e, fields) /\ ss # Nil
  <2> HIDE DEF g, fields, e, ss
  <2> QED BY <1>1, <1>3 DEF Got, Nil
<1>6. ConvM2D(b, dotu) = Decoded(ss, Taken(e, fields))
  BY Zenon, <1>4, <1>5
<1> QED BY Zenon, <1>1, <1>2, <1>6 DEF DirTaken

(* What makes a message one that is written: by its type, the fields.      *)
LEMMA MeantCounts ==
    /\ Meant("data") = Counted(BIT32SZ) /\ Meant("stat") = Counted(BIT16SZ)
    /\ Meant("names") = Lists(Names) /\ Meant("qids") = Lists(QidType)
BY DEF Meant

LEMMA OkTversion ==
    ASSUME NEW f, NEW u \in BOOLEAN, f.type = "Tversion", f.tag \in Numbers(BIT16SZ),
           f.msize \in Numbers(BIT32SZ),
           f.version \in Names
    PROVE  MsgOk(f, u)
<1> DEFINE d1 == <<"msize", "u32">>
           d2 == <<"version", "str">>
           fields == MsgFields(f.type, u)
<1>0. d1 \in FieldType /\ d2 \in FieldType
  <2>1. "msize" \in FieldNames /\ "version" \in FieldNames
    BY DEF FieldNames
  <2> QED BY Zenon, <2>1, FieldTypes
<1>1. FieldOk(f, d1) /\ FieldOk(f, d2)
  BY <1>0, MeantParts, MeantCounts DEF FieldOk
<1>2. f.type \in Ts
  BY DEF Ts
<1>3. fields = GetT(f.type, u)
  <2>1. IsT(f.type)
    BY <1>2, RequestsAre DEF Ts
  <2> QED BY <2>1 DEF MsgFields
<1>4. GetT(f.type, u) = Fields2(d1, d2)
  BY Zenon DEF GetT, Fields2
<1>5. WellTyped(f, fields)
  <2> HIDE DEF d1, d2
  <2>1. WellTyped(f, Fields2(d1, d2))
    BY <1>1, Encoding2
  <2> QED BY <1>3, <1>4, <2>1
<1> QED BY <1>2, <1>5 DEF MsgOk, fields

LEMMA OkTflush ==
    ASSUME NEW f, NEW u \in BOOLEAN, f.type = "Tflush", f.tag \in Numbers(BIT16SZ),
           f.oldtag \in Numbers(BIT16SZ)
    PROVE  MsgOk(f, u)
<1> DEFINE d1 == <<"oldtag", "u16">>
           fields == MsgFields(f.type, u)
<1>0. d1 \in FieldType
  <2>1. "oldtag" \in FieldNames
    BY DEF FieldNames
  <2> QED BY Zenon, <2>1, FieldTypes
<1>1. FieldOk(f, d1)
  BY <1>0, MeantParts, MeantCounts DEF FieldOk
<1>2. f.type \in Ts
  BY DEF Ts
<1>3. fields = GetT(f.type, u)
  <2>1. IsT(f.type)
    BY <1>2, RequestsAre DEF Ts
  <2> QED BY <2>1 DEF MsgFields
<1>4. GetT(f.type, u) = Fields1(d1)
  BY Zenon DEF GetT, Fields1
<1>5. WellTyped(f, fields)
  <2> HIDE DEF d1
  <2>1. WellTyped(f, Fields1(d1))
    BY <1>1, Encoding1
  <2> QED BY <1>3, <1>4, <2>1
<1> QED BY <1>2, <1>5 DEF MsgOk, fields

LEMMA OkTauth ==
    ASSUME NEW f, NEW u \in BOOLEAN, f.type = "Tauth", f.tag \in Numbers(BIT16SZ),
           f.afid \in Numbers(BIT32SZ),
           f.uname \in Names,
           f.aname \in Names,
           f.unamenum \in Numbers(BIT32SZ)
    PROVE  MsgOk(f, u)
<1> DEFINE d1 == <<"afid", "u32">>
           d2 == <<"uname", "str">>
           d3 == <<"aname", "str">>
           d4 == <<"unamenum", "u32">>
           fields == MsgFields(f.type, u)
<1>0. d1 \in FieldType /\ d2 \in FieldType /\ d3 \in FieldType /\ d4 \in FieldType
  <2>1. "afid" \in FieldNames /\ "uname" \in FieldNames /\ "aname" \in FieldNames /\ "unamenum" \in FieldNames
    BY DEF FieldNames
  <2> QED BY Zenon, <2>1, FieldTypes
<1>1. FieldOk(f, d1) /\ FieldOk(f, d2) /\ FieldOk(f, d3) /\ FieldOk(f, d4)
  BY <1>0, MeantParts, MeantCounts DEF FieldOk
<1>2. f.type \in Ts
  BY DEF Ts
<1>3. fields = GetT(f.type, u)
  <2>1. IsT(f.type)
    BY <1>2, RequestsAre DEF Ts
  <2> QED BY <2>1 DEF MsgFields
<1>4. CASE u
  <2>1. GetT(f.type, u) = Fields3(d1, d2, d3) \o Fields1(d4)
    BY Zenon, <1>4 DEF GetT, IfU, Fields1, Fields3
  <2> HIDE DEF d1, d2, d3, d4, fields
  <2>2. GetT(f.type, u) = Fields4(d1, d2, d3, d4)
    BY <1>0, <2>1, Grown4
  <2>3. WellTyped(f, Fields4(d1, d2, d3, d4))
    BY <1>1, Encoding4
  <2> QED BY <1>2, <1>3, <2>2, <2>3 DEF MsgOk, fields
<1>5. CASE ~ u
  <2>1. GetT(f.type, u) = Fields3(d1, d2, d3) \o <<>>
    BY Zenon, <1>5 DEF GetT, IfU, Fields3
  <2> HIDE DEF d1, d2, d3, d4, fields
  <2>2. GetT(f.type, u) = Fields3(d1, d2, d3)
    BY <1>0, <2>1, Grown3
  <2>3. WellTyped(f, Fields3(d1, d2, d3))
    BY <1>1, Encoding3
  <2> QED BY <1>2, <1>3, <2>2, <2>3 DEF MsgOk, fields
<1> QED BY <1>4, <1>5

LEMMA OkTattach ==
    ASSUME NEW f, NEW u \in BOOLEAN, f.type = "Tattach", f.tag \in Numbers(BIT16SZ),
           f.fid \in Numbers(BIT32SZ),
           f.afid \in Numbers(BIT32SZ),
           f.uname \in Names,
           f.aname \in Names,
           f.unamenum \in Numbers(BIT32SZ)
    PROVE  MsgOk(f, u)
<1> DEFINE d1 == <<"fid", "u32">>
           d2 == <<"afid", "u32">>
           d3 == <<"uname", "str">>
           d4 == <<"aname", "str">>
           d5 == <<"unamenum", "u32">>
           fields == MsgFields(f.type, u)
<1>0. d1 \in FieldType /\ d2 \in FieldType /\ d3 \in FieldType /\ d4 \in FieldType /\ d5 \in FieldType
  <2>1. "fid" \in FieldNames /\ "afid" \in FieldNames /\ "uname" \in FieldNames /\ "aname" \in FieldNames /\ "unamenum" \in FieldNames
    BY DEF FieldNames
  <2> QED BY Zenon, <2>1, FieldTypes
<1>1. FieldOk(f, d1) /\ FieldOk(f, d2) /\ FieldOk(f, d3) /\ FieldOk(f, d4) /\ FieldOk(f, d5)
  BY <1>0, MeantParts, MeantCounts DEF FieldOk
<1>2. f.type \in Ts
  BY DEF Ts
<1>3. fields = GetT(f.type, u)
  <2>1. IsT(f.type)
    BY <1>2, RequestsAre DEF Ts
  <2> QED BY <2>1 DEF MsgFields
<1>4. CASE u
  <2>1. GetT(f.type, u) = Fields4(d1, d2, d3, d4) \o Fields1(d5)
    BY Zenon, <1>4 DEF GetT, IfU, Fields1, Fields4
  <2> HIDE DEF d1, d2, d3, d4, d5, fields
  <2>2. GetT(f.type, u) = Fields5(d1, d2, d3, d4, d5)
    BY <1>0, <2>1, Grown5
  <2>3. WellTyped(f, Fields5(d1, d2, d3, d4, d5))
    BY <1>1, Encoding5
  <2> QED BY <1>2, <1>3, <2>2, <2>3 DEF MsgOk, fields
<1>5. CASE ~ u
  <2>1. GetT(f.type, u) = Fields4(d1, d2, d3, d4) \o <<>>
    BY Zenon, <1>5 DEF GetT, IfU, Fields4
  <2> HIDE DEF d1, d2, d3, d4, d5, fields
  <2>2. GetT(f.type, u) = Fields4(d1, d2, d3, d4)
    BY <1>0, <2>1, Grown4
  <2>3. WellTyped(f, Fields4(d1, d2, d3, d4))
    BY <1>1, Encoding4
  <2> QED BY <1>2, <1>3, <2>2, <2>3 DEF MsgOk, fields
<1> QED BY <1>4, <1>5

LEMMA OkTwalk ==
    ASSUME NEW f, NEW u \in BOOLEAN, f.type = "Twalk", f.tag \in Numbers(BIT16SZ),
           f.fid \in Numbers(BIT32SZ),
           f.newfid \in Numbers(BIT32SZ),
           f.wname \in Lists(Names)
    PROVE  MsgOk(f, u)
<1> DEFINE d1 == <<"fid", "u32">>
           d2 == <<"newfid", "u32">>
           d3 == <<"wname", "names">>
           fields == MsgFields(f.type, u)
<1>0. d1 \in FieldType /\ d2 \in FieldType /\ d3 \in FieldType
  <2>1. "fid" \in FieldNames /\ "newfid" \in FieldNames /\ "wname" \in FieldNames
    BY DEF FieldNames
  <2> QED BY Zenon, <2>1, FieldTypes
<1>1. FieldOk(f, d1) /\ FieldOk(f, d2) /\ FieldOk(f, d3)
  BY <1>0, MeantParts, MeantCounts DEF FieldOk
<1>2. f.type \in Ts
  BY DEF Ts
<1>3. fields = GetT(f.type, u)
  <2>1. IsT(f.type)
    BY <1>2, RequestsAre DEF Ts
  <2> QED BY <2>1 DEF MsgFields
<1>4. GetT(f.type, u) = Fields3(d1, d2, d3)
  BY Zenon DEF GetT, Fields3
<1>5. WellTyped(f, fields)
  <2> HIDE DEF d1, d2, d3
  <2>1. WellTyped(f, Fields3(d1, d2, d3))
    BY <1>1, Encoding3
  <2> QED BY <1>3, <1>4, <2>1
<1> QED BY <1>2, <1>5 DEF MsgOk, fields

LEMMA OkTopen ==
    ASSUME NEW f, NEW u \in BOOLEAN, f.type = "Topen", f.tag \in Numbers(BIT16SZ),
           f.fid \in Numbers(BIT32SZ),
           f.mode \in Numbers(BIT8SZ)
    PROVE  MsgOk(f, u)
<1> DEFINE d1 == <<"fid", "u32">>
           d2 == <<"mode", "u8">>
           fields == MsgFields(f.type, u)
<1>0. d1 \in FieldType /\ d2 \in FieldType
  <2>1. "fid" \in FieldNames /\ "mode" \in FieldNames
    BY DEF FieldNames
  <2> QED BY Zenon, <2>1, FieldTypes
<1>1. FieldOk(f, d1) /\ FieldOk(f, d2)
  BY <1>0, MeantParts, MeantCounts DEF FieldOk
<1>2. f.type \in Ts
  BY DEF Ts
<1>3. fields = GetT(f.type, u)
  <2>1. IsT(f.type)
    BY <1>2, RequestsAre DEF Ts
  <2> QED BY <2>1 DEF MsgFields
<1>4. GetT(f.type, u) = Fields2(d1, d2)
  BY Zenon DEF GetT, Fields2
<1>5. WellTyped(f, fields)
  <2> HIDE DEF d1, d2
  <2>1. WellTyped(f, Fields2(d1, d2))
    BY <1>1, Encoding2
  <2> QED BY <1>3, <1>4, <2>1
<1> QED BY <1>2, <1>5 DEF MsgOk, fields

LEMMA OkTcreate ==
    ASSUME NEW f, NEW u \in BOOLEAN, f.type = "Tcreate", f.tag \in Numbers(BIT16SZ),
           f.fid \in Numbers(BIT32SZ),
           f.name \in Names,
           f.perm \in Numbers(BIT32SZ),
           f.mode \in Numbers(BIT8SZ),
           f.ext \in Names
    PROVE  MsgOk(f, u)
<1> DEFINE d1 == <<"fid", "u32">>
           d2 == <<"name", "str">>
           d3 == <<"perm", "u32">>
           d4 == <<"mode", "u8">>
           d5 == <<"ext", "str">>
           fields == MsgFields(f.type, u)
<1>0. d1 \in FieldType /\ d2 \in FieldType /\ d3 \in FieldType /\ d4 \in FieldType /\ d5 \in FieldType
  <2>1. "fid" \in FieldNames /\ "name" \in FieldNames /\ "perm" \in FieldNames /\ "mode" \in FieldNames /\ "ext" \in FieldNames
    BY DEF FieldNames
  <2> QED BY Zenon, <2>1, FieldTypes
<1>1. FieldOk(f, d1) /\ FieldOk(f, d2) /\ FieldOk(f, d3) /\ FieldOk(f, d4) /\ FieldOk(f, d5)
  BY <1>0, MeantParts, MeantCounts DEF FieldOk
<1>2. f.type \in Ts
  BY DEF Ts
<1>3. fields = GetT(f.type, u)
  <2>1. IsT(f.type)
    BY <1>2, RequestsAre DEF Ts
  <2> QED BY <2>1 DEF MsgFields
<1>4. CASE u
  <2>1. GetT(f.type, u) = Fields4(d1, d2, d3, d4) \o Fields1(d5)
    BY Zenon, <1>4 DEF GetT, IfU, Fields1, Fields4
  <2> HIDE DEF d1, d2, d3, d4, d5, fields
  <2>2. GetT(f.type, u) = Fields5(d1, d2, d3, d4, d5)
    BY <1>0, <2>1, Grown5
  <2>3. WellTyped(f, Fields5(d1, d2, d3, d4, d5))
    BY <1>1, Encoding5
  <2> QED BY <1>2, <1>3, <2>2, <2>3 DEF MsgOk, fields
<1>5. CASE ~ u
  <2>1. GetT(f.type, u) = Fields4(d1, d2, d3, d4) \o <<>>
    BY Zenon, <1>5 DEF GetT, IfU, Fields4
  <2> HIDE DEF d1, d2, d3, d4, d5, fields
  <2>2. GetT(f.type, u) = Fields4(d1, d2, d3, d4)
    BY <1>0, <2>1, Grown4
  <2>3. WellTyped(f, Fields4(d1, d2, d3, d4))
    BY <1>1, Encoding4
  <2> QED BY <1>2, <1>3, <2>2, <2>3 DEF MsgOk, fields
<1> QED BY <1>4, <1>5

LEMMA OkTread ==
    ASSUME NEW f, NEW u \in BOOLEAN, f.type = "Tread", f.tag \in Numbers(BIT16SZ),
           f.fid \in Numbers(BIT32SZ),
           f.offset \in [1 .. BIT64SZ -> Numbers(BIT8SZ)],
           f.count \in Numbers(BIT32SZ)
    PROVE  MsgOk(f, u)
<1> DEFINE d1 == <<"fid", "u32">>
           d2 == <<"offset", "u64">>
           d3 == <<"count", "u32">>
           fields == MsgFields(f.type, u)
<1>0. d1 \in FieldType /\ d2 \in FieldType /\ d3 \in FieldType
  <2>1. "fid" \in FieldNames /\ "offset" \in FieldNames /\ "count" \in FieldNames
    BY DEF FieldNames
  <2> QED BY Zenon, <2>1, FieldTypes
<1>1. FieldOk(f, d1) /\ FieldOk(f, d2) /\ FieldOk(f, d3)
  BY <1>0, MeantParts, MeantCounts DEF FieldOk
<1>2. f.type \in Ts
  BY DEF Ts
<1>3. fields = GetT(f.type, u)
  <2>1. IsT(f.type)
    BY <1>2, RequestsAre DEF Ts
  <2> QED BY <2>1 DEF MsgFields
<1>4. GetT(f.type, u) = Fields3(d1, d2, d3)
  BY Zenon DEF GetT, Fields3
<1>5. WellTyped(f, fields)
  <2> HIDE DEF d1, d2, d3
  <2>1. WellTyped(f, Fields3(d1, d2, d3))
    BY <1>1, Encoding3
  <2> QED BY <1>3, <1>4, <2>1
<1> QED BY <1>2, <1>5 DEF MsgOk, fields

LEMMA OkTwrite ==
    ASSUME NEW f, NEW u \in BOOLEAN, f.type = "Twrite", f.tag \in Numbers(BIT16SZ),
           f.fid \in Numbers(BIT32SZ),
           f.offset \in [1 .. BIT64SZ -> Numbers(BIT8SZ)],
           f.data \in Counted(BIT32SZ)
    PROVE  MsgOk(f, u)
<1> DEFINE d1 == <<"fid", "u32">>
           d2 == <<"offset", "u64">>
           d3 == <<"data", "data">>
           fields == MsgFields(f.type, u)
<1>0. d1 \in FieldType /\ d2 \in FieldType /\ d3 \in FieldType
  <2>1. "fid" \in FieldNames /\ "offset" \in FieldNames /\ "data" \in FieldNames
    BY DEF FieldNames
  <2> QED BY Zenon, <2>1, FieldTypes
<1>1. FieldOk(f, d1) /\ FieldOk(f, d2) /\ FieldOk(f, d3)
  BY <1>0, MeantParts, MeantCounts DEF FieldOk
<1>2. f.type \in Ts
  BY DEF Ts
<1>3. fields = GetT(f.type, u)
  <2>1. IsT(f.type)
    BY <1>2, RequestsAre DEF Ts
  <2> QED BY <2>1 DEF MsgFields
<1>4. GetT(f.type, u) = Fields3(d1, d2, d3)
  BY Zenon DEF GetT, Fields3
<1>5. WellTyped(f, fields)
  <2> HIDE DEF d1, d2, d3
  <2>1. WellTyped(f, Fields3(d1, d2, d3))
    BY <1>1, Encoding3
  <2> QED BY <1>3, <1>4, <2>1
<1> QED BY <1>2, <1>5 DEF MsgOk, fields

LEMMA OkTclunk ==
    ASSUME NEW f, NEW u \in BOOLEAN, f.type \in {"Tclunk", "Tremove", "Tstat"}, f.tag \in Numbers(BIT16SZ),
           f.fid \in Numbers(BIT32SZ)
    PROVE  MsgOk(f, u)
<1> DEFINE d1 == <<"fid", "u32">>
           fields == MsgFields(f.type, u)
<1>0. d1 \in FieldType
  <2>1. "fid" \in FieldNames
    BY DEF FieldNames
  <2> QED BY Zenon, <2>1, FieldTypes
<1>1. FieldOk(f, d1)
  BY <1>0, MeantParts, MeantCounts DEF FieldOk
<1>2. f.type \in Ts
  BY DEF Ts
<1>3. fields = GetT(f.type, u)
  <2>1. IsT(f.type)
    BY <1>2, RequestsAre DEF Ts
  <2> QED BY <2>1 DEF MsgFields
<1>4. GetT(f.type, u) = Fields1(d1)
  BY Zenon DEF GetT, Fields1
<1>5. WellTyped(f, fields)
  <2> HIDE DEF d1
  <2>1. WellTyped(f, Fields1(d1))
    BY <1>1, Encoding1
  <2> QED BY <1>3, <1>4, <2>1
<1> QED BY <1>2, <1>5 DEF MsgOk, fields

LEMMA OkTwstat ==
    ASSUME NEW f, NEW u \in BOOLEAN, f.type = "Twstat", f.tag \in Numbers(BIT16SZ),
           f.fid \in Numbers(BIT32SZ),
           f.stat \in Counted(BIT16SZ)
    PROVE  MsgOk(f, u)
<1> DEFINE d1 == <<"fid", "u32">>
           d2 == <<"stat", "stat">>
           fields == MsgFields(f.type, u)
<1>0. d1 \in FieldType /\ d2 \in FieldType
  <2>1. "fid" \in FieldNames /\ "stat" \in FieldNames
    BY DEF FieldNames
  <2> QED BY Zenon, <2>1, FieldTypes
<1>1. FieldOk(f, d1) /\ FieldOk(f, d2)
  BY <1>0, MeantParts, MeantCounts DEF FieldOk
<1>2. f.type \in Ts
  BY DEF Ts
<1>3. fields = GetT(f.type, u)
  <2>1. IsT(f.type)
    BY <1>2, RequestsAre DEF Ts
  <2> QED BY <2>1 DEF MsgFields
<1>4. GetT(f.type, u) = Fields2(d1, d2)
  BY Zenon DEF GetT, Fields2
<1>5. WellTyped(f, fields)
  <2> HIDE DEF d1, d2
  <2>1. WellTyped(f, Fields2(d1, d2))
    BY <1>1, Encoding2
  <2> QED BY <1>3, <1>4, <2>1
<1> QED BY <1>2, <1>5 DEF MsgOk, fields

LEMMA OkRversion ==
    ASSUME NEW f, NEW u \in BOOLEAN, f.type = "Rversion", f.tag \in Numbers(BIT16SZ),
           f.msize \in Numbers(BIT32SZ),
           f.version \in Names
    PROVE  MsgOk(f, u)
<1> DEFINE d1 == <<"msize", "u32">>
           d2 == <<"version", "str">>
           fields == MsgFields(f.type, u)
<1>0. d1 \in FieldType /\ d2 \in FieldType
  <2>1. "msize" \in FieldNames /\ "version" \in FieldNames
    BY DEF FieldNames
  <2> QED BY Zenon, <2>1, FieldTypes
<1>1. FieldOk(f, d1) /\ FieldOk(f, d2)
  BY <1>0, MeantParts, MeantCounts DEF FieldOk
<1>2. f.type \in Rs
  BY DEF Rs
<1>3. fields = GetR(f.type, u)
  <2>1. ~ IsT(f.type)
    BY <1>2, ResponsesAre DEF Rs
  <2> QED BY <2>1 DEF MsgFields
<1>4. GetR(f.type, u) = Fields2(d1, d2)
  BY Zenon DEF GetR, Fields2
<1>5. WellTyped(f, fields)
  <2> HIDE DEF d1, d2
  <2>1. WellTyped(f, Fields2(d1, d2))
    BY <1>1, Encoding2
  <2> QED BY <1>3, <1>4, <2>1
<1> QED BY <1>2, <1>5 DEF MsgOk, fields

LEMMA OkRerror ==
    ASSUME NEW f, NEW u \in BOOLEAN, f.type = "Rerror", f.tag \in Numbers(BIT16SZ),
           f.ename \in Names,
           f.errnum \in Numbers(BIT32SZ)
    PROVE  MsgOk(f, u)
<1> DEFINE d1 == <<"ename", "str">>
           d2 == <<"errnum", "u32">>
           fields == MsgFields(f.type, u)
<1>0. d1 \in FieldType /\ d2 \in FieldType
  <2>1. "ename" \in FieldNames /\ "errnum" \in FieldNames
    BY DEF FieldNames
  <2> QED BY Zenon, <2>1, FieldTypes
<1>1. FieldOk(f, d1) /\ FieldOk(f, d2)
  BY <1>0, MeantParts, MeantCounts DEF FieldOk
<1>2. f.type \in Rs
  BY DEF Rs
<1>3. fields = GetR(f.type, u)
  <2>1. ~ IsT(f.type)
    BY <1>2, ResponsesAre DEF Rs
  <2> QED BY <2>1 DEF MsgFields
<1>4. CASE u
  <2>1. GetR(f.type, u) = Fields1(d1) \o Fields1(d2)
    BY Zenon, <1>4 DEF GetR, IfU, Fields1
  <2> HIDE DEF d1, d2, fields
  <2>2. GetR(f.type, u) = Fields2(d1, d2)
    BY <1>0, <2>1, Grown2
  <2>3. WellTyped(f, Fields2(d1, d2))
    BY <1>1, Encoding2
  <2> QED BY <1>2, <1>3, <2>2, <2>3 DEF MsgOk, fields
<1>5. CASE ~ u
  <2>1. GetR(f.type, u) = Fields1(d1) \o <<>>
    BY Zenon, <1>5 DEF GetR, IfU, Fields1
  <2> HIDE DEF d1, d2, fields
  <2>2. GetR(f.type, u) = Fields1(d1)
    BY <1>0, <2>1, Grown1
  <2>3. WellTyped(f, Fields1(d1))
    BY <1>1, Encoding1
  <2> QED BY <1>2, <1>3, <2>2, <2>3 DEF MsgOk, fields
<1> QED BY <1>4, <1>5

LEMMA OkRauth ==
    ASSUME NEW f, NEW u \in BOOLEAN, f.type \in {"Rauth", "Rattach"}, f.tag \in Numbers(BIT16SZ),
           f.qid \in QidType
    PROVE  MsgOk(f, u)
<1> DEFINE d1 == <<"qid", "qid">>
           fields == MsgFields(f.type, u)
<1>0. d1 \in FieldType
  <2>1. "qid" \in FieldNames
    BY DEF FieldNames
  <2> QED BY Zenon, <2>1, FieldTypes
<1>1. FieldOk(f, d1)
  BY <1>0, MeantParts, MeantCounts DEF FieldOk
<1>2. f.type \in Rs
  BY DEF Rs
<1>3. fields = GetR(f.type, u)
  <2>1. ~ IsT(f.type)
    BY <1>2, ResponsesAre DEF Rs
  <2> QED BY <2>1 DEF MsgFields
<1>4. GetR(f.type, u) = Fields1(d1)
  BY Zenon DEF GetR, Fields1
<1>5. WellTyped(f, fields)
  <2> HIDE DEF d1
  <2>1. WellTyped(f, Fields1(d1))
    BY <1>1, Encoding1
  <2> QED BY <1>3, <1>4, <2>1
<1> QED BY <1>2, <1>5 DEF MsgOk, fields

LEMMA OkRwalk ==
    ASSUME NEW f, NEW u \in BOOLEAN, f.type = "Rwalk", f.tag \in Numbers(BIT16SZ),
           f.wqid \in Lists(QidType)
    PROVE  MsgOk(f, u)
<1> DEFINE d1 == <<"wqid", "qids">>
           fields == MsgFields(f.type, u)
<1>0. d1 \in FieldType
  <2>1. "wqid" \in FieldNames
    BY DEF FieldNames
  <2> QED BY Zenon, <2>1, FieldTypes
<1>1. FieldOk(f, d1)
  BY <1>0, MeantParts, MeantCounts DEF FieldOk
<1>2. f.type \in Rs
  BY DEF Rs
<1>3. fields = GetR(f.type, u)
  <2>1. ~ IsT(f.type)
    BY <1>2, ResponsesAre DEF Rs
  <2> QED BY <2>1 DEF MsgFields
<1>4. GetR(f.type, u) = Fields1(d1)
  BY Zenon DEF GetR, Fields1
<1>5. WellTyped(f, fields)
  <2> HIDE DEF d1
  <2>1. WellTyped(f, Fields1(d1))
    BY <1>1, Encoding1
  <2> QED BY <1>3, <1>4, <2>1
<1> QED BY <1>2, <1>5 DEF MsgOk, fields

LEMMA OkRopen ==
    ASSUME NEW f, NEW u \in BOOLEAN, f.type \in {"Ropen", "Rcreate"}, f.tag \in Numbers(BIT16SZ),
           f.qid \in QidType,
           f.iounit \in Numbers(BIT32SZ)
    PROVE  MsgOk(f, u)
<1> DEFINE d1 == <<"qid", "qid">>
           d2 == <<"iounit", "u32">>
           fields == MsgFields(f.type, u)
<1>0. d1 \in FieldType /\ d2 \in FieldType
  <2>1. "qid" \in FieldNames /\ "iounit" \in FieldNames
    BY DEF FieldNames
  <2> QED BY Zenon, <2>1, FieldTypes
<1>1. FieldOk(f, d1) /\ FieldOk(f, d2)
  BY <1>0, MeantParts, MeantCounts DEF FieldOk
<1>2. f.type \in Rs
  BY DEF Rs
<1>3. fields = GetR(f.type, u)
  <2>1. ~ IsT(f.type)
    BY <1>2, ResponsesAre DEF Rs
  <2> QED BY <2>1 DEF MsgFields
<1>4. GetR(f.type, u) = Fields2(d1, d2)
  BY Zenon DEF GetR, Fields2
<1>5. WellTyped(f, fields)
  <2> HIDE DEF d1, d2
  <2>1. WellTyped(f, Fields2(d1, d2))
    BY <1>1, Encoding2
  <2> QED BY <1>3, <1>4, <2>1
<1> QED BY <1>2, <1>5 DEF MsgOk, fields

LEMMA OkRread ==
    ASSUME NEW f, NEW u \in BOOLEAN, f.type = "Rread", f.tag \in Numbers(BIT16SZ),
           f.data \in Counted(BIT32SZ)
    PROVE  MsgOk(f, u)
<1> DEFINE d1 == <<"data", "data">>
           fields == MsgFields(f.type, u)
<1>0. d1 \in FieldType
  <2>1. "data" \in FieldNames
    BY DEF FieldNames
  <2> QED BY Zenon, <2>1, FieldTypes
<1>1. FieldOk(f, d1)
  BY <1>0, MeantParts, MeantCounts DEF FieldOk
<1>2. f.type \in Rs
  BY DEF Rs
<1>3. fields = GetR(f.type, u)
  <2>1. ~ IsT(f.type)
    BY <1>2, ResponsesAre DEF Rs
  <2> QED BY <2>1 DEF MsgFields
<1>4. GetR(f.type, u) = Fields1(d1)
  BY Zenon DEF GetR, Fields1
<1>5. WellTyped(f, fields)
  <2> HIDE DEF d1
  <2>1. WellTyped(f, Fields1(d1))
    BY <1>1, Encoding1
  <2> QED BY <1>3, <1>4, <2>1
<1> QED BY <1>2, <1>5 DEF MsgOk, fields

LEMMA OkRwrite ==
    ASSUME NEW f, NEW u \in BOOLEAN, f.type = "Rwrite", f.tag \in Numbers(BIT16SZ),
           f.count \in Numbers(BIT32SZ)
    PROVE  MsgOk(f, u)
<1> DEFINE d1 == <<"count", "u32">>
           fields == MsgFields(f.type, u)
<1>0. d1 \in FieldType
  <2>1. "count" \in FieldNames
    BY DEF FieldNames
  <2> QED BY Zenon, <2>1, FieldTypes
<1>1. FieldOk(f, d1)
  BY <1>0, MeantParts, MeantCounts DEF FieldOk
<1>2. f.type \in Rs
  BY DEF Rs
<1>3. fields = GetR(f.type, u)
  <2>1. ~ IsT(f.type)
    BY <1>2, ResponsesAre DEF Rs
  <2> QED BY <2>1 DEF MsgFields
<1>4. GetR(f.type, u) = Fields1(d1)
  BY Zenon DEF GetR, Fields1
<1>5. WellTyped(f, fields)
  <2> HIDE DEF d1
  <2>1. WellTyped(f, Fields1(d1))
    BY <1>1, Encoding1
  <2> QED BY <1>3, <1>4, <2>1
<1> QED BY <1>2, <1>5 DEF MsgOk, fields

LEMMA OkRstat ==
    ASSUME NEW f, NEW u \in BOOLEAN, f.type = "Rstat", f.tag \in Numbers(BIT16SZ),
           f.stat \in Counted(BIT16SZ)
    PROVE  MsgOk(f, u)
<1> DEFINE d1 == <<"stat", "stat">>
           fields == MsgFields(f.type, u)
<1>0. d1 \in FieldType
  <2>1. "stat" \in FieldNames
    BY DEF FieldNames
  <2> QED BY Zenon, <2>1, FieldTypes
<1>1. FieldOk(f, d1)
  BY <1>0, MeantParts, MeantCounts DEF FieldOk
<1>2. f.type \in Rs
  BY DEF Rs
<1>3. fields = GetR(f.type, u)
  <2>1. ~ IsT(f.type)
    BY <1>2, ResponsesAre DEF Rs
  <2> QED BY <2>1 DEF MsgFields
<1>4. GetR(f.type, u) = Fields1(d1)
  BY Zenon DEF GetR, Fields1
<1>5. WellTyped(f, fields)
  <2> HIDE DEF d1
  <2>1. WellTyped(f, Fields1(d1))
    BY <1>1, Encoding1
  <2> QED BY <1>3, <1>4, <2>1
<1> QED BY <1>2, <1>5 DEF MsgOk, fields

LEMMA OkRflush ==
    ASSUME NEW f, NEW u \in BOOLEAN, f.type \in {"Rflush", "Rclunk", "Rremove", "Rwstat"}, f.tag \in Numbers(BIT16SZ)
    PROVE  MsgOk(f, u)
<1>1. f.type \in Rs
  BY DEF Rs
<1>2. MsgFields(f.type, u) = <<>>
  <2>1. ~ IsT(f.type)
    BY <1>1, ResponsesAre DEF Rs
  <2>2. GetR(f.type, u) = <<>>
    BY Zenon DEF GetR
  <2> QED BY <2>1, <2>2 DEF MsgFields
<1> QED BY <1>1, <1>2, EncodingNone DEF MsgOk

-----------------------------------------------------------------------------
(* What is read of a buffer that is cut.                                   *)

Prefix(t, m) == Len(t) <= Len(m) /\ \A i \in 1 .. Len(t) : t[i] = m[i]

(* The position a, in a buffer of n bytes, is the position b in the buffer *)
(* it is cut from, or the reading has stopped.                             *)
Follows(a, b, n) == a = Nil \/ (a = b /\ a \in 0 .. n)

(* The same bytes are read of both.                                        *)
LEMMA SameBytes ==
    ASSUME NEW m \in Buffers, NEW t \in Buffers, Prefix(t, m), NEW p \in Nat, NEW w \in Nat, Fits(t, p, w)
    PROVE  Fits(m, p, w) /\ Bytes(t, p, w) = Bytes(m, p, w) /\ p + w \in 0 .. Len(t)
<1>1. Len(t) \in Nat /\ Len(m) \in Nat
  BY BufferIs
<1>2. Fits(m, p, w) /\ p + w \in 0 .. Len(t)
  BY <1>1 DEF Fits, Prefix
<1> DEFINE a == Bytes(t, p, w)
           b == Bytes(m, p, w)
<1>3. a \in Buffers /\ Len(a) = w /\ \A i \in 1 .. w : a[i] = t[p + i]
  BY BytesBuffer
<1>4. b \in Buffers /\ Len(b) = w /\ \A i \in 1 .. w : b[i] = m[p + i]
  BY <1>2, BytesBuffer
<1>5. \A i \in 1 .. w : t[p + i] = m[p + i]
  BY <1>1 DEF Fits, Prefix
<1> HIDE DEF a, b
<1>6. a = b
  BY <1>3, <1>4, <1>5, SeqEqual DEF Buffers
<1> QED BY <1>2, <1>6 DEF a, b

LEMMA CountFollows ==
    ASSUME NEW m \in Buffers, NEW t \in Buffers, Prefix(t, m), NEW p \in Nat, NEW w \in Nat
    PROVE  Follows(Gcounted(t, p, w).p, Gcounted(m, p, w).p, Len(t))
<1> DEFINE n == GBIT(Bytes(t, p, w))
<1>1. CASE ~ Fits(t, p, w)
  BY <1>1 DEF Gcounted, NotGot, Got, Follows
<1>2. CASE Fits(t, p, w)
  <2>1. Fits(m, p, w) /\ GBIT(Bytes(m, p, w)) = n
    BY <1>2, SameBytes
  <2>2. n \in Nat /\ p + w \in Nat
    <3>1. Bytes(t, p, w) \in Buffers /\ Len(Bytes(t, p, w)) = w
      BY <1>2, BytesBuffer
    <3>2. n \in Numbers(w)
      BY <3>1, GBITNumber
    <3> QED BY <3>2, NumbersAre
  <2> HIDE DEF n
  <2>3. CASE ~ Fits(t, p + w, n)
    <3>1. Gcounted(t, p, w) = NotGot
      BY <1>2, <2>3 DEF Gcounted, n
    <3> QED BY <3>1 DEF NotGot, Got, Follows
  <2>4. CASE Fits(t, p + w, n)
    <3>1. Fits(m, p + w, n) /\ p + w + n \in 0 .. Len(t)
      BY <2>2, <2>4, SameBytes
    <3>2. Gcounted(t, p, w) = Got(p + w + n, Bytes(t, p + w, n))
      BY <1>2, <2>4 DEF Gcounted, n
    <3>3. Gcounted(m, p, w) = Got(p + w + n, Bytes(m, p + w, n))
      BY <2>1, <3>1 DEF Gcounted
    <3> QED BY <3>1, <3>2, <3>3 DEF Got, Follows
  <2> QED BY <2>3, <2>4
<1> QED BY <1>1, <1>2

LEMMA StringEnds == \A m, p : Gstring(m, p).p = Gcounted(m, p, BIT16SZ).p
BY DEF Gstring, Gcounted, NotGot, Got

LEMMA ElementFollows ==
    ASSUME NEW m \in Buffers, NEW t \in Buffers, Prefix(t, m), NEW p \in Nat, NEW kind \in {"str", "qid"}
    PROVE  Follows(Get(t, p, kind).p, Get(m, p, kind).p, Len(t))
<1>0. p # Nil /\ BIT16SZ \in Nat /\ QIDSZ \in Nat
  BY DEF Nil, BIT16SZ, QIDSZ, BIT8SZ, BIT32SZ, BIT64SZ
<1>1. CASE kind = "str"
  <2>1. Get(t, p, kind) = Gstring(t, p) /\ Get(m, p, kind) = Gstring(m, p)
    BY <1>0, <1>1 DEF Get
  <2> QED BY <1>0, <2>1, StringEnds, CountFollows
<1>2. CASE kind = "qid"
  <2>1. Get(t, p, kind) = Gqid(t, p) /\ Get(m, p, kind) = Gqid(m, p)
    BY <1>0, <1>2 DEF Get
  <2>2. CASE ~ Fits(t, p, QIDSZ)
    BY <2>1, <2>2 DEF Gqid, NotGot, Got, Follows
  <2>3. CASE Fits(t, p, QIDSZ)
    <3>1. Fits(m, p, QIDSZ) /\ p + QIDSZ \in 0 .. Len(t)
      BY <1>0, <2>3, SameBytes
    <3>2. Gqid(t, p).p = p + QIDSZ /\ Gqid(m, p).p = p + QIDSZ
      BY <2>3, <3>1 DEF Gqid, Got
    <3> QED BY <2>1, <3>1, <3>2 DEF Follows
  <2> QED BY <2>2, <2>3
<1> QED BY <1>1, <1>2

LEMMA ListFollows ==
    ASSUME NEW m \in Buffers, NEW t \in Buffers, Prefix(t, m), NEW p \in Nat, NEW kind \in {"str", "qid"},
           NEW lt, ListIs(lt, t, p, kind), NEW lm, ListIs(lm, m, p, kind)
    PROVE  Follows(GlistOf(t, p, lt).p, GlistOf(m, p, lm).p, Len(t))
<1> DEFINE n == GBIT(Bytes(t, p, BIT16SZ))
           N == MAXWELEM
<1>0. BIT16SZ \in Nat /\ N \in Nat
  BY CodecAssumption DEF BIT16SZ
<1>1. CASE ~ Fits(t, p, BIT16SZ)
  BY <1>1 DEF GlistOf, NotGot, Got, Follows
<1>2. CASE Fits(t, p, BIT16SZ)
  <2>1. Fits(m, p, BIT16SZ) /\ GBIT(Bytes(m, p, BIT16SZ)) = n /\ p + BIT16SZ \in 0 .. Len(t)
    BY <1>0, <1>2, SameBytes
  <2>2. n \in Nat
    <3>1. Bytes(t, p, BIT16SZ) \in Buffers /\ Len(Bytes(t, p, BIT16SZ)) = BIT16SZ
      BY <1>0, <1>2, BytesBuffer
    <3>2. n \in Numbers(BIT16SZ)
      BY <3>1, GBITNumber
    <3> QED BY <1>0, <3>2, NumbersAre
  <2>3. CASE n > N
    BY <1>2, <2>3 DEF GlistOf, NotGot, Got, Follows
  <2>4. CASE ~ (n > N)
    <3> DEFINE T == {i \in Nat : Follows(lt[i].p, lm[i].p, Len(t))}
               b == p + BIT16SZ
    <3>1. /\ lt[0] = Got(b, <<>>) /\ lm[0] = Got(b, <<>>)
          /\ \A i \in 1 .. N : lt[i] = ListStep(t, lt[i - 1], kind) /\ lm[i] = ListStep(m, lm[i - 1], kind)
      BY <1>0 DEF ListIs, ListFrom
    <3>2. 0 \in T
      BY <2>1, <3>1 DEF Got, Follows
    <3>3. ASSUME NEW i \in 0 .. N - 1, i \in T PROVE i + 1 \in T
      <4> DEFINE g == lt[i]
                 h == lm[i]
      <4>1. i + 1 \in 1 .. N /\ (i + 1) - 1 = i /\ i + 1 \in Nat
        BY <1>0
      <4>2. lt[i + 1] = ListStep(t, g, kind) /\ lm[i + 1] = ListStep(m, h, kind)
        BY <3>1, <4>1
      <4>3. Follows(g.p, h.p, Len(t))
        BY <3>3
      <4> HIDE DEF g, h
      <4>4. CASE g.p = Nil
        BY <4>1, <4>2, <4>4 DEF ListStep, Follows
      <4>5. CASE g.p # Nil
        <5>1. g.p = h.p /\ g.p \in Nat /\ h.p # Nil
          BY <4>3, <4>5 DEF Follows
        <5> DEFINE q == g.p
        <5>2. lt[i + 1].p = Get(t, q, kind).p /\ lm[i + 1].p = Get(m, q, kind).p
          BY <4>2, <5>1 DEF ListStep, Got
        <5> HIDE DEF q
        <5>3. q \in Nat
          BY <5>1 DEF q
        <5>4. Follows(Get(t, q, kind).p, Get(m, q, kind).p, Len(t))
          BY <5>3, ElementFollows
        <5> QED BY <4>1, <5>2, <5>4
      <4> QED BY <4>4, <4>5
    <3>4. 0 .. N \subseteq T
      <4> HIDE DEF T, N
      <4> QED BY <1>0, <3>2, <3>3, BoundedInduction
    <3>5. Follows(lt[n].p, lm[n].p, Len(t))
      <4>1. n \in 0 .. N
        BY <1>0, <2>2, <2>4
      <4> QED BY <3>4, <4>1
    <3>6. GlistOf(t, p, lt) = lt[n] /\ GlistOf(m, p, lm) = lm[n]
      BY <1>2, <2>1, <2>4 DEF GlistOf
    <3> QED BY <3>5, <3>6
  <2> QED BY <2>3, <2>4
<1> QED BY <1>1, <1>2

LEMMA FieldFollows ==
    ASSUME NEW m \in Buffers, NEW t \in Buffers, Prefix(t, m), NEW p \in Nat, NEW kind \in Kinds
    PROVE  Follows(Get(t, p, kind).p, Get(m, p, kind).p, Len(t))
<1>0. p # Nil
  BY DEF Nil
<1>1. CASE kind \in {"str", "qid"}
  BY <1>1, ElementFollows
<1>2. CASE kind = "names"
  <2>1. Get(t, p, kind) = Glist(t, p, Gstring) /\ Get(m, p, kind) = Glist(m, p, Gstring)
    BY <1>0, <1>2 DEF Get
  <2>2. PICK lt : ListIs(lt, t, p, "str") /\ Glist(t, p, Gstring) = GlistOf(t, p, lt)
    BY NamesUnfold
  <2>3. PICK lm : ListIs(lm, m, p, "str") /\ Glist(m, p, Gstring) = GlistOf(m, p, lm)
    BY NamesUnfold
  <2>4. "str" \in {"str", "qid"}
    OBVIOUS
  <2>5. Follows(GlistOf(t, p, lt).p, GlistOf(m, p, lm).p, Len(t))
    BY <2>2, <2>3, <2>4, ListFollows
  <2> QED BY <2>1, <2>2, <2>3, <2>5
<1>3. CASE kind = "qids"
  <2>1. Get(t, p, kind) = Glist(t, p, Gqid) /\ Get(m, p, kind) = Glist(m, p, Gqid)
    BY <1>0, <1>3 DEF Get
  <2>2. PICK lt : ListIs(lt, t, p, "qid") /\ Glist(t, p, Gqid) = GlistOf(t, p, lt)
    BY QidsUnfold
  <2>3. PICK lm : ListIs(lm, m, p, "qid") /\ Glist(m, p, Gqid) = GlistOf(m, p, lm)
    BY QidsUnfold
  <2>4. "qid" \in {"str", "qid"}
    OBVIOUS
  <2>5. Follows(GlistOf(t, p, lt).p, GlistOf(m, p, lm).p, Len(t))
    BY <2>2, <2>3, <2>4, ListFollows
  <2> QED BY <2>1, <2>2, <2>3, <2>5
<1>4. CASE kind = "data"
  <2>1. Get(t, p, kind) = Gcounted(t, p, BIT32SZ) /\ Get(m, p, kind) = Gcounted(m, p, BIT32SZ)
    BY <1>0, <1>4 DEF Get
  <2> QED BY <2>1, CountFollows DEF BIT32SZ
<1>5. CASE kind = "stat"
  <2>1. Get(t, p, kind) = Gcounted(t, p, BIT16SZ) /\ Get(m, p, kind) = Gcounted(m, p, BIT16SZ)
    BY <1>0, <1>5 DEF Get
  <2> QED BY <2>1, CountFollows DEF BIT16SZ
<1>6. CASE kind \in {"u8", "u16", "u32", "u64"}
  <2> DEFINE w == Width[kind]
  <2>1. w \in Nat
    BY <1>6 DEF Width, BIT8SZ, BIT16SZ, BIT32SZ, BIT64SZ
  <2>2. \A x : Get(x, p, kind).p = IF ~ Fits(x, p, w) THEN Nil ELSE p + Len(Bytes(x, p, w))
    BY <1>0, <1>6 DEF Get, NotGot, Got
  <2> HIDE DEF w
  <2>3. CASE ~ Fits(t, p, w)
    BY <2>2, <2>3 DEF Follows
  <2>4. CASE Fits(t, p, w)
    <3>1. Fits(m, p, w) /\ p + w \in 0 .. Len(t) /\ Bytes(t, p, w) = Bytes(m, p, w)
      BY <2>1, <2>4, SameBytes
    <3>2. Len(Bytes(t, p, w)) = w
      BY <2>1, <2>4, BytesBuffer
    <3>3. Get(t, p, kind).p = p + w /\ Get(m, p, kind).p = p + w
      BY <2>2, <2>4, <3>1, <3>2
    <3> QED BY <3>1, <3>3 DEF Follows
  <2> QED BY <2>3, <2>4
<1> QED BY <1>1, <1>2, <1>3, <1>4, <1>5, <1>6 DEF Kinds

LEMMA StepEnds == \A m, g, d : GetStep(m, g, d).p = Get(m, g.p, d[2]).p
BY DEF GetStep, Got

(* However far a buffer is cut, the fields that are still read end where   *)
(* they did; so fields that reach beyond it are refused.                   *)
LEMMA AllFollow ==
    ASSUME NEW m \in Buffers, NEW t \in Buffers, Prefix(t, m), NEW p \in 0 .. Len(t),
           NEW fields \in Seq(FieldType)
    PROVE  Follows(GetAll(t, p, fields).p, GetAll(m, p, fields).p, Len(t))
<1> DEFINE n == Len(fields)
<1>1. n \in Nat /\ \A i \in 1 .. n : fields[i] \in FieldType
  BY LenProperties, ElementOfSeq
<1>2. PICK ut : GetsFrom(ut, n, t, p, fields) /\ GetAll(t, p, fields) = ut[n]
  BY <1>1, GetAllUnfold
<1>3. PICK um : GetsFrom(um, n, m, p, fields) /\ GetAll(m, p, fields) = um[n]
  BY <1>1, GetAllUnfold
<1> HIDE DEF n
<1>4. /\ ut[0] = Got(p, <<>>) /\ um[0] = Got(p, <<>>)
      /\ \A i \in 1 .. n : ut[i] = GetStep(t, ut[i - 1], fields[i]) /\ um[i] = GetStep(m, um[i - 1], fields[i])
  BY <1>1, <1>2, <1>3 DEF GetsFrom
<1> DEFINE T == {i \in Nat : Follows(ut[i].p, um[i].p, Len(t))}
<1>5. 0 \in T
  BY <1>4 DEF Got, Follows
<1>6. ASSUME NEW i \in 0 .. n - 1, i \in T PROVE i + 1 \in T
  <2> DEFINE a == ut[i].p
             b == um[i].p
             kind == fields[i + 1][2]
  <2>1. i + 1 \in 1 .. n /\ (i + 1) - 1 = i /\ i + 1 \in Nat
    BY <1>1
  <2>2. kind \in Kinds
    BY <1>1, <2>1 DEF FieldType
  <2>3. ut[i + 1].p = Get(t, a, kind).p /\ um[i + 1].p = Get(m, b, kind).p
    <3>1. ut[i + 1] = GetStep(t, ut[i], fields[i + 1]) /\ um[i + 1] = GetStep(m, um[i], fields[i + 1])
      BY <1>4, <2>1
    <3> QED BY <3>1, StepEnds
  <2>4. Follows(a, b, Len(t))
    BY <1>6
  <2> HIDE DEF a, b, kind
  <2>5. CASE a = Nil
    <3>1. Get(t, a, kind).p = Nil
      BY <2>5 DEF Get, NotGot, Got
    <3> QED BY <2>1, <2>3, <3>1 DEF Follows
  <2>6. CASE a # Nil
    <3>1. a = b /\ a \in Nat
      BY <2>4, <2>6 DEF Follows
    <3>2. Follows(Get(t, a, kind).p, Get(m, a, kind).p, Len(t))
      BY <2>2, <3>1, FieldFollows
    <3> QED BY <2>1, <2>3, <3>1, <3>2
  <2> QED BY <2>5, <2>6
<1>7. 0 .. n \subseteq T
  <2> HIDE DEF T
  <2> QED BY <1>1, <1>5, <1>6, BoundedInduction
<1>8. Follows(ut[n].p, um[n].p, Len(t))
  <2>1. n \in 0 .. n
    BY <1>1
  <2> QED BY <1>7, <2>1
<1> QED BY <1>2, <1>3, <1>8

LEMMA CutRead ==
    ASSUME NEW m \in Buffers, NEW t \in Buffers, Prefix(t, m), NEW p \in 0 .. Len(t),
           NEW f, NEW fields \in Seq(FieldType), WellTyped(f, fields),
           At(m, p, Encoding(f, fields)), Len(t) < p + Len(Encoding(f, fields))
    PROVE  GetAll(t, p, fields).p = Nil
<1> DEFINE e == Encoding(f, fields)
<1>1. GetAll(m, p, fields) = Got(p + Len(e), Taken(f, fields))
  BY AllRead
<1>2. Follows(GetAll(t, p, fields).p, p + Len(e), Len(t))
  <2>1. Follows(GetAll(t, p, fields).p, GetAll(m, p, fields).p, Len(t))
    BY AllFollow
  <2> QED BY <1>1, <2>1 DEF Got
<1>3. Len(e) \in Nat /\ Len(t) \in Nat
  <2>1. e \in Buffers
    BY EncodingIs
  <2> QED BY <2>1, BufferIs
<1>4. Len(t) < p + Len(e)
  OBVIOUS
<1> HIDE DEF e
<1> QED BY <1>2, <1>3, <1>4 DEF Follows

LEMMA PrefixThen ==
    ASSUME NEW h \in Buffers, NEW a \in Buffers, NEW b \in Buffers, Prefix(a, b)
    PROVE  /\ Then(h, a) \in Buffers /\ Then(h, b) \in Buffers /\ Prefix(Then(h, a), Then(h, b))
           /\ Len(Then(h, a)) = Len(h) + Len(a) /\ Len(h) \in Nat /\ Len(a) \in Nat /\ Len(b) \in Nat
<1> DEFINE s == Then(h, a)
           r == Then(h, b)
<1>1. Len(h) \in Nat /\ Len(a) \in Nat /\ Len(b) \in Nat
  BY BufferIs
<1>2. /\ s \in Buffers /\ Len(s) = Len(h) + Len(a)
      /\ \A i \in 1 .. Len(h) : s[i] = h[i]
      /\ \A i \in 1 .. Len(a) : s[Len(h) + i] = a[i]
  BY ConcatBuffers DEF Then
<1>3. /\ r \in Buffers /\ Len(r) = Len(h) + Len(b)
      /\ \A i \in 1 .. Len(h) : r[i] = h[i]
      /\ \A i \in 1 .. Len(b) : r[Len(h) + i] = b[i]
  BY ConcatBuffers DEF Then
<1> HIDE DEF s, r
<1>4. Len(a) <= Len(b) /\ \A i \in 1 .. Len(a) : a[i] = b[i]
  BY DEF Prefix
<1>5. ASSUME NEW i \in 1 .. Len(s) PROVE s[i] = r[i]
  <2>1. CASE i \in 1 .. Len(h)
    BY <1>2, <1>3, <2>1
  <2>2. CASE i \notin 1 .. Len(h)
    <3> DEFINE j == i - Len(h)
    <3>1. j \in 1 .. Len(a) /\ i = Len(h) + j
      BY <1>1, <1>2, <2>2
    <3>2. j \in 1 .. Len(b)
      BY <1>1, <1>4, <3>1
    <3> HIDE DEF j
    <3>3. s[Len(h) + j] = a[j] /\ r[Len(h) + j] = b[j] /\ a[j] = b[j]
      BY <1>2, <1>3, <1>4, <3>1, <3>2
    <3> QED BY <3>1, <3>3
  <2> QED BY <2>1, <2>2
<1>6. Prefix(s, r)
  BY <1>1, <1>2, <1>3, <1>4, <1>5 DEF Prefix
<1> QED BY <1>1, <1>2, <1>3, <1>6 DEF s, r

(* What convM2S makes of a message with the size z in its header and c     *)
(* behind it.                                                              *)
Wire(f, z, c) == Then(MsgHeader(f, z), c)
TypeTag(f) == [type |-> f.type, tag |-> f.tag]

LEMMA Converted ==
    ASSUME NEW dotu \in BOOLEAN, NEW f, f.type \in Ts \cup Rs, f.tag \in Numbers(BIT16SZ),
           NEW z \in Numbers(BIT32SZ), NEW c \in Buffers
    PROVE  /\ Wire(f, z, c) \in Buffers /\ Len(Wire(f, z, c)) = HDRSZ + Len(c)
           /\ At(Wire(f, z, c), HDRSZ, c)
           /\ ConvM2S(Wire(f, z, c), dotu) =
                  IF z \notin HDRSZ .. HDRSZ + Len(c) \/ GetAll(Wire(f, z, c), HDRSZ, MsgFields(f.type, dotu)).p # z
                  THEN Refused
                  ELSE Decoded(z, Joined(TypeTag(f), GetAll(Wire(f, z, c), HDRSZ, MsgFields(f.type, dotu)).v))
<1> DEFINE m == Wire(f, z, c)
           h == MsgHeader(f, z)
           g == GetAll(m, HDRSZ, MsgFields(f.type, dotu))
           t == f.type
           i == Number(t) - 99
<1>0. z \in Nat /\ HDRSZ \in Nat /\ Len(c) \in Nat
  BY NumbersAre, BitsAre, BufferIs
<1>1. h \in Buffers /\ Length(h) = HDRSZ
  BY <1>0, HeaderParts
<1>2. m \in Buffers /\ Len(m) = HDRSZ + Len(c)
  <2>1. m = Then(h, c)
    BY DEF Wire
  <2> HIDE DEF h, m
  <2> QED BY <1>1, <2>1, ThenBuffer DEF Length
<1>3. /\ GBIT(Bytes(m, 0, BIT32SZ)) = z
      /\ GBIT(Bytes(m, BIT32SZ, BIT8SZ)) = Number(t)
      /\ GBIT(Bytes(m, 5, 2)) = f.tag
      /\ At(m, HDRSZ, c)
  <2>1. m = Then(MsgHeader(f, z), c)
    BY DEF Wire
  <2> HIDE DEF m
  <2> QED BY <1>2, <2>1, HeaderRead
<1>4. i \in DOMAIN MsgTypes /\ MsgTypes[i] = t /\ t # "Terror"
  BY NumberOk
<1>5. GetAll(m, HDRSZ, IF IsT(t) THEN GetT(t, dotu) ELSE GetR(t, dotu)) = g
  BY DEF MsgFields
<1>6. ~ (Len(m) < HDRSZ)
  BY <1>0, <1>2
<1>7. ConvM2S(m, dotu) = IF z \notin HDRSZ .. Len(m) THEN Refused
                         ELSE IF g.p # z THEN Refused ELSE Decoded(z, Joined([type |-> t, tag |-> f.tag], g.v))
  <2> HIDE DEF m, g
  <2> QED BY <1>3, <1>4, <1>5, <1>6 DEF ConvM2S, Ended
<1>8. Joined([type |-> t, tag |-> f.tag], g.v) = Joined(TypeTag(f), g.v)
  BY DEF TypeTag
<1> HIDE DEF m, g
<1>9. ConvM2S(m, dotu) = IF z \notin HDRSZ .. HDRSZ + Len(c) \/ g.p # z THEN Refused ELSE Decoded(z, Joined(TypeTag(f), g.v))
  BY Zenon, <1>2, <1>7, <1>8
<1> QED BY <1>2, <1>3, <1>9 DEF m, g

(* convM2S refuses a message of which the end is lost, wherever it was cut *)
(* and whatever its size field says: no read passes the end of the buffer. *)
THEOREM CutMessage ==
    ASSUME NEW dotu \in BOOLEAN, NEW f, MsgOk(f, dotu), NEW z \in Numbers(BIT32SZ),
           NEW c \in Buffers, Prefix(c, MsgBody(f, dotu)), Len(c) < Len(MsgBody(f, dotu))
    PROVE  ConvM2S(Wire(f, z, c), dotu) = Refused
<1> DEFINE body == MsgBody(f, dotu)
           fields == MsgFields(f.type, dotu)
           t == Wire(f, z, c)
           m == Wire(f, z, body)
           g == GetAll(t, HDRSZ, fields)
<1>1. /\ body = Encoding(f, fields) /\ body \in Buffers /\ fields \in Seq(FieldType) /\ WellTyped(f, fields)
  BY MsgParts DEF MsgOk
<1>2. f.type \in Ts \cup Rs /\ f.tag \in Numbers(BIT16SZ) /\ z \in Nat /\ HDRSZ \in Nat
  BY NumbersAre, BitsAre DEF MsgOk
<1>3. t \in Buffers /\ Len(t) = HDRSZ + Len(c) /\ Len(c) \in Nat /\ Len(body) \in Nat
  BY <1>1, <1>2, Converted, BufferIs
<1>4. m \in Buffers /\ At(m, HDRSZ, body)
  <2> HIDE DEF body
  <2> QED BY <1>1, <1>2, Converted
<1>5. Prefix(t, m)
  <2> DEFINE h == MsgHeader(f, z)
  <2>1. h \in Buffers
    BY <1>2, HeaderParts
  <2>2. Prefix(c, body)
    OBVIOUS
  <2> HIDE DEF h, body
  <2>3. Prefix(Then(h, c), Then(h, body))
    BY <1>1, <2>1, <2>2, PrefixThen
  <2> QED BY <2>3 DEF h, Wire
<1>6. Len(t) < HDRSZ + Len(body) /\ HDRSZ \in 0 .. Len(t)
  BY <1>2, <1>3
<1>7. g.p = Nil
  <2>1. At(m, HDRSZ, Encoding(f, fields)) /\ Len(t) < HDRSZ + Len(Encoding(f, fields))
    BY <1>1, <1>4, <1>6
  <2> HIDE DEF t, m, fields
  <2> QED BY <1>1, <1>3, <1>4, <1>5, <1>6, <2>1, CutRead
<1>8. g.p # z
  BY <1>2, <1>7 DEF Nil
<1>9. ConvM2S(t, dotu) = IF z \notin HDRSZ .. HDRSZ + Len(c) \/ g.p # z THEN Refused ELSE Decoded(z, Joined(TypeTag(f), g.v))
  BY <1>2, Converted
<1> HIDE DEF t, g
<1>10. ConvM2S(t, dotu) = Refused
  BY <1>8, <1>9
<1> QED BY <1>10 DEF t

(* convM2S refuses a message whose size field is not its size, with more   *)
(* bytes behind it or without: where the last field ends must be the end.  *)
THEOREM LongMessage ==
    ASSUME NEW dotu \in BOOLEAN, NEW f, MsgOk(f, dotu), NEW z \in Numbers(BIT32SZ),
           NEW c \in Buffers, z # SizeS2M(f, dotu)
    PROVE  ConvM2S(Wire(f, z, Then(MsgBody(f, dotu), c)), dotu) = Refused
<1> DEFINE body == MsgBody(f, dotu)
           fields == MsgFields(f.type, dotu)
           b == Then(body, c)
           t == Wire(f, z, b)
           g == GetAll(t, HDRSZ, fields)
<1>1. /\ body = Encoding(f, fields) /\ body \in Buffers /\ fields \in Seq(FieldType) /\ WellTyped(f, fields)
      /\ SizeS2M(f, dotu) = HDRSZ + Length(body)
  BY MsgParts DEF MsgOk
<1>2. f.type \in Ts \cup Rs /\ f.tag \in Numbers(BIT16SZ) /\ z \in Nat /\ HDRSZ \in Nat
  BY NumbersAre, BitsAre DEF MsgOk
<1>3. b \in Buffers
  <2> HIDE DEF body
  <2> QED BY <1>1, ThenBuffer
<1>4. t \in Buffers /\ At(t, HDRSZ, b)
  <2> HIDE DEF b
  <2> QED BY <1>2, <1>3, Converted
<1>5. At(t, HDRSZ, body)
  <2> HIDE DEF body, t
  <2>1. At(t, HDRSZ, body \o c) /\ Len(t) \in Nat
    BY <1>4, BufferIs DEF b, Then
  <2> QED BY <1>1, <1>2, <2>1, AtConcat
<1>6. g.p = SizeS2M(f, dotu)
  <2>1. At(t, HDRSZ, Encoding(f, fields))
    BY <1>1, <1>5
  <2>2. g = Got(HDRSZ + Len(Encoding(f, fields)), Taken(f, fields))
    <3> HIDE DEF t, fields
    <3> QED BY <1>1, <1>2, <1>4, <2>1, AllRead
  <2>3. HDRSZ + Len(Encoding(f, fields)) = SizeS2M(f, dotu)
    BY <1>1 DEF Length
  <2> HIDE DEF g, fields
  <2> QED BY <2>2, <2>3 DEF Got
<1>7. ConvM2S(t, dotu) = IF z \notin HDRSZ .. HDRSZ + Len(b) \/ g.p # z THEN Refused ELSE Decoded(z, Joined(TypeTag(f), g.v))
  <2> HIDE DEF b
  <2> QED BY <1>2, <1>3, Converted
<1> HIDE DEF t, g
<1>8. ConvM2S(t, dotu) = Refused
  BY <1>6, <1>7
<1> QED BY <1>8 DEF t

(* The text of an error and, in 9P2000.u, its number.                      *)
LEMMA ErrorBody ==
    ASSUME NEW f, f.type = "Rerror", f.ename \in Names
    PROVE  /\ MsgBody(f, FALSE) = Pstring(f.ename)
           /\ MsgBody(f, TRUE) = Then(Pstring(f.ename), U32(f.errnum))
<1>1. ~ IsT(f.type)
  BY ResponsesAre
<1>2. \A u : MsgBody(f, u) = Pstring(f.ename) \o IfU(u, U32(f.errnum))
  BY Zenon, <1>1 DEF MsgBody, PutR
<1>3. IfU(TRUE, U32(f.errnum)) = U32(f.errnum) /\ IfU(FALSE, U32(f.errnum)) = <<>>
  BY Zenon DEF IfU
<1>4. MsgBody(f, TRUE) = Then(Pstring(f.ename), U32(f.errnum))
  BY Zenon, <1>2, <1>3 DEF Then
<1>5. MsgBody(f, FALSE) = Then(Pstring(f.ename), <<>>)
  BY Zenon, <1>2, <1>3 DEF Then
<1>6. Then(Pstring(f.ename), <<>>) = Pstring(f.ename)
  BY StringBuffer, ThenEmpty
<1> QED BY <1>4, <1>5, <1>6

LEMMA PrefixOfThen ==
    ASSUME NEW a \in Buffers, NEW b \in Buffers
    PROVE  Then(a, b) \in Buffers /\ Prefix(a, Then(a, b)) /\ Len(Then(a, b)) = Len(a) + Len(b)
<1>1. Len(a) \in Nat /\ Len(b) \in Nat
  BY BufferIs
<1> DEFINE s == Then(a, b)
<1>2. s \in Buffers /\ Len(s) = Len(a) + Len(b) /\ \A i \in 1 .. Len(a) : s[i] = a[i]
  BY ConcatBuffers DEF Then
<1> HIDE DEF s
<1>3. Prefix(a, s)
  BY <1>1, <1>2 DEF Prefix
<1> QED BY <1>2, <1>3 DEF s

(* An error in the other dialect is one number short, or one too long, and *)
(* is refused, never read with a wrong number.                             *)
THEOREM OtherDialect ==
    ASSUME NEW dotu \in BOOLEAN, NEW other \in BOOLEAN, other # dotu,
           NEW f, f.type = "Rerror", MsgOk(f, TRUE), MsgOk(f, FALSE), f.ename \in Names,
           f.errnum \in Numbers(BIT32SZ), SizeS2M(f, other) \in Numbers(BIT32SZ)
    PROVE  ConvM2S(MsgBytes(f, other), dotu) = Refused
<1> DEFINE e == Pstring(f.ename)
           n == U32(f.errnum)
           z == SizeS2M(f, other)
<1>1. e \in Buffers /\ n \in Buffers /\ Len(n) = 4 /\ Len(e) \in Nat
  BY StringBuffer, PBITBytes, NumbersAre, BufferIs, BitsAre DEF U32
<1>2. MsgBody(f, FALSE) = e /\ MsgBody(f, TRUE) = Then(e, n)
  BY ErrorBody
<1>3. Then(e, n) \in Buffers /\ Prefix(e, Then(e, n)) /\ Len(Then(e, n)) = Len(e) + Len(n)
  <2> HIDE DEF e, n
  <2> QED BY <1>1, PrefixOfThen
<1>4. MsgBytes(f, other) = Wire(f, z, MsgBody(f, other))
  BY DEF MsgBytes, Wire
<1>5. SizeS2M(f, TRUE) = HDRSZ + Len(Then(e, n)) /\ SizeS2M(f, FALSE) = HDRSZ + Len(e)
  BY <1>2, MsgParts DEF Length
<1> HIDE DEF e, n
<1>6. CASE dotu
  <2>1. other = FALSE
    BY <1>6
  <2>2. ConvM2S(Wire(f, z, e), TRUE) = Refused
    <3>1. Prefix(e, MsgBody(f, TRUE)) /\ Len(e) < Len(MsgBody(f, TRUE))
      <4> DEFINE a == Len(e)
                 t == Then(e, n)
                 b == Len(t)
      <4>1. a \in Nat /\ b = a + 4 /\ Prefix(e, t) /\ MsgBody(f, TRUE) = t
        BY <1>1, <1>2, <1>3
      <4> HIDE DEF a, b
      <4>2. a < b
        BY <4>1
      <4> HIDE DEF t
      <4> QED BY <4>1, <4>2 DEF a, b
    <3> HIDE DEF z
    <3>2. z \in Numbers(BIT32SZ)
      BY DEF z
    <3> QED BY <1>1, <3>1, <3>2, CutMessage
  <2> HIDE DEF z
  <2> QED BY <1>2, <1>4, <1>6, <2>1, <2>2
<1>7. CASE ~ dotu
  <2>1. other = TRUE
    BY <1>7
  <2>2. ConvM2S(Wire(f, z, Then(e, n)), FALSE) = Refused
    <3>1. z # SizeS2M(f, FALSE)
      <4> DEFINE a == Len(e)
                 b == Len(Then(e, n))
      <4>1. a \in Nat /\ b = a + 4 /\ HDRSZ \in Nat
        BY <1>1, <1>3, BitsAre
      <4>2. z = HDRSZ + b /\ SizeS2M(f, FALSE) = HDRSZ + a
        BY <1>5, <2>1
      <4> DEFINE h == HDRSZ
                 s == SizeS2M(f, FALSE)
      <4> HIDE DEF a, b, z, h, s
      <4>3. h \in Nat /\ a \in Nat /\ b = a + 4 /\ z = h + b /\ s = h + a
        BY <4>1, <4>2 DEF h, s
      <4>4. z # s
        BY <4>3
      <4> QED BY <4>4 DEF s
    <3> HIDE DEF z
    <3>2. z \in Numbers(BIT32SZ)
      BY DEF z
    <3>3. ConvM2S(Wire(f, z, Then(MsgBody(f, FALSE), n)), FALSE) = Refused
      BY <1>1, <3>1, <3>2, LongMessage
    <3> QED BY <1>2, <3>3
  <2> HIDE DEF z
  <2> QED BY <1>2, <1>4, <1>7, <2>1, <2>2
<1> QED BY <1>6, <1>7
=============================================================================
