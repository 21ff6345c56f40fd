---------------------------- MODULE Wbuf_proofs ----------------------------
(***************************************************************************)
(* Proofs about the write buffer.                                          *)
(*                                                                         *)
(* Every function either fails its assertion or does the same thing: it    *)
(* writes bytes behind those already there, advances ndone over them, and  *)
(* adds them to the checksum if it is to (Written).  The numbers are taken *)
(* to bytes by division by powers of Base, and the lemmas about division   *)
(* say that the two halves of a long have the bytes of the long, and that  *)
(* the bytes of an integer turned round are those in the order of the disk.*)
(* The bytes of all calls are joined by FlattenSeq, a recursive function   *)
(* on the indexes; what is needed of it is how it grows by one sequence    *)
(* and what it is when one sequence is replaced by another as long.        *)
(***************************************************************************)
EXTENDS Wbuf, TLAPS, FiniteSets, SequenceTheorems, WellFoundedInduction

\* The least number principle: the form in which these proofs use induction.
LEMMA LeastNumber ==
    ASSUME NEW T, T \subseteq Nat, T # {}
    PROVE  \E x \in T : \A y \in T : x <= y
  <1> DEFINE R == OpToRel(<, Nat)
  <1>1. IsWellFoundedOn(R, Nat)
    BY NatLessThanWellFounded
  <1>2. \A p : p \in R <=> p \in Nat \X Nat /\ p[1] < p[2]
    BY DEF OpToRel
  <1> HIDE DEF R
  <1>3. PICK x \in T : \A y \in T : ~ (<<y, x>> \in R)
    BY <1>1, WFMin
  <1>4. \A y \in T : ~ (y < x)
    BY <1>2, <1>3
  <1> QED  BY <1>3, <1>4

\* Induction over the natural numbers, of a statement about a set.
LEMMA Induct ==
    ASSUME NEW T, T \subseteq Nat, 0 \in T, \A n \in T : n + 1 \in T
    PROVE  T = Nat
  <1> DEFINE W == Nat \ T
  <1>1. ASSUME W # {} PROVE FALSE
    <2>1. W \subseteq Nat
      OBVIOUS
    <2> HIDE DEF W
    <2>2. PICK x \in W : \A y \in W : x <= y
      BY <1>1, <2>1, LeastNumber
    <2>3. x \in Nat /\ x \notin T
      BY DEF W
    <2>4. x # 0 /\ x - 1 \in Nat
      BY <2>3
    <2>5. CASE x - 1 \in T
      <3>1. (x - 1) + 1 \in T
        BY <2>5
      <3> QED  BY <2>3, <2>4, <3>1
    <2>6. CASE x - 1 \notin T
      <3>1. x - 1 \in W
        BY <2>4, <2>6 DEF W
      <3> QED  BY <2>2, <2>3, <3>1
    <2> QED  BY <2>5, <2>6
  <1> QED  BY <1>1

-----------------------------------------------------------------------------
(* Powers and division                                                     *)

PowersTo(f, m) == f = [n \in 0 .. m |-> IF n = 0 THEN 1 ELSE Base * f[n - 1]]

LEMMA PowersExist ==
    ASSUME NEW m \in Nat
    PROVE  \E f : PowersTo(f, m)
  <1> DEFINE T == {n \in Nat : \E f : PowersTo(f, n)}
  <1>1. 0 \in T
    <2> DEFINE f == [n \in 0 .. 0 |-> 1]
    <2>1. PowersTo(f, 0)
      BY DEF PowersTo
    <2> HIDE DEF f
    <2> QED  BY <2>1
  <1>2. ASSUME NEW n \in T PROVE n + 1 \in T
    <2>1. PICK f : PowersTo(f, n)
      OBVIOUS
    <2> DEFINE g == [k \in 0 .. n + 1 |-> IF k = 0 THEN 1 ELSE Base * f[k - 1]]
    <2>2. \A k \in 0 .. n : g[k] = f[k]
      BY <2>1 DEF PowersTo
    <2>3. \A k \in 1 .. n + 1 : g[k - 1] = f[k - 1]
      <3>1. \A k \in 1 .. n + 1 : k - 1 \in 0 .. n
        OBVIOUS
      <3> HIDE DEF g
      <3> QED  BY <2>2, <3>1
    <2>4. g = [k \in 0 .. n + 1 |-> IF k = 0 THEN 1 ELSE Base * g[k - 1]]
      BY <2>3, SMTT(40)
    <2> HIDE DEF g
    <2>5. PowersTo(g, n + 1)
      BY <2>4 DEF PowersTo
    <2> QED  BY <2>5
  <1> HIDE DEF T
  <1>3. T \subseteq Nat
    BY DEF T
  <1>4. T = Nat
    BY <1>1, <1>2, <1>3, Induct
  <1> QED  BY <1>4 DEF T

LEMMA PowerEquation == PowersTo(Power, 2 * IntBytes)
  <1>1. 2 * IntBytes \in Nat
    BY WbufAssumption
  <1>2. \E f : PowersTo(f, 2 * IntBytes)
    BY <1>1, PowersExist
  <1> QED  BY <1>2 DEF Power, PowersTo

LEMMA PowerStep ==
    /\ Power[0] = 1
    /\ \A n \in 1 .. 2 * IntBytes : Power[n] = Base * Power[n - 1]
  <1>1. IntBytes \in Nat \ {0}
    BY WbufAssumption
  <1> QED  BY <1>1, PowerEquation DEF PowersTo

LEMMA PowerType == \A n \in 0 .. 2 * IntBytes : Power[n] \in Nat \ {0}
  <1> DEFINE T == {n \in Nat : n <= 2 * IntBytes => Power[n] \in Nat \ {0}}
  <1>0. IntBytes \in Nat \ {0} /\ Base \in Nat \ {0}
    BY WbufAssumption
  <1>1. 0 \in T
    BY PowerStep
  <1>2. ASSUME NEW n \in T PROVE n + 1 \in T
    <2> SUFFICES ASSUME n + 1 <= 2 * IntBytes PROVE Power[n + 1] \in Nat \ {0}
      OBVIOUS
    <2>1. n \in Nat /\ n <= 2 * IntBytes
      BY <1>0
    <2>2. Power[n] \in Nat \ {0}
      BY <2>1
    <2>3. Power[n + 1] = Base * Power[n]
      <3>1. n + 1 \in 1 .. 2 * IntBytes /\ (n + 1) - 1 = n
        BY <1>0, <2>1
      <3> QED  BY <3>1, PowerStep
    <2> QED  BY <1>0, <2>2, <2>3
  <1> HIDE DEF T
  <1>3. T = Nat
    <2>1. T \subseteq Nat
      BY DEF T
    <2> QED  BY <1>1, <1>2, <2>1, Induct
  <1> QED  BY <1>0, <1>3 DEF T

\* Powers multiply as their exponents add.
LEMMA PowerSum ==
    ASSUME NEW m \in Nat, NEW n \in Nat, m + n <= 2 * IntBytes
    PROVE  Power[m + n] = Power[m] * Power[n]
  <1> DEFINE T == {k \in Nat : m + k <= 2 * IntBytes => Power[m + k] = Power[m] * Power[k]}
  <1>0. IntBytes \in Nat \ {0} /\ Base \in Nat \ {0}
    BY WbufAssumption
  <1>1. 0 \in T
    <2>1. m \in 0 .. 2 * IntBytes
      BY <1>0
    <2>2. Power[m] \in Nat
      BY <2>1, PowerType
    <2> QED  BY <2>2, PowerStep
  <1>2. ASSUME NEW k \in T PROVE k + 1 \in T
    <2> SUFFICES ASSUME m + (k + 1) <= 2 * IntBytes
                 PROVE  Power[m + (k + 1)] = Power[m] * Power[k + 1]
      OBVIOUS
    <2>1. k \in Nat /\ m + k <= 2 * IntBytes
      BY <1>0
    <2>2. Power[m + k] = Power[m] * Power[k]
      BY <2>1
    <2>3. Power[m + (k + 1)] = Base * Power[m + k]
      <3>1. m + (k + 1) \in 1 .. 2 * IntBytes /\ (m + (k + 1)) - 1 = m + k
        BY <1>0, <2>1
      <3> QED  BY <3>1, PowerStep
    <2>4. Power[k + 1] = Base * Power[k]
      <3>1. k + 1 \in 1 .. 2 * IntBytes /\ (k + 1) - 1 = k
        BY <1>0, <2>1
      <3> QED  BY <3>1, PowerStep
    <2>5. Power[m] \in Nat /\ Power[k] \in Nat
      <3>1. m \in 0 .. 2 * IntBytes /\ k \in 0 .. 2 * IntBytes
        BY <1>0, <2>1
      <3> QED  BY <3>1, PowerType
    <2>6. \A b, x, y \in Nat : b * (x * y) = x * (b * y)
      OBVIOUS
    <2> QED  BY <1>0, <2>2, <2>3, <2>4, <2>5, <2>6
  <1> HIDE DEF T
  <1>3. T = Nat
    <2>1. T \subseteq Nat
      BY DEF T
    <2> QED  BY <1>1, <1>2, <2>1, Induct
  <1> QED  BY <1>3 DEF T
LEMMA Division ==
    ASSUME NEW a \in Nat, NEW b \in Nat, b > 0
    PROVE  /\ a % b \in 0 .. b - 1 /\ a \div b \in Nat
           /\ a = (a \div b) * b + (a % b)
  <1>1. a % b = a - b * (a \div b)
    BY SMTT(60)
  <1>2. a % b \in 0 .. b - 1 /\ a \div b \in Nat
    BY SMTT(60)
  <1> DEFINE q == a \div b
             r == a % b
  <1> HIDE DEF q, r
  <1>3. r = a - b * q /\ r \in 0 .. b - 1 /\ q \in Nat
    BY <1>1, <1>2 DEF q, r
  <1>4. b * q = q * b
    BY <1>3
  <1>5. a = q * b + r
    BY <1>3, <1>4
  <1> QED  BY <1>2, <1>5 DEF q, r

LEMMA Divided ==
    ASSUME NEW a \in Nat, NEW b \in Nat, b > 0, NEW q \in Nat, NEW r \in Nat, r < b, a = q * b + r
    PROVE  a \div b = q /\ a % b = r
  <1>1. a \div b = q
    BY SMTT(60)
  <1>2. a % b = r
    BY SMTT(60)
  <1> QED  BY <1>1, <1>2

LEMMA Multiple ==
    ASSUME NEW a \in Nat, NEW b \in Nat, b > 0, NEW q \in Nat
    PROVE  (q * b + a) \div b = q + (a \div b) /\ (q * b + a) % b = a % b
  <1> DEFINE d == a \div b
             r == a % b
             c == q * b + a
  <1>1. r \in 0 .. b - 1 /\ d \in Nat /\ a = d * b + r
    BY Division
  <1>2. q + d \in Nat /\ r \in Nat /\ r < b
    BY <1>1
  <1>3. c \in Nat
    OBVIOUS
  <1> HIDE DEF d, r
  <1>4. c = (q + d) * b + r
    BY <1>1
  <1> HIDE DEF c
  <1>5. c \div b = q + d /\ c % b = r
    BY <1>2, <1>3, <1>4, Divided
  <1> QED  BY <1>5 DEF c, d, r

-----------------------------------------------------------------------------
(* The bytes of an integer                                                 *)

LEMMA Constants ==
    /\ Base \in Nat /\ Base > 0 /\ IntBytes \in Nat /\ IntBytes > 0
    /\ \A k \in 1 .. IntBytes :
          /\ Power[k - 1] \in Nat /\ Power[k - 1] > 0
          /\ Power[IntBytes - k] \in Nat /\ Power[IntBytes - k] > 0
    /\ Power[IntBytes] \in Nat /\ Power[IntBytes] > 0
  <1>1. Base \in Nat \ {0, 1} /\ IntBytes \in Nat \ {0}
    BY WbufAssumption
  <1>2. \A k \in 1 .. IntBytes : k - 1 \in 0 .. 2 * IntBytes /\ IntBytes - k \in 0 .. 2 * IntBytes
    BY <1>1
  <1>3. IntBytes \in 0 .. 2 * IntBytes
    BY <1>1
  <1> QED  BY <1>1, <1>2, <1>3, PowerType

LEMMA LowFirstType ==
    ASSUME NEW i \in Nat
    PROVE  LowFirst(i) \in Seq(Byte) /\ Len(LowFirst(i)) = IntBytes
  <1>1. ASSUME NEW k \in 1 .. IntBytes PROVE (i \div Power[k - 1]) % Base \in Byte
    <2>1. Power[k - 1] \in Nat /\ Power[k - 1] > 0
      BY Constants
    <2>2. i \div Power[k - 1] \in Nat
      BY <2>1, Division
    <2> DEFINE d == i \div Power[k - 1]
    <2> HIDE DEF d
    <2>3. d \in Nat
      BY <2>2 DEF d
    <2>4. d % Base \in 0 .. Base - 1
      BY <2>3, Constants, Division
    <2> QED  BY <2>4 DEF d, Byte
  <1>2. LowFirst(i) \in [1 .. IntBytes -> Byte]
    BY <1>1 DEF LowFirst
  <1> QED  BY <1>2, Constants

\* The integer of the disk has its lowest byte first, that of the network its highest.
LEMMA TurnedRound ==
    ASSUME NEW i \in Nat
    PROVE  toku_htod32(i) = LowFirst(i) /\ toku_htonl(i) = Reverse(LowFirst(i))
  <1> DEFINE byte(n) == (i \div Power[n]) % Base
  <1> HIDE DEF byte
  <1>1. HighFirst(i) = [k \in 1 .. IntBytes |-> byte(IntBytes - k)]
    BY DEF HighFirst, byte
  <1>2. LowFirst(i) = [k \in 1 .. IntBytes |-> byte(k - 1)]
    BY DEF LowFirst, byte
  <1>3. Len(HighFirst(i)) = IntBytes /\ Len(LowFirst(i)) = IntBytes
    BY <1>1, <1>2, Constants
  <1>4. Reverse(HighFirst(i)) = LowFirst(i)
    <2>1. \A k \in 1 .. IntBytes : /\ (IntBytes - k) + 1 \in 1 .. IntBytes
                                   /\ IntBytes - ((IntBytes - k) + 1) = k - 1
      BY Constants
    <2>2. \A k \in 1 .. IntBytes : HighFirst(i)[(IntBytes - k) + 1] = byte(k - 1)
      BY <1>1, <2>1
    <2> QED  BY <1>2, <1>3, <2>2 DEF Reverse
  <1>5. HighFirst(i) = Reverse(LowFirst(i))
    <2>1. \A k \in 1 .. IntBytes : /\ (IntBytes - k) + 1 \in 1 .. IntBytes
                                   /\ ((IntBytes - k) + 1) - 1 = IntBytes - k
      BY Constants
    <2>2. \A k \in 1 .. IntBytes : LowFirst(i)[(IntBytes - k) + 1] = byte(IntBytes - k)
      BY <1>2, <2>1
    <2> QED  BY <1>1, <1>3, <2>2 DEF Reverse
  <1> QED  BY <1>4, <1>5 DEF toku_htod32, toku_htonl

\* The low half of a long has the low bytes of the long.
LEMMA LowBytes ==
    ASSUME NEW ull \in Nat
    PROVE  /\ High(ull) \in Nat /\ Low(ull) \in Nat
           /\ LowFirst(Low(ull)) = LowFirst(ull)
  <1> DEFINE N == Power[IntBytes]
             q == ull \div N
             r == ull % N
  <1>1. N \in Nat /\ N > 0
    BY Constants
  <1>2. r \in Nat /\ q \in Nat /\ ull = q * N + r
    <2> HIDE DEF N
    <2>1. r \in 0 .. N - 1 /\ q \in Nat /\ ull = q * N + r
      BY <1>1, Division
    <2> QED  BY <1>1, <2>1
  <1> HIDE DEF N, q, r
  <1>3. ASSUME NEW k \in 1 .. IntBytes
        PROVE  (r \div Power[k - 1]) % Base = (ull \div Power[k - 1]) % Base
    <2> DEFINE p == Power[k - 1]
               R == Power[IntBytes - k]
               d == r \div p
    <2>1. p \in Nat /\ p > 0 /\ R \in Nat
      BY Constants
    <2>2. N = p * (Base * R)
      <3>1. k - 1 \in Nat /\ (IntBytes - k) + 1 \in Nat /\ IntBytes \in Nat
        BY Constants
      <3>2. (k - 1) + ((IntBytes - k) + 1) = IntBytes
        BY <3>1
      <3>3. Power[IntBytes] = Power[k - 1] * Power[(IntBytes - k) + 1]
        <4>1. (k - 1) + ((IntBytes - k) + 1) <= 2 * IntBytes
          BY <3>1
        <4>2. Power[(k - 1) + ((IntBytes - k) + 1)] = Power[k - 1] * Power[(IntBytes - k) + 1]
          BY <3>1, <4>1, PowerSum
        <4> QED  BY <3>2, <4>2
      <3>4. Power[(IntBytes - k) + 1] = Base * Power[IntBytes - k]
        <4>1. (IntBytes - k) + 1 \in 1 .. 2 * IntBytes /\ ((IntBytes - k) + 1) - 1 = IntBytes - k
          BY <3>1
        <4> QED  BY <4>1, PowerStep
      <3> QED  BY <3>3, <3>4 DEF N
    <2> HIDE DEF p, R
    <2> DEFINE m == q * R
    <2>3. m \in Nat
      BY <1>2, <2>1
    <2>4. q * N = (m * Base) * p
      <3>1. \A b, x, y, z \in Nat : x * (y * (b * z)) = ((x * z) * b) * y
        <4> TAKE b, x, y, z \in Nat
        <4>1. y * (b * z) = (b * z) * y /\ b * z \in Nat
          OBVIOUS
        <4>2. x * ((b * z) * y) = (x * (b * z)) * y
          BY <4>1
        <4>3. x * (b * z) = (x * z) * b
          OBVIOUS
        <4> QED  BY <4>1, <4>2, <4>3
      <3> QED  BY <1>2, <2>1, <2>2, <3>1, Constants
    <2>5. m * Base \in Nat
      BY <2>3, Constants
    <2> DEFINE M == m * Base
    <2>6. M \in Nat /\ ull = M * p + r
      BY <1>2, <2>4, <2>5
    <2>7. d \in Nat
      BY <1>2, <2>1, Division
    <2> HIDE DEF M, d, m
    <2>8. (M * p + r) \div p = M + (r \div p)
      BY <1>2, <2>1, <2>6, Multiple
    <2>9. ull \div p = M + d
      BY <2>6, <2>8 DEF d
    <2>10. (m * Base + d) % Base = d % Base
      BY <2>3, <2>7, Constants, Multiple
    <2> QED  BY <2>9, <2>10 DEF M, d, p
  <1>4. LowFirst(r) = LowFirst(ull)
    BY <1>3 DEF LowFirst
  <1> QED  BY <1>2, <1>4 DEF High, Low, N, q, r

-----------------------------------------------------------------------------
(* Sequences joined                                                        *)

JoinedTo(f, ss, i) == IF i = 1 THEN ss[i] ELSE f[i - 1] \o ss[i]
Joins(f, ss, m) == f = [i \in 1 .. m |-> JoinedTo(f, ss, i)]

LEMMA OneMore ==
    ASSUME NEW Q, NEW ss \in Seq(Q), NEW s \in Q
    PROVE  /\ Append(ss, s) \in Seq(Q) /\ Append(ss, s) # << >>
           /\ Len(Append(ss, s)) = Len(ss) + 1 /\ Append(ss, s)[Len(ss) + 1] = s
           /\ \A i \in 1 .. Len(ss) : Append(ss, s)[i] = ss[i]
  OBVIOUS

LEMMA Longer ==
    ASSUME NEW Q, NEW tt \in Seq(Q), NEW n \in Nat, Len(tt) = n + 1
    PROVE  \E uu \in Seq(Q), s \in Q : tt = Append(uu, s) /\ Len(uu) = n
  <1> DEFINE uu == SubSeq(tt, 1, n)
  <1>1. uu \in Seq(Q) /\ Len(uu) = n /\ tt[n + 1] \in Q /\ tt = Append(uu, tt[n + 1])
    OBVIOUS
  <1> HIDE DEF uu
  <1> QED  BY <1>1

LEMMA Empty ==
    ASSUME NEW Q, NEW tt \in Seq(Q), Len(tt) = 0
    PROVE  tt = << >>
  OBVIOUS

LEMMA JoinsExist ==
    ASSUME NEW ss, NEW m \in Nat
    PROVE  \E f : Joins(f, ss, m)
  <1> DEFINE T == {n \in Nat : \E f : Joins(f, ss, n)}
  <1>1. 0 \in T
    <2> DEFINE f == [i \in 1 .. 0 |-> ss[i]]
    <2>1. f = [i \in 1 .. 0 |-> JoinedTo(f, ss, i)]
      OBVIOUS
    <2> HIDE DEF f
    <2>2. Joins(f, ss, 0)
      BY <2>1 DEF Joins
    <2> QED  BY <2>2
  <1>2. ASSUME NEW n \in T PROVE n + 1 \in T
    <2>1. PICK f : Joins(f, ss, n)
      OBVIOUS
    <2> DEFINE g == [i \in 1 .. n + 1 |-> JoinedTo(f, ss, i)]
    <2>2. \A i \in 1 .. n : g[i] = f[i]
      BY <2>1 DEF Joins
    <2>3. \A i \in 2 .. n + 1 : g[i - 1] = f[i - 1]
      <3>1. \A i \in 2 .. n + 1 : i - 1 \in 1 .. n
        OBVIOUS
      <3> HIDE DEF g
      <3> QED  BY <2>2, <3>1
    <2>4. \A i \in 1 .. n + 1 : JoinedTo(g, ss, i) = JoinedTo(f, ss, i)
      <3> HIDE DEF g
      <3>1. \A i \in 1 .. n + 1 : i # 1 => g[i - 1] = f[i - 1]
        <4>1. \A i \in 1 .. n + 1 : i # 1 => i \in 2 .. n + 1
          OBVIOUS
        <4> QED  BY <2>3, <4>1
      <3> QED  BY <3>1, Zenon DEF JoinedTo
    <2>5. g = [i \in 1 .. n + 1 |-> JoinedTo(g, ss, i)]
      BY <2>4
    <2> HIDE DEF g
    <2>6. Joins(g, ss, n + 1)
      BY <2>5 DEF Joins
    <2> QED  BY <2>6
  <1> HIDE DEF T
  <1>3. T = Nat
    <2>1. T \subseteq Nat
      BY DEF T
    <2> QED  BY <1>1, <1>2, <2>1, Induct
  <1> QED  BY <1>3 DEF T

\* Two such functions agree, also on sequences that agree that far.
LEMMA JoinsAgree ==
    ASSUME NEW ss, NEW tt, NEW m \in Nat, NEW n \in Nat, NEW f, NEW g,
           Joins(f, ss, m), Joins(g, tt, n), m <= n, \A i \in 1 .. m : ss[i] = tt[i]
    PROVE  \A i \in 1 .. m : f[i] = g[i]
  <1> DEFINE T == {k \in Nat : k + 1 <= m => f[k + 1] = g[k + 1]}
  <1>1. 0 \in T
    BY DEF Joins, JoinedTo
  <1>2. ASSUME NEW k \in T PROVE k + 1 \in T
    <2> SUFFICES ASSUME (k + 1) + 1 <= m PROVE f[(k + 1) + 1] = g[(k + 1) + 1]
      OBVIOUS
    <2>1. k \in Nat /\ k + 1 <= m
      OBVIOUS
    <2>2. f[k + 1] = g[k + 1]
      BY <2>1
    <2> DEFINE j == (k + 1) + 1
    <2>3. j \in 1 .. m /\ j \in 1 .. n /\ j # 1 /\ j - 1 = k + 1
      BY <2>1
    <2> HIDE DEF j
    <2>4. f[j] = f[j - 1] \o ss[j] /\ g[j] = g[j - 1] \o tt[j]
      BY <2>3 DEF Joins, JoinedTo
    <2>5. ss[j] = tt[j]
      BY <2>3
    <2>6. f[j] = g[j]
      BY <2>2, <2>3, <2>4, <2>5
    <2> QED  BY <2>6 DEF j
  <1> HIDE DEF T
  <1>3. T = Nat
    <2>1. T \subseteq Nat
      BY DEF T
    <2> QED  BY <1>1, <1>2, <2>1, Induct
  <1>4. ASSUME NEW i \in 1 .. m PROVE f[i] = g[i]
    <2>1. i - 1 \in T /\ (i - 1) + 1 = i /\ (i - 1) + 1 <= m
      BY <1>3
    <2> QED  BY <2>1 DEF T
  <1> QED  BY <1>4

LEMMA FlattenIs ==
    ASSUME NEW S, NEW ss \in Seq(S), ss # << >>, NEW f, Joins(f, ss, Len(ss))
    PROVE  FlattenSeq(ss) = f[Len(ss)]
  <1> DEFINE g == CHOOSE g : g = [i \in 1 .. Len(ss) |-> IF i = 1 THEN ss[i] ELSE g[i - 1] \o ss[i]]
  <1>1. Len(ss) \in Nat /\ Len(ss) # 0
    OBVIOUS
  <1>2. FlattenSeq(ss) = g[Len(ss)]
    BY <1>1 DEF FlattenSeq
  <1>3. Joins(g, ss, Len(ss))
    <2>1. \E h : h = [i \in 1 .. Len(ss) |-> IF i = 1 THEN ss[i] ELSE h[i - 1] \o ss[i]]
      BY <1>1, JoinsExist DEF Joins, JoinedTo
    <2>2. g = [i \in 1 .. Len(ss) |-> IF i = 1 THEN ss[i] ELSE g[i - 1] \o ss[i]]
      BY <2>1
    <2> HIDE DEF g
    <2> QED  BY <2>2 DEF Joins, JoinedTo
  <1> HIDE DEF g
  <1>4. \A i \in 1 .. Len(ss) : f[i] = g[i]
    BY <1>1, <1>3, JoinsAgree
  <1> QED  BY <1>1, <1>2, <1>4

LEMMA FlattenEmpty == FlattenSeq(<< >>) = << >>
  BY DEF FlattenSeq

LEMMA FlattenGrows ==
    ASSUME NEW R, NEW ss \in Seq(R), NEW tt \in Seq(R), NEW n \in Nat, n # 0, NEW q \in Nat, q = n + 1,
           Len(ss) = n, Len(tt) = q, \A i \in 1 .. n : ss[i] = tt[i]
    PROVE  FlattenSeq(tt) = FlattenSeq(ss) \o tt[q]
  <1>1. ss # << >> /\ tt # << >> /\ n <= q
    OBVIOUS
  <1>2. PICK g : Joins(g, tt, q)
    BY JoinsExist
  <1>3. FlattenSeq(tt) = g[q]
    BY <1>1, <1>2, FlattenIs
  <1>4. PICK f : Joins(f, ss, n)
    BY JoinsExist
  <1>5. FlattenSeq(ss) = f[n]
    BY <1>1, <1>4, FlattenIs
  <1>6. \A i \in 1 .. n : f[i] = g[i]
    BY <1>1, <1>2, <1>4, JoinsAgree, SMTT(40)
  <1>7. g[q] = g[n] \o tt[q]
    <2>1. q \in 1 .. q /\ q # 1 /\ q - 1 = n
      OBVIOUS
    <2> QED  BY <1>2, <2>1 DEF Joins, JoinedTo
  <1>8. f[n] = g[n]
    BY <1>6
  <1> QED  BY <1>3, <1>5, <1>7, <1>8

LEMMA FlattenOne ==
    ASSUME NEW R, NEW ss \in Seq(R), Len(ss) = 1
    PROVE  FlattenSeq(ss) = ss[1]
  <1>1. ss # << >>
    <2>1. Len(<< >>) # 1
      OBVIOUS
    <2> QED  BY <2>1, Zenon
  <1>2. PICK f : Joins(f, ss, 1)
    BY JoinsExist
  <1>3. FlattenSeq(ss) = f[1]
    BY <1>1, <1>2, FlattenIs
  <1> QED  BY <1>2, <1>3 DEF Joins, JoinedTo

LEMMA FlattenAppend ==
    ASSUME NEW S, NEW ss \in Seq(Seq(S)), NEW s \in Seq(S), FlattenSeq(ss) \in Seq(S)
    PROVE  FlattenSeq(Append(ss, s)) = FlattenSeq(ss) \o s
  <1> DEFINE Q == Seq(S)
             tt == Append(ss, s)
             n == Len(ss)
  <1>1. ss \in Seq(Q) /\ s \in Q
    OBVIOUS
  <1> HIDE DEF Q
  <1>2. /\ tt \in Seq(Q) /\ n \in Nat /\ Len(tt) = n + 1 /\ n + 1 \in Nat
        /\ tt[n + 1] = s /\ \A i \in 1 .. n : ss[i] = tt[i]
    BY <1>1, OneMore
  <1> HIDE DEF tt
  <1>3. CASE n = 0
    <2>1. ss = << >>
      BY <1>1, <1>3, Empty
    <2>2. FlattenSeq(tt) = tt[1]
      BY <1>2, <1>3, FlattenOne
    <2>3. FlattenSeq(ss) = << >>
      BY <2>1, FlattenEmpty
    <2>4. tt[1] = s
      BY <1>2, <1>3
    <2>5. << >> \o s = s
      OBVIOUS
    <2>6. FlattenSeq(tt) = FlattenSeq(ss) \o s
      BY <2>2, <2>3, <2>4, <2>5
    <2> QED  BY <2>6 DEF tt
  <1>4. CASE n # 0
    <2>1. FlattenSeq(tt) = FlattenSeq(ss) \o tt[n + 1]
      BY <1>1, <1>2, <1>4, FlattenGrows
    <2> QED  BY <1>2, <2>1 DEF tt
  <1> QED  BY <1>3, <1>4

\* Every sequence is empty or some sequence with one more element: the shape of the
\* induction in what follows.
LEMMA FlattenType ==
    ASSUME NEW S, NEW ss \in Seq(Seq(S))
    PROVE  FlattenSeq(ss) \in Seq(S)
  <1> DEFINE T == {n \in Nat : \A tt \in Seq(Seq(S)) : Len(tt) = n => FlattenSeq(tt) \in Seq(S)}
  <1>1. 0 \in T
    <2> SUFFICES ASSUME NEW tt \in Seq(Seq(S)), Len(tt) = 0 PROVE FlattenSeq(tt) \in Seq(S)
      OBVIOUS
    <2>1. tt = << >>
      <3> DEFINE Q == Seq(S)
      <3>1. tt \in Seq(Q)
        OBVIOUS
      <3> HIDE DEF Q
      <3> QED  BY <3>1, Empty
    <2>2. << >> \in Seq(S)
      OBVIOUS
    <2> QED  BY <2>1, <2>2, FlattenEmpty
  <1>2. ASSUME NEW n \in T PROVE n + 1 \in T
    <2> SUFFICES ASSUME NEW tt \in Seq(Seq(S)), Len(tt) = n + 1 PROVE FlattenSeq(tt) \in Seq(S)
      OBVIOUS
    <2>1. n \in Nat /\ \A uu \in Seq(Seq(S)) : Len(uu) = n => FlattenSeq(uu) \in Seq(S)
      OBVIOUS
    <2>2. PICK uu \in Seq(Seq(S)), s \in Seq(S) : tt = Append(uu, s) /\ Len(uu) = n
      <3> DEFINE Q == Seq(S)
      <3>1. tt \in Seq(Q)
        OBVIOUS
      <3> HIDE DEF Q
      <3>2. \E uu \in Seq(Q), s \in Q : tt = Append(uu, s) /\ Len(uu) = n
        BY <2>1, <3>1, Longer
      <3> QED  BY <3>2 DEF Q
    <2>3. FlattenSeq(uu) \in Seq(S)
      BY <2>1, <2>2
    <2>4. FlattenSeq(tt) = FlattenSeq(uu) \o s
      BY <2>2, <2>3, FlattenAppend
    <2> QED  BY <2>2, <2>3, <2>4
  <1> HIDE DEF T
  <1>3. T = Nat
    <2>1. T \subseteq Nat
      BY DEF T
    <2> QED  BY <1>1, <1>2, <2>1, Induct
  <1>4. Len(ss) \in T
    BY <1>3
  <1> QED  BY <1>4 DEF T

LEMMA Behind ==
    ASSUME NEW S, NEW a \in Seq(S), NEW b \in Seq(S)
    PROVE  /\ a \o b \in Seq(S) /\ Len(a \o b) = Len(a) + Len(b)
           /\ Len(a) \in Nat /\ Len(b) \in Nat
           /\ \A p \in 1 .. Len(a) : (a \o b)[p] = a[p]
           /\ \A p \in Len(a) + 1 .. Len(a) + Len(b) : (a \o b)[p] = b[p - Len(a)]
  OBVIOUS

\* One sequence replaced by another as long: where it lies in the joined sequence
\* the other is found, and nothing else changes.
Swapped(ss, uu, k, t) ==
    Len(uu) = Len(ss) /\ \A i \in 1 .. Len(ss) : uu[i] = IF i = k THEN t ELSE ss[i]

Within(p, at, n) == at < p /\ p <= at + n
Replaced(x, y, at, t) ==
    /\ Len(y) = Len(x)
    /\ at \in Nat /\ at + Len(t) <= Len(x)
    /\ \A p \in 1 .. Len(x) : y[p] = IF Within(p, at, Len(t)) THEN t[p - at] ELSE x[p]

LEMMA SameSequence ==
    ASSUME NEW Q, NEW x \in Seq(Q), NEW y \in Seq(Q), Len(x) = Len(y),
           \A i \in 1 .. Len(x) : x[i] = y[i]
    PROVE  x = y
  OBVIOUS

LEMMA ReplacedBehind ==
    ASSUME NEW S, NEW a \in Seq(S), NEW s \in Seq(S), NEW t \in Seq(S), Len(t) = Len(s)
    PROVE  Replaced(a \o s, a \o t, Len(a), t)
  <1>1. /\ Len(a) \in Nat /\ Len(s) \in Nat
        /\ Len(a \o s) = Len(a) + Len(s)
        /\ \A p \in 1 .. Len(a) : (a \o s)[p] = a[p]
    BY Behind
  <1>2. /\ Len(a \o t) = Len(a) + Len(s)
        /\ \A p \in 1 .. Len(a) : (a \o t)[p] = a[p]
        /\ \A p \in Len(a) + 1 .. Len(a) + Len(s) : (a \o t)[p] = t[p - Len(a)]
    <2>1. /\ Len(a \o t) = Len(a) + Len(t)
          /\ \A p \in 1 .. Len(a) : (a \o t)[p] = a[p]
          /\ \A p \in Len(a) + 1 .. Len(a) + Len(t) : (a \o t)[p] = t[p - Len(a)]
      BY Behind
    <2> QED  BY <2>1
  <1> DEFINE x == a \o s
             y == a \o t
             n == Len(a)
  <1> HIDE DEF x, y, n
  <1>3. /\ n \in Nat /\ Len(s) \in Nat /\ Len(x) = n + Len(s) /\ Len(y) = Len(x)
        /\ \A p \in 1 .. n : x[p] = y[p]
        /\ \A p \in n + 1 .. n + Len(s) : y[p] = t[p - n]
    BY <1>1, <1>2 DEF x, y, n
  <1>4. ASSUME NEW p \in 1 .. Len(x) PROVE y[p] = IF Within(p, n, Len(t)) THEN t[p - n] ELSE x[p]
    <2>1. p \in Int /\ (p \in 1 .. n \/ p \in n + 1 .. n + Len(s))
      BY <1>3
    <2>2. CASE p \in 1 .. n
      BY <1>3, <2>2 DEF Within
    <2>3. CASE p \in n + 1 .. n + Len(s)
      BY <1>3, <2>3 DEF Within
    <2> QED  BY <2>1, <2>2, <2>3
  <1>5. Replaced(x, y, n, t)
    BY <1>3, <1>4 DEF Replaced
  <1> QED  BY <1>5 DEF x, y, n

LEMMA ReplacedBefore ==
    ASSUME NEW S, NEW a \in Seq(S), NEW b \in Seq(S), NEW s \in Seq(S), NEW t \in Seq(S),
           NEW at, Replaced(a, b, at, t)
    PROVE  Replaced(a \o s, b \o s, at, t)
  <1>1. /\ Len(b) = Len(a) /\ Len(t) \in Nat
        /\ at \in Nat /\ at + Len(t) <= Len(a)
        /\ \A p \in 1 .. Len(a) : b[p] = IF Within(p, at, Len(t)) THEN t[p - at] ELSE a[p]
    BY DEF Replaced
  <1>2. /\ Len(a) \in Nat /\ Len(s) \in Nat /\ Len(a \o s) = Len(a) + Len(s)
        /\ \A p \in 1 .. Len(a) : (a \o s)[p] = a[p]
        /\ \A p \in Len(a) + 1 .. Len(a) + Len(s) : (a \o s)[p] = s[p - Len(a)]
    BY Behind
  <1>3. /\ Len(b \o s) = Len(b) + Len(s)
        /\ \A p \in 1 .. Len(b) : (b \o s)[p] = b[p]
        /\ \A p \in Len(b) + 1 .. Len(b) + Len(s) : (b \o s)[p] = s[p - Len(b)]
    BY Behind
  <1> DEFINE x == a \o s
             y == b \o s
             n == Len(a)
  <1> HIDE DEF x, y, n
  <1>4. /\ n \in Nat /\ Len(s) \in Nat /\ Len(x) = n + Len(s) /\ Len(y) = Len(x)
        /\ Len(t) \in Nat /\ at \in Nat /\ at + Len(t) <= n
        /\ \A p \in 1 .. n : x[p] = a[p] /\ y[p] = b[p]
        /\ \A p \in 1 .. n : b[p] = IF Within(p, at, Len(t)) THEN t[p - at] ELSE a[p]
        /\ \A p \in n + 1 .. n + Len(s) : x[p] = y[p]
    BY <1>1, <1>2, <1>3 DEF x, y, n
  <1>5. ASSUME NEW p \in 1 .. Len(x) PROVE y[p] = IF Within(p, at, Len(t)) THEN t[p - at] ELSE x[p]
    <2>1. p \in Int /\ (p \in 1 .. n \/ p \in n + 1 .. n + Len(s))
      BY <1>4
    <2>2. CASE p \in 1 .. n
      BY <1>4, <2>2
    <2>3. CASE p \in n + 1 .. n + Len(s)
      <3>1. ~Within(p, at, Len(t))
        BY <1>4, <2>3 DEF Within
      <3> QED  BY <1>4, <2>3, <3>1
    <2> QED  BY <2>1, <2>2, <2>3
  <1>6. Replaced(x, y, at, t)
    BY <1>4, <1>5 DEF Replaced
  <1> QED  BY <1>6 DEF x, y

\* The sequences before the k-th, joined.
Before(ss, k) == FlattenSeq([j \in 1 .. k - 1 |-> ss[j]])

LEMMA FirstOnes ==
    ASSUME NEW Q, NEW vv \in Seq(Q), NEW s \in Q
    PROVE  /\ [j \in 1 .. Len(vv) |-> Append(vv, s)[j]] = vv
           /\ \A k \in 1 .. Len(vv) : [j \in 1 .. k - 1 |-> Append(vv, s)[j]] = [j \in 1 .. k - 1 |-> vv[j]]
  OBVIOUS

LEMMA FlattenReplace ==
    ASSUME NEW S, NEW ss \in Seq(Seq(S)), NEW uu \in Seq(Seq(S)), NEW k \in 1 .. Len(ss),
           NEW t \in Seq(S), Len(t) = Len(ss[k]), Swapped(ss, uu, k, t)
    PROVE  Replaced(FlattenSeq(ss), FlattenSeq(uu), Len(Before(ss, k)), t)
  <1> DEFINE Q == Seq(S)
             P(tt, yy) == (k \in 1 .. Len(tt) /\ Len(t) = Len(tt[k]) /\ Swapped(tt, yy, k, t))
                              => Replaced(FlattenSeq(tt), FlattenSeq(yy), Len(Before(tt, k)), t)
             T == {n \in Nat : \A tt, yy \in Seq(Q) : Len(tt) = n => P(tt, yy)}
  <1>0. t \in Q /\ ss \in Seq(Q) /\ uu \in Seq(Q)
    OBVIOUS
  <1> HIDE DEF Q
  <1>1. 0 \in T
    OBVIOUS
  <1>2. ASSUME NEW n \in T PROVE n + 1 \in T
    <2>1. n \in Nat /\ \A vv, ww \in Seq(Q) : Len(vv) = n => P(vv, ww)
      OBVIOUS
    <2> SUFFICES ASSUME NEW tt \in Seq(Q), NEW yy \in Seq(Q), Len(tt) = n + 1,
                        k \in 1 .. Len(tt), Len(t) = Len(tt[k]), Swapped(tt, yy, k, t)
                 PROVE  Replaced(FlattenSeq(tt), FlattenSeq(yy), Len(Before(tt, k)), t)
      BY <2>1
    <2> HIDE DEF P
    <2>2. PICK vv \in Seq(Q), s \in Q : tt = Append(vv, s) /\ Len(vv) = n
      BY <2>1, Longer
    <2>3. Len(yy) = n + 1
      BY DEF Swapped
    <2>4. PICK ww \in Seq(Q), r \in Q : yy = Append(ww, r) /\ Len(ww) = n
      BY <2>1, <2>3, Longer
    <2>5. /\ tt[n + 1] = s /\ yy[n + 1] = r /\ n + 1 \in 1 .. n + 1
          /\ \A i \in 1 .. n : tt[i] = vv[i] /\ yy[i] = ww[i]
      BY <2>1, <2>2, <2>4, OneMore
    <2>6. \A i \in 1 .. n + 1 : yy[i] = IF i = k THEN t ELSE tt[i]
      BY DEF Swapped
    <2>7. FlattenSeq(vv) \in Seq(S) /\ FlattenSeq(ww) \in Seq(S) /\ s \in Seq(S) /\ r \in Seq(S)
      BY FlattenType DEF Q
    <2>8. FlattenSeq(tt) = FlattenSeq(vv) \o s /\ FlattenSeq(yy) = FlattenSeq(ww) \o r
      BY <2>2, <2>4, <2>7, FlattenAppend DEF Q
    <2>9. CASE k = n + 1
      <3>1. \A i \in 1 .. n : vv[i] = ww[i]
        BY <2>1, <2>5, <2>6, <2>9
      <3>2. vv = ww
        BY <2>2, <2>4, <3>1, SameSequence
      <3>3. r = t /\ Len(t) = Len(s)
        BY <2>5, <2>6, <2>9
      <3>4. Replaced(FlattenSeq(vv) \o s, FlattenSeq(vv) \o t, Len(FlattenSeq(vv)), t)
        BY <2>7, <3>3, ReplacedBehind
      <3>5. Before(tt, k) = FlattenSeq(vv)
        <4>1. k - 1 = n
          BY <2>1, <2>9
        <4>2. [j \in 1 .. n |-> tt[j]] = vv
          BY <2>2, FirstOnes
        <4> QED  BY <4>1, <4>2 DEF Before
      <3> QED  BY <2>8, <3>2, <3>3, <3>4, <3>5
    <2>10. CASE k # n + 1
      <3>1. k \in 1 .. n
        BY <2>1, <2>10
      <3>2. r = s
        BY <2>5, <2>6, <2>10
      <3>3. Swapped(vv, ww, k, t) /\ Len(t) = Len(vv[k])
        <4>1. \A i \in 1 .. n : i \in 1 .. n + 1
          BY <2>1
        <4>2. \A i \in 1 .. n : ww[i] = IF i = k THEN t ELSE vv[i]
          BY <2>5, <2>6, <4>1
        <4> QED  BY <2>2, <2>4, <2>5, <3>1, <4>2 DEF Swapped
      <3>4. Replaced(FlattenSeq(vv), FlattenSeq(ww), Len(Before(vv, k)), t)
        BY <2>1, <2>2, <3>1, <3>3 DEF P
      <3>5. Replaced(FlattenSeq(vv) \o s, FlattenSeq(ww) \o s, Len(Before(vv, k)), t)
        BY <2>7, <3>4, ReplacedBefore
      <3>6. Before(tt, k) = Before(vv, k)
        <4>1. [j \in 1 .. k - 1 |-> tt[j]] = [j \in 1 .. k - 1 |-> vv[j]]
          BY <2>2, <3>1, FirstOnes
        <4> QED  BY <4>1 DEF Before
      <3> QED  BY <2>8, <3>2, <3>5, <3>6
    <2> QED  BY <2>9, <2>10
  <1> HIDE DEF T
  <1>3. T = Nat
    <2>1. T \subseteq Nat
      BY DEF T
    <2> QED  BY <1>1, <1>2, <2>1, Induct
  <1>4. Len(ss) \in T
    BY <1>0, <1>3
  <1>5. P(ss, uu)
    BY <1>0, <1>4 DEF T
  <1> QED  BY <1>5
-----------------------------------------------------------------------------
(* What every function does                                                *)

Content == Byte \cup {Unwritten}

Good(v) ==
    /\ v \in [buf : [0 .. v.size - 1 -> Content], size : Sizes, ndone : Nat, checksum : Seq(Byte)]
    /\ v.ndone <= v.size

Room(v, s) == v.ndone + Len(s) <= v.size

Written(v, s, crc) ==
    [buf |-> Put(v.buf, v.ndone, s), size |-> v.size, ndone |-> v.ndone + Len(s),
     checksum |-> IF crc THEN v.checksum \o s ELSE v.checksum]

Does(r, v, s, crc) == r = IF Room(v, s) THEN Written(v, s, crc) ELSE Failed

LEMMA SizesType == Sizes \subseteq Nat
  BY WbufAssumption

LEMMA GoodType ==
    ASSUME NEW v, Good(v)
    PROVE  /\ v.size \in Nat /\ v.size \in Sizes /\ v.ndone \in Nat /\ v.ndone <= v.size
           /\ v.buf \in [0 .. v.size - 1 -> Content] /\ v.checksum \in Seq(Byte)
  BY SizesType DEF Good

LEMMA PutInside ==
    ASSUME NEW size \in Nat, NEW buf \in [0 .. size - 1 -> Content], NEW at \in Nat,
           NEW s \in Seq(Content), at + Len(s) <= size
    PROVE  /\ Put(buf, at, s) \in [0 .. size - 1 -> Content]
           /\ \A o \in 0 .. size - 1 :
                 Put(buf, at, s)[o] = IF o >= at /\ o < at + Len(s) THEN s[o - at + 1] ELSE buf[o]
  <1>1. Len(s) \in Nat /\ DOMAIN buf = 0 .. size - 1
    OBVIOUS
  <1>2. (0 .. size - 1) \cup (at .. at + Len(s) - 1) = 0 .. size - 1
    BY <1>1
  <1>3. Put(buf, at, s) =
            [o \in 0 .. size - 1 |-> IF o >= at /\ o < at + Len(s) THEN s[o - at + 1] ELSE buf[o]]
    BY <1>1, <1>2 DEF Put
  <1>4. ASSUME NEW o \in 0 .. size - 1, o >= at, o < at + Len(s) PROVE s[o - at + 1] \in Content
    <2>1. o - at + 1 \in 1 .. Len(s)
      BY <1>1, <1>4
    <2> QED  BY <2>1
  <1> QED  BY <1>3, <1>4

LEMMA ThreeJoined ==
    ASSUME NEW S, NEW a \in Seq(S), NEW b \in Seq(S), NEW c \in Seq(S)
    PROVE  (a \o b) \o c = a \o (b \o c)
  BY ConcatAssociative

LEMMA SameFunction ==
    ASSUME NEW D, NEW R, NEW x \in [D -> R], NEW y \in [D -> R], \A d \in D : x[d] = y[d]
    PROVE  x = y
  OBVIOUS

\* What is put behind the end of what has just been put.
LEMMA PutTwice ==
    ASSUME NEW size \in Nat, NEW buf \in [0 .. size - 1 -> Content], NEW n \in Nat,
           NEW s \in Seq(Content), NEW t \in Seq(Content), n + Len(s) + Len(t) <= size
    PROVE  Put(Put(buf, n, s), n + Len(s), t) = Put(buf, n, s \o t)
  <1>1. /\ s \o t \in Seq(Content) /\ Len(s \o t) = Len(s) + Len(t)
        /\ Len(s) \in Nat /\ Len(t) \in Nat
        /\ \A p \in 1 .. Len(s) : (s \o t)[p] = s[p]
        /\ \A p \in Len(s) + 1 .. Len(s) + Len(t) : (s \o t)[p] = t[p - Len(s)]
    BY Behind
  <1> DEFINE st == s \o t
             m == n + Len(s)
             z == Put(buf, n, s)
             x == Put(z, m, t)
             y == Put(buf, n, st)
             ls == Len(s)
             lt == Len(t)
  <1> HIDE DEF st
  <1>2. m \in Nat /\ m + Len(t) <= size /\ n + Len(s) <= size /\ n + Len(st) <= size
    BY <1>1 DEF st
  <1>3. /\ z \in [0 .. size - 1 -> Content]
        /\ \A o \in 0 .. size - 1 : z[o] = IF o >= n /\ o < n + ls THEN s[o - n + 1] ELSE buf[o]
    BY <1>2, PutInside
  <1> HIDE DEF z, m
  <1>4. /\ x \in [0 .. size - 1 -> Content]
        /\ \A o \in 0 .. size - 1 : x[o] = IF o >= m /\ o < m + lt THEN t[o - m + 1] ELSE z[o]
    BY <1>2, <1>3, PutInside
  <1>5. st \in Seq(Content)
    BY <1>1 DEF st
  <1>6. /\ y \in [0 .. size - 1 -> Content]
        /\ \A o \in 0 .. size - 1 :
              y[o] = IF o >= n /\ o < n + Len(st) THEN st[o - n + 1] ELSE buf[o]
    <2>1. n + Len(st) <= size
      BY <1>2
    <2> HIDE DEF x, ls, lt
    <2> QED  BY <1>5, <2>1, PutInside
  <1> HIDE DEF x, y
  <1>7. /\ ls \in Nat /\ lt \in Nat /\ Len(st) = ls + lt /\ m = n + ls
        /\ \A p \in 1 .. ls : st[p] = s[p]
        /\ \A p \in ls + 1 .. ls + lt : st[p] = t[p - ls]
    BY <1>1 DEF st, m
  <1> HIDE DEF ls, lt
  <1>8. ASSUME NEW o \in 0 .. size - 1 PROVE x[o] = y[o]
    <2>0. o \in Int
      OBVIOUS
    <2>1. CASE o < n
      BY <1>3, <1>4, <1>6, <1>7, <2>0, <2>1
    <2>2. CASE o >= n /\ o < m
      <3>1. o - n + 1 \in 1 .. ls
        BY <1>7, <2>0, <2>2
      <3>2. x[o] = s[o - n + 1]
        BY <1>3, <1>4, <1>7, <2>0, <2>2
      <3>3. y[o] = st[o - n + 1]
        BY <1>6, <1>7, <2>0, <2>2
      <3> QED  BY <1>7, <3>1, <3>2, <3>3
    <2>3. CASE o >= m /\ o < m + lt
      <3>1. o - n + 1 \in ls + 1 .. ls + lt /\ (o - n + 1) - ls = o - m + 1
        BY <1>7, <2>0, <2>3
      <3>2. x[o] = t[o - m + 1]
        BY <1>4, <1>7, <2>0, <2>3
      <3>3. y[o] = st[o - n + 1]
        BY <1>6, <1>7, <2>0, <2>3
      <3>4. st[o - n + 1] = t[(o - n + 1) - ls]
        BY <1>7, <3>1
      <3> QED  BY <3>1, <3>2, <3>3, <3>4
    <2>4. CASE o >= m + lt
      BY <1>3, <1>4, <1>6, <1>7, <2>0, <2>4
    <2> QED  BY <1>7, <2>0, <2>1, <2>2, <2>3, <2>4
  <1>9. x = y
    BY <1>4, <1>6, <1>8, SameFunction
  <1> QED  BY <1>9 DEF x, y, z, m, st, ls

LEMMA ByteContent == Seq(Byte) \subseteq Seq(Content)
  <1> DEFINE C == Content
  <1>1. Byte \subseteq C
    BY DEF Content
  <1> HIDE DEF C
  <1>2. Seq(Byte) \subseteq Seq(C)
    BY <1>1
  <1> QED  BY <1>2 DEF C

LEMMA WrittenGood ==
    ASSUME NEW v, Good(v), NEW s \in Seq(Byte), Room(v, s), NEW crc \in BOOLEAN
    PROVE  Good(Written(v, s, crc))
  <1>1. /\ v.size \in Nat /\ v.size \in Sizes /\ v.ndone \in Nat /\ v.ndone <= v.size
        /\ v.buf \in [0 .. v.size - 1 -> Content] /\ v.checksum \in Seq(Byte)
    BY GoodType
  <1>2. s \in Seq(Content) /\ Len(s) \in Nat
    BY ByteContent
  <1>3. Put(v.buf, v.ndone, s) \in [0 .. v.size - 1 -> Content]
    BY <1>1, <1>2, PutInside DEF Room
  <1>4. v.checksum \o s \in Seq(Byte)
    BY <1>1
  <1>5. v.ndone + Len(s) \in Nat /\ v.ndone + Len(s) <= v.size
    BY <1>1, <1>2 DEF Room
  <1> QED  BY <1>1, <1>3, <1>4, <1>5 DEF Good, Written

LEMMA WrittenTwice ==
    ASSUME NEW v, Good(v), NEW s \in Seq(Byte), NEW t \in Seq(Byte), Room(v, s),
           NEW crc \in BOOLEAN, Room(Written(v, s, crc), t)
    PROVE  /\ Room(v, s \o t)
           /\ Written(Written(v, s, crc), t, crc) = Written(v, s \o t, crc)
  <1> DEFINE u == Written(v, s, crc)
             n == v.ndone
             size == v.size
  <1>1. /\ v.size \in Nat /\ v.ndone \in Nat
        /\ v.buf \in [0 .. v.size - 1 -> Content] /\ v.checksum \in Seq(Byte)
    BY GoodType
  <1>2. /\ s \in Seq(Content) /\ t \in Seq(Content) /\ s \o t \in Seq(Content)
        /\ Len(s) \in Nat /\ Len(t) \in Nat /\ Len(s \o t) = Len(s) + Len(t)
    BY ByteContent
  <1>3. /\ u.size = v.size /\ u.ndone = v.ndone + Len(s) /\ u.buf = Put(v.buf, v.ndone, s)
        /\ u.checksum = IF crc THEN v.checksum \o s ELSE v.checksum
    BY DEF Written
  <1>4. /\ n + Len(s) <= size /\ (n + Len(s)) + Len(t) <= size /\ n + Len(s) \in Nat
        /\ n + Len(s \o t) <= size /\ (n + Len(s)) + Len(t) = n + Len(s \o t)
    BY <1>1, <1>2, <1>3 DEF Room
  <1>5. Put(u.buf, u.ndone, t) = Put(v.buf, n, s \o t)
    <2>1. Put(Put(v.buf, n, s), n + Len(s), t) = Put(v.buf, n, s \o t)
      <3> DEFINE buf == v.buf
      <3>1. size \in Nat /\ n \in Nat /\ buf \in [0 .. size - 1 -> Content]
        BY <1>1
      <3> HIDE DEF buf, size, n, u
      <3>2. n + Len(s) + Len(t) <= size
        BY <1>2, <1>4, <3>1
      <3>3. Put(Put(buf, n, s), n + Len(s), t) = Put(buf, n, s \o t)
        BY <1>2, <3>1, <3>2, PutTwice
      <3> QED  BY <3>3 DEF buf
    <2> QED  BY <1>3, <2>1
  <1>6. (v.checksum \o s) \o t = v.checksum \o (s \o t)
    <2> DEFINE c == v.checksum
    <2>1. c \in Seq(Byte)
      BY <1>1
    <2> HIDE DEF c
    <2>2. (c \o s) \o t = c \o (s \o t)
      BY <2>1, ThreeJoined
    <2> QED  BY <2>2 DEF c
  <1>7. Written(u, t, crc) = Written(v, s \o t, crc)
    <2>1. (IF crc THEN u.checksum \o t ELSE u.checksum)
              = (IF crc THEN v.checksum \o (s \o t) ELSE v.checksum)
      BY <1>3, <1>6
    <2>2. u.ndone + Len(t) = v.ndone + Len(s \o t)
      BY <1>3, <1>4
    <2> HIDE DEF u
    <2> QED  BY <1>3, <1>5, <2>1, <2>2, Zenon DEF Written, n
  <1> QED  BY <1>4, <1>7 DEF Room

LEMMA NotFailed ==
    ASSUME NEW v, Good(v), NEW s \in Seq(Byte), NEW crc \in BOOLEAN
    PROVE  Written(v, s, crc) # Failed
  <1>1. v.ndone + Len(s) \in Nat
    BY GoodType
  <1>2. Written(v, s, crc).ndone = v.ndone + Len(s) /\ Failed.ndone = -1
    BY DEF Written, Failed
  <1> QED  BY <1>1, <1>2

LEMMA Both ==
    ASSUME NEW v, Good(v), NEW s \in Seq(Byte), NEW t \in Seq(Byte), NEW crc \in BOOLEAN,
           NEW r, Does(r, v, s, crc), NEW next, r # Failed => Does(next, r, t, crc)
    PROVE  Does(Then(r, next), v, s \o t, crc)
  <1>0. /\ v.size \in Nat /\ v.ndone \in Nat /\ Len(s) \in Nat /\ Len(t) \in Nat
        /\ Len(s \o t) = Len(s) + Len(t)
    <2>1. s \in Seq(Byte) /\ t \in Seq(Byte)
      OBVIOUS
    <2> QED  BY <2>1, GoodType, Behind
  <1>1. CASE ~Room(v, s)
    <2>1. r = Failed /\ Then(r, next) = Failed
      BY <1>1 DEF Then, Does
    <2>2. ~Room(v, s \o t)
      BY <1>0, <1>1 DEF Room
    <2> QED  BY <2>1, <2>2 DEF Does
  <1>2. CASE Room(v, s)
    <2>1. r = Written(v, s, crc) /\ r # Failed
      BY <1>2, NotFailed DEF Does
    <2>2. Then(r, next) = next /\ Does(next, r, t, crc)
      BY <2>1 DEF Then
    <2>3. CASE Room(r, t)
      <3>1. next = Written(r, t, crc)
        BY <2>2, <2>3 DEF Does
      <3>2. Room(v, s \o t) /\ Written(r, t, crc) = Written(v, s \o t, crc)
        BY <1>2, <2>1, <2>3, WrittenTwice
      <3> QED  BY <2>2, <3>1, <3>2 DEF Does
    <2>4. CASE ~Room(r, t)
      <3>1. r.ndone = v.ndone + Len(s) /\ r.size = v.size
        BY <2>1 DEF Written
      <3>2. ~Room(v, s \o t)
        BY <1>0, <2>4, <3>1 DEF Room
      <3>3. next = Failed
        BY <2>2, <2>4 DEF Does
      <3> QED  BY <2>2, <3>2, <3>3 DEF Does
    <2> QED  BY <2>3, <2>4
  <1> QED  BY <1>1, <1>2

\* The bytes just written, added to the checksum.
LEMMA Added ==
    ASSUME NEW v, Good(v), NEW s \in Seq(Byte), Room(v, s), NEW n \in Nat, n = Len(s),
           NEW u, u.buf = Put(v.buf, v.ndone, s), u.checksum = v.checksum
    PROVE  \A k \in 1 .. n : u.buf[v.ndone + k - 1] = s[k]
  <1> DEFINE at == v.ndone
             size == v.size
             buf == v.buf
             x == Put(buf, at, s)
  <1>1. /\ size \in Nat /\ at \in Nat /\ buf \in [0 .. size - 1 -> Content]
        /\ s \in Seq(Content) /\ at + Len(s) <= size /\ u.buf = x
    BY GoodType, ByteContent DEF Room
  <1> HIDE DEF at, size, buf
  <1>2. \A o \in 0 .. size - 1 : x[o] = IF o >= at /\ o < at + Len(s) THEN s[o - at + 1] ELSE buf[o]
    BY <1>1, PutInside
  <1> HIDE DEF x
  <1>3. ASSUME NEW k \in 1 .. n PROVE x[at + k - 1] = s[k]
    <2>1. /\ at + k - 1 \in 0 .. size - 1 /\ at + k - 1 >= at /\ at + k - 1 < at + Len(s)
          /\ (at + k - 1) - at + 1 = k
      BY <1>1
    <2> QED  BY <1>2, <2>1
  <1> QED  BY <1>1, <1>3 DEF at

LEMMA WrittenAdded ==
    ASSUME NEW v, Good(v), NEW s \in Seq(Byte), Room(v, s), NEW n \in Nat, n = Len(s)
    PROVE  LET u == Written(v, s, FALSE)
           IN  toku_x1764_add(u, u.ndone - n, n) = Written(v, s, TRUE)
  <1> DEFINE u == Written(v, s, FALSE)
             part == [k \in 1 .. n |-> u.buf[v.ndone + k - 1]]
  <1>1. /\ u.buf = Put(v.buf, v.ndone, s) /\ u.checksum = v.checksum
        /\ u.ndone = v.ndone + n /\ u.size = v.size
    BY DEF Written
  <1>2. \A m \in Nat : (m + n) - n = m
    OBVIOUS
  <1>3. v.ndone \in Nat
    BY GoodType
  <1>4. u.ndone - n = v.ndone
    BY <1>1, <1>2, <1>3
  <1> HIDE DEF u
  <1>5. u.checksum \o part = v.checksum \o s
    <2>1. \A k \in 1 .. n : u.buf[v.ndone + k - 1] = s[k]
      BY <1>1, Added
    <2>2. s = [k \in 1 .. n |-> s[k]]
      OBVIOUS
    <2>3. part = s
      BY <2>1, <2>2
    <2> QED  BY <1>1, <2>3
  <1>6. toku_x1764_add(u, v.ndone, n) = [u EXCEPT !.checksum = u.checksum \o part]
    BY DEF toku_x1764_add
  <1> DEFINE sum == v.checksum \o s
  <1>7. toku_x1764_add(u, v.ndone, n) = [u EXCEPT !.checksum = sum]
    BY <1>5, <1>6
  <1>8. [Written(v, s, FALSE) EXCEPT !.checksum = sum] = Written(v, s, TRUE)
    <2> DEFINE a == Put(v.buf, v.ndone, s)
               b == v.size
               c == v.ndone + Len(s)
               d == v.checksum
    <2>1. /\ Written(v, s, FALSE) = [buf |-> a, size |-> b, ndone |-> c, checksum |-> d]
          /\ Written(v, s, TRUE) = [buf |-> a, size |-> b, ndone |-> c, checksum |-> sum]
      BY DEF Written
    <2> HIDE DEF a, b, c, d, sum
    <2> DEFINE r == [buf |-> a, size |-> b, ndone |-> c, checksum |-> d]
    <2>2. [r EXCEPT !.checksum = sum] = [buf |-> a, size |-> b, ndone |-> c, checksum |-> sum]
      OBVIOUS
    <2> HIDE DEF r
    <2>3. [Written(v, s, FALSE) EXCEPT !.checksum = sum] = [r EXCEPT !.checksum = sum]
      BY <2>1 DEF r
    <2> QED  BY <2>1, <2>2, <2>3
  <1> HIDE DEF sum
  <1>9. toku_x1764_add(u, u.ndone - n, n) = Written(v, s, TRUE)
    BY <1>4, <1>7, <1>8 DEF u
  <1> QED  BY <1>9 DEF u

\* The assertion tests an unsigned sum, which does not wrap around.
LEMMA Fits ==
    ASSUME NEW v, Good(v), NEW n \in Nat, v.size + n < Modulus
    PROVE  fits(v, n) <=> v.ndone + n <= v.size
  <1> DEFINE d == v.ndone + n
  <1>1. v.ndone \in Nat /\ v.size \in Nat /\ v.ndone <= v.size
    BY GoodType
  <1>2. Modulus \in Nat
    BY WbufAssumption
  <1>3. d \in Nat /\ d < Modulus /\ Modulus > 0 /\ d = 0 * Modulus + d
    BY <1>1, <1>2
  <1> HIDE DEF d
  <1>4. d % Modulus = d
    BY <1>2, <1>3, Divided
  <1> QED  BY <1>4 DEF fits, d
-----------------------------------------------------------------------------
(* The functions one by one                                                *)

\* A record is its fields.
LEMMA OfFields ==
    ASSUME NEW A, NEW B, NEW C, NEW D, NEW v \in [buf : A, size : B, ndone : C, checksum : D]
    PROVE  v = [buf |-> v.buf, size |-> v.size, ndone |-> v.ndone, checksum |-> v.checksum]
  OBVIOUS

LEMMA SameRecord ==
    ASSUME NEW A, NEW B, NEW C, NEW D,
           NEW v \in [buf : A, size : B, ndone : C, checksum : D],
           NEW r \in [buf : A, size : B, ndone : C, checksum : D],
           r.buf = v.buf, r.size = v.size, r.ndone = v.ndone, r.checksum = v.checksum
    PROVE  r = v
  OBVIOUS

OwnFields(v) == v = [buf |-> v.buf, size |-> v.size, ndone |-> v.ndone, checksum |-> v.checksum]
Recorded(v, x, y, z) == [[[v EXCEPT !.buf = x] EXCEPT !.checksum = z] EXCEPT !.ndone = y]
IsRecorded(v, x, y, z) ==
    Recorded(v, x, y, z) = [buf |-> x, size |-> v.size, ndone |-> y, checksum |-> z]

LEMMA Changed ==
    ASSUME NEW v, NEW x, NEW y, NEW z, OwnFields(v)
    PROVE  /\ [v EXCEPT !.buf = x, !.ndone = y]
                  = [buf |-> x, size |-> v.size, ndone |-> y, checksum |-> v.checksum]
           /\ IsRecorded(v, x, y, z)
  <1> DEFINE A == {v.buf, x}
             B == {v.size}
             C == {v.ndone, y}
             D == {v.checksum, z}
             R == [buf : A, size : B, ndone : C, checksum : D]
             r == [v EXCEPT !.buf = x, !.ndone = y]
             q == Recorded(v, x, y, z)
             t == [buf |-> x, size |-> v.size, ndone |-> y, checksum |-> v.checksum]
             u == [buf |-> x, size |-> v.size, ndone |-> y, checksum |-> z]
  <1>1. v.buf \in A /\ x \in A /\ v.size \in B /\ v.ndone \in C /\ y \in C /\ v.checksum \in D /\ z \in D
    OBVIOUS
  <1> HIDE DEF A, B, C, D
  <1>2. v \in R /\ t \in R /\ u \in R
    BY <1>1 DEF OwnFields
  <1>3. r \in R /\ r.buf = x /\ r.size = v.size /\ r.ndone = y /\ r.checksum = v.checksum
    BY <1>1, <1>2
  <1>4. q \in R /\ q.buf = x /\ q.size = v.size /\ q.ndone = y /\ q.checksum = z
    BY <1>1, <1>2 DEF Recorded
  <1>5. t.buf = x /\ t.size = v.size /\ t.ndone = y /\ t.checksum = v.checksum
    OBVIOUS
  <1>6. u.buf = x /\ u.size = v.size /\ u.ndone = y /\ u.checksum = z
    OBVIOUS
  <1>9. r \in [buf : A, size : B, ndone : C, checksum : D] /\ t \in [buf : A, size : B, ndone : C, checksum : D]
      /\ q \in [buf : A, size : B, ndone : C, checksum : D] /\ u \in [buf : A, size : B, ndone : C, checksum : D]
    BY <1>2, <1>3, <1>4
  <1> HIDE DEF r, q, t, u
  <1>7. r = t
    BY <1>9, <1>3, <1>5, SameRecord
  <1>8. q = u
    BY <1>9, <1>4, <1>6, SameRecord
  <1> QED  BY <1>7, <1>8 DEF r, q, t, u, IsRecorded

LEMMA GoodFields ==
    ASSUME NEW v, Good(v)
    PROVE  OwnFields(v)
  <1> DEFINE A == [0 .. v.size - 1 -> Content]
  <1>1. v \in [buf : A, size : Sizes, ndone : Nat, checksum : Seq(Byte)]
    BY DEF Good
  <1> HIDE DEF A
  <1> QED  BY <1>1, OfFields DEF OwnFields

LEMMA WrittenIs ==
    ASSUME NEW v, Good(v), NEW s, NEW n, n = Len(s)
    PROVE  /\ [v EXCEPT !.buf = Put(@, v.ndone, s), !.ndone = @ + n] = Written(v, s, FALSE)
           /\ [[[v EXCEPT !.buf = Put(@, v.ndone, s)] EXCEPT !.checksum = v.checksum \o s]
                  EXCEPT !.ndone = @ + n] = Written(v, s, TRUE)
  <1> DEFINE x == Put(v.buf, v.ndone, s)
             y == v.ndone + n
             z == v.checksum \o s
             u == [[v EXCEPT !.buf = x] EXCEPT !.checksum = z]
  <1>1. OwnFields(v)
    BY GoodFields
  <1>2. /\ Written(v, s, FALSE) = [buf |-> x, size |-> v.size, ndone |-> y, checksum |-> v.checksum]
        /\ Written(v, s, TRUE) = [buf |-> x, size |-> v.size, ndone |-> y, checksum |-> z]
    BY DEF Written
  <1>3. u.ndone = v.ndone
    <2> HIDE DEF x, z
    <2> QED  BY <1>1 DEF OwnFields
  <1>4. /\ [v EXCEPT !.buf = Put(@, v.ndone, s), !.ndone = @ + n] = [v EXCEPT !.buf = x, !.ndone = y]
        /\ [[[v EXCEPT !.buf = Put(@, v.ndone, s)] EXCEPT !.checksum = v.checksum \o s]
                  EXCEPT !.ndone = @ + n] = Recorded(v, x, y, z)
    BY <1>3 DEF Recorded
  <1> HIDE DEF x, y, z
  <1>5. [v EXCEPT !.buf = x, !.ndone = y]
            = [buf |-> x, size |-> v.size, ndone |-> y, checksum |-> v.checksum]
    BY <1>1, Changed, Zenon
  <1>6. Recorded(v, x, y, z) = [buf |-> x, size |-> v.size, ndone |-> y, checksum |-> z]
    <2>1. IsRecorded(v, x, y, z)
      BY <1>1, Changed
    <2> QED  BY <2>1 DEF IsRecorded
  <1> QED  BY <1>2, <1>4, <1>5, <1>6

\* The shape of the functions that write first and add to the checksum then.
LEMMA ThenAdded ==
    ASSUME NEW v, Good(v), NEW s \in Seq(Byte), NEW n \in Nat, n = Len(s),
           NEW u, u = IF Room(v, s) THEN Written(v, s, FALSE) ELSE Failed
    PROVE  Does(Then(u, toku_x1764_add(u, u.ndone - n, n)), v, s, TRUE)
  <1>1. CASE Room(v, s)
    <2>1. u = Written(v, s, FALSE) /\ u # Failed
      BY <1>1, NotFailed
    <2>2. toku_x1764_add(u, u.ndone - n, n) = Written(v, s, TRUE)
      BY <1>1, <2>1, WrittenAdded
    <2> QED  BY <1>1, <2>1, <2>2 DEF Does, Then
  <1>2. CASE ~Room(v, s)
    BY <1>2 DEF Does, Then
  <1> QED  BY <1>1, <1>2

LEMMA ReversedType ==
    ASSUME NEW s \in Seq(Byte)
    PROVE  Reverse(s) \in Seq(Byte) /\ Len(Reverse(s)) = Len(s)
  <1>1. Len(s) \in Nat /\ \A k \in 1 .. Len(s) : (Len(s) - k) + 1 \in 1 .. Len(s)
    OBVIOUS
  <1>2. Reverse(s) \in [1 .. Len(s) -> Byte]
    BY <1>1 DEF Reverse
  <1> QED  BY <1>1, <1>2

LEMMA PutByte ==
    ASSUME NEW v, Good(v), NEW ch \in Byte
    PROVE  /\ Does(nocrc_char(v, ch), v, <<ch>>, FALSE)
           /\ Does(char(v, ch), v, <<ch>>, TRUE)
  <1> DEFINE s == <<ch>>
  <1>1. s \in Seq(Byte) /\ Len(s) = 1
    OBVIOUS
  <1> HIDE DEF s
  <1>2. v.ndone \in Nat /\ v.size \in Nat
    BY GoodType
  <1>3. v.ndone < v.size <=> Room(v, s)
    BY <1>1, <1>2 DEF Room
  <1>4. [v EXCEPT !.buf = Put(@, v.ndone, s), !.ndone = @ + 1] = Written(v, s, FALSE)
    BY <1>1, WrittenIs
  <1>5. nocrc_char(v, ch) = IF Room(v, s) THEN Written(v, s, FALSE) ELSE Failed
    BY <1>3, <1>4 DEF nocrc_char, OrFailed, s
  <1>6. Does(char(v, ch), v, s, TRUE)
    BY <1>1, <1>5, ThenAdded DEF char
  <1> QED  BY <1>5, <1>6 DEF Does, s

LEMMA IntRoom ==
    ASSUME NEW v, Good(v), NEW s, Len(s) = IntBytes
    PROVE  fits(v, IntBytes) <=> Room(v, s)
  <1>1. IntBytes \in Nat /\ v.size + IntBytes < Modulus
    BY GoodType, WbufAssumption
  <1> QED  BY <1>1, Fits DEF Room

LEMMA PutInt ==
    ASSUME NEW v, Good(v), NEW i \in Nat
    PROVE  /\ Does(nocrc_int(v, i), v, LowFirst(i), FALSE)
           /\ Does(int(v, i), v, LowFirst(i), TRUE)
  <1> DEFINE s == LowFirst(i)
  <1>1. s \in Seq(Byte) /\ Len(s) = IntBytes /\ toku_htod32(i) = s
    BY LowFirstType, TurnedRound
  <1> HIDE DEF s
  <1>2. fits(v, IntBytes) <=> Room(v, s)
    BY <1>1, IntRoom
  <1>3. [v EXCEPT !.buf = Put(@, v.ndone, s), !.ndone = @ + IntBytes] = Written(v, s, FALSE)
    BY <1>1, WrittenIs
  <1>4. nocrc_int(v, i) = IF Room(v, s) THEN Written(v, s, FALSE) ELSE Failed
    BY <1>1, <1>2, <1>3 DEF nocrc_int, OrFailed
  <1>5. Does(int(v, i), v, s, TRUE)
    BY <1>1, <1>4, Constants, ThenAdded DEF int
  <1> QED  BY <1>4, <1>5 DEF Does, s

LEMMA PutNetworkInt ==
    ASSUME NEW v, Good(v), NEW i \in Nat
    PROVE  /\ Does(network_int(v, i), v, Reverse(LowFirst(i)), TRUE)
           /\ Reverse(LowFirst(i)) \in Seq(Byte)
  <1> DEFINE s == Reverse(LowFirst(i))
             n == IntBytes
  <1>1. s \in Seq(Byte) /\ Len(s) = n
    BY LowFirstType, ReversedType
  <1>2. toku_htonl(i) = s /\ n \in Nat
    BY TurnedRound, Constants
  <1> HIDE DEF s
  <1>3. fits(v, n) <=> Room(v, s)
    BY <1>1, IntRoom
  <1> DEFINE u == [v EXCEPT !.buf = Put(@, v.ndone, s)]
             sum == v.checksum \o s
             r == [toku_x1764_add(u, u.ndone, n) EXCEPT !.ndone = @ + n]
  <1>4. /\ u.buf = Put(v.buf, v.ndone, s) /\ u.checksum = v.checksum
        /\ u.ndone = v.ndone
    BY DEF Good
  <1>5. ASSUME Room(v, s) PROVE r = Written(v, s, TRUE)
    <2>1. \A k \in 1 .. n : u.buf[v.ndone + k - 1] = s[k]
      <3> HIDE DEF u, n
      <3> QED  BY <1>1, <1>2, <1>4, <1>5, Added
    <2> DEFINE part == [k \in 1 .. n |-> u.buf[u.ndone + k - 1]]
    <2>2. s = [k \in 1 .. n |-> s[k]]
      BY <1>1
    <2>3. part = s
      BY <1>4, <2>1, <2>2
    <2>4. toku_x1764_add(u, u.ndone, n) = [u EXCEPT !.checksum = u.checksum \o part]
      BY DEF toku_x1764_add
    <2>5. toku_x1764_add(u, u.ndone, n) = [u EXCEPT !.checksum = sum]
      BY <1>4, <2>3, <2>4
    <2>6. [[u EXCEPT !.checksum = sum] EXCEPT !.ndone = @ + n] = Written(v, s, TRUE)
      BY <1>1, WrittenIs
    <2> QED  BY <2>5, <2>6
  <1>6. network_int(v, i) = OrFailed(fits(v, n), r)
    BY <1>2 DEF network_int
  <1>7. Does(network_int(v, i), v, s, TRUE)
    BY <1>3, <1>5, <1>6 DEF OrFailed, Does
  <1> QED  BY <1>1, <1>7 DEF s

LEMMA PutLiteral ==
    ASSUME NEW v, Good(v), NEW s \in Literal
    PROVE  /\ Does(nocrc_literal_bytes(v, s), v, s, FALSE)
           /\ Does(literal_bytes(v, s), v, s, TRUE)
           /\ fits(v, Len(s)) <=> Room(v, s)
           /\ s \in Seq(Byte)
  <1>1. s \in Seq(Byte) /\ v.size + Len(s) < Modulus
    BY WbufAssumption, GoodType
  <1>2. Len(s) \in Nat
    BY <1>1
  <1>3. fits(v, Len(s)) <=> Room(v, s)
    BY <1>1, <1>2, Fits DEF Room
  <1>4. [v EXCEPT !.buf = Put(@, v.ndone, s), !.ndone = @ + Len(s)] = Written(v, s, FALSE)
    BY WrittenIs
  <1>5. nocrc_literal_bytes(v, s) = IF Room(v, s) THEN Written(v, s, FALSE) ELSE Failed
    BY <1>3, <1>4 DEF nocrc_literal_bytes, OrFailed
  <1>6. Does(literal_bytes(v, s), v, s, TRUE)
    BY <1>1, <1>2, <1>5, ThenAdded DEF literal_bytes
  <1> QED  BY <1>1, <1>3, <1>5, <1>6 DEF Does

LEMMA DoneGood ==
    ASSUME NEW v, Good(v), NEW s \in Seq(Byte), NEW crc \in BOOLEAN,
           NEW r, Does(r, v, s, crc), r # Failed
    PROVE  Good(r)
  BY WrittenGood DEF Does

LEMMA PutBytes ==
    ASSUME NEW v, Good(v), NEW s \in Literal
    PROVE  /\ Does(nocrc_bytes(v, s), v, LowFirst(Len(s)) \o s, FALSE)
           /\ Does(bytes(v, s), v, LowFirst(Len(s)) \o s, TRUE)
  <1> DEFINE t == LowFirst(Len(s))
             u == nocrc_int(v, Len(s))
             x == int(v, Len(s))
  <1>0. s \in Seq(Byte)
    BY WbufAssumption
  <1>1. s \in Seq(Byte) /\ Len(s) \in Nat
    BY <1>0
  <1>2. t \in Seq(Byte) /\ Does(u, v, t, FALSE) /\ Does(x, v, t, TRUE)
    BY <1>1, LowFirstType, PutInt
  <1> HIDE DEF t, u, x
  <1>3. u # Failed => Does(nocrc_literal_bytes(u, s), u, s, FALSE)
    BY <1>2, DoneGood, PutLiteral
  <1>4. x # Failed => Does(literal_bytes(x, s), x, s, TRUE)
    BY <1>2, DoneGood, PutLiteral
  <1>5. Does(Then(u, nocrc_literal_bytes(u, s)), v, t \o s, FALSE)
    BY <1>1, <1>2, <1>3, Both
  <1>6. Does(Then(x, literal_bytes(x, s)), v, t \o s, TRUE)
    BY <1>1, <1>2, <1>4, Both
  <1> QED  BY <1>5, <1>6 DEF t, u, x, nocrc_bytes, bytes

LEMMA PutLong ==
    ASSUME NEW v, Good(v), NEW ull \in Nat
    PROVE  LET s == LowFirst(ull \div Power[IntBytes]) \o LowFirst(ull)
           IN  /\ Does(nocrc_ulonglong(v, ull), v, s, FALSE)
               /\ Does(ulonglong(v, ull), v, s, TRUE)
               /\ s \in Seq(Byte)
  <1> DEFINE t == LowFirst(High(ull))
             s == LowFirst(Low(ull))
             u == nocrc_int(v, High(ull))
             x == int(v, High(ull))
  <1>1. High(ull) \in Nat /\ Low(ull) \in Nat /\ s = LowFirst(ull)
    BY LowBytes
  <1>2. t = LowFirst(ull \div Power[IntBytes])
    BY DEF High
  <1>3. t \in Seq(Byte) /\ Does(u, v, t, FALSE) /\ Does(x, v, t, TRUE)
    BY <1>1, LowFirstType, PutInt
  <1>4. s \in Seq(Byte)
    BY <1>1, LowFirstType
  <1> HIDE DEF t, u, x
  <1>5. u # Failed => Does(nocrc_int(u, Low(ull)), u, s, FALSE)
    BY <1>1, <1>3, DoneGood, PutInt
  <1>6. x # Failed => Does(int(x, Low(ull)), x, s, TRUE)
    BY <1>1, <1>3, DoneGood, PutInt
  <1> HIDE DEF s
  <1>7. Does(Then(u, nocrc_int(u, Low(ull))), v, t \o s, FALSE)
    BY <1>3, <1>4, <1>5, Both
  <1>8. Does(Then(x, int(x, Low(ull))), v, t \o s, TRUE)
    BY <1>3, <1>4, <1>6, Both
  <1>9. t \o s \in Seq(Byte)
    BY <1>3, <1>4
  <1>10. nocrc_ulonglong(v, ull) = Then(u, nocrc_int(u, Low(ull)))
         /\ ulonglong(v, ull) = Then(x, int(x, Low(ull)))
    BY DEF nocrc_ulonglong, ulonglong, u, x
  <1> QED  BY <1>1, <1>2, <1>7, <1>8, <1>9, <1>10

-----------------------------------------------------------------------------
(* The buffer and the calls                                                *)

Item == [bytes : Seq(Content), crc : BOOLEAN]

Texts(its) == [k \in 1 .. Len(its) |-> its[k].bytes]
Summed(its) == [k \in 1 .. Len(its) |-> IF its[k].crc THEN its[k].bytes ELSE << >>]

Laid(buf, all) == \A p \in 1 .. Len(all) : all[p] # Unwritten => buf[p - 1] = all[p]

\* The wbuf is what the calls made of it.  No reserved byte is in the checksum: this
\* is why bytes filled later cannot make it differ from the buffer.
Holds(v, its) ==
    /\ Good(v)
    /\ its \in Seq(Item)
    /\ \A k \in 1 .. Len(its) : its[k].crc => its[k].bytes \in Seq(Byte)
    /\ v.ndone = Len(FlattenSeq(Texts(its)))
    /\ Laid(v.buf, FlattenSeq(Texts(its)))
    /\ v.checksum = FlattenSeq(Summed(its))

Inv == Holds(w, items) /\ alive \in BOOLEAN

LEMMA ItemsType ==
    ASSUME NEW its \in Seq(Item), \A k \in 1 .. Len(its) : its[k].crc => its[k].bytes \in Seq(Byte)
    PROVE  /\ Texts(its) \in Seq(Seq(Content)) /\ Len(Texts(its)) = Len(its)
           /\ Summed(its) \in Seq(Seq(Byte)) /\ Len(Summed(its)) = Len(its)
           /\ \A k \in 1 .. Len(its) : /\ its[k].bytes \in Seq(Content) /\ its[k].crc \in BOOLEAN
                                       /\ Texts(its)[k] = its[k].bytes
  <1> DEFINE Q == Seq(Content)
             R == Seq(Byte)
  <1>1. \A k \in 1 .. Len(its) : its[k].bytes \in Q /\ its[k].crc \in BOOLEAN
    <2>1. \A k \in 1 .. Len(its) : its[k] \in Item
      OBVIOUS
    <2>2. Item = [bytes : Q, crc : BOOLEAN]
      BY DEF Item
    <2> HIDE DEF Q
    <2> QED  BY <2>1, <2>2
  <1>2. << >> \in R
    OBVIOUS
  <1>3. \A k \in 1 .. Len(its) : its[k].crc => its[k].bytes \in R
    OBVIOUS
  <1>4. Len(its) \in Nat
    OBVIOUS
  <1> HIDE DEF Q, R
  <1>5. Texts(its) \in Seq(Q) /\ Len(Texts(its)) = Len(its)
    BY <1>1, <1>4 DEF Texts
  <1>6. Summed(its) \in Seq(R) /\ Len(Summed(its)) = Len(its)
    BY <1>2, <1>3, <1>4 DEF Summed
  <1>7. \A k \in 1 .. Len(its) : Texts(its)[k] = its[k].bytes
    BY DEF Texts
  <1> QED  BY <1>1, <1>5, <1>6, <1>7 DEF Q, R

LEMMA JoinedType ==
    ASSUME NEW its \in Seq(Item), \A k \in 1 .. Len(its) : its[k].crc => its[k].bytes \in Seq(Byte)
    PROVE  /\ FlattenSeq(Texts(its)) \in Seq(Content)
           /\ FlattenSeq(Summed(its)) \in Seq(Byte)
  BY ItemsType, FlattenType

LEMMA ItemsAppend ==
    ASSUME NEW its \in Seq(Item), NEW item \in Item
    PROVE  /\ Append(its, item) \in Seq(Item)
           /\ Texts(Append(its, item)) = Append(Texts(its), item.bytes)
           /\ Summed(Append(its, item)) = Append(Summed(its), IF item.crc THEN item.bytes ELSE << >>)
  <1> DEFINE Q == Item
             tt == Append(its, item)
             n == Len(its)
             last == IF item.crc THEN item.bytes ELSE << >>
             xx == Append(Texts(its), item.bytes)
             yy == Append(Summed(its), last)
  <1>1. /\ tt \in Seq(Q) /\ n \in Nat /\ Len(tt) = n + 1 /\ tt[n + 1] = item
        /\ \A i \in 1 .. n : tt[i] = its[i]
    <2> HIDE DEF Q
    <2>1. its \in Seq(Q) /\ item \in Q
      BY DEF Q
    <2> QED  BY <2>1, OneMore
  <1> HIDE DEF Q, last, tt
  <1>2. xx = [k \in 1 .. n + 1 |-> IF k = n + 1 THEN item.bytes ELSE its[k].bytes]
    BY <1>1 DEF Texts
  <1>3. yy = [k \in 1 .. n + 1 |->
                IF k = n + 1 THEN last ELSE IF its[k].crc THEN its[k].bytes ELSE << >>]
    BY <1>1 DEF Summed
  <1>4. \A k \in 1 .. n + 1 : k # n + 1 => k \in 1 .. n
    BY <1>1
  <1>5. Texts(tt) = [k \in 1 .. n + 1 |-> IF k = n + 1 THEN item.bytes ELSE its[k].bytes]
    BY <1>1, <1>4 DEF Texts
  <1>6. Summed(tt) = [k \in 1 .. n + 1 |->
                IF k = n + 1 THEN last ELSE IF its[k].crc THEN its[k].bytes ELSE << >>]
    BY <1>1, <1>4 DEF Summed, last
  <1> QED  BY <1>1, <1>2, <1>3, <1>5, <1>6 DEF Q, last, tt


\* One more call, which leaves the bytes already done alone.
LEMMA Grown ==
    ASSUME NEW v, NEW its, Holds(v, its), NEW b \in Seq(Content), NEW crc \in BOOLEAN,
           crc => b \in Seq(Byte),
           NEW r, Good(r), r.ndone = v.ndone + Len(b),
           r.checksum = IF crc THEN v.checksum \o b ELSE v.checksum,
           \A o \in 0 .. v.ndone - 1 : r.buf[o] = v.buf[o],
           \A k \in 1 .. Len(b) : b[k] # Unwritten => r.buf[v.ndone + k - 1] = b[k]
    PROVE  Holds(r, Append(its, [bytes |-> b, crc |-> crc]))
  <1> DEFINE item == [bytes |-> b, crc |-> crc]
             tt == Append(its, item)
             all == FlattenSeq(Texts(its))
             sum == FlattenSeq(Summed(its))
             last == IF crc THEN b ELSE << >>
  <1>1. /\ its \in Seq(Item) /\ v.ndone = Len(all) /\ Laid(v.buf, all) /\ v.checksum = sum
        /\ \A k \in 1 .. Len(its) : its[k].crc => its[k].bytes \in Seq(Byte)
    BY DEF Holds
  <1>2. item \in Item /\ item.bytes = b /\ item.crc = crc
    BY DEF Item
  <1>3. all \in Seq(Content) /\ sum \in Seq(Byte)
    BY <1>1, JoinedType
  <1>4. last \in Seq(Byte)
    OBVIOUS
  <1> HIDE DEF item
  <1>5. tt \in Seq(Item) /\ Texts(tt) = Append(Texts(its), b) /\ Summed(tt) = Append(Summed(its), last)
    BY <1>1, <1>2, ItemsAppend
  <1>6. Texts(its) \in Seq(Seq(Content)) /\ Summed(its) \in Seq(Seq(Byte))
    BY <1>1, ItemsType
  <1> HIDE DEF tt, last
  <1>7. FlattenSeq(Texts(tt)) = all \o b
    BY <1>3, <1>5, <1>6, FlattenAppend
  <1>8. FlattenSeq(Summed(tt)) = sum \o last
    BY <1>3, <1>4, <1>5, <1>6, FlattenAppend
  <1>9. r.checksum = sum \o last
    BY <1>1, <1>3 DEF last
  <1> HIDE DEF all, sum
  <1>10. /\ Len(all \o b) = Len(all) + Len(b) /\ Len(all) \in Nat /\ Len(b) \in Nat
         /\ \A p \in 1 .. Len(all) : (all \o b)[p] = all[p]
         /\ \A p \in Len(all) + 1 .. Len(all) + Len(b) : (all \o b)[p] = b[p - Len(all)]
    BY <1>3, Behind
  <1>11. Laid(r.buf, all \o b)
    <2> SUFFICES ASSUME NEW p \in 1 .. Len(all) + Len(b), (all \o b)[p] # Unwritten
                 PROVE  r.buf[p - 1] = (all \o b)[p]
      BY <1>10 DEF Laid
    <2>1. CASE p \in 1 .. Len(all)
      <3>1. p - 1 \in 0 .. v.ndone - 1 /\ all[p] # Unwritten
        BY <1>1, <1>10, <2>1
      <3> QED  BY <1>1, <1>10, <2>1, <3>1 DEF Laid
    <2>2. CASE p \in Len(all) + 1 .. Len(all) + Len(b)
      <3>1. p - Len(all) \in 1 .. Len(b) /\ v.ndone + (p - Len(all)) - 1 = p - 1
        BY <1>1, <1>10, <2>2
      <3>2. b[p - Len(all)] # Unwritten
        BY <1>10, <2>2
      <3> QED  BY <1>10, <2>2, <3>1, <3>2
    <2> QED  BY <1>10, <2>1, <2>2
  <1>12. \A k \in 1 .. Len(tt) : tt[k].crc => tt[k].bytes \in Seq(Byte)
    <2> DEFINE Q == Item
               F(x) == x.crc => x.bytes \in Seq(Byte)
    <2>1. F(item) /\ \A k \in 1 .. Len(its) : F(its[k])
      BY <1>1, <1>2
    <2>2. its \in Seq(Q) /\ item \in Q
      BY <1>1, <1>2
    <2> HIDE DEF Q, F
    <2>3. /\ Len(tt) = Len(its) + 1 /\ tt[Len(its) + 1] = item
          /\ \A k \in 1 .. Len(its) : tt[k] = its[k]
      BY <2>2, OneMore DEF tt
    <2>4. Len(its) \in Nat
      BY <2>2
    <2>5. \A k \in 1 .. Len(tt) : F(tt[k])
      <3> SUFFICES ASSUME NEW k \in 1 .. Len(tt) PROVE F(tt[k])
        OBVIOUS
      <3>1. k \in 1 .. Len(its) \/ k = Len(its) + 1
        BY <2>3, <2>4
      <3> QED  BY <2>1, <2>3, <3>1
    <2> QED  BY <2>5 DEF F
  <1>13. r.ndone = Len(all \o b)
    BY <1>1, <1>10
  <1>14. Holds(r, tt)
    BY <1>5, <1>7, <1>8, <1>9, <1>11, <1>12, <1>13 DEF Holds
  <1> QED  BY <1>14 DEF tt, item
LEMMA HoldsWritten ==
    ASSUME NEW v, NEW its, Holds(v, its), NEW s \in Seq(Byte), NEW crc \in BOOLEAN, Room(v, s)
    PROVE  Holds(Written(v, s, crc), Append(its, [bytes |-> s, crc |-> crc]))
  <1> DEFINE r == Written(v, s, crc)
             size == v.size
             n == v.ndone
             buf == v.buf
             x == Put(buf, n, s)
  <1>1. Good(v)
    BY DEF Holds
  <1>2. Good(r)
    BY <1>1, WrittenGood
  <1>3. /\ r.ndone = v.ndone + Len(s) /\ r.buf = x
        /\ r.checksum = IF crc THEN v.checksum \o s ELSE v.checksum
    BY DEF Written
  <1>4. /\ size \in Nat /\ n \in Nat /\ buf \in [0 .. size - 1 -> Content] /\ n + Len(s) <= size
        /\ s \in Seq(Content) /\ Len(s) \in Nat
    BY <1>1, GoodType, ByteContent DEF Room
  <1> HIDE DEF r, size, buf
  <1>5. \A o \in 0 .. size - 1 : x[o] = IF o >= n /\ o < n + Len(s) THEN s[o - n + 1] ELSE buf[o]
    <2> HIDE DEF n
    <2> QED  BY <1>4, PutInside
  <1> HIDE DEF x
  <1>6. \A o \in 0 .. n - 1 : r.buf[o] = buf[o]
    <2> HIDE DEF n
    <2>1. \A o \in 0 .. n - 1 : o \in 0 .. size - 1 /\ ~(o >= n)
      BY <1>4
    <2> QED  BY <1>3, <1>5, <2>1
  <1>7. \A k \in 1 .. Len(s) : r.buf[n + k - 1] = s[k]
    <2> HIDE DEF n
    <2>1. \A k \in 1 .. Len(s) : /\ n + k - 1 \in 0 .. size - 1 /\ n + k - 1 >= n
                                 /\ n + k - 1 < n + Len(s) /\ (n + k - 1) - n + 1 = k
      BY <1>4
    <2> QED  BY <1>3, <1>5, <2>1
  <1>8. /\ \A o \in 0 .. v.ndone - 1 : r.buf[o] = v.buf[o]
        /\ \A k \in 1 .. Len(s) : s[k] # Unwritten => r.buf[v.ndone + k - 1] = s[k]
    BY <1>6, <1>7 DEF n, buf
  <1>9. Holds(r, Append(its, [bytes |-> s, crc |-> crc]))
    BY <1>2, <1>3, <1>4, <1>8, Grown
  <1> QED  BY <1>9 DEF r

\* A record whose fields are as they should be is Good.
LEMMA GoodAgain ==
    ASSUME NEW v, Good(v),
           NEW r \in [buf : [0 .. v.size - 1 -> Content], size : Sizes, ndone : Nat, checksum : Seq(Byte)],
           r.size = v.size, r.ndone <= v.size
    PROVE  Good(r)
  BY DEF Good

Overwritten(r, v, x) == r = [v EXCEPT !.buf = x]

LEMMA BufChanged ==
    ASSUME NEW v, Good(v), NEW x \in [0 .. v.size - 1 -> Content],
           NEW r, Overwritten(r, v, x)
    PROVE  /\ Good(r)
           /\ r.buf = x /\ r.size = v.size /\ r.ndone = v.ndone /\ r.checksum = v.checksum
  <1> DEFINE A == [0 .. v.size - 1 -> Content]
             D == Seq(Byte)
  <1>1. v \in [buf : A, size : Sizes, ndone : Nat, checksum : D] /\ v.ndone <= v.size /\ x \in A
    BY DEF Good
  <1> HIDE DEF A, D
  <1>2. /\ r \in [buf : A, size : Sizes, ndone : Nat, checksum : D]
        /\ r.buf = x /\ r.size = v.size /\ r.ndone = v.ndone /\ r.checksum = v.checksum
    BY <1>1 DEF Overwritten
  <1>3. Good(r)
    BY <1>1, <1>2, GoodAgain DEF A, D
  <1> QED  BY <1>2, <1>3

LEMMA DoneChanged ==
    ASSUME NEW v, Good(v), NEW y \in Nat, y <= v.size,
           NEW r, r = [v EXCEPT !.ndone = y]
    PROVE  /\ Good(r)
           /\ r.buf = v.buf /\ r.size = v.size /\ r.ndone = y /\ r.checksum = v.checksum
  <1> DEFINE A == [0 .. v.size - 1 -> Content]
             D == Seq(Byte)
  <1>1. v \in [buf : A, size : Sizes, ndone : Nat, checksum : D] /\ v.ndone <= v.size
    BY DEF Good
  <1> HIDE DEF A, D
  <1>2. /\ r \in [buf : A, size : Sizes, ndone : Nat, checksum : D]
        /\ r.buf = v.buf /\ r.size = v.size /\ r.ndone = y /\ r.checksum = v.checksum
    BY <1>1
  <1>3. Good(r)
    BY <1>1, <1>2, GoodAgain DEF A, D
  <1> QED  BY <1>2, <1>3

Restarted(r, v, y, z) == r = [v EXCEPT !.ndone = y, !.checksum = z]

LEMMA DoneAgain ==
    ASSUME NEW v, Good(v), NEW y \in Nat, y <= v.size, NEW z \in Seq(Byte),
           NEW r, Restarted(r, v, y, z)
    PROVE  /\ Good(r)
           /\ r.buf = v.buf /\ r.size = v.size /\ r.ndone = y /\ r.checksum = z
  <1> DEFINE A == [0 .. v.size - 1 -> Content]
             D == Seq(Byte)
  <1>1. v \in [buf : A, size : Sizes, ndone : Nat, checksum : D] /\ v.ndone <= v.size /\ z \in D
    BY DEF Good
  <1> HIDE DEF A, D
  <1>2. /\ r \in [buf : A, size : Sizes, ndone : Nat, checksum : D]
        /\ r.buf = v.buf /\ r.size = v.size /\ r.ndone = y /\ r.checksum = z
    BY <1>1 DEF Restarted
  <1>3. Good(r)
    BY <1>1, <1>2, GoodAgain DEF A, D
  <1> QED  BY <1>2, <1>3

LEMMA HoldsReserved ==
    ASSUME NEW v, NEW its, Holds(v, its), NEW s \in Literal,
           NEW r, r = nocrc_reserve_literal_bytes(v, Len(s)), r # Failed
    PROVE  Holds(r, Append(its, [bytes |-> [k \in 1 .. Len(s) |-> Unwritten], crc |-> FALSE]))
  <1> DEFINE b == [k \in 1 .. Len(s) |-> Unwritten]
             y == v.ndone + Len(s)
  <1>1. Good(v)
    BY DEF Holds
  <1>2. s \in Seq(Byte) /\ (fits(v, Len(s)) <=> Room(v, s))
    BY <1>1, PutLiteral
  <1>3. Len(s) \in Nat
    BY <1>2
  <1>4. r = [v EXCEPT !.ndone = y] /\ Room(v, s)
    BY <1>2 DEF nocrc_reserve_literal_bytes, OrFailed
  <1>5. v.ndone \in Nat /\ v.size \in Nat /\ v.buf \in [0 .. v.size - 1 -> Content] /\ v.checksum \in Seq(Byte)
    BY <1>1, GoodType
  <1>6. y \in Nat /\ y <= v.size
    BY <1>3, <1>4, <1>5 DEF Room
  <1> HIDE DEF y
  <1>7. Good(r) /\ r.buf = v.buf /\ r.ndone = y /\ r.checksum = v.checksum
    BY <1>1, <1>4, <1>6, DoneChanged
  <1>8. b \in Seq(Content) /\ Len(b) = Len(s) /\ \A k \in 1 .. Len(b) : b[k] = Unwritten
    <2>1. Unwritten \in Content
      BY DEF Content
    <2> HIDE DEF Unwritten
    <2> QED  BY <1>3, <2>1
  <1> HIDE DEF b
  <1>9. r.ndone = v.ndone + Len(b)
    BY <1>7, <1>8 DEF y
  <1>10. Holds(r, Append(its, [bytes |-> b, crc |-> FALSE]))
    BY <1>7, <1>8, <1>9, Grown
  <1> QED  BY <1>10 DEF b

\* The bytes the caller fills are where the calls before the one that reserved them end.
LEMMA BeginBefore ==
    ASSUME NEW its \in Seq(Item), NEW k \in 1 .. Len(its)
    PROVE  FlattenSeq([j \in 1 .. k - 1 |-> its[j].bytes]) = Before(Texts(its), k)
  <1>1. Len(its) \in Nat
    OBVIOUS
  <1>2. \A j \in 1 .. k - 1 : j \in 1 .. Len(its)
    BY <1>1
  <1>3. \A j \in 1 .. k - 1 : Texts(its)[j] = its[j].bytes
    BY <1>2 DEF Texts
  <1>4. [j \in 1 .. k - 1 |-> Texts(its)[j]] = [j \in 1 .. k - 1 |-> its[j].bytes]
    BY <1>3
  <1> QED  BY <1>4 DEF Before

\* Filling leaves the checksum's calls alone and swaps one text for another as long.
Filled(tt, its, k, s) == tt = [its EXCEPT ![k].bytes = s]

LEMMA ItemsFilled ==
    ASSUME NEW its \in Seq(Item), NEW k \in 1 .. Len(its), NEW s \in Seq(Byte),
           ~its[k].crc, NEW tt, Filled(tt, its, k, s)
    PROVE  /\ tt \in Seq(Item) /\ Len(tt) = Len(its)
           /\ \A i \in 1 .. Len(its) : /\ tt[i].crc = its[i].crc
                                       /\ tt[i].bytes = IF i = k THEN s ELSE its[i].bytes
           /\ Swapped(Texts(its), Texts(tt), k, s)
           /\ Summed(tt) = Summed(its)
  <1> DEFINE n == Len(its)
             Q == Seq(Content)
             R == [bytes : Q, crc : BOOLEAN]
  <1>1. n \in Nat /\ s \in Q
    BY ByteContent
  <1>2. its \in Seq(R)
    BY DEF Item
  <1> HIDE DEF Q
  <1>3. \A i \in 1 .. n : its[i] \in R
    <2> HIDE DEF R
    <2> QED  BY <1>2
  <1> DEFINE e == [its[k] EXCEPT !.bytes = s]
  <1>4. e \in R /\ e.bytes = s /\ e.crc = its[k].crc
    BY <1>1, <1>3
  <1>5. tt = [its EXCEPT ![k] = e]
    BY DEF Filled
  <1> HIDE DEF e, R
  <1>6. tt \in Seq(R) /\ Len(tt) = n /\ \A i \in 1 .. n : tt[i] = IF i = k THEN e ELSE its[i]
    BY <1>1, <1>2, <1>4, <1>5
  <1>7. \A i \in 1 .. n : /\ tt[i].crc = its[i].crc
                          /\ tt[i].bytes = IF i = k THEN s ELSE its[i].bytes
    BY <1>4, <1>6
  <1>8. /\ Len(Texts(its)) = n /\ Len(Texts(tt)) = n
        /\ \A i \in 1 .. n : Texts(its)[i] = its[i].bytes /\ Texts(tt)[i] = tt[i].bytes
    BY <1>1, <1>6 DEF Texts
  <1>9. Swapped(Texts(its), Texts(tt), k, s)
    BY <1>7, <1>8 DEF Swapped
  <1>10. Summed(tt) = Summed(its)
    <2>1. \A i \in 1 .. n : (IF tt[i].crc THEN tt[i].bytes ELSE << >>)
                                = (IF its[i].crc THEN its[i].bytes ELSE << >>)
      BY <1>7
    <2> QED  BY <1>6, <2>1 DEF Summed
  <1>11. tt \in Seq(Item)
    BY <1>6 DEF Item, R, Q
  <1> QED  BY <1>6, <1>7, <1>9, <1>10, <1>11

OnlyReserved(b, s) == b = [j \in 1 .. Len(s) |-> Unwritten]
Begins(its, k, at) == at = Len(FlattenSeq([j \in 1 .. k - 1 |-> its[j].bytes]))

LEMMA HoldsFilled ==
    ASSUME NEW v, NEW its, Holds(v, its), NEW k \in 1 .. Len(its), NEW s \in Seq(Byte), Len(s) > 0,
           OnlyReserved(its[k].bytes, s), NEW at, Begins(its, k, at),
           NEW r, Overwritten(r, v, Put(v.buf, at, s)),
           NEW tt, Filled(tt, its, k, s)
    PROVE  Holds(r, tt)
  <1> DEFINE all == FlattenSeq(Texts(its))
             new == FlattenSeq(Texts(tt))
             size == v.size
             n == Len(s)
             buf == v.buf
             x == Put(buf, at, s)
  <1>1. /\ Good(v) /\ its \in Seq(Item) /\ v.ndone = Len(all) /\ Laid(v.buf, all)
        /\ \A i \in 1 .. Len(its) : its[i].crc => its[i].bytes \in Seq(Byte)
        /\ v.checksum = FlattenSeq(Summed(its))
    BY DEF Holds
  <1>2. n \in Nat /\ s \in Seq(Content) /\ n > 0
    BY ByteContent
  <1>3. ~its[k].crc /\ Len(its[k].bytes) = n
    <2>1. its[k].bytes[1] = Unwritten /\ Len(its[k].bytes) = n
      BY <1>2 DEF OnlyReserved
    <2>2. Unwritten \notin Byte
      BY DEF Unwritten, Byte
    <2>3. ASSUME its[k].bytes \in Seq(Byte) PROVE FALSE
      <3>1. its[k].bytes[1] \in Byte
        BY <1>2, <2>1, <2>3
      <3> QED  BY <2>1, <2>2, <3>1
    <2>4. its[k].crc \in BOOLEAN
      BY <1>1, ItemsType
    <2> QED  BY <1>1, <2>1, <2>3, <2>4
  <1>4. /\ tt \in Seq(Item) /\ Len(tt) = Len(its)
        /\ \A i \in 1 .. Len(its) : /\ tt[i].crc = its[i].crc
                                    /\ tt[i].bytes = IF i = k THEN s ELSE its[i].bytes
        /\ Swapped(Texts(its), Texts(tt), k, s)
        /\ Summed(tt) = Summed(its)
    BY <1>1, <1>3, ItemsFilled
  <1>5. \A i \in 1 .. Len(tt) : tt[i].crc => tt[i].bytes \in Seq(Byte)
    BY <1>1, <1>4
  <1>6. /\ Texts(its) \in Seq(Seq(Content)) /\ Texts(tt) \in Seq(Seq(Content))
        /\ Len(Texts(its)) = Len(its) /\ Texts(its)[k] = its[k].bytes
    BY <1>1, <1>4, <1>5, ItemsType
  <1>7. at = Len(Before(Texts(its), k))
    BY <1>1, BeginBefore DEF Begins
  <1>8. Replaced(all, new, at, s)
    <2>1. k \in 1 .. Len(Texts(its)) /\ Len(s) = Len(Texts(its)[k])
      BY <1>3, <1>6
    <2> QED  BY <1>2, <1>4, <1>6, <1>7, <2>1, FlattenReplace
  <1>9. all \in Seq(Content) /\ Len(all) \in Nat
    BY <1>1, JoinedType
  <1>10. size \in Nat /\ buf \in [0 .. size - 1 -> Content] /\ Len(all) <= size
    BY <1>1, GoodType
  <1> HIDE DEF all, new, size, buf, n
  <1>11. at \in Nat /\ at + Len(s) <= size /\ n = Len(s)
    BY <1>8, <1>9, <1>10, <1>2 DEF Replaced, n
  <1>12. /\ x \in [0 .. size - 1 -> Content]
         /\ \A o \in 0 .. size - 1 : x[o] = IF o >= at /\ o < at + n THEN s[o - at + 1] ELSE buf[o]
    <2>1. at + Len(s) <= size
      BY <1>11
    <2>2. at \in Nat
      BY <1>11
    <2>3. /\ x \in [0 .. size - 1 -> Content]
          /\ \A o \in 0 .. size - 1 :
                x[o] = IF o >= at /\ o < at + Len(s) THEN s[o - at + 1] ELSE buf[o]
      BY <1>2, <1>10, <2>1, <2>2, PutInside
    <2> HIDE DEF x
    <2> QED  BY <1>11, <2>3
  <1> HIDE DEF x
  <1>13. /\ Good(r) /\ r.buf = x /\ r.ndone = v.ndone /\ r.checksum = v.checksum
    <2>1. Overwritten(r, v, x)
      BY DEF x, buf, Overwritten
    <2>2. x \in [0 .. v.size - 1 -> Content]
      BY <1>12 DEF size
    <2> QED  BY <1>1, <2>1, <2>2, BufChanged
  <1>14. Len(new) = Len(all) /\ \A p \in 1 .. Len(all) : new[p] = IF Within(p, at, n) THEN s[p - at] ELSE all[p]
    BY <1>8, <1>11 DEF Replaced
  <1>15. Laid(r.buf, new)
    <2> SUFFICES ASSUME NEW p \in 1 .. Len(all), new[p] # Unwritten PROVE x[p - 1] = new[p]
      BY <1>13, <1>14 DEF Laid
    <2>1. p - 1 \in 0 .. size - 1
      BY <1>9, <1>10
    <2>2. CASE Within(p, at, n)
      <3>1. p - 1 >= at /\ p - 1 < at + n /\ (p - 1) - at + 1 = p - at
        BY <1>2, <1>11, <2>2 DEF Within
      <3> QED  BY <1>12, <1>14, <2>1, <2>2, <3>1
    <2>3. CASE ~Within(p, at, n)
      <3>1. ~(p - 1 >= at /\ p - 1 < at + n)
        BY <1>2, <1>11, <2>3 DEF Within
      <3>2. x[p - 1] = buf[p - 1] /\ new[p] = all[p]
        BY <1>12, <1>14, <2>1, <2>3, <3>1
      <3> QED  BY <1>1, <3>2 DEF Laid, buf
    <2> QED  BY <2>2, <2>3
  <1>16. r.ndone = Len(new) /\ r.checksum = FlattenSeq(Summed(tt))
    BY <1>1, <1>4, <1>13, <1>14
  <1> QED  BY <1>4, <1>5, <1>13, <1>15, <1>16 DEF Holds, new

LEMMA NoItems ==
    /\ << >> \in Seq(Item) /\ Len(<< >>) = 0
    /\ FlattenSeq(Texts(<< >>)) = << >> /\ FlattenSeq(Summed(<< >>)) = << >>
  <1> DEFINE Q == Item
  <1>1. << >> \in Seq(Q) /\ Len(<< >>) = 0
    OBVIOUS
  <1> HIDE DEF Q
  <1>2. Texts(<< >>) = << >> /\ Summed(<< >>) = << >>
    BY <1>1 DEF Texts, Summed
  <1> QED  BY <1>1, <1>2, FlattenEmpty DEF Q

LEMMA HoldsNothing ==
    ASSUME NEW v, Good(v), v.ndone = 0, v.checksum = << >>
    PROVE  Holds(v, << >>)
  <1>1. \A k \in 1 .. Len(<< >>) : FALSE
    BY NoItems
  <1> QED  BY <1>1, NoItems DEF Holds, Laid

LEMMA InvInit == Init => Inv
  <1> SUFFICES ASSUME Init PROVE Inv
    OBVIOUS
  <1>1. PICK size \in Sizes : w = wbuf(size) /\ alive = TRUE /\ items = << >>
    BY DEF Init
  <1> DEFINE A == [0 .. size - 1 -> Content]
             buf == [o \in 0 .. size - 1 |-> Unwritten]
             D == Seq(Byte)
  <1>2. buf \in A /\ << >> \in D /\ size \in Nat
    <2>1. Unwritten \in Content
      BY DEF Content
    <2> QED  BY <2>1, SizesType
  <1> HIDE DEF A, buf, D
  <1>3. w = [buf |-> buf, size |-> size, ndone |-> 0, checksum |-> << >>]
    BY <1>1 DEF wbuf, buf
  <1>4. /\ w \in [buf : A, size : Sizes, ndone : Nat, checksum : D]
        /\ w.size = size /\ w.ndone = 0 /\ w.checksum = << >>
    BY <1>2, <1>3
  <1>5. Good(w)
    BY <1>2, <1>4 DEF Good, A, D
  <1> QED  BY <1>1, <1>4, <1>5, HoldsNothing DEF Inv

-----------------------------------------------------------------------------
(* The actions                                                             *)

LEMMA InvBecomes ==
    ASSUME Inv, NEW r, NEW s, NEW crc, Becomes(r, s, crc),
           r # Failed => Holds(r, Append(items, [bytes |-> s, crc |-> crc]))
    PROVE  Inv'
  <1>1. /\ w' = IF r = Failed THEN w ELSE r
        /\ items' = IF r = Failed THEN items ELSE Append(items, [bytes |-> s, crc |-> crc])
        /\ alive' \in BOOLEAN
    BY DEF Becomes
  <1>2. Holds(w', items')
    <2>1. Holds(w, items)
      BY DEF Inv
    <2>2. CASE r = Failed
      BY <1>1, <2>1, <2>2
    <2>3. CASE r # Failed
      BY <1>1, <2>3
    <2> QED  BY <2>2, <2>3
  <1> QED  BY <1>1, <1>2 DEF Inv

LEMMA InvDoes ==
    ASSUME Inv, NEW r, NEW s \in Seq(Byte), NEW crc \in BOOLEAN, Becomes(r, s, crc),
           Does(r, w, s, crc)
    PROVE  Inv'
  <1>1. Holds(w, items)
    BY DEF Inv
  <1>2. ASSUME r # Failed PROVE Holds(r, Append(items, [bytes |-> s, crc |-> crc]))
    <2>1. Room(w, s) /\ r = Written(w, s, crc)
      BY <1>2 DEF Does
    <2> QED  BY <1>1, <2>1, HoldsWritten
  <1> QED  BY <1>2, InvBecomes

LEMMA InvReserve == Inv /\ Reserve => Inv'
  <1> SUFFICES ASSUME Inv, Reserve PROVE Inv'
    OBVIOUS
  <1>1. PICK s \in Literal : Becomes(nocrc_reserve_literal_bytes(w, Len(s)),
                                     [k \in 1 .. Len(s) |-> Unwritten], FALSE)
    BY DEF Reserve
  <1> DEFINE r == nocrc_reserve_literal_bytes(w, Len(s))
             b == [k \in 1 .. Len(s) |-> Unwritten]
  <1>2. Holds(w, items)
    BY DEF Inv
  <1>3. r # Failed => Holds(r, Append(items, [bytes |-> b, crc |-> FALSE]))
    BY <1>2, HoldsReserved
  <1> HIDE DEF b, r
  <1>4. Becomes(r, b, FALSE)
    BY <1>1 DEF r, b
  <1> QED  BY <1>3, <1>4, InvBecomes

LEMMA InvFill == Inv /\ Fill => Inv'
  <1> SUFFICES ASSUME Inv, Fill PROVE Inv'
    OBVIOUS
  <1>1. PICK k \in DOMAIN items, s \in Literal :
            /\ Len(s) > 0 /\ items[k].bytes = [j \in 1 .. Len(s) |-> Unwritten]
            /\ w' = [w EXCEPT !.buf = Put(@, Begin(k), s)]
            /\ items' = [items EXCEPT ![k].bytes = s]
    BY DEF Fill
  <1>2. Holds(w, items) /\ items \in Seq(Item) /\ alive' \in BOOLEAN
    BY DEF Inv, Holds, Fill
  <1>3. k \in 1 .. Len(items)
    BY <1>2
  <1>4. s \in Seq(Byte)
    BY WbufAssumption
  <1>5. /\ OnlyReserved(items[k].bytes, s) /\ Begins(items, k, Begin(k))
        /\ Overwritten(w', w, Put(w.buf, Begin(k), s)) /\ Filled(items', items, k, s)
    BY <1>1 DEF OnlyReserved, Begins, Begin, Overwritten, Filled
  <1>6. Holds(w', items')
    BY <1>1, <1>2, <1>3, <1>4, <1>5, HoldsFilled
  <1> QED  BY <1>2, <1>6 DEF Inv

LEMMA InvRestart == Inv /\ Restart => Inv'
  <1> SUFFICES ASSUME Inv, Restart PROVE Inv'
    OBVIOUS
  <1>1. Good(w) /\ alive' \in BOOLEAN
    BY DEF Inv, Holds, Restart
  <1>2. Restarted(w', w, 0, << >>) /\ items' = << >>
    BY DEF Restart, Restarted
  <1>3. 0 \in Nat /\ 0 <= w.size /\ << >> \in Seq(Byte)
    BY <1>1, GoodType
  <1>4. Good(w') /\ w'.ndone = 0 /\ w'.checksum = << >>
    <2> DEFINE y == 0
               z == << >>
    <2>1. y \in Nat /\ y <= w.size /\ z \in Seq(Byte) /\ Restarted(w', w, y, z)
      BY <1>2, <1>3
    <2> HIDE DEF y, z
    <2>2. Good(w') /\ w'.ndone = y /\ w'.checksum = z
      BY <1>1, <2>1, DoneAgain
    <2> QED  BY <2>2 DEF y, z
  <1>5. Holds(w', items')
    BY <1>2, <1>4, HoldsNothing
  <1> QED  BY <1>1, <1>5 DEF Inv

LEMMA InvStep == Inv /\ [Next]_vars => Inv'
  <1> SUFFICES ASSUME Inv, [Next]_vars PROVE Inv'
    OBVIOUS
  <1>0. Good(w)
    BY DEF Inv, Holds
  <1>1. CASE AppendByte
    <2>1. PICK ch \in Chars : \/ Becomes(nocrc_char(w, ch), << ch >>, FALSE)
                              \/ Becomes(char(w, ch), << ch >>, TRUE)
      BY <1>1 DEF AppendByte
    <2>2. ch \in Byte /\ << ch >> \in Seq(Byte)
      BY WbufAssumption
    <2>3. Does(nocrc_char(w, ch), w, << ch >>, FALSE) /\ Does(char(w, ch), w, << ch >>, TRUE)
      BY <1>0, <2>2, PutByte
    <2> QED  BY <2>1, <2>2, <2>3, InvDoes
  <1>2. CASE AppendInt
    <2>1. PICK i \in Ints : \/ Becomes(network_int(w, i), Reverse(LowFirst(i)), TRUE)
                            \/ Becomes(nocrc_int(w, i), LowFirst(i), FALSE)
                            \/ Becomes(int(w, i), LowFirst(i), TRUE)
      BY <1>2 DEF AppendInt
    <2>2. i \in Nat
      BY WbufAssumption
    <2>3. /\ Does(network_int(w, i), w, Reverse(LowFirst(i)), TRUE)
          /\ Reverse(LowFirst(i)) \in Seq(Byte)
      BY <1>0, <2>2, PutNetworkInt
    <2>4. /\ Does(nocrc_int(w, i), w, LowFirst(i), FALSE)
          /\ Does(int(w, i), w, LowFirst(i), TRUE) /\ LowFirst(i) \in Seq(Byte)
      BY <1>0, <2>2, PutInt, LowFirstType
    <2> QED  BY <2>1, <2>3, <2>4, InvDoes
  <1>3. CASE AppendLong
    <2>1. PICK ull \in Longs :
              LET should == LowFirst(ull \div Power[IntBytes]) \o LowFirst(ull)
              IN  \/ Becomes(nocrc_ulonglong(w, ull), should, FALSE)
                  \/ Becomes(ulonglong(w, ull), should, TRUE)
      BY <1>3 DEF AppendLong
    <2> DEFINE should == LowFirst(ull \div Power[IntBytes]) \o LowFirst(ull)
    <2>2. ull \in Nat
      BY WbufAssumption
    <2>3. /\ Does(nocrc_ulonglong(w, ull), w, should, FALSE)
          /\ Does(ulonglong(w, ull), w, should, TRUE) /\ should \in Seq(Byte)
      BY <1>0, <2>2, PutLong
    <2>4. Becomes(nocrc_ulonglong(w, ull), should, FALSE) \/ Becomes(ulonglong(w, ull), should, TRUE)
      BY <2>1
    <2> HIDE DEF should
    <2> QED  BY <2>3, <2>4, InvDoes
  <1>4. CASE AppendBytes
    <2>1. PICK s \in Literal :
              \/ Becomes(nocrc_literal_bytes(w, s), s, FALSE)
              \/ Becomes(literal_bytes(w, s), s, TRUE)
              \/ Becomes(nocrc_bytes(w, s), LowFirst(Len(s)) \o s, FALSE)
              \/ Becomes(bytes(w, s), LowFirst(Len(s)) \o s, TRUE)
      BY <1>4 DEF AppendBytes
    <2> DEFINE t == LowFirst(Len(s)) \o s
    <2>2. /\ Does(nocrc_literal_bytes(w, s), w, s, FALSE) /\ s \in Seq(Byte)
          /\ Does(literal_bytes(w, s), w, s, TRUE)
      BY <1>0, PutLiteral
    <2>3. Does(nocrc_bytes(w, s), w, t, FALSE) /\ Does(bytes(w, s), w, t, TRUE)
      BY <1>0, PutBytes
    <2>4. t \in Seq(Byte)
      <3>1. Len(s) \in Nat
        BY <2>2
      <3>2. LowFirst(Len(s)) \in Seq(Byte)
        BY <3>1, LowFirstType
      <3> QED  BY <2>2, <3>2
    <2>5. \/ Becomes(nocrc_literal_bytes(w, s), s, FALSE) \/ Becomes(literal_bytes(w, s), s, TRUE)
          \/ Becomes(nocrc_bytes(w, s), t, FALSE) \/ Becomes(bytes(w, s), t, TRUE)
      BY <2>1
    <2> HIDE DEF t
    <2> QED  BY <2>2, <2>3, <2>4, <2>5, InvDoes
  <1>5. CASE Reserve
    BY <1>5, InvReserve
  <1>6. CASE Fill
    BY <1>6, InvFill
  <1>7. CASE Restart
    BY <1>7, InvRestart
  <1>8. CASE UNCHANGED vars
    BY <1>8 DEF vars, Inv
  <1> QED  BY <1>1, <1>2, <1>3, <1>4, <1>5, <1>6, <1>7, <1>8 DEF Next

\* The wbuf has at every moment what its calls were to make of it: the buffer holds
\* the bytes of the calls one after the other, none outside, and the checksum has had
\* those of the calls that ask for it, none of them only reserved.
THEOREM Invariance == Spec => []Inv
  <1> QED  BY InvInit, InvStep, PTL DEF Spec

LEMMA ShouldAll ==
    ASSUME Inv
    PROVE  Should(LAMBDA item : TRUE) = FlattenSeq(Texts(items))
  <1>1. DOMAIN items = 1 .. Len(items)
    BY DEF Inv, Holds
  <1> QED  BY <1>1 DEF Should, Texts

LEMMA ShouldCovered ==
    ASSUME Inv
    PROVE  Should(LAMBDA item : item.crc) = FlattenSeq(Summed(items))
  <1>1. DOMAIN items = 1 .. Len(items)
    BY DEF Inv, Holds
  <1> QED  BY <1>1 DEF Should, Summed

\* No byte is read or written outside the buffer, and the buffer has the bytes of all
\* calls since it was initialized, one after the other, whatever their number, the
\* size of the buffer and of the integers; also where reserved bytes are filled later.
THEOREM LayoutExactAlways == Spec => []LayoutExact
  <1>1. Inv => LayoutExact
    <2> SUFFICES ASSUME Inv PROVE LayoutExact
      OBVIOUS
    <2> DEFINE all == FlattenSeq(Texts(items))
               should == Should(LAMBDA item : TRUE)
    <2>1. Good(w) /\ w.ndone = Len(all) /\ Laid(w.buf, all) /\ alive \in BOOLEAN /\ items \in Seq(Item)
      BY DEF Inv, Holds
    <2>2. TypeOK
      BY <2>1, GoodType DEF TypeOK, Content
    <2>3. should = all
      BY ShouldAll
    <2>4. all \in Seq(Content)
      BY JoinedType DEF Inv, Holds
    <2> HIDE DEF all, should
    <2>5. DOMAIN all = 1 .. Len(all)
      BY <2>4
    <2>6. /\ w.ndone = Len(should)
          /\ \A k \in DOMAIN should : should[k] # Unwritten => w.buf[k - 1] = should[k]
      BY <2>1, <2>3, <2>5 DEF Laid
    <2> QED  BY <2>2, <2>6 DEF LayoutExact, should
  <1> QED  BY <1>1, Invariance, PTL

\* The checksum has had the bytes of exactly the calls that ask for it, in order, as
\* they are in the buffer: also where a function appends in several steps, and where
\* it takes its bytes back from what it has just written.
THEOREM ChecksumExactAlways == Spec => []ChecksumExact
  <1>1. Inv => ChecksumExact
    BY ShouldCovered DEF ChecksumExact, Inv, Holds
  <1> QED  BY <1>1, Invariance, PTL

LEMMA JoinedLength ==
    ASSUME NEW S, NEW a \in Seq(S), NEW b \in Seq(S), NEW m, NEW n, Len(a) = m, Len(b) = n
    PROVE  a \o b \in Seq(S) /\ Len(a \o b) = m + n
  OBVIOUS

LEMMA FailsUnlessRoom ==
    ASSUME NEW v, Good(v), NEW s \in Seq(Byte), NEW crc \in BOOLEAN, NEW r, Does(r, v, s, crc)
    PROVE  r = Failed <=> v.ndone + Len(s) > v.size
  <1>1. v.ndone \in Nat /\ v.size \in Nat
    BY GoodType
  <1>2. Len(s) \in Nat
    OBVIOUS
  <1>3. Room(v, s) => r # Failed
    BY NotFailed DEF Does
  <1>4. ~Room(v, s) => r = Failed
    BY DEF Does
  <1> QED  BY <1>1, <1>2, <1>3, <1>4 DEF Room

\* What a function appends to v, seen from outside: it needs room for the whole.
NeedsRoom(v, r, n) == r = Failed <=> v.ndone + n > v.size

LEMMA NeedsRoomOf ==
    ASSUME NEW v, Good(v), NEW s \in Seq(Byte), NEW crc \in BOOLEAN, NEW r, Does(r, v, s, crc),
           NEW n, Len(s) = n
    PROVE  NeedsRoom(v, r, n)
  BY FailsUnlessRoom DEF NeedsRoom

\* In every state each function's assertions stop the program exactly when the bytes
\* of the whole value are more than what is left of the buffer.
FailsWhenFull ==
    /\ \A ch \in Chars : NeedsRoom(w, nocrc_char(w, ch), 1) /\ NeedsRoom(w, char(w, ch), 1)
    /\ \A i \in Ints : /\ NeedsRoom(w, network_int(w, i), IntBytes)
                       /\ NeedsRoom(w, nocrc_int(w, i), IntBytes)
                       /\ NeedsRoom(w, int(w, i), IntBytes)
    /\ \A ull \in Longs : /\ NeedsRoom(w, nocrc_ulonglong(w, ull), IntBytes + IntBytes)
                          /\ NeedsRoom(w, ulonglong(w, ull), IntBytes + IntBytes)
    /\ \A s \in Literal : /\ NeedsRoom(w, nocrc_literal_bytes(w, s), Len(s))
                          /\ NeedsRoom(w, literal_bytes(w, s), Len(s))
                          /\ NeedsRoom(w, nocrc_bytes(w, s), IntBytes + Len(s))
                          /\ NeedsRoom(w, bytes(w, s), IntBytes + Len(s))

\* wbuf_char, wbuf_int and the others, in every state a program reaches: the assertions
\* stop it exactly when the value does not fit as a whole into what is left of the
\* buffer.  Each part is asserted on its own, at the place the part before it has moved
\* ndone to; the theorem says that these assertions together are the one for the whole.
\* It holds under WbufAssumption, which has no sum of a buffer's size and a length
\* reach Modulus: nothing is claimed of sums that wrap around.
THEOREM FailsExactlyWhenFull == Spec => []FailsWhenFull
  <1>1. Inv => FailsWhenFull
    <2> SUFFICES ASSUME Inv PROVE FailsWhenFull
      OBVIOUS
    <2>1. Good(w)
      BY DEF Inv, Holds
    <2>2. ASSUME NEW ch \in Chars
          PROVE  NeedsRoom(w, nocrc_char(w, ch), 1) /\ NeedsRoom(w, char(w, ch), 1)
      <3>1. ch \in Byte
        BY WbufAssumption
      <3>2. <<ch>> \in Seq(Byte) /\ Len(<<ch>>) = 1
        BY <3>1
      <3> QED  BY <2>1, <3>1, <3>2, PutByte, NeedsRoomOf
    <2>3. ASSUME NEW i \in Ints
          PROVE  /\ NeedsRoom(w, network_int(w, i), IntBytes)
                 /\ NeedsRoom(w, nocrc_int(w, i), IntBytes)
                 /\ NeedsRoom(w, int(w, i), IntBytes)
      <3> DEFINE a == LowFirst(i)
                 b == Reverse(LowFirst(i))
      <3>1. i \in Nat
        <4>1. Ints \subseteq Nat
          BY WbufAssumption
        <4> QED  BY <4>1
      <3>2. a \in Seq(Byte) /\ Len(a) = IntBytes /\ b \in Seq(Byte) /\ Len(b) = IntBytes
        BY <3>1, LowFirstType, ReversedType
      <3>3. /\ Does(network_int(w, i), w, b, TRUE)
            /\ Does(nocrc_int(w, i), w, a, FALSE) /\ Does(int(w, i), w, a, TRUE)
        BY <2>1, <3>1, PutInt, PutNetworkInt
      <3> HIDE DEF a, b
      <3> QED  BY <2>1, <3>2, <3>3, NeedsRoomOf
    <2>4. ASSUME NEW ull \in Longs
          PROVE  /\ NeedsRoom(w, nocrc_ulonglong(w, ull), IntBytes + IntBytes)
                 /\ NeedsRoom(w, ulonglong(w, ull), IntBytes + IntBytes)
      <3> DEFINE c == LowFirst(ull \div Power[IntBytes])
                 d == LowFirst(ull)
                 cd == c \o d
      <3>1. ull \in Nat
        <4>1. Longs \subseteq Nat
          BY WbufAssumption
        <4> QED  BY <4>1
      <3>2. ull \div Power[IntBytes] \in Nat
        BY <3>1, LowBytes DEF High
      <3>3. c \in Seq(Byte) /\ Len(c) = IntBytes /\ d \in Seq(Byte) /\ Len(d) = IntBytes
        BY <3>1, <3>2, LowFirstType
      <3>4. Does(nocrc_ulonglong(w, ull), w, cd, FALSE) /\ Does(ulonglong(w, ull), w, cd, TRUE)
        BY <2>1, <3>1, PutLong
      <3> HIDE DEF c, d
      <3>5. cd \in Seq(Byte) /\ Len(cd) = IntBytes + IntBytes
        BY <3>3, JoinedLength
      <3> HIDE DEF cd
      <3> QED  BY <2>1, <3>4, <3>5, NeedsRoomOf
    <2>5. ASSUME NEW s \in Literal
          PROVE  /\ NeedsRoom(w, nocrc_literal_bytes(w, s), Len(s))
                 /\ NeedsRoom(w, literal_bytes(w, s), Len(s))
                 /\ NeedsRoom(w, nocrc_bytes(w, s), IntBytes + Len(s))
                 /\ NeedsRoom(w, bytes(w, s), IntBytes + Len(s))
      <3> DEFINE e == LowFirst(Len(s))
                 es == e \o s
      <3>1. s \in Seq(Byte)
        BY WbufAssumption
      <3>2. Len(s) \in Nat
        BY <3>1
      <3>3. e \in Seq(Byte) /\ Len(e) = IntBytes
        BY <3>2, LowFirstType
      <3>4. /\ Does(nocrc_literal_bytes(w, s), w, s, FALSE)
            /\ Does(literal_bytes(w, s), w, s, TRUE)
        BY <2>1, PutLiteral
      <3>5. Does(nocrc_bytes(w, s), w, es, FALSE) /\ Does(bytes(w, s), w, es, TRUE)
        BY <2>1, PutBytes
      <3> HIDE DEF e
      <3>6. es \in Seq(Byte) /\ Len(es) = IntBytes + Len(s)
        BY <3>1, <3>3, JoinedLength
      <3> HIDE DEF es
      <3> QED  BY <2>1, <3>1, <3>4, <3>5, <3>6, NeedsRoomOf
    <2> QED  BY <2>2, <2>3, <2>4, <2>5 DEF FailsWhenFull
  <1> QED  BY <1>1, Invariance, PTL

=============================================================================
