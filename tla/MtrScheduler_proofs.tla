------------------------ MODULE MtrScheduler_proofs ------------------------
(***************************************************************************)
(* For every suite and every number of workers: no test is lost or run     *)
(* twice between the master and its workers, tests run in parallel only    *)
(* where they may, the master is an MtrSuite, and retries and failures     *)
(* stay within their limits.                                               *)
(***************************************************************************)
EXTENDS MtrScheduler, TLAPS, FiniteSetTheorems, WellFoundedInduction

\* The least number principle: the form in which these proofs use induction.
LEMMA LeastNumber ==
    ASSUME NEW T, T \subseteq Nat, T # {}
    PROVE  \E x \in T : \A y \in T : x <= y
  <1> DEFINE R == OpToRel(<, Nat)
  <1>1. IsWellFoundedOn(R, Nat)
    BY NatLessThanWellFounded
  <1>2. \A p : p \in R <=> p \in Nat \X Nat /\ p[1] < p[2]
    BY DEF OpToRel
  <1> HIDE DEF R
  <1>3. PICK x \in T : \A y \in T : ~ (<<y, x>> \in R)
    BY <1>1, WFMin
  <1>4. \A y \in T : ~ (y < x)
    BY <1>2, <1>3
  <1> QED  BY <1>3, <1>4

(* The helpers First and At.                                               *)

LEMMA FirstIsLeast ==
    ASSUME NEW S, S \subseteq Nat, S # {}
    PROVE  First(S) \in S /\ \A j \in S : First(S) <= j
  <1>1. \E i \in S : \A j \in S : i <= j
    BY LeastNumber
  <1> QED  BY <1>1 DEF First

Rank(P, i) == Cardinality({j \in P : j <= i})
Ranked(P, n) == CHOOSE i \in P : Rank(P, i) = n

LEMMA RanksDiffer ==
    ASSUME NEW P, P \subseteq Nat, IsFiniteSet(P), NEW i \in P, NEW j \in P, i < j
    PROVE  Rank(P, i) < Rank(P, j)
  <1> DEFINE S == {k \in P : k <= i}
             T == {k \in P : k <= j}
  <1>1. IsFiniteSet(T)
    BY FS_Subset
  <1>a. i \in Nat /\ j \in Nat /\ \A k \in P : k \in Nat
    OBVIOUS
  <1>2. S \subseteq T /\ j \in T /\ j \notin S
    <2>1. \A k \in P : k <= i => k <= j
      BY <1>a
    <2>2. j <= j /\ ~ (j <= i)
      BY <1>a
    <2> QED  BY <2>1, <2>2
  <1> HIDE DEF S, T
  <1>3. Cardinality(S) <= Cardinality(T) /\ (Cardinality(S) = Cardinality(T) => S = T) /\ IsFiniteSet(S)
    BY <1>1, <1>2, FS_Subset
  <1>4. Cardinality(S) \in Nat /\ Cardinality(T) \in Nat
    BY <1>1, <1>3, FS_CardinalityType
  <1>5. Cardinality(S) < Cardinality(T)
    BY <1>2, <1>3, <1>4
  <1> QED  BY <1>5 DEF Rank, S, T

\* Every rank is taken by one position.
LEMMA Ranks ==
    ASSUME NEW P, P \subseteq Nat, IsFiniteSet(P)
    PROVE  /\ Cardinality(P) \in Nat
           /\ \A n \in 1..Cardinality(P) : Ranked(P, n) \in P /\ Rank(P, Ranked(P, n)) = n
           /\ \A i \in P : Rank(P, i) \in 1..Cardinality(P) /\ Ranked(P, Rank(P, i)) = i
  <1> DEFINE N == 1..Cardinality(P)
             r == [i \in P |-> Rank(P, i)]
  <1>1. Cardinality(P) \in Nat
    BY FS_CardinalityType
  <1>2. ASSUME NEW i \in P PROVE Rank(P, i) \in N
    <2> DEFINE S == {k \in P : k <= i}
    <2>1. IsFiniteSet(S) /\ Cardinality(S) <= Cardinality(P)
      BY FS_Subset
    <2>2. i \in S
      OBVIOUS
    <2> HIDE DEF S
    <2>3. Cardinality(S) \in Nat /\ Cardinality(S) # 0
      BY <2>1, <2>2, FS_CardinalityType, FS_EmptySet
    <2>4. Cardinality(S) \in N
      BY <1>1, <2>1, <2>3
    <2> QED  BY <2>4 DEF Rank, S
  <1>3. ASSUME NEW i \in P, NEW j \in P, Rank(P, i) = Rank(P, j) PROVE i = j
    <2>1. Rank(P, i) \in Nat
      BY <1>1, <1>2
    <2>2. ASSUME i < j PROVE FALSE
      <3>1. Rank(P, i) < Rank(P, j)
        BY <2>2, RanksDiffer
      <3> QED  BY <1>3, <2>1, <3>1
    <2>3. ASSUME j < i PROVE FALSE
      <3>1. Rank(P, j) < Rank(P, i)
        BY <2>3, RanksDiffer
      <3> QED  BY <1>3, <2>1, <3>1
    <2>4. i \in Nat /\ j \in Nat
      OBVIOUS
    <2> QED  BY <2>2, <2>3, <2>4
  <1>4. IsFiniteSet(N) /\ Cardinality(N) = Cardinality(P)
    <2>1. IsFiniteSet(N) /\ Cardinality(N) = IF 1 > Cardinality(P) THEN 0 ELSE Cardinality(P) - 1 + 1
      BY <1>1, FS_Interval
    <2> QED  BY <1>1, <2>1
  <1>5. r \in [P -> N]
    BY <1>2
  <1>6. \A i, j \in P : r[i] = r[j] => i = j
    BY <1>3
  <1> HIDE DEF r, N
  <1>7. r \in Injection(P, N)
    BY <1>5, <1>6 DEF Injection, IsInjective
  <1>8. r \in Surjection(P, N)
    BY <1>4, <1>7, FS_Injection
  <1>9. \A n \in N : \E i \in P : r[i] = n
    BY <1>8 DEF Surjection
  <1>10. \A n \in N : Ranked(P, n) \in P /\ Rank(P, Ranked(P, n)) = n
    BY <1>9 DEF Ranked, r
  <1>11. \A i \in P : Ranked(P, Rank(P, i)) = i
    BY <1>2, <1>3, <1>10
  <1> QED  BY <1>1, <1>2, <1>10, <1>11 DEF N

\* The elements that At takes, and that it takes each once.
LEMMA AtTakes ==
    ASSUME NEW s, NEW P, P \subseteq Nat, IsFiniteSet(P)
    PROVE  /\ DOMAIN At(s, P) = 1..Cardinality(P) /\ Cardinality(P) \in Nat
           /\ \A n \in DOMAIN At(s, P) : Ranked(P, n) \in P /\ At(s, P)[n] = s[Ranked(P, n)]
           /\ \A i \in P : \E n \in DOMAIN At(s, P) : Ranked(P, n) = i /\ At(s, P)[n] = s[i]
           /\ \A n, m \in DOMAIN At(s, P) : Ranked(P, n) = Ranked(P, m) => n = m
  <1>1. At(s, P) = [n \in 1..Cardinality(P) |-> s[Ranked(P, n)]]
    BY DEF At, Ranked, Rank
  <1>2. /\ Cardinality(P) \in Nat
        /\ \A n \in 1..Cardinality(P) : Ranked(P, n) \in P /\ Rank(P, Ranked(P, n)) = n
        /\ \A i \in P : Rank(P, i) \in 1..Cardinality(P) /\ Ranked(P, Rank(P, i)) = i
    BY Ranks
  <1> DEFINE a == At(s, P)
             N == 1..Cardinality(P)
  <1>3. DOMAIN a = N /\ \A n \in N : a[n] = s[Ranked(P, n)]
    BY <1>1
  <1> HIDE DEF a, N
  <1>4. \A i \in P : \E n \in N : Ranked(P, n) = i /\ a[n] = s[i]
    BY <1>2, <1>3 DEF N
  <1>5. \A n, m \in N : Ranked(P, n) = Ranked(P, m) => n = m
    BY <1>2 DEF N
  <1> QED  BY <1>2, <1>3, <1>4, <1>5 DEF a, N

Unique(s) == \A i, j \in DOMAIN s : s[i].id = s[j].id => i = j

LEMMA AtTyped ==
    ASSUME NEW T, NEW s \in Seq(T), NEW P, P \subseteq DOMAIN s
    PROVE  /\ At(s, P) \in Seq(T)
           /\ Ids(At(s, P)) = {s[i].id : i \in P}
           /\ Unique(s) => Unique(At(s, P))
           /\ At(s, P) = <<>> <=> P = {}
  <1>1. P \subseteq Nat /\ IsFiniteSet(P) /\ \A i \in P : s[i] \in T
    <2>1. DOMAIN s = 1 .. Len(s) /\ Len(s) \in Nat
      OBVIOUS
    <2>2. IsFiniteSet(1 .. Len(s))
      BY <2>1, FS_Interval
    <2> QED  BY <2>1, <2>2, FS_Subset
  <1> DEFINE a == At(s, P)
  <1>2. /\ DOMAIN a = 1..Cardinality(P) /\ Cardinality(P) \in Nat
        /\ \A n \in DOMAIN a : Ranked(P, n) \in P /\ a[n] = s[Ranked(P, n)]
        /\ \A i \in P : \E n \in DOMAIN a : Ranked(P, n) = i /\ a[n] = s[i]
        /\ \A n, m \in DOMAIN a : Ranked(P, n) = Ranked(P, m) => n = m
    BY <1>1, AtTakes
  <1>3. a \in Seq(T)
    <2>1. a = [n \in 1..Cardinality(P) |-> a[n]]
      BY DEF At
    <2> HIDE DEF a
    <2>2. \A n \in 1..Cardinality(P) : a[n] \in T
      BY <1>1, <1>2
    <2> QED  BY <1>2, <2>1, <2>2
  <1> HIDE DEF a
  <1>4. Ids(a) = {s[i].id : i \in P}
    BY <1>2 DEF Ids
  <1>5. Unique(s) => Unique(a)
    BY <1>2 DEF Unique
  <1>6. a = <<>> <=> P = {}
    BY <1>2, <1>3
  <1> QED  BY <1>3, <1>4, <1>5, <1>6 DEF a
-----------------------------------------------------------------------------
(* A queue of messages, some of which bear a test.                         *)

Bearing(q) == {i \in DOMAIN q : q[i].type \in {"TESTCASE", "TESTRESULT"}}
Borne(m) == IF m.type \in {"TESTCASE", "TESTRESULT"} THEN {m.test.id} ELSE {}
IdsIn(q) == {q[i].test.id : i \in Bearing(q)}
OnceEach(q) == \A i, j \in Bearing(q) : q[i].test.id = q[j].test.id => i = j

LEMMA AppendBears ==
    ASSUME NEW M, NEW q \in Seq(M), NEW m \in M
    PROVE  /\ Append(q, m) \in Seq(M)
           /\ IdsIn(Append(q, m)) = IdsIn(q) \cup Borne(m)
           /\ OnceEach(q) /\ IdsIn(q) \cap Borne(m) = {} => OnceEach(Append(q, m))
  <1> DEFINE a == Append(q, m)
             n == Len(q) + 1
  <1>1. /\ a \in Seq(M) /\ DOMAIN a = DOMAIN q \cup {n} /\ n \notin DOMAIN q
        /\ a[n] = m /\ \A i \in DOMAIN q : a[i] = q[i]
    OBVIOUS
  <1> HIDE DEF a, n
  <1>2. \A i : i \in Bearing(a) <=> i \in Bearing(q) \/ (i = n /\ Borne(m) # {})
    BY <1>1 DEF Bearing, Borne
  <1>3. Borne(m) # {} => Borne(m) = {m.test.id}
    BY DEF Borne
  <1>4. \A i \in Bearing(q) : i \in DOMAIN q /\ a[i] = q[i] /\ i # n
    BY <1>1 DEF Bearing
  <1>5. IdsIn(a) = IdsIn(q) \cup Borne(m)
    BY <1>1, <1>2, <1>3, <1>4 DEF IdsIn
  <1>6. OnceEach(q) /\ IdsIn(q) \cap Borne(m) = {} => OnceEach(a)
    BY <1>1, <1>2, <1>3, <1>4 DEF OnceEach, IdsIn
  <1> QED  BY <1>1, <1>5, <1>6 DEF a

LEMMA TailBears ==
    ASSUME NEW M, NEW q \in Seq(M), q # <<>>
    PROVE  /\ Tail(q) \in Seq(M) /\ Head(q) \in M
           /\ IdsIn(Tail(q)) \subseteq IdsIn(q)
           /\ Borne(Head(q)) \subseteq IdsIn(q)
           /\ IdsIn(q) \subseteq IdsIn(Tail(q)) \cup Borne(Head(q))
           /\ OnceEach(q) => OnceEach(Tail(q)) /\ IdsIn(Tail(q)) \cap Borne(Head(q)) = {}
  <1> DEFINE a == Tail(q)
             m == Head(q)
  <1>1. /\ a \in Seq(M) /\ m \in M /\ m = q[1] /\ 1 \in DOMAIN q
        /\ \A i \in DOMAIN a : i + 1 \in DOMAIN q /\ a[i] = q[i + 1] /\ i \in Nat /\ i # 0
        /\ \A i \in DOMAIN q : i = 1 \/ (i - 1 \in DOMAIN a /\ a[i - 1] = q[i])
        /\ \A i \in DOMAIN q : i \in Int
    OBVIOUS
  <1> HIDE DEF a, m
  <1>2. \A i \in Bearing(a) : i + 1 \in Bearing(q) /\ a[i] = q[i + 1] /\ i + 1 # 1 /\ i \in Int
    BY <1>1 DEF Bearing
  <1>3. \A i \in Bearing(q) : i = 1 \/ (i - 1 \in Bearing(a) /\ a[i - 1] = q[i])
    BY <1>1 DEF Bearing
  <1>4. (1 \in Bearing(q) <=> Borne(m) # {}) /\ (Borne(m) # {} => Borne(m) = {q[1].test.id})
    BY <1>1 DEF Bearing, Borne
  <1>5. IdsIn(a) \subseteq IdsIn(q)
    BY <1>2 DEF IdsIn
  <1>6. Borne(m) \subseteq IdsIn(q)
    BY <1>4 DEF IdsIn
  <1>7. IdsIn(q) \subseteq IdsIn(a) \cup Borne(m)
    <2> SUFFICES ASSUME NEW i \in Bearing(q)
                 PROVE  q[i].test.id \in IdsIn(a) \cup Borne(m)
      BY DEF IdsIn
    <2>1. CASE i = 1
      BY <1>4, <2>1
    <2>2. CASE i # 1
      BY <1>3, <2>2 DEF IdsIn
    <2> QED  BY <2>1, <2>2
  <1>8. ASSUME OnceEach(q)
        PROVE  OnceEach(a) /\ IdsIn(a) \cap Borne(m) = {}
    <2>1. ASSUME NEW i \in Bearing(a), NEW j \in Bearing(a), a[i].test.id = a[j].test.id
          PROVE  i = j
      <3>1. i + 1 = j + 1
        BY <1>2, <1>8, <2>1 DEF OnceEach
      <3> QED  BY <1>2, <3>1
    <2>2. ASSUME NEW i \in Bearing(a), a[i].test.id \in Borne(m)
          PROVE  FALSE
      <3>1. 1 \in Bearing(q) /\ q[i + 1].test.id = q[1].test.id /\ i + 1 \in Bearing(q)
        BY <1>2, <1>4, <2>2
      <3> QED  BY <1>2, <1>8, <3>1 DEF OnceEach
    <2> QED  BY <2>1, <2>2 DEF OnceEach, IdsIn
  <1> QED  BY <1>1, <1>5, <1>6, <1>7, <1>8 DEF a, m

\* Messages that bear no test change nothing.
LEMMA ConcatBears ==
    ASSUME NEW M, NEW q \in Seq(M), NEW r \in Seq(M), Bearing(r) = {}
    PROVE  /\ q \o r \in Seq(M)
           /\ IdsIn(q \o r) = IdsIn(q)
           /\ OnceEach(q) => OnceEach(q \o r)
  <1> DEFINE a == q \o r
  <1>1. /\ a \in Seq(M)
        /\ \A i \in DOMAIN q : i \in DOMAIN a /\ a[i] = q[i]
        /\ \A i \in DOMAIN a : i \in DOMAIN q \/ (i - Len(q) \in DOMAIN r /\ a[i] = r[i - Len(q)])
    OBVIOUS
  <1> HIDE DEF a
  <1>2. \A i : i \in Bearing(a) <=> i \in Bearing(q)
    BY <1>1 DEF Bearing
  <1>3. \A i \in Bearing(q) : a[i] = q[i]
    BY <1>1 DEF Bearing
  <1> QED  BY <1>1, <1>2, <1>3 DEF IdsIn, OnceEach, a

(* Sequences of tests.                                                     *)

LEMMA TailIds ==
    ASSUME NEW T, NEW s \in Seq(T), s # <<>>
    PROVE  /\ Tail(s) \in Seq(T) /\ Head(s) \in T
           /\ Ids(s) = Ids(Tail(s)) \cup {Head(s).id}
           /\ Unique(s) => Unique(Tail(s)) /\ Head(s).id \notin Ids(Tail(s))
  <1> DEFINE a == Tail(s)
             m == Head(s)
  <1>1. /\ a \in Seq(T) /\ m \in T /\ m = s[1] /\ 1 \in DOMAIN s
        /\ \A i \in DOMAIN a : i + 1 \in DOMAIN s /\ a[i] = s[i + 1] /\ i \in Nat /\ i + 1 # 1
        /\ \A i \in DOMAIN s : i = 1 \/ (i - 1 \in DOMAIN a /\ a[i - 1] = s[i])
    OBVIOUS
  <1> HIDE DEF a, m
  <1>2. Ids(s) = Ids(a) \cup {m.id}
    <2>1. \A i \in DOMAIN a : a[i].id \in Ids(s)
      BY <1>1 DEF Ids
    <2>2. m.id \in Ids(s)
      BY <1>1 DEF Ids
    <2>3. \A i \in DOMAIN s : s[i].id \in Ids(a) \cup {m.id}
      BY <1>1 DEF Ids
    <2> QED  BY <2>1, <2>2, <2>3 DEF Ids
  <1>3. ASSUME Unique(s)
        PROVE  Unique(a) /\ m.id \notin Ids(a)
    <2>1. ASSUME NEW i \in DOMAIN a, NEW j \in DOMAIN a, a[i].id = a[j].id
          PROVE  i = j
      <3>1. i + 1 \in DOMAIN s /\ j + 1 \in DOMAIN s /\ s[i + 1].id = s[j + 1].id
        BY <1>1, <2>1
      <3>2. i + 1 = j + 1
        BY <1>3, <3>1 DEF Unique
      <3> QED  BY <1>1, <3>2
    <2>2. \A i \in DOMAIN a : a[i].id # m.id
      BY <1>1, <1>3 DEF Unique
    <2> QED  BY <2>1, <2>2 DEF Unique, Ids
  <1> QED  BY <1>1, <1>2, <1>3 DEF a, m

LEMMA ConcatIds ==
    ASSUME NEW T, NEW s \in Seq(T), NEW r \in Seq(T)
    PROVE  /\ s \o r \in Seq(T)
           /\ Ids(s \o r) = Ids(s) \cup Ids(r)
           /\ Unique(s) /\ Unique(r) /\ Ids(s) \cap Ids(r) = {} => Unique(s \o r)
  <1> DEFINE a == s \o r
             n == Len(s)
  <1>1. /\ a \in Seq(T) /\ n \in Nat
        /\ \A i \in DOMAIN s : i \in DOMAIN a /\ a[i] = s[i]
        /\ \A i \in DOMAIN r : i + n \in DOMAIN a /\ a[i + n] = r[i]
        /\ \A i \in DOMAIN a : i \in Int /\ (i \in DOMAIN s \/ (i - n \in DOMAIN r /\ a[i] = r[i - n]))
    OBVIOUS
  <1> HIDE DEF a, n
  <1>2. Ids(a) = Ids(s) \cup Ids(r)
    <2>1. \A i \in DOMAIN s : s[i].id \in Ids(a)
      BY <1>1 DEF Ids
    <2>2. \A i \in DOMAIN r : r[i].id \in Ids(a)
      BY <1>1 DEF Ids
    <2>3. \A i \in DOMAIN a : a[i].id \in Ids(s) \cup Ids(r)
      BY <1>1 DEF Ids
    <2> QED  BY <2>1, <2>2, <2>3 DEF Ids
  <1>3. ASSUME Unique(s), Unique(r), Ids(s) \cap Ids(r) = {}, NEW i \in DOMAIN a, NEW j \in DOMAIN a,
               a[i].id = a[j].id
        PROVE  i = j
    <2>1. CASE i \in DOMAIN s /\ j \in DOMAIN s
      BY <1>1, <1>3, <2>1 DEF Unique
    <2>2. CASE i \notin DOMAIN s /\ j \notin DOMAIN s
      <3>1. i - n \in DOMAIN r /\ j - n \in DOMAIN r /\ r[i - n].id = r[j - n].id
        BY <1>1, <1>3, <2>2
      <3>2. i - n = j - n
        BY <1>3, <3>1 DEF Unique
      <3> QED  BY <1>1, <3>2
    <2>3. CASE i \in DOMAIN s /\ j \notin DOMAIN s
      <3>1. a[i].id \in Ids(s) /\ a[j].id \in Ids(r)
        BY <1>1, <2>3 DEF Ids
      <3> QED  BY <1>3, <3>1
    <2>4. CASE i \notin DOMAIN s /\ j \in DOMAIN s
      <3>1. a[i].id \in Ids(r) /\ a[j].id \in Ids(s)
        BY <1>1, <2>4 DEF Ids
      <3> QED  BY <1>3, <3>1
    <2> QED  BY <2>1, <2>2, <2>3, <2>4
  <1> QED  BY <1>1, <1>2, <1>3 DEF a, Unique
-----------------------------------------------------------------------------
(* Types.                                                                  *)

\* Only valgrind warns of anything.
Carried == {t \in Travelling : t.warned => opt.valgrind}

\* A test that has not been given out yet.
Untried == {t \in Carried : t.failures = 0 /\ t.retries = 0}

UpMsg == [type : {"START", "SPENT", "VALGREP"}] \cup [type : {"TESTRESULT"}, test : Carried]
DownMsg == [type : {"HELLO", "BYE"}] \cup [type : {"TESTCASE"}, test : Carried]

Typed ==
    /\ opt \in Options
    /\ main \in {"serving", "returned", "aborted", "killed", "internal_error", "completed", "failed"}
    /\ tests \in Seq(Untried) /\ nonParallel \in Seq(Untried)
    /\ running \subseteq Tests
    /\ completed \in [Tests -> Seq(Carried)]
    /\ lastWorker \in 0..opt.parallel
    /\ numNdb \in Int /\ numFailed \in Nat
    /\ completedWid \in 0..opt.parallel /\ childs \in 0..opt.parallel
    /\ link \in [Workers -> {"none", "pending", "open", "closed"}]
    /\ worker \in [Workers -> {"forked", "connected", "waiting", "running", "gone"}]
    /\ errors \in 0..opt.errors
    /\ outcomes \in [Tests -> Seq({"passed", "failed", "skipped"})]
    /\ toMaster \in [Workers -> Seq(UpMsg)]
    /\ toWorker \in [Workers -> Seq(DownMsg)]
    /\ holds \in [Workers -> Seq(Carried)]

LEMMA OptionsTyped ==
    ASSUME opt \in Options
    PROVE  /\ opt.parallel \in Nat \ {0} /\ opt.parallel <= Len(opt.list)
           /\ opt.list \in Seq(Tests) /\ opt.list # <<>> /\ Cardinality(Tests) = Len(opt.list)
           /\ opt.not_parallel \subseteq Tests /\ opt.ndb_test \subseteq Tests
           /\ opt.skip \subseteq Tests /\ opt.exp_fail \subseteq Tests
           /\ opt.max_ndb \in Nat \ {0}
           /\ opt.retry \in Nat /\ opt.retry_failure \in Nat /\ opt.max_test_fail \in Nat
           /\ opt.repeat \in Nat \ {0} /\ opt.errors \in Nat
           /\ opt.force \in BOOLEAN /\ opt.valgrind \in BOOLEAN /\ opt.reorder \in BOOLEAN
           /\ opt.report_times \in BOOLEAN /\ opt.timed \in BOOLEAN
  <1>1. IsOptions(opt)
    BY SchedulerAssumption
  <1>2. Len(opt.list) \in Nat
    BY <1>1 DEF IsOptions
  <1>3. opt.parallel \in 1..Len(opt.list) /\ opt.max_ndb \in 1..opt.parallel
    BY <1>1 DEF IsOptions
  <1>4. /\ opt.parallel \in Nat \ {0} /\ opt.parallel <= Len(opt.list)
        /\ opt.max_ndb \in Nat \ {0}
    BY <1>2, <1>3
  <1> QED  BY <1>1, <1>4 DEF IsOptions, Tests

LEMMA TestsFinite ==
    ASSUME opt \in Options
    PROVE  /\ IsFiniteSet(Tests)
           /\ \A i, j \in DOMAIN opt.list : opt.list[i] = opt.list[j] => i = j
  <1> DEFINE D == DOMAIN opt.list
             f == [i \in D |-> opt.list[i]]
  <1>1. Cardinality(Tests) = Len(opt.list) /\ Len(opt.list) \in Nat /\ D = 1..Len(opt.list)
    BY OptionsTyped
  <1>2. IsFiniteSet(D) /\ Cardinality(D) = Len(opt.list)
    <2>1. PICK n \in Nat : n = Len(opt.list)
      BY <1>1
    <2>2. IsFiniteSet(1..n) /\ Cardinality(1..n) = IF 1 > n THEN 0 ELSE n - 1 + 1
      BY FS_Interval
    <2>3. Cardinality(1..n) = n
      BY <2>2
    <2> QED  BY <1>1, <2>1, <2>2, <2>3
  <1>3. f \in Surjection(D, Tests)
    BY DEF Surjection, Tests
  <1> HIDE DEF f, D
  <1>4. IsFiniteSet(Tests) /\ f \in Injection(D, Tests)
    BY <1>1, <1>2, <1>3, FS_Surjection
  <1>5. \A i, j \in D : f[i] = f[j] => i = j
    BY <1>4 DEF Injection, IsInjective
  <1> QED  BY <1>4, <1>5 DEF f, D

LEMMA Narrower ==
    /\ Untried \subseteq Carried /\ Carried \subseteq Travelling
    /\ \A s \in Seq(Untried) : s \in Seq(Carried)
    /\ \A s \in Seq(Carried) : s \in Seq(Travelling)
  <1>1. Untried \subseteq Carried /\ Carried \subseteq Travelling
    BY DEF Untried, Carried
  <1> QED  BY <1>1

\* Nothing changes the options.
LEMMA SameOptions ==
    ASSUME opt' = opt
    PROVE  /\ Tests' = Tests /\ Carried' = Carried /\ Untried' = Untried
           /\ UpMsg' = UpMsg /\ DownMsg' = DownMsg
  BY DEF Tests, Untried, Carried, Travelling, UpMsg, DownMsg

-----------------------------------------------------------------------------
(* The search for the next test.                                           *)

LEMMA ChosenIsOpen ==
    ASSUME Typed, NEW n, NEW wid
    PROVE  /\ Open(n) \subseteq DOMAIN tests /\ Suited(n, wid) \subseteq Open(n)
           /\ DOMAIN tests \subseteq Nat
           /\ Chosen(n, wid) \subseteq Open(n)
           /\ Chosen(n, wid) \subseteq Scanned(n, wid)
           /\ Scanned(n, wid) \subseteq DOMAIN tests
           /\ Chosen(n, wid) # {} => \E i : Chosen(n, wid) = {i}
           /\ Chosen(n, wid) = {} <=> Open(n) = {}
  <1> DEFINE S == Suited(n, wid)
             O == Open(n)
             D == DOMAIN tests
  <1>1. D = 1 .. Len(tests) /\ Len(tests) \in Nat /\ D \subseteq Nat
    BY DEF Typed
  <1>2. S \subseteq O /\ O \subseteq D
    BY DEF Suited, Open
  <1> HIDE DEF S, O, D
  <1>3. S # {} => First(S) \in S
    BY <1>1, <1>2, FirstIsLeast
  <1>4. O # {} => First(O) \in O
    BY <1>1, <1>2, FirstIsLeast
  <1>5. Chosen(n, wid) = IF S # {} THEN {First(S)} ELSE IF O # {} THEN {First(O)} ELSE {}
    BY DEF Chosen, S, O
  <1>6. Scanned(n, wid) = IF S # {} THEN 1..First(S) ELSE D
    BY DEF Scanned, S, D
  <1>7. CASE S # {}
    <2>1. First(S) \in D /\ First(S) \in 1..First(S) /\ 1..First(S) \subseteq D
      <3>1. First(S) \in Nat /\ First(S) \in D
        BY <1>1, <1>2, <1>3, <1>7
      <3>2. 1 <= First(S) /\ First(S) <= Len(tests)
        BY <1>1, <3>1
      <3> QED  BY <1>1, <3>1, <3>2
    <2>2. Chosen(n, wid) = {First(S)} /\ Scanned(n, wid) = 1..First(S)
      BY <1>5, <1>6, <1>7
    <2> QED  BY <1>1, <1>2, <1>3, <1>7, <2>1, <2>2 DEF S, O, D
  <1>8. CASE S = {}
    <2>1. Scanned(n, wid) = D
      BY <1>6, <1>8
    <2>2. Chosen(n, wid) \subseteq O /\ (Chosen(n, wid) # {} => \E i : Chosen(n, wid) = {i})
      BY <1>4, <1>5, <1>8
    <2>3. Chosen(n, wid) = {} <=> O = {}
      BY <1>4, <1>5, <1>8
    <2> QED  BY <1>1, <1>2, <2>1, <2>2, <2>3 DEF S, O, D
  <1> QED  BY <1>7, <1>8

LEMMA AsideTaken ==
    ASSUME Typed, NEW n, NEW wid
    PROVE  /\ Aside(n, wid) \in Seq(Untried)
           /\ Ids(Aside(n, wid)) = {tests[i].id : i \in {j \in Scanned(n, wid) :
                                        tests[j].id \in opt.not_parallel \ opt.skip}}
           /\ Unique(tests) => Unique(Aside(n, wid))
  <1> DEFINE P == {i \in Scanned(n, wid) : tests[i].id \in opt.not_parallel \ opt.skip}
  <1>1. P \subseteq DOMAIN tests
    BY ChosenIsOpen
  <1>2. tests \in Seq(Untried)
    BY DEF Typed
  <1>3. Aside(n, wid) = At(tests, P)
    BY DEF Aside
  <1> HIDE DEF P
  <1>4. /\ At(tests, P) \in Seq(Untried) /\ Ids(At(tests, P)) = {tests[i].id : i \in P}
        /\ Unique(tests) => Unique(At(tests, P))
    BY <1>1, <1>2, AtTyped
  <1> QED  BY <1>3, <1>4 DEF P

LEMMA RestLeft ==
    ASSUME Typed, NEW n, NEW wid \in 0..opt.parallel
    PROVE  /\ Rest(n, wid) \in Seq(Untried)
           /\ Ids(Rest(n, wid)) = Ids(tests) \ Leaving(n, wid)
           /\ Unique(tests) => Unique(Rest(n, wid))
  <1> DEFINE marked == [i \in DOMAIN tests |-> IF i \in Similar(n, wid)
                                               THEN [tests[i] EXCEPT !.reserved = wid]
                                               ELSE tests[i]]
             P == {i \in DOMAIN tests : tests[i].id \notin Leaving(n, wid)}
  <1>1. Rest(n, wid) = At(marked, P)
    BY DEF Rest
  <1>2. tests \in Seq(Untried) /\ Len(tests) \in Nat /\ DOMAIN tests = 1..Len(tests)
    BY DEF Typed
  <1>3. \A i \in DOMAIN tests : marked[i] \in Untried /\ marked[i].id = tests[i].id
    <2> SUFFICES ASSUME NEW i \in DOMAIN tests
                 PROVE  marked[i] \in Untried /\ marked[i].id = tests[i].id
      OBVIOUS
    <2>1. PICK t \in Untried : t = tests[i]
      BY <1>2
    <2>2. [t EXCEPT !.reserved = wid] \in Untried /\ [t EXCEPT !.reserved = wid].id = t.id
      BY DEF Untried, Carried, Travelling
    <2>3. marked[i] \in {t, [t EXCEPT !.reserved = wid]}
      BY <2>1
    <2> QED  BY <2>1, <2>2, <2>3
  <1>4. DOMAIN marked = DOMAIN tests
    OBVIOUS
  <1>5. marked \in Seq(Untried)
    <2>1. marked = [i \in 1..Len(tests) |-> marked[i]]
      BY <1>2
    <2> HIDE DEF marked
    <2> QED  BY <1>2, <1>3, <1>4, <2>1
  <1>6. P \subseteq DOMAIN marked
    OBVIOUS
  <1> HIDE DEF marked
  <1>7. Unique(tests) => Unique(marked)
    BY <1>3, <1>4 DEF Unique
  <1>8. {marked[i].id : i \in P} = Ids(tests) \ Leaving(n, wid)
    BY <1>3, <1>4 DEF Ids
  <1> HIDE DEF P
  <1>9. /\ At(marked, P) \in Seq(Untried) /\ Ids(At(marked, P)) = {marked[i].id : i \in P}
        /\ Unique(marked) => Unique(At(marked, P))
    BY <1>5, <1>6, AtTyped
  <1> QED  BY <1>1, <1>7, <1>8, <1>9

\* What the scan takes out falls into three kinds.
LEMMA ScanTakes ==
    ASSUME Typed, NEW n, NEW wid
    PROVE  /\ Skipped(n, wid) \subseteq Ids(tests) \cap opt.skip
           /\ Ids(Aside(n, wid)) \subseteq (Ids(tests) \cap opt.not_parallel) \ opt.skip
           /\ \A i \in Chosen(n, wid) : /\ i \in DOMAIN tests /\ tests[i].id \in Ids(tests)
                                        /\ tests[i].id \notin opt.skip \cup opt.not_parallel
           /\ Leaving(n, wid) \subseteq Ids(tests)
  <1>1. /\ Chosen(n, wid) \subseteq Open(n) /\ Open(n) \subseteq DOMAIN tests
        /\ Scanned(n, wid) \subseteq DOMAIN tests
    BY ChosenIsOpen
  <1>2. Skipped(n, wid) \subseteq Ids(tests) \cap opt.skip
    BY <1>1 DEF Skipped, Ids
  <1>3. Ids(Aside(n, wid)) \subseteq (Ids(tests) \cap opt.not_parallel) \ opt.skip
    <2>1. {tests[i].id : i \in {j \in Scanned(n, wid) : tests[j].id \in opt.not_parallel \ opt.skip}}
            \subseteq (Ids(tests) \cap opt.not_parallel) \ opt.skip
      BY <1>1 DEF Ids
    <2> QED  BY <2>1, AsideTaken
  <1>4. \A i \in Chosen(n, wid) : /\ i \in DOMAIN tests /\ tests[i].id \in Ids(tests)
                                  /\ tests[i].id \notin opt.skip \cup opt.not_parallel
    BY <1>1 DEF Open, Ids
  <1> QED  BY <1>2, <1>3, <1>4 DEF Leaving

\* A search that chooses none has looked at all tests.
LEMMA AllScanned ==
    ASSUME Typed, NEW n, NEW wid, Chosen(n, wid) = {}, n < opt.max_ndb
    PROVE  Ids(tests) \subseteq Skipped(n, wid) \cup Ids(Aside(n, wid))
  <1>1. Open(n) = {} /\ Suited(n, wid) = {}
    BY ChosenIsOpen
  <1>2. Scanned(n, wid) = DOMAIN tests
    BY <1>1 DEF Scanned
  <1>3. \A i \in DOMAIN tests : tests[i].id \in opt.skip \cup opt.not_parallel
    BY <1>1 DEF Open
  <1>4. Ids(Aside(n, wid)) = {tests[i].id : i \in {j \in Scanned(n, wid) :
                                tests[j].id \in opt.not_parallel \ opt.skip}}
    BY AsideTaken
  <1> QED  BY <1>2, <1>3, <1>4 DEF Ids, Skipped

Listed == Ids(tests)
SetAside == Ids(nonParallel)

ListsGood ==
    /\ Unique(tests) /\ Unique(nonParallel)
    /\ Listed \cap SetAside = {} /\ SetAside \subseteq opt.not_parallel \ opt.skip

\* Tests that may run beside others come first, then those set aside, by the
\* last worker, then none.
Ordered(n, D) ==
    \/ /\ D # {} /\ D \cap (opt.not_parallel \cup opt.skip) = {}
       /\ D \cap opt.ndb_test # {} => n < opt.max_ndb
       /\ completedWid' = completedWid
    \/ /\ D # {} /\ D \subseteq opt.not_parallel \ opt.skip
       /\ Counted = opt.parallel /\ completedWid' = Counted
       /\ n < opt.max_ndb => Listed' = {}
    \/ D = {} /\ completedWid' = Counted

(* One search: the tests K are skipped, the tests D (at most one) are      *)
(* given out with the message m.                                           *)
Hands(w, out, n, results, K, D, m) ==
    /\ tests' \in Seq(Untried) /\ nonParallel' \in Seq(Untried)
    /\ ListsGood'
    /\ Listed' \cup SetAside' = (Listed \cup SetAside) \ (K \cup D)
    /\ Listed' \subseteq Listed
    /\ K \subseteq Listed \cap opt.skip /\ D \subseteq (Listed \cup SetAside) \ K
    /\ m \in DownMsg /\ m.type \in {"TESTCASE", "BYE"} /\ D = Borne(m)
    /\ m.type = "TESTCASE" => m.test \in Untried
    /\ Answer(w, m)
    /\ running' = out \cup D
    /\ completed' = [t \in Tests |->
         IF t \in K THEN Append(results[t], [Fresh(t) EXCEPT !.result = "skipped"]) ELSE results[t]]
    /\ numNdb' = IF D \cap opt.ndb_test # {} THEN n + 1 ELSE n
    /\ Ordered(n, D)

LEMMA MessageTyped ==
    ASSUME NEW t \in Carried
    PROVE  LET m == [type |-> "TESTCASE", test |-> t] IN m \in DownMsg /\ Borne(m) = {t.id}
  BY DEF DownMsg, Borne

LEMMA ByeTyped ==
    LET m == [type |-> "BYE"] IN m \in DownMsg /\ Borne(m) = {}
  BY DEF DownMsg, Borne

LEMMA ScheduleHands ==
    ASSUME Typed, ListsGood, NEW w, NEW wid \in 0..opt.parallel, NEW out, NEW n, NEW results,
           opt' = opt, Schedule(w, wid, out, n, results)
    PROVE  \E K, D, m : Hands(w, out, n, results, K, D, m)
  <1> DEFINE K == Skipped(n, wid)
             A == Ids(Aside(n, wid))
             C == {tests[i].id : i \in Chosen(n, wid)}
             aside == nonParallel \o Aside(n, wid)
  <1>1. /\ K \subseteq Listed \cap opt.skip /\ A \subseteq (Listed \cap opt.not_parallel) \ opt.skip
        /\ C \subseteq Listed \ (opt.skip \cup opt.not_parallel)
        /\ Leaving(n, wid) = K \cup A \cup C
    BY ScanTakes DEF Listed, Leaving
  <1>2. /\ tests' \in Seq(Untried) /\ Unique(tests') /\ Ids(tests') = Listed \ (K \cup A \cup C)
    BY <1>1, RestLeft DEF Schedule, ListsGood, Listed
  <1>3. nonParallel \in Seq(Untried) /\ tests \in Seq(Untried)
    BY DEF Typed
  <1>4. aside \in Seq(Untried) /\ Ids(aside) = SetAside \cup A /\ Unique(aside)
    <2>1. /\ Aside(n, wid) \in Seq(Untried) /\ Unique(Aside(n, wid)) /\ Unique(nonParallel)
      BY AsideTaken DEF ListsGood
    <2>2. Ids(nonParallel) \cap Ids(Aside(n, wid)) = {}
      BY <1>1 DEF ListsGood, SetAside
    <2> QED  BY <1>3, <2>1, <2>2, ConcatIds DEF SetAside
  <1>5. /\ Listed \cap SetAside = {} /\ SetAside \subseteq opt.not_parallel \ opt.skip
        /\ Listed' = Ids(tests') /\ SetAside' = Ids(nonParallel')
        /\ (Unique(tests) /\ Unique(nonParallel))' = (Unique(tests') /\ Unique(nonParallel'))
    BY DEF ListsGood, Listed, SetAside, Ids, Unique
  <1>6. /\ completed' = [t \in Tests |->
             IF t \in K THEN Append(results[t], [Fresh(t) EXCEPT !.result = "skipped"]) ELSE results[t]]
    BY DEF Schedule
  <1>7. CASE /\ \E i \in Chosen(n, wid) :
                   HandOut(w, IF Suited(n, wid) # {} THEN tests[i]
                                                     ELSE [tests[i] EXCEPT !.reserved = 0], out, n)
             /\ nonParallel' = aside
             /\ UNCHANGED completedWid
    <2>1. PICK i \in Chosen(n, wid) :
                 HandOut(w, IF Suited(n, wid) # {} THEN tests[i]
                                                   ELSE [tests[i] EXCEPT !.reserved = 0], out, n)
      BY <1>7
    <2>2. i \in DOMAIN tests /\ C = {tests[i].id}
      BY ChosenIsOpen, ScanTakes
    <2>3. PICK t : t = IF Suited(n, wid) # {} THEN tests[i] ELSE [tests[i] EXCEPT !.reserved = 0]
      OBVIOUS
    <2>4. t \in Untried /\ t.id = tests[i].id
      <3>1. PICK u \in Untried : u = tests[i]
        BY <1>3, <2>2
      <3>2. [u EXCEPT !.reserved = 0] \in Untried /\ [u EXCEPT !.reserved = 0].id = u.id
        <4>1. 0 \in 0..opt.parallel
          BY OptionsTyped DEF Typed
        <4> QED  BY <4>1 DEF Untried, Carried, Travelling
      <3> QED  BY <2>3, <3>1, <3>2
    <2> DEFINE m == [type |-> "TESTCASE", test |-> t]
    <2>5. m \in DownMsg /\ Borne(m) = C /\ m.type = "TESTCASE" /\ m.test \in Untried
      BY <2>2, <2>4, MessageTyped, Narrower
    <2>6. HandOut(w, t, out, n)
      BY <2>1, <2>3
    <2>7. /\ Answer(w, m) /\ running' = out \cup C
          /\ numNdb' = IF C \cap opt.ndb_test # {} THEN n + 1 ELSE n
      BY <2>2, <2>4, <2>6 DEF HandOut, Give, Handed
    <2> HIDE DEF m, K, A, C, aside
    <2>8. /\ Listed' = Listed \ (K \cup A \cup C) /\ SetAside' = SetAside \cup A
          /\ Unique(nonParallel')
      BY <1>2, <1>4, <1>5, <1>7
    <2>9. ListsGood'
      BY <1>1, <1>2, <1>5, <2>8 DEF ListsGood
    <2>10. /\ Listed' \cup SetAside' = (Listed \cup SetAside) \ (K \cup C)
           /\ C \subseteq (Listed \cup SetAside) \ K
      BY <1>1, <1>5, <2>8
    <2>11. nonParallel' \in Seq(Untried)
      BY <1>4, <1>7
    <2>a. Ordered(n, C)
      <3>1. tests[i].id \in opt.ndb_test => n < opt.max_ndb
        BY ChosenIsOpen DEF Open
      <3> QED  BY <1>1, <1>7, <2>2, <3>1 DEF Ordered
    <2>12. Hands(w, out, n, results, K, C, m)
      BY <1>1, <1>2, <1>6, <2>5, <2>7, <2>8, <2>9, <2>10, <2>11, <2>a DEF Hands
    <2> QED  BY <2>12
  <1>8. CASE /\ Chosen(n, wid) = {}
             /\ aside # <<>> /\ LastWorker(Counted)
             /\ HandOut(w, Head(aside), out, n)
             /\ nonParallel' = Tail(aside)
             /\ completedWid' = Counted
    <2> DEFINE t == Head(aside)
               m == [type |-> "TESTCASE", test |-> t]
               D == {t.id}
    <2>1. /\ Tail(aside) \in Seq(Untried) /\ t \in Untried
          /\ SetAside \cup A = Ids(Tail(aside)) \cup D
          /\ Unique(Tail(aside)) /\ t.id \notin Ids(Tail(aside))
      <3> HIDE DEF aside
      <3> QED  BY <1>4, <1>8, TailIds
    <2>2. m \in DownMsg /\ Borne(m) = D /\ m.type = "TESTCASE" /\ m.test \in Untried
      BY <2>1, MessageTyped, Narrower
    <2>3. /\ Answer(w, m) /\ running' = out \cup D
          /\ numNdb' = IF D \cap opt.ndb_test # {} THEN n + 1 ELSE n
      BY <1>8 DEF HandOut, Give, Handed
    <2>4. C = {}
      BY <1>8
    <2>5. nonParallel' = Tail(aside) /\ completedWid' = Counted /\ Counted = opt.parallel
      BY <1>8 DEF LastWorker
    <2>a. n < opt.max_ndb => Listed \subseteq K \cup A
      BY <1>8, AllScanned DEF Listed
    <2> HIDE DEF m, K, A, C, aside, t
    <2>6. /\ Listed' = Listed \ (K \cup A) /\ SetAside' = Ids(Tail(aside))
          /\ SetAside' = (SetAside \cup A) \ D /\ t.id \in SetAside \cup A
          /\ Unique(nonParallel')
      BY <1>2, <1>5, <2>1, <2>4, <2>5
    <2>7. ListsGood'
      BY <1>1, <1>2, <1>5, <2>6 DEF ListsGood
    <2>8. /\ Listed' \cup SetAside' = (Listed \cup SetAside) \ (K \cup D)
          /\ D \subseteq (Listed \cup SetAside) \ K
      BY <1>1, <1>5, <2>6
    <2>9. nonParallel' \in Seq(Untried) /\ Listed' \subseteq Listed
      BY <2>1, <2>5, <2>6
    <2>b. Ordered(n, D)
      <3>1. t.id \in opt.not_parallel \ opt.skip
        BY <1>1, <1>5, <2>6
      <3>2. n < opt.max_ndb => Listed' = {}
        BY <2>6, <2>a
      <3> QED  BY <2>5, <3>1, <3>2 DEF Ordered
    <2>10. Hands(w, out, n, results, K, D, m)
      BY <1>1, <1>2, <1>6, <2>2, <2>3, <2>7, <2>8, <2>9, <2>b DEF Hands
    <2> QED  BY <2>10
  <1>9. CASE /\ Chosen(n, wid) = {}
             /\ ~(aside # <<>> /\ LastWorker(Counted))
             /\ Bye(w)
             /\ running' = out
             /\ numNdb' = n
             /\ nonParallel' = aside
             /\ completedWid' = Counted
    <2> DEFINE m == [type |-> "BYE"]
    <2>1. m \in DownMsg /\ Borne(m) = {} /\ m.type = "BYE"
      BY ByeTyped
    <2>2. Answer(w, m) /\ running' = out \cup {} /\ numNdb' = n /\ C = {}
      BY <1>9 DEF Bye
    <2>3. nonParallel' = aside /\ completedWid' = Counted
      BY <1>9
    <2> HIDE DEF m, K, A, C, aside
    <2>4. /\ Listed' = Listed \ (K \cup A) /\ SetAside' = SetAside \cup A /\ Unique(nonParallel')
      BY <1>2, <1>4, <1>5, <2>2, <2>3
    <2>5. ListsGood'
      BY <1>1, <1>2, <1>5, <2>4 DEF ListsGood
    <2>6. /\ Listed' \cup SetAside' = (Listed \cup SetAside) \ (K \cup {})
          /\ nonParallel' \in Seq(Untried) /\ Ordered(n, {}) /\ Listed' \subseteq Listed
          /\ numNdb' = IF {} \cap opt.ndb_test # {} THEN n + 1 ELSE n
      BY <1>1, <1>4, <1>5, <2>2, <2>3, <2>4 DEF Ordered
    <2>7. Hands(w, out, n, results, K, {}, m)
      BY <1>1, <1>2, <1>6, <2>1, <2>2, <2>5, <2>6 DEF Hands
    <2> QED  BY <2>7
  <1> QED  BY <1>7, <1>8, <1>9 DEF Schedule

-----------------------------------------------------------------------------
(* The tests under way, by the queue that they are in.                     *)

Queues == Workers \X {"down", "up", "held"}
Contents == [b \in Queues |-> CASE b[2] = "down" -> IdsIn(toWorker[b[1]])
                                [] b[2] = "up" -> IdsIn(toMaster[b[1]])
                                [] b[2] = "held" -> Ids(holds[b[1]])]

Copies(c, S) ==
    /\ \A b1, b2 \in Queues : \A t : t \in c[b1] /\ t \in c[b2] => b1 = b2
    /\ \A t : t \in S <=> \E b \in Queues : t \in c[b]

Out == running \ HasResult

\* A test that is out is in one queue, and there once.
OneCopy ==
    /\ \A w \in Workers : OnceEach(toWorker[w]) /\ OnceEach(toMaster[w]) /\ Unique(holds[w])
    /\ Copies(Contents, Out)

\* R has left one queue, and D has come into another.
Moved(c, d, b1, R, b2, D) ==
    \A b \in Queues : d[b] = IF b = b1 THEN c[b] \ R ELSE IF b = b2 THEN c[b] \cup D ELSE c[b]

LEMMA CopiesMoved ==
    ASSUME NEW c, NEW d, NEW S, NEW R, NEW D, NEW b1 \in Queues, NEW b2 \in Queues, b1 # b2,
           Copies(c, S), Moved(c, d, b1, R, b2, D), R \subseteq c[b1], D \cap (S \ R) = {}
    PROVE  Copies(d, (S \ R) \cup D)
  <1>1. \A b \in Queues : \A t :
           t \in d[b] <=> (t \in c[b] /\ (b = b1 => t \notin R)) \/ (b = b2 /\ t \in D)
    <2> SUFFICES ASSUME NEW b \in Queues, NEW t
                 PROVE  t \in d[b] <=> (t \in c[b] /\ (b = b1 => t \notin R)) \/ (b = b2 /\ t \in D)
      OBVIOUS
    <2>1. d[b] = IF b = b1 THEN c[b] \ R ELSE IF b = b2 THEN c[b] \cup D ELSE c[b]
      BY DEF Moved
    <2> QED  BY <2>1
  <1>2. \A t \in R : \A b \in Queues : t \in c[b] => b = b1
    BY DEF Copies
  <1>3. ASSUME NEW b \in Queues, NEW t, t \in d[b], t \in D PROVE b = b2
    <2>1. CASE t \in R
      BY <1>1, <1>2, <1>3, <2>1
    <2>2. CASE t \notin R
      <3>1. t \notin S
        BY <1>3, <2>2
      <3> QED  BY <1>1, <1>3, <3>1 DEF Copies
    <2> QED  BY <2>1, <2>2
  <1>4. ASSUME NEW b \in Queues, NEW e \in Queues, NEW t, t \in d[b], t \in d[e] PROVE b = e
    <2>1. CASE t \in D
      BY <1>3, <1>4, <2>1
    <2>2. CASE t \notin D
      BY <1>1, <1>4, <2>2 DEF Copies
    <2> QED  BY <2>1, <2>2
  <1>5. ASSUME NEW t, t \in (S \ R) \cup D PROVE \E b \in Queues : t \in d[b]
    <2>1. CASE t \in D
      BY <1>1, <2>1
    <2>2. CASE t \notin D
      <3>1. t \in S /\ t \notin R
        BY <1>5, <2>2
      <3>2. PICK b \in Queues : t \in c[b]
        BY <3>1 DEF Copies
      <3> QED  BY <1>1, <3>1, <3>2
    <2> QED  BY <2>1, <2>2
  <1>6. ASSUME NEW t, NEW b \in Queues, t \in d[b] PROVE t \in (S \ R) \cup D
    <2>1. CASE t \in D
      BY <2>1
    <2>2. CASE t \notin D
      <3>1. t \in c[b] /\ (b = b1 => t \notin R)
        BY <1>1, <1>6, <2>2
      <3>2. t \notin R
        BY <1>2, <3>1
      <3> QED  BY <3>1, <3>2 DEF Copies
    <2> QED  BY <2>1, <2>2
  <1> QED  BY <1>4, <1>5, <1>6 DEF Copies

LEMMA QueueNames ==
    /\ \A b \in Queues : b[1] \in Workers /\ b \in {<<b[1], "down">>, <<b[1], "up">>, <<b[1], "held">>}
    /\ \A w \in Workers : <<w, "down">> \in Queues /\ <<w, "up">> \in Queues /\ <<w, "held">> \in Queues
    /\ \A v, w : /\ <<v, "down">> # <<w, "up">> /\ <<v, "down">> # <<w, "held">>
                  /\ <<v, "up">> # <<w, "held">>
  BY DEF Queues

LEMMA QueuesOf ==
    \A w \in Workers : /\ Contents[<<w, "down">>] = IdsIn(toWorker[w])
                       /\ Contents[<<w, "up">>] = IdsIn(toMaster[w])
                       /\ Contents[<<w, "held">>] = Ids(holds[w])
  BY QueueNames DEF Contents

LEMMA NextQueuesOf ==
    \A w \in Workers : /\ Contents'[<<w, "down">>] = IdsIn(toWorker'[w])
                       /\ Contents'[<<w, "up">>] = IdsIn(toMaster'[w])
                       /\ Contents'[<<w, "held">>] = Ids(holds'[w])
  <1>1. Contents' = [b \in Queues |-> CASE b[2] = "down" -> IdsIn(toWorker'[b[1]])
                                        [] b[2] = "up" -> IdsIn(toMaster'[b[1]])
                                        [] b[2] = "held" -> Ids(holds'[b[1]])]
    BY DEF Contents, IdsIn, Ids, Bearing
  <1> QED  BY <1>1, QueueNames

\* A test is out if some queue has it.
LEMMA OutIfCarried ==
    ASSUME OneCopy, NEW w \in Workers, NEW t,
           t \in IdsIn(toWorker[w]) \/ t \in IdsIn(toMaster[w]) \/ t \in Ids(holds[w])
    PROVE  t \in Out
  <1>1. \E b \in Queues : t \in Contents[b]
    BY QueueNames, QueuesOf
  <1> QED  BY <1>1 DEF OneCopy, Copies

(* The master takes the tests R back from w and gives it the tests D.      *)
TakesBack(w, R) ==
    \/ R = {} /\ toMaster' = toMaster
    \/ /\ toMaster[w] # <<>> /\ R = Borne(Head(toMaster[w]))
       /\ toMaster' = [toMaster EXCEPT ![w] = Tail(@)]
GivesOut(w, D) ==
    \/ D = {} /\ toWorker' = toWorker
    \/ \E m \in DownMsg : D = Borne(m) /\ toWorker' = [toWorker EXCEPT ![w] = Append(@, m)]

LEMMA ExchangeKeeps ==
    ASSUME Typed, OneCopy, NEW w \in Workers, NEW R, NEW D, TakesBack(w, R), GivesOut(w, D),
           holds' = holds, D \cap (Out \ R) = {}, Out' = (Out \ R) \cup D
    PROVE  OneCopy'
  <1>1. toMaster \in [Workers -> Seq(UpMsg)] /\ toWorker \in [Workers -> Seq(DownMsg)]
    BY DEF Typed
  <1>2. /\ R \subseteq IdsIn(toMaster[w]) /\ IdsIn(toMaster'[w]) = IdsIn(toMaster[w]) \ R
        /\ OnceEach(toMaster'[w])
        /\ \A v \in Workers \ {w} : toMaster'[v] = toMaster[v]
    <2>1. CASE R = {} /\ toMaster' = toMaster
      BY <2>1 DEF OneCopy
    <2>2. CASE /\ toMaster[w] # <<>> /\ R = Borne(Head(toMaster[w]))
               /\ toMaster' = [toMaster EXCEPT ![w] = Tail(@)]
      <3>1. PICK q : q = toMaster[w]
        OBVIOUS
      <3>2. q \in Seq(UpMsg) /\ q # <<>> /\ OnceEach(q) /\ R = Borne(Head(q)) /\ toMaster'[w] = Tail(q)
        BY <1>1, <2>2, <3>1 DEF OneCopy
      <3>3. /\ IdsIn(Tail(q)) \subseteq IdsIn(q) /\ R \subseteq IdsIn(q)
            /\ IdsIn(q) \subseteq IdsIn(Tail(q)) \cup R
            /\ OnceEach(Tail(q)) /\ IdsIn(Tail(q)) \cap R = {}
        BY <3>2, TailBears
      <3> QED  BY <1>1, <2>2, <3>1, <3>2, <3>3
    <2> QED  BY <2>1, <2>2 DEF TakesBack
  <1>3. /\ IdsIn(toWorker'[w]) = IdsIn(toWorker[w]) \cup D
        /\ OnceEach(toWorker'[w])
        /\ \A v \in Workers \ {w} : toWorker'[v] = toWorker[v]
    <2>1. CASE D = {} /\ toWorker' = toWorker
      BY <2>1 DEF OneCopy
    <2>2. CASE \E m \in DownMsg : D = Borne(m) /\ toWorker' = [toWorker EXCEPT ![w] = Append(@, m)]
      <3>1. PICK m \in DownMsg : D = Borne(m) /\ toWorker' = [toWorker EXCEPT ![w] = Append(@, m)]
        BY <2>2
      <3>2. PICK q : q = toWorker[w]
        OBVIOUS
      <3>3. q \in Seq(DownMsg) /\ OnceEach(q) /\ toWorker'[w] = Append(q, m)
        BY <1>1, <3>1, <3>2 DEF OneCopy
      <3>4. IdsIn(q) \cap D = {}
        <4> SUFFICES ASSUME NEW t \in D, t \in IdsIn(q) PROVE FALSE
          OBVIOUS
        <4>1. t \in Out
          BY <3>2, OutIfCarried
        <4>2. t \in R
          BY <4>1
        <4>3. t \in IdsIn(toMaster[w])
          BY <1>2, <4>2
        <4>4. t \in Contents[<<w, "down">>] /\ t \in Contents[<<w, "up">>]
          BY <3>2, <4>3, QueuesOf
        <4>5. <<w, "down">> = <<w, "up">>
          BY <4>4, QueueNames DEF OneCopy, Copies
        <4> QED  BY <4>5, QueueNames
      <3>5. IdsIn(Append(q, m)) = IdsIn(q) \cup D /\ OnceEach(Append(q, m))
        BY <3>1, <3>3, <3>4, AppendBears
      <3> QED  BY <1>1, <3>1, <3>2, <3>3, <3>5
    <2> QED  BY <2>1, <2>2 DEF GivesOut
  <1>4. Moved(Contents, Contents', <<w, "up">>, R, <<w, "down">>, D)
    <2> SUFFICES ASSUME NEW b \in Queues
                 PROVE  Contents'[b] = IF b = <<w, "up">> THEN Contents[b] \ R
                                       ELSE IF b = <<w, "down">> THEN Contents[b] \cup D ELSE Contents[b]
      BY DEF Moved
    <2>1. PICK v \in Workers : v = b[1]
      BY QueueNames
    <2>2. b \in {<<v, "down">>, <<v, "up">>, <<v, "held">>}
      BY <2>1, QueueNames
    <2>3. /\ Contents'[<<v, "down">>] = IdsIn(toWorker'[v]) /\ Contents[<<v, "down">>] = IdsIn(toWorker[v])
          /\ Contents'[<<v, "up">>] = IdsIn(toMaster'[v]) /\ Contents[<<v, "up">>] = IdsIn(toMaster[v])
          /\ Contents'[<<v, "held">>] = Contents[<<v, "held">>]
      BY QueuesOf, NextQueuesOf
    <2>4. (<<v, "down">> = <<w, "down">> <=> v = w) /\ (<<v, "up">> = <<w, "up">> <=> v = w)
      OBVIOUS
    <2>5. CASE b = <<v, "down">>
      BY <1>3, <2>3, <2>4, <2>5, QueueNames
    <2>6. CASE b = <<v, "up">>
      BY <1>2, <2>3, <2>4, <2>6, QueueNames
    <2>7. CASE b = <<v, "held">>
      BY <2>3, <2>7, QueueNames
    <2> QED  BY <2>2, <2>5, <2>6, <2>7
  <1>5. Copies(Contents', (Out \ R) \cup D)
    <2>1. R \subseteq Contents[<<w, "up">>] /\ <<w, "up">> \in Queues /\ <<w, "down">> \in Queues
      BY <1>2, QueuesOf, QueueNames
    <2>2. <<w, "up">> # <<w, "down">>
      BY QueueNames
    <2>3. Copies(Contents, Out)
      BY DEF OneCopy
    <2> QED  BY <1>4, <2>1, <2>2, <2>3, CopiesMoved
  <1>6. Copies(Contents', Out')
    BY <1>5
  <1>7. \A v \in Workers : OnceEach(toWorker'[v]) /\ OnceEach(toMaster'[v]) /\ Unique(holds'[v])
    BY <1>2, <1>3 DEF OneCopy
  <1> QED  BY <1>6, <1>7 DEF OneCopy, Copies, OnceEach, Unique, Bearing, Queues

-----------------------------------------------------------------------------
(* The inductive invariant.                                                *)

\* When a test cannot both have a result and be marked running.
Undoubled == \/ opt.force /\ main \notin {"aborted", "failed"}
             \/ ~opt.valgrind /\ main = "serving"

\* Every test is in the list, set aside, running or has its one result.
Accounted ==
    /\ ListsGood
    /\ Listed \cup SetAside \cup running \cup HasResult = Tests
    /\ (Listed \cup SetAside) \cap (running \cup HasResult) = {}
    /\ \A t \in Tests : Len(completed[t]) <= 1
    /\ Undoubled => running \cap HasResult = {}

\* A worker holds the test it runs, and no other worker holds one unless it
\* has gone.
Posts ==
    \A w \in Workers :
        /\ opt.parallel < w => worker[w] = "gone"
        /\ worker[w] = "running" => Len(holds[w]) = 1
        /\ worker[w] \in {"forked", "connected", "waiting"} => holds[w] = <<>>

Verdict ==
    /\ main = "serving" => childs > 0
    /\ main # "internal_error"
    /\ main = "completed" => \A t \in Tests : completed[t] # <<>>

IInv == Typed /\ OneCopy /\ Accounted /\ Posts /\ Verdict

LEMMA TypesHold == ASSUME Typed PROVE TypeOK
  <1>1. /\ \A w \in Workers : /\ toMaster[w] \in Seq(UpMsg) /\ toWorker[w] \in Seq(DownMsg)
                              /\ holds[w] \in Seq(Carried)
    BY DEF Typed
  <1> DEFINE U == [type : {"START", "SPENT", "VALGREP"}] \cup [type : {"TESTRESULT"}, test : Travelling]
             D == [type : {"HELLO", "BYE"}] \cup [type : {"TESTCASE"}, test : Travelling]
  <1>2. UpMsg \subseteq U /\ DownMsg \subseteq D
    BY Narrower DEF UpMsg, DownMsg
  <1> HIDE DEF U, D
  <1>3. /\ \A s \in Seq(UpMsg) : s \in Seq(U)
        /\ \A s \in Seq(DownMsg) : s \in Seq(D)
    BY <1>2
  <1>4. \A w \in Workers : toMaster[w] \in Seq(U) /\ toWorker[w] \in Seq(D) /\ holds[w] \in Seq(Travelling)
    BY <1>1, <1>3, Narrower
  <1>5. tests \in Seq(Travelling) /\ nonParallel \in Seq(Travelling) /\ completed \in [Tests -> Seq(Travelling)]
    BY Narrower DEF Typed
  <1> QED  BY <1>4, <1>5 DEF Typed, TypeOK, U, D

LEMMA FreshTyped ==
    ASSUME opt \in Options, NEW t \in Tests
    PROVE  Fresh(t) \in Untried /\ [Fresh(t) EXCEPT !.result = "skipped"] \in Carried
  <1>1. 0 \in 0..opt.parallel
    BY OptionsTyped
  <1> QED  BY <1>1 DEF Fresh, Untried, Carried, Travelling

LEMMA IdsTyped ==
    ASSUME NEW T, T \subseteq Carried, NEW s \in Seq(T)
    PROVE  Ids(s) \subseteq Tests
  <1>1. \A t \in Carried : t.id \in Tests
    BY DEF Carried, Travelling
  <1> QED  BY <1>1 DEF Ids

\* What an answer does to the types.
LEMMA AnswerTyped ==
    ASSUME Typed, opt' = opt, NEW w \in Workers, NEW m \in DownMsg, Answer(w, m)
    PROVE  /\ toWorker' \in [Workers -> Seq(DownMsg)]
           /\ toWorker' = [toWorker EXCEPT ![w] = Append(@, m)]
           /\ main' \in {main, "killed"}
  <1>1. toWorker[w] \in Seq(DownMsg)
    BY DEF Typed
  <1>2. Append(toWorker[w], m) \in Seq(DownMsg)
    BY <1>1
  <1>3. toWorker' = [toWorker EXCEPT ![w] = Append(@, m)] /\ main' \in {main, "killed"}
    BY DEF Answer
  <1> QED  BY <1>2, <1>3 DEF Typed

\* What a search does to the types.
LEMMA HandsTyped ==
    ASSUME Typed, opt' = opt, NEW w \in Workers, NEW out, out \subseteq Tests, NEW n \in Int,
           NEW results \in [Tests -> Seq(Carried)], NEW K, NEW D, NEW m,
           Hands(w, out, n, results, K, D, m)
    PROVE  /\ tests' \in Seq(Untried) /\ nonParallel' \in Seq(Untried)
           /\ running' \subseteq Tests /\ D \subseteq Tests /\ K \subseteq Tests
           /\ completed' \in [Tests -> Seq(Carried)]
           /\ numNdb' \in Int /\ completedWid' \in 0..opt.parallel
           /\ toWorker' \in [Workers -> Seq(DownMsg)] /\ GivesOut(w, D)
           /\ main' \in {main, "killed"}
  <1>1. Listed \cup SetAside \subseteq Tests
    BY IdsTyped, Narrower DEF Typed, Listed, SetAside
  <1>2. D \subseteq Tests /\ K \subseteq Tests
    BY <1>1 DEF Hands
  <1>3. running' \subseteq Tests
    BY <1>2 DEF Hands
  <1>4. completed' \in [Tests -> Seq(Carried)]
    <2>1. \A t \in Tests : Append(results[t], [Fresh(t) EXCEPT !.result = "skipped"]) \in Seq(Carried)
      <3> SUFFICES ASSUME NEW t \in Tests
                   PROVE  Append(results[t], [Fresh(t) EXCEPT !.result = "skipped"]) \in Seq(Carried)
        OBVIOUS
      <3>1. [Fresh(t) EXCEPT !.result = "skipped"] \in Carried
        BY FreshTyped DEF Typed
      <3>2. results[t] \in Seq(Carried)
        OBVIOUS
      <3> QED  BY <3>1, <3>2
    <2>2. completed' = [t \in Tests |->
            IF t \in K THEN Append(results[t], [Fresh(t) EXCEPT !.result = "skipped"]) ELSE results[t]]
      BY DEF Hands
    <2> QED  BY <2>1, <2>2
  <1>5. numNdb' \in Int
    BY DEF Hands
  <1>6. completedWid' \in 0..opt.parallel
    <2>1. Counted \in 0..opt.parallel
      <3>1. PICK p \in Nat : p = opt.parallel
        BY OptionsTyped DEF Typed
      <3>2. PICK c \in 0..p : c = completedWid
        BY <3>1 DEF Typed
      <3>3. (IF c < p THEN c + 1 ELSE c) \in 0..p
        OBVIOUS
      <3> QED  BY <3>1, <3>2, <3>3 DEF Counted
    <2> QED  BY <2>1 DEF Hands, Ordered, Typed
  <1>7. /\ toWorker' \in [Workers -> Seq(DownMsg)] /\ main' \in {main, "killed"} /\ GivesOut(w, D)
    BY AnswerTyped DEF Hands, GivesOut
  <1> QED  BY <1>2, <1>3, <1>4, <1>5, <1>6, <1>7 DEF Hands

\* A line that the master has read.
LEMMA ReadTyped ==
    ASSUME Typed, NEW w \in Workers, NEW type, Reads(w, type)
    PROVE  /\ main = "serving"
           /\ toMaster' \in [Workers -> Seq(UpMsg)]
           /\ TakesBack(w, Borne(Head(toMaster[w])))
           /\ type = "TESTRESULT" =>
                 /\ Result(w) \in Carried /\ Borne(Head(toMaster[w])) = {Result(w).id}
                 /\ Result(w).id \in IdsIn(toMaster[w])
           /\ type \in {"START", "SPENT", "VALGREP"} => Borne(Head(toMaster[w])) = {}
  <1>1. toMaster \in [Workers -> Seq(UpMsg)]
    BY DEF Typed
  <1>2. PICK q \in Seq(UpMsg) : q = toMaster[w]
    BY <1>1
  <1>3. q # <<>> /\ Head(q).type = type /\ toMaster' = [toMaster EXCEPT ![w] = Tail(@)] /\ main = "serving"
    BY <1>2 DEF Reads
  <1>4. Tail(q) \in Seq(UpMsg) /\ Head(q) \in UpMsg /\ Borne(Head(q)) \subseteq IdsIn(q)
    BY <1>3, TailBears
  <1>5. toMaster' \in [Workers -> Seq(UpMsg)]
    BY <1>1, <1>2, <1>3, <1>4
  <1>6. TakesBack(w, Borne(Head(toMaster[w])))
    BY <1>2, <1>3 DEF TakesBack
  <1>7. ASSUME type = "TESTRESULT"
        PROVE  Head(q).test \in Carried /\ Borne(Head(q)) = {Head(q).test.id}
    BY <1>3, <1>4, <1>7 DEF UpMsg, Borne
  <1>8. ASSUME type \in {"START", "SPENT", "VALGREP"}
        PROVE  Borne(Head(q)) = {}
    BY <1>3, <1>8 DEF Borne
  <1> QED  BY <1>2, <1>3, <1>4, <1>5, <1>6, <1>7, <1>8 DEF Result

-----------------------------------------------------------------------------
(* The steps of the master.                                                *)

\* What the master has made of a line when it looks for the next test: the
\* tests "out" are running, the tests "has" have the results "results".
Settles(out, has, results) ==
    /\ out \subseteq Tests /\ results \in [Tests -> Seq(Carried)]
    /\ has = {t \in Tests : results[t] # <<>>}
    /\ out \cup has = running \cup HasResult
    /\ \A t \in Tests : Len(results[t]) <= 1
    /\ opt.force \/ ~opt.valgrind => out \cap has = {}

LEMMA HandsAccounted ==
    ASSUME Typed, Accounted, opt' = opt, main = "serving", NEW w \in Workers,
           NEW out, NEW n \in Int, NEW results, NEW has, Settles(out, has, results),
           NEW K, NEW D, NEW m, Hands(w, out, n, results, K, D, m)
    PROVE  /\ Accounted' /\ Out' = (out \ has) \cup D
           /\ D \cap (running \cup HasResult) = {}
  <1>0. /\ out \subseteq Tests /\ results \in [Tests -> Seq(Carried)]
        /\ has = {t \in Tests : results[t] # <<>>}
        /\ out \cup has = running \cup HasResult
        /\ \A t \in Tests : Len(results[t]) <= 1
        /\ opt.force \/ ~opt.valgrind => out \cap has = {}
    BY DEF Settles
  <1>1. /\ ListsGood' /\ Listed' \cup SetAside' = (Listed \cup SetAside) \ (K \cup D)
        /\ K \subseteq Listed \cup SetAside /\ D \subseteq (Listed \cup SetAside) \ K
        /\ running' = out \cup D
    BY DEF Hands
  <1>2. /\ completed' = [t \in Tests |->
             IF t \in K THEN Append(results[t], [Fresh(t) EXCEPT !.result = "skipped"]) ELSE results[t]]
    BY DEF Hands
  <1>3. /\ Listed \cup SetAside \cup running \cup HasResult = Tests
        /\ (Listed \cup SetAside) \cap (running \cup HasResult) = {}
    BY DEF Accounted
  <1>4. K \cap has = {} /\ D \cap has = {} /\ D \cap (running \cup HasResult) = {} /\ K \cap out = {}
    BY <1>0, <1>1, <1>3
  <1>5. \A t \in K : t \in Tests /\ results[t] = <<>>
    BY <1>0, <1>1, <1>3, <1>4
  <1>6. ASSUME NEW t \in Tests
        PROVE  Len(completed'[t]) <= 1 /\ (completed'[t] # <<>> <=> t \in has \cup K)
    <2>1. CASE t \in K
      <3>1. completed'[t] = Append(<<>>, [Fresh(t) EXCEPT !.result = "skipped"])
        BY <1>0, <1>2, <1>5, <2>1
      <3> QED  BY <2>1, <3>1
    <2>2. CASE t \notin K
      BY <1>0, <1>2, <2>2
    <2> QED  BY <2>1, <2>2
  <1>7. Tests' = Tests
    BY SameOptions
  <1>8. HasResult' = has \cup K
    <2>1. HasResult' = {t \in Tests : completed'[t] # <<>>}
      BY <1>7 DEF HasResult
    <2> QED  BY <1>0, <1>1, <1>3, <1>6, <2>1
  <1>9. Out' = (out \ has) \cup D
    <2>1. Out' = running' \ HasResult'
      BY DEF Out
    <2> QED  BY <1>1, <1>4, <1>8, <2>1
  <1>10. main' \in {"serving", "killed"}
    BY DEF Hands, Answer
  <1>11. (Undoubled => running \cap HasResult = {})'
    BY <1>0, <1>1, <1>4, <1>8, <1>10 DEF Undoubled
  <1>12. (Listed \cup SetAside \cup running \cup HasResult)' = Tests
    BY <1>0, <1>1, <1>3, <1>8
  <1>13. ((Listed \cup SetAside) \cap (running \cup HasResult))' = {}
    BY <1>0, <1>1, <1>3, <1>4, <1>8
  <1>14. (\A t \in Tests : Len(completed[t]) <= 1)'
    BY <1>6, <1>7
  <1>15. Accounted'
    BY <1>1, <1>7, <1>11, <1>12, <1>13, <1>14 DEF Accounted
  <1> QED  BY <1>4, <1>9, <1>15

\* The master reads a line of w, of which the tests R come back, and looks for
\* the next test.
Search(w, R, out, has, n, results, K, D, m) ==
    /\ main = "serving" /\ TakesBack(w, R) /\ toMaster' \in [Workers -> Seq(UpMsg)]
    /\ Settles(out, has, results) /\ out \ has = Out \ R /\ n \in Int
    /\ Hands(w, out, n, results, K, D, m)
    /\ lastWorker' \in 0..opt.parallel /\ numFailed' \in Nat
    /\ UNCHANGED <<opt, childs, link, worker, holds, errors, outcomes>>

LEMMA SearchKeeps ==
    ASSUME IInv, NEW w \in Workers, NEW R, NEW out, NEW has, NEW n, NEW results, NEW K, NEW D, NEW m,
           Search(w, R, out, has, n, results, K, D, m)
    PROVE  IInv'
  <1>0. /\ Typed /\ OneCopy /\ Accounted /\ Posts /\ Verdict /\ ListsGood
        /\ opt' = opt /\ main = "serving" /\ n \in Int
        /\ lastWorker' \in 0..opt.parallel /\ numFailed' \in Nat
        /\ toMaster' \in [Workers -> Seq(UpMsg)] /\ TakesBack(w, R)
        /\ UNCHANGED <<childs, link, worker, holds, errors, outcomes>>
    BY DEF IInv, Accounted, Search
  <1>1. /\ out \subseteq Tests /\ results \in [Tests -> Seq(Carried)]
        /\ Settles(out, has, results) /\ out \ has = Out \ R
    BY DEF Settles, Search
  <1>2. Hands(w, out, n, results, K, D, m)
    BY DEF Search
  <1>3. /\ tests' \in Seq(Untried) /\ nonParallel' \in Seq(Untried)
        /\ running' \subseteq Tests
        /\ completed' \in [Tests -> Seq(Carried)]
        /\ numNdb' \in Int /\ completedWid' \in 0..opt.parallel
        /\ toWorker' \in [Workers -> Seq(DownMsg)] /\ GivesOut(w, D)
        /\ main' \in {main, "killed"}
    BY <1>0, <1>1, <1>2, HandsTyped
  <1>4. Accounted' /\ Out' = (out \ has) \cup D /\ D \cap (running \cup HasResult) = {}
    BY <1>0, <1>1, <1>2, HandsAccounted
  <1>5. Typed'
    BY <1>0, <1>3, SameOptions DEF Typed
  <1>6. OneCopy'
    <2>1. Out' = (Out \ R) \cup D /\ D \cap (Out \ R) = {} /\ holds' = holds
      BY <1>0, <1>1, <1>4 DEF Out
    <2> QED  BY <1>0, <1>3, <2>1, ExchangeKeeps
  <1>7. Posts' /\ Verdict'
    BY <1>0, <1>3 DEF Posts, Verdict
  <1> QED  BY <1>4, <1>5, <1>6, <1>7 DEF IInv

LEMMA NotesSearch ==
    ASSUME IInv, NEW w \in Workers, Notes(w)
    PROVE  \E K, D, m : Search(w, {}, running, HasResult, numNdb, completed, K, D, m)
  <1>0. Typed /\ Accounted /\ ListsGood /\ opt' = opt
    BY DEF IInv, Accounted, Notes
  <1>1. PICK type \in {"START", "SPENT", "VALGREP"} : Reads(w, type)
    BY DEF Notes
  <1>2. main = "serving" /\ toMaster' \in [Workers -> Seq(UpMsg)] /\ TakesBack(w, {})
    BY <1>0, <1>1, ReadTyped
  <1>3. /\ lastWorker \in 0..opt.parallel /\ numNdb \in Int /\ running \subseteq Tests
        /\ completed \in [Tests -> Seq(Carried)] /\ numFailed \in Nat
    BY <1>0 DEF Typed
  <1>4. Settles(running, HasResult, completed)
    BY <1>0, <1>2, <1>3 DEF Settles, Accounted, Undoubled, HasResult
  <1>5. running \ HasResult = Out \ {}
    BY DEF Out
  <1>6. /\ Schedule(w, lastWorker, running, numNdb, completed)
        /\ lastWorker' \in 0..opt.parallel /\ numFailed' \in Nat
        /\ UNCHANGED <<opt, childs, link, worker, holds, errors, outcomes>>
    BY <1>0, <1>3 DEF Notes, workers
  <1>7. PICK K, D, m : Hands(w, running, numNdb, completed, K, D, m)
    BY <1>0, <1>3, <1>6, ScheduleHands
  <1>8. Search(w, {}, running, HasResult, numNdb, completed, K, D, m)
    BY <1>2, <1>3, <1>4, <1>5, <1>6, <1>7 DEF Search
  <1> QED  BY <1>8

\* A result that the master reads is of a test that is out, and with it the
\* test has one result.
LEMMA ResultKnown ==
    ASSUME IInv, NEW w \in Workers, Reads(w, "TESTRESULT")
    PROVE  /\ Result(w) \in Carried /\ Result(w).id \in Out
           /\ Result(w).id \in Tests /\ completed[Result(w).id] = <<>>
           /\ FailedSoFar(Result(w)) \in Nat /\ Result(w).worker \in 0..opt.parallel
           /\ [completed EXCEPT ![Result(w).id] = Append(@, Result(w))]
                 \in [Tests -> Seq(Carried)]
           /\ \A t \in Tests : LET c == [completed EXCEPT ![Result(w).id] = Append(@, Result(w))]
                               IN  /\ Len(c[t]) <= 1
                                   /\ c[t] # <<>> <=> t \in HasResult \cup {Result(w).id}
  <1>0. Typed /\ OneCopy /\ Accounted
    BY DEF IInv
  <1>1. Result(w) \in Carried /\ Result(w).id \in IdsIn(toMaster[w])
    BY <1>0, ReadTyped
  <1>2. PICK r \in Carried : r = Result(w)
    BY <1>1
  <1>3. r.id \in Out
    BY <1>0, <1>1, <1>2, OutIfCarried
  <1>4. r.id \in Tests /\ r.worker \in 0..opt.parallel
    BY DEF Carried, Travelling
  <1>5. completed[r.id] = <<>> /\ completed \in [Tests -> Seq(Carried)]
    BY <1>0, <1>3, <1>4 DEF Out, HasResult, Typed
  <1>6. FailedSoFar(r) \in Nat
    BY <1>0 DEF FailedSoFar, Typed
  <1> DEFINE c == [completed EXCEPT ![r.id] = Append(@, r)]
  <1>7. c \in [Tests -> Seq(Carried)] /\ c[r.id] = <<r>> /\ \A t \in Tests \ {r.id} : c[t] = completed[t]
    BY <1>4, <1>5
  <1>8. \A t \in Tests : Len(c[t]) <= 1 /\ (c[t] # <<>> <=> t \in HasResult \cup {r.id})
    <2> HIDE DEF c
    <2> SUFFICES ASSUME NEW t \in Tests
                 PROVE  Len(c[t]) <= 1 /\ (c[t] # <<>> <=> t \in HasResult \cup {r.id})
      OBVIOUS
    <2>1. CASE t = r.id
      <3>1. Len(<<r>>) = 1 /\ <<r>> # <<>>
        OBVIOUS
      <3>2. c[t] = <<r>>
        BY <1>7, <2>1
      <3> QED  BY <2>1, <3>1, <3>2
    <2>2. CASE t # r.id
      BY <1>0, <1>7, <2>2 DEF HasResult, Accounted
    <2> QED  BY <2>1, <2>2
  <1> QED  BY <1>2, <1>3, <1>4, <1>5, <1>6, <1>7, <1>8

\* The running tests, the results and the number of ndb tests as a result
\* leaves them.
Ndb(r) == IF r.id \in opt.ndb_test THEN numNdb - 1 ELSE numNdb
With(r) == [completed EXCEPT ![r.id] = Append(@, r)]

LEMMA FinishSearch ==
    ASSUME IInv, NEW w \in Workers, FinishTest(w)
    PROVE  LET r == Result(w) IN
           /\ r \in Carried /\ r.id \in Out
           /\ \E K, D, m : Search(w, {r.id}, running \ {r.id}, HasResult \cup {r.id}, Ndb(r), With(r), K, D, m)
  <1>0. Typed /\ Accounted /\ ListsGood /\ opt' = opt /\ Reads(w, "TESTRESULT")
    BY DEF IInv, Accounted, FinishTest, GoesOn
  <1>1. PICK r \in Carried : r = Result(w)
    BY <1>0, ReadTyped
  <1>2. /\ main = "serving" /\ toMaster' \in [Workers -> Seq(UpMsg)] /\ TakesBack(w, {r.id})
    BY <1>0, <1>1, ReadTyped
  <1> DEFINE c == With(r)
             has == HasResult \cup {r.id}
             out == running \ {r.id}
             n == Ndb(r)
  <1>3. /\ r.id \in Out /\ r.id \in Tests /\ r.worker \in 0..opt.parallel /\ FailedSoFar(r) \in Nat
        /\ c \in [Tests -> Seq(Carried)]
        /\ \A t \in Tests : Len(c[t]) <= 1 /\ (c[t] # <<>> <=> t \in has)
    BY <1>0, <1>1, ResultKnown DEF With
  <1>4. Schedule(w, r.worker, out, n, c)
    <2>1. r.id \in running
      BY <1>3 DEF Out
    <2>2. Back(r) = out
      BY DEF Back
    <2> QED  BY <1>1, <2>1, <2>2 DEF FinishTest, Ndb, With
  <1>5. /\ lastWorker' \in 0..opt.parallel /\ numFailed' \in Nat
        /\ UNCHANGED <<opt, childs, link, worker, holds, errors, outcomes>>
    BY <1>1, <1>3 DEF FinishTest, GoesOn, workers
  <1>6. n \in Int /\ running \subseteq Tests
    BY <1>0 DEF Typed, Ndb
  <1> HIDE DEF c, n
  <1>7. Settles(out, has, c)
    <2>1. has \subseteq Tests
      BY <1>3 DEF HasResult
    <2>2. has = {t \in Tests : c[t] # <<>>}
      BY <1>3, <2>1
    <2>3. out \cup has = running \cup HasResult
      BY <1>3 DEF Out
    <2>4. opt.force \/ ~opt.valgrind => out \cap has = {}
      BY <1>0, <1>2 DEF Accounted, Undoubled
    <2> HIDE DEF has
    <2> QED  BY <1>3, <1>6, <2>2, <2>3, <2>4 DEF Settles
  <1>8. out \ has = Out \ {r.id}
    BY DEF Out
  <1> HIDE DEF has, out
  <1>9. PICK K, D, m : Hands(w, out, n, c, K, D, m)
    BY <1>0, <1>3, <1>4, ScheduleHands
  <1>10. Search(w, {r.id}, out, has, n, c, K, D, m)
    BY <1>2, <1>5, <1>6, <1>7, <1>8, <1>9 DEF Search
  <1> QED  BY <1>1, <1>3, <1>10 DEF out, has, n, c

LEMMA LookKeeps ==
    ASSUME IInv, NEW w \in Workers, Notes(w) \/ FinishTest(w)
    PROVE  IInv'
  BY NotesSearch, FinishSearch, SearchKeeps

\* A test that goes straight back to its worker, for a retry or a repeat.
LEMMA AgainKeeps ==
    ASSUME IInv, NEW w \in Workers, GoesOn(w), NEW t \in Carried, t.id = Result(w).id, Give(w, t),
           UNCHANGED <<tests, nonParallel, running, completed, numNdb, completedWid>>,
           outcomes' \in [Tests -> Seq({"passed", "failed", "skipped"})]
    PROVE  IInv'
  <1>0. /\ Typed /\ OneCopy /\ Accounted /\ Posts /\ Verdict /\ opt' = opt
        /\ Reads(w, "TESTRESULT")
    BY DEF IInv, GoesOn
  <1>1. PICK r \in Carried : r = Result(w)
    BY <1>0, ReadTyped
  <1>2. main = "serving" /\ toMaster' \in [Workers -> Seq(UpMsg)] /\ TakesBack(w, {r.id})
    BY <1>0, <1>1, ReadTyped
  <1>3. r.id \in Out /\ r.worker \in 0..opt.parallel /\ FailedSoFar(r) \in Nat
    BY <1>0, <1>1, ResultKnown
  <1> DEFINE m == [type |-> "TESTCASE", test |-> t]
  <1>4. m \in DownMsg /\ Borne(m) = {r.id}
    BY <1>1, MessageTyped
  <1>5. Answer(w, m)
    BY DEF Give
  <1> HIDE DEF m
  <1>6. /\ toWorker' \in [Workers -> Seq(DownMsg)] /\ GivesOut(w, {r.id})
        /\ main' \in {main, "killed"}
    BY <1>0, <1>4, <1>5, AnswerTyped DEF GivesOut
  <1>7. /\ lastWorker' \in 0..opt.parallel /\ numFailed' \in Nat
        /\ UNCHANGED <<childs, link, worker, holds, errors>>
    BY <1>1, <1>3 DEF GoesOn, workers
  <1>8. Typed'
    BY <1>0, <1>2, <1>6, <1>7, SameOptions DEF Typed
  <1>9. Out' = (Out \ {r.id}) \cup {r.id} /\ {r.id} \cap (Out \ {r.id}) = {} /\ HasResult' = HasResult
    BY <1>0, <1>3, SameOptions DEF Out, HasResult
  <1>10. OneCopy'
    BY <1>0, <1>2, <1>6, <1>7, <1>9, ExchangeKeeps
  <1>11. Accounted'
    <2>1. Tests' = Tests /\ Listed' = Listed /\ SetAside' = SetAside /\ running' = running
      BY <1>0, SameOptions DEF Listed, SetAside, Ids
    <2>2. ListsGood'
      BY <1>0, <2>1 DEF Accounted, ListsGood, Unique
    <2>3. (Undoubled => running \cap HasResult = {})'
      BY <1>0, <1>2, <1>6, <1>9, <2>1 DEF Accounted, Undoubled
    <2>4. (\A t1 \in Tests : Len(completed[t1]) <= 1)'
      BY <1>0, <2>1 DEF Accounted
    <2> QED  BY <1>0, <1>9, <2>1, <2>2, <2>3, <2>4 DEF Accounted
  <1>12. Posts' /\ Verdict'
    BY <1>0, <1>2, <1>6, <1>7 DEF Posts, Verdict
  <1> QED  BY <1>8, <1>10, <1>11, <1>12 DEF IInv

LEMMA RetryKeeps ==
    ASSUME IInv, NEW w \in Workers, RetryTest(w)
    PROVE  IInv'
  <1>0. Typed /\ GoesOn(w) /\ Reads(w, "TESTRESULT")
    BY DEF IInv, RetryTest, GoesOn
  <1>1. PICK r \in Carried : r = Result(w)
    BY <1>0, ReadTyped
  <1>2. r.retries \in Nat
    BY DEF Carried, Travelling
  <1>3. NextRun(r) + 1 \in Nat
    BY <1>2 DEF NextRun
  <1> DEFINE t == [r EXCEPT !.result = "none", !.retries = NextRun(r) + 1]
  <1>4. t \in Carried /\ t.id = r.id
    BY <1>3 DEF Carried, Travelling
  <1>5. /\ Give(w, t)
        /\ UNCHANGED <<tests, nonParallel, running, completed, numNdb, completedWid>>
        /\ outcomes' \in [Tests -> Seq({"passed", "failed", "skipped"})]
    BY <1>0, <1>1 DEF RetryTest, Typed
  <1> HIDE DEF t
  <1> QED  BY <1>0, <1>1, <1>4, <1>5, AgainKeeps

LEMMA RepeatKeeps ==
    ASSUME IInv, NEW w \in Workers, RepeatTest(w)
    PROVE  IInv'
  <1>0. Typed /\ GoesOn(w) /\ Reads(w, "TESTRESULT")
    BY DEF IInv, RepeatTest, GoesOn
  <1>1. PICK r \in Carried : r = Result(w)
    BY <1>0, ReadTyped
  <1>2. r.repeat \in Nat
    BY DEF Carried, Travelling
  <1>3. (IF r.repeat = 0 THEN 2 ELSE r.repeat + 1) \in Nat
    BY <1>2
  <1>4. Anew(r) \in Carried /\ Anew(r).id = r.id
    BY <1>3 DEF Carried, Travelling, Anew
  <1>5. /\ Give(w, Anew(r))
        /\ UNCHANGED <<tests, nonParallel, running, completed, numNdb, completedWid>>
        /\ outcomes' = [outcomes EXCEPT ![r.id] = <<>>]
    BY <1>0, <1>1 DEF RepeatTest
  <1>6. outcomes' \in [Tests -> Seq({"passed", "failed", "skipped"})]
    <2>1. <<>> \in Seq({"passed", "failed", "skipped"})
      OBVIOUS
    <2> QED  BY <1>0, <1>5, <2>1 DEF Typed
  <1> QED  BY <1>0, <1>1, <1>4, <1>5, <1>6, AgainKeeps

\* A result is noted, and the suite is not gone on with.
LEMMA StopKeeps ==
    ASSUME IInv, NEW w \in Workers, FailWithoutForce(w) \/ TooManyFailed(w)
    PROVE  IInv'
  <1>0. /\ Typed /\ OneCopy /\ Accounted /\ Posts /\ Verdict /\ opt' = opt
        /\ Reads(w, "TESTRESULT")
    BY DEF IInv, FailWithoutForce, TooManyFailed
  <1>1. PICK r \in Carried : r = Result(w)
    BY <1>0, ReadTyped
  <1>2. main = "serving" /\ toMaster' \in [Workers -> Seq(UpMsg)] /\ TakesBack(w, {r.id})
    BY <1>0, <1>1, ReadTyped
  <1> DEFINE c == [completed EXCEPT ![r.id] = Append(@, r)]
             has == HasResult \cup {r.id}
  <1>3. /\ r.id \in Out /\ r.id \in Tests /\ r.worker \in 0..opt.parallel /\ FailedSoFar(r) \in Nat
        /\ c \in [Tests -> Seq(Carried)]
        /\ \A t \in Tests : Len(c[t]) <= 1 /\ (c[t] # <<>> <=> t \in has)
    BY <1>0, <1>1, ResultKnown
  <1>4. /\ completed' = c /\ lastWorker' \in 0..opt.parallel /\ numFailed' \in Nat
        /\ UNCHANGED <<tests, nonParallel, running, numNdb, completedWid, childs, link, worker,
                       holds, errors, outcomes>>
    BY <1>1, <1>3 DEF FailWithoutForce, TooManyFailed, workers
  <1> HIDE DEF c
  <1>5. /\ GivesOut(w, {}) /\ toWorker' \in [Workers -> Seq(DownMsg)]
        /\ main' \in {"serving", "returned", "aborted", "killed"}
        /\ opt.force => main' = "aborted"
        /\ ~opt.valgrind => main' # "serving"
    <2>1. CASE Bye(w) /\ ~opt.force /\ opt.valgrind
      <3> DEFINE m == [type |-> "BYE"]
      <3>1. m \in DownMsg /\ Borne(m) = {} /\ Answer(w, m)
        BY <2>1, ByeTyped DEF Bye
      <3> HIDE DEF m
      <3>2. toWorker' \in [Workers -> Seq(DownMsg)] /\ main' \in {main, "killed"}
        BY <1>0, <3>1, AnswerTyped
      <3>3. GivesOut(w, {})
        BY <1>0, <3>1, AnswerTyped DEF GivesOut
      <3> QED  BY <1>2, <2>1, <3>2, <3>3
    <2>2. CASE UNCHANGED toWorker /\ main' = "returned" /\ ~opt.force
      BY <1>0, <2>2 DEF GivesOut, Typed
    <2>3. CASE UNCHANGED toWorker /\ main' = "aborted"
      BY <1>0, <2>3 DEF GivesOut, Typed
    <2>4. r.warned => opt.valgrind
      BY DEF Carried
    <2> QED  BY <1>1, <2>1, <2>2, <2>3, <2>4 DEF FailWithoutForce, TooManyFailed
  <1>6. Typed'
    BY <1>0, <1>2, <1>3, <1>4, <1>5, SameOptions DEF Typed
  <1>7. Tests' = Tests /\ Listed' = Listed /\ SetAside' = SetAside /\ running' = running
    BY <1>0, <1>4, SameOptions DEF Listed, SetAside, Ids
  <1>8. HasResult' = has
    <2>1. HasResult' = {t \in Tests : c[t] # <<>>}
      BY <1>4, <1>7 DEF HasResult
    <2> QED  BY <1>3, <2>1 DEF HasResult
  <1> HIDE DEF has
  <1>9. OneCopy'
    <2>1. Out' = (Out \ {r.id}) \cup {} /\ {} \cap (Out \ {r.id}) = {} /\ holds' = holds
      BY <1>4, <1>7, <1>8 DEF Out, has
    <2> QED  BY <1>0, <1>2, <1>5, <2>1, ExchangeKeeps
  <1>10. Accounted'
    <2>1. ListsGood'
      BY <1>0, <1>4, <1>7 DEF Accounted, ListsGood, Unique
    <2>2. running \cup has = running \cup HasResult
      BY <1>3 DEF has, Out
    <2>3. (\A t \in Tests : Len(completed[t]) <= 1)'
      BY <1>3, <1>4, <1>7
    <2>4. (Undoubled => running \cap HasResult = {})'
      BY <1>0, <1>5 DEF Undoubled
    <2>5. /\ (Listed \cup SetAside \cup running \cup HasResult = Tests)'
          /\ ((Listed \cup SetAside) \cap (running \cup HasResult) = {})'
      BY <1>0, <1>7, <1>8, <2>2 DEF Accounted
    <2> QED  BY <2>1, <2>3, <2>4, <2>5 DEF Accounted
  <1>11. Posts' /\ Verdict'
    BY <1>0, <1>2, <1>4, <1>5 DEF Posts, Verdict
  <1> QED  BY <1>6, <1>9, <1>10, <1>11 DEF IInv

\* Steps that leave the lists and the results alone.
LEMMA ListsKept ==
    ASSUME Accounted, UNCHANGED <<opt, tests, nonParallel, running, completed>>,
           main' \notin {"aborted", "failed"} => main \notin {"aborted", "failed"},
           main' = "serving" => main = "serving"
    PROVE  Accounted' /\ Out' = Out /\ HasResult' = HasResult
  <1>1. /\ Tests' = Tests /\ Listed' = Listed /\ SetAside' = SetAside /\ running' = running
        /\ HasResult' = HasResult /\ opt' = opt
    BY SameOptions DEF Listed, SetAside, Ids, HasResult
  <1>2. ListsGood'
    BY <1>1 DEF Accounted, ListsGood, Unique
  <1>3. (\A t \in Tests : Len(completed[t]) <= 1)'
    BY <1>1 DEF Accounted
  <1>4. (Undoubled => running \cap HasResult = {})'
    BY <1>1 DEF Accounted, Undoubled
  <1> QED  BY <1>1, <1>2, <1>3, <1>4 DEF Accounted, Out

LEMMA CopiesKept ==
    ASSUME OneCopy, UNCHANGED <<toMaster, toWorker, holds>>, Out' = Out
    PROVE  OneCopy'
  <1>1. Contents' = Contents
    BY DEF Contents, IdsIn, Ids, Bearing
  <1>2. Copies(Contents', Out')
    BY <1>1 DEF OneCopy
  <1>3. \A w \in Workers : OnceEach(toWorker'[w]) /\ OnceEach(toMaster'[w]) /\ Unique(holds'[w])
    BY DEF OneCopy
  <1> QED  BY <1>2, <1>3 DEF OneCopy, Copies, OnceEach, Unique, Bearing, Queues

LEMMA AcceptKeeps ==
    ASSUME IInv, NEW w \in Workers, Accept(w)
    PROVE  IInv'
  <1>0. /\ Typed /\ OneCopy /\ Accounted /\ Posts /\ Verdict /\ opt' = opt /\ main = "serving"
    BY DEF IInv, Accept
  <1> DEFINE m == [type |-> "HELLO"]
  <1>1. m \in DownMsg /\ Borne(m) = {} /\ Answer(w, m)
    BY DEF Accept, DownMsg, Borne
  <1> HIDE DEF m
  <1>2. toWorker' \in [Workers -> Seq(DownMsg)] /\ main' \in {main, "killed"} /\ GivesOut(w, {})
    BY <1>0, <1>1, AnswerTyped DEF GivesOut
  <1>3. /\ UNCHANGED <<tests, nonParallel, running, completed, lastWorker, numNdb, numFailed,
                       completedWid, childs, toMaster, worker, holds, errors, outcomes>>
        /\ link' \in [Workers -> {"none", "pending", "open", "closed"}]
    BY <1>0 DEF Accept, workers, Typed
  <1>4. Typed'
    BY <1>0, <1>2, <1>3, SameOptions DEF Typed
  <1>5. Accounted' /\ Out' = Out
    BY <1>0, <1>2, <1>3, ListsKept
  <1>6. OneCopy'
    <2>1. TakesBack(w, {}) /\ Out' = (Out \ {}) \cup {} /\ {} \cap (Out \ {}) = {} /\ holds' = holds
      BY <1>3, <1>5 DEF TakesBack
    <2> QED  BY <1>0, <1>2, <2>1, ExchangeKeeps
  <1>7. Posts' /\ Verdict'
    BY <1>0, <1>2, <1>3 DEF Posts, Verdict
  <1> QED  BY <1>4, <1>5, <1>6, <1>7 DEF IInv

\* The master's steps that read nothing.
LEMMA QuietKeeps ==
    ASSUME IInv, UNCHANGED <<opt, tests, nonParallel, running, completed, lastWorker, numNdb,
                             numFailed, completedWid, sockets, workers, outcomes>>,
           main' \in {"serving", "returned", "aborted", "killed", "completed", "failed"},
           main' \notin {"aborted", "failed"} => main \notin {"aborted", "failed"},
           main' = "serving" => main = "serving",
           childs' \in 0..opt.parallel, main' = "serving" => childs' > 0,
           main' = "completed" => \A t \in Tests : completed[t] # <<>>,
           link' \in [Workers -> {"none", "pending", "open", "closed"}]
    PROVE  IInv'
  <1>0. Typed /\ OneCopy /\ Accounted /\ Posts /\ opt' = opt
    BY DEF IInv
  <1>1. UNCHANGED <<toMaster, toWorker, worker, holds, errors>>
    BY DEF sockets, workers
  <1>2. Typed'
    BY <1>0, <1>1, SameOptions DEF Typed
  <1>3. Accounted' /\ Out' = Out
    BY <1>0, ListsKept
  <1>4. OneCopy'
    BY <1>0, <1>1, <1>3, CopiesKept
  <1>5. Posts' /\ Verdict'
    BY <1>0, <1>1, SameOptions DEF Posts, Verdict
  <1> QED  BY <1>2, <1>3, <1>4, <1>5 DEF IInv

LEMMA ClosedKeeps ==
    ASSUME IInv, NEW w \in Workers, Closed(w)
    PROVE  IInv'
  <1>1. Typed /\ Verdict /\ main = "serving"
    BY DEF IInv, Closed
  <1>2. childs \in 0..opt.parallel /\ childs > 0 /\ opt.parallel \in Nat
    BY <1>1, OptionsTyped DEF Typed, Verdict
  <1>3. childs' = childs - 1 /\ main' = IF childs = 1 THEN "returned" ELSE "serving"
    BY <1>1 DEF Closed, LastChild
  <1>4. childs' \in 0..opt.parallel /\ (main' = "serving" => childs' > 0)
    BY <1>2, <1>3
  <1>5. link' \in [Workers -> {"none", "pending", "open", "closed"}]
    BY <1>1 DEF Closed, Typed
  <1>6. UNCHANGED <<opt, tests, nonParallel, running, completed, lastWorker, numNdb,
                    numFailed, completedWid, sockets, workers, outcomes>>
    BY DEF Closed
  <1>7. /\ main' \in {"serving", "returned", "aborted", "killed", "completed", "failed"}
        /\ main' \notin {"aborted", "failed"} => main \notin {"aborted", "failed"}
        /\ main' # "completed" /\ (main' = "serving" => main = "serving")
    BY <1>1, <1>3
  <1> QED  BY <1>4, <1>5, <1>6, <1>7, QuietKeeps

\* As many results as tests are one result of each.
LEMMA AllCounted ==
    ASSUME Typed, Accounted, NumCompleted = Cardinality(Tests)
    PROVE  \A t \in Tests : completed[t] # <<>>
  <1>1. IsFiniteSet(Tests) /\ HasResult \subseteq Tests
    BY TestsFinite DEF Typed, HasResult
  <1>2. IsFiniteSet(HasResult)
    BY <1>1, FS_Subset
  <1> DEFINE B == UNION {{t} \X DOMAIN completed[t] : t \in Tests}
             f == [t \in HasResult |-> <<t, 1>>]
  <1>3. B = {<<t, 1>> : t \in HasResult}
    <2>1. ASSUME NEW t \in Tests
          PROVE  DOMAIN completed[t] = IF t \in HasResult THEN {1} ELSE {}
      <3>1. PICK c \in Seq(Carried) : c = completed[t]
        BY DEF Typed
      <3>2. Len(c) <= 1 /\ (t \in HasResult <=> c # <<>>) /\ Len(c) \in Nat /\ DOMAIN c = 1..Len(c)
        BY <3>1 DEF Accounted, HasResult
      <3>3. c # <<>> => Len(c) # 0
        OBVIOUS
      <3>4. CASE c = <<>>
        BY <3>1, <3>2, <3>4
      <3>5. CASE c # <<>>
        <4>1. Len(c) = 1
          BY <3>2, <3>3, <3>5
        <4>2. DOMAIN c = {1}
          BY <3>2, <4>1
        <4> QED  BY <3>1, <3>2, <3>5, <4>2
      <3> QED  BY <3>4, <3>5
    <2>2. ASSUME NEW b \in B PROVE b \in {<<t, 1>> : t \in HasResult}
      <3>1. PICK t \in Tests : b \in {t} \X DOMAIN completed[t]
        BY <2>2
      <3>2. t \in HasResult /\ b \in {t} \X {1}
        BY <2>1, <3>1
      <3> QED  BY <3>2
    <2>3. ASSUME NEW t \in HasResult PROVE <<t, 1>> \in B
      <3>1. t \in Tests /\ DOMAIN completed[t] = {1}
        BY <1>1, <2>1
      <3>2. <<t, 1>> \in {t} \X DOMAIN completed[t]
        BY <3>1
      <3> QED  BY <3>1, <3>2
    <2> QED  BY <2>2, <2>3
  <1> HIDE DEF B
  <1>4. f \in Bijection(HasResult, B)
    BY <1>3 DEF Bijection, Injection, Surjection, IsInjective
  <1> HIDE DEF f
  <1>5. Cardinality(HasResult) = Cardinality(B)
    BY <1>2, <1>4, FS_Bijection DEF ExistsBijection
  <1>6. Cardinality(HasResult) = Cardinality(Tests)
    BY <1>5 DEF NumCompleted, B
  <1>7. HasResult = Tests
    BY <1>1, <1>6, FS_Subset
  <1> QED  BY <1>7 DEF HasResult

LEMMA ReapKeeps ==
    ASSUME IInv, Reap
    PROVE  IInv'
  <1>1. Typed /\ Accounted
    BY DEF IInv
  <1>2. main' \in {"completed", "failed"} /\ main \in {"returned", "aborted"}
        /\ (main' = "completed" => main = "returned" /\ NumCompleted = Cardinality(Tests))
    BY DEF Reap
  <1>3. /\ UNCHANGED <<opt, tests, nonParallel, running, completed, lastWorker, numNdb,
                       numFailed, completedWid, childs, link, sockets, workers, outcomes>>
    BY DEF Reap
  <1>4. childs' \in 0..opt.parallel /\ link' \in [Workers -> {"none", "pending", "open", "closed"}]
    BY <1>1, <1>3 DEF Typed
  <1>5. main' = "completed" => \A t \in Tests : completed[t] # <<>>
    BY <1>1, <1>2, AllCounted
  <1>6. main' \notin {"aborted", "failed"} => main \notin {"aborted", "failed"}
    BY <1>2
  <1>7. /\ main' \in {"serving", "returned", "aborted", "killed", "completed", "failed"}
        /\ main' # "serving"
    BY <1>2
  <1> QED  BY <1>3, <1>4, <1>5, <1>6, <1>7, QuietKeeps

LEMMA ExpireKeeps ==
    ASSUME IInv, SuiteExpires
    PROVE  IInv'
  <1>1. Typed /\ main' = "aborted"
    BY DEF IInv, SuiteExpires
  <1>2. /\ UNCHANGED <<opt, tests, nonParallel, running, completed, lastWorker, numNdb,
                       numFailed, completedWid, childs, link, sockets, workers, outcomes>>
    BY DEF SuiteExpires
  <1>3. childs' \in 0..opt.parallel /\ link' \in [Workers -> {"none", "pending", "open", "closed"}]
    BY <1>1, <1>2 DEF Typed
  <1> QED  BY <1>1, <1>2, <1>3, QuietKeeps

-----------------------------------------------------------------------------
(* The steps of the workers.                                               *)

\* Tests move from one queue of w to another.
Shifted(c, d, w, k1, k2, R) ==
    \A v \in Workers : \A k \in {"down", "up", "held"} :
        d[<<v, k>>] = IF v = w /\ k = k1 THEN c[<<v, k>>] \ R
                      ELSE IF v = w /\ k = k2 THEN c[<<v, k>>] \cup R ELSE c[<<v, k>>]

LEMMA MoveKeeps ==
    ASSUME OneCopy, Out' = Out, NEW w \in Workers, NEW R,
           NEW k1 \in {"down", "up", "held"}, NEW k2 \in {"down", "up", "held"}, k1 # k2,
           R \subseteq Contents[<<w, k1>>], Shifted(Contents, Contents', w, k1, k2, R),
           \A v \in Workers : OnceEach(toWorker'[v]) /\ OnceEach(toMaster'[v]) /\ Unique(holds'[v])
    PROVE  OneCopy'
  <1> DEFINE b1 == <<w, k1>>
             b2 == <<w, k2>>
  <1>1. b1 \in Queues /\ b2 \in Queues /\ b1 # b2
    BY DEF Queues
  <1>2. Moved(Contents, Contents', b1, R, b2, R)
    <2> SUFFICES ASSUME NEW b \in Queues
                 PROVE  Contents'[b] = IF b = b1 THEN Contents[b] \ R
                                       ELSE IF b = b2 THEN Contents[b] \cup R ELSE Contents[b]
      BY DEF Moved
    <2>1. PICK v \in Workers, k \in {"down", "up", "held"} : b = <<v, k>>
      BY DEF Queues
    <2>2. (b = b1 <=> v = w /\ k = k1) /\ (b = b2 <=> v = w /\ k = k2)
      BY <2>1
    <2> HIDE DEF b1, b2
    <2> QED  BY <2>1, <2>2 DEF Shifted
  <1>3. Copies(Contents, Out)
    BY DEF OneCopy
  <1>4. R \subseteq Contents[b1]
    OBVIOUS
  <1>5. R \subseteq Out
    BY <1>1, <1>3, <1>4 DEF Copies
  <1>6. R \cap (Out \ R) = {} /\ Out = (Out \ R) \cup R
    BY <1>5
  <1> HIDE DEF b1, b2
  <1>7. Copies(Contents', (Out \ R) \cup R)
    BY <1>1, <1>2, <1>3, <1>4, <1>6, CopiesMoved
  <1>8. Copies(Contents', Out')
    BY <1>6, <1>7
  <1> QED  BY <1>8 DEF OneCopy, Copies, OnceEach, Unique, Bearing, Queues

LEMMA ContentsKept ==
    ASSUME OneCopy, Out' = Out,
           \A v \in Workers : /\ IdsIn(toWorker'[v]) = IdsIn(toWorker[v])
                              /\ IdsIn(toMaster'[v]) = IdsIn(toMaster[v])
                              /\ Ids(holds'[v]) = Ids(holds[v]),
           \A v \in Workers : OnceEach(toWorker'[v]) /\ OnceEach(toMaster'[v]) /\ Unique(holds'[v])
    PROVE  OneCopy'
  <1>1. \A b \in Queues : Contents'[b] = Contents[b]
    <2> SUFFICES ASSUME NEW b \in Queues PROVE Contents'[b] = Contents[b]
      OBVIOUS
    <2>1. PICK v \in Workers : b \in {<<v, "down">>, <<v, "up">>, <<v, "held">>}
      BY QueueNames
    <2> QED  BY <2>1, QueuesOf, NextQueuesOf
  <1>2. Copies(Contents', Out')
    BY <1>1 DEF OneCopy, Copies
  <1> QED  BY <1>2 DEF OneCopy, Copies, OnceEach, Unique, Bearing, Queues

\* What every step of a worker leaves alone.
LEMMA WorkerKeeps ==
    ASSUME IInv, UNCHANGED <<opt, main, tests, nonParallel, running, completed, lastWorker, numNdb,
                             numFailed, completedWid, childs>>,
           link' \in [Workers -> {"none", "pending", "open", "closed"}],
           toMaster' \in [Workers -> Seq(UpMsg)], toWorker' \in [Workers -> Seq(DownMsg)],
           holds' \in [Workers -> Seq(Carried)],
           worker' \in [Workers -> {"forked", "connected", "waiting", "running", "gone"}],
           errors' \in 0..opt.errors,
           outcomes' \in [Tests -> Seq({"passed", "failed", "skipped"})],
           OneCopy', Posts'
    PROVE  IInv'
  <1>0. Typed /\ Accounted /\ Verdict
    BY DEF IInv
  <1>1. Typed'
    BY <1>0, SameOptions DEF Typed
  <1>2. Accounted'
    BY <1>0, ListsKept
  <1>3. Verdict'
    BY <1>0, SameOptions DEF Verdict
  <1> QED  BY <1>1, <1>2, <1>3 DEF IInv

\* A worker that only changes its state.
LEMMA ExitKeeps ==
    ASSUME IInv, NEW w \in Workers, UNCHANGED <<opt, master, sockets, holds, outcomes>>,
           Exits(w), errors' \in 0..opt.errors
    PROVE  IInv'
  <1>0. Typed /\ Accounted /\ OneCopy /\ Posts /\ opt' = opt
    BY DEF IInv
  <1>1. UNCHANGED <<main, tests, nonParallel, running, completed, lastWorker, numNdb,
                    numFailed, completedWid, childs, link, toMaster, toWorker>>
    BY DEF master, sockets
  <1>2. OneCopy'
    BY <1>0, <1>1, ListsKept, CopiesKept
  <1>3. Posts'
    BY <1>0 DEF Posts, Exits, Typed
  <1>4. worker' \in [Workers -> {"forked", "connected", "waiting", "running", "gone"}]
    BY <1>0 DEF Exits, Typed
  <1>5. /\ link' \in [Workers -> {"none", "pending", "open", "closed"}]
        /\ toMaster' \in [Workers -> Seq(UpMsg)] /\ toWorker' \in [Workers -> Seq(DownMsg)]
        /\ holds' \in [Workers -> Seq(Carried)]
        /\ outcomes' \in [Tests -> Seq({"passed", "failed", "skipped"})]
    BY <1>0, <1>1 DEF Typed
  <1> QED  BY <1>1, <1>2, <1>3, <1>4, <1>5, WorkerKeeps

LEMMA LeaveKeeps ==
    ASSUME IInv, NEW w \in Workers, Error(w) \/ Interrupted(w) \/ Orphaned(w)
    PROVE  IInv'
  <1>1. errors \in 0..opt.errors /\ opt.errors \in Nat
    BY OptionsTyped DEF IInv, Typed
  <1>2. errors' \in 0..opt.errors
    BY <1>1 DEF Error, Interrupted, Orphaned
  <1>3. UNCHANGED <<opt, master, sockets, holds, outcomes>> /\ Exits(w)
    BY DEF Error, Interrupted, Orphaned
  <1> QED  BY <1>2, <1>3, ExitKeeps

LEMMA ConnectKeeps ==
    ASSUME IInv, NEW w \in Workers, Connect(w)
    PROVE  IInv'
  <1>0. Typed /\ Accounted /\ OneCopy /\ Posts
    BY DEF IInv
  <1>1. UNCHANGED <<opt, main, tests, nonParallel, running, completed, lastWorker, numNdb,
                    numFailed, completedWid, childs, toMaster, toWorker, holds, errors, outcomes>>
    BY DEF Connect, sockets
  <1>2. OneCopy'
    BY <1>0, <1>1, ListsKept, CopiesKept
  <1>3. /\ worker[w] = "forked" /\ worker' = [worker EXCEPT ![w] = "connected"]
        /\ link' = [link EXCEPT ![w] = "pending"]
    BY DEF Connect
  <1>4. Posts'
    BY <1>0, <1>1, <1>3 DEF Posts, Typed
  <1>5. /\ worker' \in [Workers -> {"forked", "connected", "waiting", "running", "gone"}]
        /\ link' \in [Workers -> {"none", "pending", "open", "closed"}]
    BY <1>0, <1>3 DEF Typed
  <1>6. /\ toMaster' \in [Workers -> Seq(UpMsg)] /\ toWorker' \in [Workers -> Seq(DownMsg)]
        /\ holds' \in [Workers -> Seq(Carried)] /\ errors' \in 0..opt.errors
        /\ outcomes' \in [Tests -> Seq({"passed", "failed", "skipped"})]
    BY <1>0, <1>1 DEF Typed
  <1> QED  BY <1>1, <1>2, <1>4, <1>5, <1>6, WorkerKeeps

\* A line that a worker has read.
LEMMA HeardTyped ==
    ASSUME Typed, OneCopy, NEW w \in Workers, NEW from, NEW type, Hears(w, from, type)
    PROVE  /\ toWorker' \in [Workers -> Seq(DownMsg)]
           /\ Head(toWorker[w]) \in DownMsg /\ Head(toWorker[w]).type = type
           /\ IdsIn(toWorker'[w]) = IdsIn(toWorker[w]) \ Borne(Head(toWorker[w]))
           /\ Borne(Head(toWorker[w])) \subseteq IdsIn(toWorker[w])
           /\ \A v \in Workers : OnceEach(toWorker'[v])
           /\ \A v \in Workers \ {w} : toWorker'[v] = toWorker[v]
  <1>1. toWorker \in [Workers -> Seq(DownMsg)]
    BY DEF Typed
  <1>2. PICK q \in Seq(DownMsg) : q = toWorker[w]
    BY <1>1
  <1>3. q # <<>> /\ Head(q).type = type /\ toWorker' = [toWorker EXCEPT ![w] = Tail(@)] /\ OnceEach(q)
    BY <1>2 DEF Hears, OneCopy
  <1>4. /\ Tail(q) \in Seq(DownMsg) /\ Head(q) \in DownMsg
        /\ IdsIn(Tail(q)) \subseteq IdsIn(q) /\ Borne(Head(q)) \subseteq IdsIn(q)
        /\ IdsIn(q) \subseteq IdsIn(Tail(q)) \cup Borne(Head(q))
        /\ OnceEach(Tail(q)) /\ IdsIn(Tail(q)) \cap Borne(Head(q)) = {}
    BY <1>3, TailBears
  <1>5. /\ toWorker'[w] = Tail(q) /\ toWorker' \in [Workers -> Seq(DownMsg)]
        /\ \A v \in Workers \ {w} : toWorker'[v] = toWorker[v]
    BY <1>1, <1>2, <1>3, <1>4
  <1>6. IdsIn(toWorker'[w]) = IdsIn(toWorker[w]) \ Borne(Head(toWorker[w]))
    BY <1>2, <1>4, <1>5
  <1>7. \A v \in Workers : OnceEach(toWorker'[v])
    BY <1>4, <1>5 DEF OneCopy
  <1> QED  BY <1>2, <1>3, <1>4, <1>5, <1>6, <1>7

LEMMA GreetKeeps ==
    ASSUME IInv, NEW w \in Workers, Greet(w)
    PROVE  IInv'
  <1>0. Typed /\ Accounted /\ OneCopy /\ Posts
    BY DEF IInv
  <1>1. UNCHANGED <<opt, main, tests, nonParallel, running, completed, lastWorker, numNdb,
                    numFailed, completedWid, childs, link, holds, errors, outcomes>>
    BY DEF Greet, master
  <1>2. Hears(w, "connected", "HELLO") /\ worker[w] = "connected"
    BY DEF Greet, Hears
  <1>3. Borne(Head(toWorker[w])) = {}
    <2>1. Head(toWorker[w]).type = "HELLO"
      BY <1>0, <1>2, HeardTyped
    <2> QED  BY <2>1 DEF Borne
  <1> DEFINE m == [type |-> "START"]
  <1>4. m \in UpMsg /\ Borne(m) = {}
    BY DEF UpMsg, Borne
  <1>5. PICK q \in Seq(UpMsg) : q = toMaster[w]
    BY <1>0 DEF Typed
  <1>6. toMaster' = [toMaster EXCEPT ![w] = Append(@, m)]
    BY DEF Greet
  <1> HIDE DEF m
  <1>7. Append(q, m) \in Seq(UpMsg) /\ IdsIn(Append(q, m)) = IdsIn(q) /\ OnceEach(Append(q, m))
    <2>1. OnceEach(q) /\ IdsIn(q) \cap Borne(m) = {}
      BY <1>0, <1>4, <1>5 DEF OneCopy
    <2> QED  BY <1>4, <2>1, AppendBears, ZenonT(60)
  <1>8. /\ toMaster' \in [Workers -> Seq(UpMsg)] /\ toMaster'[w] = Append(q, m)
        /\ \A v \in Workers \ {w} : toMaster'[v] = toMaster[v]
    BY <1>0, <1>5, <1>6, <1>7 DEF Typed
  <1>9. \A v \in Workers : /\ IdsIn(toWorker'[v]) = IdsIn(toWorker[v])
                           /\ IdsIn(toMaster'[v]) = IdsIn(toMaster[v])
                           /\ Ids(holds'[v]) = Ids(holds[v])
    BY <1>0, <1>1, <1>2, <1>3, <1>5, <1>7, <1>8, HeardTyped
  <1>10. \A v \in Workers : OnceEach(toWorker'[v]) /\ OnceEach(toMaster'[v]) /\ Unique(holds'[v])
    BY <1>0, <1>1, <1>2, <1>7, <1>8, HeardTyped DEF OneCopy
  <1>11. OneCopy'
    BY <1>0, <1>1, <1>9, <1>10, ListsKept, ContentsKept
  <1>12. worker' = [worker EXCEPT ![w] = "waiting"]
    BY DEF Greet
  <1>13. Posts' /\ worker' \in [Workers -> {"forked", "connected", "waiting", "running", "gone"}]
    BY <1>0, <1>1, <1>2, <1>12 DEF Posts, Typed
  <1>14. /\ link' \in [Workers -> {"none", "pending", "open", "closed"}]
         /\ holds' \in [Workers -> Seq(Carried)] /\ errors' \in 0..opt.errors
         /\ outcomes' \in [Tests -> Seq({"passed", "failed", "skipped"})]
         /\ toWorker' \in [Workers -> Seq(DownMsg)]
    BY <1>0, <1>1, <1>2, HeardTyped DEF Typed
  <1> QED  BY <1>1, <1>8, <1>11, <1>13, <1>14, WorkerKeeps

LEMMA ByeLines ==
    ASSUME NEW found \in {<<>>, <<[type |-> "VALGREP"]>>}
    PROVE  /\ found \in Seq(UpMsg) /\ Bearing(found) = {}
           /\ TimesSpent \in Seq(UpMsg) /\ Bearing(TimesSpent) = {}
  <1>1. [type |-> "VALGREP"] \in UpMsg /\ [type |-> "SPENT"] \in UpMsg
    BY DEF UpMsg
  <1>2. \A m \in UpMsg : <<m>> \in Seq(UpMsg) /\ <<m>>[1] = m /\ DOMAIN <<m>> = {1}
    OBVIOUS
  <1>3. <<>> \in Seq(UpMsg) /\ DOMAIN <<>> = {}
    OBVIOUS
  <1>4. Bearing(<<>>) = {}
    BY <1>3 DEF Bearing
  <1>5. \A m \in UpMsg : m.type \notin {"TESTCASE", "TESTRESULT"} => Bearing(<<m>>) = {}
    BY <1>2 DEF Bearing
  <1>6. /\ Bearing(<<[type |-> "VALGREP"]>>) = {} /\ Bearing(<<[type |-> "SPENT"]>>) = {}
        /\ <<[type |-> "VALGREP"]>> \in Seq(UpMsg) /\ <<[type |-> "SPENT"]>> \in Seq(UpMsg)
    BY <1>1, <1>2, <1>5
  <1> QED  BY <1>3, <1>4, <1>6 DEF TimesSpent

LEMMA ByeKeeps ==
    ASSUME IInv, NEW w \in Workers, TakeBye(w)
    PROVE  IInv'
  <1>0. Typed /\ Accounted /\ OneCopy /\ Posts
    BY DEF IInv
  <1>1. UNCHANGED <<opt, main, tests, nonParallel, running, completed, lastWorker, numNdb,
                    numFailed, completedWid, childs, link, holds, errors, outcomes>>
    BY DEF TakeBye, master
  <1>2. Hears(w, "waiting", "BYE")
    BY DEF TakeBye
  <1>3. Borne(Head(toWorker[w])) = {}
    <2>1. Head(toWorker[w]).type = "BYE"
      BY <1>0, <1>2, HeardTyped
    <2> QED  BY <2>1 DEF Borne
  <1>4. PICK found \in {<<>>, <<[type |-> "VALGREP"]>>} :
          toMaster' = [toMaster EXCEPT ![w] = @ \o found \o TimesSpent]
    BY DEF TakeBye
  <1>5. PICK q \in Seq(UpMsg) : q = toMaster[w]
    BY <1>0 DEF Typed
  <1>6. /\ found \in Seq(UpMsg) /\ Bearing(found) = {}
        /\ TimesSpent \in Seq(UpMsg) /\ Bearing(TimesSpent) = {}
    BY <1>4, ByeLines
  <1>7. PICK p : p = q \o found
    OBVIOUS
  <1>8. p \in Seq(UpMsg) /\ IdsIn(p) = IdsIn(q) /\ OnceEach(p)
    <2>1. OnceEach(q)
      BY <1>0, <1>5 DEF OneCopy
    <2> QED  BY <1>6, <1>7, <2>1, ConcatBears
  <1>9. /\ p \o TimesSpent \in Seq(UpMsg) /\ IdsIn(p \o TimesSpent) = IdsIn(q)
        /\ OnceEach(p \o TimesSpent)
    BY <1>6, <1>8, ConcatBears
  <1>10. PICK e : e = p \o TimesSpent
    OBVIOUS
  <1>11. toMaster' = [toMaster EXCEPT ![w] = e]
    BY <1>4, <1>5, <1>7, <1>10
  <1>12. /\ toMaster' \in [Workers -> Seq(UpMsg)] /\ toMaster'[w] = e
         /\ \A v \in Workers \ {w} : toMaster'[v] = toMaster[v]
    BY <1>0, <1>9, <1>10, <1>11 DEF Typed
  <1>13. \A v \in Workers : /\ IdsIn(toWorker'[v]) = IdsIn(toWorker[v])
                            /\ IdsIn(toMaster'[v]) = IdsIn(toMaster[v])
                            /\ Ids(holds'[v]) = Ids(holds[v])
    BY <1>0, <1>1, <1>2, <1>3, <1>5, <1>9, <1>10, <1>12, HeardTyped
  <1>14. \A v \in Workers : OnceEach(toWorker'[v]) /\ OnceEach(toMaster'[v]) /\ Unique(holds'[v])
    BY <1>0, <1>1, <1>2, <1>9, <1>10, <1>12, HeardTyped DEF OneCopy
  <1>15. OneCopy'
    BY <1>0, <1>1, <1>13, <1>14, ListsKept, ContentsKept
  <1>16. worker' = [worker EXCEPT ![w] = "gone"]
    BY DEF TakeBye, Exits
  <1>17. Posts' /\ worker' \in [Workers -> {"forked", "connected", "waiting", "running", "gone"}]
    BY <1>0, <1>1, <1>2, <1>16 DEF Posts, Typed
  <1>18. /\ link' \in [Workers -> {"none", "pending", "open", "closed"}]
         /\ holds' \in [Workers -> Seq(Carried)] /\ errors' \in 0..opt.errors
         /\ outcomes' \in [Tests -> Seq({"passed", "failed", "skipped"})]
         /\ toWorker' \in [Workers -> Seq(DownMsg)]
    BY <1>0, <1>1, <1>2, HeardTyped DEF Typed
  <1> QED  BY <1>1, <1>12, <1>15, <1>17, <1>18, WorkerKeeps

\* A sequence of one test.
LEMMA OneTest ==
    ASSUME NEW t \in Carried
    PROVE  /\ <<t>> \in Seq(Carried) /\ Len(<<t>>) = 1 /\ <<t>>[1] = t
           /\ Ids(<<t>>) = {t.id} /\ Unique(<<t>>)
  <1>1. <<t>> \in Seq(Carried) /\ Len(<<t>>) = 1 /\ <<t>>[1] = t /\ DOMAIN <<t>> = {1}
    OBVIOUS
  <1> DEFINE s == <<t>>
  <1>2. DOMAIN s = {1} /\ s[1] = t
    BY <1>1
  <1> HIDE DEF s
  <1>3. Ids(s) = {t.id} /\ Unique(s)
    BY <1>2 DEF Ids, Unique
  <1> QED  BY <1>1, <1>3 DEF s

LEMMA EmptyIds == Ids(<<>>) = {} /\ Unique(<<>>) /\ IdsIn(<<>>) = {} /\ OnceEach(<<>>)
  <1>1. DOMAIN <<>> = {}
    OBVIOUS
  <1> QED  BY <1>1 DEF Ids, Unique, IdsIn, OnceEach, Bearing

LEMMA TakeKeeps ==
    ASSUME IInv, NEW w \in Workers, TakeTest(w)
    PROVE  IInv'
  <1>0. Typed /\ Accounted /\ OneCopy /\ Posts
    BY DEF IInv
  <1>1. UNCHANGED <<opt, main, tests, nonParallel, running, completed, lastWorker, numNdb,
                    numFailed, completedWid, childs, link, toMaster, errors, outcomes>>
    BY DEF TakeTest, master
  <1>2. Hears(w, "waiting", "TESTCASE") /\ worker[w] = "waiting"
    BY DEF TakeTest, Hears
  <1>3. PICK m \in DownMsg : m = Head(toWorker[w]) /\ m.type = "TESTCASE"
    BY <1>0, <1>2, HeardTyped
  <1>4. PICK t \in Carried : t = m.test
    BY <1>3 DEF DownMsg
  <1>5. Borne(m) = {t.id}
    BY <1>3, <1>4 DEF Borne
  <1>6. PICK u : u = [t EXCEPT !.worker = IF opt.parallel > 1 THEN w ELSE @]
    OBVIOUS
  <1>7. u \in Carried /\ u.id = t.id
    <2>1. w \in Nat /\ w # 0
      <3>1. \A o \in Options : \A v \in 1..o.parallel : v \in Nat /\ v # 0
        OBVIOUS
      <3> QED  BY <3>1 DEF Workers
    <2>2. opt.parallel < w => worker[w] = "gone"
      BY <1>0 DEF Posts
    <2>3. ~(opt.parallel < w)
      BY <1>2, <2>2
    <2>4. w \in 0..opt.parallel
      <3>1. opt.parallel \in Nat
        BY <1>0, OptionsTyped DEF Typed
      <3> QED  BY <2>1, <2>3, <3>1
    <2> QED  BY <1>6, <2>4 DEF Carried, Travelling
  <1>8. holds' = [holds EXCEPT ![w] = <<u>>]
    BY <1>3, <1>4, <1>6 DEF TakeTest
  <1>9. /\ <<u>> \in Seq(Carried) /\ Len(<<u>>) = 1 /\ Ids(<<u>>) = {t.id} /\ Unique(<<u>>)
    BY <1>7, OneTest
  <1>10. PICK h : h = <<u>>
    OBVIOUS
  <1>11. /\ holds' \in [Workers -> Seq(Carried)] /\ holds'[w] = h
         /\ \A v \in Workers \ {w} : holds'[v] = holds[v]
    BY <1>0, <1>8, <1>9, <1>10 DEF Typed
  <1>12. holds[w] = <<>> /\ Ids(holds[w]) = {}
    BY <1>0, <1>2, EmptyIds DEF Posts
  <1>13. /\ toWorker' \in [Workers -> Seq(DownMsg)]
         /\ IdsIn(toWorker'[w]) = IdsIn(toWorker[w]) \ {t.id} /\ {t.id} \subseteq IdsIn(toWorker[w])
         /\ \A v \in Workers : OnceEach(toWorker'[v])
         /\ \A v \in Workers \ {w} : toWorker'[v] = toWorker[v]
    BY <1>0, <1>2, <1>3, <1>5, HeardTyped
  <1>14. OneCopy'
    <2>1. {t.id} \subseteq Contents[<<w, "down">>]
      BY <1>13, QueuesOf
    <2>2. Shifted(Contents, Contents', w, "down", "held", {t.id})
      <3> SUFFICES ASSUME NEW v \in Workers, NEW k \in {"down", "up", "held"}
                   PROVE  Contents'[<<v, k>>] = IF v = w /\ k = "down" THEN Contents[<<v, k>>] \ {t.id}
                                    ELSE IF v = w /\ k = "held" THEN Contents[<<v, k>>] \cup {t.id}
                                    ELSE Contents[<<v, k>>]
        BY DEF Shifted
      <3>1. /\ Contents'[<<v, "down">>] = IdsIn(toWorker'[v]) /\ Contents[<<v, "down">>] = IdsIn(toWorker[v])
            /\ Contents'[<<v, "up">>] = Contents[<<v, "up">>]
            /\ Contents'[<<v, "held">>] = Ids(holds'[v]) /\ Contents[<<v, "held">>] = Ids(holds[v])
        BY <1>1, QueuesOf, NextQueuesOf
      <3>2. CASE k = "down"
        BY <1>13, <3>1, <3>2
      <3>3. CASE k = "up"
        BY <3>1, <3>3
      <3>4. CASE k = "held"
        BY <1>9, <1>10, <1>11, <1>12, <3>1, <3>4, ZenonT(60)
      <3> QED  BY <3>2, <3>3, <3>4
    <2>3. \A v \in Workers : OnceEach(toWorker'[v]) /\ OnceEach(toMaster'[v]) /\ Unique(holds'[v])
      BY <1>0, <1>1, <1>9, <1>10, <1>11, <1>13 DEF OneCopy
    <2>4. Out' = Out
      BY <1>0, <1>1, ListsKept
    <2>5. /\ "down" \in {"down", "up", "held"} /\ "held" \in {"down", "up", "held"} /\ "down" # "held"
      OBVIOUS
    <2> QED  BY <1>0, <2>1, <2>2, <2>3, <2>4, <2>5, MoveKeeps
  <1>15. worker' = [worker EXCEPT ![w] = "running"]
    BY DEF TakeTest
  <1>16. Posts' /\ worker' \in [Workers -> {"forked", "connected", "waiting", "running", "gone"}]
    BY <1>0, <1>1, <1>2, <1>9, <1>10, <1>11, <1>15 DEF Posts, Typed
  <1>17. /\ link' \in [Workers -> {"none", "pending", "open", "closed"}]
         /\ errors' \in 0..opt.errors /\ toMaster' \in [Workers -> Seq(UpMsg)]
         /\ outcomes' \in [Tests -> Seq({"passed", "failed", "skipped"})]
    BY <1>0, <1>1 DEF Typed
  <1> QED  BY <1>1, <1>11, <1>13, <1>14, <1>16, <1>17, WorkerKeeps

\* A run leaves the test what it is.
LEMMA RanTyped ==
    ASSUME NEW t \in Carried, NEW end \in {"passed", "failed", "skipped"}, NEW u \in Ran(t, end)
    PROVE  u \in Carried /\ u.id = t.id
  <1>1. t.failures + 1 \in Nat
    BY DEF Carried, Travelling
  <1>2. CASE end = "failed"
    <2>1. PICK b \in (IF opt.valgrind THEN BOOLEAN ELSE {FALSE}) :
             u = [t EXCEPT !.result = end, !.failures = @ + 1, !.warned = @ \/ b]
      BY <1>2 DEF Ran
    <2>2. b \in BOOLEAN /\ (t.warned \/ b) \in BOOLEAN /\ (t.warned \/ b => opt.valgrind)
      BY DEF Carried, Travelling
    <2>3. PICK f \in Nat, y \in BOOLEAN : f = t.failures + 1 /\ y = (t.warned \/ b) /\ (y => opt.valgrind)
      BY <1>1, <2>2
    <2>4. u = [t EXCEPT !.result = end, !.failures = f, !.warned = y]
      BY <2>1, <2>3
    <2> QED  BY <2>3, <2>4 DEF Carried, Travelling
  <1>3. CASE end # "failed"
    <2>1. u = [t EXCEPT !.result = end]
      BY <1>3 DEF Ran
    <2> QED  BY <2>1 DEF Carried, Travelling
  <1> QED  BY <1>2, <1>3

LEMMA RunKeeps ==
    ASSUME IInv, NEW w \in Workers, RunTest(w)
    PROVE  IInv'
  <1>0. Typed /\ Accounted /\ OneCopy /\ Posts
    BY DEF IInv
  <1>1. UNCHANGED <<opt, main, tests, nonParallel, running, completed, lastWorker, numNdb,
                    numFailed, completedWid, childs, link, toWorker, errors>>
    BY DEF RunTest, master
  <1>a. PICK end \in {"passed", "failed", "skipped"} : \E u \in Ran(holds[w][1], end) :
          /\ toMaster' = [toMaster EXCEPT ![w] = Append(@, [type |-> "TESTRESULT", test |-> u])]
          /\ outcomes' = [outcomes EXCEPT ![u.id] = Append(@, end)]
    BY DEF RunTest
  <1>2. PICK u \in Ran(holds[w][1], end) :
          /\ toMaster' = [toMaster EXCEPT ![w] = Append(@, [type |-> "TESTRESULT", test |-> u])]
          /\ outcomes' = [outcomes EXCEPT ![u.id] = Append(@, end)]
    BY <1>a
  <1>3. PICK t \in Carried : t = holds[w][1] /\ Ids(holds[w]) = {t.id}
    <2>1. PICK s \in Seq(Carried) : s = holds[w]
      BY <1>0 DEF Typed
    <2>2. Len(s) = 1
      BY <1>0, <2>1 DEF Posts, RunTest
    <2>3. s[1] \in Carried /\ DOMAIN s = {1}
      BY <2>2
    <2> QED  BY <2>1, <2>3 DEF Ids
  <1>4. u \in Carried /\ u.id = t.id
    BY <1>2, <1>3, RanTyped
  <1> DEFINE m == [type |-> "TESTRESULT", test |-> u]
  <1>5. m \in UpMsg /\ Borne(m) = {t.id}
    BY <1>4 DEF UpMsg, Borne
  <1>6. PICK q \in Seq(UpMsg) : q = toMaster[w]
    BY <1>0 DEF Typed
  <1>7. toMaster' = [toMaster EXCEPT ![w] = Append(@, m)]
    BY <1>2
  <1> HIDE DEF m
  <1>8. t.id \notin IdsIn(q)
    <2>1. t.id \in Contents[<<w, "held">>]
      BY <1>3, QueuesOf
    <2>2. t.id \notin Contents[<<w, "up">>]
      BY <1>0, <2>1, QueueNames DEF OneCopy, Copies
    <2> QED  BY <1>6, <2>2, QueuesOf
  <1>9. /\ Append(q, m) \in Seq(UpMsg) /\ IdsIn(Append(q, m)) = IdsIn(q) \cup {t.id}
        /\ OnceEach(Append(q, m))
    <2>1. OnceEach(q) /\ IdsIn(q) \cap Borne(m) = {}
      BY <1>0, <1>5, <1>6, <1>8 DEF OneCopy
    <2> QED  BY <1>5, <2>1, AppendBears
  <1>10. /\ toMaster' \in [Workers -> Seq(UpMsg)] /\ toMaster'[w] = Append(q, m)
         /\ \A v \in Workers \ {w} : toMaster'[v] = toMaster[v]
    BY <1>0, <1>6, <1>7, <1>9 DEF Typed
  <1>11. holds' = [holds EXCEPT ![w] = <<>>] /\ <<>> \in Seq(Carried)
    BY DEF RunTest
  <1>12. /\ holds' \in [Workers -> Seq(Carried)] /\ holds'[w] = <<>>
         /\ \A v \in Workers \ {w} : holds'[v] = holds[v]
    BY <1>0, <1>11 DEF Typed
  <1>13. Ids(holds'[w]) = {} /\ Unique(holds'[w])
    BY <1>12, EmptyIds
  <1>14. OneCopy'
    <2>1. {t.id} \subseteq Contents[<<w, "held">>]
      BY <1>3, QueuesOf
    <2>2. Shifted(Contents, Contents', w, "held", "up", {t.id})
      <3> SUFFICES ASSUME NEW v \in Workers, NEW k \in {"down", "up", "held"}
                   PROVE  Contents'[<<v, k>>] = IF v = w /\ k = "held" THEN Contents[<<v, k>>] \ {t.id}
                                    ELSE IF v = w /\ k = "up" THEN Contents[<<v, k>>] \cup {t.id}
                                    ELSE Contents[<<v, k>>]
        BY DEF Shifted
      <3>1. /\ Contents'[<<v, "down">>] = Contents[<<v, "down">>]
            /\ Contents'[<<v, "up">>] = IdsIn(toMaster'[v]) /\ Contents[<<v, "up">>] = IdsIn(toMaster[v])
            /\ Contents'[<<v, "held">>] = Ids(holds'[v]) /\ Contents[<<v, "held">>] = Ids(holds[v])
        BY <1>1, QueuesOf, NextQueuesOf
      <3>2. CASE k = "down"
        BY <3>1, <3>2
      <3>3. CASE k = "up"
        BY <1>6, <1>9, <1>10, <3>1, <3>3
      <3>4. CASE k = "held"
        BY <1>3, <1>12, <1>13, <3>1, <3>4, ZenonT(60)
      <3> QED  BY <3>2, <3>3, <3>4
    <2>3. \A v \in Workers : OnceEach(toWorker'[v]) /\ OnceEach(toMaster'[v]) /\ Unique(holds'[v])
      BY <1>0, <1>1, <1>9, <1>10, <1>12, <1>13 DEF OneCopy
    <2>4. Out' = Out
      BY <1>0, <1>1, ListsKept
    <2>5. /\ "held" \in {"down", "up", "held"} /\ "up" \in {"down", "up", "held"} /\ "held" # "up"
      OBVIOUS
    <2> QED  BY <1>0, <2>1, <2>2, <2>3, <2>4, <2>5, MoveKeeps, ZenonT(60)
  <1>15. worker' = [worker EXCEPT ![w] = "waiting"] /\ worker[w] = "running"
    BY DEF RunTest
  <1>16. Posts' /\ worker' \in [Workers -> {"forked", "connected", "waiting", "running", "gone"}]
    BY <1>0, <1>1, <1>12, <1>15 DEF Posts, Typed
  <1>17. outcomes' \in [Tests -> Seq({"passed", "failed", "skipped"})]
    <2>1. t.id \in Tests
      BY DEF Carried, Travelling
    <2>2. PICK o \in Seq({"passed", "failed", "skipped"}) : o = outcomes[t.id]
      BY <1>0, <2>1 DEF Typed
    <2>3. Append(o, end) \in Seq({"passed", "failed", "skipped"})
      OBVIOUS
    <2> QED  BY <1>0, <1>2, <1>4, <2>2, <2>3 DEF Typed
  <1>18. /\ link' \in [Workers -> {"none", "pending", "open", "closed"}]
         /\ errors' \in 0..opt.errors /\ toWorker' \in [Workers -> Seq(DownMsg)]
    BY <1>0, <1>1 DEF Typed
  <1> QED  BY <1>1, <1>10, <1>12, <1>14, <1>16, <1>17, <1>18, WorkerKeeps

-----------------------------------------------------------------------------
LEMMA InitHolds == ASSUME Init PROVE IInv
  <1>1. opt \in Options /\ opt.parallel \in Nat \ {0} /\ opt.errors \in Nat
    BY OptionsTyped DEF Init
  <1>2. tests \in Seq(Untried) /\ Unique(tests) /\ Listed = Tests
    <2>1. DOMAIN opt.list = 1..Len(opt.list) /\ Len(opt.list) \in Nat
      BY <1>1, OptionsTyped
    <2>2. \A i \in DOMAIN opt.list : Fresh(opt.list[i]) \in Untried /\ Fresh(opt.list[i]).id = opt.list[i]
      <3>1. \A i \in DOMAIN opt.list : opt.list[i] \in Tests
        BY DEF Tests
      <3>2. \A t \in Tests : Fresh(t) \in Untried /\ Fresh(t).id = t
        <4>1. \A t \in Tests : Fresh(t) \in Untried
          BY <1>1, FreshTyped
        <4>2. \A t \in Tests : Fresh(t).id = t
          BY DEF Fresh
        <4> QED  BY <4>1, <4>2
      <3> QED  BY <3>1, <3>2
    <2>3. tests = [i \in 1..Len(opt.list) |-> Fresh(opt.list[i])]
      BY <2>1 DEF Init
    <2>4. tests \in Seq(Untried)
      BY <2>1, <2>2, <2>3
    <2>5. DOMAIN tests = DOMAIN opt.list /\ \A i \in DOMAIN tests : tests[i].id = opt.list[i]
      BY <2>1, <2>2, <2>3
    <2>6. Unique(tests)
      BY <1>1, <2>5, TestsFinite DEF Unique
    <2>7. Listed = Tests
      BY <2>5 DEF Listed, Ids, Tests
    <2> QED  BY <2>4, <2>6, <2>7
  <1>3. /\ nonParallel = <<>> /\ running = {} /\ completed = [t \in Tests |-> <<>>]
        /\ main = "serving" /\ lastWorker = 0 /\ numNdb = 0 /\ numFailed = 0 /\ completedWid = 0
        /\ childs = opt.parallel /\ errors = 0
        /\ link = [w \in Workers |-> IF w <= opt.parallel THEN "none" ELSE "closed"]
        /\ toMaster = [w \in Workers |-> <<>>] /\ toWorker = [w \in Workers |-> <<>>]
        /\ worker = [w \in Workers |-> IF w <= opt.parallel THEN "forked" ELSE "gone"]
        /\ holds = [w \in Workers |-> <<>>] /\ outcomes = [t \in Tests |-> <<>>]
    BY DEF Init
  <1>4. Typed
    <2>1. \A S : <<>> \in Seq(S)
      OBVIOUS
    <2>2. /\ nonParallel \in Seq(Untried) /\ running \subseteq Tests
          /\ completed \in [Tests -> Seq(Carried)]
          /\ outcomes \in [Tests -> Seq({"passed", "failed", "skipped"})]
          /\ toMaster \in [Workers -> Seq(UpMsg)] /\ toWorker \in [Workers -> Seq(DownMsg)]
          /\ holds \in [Workers -> Seq(Carried)]
      BY <1>3, <2>1
    <2>3. /\ lastWorker \in 0..opt.parallel /\ completedWid \in 0..opt.parallel
          /\ childs \in 0..opt.parallel /\ errors \in 0..opt.errors
          /\ numNdb \in Int /\ numFailed \in Nat
      BY <1>1, <1>3
    <2>4. /\ link \in [Workers -> {"none", "pending", "open", "closed"}]
          /\ worker \in [Workers -> {"forked", "connected", "waiting", "running", "gone"}]
          /\ main = "serving"
      BY <1>3
    <2> QED  BY <1>1, <1>2, <2>2, <2>3, <2>4 DEF Typed
  <1>5. OneCopy
    <2>1. \A w \in Workers : /\ IdsIn(toWorker[w]) = {} /\ IdsIn(toMaster[w]) = {} /\ Ids(holds[w]) = {}
                             /\ OnceEach(toWorker[w]) /\ OnceEach(toMaster[w]) /\ Unique(holds[w])
      BY <1>3, EmptyIds
    <2>2. \A b \in Queues : Contents[b] = {}
      <3> SUFFICES ASSUME NEW b \in Queues PROVE Contents[b] = {}
        OBVIOUS
      <3>1. PICK v \in Workers : b \in {<<v, "down">>, <<v, "up">>, <<v, "held">>}
        BY QueueNames
      <3> QED  BY <2>1, <3>1, QueuesOf
    <2>3. Out = {}
      BY <1>3 DEF Out
    <2> QED  BY <2>1, <2>2, <2>3 DEF OneCopy, Copies
  <1>6. Accounted
    <2>1. HasResult = {} /\ SetAside = {} /\ Unique(nonParallel)
      BY <1>3, EmptyIds DEF HasResult, SetAside
    <2>2. \A t \in Tests : Len(completed[t]) <= 1
      <3>1. Len(<<>>) = 0
        OBVIOUS
      <3> QED  BY <1>3, <3>1
    <2> QED  BY <1>2, <1>3, <2>1, <2>2 DEF Accounted, ListsGood
  <1>7. Posts
    <2>1. \A w \in Workers : w \in Nat
      <3>1. \A o \in Options : \A v \in 1..o.parallel : v \in Nat
        OBVIOUS
      <3> QED  BY <3>1 DEF Workers
    <2>2. \A w \in Workers : opt.parallel < w => ~(w <= opt.parallel)
      BY <1>1, <2>1
    <2> QED  BY <1>3, <2>2 DEF Posts
  <1>8. Verdict
    BY <1>1, <1>3 DEF Verdict
  <1> QED  BY <1>4, <1>5, <1>6, <1>7, <1>8 DEF IInv

\* A step that changes nothing.
LEMMA StutterKeeps == ASSUME IInv, UNCHANGED vars PROVE IInv'
  <1>1. UNCHANGED <<opt, main, tests, nonParallel, running, completed, lastWorker, numNdb, numFailed,
                    completedWid, childs, link, sockets, workers, outcomes>>
    BY DEF vars, master
  <1>2. Typed /\ Verdict
    BY DEF IInv
  <1>3. /\ childs' \in 0..opt.parallel /\ (main' = "serving" => childs' > 0)
        /\ (main' = "completed" => \A t \in Tests : completed[t] # <<>>)
        /\ link' \in [Workers -> {"none", "pending", "open", "closed"}]
        /\ main' \in {"serving", "returned", "aborted", "killed", "completed", "failed"}
        /\ main' \notin {"aborted", "failed"} => main \notin {"aborted", "failed"}
        /\ main' = "serving" => main = "serving"
    BY <1>1, <1>2 DEF Typed, Verdict
  <1> QED  BY <1>1, <1>3, QuietKeeps

LEMMA StepKeeps == ASSUME IInv, [Next]_vars PROVE IInv'
  <1>1. ASSUME NEW w \in Workers, MasterReads(w) PROVE IInv'
    BY <1>1, AcceptKeeps, ClosedKeeps, LookKeeps, StopKeeps, RetryKeeps, RepeatKeeps
       DEF MasterReads
  <1>2. ASSUME NEW w \in Workers, WorkerSteps(w) \/ Error(w) PROVE IInv'
    BY <1>2, ConnectKeeps, GreetKeeps, TakeKeeps, RunKeeps, ByeKeeps, LeaveKeeps DEF WorkerSteps
  <1>3. CASE SuiteExpires \/ Reap
    BY <1>3, ExpireKeeps, ReapKeeps
  <1>4. CASE Ended \/ UNCHANGED vars
    BY <1>4, StutterKeeps DEF Ended
  <1> QED  BY <1>1, <1>2, <1>3, <1>4 DEF Next

(* The master's lists, the queues and the workers agree on where every     *)
(* test is, in every state of every suite with any number of workers.      *)
THEOREM Invariance == Spec => []IInv
  <1>1. Init => IInv
    BY InitHolds
  <1>2. IInv /\ [Next]_vars => IInv'
    BY StepKeeps
  <1> QED  BY <1>1, <1>2, PTL DEF Spec

(* Every variable of the master, the sockets and the workers has its type. *)
THEOREM TypesAlways == Spec => []TypeOK
  <1>1. IInv => TypeOK
    BY TypesHold DEF IInv
  <1> QED  BY <1>1, Invariance, PTL

(* The check that a result belongs to a running test never ends the        *)
(* program (run_test_server, line 1010).                                   *)
THEOREM AnswersKnownAlways == Spec => []AnswersKnown
  <1>1. IInv => AnswersKnown
    BY DEF IInv, Verdict, AnswersKnown
  <1> QED  BY <1>1, Invariance, PTL

LEMMA ShortSeq ==
    ASSUME NEW T, NEW c \in Seq(T), Len(c) <= 1
    PROVE  Len(c) = IF c = <<>> THEN 0 ELSE 1
  <1>1. PICK n \in Nat : n = Len(c)
    OBVIOUS
  <1>2. c = <<>> <=> n = 0
    BY <1>1
  <1>3. n = 0 \/ n = 1
    BY <1>1
  <1> QED  BY <1>1, <1>2, <1>3

(* A suite reported as completed has exactly one result of every test and, *)
(* with --force, no test still marked running.                             *)
THEOREM HonestReportAlways == Spec => []HonestReport
  <1>1. ASSUME IInv, main = "completed"
        PROVE  /\ \A t \in Tests : Len(completed[t]) = 1
               /\ opt.force => running = {}
    <2>1. Typed /\ Accounted /\ \A t \in Tests : completed[t] # <<>>
      BY <1>1 DEF IInv, Verdict
    <2>2. ASSUME NEW t \in Tests PROVE Len(completed[t]) = 1
      <3>1. PICK c \in Seq(Carried) : c = completed[t]
        BY <2>1 DEF Typed
      <3>2. c # <<>> /\ Len(c) <= 1
        BY <2>1, <3>1 DEF Accounted
      <3> QED  BY <3>1, <3>2, ShortSeq
    <2>3. HasResult = Tests /\ running \subseteq Tests
      BY <2>1 DEF HasResult, Typed
    <2>4. opt.force => running = {}
      BY <1>1, <2>1, <2>3 DEF Accounted, Undoubled
    <2> QED  BY <2>2, <2>4
  <1>2. IInv => HonestReport
    BY <1>1 DEF HonestReport
  <1> QED  BY <1>2, Invariance, PTL

\* How many elements of a list without repetition are a given test.
LEMMA CountOfUnique ==
    ASSUME NEW s, Unique(s), NEW t
    PROVE  Cardinality({i \in DOMAIN s : s[i].id = t}) = IF t \in Ids(s) THEN 1 ELSE 0
  <1> DEFINE P == {i \in DOMAIN s : s[i].id = t}
  <1>1. CASE t \in Ids(s)
    <2>1. PICK i \in DOMAIN s : s[i].id = t
      BY <1>1 DEF Ids
    <2>2. P = {i}
      BY <2>1 DEF Unique
    <2> HIDE DEF P
    <2>3. Cardinality(P) = 1
      BY <2>2, FS_Singleton
    <2> QED  BY <1>1, <2>3 DEF P
  <1>2. CASE t \notin Ids(s)
    <2>1. P = {}
      BY <1>2 DEF Ids
    <2> HIDE DEF P
    <2>2. Cardinality(P) = 0
      BY <2>1, FS_EmptySet
    <2> QED  BY <1>2, <2>2 DEF P
  <1> QED  BY <1>1, <1>2

\* Where a test is, by the queue and the position in it.
At3(v, k, t) ==
    CASE k = "down" -> {j \in Bearing(toWorker[v]) : toWorker[v][j].test.id = t}
      [] k = "up" -> {j \in Bearing(toMaster[v]) : toMaster[v][j].test.id = t}
      [] k = "held" -> {j \in DOMAIN holds[v] : holds[v][j].id = t}

LEMMA PlacesOf ==
    ASSUME Typed, NEW t
    PROVE  \A p : p \in Places(t) <=>
               \E v \in Workers, k \in {"down", "up", "held"} : \E i \in At3(v, k, t) : p = <<v, k, i>>
  <1>1. ASSUME NEW v \in Workers
        PROVE  /\ {j \in DOMAIN toWorker[v] :
                      toWorker[v][j].type = "TESTCASE" /\ toWorker[v][j].test.id = t}
                    = At3(v, "down", t)
               /\ {j \in DOMAIN toMaster[v] :
                      toMaster[v][j].type = "TESTRESULT" /\ toMaster[v][j].test.id = t}
                    = At3(v, "up", t)
               /\ {j \in DOMAIN holds[v] : holds[v][j].id = t} = At3(v, "held", t)
    <2>1. toWorker[v] \in Seq(DownMsg) /\ toMaster[v] \in Seq(UpMsg)
      BY DEF Typed
    <2>2. (\A m \in DownMsg : m.type # "TESTRESULT") /\ (\A m \in UpMsg : m.type # "TESTCASE")
      BY DEF DownMsg, UpMsg
    <2>3. /\ \A j \in DOMAIN toWorker[v] : toWorker[v][j].type # "TESTRESULT"
          /\ \A j \in DOMAIN toMaster[v] : toMaster[v][j].type # "TESTCASE"
      BY <2>1, <2>2
    <2> QED  BY <2>3 DEF At3, Bearing
  <1>2. Places(t) = UNION {{<<v, "down", i>> : i \in At3(v, "down", t)}
                           \cup {<<v, "up", i>> : i \in At3(v, "up", t)}
                           \cup {<<v, "held", i>> : i \in At3(v, "held", t)} : v \in Workers}
    BY <1>1 DEF Places
  <1> QED  BY <1>2

LEMMA PlacesCounted ==
    ASSUME Typed, OneCopy, NEW t
    PROVE  Cardinality(Places(t)) = IF t \in Out THEN 1 ELSE 0
  <1>1. ASSUME NEW v \in Workers, NEW k \in {"down", "up", "held"}
        PROVE  /\ At3(v, k, t) # {} <=> t \in Contents[<<v, k>>]
               /\ \A i, j \in At3(v, k, t) : i = j
    <2>1. OnceEach(toWorker[v]) /\ OnceEach(toMaster[v]) /\ Unique(holds[v])
      BY DEF OneCopy
    <2> DEFINE P == At3(v, k, t)
               C == Contents[<<v, k>>]
    <2>2. CASE k = "down"
      <3>1. P = {j \in Bearing(toWorker[v]) : toWorker[v][j].test.id = t} /\ C = IdsIn(toWorker[v])
        BY <2>2, QueuesOf DEF At3
      <3> HIDE DEF P, C
      <3>2. (P # {} <=> t \in C) /\ \A i, j \in P : i = j
        BY <2>1, <3>1 DEF OnceEach, IdsIn
      <3> QED  BY <3>2 DEF P, C
    <2>3. CASE k = "up"
      <3>1. P = {j \in Bearing(toMaster[v]) : toMaster[v][j].test.id = t} /\ C = IdsIn(toMaster[v])
        BY <2>3, QueuesOf DEF At3
      <3> HIDE DEF P, C
      <3>2. (P # {} <=> t \in C) /\ \A i, j \in P : i = j
        BY <2>1, <3>1 DEF OnceEach, IdsIn
      <3> QED  BY <3>2 DEF P, C
    <2>4. CASE k = "held"
      <3>1. P = {j \in DOMAIN holds[v] : holds[v][j].id = t} /\ C = Ids(holds[v])
        BY <2>4, QueuesOf DEF At3
      <3> HIDE DEF P, C
      <3>2. (P # {} <=> t \in C) /\ \A i, j \in P : i = j
        BY <2>1, <3>1 DEF Unique, Ids
      <3> QED  BY <3>2 DEF P, C
    <2> QED  BY <2>2, <2>3, <2>4
  <1>2. CASE t \in Out
    <2>1. PICK v \in Workers, k \in {"down", "up", "held"} : t \in Contents[<<v, k>>]
      <3>1. PICK b \in Queues : t \in Contents[b]
        BY <1>2 DEF OneCopy, Copies
      <3>2. PICK v \in Workers, k \in {"down", "up", "held"} : b = <<v, k>>
        BY DEF Queues
      <3> QED  BY <3>1, <3>2
    <2>2. PICK i : i \in At3(v, k, t)
      BY <1>1, <2>1
    <2>3. ASSUME NEW p \in Places(t) PROVE p = <<v, k, i>>
      <3>1. PICK u \in Workers, l \in {"down", "up", "held"} : \E j \in At3(u, l, t) : p = <<u, l, j>>
        BY PlacesOf
      <3>2. PICK j \in At3(u, l, t) : p = <<u, l, j>>
        BY <3>1
      <3>3. t \in Contents[<<u, l>>]
        BY <1>1, <3>2
      <3>4. <<u, l>> = <<v, k>>
        <4>1. <<u, l>> \in Queues /\ <<v, k>> \in Queues
          BY DEF Queues
        <4> QED  BY <2>1, <3>3, <4>1 DEF OneCopy, Copies
      <3>5. u = v /\ l = k
        BY <3>4
      <3>6. j = i
        BY <1>1, <2>2, <3>2, <3>5
      <3> QED  BY <3>2, <3>5, <3>6
    <2>4. <<v, k, i>> \in Places(t)
      BY <2>2, PlacesOf
    <2>5. PICK x : x = <<v, k, i>>
      OBVIOUS
    <2>6. Places(t) = {x}
      BY <2>3, <2>4, <2>5
    <2>7. Cardinality(Places(t)) = 1
      BY <2>6, FS_Singleton
    <2> QED  BY <1>2, <2>7
  <1>3. CASE t \notin Out
    <2>1. ASSUME NEW p \in Places(t) PROVE FALSE
      <3>1. PICK u \in Workers, l \in {"down", "up", "held"} : \E j \in At3(u, l, t) : p = <<u, l, j>>
        BY PlacesOf
      <3>2. t \in Contents[<<u, l>>] /\ <<u, l>> \in Queues
        BY <1>1, <3>1 DEF Queues
      <3> QED  BY <1>3, <3>2 DEF OneCopy, Copies
    <2>2. Places(t) = {}
      BY <2>1
    <2>3. Cardinality(Places(t)) = 0
      BY <2>2, FS_EmptySet
    <2> QED  BY <1>3, <2>3
  <1> QED  BY <1>2, <1>3

(* While the master serves a suite run with --force, every test is in one  *)
(* place only: still in the list, set aside, completed once, or running,   *)
(* and a test the master thinks running has exactly one copy, which is at  *)
(* or on its way to or from one worker (run_test_server, lines 852-1140).  *)
THEOREM ConservedAlways == Spec => []Conserved
  <1>1. ASSUME IInv, main = "serving", opt.force, NEW t \in Tests
        PROVE  /\ Cardinality({i \in DOMAIN tests : tests[i].id = t})
                  + Cardinality({i \in DOMAIN nonParallel : nonParallel[i].id = t})
                  + Len(completed[t]) + (IF t \in running THEN 1 ELSE 0) = 1
               /\ Cardinality(Places(t)) = IF t \in running THEN 1 ELSE 0
    <2>1. Typed /\ OneCopy /\ Accounted
      BY <1>1 DEF IInv
    <2>2. Cardinality({i \in DOMAIN tests : tests[i].id = t}) = IF t \in Listed THEN 1 ELSE 0
      BY <2>1, CountOfUnique DEF Accounted, ListsGood, Listed
    <2>3. Cardinality({i \in DOMAIN nonParallel : nonParallel[i].id = t})
            = IF t \in SetAside THEN 1 ELSE 0
      BY <2>1, CountOfUnique DEF Accounted, ListsGood, SetAside
    <2>4. Len(completed[t]) = IF t \in HasResult THEN 1 ELSE 0
      <3>1. PICK c \in Seq(Carried) : c = completed[t]
        BY <2>1 DEF Typed
      <3>2. Len(c) <= 1 /\ (t \in HasResult <=> c # <<>>)
        BY <2>1, <3>1 DEF Accounted, HasResult
      <3>3. Len(c) = IF c = <<>> THEN 0 ELSE 1
        BY <3>2, ShortSeq
      <3> QED  BY <3>1, <3>2, <3>3
    <2>5. /\ t \in Listed \cup SetAside \cup running \cup HasResult
          /\ (Listed \cup SetAside) \cap (running \cup HasResult) = {}
          /\ Listed \cap SetAside = {} /\ running \cap HasResult = {}
      BY <1>1, <2>1 DEF Accounted, ListsGood, Undoubled
    <2>6. Cardinality(Places(t)) = IF t \in running THEN 1 ELSE 0
      <3>1. t \in Out <=> t \in running
        BY <2>5 DEF Out
      <3> QED  BY <2>1, <3>1, PlacesCounted
    <2> QED  BY <2>2, <2>3, <2>4, <2>5, <2>6
  <1>2. IInv => Conserved
    BY <1>1 DEF Conserved
  <1> QED  BY <1>2, Invariance, PTL

-----------------------------------------------------------------------------
(* Without valgrind and reported times a worker and the master take turns. *)

Plain == ~opt.report_times /\ ~opt.valgrind

Idle(w) == toMaster[w] = <<>> /\ toWorker[w] = <<>> /\ holds[w] = <<>>

\* At most one message, or one test, is under way between w and the master.
Turn(w) ==
    /\ Len(toMaster[w]) <= 1 /\ Len(toWorker[w]) <= 1 /\ Len(holds[w]) <= 1
    /\ toMaster[w] # <<>> => toWorker[w] = <<>> /\ holds[w] = <<>>
    /\ toWorker[w] # <<>> => holds[w] = <<>>
    /\ link[w] \in {"none", "pending"} => Idle(w)
    /\ opt.parallel < w => Idle(w) /\ link[w] = "closed"
    /\ worker[w] = "connected" => toMaster[w] = <<>>
    /\ worker[w] = "forked" => link[w] = "none"

Turns == Plain => \A w \in Workers : Turn(w)

\* A worker that has gone has been dismissed and has nothing more to tell.
Living ==
    Plain /\ errors = 0 =>
        /\ main # "killed"
        /\ main = "serving" =>
             \A w \in Workers : worker[w] = "gone" => /\ toMaster[w] = <<>> /\ toWorker[w] = <<>>
                                                      /\ link[w] # "pending"

LEMMA OneLong ==
    ASSUME NEW T, NEW q \in Seq(T), q # <<>>, Len(q) <= 1
    PROVE  Tail(q) = <<>>
  <1>1. Len(q) = 1
    BY ShortSeq
  <1>2. PICK a \in Seq(T) : a = Tail(q)
    BY TailIds
  <1>3. Len(a) = 0
    <2>1. Len(Tail(q)) = Len(q) - 1
      OBVIOUS
    <2> QED  BY <1>1, <1>2, <2>1
  <1>4. a = <<>>
    BY <1>3
  <1> QED  BY <1>2, <1>4

LEMMA AppendEmpty == \A m : Append(<<>>, m) = <<m>> /\ Len(<<m>>) = 1 /\ <<m>> # <<>> /\ Head(<<m>>) = m
  OBVIOUS

LEMMA EmptyLen == Len(<<>>) = 0
  OBVIOUS

ReadStep(w) == \/ Notes(w) \/ FailWithoutForce(w) \/ TooManyFailed(w)
               \/ RetryTest(w) \/ RepeatTest(w) \/ FinishTest(w)

\* The master reads one line of w, and answers it or leaves its loop.
Exchange(w) ==
    /\ main = "serving" /\ link[w] = "open" /\ toMaster[w] # <<>>
    /\ toMaster' = [toMaster EXCEPT ![w] = Tail(@)]
    /\ UNCHANGED <<opt, childs, link, worker, holds, errors>>
    /\ \/ toWorker' = toWorker /\ main' \in {"returned", "aborted"}
       \/ \E m \in DownMsg : m.type \in {"TESTCASE", "BYE"} /\ Answer(w, m)

LEMMA ReadShape ==
    ASSUME IInv, NEW w \in Workers, ReadStep(w)
    PROVE  Exchange(w)
  <1>0. Typed /\ Accounted /\ ListsGood
    BY DEF IInv, Accounted
  <1>1. /\ main = "serving" /\ link[w] = "open" /\ toMaster[w] # <<>>
        /\ toMaster' = [toMaster EXCEPT ![w] = Tail(@)]
        /\ UNCHANGED <<opt, childs, link, worker, holds, errors>>
    BY DEF ReadStep, Notes, FailWithoutForce, TooManyFailed, RetryTest, RepeatTest, FinishTest,
           GoesOn, Reads, workers
  <1>2. ASSUME NEW wid \in 0..opt.parallel, NEW out, NEW n, NEW results,
               Schedule(w, wid, out, n, results)
        PROVE  \E m \in DownMsg : m.type \in {"TESTCASE", "BYE"} /\ Answer(w, m)
    <2>1. PICK K, D, m : Hands(w, out, n, results, K, D, m)
      BY <1>0, <1>1, <1>2, ScheduleHands
    <2> QED  BY <2>1 DEF Hands
  <1>3. CASE Notes(w)
    <2>1. lastWorker \in 0..opt.parallel
      BY <1>0 DEF Typed
    <2> QED  BY <1>1, <1>2, <1>3, <2>1 DEF Notes, Exchange
  <1>4. CASE FailWithoutForce(w)
    <2>1. [type |-> "BYE"] \in DownMsg
      BY DEF DownMsg
    <2> QED  BY <1>1, <1>4, <2>1 DEF FailWithoutForce, Bye, Exchange
  <1>5. CASE TooManyFailed(w)
    BY <1>1, <1>5 DEF TooManyFailed, Exchange
  <1>6. ASSUME Reads(w, "TESTRESULT"), NEW t \in Carried, Give(w, t)
        PROVE  Exchange(w)
    <2>1. [type |-> "TESTCASE", test |-> t] \in DownMsg
      BY DEF DownMsg
    <2> QED  BY <1>1, <1>6, <2>1 DEF Give, Exchange
  <1>7. ASSUME Reads(w, "TESTRESULT")
        PROVE  Result(w) \in Carried
    BY <1>0, <1>7, ReadTyped
  <1>8. CASE RetryTest(w)
    <2>1. Reads(w, "TESTRESULT")
      BY <1>8 DEF RetryTest, GoesOn
    <2>2. PICK r \in Carried : r = Result(w)
      BY <1>7, <2>1
    <2>3. NextRun(r) + 1 \in Nat
      BY DEF Carried, Travelling, NextRun
    <2>4. [r EXCEPT !.result = "none", !.retries = NextRun(r) + 1] \in Carried
      BY <2>3 DEF Carried, Travelling
    <2>5. Give(w, [r EXCEPT !.result = "none", !.retries = NextRun(r) + 1])
      BY <1>8, <2>2 DEF RetryTest
    <2> QED  BY <1>6, <2>1, <2>4, <2>5
  <1>9. CASE RepeatTest(w)
    <2>1. Reads(w, "TESTRESULT")
      BY <1>9 DEF RepeatTest, GoesOn
    <2>2. PICK r \in Carried : r = Result(w)
      BY <1>7, <2>1
    <2>3. (IF r.repeat = 0 THEN 2 ELSE r.repeat + 1) \in Nat
      BY DEF Carried, Travelling
    <2>4. Anew(r) \in Carried
      BY <2>3 DEF Carried, Travelling, Anew
    <2>5. Give(w, Anew(r))
      BY <1>9, <2>2 DEF RepeatTest
    <2> QED  BY <1>6, <2>1, <2>4, <2>5
  <1>10. CASE FinishTest(w)
    <2>1. Reads(w, "TESTRESULT")
      BY <1>10 DEF FinishTest, GoesOn
    <2>2. Result(w).id \in Out /\ Result(w).worker \in 0..opt.parallel
      BY <2>1, ResultKnown
    <2>3. \E n, c : Schedule(w, Result(w).worker, Back(Result(w)), n, c)
      BY <1>10, <2>2 DEF FinishTest, Out
    <2>4. PICK n, c : Schedule(w, Result(w).worker, Back(Result(w)), n, c)
      BY <2>3
    <2>5. \E m \in DownMsg : m.type \in {"TESTCASE", "BYE"} /\ Answer(w, m)
      BY <1>2, <2>2, <2>4
    <2> QED  BY <1>1, <2>5 DEF Exchange
  <1> QED  BY <1>3, <1>4, <1>5, <1>8, <1>9, <1>10 DEF ReadStep

LEMMA TurnKept ==
    ASSUME NEW w, Turn(w), opt' = opt, toMaster'[w] = toMaster[w], toWorker'[w] = toWorker[w],
           holds'[w] = holds[w], link'[w] = link[w], worker'[w] \in {worker[w], "gone"}
    PROVE  Turn(w)'
  BY DEF Turn, Idle

\* The two queues of w and its hands after an exchange.
LEMMA ExchangeShape ==
    ASSUME Typed, NEW w \in Workers, Turn(w), Exchange(w)
    PROVE  /\ toMaster'[w] = <<>> /\ toWorker[w] = <<>> /\ holds[w] = <<>>
           /\ toWorker'[w] = <<>> \/ \E m \in DownMsg : /\ toWorker'[w] = <<m>> /\ Answer(w, m)
                                                        /\ m.type \in {"TESTCASE", "BYE"}
           /\ \A v \in Workers \ {w} : toMaster'[v] = toMaster[v] /\ toWorker'[v] = toWorker[v]
           /\ UNCHANGED <<opt, holds, link, worker, errors, childs>>
           /\ worker[w] \notin {"forked", "connected"} /\ w <= opt.parallel
  <1>1. toMaster[w] # <<>> /\ link[w] = "open" /\ toMaster' = [toMaster EXCEPT ![w] = Tail(@)]
    BY DEF Exchange
  <1>2. PICK q \in Seq(UpMsg) : q = toMaster[w]
    BY DEF Typed
  <1>3. Tail(q) = <<>>
    <2>1. q # <<>> /\ Len(q) <= 1
      BY <1>1, <1>2 DEF Turn
    <2> QED  BY <2>1, OneLong
  <1>4. toMaster'[w] = <<>> /\ \A v \in Workers \ {w} : toMaster'[v] = toMaster[v]
    BY <1>1, <1>2, <1>3 DEF Typed
  <1>5. toWorker[w] = <<>> /\ holds[w] = <<>> /\ worker[w] \notin {"forked", "connected"}
        /\ ~(opt.parallel < w)
    BY <1>1 DEF Turn, Idle
  <1>6. w \in Nat /\ opt.parallel \in Nat
    <2>1. \A o \in Options : \A v \in 1..o.parallel : v \in Nat
      OBVIOUS
    <2> QED  BY <2>1, OptionsTyped DEF Workers, Typed
  <1>a. w <= opt.parallel
    BY <1>5, <1>6
  <1>7. UNCHANGED <<opt, holds, link, worker, errors, childs>>
    BY DEF Exchange
  <1>8. CASE toWorker' = toWorker
    BY <1>4, <1>5, <1>a, <1>7, <1>8
  <1>9. CASE \E m \in DownMsg : m.type \in {"TESTCASE", "BYE"} /\ Answer(w, m)
    <2>1. PICK m \in DownMsg : m.type \in {"TESTCASE", "BYE"} /\ Answer(w, m)
      BY <1>9
    <2>2. toWorker' = [toWorker EXCEPT ![w] = Append(toWorker[w], m)]
      BY <2>1 DEF Answer
    <2>3. toWorker'[w] = <<m>> /\ \A v \in Workers \ {w} : toWorker'[v] = toWorker[v]
      BY <1>5, <2>2, AppendEmpty DEF Typed
    <2> QED  BY <1>4, <1>5, <1>a, <1>7, <2>1, <2>3
  <1> QED  BY <1>8, <1>9 DEF Exchange

LEMMA ExchangeTurn ==
    ASSUME Typed, \A v \in Workers : Turn(v), NEW w \in Workers, Exchange(w), NEW v \in Workers
    PROVE  Turn(v)'
  <1>1. /\ toMaster'[w] = <<>> /\ toWorker[w] = <<>> /\ holds[w] = <<>>
        /\ toWorker'[w] = <<>> \/ \E m \in DownMsg : toWorker'[w] = <<m>>
        /\ \A u \in Workers \ {w} : toMaster'[u] = toMaster[u] /\ toWorker'[u] = toWorker[u]
        /\ UNCHANGED <<opt, holds, link, worker>>
        /\ worker[w] \notin {"forked", "connected"} /\ w <= opt.parallel /\ link[w] = "open"
    BY ExchangeShape DEF Exchange
  <1>2. CASE v # w
    BY <1>1, <1>2, TurnKept
  <1>3. CASE v = w
    <2>1. Len(toWorker'[w]) <= 1 /\ Len(toMaster'[w]) <= 1 /\ Len(holds'[w]) <= 1 /\ holds'[w] = <<>>
      <3>1. Len(toWorker'[w]) \in {0, 1}
        BY <1>1, AppendEmpty, EmptyLen
      <3>2. Len(toMaster'[w]) = 0 /\ holds'[w] = <<>> /\ Len(holds'[w]) = 0
        BY <1>1, EmptyLen
      <3>3. 0 <= 1 /\ 1 <= 1
        OBVIOUS
      <3>4. Len(toWorker'[w]) <= 1
        <4>1. CASE Len(toWorker'[w]) = 0
          BY <3>3, <4>1
        <4>2. CASE Len(toWorker'[w]) = 1
          BY <3>3, <4>2
        <4> QED  BY <3>1, <4>1, <4>2
      <3> QED  BY <3>2, <3>3, <3>4
    <2>2. ~(opt.parallel < w)
      <3>1. w \in Nat /\ opt.parallel \in Nat
        <4>1. \A o \in Options : \A u \in 1..o.parallel : u \in Nat
          OBVIOUS
        <4> QED  BY <4>1, OptionsTyped DEF Workers, Typed
      <3> QED  BY <1>1, <3>1
    <2> QED  BY <1>1, <1>3, <2>1, <2>2 DEF Turn, Idle
  <1> QED  BY <1>2, <1>3

LEMMA AcceptTurn ==
    ASSUME Typed, \A v \in Workers : Turn(v), NEW w \in Workers, Accept(w), NEW v \in Workers
    PROVE  Turn(v)'
  <1>1. /\ link[w] = "pending" /\ link' = [link EXCEPT ![w] = "open"]
        /\ toWorker' = [toWorker EXCEPT ![w] = Append(@, [type |-> "HELLO"])]
        /\ UNCHANGED <<opt, toMaster, holds, worker>>
    BY DEF Accept, Answer, workers
  <1>2. /\ \A u \in Workers \ {w} : toWorker'[u] = toWorker[u] /\ link'[u] = link[u]
        /\ link'[w] = "open" /\ toWorker'[w] = Append(toWorker[w], [type |-> "HELLO"])
    BY <1>1 DEF Typed
  <1>3. CASE v # w
    BY <1>1, <1>2, <1>3, TurnKept
  <1>4. CASE v = w
    <2>1. Idle(w) /\ worker[w] # "forked"
      BY <1>1 DEF Turn
    <2>2. Len(toWorker'[w]) = 1 /\ toMaster'[w] = <<>> /\ holds'[w] = <<>>
      BY <1>1, <1>2, <2>1, AppendEmpty DEF Idle
    <2>3. Len(toWorker'[w]) <= 1 /\ Len(toMaster'[w]) <= 1 /\ Len(holds'[w]) <= 1
      BY <2>2, EmptyLen
    <2>4. ~(opt.parallel < w)
      BY <1>1 DEF Turn
    <2> QED  BY <1>1, <1>2, <1>4, <2>1, <2>2, <2>3, <2>4 DEF Turn, Idle
  <1> QED  BY <1>3, <1>4

\* A line that a worker takes is the only thing under way with it.
LEMMA HeardShape ==
    ASSUME Typed, NEW w \in Workers, Turn(w), NEW from, NEW type, Hears(w, from, type)
    PROVE  /\ toWorker[w] # <<>> /\ toWorker'[w] = <<>> /\ toMaster[w] = <<>> /\ holds[w] = <<>>
           /\ link[w] \notin {"none", "pending"} /\ ~(opt.parallel < w)
           /\ \A u \in Workers \ {w} : toWorker'[u] = toWorker[u]
  <1>1. toWorker[w] # <<>> /\ toWorker' = [toWorker EXCEPT ![w] = Tail(@)]
    BY DEF Hears
  <1>2. PICK q \in Seq(DownMsg) : q = toWorker[w]
    BY DEF Typed
  <1>3. Tail(q) = <<>>
    <2>1. q # <<>> /\ Len(q) <= 1
      BY <1>1, <1>2 DEF Turn
    <2> QED  BY <2>1, OneLong
  <1>4. toWorker'[w] = <<>> /\ \A u \in Workers \ {w} : toWorker'[u] = toWorker[u]
    BY <1>1, <1>2, <1>3 DEF Typed
  <1>5. toMaster[w] = <<>> /\ holds[w] = <<>> /\ link[w] \notin {"none", "pending"}
        /\ ~(opt.parallel < w)
    BY <1>1 DEF Turn, Idle
  <1> QED  BY <1>1, <1>4, <1>5

LEMMA WorkerTurn ==
    ASSUME IInv, Plain, \A v \in Workers : Turn(v), NEW w \in Workers, WorkerSteps(w) \/ Error(w),
           NEW v \in Workers
    PROVE  Turn(v)'
  <1>0. Typed /\ Posts /\ Turn(w) /\ Turn(v)
    BY DEF IInv
  <1>z. 0 <= 1 /\ 1 <= 1
    OBVIOUS
  <1>1. CASE Connect(w)
    <2>1. /\ worker[w] = "forked" /\ worker' = [worker EXCEPT ![w] = "connected"]
          /\ link' = [link EXCEPT ![w] = "pending"]
          /\ UNCHANGED <<opt, toMaster, toWorker, holds>>
      BY <1>1 DEF Connect, sockets
    <2>2. CASE v # w
      BY <1>0, <2>1, <2>2, TurnKept DEF Typed
    <2>3. CASE v = w
      <3>1. Idle(w) /\ ~(opt.parallel < w)
        BY <1>0, <2>1 DEF Turn, Posts
      <3>2. link'[w] = "pending" /\ worker'[w] = "connected"
        BY <1>0, <2>1 DEF Typed
      <3>3. toMaster'[w] = <<>> /\ toWorker'[w] = <<>> /\ holds'[w] = <<>>
        BY <2>1, <3>1 DEF Idle
      <3>4. Len(toMaster'[w]) <= 1 /\ Len(toWorker'[w]) <= 1 /\ Len(holds'[w]) <= 1
        BY <1>z, <3>3, EmptyLen
      <3> QED  BY <2>1, <2>3, <3>1, <3>2, <3>3, <3>4 DEF Turn, Idle
    <2> QED  BY <2>2, <2>3
  <1>2. CASE Greet(w)
    <2>1. /\ Hears(w, "connected", "HELLO") /\ worker' = [worker EXCEPT ![w] = "waiting"]
          /\ toMaster' = [toMaster EXCEPT ![w] = Append(@, [type |-> "START"])]
          /\ UNCHANGED <<opt, link, holds>>
      BY <1>2 DEF Greet, master
    <2>2. /\ toWorker'[w] = <<>> /\ toMaster[w] = <<>> /\ holds[w] = <<>>
          /\ link[w] \notin {"none", "pending"} /\ ~(opt.parallel < w)
          /\ \A u \in Workers \ {w} : toWorker'[u] = toWorker[u]
      BY <1>0, <2>1, HeardShape
    <2>3. /\ worker'[w] = "waiting" /\ toMaster'[w] = <<[type |-> "START"]>>
          /\ \A u \in Workers \ {w} : toMaster'[u] = toMaster[u] /\ worker'[u] = worker[u]
      BY <1>0, <2>1, <2>2, AppendEmpty DEF Typed
    <2>4. CASE v # w
      BY <1>0, <2>1, <2>2, <2>3, <2>4, TurnKept
    <2>5. CASE v = w
      <3>1. Len(toMaster'[w]) <= 1 /\ Len(toWorker'[w]) <= 1 /\ Len(holds'[w]) <= 1
        BY <1>z, <2>1, <2>2, <2>3, EmptyLen, AppendEmpty
      <3> QED  BY <2>1, <2>2, <2>3, <2>5, <3>1 DEF Turn, Idle
    <2> QED  BY <2>4, <2>5
  <1>3. CASE TakeTest(w)
    <2>1. /\ Hears(w, "waiting", "TESTCASE") /\ worker' = [worker EXCEPT ![w] = "running"]
          /\ \E t : holds' = [holds EXCEPT ![w] = <<t>>]
          /\ UNCHANGED <<opt, link, toMaster>>
      BY <1>3 DEF TakeTest, master
    <2>2. /\ toWorker'[w] = <<>> /\ toMaster[w] = <<>> /\ holds[w] = <<>>
          /\ link[w] \notin {"none", "pending"} /\ ~(opt.parallel < w)
          /\ \A u \in Workers \ {w} : toWorker'[u] = toWorker[u]
      BY <1>0, <2>1, HeardShape
    <2>3. /\ worker'[w] = "running" /\ Len(holds'[w]) = 1
          /\ \A u \in Workers \ {w} : holds'[u] = holds[u] /\ worker'[u] = worker[u]
      BY <1>0, <2>1, AppendEmpty DEF Typed
    <2>4. CASE v # w
      BY <1>0, <2>1, <2>2, <2>3, <2>4, TurnKept
    <2>5. CASE v = w
      <3>1. Len(toMaster'[w]) <= 1 /\ Len(toWorker'[w]) <= 1 /\ Len(holds'[w]) <= 1
        BY <1>z, <2>1, <2>2, <2>3, EmptyLen
      <3> QED  BY <2>1, <2>2, <2>3, <2>5, <3>1 DEF Turn, Idle
    <2> QED  BY <2>4, <2>5
  <1>4. CASE RunTest(w)
    <2>1. /\ worker[w] = "running" /\ worker' = [worker EXCEPT ![w] = "waiting"]
          /\ holds' = [holds EXCEPT ![w] = <<>>]
          /\ \E m : toMaster' = [toMaster EXCEPT ![w] = Append(@, m)]
          /\ UNCHANGED <<opt, link, toWorker>>
      BY <1>4 DEF RunTest, master
    <2>2. holds[w] # <<>>
      BY <1>0, <2>1, EmptyLen DEF Posts
    <2>3. toMaster[w] = <<>> /\ toWorker[w] = <<>> /\ link[w] \notin {"none", "pending"}
          /\ ~(opt.parallel < w)
      BY <1>0, <2>2 DEF Turn, Idle
    <2>4. /\ worker'[w] = "waiting" /\ holds'[w] = <<>> /\ Len(toMaster'[w]) = 1
          /\ \A u \in Workers \ {w} : /\ holds'[u] = holds[u] /\ worker'[u] = worker[u]
                                      /\ toMaster'[u] = toMaster[u]
      BY <1>0, <2>1, <2>3, AppendEmpty DEF Typed
    <2>5. CASE v # w
      BY <1>0, <2>1, <2>4, <2>5, TurnKept
    <2>6. CASE v = w
      <3>1. Len(toMaster'[w]) <= 1 /\ Len(toWorker'[w]) <= 1 /\ Len(holds'[w]) <= 1
        BY <1>z, <2>1, <2>3, <2>4, EmptyLen
      <3> QED  BY <2>1, <2>3, <2>4, <2>6, <3>1 DEF Turn, Idle
    <2> QED  BY <2>5, <2>6
  <1>5. CASE TakeBye(w)
    <2>1. /\ Hears(w, "waiting", "BYE") /\ worker' = [worker EXCEPT ![w] = "gone"]
          /\ UNCHANGED <<opt, link, holds>>
      BY <1>5 DEF TakeBye, Exits, master
    <2>2. /\ toWorker'[w] = <<>> /\ toMaster[w] = <<>> /\ holds[w] = <<>>
          /\ link[w] \notin {"none", "pending"} /\ ~(opt.parallel < w)
          /\ \A u \in Workers \ {w} : toWorker'[u] = toWorker[u]
      BY <1>0, <2>1, HeardShape
    <2>3. toMaster' = toMaster
      <3>1. toMaster' = [toMaster EXCEPT ![w] = @ \o <<>> \o <<>>]
        BY <1>5 DEF TakeBye, TimesSpent, Plain
      <3>2. <<>> \o <<>> \o <<>> = <<>>
        OBVIOUS
      <3>3. toMaster' = [toMaster EXCEPT ![w] = <<>>]
        BY <2>2, <3>1, <3>2
      <3> QED  BY <1>0, <2>2, <3>3 DEF Typed
    <2>4. worker'[w] = "gone" /\ \A u \in Workers \ {w} : worker'[u] = worker[u]
      BY <1>0, <2>1 DEF Typed
    <2>5. CASE v # w
      BY <1>0, <2>1, <2>2, <2>3, <2>4, <2>5, TurnKept
    <2>6. CASE v = w
      <3>1. Len(toMaster'[w]) <= 1 /\ Len(toWorker'[w]) <= 1 /\ Len(holds'[w]) <= 1
        BY <1>z, <2>1, <2>2, <2>3, EmptyLen
      <3> QED  BY <2>1, <2>2, <2>3, <2>4, <2>6, <3>1 DEF Turn, Idle
    <2> QED  BY <2>5, <2>6
  <1>6. CASE Interrupted(w) \/ Orphaned(w) \/ Error(w)
    <2>1. worker' = [worker EXCEPT ![w] = "gone"] /\ UNCHANGED <<opt, link, toMaster, toWorker, holds>>
      BY <1>6 DEF Interrupted, Orphaned, Error, Exits, master, sockets
    <2>2. worker'[v] \in {worker[v], "gone"}
      BY <1>0, <2>1 DEF Typed
    <2> QED  BY <1>0, <2>1, <2>2, TurnKept
  <1> QED  BY <1>1, <1>2, <1>3, <1>4, <1>5, <1>6 DEF WorkerSteps

TurnInv == Turns /\ Living

LEMMA TurnInit == ASSUME Init PROVE TurnInv
  <1>1. IInv
    BY InitHolds
  <1>2. /\ link = [w \in Workers |-> IF w <= opt.parallel THEN "none" ELSE "closed"]
        /\ toMaster = [w \in Workers |-> <<>>] /\ toWorker = [w \in Workers |-> <<>>]
        /\ worker = [w \in Workers |-> IF w <= opt.parallel THEN "forked" ELSE "gone"]
        /\ holds = [w \in Workers |-> <<>>] /\ main = "serving"
    BY DEF Init
  <1>3. \A w \in Workers : (w <= opt.parallel) # (opt.parallel < w)
    <2>1. \A w \in Workers : w \in Nat
      <3>1. \A o \in Options : \A u \in 1..o.parallel : u \in Nat
        OBVIOUS
      <3> QED  BY <3>1 DEF Workers
    <2>2. opt.parallel \in Nat
      BY <1>1, OptionsTyped DEF IInv, Typed
    <2> QED  BY <2>1, <2>2
  <1>4. ASSUME NEW w \in Workers PROVE Turn(w)
    <2>1. toMaster[w] = <<>> /\ toWorker[w] = <<>> /\ holds[w] = <<>>
      BY <1>2
    <2>2. Len(toMaster[w]) <= 1 /\ Len(toWorker[w]) <= 1 /\ Len(holds[w]) <= 1
      BY <2>1, EmptyLen
    <2>3. /\ opt.parallel < w => link[w] = "closed"
          /\ worker[w] = "forked" => link[w] = "none"
          /\ worker[w] # "connected"
      BY <1>2, <1>3
    <2> QED  BY <2>1, <2>2, <2>3 DEF Turn, Idle
  <1>5. Living
    BY <1>2 DEF Living
  <1> QED  BY <1>4, <1>5 DEF TurnInv, Turns

\* The steps of the master that neither read nor accept.
LEMMA QuietTurn ==
    ASSUME IInv, \A v \in Workers : Turn(v), UNCHANGED <<opt, sockets, workers>>,
           \/ link' = link
           \/ \E w \in Workers : link[w] = "open" /\ link' = [link EXCEPT ![w] = "closed"],
           NEW v \in Workers
    PROVE  Turn(v)'
  <1>1. UNCHANGED <<opt, toMaster, toWorker, worker, holds>> /\ Turn(v)
    BY DEF sockets, workers
  <1>2. CASE link'[v] = link[v]
    BY <1>1, <1>2, TurnKept
  <1>3. CASE link[v] = "open" /\ link'[v] = "closed"
    BY <1>1, <1>3 DEF Turn, Idle
  <1> QED  BY <1>2, <1>3 DEF IInv, Typed

LEMMA TurnStep ==
    ASSUME IInv, IInv', TurnInv, [Next]_vars
    PROVE  TurnInv'
  <1>0. Typed /\ opt' = opt /\ Plain' = Plain
    <2>1. opt' = opt
      BY DEF Next, MasterReads, WorkerSteps, Accept, Closed, Notes, FailWithoutForce, TooManyFailed,
             RetryTest, RepeatTest, FinishTest, GoesOn, Connect, Greet, TakeTest, RunTest, TakeBye,
             Interrupted, Orphaned, Error, SuiteExpires, Reap, Ended, vars
    <2> QED  BY <2>1 DEF IInv, Plain
  <1> SUFFICES ASSUME Plain
               PROVE  (\A v \in Workers : Turn(v)') /\ Living'
    BY <1>0 DEF TurnInv, Turns, Living
  <1>1. \A v \in Workers : Turn(v)
    BY DEF TurnInv, Turns
  <1>2. ASSUME NEW w \in Workers, ReadStep(w)
        PROVE  (\A v \in Workers : Turn(v)') /\ Living'
    <2>1. Exchange(w)
      BY <1>2, ReadShape
    <2>2. \A v \in Workers : Turn(v)'
      BY <1>0, <1>1, <2>1, ExchangeTurn
    <2>3. /\ toWorker'[w] = <<>> \/ \E m \in DownMsg : /\ toWorker'[w] = <<m>> /\ Answer(w, m)
                                                       /\ m.type \in {"TESTCASE", "BYE"}
          /\ \A v \in Workers \ {w} : toMaster'[v] = toMaster[v] /\ toWorker'[v] = toWorker[v]
          /\ UNCHANGED <<opt, holds, link, worker, errors, childs>>
      BY <1>0, <1>1, <2>1, ExchangeShape
    <2>4. main = "serving" /\ toMaster[w] # <<>>
      BY <2>1 DEF Exchange
    <2>5. ASSUME errors = 0
          PROVE  /\ main' # "killed"
                 /\ \A v \in Workers : worker'[v] = "gone" => /\ toMaster'[v] = <<>> /\ toWorker'[v] = <<>>
                                                              /\ link'[v] # "pending"
      <3>1. \A v \in Workers : worker[v] = "gone" => /\ toMaster[v] = <<>> /\ toWorker[v] = <<>>
                                                     /\ link[v] # "pending"
        BY <2>4, <2>5 DEF TurnInv, Living
      <3>2. worker[w] # "gone"
        BY <2>4, <3>1
      <3>3. main' # "killed"
        BY <2>1, <2>4, <3>2 DEF Exchange, Answer
      <3>4. ASSUME NEW v \in Workers, worker'[v] = "gone"
            PROVE  toMaster'[v] = <<>> /\ toWorker'[v] = <<>> /\ link'[v] # "pending"
        <4>1. worker[v] = "gone" /\ v # w
          BY <2>3, <3>2, <3>4
        <4> QED  BY <2>3, <3>1, <4>1
      <3> QED  BY <3>3, <3>4
    <2>6. Living'
      BY <2>3, <2>5 DEF Living
    <2> QED  BY <2>2, <2>6
  <1>3. ASSUME NEW w \in Workers, Accept(w)
        PROVE  (\A v \in Workers : Turn(v)') /\ Living'
    <2>1. \A v \in Workers : Turn(v)'
      BY <1>0, <1>1, <1>3, AcceptTurn
    <2>2. /\ link[w] = "pending" /\ link' = [link EXCEPT ![w] = "open"] /\ main = "serving"
          /\ toWorker' = [toWorker EXCEPT ![w] = Append(@, [type |-> "HELLO"])]
          /\ worker[w] # "gone" => main' = main
          /\ UNCHANGED <<opt, toMaster, holds, worker, errors>>
      BY <1>3 DEF Accept, Answer, workers
    <2>3. ASSUME errors = 0
          PROVE  /\ main' # "killed"
                 /\ \A v \in Workers : worker'[v] = "gone" => /\ toMaster'[v] = <<>> /\ toWorker'[v] = <<>>
                                                              /\ link'[v] # "pending"
      <3>1. \A v \in Workers : worker[v] = "gone" => /\ toMaster[v] = <<>> /\ toWorker[v] = <<>>
                                                     /\ link[v] # "pending"
        BY <2>2, <2>3 DEF TurnInv, Living
      <3>2. worker[w] # "gone"
        BY <2>2, <3>1
      <3>3. \A v \in Workers \ {w} : toWorker'[v] = toWorker[v] /\ link'[v] = link[v]
        BY <1>0, <2>2 DEF Typed
      <3> QED  BY <2>2, <3>1, <3>2, <3>3
    <2>4. Living'
      BY <2>2, <2>3 DEF Living
    <2> QED  BY <2>1, <2>4
  <1>4. CASE SuiteExpires \/ Reap \/ Ended \/ UNCHANGED vars \/ \E w \in Workers : Closed(w)
    <2>1. /\ UNCHANGED <<opt, sockets, workers>>
          /\ \/ link' = link
             \/ \E w \in Workers : link[w] = "open" /\ link' = [link EXCEPT ![w] = "closed"]
      BY <1>4 DEF SuiteExpires, Reap, Ended, vars, master, Closed
    <2>2. \A v \in Workers : Turn(v)'
      BY <1>1, <2>1, QuietTurn
    <2>3. UNCHANGED <<toMaster, toWorker, worker, errors>>
      BY <2>1 DEF sockets, workers
    <2>4. main' \in {main, "returned", "aborted", "completed", "failed"}
      BY <1>4 DEF SuiteExpires, Reap, Ended, vars, master, Closed
    <2>5. \A v \in Workers : link'[v] = "pending" => link[v] = "pending"
      BY <1>0, <2>1 DEF Typed
    <2>6. Living'
      BY <2>3, <2>4, <2>5 DEF TurnInv, Living
    <2> QED  BY <2>2, <2>6
  <1>5. ASSUME NEW w \in Workers, WorkerSteps(w) \/ Error(w)
        PROVE  (\A v \in Workers : Turn(v)') /\ Living'
    <2>1. \A v \in Workers : Turn(v)'
      BY <1>1, <1>5, WorkerTurn
    <2>2. main' = main
      BY <1>5 DEF WorkerSteps, Error, Connect, Greet, TakeTest, RunTest, TakeBye, Interrupted,
                  Orphaned, master
    <2>3. ASSUME errors' = 0, main = "serving", NEW v \in Workers, worker'[v] = "gone"
          PROVE  toMaster'[v] = <<>> /\ toWorker'[v] = <<>> /\ link'[v] # "pending"
      <3>1. errors' = errors /\ ~Error(w)
        <4>1. errors \in Nat
          <5>1. errors \in 0..opt.errors /\ opt.errors \in Nat
            BY <1>0, OptionsTyped DEF Typed
          <5> QED  BY <5>1
        <4>2. ~Error(w)
          BY <2>3, <4>1 DEF Error
        <4> QED  BY <1>5, <4>2 DEF WorkerSteps, Connect, Greet, TakeTest, RunTest, TakeBye,
                                   Interrupted, Orphaned
      <3>2. errors = 0
        BY <2>3, <3>1
      <3>3. \A u \in Workers : worker[u] = "gone" => /\ toMaster[u] = <<>> /\ toWorker[u] = <<>>
                                                     /\ link[u] # "pending"
        BY <2>3, <3>2 DEF TurnInv, Living
      <3>4. CASE TakeBye(w)
        <4>1. Hears(w, "waiting", "BYE") /\ UNCHANGED link /\ worker' = [worker EXCEPT ![w] = "gone"]
          BY <3>4 DEF TakeBye, Exits, master
        <4>2. toWorker'[w] = <<>> /\ toMaster[w] = <<>> /\ link[w] \notin {"none", "pending"}
              /\ \A u \in Workers \ {w} : toWorker'[u] = toWorker[u]
          BY <1>0, <1>1, <4>1, HeardShape
        <4>3. toMaster' = toMaster
          <5>1. toMaster' = [toMaster EXCEPT ![w] = @ \o <<>> \o <<>>]
            BY <3>4 DEF TakeBye, TimesSpent, Plain
          <5>2. <<>> \o <<>> \o <<>> = <<>>
            OBVIOUS
          <5>3. toMaster' = [toMaster EXCEPT ![w] = <<>>]
            BY <4>2, <5>1, <5>2
          <5> QED  BY <1>0, <4>2, <5>3 DEF Typed
        <4>4. CASE v = w
          BY <4>1, <4>2, <4>3, <4>4
        <4>5. CASE v # w
          <5>1. worker[v] = "gone"
            BY <1>0, <2>3, <4>1, <4>5 DEF Typed
          <5> QED  BY <3>3, <4>1, <4>2, <4>3, <4>5, <5>1
        <4> QED  BY <4>4, <4>5
      <3>5. CASE Connect(w) \/ Greet(w) \/ TakeTest(w) \/ RunTest(w)
        <4>1. PICK s \in {"connected", "waiting", "running"} : worker' = [worker EXCEPT ![w] = s]
          BY <3>5 DEF Connect, Greet, TakeTest, RunTest
        <4>2. v # w /\ worker[v] = "gone"
          BY <1>0, <2>3, <4>1 DEF Typed
        <4>3. toMaster'[v] = toMaster[v]
          BY <1>0, <3>5, <4>2 DEF Connect, Greet, TakeTest, RunTest, sockets, Typed
        <4>4. toWorker'[v] = toWorker[v]
          BY <1>0, <3>5, <4>2 DEF Connect, Greet, TakeTest, RunTest, sockets, Hears, Typed
        <4>5. link'[v] = link[v]
          BY <1>0, <3>5, <4>2 DEF Connect, Greet, TakeTest, RunTest, master, Typed
        <4> QED  BY <3>3, <4>2, <4>3, <4>4, <4>5
      <3>6. ~Interrupted(w) /\ ~Orphaned(w)
        BY <2>3 DEF Interrupted, Orphaned
      <3> QED  BY <1>5, <3>1, <3>4, <3>5, <3>6 DEF WorkerSteps
    <2>4. errors' = 0 => main' # "killed"
      <3>1. errors' = 0 => errors = 0
        <4>1. errors \in Nat
          <5>1. errors \in 0..opt.errors /\ opt.errors \in Nat
            BY <1>0, OptionsTyped DEF Typed
          <5> QED  BY <5>1
        <4> QED  BY <1>5, <4>1 DEF WorkerSteps, Error, Connect, Greet, TakeTest, RunTest, TakeBye,
                                   Interrupted, Orphaned
      <3> QED  BY <2>2, <3>1 DEF TurnInv, Living
    <2>5. Living'
      BY <2>2, <2>3, <2>4 DEF Living
    <2> QED  BY <2>1, <2>5
  <1>6. CASE \E w \in Workers : MasterReads(w)
    <2>1. PICK w \in Workers : MasterReads(w)
      BY <1>6
    <2>2. Accept(w) \/ Closed(w) \/ ReadStep(w)
      BY <2>1 DEF MasterReads, ReadStep
    <2> QED  BY <1>2, <1>3, <1>4, <2>2
  <1> QED  BY <1>4, <1>5, <1>6 DEF Next

(* At most one message or test is under way between the master and each    *)
(* worker, so that a worker that has gone is not written to (run_worker,   *)
(* lines 1184-1246, answers every line of the master with one line).       *)
THEOREM TurnsAlways == Spec => []TurnInv
  <1>1. Init => TurnInv
    BY TurnInit
  <1>2. IInv /\ IInv' /\ TurnInv /\ [Next]_vars => TurnInv'
    BY TurnStep
  <1> QED  BY <1>1, <1>2, Invariance, PTL DEF Spec

(* No test is lost or run twice between the master and its workers, what   *)
(* the program reports in the end says so, and a master whose workers do   *)
(* not fail is not ended by writing to one that has gone                   *)
(* (run_test_server, lines 825-1150, and the report, lines 717-722).       *)
THEOREM NothingLostAlways == Spec => []NothingLost
  <1>1. TurnInv => MasterLives
    BY DEF TurnInv, Living, MasterLives, Plain
  <1> QED  BY <1>1, TypesAlways, ConservedAlways, HonestReportAlways, AnswersKnownAlways, TurnsAlways, PTL
           DEF NothingLost

-----------------------------------------------------------------------------
(* The suite, seen from the master.                                        *)

\* The steps that touch neither the lists nor the results.
LEMMA OtherSteps ==
    ASSUME [Next]_vars, ~\E w \in Workers : \/ Notes(w) \/ FinishTest(w)
                                            \/ FailWithoutForce(w) \/ TooManyFailed(w)
    PROVE  /\ UNCHANGED <<opt, tests, nonParallel, running, completed, numNdb, completedWid>>
           /\ main' = "serving" => main = "serving"
  <1>1. ASSUME NEW w \in Workers, RetryTest(w) \/ RepeatTest(w)
        PROVE  /\ UNCHANGED <<opt, tests, nonParallel, running, completed, numNdb, completedWid>>
               /\ main = "serving"
    BY <1>1 DEF RetryTest, RepeatTest, GoesOn, Reads
  <1>2. ASSUME NEW w \in Workers, Accept(w) \/ Closed(w)
        PROVE  /\ UNCHANGED <<opt, tests, nonParallel, running, completed, numNdb, completedWid>>
               /\ main = "serving"
    BY <1>2 DEF Accept, Closed
  <1>3. ASSUME NEW w \in Workers, WorkerSteps(w) \/ Error(w)
        PROVE  UNCHANGED <<opt, main, tests, nonParallel, running, completed, numNdb, completedWid>>
    BY <1>3 DEF WorkerSteps, Connect, Greet, TakeTest, RunTest, TakeBye, Interrupted, Orphaned, Error,
                master
  <1>4. CASE SuiteExpires \/ Reap
    BY <1>4 DEF SuiteExpires, Reap
  <1>5. CASE Ended \/ UNCHANGED vars
    BY <1>5 DEF Ended, vars, master
  <1> QED  BY <1>1, <1>2, <1>3, <1>4, <1>5 DEF Next, MasterReads

\* No step gives out a test but while the master serves.
LEMMA ServesFirst ==
    ASSUME [Next]_vars, main # "serving"
    PROVE  UNCHANGED <<opt, tests, nonParallel, running, completed, numNdb, completedWid>>
           /\ main' # "serving"
  <1>1. ~\E w \in Workers : Notes(w) \/ FinishTest(w) \/ FailWithoutForce(w) \/ TooManyFailed(w)
    BY DEF Notes, FinishTest, GoesOn, FailWithoutForce, TooManyFailed, Reads
  <1> QED  BY <1>1, OtherSteps

\* Without --force and valgrind the master serves on only while no test has
\* failed.
NoFailYet ==
    ~opt.force /\ ~opt.valgrind /\ main = "serving" =>
        \A t \in Tests : \A i \in DOMAIN completed[t] : ~Failed(completed[t][i])

\* The result of a test that is skipped.
Skip(t) == [Fresh(t) EXCEPT !.result = "skipped"]

\* The results after a search, from those before it.
LEMMA SearchResults ==
    ASSUME IInv, NEW w, NEW R, NEW out, NEW has, NEW n, NEW results, NEW K, NEW D, NEW m,
           Search(w, R, out, has, n, results, K, D, m), NEW t \in Tests
    PROVE  /\ Tests' = Tests
           /\ t \in K => results[t] = <<>> /\ completed'[t] = <<Skip(t)>>
           /\ t \notin K => completed'[t] = results[t]
           /\ results[t] = <<>> \/ (Len(results[t]) = 1 /\ results[t] \in Seq(Carried))
  <1>1. /\ opt' = opt /\ Settles(out, has, results) /\ Hands(w, out, n, results, K, D, m)
    BY DEF Search
  <1>2. /\ has = {u \in Tests : results[u] # <<>>} /\ out \cup has = running \cup HasResult
        /\ Len(results[t]) <= 1 /\ results[t] \in Seq(Carried)
    BY <1>1 DEF Settles
  <1>3. K \subseteq Listed \cup SetAside
    BY <1>1 DEF Hands
  <1>4. completed'[t] = IF t \in K THEN Append(results[t], Skip(t))
                        ELSE results[t]
    BY <1>1 DEF Hands, Skip
  <1>5. t \in K => results[t] = <<>>
    BY <1>2, <1>3 DEF IInv, Accounted
  <1>6. results[t] = <<>> \/ Len(results[t]) = 1
    BY <1>2, ShortSeq
  <1> QED  BY <1>1, <1>2, <1>4, <1>5, <1>6, AppendEmpty, SameOptions

LEMMA NoFailStep ==
    ASSUME IInv, NoFailYet, [Next]_vars
    PROVE  NoFailYet'
  <1> SUFFICES ASSUME ~opt'.force, ~opt'.valgrind, main' = "serving", NEW t \in Tests'
               PROVE  \A i \in DOMAIN completed'[t] : ~Failed(completed'[t][i])
    BY DEF NoFailYet, Failed
  <1>1. CASE ~\E w \in Workers : Notes(w) \/ FinishTest(w) \/ FailWithoutForce(w) \/ TooManyFailed(w)
    <2>1. UNCHANGED <<opt, completed>> /\ main = "serving"
      BY <1>1, OtherSteps
    <2> QED  BY <2>1, SameOptions DEF NoFailYet, Failed
  <1>2. ASSUME NEW w \in Workers, FailWithoutForce(w) \/ TooManyFailed(w) PROVE FALSE
    <2>1. Reads(w, "TESTRESULT") /\ opt' = opt
      BY <1>2 DEF FailWithoutForce, TooManyFailed
    <2>2. Result(w) \in Carried
      BY <2>1, ReadTyped DEF IInv
    <2>3. ~Result(w).warned
      BY <2>1, <2>2 DEF Carried
    <2> QED  BY <1>2, <2>1, <2>3 DEF FailWithoutForce, TooManyFailed, StopsAll
  <1>3. ASSUME NEW w, NEW R, NEW out, NEW has, NEW n, NEW results, NEW K, NEW D, NEW m,
               Search(w, R, out, has, n, results, K, D, m),
               \A u \in Tests : \A i \in DOMAIN results[u] : ~Failed(results[u][i])
        PROVE  \A i \in DOMAIN completed'[t] : ~Failed(completed'[t][i])
    <2>1. Tests' = Tests /\ t \in Tests
      BY <1>3, SameOptions DEF Search
    <2>2. CASE t \in K
      <3>1. completed'[t] = <<Skip(t)>>
        BY <1>3, <2>1, <2>2, SearchResults
      <3>2. Skip(t).result = "skipped"
        BY DEF Fresh, Skip
      <3> QED  BY <3>1, <3>2 DEF Failed
    <2>3. CASE t \notin K
      <3>1. completed'[t] = results[t]
        BY <1>3, <2>1, <2>3, SearchResults
      <3> QED  BY <1>3, <2>1, <3>1
    <2> QED  BY <2>2, <2>3
  <1>4. ASSUME NEW w \in Workers, Notes(w) \/ FinishTest(w)
        PROVE  \A i \in DOMAIN completed'[t] : ~Failed(completed'[t][i])
    <2>1. opt' = opt /\ main = "serving"
      BY <1>4 DEF Notes, FinishTest, GoesOn, Reads
    <2>2. \A u \in Tests : \A i \in DOMAIN completed[u] : ~Failed(completed[u][i])
      BY <2>1 DEF NoFailYet
    <2>3. CASE Notes(w)
      <3>1. \E K, D, m : Search(w, {}, running, HasResult, numNdb, completed, K, D, m)
        BY <2>3, NotesSearch
      <3> QED  BY <1>3, <2>2, <3>1
    <2>4. CASE FinishTest(w)
      <3>1. PICK r : r = Result(w)
        OBVIOUS
      <3>2. /\ r \in Carried /\ r.id \in Out
            /\ \E K, D, m : Search(w, {r.id}, running \ {r.id}, HasResult \cup {r.id}, Ndb(r), With(r), K, D, m)
        BY <2>4, <3>1, FinishSearch
      <3>3. ~Failed(r) /\ Reads(w, "TESTRESULT")
        BY <2>1, <2>4, <3>1 DEF FinishTest, GoesOn
      <3>4. completed[r.id] = <<>> /\ r.id \in Tests
        BY <3>1, <3>3, ResultKnown
      <3>5. ASSUME NEW u \in Tests PROVE \A i \in DOMAIN With(r)[u] : ~Failed(With(r)[u][i])
        <4>1. With(r)[u] = IF u = r.id THEN <<r>> ELSE completed[u]
          BY <3>4, AppendEmpty DEF With, IInv, Typed
        <4> QED  BY <2>2, <3>3, <4>1
      <3> QED  BY <1>3, <3>2, <3>5
    <2> QED  BY <1>4, <2>3, <2>4
  <1> QED  BY <1>1, <1>2, <1>4

(* Without --force no test is given out once a test has failed, unless     *)
(* valgrind keeps the suite going for its reports (run_test_server, lines  *)
(* 940-946).                                                               *)
THEOREM StopsOnFailureAlways == Spec => StopsOnFailure
  <1>1. Init => NoFailYet
    <2> SUFFICES ASSUME Init, NEW t \in Tests PROVE completed[t] = <<>>
      BY DEF NoFailYet
    <2> QED  BY DEF Init
  <1>2. IInv /\ NoFailYet /\ [Next]_vars => NoFailYet'
    BY NoFailStep
  <1>3. ASSUME IInv, NoFailYet, [Next]_vars
        PROVE  [~opt.force /\ ~opt.valgrind
                 /\ (\E t \in HasResult : Failed(completed[t][Len(completed[t])]))
                 => running' \subseteq running]_vars
    <2> SUFFICES ASSUME ~opt.force, ~opt.valgrind, NEW t \in HasResult,
                        Failed(completed[t][Len(completed[t])])
                 PROVE  running' \subseteq running
      OBVIOUS
    <2>1. t \in Tests /\ completed[t] # <<>> /\ Len(completed[t]) <= 1 /\ completed[t] \in Seq(Carried)
      BY <1>3 DEF HasResult, IInv, Accounted, Typed
    <2>2. Len(completed[t]) = 1 /\ 1 \in DOMAIN completed[t]
      <3>1. Len(completed[t]) = 1
        BY <2>1, ShortSeq
      <3> QED  BY <2>1, <3>1
    <2>3. main # "serving"
      BY <1>3, <2>1, <2>2 DEF NoFailYet
    <2> QED  BY <1>3, <2>3, ServesFirst
  <1> QED  BY <1>1, <1>2, <1>3, Invariance, PTL DEF Spec, StopsOnFailure

-----------------------------------------------------------------------------
(* Dismissed workers, the tests that run alone, and the tests under way at *)
(* the others.                                                             *)

\* The tests under way at a worker.
Work(v) == IdsIn(toWorker[v]) \cup IdsIn(toMaster[v]) \cup Ids(holds[v])

\* BYE is on its way to the worker, or has reached it.
Dismissed(v) ==
    \/ toWorker[v] # <<>> /\ Head(toWorker[v]).type = "BYE"
    \/ worker[v] = "gone" /\ link[v] \in {"open", "closed"} /\ Idle(v)

Undismissed == {v \in 1..opt.parallel : ~Dismissed(v)}

LEMMA ShortDomain ==
    ASSUME NEW T, NEW q \in Seq(T), Len(q) <= 1
    PROVE  /\ \A i \in DOMAIN q : i = 1 /\ q[i] = Head(q)
           /\ q # <<>> => 1 \in DOMAIN q
  OBVIOUS

LEMMA OneWork ==
    ASSUME Typed, NEW v \in Workers, Turn(v)
    PROVE  /\ \A t, u \in Work(v) : t = u
           /\ toMaster[v] # <<>> => Work(v) \subseteq Borne(Head(toMaster[v])) /\ v \in Undismissed
           /\ Work(v) # {} => v \in Undismissed
  <1>1. PICK up \in Seq(UpMsg) : up = toMaster[v]
    BY DEF Typed
  <1>2. PICK down \in Seq(DownMsg) : down = toWorker[v]
    BY DEF Typed
  <1>3. PICK held \in Seq(Carried) : held = holds[v]
    BY DEF Typed
  <1>4. Len(up) <= 1 /\ Len(down) <= 1 /\ Len(held) <= 1
    BY <1>1, <1>2, <1>3 DEF Turn
  <1>5. /\ \A i \in DOMAIN up : i = 1 /\ up[i] = Head(up)
        /\ \A i \in DOMAIN down : i = 1 /\ down[i] = Head(down)
        /\ \A i \in DOMAIN held : i = 1 /\ held[i] = Head(held)
    BY <1>4, ShortDomain
  <1>6. /\ up # <<>> => down = <<>> /\ held = <<>>
        /\ down # <<>> => held = <<>>
    BY <1>1, <1>2, <1>3 DEF Turn
  <1>7. Work(v) = IdsIn(down) \cup IdsIn(up) \cup Ids(held)
    BY <1>1, <1>2, <1>3 DEF Work
  <1>8. IdsIn(up) \subseteq Borne(Head(up)) /\ IdsIn(down) \subseteq Borne(Head(down))
        /\ Ids(held) \subseteq {Head(held).id}
    BY <1>5 DEF IdsIn, Bearing, Borne, Ids
  <1>9. \A t, u \in Work(v) : t = u
    <2>1. CASE up # <<>>
      BY <1>6, <1>7, <1>8, <2>1, EmptyIds DEF Borne
    <2>2. CASE up = <<>> /\ down # <<>>
      BY <1>6, <1>7, <1>8, <2>2, EmptyIds DEF Borne
    <2>3. CASE up = <<>> /\ down = <<>>
      BY <1>7, <1>8, <2>3, EmptyIds
    <2> QED  BY <2>1, <2>2, <2>3
  <1>10. ~Idle(v) => v \in 1..opt.parallel
    <2>1. v \in Nat /\ 1 <= v /\ opt.parallel \in Nat
      <3>1. \A o \in Options : \A u \in 1..o.parallel : u \in Nat /\ 1 <= u
        OBVIOUS
      <3> QED  BY <3>1, OptionsTyped DEF Workers, Typed
    <2>2. ~Idle(v) => ~(opt.parallel < v)
      BY DEF Turn
    <2> QED  BY <2>1, <2>2
  <1>11. ~Idle(v) /\ ~(down # <<>> /\ Head(down).type = "BYE") => v \in Undismissed
    BY <1>2, <1>10 DEF Undismissed, Dismissed
  <1>12. up # <<>> => ~Idle(v)
    BY <1>1 DEF Idle
  <1>13. Work(v) # {} => ~Idle(v)
    BY <1>1, <1>2, <1>3, <1>7, EmptyIds DEF Idle
  <1>14. down # <<>> /\ Head(down).type = "BYE" => Work(v) = {}
    <2> SUFFICES ASSUME down # <<>>, Head(down).type = "BYE" PROVE Work(v) = {}
      OBVIOUS
    <2>1. up = <<>> /\ held = <<>>
      BY <1>6
    <2>2. Borne(Head(down)) = {}
      BY DEF Borne
    <2> QED  BY <1>7, <1>8, <2>1, <2>2, EmptyIds
  <1> QED  BY <1>1, <1>2, <1>6, <1>7, <1>8, <1>9, <1>11, <1>12, <1>13, <1>14, EmptyIds

LEMMA OutAtWork ==
    ASSUME OneCopy, NEW t \in Out
    PROVE  \E v \in Workers : t \in Work(v)
  <1>1. PICK b \in Queues : t \in Contents[b]
    BY DEF OneCopy, Copies
  <1>2. b[1] \in Workers /\ b \in {<<b[1], "down">>, <<b[1], "up">>, <<b[1], "held">>}
    BY QueueNames
  <1> QED  BY <1>1, <1>2, QueuesOf, ZenonT(60) DEF Work

\* The tests that stay out when the master reads a line of w are at other
\* workers.
LEMMA OthersAtWork ==
    ASSUME IInv, \A v \in Workers : Turn(v), NEW w \in Workers, toMaster[w] # <<>>,
           NEW t \in Out \ Borne(Head(toMaster[w]))
    PROVE  \E v \in Workers \ {w} : t \in Work(v) /\ v \in Undismissed
  <1>1. PICK v \in Workers : t \in Work(v)
    BY OutAtWork DEF IInv
  <1>2. v # w
    BY <1>1, OneWork DEF IInv
  <1>3. v \in Undismissed
    BY <1>1, OneWork DEF IInv
  <1> QED  BY <1>1, <1>2, <1>3

LEMMA UndismissedFinite ==
    ASSUME opt \in Options
    PROVE  IsFiniteSet(Undismissed) /\ Cardinality(Undismissed) \in 0..opt.parallel
  <1>1. opt.parallel \in Nat /\ 1 \in Int
    BY OptionsTyped
  <1>2. IsFiniteSet(1..opt.parallel) /\ Cardinality(1..opt.parallel) = opt.parallel
    <2>1. /\ IsFiniteSet(1..opt.parallel)
          /\ Cardinality(1..opt.parallel) = IF 1 > opt.parallel THEN 0 ELSE opt.parallel - 1 + 1
      BY <1>1, FS_Interval, SMTT(60)
    <2> QED  BY <1>1, <2>1
  <1>3. Undismissed \in SUBSET (1..opt.parallel)
    BY DEF Undismissed
  <1>4. IsFiniteSet(Undismissed) /\ Cardinality(Undismissed) <= opt.parallel
    BY <1>2, <1>3, FS_Subset
  <1> QED  BY <1>1, <1>4, FS_CardinalityType

\* No step takes a dismissal back.
LEMMA DismissedStays ==
    ASSUME IInv, Plain, \A v \in Workers : Turn(v), [Next]_vars, NEW v \in Workers, Dismissed(v)
    PROVE  Dismissed(v)'
  <1>0. Typed
    BY DEF IInv
  <1>1. ASSUME toWorker'[v] = toWorker[v], toMaster'[v] = toMaster[v], holds'[v] = holds[v],
               worker'[v] \in {worker[v], "gone"},
               link'[v] = link[v] \/ (link[v] = "open" /\ link'[v] = "closed")
        PROVE  Dismissed(v)'
    BY <1>1 DEF Dismissed, Idle
  <1>2. ASSUME NEW w \in Workers, ReadStep(w) PROVE Dismissed(v)'
    <2>1. Exchange(w)
      BY <1>2, ReadShape
    <2>2. /\ \A u \in Workers \ {w} : toMaster'[u] = toMaster[u] /\ toWorker'[u] = toWorker[u]
          /\ UNCHANGED <<holds, link, worker>> /\ toWorker[w] = <<>>
      BY <1>0, <2>1, ExchangeShape
    <2>3. v # w
      BY <2>1, <2>2 DEF Exchange, Dismissed, Idle
    <2> QED  BY <1>1, <2>2, <2>3
  <1>3. ASSUME NEW w \in Workers, Accept(w) PROVE Dismissed(v)'
    <2>1. /\ link[w] = "pending" /\ link' = [link EXCEPT ![w] = "open"]
          /\ toWorker' = [toWorker EXCEPT ![w] = Append(@, [type |-> "HELLO"])]
          /\ UNCHANGED <<toMaster, holds, worker>>
      BY <1>3 DEF Accept, Answer, workers
    <2>2. v # w
      BY <2>1 DEF Dismissed, Turn, Idle
    <2> QED  BY <1>0, <1>1, <2>1, <2>2 DEF Typed
  <1>4. CASE SuiteExpires \/ Reap \/ Ended \/ UNCHANGED vars \/ \E w \in Workers : Closed(w)
    <2>1. /\ UNCHANGED <<toMaster, toWorker, worker, holds>>
          /\ \/ link' = link
             \/ \E w \in Workers : link[w] = "open" /\ link' = [link EXCEPT ![w] = "closed"]
      BY <1>4 DEF SuiteExpires, Reap, Ended, vars, master, Closed, sockets, workers
    <2> QED  BY <1>0, <1>1, <2>1 DEF Typed
  <1>5. ASSUME NEW w \in Workers, WorkerSteps(w) \/ Error(w) PROVE Dismissed(v)'
    <2>1. CASE Interrupted(w) \/ Orphaned(w) \/ Error(w)
      <3>1. worker' = [worker EXCEPT ![w] = "gone"] /\ UNCHANGED <<link, toMaster, toWorker, holds>>
        BY <2>1 DEF Interrupted, Orphaned, Error, Exits, master, sockets
      <3> QED  BY <1>0, <1>1, <3>1 DEF Typed
    <2>2. CASE TakeBye(w)
      <3>1. /\ Hears(w, "waiting", "BYE") /\ worker' = [worker EXCEPT ![w] = "gone"]
            /\ UNCHANGED <<link, holds>>
        BY <2>2 DEF TakeBye, Exits, master
      <3>2. /\ toWorker'[w] = <<>> /\ toMaster[w] = <<>> /\ holds[w] = <<>>
            /\ link[w] \notin {"none", "pending"}
            /\ \A u \in Workers \ {w} : toWorker'[u] = toWorker[u]
        BY <1>0, <3>1, HeardShape
      <3>3. toMaster' = toMaster
        <4>1. toMaster' = [toMaster EXCEPT ![w] = @ \o <<>> \o <<>>]
          BY <2>2 DEF TakeBye, TimesSpent, Plain
        <4>2. <<>> \o <<>> \o <<>> = <<>>
          OBVIOUS
        <4>3. toMaster' = [toMaster EXCEPT ![w] = <<>>]
          BY <3>2, <4>1, <4>2
        <4> QED  BY <1>0, <3>2, <4>3 DEF Typed
      <3>4. CASE v = w
        BY <1>0, <3>1, <3>2, <3>3, <3>4 DEF Typed, Dismissed, Idle
      <3>5. CASE v # w
        BY <1>0, <1>1, <3>1, <3>2, <3>3, <3>5 DEF Typed
      <3> QED  BY <3>4, <3>5
    <2>3. CASE Connect(w) \/ Greet(w) \/ TakeTest(w) \/ RunTest(w)
      <3>1. CASE v = w
        <4>1. worker[w] # "gone"
          BY <2>3 DEF Connect, Greet, TakeTest, RunTest, Hears
        <4>2. toWorker[w] # <<>> /\ Head(toWorker[w]).type = "BYE"
          BY <3>1, <4>1 DEF Dismissed
        <4>3. worker[w] = "running" => holds[w] # <<>>
          BY EmptyLen DEF IInv, Posts
        <4> QED  BY <2>3, <4>2, <4>3 DEF Connect, Greet, TakeTest, RunTest, Hears, Turn, Idle
      <3>2. CASE v # w
        <4>1. /\ toWorker'[v] = toWorker[v] /\ toMaster'[v] = toMaster[v] /\ holds'[v] = holds[v]
              /\ worker'[v] = worker[v]
          BY <1>0, <2>3, <3>2 DEF Connect, Greet, TakeTest, RunTest, Hears, sockets, Typed
        <4>2. link'[v] = link[v]
          BY <1>0, <2>3, <3>2 DEF Connect, Greet, TakeTest, RunTest, master, Typed
        <4> QED  BY <1>1, <4>1, <4>2
      <3> QED  BY <3>1, <3>2
    <2> QED  BY <1>5, <2>1, <2>2, <2>3 DEF WorkerSteps
  <1>6. CASE \E w \in Workers : MasterReads(w)
    <2>1. PICK w \in Workers : MasterReads(w)
      BY <1>6
    <2>2. Accept(w) \/ Closed(w) \/ ReadStep(w)
      BY <2>1 DEF MasterReads, ReadStep
    <2> QED  BY <1>2, <1>3, <1>4, <2>2
  <1> QED  BY <1>4, <1>5, <1>6 DEF Next

\* The master reads a line of w, takes the tests R back, and gives out the
\* tests D with the message m.
Look(w, R, n, results, K, D, m) ==
    /\ Search(w, R, running \ R, HasResult \cup R, n, results, K, D, m)
    /\ Exchange(w) /\ R = Borne(Head(toMaster[w])) /\ R \subseteq Out
    /\ R = {} \/ \E t : R = {t}
    /\ n = IF R \cap opt.ndb_test # {} THEN numNdb - 1 ELSE numNdb

LEMMA Looks ==
    ASSUME IInv, NEW w \in Workers, Notes(w) \/ FinishTest(w)
    PROVE  \E R, n, results, K, D, m : Look(w, R, n, results, K, D, m)
  <1>1. Exchange(w)
    BY ReadShape DEF ReadStep
  <1>2. CASE Notes(w)
    <2>1. PICK K, D, m : Search(w, {}, running, HasResult, numNdb, completed, K, D, m)
      BY <1>2, NotesSearch
    <2>2. Borne(Head(toMaster[w])) = {}
      <3>1. PICK type \in {"START", "SPENT", "VALGREP"} : Reads(w, type)
        BY <1>2 DEF Notes
      <3> QED  BY <3>1 DEF Reads, Borne
    <2>3. running \ {} = running /\ HasResult \cup {} = HasResult
      OBVIOUS
    <2>4. Look(w, {}, numNdb, completed, K, D, m)
      BY <1>1, <2>1, <2>2, <2>3 DEF Look
    <2> QED  BY <2>4
  <1>3. CASE FinishTest(w)
    <2>1. PICK r : r = Result(w)
      OBVIOUS
    <2>2. /\ r \in Carried /\ r.id \in Out
          /\ \E K, D, m : Search(w, {r.id}, running \ {r.id}, HasResult \cup {r.id}, Ndb(r), With(r), K, D, m)
      BY <1>3, <2>1, FinishSearch
    <2>3. PICK K, D, m : Search(w, {r.id}, running \ {r.id}, HasResult \cup {r.id}, Ndb(r), With(r), K, D, m)
      BY <2>2
    <2>4. Borne(Head(toMaster[w])) = {r.id}
      <3>1. Reads(w, "TESTRESULT")
        BY <1>3 DEF FinishTest, GoesOn
      <3> QED  BY <2>1, <3>1, ReadTyped DEF IInv
    <2>5. Ndb(r) = IF {r.id} \cap opt.ndb_test # {} THEN numNdb - 1 ELSE numNdb
      BY DEF Ndb
    <2>6. Look(w, {r.id}, Ndb(r), With(r), K, D, m)
      BY <1>1, <2>2, <2>3, <2>4, <2>5 DEF Look
    <2> QED  BY <2>6
  <1> QED  BY <1>2, <1>3

\* Every worker is undismissed or counted, but the last one may be both.
Dismissals ==
    \/ completedWid + Cardinality(Undismissed) <= opt.parallel
    \/ completedWid = opt.parallel /\ Cardinality(Undismissed) <= 1

\* A test that must run alone is with the last worker.
Lonely ==
    \A t \in running \cap opt.not_parallel : running = {t} /\ Cardinality(Undismissed) <= 1

NdbCounted == numNdb = Cardinality(running \cap opt.ndb_test)

Alone == Plain /\ main = "serving" => Dismissals /\ Lonely /\ NdbCounted

LEMMA LookAnswer ==
    ASSUME IInv, Plain, \A v \in Workers : Turn(v), NEW w \in Workers,
           NEW R, NEW n, NEW results, NEW K, NEW D, NEW m, Look(w, R, n, results, K, D, m)
    PROVE  /\ w \in Undismissed
           /\ D = {} \/ \E t : D = {t}
           /\ D = {} => Dismissed(w)'
  <1>1. Search(w, R, running \ R, HasResult \cup R, n, results, K, D, m) /\ Exchange(w)
    BY DEF Look
  <1>2. m \in DownMsg /\ m.type \in {"TESTCASE", "BYE"} /\ D = Borne(m) /\ Answer(w, m)
    BY <1>1 DEF Search, Hands
  <1>3. toMaster[w] # <<>> /\ toWorker[w] = <<>>
    BY <1>1, ExchangeShape DEF IInv, Exchange
  <1>4. w \in Undismissed
    BY <1>3, OneWork DEF IInv
  <1>5. D = {} \/ \E t : D = {t}
    BY <1>2 DEF Borne
  <1>6. ASSUME D = {} PROVE Dismissed(w)'
    <2>1. m.type = "BYE"
      BY <1>2, <1>6 DEF Borne
    <2>2. toWorker' = [toWorker EXCEPT ![w] = Append(toWorker[w], m)]
      BY <1>2 DEF Answer
    <2>3. toWorker'[w] = <<m>>
      BY <1>3, <2>2, AppendEmpty DEF IInv, Typed
    <2>4. toWorker'[w] # <<>> /\ Head(toWorker'[w]).type = "BYE"
      BY <2>1, <2>3, AppendEmpty
    <2> QED  BY <2>4 DEF Dismissed
  <1> QED  BY <1>4, <1>5, <1>6

LEMMA TwoMembers ==
    ASSUME NEW S, IsFiniteSet(S), Cardinality(S) <= 1, NEW x \in S, NEW y \in S
    PROVE  x = y
  <1>1. IsFiniteSet(S \ {x}) /\ Cardinality(S \ {x}) = Cardinality(S) - 1
    BY FS_RemoveElement
  <1>2. Cardinality(S \ {x}) \in Nat /\ Cardinality(S) \in Nat
    BY <1>1, FS_CardinalityType
  <1>3. Cardinality(S \ {x}) = 0
    BY <1>1, <1>2
  <1>4. S \ {x} = {}
    BY <1>1, <1>3, FS_EmptySet
  <1> QED  BY <1>4

\* What the master knows of the tests that stay out.
LEMMA LookKnows ==
    ASSUME IInv, Plain, \A v \in Workers : Turn(v), Alone, NEW w \in Workers,
           NEW R, NEW n, NEW results, NEW K, NEW D, NEW m, Look(w, R, n, results, K, D, m)
    PROVE  /\ running = Out /\ running \cap HasResult = {}
           /\ Cardinality(Undismissed) <= 1 => Out \ R = {}
           /\ (Out \ R) \cap opt.not_parallel = {}
           /\ D \cap opt.not_parallel # {} => /\ Counted = opt.parallel /\ completedWid' = opt.parallel
                                              /\ Cardinality(Undismissed) <= 1
           /\ n = Cardinality((Out \ R) \cap opt.ndb_test)
           /\ Cardinality(Out \ R) < opt.parallel
  <1>0. Typed /\ Accounted /\ OneCopy /\ opt \in Options
    BY DEF IInv, Typed
  <1>1. /\ Search(w, R, running \ R, HasResult \cup R, n, results, K, D, m)
        /\ Exchange(w) /\ R = Borne(Head(toMaster[w])) /\ R \subseteq Out
        /\ R = {} \/ \E t : R = {t}
        /\ n = IF R \cap opt.ndb_test # {} THEN numNdb - 1 ELSE numNdb
    BY DEF Look
  <1>2. main = "serving" /\ toMaster[w] # <<>> /\ Ordered(n, D)
    BY <1>1 DEF Search, Hands, Exchange
  <1>3. Dismissals /\ Lonely /\ NdbCounted
    BY <1>2 DEF Alone
  <1>4. running \cap HasResult = {} /\ running = Out
    BY <1>0, <1>2 DEF Accounted, Undoubled, Plain, Out
  <1>5. w \in Undismissed
    BY LookAnswer
  <1>6. IsFiniteSet(Undismissed) /\ Cardinality(Undismissed) \in Nat /\ Cardinality(Undismissed) # 0
    <2>1. IsFiniteSet(Undismissed) /\ Cardinality(Undismissed) \in Nat
      BY <1>0, UndismissedFinite, FS_CardinalityType
    <2> QED  BY <1>5, <2>1, FS_EmptySet
  <1>7. \A t \in Out \ R : \E v \in Workers \ {w} : t \in Work(v) /\ v \in Undismissed
    BY <1>1, <1>2, OthersAtWork
  <1>8. ASSUME Cardinality(Undismissed) <= 1 PROVE Out \ R = {}
    <2> SUFFICES ASSUME NEW t \in Out \ R PROVE FALSE
      OBVIOUS
    <2>1. PICK v \in Workers \ {w} : v \in Undismissed
      BY <1>7
    <2> QED  BY <1>5, <1>6, <1>8, <2>1, TwoMembers
  <1>9. (Out \ R) \cap opt.not_parallel = {}
    <2> SUFFICES ASSUME NEW t \in Out \ R, t \in opt.not_parallel PROVE FALSE
      OBVIOUS
    <2>1. Cardinality(Undismissed) <= 1
      BY <1>3, <1>4 DEF Lonely
    <2> QED  BY <1>8, <2>1
  <1>10. ASSUME D \cap opt.not_parallel # {}
         PROVE  /\ Counted = opt.parallel /\ completedWid' = opt.parallel
                /\ Cardinality(Undismissed) <= 1
    <2>1. Counted = opt.parallel /\ completedWid' = Counted
      BY <1>2, <1>10 DEF Ordered
    <2>2. completedWid \in Nat /\ opt.parallel \in Nat /\ completedWid <= opt.parallel
      BY <1>0, OptionsTyped, SMTT(60) DEF Typed
    <2>3. PICK u \in Nat : u = Cardinality(Undismissed)
      BY <1>6
    <2>4. completedWid + u <= opt.parallel \/ u <= 1
      BY <1>3, <2>3 DEF Dismissals
    <2>5. u # 0
      BY <1>6, <2>3
    <2>6. u <= 1
      BY <2>1, <2>2, <2>4, <2>5 DEF Counted
    <2> QED  BY <2>1, <2>3, <2>6
  <1>11. IsFiniteSet(Out) /\ Out \subseteq Tests
    <2>1. IsFiniteSet(Tests) /\ Out \subseteq Tests
      BY <1>0, TestsFinite DEF Typed, Out
    <2> QED  BY <2>1, FS_Subset
  <1>12. n = Cardinality((Out \ R) \cap opt.ndb_test)
    <2> DEFINE N == Out \cap opt.ndb_test
    <2>1. IsFiniteSet(N) /\ numNdb = Cardinality(N) /\ (Out \ R) \cap opt.ndb_test = N \ R
      BY <1>3, <1>4, <1>11, FS_Subset DEF NdbCounted
    <2>2. CASE R \cap opt.ndb_test = {}
      <3>1. N \ R = N
        BY <2>2
      <3> QED  BY <1>1, <2>1, <2>2, <3>1
    <2>3. CASE R \cap opt.ndb_test # {}
      <3>1. PICK t : R = {t}
        BY <1>1, <2>3
      <3>2. t \in N
        BY <1>1, <2>3, <3>1
      <3>3. Cardinality(N \ {t}) = Cardinality(N) - 1
        BY <2>1, <3>2, FS_RemoveElement
      <3> QED  BY <1>1, <2>1, <2>3, <3>1, <3>3
    <2> QED  BY <2>2, <2>3
  <1>13. Cardinality(Out \ R) < opt.parallel
    <2> DEFINE at(t) == CHOOSE v \in Workers \ {w} : t \in Work(v) /\ v \in Undismissed
               f == [t \in Out \ R |-> at(t)]
    <2>1. \A t \in Out \ R : at(t) \in Workers /\ at(t) \in Undismissed \ {w} /\ t \in Work(at(t))
      BY <1>7
    <2>2. f \in [Out \ R -> Undismissed \ {w}] /\ \A t \in Out \ R : t \in Work(f[t]) /\ f[t] \in Workers
      BY <2>1
    <2> HIDE DEF f
    <2>3. \A t, u \in Out \ R : f[t] = f[u] => t = u
      BY <1>0, <2>2, OneWork
    <2>4. f \in Injection(Out \ R, Undismissed \ {w})
      BY <2>2, <2>3 DEF Injection, IsInjective
    <2>5. IsFiniteSet(Undismissed \ {w}) /\ Cardinality(Undismissed \ {w}) = Cardinality(Undismissed) - 1
      BY <1>5, <1>6, FS_RemoveElement
    <2>6. IsFiniteSet(Out \ R) /\ Cardinality(Out \ R) <= Cardinality(Undismissed \ {w})
      BY <2>4, <2>5, FS_Injection
    <2>7. Cardinality(Undismissed) \in 0..opt.parallel /\ opt.parallel \in Nat
      BY <1>0, UndismissedFinite, OptionsTyped
    <2>8. Cardinality(Out \ R) \in Nat
      BY <2>6, FS_CardinalityType
    <2> QED  BY <2>5, <2>6, <2>7, <2>8
  <1> QED  BY <1>4, <1>8, <1>9, <1>10, <1>12, <1>13

LEMMA UndismissedShrinks ==
    ASSUME IInv, Plain, \A v \in Workers : Turn(v), [Next]_vars, opt' = opt
    PROVE  /\ Undismissed' \subseteq Undismissed
           /\ Cardinality(Undismissed') <= Cardinality(Undismissed)
           /\ Cardinality(Undismissed') \in Nat /\ Cardinality(Undismissed) \in Nat
           /\ \A w \in Undismissed : Dismissed(w)' =>
                 Cardinality(Undismissed') <= Cardinality(Undismissed) - 1
  <1>0. opt \in Options
    BY DEF IInv, Typed
  <1>1. 1..opt.parallel \subseteq Workers
    BY <1>0 DEF Workers
  <1>2. \A v \in 1..opt.parallel : Dismissed(v) => Dismissed(v)'
    BY <1>1, DismissedStays
  <1>3. Undismissed' = {v \in 1..opt.parallel : ~Dismissed(v)'}
    BY DEF Undismissed
  <1>4. Undismissed' \subseteq Undismissed
    BY <1>2, <1>3 DEF Undismissed
  <1>5. IsFiniteSet(Undismissed) /\ Cardinality(Undismissed) \in Nat
    BY <1>0, UndismissedFinite, FS_CardinalityType
  <1>6. /\ IsFiniteSet(Undismissed') /\ Cardinality(Undismissed') <= Cardinality(Undismissed)
        /\ Cardinality(Undismissed') \in Nat
    BY <1>4, <1>5, FS_Subset, FS_CardinalityType
  <1>7. ASSUME NEW w \in Undismissed, Dismissed(w)'
        PROVE  Cardinality(Undismissed') <= Cardinality(Undismissed) - 1
    <2>1. Undismissed' \subseteq Undismissed \ {w}
      BY <1>3, <1>4, <1>7
    <2>2. IsFiniteSet(Undismissed \ {w}) /\ Cardinality(Undismissed \ {w}) = Cardinality(Undismissed) - 1
      BY <1>5, FS_RemoveElement
    <2> QED  BY <2>1, <2>2, FS_Subset
  <1> QED  BY <1>4, <1>5, <1>6, <1>7

LEMMA LookAlone ==
    ASSUME IInv, Plain, \A v \in Workers : Turn(v), Alone, [Next]_vars, NEW w \in Workers,
           NEW R, NEW n, NEW results, NEW K, NEW D, NEW m, Look(w, R, n, results, K, D, m)
    PROVE  (Dismissals /\ Lonely /\ NdbCounted)'
  <1>1. /\ Search(w, R, running \ R, HasResult \cup R, n, results, K, D, m)
        /\ R \subseteq Out
    BY DEF Look
  <1>2. /\ opt' = opt /\ main = "serving" /\ n \in Int /\ Ordered(n, D)
        /\ running' = (running \ R) \cup D /\ D \subseteq (Listed \cup SetAside) \ K
        /\ numNdb' = IF D \cap opt.ndb_test # {} THEN n + 1 ELSE n
    BY <1>1 DEF Search, Hands
  <1>3. Dismissals /\ Lonely /\ NdbCounted
    BY <1>2 DEF Alone
  <1>4. /\ running = Out /\ (Cardinality(Undismissed) <= 1 => Out \ R = {})
        /\ (Out \ R) \cap opt.not_parallel = {}
        /\ (D \cap opt.not_parallel # {} => /\ Counted = opt.parallel /\ completedWid' = opt.parallel
                                            /\ Cardinality(Undismissed) <= 1)
        /\ n = Cardinality((Out \ R) \cap opt.ndb_test)
    BY LookKnows
  <1>5. w \in Undismissed /\ (D = {} \/ \E t : D = {t}) /\ (D = {} => Dismissed(w)')
    BY LookAnswer
  <1>6. PICK u, v \in Nat : u = Cardinality(Undismissed) /\ v = Cardinality(Undismissed')
    BY <1>2, UndismissedShrinks
  <1>7. v <= u /\ (D = {} => v <= u - 1)
    BY <1>2, <1>5, <1>6, UndismissedShrinks
  <1>8. PICK c, d, p \in Nat : c = completedWid /\ d = completedWid' /\ p = opt.parallel /\ c <= p
    <2>1. completedWid \in 0..opt.parallel /\ opt.parallel \in Nat
      BY OptionsTyped DEF IInv, Typed
    <2>2. Counted \in Nat
      BY <2>1 DEF Counted
    <2>3. completedWid' \in Nat
      BY <1>2, <2>1, <2>2 DEF Ordered
    <2>4. completedWid \in Nat /\ completedWid <= opt.parallel
      BY <2>1
    <2> QED  BY <2>1, <2>3, <2>4
  <1>9. c + u <= p \/ (c = p /\ u <= 1)
    BY <1>3, <1>6, <1>8 DEF Dismissals
  <1>10. d + v <= p \/ (d = p /\ v <= 1)
    <2>1. CASE D = {}
      <3>1. d = IF c < p THEN c + 1 ELSE c
        BY <1>2, <1>8, <2>1 DEF Ordered, Counted
      <3> QED  BY <1>7, <1>8, <1>9, <2>1, <3>1
    <2>2. CASE D \cap opt.not_parallel # {}
      BY <1>4, <1>6, <1>7, <1>8, <2>2
    <2>3. CASE D # {} /\ D \cap opt.not_parallel = {}
      <3>1. d = c
        BY <1>2, <1>8, <2>3 DEF Ordered
      <3> QED  BY <1>7, <1>8, <1>9, <3>1
    <2> QED  BY <2>1, <2>2, <2>3
  <1>11. Dismissals'
    BY <1>2, <1>6, <1>8, <1>10 DEF Dismissals
  <1>12. Lonely'
    <2> SUFFICES ASSUME NEW t \in running', t \in opt.not_parallel
                 PROVE  running' = {t} /\ v <= 1
      BY <1>2, <1>6 DEF Lonely
    <2>1. t \in D
      BY <1>2, <1>4
    <2>2. D = {t} /\ u <= 1
      BY <1>4, <1>5, <1>6, <2>1
    <2>3. running' = {t}
      BY <1>2, <1>4, <1>6, <2>2
    <2>4. v <= 1
      BY <1>7, <2>2
    <2> QED  BY <2>3, <2>4
  <1>13. NdbCounted'
    <2> DEFINE N == (Out \ R) \cap opt.ndb_test
    <2>1. IsFiniteSet(N)
      <3>1. IsFiniteSet(Tests) /\ N \subseteq Tests
        BY TestsFinite DEF IInv, Typed, Out
      <3> QED  BY <3>1, FS_Subset
    <2>2. CASE D \cap opt.ndb_test = {}
      <3>1. running' \cap opt.ndb_test = N /\ numNdb' = n
        BY <1>2, <1>4, <2>2
      <3> QED  BY <1>2, <1>4, <3>1 DEF NdbCounted
    <2>3. CASE D \cap opt.ndb_test # {}
      <3>1. PICK t : D = {t}
        BY <1>5, <2>3
      <3>2. t \notin N
        BY <1>2, <1>4, <3>1 DEF IInv, Accounted
      <3>3. running' \cap opt.ndb_test = N \cup {t} /\ numNdb' = n + 1
        BY <1>2, <1>4, <2>3, <3>1
      <3>4. Cardinality(N \cup {t}) = Cardinality(N) + 1
        BY <2>1, <3>2, FS_AddElement
      <3> QED  BY <1>2, <1>4, <3>3, <3>4 DEF NdbCounted
    <2> QED  BY <2>2, <2>3
  <1> QED  BY <1>11, <1>12, <1>13

\* Without valgrind a failure that is not gone on from ends the loop.
LEMMA StopEnds ==
    ASSUME IInv, Plain, NEW w \in Workers, FailWithoutForce(w) \/ TooManyFailed(w)
    PROVE  main' # "serving"
  <1>1. Reads(w, "TESTRESULT")
    BY DEF FailWithoutForce, TooManyFailed
  <1>2. Result(w) \in Carried
    BY <1>1, ReadTyped DEF IInv
  <1>3. ~Result(w).warned
    BY <1>2 DEF Carried, Plain
  <1> QED  BY <1>3 DEF FailWithoutForce, TooManyFailed

LEMMA AloneStep ==
    ASSUME IInv, TurnInv, Alone, [Next]_vars
    PROVE  Alone'
  <1> SUFFICES ASSUME Plain', main' = "serving"
               PROVE  (Dismissals /\ Lonely /\ NdbCounted)'
    BY DEF Alone
  <1>1. CASE ~\E w \in Workers : Notes(w) \/ FinishTest(w) \/ FailWithoutForce(w) \/ TooManyFailed(w)
    <2>1. /\ UNCHANGED <<opt, running, numNdb, completedWid>> /\ main = "serving"
      BY <1>1, OtherSteps
    <2>2. Plain /\ \A v \in Workers : Turn(v)
      BY <2>1 DEF Plain, TurnInv, Turns
    <2>3. Dismissals /\ Lonely /\ NdbCounted
      BY <2>1, <2>2 DEF Alone
    <2>4. PICK u, v \in Nat : u = Cardinality(Undismissed) /\ v = Cardinality(Undismissed')
      BY <2>1, <2>2, UndismissedShrinks
    <2>5. v <= u
      BY <2>1, <2>2, <2>4, UndismissedShrinks
    <2>6. completedWid \in Nat /\ opt.parallel \in Nat
      BY OptionsTyped DEF IInv, Typed
    <2>7. Dismissals'
      BY <2>1, <2>3, <2>4, <2>5, <2>6 DEF Dismissals
    <2>8. Lonely'
      BY <2>1, <2>3, <2>4, <2>5 DEF Lonely
    <2>9. NdbCounted'
      BY <2>1, <2>3 DEF NdbCounted
    <2> QED  BY <2>7, <2>8, <2>9
  <1>2. ASSUME NEW w \in Workers, FailWithoutForce(w) \/ TooManyFailed(w)
        PROVE  FALSE
    <2>1. opt' = opt
      BY <1>2 DEF FailWithoutForce, TooManyFailed
    <2> QED  BY <1>2, <2>1, StopEnds DEF Plain
  <1>3. ASSUME NEW w \in Workers, Notes(w) \/ FinishTest(w)
        PROVE  (Dismissals /\ Lonely /\ NdbCounted)'
    <2>1. opt' = opt
      BY <1>3 DEF Notes, FinishTest, GoesOn
    <2>2. Plain /\ \A v \in Workers : Turn(v)
      BY <2>1 DEF Plain, TurnInv, Turns
    <2>3. PICK R, n, results, K, D, m : Look(w, R, n, results, K, D, m)
      BY <1>3, Looks
    <2> QED  BY <2>2, <2>3, LookAlone
  <1> QED  BY <1>1, <1>2, <1>3

LEMMA AloneInit == ASSUME Init PROVE Alone
  <1>1. opt \in Options /\ running = {} /\ completedWid = 0 /\ numNdb = 0
    BY DEF Init
  <1>2. Cardinality(Undismissed) \in 0..opt.parallel /\ opt.parallel \in Nat
    BY <1>1, UndismissedFinite, OptionsTyped
  <1>3. Dismissals
    BY <1>1, <1>2 DEF Dismissals
  <1>4. Lonely
    BY <1>1 DEF Lonely
  <1>5. NdbCounted
    <2>1. running \cap opt.ndb_test = {}
      BY <1>1
    <2> QED  BY <1>1, <2>1, FS_EmptySet DEF NdbCounted
  <1> QED  BY <1>3, <1>4, <1>5 DEF Alone

(* As long as a dismissed worker has nothing more to tell, the master      *)
(* counts no worker as dismissed before it is, the last one excepted, and  *)
(* the running ndb tests exactly ($completed_wid_count and $num_ndb_tests  *)
(* of run_test_server, lines 1009-1014 and 1065-1135).                     *)
THEOREM CountedRightAlways == Spec => []Alone
  <1>1. Init => Alone
    BY AloneInit
  <1>2. IInv /\ TurnInv /\ Alone /\ [Next]_vars => Alone'
    BY AloneStep
  <1> QED  BY <1>1, <1>2, Invariance, TurnsAlways, PTL DEF Spec

(* A test that sources not_parallel.inc never runs while any other test is *)
(* running: the last active worker runs such tests, one after the other,   *)
(* as long as workers report neither times nor valgrind's findings after   *)
(* their dismissal (lines 1117-1135).                                      *)
THEOREM NonParallelAloneAlways == Spec => [](Plain => NonParallelAlone)
  <1>1. Alone => (Plain => NonParallelAlone)
    BY DEF Alone, Lonely, NonParallelAlone
  <1> QED  BY <1>1, CountedRightAlways, PTL

-----------------------------------------------------------------------------
(* The master is an MtrSuite.                                              *)

LEMMA SameCardinality == \A S : Suite!Cardinality(S) = Cardinality(S)
  BY DEF Cardinality, Suite!Cardinality

LEMMA LookRound ==
    ASSUME IInv, IInv', Plain, \A v \in Workers : Turn(v), Alone, NEW w \in Workers,
           NEW R, NEW n, NEW results, NEW K, NEW D, NEW m, Look(w, R, n, results, K, D, m)
    PROVE  Suite!Round
  <1>0. Accounted /\ ListsGood' /\ Accounted' /\ Typed
    BY DEF IInv, Accounted
  <1>1. /\ Search(w, R, running \ R, HasResult \cup R, n, results, K, D, m)
        /\ R \subseteq Out /\ (R = {} \/ \E t : R = {t})
    BY DEF Look
  <1>2. /\ opt' = opt /\ main = "serving" /\ n \in Int /\ Ordered(n, D)
        /\ Settles(running \ R, HasResult \cup R, results)
        /\ running' = (running \ R) \cup D /\ D \subseteq (Listed \cup SetAside) \ K
        /\ K \subseteq Listed \cap opt.skip
        /\ Listed' \cup SetAside' = (Listed \cup SetAside) \ (K \cup D)
    BY <1>1 DEF Search, Hands
  <1>3. /\ running = Out /\ running \cap HasResult = {}
        /\ (Cardinality(Undismissed) <= 1 => Out \ R = {})
        /\ (Out \ R) \cap opt.not_parallel = {}
        /\ (D \cap opt.not_parallel # {} => Cardinality(Undismissed) <= 1)
        /\ n = Cardinality((Out \ R) \cap opt.ndb_test)
        /\ Cardinality(Out \ R) < opt.parallel
    BY LookKnows
  <1>4. D = {} \/ \E t : D = {t}
    BY LookAnswer
  <1>5. HasResult' = (HasResult \cup R) \cup K
    <2>1. Tests' = Tests
      BY <1>2, SameOptions
    <2>2. \A t \in Tests : t \in HasResult \cup R <=> results[t] # <<>>
      BY <1>2 DEF Settles
    <2>3. ASSUME NEW t \in Tests PROVE completed'[t] # <<>> <=> t \in HasResult \cup R \cup K
      <3>1. CASE t \in K
        <4>1. completed'[t] = <<Skip(t)>>
          BY <1>1, <3>1, SearchResults
        <4> QED  BY <3>1, <4>1, AppendEmpty
      <3>2. CASE t \notin K
        <4>1. completed'[t] = results[t]
          BY <1>1, <3>2, SearchResults
        <4> QED  BY <2>2, <3>2, <4>1
      <3> QED  BY <3>1, <3>2
    <2>4. HasResult \cup R \cup K \subseteq Tests
      BY <1>0, <1>1, <1>2 DEF HasResult, Out, Accounted
    <2>5. HasResult' = {t \in Tests : completed'[t] # <<>>}
      BY <2>1 DEF HasResult
    <2> QED  BY <2>3, <2>4, <2>5
  <1>6. Out' = (Out \ R) \cup D
    <2>1. D \cap (running \cup HasResult) = {} /\ K \cap (running \cup HasResult) = {} /\ D \cap K = {}
      BY <1>0, <1>2 DEF Accounted
    <2> QED  BY <1>1, <1>2, <1>3, <1>5, <2>1 DEF Out
  <1>7. Tests \ (Out \cup HasResult) = Listed \cup SetAside
    BY <1>0, <1>3 DEF Accounted
  <1>8. K \in SUBSET ((Tests \ (Out \cup HasResult)) \cap opt.skip)
    BY <1>2, <1>7
  <1>9. R \in {{}} \cup {{t} : t \in Out}
    BY <1>1
  <1>10. ASSUME NEW d, D = {d}
         PROVE  Suite!MayRun(d, Out \ R, HasResult')
    <2>1. CASE d \in opt.not_parallel
      <3>1. Out \ R = {}
        BY <1>3, <1>10, <2>1
      <3>2. (Out \ R) \cap opt.ndb_test = {}
        BY <3>1
      <3>3. n = 0 /\ opt.max_ndb \in Nat \ {0}
        BY <1>0, <1>3, <3>2, FS_EmptySet, OptionsTyped DEF Typed
      <3>4. Listed' = {}
        BY <1>2, <1>10, <2>1, <3>3 DEF Ordered
      <3>5. SetAside' \subseteq opt.not_parallel
        BY <1>0, <1>2 DEF ListsGood
      <3>6. Tests \ HasResult' \subseteq opt.not_parallel
        BY <1>2, <1>5, <1>7, <1>10, <2>1, <3>1, <3>4, <3>5
      <3> QED  BY <2>1, <3>1, <3>6 DEF Suite!MayRun, Suite!Tests, Tests
    <2>2. CASE d \notin opt.not_parallel
      <3>1. d \in opt.ndb_test => n < opt.max_ndb
        BY <1>2, <1>10, <2>2 DEF Ordered
      <3> QED  BY <1>3, <2>2, <3>1, SameCardinality DEF Suite!MayRun
    <2> QED  BY <2>1, <2>2
  <1>11. \/ Out' = Out \ R
         \/ \E t \in (Tests \ (Out \cup HasResult)) \ K :
              /\ Suite!MayRun(t, Out \ R, HasResult')
              /\ Out' = (Out \ R) \cup {t}
    <2>1. CASE D = {}
      BY <1>6, <2>1
    <2>2. CASE \E t : D = {t}
      BY <1>2, <1>6, <1>7, <1>10, <2>2
    <2> QED  BY <1>4, <2>1, <2>2
  <1> QED  BY <1>2, <1>5, <1>8, <1>9, <1>11
           DEF Suite!Round, Suite!Waiting, Suite!Tests, Tests, Out

\* A failure that ends the suite takes its test back.
LEMMA StopRound ==
    ASSUME IInv, Plain, NEW w \in Workers, FailWithoutForce(w) \/ TooManyFailed(w)
    PROVE  Suite!Round
  <1>0. Accounted /\ Typed
    BY DEF IInv
  <1>1. Reads(w, "TESTRESULT") /\ opt' = opt /\ running' = running
    BY DEF FailWithoutForce, TooManyFailed
  <1>2. PICK r : r = Result(w)
    OBVIOUS
  <1>3. /\ completed' = [completed EXCEPT ![r.id] = Append(@, r)] /\ main = "serving"
    BY <1>1, <1>2 DEF FailWithoutForce, TooManyFailed, Reads
  <1>4. /\ r.id \in Out /\ r.id \in Tests
        /\ \A t \in Tests : completed'[t] # <<>> <=> t \in HasResult \cup {r.id}
    BY <1>1, <1>2, <1>3, ResultKnown
  <1>5. Tests' = Tests
    BY <1>1, SameOptions
  <1>6. HasResult' = HasResult \cup {r.id}
    <2>1. HasResult' = {t \in Tests : completed'[t] # <<>>}
      BY <1>5 DEF HasResult
    <2> QED  BY <1>4, <2>1 DEF HasResult
  <1>7. Out' = Out \ {r.id} /\ {r.id} \in {{}} \cup {{t} : t \in Out}
    BY <1>1, <1>4, <1>6 DEF Out
  <1>8. {} \in SUBSET ((Tests \ (Out \cup HasResult)) \cap opt.skip)
    OBVIOUS
  <1>9. HasResult' = (HasResult \cup {r.id}) \cup {}
    BY <1>6
  <1> QED  BY <1>1, <1>3, <1>7, <1>8, <1>9 DEF Suite!Round, Suite!Waiting, Suite!Tests, Tests, Out

LEMMA RoundOrNothing ==
    ASSUME IInv, IInv', TurnInv, Alone, Plain, [Next]_vars
    PROVE  [Suite!Round]_(Suite!vars)
  <1>0. \A v \in Workers : Turn(v)
    BY DEF TurnInv, Turns
  <1>1. CASE ~\E w \in Workers : Notes(w) \/ FinishTest(w) \/ FailWithoutForce(w) \/ TooManyFailed(w)
    <2>1. UNCHANGED <<opt, running, completed>> /\ (main' = "serving" => main = "serving")
      BY <1>1, OtherSteps
    <2>2. HasResult' = HasResult /\ Out' = Out
      BY <2>1, SameOptions DEF HasResult, Out
    <2>3. CASE main = "serving"
      <3>1. /\ {} \in {{}} \cup {{t} : t \in Out}
            /\ {} \in SUBSET ((Tests \ (Out \cup HasResult)) \cap opt.skip)
            /\ HasResult' = (HasResult \cup {}) \cup {} /\ Out' = Out \ {}
        BY <2>2
      <3>2. Suite!Round
        BY <2>1, <2>3, <3>1 DEF Suite!Round, Suite!Waiting, Suite!Tests, Tests, Out
      <3> QED  BY <3>2
    <2>4. CASE main # "serving"
      BY <2>1, <2>2, <2>4 DEF Suite!vars, Out
    <2> QED  BY <2>3, <2>4
  <1>2. ASSUME NEW w \in Workers, FailWithoutForce(w) \/ TooManyFailed(w)
        PROVE  Suite!Round
    BY <1>2, StopRound
  <1>3. ASSUME NEW w \in Workers, Notes(w) \/ FinishTest(w)
        PROVE  Suite!Round
    <2>1. PICK R, n, results, K, D, m : Look(w, R, n, results, K, D, m)
      BY <1>3, Looks
    <2> QED  BY <1>0, <2>1, LookRound
  <1> QED  BY <1>1, <1>2, <1>3

(* Every test is given out once and taken back at most once, a skipped     *)
(* test has its result at once, and the limits on ndb and non-parallel     *)
(* tests are kept: the master is an MtrSuite, for every suite that is run  *)
(* without valgrind and --report-times (run_test_server, lines 1022-1140). *)
THEOREM ImplementsSuiteAlways == Spec /\ Plain => ImplementsSuite
  <1>1. Init => Suite!Init
    <2> SUFFICES ASSUME Init PROVE Suite!Init
      OBVIOUS
    <2>1. running = {} /\ main = "serving" /\ \A t \in Tests : completed[t] = <<>>
      BY DEF Init
    <2>2. HasResult = {}
      BY <2>1 DEF HasResult
    <2> QED  BY <2>1, <2>2 DEF Suite!Init
  <1>2. Plain /\ [Next]_vars => Plain'
    <2> SUFFICES ASSUME Plain, [Next]_vars PROVE opt' = opt
      BY DEF Plain
    <2> QED  BY DEF Next, MasterReads, WorkerSteps, Accept, Closed, Notes, FailWithoutForce,
                    TooManyFailed, RetryTest, RepeatTest, FinishTest, GoesOn, Connect, Greet,
                    TakeTest, RunTest, TakeBye, Interrupted, Orphaned, Error, SuiteExpires, Reap,
                    Ended, vars
  <1>3. IInv /\ IInv' /\ TurnInv /\ Alone /\ Plain /\ [Next]_vars => [Suite!Round]_(Suite!vars)
    BY RoundOrNothing
  <1> QED  BY <1>1, <1>2, <1>3, Invariance, TurnsAlways, CountedRightAlways, PTL
           DEF Spec, ImplementsSuite, Suite!Spec

-----------------------------------------------------------------------------
(* Retries and failures.                                                   *)

Ends3 == {"passed", "failed", "skipped"}

LEMMA FailsCount ==
    ASSUME NEW o \in Seq(Ends3)
    PROVE  /\ Fails(o) \in Nat
           /\ \A e \in Ends3 : Fails(Append(o, e)) = IF e = "failed" THEN Fails(o) + 1 ELSE Fails(o)
           /\ Len(o) = 1 => Fails(o) = IF o[1] = "failed" THEN 1 ELSE 0
  <1> DEFINE F == {i \in DOMAIN o : o[i] = "failed"}
  <1>1. IsFiniteSet(F) /\ Cardinality(F) \in Nat
    <2>1. IsFiniteSet(1..Len(o))
      <3>1. 1 \in Int /\ Len(o) \in Int
        OBVIOUS
      <3> QED  BY <3>1, FS_Interval
    <2>2. F \in SUBSET (1..Len(o))
      OBVIOUS
    <2> QED  BY <2>1, <2>2, FS_Subset, FS_CardinalityType
  <1>2. ASSUME NEW e \in Ends3
        PROVE  Fails(Append(o, e)) = IF e = "failed" THEN Fails(o) + 1 ELSE Fails(o)
    <2> DEFINE a == Append(o, e)
               n == Len(o) + 1
               G == {i \in DOMAIN a : a[i] = "failed"}
    <2>1. DOMAIN a = (DOMAIN o) \cup {n} /\ n \notin DOMAIN o /\ a[n] = e /\ \A i \in DOMAIN o : a[i] = o[i]
      OBVIOUS
    <2> HIDE DEF a, n
    <2>2. CASE e = "failed"
      <3>1. G = F \cup {n} /\ n \notin F
        BY <2>1, <2>2
      <3> HIDE DEF F, G
      <3>2. Cardinality(G) = Cardinality(F) + 1
        BY <1>1, <3>1, FS_AddElement
      <3> QED  BY <2>2, <3>2 DEF Fails, F, G, a
    <2>3. CASE e # "failed"
      <3>1. G = F
        BY <2>1, <2>3
      <3> HIDE DEF F, G
      <3> QED  BY <2>3, <3>1 DEF Fails, F, G, a
    <2> QED  BY <2>2, <2>3
  <1>3. ASSUME Len(o) = 1 PROVE Fails(o) = IF o[1] = "failed" THEN 1 ELSE 0
    <2>1. F = IF o[1] = "failed" THEN {1} ELSE {}
      BY <1>3
    <2> QED  BY <2>1, FS_Singleton, FS_EmptySet DEF Fails
  <1> QED  BY <1>1, <1>2, <1>3 DEF Fails

LEMMA NoFails == Fails(<<>>) = 0
  <1>1. {i \in DOMAIN <<>> : <<>>[i] = "failed"} = {}
    OBVIOUS
  <1> QED  BY <1>1, FS_EmptySet DEF Fails

LEMMA Prefixes ==
    ASSUME NEW o \in Seq(Ends3)
    PROVE  /\ SubSeq(o, 1, Len(o)) = o
           /\ \A e \in Ends3 : \A k \in 1..Len(o) : SubSeq(Append(o, e), 1, k) = SubSeq(o, 1, k)
           /\ \A e \in Ends3 : /\ Append(o, e) \in Seq(Ends3) /\ Append(o, e) # <<>>
                               /\ Len(Append(o, e)) = Len(o) + 1
                               /\ Append(o, e)[Len(o) + 1] = e
           /\ Len(o) \in Nat /\ (o = <<>> <=> Len(o) = 0)
  OBVIOUS

\* Settled, for the options c; no prefix of the first n outcomes is.
Enough(c, o) == \/ Fails(o) = 0 \/ Len(o) >= c.retry \/ Fails(o) >= c.retry_failure
Unsettled(c, o, n) == \A k \in 1..n : ~Enough(c, SubSeq(o, 1, k))

\* A test whose next run is to come, and one that has run, as the counters
\* that travel with it say.
Before(c, r, o) ==
    /\ r.failures = Fails(o)
    /\ r.retries = IF o = <<>> THEN 0 ELSE Len(o) + 2
    /\ Unsettled(c, o, Len(o))
After(c, r, o) ==
    /\ o # <<>> /\ r.result = o[Len(o)]
    /\ r.failures = Fails(o)
    /\ r.retries = IF Len(o) = 1 THEN 0 ELSE Len(o) + 1
    /\ Unsettled(c, o, Len(o) - 1)

LEMMA BeforeAll == \A c : \A r \in Untried : Before(c, r, <<>>)
  <1>1. 1..Len(<<>>) = {}
    OBVIOUS
  <1> QED  BY <1>1, NoFails DEF Before, Unsettled, Untried

LEMMA RunCounts ==
    ASSUME NEW t \in Carried, NEW c, NEW o \in Seq(Ends3), Before(c, t, o), NEW e \in Ends3, NEW u \in Ran(t, e)
    PROVE  After(c, u, Append(o, e)) /\ u.id = t.id /\ u.retries = t.retries
  <1>1. /\ u.id = t.id /\ u.retries = t.retries /\ u.result = e
        /\ u.failures = IF e = "failed" THEN t.failures + 1 ELSE t.failures
    <2>1. t \in Travelling
      BY DEF Carried
    <2>2. CASE e = "failed"
      <3>1. PICK b : u = [t EXCEPT !.result = e, !.failures = @ + 1, !.warned = @ \/ b]
        BY <2>2 DEF Ran
      <3> QED  BY <2>1, <2>2, <3>1 DEF Travelling
    <2>3. CASE e # "failed"
      <3>1. u = [t EXCEPT !.result = e]
        BY <2>3 DEF Ran
      <3> QED  BY <2>1, <2>3, <3>1 DEF Travelling
    <2> QED  BY <2>2, <2>3
  <1> DEFINE a == Append(o, e)
  <1>2. /\ a # <<>> /\ Len(a) = Len(o) + 1 /\ a[Len(o) + 1] = e /\ Len(o) \in Nat
        /\ (o = <<>> <=> Len(o) = 0)
        /\ \A k \in 1..Len(o) : SubSeq(a, 1, k) = SubSeq(o, 1, k)
    BY Prefixes
  <1>3. Fails(a) = IF e = "failed" THEN Fails(o) + 1 ELSE Fails(o)
    BY FailsCount
  <1> HIDE DEF a
  <1>4. Unsettled(c, a, Len(a) - 1)
    <2>1. Len(a) - 1 = Len(o)
      BY <1>2
    <2>2. Unsettled(c, o, Len(o))
      BY DEF Before
    <2>3. \A k \in 1..Len(o) : ~Enough(c, SubSeq(a, 1, k))
      BY <1>2, <2>2 DEF Unsettled
    <2> QED  BY <2>1, <2>3 DEF Unsettled
  <1>5. a[Len(a)] = e
    BY <1>2
  <1>6. u.retries = IF Len(a) = 1 THEN 0 ELSE Len(a) + 1
    <2>1. t.retries = IF o = <<>> THEN 0 ELSE Len(o) + 2
      BY DEF Before
    <2>2. CASE Len(o) = 0
      BY <1>1, <1>2, <2>1, <2>2
    <2>3. CASE Len(o) # 0
      BY <1>1, <1>2, <2>1, <2>3
    <2> QED  BY <2>2, <2>3
  <1>7. u.failures = Fails(a)
    BY <1>1, <1>3 DEF Before
  <1>8. After(c, u, a)
    BY <1>1, <1>2, <1>4, <1>5, <1>6, <1>7 DEF After
  <1> QED  BY <1>1, <1>8 DEF a

LEMMA RetryCounts ==
    ASSUME opt \in Options, NEW r \in Carried, NEW o \in Seq(Ends3), After(opt, r, o)
    PROVE  /\ Retries(r) => Before(opt, [r EXCEPT !.result = "none", !.retries = NextRun(r) + 1], o)
           /\ ~Retries(r) => Settled(o)
           /\ r.retries = 0 /\ r.failures > 0 => Failed(r)
  <1>1. PICK n \in Nat : n = Len(o)
    BY Prefixes
  <1>2. n # 0 /\ SubSeq(o, 1, n) = o /\ o # <<>>
    BY <1>1, Prefixes DEF After
  <1>3. PICK f \in Nat : f = Fails(o)
    BY FailsCount
  <1>4. r.failures = f /\ r.retries = IF n = 1 THEN 0 ELSE n + 1
    BY <1>1, <1>3 DEF After
  <1>5. NextRun(r) = n + 1
    BY <1>2, <1>4 DEF NextRun
  <1>6. PICK a, b \in Nat : a = opt.retry /\ b = opt.retry_failure
    BY OptionsTyped
  <1>7. Retries(r) <=> f > 0 /\ n + 1 <= a /\ ~(a > 1 /\ f >= b)
    BY <1>4, <1>5, <1>6 DEF Retries
  <1>8. Settled(o) <=> f = 0 \/ n >= a \/ f >= b
    BY <1>1, <1>3, <1>6 DEF Settled
  <1>9. ~Retries(r) => Settled(o)
    BY <1>2, <1>7, <1>8
  <1>10. ASSUME Retries(r)
         PROVE  Before(opt, [r EXCEPT !.result = "none", !.retries = NextRun(r) + 1], o)
    <2> DEFINE s == [r EXCEPT !.result = "none", !.retries = NextRun(r) + 1]
    <2>1. s.failures = f /\ s.retries = n + 2
      <3>1. r \in Travelling /\ NextRun(r) + 1 = n + 2
        BY <1>5 DEF Carried
      <3>2. s.failures = r.failures /\ s.retries = NextRun(r) + 1
        BY <3>1 DEF Travelling
      <3> QED  BY <1>4, <3>1, <3>2
    <2> HIDE DEF s
    <2>2. ~Enough(opt, o)
      BY <1>2, <1>7, <1>8, <1>10 DEF Settled, Enough
    <2>3. \A k \in 1..n : ~Enough(opt, SubSeq(o, 1, k))
      <3>1. \A k \in 1..n - 1 : ~Enough(opt, SubSeq(o, 1, k))
        BY <1>1 DEF After, Unsettled
      <3>2. \A k \in 1..n : k \in 1..n - 1 \/ k = n
        OBVIOUS
      <3> QED  BY <1>2, <2>2, <3>1, <3>2
    <2>4. Before(opt, s, o)
      BY <1>1, <1>2, <1>3, <2>1, <2>3 DEF Before, Unsettled
    <2> QED  BY <2>4 DEF s
  <1>11. ASSUME r.retries = 0, r.failures > 0 PROVE Failed(r)
    <2>1. n = 1 /\ f # 0
      BY <1>4, <1>11
    <2>2. o[1] = "failed"
      BY <1>1, <1>3, <2>1, FailsCount
    <2> QED  BY <1>1, <2>1, <2>2 DEF After, Failed
  <1> QED  BY <1>9, <1>10, <1>11

\* A worker's name, and nothing else, is written into a test it takes.
LEMMA TakeCounts ==
    ASSUME NEW t \in Carried, NEW c, NEW o, Before(c, t, o), NEW x
    PROVE  LET u == [t EXCEPT !.worker = x] IN Before(c, u, o) /\ u.id = t.id /\ u.retries = t.retries
  BY DEF Carried, Travelling, Before

LEMMA RepeatCounts ==
    ASSUME NEW c, NEW r \in Carried
    PROVE  Before(c, Anew(r), <<>>) /\ Anew(r).retries = 0 /\ Anew(r).id = r.id
  <1>1. Anew(r).failures = 0 /\ Anew(r).retries = 0 /\ Anew(r).id = r.id
    BY DEF Carried, Travelling, Anew
  <1>2. 1..Len(<<>>) = {}
    OBVIOUS
  <1> QED  BY <1>1, <1>2, NoFails DEF Before, Unsettled

(* The tests in a queue.                                                   *)

TestsOf(q) == {q[i].test : i \in Bearing(q)}
Kept(s) == {s[i] : i \in DOMAIN s}
Bears(m) == m.type \in {"TESTCASE", "TESTRESULT"}

LEMMA AppendTests ==
    ASSUME NEW M, NEW q \in Seq(M), NEW m \in M
    PROVE  TestsOf(Append(q, m)) = TestsOf(q) \cup (IF Bears(m) THEN {m.test} ELSE {})
  <1> DEFINE a == Append(q, m)
             n == Len(q) + 1
  <1>1. DOMAIN a = (DOMAIN q) \cup {n} /\ a[n] = m /\ \A i \in DOMAIN q : a[i] = q[i]
    OBVIOUS
  <1> HIDE DEF a, n
  <1>2. Bearing(a) = Bearing(q) \cup (IF Bears(m) THEN {n} ELSE {})
    <2>1. \A i \in DOMAIN a : i \in DOMAIN q \/ i = n
      BY <1>1
    <2>2. ASSUME NEW i, i \in Bearing(a) PROVE i \in Bearing(q) \cup (IF Bears(m) THEN {n} ELSE {})
      BY <1>1, <2>1, <2>2 DEF Bearing, Bears
    <2>3. Bearing(q) \subseteq Bearing(a) /\ (Bears(m) => n \in Bearing(a))
      BY <1>1 DEF Bearing, Bears
    <2> QED  BY <2>2, <2>3
  <1>3. \A i \in Bearing(q) : a[i] = q[i]
    BY <1>1 DEF Bearing
  <1>4. TestsOf(a) = TestsOf(q) \cup (IF Bears(m) THEN {m.test} ELSE {})
    BY <1>1, <1>2, <1>3 DEF TestsOf
  <1> QED  BY <1>4 DEF a

LEMMA TailTests ==
    ASSUME NEW M, NEW q \in Seq(M), q # <<>>
    PROVE  /\ TestsOf(Tail(q)) \subseteq TestsOf(q)
           /\ Bears(Head(q)) => Head(q).test \in TestsOf(q)
  <1> DEFINE a == Tail(q)
  <1>1. \A i \in DOMAIN a : i + 1 \in DOMAIN q /\ a[i] = q[i + 1]
    OBVIOUS
  <1>2. 1 \in DOMAIN q /\ q[1] = Head(q)
    OBVIOUS
  <1> HIDE DEF a
  <1>3. TestsOf(a) \subseteq TestsOf(q)
    BY <1>1 DEF TestsOf, Bearing
  <1>4. Bears(Head(q)) => 1 \in Bearing(q)
    BY <1>2 DEF Bears, Bearing
  <1> QED  BY <1>2, <1>3, <1>4 DEF a, TestsOf

LEMMA ConcatTests ==
    ASSUME NEW M, NEW q \in Seq(M), NEW r \in Seq(M), Bearing(r) = {}
    PROVE  TestsOf(q \o r) \subseteq TestsOf(q)
  <1> DEFINE a == q \o r
  <1>1. \A i \in DOMAIN a : (i \in DOMAIN q /\ a[i] = q[i]) \/ (i - Len(q) \in DOMAIN r /\ a[i] = r[i - Len(q)])
    OBVIOUS
  <1> HIDE DEF a
  <1>2. \A i \in Bearing(a) : i \in Bearing(q) /\ a[i] = q[i]
    BY <1>1 DEF Bearing
  <1> QED  BY <1>2 DEF TestsOf, a

LEMMA TestsIds == \A q : \A r \in TestsOf(q) : r.id \in IdsIn(q)
  BY DEF TestsOf, IdsIn

LEMMA KeptIds == \A s : \A r \in Kept(s) : r.id \in Ids(s)
  BY DEF Kept, Ids

\* The tests that are to be run, and those that have been.
Coming == UNION {TestsOf(toWorker[w]) \cup Kept(holds[w]) : w \in Workers}
Going == UNION {TestsOf(toMaster[w]) : w \in Workers}

\* A test that is out is one record.
Distinct ==
    /\ \A r, s \in Coming \cup Going : r.id = s.id => r = s
    /\ \A r \in Coming : \A s \in Going : r.id # s.id
    /\ \A r \in Coming \cup Going : r.id \in Out /\ r \in Carried

LEMMA TestsTyped ==
    ASSUME Typed
    PROVE  \A r \in Coming \cup Going : r \in Carried
  <1>1. ASSUME NEW w \in Workers, NEW r \in TestsOf(toWorker[w]) PROVE r \in Carried
    <2>1. PICK q \in Seq(DownMsg) : q = toWorker[w]
      BY DEF Typed
    <2>2. PICK i \in DOMAIN q : q[i].type \in {"TESTCASE", "TESTRESULT"} /\ r = q[i].test
      BY <1>1, <2>1 DEF TestsOf, Bearing
    <2>3. q[i] \in DownMsg
      OBVIOUS
    <2> QED  BY <2>2, <2>3 DEF DownMsg
  <1>2. ASSUME NEW w \in Workers, NEW r \in TestsOf(toMaster[w]) PROVE r \in Carried
    <2>1. PICK q \in Seq(UpMsg) : q = toMaster[w]
      BY DEF Typed
    <2>2. PICK i \in DOMAIN q : q[i].type \in {"TESTCASE", "TESTRESULT"} /\ r = q[i].test
      BY <1>2, <2>1 DEF TestsOf, Bearing
    <2>3. q[i] \in UpMsg
      OBVIOUS
    <2> QED  BY <2>2, <2>3 DEF UpMsg
  <1>3. ASSUME NEW w \in Workers, NEW r \in Kept(holds[w]) PROVE r \in Carried
    <2>1. PICK q \in Seq(Carried) : q = holds[w]
      BY DEF Typed
    <2>2. PICK i \in DOMAIN q : r = q[i]
      BY <1>3, <2>1 DEF Kept
    <2> QED  BY <2>2
  <1> QED  BY <1>1, <1>2, <1>3 DEF Coming, Going

\* The records with their queue.
Found(b, r) ==
    \/ b = <<b[1], "down">> /\ r \in TestsOf(toWorker[b[1]])
    \/ b = <<b[1], "up">> /\ r \in TestsOf(toMaster[b[1]])
    \/ b = <<b[1], "held">> /\ r \in Kept(holds[b[1]])

LEMMA FoundIds ==
    ASSUME NEW b \in Queues, NEW r, Found(b, r)
    PROVE  r.id \in Contents[b]
  <1>1. b[1] \in Workers
    BY QueueNames
  <1> QED  BY <1>1, QueuesOf, TestsIds, KeptIds DEF Found

LEMMA OncePlaced ==
    ASSUME OneCopy, NEW b \in Queues, NEW r, NEW s, Found(b, r), Found(b, s), r.id = s.id
    PROVE  r = s
  <1>1. PICK w \in Workers : w = b[1]
    BY QueueNames
  <1>2. OnceEach(toWorker[w]) /\ OnceEach(toMaster[w]) /\ Unique(holds[w])
    BY DEF OneCopy
  <1>3. \A q : OnceEach(q) /\ r \in TestsOf(q) /\ s \in TestsOf(q) => r = s
    BY DEF OnceEach, TestsOf
  <1>4. \A q : Unique(q) /\ r \in Kept(q) /\ s \in Kept(q) => r = s
    BY DEF Unique, Kept
  <1>5. /\ <<w, "down">> # <<w, "up">> /\ <<w, "down">> # <<w, "held">> /\ <<w, "up">> # <<w, "held">>
    BY QueueNames
  <1> QED  BY <1>1, <1>2, <1>3, <1>4, <1>5 DEF Found

LEMMA OneRecord == IInv => Distinct
  <1> SUFFICES ASSUME IInv PROVE Distinct
    OBVIOUS
  <1>0. Typed /\ OneCopy
    BY DEF IInv
  <1>1. ASSUME NEW r \in Coming
        PROVE  \E w \in Workers : Found(<<w, "down">>, r) \/ Found(<<w, "held">>, r)
    <2>1. PICK w \in Workers : r \in TestsOf(toWorker[w]) \/ r \in Kept(holds[w])
      BY <1>1 DEF Coming
    <2>2. <<w, "down">>[1] = w /\ <<w, "held">>[1] = w
      OBVIOUS
    <2>3. Found(<<w, "down">>, r) \/ Found(<<w, "held">>, r)
      BY <2>1, <2>2 DEF Found
    <2> QED  BY <2>3
  <1>2. ASSUME NEW r \in Going PROVE \E w \in Workers : Found(<<w, "up">>, r)
    <2>1. PICK w \in Workers : r \in TestsOf(toMaster[w])
      BY <1>2 DEF Going
    <2>2. <<w, "up">>[1] = w
      OBVIOUS
    <2>3. Found(<<w, "up">>, r)
      BY <2>1, <2>2 DEF Found
    <2> QED  BY <2>3
  <1>3. ASSUME NEW b1 \in Queues, NEW b2 \in Queues, NEW r, NEW s, Found(b1, r), Found(b2, s), r.id = s.id
        PROVE  b1 = b2 /\ r = s
    <2>1. r.id \in Contents[b1] /\ s.id \in Contents[b2]
      BY <1>3, FoundIds
    <2>2. b1 = b2
      BY <1>0, <1>3, <2>1 DEF OneCopy, Copies
    <2> QED  BY <1>0, <1>3, <2>2, OncePlaced
  <1>4. \A r \in Coming \cup Going : \E b \in Queues : Found(b, r)
    BY <1>1, <1>2, QueueNames
  <1>5. \A r, s \in Coming \cup Going : r.id = s.id => r = s
    BY <1>3, <1>4
  <1>6. ASSUME NEW r \in Coming, NEW s \in Going, r.id = s.id PROVE FALSE
    <2>1. PICK v \in Workers : Found(<<v, "down">>, r) \/ Found(<<v, "held">>, r)
      BY <1>1
    <2>2. PICK w \in Workers : Found(<<w, "up">>, s)
      BY <1>2
    <2>3. <<v, "down">> \in Queues /\ <<v, "held">> \in Queues /\ <<w, "up">> \in Queues
      BY QueueNames
    <2>4. <<v, "down">> = <<w, "up">> \/ <<v, "held">> = <<w, "up">>
      BY <1>3, <1>6, <2>1, <2>2, <2>3
    <2> QED  BY <2>4, QueueNames
  <1>7. \A r \in Coming \cup Going : r.id \in Out
    <2>1. \A r : \A b \in Queues : Found(b, r) => r.id \in Out
      BY <1>0, FoundIds DEF OneCopy, Copies
    <2> QED  BY <1>4, <2>1
  <1> QED  BY <1>0, <1>5, <1>6, <1>7, TestsTyped DEF Distinct

\* The master reads a line, and may answer it.
LEMMA ReadFlow ==
    ASSUME Typed, NEW w \in Workers, toMaster[w] # <<>>,
           toMaster' = [toMaster EXCEPT ![w] = Tail(@)], holds' = holds
    PROVE  /\ Going' \subseteq Going
           /\ toWorker' = toWorker => Coming' = Coming
           /\ \A m \in DownMsg : Answer(w, m) =>
                 Coming' = Coming \cup (IF Bears(m) THEN {m.test} ELSE {})
           /\ Bears(Head(toMaster[w])) => Head(toMaster[w]).test \in Going
  <1>1. PICK q \in Seq(UpMsg) : q = toMaster[w]
    BY DEF Typed
  <1>2. /\ TestsOf(Tail(q)) \subseteq TestsOf(q)
        /\ Bears(Head(q)) => Head(q).test \in TestsOf(q)
    BY <1>1, TailTests
  <1>3. toMaster'[w] = Tail(q) /\ \A v \in Workers \ {w} : toMaster'[v] = toMaster[v]
    BY <1>1 DEF Typed
  <1>4. Going' = UNION {TestsOf(toMaster'[v]) : v \in Workers}
    BY DEF Going, TestsOf, Bearing
  <1>5. Going' \subseteq Going
    <2> SUFFICES ASSUME NEW v \in Workers, NEW r \in TestsOf(toMaster'[v]) PROVE r \in TestsOf(toMaster[v])
      BY <1>4 DEF Going
    <2> QED  BY <1>1, <1>2, <1>3
  <1>6. Bears(Head(q)) => Head(q).test \in Going
    BY <1>1, <1>2 DEF Going
  <1>7. Coming' = UNION {TestsOf(toWorker'[v]) \cup Kept(holds[v]) : v \in Workers}
    BY DEF Coming, TestsOf, Bearing, Kept
  <1>8. ASSUME NEW m \in DownMsg, Answer(w, m)
        PROVE  Coming' = Coming \cup (IF Bears(m) THEN {m.test} ELSE {})
    <2>1. PICK d \in Seq(DownMsg) : d = toWorker[w]
      BY DEF Typed
    <2>2. TestsOf(Append(d, m)) = TestsOf(d) \cup (IF Bears(m) THEN {m.test} ELSE {})
      BY AppendTests
    <2>3. toWorker'[w] = Append(d, m) /\ \A v \in Workers \ {w} : toWorker'[v] = toWorker[v]
      BY <1>8, <2>1 DEF Answer, Typed
    <2> DEFINE b == IF Bears(m) THEN {m.test} ELSE {}
    <2> HIDE DEF b
    <2>4. TestsOf(toWorker'[w]) = TestsOf(toWorker[w]) \cup b
      BY <2>1, <2>2, <2>3 DEF b
    <2>5. \A v \in Workers \ {w} : TestsOf(toWorker'[v]) = TestsOf(toWorker[v])
      BY <2>3
    <2>6. Coming' = Coming \cup b
      BY <1>7, <2>4, <2>5 DEF Coming
    <2> QED  BY <2>6 DEF b
  <1>9. toWorker' = toWorker => Coming' = Coming
    BY <1>7 DEF Coming
  <1> QED  BY <1>1, <1>5, <1>6, <1>8, <1>9

\* The final result r of t, whose runs came to o.
Finished(c, r, t, o, settled) ==
    IF o = <<>> THEN t \in c.skip /\ r.result = "skipped"
    ELSE After(c, r, o) /\ (settled => Enough(c, o))

\* The counters of a test under way agree with what its runs came to.
Book ==
    /\ \A t \in Listed \cup SetAside : outcomes[t] = <<>>
    /\ \A r \in Coming : Before(opt, r, outcomes[r.id])
    /\ \A r \in Going : After(opt, r, outcomes[r.id])
    /\ \A t \in HasResult :
         Finished(opt, completed[t][1], t, outcomes[t], main = "serving" /\ opt.force)

\* Steps that give w at most one test of its own.
LEMMA QuietBook ==
    ASSUME Book, UNCHANGED <<opt, tests, nonParallel, completed, outcomes>>,
           main' = "serving" => main = "serving",
           \A r \in Coming' : r \in Coming \/ Before(opt, r, outcomes[r.id]),
           Going' \subseteq Going
    PROVE  Book'
  <1>1. Listed' = Listed /\ SetAside' = SetAside /\ HasResult' = HasResult
    BY SameOptions DEF Listed, SetAside, Ids, HasResult
  <1>2. \A r \in Coming' : Before(opt', r, outcomes'[r.id])
    BY DEF Book
  <1>3. \A r \in Going' : After(opt', r, outcomes'[r.id])
    BY DEF Book
  <1>4. \A t \in HasResult' :
           Finished(opt', completed'[t][1], t, outcomes'[t], main' = "serving" /\ opt'.force)
    BY <1>1 DEF Book, Finished
  <1> QED  BY <1>1, <1>2, <1>3, <1>4 DEF Book

LEMMA SettledIs == \A o : Settled(o) <=> Enough(opt, o)
  BY DEF Settled, Enough

LEMMA ReadResult ==
    ASSUME IInv, NEW w \in Workers, Reads(w, "TESTRESULT")
    PROVE  /\ toMaster[w] # <<>> /\ toMaster' = [toMaster EXCEPT ![w] = Tail(@)]
           /\ main = "serving"
           /\ holds' = holds => Result(w) \in Going
           /\ Result(w) \in Carried /\ Result(w).id \in Out /\ Result(w).id \in Tests
           /\ outcomes[Result(w).id] \in Seq(Ends3)
           /\ completed[Result(w).id] = <<>>
  <1>0. Typed
    BY DEF IInv
  <1>1. /\ toMaster[w] # <<>> /\ toMaster' = [toMaster EXCEPT ![w] = Tail(@)]
        /\ main = "serving" /\ Bears(Head(toMaster[w]))
    BY DEF Reads, Bears
  <1>2. holds' = holds => Result(w) \in Going
    BY <1>0, <1>1, ReadFlow DEF Result
  <1>3. Result(w) \in Carried
    BY <1>0, ReadTyped
  <1>4. Result(w).id \in Out /\ completed[Result(w).id] = <<>> /\ Result(w).id \in Tests
    BY ResultKnown
  <1>5. outcomes[Result(w).id] \in Seq(Ends3)
    BY <1>0, <1>4 DEF Typed, Ends3
  <1> QED  BY <1>1, <1>2, <1>3, <1>4, <1>5

LEMMA RetryBook ==
    ASSUME IInv, Book, NEW w \in Workers, RetryTest(w)
    PROVE  Book'
  <1>0. Typed /\ GoesOn(w) /\ Reads(w, "TESTRESULT") /\ holds' = holds /\ opt' = opt
    BY DEF IInv, RetryTest, GoesOn, workers
  <1>1. PICK r \in Carried : r = Result(w)
    BY <1>0, ReadResult
  <1>2. r \in Going /\ outcomes[r.id] \in Seq(Ends3) /\ main = "serving"
    BY <1>0, <1>1, ReadResult
  <1>3. Retries(r) /\ After(opt, r, outcomes[r.id])
    BY <1>1, <1>2 DEF RetryTest, Book
  <1> DEFINE t == [r EXCEPT !.result = "none", !.retries = NextRun(r) + 1]
  <1>4. t \in Carried /\ t.id = r.id
    <2>1. NextRun(r) + 1 \in Nat
      BY DEF Carried, Travelling, NextRun
    <2> QED  BY <2>1 DEF Carried, Travelling
  <1>5. Before(opt, t, outcomes[r.id])
    BY <1>0, <1>2, <1>3, RetryCounts DEF Typed
  <1>6. Give(w, t)
    BY <1>1 DEF RetryTest
  <1> HIDE DEF t
  <1>7. Coming' \subseteq Coming \cup {t} /\ Going' \subseteq Going
    <2> DEFINE m == [type |-> "TESTCASE", test |-> t]
    <2>1. m \in DownMsg /\ Answer(w, m) /\ m.test = t
      BY <1>4, <1>6 DEF DownMsg, Give
    <2> HIDE DEF m
    <2>2. toMaster[w] # <<>> /\ toMaster' = [toMaster EXCEPT ![w] = Tail(@)]
      BY <1>0, ReadResult
    <2> QED  BY <1>0, <2>1, <2>2, ReadFlow
  <1>8. \A s \in Coming' : s \in Coming \/ Before(opt, s, outcomes[s.id])
    BY <1>4, <1>5, <1>7
  <1>9. UNCHANGED <<opt, tests, nonParallel, completed, outcomes>> /\ (main' = "serving" => main = "serving")
    BY <1>0, <1>2 DEF RetryTest
  <1> QED  BY <1>7, <1>8, <1>9, QuietBook

LEMMA RepeatBook ==
    ASSUME IInv, Distinct, Distinct', Book, NEW w \in Workers, RepeatTest(w)
    PROVE  Book'
  <1>0. Typed /\ GoesOn(w) /\ Reads(w, "TESTRESULT") /\ holds' = holds /\ opt' = opt
    BY DEF IInv, RepeatTest, GoesOn, workers
  <1>1. PICK r \in Carried : r = Result(w)
    BY <1>0, ReadResult
  <1>2. r \in Going /\ main = "serving" /\ r.id \in Out /\ r.id \in Tests
    BY <1>0, <1>1, ReadResult
  <1>3. /\ Before(opt, Anew(r), <<>>) /\ Anew(r).id = r.id /\ Anew(r) \in Carried
    <2>1. (IF r.repeat = 0 THEN 2 ELSE r.repeat + 1) \in Nat
      BY DEF Carried, Travelling
    <2> QED  BY <2>1, RepeatCounts DEF Carried, Travelling, Anew
  <1>4. /\ Give(w, Anew(r)) /\ outcomes' = [outcomes EXCEPT ![r.id] = <<>>]
        /\ UNCHANGED <<tests, nonParallel, completed>>
    BY <1>1 DEF RepeatTest
  <1>5. PICK t : t = Anew(r)
    OBVIOUS
  <1>6. Coming' = Coming \cup {t} /\ Going' \subseteq Going
    <2> DEFINE m == [type |-> "TESTCASE", test |-> t]
    <2>1. m \in DownMsg /\ Answer(w, m) /\ m.test = t /\ Bears(m)
      BY <1>3, <1>4, <1>5 DEF DownMsg, Give, Bears
    <2> HIDE DEF m
    <2>2. toMaster[w] # <<>> /\ toMaster' = [toMaster EXCEPT ![w] = Tail(@)]
      BY <1>0, ReadResult
    <2> QED  BY <1>0, <2>1, <2>2, ReadFlow
  <1>7. /\ outcomes'[r.id] = <<>> /\ \A u \in Tests \ {r.id} : outcomes'[u] = outcomes[u]
    BY <1>0, <1>2, <1>4 DEF Typed
  <1>8. \A s \in Coming' : Before(opt', s, outcomes'[s.id])
    <2> SUFFICES ASSUME NEW s \in Coming' PROVE Before(opt, s, outcomes'[s.id])
      BY <1>0
    <2>1. CASE s = t
      BY <1>3, <1>5, <1>7, <2>1
    <2>2. CASE s \in Coming
      <3>1. s.id # r.id /\ s.id \in Out /\ s.id \in Tests
        BY <1>0, <1>2, <2>2 DEF Distinct, Out, Typed
      <3> QED  BY <1>7, <2>2, <3>1 DEF Book
    <2> QED  BY <1>6, <2>1, <2>2
  <1>9. \A s \in Going' : After(opt', s, outcomes'[s.id])
    <2> SUFFICES ASSUME NEW s \in Going' PROVE After(opt, s, outcomes'[s.id])
      BY <1>0
    <2>1. s.id # t.id
      BY <1>6 DEF Distinct
    <2>2. s \in Going /\ s.id \in Tests
      BY <1>0, <1>6 DEF Distinct, Out, Typed
    <2> QED  BY <1>3, <1>5, <1>7, <2>1, <2>2 DEF Book
  <1>10. Listed' = Listed /\ SetAside' = SetAside /\ HasResult' = HasResult
    BY <1>0, <1>4, SameOptions DEF Listed, SetAside, Ids, HasResult
  <1>11. \A u \in Listed' \cup SetAside' : outcomes'[u] = <<>>
    <2>1. r.id \notin Listed \cup SetAside /\ Listed \cup SetAside \subseteq Tests
      BY <1>2 DEF IInv, Accounted, Out
    <2> QED  BY <1>7, <1>10, <2>1 DEF Book
  <1>12. \A u \in HasResult' :
           Finished(opt', completed'[u][1], u, outcomes'[u], main' = "serving" /\ opt'.force)
    <2>1. r.id \notin HasResult /\ HasResult \subseteq Tests
      BY <1>2 DEF Out, HasResult
    <2> QED  BY <1>0, <1>2, <1>4, <1>7, <1>10, <2>1 DEF Book, Finished
  <1> QED  BY <1>8, <1>9, <1>11, <1>12 DEF Book

\* A worker takes a line, and its test if it has one.
LEMMA HearFlow ==
    ASSUME Typed, NEW w \in Workers, NEW from, NEW type, Hears(w, from, type)
    PROVE  /\ \A v \in Workers : TestsOf(toWorker'[v]) \subseteq TestsOf(toWorker[v])
           /\ type = "TESTCASE" => Head(toWorker[w]).test \in TestsOf(toWorker[w])
  <1>1. PICK q \in Seq(DownMsg) : q = toWorker[w]
    BY DEF Typed
  <1>2. /\ q # <<>> /\ toWorker'[w] = Tail(q) /\ Head(q).type = type
        /\ \A v \in Workers \ {w} : toWorker'[v] = toWorker[v]
    BY <1>1 DEF Hears, Typed
  <1>3. /\ TestsOf(Tail(q)) \subseteq TestsOf(q)
        /\ Bears(Head(q)) => Head(q).test \in TestsOf(q)
    BY <1>2, TailTests
  <1> QED  BY <1>1, <1>2, <1>3 DEF Bears

LEMMA FlowsOf ==
    /\ Coming' = UNION {TestsOf(toWorker'[v]) \cup Kept(holds'[v]) : v \in Workers}
    /\ Going' = UNION {TestsOf(toMaster'[v]) : v \in Workers}
  BY DEF Coming, Going, TestsOf, Bearing, Kept

LEMMA KeptOne == \A t : Kept(<<t>>) = {t}
  BY DEF Kept

LEMMA KeptNone == Kept(<<>>) = {}
  BY DEF Kept

LEMMA TakeFlow ==
    ASSUME IInv, NEW w \in Workers, TakeTest(w)
    PROVE  /\ Going' = Going
           /\ \E t \in Coming : \E x : Coming' \subseteq Coming \cup {[t EXCEPT !.worker = x]}
  <1>0. Typed
    BY DEF IInv
  <1>1. Hears(w, "waiting", "TESTCASE") /\ toMaster' = toMaster
    BY DEF TakeTest
  <1>2. PICK t : t = Head(toWorker[w]).test
    OBVIOUS
  <1>3. PICK x : holds' = [holds EXCEPT ![w] = <<[t EXCEPT !.worker = x]>>]
    BY <1>2 DEF TakeTest
  <1>4. PICK u : u = [t EXCEPT !.worker = x]
    OBVIOUS
  <1>5. t \in Coming
    <2>1. t \in TestsOf(toWorker[w])
      BY <1>0, <1>1, <1>2, HearFlow
    <2> QED  BY <2>1 DEF Coming
  <1>6. Kept(holds'[w]) = {u} /\ \A v \in Workers \ {w} : holds'[v] = holds[v]
    BY <1>0, <1>3, <1>4, KeptOne DEF Typed
  <1>7. Coming' \subseteq Coming \cup {u}
    <2> SUFFICES ASSUME NEW v \in Workers, NEW r \in TestsOf(toWorker'[v]) \cup Kept(holds'[v])
                 PROVE  r \in Coming \cup {u}
      BY FlowsOf
    <2>1. CASE r \in TestsOf(toWorker'[v])
      BY <1>0, <1>1, <2>1, HearFlow DEF Coming
    <2>2. CASE r \in Kept(holds'[v])
      BY <1>6, <2>2 DEF Coming
    <2> QED  BY <2>1, <2>2
  <1>8. Going' = Going
    BY <1>1, FlowsOf DEF Going
  <1> QED  BY <1>4, <1>5, <1>7, <1>8

LEMMA TakeBook ==
    ASSUME IInv, Distinct, Book, NEW w \in Workers, TakeTest(w)
    PROVE  Book'
  <1>1. UNCHANGED <<opt, main, tests, nonParallel, completed, outcomes>>
    BY DEF TakeTest, master
  <1>2. Going' = Going
    BY TakeFlow
  <1>a. PICK t \in Coming : \E x : Coming' \subseteq Coming \cup {[t EXCEPT !.worker = x]}
    BY TakeFlow
  <1>3. PICK x : Coming' \subseteq Coming \cup {[t EXCEPT !.worker = x]}
    BY <1>a
  <1>4. Before(opt, t, outcomes[t.id]) /\ t \in Carried
    BY DEF Book, Distinct
  <1>5. PICK u : u = [t EXCEPT !.worker = x]
    OBVIOUS
  <1>6. Before(opt, u, outcomes[t.id]) /\ u.id = t.id
    BY <1>4, <1>5, TakeCounts
  <1>7. \A r \in Coming' : r \in Coming \/ Before(opt, r, outcomes[r.id])
    BY <1>3, <1>5, <1>6
  <1> QED  BY <1>1, <1>2, <1>7, QuietBook

LEMMA RunFlow ==
    ASSUME IInv, NEW w \in Workers, RunTest(w)
    PROVE  \E t \in Coming, end \in Ends3 : \E u \in Ran(t, end) :
              /\ Coming' \subseteq Coming /\ Going' = Going \cup {u}
              /\ outcomes' = [outcomes EXCEPT ![u.id] = Append(@, end)]
  <1>0. Typed
    BY DEF IInv
  <1>1. worker[w] = "running" /\ toWorker' = toWorker /\ holds' = [holds EXCEPT ![w] = <<>>]
    BY DEF RunTest
  <1>2. PICK t : t = holds[w][1]
    OBVIOUS
  <1>a. PICK end \in Ends3 : \E u \in Ran(t, end) :
          /\ toMaster' = [toMaster EXCEPT ![w] = Append(@, [type |-> "TESTRESULT", test |-> u])]
          /\ outcomes' = [outcomes EXCEPT ![u.id] = Append(@, end)]
    BY <1>2 DEF RunTest, Ends3
  <1>3. PICK u \in Ran(t, end) :
          /\ toMaster' = [toMaster EXCEPT ![w] = Append(@, [type |-> "TESTRESULT", test |-> u])]
          /\ outcomes' = [outcomes EXCEPT ![u.id] = Append(@, end)]
    BY <1>a
  <1>4. t \in Coming
    <2>1. PICK h \in Seq(Carried) : h = holds[w]
      BY <1>0 DEF Typed
    <2>2. Len(h) = 1
      BY <1>1, <2>1 DEF IInv, Posts
    <2>3. 1 \in DOMAIN h
      BY <2>2
    <2>4. t \in Kept(holds[w])
      BY <1>2, <2>1, <2>3 DEF Kept
    <2> QED  BY <2>4 DEF Coming
  <1>5. u \in Carried
    <2>1. t \in Carried
      BY <1>0, <1>4, TestsTyped
    <2> QED  BY <1>3, <2>1, RanTyped DEF Ends3
  <1>6. Coming' \subseteq Coming
    <2>1. Kept(holds'[w]) = {} /\ \A v \in Workers \ {w} : holds'[v] = holds[v]
      BY <1>0, <1>1, KeptNone DEF Typed
    <2> QED  BY <1>1, <2>1, FlowsOf DEF Coming
  <1>7. Going' = Going \cup {u}
    <2> DEFINE m == [type |-> "TESTRESULT", test |-> u]
    <2>1. m \in UpMsg /\ m.test = u /\ Bears(m)
      BY <1>5 DEF UpMsg, Bears
    <2>2. toMaster' = [toMaster EXCEPT ![w] = Append(@, m)]
      BY <1>3
    <2> HIDE DEF m
    <2>3. PICK q \in Seq(UpMsg) : q = toMaster[w]
      BY <1>0 DEF Typed
    <2>4. TestsOf(Append(q, m)) = TestsOf(q) \cup {u}
      BY <2>1, AppendTests
    <2>5. toMaster'[w] = Append(q, m) /\ \A v \in Workers \ {w} : toMaster'[v] = toMaster[v]
      BY <1>0, <2>2, <2>3 DEF Typed
    <2>6. TestsOf(toMaster'[w]) = TestsOf(toMaster[w]) \cup {u}
      BY <2>3, <2>4, <2>5
    <2>7. \A v \in Workers \ {w} : TestsOf(toMaster'[v]) = TestsOf(toMaster[v])
      BY <2>5
    <2> QED  BY <2>6, <2>7, FlowsOf DEF Going
  <1> QED  BY <1>3, <1>4, <1>6, <1>7

LEMMA RunBook ==
    ASSUME IInv, Distinct, Distinct', Book, NEW w \in Workers, RunTest(w)
    PROVE  Book'
  <1>0. Typed /\ UNCHANGED <<opt, main, tests, nonParallel, completed>>
    BY DEF IInv, RunTest, master
  <1>1. PICK t \in Coming, end \in Ends3 : \E u \in Ran(t, end) :
              /\ Coming' \subseteq Coming /\ Going' = Going \cup {u}
              /\ outcomes' = [outcomes EXCEPT ![u.id] = Append(@, end)]
    BY RunFlow
  <1>2. PICK u \in Ran(t, end) :
              /\ Coming' \subseteq Coming /\ Going' = Going \cup {u}
              /\ outcomes' = [outcomes EXCEPT ![u.id] = Append(@, end)]
    BY <1>1
  <1>3. t \in Carried /\ t.id \in Out /\ t.id \in Tests
    BY <1>0 DEF Distinct, Out, Typed
  <1>4. PICK o \in Seq(Ends3) : o = outcomes[t.id]
    BY <1>0, <1>3 DEF Typed, Ends3
  <1>5. Before(opt, t, o)
    BY <1>4 DEF Book
  <1>6. After(opt, u, Append(o, end)) /\ u.id = t.id
    BY <1>3, <1>5, RunCounts
  <1>7. /\ outcomes'[t.id] = Append(o, end) /\ \A s \in Tests \ {t.id} : outcomes'[s] = outcomes[s]
    BY <1>0, <1>2, <1>3, <1>4, <1>6 DEF Typed
  <1>8. \A s \in Coming' : Before(opt', s, outcomes'[s.id])
    <2> SUFFICES ASSUME NEW s \in Coming' PROVE Before(opt, s, outcomes'[s.id])
      BY <1>0
    <2>1. s.id # t.id
      BY <1>2, <1>6 DEF Distinct
    <2>2. s \in Coming /\ s.id \in Tests
      BY <1>0, <1>2 DEF Distinct, Out, Typed
    <2> QED  BY <1>7, <2>1, <2>2 DEF Book
  <1>9. \A s \in Going' : After(opt', s, outcomes'[s.id])
    <2> SUFFICES ASSUME NEW s \in Going' PROVE After(opt, s, outcomes'[s.id])
      BY <1>0
    <2>1. CASE s = u
      BY <1>6, <1>7, <2>1
    <2>2. CASE s \in Going
      <3>1. s.id # t.id /\ s.id \in Tests
        BY <1>0, <2>2 DEF Distinct, Out, Typed
      <3> QED  BY <1>7, <2>2, <3>1 DEF Book
    <2> QED  BY <1>2, <2>1, <2>2
  <1>10. Listed' = Listed /\ SetAside' = SetAside /\ HasResult' = HasResult
    BY <1>0, SameOptions DEF Listed, SetAside, Ids, HasResult
  <1>11. \A s \in Listed' \cup SetAside' : outcomes'[s] = <<>>
    <2>1. t.id \notin Listed \cup SetAside /\ Listed \cup SetAside \subseteq Tests
      BY <1>3 DEF IInv, Accounted, Out
    <2> QED  BY <1>7, <1>10, <2>1 DEF Book
  <1>12. \A s \in HasResult' :
           Finished(opt', completed'[s][1], s, outcomes'[s], main' = "serving" /\ opt'.force)
    <2>1. t.id \notin HasResult /\ HasResult \subseteq Tests
      BY <1>3 DEF Out, HasResult
    <2> QED  BY <1>0, <1>7, <1>10, <2>1 DEF Book
  <1> QED  BY <1>8, <1>9, <1>11, <1>12 DEF Book

\* The result r of w is noted, the suite has not ended because of it, and at
\* most one test that was never run goes out.
LEMMA SearchBook ==
    ASSUME IInv, Book, NEW w \in Workers, NEW R, NEW n, NEW results, NEW K, NEW D, NEW m,
           Look(w, R, n, results, K, D, m),
           \A t \in Tests : /\ t \notin R => results[t] = completed[t]
                            /\ t \in R => Finished(opt, results[t][1], t, outcomes[t], TRUE)
    PROVE  Book'
  <1>0. /\ Typed /\ opt' = opt /\ outcomes' = outcomes /\ holds' = holds /\ main = "serving"
        /\ Exchange(w) /\ R \subseteq Out
        /\ Search(w, R, running \ R, HasResult \cup R, n, results, K, D, m)
    BY DEF IInv, Look, Search
  <1>1. /\ Listed' \cup SetAside' = (Listed \cup SetAside) \ (K \cup D)
        /\ K \subseteq Listed \cap opt.skip /\ D \subseteq (Listed \cup SetAside) \ K
        /\ m \in DownMsg /\ D = Borne(m) /\ m.type \in {"TESTCASE", "BYE"}
        /\ m.type = "TESTCASE" => m.test \in Untried
        /\ Answer(w, m)
    BY <1>0 DEF Search, Hands
  <1>2. toMaster[w] # <<>> /\ toMaster' = [toMaster EXCEPT ![w] = Tail(@)]
    BY <1>0 DEF Exchange
  <1>3. /\ Going' \subseteq Going
        /\ Coming' = Coming \cup (IF Bears(m) THEN {m.test} ELSE {})
    BY <1>0, <1>1, <1>2, ReadFlow
  <1>4. \A t \in Listed \cup SetAside : outcomes[t] = <<>>
    BY DEF Book
  <1>5. \A r \in Coming' : Before(opt', r, outcomes'[r.id])
    <2> SUFFICES ASSUME NEW r \in Coming' PROVE Before(opt, r, outcomes[r.id])
      BY <1>0
    <2>1. CASE r \in Coming
      BY <2>1 DEF Book
    <2>2. CASE Bears(m) /\ r = m.test
      <3>1. r \in Untried /\ r.id \in D
        BY <1>1, <2>2 DEF Bears, Borne
      <3>2. outcomes[r.id] = <<>>
        BY <1>1, <1>4, <3>1
      <3> QED  BY <3>1, <3>2, BeforeAll
    <2> QED  BY <1>3, <2>1, <2>2
  <1>6. \A r \in Going' : After(opt', r, outcomes'[r.id])
    BY <1>0, <1>3 DEF Book
  <1>7. \A t \in Listed' \cup SetAside' : outcomes'[t] = <<>>
    BY <1>0, <1>1, <1>4
  <1>8. ASSUME NEW t \in HasResult'
        PROVE  Finished(opt, completed'[t][1], t, outcomes[t], main' = "serving" /\ opt.force)
    <2>1. t \in Tests /\ completed'[t] # <<>>
      BY <1>0, <1>8, SameOptions DEF HasResult
    <2>2. CASE t \in K
      <3>1. completed'[t] = <<Skip(t)>> /\ outcomes[t] = <<>> /\ t \in opt.skip
        BY <1>0, <1>1, <1>4, <2>1, <2>2, SearchResults
      <3>2. <<Skip(t)>>[1].result = "skipped"
        BY DEF Skip, Fresh
      <3> QED  BY <3>1, <3>2 DEF Finished
    <2>3. CASE t \notin K /\ t \in R
      <3>1. completed'[t] = results[t]
        BY <1>0, <2>1, <2>3, SearchResults
      <3> QED  BY <2>1, <2>3, <3>1 DEF Finished
    <2>4. CASE t \notin K /\ t \notin R
      <3>1. completed'[t] = results[t]
        BY <1>0, <2>1, <2>4, SearchResults
      <3>2. completed'[t] = completed[t]
        BY <2>1, <2>4, <3>1
      <3> QED  BY <1>0, <2>1, <3>2 DEF Book, Finished, HasResult
    <2> QED  BY <2>2, <2>3, <2>4
  <1> QED  BY <1>0, <1>5, <1>6, <1>7, <1>8 DEF Book

LEMMA NotesBook ==
    ASSUME IInv, Book, NEW w \in Workers, Notes(w)
    PROVE  Book'
  <1>1. PICK type \in {"START", "SPENT", "VALGREP"} : Reads(w, type)
    BY DEF Notes
  <1>2. Borne(Head(toMaster[w])) = {}
    BY <1>1 DEF Reads, Borne
  <1>3. PICK K, D, m : Search(w, {}, running, HasResult, numNdb, completed, K, D, m)
    BY NotesSearch
  <1>4. Exchange(w)
    BY ReadShape DEF ReadStep
  <1>5. running \ {} = running /\ HasResult \cup {} = HasResult
    OBVIOUS
  <1>6. Look(w, {}, numNdb, completed, K, D, m)
    BY <1>2, <1>3, <1>4, <1>5 DEF Look
  <1>7. PICK R, c, n : R = {} /\ c = completed /\ n = numNdb
    OBVIOUS
  <1>8. Look(w, R, n, c, K, D, m)
    BY <1>6, <1>7
  <1>9. \A t \in Tests : /\ t \notin R => c[t] = completed[t]
                         /\ t \in R => Finished(opt, c[t][1], t, outcomes[t], TRUE)
    BY <1>7
  <1> QED  BY <1>8, <1>9, SearchBook

\* The result r as it is noted.
Noted(r) ==
    /\ With(r)[r.id] = <<r>> /\ <<r>>[1] = r
    /\ \A t \in Tests \ {r.id} : With(r)[t] = completed[t]
    /\ Finished(opt, r, r.id, outcomes[r.id], FALSE)
    /\ ~Retries(r) => Finished(opt, r, r.id, outcomes[r.id], TRUE)

LEMMA ResultNoted ==
    ASSUME IInv, Book, NEW w \in Workers, Reads(w, "TESTRESULT"), holds' = holds
    PROVE  Noted(Result(w))
  <1>r. PICK r : r = Result(w)
    OBVIOUS
  <1>0. Typed
    BY DEF IInv
  <1>1. /\ r \in Going /\ r \in Carried /\ r.id \in Tests /\ outcomes[r.id] \in Seq(Ends3)
        /\ completed[r.id] = <<>>
    BY <1>r, ReadResult
  <1>2. /\ With(r)[r.id] = Append(<<>>, r) /\ \A t \in Tests \ {r.id} : With(r)[t] = completed[t]
    BY <1>0, <1>1 DEF With, Typed
  <1>3. With(r)[r.id] = <<r>> /\ <<r>>[1] = r
    BY <1>2, AppendEmpty
  <1>4. After(opt, r, outcomes[r.id])
    BY <1>1 DEF Book
  <1>5. outcomes[r.id] # <<>>
    BY <1>4 DEF After
  <1>6. ~Retries(r) => Enough(opt, outcomes[r.id])
    BY <1>0, <1>1, <1>4, RetryCounts, SettledIs DEF Typed
  <1>7. Noted(r)
    BY <1>2, <1>3, <1>4, <1>5, <1>6 DEF Finished, Noted
  <1> QED  BY <1>r, <1>7

LEMMA FinishBook ==
    ASSUME IInv, Book, NEW w \in Workers, FinishTest(w)
    PROVE  Book'
  <1>0. Reads(w, "TESTRESULT") /\ holds' = holds
    BY DEF FinishTest, GoesOn, workers
  <1>1. PICK r : r = Result(w)
    OBVIOUS
  <1>2. /\ r \in Carried /\ r.id \in Out /\ ~Retries(r)
        /\ \E K, D, m : Search(w, {r.id}, running \ {r.id}, HasResult \cup {r.id}, Ndb(r), With(r), K, D, m)
    BY <1>1, FinishSearch DEF FinishTest
  <1>3. PICK K, D, m : Search(w, {r.id}, running \ {r.id}, HasResult \cup {r.id}, Ndb(r), With(r), K, D, m)
    BY <1>2
  <1>4. Exchange(w)
    BY ReadShape DEF ReadStep
  <1>5. Borne(Head(toMaster[w])) = {r.id}
    BY <1>0, <1>1, ReadTyped DEF IInv
  <1>6. Ndb(r) = IF {r.id} \cap opt.ndb_test # {} THEN numNdb - 1 ELSE numNdb
    BY DEF Ndb
  <1>7. Look(w, {r.id}, Ndb(r), With(r), K, D, m)
    BY <1>2, <1>3, <1>4, <1>5, <1>6 DEF Look
  <1>8. PICK c : c = With(r)
    OBVIOUS
  <1>9. \A t \in Tests : /\ t \notin {r.id} => c[t] = completed[t]
                         /\ t \in {r.id} => Finished(opt, c[t][1], t, outcomes[t], TRUE)
    <2>1. Noted(r)
      BY <1>0, <1>1, ResultNoted
    <2> QED  BY <1>2, <1>8, <2>1 DEF Noted
  <1> QED  BY <1>7, <1>8, <1>9, SearchBook

LEMMA StopBook ==
    ASSUME IInv, Book, NEW w \in Workers, FailWithoutForce(w) \/ TooManyFailed(w)
    PROVE  Book'
  <1>0. /\ Typed /\ Reads(w, "TESTRESULT") /\ UNCHANGED <<opt, holds, tests, nonParallel, outcomes>>
        /\ main = "serving"
    BY DEF IInv, FailWithoutForce, TooManyFailed, workers, Reads
  <1>1. PICK r : r = Result(w)
    OBVIOUS
  <1>2. completed' = With(r)
    BY <1>1 DEF FailWithoutForce, TooManyFailed, With
  <1>3. /\ With(r)[r.id] = <<r>> /\ <<r>>[1] = r
        /\ \A t \in Tests \ {r.id} : With(r)[t] = completed[t]
        /\ Finished(opt, r, r.id, outcomes[r.id], FALSE)
    <2>1. Noted(r)
      BY <1>0, <1>1, ResultNoted
    <2> QED  BY <2>1 DEF Noted
  <1>4. toMaster[w] # <<>> /\ toMaster' = [toMaster EXCEPT ![w] = Tail(@)]
    BY <1>0, ReadResult
  <1>5. Coming' = Coming /\ Going' \subseteq Going
    <2>1. CASE toWorker' = toWorker
      BY <1>0, <1>4, <2>1, ReadFlow
    <2>2. CASE Bye(w)
      <3> DEFINE m == [type |-> "BYE"]
      <3>1. m \in DownMsg /\ ~Bears(m) /\ Answer(w, m)
        BY <2>2, ByeTyped DEF Bye, Bears
      <3> HIDE DEF m
      <3>2. Coming' = Coming \cup (IF Bears(m) THEN {m.test} ELSE {}) /\ Going' \subseteq Going
        BY <1>0, <1>4, <3>1, ReadFlow
      <3> QED  BY <3>1, <3>2
    <2> QED  BY <2>1, <2>2 DEF FailWithoutForce, TooManyFailed
  <1>6. Listed' = Listed /\ SetAside' = SetAside
    BY <1>0 DEF Listed, SetAside, Ids
  <1>7. ~(main' = "serving" /\ opt.force)
    BY DEF FailWithoutForce, TooManyFailed
  <1>8. ASSUME NEW t \in HasResult'
        PROVE  Finished(opt, completed'[t][1], t, outcomes[t], FALSE)
    <2>1. t \in Tests /\ completed'[t] # <<>>
      BY <1>0, <1>8, SameOptions DEF HasResult
    <2>2. CASE t = r.id
      BY <1>2, <1>3, <2>2
    <2>3. CASE t # r.id
      <3>1. completed'[t] = completed[t]
        BY <1>2, <1>3, <2>1, <2>3
      <3> QED  BY <2>1, <3>1 DEF Book, Finished, HasResult
    <2> QED  BY <2>2, <2>3
  <1>9. \A t \in HasResult' :
          Finished(opt', completed'[t][1], t, outcomes'[t], main' = "serving" /\ opt'.force)
    BY <1>0, <1>7, <1>8 DEF Finished
  <1>10. /\ \A r1 \in Coming' : Before(opt', r1, outcomes'[r1.id])
         /\ \A r1 \in Going' : After(opt', r1, outcomes'[r1.id])
    BY <1>0, <1>5 DEF Book
  <1>11. \A t \in Listed' \cup SetAside' : outcomes'[t] = <<>>
    BY <1>0, <1>6 DEF Book
  <1> QED  BY <1>9, <1>10, <1>11 DEF Book

\* The other steps: no test goes out, and none comes back.
LEMMA OtherFlow ==
    ASSUME IInv, NEW w \in Workers,
           \/ Accept(w) \/ Closed(w) \/ Connect(w) \/ Greet(w) \/ TakeBye(w)
           \/ Interrupted(w) \/ Orphaned(w) \/ Error(w)
    PROVE  /\ Coming' \subseteq Coming /\ Going' \subseteq Going
           /\ UNCHANGED <<opt, tests, nonParallel, completed, outcomes, numFailed>>
           /\ main' = "serving" => main = "serving"
  <1>0. Typed
    BY DEF IInv
  <1>1. CASE \/ Closed(w) \/ Connect(w) \/ Interrupted(w) \/ Orphaned(w) \/ Error(w)
    <2>1. /\ UNCHANGED <<toMaster, toWorker, holds>>
          /\ UNCHANGED <<opt, tests, nonParallel, completed, outcomes, numFailed>>
          /\ main' = "serving" => main = "serving"
      BY <1>1 DEF Closed, Connect, Interrupted, Orphaned, Error, sockets, workers, master
    <2> QED  BY <2>1, FlowsOf DEF Coming, Going
  <1>2. CASE Accept(w)
    <2> DEFINE m == [type |-> "HELLO"]
    <2>1. /\ UNCHANGED <<toMaster, holds>> /\ Answer(w, m)
          /\ UNCHANGED <<opt, tests, nonParallel, completed, outcomes, numFailed>>
          /\ main' = "serving" => main = "serving"
      BY <1>2 DEF Accept, workers
    <2>2. m \in DownMsg /\ ~Bears(m)
      BY DEF DownMsg, Bears
    <2> HIDE DEF m
    <2>3. PICK d \in Seq(DownMsg) : d = toWorker[w]
      BY <1>0 DEF Typed
    <2>4. TestsOf(Append(d, m)) = TestsOf(d)
      BY <2>2, AppendTests
    <2>5. toWorker'[w] = Append(d, m) /\ \A v \in Workers \ {w} : toWorker'[v] = toWorker[v]
      BY <1>0, <2>1, <2>3 DEF Answer, Typed
    <2>6. \A v \in Workers : TestsOf(toWorker'[v]) = TestsOf(toWorker[v])
      BY <2>3, <2>4, <2>5
    <2> QED  BY <2>1, <2>6, FlowsOf DEF Coming, Going
  <1>3. CASE Greet(w) \/ TakeBye(w)
    <2>1. PICK from, type : Hears(w, from, type)
      BY <1>3 DEF Greet, TakeBye
    <2>2. /\ holds' = holds
          /\ UNCHANGED <<opt, main, tests, nonParallel, completed, outcomes, numFailed>>
      BY <1>3 DEF Greet, TakeBye, master
    <2>3. Coming' \subseteq Coming
      BY <1>0, <2>1, <2>2, HearFlow, FlowsOf DEF Coming
    <2>4. PICK q \in Seq(UpMsg) : q = toMaster[w]
      BY <1>0 DEF Typed
    <2>5. /\ TestsOf(toMaster'[w]) \subseteq TestsOf(q)
          /\ \A v \in Workers \ {w} : toMaster'[v] = toMaster[v]
      <3>1. CASE Greet(w)
        <4> DEFINE m == [type |-> "START"]
        <4>1. m \in UpMsg /\ ~Bears(m)
          BY DEF UpMsg, Bears
        <4>2. toMaster' = [toMaster EXCEPT ![w] = Append(@, m)]
          BY <3>1 DEF Greet
        <4> HIDE DEF m
        <4>3. TestsOf(Append(q, m)) = TestsOf(q)
          BY <4>1, AppendTests
        <4> QED  BY <1>0, <2>4, <4>2, <4>3 DEF Typed
      <3>2. CASE TakeBye(w)
        <4>1. PICK found \in {<<>>, <<[type |-> "VALGREP"]>>} :
                 toMaster' = [toMaster EXCEPT ![w] = @ \o found \o TimesSpent]
          BY <3>2 DEF TakeBye
        <4>2. /\ found \in Seq(UpMsg) /\ Bearing(found) = {}
              /\ TimesSpent \in Seq(UpMsg) /\ Bearing(TimesSpent) = {}
          BY <4>1, ByeLines
        <4>3. q \o found \in Seq(UpMsg)
          BY <4>2
        <4>4. TestsOf(q \o found) \subseteq TestsOf(q)
          BY <4>2, ConcatTests
        <4>5. PICK p \in Seq(UpMsg), s \in Seq(UpMsg) : p = q \o found /\ s = TimesSpent
          BY <4>2, <4>3
        <4>6. TestsOf(p \o s) \subseteq TestsOf(p)
          BY <4>2, <4>5, ConcatTests
        <4>7. toMaster'[w] = p \o s /\ \A v \in Workers \ {w} : toMaster'[v] = toMaster[v]
          BY <1>0, <2>4, <4>1, <4>5 DEF Typed
        <4> QED  BY <4>4, <4>5, <4>6, <4>7
      <3> QED  BY <1>3, <3>1, <3>2
    <2>6. Going' \subseteq Going
      BY <2>4, <2>5, FlowsOf DEF Going
    <2> QED  BY <2>2, <2>3, <2>6
  <1> QED  BY <1>1, <1>2, <1>3

LEMMA BookStep ==
    ASSUME IInv, Distinct, Distinct', Book, [Next]_vars
    PROVE  Book'
  <1>1. ASSUME NEW w \in Workers,
               \/ Accept(w) \/ Closed(w) \/ Connect(w) \/ Greet(w) \/ TakeBye(w)
               \/ Interrupted(w) \/ Orphaned(w) \/ Error(w)
        PROVE  Book'
    <2>1. /\ Coming' \subseteq Coming /\ Going' \subseteq Going
          /\ UNCHANGED <<opt, tests, nonParallel, completed, outcomes>>
          /\ main' = "serving" => main = "serving"
      BY <1>1, OtherFlow
    <2>2. \A r \in Coming' : r \in Coming \/ Before(opt, r, outcomes[r.id])
      BY <2>1
    <2> QED  BY <2>1, <2>2, QuietBook
  <1>2. CASE SuiteExpires \/ Reap \/ Ended \/ UNCHANGED vars
    <2>1. /\ UNCHANGED <<toMaster, toWorker, holds>>
          /\ UNCHANGED <<opt, tests, nonParallel, completed, outcomes>>
          /\ main' = "serving" => main = "serving"
      BY <1>2 DEF SuiteExpires, Reap, Ended, vars, sockets, workers, master
    <2>2. Coming' = Coming /\ Going' = Going
      BY <2>1, FlowsOf DEF Coming, Going
    <2>3. \A r \in Coming' : r \in Coming \/ Before(opt, r, outcomes[r.id])
      BY <2>2
    <2> QED  BY <2>1, <2>2, <2>3, QuietBook
  <1>3. ASSUME NEW w \in Workers, MasterReads(w) \/ WorkerSteps(w) \/ Error(w) PROVE Book'
    BY <1>1, <1>3, NotesBook, StopBook, RetryBook, RepeatBook, FinishBook, TakeBook, RunBook
       DEF MasterReads, WorkerSteps
  <1> QED  BY <1>2, <1>3 DEF Next

(* The tests known to have failed, and the count of them.                  *)

Known == {t \in Tests \ opt.exp_fail :
            \/ completed[t] # <<>> /\ Failed(completed[t][1])
            \/ \E r \in Coming \cup Going : r.id = t /\ r.retries # 0}
Tally ==
    main = "serving" /\ opt.force =>
        /\ Cardinality(Known) <= numFailed
        /\ opt.max_test_fail > 0 => numFailed < opt.max_test_fail

\* The test of r, if r is its first failure.
Charged(r) == IF Failed(r) /\ r.retries = 0 /\ r.id \notin opt.exp_fail THEN {r.id} ELSE {}

\* The step adds the tests of X to the count, at most one, and the suite
\* does not go on at its limit.
Counts(X) ==
    /\ \/ X = {} /\ numFailed' = numFailed
       \/ (\E x : X = {x}) /\ numFailed' = numFailed + 1
    /\ main' = "serving" /\ opt.force /\ opt.max_test_fail > 0 => numFailed' < opt.max_test_fail

\* The results noted of the tests R say of no other test than X that it failed.
Tells(R, results, X) ==
    \A t \in Tests : /\ t \notin R => results[t] = completed[t]
                     /\ t \in R \ opt.exp_fail /\ Failed(results[t][1]) => t \in Known \cup X

LEMMA KnownFrom ==
    ASSUME opt' = opt, NEW X,
           \A t \in Tests \ opt.exp_fail :
               completed'[t] # <<>> /\ Failed(completed'[t][1]) => t \in Known \cup X,
           \A r \in Coming' \cup Going' :
               r.retries # 0 /\ r.id \in Tests \ opt.exp_fail => r.id \in Known \cup X
    PROVE  Known' \subseteq Known \cup X
  <1> SUFFICES ASSUME NEW t \in Known' PROVE t \in Known \cup X
    OBVIOUS
  <1>1. Tests' = Tests
    BY SameOptions
  <1>2. /\ t \in Tests \ opt.exp_fail
        /\ \/ completed'[t] # <<>> /\ Failed(completed'[t][1])
           \/ \E r \in Coming' \cup Going' : r.id = t /\ r.retries # 0
    BY <1>1 DEF Known, Failed
  <1> QED  BY <1>2

LEMMA TallyFrom ==
    ASSUME IInv, Tally, opt' = opt, main = "serving", NEW X,
           Counts(X), Known' \subseteq Known \cup X
    PROVE  Tally'
  <1> SUFFICES ASSUME main' = "serving", opt.force PROVE Cardinality(Known') <= numFailed'
    BY DEF Tally, Counts
  <1>1. IsFiniteSet(Known) /\ Cardinality(Known) \in Nat
    <2>1. IsFiniteSet(Tests) /\ Known \in SUBSET Tests
      BY TestsFinite DEF IInv, Typed, Known
    <2> QED  BY <2>1, FS_Subset, FS_CardinalityType
  <1>2. Cardinality(Known) <= numFailed /\ numFailed \in Nat
    BY DEF Tally, IInv, Typed
  <1>3. CASE X = {} /\ numFailed' = numFailed
    <2>1. Known' \in SUBSET Known
      BY <1>3
    <2>2. IsFiniteSet(Known') /\ Cardinality(Known') <= Cardinality(Known)
      BY <1>1, <2>1, FS_Subset
    <2>3. Cardinality(Known') \in Nat
      BY <2>2, FS_CardinalityType
    <2> QED  BY <1>1, <1>2, <1>3, <2>2, <2>3
  <1>4. CASE (\E x : X = {x}) /\ numFailed' = numFailed + 1
    <2>1. PICK x : X = {x}
      BY <1>4
    <2>2. IsFiniteSet(Known \cup {x}) /\ Cardinality(Known \cup {x}) <= Cardinality(Known) + 1
      <3>1. PICK K : K = Known
        OBVIOUS
      <3>2. IsFiniteSet(K \cup {x}) /\ Cardinality(K \cup {x}) \in {Cardinality(K), Cardinality(K) + 1}
        BY <1>1, <3>1, FS_AddElement
      <3> QED  BY <1>1, <3>1, <3>2
    <2>3. Known' \in SUBSET (Known \cup {x})
      BY <2>1
    <2>4. IsFiniteSet(Known') /\ Cardinality(Known') <= Cardinality(Known \cup {x})
      BY <2>2, <2>3, FS_Subset
    <2>5. Cardinality(Known') \in Nat /\ Cardinality(Known \cup {x}) \in Nat
      BY <2>2, <2>4, FS_CardinalityType
    <2> QED  BY <1>1, <1>2, <1>4, <2>2, <2>4, <2>5
  <1> QED  BY <1>3, <1>4 DEF Counts

LEMMA KnownIs ==
    /\ \A t \in Tests \ opt.exp_fail : completed[t] # <<>> /\ Failed(completed[t][1]) => t \in Known
    /\ \A r \in Coming \cup Going : r.retries # 0 /\ r.id \in Tests \ opt.exp_fail => r.id \in Known
  BY DEF Known

\* Steps that bring no result.
LEMMA QuietTally ==
    ASSUME IInv, Tally, UNCHANGED <<opt, completed, numFailed>>, main' = "serving" => main = "serving",
           \A r \in Coming' \cup Going' :
               r.retries = 0 \/ \E s \in Coming \cup Going : s.id = r.id /\ s.retries = r.retries
    PROVE  Tally'
  <1> SUFFICES ASSUME main = "serving" PROVE Tally'
    BY DEF Tally
  <1>1. \A t \in Tests \ opt.exp_fail :
               completed'[t] # <<>> /\ Failed(completed'[t][1]) => t \in Known \cup {}
    BY KnownIs
  <1>2. \A r \in Coming' \cup Going' :
               r.retries # 0 /\ r.id \in Tests \ opt.exp_fail => r.id \in Known \cup {}
    BY KnownIs
  <1>3. Known' \subseteq Known \cup {}
    BY <1>1, <1>2, KnownFrom
  <1>4. Counts({})
    BY DEF Tally, Counts
  <1> QED  BY <1>3, <1>4, TallyFrom

\* The count a result leaves, if the suite goes on.
LEMMA ChargedCount ==
    ASSUME Typed, Tally, NEW w \in Workers, GoesOn(w), NEW r, r = Result(w)
    PROVE  Counts(Charged(r))
  <1>0. numFailed' = FailedSoFar(r) /\ ~StopsAll(r) /\ main = "serving"
    BY DEF GoesOn, Reads
  <1>1. \/ Charged(r) = {} /\ numFailed' = numFailed
        \/ (\E x : Charged(r) = {x}) /\ numFailed' = numFailed + 1
    BY <1>0 DEF Charged, FailedSoFar
  <1>2. PICK n \in Nat, k \in Nat, l \in Nat : n = numFailed /\ k = opt.max_test_fail /\ l = FailedSoFar(r)
    <2>1. numFailed \in Nat /\ opt.max_test_fail \in Nat
      BY OptionsTyped DEF Typed
    <2>2. FailedSoFar(r) \in Nat
      BY <2>1 DEF FailedSoFar
    <2> QED  BY <2>1, <2>2
  <1>3. opt.force /\ k > 0 => l < k
    <2>1. CASE Failed(r)
      BY <1>0, <1>2, <2>1 DEF StopsAll
    <2>2. CASE ~Failed(r)
      BY <1>0, <1>2, <2>2 DEF Tally, FailedSoFar
    <2> QED  BY <2>1, <2>2
  <1> QED  BY <1>0, <1>1, <1>2, <1>3 DEF Counts

\* A test of r that comes out of the run of r again.
LEMMA ChargedKnown ==
    ASSUME NEW r \in Going, r.id \in Tests \ opt.exp_fail
    PROVE  /\ Failed(r) => r.id \in Known \cup Charged(r)
           /\ r.retries # 0 => r.id \in Known
  BY KnownIs DEF Charged

\* Steps that hand r to w again as t, with or without its retries.
LEMMA AgainTally ==
    ASSUME IInv, Tally, Book, NEW w \in Workers, GoesOn(w), UNCHANGED <<opt, completed>>,
           NEW r, r = Result(w), NEW t \in Carried, t.id = r.id, Give(w, t), holds' = holds,
           t.retries = 0 \/ r.retries # 0 \/ Failed(r)
    PROVE  Tally'
  <1>0. Typed /\ Reads(w, "TESTRESULT")
    BY DEF IInv, GoesOn
  <1>1. r \in Going /\ main = "serving" /\ r.id \in Tests
    BY <1>0, ReadResult
  <1>2. Coming' \subseteq Coming \cup {t} /\ Going' \subseteq Going
    <2> DEFINE m == [type |-> "TESTCASE", test |-> t]
    <2>1. m \in DownMsg /\ Answer(w, m) /\ m.test = t
      BY DEF DownMsg, Give
    <2> HIDE DEF m
    <2>2. toMaster[w] # <<>> /\ toMaster' = [toMaster EXCEPT ![w] = Tail(@)]
      BY <1>0, ReadResult
    <2> QED  BY <1>0, <2>1, <2>2, ReadFlow
  <1>3. PICK X : X = Charged(r)
    OBVIOUS
  <1>4. \A u \in Tests \ opt.exp_fail :
               completed'[u] # <<>> /\ Failed(completed'[u][1]) => u \in Known \cup X
    BY KnownIs
  <1>5. ASSUME NEW s \in Coming' \cup Going', s.retries # 0, s.id \in Tests \ opt.exp_fail
        PROVE  s.id \in Known \cup X
    <2>1. CASE s \in Coming \cup Going
      BY <1>5, <2>1, KnownIs
    <2>2. CASE s = t
      BY <1>1, <1>3, <1>5, <2>2, ChargedKnown
    <2> QED  BY <1>2, <2>1, <2>2
  <1>6. Known' \subseteq Known \cup X
    BY <1>4, <1>5, KnownFrom
  <1>7. Counts(X)
    BY <1>0, <1>3, ChargedCount
  <1> QED  BY <1>1, <1>6, <1>7, TallyFrom

LEMMA RetryTally ==
    ASSUME IInv, Book, Tally, NEW w \in Workers, RetryTest(w)
    PROVE  Tally'
  <1>0. Typed /\ GoesOn(w) /\ Reads(w, "TESTRESULT") /\ holds' = holds /\ UNCHANGED <<opt, completed>>
    BY DEF IInv, RetryTest, GoesOn, workers
  <1>1. PICK r \in Carried : r = Result(w)
    BY <1>0, ReadResult
  <1>2. r \in Going /\ outcomes[r.id] \in Seq(Ends3)
    BY <1>0, <1>1, ReadResult
  <1>3. Retries(r) /\ After(opt, r, outcomes[r.id])
    BY <1>1, <1>2 DEF RetryTest, Book
  <1>4. r.retries = 0 => Failed(r)
    BY <1>0, <1>2, <1>3, RetryCounts DEF Typed, Retries
  <1>5. PICK t : t = [r EXCEPT !.result = "none", !.retries = NextRun(r) + 1]
    OBVIOUS
  <1>6. t \in Carried /\ t.id = r.id
    <2>1. NextRun(r) + 1 \in Nat
      BY DEF Carried, Travelling, NextRun
    <2> QED  BY <1>5, <2>1 DEF Carried, Travelling
  <1>7. Give(w, t)
    BY <1>1, <1>5 DEF RetryTest
  <1> QED  BY <1>0, <1>1, <1>4, <1>6, <1>7, AgainTally

LEMMA RepeatTally ==
    ASSUME IInv, Book, Tally, NEW w \in Workers, RepeatTest(w)
    PROVE  Tally'
  <1>0. GoesOn(w) /\ Reads(w, "TESTRESULT") /\ holds' = holds /\ UNCHANGED <<opt, completed>>
    BY DEF RepeatTest, GoesOn, workers
  <1>1. PICK r \in Carried : r = Result(w)
    BY <1>0, ReadResult
  <1>2. PICK t : t = Anew(r)
    OBVIOUS
  <1>3. t \in Carried /\ t.id = r.id /\ t.retries = 0
    <2>1. (IF r.repeat = 0 THEN 2 ELSE r.repeat + 1) \in Nat
      BY DEF Carried, Travelling
    <2> QED  BY <1>2, <2>1 DEF Carried, Travelling, Anew
  <1>4. Give(w, t)
    BY <1>1, <1>2 DEF RepeatTest
  <1> QED  BY <1>0, <1>1, <1>3, <1>4, AgainTally

\* The result of R is noted and the next test searched for.
LEMMA SearchTally ==
    ASSUME IInv, Tally, NEW w \in Workers, NEW R, NEW n, NEW results, NEW K, NEW D, NEW m, NEW X,
           Look(w, R, n, results, K, D, m),
           Tells(R, results, X), Counts(X)
    PROVE  Tally'
  <1>0. /\ Typed /\ opt' = opt /\ holds' = holds /\ main = "serving" /\ Exchange(w)
        /\ Search(w, R, running \ R, HasResult \cup R, n, results, K, D, m)
    BY DEF IInv, Look, Search
  <1>1. /\ m \in DownMsg /\ m.type \in {"TESTCASE", "BYE"} /\ Answer(w, m)
        /\ m.type = "TESTCASE" => m.test \in Untried
    BY <1>0 DEF Search, Hands
  <1>2. toMaster[w] # <<>> /\ toMaster' = [toMaster EXCEPT ![w] = Tail(@)]
    BY <1>0 DEF Exchange
  <1>3. /\ Going' \subseteq Going
        /\ Coming' = Coming \cup (IF Bears(m) THEN {m.test} ELSE {})
    BY <1>0, <1>1, <1>2, ReadFlow
  <1>4. ASSUME NEW r \in Coming' \cup Going', r.retries # 0, r.id \in Tests \ opt.exp_fail
        PROVE  r.id \in Known \cup X
    <2>1. CASE r \in Coming \cup Going
      BY <1>4, <2>1, KnownIs
    <2>2. CASE Bears(m) /\ r = m.test
      BY <1>1, <1>4, <2>2 DEF Bears, Untried
    <2> QED  BY <1>3, <2>1, <2>2
  <1>5. ASSUME NEW t \in Tests \ opt.exp_fail, completed'[t] # <<>>, Failed(completed'[t][1])
        PROVE  t \in Known \cup X
    <2>1. CASE t \in K
      <3>1. completed'[t] = <<Skip(t)>>
        BY <1>0, <2>1, SearchResults
      <3>2. ~Failed(<<Skip(t)>>[1])
        BY DEF Skip, Fresh, Failed
      <3> QED  BY <1>5, <3>1, <3>2
    <2>2. CASE t \notin K
      <3>1. completed'[t] = results[t]
        BY <1>0, <2>2, SearchResults
      <3>2. CASE t \in R
        BY <1>5, <3>1, <3>2 DEF Tells
      <3>3. CASE t \notin R
        <4>1. completed'[t] = completed[t]
          BY <3>1, <3>3 DEF Tells
        <4> QED  BY <1>5, <4>1, KnownIs
      <3> QED  BY <3>2, <3>3
    <2> QED  BY <2>1, <2>2
  <1>6. Known' \subseteq Known \cup X
    BY <1>0, <1>4, <1>5, KnownFrom
  <1> QED  BY <1>0, <1>6, TallyFrom

LEMMA NotesTally ==
    ASSUME IInv, Tally, NEW w \in Workers, Notes(w)
    PROVE  Tally'
  <1>1. PICK type \in {"START", "SPENT", "VALGREP"} : Reads(w, type)
    BY DEF Notes
  <1>2. Borne(Head(toMaster[w])) = {}
    BY <1>1 DEF Reads, Borne
  <1>3. PICK K, D, m : Search(w, {}, running, HasResult, numNdb, completed, K, D, m)
    BY NotesSearch
  <1>4. Exchange(w)
    BY ReadShape DEF ReadStep
  <1>5. running \ {} = running /\ HasResult \cup {} = HasResult
    OBVIOUS
  <1>6. Look(w, {}, numNdb, completed, K, D, m)
    BY <1>2, <1>3, <1>4, <1>5 DEF Look
  <1>7. PICK R, c, n, X : R = {} /\ c = completed /\ n = numNdb /\ X = {}
    OBVIOUS
  <1>8. Look(w, R, n, c, K, D, m)
    BY <1>6, <1>7
  <1>9. Tells(R, c, X)
    BY <1>7 DEF Tells
  <1>10. Counts(X)
    BY <1>1, <1>7 DEF Notes, Tally, Reads, Counts
  <1> QED  BY <1>8, <1>9, <1>10, SearchTally

LEMMA FinishTally ==
    ASSUME IInv, Book, Tally, NEW w \in Workers, FinishTest(w)
    PROVE  Tally'
  <1>0. Reads(w, "TESTRESULT") /\ holds' = holds /\ GoesOn(w) /\ Typed
    BY DEF FinishTest, GoesOn, workers, IInv
  <1>1. PICK r : r = Result(w)
    OBVIOUS
  <1>2. /\ r \in Carried /\ r.id \in Out /\ r.id \in Tests
        /\ \E K, D, m : Search(w, {r.id}, running \ {r.id}, HasResult \cup {r.id}, Ndb(r), With(r), K, D, m)
    BY <1>0, <1>1, FinishSearch, ReadResult
  <1>3. PICK K, D, m : Search(w, {r.id}, running \ {r.id}, HasResult \cup {r.id}, Ndb(r), With(r), K, D, m)
    BY <1>2
  <1>4. Exchange(w)
    BY ReadShape DEF ReadStep
  <1>5. Borne(Head(toMaster[w])) = {r.id}
    BY <1>0, <1>1, ReadTyped
  <1>6. Ndb(r) = IF {r.id} \cap opt.ndb_test # {} THEN numNdb - 1 ELSE numNdb
    BY DEF Ndb
  <1>7. Look(w, {r.id}, Ndb(r), With(r), K, D, m)
    BY <1>2, <1>3, <1>4, <1>5, <1>6 DEF Look
  <1>8. PICK c, X : c = With(r) /\ X = Charged(r)
    OBVIOUS
  <1>9. r \in Going
    BY <1>0, <1>1, ReadResult
  <1>10. Noted(r)
    BY <1>0, <1>1, ResultNoted
  <1>11. Tells({r.id}, c, X)
    <2>1. r.id \in Tests \ opt.exp_fail /\ Failed(r) => r.id \in Known \cup X
      BY <1>8, <1>9, ChargedKnown
    <2>2. c[r.id][1] = r
      BY <1>8, <1>10 DEF Noted
    <2> QED  BY <1>2, <1>8, <1>10, <2>1, <2>2 DEF Noted, Tells
  <1>12. Counts(X)
    BY <1>0, <1>1, <1>8, ChargedCount
  <1> QED  BY <1>7, <1>8, <1>11, <1>12, SearchTally

LEMMA TallyStep ==
    ASSUME IInv, Book, Tally, [Next]_vars
    PROVE  Tally'
  <1>1. ASSUME NEW w \in Workers,
               \/ Accept(w) \/ Closed(w) \/ Connect(w) \/ Greet(w) \/ TakeBye(w)
               \/ Interrupted(w) \/ Orphaned(w) \/ Error(w)
        PROVE  Tally'
    <2>1. /\ Coming' \subseteq Coming /\ Going' \subseteq Going
          /\ UNCHANGED <<opt, completed, numFailed>>
          /\ main' = "serving" => main = "serving"
      BY <1>1, OtherFlow
    <2> QED  BY <2>1, QuietTally
  <1>2. CASE SuiteExpires \/ Reap \/ Ended \/ UNCHANGED vars
    <2>1. /\ UNCHANGED <<toMaster, toWorker, holds>>
          /\ UNCHANGED <<opt, completed, numFailed>>
          /\ main' = "serving" => main = "serving"
      BY <1>2 DEF SuiteExpires, Reap, Ended, vars, sockets, workers, master
    <2>2. Coming' = Coming /\ Going' = Going
      BY <2>1, FlowsOf DEF Coming, Going
    <2> QED  BY <2>1, <2>2, QuietTally
  <1>3. ASSUME NEW w \in Workers, TakeTest(w) PROVE Tally'
    <2>a. PICK t \in Coming : \E x : Coming' \subseteq Coming \cup {[t EXCEPT !.worker = x]}
      BY <1>3, TakeFlow
    <2>1. PICK x : Coming' \subseteq Coming \cup {[t EXCEPT !.worker = x]}
      BY <2>a
    <2>2. Going' = Going
      BY <1>3, TakeFlow
    <2>3. PICK u : u = [t EXCEPT !.worker = x]
      OBVIOUS
    <2>4. u.id = t.id /\ u.retries = t.retries
      <3>1. t \in Travelling
        BY TestsTyped DEF IInv, Carried
      <3> QED  BY <2>3, <3>1 DEF Travelling
    <2>5. UNCHANGED <<opt, main, completed, numFailed>>
      BY <1>3 DEF TakeTest, master
    <2> QED  BY <2>1, <2>2, <2>3, <2>4, <2>5, QuietTally
  <1>4. ASSUME NEW w \in Workers, RunTest(w) PROVE Tally'
    <2>1. PICK t \in Coming, end \in Ends3 : \E u \in Ran(t, end) :
              /\ Coming' \subseteq Coming /\ Going' = Going \cup {u}
              /\ outcomes' = [outcomes EXCEPT ![u.id] = Append(@, end)]
      BY <1>4, RunFlow
    <2>2. PICK u \in Ran(t, end) : Coming' \subseteq Coming /\ Going' = Going \cup {u}
      BY <2>1
    <2>3. t \in Carried /\ t.id \in Tests
      BY TestsTyped DEF IInv, Carried, Travelling
    <2>4. PICK o \in Seq(Ends3) : o = outcomes[t.id]
      BY <2>3 DEF IInv, Typed, Ends3
    <2>5. Before(opt, t, o)
      BY <2>4 DEF Book
    <2>6. u.id = t.id /\ u.retries = t.retries
      BY <2>3, <2>5, RunCounts
    <2>7. UNCHANGED <<opt, main, completed, numFailed>>
      BY <1>4 DEF RunTest, master
    <2> QED  BY <2>2, <2>6, <2>7, QuietTally
  <1>5. ASSUME NEW w \in Workers, FailWithoutForce(w) \/ TooManyFailed(w) PROVE Tally'
    <2>1. ~(main' = "serving" /\ opt'.force)
      BY <1>5 DEF FailWithoutForce, TooManyFailed
    <2> QED  BY <2>1 DEF Tally
  <1>6. ASSUME NEW w \in Workers, MasterReads(w) \/ WorkerSteps(w) \/ Error(w) PROVE Tally'
    BY <1>1, <1>3, <1>4, <1>5, <1>6, NotesTally, RetryTally, RepeatTally, FinishTally
       DEF MasterReads, WorkerSteps
  <1> QED  BY <1>2, <1>6 DEF Next

LEMMA BookInit == ASSUME Init PROVE Book /\ Tally
  <1>0. opt \in Options
    BY DEF Init
  <1>1. Coming = {} /\ Going = {}
    <2>1. Bearing(<<>>) = {} /\ Kept(<<>>) = {}
      BY DEF Bearing, Kept
    <2>2. \A w \in Workers : toMaster[w] = <<>> /\ toWorker[w] = <<>> /\ holds[w] = <<>>
      BY DEF Init
    <2>3. \A w \in Workers : TestsOf(toMaster[w]) = {} /\ TestsOf(toWorker[w]) = {} /\ Kept(holds[w]) = {}
      BY <2>1, <2>2 DEF TestsOf
    <2> QED  BY <2>3 DEF Coming, Going
  <1>2. /\ \A t \in Tests : outcomes[t] = <<>> /\ completed[t] = <<>>
        /\ numFailed = 0
    BY DEF Init
  <1>3. HasResult = {} /\ Listed \cup SetAside \subseteq Tests
    <2>1. IInv
      BY InitHolds
    <2> QED  BY <1>2, <2>1 DEF HasResult, IInv, Accounted
  <1>4. Book
    BY <1>1, <1>2, <1>3 DEF Book
  <1>5. Tally
    <2>1. Known = {}
      BY <1>1, <1>2 DEF Known
    <2>2. opt.max_test_fail \in Nat
      BY <1>0, OptionsTyped
    <2> QED  BY <1>2, <2>1, <2>2, FS_EmptySet DEF Tally
  <1> QED  BY <1>4, <1>5

(* While the suite goes on, a completed test was run again exactly as long *)
(* as the retry rules say, the result kept is that of its last run, and    *)
(* fewer tests have failed than --max-test-fail allows, whatever comes     *)
(* back over the sockets and in which order (run_test_server, lines        *)
(* 925-1020, where a test carries its own counters).                       *)
THEOREM LimitsAlways == Spec => []Limits
  <1>1. IInv /\ Book => RetryRule
    <2> SUFFICES ASSUME IInv, Book, opt.force, NEW t \in Tests, NEW i \in DOMAIN completed[t]
                 PROVE  LET r == completed[t][i]
                            o == outcomes[t]
                        IN  IF o = <<>> THEN t \in opt.skip /\ r.result = "skipped"
                            ELSE /\ r.result = o[Len(o)] /\ r.failures = Fails(o)
                                 /\ main = "serving" => Settled(o)
                                 /\ \A k \in 1 .. Len(o) - 1 : ~Settled(SubSeq(o, 1, k))
      BY DEF RetryRule
    <2>1. PICK s \in Seq(Carried) : s = completed[t]
      BY DEF IInv, Typed
    <2>2. Len(s) <= 1
      BY <2>1 DEF IInv, Accounted
    <2>3. i = 1 /\ t \in HasResult
      BY <2>1, <2>2 DEF HasResult
    <2>4. PICK r, o : r = completed[t][1] /\ o = outcomes[t]
      OBVIOUS
    <2>5. Finished(opt, r, t, o, main = "serving" /\ opt.force)
      BY <2>3, <2>4 DEF Book
    <2> QED  BY <2>3, <2>4, <2>5, SettledIs DEF Finished, After, Unsettled
  <1>2. IInv /\ Tally => FailLimit
    <2> DEFINE F == {t \in Tests \ opt.exp_fail : \E i \in DOMAIN completed[t] : Failed(completed[t][i])}
    <2> SUFFICES ASSUME IInv, Tally, main = "serving", opt.force, opt.max_test_fail > 0
                 PROVE  Cardinality(F) < opt.max_test_fail
      BY DEF FailLimit
    <2>1. F \in SUBSET Known
      <3> SUFFICES ASSUME NEW t \in Tests \ opt.exp_fail, NEW i \in DOMAIN completed[t],
                          Failed(completed[t][i])
                   PROVE  t \in Known
        OBVIOUS
      <3>1. PICK s \in Seq(Carried) : s = completed[t]
        BY DEF IInv, Typed
      <3>2. Len(s) <= 1
        BY <3>1 DEF IInv, Accounted
      <3>3. i = 1 /\ completed[t] # <<>>
        BY <3>1, <3>2
      <3> QED  BY <3>3, KnownIs
    <2> HIDE DEF F
    <2>2. IsFiniteSet(Known)
      <3>1. IsFiniteSet(Tests) /\ Known \in SUBSET Tests
        BY TestsFinite DEF IInv, Typed, Known
      <3> QED  BY <3>1, FS_Subset
    <2>3. IsFiniteSet(F) /\ Cardinality(F) <= Cardinality(Known)
      BY <2>1, <2>2, FS_Subset
    <2>4. Cardinality(F) \in Nat /\ Cardinality(Known) \in Nat
      BY <2>2, <2>3, FS_CardinalityType
    <2>5. numFailed \in Nat /\ opt.max_test_fail \in Nat
      BY OptionsTyped DEF IInv, Typed
    <2> QED  BY <2>3, <2>4, <2>5 DEF Tally
  <1>3. IInv /\ IInv' /\ Book /\ Tally /\ [Next]_vars => Book' /\ Tally'
    <2>1. (IInv => Distinct) /\ (IInv' => Distinct')
      BY OneRecord, PTL
    <2> QED  BY <2>1, BookStep, TallyStep
  <1>4. Init => Book /\ Tally
    BY BookInit
  <1> QED  BY <1>1, <1>2, <1>3, <1>4, Invariance, PTL DEF Spec, Limits

=============================================================================
