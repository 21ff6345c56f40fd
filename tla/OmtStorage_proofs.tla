------------------------- MODULE OmtStorage_proofs -------------------------
(***************************************************************************)
(* For every size: no call of an omt writes outside its block, and an edit *)
(* leaves the block linear in the number of values.  Each helper of        *)
(* OmtStorage gets a lemma saying that it keeps a storage good and what    *)
(* room it leaves; the steps then follow from the lemmas.                  *)
(***************************************************************************)
EXTENDS OmtStorage, TLAPS

\* The inductive invariant, of one storage: typed, no stray write so far, and
\* the values where Placed says.
Good(s) ==
    /\ s \in Storage
    /\ s.strays = {}
    /\ s.capacity <= s.alloc
    /\ s.rep = "array" => s.start + s.size <= s.capacity
    /\ s.rep = "tree" => s.size <= s.free /\ s.free <= s.capacity

\* A caller that gives a block gives at least the slots it states.
HonestCallers == StealGap \subseteq Nat

\* SizeFor gives room for one value more, and for twice the values.
LEMMA SizeForFacts ==
  ASSUME NEW n \in Nat
  PROVE  /\ SizeFor(n) \in Nat
         /\ SizeFor(n) >= 4 /\ SizeFor(n) >= n + 1 /\ SizeFor(n) >= 2 * n
         /\ SizeFor(n) = 4 \/ SizeFor(n) = 2 * n
BY DEF SizeFor

\* A write inside the block changes nothing that the storage records.
LEMMA WriteInside ==
  ASSUME NEW s \in Storage, NEW first \in Int, NEW last \in Int,
         0 <= first, last <= s.alloc
  PROVE  Write(s, first, last) = s
<1>1. (first .. last - 1) \ (0 .. s.alloc - 1) = {}
  BY DEF Storage
<1>2. s.strays \cup {} = s.strays
  OBVIOUS
<1>3. [s EXCEPT !.strays = s.strays] = s
  BY DEF Storage
<1> QED
  BY <1>1, <1>2, <1>3 DEF Write

\* Using the block otherwise is good if what is used is in it.
LEMMA OccupyGood ==
  ASSUME NEW s \in Storage, NEW start \in Nat, NEW size \in Nat, NEW free \in Nat,
         s.strays = {}, s.capacity <= s.alloc,
         s.rep = "array" => start + size <= s.capacity,
         s.rep = "tree" => size <= free /\ free <= s.capacity
  PROVE  Good(Occupy(s, start, size, free)) /\ Occupy(s, start, size, free).size = size
<1> DEFINE o == Occupy(s, start, size, free)
<1>1. /\ o \in Storage /\ o.start = start /\ o.size = size /\ o.free = free /\ o.rep = s.rep
      /\ o.capacity = s.capacity /\ o.alloc = s.alloc /\ o.strays = s.strays
  BY DEF Occupy, Storage
<1> HIDE DEF o
<1> QED
  BY <1>1 DEF Good, o

\* Copying the values to a block for n of them: good if they fit there.
LEMMA MoveGood ==
  ASSUME NEW s, Good(s), NEW n \in Nat, NEW rep \in {"array", "tree"}, s.size <= SizeFor(n)
  PROVE  /\ Good(Move(s, rep, n))
         /\ Move(s, rep, n).rep = rep
         /\ Move(s, rep, n).size = s.size
         /\ Move(s, rep, n).capacity = SizeFor(n)
         /\ Move(s, rep, n).start = 0
         /\ Move(s, rep, n).free = IF rep = "tree" THEN s.size ELSE 0
<1> DEFINE blank == [rep |-> rep, capacity |-> SizeFor(n), alloc |-> SizeFor(n), start |-> 0,
                     size |-> s.size, free |-> IF rep = "tree" THEN s.size ELSE 0,
                     strays |-> s.strays]
<1>1. SizeFor(n) \in Nat
  BY SizeForFacts
<1>2. s.size \in Nat /\ s.strays = {} /\ s.strays \in SUBSET Int
  BY DEF Good, Storage
<1>3. blank \in Storage
  BY <1>1, <1>2 DEF Storage
<1>4. Move(s, rep, n) = blank
  <2>1. blank.alloc = SizeFor(n)
    OBVIOUS
  <2>2. Write(blank, 0, s.size) = blank
    BY <1>1, <1>2, <1>3, <2>1, WriteInside
  <2> QED
    BY <2>2 DEF Move
<1> QED
  BY <1>1, <1>2, <1>3, <1>4 DEF Good

\* The conversions keep a storage good; a new tree has a free node, and a new
\* array, which starts at 0, a free slot at its end.
LEMMA ToArrayGood ==
  ASSUME NEW s, Good(s)
  PROVE  /\ Good(ToArray(s)) /\ ToArray(s).rep = "array" /\ ToArray(s).size = s.size
         /\ s.rep = "array" => ToArray(s) = s
         /\ s.rep = "tree" => ToArray(s).capacity = SizeFor(s.size) /\ ToArray(s).start = 0
<1>1. s.size \in Nat /\ s.rep \in {"array", "tree"}
  BY DEF Good, Storage
<1>2. s.size <= SizeFor(s.size)
  BY <1>1, SizeForFacts
<1> QED
  BY <1>1, <1>2, MoveGood DEF ToArray

LEMMA ToTreeGood ==
  ASSUME NEW s, Good(s)
  PROVE  /\ Good(ToTree(s)) /\ ToTree(s).rep = "tree" /\ ToTree(s).size = s.size
         /\ s.rep = "tree" => ToTree(s) = s
         /\ s.rep = "array" => /\ ToTree(s).capacity = SizeFor(s.size)
                               /\ ToTree(s).free = s.size
                               /\ ToTree(s).free < ToTree(s).capacity
<1>1. s.size \in Nat /\ s.rep \in {"array", "tree"}
  BY DEF Good, Storage
<1>2. s.size <= SizeFor(s.size) /\ s.size < SizeFor(s.size) /\ SizeFor(s.size) \in Nat
  BY <1>1, SizeForFacts
<1> QED
  BY <1>1, <1>2, MoveGood DEF ToTree

\* The rebuild in place of a tree, through an array and, with marks, back.
LEMMA RebuiltGood ==
  ASSUME NEW s, Good(s)
  PROVE  /\ Good(Settled(ToArray(s))) /\ Settled(ToArray(s)).size = s.size
         /\ s.rep = "tree" =>
               /\ Settled(ToArray(s)).capacity = SizeFor(s.size)
               /\ Settled(ToArray(s)).rep = "tree" =>
                     Settled(ToArray(s)).free < Settled(ToArray(s)).capacity
               /\ Settled(ToArray(s)).rep = "array" => Settled(ToArray(s)).start = 0
<1> DEFINE a == ToArray(s)
<1>1. Good(a) /\ a.rep = "array" /\ a.size = s.size
      /\ (s.rep = "tree" => a.capacity = SizeFor(s.size) /\ a.start = 0)
  BY ToArrayGood
<1>2. /\ Good(ToTree(a)) /\ ToTree(a).rep = "tree" /\ ToTree(a).size = s.size
      /\ ToTree(a).capacity = SizeFor(s.size) /\ ToTree(a).free < ToTree(a).capacity
  <2> HIDE DEF a
  <2> QED BY <1>1, ToTreeGood
<1> HIDE DEF a
<1>3. Settled(a) = a \/ Settled(a) = ToTree(a)
  BY DEF Settled
<1>4. CASE Settled(a) = a
  BY <1>1, <1>4 DEF a
<1>5. CASE Settled(a) = ToTree(a)
  BY <1>1, <1>2, <1>5 DEF a
<1> QED
  BY <1>3, <1>4, <1>5

LEMMA SettledGood ==
  ASSUME NEW s, Good(s)
  PROVE  Good(Settled(s)) /\ Settled(s).size = s.size
BY ToTreeGood DEF Settled

\* maybe_resize_array(n): room for n values behind start, fewer than twice the
\* slots that n values need.
LEMMA ResizedArrayGood ==
  ASSUME NEW s, Good(s), s.rep = "array", NEW n \in Nat, s.size <= SizeFor(n)
  PROVE  /\ Good(ResizedArray(s, n)) /\ ResizedArray(s, n).rep = "array"
         /\ ResizedArray(s, n).size = s.size
         /\ ResizedArray(s, n).start + n <= ResizedArray(s, n).capacity
         /\ ResizedArray(s, n).capacity < 2 * SizeFor(n)
<1> DEFINE r == ResizedArray(s, n)
<1>1. /\ SizeFor(n) \in Nat /\ SizeFor(n) >= 4 /\ SizeFor(n) >= n + 1
      /\ s.capacity \in Nat /\ s.start \in Nat
  BY SizeForFacts DEF Good, Storage
<1>2. CASE ArrayMustMove(s.capacity, s.start, n)
  <2>1. r = Move(s, "array", n)
    BY <1>2 DEF ResizedArray
  <2>2. /\ Good(r) /\ r.rep = "array" /\ r.size = s.size
        /\ r.capacity = SizeFor(n) /\ r.start = 0
    BY <2>1, MoveGood
  <2> QED
    BY <1>1, <2>2
<1>3. CASE ~ArrayMustMove(s.capacity, s.start, n)
  <2>1. r = s
    BY <1>3 DEF ResizedArray
  <2>2. s.start + n <= s.capacity /\ s.capacity < 2 * SizeFor(n)
    BY <1>1, <1>3 DEF ArrayMustMove
  <2> QED
    BY <2>1, <2>2
<1> QED
  BY <1>2, <1>3

\* maybe_resize_or_convert(n), before an edit that leaves n values.
LEMMA ResizedGood ==
  ASSUME NEW s, Good(s), NEW n \in Nat, s.size <= n + 1
  PROVE  LET r == Resized(s, n)
         IN  /\ Good(r) /\ r.size = s.size
             /\ r.capacity < 2 * SizeFor(n)
             /\ s.size < n /\ r.rep = "array" => r.start + s.size < r.capacity
             /\ s.size < n /\ r.rep = "tree" => r.free < r.capacity
<1> DEFINE r == Resized(s, n)
<1>1. /\ s.rep \in {"array", "tree"} /\ s.size \in Nat
      /\ s.capacity \in Nat /\ s.start \in Nat /\ s.free \in Nat
  BY DEF Good, Storage
<1>2. /\ SizeFor(n) \in Nat /\ SizeFor(n) >= 4 /\ SizeFor(n) >= n + 1 /\ SizeFor(n) >= 2 * n
  BY SizeForFacts
<1>3. CASE s.rep = "array"
  <2>1. r = ResizedArray(s, n)
    BY <1>3 DEF Resized
  <2>2. /\ Good(r) /\ r.rep = "array" /\ r.size = s.size /\ r.start + n <= r.capacity
        /\ r.capacity < 2 * SizeFor(n)
    BY <1>1, <1>2, <1>3, <2>1, ResizedArrayGood
  <2>3. r.start \in Nat /\ r.capacity \in Nat
    BY <2>2 DEF Good, Storage
  <2> HIDE DEF r
  <2>4. s.size < n => r.start + s.size < r.capacity
    BY <1>1, <2>2, <2>3
  <2> QED
    BY <2>2, <2>4 DEF r
<1>4. CASE s.rep = "tree" /\ TreeMustConvert(s.capacity, s.free, s.size, n)
  <2>1. r = Settled(ToArray(s))
    BY <1>4 DEF Resized
  <2>2. /\ Good(r) /\ r.size = s.size /\ r.capacity = SizeFor(s.size)
        /\ r.rep = "tree" => r.free < r.capacity
        /\ r.rep = "array" => r.start = 0
    BY <1>4, <2>1, RebuiltGood
  <2>3. /\ SizeFor(s.size) \in Nat /\ SizeFor(s.size) >= s.size + 1
        /\ SizeFor(s.size) = 4 \/ SizeFor(s.size) = 2 * s.size
    BY <1>1, SizeForFacts
  <2>4. SizeFor(s.size) < 2 * SizeFor(n)
    BY <1>1, <1>2, <2>3
  <2> HIDE DEF r
  <2>5. r.rep = "array" => r.start + s.size < r.capacity
    BY <1>1, <2>2, <2>3
  <2> QED
    BY <2>2, <2>4, <2>5 DEF r
<1>5. CASE s.rep = "tree" /\ ~TreeMustConvert(s.capacity, s.free, s.size, n)
  <2>1. r = s
    BY <1>5 DEF Resized
  <2>2. s.capacity < 2 * SizeFor(n) /\ (s.size < n => s.free < s.capacity)
    BY <1>1, <1>2, <1>5 DEF TreeMustConvert
  <2> QED
    BY <1>5, <2>1, <2>2
<1> QED
  BY <1>1, <1>3, <1>4, <1>5

\* insert_at: the append, the prepend and node_malloc write inside the block.
LEMMA InsertedGood ==
  ASSUME NEW s, Good(s), NEW i \in Nat, i <= s.size, NEW lopsided \in BOOLEAN
  PROVE  /\ Good(Inserted(s, i, lopsided))
         /\ Inserted(s, i, lopsided).size = s.size + 1
         /\ Inserted(s, i, lopsided).capacity < 2 * SizeFor(s.size + 1)
<1> DEFINE n == s.size + 1
           r == Resized(s, n)
           out == Inserted(s, i, lopsided)
<1>1. s.size \in Nat /\ n \in Nat
  BY DEF Good, Storage
<1>2. /\ Good(r) /\ r.size = s.size /\ r.capacity < 2 * SizeFor(n)
      /\ r.rep = "array" => r.start + s.size < r.capacity
      /\ r.rep = "tree" => r.free < r.capacity
  BY <1>1, ResizedGood
<1>3. r \in Storage /\ r.capacity <= r.alloc /\ r.strays = {}
  BY <1>2 DEF Good
<1>4. /\ SizeFor(n) \in Nat /\ SizeFor(n) >= 4
      /\ SizeFor(s.size) \in Nat /\ SizeFor(s.size) < 2 * SizeFor(n)
  BY <1>1 DEF SizeFor
<1> HIDE DEF r
<1>5. CASE r.rep = "tree" \/ InsertTurnsToTree(r, i)
  <2> DEFINE t == ToTree(r)
             m == Occupy(t, t.start, t.size + 1, t.free + 1)
  <2>1. /\ Good(t) /\ t.rep = "tree" /\ t.size = s.size /\ t.free < t.capacity
        /\ t.capacity < 2 * SizeFor(n)
    BY <1>2, <1>3, <1>4, ToTreeGood DEF Good, Storage
  <2> HIDE DEF t
  <2>2. /\ m \in Storage /\ m.rep = "tree" /\ m.size = s.size + 1 /\ m.free = t.free + 1
        /\ m.alloc = t.alloc /\ m.capacity = t.capacity /\ m.strays = {}
    <3>1. /\ t \in Storage /\ t.start \in Nat /\ t.free + 1 \in Nat /\ t.strays = {}
          /\ t.size + 1 \in Nat
      BY <1>1, <2>1 DEF Good, Storage
    <3> QED
      BY <2>1, <3>1 DEF Occupy, Storage
  <2> HIDE DEF m
  <2>3. Good(m)
    BY <2>1, <2>2 DEF Good, Storage
  <2>4. NodeMalloc(t) = m
    <3>1. t.free \in Int /\ 0 <= t.free /\ t.free + 1 <= m.alloc
      BY <2>1, <2>2 DEF Good, Storage
    <3>2. Write(m, t.free, t.free + 1) = m
      BY <2>2, <3>1, WriteInside
    <3> QED
      BY <3>2 DEF NodeMalloc, m
  <2>5. out = RebalancedRoot(lopsided, m)
    BY <1>5, <2>4 DEF Inserted, r, t
  <2>6. Good(Settled(ToArray(m))) /\ Settled(ToArray(m)).size = n
        /\ Settled(ToArray(m)).capacity = SizeFor(n)
    BY <2>2, <2>3, RebuiltGood
  <2> QED
    BY <1>4, <2>1, <2>2, <2>3, <2>5, <2>6 DEF RebalancedRoot
<1>6. CASE ~(r.rep = "tree" \/ InsertTurnsToTree(r, i)) /\ i = r.size
  <2> DEFINE m == Occupy(r, r.start, r.size + 1, r.free)
  <2>1. /\ r.rep = "array" /\ r.start \in Nat /\ r.capacity \in Nat /\ r.alloc \in Nat
        /\ r.free \in Nat
    BY <1>3, <1>6 DEF Storage
  <2>2. /\ m \in Storage /\ m.size = s.size + 1 /\ m.capacity = r.capacity /\ m.alloc = r.alloc
        /\ m.rep = "array" /\ m.start = r.start /\ m.strays = {}
    <3>1. r.size + 1 \in Nat
      BY <1>1, <1>2, <2>1
    <3> QED
      BY <1>2, <1>3, <2>1, <3>1 DEF Occupy, Storage
  <2> HIDE DEF m
  <2>3. Good(m)
    BY <1>1, <1>2, <1>3, <2>1, <2>2 DEF Good
  <2>4. out = PutLast(r)
    BY <1>6 DEF Inserted, r
  <2>5. PutLast(r) = m
    <3>1. /\ r.start + r.size \in Int /\ 0 <= r.start + r.size
          /\ r.start + r.size + 1 \in Int /\ r.start + r.size + 1 <= m.alloc
      BY <1>1, <1>2, <1>3, <2>1, <2>2
    <3>2. Write(m, r.start + r.size, r.start + r.size + 1) = m
      BY <2>2, <3>1, WriteInside
    <3> QED
      BY <3>2 DEF PutLast, m
  <2> QED
    BY <1>2, <2>2, <2>3, <2>4, <2>5
<1>7. CASE ~(r.rep = "tree" \/ InsertTurnsToTree(r, i)) /\ i # r.size
  <2> DEFINE m == Occupy(r, r.start - 1, r.size + 1, r.free)
  <2>1. /\ r.rep = "array" /\ r.start \in Nat /\ r.capacity \in Nat /\ r.alloc \in Nat
        /\ r.free \in Nat /\ r.start # 0
    BY <1>3, <1>7 DEF Storage, InsertTurnsToTree
  <2>2. /\ m \in Storage /\ m.size = s.size + 1 /\ m.capacity = r.capacity /\ m.alloc = r.alloc
        /\ m.rep = "array" /\ m.start = r.start - 1 /\ m.strays = {}
    <3>1. r.size + 1 \in Nat /\ r.start - 1 \in Nat
      BY <1>1, <1>2, <2>1
    <3> QED
      BY <1>2, <1>3, <2>1, <3>1 DEF Occupy, Storage
  <2> HIDE DEF m
  <2>3. Good(m)
    BY <1>1, <1>2, <1>3, <2>1, <2>2 DEF Good
  <2>4. out = PutFirst(r)
    BY <1>7 DEF Inserted, r
  <2>5. PutFirst(r) = m
    <3>1. r.start - 1 \in Int /\ 0 <= r.start - 1 /\ r.start \in Int /\ r.start <= m.alloc
      BY <1>1, <1>2, <1>3, <2>1, <2>2
    <3>2. Write(m, r.start - 1, r.start) = m
      BY <2>2, <3>1, WriteInside
    <3> QED
      BY <3>2 DEF PutFirst, m
  <2> QED
    BY <1>2, <2>2, <2>3, <2>4, <2>5
<1> QED
  BY <1>5, <1>6, <1>7

\* delete_at: nothing is written but by the conversions.
LEMMA DeletedGood ==
  ASSUME NEW s, Good(s), NEW i \in Nat, i < s.size, NEW lopsided \in BOOLEAN
  PROVE  /\ Good(Deleted(s, i, lopsided))
         /\ Deleted(s, i, lopsided).size = s.size - 1
         /\ Deleted(s, i, lopsided).capacity < 2 * SizeFor(s.size - 1)
<1> DEFINE n == s.size - 1
           r == Resized(s, n)
           out == Deleted(s, i, lopsided)
<1>1. s.size \in Nat /\ n \in Nat /\ s.size = n + 1
  BY DEF Good, Storage
<1>2. Good(r) /\ r.size = s.size /\ r.capacity < 2 * SizeFor(n)
  BY <1>1, ResizedGood
<1>3. r \in Storage
  BY <1>2 DEF Good
<1>4. SizeFor(n) \in Nat /\ SizeFor(n) >= 4 /\ SizeFor(n + 1) < 2 * SizeFor(n)
  BY <1>1 DEF SizeFor
<1> HIDE DEF r
<1>5. CASE r.rep = "tree" \/ DeleteTurnsToTree(r, i)
  <2> DEFINE t == ToTree(r)
             m == DropOne(t, 0)
  <2>1. Good(t) /\ t.rep = "tree" /\ t.size = s.size /\ t.capacity < 2 * SizeFor(n)
    BY <1>1, <1>2, <1>3, <1>4, ToTreeGood DEF Storage
  <2> HIDE DEF t
  <2>2. /\ m \in Storage /\ m.rep = "tree" /\ m.size = n /\ m.free = t.free
        /\ m.alloc = t.alloc /\ m.capacity = t.capacity /\ m.strays = {}
    <3>1. /\ t \in Storage /\ t.start + 0 \in Nat /\ t.free \in Nat /\ t.strays = {}
          /\ t.size - 1 = n
      BY <1>1, <2>1 DEF Good, Storage
    <3>2. m = Occupy(t, t.start + 0, n, t.free)
      BY <3>1 DEF DropOne
    <3> HIDE DEF n
    <3>3. m.size = n /\ m.free = t.free /\ m \in Storage /\ m.strays = t.strays
      BY <1>1, <3>1, <3>2 DEF Occupy, Storage
    <3>4. m.rep = t.rep /\ m.alloc = t.alloc /\ m.capacity = t.capacity
      BY <1>1, <3>1, <3>2 DEF Occupy, Storage
    <3> QED
      BY <2>1, <3>1, <3>3, <3>4
  <2>3. out = RebalancedRoot(lopsided, m)
    BY <1>5 DEF Deleted, r, t
  <2> HIDE DEF m
  <2>4. Good(m)
    BY <1>1, <2>1, <2>2 DEF Good, Storage
  <2>5. Good(Settled(ToArray(m))) /\ Settled(ToArray(m)).size = n
        /\ Settled(ToArray(m)).capacity = SizeFor(n)
    BY <2>2, <2>4, RebuiltGood
  <2> QED
    BY <1>4, <2>1, <2>2, <2>3, <2>4, <2>5 DEF RebalancedRoot
<1>6. CASE ~(r.rep = "tree" \/ DeleteTurnsToTree(r, i))
  <2> DEFINE shift == IF i = r.size - 1 THEN 0 ELSE 1
             m == DropOne(r, shift)
  <2>1. /\ r.rep = "array" /\ r.start \in Nat /\ r.capacity \in Nat /\ r.free \in Nat
        /\ shift \in {0, 1}
    BY <1>3, <1>6 DEF Storage
  <2> HIDE DEF shift
  <2>2. /\ m \in Storage /\ m.size = n /\ m.capacity = r.capacity /\ m.rep = "array"
        /\ m.start = r.start + shift /\ m.alloc = r.alloc /\ m.strays = r.strays
    <3>1. r.start + shift \in Nat /\ r.size - 1 = n
      BY <1>1, <1>2, <2>1
    <3>2. m = Occupy(r, r.start + shift, n, r.free)
      BY <3>1 DEF DropOne
    <3> HIDE DEF n
    <3>3. m.size = n /\ m.start = r.start + shift /\ m \in Storage /\ m.strays = r.strays
      BY <1>1, <1>3, <2>1, <3>1, <3>2 DEF Occupy, Storage
    <3>4. m.rep = r.rep /\ m.alloc = r.alloc /\ m.capacity = r.capacity
      BY <1>1, <1>3, <2>1, <3>1, <3>2 DEF Occupy, Storage
    <3> QED
      BY <2>1, <3>3, <3>4
  <2>3. out = m
    BY <1>6 DEF Deleted, r, shift
  <2> HIDE DEF m
  <2>4. Good(m)
    BY <1>1, <1>2, <2>1, <2>2 DEF Good
  <2> QED
    BY <1>2, <2>2, <2>3, <2>4
<1> QED
  BY <1>5, <1>6

-----------------------------------------------------------------------------
(* The operations                                                          *)

IInv == live \in BOOLEAN /\ supports_marks \in BOOLEAN /\ Good(st)

\* A block of a constructor with n values at its start.
LEMMA ArrayBlockGood ==
  ASSUME NEW capacity \in Nat, NEW alloc \in Nat, NEW start \in Nat, NEW n \in Nat,
         capacity <= alloc, start + n <= capacity
  PROVE  /\ Good(ArrayBlock(capacity, alloc, start, n))
         /\ ArrayBlock(capacity, alloc, start, n).alloc = alloc
BY DEF ArrayBlock, Good, Storage

\* A constructor that also copies values into its block.
LEMMA FilledBlockGood ==
  ASSUME NEW capacity \in Nat, NEW start \in Nat, NEW n \in Nat, start + n <= capacity,
         NEW first \in Nat, NEW last \in Nat, last <= capacity
  PROVE  Good(Settled(Write(ArrayBlock(capacity, capacity, start, n), first, last)))
<1> DEFINE b == ArrayBlock(capacity, capacity, start, n)
<1>1. Good(b) /\ b.alloc = capacity
  BY ArrayBlockGood
<1>2. b \in Storage
  BY <1>1 DEF Good
<1> HIDE DEF b
<1>3. Write(b, first, last) = b
  BY <1>1, <1>2, WriteInside
<1> QED
  BY <1>1, <1>3, SettledGood DEF b

LEMMA ConstructKeeps ==
  ASSUME StorageAssumption, HonestCallers, IInv, ~live, Construct
  PROVE  IInv'
<1>1. ASSUME NEW s, Good(s), Starts(s)
      PROVE  IInv'
  BY <1>1 DEF Starts, Becomes, IInv
<1>2. CASE create
  <2>1. Good(Settled(ArrayBlock(2, 2, 0, 0)))
    BY ArrayBlockGood, SettledGood
  <2> QED
    BY <1>1, <1>2, <2>1 DEF create
<1>3. CASE create_no_array
  <2>1. Good(ArrayBlock(0, 0, 0, 0))
    BY ArrayBlockGood
  <2>2. Good(EmptyTree(0))
    BY DEF EmptyTree, Good, Storage
  <2> QED
    BY <1>1, <1>3, <2>1, <2>2 DEF create_no_array
<1>4. ASSUME NEW n \in 0 .. MaxSize, create_from_sorted_array(n)
      PROVE  IInv'
  <2>1. Good(Settled(Write(ArrayBlock(n, n, 0, n), 0, n)))
    BY FilledBlockGood DEF StorageAssumption
  <2> QED
    BY <1>1, <1>4, <2>1 DEF create_from_sorted_array
<1>5. ASSUME NEW n \in 0 .. MaxSize, NEW capacity \in 0 .. MaxCapacity, NEW gap \in StealGap,
             create_steal_sorted_array(n, capacity, gap)
      PROVE  IInv'
  <2>1. gap \in Nat /\ capacity + gap \in Nat /\ capacity <= capacity + gap /\ n <= capacity
    BY <1>5 DEF StorageAssumption, HonestCallers, create_steal_sorted_array
  <2>2. Good(ArrayBlock(capacity, capacity + gap, 0, n))
    BY <2>1, ArrayBlockGood DEF StorageAssumption
  <2> QED
    BY <1>1, <1>5, <2>2, SettledGood DEF create_steal_sorted_array
<1>6. ASSUME NEW left \in 0 .. MaxSize, NEW right \in 0 .. MaxSize,
             NEW capacity \in 0 .. MaxCapacity, NEW start \in 0 .. MaxCapacity,
             merge(capacity, start, left, right)
      PROVE  IInv'
  <2>1. left \in Nat /\ right \in Nat /\ capacity \in Nat /\ start \in Nat
    BY DEF StorageAssumption
  <2>2. ASSUME start + left <= capacity, capacity - (start + left) >= right
        PROVE  Good(Settled(Write(ArrayBlock(capacity, capacity, start, left + right),
                                  start + left, start + left + right)))
    <3>1. /\ start + (left + right) <= capacity /\ left + right \in Nat
          /\ start + left \in Nat /\ start + left + right \in Nat
          /\ start + left + right <= capacity
      BY <2>1, <2>2
    <3> QED
      BY <2>1, <3>1, FilledBlockGood
  <2>3. Good(Settled(Write(ArrayBlock(left + right, left + right, 0, left + right),
                           0, left + right)))
    <3>1. left + right \in Nat /\ 0 + (left + right) <= left + right
      BY <2>1
    <3> QED
      BY <3>1, FilledBlockGood
  <2> QED
    BY <1>1, <1>6, <2>2, <2>3 DEF merge
<1> QED
  BY <1>2, <1>3, <1>4, <1>5, <1>6 DEF Construct

LEMMA ChangeKeeps ==
  ASSUME StorageAssumption, IInv, live, Change
  PROVE  IInv'
<1>1. ASSUME NEW s, Good(s), Continues(s)
      PROVE  IInv'
  BY <1>1 DEF Continues, Becomes, IInv
<1>2. /\ Good(st) /\ st \in Storage /\ st.size \in Nat /\ st.start \in Nat /\ st.free \in Nat
      /\ st.capacity \in Nat /\ st.rep \in {"array", "tree"} /\ st.strays = {}
      /\ st.capacity <= st.alloc
  BY DEF IInv, Good, Storage
<1>3. CASE clear
  <2> DEFINE zero == 0
  <2>1. zero \in Nat /\ zero + zero <= st.capacity /\ zero <= zero /\ zero <= st.capacity
    BY <1>2
  <2> HIDE DEF zero
  <2>2. Good(Occupy(st, zero, zero, zero))
    BY <1>2, <2>1, OccupyGood
  <2> QED
    BY <1>1, <1>3, <2>2 DEF clear, zero
<1>4. CASE destroy
  <2>1. Good(ArrayBlock(0, 0, 0, 0))
    BY ArrayBlockGood
  <2> QED
    BY <1>4, <2>1 DEF destroy, Becomes, IInv
<1>5. ASSUME NEW i \in 0 .. MaxSize, NEW lopsided \in BOOLEAN, insert_at(i, lopsided)
      PROVE  IInv'
  <2>1. i \in Nat /\ i <= st.size
    BY <1>5 DEF insert_at, StorageAssumption
  <2> QED
    BY <1>1, <1>2, <1>5, <2>1, InsertedGood DEF insert_at
<1>6. ASSUME NEW i \in 0 .. MaxSize, NEW lopsided \in BOOLEAN, delete_at(i, lopsided)
      PROVE  IInv'
  <2>1. i \in Nat /\ i < st.size
    BY <1>6 DEF delete_at, StorageAssumption
  <2> QED
    BY <1>1, <1>2, <1>6, <2>1, DeletedGood DEF delete_at
<1>7. ASSUME NEW i \in 0 .. MaxSize, split_at(i)
      PROVE  IInv'
  <2> DEFINE a == ToArray(st)
             b == Occupy(a, a.start, i, 0)
  <2>1. i \in Nat /\ i <= st.size
    BY <1>7 DEF split_at, StorageAssumption
  <2>2. Good(a) /\ a.rep = "array" /\ a.size = st.size
    BY <1>2, ToArrayGood
  <2>3. a \in Storage /\ a.start \in Nat /\ a.capacity \in Nat
    BY <2>2 DEF Good, Storage
  <2> HIDE DEF a
  <2>4. /\ b \in Storage /\ b.rep = "array" /\ b.size = i /\ b.start = a.start
        /\ b.capacity = a.capacity /\ b.alloc = a.alloc /\ b.strays = a.strays
    BY <2>1, <2>2, <2>3 DEF Occupy, Storage
  <2> HIDE DEF b
  <2>5. Good(b)
    BY <1>2, <2>1, <2>2, <2>3, <2>4 DEF Good
  <2>6. i <= SizeFor(i)
    BY <2>1, SizeForFacts
  <2>7. Good(ResizedArray(b, i))
    BY <2>1, <2>4, <2>5, <2>6, ResizedArrayGood
  <2>8. Good(Settled(ResizedArray(b, i)))
    BY <2>7, SettledGood
  <2> QED
    BY <1>1, <1>7, <2>8 DEF split_at, a, b
<1>8. ASSUME NEW k \in 1 .. MaxSize, delete_all_marked(k)
      PROVE  IInv'
  <2> DEFINE left == st.size - k
  <2>1. st.rep = "tree" /\ left \in Nat /\ left <= st.size
    BY <1>2, <1>8 DEF delete_all_marked, StorageAssumption
  <2> HIDE DEF left
  <2>2. Good(Occupy(st, st.start, left, st.free))
    <3>1. st.size <= st.free /\ st.free <= st.capacity
      BY <1>2, <2>1 DEF Good
    <3> QED
      BY <1>2, <2>1, <3>1, OccupyGood
  <2>3. ASSUME NEW m \in left .. st.size
        PROVE  Good(Occupy(Move(Occupy(st, st.start, m, st.free), "tree", m), 0, left, m))
    <3> DEFINE o == Occupy(st, st.start, m, st.free)
               t == Move(o, "tree", m)
    <3>1. m \in Nat /\ left <= m /\ m <= st.size
      BY <1>2, <2>1
    <3>2. Good(o) /\ o.size = m
      <4>1. st.size <= st.free /\ st.free <= st.capacity
        BY <1>2, <2>1 DEF Good
      <4> QED
        BY <1>2, <2>1, <3>1, <4>1, OccupyGood
    <3> HIDE DEF o
    <3>3. SizeFor(m) \in Nat /\ m <= SizeFor(m)
      BY <3>1, SizeForFacts
    <3>4. /\ Good(t) /\ t.rep = "tree" /\ t.free = m /\ t.capacity = SizeFor(m)
      BY <3>1, <3>2, <3>3, MoveGood
    <3>5. t \in Storage /\ t.strays = {} /\ t.capacity <= t.alloc
      BY <3>4 DEF Good
    <3> HIDE DEF t
    <3> DEFINE zero == 0
    <3>6. zero \in Nat
      OBVIOUS
    <3>7. left <= m /\ m <= t.capacity
      BY <3>1, <3>3, <3>4
    <3> HIDE DEF zero
    <3>8. Good(Occupy(t, zero, left, m))
      BY <2>1, <3>1, <3>4, <3>5, <3>6, <3>7, OccupyGood
    <3> QED
      BY <3>8 DEF o, t, zero
  <2> QED
    BY <1>1, <1>8, <2>2, <2>3 DEF delete_all_marked, left
<1> QED
  BY <1>3, <1>4, <1>5, <1>6, <1>7, <1>8 DEF Change

LEMMA InitHolds == ASSUME Init PROVE IInv
<1>1. Good(ArrayBlock(0, 0, 0, 0))
  BY ArrayBlockGood
<1> QED
  BY <1>1 DEF Init, IInv

LEMMA StepKeeps ==
  ASSUME StorageAssumption, HonestCallers, IInv, [Next]_vars
  PROVE  IInv'
<1>1. CASE ~live /\ Construct
  BY <1>1, ConstructKeeps
<1>2. CASE live /\ Change
  BY <1>2, ChangeKeeps
<1>3. CASE UNCHANGED vars
  BY <1>3 DEF vars, IInv, Good, Storage
<1> QED
  BY <1>1, <1>2, <1>3 DEF Next

\* The invariant holds in every reachable state, whatever the number of values.
THEOREM InvariantHolds ==
  ASSUME HonestCallers
  PROVE  Spec => []IInv
<1>1. Init => IInv
  BY InitHolds
<1>2. IInv /\ [Next]_vars => IInv'
  BY StepKeeps, StorageAssumption
<1> QED
  BY <1>1, <1>2, PTL DEF Spec

\* The storage of an omt always has the fields and ranges of omt.h: start_idx
\* never goes below 0 on a prepend, no count wraps below 0 on a deletion.
THEOREM StorageTypeCorrect ==
  ASSUME HonestCallers
  PROVE  Spec => []TypeOK
<1>1. IInv => TypeOK
  BY DEF IInv, Good, TypeOK
<1> QED
  BY <1>1, InvariantHolds, PTL

\* However many values an omt holds, and in whatever order it was edited,
\* split, merged and cleared, no call writes outside its block: the checks of
\* maybe_resize_or_convert leave room for the append, the prepend and the
\* node_malloc that follow.
THEOREM NoStrayWriteEver ==
  ASSUME HonestCallers
  PROVE  Spec => []NoStrayWrite
<1>1. IInv => NoStrayWrite
  BY DEF IInv, Good, NoStrayWrite
<1> QED
  BY <1>1, InvariantHolds, PTL

\* The values of an omt are always inside its block, and the nodes of a tree
\* among those that node_malloc has handed out.
THEOREM ValuesPlaced ==
  ASSUME HonestCallers
  PROVE  Spec => []Placed
<1>1. IInv => Placed
  BY DEF IInv, Good, Placed
<1> QED
  BY <1>1, InvariantHolds, PTL

LEMMA EditLinear ==
  ASSUME StorageAssumption, IInv,
         NEW i \in 0 .. MaxSize, NEW lopsided \in BOOLEAN,
         insert_at(i, lopsided) \/ delete_at(i, lopsided)
  PROVE  st'.capacity < 8 \/ st'.capacity < 4 * st'.size
<1>1. Good(st) /\ st.size \in Nat /\ i \in Nat
  BY DEF IInv, Good, Storage, StorageAssumption
<1>2. CASE insert_at(i, lopsided)
  <2>1. Good(st') /\ st'.size \in Nat /\ st'.capacity < 2 * SizeFor(st'.size)
    BY <1>1, <1>2, InsertedGood DEF insert_at, Continues, Becomes
  <2> QED
    BY <2>1 DEF SizeFor, Good, Storage
<1>3. CASE delete_at(i, lopsided)
  <2>1. Good(st') /\ st'.size \in Nat /\ st'.capacity < 2 * SizeFor(st'.size)
    BY <1>1, <1>3, DeletedGood DEF delete_at, Continues, Becomes
  <2> QED
    BY <2>1 DEF SizeFor, Good, Storage
<1> QED
  BY <1>2, <1>3

\* "The memory required is O(|V|)": after every insert_at and delete_at, fewer
\* than max(8, 4|V|) slots, for every size.
THEOREM EditsKeepLinear ==
  ASSUME HonestCallers
  PROVE  Spec => EditKeepsLinear
<1>1. IInv /\ [Next]_vars =>
        [(\E i \in 0 .. MaxSize, lopsided \in BOOLEAN :
             insert_at(i, lopsided) \/ delete_at(i, lopsided))
         => st'.capacity < 8 \/ st'.capacity < 4 * st'.size]_vars
  BY EditLinear, StorageAssumption
<1> QED
  BY <1>1, InvariantHolds, PTL DEF Spec, EditKeepsLinear
=============================================================================
