--------------------------- MODULE Memarena_proofs ---------------------------
(***************************************************************************)
(* For any number of arenas and any sizes: no block is lost or freed       *)
(* twice, the pieces that were handed out lie apart from one another in    *)
(* blocks that are still held, and an iterator meets each of them once.    *)
(*                                                                         *)
(* All of it comes from one fact: an address is in at most one place of    *)
(* one arena.  What a call does to an arena is first said place by place.  *)
(***************************************************************************)
EXTENDS Memarena, TLAPS, FiniteSetTheorems, WellFoundedInduction

-----------------------------------------------------------------------------
(* Sums over a finite set, as MapThenSumSet of the community modules makes *)
(* them: by a function on the subsets of the set that takes one element    *)
(* after the other, in an order that is not known.  To reason about such a *)
(* sum each element x is laid out as g[x] pebbles.  The number of pebbles  *)
(* satisfies the equation of the sum, and by induction on the size of the  *)
(* subset, in the form of the least number principle, nothing else does.   *)

\* The least number principle: the form in which these proofs use induction.
LEMMA LeastNumber ==
    ASSUME NEW T, T \subseteq Nat, T # {}
    PROVE  \E x \in T : \A y \in T : x <= y
  <1> DEFINE R == OpToRel(<, Nat)
  <1>1. IsWellFoundedOn(R, Nat)
    BY NatLessThanWellFounded
  <1>2. \A p : p \in R <=> p \in Nat \X Nat /\ p[1] < p[2]
    BY DEF OpToRel
  <1> HIDE DEF R
  <1>3. PICK x \in T : \A y \in T : ~ (<<y, x>> \in R)
    BY <1>1, WFMin
  <1>4. \A y \in T : ~ (y < x)
    BY <1>2, <1>3
  <1> QED  BY <1>3, <1>4

Pebbles(g, S) == UNION {{x} \X (1 .. g[x]) : x \in S}

Total(g, S) == Cardinality(Pebbles(g, S))

LEMMA PebblesOf ==
    ASSUME NEW g, NEW S
    PROVE  \A p : p \in Pebbles(g, S) <=> p = <<p[1], p[2]>> /\ p[1] \in S /\ p[2] \in 1 .. g[p[1]]
  BY DEF Pebbles

LEMMA OnePile ==
    ASSUME NEW x, NEW n \in Nat
    PROVE  IsFiniteSet({x} \X (1 .. n)) /\ Cardinality({x} \X (1 .. n)) = n
  <1>1. IsFiniteSet({x}) /\ Cardinality({x}) = 1
    BY FS_Singleton
  <1>2. IsFiniteSet(1 .. n) /\ Cardinality(1 .. n) = n
    <2>1. IsFiniteSet(1 .. n) /\ Cardinality(1 .. n) = IF 1 > n THEN 0 ELSE n - 1 + 1
      BY FS_Interval
    <2> QED  BY <2>1
  <1> DEFINE A == {x}
             B == 1 .. n
  <1>3. IsFiniteSet(A \X B) /\ Cardinality(A \X B) = Cardinality(A) * Cardinality(B)
    <2> HIDE DEF A, B
    <2> QED  BY <1>1, <1>2, FS_Product DEF A, B
  <1>4. Cardinality(A) * Cardinality(B) = n
    <2>1. Cardinality(A) = 1 /\ Cardinality(B) = n
      BY <1>1, <1>2
    <2> HIDE DEF A, B
    <2> QED  BY <2>1
  <1> QED  BY <1>3, <1>4

LEMMA PebblesFinite ==
    ASSUME NEW S, IsFiniteSet(S), NEW g, \A x \in S : g[x] \in Nat
    PROVE  IsFiniteSet(Pebbles(g, S)) /\ Total(g, S) \in Nat
  <1> DEFINE piles == {{x} \X (1 .. g[x]) : x \in S}
             pile == [x \in S |-> {x} \X (1 .. g[x])]
  <1>1. IsFiniteSet(piles)
    <2>1. pile \in Surjection(S, piles)
      BY DEF Surjection
    <2> QED  BY <2>1, FS_Surjection
  <1>2. \A p \in piles : IsFiniteSet(p)
    <2> SUFFICES ASSUME NEW x \in S PROVE IsFiniteSet({x} \X (1 .. g[x]))
      OBVIOUS
    <2>1. g[x] \in Nat
      OBVIOUS
    <2> QED  BY <2>1, OnePile
  <1> HIDE DEF piles
  <1>3. IsFiniteSet(UNION piles)
    BY <1>1, <1>2, FS_UNION
  <1>4. IsFiniteSet(Pebbles(g, S))
    BY <1>3 DEF Pebbles, piles
  <1> QED  BY <1>4, FS_CardinalityType DEF Total

\* One element of the set taken out.
LEMMA TotalStep ==
    ASSUME NEW S, IsFiniteSet(S), NEW g, \A y \in S : g[y] \in Nat, NEW x \in S
    PROVE  Total(g, S) = g[x] + Total(g, S \ {x})
  <1> DEFINE P == {x} \X (1 .. g[x])
             Q == Pebbles(g, S \ {x})
  <1>1. IsFiniteSet(S \ {x})
    BY FS_Subset
  <1>2. IsFiniteSet(P) /\ Cardinality(P) = g[x]
    BY OnePile
  <1>3. IsFiniteSet(Q) /\ Cardinality(Q) \in Nat
    BY <1>1, PebblesFinite DEF Total
  <1>4. Pebbles(g, S) = P \cup Q /\ P \cap Q = {}
    BY DEF Pebbles
  <1> HIDE DEF P, Q
  <1>5. Cardinality(P \cup Q) = Cardinality(P) + Cardinality(Q) - Cardinality({})
    BY <1>2, <1>3, <1>4, FS_Union
  <1>6. Cardinality({}) = 0
    BY FS_EmptySet
  <1>7. Total(g, S) = Cardinality(P) + Cardinality(Q)
    BY <1>2, <1>3, <1>4, <1>5, <1>6 DEF Total
  <1> QED  BY <1>2, <1>7 DEF Total, Q

LEMMA TotalEmpty ==
    ASSUME NEW g
    PROVE  Total(g, {}) = 0
  <1>1. Pebbles(g, {}) = {}
    BY DEF Pebbles
  <1> QED  BY <1>1, FS_EmptySet DEF Total

\* What MapThenSumSet makes: a function that satisfies this is the number of
\* pebbles, and there is one.
Sums(iter, g, S) ==
    iter = [s \in SUBSET S |-> IF s = {} THEN 0
                               ELSE g[CHOOSE x \in s : TRUE] + iter[s \ {CHOOSE x \in s : TRUE}]]

LEMMA TotalSums ==
    ASSUME NEW S, IsFiniteSet(S), NEW g, \A x \in S : g[x] \in Nat
    PROVE  Sums([s \in SUBSET S |-> Total(g, s)], g, S)
  <1> DEFINE iter == [s \in SUBSET S |-> Total(g, s)]
  <1> SUFFICES ASSUME NEW s \in SUBSET S
               PROVE  Total(g, s) = IF s = {} THEN 0
                          ELSE g[CHOOSE x \in s : TRUE] + iter[s \ {CHOOSE x \in s : TRUE}]
    BY DEF Sums
  <1>1. CASE s = {}
    BY <1>1, TotalEmpty
  <1>2. CASE s # {}
    <2>1. PICK x : x = CHOOSE y \in s : TRUE
      OBVIOUS
    <2>2. x \in s
      BY <1>2, <2>1
    <2>3. IsFiniteSet(s) /\ \A y \in s : g[y] \in Nat
      BY FS_Subset
    <2>4. Total(g, s) = g[x] + Total(g, s \ {x})
      BY <2>2, <2>3, TotalStep
    <2>5. s \ {x} \in SUBSET S
      OBVIOUS
    <2> QED  BY <1>2, <2>1, <2>4, <2>5
  <1> QED  BY <1>1, <1>2

LEMMA SumsAreTotals ==
    ASSUME NEW S, IsFiniteSet(S), NEW g, \A x \in S : g[x] \in Nat, NEW iter, Sums(iter, g, S)
    PROVE  iter[S] = Total(g, S)
  <1>1. \A s \in SUBSET S : IsFiniteSet(s) /\ Cardinality(s) \in Nat
    BY FS_Subset, FS_CardinalityType
  <1> DEFINE wrong == {s \in SUBSET S : iter[s] # Total(g, s)}
             T == {Cardinality(s) : s \in wrong}
  <1>2. ASSUME T # {} PROVE FALSE
    <2>1. T \subseteq Nat
      BY <1>1
    <2> HIDE DEF T
    <2>2. PICK n \in T : \A m \in T : n <= m
      BY <1>2, <2>1, LeastNumber
    <2>3. PICK s \in wrong : n = Cardinality(s)
      BY <2>2 DEF T
    <2>4. s # {}
      <3>1. iter[{}] = 0
        BY DEF Sums
      <3> QED  BY <3>1, <2>3, TotalEmpty
    <2>5. PICK x : x = CHOOSE y \in s : TRUE
      OBVIOUS
    <2>6. x \in s
      BY <2>4, <2>5
    <2>7. s \in SUBSET S /\ s \ {x} \in SUBSET S /\ iter[s] # Total(g, s)
      BY <2>3
    <2>8. iter[s] = g[x] + iter[s \ {x}]
      BY <2>4, <2>5, <2>7 DEF Sums
    <2>9. Total(g, s) = g[x] + Total(g, s \ {x})
      BY <1>1, <2>6, <2>7, TotalStep
    <2>10. s \ {x} \in wrong
      BY <2>7, <2>8, <2>9
    <2>11. Cardinality(s \ {x}) = n - 1 /\ n \in Nat
      BY <1>1, <2>3, <2>6, <2>7, FS_RemoveElement
    <2>12. n - 1 \in T
      BY <2>10, <2>11 DEF T
    <2> QED  BY <2>2, <2>11, <2>12
  <1> QED  BY <1>2

LEMMA TotalSame ==
    ASSUME NEW S, NEW g, NEW h, \A x \in S : g[x] = h[x]
    PROVE  Total(g, S) = Total(h, S)
  <1>1. Pebbles(g, S) = Pebbles(h, S)
    <2>1. {{x} \X (1 .. g[x]) : x \in S} = {{x} \X (1 .. h[x]) : x \in S}
      OBVIOUS
    <2> QED  BY <2>1 DEF Pebbles
  <1> QED  BY <1>1 DEF Total

LEMMA TotalAdd ==
    ASSUME NEW S, IsFiniteSet(S), NEW x, x \notin S, NEW g, \A y \in S \cup {x} : g[y] \in Nat
    PROVE  Total(g, S \cup {x}) = Total(g, S) + g[x]
  <1> DEFINE R == S \cup {x}
  <1>1. IsFiniteSet(R)
    BY FS_AddElement
  <1>2. x \in R /\ R \ {x} = S
    OBVIOUS
  <1>3. Total(g, S) \in Nat /\ g[x] \in Nat
    BY PebblesFinite
  <1> HIDE DEF R
  <1>4. Total(g, R) = g[x] + Total(g, R \ {x})
    BY <1>1, <1>2, TotalStep DEF R
  <1> QED  BY <1>2, <1>3, <1>4 DEF R

\* What every element of one set has, an element of its own in the other covers.
LEMMA TotalCovered ==
    ASSUME NEW S, IsFiniteSet(S), NEW R, IsFiniteSet(R),
           NEW g, \A x \in S : g[x] \in Nat,
           NEW h, \A y \in R : h[y] \in Nat,
           NEW f, \A x \in S : g[x] # 0 => f[x] \in R /\ g[x] <= h[f[x]],
           \A x, y \in S : g[x] # 0 /\ g[y] # 0 /\ f[x] = f[y] => x = y
    PROVE  Total(g, S) <= Total(h, R)
  <1> DEFINE P == Pebbles(g, S)
             Q == Pebbles(h, R)
             m == [p \in P |-> <<f[p[1]], p[2]>>]
  <1>1. IsFiniteSet(P) /\ IsFiniteSet(Q)
    BY PebblesFinite
  <1>2. ASSUME NEW p \in P
        PROVE  /\ p = <<p[1], p[2]>> /\ p[1] \in S /\ g[p[1]] # 0 /\ p[2] \in Nat
               /\ <<f[p[1]], p[2]>> \in Q
    <2>1. p = <<p[1], p[2]>> /\ p[1] \in S /\ p[2] \in 1 .. g[p[1]]
      BY PebblesOf
    <2>2. g[p[1]] \in Nat /\ g[p[1]] # 0 /\ p[2] \in Nat
      BY <2>1
    <2>3. f[p[1]] \in R /\ h[f[p[1]]] \in Nat /\ g[p[1]] <= h[f[p[1]]]
      BY <2>1, <2>2
    <2>4. p[2] \in 1 .. h[f[p[1]]]
      BY <2>1, <2>2, <2>3
    <2>5. <<f[p[1]], p[2]>> \in Q
      BY <2>3, <2>4 DEF Pebbles
    <2> QED  BY <2>1, <2>2, <2>5
  <1>3. m \in [P -> Q]
    BY <1>2
  <1>4. ASSUME NEW p \in P, NEW q \in P, m[p] = m[q] PROVE p = q
    <2>1. f[p[1]] = f[q[1]] /\ p[2] = q[2]
      BY <1>4
    <2>2. p[1] = q[1]
      BY <1>2, <2>1
    <2> QED  BY <1>2, <2>1, <2>2
  <1> HIDE DEF m, P, Q
  <1>5. m \in Injection(P, Q)
    BY <1>3, <1>4 DEF Injection, IsInjective
  <1>6. Cardinality(P) <= Cardinality(Q)
    BY <1>1, <1>5, FS_Injection
  <1> QED  BY <1>6 DEF Total, P, Q

LEMMA TotalUnion ==
    ASSUME NEW S, IsFiniteSet(S), NEW R, IsFiniteSet(R), S \cap R = {},
           NEW g, \A x \in S \cup R : g[x] \in Nat
    PROVE  Total(g, S \cup R) = Total(g, S) + Total(g, R)
  <1> DEFINE P == Pebbles(g, S)
             Q == Pebbles(g, R)
  <1>1. IsFiniteSet(P) /\ Cardinality(P) \in Nat /\ IsFiniteSet(Q) /\ Cardinality(Q) \in Nat
    BY PebblesFinite DEF Total
  <1>2. Pebbles(g, S \cup R) = P \cup Q /\ P \cap Q = {}
    BY DEF Pebbles
  <1> HIDE DEF P, Q
  <1>3. Cardinality(P \cup Q) = Cardinality(P) + Cardinality(Q) - Cardinality({})
    BY <1>1, <1>2, FS_Union
  <1>4. Cardinality({}) = 0
    BY FS_EmptySet
  <1>5. Total(g, S \cup R) = Cardinality(P) + Cardinality(Q)
    <2>1. Total(g, S \cup R) = Cardinality(P \cup Q)
      BY <1>2 DEF Total
    <2> QED  BY <1>1, <1>3, <1>4, <2>1
  <1> QED  BY <1>5 DEF Total, P, Q

\* Two sums over the same amounts, given by a bijection and its inverse.
SameAmounts(g, S, h, R, f, e) ==
    /\ \A x \in S : g[x] \in Nat /\ f[x] \in R /\ g[x] = h[f[x]] /\ e[f[x]] = x
    /\ \A y \in R : h[y] \in Nat /\ e[y] \in S /\ f[e[y]] = y

LEMMA TotalMoved ==
    ASSUME NEW S, IsFiniteSet(S), NEW R, IsFiniteSet(R), NEW g, NEW h, NEW f, NEW e,
           SameAmounts(g, S, h, R, f, e)
    PROVE  Total(g, S) = Total(h, R)
  <1> USE DEF SameAmounts
  <1>1. Total(g, S) <= Total(h, R)
    <2>1. \A x \in S : g[x] # 0 => f[x] \in R /\ g[x] <= h[f[x]]
      OBVIOUS
    <2>2. \A x, y \in S : g[x] # 0 /\ g[y] # 0 /\ f[x] = f[y] => x = y
      OBVIOUS
    <2> QED  BY <2>1, <2>2, TotalCovered
  <1>2. Total(h, R) <= Total(g, S)
    <2>1. \A y \in R : h[y] # 0 => e[y] \in S /\ h[y] <= g[e[y]]
      OBVIOUS
    <2>2. \A x, y \in R : h[x] # 0 /\ h[y] # 0 /\ e[x] = e[y] => x = y
      OBVIOUS
    <2> QED  BY <2>1, <2>2, TotalCovered
  <1>3. Total(g, S) \in Nat /\ Total(h, R) \in Nat
    BY PebblesFinite
  <1> QED  BY <1>1, <1>2, <1>3

-----------------------------------------------------------------------------
(* The places of an arena, and what is true of them.                       *)

\* The places of an arena for a chunk: 0 is the current one.
Places(a) == 0 .. Len(arena[a].others)
At(a, k) == IF k = 0 THEN arena[a].current ELSE arena[a].others[k]

Aside == Seq(Chunk)
Fields == [current : Chunk, others : Aside, size_of_others : Nat, footprint_of_others : Nat]
Piece == [holder : Arena, buf : Buf, at : Nat, size : Nat \ {0}]

\* The inductive invariant.
Typed ==
    /\ arena \in [Arena -> Fields]
    /\ heap \in [Buf -> Nat]
    /\ objects \subseteq Piece
    /\ created \subseteq Arena /\ aborted \in BOOLEAN /\ misused \in BOOLEAN

\* A chunk without a block is empty; the block of any other is allocated.
Backed ==
    \A a \in Arena : \A k \in Places(a) :
        IF At(a, k).buf = NULL THEN At(a, k) = NoChunk
        ELSE heap[At(a, k).buf] = UsableSize(At(a, k).size)

Unshared ==
    \A a, c \in Arena : \A k \in Places(a), l \in Places(c) :
        At(a, k).buf # NULL /\ At(a, k).buf = At(c, l).buf => a = c /\ k = l

Owned == \A b \in Buf : Free(b) \/ \E a \in Arena : \E k \in Places(a) : At(a, k).buf = b

Unused == \A a \in Arena \ created : arena[a].current = NoChunk /\ arena[a].others = <<>>

Lies(o, k) == At(o.holder, k).buf = o.buf /\ o.at + o.size <= At(o.holder, k).used
Inside == \A o \in objects : \E k \in Places(o.holder) : Lies(o, k)

Disjoint(o, q) == o.at + o.size <= q.at \/ q.at + q.size <= o.at
Apart == \A o, q \in objects : o # q /\ o.buf = q.buf => Disjoint(o, q)

\* A current chunk of no bytes comes from a request for none.
Blamed ==
    /\ \A a \in Arena : arena[a].current.buf # NULL /\ arena[a].current.size = 0 => misused
    /\ aborted => misused

IInv == Typed /\ Backed /\ Unshared /\ Owned /\ Unused /\ Inside /\ Apart /\ Blamed
-----------------------------------------------------------------------------
(* Sizes.                                                                  *)
LEMMA Usable ==
    ASSUME NEW size \in Nat
    PROVE  UsableSize(size) \in Nat \ {0} /\ size <= UsableSize(size)
  BY DEF UsableSize

LEMMA MaxOfTwo ==
    ASSUME NEW i \in Int, NEW j \in Int
    PROVE  F!Max({i, j}) = IF i >= j THEN i ELSE j
  BY DEF F!Max

LEMMA MinOfTwo ==
    ASSUME NEW i \in Int, NEW j \in Int
    PROVE  F!Min({i, j}) = IF i <= j THEN i ELSE j
  BY DEF F!Min

LEMMA Footprint ==
    ASSUME NEW chunk \in Chunk
    PROVE  toku_memory_footprint(chunk) \in Nat
  <1>1. chunk.used \in Nat /\ chunk.size \in Nat
    BY DEF Chunk
  <1> DEFINE pages == (chunk.used + PageSize) \div PageSize
  <1>2. pages \in Nat
    BY <1>1, ArenaAssumption
  <1> HIDE DEF pages
  <1>3. pages * PageSize \in Nat
    BY <1>2, ArenaAssumption
  <1>4. UsableSize(chunk.size) \in Nat
    BY <1>1, Usable
  <1> QED  BY <1>3, <1>4 DEF toku_memory_footprint, pages

\* Rounding never makes a size smaller, as long as it is not near the width.
LEMMA RoundsUp ==
    ASSUME NEW n \in Nat, n + PageSize < WordSize
    PROVE  round_to_page(n) \in Nat /\ n <= round_to_page(n)
  <1> DEFINE before == (n - 1) % WordSize
             over == before % PageSize
  <1>1. PageSize \in Nat \ {0} /\ WordSize \in Nat \ {0}
    BY ArenaAssumption
  <1>2. before \in 0 .. WordSize - 1
    BY <1>1
  <1>3. over \in 0 .. PageSize - 1
    BY <1>1, <1>2
  <1>4. round_to_page(n) = (PageSize + before - over) % WordSize
    BY DEF round_to_page
  <1>5. CASE n = 0
    <2> HIDE DEF before, over
    <2> QED  BY <1>1, <1>2, <1>3, <1>4, <1>5
  <1>6. CASE n # 0
    <2>1. before = n - 1
      BY <1>1, <1>6
    <2> HIDE DEF before, over
    <2>2. PageSize + before - over \in n .. WordSize - 1
      BY <1>1, <1>3, <2>1
    <2>3. \A y \in 0 .. WordSize - 1 : y % WordSize = y
      BY <1>1
    <2> QED  BY <1>1, <1>4, <2>2, <2>3
  <1> QED  BY <1>5, <1>6

\* "so the current allocation always fit" (memarena.cc, line 100)
LEMMA NewSizeFits ==
    ASSUME NEW current_size \in Nat, NEW size \in Size
    PROVE  NewSize(current_size, size) \in Nat /\ size <= NewSize(current_size, size)
  <1>1. /\ size \in Nat /\ MaxChunkSize \in Nat /\ PageSize \in Nat /\ WordSize \in Nat
        /\ 2 * size + PageSize < WordSize /\ 2 * MaxChunkSize + PageSize < WordSize
    BY ArenaAssumption
  <1> DEFINE least == F!Min({MaxChunkSize, 2 * current_size})
             n == F!Max({least, size})
  <1>2. least \in Nat /\ least <= MaxChunkSize
    BY <1>1, MinOfTwo
  <1> HIDE DEF least
  <1>3. n \in Nat /\ size <= n /\ n + PageSize < WordSize
    BY <1>1, <1>2, MaxOfTwo
  <1> HIDE DEF n
  <1>4. round_to_page(n) \in Nat /\ n <= round_to_page(n)
    BY <1>3, RoundsUp
  <1>5. NewSize(current_size, size) = round_to_page(n)
    BY DEF NewSize, n, least
  <1> QED  BY <1>1, <1>3, <1>4, <1>5

(* Chunks and places.                                                      *)
LEMMA ChunkFields ==
    ASSUME NEW c \in Chunk
    PROVE  c.buf \in Buf \cup {NULL} /\ c.used \in Nat /\ c.size \in Nat /\ c.used <= c.size
  BY DEF Chunk

LEMMA ChunkOf ==
    ASSUME NEW b \in Buf \cup {NULL}, NEW size \in Nat, NEW used \in Nat, used <= size
    PROVE  [buf |-> b, used |-> used, size |-> size] \in Chunk
  BY DEF Chunk

LEMMA FirstChunk ==
    ASSUME NEW b, NEW size
    PROVE  [NoChunk EXCEPT !.buf = b, !.size = size] = [buf |-> b, used |-> 0, size |-> size]
  <1> DEFINE c == [NoChunk EXCEPT !.buf = b, !.size = size]
  <1>1. c = [x \in {"buf", "used", "size"} |-> c[x]] /\ c.buf = b /\ c.used = 0 /\ c.size = size
    BY DEF NoChunk
  <1> HIDE DEF c
  <1>2. c = [buf |-> b, used |-> 0, size |-> size]
    BY <1>1
  <1> QED  BY <1>2 DEF c

LEMMA NoChunkFields ==
    NoChunk \in Chunk /\ NoChunk.buf = NULL /\ NoChunk.used = 0 /\ NoChunk.size = 0
  BY DEF NoChunk, Chunk

LEMMA FieldsMade ==
    ASSUME NEW c \in Chunk
    PROVE  LET f == [Constructed EXCEPT !.current = c]
           IN  /\ f \in Fields /\ f.current = c /\ f.others = <<>>
               /\ Constructed \in Fields /\ Constructed.current = NoChunk /\ Constructed.others = <<>>
  <1>1. <<>> \in Aside
    BY DEF Aside
  <1> QED  BY <1>1, NoChunkFields DEF Constructed, Fields

LEMMA FieldsCleared ==
    ASSUME NEW f \in Fields
    PROVE  LET g == [f EXCEPT !.current = NoChunk, !.others = <<>>]
           IN  g \in Fields /\ g.current = NoChunk /\ g.others = <<>>
  <1>1. <<>> \in Aside
    BY DEF Aside
  <1> QED  BY <1>1, NoChunkFields DEF Fields

LEMMA Contents ==
    ASSUME Typed, NEW a \in Arena
    PROVE  /\ arena[a] \in Fields /\ arena[a].current \in Chunk /\ arena[a].others \in Seq(Chunk)
           /\ arena[a].others \in Aside
           /\ arena[a].size_of_others \in Nat /\ arena[a].footprint_of_others \in Nat
           /\ Len(arena[a].others) \in Nat
           /\ 0 \in Places(a) /\ At(a, 0) = arena[a].current
           /\ \A k \in Places(a) : At(a, k) \in Chunk
  <1>1. /\ arena[a] \in Fields /\ arena[a].current \in Chunk /\ arena[a].others \in Aside
        /\ arena[a].size_of_others \in Nat /\ arena[a].footprint_of_others \in Nat
    BY DEF Typed, Fields
  <1>2. \A k \in Places(a) : At(a, k) \in Chunk
    BY <1>1 DEF Places, At, Aside
  <1> QED  BY <1>1, <1>2 DEF Places, At, Aside

\* The sequence Chunks(a) numbers the same places from 1.
LEMMA ChunksAreAt ==
    ASSUME Typed, NEW a \in Arena
    PROVE  /\ DOMAIN Chunks(a) = 1 .. Len(arena[a].others) + 1
           /\ \A k \in Places(a) : k + 1 \in DOMAIN Chunks(a) /\ Chunks(a)[k + 1] = At(a, k)
           /\ \A i \in DOMAIN Chunks(a) : i - 1 \in Places(a) /\ Chunks(a)[i] = At(a, i - 1)
  <1>1. /\ arena[a].current \in Chunk /\ arena[a].others \in Seq(Chunk)
        /\ Len(arena[a].others) \in Nat
    BY Contents
  <1> DEFINE q == arena[a].others
             r == <<arena[a].current>> \o q
  <1>2. /\ DOMAIN r = 1 .. Len(q) + 1 /\ r[1] = arena[a].current
        /\ \A i \in 1 .. Len(q) : r[i + 1] = q[i]
    BY <1>1
  <1>3. \A i \in 2 .. Len(q) + 1 : i - 1 \in 1 .. Len(q) /\ r[i] = q[i - 1]
    BY <1>1, <1>2
  <1>4. Chunks(a) = r
    BY DEF Chunks
  <1> HIDE DEF r
  <1>5. /\ \A k \in Places(a) : k = 0 \/ (k \in 1 .. Len(q) /\ k # 0)
        /\ \A i \in DOMAIN r : i = 1 \/ (i \in 2 .. Len(q) + 1 /\ i - 1 # 0)
    BY <1>1, <1>2 DEF Places
  <1>6. \A k \in Places(a) : k + 1 \in DOMAIN r /\ r[k + 1] = At(a, k)
    BY <1>1, <1>2, <1>5 DEF Places, At
  <1>7. \A i \in DOMAIN r : i - 1 \in Places(a) /\ r[i] = At(a, i - 1)
    BY <1>1, <1>2, <1>3, <1>5 DEF Places, At
  <1> QED  BY <1>2, <1>4, <1>6, <1>7

\* A free block is in no place, and no piece lies in it.
LEMMA FreeIsNowhere ==
    ASSUME IInv, NEW b \in Buf, Free(b)
    PROVE  /\ \A a \in Arena : \A k \in Places(a) : At(a, k).buf # b
           /\ \A o \in objects : o.buf # b
  <1>1. ASSUME NEW a \in Arena, NEW k \in Places(a), At(a, k).buf = b PROVE FALSE
    <2>1. At(a, k).size \in Nat
      BY Contents, ChunkFields DEF IInv
    <2>2. heap[b] = UsableSize(At(a, k).size)
      BY <1>1, ArenaAssumption DEF IInv, Backed
    <2> QED  BY <2>1, <2>2, Usable DEF Free
  <1>2. ASSUME NEW o \in objects, o.buf = b PROVE FALSE
    <2>1. o.holder \in Arena /\ \E k \in Places(o.holder) : At(o.holder, k).buf = o.buf
      BY DEF IInv, Typed, Piece, Inside, Lies
    <2> QED  BY <1>1, <1>2, <2>1
  <1> QED  BY <1>1, <1>2

\* The block of a piece is held, in a place of its holder.
LEMMA PieceFields ==
    ASSUME Typed, NEW o \in objects
    PROVE  o.holder \in Arena /\ o.buf \in Buf /\ o.at \in Nat /\ o.size \in Nat \ {0}
  BY DEF Typed, Piece

-----------------------------------------------------------------------------
(* create and destroy.                                                     *)
LEMMA CreateKeeps ==
    ASSUME IInv, NEW a \in Arena, NEW initial_size \in InitialSize, create(a, initial_size)
    PROVE  IInv'
  <1>1. a \notin created /\ created' = created \cup {a} /\ UNCHANGED <<objects, aborted, misused>>
    BY DEF create
  <1>2. PICK b \in Allocatable(HasInitialChunk(initial_size)) :
          LET chunk == [NoChunk EXCEPT !.buf = b, !.size = initial_size]
          IN  /\ arena' = [arena EXCEPT ![a] = [Constructed EXCEPT !.current = chunk]]
              /\ heap' = WithBlock(chunk)
    BY DEF create
  <1> DEFINE chunk == [NoChunk EXCEPT !.buf = b, !.size = initial_size]
             made == [Constructed EXCEPT !.current = chunk]
  <1>3. initial_size \in Nat /\ NULL \notin Buf
    BY ArenaAssumption
  <1>4. \/ initial_size > 0 /\ b \in Buf /\ Free(b)
        \/ initial_size = 0 /\ b = NULL
    BY <1>2, <1>3 DEF Allocatable, HasInitialChunk
  <1>5. /\ chunk = [buf |-> b, used |-> 0, size |-> initial_size] /\ chunk.buf = b
        /\ chunk.size = initial_size /\ chunk \in Chunk /\ (b = NULL => chunk = NoChunk)
    <2>1. chunk = [buf |-> b, used |-> 0, size |-> initial_size]
      BY FirstChunk
    <2>2. b \in Buf \cup {NULL} /\ 0 \in Nat /\ 0 <= initial_size
      BY <1>3, <1>4
    <2>3. chunk \in Chunk
      BY <1>3, <2>1, <2>2, ChunkOf
    <2>4. b = NULL => chunk = NoChunk
      BY <1>3, <1>4, <2>1 DEF NoChunk
    <2> HIDE DEF chunk
    <2> QED  BY <2>1, <2>3, <2>4
  <1>6. heap' = IF b = NULL THEN heap ELSE [heap EXCEPT ![b] = UsableSize(initial_size)]
    BY <1>2, <1>5 DEF WithBlock
  <1> HIDE DEF chunk
  <1>7. made.current = chunk /\ made.others = <<>> /\ made \in Fields
    BY <1>5, FieldsMade
  <1>8. arena' = [arena EXCEPT ![a] = made]
    BY <1>2 DEF chunk
  <1> HIDE DEF made
  <1>9. arena' \in [Arena -> Fields] /\ arena'[a] = made /\ \A x \in Arena \ {a} : arena'[x] = arena[x]
    BY <1>7, <1>8 DEF IInv, Typed
  <1>10. heap' \in [Buf -> Nat]
    BY <1>3, <1>6, Usable DEF IInv, Typed
  <1>11. Typed'
    BY <1>1, <1>9, <1>10 DEF Typed, IInv
  <1>12. Places(a)' = {0} /\ At(a, 0)' = chunk
    BY <1>7, <1>9 DEF Places, At
  <1>13. \A x \in Arena \ {a} : Places(x)' = Places(x) /\ \A k : At(x, k)' = At(x, k)
    BY <1>9 DEF Places, At
  <1>14. \A k \in Places(a) : At(a, k) = NoChunk
    <2>1. arena[a].current = NoChunk /\ arena[a].others = <<>>
      BY <1>1 DEF IInv, Unused
    <2> QED  BY <2>1 DEF Places, At
  <1>15. b # NULL => /\ \A x \in Arena : \A k \in Places(x) : At(x, k).buf # b
                     /\ \A o \in objects : o.buf # b
    BY <1>4, FreeIsNowhere
  <1>16. \A c \in Buf : c # b => heap'[c] = heap[c]
    BY <1>6 DEF IInv, Typed
  <1>17. Backed'
    <2>1. b # NULL => heap'[b] = UsableSize(initial_size)
      BY <1>4, <1>6 DEF IInv, Typed
    <2>2. ASSUME NEW x \in Arena \ {a}, NEW k \in Places(x)
          PROVE  IF At(x, k).buf = NULL THEN At(x, k) = NoChunk
                 ELSE heap'[At(x, k).buf] = UsableSize(At(x, k).size)
      <3>1. At(x, k).buf \in Buf \cup {NULL}
        BY Contents, ChunkFields DEF IInv
      <3> QED  BY <3>1, <1>4, <1>15, <1>16 DEF IInv, Backed
    <2> QED  BY <1>5, <1>12, <1>13, <2>1, <2>2 DEF Backed
  <1>18. Unshared'
    <2> SUFFICES ASSUME NEW x \in Arena, NEW y \in Arena, NEW k \in Places(x)', NEW l \in Places(y)',
                        At(x, k)'.buf # NULL, At(x, k)'.buf = At(y, l)'.buf
                 PROVE  x = y /\ k = l
      BY DEF Unshared
    <2>1. CASE x = a /\ y = a
      BY <2>1, <1>12
    <2>2. CASE x = a /\ y # a
      BY <2>2, <1>5, <1>12, <1>13, <1>15
    <2>3. CASE x # a /\ y = a
      BY <2>3, <1>5, <1>12, <1>13, <1>15
    <2>4. CASE x # a /\ y # a
      BY <2>4, <1>13 DEF IInv, Unshared
    <2> QED  BY <2>1, <2>2, <2>3, <2>4
  <1>19. Owned'
    <2> SUFFICES ASSUME NEW c \in Buf, ~Free(c)' PROVE \E x \in Arena : \E k \in Places(x)' : At(x, k)'.buf = c
      BY DEF Owned
    <2>1. CASE c = b
      BY <2>1, <1>5, <1>12
    <2>2. CASE c # b
      <3>1. PICK x \in Arena : \E k \in Places(x) : At(x, k).buf = c
        BY <2>2, <1>16 DEF Free, IInv, Owned
      <3>2. x # a
        BY <3>1, <1>3, <1>14, NoChunkFields
      <3> QED  BY <3>1, <3>2, <1>13
    <2> QED  BY <2>1, <2>2
  <1>20. Unused'
    BY <1>1, <1>9 DEF Unused, IInv
  <1>21. Inside'
    <2> SUFFICES ASSUME NEW o \in objects PROVE \E k \in Places(o.holder)' : Lies(o, k)'
      BY <1>1 DEF Inside
    <2>1. PICK k \in Places(o.holder) : Lies(o, k)
      BY DEF IInv, Inside
    <2>2. o.holder \in Arena /\ o.buf \in Buf
      BY PieceFields DEF IInv
    <2>3. o.holder # a
      BY <2>1, <2>2, <1>3, <1>14, NoChunkFields DEF Lies
    <2> QED  BY <2>1, <2>2, <2>3, <1>13 DEF Lies
  <1>22. Apart'
    BY <1>1 DEF Apart, IInv, Disjoint
  <1>23. Blamed'
    <2>1. arena'[a].current.buf # NULL => arena'[a].current.size # 0
      BY <1>4, <1>5, <1>7, <1>9
    <2> QED  BY <1>1, <1>9, <2>1 DEF Blamed, IInv
  <1> QED  BY <1>11, <1>17, <1>18, <1>19, <1>20, <1>21, <1>22, <1>23 DEF IInv

LEMMA DestroyKeeps ==
    ASSUME IInv, NEW a \in Arena, destroy(a)
    PROVE  IInv'
  <1>1. /\ heap' = [b \in Buf |-> IF b \in Released(a) THEN 0 ELSE heap[b]]
        /\ arena' = [arena EXCEPT ![a].current = NoChunk, ![a].others = <<>>]
        /\ objects' = {o \in objects : o.holder # a} /\ created' = created \ {a}
        /\ UNCHANGED <<aborted, misused>>
    BY DEF destroy, IInv, Typed
  <1>2. \A b : b \in Released(a) <=> \E k \in Places(a) : At(a, k).buf = b
    BY ChunksAreAt DEF Released, IInv
  <1> DEFINE left == [arena[a] EXCEPT !.current = NoChunk, !.others = <<>>]
  <1>3. arena' = [arena EXCEPT ![a] = left]
    BY <1>1 DEF IInv, Typed
  <1>4. left \in Fields /\ left.current = NoChunk /\ left.others = <<>>
    BY Contents, FieldsCleared DEF IInv
  <1> HIDE DEF left
  <1>5. arena' \in [Arena -> Fields] /\ arena'[a] = left /\ \A x \in Arena \ {a} : arena'[x] = arena[x]
    BY <1>3, <1>4 DEF IInv, Typed
  <1>6. Typed'
    <2>1. heap' \in [Buf -> Nat]
      BY <1>1 DEF IInv, Typed
    <2> QED  BY <1>1, <1>5, <2>1 DEF IInv, Typed
  <1>7. Places(a)' = {0} /\ At(a, 0)' = NoChunk
    BY <1>4, <1>5 DEF Places, At
  <1>8. \A x \in Arena \ {a} : Places(x)' = Places(x) /\ \A k : At(x, k)' = At(x, k)
    BY <1>5 DEF Places, At
  <1>9. ASSUME NEW x \in Arena \ {a}, NEW k \in Places(x), At(x, k).buf # NULL
        PROVE  At(x, k).buf \in Buf /\ heap'[At(x, k).buf] = heap[At(x, k).buf]
    <2>1. At(x, k).buf \in Buf
      BY <1>9, Contents, ChunkFields DEF IInv
    <2>2. At(x, k).buf \notin Released(a)
      BY <1>2, <1>9 DEF IInv, Unshared
    <2> QED  BY <1>1, <2>1, <2>2
  <1>10. Backed'
    BY <1>7, <1>8, <1>9, NoChunkFields DEF Backed, IInv
  <1>11. Unshared'
    <2> SUFFICES ASSUME NEW x \in Arena, NEW y \in Arena, NEW k \in Places(x)', NEW l \in Places(y)',
                        At(x, k)'.buf # NULL, At(x, k)'.buf = At(y, l)'.buf
                 PROVE  x = y /\ k = l
      BY DEF Unshared
    <2>1. x # a /\ y # a
      BY <1>7, NoChunkFields
    <2> QED  BY <2>1, <1>8 DEF IInv, Unshared
  <1>12. Owned'
    <2> SUFFICES ASSUME NEW c \in Buf, ~Free(c)' PROVE \E x \in Arena : \E k \in Places(x)' : At(x, k)'.buf = c
      BY DEF Owned
    <2>1. c \notin Released(a) /\ ~Free(c)
      BY <1>1 DEF Free
    <2>2. PICK x \in Arena : \E k \in Places(x) : At(x, k).buf = c
      BY <2>1 DEF IInv, Owned
    <2>3. x # a
      BY <2>1, <2>2, <1>2
    <2> QED  BY <2>2, <2>3, <1>8
  <1>13. Unused'
    BY <1>1, <1>4, <1>5 DEF Unused, IInv
  <1>14. Inside'
    <2> SUFFICES ASSUME NEW o \in objects, o.holder # a PROVE \E k \in Places(o.holder)' : Lies(o, k)'
      BY <1>1 DEF Inside
    <2>1. PICK k \in Places(o.holder) : Lies(o, k)
      BY DEF IInv, Inside
    <2>2. o.holder \in Arena
      BY PieceFields DEF IInv
    <2> QED  BY <2>1, <2>2, <1>8 DEF Lies
  <1>15. Apart'
    BY <1>1 DEF Apart, IInv, Disjoint
  <1>16. Blamed'
    BY <1>1, <1>4, <1>5, NoChunkFields DEF Blamed, IInv
  <1> QED  BY <1>6, <1>10, <1>11, <1>12, <1>13, <1>14, <1>15, <1>16 DEF IInv

-----------------------------------------------------------------------------
(* malloc_from_arena.                                                      *)
LEMMA FieldsWith ==
    ASSUME NEW f \in Fields, NEW c \in Chunk
    PROVE  LET g == [f EXCEPT !.current = c]
           IN  g \in Fields /\ g.current = c /\ g.others = f.others
  BY DEF Fields

LEMMA FieldsSetAside ==
    ASSUME NEW f \in Fields, NEW size
    PROVE  /\ SetAside(f, size) \in Fields
           /\ SetAside(f, size).others =
                 IF Fits(f.current, size) \/ f.current.buf = NULL THEN f.others
                 ELSE Append(f.others, f.current)
  <1>1. /\ f.current \in Chunk /\ f.others \in Aside /\ f.size_of_others \in Nat
        /\ f.footprint_of_others \in Nat
    BY DEF Fields
  <1> DEFINE more == Append(f.others, f.current)
             total == f.size_of_others + f.current.size
             footprint == f.footprint_of_others + toku_memory_footprint(f.current)
             g == [f EXCEPT !.others = more, !.size_of_others = total, !.footprint_of_others = footprint]
  <1>2. more \in Aside
    BY <1>1 DEF Aside
  <1>3. total \in Nat /\ footprint \in Nat
    BY <1>1, ChunkFields, Footprint
  <1>4. SetAside(f, size) = IF Fits(f.current, size) \/ f.current.buf = NULL THEN f ELSE g
    BY <1>1 DEF SetAside, Fields
  <1> HIDE DEF more, total, footprint
  <1>5. g \in Fields /\ g.others = more
    BY <1>2, <1>3 DEF Fields
  <1> HIDE DEF g
  <1>6. CASE Fits(f.current, size) \/ f.current.buf = NULL
    BY <1>4, <1>6
  <1>7. CASE ~(Fits(f.current, size) \/ f.current.buf = NULL)
    BY <1>4, <1>5, <1>7 DEF more
  <1> QED  BY <1>6, <1>7

LEMMA ChunkUsed ==
    ASSUME NEW c \in Chunk, NEW n \in Nat, c.used + n <= c.size
    PROVE  LET d == [c EXCEPT !.used = @ + n]
           IN  d \in Chunk /\ d.buf = c.buf /\ d.used = c.used + n /\ d.size = c.size
  <1>1. c \in [buf : Buf \cup {NULL}, used : Nat, size : Nat]
    BY DEF Chunk
  <1>2. c.used + n \in Nat
    BY <1>1
  <1> DEFINE u == c.used + n
             d == [c EXCEPT !.used = u]
  <1> HIDE DEF u
  <1>3. d \in [buf : Buf \cup {NULL}, used : Nat, size : Nat] /\ d.buf = c.buf /\ d.used = u /\ d.size = c.size
    BY <1>1, <1>2 DEF u
  <1>4. [c EXCEPT !.used = @ + n] = d
    BY <1>1 DEF u
  <1> QED  BY <1>3, <1>4 DEF Chunk, u

\* The new piece, if bytes were asked for.
LEMMA PieceAdded ==
    ASSUME Typed, NEW a \in Arena, NEW b \in Buf, NEW at \in Nat, NEW size \in Nat,
           objects' = objects \cup
               {[holder |-> a, buf |-> b, at |-> at, size |-> n] : n \in {size} \ {0}}
    PROVE  /\ objects' \subseteq Piece
           /\ \A o \in objects' \ objects : /\ o.holder = a /\ o.buf = b /\ o.at = at /\ o.size = size
                                            /\ o = [holder |-> a, buf |-> b, at |-> at, size |-> size]
  <1>1. \A o \in objects' \ objects :
            size # 0 /\ o = [holder |-> a, buf |-> b, at |-> at, size |-> size]
    OBVIOUS
  <1>2. \A o \in objects' \ objects : o \in Piece
    BY <1>1 DEF Piece
  <1> QED  BY <1>1, <1>2 DEF Typed

LEMMA MallocFits ==
    ASSUME IInv, NEW a \in Arena, NEW size \in Size, malloc_from_arena(a, size),
           Fits(arena[a].current, size)
    PROVE  IInv'
  <1> DEFINE old == arena[a].current
             new == [old EXCEPT !.used = @ + size]
             fields == [arena[a] EXCEPT !.current = new]
  <1>1. old \in Chunk /\ arena[a] \in Fields /\ size \in Nat /\ NULL \notin Buf
    BY Contents, ArenaAssumption DEF IInv
  <1>2. /\ old.buf \in Buf /\ old.used \in Nat /\ old.size \in Nat /\ old.used + size <= old.size
    BY <1>1, ChunkFields DEF Fits
  <1>3. Serving(old, size, NULL) = old /\ SetAside(arena[a], size) = arena[a]
    BY DEF Serving, SetAside
  <1>4. /\ arena' = [arena EXCEPT ![a] = fields]
        /\ heap' = WithBlock(old)
        /\ objects' = objects \cup
              {[holder |-> a, buf |-> old.buf, at |-> old.used, size |-> n] : n \in {size} \ {0}}
        /\ UNCHANGED <<created, aborted>>
    <2>1. Allocatable(~Fits(old, size)) = {NULL}
      BY DEF Allocatable
    <2>2. PICK b \in Allocatable(~Fits(old, size)) :
            LET chunk == Serving(old, size, b)
            IN  /\ arena' = [arena EXCEPT ![a] =
                                [SetAside(@, size) EXCEPT !.current = [chunk EXCEPT !.used = @ + size]]]
                /\ heap' = WithBlock(chunk)
                /\ objects' = objects \cup
                      {[holder |-> a, buf |-> chunk.buf, at |-> chunk.used, size |-> n] : n \in {size} \ {0}}
      BY DEF malloc_from_arena
    <2>3. Serving(old, size, b) = old
      BY <1>3, <2>1
    <2>4. arena' = [arena EXCEPT ![a] =
                       [SetAside(@, size) EXCEPT !.current = [old EXCEPT !.used = @ + size]]]
      BY <2>2, <2>3
    <2>5. arena' = [arena EXCEPT ![a] = fields]
      BY <1>3, <2>4 DEF IInv, Typed
    <2>6. UNCHANGED <<created, aborted>>
      BY DEF malloc_from_arena
    <2> HIDE DEF fields, new
    <2>7. heap' = WithBlock(old)
      BY <2>2, <2>3
    <2>8. objects' = objects \cup
              {[holder |-> a, buf |-> old.buf, at |-> old.used, size |-> n] : n \in {size} \ {0}}
      BY <2>2, <2>3
    <2> QED  BY <2>5, <2>6, <2>7, <2>8
  <1>5. new \in Chunk /\ new.buf = old.buf /\ new.used = old.used + size /\ new.size = old.size
    BY <1>1, <1>2, ChunkUsed
  <1> HIDE DEF new
  <1>6. fields \in Fields /\ fields.current = new /\ fields.others = arena[a].others
    BY <1>1, <1>5, FieldsWith
  <1> HIDE DEF fields
  <1>7. arena' \in [Arena -> Fields] /\ arena'[a] = fields /\ \A x \in Arena \ {a} : arena'[x] = arena[x]
    BY <1>4, <1>6 DEF IInv, Typed
  <1>8. heap' = heap
    <2>1. heap[old.buf] = UsableSize(old.size)
      BY <1>1, <1>2, Contents DEF IInv, Backed
    <2> QED  BY <1>1, <1>2, <1>4, <2>1 DEF WithBlock, IInv, Typed
  <1>9. /\ objects' \subseteq Piece
        /\ \A o \in objects' \ objects : /\ o.holder = a /\ o.buf = old.buf /\ o.at = old.used /\ o.size = size
                                         /\ o = [holder |-> a, buf |-> old.buf, at |-> old.used, size |-> size]
    BY <1>1, <1>2, <1>4, PieceAdded DEF IInv
  <1>10. (misused => misused') /\ misused' \in BOOLEAN
    BY DEF malloc_from_arena
  <1>11. Typed'
    BY <1>4, <1>7, <1>8, <1>9, <1>10 DEF IInv, Typed
  <1>12. /\ Places(a)' = Places(a) /\ At(a, 0)' = new /\ At(a, 0) = old
         /\ \A k \in Places(a) \ {0} : At(a, k)' = At(a, k)
         /\ \A x \in Arena \ {a} : Places(x)' = Places(x) /\ \A k : At(x, k)' = At(x, k)
    BY <1>6, <1>7 DEF Places, At
  <1>13. \A x \in Arena : \A k \in Places(x) :
            /\ At(x, k)'.buf = At(x, k).buf /\ At(x, k)'.size = At(x, k).size
            /\ At(x, k).used <= At(x, k)'.used
            /\ (x = a /\ k = 0) \/ At(x, k)' = At(x, k)
    <2>1. \A x \in Arena : \A k \in Places(x) : At(x, k).used \in Nat
      BY Contents, ChunkFields DEF IInv
    <2>2. old.used <= new.used
      BY <1>1, <1>2, <1>5
    <2> QED  BY <1>5, <1>12, <2>1, <2>2
  <1>14. \A x \in Arena : Places(x)' = Places(x)
    BY <1>12
  <1>15. Backed'
    BY <1>1, <1>2, <1>8, <1>12, <1>13, <1>14 DEF Backed, IInv
  <1>16. Unshared'
    BY <1>13, <1>14 DEF Unshared, IInv
  <1>17. Owned'
    BY <1>8, <1>13, <1>14 DEF Owned, IInv, Free
  <1>18. Unused'
    <2>1. a \in created
      BY DEF malloc_from_arena
    <2> QED  BY <1>4, <1>7, <2>1 DEF Unused, IInv
  <1>19. Inside'
    <2> SUFFICES ASSUME NEW o \in objects' PROVE \E k \in Places(o.holder)' : Lies(o, k)'
      BY DEF Inside
    <2>1. CASE o \in objects
      <3>1. o.holder \in Arena /\ o.at \in Nat /\ o.size \in Nat
        BY <2>1, PieceFields DEF IInv
      <3>2. PICK k \in Places(o.holder) : Lies(o, k)
        BY <2>1 DEF IInv, Inside
      <3>3. At(o.holder, k).used \in Nat /\ At(o.holder, k)'.used \in Nat
        <4>1. Typed' /\ k \in Places(o.holder)'
          BY <1>11, <1>14, <3>1, <3>2
        <4>2. At(o.holder, k) \in Chunk
          BY <3>1, <3>2, Contents DEF IInv
        <4>3. At(o.holder, k)' \in Chunk
          BY <1>5, <1>13, <3>1, <3>2, <4>2, <1>12
        <4> QED  BY <4>2, <4>3, ChunkFields
      <3>4. Lies(o, k)'
        BY <1>13, <3>1, <3>2, <3>3 DEF Lies
      <3> QED  BY <1>14, <3>1, <3>2, <3>4
    <2>2. CASE o \notin objects
      <3>1. 0 \in Places(a)' /\ o.holder = a
        BY <1>9, <1>12, <2>2, Contents DEF IInv
      <3>2. Lies(o, 0)'
        <4>1. o.buf = old.buf /\ o.at = old.used /\ o.size = size
          BY <1>9, <2>2
        <4>2. At(o.holder, 0)' = new
          BY <1>12, <3>1
        <4> QED  BY <1>1, <1>2, <1>5, <4>1, <4>2 DEF Lies
      <3> QED  BY <3>1, <3>2
    <2> QED  BY <2>1, <2>2
  <1>20. ASSUME NEW o \in objects, o.buf = old.buf PROVE o.at + o.size <= old.used
    <2>1. o.holder \in Arena
      BY PieceFields DEF IInv
    <2>2. PICK k \in Places(o.holder) : Lies(o, k)
      BY DEF IInv, Inside
    <2>3. 0 \in Places(a) /\ At(a, 0) = old
      BY Contents DEF IInv
    <2>4. o.holder = a /\ k = 0
      BY <1>1, <1>2, <1>20, <2>1, <2>2, <2>3 DEF Lies, IInv, Unshared
    <2> QED  BY <2>2, <2>3, <2>4 DEF Lies
  <1>21. Apart'
    <2> SUFFICES ASSUME NEW o \in objects', NEW q \in objects', o # q, o.buf = q.buf PROVE Disjoint(o, q)
      BY DEF Apart, Disjoint
    <2>1. CASE o \in objects /\ q \in objects
      BY <2>1 DEF IInv, Apart
    <2>2. CASE o \in objects /\ q \notin objects
      BY <1>9, <1>20, <2>2 DEF Disjoint
    <2>3. CASE o \notin objects /\ q \in objects
      BY <1>9, <1>20, <2>3 DEF Disjoint
    <2>4. CASE o \notin objects /\ q \notin objects
      BY <1>9, <2>4
    <2> QED  BY <2>1, <2>2, <2>3, <2>4
  <1>22. Blamed'
    BY <1>4, <1>5, <1>6, <1>7, <1>10 DEF Blamed, IInv
  <1> QED  BY <1>11, <1>15, <1>16, <1>17, <1>18, <1>19, <1>21, <1>22 DEF IInv

LEMMA MallocGrows ==
    ASSUME IInv, NEW a \in Arena, NEW size \in Size, malloc_from_arena(a, size),
           ~Fits(arena[a].current, size)
    PROVE  IInv'
  <1> DEFINE old == arena[a].current
             more == SetAside(arena[a], size)
  <1>1. /\ old \in Chunk /\ arena[a] \in Fields /\ size \in Nat /\ NULL \notin Buf
        /\ old.used \in Nat /\ old.size \in Nat /\ old.used <= old.size
    BY Contents, ChunkFields, ArenaAssumption DEF IInv
  <1>2. PICK b \in Allocatable(~Fits(old, size)) :
          LET chunk == Serving(old, size, b)
          IN  /\ arena' = [arena EXCEPT ![a] =
                              [SetAside(@, size) EXCEPT !.current = [chunk EXCEPT !.used = @ + size]]]
              /\ heap' = WithBlock(chunk)
              /\ objects' = objects \cup
                    {[holder |-> a, buf |-> chunk.buf, at |-> chunk.used, size |-> n] : n \in {size} \ {0}}
    BY DEF malloc_from_arena
  <1>3. b \in Buf /\ Free(b)
    BY <1>2 DEF Allocatable
  <1> DEFINE blank == [buf |-> b, used |-> 0, size |-> NewSize(old.size, size)]
             new == [blank EXCEPT !.used = @ + size]
             fields == [more EXCEPT !.current = new]
  <1>4. NewSize(old.size, size) \in Nat /\ size <= NewSize(old.size, size)
    BY <1>1, NewSizeFits
  <1>5. blank \in Chunk /\ blank.buf = b /\ blank.used = 0 /\ blank.size = NewSize(old.size, size)
    BY <1>3, <1>4, ChunkOf
  <1>6. Serving(old, size, b) = blank
    BY DEF Serving
  <1>7. arena' = [arena EXCEPT ![a] = fields]
    <2>1. arena' = [arena EXCEPT ![a] =
                       [SetAside(@, size) EXCEPT !.current = [blank EXCEPT !.used = @ + size]]]
      BY <1>2, <1>6
    <2> QED  BY <2>1 DEF IInv, Typed
  <1> HIDE DEF blank
  <1>8. new \in Chunk /\ new.buf = b /\ new.used = size /\ new.size = blank.size
    BY <1>1, <1>4, <1>5, ChunkUsed
  <1> HIDE DEF new
  <1>9. /\ more \in Fields
        /\ more.others = IF old.buf = NULL THEN arena[a].others ELSE Append(arena[a].others, old)
    BY <1>1, FieldsSetAside
  <1> HIDE DEF more
  <1>10. fields \in Fields /\ fields.current = new /\ fields.others = more.others
    BY <1>8, <1>9, FieldsWith
  <1> HIDE DEF fields
  <1>11. arena' \in [Arena -> Fields] /\ arena'[a] = fields /\ \A x \in Arena \ {a} : arena'[x] = arena[x]
    BY <1>7, <1>10 DEF IInv, Typed
  <1>12. heap' = [heap EXCEPT ![b] = UsableSize(new.size)]
    BY <1>1, <1>2, <1>3, <1>5, <1>6, <1>8 DEF WithBlock
  <1>13. UsableSize(new.size) \in Nat \ {0} /\ new.size \in Nat /\ size <= new.size
    BY <1>4, <1>5, <1>8, Usable
  <1>14. heap' \in [Buf -> Nat] /\ heap'[b] = UsableSize(new.size) /\ \A c \in Buf \ {b} : heap'[c] = heap[c]
    BY <1>3, <1>12, <1>13 DEF IInv, Typed
  <1>15. /\ objects' \subseteq Piece
         /\ \A o \in objects' \ objects : /\ o.holder = a /\ o.buf = b /\ o.at = 0 /\ o.size = size
                                          /\ o = [holder |-> a, buf |-> b, at |-> 0, size |-> size]
    <2>1. objects' = objects \cup {[holder |-> a, buf |-> b, at |-> 0, size |-> n] : n \in {size} \ {0}}
      BY <1>2, <1>5, <1>6
    <2> QED  BY <1>1, <1>3, <2>1, PieceAdded DEF IInv
  <1>16. /\ misused => misused'
         /\ size = 0 /\ old = NoChunk => misused'
         /\ misused' \in BOOLEAN
    BY DEF malloc_from_arena
  <1>17. Typed' /\ UNCHANGED <<created, aborted>>
    BY <1>11, <1>14, <1>15, <1>16 DEF IInv, Typed, malloc_from_arena
  <1>18. arena[a].others \in Seq(Chunk) /\ At(a, 0) = old /\ 0 \in Places(a)
    BY Contents DEF IInv
  <1> PICK n \in Nat : n = Len(arena[a].others)
    BY <1>18
  <1>19. /\ 0 \in Places(a)' /\ At(a, 0)' = new
         /\ \A k \in Places(a)' \ {0} : \E j \in Places(a) :
               At(a, k)' = At(a, j) /\ (j = k \/ (j = 0 /\ k = n + 1))
         /\ \A j \in Places(a) : At(a, j).buf # NULL =>
               \E k \in Places(a)' \ {0} : At(a, k)' = At(a, j)
    <2>1. CASE old.buf = NULL
      <3>1. Places(a)' = Places(a) /\ At(a, 0)' = new /\ \A k \in Places(a) \ {0} : At(a, k)' = At(a, k)
        BY <2>1, <1>9, <1>10, <1>11 DEF Places, At
      <3> QED  BY <3>1, <1>18, <2>1
    <2>2. CASE old.buf # NULL
      <3>1. fields.others = Append(arena[a].others, old)
        BY <2>2, <1>9, <1>10
      <3>2. /\ Len(fields.others) = n + 1 /\ fields.others[n + 1] = old
            /\ \A k \in 1 .. n : fields.others[k] = arena[a].others[k]
        BY <3>1, <1>1, <1>18
      <3>3. /\ Places(a)' = 0 .. n + 1 /\ At(a, 0)' = new /\ At(a, n + 1)' = old
            /\ Places(a) = 0 .. n
            /\ \A k \in 1 .. n : At(a, k)' = At(a, k)
        <4>1. /\ Places(a)' = 0 .. Len(fields.others) /\ Places(a) = 0 .. n
              /\ \A k : At(a, k)' = IF k = 0 THEN fields.current ELSE fields.others[k]
              /\ \A k : At(a, k) = IF k = 0 THEN old ELSE arena[a].others[k]
          BY <1>11 DEF Places, At
        <4>2. n + 1 # 0 /\ \A k \in 1 .. n : k # 0
          BY <1>1
        <4> HIDE DEF old
        <4> QED  BY <3>2, <4>1, <4>2, <1>10, SMTT(60)
      <3> HIDE DEF old
      <3>4. \A k \in 0 .. n + 1 : k = 0 \/ k \in 1 .. n \/ k = n + 1
        BY <1>1
      <3>5. \A k \in 1 .. n : k \in 0 .. n /\ k \in 0 .. n + 1 /\ k # 0
        BY <1>1
      <3>6. 0 \in 0 .. n + 1 /\ n + 1 \in 0 .. n + 1 /\ n + 1 # 0
        BY <1>1
      <3>7. \A j \in 0 .. n : j = 0 \/ j \in 1 .. n
        BY <1>1
      <3>8. \A k \in Places(a)' \ {0} : \E j \in Places(a) :
               At(a, k)' = At(a, j) /\ (j = k \/ (j = 0 /\ k = n + 1))
        <4> SUFFICES ASSUME NEW k \in 0 .. n + 1, k # 0
                     PROVE  \E j \in 0 .. n :
                               At(a, k)' = At(a, j) /\ (j = k \/ (j = 0 /\ k = n + 1))
          BY <3>3
        <4>1. CASE k \in 1 .. n
          BY <4>1, <3>3, <3>5
        <4>2. CASE k = n + 1
          BY <4>2, <3>3, <1>18
        <4> QED  BY <3>4, <4>1, <4>2
      <3>9. \A j \in Places(a) : \E k \in Places(a)' \ {0} : At(a, k)' = At(a, j)
        <4> SUFFICES ASSUME NEW j \in 0 .. n
                     PROVE  \E k \in (0 .. n + 1) \ {0} : At(a, k)' = At(a, j)
          BY <3>3
        <4>1. CASE j \in 1 .. n
          BY <4>1, <3>3, <3>5
        <4>2. CASE j = 0
          BY <4>2, <3>3, <3>6, <1>18
        <4> QED  BY <3>7, <4>1, <4>2
      <3> QED  BY <3>3, <3>6, <3>8, <3>9
    <2> QED  BY <2>1, <2>2
  <1>20. \A x \in Arena \ {a} : Places(x)' = Places(x) /\ \A k : At(x, k)' = At(x, k)
    BY <1>11 DEF Places, At
  <1>21. /\ \A x \in Arena : \A k \in Places(x) : At(x, k).buf # b
         /\ \A o \in objects : o.buf # b
    BY <1>3, FreeIsNowhere
  <1> HIDE DEF old
  <1>22. Backed'
    <2>1. ASSUME NEW x \in Arena, NEW k \in Places(x)
          PROVE  IF At(x, k).buf = NULL THEN At(x, k) = NoChunk
                 ELSE heap'[At(x, k).buf] = UsableSize(At(x, k).size)
      <3>1. At(x, k).buf \in Buf \cup {NULL} /\ At(x, k).buf # b
        BY <1>21, Contents, ChunkFields DEF IInv
      <3> QED  BY <3>1, <1>14 DEF IInv, Backed
    <2> QED  BY <1>1, <1>3, <1>8, <1>14, <1>19, <1>20, <2>1 DEF Backed
  <1>23. Unshared'
    <2> SUFFICES ASSUME NEW x \in Arena, NEW y \in Arena, NEW k \in Places(x)', NEW l \in Places(y)',
                        At(x, k)'.buf # NULL, At(x, k)'.buf = At(y, l)'.buf
                 PROVE  x = y /\ k = l
      BY DEF Unshared
    <2>1. ASSUME NEW z \in Arena, NEW m \in Places(z)', At(z, m)'.buf = b PROVE z = a /\ m = 0
      BY <2>1, <1>19, <1>20, <1>21
    <2>2. CASE At(x, k)'.buf = b
      BY <2>1, <2>2
    <2>3. CASE At(x, k)'.buf # b
      <3>1. ~(x = a /\ k = 0) /\ ~(y = a /\ l = 0)
        BY <2>3, <1>8, <1>19
      <3>2. CASE x = a /\ y = a
        <4>1. PICK i \in Places(a) : At(a, k)' = At(a, i) /\ (i = k \/ (i = 0 /\ k = n + 1))
          BY <3>1, <3>2, <1>19
        <4>2. PICK j \in Places(a) : At(a, l)' = At(a, j) /\ (j = l \/ (j = 0 /\ l = n + 1))
          BY <3>1, <3>2, <1>19
        <4>3. i = j
          BY <3>2, <4>1, <4>2 DEF IInv, Unshared
        <4> QED  BY <3>1, <3>2, <4>1, <4>2, <4>3
      <3>3. CASE x = a /\ y # a
        <4>1. PICK i \in Places(a) : At(a, k)' = At(a, i)
          BY <3>1, <3>3, <1>19
        <4> QED  BY <3>3, <4>1, <1>20 DEF IInv, Unshared
      <3>4. CASE x # a /\ y = a
        <4>1. PICK j \in Places(a) : At(a, l)' = At(a, j)
          BY <3>1, <3>4, <1>19
        <4> QED  BY <3>4, <4>1, <1>20 DEF IInv, Unshared
      <3>5. CASE x # a /\ y # a
        BY <3>5, <1>20 DEF IInv, Unshared
      <3> QED  BY <3>2, <3>3, <3>4, <3>5
    <2> QED  BY <2>2, <2>3
  <1>24. Owned'
    <2> SUFFICES ASSUME NEW c \in Buf, ~Free(c)' PROVE \E x \in Arena : \E k \in Places(x)' : At(x, k)'.buf = c
      BY DEF Owned
    <2>1. CASE c = b
      BY <2>1, <1>8, <1>19
    <2>2. CASE c # b
      <3>1. PICK x \in Arena : \E k \in Places(x) : At(x, k).buf = c
        BY <2>2, <1>14 DEF Free, IInv, Owned
      <3> QED  BY <3>1, <1>1, <1>19, <1>20
    <2> QED  BY <2>1, <2>2
  <1>25. Unused'
    <2>1. a \in created
      BY DEF malloc_from_arena
    <2> QED  BY <1>11, <1>17, <2>1 DEF Unused, IInv
  <1>26. Inside'
    <2> SUFFICES ASSUME NEW o \in objects' PROVE \E k \in Places(o.holder)' : Lies(o, k)'
      BY DEF Inside
    <2>1. CASE o \in objects
      <3>1. o.holder \in Arena /\ o.buf \in Buf
        BY <2>1, PieceFields DEF IInv
      <3>2. PICK k \in Places(o.holder) : Lies(o, k)
        BY <2>1 DEF IInv, Inside
      <3>3. At(o.holder, k).buf # NULL
        BY <1>1, <3>1, <3>2 DEF Lies
      <3>4. PICK l \in Places(o.holder)' : At(o.holder, l)' = At(o.holder, k)
        BY <1>19, <1>20, <3>1, <3>2, <3>3
      <3> QED  BY <3>2, <3>4 DEF Lies
    <2>2. CASE o \notin objects
      <3>1. o.holder = a /\ o.buf = b /\ o.at = 0 /\ o.size = size
        BY <1>15, <2>2
      <3>2. At(o.holder, 0)' = new /\ 0 \in Places(o.holder)'
        BY <1>19, <3>1
      <3>3. Lies(o, 0)'
        BY <1>1, <1>8, <3>1, <3>2 DEF Lies
      <3> QED  BY <3>2, <3>3
    <2> QED  BY <2>1, <2>2
  <1>27. Apart'
    <2> SUFFICES ASSUME NEW o \in objects', NEW q \in objects', o # q, o.buf = q.buf PROVE Disjoint(o, q)
      BY DEF Apart, Disjoint
    <2> QED  BY <1>15, <1>21 DEF IInv, Apart
  <1>28. Blamed'
    <2>1. new.size = 0 => misused'
      <3> SUFFICES ASSUME new.size = 0 PROVE misused'
        OBVIOUS
      <3>1. size = 0
        BY <1>1, <1>13
      <3>2. old.buf = NULL
        BY <1>1, <3>1 DEF Fits, old
      <3>3. old = NoChunk
        BY <1>18, <3>2 DEF IInv, Backed
      <3> QED  BY <1>16, <3>1, <3>3
    <2> QED  BY <1>10, <1>11, <1>16, <1>17, <2>1 DEF Blamed, IInv
  <1> QED  BY <1>17, <1>22, <1>23, <1>24, <1>25, <1>26, <1>27, <1>28 DEF IInv

-----------------------------------------------------------------------------
(* move_memory.                                                            *)
LEMMA Joined ==
    ASSUME NEW q \in Aside, NEW r \in Aside, NEW c \in Chunk
    PROVE  LET t == q \o r \o <<c>>
           IN  /\ t \in Aside /\ Len(t) = Len(q) + Len(r) + 1
               /\ \A k \in 1 .. Len(q) : t[k] = q[k]
               /\ \A k \in 1 .. Len(r) : t[Len(q) + k] = r[k]
               /\ t[Len(q) + Len(r) + 1] = c
  <1>1. q \in Seq(Chunk) /\ r \in Seq(Chunk) /\ Len(q) \in Nat /\ Len(r) \in Nat
    BY DEF Aside
  <1> DEFINE u == q \o r
             t == u \o <<c>>
  <1>2. /\ u \in Seq(Chunk) /\ Len(u) = Len(q) + Len(r)
        /\ \A k \in 1 .. Len(q) : u[k] = q[k]
        /\ \A k \in 1 .. Len(r) : u[Len(q) + k] = r[k]
    BY <1>1
  <1> HIDE DEF u
  <1>3. /\ t \in Seq(Chunk) /\ Len(t) = Len(u) + 1
        /\ \A k \in 1 .. Len(u) : t[k] = u[k]
        /\ t[Len(u) + 1] = c
    BY <1>2
  <1> HIDE DEF t
  <1>4. \A k \in 1 .. Len(q) : k \in 1 .. Len(u)
    BY <1>1, <1>2
  <1>5. \A k \in 1 .. Len(r) : Len(q) + k \in 1 .. Len(u)
    BY <1>1, <1>2
  <1>6. /\ t \in Aside /\ Len(t) = Len(q) + Len(r) + 1
        /\ \A k \in 1 .. Len(q) : t[k] = q[k]
        /\ \A k \in 1 .. Len(r) : t[Len(q) + k] = r[k]
        /\ t[Len(q) + Len(r) + 1] = c
    BY <1>1, <1>2, <1>3, <1>4, <1>5 DEF Aside
  <1> QED  BY <1>6 DEF t, u

\* Where the chunks are after a move, and where each of them was.
Came(a, dest, n, m, x, k, y, j) ==
    \/ y # a /\ y = x /\ j = k
    \/ y = a /\ x = dest /\ k = n + m + 1 /\ j = 0
    \/ y = a /\ x = dest /\ k = n + j /\ j \in 1 .. m

LEMMA MovedFields ==
    ASSUME IInv, NEW a \in Arena, NEW dest \in Arena, move_memory(a, dest)
    PROVE  /\ arena' \in [Arena -> Fields] /\ a # dest
           /\ arena'[a] = Constructed
           /\ arena'[dest].current = arena[dest].current
           /\ arena'[dest].others = arena[dest].others \o arena[a].others \o <<arena[a].current>>
           /\ \A x \in Arena \ {a, dest} : arena'[x] = arena[x]
  <1> DEFINE f == arena[dest]
             s == f.size_of_others + Added(arena[a])
             p == f.footprint_of_others + arena[a].footprint_of_others
                      + toku_memory_footprint(arena[a].current)
             q == f.others \o arena[a].others \o <<arena[a].current>>
             given == [f EXCEPT !.size_of_others = s, !.footprint_of_others = p, !.others = q]
  <1>1. a # dest
    BY DEF move_memory
  <1>2. /\ arena[a].current \in Chunk /\ arena[a].others \in Aside /\ f.others \in Aside
        /\ f \in Fields /\ f.size_of_others \in Nat /\ f.footprint_of_others \in Nat
        /\ arena[a].size_of_others \in Nat /\ arena[a].footprint_of_others \in Nat
    BY Contents DEF IInv
  <1>3. s \in Nat /\ p \in Nat
    BY <1>2, ChunkFields, Footprint DEF Added
  <1>4. q \in Aside
    BY <1>2, Joined
  <1>5. arena' = [arena EXCEPT ![dest] = given, ![a] = Constructed]
    BY <1>1 DEF move_memory, IInv, Typed, Fields
  <1> HIDE DEF s, p, q
  <1>6. given \in Fields /\ given.current = f.current /\ given.others = q
    BY <1>2, <1>3, <1>4 DEF Fields
  <1> HIDE DEF given
  <1>7. Constructed \in Fields
    BY FieldsMade, NoChunkFields
  <1> QED  BY <1>1, <1>5, <1>6, <1>7 DEF IInv, Typed, q

LEMMA PieceMoved ==
    ASSUME Typed, NEW a \in Arena, NEW dest \in Arena, NEW o \in objects
    PROVE  LET p == IF o.holder = a THEN [o EXCEPT !.holder = dest] ELSE o
           IN  /\ p \in Piece /\ p.buf = o.buf /\ p.at = o.at /\ p.size = o.size
               /\ p.holder = IF o.holder = a THEN dest ELSE o.holder
  BY DEF Typed, Piece

Counted(a, dest, n, m) == n = Len(arena[dest].others) /\ m = Len(arena[a].others)

LEMMA MovedPlaces ==
    ASSUME IInv, NEW a \in Arena, NEW dest \in Arena, move_memory(a, dest),
           NEW n \in Nat, NEW m \in Nat, Counted(a, dest, n, m)
    PROVE  /\ Places(dest)' = 0 .. n + m + 1 /\ Places(dest) = 0 .. n /\ Places(a) = 0 .. m
           /\ \A k \in 0 .. n : At(dest, k)' = At(dest, k)
           /\ \A j \in 1 .. m : At(dest, n + j)' = At(a, j)
           /\ At(dest, n + m + 1)' = At(a, 0)
  <1>1. /\ arena'[dest].current = arena[dest].current
        /\ arena'[dest].others = arena[dest].others \o arena[a].others \o <<arena[a].current>>
    BY MovedFields
  <1> DEFINE q == arena[dest].others
             r == arena[a].others
             t == arena'[dest].others
  <1>2. /\ Len(t) = n + m + 1
        /\ \A k \in 1 .. n : t[k] = q[k]
        /\ \A k \in 1 .. m : t[n + k] = r[k]
        /\ t[n + m + 1] = arena[a].current
    <2> DEFINE c == arena[a].current
    <2>1. q \in Aside /\ r \in Aside /\ c \in Chunk
      BY Contents DEF IInv
    <2>2. t = q \o r \o <<c>> /\ n = Len(q) /\ m = Len(r)
      BY <1>1 DEF Counted
    <2> HIDE DEF q, r, c, t
    <2> DEFINE u == q \o r \o <<c>>
    <2>3. /\ Len(u) = Len(q) + Len(r) + 1
          /\ \A k \in 1 .. Len(q) : u[k] = q[k]
          /\ \A k \in 1 .. Len(r) : u[Len(q) + k] = r[k]
          /\ u[Len(q) + Len(r) + 1] = c
      BY <2>1, Joined, ZenonT(60)
    <2>4. t = u
      BY <2>2
    <2> HIDE DEF u
    <2> QED  BY <2>2, <2>3, <2>4 DEF c
  <1>3. /\ Places(dest)' = 0 .. Len(t) /\ Places(dest) = 0 .. n /\ Places(a) = 0 .. m
        /\ \A k : At(dest, k)' = IF k = 0 THEN arena[dest].current ELSE t[k]
        /\ \A k : At(dest, k) = IF k = 0 THEN arena[dest].current ELSE q[k]
        /\ \A k : At(a, k) = IF k = 0 THEN arena[a].current ELSE r[k]
    BY <1>1 DEF Places, At, Counted
  <1>4. /\ n + m + 1 # 0 /\ \A k \in 1 .. m : k # 0 /\ n + k # 0
        /\ \A k \in 0 .. n : k = 0 \/ k \in 1 .. n
    OBVIOUS
  <1> HIDE DEF q, r, t
  <1>5. Places(dest)' = 0 .. n + m + 1
    BY <1>2, <1>3
  <1>6. \A k \in 0 .. n : At(dest, k)' = At(dest, k)
    BY <1>2, <1>3, <1>4
  <1>7. \A j \in 1 .. m : At(dest, n + j)' = At(a, j)
    BY <1>2, <1>3, <1>4
  <1>8. At(dest, n + m + 1)' = At(a, 0)
    BY <1>2, <1>3, <1>4
  <1> QED  BY <1>3, <1>5, <1>6, <1>7, <1>8

LEMMA MoveKeeps ==
    ASSUME IInv, NEW a \in Arena, NEW dest \in Arena, move_memory(a, dest)
    PROVE  IInv'
  <1>1. /\ arena' \in [Arena -> Fields] /\ a # dest
        /\ arena'[a] = Constructed
        /\ arena'[dest].current = arena[dest].current
        /\ arena'[dest].others = arena[dest].others \o arena[a].others \o <<arena[a].current>>
        /\ \A x \in Arena \ {a, dest} : arena'[x] = arena[x]
    BY MovedFields
  <1>2. /\ objects' = {IF o.holder = a THEN [o EXCEPT !.holder = dest] ELSE o : o \in objects}
        /\ a \in created /\ dest \in created
        /\ UNCHANGED <<heap, created, aborted, misused>>
    BY DEF move_memory
  <1>3. \A p \in objects' : \E o \in objects :
            /\ p = IF o.holder = a THEN [o EXCEPT !.holder = dest] ELSE o
            /\ p \in Piece /\ p.buf = o.buf /\ p.at = o.at /\ p.size = o.size
            /\ p.holder = IF o.holder = a THEN dest ELSE o.holder
    <2> SUFFICES ASSUME NEW p \in objects'
                 PROVE  \E o \in objects :
                          /\ p = IF o.holder = a THEN [o EXCEPT !.holder = dest] ELSE o
                          /\ p \in Piece /\ p.buf = o.buf /\ p.at = o.at /\ p.size = o.size
                          /\ p.holder = IF o.holder = a THEN dest ELSE o.holder
      OBVIOUS
    <2>1. PICK o \in objects : p = IF o.holder = a THEN [o EXCEPT !.holder = dest] ELSE o
      BY <1>2
    <2>2. /\ p \in Piece /\ p.buf = o.buf /\ p.at = o.at /\ p.size = o.size
          /\ p.holder = IF o.holder = a THEN dest ELSE o.holder
      BY <2>1, PieceMoved DEF IInv
    <2> QED  BY <2>1, <2>2
  <1>4. Typed'
    BY <1>1, <1>2, <1>3 DEF Typed, IInv
  <1>6. Places(a)' = {0} /\ At(a, 0)' = NoChunk
    <2>1. arena'[a].current = NoChunk /\ arena'[a].others = <<>>
      BY <1>1 DEF Constructed
    <2> QED  BY <2>1 DEF Places, At
  <1>5. \E n \in Nat, m \in Nat : Counted(a, dest, n, m)
    BY Contents DEF IInv, Counted
  <1> PICK n \in Nat, m \in Nat : Counted(a, dest, n, m)
    BY <1>5
  <1>7. /\ Places(dest)' = 0 .. n + m + 1 /\ Places(dest) = 0 .. n /\ Places(a) = 0 .. m
        /\ \A k \in 0 .. n : At(dest, k)' = At(dest, k)
        /\ \A j \in 1 .. m : At(dest, n + j)' = At(a, j)
        /\ At(dest, n + m + 1)' = At(a, 0)
    BY MovedPlaces
  <1>8. \A x \in Arena \ {a, dest} : Places(x)' = Places(x) /\ \A k : At(x, k)' = At(x, k)
    BY <1>1 DEF Places, At
  <1>9. ASSUME NEW x \in Arena, NEW k \in Places(x)', At(x, k)'.buf # NULL
        PROVE  \E y \in Arena : \E j \in Places(y) :
                  At(x, k)' = At(y, j) /\ Came(a, dest, n, m, x, k, y, j)
    <2>1. x # a
      BY <1>6, <1>9, NoChunkFields
    <2>2. CASE x # dest
      BY <2>1, <2>2, <1>8 DEF Came
    <2>3. CASE x = dest
      <3>1. k \in 0 .. n \/ k = n + m + 1 \/ (k - n \in 1 .. m /\ k = n + (k - n))
        BY <2>3, <1>7
      <3>2. CASE k \in 0 .. n
        BY <2>1, <2>3, <3>2, <1>7 DEF Came
      <3>3. CASE k = n + m + 1
        <4>1. 0 \in Places(a)
          BY <1>7
        <4> QED  BY <2>3, <3>3, <4>1, <1>7 DEF Came
      <3>4. CASE k - n \in 1 .. m /\ k = n + (k - n)
        <4>1. k - n \in Places(a)
          BY <1>7, <3>4
        <4>2. At(dest, k)' = At(a, k - n)
          BY <3>4, <1>7
        <4>3. Came(a, dest, n, m, x, k, a, k - n)
          BY <2>3, <3>4 DEF Came
        <4> QED  BY <2>3, <4>1, <4>2, <4>3
      <3> QED  BY <3>1, <3>2, <3>3, <3>4
    <2> QED  BY <2>2, <2>3
  <1>10. ASSUME NEW y \in Arena, NEW j \in Places(y)
         PROVE  \E k \in Places(IF y = a THEN dest ELSE y)' :
                   At(IF y = a THEN dest ELSE y, k)' = At(y, j)
    <2>1. CASE y # a /\ y # dest
      BY <2>1, <1>8
    <2>2. CASE y = dest
      <3>1. j \in 0 .. n /\ j \in 0 .. n + m + 1
        BY <2>2, <1>7
      <3> QED  BY <2>2, <3>1, <1>1, <1>7
    <2>3. CASE y = a
      <3>1. j = 0 \/ (j \in 1 .. m /\ n + j \in 0 .. n + m + 1)
        BY <2>3, <1>7
      <3>2. n + m + 1 \in 0 .. n + m + 1
        OBVIOUS
      <3> QED  BY <2>3, <3>1, <3>2, <1>7
    <2> QED  BY <2>1, <2>2, <2>3
  <1>11. Backed'
    <2>1. ASSUME NEW x \in Arena, NEW k \in Places(x)', At(x, k)'.buf # NULL
          PROVE  heap'[At(x, k)'.buf] = UsableSize(At(x, k)'.size)
      BY <2>1, <1>2, <1>9 DEF IInv, Backed
    <2>2. ASSUME NEW x \in Arena, NEW k \in Places(x)', At(x, k)'.buf = NULL
          PROVE  At(x, k)' = NoChunk
      <3>1. CASE x = a
        BY <3>1, <1>6
      <3>2. CASE x # a /\ x # dest
        BY <2>2, <3>2, <1>8 DEF IInv, Backed
      <3>3. CASE x = dest
        <4>1. k \in 0 .. n \/ k = n + m + 1 \/ (k - n \in 1 .. m /\ k = n + (k - n))
          BY <3>3, <1>7
        <4>2. 0 \in Places(a) /\ \A i \in 1 .. m : i \in Places(a)
          BY <1>7
        <4>3. \E y \in Arena : \E j \in Places(y) : At(x, k)' = At(y, j)
          BY <3>3, <4>1, <4>2, <1>7
        <4> QED  BY <2>2, <4>3 DEF IInv, Backed
      <3> QED  BY <3>1, <3>2, <3>3
    <2> QED  BY <2>1, <2>2 DEF Backed
  <1>12. Unshared'
    <2> SUFFICES ASSUME NEW x \in Arena, NEW c \in Arena, NEW k \in Places(x)', NEW l \in Places(c)',
                        At(x, k)'.buf # NULL, At(x, k)'.buf = At(c, l)'.buf
                 PROVE  x = c /\ k = l
      BY DEF Unshared
    <2>1. PICK y \in Arena : \E j \in Places(y) : At(x, k)' = At(y, j) /\ Came(a, dest, n, m, x, k, y, j)
      BY <1>9
    <2>2. PICK j \in Places(y) : At(x, k)' = At(y, j) /\ Came(a, dest, n, m, x, k, y, j)
      BY <2>1
    <2>3. PICK z \in Arena : \E i \in Places(z) : At(c, l)' = At(z, i) /\ Came(a, dest, n, m, c, l, z, i)
      BY <1>9
    <2>4. PICK i \in Places(z) : At(c, l)' = At(z, i) /\ Came(a, dest, n, m, c, l, z, i)
      BY <2>3
    <2>5. y = z /\ j = i
      BY <2>2, <2>4 DEF IInv, Unshared
    <2> QED  BY <2>2, <2>4, <2>5 DEF Came
  <1>13. Owned'
    <2> SUFFICES ASSUME NEW c \in Buf, ~Free(c)' PROVE \E x \in Arena : \E k \in Places(x)' : At(x, k)'.buf = c
      BY DEF Owned
    <2>1. PICK y \in Arena : \E j \in Places(y) : At(y, j).buf = c
      BY <1>2 DEF Free, IInv, Owned
    <2> DEFINE x == IF y = a THEN dest ELSE y
    <2>2. x \in Arena /\ \E k \in Places(x)' : At(x, k)'.buf = c
      BY <2>1, <1>10
    <2> QED  BY <2>2
  <1>14. Unused'
    BY <1>1, <1>2 DEF Unused, IInv
  <1>15. Inside'
    <2> SUFFICES ASSUME NEW p \in objects' PROVE \E k \in Places(p.holder)' : Lies(p, k)'
      BY DEF Inside
    <2>1. PICK o \in objects : /\ p.buf = o.buf /\ p.at = o.at /\ p.size = o.size
                               /\ p.holder = IF o.holder = a THEN dest ELSE o.holder
      BY <1>3
    <2>2. PICK j \in Places(o.holder) : Lies(o, j)
      BY DEF IInv, Inside
    <2>3. o.holder \in Arena
      BY PieceFields DEF IInv
    <2>4. PICK k \in Places(p.holder)' : At(p.holder, k)' = At(o.holder, j)
      BY <2>1, <2>2, <2>3, <1>10
    <2> QED  BY <2>1, <2>2, <2>4 DEF Lies
  <1>16. Apart'
    <2> SUFFICES ASSUME NEW p \in objects', NEW q \in objects', p # q, p.buf = q.buf PROVE Disjoint(p, q)
      BY DEF Apart, Disjoint
    <2>1. PICK o \in objects : /\ p = IF o.holder = a THEN [o EXCEPT !.holder = dest] ELSE o
                               /\ p.buf = o.buf /\ p.at = o.at /\ p.size = o.size
      BY <1>3
    <2>2. PICK u \in objects : /\ q = IF u.holder = a THEN [u EXCEPT !.holder = dest] ELSE u
                               /\ q.buf = u.buf /\ q.at = u.at /\ q.size = u.size
      BY <1>3
    <2>3. o # u
      BY <2>1, <2>2
    <2> QED  BY <2>1, <2>2, <2>3 DEF IInv, Apart, Disjoint
  <1>17. Blamed'
    <2>1. arena'[a].current.buf = NULL
      BY <1>1, NoChunkFields DEF Constructed
    <2> QED  BY <1>1, <1>2, <2>1 DEF Blamed, IInv
  <1> QED  BY <1>4, <1>11, <1>12, <1>13, <1>14, <1>15, <1>16, <1>17 DEF IInv

-----------------------------------------------------------------------------
(* The invariant and what follows from it.                                 *)
LEMMA AbortKeeps ==
    ASSUME IInv, NEW a \in Arena, NEW size \in Size, Abort(a, size)
    PROVE  IInv'
  <1>1. aborted' = TRUE /\ UNCHANGED <<arena, heap, objects, created, misused>>
    BY DEF Abort
  <1>2. misused
    BY DEF Abort, InvariantFails, IInv, Blamed
  <1>3. \A x : Places(x)' = Places(x) /\ \A k : At(x, k)' = At(x, k)
    BY <1>1 DEF Places, At
  <1>4. Typed' /\ Unused' /\ Apart' /\ Blamed'
    BY <1>1, <1>2 DEF IInv, Typed, Unused, Apart, Disjoint, Blamed
  <1>5. Backed' /\ Unshared'
    BY <1>1, <1>3 DEF IInv, Backed, Unshared
  <1>6. Owned' /\ Inside'
    BY <1>1, <1>3 DEF IInv, Owned, Free, Inside, Lies
  <1> QED  BY <1>4, <1>5, <1>6 DEF IInv

LEMMA StutterKeeps ==
    ASSUME IInv, UNCHANGED vars
    PROVE  IInv'
  <1>1. UNCHANGED <<arena, heap, objects, created, aborted, misused>>
    BY DEF vars
  <1>2. \A x : Places(x)' = Places(x) /\ \A k : At(x, k)' = At(x, k)
    BY <1>1 DEF Places, At
  <1>3. Typed' /\ Unused' /\ Apart' /\ Blamed'
    BY <1>1 DEF IInv, Typed, Unused, Apart, Disjoint, Blamed
  <1>4. Backed' /\ Unshared'
    BY <1>1, <1>2 DEF IInv, Backed, Unshared
  <1>5. Owned' /\ Inside'
    BY <1>1, <1>2 DEF IInv, Owned, Free, Inside, Lies
  <1> QED  BY <1>3, <1>4, <1>5 DEF IInv

LEMMA InitIInv ==
    ASSUME Init
    PROVE  IInv
  <1>1. /\ arena = [a \in Arena |-> Constructed] /\ heap = [b \in Buf |-> 0]
        /\ objects = {} /\ created = {} /\ aborted = FALSE /\ misused = FALSE
    BY DEF Init
  <1>2. Constructed \in Fields /\ Constructed.current = NoChunk /\ Constructed.others = <<>>
    BY FieldsMade, NoChunkFields
  <1>3. \A a \in Arena : arena[a].current = NoChunk /\ arena[a].others = <<>>
    BY <1>1, <1>2
  <1>4. \A a \in Arena : Places(a) = {0} /\ At(a, 0) = NoChunk
    BY <1>3 DEF Places, At
  <1>5. Typed
    BY <1>1, <1>2 DEF Typed
  <1>6. Backed /\ Unshared
    BY <1>4, NoChunkFields DEF Backed, Unshared
  <1>7. Owned /\ Unused /\ Inside /\ Apart
    BY <1>1, <1>3 DEF Owned, Free, Unused, Inside, Apart
  <1>8. Blamed
    BY <1>1, <1>3, NoChunkFields DEF Blamed
  <1> QED  BY <1>5, <1>6, <1>7, <1>8 DEF IInv

LEMMA StepKeeps ==
    ASSUME IInv, [Next]_vars
    PROVE  IInv'
  <1>1. CASE UNCHANGED vars
    BY <1>1, StutterKeeps
  <1>2. ASSUME NEW a \in Arena, NEW initial_size \in InitialSize, create(a, initial_size) PROVE IInv'
    BY <1>2, CreateKeeps
  <1>3. ASSUME NEW a \in Arena, destroy(a) PROVE IInv'
    BY <1>3, DestroyKeeps
  <1>4. ASSUME NEW a \in Arena, NEW size \in Size, malloc_from_arena(a, size) PROVE IInv'
    <2>1. CASE Fits(arena[a].current, size)
      BY <1>4, <2>1, MallocFits
    <2>2. CASE ~Fits(arena[a].current, size)
      BY <1>4, <2>2, MallocGrows
    <2> QED  BY <2>1, <2>2
  <1>5. ASSUME NEW a \in Arena, NEW size \in Size, Abort(a, size) PROVE IInv'
    BY <1>5, AbortKeeps
  <1>6. ASSUME NEW a \in Arena, NEW dest \in Arena, move_memory(a, dest) PROVE IInv'
    BY <1>6, MoveKeeps
  <1> QED  BY <1>1, <1>2, <1>3, <1>4, <1>5, <1>6 DEF Next

\* The inductive invariant holds in every state the arenas can reach.
THEOREM Invariance == Spec => []IInv
  <1>1. Init => IInv
    BY InitIInv
  <1>2. IInv /\ [Next]_vars => IInv'
    BY StepKeeps
  <1> QED  BY <1>1, <1>2, PTL DEF Spec

LEMMA HeldWhere ==
    ASSUME IInv, NEW b \in Buf
    PROVE  /\ \A p \in Held(b) : /\ p = <<p[1], p[2]>> /\ p[1] \in Arena
                                 /\ p[2] - 1 \in Places(p[1]) /\ p[2] \in Nat
                                 /\ At(p[1], p[2] - 1).buf = b
           /\ \A a \in Arena : \A k \in Places(a) : At(a, k).buf = b => <<a, k + 1>> \in Held(b)
  <1>1. ASSUME NEW p \in Held(b)
        PROVE  /\ p = <<p[1], p[2]>> /\ p[1] \in Arena
               /\ p[2] - 1 \in Places(p[1]) /\ p[2] \in Nat
               /\ At(p[1], p[2] - 1).buf = b
    <2>1. PICK a \in Arena : p \in {a} \X DOMAIN Chunks(a)
      BY DEF Held
    <2>2. p = <<p[1], p[2]>> /\ p[1] = a /\ p[2] \in DOMAIN Chunks(a) /\ Chunks(p[1])[p[2]].buf = b
      BY <2>1 DEF Held
    <2>3. DOMAIN Chunks(a) = 1 .. Len(arena[a].others) + 1 /\ Len(arena[a].others) \in Nat
      BY ChunksAreAt, Contents DEF IInv
    <2>4. p[2] - 1 \in Places(a) /\ Chunks(a)[p[2]] = At(a, p[2] - 1)
      BY <2>2, ChunksAreAt DEF IInv
    <2> QED  BY <2>2, <2>3, <2>4
  <1>2. ASSUME NEW a \in Arena, NEW k \in Places(a), At(a, k).buf = b
        PROVE  <<a, k + 1>> \in Held(b)
    <2>1. k + 1 \in DOMAIN Chunks(a) /\ Chunks(a)[k + 1] = At(a, k)
      BY ChunksAreAt DEF IInv
    <2> QED  BY <1>2, <2>1 DEF Held
  <1> QED  BY <1>1, <1>2

LEMMA IInvOneOwner ==
    ASSUME IInv
    PROVE  OneOwner
  <1> SUFFICES ASSUME NEW b \in Buf PROVE Cardinality(Held(b)) = IF Free(b) THEN 0 ELSE 1
    BY DEF OneOwner
  <1>1. CASE Free(b)
    <2>1. Held(b) = {}
      BY <1>1, FreeIsNowhere, HeldWhere
    <2> QED  BY <1>1, <2>1, FS_EmptySet
  <1>2. CASE ~Free(b)
    <2>1. PICK a \in Arena : \E k \in Places(a) : At(a, k).buf = b
      BY <1>2 DEF IInv, Owned
    <2>2. PICK k \in Places(a) : At(a, k).buf = b
      BY <2>1
    <2>3. <<a, k + 1>> \in Held(b)
      BY <2>2, HeldWhere
    <2>4. ASSUME NEW p \in Held(b) PROVE p = <<a, k + 1>>
      <3>1. /\ p = <<p[1], p[2]>> /\ p[1] \in Arena /\ p[2] - 1 \in Places(p[1]) /\ p[2] \in Nat
            /\ At(p[1], p[2] - 1).buf = b
        BY HeldWhere
      <3>2. b # NULL
        BY ArenaAssumption
      <3>3. p[1] = a /\ p[2] - 1 = k
        BY <2>2, <3>1, <3>2 DEF IInv, Unshared
      <3>4. p[2] = k + 1
        BY <3>1, <3>3
      <3> QED  BY <3>1, <3>3, <3>4
    <2>5. Held(b) = {<<a, k + 1>>}
      BY <2>3, <2>4
    <2> QED  BY <1>2, <2>5, FS_Singleton
  <1> QED  BY <1>1, <1>2

LEMMA IInvObjectsValid ==
    ASSUME IInv
    PROVE  ObjectsValid
  <1>1. ASSUME NEW o \in objects
        PROVE  \E i \in DOMAIN Chunks(o.holder) :
                  LET chunk == Chunks(o.holder)[i]
                  IN  chunk.buf = o.buf /\ o.at + o.size <= F!Min({chunk.used, heap[o.buf]})
    <2>1. o.holder \in Arena /\ o.buf \in Buf /\ o.at \in Nat /\ o.size \in Nat
      BY PieceFields DEF IInv
    <2>2. PICK k \in Places(o.holder) : Lies(o, k)
      BY DEF IInv, Inside
    <2> DEFINE chunk == At(o.holder, k)
    <2>3. k + 1 \in DOMAIN Chunks(o.holder) /\ Chunks(o.holder)[k + 1] = chunk
      BY <2>1, ChunksAreAt DEF IInv
    <2>4. chunk.used \in Nat /\ chunk.size \in Nat /\ chunk.used <= chunk.size
      BY <2>1, Contents, ChunkFields DEF IInv
    <2>5. chunk.buf = o.buf /\ o.at + o.size <= chunk.used
      BY <2>2 DEF Lies
    <2>6. heap[o.buf] = UsableSize(chunk.size)
      BY <2>1, <2>5, ArenaAssumption DEF IInv, Backed
    <2> HIDE DEF chunk
    <2>7. UsableSize(chunk.size) \in Nat /\ chunk.size <= UsableSize(chunk.size)
      BY <2>4, Usable
    <2>8. heap[o.buf] \in Int /\ chunk.used \in Int /\ o.at + o.size <= heap[o.buf]
      BY <2>1, <2>4, <2>5, <2>6, <2>7
    <2>9. o.at + o.size <= F!Min({chunk.used, heap[o.buf]})
      BY <2>5, <2>8, MinOfTwo
    <2> QED  BY <2>3, <2>5, <2>9
  <1>2. ASSUME NEW o \in objects, NEW q \in objects, o # q, o.buf = q.buf
        PROVE  Bytes(o) \cap Bytes(q) = {}
    <2>1. o.at \in Nat /\ o.size \in Nat /\ q.at \in Nat /\ q.size \in Nat
      BY PieceFields DEF IInv
    <2>2. o.at + o.size <= q.at \/ q.at + q.size <= o.at
      BY <1>2 DEF IInv, Apart, Disjoint
    <2> QED  BY <2>1, <2>2 DEF Bytes
  <1> QED  BY <1>1, <1>2 DEF ObjectsValid

\* MemorySafe: however memory was moved between arenas, no block is lost or freed
\* twice, each piece lies in a block that is still held and apart from the
\* others, and the invariant of line 89 fails only for a request of 0 bytes.
THEOREM MemorySafeAlways == Spec => []MemorySafe
  <1>1. IInv => MemorySafe
    <2> SUFFICES ASSUME IInv PROVE MemorySafe
      OBVIOUS
    <2>1. TypeOK
      <3>1. DOMAIN arena = Arena /\ heap \in [Buf -> Nat] /\ created \subseteq Arena
            /\ aborted \in BOOLEAN /\ misused \in BOOLEAN
        BY DEF IInv, Typed
      <3>2. \A a \in Arena : /\ arena[a].current \in Chunk /\ arena[a].others \in Seq(Chunk)
                             /\ arena[a].size_of_others \in Nat /\ arena[a].footprint_of_others \in Nat
        BY Contents DEF IInv
      <3> QED  BY <3>1, <3>2 DEF TypeOK
    <2>2. AbortsOnlyMisused
      BY DEF IInv, Blamed, AbortsOnlyMisused
    <2> QED  BY <2>1, <2>2, IInvOneOwner, IInvObjectsValid DEF MemorySafe
  <1> QED  BY <1>1, Invariance, PTL

\* The iterator's index -1 is place 0, index idx is place idx + 1.
LEMMA IteratedPlaces ==
    ASSUME IInv, NEW a \in Arena, arena[a].current.buf # NULL
    PROVE  /\ Iterated(a) = -1 .. Len(arena[a].others) - 1
           /\ \A idx \in Iterated(a) : idx + 1 \in Places(a) /\ Current(a, idx) = At(a, idx + 1)
           /\ \A k \in Places(a) : k - 1 \in Iterated(a) /\ Current(a, k - 1) = At(a, k)
  <1> DEFINE others == arena[a].others
  <1> PICK n \in Nat : n = Len(others)
    BY Contents DEF IInv
  <1>1. \A idx \in -1 .. n : More(a, idx) <=> idx < n
    BY DEF More
  <1>2. Iterated(a) = {idx \in -1 .. n : \A before \in -1 .. idx : More(a, before)}
    BY DEF Iterated
  <1>3. ASSUME NEW idx \in -1 .. n
        PROVE  (\A before \in -1 .. idx : More(a, before)) <=> idx < n
    BY <1>1
  <1>4. Iterated(a) = -1 .. n - 1
    BY <1>2, <1>3
  <1>5. \A idx \in -1 .. n - 1 : idx + 1 \in Places(a) /\ Current(a, idx) = At(a, idx + 1)
    BY DEF Places, Current, At
  <1>6. \A k \in Places(a) : k - 1 \in -1 .. n - 1 /\ Current(a, k - 1) = At(a, k)
    BY DEF Places, Current, At
  <1> QED  BY <1>4, <1>5, <1>6

\* IteratorComplete: in an arena with a current chunk a loop of more() and next()
\* meets the bytes of every piece exactly once.
THEOREM IteratorCompleteAlways == Spec => []IteratorComplete
  <1>1. IInv => IteratorComplete
    <2> SUFFICES ASSUME IInv, NEW o \in objects, arena[o.holder].current.buf # NULL
                 PROVE  Cardinality({idx \in Iterated(o.holder) :
                            /\ Current(o.holder, idx).buf = o.buf
                            /\ o.at + o.size <= Current(o.holder, idx).used}) = 1
      BY DEF IteratorComplete
    <2> DEFINE a == o.holder
               holds(idx) == Current(a, idx).buf = o.buf /\ o.at + o.size <= Current(a, idx).used
    <2>1. a \in Arena /\ o.buf # NULL
      BY PieceFields, ArenaAssumption DEF IInv
    <2>2. PICK k \in Places(a) : Lies(o, k)
      BY DEF IInv, Inside
    <2>3. k - 1 \in Iterated(a) /\ holds(k - 1)
      BY <2>1, <2>2, IteratedPlaces DEF Lies
    <2>4. ASSUME NEW idx \in Iterated(a), holds(idx) PROVE idx = k - 1
      <3>1. idx + 1 \in Places(a) /\ At(a, idx + 1).buf = o.buf
        BY <2>1, <2>4, IteratedPlaces
      <3>2. idx + 1 = k
        BY <2>1, <2>2, <3>1 DEF IInv, Unshared, Lies
      <3>3. idx \in Int
        BY <2>1, IteratedPlaces
      <3> QED  BY <3>2, <3>3
    <2> DEFINE found == {idx \in Iterated(a) : holds(idx)}
    <2>5. found = {k - 1}
      BY <2>3, <2>4
    <2> HIDE DEF found
    <2>6. Cardinality(found) = 1
      BY <2>5, FS_Singleton
    <2> QED  BY <2>6 DEF found
  <1> QED  BY <1>1, Invariance, PTL

-----------------------------------------------------------------------------
(* The totals of the other chunks, for any weight of a chunk.              *)
Weights(w, q) == [i \in DOMAIN q |-> w[q[i]]]
Weighed(w, q) == Total(Weights(w, q), DOMAIN q)

LEMMA WeightsOf ==
    ASSUME NEW w \in [Chunk -> Nat], NEW q \in Aside
    PROVE  /\ DOMAIN q = 1 .. Len(q) /\ IsFiniteSet(DOMAIN q) /\ Len(q) \in Nat
           /\ \A i \in DOMAIN q : q[i] \in Chunk /\ Weights(w, q)[i] = w[q[i]] /\ Weights(w, q)[i] \in Nat
  <1>1. DOMAIN q = 1 .. Len(q) /\ Len(q) \in Nat /\ \A i \in DOMAIN q : q[i] \in Chunk
    BY DEF Aside
  <1>2. IsFiniteSet(1 .. Len(q))
    BY <1>1, FS_Interval
  <1>3. \A i \in DOMAIN q : Weights(w, q)[i] = w[q[i]] /\ Weights(w, q)[i] \in Nat
    BY <1>1 DEF Weights
  <1> QED  BY <1>1, <1>2, <1>3

LEMMA WeighedEmpty ==
    ASSUME NEW w
    PROVE  Weighed(w, <<>>) = 0
  <1>1. DOMAIN <<>> = {}
    OBVIOUS
  <1> QED  BY <1>1, TotalEmpty DEF Weighed

LEMMA WeighedAppend ==
    ASSUME NEW w \in [Chunk -> Nat], NEW q \in Aside, NEW c \in Chunk
    PROVE  Weighed(w, Append(q, c)) = Weighed(w, q) + w[c]
  <1> DEFINE t == Append(q, c)
             S == DOMAIN q
             x == Len(q) + 1
             g == Weights(w, t)
  <1>1. /\ t \in Aside /\ DOMAIN t = S \cup {x} /\ x \notin S
        /\ t[x] = c /\ \A i \in S : t[i] = q[i]
    <2>1. q \in Seq(Chunk) /\ Len(q) \in Nat
      BY DEF Aside
    <2>2. Append(q, c) \in Seq(Chunk) /\ Len(Append(q, c)) = Len(q) + 1
          /\ DOMAIN Append(q, c) = 1 .. Len(q) + 1 /\ S = 1 .. Len(q)
      BY <2>1
    <2>3. 1 .. Len(q) + 1 = (1 .. Len(q)) \cup {Len(q) + 1} /\ Len(q) + 1 \notin 1 .. Len(q)
      BY <2>1
    <2>4. Append(q, c)[Len(q) + 1] = c /\ \A i \in 1 .. Len(q) : Append(q, c)[i] = q[i]
      BY <2>1
    <2> QED  BY <2>2, <2>3, <2>4 DEF Aside
  <1>2. IsFiniteSet(S)
    BY WeightsOf
  <1> HIDE DEF t, x, S
  <1>3. \A i \in DOMAIN t : g[i] = w[t[i]] /\ g[i] \in Nat
    BY <1>1, WeightsOf
  <1> HIDE DEF g
  <1>4. Total(g, S \cup {x}) = Total(g, S) + g[x]
    <2>1. \A i \in S \cup {x} : g[i] \in Nat
      BY <1>1, <1>3
    <2> QED  BY <1>1, <1>2, <2>1, TotalAdd
  <1>5. Total(g, S) = Total(Weights(w, q), S)
    <2>1. \A i \in S : g[i] = Weights(w, q)[i]
      BY <1>1, <1>3 DEF Weights, S
    <2> QED  BY <2>1, TotalSame
  <1>6. g[x] = w[c]
    BY <1>1, <1>3
  <1>7. Weighed(w, t) = Total(g, S \cup {x}) /\ Weighed(w, q) = Total(Weights(w, q), S)
    BY <1>1 DEF Weighed, g, S
  <1>8. Weighed(w, t) = Weighed(w, q) + w[c]
    BY <1>4, <1>5, <1>6, <1>7
  <1> QED  BY <1>8 DEF t

LEMMA WeighedConcat ==
    ASSUME NEW w \in [Chunk -> Nat], NEW q \in Aside, NEW r \in Aside
    PROVE  q \o r \in Aside /\ Weighed(w, q \o r) = Weighed(w, q) + Weighed(w, r)
  <1> DEFINE t == q \o r
             n == Len(q)
             m == Len(r)
             S == 1 .. n
             R == n + 1 .. n + m
             g == Weights(w, t)
             f == [i \in R |-> i - n]
             e == [j \in 1 .. m |-> j + n]
  <1>1. n \in Nat /\ m \in Nat /\ DOMAIN q = S /\ DOMAIN r = 1 .. m
    BY DEF Aside
  <1>2. /\ t \in Aside /\ DOMAIN t = 1 .. n + m
        /\ \A i \in S : t[i] = q[i]
        /\ \A j \in 1 .. m : t[n + j] = r[j]
    <2>1. q \in Seq(Chunk) /\ r \in Seq(Chunk)
      BY DEF Aside
    <2>2. q \o r \in Seq(Chunk) /\ DOMAIN (q \o r) = 1 .. Len(q) + Len(r)
          /\ \A i \in 1 .. Len(q) : (q \o r)[i] = q[i]
          /\ \A j \in 1 .. Len(r) : (q \o r)[Len(q) + j] = r[j]
      BY <2>1
    <2> QED  BY <2>2 DEF Aside
  <1> HIDE DEF t, n, m
  <1>3. 1 .. n + m = S \cup R /\ S \cap R = {}
    BY <1>1
  <1>4. IsFiniteSet(S) /\ IsFiniteSet(R) /\ IsFiniteSet(1 .. m)
    BY <1>1, FS_Interval
  <1>5. \A i \in S \cup R : g[i] = w[t[i]] /\ g[i] \in Nat
    <2>1. \A i \in DOMAIN t : g[i] = w[t[i]] /\ g[i] \in Nat
      BY <1>2, WeightsOf
    <2>2. DOMAIN t = S \cup R
      BY <1>2, <1>3
    <2> HIDE DEF g, S, R
    <2> QED  BY <2>1, <2>2
  <1>6. /\ \A i \in S : Weights(w, q)[i] = w[q[i]]
        /\ \A j \in 1 .. m : Weights(w, r)[j] = w[r[j]] /\ Weights(w, r)[j] \in Nat
    BY <1>1, WeightsOf
  <1>7. /\ \A i \in R : f[i] \in 1 .. m /\ e[f[i]] = i
        /\ \A j \in 1 .. m : e[j] \in R /\ f[e[j]] = j
        /\ \A i \in R : t[i] = r[f[i]]
    <2>1. \A i \in R : i - n \in 1 .. m /\ (i - n) + n = i /\ n + (i - n) = i
      BY <1>1
    <2>2. \A j \in 1 .. m : j + n \in R /\ (j + n) - n = j
      BY <1>1
    <2>3. \A i \in R : f[i] = i - n
      OBVIOUS
    <2>4. \A j \in 1 .. m : e[j] = j + n
      OBVIOUS
    <2> HIDE DEF f, e, R
    <2>5. \A i \in R : f[i] \in 1 .. m /\ e[f[i]] = i
      BY <2>1, <2>3, <2>4
    <2>6. \A j \in 1 .. m : e[j] \in R /\ f[e[j]] = j
      BY <2>2, <2>3, <2>4
    <2>7. \A i \in R : t[i] = r[f[i]]
      BY <1>2, <2>1, <2>3
    <2> QED  BY <2>5, <2>6, <2>7
  <1> HIDE DEF g, f, e, S, R
  <1>8. Total(g, S \cup R) = Total(g, S) + Total(g, R)
    BY <1>3, <1>4, <1>5, TotalUnion
  <1>9. Total(g, S) = Total(Weights(w, q), S)
    <2>1. \A i \in S : g[i] = Weights(w, q)[i]
      BY <1>2, <1>5, <1>6
    <2> QED  BY <2>1, TotalSame
  <1>10. Total(g, R) = Total(Weights(w, r), 1 .. m)
    <2> DEFINE h == Weights(w, r)
               D == 1 .. m
    <2>1. \A i \in R : f[i] \in D /\ g[i] = h[f[i]]
      BY <1>5, <1>6, <1>7
    <2>2. \A i \in R : g[i] \in Nat
      BY <1>5
    <2>3. \A j \in D : h[j] \in Nat
      BY <1>6
    <2>4. \A j \in D : e[j] \in R /\ f[e[j]] = j
      BY <1>7
    <2>5. \A i \in R : e[f[i]] = i
      BY <1>7
    <2>6. IsFiniteSet(D)
      BY <1>4
    <2> HIDE DEF h, D
    <2>7. SameAmounts(g, R, h, D, f, e)
      BY <2>1, <2>2, <2>3, <2>4, <2>5 DEF SameAmounts
    <2>8. Total(g, R) = Total(h, D)
      BY <1>4, <2>6, <2>7, TotalMoved
    <2> QED  BY <2>8 DEF h, D
  <1>11. Weighed(w, t) = Total(g, S \cup R)
    BY <1>2, <1>3 DEF Weighed, g
  <1>12. Weighed(w, q) = Total(Weights(w, q), S) /\ Weighed(w, r) = Total(Weights(w, r), 1 .. m)
    BY <1>1 DEF Weighed
  <1>13. Weighed(w, t) = Weighed(w, q) + Weighed(w, r)
    BY <1>8, <1>9, <1>10, <1>11, <1>12
  <1> QED  BY <1>2, <1>13 DEF t

Sizes == [c \in Chunk |-> c.size]
Footprints == [c \in Chunk |-> toku_memory_footprint(c)]

LEMMA SizesTyped ==
    /\ Sizes \in [Chunk -> Nat] /\ Footprints \in [Chunk -> Nat]
    /\ \A c \in Chunk : Sizes[c] = c.size /\ Footprints[c] = toku_memory_footprint(c)
  <1>1. \A c \in Chunk : c.size \in Nat /\ toku_memory_footprint(c) \in Nat
    BY ChunkFields, Footprint
  <1> QED  BY <1>1 DEF Sizes, Footprints

LEMMA SumOfSizes ==
    ASSUME NEW q \in Aside
    PROVE  F!MapThenSumSet(LAMBDA i : q[i].size, DOMAIN q) = Weighed(Sizes, q)
  <1> DEFINE S == DOMAIN q
             g == Weights(Sizes, q)
             iter == CHOOSE h : h = [s \in SUBSET S |->
                        IF s = {} THEN 0
                        ELSE q[CHOOSE x \in s : TRUE].size + h[s \ {CHOOSE x \in s : TRUE}]]
  <1>1. F!MapThenSumSet(LAMBDA i : q[i].size, S) = iter[S]
    BY DEF F!MapThenSumSet, F!MapThenFoldSet
  <1>2. IsFiniteSet(S) /\ \A i \in S : g[i] \in Nat /\ g[i] = q[i].size
    BY WeightsOf, SizesTyped
  <1> HIDE DEF g, S
  <1>3. \A s \in SUBSET S : s # {} => g[CHOOSE x \in s : TRUE] = q[CHOOSE x \in s : TRUE].size
    BY <1>2
  <1>4. \A h : Sums(h, g, S) <=>
           h = [s \in SUBSET S |-> IF s = {} THEN 0
                ELSE q[CHOOSE x \in s : TRUE].size + h[s \ {CHOOSE x \in s : TRUE}]]
    BY <1>3 DEF Sums
  <1>5. \E h : Sums(h, g, S)
    BY <1>2, TotalSums
  <1>6. Sums(iter, g, S)
    BY <1>4, <1>5, ZenonT(60)
  <1> HIDE DEF iter
  <1>7. iter[S] = Total(g, S)
    BY <1>2, <1>6, SumsAreTotals
  <1> QED  BY <1>1, <1>7 DEF Weighed, g, S

LEMMA SumOfFootprints ==
    ASSUME NEW q \in Aside
    PROVE  F!MapThenSumSet(LAMBDA i : toku_memory_footprint(q[i]), DOMAIN q) = Weighed(Footprints, q)
  <1> DEFINE S == DOMAIN q
             g == Weights(Footprints, q)
             iter == CHOOSE h : h = [s \in SUBSET S |->
                        IF s = {} THEN 0
                        ELSE toku_memory_footprint(q[CHOOSE x \in s : TRUE])
                             + h[s \ {CHOOSE x \in s : TRUE}]]
  <1>1. F!MapThenSumSet(LAMBDA i : toku_memory_footprint(q[i]), S) = iter[S]
    BY DEF F!MapThenSumSet, F!MapThenFoldSet
  <1>2. IsFiniteSet(S) /\ \A i \in S : g[i] \in Nat /\ g[i] = toku_memory_footprint(q[i])
    BY WeightsOf, SizesTyped
  <1> HIDE DEF g, S
  <1>3. \A s \in SUBSET S : s # {} =>
           g[CHOOSE x \in s : TRUE] = toku_memory_footprint(q[CHOOSE x \in s : TRUE])
    BY <1>2
  <1>4. \A h : Sums(h, g, S) <=>
           h = [s \in SUBSET S |-> IF s = {} THEN 0
                ELSE toku_memory_footprint(q[CHOOSE x \in s : TRUE]) + h[s \ {CHOOSE x \in s : TRUE}]]
    BY <1>3 DEF Sums
  <1>5. \E h : Sums(h, g, S)
    BY <1>2, TotalSums
  <1>6. Sums(iter, g, S)
    BY <1>4, <1>5, ZenonT(60)
  <1> HIDE DEF iter
  <1>7. iter[S] = Total(g, S)
    BY <1>2, <1>6, SumsAreTotals
  <1> QED  BY <1>1, <1>7 DEF Weighed, g, S

LEMMA WeighedMove ==
    ASSUME NEW w \in [Chunk -> Nat], NEW q \in Aside, NEW r \in Aside, NEW c \in Chunk
    PROVE  Weighed(w, q \o r \o <<c>>) = Weighed(w, q) + Weighed(w, r) + w[c]
  <1> DEFINE t == q \o r
  <1>1. t \in Aside /\ Weighed(w, t) = Weighed(w, q) + Weighed(w, r)
    BY WeighedConcat
  <1> HIDE DEF t
  <1>2. t \o <<c>> = Append(t, c)
    <2>1. t \in Seq(Chunk)
      BY <1>1 DEF Aside
    <2> QED  BY <2>1
  <1>3. Weighed(w, Append(t, c)) = Weighed(w, t) + w[c]
    BY <1>1, WeighedAppend
  <1>4. Weighed(w, t \o <<c>>) = Weighed(w, q) + Weighed(w, r) + w[c]
    BY <1>1, <1>2, <1>3
  <1> QED  BY <1>4 DEF t

\* The totals of one arena are those of its other chunks.
Balanced(fields) ==
    /\ fields.size_of_others = Weighed(Sizes, fields.others)
    /\ fields.footprint_of_others = Weighed(Footprints, fields.others)

Balance == \A a \in created : Balanced(arena[a])

LEMMA NothingBalanced ==
    ASSUME NEW f, f.others = <<>>, f.size_of_others = 0, f.footprint_of_others = 0
    PROVE  Balanced(f)
  BY WeighedEmpty DEF Balanced

LEMMA CreateBalances ==
    ASSUME IInv, Balance, NEW a \in Arena, NEW initial_size \in InitialSize, create(a, initial_size)
    PROVE  Balance'
  <1>1. PICK chunk : arena' = [arena EXCEPT ![a] = [Constructed EXCEPT !.current = chunk]]
    BY DEF create
  <1>2. created' = created \cup {a} /\ created \subseteq Arena
    BY DEF create, IInv, Typed
  <1>3. /\ arena'[a].others = <<>> /\ arena'[a].size_of_others = 0 /\ arena'[a].footprint_of_others = 0
        /\ \A x \in Arena \ {a} : arena'[x] = arena[x]
    BY <1>1 DEF Constructed, IInv, Typed
  <1>4. Balanced(arena'[a])
    BY <1>3, NothingBalanced
  <1> QED  BY <1>2, <1>3, <1>4 DEF Balance

LEMMA DestroyBalances ==
    ASSUME IInv, Balance, NEW a \in Arena, destroy(a)
    PROVE  Balance'
  <1>1. created' = created \ {a} /\ created \subseteq Arena
    BY DEF destroy, IInv, Typed
  <1>2. \A x \in Arena \ {a} : arena'[x] = arena[x]
    BY DEF destroy, IInv, Typed
  <1> QED  BY <1>1, <1>2 DEF Balance

LEMMA MallocBalances ==
    ASSUME IInv, Balance, NEW a \in Arena, NEW size \in Size, malloc_from_arena(a, size)
    PROVE  Balance'
  <1> DEFINE f == arena[a]
             c == f.current
             g == SetAside(f, size)
  <1>1. PICK now : arena' = [arena EXCEPT ![a] = [g EXCEPT !.current = now]]
    BY DEF malloc_from_arena, IInv, Typed
  <1>2. created' = created /\ created \subseteq Arena /\ a \in created
    BY DEF malloc_from_arena, IInv, Typed
  <1>3. f \in Fields /\ c \in Chunk /\ f.others \in Aside
        /\ f.size_of_others \in Nat /\ f.footprint_of_others \in Nat
    BY Contents DEF IInv
  <1>4. Balanced(f)
    BY <1>2 DEF Balance
  <1>5. Balanced(g)
    <2>1. CASE Fits(c, size) \/ c.buf = NULL
      BY <1>4, <2>1 DEF SetAside
    <2>2. CASE ~(Fits(c, size) \/ c.buf = NULL)
      <3>1. /\ g.others = Append(f.others, c)
            /\ g.size_of_others = f.size_of_others + c.size
            /\ g.footprint_of_others = f.footprint_of_others + toku_memory_footprint(c)
        BY <1>3, <2>2 DEF SetAside, Fields
      <3>2. /\ Weighed(Sizes, Append(f.others, c)) = Weighed(Sizes, f.others) + c.size
            /\ Weighed(Footprints, Append(f.others, c))
                   = Weighed(Footprints, f.others) + toku_memory_footprint(c)
        <4> DEFINE q == f.others
        <4> HIDE DEF q, c
        <4>1. q \in Aside /\ c \in Chunk
          BY <1>3 DEF q
        <4>2. /\ Weighed(Sizes, Append(q, c)) = Weighed(Sizes, q) + Sizes[c]
              /\ Weighed(Footprints, Append(q, c)) = Weighed(Footprints, q) + Footprints[c]
          BY <4>1, SizesTyped, WeighedAppend
        <4> QED  BY <4>1, <4>2, SizesTyped DEF q
      <3> QED  BY <1>4, <3>1, <3>2 DEF Balanced
    <2> QED  BY <2>1, <2>2
  <1>6. g \in [DOMAIN g -> {g[x] : x \in DOMAIN g}] /\ DOMAIN g = DOMAIN f
    BY <1>3 DEF SetAside, Fields
  <1>7. /\ arena'[a].others = g.others /\ arena'[a].size_of_others = g.size_of_others
        /\ arena'[a].footprint_of_others = g.footprint_of_others
    <2>1. DOMAIN f = {"current", "others", "size_of_others", "footprint_of_others"}
      BY <1>3 DEF Fields
    <2>2. arena'[a] = [g EXCEPT !.current = now]
      BY <1>1 DEF IInv, Typed
    <2> HIDE DEF g
    <2> QED  BY <1>6, <2>1, <2>2
  <1>8. \A x \in Arena \ {a} : arena'[x] = arena[x]
    BY <1>1 DEF IInv, Typed
  <1>9. Balanced(arena'[a])
    BY <1>5, <1>7 DEF Balanced
  <1> QED  BY <1>2, <1>8, <1>9 DEF Balance

LEMMA MoveBalances ==
    ASSUME IInv, Balance, NEW a \in Arena, NEW dest \in Arena, move_memory(a, dest)
    PROVE  Balance'
  <1> DEFINE f == arena[dest]
             g == arena[a]
  <1>1. created' = created /\ created \subseteq Arena /\ a \in created /\ dest \in created /\ a # dest
    BY DEF move_memory, IInv, Typed
  <1>2. /\ f \in Fields /\ f.others \in Aside
        /\ f.size_of_others \in Nat /\ f.footprint_of_others \in Nat
        /\ g \in Fields /\ g.current \in Chunk /\ g.others \in Aside
        /\ g.size_of_others \in Nat /\ g.footprint_of_others \in Nat
    BY Contents DEF IInv
  <1>3. Balanced(f) /\ Balanced(g)
    BY <1>1 DEF Balance
  <1>4. /\ arena'[dest].others = f.others \o g.others \o <<g.current>>
        /\ arena'[dest].size_of_others = f.size_of_others + Added(g)
        /\ arena'[dest].footprint_of_others =
              f.footprint_of_others + g.footprint_of_others + toku_memory_footprint(g.current)
    <2>1. arena \in [Arena -> Fields]
      BY DEF IInv, Typed
    <2> DEFINE s == f.size_of_others + Added(g)
               p == f.footprint_of_others + g.footprint_of_others + toku_memory_footprint(g.current)
               q == f.others \o g.others \o <<g.current>>
               given == [f EXCEPT !.size_of_others = s, !.footprint_of_others = p, !.others = q]
    <2>2. arena' = [arena EXCEPT ![dest] = given, ![a] = Constructed]
      BY <1>1, <2>1 DEF move_memory, Fields
    <2> HIDE DEF s, p, q
    <2>3. given.size_of_others = s /\ given.footprint_of_others = p /\ given.others = q
      BY <1>2 DEF Fields
    <2> HIDE DEF given
    <2>4. arena'[dest] = given
      BY <1>1, <2>1, <2>2
    <2> QED  BY <2>3, <2>4 DEF s, p, q
  <1>5. /\ Weighed(Sizes, arena'[dest].others)
              = Weighed(Sizes, f.others) + Weighed(Sizes, g.others) + g.current.size
        /\ Weighed(Footprints, arena'[dest].others)
              = Weighed(Footprints, f.others) + Weighed(Footprints, g.others)
                + toku_memory_footprint(g.current)
    <2> DEFINE q == f.others
               r == g.others
               c == g.current
    <2>1. q \in Aside /\ r \in Aside /\ c \in Chunk /\ arena'[dest].others = q \o r \o <<c>>
      BY <1>2, <1>4
    <2> HIDE DEF q, r, c
    <2>2. /\ Weighed(Sizes, q \o r \o <<c>>) = Weighed(Sizes, q) + Weighed(Sizes, r) + Sizes[c]
          /\ Weighed(Footprints, q \o r \o <<c>>)
                = Weighed(Footprints, q) + Weighed(Footprints, r) + Footprints[c]
      BY <2>1, SizesTyped, WeighedMove
    <2> QED  BY <2>1, <2>2, SizesTyped DEF q, r, c
  <1>6. Balanced(arena'[dest])
    <2>1. g.current.size \in Nat /\ toku_memory_footprint(g.current) \in Nat
      BY <1>2, ChunkFields, Footprint
    <2> QED  BY <1>2, <1>3, <1>4, <1>5, <2>1 DEF Balanced, Added
  <1>7. Balanced(arena'[a]) /\ \A x \in Arena \ {a, dest} : arena'[x] = arena[x]
    <2>1. arena'[a] = Constructed /\ \A x \in Arena \ {a, dest} : arena'[x] = arena[x]
      BY MovedFields
    <2> QED  BY <2>1, NothingBalanced DEF Constructed
  <1> QED  BY <1>1, <1>6, <1>7 DEF Balance

\* TotalsExact: the totals that malloc_from_arena and move_memory keep by hand
\* are the sums over the other chunks, however memory was moved.
THEOREM TotalsExactAlways == Spec => []TotalsExact
  <1>1. Init => Balance
    BY DEF Init, Balance
  <1>2. IInv /\ Balance /\ [Next]_vars => Balance'
    <2> SUFFICES ASSUME IInv, Balance, [Next]_vars PROVE Balance'
      OBVIOUS
    <2>1. CASE UNCHANGED vars
      BY <2>1 DEF vars, Balance
    <2>2. ASSUME NEW a \in Arena, NEW initial_size \in InitialSize, create(a, initial_size) PROVE Balance'
      BY <2>2, CreateBalances
    <2>3. ASSUME NEW a \in Arena, destroy(a) PROVE Balance'
      BY <2>3, DestroyBalances
    <2>4. ASSUME NEW a \in Arena, NEW size \in Size, malloc_from_arena(a, size) PROVE Balance'
      BY <2>4, MallocBalances
    <2>5. ASSUME NEW a \in Arena, NEW size \in Size, Abort(a, size) PROVE Balance'
      BY <2>5 DEF Abort, Balance
    <2>6. ASSUME NEW a \in Arena, NEW dest \in Arena, move_memory(a, dest) PROVE Balance'
      BY <2>6, MoveBalances
    <2> QED  BY <2>1, <2>2, <2>3, <2>4, <2>5, <2>6 DEF Next
  <1>3. IInv /\ Balance => TotalsExact
    <2> SUFFICES ASSUME IInv, Balance, NEW a \in created
                 PROVE  /\ arena[a].size_of_others =
                              F!MapThenSumSet(LAMBDA i : arena[a].others[i].size, DOMAIN arena[a].others)
                        /\ arena[a].footprint_of_others =
                              F!MapThenSumSet(LAMBDA i : toku_memory_footprint(arena[a].others[i]),
                                              DOMAIN arena[a].others)
      BY DEF TotalsExact
    <2>1. arena[a].others \in Aside
      BY Contents DEF IInv, Typed
    <2> QED  BY <2>1, SumOfSizes, SumOfFootprints DEF Balance, Balanced
  <1> QED  BY <1>1, <1>2, <1>3, Invariance, PTL DEF Spec

=============================================================================
