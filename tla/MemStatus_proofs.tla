-------------------------- MODULE MemStatus_proofs --------------------------
(***************************************************************************)
(* For any number of threads: max_in_use never falls, and once the threads *)
(* are out of their calls it covers the memory in use; used and freed are  *)
(* sound accounts of the memory in use at every moment.                    *)
(***************************************************************************)
EXTENDS MemStatus, TLAPS, FiniteSetTheorems, WellFoundedInduction

-----------------------------------------------------------------------------
(* Sums over a finite set, as MapThenSumSet of the community modules makes *)
(* them: by a function on the subsets of the set that takes one element    *)
(* after the other, in an order that is not known.  To reason about such a *)
(* sum each element x is laid out as g[x] pebbles.  The number of pebbles  *)
(* satisfies the equation of the sum, and by induction on the size of the  *)
(* subset, in the form of the least number principle, nothing else does.   *)

\* The least number principle: the form in which these proofs use induction.
LEMMA LeastNumber ==
    ASSUME NEW T, T \subseteq Nat, T # {}
    PROVE  \E x \in T : \A y \in T : x <= y
  <1> DEFINE R == OpToRel(<, Nat)
  <1>1. IsWellFoundedOn(R, Nat)
    BY NatLessThanWellFounded
  <1>2. \A p : p \in R <=> p \in Nat \X Nat /\ p[1] < p[2]
    BY DEF OpToRel
  <1> HIDE DEF R
  <1>3. PICK x \in T : \A y \in T : ~ (<<y, x>> \in R)
    BY <1>1, WFMin
  <1>4. \A y \in T : ~ (y < x)
    BY <1>2, <1>3
  <1> QED  BY <1>3, <1>4

Pebbles(g, S) == UNION {{x} \X (1 .. g[x]) : x \in S}

Total(g, S) == Cardinality(Pebbles(g, S))

LEMMA PebblesOf ==
    ASSUME NEW g, NEW S
    PROVE  \A p : p \in Pebbles(g, S) <=> p = <<p[1], p[2]>> /\ p[1] \in S /\ p[2] \in 1 .. g[p[1]]
  BY DEF Pebbles

LEMMA OnePile ==
    ASSUME NEW x, NEW n \in Nat
    PROVE  IsFiniteSet({x} \X (1 .. n)) /\ Cardinality({x} \X (1 .. n)) = n
  <1>1. IsFiniteSet({x}) /\ Cardinality({x}) = 1
    BY FS_Singleton
  <1>2. IsFiniteSet(1 .. n) /\ Cardinality(1 .. n) = n
    <2>1. IsFiniteSet(1 .. n) /\ Cardinality(1 .. n) = IF 1 > n THEN 0 ELSE n - 1 + 1
      BY FS_Interval
    <2> QED  BY <2>1
  <1> DEFINE A == {x}
             B == 1 .. n
  <1>3. IsFiniteSet(A \X B) /\ Cardinality(A \X B) = Cardinality(A) * Cardinality(B)
    <2> HIDE DEF A, B
    <2> QED  BY <1>1, <1>2, FS_Product DEF A, B
  <1>4. Cardinality(A) * Cardinality(B) = n
    <2>1. Cardinality(A) = 1 /\ Cardinality(B) = n
      BY <1>1, <1>2
    <2> HIDE DEF A, B
    <2> QED  BY <2>1
  <1> QED  BY <1>3, <1>4

LEMMA PebblesFinite ==
    ASSUME NEW S, IsFiniteSet(S), NEW g, \A x \in S : g[x] \in Nat
    PROVE  IsFiniteSet(Pebbles(g, S)) /\ Total(g, S) \in Nat
  <1> DEFINE piles == {{x} \X (1 .. g[x]) : x \in S}
             pile == [x \in S |-> {x} \X (1 .. g[x])]
  <1>1. IsFiniteSet(piles)
    <2>1. pile \in Surjection(S, piles)
      BY DEF Surjection
    <2> QED  BY <2>1, FS_Surjection
  <1>2. \A p \in piles : IsFiniteSet(p)
    <2> SUFFICES ASSUME NEW x \in S PROVE IsFiniteSet({x} \X (1 .. g[x]))
      OBVIOUS
    <2>1. g[x] \in Nat
      OBVIOUS
    <2> QED  BY <2>1, OnePile
  <1> HIDE DEF piles
  <1>3. IsFiniteSet(UNION piles)
    BY <1>1, <1>2, FS_UNION
  <1>4. IsFiniteSet(Pebbles(g, S))
    BY <1>3 DEF Pebbles, piles
  <1> QED  BY <1>4, FS_CardinalityType DEF Total

\* One element of the set taken out.
LEMMA TotalStep ==
    ASSUME NEW S, IsFiniteSet(S), NEW g, \A y \in S : g[y] \in Nat, NEW x \in S
    PROVE  Total(g, S) = g[x] + Total(g, S \ {x})
  <1> DEFINE P == {x} \X (1 .. g[x])
             Q == Pebbles(g, S \ {x})
  <1>1. IsFiniteSet(S \ {x})
    BY FS_Subset
  <1>2. IsFiniteSet(P) /\ Cardinality(P) = g[x]
    BY OnePile
  <1>3. IsFiniteSet(Q) /\ Cardinality(Q) \in Nat
    BY <1>1, PebblesFinite DEF Total
  <1>4. Pebbles(g, S) = P \cup Q /\ P \cap Q = {}
    BY DEF Pebbles
  <1> HIDE DEF P, Q
  <1>5. Cardinality(P \cup Q) = Cardinality(P) + Cardinality(Q) - Cardinality({})
    BY <1>2, <1>3, <1>4, FS_Union
  <1>6. Cardinality({}) = 0
    BY FS_EmptySet
  <1>7. Total(g, S) = Cardinality(P) + Cardinality(Q)
    BY <1>2, <1>3, <1>4, <1>5, <1>6 DEF Total
  <1> QED  BY <1>2, <1>7 DEF Total, Q

LEMMA TotalEmpty ==
    ASSUME NEW g
    PROVE  Total(g, {}) = 0
  <1>1. Pebbles(g, {}) = {}
    BY DEF Pebbles
  <1> QED  BY <1>1, FS_EmptySet DEF Total

\* What MapThenSumSet makes: a function that satisfies this is the number of
\* pebbles, and there is one.
Sums(iter, g, S) ==
    iter = [s \in SUBSET S |-> IF s = {} THEN 0
                               ELSE g[CHOOSE x \in s : TRUE] + iter[s \ {CHOOSE x \in s : TRUE}]]

LEMMA TotalSums ==
    ASSUME NEW S, IsFiniteSet(S), NEW g, \A x \in S : g[x] \in Nat
    PROVE  Sums([s \in SUBSET S |-> Total(g, s)], g, S)
  <1> DEFINE iter == [s \in SUBSET S |-> Total(g, s)]
  <1> SUFFICES ASSUME NEW s \in SUBSET S
               PROVE  Total(g, s) = IF s = {} THEN 0
                          ELSE g[CHOOSE x \in s : TRUE] + iter[s \ {CHOOSE x \in s : TRUE}]
    BY DEF Sums
  <1>1. CASE s = {}
    BY <1>1, TotalEmpty
  <1>2. CASE s # {}
    <2>1. PICK x : x = CHOOSE y \in s : TRUE
      OBVIOUS
    <2>2. x \in s
      BY <1>2, <2>1
    <2>3. IsFiniteSet(s) /\ \A y \in s : g[y] \in Nat
      BY FS_Subset
    <2>4. Total(g, s) = g[x] + Total(g, s \ {x})
      BY <2>2, <2>3, TotalStep
    <2>5. s \ {x} \in SUBSET S
      OBVIOUS
    <2> QED  BY <1>2, <2>1, <2>4, <2>5
  <1> QED  BY <1>1, <1>2

LEMMA SumsAreTotals ==
    ASSUME NEW S, IsFiniteSet(S), NEW g, \A x \in S : g[x] \in Nat, NEW iter, Sums(iter, g, S)
    PROVE  iter[S] = Total(g, S)
  <1>1. \A s \in SUBSET S : IsFiniteSet(s) /\ Cardinality(s) \in Nat
    BY FS_Subset, FS_CardinalityType
  <1> DEFINE wrong == {s \in SUBSET S : iter[s] # Total(g, s)}
             T == {Cardinality(s) : s \in wrong}
  <1>2. ASSUME T # {} PROVE FALSE
    <2>1. T \subseteq Nat
      BY <1>1
    <2> HIDE DEF T
    <2>2. PICK n \in T : \A m \in T : n <= m
      BY <1>2, <2>1, LeastNumber
    <2>3. PICK s \in wrong : n = Cardinality(s)
      BY <2>2 DEF T
    <2>4. s # {}
      <3>1. iter[{}] = 0
        BY DEF Sums
      <3> QED  BY <3>1, <2>3, TotalEmpty
    <2>5. PICK x : x = CHOOSE y \in s : TRUE
      OBVIOUS
    <2>6. x \in s
      BY <2>4, <2>5
    <2>7. s \in SUBSET S /\ s \ {x} \in SUBSET S /\ iter[s] # Total(g, s)
      BY <2>3
    <2>8. iter[s] = g[x] + iter[s \ {x}]
      BY <2>4, <2>5, <2>7 DEF Sums
    <2>9. Total(g, s) = g[x] + Total(g, s \ {x})
      BY <1>1, <2>6, <2>7, TotalStep
    <2>10. s \ {x} \in wrong
      BY <2>7, <2>8, <2>9
    <2>11. Cardinality(s \ {x}) = n - 1 /\ n \in Nat
      BY <1>1, <2>3, <2>6, <2>7, FS_RemoveElement
    <2>12. n - 1 \in T
      BY <2>10, <2>11 DEF T
    <2> QED  BY <2>2, <2>11, <2>12
  <1> QED  BY <1>2

LEMMA TotalSame ==
    ASSUME NEW S, NEW g, NEW h, \A x \in S : g[x] = h[x]
    PROVE  Total(g, S) = Total(h, S)
  <1>1. Pebbles(g, S) = Pebbles(h, S)
    <2>1. {{x} \X (1 .. g[x]) : x \in S} = {{x} \X (1 .. h[x]) : x \in S}
      OBVIOUS
    <2> QED  BY <2>1 DEF Pebbles
  <1> QED  BY <1>1 DEF Total

\* One element of the set is worth something else.
LEMMA TotalChange ==
    ASSUME NEW S, IsFiniteSet(S), NEW g, NEW h, NEW x \in S,
           \A y \in S : g[y] \in Nat /\ h[y] \in Nat,
           \A y \in S \ {x} : g[y] = h[y]
    PROVE  Total(h, S) = Total(g, S) - g[x] + h[x]
  <1>1. Total(g, S) = g[x] + Total(g, S \ {x})
    BY TotalStep
  <1>2. Total(h, S) = h[x] + Total(h, S \ {x})
    BY TotalStep
  <1>3. Total(g, S \ {x}) = Total(h, S \ {x})
    BY TotalSame
  <1>4. IsFiniteSet(S \ {x})
    BY FS_Subset
  <1>5. Total(g, S \ {x}) \in Nat /\ g[x] \in Nat /\ h[x] \in Nat
    BY <1>4, PebblesFinite
  <1> QED  BY <1>1, <1>2, <1>3, <1>5

\* What every element of one set has, an element of its own in the other covers.
LEMMA TotalCovered ==
    ASSUME NEW S, IsFiniteSet(S), NEW R, IsFiniteSet(R),
           NEW g, \A x \in S : g[x] \in Nat,
           NEW h, \A y \in R : h[y] \in Nat,
           NEW f, \A x \in S : g[x] # 0 => f[x] \in R /\ g[x] <= h[f[x]],
           \A x, y \in S : g[x] # 0 /\ g[y] # 0 /\ f[x] = f[y] => x = y
    PROVE  Total(g, S) <= Total(h, R)
  <1> DEFINE P == Pebbles(g, S)
             Q == Pebbles(h, R)
             m == [p \in P |-> <<f[p[1]], p[2]>>]
  <1>1. IsFiniteSet(P) /\ IsFiniteSet(Q)
    BY PebblesFinite
  <1>2. ASSUME NEW p \in P
        PROVE  /\ p = <<p[1], p[2]>> /\ p[1] \in S /\ g[p[1]] # 0 /\ p[2] \in Nat
               /\ <<f[p[1]], p[2]>> \in Q
    <2>1. p = <<p[1], p[2]>> /\ p[1] \in S /\ p[2] \in 1 .. g[p[1]]
      BY PebblesOf
    <2>2. g[p[1]] \in Nat /\ g[p[1]] # 0 /\ p[2] \in Nat
      BY <2>1
    <2>3. f[p[1]] \in R /\ h[f[p[1]]] \in Nat /\ g[p[1]] <= h[f[p[1]]]
      BY <2>1, <2>2
    <2>4. p[2] \in 1 .. h[f[p[1]]]
      BY <2>1, <2>2, <2>3
    <2>5. <<f[p[1]], p[2]>> \in Q
      BY <2>3, <2>4 DEF Pebbles
    <2> QED  BY <2>1, <2>2, <2>5
  <1>3. m \in [P -> Q]
    BY <1>2
  <1>4. ASSUME NEW p \in P, NEW q \in P, m[p] = m[q] PROVE p = q
    <2>1. f[p[1]] = f[q[1]] /\ p[2] = q[2]
      BY <1>4
    <2>2. p[1] = q[1]
      BY <1>2, <2>1
    <2> QED  BY <1>2, <2>1, <2>2
  <1> HIDE DEF m, P, Q
  <1>5. m \in Injection(P, Q)
    BY <1>3, <1>4 DEF Injection, IsInjective
  <1>6. Cardinality(P) <= Cardinality(Q)
    BY <1>1, <1>5, FS_Injection
  <1> QED  BY <1>6 DEF Total, P, Q

LEMMA TotalZero ==
    ASSUME NEW S, NEW g, \A x \in S : g[x] = 0
    PROVE  Total(g, S) = 0
  <1>1. Pebbles(g, S) = {}
    <2>1. \A x \in S : 1 .. g[x] = {}
      OBVIOUS
    <2> QED  BY <2>1 DEF Pebbles
  <1> QED  BY <1>1, FS_EmptySet DEF Total

LEMMA TotalUnion ==
    ASSUME NEW S, IsFiniteSet(S), NEW R, IsFiniteSet(R), S \cap R = {},
           NEW g, \A x \in S \cup R : g[x] \in Nat
    PROVE  Total(g, S \cup R) = Total(g, S) + Total(g, R)
  <1> DEFINE P == Pebbles(g, S)
             Q == Pebbles(g, R)
  <1>1. IsFiniteSet(P) /\ Cardinality(P) \in Nat /\ IsFiniteSet(Q) /\ Cardinality(Q) \in Nat
    BY PebblesFinite DEF Total
  <1>2. Pebbles(g, S \cup R) = P \cup Q /\ P \cap Q = {}
    BY DEF Pebbles
  <1> HIDE DEF P, Q
  <1>3. Cardinality(P \cup Q) = Cardinality(P) + Cardinality(Q) - Cardinality({})
    BY <1>1, <1>2, FS_Union
  <1>4. Cardinality({}) = 0
    BY FS_EmptySet
  <1>5. Total(g, S \cup R) = Cardinality(P) + Cardinality(Q)
    <2>1. Total(g, S \cup R) = Cardinality(P \cup Q)
      BY <1>2 DEF Total
    <2> QED  BY <1>1, <1>3, <1>4, <2>1
  <1> QED  BY <1>5 DEF Total, P, Q

-----------------------------------------------------------------------------
(* The maximum: who has to raise it.                                       *)

\* The locals of set_max are old values of counters that only grow, and a
\* thread swaps only to raise the maximum it has loaded.
Locals(t) ==
    /\ pc[t] \in {"check", "store", "allocate", "add used"} => call[t].size \in Size
    /\ pc[t] \notin {"read", "load", "swap"} => call[t].sum_used = None
    /\ call[t].sum_used # None => call[t].sum_used <= used
    /\ call[t].sum_freed # None => call[t].sum_freed <= freed
    /\ pc[t] \in {"load", "swap"} => HasRead(call[t]) /\ in_use(call[t]) >= 0
    /\ pc[t] = "swap" => call[t].old_max # None /\ call[t].old_max < in_use(call[t])

\* t is on its way to raise max_in_use to the present used - freed, or beyond.
Obliged(t) ==
    \/ pc[t] = "add freed" /\ call[t].size # 0
    \/ pc[t] = "read" /\ call[t].sum_used \in {None, used}
    \/ pc[t] \in {"load", "swap"} /\ in_use(call[t]) >= used - freed

Covered == max_in_use >= used - freed

\* The inductive invariant.
IInv ==
    /\ TypeOK
    /\ \A t \in Thread : Locals(t)
    /\ Covered \/ \E t \in Thread : Obliged(t)

\* The local variables of t, as typed.
LEMMA CallTyped ==
  ASSUME TypeOK, NEW t \in Thread
  PROVE  /\ call[t] \in Calls
         /\ call[t].p \in Block \cup {NULL} /\ call[t].size \in Size \cup {0}
         /\ call[t].add \in Nat /\ call[t].sub \in Nat
         /\ call[t].sum_used \in Counter /\ call[t].sum_freed \in Counter
         /\ call[t].old_max \in Counter
<1>1. call[t] \in Calls
  BY DEF TypeOK
<1> QED
  BY <1>1 DEF Calls

LEMMA SizesTyped == ASSUME MemAssumption PROVE Size \subseteq Nat /\ 0 \notin Size
BY DEF MemAssumption

LEMMA NoCallTyped == NoCall \in Calls
BY DEF NoCall, Calls, Counter, None

\* in_use is a number once both counters have been read.
LEMMA InUseTyped ==
  ASSUME TypeOK, NEW t \in Thread, HasRead(call[t])
  PROVE  /\ call[t].sum_used \in Nat /\ call[t].sum_freed \in Nat /\ in_use(call[t]) \in Int
BY CallTyped DEF HasRead, in_use, Counter, None

\* What the return of a call does to the types.
LEMMA ReturnTyped ==
  ASSUME TypeOK, NEW t \in Thread, Return(t)
  PROVE  /\ owner' \in [Block -> Thread \cup {NULL}]
         /\ call' \in [Thread -> Calls]
         /\ call' = [call EXCEPT ![t] = NoCall]
         /\ pc' = [pc EXCEPT ![t] = "idle"]
BY NoCallTyped DEF TypeOK, Return, Goto

Labels == {"idle", "check", "store", "allocate", "add used", "add freed",
           "release", "read", "load", "swap"}

\* Moving one thread to a label keeps the labels typed.
LEMMA GotoTyped ==
  ASSUME TypeOK, NEW t \in Thread, NEW label \in Labels, Goto(t, label)
  PROVE  pc' \in [Thread -> Labels]
BY DEF TypeOK, Goto, Labels

LEMMA StartTyped ==
  ASSUME MemAssumption, TypeOK, NEW t \in Thread, Starts(t)
  PROVE  TypeOK'
<1>0. /\ NoCall.p = NULL /\ \A n \in Nat : n \in Nat
      /\ pc \in [Thread -> Labels]
  BY DEF NoCall, TypeOK, Labels
<1>1. ASSUME NEW size \in Size, Malloc(t, size)
      PROVE  TypeOK'
  <2>1. [NoCall EXCEPT !.size = size] \in Calls
    BY NoCallTyped DEF Calls
  <2>2. call' \in [Thread -> Calls]
    BY <1>1, <2>1 DEF Malloc, TypeOK
  <2>3. pc' \in [Thread -> Labels]
    BY <1>1, GotoTyped DEF Malloc, Labels
  <2> QED
    BY <1>1, <2>2, <2>3 DEF Malloc, TypeOK, status, heap, Labels
<1>2. ASSUME NEW p \in Block, Free(t, p)
      PROVE  TypeOK'
  <2>1. usable[p] \in Nat
    BY DEF TypeOK
  <2>2. [NoCall EXCEPT !.p = p, !.sub = FreedSize(p)] \in Calls
    BY <2>1, NoCallTyped DEF Calls, FreedSize
  <2>3. call' \in [Thread -> Calls]
    BY <1>2, <2>2 DEF Free, TypeOK
  <2>4. owner' \in [Block -> Thread \cup {NULL}]
    BY <1>2 DEF Free, TypeOK
  <2>5. pc' \in [Thread -> Labels]
    BY <1>2, GotoTyped DEF Free, Labels
  <2> QED
    BY <1>2, <2>3, <2>4, <2>5 DEF Free, TypeOK, status, Labels
<1>3. ASSUME NEW p \in Block, NEW size \in Size, Realloc(t, p, size)
      PROVE  TypeOK'
  <2>1. [NoCall EXCEPT !.size = size, !.p = p] \in Calls
    BY NoCallTyped DEF Calls
  <2>2. call' \in [Thread -> Calls]
    BY <1>3, <2>1 DEF Realloc, TypeOK
  <2>3. owner' \in [Block -> Thread \cup {NULL}]
    BY <1>3 DEF Realloc, TypeOK
  <2>4. pc' \in [Thread -> Labels]
    BY <1>3, GotoTyped DEF Realloc, Labels
  <2> QED
    BY <1>3, <2>2, <2>3, <2>4 DEF Realloc, TypeOK, status, Labels
<1> QED
  BY <1>1, <1>2, <1>3 DEF Starts

LEMMA ContinueTyped ==
  ASSUME MemAssumption, IInv, NEW t \in Thread, Continues(t)
  PROVE  TypeOK'
<1>0. TypeOK /\ pc \in [Thread -> Labels] /\ call \in [Thread -> Calls] /\ Locals(t)
  BY DEF IInv, TypeOK, Labels
<1>a. /\ call[t].p \in Block \cup {NULL} /\ call[t].size \in Size \cup {0}
      /\ call[t].add \in Nat /\ call[t].sub \in Nat
  BY <1>0, CallTyped
<1>b. Size \subseteq Nat
  BY SizesTyped
<1>1. CASE CheckLargest(t)
  <2>1. pc' \in [Thread -> Labels]
    BY <1>0, <1>1, GotoTyped DEF CheckLargest, Labels
  <2> QED
    BY <1>0, <1>1, <2>1 DEF CheckLargest, TypeOK, status, heap, Labels
<1>2. CASE StoreLargest(t)
  <2>1. pc' \in [Thread -> Labels]
    BY <1>0, <1>2, GotoTyped DEF StoreLargest, Labels
  <2>2. call[t].size \in Nat
    <3>1. call[t].size \in Size
      BY <1>0, <1>2 DEF Locals, StoreLargest
    <3> QED
      BY <3>1, <1>b
  <2> QED
    BY <1>0, <1>2, <2>1, <2>2 DEF StoreLargest, TypeOK, heap, Labels
<1>3. CASE Allocate(t)
  <2> DEFINE p == call[t].p
             orig == IF p = NULL THEN 0 ELSE usable[p]
  <2>1. orig \in Nat
    BY <1>0, <1>a DEF TypeOK
  <2>2. PICK b \in {c \in Block : usable[c] = 0} \cup ({p} \cap Block), u \in Usable[call[t].size] :
           /\ usable' = [c \in Block |-> IF c = b THEN u ELSE IF c = p THEN 0 ELSE usable[c]]
           /\ owner' = [c \in Block |-> IF c = b THEN t ELSE IF c = p THEN NULL ELSE owner[c]]
           /\ call' = [call EXCEPT ![t].add = u, ![t].sub = orig]
    BY <1>3, Zenon DEF Allocate
  <2>3. u \in Nat
    <3>1. call[t].size \in Size
      BY <1>0, <1>3 DEF Locals, Allocate
    <3> QED
      BY <3>1 DEF MemAssumption
  <2> HIDE DEF orig
  <2>4. call' \in [Thread -> Calls]
    <3> DEFINE added == [call EXCEPT ![t].add = u]
    <3>1. added \in [Thread -> Calls]
      BY <1>0, <2>3 DEF Calls
    <3>2. call' = [added EXCEPT ![t].sub = orig]
      BY <2>2
    <3> HIDE DEF added
    <3> QED
      BY <2>1, <3>1, <3>2 DEF Calls
  <2>5. usable' \in [Block -> Nat] /\ owner' \in [Block -> Thread \cup {NULL}]
    BY <1>0, <2>2, <2>3 DEF TypeOK
  <2>6. pc' \in [Thread -> Labels]
    BY <1>0, <1>3, GotoTyped DEF Allocate, AfterAllocate, Labels
  <2> QED
    BY <1>0, <1>3, <2>4, <2>5, <2>6 DEF Allocate, TypeOK, status, Labels
<1>4. CASE AllocateFails(t)
  <2>1. pc' \in [Thread -> Labels]
    BY <1>0, <1>4, ReturnTyped DEF AllocateFails, Labels
  <2> QED
    BY <1>0, <1>4, <2>1, ReturnTyped DEF AllocateFails, TypeOK, status, Labels
<1>5. CASE AddUsed(t)
  <2>1. used' \in Nat
    <3>1. used' = used + call[t].add
      BY <1>5 DEF AddUsed
    <3>2. used \in Nat /\ call[t].add \in Nat
      BY <1>0, <1>a DEF TypeOK
    <3> QED
      BY <3>1, <3>2
  <2>2. call' \in [Thread -> Calls]
    BY <1>0, <1>5 DEF AddUsed, Calls
  <2>3. pc' \in [Thread -> Labels]
    BY <1>0, <1>5, GotoTyped DEF AddUsed, Labels
  <2> QED
    BY <1>0, <1>5, <2>1, <2>2, <2>3 DEF AddUsed, TypeOK, heap, Labels
<1>6. CASE AddFreed(t)
  <2>1. freed' \in Nat
    <3>1. freed' = freed + call[t].sub
      BY <1>6 DEF AddFreed
    <3>2. freed \in Nat /\ call[t].sub \in Nat
      BY <1>0, <1>a DEF TypeOK
    <3> QED
      BY <3>1, <3>2
  <2>2. call' \in [Thread -> Calls]
    BY <1>0, <1>6 DEF AddFreed, Calls
  <2>3. pc' \in [Thread -> Labels]
    BY <1>0, <1>6, GotoTyped DEF AddFreed, Labels
  <2> QED
    BY <1>0, <1>6, <2>1, <2>2, <2>3 DEF AddFreed, TypeOK, heap, Labels
<1>7. CASE Release(t)
  <2>1. pc' \in [Thread -> Labels]
    BY <1>0, <1>7, ReturnTyped DEF Release, Labels
  <2>2. usable' \in [Block -> Nat]
    BY <1>0, <1>7 DEF Release, TypeOK
  <2> QED
    BY <1>0, <1>7, <2>1, <2>2, ReturnTyped DEF Release, TypeOK, status, Labels
<1>8. CASE ReadUsed(t)
  <2>1. call' \in [Thread -> Calls]
    <3>1. used \in Counter
      BY <1>0 DEF TypeOK, Counter
    <3> QED
      BY <1>0, <1>8, <3>1 DEF ReadUsed, Calls
  <2> QED
    BY <1>0, <1>8, <2>1 DEF ReadUsed, TypeOK, status, heap
<1>9. CASE ReadFreed(t)
  <2>1. call' \in [Thread -> Calls]
    <3>1. freed \in Counter
      BY <1>0 DEF TypeOK, Counter
    <3> QED
      BY <1>0, <1>9, <3>1 DEF ReadFreed, Calls
  <2> QED
    BY <1>0, <1>9, <2>1 DEF ReadFreed, TypeOK, status, heap
<1>10. CASE Compare(t)
  <2>1. CASE Goto(t, "load") /\ UNCHANGED <<owner, call>>
    <3>1. pc' \in [Thread -> Labels]
      BY <1>0, <2>1, GotoTyped DEF Labels
    <3> QED
      BY <1>0, <1>10, <2>1, <3>1 DEF Compare, TypeOK, status, Labels
  <2>2. CASE Return(t)
    <3>1. pc' \in [Thread -> Labels]
      BY <1>0, <2>2, ReturnTyped DEF Labels
    <3> QED
      BY <1>0, <1>10, <2>2, <3>1, ReturnTyped DEF Compare, TypeOK, status, Labels
  <2> QED
    BY <1>10, <2>1, <2>2 DEF Compare
<1>11. CASE Load(t)
  <2>1. CASE Goto(t, "swap") /\ call' = [call EXCEPT ![t].old_max = max_in_use] /\ UNCHANGED owner
    <3>1. pc' \in [Thread -> Labels]
      BY <1>0, <2>1, GotoTyped DEF Labels
    <3>2. call' \in [Thread -> Calls]
      <4>1. max_in_use \in Counter
        BY <1>0 DEF TypeOK, Counter
      <4> QED
        BY <1>0, <2>1, <4>1 DEF Calls
    <3> QED
      BY <1>0, <1>11, <2>1, <3>1, <3>2 DEF Load, TypeOK, status, Labels
  <2>2. CASE Return(t)
    <3>1. pc' \in [Thread -> Labels]
      BY <1>0, <2>2, ReturnTyped DEF Labels
    <3> QED
      BY <1>0, <1>11, <2>2, <3>1, ReturnTyped DEF Load, TypeOK, status, Labels
  <2> QED
    BY <1>11, <2>1, <2>2 DEF Load
<1>12. CASE CompareAndSwap(t)
  <2>1. CASE max_in_use' = in_use(call[t]) /\ Return(t)
    <3>1. pc' \in [Thread -> Labels]
      BY <1>0, <2>1, ReturnTyped DEF Labels
    <3>2. max_in_use' \in Nat
      BY <1>0, <1>12, <2>1, InUseTyped DEF Locals, CompareAndSwap
    <3> QED
      BY <1>0, <1>12, <2>1, <3>1, <3>2, ReturnTyped DEF CompareAndSwap, TypeOK, Labels
  <2>2. CASE Goto(t, AfterMiss) /\ UNCHANGED <<max_in_use, owner, call>>
    <3>1. pc' \in [Thread -> Labels]
      BY <1>0, <2>2, GotoTyped DEF AfterMiss, Labels
    <3> QED
      BY <1>0, <1>12, <2>2, <3>1 DEF CompareAndSwap, TypeOK, Labels
  <2> QED
    BY <1>12, <2>1, <2>2 DEF CompareAndSwap
<1> QED
  BY <1>1, <1>2, <1>3, <1>4, <1>5, <1>6, <1>7, <1>8, <1>9, <1>10, <1>11, <1>12 DEF Continues

\* A step of t leaves the other threads where they are.
LEMMA OthersStay ==
  ASSUME TypeOK, NEW t \in Thread, Starts(t) \/ Continues(t), NEW s \in Thread, s # t
  PROVE  pc'[s] = pc[s] /\ call'[s] = call[s]
<1>0. pc \in [Thread -> Labels] /\ call \in [Thread -> Calls]
  BY DEF TypeOK, Labels
<1>1. ASSUME NEW label, Goto(t, label)
      PROVE  pc'[s] = pc[s]
  BY <1>0, <1>1 DEF Goto
<1>2. ASSUME NEW c, call' = [call EXCEPT ![t] = c]
      PROVE  call'[s] = call[s]
  BY <1>0, <1>2
<1>3. ASSUME Return(t)
      PROVE  pc'[s] = pc[s] /\ call'[s] = call[s]
  BY <1>1, <1>2, <1>3 DEF Return
<1>4. CASE Starts(t)
  BY <1>1, <1>2, <1>4 DEF Starts, Malloc, Free, Realloc
<1>5. CASE CheckLargest(t) \/ StoreLargest(t)
  BY <1>1, <1>5 DEF CheckLargest, StoreLargest
<1>6. CASE Allocate(t)
  <2>1. Goto(t, AfterAllocate(call[t]))
    BY <1>6 DEF Allocate
  <2> DEFINE orig == IF call[t].p = NULL THEN 0 ELSE usable[call[t].p]
  <2>2. PICK u \in Usable[call[t].size] : call' = [call EXCEPT ![t].add = u, ![t].sub = orig]
    BY <1>6, Zenon DEF Allocate
  <2> QED
    BY <1>0, <1>1, <2>1, <2>2
<1>7. CASE AllocateFails(t) \/ Release(t)
  BY <1>3, <1>7 DEF AllocateFails, Release
<1>8. CASE AddUsed(t) \/ AddFreed(t)
  BY <1>0, <1>1, <1>8 DEF AddUsed, AddFreed
<1>9. CASE ReadUsed(t) \/ ReadFreed(t)
  BY <1>0, <1>9 DEF ReadUsed, ReadFreed
<1>10. CASE Compare(t)
  BY <1>1, <1>3, <1>10 DEF Compare
<1>11. CASE Load(t)
  BY <1>0, <1>1, <1>3, <1>11 DEF Load
<1>12. CASE CompareAndSwap(t)
  BY <1>1, <1>3, <1>12 DEF CompareAndSwap
<1> QED
  BY <1>4, <1>5, <1>6, <1>7, <1>8, <1>9, <1>10, <1>11, <1>12 DEF Continues

\* The counters only grow, and so does the maximum: a thread that swaps has
\* found the value it loaded, which is below its own.
LEMMA CountersGrow ==
  ASSUME IInv, NEW t \in Thread, Starts(t) \/ Continues(t)
  PROVE  used' >= used /\ freed' >= freed /\ max_in_use' >= max_in_use
<1>0. /\ TypeOK /\ Locals(t)
      /\ used \in Nat /\ freed \in Nat /\ max_in_use \in Nat
      /\ call[t].add \in Nat /\ call[t].sub \in Nat
  BY CallTyped DEF IInv, TypeOK
<1>1. CASE used' = used /\ freed' = freed /\ max_in_use' = max_in_use
  BY <1>0, <1>1
<1>2. CASE AddUsed(t)
  <2>1. used' = used + call[t].add /\ freed' = freed /\ max_in_use' = max_in_use
    BY <1>2 DEF AddUsed
  <2> QED
    BY <1>0, <2>1
<1>3. CASE AddFreed(t)
  <2>1. freed' = freed + call[t].sub /\ used' = used /\ max_in_use' = max_in_use
    BY <1>3 DEF AddFreed
  <2> QED
    BY <1>0, <2>1
<1>4. CASE CompareAndSwap(t)
  <2>1. used' = used /\ freed' = freed /\ pc[t] = "swap"
    BY <1>4 DEF CompareAndSwap
  <2>2. CASE Swaps(call[t]) /\ max_in_use' = in_use(call[t])
    <3>1. in_use(call[t]) \in Int
      BY <1>0, <2>1, InUseTyped DEF Locals
    <3>2. max_in_use < in_use(call[t])
      BY <1>0, <2>1, <2>2 DEF Locals, Swaps
    <3> QED
      BY <1>0, <2>1, <2>2, <3>1, <3>2
  <2>3. CASE max_in_use' = max_in_use
    BY <1>0, <2>1, <2>3
  <2> QED
    BY <1>4, <2>2, <2>3 DEF CompareAndSwap
<1>5. CASE Starts(t)
  BY <1>1, <1>5 DEF Starts, Malloc, Free, Realloc, status
<1>6. CASE \/ CheckLargest(t) \/ StoreLargest(t) \/ Allocate(t) \/ AllocateFails(t) \/ Release(t)
           \/ ReadUsed(t) \/ ReadFreed(t) \/ Compare(t) \/ Load(t)
  BY <1>1, <1>6 DEF CheckLargest, StoreLargest, Allocate, AllocateFails, Release, ReadUsed,
                    ReadFreed, Compare, Load, status
<1> QED
  BY <1>2, <1>3, <1>4, <1>5, <1>6 DEF Continues

\* What was not above a counter is not above it after it has grown.
LEMMA OldValue ==
  ASSUME NEW a \in Counter, NEW m \in Nat, NEW n \in Nat, a # None => a <= m, n >= m
  PROVE  a # None => a <= n
BY DEF Counter, None

\* A step keeps the locals of every thread old values.
LEMMA LocalsKept ==
  ASSUME MemAssumption, IInv, TypeOK', NEW t \in Thread, Starts(t) \/ Continues(t),
         NEW s \in Thread
  PROVE  Locals(s)'
<1>0. /\ TypeOK /\ Locals(s) /\ used \in Nat /\ freed \in Nat /\ max_in_use \in Nat
      /\ used' \in Nat /\ freed' \in Nat
      /\ pc \in [Thread -> Labels] /\ call \in [Thread -> Calls]
  BY DEF IInv, TypeOK, Labels
<1>1. used' >= used /\ freed' >= freed
  BY CountersGrow
<1>2. /\ call[s].sum_used \in Counter /\ call[s].sum_freed \in Counter
      /\ call[s].size \in Size \cup {0}
  BY <1>0, CallTyped
<1>a. /\ call[s].sum_used # None => call[s].sum_used <= used
      /\ call[s].sum_freed # None => call[s].sum_freed <= freed
  BY <1>0 DEF Locals
<1>b. /\ call[s].sum_used # None => call[s].sum_used <= used'
      /\ call[s].sum_freed # None => call[s].sum_freed <= freed'
  BY <1>0, <1>1, <1>2, <1>a, OldValue
<1>3. ASSUME pc'[s] = pc[s], call'[s] = call[s]
      PROVE  Locals(s)'
  <2>1. /\ call'[s].sum_used # None => call'[s].sum_used <= used'
        /\ call'[s].sum_freed # None => call'[s].sum_freed <= freed'
    BY <1>b, <1>3
  <2> QED
    BY <1>0, <1>3, <2>1 DEF Locals, in_use, HasRead
<1>4. CASE s # t
  BY <1>0, <1>3, <1>4, OthersStay
<1>5. ASSUME s = t, Return(t)
      PROVE  Locals(s)'
  <2>1. pc'[s] = "idle" /\ call'[s] = NoCall
    BY <1>0, <1>5 DEF Return, Goto
  <2> QED
    BY <2>1 DEF Locals, NoCall
\* Where nothing but the size and the label matter: no counter has been read.
<1>6. ASSUME call'[s].sum_used = None, call'[s].sum_freed = None, pc'[s] \notin {"load", "swap"},
             pc'[s] \in {"check", "store", "allocate", "add used"} => call'[s].size \in Size
      PROVE  Locals(s)'
  BY <1>6 DEF Locals
<1>7. CASE s = t /\ Starts(t)
  <2>1. ASSUME NEW size \in Size, Malloc(t, size)
        PROVE  Locals(s)'
    <3>1. pc'[s] = "check" /\ call'[s] = [NoCall EXCEPT !.size = size]
      BY <1>0, <1>7, <2>1 DEF Malloc, Goto
    <3> QED
      BY <1>6, <3>1 DEF NoCall
  <2>2. ASSUME NEW p \in Block, Free(t, p)
        PROVE  Locals(s)'
    <3>1. pc'[s] = "add freed" /\ call'[s] = [NoCall EXCEPT !.p = p, !.sub = FreedSize(p)]
      BY <1>0, <1>7, <2>2 DEF Free, Goto
    <3> QED
      BY <1>6, <3>1 DEF NoCall
  <2>3. ASSUME NEW p \in Block, NEW size \in Size, Realloc(t, p, size)
        PROVE  Locals(s)'
    <3>1. pc'[s] = "check" /\ call'[s] = [NoCall EXCEPT !.size = size, !.p = p]
      BY <1>0, <1>7, <2>3 DEF Realloc, Goto
    <3> QED
      BY <1>6, <3>1 DEF NoCall
  <2> QED
    BY <1>7, <2>1, <2>2, <2>3 DEF Starts
\* Where the call itself is as before, at a label that asks for no more.
<1>8. ASSUME call'[s] = call[s], pc'[s] \in {"store", "allocate"},
             pc[s] \in {"check", "store"}
      PROVE  Locals(s)'
  <2>1. /\ call'[s].sum_used # None => call'[s].sum_used <= used'
        /\ call'[s].sum_freed # None => call'[s].sum_freed <= freed'
    BY <1>b, <1>8
  <2> QED
    BY <1>0, <1>8, <2>1 DEF Locals
<1>9. CASE s = t /\ CheckLargest(t)
  <2>1. pc'[s] \in {"store", "allocate"} /\ call'[s] = call[s] /\ pc[s] = "check"
    BY <1>0, <1>9 DEF CheckLargest, Goto
  <2> QED
    BY <1>8, <2>1
<1>10. CASE s = t /\ StoreLargest(t)
  <2>1. pc'[s] = "allocate" /\ call'[s] = call[s] /\ pc[s] = "store"
    BY <1>0, <1>10 DEF StoreLargest, Goto
  <2> QED
    BY <1>8, <2>1
\* Where what changes in the call is add or sub only.
<1>11. ASSUME call'[s].sum_used = call[s].sum_used, call'[s].sum_freed = call[s].sum_freed,
              call'[s].size = call[s].size,
              pc[s] \in {"allocate", "add used", "add freed"},
              pc'[s] \in {"add used", "add freed", "release", "read"},
              pc'[s] = "add used" => pc[s] = "allocate"
       PROVE  Locals(s)'
  <2>1. /\ call'[s].sum_used # None => call'[s].sum_used <= used'
        /\ call'[s].sum_freed # None => call'[s].sum_freed <= freed'
    BY <1>b, <1>11
  <2> QED
    BY <1>0, <1>11, <2>1 DEF Locals
<1>12. CASE s = t /\ Allocate(t)
  <2> DEFINE orig == IF call[t].p = NULL THEN 0 ELSE usable[call[t].p]
  <2>1. PICK u \in Usable[call[t].size] : call' = [call EXCEPT ![t].add = u, ![t].sub = orig]
    BY <1>12, Zenon DEF Allocate
  <2> HIDE DEF orig
  <2>2. /\ call'[s].sum_used = call[s].sum_used /\ call'[s].sum_freed = call[s].sum_freed
        /\ call'[s].size = call[s].size
    BY <1>0, <1>12, <2>1 DEF Calls
  <2>3. pc'[s] = "add used" /\ pc[s] = "allocate"
    BY <1>0, <1>12 DEF Allocate, Goto, AfterAllocate
  <2> QED
    BY <1>11, <2>2, <2>3
<1>13. CASE s = t /\ AddUsed(t)
  <2>1. /\ call'[s].sum_used = call[s].sum_used /\ call'[s].sum_freed = call[s].sum_freed
        /\ call'[s].size = call[s].size
        /\ pc[s] = "add used" /\ pc'[s] \in {"read", "add freed"}
    BY <1>0, <1>13 DEF AddUsed, Goto, Calls
  <2> QED
    BY <1>11, <2>1
<1>14. CASE s = t /\ AddFreed(t)
  <2>1. /\ call'[s].sum_used = call[s].sum_used /\ call'[s].sum_freed = call[s].sum_freed
        /\ call'[s].size = call[s].size
        /\ pc[s] = "add freed" /\ pc'[s] \in {"read", "release"}
    BY <1>0, <1>14 DEF AddFreed, Goto, Calls
  <2> QED
    BY <1>11, <2>1
<1>15. CASE s = t /\ ReadUsed(t)
  <2>1. /\ call'[s].sum_used = used /\ call'[s].sum_freed = call[s].sum_freed
        /\ pc'[s] = "read" /\ used' = used /\ freed' = freed
    BY <1>0, <1>15 DEF ReadUsed, Calls, status
  <2>2. used <= used
    BY <1>0
  <2> QED
    BY <1>b, <2>1, <2>2 DEF Locals
<1>16. CASE s = t /\ ReadFreed(t)
  <2>1. /\ call'[s].sum_used = call[s].sum_used /\ call'[s].sum_freed = freed
        /\ pc'[s] = "read" /\ used' = used /\ freed' = freed
    BY <1>0, <1>16 DEF ReadFreed, Calls, status
  <2>2. freed <= freed
    BY <1>0
  <2> QED
    BY <1>b, <2>1, <2>2 DEF Locals
<1>17. CASE s = t /\ Compare(t)
  <2>1. HasRead(call[s]) /\ used' = used /\ freed' = freed
    BY <1>17 DEF Compare, status
  <2>2. CASE in_use(call[t]) >= 0 /\ Goto(t, "load") /\ UNCHANGED <<owner, call>>
    <3>1. pc'[s] = "load" /\ call' = call
      BY <1>0, <1>17, <2>2 DEF Goto
    <3> QED
      BY <1>0, <1>17, <2>1, <2>2, <3>1 DEF Locals
  <2> QED
    BY <1>5, <1>17, <2>2 DEF Compare
<1>18. CASE s = t /\ Load(t)
  <2>1. pc[s] = "load" /\ used' = used /\ freed' = freed
    BY <1>18 DEF Load, status
  <2>2. CASE /\ max_in_use < in_use(call[t])
             /\ call' = [call EXCEPT ![t].old_max = max_in_use]
             /\ Goto(t, "swap")
    <3>1. /\ call'[s].sum_used = call[s].sum_used /\ call'[s].sum_freed = call[s].sum_freed
          /\ call'[s].old_max = max_in_use /\ pc'[s] = "swap"
      BY <1>0, <1>18, <2>2 DEF Goto, Calls
    <3>2. max_in_use # None
      BY <1>0 DEF None
    <3> QED
      BY <1>0, <1>18, <2>1, <2>2, <3>1, <3>2 DEF Locals, in_use, HasRead
  <2> QED
    BY <1>5, <1>18, <2>2 DEF Load
<1>19. CASE s = t /\ CompareAndSwap(t)
  <2>1. pc[s] = "swap" /\ used' = used /\ freed' = freed
    BY <1>19 DEF CompareAndSwap
  <2>2. CASE Goto(t, AfterMiss) /\ UNCHANGED <<max_in_use, owner, call>>
    <3>1. pc'[s] = "load" /\ call' = call
      BY <1>0, <1>19, <2>2 DEF Goto, AfterMiss
    <3> QED
      BY <1>0, <2>1, <3>1 DEF Locals
  <2> QED
    BY <1>5, <1>19, <2>2 DEF CompareAndSwap
<1>20. CASE s = t /\ (AllocateFails(t) \/ Release(t))
  BY <1>5, <1>20 DEF AllocateFails, Release
<1> QED
  BY <1>4, <1>7, <1>9, <1>10, <1>12, <1>13, <1>14, <1>15, <1>16, <1>17, <1>18, <1>19, <1>20
  DEF Continues

\* A larger maximum covers what is left when more has been freed.
LEMMA CoverGrows ==
  ASSUME NEW u \in Nat, NEW f \in Nat, NEW m \in Nat, NEW f2 \in Nat, NEW m2 \in Nat,
         m >= u - f, f2 >= f, m2 >= m
  PROVE  m2 >= u - f2
OBVIOUS

\* A step keeps max_in_use covering the memory in use, or some thread obliged.
LEMMA CoverKept ==
  ASSUME MemAssumption, IInv, TypeOK', NEW t \in Thread, Starts(t) \/ Continues(t)
  PROVE  (Covered \/ \E s \in Thread : Obliged(s))'
<1>0. /\ TypeOK /\ Locals(t) /\ used \in Nat /\ freed \in Nat /\ max_in_use \in Nat
      /\ used' \in Nat /\ freed' \in Nat /\ max_in_use' \in Nat
      /\ pc \in [Thread -> Labels] /\ call \in [Thread -> Calls]
  BY DEF IInv, TypeOK, Labels
<1>1. used' >= used /\ freed' >= freed /\ max_in_use' >= max_in_use
  BY CountersGrow
<1>2. 0 \notin Size
  BY SizesTyped
\* A thread that adds to used is then obliged itself.
<1>3. CASE AddUsed(t)
  <2>1. call[t].sum_used = None /\ call[t].size # 0
    BY <1>0, <1>2, <1>3 DEF AddUsed, Locals
  <2>2. call'[t].sum_used = None /\ call'[t].size # 0 /\ pc'[t] \in {"read", "add freed"}
    BY <1>0, <1>3, <2>1 DEF AddUsed, Goto, Calls
  <2> QED
    BY <2>2 DEF Obliged
<1>4. ASSUME ~AddUsed(t)
      PROVE  used' = used
  BY <1>4 DEF Starts, Continues, Malloc, Free, Realloc, CheckLargest, StoreLargest, Allocate,
              AllocateFails, AddFreed, Release, ReadUsed, ReadFreed, Compare, Load,
              CompareAndSwap, status
<1>5. CASE Covered /\ ~AddUsed(t)
  <2>1. max_in_use >= used - freed /\ used' = used
    BY <1>4, <1>5 DEF Covered
  <2>2. freed' >= freed /\ max_in_use' >= max_in_use
    BY <1>1
  <2>3. max_in_use' >= used - freed'
    BY <1>0, <2>1, <2>2, CoverGrows
  <2> QED
    BY <2>1, <2>3 DEF Covered
<1>6. ASSUME NEW s \in Thread, s # t, Obliged(s), ~AddUsed(t)
      PROVE  Obliged(s)'
  <2>1. pc'[s] = pc[s] /\ call'[s] = call[s] /\ used' = used
    BY <1>0, <1>4, <1>6, OthersStay
  <2>2. ASSUME pc[s] \in {"load", "swap"}
        PROVE  in_use(call[s]) \in Int
    BY <1>0, <2>2, InUseTyped DEF IInv, Locals
  <2>3. CASE pc[s] \in {"load", "swap"} /\ in_use(call[s]) >= used - freed
    <3>1. in_use(call'[s]) >= used' - freed'
      <4>1. in_use(call'[s]) = in_use(call[s])
        BY <2>1
      <4> HIDE DEF in_use
      <4> QED
        BY <1>0, <1>1, <2>1, <2>2, <2>3, <4>1
    <3> QED
      BY <2>1, <2>3, <3>1 DEF Obliged
  <2> QED
    BY <1>6, <2>1, <2>3 DEF Obliged
<1>7. CASE Obliged(t) /\ ~AddUsed(t)
  <2>1. used' = used
    BY <1>4, <1>7
  <2>2. CASE AddFreed(t)
    <3>1. call[t].size # 0 /\ call[t].sum_used = None
      BY <1>0, <1>7, <2>2 DEF Obliged, AddFreed, Locals
    <3>2. call'[t].sum_used = None /\ pc'[t] = "read"
      BY <1>0, <2>2, <3>1 DEF AddFreed, Goto, Calls
    <3> QED
      BY <3>2 DEF Obliged
  <2>3. CASE ReadUsed(t)
    <3>1. call'[t].sum_used = used /\ pc'[t] = "read"
      BY <1>0, <2>3 DEF ReadUsed, Calls
    <3> QED
      BY <2>1, <3>1 DEF Obliged
  <2>4. CASE ReadFreed(t)
    <3>1. call'[t].sum_used = call[t].sum_used /\ pc'[t] = "read" /\ pc[t] = "read"
      BY <1>0, <2>4 DEF ReadFreed, Calls
    <3> QED
      BY <1>7, <2>1, <3>1 DEF Obliged
  <2>5. CASE Compare(t)
    <3>1. HasRead(call[t]) /\ pc[t] = "read" /\ freed' = freed /\ max_in_use' = max_in_use
      BY <2>5 DEF Compare, status
    <3>2. call[t].sum_used = used /\ call[t].sum_freed <= freed
      BY <1>0, <1>7, <3>1 DEF Obliged, HasRead, Locals
    <3>3. in_use(call[t]) \in Int /\ in_use(call[t]) >= used - freed
      BY <1>0, <3>1, <3>2, InUseTyped DEF in_use
    <3>4. CASE Goto(t, "load") /\ UNCHANGED <<owner, call>>
      <4>1. pc'[t] = "load" /\ call' = call
        BY <1>0, <3>4 DEF Goto
      <4> QED
        BY <2>1, <3>1, <3>3, <4>1 DEF Obliged
    <3>5. CASE in_use(call[t]) < 0
      BY <1>0, <2>1, <3>1, <3>3, <3>5 DEF Covered
    <3> QED
      BY <2>5, <3>4, <3>5 DEF Compare
  <2>6. CASE Load(t)
    <3>1. /\ pc[t] = "load" /\ freed' = freed /\ max_in_use' = max_in_use
          /\ HasRead(call[t]) /\ in_use(call[t]) >= used - freed
      BY <1>0, <1>7, <2>6 DEF Load, status, Obliged, Locals
    <3>2. in_use(call[t]) \in Int
      BY <1>0, <3>1, InUseTyped
    <3>3. CASE call' = [call EXCEPT ![t].old_max = max_in_use] /\ Goto(t, "swap")
      <4>1. /\ call'[t].sum_used = call[t].sum_used /\ call'[t].sum_freed = call[t].sum_freed
            /\ pc'[t] = "swap"
        BY <1>0, <3>3 DEF Goto, Calls
      <4> QED
        BY <2>1, <3>1, <4>1 DEF Obliged, in_use
    <3>4. CASE max_in_use >= in_use(call[t])
      BY <1>0, <2>1, <3>1, <3>2, <3>4 DEF Covered
    <3> QED
      BY <2>6, <3>3, <3>4 DEF Load
  <2>7. CASE CompareAndSwap(t)
    <3>1. /\ pc[t] = "swap" /\ freed' = freed /\ in_use(call[t]) >= used - freed
      BY <1>0, <1>7, <2>7 DEF CompareAndSwap, Obliged
    <3>2. CASE max_in_use' = in_use(call[t])
      BY <2>1, <3>1, <3>2 DEF Covered
    <3>3. CASE Goto(t, AfterMiss) /\ UNCHANGED <<max_in_use, owner, call>>
      <4>1. pc'[t] = "load" /\ call' = call
        BY <1>0, <3>3 DEF Goto, AfterMiss
      <4> QED
        BY <2>1, <3>1, <4>1 DEF Obliged
    <3> QED
      BY <2>7, <3>2, <3>3 DEF CompareAndSwap
  <2>8. pc[t] \in {"add freed", "read", "load", "swap"} /\ (pc[t] = "add freed" => call[t].size # 0)
    BY <1>7 DEF Obliged
  <2>9. ~Starts(t)
    BY <2>8 DEF Starts, Malloc, Free, Realloc
  <2> QED
    BY <1>7, <2>2, <2>3, <2>4, <2>5, <2>6, <2>7, <2>8, <2>9
    DEF Continues, CheckLargest, StoreLargest, Allocate, AllocateFails, Release
<1> QED
  BY <1>3, <1>5, <1>6, <1>7 DEF IInv
-----------------------------------------------------------------------------
LEMMA InitHolds == ASSUME MemAssumption, Init PROVE IInv
<1>1. TypeOK
  BY NoCallTyped DEF Init, TypeOK
<1>2. ASSUME NEW t \in Thread
      PROVE  Locals(t)
  BY <1>2 DEF Init, Locals, NoCall
<1>3. Covered
  BY DEF Init, Covered
<1> QED
  BY <1>1, <1>2, <1>3 DEF IInv

LEMMA StepKeeps == ASSUME MemAssumption, IInv, [Next]_vars PROVE IInv'
<1>1. ASSUME NEW t \in Thread, Starts(t) \/ Continues(t)
      PROVE  IInv'
  <2>1. TypeOK'
    BY <1>1, StartTyped, ContinueTyped DEF IInv
  <2>2. \A s \in Thread : Locals(s)'
    BY <1>1, <2>1, LocalsKept
  <2>3. (Covered \/ \E s \in Thread : Obliged(s))'
    BY <1>1, <2>1, CoverKept
  <2> QED
    BY <2>1, <2>2, <2>3 DEF IInv
<1>2. CASE UNCHANGED vars
  BY <1>2 DEF vars, status, heap, IInv, TypeOK, Locals, Obliged, Covered
<1> QED
  BY <1>1, <1>2 DEF Next

\* The invariant holds in every reachable state, for any number of threads.
THEOREM InvariantHolds == Spec => []IInv
<1>1. Init => IInv
  BY InitHolds, MemAssumption
<1>2. IInv /\ [Next]_vars => IInv'
  BY StepKeeps, MemAssumption
<1> QED
  BY <1>1, <1>2, PTL DEF Spec

\* Every counter stays a natural number and every call at one of its steps.
THEOREM CountersTyped == Spec => []TypeOK
<1>1. IInv => TypeOK
  BY DEF IInv
<1> QED
  BY <1>1, InvariantHolds, PTL

\* Once all threads are out of their calls, max_in_use is not below the memory
\* then in use, although every thread computed what it stored from counters
\* that others went on changing.
THEOREM MaximumCovers == Spec => []MaxCovers
<1>1. IInv => MaxCovers
  BY DEF IInv, MaxCovers, Quiet, Obliged, Covered
<1> QED
  BY <1>1, InvariantHolds, PTL

\* max_in_use "increases monotonically" (memory.cc, line 138).
THEOREM MaximumGrows == Spec => MaxMonotone
<1>1. IInv /\ [Next]_vars => [max_in_use' >= max_in_use]_vars
  <2>1. ASSUME IInv, Next
        PROVE  max_in_use' >= max_in_use
    BY <2>1, CountersGrow DEF Next
  <2> QED
    BY <2>1
<1> QED
  BY <1>1, InvariantHolds, PTL DEF Spec, MaxMonotone
-----------------------------------------------------------------------------
(* The accounts: what every thread and every block stand for in the sums.  *)

\* What a call still has to post, and which blocks it holds meanwhile.
Carries(t) ==
    /\ pc[t] = "idle" => call[t].p = NULL /\ call[t].size = 0
    /\ pc[t] # "add used" => call[t].add = 0
    /\ pc[t] \notin {"add used", "add freed"} => call[t].sub = 0
    /\ call[t].p = NULL => call[t].sub = 0
    /\ pc[t] \notin {"idle", "add freed", "release"} => call[t].size # 0
    /\ pc[t] = "release" => call[t].size = 0
    /\ pc[t] # "idle" /\ call[t].size = 0 => call[t].p # NULL
    /\ call[t].p # NULL /\ (call[t].size = 0 \/ pc[t] \in {"check", "store", "allocate"})
         => owner[call[t].p] = t /\ usable[call[t].p] # 0
    /\ pc[t] = "add freed" /\ call[t].size = 0 => call[t].sub = usable[call[t].p]
    /\ call[t].add # 0 => \E b \in Block : owner[b] = t /\ usable[b] = call[t].add

Freeing(t) == call[t].p # NULL /\ call[t].size = 0

Adds == [t \in Thread |-> call[t].add]
Subs == [t \in Thread |-> call[t].sub]
InAccounts == [b \in Block |-> IF b \in BeingFreed THEN 0 ELSE usable[b]]

Books == used + Total(Adds, Thread) = freed + Total(Subs, Thread) + Total(InAccounts, Block)

\* The inductive invariant of the accounts.
Accounts == (\A t \in Thread : Carries(t)) /\ Books

LEMMA FreedBlocks == \A b : b \in BeingFreed <=> \E t \in Thread : Freeing(t) /\ b = call[t].p
BY DEF BeingFreed, Freeing

\* The sums are numbers.
LEMMA AccountsTyped ==
  ASSUME TypeOK
  PROVE  /\ \A t \in Thread : Adds[t] \in Nat /\ Subs[t] \in Nat
         /\ \A b \in Block : InAccounts[b] \in Nat /\ usable[b] \in Nat
         /\ Total(Adds, Thread) \in Nat /\ Total(Subs, Thread) \in Nat
         /\ Total(InAccounts, Block) \in Nat
<1>1. \A t \in Thread : Adds[t] \in Nat /\ Subs[t] \in Nat
  BY CallTyped DEF Adds, Subs
<1>2. \A b \in Block : InAccounts[b] \in Nat /\ usable[b] \in Nat
  BY DEF InAccounts, TypeOK
<1> QED
  BY <1>1, <1>2, FiniteAssumption, PebblesFinite

\* The sums over the calls change by what the call of t changes.
LEMMA CallsPosted ==
  ASSUME TypeOK, TypeOK', NEW t \in Thread, \A s \in Thread \ {t} : call'[s] = call[s]
  PROVE  /\ Total(Adds, Thread)' = Total(Adds, Thread) - call[t].add + call'[t].add
         /\ Total(Subs, Thread)' = Total(Subs, Thread) - call[t].sub + call'[t].sub
<1>1. \A s \in Thread : Adds[s] \in Nat /\ Adds'[s] \in Nat /\ Subs[s] \in Nat /\ Subs'[s] \in Nat
  BY AccountsTyped DEF TypeOK, Adds, Subs, Calls
<1>2. /\ \A s \in Thread \ {t} : Adds[s] = Adds'[s] /\ Subs[s] = Subs'[s]
      /\ Adds[t] = call[t].add /\ Adds'[t] = call'[t].add
      /\ Subs[t] = call[t].sub /\ Subs'[t] = call'[t].sub
  BY DEF Adds, Subs
<1>3. /\ Total(Adds, Thread)' = Total(Adds', Thread)
      /\ Total(Subs, Thread)' = Total(Subs', Thread)
  BY DEF Total, Pebbles
<1>4. PICK a, b, c, d : a = Adds /\ b = Adds' /\ c = Subs /\ d = Subs'
  OBVIOUS
<1>5. Total(b, Thread) = Total(a, Thread) - a[t] + b[t]
  <2>1. \A s \in Thread : a[s] \in Nat /\ b[s] \in Nat
    BY <1>1, <1>4
  <2>2. \A s \in Thread \ {t} : a[s] = b[s]
    BY <1>2, <1>4
  <2> QED
    BY <2>1, <2>2, FiniteAssumption, TotalChange
<1>6. Total(d, Thread) = Total(c, Thread) - c[t] + d[t]
  <2>1. \A s \in Thread : c[s] \in Nat /\ d[s] \in Nat
    BY <1>1, <1>4
  <2>2. \A s \in Thread \ {t} : c[s] = d[s]
    BY <1>2, <1>4
  <2> QED
    BY <2>1, <2>2, FiniteAssumption, TotalChange
<1> QED
  BY <1>2, <1>3, <1>4, <1>5, <1>6

\* A thread that is not moving carries what it carried, if its blocks are left
\* alone.
LEMMA OtherCarries ==
  ASSUME TypeOK, NEW s \in Thread, Carries(s), pc'[s] = pc[s], call'[s] = call[s],
         \A b \in Block : owner[b] = s /\ usable[b] # 0 => owner'[b] = s /\ usable'[b] = usable[b]
  PROVE  Carries(s)'
<1>1. call[s].p \in Block \cup {NULL}
  BY CallTyped
<1>2. call'[s].add # 0 => \E b \in Block : owner'[b] = s /\ usable'[b] = call'[s].add
  <2> SUFFICES ASSUME call[s].add # 0
               PROVE  \E b \in Block : owner'[b] = s /\ usable'[b] = call[s].add
    OBVIOUS
  <2>1. PICK b \in Block : owner[b] = s /\ usable[b] = call[s].add
    BY DEF Carries
  <2> QED
    BY <2>1
<1>3. call[s].p # NULL /\ (call[s].size = 0 \/ pc[s] \in {"check", "store", "allocate"})
        => /\ owner[call[s].p] = s /\ usable[call[s].p] # 0
           /\ owner'[call[s].p] = s /\ usable'[call[s].p] = usable[call[s].p]
  BY <1>1 DEF Carries
<1> QED
  BY <1>2, <1>3 DEF Carries

\* A block that a call holds is left alone by the others.
LEMMA BlocksHeld ==
  ASSUME IInv, Accounts, NEW t \in Thread, Starts(t) \/ Continues(t), NEW s \in Thread, s # t,
         MemAssumption, NEW b \in Block, owner[b] = s, usable[b] # 0
  PROVE  owner'[b] = s /\ usable'[b] = usable[b]
<1>0. /\ TypeOK /\ usable \in [Block -> Nat] /\ owner \in [Block -> Thread \cup {NULL}]
      /\ s # NULL /\ Carries(t) /\ call[t].p \in Block \cup {NULL}
  BY CallTyped DEF IInv, TypeOK, MemAssumption, Accounts
<1>1. CASE owner' = owner /\ usable' = usable
  BY <1>1
<1>2. CASE Return(t) /\ usable' = usable
  BY <1>0, <1>2 DEF Return
<1>3. CASE Starts(t)
  <2>1. CASE \E size \in Size : Malloc(t, size)
    BY <1>1, <2>1 DEF Malloc, heap
  <2>2. CASE \E p \in Block : Free(t, p)
    BY <1>0, <2>2 DEF Free, Allocated, status
  <2>3. CASE \E p \in Block, size \in Size : Realloc(t, p, size)
    BY <1>0, <2>3 DEF Realloc, Allocated, status
  <2> QED
    BY <1>3, <2>1, <2>2, <2>3 DEF Starts
<1>4. CASE Allocate(t)
  <2> DEFINE p == call[t].p
  <2>1. PICK c \in {d \in Block : usable[d] = 0} \cup ({p} \cap Block), u \in Usable[call[t].size] :
           /\ usable' = [d \in Block |-> IF d = c THEN u ELSE IF d = p THEN 0 ELSE usable[d]]
           /\ owner' = [d \in Block |-> IF d = c THEN t ELSE IF d = p THEN NULL ELSE owner[d]]
    BY <1>4, ZenonT(60) DEF Allocate
  <2>2. p # NULL => owner[p] = t
    BY <1>0, <1>4 DEF Carries, Allocate
  <2>3. b # p /\ b # c
    BY <1>0, <2>2
  <2> QED
    BY <1>0, <2>1, <2>3
<1>5. CASE Release(t)
  <2>1. owner[call[t].p] = t
    BY <1>0, <1>5 DEF Carries, Release
  <2>2. b # call[t].p
    BY <2>1
  <2> QED
    BY <1>0, <1>5, <2>2 DEF Release, Return
<1>6. CASE AllocateFails(t)
  BY <1>2, <1>6 DEF AllocateFails
<1>7. CASE CheckLargest(t) \/ StoreLargest(t) \/ AddUsed(t) \/ AddFreed(t) \/ ReadUsed(t) \/ ReadFreed(t)
  BY <1>1, <1>7 DEF CheckLargest, StoreLargest, AddUsed, AddFreed, ReadUsed, ReadFreed, heap
<1>8. CASE Compare(t) \/ Load(t) \/ CompareAndSwap(t)
  BY <1>1, <1>2, <1>8 DEF Compare, Load, CompareAndSwap
<1> QED
  BY <1>3, <1>4, <1>5, <1>6, <1>7, <1>8 DEF Continues

\* A call that returns carries nothing.
LEMMA ReturnCarries ==
  ASSUME TypeOK, NEW t \in Thread, Return(t)
  PROVE  /\ Carries(t)' /\ call'[t].p = NULL /\ call'[t].size = 0
         /\ call'[t].add = 0 /\ call'[t].sub = 0
<1>1. pc'[t] = "idle" /\ call'[t] = NoCall
  BY DEF TypeOK, Return, Goto
<1> QED
  BY <1>1 DEF Carries, NoCall

\* What t carries after a step of its own.
LEMMA StarterCarries ==
  ASSUME MemAssumption, TypeOK, NEW t \in Thread, Carries(t), Starts(t)
  PROVE  Carries(t)'
<1>0. /\ pc \in [Thread -> Labels] /\ call \in [Thread -> Calls]
      /\ usable \in [Block -> Nat] /\ owner \in [Block -> Thread \cup {NULL}]
      /\ NULL \notin Block /\ 0 \notin Size
  BY SizesTyped DEF TypeOK, Labels, MemAssumption
<1>1. ASSUME NEW size \in Size, Malloc(t, size)
      PROVE  Carries(t)'
  <2>1. /\ pc'[t] = "check" /\ call'[t].p = NULL /\ call'[t].size = size
        /\ call'[t].add = 0 /\ call'[t].sub = 0
    BY <1>0, <1>1 DEF Malloc, Goto, NoCall
  <2> QED
    BY <1>0, <2>1 DEF Carries
<1>2. ASSUME NEW p \in Block, Free(t, p)
      PROVE  Carries(t)'
  <2>1. /\ pc'[t] = "add freed" /\ call'[t].p = p /\ call'[t].size = 0
        /\ call'[t].add = 0 /\ call'[t].sub = usable[p]
    BY <1>0, <1>2 DEF Free, Goto, NoCall, FreedSize
  <2>2. owner'[p] = t /\ usable'[p] # 0 /\ usable' = usable
    BY <1>0, <1>2 DEF Free, Allocated
  <2> QED
    BY <1>0, <2>1, <2>2 DEF Carries
<1>3. ASSUME NEW p \in Block, NEW size \in Size, Realloc(t, p, size)
      PROVE  Carries(t)'
  <2>1. /\ pc'[t] = "check" /\ call'[t].p = p /\ call'[t].size = size
        /\ call'[t].add = 0 /\ call'[t].sub = 0
    BY <1>0, <1>3 DEF Realloc, Goto, NoCall
  <2>2. owner'[p] = t /\ usable'[p] # 0
    BY <1>0, <1>3 DEF Realloc, Allocated
  <2> QED
    BY <1>0, <2>1, <2>2 DEF Carries
<1> QED
  BY <1>1, <1>2, <1>3 DEF Starts

\* What t carries on after a step inside its call.
LEMMA CallerCarries ==
  ASSUME MemAssumption, IInv, NEW t \in Thread, Carries(t), Continues(t)
  PROVE  Carries(t)'
<1>0. /\ pc \in [Thread -> Labels] /\ call \in [Thread -> Calls] /\ TypeOK
      /\ usable \in [Block -> Nat] /\ owner \in [Block -> Thread \cup {NULL}]
      /\ NULL \notin Block /\ Locals(t) /\ call[t].p \in Block \cup {NULL}
  BY CallTyped DEF IInv, TypeOK, Labels, MemAssumption
<1>1. CASE CheckLargest(t)
  <2>1. /\ pc[t] = "check" /\ pc'[t] \in {"store", "allocate"} /\ call' = call
        /\ usable' = usable /\ owner' = owner
    BY <1>0, <1>1 DEF CheckLargest, Goto, heap
  <2> QED
    BY <2>1 DEF Carries
<1>2. CASE StoreLargest(t)
  <2>1. /\ pc[t] = "store" /\ pc'[t] = "allocate" /\ call' = call
        /\ usable' = usable /\ owner' = owner
    BY <1>0, <1>2 DEF StoreLargest, Goto, heap
  <2> QED
    BY <2>1 DEF Carries
<1>3. CASE Allocate(t)
  <2> DEFINE p == call[t].p
             orig == IF p = NULL THEN 0 ELSE usable[p]
  <2>1. PICK b \in {c \in Block : usable[c] = 0} \cup ({p} \cap Block), u \in Usable[call[t].size] :
           /\ usable' = [c \in Block |-> IF c = b THEN u ELSE IF c = p THEN 0 ELSE usable[c]]
           /\ owner' = [c \in Block |-> IF c = b THEN t ELSE IF c = p THEN NULL ELSE owner[c]]
           /\ call' = [call EXCEPT ![t].add = u, ![t].sub = orig]
    BY <1>3, Zenon DEF Allocate
  <2>2. /\ pc[t] = "allocate" /\ pc'[t] = "add used"
    BY <1>0, <1>3 DEF Allocate, AfterAllocate, Goto
  <2>3. /\ call'[t].p = p /\ call'[t].size = call[t].size /\ call'[t].add = u /\ call'[t].sub = orig
    <3> HIDE DEF orig
    <3> QED
      BY <1>0, <2>1 DEF Calls
  <2>4. owner'[b] = t /\ usable'[b] = u
    BY <2>1
  <2>5. b \in Block
    OBVIOUS
  <2> QED
    BY <2>2, <2>3, <2>4, <2>5 DEF Carries
<1>4. CASE AddUsed(t)
  <2>1. /\ call'[t].p = call[t].p /\ call'[t].size = call[t].size
        /\ call'[t].add = 0 /\ call'[t].sub = call[t].sub
        /\ pc[t] = "add used" /\ usable' = usable /\ owner' = owner
    <3>1. /\ call' = [call EXCEPT ![t].add = 0] /\ UNCHANGED heap
          /\ pc[t] = "add used"
      BY <1>4 DEF AddUsed
    <3>2. PICK c : c = call[t]
      OBVIOUS
    <3>3. call'[t] = [c EXCEPT !.add = 0] /\ c \in Calls
      BY <1>0, <3>1, <3>2
    <3>4. /\ call'[t].p = c.p /\ call'[t].size = c.size
          /\ call'[t].add = 0 /\ call'[t].sub = c.sub
      BY <3>3 DEF Calls
    <3> QED
      BY <3>1, <3>2, <3>4 DEF heap
  <2>2. pc'[t] = IF call[t].p = NULL THEN "read" ELSE "add freed"
    BY <1>0, <1>4 DEF AddUsed, Goto
  <2> QED
    BY <2>1, <2>2 DEF Carries
<1>5. CASE AddFreed(t)
  <2>1. /\ call'[t].p = call[t].p /\ call'[t].size = call[t].size
        /\ call'[t].add = call[t].add /\ call'[t].sub = 0
        /\ pc[t] = "add freed" /\ usable' = usable /\ owner' = owner
    <3>1. /\ call' = [call EXCEPT ![t].sub = 0] /\ UNCHANGED heap
          /\ pc[t] = "add freed"
      BY <1>5 DEF AddFreed
    <3>2. PICK c : c = call[t]
      OBVIOUS
    <3>3. call'[t] = [c EXCEPT !.sub = 0] /\ c \in Calls
      BY <1>0, <3>1, <3>2
    <3>4. /\ call'[t].p = c.p /\ call'[t].size = c.size
          /\ call'[t].add = c.add /\ call'[t].sub = 0
      BY <3>3 DEF Calls
    <3> QED
      BY <3>1, <3>2, <3>4 DEF heap
  <2>2. pc'[t] = IF call[t].size = 0 THEN "release" ELSE "read"
    BY <1>0, <1>5 DEF AddFreed, Goto
  <2> QED
    BY <2>1, <2>2 DEF Carries
<1>6. CASE AllocateFails(t) \/ Release(t)
  BY <1>0, <1>6, ReturnCarries DEF AllocateFails, Release
<1>7. CASE ReadUsed(t) \/ ReadFreed(t)
  <2>1. /\ pc' = pc /\ call'[t].p = call[t].p /\ call'[t].size = call[t].size
        /\ call'[t].add = call[t].add /\ call'[t].sub = call[t].sub
        /\ usable' = usable /\ owner' = owner
    BY <1>0, <1>7 DEF ReadUsed, ReadFreed, heap, Calls
  <2> QED
    BY <2>1 DEF Carries
<1>8. CASE Compare(t)
  <2>1. CASE Goto(t, "load") /\ UNCHANGED <<owner, call>>
    <3>1. /\ pc[t] = "read" /\ pc'[t] = "load" /\ call' = call
          /\ usable' = usable /\ owner' = owner
      BY <1>0, <1>8, <2>1 DEF Compare, Goto
    <3> QED
      BY <3>1 DEF Carries
  <2>2. CASE Return(t)
    BY <1>0, <2>2, ReturnCarries
  <2> QED
    BY <1>8, <2>1, <2>2 DEF Compare
<1>9. CASE Load(t)
  <2>1. CASE Goto(t, "swap") /\ call' = [call EXCEPT ![t].old_max = max_in_use] /\ UNCHANGED owner
    <3>1. /\ pc[t] = "load" /\ pc'[t] = "swap" /\ usable' = usable /\ owner' = owner
          /\ call'[t].p = call[t].p /\ call'[t].size = call[t].size
          /\ call'[t].add = call[t].add /\ call'[t].sub = call[t].sub
      BY <1>0, <1>9, <2>1 DEF Load, Goto, Calls
    <3> QED
      BY <3>1 DEF Carries
  <2>2. CASE Return(t)
    BY <1>0, <2>2, ReturnCarries
  <2> QED
    BY <1>9, <2>1, <2>2 DEF Load
<1>10. CASE CompareAndSwap(t)
  <2>1. CASE Return(t)
    BY <1>0, <2>1, ReturnCarries
  <2>2. CASE Goto(t, AfterMiss) /\ UNCHANGED <<max_in_use, owner, call>>
    <3>1. /\ pc[t] = "swap" /\ pc'[t] = "load" /\ call' = call
          /\ usable' = usable /\ owner' = owner
      BY <1>0, <1>10, <2>2 DEF CompareAndSwap, Goto, AfterMiss
    <3> QED
      BY <3>1 DEF Carries
  <2> QED
    BY <1>10, <2>1, <2>2 DEF CompareAndSwap
<1> QED
  BY <1>1, <1>2, <1>3, <1>4, <1>5, <1>6, <1>7, <1>8, <1>9, <1>10 DEF Continues

\* A step that takes no block and releases none leaves the sum of the blocks.
LEMMA BlocksKept ==
  ASSUME NEW t \in Thread, \A s \in Thread \ {t} : call'[s] = call[s], usable' = usable,
         Freeing(t)' <=> Freeing(t), Freeing(t) => call'[t].p = call[t].p
  PROVE  Total(InAccounts, Block)' = Total(InAccounts, Block)
<1>1. \A b : (b \in BeingFreed)' <=> b \in BeingFreed
  <2>1. \A s \in Thread : (Freeing(s)' <=> Freeing(s)) /\ (Freeing(s) => call'[s].p = call[s].p)
    BY DEF Freeing
  <2>2. \A b : (b \in BeingFreed)' <=> \E s \in Thread : Freeing(s)' /\ b = call'[s].p
    BY DEF BeingFreed, Freeing
  <2> QED
    BY <2>1, <2>2, FreedBlocks
<1>2. InAccounts' = InAccounts
  BY <1>1 DEF InAccounts
<1> QED
  BY <1>2 DEF Total, Pebbles

\* The books balance after a step that leaves the blocks as they are, when what
\* it adds to a counter is no longer due.
LEMMA BooksPosted ==
  ASSUME TypeOK, TypeOK', Books, NEW t \in Thread, \A s \in Thread \ {t} : call'[s] = call[s],
         Total(InAccounts, Block)' = Total(InAccounts, Block),
         used' + call'[t].add = used + call[t].add,
         freed' + call'[t].sub = freed + call[t].sub
  PROVE  Books'
<1>1. /\ Total(Adds, Thread)' = Total(Adds, Thread) - call[t].add + call'[t].add
      /\ Total(Subs, Thread)' = Total(Subs, Thread) - call[t].sub + call'[t].sub
  BY CallsPosted
<1>2. /\ Total(Adds, Thread) \in Nat /\ Total(Subs, Thread) \in Nat
      /\ Total(InAccounts, Block) \in Nat
      /\ call[t].add \in Nat /\ call[t].sub \in Nat
      /\ used \in Nat /\ freed \in Nat /\ used' \in Nat /\ freed' \in Nat
  BY AccountsTyped, CallTyped DEF TypeOK
<1>3. call'[t].add \in Nat /\ call'[t].sub \in Nat
  BY DEF TypeOK, Calls
<1>4. used + Total(Adds, Thread) = freed + Total(Subs, Thread) + Total(InAccounts, Block)
  BY DEF Books
<1> DEFINE A == Total(Adds, Thread)
           B == Total(Subs, Thread)
           C == Total(InAccounts, Block)
<1>5. PICK a, b, c : a = A /\ b = B /\ c = C
  OBVIOUS
<1>6. used' + (a - call[t].add + call'[t].add) = freed' + (b - call[t].sub + call'[t].sub) + c
  <2>1. a \in Nat /\ b \in Nat /\ c \in Nat /\ used + a = freed + b + c
    BY <1>2, <1>4, <1>5
  <2>2. PICK x, y, x1, y1 : x = call[t].add /\ y = call[t].sub /\ x1 = call'[t].add /\ y1 = call'[t].sub
    OBVIOUS
  <2>3. used' + x1 = used + x /\ freed' + y1 = freed + y
    BY <2>2
  <2>4. x \in Nat /\ y \in Nat /\ x1 \in Nat /\ y1 \in Nat
    BY <1>2, <1>3, <2>2
  <2>5. PICK u, f, u1, f1 : u = used /\ f = freed /\ u1 = used' /\ f1 = freed'
    OBVIOUS
  <2>6. /\ u \in Nat /\ f \in Nat /\ u1 \in Nat /\ f1 \in Nat
        /\ u + a = f + b + c /\ u1 + x1 = u + x /\ f1 + y1 = f + y
    BY <1>2, <2>1, <2>3, <2>5
  <2>7. u1 + (a - x + x1) = f1 + (b - y + y1) + c
    BY <2>1, <2>4, <2>6
  <2> QED
    BY <2>2, <2>5, <2>7
<1> QED
  BY <1>1, <1>5, <1>6 DEF Books

\* What a block being freed is.
LEMMA BeingFreedIsHeld ==
  ASSUME TypeOK, \A s \in Thread : Carries(s), NEW b \in BeingFreed
  PROVE  \E s \in Thread : Freeing(s) /\ b = call[s].p /\ b \in Block /\ owner[b] = s /\ usable[b] # 0
<1>1. PICK s \in Thread : Freeing(s) /\ b = call[s].p
  BY FreedBlocks
<1>2. call[s].p \in Block \cup {NULL}
  BY CallTyped
<1> QED
  BY <1>1, <1>2 DEF Freeing, Carries

\* The allocator gives a block, and takes the one that a realloc resizes.
LEMMA BooksAllocate ==
  ASSUME MemAssumption, IInv, TypeOK', Accounts, NEW t \in Thread, Allocate(t),
         \A s \in Thread \ {t} : call'[s] = call[s]
  PROVE  Books'
<1> DEFINE p == call[t].p
           orig == IF p = NULL THEN 0 ELSE usable[p]
<1>0. /\ TypeOK /\ Carries(t) /\ Books /\ pc[t] = "allocate" /\ p \in Block \cup {NULL}
      /\ call \in [Thread -> Calls] /\ NULL \notin Block /\ \A s \in Thread : Carries(s)
      /\ usable \in [Block -> Nat] /\ owner \in [Block -> Thread \cup {NULL}]
  BY CallTyped DEF IInv, TypeOK, Accounts, Allocate, MemAssumption
<1>1. PICK b \in {c \in Block : usable[c] = 0} \cup ({p} \cap Block), u \in Usable[call[t].size] :
         /\ usable' = [c \in Block |-> IF c = b THEN u ELSE IF c = p THEN 0 ELSE usable[c]]
         /\ call' = [call EXCEPT ![t].add = u, ![t].sub = orig]
  BY Zenon DEF Allocate
<1>2. /\ call'[t].add = u /\ call'[t].sub = orig /\ call'[t].size = call[t].size
      /\ call'[t].p = p
  <2> HIDE DEF orig
  <2> QED
    BY <1>0, <1>1 DEF Calls
<1>3. call[t].add = 0 /\ call[t].sub = 0 /\ call[t].size # 0
  BY <1>0 DEF Carries
<1>4. u \in Nat /\ orig \in Nat /\ b \in Block
  BY <1>0, <1>1, <1>2 DEF TypeOK, Calls
<1>5. \A c : (c \in BeingFreed)' <=> c \in BeingFreed
  <2>1. ~Freeing(t) /\ \A s \in Thread \ {t} : Freeing(s)' <=> Freeing(s)
    BY <1>3 DEF Freeing
  <2>2. ~Freeing(t)'
    BY <1>2, <1>3 DEF Freeing
  <2>3. \A c : (c \in BeingFreed)' <=> \E s \in Thread : Freeing(s)' /\ c = call'[s].p
    BY DEF BeingFreed, Freeing
  <2> QED
    BY <2>1, <2>2, <2>3, FreedBlocks
<1>6. b \notin BeingFreed /\ p \notin BeingFreed
  <2>1. p # NULL => owner[p] = t
    BY <1>0 DEF Carries
  <2>2. ~Freeing(t)
    BY <1>3 DEF Freeing
  <2>3. p \notin BeingFreed
    BY <1>0, <2>1, <2>2, BeingFreedIsHeld
  <2>4. CASE usable[b] = 0
    BY <1>0, <2>3, <2>4, BeingFreedIsHeld
  <2> QED
    BY <2>3, <2>4
<1>7. /\ \A c \in Block : InAccounts'[c] = IF c = b THEN u ELSE IF c = p THEN 0 ELSE InAccounts[c]
      /\ b = p \/ InAccounts[b] = 0
      /\ p # NULL => InAccounts[p] = usable[p]
  BY <1>0, <1>1, <1>4, <1>5, <1>6 DEF InAccounts
<1> DEFINE mid == [c \in Block |-> IF c = p THEN 0 ELSE InAccounts[c]]
<1>8. PICK g, m, h : g = InAccounts /\ m = mid /\ h = InAccounts'
  OBVIOUS
<1>9. \A c \in Block : g[c] \in Nat /\ m[c] \in Nat /\ h[c] \in Nat
  BY <1>0, <1>4, <1>7, <1>8, AccountsTyped
<1>10. Total(m, Block) = Total(g, Block) - orig
  <2>1. CASE p = NULL
    <3>1. \A c \in Block : m[c] = g[c]
      BY <1>0, <1>8, <2>1
    <3>2. Total(m, Block) = Total(g, Block)
      BY <3>1, TotalSame
    <3>3. Total(g, Block) \in Nat
      BY <1>9, FiniteAssumption, PebblesFinite
    <3> QED
      BY <2>1, <3>2, <3>3
  <2>2. CASE p # NULL
    <3>1. p \in Block /\ g[p] = orig /\ m[p] = 0
      BY <1>0, <1>7, <1>8, <2>2
    <3>2. \A c \in Block \ {p} : g[c] = m[c]
      BY <1>8
    <3>3. Total(g, Block) \in Nat
      BY <1>9, FiniteAssumption, PebblesFinite
    <3>4. \A c \in Block : g[c] \in Nat /\ m[c] \in Nat
      BY <1>9
    <3>5. Total(m, Block) = Total(g, Block) - g[p] + m[p]
      <4>1. PICK q : q = p
        OBVIOUS
      <4>2. q \in Block
        BY <3>1, <4>1
      <4>a. \A c \in Block \ {q} : g[c] = m[c]
        BY <3>2, <4>1
      <4>3. Total(m, Block) = Total(g, Block) - g[q] + m[q]
        <5>1. IsFiniteSet(Block)
          BY FiniteAssumption
        <5> HIDE DEF p, orig, mid
        <5> QED
          BY <3>4, <4>2, <4>a, <5>1, TotalChange
      <4> QED
        BY <4>1, <4>3
    <3> HIDE DEF orig, p
    <3> QED
      BY <1>4, <3>1, <3>3, <3>5
  <2> QED
    BY <2>1, <2>2
<1>11. Total(h, Block) = Total(m, Block) + u
  <2>1. m[b] = 0 /\ h[b] = u
    BY <1>4, <1>7, <1>8
  <2>2. \A c \in Block \ {b} : m[c] = h[c]
    BY <1>7, <1>8
  <2>3. \A c \in Block : m[c] \in Nat /\ h[c] \in Nat
    BY <1>9
  <2>4. Total(h, Block) = Total(m, Block) - m[b] + h[b]
    BY <1>4, <2>2, <2>3, FiniteAssumption, TotalChange
  <2>5. Total(m, Block) \in Nat
    BY <1>9, FiniteAssumption, PebblesFinite
  <2> QED
    BY <1>4, <2>1, <2>4, <2>5
<1>12. Total(InAccounts, Block)' = Total(InAccounts, Block) - orig + u
  <2>1. Total(InAccounts, Block)' = Total(InAccounts', Block)
    BY DEF Total, Pebbles
  <2> HIDE DEF orig
  <2> QED
    BY <1>8, <1>10, <1>11, <2>1
<1>13. /\ Total(Adds, Thread)' = Total(Adds, Thread) - 0 + u
       /\ Total(Subs, Thread)' = Total(Subs, Thread) - 0 + orig
  <2> HIDE DEF orig
  <2> QED
    BY <1>0, <1>2, <1>3, CallsPosted
<1>14. used' = used /\ freed' = freed
  BY DEF Allocate, status
<1>15. used + (Total(Adds, Thread) - 0 + u)
         = freed + (Total(Subs, Thread) - 0 + orig) + (Total(InAccounts, Block) - orig + u)
  <2>1. /\ used + Total(Adds, Thread) = freed + Total(Subs, Thread) + Total(InAccounts, Block)
        /\ Total(Adds, Thread) \in Nat /\ Total(Subs, Thread) \in Nat
        /\ Total(InAccounts, Block) \in Nat /\ used \in Nat /\ freed \in Nat
    BY <1>0, AccountsTyped DEF Books, TypeOK
  <2> HIDE DEF orig
  <2> QED
    BY <1>4, <2>1
<1> HIDE DEF orig
<1> QED
  BY <1>12, <1>13, <1>14, <1>15 DEF Books

\* toku_free takes a block out of the sum of the blocks, and owes it to freed.
LEMMA BooksFree ==
  ASSUME MemAssumption, TypeOK, TypeOK', Accounts, NEW t \in Thread, NEW p \in Block, Free(t, p),
         \A s \in Thread \ {t} : call'[s] = call[s]
  PROVE  Books'
<1>0. /\ Carries(t) /\ Books /\ pc[t] = "idle" /\ \A s \in Thread : Carries(s)
      /\ call \in [Thread -> Calls] /\ NULL \notin Block /\ NULL \notin Thread
      /\ usable \in [Block -> Nat] /\ usable' = usable /\ used' = used /\ freed' = freed
      /\ owner[p] = NULL
  BY DEF TypeOK, Accounts, Free, MemAssumption, Allocated, status
<1>1. /\ call'[t].add = 0 /\ call'[t].sub = usable[p] /\ call'[t].size = 0 /\ call'[t].p = p
  BY <1>0 DEF Free, NoCall, FreedSize
<1>2. call[t].add = 0 /\ call[t].sub = 0 /\ ~Freeing(t)
  BY <1>0 DEF Carries, Freeing
<1>3. \A c : (c \in BeingFreed)' <=> c \in BeingFreed \/ c = p
  <2>1. Freeing(t)' /\ \A s \in Thread \ {t} : Freeing(s)' <=> Freeing(s)
    BY <1>0, <1>1 DEF Freeing
  <2>2. \A c : (c \in BeingFreed)' <=> \E s \in Thread : Freeing(s)' /\ c = call'[s].p
    BY DEF BeingFreed, Freeing
  <2> QED
    BY <1>1, <1>2, <2>1, <2>2, FreedBlocks
<1>4. p \notin BeingFreed
  BY <1>0, BeingFreedIsHeld
<1>5. \A c \in Block : InAccounts'[c] = IF c = p THEN 0 ELSE InAccounts[c]
  BY <1>0, <1>3, <1>4 DEF InAccounts
<1>6. PICK g, h : g = InAccounts /\ h = InAccounts'
  OBVIOUS
<1>7. Total(h, Block) = Total(g, Block) - g[p] + h[p]
  <2>1. \A c \in Block : g[c] \in Nat /\ h[c] \in Nat
    BY <1>5, <1>6, AccountsTyped
  <2>2. \A c \in Block \ {p} : g[c] = h[c]
    BY <1>5, <1>6
  <2>3. IsFiniteSet(Block)
    BY FiniteAssumption
  <2> QED
    BY <2>1, <2>2, <2>3, TotalChange
<1>8. g[p] = usable[p] /\ h[p] = 0
  BY <1>4, <1>5, <1>6 DEF InAccounts
<1>9. Total(InAccounts, Block)' = Total(InAccounts, Block) - usable[p] + 0
  <2>1. Total(InAccounts, Block)' = Total(InAccounts', Block)
    BY DEF Total, Pebbles
  <2> QED
    BY <1>6, <1>7, <1>8, <2>1
<1>10. /\ Total(Adds, Thread)' = Total(Adds, Thread) - 0 + 0
       /\ Total(Subs, Thread)' = Total(Subs, Thread) - 0 + usable[p]
  BY <1>0, <1>1, <1>2, CallsPosted
<1>11. used + (Total(Adds, Thread) - 0 + 0)
         = freed + (Total(Subs, Thread) - 0 + usable[p]) + (Total(InAccounts, Block) - usable[p] + 0)
  <2>1. /\ used + Total(Adds, Thread) = freed + Total(Subs, Thread) + Total(InAccounts, Block)
        /\ Total(Adds, Thread) \in Nat /\ Total(Subs, Thread) \in Nat
        /\ Total(InAccounts, Block) \in Nat /\ used \in Nat /\ freed \in Nat /\ usable[p] \in Nat
    BY <1>0, AccountsTyped DEF Books, TypeOK
  <2> QED
    BY <2>1
<1> QED
  BY <1>0, <1>9, <1>10, <1>11 DEF Books

\* The block is gone when its thread releases it, and was out of the sum before.
LEMMA BooksRelease ==
  ASSUME MemAssumption, TypeOK, TypeOK', Accounts, NEW t \in Thread, Release(t),
         \A s \in Thread \ {t} : call'[s] = call[s]
  PROVE  Books'
<1>0. /\ Carries(t) /\ Books /\ pc[t] = "release"
      /\ usable \in [Block -> Nat] /\ used' = used /\ freed' = freed
      /\ usable' = [usable EXCEPT ![call[t].p] = 0] /\ Return(t)
  BY DEF TypeOK, Accounts, Release, status
<1>1. call[t].add = 0 /\ call[t].sub = 0 /\ Freeing(t)
  BY <1>0 DEF Carries, Freeing
<1>2. call'[t].add = 0 /\ call'[t].sub = 0 /\ ~Freeing(t)'
  BY <1>0, ReturnCarries DEF Freeing
<1>3. \A c : c # call[t].p => ((c \in BeingFreed)' <=> c \in BeingFreed)
  <2>1. \A s \in Thread \ {t} : Freeing(s)' <=> Freeing(s)
    BY DEF Freeing
  <2>2. \A c : (c \in BeingFreed)' <=> \E s \in Thread : Freeing(s)' /\ c = call'[s].p
    BY DEF BeingFreed, Freeing
  <2> QED
    BY <1>1, <1>2, <2>1, <2>2, FreedBlocks
<1>4. call[t].p \in BeingFreed
  BY <1>1, FreedBlocks
<1>5. \A c \in Block : InAccounts[c] = InAccounts'[c]
  <2> SUFFICES ASSUME NEW c \in Block PROVE InAccounts[c] = InAccounts'[c]
    OBVIOUS
  <2>1. CASE c = call[t].p
    BY <1>0, <1>4, <2>1 DEF InAccounts
  <2>2. CASE c # call[t].p
    BY <1>0, <1>3, <2>2 DEF InAccounts
  <2> QED
    BY <2>1, <2>2
<1>6. Total(InAccounts, Block)' = Total(InAccounts, Block)
  <2>1. Total(InAccounts, Block)' = Total(InAccounts', Block)
    BY DEF Total, Pebbles
  <2> QED
    BY <1>5, <2>1, TotalSame
<1>7. used' + call'[t].add = used + call[t].add /\ freed' + call'[t].sub = freed + call[t].sub
  BY <1>0, <1>1, <1>2
<1> QED
  BY <1>0, <1>6, <1>7, BooksPosted

\* The books balance after every step.
LEMMA BooksKept ==
  ASSUME MemAssumption, IInv, TypeOK', Accounts, NEW t \in Thread, Starts(t) \/ Continues(t)
  PROVE  Books'
<1>0. /\ TypeOK /\ Carries(t) /\ Books /\ \A s \in Thread \ {t} : call'[s] = call[s]
      /\ pc \in [Thread -> Labels] /\ call \in [Thread -> Calls] /\ 0 \notin Size
      /\ used \in Nat /\ freed \in Nat
      /\ call[t].add \in Nat /\ call[t].sub \in Nat
  BY OthersStay, SizesTyped, CallTyped DEF IInv, Accounts, TypeOK, Labels
<1>1. ASSUME usable' = usable, Freeing(t)' <=> Freeing(t), Freeing(t) => call'[t].p = call[t].p,
             used' + call'[t].add = used + call[t].add, freed' + call'[t].sub = freed + call[t].sub
      PROVE  Books'
  BY <1>0, <1>1, BlocksKept, BooksPosted
<1>2. ASSUME usable' = usable, UNCHANGED <<used, freed>>, call'[t].p = call[t].p,
             call'[t].size = call[t].size, call'[t].add = call[t].add, call'[t].sub = call[t].sub
      PROVE  Books'
  BY <1>1, <1>2 DEF Freeing
<1>3. ASSUME usable' = usable, UNCHANGED <<used, freed>>, Return(t),
             pc[t] \in {"allocate", "read", "load", "swap"}
      PROVE  Books'
  <2>1. /\ call'[t].p = NULL /\ call'[t].add = 0 /\ call'[t].sub = 0
    BY <1>0, <1>3, ReturnCarries
  <2>2. call[t].add = 0 /\ call[t].sub = 0 /\ call[t].size # 0
    BY <1>0, <1>3 DEF Carries
  <2> QED
    BY <1>1, <1>3, <2>1, <2>2 DEF Freeing
<1>4. CASE Starts(t)
  <2>1. pc[t] = "idle" /\ call[t].p = NULL /\ call[t].add = 0 /\ call[t].sub = 0
    BY <1>0, <1>4 DEF Starts, Malloc, Free, Realloc, Carries
  <2>2. ASSUME NEW size \in Size, Malloc(t, size)
        PROVE  Books'
    <3>1. /\ call'[t].size = size /\ call'[t].add = 0 /\ call'[t].sub = 0
          /\ usable' = usable /\ UNCHANGED <<used, freed>>
      BY <1>0, <2>2 DEF Malloc, NoCall, status, heap
    <3> QED
      BY <1>0, <1>1, <2>1, <3>1 DEF Freeing
  <2>3. ASSUME NEW p \in Block, NEW size \in Size, Realloc(t, p, size)
        PROVE  Books'
    <3>1. /\ call'[t].size = size /\ call'[t].add = 0 /\ call'[t].sub = 0
          /\ usable' = usable /\ UNCHANGED <<used, freed>>
      BY <1>0, <2>3 DEF Realloc, NoCall, status
    <3> QED
      BY <1>0, <1>1, <2>1, <3>1 DEF Freeing
  <2>4. ASSUME NEW p \in Block, Free(t, p)
        PROVE  Books'
    BY <1>0, <2>4, BooksFree
  <2> QED
    BY <1>4, <2>2, <2>3, <2>4 DEF Starts
<1>5. CASE CheckLargest(t) \/ StoreLargest(t)
  BY <1>2, <1>5 DEF CheckLargest, StoreLargest, status, heap
<1>6. CASE Allocate(t)
  BY <1>0, <1>6, BooksAllocate
<1>7. CASE AllocateFails(t)
  BY <1>3, <1>7 DEF AllocateFails, status
<1>8. CASE AddUsed(t)
  <2>1. call' = [call EXCEPT ![t].add = 0] /\ usable' = usable /\ freed' = freed
    BY <1>8 DEF AddUsed, heap
  <2>2. /\ call'[t].p = call[t].p /\ call'[t].size = call[t].size
        /\ call'[t].add = 0 /\ call'[t].sub = call[t].sub
    BY <1>0, <2>1 DEF Calls
  <2>3. used' = used + call[t].add
    BY <1>8 DEF AddUsed
  <2>4. used' + call'[t].add = used + call[t].add
    BY <1>0, <2>2, <2>3
  <2> QED
    BY <1>1, <2>1, <2>2, <2>4 DEF Freeing
<1>9. CASE AddFreed(t)
  <2>1. call' = [call EXCEPT ![t].sub = 0] /\ usable' = usable /\ used' = used
    BY <1>9 DEF AddFreed, heap
  <2>2. /\ call'[t].p = call[t].p /\ call'[t].size = call[t].size
        /\ call'[t].add = call[t].add /\ call'[t].sub = 0
    BY <1>0, <2>1 DEF Calls
  <2>3. freed' = freed + call[t].sub
    BY <1>9 DEF AddFreed
  <2>4. freed' + call'[t].sub = freed + call[t].sub
    BY <1>0, <2>2, <2>3
  <2> QED
    BY <1>1, <2>1, <2>2, <2>4 DEF Freeing
<1>10. CASE Release(t)
  BY <1>0, <1>10, BooksRelease DEF IInv
<1>11. CASE ReadUsed(t) \/ ReadFreed(t)
  <2>1. /\ call'[t].p = call[t].p /\ call'[t].size = call[t].size
        /\ call'[t].add = call[t].add /\ call'[t].sub = call[t].sub
        /\ usable' = usable /\ UNCHANGED <<used, freed>>
    BY <1>0, <1>11 DEF ReadUsed, ReadFreed, status, heap, Calls
  <2> QED
    BY <1>2, <2>1
<1>12. CASE Compare(t)
  <2>1. pc[t] = "read" /\ usable' = usable /\ UNCHANGED <<used, freed>>
    BY <1>12 DEF Compare, status
  <2> QED
    BY <1>2, <1>3, <1>12, <2>1 DEF Compare
<1>13. CASE Load(t)
  <2>1. pc[t] = "load" /\ usable' = usable /\ UNCHANGED <<used, freed>>
    BY <1>13 DEF Load, status
  <2>2. CASE call' = [call EXCEPT ![t].old_max = max_in_use]
    <3>1. /\ call'[t].p = call[t].p /\ call'[t].size = call[t].size
          /\ call'[t].add = call[t].add /\ call'[t].sub = call[t].sub
      BY <1>0, <2>2 DEF Calls
    <3> QED
      BY <1>2, <2>1, <3>1
  <2> QED
    BY <1>3, <1>13, <2>1, <2>2 DEF Load
<1>14. CASE CompareAndSwap(t)
  <2>1. pc[t] = "swap" /\ usable' = usable /\ UNCHANGED <<used, freed>>
    BY <1>14 DEF CompareAndSwap
  <2> QED
    BY <1>2, <1>3, <1>14, <2>1 DEF CompareAndSwap
<1> QED
  BY <1>4, <1>5, <1>6, <1>7, <1>8, <1>9, <1>10, <1>11, <1>12, <1>13, <1>14 DEF Continues

LEMMA AccountsInit == ASSUME MemAssumption, Init PROVE Accounts
<1>1. \A t \in Thread : call[t] = NoCall /\ pc[t] = "idle"
  BY DEF Init
<1>2. \A t \in Thread : Carries(t)
  <2>1. \A t \in Thread : /\ pc[t] = "idle" /\ call[t].p = NULL /\ call[t].size = 0
                           /\ call[t].add = 0 /\ call[t].sub = 0
    BY <1>1 DEF NoCall
  <2> QED
    BY <2>1 DEF Carries
<1>3. (\A t \in Thread : Adds[t] = 0 /\ Subs[t] = 0) /\ \A b \in Block : InAccounts[b] = 0
  BY <1>1 DEF Adds, Subs, InAccounts, Init, NoCall
<1>4. Total(Adds, Thread) = 0 /\ Total(Subs, Thread) = 0 /\ Total(InAccounts, Block) = 0
  BY <1>3, TotalZero
<1>5. used = 0 /\ freed = 0
  BY DEF Init
<1> QED
  BY <1>2, <1>4, <1>5 DEF Accounts, Books

LEMMA AccountsStep == ASSUME MemAssumption, IInv, Accounts, [Next]_vars PROVE Accounts'
<1>1. ASSUME NEW t \in Thread, Starts(t) \/ Continues(t)
      PROVE  Accounts'
  <2>1. TypeOK /\ TypeOK'
    BY <1>1, StepKeeps DEF IInv, Next
  <2>2. Books'
    BY <1>1, <2>1, BooksKept
  <2>3. ASSUME NEW s \in Thread
        PROVE  Carries(s)'
    <3>1. CASE s = t
      BY <1>1, <2>1, <3>1, StarterCarries, CallerCarries DEF Accounts
    <3>2. CASE s # t
      <4>1. pc'[s] = pc[s] /\ call'[s] = call[s]
        BY <1>1, <2>1, <3>2, OthersStay
      <4>2. \A b \in Block : owner[b] = s /\ usable[b] # 0
                             => owner'[b] = s /\ usable'[b] = usable[b]
        BY <1>1, <3>2, BlocksHeld
      <4> QED
        BY <2>1, <4>1, <4>2, OtherCarries DEF Accounts
    <3> QED
      BY <3>1, <3>2
  <2> QED
    BY <2>2, <2>3 DEF Accounts
<1>2. CASE UNCHANGED vars
  <2>1. /\ call' = call /\ pc' = pc /\ usable' = usable /\ owner' = owner
        /\ used' = used /\ freed' = freed
    BY <1>2 DEF vars, status, heap
  <2>2. \A t \in Thread : Carries(t)'
    BY <2>1, ZenonT(60) DEF Accounts, Carries
  <2>3. Books'
    BY <2>1 DEF Accounts, Books, Total, Pebbles, Adds, Subs, InAccounts, BeingFreed
  <2> QED
    BY <2>2, <2>3 DEF Accounts
<1> QED
  BY <1>1, <1>2 DEF Next

\* The sums of AccountsExact are these.
LEMMA SumOfAdds ==
  ASSUME TypeOK
  PROVE  F!MapThenSumSet(LAMBDA t : call[t].add, Thread) = Total(Adds, Thread)
<1> DEFINE iter == CHOOSE h : h = [s \in SUBSET Thread |->
                      IF s = {} THEN 0
                      ELSE call[CHOOSE x \in s : TRUE].add + h[s \ {CHOOSE x \in s : TRUE}]]
<1>1. F!MapThenSumSet(LAMBDA t : call[t].add, Thread) = iter[Thread]
  BY DEF F!MapThenSumSet, F!MapThenFoldSet
<1>2. IsFiniteSet(Thread) /\ \A t \in Thread : Adds[t] \in Nat /\ Adds[t] = call[t].add
  BY FiniteAssumption, AccountsTyped DEF Adds
<1>3. \A s \in SUBSET Thread : s # {} => Adds[CHOOSE x \in s : TRUE] = call[CHOOSE x \in s : TRUE].add
  BY <1>2
<1>4. \A h : Sums(h, Adds, Thread) <=>
         h = [s \in SUBSET Thread |-> IF s = {} THEN 0
              ELSE call[CHOOSE x \in s : TRUE].add + h[s \ {CHOOSE x \in s : TRUE}]]
  BY <1>3 DEF Sums
<1>5. \E h : Sums(h, Adds, Thread)
  BY <1>2, TotalSums
<1>6. Sums(iter, Adds, Thread)
  BY <1>4, <1>5, ZenonT(60)
<1> HIDE DEF iter
<1>7. iter[Thread] = Total(Adds, Thread)
  BY <1>2, <1>6, SumsAreTotals
<1> QED
  BY <1>1, <1>7

LEMMA SumOfSubs ==
  ASSUME TypeOK
  PROVE  F!MapThenSumSet(LAMBDA t : call[t].sub, Thread) = Total(Subs, Thread)
<1> DEFINE iter == CHOOSE h : h = [s \in SUBSET Thread |->
                      IF s = {} THEN 0
                      ELSE call[CHOOSE x \in s : TRUE].sub + h[s \ {CHOOSE x \in s : TRUE}]]
<1>1. F!MapThenSumSet(LAMBDA t : call[t].sub, Thread) = iter[Thread]
  BY DEF F!MapThenSumSet, F!MapThenFoldSet
<1>2. IsFiniteSet(Thread) /\ \A t \in Thread : Subs[t] \in Nat /\ Subs[t] = call[t].sub
  BY FiniteAssumption, AccountsTyped DEF Subs
<1>3. \A s \in SUBSET Thread : s # {} => Subs[CHOOSE x \in s : TRUE] = call[CHOOSE x \in s : TRUE].sub
  BY <1>2
<1>4. \A h : Sums(h, Subs, Thread) <=>
         h = [s \in SUBSET Thread |-> IF s = {} THEN 0
              ELSE call[CHOOSE x \in s : TRUE].sub + h[s \ {CHOOSE x \in s : TRUE}]]
  BY <1>3 DEF Sums
<1>5. \E h : Sums(h, Subs, Thread)
  BY <1>2, TotalSums
<1>6. Sums(iter, Subs, Thread)
  BY <1>4, <1>5, ZenonT(60)
<1> HIDE DEF iter
<1>7. iter[Thread] = Total(Subs, Thread)
  BY <1>2, <1>6, SumsAreTotals
<1> QED
  BY <1>1, <1>7

LEMMA SumOfUsable ==
  ASSUME NEW S, S \subseteq Block, TypeOK
  PROVE  F!MapThenSumSet(LAMBDA b : usable[b], S) = Total(usable, S)
<1> DEFINE iter == CHOOSE h : h = [s \in SUBSET S |->
                      IF s = {} THEN 0
                      ELSE usable[CHOOSE x \in s : TRUE] + h[s \ {CHOOSE x \in s : TRUE}]]
<1>1. F!MapThenSumSet(LAMBDA b : usable[b], S) = iter[S]
  BY DEF F!MapThenSumSet, F!MapThenFoldSet
<1>2. IsFiniteSet(S) /\ \A b \in S : usable[b] \in Nat
  BY FiniteAssumption, FS_Subset, AccountsTyped
<1>3. \E h : Sums(h, usable, S)
  BY <1>2, TotalSums
<1>4. Sums(iter, usable, S)
  BY <1>3 DEF Sums
<1> HIDE DEF iter
<1>5. iter[S] = Total(usable, S)
  BY <1>2, <1>4, SumsAreTotals
<1> QED
  BY <1>1, <1>5

\* The blocks being freed add nothing.
LEMMA SumInAccounts ==
  ASSUME TypeOK
  PROVE  Total(InAccounts, Block) = Total(usable, Block \ BeingFreed)
<1> DEFINE S == Block \ BeingFreed
           R == Block \cap BeingFreed
<1>1. IsFiniteSet(S) /\ IsFiniteSet(R) /\ S \cap R = {} /\ Block = S \cup R
  BY FiniteAssumption, FS_Subset
<1>2. (\A b \in S : InAccounts[b] = usable[b]) /\ (\A b \in R : InAccounts[b] = 0)
  BY DEF InAccounts
<1>3. \A b \in Block : InAccounts[b] \in Nat /\ usable[b] \in Nat
  BY AccountsTyped
<1> HIDE DEF S, R
<1>4. Total(InAccounts, S \cup R) = Total(InAccounts, S) + Total(InAccounts, R)
  <2>1. \A b \in S \cup R : InAccounts[b] \in Nat
    BY <1>1, <1>3
  <2> QED
    BY <1>1, <2>1, TotalUnion
<1>5. Total(InAccounts, R) = 0 /\ Total(InAccounts, S) = Total(usable, S)
  BY <1>2, TotalZero, TotalSame
<1>6. Total(usable, S) \in Nat
  BY <1>1, <1>3, PebblesFinite
<1> QED
  BY <1>1, <1>4, <1>5, <1>6 DEF S

\* What the calls have still to add to used is in blocks that they hold.
LEMMA AddsInBlocks ==
  ASSUME TypeOK, Accounts
  PROVE  Total(Adds, Thread) <= Total(InAccounts, Block)
<1> DEFINE has(t, b) == owner[b] = t /\ usable[b] = call[t].add
           f == [t \in Thread |-> CHOOSE b \in Block : has(t, b)]
<1>1. ASSUME NEW t \in Thread, Adds[t] # 0
      PROVE  f[t] \in Block /\ owner[f[t]] = t /\ InAccounts[f[t]] = Adds[t]
  <2>1. call[t].add # 0 /\ Carries(t)
    BY <1>1 DEF Adds, Accounts
  <2>2. \E b \in Block : has(t, b)
    BY <2>1 DEF Carries
  <2>3. f[t] \in Block /\ has(t, f[t])
    BY <2>2
  <2>4. ~Freeing(t)
    BY <2>1 DEF Carries, Freeing
  <2>5. f[t] \notin BeingFreed
    BY <2>3, <2>4, BeingFreedIsHeld DEF Accounts
  <2> HIDE DEF f
  <2> QED
    BY <2>3, <2>5 DEF InAccounts, Adds
<1> HIDE DEF f
<1>2. \A t \in Thread : Adds[t] \in Nat
  BY AccountsTyped
<1>3. \A b \in Block : InAccounts[b] \in Nat
  BY AccountsTyped
<1>4. \A t \in Thread : Adds[t] # 0 => f[t] \in Block /\ Adds[t] <= InAccounts[f[t]]
  BY <1>1, <1>2
<1>5. \A s, t \in Thread : Adds[s] # 0 /\ Adds[t] # 0 /\ f[s] = f[t] => s = t
  BY <1>1
<1>6. IsFiniteSet(Thread) /\ IsFiniteSet(Block)
  BY FiniteAssumption
<1>7. PICK g, h : g = Adds /\ h = InAccounts
  OBVIOUS
<1>8. Total(g, Thread) <= Total(h, Block)
  <2>1. \A x \in Thread : g[x] \in Nat
    BY <1>2, <1>7
  <2>2. \A y \in Block : h[y] \in Nat
    BY <1>3, <1>7
  <2>3. \A x \in Thread : g[x] # 0 => f[x] \in Block /\ g[x] <= h[f[x]]
    BY <1>4, <1>7
  <2>4. \A x, y \in Thread : g[x] # 0 /\ g[y] # 0 /\ f[x] = f[y] => x = y
    BY <1>5, <1>7
  <2> QED
    BY <1>6, <2>1, <2>2, <2>3, <2>4, TotalCovered
<1> QED
  BY <1>7, <1>8

LEMMA AccountsAreSound == ASSUME TypeOK, Accounts PROVE AccountsSound
<1>1. /\ Total(Adds, Thread) \in Nat /\ Total(Subs, Thread) \in Nat
      /\ Total(InAccounts, Block) \in Nat /\ used \in Nat /\ freed \in Nat
  BY AccountsTyped DEF TypeOK
<1>2. used + Total(Adds, Thread) = freed + Total(Subs, Thread) + Total(InAccounts, Block)
  BY DEF Accounts, Books
<1>3. AccountsExact
  <2>1. used + Total(Adds, Thread) - (freed + Total(Subs, Thread)) = Total(usable, Block \ BeingFreed)
    <3>1. used + Total(Adds, Thread) - (freed + Total(Subs, Thread)) = Total(InAccounts, Block)
      BY <1>1, <1>2
    <3> QED
      BY <3>1, SumInAccounts
  <2>2. F!MapThenSumSet(LAMBDA b : usable[b], Block \ BeingFreed) = Total(usable, Block \ BeingFreed)
    BY SumOfUsable
  <2> QED
    BY <2>1, <2>2, SumOfAdds, SumOfSubs DEF AccountsExact, Sum
<1>4. FreedWithinUsed
  BY <1>1, <1>2, AddsInBlocks DEF FreedWithinUsed
<1> QED
  BY <1>3, <1>4 DEF AccountsSound

\* For any number of threads and blocks, used - freed is the memory in use but
\* for what the calls under way have still to add (memory.cc, lines 195, 261, 262
\* and 331), and freed never passes used.
THEOREM AccountsSoundAlways == Spec => []AccountsSound
<1>1. Init => Accounts
  BY AccountsInit, MemAssumption
<1>2. IInv /\ Accounts /\ [Next]_vars => Accounts'
  BY AccountsStep, MemAssumption
<1>3. IInv /\ Accounts => AccountsSound
  BY AccountsAreSound DEF IInv
<1> QED
  BY <1>1, <1>2, <1>3, InvariantHolds, PTL DEF Spec

=============================================================================
