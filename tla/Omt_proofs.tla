----------------------------- MODULE Omt_proofs -----------------------------
(***************************************************************************)
(* Proofs about the order maintenance tree: every structure a sequence of  *)
(* calls can reach is sound (TreesSound), every lookup, read and edit      *)
(* answers what omt.h says of its values (AnswersExact), and every step is *)
(* one of OmtSeq (ImplementsSequence, CombinesExact), for any number of    *)
(* objects, values and nodes.                                              *)
(*                                                                         *)
(* A function on subtrees is given by its equation, which is proved from   *)
(* its definition by extending it one level of trees at a time; then an    *)
(* induction over subtrees (TreeInduction) shows what it computes: the     *)
(* values, weights, shape and marks of the tree it makes.  Two facts carry *)
(* the balance: a subtree rebuilt from its sorted values is even, and the  *)
(* subtree an edit passes through is lopsided only if the topmost lopsided *)
(* node was above it and is rebuilt (Inserted, Deleted).  The inductive    *)
(* invariant IInv says that each object is Held: a Sound array or tree, a  *)
(* tree if it has marks, no longer than its user keeps it, and sorted if   *)
(* its user looks values up.                                               *)
(***************************************************************************)
EXTENDS Omt, TLAPS, SequenceTheorems, WellFoundedInduction

LEMMA LeastNumber ==
    ASSUME NEW T, T \subseteq Nat, T # {}
    PROVE  \E x \in T : \A y \in T : x <= y
  <1> DEFINE R == OpToRel(<, Nat)
  <1>1. IsWellFoundedOn(R, Nat)
    BY NatLessThanWellFounded
  <1>2. \A p : p \in R <=> p \in Nat \X Nat /\ p[1] < p[2]
    BY DEF OpToRel
  <1> HIDE DEF R
  <1>3. PICK x \in T : \A y \in T : ~ (<<y, x>> \in R)
    BY <1>1, WFMin
  <1>4. \A y \in T : ~ (y < x)
    BY <1>2, <1>3
  <1> QED  BY <1>3, <1>4

\* Induction over the natural numbers, of a statement about a set.
LEMMA Induct ==
    ASSUME NEW T, T \subseteq Nat, 0 \in T, \A n \in T : n + 1 \in T
    PROVE  T = Nat
  <1> DEFINE W == Nat \ T
  <1>1. ASSUME W # {} PROVE FALSE
    <2>1. W \subseteq Nat
      OBVIOUS
    <2> HIDE DEF W
    <2>2. PICK x \in W : \A y \in W : x <= y
      BY <1>1, <2>1, LeastNumber
    <2>3. x \in Nat /\ x \notin T
      BY DEF W
    <2>4. x # 0 /\ x - 1 \in Nat
      BY <2>3
    <2>5. CASE x - 1 \in T
      <3>1. (x - 1) + 1 \in T
        BY <2>5
      <3> QED  BY <2>3, <2>4, <3>1
    <2>6. CASE x - 1 \notin T
      <3>1. x - 1 \in W
        BY <2>4, <2>6 DEF W
      <3> QED  BY <2>2, <2>3, <3>1
    <2> QED  BY <2>5, <2>6
  <1> QED  BY <1>1

-----------------------------------------------------------------------------
(* Subtrees                                                                *)

Nodes_(below) ==
    [weight : Nat, left : below, value : Value, right : below, marked : BOOLEAN, below : BOOLEAN]

Wider(below) == {NODE_NULL} \cup Nodes_(below)

Ground == {NODE_NULL}
LevelOf(f, d) == IF d = 0 THEN Ground ELSE Wider(f[d - 1])
LevelsTo(f, m) == f = [d \in 0 .. m |-> LevelOf(f, d)]

LEMMA LevelsExist ==
    ASSUME NEW m \in Nat
    PROVE  \E f : LevelsTo(f, m)
  <1> DEFINE T == {n \in Nat : \E f : LevelsTo(f, n)}
  <1>1. 0 \in T
    <2> DEFINE f == [d \in 0 .. 0 |-> Ground]
    <2>1. \A d \in 0 .. 0 : Ground = LevelOf(f, d)
      BY DEF LevelOf
    <2>2. f = [d \in 0 .. 0 |-> LevelOf(f, d)]
      BY <2>1
    <2> HIDE DEF f
    <2>3. LevelsTo(f, 0)
      BY <2>2 DEF LevelsTo
    <2> QED  BY <2>3
  <1>2. ASSUME NEW n \in T PROVE n + 1 \in T
    <2>1. PICK f : LevelsTo(f, n)
      OBVIOUS
    <2> DEFINE g == [d \in 0 .. n + 1 |-> LevelOf(f, d)]
    <2>2. \A d \in 0 .. n : g[d] = f[d]
      BY <2>1 DEF LevelsTo
    <2>3. \A d \in 0 .. n + 1 : LevelOf(f, d) = LevelOf(g, d)
      <3>1. \A d \in 1 .. n + 1 : d - 1 \in 0 .. n
        OBVIOUS
      <3> HIDE DEF g
      <3> QED  BY <2>2, <3>1 DEF LevelOf
    <2>4. g = [d \in 0 .. n + 1 |-> LevelOf(g, d)]
      BY <2>3
    <2> HIDE DEF g
    <2>5. LevelsTo(g, n + 1)
      BY <2>4 DEF LevelsTo
    <2> QED  BY <2>5
  <1> HIDE DEF T
  <1>3. T \subseteq Nat
    BY DEF T
  <1>4. T = Nat
    BY <1>1, <1>2, <1>3, Induct
  <1> QED  BY <1>4 DEF T

LEMMA LevelsEquation ==
    /\ Levels[0] = Ground
    /\ \A d \in 1 .. MaxSize + 1 : Levels[d] = Wider(Levels[d - 1])
  <1>1. MaxSize + 1 \in Nat
    BY OmtAssumption
  <1>2. \E f : LevelsTo(f, MaxSize + 1)
    BY <1>1, LevelsExist
  <1>3. LevelsTo(Levels, MaxSize + 1)
    BY <1>2 DEF Levels, LevelsTo, LevelOf, Nodes_, Wider, Ground
  <1> QED  BY <1>1, <1>3 DEF LevelsTo, LevelOf

LEMMA NodeIsNotNull ==
    ASSUME NEW below, NEW t \in Nodes_(below)
    PROVE  t # NODE_NULL
  BY DEF Nodes_, NODE_NULL

LEMMA LevelsGrow ==
    ASSUME NEW d \in 0 .. MaxSize
    PROVE  Levels[d] \subseteq Levels[d + 1]
  <1> DEFINE T == {n \in Nat : n <= MaxSize => Levels[n] \subseteq Levels[n + 1]}
  <1>0. MaxSize \in Nat
    BY OmtAssumption
  <1>1. 0 \in T
    <2>1. 0 + 1 \in 1 .. MaxSize + 1 /\ (0 + 1) - 1 = 0
      BY <1>0
    <2>2. Levels[0] = Ground /\ Levels[0 + 1] = Wider(Levels[0])
      BY <2>1, LevelsEquation
    <2> QED  BY <2>2 DEF Wider, Ground
  <1>2. ASSUME NEW n \in T PROVE n + 1 \in T
    <2> SUFFICES ASSUME n + 1 <= MaxSize PROVE Levels[n + 1] \subseteq Levels[(n + 1) + 1]
      OBVIOUS
    <2>1. n \in Nat /\ n <= MaxSize /\ n + 1 \in 1 .. MaxSize + 1
          /\ (n + 1) + 1 \in 1 .. MaxSize + 1 /\ (n + 1) - 1 = n /\ ((n + 1) + 1) - 1 = n + 1
      BY <1>0
    <2>2. Levels[n] \subseteq Levels[n + 1]
      BY <2>1
    <2>3. Levels[n + 1] = Wider(Levels[n]) /\ Levels[(n + 1) + 1] = Wider(Levels[n + 1])
      BY <2>1, LevelsEquation
    <2>4. Wider(Levels[n]) \subseteq Wider(Levels[n + 1])
      <3> DEFINE a == Levels[n]
                 b == Levels[n + 1]
      <3>1. a \subseteq b
        BY <2>2
      <3> HIDE DEF a, b
      <3>2. Wider(a) \subseteq Wider(b)
        BY <3>1 DEF Wider, Nodes_
      <3> QED  BY <3>2 DEF a, b
    <2> QED  BY <2>3, <2>4
  <1> HIDE DEF T
  <1>3. T = Nat
    <2>1. T \subseteq Nat
      BY DEF T
    <2> QED  BY <1>1, <1>2, <2>1, Induct
  <1>4. d \in T /\ d <= MaxSize
    BY <1>0, <1>3
  <1> QED  BY <1>4 DEF T

\* The subtrees of fewer than n levels.
Below(n) == IF n = 0 THEN {} ELSE Levels[n - 1]

LEMMA BelowGrows ==
    ASSUME NEW n \in 0 .. MaxSize + 1
    PROVE  /\ Below(n) \subseteq Below(n + 1)
           /\ \A t \in Below(n + 1) : t # NODE_NULL => t.left \in Below(n) /\ t.right \in Below(n)
  <1>0. MaxSize \in Nat
    BY OmtAssumption
  <1>1. CASE n = 0
    <2>1. Below(n) = {} /\ Below(n + 1) = Ground
      BY <1>1, LevelsEquation DEF Below
    <2> QED  BY <2>1 DEF Ground
  <1>2. CASE n # 0
    <2>1. n - 1 \in 0 .. MaxSize /\ n \in 1 .. MaxSize + 1 /\ (n - 1) + 1 = n /\ (n + 1) - 1 = n
      BY <1>0, <1>2
    <2>2. Below(n) = Levels[n - 1] /\ Below(n + 1) = Levels[n]
      BY <1>2, <2>1 DEF Below
    <2>3. Levels[n - 1] \subseteq Levels[n]
      BY <2>1, LevelsGrow
    <2>4. Levels[n] = Wider(Levels[n - 1])
      BY <2>1, LevelsEquation
    <2> HIDE DEF Below
    <2>5. \A t \in Wider(Levels[n - 1]) :
             t # NODE_NULL => t.left \in Levels[n - 1] /\ t.right \in Levels[n - 1]
      BY DEF Wider, Nodes_
    <2> QED  BY <2>2, <2>3, <2>4, <2>5
  <1> QED  BY <1>1, <1>2

LEMMA BelowAll == MaxSize + 2 \in Nat /\ Below(MaxSize + 2) = Subtree
  <1>1. MaxSize + 2 \in Nat \ {0} /\ (MaxSize + 2) - 1 = MaxSize + 1
    BY OmtAssumption
  <1> QED  BY <1>1 DEF Below, Subtree

LEMMA Parts ==
    ASSUME NEW t \in Subtree, t # NODE_NULL
    PROVE  /\ t = [weight |-> t.weight, left |-> t.left, value |-> t.value, right |-> t.right,
                   marked |-> t.marked, below |-> t.below]
           /\ t.weight \in Nat /\ t.value \in Value /\ t.marked \in BOOLEAN /\ t.below \in BOOLEAN
           /\ t.left \in Subtree /\ t.right \in Subtree
  <1>0. MaxSize + 1 \in 1 .. MaxSize + 1 /\ (MaxSize + 1) - 1 = MaxSize /\ MaxSize \in 0 .. MaxSize
    BY OmtAssumption
  <1>1. Subtree = Wider(Levels[MaxSize])
    BY <1>0, LevelsEquation DEF Subtree
  <1>2. Levels[MaxSize] \subseteq Subtree
    BY <1>0, LevelsGrow DEF Subtree
  <1>3. t \in Nodes_(Levels[MaxSize])
    BY <1>1 DEF Wider
  <1> DEFINE all == Levels[MaxSize]
  <1>4. t \in [weight : Nat, left : all, value : Value, right : all, marked : BOOLEAN, below : BOOLEAN]
    BY <1>3 DEF Nodes_
  <1> HIDE DEF all
  <1>5. /\ t = [weight |-> t.weight, left |-> t.left, value |-> t.value, right |-> t.right,
                marked |-> t.marked, below |-> t.below]
        /\ t.weight \in Nat /\ t.value \in Value /\ t.marked \in BOOLEAN /\ t.below \in BOOLEAN
        /\ t.left \in all /\ t.right \in all
    BY <1>4
  <1> QED  BY <1>2, <1>5 DEF all

LEMMA NullIsSubtree == NODE_NULL \in Subtree
  <1>0. MaxSize + 1 \in 1 .. MaxSize + 1
    BY OmtAssumption
  <1> QED  BY <1>0, LevelsEquation DEF Subtree, Wider

\* Induction over the subtrees: what holds of NODE_NULL, and of a node if it holds of the
\* two under it, holds of all.
LEMMA TreeInduction ==
    ASSUME NEW T, NODE_NULL \in T,
           \A t \in Subtree : t # NODE_NULL /\ t.left \in T /\ t.right \in T => t \in T
    PROVE  Subtree \subseteq T
  <1> DEFINE N == {n \in Nat : n <= MaxSize + 2 => Below(n) \subseteq T}
  <1>0. MaxSize \in Nat
    BY OmtAssumption
  <1>1. 0 \in N
    BY DEF Below
  <1>2. ASSUME NEW n \in N PROVE n + 1 \in N
    <2> SUFFICES ASSUME n + 1 <= MaxSize + 2, NEW t \in Below(n + 1) PROVE t \in T
      OBVIOUS
    <2>1. n \in 0 .. MaxSize + 1 /\ n <= MaxSize + 2
      BY <1>0
    <2>2. Below(n) \subseteq T
      BY <2>1
    <2>3. t # NODE_NULL => t.left \in Below(n) /\ t.right \in Below(n)
      BY <2>1, BelowGrows
    <2>4. t \in Subtree
      <3> DEFINE U == {m \in Nat : n + 1 + m <= MaxSize + 2 => t \in Below(n + 1 + m)}
      <3>1. 0 \in U
        BY <2>1
      <3>2. ASSUME NEW m \in U PROVE m + 1 \in U
        <4> SUFFICES ASSUME n + 1 + (m + 1) <= MaxSize + 2 PROVE t \in Below(n + 1 + (m + 1))
          OBVIOUS
        <4>1. n + 1 + m \in 0 .. MaxSize + 1 /\ n + 1 + (m + 1) = (n + 1 + m) + 1
              /\ n + 1 + m <= MaxSize + 2
          BY <1>0, <2>1
        <4>2. t \in Below(n + 1 + m)
          BY <4>1
        <4>3. Below(n + 1 + m) \subseteq Below((n + 1 + m) + 1)
          BY <4>1, BelowGrows
        <4> QED  BY <4>1, <4>2, <4>3
      <3>3. U \subseteq Nat
        OBVIOUS
      <3> HIDE DEF U
      <3>4. U = Nat
        BY <3>1, <3>2, <3>3, Induct
      <3> DEFINE m == MaxSize + 2 - (n + 1)
      <3>5. m \in Nat /\ n + 1 + m = MaxSize + 2
        BY <1>0, <2>1
      <3>6. m \in U
        BY <3>4, <3>5
      <3>7. t \in Below(n + 1 + m)
        BY <3>5, <3>6, <1>0 DEF U
      <3> QED  BY <3>5, <3>7, BelowAll
    <2> QED  BY <2>2, <2>3, <2>4
  <1> HIDE DEF N
  <1>3. N = Nat
    <2>1. N \subseteq Nat
      BY DEF N
    <2> QED  BY <1>1, <1>2, <2>1, Induct
  <1>4. MaxSize + 2 \in N
    BY <1>3, BelowAll
  <1> QED  BY <1>4, BelowAll DEF N

ValuesBy(t, L, R) ==
    IF t = NODE_NULL THEN << >> ELSE L \o <<t.value>> \o R

LEMMA ValuesEquation == Values = [t \in Subtree |-> ValuesBy(t, Values[t.left], Values[t.right])]
  <1> DEFINE Of(f, n) == f = [t \in Below(n) |-> ValuesBy(t, f[t.left], f[t.right])]
             T == {n \in Nat : n <= MaxSize + 2 => \E f : Of(f, n)}
  <1>0. MaxSize \in Nat
    BY OmtAssumption
  <1>1. 0 \in T
    <2>1. Below(0) = {}
      BY DEF Below
    <2> DEFINE f == [t \in Below(0) |-> NODE_NULL]
    <2>2. Of(f, 0)
      BY <2>1
    <2> QED  BY <2>2
  <1>2. ASSUME NEW n \in T PROVE n + 1 \in T
    <2> SUFFICES ASSUME n + 1 <= MaxSize + 2 PROVE \E f : Of(f, n + 1)
      OBVIOUS
    <2>1. n \in 0 .. MaxSize + 1
      BY <1>0
    <2>2. PICK f : Of(f, n)
      BY <2>1, <1>0
    <2> DEFINE g == [t \in Below(n + 1) |-> ValuesBy(t, f[t.left], f[t.right])]
    <2>3. \A t \in Below(n) : g[t] = f[t]
      BY <2>1, <2>2, BelowGrows
    <2>4. \A t \in Below(n + 1) :
             ValuesBy(t, f[t.left], f[t.right]) = ValuesBy(t, g[t.left], g[t.right])
      <3> SUFFICES ASSUME NEW t \in Below(n + 1)
                   PROVE  ValuesBy(t, f[t.left], f[t.right]) = ValuesBy(t, g[t.left], g[t.right])
        OBVIOUS
      <3>1. CASE t = NODE_NULL
        BY <3>1 DEF ValuesBy
      <3>2. CASE t # NODE_NULL
        <4>1. g[t.left] = f[t.left] /\ g[t.right] = f[t.right]
          BY <2>1, <2>3, <3>2, BelowGrows
        <4> QED  BY <4>1
      <3> QED  BY <3>1, <3>2
    <2>5. Of(g, n + 1)
      BY <2>4
    <2> QED  BY <2>5
  <1>3. T \subseteq Nat
    OBVIOUS
  <1> HIDE DEF T
  <1>4. T = Nat
    BY <1>1, <1>2, <1>3, Induct
  <1>5. PICK f : Of(f, MaxSize + 2)
    BY <1>4, BelowAll DEF T
  <1>6. f = [t \in Subtree |-> ValuesBy(t, f[t.left], f[t.right])]
    BY <1>5, BelowAll
  <1> HIDE DEF Of
  <1>7. Values = CHOOSE f_ : f_ = [t \in Subtree |-> ValuesBy(t, f_[t.left], f_[t.right])]
    BY DEF Values, ValuesBy
  <1> QED  BY <1>6, <1>7

InsertNode(t, L, R, v, i, done) ==
    IF t = NODE_NULL THEN Node(1, NODE_NULL, v, NODE_NULL)
    ELSE LET now == ~done /\ InsertLopsides(t, i)
             grown == IF i <= t.left.weight
                      THEN [t EXCEPT !.weight = @ + 1, !.left = L[v][i][done \/ now]]
                      ELSE [t EXCEPT !.weight = @ + 1,
                                     !.right = R[v][i - t.left.weight - 1][done \/ now]]
         IN  Rebalanced(now, grown)
InsertBy(t, L, R) ==
    [v \in Value |-> [i \in Slot |-> [done \in BOOLEAN |-> InsertNode(t, L, R, v, i, done)]]]

LEMMA InsertInternalEquation == InsertInternal = [t \in Subtree |-> InsertBy(t, InsertInternal[t.left], InsertInternal[t.right])]
  <1> DEFINE Of(f, n) == f = [t \in Below(n) |-> InsertBy(t, f[t.left], f[t.right])]
             T == {n \in Nat : n <= MaxSize + 2 => \E f : Of(f, n)}
  <1>0. MaxSize \in Nat
    BY OmtAssumption
  <1>1. 0 \in T
    <2>1. Below(0) = {}
      BY DEF Below
    <2> DEFINE f == [t \in Below(0) |-> NODE_NULL]
    <2>2. Of(f, 0)
      BY <2>1
    <2> QED  BY <2>2
  <1>2. ASSUME NEW n \in T PROVE n + 1 \in T
    <2> SUFFICES ASSUME n + 1 <= MaxSize + 2 PROVE \E f : Of(f, n + 1)
      OBVIOUS
    <2>1. n \in 0 .. MaxSize + 1
      BY <1>0
    <2>2. PICK f : Of(f, n)
      BY <2>1, <1>0
    <2> DEFINE g == [t \in Below(n + 1) |-> InsertBy(t, f[t.left], f[t.right])]
    <2>3. \A t \in Below(n) : g[t] = f[t]
      BY <2>1, <2>2, BelowGrows
    <2>4. \A t \in Below(n + 1) :
             InsertBy(t, f[t.left], f[t.right]) = InsertBy(t, g[t.left], g[t.right])
      <3> SUFFICES ASSUME NEW t \in Below(n + 1)
                   PROVE  InsertBy(t, f[t.left], f[t.right]) = InsertBy(t, g[t.left], g[t.right])
        OBVIOUS
      <3>1. CASE t = NODE_NULL
        BY <3>1, Zenon DEF InsertBy, InsertNode
      <3>2. CASE t # NODE_NULL
        <4>1. g[t.left] = f[t.left] /\ g[t.right] = f[t.right]
          BY <2>1, <2>3, <3>2, BelowGrows
        <4> QED  BY <4>1
      <3> QED  BY <3>1, <3>2
    <2>5. Of(g, n + 1)
      BY <2>4
    <2> QED  BY <2>5
  <1>3. T \subseteq Nat
    OBVIOUS
  <1> HIDE DEF T
  <1>4. T = Nat
    BY <1>1, <1>2, <1>3, Induct
  <1>5. PICK f : Of(f, MaxSize + 2)
    BY <1>4, BelowAll DEF T
  <1>6. f = [t \in Subtree |-> InsertBy(t, f[t.left], f[t.right])]
    BY <1>5, BelowAll
  <1> HIDE DEF Of
  <1>7. InsertInternal = CHOOSE f_ : f_ = [t \in Subtree |-> InsertBy(t, f_[t.left], f_[t.right])]
    BY DEF InsertInternal, InsertBy, InsertNode
  <1> QED  BY <1>6, <1>7

DeleteNode(t, L, R, i, done) ==
    IF t = NODE_NULL THEN t ELSE
    LET now == ~done /\ DeleteLopsides(t, i)
        hit == i = t.left.weight
        first == Head(Values[t.right])
        shrunk ==
            IF i < t.left.weight
            THEN [t EXCEPT !.weight = @ - 1, !.left = L[i][done \/ now]]
            ELSE [t EXCEPT !.weight = @ - 1,
                           !.value = IF hit THEN first ELSE @,
                           !.right = R[IF hit THEN 0 ELSE i - t.left.weight - 1][done \/ now]]
    IN  IF hit /\ t.left = NODE_NULL THEN t.right
        ELSE IF hit /\ t.right = NODE_NULL THEN t.left
        ELSE Rebalanced(now, shrunk)
DeleteBy(t, L, R) ==
    [i \in Slot |-> [done \in BOOLEAN |-> DeleteNode(t, L, R, i, done)]]

LEMMA DeleteInternalEquation == DeleteInternal = [t \in Subtree |-> DeleteBy(t, DeleteInternal[t.left], DeleteInternal[t.right])]
  <1> DEFINE Of(f, n) == f = [t \in Below(n) |-> DeleteBy(t, f[t.left], f[t.right])]
             T == {n \in Nat : n <= MaxSize + 2 => \E f : Of(f, n)}
  <1>0. MaxSize \in Nat
    BY OmtAssumption
  <1>1. 0 \in T
    <2>1. Below(0) = {}
      BY DEF Below
    <2> DEFINE f == [t \in Below(0) |-> NODE_NULL]
    <2>2. Of(f, 0)
      BY <2>1
    <2> QED  BY <2>2
  <1>2. ASSUME NEW n \in T PROVE n + 1 \in T
    <2> SUFFICES ASSUME n + 1 <= MaxSize + 2 PROVE \E f : Of(f, n + 1)
      OBVIOUS
    <2>1. n \in 0 .. MaxSize + 1
      BY <1>0
    <2>2. PICK f : Of(f, n)
      BY <2>1, <1>0
    <2> DEFINE g == [t \in Below(n + 1) |-> DeleteBy(t, f[t.left], f[t.right])]
    <2>3. \A t \in Below(n) : g[t] = f[t]
      BY <2>1, <2>2, BelowGrows
    <2>4. \A t \in Below(n + 1) :
             DeleteBy(t, f[t.left], f[t.right]) = DeleteBy(t, g[t.left], g[t.right])
      <3> SUFFICES ASSUME NEW t \in Below(n + 1)
                   PROVE  DeleteBy(t, f[t.left], f[t.right]) = DeleteBy(t, g[t.left], g[t.right])
        OBVIOUS
      <3>1. CASE t = NODE_NULL
        BY <3>1, Zenon DEF DeleteBy, DeleteNode
      <3>2. CASE t # NODE_NULL
        <4>1. g[t.left] = f[t.left] /\ g[t.right] = f[t.right]
          BY <2>1, <2>3, <3>2, BelowGrows
        <4> QED  BY <4>1
      <3> QED  BY <3>1, <3>2
    <2>5. Of(g, n + 1)
      BY <2>4
    <2> QED  BY <2>5
  <1>3. T \subseteq Nat
    OBVIOUS
  <1> HIDE DEF T
  <1>4. T = Nat
    BY <1>1, <1>2, <1>3, Induct
  <1>5. PICK f : Of(f, MaxSize + 2)
    BY <1>4, BelowAll DEF T
  <1>6. f = [t \in Subtree |-> DeleteBy(t, f[t.left], f[t.right])]
    BY <1>5, BelowAll
  <1> HIDE DEF Of
  <1>7. DeleteInternal = CHOOSE f_ : f_ = [t \in Subtree |-> DeleteBy(t, f_[t.left], f_[t.right])]
    BY DEF DeleteInternal, DeleteBy, DeleteNode
  <1> QED  BY <1>6, <1>7

SetAtNode(t, L, R, v, i) ==
    IF t = NODE_NULL THEN t
    ELSE IF i < t.left.weight THEN [t EXCEPT !.left = L[v][i]]
    ELSE IF i = t.left.weight THEN [t EXCEPT !.value = v]
    ELSE [t EXCEPT !.right = R[v][i - t.left.weight - 1]]
SetAtBy(t, L, R) ==
    [v \in Value |-> [i \in Slot |-> SetAtNode(t, L, R, v, i)]]

LEMMA SetAtInternalEquation == SetAtInternal = [t \in Subtree |-> SetAtBy(t, SetAtInternal[t.left], SetAtInternal[t.right])]
  <1> DEFINE Of(f, n) == f = [t \in Below(n) |-> SetAtBy(t, f[t.left], f[t.right])]
             T == {n \in Nat : n <= MaxSize + 2 => \E f : Of(f, n)}
  <1>0. MaxSize \in Nat
    BY OmtAssumption
  <1>1. 0 \in T
    <2>1. Below(0) = {}
      BY DEF Below
    <2> DEFINE f == [t \in Below(0) |-> NODE_NULL]
    <2>2. Of(f, 0)
      BY <2>1
    <2> QED  BY <2>2
  <1>2. ASSUME NEW n \in T PROVE n + 1 \in T
    <2> SUFFICES ASSUME n + 1 <= MaxSize + 2 PROVE \E f : Of(f, n + 1)
      OBVIOUS
    <2>1. n \in 0 .. MaxSize + 1
      BY <1>0
    <2>2. PICK f : Of(f, n)
      BY <2>1, <1>0
    <2> DEFINE g == [t \in Below(n + 1) |-> SetAtBy(t, f[t.left], f[t.right])]
    <2>3. \A t \in Below(n) : g[t] = f[t]
      BY <2>1, <2>2, BelowGrows
    <2>4. \A t \in Below(n + 1) :
             SetAtBy(t, f[t.left], f[t.right]) = SetAtBy(t, g[t.left], g[t.right])
      <3> SUFFICES ASSUME NEW t \in Below(n + 1)
                   PROVE  SetAtBy(t, f[t.left], f[t.right]) = SetAtBy(t, g[t.left], g[t.right])
        OBVIOUS
      <3>1. CASE t = NODE_NULL
        BY <3>1 DEF SetAtBy, SetAtNode
      <3>2. CASE t # NODE_NULL
        <4>1. g[t.left] = f[t.left] /\ g[t.right] = f[t.right]
          BY <2>1, <2>3, <3>2, BelowGrows
        <4> QED  BY <4>1
      <3> QED  BY <3>1, <3>2
    <2>5. Of(g, n + 1)
      BY <2>4
    <2> QED  BY <2>5
  <1>3. T \subseteq Nat
    OBVIOUS
  <1> HIDE DEF T
  <1>4. T = Nat
    BY <1>1, <1>2, <1>3, Induct
  <1>5. PICK f : Of(f, MaxSize + 2)
    BY <1>4, BelowAll DEF T
  <1>6. f = [t \in Subtree |-> SetAtBy(t, f[t.left], f[t.right])]
    BY <1>5, BelowAll
  <1> HIDE DEF Of
  <1>7. SetAtInternal = CHOOSE f_ : f_ = [t \in Subtree |-> SetAtBy(t, f_[t.left], f_[t.right])]
    BY DEF SetAtInternal, SetAtBy, SetAtNode
  <1> QED  BY <1>6, <1>7

RewriteBy(t, L, R) ==
    IF t = NODE_NULL THEN t ELSE [t EXCEPT !.left = L, !.value = Rewrite[@], !.right = R]

LEMMA RewriteInternalEquation == RewriteInternal = [t \in Subtree |-> RewriteBy(t, RewriteInternal[t.left], RewriteInternal[t.right])]
  <1> DEFINE Of(f, n) == f = [t \in Below(n) |-> RewriteBy(t, f[t.left], f[t.right])]
             T == {n \in Nat : n <= MaxSize + 2 => \E f : Of(f, n)}
  <1>0. MaxSize \in Nat
    BY OmtAssumption
  <1>1. 0 \in T
    <2>1. Below(0) = {}
      BY DEF Below
    <2> DEFINE f == [t \in Below(0) |-> NODE_NULL]
    <2>2. Of(f, 0)
      BY <2>1
    <2> QED  BY <2>2
  <1>2. ASSUME NEW n \in T PROVE n + 1 \in T
    <2> SUFFICES ASSUME n + 1 <= MaxSize + 2 PROVE \E f : Of(f, n + 1)
      OBVIOUS
    <2>1. n \in 0 .. MaxSize + 1
      BY <1>0
    <2>2. PICK f : Of(f, n)
      BY <2>1, <1>0
    <2> DEFINE g == [t \in Below(n + 1) |-> RewriteBy(t, f[t.left], f[t.right])]
    <2>3. \A t \in Below(n) : g[t] = f[t]
      BY <2>1, <2>2, BelowGrows
    <2>4. \A t \in Below(n + 1) :
             RewriteBy(t, f[t.left], f[t.right]) = RewriteBy(t, g[t.left], g[t.right])
      <3> SUFFICES ASSUME NEW t \in Below(n + 1)
                   PROVE  RewriteBy(t, f[t.left], f[t.right]) = RewriteBy(t, g[t.left], g[t.right])
        OBVIOUS
      <3>1. CASE t = NODE_NULL
        BY <3>1 DEF RewriteBy
      <3>2. CASE t # NODE_NULL
        <4>1. g[t.left] = f[t.left] /\ g[t.right] = f[t.right]
          BY <2>1, <2>3, <3>2, BelowGrows
        <4> QED  BY <4>1
      <3> QED  BY <3>1, <3>2
    <2>5. Of(g, n + 1)
      BY <2>4
    <2> QED  BY <2>5
  <1>3. T \subseteq Nat
    OBVIOUS
  <1> HIDE DEF T
  <1>4. T = Nat
    BY <1>1, <1>2, <1>3, Induct
  <1>5. PICK f : Of(f, MaxSize + 2)
    BY <1>4, BelowAll DEF T
  <1>6. f = [t \in Subtree |-> RewriteBy(t, f[t.left], f[t.right])]
    BY <1>5, BelowAll
  <1> HIDE DEF Of
  <1>7. RewriteInternal = CHOOSE f_ : f_ = [t \in Subtree |-> RewriteBy(t, f_[t.left], f_[t.right])]
    BY DEF RewriteInternal, RewriteBy
  <1> QED  BY <1>6, <1>7

MarkRangeNode(t, L, R, left, right, idx) ==
    IF t = NODE_NULL THEN t ELSE
    LET root == idx + t.left.weight
        goLeft == left < root /\ t.left # NODE_NULL
        goRight == root + 1 < right /\ t.right # NODE_NULL
    IN  [t EXCEPT !.below = @ \/ goLeft \/ goRight,
                  !.left = IF goLeft THEN L[left][right][idx] ELSE @,
                  !.marked = @ \/ (left <= root /\ root < right),
                  !.right = IF goRight THEN R[left][right][root + 1] ELSE @]
MarkRangeBy(t, L, R) ==
    [left \in Slot |-> [right \in Slot |-> [idx \in Slot |-> MarkRangeNode(t, L, R, left, right, idx)]]]

LEMMA MarkRangeEquation == MarkRange = [t \in Subtree |-> MarkRangeBy(t, MarkRange[t.left], MarkRange[t.right])]
  <1> DEFINE Of(f, n) == f = [t \in Below(n) |-> MarkRangeBy(t, f[t.left], f[t.right])]
             T == {n \in Nat : n <= MaxSize + 2 => \E f : Of(f, n)}
  <1>0. MaxSize \in Nat
    BY OmtAssumption
  <1>1. 0 \in T
    <2>1. Below(0) = {}
      BY DEF Below
    <2> DEFINE f == [t \in Below(0) |-> NODE_NULL]
    <2>2. Of(f, 0)
      BY <2>1
    <2> QED  BY <2>2
  <1>2. ASSUME NEW n \in T PROVE n + 1 \in T
    <2> SUFFICES ASSUME n + 1 <= MaxSize + 2 PROVE \E f : Of(f, n + 1)
      OBVIOUS
    <2>1. n \in 0 .. MaxSize + 1
      BY <1>0
    <2>2. PICK f : Of(f, n)
      BY <2>1, <1>0
    <2> DEFINE g == [t \in Below(n + 1) |-> MarkRangeBy(t, f[t.left], f[t.right])]
    <2>3. \A t \in Below(n) : g[t] = f[t]
      BY <2>1, <2>2, BelowGrows
    <2>4. \A t \in Below(n + 1) :
             MarkRangeBy(t, f[t.left], f[t.right]) = MarkRangeBy(t, g[t.left], g[t.right])
      <3> SUFFICES ASSUME NEW t \in Below(n + 1)
                   PROVE  MarkRangeBy(t, f[t.left], f[t.right]) = MarkRangeBy(t, g[t.left], g[t.right])
        OBVIOUS
      <3>1. CASE t = NODE_NULL
        BY <3>1, ZenonT(30) DEF MarkRangeBy, MarkRangeNode
      <3>2. CASE t # NODE_NULL
        <4>1. g[t.left] = f[t.left] /\ g[t.right] = f[t.right]
          BY <2>1, <2>3, <3>2, BelowGrows
        <4> QED  BY <4>1
      <3> QED  BY <3>1, <3>2
    <2>5. Of(g, n + 1)
      BY <2>4
    <2> QED  BY <2>5
  <1>3. T \subseteq Nat
    OBVIOUS
  <1> HIDE DEF T
  <1>4. T = Nat
    BY <1>1, <1>2, <1>3, Induct
  <1>5. PICK f : Of(f, MaxSize + 2)
    BY <1>4, BelowAll DEF T
  <1>6. f = [t \in Subtree |-> MarkRangeBy(t, f[t.left], f[t.right])]
    BY <1>5, BelowAll
  <1> HIDE DEF Of
  <1>7. MarkRange = CHOOSE f_ : f_ = [t \in Subtree |-> MarkRangeBy(t, f_[t.left], f_[t.right])]
    BY DEF MarkRange, MarkRangeBy, MarkRangeNode
  <1> QED  BY <1>6, <1>7

OverMarkedNode(t, L, R, idx) ==
    IF t = NODE_NULL THEN << >>
    ELSE LET root == idx + t.left.weight
         IN  (IF t.below THEN L[idx] ELSE << >>)
             \o (IF t.marked THEN <<root>> ELSE << >>)
             \o (IF t.below THEN R[root + 1] ELSE << >>)
OverMarkedBy(t, L, R) ==
    [idx \in Slot |-> OverMarkedNode(t, L, R, idx)]

LEMMA OverMarkedEquation == OverMarked = [t \in Subtree |-> OverMarkedBy(t, OverMarked[t.left], OverMarked[t.right])]
  <1> DEFINE Of(f, n) == f = [t \in Below(n) |-> OverMarkedBy(t, f[t.left], f[t.right])]
             T == {n \in Nat : n <= MaxSize + 2 => \E f : Of(f, n)}
  <1>0. MaxSize \in Nat
    BY OmtAssumption
  <1>1. 0 \in T
    <2>1. Below(0) = {}
      BY DEF Below
    <2> DEFINE f == [t \in Below(0) |-> NODE_NULL]
    <2>2. Of(f, 0)
      BY <2>1
    <2> QED  BY <2>2
  <1>2. ASSUME NEW n \in T PROVE n + 1 \in T
    <2> SUFFICES ASSUME n + 1 <= MaxSize + 2 PROVE \E f : Of(f, n + 1)
      OBVIOUS
    <2>1. n \in 0 .. MaxSize + 1
      BY <1>0
    <2>2. PICK f : Of(f, n)
      BY <2>1, <1>0
    <2> DEFINE g == [t \in Below(n + 1) |-> OverMarkedBy(t, f[t.left], f[t.right])]
    <2>3. \A t \in Below(n) : g[t] = f[t]
      BY <2>1, <2>2, BelowGrows
    <2>4. \A t \in Below(n + 1) :
             OverMarkedBy(t, f[t.left], f[t.right]) = OverMarkedBy(t, g[t.left], g[t.right])
      <3> SUFFICES ASSUME NEW t \in Below(n + 1)
                   PROVE  OverMarkedBy(t, f[t.left], f[t.right]) = OverMarkedBy(t, g[t.left], g[t.right])
        OBVIOUS
      <3>1. CASE t = NODE_NULL
        BY <3>1 DEF OverMarkedBy, OverMarkedNode
      <3>2. CASE t # NODE_NULL
        <4>1. g[t.left] = f[t.left] /\ g[t.right] = f[t.right]
          BY <2>1, <2>3, <3>2, BelowGrows
        <4> QED  BY <4>1
      <3> QED  BY <3>1, <3>2
    <2>5. Of(g, n + 1)
      BY <2>4
    <2> QED  BY <2>5
  <1>3. T \subseteq Nat
    OBVIOUS
  <1> HIDE DEF T
  <1>4. T = Nat
    BY <1>1, <1>2, <1>3, Induct
  <1>5. PICK f : Of(f, MaxSize + 2)
    BY <1>4, BelowAll DEF T
  <1>6. f = [t \in Subtree |-> OverMarkedBy(t, f[t.left], f[t.right])]
    BY <1>5, BelowAll
  <1> HIDE DEF Of
  <1>7. OverMarked = CHOOSE f_ : f_ = [t \in Subtree |-> OverMarkedBy(t, f_[t.left], f_[t.right])]
    BY DEF OverMarked, OverMarkedBy, OverMarkedNode
  <1> QED  BY <1>6, <1>7

UnmarkBy(t, L, R) ==
    IF t = NODE_NULL THEN t
    ELSE ClearStolenBits([t EXCEPT !.left = IF t.below THEN L ELSE @,
                                   !.right = IF t.below THEN R ELSE @])

LEMMA UnmarkEquation == Unmark = [t \in Subtree |-> UnmarkBy(t, Unmark[t.left], Unmark[t.right])]
  <1> DEFINE Of(f, n) == f = [t \in Below(n) |-> UnmarkBy(t, f[t.left], f[t.right])]
             T == {n \in Nat : n <= MaxSize + 2 => \E f : Of(f, n)}
  <1>0. MaxSize \in Nat
    BY OmtAssumption
  <1>1. 0 \in T
    <2>1. Below(0) = {}
      BY DEF Below
    <2> DEFINE f == [t \in Below(0) |-> NODE_NULL]
    <2>2. Of(f, 0)
      BY <2>1
    <2> QED  BY <2>2
  <1>2. ASSUME NEW n \in T PROVE n + 1 \in T
    <2> SUFFICES ASSUME n + 1 <= MaxSize + 2 PROVE \E f : Of(f, n + 1)
      OBVIOUS
    <2>1. n \in 0 .. MaxSize + 1
      BY <1>0
    <2>2. PICK f : Of(f, n)
      BY <2>1, <1>0
    <2> DEFINE g == [t \in Below(n + 1) |-> UnmarkBy(t, f[t.left], f[t.right])]
    <2>3. \A t \in Below(n) : g[t] = f[t]
      BY <2>1, <2>2, BelowGrows
    <2>4. \A t \in Below(n + 1) :
             UnmarkBy(t, f[t.left], f[t.right]) = UnmarkBy(t, g[t.left], g[t.right])
      <3> SUFFICES ASSUME NEW t \in Below(n + 1)
                   PROVE  UnmarkBy(t, f[t.left], f[t.right]) = UnmarkBy(t, g[t.left], g[t.right])
        OBVIOUS
      <3>1. CASE t = NODE_NULL
        BY <3>1 DEF UnmarkBy
      <3>2. CASE t # NODE_NULL
        <4>1. g[t.left] = f[t.left] /\ g[t.right] = f[t.right]
          BY <2>1, <2>3, <3>2, BelowGrows
        <4> QED  BY <4>1
      <3> QED  BY <3>1, <3>2
    <2>5. Of(g, n + 1)
      BY <2>4
    <2> QED  BY <2>5
  <1>3. T \subseteq Nat
    OBVIOUS
  <1> HIDE DEF T
  <1>4. T = Nat
    BY <1>1, <1>2, <1>3, Induct
  <1>5. PICK f : Of(f, MaxSize + 2)
    BY <1>4, BelowAll DEF T
  <1>6. f = [t \in Subtree |-> UnmarkBy(t, f[t.left], f[t.right])]
    BY <1>5, BelowAll
  <1> HIDE DEF Of
  <1>7. Unmark = CHOOSE f_ : f_ = [t \in Subtree |-> UnmarkBy(t, f_[t.left], f_[t.right])]
    BY DEF Unmark, UnmarkBy
  <1> QED  BY <1>6, <1>7

NodesBy(t, L, R) ==
    IF t = NODE_NULL THEN {} ELSE {t} \cup L \cup R

LEMMA NodesEquation == Nodes = [t \in Subtree |-> NodesBy(t, Nodes[t.left], Nodes[t.right])]
  <1> DEFINE Of(f, n) == f = [t \in Below(n) |-> NodesBy(t, f[t.left], f[t.right])]
             T == {n \in Nat : n <= MaxSize + 2 => \E f : Of(f, n)}
  <1>0. MaxSize \in Nat
    BY OmtAssumption
  <1>1. 0 \in T
    <2>1. Below(0) = {}
      BY DEF Below
    <2> DEFINE f == [t \in Below(0) |-> NODE_NULL]
    <2>2. Of(f, 0)
      BY <2>1
    <2> QED  BY <2>2
  <1>2. ASSUME NEW n \in T PROVE n + 1 \in T
    <2> SUFFICES ASSUME n + 1 <= MaxSize + 2 PROVE \E f : Of(f, n + 1)
      OBVIOUS
    <2>1. n \in 0 .. MaxSize + 1
      BY <1>0
    <2>2. PICK f : Of(f, n)
      BY <2>1, <1>0
    <2> DEFINE g == [t \in Below(n + 1) |-> NodesBy(t, f[t.left], f[t.right])]
    <2>3. \A t \in Below(n) : g[t] = f[t]
      BY <2>1, <2>2, BelowGrows
    <2>4. \A t \in Below(n + 1) :
             NodesBy(t, f[t.left], f[t.right]) = NodesBy(t, g[t.left], g[t.right])
      <3> SUFFICES ASSUME NEW t \in Below(n + 1)
                   PROVE  NodesBy(t, f[t.left], f[t.right]) = NodesBy(t, g[t.left], g[t.right])
        OBVIOUS
      <3>1. CASE t = NODE_NULL
        BY <3>1 DEF NodesBy
      <3>2. CASE t # NODE_NULL
        <4>1. g[t.left] = f[t.left] /\ g[t.right] = f[t.right]
          BY <2>1, <2>3, <3>2, BelowGrows
        <4> QED  BY <4>1
      <3> QED  BY <3>1, <3>2
    <2>5. Of(g, n + 1)
      BY <2>4
    <2> QED  BY <2>5
  <1>3. T \subseteq Nat
    OBVIOUS
  <1> HIDE DEF T
  <1>4. T = Nat
    BY <1>1, <1>2, <1>3, Induct
  <1>5. PICK f : Of(f, MaxSize + 2)
    BY <1>4, BelowAll DEF T
  <1>6. f = [t \in Subtree |-> NodesBy(t, f[t.left], f[t.right])]
    BY <1>5, BelowAll
  <1> HIDE DEF Of
  <1>7. Nodes = CHOOSE f_ : f_ = [t \in Subtree |-> NodesBy(t, f_[t.left], f_[t.right])]
    BY DEF Nodes, NodesBy
  <1> QED  BY <1>6, <1>7

MarkedSlotsNode(t, L, R, idx) ==
    IF t = NODE_NULL THEN {}
    ELSE LET root == idx + t.left.weight
         IN  L[idx] \cup (IF t.marked THEN {root} ELSE {}) \cup R[root + 1]
MarkedSlotsBy(t, L, R) ==
    [idx \in Slot |-> MarkedSlotsNode(t, L, R, idx)]

LEMMA MarkedSlotsEquation == MarkedSlots = [t \in Subtree |-> MarkedSlotsBy(t, MarkedSlots[t.left], MarkedSlots[t.right])]
  <1> DEFINE Of(f, n) == f = [t \in Below(n) |-> MarkedSlotsBy(t, f[t.left], f[t.right])]
             T == {n \in Nat : n <= MaxSize + 2 => \E f : Of(f, n)}
  <1>0. MaxSize \in Nat
    BY OmtAssumption
  <1>1. 0 \in T
    <2>1. Below(0) = {}
      BY DEF Below
    <2> DEFINE f == [t \in Below(0) |-> NODE_NULL]
    <2>2. Of(f, 0)
      BY <2>1
    <2> QED  BY <2>2
  <1>2. ASSUME NEW n \in T PROVE n + 1 \in T
    <2> SUFFICES ASSUME n + 1 <= MaxSize + 2 PROVE \E f : Of(f, n + 1)
      OBVIOUS
    <2>1. n \in 0 .. MaxSize + 1
      BY <1>0
    <2>2. PICK f : Of(f, n)
      BY <2>1, <1>0
    <2> DEFINE g == [t \in Below(n + 1) |-> MarkedSlotsBy(t, f[t.left], f[t.right])]
    <2>3. \A t \in Below(n) : g[t] = f[t]
      BY <2>1, <2>2, BelowGrows
    <2>4. \A t \in Below(n + 1) :
             MarkedSlotsBy(t, f[t.left], f[t.right]) = MarkedSlotsBy(t, g[t.left], g[t.right])
      <3> SUFFICES ASSUME NEW t \in Below(n + 1)
                   PROVE  MarkedSlotsBy(t, f[t.left], f[t.right]) = MarkedSlotsBy(t, g[t.left], g[t.right])
        OBVIOUS
      <3>1. CASE t = NODE_NULL
        BY <3>1 DEF MarkedSlotsBy, MarkedSlotsNode
      <3>2. CASE t # NODE_NULL
        <4>1. g[t.left] = f[t.left] /\ g[t.right] = f[t.right]
          BY <2>1, <2>3, <3>2, BelowGrows
        <4> QED  BY <4>1
      <3> QED  BY <3>1, <3>2
    <2>5. Of(g, n + 1)
      BY <2>4
    <2> QED  BY <2>5
  <1>3. T \subseteq Nat
    OBVIOUS
  <1> HIDE DEF T
  <1>4. T = Nat
    BY <1>1, <1>2, <1>3, Induct
  <1>5. PICK f : Of(f, MaxSize + 2)
    BY <1>4, BelowAll DEF T
  <1>6. f = [t \in Subtree |-> MarkedSlotsBy(t, f[t.left], f[t.right])]
    BY <1>5, BelowAll
  <1> HIDE DEF Of
  <1>7. MarkedSlots = CHOOSE f_ : f_ = [t \in Subtree |-> MarkedSlotsBy(t, f_[t.left], f_[t.right])]
    BY DEF MarkedSlots, MarkedSlotsBy, MarkedSlotsNode
  <1> QED  BY <1>6, <1>7

FindZeroNode(t, L, R, k) ==
    IF t = NODE_NULL THEN [found |-> FALSE, idx |-> 0]
    ELSE LET hv == h(t.value, k)
         IN  IF hv < 0 THEN [R[k] EXCEPT !.idx = @ + t.left.weight + 1]
             ELSE IF hv = 0 /\ ~L[k].found THEN [found |-> TRUE, idx |-> t.left.weight]
             ELSE L[k]
FindZeroBy(t, L, R) ==
    [k \in Value |-> FindZeroNode(t, L, R, k)]

LEMMA FindZeroTreeEquation == FindZeroTree = [t \in Subtree |-> FindZeroBy(t, FindZeroTree[t.left], FindZeroTree[t.right])]
  <1> DEFINE Of(f, n) == f = [t \in Below(n) |-> FindZeroBy(t, f[t.left], f[t.right])]
             T == {n \in Nat : n <= MaxSize + 2 => \E f : Of(f, n)}
  <1>0. MaxSize \in Nat
    BY OmtAssumption
  <1>1. 0 \in T
    <2>1. Below(0) = {}
      BY DEF Below
    <2> DEFINE f == [t \in Below(0) |-> NODE_NULL]
    <2>2. Of(f, 0)
      BY <2>1
    <2> QED  BY <2>2
  <1>2. ASSUME NEW n \in T PROVE n + 1 \in T
    <2> SUFFICES ASSUME n + 1 <= MaxSize + 2 PROVE \E f : Of(f, n + 1)
      OBVIOUS
    <2>1. n \in 0 .. MaxSize + 1
      BY <1>0
    <2>2. PICK f : Of(f, n)
      BY <2>1, <1>0
    <2> DEFINE g == [t \in Below(n + 1) |-> FindZeroBy(t, f[t.left], f[t.right])]
    <2>3. \A t \in Below(n) : g[t] = f[t]
      BY <2>1, <2>2, BelowGrows
    <2>4. \A t \in Below(n + 1) :
             FindZeroBy(t, f[t.left], f[t.right]) = FindZeroBy(t, g[t.left], g[t.right])
      <3> SUFFICES ASSUME NEW t \in Below(n + 1)
                   PROVE  FindZeroBy(t, f[t.left], f[t.right]) = FindZeroBy(t, g[t.left], g[t.right])
        OBVIOUS
      <3>1. CASE t = NODE_NULL
        BY <3>1 DEF FindZeroBy, FindZeroNode
      <3>2. CASE t # NODE_NULL
        <4>1. g[t.left] = f[t.left] /\ g[t.right] = f[t.right]
          BY <2>1, <2>3, <3>2, BelowGrows
        <4> QED  BY <4>1
      <3> QED  BY <3>1, <3>2
    <2>5. Of(g, n + 1)
      BY <2>4
    <2> QED  BY <2>5
  <1>3. T \subseteq Nat
    OBVIOUS
  <1> HIDE DEF T
  <1>4. T = Nat
    BY <1>1, <1>2, <1>3, Induct
  <1>5. PICK f : Of(f, MaxSize + 2)
    BY <1>4, BelowAll DEF T
  <1>6. f = [t \in Subtree |-> FindZeroBy(t, f[t.left], f[t.right])]
    BY <1>5, BelowAll
  <1> HIDE DEF Of
  <1>7. FindZeroTree = CHOOSE f_ : f_ = [t \in Subtree |-> FindZeroBy(t, f_[t.left], f_[t.right])]
    BY DEF FindZeroTree, FindZeroBy, FindZeroNode
  <1> QED  BY <1>6, <1>7

FindPlusNode(t, L, R, k) ==
    IF t = NODE_NULL THEN -1
    ELSE LET below == IF h(t.value, k) > 0 THEN L[k] ELSE R[k]
         IN  IF h(t.value, k) > 0
             THEN IF below = -1 THEN t.left.weight ELSE below
             ELSE IF below = -1 THEN -1 ELSE below + t.left.weight + 1
FindPlusBy(t, L, R) ==
    [k \in Value |-> FindPlusNode(t, L, R, k)]

LEMMA FindPlusTreeEquation == FindPlusTree = [t \in Subtree |-> FindPlusBy(t, FindPlusTree[t.left], FindPlusTree[t.right])]
  <1> DEFINE Of(f, n) == f = [t \in Below(n) |-> FindPlusBy(t, f[t.left], f[t.right])]
             T == {n \in Nat : n <= MaxSize + 2 => \E f : Of(f, n)}
  <1>0. MaxSize \in Nat
    BY OmtAssumption
  <1>1. 0 \in T
    <2>1. Below(0) = {}
      BY DEF Below
    <2> DEFINE f == [t \in Below(0) |-> NODE_NULL]
    <2>2. Of(f, 0)
      BY <2>1
    <2> QED  BY <2>2
  <1>2. ASSUME NEW n \in T PROVE n + 1 \in T
    <2> SUFFICES ASSUME n + 1 <= MaxSize + 2 PROVE \E f : Of(f, n + 1)
      OBVIOUS
    <2>1. n \in 0 .. MaxSize + 1
      BY <1>0
    <2>2. PICK f : Of(f, n)
      BY <2>1, <1>0
    <2> DEFINE g == [t \in Below(n + 1) |-> FindPlusBy(t, f[t.left], f[t.right])]
    <2>3. \A t \in Below(n) : g[t] = f[t]
      BY <2>1, <2>2, BelowGrows
    <2>4. \A t \in Below(n + 1) :
             FindPlusBy(t, f[t.left], f[t.right]) = FindPlusBy(t, g[t.left], g[t.right])
      <3> SUFFICES ASSUME NEW t \in Below(n + 1)
                   PROVE  FindPlusBy(t, f[t.left], f[t.right]) = FindPlusBy(t, g[t.left], g[t.right])
        OBVIOUS
      <3>1. CASE t = NODE_NULL
        BY <3>1 DEF FindPlusBy, FindPlusNode
      <3>2. CASE t # NODE_NULL
        <4>1. g[t.left] = f[t.left] /\ g[t.right] = f[t.right]
          BY <2>1, <2>3, <3>2, BelowGrows
        <4> QED  BY <4>1
      <3> QED  BY <3>1, <3>2
    <2>5. Of(g, n + 1)
      BY <2>4
    <2> QED  BY <2>5
  <1>3. T \subseteq Nat
    OBVIOUS
  <1> HIDE DEF T
  <1>4. T = Nat
    BY <1>1, <1>2, <1>3, Induct
  <1>5. PICK f : Of(f, MaxSize + 2)
    BY <1>4, BelowAll DEF T
  <1>6. f = [t \in Subtree |-> FindPlusBy(t, f[t.left], f[t.right])]
    BY <1>5, BelowAll
  <1> HIDE DEF Of
  <1>7. FindPlusTree = CHOOSE f_ : f_ = [t \in Subtree |-> FindPlusBy(t, f_[t.left], f_[t.right])]
    BY DEF FindPlusTree, FindPlusBy, FindPlusNode
  <1> QED  BY <1>6, <1>7

FindMinusNode(t, L, R, k) ==
    IF t = NODE_NULL THEN -1
    ELSE IF h(t.value, k) < 0
         THEN LET below == R[k]
              IN  IF below = -1 THEN t.left.weight ELSE below + t.left.weight + 1
         ELSE L[k]
FindMinusBy(t, L, R) ==
    [k \in Value |-> FindMinusNode(t, L, R, k)]

LEMMA FindMinusTreeEquation == FindMinusTree = [t \in Subtree |-> FindMinusBy(t, FindMinusTree[t.left], FindMinusTree[t.right])]
  <1> DEFINE Of(f, n) == f = [t \in Below(n) |-> FindMinusBy(t, f[t.left], f[t.right])]
             T == {n \in Nat : n <= MaxSize + 2 => \E f : Of(f, n)}
  <1>0. MaxSize \in Nat
    BY OmtAssumption
  <1>1. 0 \in T
    <2>1. Below(0) = {}
      BY DEF Below
    <2> DEFINE f == [t \in Below(0) |-> NODE_NULL]
    <2>2. Of(f, 0)
      BY <2>1
    <2> QED  BY <2>2
  <1>2. ASSUME NEW n \in T PROVE n + 1 \in T
    <2> SUFFICES ASSUME n + 1 <= MaxSize + 2 PROVE \E f : Of(f, n + 1)
      OBVIOUS
    <2>1. n \in 0 .. MaxSize + 1
      BY <1>0
    <2>2. PICK f : Of(f, n)
      BY <2>1, <1>0
    <2> DEFINE g == [t \in Below(n + 1) |-> FindMinusBy(t, f[t.left], f[t.right])]
    <2>3. \A t \in Below(n) : g[t] = f[t]
      BY <2>1, <2>2, BelowGrows
    <2>4. \A t \in Below(n + 1) :
             FindMinusBy(t, f[t.left], f[t.right]) = FindMinusBy(t, g[t.left], g[t.right])
      <3> SUFFICES ASSUME NEW t \in Below(n + 1)
                   PROVE  FindMinusBy(t, f[t.left], f[t.right]) = FindMinusBy(t, g[t.left], g[t.right])
        OBVIOUS
      <3>1. CASE t = NODE_NULL
        BY <3>1 DEF FindMinusBy, FindMinusNode
      <3>2. CASE t # NODE_NULL
        <4>1. g[t.left] = f[t.left] /\ g[t.right] = f[t.right]
          BY <2>1, <2>3, <3>2, BelowGrows
        <4> QED  BY <4>1
      <3> QED  BY <3>1, <3>2
    <2>5. Of(g, n + 1)
      BY <2>4
    <2> QED  BY <2>5
  <1>3. T \subseteq Nat
    OBVIOUS
  <1> HIDE DEF T
  <1>4. T = Nat
    BY <1>1, <1>2, <1>3, Induct
  <1>5. PICK f : Of(f, MaxSize + 2)
    BY <1>4, BelowAll DEF T
  <1>6. f = [t \in Subtree |-> FindMinusBy(t, f[t.left], f[t.right])]
    BY <1>5, BelowAll
  <1> HIDE DEF Of
  <1>7. FindMinusTree = CHOOSE f_ : f_ = [t \in Subtree |-> FindMinusBy(t, f_[t.left], f_[t.right])]
    BY DEF FindMinusTree, FindMinusBy, FindMinusNode
  <1> QED  BY <1>6, <1>7

FetchNode(t, L, R, i) ==
    IF t = NODE_NULL THEN Absent
    ELSE IF i < t.left.weight THEN L[i]
    ELSE IF i = t.left.weight THEN t.value
    ELSE R[i - t.left.weight - 1]
FetchBy(t, L, R) ==
    [i \in Slot |-> FetchNode(t, L, R, i)]

LEMMA FetchInternalEquation == FetchInternal = [t \in Subtree |-> FetchBy(t, FetchInternal[t.left], FetchInternal[t.right])]
  <1> DEFINE Of(f, n) == f = [t \in Below(n) |-> FetchBy(t, f[t.left], f[t.right])]
             T == {n \in Nat : n <= MaxSize + 2 => \E f : Of(f, n)}
  <1>0. MaxSize \in Nat
    BY OmtAssumption
  <1>1. 0 \in T
    <2>1. Below(0) = {}
      BY DEF Below
    <2> DEFINE f == [t \in Below(0) |-> NODE_NULL]
    <2>2. Of(f, 0)
      BY <2>1
    <2> QED  BY <2>2
  <1>2. ASSUME NEW n \in T PROVE n + 1 \in T
    <2> SUFFICES ASSUME n + 1 <= MaxSize + 2 PROVE \E f : Of(f, n + 1)
      OBVIOUS
    <2>1. n \in 0 .. MaxSize + 1
      BY <1>0
    <2>2. PICK f : Of(f, n)
      BY <2>1, <1>0
    <2> DEFINE g == [t \in Below(n + 1) |-> FetchBy(t, f[t.left], f[t.right])]
    <2>3. \A t \in Below(n) : g[t] = f[t]
      BY <2>1, <2>2, BelowGrows
    <2>4. \A t \in Below(n + 1) :
             FetchBy(t, f[t.left], f[t.right]) = FetchBy(t, g[t.left], g[t.right])
      <3> SUFFICES ASSUME NEW t \in Below(n + 1)
                   PROVE  FetchBy(t, f[t.left], f[t.right]) = FetchBy(t, g[t.left], g[t.right])
        OBVIOUS
      <3>1. CASE t = NODE_NULL
        BY <3>1 DEF FetchBy, FetchNode
      <3>2. CASE t # NODE_NULL
        <4>1. g[t.left] = f[t.left] /\ g[t.right] = f[t.right]
          BY <2>1, <2>3, <3>2, BelowGrows
        <4> QED  BY <4>1
      <3> QED  BY <3>1, <3>2
    <2>5. Of(g, n + 1)
      BY <2>4
    <2> QED  BY <2>5
  <1>3. T \subseteq Nat
    OBVIOUS
  <1> HIDE DEF T
  <1>4. T = Nat
    BY <1>1, <1>2, <1>3, Induct
  <1>5. PICK f : Of(f, MaxSize + 2)
    BY <1>4, BelowAll DEF T
  <1>6. f = [t \in Subtree |-> FetchBy(t, f[t.left], f[t.right])]
    BY <1>5, BelowAll
  <1> HIDE DEF Of
  <1>7. FetchInternal = CHOOSE f_ : f_ = [t \in Subtree |-> FetchBy(t, f_[t.left], f_[t.right])]
    BY DEF FetchInternal, FetchBy, FetchNode
  <1> QED  BY <1>6, <1>7

IterateNode(t, L, R, left, right, idx) ==
    IF t = NODE_NULL THEN << >>
    ELSE LET root == idx + t.left.weight
         IN  (IF left < root THEN L[left][right][idx] ELSE << >>)
             \o (IF left <= root /\ root < right THEN <<t.value>> ELSE << >>)
             \o (IF root + 1 < right THEN R[left][right][root + 1] ELSE << >>)
IterateBy(t, L, R) ==
    [left \in Slot |-> [right \in Slot |-> [idx \in Slot |-> IterateNode(t, L, R, left, right, idx)]]]

LEMMA IterateTreeEquation == IterateTree = [t \in Subtree |-> IterateBy(t, IterateTree[t.left], IterateTree[t.right])]
  <1> DEFINE Of(f, n) == f = [t \in Below(n) |-> IterateBy(t, f[t.left], f[t.right])]
             T == {n \in Nat : n <= MaxSize + 2 => \E f : Of(f, n)}
  <1>0. MaxSize \in Nat
    BY OmtAssumption
  <1>1. 0 \in T
    <2>1. Below(0) = {}
      BY DEF Below
    <2> DEFINE f == [t \in Below(0) |-> NODE_NULL]
    <2>2. Of(f, 0)
      BY <2>1
    <2> QED  BY <2>2
  <1>2. ASSUME NEW n \in T PROVE n + 1 \in T
    <2> SUFFICES ASSUME n + 1 <= MaxSize + 2 PROVE \E f : Of(f, n + 1)
      OBVIOUS
    <2>1. n \in 0 .. MaxSize + 1
      BY <1>0
    <2>2. PICK f : Of(f, n)
      BY <2>1, <1>0
    <2> DEFINE g == [t \in Below(n + 1) |-> IterateBy(t, f[t.left], f[t.right])]
    <2>3. \A t \in Below(n) : g[t] = f[t]
      BY <2>1, <2>2, BelowGrows
    <2>4. \A t \in Below(n + 1) :
             IterateBy(t, f[t.left], f[t.right]) = IterateBy(t, g[t.left], g[t.right])
      <3> SUFFICES ASSUME NEW t \in Below(n + 1)
                   PROVE  IterateBy(t, f[t.left], f[t.right]) = IterateBy(t, g[t.left], g[t.right])
        OBVIOUS
      <3>1. CASE t = NODE_NULL
        BY <3>1, Zenon DEF IterateBy, IterateNode
      <3>2. CASE t # NODE_NULL
        <4>1. g[t.left] = f[t.left] /\ g[t.right] = f[t.right]
          BY <2>1, <2>3, <3>2, BelowGrows
        <4> QED  BY <4>1
      <3> QED  BY <3>1, <3>2
    <2>5. Of(g, n + 1)
      BY <2>4
    <2> QED  BY <2>5
  <1>3. T \subseteq Nat
    OBVIOUS
  <1> HIDE DEF T
  <1>4. T = Nat
    BY <1>1, <1>2, <1>3, Induct
  <1>5. PICK f : Of(f, MaxSize + 2)
    BY <1>4, BelowAll DEF T
  <1>6. f = [t \in Subtree |-> IterateBy(t, f[t.left], f[t.right])]
    BY <1>5, BelowAll
  <1> HIDE DEF Of
  <1>7. IterateTree = CHOOSE f_ : f_ = [t \in Subtree |-> IterateBy(t, f_[t.left], f_[t.right])]
    BY DEF IterateTree, IterateBy, IterateNode
  <1> QED  BY <1>6, <1>7

-----------------------------------------------------------------------------
(* Sequences                                                               *)

Mid(L, x, R) == L \o <<x>> \o R
Spliced(w, L, x, R) ==
    /\ Len(w) = Len(L) + 1 + Len(R)
    /\ \A k \in 1 .. Len(L) + 1 + Len(R) :
          w[k] = IF k <= Len(L) THEN L[k] ELSE IF k = Len(L) + 1 THEN x ELSE R[k - Len(L) - 1]

LEMMA MidIs ==
    ASSUME NEW X, NEW L \in Seq(X), NEW R \in Seq(X), NEW x \in X
    PROVE  Mid(L, x, R) \in Seq(X) /\ Spliced(Mid(L, x, R), L, x, R)
  <1> DEFINE b == <<x>>
             u == L \o b
             w == u \o R
  <1>1. b \in Seq(X) /\ Len(b) = 1 /\ b[1] = x
    OBVIOUS
  <1>2. Len(L) \in Nat /\ Len(R) \in Nat
    OBVIOUS
  <1> HIDE DEF b
  <1>3. /\ u \in Seq(X) /\ Len(u) = Len(L) + 1
        /\ \A k \in 1 .. Len(L) + 1 : u[k] = IF k <= Len(L) THEN L[k] ELSE b[k - Len(L)]
    BY <1>1, ConcatProperties
  <1> HIDE DEF u
  <1>4. /\ w \in Seq(X) /\ Len(w) = Len(L) + 1 + Len(R)
        /\ \A k \in 1 .. Len(L) + 1 + Len(R) :
              w[k] = IF k <= Len(L) + 1 THEN u[k] ELSE R[k - (Len(L) + 1)]
    <2>0. u \in Seq(X)
      BY <1>3
    <2>1. /\ w \in Seq(X) /\ Len(w) = Len(u) + Len(R)
          /\ \A k \in 1 .. Len(u) + Len(R) :
                w[k] = IF k <= Len(u) THEN u[k] ELSE R[k - Len(u)]
      BY <2>0, ConcatProperties
    <2> HIDE DEF w
    <2> QED  BY <1>3, <2>1
  <1>5. w = Mid(L, x, R)
    BY DEF Mid, w, u, b
  <1> HIDE DEF w
  <1>6. \A k \in 1 .. Len(L) + 1 + Len(R) :
           w[k] = IF k <= Len(L) THEN L[k] ELSE IF k = Len(L) + 1 THEN x ELSE R[k - Len(L) - 1]
    <2> SUFFICES ASSUME NEW k \in 1 .. Len(L) + 1 + Len(R)
                 PROVE  w[k] = IF k <= Len(L) THEN L[k]
                               ELSE IF k = Len(L) + 1 THEN x ELSE R[k - Len(L) - 1]
      OBVIOUS
    <2>1. CASE k <= Len(L)
      <3>1. k \in 1 .. Len(L) + 1 /\ k <= Len(L) + 1
        BY <1>2, <2>1
      <3> QED  BY <1>3, <1>4, <2>1, <3>1
    <2>2. CASE k = Len(L) + 1
      <3>1. k \in 1 .. Len(L) + 1 /\ ~(k <= Len(L)) /\ k - Len(L) = 1 /\ k <= Len(L) + 1
        BY <1>2, <2>2
      <3> QED  BY <1>1, <1>3, <1>4, <2>2, <3>1
    <2>3. CASE k > Len(L) + 1
      <3>1. ~(k <= Len(L)) /\ k # Len(L) + 1 /\ k - (Len(L) + 1) = k - Len(L) - 1 /\ ~(k <= Len(L) + 1)
        BY <1>2, <2>3
      <3> QED  BY <1>4, <3>1
    <2> QED  BY <1>2, <2>1, <2>2, <2>3
  <1> QED  BY <1>4, <1>5, <1>6 DEF Spliced

LEMMA SameSequence ==
    ASSUME NEW X, NEW T, NEW s \in Seq(X), NEW t \in Seq(T), Len(s) = Len(t),
           \A k \in 1 .. Len(s) : s[k] = t[k]
    PROVE  s = t
  OBVIOUS

LEMMA Parted ==
    ASSUME NEW X, NEW s \in Seq(X), NEW i \in Nat, i < Len(s)
    PROVE  /\ SubSeq(s, 1, i) \in Seq(X) /\ Len(SubSeq(s, 1, i)) = i
           /\ SubSeq(s, i + 2, Len(s)) \in Seq(X) /\ Len(SubSeq(s, i + 2, Len(s))) = Len(s) - i - 1
           /\ s[i + 1] \in X
           /\ s = Mid(SubSeq(s, 1, i), s[i + 1], SubSeq(s, i + 2, Len(s)))
  <1> DEFINE a == SubSeq(s, 1, i)
             c == SubSeq(s, i + 2, Len(s))
             w == Mid(a, s[i + 1], c)
  <1>1. a \in Seq(X) /\ Len(a) = i /\ \A k \in 1 .. i : a[k] = s[k]
    OBVIOUS
  <1>2. c \in Seq(X) /\ Len(c) = Len(s) - i - 1 /\ \A k \in 1 .. Len(s) - i - 1 : c[k] = s[i + 1 + k]
    OBVIOUS
  <1>3. s[i + 1] \in X /\ Len(s) \in Nat
    OBVIOUS
  <1> HIDE DEF a, c
  <1>4. w \in Seq(X) /\ Spliced(w, a, s[i + 1], c)
    BY <1>1, <1>2, <1>3, MidIs
  <1> HIDE DEF w
  <1>5. Len(w) = Len(s)
    BY <1>1, <1>2, <1>3, <1>4 DEF Spliced
  <1>6. \A k \in 1 .. Len(w) : w[k] = s[k]
    <2> SUFFICES ASSUME NEW k \in 1 .. Len(s) PROVE w[k] = s[k]
      BY <1>5
    <2>1. w[k] = IF k <= i THEN a[k] ELSE IF k = i + 1 THEN s[i + 1] ELSE c[k - i - 1]
      <3>1. k \in 1 .. Len(a) + 1 + Len(c) /\ Len(a) = i
        BY <1>1, <1>2, <1>3
      <3> QED  BY <1>4, <3>1 DEF Spliced
    <2>2. CASE k <= i
      BY <1>1, <2>1, <2>2
    <2>3. CASE k = i + 1
      BY <2>1, <2>3
    <2>4. CASE k > i + 1
      <3>1. k - i - 1 \in 1 .. Len(s) - i - 1 /\ i + 1 + (k - i - 1) = k
        BY <1>3, <2>4
      <3> QED  BY <1>2, <2>1, <2>4, <3>1
    <2> QED  BY <2>2, <2>3, <2>4
  <1>7. w = s
    BY <1>4, <1>5, <1>6, SameSequence
  <1> QED  BY <1>1, <1>2, <1>3, <1>7 DEF a, c, w

-----------------------------------------------------------------------------
(* Rebuilding                                                              *)

RebuildBy(s, f) ==
    IF s = << >> THEN NODE_NULL
    ELSE LET halfway == Len(s) \div 2
         IN  Node(Len(s), f[SubSeq(s, 1, halfway)], s[halfway + 1],
                  f[SubSeq(s, halfway + 2, Len(s))])

Shorter(n) == {s \in Seq(Value) : Len(s) < n}

LEMMA Halves ==
    ASSUME NEW n \in Nat, NEW s \in Shorter(n + 1), s # << >>
    PROVE  /\ Len(s) \div 2 \in Nat /\ Len(s) \div 2 < Len(s)
           /\ SubSeq(s, 1, Len(s) \div 2) \in Shorter(n)
           /\ SubSeq(s, Len(s) \div 2 + 2, Len(s)) \in Shorter(n)
  <1>1. s \in Seq(Value) /\ Len(s) \in Nat /\ Len(s) < n + 1 /\ Len(s) # 0
    BY DEF Shorter
  <1> DEFINE i == Len(s) \div 2
  <1>2. i \in Nat /\ i < Len(s)
    BY <1>1
  <1> HIDE DEF i
  <1>3. /\ SubSeq(s, 1, i) \in Seq(Value) /\ Len(SubSeq(s, 1, i)) = i
        /\ SubSeq(s, i + 2, Len(s)) \in Seq(Value)
        /\ Len(SubSeq(s, i + 2, Len(s))) = Len(s) - i - 1
    BY <1>1, <1>2, Parted
  <1>4. i < n /\ Len(s) - i - 1 < n
    BY <1>1, <1>2
  <1> QED  BY <1>2, <1>3, <1>4 DEF Shorter, i

LEMMA RebuildEquation == Rebuild = [s \in Sequence |-> RebuildBy(s, Rebuild)]
  <1> DEFINE Of(f, n) == f = [s \in Shorter(n) |-> RebuildBy(s, f)]
             T == {n \in Nat : \E f : Of(f, n)}
  <1>0. MaxSize \in Nat
    BY OmtAssumption
  <1>1. 0 \in T
    <2>1. Shorter(0) = {}
      BY DEF Shorter
    <2> DEFINE f == [s \in Shorter(0) |-> NODE_NULL]
    <2>2. Of(f, 0)
      BY <2>1
    <2> QED  BY <2>2
  <1>2. ASSUME NEW n \in T PROVE n + 1 \in T
    <2>2. PICK f : Of(f, n)
      OBVIOUS
    <2> DEFINE g == [s \in Shorter(n + 1) |-> RebuildBy(s, f)]
    <2>3. \A s \in Shorter(n) : g[s] = f[s]
      <3>1. Shorter(n) \subseteq Shorter(n + 1)
        BY DEF Shorter
      <3> QED  BY <2>2, <3>1
    <2>4. \A s \in Shorter(n + 1) : RebuildBy(s, f) = RebuildBy(s, g)
      <3> SUFFICES ASSUME NEW s \in Shorter(n + 1)
                   PROVE  RebuildBy(s, f) = RebuildBy(s, g)
        OBVIOUS
      <3>1. CASE s = << >>
        BY <3>1 DEF RebuildBy
      <3>2. CASE s # << >>
        <4> DEFINE a == SubSeq(s, 1, Len(s) \div 2)
                   c == SubSeq(s, Len(s) \div 2 + 2, Len(s))
        <4>1. a \in Shorter(n) /\ c \in Shorter(n)
          BY <3>2, Halves
        <4>2. g[a] = f[a] /\ g[c] = f[c]
          BY <2>3, <4>1
        <4> HIDE DEF g
        <4> QED  BY <4>2 DEF RebuildBy
      <3> QED  BY <3>1, <3>2
    <2>5. Of(g, n + 1)
      BY <2>4
    <2> HIDE DEF g, Of
    <2>6. n \in Nat
      OBVIOUS
    <2> QED  BY <2>5, <2>6
  <1>3. T \subseteq Nat
    OBVIOUS
  <1> HIDE DEF T
  <1>4. T = Nat
    BY <1>1, <1>2, <1>3, Induct
  <1>5. PICK f : Of(f, MaxSize + 2)
    BY <1>4, <1>0 DEF T
  <1>6. Shorter(MaxSize + 2) = Sequence
    BY <1>0 DEF Shorter, Sequence
  <1>7. f = [s \in Sequence |-> RebuildBy(s, f)]
    BY <1>5, <1>6
  <1> HIDE DEF Of
  <1>8. Rebuild = CHOOSE f_ : f_ = [s \in Sequence |-> RebuildBy(s, f_)]
    BY DEF Rebuild, RebuildBy
  <1> QED  BY <1>7, <1>8

-----------------------------------------------------------------------------
(* What a subtree is                                                       *)

LEMMA NullValues == Values[NODE_NULL] = << >> /\ Nodes[NODE_NULL] = {}
  BY NullIsSubtree, ValuesEquation, NodesEquation DEF ValuesBy, NodesBy

LEMMA NodeValues ==
    ASSUME NEW t \in Subtree, t # NODE_NULL
    PROVE  /\ Values[t] = Mid(Values[t.left], t.value, Values[t.right])
           /\ Nodes[t] = {t} \cup Nodes[t.left] \cup Nodes[t.right]
  <1>1. Values[t] = ValuesBy(t, Values[t.left], Values[t.right])
    BY ValuesEquation
  <1>2. Nodes[t] = NodesBy(t, Nodes[t.left], Nodes[t.right])
    BY NodesEquation
  <1> QED  BY <1>1, <1>2 DEF ValuesBy, NodesBy, Mid

LEMMA ValuesType == \A t \in Subtree : Values[t] \in Seq(Value)
  <1> DEFINE T == {t \in Subtree : Values[t] \in Seq(Value)}
  <1>1. NODE_NULL \in T
    <2>1. << >> \in Seq(Value)
      OBVIOUS
    <2> QED  BY <2>1, NullIsSubtree, NullValues
  <1>2. ASSUME NEW t \in Subtree, t # NODE_NULL, t.left \in T, t.right \in T PROVE t \in T
    <2>1. Values[t] = Mid(Values[t.left], t.value, Values[t.right])
      BY <1>2, NodeValues
    <2>2. Values[t.left] \in Seq(Value) /\ Values[t.right] \in Seq(Value) /\ t.value \in Value
      BY <1>2, Parts
    <2> QED  BY <2>1, <2>2, MidIs
  <1> HIDE DEF T
  <1>3. Subtree \subseteq T
    BY <1>1, <1>2, TreeInduction
  <1> QED  BY <1>3 DEF T

LEMMA NodesType == \A t \in Subtree : Nodes[t] \subseteq Subtree \ {NODE_NULL}
  <1> DEFINE T == {t \in Subtree : Nodes[t] \subseteq Subtree \ {NODE_NULL}}
  <1>1. NODE_NULL \in T
    BY NullIsSubtree, NullValues
  <1>2. ASSUME NEW t \in Subtree, t # NODE_NULL, t.left \in T, t.right \in T PROVE t \in T
    BY <1>2, NodeValues
  <1> HIDE DEF T
  <1>3. Subtree \subseteq T
    BY <1>1, <1>2, TreeInduction
  <1> QED  BY <1>3 DEF T

\* The parts of TreesSound, of one subtree.
Exact(t) == t \in Subtree /\ \A u \in Nodes[t] : u.weight = Len(Values[u])
Even(t) == \A u \in Nodes[t] : ~WillNeedRebalance(u, 0, 0)
Clean(t) == \A u \in Nodes[t] : ~u.marked /\ ~u.below
Marked(t) == \E u \in Nodes[t] : u.marked
Consistent(t) == \A u \in Nodes[t] : u.below <=> Marked(u.left) \/ Marked(u.right)

LEMMA NullIsSound ==
    /\ Exact(NODE_NULL) /\ Even(NODE_NULL) /\ Clean(NODE_NULL) /\ Consistent(NODE_NULL)
    /\ ~Marked(NODE_NULL)
    /\ NODE_NULL.weight = 0
  <1>1. NODE_NULL.weight = 0
    BY DEF NODE_NULL
  <1> QED
    BY <1>1, NullIsSubtree, NullValues DEF Exact, Even, Clean, Consistent, Marked

\* What there is of a subtree that is not NODE_NULL.
LEMMA ExactParts ==
    ASSUME NEW t, Exact(t), t # NODE_NULL
    PROVE  /\ Exact(t.left) /\ Exact(t.right)
           /\ t.weight = Len(Values[t])
  <1>1. t \in Subtree /\ t.left \in Subtree /\ t.right \in Subtree
    BY Parts DEF Exact
  <1>2. Nodes[t] = {t} \cup Nodes[t.left] \cup Nodes[t.right]
    BY <1>1, NodeValues
  <1> QED  BY <1>1, <1>2 DEF Exact

LEMMA ExactWeight ==
    ASSUME NEW t, Exact(t)
    PROVE  t \in Subtree /\ t.weight = Len(Values[t]) /\ t.weight \in Nat
  <1>1. t \in Subtree
    BY DEF Exact
  <1>2. CASE t = NODE_NULL
    <2>1. Len(Values[t]) = 0 /\ t.weight = 0
      BY <1>2, NullValues, NullIsSound
    <2> QED  BY <1>1, <2>1
  <1>3. CASE t # NODE_NULL
    BY <1>1, <1>3, ExactParts, Parts
  <1> QED  BY <1>2, <1>3

LEMMA ExactSum ==
    ASSUME NEW t, Exact(t), t # NODE_NULL
    PROVE  /\ t.weight = t.left.weight + 1 + t.right.weight
           /\ t.left.weight \in Nat /\ t.right.weight \in Nat
  <1>1. Exact(t.left) /\ Exact(t.right) /\ t.weight = Len(Values[t]) /\ t \in Subtree
    BY ExactParts DEF Exact
  <1>2. /\ t.left.weight = Len(Values[t.left]) /\ t.left.weight \in Nat /\ t.left \in Subtree
        /\ t.right.weight = Len(Values[t.right]) /\ t.right.weight \in Nat /\ t.right \in Subtree
    BY <1>1, ExactWeight
  <1>3. Values[t] = Mid(Values[t.left], t.value, Values[t.right])
    BY <1>1, NodeValues
  <1>4. Values[t.left] \in Seq(Value) /\ Values[t.right] \in Seq(Value) /\ t.value \in Value
    BY <1>1, <1>2, ValuesType, Parts
  <1>5. Spliced(Values[t], Values[t.left], t.value, Values[t.right])
    BY <1>3, <1>4, MidIs
  <1>6. Len(Values[t]) = Len(Values[t.left]) + 1 + Len(Values[t.right])
    BY <1>5 DEF Spliced
  <1> QED  BY <1>1, <1>2, <1>6

LEMMA ExactNull ==
    ASSUME NEW t, Exact(t)
    PROVE  t = NODE_NULL <=> t.weight = 0
  <1>1. CASE t # NODE_NULL
    BY <1>1, ExactSum
  <1> QED  BY <1>1, NullIsSound

\* A subtree with exact weights has no more levels than values.
LEMMA Shallow ==
    ASSUME NEW t, Exact(t), NEW k \in 0 .. MaxSize + 1, t.weight <= k
    PROVE  t \in Levels[k]
  <1> DEFINE T == {u \in Subtree : Exact(u) => \A n \in 0 .. MaxSize + 1 :
                                                  u.weight <= n => u \in Levels[n]}
  <1>0. MaxSize \in Nat
    BY OmtAssumption
  <1>1. NODE_NULL \in T
    <2>1. ASSUME NEW n \in 0 .. MaxSize + 1 PROVE NODE_NULL \in Levels[n]
      <3>1. n = 0 \/ n \in 1 .. MaxSize + 1
        BY <1>0
      <3> QED  BY <3>1, LevelsEquation DEF Ground, Wider
    <2> QED  BY <2>1, NullIsSubtree
  <1>2. ASSUME NEW u \in Subtree, u # NODE_NULL, u.left \in T, u.right \in T PROVE u \in T
    <2> SUFFICES ASSUME Exact(u), NEW n \in 0 .. MaxSize + 1, u.weight <= n PROVE u \in Levels[n]
      OBVIOUS
    <2>1. Exact(u.left) /\ Exact(u.right)
      BY <1>2, ExactParts
    <2>2. u.weight = u.left.weight + 1 + u.right.weight /\ u.left.weight \in Nat /\ u.right.weight \in Nat
      BY <1>2, ExactSum
    <2>3. n \in 1 .. MaxSize + 1 /\ n - 1 \in 0 .. MaxSize + 1
          /\ u.left.weight <= n - 1 /\ u.right.weight <= n - 1
      BY <1>0, <2>2
    <2>4. u.left \in Levels[n - 1] /\ u.right \in Levels[n - 1]
      BY <1>2, <2>1, <2>3
    <2> HIDE DEF T
    <2>5. Levels[n] = Wider(Levels[n - 1])
      BY <2>3, LevelsEquation
    <2> DEFINE a == Levels[n - 1]
    <2>6. /\ u = [weight |-> u.weight, left |-> u.left, value |-> u.value, right |-> u.right,
                  marked |-> u.marked, below |-> u.below]
          /\ u.weight \in Nat /\ u.value \in Value /\ u.marked \in BOOLEAN /\ u.below \in BOOLEAN
      BY <1>2, Parts
    <2>7. u.left \in a /\ u.right \in a
      BY <2>4
    <2> HIDE DEF a
    <2>8. u \in Nodes_(a)
      BY <2>6, <2>7 DEF Nodes_
    <2> QED  BY <2>5, <2>8 DEF a, Wider
  <1> HIDE DEF T
  <1>3. Subtree \subseteq T
    BY <1>1, <1>2, TreeInduction
  <1>4. t \in T
    BY <1>3, ExactWeight
  <1> QED  BY <1>4 DEF T

\* A node, from all it consists of.
Made(w, l, x, r, m, b) ==
    [weight |-> w, left |-> l, value |-> x, right |-> r, marked |-> m, below |-> b]

LEMMA MadeNode ==
    ASSUME NEW l, Exact(l), NEW r, Exact(r), NEW x \in Value, NEW m \in BOOLEAN, NEW b \in BOOLEAN,
           NEW w, w = l.weight + 1 + r.weight, w <= MaxSize + 1,
           NEW t, t = Made(w, l, x, r, m, b)
    PROVE  /\ Exact(t) /\ t # NODE_NULL
           /\ t.weight = w /\ t.left = l /\ t.value = x /\ t.right = r /\ t.marked = m /\ t.below = b
           /\ Values[t] = Mid(Values[l], x, Values[r])
           /\ Nodes[t] = {t} \cup Nodes[l] \cup Nodes[r]
  <1>0. MaxSize \in Nat
    BY OmtAssumption
  <1>1. t.weight = w /\ t.left = l /\ t.value = x /\ t.right = r /\ t.marked = m /\ t.below = b
    BY DEF Made
  <1>2. /\ l.weight \in Nat /\ r.weight \in Nat /\ l \in Subtree /\ r \in Subtree
        /\ l.weight = Len(Values[l]) /\ r.weight = Len(Values[r])
    BY ExactWeight
  <1>3. MaxSize \in 0 .. MaxSize + 1 /\ l.weight <= MaxSize /\ r.weight <= MaxSize
        /\ MaxSize + 1 \in 1 .. MaxSize + 1 /\ (MaxSize + 1) - 1 = MaxSize /\ w \in Nat
    <2>1. MaxSize \in 0 .. MaxSize + 1 /\ MaxSize + 1 \in 1 .. MaxSize + 1
          /\ (MaxSize + 1) - 1 = MaxSize
      BY <1>0
    <2>2. l.weight \in Nat /\ r.weight \in Nat
      BY <1>2
    <2>3. w \in Nat /\ l.weight <= MaxSize /\ r.weight <= MaxSize
      BY <1>0, <2>2
    <2> QED  BY <2>1, <2>3
  <1>4. l \in Levels[MaxSize] /\ r \in Levels[MaxSize]
    BY <1>3, Shallow
  <1> DEFINE a == Levels[MaxSize]
  <1>5. t \in Nodes_(a)
    <2>1. l \in a /\ r \in a
      BY <1>4
    <2> HIDE DEF a
    <2> QED  BY <1>3, <2>1 DEF Made, Nodes_
  <1>6. Levels[MaxSize + 1] = Wider(a)
    BY <1>3, LevelsEquation
  <1> HIDE DEF a
  <1>7. t \in Subtree /\ t # NODE_NULL
    BY <1>5, <1>6, NodeIsNotNull DEF Subtree, Wider
  <1>8. /\ Values[t] = Mid(Values[l], x, Values[r])
        /\ Nodes[t] = {t} \cup Nodes[l] \cup Nodes[r]
    BY <1>1, <1>7, NodeValues
  <1>9. Spliced(Values[t], Values[l], x, Values[r])
    <2>1. Values[l] \in Seq(Value) /\ Values[r] \in Seq(Value)
      BY <1>2, ValuesType
    <2>2. Spliced(Mid(Values[l], x, Values[r]), Values[l], x, Values[r])
      BY <2>1, MidIs
    <2> QED  BY <1>8, <2>2
  <1>10. t.weight = Len(Values[t])
    BY <1>1, <1>2, <1>9 DEF Spliced
  <1>11. Exact(t)
    BY <1>7, <1>8, <1>10 DEF Exact
  <1> QED  BY <1>1, <1>7, <1>8, <1>11

\* A node has the properties of a tree if its two subtrees and the node itself have.
LEMMA OfNode ==
    ASSUME NEW t, t \in Subtree, t # NODE_NULL
    PROVE  /\ Even(t) <=> Even(t.left) /\ Even(t.right) /\ ~WillNeedRebalance(t, 0, 0)
           /\ Clean(t) <=> Clean(t.left) /\ Clean(t.right) /\ ~t.marked /\ ~t.below
           /\ Marked(t) <=> Marked(t.left) \/ Marked(t.right) \/ t.marked
           /\ Consistent(t) <=> /\ Consistent(t.left) /\ Consistent(t.right)
                                /\ t.below <=> Marked(t.left) \/ Marked(t.right)
  <1>1. Nodes[t] = {t} \cup Nodes[t.left] \cup Nodes[t.right]
    BY NodeValues
  <1>2. Even(t) <=> Even(t.left) /\ Even(t.right) /\ ~WillNeedRebalance(t, 0, 0)
    BY <1>1 DEF Even
  <1>3. Clean(t) <=> Clean(t.left) /\ Clean(t.right) /\ ~t.marked /\ ~t.below
    BY <1>1 DEF Clean
  <1>4. Marked(t) <=> Marked(t.left) \/ Marked(t.right) \/ t.marked
    BY <1>1 DEF Marked
  <1>5. Consistent(t) <=> /\ Consistent(t.left) /\ Consistent(t.right)
                          /\ t.below <=> Marked(t.left) \/ Marked(t.right)
    BY <1>1 DEF Consistent
  <1> QED  BY <1>2, <1>3, <1>4, <1>5

LEMMA CleanIsConsistent ==
    ASSUME NEW t \in Subtree, Clean(t)
    PROVE  Consistent(t) /\ ~Marked(t)
  <1> DEFINE T == {u \in Subtree : Clean(u) => Consistent(u) /\ ~Marked(u)}
  <1>1. NODE_NULL \in T
    BY NullIsSubtree, NullIsSound
  <1>2. ASSUME NEW u \in Subtree, u # NODE_NULL, u.left \in T, u.right \in T PROVE u \in T
    BY <1>2, OfNode
  <1> HIDE DEF T
  <1>3. Subtree \subseteq T
    BY <1>1, <1>2, TreeInduction
  <1> QED  BY <1>3 DEF T

\* Where the root says that there are no marks, there are none.
LEMMA RootTells ==
    ASSUME NEW t, t \in Subtree, Consistent(t), t # NODE_NULL => ~t.marked /\ ~t.below
    PROVE  Clean(t)
  <1> DEFINE T == {u \in Subtree : Consistent(u) /\ ~Marked(u) => Clean(u)}
  <1>1. NODE_NULL \in T
    BY NullIsSubtree, NullIsSound
  <1>2. ASSUME NEW u \in Subtree, u # NODE_NULL, u.left \in T, u.right \in T PROVE u \in T
    BY <1>2, OfNode
  <1> HIDE DEF T
  <1>3. Subtree \subseteq T
    BY <1>1, <1>2, TreeInduction
  <1>4. ~Marked(t)
    <2>1. CASE t = NODE_NULL
      BY <2>1, NullIsSound
    <2>2. CASE t # NODE_NULL
      BY <2>2, OfNode
    <2> QED  BY <2>1, <2>2
  <1> QED  BY <1>3, <1>4 DEF T

-----------------------------------------------------------------------------
(* Rebuilding                                                              *)

LEMMA HalvesEven ==
    ASSUME NEW n \in Nat, n # 0
    PROVE  ~Lopsided(n \div 2, n - 1 - n \div 2)
  BY DEF Lopsided

LEMMA RebuildIs ==
    ASSUME NEW s \in Sequence
    PROVE  LET t == Rebuild[s]
           IN  Exact(t) /\ Even(t) /\ Clean(t) /\ Values[t] = s /\ t.weight = Len(s)
  <1> DEFINE P(u) == LET t == Rebuild[u]
                     IN  Exact(t) /\ Even(t) /\ Clean(t) /\ Values[t] = u /\ t.weight = Len(u)
             T == {n \in Nat : n <= MaxSize + 2 => \A u \in Shorter(n) : P(u)}
  <1>0. MaxSize \in Nat
    BY OmtAssumption
  <1>1. 0 \in T
    <2>1. Shorter(0) = {}
      BY DEF Shorter
    <2> QED  BY <2>1
  <1>2. ASSUME NEW n \in T PROVE n + 1 \in T
    <2> SUFFICES ASSUME n + 1 <= MaxSize + 2, NEW u \in Shorter(n + 1) PROVE P(u)
      OBVIOUS
    <2>1. n \in Nat /\ \A v \in Shorter(n) : P(v)
      BY <1>0
    <2>2. u \in Sequence /\ u \in Seq(Value) /\ Len(u) <= MaxSize + 1 /\ Len(u) \in Nat
      BY <1>0, <2>1 DEF Shorter, Sequence
    <2>3. Rebuild[u] = RebuildBy(u, Rebuild)
      BY <2>2, RebuildEquation
    <2>4. CASE u = << >>
      <3>1. Rebuild[u] = NODE_NULL
        BY <2>3, <2>4 DEF RebuildBy
      <3> QED  BY <2>4, <3>1, NullIsSound, NullValues
    <2>5. CASE u # << >>
      <3> DEFINE i == Len(u) \div 2
                 a == SubSeq(u, 1, i)
                 c == SubSeq(u, i + 2, Len(u))
                 t == Rebuild[u]
      <3>1. i \in Nat /\ i < Len(u) /\ a \in Shorter(n) /\ c \in Shorter(n)
        BY <2>1, <2>5, Halves
      <3>2. P(a) /\ P(c)
        BY <2>1, <3>1
      <3>3. t = Made(Len(u), Rebuild[a], u[i + 1], Rebuild[c], FALSE, FALSE)
        BY <2>3, <2>5 DEF RebuildBy, Node, Made
      <3>4. Len(a) = i /\ Len(c) = Len(u) - i - 1 /\ u[i + 1] \in Value /\ u = Mid(a, u[i + 1], c)
        <4> HIDE DEF i
        <4> QED  BY <2>2, <3>1, Parted
      <3> DEFINE l == Rebuild[a]
                 r == Rebuild[c]
                 x == u[i + 1]
      <3>5. /\ Exact(l) /\ Even(l) /\ Clean(l) /\ Values[l] = a /\ l.weight = i
            /\ Exact(r) /\ Even(r) /\ Clean(r) /\ Values[r] = c /\ r.weight = Len(u) - 1 - i
        <4>1. Len(u) - i - 1 = Len(u) - 1 - i
          BY <2>2, <3>1
        <4> HIDE DEF i
        <4> QED  BY <3>2, <3>4, <4>1
      <3>6. t = Made(Len(u), l, x, r, FALSE, FALSE) /\ u = Mid(a, x, c) /\ x \in Value
        BY <3>3, <3>4
      <3>6a. ~Lopsided(i, Len(u) - 1 - i)
        <4>1. Len(u) # 0
          BY <2>2, <2>5
        <4> QED  BY <2>2, <4>1, HalvesEven
      <3> HIDE DEF l, r, x, t, a, c, i
      <3>7. Len(u) = l.weight + 1 + r.weight /\ FALSE \in BOOLEAN
        BY <2>2, <3>1, <3>5
      <3>8. /\ Exact(t) /\ t # NODE_NULL
            /\ t.weight = Len(u) /\ t.left = l /\ t.value = x /\ t.right = r
            /\ t.marked = FALSE /\ t.below = FALSE
            /\ Values[t] = Mid(Values[l], x, Values[r])
        <4> DEFINE w == Len(u)
                   no == FALSE
        <4>1. w = l.weight + 1 + r.weight /\ w <= MaxSize + 1 /\ no \in BOOLEAN
          BY <2>2, <3>7
        <4>2. t = Made(w, l, x, r, no, no) /\ x \in Value /\ Exact(l) /\ Exact(r)
          BY <3>5, <3>6
        <4> HIDE DEF w, no
        <4>3. /\ Exact(t) /\ t # NODE_NULL
              /\ t.weight = w /\ t.left = l /\ t.value = x /\ t.right = r
              /\ t.marked = no /\ t.below = no
              /\ Values[t] = Mid(Values[l], x, Values[r])
          BY <4>1, <4>2, MadeNode
        <4> QED  BY <4>3 DEF w, no
      <3>9. ~WillNeedRebalance(t, 0, 0)
        <4>1. i + 0 = i /\ Len(u) - 1 - i + 0 = Len(u) - 1 - i
          BY <2>2, <3>1
        <4> QED  BY <3>5, <3>6a, <3>8, <4>1 DEF WillNeedRebalance
      <3>10. t \in Subtree
        BY <3>8, ExactWeight
      <3>11. Even(t) /\ Clean(t)
        BY <3>5, <3>8, <3>9, <3>10, OfNode
      <3>12. Values[t] = u
        BY <3>5, <3>6, <3>8
      <3> QED  BY <3>8, <3>11, <3>12 DEF t
    <2> QED  BY <2>4, <2>5
  <1> HIDE DEF T
  <1>3. T = Nat
    <2>1. T \subseteq Nat
      BY DEF T
    <2> QED  BY <1>1, <1>2, <2>1, Induct
  <1>4. MaxSize + 2 \in T /\ MaxSize + 2 <= MaxSize + 2 /\ s \in Shorter(MaxSize + 2)
    BY <1>0, <1>3 DEF Shorter, Sequence
  <1>5. P(s)
    <2> HIDE DEF P
    <2> QED  BY <1>4 DEF T
  <1> QED  BY <1>5

-----------------------------------------------------------------------------
(* Insertion                                                               *)

Put(s, i, v) == S!InsertAt(s, i + 1, v)

PutIs(w, s, i, v) ==
    /\ Len(w) = Len(s) + 1
    /\ \A k \in 1 .. Len(s) + 1 : w[k] = IF k <= i THEN s[k] ELSE IF k = i + 1 THEN v ELSE s[k - 1]

LEMMA PutType ==
    ASSUME NEW U, NEW s \in Seq(U), NEW i \in 0 .. Len(s), NEW v \in U
    PROVE  Put(s, i, v) \in Seq(U) /\ PutIs(Put(s, i, v), s, i, v)
  <1> DEFINE a == SubSeq(s, 1, i)
             c == SubSeq(s, i + 1, Len(s))
             w == Mid(a, v, c)
  <1>0. i \in Nat /\ Len(s) \in Nat /\ i <= Len(s) /\ (i + 1) - 1 = i
    OBVIOUS
  <1>1. a \in Seq(U) /\ Len(a) = i /\ \A k \in 1 .. i : a[k] = s[k]
    OBVIOUS
  <1>2. c \in Seq(U) /\ Len(c) = Len(s) - i /\ \A k \in 1 .. Len(s) - i : c[k] = s[i + k]
    OBVIOUS
  <1>3. Put(s, i, v) = w
    BY <1>0 DEF Put, S!InsertAt, Mid
  <1> HIDE DEF a, c
  <1>4. w \in Seq(U) /\ Spliced(w, a, v, c)
    BY <1>1, <1>2, MidIs
  <1> HIDE DEF w
  <1>5. Len(w) = Len(s) + 1
    BY <1>0, <1>1, <1>2, <1>4 DEF Spliced
  <1>6. ASSUME NEW k \in 1 .. Len(s) + 1
        PROVE  w[k] = IF k <= i THEN s[k] ELSE IF k = i + 1 THEN v ELSE s[k - 1]
    <2>1. w[k] = IF k <= i THEN a[k] ELSE IF k = i + 1 THEN v ELSE c[k - i - 1]
      <3>1. k \in 1 .. Len(a) + 1 + Len(c) /\ Len(a) = i
        BY <1>0, <1>1, <1>2
      <3> QED  BY <1>4, <3>1 DEF Spliced
    <2>2. CASE k <= i
      BY <1>1, <2>1, <2>2
    <2>3. CASE k = i + 1
      BY <2>1, <2>3
    <2>4. CASE k > i + 1
      <3>1. k - i - 1 \in 1 .. Len(s) - i /\ i + (k - i - 1) = k - 1
        BY <1>0, <2>4
      <3> QED  BY <1>2, <2>1, <2>4, <3>1
    <2> QED  BY <1>0, <2>2, <2>3, <2>4
  <1> QED  BY <1>3, <1>4, <1>5, <1>6 DEF PutIs

LEMMA PutUnique ==
    ASSUME NEW U, NEW s \in Seq(U), NEW i \in 0 .. Len(s), NEW v \in U,
           NEW w \in Seq(U), PutIs(w, s, i, v)
    PROVE  w = Put(s, i, v)
  <1> DEFINE p == Put(s, i, v)
  <1>1. p \in Seq(U) /\ PutIs(p, s, i, v)
    BY PutType
  <1> HIDE DEF p
  <1>2. Len(w) = Len(p) /\ \A k \in 1 .. Len(w) : w[k] = p[k]
    BY <1>1 DEF PutIs
  <1> QED  BY <1>1, <1>2, SameSequence DEF p

LEMMA PutLeft ==
    ASSUME NEW U, NEW L \in Seq(U), NEW x \in U, NEW R \in Seq(U), NEW v \in U, NEW i \in 0 .. Len(L)
    PROVE  Mid(Put(L, i, v), x, R) = Put(Mid(L, x, R), i, v)
  <1> DEFINE p == Put(L, i, v)
             s == Mid(L, x, R)
             w == Mid(p, x, R)
  <1>0. i \in Nat /\ Len(L) \in Nat /\ Len(R) \in Nat /\ i <= Len(L)
    OBVIOUS
  <1>1. p \in Seq(U) /\ PutIs(p, L, i, v)
    BY PutType
  <1>2. s \in Seq(U) /\ Spliced(s, L, x, R)
    BY MidIs
  <1> HIDE DEF p, s
  <1>3. w \in Seq(U) /\ Spliced(w, p, x, R)
    BY <1>1, MidIs
  <1> HIDE DEF w
  <1>4. Len(p) = Len(L) + 1 /\ Len(s) = Len(L) + 1 + Len(R) /\ Len(w) = Len(s) + 1
    BY <1>0, <1>1, <1>2, <1>3 DEF PutIs, Spliced
  <1>5. ASSUME NEW k \in 1 .. Len(s) + 1
        PROVE  w[k] = IF k <= i THEN s[k] ELSE IF k = i + 1 THEN v ELSE s[k - 1]
    <2>1. w[k] = IF k <= Len(L) + 1 THEN p[k] ELSE IF k = Len(L) + 2 THEN x ELSE R[k - Len(L) - 2]
      <3>1. k \in 1 .. Len(p) + 1 + Len(R) /\ Len(p) + 1 = Len(L) + 2
            /\ k - Len(p) - 1 = k - Len(L) - 2
        BY <1>0, <1>4
      <3> QED  BY <1>3, <1>4, <3>1 DEF Spliced
    <2>2. k \in 1 .. Len(L) + 1 =>
             p[k] = IF k <= i THEN L[k] ELSE IF k = i + 1 THEN v ELSE L[k - 1]
      BY <1>1 DEF PutIs
    <2>3. k \in 1 .. Len(s) =>
             s[k] = IF k <= Len(L) THEN L[k] ELSE IF k = Len(L) + 1 THEN x ELSE R[k - Len(L) - 1]
      BY <1>2, <1>4 DEF Spliced
    <2>4. k - 1 \in 1 .. Len(s) =>
             s[k - 1] = IF k - 1 <= Len(L) THEN L[k - 1]
                        ELSE IF k - 1 = Len(L) + 1 THEN x ELSE R[(k - 1) - Len(L) - 1]
      BY <1>2, <1>4 DEF Spliced
    <2>5. k \in 1 .. Len(L) + 2 + Len(R)
      BY <1>0, <1>4
    <2>6. CASE k <= i
      <3>1. k \in 1 .. Len(L) + 1 /\ k \in 1 .. Len(s) /\ k <= Len(L) /\ k <= Len(L) + 1
        BY <1>0, <1>4, <2>5, <2>6
      <3> QED  BY <2>1, <2>2, <2>3, <2>6, <3>1
    <2>7. CASE k = i + 1
      <3>1. k \in 1 .. Len(L) + 1 /\ k <= Len(L) + 1 /\ ~(k <= i)
        BY <1>0, <2>5, <2>7
      <3> QED  BY <2>1, <2>2, <2>7, <3>1
    <2>8. CASE k > i + 1 /\ k <= Len(L) + 1
      <3>1. k \in 1 .. Len(L) + 1 /\ k - 1 \in 1 .. Len(s) /\ k - 1 <= Len(L) /\ ~(k <= i) /\ k # i + 1
        BY <1>0, <1>4, <2>5, <2>8
      <3> QED  BY <2>1, <2>2, <2>4, <2>8, <3>1
    <2>9. CASE k > Len(L) + 1
      <3>1. /\ ~(k <= i) /\ k # i + 1 /\ k - 1 \in 1 .. Len(s) /\ ~(k - 1 <= Len(L))
            /\ k - 1 = Len(L) + 1 <=> k = Len(L) + 2
            /\ (k - 1) - Len(L) - 1 = k - Len(L) - 2
            /\ ~(k <= Len(L) + 1)
        BY <1>0, <1>4, <2>5, <2>9
      <3> QED  BY <2>1, <2>4, <3>1
    <2> QED  BY <1>0, <2>5, <2>6, <2>7, <2>8, <2>9
  <1>6. PutIs(w, s, i, v)
    BY <1>4, <1>5 DEF PutIs
  <1>7. i \in 0 .. Len(s)
    BY <1>0, <1>4
  <1>8. w = Put(s, i, v)
    BY <1>2, <1>3, <1>6, <1>7, PutUnique
  <1> QED  BY <1>8 DEF w, s, p

LEMMA PutRight ==
    ASSUME NEW U, NEW L \in Seq(U), NEW x \in U, NEW R \in Seq(U), NEW v \in U,
           NEW i \in 0 .. Len(L) + 1 + Len(R), i > Len(L)
    PROVE  /\ i - Len(L) - 1 \in 0 .. Len(R)
           /\ Mid(L, x, Put(R, i - Len(L) - 1, v)) = Put(Mid(L, x, R), i, v)
  <1> DEFINE j == i - Len(L) - 1
             p == Put(R, j, v)
             s == Mid(L, x, R)
             w == Mid(L, x, p)
  <1>0. i \in Nat /\ Len(L) \in Nat /\ Len(R) \in Nat /\ i <= Len(L) + 1 + Len(R)
    OBVIOUS
  <1>00. j \in 0 .. Len(R) /\ j \in Nat /\ i = Len(L) + 1 + j
    BY <1>0
  <1> HIDE DEF j
  <1>1. p \in Seq(U) /\ PutIs(p, R, j, v)
    BY <1>00, PutType
  <1>2. s \in Seq(U) /\ Spliced(s, L, x, R)
    BY MidIs
  <1> HIDE DEF p, s
  <1>3. w \in Seq(U) /\ Spliced(w, L, x, p)
    BY <1>1, MidIs
  <1> HIDE DEF w
  <1>4. Len(p) = Len(R) + 1 /\ Len(s) = Len(L) + 1 + Len(R) /\ Len(w) = Len(s) + 1
    BY <1>0, <1>1, <1>2, <1>3 DEF PutIs, Spliced
  <1>5. ASSUME NEW k \in 1 .. Len(s) + 1
        PROVE  w[k] = IF k <= i THEN s[k] ELSE IF k = i + 1 THEN v ELSE s[k - 1]
    <2> DEFINE m == k - Len(L) - 1
    <2>5. k \in 1 .. Len(L) + 2 + Len(R)
      BY <1>0, <1>4
    <2>1. w[k] = IF k <= Len(L) THEN L[k] ELSE IF k = Len(L) + 1 THEN x ELSE p[m]
      <3>1. k \in 1 .. Len(L) + 1 + Len(p)
        BY <1>0, <1>4
      <3> QED  BY <1>3, <3>1 DEF Spliced
    <2>2. m \in 1 .. Len(R) + 1 =>
             p[m] = IF m <= j THEN R[m] ELSE IF m = j + 1 THEN v ELSE R[m - 1]
      BY <1>1 DEF PutIs
    <2>3. k \in 1 .. Len(s) =>
             s[k] = IF k <= Len(L) THEN L[k] ELSE IF k = Len(L) + 1 THEN x ELSE R[m]
      BY <1>2, <1>4 DEF Spliced
    <2>4. k - 1 \in 1 .. Len(s) =>
             s[k - 1] = IF k - 1 <= Len(L) THEN L[k - 1]
                        ELSE IF k - 1 = Len(L) + 1 THEN x ELSE R[(k - 1) - Len(L) - 1]
      BY <1>2, <1>4 DEF Spliced
    <2>6. CASE k <= Len(L) + 1
      <3>1. k \in 1 .. Len(s) /\ k <= i
        BY <1>0, <1>00, <1>4, <2>5, <2>6
      <3>2. k <= Len(L) \/ (k = Len(L) + 1 /\ ~(k <= Len(L)))
        BY <1>0, <2>5, <2>6
      <3> HIDE DEF m
      <3> QED  BY <2>1, <2>3, <3>1, <3>2
    <2>7. CASE k > Len(L) + 1
      <3>1. /\ ~(k <= Len(L)) /\ k # Len(L) + 1 /\ m \in 1 .. Len(R) + 1
            /\ (k <= i <=> m <= j) /\ (k = i + 1 <=> m = j + 1)
            /\ (k <= i => k \in 1 .. Len(s))
            /\ (k > i + 1 => /\ k - 1 \in 1 .. Len(s) /\ ~(k - 1 <= Len(L)) /\ k - 1 # Len(L) + 1
                             /\ (k - 1) - Len(L) - 1 = m - 1)
            /\ (k <= i \/ k = i + 1 \/ k > i + 1)
            /\ (k > i + 1 => ~(k <= i) /\ k # i + 1)
        BY <1>0, <1>00, <1>4, <2>5, <2>7
      <3> HIDE DEF m
      <3>2. w[k] = IF m <= j THEN R[m] ELSE IF m = j + 1 THEN v ELSE R[m - 1]
        BY <2>1, <2>2, <3>1
      <3>3. CASE k <= i
        BY <2>3, <3>1, <3>2, <3>3
      <3>4. CASE k = i + 1
        BY <1>00, <3>1, <3>2, <3>4
      <3>5. CASE k > i + 1
        BY <2>4, <3>1, <3>2, <3>5
      <3> QED  BY <3>1, <3>3, <3>4, <3>5
    <2> QED  BY <1>0, <2>5, <2>6, <2>7
  <1>6. PutIs(w, s, i, v)
    BY <1>4, <1>5 DEF PutIs
  <1>7. i \in 0 .. Len(s)
    BY <1>0, <1>4
  <1>8. w = Put(s, i, v)
    BY <1>2, <1>3, <1>6, <1>7, PutUnique
  <1> QED  BY <1>00, <1>8 DEF w, s, p, j

-----------------------------------------------------------------------------
\* The updates of a node that the operations make.
WithLeft(t, w, l) == [t EXCEPT !.weight = w, !.left = l]
WithRight(t, w, r) == [t EXCEPT !.weight = w, !.right = r]
WithSuccessor(t, w, x, r) == [t EXCEPT !.weight = w, !.value = x, !.right = r]
PassedLeft(t, l) == [t EXCEPT !.left = l]
Overwritten(t, x) == [t EXCEPT !.value = x]
PassedRight(t, r) == [t EXCEPT !.right = r]
Passed(t, l, x, r) == [t EXCEPT !.left = l, !.value = x, !.right = r]
Remarked(t, b, l, m, r) == [t EXCEPT !.below = b, !.left = l, !.marked = m, !.right = r]
Cleared(t, l, r) == ClearStolenBits([t EXCEPT !.left = l, !.right = r])

LEMMA NodeExcept ==
    ASSUME NEW t \in Subtree, t # NODE_NULL
    PROVE  /\ \A w, l : WithLeft(t, w, l) = Made(w, l, t.value, t.right, t.marked, t.below)
           /\ \A w, r : WithRight(t, w, r) = Made(w, t.left, t.value, r, t.marked, t.below)
           /\ \A w, x, r : WithSuccessor(t, w, x, r) = Made(w, t.left, x, r, t.marked, t.below)
           /\ \A l : PassedLeft(t, l) = Made(t.weight, l, t.value, t.right, t.marked, t.below)
           /\ \A x : Overwritten(t, x) = Made(t.weight, t.left, x, t.right, t.marked, t.below)
           /\ \A r : PassedRight(t, r) = Made(t.weight, t.left, t.value, r, t.marked, t.below)
           /\ \A l, x, r : Passed(t, l, x, r) = Made(t.weight, l, x, r, t.marked, t.below)
           /\ \A b, l, m, r : Remarked(t, b, l, m, r) = Made(t.weight, l, t.value, r, m, b)
           /\ \A l, r : Cleared(t, l, r) = Made(t.weight, l, t.value, r, FALSE, FALSE)
  <1> DEFINE p == t.weight
             q == t.left
             y == t.value
             s == t.right
             n == t.marked
             c == t.below
             no == FALSE
  <1>1. t = Made(p, q, y, s, n, c)
    BY Parts DEF Made
  <1> HIDE DEF p, q, y, s, n, c, no
  <1>5. ASSUME NEW x PROVE Overwritten(t, x) = Made(p, q, x, s, n, c)
    BY <1>1 DEF Made, Overwritten
  <1>6. ASSUME NEW r PROVE PassedRight(t, r) = Made(p, q, y, r, n, c)
    BY <1>1 DEF Made, PassedRight
  <1>7. ASSUME NEW w, NEW l PROVE WithLeft(t, w, l) = Made(w, l, y, s, n, c)
    <2> DEFINE tw == [t EXCEPT !.weight = w]
    <2>0. tw = Made(w, q, y, s, n, c)
      BY <1>1 DEF Made
    <2>1. WithLeft(t, w, l) = [tw EXCEPT !.left = l]
      BY DEF WithLeft
    <2> HIDE DEF tw
    <2> QED  BY <2>0, <2>1 DEF Made
  <1>8. ASSUME NEW w, NEW r PROVE WithRight(t, w, r) = Made(w, q, y, r, n, c)
    <2> DEFINE tw == [t EXCEPT !.weight = w]
    <2>0. tw = Made(w, q, y, s, n, c)
      BY <1>1 DEF Made
    <2>1. WithRight(t, w, r) = [tw EXCEPT !.right = r]
      BY DEF WithRight
    <2> HIDE DEF tw
    <2> QED  BY <2>0, <2>1 DEF Made
  <1>9. ASSUME NEW w, NEW x, NEW r PROVE WithSuccessor(t, w, x, r) = Made(w, q, x, r, n, c)
    <2> DEFINE tw == [t EXCEPT !.weight = w]
    <2>0. tw = Made(w, q, y, s, n, c)
      BY <1>1 DEF Made
    <2> DEFINE u == [tw EXCEPT !.value = x]
    <2>1. WithSuccessor(t, w, x, r) = [u EXCEPT !.right = r]
      BY DEF WithSuccessor
    <2>2. u = Made(w, q, x, s, n, c)
      <3> HIDE DEF tw
      <3> QED  BY <2>0 DEF Made
    <2> HIDE DEF u
    <2> QED  BY <2>1, <2>2 DEF Made
  <1>10. ASSUME NEW l, NEW x, NEW r PROVE Passed(t, l, x, r) = Made(p, l, x, r, n, c)
    <2> DEFINE tl == [t EXCEPT !.left = l]
    <2>0. tl = Made(p, l, y, s, n, c)
      BY <1>1 DEF Made
    <2> DEFINE u == [tl EXCEPT !.value = x]
    <2>1. Passed(t, l, x, r) = [u EXCEPT !.right = r]
      BY DEF Passed
    <2>2. u = Made(p, l, x, s, n, c)
      <3> HIDE DEF tl
      <3> QED  BY <2>0 DEF Made
    <2> HIDE DEF u
    <2> QED  BY <2>1, <2>2 DEF Made
  <1>11. ASSUME NEW b, NEW l, NEW m, NEW r PROVE Remarked(t, b, l, m, r) = Made(p, l, y, r, m, b)
    <2> DEFINE tb == [t EXCEPT !.below = b]
    <2>0. tb = Made(p, q, y, s, n, b)
      BY <1>1 DEF Made
    <2> DEFINE u == [tb EXCEPT !.left = l]
               z == [u EXCEPT !.marked = m]
    <2>1. Remarked(t, b, l, m, r) = [z EXCEPT !.right = r]
      BY DEF Remarked
    <2>2. u = Made(p, l, y, s, n, b)
      <3> HIDE DEF tb
      <3> QED  BY <2>0 DEF Made
    <2>3. z = Made(p, l, y, s, m, b)
      <3> HIDE DEF u
      <3> QED  BY <2>2 DEF Made
    <2> HIDE DEF z
    <2> QED  BY <2>1, <2>3 DEF Made
  <1>12. ASSUME NEW l, NEW r PROVE Cleared(t, l, r) = Made(p, l, y, r, no, no)
    <2> DEFINE tl == [t EXCEPT !.left = l]
    <2>0. tl = Made(p, l, y, s, n, c)
      BY <1>1 DEF Made
    <2> DEFINE u == [tl EXCEPT !.right = r]
               z == [u EXCEPT !.marked = no]
    <2>1. Cleared(t, l, r) = [z EXCEPT !.below = no]
      BY DEF Cleared, ClearStolenBits, no
    <2>2. u = Made(p, l, y, r, n, c)
      <3> HIDE DEF tl
      <3> QED  BY <2>0 DEF Made
    <2>3. z = Made(p, l, y, r, no, c)
      <3> HIDE DEF u
      <3> QED  BY <2>2 DEF Made
    <2> HIDE DEF z
    <2> QED  BY <2>1, <2>3 DEF Made
  <1>13. ASSUME NEW l PROVE PassedLeft(t, l) = Made(p, l, y, s, n, c)
    BY <1>1 DEF Made, PassedLeft
  <1> QED  BY <1>5, <1>6, <1>7, <1>8, <1>9, <1>10, <1>11, <1>12, <1>13 DEF p, q, y, s, n, c, no

\* rebalance() changes the shape only, and leaves no node lopsided.
LEMMA RebalancedIs ==
    ASSUME NEW t, Exact(t), Clean(t), t.weight <= MaxSize + 1, NEW needed \in BOOLEAN
    PROVE  LET u == Rebalanced(needed, t)
           IN  /\ Exact(u) /\ Clean(u) /\ u.weight = t.weight /\ Values[u] = Values[t]
               /\ needed => Even(u)
  <1>1. CASE needed
    <2>1. t \in Subtree /\ t.weight = Len(Values[t])
      BY ExactWeight
    <2>2. Values[t] \in Sequence
      BY <2>1, ValuesType DEF Sequence
    <2>3. Rebalanced(needed, t) = Rebuild[Values[t]]
      BY <1>1 DEF Rebalanced
    <2> DEFINE s == Values[t]
               u == Rebuild[s]
    <2>4. s \in Sequence
      BY <2>2
    <2> HIDE DEF s
    <2>5. Exact(u) /\ Even(u) /\ Clean(u) /\ Values[u] = s /\ u.weight = Len(s)
      BY <2>4, RebuildIs
    <2> HIDE DEF u
    <2> QED  BY <2>1, <2>3, <2>5 DEF s, u
  <1>2. CASE ~needed
    BY <1>2 DEF Rebalanced
  <1> QED  BY <1>1, <1>2

LEMMA InsertStep ==
    ASSUME NEW t \in Subtree, t # NODE_NULL, NEW v \in Value, NEW i \in Slot, NEW done \in BOOLEAN,
           NEW now, now = (~done /\ InsertLopsides(t, i))
    PROVE  /\ i <= t.left.weight =>
                 InsertInternal[t][v][i][done] =
                     Rebalanced(now, Made(t.weight + 1, InsertInternal[t.left][v][i][done \/ now],
                                          t.value, t.right, t.marked, t.below))
           /\ ~(i <= t.left.weight) =>
                 InsertInternal[t][v][i][done] =
                     Rebalanced(now, Made(t.weight + 1, t.left, t.value,
                                          InsertInternal[t.right][v][i - t.left.weight - 1][done \/ now],
                                          t.marked, t.below))
  <1> DEFINE L == InsertInternal[t.left]
             R == InsertInternal[t.right]
             a == L[v][i][done \/ now]
             c == R[v][i - t.left.weight - 1][done \/ now]
             w == t.weight + 1
  <1>1. InsertInternal[t] = InsertBy(t, L, R)
    BY InsertInternalEquation
  <1> HIDE DEF L, R
  <1>2. InsertInternal[t][v][i][done] = InsertNode(t, L, R, v, i, done)
    BY <1>1 DEF InsertBy
  <1>3. InsertNode(t, L, R, v, i, done) =
           Rebalanced(now, IF i <= t.left.weight THEN WithLeft(t, w, a) ELSE WithRight(t, w, c))
    BY DEF InsertNode, WithLeft, WithRight
  <1> HIDE DEF a, c, w
  <1>4. /\ WithLeft(t, w, a) = Made(w, a, t.value, t.right, t.marked, t.below)
        /\ WithRight(t, w, c) = Made(w, t.left, t.value, c, t.marked, t.below)
    BY NodeExcept
  <1> QED  BY <1>2, <1>3, <1>4 DEF a, c, L, R, w

Inserted(u, t, v, i) ==
    /\ Exact(u) /\ Clean(u)
    /\ u.weight = t.weight + 1
    /\ Values[u] = Put(Values[t], i, v)

LEMMA InsertNull ==
    ASSUME NEW v \in Value, NEW i \in 0 .. 0, NEW done \in BOOLEAN
    PROVE  LET u == InsertInternal[NODE_NULL][v][i][done]
           IN  Inserted(u, NODE_NULL, v, i) /\ Even(u)
  <1> DEFINE L == InsertInternal[NODE_NULL.left]
             R == InsertInternal[NODE_NULL.right]
             u == InsertInternal[NODE_NULL][v][i][done]
             no == FALSE
             one == 1
             e == NODE_NULL
  <1>0. i \in Slot /\ MaxSize \in Nat
    BY OmtAssumption DEF Slot
  <1>1. InsertInternal[NODE_NULL] = InsertBy(NODE_NULL, L, R)
    BY NullIsSubtree, InsertInternalEquation
  <1> HIDE DEF L, R
  <1>2. u = InsertNode(NODE_NULL, L, R, v, i, done)
    BY <1>0, <1>1 DEF InsertBy
  <1>3. u = Made(one, e, v, e, no, no)
    BY <1>2 DEF InsertNode, Made, Node
  <1>4. one = e.weight + 1 + e.weight /\ one <= MaxSize + 1 /\ no \in BOOLEAN /\ Exact(e) /\ Clean(e)
        /\ Even(e) /\ e.weight = 0
    BY <1>0, NullIsSound
  <1> HIDE DEF u, no, one, e
  <1>5. /\ Exact(u) /\ u # NODE_NULL
        /\ u.weight = one /\ u.left = e /\ u.right = e /\ u.marked = no /\ u.below = no
        /\ Values[u] = Mid(Values[e], v, Values[e])
    BY <1>3, <1>4, MadeNode
  <1>6. Values[e] = << >>
    BY NullValues DEF e
  <1>7. Values[u] = Put(Values[e], i, v)
    <2> DEFINE z == << >>
    <2>1. z \in Seq(Value) /\ Len(z) = 0 /\ i \in 0 .. Len(z) /\ i = 0
      OBVIOUS
    <2>2. Values[u] = Mid(z, v, z) /\ Values[e] = z
      BY <1>5, <1>6
    <2> HIDE DEF z
    <2> DEFINE w == Mid(z, v, z)
    <2>3. w \in Seq(Value) /\ Spliced(w, z, v, z)
      BY <2>1, MidIs
    <2> HIDE DEF w
    <2>4. PutIs(w, z, i, v)
      BY <2>1, <2>3 DEF PutIs, Spliced
    <2>5. w = Put(z, i, v)
      BY <2>1, <2>3, <2>4, PutUnique
    <2> QED  BY <2>2, <2>5 DEF w
  <1>8. u \in Subtree
    BY <1>5, ExactWeight
  <1>9. Clean(u)
    BY <1>4, <1>5, <1>8, OfNode DEF no
  <1>10. ~WillNeedRebalance(u, 0, 0)
    BY <1>4, <1>5 DEF WillNeedRebalance, Lopsided
  <1>11. Even(u)
    BY <1>4, <1>5, <1>8, <1>10, OfNode
  <1>12. u.weight = e.weight + 1
    BY <1>4, <1>5 DEF one
  <1> QED  BY <1>5, <1>7, <1>9, <1>11, <1>12 DEF Inserted, u, e

LEMMA InsertNodeIs ==
    ASSUME NEW t, Exact(t), Clean(t), t # NODE_NULL, t.weight <= MaxSize,
           NEW v \in Value, NEW i \in 0 .. t.weight, NEW done \in BOOLEAN,
           \A j \in 0 .. t.left.weight, d \in BOOLEAN :
              LET u == InsertInternal[t.left][v][j][d]
              IN  Inserted(u, t.left, v, j) /\ (Even(t.left) /\ ~d => Even(u)),
           \A j \in 0 .. t.right.weight, d \in BOOLEAN :
              LET u == InsertInternal[t.right][v][j][d]
              IN  Inserted(u, t.right, v, j) /\ (Even(t.right) /\ ~d => Even(u))
    PROVE  LET u == InsertInternal[t][v][i][done]
           IN  Inserted(u, t, v, i) /\ (Even(t) /\ ~done => Even(u))
  <1> DEFINE now == ~done /\ InsertLopsides(t, i)
             on == done \/ now
             L == t.left
             R == t.right
             x == t.value
             w == t.weight + 1
             wl == t.left.weight
             wr == t.right.weight
             no == FALSE
  <1>0. now \in BOOLEAN /\ on \in BOOLEAN /\ MaxSize \in Nat /\ t \in Subtree /\ no \in BOOLEAN
    BY OmtAssumption, ExactWeight
  <1>1. t.weight = wl + 1 + wr /\ wl \in Nat /\ wr \in Nat /\ w \in Nat /\ w <= MaxSize + 1 /\ i \in Slot
        /\ t.weight \in Nat
    BY <1>0, ExactSum DEF Slot
  <1>2. Exact(L) /\ Exact(R) /\ Clean(L) /\ Clean(R) /\ t.marked = no /\ t.below = no /\ x \in Value
    BY <1>0, ExactParts, OfNode, Parts
  <1>3. wl = Len(Values[L]) /\ wr = Len(Values[R]) /\ L \in Subtree /\ R \in Subtree
        /\ Values[L] \in Seq(Value) /\ Values[R] \in Seq(Value)
    BY <1>2, ExactWeight, ValuesType
  <1>4. Values[t] = Mid(Values[L], x, Values[R])
    BY <1>0, NodeValues
  <1>5. /\ i <= wl =>
              InsertInternal[t][v][i][done] =
                  Rebalanced(now, Made(w, InsertInternal[L][v][i][on], x, R, no, no))
        /\ ~(i <= wl) =>
              InsertInternal[t][v][i][done] =
                  Rebalanced(now, Made(w, L, x, InsertInternal[R][v][i - wl - 1][on], no, no))
    <2>1. now = (~done /\ InsertLopsides(t, i)) /\ i \in Slot /\ t \in Subtree
      BY <1>0, <1>1
    <2>2. t.marked = no /\ t.below = no
      BY <1>2
    <2>3. /\ i <= t.left.weight =>
                 InsertInternal[t][v][i][done] =
                     Rebalanced(now, Made(t.weight + 1, InsertInternal[t.left][v][i][done \/ now],
                                          t.value, t.right, t.marked, t.below))
          /\ ~(i <= t.left.weight) =>
                 InsertInternal[t][v][i][done] =
                     Rebalanced(now, Made(t.weight + 1, t.left, t.value,
                                          InsertInternal[t.right][v][i - t.left.weight - 1][done \/ now],
                                          t.marked, t.below))
      <3> HIDE DEF now, no
      <3> QED  BY <2>1, InsertStep
    <2> QED  BY <2>2, <2>3
  <1>6. Even(t) => Even(L) /\ Even(R)
    BY <1>0, OfNode
  <1>7. InsertLopsides(t, i) <=> IF i <= wl THEN Lopsided(wl + 1, wr) ELSE Lopsided(wl, wr + 1)
    BY <1>1 DEF InsertLopsides, WillNeedRebalance
  \* What is left to show once the new node is known.
  <1>8. ASSUME NEW a, NEW c, Exact(a), Exact(c), Clean(a), Clean(c),
               w = a.weight + 1 + c.weight,
               Mid(Values[a], x, Values[c]) = Put(Values[t], i, v),
               Even(t) /\ ~on => Even(a) /\ Even(c),
               ~done => (now <=> Lopsided(a.weight, c.weight)),
               InsertInternal[t][v][i][done] = Rebalanced(now, Made(w, a, x, c, no, no))
        PROVE  LET u == InsertInternal[t][v][i][done]
               IN  Inserted(u, t, v, i) /\ (Even(t) /\ ~done => Even(u))
    <2> DEFINE g == Made(w, a, x, c, no, no)
               u == Rebalanced(now, g)
    <2> HIDE DEF w, no, now, on, x, g
    <2>1. /\ Exact(g) /\ g # NODE_NULL
          /\ g.weight = w /\ g.left = a /\ g.right = c /\ g.marked = no /\ g.below = no
          /\ Values[g] = Mid(Values[a], x, Values[c])
      <3>1. w <= MaxSize + 1 /\ x \in Value /\ no \in BOOLEAN
        BY <1>0, <1>1, <1>2
      <3>2. g = Made(w, a, x, c, no, no)
        BY DEF g
      <3> QED  BY <1>8, <3>1, <3>2, MadeNode
    <2>2. g \in Subtree
      BY <2>1, ExactWeight
    <2>3. Clean(g)
      BY <1>8, <2>1, <2>2, OfNode DEF no
    <2>4. g.weight <= MaxSize + 1
      BY <1>1, <2>1
    <2>5. Exact(u) /\ Clean(u) /\ u.weight = g.weight /\ Values[u] = Values[g] /\ (now => Even(u))
      BY <1>0, <2>1, <2>3, <2>4, RebalancedIs
    <2>6. u.weight = t.weight + 1
      BY <2>1, <2>5 DEF w
    <2>7. Inserted(u, t, v, i)
      BY <1>8, <2>1, <2>5, <2>6 DEF Inserted
    <2>8. ASSUME Even(t), ~done, ~now PROVE Even(u)
      <3>1. Even(a) /\ Even(c)
        BY <1>8, <2>8 DEF on
      <3>2. ~WillNeedRebalance(g, 0, 0)
        <4>1. a.weight \in Nat /\ c.weight \in Nat
          BY <1>8, ExactWeight
        <4>2. a.weight + 0 = a.weight /\ c.weight + 0 = c.weight
          BY <4>1
        <4> QED  BY <1>8, <2>1, <2>8, <4>2 DEF WillNeedRebalance
      <3>3. Even(g)
        BY <2>1, <2>2, <3>1, <3>2, OfNode
      <3>4. u = g
        BY <2>8 DEF Rebalanced
      <3> QED  BY <3>3, <3>4
    <2>9. Even(t) /\ ~done => Even(u)
      BY <2>5, <2>8
    <2>10. u = InsertInternal[t][v][i][done]
      BY <1>8 DEF g
    <2> HIDE DEF u
    <2> QED  BY <2>7, <2>9, <2>10
  <1>9. CASE i <= wl
    <2> DEFINE a == InsertInternal[L][v][i][on]
    <2>1. i \in 0 .. wl
      BY <1>1, <1>9
    <2>2. Inserted(a, L, v, i) /\ (Even(L) /\ ~on => Even(a))
      BY <1>0, <2>1
    <2>3. Exact(a) /\ Clean(a) /\ a.weight = wl + 1 /\ Values[a] = Put(Values[L], i, v)
      BY <2>2, Zenon DEF Inserted
    <2>4. Mid(Values[a], x, Values[R]) = Put(Values[t], i, v)
      <3> DEFINE p == Values[L]
                 q == Values[R]
      <3>1. p \in Seq(Value) /\ q \in Seq(Value) /\ x \in Value /\ i \in 0 .. Len(p)
        BY <1>2, <1>3, <2>1
      <3> HIDE DEF p, q, x
      <3>2. Mid(Put(p, i, v), x, q) = Put(Mid(p, x, q), i, v)
        BY <3>1, PutLeft
      <3> QED  BY <1>4, <2>3, <3>2 DEF p, q
    <2>5. w = a.weight + 1 + R.weight
      <3>1. R.weight = wr /\ a.weight = wl + 1
        BY <2>3, Zenon
      <3> HIDE DEF R, a
      <3> QED  BY <1>1, <3>1
    <2>6. Even(t) /\ ~on => Even(a) /\ Even(R)
      BY <1>6, <2>2
    <2>7. InsertInternal[t][v][i][done] = Rebalanced(now, Made(w, a, x, R, no, no))
      BY <1>5, <1>9
    <2>8. ~done => (now <=> Lopsided(a.weight, R.weight))
      BY <1>7, <1>9, <2>3
    <2> HIDE DEF a, w, no, now, on, x, R
    <2> QED  BY <1>2, <1>8, <2>3, <2>4, <2>5, <2>6, <2>7, <2>8
  <1>10. CASE ~(i <= wl)
    <2> DEFINE j == i - wl - 1
               c == InsertInternal[R][v][j][on]
    <2>1. j \in 0 .. wr
      BY <1>1, <1>10
    <2>2. Inserted(c, R, v, j) /\ (Even(R) /\ ~on => Even(c))
      BY <1>0, <2>1
    <2>3. Exact(c) /\ Clean(c) /\ c.weight = wr + 1 /\ Values[c] = Put(Values[R], j, v)
      BY <2>2, Zenon DEF Inserted
    <2>4. Mid(Values[L], x, Values[c]) = Put(Values[t], i, v)
      <3> DEFINE p == Values[L]
                 q == Values[R]
      <3>1. /\ p \in Seq(Value) /\ q \in Seq(Value) /\ x \in Value
            /\ i \in 0 .. Len(p) + 1 + Len(q) /\ i > Len(p) /\ i - Len(p) - 1 = j
        <4>1. Len(p) = wl /\ Len(q) = wr
          BY <1>3
        <4>2. p \in Seq(Value) /\ q \in Seq(Value) /\ x \in Value
          BY <1>2, <1>3
        <4>3. i \in 0 .. wl + 1 + wr /\ i > wl /\ i - wl - 1 = j
          BY <1>1, <1>10
        <4> HIDE DEF p, q, x, j
        <4> QED  BY <4>1, <4>2, <4>3
      <3> HIDE DEF p, q, x, j
      <3>2. Mid(p, x, Put(q, i - Len(p) - 1, v)) = Put(Mid(p, x, q), i, v)
        BY <3>1, PutRight
      <3> QED  BY <1>4, <2>3, <3>1, <3>2, Zenon DEF p, q
    <2>5. w = L.weight + 1 + c.weight
      <3>1. L.weight = wl /\ c.weight = wr + 1
        BY <2>3, Zenon
      <3> HIDE DEF L, c
      <3> QED  BY <1>1, <3>1
    <2>6. Even(t) /\ ~on => Even(L) /\ Even(c)
      BY <1>6, <2>2, Zenon
    <2>7. InsertInternal[t][v][i][done] = Rebalanced(now, Made(w, L, x, c, no, no))
      BY <1>5, <1>10
    <2>8. ~done => (now <=> Lopsided(L.weight, c.weight))
      BY <1>7, <1>10, <2>3, Zenon
    <2> HIDE DEF c, w, no, now, on, x, L
    <2> QED  BY <1>2, <1>8, <2>3, <2>4, <2>5, <2>6, <2>7, <2>8
  <1> QED  BY <1>9, <1>10

\* insert_internal puts the value where it is asked to, and leaves a tree as even as it was.
LEMMA InsertIs ==
    ASSUME NEW t, Exact(t), Clean(t), t.weight <= MaxSize,
           NEW v \in Value, NEW i \in 0 .. t.weight, NEW done \in BOOLEAN
    PROVE  LET u == InsertInternal[t][v][i][done]
           IN  Inserted(u, t, v, i) /\ (Even(t) /\ ~done => Even(u))
  <1> DEFINE Good(s) == Exact(s) /\ Clean(s) /\ s.weight <= MaxSize =>
                           \A j \in 0 .. s.weight, d \in BOOLEAN :
                              LET u == InsertInternal[s][v][j][d]
                              IN  Inserted(u, s, v, j) /\ (Even(s) /\ ~d => Even(u))
             T == {s \in Subtree : Good(s)}
  <1>0. MaxSize \in Nat
    BY OmtAssumption
  <1>1. NODE_NULL \in T
    <2>1. ASSUME NEW j \in 0 .. NODE_NULL.weight, NEW d \in BOOLEAN
          PROVE  LET u == InsertInternal[NODE_NULL][v][j][d]
                 IN  Inserted(u, NODE_NULL, v, j) /\ (Even(NODE_NULL) /\ ~d => Even(u))
      <3>1. j \in 0 .. 0
        BY NullIsSound
      <3> QED  BY <3>1, InsertNull
    <2> QED  BY <2>1, NullIsSubtree
  <1>2. ASSUME NEW s \in Subtree, s # NODE_NULL, s.left \in T, s.right \in T PROVE s \in T
    <2> SUFFICES ASSUME Exact(s), Clean(s), s.weight <= MaxSize,
                        NEW j \in 0 .. s.weight, NEW d \in BOOLEAN
                 PROVE  LET u == InsertInternal[s][v][j][d]
                        IN  Inserted(u, s, v, j) /\ (Even(s) /\ ~d => Even(u))
      OBVIOUS
    <2>1. s.weight = s.left.weight + 1 + s.right.weight /\ s.left.weight \in Nat /\ s.right.weight \in Nat
      BY <1>2, ExactSum
    <2>2. s.left.weight <= MaxSize /\ s.right.weight <= MaxSize
      BY <1>0, <2>1
    <2>3. Exact(s.left) /\ Exact(s.right) /\ Clean(s.left) /\ Clean(s.right)
      BY <1>2, ExactParts, OfNode
    <2>4. Good(s.left) /\ Good(s.right)
      BY <1>2
    <2>5. \A k \in 0 .. s.left.weight, e \in BOOLEAN :
              LET u == InsertInternal[s.left][v][k][e]
              IN  Inserted(u, s.left, v, k) /\ (Even(s.left) /\ ~e => Even(u))
      BY <2>2, <2>3, <2>4
    <2>6. \A k \in 0 .. s.right.weight, e \in BOOLEAN :
              LET u == InsertInternal[s.right][v][k][e]
              IN  Inserted(u, s.right, v, k) /\ (Even(s.right) /\ ~e => Even(u))
      BY <2>2, <2>3, <2>4
    <2> QED  BY <1>2, <2>5, <2>6, InsertNodeIs
  <1> HIDE DEF T
  <1>3. Subtree \subseteq T
    BY <1>1, <1>2, TreeInduction
  <1>4. t \in T
    BY <1>3, ExactWeight
  <1> QED  BY <1>4 DEF T

-----------------------------------------------------------------------------
(* Deletion                                                                *)

Cut(s, i) == S!RemoveAt(s, i + 1)

CutIs(w, s, i) ==
    /\ Len(w) = Len(s) - 1
    /\ \A k \in 1 .. Len(s) - 1 : w[k] = IF k <= i THEN s[k] ELSE s[k + 1]

LEMMA CutType ==
    ASSUME NEW U, NEW s \in Seq(U), NEW i \in 0 .. Len(s) - 1
    PROVE  Cut(s, i) \in Seq(U) /\ CutIs(Cut(s, i), s, i)
  <1> DEFINE a == SubSeq(s, 1, i)
             c == SubSeq(s, i + 2, Len(s))
             w == a \o c
  <1>0. i \in Nat /\ Len(s) \in Nat /\ i < Len(s) /\ (i + 1) - 1 = i /\ (i + 1) + 1 = i + 2
    OBVIOUS
  <1>1. a \in Seq(U) /\ Len(a) = i /\ \A k \in 1 .. i : a[k] = s[k]
    OBVIOUS
  <1>2. c \in Seq(U) /\ Len(c) = Len(s) - i - 1 /\ \A k \in 1 .. Len(s) - i - 1 : c[k] = s[i + 1 + k]
    <2>1. c \in Seq(U) /\ Len(c) = Len(s) - i - 1
      OBVIOUS
    <2>2. ASSUME NEW k \in 1 .. Len(s) - i - 1 PROVE c[k] = s[i + 1 + k]
      OBVIOUS
    <2> QED  BY <2>1, <2>2
  <1>3. Cut(s, i) = w
    BY <1>0 DEF Cut, S!RemoveAt
  <1> HIDE DEF a, c
  <1>4. w \in Seq(U) /\ Len(w) = Len(a) + Len(c)
        /\ \A k \in 1 .. Len(a) + Len(c) : w[k] = IF k <= Len(a) THEN a[k] ELSE c[k - Len(a)]
    <2>1. a \in Seq(U) /\ c \in Seq(U)
      BY <1>1, <1>2
    <2>2. w \in Seq(U) /\ Len(w) = Len(a) + Len(c)
      BY <2>1
    <2>3. \A k \in 1 .. Len(a) + Len(c) : w[k] = IF k <= Len(a) THEN a[k] ELSE c[k - Len(a)]
      BY <2>1
    <2> QED  BY <2>2, <2>3
  <1> HIDE DEF w
  <1>5. Len(w) = Len(s) - 1
    BY <1>0, <1>1, <1>2, <1>4
  <1>6. ASSUME NEW k \in 1 .. Len(s) - 1
        PROVE  w[k] = IF k <= i THEN s[k] ELSE s[k + 1]
    <2>1. w[k] = IF k <= i THEN a[k] ELSE c[k - i]
      <3>1. k \in 1 .. Len(a) + Len(c)
        BY <1>0, <1>1, <1>2
      <3> QED  BY <1>1, <1>4, <3>1
    <2>2. CASE k <= i
      BY <1>1, <2>1, <2>2
    <2>3. CASE k > i
      <3>1. k - i \in 1 .. Len(s) - i - 1 /\ i + 1 + (k - i) = k + 1
        BY <1>0, <2>3
      <3> QED  BY <1>2, <2>1, <2>3, <3>1
    <2> QED  BY <1>0, <2>2, <2>3
  <1> QED  BY <1>3, <1>4, <1>5, <1>6 DEF CutIs

LEMMA CutUnique ==
    ASSUME NEW U, NEW s \in Seq(U), NEW i \in 0 .. Len(s) - 1, NEW w \in Seq(U), CutIs(w, s, i)
    PROVE  w = Cut(s, i)
  <1> DEFINE p == Cut(s, i)
  <1>1. p \in Seq(U) /\ CutIs(p, s, i)
    BY CutType
  <1> HIDE DEF p
  <1>2. Len(w) = Len(p) /\ \A k \in 1 .. Len(w) : w[k] = p[k]
    BY <1>1 DEF CutIs
  <1> QED  BY <1>1, <1>2, SameSequence DEF p

LEMMA CutLeft ==
    ASSUME NEW U, NEW L \in Seq(U), NEW x \in U, NEW R \in Seq(U), NEW i \in 0 .. Len(L) - 1
    PROVE  Mid(Cut(L, i), x, R) = Cut(Mid(L, x, R), i)
  <1> DEFINE p == Cut(L, i)
             s == Mid(L, x, R)
             w == Mid(p, x, R)
  <1>0. i \in Nat /\ Len(L) \in Nat /\ Len(R) \in Nat /\ i < Len(L)
    OBVIOUS
  <1>1. p \in Seq(U) /\ CutIs(p, L, i)
    BY CutType
  <1>2. s \in Seq(U) /\ Spliced(s, L, x, R)
    BY MidIs
  <1> HIDE DEF p, s
  <1>3. w \in Seq(U) /\ Spliced(w, p, x, R)
    BY <1>1, MidIs
  <1> HIDE DEF w
  <1>4. Len(p) = Len(L) - 1 /\ Len(s) = Len(L) + 1 + Len(R) /\ Len(w) = Len(s) - 1
    BY <1>0, <1>1, <1>2, <1>3 DEF CutIs, Spliced
  <1>5. ASSUME NEW k \in 1 .. Len(s) - 1
        PROVE  w[k] = IF k <= i THEN s[k] ELSE s[k + 1]
    <2>0. k \in 1 .. Len(L) + Len(R)
      BY <1>0, <1>4
    <2>1. w[k] = IF k <= Len(L) - 1 THEN p[k] ELSE IF k = Len(L) THEN x ELSE R[k - Len(L)]
      <3>1. k \in 1 .. Len(p) + 1 + Len(R) /\ Len(p) + 1 = Len(L) /\ k - Len(p) - 1 = k - Len(L)
        BY <1>0, <1>4
      <3> QED  BY <1>3, <1>4, <3>1 DEF Spliced
    <2>2. k \in 1 .. Len(L) - 1 => p[k] = IF k <= i THEN L[k] ELSE L[k + 1]
      BY <1>1 DEF CutIs
    <2>3. s[k] = IF k <= Len(L) THEN L[k] ELSE IF k = Len(L) + 1 THEN x ELSE R[k - Len(L) - 1]
      <3>1. k \in 1 .. Len(L) + 1 + Len(R)
        BY <1>0, <2>0
      <3> QED  BY <1>2, <3>1 DEF Spliced
    <2>4. s[k + 1] = IF k + 1 <= Len(L) THEN L[k + 1]
                     ELSE IF k + 1 = Len(L) + 1 THEN x ELSE R[(k + 1) - Len(L) - 1]
      <3>1. k + 1 \in 1 .. Len(L) + 1 + Len(R)
        BY <1>0, <2>0
      <3> QED  BY <1>2, <3>1 DEF Spliced
    <2>5. CASE k <= i
      <3>1. k \in 1 .. Len(L) - 1 /\ k <= Len(L) - 1 /\ k <= Len(L)
        BY <1>0, <2>0, <2>5
      <3> QED  BY <2>1, <2>2, <2>3, <2>5, <3>1
    <2>6. CASE k > i /\ k < Len(L)
      <3>1. k \in 1 .. Len(L) - 1 /\ k <= Len(L) - 1 /\ k + 1 <= Len(L) /\ ~(k <= i)
        BY <1>0, <2>0, <2>6
      <3> QED  BY <2>1, <2>2, <2>4, <3>1
    <2>7. CASE k >= Len(L)
      <3>1. /\ ~(k <= i) /\ ~(k <= Len(L) - 1) /\ ~(k + 1 <= Len(L))
            /\ k = Len(L) <=> k + 1 = Len(L) + 1
            /\ (k + 1) - Len(L) - 1 = k - Len(L)
        BY <1>0, <2>0, <2>7
      <3> QED  BY <2>1, <2>4, <3>1
    <2> QED  BY <1>0, <2>0, <2>5, <2>6, <2>7
  <1>6. CutIs(w, s, i)
    BY <1>4, <1>5 DEF CutIs
  <1>7. i \in 0 .. Len(s) - 1
    BY <1>0, <1>4
  <1>8. w = Cut(s, i)
    BY <1>2, <1>3, <1>6, <1>7, CutUnique
  <1> QED  BY <1>8 DEF w, s, p

LEMMA CutRight ==
    ASSUME NEW U, NEW L \in Seq(U), NEW x \in U, NEW R \in Seq(U),
           NEW i \in 0 .. Len(L) + Len(R), i > Len(L)
    PROVE  /\ i - Len(L) - 1 \in 0 .. Len(R) - 1
           /\ Mid(L, x, Cut(R, i - Len(L) - 1)) = Cut(Mid(L, x, R), i)
  <1> DEFINE j == i - Len(L) - 1
             p == Cut(R, j)
             s == Mid(L, x, R)
             w == Mid(L, x, p)
  <1>0. i \in Nat /\ Len(L) \in Nat /\ Len(R) \in Nat /\ i <= Len(L) + Len(R)
    OBVIOUS
  <1>00. j \in 0 .. Len(R) - 1 /\ j \in Nat /\ i = Len(L) + 1 + j /\ Len(R) > 0
    BY <1>0
  <1> HIDE DEF j
  <1>1. p \in Seq(U) /\ CutIs(p, R, j)
    BY <1>00, CutType
  <1>2. s \in Seq(U) /\ Spliced(s, L, x, R)
    BY MidIs
  <1> HIDE DEF p, s
  <1>3. w \in Seq(U) /\ Spliced(w, L, x, p)
    BY <1>1, MidIs
  <1> HIDE DEF w
  <1>4. Len(p) = Len(R) - 1 /\ Len(s) = Len(L) + 1 + Len(R) /\ Len(w) = Len(s) - 1
    BY <1>0, <1>1, <1>2, <1>3 DEF CutIs, Spliced
  <1>5. ASSUME NEW k \in 1 .. Len(s) - 1
        PROVE  w[k] = IF k <= i THEN s[k] ELSE s[k + 1]
    <2> DEFINE m == k - Len(L) - 1
    <2>0. k \in 1 .. Len(L) + Len(R)
      BY <1>0, <1>4
    <2>1. w[k] = IF k <= Len(L) THEN L[k] ELSE IF k = Len(L) + 1 THEN x ELSE p[m]
      <3>1. k \in 1 .. Len(L) + 1 + Len(p)
        BY <1>0, <1>4
      <3> QED  BY <1>3, <3>1 DEF Spliced
    <2>2. m \in 1 .. Len(R) - 1 => p[m] = IF m <= j THEN R[m] ELSE R[m + 1]
      BY <1>1 DEF CutIs
    <2>3. s[k] = IF k <= Len(L) THEN L[k] ELSE IF k = Len(L) + 1 THEN x ELSE R[m]
      <3>1. k \in 1 .. Len(L) + 1 + Len(R)
        BY <1>0, <2>0
      <3> QED  BY <1>2, <3>1 DEF Spliced
    <2>4. s[k + 1] = IF k + 1 <= Len(L) THEN L[k + 1]
                     ELSE IF k + 1 = Len(L) + 1 THEN x ELSE R[(k + 1) - Len(L) - 1]
      <3>1. k + 1 \in 1 .. Len(L) + 1 + Len(R)
        BY <1>0, <2>0
      <3> QED  BY <1>2, <3>1 DEF Spliced
    <2>5. CASE k <= Len(L) + 1
      <3>1. k <= i /\ (k <= Len(L) \/ (k = Len(L) + 1 /\ ~(k <= Len(L))))
        BY <1>0, <1>00, <2>0, <2>5
      <3> HIDE DEF m
      <3> QED  BY <2>1, <2>3, <3>1
    <2>6. CASE k > Len(L) + 1
      <3>1. /\ ~(k <= Len(L)) /\ k # Len(L) + 1 /\ m \in 1 .. Len(R) - 1
            /\ (k <= i <=> m <= j)
            /\ ~(k + 1 <= Len(L)) /\ k + 1 # Len(L) + 1 /\ (k + 1) - Len(L) - 1 = m + 1
        BY <1>0, <1>00, <2>0, <2>6
      <3> HIDE DEF m
      <3> QED  BY <2>1, <2>2, <2>3, <2>4, <3>1
    <2> QED  BY <1>0, <2>0, <2>5, <2>6
  <1>6. CutIs(w, s, i)
    BY <1>4, <1>5 DEF CutIs
  <1>7. i \in 0 .. Len(s) - 1
    BY <1>0, <1>4
  <1>8. w = Cut(s, i)
    BY <1>2, <1>3, <1>6, <1>7, CutUnique
  <1> QED  BY <1>00, <1>8 DEF w, s, p, j

\* Cutting the value in the middle: one of its neighbours takes its place.
LEMMA CutMid ==
    ASSUME NEW U, NEW L \in Seq(U), NEW x \in U, NEW R \in Seq(U)
    PROVE  /\ Len(L) = 0 => R = Cut(Mid(L, x, R), Len(L))
           /\ Len(R) = 0 => L = Cut(Mid(L, x, R), Len(L))
           /\ Len(R) # 0 => Head(R) \in U /\ Mid(L, Head(R), Cut(R, 0)) = Cut(Mid(L, x, R), Len(L))
  <1> DEFINE s == Mid(L, x, R)
  <1>0. Len(L) \in Nat /\ Len(R) \in Nat
    OBVIOUS
  <1>1. s \in Seq(U) /\ Spliced(s, L, x, R)
    BY MidIs
  <1> HIDE DEF s
  <1>2. Len(s) = Len(L) + 1 + Len(R) /\ Len(L) \in 0 .. Len(s) - 1 /\ Len(s) - 1 = Len(L) + Len(R)
    BY <1>0, <1>1 DEF Spliced
  <1>3. \A k \in 1 .. Len(L) + Len(R) :
           (IF k <= Len(L) THEN s[k] ELSE s[k + 1]) = IF k <= Len(L) THEN L[k] ELSE R[k - Len(L)]
    <2> SUFFICES ASSUME NEW k \in 1 .. Len(L) + Len(R)
                 PROVE  (IF k <= Len(L) THEN s[k] ELSE s[k + 1])
                           = IF k <= Len(L) THEN L[k] ELSE R[k - Len(L)]
      OBVIOUS
    <2>1. CASE k <= Len(L)
      <3>1. k \in 1 .. Len(L) + 1 + Len(R)
        BY <1>0
      <3> QED  BY <1>1, <2>1, <3>1 DEF Spliced
    <2>2. CASE ~(k <= Len(L))
      <3>1. k + 1 \in 1 .. Len(L) + 1 + Len(R) /\ ~(k + 1 <= Len(L)) /\ k + 1 # Len(L) + 1
            /\ (k + 1) - Len(L) - 1 = k - Len(L)
        BY <1>0, <2>2
      <3> QED  BY <1>1, <2>2, <3>1 DEF Spliced
    <2> QED  BY <2>1, <2>2
  <1>4. ASSUME Len(L) = 0 PROVE R = Cut(s, Len(L))
    <2>1. Len(R) = Len(s) - 1
      BY <1>0, <1>2, <1>4
    <2>2. ASSUME NEW k \in 1 .. Len(s) - 1 PROVE R[k] = IF k <= Len(L) THEN s[k] ELSE s[k + 1]
      <3>1. k \in 1 .. Len(L) + Len(R) /\ ~(k <= Len(L)) /\ k - Len(L) = k
        BY <1>0, <1>2, <1>4
      <3> QED  BY <1>3, <3>1
    <2>3. CutIs(R, s, Len(L))
      BY <2>1, <2>2 DEF CutIs
    <2> QED  BY <1>1, <1>2, <2>3, CutUnique
  <1>5. ASSUME Len(R) = 0 PROVE L = Cut(s, Len(L))
    <2>1. Len(L) = Len(s) - 1
      BY <1>0, <1>2, <1>5
    <2>2. ASSUME NEW k \in 1 .. Len(s) - 1 PROVE L[k] = IF k <= Len(L) THEN s[k] ELSE s[k + 1]
      <3>1. k \in 1 .. Len(L) + Len(R) /\ k <= Len(L)
        BY <1>0, <1>2, <1>5
      <3> QED  BY <1>3, <3>1
    <2>3. CutIs(L, s, Len(L))
      BY <2>1, <2>2 DEF CutIs
    <2> QED  BY <1>1, <1>2, <2>3, CutUnique
  <1>6. ASSUME Len(R) # 0 PROVE Head(R) \in U /\ Mid(L, Head(R), Cut(R, 0)) = Cut(s, Len(L))
    <2> DEFINE y == Head(R)
               q == Cut(R, 0)
               w == Mid(L, y, q)
    <2>1. y = R[1] /\ y \in U
      BY <1>0, <1>6
    <2> HIDE DEF y
    <2>2. 0 \in 0 .. Len(R) - 1
      BY <1>0, <1>6
    <2>3. q \in Seq(U) /\ CutIs(q, R, 0)
      <3> DEFINE z == 0
      <3>1. z \in 0 .. Len(R) - 1
        BY <2>2
      <3> HIDE DEF z
      <3>2. Cut(R, z) \in Seq(U) /\ CutIs(Cut(R, z), R, z)
        BY <3>1, CutType
      <3> QED  BY <3>2 DEF z
    <2> HIDE DEF q
    <2>4. w \in Seq(U) /\ Spliced(w, L, y, q)
      BY <2>1, <2>3, MidIs
    <2> HIDE DEF w
    <2>5. Len(q) = Len(R) - 1 /\ \A k \in 1 .. Len(R) - 1 : q[k] = R[k + 1]
      <3>1. \A k \in 1 .. Len(R) - 1 : ~(k <= 0)
        BY <1>0
      <3> QED  BY <2>3, <3>1 DEF CutIs
    <2>6. Len(w) = Len(s) - 1
      BY <1>0, <1>2, <2>4, <2>5 DEF Spliced
    <2>7. ASSUME NEW k \in 1 .. Len(s) - 1 PROVE w[k] = IF k <= Len(L) THEN s[k] ELSE s[k + 1]
      <3>1. k \in 1 .. Len(L) + 1 + Len(q) /\ k \in 1 .. Len(L) + Len(R)
        BY <1>0, <1>2, <2>5
      <3>2. w[k] = IF k <= Len(L) THEN L[k] ELSE IF k = Len(L) + 1 THEN y ELSE q[k - Len(L) - 1]
        BY <2>4, <3>1 DEF Spliced
      <3>3. CASE k <= Len(L)
        BY <1>3, <3>1, <3>2, <3>3
      <3>4. CASE k = Len(L) + 1
        <4>1. ~(k <= Len(L)) /\ k - Len(L) = 1
          BY <1>0, <3>4
        <4> QED  BY <1>3, <2>1, <3>1, <3>2, <3>4, <4>1
      <3>5. CASE k > Len(L) + 1
        <4>1. ~(k <= Len(L)) /\ k # Len(L) + 1 /\ k - Len(L) - 1 \in 1 .. Len(R) - 1
              /\ (k - Len(L) - 1) + 1 = k - Len(L)
          BY <1>0, <3>1, <3>5
        <4> QED  BY <1>3, <2>5, <3>1, <3>2, <4>1
      <3> QED  BY <1>0, <3>1, <3>3, <3>4, <3>5
    <2>8. CutIs(w, s, Len(L))
      BY <2>6, <2>7 DEF CutIs
    <2>9. w = Cut(s, Len(L))
      BY <1>1, <1>2, <2>4, <2>8, CutUnique
    <2> QED  BY <2>1, <2>9 DEF w, q, y
  <1> QED  BY <1>4, <1>5, <1>6 DEF s

LEMMA CutAlone ==
    ASSUME NEW U, NEW L \in Seq(U), NEW x \in U, NEW R \in Seq(U)
    PROVE  /\ Len(L) = 0 => R = Cut(Mid(L, x, R), 0)
           /\ Len(R) = 0 => L = Cut(Mid(L, x, R), Len(L))
  BY CutMid

LEMMA DeleteStep ==
    ASSUME NEW t \in Subtree, t # NODE_NULL, NEW i \in Slot, NEW done \in BOOLEAN,
           NEW now, now = (~done /\ DeleteLopsides(t, i))
    PROVE  /\ i = t.left.weight /\ t.left = NODE_NULL => DeleteInternal[t][i][done] = t.right
           /\ i = t.left.weight /\ t.left # NODE_NULL /\ t.right = NODE_NULL =>
                 DeleteInternal[t][i][done] = t.left
           /\ i < t.left.weight =>
                 DeleteInternal[t][i][done] =
                     Rebalanced(now, Made(t.weight - 1, DeleteInternal[t.left][i][done \/ now],
                                          t.value, t.right, t.marked, t.below))
           /\ i = t.left.weight /\ t.left # NODE_NULL /\ t.right # NODE_NULL =>
                 DeleteInternal[t][i][done] =
                     Rebalanced(now, Made(t.weight - 1, t.left, Head(Values[t.right]),
                                          DeleteInternal[t.right][0][done \/ now],
                                          t.marked, t.below))
           /\ i # t.left.weight /\ ~(i < t.left.weight) =>
                 DeleteInternal[t][i][done] =
                     Rebalanced(now, Made(t.weight - 1, t.left, t.value,
                                          DeleteInternal[t.right][i - t.left.weight - 1][done \/ now],
                                          t.marked, t.below))
  <1> DEFINE L == DeleteInternal[t.left]
             R == DeleteInternal[t.right]
             a == L[i][done \/ now]
             hit == i = t.left.weight
             j == IF hit THEN 0 ELSE i - t.left.weight - 1
             c == R[j][done \/ now]
             x == IF hit THEN Head(Values[t.right]) ELSE t.value
             w == t.weight - 1
  <1>1. DeleteInternal[t] = DeleteBy(t, L, R)
    BY DeleteInternalEquation
  <1> HIDE DEF L, R
  <1>2. DeleteInternal[t][i][done] = DeleteNode(t, L, R, i, done)
    BY <1>1 DEF DeleteBy
  <1>3. DeleteNode(t, L, R, i, done) =
           IF hit /\ t.left = NODE_NULL THEN t.right
           ELSE IF hit /\ t.right = NODE_NULL THEN t.left
           ELSE Rebalanced(now, IF i < t.left.weight THEN WithLeft(t, w, a) ELSE WithSuccessor(t, w, x, c))
    BY DEF DeleteNode, WithLeft, WithSuccessor
  <1> HIDE DEF a, c, w, x
  <1>4. /\ WithLeft(t, w, a) = Made(w, a, t.value, t.right, t.marked, t.below)
        /\ WithSuccessor(t, w, x, c) = Made(w, t.left, x, c, t.marked, t.below)
    <2> HIDE DEF hit, j
    <2>1. WithLeft(t, w, a) = Made(w, a, t.value, t.right, t.marked, t.below)
      BY NodeExcept, ZenonT(30)
    <2>2. WithSuccessor(t, w, x, c) = Made(w, t.left, x, c, t.marked, t.below)
      BY NodeExcept, ZenonT(30)
    <2> QED  BY <2>1, <2>2
  <1> DEFINE D == DeleteInternal[t][i][done]
  <1>5. D = IF hit /\ t.left = NODE_NULL THEN t.right
            ELSE IF hit /\ t.right = NODE_NULL THEN t.left
            ELSE Rebalanced(now, IF i < t.left.weight THEN WithLeft(t, w, a) ELSE WithSuccessor(t, w, x, c))
    BY <1>2, <1>3
  <1> HIDE DEF D
  <1>6. hit /\ t.left = NODE_NULL => D = t.right
    BY <1>5
  <1>7. hit /\ t.left # NODE_NULL /\ t.right = NODE_NULL => D = t.left
    BY <1>5
  <1>8. i < t.left.weight => ~hit
    <2>1. NODE_NULL.weight \in Nat /\ t.left \in Subtree
      BY Parts, NullIsSound
    <2>2. t.left.weight \in Nat
      BY <2>1, Parts
    <2>3. i \in Nat
      BY OmtAssumption DEF Slot
    <2> QED  BY <2>2, <2>3
  <1>9. i < t.left.weight => D = Rebalanced(now, Made(w, a, t.value, t.right, t.marked, t.below))
    <2> HIDE DEF hit
    <2> QED  BY <1>4, <1>5, <1>8
  <1>10. hit /\ t.left # NODE_NULL /\ t.right # NODE_NULL =>
            D = Rebalanced(now, Made(w, t.left, x, c, t.marked, t.below))
    <2> HIDE DEF hit
    <2> QED  BY <1>4, <1>5, <1>8
  <1>11. ~hit /\ ~(i < t.left.weight) => D = Rebalanced(now, Made(w, t.left, x, c, t.marked, t.below))
    <2> HIDE DEF hit
    <2> QED  BY <1>4, <1>5
  <1>12. /\ hit => x = Head(Values[t.right]) /\ c = R[0][done \/ now]
         /\ ~hit => x = t.value /\ c = R[i - t.left.weight - 1][done \/ now]
    BY DEF x, c
  <1>13. hit /\ t.left # NODE_NULL /\ t.right # NODE_NULL =>
            D = Rebalanced(now, Made(w, t.left, Head(Values[t.right]), R[0][done \/ now], t.marked, t.below))
    <2> HIDE DEF hit
    <2> QED  BY <1>10, <1>12
  <1>14. ~hit /\ ~(i < t.left.weight) =>
            D = Rebalanced(now, Made(w, t.left, t.value, R[i - t.left.weight - 1][done \/ now],
                                     t.marked, t.below))
    <2> HIDE DEF hit
    <2> QED  BY <1>11, <1>12
  <1> QED  BY <1>6, <1>7, <1>9, <1>13, <1>14 DEF a, L, R, w, D

Deleted(u, t, i) ==
    /\ Exact(u) /\ Clean(u)
    /\ u.weight = t.weight - 1
    /\ Values[u] = Cut(Values[t], i)

LEMMA DeleteNodeIs ==
    ASSUME NEW t, Exact(t), Clean(t), t # NODE_NULL, t.weight <= MaxSize + 1,
           NEW i \in Slot, i < t.weight, NEW done \in BOOLEAN,
           \A j \in Slot, d \in BOOLEAN : j < t.left.weight =>
              LET u == DeleteInternal[t.left][j][d]
              IN  Deleted(u, t.left, j) /\ (Even(t.left) /\ ~d => Even(u)),
           \A j \in Slot, d \in BOOLEAN : j < t.right.weight =>
              LET u == DeleteInternal[t.right][j][d]
              IN  Deleted(u, t.right, j) /\ (Even(t.right) /\ ~d => Even(u))
    PROVE  LET u == DeleteInternal[t][i][done]
           IN  Deleted(u, t, i) /\ (Even(t) /\ ~done => Even(u))
  <1> DEFINE now == ~done /\ DeleteLopsides(t, i)
             on == done \/ now
             L == t.left
             R == t.right
             x == t.value
             w == t.weight - 1
             wl == t.left.weight
             wr == t.right.weight
             no == FALSE
             u == DeleteInternal[t][i][done]
  <1> SUFFICES Deleted(u, t, i) /\ (Even(t) /\ ~done => Even(u))
    OBVIOUS
  <1>0. now \in BOOLEAN /\ on \in BOOLEAN /\ MaxSize \in Nat /\ t \in Subtree /\ no \in BOOLEAN
    BY OmtAssumption, ExactWeight
  <1>1. t.weight = wl + 1 + wr /\ wl \in Nat /\ wr \in Nat /\ w \in Nat /\ w <= MaxSize + 1
        /\ t.weight \in Nat /\ i \in Nat
    BY <1>0, ExactSum DEF Slot
  <1>2. Exact(L) /\ Exact(R) /\ Clean(L) /\ Clean(R) /\ t.marked = no /\ t.below = no /\ x \in Value
    BY <1>0, ExactParts, OfNode, Parts
  <1>3. wl = Len(Values[L]) /\ wr = Len(Values[R]) /\ L \in Subtree /\ R \in Subtree
        /\ Values[L] \in Seq(Value) /\ Values[R] \in Seq(Value)
    BY <1>2, ExactWeight, ValuesType
  <1>4. Values[t] = Mid(Values[L], x, Values[R])
    BY <1>0, NodeValues
  <1>5. (L = NODE_NULL <=> wl = 0) /\ (R = NODE_NULL <=> wr = 0)
    BY <1>2, ExactNull
  <1>6. Even(t) => Even(L) /\ Even(R)
    BY <1>0, OfNode
  <1>step. /\ i = wl /\ L = NODE_NULL => u = R
           /\ i = wl /\ L # NODE_NULL /\ R = NODE_NULL => u = L
           /\ i < wl => u = Rebalanced(now, Made(w, DeleteInternal[L][i][on], x, R, no, no))
           /\ i = wl /\ L # NODE_NULL /\ R # NODE_NULL =>
                 u = Rebalanced(now, Made(w, L, Head(Values[R]), DeleteInternal[R][0][on], no, no))
           /\ i # wl /\ ~(i < wl) =>
                 u = Rebalanced(now, Made(w, L, x, DeleteInternal[R][i - wl - 1][on], no, no))
    <2>1. now = (~done /\ DeleteLopsides(t, i)) /\ t \in Subtree
      BY <1>0
    <2>2. t.marked = no /\ t.below = no
      BY <1>2
    <2>3. /\ i = t.left.weight /\ t.left = NODE_NULL => DeleteInternal[t][i][done] = t.right
          /\ i = t.left.weight /\ t.left # NODE_NULL /\ t.right = NODE_NULL =>
                DeleteInternal[t][i][done] = t.left
          /\ i < t.left.weight =>
                DeleteInternal[t][i][done] =
                    Rebalanced(now, Made(t.weight - 1, DeleteInternal[t.left][i][done \/ now],
                                         t.value, t.right, t.marked, t.below))
          /\ i = t.left.weight /\ t.left # NODE_NULL /\ t.right # NODE_NULL =>
                DeleteInternal[t][i][done] =
                    Rebalanced(now, Made(t.weight - 1, t.left, Head(Values[t.right]),
                                         DeleteInternal[t.right][0][done \/ now],
                                         t.marked, t.below))
          /\ i # t.left.weight /\ ~(i < t.left.weight) =>
                DeleteInternal[t][i][done] =
                    Rebalanced(now, Made(t.weight - 1, t.left, t.value,
                                         DeleteInternal[t.right][i - t.left.weight - 1][done \/ now],
                                         t.marked, t.below))
      <3> HIDE DEF now, no, u
      <3> QED  BY <2>1, DeleteStep
    <2> QED  BY <2>2, <2>3
  <1>7. DeleteLopsides(t, i) <=> /\ ~(i = wl /\ (L = NODE_NULL \/ R = NODE_NULL))
                                 /\ IF i < wl THEN Lopsided(wl - 1, wr) ELSE Lopsided(wl, wr - 1)
    <2>1. wl + (-1) = wl - 1 /\ wr + (-1) = wr - 1 /\ wl + 0 = wl /\ wr + 0 = wr
      BY <1>1
    <2>2. NODE_NULL \in {L, R} <=> L = NODE_NULL \/ R = NODE_NULL
      OBVIOUS
    <2> QED  BY <2>1, <2>2 DEF DeleteLopsides, WillNeedRebalance
  \* What is left to show once the new node is known.
  <1>8. ASSUME NEW a, NEW y \in Value, NEW c, Exact(a), Exact(c), Clean(a), Clean(c),
               w = a.weight + 1 + c.weight,
               Mid(Values[a], y, Values[c]) = Cut(Values[t], i),
               Even(t) /\ ~on => Even(a) /\ Even(c),
               ~done => (now <=> Lopsided(a.weight, c.weight)),
               u = Rebalanced(now, Made(w, a, y, c, no, no))
        PROVE  Deleted(u, t, i) /\ (Even(t) /\ ~done => Even(u))
    <2> DEFINE g == Made(w, a, y, c, no, no)
    <2> HIDE DEF w, no, now, on, x, g, u
    <2>1. /\ Exact(g) /\ g # NODE_NULL
          /\ g.weight = w /\ g.left = a /\ g.right = c /\ g.marked = no /\ g.below = no
          /\ Values[g] = Mid(Values[a], y, Values[c])
      <3>1. w <= MaxSize + 1 /\ no \in BOOLEAN
        BY <1>0, <1>1
      <3>2. g = Made(w, a, y, c, no, no)
        BY DEF g
      <3> QED  BY <1>8, <3>1, <3>2, MadeNode
    <2>2. g \in Subtree
      BY <2>1, ExactWeight
    <2>3. Clean(g)
      BY <1>8, <2>1, <2>2, OfNode DEF no
    <2>4. g.weight <= MaxSize + 1
      BY <1>1, <2>1
    <2>5. Exact(u) /\ Clean(u) /\ u.weight = g.weight /\ Values[u] = Values[g] /\ (now => Even(u))
      <3>1. u = Rebalanced(now, g)
        BY <1>8 DEF g
      <3> DEFINE z == Rebalanced(now, g)
      <3>2. Exact(z) /\ Clean(z) /\ z.weight = g.weight /\ Values[z] = Values[g] /\ (now => Even(z))
        BY <1>0, <2>1, <2>3, <2>4, RebalancedIs
      <3> HIDE DEF z
      <3>3. u = z
        BY <3>1 DEF z
      <3> QED  BY <3>2, <3>3
    <2>6. u.weight = t.weight - 1
      BY <2>1, <2>5 DEF w
    <2>7. Deleted(u, t, i)
      BY <1>8, <2>1, <2>5, <2>6 DEF Deleted
    <2>8. ASSUME Even(t), ~done, ~now PROVE Even(u)
      <3>1. Even(a) /\ Even(c)
        BY <1>8, <2>8 DEF on
      <3>2. ~WillNeedRebalance(g, 0, 0)
        <4>1. a.weight \in Nat /\ c.weight \in Nat
          BY <1>8, ExactWeight
        <4>2. a.weight + 0 = a.weight /\ c.weight + 0 = c.weight
          BY <4>1
        <4> QED  BY <1>8, <2>1, <2>8, <4>2 DEF WillNeedRebalance
      <3>3. Even(g)
        BY <2>1, <2>2, <3>1, <3>2, OfNode
      <3>4. u = g
        BY <1>8, <2>8 DEF Rebalanced, g
      <3> QED  BY <3>3, <3>4
    <2>9. Even(t) /\ ~done => Even(u)
      BY <2>5, <2>8
    <2> QED  BY <2>7, <2>9
  <1>9. CASE i < wl
    <2> DEFINE a == DeleteInternal[L][i][on]
    <2>1. i < t.left.weight
      BY <1>9
    <2>2. Deleted(a, L, i) /\ (Even(L) /\ ~on => Even(a))
      BY <1>0, <2>1
    <2>3. Exact(a) /\ Clean(a) /\ a.weight = wl - 1 /\ Values[a] = Cut(Values[L], i)
      BY <2>2 DEF Deleted
    <2>4. Mid(Values[a], x, Values[R]) = Cut(Values[t], i)
      <3> DEFINE p == Values[L]
                 q == Values[R]
      <3>1. p \in Seq(Value) /\ q \in Seq(Value) /\ x \in Value
        BY <1>2, <1>3
      <3>2. i \in 0 .. Len(p) - 1
        <4>1. Len(p) = wl
          BY <1>3
        <4> HIDE DEF p
        <4> QED  BY <1>1, <1>9, <4>1
      <3> HIDE DEF p, q, x
      <3>3. Mid(Cut(p, i), x, q) = Cut(Mid(p, x, q), i)
        BY <3>1, <3>2, CutLeft
      <3> QED  BY <1>4, <2>3, <3>3 DEF p, q
    <2>5. w = a.weight + 1 + R.weight
      <3>1. R.weight = wr /\ a.weight = wl - 1
        BY <2>3
      <3> HIDE DEF R, a
      <3> QED  BY <1>1, <3>1
    <2>6. Even(t) /\ ~on => Even(a) /\ Even(R)
      BY <1>6, <2>2
    <2>7. u = Rebalanced(now, Made(w, a, x, R, no, no))
      BY <1>step, <1>9
    <2>8. ~done => (now <=> Lopsided(a.weight, R.weight))
      <3>1. ~(i = wl)
        BY <1>1, <1>9
      <3> QED  BY <1>7, <1>9, <2>3, <3>1
    <2> HIDE DEF a, w, no, now, on, x, R, u
    <2> QED  BY <1>2, <1>8, <2>3, <2>4, <2>5, <2>6, <2>7, <2>8
  <1>10. CASE i # wl /\ ~(i < wl)
    <2> DEFINE j == i - wl - 1
               c == DeleteInternal[R][j][on]
    <2>1. j \in Slot /\ j < t.right.weight /\ i > wl /\ j \in Nat
      <3>1. i <= MaxSize
        BY <1>0 DEF Slot
      <3>2. i > wl /\ j \in Nat /\ j <= MaxSize /\ j < wr
        BY <1>0, <1>1, <1>10, <3>1
      <3> QED  BY <1>0, <3>2 DEF Slot
    <2>2. Deleted(c, R, j) /\ (Even(R) /\ ~on => Even(c))
      BY <1>0, <2>1
    <2>3. Exact(c) /\ Clean(c) /\ c.weight = wr - 1 /\ Values[c] = Cut(Values[R], j)
      BY <2>2, Zenon DEF Deleted
    <2>4. Mid(Values[L], x, Values[c]) = Cut(Values[t], i)
      <3> DEFINE p == Values[L]
                 q == Values[R]
      <3>1. p \in Seq(Value) /\ q \in Seq(Value) /\ x \in Value
        BY <1>2, <1>3
      <3>2. i \in 0 .. Len(p) + Len(q) /\ i > Len(p) /\ i - Len(p) - 1 = j
        <4>1. Len(p) = wl /\ Len(q) = wr
          BY <1>3
        <4> HIDE DEF p, q
        <4> QED  BY <1>1, <2>1, <4>1
      <3> HIDE DEF p, q, x, j
      <3>3. Mid(p, x, Cut(q, i - Len(p) - 1)) = Cut(Mid(p, x, q), i)
        BY <3>1, <3>2, CutRight
      <3> QED  BY <1>4, <2>3, <3>2, <3>3 DEF p, q
    <2>5. w = L.weight + 1 + c.weight
      <3>1. L.weight = wl /\ c.weight = wr - 1
        BY <2>3, Zenon
      <3> HIDE DEF L, c
      <3> QED  BY <1>1, <3>1
    <2>6. Even(t) /\ ~on => Even(L) /\ Even(c)
      BY <1>6, <2>2
    <2>7. u = Rebalanced(now, Made(w, L, x, c, no, no))
      BY <1>step, <1>10
    <2>8. ~done => (now <=> Lopsided(L.weight, c.weight))
      BY <1>7, <1>10, <2>3, Zenon
    <2> HIDE DEF c, w, no, now, on, x, L, u
    <2> QED  BY <1>2, <1>8, <2>3, <2>4, <2>5, <2>6, <2>7, <2>8
  <1>11. CASE i = wl /\ L # NODE_NULL /\ R # NODE_NULL
    <2> DEFINE zero == 0
               y == Head(Values[R])
               c == DeleteInternal[R][zero][on]
    <2>1. zero \in Slot /\ zero < t.right.weight
      BY <1>0, <1>1, <1>5, <1>11 DEF Slot
    <2>2. Deleted(c, R, zero) /\ (Even(R) /\ ~on => Even(c))
      <3> HIDE DEF zero
      <3> QED  BY <1>0, <2>1
    <2>3. Exact(c) /\ Clean(c) /\ c.weight = wr - 1 /\ Values[c] = Cut(Values[R], zero)
      BY <2>2 DEF Deleted
    <2>4. y \in Value /\ Mid(Values[L], y, Values[c]) = Cut(Values[t], i)
      <3> DEFINE p == Values[L]
                 q == Values[R]
      <3>1. p \in Seq(Value) /\ q \in Seq(Value) /\ x \in Value
        BY <1>2, <1>3
      <3>2. i = Len(p) /\ Len(q) # 0
        <4>1. Len(p) = wl /\ Len(q) = wr
          BY <1>3
        <4> QED  BY <1>5, <1>11, <4>1
      <3> HIDE DEF p, q, x
      <3>3. Head(q) \in Value /\ Mid(p, Head(q), Cut(q, 0)) = Cut(Mid(p, x, q), Len(p))
        BY <3>1, <3>2, CutMid
      <3> QED  BY <1>4, <2>3, <3>2, <3>3 DEF p, q
    <2>5. w = L.weight + 1 + c.weight
      <3>1. L.weight = wl /\ c.weight = wr - 1
        BY <2>3
      <3> HIDE DEF L, c
      <3> QED  BY <1>1, <3>1
    <2>6. Even(t) /\ ~on => Even(L) /\ Even(c)
      BY <1>6, <2>2
    <2>7. u = Rebalanced(now, Made(w, L, y, c, no, no))
      BY <1>step, <1>11
    <2>8. ~done => (now <=> Lopsided(L.weight, c.weight))
      <3>1. ~(i < wl) /\ ~(i = wl /\ (L = NODE_NULL \/ R = NODE_NULL))
        BY <1>1, <1>11
      <3> QED  BY <1>7, <2>3, <3>1
    <2> HIDE DEF c, w, no, now, on, x, L, u, y
    <2> QED  BY <1>2, <1>8, <2>3, <2>4, <2>5, <2>6, <2>7, <2>8
  <1>12. CASE i = wl /\ L = NODE_NULL
    <2> DEFINE p == Values[L]
               q == Values[R]
    <2>1. p \in Seq(Value) /\ q \in Seq(Value) /\ x \in Value /\ Len(p) = wl /\ Values[t] = Mid(p, x, q)
      BY <1>2, <1>3, <1>4
    <2>2. wl = 0 /\ u = R
      BY <1>step, <1>5, <1>12
    <2> HIDE DEF p, x, q
    <2>3. q = Cut(Mid(p, x, q), 0)
      <3>1. p \in Seq(Value) /\ q \in Seq(Value) /\ x \in Value /\ Len(p) = 0
        BY <2>1, <2>2
      <3> HIDE DEF L, R, now, on, u, no
      <3> QED  BY <3>1, CutAlone
    <2>4. wr = t.weight - 1
      BY <1>1, <2>2
    <2>5. Values[R] = Cut(Values[t], i)
      BY <1>12, <2>1, <2>2, <2>3 DEF q
    <2>6. Deleted(R, t, i) /\ (Even(t) => Even(R))
      BY <1>2, <1>6, <2>4, <2>5 DEF Deleted
    <2> QED  BY <2>2, <2>6
  <1>13. CASE i = wl /\ L # NODE_NULL /\ R = NODE_NULL
    <2> DEFINE p == Values[L]
               q == Values[R]
    <2>1. /\ p \in Seq(Value) /\ q \in Seq(Value) /\ x \in Value /\ Len(p) = wl /\ Len(q) = wr
          /\ Values[t] = Mid(p, x, q)
      BY <1>2, <1>3, <1>4
    <2>2. wr = 0 /\ u = L
      BY <1>step, <1>5, <1>13
    <2> HIDE DEF p, x, q
    <2>3. p = Cut(Mid(p, x, q), Len(p))
      <3>1. p \in Seq(Value) /\ q \in Seq(Value) /\ x \in Value /\ Len(q) = 0
        BY <2>1, <2>2
      <3> HIDE DEF L, R, now, on, u, no
      <3> QED  BY <3>1, CutAlone
    <2>4. wl = t.weight - 1
      BY <1>1, <2>2
    <2>5. Values[L] = Cut(Values[t], i)
      BY <1>13, <2>1, <2>3 DEF p
    <2>6. Deleted(L, t, i) /\ (Even(t) => Even(L))
      BY <1>2, <1>6, <2>4, <2>5 DEF Deleted
    <2> QED  BY <2>2, <2>6
  <1> QED  BY <1>9, <1>10, <1>11, <1>12, <1>13

\* delete_internal takes out the value at the position it is asked to, and leaves a
\* tree as even as it was.
LEMMA DeleteIs ==
    ASSUME NEW t, Exact(t), Clean(t), t.weight <= MaxSize + 1,
           NEW i \in Slot, i < t.weight, NEW done \in BOOLEAN
    PROVE  LET u == DeleteInternal[t][i][done]
           IN  Deleted(u, t, i) /\ (Even(t) /\ ~done => Even(u))
  <1> DEFINE Good(s) == Exact(s) /\ Clean(s) /\ s.weight <= MaxSize + 1 =>
                           \A j \in Slot, d \in BOOLEAN : j < s.weight =>
                              LET u == DeleteInternal[s][j][d]
                              IN  Deleted(u, s, j) /\ (Even(s) /\ ~d => Even(u))
             T == {s \in Subtree : Good(s)}
  <1>0. MaxSize \in Nat
    BY OmtAssumption
  <1>1. NODE_NULL \in T
    <2>1. ASSUME NEW j \in Slot, j < NODE_NULL.weight PROVE FALSE
      BY <1>0, <2>1, NullIsSound DEF Slot
    <2> QED  BY <2>1, NullIsSubtree
  <1>2. ASSUME NEW s \in Subtree, s # NODE_NULL, s.left \in T, s.right \in T PROVE s \in T
    <2> SUFFICES ASSUME Exact(s), Clean(s), s.weight <= MaxSize + 1,
                        NEW j \in Slot, NEW d \in BOOLEAN, j < s.weight
                 PROVE  LET u == DeleteInternal[s][j][d]
                        IN  Deleted(u, s, j) /\ (Even(s) /\ ~d => Even(u))
      OBVIOUS
    <2>1. s.weight = s.left.weight + 1 + s.right.weight /\ s.left.weight \in Nat /\ s.right.weight \in Nat
      BY <1>2, ExactSum
    <2>2. s.left.weight <= MaxSize + 1 /\ s.right.weight <= MaxSize + 1
      BY <1>0, <2>1
    <2>3. Exact(s.left) /\ Exact(s.right) /\ Clean(s.left) /\ Clean(s.right)
      BY <1>2, ExactParts, OfNode
    <2>4. Good(s.left) /\ Good(s.right)
      BY <1>2
    <2>5. \A k \in Slot, e \in BOOLEAN : k < s.left.weight =>
              LET u == DeleteInternal[s.left][k][e]
              IN  Deleted(u, s.left, k) /\ (Even(s.left) /\ ~e => Even(u))
      BY <2>2, <2>3, <2>4
    <2>6. \A k \in Slot, e \in BOOLEAN : k < s.right.weight =>
              LET u == DeleteInternal[s.right][k][e]
              IN  Deleted(u, s.right, k) /\ (Even(s.right) /\ ~e => Even(u))
      BY <2>2, <2>3, <2>4
    <2> QED  BY <1>2, <2>5, <2>6, DeleteNodeIs
  <1> HIDE DEF T
  <1>3. Subtree \subseteq T
    BY <1>1, <1>2, TreeInduction
  <1>4. t \in T
    BY <1>3, ExactWeight
  <1> QED  BY <1>4 DEF T

-----------------------------------------------------------------------------
(* set_at, iterate_ptr and the marks: the shape of the tree stays as it is *)

SameShape(u, t) == Exact(u) /\ u.weight = t.weight /\ (Even(t) => Even(u))

LEMMA SameShapeNode ==
    ASSUME NEW t, Exact(t), t # NODE_NULL, t.weight <= MaxSize + 1,
           NEW a, SameShape(a, t.left), NEW c, SameShape(c, t.right),
           NEW y \in Value, NEW m \in BOOLEAN, NEW b \in BOOLEAN,
           NEW u, u = Made(t.weight, a, y, c, m, b)
    PROVE  /\ SameShape(u, t) /\ u # NODE_NULL /\ u \in Subtree
           /\ u.left = a /\ u.value = y /\ u.right = c /\ u.marked = m /\ u.below = b
           /\ Values[u] = Mid(Values[a], y, Values[c])
  <1> DEFINE w == t.weight
  <1>1. Exact(a) /\ Exact(c) /\ a.weight = t.left.weight /\ c.weight = t.right.weight
    BY DEF SameShape
  <1>2. w = a.weight + 1 + c.weight /\ w <= MaxSize + 1 /\ t \in Subtree
    BY <1>1, ExactSum, ExactWeight
  <1>3. u = Made(w, a, y, c, m, b)
    OBVIOUS
  <1> HIDE DEF w
  <1>4. /\ Exact(u) /\ u # NODE_NULL
        /\ u.weight = w /\ u.left = a /\ u.value = y /\ u.right = c /\ u.marked = m /\ u.below = b
        /\ Values[u] = Mid(Values[a], y, Values[c])
    BY <1>1, <1>2, <1>3, MadeNode
  <1>5. u \in Subtree
    BY <1>4, ExactWeight
  <1>6. ASSUME Even(t) PROVE Even(u)
    <2>1. Even(t.left) /\ Even(t.right) /\ ~WillNeedRebalance(t, 0, 0)
      BY <1>2, <1>6, OfNode
    <2>2. Even(a) /\ Even(c)
      BY <2>1 DEF SameShape
    <2>3. ~WillNeedRebalance(u, 0, 0)
      BY <1>1, <1>4, <2>1 DEF WillNeedRebalance
    <2> QED  BY <1>4, <1>5, <2>2, <2>3, OfNode
  <1> QED  BY <1>4, <1>5, <1>6 DEF SameShape, w

LEMMA SameShapeSelf ==
    ASSUME NEW t, Exact(t)
    PROVE  SameShape(t, t)
  BY DEF SameShape

Changed(s, i, v) == S!ReplaceAt(s, i + 1, v)

ChangedIs(w, s, i, v) ==
    /\ Len(w) = Len(s)
    /\ \A k \in 1 .. Len(s) : w[k] = IF k = i + 1 THEN v ELSE s[k]

LEMMA ChangedType ==
    ASSUME NEW U, NEW s \in Seq(U), NEW i \in 0 .. Len(s) - 1, NEW v \in U
    PROVE  Changed(s, i, v) \in Seq(U) /\ ChangedIs(Changed(s, i, v), s, i, v)
  <1> DEFINE w == Changed(s, i, v)
  <1>1. i + 1 \in 1 .. Len(s) /\ Len(s) \in Nat
    OBVIOUS
  <1>2. w = [s EXCEPT ![i + 1] = v]
    BY DEF Changed, S!ReplaceAt
  <1>3. w \in Seq(U) /\ Len(w) = Len(s) /\ \A k \in 1 .. Len(s) : w[k] = IF k = i + 1 THEN v ELSE s[k]
    BY <1>1, <1>2, ExceptSeq
  <1> QED  BY <1>3 DEF ChangedIs

LEMMA ChangedUnique ==
    ASSUME NEW U, NEW s \in Seq(U), NEW i \in 0 .. Len(s) - 1, NEW v \in U,
           NEW w \in Seq(U), ChangedIs(w, s, i, v)
    PROVE  w = Changed(s, i, v)
  <1> DEFINE p == Changed(s, i, v)
  <1>1. p \in Seq(U) /\ ChangedIs(p, s, i, v)
    BY ChangedType
  <1> HIDE DEF p
  <1>2. Len(w) = Len(p) /\ \A k \in 1 .. Len(w) : w[k] = p[k]
    BY <1>1 DEF ChangedIs
  <1> QED  BY <1>1, <1>2, SameSequence DEF p

LEMMA ChangedLeft ==
    ASSUME NEW U, NEW L \in Seq(U), NEW x \in U, NEW R \in Seq(U), NEW v \in U, NEW i \in 0 .. Len(L) - 1
    PROVE  Mid(Changed(L, i, v), x, R) = Changed(Mid(L, x, R), i, v)
  <1> DEFINE p == Changed(L, i, v)
             s == Mid(L, x, R)
             w == Mid(p, x, R)
  <1>0. i \in Nat /\ Len(L) \in Nat /\ Len(R) \in Nat /\ i < Len(L)
    OBVIOUS
  <1>1. p \in Seq(U) /\ ChangedIs(p, L, i, v)
    BY ChangedType
  <1>2. s \in Seq(U) /\ Spliced(s, L, x, R)
    BY MidIs
  <1> HIDE DEF p, s
  <1>3. w \in Seq(U) /\ Spliced(w, p, x, R)
    BY <1>1, MidIs
  <1> HIDE DEF w
  <1>4. Len(p) = Len(L) /\ Len(s) = Len(L) + 1 + Len(R) /\ Len(w) = Len(s)
    BY <1>0, <1>1, <1>2, <1>3 DEF ChangedIs, Spliced
  <1>5. ASSUME NEW k \in 1 .. Len(s) PROVE w[k] = IF k = i + 1 THEN v ELSE s[k]
    <2>0. k \in 1 .. Len(L) + 1 + Len(R)
      BY <1>4
    <2>1. w[k] = IF k <= Len(L) THEN p[k] ELSE IF k = Len(L) + 1 THEN x ELSE R[k - Len(L) - 1]
      BY <1>3, <1>4, <2>0 DEF Spliced
    <2>2. s[k] = IF k <= Len(L) THEN L[k] ELSE IF k = Len(L) + 1 THEN x ELSE R[k - Len(L) - 1]
      BY <1>2, <2>0 DEF Spliced
    <2>3. k \in 1 .. Len(L) => p[k] = IF k = i + 1 THEN v ELSE L[k]
      BY <1>1 DEF ChangedIs
    <2>4. (k <= Len(L) => k \in 1 .. Len(L)) /\ (~(k <= Len(L)) => k # i + 1)
      BY <1>0, <2>0
    <2> QED  BY <2>1, <2>2, <2>3, <2>4
  <1>6. ChangedIs(w, s, i, v)
    BY <1>4, <1>5 DEF ChangedIs
  <1>7. i \in 0 .. Len(s) - 1
    BY <1>0, <1>4
  <1>8. w = Changed(s, i, v)
    BY <1>2, <1>3, <1>6, <1>7, ChangedUnique
  <1> QED  BY <1>8 DEF w, s, p

LEMMA ChangedMid ==
    ASSUME NEW U, NEW L \in Seq(U), NEW x \in U, NEW R \in Seq(U), NEW v \in U
    PROVE  Mid(L, v, R) = Changed(Mid(L, x, R), Len(L), v)
  <1> DEFINE s == Mid(L, x, R)
             w == Mid(L, v, R)
             i == Len(L)
  <1>0. i \in Nat /\ Len(L) \in Nat /\ Len(R) \in Nat
    OBVIOUS
  <1>2. s \in Seq(U) /\ Spliced(s, L, x, R)
    BY MidIs
  <1>3. w \in Seq(U) /\ Spliced(w, L, v, R)
    BY MidIs
  <1> HIDE DEF w, s
  <1>4. Len(s) = Len(L) + 1 + Len(R) /\ Len(w) = Len(s)
    BY <1>0, <1>2, <1>3 DEF Spliced
  <1>5. ASSUME NEW k \in 1 .. Len(s) PROVE w[k] = IF k = i + 1 THEN v ELSE s[k]
    <2>0. k \in 1 .. Len(L) + 1 + Len(R)
      BY <1>4
    <2>1. w[k] = IF k <= Len(L) THEN L[k] ELSE IF k = Len(L) + 1 THEN v ELSE R[k - Len(L) - 1]
      BY <1>3, <2>0 DEF Spliced
    <2>2. s[k] = IF k <= Len(L) THEN L[k] ELSE IF k = Len(L) + 1 THEN x ELSE R[k - Len(L) - 1]
      BY <1>2, <2>0 DEF Spliced
    <2>3. k = i + 1 => ~(k <= Len(L))
      BY <1>0, <2>0
    <2> QED  BY <2>1, <2>2, <2>3
  <1>6. ChangedIs(w, s, i, v)
    BY <1>4, <1>5 DEF ChangedIs
  <1>7. i \in 0 .. Len(s) - 1
    BY <1>0, <1>4
  <1> HIDE DEF i
  <1>8. w = Changed(s, i, v)
    BY <1>2, <1>3, <1>6, <1>7, ChangedUnique
  <1> QED  BY <1>8 DEF w, s, i

LEMMA ChangedRight ==
    ASSUME NEW U, NEW L \in Seq(U), NEW x \in U, NEW R \in Seq(U), NEW v \in U,
           NEW i \in 0 .. Len(L) + Len(R), i > Len(L)
    PROVE  /\ i - Len(L) - 1 \in 0 .. Len(R) - 1
           /\ Mid(L, x, Changed(R, i - Len(L) - 1, v)) = Changed(Mid(L, x, R), i, v)
  <1> DEFINE j == i - Len(L) - 1
             p == Changed(R, j, v)
             s == Mid(L, x, R)
             w == Mid(L, x, p)
  <1>0. i \in Nat /\ Len(L) \in Nat /\ Len(R) \in Nat /\ i <= Len(L) + Len(R)
    OBVIOUS
  <1>00. j \in 0 .. Len(R) - 1 /\ j \in Nat /\ i = Len(L) + 1 + j
    BY <1>0
  <1> HIDE DEF j
  <1>1. p \in Seq(U) /\ ChangedIs(p, R, j, v)
    BY <1>00, ChangedType
  <1>2. s \in Seq(U) /\ Spliced(s, L, x, R)
    BY MidIs
  <1> HIDE DEF p, s
  <1>3. w \in Seq(U) /\ Spliced(w, L, x, p)
    BY <1>1, MidIs
  <1> HIDE DEF w
  <1>4. Len(p) = Len(R) /\ Len(s) = Len(L) + 1 + Len(R) /\ Len(w) = Len(s)
    BY <1>0, <1>1, <1>2, <1>3 DEF ChangedIs, Spliced
  <1>5. ASSUME NEW k \in 1 .. Len(s) PROVE w[k] = IF k = i + 1 THEN v ELSE s[k]
    <2> DEFINE m == k - Len(L) - 1
    <2>0. k \in 1 .. Len(L) + 1 + Len(R)
      BY <1>4
    <2>1. w[k] = IF k <= Len(L) THEN L[k] ELSE IF k = Len(L) + 1 THEN x ELSE p[m]
      BY <1>3, <1>4, <2>0 DEF Spliced
    <2>2. s[k] = IF k <= Len(L) THEN L[k] ELSE IF k = Len(L) + 1 THEN x ELSE R[m]
      BY <1>2, <2>0 DEF Spliced
    <2>3. m \in 1 .. Len(R) => p[m] = IF m = j + 1 THEN v ELSE R[m]
      BY <1>1 DEF ChangedIs
    <2>4. /\ k <= Len(L) + 1 => k # i + 1
          /\ ~(k <= Len(L)) /\ k # Len(L) + 1 => m \in 1 .. Len(R) /\ (m = j + 1 <=> k = i + 1)
          /\ k <= Len(L) => k <= Len(L) + 1
          /\ k = Len(L) + 1 => k <= Len(L) + 1
      BY <1>0, <1>00, <2>0
    <2> HIDE DEF m
    <2> QED  BY <2>1, <2>2, <2>3, <2>4
  <1>6. ChangedIs(w, s, i, v)
    BY <1>4, <1>5 DEF ChangedIs
  <1>7. i \in 0 .. Len(s) - 1
    BY <1>0, <1>4
  <1>8. w = Changed(s, i, v)
    BY <1>2, <1>3, <1>6, <1>7, ChangedUnique
  <1> QED  BY <1>00, <1>8 DEF w, s, p, j

SetTo(u, t, i, v) ==
    /\ SameShape(u, t)
    /\ Consistent(t) => Consistent(u)
    /\ Marked(u) <=> Marked(t)
    /\ Values[u] = Changed(Values[t], i, v)

LEMMA SetAtStep ==
    ASSUME NEW t \in Subtree, t # NODE_NULL, NEW v \in Value, NEW i \in Slot
    PROVE  /\ i < t.left.weight =>
                 SetAtInternal[t][v][i] =
                     Made(t.weight, SetAtInternal[t.left][v][i], t.value, t.right, t.marked, t.below)
           /\ ~(i < t.left.weight) /\ i = t.left.weight =>
                 SetAtInternal[t][v][i] = Made(t.weight, t.left, v, t.right, t.marked, t.below)
           /\ ~(i < t.left.weight) /\ i # t.left.weight =>
                 SetAtInternal[t][v][i] =
                     Made(t.weight, t.left, t.value, SetAtInternal[t.right][v][i - t.left.weight - 1],
                          t.marked, t.below)
  <1> DEFINE L == SetAtInternal[t.left]
             R == SetAtInternal[t.right]
             a == L[v][i]
             c == R[v][i - t.left.weight - 1]
  <1>1. SetAtInternal[t] = SetAtBy(t, L, R)
    BY SetAtInternalEquation
  <1> HIDE DEF L, R
  <1>2. SetAtInternal[t][v][i] = SetAtNode(t, L, R, v, i)
    BY <1>1 DEF SetAtBy
  <1>3. SetAtNode(t, L, R, v, i) =
           IF i < t.left.weight THEN PassedLeft(t, a)
           ELSE IF i = t.left.weight THEN Overwritten(t, v) ELSE PassedRight(t, c)
    BY DEF SetAtNode, PassedLeft, Overwritten, PassedRight
  <1> HIDE DEF a, c
  <1>4. /\ PassedLeft(t, a) = Made(t.weight, a, t.value, t.right, t.marked, t.below)
        /\ Overwritten(t, v) = Made(t.weight, t.left, v, t.right, t.marked, t.below)
        /\ PassedRight(t, c) = Made(t.weight, t.left, t.value, c, t.marked, t.below)
    BY NodeExcept
  <1> QED  BY <1>2, <1>3, <1>4 DEF a, c, L, R

\* The marks of a node whose subtrees have the marks they had.
LEMMA SameMarks ==
    ASSUME NEW t \in Subtree, t # NODE_NULL, NEW u \in Subtree, u # NODE_NULL,
           u.marked = t.marked, u.below = t.below,
           Consistent(t.left) => Consistent(u.left), Marked(u.left) <=> Marked(t.left),
           Consistent(t.right) => Consistent(u.right), Marked(u.right) <=> Marked(t.right)
    PROVE  (Consistent(t) => Consistent(u)) /\ (Marked(u) <=> Marked(t))
  BY OfNode

LEMMA SetAtIs ==
    ASSUME NEW t, Exact(t), t.weight <= MaxSize + 1, NEW i \in Slot, i < t.weight, NEW v \in Value
    PROVE  SetTo(SetAtInternal[t][v][i], t, i, v)
  <1> DEFINE Good(s) == Exact(s) /\ s.weight <= MaxSize + 1 =>
                           \A j \in Slot : j < s.weight => SetTo(SetAtInternal[s][v][j], s, j, v)
             T == {s \in Subtree : Good(s)}
  <1>0. MaxSize \in Nat
    BY OmtAssumption
  <1>1. NODE_NULL \in T
    <2>1. ASSUME NEW j \in Slot, j < NODE_NULL.weight PROVE FALSE
      BY <1>0, <2>1, NullIsSound DEF Slot
    <2> QED  BY <2>1, NullIsSubtree
  <1>2. ASSUME NEW s \in Subtree, s # NODE_NULL, s.left \in T, s.right \in T PROVE s \in T
    <2> DEFINE L == s.left
               R == s.right
               x == s.value
               wl == s.left.weight
               wr == s.right.weight
               p == Values[L]
               q == Values[R]
               m == s.marked
               b == s.below
    <2> SUFFICES ASSUME Exact(s), s.weight <= MaxSize + 1, NEW j \in Slot, j < s.weight
                 PROVE  SetTo(SetAtInternal[s][v][j], s, j, v)
      OBVIOUS
    <2> DEFINE u == SetAtInternal[s][v][j]
    <2>1. s.weight = wl + 1 + wr /\ wl \in Nat /\ wr \in Nat
      BY <1>2, ExactSum
    <2>1a. j \in Nat /\ j <= MaxSize
      BY <1>0 DEF Slot
    <2>2. wl <= MaxSize + 1 /\ wr <= MaxSize + 1
      BY <1>0, <2>1
    <2>3. Exact(L) /\ Exact(R) /\ x \in Value /\ L \in Subtree /\ R \in Subtree
          /\ m \in BOOLEAN /\ b \in BOOLEAN
      BY <1>2, ExactParts, Parts
    <2>4. Good(L) /\ Good(R)
      BY <1>2
    <2>5. p \in Seq(Value) /\ q \in Seq(Value) /\ Values[s] = Mid(p, x, q)
      BY <1>2, <2>3, ValuesType, NodeValues
    <2>6. Len(p) = wl /\ Len(q) = wr
      BY <2>3, ExactWeight
    <2>7. /\ j < wl => u = Made(s.weight, SetAtInternal[L][v][j], x, R, m, b)
          /\ ~(j < wl) /\ j = wl => u = Made(s.weight, L, v, R, m, b)
          /\ ~(j < wl) /\ j # wl => u = Made(s.weight, L, x, SetAtInternal[R][v][j - wl - 1], m, b)
      BY <1>2, SetAtStep
    <2>8. SameShape(L, L) /\ SameShape(R, R)
      BY <2>3, SameShapeSelf
    <2>9. CASE j < wl
      <3> DEFINE a == SetAtInternal[L][v][j]
      <3>1. SetTo(a, L, j, v)
        BY <2>2, <2>3, <2>4, <2>9
      <3>2. SameShape(a, L) /\ Values[a] = Changed(p, j, v)
            /\ (Consistent(L) => Consistent(a)) /\ (Marked(a) <=> Marked(L))
        BY <3>1 DEF SetTo
      <3>3. u = Made(s.weight, a, x, R, m, b)
        BY <2>7, <2>9
      <3>4. j \in 0 .. Len(p) - 1
        <4> HIDE DEF p
        <4> QED  BY <2>1, <2>1a, <2>6, <2>9
      <3>5. Mid(Changed(p, j, v), x, q) = Changed(Mid(p, x, q), j, v)
        <4>1. p \in Seq(Value) /\ q \in Seq(Value) /\ x \in Value
          BY <2>3, <2>5
        <4> HIDE DEF p, q, x
        <4> QED  BY <3>4, <4>1, ChangedLeft
      <3> HIDE DEF a, u
      <3>6. /\ SameShape(u, s) /\ u # NODE_NULL /\ u \in Subtree
            /\ u.left = a /\ u.value = x /\ u.right = R /\ u.marked = m /\ u.below = b
            /\ Values[u] = Mid(Values[a], x, Values[R])
        BY <1>2, <2>3, <2>8, <3>2, <3>3, SameShapeNode
      <3>7. (Consistent(s) => Consistent(u)) /\ (Marked(u) <=> Marked(s))
        BY <1>2, <3>2, <3>6, SameMarks
      <3>8. Values[u] = Changed(Values[s], j, v)
        BY <2>5, <3>2, <3>5, <3>6
      <3> QED  BY <3>6, <3>7, <3>8 DEF SetTo, u
    <2>10. CASE ~(j < wl) /\ j = wl
      <3>3. u = Made(s.weight, L, v, R, m, b)
        BY <2>7, <2>10
      <3>5. Mid(p, v, q) = Changed(Mid(p, x, q), j, v)
        <4>1. p \in Seq(Value) /\ q \in Seq(Value) /\ x \in Value /\ Len(p) = j
          BY <2>3, <2>5, <2>6, <2>10
        <4> HIDE DEF p, q, x
        <4> QED  BY <4>1, ChangedMid
      <3> HIDE DEF u
      <3>6. /\ SameShape(u, s) /\ u # NODE_NULL /\ u \in Subtree
            /\ u.left = L /\ u.value = v /\ u.right = R /\ u.marked = m /\ u.below = b
            /\ Values[u] = Mid(Values[L], v, Values[R])
        BY <1>2, <2>3, <2>8, <3>3, SameShapeNode
      <3>7. (Consistent(s) => Consistent(u)) /\ (Marked(u) <=> Marked(s))
        BY <1>2, <3>6, SameMarks
      <3>8. Values[u] = Changed(Values[s], j, v)
        BY <2>5, <3>5, <3>6
      <3> QED  BY <3>6, <3>7, <3>8 DEF SetTo, u
    <2>11. CASE ~(j < wl) /\ j # wl
      <3> DEFINE k == j - wl - 1
                 c == SetAtInternal[R][v][k]
      <3>0. k \in Nat /\ k <= MaxSize /\ k < wr /\ j > wl
        BY <1>0, <2>1, <2>1a, <2>11
      <3>0a. k \in Slot
        BY <1>0, <3>0 DEF Slot
      <3>1. SetTo(c, R, k, v)
        <4> HIDE DEF k
        <4> QED  BY <2>2, <2>3, <2>4, <3>0, <3>0a
      <3>2. SameShape(c, R) /\ Values[c] = Changed(q, k, v)
            /\ (Consistent(R) => Consistent(c)) /\ (Marked(c) <=> Marked(R))
        BY <3>1 DEF SetTo
      <3>3. u = Made(s.weight, L, x, c, m, b)
        BY <2>7, <2>11
      <3>5. Mid(p, x, Changed(q, k, v)) = Changed(Mid(p, x, q), j, v)
        <4>1. p \in Seq(Value) /\ q \in Seq(Value) /\ x \in Value
          BY <2>3, <2>5
        <4>2. j \in 0 .. Len(p) + Len(q) /\ j > Len(p) /\ j - Len(p) - 1 = k
          <5> HIDE DEF p, q
          <5> QED  BY <2>1, <2>1a, <2>6, <3>0
        <4> HIDE DEF p, q, x, k
        <4>3. Mid(p, x, Changed(q, j - Len(p) - 1, v)) = Changed(Mid(p, x, q), j, v)
          BY <4>1, <4>2, ChangedRight
        <4> QED  BY <4>2, <4>3
      <3> HIDE DEF c, u
      <3>6. /\ SameShape(u, s) /\ u # NODE_NULL /\ u \in Subtree
            /\ u.left = L /\ u.value = x /\ u.right = c /\ u.marked = m /\ u.below = b
            /\ Values[u] = Mid(Values[L], x, Values[c])
        BY <1>2, <2>3, <2>8, <3>2, <3>3, SameShapeNode
      <3>7. (Consistent(s) => Consistent(u)) /\ (Marked(u) <=> Marked(s))
        BY <1>2, <3>2, <3>6, SameMarks
      <3>8. Values[u] = Changed(Values[s], j, v)
        BY <2>5, <3>2, <3>5, <3>6
      <3> QED  BY <3>6, <3>7, <3>8 DEF SetTo, u
    <2> QED  BY <2>9, <2>10, <2>11
  <1> HIDE DEF T
  <1>3. Subtree \subseteq T
    BY <1>1, <1>2, TreeInduction
  <1>4. t \in T
    BY <1>3, ExactWeight
  <1> QED  BY <1>4 DEF T

Rewritten(s) == [j \in DOMAIN s |-> Rewrite[s[j]]]

LEMMA RewrittenType ==
    ASSUME NEW s \in Seq(Value)
    PROVE  /\ Rewritten(s) \in Seq(Value) /\ Len(Rewritten(s)) = Len(s)
           /\ \A k \in 1 .. Len(s) : Rewritten(s)[k] = Rewrite[s[k]]
  <1> DEFINE w == Rewritten(s)
  <1>1. DOMAIN s = 1 .. Len(s) /\ Len(s) \in Nat /\ \A k \in 1 .. Len(s) : s[k] \in Value
    OBVIOUS
  <1>2. w = [j \in 1 .. Len(s) |-> Rewrite[s[j]]]
    BY <1>1 DEF Rewritten
  <1>3. \A k \in 1 .. Len(s) : Rewrite[s[k]] \in Value
    BY <1>1, OmtAssumption
  <1> HIDE DEF w
  <1>4. w \in [1 .. Len(s) -> Value]
    BY <1>2, <1>3
  <1>5. w \in Seq(Value) /\ Len(w) = Len(s)
    BY <1>1, <1>4
  <1> QED  BY <1>2, <1>5 DEF w

LEMMA RewrittenMid ==
    ASSUME NEW L \in Seq(Value), NEW x \in Value, NEW R \in Seq(Value)
    PROVE  Mid(Rewritten(L), Rewrite[x], Rewritten(R)) = Rewritten(Mid(L, x, R))
  <1> DEFINE p == Rewritten(L)
             q == Rewritten(R)
             y == Rewrite[x]
             s == Mid(L, x, R)
             z == Rewritten(s)
             w == Mid(p, y, q)
  <1>1. /\ p \in Seq(Value) /\ Len(p) = Len(L) /\ \A k \in 1 .. Len(L) : p[k] = Rewrite[L[k]]
        /\ q \in Seq(Value) /\ Len(q) = Len(R) /\ \A k \in 1 .. Len(R) : q[k] = Rewrite[R[k]]
    BY RewrittenType
  <1>2. s \in Seq(Value) /\ Spliced(s, L, x, R)
    BY MidIs
  <1>3. y \in Value
    BY OmtAssumption
  <1> HIDE DEF p, q, s
  <1>4. z \in Seq(Value) /\ Len(z) = Len(s) /\ \A k \in 1 .. Len(s) : z[k] = Rewrite[s[k]]
    BY <1>2, RewrittenType
  <1> DEFINE yy == y
  <1>5. w \in Seq(Value) /\ Spliced(w, p, y, q)
    <2>1. p \in Seq(Value) /\ q \in Seq(Value)
      BY <1>1
    <2> HIDE DEF y
    <2> QED  BY <1>3, <2>1, MidIs
  <1> HIDE DEF w, z
  <1>6. Len(w) = Len(z) /\ Len(s) = Len(L) + 1 + Len(R) /\ Len(w) = Len(s)
    <2>1. Len(w) = Len(p) + 1 + Len(q) /\ Len(s) = Len(L) + 1 + Len(R)
      BY <1>2, <1>5 DEF Spliced
    <2> QED  BY <1>1, <1>4, <2>1
  <1>7. ASSUME NEW k \in 1 .. Len(w) PROVE w[k] = z[k]
    <2>0. k \in 1 .. Len(L) + 1 + Len(R) /\ Len(L) \in Nat /\ Len(R) \in Nat
      BY <1>6
    <2>1. w[k] = IF k <= Len(L) THEN p[k] ELSE IF k = Len(L) + 1 THEN y ELSE q[k - Len(L) - 1]
      BY <1>1, <1>5, <2>0 DEF Spliced
    <2>2. s[k] = IF k <= Len(L) THEN L[k] ELSE IF k = Len(L) + 1 THEN x ELSE R[k - Len(L) - 1]
      BY <1>2, <2>0 DEF Spliced
    <2>3. /\ k <= Len(L) => k \in 1 .. Len(L)
          /\ ~(k <= Len(L)) /\ k # Len(L) + 1 => k - Len(L) - 1 \in 1 .. Len(R)
      BY <2>0
    <2>4. z[k] = Rewrite[s[k]]
      BY <1>4, <1>6
    <2> QED  BY <1>1, <2>1, <2>2, <2>3, <2>4
  <1>8. w = z
    BY <1>4, <1>5, <1>6, <1>7, SameSequence
  <1> QED  BY <1>8 DEF w, z, p, q, s

\* The slots of marked nodes.
LEMMA MarkedSlotsNull ==
    ASSUME NEW idx \in Slot
    PROVE  MarkedSlots[NODE_NULL][idx] = {} /\ OverMarked[NODE_NULL][idx] = << >>
  <1> DEFINE f == MarkedSlots[NODE_NULL.left]
             g == MarkedSlots[NODE_NULL.right]
             p == OverMarked[NODE_NULL.left]
             q == OverMarked[NODE_NULL.right]
  <1>1. MarkedSlots[NODE_NULL] = MarkedSlotsBy(NODE_NULL, f, g)
    BY NullIsSubtree, MarkedSlotsEquation
  <1>2. OverMarked[NODE_NULL] = OverMarkedBy(NODE_NULL, p, q)
    BY NullIsSubtree, OverMarkedEquation
  <1> HIDE DEF f, g, p, q
  <1> QED  BY <1>1, <1>2 DEF MarkedSlotsBy, MarkedSlotsNode, OverMarkedBy, OverMarkedNode

MarkedAround(t, idx, root) ==
    MarkedSlots[t.left][idx] \cup (IF t.marked THEN {root} ELSE {}) \cup MarkedSlots[t.right][root + 1]
LEMMA MarkedSlotsStep ==
    ASSUME NEW t \in Subtree, t # NODE_NULL, NEW idx \in Slot
    PROVE  MarkedSlots[t][idx] = MarkedAround(t, idx, idx + t.left.weight)
  <1> DEFINE f == MarkedSlots[t.left]
             g == MarkedSlots[t.right]
  <1>1. MarkedSlots[t] = MarkedSlotsBy(t, f, g)
    BY MarkedSlotsEquation
  <1> HIDE DEF f, g
  <1>2. MarkedSlots[t][idx] = MarkedSlotsNode(t, f, g, idx)
    BY <1>1 DEF MarkedSlotsBy
  <1> DEFINE root == idx + t.left.weight
  <1>3. MarkedSlotsNode(t, f, g, idx) = f[idx] \cup (IF t.marked THEN {root} ELSE {}) \cup g[root + 1]
    BY DEF MarkedSlotsNode
  <1> QED  BY <1>2, <1>3 DEF f, g, MarkedAround

\* The slots of the two subtrees of a node whose own slots begin at i.
Fits(s, i) ==
    /\ i + s.left.weight <= MaxSize
    /\ i + s.left.weight + 1 \in Slot
    /\ i + s.left.weight + 1 + s.right.weight <= MaxSize

LEMMA SlotsFit ==
    ASSUME NEW s \in Subtree, s # NODE_NULL, Exact(s), NEW i \in Slot, i + s.weight <= MaxSize
    PROVE  Fits(s, i)
  <1>1. s.weight = s.left.weight + 1 + s.right.weight /\ s.left.weight \in Nat /\ s.right.weight \in Nat
        /\ i \in Nat /\ MaxSize \in Nat
    BY ExactSum, OmtAssumption DEF Slot
  <1> QED  BY <1>1 DEF Fits, Slot

RewrittenTree(u, t) ==
    /\ SameShape(u, t)
    /\ Consistent(t) => Consistent(u)
    /\ Marked(u) <=> Marked(t)
    /\ Values[u] = Rewritten(Values[t])
    /\ \A i \in Slot : i + t.weight <= MaxSize => MarkedSlots[u][i] = MarkedSlots[t][i]

LEMMA RewriteIs ==
    ASSUME NEW t, Exact(t), t.weight <= MaxSize + 1
    PROVE  RewrittenTree(RewriteInternal[t], t)
  <1> DEFINE Good(s) == Exact(s) /\ s.weight <= MaxSize + 1 => RewrittenTree(RewriteInternal[s], s)
             T == {s \in Subtree : Good(s)}
  <1>0. MaxSize \in Nat
    BY OmtAssumption
  <1>1. NODE_NULL \in T
    <2>1. RewriteInternal[NODE_NULL] = NODE_NULL
      BY NullIsSubtree, RewriteInternalEquation DEF RewriteBy
    <2>2. Rewritten(<< >>) = << >>
      BY DEF Rewritten
    <2> QED  BY <2>1, <2>2, NullIsSubtree, NullIsSound, NullValues, SameShapeSelf DEF RewrittenTree
  <1>2. ASSUME NEW s \in Subtree, s # NODE_NULL, s.left \in T, s.right \in T PROVE s \in T
    <2> DEFINE L == s.left
               R == s.right
               x == s.value
               p == Values[L]
               q == Values[R]
               m == s.marked
               b == s.below
               u == RewriteInternal[s]
               a == RewriteInternal[L]
               c == RewriteInternal[R]
               y == Rewrite[x]
    <2> SUFFICES ASSUME Exact(s), s.weight <= MaxSize + 1
                 PROVE  RewrittenTree(u, s)
      OBVIOUS
    <2>1. s.weight = L.weight + 1 + R.weight /\ L.weight \in Nat /\ R.weight \in Nat
      BY <1>2, ExactSum
    <2>2. L.weight <= MaxSize + 1 /\ R.weight <= MaxSize + 1
      BY <1>0, <2>1
    <2>3. Exact(L) /\ Exact(R) /\ x \in Value /\ L \in Subtree /\ R \in Subtree
          /\ m \in BOOLEAN /\ b \in BOOLEAN
      BY <1>2, ExactParts, Parts
    <2>4. RewrittenTree(a, L) /\ RewrittenTree(c, R)
      BY <1>2, <2>2, <2>3
    <2>5. p \in Seq(Value) /\ q \in Seq(Value) /\ Values[s] = Mid(p, x, q)
      BY <1>2, <2>3, ValuesType, NodeValues
    <2>6. u = Made(s.weight, a, y, c, m, b)
      <3>1. u = RewriteBy(s, a, c)
        BY <1>2, RewriteInternalEquation
      <3> HIDE DEF a, c, u
      <3>2. u = Passed(s, a, y, c)
        BY <1>2, <3>1 DEF RewriteBy, Passed
      <3> HIDE DEF y
      <3>3. \A l, z, r : Passed(s, l, z, r) = Made(s.weight, l, z, r, s.marked, s.below)
        BY <1>2, NodeExcept
      <3> QED  BY <3>2, <3>3
    <2>7. SameShape(a, L) /\ SameShape(c, R) /\ Values[a] = Rewritten(p) /\ Values[c] = Rewritten(q)
          /\ (Consistent(L) => Consistent(a)) /\ (Marked(a) <=> Marked(L))
          /\ (Consistent(R) => Consistent(c)) /\ (Marked(c) <=> Marked(R))
      BY <2>4 DEF RewrittenTree
    <2>8. y \in Value
      BY <2>3, OmtAssumption
    <2>9. Mid(Rewritten(p), y, Rewritten(q)) = Rewritten(Mid(p, x, q))
      <3>1. p \in Seq(Value) /\ q \in Seq(Value) /\ x \in Value
        BY <2>3, <2>5
      <3> HIDE DEF p, q, x
      <3> QED  BY <3>1, RewrittenMid
    <2> HIDE DEF a, c, u, y
    <2>10. /\ SameShape(u, s) /\ u # NODE_NULL /\ u \in Subtree
           /\ u.left = a /\ u.value = y /\ u.right = c /\ u.marked = m /\ u.below = b
           /\ Values[u] = Mid(Values[a], y, Values[c])
      BY <1>2, <2>3, <2>6, <2>7, <2>8, SameShapeNode
    <2>11. (Consistent(s) => Consistent(u)) /\ (Marked(u) <=> Marked(s))
      BY <1>2, <2>7, <2>10, SameMarks
    <2>12. Values[u] = Rewritten(Values[s])
      BY <2>5, <2>7, <2>9, <2>10
    <2>13. ASSUME NEW i \in Slot, i + s.weight <= MaxSize PROVE MarkedSlots[u][i] = MarkedSlots[s][i]
      <3> DEFINE j == i + L.weight + 1
      <3>1. i + L.weight <= MaxSize /\ j \in Slot /\ j + R.weight <= MaxSize
        BY <1>2, <2>13, SlotsFit DEF Fits
      <3>2. MarkedSlots[a][i] = MarkedSlots[L][i] /\ MarkedSlots[c][j] = MarkedSlots[R][j]
        <4> HIDE DEF j
        <4> QED  BY <2>4, <3>1 DEF RewrittenTree
      <3>3. MarkedSlots[s][i] = MarkedAround(s, i, i + L.weight)
        BY <1>2, MarkedSlotsStep
      <3>4. MarkedSlots[u][i] = MarkedAround(u, i, i + L.weight)
        <4>1. MarkedSlots[u][i] = MarkedAround(u, i, i + u.left.weight)
          BY <2>10, MarkedSlotsStep
        <4>2. u.left.weight = L.weight
          BY <2>7, <2>10 DEF SameShape
        <4> QED  BY <4>1, <4>2
      <3> QED  BY <2>10, <3>2, <3>3, <3>4 DEF MarkedAround
    <2> QED  BY <2>10, <2>11, <2>12, <2>13 DEF RewrittenTree
  <1> HIDE DEF T
  <1>3. Subtree \subseteq T
    BY <1>1, <1>2, TreeInduction
  <1>4. t \in T
    BY <1>3, ExactWeight
  <1> QED  BY <1>4 DEF T

-----------------------------------------------------------------------------
(* Marks                                                                   *)

\* The slots of a range that lie among the n slots from i.
Span(left, right, i, n) == {k \in Nat : left <= k /\ k < right /\ i <= k /\ k < i + n}

LEMMA SpanNone ==
    ASSUME NEW left \in Nat, NEW right \in Nat, NEW i \in Nat, NEW n \in Nat,
           n = 0 \/ i + n <= left \/ right <= i
    PROVE  Span(left, right, i, n) = {}
  <1>1. ASSUME NEW k \in Nat, left <= k, k < right, i <= k, k < i + n PROVE FALSE
    BY <1>1
  <1> QED  BY <1>1 DEF Span

SpanSplits(left, right, i, n, m, root) ==
    Span(left, right, i, n + 1 + m) =
        Span(left, right, i, n) \cup (IF left <= root /\ root < right THEN {root} ELSE {})
        \cup Span(left, right, root + 1, m)

LEMMA SpanNode ==
    ASSUME NEW left \in Nat, NEW right \in Nat, NEW i \in Nat, NEW n \in Nat, NEW m \in Nat
    PROVE  SpanSplits(left, right, i, n, m, i + n)
  <1> DEFINE root == i + n
  <1>1. ASSUME NEW k \in Nat
        PROVE  /\ i <= k /\ k < i + (n + 1 + m) <=>
                      (i <= k /\ k < i + n) \/ k = root \/ (root + 1 <= k /\ k < root + 1 + m)
    OBVIOUS
  <1>2. root \in Nat
    OBVIOUS
  <1> QED  BY <1>1, <1>2 DEF Span, SpanSplits

\* u is t after its nodes in the range have been marked.
MarkedTree(u, t, left, right, idx) ==
    /\ SameShape(u, t)
    /\ Values[u] = Values[t]
    /\ Consistent(u)
    /\ Marked(u)
    /\ MarkedSlots[u][idx] = MarkedSlots[t][idx] \cup Span(left, right, idx, t.weight)

LEMMA MarkRangeStep ==
    ASSUME NEW t \in Subtree, t # NODE_NULL, NEW left \in Slot, NEW right \in Slot, NEW idx \in Slot,
           NEW root, root = idx + t.left.weight,
           NEW goLeft, goLeft = (left < root /\ t.left # NODE_NULL),
           NEW goRight, goRight = (root + 1 < right /\ t.right # NODE_NULL)
    PROVE  MarkRange[t][left][right][idx] =
               Made(t.weight, IF goLeft THEN MarkRange[t.left][left][right][idx] ELSE t.left,
                    t.value, IF goRight THEN MarkRange[t.right][left][right][root + 1] ELSE t.right,
                    t.marked \/ (left <= root /\ root < right), t.below \/ goLeft \/ goRight)
  <1> DEFINE L == MarkRange[t.left]
             R == MarkRange[t.right]
             a == IF goLeft THEN L[left][right][idx] ELSE t.left
             c == IF goRight THEN R[left][right][root + 1] ELSE t.right
             m == t.marked \/ (left <= root /\ root < right)
             b == t.below \/ goLeft \/ goRight
  <1>1. MarkRange[t] = MarkRangeBy(t, L, R)
    BY MarkRangeEquation
  <1> HIDE DEF L, R
  <1>2. MarkRange[t][left][right][idx] = MarkRangeNode(t, L, R, left, right, idx)
    BY <1>1 DEF MarkRangeBy
  <1>3. MarkRangeNode(t, L, R, left, right, idx) = Remarked(t, b, a, m, c)
    BY DEF MarkRangeNode, Remarked
  <1>4. \A b_, l, m_, r : Remarked(t, b_, l, m_, r) = Made(t.weight, l, t.value, r, m_, b_)
    BY NodeExcept
  <1> HIDE DEF a, c, m, b
  <1>5. MarkRange[t][left][right][idx] = Made(t.weight, a, t.value, c, m, b)
    BY <1>2, <1>3, <1>4
  <1> QED  BY <1>5 DEF a, c, m, b, L, R

\* A node whose marked bit and whose subtrees may have got marks.
LEMMA MarksOf ==
    ASSUME NEW t \in Subtree, t # NODE_NULL, Consistent(t), NEW u \in Subtree, u # NODE_NULL,
           NEW goLeft, NEW goRight, NEW hit,
           u.marked = (t.marked \/ hit), u.below = (t.below \/ goLeft \/ goRight),
           goLeft => Consistent(u.left) /\ Marked(u.left),
           ~goLeft => u.left = t.left,
           goRight => Consistent(u.right) /\ Marked(u.right),
           ~goRight => u.right = t.right
    PROVE  Consistent(u) /\ (Marked(t) \/ goLeft \/ goRight \/ hit => Marked(u))
  <1>1. /\ Consistent(t.left) /\ Consistent(t.right)
        /\ t.below <=> Marked(t.left) \/ Marked(t.right)
        /\ Marked(t) <=> Marked(t.left) \/ Marked(t.right) \/ t.marked
    BY OfNode
  <1>2. Consistent(u.left) /\ Consistent(u.right)
    BY <1>1
  <1>3. u.below <=> Marked(u.left) \/ Marked(u.right)
    <2>1. CASE goLeft \/ goRight
      BY <2>1
    <2>2. CASE ~goLeft /\ ~goRight
      BY <1>1, <2>2
    <2> QED  BY <2>1, <2>2
  <1>4. Marked(u) <=> Marked(u.left) \/ Marked(u.right) \/ u.marked
    BY OfNode
  <1>5. Consistent(u)
    BY <1>2, <1>3, OfNode
  <1>6. Marked(t) \/ goLeft \/ goRight \/ hit => Marked(u)
    BY <1>1, <1>4
  <1> QED  BY <1>5, <1>6

\* iterate_and_mark_range_internal, where the range meets the subtree.
Meets(s, left, right, idx) ==
    /\ s # NODE_NULL
    /\ left < right /\ left < idx + s.weight /\ idx < right /\ idx + s.weight <= MaxSize

LEMMA MarkRangeIs ==
    ASSUME NEW t, Exact(t), Consistent(t), NEW left \in Slot, NEW right \in Slot, NEW idx \in Slot,
           Meets(t, left, right, idx)
    PROVE  MarkedTree(MarkRange[t][left][right][idx], t, left, right, idx)
  <1> DEFINE Good(s) == Exact(s) /\ Consistent(s) =>
                           \A i \in Slot : Meets(s, left, right, i) =>
                                              MarkedTree(MarkRange[s][left][right][i], s, left, right, i)
             T == {s \in Subtree : Good(s)}
  <1>0. MaxSize \in Nat /\ left \in Nat /\ right \in Nat
    BY OmtAssumption DEF Slot
  <1>1. NODE_NULL \in T
    <2>1. ASSUME NEW i \in Slot, Meets(NODE_NULL, left, right, i) PROVE FALSE
      BY <2>1 DEF Meets
    <2> QED  BY <2>1, NullIsSubtree
  <1>2. ASSUME NEW s \in Subtree, s # NODE_NULL, s.left \in T, s.right \in T PROVE s \in T
    <2> DEFINE L == s.left
               R == s.right
               x == s.value
               wl == s.left.weight
               wr == s.right.weight
    <2> SUFFICES ASSUME Exact(s), Consistent(s), NEW i \in Slot, Meets(s, left, right, i)
                 PROVE  MarkedTree(MarkRange[s][left][right][i], s, left, right, i)
      OBVIOUS
    <2> DEFINE root == i + wl
               goLeft == left < root /\ L # NODE_NULL
               goRight == root + 1 < right /\ R # NODE_NULL
               hit == left <= root /\ root < right
               a == IF goLeft THEN MarkRange[L][left][right][i] ELSE L
               c == IF goRight THEN MarkRange[R][left][right][root + 1] ELSE R
               m == s.marked \/ hit
               b == s.below \/ goLeft \/ goRight
               u == MarkRange[s][left][right][i]
    <2>1. s.weight = wl + 1 + wr /\ wl \in Nat /\ wr \in Nat /\ i \in Nat
      BY <1>0, <1>2, ExactSum DEF Slot
    <2>2. left < right /\ left < i + wl + 1 + wr /\ i < right /\ i + wl + 1 + wr <= MaxSize
      BY <2>1 DEF Meets
    <2>3. Exact(L) /\ Exact(R) /\ Consistent(L) /\ Consistent(R) /\ x \in Value
          /\ s.marked \in BOOLEAN /\ s.below \in BOOLEAN /\ L \in Subtree /\ R \in Subtree
      BY <1>2, ExactParts, OfNode, Parts
    <2>4. Good(L) /\ Good(R)
      BY <1>2
    <2>5. (L = NODE_NULL <=> wl = 0) /\ (R = NODE_NULL <=> wr = 0)
      BY <2>3, ExactNull
    <2>6. u = Made(s.weight, a, x, c, m, b)
      <3>1. root = i + s.left.weight /\ goLeft = (left < root /\ s.left # NODE_NULL)
            /\ goRight = (root + 1 < right /\ s.right # NODE_NULL)
        OBVIOUS
      <3> HIDE DEF root, goLeft, goRight
      <3> QED  BY <1>2, <3>1, MarkRangeStep
    <2>7. ASSUME goLeft PROVE MarkedTree(a, L, left, right, i)
      <3>1. Meets(L, left, right, i)
        <4>1. left < i + wl /\ i + wl <= MaxSize /\ L # NODE_NULL
          BY <1>0, <2>1, <2>2, <2>7
        <4> QED  BY <2>2, <4>1 DEF Meets
      <3>2. a = MarkRange[L][left][right][i]
        BY <2>7
      <3> HIDE DEF a, goLeft
      <3> QED  BY <2>3, <2>4, <3>1, <3>2
    <2>8. ASSUME goRight PROVE MarkedTree(c, R, left, right, root + 1)
      <3> DEFINE k == root + 1
      <3>1. k \in Slot
        <4>1. k \in Nat /\ k <= MaxSize
          BY <1>0, <2>1, <2>2
        <4> HIDE DEF k
        <4> QED  BY <1>0, <4>1 DEF Slot
      <3>2. Meets(R, left, right, k)
        <4>1. k + wr = i + wl + 1 + wr /\ k < right /\ R # NODE_NULL
          BY <2>1, <2>8
        <4> HIDE DEF k
        <4> QED  BY <2>2, <4>1 DEF Meets
      <3>3. c = MarkRange[R][left][right][k]
        BY <2>8
      <3> HIDE DEF c, goRight, k
      <3>4. MarkedTree(c, R, left, right, k)
        BY <2>3, <2>4, <3>1, <3>2, <3>3
      <3> QED  BY <3>4 DEF k
    <2>9. ~goLeft => a = L
      OBVIOUS
    <2>10. ~goRight => c = R
      OBVIOUS
    <2>11. m \in BOOLEAN /\ b \in BOOLEAN
      OBVIOUS
    <2>12. hit \/ goLeft \/ goRight
      <3>1. CASE root < left
        <4>1. root + 1 < right /\ wr # 0
          BY <1>0, <2>1, <2>2, <3>1
        <4> QED  BY <2>5, <4>1
      <3>2. CASE right <= root
        <4>1. left < root /\ wl # 0
          BY <1>0, <2>1, <2>2, <3>2
        <4> QED  BY <2>5, <4>1
      <3>3. CASE left <= root /\ root < right
        BY <3>3
      <3> QED  BY <1>0, <2>1, <3>1, <3>2, <3>3
    <2>19. ~goLeft => Span(left, right, i, wl) = {}
      <3>1. ~goLeft => wl = 0 \/ i + wl <= left
        BY <1>0, <2>1, <2>5
      <3> HIDE DEF wl, goLeft
      <3> QED  BY <1>0, <2>1, <3>1, SpanNone
    <2>20. ~goRight => Span(left, right, root + 1, wr) = {}
      <3> DEFINE k == root + 1
      <3>1. k \in Nat /\ (~goRight => wr = 0 \/ right <= k)
        BY <1>0, <2>1, <2>5
      <3> HIDE DEF wr, goRight, k
      <3>2. ~goRight => Span(left, right, k, wr) = {}
        BY <1>0, <2>1, <3>1, SpanNone
      <3> QED  BY <3>2 DEF k
    <2>21. Span(left, right, i, s.weight) = Span(left, right, i, wl) \cup (IF hit THEN {root} ELSE {})
                                           \cup Span(left, right, root + 1, wr)
      <3>1. root = i + wl
        OBVIOUS
      <3>2. Span(left, right, i, wl + 1 + wr) = Span(left, right, i, wl) \cup (IF hit THEN {root} ELSE {})
                                                \cup Span(left, right, root + 1, wr)
        <4> HIDE DEF wl, wr
        <4>1. SpanSplits(left, right, i, wl, wr, i + wl)
          BY <1>0, <2>1, SpanNode
        <4> QED  BY <4>1 DEF SpanSplits
      <3> QED  BY <2>1, <3>2
    <2>22. root = i + s.left.weight
      OBVIOUS
    <2> HIDE DEF goLeft, goRight, hit, a, c, m, b, u, root
    <2>13. SameShape(a, L) /\ Values[a] = Values[L]
      BY <2>3, <2>7, <2>9, SameShapeSelf DEF MarkedTree
    <2>14. SameShape(c, R) /\ Values[c] = Values[R]
      BY <2>3, <2>8, <2>10, SameShapeSelf DEF MarkedTree
    <2>15. s.weight <= MaxSize + 1
      BY <1>0, <2>1, <2>2
    <2>16. /\ SameShape(u, s) /\ u # NODE_NULL /\ u \in Subtree
           /\ u.left = a /\ u.right = c /\ u.marked = m /\ u.below = b
           /\ Values[u] = Mid(Values[a], x, Values[c])
      BY <1>2, <2>3, <2>6, <2>11, <2>13, <2>14, <2>15, SameShapeNode
    <2>17. Values[u] = Values[s]
      BY <1>2, <2>13, <2>14, <2>16, NodeValues
    <2>18. Consistent(u) /\ Marked(u)
      <3>1. u.marked = (s.marked \/ hit) /\ u.below = (s.below \/ goLeft \/ goRight)
        BY <2>16 DEF m, b
      <3>2. goLeft => Consistent(u.left) /\ Marked(u.left)
        BY <2>7, <2>16 DEF MarkedTree
      <3>3. goRight => Consistent(u.right) /\ Marked(u.right)
        BY <2>8, <2>16 DEF MarkedTree
      <3>4. (~goLeft => u.left = s.left) /\ (~goRight => u.right = s.right)
        BY <2>9, <2>10, <2>16
      <3> QED  BY <1>2, <2>12, <2>16, <3>1, <3>2, <3>3, <3>4, MarksOf
    <2>23. MarkedSlots[a][i] = MarkedSlots[L][i] \cup Span(left, right, i, wl)
      BY <2>7, <2>9, <2>19 DEF MarkedTree
    <2>24. MarkedSlots[c][root + 1] = MarkedSlots[R][root + 1] \cup Span(left, right, root + 1, wr)
      BY <2>8, <2>10, <2>20 DEF MarkedTree
    <2>25. MarkedSlots[s][i] = MarkedAround(s, i, root)
      BY <1>2, <2>22, MarkedSlotsStep
    <2>26. MarkedSlots[u][i] = MarkedAround(u, i, root)
      <3>1. MarkedSlots[u][i] = MarkedAround(u, i, i + u.left.weight)
        BY <2>16, MarkedSlotsStep
      <3>2. u.left.weight = s.left.weight
        BY <2>13, <2>16 DEF SameShape
      <3> QED  BY <2>22, <3>1, <3>2
    <2>27. MarkedSlots[u][i] = MarkedSlots[s][i] \cup Span(left, right, i, s.weight)
      <3>1. u.marked <=> s.marked \/ hit
        BY <2>16 DEF m
      <3>2. MarkedAround(u, i, root) = MarkedSlots[a][i] \cup (IF u.marked THEN {root} ELSE {})
                                       \cup MarkedSlots[c][root + 1]
        BY <2>16 DEF MarkedAround
      <3> HIDE DEF wl, wr
      <3> QED  BY <2>21, <2>23, <2>24, <2>25, <2>26, <3>1, <3>2 DEF MarkedAround
    <2> QED  BY <2>16, <2>17, <2>18, <2>27 DEF MarkedTree, u
  <1> HIDE DEF T
  <1>3. Subtree \subseteq T
    BY <1>1, <1>2, TreeInduction
  <1>4. t \in T
    BY <1>3, ExactWeight
  <1> QED  BY <1>4 DEF T

LEMMA UnmarkedIsClean ==
    ASSUME NEW t \in Subtree, Consistent(t), ~Marked(t)
    PROVE  Clean(t)
  <1> DEFINE T == {u \in Subtree : Consistent(u) /\ ~Marked(u) => Clean(u)}
  <1>1. NODE_NULL \in T
    BY NullIsSubtree, NullIsSound
  <1>2. ASSUME NEW u \in Subtree, u # NODE_NULL, u.left \in T, u.right \in T PROVE u \in T
    BY <1>2, OfNode
  <1> HIDE DEF T
  <1>3. Subtree \subseteq T
    BY <1>1, <1>2, TreeInduction
  <1> QED  BY <1>3 DEF T

Unmarks(u, t) == SameShape(u, t) /\ Values[u] = Values[t] /\ Clean(u)

LEMMA UnmarkIs ==
    ASSUME NEW t, Exact(t), Consistent(t), t.weight <= MaxSize + 1
    PROVE  Unmarks(Unmark[t], t)
  <1> DEFINE Good(s) == Exact(s) /\ Consistent(s) /\ s.weight <= MaxSize + 1 => Unmarks(Unmark[s], s)
             T == {s \in Subtree : Good(s)}
  <1>0. MaxSize \in Nat
    BY OmtAssumption
  <1>1. NODE_NULL \in T
    <2>1. Unmark[NODE_NULL] = NODE_NULL
      BY NullIsSubtree, UnmarkEquation DEF UnmarkBy
    <2> QED  BY <2>1, NullIsSubtree, NullIsSound, SameShapeSelf DEF Unmarks
  <1>2. ASSUME NEW s \in Subtree, s # NODE_NULL, s.left \in T, s.right \in T PROVE s \in T
    <2> DEFINE L == s.left
               R == s.right
               x == s.value
               no == FALSE
               u == Unmark[s]
               a == IF s.below THEN Unmark[L] ELSE L
               c == IF s.below THEN Unmark[R] ELSE R
    <2> SUFFICES ASSUME Exact(s), Consistent(s), s.weight <= MaxSize + 1
                 PROVE  Unmarks(u, s)
      OBVIOUS
    <2>1. s.weight = L.weight + 1 + R.weight /\ L.weight \in Nat /\ R.weight \in Nat
      BY <1>2, ExactSum
    <2>2. L.weight <= MaxSize + 1 /\ R.weight <= MaxSize + 1
      BY <1>0, <2>1
    <2>3. Exact(L) /\ Exact(R) /\ Consistent(L) /\ Consistent(R) /\ x \in Value
          /\ L \in Subtree /\ R \in Subtree /\ no \in BOOLEAN
      BY <1>2, ExactParts, OfNode, Parts
    <2>4. Unmarks(Unmark[L], L) /\ Unmarks(Unmark[R], R)
      BY <1>2, <2>2, <2>3
    <2>5. s.below <=> Marked(L) \/ Marked(R)
      BY <1>2, OfNode
    <2>6. Unmarks(a, L)
      <3>1. CASE s.below
        BY <2>4, <3>1
      <3>2. CASE ~s.below
        <4>1. Clean(L)
          BY <2>3, <2>5, <3>2, UnmarkedIsClean
        <4> QED  BY <2>3, <3>2, <4>1, SameShapeSelf DEF Unmarks
      <3> QED  BY <3>1, <3>2
    <2>7. Unmarks(c, R)
      <3>1. CASE s.below
        BY <2>4, <3>1
      <3>2. CASE ~s.below
        <4>1. Clean(R)
          BY <2>3, <2>5, <3>2, UnmarkedIsClean
        <4> QED  BY <2>3, <3>2, <4>1, SameShapeSelf DEF Unmarks
      <3> QED  BY <3>1, <3>2
    <2>8. u = Made(s.weight, a, x, c, no, no)
      <3>1. u = UnmarkBy(s, Unmark[L], Unmark[R])
        BY <1>2, UnmarkEquation
      <3>2. UnmarkBy(s, Unmark[L], Unmark[R]) = Cleared(s, a, c)
        BY <1>2 DEF UnmarkBy, Cleared
      <3> HIDE DEF a, c, u
      <3>3. \A l, r : Cleared(s, l, r) = Made(s.weight, l, s.value, r, FALSE, FALSE)
        BY <1>2, NodeExcept
      <3> QED  BY <3>1, <3>2, <3>3
    <2> HIDE DEF a, c, u
    <2>9. SameShape(a, L) /\ SameShape(c, R) /\ Values[a] = Values[L] /\ Values[c] = Values[R]
          /\ Clean(a) /\ Clean(c)
      BY <2>6, <2>7 DEF Unmarks
    <2>10. /\ SameShape(u, s) /\ u # NODE_NULL /\ u \in Subtree
           /\ u.left = a /\ u.right = c /\ u.marked = no /\ u.below = no
           /\ Values[u] = Mid(Values[a], x, Values[c])
      <3> HIDE DEF no
      <3> QED  BY <1>2, <2>3, <2>8, <2>9, SameShapeNode
    <2>11. Values[u] = Values[s]
      BY <1>2, <2>9, <2>10, NodeValues
    <2>12. Clean(u)
      BY <2>9, <2>10, OfNode
    <2> QED  BY <2>10, <2>11, <2>12 DEF Unmarks
  <1> HIDE DEF T
  <1>3. Subtree \subseteq T
    BY <1>1, <1>2, TreeInduction
  <1>4. t \in T
    BY <1>3, ExactWeight
  <1> QED  BY <1>4 DEF T

\* q lists the slots of D, which are among the n slots from lo, from left to right.
Lists(q, D, lo, n) ==
    /\ q \in Seq(Nat)
    /\ Len(q) <= n
    /\ \A k \in 1 .. Len(q) : lo + (k - 1) <= q[k] /\ q[k] < lo + n
    /\ \A k, m \in 1 .. Len(q) : k < m => q[k] < q[m]
    /\ D = {q[k] : k \in 1 .. Len(q)}

LEMMA ListsNone ==
    ASSUME NEW lo \in Nat, NEW n \in Nat
    PROVE  Lists(<< >>, {}, lo, n)
  BY DEF Lists

LEMMA ListsOne ==
    ASSUME NEW lo \in Nat
    PROVE  Lists(<<lo>>, {lo}, lo, 1)
  <1> DEFINE q == <<lo>>
  <1>1. q \in Seq(Nat) /\ Len(q) = 1 /\ q[1] = lo
    OBVIOUS
  <1> HIDE DEF q
  <1>2. \A k \in 1 .. Len(q) : k = 1
    BY <1>1
  <1>3. \A k \in 1 .. Len(q) : lo + (k - 1) <= q[k] /\ q[k] < lo + 1
    BY <1>1, <1>2
  <1>4. \A k, m \in 1 .. Len(q) : k < m => q[k] < q[m]
    BY <1>2
  <1>5. {lo} = {q[k] : k \in 1 .. Len(q)}
    BY <1>1, <1>2
  <1>6. Lists(q, {lo}, lo, 1)
    BY <1>1, <1>3, <1>4, <1>5 DEF Lists
  <1> QED  BY <1>6 DEF q

LEMMA ListsBoth ==
    ASSUME NEW lo \in Nat, NEW n \in Nat, NEW m \in Nat, NEW p, NEW D, Lists(p, D, lo, n),
           NEW q, NEW E, Lists(q, E, lo + n, m)
    PROVE  Lists(p \o q, D \cup E, lo, n + m)
  <1> DEFINE w == p \o q
  <1>1. /\ p \in Seq(Nat) /\ Len(p) <= n /\ q \in Seq(Nat) /\ Len(q) <= m
        /\ \A k \in 1 .. Len(p) : lo + (k - 1) <= p[k] /\ p[k] < lo + n
        /\ \A k \in 1 .. Len(q) : lo + n + (k - 1) <= q[k] /\ q[k] < lo + n + m
        /\ \A k, i \in 1 .. Len(p) : k < i => p[k] < p[i]
        /\ \A k, i \in 1 .. Len(q) : k < i => q[k] < q[i]
        /\ D = {p[k] : k \in 1 .. Len(p)} /\ E = {q[k] : k \in 1 .. Len(q)}
    BY DEF Lists
  <1>2. Len(p) \in Nat /\ Len(q) \in Nat
    BY <1>1
  <1>3. /\ w \in Seq(Nat) /\ Len(w) = Len(p) + Len(q)
        /\ \A k \in 1 .. Len(p) + Len(q) : w[k] = IF k <= Len(p) THEN p[k] ELSE q[k - Len(p)]
    <2>1. p \in Seq(Nat) /\ q \in Seq(Nat)
      BY <1>1
    <2> QED  BY <2>1, ConcatProperties
  <1> HIDE DEF w
  <1>4. \A k \in 1 .. Len(w) : \/ k \in 1 .. Len(p) /\ w[k] = p[k]
                               \/ k > Len(p) /\ k - Len(p) \in 1 .. Len(q) /\ w[k] = q[k - Len(p)]
    <2> SUFFICES ASSUME NEW k \in 1 .. Len(p) + Len(q)
                 PROVE  \/ k \in 1 .. Len(p) /\ w[k] = p[k]
                        \/ k > Len(p) /\ k - Len(p) \in 1 .. Len(q) /\ w[k] = q[k - Len(p)]
      BY <1>3
    <2>1. CASE k <= Len(p)
      BY <1>2, <1>3, <2>1
    <2>2. CASE ~(k <= Len(p))
      <3>1. k > Len(p) /\ k - Len(p) \in 1 .. Len(q)
        BY <1>2, <2>2
      <3> QED  BY <1>3, <2>2, <3>1
    <2> QED  BY <2>1, <2>2
  <1>5. ASSUME NEW k \in 1 .. Len(w) PROVE lo + (k - 1) <= w[k] /\ w[k] < lo + (n + m)
    <2>1. CASE k \in 1 .. Len(p) /\ w[k] = p[k]
      <3>1. lo + (k - 1) <= p[k] /\ p[k] < lo + n /\ p[k] \in Nat
        BY <1>1, <2>1
      <3> QED  BY <2>1, <3>1
    <2>2. CASE k > Len(p) /\ k - Len(p) \in 1 .. Len(q) /\ w[k] = q[k - Len(p)]
      <3> DEFINE i == k - Len(p)
      <3>1. i \in 1 .. Len(q)
        BY <2>2
      <3>2. lo + n + (i - 1) <= q[i] /\ q[i] < lo + n + m /\ q[i] \in Nat
        <4> HIDE DEF i
        <4> QED  BY <1>1, <3>1, SMTT(20)
      <3>3. k = Len(p) + i /\ i \in Nat /\ w[k] = q[i]
        BY <1>2, <2>2
      <3> HIDE DEF i
      <3> QED  BY <1>1, <1>2, <3>2, <3>3, SMTT(20)
    <2> QED  BY <1>4, <2>1, <2>2
  <1>6. ASSUME NEW k \in 1 .. Len(w), NEW i \in 1 .. Len(w), k < i PROVE w[k] < w[i]
    <2>0. k \in Nat /\ i \in Nat
      OBVIOUS
    <2>1. CASE i \in 1 .. Len(p) /\ w[i] = p[i]
      <3>1. k \in 1 .. Len(p) /\ ~(k > Len(p))
        BY <1>2, <1>6, <2>1
      <3>2. w[k] = p[k]
        BY <1>4, <3>1
      <3> QED  BY <1>1, <1>6, <2>1, <3>1, <3>2
    <2>2. CASE i > Len(p) /\ i - Len(p) \in 1 .. Len(q) /\ w[i] = q[i - Len(p)]
      <3> DEFINE j == i - Len(p)
      <3>0. j \in 1 .. Len(q) /\ w[i] = q[j]
        BY <2>2
      <3>1. CASE k \in 1 .. Len(p) /\ w[k] = p[k]
        <4>1. lo + n + (j - 1) <= q[j] /\ q[j] \in Nat /\ j \in Nat /\ j >= 1
          <5> HIDE DEF j
          <5> QED  BY <1>1, <3>0, SMTT(20)
        <4>2. p[k] < lo + n /\ p[k] \in Nat
          BY <1>1, <3>1, SMTT(20)
        <4> HIDE DEF j
        <4> QED  BY <3>0, <3>1, <4>1, <4>2
      <3>2. CASE k > Len(p) /\ k - Len(p) \in 1 .. Len(q) /\ w[k] = q[k - Len(p)]
        <4> DEFINE g == k - Len(p)
        <4>1. g \in 1 .. Len(q) /\ w[k] = q[g] /\ g < j
          BY <1>2, <1>6, <2>0, <3>2
        <4> HIDE DEF j, g
        <4> QED  BY <1>1, <3>0, <4>1
      <3> QED  BY <1>4, <3>1, <3>2
    <2> QED  BY <1>4, <2>1, <2>2
  <1>7. D \cup E = {w[k] : k \in 1 .. Len(w)}
    <2>1. ASSUME NEW k \in 1 .. Len(p) PROVE k \in 1 .. Len(w) /\ w[k] = p[k]
      BY <1>2, <1>3
    <2>2. ASSUME NEW k \in 1 .. Len(q)
          PROVE  Len(p) + k \in 1 .. Len(w) /\ w[Len(p) + k] = q[k]
      <3>1. Len(p) + k \in 1 .. Len(p) + Len(q) /\ ~(Len(p) + k <= Len(p)) /\ (Len(p) + k) - Len(p) = k
        BY <1>2
      <3> QED  BY <1>3, <3>1
    <2>3. D \subseteq {w[k] : k \in 1 .. Len(w)}
      BY <1>1, <2>1
    <2>4. E \subseteq {w[k] : k \in 1 .. Len(w)}
      BY <1>1, <2>2
    <2>5. {w[k] : k \in 1 .. Len(w)} \subseteq D \cup E
      BY <1>1, <1>4
    <2> QED  BY <2>3, <2>4, <2>5
  <1>8. Len(w) <= n + m
    BY <1>1, <1>2, <1>3
  <1>9. Lists(w, D \cup E, lo, n + m)
    BY <1>3, <1>5, <1>6, <1>7, <1>8 DEF Lists
  <1> QED  BY <1>9 DEF w

ListedAround(t, idx, root) ==
    (IF t.below THEN OverMarked[t.left][idx] ELSE << >>)
    \o (IF t.marked THEN <<root>> ELSE << >>)
    \o (IF t.below THEN OverMarked[t.right][root + 1] ELSE << >>)

LEMMA OverMarkedStep ==
    ASSUME NEW t \in Subtree, t # NODE_NULL, NEW idx \in Slot
    PROVE  OverMarked[t][idx] = ListedAround(t, idx, idx + t.left.weight)
  <1> DEFINE p == OverMarked[t.left]
             q == OverMarked[t.right]
  <1>1. OverMarked[t] = OverMarkedBy(t, p, q)
    BY OverMarkedEquation
  <1> HIDE DEF p, q
  <1>2. OverMarked[t][idx] = OverMarkedNode(t, p, q, idx)
    BY <1>1 DEF OverMarkedBy
  <1> DEFINE root == idx + t.left.weight
  <1>3. OverMarkedNode(t, p, q, idx) = (IF t.below THEN p[idx] ELSE << >>)
                                       \o (IF t.marked THEN <<root>> ELSE << >>)
                                       \o (IF t.below THEN q[root + 1] ELSE << >>)
    BY DEF OverMarkedNode
  <1> QED  BY <1>2, <1>3, Zenon DEF p, q, ListedAround

LEMMA NoMarkedSlots ==
    ASSUME NEW t, Exact(t), ~Marked(t), NEW idx \in Slot, idx + t.weight <= MaxSize
    PROVE  MarkedSlots[t][idx] = {}
  <1> DEFINE Good(s) == Exact(s) /\ ~Marked(s) =>
                           \A i \in Slot : i + s.weight <= MaxSize => MarkedSlots[s][i] = {}
             T == {s \in Subtree : Good(s)}
  <1>0. MaxSize \in Nat
    BY OmtAssumption
  <1>1. NODE_NULL \in T
    BY NullIsSubtree, MarkedSlotsNull
  <1>2. ASSUME NEW s \in Subtree, s # NODE_NULL, s.left \in T, s.right \in T PROVE s \in T
    <2> SUFFICES ASSUME Exact(s), ~Marked(s), NEW i \in Slot, i + s.weight <= MaxSize
                 PROVE  MarkedSlots[s][i] = {}
      OBVIOUS
    <2> DEFINE root == i + s.left.weight
    <2>1. s.weight = s.left.weight + 1 + s.right.weight /\ s.left.weight \in Nat /\ s.right.weight \in Nat
          /\ i \in Nat
      BY <1>0, <1>2, ExactSum DEF Slot
    <2>2. Exact(s.left) /\ Exact(s.right) /\ ~Marked(s.left) /\ ~Marked(s.right) /\ ~s.marked
      BY <1>2, ExactParts, OfNode
    <2>3. MarkedSlots[s.left][i] = {}
      <3>1. i + s.left.weight <= MaxSize
        BY <1>0, <2>1
      <3> QED  BY <1>2, <2>2, <3>1
    <2>4. MarkedSlots[s.right][root + 1] = {}
      <3> DEFINE k == root + 1
      <3>1. k \in Nat /\ k <= MaxSize /\ k + s.right.weight <= MaxSize
        BY <1>0, <2>1
      <3> HIDE DEF k
      <3>2. k \in Slot
        BY <1>0, <3>1 DEF Slot
      <3>3. MarkedSlots[s.right][k] = {}
        BY <1>2, <2>2, <3>1, <3>2
      <3> QED  BY <3>3 DEF k
    <2>5. MarkedSlots[s][i] = MarkedSlots[s.left][i] \cup (IF s.marked THEN {root} ELSE {})
                              \cup MarkedSlots[s.right][root + 1]
      <3>1. MarkedSlots[s][i] = MarkedAround(s, i, i + s.left.weight)
        BY <1>2, MarkedSlotsStep
      <3> QED  BY <3>1 DEF MarkedAround
    <2> QED  BY <2>2, <2>3, <2>4, <2>5
  <1> HIDE DEF T
  <1>3. Subtree \subseteq T
    BY <1>1, <1>2, TreeInduction
  <1>4. t \in T
    BY <1>3, ExactWeight
  <1> QED  BY <1>4 DEF T

\* iterate_over_marked finds the marked slots, all of them, in order.
LEMMA OverMarkedIs ==
    ASSUME NEW t, Exact(t), Consistent(t), NEW idx \in Slot, idx + t.weight <= MaxSize
    PROVE  Lists(OverMarked[t][idx], MarkedSlots[t][idx], idx, t.weight)
  <1> DEFINE Good(s) == Exact(s) /\ Consistent(s) =>
                           \A i \in Slot : i + s.weight <= MaxSize =>
                              Lists(OverMarked[s][i], MarkedSlots[s][i], i, s.weight)
             T == {s \in Subtree : Good(s)}
  <1>0. MaxSize \in Nat
    BY OmtAssumption
  <1>1. NODE_NULL \in T
    <2>1. ASSUME NEW i \in Slot
          PROVE  Lists(OverMarked[NODE_NULL][i], MarkedSlots[NODE_NULL][i], i, NODE_NULL.weight)
      <3>1. i \in Nat /\ NODE_NULL.weight \in Nat
        BY <1>0, NullIsSound DEF Slot
      <3>2. OverMarked[NODE_NULL][i] = << >> /\ MarkedSlots[NODE_NULL][i] = {}
        BY MarkedSlotsNull
      <3> DEFINE z == NODE_NULL.weight
      <3> HIDE DEF z
      <3>3. Lists(<< >>, {}, i, z)
        BY <3>1, ListsNone DEF z
      <3> QED  BY <3>2, <3>3 DEF z
    <2> QED  BY <2>1, NullIsSubtree
  <1>2. ASSUME NEW s \in Subtree, s # NODE_NULL, s.left \in T, s.right \in T PROVE s \in T
    <2> SUFFICES ASSUME Exact(s), Consistent(s), NEW i \in Slot, i + s.weight <= MaxSize
                 PROVE  Lists(OverMarked[s][i], MarkedSlots[s][i], i, s.weight)
      OBVIOUS
    <2> DEFINE L == s.left
               R == s.right
               wl == s.left.weight
               wr == s.right.weight
               root == i + wl
               k == root + 1
               p == IF s.below THEN OverMarked[L][i] ELSE << >>
               h_ == IF s.marked THEN <<root>> ELSE << >>
               q == IF s.below THEN OverMarked[R][k] ELSE << >>
               D == MarkedSlots[L][i]
               H == IF s.marked THEN {root} ELSE {}
               E == MarkedSlots[R][k]
               one == 1
    <2>1. s.weight = wl + 1 + wr /\ wl \in Nat /\ wr \in Nat /\ i \in Nat /\ root \in Nat
      BY <1>0, <1>2, ExactSum DEF Slot
    <2>2. Exact(L) /\ Exact(R) /\ Consistent(L) /\ Consistent(R) /\ (s.below <=> Marked(L) \/ Marked(R))
      BY <1>2, ExactParts, OfNode
    <2>3. i + wl <= MaxSize
      BY <1>0, <2>1
    <2>4. k \in Nat /\ k <= MaxSize /\ k + wr <= MaxSize
      BY <1>0, <2>1
    <2>5. k \in Slot
      <3> HIDE DEF k
      <3> QED  BY <1>0, <2>4 DEF Slot
    <2>6. OverMarked[s][i] = p \o h_ \o q /\ MarkedSlots[s][i] = D \cup H \cup E
      <3>1. MarkedSlots[s][i] = MarkedAround(s, i, i + s.left.weight)
            /\ OverMarked[s][i] = ListedAround(s, i, i + s.left.weight)
        BY <1>2, MarkedSlotsStep, OverMarkedStep
      <3> QED  BY <3>1, Zenon DEF MarkedAround, ListedAround
    <2>7. Lists(p, D, i, wl)
      <3>1. CASE s.below
        <4>1. p = OverMarked[L][i]
          BY <3>1
        <4> HIDE DEF p
        <4> QED  BY <1>2, <2>2, <2>3, <4>1
      <3>2. CASE ~s.below
        <4>1. D = {}
          <5> HIDE DEF D, L
          <5> USE DEF D
          <5> QED  BY <2>2, <2>3, <3>2, NoMarkedSlots DEF L
        <4>2. p = << >>
          BY <3>2
        <4> HIDE DEF p, D, wl
        <4> QED  BY <2>1, <4>1, <4>2, ListsNone
      <3> QED  BY <3>1, <3>2
    <2>8. Lists(q, E, k, wr)
      <3> HIDE DEF k
      <3>1. CASE s.below
        <4>1. q = OverMarked[R][k]
          BY <3>1
        <4> HIDE DEF q
        <4> QED  BY <1>2, <2>2, <2>4, <2>5, <4>1
      <3>2. CASE ~s.below
        <4>1. E = {}
          BY <2>2, <2>4, <2>5, <3>2, NoMarkedSlots
        <4>2. q = << >>
          BY <3>2
        <4> HIDE DEF q, E, wr
        <4> QED  BY <2>1, <2>4, <4>1, <4>2, ListsNone
      <3> QED  BY <3>1, <3>2
    <2>9. Lists(h_, H, root, one)
      <3>1. CASE s.marked
        <4>1. h_ = <<root>> /\ H = {root}
          BY <3>1
        <4> HIDE DEF root, h_, H
        <4> QED  BY <2>1, <4>1, ListsOne
      <3>2. CASE ~s.marked
        <4>1. h_ = << >> /\ H = {} /\ one \in Nat
          BY <3>2
        <4> HIDE DEF root, h_, H, one
        <4> QED  BY <2>1, <4>1, ListsNone
      <3> QED  BY <3>1, <3>2
    <2>10. wl + one \in Nat /\ i + (wl + one) = k /\ (wl + one) + wr = s.weight /\ one \in Nat
      BY <2>1
    <2> HIDE DEF p, h_, q, D, H, E, k, one
    <2>11. Lists(p \o h_, D \cup H, i, wl + one)
      <3>1. root = i + wl
        OBVIOUS
      <3> HIDE DEF root, wl
      <3>2. Lists(h_, H, i + wl, one)
        BY <2>9, <3>1
      <3> QED  BY <2>1, <2>7, <2>10, <3>2, ListsBoth
    <2>12. Lists((p \o h_) \o q, (D \cup H) \cup E, i, (wl + one) + wr)
      <3> DEFINE n == wl + one
                 u == p \o h_
                 G == D \cup H
      <3>1. n \in Nat /\ Lists(u, G, i, n) /\ Lists(q, E, i + n, wr)
        BY <2>8, <2>10, <2>11
      <3> HIDE DEF n, u, G, wr
      <3>2. Lists(u \o q, G \cup E, i, n + wr)
        BY <2>1, <3>1, ListsBoth
      <3> QED  BY <3>2 DEF n, u, G
    <2> QED  BY <2>6, <2>10, <2>12
  <1> HIDE DEF T
  <1>3. Subtree \subseteq T
    BY <1>1, <1>2, TreeInduction
  <1>4. t \in T
    BY <1>3, ExactWeight
  <1> QED  BY <1>4 DEF T

-----------------------------------------------------------------------------
(* Whole structures                                                        *)

ArrayOf(o) ==
    /\ o = Array(o.capacity, o.start_idx, o.values)
    /\ o.capacity \in Nat /\ o.start_idx \in Nat /\ o.values \in Seq(Value)
TreeOf(o) ==
    /\ o = Tree(o.capacity, o.root, o.free_idx)
    /\ o.capacity \in Nat /\ o.free_idx \in Nat
    /\ Exact(o.root) /\ Even(o.root)

\* A structure with consistent marks, and one without marks.
Sound(o) == ArrayOf(o) \/ (TreeOf(o) /\ Consistent(o.root))
Plain(o) == ArrayOf(o) \/ (TreeOf(o) /\ Clean(o.root))

\* u stands for the sequence s, and is a tree if o was one.
Stands(u, s, o) == Plain(u) /\ Contents(u) = s /\ (~o.is_array => ~u.is_array)

LEMMA ArrayIs ==
    ASSUME NEW c \in Nat, NEW i \in Nat, NEW s \in Seq(Value), NEW o, o = Array(c, i, s)
    PROVE  /\ ArrayOf(o) /\ o.is_array /\ o.values = s /\ o.capacity = c /\ o.start_idx = i
           /\ Contents(o) = s /\ Size(o) = Len(s)
  BY DEF ArrayOf, Array, Contents, Size

TreeMade(o, t) == TreeOf(o) /\ ~o.is_array /\ o.root = t /\ Contents(o) = Values[t]

LEMMA TreeIs ==
    ASSUME NEW c \in Nat, NEW f \in Nat, NEW t, Exact(t), Even(t)
    PROVE  TreeMade(Tree(c, t, f), t)
  BY DEF TreeMade, TreeOf, Tree, Contents

Rerooted(p, u) == [p EXCEPT !.root = u]
Extended(p, u, g) == [p EXCEPT !.root = u, !.free_idx = g]
Block(a, c, t, f) == [is_array |-> a, capacity |-> c, root |-> t, free_idx |-> f]

LEMMA TreeExcept ==
    ASSUME NEW c, NEW t, NEW f, NEW p, p = Tree(c, t, f)
    PROVE  /\ \A u : Rerooted(p, u) = Tree(c, u, f)
           /\ \A u, g : Extended(p, u, g) = Tree(c, u, g)
  <1> DEFINE no == FALSE
  <1>1. \A u, g : Tree(c, u, g) = Block(no, c, u, g)
    BY DEF Tree, Block
  <1>2. p = Block(no, c, t, f)
    BY <1>1
  <1> HIDE DEF no
  <1>3. ASSUME NEW u PROVE Rerooted(p, u) = Block(no, c, u, f)
    BY <1>2 DEF Rerooted, Block
  <1>4. ASSUME NEW u, NEW g PROVE Extended(p, u, g) = Block(no, c, u, g)
    <2> DEFINE q == [p EXCEPT !.root = u]
    <2>1. q = Block(no, c, u, f)
      BY <1>2 DEF Block
    <2>2. Extended(p, u, g) = [q EXCEPT !.free_idx = g]
      BY DEF Extended
    <2> HIDE DEF q
    <2> QED  BY <2>1, <2>2 DEF Block
  <1> QED  BY <1>1, <1>3, <1>4

LEMMA Kinds ==
    ASSUME NEW o
    PROVE  /\ ArrayOf(o) => o.is_array /\ Contents(o) = o.values /\ Size(o) = Len(o.values)
           /\ TreeOf(o) => /\ ~o.is_array /\ Contents(o) = Values[o.root]
                           /\ Size(o) = o.root.weight /\ o.root.weight = Len(Values[o.root])
                           /\ o.root \in Subtree
  <1>1. ASSUME ArrayOf(o)
        PROVE  o.is_array /\ Contents(o) = o.values /\ Size(o) = Len(o.values)
    <2>1. o.is_array
      BY <1>1 DEF ArrayOf, Array
    <2> QED  BY <2>1 DEF Contents, Size
  <1>2. ASSUME TreeOf(o)
        PROVE  /\ ~o.is_array /\ Contents(o) = Values[o.root]
               /\ Size(o) = o.root.weight /\ o.root.weight = Len(Values[o.root])
               /\ o.root \in Subtree
    <2>1. ~o.is_array
      BY <1>2 DEF TreeOf, Tree
    <2>2. Exact(o.root)
      BY <1>2 DEF TreeOf
    <2> QED  BY <2>1, <2>2, ExactWeight DEF Contents, Size
  <1> QED  BY <1>1, <1>2

\* What a structure says of the sequence it stands for.
LEMMA SoundSize ==
    ASSUME NEW o, Sound(o)
    PROVE  Contents(o) \in Seq(Value) /\ Size(o) = Len(Contents(o)) /\ Size(o) \in Nat
  <1>1. CASE ArrayOf(o)
    BY <1>1, Kinds DEF ArrayOf
  <1>2. CASE TreeOf(o)
    BY <1>2, Kinds, ValuesType
  <1> QED  BY <1>1, <1>2 DEF Sound

LEMMA PlainIsSound ==
    ASSUME NEW o, Plain(o)
    PROVE  Sound(o)
  BY Kinds, CleanIsConsistent DEF Sound, Plain

\* barf_if_marked looks at the root only; a structure it lets pass has no marks at all.
LEMMA UnmarkedIsPlain ==
    ASSUME NEW o, Sound(o), ~HasMarks(o)
    PROVE  Plain(o)
  <1>1. CASE ArrayOf(o)
    BY <1>1 DEF Plain
  <1>2. CASE TreeOf(o) /\ Consistent(o.root)
    <2>1. o.root # NODE_NULL => ~o.root.marked /\ ~o.root.below
      BY <1>2, Kinds DEF HasMarks
    <2>2. Clean(o.root)
      BY <1>2, <2>1, Kinds, RootTells
    <2> QED  BY <1>2, <2>2 DEF Plain
  <1> QED  BY <1>1, <1>2 DEF Sound

LEMMA SizeForType == \A n \in Nat : SizeFor(n) \in Nat
  BY DEF SizeFor

\* convert_to_array copies the values.
LEMMA ToArray ==
    ASSUME NEW o, Sound(o)
    PROVE  LET a == ConvertToArray(o)
           IN  ArrayOf(a) /\ Contents(a) = Contents(o) /\ (~o.is_array => a.start_idx = 0)
  <1> SUFFICES LET a == ConvertToArray(o)
               IN  ArrayOf(a) /\ Contents(a) = Contents(o) /\ (~o.is_array => a.start_idx = 0)
    OBVIOUS
  <1>1. CASE o.is_array
    <2>1. ArrayOf(o)
      BY <1>1, Kinds DEF Sound
    <2> QED  BY <1>1, <2>1 DEF ConvertToArray
  <1>2. CASE ~o.is_array
    <2> DEFINE c == SizeFor(Size(o))
               s == Contents(o)
               z == 0
    <2>1. c \in Nat /\ s \in Seq(Value) /\ z \in Nat
      BY SoundSize, SizeForType
    <2>2. ConvertToArray(o) = Array(c, z, s)
      BY <1>2 DEF ConvertToArray
    <2> HIDE DEF c, s, z
    <2> DEFINE a == ConvertToArray(o)
    <2> HIDE DEF a
    <2>3. ArrayOf(a) /\ Contents(a) = s /\ a.start_idx = z
      <3>1. a = Array(c, z, s)
        BY <2>2 DEF a
      <3> QED  BY <2>1, <3>1, ArrayIs
    <2> QED  BY <2>3 DEF s, z, a
  <1> QED  BY <1>1, <1>2

\* convert_to_tree keeps the values too, and marks nothing.
LEMMA ToTree ==
    ASSUME NEW o, Plain(o), Len(Contents(o)) <= MaxSize + 1
    PROVE  LET u == ConvertToTree(o)
           IN  /\ TreeOf(u) /\ Clean(u.root) /\ Contents(u) = Contents(o) /\ ~u.is_array
               /\ ~o.is_array => u = o
  <1>1. CASE o.is_array
    <2>1. ArrayOf(o)
      BY <1>1, Kinds DEF Plain
    <2> DEFINE s == o.values
               t == Rebuild[s]
               c == SizeFor(Size(o))
               f == Size(o)
    <2>2. s \in Seq(Value) /\ Contents(o) = s /\ f = Len(s) /\ c \in Nat /\ f \in Nat
      <3>1. s \in Seq(Value) /\ Contents(o) = s /\ f = Len(s)
        BY <2>1, Kinds DEF ArrayOf
      <3> QED  BY <3>1, SizeForType
    <2>3. s \in Sequence
      BY <2>2 DEF Sequence
    <2>4. ConvertToTree(o) = Tree(c, t, f)
      BY <1>1 DEF ConvertToTree
    <2> HIDE DEF s, c, f
    <2>5. Exact(t) /\ Even(t) /\ Clean(t) /\ Values[t] = s
      BY <2>3, RebuildIs
    <2> HIDE DEF t
    <2> DEFINE u == Tree(c, t, f)
    <2>6. TreeMade(u, t)
      BY <2>2, <2>5, TreeIs
    <2> HIDE DEF u
    <2>7. TreeOf(u) /\ u.root = t /\ Contents(u) = Values[t] /\ ~u.is_array
      BY <2>6 DEF TreeMade
    <2> QED  BY <1>1, <2>2, <2>4, <2>5, <2>7 DEF u
  <1>2. CASE ~o.is_array
    BY <1>2, Kinds DEF ConvertToTree, Plain
  <1> QED  BY <1>1, <1>2

LEMMA SettledIs ==
    ASSUME NEW o, Plain(o), Len(Contents(o)) <= MaxSize + 1
    PROVE  Stands(Settled(o), Contents(o), o) /\ (SupportsMarks => ~Settled(o).is_array)
  <1>1. CASE SupportsMarks
    <2>1. Settled(o) = ConvertToTree(o)
      BY <1>1 DEF Settled
    <2> QED  BY <2>1, ToTree DEF Stands, Plain
  <1>2. CASE ~SupportsMarks
    <2>1. Settled(o) = o
      BY <1>2 DEF Settled
    <2> QED  BY <1>2, <2>1 DEF Stands
  <1> QED  BY <1>1, <1>2

LEMMA ResizedIs ==
    ASSUME NEW o, ArrayOf(o), NEW n \in Nat
    PROVE  ArrayOf(MaybeResizeArray(o, n)) /\ Contents(MaybeResizeArray(o, n)) = Contents(o)
  <1> DEFINE c == SizeFor(n)
             s == o.values
             z == 0
  <1>1. c \in Nat /\ s \in Seq(Value) /\ z \in Nat /\ Contents(o) = s
    BY SizeForType, Kinds DEF ArrayOf
  <1>2. MaybeResizeArray(o, n) = o \/ MaybeResizeArray(o, n) = Array(c, z, s)
    BY DEF MaybeResizeArray
  <1> HIDE DEF c, s, z
  <1>3. ArrayOf(Array(c, z, s)) /\ Contents(Array(c, z, s)) = s
    BY <1>1, ArrayIs
  <1> QED  BY <1>1, <1>2, <1>3

\* maybe_resize_or_convert never changes what the structure stands for.
LEMMA ConvertedIs ==
    ASSUME NEW o, Plain(o), Len(Contents(o)) <= MaxSize + 1, NEW n \in Nat,
           SupportsMarks => ~o.is_array
    PROVE  LET r == MaybeResizeOrConvert(o, n)
           IN  Plain(r) /\ Contents(r) = Contents(o) /\ (SupportsMarks => ~r.is_array)
  <1> DEFINE r == MaybeResizeOrConvert(o, n)
  <1>1. CASE o.is_array
    <2>1. r = MaybeResizeArray(o, n)
      BY <1>1 DEF MaybeResizeOrConvert
    <2>2. ArrayOf(o)
      BY <1>1, Kinds DEF Plain
    <2> HIDE DEF r
    <2>3. ArrayOf(r) /\ Contents(r) = Contents(o)
      BY <2>1, <2>2, ResizedIs
    <2> QED  BY <1>1, <2>3 DEF Plain, r
  <1>2. CASE ~o.is_array
    <2> DEFINE a == ConvertToArray(o)
    <2>1. r = o \/ r = Settled(a)
      BY <1>2 DEF MaybeResizeOrConvert
    <2>2. ArrayOf(a) /\ Contents(a) = Contents(o)
      BY PlainIsSound, ToArray
    <2> HIDE DEF r, a
    <2>3. Plain(a) /\ Len(Contents(a)) <= MaxSize + 1
      BY <2>2 DEF Plain
    <2>4. Stands(Settled(a), Contents(a), a) /\ (SupportsMarks => ~Settled(a).is_array)
      BY <2>3, SettledIs
    <2>5. Plain(r) /\ Contents(r) = Contents(o) /\ (SupportsMarks => ~r.is_array)
      BY <1>2, <2>1, <2>2, <2>4 DEF Stands
    <2> QED  BY <2>5 DEF r
  <1> QED  BY <1>1, <1>2

\* rebalance() of the root, when it is called and when it is not.
LEMMA RootIs ==
    ASSUME NEW o, TreeOf(o), Clean(o.root), Len(Contents(o)) <= MaxSize + 1, NEW needed \in BOOLEAN
    PROVE  LET r == RebalanceRoot(needed, o)
           IN  Plain(r) /\ Contents(r) = Contents(o) /\ (SupportsMarks => ~r.is_array)
  <1> DEFINE r == RebalanceRoot(needed, o)
             a == ConvertToArray(o)
  <1>1. r = o \/ r = Settled(a)
    BY DEF RebalanceRoot
  <1>2. Plain(o) /\ ~o.is_array
    BY Kinds DEF Plain
  <1>3. ArrayOf(a) /\ Contents(a) = Contents(o)
    BY <1>2, PlainIsSound, ToArray
  <1> HIDE DEF r, a
  <1>4. Plain(a) /\ Len(Contents(a)) <= MaxSize + 1
    BY <1>3 DEF Plain
  <1>5. Stands(Settled(a), Contents(a), a) /\ (SupportsMarks => ~Settled(a).is_array)
    BY <1>4, SettledIs
  <1>6. Plain(r) /\ Contents(r) = Contents(o) /\ (SupportsMarks => ~r.is_array)
    BY <1>1, <1>2, <1>3, <1>5 DEF Stands
  <1> QED  BY <1>6 DEF r

\* The ends of an array.
LEMMA PutEnds ==
    ASSUME NEW s \in Seq(Value), NEW v \in Value
    PROVE  /\ Append(s, v) \in Seq(Value) /\ Append(s, v) = Put(s, Len(s), v)
           /\ <<v>> \o s \in Seq(Value) /\ <<v>> \o s = Put(s, 0, v)
  <1>1. Append(s, v) \in Seq(Value) /\ PutIs(Append(s, v), s, Len(s), v)
    BY DEF PutIs
  <1>2. Append(s, v) = Put(s, Len(s), v)
    <2> DEFINE n == Len(s)
               w == Append(s, v)
    <2>1. n \in 0 .. Len(s) /\ w \in Seq(Value) /\ PutIs(w, s, n, v)
      BY <1>1
    <2> HIDE DEF n, w
    <2>2. w = Put(s, n, v)
      BY <2>1, PutUnique
    <2> QED  BY <2>2 DEF n, w
  <1>3. <<v>> \o s \in Seq(Value) /\ PutIs(<<v>> \o s, s, 0, v)
    BY DEF PutIs
  <1>4. <<v>> \o s = Put(s, 0, v)
    <2> DEFINE n == 0
               w == <<v>> \o s
    <2>1. n \in 0 .. Len(s) /\ w \in Seq(Value) /\ PutIs(w, s, n, v)
      BY <1>3
    <2> HIDE DEF n, w
    <2>2. w = Put(s, n, v)
      BY <2>1, PutUnique
    <2> QED  BY <2>2 DEF n, w
  <1> QED  BY <1>1, <1>2, <1>3, <1>4

LEMMA CutEnds ==
    ASSUME NEW s \in Seq(Value), Len(s) # 0
    PROVE  /\ Tail(s) \in Seq(Value) /\ Tail(s) = Cut(s, 0)
           /\ S!Front(s) \in Seq(Value) /\ S!Front(s) = Cut(s, Len(s) - 1)
  <1>0. Len(s) \in Nat /\ s # << >>
    OBVIOUS
  <1>1. Tail(s) \in Seq(Value) /\ CutIs(Tail(s), s, 0)
    BY <1>0 DEF CutIs
  <1>2. Tail(s) = Cut(s, 0)
    <2> DEFINE n == 0
               w == Tail(s)
    <2>1. n \in 0 .. Len(s) - 1 /\ w \in Seq(Value) /\ CutIs(w, s, n)
      BY <1>0, <1>1
    <2> HIDE DEF n, w
    <2>2. w = Cut(s, n)
      BY <2>1, CutUnique
    <2> QED  BY <2>2 DEF n, w
  <1>3. S!Front(s) = SubSeq(s, 1, Len(s) - 1)
    BY DEF S!Front
  <1>4. S!Front(s) \in Seq(Value) /\ CutIs(S!Front(s), s, Len(s) - 1)
    <2> DEFINE n == Len(s) - 1
               one == 1
    <2>1. n \in Nat /\ n <= Len(s)
      BY <1>0
    <2>2. /\ SubSeq(s, 1, n) \in Seq(Value) /\ Len(SubSeq(s, 1, n)) = n
          /\ \A k \in 1 .. n : SubSeq(s, 1, n)[k] = s[k]
      <3> HIDE DEF n
      <3> QED  BY <2>1, SubSeqProperties
    <2>3. S!Front(s) = SubSeq(s, 1, n)
      BY <1>3
    <2> HIDE DEF n
    <2>4. S!Front(s) \in Seq(Value) /\ Len(S!Front(s)) = n /\ \A k \in 1 .. n : S!Front(s)[k] = s[k]
      BY <2>2, <2>3
    <2>5. \A k \in 1 .. n : S!Front(s)[k] = IF k <= n THEN s[k] ELSE s[k + 1]
      BY <2>1, <2>4
    <2> QED  BY <2>4, <2>5 DEF n, CutIs
  <1>5. S!Front(s) = Cut(s, Len(s) - 1)
    <2> DEFINE n == Len(s) - 1
               w == S!Front(s)
    <2>1. n \in 0 .. Len(s) - 1 /\ w \in Seq(Value) /\ CutIs(w, s, n)
      BY <1>0, <1>4
    <2> HIDE DEF n, w
    <2>2. w = Cut(s, n)
      BY <2>1, CutUnique
    <2> QED  BY <2>2 DEF n, w
  <1> QED  BY <1>1, <1>2, <1>4, <1>5

\* insert_at, in whichever representation it finds or leaves the structure.
LEMMA InsertIntoIs ==
    ASSUME NEW o, Plain(o), SupportsMarks => ~o.is_array, Len(Contents(o)) <= MaxSize,
           NEW v \in Value, NEW i \in 0 .. Len(Contents(o))
    PROVE  LET u == InsertInto(o, v, i)
           IN  Plain(u) /\ Contents(u) = Put(Contents(o), i, v) /\ (SupportsMarks => ~u.is_array)
  <1> DEFINE s == Contents(o)
             n == Size(o) + 1
             r == MaybeResizeOrConvert(o, n)
             p == IF InsertTurnsToTree(r, i) THEN ConvertToTree(r) ELSE r
             u == InsertInto(o, v, i)
  <1> SUFFICES Plain(u) /\ Contents(u) = Put(s, i, v) /\ (SupportsMarks => ~u.is_array)
    OBVIOUS
  <1>0. MaxSize \in Nat /\ s \in Seq(Value) /\ n \in Nat /\ Len(s) \in Nat /\ i \in Nat /\ i <= Len(s)
    BY OmtAssumption, PlainIsSound, SoundSize
  <1>1. Plain(r) /\ Contents(r) = s /\ (SupportsMarks => ~r.is_array)
    <2>1. Len(s) <= MaxSize + 1
      BY <1>0
    <2> HIDE DEF n
    <2> QED  BY <1>0, <2>1, ConvertedIs
  <1>2. u = IF p.is_array
            THEN IF i = Size(p) THEN [p EXCEPT !.values = Append(@, v)]
                 ELSE [p EXCEPT !.values = <<v>> \o @, !.start_idx = @ - 1]
            ELSE RebalanceRoot(p.root # NODE_NULL /\ InsertLopsides(p.root, i),
                               [p EXCEPT !.root = InsertInternal[@][v][i][FALSE], !.free_idx = @ + 1])
    BY DEF InsertInto
  <1>3. Plain(p) /\ Contents(p) = s /\ (SupportsMarks => ~p.is_array)
    <2>1. CASE InsertTurnsToTree(r, i)
      <3>1. p = ConvertToTree(r)
        BY <2>1
      <3> HIDE DEF p, r
      <3>2. Len(Contents(r)) <= MaxSize + 1
        BY <1>0, <1>1
      <3>3. TreeOf(p) /\ Clean(p.root) /\ Contents(p) = s /\ ~p.is_array
        BY <1>1, <3>1, <3>2, ToTree
      <3> QED  BY <3>3 DEF Plain
    <2>2. CASE ~InsertTurnsToTree(r, i)
      <3>1. p = r
        BY <2>2
      <3> QED  BY <1>1, <3>1
    <2> QED  BY <2>1, <2>2
  <1>4. p.is_array => p = r /\ ~InsertTurnsToTree(r, i)
    <2>1. CASE InsertTurnsToTree(r, i)
      <3>1. p = ConvertToTree(r)
        BY <2>1
      <3>2. Len(Contents(r)) <= MaxSize + 1
        BY <1>0, <1>1
      <3> HIDE DEF p, r
      <3>3. ~p.is_array
        BY <1>1, <3>1, <3>2, ToTree
      <3> QED  BY <3>3
    <2>2. CASE ~InsertTurnsToTree(r, i)
      BY <2>2
    <2> QED  BY <2>1, <2>2
  <1> HIDE DEF p, r, u, n
  <1>5. CASE p.is_array
    <2>1. ArrayOf(p) /\ p.values = s /\ Size(p) = Len(s)
      BY <1>3, <1>5, Kinds DEF Plain
    <2>2. i = Len(s) \/ (i = 0 /\ p.start_idx # 0)
      BY <1>4, <1>5, <2>1 DEF InsertTurnsToTree
    <2> DEFINE c == p.capacity
               x == p.start_idx
    <2>3. p = Array(c, x, s) /\ c \in Nat /\ x \in Nat
      BY <2>1 DEF ArrayOf
    <2>4. CASE i = Size(p)
      <3> DEFINE w == Append(s, v)
      <3>1. u = [p EXCEPT !.values = w]
        BY <1>2, <1>5, <2>1, <2>4
      <3>2. w \in Seq(Value) /\ w = Put(s, i, v)
        BY <1>0, <2>1, <2>4, PutEnds
      <3> HIDE DEF w, c, x
      <3>3. u = Array(c, x, w)
        BY <2>3, <3>1 DEF Array
      <3>4. ArrayOf(u) /\ Contents(u) = w
        BY <2>3, <3>2, <3>3, ArrayIs
      <3> QED  BY <1>3, <1>5, <3>2, <3>4 DEF Plain
    <2>5. CASE i # Size(p)
      <3> DEFINE w == <<v>> \o s
                 y == x - 1
      <3>1. u = [p EXCEPT !.values = w, !.start_idx = y]
        BY <1>2, <1>5, <2>1, <2>5
      <3>2. w \in Seq(Value) /\ w = Put(s, 0, v) /\ i = 0 /\ y \in Nat
        BY <1>0, <2>1, <2>2, <2>3, <2>5, PutEnds
      <3> HIDE DEF w, c, x, y
      <3>3. u = Array(c, y, w)
        BY <2>3, <3>1 DEF Array
      <3>4. ArrayOf(u) /\ Contents(u) = w
        BY <2>3, <3>2, <3>3, ArrayIs
      <3> QED  BY <1>3, <1>5, <3>2, <3>4 DEF Plain
    <2> QED  BY <2>4, <2>5
  <1>6. CASE ~p.is_array
    <2>1. TreeOf(p) /\ Clean(p.root) /\ Values[p.root] = s /\ p.root.weight = Len(s)
      BY <1>3, <1>6, Kinds DEF Plain
    <2> DEFINE c == p.capacity
               t == p.root
               f == p.free_idx
               done == FALSE
               t2 == InsertInternal[t][v][i][done]
               f2 == f + 1
               q == [p EXCEPT !.root = t2, !.free_idx = f2]
               needed == t # NODE_NULL /\ InsertLopsides(t, i)
    <2>2. p = Tree(c, t, f) /\ c \in Nat /\ f \in Nat /\ Exact(t) /\ Even(t)
      BY <2>1 DEF TreeOf
    <2>3. u = RebalanceRoot(needed, q) /\ needed \in BOOLEAN /\ done \in BOOLEAN /\ ~done /\ f2 \in Nat
      BY <1>2, <1>6, <2>2
    <2>4. q = Tree(c, t2, f2)
      <3>1. q = Extended(p, t2, f2)
        BY DEF Extended
      <3> HIDE DEF c, f2, f, t2, t, q
      <3>2. \A x, g : Extended(p, x, g) = Tree(c, x, g)
        BY <2>2, TreeExcept
      <3> QED  BY <3>1, <3>2
    <2>5. i \in 0 .. t.weight /\ t.weight <= MaxSize
      BY <1>0, <2>1
    <2>6. Clean(t) /\ Values[t] = s /\ t.weight = Len(s)
      BY <2>1
    <2> HIDE DEF c, f, f2, t, done, q, needed
    <2>7. Inserted(t2, t, v, i) /\ Even(t2)
      BY <2>2, <2>3, <2>5, <2>6, InsertIs
    <2> HIDE DEF t2
    <2>8. Exact(t2) /\ Clean(t2) /\ Values[t2] = Put(s, i, v) /\ t2.weight = Len(s) + 1
      BY <2>6, <2>7 DEF Inserted
    <2>9. TreeOf(q) /\ q.root = t2 /\ Contents(q) = Values[t2]
      <3>1. c \in Nat /\ f2 \in Nat
        BY <2>2, <2>3
      <3>3. Exact(t2)
        BY <2>8
      <3>4. Even(t2)
        BY <2>7
      <3>5. TreeMade(Tree(c, t2, f2), t2)
        BY <3>1, <3>3, <3>4, TreeIs
      <3> QED  BY <2>4, <3>5 DEF TreeMade
    <2>10. Clean(q.root) /\ Len(Contents(q)) <= MaxSize + 1
      <3>1. Len(Values[t2]) = Len(s) + 1
        BY <2>8, ExactWeight
      <3> QED  BY <1>0, <2>8, <2>9, <3>1
    <2>11. Plain(u) /\ Contents(u) = Contents(q) /\ (SupportsMarks => ~u.is_array)
      BY <2>3, <2>9, <2>10, RootIs
    <2> QED  BY <2>8, <2>9, <2>11
  <1> QED  BY <1>5, <1>6

\* delete_at likewise.
LEMMA DeleteFromIs ==
    ASSUME NEW o, Plain(o), SupportsMarks => ~o.is_array, Len(Contents(o)) <= MaxSize,
           NEW i \in Nat, i < Len(Contents(o))
    PROVE  LET u == DeleteFrom(o, i)
           IN  Plain(u) /\ Contents(u) = Cut(Contents(o), i) /\ (SupportsMarks => ~u.is_array)
  <1> DEFINE s == Contents(o)
             n == Size(o) - 1
             r == MaybeResizeOrConvert(o, n)
             p == IF DeleteTurnsToTree(r, i) THEN ConvertToTree(r) ELSE r
             u == DeleteFrom(o, i)
  <1> SUFFICES Plain(u) /\ Contents(u) = Cut(s, i) /\ (SupportsMarks => ~u.is_array)
    OBVIOUS
  <1>0. MaxSize \in Nat /\ s \in Seq(Value) /\ n \in Nat /\ Len(s) \in Nat /\ i \in 0 .. Len(s) - 1
    BY OmtAssumption, PlainIsSound, SoundSize
  <1>1. Plain(r) /\ Contents(r) = s /\ (SupportsMarks => ~r.is_array)
    <2>1. Len(s) <= MaxSize + 1
      BY <1>0
    <2> HIDE DEF n
    <2> QED  BY <1>0, <2>1, ConvertedIs
  <1>2. u = IF p.is_array
            THEN IF i # Size(p) - 1 THEN [p EXCEPT !.values = Tail(@), !.start_idx = @ + 1]
                 ELSE [p EXCEPT !.values = S!Front(@)]
            ELSE RebalanceRoot(DeleteLopsides(p.root, i),
                               [p EXCEPT !.root = DeleteInternal[@][i][FALSE]])
    BY DEF DeleteFrom
  <1>3. Plain(p) /\ Contents(p) = s /\ (SupportsMarks => ~p.is_array)
    <2>1. CASE DeleteTurnsToTree(r, i)
      <3>1. p = ConvertToTree(r)
        BY <2>1
      <3> HIDE DEF p, r
      <3>2. Len(Contents(r)) <= MaxSize + 1
        BY <1>0, <1>1
      <3>3. TreeOf(p) /\ Clean(p.root) /\ Contents(p) = s /\ ~p.is_array
        BY <1>1, <3>1, <3>2, ToTree
      <3> QED  BY <3>3 DEF Plain
    <2>2. CASE ~DeleteTurnsToTree(r, i)
      <3>1. p = r
        BY <2>2
      <3> QED  BY <1>1, <3>1
    <2> QED  BY <2>1, <2>2
  <1>4. p.is_array => p = r /\ ~DeleteTurnsToTree(r, i)
    <2>1. CASE DeleteTurnsToTree(r, i)
      <3>1. p = ConvertToTree(r)
        BY <2>1
      <3>2. Len(Contents(r)) <= MaxSize + 1
        BY <1>0, <1>1
      <3> HIDE DEF p, r
      <3>3. ~p.is_array
        BY <1>1, <3>1, <3>2, ToTree
      <3> QED  BY <3>3
    <2>2. CASE ~DeleteTurnsToTree(r, i)
      BY <2>2
    <2> QED  BY <2>1, <2>2
  <1> HIDE DEF p, r, u, n
  <1>5. CASE p.is_array
    <2>1. ArrayOf(p) /\ p.values = s /\ Size(p) = Len(s)
      BY <1>3, <1>5, Kinds DEF Plain
    <2>2. i = Len(s) - 1 \/ i = 0
      BY <1>4, <1>5, <2>1 DEF DeleteTurnsToTree
    <2> DEFINE c == p.capacity
               x == p.start_idx
    <2>3. p = Array(c, x, s) /\ c \in Nat /\ x \in Nat /\ Len(s) # 0
      BY <1>0, <2>1 DEF ArrayOf
    <2>4. CASE i = Size(p) - 1
      <3> DEFINE w == S!Front(s)
      <3>1. u = [p EXCEPT !.values = w]
        BY <1>2, <1>5, <2>1, <2>4
      <3>2. w \in Seq(Value) /\ w = Cut(s, i)
        BY <1>0, <2>1, <2>3, <2>4, CutEnds
      <3> HIDE DEF w, c, x
      <3>3. u = Array(c, x, w)
        BY <2>3, <3>1 DEF Array
      <3>4. ArrayOf(u) /\ Contents(u) = w
        BY <2>3, <3>2, <3>3, ArrayIs
      <3> QED  BY <1>3, <1>5, <3>2, <3>4 DEF Plain
    <2>5. CASE i # Size(p) - 1
      <3> DEFINE w == Tail(s)
                 y == x + 1
      <3>1. u = [p EXCEPT !.values = w, !.start_idx = y]
        BY <1>2, <1>5, <2>1, <2>5
      <3>2. w \in Seq(Value) /\ w = Cut(s, 0) /\ i = 0 /\ y \in Nat
        BY <1>0, <2>1, <2>2, <2>3, <2>5, CutEnds
      <3> HIDE DEF w, c, x, y
      <3>3. u = Array(c, y, w)
        BY <2>3, <3>1 DEF Array
      <3>4. ArrayOf(u) /\ Contents(u) = w
        BY <2>3, <3>2, <3>3, ArrayIs
      <3> QED  BY <1>3, <1>5, <3>2, <3>4 DEF Plain
    <2> QED  BY <2>4, <2>5
  <1>6. CASE ~p.is_array
    <2>1. TreeOf(p) /\ Clean(p.root) /\ Values[p.root] = s /\ p.root.weight = Len(s)
      BY <1>3, <1>6, Kinds DEF Plain
    <2> DEFINE c == p.capacity
               t == p.root
               f == p.free_idx
               done == FALSE
               t2 == DeleteInternal[t][i][done]
               q == [p EXCEPT !.root = t2]
               needed == DeleteLopsides(t, i)
    <2>2. p = Tree(c, t, f) /\ c \in Nat /\ f \in Nat /\ Exact(t) /\ Even(t)
      BY <2>1 DEF TreeOf
    <2>3. u = RebalanceRoot(needed, q) /\ done \in BOOLEAN /\ ~done
      BY <1>2, <1>6, <2>2
    <2>12. needed \in BOOLEAN
      BY DEF DeleteLopsides, WillNeedRebalance
    <2>4. q = Tree(c, t2, f)
      <3>1. q = Rerooted(p, t2)
        BY DEF Rerooted
      <3> HIDE DEF c, f, t2, t, q
      <3>2. \A x : Rerooted(p, x) = Tree(c, x, f)
        BY <2>2, TreeExcept
      <3> QED  BY <3>1, <3>2
    <2>5. i \in Slot /\ i < t.weight /\ t.weight <= MaxSize + 1
      BY <1>0, <2>1 DEF Slot
    <2>6. Clean(t) /\ Values[t] = s /\ t.weight = Len(s)
      BY <2>1
    <2> HIDE DEF c, f, t, done, q, needed
    <2>7. Deleted(t2, t, i) /\ Even(t2)
      BY <2>2, <2>3, <2>5, <2>6, DeleteIs
    <2> HIDE DEF t2
    <2>8. Exact(t2) /\ Clean(t2) /\ Values[t2] = Cut(s, i) /\ t2.weight = Len(s) - 1
      BY <2>6, <2>7 DEF Deleted
    <2>9. TreeOf(q) /\ q.root = t2 /\ Contents(q) = Values[t2]
      <3>1. c \in Nat /\ f \in Nat
        BY <2>2, <2>3
      <3>3. Exact(t2)
        BY <2>8
      <3>4. Even(t2)
        BY <2>7
      <3>5. TreeMade(Tree(c, t2, f), t2)
        BY <3>1, <3>3, <3>4, TreeIs
      <3> QED  BY <2>4, <3>5 DEF TreeMade
    <2>10. Clean(q.root) /\ Len(Contents(q)) <= MaxSize + 1
      <3>1. Len(Values[t2]) = Len(s) - 1
        BY <2>8, ExactWeight
      <3> QED  BY <1>0, <2>8, <2>9, <3>1
    <2>11. Plain(u) /\ Contents(u) = Contents(q) /\ (SupportsMarks => ~u.is_array)
      BY <2>3, <2>9, <2>10, <2>12, RootIs
    <2> QED  BY <2>8, <2>9, <2>11
  <1> QED  BY <1>5, <1>6

-----------------------------------------------------------------------------
(* delete_all_marked                                                       *)

KeptBy(s, D, f, n) ==
    IF n = 0 THEN << >> ELSE IF n - 1 \in D THEN f[n - 1] ELSE Append(f[n - 1], s[n])
KeptTo(s, D, f, m) == f = [n \in 0 .. m |-> KeptBy(s, D, f, n)]
Kept(s, D) == CHOOSE f : KeptTo(s, D, f, Len(s))

LEMMA KeptExists ==
    ASSUME NEW s, NEW D, NEW m \in Nat
    PROVE  \E f : KeptTo(s, D, f, m)
  <1> DEFINE T == {n \in Nat : \E f : KeptTo(s, D, f, n)}
             none == << >>
  <1>1. 0 \in T
    <2> DEFINE f == [d \in 0 .. 0 |-> none]
    <2>1. \A d \in 0 .. 0 : none = KeptBy(s, D, f, d)
      BY DEF KeptBy
    <2>2. f = [d \in 0 .. 0 |-> KeptBy(s, D, f, d)]
      BY <2>1
    <2> HIDE DEF f
    <2>3. KeptTo(s, D, f, 0)
      BY <2>2 DEF KeptTo
    <2> QED  BY <2>3
  <1>2. ASSUME NEW n \in T PROVE n + 1 \in T
    <2>1. PICK f : KeptTo(s, D, f, n)
      OBVIOUS
    <2> DEFINE g == [d \in 0 .. n + 1 |-> KeptBy(s, D, f, d)]
    <2>2. \A d \in 0 .. n : g[d] = f[d]
      BY <2>1 DEF KeptTo
    <2>3. \A d \in 0 .. n + 1 : KeptBy(s, D, f, d) = KeptBy(s, D, g, d)
      <3>1. \A d \in 1 .. n + 1 : d - 1 \in 0 .. n
        OBVIOUS
      <3> HIDE DEF g
      <3> QED  BY <2>2, <3>1 DEF KeptBy
    <2>4. g = [d \in 0 .. n + 1 |-> KeptBy(s, D, g, d)]
      BY <2>3
    <2> HIDE DEF g
    <2>5. KeptTo(s, D, g, n + 1)
      BY <2>4 DEF KeptTo
    <2> QED  BY <2>5
  <1> HIDE DEF T
  <1>3. T \subseteq Nat
    BY DEF T
  <1>4. T = Nat
    BY <1>1, <1>2, <1>3, Induct
  <1> QED  BY <1>4 DEF T

KeptGoes(s, D) ==
    /\ Sequences_!Without(s, D) = Kept(s, D)[Len(s)]
    /\ Kept(s, D)[0] = << >>
    /\ \A n \in 1 .. Len(s) :
          /\ n - 1 \in D => Kept(s, D)[n] = Kept(s, D)[n - 1]
          /\ n - 1 \notin D => Kept(s, D)[n] = Append(Kept(s, D)[n - 1], s[n])

LEMMA KeptEquation ==
    ASSUME NEW s, Len(s) \in Nat, NEW D
    PROVE  KeptGoes(s, D)
  <1>1. \E f : KeptTo(s, D, f, Len(s))
    BY KeptExists
  <1>2. KeptTo(s, D, Kept(s, D), Len(s))
    BY <1>1 DEF Kept
  <1>3. Sequences_!Without(s, D) = Kept(s, D)[Len(s)]
    BY DEF Sequences_!Without, Kept, KeptTo, KeptBy
  <1> DEFINE f == Kept(s, D)
  <1>4. f = [n \in 0 .. Len(s) |-> KeptBy(s, D, f, n)]
    BY <1>2 DEF KeptTo
  <1> HIDE DEF f
  <1>5. \A n \in 0 .. Len(s) : f[n] = KeptBy(s, D, f, n)
    BY <1>4
  <1>6. f[0] = << >>
    BY <1>5 DEF KeptBy
  <1>7. \A n \in 1 .. Len(s) :
           /\ n - 1 \in D => f[n] = f[n - 1]
           /\ n - 1 \notin D => f[n] = Append(f[n - 1], s[n])
    <2> SUFFICES ASSUME NEW n \in 1 .. Len(s)
                 PROVE  /\ n - 1 \in D => f[n] = f[n - 1]
                        /\ n - 1 \notin D => f[n] = Append(f[n - 1], s[n])
      OBVIOUS
    <2>1. f[n] = KeptBy(s, D, f, n) /\ n # 0
      BY <1>5
    <2>2. KeptBy(s, D, f, n) = IF n - 1 \in D THEN f[n - 1] ELSE Append(f[n - 1], s[n])
      BY <2>1 DEF KeptBy
    <2> QED  BY <2>1, <2>2
  <1> QED  BY <1>3, <1>6, <1>7 DEF f, KeptGoes

\* From slot m on, j of the slots before are left out.
LeavesOut(s, D, U, m, j) ==
    \A n \in m .. Len(s) : Kept(s, D)[n] \in Seq(U) /\ Len(Kept(s, D)[n]) = n - j

\* Nothing is left out of what is kept if D is empty.
LEMMA KeepsAll ==
    ASSUME NEW U, NEW s \in Seq(U)
    PROVE  LeavesOut(s, {}, U, 0, 0) /\ Sequences_!Without(s, {}) = s
  <1> DEFINE D == {}
             f == Kept(s, D)
             T == {n \in Nat : n <= Len(s) => f[n] = SubSeq(s, 1, n)}
  <1>0. Len(s) \in Nat
    OBVIOUS
  <1>1. 0 \in T
    <2>1. f[0] = << >>
      BY <1>0, KeptEquation DEF KeptGoes
    <2>2. SubSeq(s, 1, 0) = << >>
      OBVIOUS
    <2> QED  BY <2>1, <2>2
  <1>2. ASSUME NEW n \in T PROVE n + 1 \in T
    <2> SUFFICES ASSUME n + 1 <= Len(s) PROVE f[n + 1] = SubSeq(s, 1, n + 1)
      OBVIOUS
    <2>1. n + 1 \in 1 .. Len(s) /\ (n + 1) - 1 = n /\ n <= Len(s)
      BY <1>0
    <2>2. f[n + 1] = Append(f[n], s[n + 1])
      <3>1. (n + 1) - 1 \notin D
        OBVIOUS
      <3> DEFINE k == n + 1
      <3>2. k \in 1 .. Len(s) /\ k - 1 \notin D /\ k - 1 = n
        BY <2>1, <3>1
      <3> HIDE DEF k, D
      <3>3. \A x \in 1 .. Len(s) : x - 1 \notin D => f[x] = Append(f[x - 1], s[x])
        BY <1>0, KeptEquation DEF KeptGoes
      <3>4. f[k] = Append(f[k - 1], s[k])
        BY <3>2, <3>3
      <3> QED  BY <3>2, <3>4 DEF k
    <2>3. f[n] = SubSeq(s, 1, n)
      BY <2>1
    <2> HIDE DEF f
    <2>4. Append(SubSeq(s, 1, n), s[n + 1]) = SubSeq(s, 1, n + 1)
      BY <2>1
    <2> QED  BY <2>2, <2>3, <2>4
  <1>3. T = Nat
    <2>1. T \subseteq Nat
      OBVIOUS
    <2> HIDE DEF T
    <2> QED  BY <1>1, <1>2, <2>1, Induct
  <1>4. \A n \in 0 .. Len(s) : f[n] = SubSeq(s, 1, n)
    BY <1>0, <1>3
  <1> HIDE DEF T
  <1>5. LeavesOut(s, D, U, 0, 0)
    <2> SUFFICES ASSUME NEW n \in 0 .. Len(s) PROVE f[n] \in Seq(U) /\ Len(f[n]) = n - 0
      BY DEF LeavesOut
    <2>1. SubSeq(s, 1, n) \in Seq(U) /\ Len(SubSeq(s, 1, n)) = n
      OBVIOUS
    <2> QED  BY <1>4, <2>1
  <1>6. Sequences_!Without(s, D) = f[Len(s)]
    <2> HIDE DEF D
    <2> QED  BY <1>0, KeptEquation DEF KeptGoes
  <1>7. f[Len(s)] = s
    <2>1. f[Len(s)] = SubSeq(s, 1, Len(s))
      BY <1>0, <1>4
    <2>2. SubSeq(s, 1, Len(s)) = s
      OBVIOUS
    <2> QED  BY <2>1, <2>2
  <1> QED  BY <1>5, <1>6, <1>7

LEMMA CutAppend ==
    ASSUME NEW U, NEW s \in Seq(U), NEW x \in U, NEW i \in 0 .. Len(s) - 1
    PROVE  Append(Cut(s, i), x) = Cut(Append(s, x), i)
  <1> DEFINE w == Append(Cut(s, i), x)
             z == Append(s, x)
  <1>1. Cut(s, i) \in Seq(U) /\ CutIs(Cut(s, i), s, i)
    BY CutType
  <1>2. z \in Seq(U) /\ Len(z) = Len(s) + 1 /\ i \in 0 .. Len(z) - 1
        /\ \A k \in 1 .. Len(s) + 1 : z[k] = IF k = Len(s) + 1 THEN x ELSE s[k]
    OBVIOUS
  <1>3. w \in Seq(U) /\ Len(w) = Len(s)
        /\ \A k \in 1 .. Len(s) : w[k] = IF k = Len(s) THEN x ELSE Cut(s, i)[k]
    BY <1>1 DEF CutIs
  <1> HIDE DEF w, z
  <1>4. CutIs(w, z, i)
    <2> SUFFICES ASSUME NEW k \in 1 .. Len(s)
                 PROVE  w[k] = IF k <= i THEN z[k] ELSE z[k + 1]
      BY <1>2, <1>3 DEF CutIs
    <2>1. CASE k = Len(s)
      BY <1>2, <1>3, <2>1
    <2>2. CASE k # Len(s)
      <3>1. k \in 1 .. Len(s) - 1 /\ w[k] = Cut(s, i)[k]
        BY <1>3, <2>2
      <3>2. w[k] = IF k <= i THEN s[k] ELSE s[k + 1]
        BY <1>1, <3>1 DEF CutIs
      <3>3. z[k] = s[k] /\ z[k + 1] = s[k + 1]
        BY <1>2, <2>2, <3>1
      <3> QED  BY <3>2, <3>3
    <2> QED  BY <2>1, <2>2
  <1>5. w = Cut(z, i)
    BY <1>2, <1>3, <1>4, CutUnique
  <1> QED  BY <1>5 DEF w, z

LeftOut(s, D, E, U, q, j) ==
    /\ LeavesOut(s, E, U, q + 1, j + 1)
    /\ q - j \in Nat
    /\ Len(Sequences_!Without(s, D)) = Len(s) - j /\ Sequences_!Without(s, D) \in Seq(U)
    /\ Sequences_!Without(s, E) = Cut(Sequences_!Without(s, D), q - j)

\* Leaving out one more slot, behind those already left out, is deleting one value of what is kept.
LEMMA LeaveOutOne ==
    ASSUME NEW U, NEW s \in Seq(U), NEW D, NEW m \in Nat, NEW j \in Nat, j <= m, LeavesOut(s, D, U, m, j),
           NEW q \in Nat, m <= q, q < Len(s), \A d \in D : d \in Nat /\ d < m,
           NEW E, E = D \cup {q}
    PROVE  LeftOut(s, D, E, U, q, j)
  <1> DEFINE f == Kept(s, D)
             g == Kept(s, E)
             i == q - j
  <1>0. Len(s) \in Nat /\ i \in Nat /\ q + 1 <= Len(s) /\ m <= q + 1
    OBVIOUS
  <1>1. /\ Sequences_!Without(s, D) = f[Len(s)]
        /\ f[0] = << >>
        /\ \A n \in 1 .. Len(s) : /\ n - 1 \in D => f[n] = f[n - 1]
                                  /\ n - 1 \notin D => f[n] = Append(f[n - 1], s[n])
    BY <1>0, KeptEquation DEF KeptGoes
  <1>2. /\ Sequences_!Without(s, E) = g[Len(s)]
        /\ g[0] = << >>
        /\ \A n \in 1 .. Len(s) : /\ n - 1 \in E => g[n] = g[n - 1]
                                  /\ n - 1 \notin E => g[n] = Append(g[n - 1], s[n])
    <2>1. KeptGoes(s, E)
      BY <1>0, KeptEquation
    <2> QED  BY <2>1 DEF KeptGoes
  <1>3. \A n \in m .. Len(s) : f[n] \in Seq(U) /\ Len(f[n]) = n - j
    BY DEF LeavesOut
  <1> HIDE DEF f, g
  <1>4. \A n \in 0 .. q : g[n] = f[n]
    <2> DEFINE T == {n \in Nat : n <= q => g[n] = f[n]}
    <2>1. 0 \in T
      BY <1>1, <1>2
    <2>2. ASSUME NEW n \in T PROVE n + 1 \in T
      <3> SUFFICES ASSUME n + 1 <= q PROVE g[n + 1] = f[n + 1]
        OBVIOUS
      <3> DEFINE k == n + 1
      <3>1. k \in 1 .. Len(s) /\ k - 1 = n /\ n <= q /\ n # q
        BY <1>0
      <3>2. g[n] = f[n] /\ (n \in D <=> n \in E)
        BY <3>1
      <3> HIDE DEF k
      <3>3. g[k] = f[k]
        BY <1>1, <1>2, <3>1, <3>2
      <3> QED  BY <3>3 DEF k
    <2>3. T = Nat
      <3>1. T \subseteq Nat
        OBVIOUS
      <3> HIDE DEF T
      <3> QED  BY <2>1, <2>2, <3>1, Induct
    <2> QED  BY <2>3
  <1>5. ASSUME NEW n \in q + 1 .. Len(s), g[n] = Cut(f[n], i)
        PROVE  g[n] \in Seq(U) /\ Len(g[n]) = n - (j + 1)
    <2>1. n \in m .. Len(s) /\ n \in Nat
      BY <1>0
    <2>2. f[n] \in Seq(U) /\ Len(f[n]) = n - j
      BY <1>3, <2>1
    <2>3. i \in 0 .. Len(f[n]) - 1 /\ (n - j) - 1 = n - (j + 1)
      BY <1>0, <2>1, <2>2
    <2> HIDE DEF i
    <2>4. Cut(f[n], i) \in Seq(U) /\ CutIs(Cut(f[n], i), f[n], i)
      BY <2>2, <2>3, CutType
    <2>5. Len(Cut(f[n], i)) = Len(f[n]) - 1
      BY <2>4 DEF CutIs
    <2> QED  BY <1>5, <2>2, <2>3, <2>4, <2>5
  <1>6. \A n \in q + 1 .. Len(s) : g[n] = Cut(f[n], i)
    <2> DEFINE T == {n \in Nat : q + 1 + n <= Len(s) => g[q + 1 + n] = Cut(f[q + 1 + n], i)}
    <2>1. 0 \in T
      <3> DEFINE k == q + 1
      <3>1. k \in 1 .. Len(s) /\ k - 1 = q /\ q \in E /\ q \notin D /\ q \in m .. Len(s) /\ q \in 0 .. q
        BY <1>0
      <3> HIDE DEF k
      <3>2. g[k] = g[q] /\ f[k] = Append(f[q], s[k]) /\ g[q] = f[q]
        BY <1>1, <1>2, <1>4, <3>1
      <3>3. f[q] \in Seq(U) /\ Len(f[q]) = i /\ s[k] \in U
        BY <1>3, <3>1
      <3> DEFINE x == s[k]
                 w == f[q]
                 z == Append(w, x)
      <3>4. z \in Seq(U) /\ Len(z) = i + 1 /\ \A y \in 1 .. i : z[y] = w[y]
        BY <3>3
      <3>5. i \in 0 .. Len(z) - 1 /\ CutIs(w, z, i)
        BY <1>0, <3>3, <3>4 DEF CutIs
      <3>6. w = Cut(z, i)
        <4> HIDE DEF z, w, i
        <4> QED  BY <3>3, <3>4, <3>5, CutUnique DEF w
      <3>7. g[k] = Cut(f[k], i)
        BY <3>2, <3>6
      <3> QED  BY <3>7 DEF k
    <2>2. ASSUME NEW n \in T PROVE n + 1 \in T
      <3> SUFFICES ASSUME q + 1 + (n + 1) <= Len(s)
                   PROVE  g[q + 1 + (n + 1)] = Cut(f[q + 1 + (n + 1)], i)
        OBVIOUS
      <3> DEFINE k == q + 1 + (n + 1)
                 p == q + 1 + n
      <3>1. k \in 1 .. Len(s) /\ k - 1 = p /\ p \in Nat /\ p <= Len(s) /\ p > q /\ p \in m .. Len(s)
            /\ p - j > i
        BY <1>0
      <3>2. p \notin D /\ p \notin E
        BY <1>0, <3>1
      <3>3. g[p] = Cut(f[p], i)
        BY <3>1
      <3> HIDE DEF k, p
      <3>4. g[k] = Append(g[p], s[k]) /\ f[k] = Append(f[p], s[k])
        BY <1>1, <1>2, <3>1, <3>2
      <3>5. f[p] \in Seq(U) /\ Len(f[p]) = p - j /\ s[k] \in U
        BY <1>3, <3>1
      <3>6. i \in 0 .. Len(f[p]) - 1
        BY <1>0, <3>1, <3>5
      <3> HIDE DEF i
      <3> DEFINE w == f[p]
                 x == s[k]
      <3>7. Append(Cut(w, i), x) = Cut(Append(w, x), i)
        <4> HIDE DEF w, x
        <4> QED  BY <3>5, <3>6, CutAppend DEF w, x
      <3> QED  BY <3>3, <3>4, <3>7 DEF k
    <2>3. T = Nat
      <3>1. T \subseteq Nat
        OBVIOUS
      <3> HIDE DEF T
      <3> QED  BY <2>1, <2>2, <3>1, Induct
    <2> SUFFICES ASSUME NEW n \in q + 1 .. Len(s) PROVE g[n] = Cut(f[n], i)
      OBVIOUS
    <2> DEFINE d == n - (q + 1)
    <2>4. d \in Nat /\ q + 1 + d = n
      OBVIOUS
    <2>5. d \in T
      BY <2>3, <2>4
    <2> QED  BY <2>4, <2>5
  <1>7. LeavesOut(s, E, U, q + 1, j + 1)
    <2>1. \A n \in q + 1 .. Len(s) : g[n] \in Seq(U) /\ Len(g[n]) = n - (j + 1)
      BY <1>5, <1>6
    <2> QED  BY <2>1 DEF LeavesOut, g
  <1>8. Len(s) \in q + 1 .. Len(s) /\ Len(s) \in m .. Len(s)
    BY <1>0
  <1> QED  BY <1>0, <1>1, <1>2, <1>3, <1>6, <1>7, <1>8 DEF LeftOut

DeletedBy(o, q, f, k) ==
    IF k = 0 THEN Rerooted(o, Unmark[o.root]) ELSE DeleteFrom(f[k - 1], q[k] - (k - 1))
DeletedTo(o, q, f, m) == f = [k \in 0 .. m |-> DeletedBy(o, q, f, k)]
After_(o, q) == CHOOSE f : DeletedTo(o, q, f, Len(q))

LEMMA DeletedExists ==
    ASSUME NEW o, NEW q, NEW m \in Nat
    PROVE  \E f : DeletedTo(o, q, f, m)
  <1> DEFINE T == {n \in Nat : \E f : DeletedTo(o, q, f, n)}
             start == Rerooted(o, Unmark[o.root])
  <1>1. 0 \in T
    <2> DEFINE f == [d \in 0 .. 0 |-> start]
    <2>1. \A d \in 0 .. 0 : start = DeletedBy(o, q, f, d)
      BY DEF DeletedBy
    <2>2. f = [d \in 0 .. 0 |-> DeletedBy(o, q, f, d)]
      BY <2>1
    <2> HIDE DEF f
    <2>3. DeletedTo(o, q, f, 0)
      BY <2>2 DEF DeletedTo
    <2> QED  BY <2>3
  <1>2. ASSUME NEW n \in T PROVE n + 1 \in T
    <2>1. PICK f : DeletedTo(o, q, f, n)
      OBVIOUS
    <2> DEFINE g == [d \in 0 .. n + 1 |-> DeletedBy(o, q, f, d)]
    <2>2. \A d \in 0 .. n : g[d] = f[d]
      BY <2>1 DEF DeletedTo
    <2>3. \A d \in 0 .. n + 1 : DeletedBy(o, q, f, d) = DeletedBy(o, q, g, d)
      <3>1. \A d \in 1 .. n + 1 : d - 1 \in 0 .. n
        OBVIOUS
      <3> HIDE DEF g
      <3> QED  BY <2>2, <3>1 DEF DeletedBy
    <2>4. g = [d \in 0 .. n + 1 |-> DeletedBy(o, q, g, d)]
      BY <2>3
    <2> HIDE DEF g
    <2>5. DeletedTo(o, q, g, n + 1)
      BY <2>4 DEF DeletedTo
    <2> QED  BY <2>5
  <1> HIDE DEF T
  <1>3. T \subseteq Nat
    BY DEF T
  <1>4. T = Nat
    BY <1>1, <1>2, <1>3, Induct
  <1> QED  BY <1>4 DEF T

DeletedGoes(o, q) ==
    /\ DeleteMarkedOf(o) = After_(o, q)[Len(q)]
    /\ After_(o, q)[0] = Rerooted(o, Unmark[o.root])
    /\ \A k \in 1 .. Len(q) : After_(o, q)[k] = DeleteFrom(After_(o, q)[k - 1], q[k] - (k - 1))

LEMMA DeletedEquation ==
    ASSUME NEW o, NEW q, q = OverMarked[o.root][0], Len(q) \in Nat
    PROVE  DeletedGoes(o, q)
  <1>1. \E f : DeletedTo(o, q, f, Len(q))
    BY DeletedExists
  <1>2. DeletedTo(o, q, After_(o, q), Len(q))
    BY <1>1 DEF After_
  <1>3. DeleteMarkedOf(o) = After_(o, q)[Len(q)]
    BY DEF DeleteMarkedOf, After_, DeletedTo, DeletedBy, Rerooted
  <1> DEFINE f == After_(o, q)
  <1>4. f = [k \in 0 .. Len(q) |-> DeletedBy(o, q, f, k)]
    BY <1>2 DEF DeletedTo
  <1> HIDE DEF f
  <1>5. \A k \in 0 .. Len(q) : f[k] = DeletedBy(o, q, f, k)
    BY <1>4
  <1>6. f[0] = Rerooted(o, Unmark[o.root])
    BY <1>5 DEF DeletedBy
  <1>7. \A k \in 1 .. Len(q) : f[k] = DeleteFrom(f[k - 1], q[k] - (k - 1))
    <2> SUFFICES ASSUME NEW k \in 1 .. Len(q)
                 PROVE  f[k] = DeleteFrom(f[k - 1], q[k] - (k - 1))
      OBVIOUS
    <2>1. f[k] = DeletedBy(o, q, f, k) /\ k # 0
      BY <1>5
    <2> QED  BY <2>1 DEF DeletedBy
  <1> QED  BY <1>3, <1>6, <1>7 DEF f, DeletedGoes

\* The structure before the marked values are deleted: its marks are gone, nothing else is.
LEMMA UnmarkedFirst ==
    ASSUME NEW o, TreeOf(o), Consistent(o.root), Len(Contents(o)) <= MaxSize
    PROVE  LET u == Rerooted(o, Unmark[o.root])
           IN  Plain(u) /\ Contents(u) = Contents(o) /\ ~u.is_array
  <1> DEFINE u == Rerooted(o, Unmark[o.root])
             c == o.capacity
             t == o.root
             f == o.free_idx
             t2 == Unmark[t]
  <1>0. MaxSize \in Nat
    BY OmtAssumption
  <1>1. o = Tree(c, t, f) /\ c \in Nat /\ f \in Nat /\ Exact(t) /\ Even(t)
    BY DEF TreeOf
  <1>2. Contents(o) = Values[t] /\ t.weight <= MaxSize + 1
    <2>1. Contents(o) = Values[t] /\ t.weight = Len(Values[t])
      BY Kinds
    <2>2. Len(Values[t]) <= MaxSize
      BY <2>1
    <2> HIDE DEF t
    <2>3. t.weight \in Nat
      BY <1>1, ExactWeight
    <2> QED  BY <1>0, <2>1, <2>2, <2>3
  <1>3. Consistent(t)
    OBVIOUS
  <1>4. u = Tree(c, t2, f)
    <2> HIDE DEF t, t2, c, f
    <2>1. \A x : Rerooted(o, x) = Tree(c, x, f)
      BY <1>1, TreeExcept
    <2> QED  BY <2>1 DEF t2, t
  <1> HIDE DEF t, c, f, u
  <1>5. SameShape(t2, t) /\ Values[t2] = Values[t] /\ Clean(t2)
    <2>1. Unmarks(Unmark[t], t)
      BY <1>1, <1>2, <1>3, UnmarkIs
    <2> QED  BY <2>1 DEF Unmarks
  <1> HIDE DEF t2
  <1>6. Exact(t2)
    BY <1>5 DEF SameShape
  <1>7. Even(t2)
    BY <1>1, <1>5 DEF SameShape
  <1>8. TreeMade(Tree(c, t2, f), t2)
    BY <1>1, <1>6, <1>7, TreeIs
  <1>9. Plain(u) /\ Contents(u) = Contents(o) /\ ~u.is_array
    BY <1>2, <1>4, <1>5, <1>8 DEF Plain, TreeMade
  <1> QED  BY <1>9 DEF u

First(q, k) == {q[x] : x \in 1 .. k}

\* delete_all_marked deletes the marked values, and no others.
LEMMA DeleteMarkedIs ==
    ASSUME NEW o, TreeOf(o), Consistent(o.root), Len(Contents(o)) <= MaxSize
    PROVE  LET u == DeleteMarkedOf(o)
           IN  /\ Plain(u) /\ (SupportsMarks => ~u.is_array)
               /\ Contents(u) = Sequences_!Without(Contents(o), MarkedSlots[o.root][0])
               /\ Len(Contents(u)) <= Len(Contents(o))
  <1> DEFINE V == Contents(o)
             q == OverMarked[o.root][0]
             D == MarkedSlots[o.root][0]
             A == After_(o, q)
             m(k) == IF k = 0 THEN 0 ELSE q[k] + 1
  <1>0. MaxSize \in Nat /\ V \in Seq(Value) /\ Len(V) \in Nat /\ Len(V) <= MaxSize
    BY OmtAssumption, Kinds, ValuesType
  <1>1. Lists(q, D, 0, Len(V))
    <2> DEFINE t == o.root
               z == 0
    <2>1. Exact(t)
      BY DEF TreeOf
    <2>2. t.weight = Len(V) /\ z \in Slot /\ z + t.weight <= MaxSize
      BY <1>0, Kinds DEF Slot
    <2>3. Consistent(t)
      OBVIOUS
    <2> HIDE DEF t, z, V
    <2>4. Lists(OverMarked[t][z], MarkedSlots[t][z], z, t.weight)
      BY <2>1, <2>2, <2>3, OverMarkedIs
    <2> QED  BY <2>2, <2>4 DEF t, z
  <1> HIDE DEF D
  <1>2. /\ q \in Seq(Nat) /\ Len(q) \in Nat
        /\ \A k \in 1 .. Len(q) : q[k] \in Nat /\ k - 1 <= q[k] /\ q[k] < Len(V)
        /\ \A k, n \in 1 .. Len(q) : k < n => q[k] < q[n]
        /\ D = First(q, Len(q))
    <2> HIDE DEF q, V
    <2> QED  BY <1>1 DEF Lists, First
  <1>3. DeletedGoes(o, q)
    <2>1. Len(q) \in Nat
      BY <1>2
    <2> HIDE DEF A
    <2> QED  BY <2>1, DeletedEquation
  <1>4. /\ DeleteMarkedOf(o) = A[Len(q)]
        /\ A[0] = Rerooted(o, Unmark[o.root])
        /\ \A k \in 1 .. Len(q) : A[k] = DeleteFrom(A[k - 1], q[k] - (k - 1))
    BY <1>3 DEF DeletedGoes
  <1>5. Plain(A[0]) /\ Contents(A[0]) = V /\ ~A[0].is_array
    <2> HIDE DEF A, q
    <2> QED  BY <1>4, UnmarkedFirst
  <1> HIDE DEF A, V, q
  <1> DEFINE Good(k) == /\ Plain(A[k]) /\ (SupportsMarks => ~A[k].is_array)
                        /\ Contents(A[k]) = Sequences_!Without(V, First(q, k))
                        /\ Len(Contents(A[k])) <= Len(V)
                        /\ LeavesOut(V, First(q, k), Value, m(k), k)
             T == {k \in Nat : k <= Len(q) => Good(k)}
  <1>6. 0 \in T
    <2>1. First(q, 0) = {}
      BY DEF First
    <2>2. LeavesOut(V, {}, Value, 0, 0) /\ Sequences_!Without(V, {}) = V
      BY <1>0, KeepsAll
    <2>3. LeavesOut(V, First(q, 0), Value, m(0), 0)
      BY <2>1, <2>2
    <2>4. Contents(A[0]) = Sequences_!Without(V, First(q, 0)) /\ Len(Contents(A[0])) <= Len(V)
      <3>1. Sequences_!Without(V, First(q, 0)) = V
        BY <2>1, <2>2
      <3> QED  BY <1>0, <1>5, <3>1
    <2> QED  BY <1>5, <2>3, <2>4
  <1>7. ASSUME NEW k \in T PROVE k + 1 \in T
    <2> SUFFICES ASSUME k + 1 <= Len(q) PROVE Good(k + 1)
      OBVIOUS
    <2> DEFINE n == k + 1
               D1 == First(q, k)
               D2 == First(q, n)
               b == A[k]
               mk == m(k)
               i == q[n] - k
               s == Contents(b)
               u == DeleteFrom(b, i)
    <2>1. n \in 1 .. Len(q) /\ n - 1 = k /\ k \in Nat /\ k <= Len(q)
      BY <1>2
    <2>2. Plain(b) /\ (SupportsMarks => ~b.is_array) /\ s = Sequences_!Without(V, D1)
          /\ Len(s) <= Len(V) /\ LeavesOut(V, D1, Value, mk, k)
      BY <2>1
    <2>3. mk \in Nat /\ k <= mk /\ mk <= q[n]
      <3>1. CASE k = 0
        BY <1>2, <2>1, <3>1
      <3>2. CASE k # 0
        <4>1. k \in 1 .. Len(q) /\ k < n
          BY <2>1, <3>2
        <4>2. q[k] \in Nat /\ k - 1 <= q[k] /\ q[k] < q[n] /\ q[n] \in Nat
          BY <1>2, <2>1, <4>1
        <4>3. mk = q[k] + 1
          BY <3>2
        <4> HIDE DEF mk, n
        <4> QED  BY <2>1, <4>2, <4>3
      <3> QED  BY <3>1, <3>2
    <2>4. \A d \in D1 : d \in Nat /\ d < mk
      <3> SUFFICES ASSUME NEW x \in 1 .. k PROVE q[x] \in Nat /\ q[x] < mk
        BY DEF First
      <3>1. k # 0 /\ x \in 1 .. Len(q) /\ k \in 1 .. Len(q) /\ (x < k \/ x = k)
        BY <2>1
      <3>2. mk = q[k] + 1
        BY <3>1
      <3>3. q[x] \in Nat /\ q[k] \in Nat /\ q[x] <= q[k]
        <4>1. q[x] \in Nat /\ q[k] \in Nat
          BY <1>2, <3>1
        <4>2. CASE x = k
          BY <4>1, <4>2
        <4>3. CASE x < k
          <5>1. q[x] < q[k]
            BY <1>2, <3>1, <4>3
          <5> QED  BY <4>1, <5>1
        <4> QED  BY <3>1, <4>2, <4>3
      <3> HIDE DEF mk
      <3> QED  BY <3>2, <3>3
    <2>5. D2 = D1 \cup {q[n]}
      <3>1. \A x : x \in 1 .. n <=> (x \in 1 .. k \/ x = n)
        BY <2>1
      <3> HIDE DEF n
      <3> QED  BY <3>1 DEF First
    <2>6. q[n] \in Nat /\ q[n] < Len(V)
      BY <1>2, <2>1
    <2>7. A[n] = u
      BY <1>4, <2>1
    <2>8. m(n) = q[n] + 1
      BY <2>1
    <2> DEFINE p == q[n]
    <2>9. i = p - k
      OBVIOUS
    <2> HIDE DEF D1, D2, b, mk, n, p, m
    <2>10. /\ LeavesOut(V, D2, Value, p + 1, k + 1)
           /\ p - k \in Nat
           /\ Len(Sequences_!Without(V, D1)) = Len(V) - k /\ Sequences_!Without(V, D1) \in Seq(Value)
           /\ Sequences_!Without(V, D2) = Cut(Sequences_!Without(V, D1), p - k)
      <3>1. p \in Nat /\ mk <= p /\ p < Len(V) /\ D2 = D1 \cup {p}
        BY <2>3, <2>5, <2>6 DEF p
      <3>2. LeavesOut(V, D1, Value, mk, k)
        BY <2>2
      <3>3. D2 = D1 \cup {p}
        BY <3>1
      <3>4. mk \in Nat /\ k \in Nat /\ k <= mk /\ mk <= p /\ p \in Nat /\ p < Len(V)
        BY <2>1, <2>3, <3>1
      <3>5. LeftOut(V, D1, D2, Value, p, k)
        BY <1>0, <2>4, <3>2, <3>3, <3>4, LeaveOutOne
      <3> QED  BY <3>5 DEF LeftOut
    <2>11. i \in Nat /\ i < Len(s) /\ Len(s) <= MaxSize /\ Len(s) \in Nat
      <3>1. p \in Nat /\ p < Len(V)
        BY <2>6 DEF p
      <3> HIDE DEF i, s
      <3> QED  BY <1>0, <2>1, <2>2, <2>9, <2>10, <3>1
    <2> HIDE DEF i
    <2>12. Plain(u) /\ Contents(u) = Cut(s, i) /\ (SupportsMarks => ~u.is_array)
      BY <2>2, <2>11, DeleteFromIs
    <2>13. Len(Contents(u)) <= Len(V)
      <3> DEFINE w == Cut(s, i)
      <3>1. s \in Seq(Value) /\ i \in 0 .. Len(s) - 1
        BY <2>2, <2>10, <2>11
      <3> HIDE DEF s
      <3>2. CutIs(w, s, i)
        BY <3>1, CutType
      <3>3. Len(w) = Len(s) - 1
        BY <3>2 DEF CutIs
      <3> HIDE DEF w
      <3> QED  BY <1>0, <2>2, <2>11, <2>12, <3>3 DEF w
    <2>14. Contents(u) = Sequences_!Without(V, D2)
      BY <2>2, <2>9, <2>10, <2>12
    <2>15. LeavesOut(V, D2, Value, m(n), n)
      BY <2>8, <2>10 DEF p, n
    <2> QED  BY <2>7, <2>12, <2>13, <2>14, <2>15 DEF n, D2
  <1>8. T = Nat
    <2>1. T \subseteq Nat
      OBVIOUS
    <2> HIDE DEF T
    <2> QED  BY <1>6, <1>7, <2>1, Induct
  <1>9. Good(Len(q))
    <2>1. Len(q) \in T /\ Len(q) <= Len(q)
      BY <1>2, <1>8
    <2> QED  BY <2>1
  <1> HIDE DEF T
  <1> QED  BY <1>2, <1>4, <1>9 DEF V, D

-----------------------------------------------------------------------------
(* Lookups                                                                 *)

Middle(min, limit) == (min + limit) \div 2
Within(min, N, d) == {l \in min .. N : l - min < d}

LEMMA MiddleIs ==
    ASSUME NEW N \in Nat, NEW d \in Nat, NEW min \in 0 .. N, NEW limit \in Within(min, N, d + 1), min # limit
    PROVE  /\ Middle(min, limit) \in min .. limit - 1
           /\ Middle(min, limit) + 1 \in 0 .. N
           /\ limit \in Within(Middle(min, limit) + 1, N, d)
           /\ Middle(min, limit) \in Within(min, N, d)
  <1> DEFINE mid == (min + limit) \div 2
  <1>1. limit \in min .. N /\ limit - min < d + 1 /\ min < limit
    BY DEF Within
  <1>2. mid \in Nat /\ min <= mid /\ mid < limit
    BY <1>1
  <1>3. mid + 1 \in 0 .. N /\ limit - (mid + 1) < d /\ mid - min < d /\ mid \in min .. limit - 1
        /\ limit \in mid + 1 .. N /\ mid \in min .. N
    BY <1>1, <1>2
  <1> HIDE DEF mid
  <1>4. limit \in Within(mid + 1, N, d) /\ mid \in Within(min, N, d)
    BY <1>3 DEF Within
  <1> QED  BY <1>3, <1>4 DEF mid, Middle

ZeroBody(s, k, a, c, min, limit, best) ==
    IF min = limit THEN ZeroResult(s, best)
    ELSE LET mid == Middle(min, limit)
             hv == h(s[mid + 1], k)
         IN  IF hv < 0 THEN a[best]
             ELSE IF hv > 0 THEN c[[best EXCEPT !.pos = mid]]
             ELSE c[[best EXCEPT !.zero = mid]]
ZeroCell(s, k, f, min, limit) ==
    [best \in Best |-> ZeroBody(s, k, f[Middle(min, limit) + 1][limit], f[min][Middle(min, limit)],
                            min, limit, best)]
ZeroTo(s, k, f, d) ==
    f = [min \in 0 .. Len(s) |-> [limit \in Within(min, Len(s), d) |-> ZeroCell(s, k, f, min, limit)]]
ZeroSearch(s, k, f) ==
    f = [min \in 0 .. Len(s) |-> [limit \in min .. Len(s) |-> ZeroCell(s, k, f, min, limit)]]
ZeroOf(s, k) == CHOOSE f : ZeroSearch(s, k, f)

LEMMA ZeroExists ==
    ASSUME NEW s, Len(s) \in Nat, NEW k, NEW m \in Nat
    PROVE  \E f : ZeroTo(s, k, f, m)
  <1> DEFINE T == {d \in Nat : \E f : ZeroTo(s, k, f, d)}
             N == Len(s)
  <1>1. 0 \in T
    <2> DEFINE f == [min \in 0 .. N |-> [limit \in {} |-> None]]
    <2>1. \A min \in 0 .. N : Within(min, N, 0) = {}
      BY DEF Within
    <2>2. \A min \in 0 .. N : [limit \in {} |-> None] =
             [limit \in Within(min, N, 0) |-> ZeroCell(s, k, f, min, limit)]
      BY <2>1
    <2>3. f = [min \in 0 .. N |-> [limit \in Within(min, N, 0) |-> ZeroCell(s, k, f, min, limit)]]
      BY <2>2
    <2> HIDE DEF f
    <2>4. ZeroTo(s, k, f, 0)
      BY <2>3 DEF ZeroTo
    <2> QED  BY <2>4
  <1>2. ASSUME NEW d \in T PROVE d + 1 \in T
    <2>1. PICK f : ZeroTo(s, k, f, d)
      OBVIOUS
    <2> DEFINE g == [min \in 0 .. N |-> [limit \in Within(min, N, d + 1) |-> ZeroCell(s, k, f, min, limit)]]
    <2>2. ASSUME NEW min \in 0 .. N, NEW limit \in Within(min, N, d) PROVE g[min][limit] = f[min][limit]
      <3>1. limit \in Within(min, N, d + 1)
        BY DEF Within
      <3>2. g[min][limit] = ZeroCell(s, k, f, min, limit)
        BY <3>1
      <3>3. f[min][limit] = ZeroCell(s, k, f, min, limit)
        BY <2>1 DEF ZeroTo
      <3> QED  BY <3>2, <3>3
    <2>3. ASSUME NEW min \in 0 .. N, NEW limit \in Within(min, N, d + 1)
          PROVE  ZeroCell(s, k, f, min, limit) = ZeroCell(s, k, g, min, limit)
      <3> HIDE DEF g
      <3>1. CASE min = limit
        BY <3>1 DEF ZeroCell, ZeroBody
      <3>2. CASE min # limit
        <4> DEFINE mid == Middle(min, limit)
        <4>1. mid + 1 \in 0 .. N /\ limit \in Within(mid + 1, N, d) /\ mid \in Within(min, N, d)
          BY <3>2, MiddleIs
        <4> HIDE DEF mid
        <4>2. g[mid + 1][limit] = f[mid + 1][limit] /\ g[min][mid] = f[min][mid]
          BY <2>2, <4>1
        <4> QED  BY <4>2 DEF ZeroCell, mid
      <3> QED  BY <3>1, <3>2
    <2>4. \A min \in 0 .. N : [limit \in Within(min, N, d + 1) |-> ZeroCell(s, k, f, min, limit)] =
                              [limit \in Within(min, N, d + 1) |-> ZeroCell(s, k, g, min, limit)]
      <3> HIDE DEF g
      <3> QED  BY <2>3
    <2>5. g = [min \in 0 .. N |-> [limit \in Within(min, N, d + 1) |-> ZeroCell(s, k, g, min, limit)]]
      BY <2>4
    <2> HIDE DEF g
    <2>6. ZeroTo(s, k, g, d + 1)
      BY <2>5 DEF ZeroTo
    <2> QED  BY <2>6
  <1> HIDE DEF T
  <1>3. T \subseteq Nat
    BY DEF T
  <1>4. T = Nat
    BY <1>1, <1>2, <1>3, Induct
  <1> QED  BY <1>4 DEF T

LEMMA ZeroEquation ==
    ASSUME NEW s, Len(s) \in Nat, NEW k, NEW min \in 0 .. Len(s), NEW limit \in min .. Len(s), NEW best \in Best
    PROVE  ZeroOf(s, k)[min][limit][best] =
               ZeroBody(s, k, ZeroOf(s, k)[Middle(min, limit) + 1][limit],
                       ZeroOf(s, k)[min][Middle(min, limit)], min, limit, best)
  <1> DEFINE N == Len(s)
             f == ZeroOf(s, k)
  <1>1. PICK g : ZeroTo(s, k, g, N + 1)
    <2>1. N + 1 \in Nat
      OBVIOUS
    <2> QED  BY <2>1, ZeroExists
  <1>2. \A x \in 0 .. N : Within(x, N, N + 1) = x .. N
    BY DEF Within
  <1>3. ZeroSearch(s, k, g)
    BY <1>1, <1>2 DEF ZeroTo, ZeroSearch
  <1>4. ZeroSearch(s, k, f)
    BY <1>3 DEF ZeroOf
  <1> HIDE DEF f
  <1>5. f[min] = [l \in min .. N |-> ZeroCell(s, k, f, min, l)]
    BY <1>4 DEF ZeroSearch
  <1>6. f[min][limit] = ZeroCell(s, k, f, min, limit)
    BY <1>5
  <1> QED  BY <1>6 DEF ZeroCell, f

LEMMA ZeroStart ==
    ASSUME NEW s, NEW k
    PROVE  FindZeroArray(s, k) = ZeroOf(s, k)[0][Len(s)][None]
  BY DEF FindZeroArray, ZeroOf, ZeroSearch, ZeroCell, ZeroBody, Middle

PlusBody(s, k, a, c, min, limit, best) ==
    IF min = limit THEN best
    ELSE LET mid == Middle(min, limit)
         IN  IF h(s[mid + 1], k) > 0 THEN c[mid] ELSE a[best]
PlusCell(s, k, f, min, limit) ==
    [best \in Slot \cup {-1} |-> PlusBody(s, k, f[Middle(min, limit) + 1][limit], f[min][Middle(min, limit)],
                            min, limit, best)]
PlusTo(s, k, f, d) ==
    f = [min \in 0 .. Len(s) |-> [limit \in Within(min, Len(s), d) |-> PlusCell(s, k, f, min, limit)]]
PlusSearch(s, k, f) ==
    f = [min \in 0 .. Len(s) |-> [limit \in min .. Len(s) |-> PlusCell(s, k, f, min, limit)]]
PlusOf(s, k) == CHOOSE f : PlusSearch(s, k, f)

LEMMA PlusExists ==
    ASSUME NEW s, Len(s) \in Nat, NEW k, NEW m \in Nat
    PROVE  \E f : PlusTo(s, k, f, m)
  <1> DEFINE T == {d \in Nat : \E f : PlusTo(s, k, f, d)}
             N == Len(s)
  <1>1. 0 \in T
    <2> DEFINE f == [min \in 0 .. N |-> [limit \in {} |-> None]]
    <2>1. \A min \in 0 .. N : Within(min, N, 0) = {}
      BY DEF Within
    <2>2. \A min \in 0 .. N : [limit \in {} |-> None] =
             [limit \in Within(min, N, 0) |-> PlusCell(s, k, f, min, limit)]
      BY <2>1
    <2>3. f = [min \in 0 .. N |-> [limit \in Within(min, N, 0) |-> PlusCell(s, k, f, min, limit)]]
      BY <2>2
    <2> HIDE DEF f
    <2>4. PlusTo(s, k, f, 0)
      BY <2>3 DEF PlusTo
    <2> QED  BY <2>4
  <1>2. ASSUME NEW d \in T PROVE d + 1 \in T
    <2>1. PICK f : PlusTo(s, k, f, d)
      OBVIOUS
    <2> DEFINE g == [min \in 0 .. N |-> [limit \in Within(min, N, d + 1) |-> PlusCell(s, k, f, min, limit)]]
    <2>2. ASSUME NEW min \in 0 .. N, NEW limit \in Within(min, N, d) PROVE g[min][limit] = f[min][limit]
      <3>1. limit \in Within(min, N, d + 1)
        BY DEF Within
      <3>2. g[min][limit] = PlusCell(s, k, f, min, limit)
        BY <3>1
      <3>3. f[min][limit] = PlusCell(s, k, f, min, limit)
        BY <2>1 DEF PlusTo
      <3> QED  BY <3>2, <3>3
    <2>3. ASSUME NEW min \in 0 .. N, NEW limit \in Within(min, N, d + 1)
          PROVE  PlusCell(s, k, f, min, limit) = PlusCell(s, k, g, min, limit)
      <3> HIDE DEF g
      <3>1. CASE min = limit
        BY <3>1 DEF PlusCell, PlusBody
      <3>2. CASE min # limit
        <4> DEFINE mid == Middle(min, limit)
        <4>1. mid + 1 \in 0 .. N /\ limit \in Within(mid + 1, N, d) /\ mid \in Within(min, N, d)
          BY <3>2, MiddleIs
        <4> HIDE DEF mid
        <4>2. g[mid + 1][limit] = f[mid + 1][limit] /\ g[min][mid] = f[min][mid]
          BY <2>2, <4>1
        <4> QED  BY <4>2 DEF PlusCell, mid
      <3> QED  BY <3>1, <3>2
    <2>4. \A min \in 0 .. N : [limit \in Within(min, N, d + 1) |-> PlusCell(s, k, f, min, limit)] =
                              [limit \in Within(min, N, d + 1) |-> PlusCell(s, k, g, min, limit)]
      <3> HIDE DEF g
      <3> QED  BY <2>3
    <2>5. g = [min \in 0 .. N |-> [limit \in Within(min, N, d + 1) |-> PlusCell(s, k, g, min, limit)]]
      BY <2>4
    <2> HIDE DEF g
    <2>6. PlusTo(s, k, g, d + 1)
      BY <2>5 DEF PlusTo
    <2> QED  BY <2>6
  <1> HIDE DEF T
  <1>3. T \subseteq Nat
    BY DEF T
  <1>4. T = Nat
    BY <1>1, <1>2, <1>3, Induct
  <1> QED  BY <1>4 DEF T

LEMMA PlusEquation ==
    ASSUME NEW s, Len(s) \in Nat, NEW k, NEW min \in 0 .. Len(s), NEW limit \in min .. Len(s), NEW best \in Slot \cup {-1}
    PROVE  PlusOf(s, k)[min][limit][best] =
               PlusBody(s, k, PlusOf(s, k)[Middle(min, limit) + 1][limit],
                       PlusOf(s, k)[min][Middle(min, limit)], min, limit, best)
  <1> DEFINE N == Len(s)
             f == PlusOf(s, k)
  <1>1. PICK g : PlusTo(s, k, g, N + 1)
    <2>1. N + 1 \in Nat
      OBVIOUS
    <2> QED  BY <2>1, PlusExists
  <1>2. \A x \in 0 .. N : Within(x, N, N + 1) = x .. N
    BY DEF Within
  <1>3. PlusSearch(s, k, g)
    BY <1>1, <1>2 DEF PlusTo, PlusSearch
  <1>4. PlusSearch(s, k, f)
    BY <1>3 DEF PlusOf
  <1> HIDE DEF f
  <1>5. f[min] = [l \in min .. N |-> PlusCell(s, k, f, min, l)]
    BY <1>4 DEF PlusSearch
  <1>6. f[min][limit] = PlusCell(s, k, f, min, limit)
    BY <1>5
  <1> QED  BY <1>6 DEF PlusCell, f

LEMMA PlusStart ==
    ASSUME NEW s, NEW k
    PROVE  FindPlusArray(s, k) = PlusOf(s, k)[0][Len(s)][-1]
  BY DEF FindPlusArray, PlusOf, PlusSearch, PlusCell, PlusBody, Middle

MinusBody(s, k, a, c, min, limit, best) ==
    IF min = limit THEN best
    ELSE LET mid == Middle(min, limit)
         IN  IF h(s[mid + 1], k) < 0 THEN a[mid] ELSE c[best]
MinusCell(s, k, f, min, limit) ==
    [best \in Slot \cup {-1} |-> MinusBody(s, k, f[Middle(min, limit) + 1][limit], f[min][Middle(min, limit)],
                            min, limit, best)]
MinusTo(s, k, f, d) ==
    f = [min \in 0 .. Len(s) |-> [limit \in Within(min, Len(s), d) |-> MinusCell(s, k, f, min, limit)]]
MinusSearch(s, k, f) ==
    f = [min \in 0 .. Len(s) |-> [limit \in min .. Len(s) |-> MinusCell(s, k, f, min, limit)]]
MinusOf(s, k) == CHOOSE f : MinusSearch(s, k, f)

LEMMA MinusExists ==
    ASSUME NEW s, Len(s) \in Nat, NEW k, NEW m \in Nat
    PROVE  \E f : MinusTo(s, k, f, m)
  <1> DEFINE T == {d \in Nat : \E f : MinusTo(s, k, f, d)}
             N == Len(s)
  <1>1. 0 \in T
    <2> DEFINE f == [min \in 0 .. N |-> [limit \in {} |-> None]]
    <2>1. \A min \in 0 .. N : Within(min, N, 0) = {}
      BY DEF Within
    <2>2. \A min \in 0 .. N : [limit \in {} |-> None] =
             [limit \in Within(min, N, 0) |-> MinusCell(s, k, f, min, limit)]
      BY <2>1
    <2>3. f = [min \in 0 .. N |-> [limit \in Within(min, N, 0) |-> MinusCell(s, k, f, min, limit)]]
      BY <2>2
    <2> HIDE DEF f
    <2>4. MinusTo(s, k, f, 0)
      BY <2>3 DEF MinusTo
    <2> QED  BY <2>4
  <1>2. ASSUME NEW d \in T PROVE d + 1 \in T
    <2>1. PICK f : MinusTo(s, k, f, d)
      OBVIOUS
    <2> DEFINE g == [min \in 0 .. N |-> [limit \in Within(min, N, d + 1) |-> MinusCell(s, k, f, min, limit)]]
    <2>2. ASSUME NEW min \in 0 .. N, NEW limit \in Within(min, N, d) PROVE g[min][limit] = f[min][limit]
      <3>1. limit \in Within(min, N, d + 1)
        BY DEF Within
      <3>2. g[min][limit] = MinusCell(s, k, f, min, limit)
        BY <3>1
      <3>3. f[min][limit] = MinusCell(s, k, f, min, limit)
        BY <2>1 DEF MinusTo
      <3> QED  BY <3>2, <3>3
    <2>3. ASSUME NEW min \in 0 .. N, NEW limit \in Within(min, N, d + 1)
          PROVE  MinusCell(s, k, f, min, limit) = MinusCell(s, k, g, min, limit)
      <3> HIDE DEF g
      <3>1. CASE min = limit
        BY <3>1 DEF MinusCell, MinusBody
      <3>2. CASE min # limit
        <4> DEFINE mid == Middle(min, limit)
        <4>1. mid + 1 \in 0 .. N /\ limit \in Within(mid + 1, N, d) /\ mid \in Within(min, N, d)
          BY <3>2, MiddleIs
        <4> HIDE DEF mid
        <4>2. g[mid + 1][limit] = f[mid + 1][limit] /\ g[min][mid] = f[min][mid]
          BY <2>2, <4>1
        <4> QED  BY <4>2 DEF MinusCell, mid
      <3> QED  BY <3>1, <3>2
    <2>4. \A min \in 0 .. N : [limit \in Within(min, N, d + 1) |-> MinusCell(s, k, f, min, limit)] =
                              [limit \in Within(min, N, d + 1) |-> MinusCell(s, k, g, min, limit)]
      <3> HIDE DEF g
      <3> QED  BY <2>3
    <2>5. g = [min \in 0 .. N |-> [limit \in Within(min, N, d + 1) |-> MinusCell(s, k, g, min, limit)]]
      BY <2>4
    <2> HIDE DEF g
    <2>6. MinusTo(s, k, g, d + 1)
      BY <2>5 DEF MinusTo
    <2> QED  BY <2>6
  <1> HIDE DEF T
  <1>3. T \subseteq Nat
    BY DEF T
  <1>4. T = Nat
    BY <1>1, <1>2, <1>3, Induct
  <1> QED  BY <1>4 DEF T

LEMMA MinusEquation ==
    ASSUME NEW s, Len(s) \in Nat, NEW k, NEW min \in 0 .. Len(s), NEW limit \in min .. Len(s), NEW best \in Slot \cup {-1}
    PROVE  MinusOf(s, k)[min][limit][best] =
               MinusBody(s, k, MinusOf(s, k)[Middle(min, limit) + 1][limit],
                       MinusOf(s, k)[min][Middle(min, limit)], min, limit, best)
  <1> DEFINE N == Len(s)
             f == MinusOf(s, k)
  <1>1. PICK g : MinusTo(s, k, g, N + 1)
    <2>1. N + 1 \in Nat
      OBVIOUS
    <2> QED  BY <2>1, MinusExists
  <1>2. \A x \in 0 .. N : Within(x, N, N + 1) = x .. N
    BY DEF Within
  <1>3. MinusSearch(s, k, g)
    BY <1>1, <1>2 DEF MinusTo, MinusSearch
  <1>4. MinusSearch(s, k, f)
    BY <1>3 DEF MinusOf
  <1> HIDE DEF f
  <1>5. f[min] = [l \in min .. N |-> MinusCell(s, k, f, min, l)]
    BY <1>4 DEF MinusSearch
  <1>6. f[min][limit] = MinusCell(s, k, f, min, limit)
    BY <1>5
  <1> QED  BY <1>6 DEF MinusCell, f

LEMMA MinusStart ==
    ASSUME NEW s, NEW k
    PROVE  FindMinusArray(s, k) = MinusOf(s, k)[0][Len(s)][-1]
  BY DEF FindMinusArray, MinusOf, MinusSearch, MinusCell, MinusBody, Middle

Sorted(V) == \A i, j \in 1 .. Len(V) : i < j => V[i] <= V[j]

LEMMA Integers_ ==
    /\ \A v \in Value : v \in Int
    /\ \A V \in Seq(Value) : \A i \in 1 .. Len(V) : V[i] \in Value /\ V[i] \in Int
  <1>1. \A v \in Value : v \in Int
    BY OmtAssumption
  <1>2. \A V \in Seq(Value) : \A i \in 1 .. Len(V) : V[i] \in Value
    OBVIOUS
  <1> QED  BY <1>1, <1>2

LEMMA InOrderIs == \A s : InOrder(s) <=> Sorted(s)
  BY DEF InOrder, S!IsSorted, Sorted

\* The answers to a lookup of k in the sequence V.
ZeroIs(r, V, k) ==
    /\ r = [found |-> r.found, idx |-> r.idx]
    /\ r.found \in BOOLEAN /\ r.idx \in 0 .. Len(V)
    /\ \A i \in 1 .. Len(V) : V[i] < k <=> i <= r.idx
    /\ r.found <=> r.idx < Len(V) /\ V[r.idx + 1] = k
PlusIs(p, V, k) ==
    /\ p \in -1 .. Len(V) - 1
    /\ \A i \in 1 .. Len(V) : V[i] > k <=> p # -1 /\ p < i
MinusIs(m, V, k) ==
    /\ m \in -1 .. Len(V) - 1
    /\ \A i \in 1 .. Len(V) : V[i] < k <=> i <= m + 1

\* The interval of a binary search, and what it has found so far.
Bracket(V, k, min, limit) ==
    /\ min \in 0 .. Len(V) /\ limit \in min .. Len(V)
    /\ \A i \in 1 .. min : V[i] < k
    /\ \A i \in limit + 1 .. Len(V) : ~(V[i] < k)
Seen(V, k, limit, best) ==
    /\ best = [pos |-> best.pos, zero |-> best.zero]
    /\ best.pos \in -1 .. Len(V) - 1 /\ best.zero \in -1 .. Len(V) - 1
    /\ \/ limit = Len(V) /\ best.pos = -1 /\ best.zero = -1
       \/ limit < Len(V) /\ V[limit + 1] = k /\ best.zero = limit
       \/ limit < Len(V) /\ V[limit + 1] # k /\ best.zero = -1 /\ best.pos = limit

LEMMA BracketHalves ==
    ASSUME NEW V \in Seq(Value), Sorted(V), NEW k \in Int, NEW min, NEW limit,
           Bracket(V, k, min, limit), min # limit, NEW mid, mid = Middle(min, limit)
    PROVE  /\ mid \in 0 .. Len(V) - 1 /\ min <= mid /\ mid < limit /\ min \in Nat /\ limit \in Nat
           /\ V[mid + 1] \in Int /\ k \in Int
           /\ V[mid + 1] < k => Bracket(V, k, mid + 1, limit)
           /\ ~(V[mid + 1] < k) => Bracket(V, k, min, mid)
  <1>1. min \in 0 .. Len(V) /\ limit \in min .. Len(V) /\ Len(V) \in Nat
    BY DEF Bracket
  <1>2. mid \in Nat /\ min <= mid /\ mid < limit
    BY <1>1 DEF Middle
  <1>3. \A i \in 1 .. Len(V) : V[i] \in Int
    BY Integers_
  <1>4. k \in Int /\ mid + 1 \in 1 .. Len(V) /\ mid \in 0 .. Len(V) - 1
    BY <1>1, <1>2, Integers_
  <1>5. ASSUME V[mid + 1] < k PROVE Bracket(V, k, mid + 1, limit)
    <2>1. ASSUME NEW i \in 1 .. mid + 1 PROVE V[i] < k
      <3>1. i \in 1 .. Len(V) /\ (i < mid + 1 \/ i = mid + 1)
        BY <1>1, <1>2
      <3>2. V[i] <= V[mid + 1]
        <4>1. CASE i = mid + 1
          BY <1>3, <1>4, <4>1
        <4>2. CASE i < mid + 1
          BY <1>4, <3>1, <4>2 DEF Sorted
        <4> QED  BY <3>1, <4>1, <4>2
      <3> QED  BY <1>3, <1>4, <1>5, <3>1, <3>2
    <2>2. mid + 1 \in 0 .. Len(V) /\ limit \in mid + 1 .. Len(V)
      BY <1>1, <1>2
    <2>3. \A i \in limit + 1 .. Len(V) : ~(V[i] < k)
      BY DEF Bracket
    <2> QED  BY <2>1, <2>2, <2>3 DEF Bracket
  <1>6. ASSUME ~(V[mid + 1] < k) PROVE Bracket(V, k, min, mid)
    <2>1. ASSUME NEW i \in mid + 1 .. Len(V) PROVE ~(V[i] < k)
      <3>1. i \in 1 .. Len(V) /\ (mid + 1 < i \/ i = mid + 1)
        BY <1>1, <1>2
      <3>2. V[mid + 1] <= V[i]
        <4>1. CASE i = mid + 1
          BY <1>3, <1>4, <4>1
        <4>2. CASE mid + 1 < i
          BY <1>4, <3>1, <4>2 DEF Sorted
        <4> QED  BY <3>1, <4>1, <4>2
      <3> QED  BY <1>3, <1>4, <1>6, <3>1, <3>2
    <2>2. min \in 0 .. Len(V) /\ mid \in min .. Len(V)
      BY <1>1, <1>2
    <2>3. \A i \in 1 .. min : V[i] < k
      BY DEF Bracket
    <2> QED  BY <2>1, <2>2, <2>3 DEF Bracket
  <1> QED  BY <1>1, <1>2, <1>3, <1>4, <1>5, <1>6

LEMMA BracketAll ==
    ASSUME NEW V \in Seq(Value), NEW k
    PROVE  Bracket(V, k, 0, Len(V)) /\ Seen(V, k, Len(V), None)
  BY DEF Bracket, Seen, None

\* An empty interval is where k belongs.
LEMMA ZeroFound ==
    ASSUME NEW V \in Seq(Value), NEW k \in Value, NEW min, NEW best,
           Bracket(V, k, min, min), Seen(V, k, min, best)
    PROVE  ZeroIs(ZeroResult(V, best), V, k)
  <1> DEFINE r == ZeroResult(V, best)
  <1>1. min \in 0 .. Len(V) /\ Len(V) \in Nat
        /\ (\A i \in 1 .. min : V[i] < k) /\ (\A i \in min + 1 .. Len(V) : ~(V[i] < k))
    BY DEF Bracket
  <1>2. r = [found |-> r.found, idx |-> r.idx] /\ r.found = (best.zero # -1)
        /\ r.idx = IF best.zero # -1 THEN best.zero ELSE IF best.pos # -1 THEN best.pos ELSE Len(V)
    BY DEF ZeroResult
  <1> HIDE DEF r
  <1>3. /\ \/ min = Len(V) /\ best.pos = -1 /\ best.zero = -1
           \/ min < Len(V) /\ V[min + 1] = k /\ best.zero = min
           \/ min < Len(V) /\ V[min + 1] # k /\ best.zero = -1 /\ best.pos = min
    BY DEF Seen
  <1>4. r.idx = min /\ (r.found <=> min < Len(V) /\ V[min + 1] = k) /\ r.found \in BOOLEAN
    <2>1. CASE min = Len(V) /\ best.pos = -1 /\ best.zero = -1
      <3>1. r.idx = min /\ r.found = FALSE
        BY <1>2, <2>1
      <3>2. ~(min < Len(V))
        BY <1>1, <2>1
      <3> QED  BY <3>1, <3>2
    <2>2. CASE min < Len(V) /\ V[min + 1] = k /\ best.zero = min
      <3>1. best.zero # -1
        BY <1>1, <2>2
      <3> QED  BY <1>2, <2>2, <3>1
    <2>3. CASE min < Len(V) /\ V[min + 1] # k /\ best.zero = -1 /\ best.pos = min
      <3>1. best.pos # -1
        BY <1>1, <2>3
      <3> QED  BY <1>2, <2>3, <3>1
    <2> QED  BY <1>3, <2>1, <2>2, <2>3
  <1>5. \A i \in 1 .. Len(V) : V[i] < k <=> i <= min
    <2> SUFFICES ASSUME NEW i \in 1 .. Len(V) PROVE V[i] < k <=> i <= min
      OBVIOUS
    <2>1. CASE i <= min
      <3>1. i \in 1 .. min
        BY <1>1, <2>1
      <3> QED  BY <1>1, <2>1, <3>1
    <2>2. CASE ~(i <= min)
      <3>1. i \in min + 1 .. Len(V)
        BY <1>1, <2>2
      <3> QED  BY <1>1, <2>2, <3>1
    <2> QED  BY <2>1, <2>2
  <1>6. ZeroIs(r, V, k)
    BY <1>1, <1>2, <1>4, <1>5 DEF ZeroIs
  <1> QED  BY <1>6 DEF r

LEMMA FindZeroArrayIs ==
    ASSUME NEW V \in Seq(Value), Sorted(V), Len(V) <= MaxSize, NEW k \in Value
    PROVE  ZeroIs(FindZeroArray(V, k), V, k)
  <1> DEFINE f == ZeroOf(V, k)
             Good(d) == \A min, limit, best :
                           Bracket(V, k, min, limit) /\ Seen(V, k, limit, best) /\ limit - min < d
                           => ZeroIs(f[min][limit][best], V, k)
             T == {d \in Nat : Good(d)}
  <1>0. Len(V) \in Nat /\ MaxSize \in Nat
    BY OmtAssumption
  <1>1. 0 \in T
    <2> SUFFICES ASSUME NEW min, NEW limit, Bracket(V, k, min, limit) PROVE ~(limit - min < 0)
      OBVIOUS
    <2> QED  BY <1>0 DEF Bracket
  <1>2. ASSUME NEW d \in T PROVE d + 1 \in T
    <2> SUFFICES ASSUME NEW min, NEW limit, NEW best,
                        Bracket(V, k, min, limit), Seen(V, k, limit, best), limit - min < d + 1
                 PROVE  ZeroIs(f[min][limit][best], V, k)
      OBVIOUS
    <2> DEFINE mid == Middle(min, limit)
    <2>1. min \in 0 .. Len(V) /\ limit \in min .. Len(V)
      BY DEF Bracket
    <2>2. best \in Best
      <3>1. best.pos \in Slot \cup {-1} /\ best.zero \in Slot \cup {-1}
        BY <1>0 DEF Seen, Slot
      <3>2. best = [pos |-> best.pos, zero |-> best.zero]
        BY DEF Seen
      <3> QED  BY <3>1, <3>2 DEF Best
    <2>3. f[min][limit][best] = ZeroBody(V, k, f[mid + 1][limit], f[min][mid], min, limit, best)
      BY <1>0, <2>1, <2>2, ZeroEquation
    <2>4. CASE min = limit
      <3>1. f[min][limit][best] = ZeroResult(V, best)
        BY <2>3, <2>4 DEF ZeroBody
      <3>2. Bracket(V, k, min, min) /\ Seen(V, k, min, best)
        BY <2>4
      <3> HIDE DEF f
      <3> QED  BY <3>1, <3>2, ZeroFound
    <2>5. CASE min # limit
      <3> DEFINE x == V[mid + 1]
                 c1 == [best EXCEPT !.pos = mid]
                 c2 == [best EXCEPT !.zero = mid]
      <3>0. mid = Middle(min, limit)
        OBVIOUS
      <3>1. f[min][limit][best] = IF h(x, k) < 0 THEN f[mid + 1][limit][best]
                                  ELSE IF h(x, k) > 0 THEN f[min][mid][c1] ELSE f[min][mid][c2]
        <4> HIDE DEF f
        <4> QED  BY <2>3, <2>5 DEF ZeroBody
      <3> HIDE DEF f, mid
      <3>2. /\ mid \in 0 .. Len(V) - 1 /\ min <= mid /\ mid < limit /\ min \in Nat /\ limit \in Nat
            /\ x \in Int /\ k \in Int
            /\ x < k => Bracket(V, k, mid + 1, limit)
            /\ ~(x < k) => Bracket(V, k, min, mid)
        <4>1. k \in Int
          BY Integers_
        <4> QED  BY <2>5, <3>0, <4>1, BracketHalves
      <3>3. d \in Nat /\ Good(d)
        OBVIOUS
      <3> HIDE DEF T
      <3>4. limit - (mid + 1) < d /\ mid - min < d /\ mid \in Nat
        BY <1>0, <2>1, <3>2, <3>3
      <3>5. CASE x < k
        <4>1. h(x, k) < 0
          BY <3>2, <3>5 DEF h
        <4>2. f[min][limit][best] = f[mid + 1][limit][best]
          BY <3>1, <4>1
        <4>3. Bracket(V, k, mid + 1, limit)
          BY <3>2, <3>5
        <4> QED  BY <3>3, <3>4, <4>2, <4>3
      <3>6. CASE x > k
        <4>1. ~(h(x, k) < 0) /\ h(x, k) > 0
          BY <3>2, <3>6 DEF h
        <4>2. f[min][limit][best] = f[min][mid][c1]
          BY <3>1, <4>1
        <4>3. Bracket(V, k, min, mid) /\ x # k /\ mid < Len(V)
          BY <1>0, <3>2, <3>6
        <4>4. Seen(V, k, mid, c1)
          <5>1. limit < Len(V) => V[limit + 1] # k
            <6>1. SUFFICES ASSUME limit < Len(V) PROVE V[limit + 1] # k
              OBVIOUS
            <6>2. mid + 1 \in 1 .. Len(V) /\ limit + 1 \in 1 .. Len(V) /\ mid + 1 < limit + 1
              BY <1>0, <2>1, <3>2, <6>1
            <6>3. x <= V[limit + 1]
              BY <6>2 DEF Sorted
            <6>4. V[limit + 1] \in Int
              BY <6>2, Integers_
            <6> QED  BY <3>2, <3>6, <6>3, <6>4
          <5>2. best.zero = -1 /\ best = [pos |-> best.pos, zero |-> best.zero]
            BY <5>1 DEF Seen
          <5>3. c1 = [pos |-> mid, zero |-> -1]
            BY <5>2
          <5>4. -1 \in -1 .. Len(V) - 1 /\ mid \in -1 .. Len(V) - 1
            BY <1>0, <3>2
          <5> HIDE DEF c1
          <5> QED  BY <4>3, <5>3, <5>4 DEF Seen
        <4> QED  BY <3>3, <3>4, <4>2, <4>3, <4>4
      <3>7. CASE x = k
        <4>1. ~(h(x, k) < 0) /\ ~(h(x, k) > 0)
          BY <3>2, <3>7 DEF h
        <4>2. f[min][limit][best] = f[min][mid][c2]
          BY <3>1, <4>1
        <4>3. Bracket(V, k, min, mid) /\ mid < Len(V)
          BY <1>0, <3>2, <3>7
        <4>4. Seen(V, k, mid, c2)
          <5>2. best.pos \in -1 .. Len(V) - 1 /\ best = [pos |-> best.pos, zero |-> best.zero]
            BY DEF Seen
          <5>3. c2 = [pos |-> best.pos, zero |-> mid]
            BY <5>2
          <5>4. mid \in -1 .. Len(V) - 1
            BY <1>0, <3>2
          <5> HIDE DEF c2
          <5> QED  BY <3>7, <4>3, <5>2, <5>3, <5>4 DEF Seen
        <4> QED  BY <3>3, <3>4, <4>2, <4>3, <4>4
      <3> QED  BY <3>2, <3>5, <3>6, <3>7
    <2> QED  BY <2>4, <2>5
  <1>3. T = Nat
    <2>1. T \subseteq Nat
      OBVIOUS
    <2> HIDE DEF T
    <2> QED  BY <1>1, <1>2, <2>1, Induct
  <1>4. Good(Len(V) + 1)
    <2> DEFINE n == Len(V) + 1
    <2>1. n \in T
      <3>1. n \in Nat
        BY <1>0
      <3> HIDE DEF T, n
      <3> QED  BY <1>3, <3>1
    <2> HIDE DEF Good, n
    <2>2. Good(n)
      BY <2>1
    <2> QED  BY <2>2 DEF n
  <1>5. Bracket(V, k, 0, Len(V)) /\ Seen(V, k, Len(V), None)
    BY BracketAll
  <1>6. FindZeroArray(V, k) = f[0][Len(V)][None]
    BY ZeroStart
  <1> HIDE DEF f, T
  <1> QED  BY <1>0, <1>4, <1>5, <1>6

PlusSeen(V, limit, best) == IF limit = Len(V) THEN best = -1 ELSE best = limit
MinusSeen(V, min, best) == best = min - 1

LEMMA PlusFound ==
    ASSUME NEW V \in Seq(Value), NEW k \in Value, NEW min, NEW best,
           Bracket(V, k + 1, min, min), PlusSeen(V, min, best)
    PROVE  PlusIs(best, V, k)
  <1>1. min \in 0 .. Len(V) /\ Len(V) \in Nat
        /\ (\A i \in 1 .. min : V[i] < k + 1) /\ (\A i \in min + 1 .. Len(V) : ~(V[i] < k + 1))
    BY DEF Bracket
  <1>2. k \in Int /\ \A i \in 1 .. Len(V) : V[i] \in Int
    BY Integers_
  <1>3. best \in -1 .. Len(V) - 1
    BY <1>1 DEF PlusSeen
  <1>4. ASSUME NEW i \in 1 .. Len(V) PROVE V[i] > k <=> best # -1 /\ best < i
    <2>1. CASE i <= min
      <3>1. i \in 1 .. min /\ V[i] < k + 1
        BY <1>1, <2>1
      <3>2. best = -1 \/ ~(best < i)
        BY <1>1, <2>1 DEF PlusSeen
      <3> QED  BY <1>2, <3>1, <3>2
    <2>2. CASE ~(i <= min)
      <3>1. i \in min + 1 .. Len(V)
        BY <1>1, <2>2
      <3>2. ~(V[i] < k + 1)
        BY <1>1, <3>1
      <3>3. best # -1 /\ best < i
        BY <1>1, <2>2 DEF PlusSeen
      <3> QED  BY <1>2, <3>2, <3>3
    <2> QED  BY <2>1, <2>2
  <1> QED  BY <1>3, <1>4 DEF PlusIs

LEMMA MinusFound ==
    ASSUME NEW V \in Seq(Value), NEW k \in Value, NEW min, NEW best,
           Bracket(V, k, min, min), MinusSeen(V, min, best)
    PROVE  MinusIs(best, V, k)
  <1>1. min \in 0 .. Len(V) /\ Len(V) \in Nat
        /\ (\A i \in 1 .. min : V[i] < k) /\ (\A i \in min + 1 .. Len(V) : ~(V[i] < k))
    BY DEF Bracket
  <1>2. best \in -1 .. Len(V) - 1 /\ best + 1 = min
    BY <1>1 DEF MinusSeen
  <1>3. ASSUME NEW i \in 1 .. Len(V) PROVE V[i] < k <=> i <= min
    <2>1. CASE i <= min
      <3>1. i \in 1 .. min
        BY <1>1, <2>1
      <3> QED  BY <1>1, <2>1, <3>1
    <2>2. CASE ~(i <= min)
      <3>1. i \in min + 1 .. Len(V)
        BY <1>1, <2>2
      <3> QED  BY <1>1, <2>2, <3>1
    <2> QED  BY <2>1, <2>2
  <1> QED  BY <1>2, <1>3 DEF MinusIs

LEMMA FindPlusArrayIs ==
    ASSUME NEW V \in Seq(Value), Sorted(V), Len(V) <= MaxSize, NEW k \in Value
    PROVE  PlusIs(FindPlusArray(V, k), V, k)
  <1> DEFINE f == PlusOf(V, k)
             y == k + 1
             Good(d) == \A min, limit, best :
                           Bracket(V, y, min, limit) /\ PlusSeen(V, limit, best) /\ limit - min < d
                           => PlusIs(f[min][limit][best], V, k)
             T == {d \in Nat : Good(d)}
  <1>0. Len(V) \in Nat /\ MaxSize \in Nat /\ k \in Int /\ y \in Int
    BY OmtAssumption, Integers_
  <1>1. 0 \in T
    <2> SUFFICES ASSUME NEW min, NEW limit, Bracket(V, y, min, limit) PROVE ~(limit - min < 0)
      OBVIOUS
    <2> HIDE DEF y
    <2> QED  BY <1>0 DEF Bracket
  <1>2. ASSUME NEW d \in T PROVE d + 1 \in T
    <2> SUFFICES ASSUME NEW min, NEW limit, NEW best,
                        Bracket(V, y, min, limit), PlusSeen(V, limit, best), limit - min < d + 1
                 PROVE  PlusIs(f[min][limit][best], V, k)
      OBVIOUS
    <2> DEFINE mid == Middle(min, limit)
    <2>1. min \in 0 .. Len(V) /\ limit \in min .. Len(V)
      <3> HIDE DEF y
      <3> QED  BY DEF Bracket
    <2>2. best \in Slot \cup {-1}
      BY <1>0, <2>1 DEF PlusSeen, Slot
    <2>3. f[min][limit][best] = PlusBody(V, k, f[mid + 1][limit], f[min][mid], min, limit, best)
      BY <1>0, <2>1, <2>2, PlusEquation
    <2>4. CASE min = limit
      <3>1. f[min][limit][best] = best
        BY <2>3, <2>4 DEF PlusBody
      <3>2. Bracket(V, y, min, min) /\ PlusSeen(V, min, best)
        BY <2>4
      <3> HIDE DEF f
      <3> QED  BY <3>1, <3>2, PlusFound
    <2>5. CASE min # limit
      <3> DEFINE x == V[mid + 1]
      <3>0. mid = Middle(min, limit)
        OBVIOUS
      <3>1. f[min][limit][best] = IF h(x, k) > 0 THEN f[min][mid][mid] ELSE f[mid + 1][limit][best]
        <4> HIDE DEF f
        <4> QED  BY <2>3, <2>5 DEF PlusBody
      <3>3. d \in Nat /\ Good(d)
        OBVIOUS
      <3> HIDE DEF f, mid, T, Good
      <3>2. /\ mid \in 0 .. Len(V) - 1 /\ min <= mid /\ mid < limit /\ min \in Nat /\ limit \in Nat
            /\ x \in Int /\ y \in Int
            /\ x < y => Bracket(V, y, mid + 1, limit)
            /\ ~(x < y) => Bracket(V, y, min, mid)
        <4> HIDE DEF y
        <4> QED  BY <1>0, <2>5, <3>0, BracketHalves
      <3>4. limit - (mid + 1) < d /\ mid - min < d /\ mid \in Nat
        BY <1>0, <2>1, <3>2, <3>3
      <3>5. CASE x < y
        <4>1. ~(h(x, k) > 0)
          BY <1>0, <3>2, <3>5 DEF h
        <4>2. f[min][limit][best] = f[mid + 1][limit][best]
          BY <3>1, <4>1
        <4>3. Bracket(V, y, mid + 1, limit)
          BY <3>2, <3>5
        <4>4. PlusSeen(V, limit, best)
          BY <1>0, <3>2, <3>4 DEF PlusSeen
        <4> QED  BY <3>3, <3>4, <4>2, <4>3, <4>4 DEF Good
      <3>6. CASE ~(x < y)
        <4>1. h(x, k) > 0
          BY <1>0, <3>2, <3>6 DEF h
        <4>2. f[min][limit][best] = f[min][mid][mid]
          BY <3>1, <4>1
        <4>3. Bracket(V, y, min, mid)
          BY <3>2, <3>6
        <4>4. PlusSeen(V, mid, mid)
          BY <1>0, <3>2, <3>4 DEF PlusSeen
        <4> QED  BY <3>3, <3>4, <4>2, <4>3, <4>4 DEF Good
      <3> QED  BY <3>5, <3>6
    <2> QED  BY <2>4, <2>5
  <1>3. T = Nat
    <2>1. T \subseteq Nat
      OBVIOUS
    <2> HIDE DEF T
    <2> QED  BY <1>1, <1>2, <2>1, Induct
  <1>4. Good(Len(V) + 1)
    <2> DEFINE n == Len(V) + 1
    <2>1. n \in T
      <3>1. n \in Nat
        BY <1>0
      <3> HIDE DEF T, n
      <3> QED  BY <1>3, <3>1
    <2> HIDE DEF Good, n
    <2>2. Good(n)
      BY <2>1
    <2> QED  BY <2>2 DEF n
  <1>5. Bracket(V, y, 0, Len(V)) /\ PlusSeen(V, Len(V), -1)
    <2>1. Bracket(V, y, 0, Len(V))
      BY BracketAll
    <2> QED  BY <1>0, <2>1 DEF PlusSeen
  <1>6. FindPlusArray(V, k) = f[0][Len(V)][-1]
    BY PlusStart
  <1> HIDE DEF f, T
  <1> QED  BY <1>0, <1>4, <1>5, <1>6

LEMMA FindMinusArrayIs ==
    ASSUME NEW V \in Seq(Value), Sorted(V), Len(V) <= MaxSize, NEW k \in Value
    PROVE  MinusIs(FindMinusArray(V, k), V, k)
  <1> DEFINE f == MinusOf(V, k)
             y == k
             Good(d) == \A min, limit, best :
                           Bracket(V, y, min, limit) /\ MinusSeen(V, min, best) /\ limit - min < d
                           => MinusIs(f[min][limit][best], V, k)
             T == {d \in Nat : Good(d)}
  <1>0. Len(V) \in Nat /\ MaxSize \in Nat /\ k \in Int /\ y \in Int
    BY OmtAssumption, Integers_
  <1>1. 0 \in T
    <2> SUFFICES ASSUME NEW min, NEW limit, Bracket(V, y, min, limit) PROVE ~(limit - min < 0)
      OBVIOUS
    <2> HIDE DEF y
    <2> QED  BY <1>0 DEF Bracket
  <1>2. ASSUME NEW d \in T PROVE d + 1 \in T
    <2> SUFFICES ASSUME NEW min, NEW limit, NEW best,
                        Bracket(V, y, min, limit), MinusSeen(V, min, best), limit - min < d + 1
                 PROVE  MinusIs(f[min][limit][best], V, k)
      OBVIOUS
    <2> DEFINE mid == Middle(min, limit)
    <2>1. min \in 0 .. Len(V) /\ limit \in min .. Len(V)
      <3> HIDE DEF y
      <3> QED  BY DEF Bracket
    <2>2. best \in Slot \cup {-1}
      BY <1>0, <2>1 DEF MinusSeen, Slot
    <2>3. f[min][limit][best] = MinusBody(V, k, f[mid + 1][limit], f[min][mid], min, limit, best)
      BY <1>0, <2>1, <2>2, MinusEquation
    <2>4. CASE min = limit
      <3>1. f[min][limit][best] = best
        BY <2>3, <2>4 DEF MinusBody
      <3>2. Bracket(V, y, min, min) /\ MinusSeen(V, min, best)
        BY <2>4
      <3> HIDE DEF f
      <3> QED  BY <3>1, <3>2, MinusFound
    <2>5. CASE min # limit
      <3> DEFINE x == V[mid + 1]
      <3>0. mid = Middle(min, limit)
        OBVIOUS
      <3>1. f[min][limit][best] = IF h(x, k) < 0 THEN f[mid + 1][limit][mid] ELSE f[min][mid][best]
        <4> HIDE DEF f
        <4> QED  BY <2>3, <2>5 DEF MinusBody
      <3>3. d \in Nat /\ Good(d)
        OBVIOUS
      <3> HIDE DEF f, mid, T, Good
      <3>2. /\ mid \in 0 .. Len(V) - 1 /\ min <= mid /\ mid < limit /\ min \in Nat /\ limit \in Nat
            /\ x \in Int /\ y \in Int
            /\ x < y => Bracket(V, y, mid + 1, limit)
            /\ ~(x < y) => Bracket(V, y, min, mid)
        <4> HIDE DEF y
        <4> QED  BY <1>0, <2>5, <3>0, BracketHalves
      <3>4. limit - (mid + 1) < d /\ mid - min < d /\ mid \in Nat
        BY <1>0, <2>1, <3>2, <3>3
      <3>5. CASE x < y
        <4>1. h(x, k) < 0
          BY <1>0, <3>2, <3>5 DEF h
        <4>2. f[min][limit][best] = f[mid + 1][limit][mid]
          BY <3>1, <4>1
        <4>3. Bracket(V, y, mid + 1, limit)
          BY <3>2, <3>5
        <4>4. MinusSeen(V, mid + 1, mid)
          BY <1>0, <3>2, <3>4 DEF MinusSeen
        <4> QED  BY <3>3, <3>4, <4>2, <4>3, <4>4 DEF Good
      <3>6. CASE ~(x < y)
        <4>1. ~(h(x, k) < 0)
          BY <1>0, <3>2, <3>6 DEF h
        <4>2. f[min][limit][best] = f[min][mid][best]
          BY <3>1, <4>1
        <4>3. Bracket(V, y, min, mid)
          BY <3>2, <3>6
        <4>4. MinusSeen(V, min, best)
          BY <1>0, <3>2, <3>4 DEF MinusSeen
        <4> QED  BY <3>3, <3>4, <4>2, <4>3, <4>4 DEF Good
      <3> QED  BY <3>5, <3>6
    <2> QED  BY <2>4, <2>5
  <1>3. T = Nat
    <2>1. T \subseteq Nat
      OBVIOUS
    <2> HIDE DEF T
    <2> QED  BY <1>1, <1>2, <2>1, Induct
  <1>4. Good(Len(V) + 1)
    <2> DEFINE n == Len(V) + 1
    <2>1. n \in T
      <3>1. n \in Nat
        BY <1>0
      <3> HIDE DEF T, n
      <3> QED  BY <1>3, <3>1
    <2> HIDE DEF Good, n
    <2>2. Good(n)
      BY <2>1
    <2> QED  BY <2>2 DEF n
  <1>5. Bracket(V, y, 0, Len(V)) /\ MinusSeen(V, 0, -1)
    <2>1. Bracket(V, y, 0, Len(V))
      BY BracketAll
    <2> QED  BY <1>0, <2>1 DEF MinusSeen
  <1>6. FindMinusArray(V, k) = f[0][Len(V)][-1]
    BY MinusStart
  <1> HIDE DEF f, T
  <1> QED  BY <1>0, <1>4, <1>5, <1>6

LEMMA SortedMid ==
    ASSUME NEW L \in Seq(Value), NEW x \in Value, NEW R \in Seq(Value), Sorted(Mid(L, x, R))
    PROVE  /\ Sorted(L) /\ Sorted(R)
           /\ \A i \in 1 .. Len(L) : L[i] <= x
           /\ \A i \in 1 .. Len(R) : x <= R[i]
  <1> DEFINE w == Mid(L, x, R)
  <1>1. w \in Seq(Value) /\ Spliced(w, L, x, R) /\ Sorted(w)
    BY MidIs
  <1> HIDE DEF w
  <1>2. /\ Len(w) = Len(L) + 1 + Len(R) /\ Len(L) \in Nat /\ Len(R) \in Nat
        /\ \A k \in 1 .. Len(L) + 1 + Len(R) :
              w[k] = IF k <= Len(L) THEN L[k] ELSE IF k = Len(L) + 1 THEN x ELSE R[k - Len(L) - 1]
    BY <1>1 DEF Spliced
  <1>3. \A i \in 1 .. Len(L) : i \in 1 .. Len(w) /\ w[i] = L[i]
    BY <1>2
  <1>4. Len(L) + 1 \in 1 .. Len(w) /\ w[Len(L) + 1] = x
    BY <1>2
  <1>5. ASSUME NEW i \in 1 .. Len(R) PROVE i + Len(L) + 1 \in 1 .. Len(w) /\ w[i + Len(L) + 1] = R[i]
    <2> DEFINE k == i + Len(L) + 1
    <2>1. k \in 1 .. Len(L) + 1 + Len(R) /\ ~(k <= Len(L)) /\ k # Len(L) + 1 /\ k - Len(L) - 1 = i
      BY <1>2
    <2> HIDE DEF k
    <2>2. w[k] = R[i]
      BY <1>2, <2>1
    <2> QED  BY <1>2, <2>1, <2>2 DEF k
  <1>6. Sorted(L)
    <2> SUFFICES ASSUME NEW i \in 1 .. Len(L), NEW j \in 1 .. Len(L), i < j PROVE L[i] <= L[j]
      BY DEF Sorted
    <2> QED  BY <1>1, <1>3 DEF Sorted
  <1>7. Sorted(R)
    <2> SUFFICES ASSUME NEW i \in 1 .. Len(R), NEW j \in 1 .. Len(R), i < j PROVE R[i] <= R[j]
      BY DEF Sorted
    <2> DEFINE a == i + Len(L) + 1
               c == j + Len(L) + 1
    <2>1. a < c /\ a \in 1 .. Len(w) /\ c \in 1 .. Len(w) /\ w[a] = R[i] /\ w[c] = R[j]
      BY <1>2, <1>5
    <2> HIDE DEF a, c
    <2> QED  BY <1>1, <2>1 DEF Sorted
  <1>8. ASSUME NEW i \in 1 .. Len(L) PROVE L[i] <= x
    <2> DEFINE c == Len(L) + 1
    <2>1. i < c /\ i \in 1 .. Len(w) /\ c \in 1 .. Len(w) /\ w[i] = L[i] /\ w[c] = x
      BY <1>2, <1>3, <1>4
    <2> HIDE DEF c
    <2> QED  BY <1>1, <2>1 DEF Sorted
  <1>9. ASSUME NEW i \in 1 .. Len(R) PROVE x <= R[i]
    <2> DEFINE a == Len(L) + 1
               c == i + Len(L) + 1
    <2>1. a < c /\ a \in 1 .. Len(w) /\ c \in 1 .. Len(w) /\ w[a] = x /\ w[c] = R[i]
      BY <1>2, <1>4, <1>5
    <2> HIDE DEF a, c
    <2> QED  BY <1>1, <2>1 DEF Sorted
  <1> QED  BY <1>6, <1>7, <1>8, <1>9

\* The value in each slot of a node's sequence is one of the left values, the node's own or
\* one of the right ones.
MidAt(w, L, x, R) ==
    /\ Len(w) = Len(L) + 1 + Len(R) /\ Len(L) \in Nat /\ Len(R) \in Nat
    /\ \A i \in 1 .. Len(w) :
          \/ i \in 1 .. Len(L) /\ w[i] = L[i] /\ L[i] <= x /\ L[i] \in Int
          \/ i = Len(L) + 1 /\ w[i] = x
          \/ /\ i - Len(L) - 1 \in 1 .. Len(R) /\ w[i] = R[i - Len(L) - 1]
             /\ x <= R[i - Len(L) - 1] /\ R[i - Len(L) - 1] \in Int

LEMMA MidParts ==
    ASSUME NEW L \in Seq(Value), NEW x \in Value, NEW R \in Seq(Value), Sorted(Mid(L, x, R))
    PROVE  MidAt(Mid(L, x, R), L, x, R)
  <1> DEFINE w == Mid(L, x, R)
  <1>1. Spliced(w, L, x, R)
    BY MidIs
  <1>2. (\A i \in 1 .. Len(L) : L[i] <= x) /\ (\A i \in 1 .. Len(R) : x <= R[i])
    BY SortedMid
  <1>3. (\A i \in 1 .. Len(L) : L[i] \in Int) /\ (\A i \in 1 .. Len(R) : R[i] \in Int)
    BY Integers_
  <1> HIDE DEF w
  <1>4. /\ Len(w) = Len(L) + 1 + Len(R) /\ Len(L) \in Nat /\ Len(R) \in Nat
        /\ \A k \in 1 .. Len(L) + 1 + Len(R) :
              w[k] = IF k <= Len(L) THEN L[k] ELSE IF k = Len(L) + 1 THEN x ELSE R[k - Len(L) - 1]
    BY <1>1 DEF Spliced
  <1>5. ASSUME NEW i \in 1 .. Len(w)
        PROVE  \/ i \in 1 .. Len(L) /\ w[i] = L[i] /\ L[i] <= x /\ L[i] \in Int
               \/ i = Len(L) + 1 /\ w[i] = x
               \/ /\ i - Len(L) - 1 \in 1 .. Len(R) /\ w[i] = R[i - Len(L) - 1]
                  /\ x <= R[i - Len(L) - 1] /\ R[i - Len(L) - 1] \in Int
    <2>1. CASE i <= Len(L)
      <3>1. i \in 1 .. Len(L) /\ w[i] = L[i]
        BY <1>4, <2>1
      <3> QED  BY <1>2, <1>3, <3>1
    <2>2. CASE i = Len(L) + 1
      BY <1>4, <2>2
    <2>3. CASE i > Len(L) + 1
      <3> DEFINE d == i - Len(L) - 1
      <3>1. d \in 1 .. Len(R)
        BY <1>4, <2>3
      <3>2. w[i] = R[d]
        BY <1>4, <2>3
      <3> HIDE DEF d
      <3>3. x <= R[d] /\ R[d] \in Int
        BY <1>2, <1>3, <3>1
      <3> QED  BY <3>1, <3>2, <3>3 DEF d
    <2> QED  BY <1>4, <2>1, <2>2, <2>3, SMTT(20)
  <1>6. MidAt(w, L, x, R)
    BY <1>4, <1>5 DEF MidAt
  <1> QED  BY <1>6 DEF w

\* The answers for the sequence of a node from the answers for its subtrees.
LEMMA ZeroRight ==
    ASSUME NEW w, NEW L, NEW x \in Int, NEW R, MidAt(w, L, x, R), NEW k \in Int, x < k,
           NEW r, ZeroIs(r, R, k), NEW u, u = [found |-> r.found, idx |-> r.idx + Len(L) + 1]
    PROVE  ZeroIs(u, w, k)
  <1> DEFINE n == Len(L)
  <1>1. /\ Len(w) = n + 1 + Len(R) /\ n \in Nat /\ Len(R) \in Nat
        /\ \A i \in 1 .. Len(w) :
              \/ i \in 1 .. n /\ w[i] = L[i] /\ L[i] <= x /\ L[i] \in Int
              \/ i = n + 1 /\ w[i] = x
              \/ /\ i - n - 1 \in 1 .. Len(R) /\ w[i] = R[i - n - 1]
                 /\ x <= R[i - n - 1] /\ R[i - n - 1] \in Int
    BY DEF MidAt
  <1>2. /\ r.found \in BOOLEAN /\ r.idx \in 0 .. Len(R)
        /\ \A i \in 1 .. Len(R) : R[i] < k <=> i <= r.idx
        /\ r.found <=> r.idx < Len(R) /\ R[r.idx + 1] = k
    BY DEF ZeroIs
  <1>3. u = [found |-> u.found, idx |-> u.idx] /\ u.found = r.found /\ u.idx = r.idx + n + 1
    OBVIOUS
  <1> HIDE DEF n
  <1>4. u.found \in BOOLEAN /\ u.idx \in 0 .. Len(w)
    BY <1>1, <1>2, <1>3
  <1>5. ASSUME NEW i \in 1 .. Len(w) PROVE w[i] < k <=> i <= u.idx
    <2>1. CASE i \in 1 .. n /\ w[i] = L[i] /\ L[i] <= x /\ L[i] \in Int
      BY <1>1, <1>2, <1>3, <2>1, SMTT(20)
    <2>2. CASE i = n + 1 /\ w[i] = x
      BY <1>1, <1>2, <1>3, <2>2
    <2>3. CASE i - n - 1 \in 1 .. Len(R) /\ w[i] = R[i - n - 1]
      <3>1. R[i - n - 1] < k <=> i - n - 1 <= r.idx
        BY <1>2, <2>3
      <3> QED  BY <1>1, <1>2, <1>3, <2>3, <3>1, SMTT(20)
    <2> QED  BY <1>1, <2>1, <2>2, <2>3
  <1>6. u.found <=> u.idx < Len(w) /\ w[u.idx + 1] = k
    <2>1. u.idx < Len(w) <=> r.idx < Len(R)
      BY <1>1, <1>2, <1>3
    <2>2. ASSUME r.idx < Len(R) PROVE w[u.idx + 1] = R[r.idx + 1]
      <3> DEFINE i == u.idx + 1
      <3>0. i = r.idx + n + 2 /\ r.idx \in Nat
        BY <1>1, <1>2, <1>3
      <3>1. Len(w) = n + 1 + Len(R) /\ n \in Nat /\ Len(R) \in Nat
        BY <1>1
      <3> HIDE DEF i
      <3>1a. i \in 1 .. Len(w) /\ ~(i \in 1 .. n) /\ i # n + 1 /\ i - n - 1 = r.idx + 1
        <4> DEFINE a == r.idx
                   m == Len(R)
                   e == Len(w)
        <4>1. a < m /\ a \in Nat /\ m \in Nat /\ e = n + 1 + m /\ i = a + n + 2 /\ n \in Nat
          BY <2>2, <3>0, <3>1
        <4> HIDE DEF a, m, e
        <4>2. i \in 1 .. e /\ ~(i \in 1 .. n) /\ i # n + 1 /\ i - n - 1 = a + 1
          BY <4>1
        <4> QED  BY <4>2 DEF a, e
      <3>2. w[i] = R[i - n - 1]
        BY <1>1, <3>1a
      <3> QED  BY <3>1a, <3>2 DEF i
    <2> QED  BY <1>2, <1>3, <2>1, <2>2
  <1> QED  BY <1>3, <1>4, <1>5, <1>6 DEF ZeroIs

LEMMA ZeroHit ==
    ASSUME NEW w, NEW L, NEW x \in Int, NEW R, MidAt(w, L, x, R), NEW k \in Int, x = k,
           \A i \in 1 .. Len(L) : L[i] <= x /\ L[i] \in Int,
           NEW r, ZeroIs(r, L, k), ~r.found, NEW u, u = [found |-> TRUE, idx |-> Len(L)]
    PROVE  ZeroIs(u, w, k)
  <1> DEFINE n == Len(L)
  <1>1. /\ Len(w) = n + 1 + Len(R) /\ n \in Nat /\ Len(R) \in Nat
        /\ \A i \in 1 .. Len(w) :
              \/ i \in 1 .. n /\ w[i] = L[i] /\ L[i] <= x /\ L[i] \in Int
              \/ i = n + 1 /\ w[i] = x
              \/ /\ i - n - 1 \in 1 .. Len(R) /\ w[i] = R[i - n - 1]
                 /\ x <= R[i - n - 1] /\ R[i - n - 1] \in Int
    BY DEF MidAt
  <1>2. /\ r.idx \in 0 .. n
        /\ \A i \in 1 .. n : L[i] < k <=> i <= r.idx
        /\ ~(r.idx < n /\ L[r.idx + 1] = k)
    BY DEF ZeroIs
  <1>3. u = [found |-> u.found, idx |-> u.idx] /\ u.found = TRUE /\ u.idx = n
    OBVIOUS
  <1>3a. \A i \in 1 .. n : L[i] <= x /\ L[i] \in Int
    OBVIOUS
  <1> HIDE DEF n
  <1>4. r.idx = n
    <2> SUFFICES ASSUME r.idx < n PROVE FALSE
      BY <1>1, <1>2
    <2> DEFINE i == r.idx + 1
    <2>1. i \in 1 .. n /\ ~(i <= r.idx)
      BY <1>1, <1>2
    <2>2. L[i] # k
      BY <1>2
    <2> HIDE DEF i
    <2> QED  BY <1>2, <1>3a, <2>1, <2>2
  <1>5. ASSUME NEW i \in 1 .. Len(w) PROVE w[i] < k <=> i <= n
    <2>1. CASE i \in 1 .. n /\ w[i] = L[i] /\ L[i] <= x /\ L[i] \in Int
      BY <1>1, <1>2, <1>4, <2>1
    <2>2. CASE i = n + 1 /\ w[i] = x
      BY <1>1, <2>2
    <2>3. CASE i - n - 1 \in 1 .. Len(R) /\ w[i] = R[i - n - 1] /\ x <= R[i - n - 1] /\ R[i - n - 1] \in Int
      BY <1>1, <2>3
    <2> QED  BY <1>1, <2>1, <2>2, <2>3
  <1>6. w[n + 1] = x /\ n < Len(w) /\ n \in 0 .. Len(w)
    <2> DEFINE i == n + 1
    <2>1. i \in 1 .. Len(w) /\ ~(i \in 1 .. n) /\ i - n - 1 = 0
      BY <1>1
    <2> HIDE DEF i
    <2>2. w[i] = x
      BY <1>1, <2>1
    <2> QED  BY <1>1, <2>2 DEF i
  <1> QED  BY <1>3, <1>5, <1>6 DEF ZeroIs

LEMMA ZeroLeft ==
    ASSUME NEW w, NEW L, NEW x \in Int, NEW R, MidAt(w, L, x, R), NEW k \in Int, ~(x < k),
           NEW r, ZeroIs(r, L, k), x = k => r.found
    PROVE  ZeroIs(r, w, k)
  <1> DEFINE n == Len(L)
  <1>1. /\ Len(w) = n + 1 + Len(R) /\ n \in Nat /\ Len(R) \in Nat
        /\ \A i \in 1 .. Len(w) :
              \/ i \in 1 .. n /\ w[i] = L[i] /\ L[i] <= x /\ L[i] \in Int
              \/ i = n + 1 /\ w[i] = x
              \/ /\ i - n - 1 \in 1 .. Len(R) /\ w[i] = R[i - n - 1]
                 /\ x <= R[i - n - 1] /\ R[i - n - 1] \in Int
    BY DEF MidAt
  <1>2. /\ r = [found |-> r.found, idx |-> r.idx]
        /\ r.found \in BOOLEAN /\ r.idx \in 0 .. n
        /\ \A i \in 1 .. n : L[i] < k <=> i <= r.idx
        /\ r.found <=> r.idx < n /\ L[r.idx + 1] = k
    BY DEF ZeroIs
  <1> HIDE DEF n
  <1>3. r.idx \in 0 .. Len(w)
    BY <1>1, <1>2
  <1>4. ASSUME NEW i \in 1 .. Len(w) PROVE w[i] < k <=> i <= r.idx
    <2>1. CASE i \in 1 .. n /\ w[i] = L[i] /\ L[i] <= x /\ L[i] \in Int
      BY <1>2, <2>1
    <2>2. CASE i = n + 1 /\ w[i] = x
      BY <1>1, <1>2, <2>2
    <2>3. CASE i - n - 1 \in 1 .. Len(R) /\ w[i] = R[i - n - 1] /\ x <= R[i - n - 1] /\ R[i - n - 1] \in Int
      BY <1>1, <1>2, <2>3
    <2> QED  BY <1>1, <2>1, <2>2, <2>3
  <1>5. r.found <=> r.idx < Len(w) /\ w[r.idx + 1] = k
    <2> DEFINE i == r.idx + 1
    <2>0. i \in 1 .. Len(w) /\ r.idx < Len(w) /\ i \in Nat
      BY <1>1, <1>2
    <2>1. CASE r.idx < n
      <3>1. i \in 1 .. n /\ ~(i = n + 1) /\ ~(i - n - 1 \in 1 .. Len(R))
        BY <1>1, <1>2, <2>1
      <3>2. r.found <=> L[i] = k
        BY <1>2, <2>1
      <3> HIDE DEF i
      <3>3. w[i] = L[i]
        BY <1>1, <2>0, <3>1
      <3> QED  BY <2>0, <3>2, <3>3 DEF i
    <2>2. CASE r.idx = n
      <3>1. i = n + 1 /\ ~(i \in 1 .. n) /\ ~(i - n - 1 \in 1 .. Len(R))
        BY <1>1, <2>2
      <3>2. ~r.found
        BY <1>1, <1>2, <2>2
      <3> HIDE DEF i
      <3>3. w[i] = x
        BY <1>1, <2>0, <3>1
      <3> QED  BY <2>0, <3>2, <3>3 DEF i
    <2> QED  BY <1>1, <1>2, <2>1, <2>2
  <1> QED  BY <1>2, <1>3, <1>4, <1>5 DEF ZeroIs

LEMMA PlusParts ==
    ASSUME NEW w, NEW L, NEW x \in Int, NEW R, MidAt(w, L, x, R), NEW k \in Int
    PROVE  /\ \A p : x > k /\ PlusIs(p, L, k) => PlusIs(IF p = -1 THEN Len(L) ELSE p, w, k)
           /\ \A p : ~(x > k) /\ PlusIs(p, R, k) => PlusIs(IF p = -1 THEN -1 ELSE p + Len(L) + 1, w, k)
  <1> DEFINE n == Len(L)
             m == Len(R)
             e == Len(w)
  <1>1. /\ e = n + 1 + m /\ n \in Nat /\ m \in Nat
        /\ \A i \in 1 .. e :
              \/ i \in 1 .. n /\ w[i] = L[i] /\ L[i] <= x /\ L[i] \in Int
              \/ i = n + 1 /\ w[i] = x
              \/ /\ i - n - 1 \in 1 .. m /\ w[i] = R[i - n - 1]
                 /\ x <= R[i - n - 1] /\ R[i - n - 1] \in Int
    BY DEF MidAt
  <1>2. ASSUME NEW p, x > k, PlusIs(p, L, k) PROVE PlusIs(IF p = -1 THEN n ELSE p, w, k)
    <2> DEFINE u == IF p = -1 THEN n ELSE p
    <2>1. p \in -1 .. n - 1 /\ \A i \in 1 .. n : L[i] > k <=> p # -1 /\ p < i
      BY <1>2 DEF PlusIs
    <2> HIDE DEF n, m, e
    <2>2. u \in 0 .. n /\ (p # -1 => u = p) /\ (p = -1 => u = n) /\ u # -1 /\ u \in -1 .. e - 1
      BY <1>1, <2>1
    <2> HIDE DEF u
    <2>3. ASSUME NEW i \in 1 .. e PROVE w[i] > k <=> u < i
      <3>1. CASE i \in 1 .. n /\ w[i] = L[i] /\ L[i] <= x /\ L[i] \in Int
        <4>1. L[i] > k <=> p # -1 /\ p < i
          BY <2>1, <3>1
        <4> QED  BY <1>1, <2>1, <2>2, <3>1, <4>1
      <3>2. CASE i = n + 1 /\ w[i] = x
        BY <1>1, <1>2, <2>2, <3>2
      <3>3. CASE i - n - 1 \in 1 .. m /\ w[i] = R[i - n - 1] /\ x <= R[i - n - 1] /\ R[i - n - 1] \in Int
        <4>1. u < i
          BY <1>1, <2>2, <3>3
        <4>2. R[i - n - 1] > k
          BY <1>2, <3>3
        <4> QED  BY <3>3, <4>1, <4>2
      <3> QED  BY <1>1, <3>1, <3>2, <3>3
    <2>4. PlusIs(u, w, k)
      BY <2>2, <2>3 DEF PlusIs, e
    <2> QED  BY <2>4 DEF u
  <1>3. ASSUME NEW p, ~(x > k), PlusIs(p, R, k) PROVE PlusIs(IF p = -1 THEN -1 ELSE p + n + 1, w, k)
    <2> DEFINE u == IF p = -1 THEN -1 ELSE p + n + 1
    <2>1. p \in -1 .. m - 1 /\ \A i \in 1 .. m : R[i] > k <=> p # -1 /\ p < i
      BY <1>3 DEF PlusIs
    <2> HIDE DEF n, m, e
    <2>2. (p # -1 => u = p + n + 1 /\ u > n) /\ (p = -1 <=> u = -1) /\ u \in -1 .. e - 1
      BY <1>1, <2>1
    <2> HIDE DEF u
    <2>3. ASSUME NEW i \in 1 .. e PROVE w[i] > k <=> u # -1 /\ u < i
      <3>1. CASE i \in 1 .. n /\ w[i] = L[i] /\ L[i] <= x /\ L[i] \in Int
        <4>1. ~(w[i] > k)
          BY <1>3, <3>1
        <4> QED  BY <1>1, <2>1, <2>2, <3>1, <4>1
      <3>2. CASE i = n + 1 /\ w[i] = x
        BY <1>1, <1>3, <2>1, <2>2, <3>2
      <3>3. CASE i - n - 1 \in 1 .. m /\ w[i] = R[i - n - 1] /\ x <= R[i - n - 1] /\ R[i - n - 1] \in Int
        <4>1. R[i - n - 1] > k <=> p # -1 /\ p < i - n - 1
          BY <2>1, <3>3
        <4>2. p # -1 => (p < i - n - 1 <=> u < i)
          BY <1>1, <2>1, <2>2
        <4> QED  BY <2>2, <3>3, <4>1, <4>2
      <3> QED  BY <1>1, <3>1, <3>2, <3>3
    <2>4. PlusIs(u, w, k)
      BY <2>2, <2>3 DEF PlusIs, e
    <2> QED  BY <2>4 DEF u
  <1> QED  BY <1>2, <1>3

LEMMA MinusParts ==
    ASSUME NEW w, NEW L, NEW x \in Int, NEW R, MidAt(w, L, x, R), NEW k \in Int
    PROVE  /\ \A p : x < k /\ MinusIs(p, R, k) => MinusIs(IF p = -1 THEN Len(L) ELSE p + Len(L) + 1, w, k)
           /\ \A p : ~(x < k) /\ MinusIs(p, L, k) => MinusIs(p, w, k)
  <1> DEFINE n == Len(L)
             m == Len(R)
             e == Len(w)
  <1>1. /\ e = n + 1 + m /\ n \in Nat /\ m \in Nat
        /\ \A i \in 1 .. e :
              \/ i \in 1 .. n /\ w[i] = L[i] /\ L[i] <= x /\ L[i] \in Int
              \/ i = n + 1 /\ w[i] = x
              \/ /\ i - n - 1 \in 1 .. m /\ w[i] = R[i - n - 1]
                 /\ x <= R[i - n - 1] /\ R[i - n - 1] \in Int
    BY DEF MidAt
  <1>2. ASSUME NEW p, x < k, MinusIs(p, R, k) PROVE MinusIs(IF p = -1 THEN n ELSE p + n + 1, w, k)
    <2> DEFINE u == IF p = -1 THEN n ELSE p + n + 1
    <2>1. p \in -1 .. m - 1 /\ \A i \in 1 .. m : R[i] < k <=> i <= p + 1
      BY <1>2 DEF MinusIs
    <2> HIDE DEF n, m, e
    <2>2. u = p + n + 1 /\ u >= n /\ u \in -1 .. e - 1
      BY <1>1, <2>1
    <2> HIDE DEF u
    <2>3. ASSUME NEW i \in 1 .. e PROVE w[i] < k <=> i <= u + 1
      <3>1. CASE i \in 1 .. n /\ w[i] = L[i] /\ L[i] <= x /\ L[i] \in Int
        <4>1. w[i] < k
          BY <1>2, <3>1
        <4> QED  BY <1>1, <2>1, <2>2, <3>1, <4>1
      <3>2. CASE i = n + 1 /\ w[i] = x
        BY <1>1, <1>2, <2>1, <2>2, <3>2
      <3>3. CASE i - n - 1 \in 1 .. m /\ w[i] = R[i - n - 1] /\ x <= R[i - n - 1] /\ R[i - n - 1] \in Int
        <4>1. R[i - n - 1] < k <=> i - n - 1 <= p + 1
          BY <2>1, <3>3
        <4>2. i - n - 1 <= p + 1 <=> i <= u + 1
          BY <1>1, <2>1, <2>2
        <4> QED  BY <3>3, <4>1, <4>2
      <3> QED  BY <1>1, <3>1, <3>2, <3>3
    <2>4. MinusIs(u, w, k)
      BY <2>2, <2>3 DEF MinusIs, e
    <2> QED  BY <2>4 DEF u
  <1>3. ASSUME NEW p, ~(x < k), MinusIs(p, L, k) PROVE MinusIs(p, w, k)
    <2>1. p \in -1 .. n - 1 /\ \A i \in 1 .. n : L[i] < k <=> i <= p + 1
      BY <1>3 DEF MinusIs
    <2> HIDE DEF n, m, e
    <2>2. p \in -1 .. e - 1
      BY <1>1, <2>1
    <2>3. ASSUME NEW i \in 1 .. e PROVE w[i] < k <=> i <= p + 1
      <3>1. CASE i \in 1 .. n /\ w[i] = L[i] /\ L[i] <= x /\ L[i] \in Int
        BY <2>1, <3>1
      <3>2. CASE i = n + 1 /\ w[i] = x
        BY <1>1, <1>3, <2>1, <3>2
      <3>3. CASE i - n - 1 \in 1 .. m /\ w[i] = R[i - n - 1] /\ x <= R[i - n - 1] /\ R[i - n - 1] \in Int
        <4>1. ~(R[i - n - 1] < k)
          BY <1>3, <3>3
        <4>2. ~(i <= p + 1)
          BY <1>1, <2>1, <3>3
        <4> QED  BY <3>3, <4>1, <4>2
      <3> QED  BY <1>1, <3>1, <3>2, <3>3
    <2> QED  BY <2>2, <2>3 DEF MinusIs, e
  <1> QED  BY <1>2, <1>3

LEMMA FindStep ==
    ASSUME NEW t \in Subtree, t # NODE_NULL, NEW k \in Value
    PROVE  /\ LET l == FindZeroTree[t.left][k]
                  r == FindZeroTree[t.right][k]
              IN  FindZeroTree[t][k] =
                     IF h(t.value, k) < 0 THEN [r EXCEPT !.idx = @ + t.left.weight + 1]
                     ELSE IF h(t.value, k) = 0 /\ ~l.found THEN [found |-> TRUE, idx |-> t.left.weight]
                     ELSE l
           /\ LET l == FindPlusTree[t.left][k]
                  r == FindPlusTree[t.right][k]
              IN  FindPlusTree[t][k] =
                     IF h(t.value, k) > 0 THEN IF l = -1 THEN t.left.weight ELSE l
                     ELSE IF r = -1 THEN -1 ELSE r + t.left.weight + 1
           /\ LET l == FindMinusTree[t.left][k]
                  r == FindMinusTree[t.right][k]
              IN  FindMinusTree[t][k] =
                     IF h(t.value, k) < 0 THEN IF r = -1 THEN t.left.weight ELSE r + t.left.weight + 1
                     ELSE l
  <1>1. LET l == FindZeroTree[t.left][k]
            r == FindZeroTree[t.right][k]
        IN  FindZeroTree[t][k] =
               IF h(t.value, k) < 0 THEN [r EXCEPT !.idx = @ + t.left.weight + 1]
               ELSE IF h(t.value, k) = 0 /\ ~l.found THEN [found |-> TRUE, idx |-> t.left.weight]
               ELSE l
    <2> DEFINE L == FindZeroTree[t.left]
               R == FindZeroTree[t.right]
    <2>1. FindZeroTree[t] = FindZeroBy(t, L, R)
      BY FindZeroTreeEquation
    <2> HIDE DEF L, R
    <2>2. FindZeroTree[t][k] = FindZeroNode(t, L, R, k)
      BY <2>1 DEF FindZeroBy
    <2> QED  BY <2>2 DEF FindZeroNode, L, R
  <1>2. LET l == FindPlusTree[t.left][k]
            r == FindPlusTree[t.right][k]
        IN  FindPlusTree[t][k] =
               IF h(t.value, k) > 0 THEN IF l = -1 THEN t.left.weight ELSE l
               ELSE IF r = -1 THEN -1 ELSE r + t.left.weight + 1
    <2> DEFINE L == FindPlusTree[t.left]
               R == FindPlusTree[t.right]
    <2>1. FindPlusTree[t] = FindPlusBy(t, L, R)
      BY FindPlusTreeEquation
    <2> HIDE DEF L, R
    <2>2. FindPlusTree[t][k] = FindPlusNode(t, L, R, k)
      BY <2>1 DEF FindPlusBy
    <2> QED  BY <2>2 DEF FindPlusNode, L, R
  <1>3. LET l == FindMinusTree[t.left][k]
            r == FindMinusTree[t.right][k]
        IN  FindMinusTree[t][k] =
               IF h(t.value, k) < 0 THEN IF r = -1 THEN t.left.weight ELSE r + t.left.weight + 1
               ELSE l
    <2> DEFINE L == FindMinusTree[t.left]
               R == FindMinusTree[t.right]
    <2>1. FindMinusTree[t] = FindMinusBy(t, L, R)
      BY FindMinusTreeEquation
    <2> HIDE DEF L, R
    <2>2. FindMinusTree[t][k] = FindMinusNode(t, L, R, k)
      BY <2>1 DEF FindMinusBy
    <2> QED  BY <2>2 DEF FindMinusNode, L, R
  <1> QED  BY <1>1, <1>2, <1>3

Looked(V, z, p, m, k) == ZeroIs(z, V, k) /\ PlusIs(p, V, k) /\ MinusIs(m, V, k)

LEMMA LookedNone ==
    ASSUME NEW k
    PROVE  Looked(<< >>, [found |-> FALSE, idx |-> 0], -1, -1, k)
  <1> DEFINE V == << >>
             r == [found |-> FALSE, idx |-> 0]
  <1>1. Len(V) = 0 /\ (\A i : ~(i \in 1 .. Len(V)))
    OBVIOUS
  <1>2. ~r.found /\ r.found \in BOOLEAN /\ r = [found |-> r.found, idx |-> r.idx]
    OBVIOUS
  <1>2a. r.idx = 0
    OBVIOUS
  <1> HIDE DEF V, r
  <1>3. ZeroIs(r, V, k)
    <2>1. r.idx \in 0 .. Len(V) /\ ~(r.idx < Len(V)) /\ \A i : ~(i \in 1 .. Len(V))
      BY <1>1, <1>2a
    <2> QED  BY <1>1, <1>2, <2>1 DEF ZeroIs
  <1>4. PlusIs(-1, V, k) /\ MinusIs(-1, V, k)
    BY <1>1 DEF PlusIs, MinusIs
  <1> QED  BY <1>3, <1>4 DEF V, r, Looked

\* The three lookups of a tree answer for the sequence of its values.
LEMMA FindTreeIs ==
    ASSUME NEW t, Exact(t), Sorted(Values[t]), NEW k \in Value
    PROVE  Looked(Values[t], FindZeroTree[t][k], FindPlusTree[t][k], FindMinusTree[t][k], k)
  <1> DEFINE Good(s) == Exact(s) /\ Sorted(Values[s]) =>
                           Looked(Values[s], FindZeroTree[s][k], FindPlusTree[s][k], FindMinusTree[s][k], k)
             T == {s \in Subtree : Good(s)}
  <1>0. k \in Int
    BY Integers_
  <1>1. NODE_NULL \in T
    <2>1. FindZeroTree[NODE_NULL][k] = [found |-> FALSE, idx |-> 0]
      <3> DEFINE L == FindZeroTree[NODE_NULL.left]
                 R == FindZeroTree[NODE_NULL.right]
      <3>1. FindZeroTree[NODE_NULL] = FindZeroBy(NODE_NULL, L, R)
        BY FindZeroTreeEquation, NullIsSubtree
      <3> HIDE DEF L, R
      <3> QED  BY <3>1 DEF FindZeroBy, FindZeroNode
    <2>2. FindPlusTree[NODE_NULL][k] = -1
      <3> DEFINE L == FindPlusTree[NODE_NULL.left]
                 R == FindPlusTree[NODE_NULL.right]
      <3>1. FindPlusTree[NODE_NULL] = FindPlusBy(NODE_NULL, L, R)
        BY FindPlusTreeEquation, NullIsSubtree
      <3> HIDE DEF L, R
      <3> QED  BY <3>1 DEF FindPlusBy, FindPlusNode
    <2>3. FindMinusTree[NODE_NULL][k] = -1
      <3> DEFINE L == FindMinusTree[NODE_NULL.left]
                 R == FindMinusTree[NODE_NULL.right]
      <3>1. FindMinusTree[NODE_NULL] = FindMinusBy(NODE_NULL, L, R)
        BY FindMinusTreeEquation, NullIsSubtree
      <3> HIDE DEF L, R
      <3> QED  BY <3>1 DEF FindMinusBy, FindMinusNode
    <2>4. Looked(<< >>, [found |-> FALSE, idx |-> 0], -1, -1, k)
      BY LookedNone
    <2> QED  BY <2>1, <2>2, <2>3, <2>4, NullIsSubtree, NullValues
  <1>2. ASSUME NEW s \in Subtree, s # NODE_NULL, s.left \in T, s.right \in T PROVE s \in T
    <2> SUFFICES ASSUME Exact(s), Sorted(Values[s])
                 PROVE  Looked(Values[s], FindZeroTree[s][k], FindPlusTree[s][k], FindMinusTree[s][k], k)
      OBVIOUS
    <2> DEFINE L == Values[s.left]
               R == Values[s.right]
               x == s.value
               w == Values[s]
               n == s.left.weight
               zl == FindZeroTree[s.left][k]
               zr == FindZeroTree[s.right][k]
               pl == FindPlusTree[s.left][k]
               pr == FindPlusTree[s.right][k]
               ml == FindMinusTree[s.left][k]
               mr == FindMinusTree[s.right][k]
               z == FindZeroTree[s][k]
               p == FindPlusTree[s][k]
               m == FindMinusTree[s][k]
    <2>1. Exact(s.left) /\ Exact(s.right) /\ x \in Value /\ s.left \in Subtree /\ s.right \in Subtree
      BY <1>2, ExactParts, Parts
    <2>2. L \in Seq(Value) /\ R \in Seq(Value) /\ w = Mid(L, x, R)
      BY <1>2, <2>1, ValuesType, NodeValues
    <2>3. n = Len(L)
      BY <2>1, ExactWeight
    <2>4. x \in Int
      BY <2>1, Integers_
    <2>5. Sorted(Mid(L, x, R))
      BY <2>2
    <2>6. /\ z = IF h(x, k) < 0 THEN [zr EXCEPT !.idx = @ + n + 1]
                 ELSE IF h(x, k) = 0 /\ ~zl.found THEN [found |-> TRUE, idx |-> n] ELSE zl
          /\ p = IF h(x, k) > 0 THEN IF pl = -1 THEN n ELSE pl ELSE IF pr = -1 THEN -1 ELSE pr + n + 1
          /\ m = IF h(x, k) < 0 THEN IF mr = -1 THEN n ELSE mr + n + 1 ELSE ml
      <3>1. s \in Subtree /\ s # NODE_NULL
        BY <1>2
      <3> QED  BY <3>1, FindStep
    <2>7. Good(s.left) /\ Good(s.right)
      BY <1>2
    <2> HIDE DEF T, L, R, x, w, n
    <2>8. MidAt(w, L, x, R) /\ Sorted(L) /\ Sorted(R) /\ \A i \in 1 .. Len(L) : L[i] <= x /\ L[i] \in Int
      <3>1. x \in Value
        BY <2>1 DEF x
      <3>2. MidAt(Mid(L, x, R), L, x, R)
        BY <2>2, <2>5, <3>1, MidParts
      <3>3. Sorted(L) /\ Sorted(R) /\ \A i \in 1 .. Len(L) : L[i] <= x
        BY <2>2, <2>5, <3>1, SortedMid
      <3>4. \A i \in 1 .. Len(L) : L[i] \in Int
        BY <2>2, Integers_
      <3> QED  BY <2>2, <3>2, <3>3, <3>4
    <2>9. /\ ZeroIs(zl, L, k) /\ PlusIs(pl, L, k) /\ MinusIs(ml, L, k)
          /\ ZeroIs(zr, R, k) /\ PlusIs(pr, R, k) /\ MinusIs(mr, R, k)
      BY <2>1, <2>7, <2>8 DEF Looked, L, R
    <2> HIDE DEF zl, zr, pl, pr, ml, mr, z, p, m
    <2>10. PlusIs(p, w, k)
      <3>1. CASE x > k
        <4>1. h(x, k) > 0
          BY <1>0, <2>4, <3>1 DEF h
        <4>2. p = IF pl = -1 THEN Len(L) ELSE pl
          BY <2>3, <2>6, <4>1
        <4>3. \A q : x > k /\ PlusIs(q, L, k) => PlusIs(IF q = -1 THEN Len(L) ELSE q, w, k)
          BY <1>0, <2>4, <2>8, PlusParts
        <4> QED  BY <2>9, <3>1, <4>2, <4>3
      <3>2. CASE ~(x > k)
        <4>1. ~(h(x, k) > 0)
          BY <1>0, <2>4, <3>2 DEF h
        <4>2. p = IF pr = -1 THEN -1 ELSE pr + Len(L) + 1
          BY <2>3, <2>6, <4>1
        <4>3. \A q : ~(x > k) /\ PlusIs(q, R, k) => PlusIs(IF q = -1 THEN -1 ELSE q + Len(L) + 1, w, k)
          BY <1>0, <2>4, <2>8, PlusParts
        <4> QED  BY <2>9, <3>2, <4>2, <4>3
      <3> QED  BY <3>1, <3>2
    <2>11. MinusIs(m, w, k)
      <3>1. CASE x < k
        <4>1. h(x, k) < 0
          BY <1>0, <2>4, <3>1 DEF h
        <4>2. m = IF mr = -1 THEN Len(L) ELSE mr + Len(L) + 1
          BY <2>3, <2>6, <4>1
        <4>3. \A q : x < k /\ MinusIs(q, R, k) => MinusIs(IF q = -1 THEN Len(L) ELSE q + Len(L) + 1, w, k)
          BY <1>0, <2>4, <2>8, MinusParts
        <4> QED  BY <2>9, <3>1, <4>2, <4>3
      <3>2. CASE ~(x < k)
        <4>1. ~(h(x, k) < 0)
          BY <1>0, <2>4, <3>2 DEF h
        <4>2. m = ml
          BY <2>6, <4>1
        <4>3. \A q : ~(x < k) /\ MinusIs(q, L, k) => MinusIs(q, w, k)
          BY <1>0, <2>4, <2>8, MinusParts
        <4> QED  BY <2>9, <3>2, <4>2, <4>3
      <3> QED  BY <3>1, <3>2
    <2>12. ZeroIs(z, w, k)
      <3>1. CASE x < k
        <4>1. h(x, k) < 0
          BY <1>0, <2>4, <3>1 DEF h
        <4>2. z = [zr EXCEPT !.idx = @ + n + 1]
          BY <2>6, <4>1
        <4>3. zr = [found |-> zr.found, idx |-> zr.idx]
          BY <2>9 DEF ZeroIs
        <4> DEFINE f == zr.found
                   j == zr.idx
        <4> HIDE DEF f, j
        <4>4. zr = [found |-> f, idx |-> j]
          BY <4>3 DEF f, j
        <4>5. z = [found |-> f, idx |-> j + n + 1]
          BY <4>2, <4>4
        <4>6. z = [found |-> zr.found, idx |-> zr.idx + Len(L) + 1]
          BY <2>3, <4>5 DEF f, j
        <4> QED  BY <1>0, <2>4, <2>8, <2>9, <3>1, <4>6, ZeroRight
      <3>2. CASE x = k /\ ~zl.found
        <4>1. ~(h(x, k) < 0) /\ h(x, k) = 0
          BY <1>0, <2>4, <3>2 DEF h
        <4>2. z = [found |-> TRUE, idx |-> Len(L)]
          BY <2>3, <2>6, <3>2, <4>1
        <4>3. x = k /\ ~zl.found
          BY <3>2
        <4> QED  BY <1>0, <2>4, <2>8, <2>9, <4>2, <4>3, ZeroHit
      <3>3. CASE ~(x < k) /\ (x = k => zl.found)
        <4>1. ~(h(x, k) < 0) /\ ~(h(x, k) = 0 /\ ~zl.found)
          BY <1>0, <2>4, <3>3 DEF h
        <4>2. z = zl
          BY <2>6, <4>1
        <4>3. ~(x < k) /\ (x = k => zl.found)
          BY <3>3
        <4> QED  BY <1>0, <2>4, <2>8, <2>9, <4>2, <4>3, ZeroLeft
      <3> QED  BY <1>0, <2>4, <3>1, <3>2, <3>3
    <2> QED  BY <2>10, <2>11, <2>12 DEF Looked, z, p, m, w
  <1> HIDE DEF T
  <1>3. Subtree \subseteq T
    BY <1>1, <1>2, TreeInduction
  <1>4. t \in T
    BY <1>3, ExactWeight
  <1> QED  BY <1>4 DEF T

\* The values from slot i up to slot j, without that one.
Part(V, i, j) == SubSeq(V, i + 1, j)

PartIs(w, V, i, j) == Len(w) = j - i /\ \A k \in 1 .. j - i : w[k] = V[i + k]

LEMMA PartType ==
    ASSUME NEW U, NEW V \in Seq(U), NEW i \in Nat, NEW j \in Nat, i <= j, j <= Len(V)
    PROVE  Part(V, i, j) \in Seq(U) /\ PartIs(Part(V, i, j), V, i, j)
  <1> DEFINE m == i + 1
             w == SubSeq(V, m, j)
  <1>0. Len(V) \in Nat /\ m \in Int
    OBVIOUS
  <1>1. \A k \in m .. j : V[k] \in U
    <2> SUFFICES ASSUME NEW k \in m .. j PROVE V[k] \in U
      OBVIOUS
    <2>1. k \in 1 .. Len(V)
      BY <1>0
    <2> QED  BY <2>1
  <1> HIDE DEF m
  <1>2. /\ w \in Seq(U)
        /\ Len(w) = IF m <= j THEN j - m + 1 ELSE 0
        /\ \A k \in 1 .. j - m + 1 : w[k] = V[m + k - 1]
    BY <1>0, <1>1, SubSeqProperties
  <1> HIDE DEF w
  <1>3. Len(w) = j - i /\ \A k \in 1 .. j - i : w[k] = V[i + k]
    <2>1. m = i + 1
      BY DEF m
    <2>2. Len(w) = j - i
      <3>1. CASE m <= j
        <4>1. Len(w) = j - m + 1
          BY <1>2, <3>1
        <4> QED  BY <2>1, <4>1
      <3>2. CASE ~(m <= j)
        <4>1. Len(w) = 0
          BY <1>2, <3>2
        <4> QED  BY <2>1, <3>2, <4>1
      <3> QED  BY <3>1, <3>2
    <2>3. j - m + 1 = j - i
      BY <2>1
    <2>4. ASSUME NEW k \in 1 .. j - i PROVE w[k] = V[i + k]
      <3>1. m + k - 1 = i + k
        BY <2>1
      <3> QED  BY <1>2, <2>3, <3>1
    <2> QED  BY <2>2, <2>4
  <1> QED  BY <1>2, <1>3 DEF Part, PartIs, w, m

LEMMA PartUnique ==
    ASSUME NEW U, NEW V \in Seq(U), NEW i \in Nat, NEW j \in Nat, i <= j, j <= Len(V),
           NEW w \in Seq(U), PartIs(w, V, i, j)
    PROVE  w = Part(V, i, j)
  <1> DEFINE u == Part(V, i, j)
  <1>1. u \in Seq(U) /\ PartIs(u, V, i, j)
    BY PartType
  <1> HIDE DEF u
  <1>2. Len(w) = Len(u) /\ \A k \in 1 .. Len(w) : w[k] = u[k]
    BY <1>1 DEF PartIs
  <1>3. w = u
    BY <1>1, <1>2, SameSequence
  <1> QED  BY <1>3 DEF u

\* The parts of a sequence and of a node's sequence.
LEMMA PartEnds ==
    ASSUME NEW U, NEW V \in Seq(U)
    PROVE  /\ \A i \in 0 .. Len(V) : Part(V, i, i) = << >>
           /\ Part(V, 0, Len(V)) = V
  <1>0. Len(V) \in Nat
    OBVIOUS
  <1>1. ASSUME NEW i \in 0 .. Len(V) PROVE Part(V, i, i) = << >>
    <2> DEFINE u == Part(V, i, i)
    <2>1. i \in Nat /\ i <= i /\ i <= Len(V)
      BY <1>0
    <2>2. u \in Seq(U) /\ PartIs(u, V, i, i)
      BY <2>1, PartType
    <2> HIDE DEF u
    <2>3. Len(u) = 0
      BY <2>1, <2>2 DEF PartIs
    <2>4. u = << >>
      BY <2>2, <2>3
    <2> QED  BY <2>4 DEF u
  <1>2. Part(V, 0, Len(V)) = V
    <2> DEFINE n == Len(V)
    <2>1. PartIs(V, V, 0, n) /\ n <= n
      BY <1>0 DEF PartIs
    <2>2. 0 \in Nat /\ n \in Nat /\ n <= Len(V) /\ 0 <= n
      BY <1>0
    <2> HIDE DEF n
    <2>3. V = Part(V, 0, n)
      BY <2>1, <2>2, PartUnique
    <2> QED  BY <2>3 DEF n
  <1> QED  BY <1>1, <1>2

LEMMA PartLeft ==
    ASSUME NEW U, NEW L \in Seq(U), NEW x \in U, NEW R \in Seq(U),
           NEW i \in Nat, NEW j \in Nat, i <= j, j <= Len(L)
    PROVE  Part(Mid(L, x, R), i, j) = Part(L, i, j)
  <1> DEFINE w == Mid(L, x, R)
             u == Part(L, i, j)
  <1>1. w \in Seq(U) /\ Spliced(w, L, x, R)
    BY MidIs
  <1>2. u \in Seq(U) /\ PartIs(u, L, i, j)
    BY PartType
  <1>3. Len(L) \in Nat /\ Len(R) \in Nat
    OBVIOUS
  <1> HIDE DEF w, u
  <1>4. j <= Len(w)
    BY <1>1, <1>3 DEF Spliced
  <1>5. PartIs(u, w, i, j)
    <2>1. ASSUME NEW k \in 1 .. j - i PROVE w[i + k] = L[i + k]
      <3>1. i + k \in 1 .. Len(L) + 1 + Len(R) /\ i + k <= Len(L)
        BY <1>3
      <3> QED  BY <1>1, <3>1 DEF Spliced
    <2> QED  BY <1>2, <2>1 DEF PartIs
  <1>6. u = Part(w, i, j)
    BY <1>1, <1>2, <1>4, <1>5, PartUnique
  <1> QED  BY <1>6 DEF w, u

LEMMA PartRight ==
    ASSUME NEW U, NEW L \in Seq(U), NEW x \in U, NEW R \in Seq(U),
           NEW i \in Nat, NEW j \in Nat, i <= j, j <= Len(R)
    PROVE  Part(Mid(L, x, R), Len(L) + 1 + i, Len(L) + 1 + j) = Part(R, i, j)
  <1> DEFINE w == Mid(L, x, R)
             u == Part(R, i, j)
             n == Len(L)
             a == n + 1 + i
             c == n + 1 + j
  <1>1. w \in Seq(U) /\ Spliced(w, L, x, R)
    BY MidIs
  <1>2. u \in Seq(U) /\ PartIs(u, R, i, j)
    BY PartType
  <1>3. n \in Nat /\ Len(R) \in Nat
    OBVIOUS
  <1> HIDE DEF w, u
  <1>4. Len(w) = n + 1 + Len(R) /\ \A k \in 1 .. n + 1 + Len(R) :
           w[k] = IF k <= n THEN L[k] ELSE IF k = n + 1 THEN x ELSE R[k - n - 1]
    BY <1>1 DEF Spliced
  <1> HIDE DEF n
  <1>5. c <= Len(w) /\ a \in Nat /\ c \in Nat /\ a <= c /\ c - a = j - i
    BY <1>3, <1>4
  <1>6. ASSUME NEW k \in 1 .. j - i PROVE w[a + k] = R[i + k]
    <2> DEFINE y == a + k
    <2>1. y \in 1 .. n + 1 + Len(R) /\ ~(y <= n) /\ ~(y = n + 1) /\ y - n - 1 = i + k
      BY <1>3
    <2> HIDE DEF y
    <2>2. w[y] = R[i + k]
      BY <1>4, <2>1
    <2> QED  BY <2>2 DEF y
  <1> HIDE DEF a, c
  <1>7. PartIs(u, w, a, c)
    BY <1>2, <1>5, <1>6 DEF PartIs
  <1>8. u = Part(w, a, c)
    BY <1>1, <1>2, <1>5, <1>7, PartUnique
  <1> QED  BY <1>8 DEF w, u, a, c, n

LEMMA PartAcross ==
    ASSUME NEW U, NEW L \in Seq(U), NEW x \in U, NEW R \in Seq(U),
           NEW i \in Nat, NEW j \in Nat, i <= Len(L), j <= Len(R)
    PROVE  Part(Mid(L, x, R), i, Len(L) + 1 + j) = Mid(Part(L, i, Len(L)), x, Part(R, 0, j))
  <1> DEFINE w == Mid(L, x, R)
             n == Len(L)
             p == Part(L, i, n)
             q == Part(R, 0, j)
             u == Mid(p, x, q)
             c == n + 1 + j
  <1>1. w \in Seq(U) /\ Spliced(w, L, x, R)
    BY MidIs
  <1>3. n \in Nat /\ Len(R) \in Nat /\ n <= Len(L)
    OBVIOUS
  <1>4. Len(w) = n + 1 + Len(R) /\ \A k \in 1 .. n + 1 + Len(R) :
           w[k] = IF k <= n THEN L[k] ELSE IF k = n + 1 THEN x ELSE R[k - n - 1]
    <2> HIDE DEF w
    <2> QED  BY <1>1 DEF Spliced
  <1> HIDE DEF n
  <1>2. p \in Seq(U) /\ PartIs(p, L, i, n)
    BY <1>3, PartType DEF n
  <1>2a. q \in Seq(U) /\ PartIs(q, R, 0, j)
    <2> DEFINE o == 0
    <2>1. o \in Nat /\ o <= j
      OBVIOUS
    <2> HIDE DEF o
    <2>2. Part(R, o, j) \in Seq(U) /\ PartIs(Part(R, o, j), R, o, j)
      BY <2>1, PartType
    <2> QED  BY <2>2 DEF o
  <1>5. Len(p) = n - i /\ (\A k \in 1 .. n - i : p[k] = L[i + k])
        /\ Len(q) = j /\ (\A k \in 1 .. j : q[k] = R[k])
    <2> HIDE DEF p, q
    <2>1. j - 0 = j /\ \A k \in 1 .. j : 0 + k = k
      OBVIOUS
    <2> QED  BY <1>2, <1>2a, <2>1 DEF PartIs
  <1> HIDE DEF p, q, w
  <1>6. u \in Seq(U) /\ Spliced(u, p, x, q)
    BY <1>2, <1>2a, MidIs
  <1> HIDE DEF u
  <1>7. Len(u) = n - i + 1 + j /\ \A k \in 1 .. n - i + 1 + j :
           u[k] = IF k <= n - i THEN p[k] ELSE IF k = n - i + 1 THEN x ELSE q[k - (n - i) - 1]
    BY <1>5, <1>6 DEF Spliced
  <1>8. c \in Nat /\ i <= c /\ c <= Len(w) /\ c - i = n - i + 1 + j
    BY <1>3, <1>4 DEF n
  <1>9. ASSUME NEW k \in 1 .. n - i + 1 + j PROVE u[k] = w[i + k]
    <2> DEFINE z == i + k
    <2>0. z \in 1 .. n + 1 + Len(R) /\ i <= n /\ z = i + k /\ k \in Nat
      BY <1>3 DEF n
    <2> HIDE DEF z
    <2>1. w[z] = IF z <= n THEN L[z] ELSE IF z = n + 1 THEN x ELSE R[z - n - 1]
      BY <1>4, <2>0
    <2>2. u[k] = IF k <= n - i THEN p[k] ELSE IF k = n - i + 1 THEN x ELSE q[k - (n - i) - 1]
      BY <1>7
    <2>3. CASE k <= n - i
      <3>1. k \in 1 .. n - i /\ z <= n
        BY <1>3, <2>0, <2>3
      <3>2. w[z] = L[z] /\ u[k] = p[k] /\ p[k] = L[i + k]
        BY <1>5, <2>1, <2>2, <3>1, <2>3
      <3> QED  BY <2>0, <3>2
    <2>4. CASE k = n - i + 1
      <3>1. ~(k <= n - i) /\ ~(z <= n) /\ z = n + 1
        BY <1>3, <2>0, <2>4
      <3> QED  BY <2>0, <2>1, <2>2, <2>4, <3>1
    <2>5. CASE k > n - i + 1
      <3> DEFINE y == k - (n - i) - 1
      <3>1. ~(k <= n - i) /\ k # n - i + 1 /\ ~(z <= n) /\ z # n + 1 /\ z - n - 1 = y /\ y \in 1 .. j
        BY <1>3, <2>0, <2>5
      <3> HIDE DEF y
      <3>2. w[z] = R[y]
        BY <2>1, <3>1
      <3>3. u[k] = q[y]
        BY <2>2, <3>1 DEF y
      <3> QED  BY <1>5, <2>0, <3>1, <3>2, <3>3
    <2> QED  BY <1>3, <2>0, <2>3, <2>4, <2>5
  <1> HIDE DEF c
  <1>10. PartIs(u, w, i, c)
    BY <1>7, <1>8, <1>9 DEF PartIs
  <1>11. u = Part(w, i, c)
    BY <1>1, <1>6, <1>8, <1>10, PartUnique
  <1> QED  BY <1>11 DEF u, w, c, p, q, n

LEMMA FetchStep ==
    ASSUME NEW t \in Subtree, t # NODE_NULL, NEW i \in Slot
    PROVE  FetchInternal[t][i] =
               IF i < t.left.weight THEN FetchInternal[t.left][i]
               ELSE IF i = t.left.weight THEN t.value
               ELSE FetchInternal[t.right][i - t.left.weight - 1]
  <1> DEFINE L == FetchInternal[t.left]
             R == FetchInternal[t.right]
  <1>1. FetchInternal[t] = FetchBy(t, L, R)
    BY FetchInternalEquation
  <1> HIDE DEF L, R
  <1>2. FetchInternal[t][i] = FetchNode(t, L, R, i)
    BY <1>1 DEF FetchBy
  <1> QED  BY <1>2 DEF FetchNode, L, R

LEMMA FetchIs ==
    ASSUME NEW t, Exact(t), NEW i \in Slot, i < t.weight
    PROVE  FetchInternal[t][i] = Values[t][i + 1]
  <1> DEFINE Good(s) == Exact(s) => \A j \in Slot : j < s.weight => FetchInternal[s][j] = Values[s][j + 1]
             T == {s \in Subtree : Good(s)}
  <1>0. MaxSize \in Nat
    BY OmtAssumption
  <1>1. NODE_NULL \in T
    <2>1. ASSUME NEW j \in Slot, j < NODE_NULL.weight PROVE FALSE
      BY <1>0, <2>1, NullIsSound DEF Slot
    <2> QED  BY <2>1, NullIsSubtree
  <1>2. ASSUME NEW s \in Subtree, s # NODE_NULL, s.left \in T, s.right \in T PROVE s \in T
    <2> SUFFICES ASSUME Exact(s), NEW j \in Slot, j < s.weight
                 PROVE  FetchInternal[s][j] = Values[s][j + 1]
      OBVIOUS
    <2> DEFINE L == s.left
               R == s.right
               x == s.value
               wl == s.left.weight
               wr == s.right.weight
               p == Values[L]
               q == Values[R]
               w == Values[s]
               u == FetchInternal[s][j]
    <2>1. s.weight = wl + 1 + wr /\ wl \in Nat /\ wr \in Nat
      BY <1>2, ExactSum
    <2>2. j \in Nat /\ j <= MaxSize
      BY <1>0 DEF Slot
    <2>3. Exact(L) /\ Exact(R) /\ x \in Value /\ L \in Subtree /\ R \in Subtree
      BY <1>2, ExactParts, Parts
    <2>4. Good(L) /\ Good(R)
      BY <1>2
    <2>5. p \in Seq(Value) /\ q \in Seq(Value) /\ w = Mid(p, x, q)
      BY <1>2, <2>3, ValuesType, NodeValues
    <2>6. Len(p) = wl /\ Len(q) = wr
      BY <2>3, ExactWeight
    <2>7. u = IF j < wl THEN FetchInternal[L][j]
              ELSE IF j = wl THEN x ELSE FetchInternal[R][j - wl - 1]
      BY <1>2, FetchStep
    <2>8. Len(w) = wl + 1 + wr /\ \A k \in 1 .. wl + 1 + wr :
             w[k] = IF k <= wl THEN p[k] ELSE IF k = wl + 1 THEN x ELSE q[k - wl - 1]
      <3>1. Spliced(Mid(p, x, q), p, x, q)
        <4>1. p \in Seq(Value) /\ q \in Seq(Value) /\ x \in Value
          BY <2>3, <2>5
        <4> HIDE DEF p, q, x
        <4> QED  BY <4>1, MidIs
      <3>2. Spliced(w, p, x, q)
        BY <2>5, <3>1
      <3> HIDE DEF w, p, q, x
      <3> QED  BY <2>6, <3>2 DEF Spliced
    <2> DEFINE k == j + 1
    <2>9. k \in 1 .. wl + 1 + wr
      BY <2>1, <2>2
    <2>10. w[k] = IF k <= wl THEN p[k] ELSE IF k = wl + 1 THEN x ELSE q[k - wl - 1]
      <3> HIDE DEF k, w, p, q, x, wl, wr
      <3> QED  BY <2>8, <2>9
    <2>11. CASE j < wl
      <3>1. FetchInternal[L][j] = p[j + 1]
        BY <2>3, <2>4, <2>11
      <3>2. k <= wl
        BY <2>1, <2>2, <2>11
      <3> QED  BY <2>7, <2>10, <2>11, <3>1, <3>2
    <2>12. CASE j = wl
      <3>1. ~(k <= wl) /\ k = wl + 1 /\ ~(j < wl)
        BY <2>1, <2>2, <2>12
      <3> QED  BY <2>7, <2>10, <2>12, <3>1
    <2>13. CASE j > wl
      <3> DEFINE y == j - wl - 1
      <3>1. ~(k <= wl) /\ k # wl + 1 /\ ~(j < wl) /\ j # wl /\ k - wl - 1 = y + 1 /\ y \in Nat
            /\ y < wr /\ y <= MaxSize
        BY <1>0, <2>1, <2>2, <2>13
      <3>1a. u = FetchInternal[R][y]
        BY <2>7, <3>1
      <3> HIDE DEF y
      <3>2. y \in Slot
        BY <1>0, <3>1 DEF Slot
      <3>3. FetchInternal[R][y] = q[y + 1]
        BY <2>3, <2>4, <3>1, <3>2
      <3>4. w[k] = q[k - wl - 1]
        BY <2>10, <3>1
      <3> QED  BY <3>1, <3>1a, <3>3, <3>4
    <2> QED  BY <2>1, <2>2, <2>11, <2>12, <2>13
  <1> HIDE DEF T
  <1>3. Subtree \subseteq T
    BY <1>1, <1>2, TreeInduction
  <1>4. t \in T
    BY <1>3, ExactWeight
  <1> QED  BY <1>4 DEF T

IterateAround(t, left, right, idx, root) ==
    (IF left < root THEN IterateTree[t.left][left][right][idx] ELSE << >>)
    \o (IF left <= root /\ root < right THEN <<t.value>> ELSE << >>)
    \o (IF root + 1 < right THEN IterateTree[t.right][left][right][root + 1] ELSE << >>)

LEMMA IterateStep ==
    ASSUME NEW t \in Subtree, NEW left \in Slot, NEW right \in Slot, NEW idx \in Slot
    PROVE  /\ t = NODE_NULL => IterateTree[t][left][right][idx] = << >>
           /\ t # NODE_NULL => IterateTree[t][left][right][idx] =
                                  IterateAround(t, left, right, idx, idx + t.left.weight)
  <1> DEFINE L == IterateTree[t.left]
             R == IterateTree[t.right]
  <1>1. IterateTree[t] = IterateBy(t, L, R)
    BY IterateTreeEquation
  <1> HIDE DEF L, R
  <1>2. IterateTree[t][left][right][idx] = IterateNode(t, L, R, left, right, idx)
    BY <1>1 DEF IterateBy
  <1> QED  BY <1>2, Zenon DEF IterateNode, IterateAround, L, R

\* A slot number moved into 0 .. n.
Inside(a, n) == IF a < 0 THEN 0 ELSE IF a > n THEN n ELSE a
Seen_(V, a, c) == Part(V, Inside(a, Len(V)), Inside(c, Len(V)))

\* What is seen of a node's sequence from what is seen of the parts.
SeenSplits(L, x, R, n, w, l, r, a, c) ==
    /\ c <= n => Seen_(w, a, c) = l
    /\ a <= n /\ n < c => Seen_(w, a, c) = Mid(l, x, r)
    /\ n < a => Seen_(w, a, c) = r
    /\ l \in Seq(Value) /\ r \in Seq(Value)
    /\ (n <= a => l = << >>) /\ (c <= n + 1 => r = << >>)

LEMMA SeenMid ==
    ASSUME NEW L \in Seq(Value), NEW x \in Value, NEW R \in Seq(Value), NEW a \in Int, NEW c \in Int, a <= c
    PROVE  SeenSplits(L, x, R, Len(L), Mid(L, x, R), Seen_(L, a, c),
                      Seen_(R, a - Len(L) - 1, c - Len(L) - 1), a, c)
  <1> DEFINE n == Len(L)
             m == Len(R)
             w == Mid(L, x, R)
             al == Inside(a, n)
             cl == Inside(c, n)
             ar == Inside(a - n - 1, m)
             cr == Inside(c - n - 1, m)
             aw == Inside(a, n + 1 + m)
             cw == Inside(c, n + 1 + m)
             l == Part(L, al, cl)
             r == Part(R, ar, cr)
  <1>1. n \in Nat /\ m \in Nat
    OBVIOUS
  <1>2. w \in Seq(Value) /\ Len(w) = n + 1 + m
    <2>1. w \in Seq(Value) /\ Spliced(w, L, x, R)
      BY MidIs
    <2> QED  BY <2>1 DEF Spliced
  <1>3. Seen_(L, a, c) = l /\ Seen_(R, a - n - 1, c - n - 1) = r /\ Seen_(w, a, c) = Part(w, aw, cw)
    BY <1>2 DEF Seen_
  <1> HIDE DEF n, m
  <1>4. al \in Nat /\ cl \in Nat /\ al <= cl /\ cl <= n /\ ar \in Nat /\ cr \in Nat /\ ar <= cr /\ cr <= m
    BY <1>1 DEF Inside
  <1>5. ASSUME c <= n PROVE aw = al /\ cw = cl
    BY <1>1, <1>5 DEF Inside
  <1>6. ASSUME a <= n, n < c PROVE aw = al /\ cw = n + 1 + cr /\ cl = n /\ ar = 0
    BY <1>1, <1>6 DEF Inside
  <1>7. ASSUME n < a PROVE aw = n + 1 + ar /\ cw = n + 1 + cr
    BY <1>1, <1>7 DEF Inside
  <1>8. (n <= a => al = n /\ cl = n) /\ (c <= n + 1 => ar = 0 /\ cr = 0)
    BY <1>1 DEF Inside
  <1> HIDE DEF al, cl, ar, cr, aw, cw
  <1>9. l \in Seq(Value) /\ r \in Seq(Value)
    BY <1>4, PartType DEF n, m
  <1>10. (n <= a => l = << >>) /\ (c <= n + 1 => r = << >>)
    <2>1. ASSUME n <= a PROVE l = << >>
      <3>1. l = Part(L, n, n) /\ n \in 0 .. Len(L)
        BY <1>1, <1>8, <2>1 DEF n
      <3>2. \A i \in 0 .. Len(L) : Part(L, i, i) = << >>
        BY PartEnds
      <3> QED  BY <3>1, <3>2
    <2>2. ASSUME c <= n + 1 PROVE r = << >>
      <3>1. r = Part(R, 0, 0) /\ 0 \in 0 .. Len(R)
        BY <1>1, <1>8, <2>2 DEF m
      <3>2. \A i \in 0 .. Len(R) : Part(R, i, i) = << >>
        BY PartEnds
      <3> QED  BY <3>1, <3>2
    <2> QED  BY <2>1, <2>2
  <1>11. ASSUME c <= n PROVE Part(w, aw, cw) = l
    <2>1. Part(w, al, cl) = Part(L, al, cl)
      BY <1>4, PartLeft DEF n
    <2> QED  BY <1>5, <1>11, <2>1
  <1>12. ASSUME a <= n, n < c PROVE Part(w, aw, cw) = Mid(l, x, r)
    <2>1. Part(w, al, Len(L) + 1 + cr) = Mid(Part(L, al, Len(L)), x, Part(R, 0, cr))
      BY <1>1, <1>4, PartAcross DEF n, m
    <2>2. aw = al /\ cw = n + 1 + cr /\ cl = n /\ ar = 0
      BY <1>6, <1>12
    <2> QED  BY <2>1, <2>2 DEF n
  <1>13. ASSUME n < a PROVE Part(w, aw, cw) = r
    <2>1. Part(w, Len(L) + 1 + ar, Len(L) + 1 + cr) = Part(R, ar, cr)
      BY <1>4, PartRight DEF m
    <2> QED  BY <1>7, <1>13, <2>1 DEF n
  <1>14. SeenSplits(L, x, R, n, w, l, r, a, c)
    <2> HIDE DEF w, l, r
    <2> QED  BY <1>3, <1>9, <1>10, <1>11, <1>12, <1>13 DEF SeenSplits
  <1> QED  BY <1>3, <1>14 DEF n

LEMMA EmptyParts ==
    ASSUME NEW l \in Seq(Value), NEW r \in Seq(Value)
    PROVE  l \o << >> \o << >> = l /\ << >> \o << >> \o r = r
  OBVIOUS

\* iterate_on_range of a tree hands over the values of the range.
LEMMA IterateIs ==
    ASSUME NEW t, Exact(t), NEW left \in Slot, NEW right \in Slot, left <= right, NEW idx \in Slot,
           idx + t.weight <= MaxSize
    PROVE  IterateTree[t][left][right][idx] = Seen_(Values[t], left - idx, right - idx)
  <1> DEFINE Good(s) == Exact(s) => \A i \in Slot : i + s.weight <= MaxSize =>
                            IterateTree[s][left][right][i] = Seen_(Values[s], left - i, right - i)
             T == {s \in Subtree : Good(s)}
  <1>0. MaxSize \in Nat /\ left \in Nat /\ right \in Nat
    BY OmtAssumption DEF Slot
  <1>1. NODE_NULL \in T
    <2> SUFFICES ASSUME NEW i \in Slot
                 PROVE  IterateTree[NODE_NULL][left][right][i] = Seen_(Values[NODE_NULL], left - i, right - i)
      BY NullIsSubtree
    <2>1. IterateTree[NODE_NULL][left][right][i] = << >>
      BY IterateStep, NullIsSubtree
    <2> DEFINE V == Values[NODE_NULL]
               a == left - i
               c == right - i
    <2>2. V \in Seq(Value) /\ V = << >> /\ Len(V) = 0
      BY NullValues
    <2>3. a \in Int /\ c \in Int
      BY <1>0 DEF Slot
    <2> HIDE DEF V, a, c
    <2>4. Inside(a, 0) = 0 /\ Inside(c, 0) = 0
      BY <2>3 DEF Inside
    <2>5. Seen_(V, a, c) = Part(V, 0, 0)
      BY <2>2, <2>4 DEF Seen_
    <2>6. 0 \in 0 .. Len(V) /\ \A j \in 0 .. Len(V) : Part(V, j, j) = << >>
      <3>1. \A j \in 0 .. Len(V) : Part(V, j, j) = << >>
        BY <2>2, PartEnds
      <3> QED  BY <2>2, <3>1
    <2>7. Seen_(V, a, c) = << >>
      BY <2>5, <2>6
    <2> QED  BY <2>1, <2>7 DEF V, a, c
  <1>2. ASSUME NEW s \in Subtree, s # NODE_NULL, s.left \in T, s.right \in T PROVE s \in T
    <2> SUFFICES ASSUME Exact(s), NEW i \in Slot, i + s.weight <= MaxSize
                 PROVE  IterateTree[s][left][right][i] = Seen_(Values[s], left - i, right - i)
      OBVIOUS
    <2> DEFINE L == s.left
               R == s.right
               x == s.value
               n == s.left.weight
               wr == s.right.weight
               p == Values[L]
               q == Values[R]
               w == Values[s]
               root == i + n
               k == root + 1
               a == left - i
               c == right - i
               l == Seen_(p, a, c)
               r == Seen_(q, a - n - 1, c - n - 1)
               il == IterateTree[L][left][right][i]
               ir == IterateTree[R][left][right][k]
    <2>1. s.weight = n + 1 + wr /\ n \in Nat /\ wr \in Nat
      BY <1>2, ExactSum
    <2>2. Exact(L) /\ Exact(R) /\ x \in Value /\ L \in Subtree /\ R \in Subtree
      BY <1>2, ExactParts, Parts
    <2>3. Good(L) /\ Good(R)
      BY <1>2
    <2>4. p \in Seq(Value) /\ q \in Seq(Value) /\ w = Mid(p, x, q)
      BY <1>2, <2>2, ValuesType, NodeValues
    <2>5. Len(p) = n /\ Len(q) = wr
      BY <2>2, ExactWeight
    <2>6. IterateTree[s][left][right][i] = (IF left < root THEN il ELSE << >>)
             \o (IF left <= root /\ root < right THEN <<x>> ELSE << >>)
             \o (IF k < right THEN ir ELSE << >>)
      BY <1>2, IterateStep, ZenonT(30) DEF IterateAround
    <2>7. /\ i \in Nat /\ i + n <= MaxSize /\ k \in Slot /\ k + wr <= MaxSize /\ root \in Nat /\ k = root + 1
          /\ a \in Int /\ c \in Int /\ a <= c
          /\ left - k = a - n - 1 /\ right - k = c - n - 1
          /\ (left < root <=> a < n) /\ (left <= root <=> a <= n) /\ (root < right <=> n < c)
          /\ (k < right <=> n + 1 < c)
      <3>1. i \in Nat /\ i + (n + 1 + wr) <= MaxSize
        BY <1>0, <2>1 DEF Slot
      <3> HIDE DEF n, wr
      <3> QED  BY <1>0, <2>1, <3>1 DEF Slot
    <2>8. il = l
      BY <2>2, <2>3, <2>7
    <2>9. ir = r
      <3>1. ir = Seen_(q, left - k, right - k)
        <4> HIDE DEF k
        <4> QED  BY <2>2, <2>3, <2>7
      <3> HIDE DEF k, a, c, ir
      <3> QED  BY <2>7, <3>1
    <2> HIDE DEF T, L, R, n, wr, root, k, a, c, il, ir, w, p, q, x
    <2>10. /\ c <= n => Seen_(w, a, c) = l
           /\ a <= n /\ n < c => Seen_(w, a, c) = Mid(l, x, r)
           /\ n < a => Seen_(w, a, c) = r
           /\ l \in Seq(Value) /\ r \in Seq(Value)
           /\ (n <= a => l = << >>) /\ (c <= n + 1 => r = << >>)
      <3>1. x \in Value
        BY <2>2
      <3>2. SeenSplits(p, x, q, Len(p), Mid(p, x, q), Seen_(p, a, c),
                       Seen_(q, a - Len(p) - 1, c - Len(p) - 1), a, c)
        BY <2>4, <2>7, <3>1, SeenMid
      <3>3. SeenSplits(p, x, q, n, w, l, r, a, c)
        BY <2>4, <2>5, <3>2
      <3> HIDE DEF l, r
      <3> QED  BY <3>3 DEF SeenSplits
    <2> HIDE DEF l, r
    <2>11. (IF left < root THEN il ELSE << >>) = l
      <3>1. ~(left < root) => n <= a
        BY <2>1, <2>7
      <3> QED  BY <2>8, <2>10, <3>1
    <2>12. (IF k < right THEN ir ELSE << >>) = r
      <3>1. ~(k < right) => c <= n + 1
        BY <2>1, <2>7
      <3> QED  BY <2>9, <2>10, <3>1
    <2>13. CASE c <= n
      <3>1. ~(root < right) /\ c <= n + 1
        BY <2>1, <2>7, <2>13
      <3>2. IterateTree[s][left][right][i] = l \o << >> \o << >>
        BY <2>6, <2>10, <2>11, <2>12, <3>1
      <3>3. l \o << >> \o << >> = l
        BY <2>10, EmptyParts
      <3> QED  BY <2>10, <2>13, <3>2, <3>3 DEF a, c, w
    <2>14. CASE n < a
      <3>1. ~(left <= root) /\ n <= a
        BY <2>1, <2>7, <2>14
      <3>2. IterateTree[s][left][right][i] = << >> \o << >> \o r
        BY <2>6, <2>10, <2>11, <2>12, <3>1
      <3>3. << >> \o << >> \o r = r
        BY <2>10, EmptyParts
      <3> QED  BY <2>10, <2>14, <3>2, <3>3 DEF a, c, w
    <2>15. CASE a <= n /\ n < c
      <3>1. left <= root /\ root < right
        BY <2>7, <2>15
      <3>2. IterateTree[s][left][right][i] = Mid(l, x, r)
        BY <2>6, <2>11, <2>12, <3>1 DEF Mid
      <3> QED  BY <2>10, <2>15, <3>2 DEF a, c, w
    <2> QED  BY <2>1, <2>7, <2>13, <2>14, <2>15
  <1> HIDE DEF T
  <1>3. Subtree \subseteq T
    BY <1>1, <1>2, TreeInduction
  <1>4. t \in T
    BY <1>3, ExactWeight
  <1> QED  BY <1>4 DEF T

-----------------------------------------------------------------------------
(* What every operation makes of a structure                               *)

Marks(o) == IF o.is_array THEN {} ELSE MarkedSlots[o.root][0]

\* The structure u is one a later call may rely on, and stands for the sequence s with
\* marks in the slots D.
Becomes(u, s, D) ==
    /\ Sound(u) /\ Contents(u) = s /\ (SupportsMarks => ~u.is_array)
    /\ Len(s) <= MaxSize => Marks(u) = D

LEMMA PlainMarks ==
    ASSUME NEW u, Plain(u), Len(Contents(u)) <= MaxSize
    PROVE  Marks(u) = {}
  <1>1. CASE ArrayOf(u)
    BY <1>1, Kinds DEF Marks
  <1>2. CASE TreeOf(u) /\ Clean(u.root)
    <2> DEFINE t == u.root
               z == 0
    <2>1. ~u.is_array /\ t.weight = Len(Contents(u)) /\ Exact(t) /\ ~Marked(t) /\ t.weight \in Nat
      BY <1>2, Kinds, ExactWeight DEF TreeOf, Clean, Marked
    <2>2. Marks(u) = MarkedSlots[t][z] /\ z \in Slot
      BY <2>1, OmtAssumption DEF Marks, Slot
    <2>3. z + t.weight <= MaxSize
      BY <2>1
    <2> HIDE DEF t, z
    <2>4. MarkedSlots[t][z] = {}
      BY <2>1, <2>2, <2>3, NoMarkedSlots
    <2> QED  BY <2>2, <2>4
  <1> QED  BY <1>1, <1>2 DEF Plain

LEMMA PlainBecomes ==
    ASSUME NEW u, Plain(u), NEW s, Contents(u) = s, SupportsMarks => ~u.is_array
    PROVE  Becomes(u, s, {})
  BY PlainIsSound, PlainMarks DEF Becomes

\* The constructors that are given a sequence: create, create_from_sorted_array,
\* create_steal_sorted_array, the right part of split_at, clone and merge.
LEMMA FreshIs ==
    ASSUME NEW c \in Nat, NEW i \in Nat, NEW s \in Seq(Value), Len(s) <= MaxSize
    PROVE  Becomes(Settled(Array(c, i, s)), s, {})
  <1> DEFINE o == Array(c, i, s)
  <1>0. o = Array(c, i, s)
    OBVIOUS
  <1>2. Len(s) \in Nat /\ MaxSize \in Nat
    BY OmtAssumption
  <1> HIDE DEF o
  <1>1. ArrayOf(o) /\ Contents(o) = s
    BY <1>0, ArrayIs
  <1>3. Plain(o) /\ Len(Contents(o)) <= MaxSize + 1
    BY <1>1, <1>2 DEF Plain
  <1>4. Stands(Settled(o), Contents(o), o) /\ (SupportsMarks => ~Settled(o).is_array)
    BY <1>3, SettledIs
  <1>5. Becomes(Settled(o), s, {})
    <2> DEFINE u == Settled(o)
    <2>1. Plain(u) /\ Contents(u) = s /\ (SupportsMarks => ~u.is_array)
      BY <1>1, <1>4 DEF Stands
    <2> HIDE DEF u
    <2>2. Becomes(u, s, {})
      BY <2>1, PlainBecomes
    <2> QED  BY <2>2 DEF u
  <1> QED  BY <1>5 DEF o

\* create_no_array with marks, and clear() of a tree.
LEMMA EmptyTreeIs ==
    ASSUME NEW c \in Nat
    PROVE  Becomes(Tree(c, NODE_NULL, 0), << >>, {})
  <1> DEFINE t == NODE_NULL
             f == 0
  <1>0. Exact(t) /\ Even(t) /\ f \in Nat
    BY NullIsSound
  <1>1. Clean(t) /\ Values[t] = << >>
    BY NullIsSound, NullValues
  <1> HIDE DEF t, f
  <1> DEFINE u == Tree(c, t, f)
  <1>2. TreeMade(u, t)
    BY <1>0, TreeIs
  <1> HIDE DEF u
  <1>3. TreeOf(u) /\ u.root = t /\ Contents(u) = Values[t] /\ ~u.is_array
    BY <1>2 DEF TreeMade
  <1>4. Plain(u) /\ Contents(u) = << >>
    BY <1>1, <1>3 DEF Plain
  <1>5. Becomes(u, << >>, {})
    BY <1>3, <1>4, PlainBecomes
  <1> QED  BY <1>5 DEF u, t, f

LEMMA EmptyArrayIs ==
    ASSUME NEW c \in Nat, ~SupportsMarks
    PROVE  Becomes(Array(c, 0, << >>), << >>, {})
  <1> DEFINE s == << >>
             i == 0
             u == Array(c, i, s)
  <1>1. s \in Seq(Value) /\ i \in Nat
    OBVIOUS
  <1> HIDE DEF s, i
  <1>2. u = Array(c, i, s)
    OBVIOUS
  <1> HIDE DEF u
  <1>2a. ArrayOf(u) /\ Contents(u) = s
    BY <1>1, <1>2, ArrayIs
  <1>3. Plain(u)
    BY <1>2a DEF Plain
  <1>4. Becomes(u, s, {})
    BY <1>2a, <1>3, PlainBecomes
  <1> QED  BY <1>4 DEF u, s, i

LEMMA ClearIs ==
    ASSUME NEW o, Sound(o), SupportsMarks => ~o.is_array
    PROVE  Becomes(ClearOf(o), << >>, {})
  <1>1. CASE ArrayOf(o)
    <2>1. o.is_array /\ o.capacity \in Nat
      BY <1>1, Kinds DEF ArrayOf
    <2>2. ClearOf(o) = Array(o.capacity, 0, << >>)
      BY <2>1 DEF ClearOf
    <2> QED  BY <2>1, <2>2, EmptyArrayIs
  <1>2. CASE TreeOf(o)
    <2>1. ~o.is_array /\ o.capacity \in Nat
      BY <1>2, Kinds DEF TreeOf
    <2>2. ClearOf(o) = Tree(o.capacity, NODE_NULL, 0)
      BY <2>1 DEF ClearOf
    <2> QED  BY <2>1, <2>2, EmptyTreeIs
  <1> QED  BY <1>1, <1>2 DEF Sound

\* An array with other values, and a tree with another root of the same shape.
Refilled(o, s) == [o EXCEPT !.values = s]
ArrayBlock(a, c, i, s) == [is_array |-> a, capacity |-> c, start_idx |-> i, values |-> s]

LEMMA RefilledIs ==
    ASSUME NEW o, ArrayOf(o), NEW s \in Seq(Value)
    PROVE  /\ ArrayOf(Refilled(o, s)) /\ Contents(Refilled(o, s)) = s
           /\ Refilled(o, s).is_array
           /\ Refilled(o, s).start_idx = o.start_idx /\ Refilled(o, s).capacity = o.capacity
  <1> DEFINE yes == TRUE
             c == o.capacity
             i == o.start_idx
             v == o.values
  <1>1. \A x : Array(c, i, x) = ArrayBlock(yes, c, i, x)
    BY DEF Array, ArrayBlock
  <1>2. o = ArrayBlock(yes, c, i, v) /\ c \in Nat /\ i \in Nat
    BY <1>1 DEF ArrayOf
  <1> HIDE DEF yes, c, i, v
  <1>3. Refilled(o, s) = ArrayBlock(yes, c, i, s)
    BY <1>2 DEF Refilled, ArrayBlock
  <1>4. Refilled(o, s) = Array(c, i, s)
    BY <1>1, <1>3
  <1> DEFINE u == Refilled(o, s)
  <1> HIDE DEF u
  <1>5. u = Array(c, i, s)
    BY <1>4 DEF u
  <1>6. ArrayOf(u) /\ u.is_array /\ Contents(u) = s /\ u.capacity = c /\ u.start_idx = i
    BY <1>2, <1>5, ArrayIs, SMTT(20)
  <1> QED  BY <1>6 DEF c, i, u

LEMMA RerootedIs ==
    ASSUME NEW o, TreeOf(o), NEW t, SameShape(t, o.root), Consistent(t),
           NEW D, Len(Values[t]) <= MaxSize => MarkedSlots[t][0] = D
    PROVE  Becomes(Rerooted(o, t), Values[t], D)
  <1> DEFINE c == o.capacity
             r == o.root
             f == o.free_idx
             u == Rerooted(o, t)
  <1>1. o = Tree(c, r, f) /\ c \in Nat /\ f \in Nat /\ Exact(r) /\ Even(r)
    BY DEF TreeOf
  <1>2. Exact(t) /\ Even(t)
    BY <1>1 DEF SameShape
  <1>3. u = Tree(c, t, f)
    <2> HIDE DEF c, r, f
    <2>1. \A x : Rerooted(o, x) = Tree(c, x, f)
      BY <1>1, TreeExcept
    <2> QED  BY <2>1
  <1> HIDE DEF c, r, f, u
  <1>4. TreeMade(Tree(c, t, f), t)
    BY <1>1, <1>2, TreeIs
  <1>5. Becomes(u, Values[t], D)
    BY <1>3, <1>4 DEF Becomes, Marks, Sound, TreeMade
  <1> QED  BY <1>5 DEF u

LEMMA TreeRoot ==
    ASSUME NEW o, Sound(o), ~o.is_array, Len(Contents(o)) <= MaxSize
    PROVE  /\ TreeOf(o) /\ Consistent(o.root) /\ Exact(o.root) /\ Even(o.root)
           /\ Contents(o) = Values[o.root] /\ o.root.weight = Len(Contents(o)) /\ o.root.weight <= MaxSize
           /\ Size(o) = o.root.weight
  BY Kinds DEF Sound, TreeOf

LEMMA ArrayRoot ==
    ASSUME NEW o, Sound(o), o.is_array
    PROVE  ArrayOf(o) /\ o.values = Contents(o) /\ o.values \in Seq(Value)
  BY Kinds DEF Sound, ArrayOf

SetAtOf(o, v, i) ==
    IF o.is_array THEN [o EXCEPT !.values[i + 1] = v]
    ELSE [o EXCEPT !.root = SetAtInternal[@][v][i]]

LEMMA SetAtOfIs ==
    ASSUME NEW o, Plain(o), SupportsMarks => ~o.is_array, Len(Contents(o)) <= MaxSize,
           NEW v \in Value, NEW i \in Nat, i < Len(Contents(o))
    PROVE  Becomes(SetAtOf(o, v, i), Changed(Contents(o), i, v), {})
  <1>a. Sound(o)
    BY PlainIsSound
  <1>0. Contents(o) \in Seq(Value) /\ MaxSize \in Nat /\ i \in Slot
    BY <1>a, SoundSize, OmtAssumption DEF Slot
  <1>1. CASE o.is_array
    <2> DEFINE s == o.values
               w == Changed(s, i, v)
    <2>1. ArrayOf(o) /\ s = Contents(o) /\ s \in Seq(Value)
      BY <1>1, <1>a, ArrayRoot
    <2>2. SetAtOf(o, v, i) = Refilled(o, w)
      BY <1>1 DEF SetAtOf, Refilled, Changed, S!ReplaceAt
    <2> HIDE DEF s
    <2>3. i \in 0 .. Len(s) - 1
      BY <2>1
    <2>4. w \in Seq(Value)
      BY <2>1, <2>3, ChangedType
    <2> HIDE DEF w
    <2>5. ArrayOf(Refilled(o, w)) /\ Contents(Refilled(o, w)) = w /\ Refilled(o, w).is_array
      BY <2>1, <2>4, RefilledIs
    <2> DEFINE u == Refilled(o, w)
    <2>6. Plain(u) /\ Contents(u) = w /\ ~SupportsMarks
      BY <1>1, <2>5 DEF Plain
    <2> HIDE DEF u
    <2>7. Becomes(u, w, {})
      BY <2>6, PlainBecomes
    <2> QED  BY <2>1, <2>2, <2>7 DEF u, w
  <1>2. CASE ~o.is_array
    <2> DEFINE t == o.root
               t2 == SetAtInternal[t][v][i]
    <2>1. TreeOf(o) /\ Consistent(t) /\ Exact(t) /\ Contents(o) = Values[t]
          /\ t.weight = Len(Contents(o)) /\ t.weight <= MaxSize
      BY <1>2, <1>a, TreeRoot
    <2>2. t.weight <= MaxSize + 1 /\ i < t.weight
      <3>1. t.weight \in Nat
        BY <2>1, ExactWeight
      <3> QED  BY <1>0, <2>1, <3>1
    <2>3. SetAtOf(o, v, i) = Rerooted(o, t2)
      BY <1>2 DEF SetAtOf, Rerooted
    <2> HIDE DEF t
    <2>4. SetTo(t2, t, i, v)
      BY <1>0, <2>1, <2>2, SetAtIs
    <2> HIDE DEF t2
    <2>5. SameShape(t2, t) /\ Consistent(t2) /\ Values[t2] = Changed(Values[t], i, v)
      BY <2>1, <2>4 DEF SetTo
    <2>6. ~Marked(t2)
      <3>1. ~Marked(t)
        BY <1>2, Kinds DEF Plain, Clean, Marked, t
      <3> QED  BY <2>4, <3>1 DEF SetTo
    <2>7. MarkedSlots[t2][0] = {}
      <3> DEFINE z == 0
      <3>1. Exact(t2) /\ z \in Slot /\ t2.weight = t.weight /\ t.weight \in Nat
        BY <1>0, <2>1, <2>5, ExactWeight DEF SameShape, Slot
      <3>2. z + t2.weight <= MaxSize
        BY <2>1, <3>1
      <3> HIDE DEF z
      <3>3. MarkedSlots[t2][z] = {}
        BY <2>6, <3>1, <3>2, NoMarkedSlots
      <3> QED  BY <3>3 DEF z
    <2>8. Becomes(Rerooted(o, t2), Values[t2], {})
      BY <2>1, <2>5, <2>7, RerootedIs DEF t
    <2> QED  BY <2>1, <2>3, <2>5, <2>8
  <1> QED  BY <1>1, <1>2

RewriteOf(o) ==
    IF o.is_array THEN [o EXCEPT !.values = [j \in DOMAIN @ |-> Rewrite[@[j]]]]
    ELSE [o EXCEPT !.root = RewriteInternal[@]]

LEMMA RewriteOfIs ==
    ASSUME NEW o, Sound(o), SupportsMarks => ~o.is_array, Len(Contents(o)) <= MaxSize
    PROVE  Becomes(RewriteOf(o), Rewritten(Contents(o)), Marks(o))
  <1>0. Contents(o) \in Seq(Value) /\ MaxSize \in Nat
    BY SoundSize, OmtAssumption
  <1>1. CASE o.is_array
    <2> DEFINE s == o.values
               w == Rewritten(s)
    <2>1. ArrayOf(o) /\ s = Contents(o) /\ s \in Seq(Value)
      BY <1>1, ArrayRoot
    <2>2. RewriteOf(o) = Refilled(o, w)
      BY <1>1 DEF RewriteOf, Refilled, Rewritten
    <2> HIDE DEF s
    <2>4. w \in Seq(Value)
      BY <2>1, RewrittenType
    <2> HIDE DEF w
    <2>5. ArrayOf(Refilled(o, w)) /\ Contents(Refilled(o, w)) = w /\ Refilled(o, w).is_array
      BY <2>1, <2>4, RefilledIs
    <2> DEFINE u == Refilled(o, w)
    <2>6. Plain(u) /\ Contents(u) = w /\ ~SupportsMarks
      BY <1>1, <2>5 DEF Plain
    <2> HIDE DEF u
    <2>7. Becomes(u, w, {}) /\ Marks(o) = {}
      BY <1>1, <2>6, PlainBecomes DEF Marks
    <2> QED  BY <2>1, <2>2, <2>7 DEF u, w
  <1>2. CASE ~o.is_array
    <2> DEFINE t == o.root
               t2 == RewriteInternal[t]
    <2>1. TreeOf(o) /\ Consistent(t) /\ Exact(t) /\ Contents(o) = Values[t]
          /\ t.weight = Len(Contents(o)) /\ t.weight <= MaxSize
      BY <1>2, TreeRoot
    <2>2. t.weight <= MaxSize + 1
      <3>1. t.weight \in Nat
        BY <2>1, ExactWeight
      <3> QED  BY <1>0, <2>1, <3>1
    <2>3. RewriteOf(o) = Rerooted(o, t2)
      BY <1>2 DEF RewriteOf, Rerooted
    <2> HIDE DEF t
    <2>4. RewrittenTree(t2, t)
      BY <2>1, <2>2, RewriteIs
    <2> HIDE DEF t2
    <2>5. SameShape(t2, t) /\ Consistent(t2) /\ Values[t2] = Rewritten(Values[t])
      BY <2>1, <2>4 DEF RewrittenTree
    <2>6. MarkedSlots[t2][0] = MarkedSlots[t][0]
      <3> DEFINE z == 0
      <3>1. z \in Slot /\ z + t.weight <= MaxSize
        <4>1. t.weight \in Nat
          BY <2>1, ExactWeight
        <4> QED  BY <1>0, <2>1, <4>1 DEF Slot
      <3> HIDE DEF z
      <3>2. MarkedSlots[t2][z] = MarkedSlots[t][z]
        BY <2>4, <3>1 DEF RewrittenTree
      <3> QED  BY <3>2 DEF z
    <2>7. Marks(o) = MarkedSlots[t][0]
      BY <1>2 DEF Marks, t
    <2> DEFINE D == Marks(o)
    <2>8. MarkedSlots[t2][0] = D
      BY <2>6, <2>7
    <2> HIDE DEF D
    <2>9. Becomes(Rerooted(o, t2), Values[t2], D)
      BY <2>1, <2>5, <2>8, RerootedIs DEF t
    <2> QED  BY <2>1, <2>3, <2>5, <2>9 DEF D
  <1> QED  BY <1>1, <1>2

LEMMA MarkRangeOfIs ==
    ASSUME NEW o, Sound(o), ~o.is_array, Len(Contents(o)) <= MaxSize,
           NEW left \in Slot, NEW right \in Slot, left < right, right <= Size(o)
    PROVE  Becomes(Rerooted(o, MarkRange[o.root][left][right][0]), Contents(o),
                   Marks(o) \cup (left .. right - 1))
  <1> DEFINE t == o.root
             z == 0
             t2 == MarkRange[t][left][right][z]
  <1>0. MaxSize \in Nat /\ left \in Nat /\ right \in Nat /\ z \in Slot
    BY OmtAssumption DEF Slot
  <1>1. TreeOf(o) /\ Consistent(t) /\ Exact(t) /\ Contents(o) = Values[t]
        /\ t.weight <= MaxSize /\ Size(o) = t.weight
    BY TreeRoot
  <1> HIDE DEF t
  <1>2. t.weight \in Nat /\ (t = NODE_NULL <=> t.weight = 0)
    BY <1>1, ExactWeight, ExactNull
  <1>3. Meets(t, left, right, z)
    BY <1>0, <1>1, <1>2 DEF Meets
  <1>3a. Span(left, right, z, t.weight) = left .. right - 1
    <2>1. right <= z + t.weight
      BY <1>1, <1>2
    <2> QED  BY <1>0, <1>2, <2>1 DEF Span
  <1>3b. Marks(o) = MarkedSlots[t][z]
    BY DEF Marks, t, z
  <1> HIDE DEF z
  <1>4. MarkedTree(t2, t, left, right, z)
    BY <1>0, <1>1, <1>3, MarkRangeIs
  <1> HIDE DEF t2
  <1>5. SameShape(t2, t) /\ Consistent(t2) /\ Values[t2] = Values[t]
    BY <1>4 DEF MarkedTree
  <1> DEFINE D == Marks(o) \cup (left .. right - 1)
  <1>6. MarkedSlots[t2][0] = D
    BY <1>3a, <1>3b, <1>4 DEF MarkedTree, z
  <1> HIDE DEF D
  <1>7. Becomes(Rerooted(o, t2), Values[t2], D)
    BY <1>1, <1>5, <1>6, RerootedIs DEF t
  <1> QED  BY <1>1, <1>5, <1>7 DEF t2, t, z, D

LEMMA DeleteMarkedOfIs ==
    ASSUME NEW o, Sound(o), ~o.is_array, Len(Contents(o)) <= MaxSize
    PROVE  Becomes(DeleteMarkedOf(o), Sequences_!Without(Contents(o), MarkedSlots[o.root][0]), {})
  <1> DEFINE u == DeleteMarkedOf(o)
             s == Sequences_!Without(Contents(o), MarkedSlots[o.root][0])
  <1>1. TreeOf(o) /\ Consistent(o.root)
    BY TreeRoot
  <1>2. Plain(u) /\ (SupportsMarks => ~u.is_array) /\ Contents(u) = s
    BY <1>1, DeleteMarkedIs
  <1> HIDE DEF u, s
  <1>3. Becomes(u, s, {})
    BY <1>2, PlainBecomes
  <1> QED  BY <1>3 DEF u, s

LEMMA SplitLeftIs ==
    ASSUME NEW o, Plain(o), Len(Contents(o)) <= MaxSize, NEW i \in Nat, i <= Len(Contents(o))
    PROVE  Becomes(SplitLeft(o, i), Part(Contents(o), 0, i), {})
  <1> DEFINE V == Contents(o)
             b == ConvertToArray(o)
             s == Part(V, 0, i)
             a == Refilled(b, s)
             r == MaybeResizeArray(a, i)
             u == Settled(r)
  <1>0. V \in Seq(Value) /\ MaxSize \in Nat /\ Len(V) \in Nat
    BY PlainIsSound, SoundSize, OmtAssumption
  <1>1. ArrayOf(b) /\ Contents(b) = V
    BY PlainIsSound, ToArray
  <1>2. b.values = V
    BY <1>1, Kinds
  <1>3. SplitLeft(o, i) = u
    <2>1. [b EXCEPT !.values = SubSeq(@, 1, i)] = a
      <3> HIDE DEF b, V
      <3>1. 0 + 1 = 1
        OBVIOUS
      <3> QED  BY <1>2, <3>1 DEF Refilled, Part
    <2> QED  BY <2>1 DEF SplitLeft
  <1>3a. i <= Len(V)
    OBVIOUS
  <1> HIDE DEF V, b
  <1>4. s \in Seq(Value) /\ Len(s) = i
    <2> DEFINE z == 0
    <2>1. z \in Nat /\ z <= i
      OBVIOUS
    <2> HIDE DEF z
    <2>2. Part(V, z, i) \in Seq(Value) /\ PartIs(Part(V, z, i), V, z, i)
      BY <1>0, <1>3a, <2>1, PartType
    <2>3. z = 0
      BY DEF z
    <2> HIDE DEF s
    <2>4. s = Part(V, z, i)
      BY <2>3 DEF s
    <2> QED  BY <2>2, <2>3, <2>4 DEF PartIs
  <1> HIDE DEF s
  <1>5. ArrayOf(a) /\ Contents(a) = s
    BY <1>1, <1>4, RefilledIs
  <1> HIDE DEF a
  <1>6. ArrayOf(r) /\ Contents(r) = s
    BY <1>5, ResizedIs
  <1> HIDE DEF r
  <1>7. Plain(r) /\ Len(Contents(r)) <= MaxSize + 1
    BY <1>0, <1>3a, <1>4, <1>6 DEF Plain, V
  <1>8. Stands(Settled(r), Contents(r), r) /\ (SupportsMarks => ~Settled(r).is_array)
    BY <1>7, SettledIs
  <1>9. Plain(u) /\ Contents(u) = s /\ (SupportsMarks => ~u.is_array)
    BY <1>6, <1>8 DEF Stands
  <1> HIDE DEF u
  <1>10. Becomes(u, s, {})
    BY <1>9, PlainBecomes
  <1> QED  BY <1>3, <1>10 DEF u, s, V

\* Sorted sequences stay sorted when parts are taken or left out.
LEMMA SortedPart ==
    ASSUME NEW V \in Seq(Value), Sorted(V), NEW i \in Nat, NEW j \in Nat, i <= j, j <= Len(V)
    PROVE  Sorted(Part(V, i, j))
  <1> DEFINE w == Part(V, i, j)
  <1>1. w \in Seq(Value) /\ PartIs(w, V, i, j)
    BY PartType
  <1> HIDE DEF w
  <1>2. Len(w) = j - i /\ \A k \in 1 .. j - i : w[k] = V[i + k]
    BY <1>1 DEF PartIs
  <1>3. ASSUME NEW k \in 1 .. Len(w), NEW m \in 1 .. Len(w), k < m PROVE w[k] <= w[m]
    <2> DEFINE a == i + k
               c == i + m
    <2>1. a \in 1 .. Len(V) /\ c \in 1 .. Len(V) /\ a < c /\ w[k] = V[a] /\ w[m] = V[c]
      BY <1>2, <1>3
    <2> HIDE DEF a, c
    <2> QED  BY <2>1 DEF Sorted
  <1> QED  BY <1>3 DEF Sorted, w

LEMMA SortedCut ==
    ASSUME NEW V \in Seq(Value), Sorted(V), NEW i \in 0 .. Len(V) - 1
    PROVE  Sorted(Cut(V, i))
  <1> DEFINE w == Cut(V, i)
  <1>1. w \in Seq(Value) /\ CutIs(w, V, i)
    BY CutType
  <1> HIDE DEF w
  <1>2. Len(w) = Len(V) - 1 /\ \A k \in 1 .. Len(V) - 1 : w[k] = IF k <= i THEN V[k] ELSE V[k + 1]
    BY <1>1 DEF CutIs
  <1>3. ASSUME NEW k \in 1 .. Len(w), NEW m \in 1 .. Len(w), k < m PROVE w[k] <= w[m]
    <2> DEFINE a == IF k <= i THEN k ELSE k + 1
               c == IF m <= i THEN m ELSE m + 1
    <2>1. a \in 1 .. Len(V) /\ c \in 1 .. Len(V) /\ a < c
      BY <1>2, <1>3
    <2>2. w[k] = V[a] /\ w[m] = V[c]
      BY <1>2
    <2> HIDE DEF a, c
    <2> QED  BY <2>1, <2>2 DEF Sorted
  <1> QED  BY <1>3 DEF Sorted, w

LEMMA SortedPut ==
    ASSUME NEW V \in Seq(Value), Sorted(V), NEW k \in Value, NEW z, ZeroIs(z, V, k)
    PROVE  Sorted(Put(V, z.idx, k))
  <1> DEFINE p == z.idx
             w == Put(V, p, k)
             n == Len(V)
  <1>1. p \in 0 .. Len(V) /\ \A i \in 1 .. Len(V) : V[i] < k <=> i <= p
    BY DEF ZeroIs
  <1>2. n \in Nat /\ k \in Int /\ \A i \in 1 .. n : V[i] \in Int
    BY Integers_
  <1> HIDE DEF p
  <1>3. w \in Seq(Value) /\ PutIs(w, V, p, k)
    BY <1>1, PutType
  <1> HIDE DEF w
  <1>4. Len(w) = n + 1 /\ \A j \in 1 .. n + 1 :
           w[j] = IF j <= p THEN V[j] ELSE IF j = p + 1 THEN k ELSE V[j - 1]
    BY <1>3 DEF PutIs
  <1>5. p \in 0 .. n /\ \A i \in 1 .. n : V[i] < k <=> i <= p
    BY <1>1
  <1>5a. \A i, j \in 1 .. n : i < j => V[i] <= V[j]
    BY DEF Sorted
  <1> HIDE DEF n
  <1>6. ASSUME NEW i \in 1 .. n + 1, NEW j \in 1 .. n + 1, i < j PROVE w[i] <= w[j]
    <2>1. /\ i <= p => i \in 1 .. n /\ w[i] = V[i]
          /\ i = p + 1 => w[i] = k
          /\ i > p + 1 => i - 1 \in 1 .. n /\ w[i] = V[i - 1]
      BY <1>2, <1>4, <1>5
    <2>2. /\ j <= p => j \in 1 .. n /\ w[j] = V[j]
          /\ j = p + 1 => w[j] = k
          /\ j > p + 1 => j - 1 \in 1 .. n /\ w[j] = V[j - 1]
      BY <1>2, <1>4, <1>5
    <2>3. CASE i <= p
      <3>1. V[i] < k /\ V[i] \in Int
        BY <1>2, <1>5, <2>1, <2>3
      <3>2. CASE j <= p
        BY <1>5a, <1>6, <2>1, <2>2, <2>3, <3>2
      <3>3. CASE j = p + 1
        BY <1>2, <2>1, <2>2, <2>3, <3>1, <3>3
      <3>4. CASE j > p + 1
        <4> DEFINE y == j - 1
        <4>1. y \in 1 .. n /\ w[j] = V[y] /\ ~(y <= p)
          BY <1>2, <1>5, <2>2, <3>4
        <4> HIDE DEF y
        <4>2. ~(V[y] < k) /\ V[y] \in Int
          BY <1>2, <1>5, <4>1
        <4> QED  BY <1>2, <2>1, <2>3, <3>1, <4>1, <4>2
      <3> QED  BY <1>2, <1>5, <3>2, <3>3, <3>4
    <2>4. CASE i = p + 1
      <3> DEFINE y == j - 1
      <3>1. y \in 1 .. n /\ w[j] = V[y] /\ ~(y <= p)
        BY <1>2, <1>5, <1>6, <2>2, <2>4
      <3> HIDE DEF y
      <3>2. ~(V[y] < k) /\ V[y] \in Int
        BY <1>2, <1>5, <3>1
      <3> QED  BY <1>2, <2>1, <2>4, <3>1, <3>2
    <2>5. CASE i > p + 1
      <3> DEFINE x == i - 1
                 y == j - 1
      <3>1. x \in 1 .. n /\ y \in 1 .. n /\ x < y /\ w[i] = V[x] /\ w[j] = V[y]
        BY <1>2, <1>5, <1>6, <2>1, <2>2, <2>5
      <3> HIDE DEF x, y
      <3> QED  BY <1>5a, <3>1
    <2> QED  BY <1>2, <1>5, <2>3, <2>4, <2>5
  <1> QED  BY <1>4, <1>6 DEF Sorted, w, p

LEMMA SortedNone == Sorted(<< >>)
  BY DEF Sorted

LEMMA SortedWithout ==
    ASSUME NEW V \in Seq(Value), Sorted(V), NEW D
    PROVE  Sorted(Sequences_!Without(V, D))
  <1> DEFINE N == Len(V)
             f == Kept(V, D)
             Good(n) == n <= N => /\ f[n] \in Seq(Value) /\ Sorted(f[n])
                                  /\ \A i \in 1 .. Len(f[n]) : \E m \in 1 .. n : f[n][i] = V[m]
             T == {n \in Nat : Good(n)}
  <1>0. N \in Nat
    OBVIOUS
  <1>1. /\ Sequences_!Without(V, D) = f[N]
        /\ f[0] = << >>
        /\ \A n \in 1 .. N : (n - 1 \in D => f[n] = f[n - 1])
                             /\ (n - 1 \notin D => f[n] = Append(f[n - 1], V[n]))
    BY <1>0, KeptEquation DEF KeptGoes
  <1> HIDE DEF f, N
  <1>2. 0 \in T
    <2>1. f[0] = << >>
      BY <1>1
    <2>2. f[0] \in Seq(Value) /\ Len(f[0]) = 0
      BY <2>1
    <2>3. Sorted(f[0])
      BY <2>1, SortedNone
    <2>4. \A i \in 1 .. Len(f[0]) : FALSE
      BY <2>2
    <2> QED  BY <2>2, <2>3, <2>4
  <1>3. ASSUME NEW n \in T PROVE n + 1 \in T
    <2> DEFINE k == n + 1
    <2>1. n \in Nat /\ Good(n) /\ k \in Nat
      BY <1>3
    <2> HIDE DEF T
    <2>2. SUFFICES ASSUME k <= N
                   PROVE  /\ f[k] \in Seq(Value) /\ Sorted(f[k])
                          /\ \A i \in 1 .. Len(f[k]) : \E m \in 1 .. k : f[k][i] = V[m]
      BY <2>1 DEF T
    <2>3. /\ f[n] \in Seq(Value) /\ Sorted(f[n])
          /\ \A i \in 1 .. Len(f[n]) : \E m \in 1 .. n : f[n][i] = V[m]
      <3>1. n <= N
        BY <1>0, <2>1, <2>2
      <3> QED  BY <2>1, <3>1
    <2> HIDE DEF Good
    <2>4. k \in 1 .. N /\ k - 1 = n
      BY <1>0, <2>1, <2>2
    <2>5. CASE n \in D
      <3>1. f[k] = f[n]
        BY <1>1, <2>4, <2>5
      <3>2. \A m \in 1 .. n : m \in 1 .. k
        BY <2>1
      <3> QED  BY <2>3, <3>1, <3>2
    <2>6. CASE n \notin D
      <3> DEFINE s == f[n]
                 x == V[k]
                 w == Append(s, x)
      <3>1. f[k] = w
        BY <1>1, <2>4, <2>6
      <3>2. x \in Value /\ x \in Int
        BY <2>4, Integers_ DEF N
      <3> HIDE DEF s, x
      <3>3. /\ w \in Seq(Value) /\ Len(w) = Len(s) + 1 /\ Len(s) \in Nat
            /\ \A i \in 1 .. Len(s) + 1 : w[i] = IF i <= Len(s) THEN s[i] ELSE x
        <4>1. s \in Seq(Value)
          BY <2>3 DEF s
        <4> QED  BY <3>2, <4>1
      <3> HIDE DEF w
      <3>4. ASSUME NEW i \in 1 .. Len(w) PROVE \E m \in 1 .. k : w[i] = V[m]
        <4>1. CASE i <= Len(s)
          <5>1. i \in 1 .. Len(s) /\ w[i] = s[i]
            BY <3>3, <4>1
          <5>2. PICK m \in 1 .. n : s[i] = V[m]
            BY <2>3, <5>1 DEF s
          <5>3. m \in 1 .. k
            BY <2>1
          <5> QED  BY <5>1, <5>2, <5>3
        <4>2. CASE ~(i <= Len(s))
          <5>1. w[i] = x
            BY <3>3, <4>2
          <5>2. k \in 1 .. k
            BY <2>4
          <5> QED  BY <5>1, <5>2 DEF x
        <4> QED  BY <4>1, <4>2
      <3>5. ASSUME NEW i \in 1 .. Len(w), NEW j \in 1 .. Len(w), i < j PROVE w[i] <= w[j]
        <4>1. i \in 1 .. Len(s) /\ w[i] = s[i]
          BY <3>3, <3>5
        <4>2. CASE j <= Len(s)
          <5>1. j \in 1 .. Len(s) /\ w[j] = s[j]
            BY <3>3, <4>2
          <5>2. \A a, c \in 1 .. Len(s) : a < c => s[a] <= s[c]
            BY <2>3 DEF Sorted, s
          <5> QED  BY <3>5, <4>1, <5>1, <5>2
        <4>3. CASE ~(j <= Len(s))
          <5>1. w[j] = x
            BY <3>3, <4>3
          <5>2. PICK m \in 1 .. n : s[i] = V[m]
            BY <2>3, <4>1 DEF s
          <5>3. m \in 1 .. Len(V) /\ k \in 1 .. Len(V) /\ m < k
            BY <1>0, <2>1, <2>4 DEF N
          <5>4. V[m] <= V[k]
            BY <5>3 DEF Sorted
          <5> QED  BY <4>1, <5>1, <5>2, <5>4 DEF x
        <4> QED  BY <4>2, <4>3
      <3>6. Sorted(w)
        BY <3>5 DEF Sorted
      <3> QED  BY <3>1, <3>3, <3>4, <3>6
    <2> QED  BY <2>5, <2>6
  <1>4. T = Nat
    <2>1. T \subseteq Nat
      OBVIOUS
    <2> HIDE DEF T
    <2> QED  BY <1>2, <1>3, <2>1, Induct
  <1>5. N \in T
    <2> HIDE DEF T
    <2> QED  BY <1>0, <1>4
  <1>6. Sorted(f[N])
    <2>1. Good(N)
      BY <1>5
    <2> QED  BY <1>0, <2>1
  <1> QED  BY <1>1, <1>6

LEMMA SortedRewritten ==
    ASSUME NEW V \in Seq(Value), Sorted(V), use \in Uses, Ordered
    PROVE  Sorted(Rewritten(V))
  <1>1. \A a, b \in Value : a <= b => Rewrite[a] <= Rewrite[b]
    BY OmtAssumption DEF Ordered
  <1>2. Len(Rewritten(V)) = Len(V) /\ \A k \in 1 .. Len(V) : Rewritten(V)[k] = Rewrite[V[k]] /\ V[k] \in Value
    BY RewrittenType
  <1>3. ASSUME NEW i \in 1 .. Len(V), NEW j \in 1 .. Len(V), i < j PROVE Rewritten(V)[i] <= Rewritten(V)[j]
    <2>1. V[i] <= V[j]
      BY <1>3 DEF Sorted
    <2> QED  BY <1>1, <1>2, <2>1
  <1> QED  BY <1>2, <1>3 DEF Sorted

-----------------------------------------------------------------------------
(* The sequences the structures stand for                                  *)

\* The mapping of ImplementsSequence, and its change at one handle.
Contained == [n \in Handle |-> IF Created(n) THEN Contents(omt[n]) ELSE Absent]
MarksHeld == [n \in Handle |-> IF Created(n) /\ ~omt[n].is_array
                               THEN MarkedSlots[omt[n].root][0] ELSE {}]
Maps(n, s, D) ==
    /\ Contained' = [Contained EXCEPT ![n] = s]
    /\ MarksHeld' = [MarksHeld EXCEPT ![n] = D]
    /\ use' = use
\* The step is one of OmtSeq, or leaves the sequences and the marks alone.
Explained ==
    \/ Sequences_!SeqNext
    \/ Contained' = Contained /\ MarksHeld' = MarksHeld /\ use' = use

\* What each call has to do to the sequences to be a step of OmtSeq.
LEMMA SeqBecomes ==
    ASSUME NEW x \in Handle, NEW s, Maps(x, s, {})
    PROVE  Sequences_!Becomes(x, s)
  BY DEF Sequences_!Becomes, Maps, Contained, MarksHeld

LEMMA SeqCreates ==
    ASSUME NEW x \in Handle, Contained[x] = Absent,
           NEW s \in Seq(use.values), Len(s) <= use.max, use.max \in Nat, use.ordered => Sorted(s),
           Maps(x, s, {})
    PROVE  Sequences_!SeqNext
  <1>1. Len(s) \in 0 .. use.max /\ s \in [1 .. Len(s) -> use.values]
    OBVIOUS
  <1>2. Sequences_!Legal(s)
    BY DEF Sequences_!Legal, Sorted
  <1>3. ~Sequences_!Created(x)
    BY DEF Sequences_!Created, Contained
  <1>4. Sequences_!SeqCreate(x)
    BY <1>1, <1>2, <1>3, SeqBecomes DEF Sequences_!SeqCreate
  <1> QED  BY <1>4 DEF Sequences_!SeqNext

\* Calls for a slot: the slot is one of those SeqNext lets be chosen.
LEMMA SeqInserts ==
    ASSUME NEW x \in Handle, NEW V, Contained[x] = V, V # Absent, MarksHeld[x] = {}, Len(V) \in Nat,
           NEW v \in use.values, NEW i \in Nat, i <= Len(V), Maps(x, Put(V, i, v), {})
    PROVE  Sequences_!SeqNext
  <1>1. Put(V, i, v) = SubSeq(V, 1, i) \o <<v>> \o SubSeq(V, i + 1, Len(V))
    <2> DEFINE j == i + 1
    <2>1. j - 1 = i
      OBVIOUS
    <2> HIDE DEF j
    <2>2. Put(V, i, v) = SubSeq(V, 1, j - 1) \o <<v>> \o SubSeq(V, j, Len(V))
      BY Zenon DEF Put, S!InsertAt, j
    <2> QED  BY <2>1, <2>2, Zenon DEF j
  <1>2. i \in 0 .. Len(V)
    OBVIOUS
  <1>4. Sequences_!SeqInsertAt(x, v, i)
    BY <1>1, <1>2
       DEF Sequences_!SeqInsertAt, Sequences_!Editable, Sequences_!Created, Sequences_!Before, Sequences_!From,
           Sequences_!Becomes, Maps, Contained, MarksHeld
  <1> QED  BY <1>2, <1>4 DEF Sequences_!SeqNext, Sequences_!Created, Contained

LEMMA SeqSets ==
    ASSUME NEW x \in Handle, NEW V, Contained[x] = V, V # Absent, MarksHeld[x] = {}, Len(V) \in Nat,
           NEW v \in use.values, NEW i \in Nat, i < Len(V), Maps(x, Changed(V, i, v), {})
    PROVE  Sequences_!SeqNext
  <1>1. i \in 0 .. Len(V) /\ i \in 0 .. Len(V) - 1
    OBVIOUS
  <1> DEFINE s == Changed(V, i, v)
  <1>2. s = [V EXCEPT ![i + 1] = v]
    BY DEF Changed, S!ReplaceAt
  <1>4. Sequences_!SeqSetAt(x, v, i)
    BY <1>1, <1>2
       DEF Sequences_!SeqSetAt, Sequences_!Editable, Sequences_!Created, Sequences_!Slots,
           Sequences_!Becomes, Maps, Contained, MarksHeld
  <1> QED  BY <1>1, <1>4 DEF Sequences_!SeqNext, Sequences_!Created, Contained

LEMMA SeqDeletes ==
    ASSUME NEW x \in Handle, NEW V, Contained[x] = V, V # Absent, MarksHeld[x] = {}, Len(V) \in Nat,
           NEW i \in Nat, i < Len(V), Maps(x, Cut(V, i), {})
    PROVE  Sequences_!SeqNext
  <1>1. i \in 0 .. Len(V) /\ i \in 0 .. Len(V) - 1
    OBVIOUS
  <1> DEFINE s == Cut(V, i)
  <1>2. s = SubSeq(V, 1, i) \o SubSeq(V, i + 1 + 1, Len(V))
    <2> DEFINE j == i + 1
    <2>1. j - 1 = i
      OBVIOUS
    <2> HIDE DEF j
    <2>2. s = SubSeq(V, 1, j - 1) \o SubSeq(V, j + 1, Len(V))
      BY Zenon DEF Cut, S!RemoveAt, j
    <2> QED  BY <2>1, <2>2, Zenon DEF j
  <1>4. Sequences_!SeqDeleteAt(x, i)
    BY <1>1, <1>2
       DEF Sequences_!SeqDeleteAt, Sequences_!Editable, Sequences_!Created, Sequences_!Slots,
           Sequences_!Before, Sequences_!From, Sequences_!Becomes, Maps, Contained, MarksHeld
  <1> QED  BY <1>1, <1>4 DEF Sequences_!SeqNext, Sequences_!Created, Contained

LEMMA SeqMarks ==
    ASSUME NEW x \in Handle, NEW V, Contained[x] = V, V # Absent, Len(V) \in Nat,
           NEW left \in Nat, NEW right \in Nat, left < right, right <= Len(V),
           Maps(x, V, MarksHeld[x] \cup (left .. right - 1))
    PROVE  Sequences_!SeqNext
  <1>1. right \in 0 .. Len(V) /\ left \in 0 .. right - 1
    OBVIOUS
  <1>2. Contained' = Contained /\ use' = use
        /\ MarksHeld' = [MarksHeld EXCEPT ![x] = MarksHeld[x] \cup (left .. right - 1)]
    BY DEF Maps, Contained
  <1>3. Sequences_!SeqMarkRange(x, left, right)
    BY <1>2 DEF Sequences_!SeqMarkRange, Sequences_!Created, Contained, MarksHeld
  <1> QED  BY <1>1, <1>3 DEF Sequences_!SeqNext, Sequences_!Created, Contained

\* Calls for a whole sequence.
LEMMA SeqOthers ==
    ASSUME NEW x \in Handle, NEW V, Contained[x] = V, V # Absent
    PROVE  /\ Maps(x, << >>, {}) => Sequences_!SeqNext
           /\ Maps(x, Absent, {}) => Sequences_!SeqNext
           /\ Maps(x, Rewritten(V), MarksHeld[x]) => Sequences_!SeqNext
           /\ Maps(x, Sequences_!Without(V, MarksHeld[x]), {}) => Sequences_!SeqNext
  <1>1. Sequences_!Created(x)
    BY DEF Sequences_!Created, Contained
  <1>2. ASSUME Maps(x, << >>, {}) PROVE Sequences_!SeqNext
    <2>1. Sequences_!SeqClear(x)
      BY <1>1, <1>2, SeqBecomes DEF Sequences_!SeqClear
    <2> QED  BY <2>1 DEF Sequences_!SeqNext
  <1>3. ASSUME Maps(x, Absent, {}) PROVE Sequences_!SeqNext
    <2>1. Sequences_!SeqDestroy(x)
      BY <1>1, <1>3, SeqBecomes DEF Sequences_!SeqDestroy
    <2> QED  BY <2>1 DEF Sequences_!SeqNext
  <1>4. ASSUME Maps(x, Rewritten(V), MarksHeld[x]) PROVE Sequences_!SeqNext
    <2>1. MarksHeld' = MarksHeld /\ use' = use /\ Contained' = [Contained EXCEPT ![x] = Rewritten(V)]
      BY <1>4 DEF Maps, MarksHeld
    <2>2. Sequences_!SeqIteratePtr(x)
      BY <1>1, <2>1 DEF Sequences_!SeqIteratePtr, Rewritten, Contained, MarksHeld
    <2> QED  BY <2>2 DEF Sequences_!SeqNext
  <1>5. ASSUME Maps(x, Sequences_!Without(V, MarksHeld[x]), {}) PROVE Sequences_!SeqNext
    <2>2. Sequences_!SeqDeleteAllMarked(x)
      BY <1>1, <1>5 DEF Sequences_!SeqDeleteAllMarked, Sequences_!Becomes, Maps, Contained, MarksHeld
    <2> QED  BY <2>2 DEF Sequences_!SeqNext
  <1> QED  BY <1>2, <1>3, <1>4, <1>5

\* The calls that combine objects.
LEMMA SeqClones ==
    ASSUME NEW t \in Handle, NEW x \in Handle, Contained[t] = Absent, Contained[x] # Absent,
           Maps(t, Contained[x], {})
    PROVE  Sequences_!SeqClone(t, x)
  BY DEF Sequences_!SeqClone, Sequences_!Created, Sequences_!Becomes, Maps, Contained, MarksHeld

LEMMA SeqSplits ==
    ASSUME NEW x \in Handle, NEW n \in Handle, NEW i \in Nat, NEW V, Contained[x] = V, V # Absent,
           Len(V) \in Nat, MarksHeld[x] = {}, Contained[n] = Absent, i <= Len(V),
           Contained' = [Contained EXCEPT ![x] = SubSeq(V, 1, i), ![n] = SubSeq(V, i + 1, Len(V))],
           MarksHeld' = MarksHeld, use' = use
    PROVE  Sequences_!SeqSplitAt(x, n, i)
  <1>1. i \in 0 .. Len(V)
    OBVIOUS
  <1> QED  BY <1>1 DEF Sequences_!SeqSplitAt, Sequences_!Editable, Sequences_!Created,
                       Sequences_!Before, Sequences_!From, Contained, MarksHeld

LEMMA SeqMerges ==
    ASSUME NEW t \in Handle, NEW l \in Handle, NEW r \in Handle, l # r,
           Contained[t] = Absent, Contained[l] # Absent, Contained[r] # Absent,
           Contained' = [Contained EXCEPT ![t] = Contained[l] \o Contained[r], ![l] = Absent, ![r] = Absent],
           MarksHeld' = [MarksHeld EXCEPT ![l] = {}, ![r] = {}], use' = use
    PROVE  Sequences_!SeqMerge(t, l, r)
  BY DEF Sequences_!SeqMerge, Sequences_!Created, Contained, MarksHeld

LEMMA SeqCombines ==
    ASSUME NEW x \in Handle, NEW g \in Handle
    PROVE  /\ Sequences_!SeqClone(x, g) => Sequences_!SeqNext
           /\ \A i \in Nat : Contained[x] # Absent /\ i <= Len(Contained[x]) /\ Len(Contained[x]) \in Nat
                             /\ Sequences_!SeqSplitAt(x, g, i) => Sequences_!SeqNext
           /\ \A r \in Handle : Sequences_!SeqMerge(x, g, r) => Sequences_!SeqNext
  <1>1. Sequences_!SeqClone(x, g) => Sequences_!SeqNext
    BY DEF Sequences_!SeqNext
  <1>2. ASSUME NEW i \in Nat, Contained[x] # Absent, i <= Len(Contained[x]), Len(Contained[x]) \in Nat,
               Sequences_!SeqSplitAt(x, g, i)
        PROVE  Sequences_!SeqNext
    <2>1. i \in 0 .. Len(Contained[x])
      BY <1>2
    <2> QED  BY <1>2, <2>1 DEF Sequences_!SeqNext, Sequences_!Created, Contained
  <1>3. ASSUME NEW r \in Handle, Sequences_!SeqMerge(x, g, r) PROVE Sequences_!SeqNext
    BY <1>3 DEF Sequences_!SeqNext
  <1> QED  BY <1>1, <1>2, <1>3

-----------------------------------------------------------------------------
(* The invariant                                                           *)

Held(o) ==
    /\ Sound(o)
    /\ SupportsMarks => ~o.is_array
    /\ Size(o) <= use.max
    /\ Ordered => Sorted(Contents(o))

IInv ==
    /\ omt = [n \in Handle |-> omt[n]]
    /\ aborted \in BOOLEAN
    /\ use \in Uses
    /\ \A n \in Handle : Created(n) => Held(omt[n])

LEMMA UseTypes ==
    ASSUME use \in Uses
    PROVE  /\ use.max \in Nat /\ use.max <= MaxSize /\ MaxSize \in Nat
           /\ use.values \subseteq Value /\ SupportsMarks \in BOOLEAN /\ Ordered \in BOOLEAN
  <1>1. use \in [marks : BOOLEAN, ordered : BOOLEAN, max : 0 .. MaxSize, values : SUBSET Value] /\ MaxSize \in Nat
    BY OmtAssumption
  <1>2. use.marks \in BOOLEAN /\ use.ordered \in BOOLEAN
    BY <1>1, Zenon
  <1>3. use.max \in Nat /\ use.max <= MaxSize /\ use.values \subseteq Value
    BY <1>1
  <1> QED  BY <1>1, <1>2, <1>3 DEF SupportsMarks, Ordered

LEMMA HeldIs ==
    ASSUME NEW o, Held(o), use \in Uses
    PROVE  /\ Sound(o) /\ (SupportsMarks => ~o.is_array)
           /\ Contents(o) \in Seq(Value) /\ Size(o) = Len(Contents(o)) /\ Len(Contents(o)) \in Nat
           /\ Len(Contents(o)) <= MaxSize /\ Len(Contents(o)) <= use.max
           /\ Ordered => Sorted(Contents(o))
  <1>1. Sound(o) /\ Size(o) <= use.max
    BY DEF Held
  <1>2. Contents(o) \in Seq(Value) /\ Size(o) = Len(Contents(o)) /\ Size(o) \in Nat
    BY <1>1, SoundSize
  <1>3. Len(Contents(o)) <= MaxSize
    BY <1>1, <1>2, UseTypes
  <1> QED  BY <1>1, <1>2, <1>3 DEF Held

\* find_zero, find and the reads answer for the sequence, whatever the representation.
LEMMA LookupsOf ==
    ASSUME NEW o, Held(o), use \in Uses, Ordered, NEW k \in Value
    PROVE  Looked(Contents(o), FindZero(o, k), FindPlus(o, k), FindMinus(o, k), k)
  <1> DEFINE V == Contents(o)
  <1>1. Sound(o) /\ V \in Seq(Value) /\ Len(V) <= MaxSize /\ Sorted(V)
    BY HeldIs
  <1>2. CASE o.is_array
    <2>1. o.values = V
      BY <1>1, <1>2, ArrayRoot
    <2> HIDE DEF V
    <2>2. FindZero(o, k) = FindZeroArray(V, k) /\ FindPlus(o, k) = FindPlusArray(V, k)
          /\ FindMinus(o, k) = FindMinusArray(V, k)
      BY <1>2, <2>1 DEF FindZero, FindPlus, FindMinus
    <2>3. ZeroIs(FindZeroArray(V, k), V, k) /\ PlusIs(FindPlusArray(V, k), V, k)
          /\ MinusIs(FindMinusArray(V, k), V, k)
      BY <1>1, FindZeroArrayIs, FindPlusArrayIs, FindMinusArrayIs
    <2> QED  BY <2>2, <2>3 DEF Looked, V
  <1>3. CASE ~o.is_array
    <2>1. Exact(o.root) /\ V = Values[o.root]
      BY <1>1, <1>3, TreeRoot
    <2>2. FindZero(o, k) = FindZeroTree[o.root][k] /\ FindPlus(o, k) = FindPlusTree[o.root][k]
          /\ FindMinus(o, k) = FindMinusTree[o.root][k]
      BY <1>3 DEF FindZero, FindPlus, FindMinus
    <2> HIDE DEF V
    <2>3. Sorted(Values[o.root])
      BY <1>1, <2>1
    <2>4. Looked(Values[o.root], FindZeroTree[o.root][k], FindPlusTree[o.root][k], FindMinusTree[o.root][k], k)
      BY <2>1, <2>3, FindTreeIs
    <2> QED  BY <2>1, <2>2, <2>4 DEF V
  <1> QED  BY <1>2, <1>3

LEMMA FetchOf ==
    ASSUME NEW o, Held(o), use \in Uses, NEW i \in Nat, i < Len(Contents(o))
    PROVE  Fetch(o, i) = Contents(o)[i + 1]
  <1> DEFINE V == Contents(o)
  <1>1. Sound(o) /\ V \in Seq(Value) /\ Len(V) <= MaxSize /\ Len(V) \in Nat /\ MaxSize \in Nat
    BY HeldIs, UseTypes
  <1>2. CASE o.is_array
    BY <1>1, <1>2, ArrayRoot DEF Fetch
  <1>3. CASE ~o.is_array
    <2>1. Exact(o.root) /\ V = Values[o.root] /\ o.root.weight = Len(V)
      BY <1>1, <1>3, TreeRoot
    <2>2. i \in Slot /\ i < o.root.weight
      BY <1>1, <2>1 DEF Slot
    <2>3. FetchInternal[o.root][i] = Values[o.root][i + 1]
      BY <2>1, <2>2, FetchIs
    <2> QED  BY <1>3, <2>1, <2>3 DEF Fetch
  <1> QED  BY <1>2, <1>3

LEMMA IterateOf ==
    ASSUME NEW o, Held(o), use \in Uses, NEW left \in Nat, NEW right \in Nat, left <= right,
           right <= Len(Contents(o))
    PROVE  IterateOnRange(o, left, right) = SubSeq(Contents(o), left + 1, right)
  <1> DEFINE V == Contents(o)
  <1>1. Sound(o) /\ V \in Seq(Value) /\ Len(V) <= MaxSize /\ Len(V) \in Nat /\ MaxSize \in Nat
    BY HeldIs, UseTypes
  <1>2. CASE o.is_array
    BY <1>1, <1>2, ArrayRoot DEF IterateOnRange
  <1>3. CASE ~o.is_array
    <2> DEFINE t == o.root
               z == 0
               a == left - z
               c == right - z
    <2>1. Exact(t) /\ V = Values[t] /\ t.weight = Len(V)
      BY <1>1, <1>3, TreeRoot
    <2>2. left \in Slot /\ right \in Slot /\ z \in Slot /\ z + t.weight <= MaxSize
      BY <1>1, <2>1 DEF Slot
    <2>3. a = left /\ c = right
      OBVIOUS
    <2>4. IterateOnRange(o, left, right) = IterateTree[t][left][right][z]
      BY <1>3 DEF IterateOnRange
    <2> HIDE DEF t, z
    <2>5. IterateTree[t][left][right][z] = Seen_(Values[t], left - z, right - z)
      BY <2>1, <2>2, IterateIs
    <2> HIDE DEF V
    <2>6. Inside(left, Len(V)) = left /\ Inside(right, Len(V)) = right
      <3>1. left <= Len(V) /\ right <= Len(V)
        BY <1>1 DEF V
      <3> QED  BY <1>1, <3>1 DEF Inside
    <2>7. Seen_(V, left, right) = SubSeq(V, left + 1, right)
      BY <2>6 DEF Seen_, Part
    <2>8. Seen_(Values[t], left - z, right - z) = Seen_(V, left, right)
      BY <2>1, <2>3
    <2> QED  BY <2>4, <2>5, <2>7, <2>8 DEF V
  <1> QED  BY <1>2, <1>3

LEMMA SomeKeep ==
    ASSUME IInv, use' = use, aborted' \in BOOLEAN, omt' = [m \in Handle |-> omt'[m]],
           \A m \in Handle : omt'[m] = omt[m] \/ omt'[m] = Absent \/ Held(omt'[m])
    PROVE  IInv'
  <1>1. use \in Uses /\ \A m \in Handle : Created(m) => Held(omt[m])
    BY DEF IInv
  <1>2. ASSUME NEW m \in Handle, Created(m)' PROVE Held(omt[m])'
    <2>1. omt'[m] # Absent
      BY <1>2 DEF Created
    <2>2. CASE omt'[m] = omt[m]
      <3>1. Held(omt[m])
        BY <1>1, <2>1, <2>2 DEF Created
      <3> QED  BY <2>2, <3>1 DEF Held, SupportsMarks, Ordered
    <2>3. CASE Held(omt'[m])
      BY <2>3 DEF Held, SupportsMarks, Ordered
    <2> QED  BY <2>1, <2>2, <2>3
  <1> QED  BY <1>1, <1>2 DEF IInv

LEMMA SoundExists ==
    ASSUME NEW o, Sound(o)
    PROVE  o # Absent /\ Contents(o) # Absent
  <1>0. /\ \A c, i \in Nat, s \in Seq(Value) : Array(c, i, s) \in Structure
        /\ \A c, f \in Nat, t \in Subtree : Tree(c, t, f) \in Structure
    <2>1. \A c, i \in Nat, s \in Seq(Value) :
              Array(c, i, s) \in [is_array : {TRUE}, capacity : Nat, start_idx : Nat, values : Seq(Value)]
      BY DEF Array
    <2>2. \A c, f \in Nat, t \in Subtree :
              Tree(c, t, f) \in [is_array : {FALSE}, capacity : Nat, root : Subtree, free_idx : Nat]
      BY DEF Tree
    <2> QED  BY <2>1, <2>2 DEF Structure
  <1>1. CASE ArrayOf(o)
    <2>1. o \in Structure
      BY <1>0, <1>1, Zenon DEF ArrayOf
    <2> QED  BY <2>1, SoundSize, AbsentAssumption, OmtAssumption
  <1>2. CASE TreeOf(o)
    <2>1. o \in Structure
      BY <1>0, <1>2, Zenon DEF TreeOf, Exact
    <2> QED  BY <2>1, SoundSize, AbsentAssumption, OmtAssumption
  <1> QED  BY <1>1, <1>2 DEF Sound

LEMMA CreatedIs ==
    ASSUME IInv, NEW n \in Handle, Created(n)
    PROVE  /\ Held(omt[n]) /\ use \in Uses
           /\ Contained[n] = Contents(omt[n]) /\ Contents(omt[n]) # Absent
           /\ MarksHeld[n] = Marks(omt[n])
  <1>1. Held(omt[n]) /\ use \in Uses
    BY DEF IInv
  <1>2. Contents(omt[n]) # Absent
    BY <1>1, SoundExists DEF Held
  <1> QED  BY <1>1, <1>2 DEF Contained, MarksHeld, Marks

LEMMA MapsAt ==
    ASSUME NEW n \in Handle, NEW o, omt'[n] = o, \A m \in Handle : m # n => omt'[m] = omt[m], use' = use,
           o # Absent
    PROVE  Maps(n, Contents(o), Marks(o))
  <1>1. Contained' = [Contained EXCEPT ![n] = Contents(o)]
    BY DEF Contained, Created
  <1>2. MarksHeld' = [MarksHeld EXCEPT ![n] = Marks(o)]
    BY DEF MarksHeld, Marks, Created
  <1> QED  BY <1>1, <1>2 DEF Maps

LEMMA StaysKeeps ==
    ASSUME IInv, NEW n \in Handle, NEW o, NEW s, NEW D, Stays(n, o), Becomes(o, s, D), Ordered => Sorted(s)
    PROVE  IInv' /\ Maps(n, s, D) /\ Len(s) <= use.max
  <1>1. omt = [m \in Handle |-> omt[m]] /\ aborted \in BOOLEAN /\ use \in Uses
    BY DEF IInv
  <1>2. omt' = [omt EXCEPT ![n] = o] /\ aborted' = aborted /\ use' = use /\ Size(o) <= use.max
    BY DEF Stays
  <1>3. Held(o)
    BY <1>2 DEF Held, Becomes
  <1>4. omt' = [m \in Handle |-> omt'[m]] /\ omt'[n] = o /\ \A m \in Handle : m # n => omt'[m] = omt[m]
    BY <1>1, <1>2
  <1>5. IInv'
    <2>1. \A m \in Handle : omt'[m] = omt[m] \/ omt'[m] = Absent \/ Held(omt'[m])
      BY <1>3, <1>4
    <2> QED  BY <1>1, <1>2, <1>4, <2>1, SomeKeep
  <1>6. Contents(o) = s /\ o # Absent /\ Len(s) <= use.max /\ Marks(o) = D
    <2>1. Contents(o) = s /\ o # Absent
      BY <1>3, SoundExists DEF Becomes, Held
    <2>2. Len(s) <= use.max /\ Len(s) <= MaxSize
      BY <1>1, <1>3, <2>1, HeldIs
    <2> QED  BY <2>1, <2>2 DEF Becomes
  <1>7. Maps(n, s, D)
    BY <1>2, <1>4, <1>6, MapsAt
  <1> QED  BY <1>5, <1>6, <1>7

LEMMA ConstructKeeps ==
    ASSUME IInv, NEW n \in Handle, Construct(n)
    PROVE  IInv' /\ Explained
  <1>0. use \in Uses
    BY DEF IInv
  <1>0a. use.max \in Nat /\ use.max <= MaxSize /\ use.values \subseteq Value /\ MaxSize \in Nat
    BY <1>0, UseTypes
  <1>0b. ASSUME ~Created(n), Maps(n, << >>, {}) PROVE Explained
    <2> DEFINE s == << >>
    <2>1. s \in Seq(use.values) /\ Len(s) <= use.max /\ Sorted(s) /\ Maps(n, s, {}) /\ Contained[n] = Absent
      BY <1>0a, <1>0b, SortedNone DEF Contained
    <2> HIDE DEF s
    <2> QED  BY <1>0a, <2>1, SeqCreates DEF Explained
  <1>1. CASE create(n)
    <2> DEFINE c == 2
               z == 0
               s == << >>
    <2>1. c \in Nat /\ z \in Nat /\ s \in Seq(Value) /\ Len(s) <= MaxSize /\ Sorted(s)
      BY <1>0a, SortedNone
    <2>2. Stays(n, Settled(Array(c, z, s)))
      BY <1>1 DEF create
    <2> HIDE DEF c, z, s
    <2>3. Becomes(Settled(Array(c, z, s)), s, {})
      BY <2>1, FreshIs
    <2>4. IInv' /\ Maps(n, s, {})
      BY <2>1, <2>2, <2>3, StaysKeeps
    <2> QED  BY <1>0b, <1>1, <2>4 DEF create, s
  <1>2. CASE create_no_array(n)
    <2> DEFINE z == 0
               s == << >>
    <2>1. z \in Nat /\ Sorted(s)
      BY SortedNone
    <2>2. CASE SupportsMarks
      <3>1. Stays(n, Tree(0, NODE_NULL, 0))
        BY <1>2, <2>2 DEF create_no_array
      <3>2. Becomes(Tree(0, NODE_NULL, 0), << >>, {})
        BY <2>1, EmptyTreeIs
      <3>3. IInv' /\ Maps(n, << >>, {})
        BY <2>1, <3>1, <3>2, StaysKeeps
      <3> QED  BY <1>0b, <1>2, <3>3 DEF create_no_array
    <2>3. CASE ~SupportsMarks
      <3>1. Stays(n, Array(0, 0, << >>))
        BY <1>2, <2>3 DEF create_no_array
      <3>2. Becomes(Array(0, 0, << >>), << >>, {})
        BY <2>1, <2>3, EmptyArrayIs
      <3>3. IInv' /\ Maps(n, << >>, {})
        BY <2>1, <3>1, <3>2, StaysKeeps
      <3> QED  BY <1>0b, <1>2, <3>3 DEF create_no_array
    <2> QED  BY <2>2, <2>3
  <1>3. ASSUME NEW s \in S!BoundedSeq(use.values, use.max), NEW spare \in {0, 3}, Legal(s),
               \/ spare = 0 /\ create_from_sorted_array(n, s)
               \/ create_steal_sorted_array(n, s, spare)
        PROVE  IInv' /\ Explained
    <2>1. s \in Seq(Value) /\ s \in Seq(use.values) /\ Len(s) \in Nat
      <3>1. PICK m \in 0 .. use.max : s \in [1 .. m -> use.values]
        BY <1>3 DEF S!BoundedSeq, S!SeqOf
      <3>2. m \in Nat /\ s \in [1 .. m -> Value]
        BY <1>0a, <3>1
      <3> QED  BY <3>1, <3>2
    <2>2. Len(s) <= MaxSize /\ (Ordered => Sorted(s))
      <3>1. Len(s) <= use.max /\ (Ordered => InOrder(s))
        BY <1>3 DEF Legal
      <3>2. Len(s) <= MaxSize
        BY <1>0a, <2>1, <3>1
      <3> QED  BY <3>1, <3>2, InOrderIs
    <2> DEFINE z == 0
               c1 == Len(s)
               c2 == Len(s) + spare
    <2>3. c1 \in Nat /\ c2 \in Nat /\ z \in Nat
      BY <2>1
    <2>4. Stays(n, Settled(Array(c1, z, s))) \/ Stays(n, Settled(Array(c2, z, s)))
      BY <1>3 DEF create_from_sorted_array, create_steal_sorted_array
    <2> HIDE DEF c1, c2, z
    <2>5. Becomes(Settled(Array(c1, z, s)), s, {}) /\ Becomes(Settled(Array(c2, z, s)), s, {})
      BY <2>1, <2>2, <2>3, FreshIs
    <2>6. IInv' /\ Maps(n, s, {}) /\ Len(s) <= use.max
      BY <2>2, <2>4, <2>5, StaysKeeps
    <2>7. Contained[n] = Absent
      BY <1>3 DEF create_from_sorted_array, create_steal_sorted_array, Contained
    <2> QED  BY <1>0a, <2>1, <2>2, <2>6, <2>7, SeqCreates, Zenon DEF Explained, Ordered
  <1> QED  BY <1>1, <1>2, <1>3 DEF Construct

\* An insertion at a slot where the value fits.
LEMMA InsertAtKeeps ==
    ASSUME IInv, NEW n \in Handle, NEW v \in Value, v \in use.values, NEW i \in Nat, insert_at(n, v, i),
           Ordered => Sorted(Put(Contents(omt[n]), i, v))
    PROVE  IInv' /\ Explained
  <1> DEFINE o == omt[n]
             V == Contents(o)
             u == InsertInto(o, v, i)
             s == Put(V, i, v)
  <1>1. Created(n) /\ ~HasMarks(o) /\ i <= Size(o) /\ Stays(n, u)
    BY DEF insert_at, Unmarked
  <1>2. Held(o) /\ use \in Uses /\ Contained[n] = Contents(o) /\ Contents(o) # Absent /\ MarksHeld[n] = Marks(o)
    BY <1>1, CreatedIs
  <1> HIDE DEF o
  <1>3. Sound(o) /\ (SupportsMarks => ~o.is_array) /\ Size(o) = Len(V) /\ Len(V) \in Nat /\ Len(V) <= MaxSize
    BY <1>2, HeldIs
  <1>4. Plain(o)
    BY <1>1, <1>3, UnmarkedIsPlain
  <1>5. i \in 0 .. Len(V)
    <2>1. i <= Len(V)
      BY <1>1, <1>3
    <2> HIDE DEF V
    <2> QED  BY <1>3, <2>1
  <1>6. Plain(u) /\ Contents(u) = s /\ (SupportsMarks => ~u.is_array)
    BY <1>3, <1>4, <1>5, InsertIntoIs
  <1>7. Ordered => Sorted(s)
    BY DEF o
  <1>6a. MarksHeld[n] = {}
    BY <1>2, <1>3, <1>4, PlainMarks
  <1> HIDE DEF u, s
  <1>8. Becomes(u, s, {})
    BY <1>6, PlainBecomes
  <1>9. IInv' /\ Maps(n, s, {})
    BY <1>1, <1>7, <1>8, StaysKeeps
  <1>10. Maps(n, Put(V, i, v), {}) /\ i <= Len(V) /\ Contained[n] = V /\ V # Absent
    BY <1>1, <1>2, <1>3, <1>9 DEF s
  <1> HIDE DEF V
  <1> QED  BY <1>3, <1>6a, <1>9, <1>10, SeqInserts DEF Explained

LEMMA InsertKeeps ==
    ASSUME IInv, NEW n \in Handle, NEW v \in Value, insert(n, v)
    PROVE  IInv' /\ Explained
  <1> DEFINE o == omt[n]
             V == Contents(o)
             z == FindZero(o, v)
  <1>1. Ordered /\ v \in use.values /\ Created(n) /\ insert_at(n, v, z.idx)
    BY DEF insert
  <1>2. Held(o) /\ use \in Uses /\ Contained[n] = Contents(o) /\ Contents(o) # Absent /\ MarksHeld[n] = Marks(o)
    BY <1>1, CreatedIs
  <1>3. V \in Seq(Value) /\ Sorted(V) /\ Len(V) \in Nat
    <2> HIDE DEF o
    <2> QED  BY <1>1, <1>2, HeldIs
  <1>4. ZeroIs(z, V, v)
    <2> HIDE DEF o
    <2>1. Looked(V, z, FindPlus(o, v), FindMinus(o, v), v)
      BY <1>1, <1>2, LookupsOf
    <2> QED  BY <2>1 DEF Looked
  <1> HIDE DEF z, V
  <1>5. Sorted(Put(V, z.idx, v))
    BY <1>3, <1>4, SortedPut
  <1>6. z.idx \in Nat
    BY <1>3, <1>4 DEF ZeroIs
  <1> DEFINE i == z.idx
  <1> HIDE DEF i
  <1>7. i \in Nat /\ insert_at(n, v, i) /\ Sorted(Put(V, i, v))
    BY <1>1, <1>5, <1>6 DEF i, z
  <1>8. Ordered => Sorted(Put(Contents(omt[n]), i, v))
    BY <1>7 DEF V
  <1> QED  BY <1>1, <1>7, <1>8, InsertAtKeeps

LEMMA DeleteAtKeeps ==
    ASSUME IInv, NEW n \in Handle, NEW i \in Nat, delete_at(n, i)
    PROVE  IInv' /\ Explained
  <1> DEFINE o == omt[n]
             V == Contents(o)
             u == DeleteFrom(o, i)
             s == Cut(V, i)
  <1>1. Created(n) /\ ~HasMarks(o) /\ i < Size(o) /\ Stays(n, u)
    BY DEF delete_at, Unmarked
  <1>2. Held(o) /\ use \in Uses /\ Contained[n] = Contents(o) /\ Contents(o) # Absent /\ MarksHeld[n] = Marks(o)
    BY <1>1, CreatedIs
  <1> HIDE DEF o
  <1>3. Sound(o) /\ (SupportsMarks => ~o.is_array) /\ Size(o) = Len(V) /\ Len(V) \in Nat /\ Len(V) <= MaxSize
        /\ V \in Seq(Value) /\ (Ordered => Sorted(V))
    BY <1>2, HeldIs
  <1>4. Plain(o)
    BY <1>1, <1>3, UnmarkedIsPlain
  <1>5. i < Len(V)
    BY <1>1, <1>3
  <1>6. Plain(u) /\ Contents(u) = s /\ (SupportsMarks => ~u.is_array)
    BY <1>3, <1>4, <1>5, DeleteFromIs
  <1>7. Ordered => Sorted(s)
    <2>1. i \in 0 .. Len(V) - 1
      <3> HIDE DEF V
      <3> QED  BY <1>3, <1>5
    <2> HIDE DEF V
    <2> QED  BY <1>3, <2>1, SortedCut
  <1>6a. MarksHeld[n] = {}
    BY <1>2, <1>3, <1>4, PlainMarks
  <1> HIDE DEF u, s
  <1>8. Becomes(u, s, {})
    BY <1>6, PlainBecomes
  <1>9. IInv' /\ Maps(n, s, {})
    BY <1>1, <1>7, <1>8, StaysKeeps
  <1>10. Maps(n, Cut(V, i), {}) /\ Contained[n] = V /\ V # Absent
    BY <1>2, <1>9 DEF s
  <1> HIDE DEF V
  <1> QED  BY <1>3, <1>5, <1>6a, <1>9, <1>10, SeqDeletes DEF Explained

LEMMA SetAtKeeps ==
    ASSUME IInv, NEW n \in Handle, NEW v \in Value, v \in use.values, NEW i \in Nat, set_at(n, v, i),
           Ordered => Sorted(Changed(Contents(omt[n]), i, v))
    PROVE  IInv' /\ Explained
  <1> DEFINE o == omt[n]
             V == Contents(o)
             u == SetAtOf(o, v, i)
             s == Changed(V, i, v)
  <1>1. Created(n) /\ ~HasMarks(o) /\ i < Size(o) /\ Stays(n, u)
    BY DEF set_at, Unmarked, SetAtOf
  <1>2. Held(o) /\ use \in Uses /\ Contained[n] = Contents(o) /\ Contents(o) # Absent /\ MarksHeld[n] = Marks(o)
    BY <1>1, CreatedIs
  <1>2a. Ordered => Sorted(s)
    OBVIOUS
  <1> HIDE DEF o
  <1>3. Sound(o) /\ (SupportsMarks => ~o.is_array) /\ Size(o) = Len(V) /\ Len(V) \in Nat /\ Len(V) <= MaxSize
    BY <1>2, HeldIs
  <1>5. i < Len(V)
    BY <1>1, <1>3
  <1>4. Plain(o)
    BY <1>1, <1>3, UnmarkedIsPlain
  <1>6. Becomes(u, s, {})
    BY <1>3, <1>4, <1>5, SetAtOfIs
  <1>6a. MarksHeld[n] = {}
    BY <1>2, <1>3, <1>4, PlainMarks
  <1> HIDE DEF u, s
  <1>9. IInv' /\ Maps(n, s, {})
    BY <1>1, <1>2a, <1>6, StaysKeeps
  <1>10. Maps(n, Changed(V, i, v), {}) /\ Contained[n] = V /\ V # Absent
    BY <1>2, <1>9 DEF s
  <1> HIDE DEF V
  <1> QED  BY <1>3, <1>5, <1>6a, <1>9, <1>10, SeqSets DEF Explained

LEMMA ClearKeeps ==
    ASSUME IInv, NEW n \in Handle, clear(n)
    PROVE  IInv' /\ Explained
  <1> DEFINE o == omt[n]
             u == ClearOf(o)
  <1>1. Created(n) /\ Stays(n, u)
    BY DEF clear
  <1>2. Held(o) /\ use \in Uses /\ Contained[n] = Contents(o) /\ Contents(o) # Absent /\ MarksHeld[n] = Marks(o)
    BY <1>1, CreatedIs
  <1> HIDE DEF o
  <1>3. Sound(o) /\ (SupportsMarks => ~o.is_array)
    BY <1>2, HeldIs
  <1>6. Becomes(u, << >>, {}) /\ Sorted(<< >>)
    BY <1>3, ClearIs, SortedNone
  <1> HIDE DEF u
  <1>7. IInv' /\ Maps(n, << >>, {})
    BY <1>1, <1>6, StaysKeeps
  <1> QED  BY <1>2, <1>7, SeqOthers DEF Explained

LEMMA DestroyKeeps ==
    ASSUME IInv, NEW n \in Handle, destroy(n)
    PROVE  IInv' /\ Explained
  <1>1. omt = [m \in Handle |-> omt[m]] /\ aborted \in BOOLEAN
    BY DEF IInv
  <1>2. Created(n) /\ omt' = [omt EXCEPT ![n] = Absent] /\ aborted' = aborted /\ use' = use
    BY DEF destroy
  <1>3. omt' = [m \in Handle |-> omt'[m]] /\ \A m \in Handle : omt'[m] = omt[m] \/ omt'[m] = Absent
    BY <1>1, <1>2
  <1>4. IInv'
    BY <1>1, <1>2, <1>3, SomeKeep
  <1>5. omt'[n] = Absent /\ \A m \in Handle : m # n => omt'[m] = omt[m]
    BY <1>1, <1>2
  <1>6. Maps(n, Absent, {})
    <2>1. Contained' = [Contained EXCEPT ![n] = Absent]
      BY <1>5 DEF Contained, Created
    <2>2. MarksHeld' = [MarksHeld EXCEPT ![n] = {}]
      BY <1>5 DEF MarksHeld, Created
    <2> QED  BY <1>2, <2>1, <2>2 DEF Maps
  <1>7. Contained[n] = Contents(omt[n]) /\ Contents(omt[n]) # Absent
    BY <1>2, CreatedIs
  <1> QED  BY <1>4, <1>6, <1>7, SeqOthers DEF Explained

LEMMA IteratePtrKeeps ==
    ASSUME IInv, NEW n \in Handle, iterate_ptr(n)
    PROVE  IInv' /\ Explained
  <1> DEFINE o == omt[n]
             V == Contents(o)
             u == RewriteOf(o)
             s == Rewritten(V)
  <1>1. Created(n) /\ Stays(n, u)
    BY DEF iterate_ptr, RewriteOf
  <1>2. Held(o) /\ use \in Uses /\ Contained[n] = Contents(o) /\ Contents(o) # Absent /\ MarksHeld[n] = Marks(o)
    BY <1>1, CreatedIs
  <1> HIDE DEF o
  <1>3. Sound(o) /\ (SupportsMarks => ~o.is_array) /\ Len(V) <= MaxSize
        /\ V \in Seq(Value) /\ (Ordered => Sorted(V))
    BY <1>2, HeldIs
  <1>6. Becomes(u, s, Marks(o))
    BY <1>3, RewriteOfIs
  <1>7. Ordered => Sorted(s)
    <2> HIDE DEF V
    <2> QED  BY <1>2, <1>3, SortedRewritten
  <1> HIDE DEF u, s
  <1>8. IInv' /\ Maps(n, s, MarksHeld[n])
    BY <1>1, <1>2, <1>6, <1>7, StaysKeeps
  <1>9. Maps(n, Rewritten(V), MarksHeld[n]) /\ Contained[n] = V /\ V # Absent
    BY <1>2, <1>8 DEF s
  <1> HIDE DEF V
  <1> QED  BY <1>8, <1>9, SeqOthers DEF Explained

LEMMA MarkRangeKeeps ==
    ASSUME IInv, NEW n \in Handle, NEW left \in Slot, NEW right \in Slot, iterate_and_mark_range(n, left, right)
    PROVE  IInv' /\ Explained
  <1> DEFINE o == omt[n]
             V == Contents(o)
             u == Rerooted(o, MarkRange[o.root][left][right][0])
  <1>1. SupportsMarks /\ Created(n) /\ left < right /\ right <= Size(o) /\ Stays(n, u)
    BY DEF iterate_and_mark_range, Rerooted
  <1>2. Held(o) /\ use \in Uses /\ Contained[n] = Contents(o) /\ Contents(o) # Absent /\ MarksHeld[n] = Marks(o)
    BY <1>1, CreatedIs
  <1> HIDE DEF o
  <1>3. Sound(o) /\ ~o.is_array /\ Len(V) <= MaxSize /\ Size(o) = Len(V) /\ Len(V) \in Nat
        /\ (Ordered => Sorted(V))
    BY <1>1, <1>2, HeldIs
  <1> DEFINE D == Marks(o) \cup (left .. right - 1)
  <1>6. Becomes(u, V, D)
    BY <1>1, <1>3, MarkRangeOfIs
  <1>6a. left \in Nat /\ right \in Nat /\ right <= Len(V) /\ Contained[n] = V /\ V # Absent
    BY <1>1, <1>2, <1>3, OmtAssumption DEF Slot
  <1> HIDE DEF u, V, D
  <1>7. IInv' /\ Maps(n, V, D)
    BY <1>1, <1>3, <1>6, StaysKeeps
  <1>8. Maps(n, V, MarksHeld[n] \cup (left .. right - 1))
    BY <1>2, <1>7 DEF D
  <1> QED  BY <1>1, <1>3, <1>6a, <1>7, <1>8, SeqMarks DEF Explained

LEMMA DeleteMarkedKeeps ==
    ASSUME IInv, NEW n \in Handle, delete_all_marked(n)
    PROVE  IInv' /\ Explained
  <1> DEFINE o == omt[n]
             V == Contents(o)
             D == MarkedSlots[o.root][0]
             u == DeleteMarkedOf(o)
             s == Sequences_!Without(V, D)
  <1>1. SupportsMarks /\ Created(n) /\ Stays(n, u)
    BY DEF delete_all_marked
  <1>2. Held(o) /\ use \in Uses /\ Contained[n] = Contents(o) /\ Contents(o) # Absent /\ MarksHeld[n] = Marks(o)
    BY <1>1, CreatedIs
  <1> HIDE DEF o
  <1>3. Sound(o) /\ ~o.is_array /\ Len(V) <= MaxSize /\ V \in Seq(Value) /\ (Ordered => Sorted(V))
    BY <1>1, <1>2, HeldIs
  <1>6. Becomes(u, s, {}) /\ MarksHeld[n] = D
    BY <1>2, <1>3, DeleteMarkedOfIs DEF Marks
  <1>7. Ordered => Sorted(s)
    <2> HIDE DEF V, D
    <2> QED  BY <1>3, SortedWithout
  <1> HIDE DEF u, s
  <1>8. IInv' /\ Maps(n, s, {})
    BY <1>1, <1>6, <1>7, StaysKeeps
  <1>9. Maps(n, Sequences_!Without(V, MarksHeld[n]), {}) /\ Contained[n] = V /\ V # Absent
    BY <1>2, <1>6, <1>8 DEF s
  <1> HIDE DEF V
  <1> QED  BY <1>8, <1>9, SeqOthers DEF Explained

\* A value a call may store is one of those in use.
LEMMA UsedInsert ==
    ASSUME IInv, NEW n \in Handle, NEW v \in Value, NEW i \in Nat, insert_at(n, v, i),
           Legal(S!InsertAt(Contents(omt[n]), i + 1, v))
    PROVE  v \in use.values
  <1> DEFINE V == Contents(omt[n])
             w == Put(V, i, v)
             j == i + 1
  <1>1. V \in Seq(Value) /\ i \in 0 .. Len(V)
    <2>1. Created(n) /\ i <= Size(omt[n])
      BY DEF insert_at, Unmarked
    <2> QED  BY <2>1, CreatedIs, HeldIs
  <1>2. \A k \in DOMAIN w : w[k] \in use.values
    BY DEF Legal, Put
  <1> HIDE DEF V
  <1>3. w \in Seq(Value) /\ PutIs(w, V, i, v)
    BY <1>1, PutType
  <1> HIDE DEF w
  <1>4. j \in DOMAIN w /\ w[j] = v
    BY <1>1, <1>3 DEF PutIs
  <1> HIDE DEF j
  <1> QED  BY <1>2, <1>4

LEMMA UsedSet ==
    ASSUME IInv, NEW n \in Handle, NEW v \in Value, NEW i \in Nat, set_at(n, v, i),
           Legal(S!ReplaceAt(Contents(omt[n]), i + 1, v))
    PROVE  v \in use.values
  <1> DEFINE V == Contents(omt[n])
             w == Changed(V, i, v)
             j == i + 1
  <1>1. V \in Seq(Value) /\ i \in 0 .. Len(V) - 1
    <2>1. Created(n) /\ i < Size(omt[n])
      BY DEF set_at, Unmarked
    <2> QED  BY <2>1, CreatedIs, HeldIs
  <1>2. \A k \in DOMAIN w : w[k] \in use.values
    BY DEF Legal, Changed
  <1> HIDE DEF V
  <1>3. w \in Seq(Value) /\ ChangedIs(w, V, i, v)
    BY <1>1, ChangedType
  <1> HIDE DEF w
  <1>4. j \in DOMAIN w /\ w[j] = v
    BY <1>1, <1>3 DEF ChangedIs
  <1> HIDE DEF j
  <1> QED  BY <1>2, <1>4

LEMMA EditKeeps ==
    ASSUME IInv, NEW n \in Handle, Edit(n)
    PROVE  IInv' /\ Explained
  <1>0. \A i \in 0 .. MaxSize : i \in Nat
    BY OmtAssumption
  <1>1. ASSUME NEW v \in Value, NEW i \in 0 .. MaxSize, insert_at(n, v, i),
               Legal(S!InsertAt(Contents(omt[n]), i + 1, v))
        PROVE  IInv' /\ Explained
    <2>1. Ordered => Sorted(Put(Contents(omt[n]), i, v))
      BY <1>1, InOrderIs DEF Legal, Put
    <2>2. v \in use.values
      BY <1>0, <1>1, UsedInsert
    <2> QED  BY <1>0, <1>1, <2>1, <2>2, InsertAtKeeps
  <1>2. ASSUME NEW v \in Value, NEW i \in 0 .. MaxSize, set_at(n, v, i),
               Legal(S!ReplaceAt(Contents(omt[n]), i + 1, v))
        PROVE  IInv' /\ Explained
    <2>1. Ordered => Sorted(Changed(Contents(omt[n]), i, v))
      BY <1>2, InOrderIs DEF Legal, Changed
    <2>2. v \in use.values
      BY <1>0, <1>2, UsedSet
    <2> QED  BY <1>0, <1>2, <2>1, <2>2, SetAtKeeps
  <1>3. ASSUME NEW v \in Value, insert(n, v) PROVE IInv' /\ Explained
    BY <1>3, InsertKeeps
  <1>4. ASSUME NEW i \in 0 .. MaxSize, delete_at(n, i) PROVE IInv' /\ Explained
    BY <1>0, <1>4, DeleteAtKeeps
  <1>5. CASE clear(n)
    BY <1>5, ClearKeeps
  <1>6. CASE destroy(n)
    BY <1>6, DestroyKeeps
  <1>7. CASE iterate_ptr(n)
    BY <1>7, IteratePtrKeeps
  <1>8. ASSUME NEW left \in 0 .. MaxSize, NEW right \in 0 .. MaxSize, iterate_and_mark_range(n, left, right)
        PROVE  IInv' /\ Explained
    BY <1>8, MarkRangeKeeps DEF Slot
  <1>9. CASE delete_all_marked(n)
    BY <1>9, DeleteMarkedKeeps
  <1> QED  BY <1>1, <1>2, <1>3, <1>4, <1>5, <1>6, <1>7, <1>8, <1>9 DEF Edit

LEMMA BecomesHeld ==
    ASSUME NEW u, NEW s, Becomes(u, s, {}), s \in Seq(Value), Len(s) <= use.max, Ordered => Sorted(s),
           use \in Uses
    PROVE  Held(u) /\ Contents(u) = s /\ Marks(u) = {}
  <1>1. Len(s) <= MaxSize
    BY UseTypes
  <1> QED  BY <1>1, SoundSize DEF Becomes, Held

HoldsPlainly(u, s) == Held(u) /\ Contents(u) = s /\ Marks(u) = {}

\* The two parts of a split structure.
LEMMA SplitParts ==
    ASSUME NEW o, Held(o), use \in Uses, ~HasMarks(o), NEW i \in Nat, i <= Size(o)
    PROVE  /\ HoldsPlainly(SplitLeft(o, i), SubSeq(Contents(o), 1, i))
           /\ HoldsPlainly(Settled(Array(Len(Contents(o)) - i, 0, SubSeq(Contents(o), i + 1, Len(Contents(o))))),
                           SubSeq(Contents(o), i + 1, Len(Contents(o))))
           /\ Marks(o) = {}
  <1> DEFINE V == Contents(o)
             l == SplitLeft(o, i)
             z == 0
             n == Len(V)
             a == Part(V, z, i)
             b == Part(V, i, n)
             c == n - i
             r == Settled(Array(c, z, b))
  <1>1. Sound(o) /\ V \in Seq(Value) /\ Len(V) \in Nat /\ Len(V) <= MaxSize /\ Len(V) <= use.max
        /\ (Ordered => Sorted(V)) /\ i <= Len(V)
    BY HeldIs
  <1>2. use.max \in Nat /\ MaxSize \in Nat
    BY UseTypes
  <1>2a. Plain(o)
    BY <1>1, UnmarkedIsPlain
  <1>3. Becomes(l, a, {})
    BY <1>1, <1>2a, SplitLeftIs
  <1>3a. Marks(o) = {}
    BY <1>1, <1>2a, PlainMarks
  <1> HIDE DEF V
  <1>4. z \in Nat /\ n \in Nat /\ c \in Nat /\ z <= i /\ i <= n /\ n <= Len(V) /\ c <= n
    BY <1>1
  <1> HIDE DEF z, c
  <1>5. a \in Seq(Value) /\ b \in Seq(Value)
        /\ PartIs(a, V, z, i) /\ PartIs(b, V, i, n)
    BY <1>1, <1>4, PartType
  <1>6. Len(a) = i - z /\ Len(b) = n - i
    BY <1>5 DEF PartIs
  <1>7. Ordered => Sorted(a) /\ Sorted(b)
    BY <1>1, <1>4, SortedPart
  <1>8. Len(a) <= use.max /\ Len(b) <= use.max /\ Len(b) <= MaxSize
    BY <1>1, <1>2, <1>4, <1>6 DEF z
  <1> HIDE DEF n, a, b
  <1>9. Becomes(r, b, {})
    BY <1>4, <1>5, <1>8, FreshIs
  <1> HIDE DEF l, r
  <1>10. HoldsPlainly(l, a) /\ HoldsPlainly(r, b)
    BY <1>3, <1>5, <1>7, <1>8, <1>9, BecomesHeld DEF HoldsPlainly
  <1>11. a = SubSeq(V, 1, i)
    <2>1. z + 1 = 1
      BY DEF z
    <2> QED  BY <2>1 DEF a, Part
  <1> QED  BY <1>3a, <1>10, <1>11 DEF l, r, b, c, n, V, z, Part

LEMMA SplitKeeps ==
    ASSUME IInv, NEW n \in Handle, NEW new \in Handle, NEW i \in Nat, split_at(n, new, i)
    PROVE  IInv' /\ Explained /\ Sequences_!SeqSplitAt(n, new, i)
  <1> DEFINE o == omt[n]
             V == Contents(o)
             a == SubSeq(V, 1, i)
             b == SubSeq(V, i + 1, Len(V))
             l == SplitLeft(o, i)
             r == Settled(Array(Len(V) - i, 0, b))
  <1>1. omt = [m \in Handle |-> omt[m]] /\ aborted \in BOOLEAN
    BY DEF IInv
  <1>2. Created(n) /\ ~HasMarks(o) /\ ~Created(new) /\ i <= Size(o)
        /\ omt' = [omt EXCEPT ![n] = l, ![new] = r] /\ aborted' = aborted /\ use' = use
    BY DEF split_at, Unmarked
  <1>3. Held(o) /\ use \in Uses /\ Contained[n] = V /\ V # Absent /\ MarksHeld[n] = Marks(o)
    BY <1>2, CreatedIs
  <1>4. HoldsPlainly(l, a) /\ HoldsPlainly(r, b) /\ Marks(o) = {} /\ Len(V) \in Nat /\ i <= Len(V)
    <2> HIDE DEF o
    <2> QED  BY <1>2, <1>3, SplitParts, HeldIs
  <1>4a. Contained[new] = Absent /\ MarksHeld[new] = {}
    BY <1>2 DEF Contained, MarksHeld
  <1> HIDE DEF l, r, V
  <1>4b. l # Absent /\ r # Absent
    BY <1>4, SoundExists DEF HoldsPlainly, Held
  <1>5. omt' = [m \in Handle |-> omt'[m]] /\ n # new /\ omt'[n] = l /\ omt'[new] = r
        /\ \A m \in Handle : m # n /\ m # new => omt'[m] = omt[m]
    BY <1>1, <1>2
  <1>6. IInv'
    <2>1. \A m \in Handle : omt'[m] = omt[m] \/ omt'[m] = Absent \/ Held(omt'[m])
      BY <1>4, <1>5 DEF HoldsPlainly
    <2> QED  BY <1>1, <1>2, <1>5, <2>1, SomeKeep
  <1>7. Contained' = [Contained EXCEPT ![n] = a, ![new] = b]
    <2>1. Contents(l) = a /\ Contents(r) = b
      BY <1>4 DEF HoldsPlainly
    <2> HIDE DEF a, b
    <2> QED  BY <1>4b, <1>5, <2>1 DEF Contained, Created
  <1>8. MarksHeld' = MarksHeld
    <2>1. (~l.is_array => MarkedSlots[l.root][0] = {}) /\ (~r.is_array => MarkedSlots[r.root][0] = {})
      BY <1>4 DEF HoldsPlainly, Marks
    <2>2. MarksHeld'[n] = {} /\ MarksHeld'[new] = {} /\ \A m \in Handle : m # n /\ m # new => MarksHeld'[m] = MarksHeld[m]
      BY <1>5, <2>1 DEF MarksHeld, Created
    <2>3. \A m \in Handle : MarksHeld'[m] = MarksHeld[m]
      BY <1>3, <1>4, <1>4a, <2>2
    <2> QED  BY <2>3 DEF MarksHeld
  <1>9. Sequences_!SeqSplitAt(n, new, i)
    BY <1>2, <1>3, <1>4, <1>4a, <1>7, <1>8, SeqSplits
  <1>10. Explained
    BY <1>3, <1>4, <1>9, SeqCombines DEF Explained
  <1> QED  BY <1>6, <1>9, <1>10

LEMMA AbortKeeps ==
    ASSUME IInv, NEW t \in Handle, ConstructorAborts(t)
    PROVE  IInv' /\ Explained /\ aborted'
  <1>1. omt' = omt /\ use' = use /\ aborted' = TRUE /\ omt = [m \in Handle |-> omt[m]]
    BY DEF ConstructorAborts, IInv
  <1>2. IInv'
    BY <1>1, SomeKeep
  <1>3. Explained
    BY <1>1 DEF Explained, Contained, MarksHeld, Created
  <1> QED  BY <1>1, <1>2, <1>3

LEMMA CloneKeeps ==
    ASSUME IInv, NEW t \in Handle, NEW n \in Handle, clone(t, n)
    PROVE  IInv' /\ Explained /\ (~aborted' => Sequences_!SeqClone(t, n))
  <1> DEFINE o == omt[n]
             V == Contents(o)
             c == Size(o)
             z == 0
             u == Settled(Array(c, z, V))
  <1>1. Created(n) /\ ~Created(t) /\ (Stays(t, u) \/ ConstructorAborts(t))
    BY DEF clone
  <1>2. Held(o) /\ use \in Uses /\ Contained[n] = V /\ V # Absent /\ Contained[t] = Absent
    BY <1>1, CreatedIs DEF Contained
  <1> HIDE DEF o
  <1>3. V \in Seq(Value) /\ c = Len(V) /\ Len(V) \in Nat /\ Len(V) <= MaxSize /\ (Ordered => Sorted(V))
    BY <1>2, HeldIs
  <1>4. c \in Nat /\ z \in Nat
    BY <1>3
  <1> HIDE DEF V, c, z
  <1>5. Becomes(u, V, {})
    BY <1>3, <1>4, FreshIs
  <1> HIDE DEF u
  <1>6. CASE Stays(t, u)
    <2>1. IInv' /\ Maps(t, V, {})
      BY <1>3, <1>5, <1>6, StaysKeeps
    <2>2. Contained[n] # Absent /\ Maps(t, Contained[n], {})
      BY <1>2, <2>1
    <2>3. Sequences_!SeqClone(t, n)
      BY <1>2, <2>2, SeqClones
    <2> QED  BY <2>1, <2>3, SeqCombines DEF Explained
  <1> QED  BY <1>1, <1>6, AbortKeeps

\* The structure merge builds, whether or not it takes over the left array.
Joined(left, right) ==
    LET all == Contents(left) \o Contents(right)
    IN  IF StealsLeft(left, right) THEN Array(left.capacity, left.start_idx, all)
        ELSE Array(Len(all), 0, all)

LEMMA JoinedIs ==
    ASSUME NEW p, NEW q, Held(p), Held(q), use \in Uses,
           Len(Contents(p) \o Contents(q)) <= use.max,
           Ordered => InOrder(Contents(p) \o Contents(q))
    PROVE  /\ Held(Settled(Joined(p, q)))
           /\ Becomes(Settled(Joined(p, q)), Contents(p) \o Contents(q), {})
  <1> DEFINE V == Contents(p)
             W == Contents(q)
             s == V \o W
             n == Len(s)
             z == 0
             u == Settled(Joined(p, q))
  <1>1. V \in Seq(Value) /\ W \in Seq(Value) /\ Sound(p)
    BY HeldIs
  <1>2. Joined(p, q) = IF StealsLeft(p, q) THEN Array(p.capacity, p.start_idx, s) ELSE Array(n, z, s)
    BY DEF Joined
  <1>3. use.max \in Nat /\ MaxSize \in Nat /\ use.max <= MaxSize
    BY UseTypes
  <1>4. Ordered => Sorted(s)
    BY InOrderIs
  <1>5. n <= use.max
    OBVIOUS
  <1> HIDE DEF V, W
  <1>6. s \in Seq(Value)
    BY <1>1
  <1> HIDE DEF s
  <1>7. n \in Nat /\ z \in Nat
    BY <1>6
  <1>8. Len(s) <= MaxSize
    BY <1>3, <1>5, <1>7
  <1>9. CASE StealsLeft(p, q)
    <2>1. p.is_array
      BY <1>9 DEF StealsLeft
    <2>2. p.capacity \in Nat /\ p.start_idx \in Nat
      BY <1>1, <2>1, ArrayRoot, Kinds DEF ArrayOf
    <2>3. Becomes(Settled(Array(p.capacity, p.start_idx, s)), s, {})
      BY <1>6, <1>8, <2>2, FreshIs
    <2>4. Becomes(u, s, {})
      BY <1>2, <1>9, <2>3
    <2> HIDE DEF u
    <2>5. Held(u)
      BY <1>4, <1>5, <1>6, <2>4, BecomesHeld
    <2> QED  BY <2>4, <2>5 DEF u, s, V, W
  <1>10. CASE ~StealsLeft(p, q)
    <2> HIDE DEF n, z
    <2>3. Becomes(Settled(Array(n, z, s)), s, {})
      BY <1>6, <1>7, <1>8, FreshIs
    <2>4. Becomes(u, s, {})
      BY <1>2, <1>10, <2>3
    <2> HIDE DEF u
    <2>5. Held(u)
      BY <1>4, <1>5, <1>6, <2>4, BecomesHeld DEF n
    <2> QED  BY <2>4, <2>5 DEF u, s, V, W
  <1> QED  BY <1>9, <1>10

LEMMA MergeKeeps ==
    ASSUME IInv, NEW t \in Handle, NEW l \in Handle, NEW r \in Handle, merge(t, l, r)
    PROVE  IInv' /\ Explained /\ (~aborted' => Sequences_!SeqMerge(t, l, r))
  <1> DEFINE p == omt[l]
             q == omt[r]
             s == Contents(p) \o Contents(q)
             u == Settled(Joined(p, q))
  <1>1. omt = [m \in Handle |-> omt[m]] /\ aborted \in BOOLEAN
    BY DEF IInv
  <1>2. Created(l) /\ Created(r) /\ ~Created(t) /\ l # r
        /\ \/ /\ Len(s) <= use.max /\ (Ordered => InOrder(s))
              /\ omt' = [omt EXCEPT ![t] = u, ![l] = Absent, ![r] = Absent]
              /\ aborted' = aborted /\ use' = use
           \/ ConstructorAborts(t)
    BY DEF merge, Joined
  <1>3. /\ Held(p) /\ Held(q) /\ use \in Uses
        /\ Contained[l] = Contents(p) /\ Contained[l] # Absent
        /\ Contained[r] = Contents(q) /\ Contained[r] # Absent
    BY <1>2, CreatedIs
  <1>3a. Contained[t] = Absent /\ MarksHeld[t] = {} /\ t # l /\ t # r
    BY <1>2 DEF Contained, MarksHeld
  <1>4. CASE /\ Len(s) <= use.max /\ (Ordered => InOrder(s))
             /\ omt' = [omt EXCEPT ![t] = u, ![l] = Absent, ![r] = Absent]
             /\ aborted' = aborted /\ use' = use
    <2>1. Held(u) /\ Becomes(u, s, {})
      <3> HIDE DEF p, q
      <3> QED  BY <1>3, <1>4, JoinedIs
    <2> HIDE DEF u
    <2>2. Contents(u) = s /\ Marks(u) = {} /\ u # Absent
      <3>1. Contents(u) = s /\ u # Absent /\ Len(s) <= MaxSize
        <4> HIDE DEF s
        <4>1. Contents(u) = s /\ Len(Contents(u)) <= MaxSize
          BY <1>3, <2>1, HeldIs DEF Becomes
        <4> QED  BY <2>1, <4>1, SoundExists DEF Held
      <3> QED  BY <2>1, <3>1 DEF Becomes
    <2>3. omt' = [m \in Handle |-> omt'[m]] /\ omt'[t] = u /\ omt'[l] = Absent /\ omt'[r] = Absent
          /\ \A m \in Handle : m # t /\ m # l /\ m # r => omt'[m] = omt[m]
      BY <1>1, <1>3a, <1>4
    <2>4. IInv'
      <3>1. \A m \in Handle : omt'[m] = omt[m] \/ omt'[m] = Absent \/ Held(omt'[m])
        BY <2>1, <2>3
      <3> QED  BY <1>1, <1>4, <2>3, <3>1, SomeKeep
    <2> HIDE DEF s
    <2>5. Contained' = [Contained EXCEPT ![t] = s, ![l] = Absent, ![r] = Absent]
      BY <1>3a, <2>2, <2>3 DEF Contained, Created
    <2>6. MarksHeld' = [MarksHeld EXCEPT ![l] = {}, ![r] = {}]
      <3>1. MarksHeld'[t] = {} /\ MarksHeld'[l] = {} /\ MarksHeld'[r] = {}
            /\ \A m \in Handle : m # t /\ m # l /\ m # r => MarksHeld'[m] = MarksHeld[m]
        BY <2>2, <2>3 DEF MarksHeld, Created, Marks
      <3>2. MarksHeld' = [m \in Handle |-> MarksHeld'[m]] /\ MarksHeld = [m \in Handle |-> MarksHeld[m]]
        BY DEF MarksHeld
      <3> QED  BY <1>2, <1>3a, <3>1, <3>2
    <2>7. Sequences_!SeqMerge(t, l, r)
      BY <1>2, <1>3, <1>3a, <1>4, <2>5, <2>6, SeqMerges DEF s
    <2> QED  BY <2>4, <2>7, SeqCombines DEF Explained
  <1> QED  BY <1>2, <1>4, AbortKeeps

LEMMA CombineKeeps ==
    ASSUME IInv, NEW n \in Handle, Combine(n)
    PROVE  IInv' /\ Explained
  <1>0. \A i \in 0 .. MaxSize : i \in Nat
    BY OmtAssumption
  <1>1. ASSUME NEW new \in Handle, NEW i \in 0 .. MaxSize, split_at(n, new, i) PROVE IInv' /\ Explained
    BY <1>0, <1>1, SplitKeeps
  <1>2. ASSUME NEW g \in Handle, clone(n, g) PROVE IInv' /\ Explained
    BY <1>2, CloneKeeps
  <1>3. ASSUME NEW l \in Handle, NEW r \in Handle, merge(n, l, r) PROVE IInv' /\ Explained
    BY <1>3, MergeKeeps
  <1> QED  BY <1>1, <1>2, <1>3 DEF Combine

LEMMA StepKeeps ==
    ASSUME IInv, [Next]_vars
    PROVE  IInv' /\ Explained
  <1>1. CASE UNCHANGED vars
    <2>1. omt' = omt /\ use' = use /\ aborted' = aborted
      BY <1>1 DEF vars
    <2>2. omt = [m \in Handle |-> omt[m]] /\ aborted \in BOOLEAN
      BY DEF IInv
    <2>3. Explained
      BY <2>1 DEF Explained, Contained, MarksHeld, Created
    <2> QED  BY <2>1, <2>2, <2>3, SomeKeep
  <1>2. ASSUME NEW n \in Handle, Construct(n) \/ Edit(n) \/ Combine(n) PROVE IInv' /\ Explained
    BY <1>2, ConstructKeeps, EditKeeps, CombineKeeps
  <1> QED  BY <1>1, <1>2 DEF Next

\* The inductive invariant: whatever calls the callers of the objects make, in any
\* order, each object is one that every operation of omt.cc can work on.
THEOREM Invariant == Spec => []IInv
  <1>1. Init => IInv
    BY DEF Init, IInv, Created
  <1>2. IInv /\ [Next]_vars => IInv'
    BY StepKeeps
  <1> QED  BY <1>1, <1>2, PTL DEF Spec

-----------------------------------------------------------------------------
(* What the invariant implies                                              *)

LEMMA StructuresHeld ==
    ASSUME IInv
    PROVE  use \in Uses /\ \A o \in Structures : Held(o)
  BY DEF IInv, Structures

LEMMA HeldIsSound ==
    ASSUME NEW o, Held(o), use \in Uses
    PROVE  /\ o.is_array \in BOOLEAN /\ o.capacity \in Nat
           /\ Contents(o) \in Seq(Value)
           /\ o.is_array => o.start_idx \in Nat /\ ~SupportsMarks
           /\ ~o.is_array => /\ o.free_idx \in Nat
                             /\ Exact(o.root) /\ Even(o.root) /\ Consistent(o.root)
  <1>1. Sound(o) /\ (SupportsMarks => ~o.is_array) /\ Contents(o) \in Seq(Value)
    BY HeldIs
  <1>2. CASE ArrayOf(o)
    <2>1. o.is_array = TRUE /\ o.capacity \in Nat /\ o.start_idx \in Nat
      BY <1>2 DEF ArrayOf, Array
    <2> QED  BY <1>1, <2>1
  <1>3. CASE TreeOf(o) /\ Consistent(o.root)
    <2>1. o.is_array = FALSE /\ o.capacity \in Nat /\ o.free_idx \in Nat /\ Exact(o.root) /\ Even(o.root)
      BY <1>3 DEF TreeOf, Tree
    <2> QED  BY <1>1, <1>3, <2>1
  <1> QED  BY <1>1, <1>2, <1>3 DEF Sound

\* Every reachable structure is typed, its weights exact, its trees balanced and
\* their marks consistent: the theorem of TreesSound.
LEMMA InvariantSound == IInv => TreesSound
  <1> SUFFICES ASSUME IInv PROVE TreesSound
    OBVIOUS
  <1>1. use \in Uses /\ \A o \in Structures : Held(o)
    BY StructuresHeld
  <1>2. aborted \in BOOLEAN
    BY DEF IInv
  <1>3. TypeOK
    BY <1>1, <1>2, HeldIsSound DEF TypeOK
  <1>4. \A o \in Trees : Exact(o.root) /\ Even(o.root) /\ Consistent(o.root)
    BY <1>1, HeldIsSound DEF Trees
  <1>5. WeightsExact
    BY <1>4 DEF WeightsExact, Exact
  <1>6. Balanced
    BY <1>4 DEF Balanced, Even
  <1>7. MarksConsistent
    BY <1>4 DEF MarksConsistent, Consistent, Marked
  <1> QED  BY <1>3, <1>5, <1>6, <1>7 DEF TreesSound

\* TreesSound: after every call of omt.cc the weights a tree navigates by are exact, no
\* node is lopsided and the cached "marks below" bits are true, for every size of tree.
THEOREM Soundness == Spec => []TreesSound
  BY Invariant, InvariantSound, PTL

\* The answer to a lookup, over the slots as the property numbers them.
LEMMA LookedSlots ==
    ASSUME NEW V \in Seq(Value), NEW k \in Value, NEW z, NEW p, NEW m, Looked(V, z, p, m, k)
    PROVE  /\ z.idx \in 0 .. Len(V)
           /\ \A i \in 0 .. Len(V) - 1 : i < z.idx <=> h(V[i + 1], k) < 0
           /\ z.found <=> z.idx \in 0 .. Len(V) - 1 /\ h(V[z.idx + 1], k) = 0
           /\ p \in 0 .. Len(V) - 1 \cup {-1}
           /\ \A i \in 0 .. Len(V) - 1 : h(V[i + 1], k) > 0 <=> (p # -1 /\ i >= p)
           /\ m \in 0 .. Len(V) - 1 \cup {-1}
           /\ \A i \in 0 .. Len(V) - 1 : h(V[i + 1], k) < 0 <=> i <= m
  <1>1. /\ z.found \in BOOLEAN /\ z.idx \in 0 .. Len(V)
        /\ \A i \in 1 .. Len(V) : V[i] < k <=> i <= z.idx
        /\ z.found <=> z.idx < Len(V) /\ V[z.idx + 1] = k
    BY DEF Looked, ZeroIs
  <1>2. /\ p \in -1 .. Len(V) - 1
        /\ \A i \in 1 .. Len(V) : V[i] > k <=> p # -1 /\ p < i
    BY DEF Looked, PlusIs
  <1>3. /\ m \in -1 .. Len(V) - 1
        /\ \A i \in 1 .. Len(V) : V[i] < k <=> i <= m + 1
    BY DEF Looked, MinusIs
  <1>4. k \in Int /\ (\A i \in 1 .. Len(V) : V[i] \in Int) /\ Len(V) \in Nat
    BY Integers_
  <1> DEFINE n == Len(V)
             e == z.idx
  <1> HIDE DEF n, e
  <1>5. e \in 0 .. n /\ n \in Nat
    BY <1>1, <1>4 DEF n, e
  <1>6. ASSUME NEW i \in 0 .. n - 1
        PROVE  /\ V[i + 1] \in Int /\ i \in Nat
               /\ h(V[i + 1], k) < 0 <=> V[i + 1] < k
               /\ h(V[i + 1], k) > 0 <=> V[i + 1] > k
               /\ h(V[i + 1], k) = 0 <=> V[i + 1] = k
               /\ V[i + 1] < k <=> i + 1 <= e
               /\ V[i + 1] > k <=> p # -1 /\ p < i + 1
               /\ V[i + 1] < k <=> i + 1 <= m + 1
    <2> DEFINE j == i + 1
    <2>1. j \in 1 .. Len(V) /\ i \in Nat
      BY <1>5 DEF n
    <2> HIDE DEF j
    <2>2. V[j] \in Int
      BY <1>4, <2>1
    <2>3. (V[j] < k <=> j <= e) /\ (V[j] > k <=> p # -1 /\ p < j) /\ (V[j] < k <=> j <= m + 1)
      BY <1>1, <1>2, <1>3, <2>1 DEF e
    <2>4. (h(V[j], k) < 0 <=> V[j] < k) /\ (h(V[j], k) > 0 <=> V[j] > k) /\ (h(V[j], k) = 0 <=> V[j] = k)
      BY <1>4, <2>2 DEF h
    <2> QED  BY <2>1, <2>2, <2>3, <2>4 DEF j
  <1>7. p \in -1 .. n - 1 /\ m \in -1 .. n - 1
    BY <1>2, <1>3 DEF n
  <1>8. \A i \in 0 .. n - 1 : i < e <=> h(V[i + 1], k) < 0
    <2> SUFFICES ASSUME NEW i \in 0 .. n - 1 PROVE i < e <=> h(V[i + 1], k) < 0
      OBVIOUS
    <2>1. i < e <=> i + 1 <= e
      BY <1>5
    <2> QED  BY <1>6, <2>1
  <1>9. z.found <=> e \in 0 .. n - 1 /\ h(V[e + 1], k) = 0
    <2>1. z.found <=> e < n /\ V[e + 1] = k
      BY <1>1 DEF e, n
    <2>2. e < n <=> e \in 0 .. n - 1
      BY <1>5
    <2> QED  BY <1>6, <2>1, <2>2
  <1>10. \A i \in 0 .. n - 1 : h(V[i + 1], k) > 0 <=> (p # -1 /\ i >= p)
    <2> SUFFICES ASSUME NEW i \in 0 .. n - 1 PROVE h(V[i + 1], k) > 0 <=> (p # -1 /\ i >= p)
      OBVIOUS
    <2>1. p < i + 1 <=> i >= p
      BY <1>5, <1>7
    <2> QED  BY <1>6, <2>1
  <1>11. \A i \in 0 .. n - 1 : h(V[i + 1], k) < 0 <=> i <= m
    <2> SUFFICES ASSUME NEW i \in 0 .. n - 1 PROVE h(V[i + 1], k) < 0 <=> i <= m
      OBVIOUS
    <2>1. i + 1 <= m + 1 <=> i <= m
      BY <1>5, <1>7
    <2> QED  BY <1>6, <2>1
  <1>12. p \in 0 .. n - 1 \cup {-1} /\ m \in 0 .. n - 1 \cup {-1}
    BY <1>5, <1>7
  <1> QED  BY <1>5, <1>8, <1>9, <1>10, <1>11, <1>12 DEF n, e

LEMMA InvariantLookups == IInv => LookupsExact
  <1> SUFFICES ASSUME IInv, Ordered, NEW o \in Structures, NEW k \in Value
               PROVE  LET V == Contents(o)
                          slot(i) == V[i + 1]
                          slots == 0 .. Len(V) - 1
                          z == FindZero(o, k)
                          p == FindPlus(o, k)
                          m == FindMinus(o, k)
                      IN  /\ z.idx \in 0 .. Len(V)
                          /\ \A i \in slots : i < z.idx <=> h(slot(i), k) < 0
                          /\ z.found <=> z.idx \in slots /\ h(slot(z.idx), k) = 0
                          /\ p \in slots \cup {-1}
                          /\ \A i \in slots : h(slot(i), k) > 0 <=> (p # -1 /\ i >= p)
                          /\ m \in slots \cup {-1}
                          /\ \A i \in slots : h(slot(i), k) < 0 <=> i <= m
    BY DEF LookupsExact
  <1> DEFINE V == Contents(o)
             z == FindZero(o, k)
             p == FindPlus(o, k)
             m == FindMinus(o, k)
  <1>1. use \in Uses /\ Held(o)
    BY StructuresHeld
  <1>2. V \in Seq(Value)
    BY <1>1, HeldIs
  <1>3. Looked(V, z, p, m, k)
    BY <1>1, LookupsOf
  <1> HIDE DEF V, z, p, m
  <1>4. /\ z.idx \in 0 .. Len(V)
        /\ \A i \in 0 .. Len(V) - 1 : i < z.idx <=> h(V[i + 1], k) < 0
        /\ z.found <=> z.idx \in 0 .. Len(V) - 1 /\ h(V[z.idx + 1], k) = 0
        /\ p \in 0 .. Len(V) - 1 \cup {-1}
        /\ \A i \in 0 .. Len(V) - 1 : h(V[i + 1], k) > 0 <=> (p # -1 /\ i >= p)
        /\ m \in 0 .. Len(V) - 1 \cup {-1}
        /\ \A i \in 0 .. Len(V) - 1 : h(V[i + 1], k) < 0 <=> i <= m
    BY <1>2, <1>3, LookedSlots
  <1> QED  BY <1>4 DEF V, z, p, m

LEMMA InvariantSorted == IInv => StaysSorted
  BY StructuresHeld, HeldIs, InOrderIs DEF StaysSorted

LEMMA InvariantReads == IInv => ReadsExact
  <1> SUFFICES ASSUME IInv, NEW o \in Structures
               PROVE  LET V == Contents(o)
                      IN  /\ \A i \in 0 .. Len(V) - 1 : Fetch(o, i) = V[i + 1]
                          /\ \A left, right \in 0 .. Len(V) :
                                left <= right => IterateOnRange(o, left, right) = SubSeq(V, left + 1, right)
    BY DEF ReadsExact
  <1>1. use \in Uses /\ Held(o)
    BY StructuresHeld
  <1>2. Len(Contents(o)) \in Nat
    BY <1>1, HeldIs
  <1>3. \A i \in 0 .. Len(Contents(o)) - 1 : Fetch(o, i) = Contents(o)[i + 1]
    <2> SUFFICES ASSUME NEW i \in 0 .. Len(Contents(o)) - 1 PROVE Fetch(o, i) = Contents(o)[i + 1]
      OBVIOUS
    <2>1. i \in Nat /\ i < Len(Contents(o))
      BY <1>2
    <2> QED  BY <1>1, <2>1, FetchOf
  <1>4. \A left, right \in 0 .. Len(Contents(o)) :
            left <= right => IterateOnRange(o, left, right) = SubSeq(Contents(o), left + 1, right)
    <2> SUFFICES ASSUME NEW left \in 0 .. Len(Contents(o)), NEW right \in 0 .. Len(Contents(o)), left <= right
                 PROVE  IterateOnRange(o, left, right) = SubSeq(Contents(o), left + 1, right)
      OBVIOUS
    <2>1. left \in Nat /\ right \in Nat /\ right <= Len(Contents(o))
      BY <1>2
    <2> QED  BY <1>1, <2>1, IterateOf
  <1> QED  BY <1>3, <1>4

LEMMA InvariantEdits == IInv => EditsExact
  <1> SUFFICES ASSUME IInv, NEW o \in Structures
               PROVE  LET V == Contents(o)
                      IN  IF HasMarks(o)
                          THEN Contents(DeleteMarkedOf(o)) = Sequences_!Without(V, MarkedSlots[o.root][0])
                          ELSE /\ \A v \in Value, i \in 0 .. Len(V) :
                                     Contents(InsertInto(o, v, i)) = S!InsertAt(V, i + 1, v)
                               /\ \A i \in 0 .. Len(V) - 1 :
                                     Contents(DeleteFrom(o, i)) = S!RemoveAt(V, i + 1)
    BY DEF EditsExact
  <1>1. use \in Uses /\ Held(o)
    BY StructuresHeld
  <1>2. Sound(o) /\ (SupportsMarks => ~o.is_array) /\ Len(Contents(o)) \in Nat /\ Len(Contents(o)) <= MaxSize
    BY <1>1, HeldIs
  <1>3. CASE HasMarks(o)
    <2>1. ~o.is_array
      BY <1>3 DEF HasMarks
    <2>2. Becomes(DeleteMarkedOf(o), Sequences_!Without(Contents(o), MarkedSlots[o.root][0]), {})
      BY <1>2, <2>1, DeleteMarkedOfIs
    <2>3. Contents(DeleteMarkedOf(o)) = Sequences_!Without(Contents(o), MarkedSlots[o.root][0])
      BY <2>2 DEF Becomes
    <2> QED  BY <1>3, <2>3
  <1>4. CASE ~HasMarks(o)
    <2>1. Plain(o)
      BY <1>2, <1>4, UnmarkedIsPlain
    <2>2. ASSUME NEW v \in Value, NEW i \in 0 .. Len(Contents(o))
          PROVE  Contents(InsertInto(o, v, i)) = S!InsertAt(Contents(o), i + 1, v)
      <3>1. Contents(InsertInto(o, v, i)) = Put(Contents(o), i, v)
        BY <1>2, <2>1, InsertIntoIs
      <3> QED  BY <3>1 DEF Put
    <2>3. ASSUME NEW i \in 0 .. Len(Contents(o)) - 1
          PROVE  Contents(DeleteFrom(o, i)) = S!RemoveAt(Contents(o), i + 1)
      <3>1. i \in Nat /\ i < Len(Contents(o))
        BY <1>2
      <3>2. Contents(DeleteFrom(o, i)) = Cut(Contents(o), i)
        BY <1>2, <2>1, <3>1, DeleteFromIs
      <3> QED  BY <3>2 DEF Cut
    <2> QED  BY <1>4, <2>2, <2>3
  <1> QED  BY <1>3, <1>4

\* AnswersExact: in every reachable structure find_zero, find, fetch, iterate_on_range,
\* insert_at, delete_at and delete_all_marked answer what omt.h says of its values.
THEOREM Answers == Spec => []AnswersExact
  <1>1. IInv => AnswersExact
    BY InvariantLookups, InvariantSorted, InvariantReads, InvariantEdits DEF AnswersExact
  <1> QED  BY <1>1, Invariant, PTL

\* CombinesExact: split_at gives its values from idx to the new object, merge appends the
\* right values to the left ones and clone copies, for the objects that were named.
THEOREM CombinesExactAlways == Spec => CombinesExact
  <1> DEFINE Exactly ==
        \A n, m \in Handle :
            /\ \A i \in 0 .. MaxSize : split_at(n, m, i) => Sequences_!SeqSplitAt(n, m, i)
            /\ clone(m, n) /\ ~aborted' => Sequences_!SeqClone(m, n)
            /\ \A r \in Handle : merge(n, m, r) /\ ~aborted' => Sequences_!SeqMerge(n, m, r)
  <1>1. IInv /\ [Next]_vars => [Exactly]_vars
    <2> SUFFICES ASSUME IInv PROVE Exactly
      OBVIOUS
    <2> TAKE n, m \in Handle
    <2>1. \A i \in 0 .. MaxSize : split_at(n, m, i) => Sequences_!SeqSplitAt(n, m, i)
      BY OmtAssumption, SplitKeeps
    <2>2. clone(m, n) /\ ~aborted' => Sequences_!SeqClone(m, n)
      BY CloneKeeps
    <2>3. \A r \in Handle : merge(n, m, r) /\ ~aborted' => Sequences_!SeqMerge(n, m, r)
      BY MergeKeeps
    <2> QED  BY <2>1, <2>2, <2>3
  <1> QED  BY <1>1, Invariant, PTL DEF Spec, CombinesExact

\* ImplementsSequence: what a caller can see of its objects, the sequence of the values of
\* each and its marked slots, is what omt.h promises, as stated in OmtSeq, in every step.
THEOREM ImplementsSequenceAlways == Spec => ImplementsSequence
  <1> DEFINE Step == [Sequences_!SeqNext]_(Sequences_!seqVars)
  <1>1. Init => Sequences_!SeqInit
    BY DEF Init, Sequences_!SeqInit, Created
  <1>2. IInv /\ [Next]_vars => Step
    <2> SUFFICES ASSUME IInv, [Next]_vars PROVE Step
      OBVIOUS
    <2>1. Explained
      BY StepKeeps
    <2>2. Contained' = Contained /\ MarksHeld' = MarksHeld /\ use' = use => UNCHANGED Sequences_!seqVars
      BY DEF Sequences_!seqVars, Contained, MarksHeld
    <2> QED  BY <2>1, <2>2 DEF Explained
  <1> QED  BY <1>1, <1>2, Invariant, PTL DEF Spec, ImplementsSequence, Sequences_!SeqSpec
=============================================================================
