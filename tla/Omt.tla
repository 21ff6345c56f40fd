-------------------------------- MODULE Omt --------------------------------
(***************************************************************************)
(* The order maintenance tree of TokuDB (toku_utils/01.OMT/omt_lib): an    *)
(* array with spare room at both ends that becomes a weight-balanced tree  *)
(* when an edit hits its middle, and an array again when the tree is       *)
(* rebuilt.  With SupportsMarks it is always a tree, whose nodes carry a   *)
(* "marked" bit and a cached "marks below" bit.                            *)
(*                                                                         *)
(* A subtree is the node it points to, or NODE_NULL: a node is reached by  *)
(* one link only, so its index in the nodes array is left out.  The bump   *)
(* allocator stays as free_idx.  A call that returns EINVAL or             *)
(* DB_KEYEXIST changes nothing and is not a step.                          *)
(***************************************************************************)
EXTENDS Integers, Sequences, OmtCapacity
S == INSTANCE SequencesExt

CONSTANTS Handle, Value, Absent, Uses, Rewrite,  \* as in OmtSeq
          MaxSize                               \* bound on the number of values

ASSUME OmtAssumption ==
    /\ Value \subseteq Int
    /\ MaxSize \in Nat
    /\ Absent \notin Seq(Value)
    /\ Uses \subseteq [marks : BOOLEAN, ordered : BOOLEAN, max : 0 .. MaxSize, values : SUBSET Value]
    /\ Rewrite \in [Value -> Value]
    \* A caller that uses lookups keeps the sign of h monotone, in iterate_ptr too.
    /\ \A u \in Uses : u.ordered => \A a, b \in Value : a <= b => Rewrite[a] <= Rewrite[b]

VARIABLES omt,      \* handle -> structure, or Absent
          aborted,  \* an invariant() of the code failed and ended the process
          use       \* as in OmtSeq; it never changes

vars == <<omt, aborted, use>>

SupportsMarks == use.marks  \* the third template parameter
Ordered == use.ordered

NODE_NULL == [weight |-> 0]
Node(weight, left, value, right) ==
    [weight |-> weight, left |-> left, right |-> right, value |-> value,
     marked |-> FALSE, below |-> FALSE]

Array(capacity, start_idx, values) ==
    [is_array |-> TRUE, capacity |-> capacity, start_idx |-> start_idx, values |-> values]
Tree(capacity, root, free_idx) ==
    [is_array |-> FALSE, capacity |-> capacity, root |-> root, free_idx |-> free_idx]

-----------------------------------------------------------------------------
(* Subtrees                                                                *)

\* The subtrees of so many levels; an insertion of the last value makes one more.
Levels[d \in 0 .. MaxSize + 1] ==
    IF d = 0 THEN {NODE_NULL}
    ELSE LET below == Levels[d - 1]
         IN  {NODE_NULL} \cup [weight : Nat, left : below, value : Value, right : below,
                               marked : BOOLEAN, below : BOOLEAN]
Subtree == Levels[MaxSize + 1]

\* The objects there can be, and the value that stands for none of them.
Structure == [is_array : {TRUE}, capacity : Nat, start_idx : Nat, values : Seq(Value)]
             \cup [is_array : {FALSE}, capacity : Nat, root : Subtree, free_idx : Nat]
ASSUME AbsentAssumption == Absent \notin Structure

Slot == 0 .. MaxSize
Sequence == {s \in Seq(Value) : Len(s) <= MaxSize + 1}

\* In-order values: fill_array_with_subtree_values.
Values[t \in Subtree] ==
    IF t = NODE_NULL THEN << >> ELSE Values[t.left] \o <<t.value>> \o Values[t.right]

\* rebuild_from_sorted_array, and rebuild_subtree_from_idxs, which keeps the nodes.
Rebuild[s \in Sequence] ==
    IF s = << >> THEN NODE_NULL
    ELSE LET halfway == Len(s) \div 2
         IN  Node(Len(s), Rebuild[SubSeq(s, 1, halfway)], s[halfway + 1],
                  Rebuild[SubSeq(s, halfway + 2, Len(s))])

WillNeedRebalance(t, leftmod, rightmod) ==
    t # NODE_NULL /\ Lopsided(t.left.weight + leftmod, t.right.weight + rightmod)

InsertLopsides(t, i) ==
    WillNeedRebalance(t, IF i <= t.left.weight THEN 1 ELSE 0, IF i <= t.left.weight THEN 0 ELSE 1)

DeleteLopsides_Stale(t, i) ==  \* mutant: the weights before the deletion
    /\ ~(i = t.left.weight /\ NODE_NULL \in {t.left, t.right})
    /\ WillNeedRebalance(t, 0, 0)
DeleteLopsides(t, i) ==
    /\ ~(i = t.left.weight /\ NODE_NULL \in {t.left, t.right})
    /\ WillNeedRebalance(t, IF i < t.left.weight THEN -1 ELSE 0, IF i < t.left.weight THEN 0 ELSE -1)

\* rebalance() of a subtree other than the root, once the recursion is over.
Rebalanced(needed, t) == IF needed THEN Rebuild[Values[t]] ELSE t

\* insert_internal; done: a node above is going to be rebalanced already.
InsertInternal[t \in Subtree] == [v \in Value |-> [i \in Slot |-> [done \in BOOLEAN |->
    IF t = NODE_NULL THEN Node(1, NODE_NULL, v, NODE_NULL)
    ELSE LET now == ~done /\ InsertLopsides(t, i)
             grown == IF i <= t.left.weight
                      THEN [t EXCEPT !.weight = @ + 1,
                                     !.left = InsertInternal[@][v][i][done \/ now]]
                      ELSE [t EXCEPT !.weight = @ + 1,
                                     !.right = InsertInternal[@][v][i - t.left.weight - 1][done \/ now]]
         IN  Rebalanced(now, grown)]]]

\* delete_internal: a node with two children takes over the first value to its right.
\* The branch for NODE_NULL, here and in the next ones, stands where the code has a
\* paranoid_invariant: no call reaches it.
DeleteInternal[t \in Subtree] == [i \in Slot |-> [done \in BOOLEAN |->
    IF t = NODE_NULL THEN t ELSE
    LET now == ~done /\ DeleteLopsides(t, i)
        hit == i = t.left.weight
        first == Head(Values[t.right])
        shrunk ==
            IF i < t.left.weight
            THEN [t EXCEPT !.weight = @ - 1, !.left = DeleteInternal[@][i][done \/ now]]
            ELSE [t EXCEPT !.weight = @ - 1,
                           !.value = IF hit THEN first ELSE @,
                           !.right = DeleteInternal[@][IF hit THEN 0 ELSE i - t.left.weight - 1]
                                                      [done \/ now]]
    IN  IF hit /\ t.left = NODE_NULL THEN t.right
        ELSE IF hit /\ t.right = NODE_NULL THEN t.left
        ELSE Rebalanced(now, shrunk)]]

SetAtInternal[t \in Subtree] == [v \in Value |-> [i \in Slot |->
    IF t = NODE_NULL THEN t
    ELSE IF i < t.left.weight THEN [t EXCEPT !.left = SetAtInternal[@][v][i]]
    ELSE IF i = t.left.weight THEN [t EXCEPT !.value = v]
    ELSE [t EXCEPT !.right = SetAtInternal[@][v][i - t.left.weight - 1]]]]

\* iterate_ptr_internal over the whole tree.
RewriteInternal[t \in Subtree] ==
    IF t = NODE_NULL THEN t
    ELSE [t EXCEPT !.left = RewriteInternal[@], !.value = Rewrite[@], !.right = RewriteInternal[@]]

-----------------------------------------------------------------------------
(* Marks.  idx is the slot of the leftmost value of t.                     *)

HasMarks(o) == ~o.is_array /\ o.root # NODE_NULL /\ (o.root.below \/ o.root.marked)

\* iterate_and_mark_range_internal.  A callback that stops the iteration at slot
\* s has the marks of the range [left, s + 1).
MarkRange[t \in Subtree] == [left \in Slot |-> [right \in Slot |-> [idx \in Slot |->
    IF t = NODE_NULL THEN t ELSE
    LET root == idx + t.left.weight
        goLeft == left < root /\ t.left # NODE_NULL
        goRight == root + 1 < right /\ t.right # NODE_NULL
    IN  [t EXCEPT !.below = @ \/ goLeft \/ goRight,
                  !.left = IF goLeft THEN MarkRange[@][left][right][idx] ELSE @,
                  !.marked = @ \/ (left <= root /\ root < right),
                  !.right = IF goRight THEN MarkRange[@][left][right][root + 1] ELSE @]]]]

\* iterate_over_marked_internal: the slots it visits, in order.
OverMarked[t \in Subtree] == [idx \in Slot |->
    IF t = NODE_NULL THEN << >>
    ELSE LET root == idx + t.left.weight
         IN  (IF t.below THEN OverMarked[t.left][idx] ELSE << >>)
             \o (IF t.marked THEN <<root>> ELSE << >>)
             \o (IF t.below THEN OverMarked[t.right][root + 1] ELSE << >>)]

ClearStolenBits_BelowOnly(t) == [t EXCEPT !.below = FALSE]  \* mutant: the node stays marked
ClearStolenBits(t) == [t EXCEPT !.marked = FALSE, !.below = FALSE]

\* unmark: it visits what iterate_over_marked visits, and clears the bits on its way.
Unmark[t \in Subtree] ==
    IF t = NODE_NULL THEN t
    ELSE ClearStolenBits([t EXCEPT !.left = IF t.below THEN Unmark[@] ELSE @,
                                   !.right = IF t.below THEN Unmark[@] ELSE @])

-----------------------------------------------------------------------------
(* Whole structures                                                        *)

Size(o) == IF o.is_array THEN Len(o.values) ELSE o.root.weight
Contents(o) == IF o.is_array THEN o.values ELSE Values[o.root]

ConvertToArray(o) == IF o.is_array THEN o ELSE Array(SizeFor(Size(o)), 0, Contents(o))

ConvertToTree_SameBlock(o) ==  \* mutant: the capacity of the array is kept
    IF o.is_array THEN Tree(o.capacity, Rebuild[o.values], Size(o)) ELSE o
ConvertToTree(o) ==
    IF o.is_array THEN Tree(SizeFor(Size(o)), Rebuild[o.values], Size(o)) ELSE o

\* "if (supports_marks) convert_to_tree()", the last line of every constructor.
Settled(o) == IF SupportsMarks THEN ConvertToTree(o) ELSE o

MaybeResizeArray(o, n) ==
    IF ArrayMustMove(o.capacity, o.start_idx, n) THEN Array(SizeFor(n), 0, o.values) ELSE o

MaybeResizeOrConvert(o, n) ==
    IF o.is_array THEN MaybeResizeArray(o, n)
    ELSE IF TreeMustConvert(o.capacity, o.free_idx, Size(o), n) THEN Settled(ConvertToArray(o))
    ELSE o

\* rebalance() of the root goes through an array.
RebalanceRoot(needed, o) == IF needed THEN Settled(ConvertToArray(o)) ELSE o

\* insert_at stays in an array at its end, and at its front if there is room.
InsertTurnsToTree(o, i) == o.is_array /\ i # Size(o) /\ (i # 0 \/ o.start_idx = 0)

InsertInto(o, v, i) ==
    LET r == MaybeResizeOrConvert(o, Size(o) + 1)
        p == IF InsertTurnsToTree(r, i) THEN ConvertToTree(r) ELSE r
    IN  IF p.is_array
        THEN IF i = Size(p) THEN [p EXCEPT !.values = Append(@, v)]
             ELSE [p EXCEPT !.values = <<v>> \o @, !.start_idx = @ - 1]
        ELSE RebalanceRoot(p.root # NODE_NULL /\ InsertLopsides(p.root, i),
                           [p EXCEPT !.root = InsertInternal[@][v][i][FALSE], !.free_idx = @ + 1])

\* delete_at stays in an array at either end.
DeleteTurnsToTree(o, i) == o.is_array /\ i # 0 /\ i # Size(o) - 1

DeleteFrom(o, i) ==
    LET r == MaybeResizeOrConvert(o, Size(o) - 1)
        p == IF DeleteTurnsToTree(r, i) THEN ConvertToTree(r) ELSE r
    IN  IF p.is_array
        THEN IF i # Size(p) - 1 THEN [p EXCEPT !.values = Tail(@), !.start_idx = @ + 1]
             ELSE [p EXCEPT !.values = S!Front(@)]
        ELSE RebalanceRoot(DeleteLopsides(p.root, i),
                           [p EXCEPT !.root = DeleteInternal[@][i][FALSE]])

ClearOf(o) ==
    IF o.is_array THEN Array(o.capacity, 0, << >>) ELSE Tree(o.capacity, NODE_NULL, 0)

\* delete_all_marked: from left to right, each slot shifted by the number already deleted.
DeleteMarkedOf(o) ==
    LET slots == OverMarked[o.root][0]
        After[k \in 0 .. Len(slots)] ==
            IF k = 0 THEN [o EXCEPT !.root = Unmark[@]]
            ELSE DeleteFrom(After[k - 1], slots[k] - (k - 1))
    IN  After[Len(slots)]
-----------------------------------------------------------------------------
(* Lookups.  h(v, k) is v - k.  A result is [found, idx].                  *)

h(v, k) == v - k

\* A binary search from slot min up to limit is given what it found so far.
Best == [pos : Slot \cup {-1}, zero : Slot \cup {-1}]
None == [pos |-> -1, zero |-> -1]

ZeroResult_NoPos(s, best) ==  \* mutant: the slot of a missing value is the end
    [found |-> best.zero # -1, idx |-> IF best.zero # -1 THEN best.zero ELSE Len(s)]
ZeroResult(s, best) ==
    [found |-> best.zero # -1,
     idx |-> IF best.zero # -1 THEN best.zero
             ELSE IF best.pos # -1 THEN best.pos ELSE Len(s)]

FindZeroArray(s, k) ==
    LET Search[min \in 0 .. Len(s)] == [limit \in min .. Len(s) |-> [best \in Best |->
            IF min = limit THEN ZeroResult(s, best)
            ELSE LET mid == (min + limit) \div 2
                     hv == h(s[mid + 1], k)
                 IN  IF hv < 0 THEN Search[mid + 1][limit][best]
                     ELSE IF hv > 0 THEN Search[min][mid][[best EXCEPT !.pos = mid]]
                     ELSE Search[min][mid][[best EXCEPT !.zero = mid]]]]
    IN  Search[0][Len(s)][None]

FindZeroTree[t \in Subtree] == [k \in Value |->
    IF t = NODE_NULL THEN [found |-> FALSE, idx |-> 0]
    ELSE LET hv == h(t.value, k)
             left == FindZeroTree[t.left][k]
         IN  IF hv < 0 THEN [FindZeroTree[t.right][k] EXCEPT !.idx = @ + t.left.weight + 1]
             ELSE IF hv = 0 /\ ~left.found THEN [found |-> TRUE, idx |-> t.left.weight]
             ELSE left]

FindZero(o, k) ==
    IF o.is_array THEN FindZeroArray(o.values, k) ELSE FindZeroTree[o.root][k]

\* find(+1) and find(-1); an index of -1 stands for DB_NOTFOUND.
FindPlusArray(s, k) ==
    LET Search[min \in 0 .. Len(s)] == [limit \in min .. Len(s) |-> [best \in Slot \cup {-1} |->
            IF min = limit THEN best
            ELSE LET mid == (min + limit) \div 2
                 IN  IF h(s[mid + 1], k) > 0 THEN Search[min][mid][mid]
                     ELSE Search[mid + 1][limit][best]]]
    IN  Search[0][Len(s)][-1]
FindPlusTree[t \in Subtree] == [k \in Value |->
    IF t = NODE_NULL THEN -1
    ELSE LET below == IF h(t.value, k) > 0 THEN FindPlusTree[t.left][k] ELSE FindPlusTree[t.right][k]
         IN  IF h(t.value, k) > 0
             THEN IF below = -1 THEN t.left.weight ELSE below
             ELSE IF below = -1 THEN -1 ELSE below + t.left.weight + 1]

FindMinusArray(s, k) ==
    LET Search[min \in 0 .. Len(s)] == [limit \in min .. Len(s) |-> [best \in Slot \cup {-1} |->
            IF min = limit THEN best
            ELSE LET mid == (min + limit) \div 2
                 IN  IF h(s[mid + 1], k) < 0 THEN Search[mid + 1][limit][mid]
                     ELSE Search[min][mid][best]]]
    IN  Search[0][Len(s)][-1]
FindMinusTree[t \in Subtree] == [k \in Value |->
    IF t = NODE_NULL THEN -1
    ELSE IF h(t.value, k) < 0
         THEN LET below == FindMinusTree[t.right][k]
              IN  IF below = -1 THEN t.left.weight ELSE below + t.left.weight + 1
         ELSE FindMinusTree[t.left][k]]

FindPlus(o, k) == IF o.is_array THEN FindPlusArray(o.values, k) ELSE FindPlusTree[o.root][k]
FindMinus(o, k) == IF o.is_array THEN FindMinusArray(o.values, k) ELSE FindMinusTree[o.root][k]

FetchInternal[t \in Subtree] == [i \in Slot |->
    IF t = NODE_NULL THEN Absent
    ELSE IF i < t.left.weight THEN FetchInternal[t.left][i]
    ELSE IF i = t.left.weight THEN t.value
    ELSE FetchInternal[t.right][i - t.left.weight - 1]]

Fetch(o, i) == IF o.is_array THEN o.values[i + 1] ELSE FetchInternal[o.root][i]

\* iterate_internal over [left, right): the values handed to the callback.
IterateTree[t \in Subtree] == [left \in Slot |-> [right \in Slot |-> [idx \in Slot |->
    IF t = NODE_NULL THEN << >>
    ELSE LET root == idx + t.left.weight
         IN  (IF left < root THEN IterateTree[t.left][left][right][idx] ELSE << >>)
             \o (IF left <= root /\ root < right THEN <<t.value>> ELSE << >>)
             \o (IF root + 1 < right THEN IterateTree[t.right][left][right][root + 1] ELSE << >>)]]]

IterateOnRange(o, left, right) ==
    IF o.is_array THEN SubSeq(o.values, left + 1, right) ELSE IterateTree[o.root][left][right][0]

-----------------------------------------------------------------------------
(* Operations of a caller                                                  *)

Created(n) == omt[n] # Absent
InOrder(s) == S!IsSorted(s, LAMBDA a, b : a <= b)

\* The sequences a caller builds by position: bounded, and sorted if it wants lookups.
Legal(s) ==
    /\ Len(s) <= use.max
    /\ \A i \in DOMAIN s : s[i] \in use.values
    /\ Ordered => InOrder(s)

\* barf_if_marked ends the process; a caller unmarks first.
Unmarked(n) == Created(n) /\ ~HasMarks(omt[n])

\* use.max bounds the values that all objects hold together.
Total(others) == S!MapThenSumSet(LAMBDA m : IF Created(m) THEN Size(omt[m]) ELSE 0, others)

Stays(n, o) ==
    /\ Size(o) <= use.max /\ Size(o) + Total(Handle \ {n}) <= use.max
    /\ omt' = [omt EXCEPT ![n] = o]
    /\ UNCHANGED <<aborted, use>>

Init ==
    /\ omt = [n \in Handle |-> Absent]
    /\ aborted = FALSE
    /\ use \in Uses

create(n) == ~Created(n) /\ Stays(n, Settled(Array(2, 0, << >>)))

create_no_array(n) ==
    /\ ~Created(n)
    /\ Stays(n, IF SupportsMarks THEN Tree(0, NODE_NULL, 0) ELSE Array(0, 0, << >>))

create_from_sorted_array(n, values) ==
    ~Created(n) /\ Stays(n, Settled(Array(Len(values), 0, values)))

\* The caller's array has at least the capacity it states (see OmtStorage).
create_steal_sorted_array(n, values, spare) ==
    ~Created(n) /\ Stays(n, Settled(Array(Len(values) + spare, 0, values)))

insert_at(n, v, i) ==
    /\ Unmarked(n)
    /\ i <= Size(omt[n])
    /\ Stays(n, InsertInto(omt[n], v, i))

insert(n, v) ==
    /\ Ordered
    /\ v \in use.values
    /\ Created(n)
    /\ ~FindZero(omt[n], v).found
    /\ insert_at(n, v, FindZero(omt[n], v).idx)

set_at(n, v, i) ==
    /\ Unmarked(n)
    /\ i < Size(omt[n])
    /\ Stays(n, IF omt[n].is_array THEN [omt[n] EXCEPT !.values[i + 1] = v]
                ELSE [omt[n] EXCEPT !.root = SetAtInternal[@][v][i]])

delete_at(n, i) ==
    /\ Unmarked(n)
    /\ i < Size(omt[n])
    /\ Stays(n, DeleteFrom(omt[n], i))

clear(n) == Created(n) /\ Stays(n, ClearOf(omt[n]))

destroy(n) ==
    /\ Created(n)
    /\ omt' = [omt EXCEPT ![n] = Absent]
    /\ UNCHANGED <<aborted, use>>

iterate_ptr(n) ==
    /\ Created(n)
    /\ Stays(n, IF omt[n].is_array THEN [omt[n] EXCEPT !.values = [j \in DOMAIN @ |-> Rewrite[@[j]]]]
                ELSE [omt[n] EXCEPT !.root = RewriteInternal[@]])

SplitLeft_All(o, i) == Settled(MaybeResizeArray(ConvertToArray(o), i))  \* mutant
SplitLeft(o, i) ==
    LET a == [ConvertToArray(o) EXCEPT !.values = SubSeq(@, 1, i)]
    IN  Settled(MaybeResizeArray(a, i))

split_at(n, new, i) ==
    /\ Unmarked(n) /\ ~Created(new)
    /\ i <= Size(omt[n])
    /\ LET all == Contents(omt[n])
       IN  omt' = [omt EXCEPT ![n] = SplitLeft(omt[n], i),
                              ![new] = Settled(Array(Len(all) - i, 0, SubSeq(all, i + 1, Len(all))))]
    /\ UNCHANGED <<aborted, use>>

\* barf_if_marked(*this) of a constructor reads the object before it is
\* created: with SupportsMarks what it finds there is undefined, and the
\* constructor may abort instead of doing its work.
ConstructorAborts(t) ==
    /\ SupportsMarks
    /\ ~Created(t)
    /\ aborted' = TRUE
    /\ UNCHANGED <<omt, use>>

clone(t, n) ==
    /\ ~Created(t) /\ Created(n)
    /\ \/ Stays(t, Settled(Array(Size(omt[n]), 0, Contents(omt[n]))))
       \/ ConstructorAborts(t)

\* merge takes over the array of the left omt if the right one fits behind it.
StealsLeft_NoStart(left, right) ==  \* mutant: start_idx forgotten
    left.is_array /\ left.capacity - Size(left) >= Size(right)
StealsLeft(left, right) ==
    left.is_array /\ left.capacity - (left.start_idx + Size(left)) >= Size(right)

merge(t, l, r) ==
    /\ ~Created(t) /\ Created(l) /\ Created(r) /\ l # r
    /\ LET left == omt[l]
           all == Contents(left) \o Contents(omt[r])
           joined == IF StealsLeft(left, omt[r]) THEN Array(left.capacity, left.start_idx, all)
                     ELSE Array(Len(all), 0, all)
       IN  \/ /\ Len(all) <= use.max
              /\ Ordered => InOrder(all)
              /\ omt' = [omt EXCEPT ![t] = Settled(joined), ![l] = Absent, ![r] = Absent]
              /\ UNCHANGED <<aborted, use>>
           \/ ConstructorAborts(t)

iterate_and_mark_range(n, left, right) ==
    /\ SupportsMarks
    /\ Created(n)
    /\ left < right /\ right <= Size(omt[n])
    /\ Stays(n, [omt[n] EXCEPT !.root = MarkRange[@][left][right][0]])

delete_all_marked(n) ==
    /\ SupportsMarks
    /\ Created(n) /\ HasMarks(omt[n])
    /\ Stays(n, DeleteMarkedOf(omt[n]))

Construct(n) ==
    \/ create(n) \/ create_no_array(n)
    \/ \E values \in S!BoundedSeq(use.values, use.max), spare \in {0, 3} :
          /\ Legal(values)
          /\ \/ spare = 0 /\ create_from_sorted_array(n, values)
             \/ create_steal_sorted_array(n, values, spare)

Edit(n) ==
    \/ \E v \in Value, i \in 0 .. MaxSize :
          \/ insert_at(n, v, i) /\ Legal(S!InsertAt(Contents(omt[n]), i + 1, v))
          \/ set_at(n, v, i) /\ Legal(S!ReplaceAt(Contents(omt[n]), i + 1, v))
    \/ \E v \in Value : insert(n, v)
    \/ \E i \in 0 .. MaxSize : delete_at(n, i)
    \/ clear(n) \/ destroy(n) \/ iterate_ptr(n)
    \/ \E left, right \in 0 .. MaxSize : iterate_and_mark_range(n, left, right)
    \/ delete_all_marked(n)

Combine(n) ==
    \/ \E new \in Handle, i \in 0 .. MaxSize : split_at(n, new, i)
    \/ \E g \in Handle : clone(n, g)
    \/ \E l, r \in Handle : merge(n, l, r)

Next == ~aborted /\ \E n \in Handle : Construct(n) \/ Edit(n) \/ Combine(n)

Spec == Init /\ [][Next]_vars

-----------------------------------------------------------------------------
(* Properties                                                              *)

Nodes[t \in Subtree] ==
    IF t = NODE_NULL THEN {} ELSE {t} \cup Nodes[t.left] \cup Nodes[t.right]

Structures == {omt[n] : n \in {m \in Handle : Created(m)}}
Trees == {o \in Structures : ~o.is_array}

\* Every object is absent or has the fields of its representation; with
\* SupportsMarks it is never an array between two calls.
TypeOK ==
    /\ aborted \in BOOLEAN
    /\ use \in Uses
    /\ \A o \in Structures :
          /\ o.is_array \in BOOLEAN /\ o.capacity \in Nat
          /\ Contents(o) \in Seq(Value)
          /\ o.is_array => o.start_idx \in Nat /\ ~SupportsMarks
          /\ ~o.is_array => o.free_idx \in Nat

\* The cached weight of a node is the number of values under it, whatever
\* mixture of insertions, deletions and rebuilds led there: every positional
\* operation navigates by it.
WeightsExact ==
    \A o \in Trees : \A t \in Nodes[o.root] : t.weight = Len(Values[t])

\* No node is lopsided after an operation, although an insertion or a deletion
\* rebuilds one subtree only, the topmost that needs it.
Balanced == \A o \in Trees : \A t \in Nodes[o.root] : ~WillNeedRebalance(t, 0, 0)

\* verify_marks_consistent: a node says "marks below" exactly when there are some,
\* also when an iteration was stopped half way.
MarksConsistent ==
    \A o \in Trees : \A t \in Nodes[o.root] :
        t.below <=> \E u \in Nodes[t.left] \cup Nodes[t.right] : u.marked

\* Whatever sequence of calls led there, a structure is one every later call may
\* rely on: typed, with exact weights, balanced, its marks consistent.
TreesSound == TypeOK /\ WeightsExact /\ Balanced /\ MarksConsistent

\* insert() puts a value where find_zero says, and that keeps the values sorted
\* for the lookups of every later call.
StaysSorted == Ordered => \A o \in Structures : InOrder(Contents(o))

\* find_zero and find return on an array and on a tree what omt.h says: the
\* smallest slot with h >= 0 (found if h = 0), the smallest with h > 0, the
\* largest with h < 0.
LookupsExact ==
    Ordered =>
    \A o \in Structures, k \in Value :
        LET V == Contents(o)
            slot(i) == V[i + 1]
            slots == 0 .. Len(V) - 1
            z == FindZero(o, k)
            p == FindPlus(o, k)
            m == FindMinus(o, k)
        IN  /\ z.idx \in 0 .. Len(V)
            /\ \A i \in slots : i < z.idx <=> h(slot(i), k) < 0
            /\ z.found <=> z.idx \in slots /\ h(slot(z.idx), k) = 0
            /\ p \in slots \cup {-1}
            /\ \A i \in slots : h(slot(i), k) > 0 <=> (p # -1 /\ i >= p)
            /\ m \in slots \cup {-1}
            /\ \A i \in slots : h(slot(i), k) < 0 <=> i <= m

\* fetch, iterate_on_range and iterate_over_marked see the same sequence and
\* the same marks as a walk of the whole structure.
ReadsExact ==
    \A o \in Structures :
        LET V == Contents(o)
        IN  /\ \A i \in 0 .. Len(V) - 1 : Fetch(o, i) = V[i + 1]
            /\ \A left, right \in 0 .. Len(V) :
                  left <= right => IterateOnRange(o, left, right) = SubSeq(V, left + 1, right)

\* The slots of the nodes whose marked bit is set, found without the cached bits.
MarkedSlots[t \in Subtree] == [idx \in Slot |->
    IF t = NODE_NULL THEN {}
    ELSE LET root == idx + t.left.weight
         IN  MarkedSlots[t.left][idx] \cup (IF t.marked THEN {root} ELSE {})
             \cup MarkedSlots[t.right][root + 1]]

\* An omt is the sequence of its values and the set of its marked slots, and
\* every operation does to them what omt.h says of it.
Sequences_ == INSTANCE OmtSeq WITH
    contents <- [n \in Handle |-> IF Created(n) THEN Contents(omt[n]) ELSE Absent],
    marked <- [n \in Handle |-> IF Created(n) /\ ~omt[n].is_array
                                THEN MarkedSlots[omt[n].root][0] ELSE {}]
ImplementsSequence == Sequences_!SeqSpec

\* What ImplementsSequence cannot see, as it lets any call explain a step: every
\* insertion and deletion happens at the position that was asked for, and
\* delete_all_marked deletes the marked values and no others.
EditsExact ==
    \A o \in Structures :
        LET V == Contents(o)
        IN  IF HasMarks(o)
            THEN Contents(DeleteMarkedOf(o)) = Sequences_!Without(V, MarkedSlots[o.root][0])
            ELSE /\ \A v \in Value, i \in 0 .. Len(V) :
                       Contents(InsertInto(o, v, i)) = S!InsertAt(V, i + 1, v)
                 /\ \A i \in 0 .. Len(V) - 1 :
                       Contents(DeleteFrom(o, i)) = S!RemoveAt(V, i + 1)

\* In every reachable structure lookups, reads and edits answer what omt.h says of
\* the sequence it stands for, whether it is an array or a tree at that moment.
AnswersExact == LookupsExact /\ StaysSorted /\ ReadsExact /\ EditsExact

\* Likewise split_at divides at the position given, merge appends the right
\* values to the left ones, and clone copies, for the objects that were named.
CombinesExact ==
    [][\A n, m \in Handle :
          /\ \A i \in 0 .. MaxSize : split_at(n, m, i) => Sequences_!SeqSplitAt(n, m, i)
          /\ clone(m, n) /\ ~aborted' => Sequences_!SeqClone(m, n)
          /\ \A r \in Handle : merge(n, m, r) /\ ~aborted' => Sequences_!SeqMerge(n, m, r)]_vars
=============================================================================
