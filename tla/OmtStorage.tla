----------------------------- MODULE OmtStorage -----------------------------
(***************************************************************************)
(* The memory of one omt: how many slots its block has, which of them are  *)
(* in use, and which slots every call writes.  Values and the shape of the *)
(* tree are left out (whether the root became lopsided is a free choice),  *)
(* so that it can be proved, for every size, that no call writes outside   *)
(* its block and that an edit leaves the block linear in the values.       *)
(* Omt implements this module (MCOmtStorage).                              *)
(***************************************************************************)
EXTENDS Integers, OmtCapacity

CONSTANTS MaxSize,        \* bound on the number of values
          MaxCapacity,    \* bound on the capacities of blocks that come from a caller
          StealGap        \* by how much a block given to create_steal_sorted_array
                          \* exceeds the capacity that is stated for it

ASSUME StorageAssumption ==
    /\ MaxSize \in Nat
    /\ MaxCapacity \in Nat
    /\ StealGap \subseteq Int

VARIABLES live,           \* the object is created and not destroyed
          st,             \* its storage
          supports_marks  \* the third template parameter; it never changes

vars == <<live, st, supports_marks>>

Storage == [rep : {"array", "tree"},  \* is_array
            capacity : Nat,           \* what the object believes
            alloc : Nat,              \* slots the block really has
            start : Nat,              \* start_idx of an array
            size : Nat,               \* num_values, or the weight of the root
            free : Nat,               \* free_idx of a tree
            strays : SUBSET Int]      \* slots written outside their block, ever

ArrayBlock(capacity, alloc, start, size) ==
    [rep |-> "array", capacity |-> capacity, alloc |-> alloc, start |-> start,
     size |-> size, free |-> 0, strays |-> {}]
EmptyTree(capacity) ==
    [rep |-> "tree", capacity |-> capacity, alloc |-> capacity, start |-> 0,
     size |-> 0, free |-> 0, strays |-> {}]

\* A write of the slots first .. last - 1 of the present block.
Write(s, first, last) ==
    [s EXCEPT !.strays = @ \cup ((first .. last - 1) \ (0 .. s.alloc - 1))]

\* The same block, used otherwise.
Occupy(s, start, size, free) == [s EXCEPT !.start = start, !.size = size, !.free = free]

\* A new block with room for n values, into which the values are copied.
Move(s, rep, n) ==
    Write([rep |-> rep, capacity |-> SizeFor(n), alloc |-> SizeFor(n), start |-> 0,
           size |-> s.size, free |-> IF rep = "tree" THEN s.size ELSE 0, strays |-> s.strays],
          0, s.size)

ToArray(s) == IF s.rep = "array" THEN s ELSE Move(s, "array", s.size)
ToTree(s) == IF s.rep = "tree" THEN s ELSE Move(s, "tree", s.size)
Settled_Doubled(s) ==  \* mutant: the tree believes in twice the slots it has
    IF supports_marks THEN [ToTree(s) EXCEPT !.capacity = 2 * @] ELSE s
Settled(s) == IF supports_marks THEN ToTree(s) ELSE s

ResizedArray(s, n) == IF ArrayMustMove(s.capacity, s.start, n) THEN Move(s, "array", n) ELSE s

\* maybe_resize_or_convert
Resized(s, n) ==
    IF s.rep = "array" THEN ResizedArray(s, n)
    ELSE IF TreeMustConvert(s.capacity, s.free, s.size, n) THEN Settled(ToArray(s))
    ELSE s

RebalancedRoot(lopsided, s) == IF lopsided THEN Settled(ToArray(s)) ELSE s

\* node_malloc takes the slot free_idx without looking.
NodeMalloc(s) == Write(Occupy(s, s.start, s.size + 1, s.free + 1), s.free, s.free + 1)

PutLast(s) ==
    Write(Occupy(s, s.start, s.size + 1, s.free), s.start + s.size, s.start + s.size + 1)
PutFirst(s) == Write(Occupy(s, s.start - 1, s.size + 1, s.free), s.start - 1, s.start)

InsertTurnsToTree_Front(s, i) == s.rep = "array" /\ i # s.size /\ i # 0  \* mutant: front always
InsertTurnsToTree(s, i) == s.rep = "array" /\ i # s.size /\ (i # 0 \/ s.start = 0)

Inserted(s, i, lopsided) ==
    LET r == Resized(s, s.size + 1)
    IN  IF r.rep = "tree" \/ InsertTurnsToTree(r, i)
        THEN RebalancedRoot(lopsided, NodeMalloc(ToTree(r)))
        ELSE IF i = r.size THEN PutLast(r) ELSE PutFirst(r)

DropOne(s, shift) == Occupy(s, s.start + shift, s.size - 1, s.free)

DeleteTurnsToTree(s, i) == s.rep = "array" /\ i # 0 /\ i # s.size - 1

Deleted(s, i, lopsided) ==
    LET r == Resized(s, s.size - 1)
    IN  IF r.rep = "tree" \/ DeleteTurnsToTree(r, i)
        THEN RebalancedRoot(lopsided, DropOne(ToTree(r), 0))
        ELSE DropOne(r, IF i = r.size - 1 THEN 0 ELSE 1)

-----------------------------------------------------------------------------
Init == live = FALSE /\ st = ArrayBlock(0, 0, 0, 0) /\ supports_marks \in BOOLEAN

Becomes(alive, s) == live' = alive /\ st' = s /\ UNCHANGED supports_marks
Starts(s) == ~live /\ Becomes(TRUE, s)
Continues(s) == live /\ Becomes(TRUE, s)

create == Starts(Settled(ArrayBlock(2, 2, 0, 0)))

create_no_array == Starts(IF supports_marks THEN EmptyTree(0) ELSE ArrayBlock(0, 0, 0, 0))

\* Also clone, and the new object of split_at: a block of exactly n slots.
create_from_sorted_array(n) == Starts(Settled(Write(ArrayBlock(n, n, 0, n), 0, n)))

create_steal_sorted_array(n, capacity, gap) ==
    /\ n <= capacity /\ n <= capacity + gap
    /\ Starts(Settled(ArrayBlock(capacity, capacity + gap, 0, n)))

\* The result of a merge: the block of a left array with room at its end, or a new one.
merge(capacity, start, left, right) ==
    \/ /\ start + left <= capacity
       /\ capacity - (start + left) >= right
       /\ Starts(Settled(Write(ArrayBlock(capacity, capacity, start, left + right),
                               start + left, start + left + right)))
    \/ Starts(Settled(Write(ArrayBlock(left + right, left + right, 0, left + right),
                            0, left + right)))

insert_at(i, lopsided) ==
    /\ i <= st.size /\ st.size < MaxSize
    /\ Continues(Inserted(st, i, lopsided))

delete_at(i, lopsided) == i < st.size /\ Continues(Deleted(st, i, lopsided))

clear == Continues(Occupy(st, 0, 0, 0))

split_at(i) ==
    /\ i <= st.size
    /\ Continues(Settled(ResizedArray(Occupy(ToArray(st), ToArray(st).start, i, 0), i)))

\* k deletions in a row.  The tree is either never rebuilt on the way, or last
\* rebuilt when it held m values; in both cases its block passed the last
\* deletion's test for being too large.
delete_all_marked(k) ==
    /\ supports_marks /\ st.rep = "tree" /\ k <= st.size
    /\ LET left == st.size - k
       IN  \/ /\ st.capacity \div 2 < SizeFor(left)
              /\ Continues(Occupy(st, st.start, left, st.free))
           \/ \E m \in left .. st.size :
                 /\ SizeFor(m) \div 2 < SizeFor(left)
                 /\ Continues(Occupy(Move(Occupy(st, st.start, m, st.free), "tree", m), 0, left, m))

destroy == live /\ Becomes(FALSE, ArrayBlock(0, 0, 0, 0))

Construct ==
    \/ create \/ create_no_array
    \/ \E n \in 0 .. MaxSize : create_from_sorted_array(n)
    \/ \E n \in 0 .. MaxSize, capacity \in 0 .. MaxCapacity, gap \in StealGap :
          create_steal_sorted_array(n, capacity, gap)
    \/ \E left \in 0 .. MaxSize, right \in 0 .. MaxSize, capacity \in 0 .. MaxCapacity,
          start \in 0 .. MaxCapacity :
          left + right <= MaxSize /\ merge(capacity, start, left, right)

Change ==
    \/ clear \/ destroy
    \/ \E i \in 0 .. MaxSize, lopsided \in BOOLEAN : insert_at(i, lopsided) \/ delete_at(i, lopsided)
    \/ \E i \in 0 .. MaxSize : split_at(i)
    \/ \E k \in 1 .. MaxSize : delete_all_marked(k)

Next == (~live /\ Construct) \/ (live /\ Change)

Spec == Init /\ [][Next]_vars

-----------------------------------------------------------------------------
TypeOK == live \in BOOLEAN /\ st \in Storage /\ supports_marks \in BOOLEAN

\* No call writes a slot outside the block it writes to: the append, the
\* prepend, node_malloc (whose paranoid_invariant says free_idx < capacity) and
\* every copy into a new block.
NoStrayWrite == st.strays = {}

\* The values of an array are inside its block; those of a tree occupy slots
\* that node_malloc has handed out.
Placed ==
    /\ st.capacity <= st.alloc
    /\ st.rep = "array" => st.start + st.size <= st.capacity
    /\ st.rep = "tree" => st.size <= st.free /\ st.free <= st.capacity

\* "The memory required is O(|V|)" (omt.h): an insertion or a deletion leaves
\* fewer than max(8, 4|V|) slots, also after a clear that kept a large block.
EditKeepsLinear ==
    [][(\E i \in 0 .. MaxSize, lopsided \in BOOLEAN : insert_at(i, lopsided) \/ delete_at(i, lopsided))
       => st'.capacity < 8 \/ st'.capacity < 4 * st'.size]_vars
=============================================================================
