------------------------------ MODULE OmtMarks ------------------------------
(***************************************************************************)
(* Several threads in iterate_and_mark_range and iterate_over_marked of    *)
(* one omt with marks ("MAY be called concurrently by multiple threads",   *)
(* omt.h, line 447).  The two mark bits of a node are stolen from its two  *)
(* links, so that setting a bit reads and writes back a word that other    *)
(* threads are following and marking.  One action is one access to such a  *)
(* word, or one call of the callback.                                      *)
(*                                                                         *)
(* The tree does not change meanwhile.  The stack of a thread and what is  *)
(* left of its present frame are one list of things still to do.           *)
(***************************************************************************)
EXTENDS Integers, Sequences

CONSTANTS Node, NODE_NULL,
          Root,
          Left, Right,    \* the links of each node
          Weight,         \* its weight field
          First,          \* the slot of the leftmost value under it
          Marker, Reader, \* threads that call the one and the other function
          Range           \* the ranges the markers are called for, right excluded

Link == Node \cup {NODE_NULL}
Thread == Marker \cup Reader

nweight(n) == IF n = NODE_NULL THEN 0 ELSE Weight[n]
SlotOf(n) == First[n] + nweight(Left[n])
Slots == 0 .. Weight[Root] - 1
NoRange == [left |-> 0, right |-> 0]

\* The values under m are under n, all to one side of its own.
Under(m, n) ==
    /\ First[n] <= First[m] /\ First[m] + Weight[m] <= First[n] + Weight[n]
    /\ First[m] + Weight[m] <= SlotOf(n) \/ SlotOf(n) < First[m]
Apart(m, n) == First[m] + Weight[m] <= First[n] \/ First[n] + Weight[n] <= First[m]

ASSUME MarksAssumption ==
    /\ NODE_NULL \notin Node /\ Root \in Node
    /\ Left \in [Node -> Link] /\ Right \in [Node -> Link]
    /\ Weight \in [Node -> Nat] /\ First \in [Node -> Nat] /\ First[Root] = 0
    /\ \A n \in Node :
          /\ Weight[n] = nweight(Left[n]) + 1 + nweight(Right[n])
          /\ Left[n] # NODE_NULL => First[Left[n]] = First[n]
          /\ Right[n] # NODE_NULL => First[Right[n]] = SlotOf(n) + 1
          /\ n # Root => Under(n, Root)
          /\ \A m \in Node \ {n} : Under(m, n) \/ Under(n, m) \/ Apart(m, n)
    /\ Marker \cap Reader = {}
    /\ Range \subseteq {r \in [left : Slots, right : Nat] : r.left < r.right /\ r.right <= Weight[Root]}

VARIABLES
    left_link, right_link,  \* per node: the words, an index and a stolen bit
    todo,                   \* per thread: what its call has still to do
    called,                 \* history: the slots the callback of any marker has had
    seen,                   \* history, per reader: the slots its callback has had in this call
    owed                    \* history, per reader: the slots marked when its call began

links == <<left_link, right_link>>
history == <<called, seen, owed>>
vars == <<links, todo, history>>

Init ==
    /\ left_link = [n \in Node |-> [index |-> Left[n], bit |-> FALSE]]
    /\ right_link = [n \in Node |-> [index |-> Right[n], bit |-> FALSE]]
    /\ todo = [t \in Thread |-> <<>>]
    /\ called = {}
    /\ seen = [t \in Reader |-> {}]
    /\ owed = [t \in Reader |-> {}]

get_marked(n) == left_link[n].bit
get_marks_below(n) == right_link[n].bit
MarkedSlots == {SlotOf(n) : n \in {m \in Node : get_marked(m)}}

\* range: the slots a marker was called for.  held: a word that was read and is
\* to be written back.
Task(op, n, idx, range) ==
    [op |-> op, node |-> n, idx |-> idx, range |-> range, held |-> NODE_NULL]

Running(t) == todo[t] # <<>>
Now(t) == Head(todo[t])
Doing(t, op) == Running(t) /\ Now(t).op = op

\* The thread does s in place of the first thing on its list.
Instead(t, s) == todo' = [todo EXCEPT ![t] = s \o Tail(@)]

Begins(t, task) == ~Running(t) /\ todo' = [todo EXCEPT ![t] = <<task>>]

\* The callback of either function; a result other than 0 ends the call.
Call(t) ==
    /\ Doing(t, "call")
    /\ called' = IF t \in Marker THEN called \cup {Now(t).idx} ELSE called
    /\ seen' = [r \in Reader |-> IF r = t THEN seen[r] \cup {Now(t).idx} ELSE seen[r]]
    /\ \/ Instead(t, <<>>) /\ UNCHANGED owed
       \/ /\ todo' = [todo EXCEPT ![t] = <<>>]
          /\ owed' = [r \in Reader |-> IF r = t THEN {} ELSE owed[r]]
    /\ UNCHANGED links

-----------------------------------------------------------------------------
(* iterate_and_mark_range                                                  *)

StartMarking(t, range) ==
    /\ Begins(t, Task("enter", Root, 0, range))
    /\ UNCHANGED <<links, history>>

Descend_Late(n, child, idx, range) ==  \* mutant: the bit is set on the way back up
    <<Task("enter", child, idx, range), Task("test_below", n, idx, range)>>
Descend(n, child, idx, range) ==
    <<Task("test_below", n, idx, range), Task("enter", child, idx, range)>>

MarkThenCall(n, root, range) ==
    <<Task("mark", n, root, range), Task("call", n, root, range)>>

GoesLeft_Root(range, root) == range.left <= root  \* mutant
GoesLeft(range, root) == range.left < root

\* The two links are read together, as no call changes the indices in them.
Enter(t) ==
    /\ Doing(t, "enter")
    /\ LET n == Now(t).node
           idx == Now(t).idx
           range == Now(t).range
           l == left_link[n].index
           r == right_link[n].index
           root == idx + nweight(l)
       IN  Instead(t,
              (IF GoesLeft(range, root) /\ l # NODE_NULL THEN Descend(n, l, idx, range) ELSE <<>>)
              \o (IF range.left <= root /\ root < range.right
                  THEN MarkThenCall(n, root, range) ELSE <<>>)
              \o (IF root + 1 < range.right /\ r # NODE_NULL
                  THEN Descend(n, r, root + 1, range) ELSE <<>>))
    /\ UNCHANGED <<links, history>>

\* set_marks_below_bit: "Checking first reduces cache invalidation".
TestBelow(t) ==
    /\ Doing(t, "test_below")
    /\ Instead(t, IF get_marks_below(Now(t).node) THEN <<>> ELSE <<[Now(t) EXCEPT !.op = "below"]>>)
    /\ UNCHANGED <<links, history>>

\* enable_bit, "m_bitfield |= MASK_BIT", is a read and a write.
Load(t) ==
    /\ LET n == Now(t).node
       IN  \/ /\ Doing(t, "mark")
              /\ Instead(t, <<[Now(t) EXCEPT !.op = "store_mark", !.held = left_link[n]]>>)
           \/ /\ Doing(t, "below")
              /\ Instead(t, <<[Now(t) EXCEPT !.op = "store_below", !.held = right_link[n]]>>)
    /\ UNCHANGED <<links, history>>

Enabled_Mask(word) == [index |-> NODE_NULL, bit |-> TRUE]  \* mutant: the index is not kept
Enabled_Flip(word) == [word EXCEPT !.bit = ~@]             \* mutant: ^= for |=
Enabled(word) == [word EXCEPT !.bit = TRUE]

Store(t) ==
    /\ \/ /\ Doing(t, "store_mark")
          /\ left_link' = [left_link EXCEPT ![Now(t).node] = Enabled(Now(t).held)]
          /\ UNCHANGED right_link
       \/ /\ Doing(t, "store_below")
          /\ right_link' = [right_link EXCEPT ![Now(t).node] = Enabled(Now(t).held)]
          /\ UNCHANGED left_link
    /\ Instead(t, <<>>)
    /\ UNCHANGED history

-----------------------------------------------------------------------------
(* iterate_over_marked                                                     *)

Frame_Below(n, idx) ==  \* mutant: a node with no marks below is not looked at
    LET root == idx + nweight(left_link[n].index)
        task(op, i) == Task(op, n, i, NoRange)
    IN  IF n = NODE_NULL \/ ~get_marks_below(n) THEN <<>>
        ELSE <<task("left?", idx), task("marked?", root), task("right?", root + 1)>>

\* A frame of the traversal: what it does at n, in this order.
Frame(n, idx) ==
    LET root == idx + nweight(left_link[n].index)
        task(op, i) == Task(op, n, i, NoRange)
    IN  IF n = NODE_NULL THEN <<>>
        ELSE <<task("left?", idx), task("marked?", root), task("right?", root + 1)>>

StartReading(t) ==
    /\ ~Running(t) /\ todo' = [todo EXCEPT ![t] = Frame(Root, 0)]
    /\ seen' = [seen EXCEPT ![t] = {}]
    /\ owed' = [owed EXCEPT ![t] = MarkedSlots]
    /\ UNCHANGED <<links, called>>

\* get_marks_below is read once for each side.
LookBelow(t) ==
    /\ Doing(t, "left?") \/ Doing(t, "right?")
    /\ LET n == Now(t).node
           word == IF Doing(t, "left?") THEN left_link[n] ELSE right_link[n]
       IN  Instead(t, IF get_marks_below(n) THEN Frame(word.index, Now(t).idx) ELSE <<>>)
    /\ UNCHANGED <<links, history>>

LookMarked(t) ==
    /\ Doing(t, "marked?")
    /\ Instead(t, IF get_marked(Now(t).node) THEN <<[Now(t) EXCEPT !.op = "call"]>> ELSE <<>>)
    /\ UNCHANGED <<links, history>>

-----------------------------------------------------------------------------
Marks(t) == \/ \E range \in Range : StartMarking(t, range)
            \/ Enter(t) \/ TestBelow(t) \/ Load(t) \/ Store(t) \/ Call(t)

Reads(t) == StartReading(t) \/ LookBelow(t) \/ LookMarked(t) \/ Call(t)

Next == (\E t \in Marker : Marks(t)) \/ (\E t \in Reader : Reads(t))

Spec == Init /\ [][Next]_vars

-----------------------------------------------------------------------------
Ops == {"enter", "test_below", "below", "store_below", "mark", "store_mark", "call",
        "left?", "marked?", "right?"}
Words == [index : Link, bit : BOOLEAN]
Tasks == [op : Ops, node : Node, idx : 0 .. Weight[Root],
          range : Range \cup {NoRange}, held : Words \cup {NODE_NULL}]

\* Every word is an index and a bit, and what is to do concerns a node and a slot.
TypeOK ==
    /\ left_link \in [Node -> Words]
    /\ right_link \in [Node -> Words]
    /\ todo \in [Thread -> Seq(Tasks)]
    /\ called \subseteq Slots
    /\ seen \in [Reader -> SUBSET Slots] /\ owed \in [Reader -> SUBSET Slots]

\* Writing a bit back never changes the index beside it: "If there were a race in
\* setting the index, that would be a real race" (omt.h, line 176).
IndexesKept ==
    /\ TypeOK
    /\ \A n \in Node : left_link[n].index = Left[n] /\ right_link[n].index = Right[n]

\* The nodes under n, by the slots they have.
Below(n) == {m \in Node \ {n} : SlotOf(m) \in First[n] .. First[n] + Weight[n] - 1}

\* At every moment, in the middle of any calls, all nodes above a marked one say
\* so, and a value whose callback was called is marked: who follows the cached
\* bits after hearing of a value finds its mark.
MarksReachable ==
    /\ \A n \in Node : \A m \in Below(n) : get_marked(m) => get_marks_below(n)
    /\ called \subseteq MarkedSlots

\* When no thread is marking, the cached bits say no more than that either, and
\* the marked values are those the callbacks were called for, although threads
\* set the same bits and some were stopped by their callback: what
\* verify_marks_consistent and delete_all_marked find under the write lock.
Quiet == \A t \in Marker : ~Running(t)
QuietConsistent ==
    Quiet => /\ \A n \in Node : get_marks_below(n) => \E m \in Below(n) : get_marked(m)
             /\ MarkedSlots = called

\* A reader that was not stopped has had every value that was marked when it
\* began, and never one that is not marked, whatever was being marked meanwhile.
ReaderComplete ==
    \A t \in Reader : /\ seen[t] \subseteq MarkedSlots
                      /\ ~Running(t) => owed[t] \subseteq seen[t]
=============================================================================
