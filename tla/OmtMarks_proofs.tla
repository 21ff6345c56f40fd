--------------------------- MODULE OmtMarks_proofs ---------------------------
(***************************************************************************)
(* For every tree, any number of threads and any ranges: the mark bits     *)
(* that threads set and read at the same time are never lost, never lie    *)
(* about the nodes below, and lead each reader to what was marked.         *)
(*                                                                         *)
(* A word changes only by a bit that is set, so what is true of the list   *)
(* of things a thread has to do stays true when other threads move.  The   *)
(* lemmas are about such lists, for any sets of marked and of flagged      *)
(* nodes; a step of a thread replaces the first thing of its own list.     *)
(***************************************************************************)
EXTENDS OmtMarksSeq, TLAPS

Marked == {n \in Node : get_marked(n)}
Flagged == {n \in Node : get_marks_below(n)}
SlotsOf(M) == {SlotOf(n) : n \in M}

BelowOps == {"test_below", "below", "store_below"}
MarkOps == {"mark", "store_mark"}

\* Some value under n is in the range.
Meets(range, n) == range.left < First[n] + Weight[n] /\ First[n] < range.right

\* What a marker may have to do: the index of the call is that of the node it
\* is at, the range meets the values under a node it is about to enter, and a
\* word that is to be written back has the index of its link.
MarkerTask(x) ==
    /\ x \in Tasks /\ x.range \in Range
    /\ x.op \in {"enter", "call"} \cup BelowOps \cup MarkOps
    /\ x.op = "enter" => x.idx = First[x.node] /\ Meets(x.range, x.node)
    /\ x.op \in MarkOps \cup {"call"} => x.idx = SlotOf(x.node)
    /\ x.op = "store_mark" => x.held \in Words /\ x.held.index = Left[x.node]
    /\ x.op = "store_below" => x.held \in Words /\ x.held.index = Right[x.node]

\* What the list q of a marker has at i, when the nodes of M are marked and
\* those of B say that there are marks below.  Before a node is entered or
\* marked all nodes above it are in B, but for the one flagged just before;
\* before a value's callback its node is in M, or is marked just before.
MarkerPlace(q, i, M, B) ==
    /\ MarkerTask(q[i])
    /\ q[i].op \in BelowOps =>
          i < Len(q) /\ q[i + 1].op = "enter" /\ q[i + 1].node \in Below(q[i].node)
    /\ q[i].op \in MarkOps =>
          i < Len(q) /\ q[i + 1].op = "call" /\ q[i + 1].node = q[i].node
    /\ q[i].op \in {"enter"} \cup MarkOps =>
          \A a \in Node : q[i].node \in Below(a) =>
              a \in B \/ (i > 1 /\ q[i - 1].op \in BelowOps /\ q[i - 1].node = a)
    /\ q[i].op = "call" =>
          q[i].node \in M \/ (i > 1 /\ q[i - 1].op \in MarkOps /\ q[i - 1].node = q[i].node)

MarkerList(q, M, B) == q \in Seq(Tasks) /\ \A i \in 1 .. Len(q) : MarkerPlace(q, i, M, B)

\* The thread with the list q is on its way to mark a node below n.
Pursues(q, n) ==
    \E k \in 1 .. Len(q) :
        /\ k <= 2 /\ q[k].op \in {"enter"} \cup MarkOps /\ q[k].node \in Below(n)
        /\ k = 2 => q[1].op \in BelowOps

\* What a reader may have to do.
ReaderTask(x, M) ==
    /\ x \in Tasks
    /\ x.op \in {"left?", "marked?", "right?", "call"}
    /\ x.op = "left?" => x.idx = First[x.node]
    /\ x.op \in {"marked?", "call"} => x.idx = SlotOf(x.node)
    /\ x.op = "right?" => x.idx = SlotOf(x.node) + 1
    /\ x.op = "call" => x.node \in M

ReaderList(q, M) == q \in Seq(Tasks) /\ \A i \in 1 .. Len(q) : ReaderTask(q[i], M)

\* Doing x, and what follows from it, the reader comes to the slot.
Covers(x, slot) ==
    LET n == x.node
    IN  CASE x.op = "left?" -> First[n] <= slot /\ slot < SlotOf(n)
          [] x.op = "right?" -> SlotOf(n) < slot /\ slot < First[n] + Weight[n]
          [] OTHER -> slot = SlotOf(n)
Pending(q, slot) == \E i \in 1 .. Len(q) : Covers(q[i], slot)

\* The inductive invariant.
LinksGood ==
    /\ left_link \in [Node -> Words] /\ right_link \in [Node -> Words]
    /\ \A n \in Node : left_link[n].index = Left[n] /\ right_link[n].index = Right[n]

ListsGood ==
    /\ todo \in [Thread -> Seq(Tasks)]
    /\ \A t \in Marker : MarkerList(todo[t], Marked, Flagged)
    /\ \A t \in Reader : ReaderList(todo[t], Marked)

HistoryGood ==
    /\ called \subseteq SlotsOf(Marked)
    /\ seen \in [Reader -> SUBSET SlotsOf(Marked)]
    /\ owed \in [Reader -> SUBSET SlotsOf(Marked)]

FlagsGood ==
    /\ \A n \in Node : \A m \in Below(n) : m \in Marked => n \in Flagged
    /\ \A n \in Flagged : \/ \E m \in Below(n) : m \in Marked
                          \/ \E t \in Marker : Pursues(todo[t], n)

CallsGood ==
    \A n \in Marked : \/ SlotOf(n) \in called
                      \/ \E t \in Marker : Doing(t, "call") /\ Now(t).node = n

ReadersGood ==
    \A t \in Reader : \A slot \in owed[t] \ seen[t] : Pending(todo[t], slot)

IInv == LinksGood /\ ListsGood /\ HistoryGood /\ FlagsGood /\ CallsGood /\ ReadersGood

-----------------------------------------------------------------------------
(* The tree.                                                               *)

\* The slots under the links of a node are those on either side of its own.
LEMMA Sizes ==
  ASSUME NEW n \in Node
  PROVE  /\ First[n] \in Nat /\ SlotOf(n) \in Nat /\ Weight[n] \in Nat /\ Weight[Root] \in Nat
         /\ First[n] <= SlotOf(n) /\ SlotOf(n) < First[n] + Weight[n]
         /\ First[n] + Weight[n] <= Weight[Root]
         /\ SlotOf(n) \in Slots
         /\ Left[n] = NODE_NULL => SlotOf(n) = First[n]
         /\ Left[n] # NODE_NULL => /\ Left[n] \in Node /\ First[Left[n]] = First[n]
                                   /\ First[Left[n]] + Weight[Left[n]] = SlotOf(n)
         /\ Right[n] = NODE_NULL => SlotOf(n) + 1 = First[n] + Weight[n]
         /\ Right[n] # NODE_NULL =>
               /\ Right[n] \in Node /\ First[Right[n]] = SlotOf(n) + 1
               /\ First[Right[n]] + Weight[Right[n]] = First[n] + Weight[n]
<1>1. /\ Left[n] \in Node \cup {NODE_NULL} /\ Right[n] \in Node \cup {NODE_NULL}
      /\ Weight \in [Node -> Nat] /\ First \in [Node -> Nat] /\ First[Root] = 0 /\ Root \in Node
      /\ Weight[n] = nweight(Left[n]) + 1 + nweight(Right[n])
  BY MarksAssumption DEF Link
<1>2. nweight(Left[n]) \in Nat /\ nweight(Right[n]) \in Nat
  BY <1>1 DEF nweight
<1>3. /\ First[n] \in Nat /\ SlotOf(n) \in Nat /\ Weight[n] \in Nat /\ Weight[Root] \in Nat
      /\ First[n] <= SlotOf(n) /\ SlotOf(n) < First[n] + Weight[n]
  BY <1>1, <1>2 DEF SlotOf
<1>4. First[n] + Weight[n] <= Weight[Root]
  <2>1. CASE n = Root
    BY <1>1, <1>3, <2>1
  <2>2. CASE n # Root
    BY <1>1, <1>3, <2>2, MarksAssumption DEF Under
  <2> QED BY <2>1, <2>2
<1>5. SlotOf(n) \in Slots
  BY <1>3, <1>4 DEF Slots
<1>6. /\ Left[n] = NODE_NULL => SlotOf(n) = First[n]
      /\ Left[n] # NODE_NULL => /\ Left[n] \in Node /\ First[Left[n]] = First[n]
                                /\ First[Left[n]] + Weight[Left[n]] = SlotOf(n)
  BY <1>1, MarksAssumption DEF SlotOf, nweight
<1>7. /\ Right[n] = NODE_NULL => SlotOf(n) + 1 = First[n] + Weight[n]
      /\ Right[n] # NODE_NULL =>
               /\ Right[n] \in Node /\ First[Right[n]] = SlotOf(n) + 1
               /\ First[Right[n]] + Weight[Right[n]] = First[n] + Weight[n]
  BY <1>1, <1>2, <1>3, MarksAssumption DEF SlotOf, nweight
<1> QED
  BY <1>3, <1>4, <1>5, <1>6, <1>7

\* To be below a node is to have all one's values to one side of its own.
LEMMA BelowIsUnder ==
  ASSUME NEW m \in Node, NEW n \in Node, m # n
  PROVE  m \in Below(n) <=> Under(m, n)
<1>1. /\ First[n] \in Nat /\ SlotOf(n) \in Nat /\ Weight[n] \in Nat
      /\ First[n] <= SlotOf(n) /\ SlotOf(n) < First[n] + Weight[n]
  BY Sizes
<1>2. /\ First[m] \in Nat /\ SlotOf(m) \in Nat /\ Weight[m] \in Nat
      /\ First[m] <= SlotOf(m) /\ SlotOf(m) < First[m] + Weight[m]
  BY Sizes
<1>3. m \in Below(n) <=> First[n] <= SlotOf(m) /\ SlotOf(m) < First[n] + Weight[n]
  BY <1>1, <1>2 DEF Below
<1>4. Under(m, n) \/ Under(n, m) \/ Apart(m, n)
  BY MarksAssumption
<1> QED
  BY <1>1, <1>2, <1>3, <1>4 DEF Under, Apart

LEMMA SlotsDiffer ==
  ASSUME NEW m \in Node, NEW n \in Node, SlotOf(m) = SlotOf(n)
  PROVE  m = n
<1>1. SUFFICES ASSUME m # n PROVE FALSE
  OBVIOUS
<1>2. /\ First[n] \in Nat /\ SlotOf(n) \in Nat /\ Weight[n] \in Nat
      /\ First[n] <= SlotOf(n) /\ SlotOf(n) < First[n] + Weight[n]
  BY Sizes
<1>3. /\ First[m] \in Nat /\ SlotOf(m) \in Nat /\ Weight[m] \in Nat
      /\ First[m] <= SlotOf(m) /\ SlotOf(m) < First[m] + Weight[m]
  BY Sizes
<1>4. Under(m, n) \/ Under(n, m) \/ Apart(m, n)
  BY <1>1, MarksAssumption
<1> QED
  BY <1>2, <1>3, <1>4 DEF Under, Apart

LEMMA BelowBelow ==
  ASSUME NEW a \in Node, NEW n \in Node, NEW m \in Node, n \in Below(a), m \in Below(n)
  PROVE  m \in Below(a)
<1>1. /\ First[n] \in Nat /\ SlotOf(n) \in Nat /\ Weight[n] \in Nat
      /\ First[n] <= SlotOf(n) /\ SlotOf(n) < First[n] + Weight[n]
  BY Sizes
<1>2. /\ First[m] \in Nat /\ SlotOf(m) \in Nat /\ Weight[m] \in Nat
      /\ First[m] <= SlotOf(m) /\ SlotOf(m) < First[m] + Weight[m]
  BY Sizes
<1>3. /\ First[a] \in Nat /\ SlotOf(a) \in Nat /\ Weight[a] \in Nat
      /\ First[a] <= SlotOf(a) /\ SlotOf(a) < First[a] + Weight[a]
  BY Sizes
<1>4. n # a /\ m # n
  BY DEF Below
<1>5. Under(n, a) /\ Under(m, n)
  BY <1>4, BelowIsUnder
<1>6. m # a /\ Under(m, a)
  BY <1>1, <1>2, <1>3, <1>5 DEF Under
<1> QED
  BY <1>6, BelowIsUnder

ChildOf(c, n) == c = Left[n] \/ c = Right[n]

\* A child is below its parent, and below what its parent is below, no more.
LEMMA ChildBelow ==
  ASSUME NEW n \in Node, NEW c \in Node, ChildOf(c, n)
  PROVE  /\ c \in Below(n)
         /\ \A a \in Node : c \in Below(a) => a = n \/ n \in Below(a)
<1>1. /\ First[n] \in Nat /\ SlotOf(n) \in Nat /\ Weight[n] \in Nat
      /\ First[n] <= SlotOf(n) /\ SlotOf(n) < First[n] + Weight[n]
  BY Sizes
<1>2. /\ First[c] \in Nat /\ SlotOf(c) \in Nat /\ Weight[c] \in Nat
      /\ First[c] <= SlotOf(c) /\ SlotOf(c) < First[c] + Weight[c]
  BY Sizes
<1>3. c # NODE_NULL
  BY MarksAssumption
<1>4. \/ First[c] = First[n] /\ First[c] + Weight[c] = SlotOf(n)
      \/ First[c] = SlotOf(n) + 1 /\ First[c] + Weight[c] = First[n] + Weight[n]
  BY <1>3, Sizes DEF ChildOf
<1>5. c # n /\ Under(c, n)
  BY <1>1, <1>2, <1>4 DEF Under
<1>6. c \in Below(n)
  BY <1>5, BelowIsUnder
<1>7. ASSUME NEW a \in Node, c \in Below(a), a # n
      PROVE  n \in Below(a)
  <2>1. /\ First[a] \in Nat /\ SlotOf(a) \in Nat /\ Weight[a] \in Nat
        /\ First[a] <= SlotOf(a) /\ SlotOf(a) < First[a] + Weight[a]
    BY Sizes
  <2>2. c # a
    BY <1>7 DEF Below
  <2>3. Under(c, a)
    BY <1>7, <2>2, BelowIsUnder
  <2>4. Under(n, a) \/ Under(a, n) \/ Apart(n, a)
    BY <1>7, MarksAssumption
  <2>5. Under(n, a)
    BY <1>1, <1>2, <1>4, <2>1, <2>3, <2>4 DEF Under, Apart
  <2> QED
    BY <1>7, <2>5, BelowIsUnder
<1> QED
  BY <1>6, <1>7

LEMMA RootOnTop ==
  ASSUME NEW a \in Node
  PROVE  Root \notin Below(a)
<1>1. SUFFICES ASSUME Root \in Below(a) PROVE FALSE
  OBVIOUS
<1>2. Root \in Node /\ a # Root
  BY <1>1, MarksAssumption DEF Below
<1>3. Under(Root, a) /\ Under(a, Root)
  BY <1>1, <1>2, BelowIsUnder, MarksAssumption
<1>4. /\ First[a] \in Nat /\ SlotOf(a) \in Nat /\ Weight[a] \in Nat
      /\ First[a] <= SlotOf(a) /\ SlotOf(a) < First[a] + Weight[a]
  BY Sizes
<1>5. /\ First[Root] \in Nat /\ SlotOf(Root) \in Nat /\ Weight[Root] \in Nat
      /\ First[Root] <= SlotOf(Root) /\ SlotOf(Root) < First[Root] + Weight[Root]
  BY <1>2, Sizes
<1> QED
  BY <1>3, <1>4, <1>5 DEF Under

-----------------------------------------------------------------------------
(* The lists of the markers.                                               *)

\* Putting s in place of the first thing of q.
LEMMA Replaced ==
  ASSUME NEW S, NEW q \in Seq(S), q # <<>>, NEW s \in Seq(S)
  PROVE  /\ s \o Tail(q) \in Seq(S) /\ Len(s \o Tail(q)) = Len(s) + Len(q) - 1
         /\ \A i \in 1 .. Len(s) + Len(q) - 1 :
               (s \o Tail(q))[i] = IF i <= Len(s) THEN s[i] ELSE q[i - Len(s) + 1]
<1>1. Tail(q) \in Seq(S) /\ Len(Tail(q)) = Len(q) - 1 /\ Len(q) \in Nat /\ Len(q) > 0
      /\ \A i \in 1 .. Len(q) - 1 : Tail(q)[i] = q[i + 1]
  OBVIOUS
<1> DEFINE r == Tail(q)
<1> HIDE DEF r
<1>2. s \o r \in Seq(S) /\ Len(s \o r) = Len(s) + Len(r) /\ Len(s) \in Nat
      /\ \A i \in 1 .. Len(s) + Len(r) : (s \o r)[i] = IF i <= Len(s) THEN s[i] ELSE r[i - Len(s)]
  BY <1>1 DEF r
<1> QED
  BY <1>1, <1>2 DEF r

LEMMA Dropped ==
  ASSUME NEW S, NEW q \in Seq(S), q # <<>>
  PROVE  /\ <<>> \o Tail(q) = Tail(q) /\ Tail(q) \in Seq(S)
         /\ Len(q) \in Nat /\ Len(q) > 0 /\ Len(Tail(q)) = Len(q) - 1
         /\ Head(q) = q[1] /\ q[1] \in S
         /\ \A i \in 1 .. Len(q) - 1 : Tail(q)[i] = q[i + 1]
OBVIOUS

\* More marks and flags break no list.
LEMMA MarkerListGrows ==
  ASSUME NEW q, NEW M, NEW M2, NEW B, NEW B2, M \subseteq M2, B \subseteq B2, MarkerList(q, M, B)
  PROVE  MarkerList(q, M2, B2)
BY DEF MarkerList, MarkerPlace

\* One list after another.
LEMMA MarkerListsJoin ==
  ASSUME NEW M, NEW B, NEW q, NEW r, MarkerList(q, M, B), MarkerList(r, M, B)
  PROVE  MarkerList(q \o r, M, B)
<1> DEFINE j == q \o r
<1>1. q \in Seq(Tasks) /\ r \in Seq(Tasks)
  BY DEF MarkerList
<1>2. j \in Seq(Tasks) /\ Len(j) = Len(q) + Len(r) /\ Len(q) \in Nat /\ Len(r) \in Nat
      /\ \A i \in 1 .. Len(q) + Len(r) : j[i] = IF i <= Len(q) THEN q[i] ELSE r[i - Len(q)]
  BY <1>1
<1> HIDE DEF j
<1>3. ASSUME NEW i \in 1 .. Len(j) PROVE MarkerPlace(j, i, M, B)
  <2>1. CASE i <= Len(q)
    <3>1. MarkerPlace(q, i, M, B) /\ i \in 1 .. Len(q)
      BY <1>2, <2>1 DEF MarkerList
    <3>2. j[i] = q[i] /\ (i < Len(q) => j[i + 1] = q[i + 1]) /\ (i > 1 => j[i - 1] = q[i - 1])
      BY <1>2, <2>1
    <3> QED BY <1>2, <3>1, <3>2 DEF MarkerPlace
  <2>2. CASE i > Len(q)
    <3> DEFINE k == i - Len(q)
    <3>1. k \in 1 .. Len(r) /\ MarkerPlace(r, k, M, B)
      BY <1>2, <2>2 DEF MarkerList
    <3>2. j[i] = r[k]
      BY <1>2, <2>2
    <3>3. k < Len(r) => i < Len(j) /\ j[i + 1] = r[k + 1]
      <4>1. k < Len(r) => i + 1 \in 1 .. Len(q) + Len(r) /\ i + 1 > Len(q) /\ i + 1 - Len(q) = k + 1
        BY <1>2, <2>2
      <4> QED BY <1>2, <4>1
    <3>4. k > 1 => i > 1 /\ j[i - 1] = r[k - 1]
      <4>1. k > 1 => i - 1 \in 1 .. Len(q) + Len(r) /\ i - 1 > Len(q) /\ i - 1 - Len(q) = k - 1
        BY <1>2, <2>2
      <4> QED BY <1>2, <2>2, <4>1
    <3> HIDE DEF k
    <3> QED BY <3>1, <3>2, <3>3, <3>4 DEF MarkerPlace
  <2> QED BY <1>2, <2>1, <2>2
<1> QED
  BY <1>2, <1>3 DEF MarkerList, j

\* The first thing is done: a flag that was to be set is, a mark too.
LEMMA MarkerListTail ==
  ASSUME NEW M, NEW B, NEW q, q # <<>>, MarkerList(q, M, B),
         q[1].op \in BelowOps => q[1].node \in B,
         q[1].op \in MarkOps => q[1].node \in M
  PROVE  MarkerList(Tail(q), M, B)
<1> DEFINE r == Tail(q)
<1>1. q \in Seq(Tasks)
  BY DEF MarkerList
<1>2. r \in Seq(Tasks) /\ Len(q) \in Nat /\ Len(r) = Len(q) - 1
      /\ \A i \in 1 .. Len(q) - 1 : r[i] = q[i + 1]
  BY <1>1
<1> HIDE DEF r
<1>3. ASSUME NEW i \in 1 .. Len(r) PROVE MarkerPlace(r, i, M, B)
  <2> DEFINE k == i + 1
  <2>1. k \in 1 .. Len(q) /\ MarkerPlace(q, k, M, B)
    BY <1>2 DEF MarkerList
  <2>2. r[i] = q[k] /\ (k < Len(q) => i < Len(r) /\ r[i + 1] = q[k + 1])
        /\ (i > 1 => r[i - 1] = q[k - 1]) /\ (i = 1 => q[k - 1] = q[1])
    BY <1>2
  <2> HIDE DEF k
  <2> QED BY <2>1, <2>2 DEF MarkerPlace
<1> QED
  BY <1>2, <1>3 DEF MarkerList, r

\* The first thing becomes the next step of the same.
LEMMA MarkerListStep ==
  ASSUME NEW M, NEW B, NEW q, q # <<>>, MarkerList(q, M, B), NEW y,
         MarkerTask(y), y.node = q[1].node,
         \/ q[1].op \in BelowOps /\ y.op \in BelowOps
         \/ q[1].op \in MarkOps /\ y.op \in MarkOps
  PROVE  MarkerList(<<y>> \o Tail(q), M, B)
<1> DEFINE r == <<y>> \o Tail(q)
<1>1. q \in Seq(Tasks) /\ y \in Tasks
  BY DEF MarkerList, MarkerTask
<1>2. r \in Seq(Tasks) /\ Len(q) \in Nat /\ Len(q) > 0 /\ Len(r) = Len(q) /\ r[1] = y
      /\ \A i \in 1 .. Len(q) : i > 1 => r[i] = q[i]
  <2>1. <<y>> \in Seq(Tasks) /\ Len(<<y>>) = 1 /\ <<y>>[1] = y
    BY <1>1
  <2>2. Len(q) \in Nat /\ Len(q) > 0
    BY <1>1
  <2> QED BY <1>1, <2>1, <2>2, Replaced
<1> HIDE DEF r
<1>3. ASSUME NEW i \in 1 .. Len(r) PROVE MarkerPlace(r, i, M, B)
  <2>1. MarkerPlace(q, i, M, B)
    BY <1>2 DEF MarkerList
  <2>2. CASE i = 1
    <3>1. r[1] = y /\ (1 < Len(q) => r[2] = q[2]) /\ MarkerPlace(q, 1, M, B)
      BY <1>2, <2>1, <2>2
    <3>2. CASE q[1].op \in BelowOps
      <4>1. y.op \in BelowOps /\ y.op \notin MarkOps /\ y.op \notin {"enter", "call"}
        BY <3>2 DEF BelowOps, MarkOps
      <4>2. 1 < Len(q) /\ q[2].op = "enter" /\ q[2].node \in Below(q[1].node)
        BY <3>1, <3>2 DEF MarkerPlace
      <4>3. MarkerPlace(r, 1, M, B)
        BY <1>2, <3>1, <4>1, <4>2 DEF MarkerPlace
      <4> QED BY <2>2, <4>3
    <3>3. CASE q[1].op \in MarkOps
      <4>1. y.op \in MarkOps /\ y.op \notin BelowOps /\ y.op \notin {"enter", "call"}
        BY <3>3 DEF BelowOps, MarkOps
      <4>2. 1 < Len(q) /\ q[2].op = "call" /\ q[2].node = q[1].node
        BY <3>1, <3>3 DEF MarkerPlace
      <4>3. \A a \in Node : q[1].node \in Below(a) => a \in B
        BY <3>1, <3>3 DEF MarkerPlace
      <4>4. MarkerPlace(r, 1, M, B)
        BY <1>2, <3>1, <4>1, <4>2, <4>3 DEF MarkerPlace
      <4> QED BY <2>2, <4>4
    <3> QED BY <3>2, <3>3
  <2>3. CASE i > 1
    <3>1. r[i] = q[i] /\ (i < Len(q) => r[i + 1] = q[i + 1])
      BY <1>2, <2>3
    <3>2. r[i - 1].node = q[i - 1].node
      BY <1>2, <2>3
    <3>3. /\ r[i - 1].op \in BelowOps <=> q[i - 1].op \in BelowOps
          /\ r[i - 1].op \in MarkOps <=> q[i - 1].op \in MarkOps
      <4>1. CASE i = 2
        <5>1. r[i - 1] = y /\ q[i - 1] = q[1]
          BY <1>2, <4>1
        <5> QED BY <5>1 DEF BelowOps, MarkOps
      <4>2. CASE i > 2
        BY <1>2, <4>2
      <4> QED BY <1>2, <2>3, <4>1, <4>2
    <3> QED BY <1>2, <2>1, <2>3, <3>1, <3>2, <3>3 DEF MarkerPlace
  <2> QED BY <1>2, <2>2, <2>3
<1> QED
  BY <1>2, <1>3 DEF MarkerList, r

\* Entering a node puts these in its place: each finds the nodes above flagged,
\* and there is always one of them.
Entered(n, range) ==
    (IF GoesLeft(range, SlotOf(n)) /\ Left[n] # NODE_NULL
     THEN Descend(n, Left[n], First[n], range) ELSE <<>>)
    \o (IF range.left <= SlotOf(n) /\ SlotOf(n) < range.right
        THEN MarkThenCall(n, SlotOf(n), range) ELSE <<>>)
    \o (IF SlotOf(n) + 1 < range.right /\ Right[n] # NODE_NULL
        THEN Descend(n, Right[n], SlotOf(n) + 1, range) ELSE <<>>)

LEMMA TaskTyped ==
  ASSUME NEW op \in Ops, NEW n \in Node, NEW i \in 0 .. Weight[Root],
         NEW range \in Range \cup {NoRange}
  PROVE  /\ Task(op, n, i, range) \in Tasks /\ Task(op, n, i, range).op = op
         /\ Task(op, n, i, range).node = n /\ Task(op, n, i, range).idx = i
         /\ Task(op, n, i, range).range = range
BY DEF Task, Tasks

LEMMA Pair ==
  ASSUME NEW S, NEW x \in S, NEW y \in S
  PROVE  /\ <<x, y>> \in Seq(S) /\ Len(<<x, y>>) = 2
         /\ <<x, y>>[1] = x /\ <<x, y>>[2] = y
OBVIOUS

LEMMA EmptyList ==
  ASSUME NEW M, NEW B
  PROVE  MarkerList(<<>>, M, B)
BY DEF MarkerList

LEMMA DescendGood ==
  ASSUME NEW n \in Node, NEW c \in Node, ChildOf(c, n), NEW range \in Range, Meets(range, c),
         NEW M, NEW B, \A a \in Node : n \in Below(a) => a \in B
  PROVE  /\ MarkerList(Descend(n, c, First[c], range), M, B)
         /\ \A a \in Node : n \in Below(a) => Pursues(Descend(n, c, First[c], range), a)
<1> DEFINE first == First[c]
<1>1. first \in 0 .. Weight[Root]
  BY Sizes
<1> HIDE DEF first
<1> DEFINE x == Task("test_below", n, first, range)
           y == Task("enter", c, first, range)
<1>2. /\ x \in Tasks /\ x.op = "test_below" /\ x.node = n /\ x.range = range
      /\ y \in Tasks /\ y.op = "enter" /\ y.node = c /\ y.idx = first /\ y.range = range
  <2>1. "test_below" \in Ops /\ "enter" \in Ops
    BY DEF Ops
  <2> QED BY <1>1, <2>1, TaskTyped
<1> DEFINE q == <<x, y>>
<1> HIDE DEF x, y
<1>3. q \in Seq(Tasks) /\ Len(q) = 2 /\ q[1] = x /\ q[2] = y
  BY <1>2, Pair
<1> HIDE DEF q
<1>11. /\ x.op \in BelowOps /\ x.op \notin MarkOps /\ x.op # "enter" /\ x.op # "call"
       /\ y.op = "enter" /\ y.op \notin MarkOps /\ y.op \notin BelowOps /\ y.op # "call"
  BY <1>2 DEF BelowOps, MarkOps
<1>4. MarkerTask(x) /\ MarkerTask(y)
  BY <1>2, <1>11 DEF MarkerTask, BelowOps, MarkOps, first
<1>5. c \in Below(n) /\ \A a \in Node : c \in Below(a) => a = n \/ n \in Below(a)
  BY ChildBelow
<1>6. MarkerPlace(q, 1, M, B)
  BY <1>2, <1>3, <1>4, <1>5, <1>11 DEF MarkerPlace
<1>7. MarkerPlace(q, 2, M, B)
  BY <1>2, <1>3, <1>4, <1>5, <1>11 DEF MarkerPlace
<1>8. MarkerList(q, M, B)
  <2>1. \A i \in 1 .. 2 : i = 1 \/ i = 2
    OBVIOUS
  <2> QED BY <1>3, <1>6, <1>7, <2>1 DEF MarkerList
<1>9. ASSUME NEW a \in Node, n \in Below(a) PROVE Pursues(q, a)
  <2>1. c \in Below(a)
    BY <1>5, <1>9, BelowBelow
  <2>2. 2 \in 1 .. Len(q) /\ 2 <= 2 /\ q[2].op \in {"enter"} \cup MarkOps
        /\ q[2].node \in Below(a) /\ q[1].op \in BelowOps
    BY <1>2, <1>3, <1>11, <2>1
  <2> QED BY <2>2 DEF Pursues
<1>10. Descend(n, c, first, range) = q
  BY DEF Descend, q, x, y
<1> QED
  BY <1>8, <1>9, <1>10 DEF first

LEMMA MarkThenCallGood ==
  ASSUME NEW n \in Node, NEW range \in Range,
         NEW M, NEW B, \A a \in Node : n \in Below(a) => a \in B
  PROVE  /\ MarkerList(MarkThenCall(n, SlotOf(n), range), M, B)
         /\ \A a \in Node : n \in Below(a) => Pursues(MarkThenCall(n, SlotOf(n), range), a)
<1> DEFINE x == Task("mark", n, SlotOf(n), range)
           y == Task("call", n, SlotOf(n), range)
<1>1. SlotOf(n) \in 0 .. Weight[Root]
  BY Sizes DEF Slots
<1>2. /\ x \in Tasks /\ x.op = "mark" /\ x.node = n /\ x.range = range /\ x.idx = SlotOf(n)
      /\ y \in Tasks /\ y.op = "call" /\ y.node = n /\ y.idx = SlotOf(n) /\ y.range = range
  <2>1. "mark" \in Ops /\ "call" \in Ops
    BY DEF Ops
  <2> QED BY <1>1, <2>1, TaskTyped
<1> DEFINE q == <<x, y>>
<1> HIDE DEF x, y
<1>3. q \in Seq(Tasks) /\ Len(q) = 2 /\ q[1] = x /\ q[2] = y
  BY <1>2, Pair
<1> HIDE DEF q
<1>10. /\ x.op \in MarkOps /\ x.op \notin BelowOps /\ x.op # "enter" /\ x.op # "call"
       /\ y.op = "call" /\ y.op \notin MarkOps /\ y.op \notin BelowOps /\ y.op # "enter"
  BY <1>2 DEF BelowOps, MarkOps
<1>4. MarkerTask(x) /\ MarkerTask(y)
  BY <1>2 DEF MarkerTask, BelowOps, MarkOps
<1>5. MarkerPlace(q, 1, M, B)
  BY <1>2, <1>3, <1>4, <1>10 DEF MarkerPlace
<1>6. MarkerPlace(q, 2, M, B)
  BY <1>2, <1>3, <1>4, <1>10 DEF MarkerPlace
<1>7. MarkerList(q, M, B)
  <2>1. \A i \in 1 .. 2 : i = 1 \/ i = 2
    OBVIOUS
  <2> QED BY <1>3, <1>5, <1>6, <2>1 DEF MarkerList
<1>8. ASSUME NEW a \in Node, n \in Below(a) PROVE Pursues(q, a)
  <2>1. 1 \in 1 .. Len(q) /\ 1 <= 2 /\ q[1].op \in {"enter"} \cup MarkOps
        /\ q[1].node \in Below(a) /\ 1 # 2
    BY <1>2, <1>3, <1>8, <1>10
  <2> QED BY <2>1 DEF Pursues
<1>9. MarkThenCall(n, SlotOf(n), range) = q
  BY DEF MarkThenCall, q, x, y
<1> QED
  BY <1>7, <1>8, <1>9

\* Who pursues a node with the first part of a list does so with the list.
LEMMA PursuesMore ==
  ASSUME NEW q \in Seq(Tasks), NEW r \in Seq(Tasks), NEW a, Pursues(q, a)
  PROVE  Pursues(q \o r, a)
<1> DEFINE j == q \o r
<1>1. j \in Seq(Tasks) /\ Len(j) = Len(q) + Len(r) /\ Len(q) \in Nat /\ Len(r) \in Nat
      /\ \A i \in 1 .. Len(q) : j[i] = q[i]
  OBVIOUS
<1> HIDE DEF j
<1>2. PICK k \in 1 .. Len(q) :
        /\ k <= 2 /\ q[k].op \in {"enter"} \cup MarkOps /\ q[k].node \in Below(a)
        /\ k = 2 => q[1].op \in BelowOps
  BY DEF Pursues
<1>3. k \in 1 .. Len(j) /\ j[k] = q[k] /\ j[1] = q[1]
  BY <1>1, <1>2
<1> QED
  BY <1>2, <1>3 DEF Pursues, j

LEMMA EnteredGood ==
  ASSUME NEW n \in Node, NEW range \in Range, Meets(range, n),
         NEW M, NEW B, \A a \in Node : n \in Below(a) => a \in B
  PROVE  /\ MarkerList(Entered(n, range), M, B)
         /\ \A a \in Node : n \in Below(a) => Pursues(Entered(n, range), a)
<1> DEFINE root == SlotOf(n)
           below == GoesLeft(range, root) /\ Left[n] # NODE_NULL
           self == range.left <= root /\ root < range.right
           above == root + 1 < range.right /\ Right[n] # NODE_NULL
           L == IF below THEN Descend(n, Left[n], First[n], range) ELSE <<>>
           S == IF self THEN MarkThenCall(n, root, range) ELSE <<>>
           R == IF above THEN Descend(n, Right[n], root + 1, range) ELSE <<>>
<1>1. /\ First[n] \in Nat /\ root \in Nat /\ Weight[n] \in Nat
      /\ First[n] <= root /\ root < First[n] + Weight[n]
      /\ Left[n] = NODE_NULL => root = First[n]
      /\ Left[n] # NODE_NULL => /\ Left[n] \in Node /\ First[Left[n]] = First[n]
                                /\ First[Left[n]] + Weight[Left[n]] = root
      /\ Right[n] = NODE_NULL => root + 1 = First[n] + Weight[n]
      /\ Right[n] # NODE_NULL => /\ Right[n] \in Node /\ First[Right[n]] = root + 1
                                 /\ First[Right[n]] + Weight[Right[n]] = First[n] + Weight[n]
  BY Sizes
<1>2. range.left \in Nat /\ range.right \in Nat /\ range.left < range.right
  BY MarksAssumption DEF Slots
<1>3. /\ MarkerList(L, M, B)
      /\ below => \A a \in Node : n \in Below(a) => Pursues(L, a)
  <2>1. CASE below
    BY <1>1, <1>2, <2>1, DescendGood DEF GoesLeft, Meets, ChildOf
  <2>2. CASE ~below
    BY <2>2, EmptyList
  <2> QED BY <2>1, <2>2
<1>4. /\ MarkerList(S, M, B)
      /\ self => \A a \in Node : n \in Below(a) => Pursues(S, a)
  BY EmptyList, MarkThenCallGood
<1>5. /\ MarkerList(R, M, B)
      /\ above => \/ \A a \in Node : n \in Below(a) => Pursues(R, a)
                  \/ range.left <= root
  <2>1. CASE above
    BY <1>1, <1>2, <2>1, DescendGood DEF Meets, ChildOf
  <2>2. CASE ~above
    BY <2>2, EmptyList
  <2> QED BY <2>1, <2>2
<1>6. below \/ self \/ (above /\ ~(range.left <= root))
  BY <1>1, <1>2 DEF GoesLeft, Meets
<1>7. Entered(n, range) = L \o S \o R
  BY DEF Entered
<1> HIDE DEF root, below, self, above, L, S, R
<1>8. MarkerList(L \o S \o R, M, B)
  BY <1>3, <1>4, <1>5, MarkerListsJoin
<1>9. L \in Seq(Tasks) /\ S \in Seq(Tasks) /\ R \in Seq(Tasks) /\ L \o S \in Seq(Tasks)
  <2>1. L \in Seq(Tasks) /\ S \in Seq(Tasks) /\ R \in Seq(Tasks)
    BY <1>3, <1>4, <1>5 DEF MarkerList
  <2> QED BY <2>1
<1>10. ASSUME NEW a \in Node, n \in Below(a) PROVE Pursues(L \o S \o R, a)
  <2>1. CASE below
    BY <1>3, <1>9, <1>10, <2>1, PursuesMore
  <2>2. CASE ~below /\ self
    <3>1. L = <<>>
      BY <2>2 DEF L
    <3>2. L \o S = S
      BY <1>9, <3>1
    <3> QED BY <1>4, <1>9, <1>10, <2>2, <3>2, PursuesMore
  <2>3. CASE ~below /\ ~self
    <3>1. L = <<>> /\ S = <<>>
      BY <2>3 DEF L, S
    <3>2. L \o S \o R = R
      BY <1>9, <3>1
    <3> QED BY <1>5, <1>6, <1>10, <2>3, <3>2
  <2> QED BY <2>1, <2>2, <2>3
<1> QED
  BY <1>7, <1>8, <1>10

\* Having flagged a node, or taken the next step towards it, a thread is no
\* further from marking what it pursues.
LEMMA PursuesTail ==
  ASSUME NEW q \in Seq(Tasks), q # <<>>, q[1].op \in BelowOps, NEW a, Pursues(q, a)
  PROVE  Pursues(Tail(q), a)
<1> DEFINE r == Tail(q)
<1>1. r \in Seq(Tasks) /\ Len(q) \in Nat /\ Len(r) = Len(q) - 1
      /\ \A i \in 1 .. Len(q) - 1 : r[i] = q[i + 1]
  OBVIOUS
<1> HIDE DEF r
<1>2. PICK k \in 1 .. Len(q) :
        /\ k <= 2 /\ q[k].op \in {"enter"} \cup MarkOps /\ q[k].node \in Below(a)
        /\ k = 2 => q[1].op \in BelowOps
  BY DEF Pursues
<1>3. k = 2
  <2>1. SUFFICES ASSUME k = 1 PROVE FALSE
    BY <1>1, <1>2
  <2> QED BY <1>2, <2>1 DEF BelowOps, MarkOps
<1>4. 1 \in 1 .. Len(r) /\ r[1] = q[2] /\ 1 <= 2 /\ 1 # 2
  BY <1>1, <1>2, <1>3
<1> QED
  BY <1>2, <1>3, <1>4 DEF Pursues, r

LEMMA PursuesStep ==
  ASSUME NEW q \in Seq(Tasks), q # <<>>, NEW y \in Tasks, y.node = q[1].node,
         \/ q[1].op \in BelowOps /\ y.op \in BelowOps
         \/ q[1].op \in MarkOps /\ y.op \in MarkOps,
         NEW a, Pursues(q, a)
  PROVE  Pursues(<<y>> \o Tail(q), a)
<1> DEFINE r == <<y>> \o Tail(q)
<1>1. r \in Seq(Tasks) /\ Len(q) \in Nat /\ Len(q) > 0 /\ Len(r) = Len(q) /\ r[1] = y
      /\ \A i \in 1 .. Len(q) : i > 1 => r[i] = q[i]
  <2>1. <<y>> \in Seq(Tasks) /\ Len(<<y>>) = 1 /\ <<y>>[1] = y
    OBVIOUS
  <2>2. Len(q) \in Nat /\ Len(q) > 0
    OBVIOUS
  <2> QED BY <2>1, <2>2, Replaced
<1> HIDE DEF r
<1>2. PICK k \in 1 .. Len(q) :
        /\ k <= 2 /\ q[k].op \in {"enter"} \cup MarkOps /\ q[k].node \in Below(a)
        /\ k = 2 => q[1].op \in BelowOps
  BY DEF Pursues
<1>3. CASE k = 1
  <2>1. q[1].op \notin BelowOps
    BY <1>2, <1>3 DEF BelowOps, MarkOps
  <2>2. 1 \in 1 .. Len(r) /\ r[1].op \in MarkOps /\ r[1].node \in Below(a) /\ 1 <= 2 /\ 1 # 2
    BY <1>1, <1>2, <1>3, <2>1
  <2> QED BY <2>2 DEF Pursues, r
<1>4. CASE k = 2
  <2>1. q[1].op \notin MarkOps
    BY <1>2, <1>4 DEF BelowOps, MarkOps
  <2>2. 2 \in 1 .. Len(r) /\ r[2] = q[2] /\ r[1].op \in BelowOps /\ 2 <= 2
    BY <1>1, <1>2, <1>4, <2>1
  <2> QED BY <1>2, <1>4, <2>2 DEF Pursues, r
<1>5. k = 1 \/ k = 2
  BY <1>1, <1>2
<1> QED
  BY <1>3, <1>4, <1>5

-----------------------------------------------------------------------------
(* The lists of the readers.                                               *)

LEMMA ReaderListNext ==
  ASSUME NEW M, NEW q, q # <<>>, ReaderList(q, M), NEW s, ReaderList(s, M)
  PROVE  ReaderList(s \o Tail(q), M)
<1> DEFINE r == s \o Tail(q)
<1>1. q \in Seq(Tasks) /\ s \in Seq(Tasks)
  BY DEF ReaderList
<1>2. Len(q) \in Nat /\ Len(q) > 0 /\ Len(s) \in Nat
  BY <1>1
<1>3. r \in Seq(Tasks) /\ Len(r) = Len(s) + Len(q) - 1
      /\ \A i \in 1 .. Len(s) + Len(q) - 1 : r[i] = IF i <= Len(s) THEN s[i] ELSE q[i - Len(s) + 1]
  BY <1>1, Replaced
<1> HIDE DEF r
<1>4. ASSUME NEW i \in 1 .. Len(r) PROVE ReaderTask(r[i], M)
  <2>1. CASE i <= Len(s)
    BY <1>2, <1>3, <2>1 DEF ReaderList
  <2>2. CASE i > Len(s)
    <3>1. i - Len(s) + 1 \in 1 .. Len(q) /\ r[i] = q[i - Len(s) + 1]
      BY <1>2, <1>3, <2>2
    <3> QED BY <3>1 DEF ReaderList
  <2> QED BY <1>2, <2>1, <2>2
<1> QED
  BY <1>3, <1>4 DEF ReaderList, r

LEMMA ShortReaderLists ==
  ASSUME NEW M
  PROVE  /\ ReaderList(<<>>, M)
         /\ \A x : ReaderTask(x, M) => ReaderList(<<x>>, M)
<1>1. ReaderList(<<>>, M)
  BY DEF ReaderList
<1>2. ASSUME NEW x, ReaderTask(x, M) PROVE ReaderList(<<x>>, M)
  <2> DEFINE q == <<x>>
  <2>1. x \in Tasks
    BY <1>2 DEF ReaderTask
  <2>2. q \in Seq(Tasks) /\ Len(q) = 1 /\ q[1] = x
    BY <2>1
  <2>3. \A i \in 1 .. 1 : i = 1
    OBVIOUS
  <2> HIDE DEF q
  <2> QED BY <1>2, <2>2, <2>3 DEF ReaderList, q
<1> QED
  BY <1>1, <1>2

LEMMA ReaderListGrows ==
  ASSUME NEW q, NEW M, NEW M2, M \subseteq M2, ReaderList(q, M)
  PROVE  ReaderList(q, M2)
BY DEF ReaderList, ReaderTask

\* What was pending is what the first thing covered, or it still is.
LEMMA PendingNext ==
  ASSUME NEW q \in Seq(Tasks), q # <<>>, NEW s \in Seq(Tasks), NEW slot,
         Covers(q[1], slot) => Pending(s, slot), Pending(q, slot)
  PROVE  Pending(s \o Tail(q), slot)
<1> DEFINE r == s \o Tail(q)
<1>1. Len(q) \in Nat /\ Len(q) > 0 /\ Len(s) \in Nat
  OBVIOUS
<1>2. r \in Seq(Tasks) /\ Len(r) = Len(s) + Len(q) - 1
      /\ \A i \in 1 .. Len(s) + Len(q) - 1 : r[i] = IF i <= Len(s) THEN s[i] ELSE q[i - Len(s) + 1]
  BY Replaced
<1> HIDE DEF r
<1>3. PICK k \in 1 .. Len(q) : Covers(q[k], slot)
  BY DEF Pending
<1>4. CASE k = 1
  <2>1. PICK i \in 1 .. Len(s) : Covers(s[i], slot)
    BY <1>3, <1>4 DEF Pending
  <2>2. i \in 1 .. Len(r) /\ r[i] = s[i]
    BY <1>1, <1>2
  <2> QED BY <2>1, <2>2 DEF Pending, r
<1>5. CASE k > 1
  <2> DEFINE i == Len(s) + k - 1
  <2>1. i \in 1 .. Len(r) /\ ~(i <= Len(s)) /\ i - Len(s) + 1 = k
    BY <1>1, <1>2, <1>5
  <2>2. r[i] = q[k]
    BY <1>2, <2>1
  <2> HIDE DEF i
  <2> QED BY <1>3, <2>1, <2>2 DEF Pending, r
<1> QED
  BY <1>1, <1>4, <1>5

LEMMA Triple ==
  ASSUME NEW S, NEW x \in S, NEW y \in S, NEW z \in S
  PROVE  /\ <<x, y, z>> \in Seq(S) /\ Len(<<x, y, z>>) = 3
         /\ <<x, y, z>>[1] = x /\ <<x, y, z>>[2] = y /\ <<x, y, z>>[3] = z
OBVIOUS

\* The frame of a node is good and covers the slots under it.
LEMMA FrameGood ==
  ASSUME LinksGood, NEW n \in Node, NEW M
  PROVE  /\ ReaderList(Frame(n, First[n]), M)
         /\ \A slot \in Int : First[n] <= slot /\ slot < First[n] + Weight[n] =>
               Pending(Frame(n, First[n]), slot)
<1> DEFINE first == First[n]
           root == SlotOf(n)
           x == Task("left?", n, first, NoRange)
           y == Task("marked?", n, root, NoRange)
           z == Task("right?", n, root + 1, NoRange)
           q == <<x, y, z>>
<1>1. Frame(n, First[n]) = q
  <2>1. left_link[n].index = Left[n] /\ n # NODE_NULL
    BY MarksAssumption DEF LinksGood
  <2> QED BY <2>1 DEF Frame, SlotOf
<1>2. first \in 0 .. Weight[Root] /\ root \in 0 .. Weight[Root] /\ root + 1 \in 0 .. Weight[Root]
      /\ first \in Nat /\ root \in Nat /\ Weight[n] \in Nat
      /\ first <= root /\ root < first + Weight[n]
  BY Sizes
<1>3. first = First[n] /\ root = SlotOf(n)
  OBVIOUS
<1> HIDE DEF first, root
<1>4. /\ x \in Tasks /\ x.op = "left?" /\ x.node = n /\ x.idx = first
      /\ y \in Tasks /\ y.op = "marked?" /\ y.node = n /\ y.idx = root
      /\ z \in Tasks /\ z.op = "right?" /\ z.node = n /\ z.idx = root + 1
  <2>1. "left?" \in Ops /\ "marked?" \in Ops /\ "right?" \in Ops
    BY DEF Ops
  <2> QED BY <1>2, <2>1, TaskTyped
<1> HIDE DEF x, y, z
<1>5. q \in Seq(Tasks) /\ Len(q) = 3 /\ q[1] = x /\ q[2] = y /\ q[3] = z
  BY <1>4, Triple
<1> HIDE DEF q
<1>6. ReaderTask(x, M) /\ ReaderTask(y, M) /\ ReaderTask(z, M)
  BY <1>3, <1>4 DEF ReaderTask
<1>7. ReaderList(q, M)
  <2>1. \A i \in 1 .. 3 : i = 1 \/ i = 2 \/ i = 3
    OBVIOUS
  <2> QED BY <1>5, <1>6, <2>1 DEF ReaderList
<1>8. ASSUME NEW slot \in Int, first <= slot, slot < first + Weight[n]
      PROVE  Pending(q, slot)
  <2>1. CASE slot < root
    <3>1. Covers(q[1], slot) /\ 1 \in 1 .. Len(q)
      BY <1>3, <1>4, <1>5, <1>8, <2>1 DEF Covers
    <3> QED BY <3>1 DEF Pending
  <2>2. CASE slot = root
    <3>1. Covers(q[2], slot) /\ 2 \in 1 .. Len(q)
      BY <1>3, <1>4, <1>5, <2>2 DEF Covers
    <3> QED BY <3>1 DEF Pending
  <2>3. CASE slot > root
    <3>1. Covers(q[3], slot) /\ 3 \in 1 .. Len(q)
      BY <1>3, <1>4, <1>5, <1>8, <2>3 DEF Covers
    <3> QED BY <3>1 DEF Pending
  <2> QED BY <1>2, <2>1, <2>2, <2>3
<1> QED
  BY <1>1, <1>3, <1>7, <1>8

-----------------------------------------------------------------------------
(* The steps.                                                              *)

\* A thread that is doing something has a list whose first thing that is.
LEMMA DoingFirst ==
  ASSUME ListsGood, NEW t \in Thread, Running(t)
  PROVE  /\ todo[t] \in Seq(Tasks) /\ todo[t] # <<>> /\ Len(todo[t]) \in Nat /\ Len(todo[t]) > 0
         /\ Now(t) = todo[t][1] /\ Now(t) \in Tasks /\ Now(t).node \in Node
         /\ t \in Marker => MarkerPlace(todo[t], 1, Marked, Flagged)
         /\ t \in Reader => ReaderTask(Now(t), Marked)
<1>1. todo[t] \in Seq(Tasks) /\ todo[t] # <<>>
  BY DEF ListsGood, Running
<1>2. Len(todo[t]) \in Nat /\ Len(todo[t]) > 0 /\ Now(t) = todo[t][1] /\ Now(t) \in Tasks
  BY <1>1, Dropped DEF Now
<1>3. Now(t).node \in Node
  BY <1>2 DEF Tasks
<1>4. t \in Marker => MarkerPlace(todo[t], 1, Marked, Flagged)
  BY <1>2 DEF ListsGood, MarkerList
<1>5. t \in Reader => ReaderTask(Now(t), Marked)
  BY <1>2 DEF ListsGood, ReaderList
<1> QED
  BY <1>1, <1>2, <1>3, <1>4, <1>5

LEMMA LinksStay ==
  ASSUME IInv, UNCHANGED links
  PROVE  LinksGood' /\ Marked' = Marked /\ Flagged' = Flagged
BY DEF IInv, links, LinksGood, Marked, Flagged, get_marked, get_marks_below

\* A step that gives the thread t the list q, and no mark or flag away.
LEMMA ListsStep ==
  ASSUME IInv, NEW t \in Thread, NEW q, todo' = [todo EXCEPT ![t] = q],
         Marked \subseteq Marked', Flagged \subseteq Flagged',
         t \in Marker => MarkerList(q, Marked', Flagged'),
         t \in Reader => ReaderList(q, Marked')
  PROVE  /\ ListsGood' /\ todo'[t] = q
         /\ \A s \in Thread : s # t => todo'[s] = todo[s]
<1>1. todo \in [Thread -> Seq(Tasks)] /\ Thread = Marker \cup Reader
  BY DEF IInv, ListsGood, Thread
<1>2. q \in Seq(Tasks)
  BY <1>1 DEF MarkerList, ReaderList
<1>3. todo' \in [Thread -> Seq(Tasks)] /\ todo'[t] = q
      /\ \A s \in Thread : s # t => todo'[s] = todo[s]
  BY <1>1, <1>2
<1>4. ASSUME NEW s \in Marker PROVE MarkerList(todo'[s], Marked', Flagged')
  <2>1. MarkerList(todo[s], Marked, Flagged)
    BY DEF IInv, ListsGood
  <2>2. MarkerList(todo[s], Marked', Flagged')
    BY <2>1, MarkerListGrows
  <2> QED BY <1>1, <1>3, <2>2
<1>5. ASSUME NEW s \in Reader PROVE ReaderList(todo'[s], Marked')
  <2>1. ReaderList(todo[s], Marked)
    BY DEF IInv, ListsGood
  <2>2. ReaderList(todo[s], Marked')
    BY <2>1, ReaderListGrows
  <2> QED BY <1>1, <1>3, <2>2
<1> QED
  BY <1>3, <1>4, <1>5 DEF ListsGood

\* A step of a marker other than a store or a call of the callback: it goes on
\* pursuing what it did.
LEMMA MarkerStep ==
  ASSUME IInv, NEW t \in Marker, ~Doing(t, "call"), UNCHANGED <<links, history>>,
         NEW q, todo' = [todo EXCEPT ![t] = q], MarkerList(q, Marked, Flagged),
         \A n \in Node : Pursues(todo[t], n) => Pursues(q, n)
  PROVE  IInv'
<1>1. LinksGood' /\ Marked' = Marked /\ Flagged' = Flagged
  BY LinksStay
<1>2. t \in Thread /\ t \notin Reader
  BY MarksAssumption DEF Thread
<1>3. ListsGood' /\ todo'[t] = q /\ \A s \in Thread : s # t => todo'[s] = todo[s]
  BY <1>1, <1>2, ListsStep
<1>4. \A s \in Reader : todo'[s] = todo[s]
  BY <1>2, <1>3 DEF Thread
<1>5. HistoryGood'
  BY <1>1 DEF IInv, HistoryGood, SlotsOf, history
<1>6. FlagsGood'
  <2>1. \A n \in Node : \A m \in Below(n) : m \in Marked' => n \in Flagged'
    BY <1>1 DEF IInv, FlagsGood
  <2>2. ASSUME NEW n \in Flagged', ~\E m \in Below(n) : m \in Marked'
        PROVE  \E s \in Marker : Pursues(todo'[s], n)
    <3>1. n \in Node /\ \E s \in Marker : Pursues(todo[s], n)
      BY <1>1, <2>2 DEF IInv, FlagsGood, Flagged
    <3>2. PICK s \in Marker : Pursues(todo[s], n)
      BY <3>1
    <3>3. Pursues(todo'[s], n)
      BY <1>3, <3>1, <3>2 DEF Thread
    <3> QED BY <3>3
  <2> QED BY <2>1, <2>2 DEF FlagsGood
<1>7. CallsGood'
  <2>1. ASSUME NEW n \in Marked', SlotOf(n) \notin called'
        PROVE  \E s \in Marker : Doing(s, "call")' /\ Now(s)'.node = n
    <3>1. PICK s \in Marker : Doing(s, "call") /\ Now(s).node = n
      BY <1>1, <2>1 DEF IInv, CallsGood, history
    <3>2. todo'[s] = todo[s]
      BY <1>3, <3>1 DEF Thread
    <3> QED BY <3>1, <3>2 DEF Doing, Now, Running
  <2> QED BY <2>1 DEF CallsGood
<1>8. ReadersGood'
  BY <1>4 DEF IInv, ReadersGood, history
<1> QED
  BY <1>1, <1>3, <1>5, <1>6, <1>7, <1>8 DEF IInv

\* A step of a reader: it has had marked values only, and those it owes are had
\* or pending.
LEMMA ReaderStep ==
  ASSUME IInv, NEW t \in Reader, UNCHANGED <<links, called>>,
         NEW q, todo' = [todo EXCEPT ![t] = q], ReaderList(q, Marked),
         seen' \in [Reader -> SUBSET SlotsOf(Marked)],
         owed' \in [Reader -> SUBSET SlotsOf(Marked)],
         \A s \in Reader : s # t => seen'[s] = seen[s] /\ owed'[s] = owed[s],
         \A slot \in owed'[t] \ seen'[t] : Pending(q, slot)
  PROVE  IInv'
<1>1. LinksGood' /\ Marked' = Marked /\ Flagged' = Flagged
  BY LinksStay
<1>2. t \in Thread /\ t \notin Marker
  BY MarksAssumption DEF Thread
<1>3. ListsGood' /\ todo'[t] = q /\ \A s \in Thread : s # t => todo'[s] = todo[s]
  BY <1>1, <1>2, ListsStep
<1>4. \A s \in Marker : todo'[s] = todo[s]
  BY <1>2, <1>3 DEF Thread
<1>5. HistoryGood'
  BY <1>1 DEF IInv, HistoryGood, SlotsOf
<1>6. FlagsGood'
  BY <1>1, <1>4 DEF IInv, FlagsGood
<1>7. CallsGood'
  BY <1>1, <1>4 DEF IInv, CallsGood, Doing, Now, Running
<1>8. ReadersGood'
  <2>1. ASSUME NEW s \in Reader, NEW slot \in owed'[s] \ seen'[s] PROVE Pending(todo'[s], slot)
    <3>1. CASE s = t
      BY <1>3, <2>1, <3>1
    <3>2. CASE s # t
      BY <1>3, <2>1, <3>2 DEF IInv, ReadersGood, Thread
    <3> QED BY <3>1, <3>2
  <2> QED BY <2>1 DEF ReadersGood
<1> QED
  BY <1>1, <1>3, <1>5, <1>6, <1>7, <1>8 DEF IInv

LEMMA InitInv ==
  ASSUME Init
  PROVE  IInv
<1>1. LinksGood
  <2>1. Left \in [Node -> Link] /\ Right \in [Node -> Link]
    BY MarksAssumption
  <2> QED BY <2>1 DEF Init, LinksGood, Words
<1>2. Marked = {} /\ Flagged = {}
  BY DEF Init, Marked, Flagged, get_marked, get_marks_below
<1>3. ListsGood
  <2>1. \A t \in Thread : todo[t] = <<>> /\ <<>> \in Seq(Tasks)
    BY DEF Init
  <2>2. MarkerList(<<>>, Marked, Flagged) /\ ReaderList(<<>>, Marked)
    BY EmptyList DEF ReaderList
  <2> QED BY <2>1, <2>2 DEF Init, ListsGood, Thread
<1>4. HistoryGood /\ ReadersGood
  BY DEF Init, HistoryGood, ReadersGood
<1>5. FlagsGood /\ CallsGood
  BY <1>2 DEF FlagsGood, CallsGood
<1> QED
  BY <1>1, <1>3, <1>4, <1>5 DEF IInv

LEMMA StartMarkingStep ==
  ASSUME IInv, NEW t \in Marker, NEW range \in Range, StartMarking(t, range)
  PROVE  IInv'
<1> DEFINE x == Task("enter", Root, 0, range)
<1>1. Root \in Node /\ First[Root] = 0
  BY MarksAssumption
<1>2. x \in Tasks /\ x.op = "enter" /\ x.node = Root /\ x.idx = First[Root] /\ x.range = range
  <2>1. "enter" \in Ops
    BY DEF Ops
  <2>2. 0 \in 0 .. Weight[Root]
    BY <1>1, Sizes
  <2> QED BY <1>1, <2>1, <2>2, TaskTyped
<1>3. todo' = [todo EXCEPT ![t] = <<x>>] /\ UNCHANGED <<links, history>> /\ todo[t] = <<>>
  BY DEF StartMarking, Begins, Running
<1>4. Meets(range, Root)
  <2>1. range.left \in Nat /\ range.right \in Nat /\ range.left < range.right
        /\ range.right <= Weight[Root] /\ Weight[Root] \in Nat
    BY MarksAssumption DEF Slots
  <2> QED BY <1>1, <2>1 DEF Meets
<1> HIDE DEF x
<1>5. MarkerList(<<x>>, Marked, Flagged)
  <2> DEFINE q == <<x>>
  <2>1. q \in Seq(Tasks) /\ Len(q) = 1 /\ q[1] = x
    BY <1>2
  <2> HIDE DEF q
  <2>2. x.op = "enter" /\ x.op \notin BelowOps /\ x.op \notin MarkOps /\ x.op # "call"
    BY <1>2 DEF BelowOps, MarkOps
  <2>3. MarkerTask(x)
    BY <1>2, <1>4, <2>2 DEF MarkerTask
  <2>4. MarkerPlace(q, 1, Marked, Flagged)
    BY <1>2, <2>1, <2>2, <2>3, RootOnTop DEF MarkerPlace
  <2>5. \A i \in 1 .. 1 : i = 1
    OBVIOUS
  <2> QED BY <2>1, <2>4, <2>5 DEF MarkerList, q
<1>6. ~Doing(t, "call") /\ \A n \in Node : ~Pursues(todo[t], n)
  BY <1>3 DEF Doing, Running, Pursues
<1> QED
  BY <1>3, <1>5, <1>6, MarkerStep

LEMMA EnterStep ==
  ASSUME IInv, NEW t \in Marker, Enter(t)
  PROVE  IInv'
<1> DEFINE n == Now(t).node
           range == Now(t).range
           q == todo[t]
           s == Entered(n, range)
<1>1. t \in Thread /\ Running(t) /\ Now(t).op = "enter" /\ UNCHANGED <<links, history>>
  BY DEF Thread, Enter, Doing
<1>2. /\ q \in Seq(Tasks) /\ q # <<>> /\ Now(t) = q[1] /\ n \in Node
      /\ MarkerPlace(q, 1, Marked, Flagged)
  BY <1>1, DoingFirst DEF IInv
<1>3. range \in Range /\ Now(t).idx = First[n] /\ Meets(range, n)
  BY <1>1, <1>2 DEF MarkerPlace, MarkerTask
<1>4. todo' = [todo EXCEPT ![t] = s \o Tail(q)]
  <2>1. left_link[n].index = Left[n] /\ right_link[n].index = Right[n]
    BY <1>2 DEF IInv, LinksGood
  <2>2. First[n] + nweight(Left[n]) = SlotOf(n)
    BY DEF SlotOf
  <2> QED BY <1>3, <2>1, <2>2 DEF Enter, Instead, Entered
<1>5. \A a \in Node : n \in Below(a) => a \in Flagged
  BY <1>1, <1>2 DEF MarkerPlace
<1>6. MarkerList(s, Marked, Flagged) /\ \A a \in Node : n \in Below(a) => Pursues(s, a)
  BY <1>2, <1>3, <1>5, EnteredGood
<1>7. MarkerList(Tail(q), Marked, Flagged)
  <2>1. MarkerList(q, Marked, Flagged)
    BY DEF IInv, ListsGood
  <2>2. q[1].op \notin BelowOps /\ q[1].op \notin MarkOps
    BY <1>1, <1>2 DEF BelowOps, MarkOps
  <2> QED BY <1>2, <2>1, <2>2, MarkerListTail
<1> HIDE DEF n, range, s
<1>8. MarkerList(s \o Tail(q), Marked, Flagged)
  BY <1>6, <1>7, MarkerListsJoin
<1>9. ASSUME NEW a \in Node, Pursues(q, a) PROVE Pursues(s \o Tail(q), a)
  <2>1. q[1].op \notin BelowOps
    BY <1>1, <1>2 DEF BelowOps
  <2>2. PICK k \in 1 .. Len(q) : k <= 2 /\ q[k].node \in Below(a) /\ k # 2
    BY <1>9, <2>1 DEF Pursues
  <2>3. k = 1 /\ n \in Below(a)
    BY <1>2, <2>2 DEF n
  <2>4. s \in Seq(Tasks) /\ Tail(q) \in Seq(Tasks)
    BY <1>6, <1>7 DEF MarkerList
  <2> QED BY <1>6, <2>3, <2>4, PursuesMore
<1>10. ~Doing(t, "call")
  BY <1>1 DEF Doing
<1> QED
  BY <1>1, <1>4, <1>8, <1>9, <1>10, MarkerStep

LEMMA TestBelowStep ==
  ASSUME IInv, NEW t \in Marker, TestBelow(t)
  PROVE  IInv'
<1> DEFINE x == Now(t)
           q == todo[t]
           y == [x EXCEPT !.op = "below"]
<1>1. t \in Thread /\ Running(t) /\ x.op = "test_below" /\ UNCHANGED <<links, history>>
  BY DEF Thread, TestBelow, Doing
<1>2. /\ q \in Seq(Tasks) /\ q # <<>> /\ x = q[1] /\ x \in Tasks /\ x.node \in Node
      /\ MarkerPlace(q, 1, Marked, Flagged)
  BY <1>1, DoingFirst DEF IInv
<1>3. MarkerList(q, Marked, Flagged)
  BY DEF IInv, ListsGood
<1>4. ~Doing(t, "call") /\ x.op \in BelowOps /\ x.op \notin MarkOps
  BY <1>1 DEF Doing, BelowOps, MarkOps
<1>5. CASE get_marks_below(x.node)
  <2>1. todo' = [todo EXCEPT ![t] = Tail(q)]
    BY <1>2, <1>5, Dropped DEF TestBelow, Instead
  <2>2. x.node \in Flagged
    BY <1>2, <1>5 DEF Flagged
  <2>3. MarkerList(Tail(q), Marked, Flagged)
    BY <1>2, <1>3, <1>4, <2>2, MarkerListTail
  <2>4. \A a \in Node : Pursues(q, a) => Pursues(Tail(q), a)
    BY <1>2, <1>4, PursuesTail
  <2> QED BY <1>1, <1>4, <2>1, <2>3, <2>4, MarkerStep
<1>6. CASE ~get_marks_below(x.node)
  <2>1. todo' = [todo EXCEPT ![t] = <<y>> \o Tail(q)]
    BY <1>6 DEF TestBelow, Instead
  <2>2. y \in Tasks /\ y.op = "below" /\ y.node = x.node /\ y.range = x.range
    BY <1>2 DEF Tasks, Ops
  <2>3. MarkerTask(x)
    BY <1>2 DEF MarkerPlace
  <2> HIDE DEF y
  <2>4. MarkerTask(y) /\ y.op \in BelowOps
    BY <2>2, <2>3 DEF MarkerTask, BelowOps, MarkOps
  <2>5. MarkerList(<<y>> \o Tail(q), Marked, Flagged)
    BY <1>2, <1>3, <1>4, <2>2, <2>4, MarkerListStep
  <2>6. \A a \in Node : Pursues(q, a) => Pursues(<<y>> \o Tail(q), a)
    BY <1>2, <1>4, <2>2, <2>4, PursuesStep
  <2> QED BY <1>1, <1>4, <2>1, <2>5, <2>6, MarkerStep
<1> QED
  BY <1>5, <1>6

LEMMA LoadStep ==
  ASSUME IInv, NEW t \in Marker, Load(t)
  PROVE  IInv'
<1> DEFINE x == Now(t)
           q == todo[t]
           mark == [x EXCEPT !.op = "store_mark", !.held = left_link[x.node]]
           below == [x EXCEPT !.op = "store_below", !.held = right_link[x.node]]
<1>1. t \in Thread /\ Running(t) /\ UNCHANGED <<links, history>>
  BY DEF Thread, Load, Doing
<1>2. /\ q \in Seq(Tasks) /\ q # <<>> /\ x = q[1] /\ x \in Tasks /\ x.node \in Node
      /\ MarkerPlace(q, 1, Marked, Flagged)
  BY <1>1, DoingFirst DEF IInv
<1>3. MarkerList(q, Marked, Flagged) /\ MarkerTask(x)
  BY <1>2 DEF IInv, ListsGood, MarkerPlace
<1>4. /\ left_link[x.node] \in Words /\ left_link[x.node].index = Left[x.node]
      /\ right_link[x.node] \in Words /\ right_link[x.node].index = Right[x.node]
  BY <1>2 DEF IInv, LinksGood
<1>5. CASE Doing(t, "mark")
  <2>1. todo' = [todo EXCEPT ![t] = <<mark>> \o Tail(q)]
    BY <1>5 DEF Load, Doing, Instead
  <2>2. x.op = "mark" /\ x.op \in MarkOps /\ ~Doing(t, "call")
    BY <1>5 DEF Doing, MarkOps
  <2>3. /\ mark \in Tasks /\ mark.op = "store_mark" /\ mark.node = x.node /\ mark.idx = x.idx
        /\ mark.range = x.range /\ mark.held = left_link[x.node]
    BY <1>2, <1>4 DEF Tasks, Ops
  <2> HIDE DEF mark
  <2>4. MarkerTask(mark) /\ mark.op \in MarkOps
    BY <1>3, <1>4, <2>2, <2>3 DEF MarkerTask, BelowOps, MarkOps
  <2>5. MarkerList(<<mark>> \o Tail(q), Marked, Flagged)
    BY <1>2, <1>3, <2>2, <2>3, <2>4, MarkerListStep
  <2>6. \A a \in Node : Pursues(q, a) => Pursues(<<mark>> \o Tail(q), a)
    BY <1>2, <2>2, <2>3, <2>4, PursuesStep
  <2> QED BY <1>1, <2>1, <2>2, <2>5, <2>6, MarkerStep
<1>6. CASE Doing(t, "below")
  <2>1. todo' = [todo EXCEPT ![t] = <<below>> \o Tail(q)]
    BY <1>6 DEF Load, Doing, Instead
  <2>2. x.op = "below" /\ x.op \in BelowOps /\ ~Doing(t, "call")
    BY <1>6 DEF Doing, BelowOps
  <2>3. /\ below \in Tasks /\ below.op = "store_below" /\ below.node = x.node
        /\ below.range = x.range /\ below.held = right_link[x.node]
    BY <1>2, <1>4 DEF Tasks, Ops
  <2> HIDE DEF below
  <2>4. MarkerTask(below) /\ below.op \in BelowOps
    BY <1>3, <1>4, <2>2, <2>3 DEF MarkerTask, BelowOps, MarkOps
  <2>5. MarkerList(<<below>> \o Tail(q), Marked, Flagged)
    BY <1>2, <1>3, <2>2, <2>3, <2>4, MarkerListStep
  <2>6. \A a \in Node : Pursues(q, a) => Pursues(<<below>> \o Tail(q), a)
    BY <1>2, <2>2, <2>3, <2>4, PursuesStep
  <2> QED BY <1>1, <2>1, <2>2, <2>5, <2>6, MarkerStep
<1> QED
  BY <1>5, <1>6 DEF Load

\* Setting a bit in the word that was read keeps its index and adds a node to
\* those marked, or flagged.
LEMMA StoreLinks ==
  ASSUME IInv, NEW t \in Marker, Store(t)
  PROVE  /\ LinksGood'
         /\ \/ /\ Now(t).op = "store_mark"
               /\ Marked' = Marked \cup {Now(t).node} /\ Flagged' = Flagged
            \/ /\ Now(t).op = "store_below"
               /\ Flagged' = Flagged \cup {Now(t).node} /\ Marked' = Marked
<1> DEFINE x == Now(t)
<1>1. t \in Thread /\ Running(t)
  BY DEF Thread, Store, Doing
<1>2. x.node \in Node /\ x = todo[t][1] /\ MarkerPlace(todo[t], 1, Marked, Flagged)
  BY <1>1, DoingFirst DEF IInv
<1>3. MarkerTask(x)
  BY <1>2 DEF MarkerPlace
<1>4. /\ left_link \in [Node -> Words] /\ right_link \in [Node -> Words]
      /\ \A n \in Node : left_link[n].index = Left[n] /\ right_link[n].index = Right[n]
  BY DEF IInv, LinksGood
<1>5. CASE Doing(t, "store_mark")
  <2>1. x.op = "store_mark" /\ x.held \in Words /\ x.held.index = Left[x.node]
    BY <1>3, <1>5 DEF Doing, MarkerTask
  <2>2. left_link' = [left_link EXCEPT ![x.node] = Enabled(x.held)] /\ right_link' = right_link
    BY <1>5, <2>1 DEF Store, Doing
  <2>3. /\ Enabled(x.held) \in Words /\ Enabled(x.held).index = Left[x.node]
        /\ Enabled(x.held).bit = TRUE
    BY <2>1 DEF Enabled, Words
  <2>4. LinksGood'
    BY <1>2, <1>4, <2>2, <2>3 DEF LinksGood
  <2>5. \A n \in Node : left_link'[n] = IF n = x.node THEN Enabled(x.held) ELSE left_link[n]
    BY <1>4, <2>2
  <2>6. Marked' = Marked \cup {x.node}
    BY <1>2, <2>3, <2>5 DEF Marked, get_marked
  <2>7. Flagged' = Flagged
    BY <2>2 DEF Flagged, get_marks_below
  <2> QED BY <2>1, <2>4, <2>6, <2>7
<1>6. CASE Doing(t, "store_below")
  <2>1. x.op = "store_below" /\ x.held \in Words /\ x.held.index = Right[x.node]
    BY <1>3, <1>6 DEF Doing, MarkerTask
  <2>2. right_link' = [right_link EXCEPT ![x.node] = Enabled(x.held)] /\ left_link' = left_link
    BY <1>6, <2>1 DEF Store, Doing
  <2>3. /\ Enabled(x.held) \in Words /\ Enabled(x.held).index = Right[x.node]
        /\ Enabled(x.held).bit = TRUE
    BY <2>1 DEF Enabled, Words
  <2>4. LinksGood'
    BY <1>2, <1>4, <2>2, <2>3 DEF LinksGood
  <2>5. \A n \in Node : right_link'[n] = IF n = x.node THEN Enabled(x.held) ELSE right_link[n]
    BY <1>4, <2>2
  <2>6. Flagged' = Flagged \cup {x.node}
    BY <1>2, <2>3, <2>5 DEF Flagged, get_marks_below
  <2>7. Marked' = Marked
    BY <2>2 DEF Marked, get_marked
  <2> QED BY <2>1, <2>4, <2>6, <2>7
<1> QED
  BY <1>5, <1>6 DEF Store

LEMMA StoreStep ==
  ASSUME IInv, NEW t \in Marker, Store(t)
  PROVE  IInv'
<1> DEFINE x == Now(t)
           q == todo[t]
           r == Tail(q)
<1>1. t \in Thread /\ t \notin Reader /\ Running(t) /\ UNCHANGED history
  BY MarksAssumption DEF Thread, Store, Doing
<1>2. /\ q \in Seq(Tasks) /\ q # <<>> /\ x = q[1] /\ x \in Tasks /\ x.node \in Node
      /\ MarkerPlace(q, 1, Marked, Flagged)
      /\ Len(q) \in Nat
  BY <1>1, DoingFirst DEF IInv
<1>3. /\ r \in Seq(Tasks) /\ Len(r) = Len(q) - 1 /\ \A i \in 1 .. Len(q) - 1 : r[i] = q[i + 1]
      /\ <<>> \o Tail(q) = r
  BY <1>2, Dropped
<1>4. todo' = [todo EXCEPT ![t] = r]
  BY <1>3 DEF Store, Instead
<1>5. /\ LinksGood'
      /\ \/ x.op = "store_mark" /\ Marked' = Marked \cup {x.node} /\ Flagged' = Flagged
         \/ x.op = "store_below" /\ Flagged' = Flagged \cup {x.node} /\ Marked' = Marked
  BY StoreLinks
<1>6. Marked \subseteq Marked' /\ Flagged \subseteq Flagged'
  BY <1>5
<1>7. MarkerList(r, Marked', Flagged')
  <2>1. MarkerList(q, Marked, Flagged)
    BY DEF IInv, ListsGood
  <2>2. MarkerList(q, Marked', Flagged')
    BY <1>6, <2>1, MarkerListGrows
  <2>3. q[1].op \in BelowOps => q[1].node \in Flagged'
    BY <1>2, <1>5 DEF BelowOps
  <2>4. q[1].op \in MarkOps => q[1].node \in Marked'
    BY <1>2, <1>5 DEF MarkOps
  <2> QED BY <1>2, <2>2, <2>3, <2>4, MarkerListTail
<1> HIDE DEF r, x
<1>8. ListsGood' /\ todo'[t] = r /\ \A s \in Thread : s # t => todo'[s] = todo[s]
  BY <1>1, <1>4, <1>6, <1>7, ListsStep
<1>9. /\ \A s \in Marker : s # t => todo'[s] = todo[s]
      /\ \A s \in Reader : todo'[s] = todo[s]
  BY <1>1, <1>8 DEF Thread
<1>10. HistoryGood'
  <2>1. SlotsOf(Marked) \subseteq SlotsOf(Marked')
    BY <1>6 DEF SlotsOf
  <2> QED BY <1>1, <2>1 DEF IInv, HistoryGood, history
<1>11. ReadersGood'
  BY <1>1, <1>9 DEF IInv, ReadersGood, history
<1>12. CASE x.op = "store_mark"
  <2>1. Marked' = Marked \cup {x.node} /\ Flagged' = Flagged
    BY <1>5, <1>12
  <2>2. x.op \in MarkOps /\ x.op \notin BelowOps
    BY <1>12 DEF MarkOps, BelowOps
  <2>3. /\ 1 < Len(q) /\ q[2].op = "call" /\ q[2].node = x.node
        /\ \A a \in Node : x.node \in Below(a) => a \in Flagged
    BY <1>2, <2>2 DEF MarkerPlace
  <2>4. \A n \in Node : \A m \in Below(n) : m \in Marked' => n \in Flagged'
    BY <2>1, <2>3 DEF IInv, FlagsGood
  <2>5. ASSUME NEW n \in Flagged', ~\E m \in Below(n) : m \in Marked'
        PROVE  \E s \in Marker : Pursues(todo'[s], n)
    <3>1. n \in Flagged /\ n \in Node /\ ~\E m \in Below(n) : m \in Marked
      BY <2>1, <2>5 DEF Flagged
    <3>2. PICK s \in Marker : Pursues(todo[s], n)
      BY <3>1 DEF IInv, FlagsGood
    <3>3. s # t
      <4>1. SUFFICES ASSUME Pursues(q, n) PROVE FALSE
        BY <3>2
      <4>2. PICK k \in 1 .. Len(q) : k <= 2 /\ q[k].node \in Below(n) /\ k # 2
        BY <1>2, <2>2, <4>1 DEF Pursues
      <4>3. x.node \in Below(n)
        BY <1>2, <4>2
      <4> QED BY <2>1, <2>5, <4>3
    <3> QED BY <1>9, <3>2, <3>3
  <2>6. FlagsGood'
    BY <2>4, <2>5 DEF FlagsGood
  <2>7. ASSUME NEW n \in Marked', SlotOf(n) \notin called'
        PROVE  \E s \in Marker : Doing(s, "call")' /\ Now(s)'.node = n
    <3>1. CASE n = x.node
      <4>1. r # <<>> /\ r[1] = q[2] /\ Head(r) = r[1]
        BY <1>2, <1>3, <2>3
      <4>2. Doing(t, "call")' /\ Now(t)'.node = n
        BY <1>8, <2>3, <3>1, <4>1 DEF Doing, Now, Running
      <4> QED BY <4>2
    <3>2. CASE n # x.node
      <4>1. n \in Marked /\ SlotOf(n) \notin called
        BY <1>1, <2>1, <2>7, <3>2 DEF history
      <4>2. PICK s \in Marker : Doing(s, "call") /\ Now(s).node = n
        BY <4>1 DEF IInv, CallsGood
      <4>3. s # t
        BY <1>12, <4>2 DEF Doing, x
      <4> QED BY <1>9, <4>2, <4>3 DEF Doing, Now, Running
    <3> QED BY <3>1, <3>2
  <2>8. CallsGood'
    BY <2>7 DEF CallsGood
  <2> QED BY <1>5, <1>8, <1>10, <1>11, <2>6, <2>8 DEF IInv
<1>13. CASE x.op = "store_below"
  <2>1. Flagged' = Flagged \cup {x.node} /\ Marked' = Marked
    BY <1>5, <1>13
  <2>2. x.op \in BelowOps
    BY <1>13 DEF BelowOps
  <2>3. 1 < Len(q) /\ q[2].op = "enter" /\ q[2].node \in Below(x.node)
    BY <1>2, <2>2 DEF MarkerPlace
  <2>4. \A n \in Node : \A m \in Below(n) : m \in Marked' => n \in Flagged'
    BY <2>1 DEF IInv, FlagsGood
  <2>5. ASSUME NEW n \in Flagged', ~\E m \in Below(n) : m \in Marked'
        PROVE  \E s \in Marker : Pursues(todo'[s], n)
    <3>1. CASE n = x.node
      <4>1. r[1] = q[2] /\ 1 \in 1 .. Len(r) /\ 1 <= 2 /\ 1 # 2
        BY <1>2, <1>3, <2>3
      <4>2. Pursues(r, n)
        BY <2>3, <3>1, <4>1 DEF Pursues
      <4> QED BY <1>8, <4>2
    <3>2. CASE n # x.node
      <4>1. n \in Flagged /\ ~\E m \in Below(n) : m \in Marked
        BY <2>1, <2>5, <3>2
      <4>2. PICK s \in Marker : Pursues(todo[s], n)
        BY <4>1 DEF IInv, FlagsGood
      <4>3. CASE s = t
        <5>1. Pursues(r, n)
          BY <1>2, <2>2, <4>2, <4>3, PursuesTail DEF r
        <5> QED BY <1>8, <5>1
      <4>4. CASE s # t
        BY <1>9, <4>2, <4>4
      <4> QED BY <4>3, <4>4
    <3> QED BY <3>1, <3>2
  <2>6. FlagsGood'
    BY <2>4, <2>5 DEF FlagsGood
  <2>7. ASSUME NEW n \in Marked', SlotOf(n) \notin called'
        PROVE  \E s \in Marker : Doing(s, "call")' /\ Now(s)'.node = n
    <3>1. n \in Marked /\ SlotOf(n) \notin called
      BY <1>1, <2>1, <2>7 DEF history
    <3>2. PICK s \in Marker : Doing(s, "call") /\ Now(s).node = n
      BY <3>1 DEF IInv, CallsGood
    <3>3. s # t
      BY <1>13, <3>2 DEF Doing, x
    <3> QED BY <1>9, <3>2, <3>3 DEF Doing, Now, Running
  <2>8. CallsGood'
    BY <2>7 DEF CallsGood
  <2> QED BY <1>5, <1>8, <1>10, <1>11, <2>6, <2>8 DEF IInv
<1> QED
  BY <1>5, <1>12, <1>13

\* A marker's callback: its node is marked, and no thread pursues anything with
\* it, so that a call it ends leaves no flag without a mark.
LEMMA MarkerCallStep ==
  ASSUME IInv, NEW t \in Marker, Call(t)
  PROVE  IInv'
<1> DEFINE x == Now(t)
           q == todo[t]
<1>1. t \in Thread /\ t \notin Reader /\ Running(t) /\ x.op = "call" /\ UNCHANGED links
  BY MarksAssumption DEF Thread, Call, Doing
<1>2. /\ q \in Seq(Tasks) /\ q # <<>> /\ x = q[1] /\ x \in Tasks /\ x.node \in Node
      /\ MarkerPlace(q, 1, Marked, Flagged)
  BY <1>1, DoingFirst DEF IInv
<1>3. PICK r : todo' = [todo EXCEPT ![t] = r] /\ (r = Tail(q) \/ r = <<>>)
  <2>1. <<>> \o Tail(q) = Tail(q)
    BY <1>2, Dropped
  <2> QED BY <2>1 DEF Call, Instead
<1>4. LinksGood' /\ Marked' = Marked /\ Flagged' = Flagged
  BY <1>1, LinksStay
<1>5. MarkerList(r, Marked, Flagged)
  <2>1. MarkerList(q, Marked, Flagged)
    BY DEF IInv, ListsGood
  <2>2. q[1].op \notin BelowOps /\ q[1].op \notin MarkOps
    BY <1>1, <1>2 DEF BelowOps, MarkOps
  <2> QED BY <1>2, <1>3, <2>1, <2>2, MarkerListTail, EmptyList
<1>6. ListsGood' /\ todo'[t] = r /\ \A s \in Thread : s # t => todo'[s] = todo[s]
  BY <1>1, <1>3, <1>4, <1>5, ListsStep
<1>7. /\ \A s \in Marker : s # t => todo'[s] = todo[s]
      /\ \A s \in Reader : todo'[s] = todo[s]
  BY <1>1, <1>6 DEF Thread
<1>8. called' = called \cup {x.idx} /\ x.idx = SlotOf(x.node) /\ x.node \in Marked
  <2>1. called' = called \cup {x.idx}
    BY DEF Call
  <2>2. MarkerTask(x)
    BY <1>2 DEF MarkerPlace
  <2>3. x.idx = SlotOf(x.node)
    BY <1>1, <2>2 DEF MarkerTask
  <2>4. x.node \in Marked
    BY <1>1, <1>2 DEF MarkerPlace
  <2> QED BY <2>1, <2>3, <2>4
<1>9. \A s \in Reader : seen'[s] = seen[s] /\ owed'[s] = owed[s]
  BY <1>1 DEF Call
<1>10. HistoryGood'
  <2>1. called' \subseteq SlotsOf(Marked)
    BY <1>8 DEF IInv, HistoryGood, SlotsOf
  <2>2. /\ seen' = [s \in Reader |-> seen'[s]]
        /\ owed' = [s \in Reader |-> owed'[s]]
    BY <1>1 DEF Call, IInv, HistoryGood
  <2>3. \A s \in Reader : seen'[s] \subseteq SlotsOf(Marked) /\ owed'[s] \subseteq SlotsOf(Marked)
    BY <1>9 DEF IInv, HistoryGood
  <2>4. seen' \in [Reader -> SUBSET SlotsOf(Marked)] /\ owed' \in [Reader -> SUBSET SlotsOf(Marked)]
    BY <2>2, <2>3
  <2> QED BY <1>4, <2>1, <2>4 DEF HistoryGood
<1>11. FlagsGood'
  <2>1. \A n \in Node : ~Pursues(q, n)
    <3>1. x.op \notin BelowOps /\ x.op \notin {"enter"} \cup MarkOps
      BY <1>1 DEF BelowOps, MarkOps
    <3>2. \A k \in 1 .. Len(q) : k <= 2 => k = 1 \/ k = 2
      BY <1>2
    <3> QED BY <1>2, <3>1, <3>2 DEF Pursues
  <2>2. ASSUME NEW n \in Flagged', ~\E m \in Below(n) : m \in Marked'
        PROVE  \E s \in Marker : Pursues(todo'[s], n)
    <3>1. n \in Node /\ \E s \in Marker : Pursues(todo[s], n)
      BY <1>4, <2>2 DEF IInv, FlagsGood, Flagged
    <3>2. PICK s \in Marker : Pursues(todo[s], n)
      BY <3>1
    <3> QED BY <1>7, <2>1, <3>1, <3>2
  <2> QED BY <1>4, <2>2 DEF IInv, FlagsGood
<1>12. CallsGood'
  <2>1. ASSUME NEW n \in Marked', SlotOf(n) \notin called'
        PROVE  \E s \in Marker : Doing(s, "call")' /\ Now(s)'.node = n
    <3>1. n \in Marked /\ SlotOf(n) \notin called /\ n # x.node
      BY <1>4, <1>8, <2>1
    <3>2. PICK s \in Marker : Doing(s, "call") /\ Now(s).node = n
      BY <3>1 DEF IInv, CallsGood
    <3> QED BY <1>7, <3>1, <3>2 DEF Doing, Now, Running
  <2> QED BY <2>1 DEF CallsGood
<1>13. ReadersGood'
  BY <1>7, <1>9 DEF IInv, ReadersGood
<1> QED
  BY <1>4, <1>6, <1>10, <1>11, <1>12, <1>13 DEF IInv

\* A reader begins with the frame of the root, which covers every slot.
LEMMA StartReadingStep ==
  ASSUME IInv, NEW t \in Reader, StartReading(t)
  PROVE  IInv'
<1>1. Root \in Node /\ First[Root] = 0
  BY MarksAssumption
<1>2. todo' = [todo EXCEPT ![t] = Frame(Root, First[Root])] /\ UNCHANGED <<links, called>>
  BY <1>1 DEF StartReading
<1>3. LinksGood /\ MarkedSlots = SlotsOf(Marked)
  BY DEF IInv, MarkedSlots, SlotsOf, Marked
<1>4. /\ ReaderList(Frame(Root, First[Root]), Marked)
      /\ \A slot \in Int : First[Root] <= slot /\ slot < First[Root] + Weight[Root] =>
               Pending(Frame(Root, First[Root]), slot)
  BY <1>1, <1>3, FrameGood
<1>5. seen \in [Reader -> SUBSET SlotsOf(Marked)] /\ owed \in [Reader -> SUBSET SlotsOf(Marked)]
  BY DEF IInv, HistoryGood
<1>6. /\ seen' = [seen EXCEPT ![t] = {}]
      /\ owed' = [owed EXCEPT ![t] = SlotsOf(Marked)]
  BY <1>3 DEF StartReading
<1>7. /\ seen' \in [Reader -> SUBSET SlotsOf(Marked)]
      /\ owed' \in [Reader -> SUBSET SlotsOf(Marked)]
      /\ owed'[t] = SlotsOf(Marked)
      /\ \A s \in Reader : s # t => seen'[s] = seen[s] /\ owed'[s] = owed[s]
  BY <1>5, <1>6
<1>8. \A slot \in owed'[t] \ seen'[t] : Pending(Frame(Root, First[Root]), slot)
  <2>1. ASSUME NEW slot \in SlotsOf(Marked) PROVE Pending(Frame(Root, First[Root]), slot)
    <3>1. PICK n \in Node : slot = SlotOf(n)
      BY <2>1 DEF SlotsOf, Marked
    <3>2. SlotOf(n) \in Nat /\ SlotOf(n) < Weight[Root] /\ Weight[Root] \in Nat
      BY Sizes DEF Slots
    <3> QED BY <1>1, <1>4, <3>1, <3>2
  <2> QED BY <1>7, <2>1
<1> QED
  BY <1>2, <1>4, <1>7, <1>8, ReaderStep

\* A step of a reader in the middle of its call: nothing of what the first thing
\* covered, and it still owes, is left out of what replaces it.
LEMMA ReaderGoesOn ==
  ASSUME IInv, NEW t \in Reader, Running(t), UNCHANGED <<links, called>>,
         NEW s, todo' = [todo EXCEPT ![t] = s \o Tail(todo[t])], ReaderList(s, Marked),
         seen' \in [Reader -> SUBSET SlotsOf(Marked)], owed' = owed,
         \A r \in Reader : seen[r] \subseteq seen'[r] /\ (r # t => seen'[r] = seen[r]),
         \A slot \in SlotsOf(Marked) :
             Covers(Now(t), slot) => slot \in seen'[t] \/ Pending(s, slot)
  PROVE  IInv'
<1> DEFINE q == todo[t]
<1>1. t \in Thread
  BY DEF Thread
<1>2. q \in Seq(Tasks) /\ q # <<>> /\ Now(t) = q[1]
  BY <1>1, DoingFirst DEF IInv
<1>3. ReaderList(s \o Tail(q), Marked)
  BY <1>2, ReaderListNext DEF IInv, ListsGood
<1>4. owed \in [Reader -> SUBSET SlotsOf(Marked)]
  BY DEF IInv, HistoryGood
<1>5. ASSUME NEW slot \in owed'[t] \ seen'[t] PROVE Pending(s \o Tail(q), slot)
  <2>1. slot \in SlotsOf(Marked) /\ slot \in owed[t] \ seen[t]
    BY <1>4, <1>5
  <2>2. Pending(q, slot)
    BY <2>1 DEF IInv, ReadersGood
  <2>3. Covers(q[1], slot) => Pending(s, slot)
    BY <1>2, <1>5, <2>1
  <2>4. s \in Seq(Tasks)
    BY DEF ReaderList
  <2> QED BY <1>2, <2>2, <2>3, <2>4, PendingNext
<1> QED
  BY <1>3, <1>4, <1>5, ReaderStep

\* "No marks below" can be believed: whatever the reader owes there is not there.
LEMMA LookBelowStep ==
  ASSUME IInv, NEW t \in Reader, LookBelow(t)
  PROVE  IInv'
<1> DEFINE x == Now(t)
           n == x.node
           c == IF x.op = "left?" THEN Left[n] ELSE Right[n]
           s == IF get_marks_below(n) THEN Frame(c, x.idx) ELSE <<>>
<1>1. t \in Thread /\ Running(t) /\ UNCHANGED <<links, history>> /\ x.op \in {"left?", "right?"}
  BY DEF Thread, LookBelow, Doing
<1>2. n \in Node /\ ReaderTask(x, Marked) /\ LinksGood
  BY <1>1, DoingFirst DEF IInv
<1>3. todo' = [todo EXCEPT ![t] = s \o Tail(todo[t])]
  <2>1. left_link[n].index = Left[n] /\ right_link[n].index = Right[n]
    BY <1>2 DEF LinksGood
  <2> QED BY <1>1, <2>1 DEF LookBelow, Instead, Doing
<1>4. /\ First[n] \in Nat /\ SlotOf(n) \in Nat /\ Weight[n] \in Nat
      /\ First[n] <= SlotOf(n) /\ SlotOf(n) < First[n] + Weight[n]
      /\ Left[n] = NODE_NULL => SlotOf(n) = First[n]
      /\ Left[n] # NODE_NULL => /\ Left[n] \in Node /\ First[Left[n]] = First[n]
                                /\ First[Left[n]] + Weight[Left[n]] = SlotOf(n)
      /\ Right[n] = NODE_NULL => SlotOf(n) + 1 = First[n] + Weight[n]
      /\ Right[n] # NODE_NULL => /\ Right[n] \in Node /\ First[Right[n]] = SlotOf(n) + 1
                                 /\ First[Right[n]] + Weight[Right[n]] = First[n] + Weight[n]
  BY <1>2, Sizes
<1>5. x.op = "left?" => x.idx = First[n]
  BY <1>2 DEF ReaderTask
<1>6. x.op = "right?" => x.idx = SlotOf(n) + 1
  BY <1>2 DEF ReaderTask
<1>7. CASE c = NODE_NULL
  <2>1. s = <<>>
    BY <1>7 DEF Frame
  <2>2. ReaderList(s, Marked)
    BY <2>1, ShortReaderLists
  <2>3. ASSUME NEW slot \in SlotsOf(Marked), Covers(x, slot) PROVE FALSE
    <3>1. PICK m \in Node : slot = SlotOf(m)
      BY <2>3 DEF SlotsOf, Marked
    <3>2. slot \in Nat
      BY <3>1, Sizes
    <3>3. CASE x.op = "left?"
      BY <1>4, <1>7, <2>3, <3>2, <3>3 DEF Covers
    <3>4. CASE x.op = "right?"
      BY <1>4, <1>7, <2>3, <3>2, <3>4 DEF Covers
    <3> QED BY <1>1, <3>3, <3>4
  <2>4. seen' = seen /\ owed' = owed /\ seen \in [Reader -> SUBSET SlotsOf(Marked)]
    BY <1>1 DEF history, IInv, HistoryGood
  <2>5. UNCHANGED <<links, called>>
    BY <1>1 DEF history
  <2> QED BY <1>1, <1>3, <2>2, <2>3, <2>4, <2>5, ReaderGoesOn
<1>8. CASE c # NODE_NULL
  <2>1. /\ c \in Node /\ x.idx = First[c] /\ ChildOf(c, n)
    BY <1>1, <1>4, <1>5, <1>6, <1>8 DEF ChildOf
  <2>2. \A slot \in Int : Covers(x, slot) => First[c] <= slot /\ slot < First[c] + Weight[c]
    <3>1. CASE x.op = "left?"
      BY <1>4, <1>8, <3>1 DEF Covers
    <3>2. CASE x.op = "right?"
      BY <1>4, <1>8, <3>2 DEF Covers
    <3> QED BY <1>1, <3>1, <3>2
  <2>3. /\ ReaderList(Frame(c, First[c]), Marked)
        /\ \A slot \in Int : First[c] <= slot /\ slot < First[c] + Weight[c] =>
                 Pending(Frame(c, First[c]), slot)
    BY <1>2, <2>1, FrameGood
  <2>4. ReaderList(s, Marked)
    BY <2>1, <2>3, ShortReaderLists
  <2> HIDE DEF c
  <2>5. ASSUME NEW slot \in SlotsOf(Marked), Covers(x, slot) PROVE Pending(s, slot)
    <3>1. PICK m \in Marked : slot = SlotOf(m)
      BY <2>5 DEF SlotsOf
    <3>2. m \in Node /\ slot \in Nat /\ First[c] <= slot /\ slot < First[c] + Weight[c]
      <4>1. m \in Node
        BY <3>1 DEF Marked
      <4>2. slot \in Nat
        BY <3>1, <4>1, Sizes
      <4> QED BY <2>2, <2>5, <4>1, <4>2
    <3>3. get_marks_below(n)
      <4>1. m = c \/ m \in Below(c)
        BY <2>1, <3>1, <3>2, Sizes DEF Below
      <4>2. m \in Below(n)
        <5>1. c \in Below(n)
          BY <1>2, <2>1, ChildBelow
        <5> QED BY <1>2, <2>1, <3>2, <4>1, <5>1, BelowBelow
      <4>3. n \in Flagged
        BY <1>2, <3>1, <4>2 DEF IInv, FlagsGood
      <4> QED BY <4>3 DEF Flagged
    <3> QED BY <2>1, <2>3, <3>2, <3>3
  <2>6. seen' = seen /\ owed' = owed /\ seen \in [Reader -> SUBSET SlotsOf(Marked)]
    BY <1>1 DEF history, IInv, HistoryGood
  <2>7. UNCHANGED <<links, called>>
    BY <1>1 DEF history
  <2> QED BY <1>1, <1>3, <2>4, <2>5, <2>6, <2>7, ReaderGoesOn
<1> QED
  BY <1>7, <1>8

LEMMA LookMarkedStep ==
  ASSUME IInv, NEW t \in Reader, LookMarked(t)
  PROVE  IInv'
<1> DEFINE x == Now(t)
           n == x.node
           y == [x EXCEPT !.op = "call"]
           s == IF get_marked(n) THEN <<y>> ELSE <<>>
<1>1. t \in Thread /\ Running(t) /\ x.op = "marked?"
  BY DEF Thread, LookMarked, Doing
<1>2. n \in Node /\ x \in Tasks /\ ReaderTask(x, Marked) /\ x.idx = SlotOf(n)
  BY <1>1, DoingFirst DEF IInv, ReaderTask
<1>3. todo' = [todo EXCEPT ![t] = s \o Tail(todo[t])] /\ UNCHANGED <<links, called>>
      /\ seen' = seen /\ owed' = owed
  BY DEF LookMarked, Instead, history
<1>4. y \in Tasks /\ y.op = "call" /\ y.node = n /\ y.idx = x.idx
  BY <1>2 DEF Tasks, Ops
<1>5. \A slot : Covers(x, slot) => slot = SlotOf(n)
  BY <1>1 DEF Covers
<1>6. Covers(y, SlotOf(n))
  BY <1>4 DEF Covers
<1> DEFINE q == <<y>>
<1>7. q \in Seq(Tasks) /\ Len(q) = 1 /\ q[1] = y
  BY <1>4
<1>8. seen \in [Reader -> SUBSET SlotsOf(Marked)]
  BY DEF IInv, HistoryGood
<1> HIDE DEF x, q
<1>9. CASE get_marked(n)
  <2>1. s = q
    BY <1>9 DEF q
  <2>2. ReaderTask(y, Marked)
    BY <1>2, <1>4, <1>9 DEF ReaderTask, Marked
  <2> HIDE DEF y, s
  <2>3. ReaderList(s, Marked)
    BY <2>1, <2>2, ShortReaderLists DEF q
  <2>4. Pending(s, SlotOf(n))
    <3>1. 1 \in 1 .. Len(q) /\ Covers(q[1], SlotOf(n))
      BY <1>6, <1>7
    <3> QED BY <2>1, <3>1 DEF Pending
  <2>5. \A slot \in SlotsOf(Marked) : Covers(Now(t), slot) => slot \in seen'[t] \/ Pending(s, slot)
    BY <1>5, <2>4 DEF x
  <2> QED BY <1>1, <1>3, <1>8, <2>3, <2>5, ReaderGoesOn
<1>10. CASE ~get_marked(n)
  <2>1. s = <<>>
    BY <1>10
  <2>2. ReaderList(s, Marked)
    BY <2>1, ShortReaderLists
  <2> HIDE DEF s
  <2>3. ASSUME NEW slot \in SlotsOf(Marked), Covers(Now(t), slot) PROVE FALSE
    <3>1. PICK m \in Marked : slot = SlotOf(m)
      BY <2>3 DEF SlotsOf
    <3>2. m \in Node /\ SlotOf(m) = SlotOf(n)
      BY <1>5, <2>3, <3>1 DEF Marked, x
    <3>3. m = n
      BY <1>2, <3>2, SlotsDiffer
    <3> QED BY <1>10, <3>1, <3>3 DEF Marked
  <2> QED BY <1>1, <1>3, <1>8, <2>2, <2>3, ReaderGoesOn
<1> QED
  BY <1>9, <1>10

LEMMA ReaderCallStep ==
  ASSUME IInv, NEW t \in Reader, Call(t)
  PROVE  IInv'
<1> DEFINE x == Now(t)
           q == todo[t]
<1>1. t \in Thread /\ t \notin Marker /\ Running(t) /\ x.op = "call"
  BY MarksAssumption DEF Thread, Call, Doing
<1>2. ReaderTask(x, Marked) /\ x.node \in Marked /\ x.idx = SlotOf(x.node)
      /\ q \in Seq(Tasks) /\ q # <<>>
  BY <1>1, DoingFirst DEF IInv, ReaderTask
<1>3. UNCHANGED <<links, called>>
      /\ seen' = [r \in Reader |-> IF r = t THEN seen[r] \cup {x.idx} ELSE seen[r]]
  BY <1>1 DEF Call
<1>4. x.idx \in SlotsOf(Marked)
  BY <1>2 DEF SlotsOf
<1>5. seen \in [Reader -> SUBSET SlotsOf(Marked)] /\ owed \in [Reader -> SUBSET SlotsOf(Marked)]
  BY DEF IInv, HistoryGood
<1> HIDE DEF x
<1>6. /\ seen' \in [Reader -> SUBSET SlotsOf(Marked)] /\ x.idx \in seen'[t]
      /\ \A r \in Reader : seen[r] \subseteq seen'[r] /\ (r # t => seen'[r] = seen[r])
  BY <1>3, <1>4, <1>5
<1>7. ReaderList(<<>>, Marked)
  BY DEF ReaderList
<1>8. CASE Instead(t, <<>>) /\ UNCHANGED owed
  <2>1. \A slot : Covers(x, slot) => slot = x.idx
    BY <1>1, <1>2 DEF Covers, x
  <2>2. todo' = [todo EXCEPT ![t] = <<>> \o Tail(todo[t])] /\ owed' = owed
    BY <1>8 DEF Instead
  <2>3. \A slot \in SlotsOf(Marked) : Covers(Now(t), slot) => slot \in seen'[t] \/ Pending(<<>>, slot)
    BY <1>6, <2>1 DEF x
  <2> QED BY <1>1, <1>3, <1>6, <1>7, <2>2, <2>3, ReaderGoesOn
<1>9. CASE /\ todo' = [todo EXCEPT ![t] = <<>>]
           /\ owed' = [r \in Reader |-> IF r = t THEN {} ELSE owed[r]]
  <2>1. /\ owed' \in [Reader -> SUBSET SlotsOf(Marked)] /\ owed'[t] = {}
        /\ \A r \in Reader : r # t => owed'[r] = owed[r]
    BY <1>5, <1>9
  <2> QED BY <1>3, <1>6, <1>7, <1>9, <2>1, ReaderStep
<1> QED
  BY <1>8, <1>9 DEF Call

-----------------------------------------------------------------------------
\* Every state satisfies the inductive invariant.
THEOREM Invariance == Spec => []IInv
<1>1. Init => IInv
  BY InitInv
<1>2. IInv /\ [Next]_vars => IInv'
  <2> SUFFICES ASSUME IInv, [Next]_vars PROVE IInv'
    OBVIOUS
  <2>1. ASSUME NEW t \in Marker, NEW range \in Range, StartMarking(t, range) PROVE IInv'
    BY <2>1, StartMarkingStep
  <2>2. ASSUME NEW t \in Marker, Enter(t) PROVE IInv'
    BY <2>2, EnterStep
  <2>3. ASSUME NEW t \in Marker, TestBelow(t) PROVE IInv'
    BY <2>3, TestBelowStep
  <2>4. ASSUME NEW t \in Marker, Load(t) PROVE IInv'
    BY <2>4, LoadStep
  <2>5. ASSUME NEW t \in Marker, Store(t) PROVE IInv'
    BY <2>5, StoreStep
  <2>6. ASSUME NEW t \in Marker, Call(t) PROVE IInv'
    BY <2>6, MarkerCallStep
  <2>7. ASSUME NEW t \in Reader, StartReading(t) PROVE IInv'
    BY <2>7, StartReadingStep
  <2>8. ASSUME NEW t \in Reader, LookBelow(t) PROVE IInv'
    BY <2>8, LookBelowStep
  <2>9. ASSUME NEW t \in Reader, LookMarked(t) PROVE IInv'
    BY <2>9, LookMarkedStep
  <2>10. ASSUME NEW t \in Reader, Call(t) PROVE IInv'
    BY <2>10, ReaderCallStep
  <2>11. CASE UNCHANGED vars
    BY <2>11 DEF vars, links, history, IInv, LinksGood, ListsGood, HistoryGood, FlagsGood,
          CallsGood, ReadersGood, Marked, Flagged, get_marked, get_marks_below, Doing, Now, Running
  <2> QED
    BY <2>1, <2>2, <2>3, <2>4, <2>5, <2>6, <2>7, <2>8, <2>9, <2>10, <2>11 DEF Next, Marks, Reads
<1> QED
  BY <1>1, <1>2, PTL DEF Spec

\* No write of a bit changes the link beside it, and every state is typed.
THEOREM IndexesKeptAlways == Spec => []IndexesKept
<1>1. IInv => IndexesKept
  <2> SUFFICES ASSUME IInv PROVE IndexesKept
    OBVIOUS
  <2>1. \A M : M \in SUBSET Node => SlotsOf(M) \subseteq Slots
    BY Sizes DEF SlotsOf
  <2>2. SlotsOf(Marked) \subseteq Slots
    BY <2>1 DEF Marked
  <2> QED BY <2>2 DEF IInv, LinksGood, ListsGood, HistoryGood, IndexesKept, TypeOK
<1> QED
  BY <1>1, Invariance, PTL

\* In the middle of any calls, all nodes above a marked one say so.
THEOREM MarksReachableAlways == Spec => []MarksReachable
<1>1. IInv => MarksReachable
  BY DEF IInv, FlagsGood, HistoryGood, MarksReachable, MarkedSlots, SlotsOf, Marked, Flagged, Below
<1> QED
  BY <1>1, Invariance, PTL

\* Between the calls the cached bits are exact, and so are the marks.
THEOREM QuietConsistentAlways == Spec => []QuietConsistent
<1>1. IInv => QuietConsistent
  <2> SUFFICES ASSUME IInv, Quiet PROVE QuietConsistent
    BY DEF QuietConsistent
  <2>1. \A t \in Marker : todo[t] = <<>>
    BY DEF Quiet, Running
  <2>2. \A n \in Node : get_marks_below(n) => \E m \in Below(n) : get_marked(m)
    <3> SUFFICES ASSUME NEW n \in Node, get_marks_below(n)
                 PROVE  \E m \in Below(n) : get_marked(m)
      OBVIOUS
    <3>1. n \in Flagged
      BY DEF Flagged
    <3>2. \A t \in Marker : ~Pursues(todo[t], n)
      BY <2>1 DEF Pursues
    <3>3. \E m \in Below(n) : m \in Marked
      BY <3>1, <3>2 DEF IInv, FlagsGood
    <3> QED BY <3>3 DEF Marked
  <2>3. MarkedSlots = SlotsOf(Marked)
    BY DEF MarkedSlots, SlotsOf, Marked
  <2>4. SlotsOf(Marked) \subseteq called
    BY <2>1 DEF IInv, CallsGood, SlotsOf, Doing, Running
  <2>5. called \subseteq SlotsOf(Marked)
    BY DEF IInv, HistoryGood
  <2> QED BY <2>2, <2>3, <2>4, <2>5 DEF QuietConsistent
<1> QED
  BY <1>1, Invariance, PTL

\* A reader that was not stopped has had what was marked when it began.
THEOREM ReaderCompleteAlways == Spec => []ReaderComplete
<1>1. IInv => ReaderComplete
  <2> SUFFICES ASSUME IInv, NEW t \in Reader
               PROVE  /\ seen[t] \subseteq MarkedSlots
                      /\ ~Running(t) => owed[t] \subseteq seen[t]
    BY DEF ReaderComplete
  <2>1. MarkedSlots = SlotsOf(Marked)
    BY DEF MarkedSlots, SlotsOf, Marked
  <2>2. seen[t] \subseteq SlotsOf(Marked)
    BY DEF IInv, HistoryGood
  <2>3. ASSUME ~Running(t) PROVE owed[t] \subseteq seen[t]
    <3>1. \A slot : ~Pending(todo[t], slot)
      BY <2>3 DEF Running, Pending
    <3> QED BY <3>1 DEF IInv, ReadersGood
  <2> QED BY <2>1, <2>2, <2>3
<1> QED
  BY <1>1, Invariance, PTL

\* To mark one slot is what the omt as a sequence calls marking a range of one.
LEMMA MarksOne ==
  ASSUME NEW slot \in Nat, slot + 1 <= Weight[Root], MarkedSlots' = MarkedSlots \cup {slot}
  PROVE  Sequence!SeqMarkRange(Omt, slot, slot + 1)
<1>1. Sequence!Created(Omt) /\ slot + 1 <= Len([x \in {Omt} |-> Held][Omt])
  BY HeldAssumption DEF Sequence!Created
<1>2. [x \in {Omt} |-> MarkedSlots]' =
          [[x \in {Omt} |-> MarkedSlots] EXCEPT ![Omt] =
              [x \in {Omt} |-> MarkedSlots][Omt] \cup slot .. slot + 1 - 1]
  <2>1. slot .. slot + 1 - 1 = {slot}
    OBVIOUS
  <2>2. [x \in {Omt} |-> MarkedSlots]' = [x \in {Omt} |-> MarkedSlots \cup {slot}]
    OBVIOUS
  <2> QED BY <2>1, <2>2
<1>3. UNCHANGED <<[x \in {Omt} |-> Held], Kind>>
  BY DEF Kind
<1> QED
  BY <1>1, <1>2, <1>3 DEF Sequence!SeqMarkRange

\* Seen from outside, a step of any thread marks one slot or none.
THEOREM ImplementsMarkingAlways == Spec => ImplementsMarking
<1> DEFINE Step == [\E slot \in Slots : Sequence!SeqMarkRange(Omt, slot, slot + 1)]_(Sequence!seqVars)
<1>1. IInv /\ [Next]_vars => Step
  <2> SUFFICES ASSUME IInv, [Next]_vars PROVE Step
    OBVIOUS
  <2>1. MarkedSlots = SlotsOf(Marked) /\ MarkedSlots' = SlotsOf(Marked')
    BY DEF MarkedSlots, SlotsOf, Marked
  <2>2. CASE Marked' = Marked
    BY <2>1, <2>2 DEF Sequence!seqVars
  <2>3. ASSUME NEW n \in Node, Marked' = Marked \cup {n}
        PROVE  Step
    <3>1. SlotOf(n) \in Slots /\ SlotOf(n) \in Nat /\ SlotOf(n) + 1 <= Weight[Root]
      BY Sizes DEF Slots
    <3>2. MarkedSlots' = MarkedSlots \cup {SlotOf(n)}
      BY <2>1, <2>3 DEF SlotsOf
    <3>3. Sequence!SeqMarkRange(Omt, SlotOf(n), SlotOf(n) + 1)
      BY <3>1, <3>2, MarksOne
    <3> QED BY <3>1, <3>3
  <2>4. ASSUME NEW t \in Marker, Store(t) PROVE Step
    <3>1. t \in Thread /\ Running(t)
      BY <2>4 DEF Thread, Store, Doing
    <3>2. Now(t).node \in Node
      BY <3>1, DoingFirst DEF IInv
    <3> QED BY <2>2, <2>3, <2>4, <3>2, StoreLinks
  <2>5. CASE UNCHANGED links
    BY <2>2, <2>5, LinksStay
  <2>6. UNCHANGED links \/ \E t \in Marker : Store(t)
    BY DEF Next, Marks, Reads, StartMarking, Enter, TestBelow, Load, Call, StartReading,
           LookBelow, LookMarked, vars
  <2> QED BY <2>4, <2>5, <2>6
<1> QED
  BY <1>1, Invariance, PTL DEF Spec, ImplementsMarking

=============================================================================
