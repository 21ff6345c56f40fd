------------------------------- MODULE OmtSeq -------------------------------
(***************************************************************************)
(* What omt.h promises of an order maintenance tree, with no tree in it:   *)
(* each handle is absent or holds a sequence of values, and the set of the *)
(* slots whose values have been marked.  Slots are numbered from 0 as in   *)
(* the code; slot i of a sequence s is s[i + 1].                           *)
(***************************************************************************)
EXTENDS Integers, Sequences

CONSTANTS Handle,         \* the omt objects a caller owns
          Value,          \* the values stored, integers compared by h(v, k) = v - k
          Absent,         \* the content of an object not created, or destroyed
          Uses,           \* the ways callers use omts, each a record of
                          \*   marks: the third template parameter
                          \*   ordered: the values are kept sorted, so that lookups are legal
                          \*   max: a bound on the number of values
                          \*   values: the values stored
          Rewrite         \* what the callback of iterate_ptr does to a value

VARIABLES contents,  \* handle -> sequence of values, or Absent
          marked,    \* handle -> set of marked slots
          use        \* the way the callers of this process use omts; it never changes

seqVars == <<contents, marked, use>>

Created(h) == contents[h] # Absent
Slots(h) == 0 .. Len(contents[h]) - 1
\* The values in the slots before slot i, and in those from slot i.
Before(h, i) == SubSeq(contents[h], 1, i)
From(h, i) == SubSeq(contents[h], i + 1, Len(contents[h]))
Legal(s) ==
    /\ Len(s) <= use.max
    /\ \A i \in DOMAIN s : s[i] \in use.values
    /\ use.ordered => \A i, j \in DOMAIN s : i < j => s[i] <= s[j]

\* The values of s but those in the slots of D.
Without(s, D) ==
    LET Kept[n \in 0 .. Len(s)] ==
            IF n = 0 THEN << >>
            ELSE IF n - 1 \in D THEN Kept[n - 1] ELSE Append(Kept[n - 1], s[n])
    IN  Kept[Len(s)]

SeqInit ==
    /\ contents = [h \in Handle |-> Absent]
    /\ marked = [h \in Handle |-> {}]
    /\ use \in Uses

\* Every operation but the marking ones leaves (and, but for clear and destroy, finds) no marks.
Becomes(h, s) ==
    /\ contents' = [contents EXCEPT ![h] = s]
    /\ marked' = [marked EXCEPT ![h] = {}]
    /\ UNCHANGED use

Editable(h) == Created(h) /\ marked[h] = {}

SeqCreate(h) ==
    /\ ~Created(h)
    /\ \E n \in 0 .. use.max : \E s \in [1 .. n -> use.values] : Legal(s) /\ Becomes(h, s)

SeqInsertAt(h, v, i) ==
    /\ Editable(h)
    /\ i \in 0 .. Len(contents[h])
    /\ Becomes(h, Before(h, i) \o <<v>> \o From(h, i))

SeqSetAt(h, v, i) ==
    /\ Editable(h)
    /\ i \in Slots(h)
    /\ Becomes(h, [contents[h] EXCEPT ![i + 1] = v])

SeqDeleteAt(h, i) ==
    /\ Editable(h)
    /\ i \in Slots(h)
    /\ Becomes(h, Before(h, i) \o From(h, i + 1))

SeqClear(h) == Created(h) /\ Becomes(h, << >>)

SeqDestroy(h) == Created(h) /\ Becomes(h, Absent)

SeqSplitAt(h, n, i) ==
    /\ Editable(h) /\ ~Created(n)
    /\ i \in 0 .. Len(contents[h])
    /\ contents' = [contents EXCEPT ![h] = Before(h, i), ![n] = From(h, i)]
    /\ UNCHANGED <<marked, use>>

SeqMerge(t, l, r) ==
    /\ ~Created(t) /\ Created(l) /\ Created(r) /\ l # r
    /\ contents' = [contents EXCEPT ![t] = contents[l] \o contents[r], ![l] = Absent, ![r] = Absent]
    /\ marked' = [marked EXCEPT ![l] = {}, ![r] = {}]
    /\ UNCHANGED use

SeqClone(t, h) ==
    /\ ~Created(t) /\ Created(h)
    /\ Becomes(t, contents[h])

SeqIteratePtr(h) ==
    /\ Created(h)
    /\ contents' = [contents EXCEPT ![h] = [i \in DOMAIN @ |-> Rewrite[@[i]]]]
    /\ UNCHANGED <<marked, use>>

SeqMarkRange(h, left, right) ==
    /\ Created(h) /\ right <= Len(contents[h])
    /\ marked' = [marked EXCEPT ![h] = @ \cup left .. right - 1]
    /\ UNCHANGED <<contents, use>>

SeqDeleteAllMarked(h) ==
    /\ Created(h)
    /\ Becomes(h, Without(contents[h], marked[h]))

SeqNext ==
    \E h \in Handle :
        \/ SeqCreate(h)
        \/ /\ Created(h)
           /\ \E i \in 0 .. Len(contents[h]) :
                 \/ \E v \in use.values : SeqInsertAt(h, v, i) \/ SeqSetAt(h, v, i)
                 \/ SeqDeleteAt(h, i)
                 \/ \E n \in Handle : SeqSplitAt(h, n, i)
                 \/ \E left \in 0 .. i - 1 : SeqMarkRange(h, left, i)
        \/ SeqClear(h) \/ SeqDestroy(h) \/ SeqIteratePtr(h)
        \/ \E l, r \in Handle : SeqMerge(h, l, r)
        \/ \E g \in Handle : SeqClone(h, g)
        \/ SeqDeleteAllMarked(h)

SeqSpec == SeqInit /\ [][SeqNext]_seqVars
=============================================================================
