---------------------------- MODULE MCOmtStorage ----------------------------
(* Omt, with the storage of each of its objects mapped to OmtStorage. *)
EXTENDS MCOmt

CONSTANT MCMaxCapacity  \* the largest block a caller hands over, or merges

StorageOf(n) ==
    IF ~Created(n)
    THEN [rep |-> "array", capacity |-> 0, alloc |-> 0, start |-> 0, size |-> 0,
          free |-> 0, strays |-> {}]
    ELSE LET o == omt[n]
         IN  [rep |-> IF o.is_array THEN "array" ELSE "tree",
              capacity |-> o.capacity, alloc |-> o.capacity,
              start |-> IF o.is_array THEN o.start_idx ELSE 0,
              size |-> Size(o),
              free |-> IF o.is_array THEN 0 ELSE o.free_idx,
              strays |-> {}]

Blocks1 == INSTANCE OmtStorage WITH
    MaxCapacity <- MCMaxCapacity, StealGap <- {0},
    supports_marks <- SupportsMarks, live <- Created(h1), st <- StorageOf(h1)
Blocks2 == INSTANCE OmtStorage WITH
    MaxCapacity <- MCMaxCapacity, StealGap <- {0},
    supports_marks <- SupportsMarks, live <- Created(h2), st <- StorageOf(h2)
Blocks3 == INSTANCE OmtStorage WITH
    MaxCapacity <- MCMaxCapacity, StealGap <- {0},
    supports_marks <- SupportsMarks, live <- Created(h3), st <- StorageOf(h3)

\* Every step of Omt does to the storage of an object what OmtStorage says, so
\* that what is proved of OmtStorage for every size holds of Omt.
ImplementsStorage == Blocks1!Spec

\* The same for each of the objects of a split, merge or clone.
AllImplementStorage == Blocks1!Spec /\ Blocks2!Spec /\ Blocks3!Spec
=============================================================================
