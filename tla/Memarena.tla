------------------------------ MODULE Memarena ------------------------------
(***************************************************************************)
(* The memory arenas of TokuDB (toku_utils/03.memarena/memarena.cc): an    *)
(* arena hands out pieces of its current chunk, keeps the chunks it has    *)
(* filled, and may move all its memory into another arena.  One action is  *)
(* one call.  The code has no locks and is called by one thread at a time. *)
(*                                                                         *)
(* The array of the other chunks is a sequence; the memory it takes itself *)
(* is left out.  The allocator is external, as in MemStatus; when it is    *)
(* out of memory the process aborts, which is no step here.  objects is    *)
(* what the callers know: the pieces they were given.                      *)
(***************************************************************************)
EXTENDS Integers, Sequences, FiniteSets
F == INSTANCE FiniteSetsExt

CONSTANTS Arena,
          Buf,             \* addresses of blocks
          NULL,
          InitialSize,     \* the sizes create is called with
          Size,            \* the sizes malloc_from_arena is called with
          PageSize,        \* page_size in memarena.cc and in memory.cc
          MaxChunkSize,    \* MEMARENA_MAX_CHUNK_SIZE
          MmapThreshold,   \* status.mmap_threshold in memory.cc
          WordSize,        \* 2 to the bits of size_t
          ChunkBound       \* bound on the other chunks of an arena memory is moved to

ASSUME ArenaAssumption ==
    /\ NULL \notin Buf
    /\ InitialSize \subseteq Nat /\ Size \subseteq Nat
    /\ PageSize \in Nat \ {0} /\ WordSize \in Nat /\ WordSize % PageSize = 0
    /\ MaxChunkSize \in Nat /\ MmapThreshold \in Nat /\ ChunkBound \in Nat
    /\ \A s \in InitialSize \cup Size \cup {MaxChunkSize} : 2 * s + PageSize < WordSize

VARIABLES
    arena,    \* Arena -> its fields
    heap,     \* Buf -> the usable size of the block, 0 while it is free
    objects,  \* the pieces handed out: [holder, buf, at, size]
    created,  \* the arenas between create and destroy
    aborted,  \* an invariant() of the code has failed
    misused   \* history: 0 bytes were asked of an arena without a chunk

vars == <<arena, heap, objects, created, aborted, misused>>

NoChunk == [buf |-> NULL, used |-> 0, size |-> 0]  \* arena_chunk()
Constructed == [current |-> NoChunk, others |-> <<>>, size_of_others |-> 0, footprint_of_others |-> 0]

Init ==
    /\ arena = [a \in Arena |-> Constructed]
    /\ heap = [b \in Buf |-> 0]
    /\ objects = {}
    /\ created = {}
    /\ aborted = FALSE /\ misused = FALSE

\* malloc(0) returns a block too, of the least usable size.
UsableSize(size) == IF size = 0 THEN 1 ELSE size

toku_memory_footprint(chunk) ==
    LET usable == UsableSize(chunk.size)
    IN  IF chunk.buf = NULL THEN 0
        ELSE IF usable >= MmapThreshold THEN ((chunk.used + PageSize) \div PageSize) * PageSize
        ELSE usable

Chunks(a) == <<arena[a].current>> \o arena[a].others

-----------------------------------------------------------------------------
HasInitialChunk(initial_size) == initial_size > 0

Free(b) == heap[b] = 0

\* What an allocation may return if it is needed.
Allocatable(needed) == IF needed THEN {b \in Buf : Free(b)} ELSE {NULL}

WithBlock(chunk) == IF chunk.buf = NULL THEN heap ELSE [heap EXCEPT ![chunk.buf] = UsableSize(chunk.size)]

create(a, initial_size) ==
    /\ a \notin created
    /\ \E b \in Allocatable(HasInitialChunk(initial_size)) :
          LET chunk == [NoChunk EXCEPT !.buf = b, !.size = initial_size]
          IN  /\ arena' = [arena EXCEPT ![a] = [Constructed EXCEPT !.current = chunk]]
              /\ heap' = WithBlock(chunk)
    /\ created' = created \cup {a}
    /\ UNCHANGED <<objects, aborted, misused>>

Released(a) == {Chunks(a)[i].buf : i \in DOMAIN Chunks(a)}

\* The two totals keep their values until the next create.
destroy(a) ==
    /\ a \in created
    /\ heap' = [b \in Buf |-> IF b \in Released(a) THEN 0 ELSE heap[b]]
    /\ arena' = [arena EXCEPT ![a].current = NoChunk, ![a].others = <<>>]
    /\ objects' = {o \in objects : o.holder # a}
    /\ created' = created \ {a}
    /\ UNCHANGED <<aborted, misused>>

-----------------------------------------------------------------------------
round_to_page(size) ==
    LET before == (size - 1) % WordSize
    IN  (PageSize + before - (before % PageSize)) % WordSize

NewSize(current_size, size) ==
    round_to_page(F!Max({F!Min({MaxChunkSize, 2 * current_size}), size}))

Fits(chunk, size) == chunk.buf # NULL /\ chunk.size >= chunk.used + size

\* The chunk size bytes come from, and those kept aside, when b is the block
\* the allocator would give.
Serving_NotReset(chunk, size, b) ==  \* mutant: used goes on from the old chunk
    IF Fits(chunk, size) THEN chunk ELSE [chunk EXCEPT !.buf = b, !.size = NewSize(chunk.size, size)]
Serving(chunk, size, b) ==
    IF Fits(chunk, size) THEN chunk ELSE [buf |-> b, used |-> 0, size |-> NewSize(chunk.size, size)]

SetAside(fields, size) ==
    IF Fits(fields.current, size) \/ fields.current.buf = NULL THEN fields
    ELSE [fields EXCEPT !.others = Append(@, fields.current),
                        !.size_of_others = @ + fields.current.size,
                        !.footprint_of_others = @ + toku_memory_footprint(fields.current)]

\* invariant(_current_chunk.size > 0), line 89
InvariantFails(chunk, size) == ~Fits(chunk, size) /\ chunk.buf # NULL /\ chunk.size = 0

malloc_from_arena(a, size) ==
    /\ a \in created
    /\ ~InvariantFails(arena[a].current, size)
    /\ \E b \in Allocatable(~Fits(arena[a].current, size)) :
          LET chunk == Serving(arena[a].current, size, b)
          IN  /\ arena' = [arena EXCEPT ![a] =
                              [SetAside(@, size) EXCEPT !.current = [chunk EXCEPT !.used = @ + size]]]
              /\ heap' = WithBlock(chunk)
              /\ objects' = objects \cup
                    {[holder |-> a, buf |-> chunk.buf, at |-> chunk.used, size |-> n] : n \in {size} \ {0}}
    /\ misused' = (misused \/ (size = 0 /\ arena[a].current = NoChunk))
    /\ UNCHANGED <<created, aborted>>

Abort(a, size) ==
    /\ a \in created
    /\ InvariantFails(arena[a].current, size)
    /\ aborted' = TRUE
    /\ UNCHANGED <<arena, heap, objects, created, misused>>

-----------------------------------------------------------------------------
Added_OthersOnly(fields) == fields.size_of_others  \* mutant: the current chunk is not counted
Added(fields) == fields.size_of_others + fields.current.size

\* A source without a chunk gives its NULL chunk to dest all the same.
move_memory(a, dest) ==
    /\ a \in created /\ dest \in created /\ a # dest
    /\ Len(arena[dest].others) + Len(arena[a].others) < ChunkBound
    /\ arena' = [arena EXCEPT
          ![dest].size_of_others = @ + Added(arena[a]),
          ![dest].footprint_of_others =
              @ + arena[a].footprint_of_others + toku_memory_footprint(arena[a].current),
          ![dest].others = @ \o arena[a].others \o <<arena[a].current>>,
          ![a] = Constructed]
    /\ objects' = {IF o.holder = a THEN [o EXCEPT !.holder = dest] ELSE o : o \in objects}
    /\ UNCHANGED <<heap, created, aborted, misused>>

-----------------------------------------------------------------------------
(* chunk_iterator: -1 is the current chunk, idx >= 0 one of the others.    *)

More_AllButLast(a, idx) ==  \* mutant
    IF idx < 0 THEN arena[a].current.buf # NULL ELSE idx < Len(arena[a].others) - 1
More(a, idx) ==
    IF idx < 0 THEN arena[a].current.buf # NULL ELSE idx < Len(arena[a].others)

Current(a, idx) ==
    IF idx < 0 THEN arena[a].current
    ELSE IF idx < Len(arena[a].others) THEN arena[a].others[idx + 1] ELSE NoChunk

\* The places a loop of more() and next() comes to.
Iterated(a) == {idx \in -1 .. Len(arena[a].others) : \A before \in -1 .. idx : More(a, before)}

-----------------------------------------------------------------------------
Next ==
    /\ ~aborted
    /\ \E a \in Arena :
          \/ \E initial_size \in InitialSize : create(a, initial_size)
          \/ destroy(a)
          \/ \E size \in Size : malloc_from_arena(a, size)
          \/ \E size \in Size : Abort(a, size)
          \/ \E dest \in Arena : move_memory(a, dest)

Spec == Init /\ [][Next]_vars

-----------------------------------------------------------------------------
Chunk == {c \in [buf : Buf \cup {NULL}, used : Nat, size : Nat] : c.used <= c.size}

\* No chunk is filled beyond its size ("so the current allocation always fit",
\* memarena.cc, line 100).
TypeOK ==
    /\ DOMAIN arena = Arena
    /\ \A a \in Arena :
          /\ arena[a].current \in Chunk /\ arena[a].others \in Seq(Chunk)
          /\ arena[a].size_of_others \in Nat /\ arena[a].footprint_of_others \in Nat
    /\ heap \in [Buf -> Nat]
    /\ created \subseteq Arena /\ aborted \in BOOLEAN /\ misused \in BOOLEAN

Held(b) == {p \in UNION {{a} \X DOMAIN Chunks(a) : a \in Arena} : Chunks(p[1])[p[2]].buf = b}

\* Every block is in exactly one place of one arena while it is allocated and
\* in none while it is free: none is lost or freed twice, however memory was
\* moved between arenas.
OneOwner == \A b \in Buf : Cardinality(Held(b)) = IF Free(b) THEN 0 ELSE 1

\* "The returned value remains valid until the memarena is cleared or closed"
\* (memarena.h, line 63): each piece lies in its block, in the used part of a
\* chunk of the arena that now holds it, and no two pieces overlap.
Bytes(o) == o.at .. o.at + o.size - 1
ObjectsValid ==
    /\ \A o \in objects : \E i \in DOMAIN Chunks(o.holder) :
          LET chunk == Chunks(o.holder)[i]
          IN  chunk.buf = o.buf /\ o.at + o.size <= F!Min({chunk.used, heap[o.buf]})
    /\ \A o, q \in objects : o # q /\ o.buf = q.buf => Bytes(o) \cap Bytes(q) = {}

\* The totals kept by hand in malloc_from_arena and move_memory are those of the
\* chunks they stand for ("the buf_size of all the other chunks", memarena.h).
TotalsExact ==
    \A a \in created :
        LET total(f(_)) == F!MapThenSumSet(LAMBDA i : f(arena[a].others[i]), DOMAIN arena[a].others)
        IN  /\ arena[a].size_of_others = total(LAMBDA c : c.size)
            /\ arena[a].footprint_of_others = total(toku_memory_footprint)

\* The invariant of line 89 fails only after an arena without a chunk was asked
\* for 0 bytes: round_to_page(0) is 0, and so is the size of the chunk it gets.
AbortsOnlyMisused == aborted => misused

\* However memory was moved between arenas: no block is lost or freed twice, each
\* piece stays where it was given out, and the code does not stop by itself.
MemorySafe == TypeOK /\ OneOwner /\ ObjectsValid /\ AbortsOnlyMisused

\* memarena.h, line 82: "iterator over the underlying chunks that store objects
\* in the memarena".  In an arena with a current chunk a loop of more() and next()
\* meets the bytes of every piece once, whichever arena it was allocated in; with
\* no current chunk, as after a move into a fresh arena, it meets none.
IteratorComplete ==
    \A o \in objects :
        LET a == o.holder
            holds(idx) == Current(a, idx).buf = o.buf /\ o.at + o.size <= Current(a, idx).used
        IN  arena[a].current.buf # NULL => Cardinality({idx \in Iterated(a) : holds(idx)}) = 1
=============================================================================
