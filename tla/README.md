# Verification of the programs in MySQL_code_notes

The repository is a collection of notes on MySQL, InnoDB, TokuDB and Tianmu
(prose, call traces, excerpts) with a small number of real programs among them:

* three utility libraries of TokuDB under `03.tokudb/toku_utils/`: the order
  maintenance tree (`01.OMT/omt_lib`), the write buffer (`02.wbuf`), the memory
  arena and the allocation wrappers (`03.memarena`);
* a modified `mysql-test-run.pl`, with the version it was made from beside it
  (`07.mysql_test/mysql_test_run_pl_tool/bak`);
* the SQL bitmap headers (`mysql5.6/sql/midwares/bitmap`) and one shell script.

This directory models those programs in TLA+. The notes describe code that is
not in the repository, and are not modelled.

Paths below are relative to the root of the repository. The tables of
`PROJECT.json` give the source lines of every definition that models code, the
deliberate mistake ("mutant") that each property detects, and the hazards each
property is for.

## Inventory

| Component | State | Operations | Interaction | What is hard | What makes it correct |
|---|---|---|---|---|---|
| omt (`omt.cc`, `omt.h`) | a block of values with room at both ends, or a block of tree nodes with cached weights and mark bits; `capacity`, `start_idx`, `num_values`, `free_idx`, `root` | five constructors, `split_at`, `merge`, `clone`, `destroy`, `clear`, `insert`, `insert_at`, `set_at`, `delete_at`, `delete_all_marked`, `iterate*`, `fetch`, `find*` | callbacks during iteration; arrays taken over from callers and from another omt; readers that set mark bits together | conversions between the two forms in the middle of an edit; a bump allocator that never takes nodes back; weights, balance and mark bits that are kept up by hand | it behaves as the sequence `omt.h` describes; no slot outside the block is touched; the tree stays balanced and memory linear |
| mysql-test-run: master and workers | lists of tests, tests running and completed, counters of ndb tests, failures, dismissed workers and children; one socket per worker | choose and hand out a test, take a result back, retry, repeat, dismiss a worker, suite timeout, reap | line protocol over sockets (`HELLO`, `START`, `TESTCASE`, `TESTRESULT`, `SPENT`, `VALGREP`, `BYE`), `fork` and `wait` | any order of the workers' answers, workers that die, tests that must run alone, retries | no test is lost or run twice, limits hold, the verdict is honest, the program ends |
| allocation statistics (`memory.cc`) | counters of bytes used and freed, the maximum in use, the largest request | `toku_malloc`, `toku_realloc`, `toku_free` and variants | shared by all threads, no lock | atomic additions, a compare-and-swap loop and plain stores side by side | the counters agree with the heap, the maximum covers it and never falls |
| memory arena (`memarena.cc`) | a current chunk, an array of other chunks, two totals | `create`, `destroy`, `malloc_from_arena`, `move_memory`, `chunk_iterator` | memory moves between arenas; allocation through `memory.cc` | who owns a chunk after moves; sizes that are doubled, capped, rounded | one owner per block, pieces stay valid, totals exact |
| mysql-test-run: one test, servers | running processes, timers, `.expect` files, the options, data and services of each server, the queue of servers that died as expected | `run_testcase`, `check_expected_crash_and_restart`, `servers_need_restart`, `clean_datadir`, `start_servers`, `stop_servers`, `check_testcase` | test program, servers and timers as processes; files between test and runner | deaths of processes in any order, expected crashes, timeouts, stale options | a test gets the servers it asks for, no exit is lost, a verdict of passed is earned, a test ends |
| bitmaps (`sql_bitmap.h`, `my_bitmap.h`) | a machine word or an array of words | set operations, prefixes, questions, iteration | a `Bitmap` and a `ulonglong` of another width | the padding of the last word, boundaries at the word size | they are the operations on sets |
| wbuf (`wbuf.h`) | a buffer, the bytes done, a checksum | appends, reservations | the caller fills reserved bytes through a pointer | appends made of several appends, byte orders, where the checksum is taken from | nothing is written outside the buffer; a reader finds each value where it expects it; the checksum covers the bytes it should |

Everything else is listed as a component in `PROJECT.json` with the reason why
it is not modelled: set-up code made of strings, files and environment, or
notes.

## Modules

| Module | Models | Composes |
|---|---|---|
| `OmtCapacity` | the tests of `maybe_resize_or_convert` and `maybe_resize_array`, shared by the next two | |
| `OmtStorage` | the block of one omt, and which slots each call writes; the shape of the tree is a free choice | `OmtCapacity` |
| `OmtStorage_proofs` | theorems about `OmtStorage` | |
| `OmtSeq` | abstract: an omt is a sequence of values and a set of marked slots | |
| `Omt` | the omt itself: arrays, trees, weights, marks | refines `OmtSeq` and `OmtStorage` |
| `Omt_proofs` | theorems about `Omt` and its refinement of `OmtSeq` | |
| `OmtMarks` | threads that set and read mark bits at the same time, one access to a word per action | |
| `OmtMarksSeq` | the marks as marks of a sequence | `OmtMarks`, whose steps are mark steps of `OmtSeq` |
| `OmtMarks_proofs` | theorems about `OmtMarks` and `OmtMarksSeq` | |
| `MCOmt`, `MCOmtStorage`, `MCOmtMarks` | instances; `MCOmtStorage` maps each omt to its storage, `MCOmtMarks` builds the tree the marks are set in | |
| `MtrSuite` | abstract: what the master promises about a suite | |
| `MtrScheduler` | `run_test_server`, `run_worker`, the sockets, the verdict of `main` | refines `MtrSuite` |
| `MtrScheduler_proofs` | theorems about `MtrScheduler` and its refinement of `MtrSuite` | |
| `MCMtrScheduler` | instances: suites and command lines | |
| `MtrServers`, `MCMtrServers` | one worker: its servers from test to test, and the loop that waits for one test | the detail of `Ran` of `MtrScheduler` |
| `MtrServers_proofs` | theorems about `MtrServers` | |
| `MemStatus` | `toku_malloc`, `toku_realloc`, `toku_free`, `set_max` by several threads | |
| `MemStatus_proofs` | theorems about `MemStatus` | |
| `MCMemStatus` | instance | |
| `Memarena`, `MCMemarena` | the arenas, the blocks they hold, the pieces they handed out | |
| `Memarena_proofs` | theorems about `Memarena` | |
| `Bitmap`, `MCBitmap` | the operations of `Bitmap`, `Bitmap<64>` and `Table_map_iterator` on words | |
| `Wbuf`, `MCWbuf` | the write buffer, its checksum and what its caller appended | |
| `Wbuf_proofs` | theorems about `Wbuf` | |

A definition named `Name_Change` and commented "mutant" is `Name` with a
plausible mistake in it. No specification uses it; replacing `Name` by it must
break the property that `PROJECT.json` names.

### Omt

A handle is `Absent` or a record: an array (`capacity`, `start_idx`, the values
as a sequence) or a tree (`capacity`, `root`, `free_idx`). A subtree is a record
that contains its two subtrees, so that the indices of nodes disappear; they
matter only to the bump allocator, which stays as `free_idx`. Subtrees have at
most as many levels as there are values (`MaxSize`, and one more while the last
one is being inserted), and the functions that go down a tree are functions on
the set of those subtrees. One action is one
call, including the conversion, resize or rebalance it ends with. `use` is
rigid: it holds the template parameter `supports_marks`, whether the values are
kept sorted, and the values and sizes of this run. The lookups (`find_zero`,
`find` in both directions, on arrays and on trees) are operators, checked in
every state against what `omt.h` says of their results. Calls that return an
error change nothing and are not steps. The slots a callback sees are those of
the sequence at the time.

`OmtSeq` states the promise of every operation on a sequence; `ImplementsSequence`
is the refinement. As any operation may explain a step there, `EditsExact` (part
of `AnswersExact`) and `CombinesExact` also state that it is the operation that was called.
`OmtStorage` forgets the values and remembers the block: capacity believed and
real, slots in use, and the slots written outside (`strays`). Omt is checked to
implement it (`ImplementsStorage`), so that what is proved there for every size
carries over.

### OmtMarks

`iterate_and_mark_range` may run in several threads under a read lock. A node has
two words, each an index and a bit: `marked` sits beside one link,
`marks_below` beside the other. Setting a bit is a read and a write of the word
(`enable_bit`), two actions; testing before setting (`set_marks_below_bit`) is a
third; looking at a bit or a link is one. The recursion of a thread is the list
of what it still has to do, in the order of the code. A callback may stop its
iteration at any value. The tree itself does not change: edits need the write
lock. `called` and `owed` are history: the values callbacks were called for, and
those marked when a reader began. The tree is a constant: links, weights and, for
each node, the slot of its leftmost value. `MarksAssumption` says that it is one:
the weights add up, and of two nodes one is under the other, to one side of its
value, or they have no slot in common. `OmtMarksSeq` gives the tree the values it
holds and reads the marks as those of a sequence of `OmtSeq`; a step of any
thread is then the marking of at most one slot (`ImplementsMarking`).

### MtrScheduler

Each action of the master handles one line read from one socket. A line that
ends with the choice of the next test does all of it: the scan of the list, the
reservation of similar tests for other workers, the ndb limit, the tests set
aside to run alone, the message to the worker. A result is handled by one of
`FailWithoutForce`, `TooManyFailed`, `RetryTest`, `RepeatTest`, `FinishTest`. A
worker connects, takes a test, runs it (outcome passed, failed or skipped, with
or without warnings), answers, and leaves on `BYE`, on an error, or when the
master is gone. A socket is a FIFO queue each way, and what is in it when its
reader is gone is lost; a write to a worker that is gone ends the master
(`killed`). `outcomes` is history. `opt` is rigid: the suite and the command line.

### MtrServers

The state of a worker between tests is the configuration, one record per server
(the process, the options, time zone and bootstrap options it was started with,
`restart_opts`, the reinitialization flag, whether its storage services run) and
what each data directory was initialised with. `NextTest` is everything from
the arrival of a test to the decision what to start: which servers need a
restart (`Restarts`), whether their data do (`NeedReinit`), the stop, and, when
nothing is left running, the new configuration and `clean_datadir`.
`StartServers` starts what does not run and chooses for each data directory
between copying, keeping and initialising. While the test runs the worker takes
one process at a time out of those that have exited, as `check_any` and
`wait_any_timeout` do, and for a server looks at its `.expect` file: restart
(with other options or not), wait (back to the front of the queue, the other end
being served), or a failed test. `TestOver` has the whole branch on the exit
code, with the check after the test and the files that force a restart. The
environment writes `.expect` files while the test program runs, lets servers die
and the test program exit, and lets the timer expire; a file that says "wait" may
later say "restart". Options, time zones and configurations are names.

### MemStatus

One action is one access to a shared counter or one call of the allocator, so
that everything between two of them may be overtaken by other threads. Blocks
have an owner while a call works on them; a caller frees or resizes only blocks
that no other call has. The order in which `set_max(status.used, status.freed)`
reads its arguments is free, as in C++. The compare-and-swap is one action.

### Memarena

One action is one call; the code has no locks and the callers use an arena from
one thread. `heap` gives the usable size of each block in use, `objects` the
pieces the callers have. `round_to_page` works on words of `WordSize`, which is
why a request for 0 bytes gives a chunk of size 0. A failed `invariant()` sets
`aborted` and ends the behaviour.

### Bitmap

A map is a number, its words one after the other, with the padding of the last
word part of it; each operation is an operator on that number and `width` is
rigid. The functions of `my_bitmap.c` are external: what they leave in the
padding is every possible value. The state is one map, the other operand comes
from all maps of that width.

### Wbuf

A buffer is its bytes, its size, `ndone` and the bytes the checksum has been
given, in their order (x1764 is external). The functions are operators from a
buffer to a buffer, composed as in the code; where an assertion fails the
program stops. `items` is history: the bytes each call should have appended, in
the byte order its reader takes them. An integer has `IntBytes` bytes of `Base`
values; `Power` tells them apart.

## Runs

Ten runs pass; two are findings. Properties that are conjunctions of named parts
(`TreesSound`, `AnswersExact`, `NothingLost`, `Limits`, `MemorySafe`,
`AccountsSound`, `QueueSound`) are listed by the name of the conjunction, and the
parts are commented where they are defined.

| Run | What is checked | Instance and bounds |
|---|---|---|
| `Omt` | types, weights, balance, marks, lookups, order, reads, edits, refinement of `OmtSeq` and `OmtStorage` | one omt, four uses: up to 7 equal values (a tree of four levels, the growth from 4 to 8 slots and back), up to 5 of two values, up to 4 sorted of three values, up to 4 of two values with marks |
| `Omt_several` | split, merge, clone, and the storage of all parties | three omts, up to 2 values each, without and with marks, symmetric handles |
| `OmtStorage` | the storage invariants and the bound on memory | up to 9 values, blocks up to 20 slots, without and with marks |
| `OmtMarks` | links survive, marks can be found at every moment, cached bits are exact when nobody marks, readers are complete, each step is a mark step of `OmtSeq` | four values, two markers over ranges that overlap, one reader |
| `Mtr` | conservation of tests, the rule of tests that run alone, retries, failure limit, verdict, answers, refinement of `MtrSuite`, stop on failure, the two liveness properties | three tests, one that must run alone, six command lines: with retries and a failure limit, retries without a limit, ndb tests with three workers, one worker with repeats and valgrind, no `--force`, a worker that leaves on an error with the suite timer |
| `Mtr_times` | violated: see findings | three workers with `--report-times` |
| `MtrServers` | a test starts on the servers it asks for, no exit is lost, a verdict of passed is earned, requested restarts happen, a test ends | two configurations, a master and a slave, five kinds of tests in any order without end, at most two deaths in each |
| `MtrServers_services` | violated: see findings | the same |
| `MemStatus` | accounts, order of the counters, the maximum, every call returns | two threads, two blocks, sizes 1 and 3, at most 8 bytes used |
| `Memarena` | one owner, valid pieces, no abort but after misuse, totals, the iterator | two arenas, four blocks, pages of 2, chunks of 4, requests of 0, 1 and 5, at most 3 other chunks after a move |
| `Bitmap` | edits, questions and the walk agree with sets of positions | widths 3, 4, 6, 8 and 10 over words of 4 bits and a ulonglong of 8 |
| `Wbuf` | layout and checksum | buffers of 0, 1, 4 and 6 bytes, integers of two bytes, sequences of four calls |

Why the bounds are enough: every threshold of the code is crossed in both
directions. An omt of 7 values grows and shrinks its block, becomes lopsided at
the root and below, and has nodes with two children whose successor is deep.
In `OmtMarks` the ranges share a value and a path, so that two threads set the
same bit, pass each other, and mark under a node another one has passed.
Three workers and three tests are enough for a dismissed, a running and an idle
worker at once, and for a test that is reserved, set aside and retried. In
`MtrServers` two servers suffice for one to wait in the queue while the other
exits; the tests differ in configuration, options, time zone, bootstrap options
and forced restarts, so that each condition of `server_need_restart` and
`clean_datadir` decides alone somewhere; the number of tests is not bounded.
`MaxDeaths` bounds the deaths within one test; two let both servers die, or one
die again after its restart. In
`MemStatus` two threads are enough for every stale read and failed swap, and the
theorems hold for any number. In `Memarena` a request of 5 is larger than the
largest chunk, 4 blocks let both arenas have a current and another chunk, and
sizes 0 and 3 make the first chunk absent or not a whole number of pages. The
widths of `Bitmap` are less than a word, a word, a word and a half, exactly the
specialization, and more than a ulonglong. In `Wbuf` a buffer of 6 bytes takes
three integers, and an append of two parts fails at its second in buffers of 4.

Deadlock is checked in `OmtStorage`, `OmtMarks`, `Mtr`, `MtrServers`, `MemStatus`
and `Bitmap`. It is not in `Omt`, `Omt_several`, `Memarena` and `Wbuf`, where the
program may end by an `invariant()` or an assertion.

## Fairness

* `MtrScheduler`: weak fairness of the master for each socket (each turn of its
  loop serves every socket that `select` reports), of each worker's own steps (a
  test ends at the latest with its own timer), of `Reap` (`wait` returns when a
  child has ended) and of `SuiteExpires` (a timer that was started expires).
  Nothing is assumed of errors of workers, which may or may not happen. The
  liveness properties say under which options they hold: `Ends` needs no error
  or a timer, since a worker that never connects is waited for. `AllRun` needs
  `--force`, no limit on failures, no errors, time enough, and neither
  `--report-times` nor valgrind: a line that a dismissed worker sends may cost
  the suite a test (see `Mtr_times` under Findings). Of the six command lines
  two fulfil this: `Patient`, with retries and no limit, and `Cluster`, with three
  workers (`MCMtrScheduler`).
* `MemStatus`: weak fairness of every thread inside a call, as for any scheduler
  that runs all threads. Nobody has to call.
* `MtrServers`: weak fairness of the worker, a program that runs. Nothing is
  assumed of the test program, of the servers or of the timer: `TestEnds` says
  itself that it needs a timer that expires, and `Restarted` holds without.
* The other modules state safety only: they are sequential, and in `OmtMarks`
  no thread waits for another one.

## Proofs

The theorems are checked by TLAPS for every value of the constants. Each module
with proofs states one inductive invariant, `IInv`, as a conjunction of named
parts (that of `Memarena` and `MtrScheduler` is followed by others that rest on
it), proves that it holds initially and that every action keeps it, and takes the
properties from it.

### The order maintenance tree: `Omt_proofs`

Assumptions: `OmtAssumption` and `AbsentAssumption`. Values are integers, the bound
`MaxSize` on the number of values is a number, what stands for an object that does
not exist is neither a structure nor a sequence, and for callers that look values up
the callback of `iterate_ptr` keeps their order, as `omt.h` demands of the sign of
`h` at every lookup. The number of objects and the set of values are arbitrary.

The functions on trees are recursive. For each of them its equation is proved
first, by extending it one level of trees at a time (`Levels`), and then what it
computes, by an induction over subtrees (`TreeInduction`): the values, weights,
balance and marks of the tree it makes, from those of the tree it is given. Two of
these facts carry the rest. A tree rebuilt from its sorted values has the weight of
its values and is nowhere lopsided. An edit adds or takes one value below the nodes
it passes; `Inserted` and `Deleted` say what has become of the subtree when it is
back, with the case that the topmost lopsided node was at or under it and has been
rebuilt, and the case that it was above. The edits of arrays and the conversions come to
facts about parts of sequences (`Put`, `Cut`, `Part`).

`IInv` says that every object is `Held`: it is `Sound` (an array, or a tree with exact
weights, no lopsided node and `below` bits that are true), it is a tree if it
supports marks, it has no more values than its user keeps, and they are sorted if the
user looks values up. The invariants alone would not be inductive: `insert` finds its
position by lookups, which are right only on sorted values, and an edit navigates by
weights and keeps the balance only of a tree that had both.

`Soundness` is `TreesSound` and `Answers` is `AnswersExact`: the binary searches of
arrays, the searches of trees, `fetch`, ranges, insertions and deletions give what
`omt.h` says of the sequence. For the refinement each action is followed to what it
makes of the sequence and of the marked slots (`Becomes`, `Maps`), and that is
a step of `OmtSeq` or leaves both alone (`Explained`): `ImplementsSequenceAlways`.
`CombinesExactAlways` says the same of `split_at`, `clone` and `merge` with their own
arguments. A constructor that aborts on what it reads in an object not yet created
changes nothing.

### The block of an omt: `OmtStorage_proofs`

Assumption: `StorageAssumption`, the sizes are numbers; for the safety theorems
also `HonestCallers`, that a block given to `create_steal_sorted_array` has at
least the slots stated for it.

* `StorageTypeCorrect`: `TypeOK`.
* `NoStrayWriteEver`: no call writes outside its block.
* `ValuesPlaced`: values lie inside the block, nodes among those handed out.
* `EditsKeepLinear`: an insertion or a deletion leaves fewer than max(8, 4n) slots.

`NoStrayWrite` is not inductive: `node_malloc` writes slot `free_idx` without a
test, and an append writes behind the last value, so one needs to know where the
values lie. The invariant adds that the believed capacity is at most the real
one, that `start_idx + num_values <= capacity` for an array, and
`size <= free_idx <= capacity` for a tree. Each call is then a composition of a
few operators (move to a new block, make room, append, prepend, take a node),
and there is one lemma per operator: what room it leaves, and that it writes
inside. The bound on memory follows from the room test alone, whatever the
state before.

### Marks set by several threads: `OmtMarks_proofs`

Assumptions: `MarksAssumption`, the tree is one (see above), and `HeldAssumption`,
as many values as slots.

* `IndexesKeptAlways`: setting bits never changes the link in the same word.
* `MarksReachableAlways`: a mark whose marker has gone on can be found from the
  root at any moment.
* `QuietConsistentAlways`: with no marker at work the cached bits are exact.
* `ReaderCompleteAlways`: a reader is called for every slot marked when it began.
* `ImplementsMarkingAlways`: each step marks at most one slot of the sequence.

A bit is set by a read and a later write of a word that holds a link, and the
bits on the way to a mark are set on the way down. The invariant therefore speaks
of what each thread still has to do: a list of tasks has the nodes of its calls
properly under each other (`ListsGood`); a flag is set above every mark
(`FlagsGood`), and where no mark is below it yet, some marker pursues one; a
marked slot has had its callback or is about to (`CallsGood`); and of the slots a
reader owes each has been seen or lies in what is left of its list
(`ReadersGood`).

### The master and the workers: `MtrScheduler_proofs`

Assumption: `SchedulerAssumption`, each suite has distinct tests and numbers where
numbers are expected, and no more workers than tests.

* `NothingLostAlways`, with its parts `TypesAlways`, `ConservedAlways`,
  `AnswersKnownAlways`, `HonestReportAlways`: no test is lost or run twice, and
  the program reports it so.
* `StopsOnFailureAlways`: without `--force` nothing is given out after a failure.
* `LimitsAlways`: retries, the result kept and the number of failed tests.
* `NonParallelAloneAlways`: tests that must run alone do.
* `ImplementsSuiteAlways`: every step is a step or a stutter of `MtrSuite`.
* `TurnsAlways`, `CountedRightAlways`: what the last three of these rest on.

The invariant has five parts: `Typed`; `OneCopy`, that a test that is out is in
one socket or with one worker, and there once; `Accounted`, that each test is in
the list, set aside, running or has its one result; `Posts`, which workers hold
a test; `Verdict`. The search for the next test takes many forms; it is described
once (`Search`), and each property needs one lemma about a search.

The rules for dismissed workers need that a worker and the master take turns
(`Turns`): at most one message is under way, so that a dismissed worker is not
dismissed again. That holds only if no worker reports times or valgrind's
findings after its dismissal. `Plain` says so: the two theorems about tests
that run alone and about `MtrSuite` have it as a hypothesis, and the run
`Mtr_times` shows that they are false without. `Alone` adds that a worker counted
as dismissed is, the last one excepted (`Dismissals`), that a test that must run
alone is with the last worker (`Lonely`), and that ndb tests are counted exactly.

For the limits the counters inside a test matter, which travel with it. `Distinct`
(from `OneCopy`) says that a test that is out is one record; `Book` that its
counters agree with what its runs came to, before and after a run; `Tally` that
the tests known to have failed, by a result or by a retry under way, are at most
as many as the master has counted.

### The servers of a worker: `MtrServers_proofs`

Assumption: `MtrServersAssumption`, the tests ask for servers that exist.

* `QueueSoundAlways`: no exit is lost or handled twice.
* `StartsRightAlways`: a test starts on the servers and data it asks for.
* `HonestVerdictAlways`: a passed test has passed.

The invariant follows one test: what an object says of a process is what it was
started with (`Faithful`), the servers left after the decision are those asked
for (`Asked`), what was decided of their data (`Decided`), that all run when the
test begins (`AllStarted`), and the queue (`NotForgotten`). What the comment of
`StartsRight` excludes had to be: the proof of a stronger form failed at the
servers nobody had looked at, and TLC then showed the behaviour.

### Allocation statistics: `MemStatus_proofs`

Assumptions: `MemAssumption`, an allocator gives at least the size asked for, and
`NULL` is no block and no thread; `FiniteAssumption`, finitely many of each.

* `CountersTyped`: `TypeOK`.
* `MaximumCovers`: when no call is under way `max_in_use >= used - freed`.
* `MaximumGrows`: no step lowers `max_in_use`.
* `AccountsSoundAlways`: the counters agree with the heap when no call is under
  way, and never show more freed than used.

`MaxCovers` speaks of quiet states only. The inductive invariant says that at
any time either the maximum covers the memory in use, or some thread is
*obliged*: it is on its way to `set_max`, or has read the present value of
`used`, or carries a difference that is at least the present one. A step of
`used` makes the thread that took it obliged; `freed` growing only lowers what
has to be covered; a thread gives up its obligation only where it finds or makes
the maximum large enough. For that the values a thread has read must be old
values of counters that only grow, and a thread that swaps must have loaded a
smaller maximum: these are the other conjuncts (`Locals`).

The accounts are one equation (`Books`): what is used and what the threads have
still to add is what is freed, what they have still to subtract, and the usable
sizes of the blocks. `Carries` says what each call under way stands for in it.

### Arenas: `Memarena_proofs`

Assumption: `ArenaAssumption`, pages and chunks are numbers of bytes.

* `MemorySafeAlways`: one owner per block, pieces valid and apart, and no
  `invariant()` fails but for a request of 0 bytes.
* `IteratorCompleteAlways`: the iterator shows every chunk of an arena, but for
  the case described under Observations.
* `TotalsExactAlways`: the two totals are those of the chunks.

The invariant says which block each chunk has (`Backed`, `Unshared`, `Owned`), and
where each piece lies (`Inside`, `Apart`). The totals follow separately, as sums
over sequences of chunks.

### The write buffer: `Wbuf_proofs`

Assumption: `WbufAssumption`, strings and integers have as many bytes as stated, and
a buffer and a string in it do not pass the range of an unsigned int together.

* `LayoutExactAlways`: no byte outside the buffer, every value where it is read.
* `ChecksumExactAlways`: the checksum has had the bytes it should.
* `FailsExactlyWhenFull`: in every state the assertions of a function stop the program
  exactly when its whole value does not fit into what is left of the buffer, also where
  each part is asserted on its own. This is about buffers and strings as the assumption
  has them: of sums that wrap around an unsigned int nothing is claimed.
* `Invariance`: what these rest on.

The invariant (`Holds`) says that `ndone` is the length of the bytes of all calls,
joined; that the buffer agrees with them wherever they are not just reserved; that
the checksum is the joined bytes of the calls that ask for it; and that those calls
reserve nothing, without which a later `Fill` would leave the checksum behind. Every
function does one of two things to the buffer it is given (`Does`): it fails if there
is no room, else it leaves the buffer `Written` with one string. A function made of two is so by
`WrittenTwice`, and the actions need to know no more than that.

Under this lie three groups of lemmas about operators. Integers: the powers of the
base, division (`Divided`), and that the bytes of a part of an integer are those of
the integer (`LowBytes`), so that a long is its two ints. Joined sequences
(`FlattenSeq`): what one sequence more adds, and what replacing one by another as
long changes (`FlattenReplace`). Buffers: what `Put` leaves alone.

### Sums and induction

The induction theorems of the library take an operator and cannot be used here.
`Induct` has the set of numbers for which something holds as its parameter instead,
and with it recursive functions, those of `Omt`, `Power` and that inside
`FlattenSeq`, are followed. Sums over finite sets and sequences are reached
otherwise: a sum of numbers is the size of a set that has one element, a pebble, for
each unit, and the least number with a property (`LeastNumber`) replaces induction,
both stated with sets as parameters. The lemma `SumsAreTotals` says
that the recursive function the models sum with is that size. Each module states the
lemmas of this kind that it needs.

### What is only model-checked

* `ImplementsStorage` and `AllImplementStorage`, that an omt of `Omt` uses its block
  as `OmtStorage` says. They are stated for the objects of the instance and for blocks
  no larger than `MCMaxCapacity`; for all of them they would need, beside `IInv`, a
  bound on the blocks that merges hand on, and where in a run of deletions the
  tree was last rebuilt.
* `Bitmap`: its operators are those of the module `Bitwise` on words, which the
  provers do not know.
* All liveness properties.
* `NonParallelAlone` and `ImplementsSuite` for command lines with valgrind: the
  run `Mtr` has one, with a single worker.

## Findings

Places where the code does something else than a comment beside it says, each
with a run that TLC finds violated.

* `Mtr_times`: a worker that reports its times after it was dismissed is counted
  as dismissed again, so that a test that must run alone starts beside others; with
  two workers it is sent to the one that has gone, and never runs.
* `MtrServers_services`: when all servers are restarted for a test with the same
  bootstrap options, their storage services are stopped with them, the data are
  kept, and the services, which are started only together with copied or new
  data, stay stopped.

## Observations

Met while modelling, without a run of their own. The properties are stated so
that they hold in spite of them, and say so.

omt

* `clone` and `merge` look for marks in the object they are about to create,
  whose memory nobody has initialized; with `supports_marks` the `invariant` may
  end the process (`ConstructorAborts` in `Omt`).
* The comment of `create_steal_sorted_array` requires the capacity of the array
  to be `<= new_capacity`; the code needs `>=`, which `HonestCallers` and
  `StealGap` assume.

mysql-test-run

* A worker that leaves on an error is never counted as dismissed, so that the
  tests that must run alone are not run by the last worker.
* The reinitialization flag is worked out from the servers of the old
  configuration and given to those of the new one: a server that is new, and
  whose bootstrap options nobody has asked for yet, may start on plain data.
  `StartsRight` allows it where the flag says "no".
* In a test of replication the loop over the servers ends with the first one
  that has to be reinitialized (line 6356), so that the flags of the servers
  after it are those of an earlier test; the comment of `clean_datadir` (line
  4619) takes them for an answer. `StartsRight` asks for fresh data only of a
  server that was looked at (`LookedAt`).
* A skipped test whose check after the test is 1 has already had its result set
  to 1, so that the branch for it (line 4850) is never taken; one whose check
  fails altogether leaves its dead server to the next test.
* When the timer expires while servers are waited for, the queue is emptied with
  the exit of the test program, if that is in it, and the test is reported as
  timed out; and the timer is not looked at while processes keep exiting.

allocation, arenas

* The largest request may be overwritten by a smaller one of another thread.
* The iterator over an arena that got its memory from another one, and has no
  current chunk, ends before its first chunk.
* `total_size_in_use` counts the whole size of the other chunks, although its
  comment excludes unused space; `memarena::destroy` leaves the two totals as
  they were until the next `create`; `move_memory` appends a null chunk when the
  source has none.

bitmaps

* `Bitmap<64>::is_prefix(64)` compares with a word that lacks the first bit.
* `Bitmap::to_ulonglong` gives the padding of the last word too.
* Assigning a `Bitmap` to itself empties it, as `init` comes first.

## Not modelled

Set-up code (`command_line_setup`, `environment_setup`, `mysql_install_db`) makes
strings, files and an environment, and has no behaviour over time. Of the run of
one test: NDB clusters, secondary engines, servers of another version, debuggers,
`--manual` and `--start`, the analyze script and the reports. `.expect` files
left by a test whose servers keep running are removed only when all servers
stop; the model keeps them likewise, but writes them only while a test runs. The
version of the script before its modification is the same in what is modelled.
`memory_size` and `print` compute a number and a string. Size 0 in `realloc` is
the allocator's choice. The notes describe code that is not here.

## Plan

Done, in this order: the omt with its storage and sequence; the master and the
workers of mysql-test-run; the allocation statistics; the arenas; marks set by
several threads; bitmaps; the write buffer; the servers and the run of one test.

Then the proofs, in this order: the block of an omt and the maximum of the
allocation statistics; marks set by several threads; the servers; the arenas; the
accounts; the master and its workers; the write buffer; the order maintenance tree
and its refinement of the sequence.

Left are the storage of an omt as `Omt` uses it, and theorems about single operations
of `Bitmap`, which need words as sequences of bits in place of `Bitwise`.
