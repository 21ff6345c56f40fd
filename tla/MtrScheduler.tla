---------------------------- MODULE MtrScheduler ----------------------------
(***************************************************************************)
(* The parallel test runner of mysql-test-run.pl: the master's loop        *)
(* (run_test_server) hands the tests of the suite to worker processes      *)
(* (run_worker) over one socket each, and decides from every answer        *)
(* whether the test is retried, repeated or finished, and which test that  *)
(* worker gets next.  Each action of the master handles one line it reads  *)
(* from one socket; a socket is a FIFO queue in each direction.            *)
(*                                                                         *)
(* Abstracted: what a test does (its outcome is a choice), the names,      *)
(* options and logs carried with it, the saving of logs, cores and data    *)
(* directories, reporting.  External to src/: My::Test (the wire format),  *)
(* mtr_cases (the order of the list and the attributes of a test).         *)
(***************************************************************************)
EXTENDS Integers, FiniteSets, Sequences

CONSTANT Options    \* the suites and command lines considered

(* A suite as collect_test_cases returns it, and the options that matter.  *)
IsOptions(o) ==
    LET T == {o.list[i] : i \in DOMAIN o.list} IN
    /\ o.list \in Seq(T) /\ o.list # <<>> /\ Cardinality(T) = Len(o.list)
    /\ {o.not_parallel, o.ndb_test, o.skip, o.exp_fail, o.force_restart} \subseteq SUBSET T
    /\ DOMAIN o.criteria = T          \* the configuration each test needs
    /\ o.parallel \in 1..Len(o.list)  \* workers: no more than tests
    /\ o.max_ndb \in 1..o.parallel    \* ndb tests that may run at the same time
    /\ {o.retry, o.retry_failure, o.max_test_fail} \subseteq Nat
    /\ o.repeat \in Nat \ {0}
    /\ {o.reorder, o.force, o.valgrind, o.report_times} \subseteq BOOLEAN
    /\ o.errors \in Nat               \* bound: workers that leave on an error
    /\ o.timed \in BOOLEAN            \* whether the suite timer is let expire

ASSUME SchedulerAssumption == \A o \in Options : IsOptions(o)

VARIABLE opt       \* the suite and the options of this run of the program

Tests == {opt.list[i] : i \in DOMAIN opt.list}

(* The workers of the largest --parallel; those beyond $opt_parallel are   *)
(* never forked.                                                           *)
Workers == UNION {1..o.parallel : o \in Options}

VARIABLES
    \* The master, run_test_server
    main,          \* "serving", or how it left the loop
    tests,         \* @$tests: tests not handed out yet, in order
    nonParallel,   \* @$non_parallel_tests
    running,       \* keys of %running
    completed,     \* @$completed: for each test the results pushed, in order
    lastWorker,    \* $result->{worker}, kept from the last result read; 0 for none
    numNdb,        \* $num_ndb_tests
    numFailed,     \* $num_failed_test
    completedWid,  \* $completed_wid_count
    childs,        \* $childs
    link,          \* per worker, the master's end of its socket
    \* The sockets
    toMaster, toWorker,
    \* The workers, run_worker
    worker,        \* per worker, where it is
    holds,         \* per worker, the test it is running, as a sequence of at most one
    errors,        \* how many workers have left on an error
    \* History, read by the properties only
    outcomes       \* per test, what its runs since the last repeat came to

master  == <<main, tests, nonParallel, running, completed, lastWorker, numNdb,
             numFailed, completedWid, childs, link>>
sockets == <<toMaster, toWorker>>
workers == <<worker, holds, errors>>
vars    == <<opt, master, sockets, workers, outcomes>>

(* A test as it travels: what the master and the workers change in it.     *)
Fresh(t) == [id |-> t, reserved |-> 0, worker |-> 0, result |-> "none",
             failures |-> 0, retries |-> 0, repeat |-> 0, warned |-> FALSE]

Ids(s) == {s[i].id : i \in DOMAIN s}
First(S) == CHOOSE i \in S : \A j \in S : i <= j

(* The elements of s at the positions P, in their order.                   *)
At(s, P) == [n \in 1..Cardinality(P) |->
               s[CHOOSE i \in P : Cardinality({j \in P : j <= i}) = n]]

Init ==
    /\ opt \in Options
    /\ main = "serving"
    /\ tests = [i \in DOMAIN opt.list |-> Fresh(opt.list[i])]
    /\ nonParallel = <<>>
    /\ running = {}
    /\ completed = [t \in Tests |-> <<>>]
    /\ lastWorker = 0
    /\ numNdb = 0 /\ numFailed = 0
    /\ completedWid = 0
    /\ childs = opt.parallel
    /\ link = [w \in Workers |-> IF w <= opt.parallel THEN "none" ELSE "closed"]
    /\ toMaster = [w \in Workers |-> <<>>]
    /\ toWorker = [w \in Workers |-> <<>>]
    /\ worker = [w \in Workers |-> IF w <= opt.parallel THEN "forked" ELSE "gone"]
    /\ holds = [w \in Workers |-> <<>>]
    /\ errors = 0
    /\ outcomes = [t \in Tests |-> <<>>]
-----------------------------------------------------------------------------
(* The choice of the next test, for a master that knows of n ndb tests     *)
(* running.  Skipped and non-parallel tests that the scan passes leave the *)
(* list; the scan stops at the first test that suits.                      *)

(* Positions the limit on ndb tests leaves open.                           *)
(* mutant: one ndb test too many *)
Open_OneNdbMore(n) == {i \in DOMAIN tests : /\ tests[i].id \notin opt.skip \cup opt.not_parallel
                                            /\ tests[i].id \in opt.ndb_test => n <= opt.max_ndb}
Open(n) == {i \in DOMAIN tests : /\ tests[i].id \notin opt.skip \cup opt.not_parallel
                                 /\ tests[i].id \in opt.ndb_test => n < opt.max_ndb}

(* Tests are reserved only once some result has been read.                 *)
Smart(wid) == opt.reorder /\ opt.parallel > 1 /\ wid # 0

(* Positions that are not reserved for a worker other than wid.            *)
Suited(n, wid) == {i \in Open(n) : Smart(wid) => tests[i].reserved \in {0, wid}}

Chosen(n, wid) == IF Suited(n, wid) # {} THEN {First(Suited(n, wid))}
                  ELSE IF Open(n) # {} THEN {First(Open(n))} ELSE {}

Scanned(n, wid) == IF Suited(n, wid) # {} THEN 1..First(Suited(n, wid)) ELSE DOMAIN tests

(* The tests like the chosen one that directly follow it, but not too many.*)
Similar(n, wid) ==
    LET i == First(Suited(n, wid)) IN
    IF Smart(wid) /\ Suited(n, wid) # {} /\ tests[i].reserved = 0
    THEN {j \in i + 1 .. i + (Len(tests) - i + 1) \div opt.parallel + 1 :
            /\ j \in DOMAIN tests
            /\ \A k \in i + 1 .. j : /\ opt.criteria[tests[k].id] = opt.criteria[tests[i].id]
                                     /\ tests[k].id \notin opt.force_restart}
    ELSE {}

(* A write to a worker that has exited is lost; the second such write, the *)
(* lines of a TESTCASE included, may end the master with SIGPIPE, for      *)
(* which it has no handler.                                                *)
Answer(w, m) ==
    /\ toWorker' = [toWorker EXCEPT ![w] = Append(@, m)]
    /\ main' \in IF worker[w] = "gone" /\ (m.type = "TESTCASE" \/ toWorker[w] # <<>>)
                 THEN {main, "killed"} ELSE {main}

Give(w, t) == Answer(w, [type |-> "TESTCASE", test |-> t])
Bye(w) == Answer(w, [type |-> "BYE"])

(* What the scan takes out of the list: skipped tests, tests to set aside, *)
(* and the test it has chosen.                                             *)
Skipped(n, wid) == {tests[i].id : i \in {j \in Scanned(n, wid) : tests[j].id \in opt.skip}}
Aside(n, wid) == At(tests, {i \in Scanned(n, wid) : tests[i].id \in opt.not_parallel \ opt.skip})
(* mutant: tests set aside stay in the list *)
Leaving_NoSplice(n, wid) == Skipped(n, wid) \cup {tests[i].id : i \in Chosen(n, wid)}
Leaving(n, wid) ==
    Skipped(n, wid) \cup Ids(Aside(n, wid)) \cup {tests[i].id : i \in Chosen(n, wid)}

(* The list after the scan, with the similar tests reserved.               *)
Rest(n, wid) ==
    LET marked == [i \in DOMAIN tests |-> IF i \in Similar(n, wid)
                                          THEN [tests[i] EXCEPT !.reserved = wid]
                                          ELSE tests[i]]
    IN  At(marked, {i \in DOMAIN tests : tests[i].id \notin Leaving(n, wid)})

(* Keys of %running after t is given out, and after r has come back.       *)
Handed(out, t) == out \cup {t.id}
Back(r) == running \ {r.id}

(* $completed_wid_count once another worker finds nothing to do, and how   *)
(* the master knows that this worker is the last one.                      *)
Counted == IF completedWid < opt.parallel THEN completedWid + 1 ELSE completedWid
(* mutant: workers that were lost count as done *)
LastWorker_CountsLost(count) == count + errors >= opt.parallel
LastWorker(count) == count = opt.parallel

(* The master gives t to w; "out" are the tests running, n of them ndb.    *)
HandOut(w, t, out, n) ==
    /\ Give(w, t)
    /\ running' = Handed(out, t)
    /\ numNdb' = IF t.id \in opt.ndb_test THEN n + 1 ELSE n

(* "Find next test to schedule" and what follows it, for worker w, with    *)
(* the running tests, their ndb count and the results as the handling of   *)
(* the line so far has left them.                                          *)
Schedule(w, wid, out, n, results) ==
    LET aside == nonParallel \o Aside(n, wid) IN
    /\ tests' = Rest(n, wid)
    /\ completed' = [t \in Tests |->
         IF t \in Skipped(n, wid) THEN Append(results[t], [Fresh(t) EXCEPT !.result = "skipped"])
                                  ELSE results[t]]
    /\ \/ /\ \E i \in Chosen(n, wid) :
               HandOut(w, IF Suited(n, wid) # {} THEN tests[i]
                                                 ELSE [tests[i] EXCEPT !.reserved = 0], out, n)
          /\ nonParallel' = aside
          /\ UNCHANGED completedWid
       \/ /\ Chosen(n, wid) = {}
          /\ aside # <<>> /\ LastWorker(Counted)
          /\ HandOut(w, Head(aside), out, n)
          /\ nonParallel' = Tail(aside)
          /\ completedWid' = Counted
       \/ /\ Chosen(n, wid) = {}
          /\ ~(aside # <<>> /\ LastWorker(Counted))
          /\ Bye(w)
          /\ running' = out
          /\ numNdb' = n
          /\ nonParallel' = aside
          /\ completedWid' = Counted
-----------------------------------------------------------------------------
(* The master.                                                             *)

Accept(w) ==
    /\ main = "serving"
    /\ link[w] = "pending"
    /\ link' = [link EXCEPT ![w] = "open"]
    /\ Answer(w, [type |-> "HELLO"])
    /\ UNCHANGED <<opt, tests, nonParallel, running, completed, lastWorker, numNdb, numFailed,
                   completedWid, childs, toMaster, workers, outcomes>>

(* The master reads a line of the given type from w.                       *)
Reads(w, type) ==
    /\ main = "serving"
    /\ link[w] = "open"
    /\ toMaster[w] # <<>>
    /\ Head(toMaster[w]).type = type
    /\ toMaster' = [toMaster EXCEPT ![w] = Tail(@)]

(* A socket read to its end: its worker has gone.  The last one to go ends *)
(* the loop.                                                               *)
(* mutant: the count is looked at after the decrement, as if before *)
LastChild_CountsLater == childs = 0
LastChild == childs = 1

Closed(w) ==
    /\ main = "serving"
    /\ link[w] = "open" /\ worker[w] = "gone" /\ toMaster[w] = <<>>
    /\ link' = [link EXCEPT ![w] = "closed"]
    /\ childs' = childs - 1
    /\ main' = IF LastChild THEN "returned" ELSE main
    /\ UNCHANGED <<opt, tests, nonParallel, running, completed, lastWorker, numNdb, numFailed,
                   completedWid, sockets, workers, outcomes>>

(* START has nothing of its own to do, SPENT and VALGREP are only noted;   *)
(* all three go on to the search for the next test.                        *)
Notes(w) ==
    /\ Reads(w, "START") \/ Reads(w, "SPENT") \/ Reads(w, "VALGREP")
    /\ Schedule(w, lastWorker, running, numNdb, completed)
    /\ UNCHANGED <<opt, lastWorker, numFailed, childs, link, workers, outcomes>>

Result(w) == Head(toMaster[w]).test
Failed(r) == r.result = "failed"

(* $num_failed_test counts the first failure of a test, not its retries.   *)
FailedSoFar(r) ==
    IF Failed(r) /\ r.retries = 0 /\ r.id \notin opt.exp_fail THEN numFailed + 1 ELSE numFailed

StopsAll(r) == Failed(r) /\ opt.force /\ opt.max_test_fail > 0 /\ FailedSoFar(r) >= opt.max_test_fail

(* The run the retry would be, counted as the master counts: the first     *)
(* run is 1, so the first retry is 2.                                      *)
(* mutant: the first run is not counted *)
NextRun_FromOne(r) == IF r.retries = 0 THEN 1 ELSE r.retries
NextRun(r) == IF r.retries = 0 THEN 2 ELSE r.retries

Retries(r) ==
    /\ r.failures > 0
    /\ NextRun(r) <= opt.retry
    /\ ~(opt.retry > 1 /\ r.failures >= opt.retry_failure)

Repeats(r) ==
    /\ opt.parallel = 1
    /\ (IF r.repeat = 0 THEN 1 ELSE r.repeat) < opt.repeat
    /\ r.result # "skipped"

(* The test as it is sent out for its next repeat.                         *)
Anew(r) == [r EXCEPT !.result = "none", !.retries = 0, !.failures = 0,
                     !.repeat = IF @ = 0 THEN 2 ELSE @ + 1]

(* Without --force the first failure ends the suite, unless valgrind wants *)
(* the servers of that worker shut down in order.                          *)
FailWithoutForce(w) ==
    /\ Reads(w, "TESTRESULT")
    /\ LET r == Result(w) IN
        /\ Failed(r) /\ ~opt.force
        /\ lastWorker' = r.worker
        /\ numFailed' = FailedSoFar(r)
        /\ completed' = [completed EXCEPT ![r.id] = Append(@, r)]
        /\ IF r.warned THEN Bye(w)
                       ELSE main' = "returned" /\ UNCHANGED toWorker
    /\ UNCHANGED <<opt, tests, nonParallel, running, numNdb, completedWid, childs, link, workers,
                   outcomes>>

TooManyFailed(w) ==
    /\ Reads(w, "TESTRESULT")
    /\ LET r == Result(w) IN
        /\ StopsAll(r)
        /\ lastWorker' = r.worker
        /\ numFailed' = FailedSoFar(r)
        /\ completed' = [completed EXCEPT ![r.id] = Append(@, r)]
    /\ main' = "aborted"
    /\ UNCHANGED <<opt, tests, nonParallel, running, numNdb, completedWid, childs, link, toWorker,
                   workers, outcomes>>

(* The result is one the suite goes on from.                               *)
GoesOn(w) ==
    /\ Reads(w, "TESTRESULT")
    /\ Failed(Result(w)) => opt.force
    /\ ~StopsAll(Result(w))
    /\ lastWorker' = Result(w).worker
    /\ numFailed' = FailedSoFar(Result(w))
    /\ UNCHANGED <<opt, childs, link, workers>>

RetryTest(w) ==
    /\ GoesOn(w)
    /\ LET r == Result(w) IN
        /\ Retries(r)
        /\ Give(w, [r EXCEPT !.result = "none", !.retries = NextRun(r) + 1])
    /\ UNCHANGED <<tests, nonParallel, running, completed, numNdb, completedWid, outcomes>>

RepeatTest(w) ==
    /\ GoesOn(w)
    /\ LET r == Result(w) IN
        /\ ~Retries(r) /\ Repeats(r)
        /\ Give(w, Anew(r))
        /\ outcomes' = [outcomes EXCEPT ![r.id] = <<>>]
    /\ UNCHANGED <<tests, nonParallel, running, completed, numNdb, completedWid>>

FinishTest(w) ==
    /\ GoesOn(w)
    /\ LET r == Result(w) IN
        /\ ~Retries(r) /\ ~Repeats(r)
        /\ IF r.id \in running
           THEN Schedule(w, r.worker, Back(r),
                         IF r.id \in opt.ndb_test THEN numNdb - 1 ELSE numNdb,
                         [completed EXCEPT ![r.id] = Append(@, r)])
           ELSE /\ main' = "internal_error"
                /\ UNCHANGED <<tests, nonParallel, running, completed, numNdb, completedWid,
                               toWorker>>
    /\ UNCHANGED outcomes

(* The timer of the whole suite, looked at once per turn of the loop.      *)
SuiteExpires ==
    /\ opt.timed
    /\ main = "serving"
    /\ main' = "aborted"
    /\ UNCHANGED <<opt, tests, nonParallel, running, completed, lastWorker, numNdb, numFailed,
                   completedWid, childs, link, sockets, workers, outcomes>>

(* After the loop the main program interrupts its children, waits for      *)
(* them, and ends: "completed" only if as many results as tests are there. *)
NumCompleted == Cardinality(UNION {{t} \X DOMAIN completed[t] : t \in Tests})

Reap ==
    /\ main \in {"returned", "aborted"}
    /\ \A w \in Workers : worker[w] = "gone"
    /\ main' = IF main = "returned" /\ NumCompleted = Cardinality(Tests)
               THEN "completed" ELSE "failed"
    /\ UNCHANGED <<opt, tests, nonParallel, running, completed, lastWorker, numNdb, numFailed,
                   completedWid, childs, link, sockets, workers, outcomes>>
-----------------------------------------------------------------------------
(* The workers.                                                            *)

Exits(w) == worker' = [worker EXCEPT ![w] = "gone"]

Connect(w) ==
    /\ worker[w] = "forked" /\ main = "serving"
    /\ worker' = [worker EXCEPT ![w] = "connected"]
    /\ link' = [link EXCEPT ![w] = "pending"]
    /\ UNCHANGED <<opt, main, tests, nonParallel, running, completed, lastWorker, numNdb, numFailed,
                   completedWid, childs, sockets, holds, errors, outcomes>>

(* The worker, in state "from", reads a line of the given type.            *)
Hears(w, from, type) ==
    /\ worker[w] = from
    /\ toWorker[w] # <<>>
    /\ Head(toWorker[w]).type = type
    /\ toWorker' = [toWorker EXCEPT ![w] = Tail(@)]

Greet(w) ==
    /\ Hears(w, "connected", "HELLO")
    /\ worker' = [worker EXCEPT ![w] = "waiting"]
    /\ toMaster' = [toMaster EXCEPT ![w] = Append(@, [type |-> "START"])]
    /\ UNCHANGED <<opt, master, holds, errors, outcomes>>

TakeTest(w) ==
    /\ Hears(w, "waiting", "TESTCASE")
    /\ LET t == Head(toWorker[w]).test IN
         holds' = [holds EXCEPT ![w] = <<[t EXCEPT !.worker = IF opt.parallel > 1 THEN w ELSE @]>>]
    /\ worker' = [worker EXCEPT ![w] = "running"]
    /\ UNCHANGED <<opt, master, toMaster, errors, outcomes>>

(* run_testcase comes to some end: a failure is counted in the test, and   *)
(* with valgrind it may ask that the servers be shut down in order.        *)
(* mutant: every failure asks for an orderly shutdown *)
Ran_AlwaysWarned(t, end) ==
    {[t EXCEPT !.result = end, !.failures = @ + (IF end = "failed" THEN 1 ELSE 0),
               !.warned = TRUE]}
Ran(t, end) ==
    IF end = "failed"
    THEN {[t EXCEPT !.result = end, !.failures = @ + 1, !.warned = @ \/ b] :
            b \in IF opt.valgrind THEN BOOLEAN ELSE {FALSE}}
    ELSE {[t EXCEPT !.result = end]}

RunTest(w) ==
    /\ worker[w] = "running"
    /\ \E end \in {"passed", "failed", "skipped"} : \E t \in Ran(holds[w][1], end) :
        /\ toMaster' = [toMaster EXCEPT ![w] = Append(@, [type |-> "TESTRESULT", test |-> t])]
        /\ outcomes' = [outcomes EXCEPT ![t.id] = Append(@, end)]
    /\ holds' = [holds EXCEPT ![w] = <<>>]
    /\ worker' = [worker EXCEPT ![w] = "waiting"]
    /\ UNCHANGED <<opt, master, toWorker, errors>>

(* "SPENT" comes when the times are to be reported.                        *)
TimesSpent == IF opt.report_times THEN <<[type |-> "SPENT"]>> ELSE <<>>

(* On BYE the worker stops its servers, may have valgrind reports to tell  *)
(* of, tells the times it spent if they are asked for, and exits.          *)
TakeBye(w) ==
    /\ Hears(w, "waiting", "BYE")
    /\ \E found \in IF opt.valgrind THEN {<<>>, <<[type |-> "VALGREP"]>>} ELSE {<<>>} :
         toMaster' = [toMaster EXCEPT ![w] = @ \o found \o TimesSpent]
    /\ Exits(w)
    /\ UNCHANGED <<opt, master, holds, errors, outcomes>>

(* A worker that leaves through mtr_error: it cannot connect, a wait       *)
(* fails, or a process it does not know has ended.                         *)
Error(w) ==
    /\ worker[w] # "gone"
    /\ errors < opt.errors
    /\ errors' = errors + 1
    /\ Exits(w)
    /\ UNCHANGED <<opt, master, sockets, holds, outcomes>>

(* The INT that the main program sends once its loop is over.              *)
(* mutant: no INT after an abort *)
Interrupted_NotOnAbort(w) ==
    /\ worker[w] # "gone"
    /\ main = "returned"
    /\ Exits(w)
    /\ UNCHANGED <<opt, master, sockets, holds, errors, outcomes>>
Interrupted(w) ==
    /\ worker[w] # "gone"
    /\ main \in {"returned", "aborted"}
    /\ Exits(w)
    /\ UNCHANGED <<opt, master, sockets, holds, errors, outcomes>>

(* The master is gone: no connection, or nothing left to read from it.     *)
Orphaned(w) ==
    /\ main \in {"killed", "internal_error"}
    /\ worker[w] = "forked" \/ (worker[w] \in {"connected", "waiting"} /\ toWorker[w] = <<>>)
    /\ Exits(w)
    /\ UNCHANGED <<opt, master, sockets, holds, errors, outcomes>>
-----------------------------------------------------------------------------
MasterReads(w) == \/ Accept(w) \/ Closed(w) \/ Notes(w)
                  \/ FailWithoutForce(w) \/ TooManyFailed(w)
                  \/ RetryTest(w) \/ RepeatTest(w) \/ FinishTest(w)

WorkerSteps(w) == \/ Connect(w) \/ Greet(w) \/ TakeTest(w) \/ RunTest(w) \/ TakeBye(w)
                  \/ Interrupted(w) \/ Orphaned(w)

(* main.pl has ended and so have its workers.                              *)
Ended == /\ main \in {"completed", "failed", "killed", "internal_error"}
         /\ \A w \in Workers : worker[w] = "gone"
         /\ UNCHANGED vars

Next == \/ \E w \in Workers : MasterReads(w) \/ WorkerSteps(w) \/ Error(w)
        \/ SuiteExpires \/ Reap \/ Ended

Spec == Init /\ [][Next]_vars

(* The master serves every socket that is ready in each turn of its loop,  *)
(* a worker goes on by itself (a test ends at the latest with its own      *)
(* timer), and a timer that runs expires.                                  *)
Fairness == /\ \A w \in Workers : WF_vars(MasterReads(w)) /\ WF_vars(WorkerSteps(w))
            /\ WF_vars(Reap)
            /\ WF_vars(SuiteExpires)

FairSpec == Spec /\ Fairness
-----------------------------------------------------------------------------
Travelling == [id : Tests, reserved : 0..opt.parallel, worker : 0..opt.parallel,
               result : {"none", "passed", "failed", "skipped"},
               failures : Nat, retries : Nat, repeat : Nat, warned : BOOLEAN]

(* Every variable of the master, the sockets and the workers has its type. *)
TypeOK ==
    /\ main \in {"serving", "returned", "aborted", "killed", "internal_error",
                 "completed", "failed"}
    /\ tests \in Seq(Travelling) /\ nonParallel \in Seq(Travelling)
    /\ running \subseteq Tests
    /\ completed \in [Tests -> Seq(Travelling)]
    /\ lastWorker \in 0..opt.parallel
    /\ numNdb \in Int /\ numFailed \in Nat
    /\ completedWid \in 0..opt.parallel /\ childs \in 0..opt.parallel
    /\ link \in [Workers -> {"none", "pending", "open", "closed"}]
    /\ worker \in [Workers -> {"forked", "connected", "waiting", "running", "gone"}]
    /\ \A w \in Workers :
        /\ toMaster[w] \in Seq([type : {"START", "SPENT", "VALGREP"}] \cup
                               [type : {"TESTRESULT"}, test : Travelling])
        /\ toWorker[w] \in Seq([type : {"HELLO", "BYE"}] \cup
                               [type : {"TESTCASE"}, test : Travelling])
        /\ holds[w] \in Seq(Travelling)
    /\ errors \in 0..opt.errors
    /\ outcomes \in [Tests -> Seq({"passed", "failed", "skipped"})]

(* Where a test is once it has been given out: on its way to a worker or   *)
(* left unread by it, with a worker, or on its way back.                   *)
Places(t) ==
    UNION {{<<w, "down", i>> : i \in {j \in DOMAIN toWorker[w] :
                toWorker[w][j].type = "TESTCASE" /\ toWorker[w][j].test.id = t}}
           \cup {<<w, "up", i>> : i \in {j \in DOMAIN toMaster[w] :
                toMaster[w][j].type = "TESTRESULT" /\ toMaster[w][j].test.id = t}}
           \cup {<<w, "held", i>> : i \in {j \in DOMAIN holds[w] : holds[w][j].id = t}}
           : w \in Workers}

(* While the master serves a suite run with --force, every test is in one  *)
(* place only: still in the list, set aside, completed once, or running,   *)
(* and a test the master thinks running has exactly one copy, which is at  *)
(* or on its way to or from one worker (run_test_server, lines 852-1140).  *)
Conserved ==
    main = "serving" /\ opt.force =>
        \A t \in Tests :
            /\ Cardinality({i \in DOMAIN tests : tests[i].id = t})
               + Cardinality({i \in DOMAIN nonParallel : nonParallel[i].id = t})
               + Len(completed[t]) + (IF t \in running THEN 1 ELSE 0) = 1
            /\ Cardinality(Places(t)) = IF t \in running THEN 1 ELSE 0

(* A test that sources not_parallel.inc never runs while any other test is *)
(* running: the last active worker runs such tests, one after the other.   *)
NonParallelAlone ==
    main = "serving" =>
        \A t \in running \cap opt.not_parallel : running = {t}

(* A completed test was run again exactly as long as the retry rules say:  *)
(* until it has never failed, has had --retry runs, or has failed          *)
(* --retry-failure times; and the result kept is that of its last run.     *)
Fails(o) == Cardinality({i \in DOMAIN o : o[i] = "failed"})
Settled(o) == \/ Fails(o) = 0 \/ Len(o) >= opt.retry \/ Fails(o) >= opt.retry_failure

RetryRule ==
    main # "aborted" /\ opt.force =>
        \A t \in Tests : \A i \in DOMAIN completed[t] :
            LET r == completed[t][i]
                o == outcomes[t]
            IN  IF o = <<>> THEN t \in opt.skip /\ r.result = "skipped"
                ELSE /\ r.result = o[Len(o)] /\ r.failures = Fails(o)
                     /\ main = "serving" => Settled(o)
                     /\ \A k \in 1 .. Len(o) - 1 : ~Settled(SubSeq(o, 1, k))

(* The suite does not go on once --max-test-fail tests have failed.        *)
FailLimit ==
    main = "serving" /\ opt.force /\ opt.max_test_fail > 0 =>
        Cardinality({t \in Tests \ opt.exp_fail : \E i \in DOMAIN completed[t] :
                        Failed(completed[t][i])}) < opt.max_test_fail

(* The final verdict is what it says: a suite reported as completed has    *)
(* exactly one result of every test, and no test is still marked running.  *)
HonestReport ==
    main = "completed" => /\ \A t \in Tests : Len(completed[t]) = 1
                          /\ opt.force => running = {}

(* An answer always belongs to a test the master knows to be running: the  *)
(* check it makes (line 1010) never ends the program.                      *)
AnswersKnown == main # "internal_error"

(* While no worker leaves on an error and a dismissed one has nothing more *)
(* to tell, the master never writes to a worker that has gone, and so is   *)
(* not ended by SIGPIPE.                                                   *)
MasterLives == errors = 0 /\ ~opt.report_times /\ ~opt.valgrind => main # "killed"

(* No test is lost or run twice between the master and its workers, and    *)
(* what the program reports in the end says so.                            *)
NothingLost == TypeOK /\ Conserved /\ HonestReport /\ AnswersKnown /\ MasterLives

(* Retries and failures are counted as --retry, --retry-failure and        *)
(* --max-test-fail limit them.                                             *)
Limits == RetryRule /\ FailLimit

(* Every test is given out once, taken back at most once, with the limits  *)
(* on ndb and non-parallel tests: the master is an MtrSuite.               *)
HasResult == {t \in Tests : completed[t] # <<>>}
Suite == INSTANCE MtrSuite WITH out <- running \ HasResult, done <- HasResult,
                                over <- main # "serving"
ImplementsSuite == Suite!Spec

(* Without --force no test is given out once a test has failed, unless     *)
(* valgrind keeps the suite going for its reports (lines 940-946).         *)
StopsOnFailure ==
    [][~opt.force /\ ~opt.valgrind
        /\ (\E t \in HasResult : Failed(completed[t][Len(completed[t])]))
        => running' \subseteq running]_vars

(* mysql-test-run.pl ends: whatever becomes of the workers, the master     *)
(* does not wait for ever and no worker stays behind.                      *)
Ends == opt.errors = 0 \/ opt.timed ~>
    main \in {"completed", "failed", "killed"} /\ \A w \in Workers : worker[w] = "gone"

(* With --force and no limit on failures every test of the suite gets a    *)
(* result, if no worker leaves on an error, the suite has the time and a   *)
(* dismissed worker has nothing more to tell.  Its SPENT or VALGREP line   *)
(* would count it once more (line 1022), and a test set aside for the last *)
(* worker might be written to one that has gone, and lost.                 *)
AllRun == /\ opt.force /\ opt.max_test_fail = 0 /\ opt.errors = 0 /\ ~opt.timed
          /\ ~opt.report_times /\ ~opt.valgrind
          ~> main = "completed"
=============================================================================
