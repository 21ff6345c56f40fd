--------------------------- MODULE MCMtrScheduler ---------------------------
(* Suites and options for TLC.                                             *)
EXTENDS MtrScheduler

CONSTANTS t1, t2, t3

Three == {t1, t2, t3}

(* Two workers, three tests, of which the last must run alone.             *)
Base == [list |-> <<t1, t2, t3>>, not_parallel |-> {t3}, ndb_test |-> {}, skip |-> {},
         exp_fail |-> {}, force_restart |-> {}, criteria |-> [t \in Three |-> "c"],
         parallel |-> 2, max_ndb |-> 1, reorder |-> TRUE, force |-> TRUE,
         retry |-> 1, retry_failure |-> 2, max_test_fail |-> 0, repeat |-> 1,
         valgrind |-> FALSE, report_times |-> FALSE, errors |-> 0, timed |-> FALSE]

(* Retries, a limit on failures, reserved tests of two configurations.     *)
Retrying == [Base EXCEPT !.retry = 3, !.max_test_fail = 2,
                         !.criteria = [t \in Three |-> IF t = t3 THEN "d" ELSE "c"]]

(* Retries without that limit.                                             *)
Patient == [Base EXCEPT !.retry = 2]

(* More workers than ndb tests may run, one of which must run alone.       *)
Cluster == [Base EXCEPT !.parallel = 3, !.ndb_test = {t1, t2, t3}]

(* One worker, repeats, valgrind, times reported, a test to skip and one   *)
(* expected to fail.                                                       *)
Serial == [Base EXCEPT !.parallel = 1, !.repeat = 2, !.retry = 3, !.max_test_fail = 2,
                       !.skip = {t2}, !.exp_fail = {t1}, !.valgrind = TRUE,
                       !.report_times = TRUE]

NoForce == [Base EXCEPT !.force = FALSE]

(* A worker may leave on an error, and the suite timer may expire.         *)
Failing == [Base EXCEPT !.errors = 1, !.timed = TRUE]

AllOptions == {Retrying, Patient, Cluster, Serial, NoForce, Failing}

(* Three workers whose times are reported.                                 *)
Times == {[Base EXCEPT !.parallel = 3, !.report_times = TRUE]}
=============================================================================
