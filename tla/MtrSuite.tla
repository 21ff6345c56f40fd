------------------------------ MODULE MtrSuite ------------------------------
(***************************************************************************)
(* What the master of mysql-test-run.pl promises about a suite, with the   *)
(* workers, the messages and the order of the list left out.  A test is    *)
(* waiting, out at a worker, or done.  One round of the master takes at    *)
(* most one test back, settles the tests it skips, and gives at most one   *)
(* test out; a test that must not run beside others is given out alone and *)
(* only when nothing but such tests is left.                               *)
(***************************************************************************)
EXTENDS Naturals, FiniteSets

VARIABLES opt,     \* the suite and the options, as in MtrScheduler
          out,     \* tests handed to a worker and not yet taken back
          done,    \* tests that have a final result
          over     \* the master has left its loop

vars == <<opt, out, done, over>>

Tests == {opt.list[i] : i \in DOMAIN opt.list}
Waiting == Tests \ (out \cup done)

Init == /\ out = {}
        /\ done = {}
        /\ over = FALSE

(* A test may be given out beside the tests in "beside".                   *)
MayRun(t, beside, settled) ==
    IF t \in opt.not_parallel
    THEN beside = {} /\ Tests \ settled \subseteq opt.not_parallel
    ELSE /\ beside \cap opt.not_parallel = {}
         /\ Cardinality(beside) < opt.parallel
         /\ t \in opt.ndb_test => Cardinality(beside \cap opt.ndb_test) < opt.max_ndb

Round ==
    /\ ~over
    /\ \E back \in {{}} \cup {{t} : t \in out}, skipped \in SUBSET (Waiting \cap opt.skip) :
         /\ done' = done \cup back \cup skipped
         /\ \/ out' = out \ back
            \/ \E t \in Waiting \ skipped :
                 /\ MayRun(t, out \ back, done')
                 /\ out' = (out \ back) \cup {t}
    /\ over' \in BOOLEAN
    /\ UNCHANGED opt

Spec == Init /\ [][Round]_vars
=============================================================================
