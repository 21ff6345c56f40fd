----------------------------- MODULE MtrServers -----------------------------
(***************************************************************************)
(* One worker of mysql-test-run.pl: the servers it keeps from test to test *)
(* and the loop that waits for one test (run_testcase and what it calls).  *)
(*                                                                         *)
(* Between two tests the worker decides which servers to stop, whether     *)
(* their data must be initialised again, and starts what is not running.   *)
(* While a test runs it collects processes that exit.  A server with an    *)
(* .expect file has died as expected: it is started again once the file    *)
(* says so and waits in a queue until then.                                *)
(*                                                                         *)
(* Environment: the test program (writes .expect files, exits), servers    *)
(* that die, and the timer of the test.  Options, time zones and templates *)
(* are names; NDB clusters, secondary engines, debuggers and servers of    *)
(* another version are left out.                                           *)
(***************************************************************************)
EXTENDS Naturals, Sequences, SequencesExt

CONSTANTS NumServers,   \* mysqld.1 .. mysqld.NumServers in all templates
          Slaves,       \* those with #!use-slave-opt
          Template,     \* [name -> the servers of that template]
          Tests,        \* what the worker may be told to run
          Extra,        \* options of a "restart:" line
          None,
          MaxDeaths     \* bound: servers that die, per test

Server == 1 .. NumServers
MySqlTest == 0                  \* the process of the test program
Timer == NumServers + 1         \* what wait_any_timeout returns on expiry
Roles == {"master", "slave"}

ASSUME MtrServersAssumption ==
    /\ NumServers \in Nat /\ Slaves \subseteq Server /\ MaxDeaths \in Nat
    /\ \A c \in DOMAIN Template : Template[c] \subseteq Server
    /\ \A t \in Tests : t.template \in DOMAIN Template

VARIABLES config,    \* $current_config_name, None before the first test
          srv,       \* the mysqld objects of $config
          data,      \* the data directories: how they were initialised
          expect,    \* the .expect files in var/tmp
          failed,    \* $test_fail is MTR_RES_FAILED
          pc, test,  \* where the worker is, and its test
          prog, res, \* the test program and its exit code
          timer,     \* $test_timeout
          waiting,   \* @waiting_procs
          got,       \* <<$proc>>, <<>> if undefined
          deaths, verdict

worker == <<config, srv, data, expect, failed>>
running == <<prog, res, timer, waiting, got>>
vars == <<worker, pc, test, running, deaths, verdict>>

Servers == IF config = None THEN {} ELSE Template[config]

(* A mysqld object of a new $config knows nothing of its predecessor.      *)
(* "runs" is what the process was really started with.                     *)
Fresh == [proc |-> "none", runs |-> <<>>, opts |-> None, tz |-> None,
          restart |-> None, save |-> None, need |-> "undef", services |-> FALSE]

Init == /\ config = None /\ failed = FALSE
        /\ srv = [s \in Server |-> Fresh]
        /\ data = [s \in Server |-> "absent"]
        /\ expect = [s \in Server |-> "none"]
        /\ pc = "next" /\ test = None /\ verdict = "none" /\ deaths = 0
        /\ prog = "none" /\ res = "none" /\ timer = "off"
        /\ waiting = <<>> /\ got = <<>>
-----------------------------------------------------------------------------
(* Bootstrap options also go in front of the options of the server.        *)
Role(s) == IF s \in Slaves THEN "slave" ELSE "master"
Boot(t, s) == t.boot[Role(s)]
Opts(t, s) == <<Boot(t, s), t.opts[Role(s)]>>

(* Whether one server must be initialised again, and the answer for all:   *)
(* a replication test stops at the first server that must.                 *)
NeedReinit(t, s) ==
    IF Boot(t, s) = None THEN "undef"
    ELSE IF srv[s].save # Boot(t, s) \/ failed THEN "yes" ELSE "no"
Examined(t) ==
    {s \in Servers : t.rpl_test => \A r \in Servers : r < s => NeedReinit(t, r) # "yes"}
ServersNeedReinit(t) ==
    LET needs == {NeedReinit(t, s) : s \in Examined(t)}
    IN  IF "yes" \in needs THEN "yes" ELSE IF "no" \in needs THEN "no" ELSE "undef"

(* Mutant: restart_opts are not looked at.                                 *)
NeedRestart_Forgets(t, s) ==
    \/ t.force_restart \/ t.template # config
    \/ srv[s].proc = "none" \/ srv[s].tz # t.tz \/ srv[s].opts # Opts(t, s)
NeedRestart(t, s) ==
    \/ t.force_restart \/ t.template # config
    \/ srv[s].proc = "none"
    \/ srv[s].tz # t.tz
    \/ srv[s].opts # Opts(t, s) \/ srv[s].restart # None
Restarts(t) ==
    LET needing == {s \in Servers : NeedRestart(t, s)}
    IN  IF needing \subseteq Slaves THEN needing ELSE needing \cup (Servers \cap Slaves)

Stopped(m) == [m EXCEPT !.proc = "none", !.runs = <<>>, !.opts = None,
                        !.tz = None, !.restart = None]
StopServers(t) ==
    [s \in Server |->
        LET m == IF s \in Examined(t) THEN [srv[s] EXCEPT !.need = NeedReinit(t, s)] ELSE srv[s]
        IN  IF s \in Restarts(t) THEN Stopped(m) ELSE m]

(* clean_datadir: the services of every server are stopped, its data go    *)
(* unless bootstrap options are concerned.                                 *)
Cleaned(t, m) ==
    [s \in Server |-> IF s \in Servers /\ m[s].need # "yes" /\ Boot(t, s) = None
                      THEN "absent" ELSE data[s]]

(* The flag every server of a new $config gets.                            *)
NewNeed(t) ==
    IF ServersNeedReinit(t) = "undef" /\ \E r \in Roles : t.boot[r] # None
    THEN "yes" ELSE ServersNeedReinit(t)

NextTest(t) ==
    /\ pc = "next"
    /\ LET m == StopServers(t)
       IN  IF \A s \in Servers : m[s].proc = "none"
           THEN /\ config' = t.template
                /\ srv' = [s \in Server |-> [Fresh EXCEPT !.need = NewNeed(t)]]
                /\ data' = Cleaned(t, m)
                /\ expect' = [s \in Server |-> "none"]
           ELSE srv' = m /\ UNCHANGED <<config, data, expect>>
    /\ pc' = "start" /\ test' = t /\ verdict' = "none"
    /\ UNCHANGED <<failed, running, deaths>>
-----------------------------------------------------------------------------
(* start_servers: the installed data are copied, or kept, or made anew     *)
(* with the bootstrap options; the services start with the first and last. *)
Copies(s) == data[s] = "absent" \/ (Boot(test, s) = None /\ srv[s].need # "yes")
Starting == {s \in Servers : srv[s].proc = "none"}

(* mysqld_start with the options of this start and those of a "restart:".  *)
Launch(m, s, opts) ==
    [m EXCEPT !.proc = "up", !.opts = opts, !.save = Boot(test, s),
              !.runs = <<opts, m.restart, test.tz>>]

StartServers ==
    /\ pc = "start" /\ pc' = "ready"
    /\ srv' = [s \in Server |->
          IF s \notin Starting THEN srv[s]
          ELSE [Launch(srv[s], s, Opts(test, s)) EXCEPT !.tz = test.tz,
                  !.services = srv[s].services \/ Copies(s) \/ srv[s].need = "yes"]]
    /\ data' = [s \in Server |->
          IF s \notin Starting THEN data[s]
          ELSE IF srv[s].need = "yes" THEN Boot(test, s)
          ELSE IF Copies(s) THEN None ELSE data[s]]
    /\ UNCHANGED <<config, expect, failed, test, running, deaths, verdict>>

StopAll == srv' = [s \in Server |->
                     IF s \in Servers THEN [srv[s] EXCEPT !.proc = "none", !.runs = <<>>] ELSE srv[s]]

Report(v) ==
    /\ verdict' = v /\ pc' = "next" /\ test' = None /\ deaths' = 0
    /\ prog' = "none" /\ res' = "none" /\ timer' = "off"
    /\ waiting' = <<>> /\ got' = <<>>
    /\ UNCHANGED <<config, expect>>

(* report_failure_and_restart: the data are moved away for inspection.     *)
ReportFailure ==
    /\ StopAll /\ failed' = TRUE
    /\ data' = [s \in Server |-> IF s \in Servers THEN "absent" ELSE data[s]]
    /\ Report("failed")

(* check_testcase passes over servers restarted with other options; it     *)
(* cannot be run against a server that has died.                           *)
Checked == {s \in Servers : srv[s].proc # "none" /\ srv[s].restart = None}
(* Mutant: only servers that still run are checked.                        *)
CheckResults_Living ==
    IF \A s \in Checked : srv[s].proc # "up" THEN {"same"} ELSE {"same", "changed", "fatal"}
CheckResults ==
    IF Checked = {} THEN {"same"}
    ELSE IF \E s \in Checked : srv[s].proc # "up" THEN {"fatal"}
    ELSE {"same", "changed", "fatal"}

(* A server does not come up in time, or the state of the servers cannot   *)
(* be recorded before the test.                                            *)
CannotBegin == pc = "ready" /\ ReportFailure

StartMysqltest ==
    /\ pc = "ready" /\ pc' = "run"
    /\ CheckResults # {"fatal"}
    /\ prog' = "running" /\ timer' = "on"
    /\ UNCHANGED <<worker, test, res, waiting, got, deaths, verdict>>
-----------------------------------------------------------------------------
(* What happens around the worker.  A test program creates an .expect file *)
(* empty or with "wait" and may later add a line that allows the restart.  *)
Writes(s) ==
    /\ prog = "running"
    /\ \/ expect[s] = "none" /\ expect' = [expect EXCEPT ![s] = "wait"]
       \/ /\ expect[s] = "wait"
          /\ \E says \in {"restart", "options"} : expect' = [expect EXCEPT ![s] = says]
    /\ UNCHANGED <<config, srv, data, failed, pc, test, running, deaths, verdict>>

(* A death before the servers are started is one the worker notices no     *)
(* sooner than one after it.                                               *)
Dies(s) ==
    /\ pc \in {"ready", "run"} /\ s \in Servers /\ srv[s].proc = "up" /\ deaths < MaxDeaths
    /\ srv' = [srv EXCEPT ![s].proc = "dead"]
    /\ deaths' = deaths + 1
    /\ UNCHANGED <<config, data, expect, failed, pc, test, running, verdict>>

Exits ==
    /\ prog = "running" /\ prog' = "exited"
    /\ res' \in {"passed", "failed", "skipped", "crashed"}
    /\ UNCHANGED <<worker, pc, test, timer, waiting, got, deaths, verdict>>

Expires ==
    /\ timer = "on" /\ timer' = "expired"
    /\ UNCHANGED <<worker, pc, test, prog, res, waiting, got, deaths, verdict>>
-----------------------------------------------------------------------------
(* The loop of run_testcase.  A process is reported once, by check_any or  *)
(* wait_any_timeout.                                                       *)
Unreported == {s \in Server : srv[s].proc = "dead"}
              \cup {p \in {MySqlTest} : prog = "exited"}
Collect(p) ==
    /\ prog' = IF p = MySqlTest THEN "seen" ELSE prog
    /\ srv' = [s \in Server |-> IF s = p THEN [srv[s] EXCEPT !.proc = "gone"] ELSE srv[s]]

(* pop @waiting_procs, after an unshift of what has just exited.           *)
Pop(queue) == got' = <<Last(queue)>> /\ waiting' = Front(queue)

Looks == pc = "run" /\ got = <<>>
LoopUnchanged == UNCHANGED <<config, data, expect, failed, pc, test, res, timer, deaths, verdict>>

(* Mutant: the process that has just exited is not put in the queue.       *)
TakeTurns_Drops ==
    /\ Looks /\ waiting # <<>>
    /\ \E p \in Unreported : Collect(p) /\ Pop(waiting)
    /\ LoopUnchanged
TakeTurns ==
    /\ Looks /\ waiting # <<>>
    /\ \E p \in Unreported : Collect(p) /\ Pop(<<p>> \o waiting)
    /\ LoopUnchanged

(* Mutant: the timer is not looked at while servers are waited for.        *)
Recheck_NoTimer ==
    /\ Looks /\ waiting # <<>> /\ Unreported = {}
    /\ Pop(waiting)
    /\ LoopUnchanged /\ UNCHANGED <<srv, prog>>
Recheck ==
    /\ Looks /\ waiting # <<>> /\ Unreported = {}
    /\ timer # "expired"
    /\ Pop(waiting)
    /\ LoopUnchanged /\ UNCHANGED <<srv, prog>>

CancelWaiting ==
    /\ Looks /\ waiting # <<>> /\ Unreported = {}
    /\ timer = "expired"
    /\ waiting' = <<>>
    /\ LoopUnchanged /\ UNCHANGED <<srv, prog, got>>

WaitAny ==
    /\ Looks /\ waiting = <<>>
    /\ \/ \E p \in Unreported : Collect(p) /\ got' = <<p>>
       \/ timer = "expired" /\ got' = <<Timer>> /\ UNCHANGED <<srv, prog>>
    /\ LoopUnchanged /\ UNCHANGED waiting

(* check_expected_crash_and_restart for the server taken: up to fifty      *)
(* looks, of which only the one that decides matters.                      *)
Restart(s) ==
    /\ got = <<s>> /\ expect[s] \in {"restart", "options"}
    /\ LET m == [srv[s] EXCEPT !.restart = IF expect[s] = "options" THEN Extra ELSE None]
       IN  srv' = [srv EXCEPT ![s] = Launch(m, s, m.opts)]
    /\ expect' = [expect EXCEPT ![s] = "none"]
    /\ got' = <<>>
    /\ UNCHANGED <<config, data, failed, pc, test, prog, res, timer, waiting, deaths, verdict>>

(* Mutant: the server goes to the end that is popped next.                 *)
KeepWaiting_Push(s) ==
    /\ got = <<s>> /\ expect[s] = "wait"
    /\ waiting' = waiting \o <<s>> /\ got' = <<>>
    /\ UNCHANGED <<worker, pc, test, prog, res, timer, deaths, verdict>>
KeepWaiting(s) ==
    /\ got = <<s>> /\ expect[s] = "wait"
    /\ waiting' = <<s>> \o waiting /\ got' = <<>>
    /\ UNCHANGED <<worker, pc, test, prog, res, timer, deaths, verdict>>

(* SRVDIED: no .expect file.                                               *)
ServerFailed(s) == got = <<s>> /\ expect[s] = "none" /\ ReportFailure

TimedOut == got = <<Timer>> /\ ReportFailure

(* The test program has exited.  Unexpected warnings or a missing result   *)
(* file turn its success into a failure, and so does a check that finds    *)
(* other databases than before; "forced" are the force_restart files.      *)
TestOver ==
    /\ got = <<MySqlTest>>
    /\ \E found \in {res} \cup {r \in {"failed"} : res \in {"passed", "skipped"}},
          forced \in BOOLEAN :
       \E check \in IF found \in {"passed", "skipped"} /\ ~forced
                    THEN CheckResults ELSE {"none"} :
          LET result == IF check = "changed" THEN "failed" ELSE found
          IN  \/ /\ result = "passed" /\ check # "fatal"
                 /\ IF forced THEN StopAll ELSE UNCHANGED srv
                 /\ Report("passed") /\ UNCHANGED <<data, failed>>
              \/ /\ result = "skipped"
                 /\ StopAll \/ (~forced /\ UNCHANGED srv)
                 /\ Report("skipped") /\ UNCHANGED <<data, failed>>
              \/ /\ result \in {"failed", "crashed"} \/ (result = "passed" /\ check = "fatal")
                 /\ ReportFailure

ServerDown == \E s \in Server : Restart(s) \/ KeepWaiting(s) \/ ServerFailed(s)
Loop == TakeTurns \/ Recheck \/ CancelWaiting \/ WaitAny
Worker == StartServers \/ StartMysqltest \/ CannotBegin \/ Loop \/ ServerDown
          \/ TimedOut \/ TestOver
Environment == (\E s \in Server : Writes(s) \/ Dies(s)) \/ Exits \/ Expires

Next == (\E t \in Tests : NextTest(t)) \/ Worker \/ Environment

(* The worker is a program that runs; nothing is assumed of the rest.      *)
Spec == Init /\ [][Next]_vars /\ WF_vars(Worker)
-----------------------------------------------------------------------------
File == {"none", "wait", "restart", "options"}

TypeOK ==
    /\ config \in DOMAIN Template \cup {None}
    /\ \A s \in Server :
        /\ srv[s].proc \in {"none", "up", "dead", "gone"}
        /\ srv[s].restart \in {None, Extra}
        /\ srv[s].need \in {"undef", "no", "yes"}
        /\ srv[s].services \in BOOLEAN
    /\ expect \in [Server -> File]
    /\ waiting \in Seq(Server \cup {MySqlTest})
    /\ got \in {<<>>} \cup {<<p>> : p \in 0 .. Timer}
    /\ deaths \in 0 .. MaxDeaths

(* A test never runs on a server that an earlier test left behind: when    *)
(* the servers have been started, each of the test's template is there and *)
(* was started with the options, the time zone and the template the test   *)
(* asks for, none of a "restart:" line.  Those that had to be started are  *)
(* on data initialised with their bootstrap options, unless the server of  *)
(* that number, or another, had been started with the same ones; or unless *)
(* the test is one of replication and nobody looked at this server, since  *)
(* one before it had to be initialised: its flag is that of another test   *)
(* (lines 6321-6500, 6563-6598, 6605-6953).                                *)
LookedAt(s) == test.rpl_test => \A r \in Servers : r < s => srv[r].need # "yes"
StartsRight ==
    [][pc = "start" /\ pc' = "ready" =>
         /\ config = test.template
         /\ \A s \in Servers :
             /\ srv'[s].proc # "none"
             /\ srv'[s].runs = <<Opts(test, s), None, test.tz>>
             /\ s \in Starting /\ LookedAt(s) /\ srv[s].need # "no"
                => data'[s] = Boot(test, s)]_vars

(* No exit is lost: a process that has been reported to the worker is in   *)
(* the queue, once, or in hand, until the timer of the test has expired    *)
(* (lines 4725-4746).                                                      *)
Reported == {s \in Server : srv[s].proc = "gone"} \cup {p \in {MySqlTest} : prog = "seen"}
NotForgotten ==
    LET held == got \o waiting
    IN  pc = "run" => /\ IsInjective(held)
                      /\ Range(held) \subseteq Reported \cup {Timer}
                      /\ timer # "expired" => Reported \subseteq Range(held)

QueueSound == TypeOK /\ NotForgotten

(* A test is reported as passed only if its program said so and if every   *)
(* server was running at that time, but for servers the test has restarted *)
(* with other options and tests that force a restart; otherwise a test     *)
(* during which a server was lost is not blamed on the next one            *)
(* (lines 4785-4909, 4119-4228).                                           *)
HonestVerdict ==
    [][pc = "run" /\ pc' = "next" /\ verdict' = "passed" =>
         /\ got = <<MySqlTest>> /\ res = "passed"
         /\ \/ \A s \in Servers : srv'[s].proc = "none"
            \/ \A s \in Servers : srv[s].proc = "up" \/ srv[s].restart # None]_vars

(* A server that has died and whose .expect file says restart is started   *)
(* again, unless the test ends first: the queue is served in turn, "done   *)
(* to avoid starvation" (line 4732), even if the timer never expires.      *)
Restarted ==
    \A s \in Server :
        (pc = "run" /\ srv[s].proc # "up" /\ s \in Servers /\ expect[s] \in {"restart", "options"})
        ~> (srv[s].proc = "up" \/ pc # "run")

(* A test comes to an end if a timer that runs expires, even if its        *)
(* program does not and a server that died is never to be restarted.       *)
TestEnds == []<>(timer # "on") => (pc # "next" ~> pc = "next")

(* A mysqld is started only beside the storage services it works with.     *)
ServicesUp == \A s \in Servers : srv[s].proc = "up" => srv[s].services
=============================================================================
