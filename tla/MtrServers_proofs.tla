-------------------------- MODULE MtrServers_proofs --------------------------
(***************************************************************************)
(* For any number of servers, any templates and any tests: a test starts   *)
(* on the servers it asks for, no exit of a process is lost, and a test is *)
(* reported as passed only if it was.                                      *)
(*                                                                         *)
(* What a mysqld object says of its process is true as long as there is    *)
(* one; that lets the decision to keep a server, taken on the object, say  *)
(* something of the process.  The queue and the process in hand are those  *)
(* that were reported, whatever order they are in.                         *)
(***************************************************************************)
EXTENDS MtrServers, TLAPS, WellFoundedInduction

Reset == {None, Extra}
Boots == {Boot(t, s) : t \in Tests, s \in Server} \cup {None}
AllOpts == {Opts(t, s) : t \in Tests, s \in Server} \cup {None}
Zones == {t.tz : t \in Tests} \cup {None}
Flags == {"undef", "no", "yes"}
Runs == {<<>>} \cup {<<o, r, z>> : o \in AllOpts, r \in Reset, z \in Zones}
Mysqld == [proc : {"none", "up", "dead", "gone"}, runs : Runs, opts : AllOpts, tz : Zones,
           restart : Reset, save : Boots, need : Flags, services : BOOLEAN]
Process == Server \cup {MySqlTest}

\* The inductive invariant.
Typed ==
    /\ config \in DOMAIN Template \cup {None}
    /\ srv \in [Server -> Mysqld]
    /\ expect \in [Server -> File]
    /\ pc \in {"next", "start", "ready", "run"}
    /\ pc # "next" => test \in Tests
    /\ waiting \in Seq(Process)
    /\ got \in {<<>>} \cup {<<p>> : p \in 0 .. Timer}
    /\ deaths \in 0 .. MaxDeaths

\* There is a test program, a timer and a queue only while a test runs, and
\* processes only of the servers of the template.
Idle ==
    /\ pc # "run" => prog = "none" /\ waiting = <<>> /\ got = <<>>
    /\ \A s \in Server \ Servers : srv[s].proc = "none"

\* What the object says of a process is what it was started with.
Faithful ==
    \A s \in Server : srv[s].proc # "none" =>
        srv[s].runs = <<srv[s].opts, srv[s].restart, srv[s].tz>>

\* The servers that exist, from the time the worker has decided which to keep.
Asked ==
    pc # "next" =>
        /\ config = test.template
        /\ \A s \in Servers : srv[s].proc # "none" =>
              srv[s].opts = Opts(test, s) /\ srv[s].tz = test.tz

Decided ==
    pc = "start" => \A s \in Servers :
        /\ srv[s].restart = None
        /\ srv[s].need = "undef" /\ LookedAt(s) => Boot(test, s) = None

AllStarted ==
    /\ pc = "ready" => \A s \in Servers : srv[s].proc # "none" /\ srv[s].restart = None
    /\ pc = "run" => \A s \in Servers : srv[s].proc # "none"

IInv == Typed /\ Idle /\ Faithful /\ Asked /\ Decided /\ AllStarted /\ NotForgotten
-----------------------------------------------------------------------------
(* Queues.                                                                 *)
LEMMA Nothing ==
    /\ Range(<<>>) = {} /\ IsInjective(<<>>)
    /\ \A S : \A q \in Seq(S) : <<>> \o q = q /\ q \o <<>> = q
  BY DEF Range, IsInjective

LEMMA Single ==
    ASSUME NEW p
    PROVE  Range(<<p>>) = {p} /\ IsInjective(<<p>>)
  <1>1. DOMAIN <<p>> = {1} /\ <<p>>[1] = p
    OBVIOUS
  <1> QED  BY <1>1 DEF Range, IsInjective

\* A process put in front of a queue.
LEMMA Consed ==
    ASSUME NEW S, NEW p \in S, NEW q \in Seq(S)
    PROVE  /\ <<p>> \o q \in Seq(S)
           /\ Range(<<p>> \o q) = {p} \cup Range(q)
           /\ IsInjective(<<p>> \o q) <=> IsInjective(q) /\ p \notin Range(q)
  <1> DEFINE r == <<p>> \o q
  <1>1. /\ r \in Seq(S) /\ Len(r) = Len(q) + 1 /\ Len(q) \in Nat
        /\ r[1] = p /\ \A i \in 1 .. Len(q) : r[i + 1] = q[i]
    OBVIOUS
  <1>2. DOMAIN r = 1 .. Len(q) + 1 /\ DOMAIN q = 1 .. Len(q)
    BY <1>1
  <1>3. \A j \in 2 .. Len(q) + 1 : j - 1 \in 1 .. Len(q) /\ r[j] = q[j - 1]
    BY <1>1
  <1>4. \A j \in DOMAIN r : j = 1 \/ j \in 2 .. Len(q) + 1
    BY <1>1, <1>2
  <1>5. 1 \in DOMAIN r /\ \A i \in 1 .. Len(q) : i + 1 \in DOMAIN r /\ i + 1 # 1
    BY <1>1, <1>2
  <1> HIDE DEF r
  <1>6. Range(r) = {p} \cup Range(q)
    <2>1. \A j \in DOMAIN r : r[j] \in {p} \cup Range(q)
      BY <1>1, <1>2, <1>3, <1>4 DEF Range
    <2>2. p \in Range(r) /\ \A i \in DOMAIN q : q[i] \in Range(r)
      BY <1>1, <1>2, <1>5 DEF Range
    <2> QED  BY <2>1, <2>2 DEF Range
  <1>7. ASSUME IsInjective(r) PROVE IsInjective(q) /\ p \notin Range(q)
    <2>1. ASSUME NEW a \in DOMAIN q, NEW b \in DOMAIN q, q[a] = q[b] PROVE a = b
      <3>1. a + 1 = b + 1
        BY <2>1, <1>1, <1>2, <1>5, <1>7 DEF IsInjective
      <3> QED  BY <3>1, <1>2, <1>1
    <2>2. ASSUME NEW a \in DOMAIN q, q[a] = p PROVE FALSE
      BY <2>2, <1>1, <1>2, <1>5, <1>7 DEF IsInjective
    <2> QED  BY <2>1, <2>2 DEF IsInjective, Range
  <1>8. ASSUME IsInjective(q), p \notin Range(q) PROVE IsInjective(r)
    <2> SUFFICES ASSUME NEW a \in DOMAIN r, NEW b \in DOMAIN r, r[a] = r[b] PROVE a = b
      BY DEF IsInjective
    <2>1. \A j \in 2 .. Len(q) + 1 : r[j] # p
      BY <1>2, <1>3, <1>8 DEF Range
    <2>2. CASE a = 1 \/ b = 1
      BY <2>1, <2>2, <1>1, <1>4
    <2>3. CASE a \in 2 .. Len(q) + 1 /\ b \in 2 .. Len(q) + 1
      <3>1. a - 1 = b - 1
        BY <2>3, <1>2, <1>3, <1>8 DEF IsInjective
      <3> QED  BY <3>1, <2>3, <1>1
    <2> QED  BY <2>2, <2>3, <1>4
  <1> QED  BY <1>1, <1>6, <1>7, <1>8 DEF r

\* pop takes the last one out; with it in hand, nothing is gained or lost.
LEMMA Popped ==
    ASSUME NEW S, NEW q \in Seq(S), q # <<>>
    PROVE  /\ Last(q) \in S /\ Front(q) \in Seq(S)
           /\ Range(<<Last(q)>> \o Front(q)) = Range(q)
           /\ IsInjective(q) => IsInjective(<<Last(q)>> \o Front(q))
  <1> DEFINE n == Len(q)
             f == Front(q)
  <1>1. n \in Nat \ {0} /\ DOMAIN q = 1 .. n /\ \A i \in 1 .. n : q[i] \in S
    OBVIOUS
  <1>2. f \in Seq(S) /\ Len(f) = n - 1 /\ \A i \in 1 .. n - 1 : f[i] = q[i]
    BY <1>1 DEF Front
  <1>3. Last(q) = q[n] /\ Last(q) \in S
    BY <1>1 DEF Last
  <1>4. DOMAIN f = 1 .. n - 1
    BY <1>1, <1>2
  <1>5. 1 .. n = {n} \cup (1 .. n - 1) /\ n \notin 1 .. n - 1
    BY <1>1
  <1> HIDE DEF n, f
  <1>6. Range(q) = {Last(q)} \cup Range(f)
    BY <1>1, <1>2, <1>3, <1>4, <1>5 DEF Range
  <1>7. ASSUME IsInjective(q) PROVE IsInjective(f) /\ Last(q) \notin Range(f)
    <2>1. IsInjective(f)
      BY <1>1, <1>2, <1>4, <1>5, <1>7 DEF IsInjective
    <2>2. ASSUME NEW a \in DOMAIN f, f[a] = Last(q) PROVE FALSE
      BY <2>2, <1>1, <1>2, <1>3, <1>4, <1>5, <1>7 DEF IsInjective
    <2> QED  BY <2>1, <2>2 DEF Range
  <1>8. /\ Range(<<Last(q)>> \o f) = {Last(q)} \cup Range(f)
        /\ IsInjective(<<Last(q)>> \o f) <=> IsInjective(f) /\ Last(q) \notin Range(f)
    BY <1>2, <1>3, Consed
  <1> QED  BY <1>2, <1>3, <1>6, <1>7, <1>8 DEF f

-----------------------------------------------------------------------------
(* Names and objects.                                                      *)
LEMMA Names ==
    /\ Server \subseteq Nat /\ Process \subseteq 0 .. Timer
    /\ MySqlTest \notin Server /\ Timer \notin Process /\ Timer \in 0 .. Timer
    /\ MySqlTest \in Process /\ Server \subseteq Process
  BY MtrServersAssumption DEF Server, Process, MySqlTest, Timer

LEMMA ServersExist ==
    ASSUME Typed
    PROVE  Servers \subseteq Server
  BY MtrServersAssumption DEF Typed, Servers

LEMMA Asks ==
    ASSUME NEW t \in Tests, NEW s \in Server
    PROVE  Boot(t, s) \in Boots /\ Opts(t, s) \in AllOpts /\ t.tz \in Zones
  BY DEF Boots, AllOpts, Zones

LEMMA Unasked ==
    /\ None \in Boots /\ None \in AllOpts /\ None \in Zones /\ None \in Reset
    /\ <<>> \in Runs
  BY DEF Boots, AllOpts, Zones, Reset, Runs

LEMMA Fields ==
    ASSUME NEW m \in Mysqld
    PROVE  /\ m.proc \in {"none", "up", "dead", "gone"} /\ m.opts \in AllOpts
           /\ m.tz \in Zones /\ m.restart \in Reset /\ m.save \in Boots
           /\ m.need \in Flags /\ m.services \in BOOLEAN
  BY DEF Mysqld

LEMMA FreshObject ==
    ASSUME NEW flag \in Flags
    PROVE  LET m == [Fresh EXCEPT !.need = flag]
           IN  m \in Mysqld /\ m.proc = "none" /\ m.restart = None /\ m.need = flag
  BY Unasked DEF Fresh, Mysqld, Flags

LEMMA StoppedObject ==
    ASSUME NEW m \in Mysqld
    PROVE  /\ Stopped(m) \in Mysqld
           /\ Stopped(m).proc = "none" /\ Stopped(m).restart = None /\ Stopped(m).need = m.need
  BY Unasked DEF Stopped, Mysqld

LEMMA FlaggedObject ==
    ASSUME NEW m \in Mysqld, NEW flag \in Flags
    PROVE  LET n == [m EXCEPT !.need = flag]
           IN  /\ n \in Mysqld /\ n.need = flag /\ n.proc = m.proc /\ n.runs = m.runs
               /\ n.opts = m.opts /\ n.tz = m.tz /\ n.restart = m.restart
  BY DEF Mysqld

LEMMA KilledObject ==
    ASSUME NEW m \in Mysqld
    PROVE  LET n == [m EXCEPT !.proc = "none", !.runs = <<>>]
           IN  n \in Mysqld /\ n.proc = "none"
  BY Unasked DEF Mysqld

LEMMA DeadObject ==
    ASSUME NEW m \in Mysqld, NEW p \in {"dead", "gone"}
    PROVE  LET n == [m EXCEPT !.proc = p]
           IN  /\ n \in Mysqld /\ n.proc = p /\ n.runs = m.runs /\ n.opts = m.opts
               /\ n.tz = m.tz /\ n.restart = m.restart
  BY DEF Mysqld

LEMMA ResetObject ==
    ASSUME NEW m \in Mysqld, NEW r \in Reset
    PROVE  LET n == [m EXCEPT !.restart = r]
           IN  n \in Mysqld /\ n.opts = m.opts /\ n.tz = m.tz /\ n.restart = r
  BY DEF Mysqld

LEMMA LaunchedObject ==
    ASSUME NEW m \in Mysqld, NEW s \in Server, NEW opts \in AllOpts, test \in Tests
    PROVE  LET n == Launch(m, s, opts)
           IN  /\ n \in Mysqld /\ n.proc = "up" /\ n.opts = opts /\ n.tz = m.tz
               /\ n.restart = m.restart /\ n.runs = <<opts, m.restart, test.tz>>
  <1> DEFINE runs == <<opts, m.restart, test.tz>>
  <1>1. runs \in Runs
    BY Fields, Asks DEF Runs
  <1>2. Boot(test, s) \in Boots
    BY Asks
  <1> HIDE DEF runs
  <1>3. LET n == [m EXCEPT !.proc = "up", !.opts = opts, !.save = Boot(test, s), !.runs = runs]
        IN  /\ n \in Mysqld /\ n.proc = "up" /\ n.opts = opts /\ n.tz = m.tz
            /\ n.restart = m.restart /\ n.runs = runs
    BY <1>1, <1>2 DEF Mysqld
  <1> QED  BY <1>3 DEF Launch, runs

\* The object m of a server that is started.
Started(m, zone, services) == [m EXCEPT !.tz = zone, !.services = services]

LEMMA StartedObject ==
    ASSUME NEW m \in Mysqld, NEW zone \in Zones, NEW services \in BOOLEAN
    PROVE  LET n == Started(m, zone, services)
           IN  /\ n \in Mysqld /\ n.proc = m.proc /\ n.opts = m.opts /\ n.tz = zone
               /\ n.restart = m.restart /\ n.runs = m.runs
  BY DEF Mysqld, Started

-----------------------------------------------------------------------------
(* The decision between two tests.                                         *)
LEMMA FlagOfOne ==
    ASSUME NEW t, NEW s
    PROVE  /\ NeedReinit(t, s) \in Flags
           /\ NeedReinit(t, s) = "undef" => Boot(t, s) = None
  BY DEF NeedReinit, Flags

LEMMA FlagOfAll ==
    ASSUME NEW t \in Tests, NEW s \in Server
    PROVE  /\ NewNeed(t) \in Flags
           /\ NewNeed(t) = "undef" => Boot(t, s) = None
  <1>1. ServersNeedReinit(t) \in Flags
    BY DEF ServersNeedReinit, Flags
  <1>2. Role(s) \in Roles
    BY DEF Role, Roles
  <1> QED  BY <1>1, <1>2 DEF NewNeed, Flags, Boot

\* The object of a server after the worker has decided what to stop.
LEMMA ObjectDecided ==
    ASSUME Typed, NEW t \in Tests, NEW s \in Server
    PROVE  LET m == StopServers(t)[s]
           IN  /\ m \in Mysqld
               /\ s \in Restarts(t) => m.proc = "none" /\ m.restart = None
               /\ s \notin Restarts(t) =>
                     /\ m.proc = srv[s].proc /\ m.runs = srv[s].runs /\ m.opts = srv[s].opts
                     /\ m.tz = srv[s].tz /\ m.restart = srv[s].restart
               /\ s \in Examined(t) => m.need = NeedReinit(t, s)
  <1> DEFINE k == IF s \in Examined(t) THEN [srv[s] EXCEPT !.need = NeedReinit(t, s)] ELSE srv[s]
  <1>1. srv[s] \in Mysqld
    BY DEF Typed
  <1>2. /\ k \in Mysqld
        /\ k.proc = srv[s].proc /\ k.runs = srv[s].runs /\ k.opts = srv[s].opts
        /\ k.tz = srv[s].tz /\ k.restart = srv[s].restart
        /\ s \in Examined(t) => k.need = NeedReinit(t, s)
    BY <1>1, FlagOfOne, FlaggedObject
  <1>3. StopServers(t)[s] = IF s \in Restarts(t) THEN Stopped(k) ELSE k
    BY DEF StopServers
  <1> HIDE DEF k
  <1>4. /\ Stopped(k) \in Mysqld
        /\ Stopped(k).proc = "none" /\ Stopped(k).restart = None /\ Stopped(k).need = k.need
    BY <1>2, StoppedObject
  <1>5. CASE s \in Restarts(t)
    BY <1>2, <1>3, <1>4, <1>5
  <1>6. CASE s \notin Restarts(t)
    BY <1>2, <1>3, <1>6
  <1> QED  BY <1>5, <1>6

\* A server that is passed over comes after one that must be initialised.
LEMMA PassedOver ==
    ASSUME Typed, NEW t \in Tests, NEW s \in Servers, s \notin Examined(t)
    PROVE  t.rpl_test /\ \E r \in Examined(t) : r < s /\ NeedReinit(t, r) = "yes"
  <1> DEFINE T == {r \in Servers : NeedReinit(t, r) = "yes"}
  <1>1. Servers \subseteq Nat
    BY Names, ServersExist
  <1>2. t.rpl_test /\ \E r \in Servers : r < s /\ NeedReinit(t, r) = "yes"
    BY DEF Examined
  <1>3. PICK q \in T : q < s
    BY <1>2
  <1>4. PICK r \in T : \A y \in T : ~(<<y, r>> \in OpToRel(<, Nat))
    <2>1. T \subseteq Nat /\ T # {}
      BY <1>1, <1>3
    <2> HIDE DEF T
    <2> QED  BY <2>1, NatLessThanWellFounded, WFMin
  <1>5. \A y \in T : ~(y < r)
    BY <1>1, <1>4 DEF OpToRel
  <1>6. r \in Examined(t) /\ r < s
    BY <1>1, <1>3, <1>5 DEF Examined
  <1> QED  BY <1>2, <1>6

LEMMA NewServers ==
    ASSUME IInv, NEW t \in Tests, NextTest(t),
           \A s \in Servers : StopServers(t)[s].proc = "none"
    PROVE  IInv'
  <1>1. /\ config' = t.template /\ test' = t /\ pc = "next" /\ pc' = "start"
        /\ srv' = [s \in Server |-> [Fresh EXCEPT !.need = NewNeed(t)]]
        /\ expect' = [s \in Server |-> "none"]
        /\ UNCHANGED <<prog, waiting, got, deaths>>
    BY DEF IInv, NextTest, running
  <1>2. ASSUME NEW s \in Server
        PROVE  /\ srv'[s] \in Mysqld /\ srv'[s].proc = "none" /\ srv'[s].restart = None
               /\ srv'[s].need = "undef" => Boot(t, s) = None
    BY <1>1, FlagOfAll, FreshObject
  <1>3. Typed'
    <2>1. srv' \in [Server -> Mysqld]
      BY <1>1, <1>2
    <2>2. expect' \in [Server -> File]
      BY <1>1 DEF File
    <2>3. config' \in DOMAIN Template \cup {None}
      BY <1>1, MtrServersAssumption
    <2> QED  BY <1>1, <2>1, <2>2, <2>3 DEF Typed, IInv
  <1>4. Servers' \subseteq Server
    <2>1. Servers' = IF t.template = None THEN {} ELSE Template[t.template]
      BY <1>1 DEF Servers
    <2> QED  BY <2>1, MtrServersAssumption
  <1>5. Idle'
    BY <1>1, <1>2 DEF Idle, IInv
  <1>6. Faithful'
    BY <1>2 DEF Faithful
  <1>7. Asked'
    BY <1>1, <1>2, <1>4 DEF Asked
  <1>8. Decided'
    <2>1. \A s \in Server : Boot(test', s) = Boot(t, s)
      BY <1>1
    <2> QED  BY <1>1, <1>2, <1>4, <2>1 DEF Decided
  <1>9. AllStarted' /\ NotForgotten'
    BY <1>1 DEF AllStarted, NotForgotten
  <1> QED  BY <1>3, <1>5, <1>6, <1>7, <1>8, <1>9 DEF IInv

LEMMA OldServers ==
    ASSUME IInv, NEW t \in Tests, NextTest(t),
           NEW k \in Servers, StopServers(t)[k].proc # "none"
    PROVE  IInv'
  <1>1. /\ srv' = StopServers(t) /\ test' = t /\ pc = "next" /\ pc' = "start"
        /\ UNCHANGED <<config, expect, prog, waiting, got, deaths>>
    BY DEF IInv, NextTest, running
  <1>2. Servers' = Servers /\ Servers \subseteq Server
    BY <1>1, ServersExist DEF Servers, IInv
  <1>3. ASSUME NEW s \in Server
        PROVE  /\ srv'[s] \in Mysqld
               /\ s \in Restarts(t) => srv'[s].proc = "none" /\ srv'[s].restart = None
               /\ s \notin Restarts(t) =>
                     /\ srv'[s].proc = srv[s].proc /\ srv'[s].runs = srv[s].runs
                     /\ srv'[s].opts = srv[s].opts /\ srv'[s].tz = srv[s].tz
                     /\ srv'[s].restart = srv[s].restart
               /\ s \in Examined(t) => srv'[s].need = NeedReinit(t, s)
    BY <1>1, ObjectDecided DEF IInv
  <1>4. ASSUME NEW s \in Servers, s \notin Restarts(t)
        PROVE  /\ t.template = config /\ srv[s].proc # "none" /\ srv[s].tz = t.tz
               /\ srv[s].opts = Opts(t, s) /\ srv[s].restart = None
    <2>1. ~NeedRestart(t, s)
      BY <1>4 DEF Restarts
    <2> QED  BY <2>1 DEF NeedRestart
  <1>5. config = t.template
    <2>1. k \notin Restarts(t)
      BY <1>1, <1>2, <1>3
    <2> QED  BY <2>1, <1>4
  <1>6. Typed'
    <2>1. srv' \in [Server -> Mysqld]
      <3>1. srv' = [s \in Server |-> srv'[s]]
        BY <1>1 DEF StopServers
      <3> QED  BY <1>3, <3>1
    <2> QED  BY <1>1, <2>1 DEF Typed, IInv
  <1>7. Restarts(t) \subseteq Servers
    BY DEF Restarts
  <1>8. Idle'
    BY <1>1, <1>2, <1>3, <1>7 DEF Idle, IInv
  <1>9. Faithful'
    BY <1>2, <1>3 DEF Faithful, IInv
  <1>10. Asked'
    <2> SUFFICES ASSUME NEW s \in Servers, srv'[s].proc # "none"
                 PROVE  srv'[s].opts = Opts(t, s) /\ srv'[s].tz = t.tz
      BY <1>1, <1>2, <1>5 DEF Asked
    <2>1. s \notin Restarts(t) /\ s \in Server
      BY <1>2, <1>3
    <2> QED  BY <2>1, <1>3, <1>4
  <1>11. Decided'
    <2> SUFFICES ASSUME NEW s \in Servers
                 PROVE  /\ srv'[s].restart = None
                        /\ srv'[s].need = "undef" /\ LookedAt(s)' => Boot(t, s) = None
      BY <1>1, <1>2 DEF Decided
    <2>1. s \in Server
      BY <1>2
    <2>2. srv'[s].restart = None
      BY <2>1, <1>3, <1>4
    <2>3. CASE s \in Examined(t)
      BY <2>1, <2>2, <2>3, <1>3, FlagOfOne
    <2>4. CASE s \notin Examined(t)
      <3>1. t.rpl_test
        BY <2>4, PassedOver DEF IInv
      <3>2. PICK r \in Examined(t) : r < s /\ NeedReinit(t, r) = "yes"
        BY <2>4, PassedOver DEF IInv
      <3>3. r \in Servers /\ r \in Server /\ srv'[r].need = "yes"
        BY <1>2, <1>3, <3>2 DEF Examined
      <3>4. ~LookedAt(s)'
        BY <1>1, <1>2, <3>1, <3>2, <3>3 DEF LookedAt
      <3> QED  BY <2>2, <3>4
    <2> QED  BY <2>3, <2>4
  <1>12. AllStarted' /\ NotForgotten'
    BY <1>1 DEF AllStarted, NotForgotten
  <1> QED  BY <1>6, <1>8, <1>9, <1>10, <1>11, <1>12 DEF IInv

LEMMA NextTestKeeps ==
    ASSUME IInv, NEW t \in Tests, NextTest(t)
    PROVE  IInv'
  BY NewServers, OldServers

-----------------------------------------------------------------------------
(* The start of what is not running.                                       *)
LEMMA ObjectStarted ==
    ASSUME IInv, StartServers, NEW s \in Server
    PROVE  /\ srv'[s] \in Mysqld
           /\ s \notin Starting => srv'[s] = srv[s]
           /\ s \in Starting =>
                 /\ srv'[s].proc = "up" /\ srv'[s].opts = Opts(test, s)
                 /\ srv'[s].tz = test.tz /\ srv'[s].restart = None
                 /\ srv'[s].runs = <<Opts(test, s), None, test.tz>>
  <1> DEFINE services == srv[s].services \/ Copies(s) \/ srv[s].need = "yes"
             m == Launch(srv[s], s, Opts(test, s))
             n == Started(m, test.tz, services)
  <1>1. pc = "start" /\ test \in Tests /\ srv[s] \in Mysqld
    BY DEF IInv, Typed, StartServers
  <1>2. srv'[s] = IF s \notin Starting THEN srv[s] ELSE n
    BY DEF StartServers, Started
  <1>3. CASE s \notin Starting
    BY <1>1, <1>2, <1>3
  <1>4. CASE s \in Starting
    <2>1. srv[s].restart = None
      BY <1>1, <1>4 DEF IInv, Decided, Starting
    <2>2. /\ m \in Mysqld /\ m.proc = "up" /\ m.opts = Opts(test, s) /\ m.restart = None
          /\ m.runs = <<Opts(test, s), None, test.tz>>
      BY <1>1, <2>1, Asks, LaunchedObject
    <2>3. services \in BOOLEAN
      OBVIOUS
    <2>4. test.tz \in Zones
      BY <1>1, Asks
    <2> HIDE DEF m, services
    <2>5. /\ n \in Mysqld /\ n.proc = m.proc /\ n.opts = m.opts /\ n.tz = test.tz
          /\ n.restart = m.restart /\ n.runs = m.runs
      BY <2>2, <2>3, <2>4, StartedObject
    <2>6. srv'[s] = n
      BY <1>2, <1>4
    <2> HIDE DEF n
    <2> QED  BY <1>4, <2>2, <2>5, <2>6
  <1> QED  BY <1>3, <1>4

LEMMA StartServersKeeps ==
    ASSUME IInv, StartServers
    PROVE  IInv'
  <1>1. /\ pc = "start" /\ pc' = "ready"
        /\ UNCHANGED <<config, expect, test, prog, waiting, got, deaths>>
    BY DEF StartServers, running
  <1>2. Servers' = Servers /\ Servers \subseteq Server
    BY <1>1, ServersExist DEF Servers, IInv
  <1>3. ASSUME NEW s \in Server
        PROVE  /\ srv'[s] \in Mysqld
               /\ s \notin Starting => srv'[s] = srv[s]
               /\ s \in Starting =>
                     /\ srv'[s].proc = "up" /\ srv'[s].opts = Opts(test, s)
                     /\ srv'[s].tz = test.tz /\ srv'[s].restart = None
                     /\ srv'[s].runs = <<Opts(test, s), None, test.tz>>
    BY ObjectStarted
  <1>4. Starting \subseteq Servers /\ \A s \in Servers \ Starting : srv[s].proc # "none"
    BY DEF Starting
  <1>5. Typed'
    <2>1. srv' \in [Server -> Mysqld]
      <3>1. srv' = [s \in Server |-> srv'[s]]
        BY DEF StartServers
      <3> QED  BY <1>3, <3>1
    <2> QED  BY <1>1, <2>1 DEF Typed, IInv
  <1>6. Idle'
    BY <1>1, <1>2, <1>3, <1>4 DEF Idle, IInv
  <1>7. Faithful'
    BY <1>2, <1>3 DEF Faithful, IInv
  <1>8. \A s \in Servers : srv'[s].opts = Opts(test, s) /\ srv'[s].tz = test.tz
    BY <1>1, <1>2, <1>3, <1>4 DEF Asked, IInv
  <1>9. Asked'
    <2>1. \A s \in Server : Opts(test', s) = Opts(test, s)
      BY <1>1
    <2> QED  BY <1>1, <1>2, <1>8, <2>1 DEF Asked, IInv
  <1>10. \A s \in Servers : srv'[s].proc # "none" /\ srv'[s].restart = None
    BY <1>1, <1>2, <1>3, <1>4 DEF Decided, IInv
  <1>11. Decided' /\ AllStarted' /\ NotForgotten'
    BY <1>1, <1>2, <1>10 DEF Decided, AllStarted, NotForgotten
  <1> QED  BY <1>5, <1>6, <1>7, <1>9, <1>11 DEF IInv

LEMMA StartServersRight ==
    ASSUME IInv, StartServers
    PROVE  /\ config = test.template
           /\ \A s \in Servers :
                 /\ srv'[s].proc # "none"
                 /\ srv'[s].runs = <<Opts(test, s), None, test.tz>>
                 /\ s \in Starting /\ LookedAt(s) /\ srv[s].need # "no"
                    => data'[s] = Boot(test, s)
  <1>1. pc = "start" /\ config = test.template
    BY DEF StartServers, Asked, IInv
  <1>2. ASSUME NEW s \in Servers
        PROVE  srv'[s].proc # "none" /\ srv'[s].runs = <<Opts(test, s), None, test.tz>>
    <2>1. s \in Server
      BY ServersExist DEF IInv
    <2>2. CASE s \in Starting
      BY <2>1, <2>2, ObjectStarted
    <2>3. CASE s \notin Starting
      <3>1. srv[s].proc # "none" /\ srv'[s] = srv[s]
        BY <2>1, <2>3, ObjectStarted DEF Starting
      <3>2. srv[s].opts = Opts(test, s) /\ srv[s].tz = test.tz /\ srv[s].restart = None
        BY <1>1, <3>1 DEF Asked, Decided, IInv
      <3> QED  BY <2>1, <3>1, <3>2 DEF Faithful, IInv
    <2> QED  BY <2>2, <2>3
  <1>3. ASSUME NEW s \in Starting, LookedAt(s), srv[s].need # "no"
        PROVE  data'[s] = Boot(test, s)
    <2>1. s \in Servers /\ s \in Server /\ srv[s].need \in Flags
      BY ServersExist, Fields DEF Starting, IInv, Typed
    <2>2. data'[s] = IF srv[s].need = "yes" THEN Boot(test, s)
                     ELSE IF Copies(s) THEN None ELSE data[s]
      BY <2>1 DEF StartServers
    <2>3. srv[s].need = "undef" => Boot(test, s) = None
      BY <1>1, <1>3, <2>1 DEF Decided, IInv
    <2> QED  BY <1>3, <2>1, <2>2, <2>3 DEF Copies, Flags
  <1> QED  BY <1>1, <1>2, <1>3

-----------------------------------------------------------------------------
(* The end of a test.                                                      *)
LEMMA AllStopped ==
    ASSUME Typed, StopAll, NEW s \in Server
    PROVE  /\ srv'[s] \in Mysqld
           /\ s \in Servers => srv'[s].proc = "none"
           /\ s \notin Servers => srv'[s] = srv[s]
  <1>1. srv[s] \in Mysqld
    BY DEF Typed
  <1>2. srv'[s] = IF s \in Servers THEN [srv[s] EXCEPT !.proc = "none", !.runs = <<>>] ELSE srv[s]
    BY DEF StopAll
  <1> QED  BY <1>1, <1>2, KilledObject

LEMMA ReportKeeps ==
    ASSUME IInv, NEW v, Report(v), StopAll \/ UNCHANGED srv
    PROVE  IInv'
  <1>1. /\ pc' = "next" /\ deaths' = 0 /\ prog' = "none" /\ waiting' = <<>> /\ got' = <<>>
        /\ UNCHANGED <<config, expect>>
    BY DEF Report
  <1>2. Servers' = Servers /\ Servers \subseteq Server
    BY <1>1, ServersExist DEF Servers, IInv
  <1>3. ASSUME NEW s \in Server
        PROVE  srv'[s] \in Mysqld /\ (srv'[s] = srv[s] \/ srv'[s].proc = "none")
    <2>1. CASE StopAll
      BY <2>1, AllStopped DEF IInv
    <2>2. CASE UNCHANGED srv
      BY <2>2 DEF IInv, Typed
    <2> QED  BY <2>1, <2>2
  <1>4. Typed'
    <2>1. srv' \in [Server -> Mysqld]
      <3>1. srv' = [s \in Server |-> srv'[s]]
        BY DEF StopAll, IInv, Typed
      <3> QED  BY <1>3, <3>1
    <2>2. deaths' \in 0 .. MaxDeaths /\ <<>> \in Seq(Process)
      BY <1>1, MtrServersAssumption
    <2> QED  BY <1>1, <2>1, <2>2 DEF Typed, IInv
  <1>5. Idle'
    BY <1>1, <1>2, <1>3 DEF Idle, IInv
  <1>6. Faithful'
    BY <1>2, <1>3 DEF Faithful, IInv
  <1>7. Asked' /\ Decided' /\ AllStarted' /\ NotForgotten'
    BY <1>1 DEF Asked, Decided, AllStarted, NotForgotten
  <1> QED  BY <1>4, <1>5, <1>6, <1>7 DEF IInv

LEMMA ReportFailureKeeps ==
    ASSUME IInv, ReportFailure
    PROVE  IInv' /\ pc' = "next" /\ verdict' = "failed"
  BY ReportKeeps DEF ReportFailure, Report

LEMMA TestOverKeeps ==
    ASSUME IInv, TestOver
    PROVE  IInv'
  <1>1. \/ ReportFailure
        \/ Report("passed") /\ (StopAll \/ UNCHANGED srv)
        \/ Report("skipped") /\ (StopAll \/ UNCHANGED srv)
    BY DEF TestOver
  <1> QED  BY <1>1, ReportKeeps, ReportFailureKeeps

\* What there is to say when a test is reported as passed.
LEMMA PassedRightly ==
    ASSUME IInv, TestOver, verdict' = "passed", pc = "run"
    PROVE  /\ got = <<MySqlTest>> /\ res = "passed"
           /\ \/ \A s \in Servers : srv'[s].proc = "none"
              \/ \A s \in Servers : srv[s].proc = "up" \/ srv[s].restart # None
  <1>1. got = <<MySqlTest>> /\ ~ReportFailure
    BY ReportFailureKeeps DEF TestOver
  <1>2. PICK found \in {res} \cup {r \in {"failed"} : res \in {"passed", "skipped"}},
             forced \in BOOLEAN :
          \E check \in IF found \in {"passed", "skipped"} /\ ~forced
                       THEN CheckResults ELSE {"none"} :
             LET result == IF check = "changed" THEN "failed" ELSE found
             IN  \/ /\ result = "passed" /\ check # "fatal"
                    /\ IF forced THEN StopAll ELSE UNCHANGED srv
                    /\ Report("passed") /\ UNCHANGED <<data, failed>>
                 \/ /\ result = "skipped"
                    /\ StopAll \/ (~forced /\ UNCHANGED srv)
                    /\ Report("skipped") /\ UNCHANGED <<data, failed>>
                 \/ /\ result \in {"failed", "crashed"} \/ (result = "passed" /\ check = "fatal")
                    /\ ReportFailure
    BY DEF TestOver
  <1>3. ~Report("skipped")
    BY DEF Report
  <1>4. PICK check \in IF found \in {"passed", "skipped"} /\ ~forced
                       THEN CheckResults ELSE {"none"} :
          /\ check # "changed" /\ found = "passed" /\ check # "fatal"
          /\ IF forced THEN StopAll ELSE UNCHANGED srv
    BY <1>1, <1>2, <1>3
  <1>5. res = "passed"
    BY <1>4
  <1>6. CASE forced
    <2>1. StopAll
      BY <1>4, <1>6
    <2>2. Servers \subseteq Server
      BY ServersExist DEF IInv
    <2> QED  BY <1>1, <1>5, <2>1, <2>2, AllStopped DEF IInv
  <1>7. CASE ~forced
    <2>1. check \in CheckResults
      BY <1>4, <1>7
    <2>2. \A s \in Checked : srv[s].proc = "up"
      BY <1>4, <2>1 DEF CheckResults
    <2>3. \A s \in Servers : srv[s].proc # "none"
      BY DEF AllStarted, IInv
    <2> QED  BY <1>1, <1>5, <2>2, <2>3 DEF Checked
  <1> QED  BY <1>6, <1>7

-----------------------------------------------------------------------------
(* The test runs.                                                          *)
Kept == UNCHANGED <<config, pc, test>>

\* A step after which every object has the process it had, alive or not.
LEMMA ServersKept ==
    ASSUME IInv, Kept, srv' \in [Server -> Mysqld],
           \A s \in Server :
               /\ srv'[s].proc = "none" <=> srv[s].proc = "none"
               /\ srv'[s].proc # "none" =>
                     srv'[s].runs = <<srv'[s].opts, srv'[s].restart, srv'[s].tz>>
               /\ srv'[s].opts = srv[s].opts /\ srv'[s].tz = srv[s].tz
               /\ pc # "run" => srv'[s].restart = srv[s].restart,
           pc = "start" => srv' = srv
    PROVE  /\ \A s \in Server \ Servers' : srv'[s].proc = "none"
           /\ Faithful' /\ Asked' /\ Decided' /\ AllStarted'
  <1>1. Servers' = Servers /\ Servers \subseteq Server
    BY ServersExist DEF Servers, IInv, Kept
  <1>2. \A s \in Server \ Servers' : srv'[s].proc = "none"
    BY <1>1 DEF Idle, IInv
  <1>3. Faithful'
    BY DEF Faithful
  <1>4. \A s \in Server : Opts(test', s) = Opts(test, s) /\ Boot(test', s) = Boot(test, s)
    BY DEF Kept
  <1>5. Asked'
    BY <1>1, <1>4 DEF Asked, IInv, Kept
  <1>6. Decided'
    <2> SUFFICES ASSUME pc = "start"
                 PROVE  \A s \in Servers : /\ srv'[s].restart = None
                                           /\ srv'[s].need = "undef" /\ LookedAt(s)'
                                                => Boot(test', s) = None
      BY <1>1 DEF Decided, Kept
    <2>1. \A s \in Servers : LookedAt(s)' = LookedAt(s)
      BY <1>1 DEF LookedAt, Kept
    <2> QED  BY <1>1, <1>4, <2>1 DEF Decided, IInv
  <1>7. AllStarted'
    BY <1>1 DEF AllStarted, IInv, Kept
  <1> QED  BY <1>2, <1>3, <1>5, <1>6, <1>7

\* A step that does not touch the servers.
LEMMA ServersAlone ==
    ASSUME IInv, Kept, UNCHANGED srv
    PROVE  /\ \A s \in Server \ Servers' : srv'[s].proc = "none"
           /\ Faithful' /\ Asked' /\ Decided' /\ AllStarted'
  <1>1. srv \in [Server -> Mysqld]
    BY DEF IInv, Typed
  <1> QED  BY <1>1, ServersKept DEF Faithful, IInv

LEMMA StartMysqltestKeeps ==
    ASSUME IInv, StartMysqltest
    PROVE  IInv'
  <1>1. /\ pc = "ready" /\ pc' = "run" /\ prog' = "running" /\ CheckResults # {"fatal"}
        /\ waiting = <<>> /\ got = <<>>
        /\ UNCHANGED <<config, srv, expect, test, waiting, got, deaths>>
    BY DEF StartMysqltest, worker, Idle, IInv
  <1>2. Servers' = Servers /\ Servers \subseteq Server
    BY <1>1, ServersExist DEF Servers, IInv
  <1>3. \A s \in Servers : srv[s].proc # "none" /\ srv[s].restart = None
    BY <1>1 DEF AllStarted, IInv
  <1>4. \A s \in Server : srv[s].proc # "gone"
    <2>1. \A s \in Servers : srv[s].proc = "up"
      BY <1>1, <1>3 DEF CheckResults, Checked
    <2> QED  BY <2>1 DEF Idle, IInv
  <1>5. Typed'
    BY <1>1 DEF Typed, IInv
  <1>6. Idle'
    BY <1>1, <1>2 DEF Idle, IInv
  <1>7. Faithful' /\ Asked' /\ Decided' /\ AllStarted'
    <2>1. \A s \in Server : Opts(test', s) = Opts(test, s)
      BY <1>1
    <2>2. Faithful' /\ Decided' /\ AllStarted'
      BY <1>1, <1>2, <1>3 DEF Faithful, Decided, AllStarted, IInv
    <2> QED  BY <1>1, <1>2, <2>1, <2>2 DEF Asked, IInv
  <1>8. NotForgotten'
    <2>1. Reported' = {}
      BY <1>1, <1>4 DEF Reported
    <2>2. (got \o waiting)' = <<>>
      BY <1>1, Nothing
    <2> QED  BY <2>1, <2>2, Nothing DEF NotForgotten
  <1> QED  BY <1>5, <1>6, <1>7, <1>8 DEF IInv

-----------------------------------------------------------------------------
(* What happens around the worker.                                         *)

\* What is held is said of by what is reported and by the timer, no more.
LEMMA HeldKept ==
    ASSUME IInv, Kept, UNCHANGED <<waiting, got>>, Reported' = Reported,
           timer = "expired" => timer' = "expired"
    PROVE  NotForgotten'
  BY DEF NotForgotten, IInv, Kept

LEMMA WritesKeeps ==
    ASSUME IInv, NEW s \in Server, Writes(s)
    PROVE  IInv'
  <1>1. Kept /\ UNCHANGED <<srv, prog, timer, waiting, got, deaths>>
    BY DEF Writes, Kept, running
  <1>2. expect' \in [Server -> File]
    <2>1. expect \in [Server -> File]
      BY DEF IInv, Typed
    <2> QED  BY <2>1 DEF Writes, File
  <1>3. NotForgotten'
    <2>1. Reported' = Reported
      BY <1>1 DEF Reported
    <2> QED  BY <1>1, <2>1, HeldKept
  <1>4. Typed'
    BY <1>1, <1>2 DEF Typed, IInv, Kept
  <1>5. Idle'
    BY <1>1, ServersAlone DEF Idle, IInv, Kept
  <1> QED  BY <1>1, <1>3, <1>4, <1>5, ServersAlone DEF IInv

LEMMA DiesKeeps ==
    ASSUME IInv, NEW s \in Server, Dies(s)
    PROVE  IInv'
  <1>1. /\ Kept /\ UNCHANGED <<expect, prog, timer, waiting, got>>
        /\ pc # "start" /\ srv[s].proc = "up" /\ deaths < MaxDeaths /\ deaths' = deaths + 1
        /\ srv' = [srv EXCEPT ![s].proc = "dead"]
    BY DEF Dies, Kept, running
  <1>2. srv \in [Server -> Mysqld] /\ srv[s] \in Mysqld
    BY DEF IInv, Typed
  <1>3. /\ srv'[s] \in Mysqld /\ srv'[s].proc = "dead" /\ srv'[s].runs = srv[s].runs
        /\ srv'[s].opts = srv[s].opts /\ srv'[s].tz = srv[s].tz
        /\ srv'[s].restart = srv[s].restart
    <2> DEFINE n == [srv[s] EXCEPT !.proc = "dead"]
    <2>1. srv'[s] = n
      BY <1>1, <1>2
    <2>2. /\ n \in Mysqld /\ n.proc = "dead" /\ n.runs = srv[s].runs /\ n.opts = srv[s].opts
          /\ n.tz = srv[s].tz /\ n.restart = srv[s].restart
      BY <1>2, DeadObject
    <2> HIDE DEF n
    <2> QED  BY <2>1, <2>2
  <1>4. srv' \in [Server -> Mysqld] /\ \A r \in Server \ {s} : srv'[r] = srv[r]
    BY <1>1, <1>2, <1>3
  <1>5. /\ \A r \in Server \ Servers' : srv'[r].proc = "none"
        /\ Faithful' /\ Asked' /\ Decided' /\ AllStarted'
    <2>1. \A r \in Server :
              /\ srv'[r].proc = "none" <=> srv[r].proc = "none"
              /\ srv'[r].proc # "none" =>
                    srv'[r].runs = <<srv'[r].opts, srv'[r].restart, srv'[r].tz>>
              /\ srv'[r].opts = srv[r].opts /\ srv'[r].tz = srv[r].tz
              /\ srv'[r].restart = srv[r].restart
      BY <1>1, <1>3, <1>4 DEF Faithful, IInv
    <2> QED  BY <1>1, <1>4, <2>1, ServersKept
  <1>6. NotForgotten'
    <2>1. Reported' = Reported
      BY <1>1, <1>3, <1>4 DEF Reported
    <2> QED  BY <1>1, <2>1, HeldKept
  <1>7. Typed'
    <2>1. deaths' \in 0 .. MaxDeaths
      BY <1>1, MtrServersAssumption DEF IInv, Typed
    <2> QED  BY <1>1, <1>4, <2>1 DEF Typed, IInv, Kept
  <1>8. Idle'
    BY <1>1, <1>5 DEF Idle, IInv, Kept
  <1> QED  BY <1>5, <1>6, <1>7, <1>8 DEF IInv

LEMMA ExitsKeeps ==
    ASSUME IInv, Exits
    PROVE  IInv'
  <1>1. /\ Kept /\ prog = "running" /\ prog' = "exited"
        /\ UNCHANGED <<srv, expect, timer, waiting, got, deaths>>
    BY DEF Exits, Kept, worker
  <1>2. pc = "run"
    BY <1>1 DEF Idle, IInv
  <1>3. NotForgotten'
    <2>1. Reported' = Reported
      BY <1>1 DEF Reported
    <2> QED  BY <1>1, <2>1, HeldKept
  <1>4. Typed'
    BY <1>1 DEF Typed, IInv, Kept
  <1>5. Idle'
    BY <1>1, <1>2, ServersAlone DEF Idle, IInv, Kept
  <1> QED  BY <1>1, <1>3, <1>4, <1>5, ServersAlone DEF IInv

LEMMA ExpiresKeeps ==
    ASSUME IInv, Expires
    PROVE  IInv'
  <1>1. Kept /\ timer' = "expired" /\ UNCHANGED <<srv, expect, prog, waiting, got, deaths>>
    BY DEF Expires, Kept, worker
  <1>2. NotForgotten'
    <2>1. Reported' = Reported
      BY <1>1 DEF Reported
    <2> QED  BY <1>1, <2>1, HeldKept
  <1>3. Typed'
    BY <1>1 DEF Typed, IInv, Kept
  <1>4. Idle'
    BY <1>1, ServersAlone DEF Idle, IInv, Kept
  <1> QED  BY <1>1, <1>2, <1>3, <1>4, ServersAlone DEF IInv

-----------------------------------------------------------------------------
(* The loop of the worker.                                                 *)
LEMMA CollectKeeps ==
    ASSUME IInv, Kept, NEW p \in Unreported, Collect(p)
    PROVE  /\ srv' \in [Server -> Mysqld]
           /\ p \in Process /\ p \notin Reported /\ Reported' = Reported \cup {p}
           /\ \A r \in Server \ Servers' : srv'[r].proc = "none"
           /\ Faithful' /\ Asked' /\ (pc = "run" => Decided' /\ AllStarted')
  <1>1. /\ prog' = IF p = MySqlTest THEN "seen" ELSE prog
        /\ srv' = [s \in Server |-> IF s = p THEN [srv[s] EXCEPT !.proc = "gone"] ELSE srv[s]]
    BY DEF Collect
  <1>2. \/ p \in Server /\ srv[p].proc = "dead" /\ p # MySqlTest
        \/ p = MySqlTest /\ prog = "exited" /\ p \notin Server
    BY Names DEF Unreported
  <1>3. srv \in [Server -> Mysqld]
    BY DEF IInv, Typed
  <1>4. ASSUME NEW s \in Server
        PROVE  /\ srv'[s] \in Mysqld
               /\ srv'[s].proc = (IF s = p THEN "gone" ELSE srv[s].proc)
               /\ srv'[s].runs = srv[s].runs /\ srv'[s].opts = srv[s].opts
               /\ srv'[s].tz = srv[s].tz /\ srv'[s].restart = srv[s].restart
    <2> DEFINE n == [srv[s] EXCEPT !.proc = "gone"]
    <2>1. srv'[s] = IF s = p THEN n ELSE srv[s]
      BY <1>1
    <2>2. srv[s] \in Mysqld
      BY <1>3
    <2>3. /\ n \in Mysqld /\ n.proc = "gone" /\ n.runs = srv[s].runs /\ n.opts = srv[s].opts
          /\ n.tz = srv[s].tz /\ n.restart = srv[s].restart
      BY <2>2, DeadObject
    <2> HIDE DEF n
    <2> QED  BY <2>1, <2>2, <2>3
  <1>5. srv' \in [Server -> Mysqld]
    BY <1>1, <1>4
  <1>6. p \in Process /\ p \notin Reported
    BY <1>2, Names DEF Reported
  <1>7. Reported' = Reported \cup {p}
    <2>1. CASE p = MySqlTest
      BY <2>1, <1>1, <1>2, <1>4 DEF Reported
    <2>2. CASE p # MySqlTest
      BY <2>2, <1>1, <1>2, <1>4 DEF Reported
    <2> QED  BY <2>1, <2>2
  <1>8. \A s \in Server :
            /\ srv'[s].proc = "none" <=> srv[s].proc = "none"
            /\ srv'[s].proc # "none" =>
                  srv'[s].runs = <<srv'[s].opts, srv'[s].restart, srv'[s].tz>>
            /\ srv'[s].opts = srv[s].opts /\ srv'[s].tz = srv[s].tz
            /\ srv'[s].restart = srv[s].restart
    BY <1>2, <1>4 DEF Faithful, IInv
  <1>9. Servers' = Servers /\ Servers \subseteq Server
    BY ServersExist DEF Servers, IInv, Kept
  <1>10. \A s \in Server : Opts(test', s) = Opts(test, s)
    BY DEF Kept
  <1>11. \A r \in Server \ Servers' : srv'[r].proc = "none"
    BY <1>8, <1>9 DEF Idle, IInv
  <1>12. Faithful' /\ Asked'
    BY <1>8, <1>9, <1>10 DEF Faithful, Asked, IInv, Kept
  <1>13. ASSUME pc = "run" PROVE Decided' /\ AllStarted'
    BY <1>8, <1>9, <1>13 DEF Decided, AllStarted, IInv, Kept
  <1> QED  BY <1>5, <1>6, <1>7, <1>11, <1>12, <1>13

\* Popping from a queue q that holds what was reported, and no more.
LEMMA PopKeeps ==
    ASSUME NEW q \in Seq(Process), q # <<>>, Pop(q), IsInjective(q),
           Range(q) \subseteq Reported', timer' # "expired" => Reported' \subseteq Range(q)
    PROVE  /\ waiting' \in Seq(Process) /\ got' \in {<<>>} \cup {<<p>> : p \in 0 .. Timer}
           /\ NotForgotten'
  <1>1. /\ Last(q) \in Process /\ Front(q) \in Seq(Process)
        /\ Range(<<Last(q)>> \o Front(q)) = Range(q)
        /\ IsInjective(<<Last(q)>> \o Front(q))
    BY Popped
  <1>2. got' = <<Last(q)>> /\ waiting' = Front(q)
    BY DEF Pop
  <1>3. (got \o waiting)' = <<Last(q)>> \o Front(q)
    BY <1>2
  <1>4. NotForgotten'
    BY <1>1, <1>3 DEF NotForgotten
  <1> QED  BY <1>1, <1>2, <1>4, Names

\* Nothing in hand: the queue alone holds what was reported.
LEMMA QueueHolds ==
    ASSUME IInv, Looks
    PROVE  /\ waiting \in Seq(Process) /\ IsInjective(waiting)
           /\ Range(waiting) \subseteq Reported
           /\ timer # "expired" => Reported \subseteq Range(waiting)
  <1>1. waiting \in Seq(Process) /\ got = <<>> /\ pc = "run"
    BY DEF IInv, Typed, Looks
  <1>2. got \o waiting = waiting
    BY <1>1, Nothing
  <1>3. Timer \notin Range(waiting)
    BY <1>1, Names DEF Range
  <1> QED  BY <1>1, <1>2, <1>3 DEF NotForgotten, IInv

LEMMA TakeTurnsKeeps ==
    ASSUME IInv, TakeTurns
    PROVE  IInv'
  <1>1. /\ Kept /\ pc = "run" /\ Looks
        /\ UNCHANGED <<config, data, expect, failed, pc, test, res, timer, deaths, verdict>>
    BY DEF TakeTurns, LoopUnchanged, Looks, Kept
  <1>2. PICK p \in Unreported : Collect(p) /\ Pop(<<p>> \o waiting)
    BY DEF TakeTurns
  <1>3. /\ srv' \in [Server -> Mysqld]
        /\ p \in Process /\ p \notin Reported /\ Reported' = Reported \cup {p}
        /\ \A r \in Server \ Servers' : srv'[r].proc = "none"
        /\ Faithful' /\ Asked' /\ Decided' /\ AllStarted'
    BY <1>1, <1>2, CollectKeeps
  <1>4. /\ waiting \in Seq(Process) /\ IsInjective(waiting) /\ Range(waiting) \subseteq Reported
        /\ timer # "expired" => Reported \subseteq Range(waiting)
    BY <1>1, QueueHolds
  <1> DEFINE q == <<p>> \o waiting
  <1>5. q \in Seq(Process) /\ Range(q) = {p} \cup Range(waiting) /\ IsInjective(q) /\ q # <<>>
    <2>1. p \notin Range(waiting)
      BY <1>3, <1>4
    <2>2. q # <<>>
      BY <1>3, <1>4
    <2> QED  BY <1>3, <1>4, <2>1, <2>2, Consed
  <1>6. Pop(q) /\ Range(q) \subseteq Reported' /\ (timer' # "expired" => Reported' \subseteq Range(q))
    BY <1>1, <1>2, <1>3, <1>4, <1>5
  <1> HIDE DEF q
  <1>7. /\ waiting' \in Seq(Process) /\ got' \in {<<>>} \cup {<<x>> : x \in 0 .. Timer}
        /\ NotForgotten'
    BY <1>5, <1>6, PopKeeps
  <1>8. Typed'
    BY <1>1, <1>3, <1>7 DEF Typed, IInv, Kept
  <1>9. Idle'
    BY <1>1, <1>3 DEF Idle, Kept
  <1> QED  BY <1>3, <1>7, <1>8, <1>9 DEF IInv

LEMMA RecheckKeeps ==
    ASSUME IInv, Recheck
    PROVE  IInv'
  <1>1. /\ Kept /\ pc = "run" /\ Looks /\ waiting # <<>> /\ Pop(waiting)
        /\ UNCHANGED <<srv, prog, expect, timer, deaths>>
    BY DEF Recheck, LoopUnchanged, Looks, Kept
  <1>2. Reported' = Reported
    BY <1>1 DEF Reported
  <1>3. /\ waiting \in Seq(Process) /\ IsInjective(waiting) /\ Range(waiting) \subseteq Reported'
        /\ timer' # "expired" => Reported' \subseteq Range(waiting)
    BY <1>1, <1>2, QueueHolds
  <1>4. /\ waiting' \in Seq(Process) /\ got' \in {<<>>} \cup {<<x>> : x \in 0 .. Timer}
        /\ NotForgotten'
    BY <1>1, <1>3, PopKeeps
  <1>5. Typed'
    BY <1>1, <1>4 DEF Typed, IInv, Kept
  <1>6. Idle'
    BY <1>1, ServersAlone DEF Idle, Kept
  <1> QED  BY <1>1, <1>4, <1>5, <1>6, ServersAlone DEF IInv

LEMMA CancelWaitingKeeps ==
    ASSUME IInv, CancelWaiting
    PROVE  IInv'
  <1>1. /\ Kept /\ pc = "run" /\ got = <<>> /\ timer = "expired" /\ waiting' = <<>>
        /\ UNCHANGED <<srv, prog, expect, timer, deaths, got>>
    BY DEF CancelWaiting, LoopUnchanged, Looks, Kept
  <1>2. NotForgotten'
    <2>1. (got \o waiting)' = <<>>
      BY <1>1, Nothing
    <2> QED  BY <1>1, <2>1, Nothing DEF NotForgotten
  <1>3. Typed'
    <2>1. <<>> \in Seq(Process)
      OBVIOUS
    <2> QED  BY <1>1, <2>1 DEF Typed, IInv, Kept
  <1>4. Idle'
    BY <1>1, ServersAlone DEF Idle, Kept
  <1> QED  BY <1>1, <1>2, <1>3, <1>4, ServersAlone DEF IInv

LEMMA WaitAnyKeeps ==
    ASSUME IInv, WaitAny
    PROVE  IInv'
  <1>1. /\ Kept /\ pc = "run" /\ Looks /\ waiting = <<>> /\ waiting' = <<>>
        /\ UNCHANGED <<expect, timer, deaths>>
    BY DEF WaitAny, LoopUnchanged, Looks, Kept
  <1>2. timer # "expired" => Reported = {}
    BY <1>1, QueueHolds, Nothing
  <1>3. ASSUME NEW p \in Unreported, Collect(p), got' = <<p>>
        PROVE  IInv'
    <2>1. /\ srv' \in [Server -> Mysqld]
          /\ p \in Process /\ p \notin Reported /\ Reported' = Reported \cup {p}
          /\ \A r \in Server \ Servers' : srv'[r].proc = "none"
          /\ Faithful' /\ Asked' /\ Decided' /\ AllStarted'
      BY <1>1, <1>3, CollectKeeps
    <2>2. NotForgotten'
      <3>1. (got \o waiting)' = <<p>> \o <<>>
        BY <1>1, <1>3
      <3>2. <<p>> \o <<>> = <<p>>
        OBVIOUS
      <3> QED  BY <1>1, <1>2, <2>1, <3>1, <3>2, Single DEF NotForgotten
    <2>3. Typed'
      <3>1. got' \in {<<>>} \cup {<<x>> : x \in 0 .. Timer}
        BY <1>3, <2>1, Names
      <3> QED  BY <1>1, <2>1, <3>1 DEF Typed, IInv, Kept
    <2>4. Idle'
      BY <1>1, <2>1 DEF Idle, Kept
    <2> QED  BY <2>1, <2>2, <2>3, <2>4 DEF IInv
  <1>4. ASSUME timer = "expired", got' = <<Timer>>, UNCHANGED <<srv, prog>>
        PROVE  IInv'
    <2>1. NotForgotten'
      <3>1. (got \o waiting)' = <<Timer>> \o <<>>
        BY <1>1, <1>4
      <3>2. <<Timer>> \o <<>> = <<Timer>>
        OBVIOUS
      <3> QED  BY <1>1, <1>4, <3>1, <3>2, Single DEF NotForgotten
    <2>2. Typed'
      <3>1. got' \in {<<>>} \cup {<<x>> : x \in 0 .. Timer}
        BY <1>4, Names
      <3> QED  BY <1>1, <1>4, <3>1 DEF Typed, IInv, Kept
    <2>3. Idle'
      BY <1>1, <1>4, ServersAlone DEF Idle, Kept
    <2> QED  BY <1>1, <1>4, <2>1, <2>2, <2>3, ServersAlone DEF IInv
  <1> QED  BY <1>3, <1>4 DEF WaitAny

-----------------------------------------------------------------------------
(* A server that has died.                                                 *)
LEMMA InHand ==
    ASSUME IInv, NEW s \in Server, got = <<s>>
    PROVE  /\ pc = "run" /\ s \in Servers /\ srv[s].proc = "gone"
           /\ waiting \in Seq(Process) /\ IsInjective(waiting)
           /\ s \notin Range(waiting) /\ Range(waiting) \subseteq Reported
           /\ timer # "expired" => Reported \subseteq {s} \cup Range(waiting)
  <1>1. pc = "run"
    BY DEF Idle, IInv
  <1>2. waiting \in Seq(Process) /\ s \in Process
    BY Names DEF Typed, IInv
  <1>3. /\ Range(got \o waiting) = {s} \cup Range(waiting)
        /\ IsInjective(got \o waiting) <=> IsInjective(waiting) /\ s \notin Range(waiting)
    BY <1>2, Consed
  <1>4. Timer \notin Range(waiting) /\ s # Timer /\ s # MySqlTest
    BY <1>2, Names DEF Range
  <1>5. /\ {s} \cup Range(waiting) \subseteq Reported
        /\ IsInjective(waiting) /\ s \notin Range(waiting)
        /\ timer # "expired" => Reported \subseteq {s} \cup Range(waiting)
    BY <1>1, <1>3, <1>4 DEF NotForgotten, IInv
  <1>6. srv[s].proc = "gone"
    BY <1>4, <1>5 DEF Reported
  <1> QED  BY <1>1, <1>2, <1>5, <1>6 DEF Idle, IInv

LEMMA RestartKeeps ==
    ASSUME IInv, NEW s \in Server, Restart(s)
    PROVE  IInv'
  <1> DEFINE r == IF expect[s] = "options" THEN Extra ELSE None
             m == [srv[s] EXCEPT !.restart = r]
             n == Launch(m, s, m.opts)
  <1>1. /\ Kept /\ got = <<s>> /\ got' = <<>> /\ srv' = [srv EXCEPT ![s] = n]
        /\ expect' = [expect EXCEPT ![s] = "none"]
        /\ UNCHANGED <<prog, timer, waiting, deaths>>
    BY DEF Restart, Kept
  <1>2. /\ pc = "run" /\ s \in Servers /\ srv[s].proc = "gone"
        /\ waiting \in Seq(Process) /\ IsInjective(waiting)
        /\ s \notin Range(waiting) /\ Range(waiting) \subseteq Reported
        /\ timer # "expired" => Reported \subseteq {s} \cup Range(waiting)
    BY <1>1, InHand
  <1>3. srv \in [Server -> Mysqld] /\ srv[s] \in Mysqld /\ test \in Tests
    BY <1>2 DEF IInv, Typed
  <1>4. m \in Mysqld /\ m.opts = srv[s].opts /\ m.tz = srv[s].tz /\ m.restart = r
    <2>1. r \in Reset
      BY DEF Reset
    <2> HIDE DEF r
    <2> QED  BY <1>3, <2>1, ResetObject
  <1>5. m.opts \in AllOpts
    BY <1>4, Fields
  <1>6. srv[s].tz = test.tz
    BY <1>2 DEF Asked, IInv
  <1> HIDE DEF m, r
  <1>7. /\ n \in Mysqld /\ n.proc = "up" /\ n.opts = srv[s].opts /\ n.tz = srv[s].tz
        /\ n.runs = <<n.opts, n.restart, n.tz>>
    BY <1>3, <1>4, <1>5, <1>6, LaunchedObject
  <1> HIDE DEF n
  <1>8. srv' \in [Server -> Mysqld] /\ srv'[s] = n /\ \A x \in Server \ {s} : srv'[x] = srv[x]
    BY <1>1, <1>3, <1>7
  <1>9. /\ \A x \in Server \ Servers' : srv'[x].proc = "none"
        /\ Faithful' /\ Asked' /\ Decided' /\ AllStarted'
    <2>1. \A x \in Server :
              /\ srv'[x].proc = "none" <=> srv[x].proc = "none"
              /\ srv'[x].proc # "none" =>
                    srv'[x].runs = <<srv'[x].opts, srv'[x].restart, srv'[x].tz>>
              /\ srv'[x].opts = srv[x].opts /\ srv'[x].tz = srv[x].tz
      BY <1>2, <1>7, <1>8 DEF Faithful, IInv
    <2> QED  BY <1>1, <1>2, <1>8, <2>1, ServersKept
  <1>10. NotForgotten'
    <2>1. s # MySqlTest
      BY Names
    <2>2. Reported' = Reported \ {s}
      BY <1>1, <1>7, <1>8, <2>1 DEF Reported
    <2>3. (got \o waiting)' = waiting
      BY <1>1, <1>2, Nothing
    <2> QED  BY <1>1, <1>2, <2>2, <2>3 DEF NotForgotten
  <1>11. Typed'
    <2>1. expect' \in [Server -> File]
      BY <1>1 DEF IInv, Typed, File
    <2> QED  BY <1>1, <1>8, <2>1 DEF Typed, IInv, Kept
  <1>12. Idle'
    BY <1>1, <1>2, <1>9 DEF Idle, Kept
  <1> QED  BY <1>9, <1>10, <1>11, <1>12 DEF IInv

LEMMA KeepWaitingKeeps ==
    ASSUME IInv, NEW s \in Server, KeepWaiting(s)
    PROVE  IInv'
  <1>1. /\ Kept /\ got = <<s>> /\ got' = <<>> /\ waiting' = <<s>> \o waiting
        /\ UNCHANGED <<srv, expect, prog, timer, deaths>>
    BY DEF KeepWaiting, Kept, worker
  <1>2. /\ pc = "run" /\ srv[s].proc = "gone"
        /\ waiting \in Seq(Process) /\ IsInjective(waiting)
        /\ s \notin Range(waiting) /\ Range(waiting) \subseteq Reported
        /\ timer # "expired" => Reported \subseteq {s} \cup Range(waiting)
    BY <1>1, InHand
  <1>3. /\ <<s>> \o waiting \in Seq(Process) /\ Range(<<s>> \o waiting) = {s} \cup Range(waiting)
        /\ IsInjective(<<s>> \o waiting)
    BY <1>2, Names, Consed
  <1>4. NotForgotten'
    <2>1. s \in Reported /\ Reported' = Reported
      BY <1>1, <1>2 DEF Reported
    <2>2. (got \o waiting)' = <<s>> \o waiting
      BY <1>1, <1>3, Nothing
    <2> QED  BY <1>1, <1>2, <1>3, <2>1, <2>2 DEF NotForgotten
  <1>5. Typed'
    BY <1>1, <1>3 DEF Typed, IInv, Kept
  <1>6. Idle'
    BY <1>1, <1>2, ServersAlone DEF Idle, Kept
  <1> QED  BY <1>1, <1>4, <1>5, <1>6, ServersAlone DEF IInv

-----------------------------------------------------------------------------
(* Every step, and what follows for all behaviours.                        *)
LEMMA InitHolds == ASSUME Init PROVE IInv
  <1>1. /\ config = None /\ srv = [s \in Server |-> Fresh] /\ expect = [s \in Server |-> "none"]
        /\ pc = "next" /\ deaths = 0 /\ prog = "none" /\ waiting = <<>> /\ got = <<>>
    BY DEF Init
  <1>2. Fresh \in Mysqld /\ Fresh.proc = "none"
    BY Unasked DEF Fresh, Mysqld, Flags
  <1>3. Typed
    <2>1. srv \in [Server -> Mysqld] /\ expect \in [Server -> File]
      BY <1>1, <1>2 DEF File
    <2>2. deaths \in 0 .. MaxDeaths /\ <<>> \in Seq(Process)
      BY <1>1, MtrServersAssumption
    <2> QED  BY <1>1, <2>1, <2>2 DEF Typed
  <1>4. Idle /\ Faithful
    BY <1>1, <1>2 DEF Idle, Faithful
  <1>5. Asked /\ Decided /\ AllStarted /\ NotForgotten
    BY <1>1 DEF Asked, Decided, AllStarted, NotForgotten
  <1> QED  BY <1>3, <1>4, <1>5 DEF IInv

LEMMA Stutter == ASSUME IInv, UNCHANGED vars PROVE IInv'
  <1>1. /\ Kept /\ UNCHANGED <<srv, expect, prog, timer, waiting, got, deaths>>
    BY DEF vars, worker, running, Kept
  <1>2. NotForgotten'
    <2>1. Reported' = Reported
      BY <1>1 DEF Reported
    <2> QED  BY <1>1, <2>1, HeldKept
  <1>3. Typed'
    BY <1>1 DEF Typed, IInv, Kept
  <1>4. Idle'
    BY <1>1, ServersAlone DEF Idle, IInv, Kept
  <1> QED  BY <1>1, <1>2, <1>3, <1>4, ServersAlone DEF IInv

LEMMA StepKeeps == ASSUME IInv, [Next]_vars PROVE IInv'
  <1>1. CASE \E t \in Tests : NextTest(t)
    BY <1>1, NextTestKeeps
  <1>2. CASE Worker
    <2>1. CASE StartServers
      BY <2>1, StartServersKeeps
    <2>2. CASE StartMysqltest
      BY <2>2, StartMysqltestKeeps
    <2>3. CASE CannotBegin
      BY <2>3, ReportFailureKeeps DEF CannotBegin
    <2>4. CASE Loop
      BY <2>4, TakeTurnsKeeps, RecheckKeeps, CancelWaitingKeeps, WaitAnyKeeps DEF Loop
    <2>5. CASE ServerDown
      BY <2>5, RestartKeeps, KeepWaitingKeeps, ReportFailureKeeps DEF ServerDown, ServerFailed
    <2>6. CASE TimedOut
      BY <2>6, ReportFailureKeeps DEF TimedOut
    <2>7. CASE TestOver
      BY <2>7, TestOverKeeps
    <2> QED  BY <1>2, <2>1, <2>2, <2>3, <2>4, <2>5, <2>6, <2>7 DEF Worker
  <1>3. CASE Environment
    BY <1>3, WritesKeeps, DiesKeeps, ExitsKeeps, ExpiresKeeps DEF Environment
  <1>4. CASE UNCHANGED vars
    BY <1>4, Stutter
  <1> QED  BY <1>1, <1>2, <1>3, <1>4 DEF Next

(* The inductive invariant holds of every state.                           *)
THEOREM Invariance == Spec => []IInv
  BY InitHolds, StepKeeps, PTL DEF Spec

LEMMA QueueSoundOfIInv == ASSUME IInv PROVE QueueSound
  <1>1. \A s \in Server : srv[s] \in Mysqld
    BY DEF IInv, Typed
  <1>2. \A s \in Server :
            /\ srv[s].proc \in {"none", "up", "dead", "gone"} /\ srv[s].restart \in {None, Extra}
            /\ srv[s].need \in {"undef", "no", "yes"} /\ srv[s].services \in BOOLEAN
    BY <1>1, Fields DEF Reset, Flags
  <1> QED  BY <1>2 DEF QueueSound, TypeOK, IInv, Typed, Process

(* No exit of a process is lost: until the timer of the test has expired,  *)
(* what was reported is in the queue or in hand, once (lines 4725-4746).   *)
THEOREM QueueSoundAlways == Spec => []QueueSound
  BY Invariance, QueueSoundOfIInv, PTL

(* A test starts on the servers it asks for, whatever tests came before    *)
(* and however they ended (lines 6321-6500, 6563-6598, 6605-6953).         *)
THEOREM StartsRightAlways == Spec => StartsRight
  <1>1. ASSUME IInv, [Next]_vars, pc = "start", pc' = "ready" PROVE StartServers
    <2>1. pc' # pc
      BY <1>1
    <2>2. CASE \E t \in Tests : NextTest(t)
      BY <1>1, <2>2 DEF NextTest
    <2>3. CASE Environment
      BY <2>1, <2>3 DEF Environment, Writes, Dies, Exits, Expires, worker
    <2>4. got = <<>>
      BY <1>1 DEF Idle, IInv
    <2>5. CASE Worker
      <3>1. ~CannotBegin /\ ~StartMysqltest /\ ~Loop
        BY <1>1 DEF CannotBegin, StartMysqltest, Loop, TakeTurns, Recheck, CancelWaiting, WaitAny, Looks
      <3>2. ~ServerDown /\ ~TimedOut /\ ~TestOver
        BY <2>4 DEF ServerDown, Restart, KeepWaiting, ServerFailed, TimedOut, TestOver
      <3> QED  BY <2>5, <3>1, <3>2 DEF Worker
    <2>6. CASE UNCHANGED vars
      BY <2>1, <2>6 DEF vars
    <2> QED  BY <1>1, <2>2, <2>3, <2>5, <2>6 DEF Next
  <1>2. ASSUME IInv, [Next]_vars
        PROVE  [pc = "start" /\ pc' = "ready" =>
                 /\ config = test.template
                 /\ \A s \in Servers :
                     /\ srv'[s].proc # "none"
                     /\ srv'[s].runs = <<Opts(test, s), None, test.tz>>
                     /\ s \in Starting /\ LookedAt(s) /\ srv[s].need # "no"
                        => data'[s] = Boot(test, s)]_vars
    BY <1>1, <1>2, StartServersRight
  <1> QED  BY Invariance, <1>2, PTL DEF Spec, StartsRight

(* A test is reported as passed only if its program said so and, unless a  *)
(* restart is forced, every server still ran, those apart that the test    *)
(* has restarted with other options (lines 4785-4909, 4119-4228).          *)
THEOREM HonestVerdictAlways == Spec => HonestVerdict
  <1>1. ASSUME IInv, [Next]_vars, pc = "run", pc' = "next", verdict' = "passed" PROVE TestOver
    <2>1. pc' # pc /\ ~ReportFailure
      BY <1>1, ReportFailureKeeps
    <2>2. CASE \E t \in Tests : NextTest(t)
      BY <1>1, <2>2 DEF NextTest
    <2>3. CASE Environment
      BY <2>1, <2>3 DEF Environment, Writes, Dies, Exits, Expires, worker
    <2>4. CASE Worker
      <3>1. ~StartServers /\ ~CannotBegin /\ ~StartMysqltest /\ ~TimedOut
        BY <1>1, <2>1 DEF StartServers, CannotBegin, StartMysqltest, TimedOut
      <3>2. ~Loop
        BY <2>1 DEF Loop, TakeTurns, Recheck, CancelWaiting, WaitAny, LoopUnchanged
      <3>3. ~ServerDown
        BY <2>1 DEF ServerDown, Restart, KeepWaiting, ServerFailed, worker
      <3> QED  BY <2>4, <3>1, <3>2, <3>3 DEF Worker
    <2>5. CASE UNCHANGED vars
      BY <2>1, <2>5 DEF vars
    <2> QED  BY <1>1, <2>2, <2>3, <2>4, <2>5 DEF Next
  <1>2. ASSUME IInv, [Next]_vars
        PROVE  [pc = "run" /\ pc' = "next" /\ verdict' = "passed" =>
                 /\ got = <<MySqlTest>> /\ res = "passed"
                 /\ \/ \A s \in Servers : srv'[s].proc = "none"
                    \/ \A s \in Servers : srv[s].proc = "up" \/ srv[s].restart # None]_vars
    BY <1>1, <1>2, PassedRightly
  <1> QED  BY Invariance, <1>2, PTL DEF Spec, HonestVerdict

=============================================================================
