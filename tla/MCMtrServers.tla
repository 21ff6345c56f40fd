---------------------------- MODULE MCMtrServers ----------------------------
(* A master and its slave, and tests that differ in what they ask for.     *)
EXTENDS MtrServers

MCTemplate == [single |-> {1}, rpl |-> {1, 2}]

Both(m, s) == [master |-> m, slave |-> s]
Plain == [template |-> "rpl", opts |-> Both("a", "a"), boot |-> Both(None, None),
          tz |-> "GMT", force_restart |-> FALSE, rpl_test |-> FALSE]
OtherOpts == [Plain EXCEPT !.opts = Both("a", "b"), !.tz = "UTC"]
BootMaster == [Plain EXCEPT !.boot = Both("x", None)]
BootBoth == [Plain EXCEPT !.boot = Both("x", "y"), !.rpl_test = TRUE]
Single == [Plain EXCEPT !.template = "single", !.boot = Both("x", None),
                        !.force_restart = TRUE]

MCTests == {Plain, OtherOpts, BootMaster, BootBoth, Single}
=============================================================================
