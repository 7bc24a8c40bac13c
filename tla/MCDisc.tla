------------------------------- MODULE MCDisc -------------------------------
(* Scenes of the discovery children for TLC. *)
EXTENDS Disc, Integers

N(v) == [k |-> "name", v |-> v]

A(v) == [k |-> "addr", v |-> v]

J == [k |-> "junk", v |-> "x"]

\* two targets, the second with its default portal; one of them moved; addresses that cannot be resolved
T1 == <<N("a"), A("p"), A("q"), N("b")>>
T2 == <<N("a"), A("q"), J>>
T3 == <<J, N("a"), N("b"), A("bad"), A("p"), N("c")>>

StBase == [mode |-> "tcp", texts |-> <<T1, T2>>, poll |-> TRUE, ifaces |-> 1, reopen |-> 1, nf |-> 2,
           faults |-> {"send", "err", "hup", "io"}, stages |-> {"timeout", "connect"}, teardown |-> {}]

MCStScenes ==
  { StBase,
    [StBase EXCEPT !.stages = {"socket", "bind", "nodelay"}, !.ifaces = 2,
                   !.faults = {"alloc", "iname", "resolve", "other", "broken", "eintr", "clock", "nomem"}],
    [StBase EXCEPT !.faults = {"io", "fatal", "temp", "perm", "other", "target"}, !.poll = FALSE,
                   !.texts = <<T1>>],
    [StBase EXCEPT !.texts = <<T3, <<>>>>, !.faults = {"hup"}],
    \* through the kernel
    [StBase EXCEPT !.mode = "ep", !.faults = {"params", "start", "early", "send"}, !.texts = <<T1>>,
                   !.stages = {"open", "net", "ep", "poll", "sess", "conn", "bind"},
                   !.teardown = {"ep", "stop", "conn", "sess"}],
    [StBase EXCEPT !.mode = "offload", !.faults = {"early", "wait_fatal", "wait_trans", "start"},
                   !.texts = <<T2, T1>>, !.stages = {"sess"}, !.teardown = {"stop"}, !.nf = 3] }

IsnsBase == [def |-> TRUE, ifaces |-> {""}, poll |-> -1, period |-> TRUE, faults |-> {}, nf |-> 2, drops |-> 1,
             changes |-> 2, tgts |-> {"t1", "t2"}, client |-> FALSE, signal |-> FALSE]

MCIsnsScenes ==
  { IsnsBase,
    [IsnsBase EXCEPT !.client = TRUE, !.faults = {"register"}],
    [IsnsBase EXCEPT !.ifaces = {"", "n2"}, !.faults = {"scn", "send", "connect"}],
    [IsnsBase EXCEPT !.ifaces = {"", "n2"}, !.faults = {"lost", "query", "nomem"}],
    [IsnsBase EXCEPT !.ifaces = {"", "n2"}, !.faults = {"lost", "query", "scn", "nomem"}, !.poll = 1],
    [IsnsBase EXCEPT !.client = TRUE, !.poll = 1, !.signal = TRUE, !.changes = 1],
    [IsnsBase EXCEPT !.poll = 0, !.faults = {"register"}, !.signal = TRUE],
    [IsnsBase EXCEPT !.period = FALSE],
    [IsnsBase EXCEPT !.def = FALSE] }
=============================================================================
