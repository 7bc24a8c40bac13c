------------------------------ MODULE MCSession ------------------------------
(* Session for TLC: the setups of the runs; the requests are interchangeable. *)
EXTENDS Session, TLC

Symmetry == Permutations(Req)

Setup(fail, maxfail, replies, faults) ==
  [offload |-> FALSE, fail |-> fail, maxfail |-> maxfail, replies |-> replies, faults |-> faults, reqs |-> 2,
   maxnl |-> 1]

\* software sessions with failing calls and with more events at a time, one with restarts of iscsid, and an
\* offloaded one; the last two with a later request
SoftAndOffload ==
  { Setup({"ep_connect", "send_pdu", "bind_conn"}, 1, {"more", "full", "target_err", "moved_temp"}, {"error"}),
    [Setup({"send_pdu"}, 1, {"full", "target_err"}, {"error"}) EXCEPT !.maxnl = 2],
    [Setup({"create_conn", "send_pdu"}, 1, {"full", "auth_failed"}, {"error", "crash"}) EXCEPT !.reqs = 3],
    [Setup({"start_exists", "start_conn", "set_params"}, 2, {}, {"error"})
       EXCEPT !.offload = TRUE, !.reqs = 3, !.maxnl = 2] }

Teardown == {Setup({"stop_conn", "destroy_conn", "destroy_session", "host_again"}, 1, {"full"},
                   {"error", "host", "crash"})}

Fair == {Setup({"ep_connect", "bind_conn", "send_pdu", "host_again"}, 2, {"more", "full", "target_err", "moved_temp"}, {"error"})}

NoDestroy == {Setup({"destroy_conn"}, 2, {"full"}, {})}
==============================================================================
