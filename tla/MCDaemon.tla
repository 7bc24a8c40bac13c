------------------------------ MODULE MCDaemon ------------------------------
(* Instances of Daemon for TLC: a few scenes, each with the actors it needs. *)
EXTENDS Daemon

\* b may have two sessions, a1 and a2 are one target through two ifaces
MCNrSessions == [r \in Recs |-> IF r = "b" THEN 2 ELSE 1]
MCTarget == [r \in Recs |-> IF r = "b" THEN "tb" ELSE "ta"]
MCIface == [r \in Recs |-> IF r = "a2" THEN "i2" ELSE "i1"]
MCStartup == [r \in Recs |-> CASE r = "a" -> "automatic" [] r = "b" -> "onboot" [] OTHER -> "manual"]

Scene(c1, c2, ds, old, sig, crash) ==
  [script |-> [p \in Clients |-> CASE p = "c1" -> c1 [] p = "c2" -> c2 [] OTHER -> <<>>],
   drecs |-> ds, old |-> old, signals |-> sig, crashes |-> crash]

login(recs) == exec_node_op("login", recs, TRUE)
logout(recs) == exec_node_op("logout", recs, TRUE)

MCSetups ==
  { Scene(login({"a"}), login_by_startup("automatic", TRUE), {}, {}, 0, 1),
    Scene(login({"a"}), logout({"a"}), {}, {}, 1, 0),
    Scene(kill_iscsid, <<>>, {"d1"}, {}, 1, 0),
    Scene(login({"a"}), <<>>, {"d1"}, {}, 0, 0),
    Scene(kill_iscsid, kill_iscsid, {}, {"a"}, 0, 0),
    Scene(logout_by_startup("all"), exec_node_op("stats", {"a"}, TRUE), {}, {"a"}, 0, 0),
    Scene(exec_node_op("multiple", {"b"}, TRUE), <<>>, {}, {"a"}, 0, 0),
    Scene(exec_node_op("multiple", {"b"}, TRUE), login_by_startup("manual", FALSE), {}, {}, 0, 0),
    Scene(exec_fw_op({"b"}, FALSE), get_config_file, {}, {}, 0, 0),
    Scene(<<>>, iscsid_exec_req("conn_add", "tmo"), {"d2"}, {}, 0, 0),
    Scene(iscsid_exec_req("notify", "tmo"), discovery_offload_sendtargets, {}, {}, 0, 0),
    [Scene(<<>>, LogoutPortals({"a"}, FALSE), {}, {"a"}, 0, 0)
       EXCEPT !.script["c3"] = get_config_file]}

ASSUME MCModest == ModestSetups
=============================================================================
