------------------------------- MODULE MCIdbm -------------------------------
(* One target with a portal, a software iface and an iface of an offload host; *)
(* a SendTargets and an iSNS server.                                           *)
EXTENDS Idbm

CONSTANTS P1, P2, T1

MCPortals == {T1}
MCIfaces == {"sw", "hw"}
MCHost == {"hw"}
MCSources == {"st", "isns"}
MCIsns == {"isns"}
MCRunning == {<<T1, "hw">>}
Sw == <<T1, "sw">>
Hw == <<T1, "hw">>
MCDatabases == { {<<Sw, "st">>}, {<<Hw, "isns">>} }

Node(op) == [mode |-> "node", op |-> op]
NodeNew(k) == [mode |-> "node", op |-> "new", k |-> k]
NodePat(op, S) == [mode |-> "node", op |-> op, pat |-> S, ruw |-> TRUE, valid |-> TRUE]
Iface(op, j) == [mode |-> "iface", op |-> op, j |-> j]
Disc2(op, s) == [mode |-> "discoverydb", op |-> op, s |-> s]
Disc(mode, s, j, new, update, delete) ==
  [mode |-> mode, op |-> "discover", s |-> s, j |-> j, found |-> {T1}, new |-> new,
   update |-> update, delete |-> delete, sync |-> (mode = "discovery" /\ s = "st")]

MCCommands ==
  { NodeNew(Sw), NodeNew(<<T1, Old>>),
    [mode |-> "node", op |-> "bind", j |-> "sw"],
    NodePat("update", Keys), NodePat("delete", Keys),
    [NodePat("login", Keys) EXCEPT !.ruw = FALSE], Node("show"),
    [NodePat("update", Keys) EXCEPT !.valid = FALSE], Iface("show", "sw"),
    Iface("new", "sw"), Iface("update", "sw"), Iface("delete", "sw"),
    Disc2("update", "st"), Disc2("delete", "st"),
    Disc("discovery", "st", Default, TRUE, TRUE, TRUE),
    Disc("discovery", Fw, "sw", TRUE, TRUE, FALSE),
    Disc("discoverydb", "isns", "sw", TRUE, FALSE, TRUE) }
=============================================================================
