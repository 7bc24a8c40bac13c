------------------------------- MODULE MCNic -------------------------------
(***************************************************************************)
(* Scenes of iscsiuio for TLC.                                              *)
(***************************************************************************)
EXTENDS Nic

Req4(v, a) == [proto |-> 4, vlan |-> v, num |-> NumInvalid, addr |-> a, autocfg |-> "unused",
               ping |-> FALSE, lenok |-> TRUE, after |-> 0]

Base == [reqs |-> <<Req4(0, 1)>>, msgs |-> <<>>, open |-> {"ok"}, nomem |-> FALSE, dhcpok |-> TRUE,
         slow |-> {}, uio |-> TRUE, lib |-> TRUE, fine |-> TRUE, patient |-> FALSE]

Path(p, v) == [proto |-> p, vlan |-> v, num |-> NumInvalid, after |-> 1]

IfDown(a) == [Path(0, 0) EXCEPT !.after = a]

Patient == [Base EXCEPT !.patient = TRUE]

MCScenes ==
  { \* two vlans, one of them with DHCP
    [Base EXCEPT !.reqs = <<Req4(1, 1), [Req4(2, 0) EXCEPT !.after = 1]>>],
    \* both families, numbered interfaces
    [Base EXCEPT !.reqs = <<[Req4(0, 1) EXCEPT !.num = 0],
                            [Req4(0, 0) EXCEPT !.proto = 6, !.num = 0, !.autocfg = "nd", !.after = 1]>>],
    [Base EXCEPT !.reqs = <<[Req4(0, 0) EXCEPT !.proto = 6, !.num = 1, !.autocfg = "dhcpv6"]>>,
                 !.msgs = <<[Path(6, 0) EXCEPT !.num = 1], Path(4, 0)>>],
    \* a path request that needs a vlan interface of its own
    [Base EXCEPT !.reqs = <<[Req4(0, 1) EXCEPT !.num = 2]>>, !.msgs = <<Path(4, 3)>>],
    \* failures
    [Base EXCEPT !.open = {"fail"}, !.fine = FALSE],
    [Base EXCEPT !.open = {"notsup"}, !.fine = FALSE],
    [Base EXCEPT !.nomem = TRUE, !.fine = FALSE],
    [Base EXCEPT !.slow = {"E1"}, !.fine = FALSE],
    [Base EXCEPT !.slow = {"N"}, !.msgs = <<Path(4, 3)>>, !.fine = FALSE],
    [Base EXCEPT !.uio = FALSE],
    [Base EXCEPT !.lib = FALSE, !.msgs = <<[Path(4, 0) EXCEPT !.after = 0], IfDown(0)>>],
    [Base EXCEPT !.reqs = <<Req4(4095, 1), [Req4(0, 1) EXCEPT !.proto = 0]>>],
    \* ping
    [Base EXCEPT !.reqs = <<[Req4(0, 1) EXCEPT !.ping = TRUE]>>],
    [Base EXCEPT !.reqs = <<[Req4(0, 1) EXCEPT !.ping = TRUE, !.lenok = FALSE]>>],
    \* if_down
    [Base EXCEPT !.msgs = <<IfDown(1), Path(4, 0)>>, !.fine = FALSE],
    \* iscsid does not ask while an enable thread starts; a nic that goes down, comes back and goes down
    [Patient EXCEPT !.reqs = <<Req4(1, 1), [Req4(2, 0) EXCEPT !.after = 1]>>],
    [Patient EXCEPT !.reqs = <<[Req4(0, 0) EXCEPT !.proto = 6, !.autocfg = "nd"], [Req4(0, 1) EXCEPT !.after = 1]>>],
    [Patient EXCEPT !.reqs = <<Req4(0, 0)>>, !.dhcpok = FALSE, !.fine = FALSE],
    [Patient EXCEPT !.reqs = <<Req4(0, 1), [Req4(0, 1) EXCEPT !.after = 1]>>, !.msgs = <<IfDown(1), IfDown(2)>>,
                    !.fine = FALSE] }
=============================================================================
