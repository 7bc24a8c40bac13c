-------------------------------- MODULE Disc --------------------------------
(***************************************************************************)
(* The discovery children of iscsid.  discoveryd_start forks one for every   *)
(* discovery record that asks for it, an iSNS child or a SendTargets child.  *)
(* They share no state, so a behaviour has one of either kind.               *)
(***************************************************************************)
EXTENDS SendTargets, Isns

vars == <<d, n>>

\* no SendTargets child
NoSt == StState([mode |-> "tcp", texts |-> <<<<>>>>, poll |-> FALSE, ifaces |-> 1, reopen |-> 0, nf |-> 0,
                 faults |-> {}, stages |-> {}, teardown |-> {}], "exit")

\* no iSNS child
NoIsns == IsnsState([def |-> TRUE, ifaces |-> {}, poll |-> 0, period |-> FALSE, faults |-> {}, nf |-> 0, drops |-> 0,
                    changes |-> 0, tgts |-> {}, client |-> FALSE, signal |-> FALSE], "exit")

discoveryd_start == \/ IsnsInit /\ d = NoSt
                    \/ StInit /\ n = NoIsns

Next == \/ StNext /\ UNCHANGED n
        \/ IsnsNext /\ UNCHANGED d

Spec == discoveryd_start /\ [][Next]_vars /\ StFairness /\ IsnsFairness

\* An iSNS child that has a registration period to keep is registered again and again, whatever the
\* server forgets and whoever else deregisters the node; and once the targets of the server stop
\* changing, a child that polls has sessions to exactly these.  So has one that lives from notifications,
\* except in three cases that CanFollow names: a notification was lost (none is sent again), the query
\* it causes failed (it is not retried), or an interface has an initiator name of its own
\* (update_sessions then passes over records, whatever its comment says of iname).
Follows == StaysRegistered /\ Converges
=============================================================================
