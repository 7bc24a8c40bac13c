-------------------------------- MODULE Admin --------------------------------
(***************************************************************************)
(* iscsiadm as a whole: the commands it sends to iscsid (Daemon) and those   *)
(* it carries out itself through the netlink socket of a card (Host).        *)
(* Neither kind waits for the other, so a behaviour has one of them.         *)
(***************************************************************************)
EXTENDS Daemon, Host

\* iscsid has not been started and nobody asks it
NoDaemon ==
  /\ loop = "exited" /\ event_loop_stop = FALSE /\ shutdown_qtask = NoReq
  /\ notified = FALSE /\ cur = NoReq /\ reap_count = 0 /\ shutdown_callbacks = {}
  /\ sessions_to_recover = FALSE /\ backlog = <<>>
  /\ conn = [q \in Reqs |-> NoConn] /\ sess = [s \in Sids |-> NoSess]
  /\ child = [c \in Children |-> "none"]
  /\ stop_discoveryd = [d \in Discs |-> FALSE]
  /\ iscsi_targets = [d \in Discs |-> {}] /\ rounds = [d \in Discs |-> 0]
  /\ prog = [p \in Procs |-> <<>>]
  /\ lost = FALSE /\ drecs = {} /\ signals = 0 /\ crashes = 0

AdminInit == (Init /\ HostIdle) \/ (HostInit /\ NoDaemon)

AdminNext == (Next /\ UNCHANGED hostvars) \/ (HostNext /\ UNCHANGED vars)

AdminSpec == AdminInit /\ [][AdminNext]_<<vars, hostvars>> /\ Fairness /\ HostFairness

\* Every command of iscsiadm ends: what it waits for from iscsid is answered or cut off, a listing of
\* the card moves on with every answer and a ping gives up after its time.
CommandsEnd == ClientsEnd /\ HostEnds
=============================================================================
