-------------------------------- MODULE Isns --------------------------------
(***************************************************************************)
(* iSNS discovery (usr/discoveryd.c, usr/discovery.c): the child of iscsid   *)
(* that registers the initiator's nodes with an iSNS server, keeps the      *)
(* registration alive and follows the server's targets, and the one-time    *)
(* discovery of another process that borrows a registration.  n.srv is the   *)
(* server, n.list the refresh entries, n.tm and n.disc the entries that       *)
(* one-shot and periodic timers were given, n.fly the entity queries in       *)
(* flight.                                                                   *)
(***************************************************************************)
EXTENDS Integers, FiniteSets, FiniteSetsExt

CONSTANT IsnsScenes  \* interfaces, polling, server and faults of each scene

VARIABLE n

Entries == 1..3

\* isns_config.ic_source_name
Source == "n1"

NotSet == ""

(*------------------------------- the nodes --------------------------------*)

\* def_iname and the names of the ifaces, each once
isns_create_node_list(sc) == (IF sc.def THEN {Source} ELSE {}) \cup (sc.ifaces \ {NotSet})

isns_initiators == isns_create_node_list(n.sc)

\* the name an iface queries with, or NotSet when the query is not for it
isns_query_node(iface, iname) ==
  IF iname = NotSet THEN (IF iface = NotSet THEN Source ELSE iface)
  ELSE IF (iname # Source \/ iface # NotSet) /\ iface # iname THEN NotSet
  ELSE iname

\* the server answers only nodes that are registered
discovery_isns_query(s, name) == name \in s.srv.reg

\* records of the sessions to the targets the server knows; tgt is one of them or NotSet
NewPortals(s, tgt, iname) ==
  {p \in s.srv.tgts \X s.sc.ifaces : tgt \in {NotSet, p[1]} /\ isns_query_node(p[2], iname) # NotSet}

Stale(s, tgt, iname) ==
  {r \in s.known : /\ tgt \in {NotSet, r[1]}
                   /\ iname # NotSet => r[2] \in {NotSet, iname} /\ iname = Source}

update_sessions_Never(s, tgt, iname) ==
  [s EXCEPT !.known = @ \cup NewPortals(s, tgt, iname)]

\* log out of what is not on the new list, in to what is
update_sessions(s, tgt, iname) ==
  [s EXCEPT !.known = (@ \ (Stale(s, tgt, iname) \ NewPortals(s, tgt, iname))) \cup NewPortals(s, tgt, iname)]

Fault(s, x) == x \in s.sc.faults /\ s.nf > 0

Spend(s) == [s EXCEPT !.nf = @ - 1]

\* <<rc, s>>: one query per iface, and any that fails fails them all
isns_disc_new_portals(s, tgt, iname) ==
  LET asked == {isns_query_node(i, iname) : i \in s.sc.ifaces} \ {NotSet}
      ok == \A a \in asked : discovery_isns_query(s, a)
  IN {<<ok, IF ok THEN update_sessions(s, tgt, iname) ELSE s>>}
       \cup (IF Fault(s, "query") THEN {<<FALSE, Spend(s)>>} ELSE {})

(*---------------------------- the registration ----------------------------*)

isns_add_oneshot_timer(s, e) == [s EXCEPT !.tm = @ \cup {e}]

\* periodic, and never cancelled while the child registers again
isns_add_timer(s, e) == [s EXCEPT !.disc = @ \cup {e}]

isns_cancel_refresh_timers(s) == [s EXCEPT !.tm = {}, !.disc = {}]

isns_free_refresh_data(s, e) == [s EXCEPT !.list = @ \ {e}, !.exp = @ \ {e}]

\* the entries only: a timer keeps the one it was given
isns_clear_refresh_list(s) == [s EXCEPT !.list = {}, !.exp = {}]

\* memory for an entry: what a periodic timer still points at is used again last
Unused(s) == Entries \ (s.list \cup s.tm \cup s.fly)

isns_setup_registration_refresh(s) ==
  LET e == CHOOSE x \in Unused(s) : x \notin s.disc \/ Unused(s) \subseteq s.disc
      t == [s EXCEPT !.list = @ \cup {e}]
  IN IF ~s.sc.period THEN {<<TRUE, s>>}
     ELSE {<<TRUE, IF s.sc.poll > 0 THEN isns_add_timer(t, e) ELSE isns_add_oneshot_timer(t, e)>>}
            \cup (IF Fault(s, "nomem") THEN {<<FALSE, Spend(s)>>} ELSE {})

\* state change notifications for each node; a server that has none is polled
ScnRegister(s) ==
  LET all == [s EXCEPT !.srv.scn = @ \cup isns_initiators]
      some == {[Spend(s) EXCEPT !.srv.scn = @ \cup ns] : ns \in (SUBSET isns_initiators) \ {isns_initiators}}
  IN {<<TRUE, all>>}
       \cup (IF ~Fault(s, "scn") THEN {}
             ELSE IF s.sc.poll < 0 THEN {<<FALSE, isns_cancel_refresh_timers(x)>> : x \in some}
             ELSE {<<TRUE, x>> : x \in some})

\* one storage node for each initiator name
isns_build_objs(s) == isns_create_node_list(s.sc)

isns_register_objs(s) ==
  LET reg == [s EXCEPT !.srv.reg = @ \cup isns_build_objs(s)]
  IN (IF s.sc.poll = 0 THEN {<<TRUE, reg>>}
      ELSE UNION {IF r[1] THEN ScnRegister(r[2]) ELSE {r} : r \in isns_setup_registration_refresh(reg)})
       \cup (IF Fault(s, "register") THEN {<<FALSE, Spend(s)>>} ELSE {})

\* no connection, no portal or no memory for the objects
isns_scn_register(s) ==
  isns_register_objs(s) \cup (IF Fault(s, "connect") THEN {<<FALSE, Spend(s)>>} ELSE {})

(*------------------------------- the timers -------------------------------*)

\* three tries; here a query fails when all of them do
isns_reg_refresh_with_disc(s) ==
  {IF r[1] THEN r[2] ELSE [r[2] EXCEPT !.regn = TRUE] : r \in isns_disc_new_portals(s, NotSet, NotSet)}

isns_reg_refresh_by_eid_qry_Drop(s, e) ==
  IF e \in s.exp THEN {[isns_free_refresh_data(s, e) EXCEPT !.regn = TRUE]}
  ELSE {[s EXCEPT !.fly = @ \cup {e}]}
         \cup (IF Fault(s, "send") THEN {Spend(s)} ELSE {})

isns_reg_refresh_by_eid_qry(s, e) ==
  IF e \in s.exp THEN {[isns_free_refresh_data(s, e) EXCEPT !.regn = TRUE]}
  ELSE {[s EXCEPT !.fly = @ \cup {e}]}
         \cup (IF Fault(s, "send") THEN {isns_add_oneshot_timer(Spend(s), e)} ELSE {})

\* isns_run_timers: one that is due
RunTimers(s) ==
  (UNION {isns_reg_refresh_by_eid_qry([s EXCEPT !.tm = @ \ {e}], e) : e \in s.tm})
      \cup (IF s.disc # {} THEN isns_reg_refresh_with_disc(s) ELSE {})

\* the answer, or the library's report that there is none
isns_eid_qry_rsp(s, e, ok) ==
  LET t == [s EXCEPT !.fly = @ \ {e}]
  IN IF e \notin s.list THEN t
     ELSE isns_add_oneshot_timer(IF ok THEN [t EXCEPT !.exp = @ \ {e}] ELSE t, e)

(*-------------------------------- the child -------------------------------*)

Registered(s, rc) == [s EXCEPT !.regn = ~rc, !.pc = IF rc /\ s.sc.poll = 0 THEN "end" ELSE @]

\* register again from scratch, then look what there is; whether the query worked is not looked at
Register(s) ==
  UNION {IF r[1] THEN {Registered(q[2], TRUE) : q \in isns_disc_new_portals(r[2], NotSet, NotSet)}
         ELSE {Registered(r[2], FALSE)} : r \in isns_scn_register(isns_clear_refresh_list(s))}

\* one turn of the loop of isns_scn_recv
isns_scn_recv ==
  /\ n.pc = "loop" /\ ~n.stop
  /\ \/ \E t \in RunTimers(n) : n' \in (IF t.regn THEN Register(t) ELSE {t})
     \/ n.regn /\ n' \in Register(n)

\* isns_recv_message hands an SCN over
isns_scn_callback ==
  /\ n.pc = "loop" /\ ~n.stop /\ ~n.regn
  /\ \E m \in n.msgs : \E q \in isns_disc_new_portals(n, m.tgt, m.node) :
       n' = [q[2] EXCEPT !.msgs = @ \ {m}]

EidQryRsp ==
  /\ n.pc = "loop" /\ ~n.stop /\ ~n.regn
  /\ \E e \in n.fly : n' = isns_eid_qry_rsp(n, e, Source \in n.srv.reg)

isns_eventd ==
  /\ n.pc = "init"
  /\ n' = [n EXCEPT !.pc = IF isns_initiators = {} THEN "end" ELSE "loop"]

\* the end of isns_eventd and of start_isns: sessions stay if the user asked for one discovery only
start_isns ==
  /\ n.pc = "end" \/ (n.pc = "loop" /\ n.stop)
  /\ n' = [isns_clear_refresh_list(isns_cancel_refresh_timers(n)) EXCEPT
             !.pc = "exit", !.known = IF n.stop THEN {} ELSE @]

catch_signal ==
  /\ n.sc.signal /\ ~n.stop /\ n.pc # "exit"
  /\ n' = [n EXCEPT !.stop = TRUE]

(*------------------------ the one-time discovery --------------------------*)

discovery_isns_reg_node(srv, op_reg) ==
  IF op_reg THEN [srv EXCEPT !.reg = @ \cup {Source}]
  ELSE [srv EXCEPT !.reg = @ \ {Source}, !.scn = @ \ {Source}]

\* asks; if the server does not know the node, registers it for the time of the question
discovery_isns ==
  \/ /\ n.c = "query"
     /\ n' = [n EXCEPT !.c = IF Source \in n.srv.reg THEN "end" ELSE "reg"]
  \/ /\ n.c = "reg"
     /\ \/ n' = [n EXCEPT !.srv = discovery_isns_reg_node(@, TRUE), !.c = "again"]
        \/ Fault(n, "register") /\ n' = [Spend(n) EXCEPT !.c = "end"]
  \/ /\ n.c = "again"
     /\ n' = [n EXCEPT !.c = "dereg"]
  \/ /\ n.c = "dereg"
     /\ n' = [n EXCEPT !.srv = discovery_isns_reg_node(@, FALSE), !.c = "end"]

(*------------------------------- the server -------------------------------*)

\* the registration period of an entry passes without a refresh
Expire ==
  /\ n.sc.poll < 0
  /\ \E e \in n.list \ n.exp : n' = [n EXCEPT !.exp = @ \cup {e}]

\* the server restarts or drops us
Drop ==
  /\ n.drops > 0 /\ n.srv.reg # {}
  /\ n' = [n EXCEPT !.drops = @ - 1, !.srv.reg = {}, !.srv.scn = {}]

\* a target appears or goes, and the nodes that asked for it are told, unless the datagram is lost
Change ==
  /\ n.changes > 0
  /\ \E t \in n.sc.tgts, lost \in {FALSE} \cup (IF "lost" \in n.sc.faults THEN {TRUE} ELSE {}) :
       n' = [n EXCEPT !.changes = @ - 1,
                      !.srv.tgts = IF t \in @ THEN @ \ {t} ELSE @ \cup {t},
                      !.msgs = IF lost THEN @ ELSE @ \cup {[node |-> m, tgt |-> t] : m \in n.srv.scn}]

IsnsState(sc, pc) ==
  [sc |-> sc, pc |-> pc, regn |-> TRUE, stop |-> FALSE, list |-> {}, exp |-> {}, tm |-> {}, disc |-> {},
   fly |-> {}, known |-> {}, msgs |-> {}, srv |-> [reg |-> {}, scn |-> {}, tgts |-> {}],
   c |-> IF sc.client THEN "query" ELSE "end", nf |-> sc.nf, drops |-> sc.drops, changes |-> sc.changes]

IsnsInit == n \in {IsnsState(sc, "init") : sc \in IsnsScenes}

IsnsNext == \/ isns_eventd \/ isns_scn_recv \/ isns_scn_callback \/ EidQryRsp \/ start_isns \/ catch_signal
            \/ discovery_isns \/ Expire \/ Drop \/ Change

\* the child runs when a timer is due, something arrived or it has to register; time passes; the other
\* process finishes
IsnsFairness ==
  /\ WF_n(isns_eventd \/ isns_scn_recv) /\ WF_n(isns_scn_callback) /\ WF_n(EidQryRsp) /\ WF_n(start_isns)
  /\ WF_n(discovery_isns) /\ WF_n(Expire)

(*------------------------------- properties -------------------------------*)

\* While the child believes in its registration and has a period to keep, something will renew it: with the
\* server's period exactly one thing, a timer or a query in flight, and with the user's a periodic timer.
\* No one-shot timer refers to an entry that is freed.  (A periodic one may: isns_clear_refresh_list frees
\* the entry and the timer goes on with it, but isns_reg_refresh_with_disc does not look at it.)
RefreshSupervised ==
  /\ n.tm \subseteq n.list
  /\ (n.pc = "loop" /\ ~n.regn /\ n.sc.poll # 0 /\ n.sc.period) =>
       \E e \in Entries : n.list = {e} /\ (IF n.sc.poll < 0 THEN (e \in n.tm) # (e \in n.fly) ELSE e \in n.disc)

\* A child that has a period to keep is registered again and again, whatever the server forgets and
\* whoever else deregisters the node.
StaysRegistered ==
  []<>(isns_initiators \subseteq n.srv.reg \/ n.stop \/ n.sc.poll = 0 \/ ~n.sc.period)

\* The scenes in which the child can follow the server: by polling, or by notifications if none is
\* lost, every query works and there is one initiator name.  Others it cannot follow: a lost
\* notification or a failed query is never made up for, and update_sessions passes over the records of
\* an initiator name that is not the first.
CanFollow == /\ n.sc.period /\ n.sc.def
             /\ n.sc.poll > 0 \/ (n.sc.poll < 0 /\ n.sc.ifaces = {NotSet} /\ n.sc.faults \cap {"query", "lost"} = {})

\* Once the server's targets stop changing, a child that can follow has sessions to exactly these.
Converges == <>[](n.stop \/ (CanFollow => n.known = n.srv.tgts \X n.sc.ifaces))
=============================================================================
