---------------------------- MODULE SendTargets ----------------------------
(***************************************************************************)
(* SendTargets discovery: a discovery session of its own (usr/discovery.c,  *)
(* usr/io.c), repeated by a child of iscsid that logs in to what it finds   *)
(* and out of what is gone (usr/discoveryd.c).  d.k is what the kernel      *)
(* holds for the discovery session, d.buf the text received and not yet     *)
(* processed, d.recs the portals found.  A line of text is two halves; the   *)
(* second one ends with the NUL, so a response may end inside a line.        *)
(***************************************************************************)
EXTENDS Integers, FiniteSets, Sequences, SequencesExt

CONSTANTS StScenes,   \* transport, texts, faults of each scene
          Sizes       \* how many half lines one text response may carry

VARIABLE d

\* struct node_rec as far as discovery fills it in
Portal(n, a) == [name |-> n, addr |-> a]

\* struct discovery_rec: the portal that was asked
Default == "default"

Home == "home"

Away == "away"

NoPdu == 1000

(*----------------------------- text to portals ---------------------------*)

Halves(text) == [i \in 1..(2 * Len(text)) |-> [l |-> text[(i + 1) \div 2], h |-> 2 - (i % 2)]]

resolve_address(a) == a # "bad"

\* the records one address gives; none if it cannot be resolved
add_portal(n, a) == IF resolve_address(a) THEN <<Portal(n, a)>> ELSE <<>>

\* the lines of one target: its name and the addresses up to the next name.  The first address that
\* fails is the last one tried.
add_target_record(lines) ==
  LET n == Head(lines).v
      addrs == IF Len(lines) = 1 THEN <<[k |-> "addr", v |-> Default]>>
               ELSE SelectSeq(Tail(lines), LAMBDA l : l.k = "addr")
      bad == SelectInSeq(addrs, LAMBDA l : add_portal(n, l.v) = <<>>)
  IN [ok |-> bad = 0,
      recs |-> FlattenSeq([j \in 1..(IF bad = 0 THEN Len(addrs) ELSE bad) |-> add_portal(n, addrs[j].v)])]

\* what process_sendtargets_response can see: whole lines, up to the last NUL
Nul(buf) == SelectLastInSeq(buf, LAMBDA b : b.h = 2)

LineStart(buf, i) == IF i = 1 THEN TRUE ELSE buf[i - 1].h = 2

Starts(buf) == SelectSeq([i \in 1..Nul(buf) |-> i], LAMBDA i : LineStart(buf, i) /\ buf[i].l.k = "name")

Lines(buf, from, to) ==
  LET is == SelectSeq([i \in 1..(to + 1 - from) |-> from + i - 1], LAMBDA i : LineStart(buf, i))
  IN [j \in DOMAIN is |-> buf[is[j]].l]

\* the last target is complete only when the next one begins or with the final response
process_sendtargets_response(buf, final, recs) ==
  LET st == Starts(buf)
      end(j) == IF j = Len(st) THEN Nul(buf) ELSE st[j + 1] - 1
      targets == [j \in 1..(IF final THEN Len(st) ELSE Len(st) - 1) |->
                    add_target_record(Lines(buf, st[j], end(j)))]
      bad == SelectInSeq(targets, LAMBDA t : ~t.ok)
      found == FlattenSeq([j \in 1..(IF bad = 0 THEN Len(targets) ELSE bad) |-> targets[j].recs])
  IN IF st = <<>> THEN [buf |-> buf, recs |-> recs]
     ELSE [buf |-> IF final \/ bad # 0 THEN <<>> ELSE SubSeq(buf, st[Len(st)], Len(buf)),
           recs |-> recs \o found]

(*--------------------------- the kernel's part ----------------------------*)

\* CAP_TEXT_NEGO: the session and its PDUs go through the kernel
Nego(s) == s.sc.mode # "tcp"

\* the netlink socket of this process
ctldev_open(k) == k \cup {"open"}

ctldev_close(k) == k \ {"open"}

ktransport_ep_connect(k) == k \cup {"ep"}

ktransport_ep_disconnect(k, td) == IF "ep" \in td THEN k ELSE k \ {"ep"}

kcreate_session(k) == k \cup {"sess"}

kdestroy_session(k, td) == IF "sess" \in td THEN k ELSE k \ {"sess"}

kcreate_conn(k) == k \cup {"conn"}

kdestroy_conn(k, td) == IF "conn" \in td THEN k ELSE k \ {"conn"}

\* the steps of iscsi_create_leading_conn; the ones not named here acquire nothing
Stages == <<"open", "net", "ep", "poll", "sess", "conn", "bind">>

Acquire(k, stage) ==
  CASE stage = "open" -> ctldev_open(k)
    [] stage = "ep" -> ktransport_ep_connect(k)
    [] stage = "sess" -> kcreate_session(k)
    [] stage = "conn" -> kcreate_conn(k)
    [] OTHER -> k

\* how many stages succeed when f fails
Before(f) == IF f = "none" THEN Len(Stages) ELSE SelectInSeq(Stages, LAMBDA x : x = f) - 1

Acquired(f) == FoldLeft(Acquire, {}, SubSeq(Stages, 1, Before(f)))

\* roll back what the stages before the failing one did
Rollback(f, td) ==
  LET k == Acquired(f)
  IN ctldev_close(kdestroy_session(kdestroy_conn(ktransport_ep_disconnect(k, td), td), td))

\* software iSCSI: <<rc, what stays open>>; only the interface the socket is bound to is left to choose
bind_conn_to_iface(f) == IF f = "bind" THEN -1 ELSE 0

iscsi_io_tcp_connect(f) ==
  CASE f \in {"socket", "nodelay"} -> <<-1, {}>>
    [] f = "connect" \/ bind_conn_to_iface(f) < 0 -> <<-1, {"open"}>>
    [] OTHER -> <<0, {"open"}>>

\* SIGALRM ends a connect that takes too long, and the socket stays open
iscsi_io_connect(f) ==
  LET r == iscsi_io_tcp_connect(f) IN IF f # "timeout" /\ r[1] < 0 THEN {} ELSE r[2]

iscsi_io_disconnect(k) == k \ {"open"}

iscsi_create_leading_conn(s, f, td) ==
  IF s.sc.mode = "tcp"
  THEN [s EXCEPT !.k = @ \cup iscsi_io_connect(f), !.sid = (f = "none"), !.late = @ \/ f = "timeout"]
  ELSE [s EXCEPT !.k = @ \cup (IF f = "none" THEN Acquired(f) ELSE Rollback(f, td)), !.sid = (f = "none"),
                 !.torn = @ \/ (f # "none" /\ td # {})]

iscsi_destroy_session(s, td) ==
  LET k1 == ktransport_ep_disconnect(s.k, td)
      k2 == IF "stop" \in td THEN k1
            ELSE IF "conn" \in td THEN k1
            ELSE kdestroy_session(kdestroy_conn(k1, td), td)
      k3 == IF s.sc.mode = "tcp" THEN iscsi_io_disconnect(s.k) ELSE ctldev_close(k2)
  IN IF s.sid THEN [s EXCEPT !.k = k3, !.sid = FALSE, !.torn = @ \/ td # {}] ELSE s

(*------------------------------ the session -------------------------------*)

Text(s) == s.sc.texts[s.cycle]

\* a fault of the scene happens, if there are any left
StFault(s, x) == x \in s.sc.faults /\ s.nf > 0

StSpend(s) == [s EXCEPT !.nf = @ - 1]

\* goto free_sendtargets and login_failed
Free(s, rc) == [s EXCEPT !.rc = rc, !.pc = "free"]

\* goto set_address; the label reconnect of discovery_sendtargets leads there too
Again(s) == [s EXCEPT !.at = s.fb, !.pc = "reconnect"]

\* asks iscsid
request_initiator_name(s) == StFault(s, "iname")

iscsi_alloc_session(s) ==
  [s EXCEPT !.cnt = s.sc.reopen + 1, !.recs = <<>>, !.buf = <<>>, !.fb = Home, !.at = Home, !.ctx = NoPdu,
            !.hole = FALSE]

\* the head of discovery_sendtargets
Setup ==
  /\ d.pc = "start"
  /\ LET s == iscsi_alloc_session(d)
     IN \/ /\ StFault(d, "alloc") \/ request_initiator_name(d)
           /\ d' = [StSpend(s) EXCEPT !.rc = "fatal", !.pc = "bind"]
        \/ StFault(d, "resolve") /\ d' = Free(StSpend(s), "fatal")
        \/ d' = Again(s)

Reconnect_Forever ==
  /\ d.pc = "reconnect"
  /\ d' = [d EXCEPT !.pc = "connect"]

\* --session->reopen_cnt
Reconnect ==
  /\ d.pc = "reconnect"
  /\ d' = IF d.cnt = 0 THEN Free(d, "fatal") ELSE [d EXCEPT !.cnt = @ - 1, !.pc = "connect"]

\* redirect_reconnect: forget the old connection, make a new one
Connect ==
  /\ d.pc = "connect"
  /\ \E td \in SUBSET (IF Nego(d) /\ d.sid THEN d.sc.teardown ELSE {}) :
       LET s == iscsi_destroy_session(d, td)
       IN \/ d' = [iscsi_create_leading_conn(s, "none", {}) EXCEPT !.pc = "params"]
          \/ /\ d.nf > 0
             /\ \E f \in d.sc.stages, td2 \in SUBSET (IF Nego(d) THEN d.sc.teardown ELSE {}) :
                  d' = [StSpend(iscsi_create_leading_conn(s, f, td2)) EXCEPT !.pc = "reconnect"]

\* iscsi_session_set_params for a session of the kernel
Params ==
  /\ d.pc = "params"
  /\ \/ d' = [d EXCEPT !.pc = IF d.sc.mode = "offload" THEN "start_conn" ELSE "login"]
     \/ Nego(d) /\ StFault(d, "params") /\ d' = Free(StSpend(d), "fatal")

\* a PDU left over from the connection before is taken for the answer; a target may redirect as often as
\* it likes
Redirected == {"temp", "perm"}

Outcomes ==
  IF d.ctx # NoPdu THEN {"fatal"}
  ELSE {"ok"} \cup (d.sc.faults \cap Redirected)
              \cup (IF d.nf > 0 THEN d.sc.faults \cap {"io", "fatal", "other", "target"} ELSE {})

iscsi_create_session ==
  /\ d.pc = "login"
  /\ \E o \in Outcomes :
       LET s == [(IF o \in {"ok"} \cup Redirected \/ d.nf = 0 THEN d ELSE StSpend(d)) EXCEPT !.ctx = NoPdu]
       IN d' = CASE o = "ok" -> [s EXCEPT !.pc = IF Nego(s) THEN "start_conn" ELSE "request"]
                 [] o \in {"io", "other"} -> Again(s)
                 [] o = "fatal" -> Free(s, "fatal")
                 [] o = "temp" -> [s EXCEPT !.at = Away, !.pc = "connect"]
                 [] o = "perm" -> [s EXCEPT !.at = Away, !.fb = Away, !.pc = "connect"]
                 [] o = "target" -> [s EXCEPT !.pc = "reconnect"]

\* the states a transport that logs in by itself may report instead of LOGGED_IN, as errors
krecv_conn_state(s) == {rc \in {"trans", "fatal"} : StFault(s, "wait_" \o rc)}

iscsi_wait_for_login(s) ==
  {[s EXCEPT !.pc = "request"]}
    \cup (IF s.sc.mode = "offload" THEN {Free(StSpend(s), rc) : rc \in krecv_conn_state(s)} ELSE {})

kstart_conn(s) == ~StFault(s, "start")

StartConn ==
  /\ d.pc = "start_conn"
  /\ \/ d' \in iscsi_wait_for_login([d EXCEPT !.ctx = IF d.sc.mode = "offload" THEN NoPdu ELSE @])
     \/ ~kstart_conn(d) /\ d' = Free(StSpend(d), "fatal")

(*------------------------------ the exchange ------------------------------*)

\* how much of the text the target may send next
Chunks(s) ==
  LET total == 2 * Len(Text(s))
  IN {c \in Sizes : s.pos + c <= total} \cup {total - s.pos}

\* While the kernel call waits for its answer it may read the target's response from the same
\* socket; then no poll will report it.
ksend_pdu_end(s) ==
  IF Nego(s) /\ StFault(s, "early")
  THEN {[StSpend(s) EXCEPT !.pc = "poll", !.req = FALSE, !.ctx = c] : c \in Chunks(s)} ELSE {}

\* the request is out, or the connection is no good
iscsi_io_send_pdu(s) ==
  {[s EXCEPT !.pc = "poll", !.req = TRUE]}
    \cup (IF StFault(s, "send") THEN {Again(StSpend(s))} ELSE {})
    \cup ksend_pdu_end(s)

request_targets_Keep ==
  /\ d.pc = "request"
  /\ d' \in iscsi_io_send_pdu([d EXCEPT !.pos = 0, !.hole = FALSE])

request_targets ==
  /\ d.pc = "request"
  /\ d' \in iscsi_io_send_pdu([d EXCEPT !.buf = <<>>, !.pos = 0])

\* an empty text request asks for the next part
iterate_targets(s) == iscsi_io_send_pdu(s)

\* the next c halves of the text, appended to what is left
process_recvd_pdu(s, c) ==
  LET part == SubSeq(Halves(Text(s)), s.pos + 1, s.pos + c)
      final == s.pos + c = 2 * Len(Text(s))
      r == process_sendtargets_response(s.buf \o part, final, s.recs)
      nomem == [s EXCEPT !.pos = @ + c, !.req = FALSE, !.ctx = NoPdu, !.hole = TRUE]
      done == [nomem EXCEPT !.buf = r.buf, !.recs = r.recs, !.hole = s.hole]
  IN (IF final THEN {[done EXCEPT !.pc = "got"]} ELSE iterate_targets(done))
       \cup (IF StFault(s, "nomem") THEN {StSpend(nomem)} ELSE {})

\* a response that was read before is there for the next read
krecv_pdu_begin(s) == Nego(s) /\ s.ctx # NoPdu

\* a whole PDU; or SIGALRM, the end of the stream or a PDU that does not fit break the read
iscsi_io_recv_pdu(s) ==
  (IF s.req THEN {"pdu"} ELSE {}) \cup (IF krecv_pdu_begin(s) THEN {"wake"} ELSE {})
    \cup {e \in {"other", "broken"} : StFault(s, e)}

\* what poll(2) and the read that follows come to
PollEvents == {"expired"} \cup iscsi_io_recv_pdu(d) \cup {e \in {"hup", "err", "eintr", "clock"} : StFault(d, e)}

discovery_sendtargets ==
  /\ d.pc = "poll"
  /\ \E e \in PollEvents :
       LET s == IF e = "expired" THEN d ELSE StSpend(d)
       IN \/ e \in {"expired", "other", "err"} /\ d' = Again(s)
          \/ e = "pdu" /\ \E c \in Chunks(d) : d' \in process_recvd_pdu(d, c)
          \/ e = "wake" /\ d' \in process_recvd_pdu(d, d.ctx)
          \/ e \in {"broken", "eintr"} /\ d' = Free(s, "fatal")
          \/ e = "hup" /\ d' = Free(s, "trans")
          \/ e = "clock" /\ d' = Free([s EXCEPT !.hole = TRUE], "ok")

\* the final response is in: the flags that came with it are looked at now
Got ==
  /\ d.pc = "got"
  /\ \/ d' = Free(d, "ok")
     \/ StFault(d, "hup") /\ d' = Free(StSpend(d), "trans")
     \/ StFault(d, "err") /\ d' = Again(StSpend(d))

\* free_sendtargets
iscsi_free_session ==
  /\ d.pc = "free"
  /\ \E td \in SUBSET (IF Nego(d) /\ d.sid THEN d.sc.teardown ELSE {}) :
       d' = [iscsi_destroy_session(d, td) EXCEPT !.pc = "bind"]

(*------------------------------- the child --------------------------------*)

discovery_error_fatal(rc) == rc \notin {"ok", "trans"}

\* one iface after the other; an error that counts as fatal ends the cycle
idbm_bind_ifaces_to_nodes ==
  /\ d.pc = "bind"
  /\ d' = IF discovery_error_fatal(d.rc) THEN [d EXCEPT !.bound = {}, !.iface = 1, !.pc = "cycle"]
          ELSE [d EXCEPT !.bound = @ \cup (IF d.rc = "ok" THEN {<<r, d.iface>> : r \in Range(d.recs)} ELSE {}),
                         !.iface = IF d.iface < d.sc.ifaces THEN @ + 1 ELSE 1,
                         !.pc = IF d.iface < d.sc.ifaces THEN "start" ELSE "update"]

\* log in to what is new, out of what is not on the list any more
update_st_sessions ==
  /\ d.pc = "update"
  /\ d' = [d EXCEPT !.known = d.bound, !.bound = {}, !.pc = "cycle"]

\* the next cycle after poll_inval, unless a signal ended the sleep
do_st_disc_and_login ==
  /\ d.pc = "cycle"
  /\ d' = IF d.sc.poll /\ d.cycle < Len(d.sc.texts) THEN [d EXCEPT !.cycle = @ + 1, !.pc = "start"]
          ELSE [d EXCEPT !.pc = "stop"]

\* logs out, unless the user asked for one cycle only
discoveryd_stop ==
  /\ d.pc = "stop"
  /\ d' = [d EXCEPT !.known = IF d.sc.poll THEN {} ELSE @, !.pc = "exit"]

StState(sc, pc) ==
  [sc |-> sc, pc |-> pc, cycle |-> 1, iface |-> 1, nf |-> sc.nf, cnt |-> 0, at |-> Home, fb |-> Home,
   k |-> {}, sid |-> FALSE, torn |-> FALSE, late |-> FALSE, ctx |-> NoPdu, req |-> FALSE, buf |-> <<>>,
   pos |-> 0, recs |-> <<>>, hole |-> FALSE, rc |-> "ok", bound |-> {}, known |-> {}]

StInit == d \in {StState(sc, "start") : sc \in StScenes}

StNext == \/ Setup \/ Reconnect \/ Connect \/ Params \/ iscsi_create_session \/ StartConn
          \/ request_targets \/ discovery_sendtargets \/ Got \/ iscsi_free_session
          \/ idbm_bind_ifaces_to_nodes \/ update_st_sessions \/ do_st_disc_and_login \/ discoveryd_stop

\* the process runs; a poll ends by its timeout at the latest
StFairness == <>[](d.pc # "exit") => []<><<StNext>>_d

(*------------------------------- properties -------------------------------*)

\* the portals a text lists: the addresses between two names, or the default portal
Listed(text) ==
  LET Names == {i \in DOMAIN text : text[i].k = "name"}
      Block(i) == {j \in (i + 1)..Len(text) : (i + 1)..j \cap Names = {}}
      Addrs(i) == IF Block(i) = {} THEN {Default} ELSE {text[j].v : j \in {x \in Block(i) : text[x].k = "addr"}}
  IN UNION {{Portal(text[i].v, a) : a \in Addrs(i)} : i \in Names}

\* A discovery that succeeds has found exactly the portals the target listed, however its text was
\* cut into responses and whatever was left of an exchange that broke off before
\* (usr/discovery.c, discovery_sendtargets).  It may not when memory was short, the clock went back or
\* an address could not be resolved, or when the target's list changes between two connections of one
\* discovery: rec_list keeps what the first one brought, and so may name a portal twice.  When
\* discovery_sendtargets returns, the kernel holds nothing for it any more, unless a call that tears
\* down failed; only the socket of a connect that timed out stays open.
SentIsFound ==
  /\ (d.pc = "free" /\ d.rc = "ok" /\ ~d.hole /\ \A p \in Listed(Text(d)) : resolve_address(p.addr))
       => Range(d.recs) = Listed(Text(d))
  /\ d.pc = "bind" => (d.k = {} \/ d.torn \/ (d.late /\ d.k = {"open"}))

\* The login was answered with another address, where discovery_sendtargets connects at once:
\* redirect_reconnect does not count down reopen_cnt.
Redirects == iscsi_create_session /\ d'.pc = "connect"

\* The discovery child gets through its cycles: retries and timeouts end, and redirects too unless the
\* targets redirect for ever, which nothing in discovery_sendtargets limits.
DiscoveryEnds == []<><<Redirects>>_d \/ <>(d.pc = "exit")
=============================================================================
