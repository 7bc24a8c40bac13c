------------------------------- MODULE Daemon -------------------------------
(***************************************************************************)
(* iscsid around its sessions: the event loop of usr/event_poll.c with the  *)
(* reaping of children and the shutdown, the management socket of           *)
(* usr/mgmt_ipc.c, the children that usr/iscsid.c and usr/discoveryd.c      *)
(* fork, and the processes that ask it to log in and out through            *)
(* usr/session_mgmt.c and usr/iscsid_req.c.                                 *)
(*                                                                          *)
(* A session is what Session promises of it: a login and a logout are       *)
(* answered some time.  A client or a child is a sequence of calls,         *)
(* prog[p]; a step takes the first one off it and puts the calls that one   *)
(* makes in its place.                                                      *)
(***************************************************************************)
EXTENDS Naturals, Sequences, FiniteSets, Functions

CONSTANTS Clients,     \* iscsiadm processes
          NotRoot,     \* those of them that another user runs
          Discs,       \* SendTargets discovery children
          PollInval,   \* those whose discoveryd_poll_inval is not 0
          Recs,        \* node records, each with
          NrSessions,  \*   node.session.nr_sessions,
          Leading,     \*   those with node.leading_login,
          Target,      \*   the target of each
          Iface,       \*   its iface
          Startup,     \*   and node.startup
          Found,       \* records a discovery may make
          Setups,      \* what happens: records of what each client runs, the
                       \* discovery records that use discoveryd, the sessions
                       \* an earlier iscsid left, SIGTERMs and killed clients
          MaxSess, MaxReq, Backlog, MaxRounds

ASSUME RecsAssumption ==
  /\ IsFiniteSet(Recs) /\ Found \subseteq Recs
  /\ \A r \in Recs : NrSessions[r] \in Nat
  /\ MaxSess \in Nat

None == "none"
NoReq == 0                        \* no qtask
Sync == "sync"                    \* the child that syncs the sessions
Children == Discs \cup {Sync}
Procs == Clients \cup Children
ASSUME SyncAssumption == Sync \notin Discs
Sids == 1..MaxSess
Reqs == 1..MaxReq

VARIABLES
  loop,        \* where iscsid is
  event_loop_stop, shutdown_qtask, notified,   \* notified: has_shutdown_children
  cur,         \* the connection mgmt_ipc_handle reads
  reap_count, shutdown_callbacks, sessions_to_recover,
  backlog,     \* connections not yet accepted
  conn,        \* connections of clients to iscsid
  sess,        \* sessions, in iscsid or only in the kernel
  child,       \* none, forked, live, zombie or gone
  stop_discoveryd, iscsi_targets, rounds,      \* of each discovery child
  prog,
  lost,        \* history: a SIGTERM came when nobody would notice it
  drecs,       \* use_discoveryd is set in these
  signals, crashes    \* still to come

daemon == <<event_loop_stop, shutdown_qtask, notified, reap_count,
            shutdown_callbacks, sessions_to_recover>>
discs == <<stop_discoveryd, iscsi_targets, rounds>>
env == <<lost, drecs, signals, crashes>>
vars == <<loop, daemon, cur, backlog, conn, sess, child, discs, prog, env>>

NoConn == [cmd |-> None, arg |-> None, own |-> None, client |-> FALSE,
           sent |-> FALSE, at |-> None, rsp |-> None]
NoSess == [st |-> None, rec |-> None, qtask |-> NoReq, logout_qtask |-> NoReq]

Min2(a, b) == IF a < b THEN a ELSE b
Repeat(call, n) == [i \in 1..n |-> call]

-----------------------------------------------------------------------------
(* Connections.  Each end is closed by its own process.                     *)

\* mgmt_ipc_write_rsp: answer and close; cs is the table of connections
WriteRsp(cs, q, err) ==
  IF q = NoReq THEN cs
  ELSE [cs EXCEPT ![q] = IF cs[q].client THEN [@ EXCEPT !.at = "closed", !.rsp = err]
                                         ELSE NoConn]

\* mgmt_ipc_destroy_queue_task: close without an answer
Destroy(cs, q) == WriteRsp(cs, q, None)

\* the client closes its end
Closed(c) == IF c.at = "closed" THEN NoConn ELSE [c EXCEPT !.client = FALSE]

iscsid_reqs_close(cs, p) ==
  [q \in Reqs |-> IF cs[q].own = p THEN Closed(cs[q]) ELSE cs[q]]

Own(p) == {q \in Reqs : conn[q].own = p /\ conn[q].client}

\* the socket has something to read for the client: an answer or the end
Ended(q) == conn[q].at = "closed"

-----------------------------------------------------------------------------
(* Sessions.                                                                *)

InList(s) == sess[s].st \in {"connect", "login", "up", "sync", "going"}
InSysfs(s) == sess[s].st \in {"login", "up", "sync", "going", "orphan"}
Matching(r) == {s \in Sids : InSysfs(s) /\ sess[s].rec = r}

\* session_is_running: in the list of iscsid or in sysfs
session_is_running_Sysfs(r) == \E s \in Sids : InSysfs(s) /\ sess[s].rec = r

session_is_running(r) == \E s \in Sids : (InList(s) \/ InSysfs(s)) /\ sess[s].rec = r

\* rec->session.multiple as iscsi_login_portal sends it
Multiple(r, multiple) == multiple \/ NrSessions[r] > 1

\* __session_login_task, from entry s of sess: ends with an answer, or holds q
SessionLogin(s, q, r, multiple) ==
  \/ /\ session_is_running(r) /\ ~multiple
     /\ sess' = [sess EXCEPT ![s] = NoSess]
     /\ conn' = WriteRsp(conn, q, "exists")
  \/ /\ ~session_is_running(r) \/ multiple
     /\ \/ sess' = [sess EXCEPT ![s] = NoSess] /\ conn' = WriteRsp(conn, q, "err")
        \/ /\ sess' = [sess EXCEPT ![s] = [NoSess EXCEPT !.st = "connect", !.rec = r, !.qtask = q]]
           /\ UNCHANGED conn

\* queue_session_login_task_retry: the host is not ready
LoginRetry(s, q, r) ==
  /\ sess' = [sess EXCEPT ![s] = [NoSess EXCEPT !.st = "retry", !.rec = r, !.qtask = q]]
  /\ UNCHANGED conn

Answer(s, st, err) ==
  /\ sess' = [sess EXCEPT ![s] = IF st = None THEN NoSess
                                 ELSE [@ EXCEPT !.st = st, !.qtask = NoReq]]
  /\ conn' = WriteRsp(conn, sess[s].qtask, err)

\* what the timers and the events of a session make iscsid do
SessionSteps(s) ==
  \/ /\ sess[s].st = "retry"
     /\ \/ SessionLogin(s, sess[s].qtask, sess[s].rec,
                        conn[sess[s].qtask].arg[2])
        \/ Answer(s, None, "err")
  \/ /\ sess[s].st = "connect"
     /\ \/ sess' = [sess EXCEPT ![s].st = "login"] /\ UNCHANGED conn
        \/ Answer(s, None, "err")
  \/ /\ sess[s].st = "login"
     /\ Answer(s, "up", "ok") \/ Answer(s, None, "err")
  \/ sess[s].st = "sync" /\ Answer(s, "up", "ok")
  \/ /\ sess[s].st = "going"
     /\ sess' = [sess EXCEPT ![s] = NoSess]
     /\ conn' = WriteRsp(conn, sess[s].logout_qtask, "ok")

-----------------------------------------------------------------------------
(* The handlers of mgmt_ipc.c.                                              *)

Refuse(q, err) == conn' = WriteRsp(conn, q, err) /\ UNCHANGED sess

mgmt_ipc_session_login(q) ==
  LET r == conn[q].arg[1]  multiple == conn[q].arg[2]
      s == CHOOSE s \in Sids : sess[s].st = None
  IN \/ SessionLogin(s, q, r, multiple)
     \/ (~session_is_running(r) \/ multiple) /\ LoginRetry(s, q, r)

mgmt_ipc_session_logout(q) ==
  LET s == conn[q].arg
  IN \/ sess[s].st # "up" /\ Refuse(q, "err")       \* not found, or not now
     \/ /\ sess[s].st = "up"
        /\ \/ Refuse(q, "err")                       \* safe_logout
           \/ /\ sess' = [sess EXCEPT ![s].st = "going", ![s].logout_qtask = q]
              /\ UNCHANGED conn
           \/ /\ sess' = [sess EXCEPT ![s] = NoSess]
              /\ conn' = WriteRsp(conn, q, "ok")

mgmt_ipc_session_sync(q) ==
  LET s == conn[q].arg
  IN \/ InList(s) /\ Refuse(q, "exists")
     \/ ~InList(s) /\ Refuse(q, "err")
     \/ /\ sess[s].st = "orphan"
        /\ sess' = [sess EXCEPT ![s].st = "sync", ![s].qtask = q]
        /\ UNCHANGED conn

\* getstats, session_info
mgmt_ipc_session_info(q) ==
  Refuse(q, IF InList(conn[q].arg) THEN "ok" ELSE "err")

\* the configuration variables
mgmt_ipc_cfg(q) == Refuse(q, "ok")

\* conn_add, conn_remove and commands that are not in the table
mgmt_ipc_conn_add(q) == Refuse(q, "err")

\* mgmt_ipc_notify_common: the strings are never read to their end, since left is
\* not reduced, and without strings there is nothing to do
mgmt_ipc_notify(q) == Refuse(q, "err")

mgmt_ipc_send_targets_Mute(q) == Refuse(q, "ok") \/ UNCHANGED <<sess, conn>>

\* discovery by the card
mgmt_ipc_send_targets(q) == Refuse(q, "ok") \/ Refuse(q, "err")

event_loop_exit(q) == event_loop_stop' = TRUE /\ shutdown_qtask' = q

mgmt_ipc_functions(q) ==
  \/ conn[q].cmd = "login" /\ mgmt_ipc_session_login(q)
  \/ conn[q].cmd = "logout" /\ mgmt_ipc_session_logout(q)
  \/ conn[q].cmd = "sync" /\ mgmt_ipc_session_sync(q)
  \/ conn[q].cmd = "info" /\ mgmt_ipc_session_info(q)
  \/ conn[q].cmd = "config" /\ mgmt_ipc_cfg(q)
  \/ conn[q].cmd = "conn_add" /\ mgmt_ipc_conn_add(q)
  \/ conn[q].cmd = "notify" /\ mgmt_ipc_notify(q)
  \/ conn[q].cmd = "send_targets" /\ mgmt_ipc_send_targets(q)

-----------------------------------------------------------------------------
(* iscsid.                                                                  *)

\* main up to event_loop: fork the children
Main ==
  LET syncs == \E s \in Sids : sess[s].st = "orphan"
      forked == drecs \cup (IF syncs THEN {Sync} ELSE {})
  IN /\ loop = "start"
     /\ loop' = "enter"
     /\ child' = [c \in Children |-> IF c \in forked THEN "forked" ELSE child[c]]
     /\ sessions_to_recover' = syncs
     /\ reap_count' = Cardinality(forked)
     /\ shutdown_callbacks' = drecs
     /\ UNCHANGED <<event_loop_stop, shutdown_qtask, notified, cur, backlog, conn,
                    sess, discs, prog, env>>

EnterLoop ==
  /\ loop = "enter"
  /\ loop' = "top"
  /\ event_loop_stop' = FALSE
  /\ lost' = (lost \/ event_loop_stop)
  /\ UNCHANGED <<shutdown_qtask, notified, reap_count, shutdown_callbacks,
                 sessions_to_recover, cur, backlog, conn, sess, child, discs, prog,
                 drecs, signals, crashes>>

\* SIGTERM to a child: fl is stop_discoveryd; a sleep ends
Sleeping(c) == prog[c] # <<>> /\ Head(prog[c])[1] = "sleep"

shutdown_notify_pids ==
  /\ stop_discoveryd' = [c \in Discs |-> stop_discoveryd[c]
                                         \/ (c \in shutdown_callbacks /\ child[c] = "live")]
  /\ prog' = [p \in Procs |-> IF p \in shutdown_callbacks /\ child[p] = "live" /\ Sleeping(p)
                              THEN <<<<"discoveryd_stop">>>> ELSE prog[p]]
  /\ lost' = (lost \/ \E c \in shutdown_callbacks : child[c] = "forked")

\* waitpid fails for those that reap_proc has reaped
Done(c) == child[c] \in {"zombie", "gone"}

shutdown_wait_pids_Once ==
  /\ shutdown_callbacks' = {}
  /\ child' = [c \in Children |-> IF c \in shutdown_callbacks /\ Done(c) THEN "gone" ELSE child[c]]

shutdown_wait_pids ==
  /\ shutdown_callbacks' = {c \in shutdown_callbacks : ~Done(c)}
  /\ child' = [c \in Children |-> IF c \in shutdown_callbacks /\ Done(c) THEN "gone" ELSE child[c]]

LoopTop ==
  /\ loop = "top"
  /\ IF event_loop_stop
     THEN /\ IF notified THEN UNCHANGED <<stop_discoveryd, prog, lost>> ELSE shutdown_notify_pids
          /\ notified' = TRUE
          /\ shutdown_wait_pids
          /\ loop' = IF shutdown_callbacks' = {} THEN "end" ELSE "poll"
     ELSE /\ loop' = "poll"
          /\ UNCHANGED <<notified, shutdown_callbacks, child, stop_discoveryd, prog, lost>>
  /\ UNCHANGED <<event_loop_stop, shutdown_qtask, reap_count, sessions_to_recover, cur,
                 backlog, conn, sess, iscsi_targets, rounds, drecs, signals, crashes>>

Goto(from, to) ==
  /\ loop = from /\ loop' = to
  /\ UNCHANGED <<daemon, cur, backlog, conn, sess, child, discs, prog, env>>

PollTimeout_None == FALSE /\ Goto("poll", "reap")
PollTimeout == reap_count > 0 /\ backlog = <<>> /\ Goto("poll", "reap")

\* actor_poll and ctldev_handle
SessionStep(s) ==
  /\ loop = "poll" /\ loop' = "reap"
  /\ SessionSteps(s)
  /\ UNCHANGED <<daemon, cur, backlog, child, discs, prog, env>>

\* mgmt_ipc_handle up to the check of the peer
Accept ==
  LET q == Head(backlog) IN
  /\ loop = "poll" /\ backlog # <<>>
  /\ backlog' = Tail(backlog)
  /\ IF conn[q].own \in NotRoot
     THEN conn' = WriteRsp(conn, q, "err") /\ loop' = "reap" /\ UNCHANGED cur
     ELSE conn' = [conn EXCEPT ![q].at = "held"] /\ loop' = "read" /\ cur' = q
  /\ UNCHANGED <<daemon, sess, child, discs, prog, env>>

\* mgmt_ipc_read_req blocks until the request is there, and the handler runs
Handle ==
  /\ loop = "read" /\ loop' = "reap" /\ cur' = NoReq
  /\ \/ /\ ~conn[cur].sent /\ ~conn[cur].client
        /\ conn' = Destroy(conn, cur)
        /\ UNCHANGED <<sess, event_loop_stop, shutdown_qtask>>
     \/ /\ conn[cur].sent /\ conn[cur].cmd # "stop"
        /\ mgmt_ipc_functions(cur)
        /\ UNCHANGED <<event_loop_stop, shutdown_qtask>>
     \/ /\ conn[cur].sent /\ conn[cur].cmd = "stop"
        /\ event_loop_exit(cur)
        /\ UNCHANGED <<conn, sess>>
  /\ UNCHANGED <<notified, reap_count, shutdown_callbacks, sessions_to_recover,
                 backlog, child, discs, prog, env>>

reap_proc ==
  LET zombies == {c \in Children : child[c] = "zombie"}
      n == Min2(reap_count, Cardinality(zombies))
  IN /\ loop = "reap" /\ loop' = "top"
     /\ \E reaped \in SUBSET zombies :
          /\ Cardinality(reaped) = n
          /\ child' = [c \in Children |-> IF c \in reaped THEN "gone" ELSE child[c]]
          /\ sessions_to_recover' = (sessions_to_recover /\ Sync \notin reaped)
     /\ reap_count' = reap_count - n
     /\ UNCHANGED <<event_loop_stop, shutdown_qtask, notified, shutdown_callbacks, cur,
                    backlog, conn, sess, discs, prog, env>>

\* the rest of event_loop, mgmt_ipc_close, free_initiator and killpg: whoever is
\* in the backlog is disconnected, and the kernel keeps what it has
LoopEnd ==
  LET answered == WriteRsp(conn, shutdown_qtask, "ok")
      reset == [q \in Reqs |-> IF q \in Range(backlog) THEN Destroy(answered, q)[q]
                                                       ELSE answered[q]]
  IN /\ loop = "end" /\ loop' = "final"
     /\ conn' = reset
     /\ backlog' = <<>>
     /\ event_loop_exit(NoReq)
     /\ sess' = [s \in Sids |-> IF InSysfs(s) THEN [NoSess EXCEPT !.st = "orphan", !.rec = sess[s].rec]
                                              ELSE NoSess]
     /\ UNCHANGED <<notified, reap_count, shutdown_callbacks, sessions_to_recover, cur,
                    child, discs, prog, env>>

\* exit closes what is still open
ExitWith(cs) == [q \in Reqs |-> IF cs[q].at \in {"held", "queued"} THEN Destroy(cs, q)[q] ELSE cs[q]]

\* iscsid_shutdown waits for all children
iscsid_shutdown ==
  /\ loop = "final" /\ loop' = "exited"
  /\ \A c \in Children : child[c] \in {"none", "zombie", "gone"}
  /\ child' = [c \in Children |-> IF child[c] = "zombie" THEN "gone" ELSE child[c]]
  /\ conn' = ExitWith(conn)
  /\ UNCHANGED <<daemon, cur, backlog, sess, discs, prog, env>>

\* SIGTERM to iscsid: catch_signal.  It interrupts poll and waitpid; one that
\* comes after the test of event_loop_stop and before poll interrupts nothing
Sigterm ==
  /\ signals > 0 /\ loop # "exited"
  /\ signals' = signals - 1
  /\ event_loop_exit(NoReq)
  /\ \/ loop = "poll" /\ loop' = "reap" /\ UNCHANGED <<lost, conn>>
     \/ loop = "poll" /\ lost' = (lost \/ reap_count = 0) /\ UNCHANGED <<loop, conn>>
     \/ loop = "final" /\ loop' = "exited" /\ conn' = ExitWith(conn) /\ UNCHANGED lost
     \/ loop \notin {"poll", "final"} /\ UNCHANGED <<loop, conn, lost>>
  /\ UNCHANGED <<notified, reap_count, shutdown_callbacks, sessions_to_recover, cur,
                 backlog, sess, child, discs, prog, drecs, crashes>>

-----------------------------------------------------------------------------
(* Clients and children.                                                    *)

\* the members of a set in the order some walk over them meets them
Walk(S) == CHOOSE f \in [1..Cardinality(S) -> S] : IsInjective(f)

\* lists of calls, one after the other
Chain(lists) ==
  LET chain[i \in 0..Len(lists)] == IF i = 0 THEN <<>> ELSE chain[i - 1] \o lists[i]
  IN chain[Len(lists)]

Call(p) == Head(prog[p])
Calls(p, calls) == prog' = [prog EXCEPT ![p] = calls \o Tail(@)]
IfaceSeq == Walk({Iface[r] : r \in Recs})
Each(name, recs) == LET rs == Walk(recs) IN [i \in 1..Len(rs) |-> <<name, rs[i]>>]

\* iscsi_login_portals over a list: log in to each, then wait for or drop them
LoginPortals(recs, wait) ==
  Each("login_portal", recs) \o <<<<IF wait THEN "reqs_wait" ELSE "reqs_close">>>>

match_startup_mode(r, mode) == mode = "all" \/ Startup[r] = mode

\* the others first; then, one iface after the other, those with leading_login
login_by_startup(mode, wait) ==
  LET recs == {r \in Recs : match_startup_mode(r, mode)}
      leading(i) == {r \in recs \cap Leading : Iface[r] = IfaceSeq[i]}
  IN (IF recs \subseteq Leading THEN <<>> ELSE LoginPortals(recs \ Leading, wait))
     \o (IF recs \cap Leading = {} THEN <<>>
         ELSE Chain([i \in 1..Len(IfaceSeq) |->
                Each("do_leading_login", leading(i)) \o <<<<"reqs_wait">>>>]))

LogoutPortals(recs, wait) ==
  <<<<"logout_portals", recs>>, <<IF wait THEN "reqs_wait" ELSE "reqs_close">>>>

\* sessions that are needed to run the system stay
logout_by_startup(mode) ==
  LogoutPortals({r \in Recs : Startup[r] # "onboot" /\ match_startup_mode(r, mode)}, TRUE)

\* iscsiadm -m node and -m fw
exec_node_op(op, recs, wait) ==
  CASE op = "login" -> LoginPortals(recs, wait)
    [] op = "multiple" -> Each("login_multiple", recs) \o <<<<"reqs_wait">>>>
    [] op = "logout" -> LogoutPortals(recs, TRUE)
    [] op = "stats" -> <<<<"session_stats", recs>>>>

exec_fw_op(recs, wait) ==
  Chain([i \in 1..Cardinality(recs) |->
    <<<<"login_portal", Walk(recs)[i]>>, <<IF wait THEN "reqs_wait" ELSE "reqs_close">>>>])

\* the answer is waited for with a timeout, "tmo", or without one, "wait"
iscsid_exec_req(cmd, tmo) == <<<<"iscsid_request", cmd, None, tmo>>>>

kill_iscsid == iscsid_exec_req("stop", "tmo")
get_config_file == iscsid_exec_req("config", "tmo")
discovery_offload_sendtargets == iscsid_exec_req("send_targets", "wait")

\* a request to iscsid: connect, write, and read the answer unless it is async
iscsid_connect(p) ==
  LET c == Call(p) IN
  \/ /\ loop \notin {"final", "exited"}
     /\ Len(backlog) < Backlog
     /\ \E q \in {i \in Reqs : conn[i] = NoConn /\ \A j \in 1..i-1 : conn[j] # NoConn} :
          /\ conn' = [conn EXCEPT ![q] = [NoConn EXCEPT !.cmd = c[2], !.arg = c[3], !.own = p,
                                          !.client = TRUE, !.at = "queued"]]
          /\ backlog' = Append(backlog, q)
          /\ Calls(p, <<<<"iscsid_request_write", q, c[4]>>>>)
  \/ /\ loop \in {"final", "exited"}    \* refused
     /\ Calls(p, <<>>)
     /\ UNCHANGED <<conn, backlog>>

iscsid_request_write(p) ==
  LET q == Call(p)[2]  waits == Call(p)[3] IN
  /\ IF Ended(q)
     THEN conn' = [conn EXCEPT ![q] = Closed(@)] /\ Calls(p, <<>>)
     ELSE /\ conn' = [conn EXCEPT ![q].sent = TRUE]
          /\ Calls(p, IF waits = "async" THEN <<>> ELSE <<<<"iscsid_response", q, waits>>>>)
  /\ UNCHANGED backlog

\* an answer or the end of the connection, or a timeout, which leaves it open
iscsid_response(p) ==
  LET q == Call(p)[2]  waits == Call(p)[3] IN
  /\ Calls(p, <<>>)
  /\ \/ Ended(q) /\ conn' = [conn EXCEPT ![q] = Closed(@)]
     \/ waits = "tmo" /\ UNCHANGED conn
  /\ UNCHANGED backlog

iscsid_reqs_wait(p) ==
  /\ \/ Own(p) = {} /\ Calls(p, <<>>) /\ UNCHANGED conn
     \/ \E q \in Own(p) : Ended(q) /\ conn' = [conn EXCEPT ![q] = Closed(@)] /\ UNCHANGED prog
  /\ UNCHANGED backlog

Requests(p) ==
  /\ \/ Call(p)[1] = "iscsid_request" /\ iscsid_connect(p)
     \/ Call(p)[1] = "iscsid_request_write" /\ iscsid_request_write(p)
     \/ Call(p)[1] = "iscsid_response" /\ iscsid_response(p)
     \/ Call(p)[1] = "reqs_wait" /\ iscsid_reqs_wait(p)
     \/ /\ Call(p)[1] = "reqs_close"
        /\ conn' = iscsid_reqs_close(conn, p) /\ Calls(p, <<>>) /\ UNCHANGED backlog
  /\ UNCHANGED discs

\* __iscsi_login_portal
AsyncLogin(r, multiple) == <<"iscsid_request", "login", <<r, Multiple(r, multiple)>>, "async">>

\* count the sessions, and create those that are missing
iscsi_login_portal(r) ==
  LET session_count == Cardinality(Matching(r))
  IN IF session_count >= NrSessions[r] THEN <<>>
     ELSE Repeat(AsyncLogin(r, FALSE), NrSessions[r] - session_count)

iscsi_login_portal_nowait(r) == <<<<"login_portal", r>>, <<"reqs_close">>>>

iscsi_check_for_running_session(r) == Matching(r) # {}

__do_leading_login(r) ==
  IF \E s \in Sids : InSysfs(s) /\ Target[sess[s].rec] = Target[r] THEN <<>>
  ELSE <<<<"login_portal", r>>>>

\* iscsi_logout_portals with the records of a set: logout_session,
\* __logout_by_startup, iscsi_logout_matched_portal
iscsi_logout_portals(recs) ==
  LET found == Walk({s \in Sids : InSysfs(s) /\ sess[s].rec \in recs})
  IN [i \in 1..Len(found) |-> <<"iscsid_request", "logout", found[i], "async">>]

sync_sessions ==
  LET found == Walk({s \in Sids : InSysfs(s)})
  IN [i \in 1..Len(found) |-> <<"sync_session", found[i]>>]

\* one that firmware or another program made is left alone
sync_session(p, s) ==
  Calls(p, <<>>) \/ Calls(p, <<<<"iscsid_request", "sync", s, "tmo">>>>)

session_stats(recs) ==
  LET found == Walk({s \in Sids : InSysfs(s) /\ sess[s].rec \in recs})
  IN [i \in 1..Len(found) |-> <<"iscsid_request", "info", found[i], "tmo">>]

\* a record of a discovery: log in unless there is a session
update_session(r) ==
  IF iscsi_check_for_running_session(r) THEN <<>> ELSE iscsi_login_portal_nowait(r)

SessionMgmt(p) ==
  /\ \/ Call(p)[1] = "login_portal" /\ Calls(p, iscsi_login_portal(Call(p)[2]))
     \/ Call(p)[1] = "login_multiple" /\ Calls(p, <<AsyncLogin(Call(p)[2], TRUE)>>)
     \/ Call(p)[1] = "do_leading_login" /\ Calls(p, __do_leading_login(Call(p)[2]))
     \/ Call(p)[1] = "logout_portals" /\ Calls(p, iscsi_logout_portals(Call(p)[2]))
     \/ Call(p)[1] = "session_stats" /\ Calls(p, session_stats(Call(p)[2]))
     \/ Call(p)[1] = "sync_sessions" /\ Calls(p, sync_sessions)
     \/ Call(p)[1] = "sync_session" /\ sync_session(p, Call(p)[2])
     \/ Call(p)[1] = "update_session" /\ Calls(p, update_session(Call(p)[2]))
  /\ UNCHANGED <<conn, backlog, discs>>

-----------------------------------------------------------------------------
(* The SendTargets child.                                                   *)

\* the stale sessions are logged out of after the logins to the new ones
update_sessions(p, new) ==
  LET stale == iscsi_targets[p] \ new
  IN /\ iscsi_targets' = [iscsi_targets EXCEPT ![p] = new]
     /\ Calls(p, Each("update_session", new)
                 \o (IF stale = {} THEN <<>> ELSE LogoutPortals(stale, FALSE))
                 \o <<<<"poll">>>>)

\* the discovery itself ends with a set of records or fails
__do_st_disc_and_login(p) ==
  /\ \/ /\ rounds[p] < MaxRounds
        /\ rounds' = [rounds EXCEPT ![p] = @ + 1]
        /\ \E new \in SUBSET Found : update_sessions(p, new)
     \/ /\ Calls(p, <<<<"poll">>>>)    \* the discovery failed
        /\ UNCHANGED <<iscsi_targets, rounds>>
  /\ UNCHANGED stop_discoveryd

\* the condition of the loop, and the sleep
do_st_disc_and_login(p) ==
  /\ Calls(p, IF p \in PollInval /\ ~stop_discoveryd[p] THEN <<<<"fall_asleep">>>> ELSE <<<<"discoveryd_stop">>>>)
  /\ UNCHANGED discs

discoveryd_stop(p) ==
  /\ IF stop_discoveryd[p] /\ iscsi_targets[p] # {}
     THEN Calls(p, LogoutPortals(iscsi_targets[p], TRUE)) /\ iscsi_targets' = [iscsi_targets EXCEPT ![p] = {}]
     ELSE Calls(p, <<>>) /\ UNCHANGED iscsi_targets
  /\ UNCHANGED <<stop_discoveryd, rounds>>

Discovery(p) ==
  /\ \/ Call(p)[1] = "discover" /\ __do_st_disc_and_login(p)
     \/ Call(p)[1] = "poll" /\ do_st_disc_and_login(p)
     \/ Call(p)[1] = "fall_asleep" /\ Calls(p, <<<<"sleep">>>>) /\ UNCHANGED discs
     \/ Call(p)[1] = "sleep" /\ Calls(p, <<<<"discover">>>>) /\ UNCHANGED discs
     \/ Call(p)[1] = "discoveryd_stop" /\ discoveryd_stop(p)
  /\ UNCHANGED <<conn, backlog>>

ProcStep(p) ==
  /\ prog[p] # <<>>
  /\ Requests(p) \/ SessionMgmt(p) \/ Discovery(p)
  /\ UNCHANGED <<loop, daemon, cur, sess, child, env>>

\* a forked child starts: setup_signal_handler in fork_disc
ChildStart(c) ==
  /\ child[c] = "forked"
  /\ child' = [child EXCEPT ![c] = "live"]
  /\ prog' = [prog EXCEPT ![c] = <<<<IF c = Sync THEN "sync_sessions" ELSE "discover">>>>]
  /\ UNCHANGED <<loop, daemon, cur, backlog, conn, sess, discs, env>>

ChildExit(c) ==
  /\ child[c] = "live" /\ prog[c] = <<>>
  /\ child' = [child EXCEPT ![c] = "zombie"]
  /\ conn' = iscsid_reqs_close(conn, c)
  /\ UNCHANGED <<loop, daemon, cur, backlog, sess, discs, prog, env>>

\* a client ends and its connections with it, or it is killed
ClientExit(p) ==
  /\ prog[p] = <<>> /\ Own(p) # {}
  /\ conn' = iscsid_reqs_close(conn, p)
  /\ UNCHANGED <<loop, daemon, cur, backlog, sess, child, discs, prog, env>>

ClientKilled(p) ==
  /\ prog[p] # <<>> /\ crashes > 0
  /\ crashes' = crashes - 1
  /\ prog' = [prog EXCEPT ![p] = <<>>]
  /\ conn' = iscsid_reqs_close(conn, p)
  /\ UNCHANGED <<loop, daemon, cur, backlog, sess, child, discs, lost, drecs, signals>>

-----------------------------------------------------------------------------
Init ==
  /\ loop = "start" /\ event_loop_stop = FALSE /\ shutdown_qtask = NoReq
  /\ notified = FALSE /\ cur = NoReq /\ reap_count = 0 /\ shutdown_callbacks = {}
  /\ sessions_to_recover = FALSE /\ backlog = <<>>
  /\ conn = [q \in Reqs |-> NoConn]
  /\ child = [c \in Children |-> "none"]
  /\ stop_discoveryd = [d \in Discs |-> FALSE]
  /\ iscsi_targets = [d \in Discs |-> {}]
  /\ rounds = [d \in Discs |-> 0]
  /\ lost = FALSE
  /\ \E setup \in Setups :
       LET old == Walk(setup.old) IN
       /\ prog = [p \in Procs |-> IF p \in Clients THEN setup.script[p] ELSE <<>>]
       /\ sess = [s \in Sids |-> IF s \in 1..Len(old)
                                 THEN [NoSess EXCEPT !.st = "orphan", !.rec = old[s]] ELSE NoSess]
       /\ drecs = setup.drecs /\ signals = setup.signals /\ crashes = setup.crashes

IscsidStep ==
  \/ Main \/ EnterLoop \/ LoopTop \/ PollTimeout
  \/ Handle \/ reap_proc \/ LoopEnd \/ iscsid_shutdown

Next ==
  \/ IscsidStep
  \/ Accept
  \/ \E s \in Sids : SessionStep(s)
  \/ Sigterm
  \/ \E p \in Procs : ProcStep(p)
  \/ \E c \in Children : ChildStart(c) \/ ChildExit(c)
  \/ \E p \in Clients : ClientExit(p) \/ ClientKilled(p)

-----------------------------------------------------------------------------
(* Fairness: iscsid and the clients run; poll returns what is ready, and     *)
(* actor_poll runs in every round, so a session that is coming or going goes *)
(* on.  A session that is synced need not get its target back, and SIGTERM   *)
(* need not come.                                                            *)

Moving(s) == sess[s].st \in {"retry", "connect", "login", "going"}

CanStep(p) ==
  /\ prog[p] # <<>>
  /\ CASE Call(p)[1] = "iscsid_request" ->
            \/ loop \in {"final", "exited"}
            \/ Len(backlog) < Backlog /\ \E q \in Reqs : conn[q] = NoConn
       [] Call(p)[1] = "iscsid_response" -> Call(p)[3] = "tmo" \/ Ended(Call(p)[2])
       [] Call(p)[1] = "reqs_wait" -> Own(p) = {} \/ \E q \in Own(p) : Ended(q)
       [] OTHER -> TRUE

Fairness ==
  /\ WF_vars(IscsidStep)
  /\ <>[](backlog # <<>>) => []<><<Accept>>_vars
  /\ \A s \in Sids : <>[]Moving(s) => []<><<SessionStep(s)>>_vars
  /\ \A p \in Procs : <>[]CanStep(p) => []<><<ProcStep(p)>>_vars
  /\ \A c \in Children : WF_vars(ChildStart(c) \/ ChildExit(c))
  /\ \A p \in Clients : WF_vars(ClientExit(p))

Spec == Init /\ [][Next]_vars /\ Fairness

-----------------------------------------------------------------------------
(* Properties.                                                              *)

\* The types of the variables, and a connection is held by one thing only: the
\* backlog, the reader, a session or the shutdown (or it was overwritten there).
TypeOK ==
  /\ loop \in {"start", "enter", "top", "poll", "read", "reap", "end", "final", "exited"}
  /\ shutdown_qtask \in Reqs \cup {NoReq}
  /\ \A c \in Children : child[c] \in {"none", "forked", "live", "zombie", "gone"}
  /\ \A q \in Range(backlog) : conn[q].at = "queued"
  /\ cur # NoReq => conn[cur].at = "held" /\ cur \notin Range(backlog)
  /\ \A s \in Sids : \A q \in {sess[s].qtask, sess[s].logout_qtask} \ {NoReq} : conn[q].at = "held"
  /\ shutdown_qtask # NoReq => conn[shutdown_qtask].at = "held"

\* When a client is told that iscsid stopped (mgmt_ipc_immediate_stop answered
\* with success), no discovery child is left that could still log in or out.
StopMeansStopped ==
  \A q \in Reqs : conn[q].cmd = "stop" /\ conn[q].rsp = "ok"
                  => \A d \in Discs : child[d] \notin {"forked", "live"}

\* Nobody asks for one more session of a record that allows only one, as iscsiadm
\* -m session --op new does whatever nr_sessions says
Modest(call) ==
  /\ call[1] \in {"login_portal", "login_multiple", "do_leading_login", "update_session"} => call[2] \in Recs
  /\ call[1] = "login_multiple" => NrSessions[call[2]] > 1
  /\ call[1] = "iscsid_request" /\ call[2] = "login" => (call[3][2] => NrSessions[call[3][1]] > 1)

ModestSetups ==
  \A setup \in Setups :
    /\ IsFiniteSet(setup.old)
    /\ \A p \in Clients : /\ setup.script[p] \in Seq(Range(setup.script[p]))
                          /\ \A call \in Range(setup.script[p]) : Modest(call)

\* However many clients, discovery children and syncs race, iscsid keeps one
\* session for a record that allows only one (session_is_running), and one owner for
\* each connection (TypeOK).
OneSessionPerRecord ==
  /\ TypeOK
  /\ \A r \in Recs : NrSessions[r] = 1
    => Cardinality({s \in Sids : (InList(s) \/ InSysfs(s)) /\ sess[s].rec = r}) <= 1

\* Every client gets to its end: whatever it waits for is answered or cut off,
\* through shutdown too (iscsid_req_wait has no timeout, nor has an offloaded SendTargets).
ClientsEnd == \A p \in Clients : prog[p] # <<>> ~> prog[p] = <<>>

\* A stop request or a SIGTERM that somebody is there to notice ends iscsid, and
\* with it the discovery children.
ShutdownEnds == event_loop_stop ~> (loop = "exited" \/ lost)
=============================================================================
