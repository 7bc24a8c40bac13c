------------------------------- MODULE Session -------------------------------
(***************************************************************************)
(* One iSCSI session of iscsid: its connection state machine, timers,      *)
(* error recovery and the management requests that wait for it             *)
(* (usr/initiator.c), with the netlink event queue of usr/netlink.c and    *)
(* the answering side of usr/mgmt_ipc.c.                                   *)
(*                                                                         *)
(* iscsid is single threaded: a callback or a request handler runs to its  *)
(* end before the next one starts, so each is one action.  What races with *)
(* it is the kernel, which queues events on the netlink socket at any time *)
(* between two handlers, the target, the timers and the users.             *)
(*                                                                         *)
(* A handler is a function from the state record s to the next one.  Its   *)
(* last argument f is the set of the kernel or library calls that fail     *)
(* during this invocation.                                                 *)
(***************************************************************************)
EXTENDS Integers, Sequences, FiniteSets

CONSTANTS
    Req,         \* management requests (queue_task_t of MGMT_IPC_*)
    None,        \* a NULL queue_task_t pointer
    ReopenQ,     \* session->reopen_qtask, embedded in the session
    NopOut,      \* userspace_nop with a noop_out_interval
    Erl,         \* negotiated ErrorRecoveryLevel
    ReopenMax,   \* node.session.reopen_max, 0 for no limit
    RetryMax,    \* node.session.initial_login_retry_max
    HostRetryMax,\* node.conn[0].timeo.login_timeout, as a retry count
    PoolMax,     \* CONTEXT_POOL_MAX
    MaxCnt,      \* bound: reopen_cnt saturates here
    Setups       \* the transports and environments a behaviour may have

Calls == {"stop_conn", "destroy_conn", "destroy_session", "create_session",
          "create_conn", "bind_conn", "start_conn", "start_exists", "set_params",
          "set_neg_params", "login_begin", "send_pdu", "net_config", "ep_connect",
          "unbind", "fork", "host_params", "host_again", "in_use"}

AllReplies == {"more", "full", "moved_temp", "moved_perm", "auth_failed",
               "initiator_err", "target_err", "protocol_err", "io_err"}

ASSUME ReqAssumption == None \notin Req /\ ReopenQ \notin Req /\ None # ReopenQ
ASSUME FlagAssumption == NopOut \in BOOLEAN
ASSUME BoundAssumption ==
    /\ {Erl, ReopenMax} \subseteq Nat
    /\ {PoolMax, MaxCnt, HostRetryMax} \subseteq Nat \ {0}
    /\ RetryMax \in 0 .. MaxCnt
\* offload: the transport has CAP_LOGIN_OFFLOAD; fail: the calls that may fail, at most maxfail of them
\* during one handler; replies: what the target may answer to a login; faults: of the environment;
\* reqs: how many requests come; maxnl, a bound: events waiting in the netlink socket.
ASSUME SetupAssumption ==
    Setups \subseteq [offload : BOOLEAN, fail : SUBSET Calls, maxfail : Nat, replies : SUBSET AllReplies,
                      faults : SUBSET {"error", "host", "crash"}, reqs : Nat, maxnl : Nat]

VARIABLE s

Offload == s.setup.offload
Replies == s.setup.replies
Faults == s.setup.faults

Qtask == Req \cup {ReopenQ}
ConnState == {"FREE", "XPT_WAIT", "IN_LOGIN", "LOGGED_IN", "IN_LOGOUT", "CLEANUP_WAIT"}
RStage == {"NO_CHANGE", "REOPEN", "REDIRECT", "DESTOYED"}
Address == {"home", "other"}

\* The kernel's session and connection: "none", a session without connection,
\* an unbound or stopped connection, one bound to a socket, one whose offloaded
\* login is under way, one in full feature phase.
Kernel == {"none", "session", "conn", "bound", "starting", "started"}

KernelEvent == {"RECV_PDU", "ERROR", "INVALID_HOST", "LOGIN_OK", "LOGIN_FREE", "STOP"}

\* Contexts of the pool.  stale marks a kernel event that was queued before the
\* connection was last bound.
Event == [ev : KernelEvent, q : {None}, stale : BOOLEAN]
TimerContext == [ev : {"POLL"}, q : Qtask, stale : {FALSE}]
                   \cup [ev : {"LOGOUT_TIMER"}, q : {None}, stale : {FALSE}]

SessionRecord ==
    [live : BOOLEAN,         \* the iscsi_session_t exists
     id : BOOLEAN,           \* session->id # INVALID_SESSION_ID
     state : ConnState,
     r_stage : RStage,
     reopen_cnt : 0 .. MaxCnt,
     time2wait : BOOLEAN,    \* session->def_time2wait # 0
     late : BOOLEAN,         \* initial_login_retry_max * login_timeout has passed
     notify : Qtask \cup {None},       \* session->notify_qtask
     logout : Req \cup {None},         \* conn->logout_qtask
     login : Qtask \cup {None},        \* conn->login_context.qtask
     login_timer : Qtask \cup {None},  \* its data while it is armed
     nop_timer : {"off", "interval", "timeout"},
     saddr : Address, failback : Address,
     pool : 0 .. PoolMax,              \* allocated contexts
     ready : Seq(Event \cup TimerContext),  \* contexts on ready_list
     pend : SUBSET TimerContext,            \* contexts on pend_list
     retry : [Req -> 0 .. HostRetryMax],    \* login_task_retry_info, 0 if none
     k : Kernel,
     unbinding : BOOLEAN,    \* the kernel has still to report the unbind
     nl : Seq(Event),        \* the netlink socket
     req : [Req -> {"idle", "open", "ok", "err", "twice"}],
     kind : [Req -> {"none", "login", "logout", "sync"}],
     dropped : BOOLEAN,      \* an event was dropped for want of a context
     zombie : BOOLEAN,       \* a timer of a freed session is still armed
     setup : Setups,
     relinked : BOOLEAN]     \* actor_timer hit an actor that was on a list

TypeOK == s \in SessionRecord

\* A session after __session_create and __session_conn_create.
Fresh(t) ==
    [t EXCEPT !.live = FALSE, !.id = FALSE, !.state = "FREE", !.r_stage = "NO_CHANGE",
              !.reopen_cnt = 0, !.time2wait = FALSE, !.late = FALSE, !.notify = None,
              !.logout = None, !.login = None, !.login_timer = None, !.nop_timer = "off",
              !.saddr = "home", !.failback = "home", !.dropped = FALSE,
              !.pool = 0, !.ready = <<>>, !.pend = {}, !.nl = <<>>]

(***************************************************************************)
(* Answering, contexts, timers.                                            *)
(***************************************************************************)
\* mgmt_ipc_write_rsp: answer and free the request.  A NULL qtask and the
\* embedded reopen_qtask are not answered.
WriteRsp(t, q, rsp) ==
    IF q \in Req
    THEN [t EXCEPT !.req[q] = IF @ = "open" THEN rsp ELSE "twice"]
    ELSE t

HasContext(t) == t.pool < PoolMax

\* iscsi_ev_context_get, iscsi_sched_ev_context: a context at the tail of
\* ready_list, or on pend_list.
Schedule(t, ev, q) ==
    [t EXCEPT !.pool = @ + 1, !.ready = Append(@, [ev |-> ev, q |-> q, stale |-> FALSE])]

ScheduleTimer(t, ev, q) ==
    [t EXCEPT !.pool = @ + 1, !.pend = @ \cup {[ev |-> ev, q |-> q, stale |-> FALSE]}]

\* Broken variant: the contexts are not put back.
BadFlushContextPool(t) == [t EXCEPT !.ready = <<>>, !.pend = {}]

\* Broken variant: nothing is flushed.
NoFlushContextPool(t) == t

\* iscsi_flush_context_pool
FlushContextPool(t) == [t EXCEPT !.pool = 0, !.ready = <<>>, !.pend = {}]

ConnDeleteTimers(t) == [t EXCEPT !.login_timer = None, !.nop_timer = "off"]

\* actor_timer on nop_out_timer: it re-initialises the list links, which is
\* right only for an actor that is on no list.
NopOutTimer(t, callback) ==
    [t EXCEPT !.nop_timer = callback, !.relinked = @ \/ t.nop_timer # "off"]

\* queue_delayed_reopen
QueueDelayedReopen(t, q) == [t EXCEPT !.login_timer = q]

(***************************************************************************)
(* Kernel calls.                                                           *)
(***************************************************************************)
\* ctldev_handle: one event leaves the socket for the pool; it is dropped when
\* no session has its sid or no context is free.
CtldevHandle(t) ==
    LET e == Head(t.nl)
        u == [t EXCEPT !.nl = Tail(@)]
    IN  IF ~ (t.live /\ t.id) THEN u
        ELSE IF HasContext(t) THEN [u EXCEPT !.pool = @ + 1, !.ready = Append(@, e)]
        ELSE [u EXCEPT !.dropped = TRUE]

\* __kipc_call: every event ahead of the kernel's answer is handled the same
\* way before the call returns.
KipcCall(t) ==
    LET room == PoolMax - t.pool
        n == IF Len(t.nl) <= room THEN Len(t.nl) ELSE room
    IN  IF ~ (t.live /\ t.id) THEN [t EXCEPT !.nl = <<>>]
        ELSE [t EXCEPT !.nl = <<>>, !.pool = @ + n, !.ready = @ \o SubSeq(t.nl, 1, n),
                       !.dropped = @ \/ n < Len(t.nl)]

\* ep_disconnect and ep_poll go to the kernel when it owns the endpoint.
EndpointCall(t) == IF Offload THEN KipcCall(t) ELSE t

\* A call about a connection fails when the kernel has none.
CallFails(call, t, f) == call \in f \/ t.k \in {"none", "session"}

KStopConn(t, f) ==
    IF CallFails("stop_conn", t, f) THEN KipcCall(t) ELSE [KipcCall(t) EXCEPT !.k = "conn"]

KDestroyConn(t, f) ==
    IF "destroy_conn" \in f THEN KipcCall(t) ELSE [KipcCall(t) EXCEPT !.k = "session"]

\* Broken variant: the kernel keeps the session.
BadKDestroySession(t, f) == KipcCall(t)

KDestroySession(t, f) ==
    IF "destroy_session" \in f THEN KipcCall(t) ELSE [KipcCall(t) EXCEPT !.k = "none", !.unbinding = FALSE]

\* A new connection incarnation: whatever is queued now belongs to the last one.
KBindConn(t) ==
    LET u == KipcCall(t)
    IN  [u EXCEPT !.k = "bound",
                  !.ready = [i \in DOMAIN @ |->
                      IF @[i].ev \in KernelEvent THEN [@[i] EXCEPT !.stale = TRUE] ELSE @[i]]]

(***************************************************************************)
(* Tearing down and reopening.                                             *)
(***************************************************************************)
\* __session_destroy
SessionDestroy(t) ==
    [Fresh(t) EXCEPT !.zombie = @ \/ t.login_timer # None \/ t.nop_timer # "off"]

\* How session_conn_shutdown ends when it succeeds.
FreeSession(t, q, rsp) == SessionDestroy(ConnDeleteTimers(WriteRsp(t, q, rsp)))

\* session_conn_shutdown.  It succeeded iff the session is gone afterwards.
SessionConnShutdown(t, q, rsp, f) ==
    LET a == EndpointCall(t)
        stops == t.state \in {"IN_LOGIN", "IN_LOGOUT", "LOGGED_IN"}
        b == IF stops THEN KStopConn(a, f) ELSE a
        c == KDestroyConn(b, f)
        hasLead == t.k \notin {"none", "session"}     \* iscsi_sysfs_session_has_leadconn
        d == KDestroySession([(IF hasLead THEN c ELSE a) EXCEPT !.r_stage = "DESTOYED"], f)
        stopFails == hasLead /\ stops /\ "stop_conn" \in f
        connStays == hasLead /\ "destroy_conn" \in f
    IN  IF ~ t.id THEN FreeSession(a, q, rsp)
        ELSE IF stopFails THEN b
        ELSE IF connStays THEN c
        ELSE IF "destroy_session" \in f THEN d
        ELSE FreeSession(d, q, rsp)

\* Broken variant: no login timer while connecting.
BadConnConnect(t, q, f) ==
    IF HasContext(t) /\ "ep_connect" \notin f THEN Schedule(t, "POLL", q)
    ELSE QueueDelayedReopen(t, q)

\* iscsi_conn_connect, with what both callers do when it fails.
ConnConnect(t, q, f) ==
    IF ~ HasContext(t) THEN QueueDelayedReopen(t, q)
    ELSE IF "ep_connect" \in f THEN QueueDelayedReopen(EndpointCall(t), q)
    ELSE [Schedule(EndpointCall(t), "POLL", q) EXCEPT !.login_timer = q]

\* __session_conn_reopen.  A stop_conn that fails, a pending def_time2wait, a
\* failed net config and a failed connect all wait on the login timer.
ReopenConn(t, q, stop, redirected, f) ==
    LET a == EndpointCall([ConnDeleteTimers(FlushContextPool(t)) EXCEPT !.state = "XPT_WAIT"])
        b == IF stop THEN KStopConn(a, f) ELSE a
        c == IF redirected \/ b.reopen_cnt = MaxCnt THEN b ELSE [b EXCEPT !.reopen_cnt = @ + 1]
    IN  IF stop /\ CallFails("stop_conn", a, f) THEN QueueDelayedReopen(b, q)
        ELSE IF ~ redirected /\ b.time2wait
        THEN QueueDelayedReopen([b EXCEPT !.time2wait = FALSE], q)
        ELSE IF "net_config" \in f THEN QueueDelayedReopen(c, q)
        ELSE ConnConnect(c, q, f)

\* session_conn_reopen falls back to the original address first.
SessionConnReopen(t, q, stop, f) ==
    ReopenConn([t EXCEPT !.saddr = t.failback], q, stop, FALSE, f)

\* Broken variant: no limit on the time.
BadGivesUpInitialLogin(t, err) == err \in {"LOGIN_AUTH_FAILED", "FATAL_LOGIN"}

\* iscsi_login_is_fatal_err, or iscsi_retry_initial_login says no.
GivesUpInitialLogin(t, err) == err \in {"LOGIN_AUTH_FAILED", "FATAL_LOGIN"} \/ t.late

\* Broken variant: a failure is reported as success.
LyingLoginEh(t, q, err, f) ==
    IF GivesUpInitialLogin(t, err) THEN SessionConnShutdown(t, q, "ok", f)
    ELSE SessionConnReopen(FlushContextPool(t), q, TRUE, f)

\* iscsi_login_eh.  R_STAGE_SESSION_CLEANUP is never set by any code.
LoginEh(t, q, err, f) ==
    LET a == FlushContextPool(t)
        initial == t.r_stage \in {"NO_CHANGE", "REDIRECT"}
        waiting == t.state = "XPT_WAIT"
        tooMany == waiting /\ ReopenMax > 0 /\ t.reopen_cnt > ReopenMax
    IN  IF t.state \notin {"XPT_WAIT", "IN_LOGIN"} \/ t.r_stage = "DESTOYED" THEN a
        ELSE IF (initial /\ GivesUpInitialLogin(t, err)) \/ (~ initial /\ tooMany)
        THEN SessionConnShutdown(a, q, "err", f)
        ELSE SessionConnReopen(a, q, ~ waiting \/ (t.r_stage = "NO_CHANGE" /\ t.id), f)

\* Broken variant: the connection is not stopped for recovery.
BadConnErrorHandle(t, f) ==
    IF t.logout # None THEN SessionConnShutdown(t, t.logout, "ok", f)
    ELSE SessionConnReopen([t EXCEPT !.r_stage = "REOPEN"], ReopenQ, FALSE, f)

\* __conn_error_handle
ConnErrorHandle(t, f) ==
    LET failed == [t EXCEPT !.state = "CLEANUP_WAIT",
                            !.r_stage = IF Erl > 0 THEN @ ELSE "REOPEN"]
    IN  IF t.logout # None THEN SessionConnShutdown(t, t.logout, "ok", f)
        ELSE IF t.state \in {"LOGGED_IN", "IN_LOGOUT"}
        THEN IF failed.r_stage = "REOPEN"
             THEN SessionConnReopen(failed, ReopenQ, TRUE, f)
             ELSE failed
        ELSE IF t.state = "IN_LOGIN" /\ t.r_stage = "REOPEN"
        THEN LoginEh(t, IF t.notify # None THEN t.notify ELSE ReopenQ, "TRANS", f)
        ELSE t

(***************************************************************************)
(* Logging in.                                                             *)
(***************************************************************************)
\* The host scan of the first login is forked; the child answers the request.
ScanHost(t, q, f) == WriteRsp(t, q, IF "fork" \in f THEN "err" ELSE "ok")

\* The tail of setup_full_feature_phase and of session_conn_process_login.
LoggedIn(t, f) ==
    LET u == IF t.r_stage \in {"NO_CHANGE", "REDIRECT"} THEN ScanHost(t, t.login, f)
             ELSE WriteRsp([t EXCEPT !.notify = None], t.login, "ok")
    IN  [u EXCEPT !.state = "LOGGED_IN", !.reopen_cnt = 0, !.r_stage = "NO_CHANGE"]

\* Broken variant: the login timer stays armed.
BadSetupFullFeaturePhase(t, f) == LoggedIn([KipcCall(t) EXCEPT !.k = "started"], f)

\* setup_full_feature_phase
SetupFullFeaturePhase(t, f) ==
    LET a == KipcCall([t EXCEPT !.login_timer = None])
        up == LoggedIn([a EXCEPT !.k = "started"], f)
    IN  IF CallFails("set_neg_params", a, f) THEN LoginEh(a, t.login, "LOGIN", f)
        ELSE IF "start_conn" \in f THEN LoginEh(a, t.login, "INTERNAL", f)
        ELSE IF NopOut THEN NopOutTimer(up, "interval") ELSE up

\* setup_offload_login_phase
SetupOffloadLoginPhase(t, f) ==
    LET a == KipcCall([t EXCEPT !.login_timer = None])
        b == [a EXCEPT !.state = "IN_LOGIN"]
    IN  IF f \cap {"set_params", "set_neg_params"} # {} THEN LoginEh(a, t.login, "LOGIN", f)
        ELSE IF "start_exists" \in f THEN SessionConnShutdown(b, t.login, "err", f)
        ELSE IF "start_conn" \in f THEN LoginEh(b, t.login, "INTERNAL", f)
        ELSE [b EXCEPT !.k = "starting", !.notify = t.login]

\* session_conn_poll once the connection is established.
Connected(t, q, f) ==
    LET a == [t EXCEPT !.login = None]
        b == IF t.id THEN a ELSE [KipcCall(a) EXCEPT !.id = TRUE, !.k = "session"]
        c == IF t.id THEN a ELSE [b EXCEPT !.k = "conn"]
        d == [KBindConn(c) EXCEPT !.login = q]
        e == [d EXCEPT !.state = "IN_LOGIN"]
    IN  IF ~ t.id /\ "create_session" \in f THEN SessionConnShutdown(a, q, "err", f)
        ELSE IF ~ t.id /\ "create_conn" \in f THEN SessionConnShutdown(b, q, "err", f)
        ELSE IF "bind_conn" \in f THEN LoginEh(KipcCall(c), q, "LOGIN", f)
        ELSE IF Offload THEN SetupOffloadLoginPhase(d, f)
        ELSE IF f \cap {"set_params", "login_begin"} # {} THEN LoginEh(d, q, "LOGIN", f)
        ELSE IF "send_pdu" \in f THEN LoginEh(e, q, "LOGIN", f)
        ELSE e

\* session_conn_poll, after iscsi_ev_context_put; r is what ep_poll found.
SessionConnPoll(t, q, r, f) ==
    LET a == EndpointCall(t)
    IN  IF t.state # "XPT_WAIT" THEN t
        ELSE IF r = "connected" THEN Connected(a, q, f)
        ELSE IF r = "error" THEN QueueDelayedReopen(a, q)
        ELSE IF HasContext(a) THEN ScheduleTimer(a, "POLL", q)
        ELSE LoginEh(a, q, "INTERNAL", f)

\* iscsi_login_redirect to the TargetAddress to.
LoginRedirect(t, to, f) ==
    LET u == [t EXCEPT !.saddr = to,
                       !.r_stage = IF @ = "NO_CHANGE" THEN "REDIRECT" ELSE @]
    IN  ReopenConn(u, t.login, TRUE, TRUE, f)

\* check_status_login_response: what iscsi_login_rsp leaves in c->ret.
LoginRet(reply) ==
    CASE reply \in {"moved_temp", "moved_perm"} -> "LOGIN_REDIRECT"
      [] reply = "io_err" -> "LOGIN_IO_ERROR"
      [] reply = "protocol_err" -> "LOGIN_FAILED"
      [] OTHER -> "LOGIN_OK"

\* __login_response_status
LoginResponseStatus(ret) ==
    CASE ret = "LOGIN_OK" -> "SUCCESS"
      [] ret = "LOGIN_REDIRECT" -> "IMM_REDIRECT_RETRY"
      [] ret = "LOGIN_IO_ERROR" -> "RETRY"
      [] OTHER -> "FAILED"

\* __check_iscsi_status_class, and the address it records on the way.
CheckIscsiStatusClass(reply) ==
    CASE reply = "moved_temp" -> "IMM_RETRY"
      [] reply = "moved_perm" -> "IMM_REDIRECT_RETRY"
      [] reply = "auth_failed" -> "AUTH_FAILED"
      [] reply = "initiator_err" -> "FAILED"
      [] reply = "target_err" -> "RETRY"
      [] OTHER -> "SUCCESS"

RecordMove(t, reply) ==
    IF reply = "moved_perm" THEN [t EXCEPT !.failback = t.saddr] ELSE t

\* iscsi_recv_login_rsp; to is the TargetAddress of a redirect.
RecvLoginRsp(t, reply, to, f) ==
    LET ret == LoginResponseStatus(LoginRet(reply))
        checked == ret = "SUCCESS"
        a == IF checked THEN RecordMove(t, reply) ELSE t
        status == IF checked THEN CheckIscsiStatusClass(reply) ELSE ret
        gaveUp == [a EXCEPT !.reopen_cnt = RetryMax]
    IN  CASE status = "FAILED" -> LoginEh(gaveUp, a.login, "FATAL_LOGIN", f)
          [] status = "AUTH_FAILED" -> LoginEh(gaveUp, a.login, "LOGIN_AUTH_FAILED", f)
          [] status \in {"RETRY", "IMM_RETRY"} -> LoginEh(a, a.login, "LOGIN", f)
          [] status = "IMM_REDIRECT_RETRY" -> LoginRedirect(a, to, f)
          [] OTHER -> IF reply = "full" THEN SetupFullFeaturePhase(a, f)
                      ELSE IF CallFails("send_pdu", a, f) THEN LoginEh(a, a.login, "LOGIN", f)
                      ELSE KipcCall(a)

\* session_conn_process_login, after iscsi_ev_context_put.  A failed login
\* answers, destroys what it can in the kernel and frees the session.
SessionConnProcessLogin(t, ok, f) ==
    LET a == WriteRsp([t EXCEPT !.notify = None], t.notify, "err")
        b == KDestroySession(KDestroyConn(a, f), f)
    IN  IF ~ Offload \/ (ok /\ t.state = "LOGGED_IN") THEN t
        ELSE IF ok THEN [LoggedIn(t, f) EXCEPT !.notify = None]
        ELSE SessionDestroy(b)

(***************************************************************************)
(* Logging out, full feature phase.                                        *)
(***************************************************************************)
\* iscsi_send_logout returns 0
LogoutSent(t, f) ==
    t.state = "LOGGED_IN" /\ ~ CallFails("send_pdu", t, f) /\ HasContext(KipcCall(t))

\* iscsi_send_logout: the state changes before a context for the timer is sought.
SendLogout(t, f) ==
    LET a == IF t.state = "LOGGED_IN" THEN KipcCall(t) ELSE t
        b == [a EXCEPT !.state = "IN_LOGOUT"]
    IN  IF t.state # "LOGGED_IN" \/ CallFails("send_pdu", t, f) THEN a
        ELSE IF HasContext(b) THEN ScheduleTimer(b, "LOGOUT_TIMER", None) ELSE b

\* Broken variant: the session is not dropped when the logout cannot be sent.
BadIscsiStop(t, f) == SendLogout(t, f)

\* iscsi_stop, on the kernel's unbind notification.
IscsiStop(t, f) ==
    LET a == SendLogout(t, f)
    IN  IF Offload THEN SessionConnShutdown(t, t.logout, "ok", f)
        ELSE IF LogoutSent(t, f) THEN a
        ELSE SessionConnShutdown(a, t.logout, "ok", f)

\* What a full feature phase PDU is to iscsid.
Pdu == {"nop_rsp", "nop_req", "logout_rsp", "logout_rsp_t2w", "logout_rsp_now",
        "async_logout", "async_drop_t2w", "async_drop_now", "async_nego", "other"}

\* Broken variant: the running timer is not deleted first.
BadRecvNopIn(t, pdu) == IF pdu = "nop_rsp" THEN NopOutTimer(t, "interval") ELSE KipcCall(t)

\* iscsi_recv_nop_in
RecvNopIn(t, pdu) ==
    IF pdu = "nop_rsp" THEN NopOutTimer([t EXCEPT !.nop_timer = "off"], "interval")
    ELSE KipcCall(t)

\* iscsi_recv_logout_rsp; responses 2 and 3 carry a time to wait.
RecvLogoutRsp(t, pdu, f) ==
    IF pdu = "logout_rsp" THEN ConnErrorHandle(t, f)
    ELSE ConnErrorHandle([t EXCEPT !.time2wait = (pdu = "logout_rsp_t2w")], f)

\* iscsi_recv_async_msg
RecvAsyncMsg(t, pdu, f) ==
    CASE pdu = "async_logout" -> SendLogout(t, f)
      [] pdu \in {"async_drop_t2w", "async_drop_now"} ->
            [t EXCEPT !.time2wait = (pdu = "async_drop_t2w")]
      [] pdu = "async_nego" -> ConnErrorHandle(t, f)

\* session_conn_recv_pdu in full feature phase
RecvPdu(t, pdu, f) ==
    CASE pdu \in {"nop_rsp", "nop_req"} -> IF NopOut THEN RecvNopIn(t, pdu) ELSE t
      [] pdu \in {"logout_rsp", "logout_rsp_t2w", "logout_rsp_now"} -> RecvLogoutRsp(t, pdu, f)
      [] pdu \in {"async_logout", "async_drop_t2w", "async_drop_now", "async_nego"} ->
            RecvAsyncMsg(t, pdu, f)
      [] OTHER -> t

\* conn_send_nop_out
ConnSendNopOut(t) ==
    IF t.state = "IN_LOGOUT" THEN t ELSE NopOutTimer(KipcCall(t), "timeout")

(***************************************************************************)
(* Management requests (mgmt_ipc_handle and the handlers it calls).        *)
(***************************************************************************)
Open(t, r, kind) == [t EXCEPT !.req[r] = "open", !.kind[r] = kind]

\* How __session_login_task ends.
LoginTaskResult(t, f) ==
    IF t.live \/ t.k # "none" THEN "SESS_EXISTS"
    ELSE IF "host_again" \in f THEN "HOST_NOT_FOUND"
    ELSE IF "host_params" \in f THEN "LOGIN"
    ELSE "SUCCESS"

\* __session_login_task when it succeeds.
StartLogin(t, r, f) ==
    ConnConnect([Fresh(t) EXCEPT !.live = TRUE, !.state = "XPT_WAIT"], r, f)

\* session_login_task: iscsiuio or the host not being ready is retried later.
SessionLoginTask(t, r, f) ==
    CASE LoginTaskResult(t, f) = "SUCCESS" -> StartLogin(t, r, f)
      [] LoginTaskResult(t, f) = "HOST_NOT_FOUND" -> [t EXCEPT !.retry[r] = 1]
      [] OTHER -> WriteRsp(t, r, "err")

\* session_login_task_retry
SessionLoginTaskRetry(t, r, f) ==
    LET a == [t EXCEPT !.retry[r] = 0]
        again == LoginTaskResult(t, f) = "HOST_NOT_FOUND"
    IN  IF again /\ t.retry[r] < HostRetryMax THEN [t EXCEPT !.retry[r] = @ + 1]
        ELSE IF LoginTaskResult(t, f) = "SUCCESS" THEN StartLogin(a, r, f)
        ELSE WriteRsp(a, r, "err")

\* iscsi_sync_session takes over a session of the kernel.
SyncSession(t, r, f) ==
    LET a == [Fresh(t) EXCEPT !.live = TRUE, !.id = TRUE, !.state = "CLEANUP_WAIT",
                              !.r_stage = "REOPEN", !.notify = r, !.nl = t.nl]
    IN  IF t.live \/ "host_params" \in f THEN WriteRsp(t, r, "err")
        ELSE SessionConnReopen(a, r, TRUE, f)

\* The first login is not over.
InitialLogin(t) ==
    t.state \in {"XPT_WAIT", "IN_LOGIN"} /\ t.r_stage \in {"NO_CHANGE", "REDIRECT"}

\* session_logout_task turns the request away.
LogoutRefused(t, f) ==
    \/ ~ (t.live /\ t.id)
    \/ t.notify # None
    \/ InitialLogin(t)
    \/ "in_use" \in f
    \/ t.logout # None

\* Broken variant: the caller answers as well.
BadDropForLogout(t, r, f) == WriteRsp(SessionConnShutdown(t, r, "ok", f), r, "err")

\* session_logout_task drops the session; if that fails mgmt_ipc_handle
\* answers the request.
DropForLogout(t, r, f) ==
    LET a == SessionConnShutdown(t, r, "ok", f)
    IN  IF a.live THEN WriteRsp(a, r, "err") ELSE a

\* session_logout_task.  Where the unbind call is not supported it returns
\* success when iscsi_send_logout failed, and drops the session when the
\* logout was sent.
SessionLogoutTask(t, r, f) ==
    LET a == [t EXCEPT !.logout = r]
        b == KipcCall(a)
        c == IF Offload THEN b ELSE SendLogout(b, f)
    IN  IF LogoutRefused(t, f) THEN WriteRsp(t, r, "err")
        ELSE IF t.state # "LOGGED_IN" THEN DropForLogout(a, r, f)
        ELSE IF "unbind" \notin f THEN [b EXCEPT !.unbinding = TRUE]
        ELSE IF ~ Offload /\ ~ LogoutSent(b, f) THEN c
        ELSE DropForLogout(c, r, f)

(***************************************************************************)
(* The actions.  Requests and netlink events are picked up by event_loop   *)
(* once actor_poll has emptied ready_list; one event may be read just      *)
(* before the request.  A ripe timer may run between any two contexts.     *)
(***************************************************************************)
Failures == {f \in SUBSET s.setup.fail : Cardinality(f) <= s.setup.maxfail}

\* A request that has not come yet, and may.
Comes(r) == s.req[r] = "idle" /\ Cardinality({q \in Req : s.req[q] # "idle"}) < s.setup.reqs

SessionLogin(r) ==
    /\ Len(s.ready) <= 1 /\ Comes(r)
    /\ \E f \in Failures : s' = SessionLoginTask(Open(s, r, "login"), r, f)

SessionLogout(r) ==
    /\ Len(s.ready) <= 1 /\ Comes(r)
    /\ \E f \in Failures : s' = SessionLogoutTask(Open(s, r, "logout"), r, f)

\* The child that iscsid forks at startup asks for the sessions it finds in
\* sysfs.
SessionSync(r) ==
    /\ Len(s.ready) <= 1 /\ Comes(r)
    /\ s.k # "none"
    /\ \E f \in Failures : s' = SyncSession(Open(s, r, "sync"), r, f)

ReadNetlink ==
    /\ s.ready = <<>> /\ s.nl # <<>>
    /\ s' = CtldevHandle(s)

\* The context actor_poll runs next.  actor_schedule_head puts INVALID_HOST
\* ahead of everything else.
NextContext ==
    IF \E i \in DOMAIN s.ready : s.ready[i].ev = "INVALID_HOST"
    THEN CHOOSE i \in DOMAIN s.ready : s.ready[i].ev = "INVALID_HOST"
    ELSE 1

Runs(ev) == s.ready # <<>> /\ s.ready[NextContext].ev = ev

\* The context is off ready_list and, by iscsi_ev_context_put, free again.
Taken == [s EXCEPT !.pool = @ - 1,
                   !.ready = [i \in 1 .. Len(@) - 1 |-> IF i < NextContext THEN @[i] ELSE @[i + 1]]]

RunPoll ==
    /\ Runs("POLL")
    /\ \E f \in Failures, r \in {"wait", "connected", "error"} :
            s' = SessionConnPoll(Taken, s.ready[NextContext].q, r, f)

\* session_conn_recv_pdu
RunRecvPdu ==
    /\ Runs("RECV_PDU")
    /\ \/ /\ s.state = "IN_LOGIN"
          /\ \E f \in Failures, reply \in Replies :
                \E to \in IF LoginRet(reply) = "LOGIN_REDIRECT" THEN Address ELSE {s.saddr} :
                    s' = RecvLoginRsp(Taken, reply, to, f)
       \/ /\ s.state \in {"LOGGED_IN", "IN_LOGOUT"}
          /\ \E f \in Failures, pdu \in Pdu : s' = RecvPdu(Taken, pdu, f)
       \/ s.state \notin {"IN_LOGIN", "LOGGED_IN", "IN_LOGOUT"} /\ s' = Taken

\* session_conn_error
RunError ==
    /\ Runs("ERROR")
    /\ \E f \in Failures : s' = ConnErrorHandle(Taken, f)

RunInvalidHost ==
    /\ Runs("INVALID_HOST")
    /\ \E f \in Failures : s' = SessionConnShutdown(Taken, None, "ok", f)

RunLogin(ok) ==
    /\ Runs(IF ok THEN "LOGIN_OK" ELSE "LOGIN_FREE")
    /\ \E f \in Failures : s' = SessionConnProcessLogin(Taken, ok, f)

RunStop ==
    /\ Runs("STOP")
    /\ \E f \in Failures : s' = IscsiStop(Taken, f)

\* iscsi_login_timedout
LoginTimerFires ==
    /\ s.login_timer # None
    /\ \E f \in Failures :
            s' = LoginEh([s EXCEPT !.login_timer = None], s.login_timer, "TIMEOUT", f)

\* conn_send_nop_out, conn_nop_out_timeout
NopTimerFires ==
    /\ s.nop_timer # "off"
    /\ LET t == [s EXCEPT !.nop_timer = "off"]
       IN  \/ s.nop_timer = "interval" /\ s' = ConnSendNopOut(t)
           \/ s.nop_timer = "timeout" /\ \E f \in Failures : s' = ConnErrorHandle(t, f)

PollTimerFires ==
    \E c \in s.pend, f \in Failures, r \in {"wait", "connected", "error"} :
        /\ c.ev = "POLL"
        /\ s' = SessionConnPoll([s EXCEPT !.pend = @ \ {c}, !.pool = @ - 1], c.q, r, f)

\* iscsi_logout_timedout
LogoutTimerFires ==
    \E c \in s.pend, f \in Failures :
        /\ c.ev = "LOGOUT_TIMER"
        /\ s' = ConnErrorHandle([s EXCEPT !.pend = @ \ {c}, !.pool = @ - 1], f)

RetryTimerFires(r) ==
    /\ s.retry[r] > 0
    /\ \E f \in Failures : s' = SessionLoginTaskRetry(s, r, f)

\* initial_login_retry_max * login_timeout seconds are over, while it matters.
InitialLoginLate ==
    /\ s.live /\ ~ s.late /\ InitialLogin(s)
    /\ s' = [s EXCEPT !.late = TRUE]

(***************************************************************************)
(* The kernel and the faults of the environment.                           *)
(***************************************************************************)
Queue(t, ev) ==
    [t EXCEPT !.nl = Append(@, [ev |-> ev, q |-> None, stale |-> FALSE])]

KernelPdu ==
    /\ Len(s.nl) < s.setup.maxnl /\ ~ Offload
    /\ s.k \in {"bound", "started"}
    /\ s' = Queue(s, "RECV_PDU")

KernelError ==
    /\ Len(s.nl) < s.setup.maxnl /\ "error" \in Faults
    /\ s.k \in {"bound", "starting", "started"}
    /\ s' = Queue(s, "ERROR")

\* The end of an offloaded login.
KernelLogin(ok) ==
    /\ Len(s.nl) < s.setup.maxnl
    /\ s.k = "starting"
    /\ s' = [Queue(s, IF ok THEN "LOGIN_OK" ELSE "LOGIN_FREE")
                EXCEPT !.k = IF ok THEN "started" ELSE "conn"]

KernelUnbound ==
    /\ s.unbinding
    /\ s' = [Queue(s, "STOP") EXCEPT !.unbinding = FALSE]

KernelHostRemoved ==
    /\ Len(s.nl) < s.setup.maxnl /\ "host" \in Faults
    /\ s.k # "none"
    /\ s' = Queue(s, "INVALID_HOST")

\* iscsid dies and is started again: the kernel keeps the session, and the
\* clients see their sockets closed.
Crash ==
    /\ "crash" \in Faults
    /\ s.live
    /\ s' = [Fresh(s) EXCEPT !.retry = [r \in Req |-> 0],
                             !.req = [r \in Req |-> IF @[r] = "open" THEN "err" ELSE @[r]]]

(***************************************************************************)
(* The specification.                                                      *)
(***************************************************************************)
Init == \E setup \in Setups :
    s = [live |-> FALSE, id |-> FALSE, state |-> "FREE", r_stage |-> "NO_CHANGE",
         reopen_cnt |-> 0, time2wait |-> FALSE, late |-> FALSE, notify |-> None,
         logout |-> None, login |-> None, login_timer |-> None, nop_timer |-> "off",
         saddr |-> "home", failback |-> "home", pool |-> 0, ready |-> <<>>, pend |-> {},
         retry |-> [r \in Req |-> 0], k |-> "none", unbinding |-> FALSE, nl |-> <<>>,
         req |-> [r \in Req |-> "idle"], kind |-> [r \in Req |-> "none"],
         dropped |-> FALSE, zombie |-> FALSE, relinked |-> FALSE, setup |-> setup]

Requests == \E r \in Req : SessionLogin(r) \/ SessionLogout(r) \/ SessionSync(r)

\* What actor_poll runs from ready_list.
Contexts ==
    \/ RunPoll
    \/ RunRecvPdu
    \/ RunError
    \/ RunInvalidHost
    \/ \E ok \in BOOLEAN : RunLogin(ok)
    \/ RunStop

KernelEvents ==
    \/ KernelPdu
    \/ KernelError
    \/ \E ok \in BOOLEAN : KernelLogin(ok)
    \/ KernelUnbound
    \/ KernelHostRemoved

Next ==
    \/ Requests
    \/ ReadNetlink
    \/ Contexts
    \/ LoginTimerFires
    \/ NopTimerFires
    \/ PollTimerFires
    \/ LogoutTimerFires
    \/ \E r \in Req : RetryTimerFires(r)
    \/ InitialLoginLate
    \/ KernelEvents
    \/ Crash

Spec == Init /\ [][Next]_s

\* The login timer is set anew before it has expired: actor_timer_mod of a handler that connects again
\* (iscsi_conn_connect) or puts the next attempt off (queue_delayed_reopen).
RearmsLoginTimer ==
    /\ s'.state = "XPT_WAIT" /\ s'.login_timer # None
    /\ s.state = "XPT_WAIT" => (RunPoll \/ PollTimerFires) /\ \A c \in s'.pend : c.ev # "POLL"

\* event_loop keeps running actor_poll and reading its descriptors, an armed timer expires, the kernel
\* completes the unbind it accepted.  A login timer that is armed again and again need not expire.
Fairness ==
    /\ <>[](s.ready # <<>>) => []<><<Contexts>>_s
    /\ <>[](s.ready = <<>> /\ s.nl # <<>>) => []<><<ReadNetlink>>_s
    /\ <>[](s.login_timer # None) => []<><<LoginTimerFires \/ RearmsLoginTimer>>_s
    /\ <>[](\E c \in s.pend : c.ev = "LOGOUT_TIMER") => []<><<LogoutTimerFires>>_s
    /\ \A r \in Req : <>[](s.retry[r] > 0) => []<><<RetryTimerFires(r)>>_s
    /\ <>[](s.live /\ ~ s.late /\ InitialLogin(s)) => []<><<InitialLoginLate>>_s
    /\ <>[]s.unbinding => []<><<KernelUnbound>>_s

FairSpec == Spec /\ Fairness

(***************************************************************************)
(* Properties.                                                             *)
(***************************************************************************)
\* Nobody answers a request that is already answered: mgmt_ipc_write_rsp frees
\* the queue_task_t, so a second answer is a double free.
AnsweredOnce == \A r \in Req : s.req[r] # "twice"

Queued(ev) == \E i \in DOMAIN s.ready : s.ready[i].ev = ev

OnTheWay(ev) == Queued(ev) \/ \E i \in DOMAIN s.nl : s.nl[i].ev = ev

\* The queue_task_t pointers that some handler may still follow.
Held ==
    {s.notify, s.logout, s.login_timer}
        \cup {c.q : c \in s.pend}
        \cup {s.ready[i].q : i \in DOMAIN s.ready}
        \cup (IF s.state = "IN_LOGIN" THEN {s.login} ELSE {})

\* No pointer to a freed request is kept where a timer, a poll, a login reply
\* or the logout path would use it, and an open request of a software session is
\* never forgotten: the session or the retry timer holds it.  (Two events free a session
\* without a look at who waits for it: the removal of its host, and the end of an unbind
\* that iscsid had asked for before it was restarted and took the session over again.)
QtaskHeld ==
    /\ \A q \in Held \cap Req : s.req[q] = "open"
    /\ ~ Offload /\ Faults \cap {"host", "crash"} = {} =>
         \A r \in Req : s.req[r] = "open" => r \in Held \/ s.retry[r] > 0

\* A context is allocated exactly as long as its actor is on a list; otherwise
\* the pool of CONTEXT_POOL_MAX leaks and events of the kernel get dropped.
PoolAccounted == TypeOK /\ s.pool = Len(s.ready) + Cardinality(s.pend)

\* While a connection of a software session is being set up the login timer runs:
\* whatever the target or the kernel leave out, iscsi_login_timedout will come.  A
\* logout that iscsid has accepted waits for something that will come: the unbind
\* event of the kernel or the logout timer.  (Unless the pool overflowed: ctldev_handle
\* then drops what it reads, the unbind event included.)
Supervised ==
    ~ Offload =>
        /\ s.state \in {"XPT_WAIT", "IN_LOGIN"} => s.login_timer # None
        /\ s.logout # None /\ ~ s.dropped =>
             /\ s.state \in {"LOGGED_IN", "IN_LOGOUT"}
             /\ \/ s.unbinding
                \/ OnTheWay("STOP")
                \/ \E c \in s.pend : c.ev = "LOGOUT_TIMER"

\* No timer outlives the session it belongs to; the ping timer exists only on an
\* established connection, and is never armed while it is armed (actor_timer would
\* corrupt the scheduler's lists).
TimerDiscipline ==
    /\ ~ s.zombie /\ ~ s.relinked
    /\ s.nop_timer # "off" => s.state \in {"LOGGED_IN", "IN_LOGOUT"}

\* Events about the session, not about one of its connections.
SessionEvent == {"INVALID_HOST", "STOP"}

\* What a software session handles in a connected state was sent by the connection in
\* use: the polls, PDUs and errors of its predecessors are flushed or ignored.
NoStaleEvent ==
    ~ Offload /\ s.state \in {"IN_LOGIN", "LOGGED_IN", "IN_LOGOUT"} =>
        \A i \in DOMAIN s.ready : s.ready[i].ev \notin SessionEvent => ~ s.ready[i].stale

\* The connection state of a software session in iscsid and that of the kernel
\* agree whenever no handler runs.
KernelAgrees ==
    ~ Offload =>
        /\ s.state = "XPT_WAIT" => s.k = IF s.id THEN "conn" ELSE "none"
        /\ s.state = "IN_LOGIN" => s.k = "bound"
        /\ s.state \in {"LOGGED_IN", "IN_LOGOUT"} => s.k = "started"

\* A request is told the truth: success for a login or a sync means that the
\* session is up, success for a logout that it is gone from iscsid and kernel.
AnswersAreTrue ==
    [][\A r \in Req : s.req[r] # "ok" /\ s'.req[r] = "ok" =>
            IF s'.kind[r] = "logout" THEN ~ s'.live /\ s'.k = "none"
            ELSE s'.state = "LOGGED_IN" /\ s'.k = "started"]_s

\* A session that iscsid frees is gone from the kernel as well, or no request could
\* reach it any more; and a login or sync that iscsid had accepted and that fails leaves
\* nothing behind: no session, hence no timer and no recovery that goes on.
CleansUp ==
    [][/\ s.live /\ ~ s'.live => s'.k = "none" \/ Crash
       /\ \A r \in Req : s.req[r] = "open" /\ s'.req[r] = "err" /\ r \in Held \ {s.logout}
             => ~ s'.live]_s

\* A step in which the target redirects the login.
Redirects ==
    /\ Runs("RECV_PDU") /\ s.state = "IN_LOGIN"
    /\ \E f \in Failures, reply \in Replies, to \in Address :
            LoginRet(reply) = "LOGIN_REDIRECT" /\ s' = RecvLoginRsp(Taken, reply, to, f)

\* After initial_login_retry_max * login_timeout seconds iscsid starts no further attempt at the initial
\* login of its own accord.  The one exception is a redirect, which iscsi_login_redirect follows without
\* a look at the time, although etc/iscsid.conf calls the product "the maximum amount of time iscsid will
\* try to establish the initial login".
InitialLoginDeadline ==
    [][s.live /\ s.late /\ InitialLogin(s) /\ s'.live /\ ~ Redirects =>
            /\ ~ (s.state = "IN_LOGIN" /\ s'.state = "XPT_WAIT")
            /\ s'.reopen_cnt <= s.reopen_cnt]_s

\* Every login request is answered in the end, whatever the target, the network and the kernel do,
\* because the retries are limited in time, unless the target redirects the login for ever: redirects
\* are not limited, and each one sets the login timer anew.  And every logout request is answered: through
\* the kernel's unbind event, the target's logout response, the logout timer or an error.
RequestsAnswered ==
    \/ []<><<Redirects>>_s
    \/ \A r \in Req : s.kind[r] \in {"login", "logout"} /\ s.req[r] = "open" ~> s.req[r] # "open"
==============================================================================
