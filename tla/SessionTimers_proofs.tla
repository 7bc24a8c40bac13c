------------------------ MODULE SessionTimers_proofs -------------------------
(* The contexts and the timers of a session.                                                                *)
(* - Its contexts are accounted for: every handler, and then every action, keeps Good, whatever fails; Good *)
(*   gives PoolAccounted.                                                                                   *)
(* - Its timers are kept: Pinged, in the same way, gives TimerDiscipline.                                   *)
EXTENDS Session_proofs

USE ZenonT(60)

(* ctldev_handle *)
LEMMA CtldevGood == ASSUME NEW t, Good(t), t.nl # <<>> PROVE Good(CtldevHandle(t))
<1> DEFINE e == Head(t.nl)
           v == [t EXCEPT !.nl = Tail(@)]
<1>1. Typed(t) /\ Tail(t.nl) \in Seq(Event) /\ e \in Event /\ RestOf(t.nl, Tail(t.nl))
  BY ListFacts, Rest
<1>2. Typed(v) /\ Sets(t, v, "nl", Tail(t.nl))
  BY <1>1, ListTypes, Update DEF ListFields
<1> HIDE DEF v, e
<1>3. v.nl = Tail(t.nl) /\ v.pool = t.pool /\ v.ready = t.ready /\ v.pend = t.pend /\ v.setup = t.setup
      /\ v.state = t.state /\ v.login = t.login
  BY <1>2 DEF Sets, Fields
<1>4. \A i \in DOMAIN v.nl : \E j \in DOMAIN t.nl : v.nl[i] = t.nl[j]
  BY <1>1, <1>3 DEF RestOf
<1>5. t.pool \in Nat /\ Len(t.ready) \in Nat /\ t.ready \in Seq(Event \cup TimerContext)
  BY ListFacts, SMTT(30)
<1>6. Good(v)
  <2>1. v.pool = t.pool + 0 /\ Extends(t.ready, t.nl, 0, v.ready) /\ 0 \in Nat
    BY <1>3, <1>5, SMTT(30) DEF Extends
  <2>2. QED
    BY <1>2, <1>3, <1>4, <2>1, EventsRead
<1>7. \A w \in BOOLEAN : Good([v EXCEPT !.dropped = w])
  <2>1. "dropped" \in PlainFields /\ Types["dropped"] = BOOLEAN
    BY PlainTypes
  <2>2. QED
    BY <1>6, <2>1, Plain
<1>8. ASSUME HasContext(t) PROVE Good([v EXCEPT !.pool = @ + 1, !.ready = Append(@, e)])
  <2> DEFINE u == [v EXCEPT !.pool = @ + 1, !.ready = Append(@, e)]
  <2>1. v.pool + 1 \in 0 .. PoolMax /\ Append(v.ready, e) \in Seq(Event \cup TimerContext)
    <3>1. t.pool + 1 \in 0 .. PoolMax
      BY <1>8, ListFacts, SMTT(30) DEF HasContext
    <3>2. Append(t.ready, e) \in Seq(Event \cup TimerContext)
      BY <1>1, <1>5, SMTT(30)
    <3>3. QED
      BY <1>3, <3>1, <3>2
  <2>2. Typed(u) /\ Sets2(v, u, "pool", v.pool + 1, "ready", Append(v.ready, e))
    <3>1. "pool" \in Fields /\ "ready" \in Fields \ {"pool"}
      BY DEF Fields
    <3>2. QED
      BY <1>2, <2>1, <3>1, ListTypes, Update2
  <2> HIDE DEF u
  <2>3. u.pool = t.pool + 1 /\ u.ready = Append(t.ready, e)
    BY <1>3, <2>2 DEF Sets2
  <2>4. u.nl = v.nl /\ u.pend = v.pend /\ u.setup = v.setup /\ u.state = v.state /\ u.login = v.login
    BY <2>2 DEF Sets2, Fields
  <2>5. Extends(t.ready, t.nl, 1, u.ready) /\ 1 \in Nat
    <3>1. e = t.nl[1] /\ 1 \in DOMAIN t.nl
      BY <1>1 DEF RestOf, e
    <3>2. QED
      BY <1>1, <1>5, <2>3, <3>1, SMTT(30) DEF Extends
  <2>6. Good(u)
    <3>1. u.pend = t.pend /\ u.setup = t.setup /\ u.state = t.state /\ u.login = t.login
      BY <1>3, <2>4
    <3>2. \A i \in DOMAIN u.nl : \E j \in DOMAIN t.nl : u.nl[i] = t.nl[j]
      BY <1>4, <2>4
    <3>3. QED
      BY <2>2, <2>3, <2>5, <3>1, <3>2, EventsRead
  <2>7. QED
    BY <2>6 DEF u
<1>9. QED
  BY <1>6, <1>7, <1>8 DEF CtldevHandle, v, e

(* ep_disconnect and ep_poll *)
LEMMA EndpointGood ==
  ASSUME NEW t, Good(t)
  PROVE  /\ Good(EndpointCall(t)) /\ Keeps(t, EndpointCall(t))
         /\ EndpointCall(t).state = t.state /\ EndpointCall(t).login = t.login
BY Called DEF EndpointCall, Keeps

(* __session_destroy *)
LEMMA DestroyGood == ASSUME NEW t, Good(t) PROVE Good(SessionDestroy(t))
<1> DEFINE u == Fresh(t)
           z == u.zombie \/ t.login_timer # None \/ t.nop_timer # "off"
<1>1. Good(u)
  BY FreshGood
<1>2. z \in BOOLEAN
  OBVIOUS
<1>3. SessionDestroy(t) = [u EXCEPT !.zombie = z]
  BY DEF SessionDestroy
<1> HIDE DEF u, z
<1>4. QED
  BY <1>1, <1>2, <1>3, SetTimers

(* The end of session_conn_shutdown *)
LEMMA FreeGood == ASSUME NEW t, Good(t), NEW q, NEW rsp \in {"ok", "err"} PROVE Good(FreeSession(t, q, rsp))
<1>1. Good(WriteRsp(t, q, rsp))
  BY Answers
<1>2. Good(ConnDeleteTimers(WriteRsp(t, q, rsp)))
  BY <1>1, TimersDeletedGood
<1>3. QED
  BY <1>2, DestroyGood DEF FreeSession

(* session_conn_shutdown *)
LEMMA ShutdownGood ==
  ASSUME NEW t, Good(t), NEW q, NEW rsp \in {"ok", "err"}, NEW f
  PROVE  Good(SessionConnShutdown(t, q, rsp, f))
<1> DEFINE a == EndpointCall(t)
           stops == t.state \in {"IN_LOGIN", "IN_LOGOUT", "LOGGED_IN"}
           b == IF stops THEN KStopConn(a, f) ELSE a
           c == KDestroyConn(b, f)
           hasLead == t.k \notin {"none", "session"}
           e == IF hasLead THEN c ELSE a
           g == [e EXCEPT !.r_stage = "DESTOYED"]
           d == KDestroySession(g, f)
<1>1. Good(a)
  BY EndpointGood
<1>2. Good(b)
  BY <1>1, KernelCallsGood
<1>3. Good(c)
  BY <1>2, KernelCallsGood
<1>4. Good(e)
  BY <1>1, <1>3
<1> HIDE DEF e
<1>5. Good(g)
  BY <1>4, SetStage DEF RStage
<1> HIDE DEF g
<1>6. Good(d)
  BY <1>5, KernelCallsGood
<1>7. Good(FreeSession(a, q, rsp)) /\ Good(FreeSession(d, q, rsp))
  BY <1>1, <1>6, FreeGood
<1>8. QED
  BY <1>2, <1>3, <1>6, <1>7 DEF SessionConnShutdown, e, g

(* queue_delayed_reopen *)
LEMMA DelayedGood == ASSUME NEW t, Good(t), NEW q \in Qtask \cup {None} PROVE Good(QueueDelayedReopen(t, q))
BY SetTimers DEF QueueDelayedReopen

(* The endpoint call of a connect finds the socket empty. *)
Quiet(t) == Offload => t.nl = <<>>

(* A call leaves the socket empty. *)
LEMMA QuietCalls ==
  ASSUME NEW t, Good(t), NEW f
  PROVE  /\ KipcCall(t).nl = <<>> /\ KStopConn(t, f).nl = <<>> /\ Quiet(EndpointCall(t))
         /\ t.nl = <<>> => KipcCall(t).pool = t.pool
<1> DEFINE u == KipcCall(t)
<1>1. Drained(t, u) /\ Typed(u)
  BY CallDrains
<1> HIDE DEF u
<1>2. u.nl = <<>>
  BY <1>1 DEF Drained
<1>3. ASSUME t.nl = <<>> PROVE u.pool = t.pool
  <2>1. CASE ~ (t.live /\ t.id)
    BY <1>1, <2>1 DEF Drained
  <2>2. CASE t.live /\ t.id
    <3>1. PICK n \in 0 .. Len(t.nl) : u.pool = t.pool + n
      BY <1>1, <2>2 DEF Drained
    <3>2. QED
      BY <1>3, <3>1, ListFacts, SMTT(30)
  <2>3. QED
    BY <2>1, <2>2
<1>4. [u EXCEPT !.k = "conn"].nl = <<>>
  <2>1. "k" \in Fields /\ "conn" \in Types["k"] /\ "nl" \in Fields \ {"k"}
    BY DEF Types, Fields, Kernel
  <2>2. Sets(u, [u EXCEPT !.k = "conn"], "k", "conn")
    BY <1>1, <2>1, Update
  <2>3. [u EXCEPT !.k = "conn"]["nl"] = u["nl"]
    BY <2>1, <2>2 DEF Sets
  <2>4. QED
    BY <1>2, <2>3
<1>5. QED
  BY <1>2, <1>3, <1>4 DEF u, KStopConn, EndpointCall, Quiet

(* iscsi_conn_connect *)
LEMMA ConnectGood ==
  ASSUME NEW t, Good(t), NoPoll(t), Quiet(t), NEW q \in Qtask, NEW f
  PROVE  Good(ConnConnect(t, q, f))
<1> DEFINE a == EndpointCall(t)
<1>1. Good(a) /\ NoPoll(a)
  BY EndpointGood DEF Keeps
<1>2. ASSUME HasContext(t) PROVE Good([Schedule(a, "POLL", q) EXCEPT !.login_timer = q])
  <2>1. HasContext(a)
    BY <1>2, QuietCalls DEF Quiet, HasContext, EndpointCall
  <2>2. Good(Schedule(a, "POLL", q))
    BY <1>1, <2>1, Scheduled
  <2>3. QED
    BY <2>2, SetTimers
<1>3. Good(QueueDelayedReopen(t, q)) /\ Good(QueueDelayedReopen(a, q))
  BY <1>1, DelayedGood
<1>4. QED
  BY <1>2, <1>3 DEF ConnConnect

(* __session_conn_reopen *)
LEMMA ReopenGood ==
  ASSUME NEW t, Good(t), NEW q \in Qtask, NEW stop \in BOOLEAN, NEW redirected \in BOOLEAN, NEW f
  PROVE  Good(ReopenConn(t, q, stop, redirected, f))
<1> DEFINE x == FlushContextPool(t)
           y == ConnDeleteTimers(x)
           z == [y EXCEPT !.state = "XPT_WAIT"]
           a == EndpointCall(z)
           b == IF stop THEN KStopConn(a, f) ELSE a
           c == IF redirected \/ b.reopen_cnt = MaxCnt THEN b ELSE [b EXCEPT !.reopen_cnt = @ + 1]
<1>1. Good(x) /\ NoPoll(x) /\ NoLogoutTimer(x)
  BY Flushed
<1> HIDE DEF x
<1>2. Good(y) /\ NoPoll(y) /\ NoLogoutTimer(y)
  BY <1>1, TimersDeletedGood DEF Keeps
<1> HIDE DEF y
<1>3. Good(z) /\ NoPoll(z)
  BY <1>2, SetState DEF ConnState, Keeps
<1> HIDE DEF z
<1>4. Good(a) /\ NoPoll(a) /\ Quiet(a)
  BY <1>3, EndpointGood, QuietCalls DEF Keeps
<1> HIDE DEF a
<1>5. Good(b) /\ NoPoll(b) /\ Quiet(b)
  BY <1>4, KernelCallsGood, QuietCalls DEF Keeps, Quiet
<1> HIDE DEF b
<1>6. Good(c) /\ NoPoll(c) /\ Quiet(c)
  <2>1. CASE redirected \/ b.reopen_cnt = MaxCnt
    BY <1>5, <2>1
  <2>2. CASE ~ (redirected \/ b.reopen_cnt = MaxCnt)
    <3> DEFINE n == b.reopen_cnt + 1
               d == [b EXCEPT !.reopen_cnt = n]
    <3>1. n \in 0 .. MaxCnt
      <4>1. b.reopen_cnt \in 0 .. MaxCnt
        BY <1>5, TypedRecord DEF Good, FieldTypes
      <4>2. QED
        BY <2>2, <4>1, BoundAssumption, SMTT(30)
    <3> HIDE DEF n
    <3>2. Good(d) /\ Keeps(b, d)
      BY <1>5, <3>1, SetStage
    <3>3. d.nl = b.nl
      BY <1>5 DEF Good, Typed, Shaped, Fields
    <3>4. c = d
      BY <2>2 DEF n
    <3>5. QED
      BY <1>5, <3>2, <3>3, <3>4 DEF Keeps, Quiet
  <2>3. QED
    BY <2>1, <2>2
<1> HIDE DEF c
<1>7. Good(QueueDelayedReopen(b, q)) /\ Good(QueueDelayedReopen(c, q)) /\ Good(ConnConnect(c, q, f))
  BY <1>5, <1>6, DelayedGood, ConnectGood
<1>8. Good(QueueDelayedReopen([b EXCEPT !.time2wait = FALSE], q))
  <2>1. Good([b EXCEPT !.time2wait = FALSE])
    BY <1>5, SetStage
  <2>2. QED
    BY <2>1, DelayedGood
<1>9. QED
  BY <1>7, <1>8 DEF ReopenConn, x, y, z, a, b, c

(* session_conn_reopen *)
LEMMA FailbackReopenGood ==
  ASSUME NEW t, Good(t), NEW q \in Qtask, NEW stop \in BOOLEAN, NEW f
  PROVE  Good(SessionConnReopen(t, q, stop, f))
<1>1. t.failback \in Address
  BY TypedRecord DEF Good, FieldTypes
<1>2. Good([t EXCEPT !.saddr = t.failback])
  BY <1>1, SetAddress
<1>3. QED
  BY <1>2, ReopenGood DEF SessionConnReopen

(* iscsi_login_eh *)
LEMMA LoginEhGood ==
  ASSUME NEW t, Good(t), NEW q \in Qtask, NEW err, NEW f
  PROVE  Good(LoginEh(t, q, err, f))
<1>1. Good(FlushContextPool(t))
  BY Flushed
<1>2. Good(SessionConnShutdown(FlushContextPool(t), q, "err", f))
  BY <1>1, ShutdownGood
<1>3. \A stop \in BOOLEAN : Good(SessionConnReopen(FlushContextPool(t), q, stop, f))
  BY <1>1, FailbackReopenGood
<1> DEFINE stop == ~ (t.state = "XPT_WAIT") \/ (t.r_stage = "NO_CHANGE" /\ t.id)
<1>4. stop \in BOOLEAN
  OBVIOUS
<1>5. QED
  BY <1>1, <1>2, <1>3, <1>4 DEF LoginEh

(* __conn_error_handle *)
LEMMA ErrorGood == ASSUME NEW t, Good(t), NEW f PROVE Good(ConnErrorHandle(t, f))
<1> DEFINE c == [t EXCEPT !.state = "CLEANUP_WAIT"]
           d == [c EXCEPT !.r_stage = IF Erl > 0 THEN t.r_stage ELSE "REOPEN"]
<1>1. Good(c)
  BY SetState DEF ConnState
<1> HIDE DEF c
<1>2. Good(d)
  <2>1. t.r_stage \in RStage /\ "REOPEN" \in RStage
    BY TypedRecord DEF Good, FieldTypes, RStage
  <2>2. QED
    BY <1>1, <2>1, SetStage
<1>3. d = [t EXCEPT !.state = "CLEANUP_WAIT", !.r_stage = IF Erl > 0 THEN @ ELSE "REOPEN"]
  BY DEF c
<1> HIDE DEF d
<1>4. ReopenQ \in Qtask /\ (t.notify # None => t.notify \in Qtask)
  BY TypedRecord DEF Good, FieldTypes, Qtask
<1>5. Good(SessionConnShutdown(t, t.logout, "ok", f)) /\ Good(SessionConnReopen(d, ReopenQ, TRUE, f))
  BY <1>2, <1>4, ShutdownGood, FailbackReopenGood
<1>6. Good(LoginEh(t, IF t.notify # None THEN t.notify ELSE ReopenQ, "TRANS", f))
  BY <1>4, LoginEhGood
<1>7. QED
  BY <1>2, <1>3, <1>5, <1>6 DEF ConnErrorHandle

(* The ping timer *)
LEMMA NopGood ==
  ASSUME NEW t, Good(t), NEW callback \in {"off", "interval", "timeout"} PROVE Good(NopOutTimer(t, callback))
<1> DEFINE a == [t EXCEPT !.nop_timer = callback]
           z == t.relinked \/ t.nop_timer # "off"
<1>1. Good(a)
  BY SetTimers
<1>2. z \in BOOLEAN
  OBVIOUS
<1>3. NopOutTimer(t, callback) = [a EXCEPT !.relinked = z]
  BY DEF NopOutTimer
<1> HIDE DEF a, z
<1>4. QED
  BY <1>1, <1>2, <1>3, SetTimers

(* The fields that the guards of the handlers look at. *)
LEMMA SameState ==
  ASSUME NEW t, Good(t), NEW v
  PROVE  /\ [t EXCEPT !.login_timer = v].state = t.state /\ [t EXCEPT !.login_timer = v].login = t.login
         /\ [t EXCEPT !.failback = v].state = t.state /\ [t EXCEPT !.failback = v].login = t.login
         /\ [t EXCEPT !.k = v].state = t.state /\ [t EXCEPT !.k = v].login = t.login
         /\ [t EXCEPT !.reopen_cnt = v].login = t.login
         /\ [t EXCEPT !.login = v].state = t.state
         /\ [t EXCEPT !.logout = v].state = t.state
         /\ [t EXCEPT !.id = v].state = t.state
BY DEF Good, Typed, Shaped, Fields

(* setup_full_feature_phase *)
LEMMA FullFeatureGood ==
  ASSUME NEW t, Good(t), t.state = "IN_LOGIN", NEW f PROVE Good(SetupFullFeaturePhase(t, f))
<1> DEFINE x == [t EXCEPT !.login_timer = None]
           a == KipcCall(x)
           y == [a EXCEPT !.k = "started"]
           up == LoggedIn(y, f)
<1>1. Good(x) /\ x.state = t.state
  BY SetTimers, SameState
<1> HIDE DEF x
<1>2. Good(a) /\ a.state = "IN_LOGIN"
  BY <1>1, Called
<1> HIDE DEF a
<1>3. Good(y) /\ NoLogoutTimer(y)
  <2>1. Good(y) /\ y.state = "IN_LOGIN"
    BY <1>2, SetKernel, SameState DEF Kernel
  <2>2. QED
    BY <2>1 DEF Good
<1> HIDE DEF y
<1>4. Good(up) /\ Good(NopOutTimer(up, "interval"))
  BY <1>3, LoggedInGood, NopGood
<1> HIDE DEF up
<1>5. t.login \in Qtask
  BY DEF Good
<1>6. Good(LoginEh(a, t.login, "LOGIN", f)) /\ Good(LoginEh(a, t.login, "INTERNAL", f))
  BY <1>2, <1>5, LoginEhGood
<1>7. QED
  BY <1>4, <1>6 DEF SetupFullFeaturePhase, up, y, a, x

(* setup_offload_login_phase *)
LEMMA OffloadLoginGood ==
  ASSUME NEW t, Good(t), t.state = "XPT_WAIT", t.login \in Qtask, NEW f PROVE Good(SetupOffloadLoginPhase(t, f))
<1> DEFINE x == [t EXCEPT !.login_timer = None]
           a == KipcCall(x)
           b == [a EXCEPT !.state = "IN_LOGIN"]
           c == [b EXCEPT !.k = "starting"]
           d == [c EXCEPT !.notify = t.login]
<1>1. Good(x) /\ x.state = "XPT_WAIT" /\ x.login = t.login
  BY SetTimers, SameState
<1> HIDE DEF x
<1>2. Good(a) /\ a.state = "XPT_WAIT" /\ a.login = t.login
  BY <1>1, Called
<1> HIDE DEF a
<1>3. Good(b)
  BY <1>2, SetState DEF ConnState, Good
<1> HIDE DEF b
<1>4. Good(c)
  BY <1>3, SetKernel DEF Kernel
<1> HIDE DEF c
<1>5. Good(d)
  BY <1>4, SetOwner
<1>6. d = [b EXCEPT !.k = "starting", !.notify = t.login]
  BY DEF c
<1> HIDE DEF d
<1>7. /\ Good(LoginEh(a, t.login, "LOGIN", f)) /\ Good(LoginEh(b, t.login, "INTERNAL", f))
      /\ Good(SessionConnShutdown(b, t.login, "err", f))
  BY <1>2, <1>3, LoginEhGood, ShutdownGood
<1>8. QED
  BY <1>5, <1>6, <1>7 DEF SetupOffloadLoginPhase, a, b, x

(* session_conn_poll once the connection is established *)
LEMMA ConnectedGood ==
  ASSUME NEW t, Good(t), t.state = "XPT_WAIT", NEW q \in Qtask, NEW f PROVE Good(Connected(t, q, f))
<1> DEFINE a == [t EXCEPT !.login = None]
           x == [KipcCall(a) EXCEPT !.id = TRUE]
           y == [x EXCEPT !.k = "session"]
           b == IF t.id THEN a ELSE y
           c == IF t.id THEN a ELSE [b EXCEPT !.k = "conn"]
           z == KBindConn(c)
           d == [z EXCEPT !.login = q]
           e == [d EXCEPT !.state = "IN_LOGIN"]
<1>1. Good(a) /\ a.state = "XPT_WAIT"
  BY SetLogin, SameState
<1> HIDE DEF a
<1>2. Good(x) /\ x.state = "XPT_WAIT"
  <2>1. Good(KipcCall(a)) /\ KipcCall(a).state = "XPT_WAIT"
    BY <1>1, Called
  <2>2. QED
    BY <2>1, SetKernel, SameState
<1> HIDE DEF x
<1>3. Good(y) /\ y.state = "XPT_WAIT"
  BY <1>2, SetKernel, SameState DEF Kernel
<1>3a. y = [KipcCall(a) EXCEPT !.id = TRUE, !.k = "session"]
  BY DEF x
<1> HIDE DEF y
<1>4. Good(b) /\ b.state = "XPT_WAIT"
  BY <1>1, <1>3
<1> HIDE DEF b
<1>5. Good(c) /\ c.state = "XPT_WAIT"
  <2>1. Good([b EXCEPT !.k = "conn"]) /\ [b EXCEPT !.k = "conn"].state = "XPT_WAIT"
    BY <1>4, SetKernel, SameState DEF Kernel
  <2>2. QED
    BY <1>1, <2>1
<1> HIDE DEF c
<1>6. Good(z) /\ z.state = "XPT_WAIT"
  BY <1>5, BindGood
<1> HIDE DEF z
<1>7. Good(d) /\ d.state = "XPT_WAIT" /\ d.login = q
  <2>1. z.state # "IN_LOGIN"
    BY <1>6
  <2>2. QED
    BY <1>6, <2>1, SetLogin, SameState
<1> HIDE DEF d
<1>8. Good(e)
  BY <1>7, SetState DEF ConnState, Good
<1> HIDE DEF e
<1>9. /\ Good(SessionConnShutdown(a, q, "err", f)) /\ Good(SessionConnShutdown(b, q, "err", f))
      /\ Good(LoginEh(KipcCall(c), q, "LOGIN", f)) /\ Good(LoginEh(d, q, "LOGIN", f)) /\ Good(LoginEh(e, q, "LOGIN", f))
  <2>1. Good(KipcCall(c))
    BY <1>5, Called
  <2>2. QED
    BY <1>1, <1>4, <1>7, <1>8, <2>1, LoginEhGood, ShutdownGood
<1>10. Good(SetupOffloadLoginPhase(d, f))
  BY <1>7, OffloadLoginGood
<1>11. QED
  BY <1>3a, <1>8, <1>9, <1>10 DEF Connected, a, b, c, d, e, z

(* session_conn_poll *)
LEMMA PollGood ==
  ASSUME NEW t, Good(t), NoPoll(t), NEW q \in Qtask, NEW r, NEW f PROVE Good(SessionConnPoll(t, q, r, f))
<1> DEFINE a == EndpointCall(t)
<1>1. Good(a) /\ NoPoll(a) /\ a.state = t.state
  BY EndpointGood DEF Keeps
<1> HIDE DEF a
<1>2. t.state = "XPT_WAIT" => Good(Connected(a, q, f))
  BY <1>1, ConnectedGood
<1>3. Good(QueueDelayedReopen(a, q)) /\ Good(LoginEh(a, q, "INTERNAL", f))
  BY <1>1, DelayedGood, LoginEhGood
<1>4. HasContext(a) => Good(ScheduleTimer(a, "POLL", q))
  BY <1>1, TimerScheduled
<1>5. QED
  BY <1>2, <1>3, <1>4 DEF SessionConnPoll, a

(* iscsi_recv_login_rsp *)
LEMMA LoginRspGood ==
  ASSUME NEW t, Good(t), t.state = "IN_LOGIN", NEW reply, NEW to \in Address, NEW f
  PROVE  Good(RecvLoginRsp(t, reply, to, f))
<1> DEFINE moved == RecordMove(t, reply)
<1>1. Good(moved) /\ moved.state = "IN_LOGIN"
  <2>1. t.saddr \in Address
    BY TypedRecord DEF Good, FieldTypes
  <2>2. Good([t EXCEPT !.failback = t.saddr]) /\ [t EXCEPT !.failback = t.saddr].state = "IN_LOGIN"
    BY <2>1, SetAddress, SameState
  <2>3. QED
    BY <2>2 DEF RecordMove
<1> HIDE DEF moved
<1>2. ASSUME NEW a, Good(a), a.state = "IN_LOGIN"
      PROVE  /\ Good(LoginEh([a EXCEPT !.reopen_cnt = RetryMax], a.login, "FATAL_LOGIN", f))
             /\ Good(LoginEh([a EXCEPT !.reopen_cnt = RetryMax], a.login, "LOGIN_AUTH_FAILED", f))
             /\ Good(LoginEh(a, a.login, "LOGIN", f)) /\ Good(LoginRedirect(a, to, f))
             /\ Good(SetupFullFeaturePhase(a, f)) /\ Good(KipcCall(a))
  <2>1. a.login \in Qtask
    BY <1>2 DEF Good
  <2>2. Good([a EXCEPT !.reopen_cnt = RetryMax])
    BY <1>2, BoundAssumption, SetStage
  <2>3. Good(LoginRedirect(a, to, f))
    <3> DEFINE b == [a EXCEPT !.saddr = to]
               v == IF a.r_stage = "NO_CHANGE" THEN "REDIRECT" ELSE a.r_stage
               c == [b EXCEPT !.r_stage = v]
    <3>1. Good(b)
      BY <1>2, SetAddress
    <3>2. v \in RStage
      BY <1>2, TypedRecord DEF Good, FieldTypes, RStage
    <3>3. c = [a EXCEPT !.saddr = to, !.r_stage = IF @ = "NO_CHANGE" THEN "REDIRECT" ELSE @]
      OBVIOUS
    <3> HIDE DEF b, v
    <3>4. Good(c)
      BY <3>1, <3>2, SetStage
    <3> HIDE DEF c
    <3>5. QED
      BY <2>1, <3>3, <3>4, ReopenGood DEF LoginRedirect
  <2>4. QED
    BY <1>2, <2>1, <2>2, <2>3, LoginEhGood, FullFeatureGood, Called
<1>3. PICK a \in {t, RecordMove(t, reply)} : RecvLoginRsp(t, reply, to, f) \in AfterReply(a, to, f)
  BY ReplyForms
<1>4. Good(a) /\ a.state = "IN_LOGIN"
  BY <1>1 DEF moved
<1>5. QED
  BY <1>2, <1>3, <1>4 DEF AfterReply

(* session_conn_process_login *)
LEMMA ProcessLoginGood ==
  ASSUME NEW t, Good(t), NEW ok, NEW f PROVE Good(SessionConnProcessLogin(t, ok, f))
<1> DEFINE n == [t EXCEPT !.notify = None]
           a == WriteRsp(n, t.notify, "err")
           b == KDestroySession(KDestroyConn(a, f), f)
<1>1. Good(n)
  BY SetOwner
<1> HIDE DEF n
<1>2. Good(a)
  BY <1>1, Answers
<1> HIDE DEF a
<1>3. Good(KDestroyConn(a, f))
  BY <1>2, KernelCallsGood
<1>4. Good(b)
  BY <1>3, KernelCallsGood
<1> HIDE DEF b
<1>5. Good(SessionDestroy(b))
  BY <1>4, DestroyGood
<1>6. Offload => Good([LoggedIn(t, f) EXCEPT !.notify = None])
  <2>1. Offload => NoLogoutTimer(t)
    BY DEF Offload, Good, Lists
  <2>2. Offload => Good(LoggedIn(t, f))
    BY <2>1, LoggedInGood
  <2>3. QED
    BY <2>2, SetOwner
<1>7. QED
  BY <1>5, <1>6 DEF SessionConnProcessLogin, b, a, n

(* iscsi_stop *)
LEMMA StopGood == ASSUME NEW t, Good(t), NEW f PROVE Good(IscsiStop(t, f))
<1>1. ~ Offload => Good(SendLogout(t, f)) /\ Good(SessionConnShutdown(SendLogout(t, f), t.logout, "ok", f))
  BY SendLogoutGood, ShutdownGood
<1>2. Good(SessionConnShutdown(t, t.logout, "ok", f))
  BY ShutdownGood
<1>3. QED
  BY <1>1, <1>2 DEF IscsiStop

(* session_conn_recv_pdu in full feature phase *)
LEMMA PduGood == ASSUME NEW t, Good(t), ~ Offload, NEW pdu \in Pdu, NEW f PROVE Good(RecvPdu(t, pdu, f))
<1>1. Good(NopOutTimer([t EXCEPT !.nop_timer = "off"], "interval")) /\ Good(KipcCall(t))
  <2>1. Good([t EXCEPT !.nop_timer = "off"])
    BY SetTimers
  <2>2. QED
    BY <2>1, NopGood, Called
<1>2. \A v \in BOOLEAN : Good([t EXCEPT !.time2wait = v]) /\ Good(ConnErrorHandle([t EXCEPT !.time2wait = v], f))
  BY SetStage, ErrorGood
<1>3. Good(ConnErrorHandle(t, f)) /\ Good(SendLogout(t, f))
  BY ErrorGood, SendLogoutGood
<1>4. \A u \in AfterPdu(t, f) : Good(u)
  BY <1>1, <1>2, <1>3 DEF AfterPdu
<1>5. QED
  BY <1>4, PduForms

(***************************************************************************)
(* The handlers of requests, the contexts that run, and the theorem.       *)
(***************************************************************************)
(* conn_send_nop_out *)
LEMMA NopOutGood == ASSUME NEW t, Good(t) PROVE Good(ConnSendNopOut(t))
<1>1. Good(KipcCall(t))
  BY Called
<1>2. QED
  BY <1>1, NopGood DEF ConnSendNopOut

(* __session_login_task *)
LEMMA StartGood == ASSUME NEW t, Good(t), NEW r \in Req, NEW f PROVE Good(StartLogin(t, r, f))
<1> DEFINE b == NewSession(t)
<1>1. Good(b) /\ NoPoll(b) /\ b.nl = <<>>
  BY NewGood
<1>2. StartLogin(t, r, f) = ConnConnect(b, r, f)
  BY DEF StartLogin, NewSession
<1> HIDE DEF b
<1>3. QED
  BY <1>1, <1>2, ConnectGood DEF Quiet, Qtask

(* session_login_task *)
LEMMA LoginTaskGood == ASSUME NEW t, Good(t), NEW r \in Req, NEW f PROVE Good(SessionLoginTask(t, r, f))
<1>1. Good(StartLogin(t, r, f)) /\ Good(WriteRsp(t, r, "err"))
  BY StartGood, Answers
<1>2. Good([t EXCEPT !.retry[r] = 1])
  <2> DEFINE w == [t.retry EXCEPT ![r] = 1]
  <2>1. t.retry \in [Req -> 0 .. HostRetryMax] /\ 1 \in 0 .. HostRetryMax
    <3>1. 1 \in 0 .. HostRetryMax
      BY BoundAssumption, SMTT(30)
    <3>2. QED
      BY <3>1, TypedRecord DEF Good, FieldTypes
  <2>2. w \in [Req -> 0 .. HostRetryMax]
    BY <2>1
  <2>3. [t EXCEPT !.retry[r] = 1] = [t EXCEPT !.retry = w]
    OBVIOUS
  <2> HIDE DEF w
  <2>4. Good([t EXCEPT !.retry = w])
    BY <2>2, SetRequests
  <2>5. QED
    BY <2>3, <2>4
<1>3. QED
  BY <1>1, <1>2 DEF SessionLoginTask, LoginTaskResult

(* session_login_task_retry *)
LEMMA LoginRetryGood ==
  ASSUME NEW t, Good(t), NEW r \in Req, NEW f PROVE Good(SessionLoginTaskRetry(t, r, f))
<1> DEFINE v == [t.retry EXCEPT ![r] = 0]
           w == [t.retry EXCEPT ![r] = t.retry[r] + 1]
           a == [t EXCEPT !.retry[r] = 0]
           b == [t EXCEPT !.retry[r] = t.retry[r] + 1]
<1>1. t.retry \in [Req -> 0 .. HostRetryMax] /\ HostRetryMax \in Nat /\ 0 \in 0 .. HostRetryMax
  <2>1. HostRetryMax \in Nat /\ 0 \in 0 .. HostRetryMax
    BY BoundAssumption, SMTT(30)
  <2>2. QED
    BY <2>1, TypedRecord DEF Good, FieldTypes
<1>2. v \in [Req -> 0 .. HostRetryMax] /\ (t.retry[r] < HostRetryMax => w \in [Req -> 0 .. HostRetryMax])
  BY <1>1, SMTT(30)
<1>3. a = [t EXCEPT !.retry = v] /\ b = [t EXCEPT !.retry = w]
  OBVIOUS
<1> HIDE DEF v, w
<1>4. Good([t EXCEPT !.retry = v]) /\ (t.retry[r] < HostRetryMax => Good([t EXCEPT !.retry = w]))
  BY <1>2, SetRequests
<1>5. Good(a) /\ (t.retry[r] < HostRetryMax => Good(b))
  BY <1>3, <1>4
<1>6. b = [t EXCEPT !.retry[r] = @ + 1]
  OBVIOUS
<1> HIDE DEF a, b
<1>7. Good(StartLogin(a, r, f)) /\ Good(WriteRsp(a, r, "err"))
  BY <1>5, StartGood, Answers
<1>8. QED
  BY <1>5, <1>6, <1>7 DEF SessionLoginTaskRetry, a

(* iscsi_sync_session *)
LEMMA SyncGood == ASSUME NEW t, Good(t), NEW r \in Req, NEW f PROVE Good(SyncSession(t, r, f))
<1> DEFINE g == TakenOver(t, r)
<1>1. SyncSession(t, r, f) \in {WriteRsp(t, r, "err"), SessionConnReopen(g, r, TRUE, f)}
  BY DEF SyncSession, TakenOver
<1>2. Good(g)
  BY TakenOverGood
<1> HIDE DEF g
<1>3. Good(SessionConnReopen(g, r, TRUE, f)) /\ Good(WriteRsp(t, r, "err"))
  BY <1>2, FailbackReopenGood, Answers DEF Qtask
<1>4. QED
  BY <1>1, <1>3

(* session_logout_task *)
LEMMA LogoutTaskGood ==
  ASSUME NEW t, Good(t), NEW r \in Req, NEW f PROVE Good(SessionLogoutTask(t, r, f))
<1> DEFINE a == [t EXCEPT !.logout = r]
           b == KipcCall(a)
           c == IF Offload THEN b ELSE SendLogout(b, f)
<1>1. Good(a)
  BY SetOwner
<1> HIDE DEF a
<1>2. Good(b)
  BY <1>1, Called
<1> HIDE DEF b
<1>3. Good(c)
  BY <1>2, SendLogoutGood
<1> HIDE DEF c
<1>4. ASSUME NEW u, Good(u) PROVE Good(DropForLogout(u, r, f))
  <2>1. Good(SessionConnShutdown(u, r, "ok", f))
    BY <1>4, ShutdownGood
  <2>2. QED
    BY <2>1, Answers DEF DropForLogout
<1>5. Good(WriteRsp(t, r, "err")) /\ Good([b EXCEPT !.unbinding = TRUE])
  BY <1>2, Answers, SetKernel
<1>6. Good(DropForLogout(a, r, f)) /\ Good(DropForLogout(c, r, f))
  BY <1>1, <1>3, <1>4
<1>7. QED
  BY <1>3, <1>5, <1>6 DEF SessionLogoutTask, c, b, a

(* An event of the kernel *)
LEMMA QueueGood ==
  ASSUME Good(s), NEW ev \in KernelEvent, Offload => ev # "RECV_PDU"
  PROVE  Good(Queue(s, ev))
<1> DEFINE e == [ev |-> ev, q |-> None, stale |-> FALSE]
           n == Append(s.nl, e)
           u == Queue(s, ev)
<1>1. e \in Event /\ e.ev = ev
  BY DEF Event
<1> HIDE DEF e
<1>2. s.nl \in Seq(Event)
  BY ListFacts
<1>3. n \in Seq(Event) /\ \A i \in DOMAIN n : n[i] = e \/ (i \in DOMAIN s.nl /\ n[i] = s.nl[i])
  BY <1>1, <1>2, SMTT(30)
<1> HIDE DEF n
<1>4. u = [s EXCEPT !.nl = n]
  BY DEF Queue, n, e
<1> HIDE DEF u
<1>5. Typed(u) /\ Sets(s, u, "nl", n)
  <2>1. "nl" \in Fields /\ n \in Types["nl"] /\ Typed(s)
    BY <1>3, ListFacts, ListTypes DEF ListFields
  <2>2. QED
    BY <1>4, <2>1, Update
<1> HIDE DEF u
<1>6. u.nl = n /\ u.ready = s.ready /\ u.pend = s.pend /\ u.pool = s.pool /\ u.setup = s.setup /\ u.state = s.state
      /\ u.login = s.login
  BY <1>5 DEF Sets, Fields
<1>7. u.setup.offload => NoPdu(u) /\ NoLogoutTimer(u)
  <2>1. s.setup.offload => NoPdu(s) /\ NoLogoutTimer(s) /\ ev # "RECV_PDU"
    BY ListFacts DEF Lists, Offload
  <2>2. NoPdu(s) /\ ev # "RECV_PDU" => NoPdu(u)
    BY <1>1, <1>3, <1>6 DEF NoPdu
  <2>3. QED
    BY <1>6, <2>1, <2>2 DEF NoLogoutTimer
<1>8. Lists(u)
  BY <1>6, <1>7, ListFacts DEF Lists, OnePoll
<1>9. QED
  BY <1>5, <1>6, <1>8, Relisted DEF NoLogoutTimer, u

(* Every request keeps the lists in order, *)
LEMMA RequestsGood == ASSUME Good(s), Requests PROVE Good(s')
<1>1. PICK r \in Req : SessionLogin(r) \/ SessionLogout(r) \/ SessionSync(r)
  BY DEF Requests
<1>2. Good(Open(s, r, "login")) /\ Good(Open(s, r, "logout")) /\ Good(Open(s, r, "sync"))
  BY OpenGood
<1>3. CASE SessionLogin(r)
  <2>1. PICK f \in Failures : s' = SessionLoginTask(Open(s, r, "login"), r, f)
    BY <1>3 DEF SessionLogin
  <2>2. QED
    BY <1>2, <2>1, LoginTaskGood
<1>4. CASE SessionLogout(r)
  <2>1. PICK f \in Failures : s' = SessionLogoutTask(Open(s, r, "logout"), r, f)
    BY <1>4 DEF SessionLogout
  <2>2. QED
    BY <1>2, <2>1, LogoutTaskGood
<1>5. CASE SessionSync(r)
  <2>1. PICK f \in Failures : s' = SyncSession(Open(s, r, "sync"), r, f)
    BY <1>5 DEF SessionSync
  <2>2. QED
    BY <1>2, <2>1, SyncGood
<1>6. QED
  BY <1>1, <1>3, <1>4, <1>5

(* and so does every context that runs, *)
LEMMA ContextsGood == ASSUME Good(s), Contexts PROVE Good(s')
<1>1. s.ready # <<>>
  BY DEF Contexts, RunPoll, RunRecvPdu, RunError, RunInvalidHost, RunLogin, RunStop, Runs
<1>2. Good(Taken) /\ Taken.state = s.state /\ Taken.login = s.login /\ Taken.saddr = s.saddr
  BY <1>1, ContextTaken DEF Fields
<1>3. CASE RunPoll
  <2>1. PICK f \in Failures, r \in {"wait", "connected", "error"} : s' = SessionConnPoll(Taken, s.ready[NextContext].q, r, f)
    BY <1>3 DEF RunPoll
  <2>2. NoPoll(Taken) /\ s.ready[NextContext].q \in Qtask
    BY <1>1, <1>3, ContextTaken DEF RunPoll, Runs
  <2>3. QED
    BY <1>2, <2>1, <2>2, PollGood
<1>4. CASE RunRecvPdu
  <2>1. ~ Offload
    <3>1. NextContext \in DOMAIN s.ready /\ s.ready[NextContext].ev = "RECV_PDU"
      BY <1>1, <1>4, NextIsThere DEF RunRecvPdu, Runs
    <3>2. Offload => NoPdu(s)
      BY ListFacts DEF Lists, Offload
    <3>3. QED
      BY <3>1, <3>2 DEF NoPdu
  <2>2. CASE s.state = "IN_LOGIN" /\ \E f \in Failures, reply \in Replies :
                \E to \in IF LoginRet(reply) = "LOGIN_REDIRECT" THEN Address ELSE {s.saddr} :
                    s' = RecvLoginRsp(Taken, reply, to, f)
    <3>1. PICK f \in Failures, reply \in Replies :
                \E to \in IF LoginRet(reply) = "LOGIN_REDIRECT" THEN Address ELSE {s.saddr} :
                    s' = RecvLoginRsp(Taken, reply, to, f)
      BY <2>2
    <3>2. PICK to \in IF LoginRet(reply) = "LOGIN_REDIRECT" THEN Address ELSE {s.saddr} :
                    s' = RecvLoginRsp(Taken, reply, to, f)
      BY <3>1
    <3>3. to \in Address
      <4>1. s.saddr \in Address
        BY TypedRecord DEF Good, FieldTypes
      <4>2. QED
        BY <4>1
    <3>4. QED
      BY <1>2, <2>2, <3>2, <3>3, LoginRspGood
  <2>3. CASE \E f \in Failures, pdu \in Pdu : s' = RecvPdu(Taken, pdu, f)
    BY <1>2, <2>1, <2>3, PduGood
  <2>4. CASE s' = Taken
    BY <1>2, <2>4
  <2>5. QED
    BY <1>4, <2>2, <2>3, <2>4 DEF RunRecvPdu
<1>5. CASE RunError
  BY <1>2, <1>5, ErrorGood DEF RunError
<1>6. CASE RunInvalidHost
  BY <1>2, <1>6, ShutdownGood DEF RunInvalidHost
<1>7. ASSUME NEW ok \in BOOLEAN, RunLogin(ok) PROVE Good(s')
  BY <1>2, <1>7, ProcessLoginGood DEF RunLogin
<1>8. CASE RunStop
  BY <1>2, <1>8, StopGood DEF RunStop
<1>9. QED
  BY <1>3, <1>4, <1>5, <1>6, <1>7, <1>8 DEF Contexts

(* every timer, *)
LEMMA TimersGood ==
  ASSUME Good(s), LoginTimerFires \/ NopTimerFires \/ PollTimerFires \/ LogoutTimerFires
  PROVE  Good(s')
<1>1. CASE LoginTimerFires
  <2>1. s.login_timer \in Qtask
    BY <1>1, TypedRecord DEF Good, FieldTypes, LoginTimerFires
  <2>2. Good([s EXCEPT !.login_timer = None])
    BY SetTimers
  <2>3. QED
    BY <1>1, <2>1, <2>2, LoginEhGood DEF LoginTimerFires
<1>2. CASE NopTimerFires
  <2>1. Good([s EXCEPT !.nop_timer = "off"])
    BY SetTimers
  <2>2. QED
    BY <1>2, <2>1, NopOutGood, ErrorGood DEF NopTimerFires
<1>3. CASE PollTimerFires
  <2>1. PICK c \in s.pend, f \in Failures, r \in {"wait", "connected", "error"} :
          c.ev = "POLL" /\ s' = SessionConnPoll([s EXCEPT !.pend = @ \ {c}, !.pool = @ - 1], c.q, r, f)
    BY <1>3 DEF PollTimerFires
  <2> DEFINE u == TimerOff(c)
  <2>2. Good(u) /\ NoPoll(u) /\ c.q \in Qtask
    BY <2>1, TimerTaken
  <2>3. s' = SessionConnPoll(u, c.q, r, f)
    BY <2>1 DEF TimerOff
  <2> HIDE DEF u
  <2>4. QED
    BY <2>2, <2>3, PollGood
<1>4. CASE LogoutTimerFires
  <2>1. PICK c \in s.pend, f \in Failures :
          s' = ConnErrorHandle([s EXCEPT !.pend = @ \ {c}, !.pool = @ - 1], f)
    BY <1>4 DEF LogoutTimerFires
  <2> DEFINE u == TimerOff(c)
  <2>2. Good(u)
    BY <2>1, TimerTaken
  <2>3. s' = ConnErrorHandle(u, f)
    BY <2>1 DEF TimerOff
  <2> HIDE DEF u
  <2>4. QED
    BY <2>2, <2>3, ErrorGood
<1>5. QED
  BY <1>1, <1>2, <1>3, <1>4

(* every event of the kernel, *)
LEMMA KernelGood == ASSUME Good(s), KernelEvents PROVE Good(s')
<1>1. ASSUME NEW ev \in KernelEvent, Offload => ev # "RECV_PDU", s' = Queue(s, ev) PROVE Good(s')
  BY <1>1, QueueGood
<1>2. CASE KernelPdu
  BY <1>1, <1>2 DEF KernelPdu, KernelEvent
<1>3. CASE KernelError
  BY <1>1, <1>3 DEF KernelError, KernelEvent
<1>4. ASSUME NEW ok \in BOOLEAN, KernelLogin(ok) PROVE Good(s')
  <2> DEFINE ev == IF ok THEN "LOGIN_OK" ELSE "LOGIN_FREE"
             k == IF ok THEN "started" ELSE "conn"
             u == Queue(s, ev)
  <2>1. Good(u)
    BY QueueGood DEF KernelEvent
  <2>2. s' = [u EXCEPT !.k = k] /\ k \in Kernel
    BY <1>4 DEF KernelLogin, Kernel
  <2> HIDE DEF u, k
  <2>3. QED
    BY <2>1, <2>2, SetKernel
<1>5. CASE KernelUnbound
  <2> DEFINE u == Queue(s, "STOP")
  <2>1. Good(u)
    BY QueueGood DEF KernelEvent
  <2>2. s' = [u EXCEPT !.unbinding = FALSE]
    BY <1>5 DEF KernelUnbound
  <2> HIDE DEF u
  <2>3. QED
    BY <2>1, <2>2, SetKernel
<1>6. CASE KernelHostRemoved
  BY <1>1, <1>6 DEF KernelHostRemoved, KernelEvent
<1>7. QED
  BY <1>2, <1>3, <1>4, <1>5, <1>6 DEF KernelEvents

(* and a restart. *)
LEMMA CrashGood == ASSUME Good(s), Crash PROVE Good(s')
<1> DEFINE x == Fresh(s)
           v == [r \in Req |-> 0]
           w == [r \in Req |-> IF x.req[r] = "open" THEN "err" ELSE x.req[r]]
           a == [x EXCEPT !.retry = v]
<1>1. Good(x)
  BY FreshGood
<1>2. s' = [a EXCEPT !.req = w]
  BY DEF Crash
<1> HIDE DEF x
<1>3. v \in [Req -> 0 .. HostRetryMax]
  BY BoundAssumption, SMTT(30)
<1> HIDE DEF v
<1>4. x.req \in [Req -> {"idle", "open", "ok", "err", "twice"}]
  BY <1>1, TypedRecord DEF Good, FieldTypes
<1>5. w \in [Req -> {"idle", "open", "ok", "err", "twice"}]
  BY <1>4
<1> HIDE DEF w
<1>6. Good(a)
  BY <1>1, <1>3, SetRequests
<1> HIDE DEF a
<1>7. Good([a EXCEPT !.req = w])
  BY <1>5, <1>6, SetRequests
<1>8. QED
  BY <1>2, <1>7

(* Good is inductive. *)
LEMMA NextGood == ASSUME Good(s), Next PROVE Good(s')
<1>1. CASE ReadNetlink
  BY <1>1, CtldevGood DEF ReadNetlink
<1>2. ASSUME NEW r \in Req, RetryTimerFires(r) PROVE Good(s')
  BY <1>2, LoginRetryGood DEF RetryTimerFires
<1>3. CASE InitialLoginLate
  <2>1. s' = [s EXCEPT !.late = TRUE]
    BY <1>3 DEF InitialLoginLate
  <2>2. "late" \in PlainFields /\ TRUE \in Types["late"]
    BY PlainTypes
  <2>3. QED
    BY <2>1, <2>2, Plain
<1>4. QED
  BY <1>1, <1>2, <1>3, RequestsGood, ContextsGood, TimersGood, KernelGood, CrashGood DEF Next

(* At the start there are no contexts. *)
LEMMA InitGood == ASSUME Init PROVE Good(s)
<1>1. PICK setup \in Setups :
    s = [live |-> FALSE, id |-> FALSE, state |-> "FREE", r_stage |-> "NO_CHANGE",
         reopen_cnt |-> 0, time2wait |-> FALSE, late |-> FALSE, notify |-> None,
         logout |-> None, login |-> None, login_timer |-> None, nop_timer |-> "off",
         saddr |-> "home", failback |-> "home", pool |-> 0, ready |-> <<>>, pend |-> {},
         retry |-> [r \in Req |-> 0], k |-> "none", unbinding |-> FALSE, nl |-> <<>>,
         req |-> [r \in Req |-> "idle"], kind |-> [r \in Req |-> "none"],
         dropped |-> FALSE, zombie |-> FALSE, relinked |-> FALSE, setup |-> setup]
  BY DEF Init
<1>2. s.pool = 0 /\ s.ready = <<>> /\ s.pend = {} /\ s.nl = <<>> /\ s.state = "FREE"
  BY <1>1
<1>3. s \in SessionRecord
  <2>1. /\ 0 \in 0 .. MaxCnt /\ 0 \in 0 .. PoolMax /\ 0 \in 0 .. HostRetryMax
        /\ <<>> \in Seq(Event) /\ <<>> \in Seq(Event \cup TimerContext)
    BY BoundAssumption, SMTT(30)
  <2>2. /\ [r \in Req |-> 0] \in [Req -> 0 .. HostRetryMax]
        /\ [r \in Req |-> "idle"] \in [Req -> {"idle", "open", "ok", "err", "twice"}]
        /\ [r \in Req |-> "none"] \in [Req -> {"none", "login", "logout", "sync"}]
    BY <2>1
  <2> DEFINE a == [r \in Req |-> 0]
             b == [r \in Req |-> "idle"]
             c == [r \in Req |-> "none"]
  <2> HIDE DEF a, b, c
  <2>3. [live |-> FALSE, id |-> FALSE, state |-> "FREE", r_stage |-> "NO_CHANGE",
         reopen_cnt |-> 0, time2wait |-> FALSE, late |-> FALSE, notify |-> None,
         logout |-> None, login |-> None, login_timer |-> None, nop_timer |-> "off",
         saddr |-> "home", failback |-> "home", pool |-> 0, ready |-> <<>>, pend |-> {},
         retry |-> a, k |-> "none", unbinding |-> FALSE, nl |-> <<>>,
         req |-> b, kind |-> c, dropped |-> FALSE, zombie |-> FALSE, relinked |-> FALSE, setup |-> setup]
            \in SessionRecord
    <3>1. /\ a \in [Req -> 0 .. HostRetryMax]
          /\ b \in [Req -> {"idle", "open", "ok", "err", "twice"}]
          /\ c \in [Req -> {"none", "login", "logout", "sync"}]
      BY <2>2 DEF a, b, c
    <3>2. /\ None \in Qtask \cup {None} /\ None \in Req \cup {None} /\ "FREE" \in ConnState /\ "none" \in Kernel
          /\ "NO_CHANGE" \in RStage /\ "home" \in Address /\ {} \in SUBSET TimerContext /\ FALSE \in BOOLEAN
          /\ "off" \in {"off", "interval", "timeout"}
      BY DEF ConnState, RStage, Address, Kernel
    <3>3. QED
      BY <2>1, <3>1, <3>2, SMTT(30) DEF SessionRecord
  <2>4. QED
    BY <1>1, <2>3 DEF a, b, c
<1>4. QED
  BY <1>2, <1>3, EmptyLists, TypedRecord

(* g counts the subsets of S. *)
Counts(g, S) == g = [T \in SUBSET S |-> IF T = {} THEN 0 ELSE 1 + g[T \ {CHOOSE x : x \in T}]]

(* Cardinality is such a count. *)
LEMMA Counted ==
  ASSUME NEW S, NEW h, Counts(h, S)
  PROVE  \E g : Counts(g, S) /\ Cardinality(S) = g[S]
<1> DEFINE CS == CHOOSE g : Counts(g, S)
<1>1. Counts(CS, S)
  OBVIOUS
<1>2. Cardinality(S) = CS[S]
  BY DEF Cardinality, Counts
<1>3. QED
  BY <1>1, <1>2

(* The sizes of the sets that pend_list can be *)
LEMMA CountOne == ASSUME NEW x PROVE Cardinality({x}) = 1
<1> DEFINE S == {x}
           h == [T \in SUBSET S |-> IF T = {} THEN 0 ELSE 1]
<1>1. \A T \in SUBSET S : T = {} \/ T = S
  OBVIOUS
<1>2. (CHOOSE z : z \in S) = x
  OBVIOUS
<1>3. S \ {x} = {} /\ {} \in SUBSET S /\ S \in SUBSET S /\ S # {}
  OBVIOUS
<1> HIDE DEF S
<1>4. Counts(h, S)
  BY <1>1, <1>2, <1>3, SMTT(30) DEF Counts
<1> HIDE DEF h
<1>5. PICK g : Counts(g, S) /\ Cardinality(S) = g[S]
  BY <1>4, Counted
<1>6. g[{}] = 0 /\ g[S] = 1 + g[S \ {CHOOSE z : z \in S}]
  BY <1>3, <1>5 DEF Counts
<1>7. QED
  BY <1>2, <1>3, <1>5, <1>6, SMTT(30) DEF S

(* Two elements *)
LEMMA CountTwo == ASSUME NEW x, NEW y, x # y PROVE Cardinality({x, y}) = 2
<1> DEFINE S == {x, y}
           a == {x}
           b == {y}
           h == [T \in SUBSET S |-> IF T = {} THEN 0 ELSE IF T = S THEN 2 ELSE 1]
           pick(T) == CHOOSE z : z \in T
<1>1. \A T \in SUBSET S : T = {} \/ T = a \/ T = b \/ T = S
  OBVIOUS
<1>2. pick(a) = x /\ pick(b) = y /\ (pick(S) = x \/ pick(S) = y)
  OBVIOUS
<1>3. a \ {x} = {} /\ b \ {y} = {}
  OBVIOUS
<1>4. S \ {x} = b /\ S \ {y} = a
  OBVIOUS
<1>5. {} \in SUBSET S /\ S \in SUBSET S /\ a \in SUBSET S /\ b \in SUBSET S
  OBVIOUS
<1>6. S # {} /\ a # {} /\ b # {} /\ a # S /\ b # S
  <2>1. x \in S /\ y \in S /\ x \in a /\ y \in b /\ y \notin a /\ x \notin b
    OBVIOUS
  <2> HIDE DEF S, a, b
  <2>2. QED
    BY <2>1
<1> HIDE DEF S, a, b, pick
<1>7. Counts(h, S)
  <2>1. ASSUME NEW T \in SUBSET S PROVE h[T] = IF T = {} THEN 0 ELSE 1 + h[T \ {pick(T)}]
    <3>1. CASE T = {}
      BY <3>1
    <3>2. CASE T = a \/ T = b
      BY <1>2, <1>3, <1>5, <1>6, <3>2, SMTT(30)
    <3>3. CASE T = S
      <4>1. T \ {pick(T)} = a \/ T \ {pick(T)} = b
        BY <1>2, <1>4, <3>3
      <4>2. h[a] = 1 /\ h[b] = 1 /\ h[S] = 2
        BY <1>5, <1>6
      <4> HIDE DEF h
      <4>3. h[T \ {pick(T)}] = 1 /\ h[T] = 2 /\ T # {}
        BY <1>6, <3>3, <4>1, <4>2
      <4>4. QED
        BY <4>3, SMTT(30)
    <3>4. QED
      BY <1>1, <3>1, <3>2, <3>3
  <2>2. QED
    BY <2>1 DEF Counts, h, pick
<1> HIDE DEF h
<1>8. PICK g : Counts(g, S) /\ Cardinality(S) = g[S]
  BY <1>7, Counted
<1>9. \A T \in SUBSET S : g[T] = IF T = {} THEN 0 ELSE 1 + g[T \ {pick(T)}]
  BY <1>8 DEF Counts, pick
<1>10. g[a] = 1 /\ g[b] = 1
  <2>1. g[{}] = 0
    BY <1>5, <1>9
  <2>2. g[a] = 1 + g[{}] /\ g[b] = 1 + g[{}]
    BY <1>2, <1>3, <1>5, <1>6, <1>9
  <2>3. QED
    BY <2>1, <2>2, SMTT(30)
<1>11. g[S] = 2
  BY <1>2, <1>4, <1>5, <1>6, <1>9, <1>10, SMTT(30)
<1>12. QED
  BY <1>8, <1>11 DEF S

(* No element *)
LEMMA CountNone == Cardinality({}) = 0
<1> DEFINE h == [T \in SUBSET {} |-> 0]
<1>1. \A T \in SUBSET {} : T = {}
  OBVIOUS
<1>2. Counts(h, {})
  BY <1>1 DEF Counts
<1> HIDE DEF h
<1>3. PICK g : Counts(g, {}) /\ Cardinality({}) = g[{}]
  BY <1>2, Counted
<1>4. {} \in SUBSET {}
  OBVIOUS
<1>5. g[{}] = 0
  BY <1>3, <1>4 DEF Counts
<1>6. QED
  BY <1>3, <1>5

(* With at most one poll and one logout timer on it, Timers counts the pending list. *)
LEMMA TimersCounted == ASSUME NEW t, Typed(t), OnePoll(t) PROVE Timers(t.pend) = Cardinality(t.pend)
<1> DEFINE S == t.pend
           l == [ev |-> "LOGOUT_TIMER", q |-> None, stale |-> FALSE]
<1>1. S \subseteq TimerContext
  BY TypedRecord DEF FieldTypes
<1>2. \A c \in S : c.ev = "POLL" \/ (c.ev = "LOGOUT_TIMER" /\ c = l)
  BY <1>1, ContextEvents
<1>3. \A c, e \in S : c.ev = "POLL" /\ e.ev = "POLL" => c = e
  BY DEF OnePoll
<1>4. l.ev = "LOGOUT_TIMER"
  OBVIOUS
<1> HIDE DEF S, l
<1>5. CASE \E p \in S : p.ev = "POLL"
  <2>1. PICK p \in S : p.ev = "POLL"
    BY <1>5
  <2>2. p # l /\ (S = {p} \/ S = {p, l})
    BY <1>2, <1>3, <1>4, <2>1
  <2>3. Cardinality({p}) = 1 /\ Cardinality({p, l}) = 2
    BY <2>2, CountOne, CountTwo
  <2>4. S = {p} => Timers(S) = 1
    BY <2>1, SMTT(30) DEF Timers, Waits
  <2>5. S = {p, l} => Timers(S) = 2
    BY <1>4, <2>1, SMTT(30) DEF Timers, Waits
  <2>6. QED
    BY <2>2, <2>3, <2>4, <2>5 DEF S
<1>6. CASE ~ \E p \in S : p.ev = "POLL"
  <2>1. S = {} \/ S = {l}
    BY <1>2, <1>6
  <2>2. Cardinality({l}) = 1 /\ Cardinality({}) = 0
    BY CountOne, CountNone
  <2>3. S = {l} => Timers(S) = 1
    BY <1>4, SMTT(30) DEF Timers, Waits
  <2>4. QED
    BY <2>1, <2>2, <2>3, NoTimers DEF S
<1>7. QED
  BY <1>5, <1>6

(* An ev_context is allocated exactly as long as its actor is on ready_list or pend_list:       *)
(* iscsi_ev_context_get and iscsi_ev_context_put balance on every path of every handler, also of  *)
(* offloaded sessions, also when any kernel call fails and when iscsid is restarted.             *)
THEOREM PoolIsAccounted == Spec => []PoolAccounted
<1>1. Init => Good(s)
  BY InitGood
<1>2. Good(s) /\ [Next]_s => Good(s)'
  <2>1. Good(s) /\ Next => Good(s')
    BY NextGood
  <2>2. Good(s') => Good(s)'
    BY DEF Good
  <2>3. Good(s) /\ UNCHANGED s => Good(s)'
    BY DEF Good
  <2>4. QED
    BY <2>1, <2>2, <2>3
<1>3. ASSUME Good(s) PROVE PoolAccounted
  <2>1. Typed(s) /\ OnePoll(s) /\ s.pool = Len(s.ready) + Timers(s.pend)
    BY <1>3 DEF Good, Lists
  <2>2. QED
    BY <2>1, TimersCounted, TypedRecord DEF PoolAccounted, TypeOK
<1>4. QED
  BY <1>1, <1>2, <1>3, PTL DEF Spec

------------------------------------------------------------------------------
(* The timers.                                                              *)

(* The fields that the ping timer's discipline is about. *)
TimerFields == {"state", "nop_timer", "zombie", "relinked"}

(* They are the same in t and u. *)
SameTimers(t, u) ==
    /\ u.state = t.state /\ u.nop_timer = t.nop_timer /\ u.zombie = t.zombie /\ u.relinked = t.relinked
    /\ DOMAIN u = DOMAIN t

(* No timer outlived its session, and none was armed twice, *)
Calm(t) == TimerFields \cup {"login_timer", "r_stage"} \subseteq DOMAIN t /\ ~ t.zombie /\ ~ t.relinked

(* and the ping timer belongs to an established connection. *)
Pinged(t) == Calm(t) /\ (t.nop_timer # "off" => t.state \in {"LOGGED_IN", "IN_LOGOUT"})

(* What is alike is disciplined alike. *)
LEMMA AlikePinged ==
  ASSUME NEW t, NEW u, SameTimers(t, u)
  PROVE  (Calm(t) => Calm(u)) /\ (Pinged(t) => Pinged(u))
BY DEF SameTimers, Calm, Pinged

(* The other fields may be assigned to. *)
LEMMA OtherField ==
  ASSUME NEW t, Calm(t), NEW x, x \notin TimerFields, NEW v
  PROVE  SameTimers(t, [t EXCEPT ![x] = v])
BY DEF SameTimers, Calm, TimerFields

(* mgmt_ipc_write_rsp, iscsi_flush_context_pool, conn_delete_timers and the contexts *)
LEMMA PlainAlike ==
  ASSUME NEW t, Calm(t), NEW q, NEW rsp, NEW ev
  PROVE  /\ SameTimers(t, WriteRsp(t, q, rsp))
         /\ SameTimers(t, FlushContextPool(t))
         /\ SameTimers(t, QueueDelayedReopen(t, q))
         /\ SameTimers(t, Schedule(t, ev, q))
         /\ SameTimers(t, ScheduleTimer(t, ev, q))
         /\ SameTimers(t, KipcCall(t))
<1>1. SameTimers(t, WriteRsp(t, q, rsp))
  BY DEF WriteRsp, SameTimers, Calm, TimerFields
<1>2. SameTimers(t, FlushContextPool(t))
  BY DEF FlushContextPool, SameTimers, Calm, TimerFields
<1>3. SameTimers(t, QueueDelayedReopen(t, q))
  BY DEF QueueDelayedReopen, SameTimers, Calm, TimerFields
<1>4. SameTimers(t, Schedule(t, ev, q))
  BY DEF Schedule, SameTimers, Calm, TimerFields
<1>5. SameTimers(t, ScheduleTimer(t, ev, q))
  BY DEF ScheduleTimer, SameTimers, Calm, TimerFields
<1>6. SameTimers(t, KipcCall(t))
  BY DEF KipcCall, SameTimers, Calm, TimerFields
<1>7. QED
  BY <1>1, <1>2, <1>3, <1>4, <1>5, <1>6

(* The kernel calls *)
LEMMA CallsAlike ==
  ASSUME NEW t, Calm(t), NEW f
  PROVE  /\ SameTimers(t, EndpointCall(t))
         /\ SameTimers(t, KStopConn(t, f))
         /\ SameTimers(t, KDestroyConn(t, f))
         /\ SameTimers(t, KDestroySession(t, f))
         /\ SameTimers(t, KBindConn(t))
         /\ SameTimers(t, CtldevHandle(t))
<1> DEFINE u == KipcCall(t)
<1>1. SameTimers(t, u) /\ Calm(u)
  BY PlainAlike, AlikePinged
<1>2. SameTimers(t, EndpointCall(t))
  BY <1>1 DEF EndpointCall, SameTimers
<1> HIDE DEF u
<1>3. \A v : SameTimers(t, [u EXCEPT !.k = v])
  BY <1>1 DEF SameTimers, Calm, TimerFields
<1>4. SameTimers(t, KStopConn(t, f))
  BY <1>1, <1>3 DEF KStopConn, u
<1>5. SameTimers(t, KDestroyConn(t, f))
  BY <1>1, <1>3 DEF KDestroyConn, u
<1>6. SameTimers(t, KDestroySession(t, f))
  <2>1. SameTimers(t, [u EXCEPT !.k = "none", !.unbinding = FALSE])
    BY <1>1 DEF SameTimers, Calm, TimerFields
  <2>2. QED
    BY <1>1, <2>1 DEF KDestroySession, u
<1>7. SameTimers(t, KBindConn(t))
  <2>1. \A v : SameTimers(t, [u EXCEPT !.k = "bound", !.ready = v])
    BY <1>1 DEF SameTimers, Calm, TimerFields
  <2>2. QED
    BY <2>1 DEF KBindConn, u
<1>8. SameTimers(t, CtldevHandle(t))
  BY DEF CtldevHandle, SameTimers, Calm, TimerFields
<1>9. QED
  BY <1>2, <1>4, <1>5, <1>6, <1>7, <1>8

(* What is the same twice is the same. *)
LEMMA SameTimersStill ==
  ASSUME NEW t, NEW u, NEW v, SameTimers(t, u), SameTimers(u, v)
  PROVE  SameTimers(t, v)
BY DEF SameTimers

(* conn_delete_timers *)
LEMMA TimersDeleted ==
  ASSUME NEW t, Calm(t), NEW u, u = ConnDeleteTimers(t)
  PROVE  Calm(u) /\ u.login_timer = None /\ u.nop_timer = "off" /\ u.state = t.state
BY DEF ConnDeleteTimers, Calm, TimerFields

(* The timers are deleted before the session is freed. *)
LEMMA FreePinged ==
  ASSUME NEW t, Calm(t), NEW q, NEW rsp
  PROVE  Pinged(FreeSession(t, q, rsp))
<1> DEFINE a == WriteRsp(t, q, rsp)
           b == ConnDeleteTimers(a)
           c == Fresh(b)
<1>1. Calm(a)
  BY PlainAlike, AlikePinged
<1> HIDE DEF a
<1>2. Calm(b) /\ b.login_timer = None /\ b.nop_timer = "off"
  BY <1>1, TimersDeleted
<1> HIDE DEF b
<1>3. Calm(c) /\ c.nop_timer = "off"
  BY <1>2 DEF Fresh, Calm, TimerFields
<1>4. FreeSession(t, q, rsp) = [c EXCEPT !.zombie = @ \/ b.login_timer # None \/ b.nop_timer # "off"]
  BY DEF FreeSession, SessionDestroy, a, b
<1> HIDE DEF c
<1>5. QED
  BY <1>2, <1>3, <1>4 DEF Calm, Pinged, TimerFields

(* session_conn_shutdown *)
LEMMA ShutdownPinged ==
  ASSUME NEW t, Pinged(t), NEW q, NEW rsp, NEW f
  PROVE  Pinged(SessionConnShutdown(t, q, rsp, f))
<1> DEFINE a == EndpointCall(t)
           b == IF t.state \in {"IN_LOGIN", "IN_LOGOUT", "LOGGED_IN"} THEN KStopConn(a, f) ELSE a
           c == KDestroyConn(b, f)
           e == IF t.k \notin {"none", "session"} THEN c ELSE a
           x == [e EXCEPT !.r_stage = "DESTOYED"]
           d == KDestroySession(x, f)
<1>1. Calm(t)
  BY DEF Pinged
<1>2. Pinged(a) /\ Calm(a)
  BY <1>1, CallsAlike, AlikePinged
<1> HIDE DEF a
<1>3. Pinged(b) /\ Calm(b)
  BY <1>2, CallsAlike, AlikePinged
<1> HIDE DEF b
<1>4. Pinged(c) /\ Calm(c)
  BY <1>3, CallsAlike, AlikePinged
<1> HIDE DEF c
<1>5. Pinged(e) /\ Calm(e)
  BY <1>2, <1>4
<1> HIDE DEF e
<1>6. Pinged(x) /\ Calm(x)
  <2>1. "r_stage" \notin TimerFields
    BY DEF TimerFields
  <2>2. QED
    BY <1>5, <2>1, OtherField, AlikePinged
<1> HIDE DEF x
<1>7. Pinged(d) /\ Calm(d)
  BY <1>6, CallsAlike, AlikePinged
<1> HIDE DEF d
<1>8. \/ SessionConnShutdown(t, q, rsp, f) \in {b, c, d}
      \/ SessionConnShutdown(t, q, rsp, f) = FreeSession(a, q, rsp)
      \/ SessionConnShutdown(t, q, rsp, f) = FreeSession(d, q, rsp)
  BY DEF SessionConnShutdown, a, b, c, d, e, x
<1>9. QED
  BY <1>2, <1>3, <1>4, <1>7, <1>8, FreePinged

(* iscsi_conn_connect *)
LEMMA ConnectAlike ==
  ASSUME NEW t, Calm(t), NEW q, NEW f
  PROVE  SameTimers(t, ConnConnect(t, q, f))
<1> DEFINE a == EndpointCall(t)
           b == Schedule(a, "POLL", q)
<1>1. SameTimers(t, a) /\ Calm(a)
  BY CallsAlike, AlikePinged
<1> HIDE DEF a
<1>2. SameTimers(a, b) /\ Calm(b)
  BY <1>1, PlainAlike, AlikePinged
<1> HIDE DEF b
<1>3. SameTimers(b, [b EXCEPT !.login_timer = q])
  BY <1>2 DEF SameTimers, Calm, TimerFields
<1>4. SameTimers(a, QueueDelayedReopen(a, q)) /\ SameTimers(t, QueueDelayedReopen(t, q))
  BY <1>1, PlainAlike
<1>5. \/ ConnConnect(t, q, f) = QueueDelayedReopen(t, q)
      \/ ConnConnect(t, q, f) = QueueDelayedReopen(a, q)
      \/ ConnConnect(t, q, f) = [b EXCEPT !.login_timer = q]
  BY DEF ConnConnect, a, b
<1>6. SameTimers(t, b) /\ SameTimers(t, QueueDelayedReopen(a, q))
  BY <1>1, <1>2, <1>4, SameTimersStill
<1>7. SameTimers(t, [b EXCEPT !.login_timer = q])
  BY <1>3, <1>6, SameTimersStill
<1>8. QED
  BY <1>4, <1>5, <1>6, <1>7

(* __session_conn_reopen *)
LEMMA ReopenPinged ==
  ASSUME NEW t, Calm(t), NEW q, NEW stop, NEW redirected, NEW f
  PROVE  Pinged(ReopenConn(t, q, stop, redirected, f))
<1> DEFINE fl == FlushContextPool(t)
           de == ConnDeleteTimers(fl)
           xp == [de EXCEPT !.state = "XPT_WAIT"]
           a == EndpointCall(xp)
           b == IF stop THEN KStopConn(a, f) ELSE a
           c == IF redirected \/ b.reopen_cnt = MaxCnt THEN b ELSE [b EXCEPT !.reopen_cnt = @ + 1]
           n == [b EXCEPT !.time2wait = FALSE]
<1>1. Calm(fl)
  BY PlainAlike, AlikePinged
<1> HIDE DEF fl
<1>2. Calm(de) /\ de.nop_timer = "off"
  BY <1>1, TimersDeleted
<1> HIDE DEF de
<1>3. Pinged(xp) /\ Calm(xp)
  BY <1>2 DEF Calm, Pinged, TimerFields
<1> HIDE DEF xp
<1>4. Pinged(a) /\ Calm(a)
  BY <1>3, CallsAlike, AlikePinged
<1> HIDE DEF a
<1>5. Pinged(b) /\ Calm(b)
  BY <1>4, CallsAlike, AlikePinged
<1> HIDE DEF b
<1>6. Pinged(c) /\ Calm(c) /\ Pinged(n) /\ Calm(n)
  BY <1>5 DEF Calm, Pinged, TimerFields
<1> HIDE DEF c, n
<1>7. ReopenConn(t, q, stop, redirected, f) \in
        {QueueDelayedReopen(b, q), QueueDelayedReopen(n, q), QueueDelayedReopen(c, q), ConnConnect(c, q, f)}
  BY DEF ReopenConn, fl, de, xp, a, b, c, n
<1>8. QED
  BY <1>5, <1>6, <1>7, PlainAlike, ConnectAlike, AlikePinged

(* session_conn_reopen *)
LEMMA FallbackPinged ==
  ASSUME NEW t, Calm(t), NEW q, NEW stop, NEW f
  PROVE  Pinged(SessionConnReopen(t, q, stop, f))
<1> DEFINE u == [t EXCEPT !.saddr = t.failback]
<1>1. Calm(u)
  BY DEF Calm, TimerFields
<1> HIDE DEF u
<1>2. QED
  BY <1>1, ReopenPinged DEF SessionConnReopen, u

(* iscsi_login_eh *)
LEMMA LoginEhPinged ==
  ASSUME NEW t, Pinged(t), NEW q, NEW err, NEW f
  PROVE  Pinged(LoginEh(t, q, err, f))
<1> DEFINE a == FlushContextPool(t)
<1>1. Pinged(a) /\ Calm(a)
  BY PlainAlike, AlikePinged DEF Pinged
<1> HIDE DEF a
<1>2. \/ LoginEh(t, q, err, f) = a
      \/ LoginEh(t, q, err, f) = SessionConnShutdown(a, q, "err", f)
      \/ \E stop : LoginEh(t, q, err, f) = SessionConnReopen(a, q, stop, f)
  BY DEF LoginEh, a
<1>3. QED
  BY <1>1, <1>2, ShutdownPinged, FallbackPinged

(* __conn_error_handle: without error recovery levels the connection is reopened at once. *)
LEMMA ErrorPinged ==
  ASSUME NEW t, Pinged(t), Erl = 0, NEW f
  PROVE  Pinged(ConnErrorHandle(t, f))
<1> DEFINE u == [t EXCEPT !.state = "CLEANUP_WAIT", !.r_stage = IF Erl > 0 THEN @ ELSE "REOPEN"]
<1>1. Calm(u) /\ u.r_stage = "REOPEN"
  BY SMTT(30) DEF Pinged, Calm, TimerFields
<1> HIDE DEF u
<1>2. \/ ConnErrorHandle(t, f) = t
      \/ ConnErrorHandle(t, f) = SessionConnShutdown(t, t.logout, "ok", f)
      \/ ConnErrorHandle(t, f) = SessionConnReopen(u, ReopenQ, TRUE, f)
      \/ \E q : ConnErrorHandle(t, f) = LoginEh(t, q, "TRANS", f)
  BY <1>1 DEF ConnErrorHandle, u
<1>3. QED
  BY <1>1, <1>2, ShutdownPinged, FallbackPinged, LoginEhPinged

(* actor_timer on the ping timer, when it is not armed *)
LEMMA NopTimerPinged ==
  ASSUME NEW t, Calm(t), t.nop_timer = "off", t.state \in {"LOGGED_IN", "IN_LOGOUT"}, NEW callback
  PROVE  Pinged(NopOutTimer(t, callback))
BY DEF NopOutTimer, Calm, Pinged, TimerFields

(* The end of a login *)
LEMMA LoggedInPinged ==
  ASSUME NEW t, Calm(t), NEW f, NEW u, u = LoggedIn(t, f)
  PROVE  Calm(u) /\ u.state = "LOGGED_IN" /\ u.nop_timer = t.nop_timer
<1> DEFINE n == [t EXCEPT !.notify = None]
           a == WriteRsp(n, t.login, "ok")
           b == ScanHost(t, t.login, f)
           c == IF t.r_stage \in {"NO_CHANGE", "REDIRECT"} THEN b ELSE a
<1>1. SameTimers(t, n) /\ Calm(n)
  BY DEF SameTimers, Calm, TimerFields
<1> HIDE DEF n
<1>2. SameTimers(n, a)
  BY <1>1, PlainAlike
<1>3. SameTimers(t, b)
  BY PlainAlike DEF ScanHost
<1>4. SameTimers(t, c) /\ Calm(c)
  BY <1>1, <1>2, <1>3, SameTimersStill, AlikePinged
<1>5. u = [c EXCEPT !.state = "LOGGED_IN", !.reopen_cnt = 0, !.r_stage = "NO_CHANGE"]
  BY DEF LoggedIn, n
<1> HIDE DEF c
<1>6. QED
  BY <1>4, <1>5 DEF SameTimers, Calm, TimerFields

(* setup_full_feature_phase: the ping timer was not armed during the login. *)
LEMMA FullFeaturePinged ==
  ASSUME NEW t, Pinged(t), t.state = "IN_LOGIN", NEW f
  PROVE  Pinged(SetupFullFeaturePhase(t, f))
<1> DEFINE n == [t EXCEPT !.login_timer = None]
           a == KipcCall(n)
           k == [a EXCEPT !.k = "started"]
           up == LoggedIn(k, f)
<1>1. t.nop_timer = "off" /\ Calm(t)
  BY DEF Pinged
<1>2. Calm(n) /\ n.nop_timer = "off" /\ n.state = "IN_LOGIN"
  BY <1>1 DEF Calm, TimerFields
<1> HIDE DEF n
<1>3. Calm(a) /\ a.nop_timer = "off" /\ Pinged(a)
  BY <1>2, PlainAlike, AlikePinged DEF SameTimers, Pinged
<1> HIDE DEF a
<1>4. Calm(k) /\ k.nop_timer = "off"
  BY <1>3 DEF Calm, TimerFields
<1> HIDE DEF k
<1>5. Calm(up) /\ up.nop_timer = "off" /\ up.state = "LOGGED_IN" /\ Pinged(up)
  BY <1>4, LoggedInPinged DEF Pinged
<1> HIDE DEF up
<1>6. \/ \E err : SetupFullFeaturePhase(t, f) = LoginEh(a, t.login, err, f)
      \/ SetupFullFeaturePhase(t, f) = NopOutTimer(up, "interval")
      \/ SetupFullFeaturePhase(t, f) = up
  BY DEF SetupFullFeaturePhase, up, k, a, n
<1>7. QED
  BY <1>3, <1>5, <1>6, LoginEhPinged, NopTimerPinged

(* session_conn_poll once a software session is connected *)
LEMMA ConnectedPinged ==
  ASSUME NEW t, Pinged(t), t.state = "XPT_WAIT", ~ Offload, NEW q, NEW f
  PROVE  Pinged(Connected(t, q, f))
<1> DEFINE a == [t EXCEPT !.login = None]
           g == KipcCall(a)
           b == IF t.id THEN a ELSE [g EXCEPT !.id = TRUE, !.k = "session"]
           c == IF t.id THEN a ELSE [b EXCEPT !.k = "conn"]
           h == KBindConn(c)
           d == [h EXCEPT !.login = q]
           e == [d EXCEPT !.state = "IN_LOGIN"]
           z == KipcCall(c)
<1>1. Calm(t) /\ t.nop_timer = "off"
  BY DEF Pinged
<1>2. Pinged(a) /\ Calm(a) /\ a.nop_timer = "off"
  BY <1>1 DEF Calm, Pinged, TimerFields
<1> HIDE DEF a
<1>3. Calm(g) /\ g.nop_timer = "off"
  BY <1>2, PlainAlike, AlikePinged DEF SameTimers
<1> HIDE DEF g
<1>4. Pinged(b) /\ Calm(b) /\ b.nop_timer = "off"
  BY <1>2, <1>3 DEF Calm, Pinged, TimerFields
<1> HIDE DEF b
<1>5. Calm(c) /\ c.nop_timer = "off"
  BY <1>2, <1>4 DEF Calm, TimerFields
<1> HIDE DEF c
<1>6. Calm(h) /\ h.nop_timer = "off" /\ Pinged(z)
  BY <1>5, PlainAlike, CallsAlike, AlikePinged DEF SameTimers, Pinged
<1> HIDE DEF h, z
<1>7. Pinged(d) /\ Pinged(e)
  BY <1>6 DEF Calm, Pinged, TimerFields
<1> HIDE DEF d, e
<1>8. \/ Connected(t, q, f) = e
      \/ Connected(t, q, f) = SessionConnShutdown(a, q, "err", f)
      \/ Connected(t, q, f) = SessionConnShutdown(b, q, "err", f)
      \/ Connected(t, q, f) = LoginEh(z, q, "LOGIN", f)
      \/ Connected(t, q, f) = LoginEh(d, q, "LOGIN", f)
      \/ Connected(t, q, f) = LoginEh(e, q, "LOGIN", f)
  BY DEF Connected, a, b, c, d, e, g, h, z
<1>9. QED
  BY <1>2, <1>4, <1>6, <1>7, <1>8, ShutdownPinged, LoginEhPinged

(* session_conn_poll *)
LEMMA PollPinged ==
  ASSUME NEW t, Pinged(t), ~ Offload, NEW q, NEW r, NEW f
  PROVE  Pinged(SessionConnPoll(t, q, r, f))
<1>1. EndpointCall(t) = t /\ Calm(t)
  BY DEF EndpointCall, Pinged
<1>2. CASE t.state # "XPT_WAIT"
  BY <1>2 DEF SessionConnPoll
<1>3. CASE t.state = "XPT_WAIT"
  <2>1. \/ SessionConnPoll(t, q, r, f) = Connected(t, q, f)
        \/ SessionConnPoll(t, q, r, f) = QueueDelayedReopen(t, q)
        \/ SessionConnPoll(t, q, r, f) = ScheduleTimer(t, "POLL", q)
        \/ SessionConnPoll(t, q, r, f) = LoginEh(t, q, "INTERNAL", f)
    BY <1>1, <1>3 DEF SessionConnPoll
  <2>2. QED
    BY <1>1, <1>3, <2>1, ConnectedPinged, PlainAlike, AlikePinged, LoginEhPinged
<1>4. QED
  BY <1>2, <1>3

(* iscsi_login_redirect *)
LEMMA RedirectPinged ==
  ASSUME NEW t, Calm(t), NEW to, NEW f
  PROVE  Pinged(LoginRedirect(t, to, f))
<1> DEFINE u == [t EXCEPT !.saddr = to, !.r_stage = IF @ = "NO_CHANGE" THEN "REDIRECT" ELSE @]
<1>1. Calm(u)
  BY DEF Calm, TimerFields
<1> HIDE DEF u
<1>2. QED
  BY <1>1, ReopenPinged DEF LoginRedirect, u

(* iscsi_recv_login_rsp *)
LEMMA LoginRspPinged ==
  ASSUME NEW t, Pinged(t), t.state = "IN_LOGIN", NEW reply, NEW to, NEW f
  PROVE  Pinged(RecvLoginRsp(t, reply, to, f))
<1> DEFINE m == [t EXCEPT !.failback = t.saddr]
           a == IF LoginResponseStatus(LoginRet(reply)) = "SUCCESS" THEN RecordMove(t, reply) ELSE t
           g == [a EXCEPT !.reopen_cnt = RetryMax]
<1>1. Pinged(m) /\ m.state = "IN_LOGIN"
  BY DEF Calm, Pinged, TimerFields
<1>2. Pinged(a) /\ Calm(a) /\ a.state = "IN_LOGIN"
  BY <1>1 DEF RecordMove, Pinged
<1> HIDE DEF a, m
<1>3. Pinged(g)
  BY <1>2 DEF Calm, Pinged, TimerFields
<1> HIDE DEF g
<1>4. \/ \E err : RecvLoginRsp(t, reply, to, f) = LoginEh(g, a.login, err, f)
      \/ \E err : RecvLoginRsp(t, reply, to, f) = LoginEh(a, a.login, err, f)
      \/ RecvLoginRsp(t, reply, to, f) = LoginRedirect(a, to, f)
      \/ RecvLoginRsp(t, reply, to, f) = SetupFullFeaturePhase(a, f)
      \/ RecvLoginRsp(t, reply, to, f) = KipcCall(a)
  BY DEF RecvLoginRsp, a, g
<1>5. Pinged(KipcCall(a))
  BY <1>2, PlainAlike, AlikePinged
<1>6. QED
  BY <1>2, <1>3, <1>4, <1>5, LoginEhPinged, RedirectPinged, FullFeaturePinged

(* iscsi_send_logout *)
LEMMA SendLogoutPinged ==
  ASSUME NEW t, Pinged(t), NEW f
  PROVE  Pinged(SendLogout(t, f))
<1> DEFINE c == KipcCall(t)
           a == IF t.state = "LOGGED_IN" THEN c ELSE t
           b == [a EXCEPT !.state = "IN_LOGOUT"]
<1>1. Pinged(c)
  BY PlainAlike, AlikePinged DEF Pinged
<1>2. Pinged(a)
  BY <1>1
<1> HIDE DEF a, c
<1>3. Pinged(b) /\ Calm(b)
  BY <1>2 DEF Calm, Pinged, TimerFields
<1> HIDE DEF b
<1>4. \/ SendLogout(t, f) = a
      \/ SendLogout(t, f) = b
      \/ SendLogout(t, f) = ScheduleTimer(b, "LOGOUT_TIMER", None)
  BY DEF SendLogout, a, b, c
<1>5. QED
  BY <1>2, <1>3, <1>4, PlainAlike, AlikePinged

(* iscsi_stop *)
LEMMA StopPinged ==
  ASSUME NEW t, Pinged(t), NEW f
  PROVE  Pinged(IscsiStop(t, f))
BY SendLogoutPinged, ShutdownPinged DEF IscsiStop

(* session_conn_recv_pdu in full feature phase: the timer is deleted before it is armed again. *)
LEMMA PduPinged ==
  ASSUME NEW t, Pinged(t), Erl = 0, t.state \in {"LOGGED_IN", "IN_LOGOUT"}, NEW pdu, NEW f, pdu \in Pdu
  PROVE  Pinged(RecvPdu(t, pdu, f))
<1> DEFINE o == [t EXCEPT !.nop_timer = "off"]
<1>1. Calm(o) /\ o.nop_timer = "off" /\ o.state = t.state
  BY DEF Calm, Pinged, TimerFields
<1>2. \A v : Pinged([t EXCEPT !.time2wait = v])
  BY DEF Calm, Pinged, TimerFields
<1> HIDE DEF o
<1>3. Pinged(NopOutTimer(o, "interval"))
  BY <1>1, NopTimerPinged
<1>4. Pinged(KipcCall(t))
  BY PlainAlike, AlikePinged DEF Pinged
<1>5. Pinged(RecvNopIn(t, pdu))
  BY <1>3, <1>4 DEF RecvNopIn, o
<1>6. Pinged(RecvLogoutRsp(t, pdu, f))
  BY <1>2, ErrorPinged DEF RecvLogoutRsp
<1>7. CASE pdu \in {"nop_rsp", "nop_req"}
  <2>1. RecvPdu(t, pdu, f) = RecvNopIn(t, pdu) \/ RecvPdu(t, pdu, f) = t
    BY <1>7 DEF RecvPdu
  <2>2. QED
    BY <1>5, <2>1
<1>8. CASE pdu \in {"logout_rsp", "logout_rsp_t2w", "logout_rsp_now"}
  <2>1. RecvPdu(t, pdu, f) = RecvLogoutRsp(t, pdu, f)
    BY <1>8 DEF RecvPdu
  <2>2. QED
    BY <1>6, <2>1
<1>9. CASE pdu \in {"async_logout", "async_drop_t2w", "async_drop_now", "async_nego"}
  <2>1. RecvPdu(t, pdu, f) = RecvAsyncMsg(t, pdu, f)
    BY <1>9 DEF RecvPdu
  <2>2. \/ RecvAsyncMsg(t, pdu, f) = SendLogout(t, f)
        \/ \E v : RecvAsyncMsg(t, pdu, f) = [t EXCEPT !.time2wait = v]
        \/ RecvAsyncMsg(t, pdu, f) = ConnErrorHandle(t, f)
    BY <1>9 DEF RecvAsyncMsg
  <2>3. QED
    BY <1>2, <2>1, <2>2, SendLogoutPinged, ErrorPinged
<1>10. CASE pdu = "other"
  <2>1. RecvPdu(t, pdu, f) = t
    BY <1>10 DEF RecvPdu
  <2>2. QED
    BY <2>1
<1>11. QED
  BY <1>7, <1>8, <1>9, <1>10 DEF Pdu

(* conn_send_nop_out *)
LEMMA NopOutPinged ==
  ASSUME NEW t, Calm(t), t.nop_timer = "off", t.state \in {"LOGGED_IN", "IN_LOGOUT"}
  PROVE  Pinged(ConnSendNopOut(t))
<1> DEFINE u == KipcCall(t)
<1>1. Calm(u) /\ u.nop_timer = "off" /\ u.state = t.state
  BY PlainAlike, AlikePinged DEF SameTimers
<1> HIDE DEF u
<1>2. Pinged(t) /\ Pinged(NopOutTimer(u, "timeout"))
  BY <1>1, NopTimerPinged DEF Pinged
<1>3. QED
  BY <1>2 DEF ConnSendNopOut, u

(* A new session has no timers. *)
LEMMA FreshCalm ==
  ASSUME NEW t, Calm(t)
  PROVE  Pinged(Fresh(t)) /\ Calm(Fresh(t)) /\ Fresh(t).nop_timer = "off"
BY DEF Fresh, Calm, Pinged, TimerFields

(* __session_login_task *)
LEMMA StartPinged ==
  ASSUME NEW t, Calm(t), NEW r, NEW f
  PROVE  Pinged(StartLogin(t, r, f))
<1> DEFINE a == Fresh(t)
           b == [a EXCEPT !.live = TRUE, !.state = "XPT_WAIT"]
<1>1. Calm(a) /\ a.nop_timer = "off"
  BY FreshCalm
<1> HIDE DEF a
<1>2. Pinged(b) /\ Calm(b)
  BY <1>1 DEF Calm, Pinged, TimerFields
<1> HIDE DEF b
<1>3. QED
  BY <1>2, ConnectAlike, AlikePinged DEF StartLogin, a, b

(* session_login_task and session_login_task_retry *)
LEMMA LoginTaskPinged ==
  ASSUME NEW t, Pinged(t), NEW r, NEW f
  PROVE  Pinged(SessionLoginTask(t, r, f)) /\ Pinged(SessionLoginTaskRetry(t, r, f))
<1> DEFINE a == [t EXCEPT !.retry[r] = 0]
<1>1. Calm(t)
  BY DEF Pinged
<1>2. \A v : Pinged([t EXCEPT !.retry[r] = v])
  BY DEF Calm, Pinged, TimerFields
<1>3. Pinged([t EXCEPT !.retry[r] = @ + 1])
  BY DEF Calm, Pinged, TimerFields
<1>4. Pinged(a) /\ Calm(a)
  BY <1>2 DEF Pinged
<1> HIDE DEF a
<1>5. Pinged(WriteRsp(t, r, "err")) /\ Pinged(WriteRsp(a, r, "err"))
  BY <1>1, <1>4, PlainAlike, AlikePinged
<1>6. Pinged(StartLogin(t, r, f)) /\ Pinged(StartLogin(a, r, f))
  BY <1>1, <1>4, StartPinged
<1>7. Pinged(SessionLoginTask(t, r, f))
  <2>1. \/ SessionLoginTask(t, r, f) = StartLogin(t, r, f)
        \/ SessionLoginTask(t, r, f) = [t EXCEPT !.retry[r] = 1]
        \/ SessionLoginTask(t, r, f) = WriteRsp(t, r, "err")
    BY DEF SessionLoginTask
  <2>2. QED
    BY <1>2, <1>5, <1>6, <2>1
<1>8. Pinged(SessionLoginTaskRetry(t, r, f))
  BY <1>3, <1>5, <1>6 DEF SessionLoginTaskRetry, a
<1>9. QED
  BY <1>7, <1>8

(* iscsi_sync_session *)
LEMMA SyncPinged ==
  ASSUME NEW t, Pinged(t), NEW r, NEW f
  PROVE  Pinged(SyncSession(t, r, f))
<1> DEFINE a == Fresh(t)
           b == [a EXCEPT !.live = TRUE, !.id = TRUE, !.state = "CLEANUP_WAIT",
                          !.r_stage = "REOPEN", !.notify = r, !.nl = t.nl]
<1>1. Calm(t) /\ Calm(a)
  BY FreshCalm DEF Pinged
<1> HIDE DEF a
<1>2. Calm(b)
  BY <1>1 DEF Calm, TimerFields
<1> HIDE DEF b
<1>3. Pinged(SessionConnReopen(b, r, TRUE, f)) /\ Pinged(WriteRsp(t, r, "err"))
  BY <1>1, <1>2, FallbackPinged, PlainAlike, AlikePinged
<1>4. QED
  BY <1>3 DEF SyncSession, a, b

(* session_logout_task *)
LEMMA LogoutTaskPinged ==
  ASSUME NEW t, Pinged(t), NEW r, NEW f
  PROVE  Pinged(SessionLogoutTask(t, r, f))
<1> DEFINE a == [t EXCEPT !.logout = r]
           b == KipcCall(a)
           c == IF Offload THEN b ELSE SendLogout(b, f)
<1>1. Pinged(a)
  BY DEF Calm, Pinged, TimerFields
<1> HIDE DEF a
<1>2. Pinged(b)
  BY <1>1, PlainAlike, AlikePinged DEF Pinged
<1> HIDE DEF b
<1>3. Pinged(c)
  BY <1>2, SendLogoutPinged
<1> HIDE DEF c
<1>4. ASSUME NEW u, Pinged(u) PROVE Pinged(DropForLogout(u, r, f))
  <2> DEFINE v == SessionConnShutdown(u, r, "ok", f)
  <2>1. Pinged(v)
    BY <1>4, ShutdownPinged
  <2> HIDE DEF v
  <2>2. Pinged(WriteRsp(v, r, "err"))
    BY <2>1, PlainAlike, AlikePinged DEF Pinged
  <2>3. QED
    BY <2>1, <2>2 DEF DropForLogout, v
<1>5. Pinged([b EXCEPT !.unbinding = TRUE])
  BY <1>2 DEF Calm, Pinged, TimerFields
<1>6. Pinged(WriteRsp(t, r, "err"))
  BY PlainAlike, AlikePinged DEF Pinged
<1>7. Pinged(DropForLogout(a, r, f)) /\ Pinged(DropForLogout(c, r, f))
  BY <1>1, <1>3, <1>4
<1>8. QED
  BY <1>3, <1>5, <1>6, <1>7 DEF SessionLogoutTask, a, b, c

(* The contexts and timers that go before their handlers run, and the new requests *)
LEMMA TakenAlike ==
  ASSUME NEW t, Calm(t), NEW v, NEW w, NEW x
  PROVE  /\ SameTimers(t, [t EXCEPT !.pool = v, !.ready = w])
         /\ SameTimers(t, [t EXCEPT !.req[x] = v, !.kind[x] = w])
         /\ SameTimers(t, [t EXCEPT !.login_timer = v])
         /\ SameTimers(t, [t EXCEPT !.late = v])
BY DEF SameTimers, Calm, TimerFields

(* Every action keeps the discipline: requests, *)
LEMMA RequestsPinged ==
  ASSUME Pinged(s), Requests \/ ReadNetlink
  PROVE  Pinged(s')
<1>1. Calm(s)
  BY DEF Pinged
<1>2. \A r, kind : Pinged(Open(s, r, kind))
  BY <1>1, TakenAlike, AlikePinged DEF Open
<1>3. CASE ReadNetlink
  BY <1>1, <1>3, CallsAlike, AlikePinged DEF ReadNetlink
<1>4. ASSUME NEW r \in Req, SessionLogin(r) \/ SessionLogout(r) \/ SessionSync(r) PROVE Pinged(s')
  BY <1>2, <1>4, LoginTaskPinged, LogoutTaskPinged, SyncPinged DEF SessionLogin, SessionLogout, SessionSync
<1>5. QED
  BY <1>3, <1>4 DEF Requests

(* contexts, *)
LEMMA ContextsPinged ==
  ASSUME Pinged(s), ~ Offload, Erl = 0, Contexts
  PROVE  Pinged(s')
<1>1. Calm(s)
  BY DEF Pinged
<1>2. SameTimers(s, Taken)
  BY <1>1, TakenAlike DEF Taken
<1>3. Pinged(Taken) /\ Taken.state = s.state
  BY <1>2, AlikePinged DEF SameTimers
<1>4. CASE RunPoll
  BY <1>3, <1>4, PollPinged DEF RunPoll
<1>5. CASE RunRecvPdu
  BY <1>3, <1>5, LoginRspPinged, PduPinged DEF RunRecvPdu
<1>6. CASE RunError
  BY <1>3, <1>6, ErrorPinged DEF RunError
<1>7. CASE RunInvalidHost
  BY <1>3, <1>7, ShutdownPinged DEF RunInvalidHost
<1>8. ASSUME NEW ok \in BOOLEAN, RunLogin(ok) PROVE Pinged(s')
  <2>1. \A f : SessionConnProcessLogin(Taken, ok, f) = Taken
    BY DEF SessionConnProcessLogin
  <2>2. QED
    BY <1>3, <1>8, <2>1 DEF RunLogin
<1>9. CASE RunStop
  BY <1>3, <1>9, StopPinged DEF RunStop
<1>10. QED
  BY <1>4, <1>5, <1>6, <1>7, <1>8, <1>9 DEF Contexts

(* timers, *)
LEMMA TimersPinged ==
  ASSUME Pinged(s), ~ Offload, Erl = 0,
         \/ LoginTimerFires \/ NopTimerFires \/ PollTimerFires \/ LogoutTimerFires
         \/ \E r \in Req : RetryTimerFires(r)
         \/ InitialLoginLate
  PROVE  Pinged(s')
<1>1. Calm(s)
  BY DEF Pinged
<1>2. CASE LoginTimerFires
  <2>1. Pinged([s EXCEPT !.login_timer = None])
    BY <1>1, TakenAlike, AlikePinged
  <2>2. QED
    BY <1>2, <2>1, LoginEhPinged DEF LoginTimerFires
<1>3. CASE NopTimerFires
  <2> DEFINE t == [s EXCEPT !.nop_timer = "off"]
  <2>1. s.state \in {"LOGGED_IN", "IN_LOGOUT"}
    BY <1>3 DEF NopTimerFires, Pinged
  <2>2. Calm(t) /\ Pinged(t) /\ t.nop_timer = "off" /\ t.state = s.state
    BY <1>1 DEF Calm, Pinged, TimerFields
  <2>3. s' = ConnSendNopOut(t) \/ \E f : s' = ConnErrorHandle(t, f)
    BY <1>3 DEF NopTimerFires
  <2> HIDE DEF t
  <2>4. QED
    BY <2>1, <2>2, <2>3, NopOutPinged, ErrorPinged
<1>4. ASSUME NEW c, NEW f, NEW r, s' = SessionConnPoll([s EXCEPT !.pend = @ \ {c}, !.pool = @ - 1], c.q, r, f) PROVE Pinged(s')
  <2>1. Pinged([s EXCEPT !.pend = @ \ {c}, !.pool = @ - 1])
    BY DEF Calm, Pinged, TimerFields
  <2>2. QED
    BY <1>4, <2>1, PollPinged
<1>5. ASSUME NEW c, NEW f, s' = ConnErrorHandle([s EXCEPT !.pend = @ \ {c}, !.pool = @ - 1], f) PROVE Pinged(s')
  <2>1. Pinged([s EXCEPT !.pend = @ \ {c}, !.pool = @ - 1])
    BY DEF Calm, Pinged, TimerFields
  <2>2. QED
    BY <1>5, <2>1, ErrorPinged
<1>6. ASSUME NEW r \in Req, RetryTimerFires(r) PROVE Pinged(s')
  BY <1>6, LoginTaskPinged DEF RetryTimerFires
<1>7. CASE InitialLoginLate
  BY <1>1, <1>7, TakenAlike, AlikePinged DEF InitialLoginLate
<1>8. QED
  BY <1>2, <1>3, <1>4, <1>5, <1>6, <1>7 DEF PollTimerFires, LogoutTimerFires

(* events of the kernel, and a restart. *)
LEMMA KernelPinged ==
  ASSUME Pinged(s), KernelEvents \/ Crash
  PROVE  Pinged(s')
<1>1. Calm(s)
  BY DEF Pinged
<1>2. \A ev : Pinged(Queue(s, ev)) /\ Calm(Queue(s, ev))
  BY DEF Queue, Calm, Pinged, TimerFields
<1> DEFINE K(ev, v) == [Queue(s, ev) EXCEPT !.k = v]
           U(ev, v) == [Queue(s, ev) EXCEPT !.unbinding = v]
<1>3. \A ev, v : Pinged(K(ev, v)) /\ Pinged(U(ev, v))
  <2>1. ASSUME NEW t, Pinged(t), NEW v PROVE Pinged([t EXCEPT !.k = v]) /\ Pinged([t EXCEPT !.unbinding = v])
    BY <2>1 DEF Calm, Pinged, TimerFields
  <2>2. QED
    BY <1>2, <2>1
<1>4. CASE KernelEvents
  <2>1. \/ \E ev : s' = Queue(s, ev)
        \/ \E ev, v : s' = K(ev, v)
        \/ \E ev, v : s' = U(ev, v)
    BY <1>4 DEF KernelEvents, KernelPdu, KernelError, KernelLogin, KernelUnbound, KernelHostRemoved
  <2> HIDE DEF K, U
  <2>2. QED
    BY <1>2, <1>3, <2>1
<1>5. CASE Crash
  <2> DEFINE a == Fresh(s)
  <2>1. Calm(a) /\ a.nop_timer = "off"
    BY <1>1, FreshCalm
  <2>2. s' = [a EXCEPT !.retry = [r \in Req |-> 0], !.req = [r \in Req |-> IF @[r] = "open" THEN "err" ELSE @[r]]]
    BY <1>5 DEF Crash
  <2> HIDE DEF a
  <2>3. QED
    BY <2>1, <2>2 DEF Calm, Pinged, TimerFields
<1>6. QED
  BY <1>4, <1>5

(* At the start no timer is armed. *)
LEMMA InitPinged == Init => Pinged(s)
BY SMTT(30) DEF Init, Pinged, Calm, TimerFields

(* Every step keeps the discipline. *)
LEMMA NextPinged ==
  ASSUME Pinged(s), ~ Offload, Erl = 0, Next
  PROVE  Pinged(s')
BY RequestsPinged, ContextsPinged, TimersPinged, KernelPinged DEF Next

(* No timer outlives the session that it belongs to, the ping timer is armed only on an established       *)
(* connection and never while it is armed: conn_delete_timers is called on every path that needs it, also *)
(* when any kernel call fails, hosts disappear and iscsid is restarted.                                   *)
THEOREM TimersAreKept == Spec /\ ~ Offload /\ Erl = 0 => []TimerDiscipline
<1> DEFINE I == Good(s) /\ Pinged(s) /\ ~ Offload /\ Erl = 0
<1>1. Init /\ ~ Offload /\ Erl = 0 => I
  BY InitGood, InitPinged
<1>2. I /\ [Next]_s => I'
  <2>1. ASSUME I, Next PROVE I'
    <3>1. Good(s') /\ Pinged(s')
      BY <2>1, NextGood, NextPinged
    <3>2. s'.setup = s.setup
      BY <3>1 DEF Good
    <3>3. Good(s)'
      BY <3>1, <3>2 DEF Good
    <3>4. QED
      BY <2>1, <3>1, <3>2, <3>3 DEF Offload, Pinged, Calm
  <2>2. ASSUME I, UNCHANGED s PROVE I'
    BY <2>2 DEF Good, Offload, Pinged, Calm
  <2>3. QED
    BY <2>1, <2>2
<1>3. I => TimerDiscipline
  BY DEF Pinged, Calm, TimerDiscipline
<1> HIDE DEF I
<1>4. QED
  BY <1>1, <1>2, <1>3, PTL DEF Spec
==============================================================================
