------------------------- MODULE SessionSteps_proofs -------------------------
(* What the handlers of a software session's contexts and timers do to the requests: errors, the steps of a *)
(* login, PDUs and pings settle what they were about.                                                       *)
EXTENDS Session_proofs

USE ZenonT(60)

(* Requests that nothing happened to are held as before. *)
LEMMA ReqsAlike ==
  ASSUME NEW t, NEW u, NEW H, NEW I, u.req = t.req, u.kind = t.kind, u.retry = t.retry,
         \A r \in Req : r \in H <=> r \in I, ReqsFor(t, H)
  PROVE  ReqsFor(u, I)
<1>1. \A r \in Req : u.req[r] = t.req[r] /\ u.kind[r] = t.kind[r] /\ u.retry[r] = t.retry[r]
  OBVIOUS
<1>2. QED
  BY <1>1 DEF ReqsFor

(***************************************************************************)
(* Errors, and the end of a login.                                         *)
(***************************************************************************)
(* A handler may begin with something that answers nobody. *)
LEMMA SettledFrom ==
  ASSUME NEW t, NEW a, NEW u, NEW q, a.req = t.req, a.live = t.live, Settled(a, u, q) PROVE Settled(t, u, q)
BY DEF Settled, Truthful, Clean

(* A kernel call does not disturb the login. *)
LEMMA MidKept ==
  ASSUME NEW t, NEW a, NEW q, Mid(t, q), Kept(t, a), NoNew(t, a), NlUnmarked(a) PROVE Mid(a, q)
<1>1. Awaits(a, q) /\ a.live /\ a.logout = None
  BY DEF Mid, Awaits, Kept
<1>2. ReqsFor(a, {q}) /\ LoginKind(a, q)
  BY DEF Mid, ReqsFor, LoginKind, Kept
<1>3. Tracked(a)
  BY DEF Mid, Tracked, NoNew, Kept, SessionEvent
<1>4. QED
  BY <1>1, <1>2, <1>3 DEF Mid

(* iscsi_login_eh *)
LEMMA LoginEhSettles ==
  ASSUME NEW t, Good(t), NEW q, Mid(t, q), NEW f, Works(f), NEW err, t.state \in {"XPT_WAIT", "IN_LOGIN"},
         t.state = "XPT_WAIT" => t.k = (IF t.id THEN "conn" ELSE "none") /\ Hushed(t),
         t.state = "IN_LOGIN" => t.id /\ t.k = "bound"
  PROVE  Settled(t, LoginEh(t, q, err, f), q)
<1> DEFINE a == FlushContextPool(t)
           u == LoginEh(t, q, err, f)
           stop == t.state # "XPT_WAIT" \/ (t.r_stage = "NO_CHANGE" /\ t.id)
<1>1. Good(a) /\ Kept(t, a) /\ a.state = t.state /\ a.k = t.k /\ a.nl = t.nl /\ a.ready = <<>>
  BY FlushOut
<1>2. u = SessionConnShutdown(a, q, "err", f) \/ u = SessionConnReopen(a, q, stop, f)
  <2>1. t.r_stage # "DESTOYED"
    BY DEF Mid, Awaits
  <2>2. QED
    BY <2>1 DEF LoginEh
<1> HIDE DEF a, u
<1>3. NoNew(t, a)
  BY <1>1, SMTT(30) DEF NoNew, Has
<1>4. Mid(a, q)
  <2>1. NlUnmarked(a)
    BY <1>1 DEF Mid, NlUnmarked
  <2>2. QED
    BY <1>1, <1>3, <2>1, MidKept
<1>5. a.id = t.id /\ a.live = t.live /\ a.req = t.req
  BY <1>1 DEF Kept
<1>6. CASE u = SessionConnShutdown(a, q, "err", f)
  <2>1. ~ a.id => a.k = "none"
    BY <1>1, <1>5
  <2>2. Freed(a, u, q, "err")
    BY <1>1, <1>6, <2>1, ShutdownOut
  <2>3. Forgets \/ ~ a.unbinding
    BY <1>4 DEF Mid, Tracked
  <2>4. ReqsFor(a, {q})
    BY <1>4 DEF Mid
  <2>5. Settled(a, u, q)
    BY <2>2, <2>3, <2>4, FreedSettles
  <2>6. QED
    BY <1>5, <2>5, SettledFrom DEF u
<1>7. CASE u = SessionConnReopen(a, q, stop, f)
  <2>1. q \in Qtask
    BY DEF Mid, Awaits
  <2>2. stop \in BOOLEAN
    OBVIOUS
  <2>3. stop => a.k \notin {"none", "session"} /\ a.id
    BY <1>1, <1>5
  <2>4. ~ stop => a.k = (IF a.id THEN "conn" ELSE "none") /\ Hushed(a)
    BY <1>1, <1>5 DEF Hushed
  <2> HIDE DEF stop
  <2>5. Reopened(a, u, q, stop)
    BY <1>1, <1>7, <2>1, <2>2, <2>3, FailbackReopenOut
  <2>6. Settled(a, u, q)
    BY <1>4, <2>3, <2>4, <2>5, ReopenedSettles
  <2>7. QED
    BY <1>5, <2>6, SettledFrom DEF u
<1>8. QED
  BY <1>2, <1>6, <1>7 DEF u

(* __conn_error_handle *)
LEMMA ErrorSettles ==
  ASSUME NEW t, Good(t), Base(t), NEW f, Works(f)
  PROVE  Settled(t, ConnErrorHandle(t, f), t.login_timer)
<1> DEFINE rs == IF Erl > 0 THEN t.r_stage ELSE "REOPEN"
           e == [t EXCEPT !.state = "CLEANUP_WAIT"]
           failed == [e EXCEPT !.r_stage = rs]
           u == ConnErrorHandle(t, f)
<1>1. t.state \in ConnState /\ t.r_stage \in RStage
  BY TypedRecord DEF Good, FieldTypes
<1>2. CASE t.logout # None
  <2>1. u = SessionConnShutdown(t, t.logout, "ok", f)
    BY <1>2 DEF ConnErrorHandle
  <2>2. t.state \in {"LOGGED_IN", "IN_LOGOUT"}
    BY <1>1, <1>2, NobodyLogsOut
  <2> HIDE DEF u
  <2>3. Settled(t, u, t.login_timer)
    BY <2>1, <2>2, LogoutSettles, SMTT(30)
  <2>4. QED
    BY <2>3 DEF u
<1>3. CASE t.logout = None /\ t.state \in {"LOGGED_IN", "IN_LOGOUT"}
  <2>1. Good(e)
    BY SetState DEF ConnState
  <2>2. Sets(t, e, "state", "CLEANUP_WAIT")
    BY FieldSet
  <2>3. [t EXCEPT !.state = "CLEANUP_WAIT", !.r_stage = IF Erl > 0 THEN @ ELSE "REOPEN"] = failed
    OBVIOUS
  <2>4. rs \in RStage
    BY <1>1 DEF RStage
  <2> HIDE DEF e, rs
  <2>5. Good(failed)
    BY <2>1, <2>4, SetStage
  <2>6. Sets(e, failed, "r_stage", rs)
    BY <2>1, FieldSet
  <2>7. u = IF failed.r_stage = "REOPEN" THEN SessionConnReopen(failed, ReopenQ, TRUE, f) ELSE failed
    BY <1>3, <2>3 DEF ConnErrorHandle
  <2> HIDE DEF failed, u
  <2>8. /\ failed.state = "CLEANUP_WAIT" /\ failed.live = t.live /\ failed.id = t.id /\ failed.notify = t.notify
        /\ failed.logout = t.logout /\ failed.req = t.req /\ failed.kind = t.kind /\ failed.retry = t.retry
        /\ failed.unbinding = t.unbinding
    BY <2>2, <2>6 DEF Sets, Fields
  <2>9. /\ failed.ready = t.ready /\ failed.nl = t.nl /\ failed.pend = t.pend /\ failed.k = t.k
        /\ failed.login_timer = t.login_timer
    BY <2>2, <2>6 DEF Sets, Fields
  <2>10. t.live /\ t.id /\ t.k = "started" /\ t.notify = None /\ t.login_timer = None /\ NoPoll(t) /\ ReqsFor(t, {t.logout})
    BY <1>3, UpFacts
  <2>11. Tracked(failed) /\ NlUnmarked(failed)
    BY <2>8, <2>9 DEF Base, Tracked, NlUnmarked, Has
  <2>12. CASE failed.r_stage = "REOPEN"
    <3>1. Awaits(failed, ReopenQ)
      BY <2>8, <2>10, <2>12 DEF Awaits, Qtask
    <3>2. ReqsFor(failed, {ReopenQ}) /\ LoginKind(failed, ReopenQ)
      <4>1. \A r \in Req : r \notin {ReopenQ} /\ r \notin {t.logout}
        BY <1>3, ReqAssumption
      <4>2. QED
        BY <2>8, <2>10, <4>1, ReqsAlike DEF LoginKind
    <3>3. Mid(failed, ReopenQ)
      BY <1>3, <2>8, <2>10, <2>11, <3>1, <3>2 DEF Mid
    <3>4. ReopenQ \in Qtask /\ failed.k \notin {"none", "session"} /\ failed.id
      BY <2>8, <2>9, <2>10 DEF Qtask
    <3>5. Reopened(failed, u, ReopenQ, TRUE)
      BY <2>5, <2>7, <2>12, <3>4, FailbackReopenOut
    <3>6. Settled(failed, u, ReopenQ)
      BY <3>3, <3>4, <3>5, ReopenedSettles
    <3>7. Settled(t, u, ReopenQ)
      BY <2>8, <3>6, SettledFrom
    <3>8. QED
      BY <2>10, <3>7, ReqAssumption DEF Settled, Clean, u
  <2>13. CASE failed.r_stage # "REOPEN"
    <3>1. Broken(failed)
      BY <1>3, <2>8, <2>9, <2>10 DEF Broken, NoPoll
    <3>2. Phase(failed)
      BY <2>8, <3>1 DEF Phase
    <3>3. ReqsFor(failed, {failed.login_timer, failed.logout}) /\ LoginKind(failed, failed.login_timer)
          /\ LogoutKind(failed, failed.logout)
      <4>1. ReqsFor(t, {t.login_timer, t.logout}) /\ LoginKind(t, t.login_timer) /\ LogoutKind(t, t.logout)
        BY DEF Base
      <4>2. ReqsFor(failed, {failed.login_timer, failed.logout})
        BY <2>8, <2>9, <4>1, ReqsAlike, SMTT(30)
      <4>3. QED
        BY <2>8, <2>9, <4>1, <4>2 DEF LoginKind, LogoutKind
    <3>4. Inv(failed)
      BY <1>3, <2>8, <2>9, <2>10, <2>11, <3>2, <3>3 DEF Inv, Base, Sup
    <3>5. QED
      BY <2>7, <2>8, <2>13, <3>4, Unanswered DEF u
  <2>14. QED
    BY <2>12, <2>13
<1>4. CASE t.logout = None /\ t.state = "IN_LOGIN" /\ t.r_stage = "REOPEN"
  <2>1. Mid(t, t.login_timer) /\ t.id /\ t.k = "bound"
    BY <1>4, LoginUnderWay
  <2>2. t.login_timer = IF t.notify # None THEN t.notify ELSE ReopenQ
    BY <1>4, <2>1 DEF Mid, Awaits
  <2>3. u = LoginEh(t, t.login_timer, "TRANS", f)
    BY <1>4, <2>2 DEF ConnErrorHandle
  <2>4. Settled(t, LoginEh(t, t.login_timer, "TRANS", f), t.login_timer)
    <3>1. t.state # "XPT_WAIT" /\ t.state \in {"XPT_WAIT", "IN_LOGIN"}
      BY <1>4
    <3>2. QED
      BY <2>1, <3>1, LoginEhSettles, SMTT(30)
  <2>5. QED
    BY <2>3, <2>4
<1>5. CASE t.logout = None /\ t.state \notin {"LOGGED_IN", "IN_LOGOUT"} /\ ~ (t.state = "IN_LOGIN" /\ t.r_stage = "REOPEN")
  <2>1. u = t
    BY <1>5 DEF ConnErrorHandle
  <2>2. QED
    BY <1>1, <1>5, <2>1, NobodyLogsOut, Unanswered
<1>6. QED
  BY <1>2, <1>3, <1>4, <1>5

(* The ping timer does not matter, *)
LEMMA NopAlike == ASSUME NEW t, Good(t), NEW callback PROVE Alike(t, NopOutTimer(t, callback))
<1>1. Shaped(t)
  BY DEF Good, Typed
<1>2. \A x \in Fields \ {"nop_timer", "relinked"} : NopOutTimer(t, callback)[x] = t[x]
  BY <1>1 DEF NopOutTimer, Shaped
<1>3. QED
  BY <1>2 DEF Fields, Alike, Kept

(* nor do the other fields that the invariant does not mention, *)
LEMMA InvAlike ==
  ASSUME NEW t, NEW u, Alike(t, u)
  PROVE  (Base(t) => Base(u)) /\ (Sup(t) => Sup(u))
<1>1. /\ u.state = t.state /\ u.login = t.login /\ u.login_timer = t.login_timer /\ u.ready = t.ready
      /\ u.pend = t.pend /\ u.k = t.k /\ u.nl = t.nl /\ u.dropped = t.dropped
  BY DEF Alike
<1>2. /\ u.live = t.live /\ u.id = t.id /\ u.r_stage = t.r_stage /\ u.notify = t.notify
      /\ u.logout = t.logout /\ u.req = t.req /\ u.kind = t.kind /\ u.retry = t.retry
      /\ u.unbinding = t.unbinding
  BY DEF Alike, Kept
<1>3. ASSUME Base(t) PROVE Base(u)
  <2>1. NlUnmarked(u) /\ Tracked(u)
    BY <1>1, <1>2, <1>3 DEF Base, NlUnmarked, Tracked, Has
  <2>2. ReqsFor(u, {u.login_timer, u.logout}) /\ LoginKind(u, u.login_timer) /\ LogoutKind(u, u.logout)
    <3>1. ReqsFor(t, {t.login_timer, t.logout}) /\ LoginKind(t, t.login_timer) /\ LogoutKind(t, t.logout)
      BY <1>3 DEF Base
    <3>2. QED
      BY <1>1, <1>2, <3>1, SMTT(30) DEF ReqsFor, LoginKind, LogoutKind
  <2>3. Waiting(t) => Waiting(u)
    <3>1. Awaits(t, t.login_timer) => Awaits(u, u.login_timer)
      BY <1>1, <1>2 DEF Awaits
    <3>2. PollsFor(t, t.login_timer) /\ Order(t) /\ Hushed(t) => PollsFor(u, u.login_timer) /\ Order(u) /\ Hushed(u)
      BY <1>1 DEF PollsFor, Order, Hushed, Cleared
    <3>3. QED
      BY <1>1, <1>2, <3>1, <3>2 DEF Waiting
  <2>4. NoPoll(t) /\ Unmarked(t) => NoPoll(u) /\ Unmarked(u)
    BY <1>1 DEF NoPoll, Unmarked
  <2>5. LoggingIn(t) => LoggingIn(u)
    BY <1>1, <1>2, <2>4 DEF LoggingIn, Awaits
  <2>6. Up(t) => Up(u)
    BY <1>1, <1>2, <2>4 DEF Up
  <2>7. (Broken(t) => Broken(u)) /\ (Gone(t) => Gone(u))
    BY <1>1, <1>2 DEF Broken, Gone, NoPoll
  <2>8. Phase(u)
    BY <1>1, <1>3, <2>3, <2>5, <2>6, <2>7 DEF Base, Phase
  <2>9. QED
    BY <1>1, <1>3, <2>1, <2>2, <2>8 DEF Base
<1>4. Sup(t) => Sup(u)
  BY <1>1, <1>2 DEF Sup, StopComes, Has
<1>5. QED
  BY <1>3, <1>4

(* at the end of a handler either. *)
LEMMA SettledAlike ==
  ASSUME NEW t, NEW a, NEW u, NEW q, Settled(t, a, q), Alike(a, u) PROVE Settled(t, u, q)
<1>1. Inv(u)
  BY InvAlike DEF Settled, Inv
<1>2. u.state = a.state /\ u.k = a.k /\ u.live = a.live /\ u.req = a.req /\ u.kind = a.kind
  BY DEF Alike, Kept
<1>3. QED
  BY <1>1, <1>2 DEF Settled, Truthful, Clean

(* What LoggedIn makes of a connection that is up. *)
LEMMA LoggedInOut ==
  ASSUME NEW t, Good(t), NEW f, Works(f), NEW u, u = LoggedIn(t, f), Awaits(t, t.login)
  PROVE  /\ u.live = t.live /\ u.id = t.id /\ u.logout = t.logout /\ u.kind = t.kind /\ u.retry = t.retry
         /\ u.unbinding = t.unbinding /\ u.login_timer = t.login_timer /\ u.ready = t.ready
         /\ u.pend = t.pend /\ u.k = t.k /\ u.nl = t.nl
         /\ u.notify = None /\ u.state = "LOGGED_IN"
         /\ \E rsp \in {"ok", "err"} : (Forks => rsp = "ok") /\ Replied(t, u, t.login, rsp)
<1> DEFINE n == [t EXCEPT !.notify = None]
           rsp == IF t.r_stage \in {"NO_CHANGE", "REDIRECT"} /\ "fork" \in f THEN "err" ELSE "ok"
           a == IF t.r_stage \in {"NO_CHANGE", "REDIRECT"} THEN t ELSE n
           b == WriteRsp(a, t.login, rsp)
<1>1. u = [b EXCEPT !.state = "LOGGED_IN", !.reopen_cnt = 0, !.r_stage = "NO_CHANGE"]
  BY DEF LoggedIn, ScanHost
<1>2. Good(n) /\ Sets(t, n, "notify", None)
  BY SetOwner, FieldSet
<1>3. rsp \in {"ok", "err"} /\ (Forks => rsp = "ok")
  BY DEF Works
<1> HIDE DEF n, rsp
<1>4. Good(a) /\ a.notify = None /\ \A x \in Fields \ {"notify"} : a[x] = t[x]
  <2>1. t.r_stage \in {"NO_CHANGE", "REDIRECT"} => t.notify = None
    BY DEF Awaits
  <2>2. QED
    BY <1>2, <2>1 DEF Sets
<1>5. b = WriteRsp(a, t.login, rsp)
  OBVIOUS
<1> HIDE DEF a, b
<1>6. Good(b) /\ Only(a, b, {"req"}) /\ Replied(a, b, t.login, rsp)
  BY <1>3, <1>4, <1>5, AnswerOut
<1>7. u.state = "LOGGED_IN" /\ \A x \in Fields \ {"state", "reopen_cnt", "r_stage"} : u[x] = b[x]
  <2>1. Shaped(b)
    BY <1>6 DEF Good, Typed
  <2>2. QED
    BY <1>1, <2>1 DEF Shaped, Fields
<1>8. \A x \in Fields \ {"notify", "req", "state", "reopen_cnt", "r_stage"} : u[x] = t[x]
  BY <1>4, <1>6, <1>7 DEF Only
<1>9. /\ u.live = t.live /\ u.id = t.id /\ u.logout = t.logout /\ u.kind = t.kind /\ u.retry = t.retry
      /\ u.unbinding = t.unbinding /\ u.login_timer = t.login_timer /\ u.ready = t.ready
      /\ u.pend = t.pend /\ u.k = t.k /\ u.nl = t.nl
  BY <1>8 DEF Fields
<1>10. u.notify = None /\ u.req = b.req /\ a.req = t.req
  BY <1>4, <1>6, <1>7 DEF Fields, Only
<1>11. Replied(t, u, t.login, rsp)
  BY <1>6, <1>10 DEF Replied
<1>12. QED
  BY <1>3, <1>7, <1>9, <1>10, <1>11

(* The login is answered once the connection is up. *)
LEMMA LoggedInSettles ==
  ASSUME NEW t, Good(t), NEW f, Works(f), Mid(t, t.login), t.id, t.k = "started", t.login_timer = None,
         NoPoll(t), Unmarked(t)
  PROVE  Settled(t, LoggedIn(t, f), t.login)
<1> DEFINE u == LoggedIn(t, f)
           q == t.login
<1>1. Awaits(t, q) /\ t.live /\ t.logout = None /\ ReqsFor(t, {q}) /\ LoginKind(t, q)
  BY DEF Mid
<1>2. /\ u.live = t.live /\ u.id = t.id /\ u.logout = t.logout /\ u.kind = t.kind /\ u.retry = t.retry
      /\ u.unbinding = t.unbinding /\ u.login_timer = t.login_timer /\ u.ready = t.ready
      /\ u.pend = t.pend /\ u.k = t.k /\ u.nl = t.nl
      /\ u.notify = None /\ u.state = "LOGGED_IN"
      /\ \E rsp \in {"ok", "err"} : (Forks => rsp = "ok") /\ Replied(t, u, q, rsp)
  BY <1>1, LoggedInOut
<1> HIDE DEF u
<1>3. PICK rsp \in {"ok", "err"} : (Forks => rsp = "ok") /\ Replied(t, u, q, rsp)
  BY <1>2
<1>4. \A r \in Req : u.req[r] = IF r = q THEN (IF t.req[r] = "open" THEN rsp ELSE "twice") ELSE t.req[r]
  BY <1>3 DEF Replied
<1> HIDE DEF q
<1>5. u.login_timer = None /\ u.logout = None /\ \A r \in Req : r \notin {u.login_timer, u.logout}
  BY <1>1, <1>2, ReqAssumption
<1>6. ReqsFor(u, {u.login_timer, u.logout})
  <2>1. \A r \in Req : u.req[r] = "open" => r # q /\ t.req[r] = "open"
    BY <1>1, <1>4 DEF ReqsFor
  <2>2. \A r \in Req : u.req[r] # "twice"
    BY <1>1, <1>4 DEF ReqsFor
  <2>3. \A r \in Req : u.retry[r] > 0 => r # q /\ t.req[r] = "open" /\ u.req[r] = "open" /\ u.kind[r] = "login"
    <3>1. \A r \in Req : t.retry[r] > 0 => r \notin {q} /\ t.req[r] = "open" /\ t.kind[r] = "login"
      BY <1>1 DEF ReqsFor
    <3>2. \A r \in Req : u.retry[r] = t.retry[r] /\ u.kind[r] = t.kind[r]
      BY <1>2
    <3>3. QED
      BY <1>4, <3>1, <3>2
  <2>4. \A r \in Req : ~ Forgets /\ u.req[r] = "open" => u.retry[r] > 0
    BY <1>1, <1>2, <2>1 DEF ReqsFor
  <2>5. QED
    BY <1>5, <2>2, <2>3, <2>4 DEF ReqsFor
<1>7. LoginKind(u, u.login_timer) /\ LogoutKind(u, u.logout) /\ Sup(u)
  BY <1>5, ReqAssumption DEF LoginKind, LogoutKind, Sup
<1>8. Tracked(u) /\ NlUnmarked(u)
  BY <1>2 DEF Mid, Tracked, NlUnmarked, Has
<1>9. Up(u)
  BY <1>1, <1>2, <1>5 DEF Up, NoPoll, Unmarked
<1>10. Inv(u)
  BY <1>2, <1>6, <1>7, <1>8, <1>9 DEF Inv, Base, Phase
<1>11. Truthful(t, u)
  <2>1. \A r \in Req : t.req[r] # "ok" /\ u.req[r] = "ok" => r = q
    BY <1>4
  <2>2. q \in Req => u.kind[q] # "logout"
    BY <1>1, <1>2 DEF LoginKind
  <2>3. QED
    BY <1>2, <2>1, <2>2 DEF Truthful
<1>12. Clean(t, u, q)
  BY <1>1, <1>2, <1>3, <1>4 DEF Clean
<1>13. QED
  BY <1>10, <1>11, <1>12 DEF Settled, u, q

(* An empty socket holds no event. *)
LEMMA EmptySocket == ASSUME NEW t, t.nl = <<>> PROVE NlUnmarked(t) /\ Hushed(t)
BY SMTT(30) DEF NlUnmarked, Hushed

(* setup_full_feature_phase *)
LEMMA FullFeatureSettles ==
  ASSUME NEW t, Good(t), Base(t), t.state = "IN_LOGIN", NEW f, Works(f)
  PROVE  Settled(t, SetupFullFeaturePhase(t, f), t.login)
<1> DEFINE x == [t EXCEPT !.login_timer = None]
           a == KipcCall(x)
           b == [a EXCEPT !.k = "started"]
           up == LoggedIn(b, f)
           u == SetupFullFeaturePhase(t, f)
<1>1. Mid(t, t.login) /\ t.id /\ t.k = "bound"
  BY LoginUnderWay
<1>2. NoPoll(t) /\ Unmarked(t) /\ NlUnmarked(t) /\ NoLogoutTimer(t)
  BY DEF Base, Phase, LoggingIn, Good
<1>3. u \in {LoginEh(a, t.login, "LOGIN", f), LoginEh(a, t.login, "INTERNAL", f), NopOutTimer(up, "interval"), up}
  BY DEF SetupFullFeaturePhase
<1>4. Good(x) /\ Sets(t, x, "login_timer", None)
  BY SetTimers, FieldSet
<1> HIDE DEF x, u
<1>5. /\ Good(a) /\ Kept(x, a) /\ a.state = x.state /\ a.login = x.login /\ a.login_timer = x.login_timer
      /\ a.pend = x.pend /\ a.k = x.k /\ a.nl = <<>> /\ NoNew(x, a) /\ Keeps(x, a) /\ Reads(x, a)
  BY <1>4, Call
<1> HIDE DEF a
<1>6. /\ Kept(t, x) /\ x.state = t.state /\ x.login = t.login /\ x.login_timer = None /\ x.pend = t.pend
      /\ x.k = t.k /\ x.ready = t.ready /\ x.nl = t.nl
  BY <1>4 DEF Sets, Fields, Kept
<1>7. Kept(t, a)
  BY <1>5, <1>6 DEF Kept
<1>8. NoNew(t, a) /\ NoPoll(a) /\ Unmarked(a) /\ NoLogoutTimer(a)
  <2>1. NoNew(t, a)
    BY <1>5, <1>6 DEF NoNew, Has
  <2>2. NoPoll(x) /\ Unmarked(x) /\ NlUnmarked(x) /\ NoLogoutTimer(x)
    BY <1>2, <1>6 DEF NoPoll, Unmarked, NlUnmarked, NoLogoutTimer
  <2>3. QED
    BY <1>5, <2>1, <2>2, ReadKeeps DEF Keeps
<1>9. Mid(a, t.login)
  BY <1>1, <1>5, <1>7, <1>8, MidKept, EmptySocket
<1>10. a.live = t.live /\ a.req = t.req /\ a.id
  BY <1>1, <1>7 DEF Kept
<1>11. ASSUME NEW err PROVE Settled(t, LoginEh(a, t.login, err, f), t.login)
  <2>1. a.k = "bound" /\ a.state = "IN_LOGIN"
    BY <1>1, <1>5, <1>6
  <2>2. Settled(a, LoginEh(a, t.login, err, f), t.login)
    BY <1>5, <1>9, <1>10, <2>1, LoginEhSettles, SMTT(30)
  <2>3. QED
    BY <1>10, <2>2, SettledFrom
<1>12. Settled(t, up, t.login) /\ Good(up)
  <2>1. Good(b) /\ Keeps(a, b)
    BY <1>5, SetKernel DEF Kernel
  <2>2. Sets(a, b, "k", "started")
    BY <1>5, FieldSet
  <2> HIDE DEF b
  <2>3. /\ Kept(a, b) /\ b.login = a.login /\ b.login_timer = a.login_timer /\ b.k = "started" /\ b.nl = a.nl
        /\ b.ready = a.ready /\ b.pend = a.pend
    BY <2>2 DEF Sets, Fields, Kept
  <2>4. b.login = t.login /\ b.login_timer = None /\ b.id /\ b.live = t.live /\ b.req = t.req
    BY <1>5, <1>6, <1>10, <2>3 DEF Kept
  <2>5. Mid(b, b.login)
    <3>1. NoNew(a, b)
      BY <2>3 DEF NoNew, Has
    <3>2. NlUnmarked(b)
      BY <1>5, <2>3, EmptySocket
    <3>3. Mid(b, t.login)
      BY <1>9, <2>3, <3>1, <3>2, MidKept
    <3>4. QED
      BY <2>4, <3>3
  <2>6. NoPoll(b) /\ Unmarked(b)
    BY <1>8, <2>3 DEF NoPoll, Unmarked
  <2>7. Settled(b, up, b.login)
    BY <2>1, <2>3, <2>4, <2>5, <2>6, LoggedInSettles
  <2>8. Good(up)
    BY <1>8, <2>1, LoggedInGood DEF Keeps
  <2> HIDE DEF up
  <2>9. QED
    BY <2>4, <2>7, <2>8, SettledFrom
<1> HIDE DEF up
<1>13. Settled(t, NopOutTimer(up, "interval"), t.login)
  BY <1>12, NopAlike, SettledAlike
<1>14. QED
  BY <1>3, <1>11, <1>12, <1>13 DEF u

(* The address of a permanent move *)
LEMMA MoveAlike ==
  ASSUME NEW t, Good(t), NEW reply PROVE Good(RecordMove(t, reply)) /\ Alike(t, RecordMove(t, reply))
<1>1. t.saddr \in Address
  BY TypedRecord DEF Good, FieldTypes
<1>2. Good([t EXCEPT !.failback = t.saddr]) /\ Alike(t, [t EXCEPT !.failback = t.saddr])
  BY <1>1, SetAddress, PlainFieldSet
<1>3. Alike(t, t)
  BY DEF Alike, Kept
<1>4. QED
  BY <1>2, <1>3 DEF RecordMove

(* iscsi_login_redirect *)
LEMMA RedirectSettles ==
  ASSUME NEW t, Good(t), Base(t), t.state = "IN_LOGIN", NEW to \in Address, NEW f, Works(f)
  PROVE  Settled(t, LoginRedirect(t, to, f), t.login)
<1> DEFINE e == [t EXCEPT !.saddr = to]
           rs == IF t.r_stage = "NO_CHANGE" THEN "REDIRECT" ELSE t.r_stage
           a == [e EXCEPT !.r_stage = rs]
           u == LoginRedirect(t, to, f)
<1>1. Mid(t, t.login) /\ t.id /\ t.k = "bound"
  BY LoginUnderWay
<1>2. u = ReopenConn(a, t.login, TRUE, TRUE, f)
  <2>1. a = [t EXCEPT !.saddr = to, !.r_stage = IF @ = "NO_CHANGE" THEN "REDIRECT" ELSE @]
    OBVIOUS
  <2>2. QED
    BY <2>1 DEF LoginRedirect
<1>3. Good(e) /\ Alike(t, e)
  BY SetAddress, PlainFieldSet
<1>4. rs \in RStage /\ rs \in {"REDIRECT", "REOPEN"} /\ (rs = "REOPEN" <=> t.r_stage = "REOPEN")
  BY <1>1 DEF Mid, Awaits, RStage
<1> HIDE DEF e, rs, u
<1>5. Good(a) /\ Sets(e, a, "r_stage", rs)
  BY <1>3, <1>4, SetStage, FieldSet
<1> HIDE DEF a
<1>6. /\ a.r_stage = rs /\ a.live = e.live /\ a.id = e.id /\ a.notify = e.notify /\ a.logout = e.logout
      /\ a.req = e.req /\ a.kind = e.kind /\ a.retry = e.retry /\ a.unbinding = e.unbinding
      /\ a.k = e.k /\ a.nl = e.nl /\ a.ready = e.ready
  BY <1>5 DEF Sets, Fields
<1>7. /\ a.live = t.live /\ a.id = t.id /\ a.notify = t.notify /\ a.logout = t.logout /\ a.req = t.req
      /\ a.kind = t.kind /\ a.retry = t.retry /\ a.unbinding = t.unbinding /\ a.k = t.k /\ a.nl = t.nl
      /\ a.ready = t.ready
  BY <1>3, <1>6 DEF Alike, Kept
<1>8. Mid(a, t.login)
  <2>1. Awaits(a, t.login)
    BY <1>1, <1>4, <1>6, <1>7 DEF Mid, Awaits
  <2>2. ReqsFor(a, {t.login}) /\ LoginKind(a, t.login)
    BY <1>1, <1>7, SMTT(30) DEF Mid, ReqsFor, LoginKind
  <2>3. NlUnmarked(a) /\ Tracked(a)
    BY <1>1, <1>7 DEF Mid, NlUnmarked, Tracked, Has
  <2>4. QED
    BY <1>1, <1>7, <2>1, <2>2, <2>3 DEF Mid
<1>9. t.login \in Qtask /\ a.k \notin {"none", "session"} /\ a.id
  BY <1>1, <1>7 DEF Mid, Awaits
<1>10. Reopened(a, u, t.login, TRUE)
  BY <1>2, <1>5, <1>9, ReopenOut
<1>11. Settled(a, u, t.login)
  BY <1>8, <1>9, <1>10, ReopenedSettles
<1>12. QED
  BY <1>7, <1>11, SettledFrom DEF u

(* iscsi_recv_login_rsp *)
LEMMA LoginRspSettles ==
  ASSUME NEW t, Good(t), Base(t), t.state = "IN_LOGIN", NEW reply, NEW to \in Address, NEW f, Works(f)
  PROVE  Settled(t, RecvLoginRsp(t, reply, to, f), t.login)
<1> DEFINE u == RecvLoginRsp(t, reply, to, f)
<1>1. PICK a \in {t, RecordMove(t, reply)} : u \in AfterReply(a, to, f)
  BY ReplyForms
<1> HIDE DEF u
<1>2. Good(a) /\ Alike(t, a)
  <2>1. Alike(t, t)
    BY DEF Alike, Kept
  <2>2. QED
    BY <2>1, MoveAlike
<1>3. Base(a) /\ a.state = "IN_LOGIN" /\ a.login = t.login /\ a.req = t.req /\ a.live = t.live
  BY <1>2, InvAlike DEF Alike, Kept
<1>4. ASSUME NEW b, Good(b), Base(b), Alike(a, b), NEW err
      PROVE  Settled(a, LoginEh(b, a.login, err, f), a.login)
  <2>1. b.state = "IN_LOGIN" /\ b.login = a.login /\ b.req = a.req /\ b.live = a.live
    BY <1>3, <1>4 DEF Alike, Kept
  <2>2. Mid(b, b.login) /\ b.id /\ b.k = "bound"
    BY <1>4, <2>1, LoginUnderWay
  <2>3. Settled(b, LoginEh(b, b.login, err, f), b.login)
    BY <1>4, <2>1, <2>2, LoginEhSettles, SMTT(30)
  <2>4. QED
    BY <2>1, <2>3, SettledFrom
<1>5. ASSUME NEW err
      PROVE  /\ Settled(a, LoginEh([a EXCEPT !.reopen_cnt = RetryMax], a.login, err, f), a.login)
             /\ Settled(a, LoginEh(a, a.login, err, f), a.login)
  <2> DEFINE b == [a EXCEPT !.reopen_cnt = RetryMax]
  <2>1. Good(b) /\ Alike(a, b)
    BY <1>2, BoundAssumption, SetStage, PlainFieldSet
  <2>2. Alike(a, a)
    BY DEF Alike, Kept
  <2> HIDE DEF b
  <2>3. Base(b)
    BY <1>3, <2>1, InvAlike
  <2>4. Settled(a, LoginEh(b, a.login, err, f), a.login)
    BY <1>4, <2>1, <2>3
  <2>5. Settled(a, LoginEh(a, a.login, err, f), a.login)
    BY <1>2, <1>3, <1>4, <2>2
  <2>6. QED
    BY <2>4, <2>5 DEF b
<1>6. Settled(a, LoginRedirect(a, to, f), a.login) /\ Settled(a, SetupFullFeaturePhase(a, f), a.login)
  BY <1>2, <1>3, RedirectSettles, FullFeatureSettles
<1>7. Settled(a, KipcCall(a), a.login)
  <2> DEFINE c == KipcCall(a)
  <2>1. Base(c) /\ c.state = "IN_LOGIN" /\ c.req = a.req /\ c.live = a.live
    BY <1>2, <1>3, CallBase, Call DEF Kept
  <2> HIDE DEF c
  <2>2. Inv(c)
    BY <2>1, NobodyLogsOut DEF ConnState
  <2>3. Settled(a, c, a.login)
    BY <2>1, <2>2, Unanswered
  <2>4. QED
    BY <2>3 DEF c
<1>8. Settled(a, u, a.login)
  BY <1>1, <1>5, <1>6, <1>7 DEF AfterReply
<1>9. QED
  BY <1>3, <1>8, SettledFrom DEF u

(* u is t on its way from the established connection to the login. *)
Connecting(t, u, q) ==
    /\ Mid(u, q) /\ u.login_timer = q /\ NoPoll(u) /\ Cleared(u) /\ Hushed(u)
    /\ u.req = t.req /\ u.live = t.live

(* The assignments on the way, *)
LEMMA ConnectingSets ==
  ASSUME NEW t, NEW a, NEW q, Connecting(t, a, q), NEW x \in {"id", "k", "login", "state"}, NEW v, NEW u, Sets(a, u, x, v)
  PROVE  Connecting(t, u, q)
<1>1. /\ u.live = a.live /\ u.r_stage = a.r_stage /\ u.notify = a.notify /\ u.logout = a.logout /\ u.req = a.req
      /\ u.kind = a.kind /\ u.retry = a.retry /\ u.unbinding = a.unbinding /\ u.login_timer = a.login_timer
      /\ u.ready = a.ready /\ u.pend = a.pend /\ u.nl = a.nl
  BY DEF Sets, Fields
<1>2. Mid(a, q)
  BY DEF Connecting
<1>3. Mid(u, q)
  <2>1. ReqsFor(u, {q}) /\ LoginKind(u, q)
    BY <1>1, <1>2, SMTT(30) DEF Mid, ReqsFor, LoginKind
  <2>2. NlUnmarked(u) /\ Tracked(u) /\ Awaits(u, q)
    BY <1>1, <1>2 DEF Mid, NlUnmarked, Tracked, Has, Awaits
  <2>3. QED
    BY <1>1, <1>2, <2>1, <2>2 DEF Mid
<1>4. NoPoll(u) /\ Cleared(u) /\ Hushed(u)
  BY <1>1 DEF Connecting, NoPoll, Cleared, Hushed
<1>5. QED
  BY <1>1, <1>3, <1>4 DEF Connecting

(* the calls on the way, *)
LEMMA ConnectingCall ==
  ASSUME NEW t, NEW a, NEW q, Good(a), Connecting(t, a, q), NEW u, u = KipcCall(a)
  PROVE  Connecting(t, u, q) /\ Good(u) /\ u.state = a.state /\ u.k = a.k /\ u.id = a.id
<1>1. /\ Good(u) /\ Kept(a, u) /\ u.state = a.state /\ u.login_timer = a.login_timer
      /\ u.k = a.k /\ u.nl = <<>> /\ NoNew(a, u) /\ Keeps(a, u) /\ Reads(a, u)
  BY Call
<1>2. NlUnmarked(u) /\ Hushed(u)
  BY <1>1, EmptySocket
<1>3. Mid(u, q)
  BY <1>1, <1>2, MidKept DEF Connecting
<1>4. NoPoll(u) /\ Cleared(u)
  BY <1>1, ReadKeeps DEF Connecting, Keeps
<1>5. QED
  BY <1>1, <1>2, <1>3, <1>4 DEF Connecting, Kept

(* bind_conn, *)
LEMMA ConnectingBind ==
  ASSUME NEW t, NEW c, NEW q, Good(c), Connecting(t, c, q), NEW u, u = KBindConn(c)
  PROVE  Connecting(t, u, q) /\ Good(u) /\ u.state = c.state /\ u.k = "bound" /\ u.id = c.id
<1> DEFINE a == KipcCall(c)
<1>1. Connecting(t, a, q) /\ a.state = c.state /\ a.id = c.id
  BY ConnectingCall
<1>2. Good(u) /\ u.state = c.state /\ Rebound(a, u)
  BY BindGood
<1> HIDE DEF a
<1>3. /\ Kept(a, u) /\ u.login_timer = a.login_timer /\ u.pend = a.pend /\ u.nl = a.nl /\ u.k = "bound"
  BY <1>2 DEF Rebound, Fields, Kept
<1>4. DOMAIN u.ready = DOMAIN a.ready /\ \A i \in DOMAIN a.ready : u.ready[i].ev = a.ready[i].ev
  BY <1>2 DEF Rebound
<1>5. NoNew(a, u)
  BY <1>3, <1>4 DEF NoNew, Has
<1>6. NoPoll(u) /\ Cleared(u) /\ Hushed(u) /\ NlUnmarked(u)
  BY <1>1, <1>3, <1>4 DEF Connecting, Mid, NoPoll, Cleared, Hushed, NlUnmarked
<1>7. Mid(u, q)
  BY <1>1, <1>3, <1>5, <1>6, MidKept DEF Connecting
<1>8. QED
  BY <1>1, <1>2, <1>3, <1>6, <1>7 DEF Connecting, Kept

(* and the ways it may end. *)
LEMMA ConnectingFails ==
  ASSUME NEW t, NEW a, NEW q, Good(a), Connecting(t, a, q), NEW f, Works(f)
  PROVE  /\ (~ a.id => a.k = "none") => Settled(t, SessionConnShutdown(a, q, "err", f), q)
         /\ a.state = "XPT_WAIT" /\ a.k = (IF a.id THEN "conn" ELSE "none") =>
              \A err : Settled(t, LoginEh(a, q, err, f), q)
         /\ a.state = "IN_LOGIN" /\ a.id /\ a.k = "bound" =>
              (\A err : Settled(t, LoginEh(a, q, err, f), q)) /\ (a.login = q => Settled(t, a, q))
<1>1. Mid(a, q) /\ Hushed(a) /\ a.req = t.req /\ a.live = t.live
  BY DEF Connecting
<1>2. ASSUME ~ a.id => a.k = "none" PROVE Settled(t, SessionConnShutdown(a, q, "err", f), q)
  <2> DEFINE u == SessionConnShutdown(a, q, "err", f)
  <2>1. Freed(a, u, q, "err")
    BY <1>2, ShutdownOut
  <2>2. Forgets \/ a.id \/ ~ a.unbinding
    BY <1>1 DEF Mid, Tracked
  <2> HIDE DEF u
  <2>3. ReqsFor(a, {q})
    BY <1>1 DEF Mid
  <2>4. "err" # "ok"
    OBVIOUS
  <2>5. Settled(a, u, q)
    BY <2>1, <2>2, <2>3, <2>4, FreedSettles, SMTT(30)
  <2>6. QED
    BY <1>1, <2>5, SettledFrom DEF u
<1>3. ASSUME a.state = "XPT_WAIT", a.k = (IF a.id THEN "conn" ELSE "none"), NEW err
      PROVE  Settled(t, LoginEh(a, q, err, f), q)
  <2>1. Settled(a, LoginEh(a, q, err, f), q)
    BY <1>1, <1>3, LoginEhSettles, SMTT(30)
  <2>2. QED
    BY <1>1, <2>1, SettledFrom
<1>4. ASSUME a.state = "IN_LOGIN", a.id, a.k = "bound", NEW err
      PROVE  Settled(t, LoginEh(a, q, err, f), q)
  <2>1. Settled(a, LoginEh(a, q, err, f), q)
    BY <1>1, <1>4, LoginEhSettles, SMTT(30)
  <2>2. QED
    BY <1>1, <2>1, SettledFrom
<1>5. ASSUME a.state = "IN_LOGIN", a.id, a.k = "bound", a.login = q PROVE Settled(t, a, q)
  <2>1. Unmarked(a)
    BY DEF Connecting, Cleared, Unmarked
  <2>2. Phase(a)
    BY <1>1, <1>5, <2>1 DEF Connecting, Mid, LoggingIn, Phase
  <2>3. ReqsFor(a, {a.login_timer, a.logout}) /\ LoginKind(a, a.login_timer) /\ LogoutKind(a, a.logout)
    <3>1. ReqsFor(a, {q}) /\ LoginKind(a, q) /\ a.logout = None /\ a.login_timer = q
      BY <1>1 DEF Mid, Connecting
    <3>2. QED
      BY <3>1, ReqAssumption, SMTT(30) DEF ReqsFor, LoginKind, LogoutKind
  <2>4. Base(a)
    BY <1>1, <1>5, <2>2, <2>3 DEF Mid, Base
  <2>5. Inv(a)
    BY <1>5, <2>4, NobodyLogsOut DEF ConnState
  <2>6. QED
    BY <1>1, <2>5, Unanswered
<1>6. QED
  BY <1>2, <1>3, <1>4, <1>5

(* session_conn_poll once the connection is established *)
LEMMA ConnectedSettles ==
  ASSUME NEW t, Good(t), t.state = "XPT_WAIT", NEW q \in Qtask, Connecting(t, t, q), t.k = (IF t.id THEN "conn" ELSE "none"),
         NEW f, Works(f)
  PROVE  Settled(t, Connected(t, q, f), q)
<1> DEFINE a == [t EXCEPT !.login = None]
           w == KipcCall(a)
           x == [w EXCEPT !.id = TRUE]
           y == [x EXCEPT !.k = "session"]
           b == IF t.id THEN a ELSE y
           v == [b EXCEPT !.k = "conn"]
           c == IF t.id THEN a ELSE v
           z == KBindConn(c)
           d == [z EXCEPT !.login = q]
           e == [d EXCEPT !.state = "IN_LOGIN"]
           g == KipcCall(c)
           u == Connected(t, q, f)
<1>0. u \in {SessionConnShutdown(b, q, "err", f), LoginEh(g, q, "LOGIN", f), LoginEh(e, q, "LOGIN", f), e}
      \/ (~ t.id /\ u = SessionConnShutdown(a, q, "err", f))
  <2>1. y = [KipcCall(a) EXCEPT !.id = TRUE, !.k = "session"]
    OBVIOUS
  <2> HIDE DEF y
  <2>2. ~ Offload /\ f \cap {"set_params", "login_begin"} = {}
    BY DEF Works, Tear
  <2>3. QED
    BY <2>1, <2>2 DEF Connected
<1>1. Good(a) /\ Sets(t, a, "login", None)
  BY SetLogin, FieldSet
<1> HIDE DEF a, u
<1>2. Connecting(t, a, q) /\ a.state = "XPT_WAIT" /\ a.id = t.id /\ a.k = t.k
  BY <1>1, ConnectingSets DEF Sets, Fields
<1>3. Good(w) /\ Connecting(t, w, q) /\ w.state = "XPT_WAIT"
  BY <1>1, <1>2, ConnectingCall, SMTT(30)
<1> HIDE DEF w
<1>4. Good(x) /\ Sets(w, x, "id", TRUE)
  BY <1>3, SetKernel, FieldSet
<1> HIDE DEF x
<1>5. Connecting(t, x, q) /\ x.state = "XPT_WAIT" /\ x.id
  BY <1>3, <1>4, ConnectingSets DEF Sets, Fields
<1>6. Good(y) /\ Sets(x, y, "k", "session")
  BY <1>4, SetKernel, FieldSet DEF Kernel
<1> HIDE DEF y
<1>7. Connecting(t, y, q) /\ y.state = "XPT_WAIT" /\ y.id
  BY <1>5, <1>6, ConnectingSets DEF Sets, Fields
<1>8. Good(b) /\ Connecting(t, b, q) /\ b.state = "XPT_WAIT" /\ b.id
  BY <1>1, <1>2, <1>6, <1>7
<1> HIDE DEF b
<1>9. Good(v) /\ Sets(b, v, "k", "conn")
  BY <1>8, SetKernel, FieldSet DEF Kernel
<1> HIDE DEF v
<1>10. Connecting(t, v, q) /\ v.state = "XPT_WAIT" /\ v.id /\ v.k = "conn"
  BY <1>8, <1>9, ConnectingSets DEF Sets, Fields
<1>11. Good(c) /\ Connecting(t, c, q) /\ c.state = "XPT_WAIT" /\ c.id /\ c.k = "conn"
  BY <1>1, <1>2, <1>9, <1>10
<1> HIDE DEF c
<1>12. Good(g) /\ Connecting(t, g, q) /\ g.state = "XPT_WAIT" /\ g.id /\ g.k = "conn"
  BY <1>11, ConnectingCall, SMTT(30)
<1> HIDE DEF g
<1>13. Good(z) /\ Connecting(t, z, q) /\ z.state = "XPT_WAIT" /\ z.id /\ z.k = "bound"
  BY <1>11, ConnectingBind
<1> HIDE DEF z
<1>14. Good(d) /\ Sets(z, d, "login", q)
  BY <1>13, SetLogin, FieldSet
<1> HIDE DEF d
<1>15. Connecting(t, d, q) /\ d.state = "XPT_WAIT" /\ d.id /\ d.k = "bound" /\ d.login = q
  BY <1>13, <1>14, ConnectingSets DEF Sets, Fields
<1>16. Good(e) /\ Sets(d, e, "state", "IN_LOGIN")
  <2>1. NoLogoutTimer(d)
    BY <1>14, <1>15 DEF Good
  <2>2. QED
    BY <1>14, <1>15, <2>1, SetState, FieldSet DEF ConnState
<1> HIDE DEF e
<1>17. Connecting(t, e, q) /\ e.state = "IN_LOGIN" /\ e.id /\ e.k = "bound" /\ e.login = q
  BY <1>15, <1>16, ConnectingSets DEF Sets, Fields
<1>18. Settled(t, LoginEh(e, q, "LOGIN", f), q) /\ Settled(t, e, q)
  BY <1>16, <1>17, ConnectingFails
<1>19. Settled(t, LoginEh(g, q, "LOGIN", f), q)
  BY <1>12, ConnectingFails
<1>20. Settled(t, SessionConnShutdown(b, q, "err", f), q)
  BY <1>8, ConnectingFails
<1>21. ~ t.id => Settled(t, SessionConnShutdown(a, q, "err", f), q)
  BY <1>1, <1>2, ConnectingFails
<1>22. QED
  BY <1>0, <1>18, <1>19, <1>20, <1>21 DEF u

(* session_conn_poll *)
LEMMA PollSettles ==
  ASSUME NEW t, Good(t), Base(t), t.state = "XPT_WAIT", NoPoll(t), Cleared(t), NEW r, NEW f, Works(f)
  PROVE  Settled(t, SessionConnPoll(t, t.login_timer, r, f), t.login_timer)
<1> DEFINE q == t.login_timer
           p == QueueDelayedReopen(t, q)
           w == ScheduleTimer(t, "POLL", q)
           u == SessionConnPoll(t, q, r, f)
<1>1. u \in {Connected(t, q, f), p, w, LoginEh(t, q, "INTERNAL", f)}
  BY DEF SessionConnPoll, EndpointCall, Works
<1>2. Mid(t, q) /\ t.k = (IF t.id THEN "conn" ELSE "none") /\ Hushed(t) /\ Inv(t)
  BY LoginUnderWay, NobodyLogsOut DEF ConnState
<1>3. q \in Qtask /\ Connecting(t, t, q)
  BY <1>2 DEF Mid, Awaits, Connecting
<1>4. Sets(t, [t EXCEPT !.login_timer = q], "login_timer", q)
  BY FieldSet
<1>5. Sets(t, p, "login_timer", q)
  BY <1>4 DEF QueueDelayedReopen
<1>6. w = ScheduleTimer(t, "POLL", q) /\ q = t.login_timer
  OBVIOUS
<1> HIDE DEF p, w, u, q
<1>7. Settled(t, p, q)
  <2>1. Alike(t, p)
    BY <1>5, <1>6 DEF Sets, Fields, Alike, Kept
  <2>2. Inv(p)
    BY <1>2, <2>1, InvAlike DEF Inv
  <2>3. QED
    BY <2>1, <2>2, Unanswered DEF Alike, Kept
<1>8. Settled(t, w, q)
  <2>1. /\ \A x \in Fields \ {"pool", "pend"} : w[x] = t[x]
        /\ w.pend = t.pend \cup {[ev |-> "POLL", q |-> q, stale |-> FALSE]}
    BY <1>6, TimerOut, SMTT(30)
  <2>2. /\ Kept(t, w) /\ w.state = t.state /\ w.login_timer = t.login_timer
        /\ w.ready = t.ready /\ w.k = t.k /\ w.nl = t.nl
    BY <2>1 DEF Fields, Kept
  <2>3. PollsFor(w, q)
    <3>1. \A c \in w.pend : c.ev = "POLL" => c.q = q
      BY <2>1, SMTT(30) DEF NoPoll
    <3>2. QED
      BY <2>2, <3>1 DEF NoPoll, PollsFor
  <2>4. Order(w)
    BY <2>2 DEF NoPoll, Cleared, Order
  <2>5. Waiting(w)
    <3>1. Waiting(t)
      BY DEF Base, Phase
    <3>2. Awaits(w, q) /\ Hushed(w)
      BY <1>2, <2>2 DEF Mid, Awaits, Kept, Hushed
    <3>3. QED
      BY <1>6, <2>2, <2>3, <2>4, <3>1, <3>2 DEF Waiting, Kept
  <2>6. NlUnmarked(w) /\ Tracked(w)
    BY <2>2 DEF Base, NlUnmarked, Tracked, Has, Kept
  <2>7. ReqsFor(w, {w.login_timer, w.logout}) /\ LoginKind(w, w.login_timer) /\ LogoutKind(w, w.logout)
    <3>1. ReqsFor(t, {t.login_timer, t.logout}) /\ LoginKind(t, t.login_timer) /\ LogoutKind(t, t.logout)
      BY DEF Base
    <3>2. QED
      BY <2>2, <3>1, SMTT(30) DEF ReqsFor, LoginKind, LogoutKind, Kept
  <2>8. Base(w)
    BY <2>2, <2>5, <2>6, <2>7 DEF Base, Phase
  <2>9. Inv(w)
    BY <2>2, <2>8, NobodyLogsOut DEF ConnState
  <2>10. QED
    BY <2>2, <2>9, Unanswered DEF Kept
<1>9. Settled(t, LoginEh(t, q, "INTERNAL", f), q)
  BY <1>2, LoginEhSettles, SMTT(30)
<1>10. Settled(t, Connected(t, q, f), q)
  BY <1>2, <1>3, ConnectedSettles
<1>11. QED
  BY <1>1, <1>7, <1>8, <1>9, <1>10 DEF u, q

(* A session that is freed without a look at who waits for it. *)
LEMMA AbandonSettles ==
  ASSUME NEW t, Good(t), Base(t), t.state # "FREE", Forgets, NEW f, Works(f), NEW q, q = None, NEW p
  PROVE  Settled(t, SessionConnShutdown(t, q, "ok", f), p)
<1> DEFINE u == SessionConnShutdown(t, q, "ok", f)
<1>1. ~ t.id => t.k = "none"
  <2>1. t.state \in ConnState
    BY TypedRecord DEF Good, FieldTypes
  <2>2. QED
    BY <2>1 DEF ConnState, Base, Phase, Waiting, LoggingIn, Up, Broken
<1>2. Freed(t, u, q, "ok")
  BY <1>1, ShutdownOut
<1>3. LogoutKind(t, q)
  BY ReqAssumption DEF LogoutKind
<1>4. ReqsFor(t, {q})
  <2>1. ReqsFor(t, {t.login_timer, t.logout})
    BY DEF Base
  <2>2. QED
    BY <2>1, ReqAssumption, SMTT(30) DEF ReqsFor
<1> HIDE DEF u
<1>5. Settled(t, u, p)
  BY <1>2, <1>3, <1>4, FreedSettles
<1>6. QED
  BY <1>5 DEF u

(* iscsi_stop *)
LEMMA StopSettles ==
  ASSUME NEW t, Good(t), Base(t), t.state # "FREE", t.logout = None => Forgets, NEW f, Works(f), NEW p
  PROVE  Settled(t, IscsiStop(t, f), p)
<1> DEFINE a == SendLogout(t, f)
           u == IscsiStop(t, f)
<1>1. u = IF LogoutSent(t, f) THEN a ELSE SessionConnShutdown(a, t.logout, "ok", f)
  BY DEF IscsiStop, Works
<1>2. CASE t.state \in UpState
  <2>1. Good(a) /\ Base(a) /\ a.state \in UpState /\ Kept(t, a) /\ (LogoutSent(t, f) => Sup(a))
    BY <1>2, SendLogoutBase
  <2> HIDE DEF a, u
  <2>2. a.req = t.req /\ a.live = t.live /\ a.logout = t.logout
    BY <2>1 DEF Kept
  <2>3. CASE LogoutSent(t, f)
    BY <1>1, <2>1, <2>2, <2>3, Unanswered DEF Inv, u
  <2>4. CASE ~ LogoutSent(t, f)
    <3>1. u = SessionConnShutdown(a, a.logout, "ok", f)
      BY <1>1, <2>2, <2>4
    <3>2. Settled(a, u, p)
      BY <2>1, <3>1, LogoutSettles, SMTT(30) DEF UpState
    <3>3. QED
      BY <2>2, <3>2, SettledFrom DEF u
  <2>5. QED
    BY <2>3, <2>4
<1>3. CASE t.state \notin UpState
  <2>1. t.state \in ConnState
    BY TypedRecord DEF Good, FieldTypes
  <2>2. t.logout = None /\ Forgets
    BY <1>3, <2>1, NobodyLogsOut DEF UpState
  <2>3. a = t /\ ~ LogoutSent(t, f)
    BY <1>3 DEF SendLogout, LogoutSent, UpState
  <2>4. Settled(t, SessionConnShutdown(t, t.logout, "ok", f), p)
    BY <2>2, AbandonSettles
  <2>5. QED
    BY <1>1, <2>3, <2>4
<1>4. QED
  BY <1>2, <1>3

(* session_conn_recv_pdu in full feature phase *)
LEMMA PduSettles ==
  ASSUME NEW t, Good(t), Inv(t), t.state \in UpState, NEW pdu \in Pdu, NEW f, Works(f)
  PROVE  Settled(t, RecvPdu(t, pdu, f), t.login_timer)
<1> DEFINE q == t.login_timer
<1>1. RecvPdu(t, pdu, f) \in AfterPdu(t, f)
  BY PduForms
<1>2. Base(t) /\ Sup(t) /\ Settled(t, t, q)
  BY Unanswered DEF Inv
<1>3. Settled(t, KipcCall(t), q)
  <2> DEFINE a == KipcCall(t)
  <2>1. Base(a) /\ Sup(a) /\ Kept(t, a)
    BY <1>2, CallBase, Call
  <2> HIDE DEF a
  <2>2. Settled(t, a, q)
    BY <2>1, Unanswered DEF Inv, Kept
  <2>3. QED
    BY <2>2 DEF a
<1>4. Settled(t, SendLogout(t, f), q)
  <2> DEFINE a == SendLogout(t, f)
  <2>1. Base(a) /\ Sup(a) /\ Kept(t, a)
    BY <1>2, SendLogoutBase
  <2> HIDE DEF a
  <2>2. Settled(t, a, q)
    BY <2>1, Unanswered DEF Inv, Kept
  <2>3. QED
    BY <2>2 DEF a
<1>5. Settled(t, ConnErrorHandle(t, f), q)
  BY <1>2, ErrorSettles
<1>6. Settled(t, NopOutTimer([t EXCEPT !.nop_timer = "off"], "interval"), q)
  <2> DEFINE a == [t EXCEPT !.nop_timer = "off"]
  <2>1. Good(a) /\ Alike(t, a)
    BY SetTimers, PlainFieldSet
  <2> HIDE DEF a
  <2>2. Settled(t, a, q)
    BY <1>2, <2>1, SettledAlike
  <2>3. Settled(t, NopOutTimer(a, "interval"), q)
    BY <2>1, <2>2, NopAlike, SettledAlike
  <2>4. QED
    BY <2>3 DEF a
<1>7. ASSUME NEW v \in BOOLEAN
      PROVE  Settled(t, [t EXCEPT !.time2wait = v], q) /\ Settled(t, ConnErrorHandle([t EXCEPT !.time2wait = v], f), q)
  <2> DEFINE a == [t EXCEPT !.time2wait = v]
  <2>1. Good(a) /\ Alike(t, a)
    BY SetStage, PlainFieldSet
  <2> HIDE DEF a
  <2>2. Settled(t, a, q) /\ Base(a)
    BY <1>2, <2>1, SettledAlike, InvAlike
  <2>3. Settled(a, ConnErrorHandle(a, f), a.login_timer)
    BY <2>1, <2>2, ErrorSettles
  <2>4. a.req = t.req /\ a.live = t.live /\ a.login_timer = q
    BY <2>1 DEF Alike, Kept
  <2>5. QED
    BY <2>2, <2>3, <2>4, SettledFrom DEF a
<1>8. QED
  BY <1>1, <1>2, <1>3, <1>4, <1>5, <1>6, <1>7 DEF AfterPdu

(* conn_send_nop_out *)
LEMMA NopSettles ==
  ASSUME NEW t, Good(t), Inv(t), NEW q PROVE Settled(t, ConnSendNopOut(t), q)
<1> DEFINE a == KipcCall(t)
<1>1. ConnSendNopOut(t) \in {t, NopOutTimer(a, "timeout")}
  BY DEF ConnSendNopOut
<1>2. Base(t) /\ Sup(t) /\ Settled(t, t, q)
  BY Unanswered DEF Inv
<1>3. Good(a) /\ Base(a) /\ Sup(a) /\ Kept(t, a)
  BY <1>2, CallBase, Call
<1> HIDE DEF a
<1>4. Settled(t, a, q)
  BY <1>3, Unanswered DEF Inv, Kept
<1>5. Settled(t, NopOutTimer(a, "timeout"), q)
  BY <1>3, <1>4, NopAlike, SettledAlike
<1>6. QED
  BY <1>1, <1>2, <1>5

(* a context runs, *)
LEMMA ContextsSettle ==
  ASSUME Good(s), Inv(s), Reliable, Contexts PROVE Settled(s, s', s.login_timer)
<1> DEFINE u == Taken
           e == s.ready[NextContext]
<1>1. s.ready # <<>>
  BY DEF Contexts, RunPoll, RunRecvPdu, RunError, RunInvalidHost, RunLogin, RunStop, Runs
<1>2. /\ Good(u) /\ Base(u) /\ Kept(s, u) /\ u.state = s.state /\ u.login = s.login
      /\ u.login_timer = s.login_timer /\ u.saddr = s.saddr /\ s.state # "FREE"
  BY <1>1, TakenBase
<1>3. /\ e.ev # "STOP" => Sup(u)
      /\ e.ev = "POLL" => s.state = "XPT_WAIT" /\ e.q = s.login_timer /\ NoPoll(u) /\ Cleared(u)
  BY <1>1, TakenBase
<1>4. \A f \in Failures : Works(f)
  BY FailuresWork
<1>5. NextContext \in DOMAIN s.ready
  BY <1>1, NextIsThere
<1>6. ASSUME Settled(u, s', s.login_timer) PROVE Settled(s, s', s.login_timer)
  <2>1. u.req = s.req /\ u.live = s.live
    BY <1>2 DEF Kept
  <2>2. QED
    BY <1>6, <2>1, SettledFrom, SMTT(30)
<1>7. ASSUME s' = u, e.ev # "STOP" PROVE Settled(s, s', s.login_timer)
  <2>1. u.req = s.req /\ u.live = s.live /\ Inv(u)
    BY <1>2, <1>3, <1>7 DEF Kept, Inv
  <2>2. QED
    BY <1>7, <2>1, Unanswered, SMTT(30)
<1>8. CASE RunPoll
  <2>1. PICK f \in Failures, r \in {"wait", "connected", "error"} : s' = SessionConnPoll(u, e.q, r, f)
    BY <1>8 DEF RunPoll
  <2>2. s.state = "XPT_WAIT" /\ e.q = s.login_timer /\ NoPoll(u) /\ Cleared(u)
    BY <1>3, <1>8 DEF RunPoll, Runs
  <2> HIDE DEF u, e
  <2>3. Settled(u, SessionConnPoll(u, u.login_timer, r, f), u.login_timer)
    BY <1>2, <1>4, <2>2, PollSettles, SMTT(30)
  <2>4. QED
    BY <1>2, <1>6, <2>1, <2>2, <2>3
<1>9. CASE RunRecvPdu
  <2>1. e.ev = "RECV_PDU"
    BY <1>9 DEF RunRecvPdu, Runs
  <2>2. CASE s.state = "IN_LOGIN" /\ \E f \in Failures, reply \in Replies :
                \E to \in IF LoginRet(reply) = "LOGIN_REDIRECT" THEN Address ELSE {s.saddr} :
                    s' = RecvLoginRsp(u, reply, to, f)
    <3>1. PICK f \in Failures, reply \in Replies :
                \E to \in IF LoginRet(reply) = "LOGIN_REDIRECT" THEN Address ELSE {s.saddr} :
                    s' = RecvLoginRsp(u, reply, to, f)
      BY <2>2
    <3>2. PICK to \in IF LoginRet(reply) = "LOGIN_REDIRECT" THEN Address ELSE {s.saddr} :
                    s' = RecvLoginRsp(u, reply, to, f)
      BY <3>1
    <3>3. to \in Address
      <4>1. s.saddr \in Address
        BY TypedRecord DEF Good, FieldTypes
      <4>2. QED
        BY <4>1
    <3>4. s.login = s.login_timer
      BY <2>2, LoginUnderWay DEF Inv
    <3> HIDE DEF u
    <3>5. Settled(u, RecvLoginRsp(u, reply, to, f), u.login)
      BY <1>2, <1>4, <2>2, <3>3, LoginRspSettles, SMTT(30)
    <3>6. QED
      BY <1>2, <1>6, <3>2, <3>4, <3>5
  <2>3. CASE s.state \in {"LOGGED_IN", "IN_LOGOUT"} /\ \E f \in Failures, pdu \in Pdu : s' = RecvPdu(u, pdu, f)
    <3>1. PICK f \in Failures, pdu \in Pdu : s' = RecvPdu(u, pdu, f)
      BY <2>3
    <3>2. Inv(u) /\ u.state \in UpState
      BY <1>2, <1>3, <2>1, <2>3 DEF Inv, UpState
    <3> HIDE DEF u
    <3>3. Settled(u, RecvPdu(u, pdu, f), u.login_timer)
      BY <1>2, <1>4, <3>2, PduSettles, SMTT(30)
    <3>4. QED
      BY <1>2, <1>6, <3>1, <3>3
  <2>4. CASE s' = u
    BY <1>7, <2>1, <2>4
  <2>5. QED
    BY <1>9, <2>2, <2>3, <2>4 DEF RunRecvPdu
<1>10. CASE RunError
  <2>1. PICK f \in Failures : s' = ConnErrorHandle(u, f)
    BY <1>10 DEF RunError
  <2> HIDE DEF u
  <2>2. Settled(u, ConnErrorHandle(u, f), u.login_timer)
    BY <1>2, <1>4, ErrorSettles
  <2>3. QED
    BY <1>2, <1>6, <2>1, <2>2
<1>11. CASE RunInvalidHost
  <2>1. PICK f \in Failures : s' = SessionConnShutdown(u, None, "ok", f)
    BY <1>11 DEF RunInvalidHost
  <2>2. Has(s, "INVALID_HOST")
    BY <1>5, <1>11 DEF RunInvalidHost, Runs, Has
  <2>3. Forgets
    BY <2>2 DEF Inv, Base, Tracked
  <2> DEFINE q == None
             p == s.login_timer
  <2>4. q = None
    OBVIOUS
  <2> HIDE DEF u, p, q
  <2>5. Settled(u, SessionConnShutdown(u, q, "ok", f), p)
    BY <1>2, <1>4, <2>3, <2>4, AbandonSettles, SMTT(30)
  <2>6. QED
    BY <1>6, <2>1, <2>5 DEF p, q
<1>12. ASSUME NEW ok \in BOOLEAN, RunLogin(ok) PROVE Settled(s, s', s.login_timer)
  <2>1. ~ Offload
    <3>1. PICK f \in Failures : TRUE
      BY <1>12 DEF RunLogin
    <3>2. QED
      BY <1>4, <3>1 DEF Works
  <2>2. s' = u /\ e.ev # "STOP"
    BY <1>12, <2>1 DEF RunLogin, Runs, SessionConnProcessLogin
  <2>3. QED
    BY <1>7, <2>2
<1>13. CASE RunStop
  <2>1. PICK f \in Failures : s' = IscsiStop(u, f)
    BY <1>13 DEF RunStop
  <2>2. Has(s, "STOP")
    BY <1>5, <1>13 DEF RunStop, Runs, Has
  <2>3. u.logout = None => Forgets
    BY <1>2, <2>2 DEF Inv, Base, Tracked, Kept
  <2> DEFINE p == s.login_timer
  <2> HIDE DEF u, p
  <2>4. Settled(u, IscsiStop(u, f), p)
    BY <1>2, <1>4, <2>3, StopSettles, SMTT(30)
  <2>5. QED
    BY <1>6, <2>1, <2>4 DEF p
<1>14. QED
  BY <1>8, <1>9, <1>10, <1>11, <1>12, <1>13 DEF Contexts

(* The login timer and the ping timer. *)
LEMMA TimersSettle ==
  ASSUME Good(s), Inv(s), Reliable, LoginTimerFires \/ NopTimerFires PROVE Settled(s, s', s.login_timer)
<1>1. \A f \in Failures : Works(f)
  BY FailuresWork
<1>2. Base(s) /\ s.state \in ConnState
  BY TypedRecord DEF Good, FieldTypes, Inv
<1>3. CASE LoginTimerFires
  <2> DEFINE u == [s EXCEPT !.login_timer = None]
             q == s.login_timer
  <2>1. PICK f \in Failures : s' = LoginEh(u, q, "TIMEOUT", f)
    BY <1>3 DEF LoginTimerFires
  <2>2. s.state \in {"XPT_WAIT", "IN_LOGIN"}
    BY <1>2, <1>3 DEF LoginTimerFires, Base, Phase, Up, Broken, Gone, ConnState
  <2>3. Good(u) /\ Sets(s, u, "login_timer", None)
    BY SetTimers, FieldSet
  <2>4. /\ Mid(s, q)
        /\ s.state = "XPT_WAIT" => s.k = (IF s.id THEN "conn" ELSE "none") /\ Hushed(s)
        /\ s.state = "IN_LOGIN" => s.id /\ s.k = "bound"
    BY <1>2, <2>2, LoginUnderWay
  <2> HIDE DEF u, q
  <2>5. Kept(s, u) /\ u.state = s.state /\ u.k = s.k /\ u.nl = s.nl /\ u.ready = s.ready
    BY <2>3 DEF Sets, Fields, Kept
  <2>6. u.req = s.req /\ u.live = s.live /\ u.id = s.id
    BY <2>5 DEF Kept
  <2>7. NoNew(s, u) /\ NlUnmarked(u) /\ (Hushed(s) => Hushed(u))
    BY <1>2, <2>5 DEF NoNew, Has, Base, NlUnmarked, Hushed
  <2>8. Mid(u, q)
    BY <2>4, <2>5, <2>7, MidKept
  <2>9. u.state \in {"XPT_WAIT", "IN_LOGIN"}
    BY <2>2, <2>5
  <2>10. u.state = "XPT_WAIT" => u.k = (IF u.id THEN "conn" ELSE "none") /\ Hushed(u)
    BY <2>4, <2>5, <2>6, <2>7
  <2>11. u.state = "IN_LOGIN" => u.id /\ u.k = "bound"
    BY <2>4, <2>5, <2>6
  <2>12. Settled(u, LoginEh(u, q, "TIMEOUT", f), q)
    BY <1>1, <2>3, <2>8, <2>9, <2>10, <2>11, LoginEhSettles, SMTT(30)
  <2>13. Settled(u, s', q)
    BY <2>1, <2>12
  <2>14. Settled(s, s', q)
    BY <2>6, <2>13, SettledFrom, SMTT(30)
  <2>15. QED
    BY <2>14 DEF q
<1>4. CASE NopTimerFires
  <2> DEFINE u == [s EXCEPT !.nop_timer = "off"]
  <2>1. s' = ConnSendNopOut(u) \/ \E f \in Failures : s' = ConnErrorHandle(u, f)
    BY <1>4 DEF NopTimerFires
  <2>2. Good(u) /\ Alike(s, u)
    BY SetTimers, PlainFieldSet
  <2> HIDE DEF u
  <2>3. Inv(u) /\ Base(u)
    BY <2>2, InvAlike DEF Inv
  <2>4. u.login_timer = s.login_timer /\ u.req = s.req /\ u.live = s.live
    BY <2>2 DEF Alike, Kept
  <2>5. Settled(u, ConnSendNopOut(u), s.login_timer)
    BY <2>2, <2>3, NopSettles, SMTT(30)
  <2>6. \A f \in Failures : Settled(u, ConnErrorHandle(u, f), s.login_timer)
    BY <1>1, <2>2, <2>3, <2>4, ErrorSettles, SMTT(30)
  <2>7. Settled(u, s', s.login_timer)
    BY <2>1, <2>5, <2>6
  <2>8. QED
    BY <2>4, <2>7, SettledFrom
<1>5. QED
  BY <1>3, <1>4

(* A timer of the pending list. *)
LEMMA PendingSettle ==
  ASSUME Good(s), Inv(s), Reliable, PollTimerFires \/ LogoutTimerFires PROVE Settled(s, s', s.login_timer)
<1>1. \A f \in Failures : Works(f)
  BY FailuresWork
<1>2. Base(s) /\ s.state \in ConnState
  BY TypedRecord DEF Good, FieldTypes, Inv
<1>3. ASSUME NEW c \in s.pend
      PROVE  /\ Good(TimerOff(c)) /\ Base(TimerOff(c)) /\ TimerOff(c).state = s.state
             /\ TimerOff(c).login_timer = s.login_timer /\ TimerOff(c).req = s.req /\ TimerOff(c).live = s.live
             /\ c.ev = "POLL" => /\ s.state = "XPT_WAIT" /\ c.q = s.login_timer
                                 /\ NoPoll(TimerOff(c)) /\ Cleared(TimerOff(c))
  <2> DEFINE u == TimerOff(c)
  <2>1. Good(u) /\ u.pend = s.pend \ {c} /\ Only(s, u, {"pend", "pool"}) /\ (c.ev = "POLL" => NoPoll(u))
    BY TimerTaken DEF Only
  <2> HIDE DEF u
  <2>2. /\ Kept(s, u) /\ u.state = s.state /\ u.login = s.login /\ u.login_timer = s.login_timer
        /\ u.k = s.k /\ u.ready = s.ready /\ u.nl = s.nl
    BY <2>1 DEF Only, Fields, Kept
  <2>3. Follows(s, u)
    BY <2>1, <2>2 DEF Follows
  <2>4. s.state # "FREE"
    BY <1>2 DEF Base, Phase, Gone
  <2>5. s.state = "XPT_WAIT" => Order(s)
    BY <1>2 DEF Base, Phase, Waiting
  <2>6. Order(s) => Order(u)
    BY <2>1, <2>2 DEF Order, Cleared
  <2>7. Base(u)
    BY <1>2, <2>3, <2>4, <2>5, <2>6, FollowsBase
  <2>8. ASSUME c.ev = "POLL" PROVE s.state = "XPT_WAIT" /\ c.q = s.login_timer /\ Cleared(u)
    <3>1. ~ NoPoll(s)
      BY <2>8 DEF NoPoll
    <3>2. s.state = "XPT_WAIT"
      BY <1>2, <2>4, <3>1 DEF Base, Phase, LoggingIn, Up, Broken, ConnState
    <3>3. c.q = s.login_timer
      BY <1>2, <2>8, <3>2 DEF Base, Phase, Waiting, PollsFor
    <3>4. Cleared(u)
      BY <2>2, <2>5, <2>8, <3>2 DEF Order, Cleared
    <3>5. QED
      BY <3>2, <3>3, <3>4
  <2>9. u.req = s.req /\ u.live = s.live
    BY <2>2 DEF Kept
  <2>10. QED
    BY <2>1, <2>2, <2>7, <2>8, <2>9 DEF u
<1>4. CASE PollTimerFires
  <2>1. PICK c \in s.pend, f \in Failures, r \in {"wait", "connected", "error"} :
          c.ev = "POLL" /\ s' = SessionConnPoll([s EXCEPT !.pend = @ \ {c}, !.pool = @ - 1], c.q, r, f)
    BY <1>4 DEF PollTimerFires
  <2> DEFINE u == TimerOff(c)
  <2>2. s' = SessionConnPoll(u, c.q, r, f)
    BY <2>1 DEF TimerOff
  <2>3. /\ Good(u) /\ Base(u) /\ u.state = s.state /\ u.login_timer = s.login_timer /\ u.req = s.req /\ u.live = s.live
        /\ s.state = "XPT_WAIT" /\ c.q = s.login_timer /\ NoPoll(u) /\ Cleared(u)
    BY <1>3, <2>1
  <2> HIDE DEF u
  <2>4. Settled(u, SessionConnPoll(u, u.login_timer, r, f), u.login_timer)
    BY <1>1, <2>3, PollSettles, SMTT(30)
  <2>5. Settled(u, s', s.login_timer)
    BY <2>2, <2>3, <2>4
  <2>6. QED
    BY <2>3, <2>5, SettledFrom
<1>5. CASE LogoutTimerFires
  <2>1. PICK c \in s.pend, f \in Failures :
          s' = ConnErrorHandle([s EXCEPT !.pend = @ \ {c}, !.pool = @ - 1], f)
    BY <1>5 DEF LogoutTimerFires
  <2> DEFINE u == TimerOff(c)
  <2>2. s' = ConnErrorHandle(u, f)
    BY <2>1 DEF TimerOff
  <2>3. Good(u) /\ Base(u) /\ u.login_timer = s.login_timer /\ u.req = s.req /\ u.live = s.live
    BY <1>3
  <2> HIDE DEF u
  <2>4. Settled(u, ConnErrorHandle(u, f), u.login_timer)
    BY <1>1, <2>3, ErrorSettles, SMTT(30)
  <2>5. Settled(u, s', s.login_timer)
    BY <2>2, <2>3, <2>4
  <2>6. QED
    BY <2>3, <2>5, SettledFrom, SMTT(30)
<1>6. QED
  BY <1>4, <1>5
==============================================================================
