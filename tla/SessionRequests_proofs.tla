----------------------- MODULE SessionRequests_proofs ------------------------
(* The requests of a software session: the handlers of management requests, every action of the *)
(* specification, and the theorems about who is answered, when, and with what.                  *)
EXTENDS SessionSteps_proofs, SessionTimers_proofs

USE ZenonT(60)

(* u is t with something else known about the request r, for which nobody waits yet. *)
Requested(t, u, r) ==
    /\ Only(t, u, {"req", "kind", "retry"})
    /\ \A x \in Req \ {r} : u.req[x] = t.req[x] /\ u.kind[x] = t.kind[x] /\ u.retry[x] = t.retry[x]
    /\ t.req[r] \in {"idle", "open"} /\ r \notin {t.login_timer, t.logout}

(* The rest of the session is as it was. *)
LEMMA RequestedFields ==
  ASSUME NEW t, NEW u, NEW r, Requested(t, u, r)
  PROVE  /\ u.live = t.live /\ u.id = t.id /\ u.state = t.state /\ u.r_stage = t.r_stage /\ u.notify = t.notify
         /\ u.logout = t.logout /\ u.login = t.login /\ u.login_timer = t.login_timer /\ u.ready = t.ready
         /\ u.pend = t.pend /\ u.k = t.k /\ u.nl = t.nl /\ u.dropped = t.dropped /\ u.unbinding = t.unbinding
BY DEF Requested, Only, Fields

(* The request is refused, or put off. *)
LEMMA RequestedSettles ==
  ASSUME NEW t, Inv(t), NEW u, NEW r \in Req, Requested(t, u, r),
         \/ u.req[r] = "err" /\ ~ (u.retry[r] > 0)
         \/ u.req[r] = "open" /\ u.retry[r] > 0 /\ u.kind[r] = "login"
  PROVE  Settled(t, u, t.login_timer)
<1>1. /\ u.live = t.live /\ u.id = t.id /\ u.state = t.state /\ u.r_stage = t.r_stage /\ u.notify = t.notify
      /\ u.logout = t.logout /\ u.login = t.login /\ u.login_timer = t.login_timer /\ u.ready = t.ready
      /\ u.pend = t.pend /\ u.k = t.k /\ u.nl = t.nl /\ u.dropped = t.dropped /\ u.unbinding = t.unbinding
  BY RequestedFields
<1>2. Base(t) /\ Sup(t)
  BY DEF Inv
<1>3. \A x \in Req \ {r} : u.req[x] = t.req[x] /\ u.kind[x] = t.kind[x] /\ u.retry[x] = t.retry[x]
  BY DEF Requested
<1>4. r \notin {t.login_timer, t.logout}
  BY DEF Requested
<1>5. ReqsFor(u, {u.login_timer, u.logout}) /\ LoginKind(u, u.login_timer) /\ LogoutKind(u, u.logout)
  <2>1. ReqsFor(t, {t.login_timer, t.logout}) /\ LoginKind(t, t.login_timer) /\ LogoutKind(t, t.logout)
    BY <1>2 DEF Base
  <2>2. LoginKind(u, u.login_timer) /\ LogoutKind(u, u.logout)
    BY <1>1, <1>3, <1>4, <2>1 DEF LoginKind, LogoutKind
  <2>3. ReqsFor(u, {t.login_timer, t.logout})
    BY <1>3, <1>4, <2>1, SMTT(30) DEF ReqsFor
  <2>4. QED
    BY <1>1, <2>2, <2>3
<1>6. NlUnmarked(u) /\ Tracked(u)
  BY <1>1, <1>2 DEF Base, NlUnmarked, Tracked, Has
<1>7. Phase(u)
  <2>1. Waiting(t) => Waiting(u)
    BY <1>1 DEF Waiting, Awaits, PollsFor, Order, Hushed, Cleared
  <2>2. (LoggingIn(t) => LoggingIn(u)) /\ (Up(t) => Up(u)) /\ (Broken(t) => Broken(u)) /\ (Gone(t) => Gone(u))
    BY <1>1 DEF LoggingIn, Awaits, Up, Broken, Gone, NoPoll, Unmarked
  <2>3. QED
    BY <1>1, <1>2, <2>1, <2>2 DEF Base, Phase
<1>8. Base(u)
  BY <1>1, <1>2, <1>5, <1>6, <1>7 DEF Base
<1>9. Sup(u)
  BY <1>1, <1>2 DEF Sup, StopComes, Has
<1>10. Truthful(t, u)
  BY <1>3 DEF Truthful
<1>11. Clean(t, u, t.login_timer)
  BY <1>1, <1>3, <1>4 DEF Clean
<1>12. QED
  BY <1>8, <1>9, <1>10, <1>11 DEF Settled, Inv

(* The answer of a later handler counts for the whole. *)
LEMMA SettledAfter ==
  ASSUME NEW t, NEW o, NEW u, NEW p, Settled(o, u, p), \A x \in Req : t.req[x] # "ok" => o.req[x] # "ok",
         t.live => o.live, NEW q, q \notin Req
  PROVE  Settled(t, u, q)
<1>1. Inv(u) /\ Truthful(o, u) /\ Clean(o, u, p)
  BY DEF Settled
<1>2. Truthful(t, u)
  BY <1>1 DEF Truthful
<1>3. Clean(t, u, q)
  BY <1>1 DEF Clean
<1>4. QED
  BY <1>1, <1>2, <1>3 DEF Settled

(* A request arrives. *)
LEMMA OpenOut ==
  ASSUME NEW t, Good(t), NEW r \in Req, NEW kind, NEW u, u = Open(t, r, kind)
  PROVE  /\ Only(t, u, {"req", "kind"}) /\ u.req[r] = "open" /\ u.kind[r] = kind
         /\ \A x \in Req \ {r} : u.req[x] = t.req[x] /\ u.kind[x] = t.kind[x]
<1>1. Shaped(t)
  BY DEF Good, Typed
<1>2. t.req \in [Req -> {"idle", "open", "ok", "err", "twice"}] /\ t.kind \in [Req -> {"none", "login", "logout", "sync"}]
  BY TypedRecord DEF Good, FieldTypes
<1>3. u = [t EXCEPT !.req = [t.req EXCEPT ![r] = "open"], !.kind = [t.kind EXCEPT ![r] = kind]]
  BY DEF Open
<1>4. u.req = [t.req EXCEPT ![r] = "open"] /\ u.kind = [t.kind EXCEPT ![r] = kind]
  BY <1>1, <1>3 DEF Shaped, Fields
<1>5. \A x \in Fields \ {"req", "kind"} : u[x] = t[x]
  BY <1>1, <1>3 DEF Shaped
<1>6. QED
  BY <1>2, <1>4, <1>5 DEF Only

(* The retry counter of a request *)
LEMMA RetryOut ==
  ASSUME NEW t, Good(t), NEW r \in Req, NEW n, NEW u, u = [t EXCEPT !.retry[r] = n]
  PROVE  Only(t, u, {"retry"}) /\ u.retry[r] = n /\ \A x \in Req \ {r} : u.retry[x] = t.retry[x]
<1>1. Shaped(t)
  BY DEF Good, Typed
<1>2. t.retry \in [Req -> 0 .. HostRetryMax]
  BY TypedRecord DEF Good, FieldTypes
<1>3. u = [t EXCEPT !.retry = [t.retry EXCEPT ![r] = n]]
  OBVIOUS
<1>4. u.retry = [t.retry EXCEPT ![r] = n]
  BY <1>1, <1>3 DEF Shaped, Fields
<1>5. \A x \in Fields \ {"retry"} : u[x] = t[x]
  BY <1>1, <1>3 DEF Shaped
<1>6. QED
  BY <1>2, <1>4, <1>5 DEF Only

(* A request is turned away. *)
LEMMA RequestRefused ==
  ASSUME NEW t, Inv(t), NEW o, Good(o), NEW r \in Req, Requested(t, o, r), o.req[r] = "open", ~ (o.retry[r] > 0)
  PROVE  Settled(t, WriteRsp(o, r, "err"), t.login_timer)
<1> DEFINE u == WriteRsp(o, r, "err")
<1>1. Only(o, u, {"req"}) /\ Replied(o, u, r, "err")
  BY AnswerOut
<1> HIDE DEF u
<1>2. u.req[r] = "err" /\ \A x \in Req \ {r} : u.req[x] = o.req[x]
  BY <1>1 DEF Replied
<1>3. Only(t, u, {"req", "kind", "retry"}) /\ u.kind = o.kind /\ u.retry = o.retry
  BY <1>1 DEF Requested, Only, Fields
<1>4. Requested(t, u, r)
  BY <1>2, <1>3 DEF Requested
<1>5. ~ (u.retry[r] > 0)
  BY <1>3
<1>6. Settled(t, u, t.login_timer)
  BY <1>2, <1>4, <1>5, RequestedSettles, SMTT(30)
<1>7. QED
  BY <1>6 DEF u

(***************************************************************************)
(* The handlers of the requests.                                           *)
(***************************************************************************)
(* A session that does not exist *)
LEMMA NobodyThere ==
  ASSUME NEW t, Good(t), Base(t), ~ t.live
  PROVE  /\ t.state = "FREE" /\ Gone(t)
         /\ ~ Forgets => ~ Has(t, "INVALID_HOST") /\ ~ Has(t, "STOP") /\ ~ t.unbinding
<1>1. t.state \in ConnState
  BY TypedRecord DEF Good, FieldTypes
<1>2. t.state = "FREE" /\ Gone(t)
  BY <1>1 DEF ConnState, Base, Phase, Waiting, LoggingIn, Up, Broken
<1>3. QED
  BY <1>2 DEF Base, Tracked, Gone

(* The request for a session that is made for it. *)
LEMMA ForNewcomer ==
  ASSUME NEW t, Base(t), Gone(t), NEW o, NEW r \in Req, Requested(t, o, r), o.req[r] = "open", ~ (o.retry[r] > 0),
         NEW n, n.req = o.req, n.kind = o.kind, n.retry = o.retry
  PROVE  ReqsFor(n, {r})
<1>1. ReqsFor(t, {t.login_timer, t.logout}) /\ t.login_timer = None /\ t.logout = None
  BY DEF Base, Gone
<1>2. \A x \in Req \ {r} : n.req[x] = t.req[x] /\ n.kind[x] = t.kind[x] /\ n.retry[x] = t.retry[x]
  BY DEF Requested
<1>3. n.req[r] = "open" /\ ~ (n.retry[r] > 0)
  OBVIOUS
<1>4. QED
  BY <1>1, <1>2, <1>3, ReqAssumption, SMTT(30) DEF ReqsFor

(* A new request is not answered yet. *)
LEMMA NotYetOk ==
  ASSUME NEW t, NEW o, NEW r, Requested(t, o, r), o.req[r] = "open"
  PROVE  \A x \in Req : t.req[x] # "ok" => o.req[x] # "ok"
BY DEF Requested

(* __session_login_task *)
LEMMA StartSettles ==
  ASSUME NEW t, Good(t), Base(t), ~ t.live, t.k = "none", NEW o, Good(o), NEW r \in Req, Requested(t, o, r),
         o.req[r] = "open", ~ (o.retry[r] > 0), o.kind[r] = "login", NEW f, Works(f)
  PROVE  Settled(t, StartLogin(o, r, f), t.login_timer)
<1> DEFINE n == NewSession(o)
           x == Fresh(o)
           u == StartLogin(o, r, f)
<1>1. Gone(t) /\ (~ Forgets => ~ t.unbinding)
  BY NobodyThere
<1>2. Good(n) /\ NoPoll(n)
  BY NewGood
<1>3. u = ConnConnect(n, r, f)
  BY DEF StartLogin, NewSession
<1>4. Shaped(o)
  BY DEF Good, Typed
<1>5. /\ x.id = FALSE /\ x.r_stage = "NO_CHANGE" /\ x.notify = None /\ x.logout = None /\ x.ready = <<>> /\ x.pend = {}
      /\ x.nl = <<>> /\ x.retry = o.retry /\ x.k = o.k /\ x.unbinding = o.unbinding /\ x.req = o.req /\ x.kind = o.kind
  BY <1>4, FreshValues, FreshKeeps
<1>6. Shaped(x)
  BY <1>4, FreshShape
<1>7. n = [x EXCEPT !.live = TRUE, !.state = "XPT_WAIT"]
  BY DEF NewSession
<1> HIDE DEF n, x, u
<1>8. n.live = TRUE /\ n.state = "XPT_WAIT" /\ \A y \in Fields \ {"live", "state"} : n[y] = x[y]
  BY <1>6, <1>7 DEF Shaped, Fields
<1>9. /\ n.id = FALSE /\ n.r_stage = "NO_CHANGE" /\ n.notify = None /\ n.logout = None /\ n.ready = <<>> /\ n.pend = {}
      /\ n.nl = <<>> /\ n.retry = o.retry /\ n.k = o.k /\ n.unbinding = o.unbinding /\ n.req = o.req /\ n.kind = o.kind
  BY <1>5, <1>8 DEF Fields
<1>10. n.k = "none" /\ (~ Forgets => ~ n.unbinding) /\ DOMAIN n.ready = {} /\ DOMAIN n.nl = {}
  <2>1. DOMAIN n.ready = {} /\ DOMAIN n.nl = {}
    BY <1>9, SMTT(30)
  <2>2. QED
    BY <1>1, <1>9, <2>1, RequestedFields
<1>11. Mid(n, r)
  <2>1. ReqsFor(n, {r})
    BY <1>1, <1>9, ForNewcomer
  <2>2. Awaits(n, r) /\ LoginKind(n, r)
    BY <1>9 DEF Awaits, LoginKind, Qtask
  <2>3. NlUnmarked(n) /\ Tracked(n)
    BY <1>10 DEF NlUnmarked, Tracked, Has
  <2>4. QED
    BY <1>8, <1>9, <2>1, <2>2, <2>3 DEF Mid
<1>12. Idle(n, n, FALSE)
  BY <1>2, <1>8, <1>9 DEF Idle, Kept, NoNew
<1>13. Reopened(n, u, r, FALSE)
  BY <1>2, <1>3, <1>12, ConnectOut DEF Qtask
<1>14. Hushed(n)
  BY <1>10 DEF Hushed
<1>15. Settled(n, u, r)
  BY <1>9, <1>10, <1>11, <1>13, <1>14, ReopenedSettles
<1>16. \A y \in Req : t.req[y] # "ok" => n.req[y] # "ok"
  BY <1>9, NotYetOk
<1>17. t.login_timer \notin Req
  BY <1>1, ReqAssumption DEF Gone
<1>18. Settled(t, u, t.login_timer)
  BY <1>15, <1>16, <1>17, SettledAfter, SMTT(30)
<1>19. QED
  BY <1>18 DEF u

(* iscsi_sync_session *)
LEMMA SyncSettles ==
  ASSUME NEW t, Good(t), Inv(t), t.k # "none", NEW o, Good(o), NEW r \in Req, Requested(t, o, r),
         o.req[r] = "open", ~ (o.retry[r] > 0), o.kind[r] = "sync", NEW f, Works(f)
  PROVE  Settled(t, SyncSession(o, r, f), t.login_timer)
<1> DEFINE n == TakenOver(o, r)
           x == Fresh(o)
           u == SessionConnReopen(n, r, TRUE, f)
<1>0. Base(t)
  BY DEF Inv
<1>1. SyncSession(o, r, f) = WriteRsp(o, r, "err") \/ (~ t.live /\ SyncSession(o, r, f) = u)
  <2>1. o.live = t.live
    BY RequestedFields
  <2>2. QED
    BY <2>1 DEF SyncSession, TakenOver
<1>2. Settled(t, WriteRsp(o, r, "err"), t.login_timer)
  BY RequestRefused
<1>3. ASSUME ~ t.live PROVE Settled(t, u, t.login_timer)
  <2>1. Gone(t) /\ (~ Forgets => ~ Has(t, "INVALID_HOST") /\ ~ Has(t, "STOP") /\ ~ t.unbinding)
    BY <1>0, <1>3, NobodyThere
  <2>2. Good(n)
    BY TakenOverGood
  <2>3. Shaped(o)
    BY DEF Good, Typed
  <2>4. /\ x.logout = None /\ x.ready = <<>> /\ x.retry = o.retry /\ x.k = o.k /\ x.unbinding = o.unbinding
        /\ x.req = o.req /\ x.kind = o.kind
    BY <2>3, FreshValues, FreshKeeps
  <2>5. Shaped(x)
    BY <2>3, FreshShape
  <2>6. n = [x EXCEPT !.live = TRUE, !.id = TRUE, !.state = "CLEANUP_WAIT", !.r_stage = "REOPEN", !.notify = r, !.nl = o.nl]
    BY DEF TakenOver
  <2> HIDE DEF n, x, u
  <2>7. /\ n.live = TRUE /\ n.id = TRUE /\ n.r_stage = "REOPEN" /\ n.notify = r /\ n.nl = o.nl
        /\ \A y \in Fields \ {"live", "id", "state", "r_stage", "notify", "nl"} : n[y] = x[y]
    BY <2>5, <2>6 DEF Shaped, Fields
  <2>8. /\ n.logout = None /\ n.ready = <<>> /\ n.retry = o.retry /\ n.k = o.k /\ n.unbinding = o.unbinding
        /\ n.req = o.req /\ n.kind = o.kind
    <3>1. /\ n.logout = x.logout /\ n.ready = x.ready /\ n.retry = x.retry /\ n.k = x.k /\ n.unbinding = x.unbinding
          /\ n.req = x.req /\ n.kind = x.kind
      BY <2>7, SMTT(30) DEF Fields
    <3>2. QED
      BY <2>4, <3>1
  <2>9. n.k = t.k /\ n.unbinding = t.unbinding /\ n.nl = t.nl
    <3>1. o.k = t.k /\ o.unbinding = t.unbinding /\ o.nl = t.nl
      BY RequestedFields
    <3>2. QED
      BY <2>7, <2>8, <3>1
  <2>10. DOMAIN n.ready = {}
    BY <2>8, SMTT(30)
  <2>11. n.k \notin {"none", "session"}
    BY <1>0, <2>9 DEF Base
  <2>12. Mid(n, r)
    <3>1. ReqsFor(n, {r})
      BY <1>0, <2>1, <2>8, ForNewcomer
    <3>2. Awaits(n, r) /\ LoginKind(n, r)
      BY <2>7, <2>8, ReqAssumption DEF Awaits, LoginKind, Qtask
    <3>3. NlUnmarked(n) /\ Tracked(n)
      BY <1>0, <2>1, <2>9, <2>10 DEF Base, NlUnmarked, Tracked, Has
    <3>4. QED
      BY <2>7, <2>8, <3>1, <3>2, <3>3 DEF Mid
  <2>13. Reopened(n, u, r, TRUE)
    BY <2>2, <2>11, FailbackReopenOut DEF Qtask, u
  <2>14. Settled(n, u, r)
    BY <2>7, <2>12, <2>13, ReopenedSettles
  <2>15. \A y \in Req : t.req[y] # "ok" => n.req[y] # "ok"
    BY <2>8, NotYetOk
  <2>16. t.login_timer \notin Req
    BY <2>1, ReqAssumption DEF Gone
  <2>17. QED
    BY <1>3, <2>14, <2>15, <2>16, SettledAfter, SMTT(30)
<1>4. QED
  BY <1>1, <1>2, <1>3

(* session_login_task *)
LEMMA LoginTaskSettles ==
  ASSUME NEW t, Good(t), Inv(t), NEW o, Good(o), NEW r \in Req, Requested(t, o, r),
         o.req[r] = "open", ~ (o.retry[r] > 0), o.kind[r] = "login", NEW f, Works(f)
  PROVE  Settled(t, SessionLoginTask(o, r, f), t.login_timer)
<1> DEFINE w == [o EXCEPT !.retry[r] = 1]
<1>1. \/ SessionLoginTask(o, r, f) \in {w, WriteRsp(o, r, "err")}
      \/ ~ t.live /\ t.k = "none" /\ SessionLoginTask(o, r, f) = StartLogin(o, r, f)
  <2>1. o.live = t.live /\ o.k = t.k
    BY RequestedFields
  <2>2. LoginTaskResult(o, f) \in {"SUCCESS", "HOST_NOT_FOUND", "LOGIN", "SESS_EXISTS"}
    BY DEF LoginTaskResult
  <2>3. LoginTaskResult(o, f) = "SUCCESS" => ~ o.live /\ o.k = "none"
    BY DEF LoginTaskResult
  <2>4. QED
    BY <2>1, <2>2, <2>3 DEF SessionLoginTask
<1>2. Settled(t, WriteRsp(o, r, "err"), t.login_timer)
  BY RequestRefused
<1>3. ~ t.live /\ t.k = "none" => Settled(t, StartLogin(o, r, f), t.login_timer)
  BY StartSettles DEF Inv
<1>4. Settled(t, w, t.login_timer)
  <2> DEFINE m == 1
  <2>0. w = [o EXCEPT !.retry[r] = m]
    OBVIOUS
  <2> HIDE DEF w, m
  <2>0a. Only(o, w, {"retry"}) /\ w.retry[r] = m /\ \A x \in Req \ {r} : w.retry[x] = o.retry[x]
    BY <2>0, RetryOut, SMTT(60)
  <2>1. Only(o, w, {"retry"}) /\ w.retry[r] = 1 /\ \A x \in Req \ {r} : w.retry[x] = o.retry[x]
    BY <2>0a DEF m
  <2>2. Only(t, w, {"req", "kind", "retry"}) /\ w.req = o.req /\ w.kind = o.kind
    BY <2>1 DEF Requested, Only, Fields
  <2>3. Requested(t, w, r)
    BY <2>1, <2>2 DEF Requested
  <2>4. w.retry[r] > 0 /\ w.req[r] = "open" /\ w.kind[r] = "login"
    BY <2>1, <2>2, SMTT(30)
  <2>5. QED
    BY <2>3, <2>4, RequestedSettles, SMTT(30)
<1>5. QED
  BY <1>1, <1>2, <1>3, <1>4

(* session_login_task_retry *)
LEMMA LoginRetrySettles ==
  ASSUME NEW t, Good(t), Inv(t), NEW r \in Req, t.retry[r] > 0, NEW f, Works(f)
  PROVE  Settled(t, SessionLoginTaskRetry(t, r, f), t.login_timer)
<1> DEFINE a == [t EXCEPT !.retry[r] = 0]
           b == [t EXCEPT !.retry[r] = t.retry[r] + 1]
<1>1. t.req[r] = "open" /\ r \notin {t.login_timer, t.logout} /\ t.kind[r] = "login"
  BY DEF Inv, Base, ReqsFor
<1>2. \/ SessionLoginTaskRetry(t, r, f) \in {b, WriteRsp(a, r, "err")}
      \/ ~ t.live /\ t.k = "none" /\ SessionLoginTaskRetry(t, r, f) = StartLogin(a, r, f)
  <2>1. b = [t EXCEPT !.retry[r] = @ + 1]
    OBVIOUS
  <2> HIDE DEF b
  <2>2. QED
    BY <2>1 DEF SessionLoginTaskRetry, LoginTaskResult
<1>5. Good(a)
  <2> DEFINE v == [t.retry EXCEPT ![r] = 0]
  <2>1. t.retry \in [Req -> 0 .. HostRetryMax] /\ 0 \in 0 .. HostRetryMax
    <3>1. 0 \in 0 .. HostRetryMax
      BY BoundAssumption, SMTT(30)
    <3>2. QED
      BY <3>1, TypedRecord DEF Good, FieldTypes
  <2>2. v \in [Req -> 0 .. HostRetryMax] /\ a = [t EXCEPT !.retry = v]
    BY <2>1
  <2> HIDE DEF v
  <2>3. QED
    BY <2>2, SetRequests
<1>5a. a = [t EXCEPT !.retry[r] = 0] /\ b = [t EXCEPT !.retry[r] = t.retry[r] + 1]
  OBVIOUS
<1> HIDE DEF a, b
<1>3. Only(t, a, {"retry"}) /\ a.retry[r] = 0 /\ \A x \in Req \ {r} : a.retry[x] = t.retry[x]
  BY <1>5a, RetryOut, SMTT(30)
<1>4. Only(t, b, {"retry"}) /\ b.retry[r] = t.retry[r] + 1 /\ \A x \in Req \ {r} : b.retry[x] = t.retry[x]
  BY <1>5a, RetryOut, SMTT(30)
<1>6. Requested(t, a, r) /\ a.req = t.req /\ a.kind = t.kind
  BY <1>1, <1>3 DEF Requested, Only, Fields
<1>7. Requested(t, b, r) /\ b.req = t.req /\ b.kind = t.kind
  BY <1>1, <1>4 DEF Requested, Only, Fields
<1>8. a.req[r] = "open" /\ ~ (a.retry[r] > 0) /\ a.kind[r] = "login"
  BY <1>1, <1>3, <1>6, SMTT(30)
<1>9. b.req[r] = "open" /\ b.retry[r] > 0 /\ b.kind[r] = "login"
  <2>1. t.retry[r] \in Nat
    <3>1. t.retry \in [Req -> 0 .. HostRetryMax]
      BY TypedRecord DEF Good, FieldTypes
    <3>2. QED
      BY <3>1, BoundAssumption, SMTT(30)
  <2>2. QED
    BY <1>1, <1>4, <1>7, <2>1, SMTT(30)
<1>10. Settled(t, b, t.login_timer)
  BY <1>7, <1>9, RequestedSettles, SMTT(30)
<1>11. Settled(t, WriteRsp(a, r, "err"), t.login_timer)
  BY <1>5, <1>6, <1>8, RequestRefused
<1>12. ~ t.live /\ t.k = "none" => Settled(t, StartLogin(a, r, f), t.login_timer)
  BY <1>5, <1>6, <1>8, StartSettles DEF Inv
<1>13. QED
  BY <1>2, <1>10, <1>11, <1>12

(* session_logout_task *)
LEMMA LogoutTaskSettles ==
  ASSUME NEW t, Good(t), Inv(t), NEW o, Good(o), NEW r \in Req, Requested(t, o, r),
         o.req[r] = "open", ~ (o.retry[r] > 0), o.kind[r] = "logout", NEW f, Works(f)
  PROVE  Settled(t, SessionLogoutTask(o, r, f), t.login_timer)
<1> DEFINE a == [o EXCEPT !.logout = r]
           b == KipcCall(a)
           c == SendLogout(b, f)
           w == [b EXCEPT !.unbinding = TRUE]
           u == SessionLogoutTask(o, r, f)
<1>1. \/ u = WriteRsp(o, r, "err")
      \/ /\ ~ LogoutRefused(o, f)
         /\ \/ o.state # "LOGGED_IN" /\ u = DropForLogout(a, r, f)
            \/ o.state = "LOGGED_IN" /\ u = w
            \/ o.state = "LOGGED_IN" /\ "unbind" \in f /\ u \in {c, DropForLogout(c, r, f)}
  BY DEF SessionLogoutTask, Works
<1>2. Settled(t, WriteRsp(o, r, "err"), t.login_timer)
  BY RequestRefused
<1>3. Good(a) /\ Sets(o, a, "logout", r)
  BY SetOwner, FieldSet
<1> HIDE DEF a, u
<1>4. ASSUME ~ LogoutRefused(o, f), u # WriteRsp(o, r, "err") PROVE Settled(t, u, t.login_timer)
  <2>0. Base(t) /\ t.state \in ConnState
    BY TypedRecord DEF Good, FieldTypes, Inv
  <2>1. /\ o.live = t.live /\ o.id = t.id /\ o.state = t.state /\ o.r_stage = t.r_stage /\ o.notify = t.notify
        /\ o.logout = t.logout /\ o.login_timer = t.login_timer /\ o.ready = t.ready
        /\ o.pend = t.pend /\ o.k = t.k /\ o.nl = t.nl /\ o.unbinding = t.unbinding
    BY RequestedFields, SMTT(30)
  <2>2. t.live /\ t.id /\ t.notify = None /\ t.logout = None /\ ~ InitialLogin(o)
    BY <1>4, <2>1 DEF LogoutRefused
  <2>3. t.login_timer \notin Req
    <3>1. t.state # "FREE"
      BY <2>0, <2>2 DEF Base, Phase, Gone
    <3>2. CASE t.state \in {"XPT_WAIT", "IN_LOGIN"}
      <4>1. Mid(t, t.login_timer) /\ t.r_stage \notin {"NO_CHANGE", "REDIRECT"}
        BY <2>0, <2>1, <2>2, <3>2, LoginUnderWay DEF InitialLogin
      <4>2. QED
        BY <2>2, <4>1, ReqAssumption DEF Mid, Awaits
    <3>3. CASE t.state \in {"LOGGED_IN", "IN_LOGOUT", "CLEANUP_WAIT"}
      BY <2>0, <3>3, ReqAssumption DEF Base, Phase, Up, Broken
    <3>4. QED
      BY <2>0, <3>1, <3>2, <3>3 DEF ConnState
  <2>4. /\ a.logout = r /\ a.live = o.live /\ a.id = o.id /\ a.state = o.state /\ a.notify = o.notify
        /\ a.login_timer = o.login_timer /\ a.ready = o.ready /\ a.pend = o.pend /\ a.k = o.k /\ a.nl = o.nl
        /\ a.req = o.req /\ a.kind = o.kind /\ a.retry = o.retry
    BY <1>3 DEF Sets, Fields
  <2>5. ReqsFor(a, {r}) /\ ReqsFor(a, {t.login_timer, r})
    <3>1. ReqsFor(t, {t.login_timer, t.logout}) /\ t.logout = None
      BY <2>0, <2>2 DEF Base
    <3>2. \A x \in Req \ {r} : a.req[x] = t.req[x] /\ a.kind[x] = t.kind[x] /\ a.retry[x] = t.retry[x]
      BY <2>4 DEF Requested
    <3>3. a.req[r] = "open" /\ ~ (a.retry[r] > 0)
      BY <2>4
    <3>4. QED
      BY <2>3, <3>1, <3>2, <3>3, ReqAssumption, SMTT(30) DEF ReqsFor
  <2>6. LogoutKind(a, r)
    BY <2>4 DEF LogoutKind
  <2>7. \A x \in Req : t.req[x] # "ok" => a.req[x] # "ok"
    BY <2>4, NotYetOk
  <2>8. a.live /\ a.id
    BY <2>1, <2>2, <2>4
  <2>9. ASSUME NEW v, v.req = a.req, v.live = a.live, NEW d, Settled(v, d, t.login_timer)
        PROVE  Settled(t, d, t.login_timer)
    BY <2>3, <2>7, <2>8, <2>9, SettledAfter
  <2>10. CASE o.state # "LOGGED_IN"
    <3> DEFINE d == SessionConnShutdown(a, r, "ok", f)
    <3>1. Freed(a, d, r, "ok")
      BY <1>3, <2>8, ShutdownOut
    <3>2. u = DropForLogout(a, r, f)
      BY <1>1, <1>4, <2>10
    <3>3. u = d
      BY <3>1, <3>2 DEF DropForLogout, Freed, Gone
    <3> HIDE DEF d
    <3>4. Settled(a, d, t.login_timer)
      BY <2>5, <2>6, <2>8, <3>1, FreedSettles
    <3>5. QED
      BY <2>9, <3>3, <3>4
  <2>11. CASE o.state = "LOGGED_IN"
    <3>1. Base(a)
      <4>1. Up(t) /\ NlUnmarked(t) /\ Tracked(t) /\ t.k = "started"
        BY <2>0, <2>1, <2>11 DEF Base, Phase, Up
      <4>2. Up(a) /\ NlUnmarked(a)
        <5>1. a.live = t.live /\ a.id = t.id /\ a.k = t.k /\ a.login_timer = t.login_timer /\ a.notify = t.notify
              /\ a.ready = t.ready /\ a.pend = t.pend /\ a.nl = t.nl
          BY <2>1, <2>4
        <5>2. QED
          BY <4>1, <5>1 DEF Up, NoPoll, Unmarked, NlUnmarked
      <4>3. Tracked(a)
        <5>1. a.logout # None
          BY <2>4, ReqAssumption
        <5>2. QED
          BY <2>1, <2>4, <4>1, <5>1 DEF Tracked, Has
      <4>4. LoginKind(a, a.login_timer) /\ a.login_timer = t.login_timer
        BY <2>1, <2>3, <2>4 DEF LoginKind
      <4>5. Phase(a)
        BY <2>4, <2>11, <4>2 DEF Phase
      <4>6. QED
        BY <2>1, <2>4, <2>5, <2>6, <4>1, <4>2, <4>3, <4>4, <4>5 DEF Base
    <3>2. Good(b) /\ Base(b) /\ Kept(a, b) /\ b.state = "LOGGED_IN"
      BY <1>3, <2>4, <2>11, <3>1, CallBase, Call
    <3> HIDE DEF b
    <3>3. b.req = a.req /\ b.live = a.live /\ b.logout = r
      BY <2>4, <3>2 DEF Kept
    <3>4. Good(c) /\ Base(c) /\ c.state \in UpState /\ Kept(b, c)
      BY <3>2, SendLogoutBase DEF UpState
    <3>5. CASE u = w
      <4>1. Sets(b, w, "unbinding", TRUE)
        BY <3>2, FieldSet
      <4> HIDE DEF w
      <4>2. /\ w.live = b.live /\ w.id = b.id /\ w.notify = b.notify /\ w.logout = b.logout /\ w.req = b.req
            /\ w.kind = b.kind /\ w.retry = b.retry /\ w.unbinding = TRUE /\ w.state = b.state
            /\ w.login_timer = b.login_timer /\ w.ready = b.ready /\ w.pend = b.pend /\ w.k = b.k /\ w.nl = b.nl
        BY <4>1 DEF Sets, Fields
      <4>3. ReqsFor(w, {w.login_timer, w.logout}) /\ LoginKind(w, w.login_timer) /\ LogoutKind(w, w.logout)
        <5>1. ReqsFor(b, {b.login_timer, b.logout}) /\ LoginKind(b, b.login_timer) /\ LogoutKind(b, b.logout)
          BY <3>2 DEF Base
        <5>2. QED
          BY <4>2, <5>1, SMTT(30) DEF ReqsFor, LoginKind, LogoutKind
      <4>4. Up(b) /\ NlUnmarked(b) /\ Tracked(b)
        BY <3>2 DEF Base, Phase
      <4>5. Up(w) /\ NlUnmarked(w)
        BY <4>2, <4>4 DEF Up, NoPoll, Unmarked, NlUnmarked
      <4>6. Tracked(w)
        <5>1. w.logout # None
          BY <3>3, <4>2, ReqAssumption
        <5>2. QED
          BY <4>2, <4>4, <5>1 DEF Tracked, Has
      <4>7. Base(w)
        BY <3>2, <4>2, <4>3, <4>5, <4>6 DEF Base, Phase
      <4>8. Inv(w)
        BY <4>2, <4>7 DEF Inv, Sup, StopComes
      <4>9. Settled(a, w, t.login_timer)
        BY <3>3, <4>2, <4>8, Unanswered
      <4>10. QED
        BY <2>9, <3>5, <4>9
    <3>6. CASE "unbind" \in f /\ u \in {c, DropForLogout(c, r, f)}
      <4>1. ~ Unbinds
        BY <3>6 DEF Works
      <4> HIDE DEF c
      <4>2. c.req = a.req /\ c.live = a.live /\ c.logout = r
        BY <3>3, <3>4 DEF Kept
      <4>3. Settled(a, c, t.login_timer)
        BY <3>4, <4>1, <4>2, Unanswered DEF Inv, Sup
      <4> DEFINE d == SessionConnShutdown(c, c.logout, "ok", f)
      <4>4. c.id /\ c.state \in {"LOGGED_IN", "IN_LOGOUT"}
        BY <3>4, UpFacts DEF UpState
      <4>5. Freed(c, d, c.logout, "ok")
        BY <3>4, <4>4, ShutdownOut
      <4>6. DropForLogout(c, r, f) = d
        BY <4>2, <4>5 DEF DropForLogout, Freed, Gone
      <4>7. d = SessionConnShutdown(c, c.logout, "ok", f)
        OBVIOUS
      <4> HIDE DEF d
      <4>8. Settled(c, d, t.login_timer)
        BY <3>4, <4>4, <4>7, LogoutSettles, SMTT(30)
      <4>9. Settled(t, c, t.login_timer) /\ Settled(t, d, t.login_timer)
        BY <2>9, <4>2, <4>3, <4>8
      <4>10. QED
        BY <3>6, <4>6, <4>9
    <3>7. QED
      BY <1>1, <1>4, <2>11, <3>5, <3>6
  <2>12. QED
    BY <2>10, <2>11
<1>5. QED
  BY <1>1, <1>2, <1>4 DEF u

(* What a step does to the requests: a request arrives, *)
LEMMA RequestsSettle ==
  ASSUME Good(s), Inv(s), Reliable, Requests PROVE Settled(s, s', s.login_timer)
<1>1. PICK r \in Req : SessionLogin(r) \/ SessionLogout(r) \/ SessionSync(r)
  BY DEF Requests
<1>2. s.req[r] = "idle"
  BY <1>1 DEF SessionLogin, SessionLogout, SessionSync, Comes
<1>3. ReqsFor(s, {s.login_timer, s.logout})
  BY DEF Inv, Base
<1>4. r \notin {s.login_timer, s.logout} /\ ~ (s.retry[r] > 0)
  BY <1>2, <1>3 DEF ReqsFor
<1>5. ASSUME NEW kind \in {"login", "logout", "sync"}, NEW o, o = Open(s, r, kind)
      PROVE  Good(o) /\ Requested(s, o, r) /\ o.req[r] = "open" /\ ~ (o.retry[r] > 0) /\ o.kind[r] = kind
  <2>1. Good(o)
    BY <1>5, OpenGood
  <2>2. /\ Only(s, o, {"req", "kind"}) /\ o.req[r] = "open" /\ o.kind[r] = kind
        /\ \A x \in Req \ {r} : o.req[x] = s.req[x] /\ o.kind[x] = s.kind[x]
    BY <1>5, OpenOut, SMTT(30)
  <2>3. o.retry = s.retry /\ Only(s, o, {"req", "kind", "retry"})
    BY <2>2 DEF Only, Fields
  <2>4. Requested(s, o, r)
    BY <1>2, <1>4, <2>2, <2>3 DEF Requested
  <2>5. QED
    BY <1>4, <2>1, <2>2, <2>3, <2>4
<1>6. \A f \in Failures : Works(f)
  BY FailuresWork
<1>7. CASE SessionLogin(r)
  <2>1. PICK f \in Failures : s' = SessionLoginTask(Open(s, r, "login"), r, f)
    BY <1>7 DEF SessionLogin
  <2> DEFINE o == Open(s, r, "login")
  <2>2. Good(o) /\ Requested(s, o, r) /\ o.req[r] = "open" /\ ~ (o.retry[r] > 0) /\ o.kind[r] = "login"
    BY <1>5
  <2> HIDE DEF o
  <2>3. Settled(s, SessionLoginTask(o, r, f), s.login_timer)
    BY <1>6, <2>2, LoginTaskSettles, SMTT(30)
  <2>4. QED
    BY <2>1, <2>3 DEF o
<1>8. CASE SessionLogout(r)
  <2>1. PICK f \in Failures : s' = SessionLogoutTask(Open(s, r, "logout"), r, f)
    BY <1>8 DEF SessionLogout
  <2> DEFINE o == Open(s, r, "logout")
  <2>2. Good(o) /\ Requested(s, o, r) /\ o.req[r] = "open" /\ ~ (o.retry[r] > 0) /\ o.kind[r] = "logout"
    BY <1>5
  <2> HIDE DEF o
  <2>3. Settled(s, SessionLogoutTask(o, r, f), s.login_timer)
    BY <1>6, <2>2, LogoutTaskSettles, SMTT(30)
  <2>4. QED
    BY <2>1, <2>3 DEF o
<1>9. CASE SessionSync(r)
  <2>1. PICK f \in Failures : s' = SyncSession(Open(s, r, "sync"), r, f)
    BY <1>9 DEF SessionSync
  <2> DEFINE o == Open(s, r, "sync")
  <2>2. Good(o) /\ Requested(s, o, r) /\ o.req[r] = "open" /\ ~ (o.retry[r] > 0) /\ o.kind[r] = "sync"
    BY <1>5
  <2> HIDE DEF o
  <2>3. s.k # "none"
    BY <1>9 DEF SessionSync
  <2>4. Settled(s, SyncSession(o, r, f), s.login_timer)
    BY <1>6, <2>2, <2>3, SyncSettles, SMTT(30)
  <2>5. QED
    BY <2>1, <2>4 DEF o
<1>10. QED
  BY <1>1, <1>7, <1>8, <1>9

(* What a step does to the requests. *)
LEMMA NextSettles ==
  ASSUME Good(s), Inv(s), Reliable, Next
  PROVE  Inv(s') /\ Truthful(s, s') /\ (Clean(s, s', s.login_timer) \/ (Crash /\ ~ s'.live))
<1>1. ASSUME Settled(s, s', s.login_timer) PROVE Inv(s') /\ Truthful(s, s') /\ Clean(s, s', s.login_timer)
  BY <1>1 DEF Settled
<1>2. ASSUME NEW r \in Req, RetryTimerFires(r) PROVE Settled(s, s', s.login_timer)
  <2>1. PICK f \in Failures : s' = SessionLoginTaskRetry(s, r, f)
    BY <1>2 DEF RetryTimerFires
  <2>2. s.retry[r] > 0 /\ Works(f)
    BY <1>2, FailuresWork DEF RetryTimerFires
  <2>3. Settled(s, SessionLoginTaskRetry(s, r, f), s.login_timer)
    BY <2>2, LoginRetrySettles
  <2>4. QED
    BY <2>1, <2>3
<1>3. CASE InitialLoginLate
  <2> DEFINE u == [s EXCEPT !.late = TRUE]
  <2>1. s' = u
    BY <1>3 DEF InitialLoginLate
  <2>2. Alike(s, u)
    BY PlainFieldSet
  <2> HIDE DEF u
  <2>3. Inv(u) /\ u.req = s.req /\ u.live = s.live
    BY <2>2, InvAlike DEF Inv, Alike, Kept
  <2>4. Settled(s, u, s.login_timer)
    BY <2>3, Unanswered
  <2>5. QED
    BY <1>1, <2>1, <2>4
<1>4. CASE Crash
  BY <1>4, CrashInv
<1>5. CASE Requests \/ ReadNetlink \/ Contexts
  BY <1>1, <1>5, RequestsSettle, NetlinkSettles, ContextsSettle
<1>6. CASE LoginTimerFires \/ NopTimerFires \/ PollTimerFires \/ LogoutTimerFires
  BY <1>1, <1>6, TimersSettle, PendingSettle
<1>7. CASE KernelEvents
  BY <1>1, <1>7, KernelSettles
<1>8. QED
  BY <1>1, <1>2, <1>3, <1>4, <1>5, <1>6, <1>7 DEF Next

(***************************************************************************)
(* The theorems.                                                           *)
(***************************************************************************)
(* The setup of a behaviour stays what it is. *)
Sound == Good(s) /\ Inv(s) /\ Reliable

(* The invariant in the next state *)
LEMMA InvPrimed == ASSUME s'.setup = s.setup, Inv(s') PROVE Inv(s)'
<1>1. (Forgets' <=> Forgets) /\ (Unbinds' <=> Unbinds)
  BY DEF Forgets, Faults, Unbinds
<1>2. Base(s') /\ Sup(s')
  BY DEF Inv
<1>3. NlUnmarked(s)' /\ Tracked(s)'
  <2>1. NlUnmarked(s') /\ Tracked(s')
    BY <1>2 DEF Base
  <2>2. QED
    BY <1>1, <2>1 DEF NlUnmarked, Tracked, Has
<1>4. ReqsFor(s, {s.login_timer, s.logout})' /\ LoginKind(s, s.login_timer)' /\ LogoutKind(s, s.logout)'
  <2>1. ReqsFor(s', {s'.login_timer, s'.logout}) /\ LoginKind(s', s'.login_timer) /\ LogoutKind(s', s'.logout)
    BY <1>2 DEF Base
  <2>2. QED
    BY <1>1, <2>1 DEF ReqsFor, LoginKind, LogoutKind
<1>5. Phase(s)'
  <2>1. Phase(s')
    BY <1>2 DEF Base
  <2>2. (Waiting(s') => Waiting(s)') /\ (LoggingIn(s') => LoggingIn(s)')
    BY DEF Waiting, LoggingIn, Awaits, PollsFor, Order, Cleared, Hushed, NoPoll, Unmarked
  <2>3. (Up(s') => Up(s)') /\ (Broken(s') => Broken(s)') /\ (Gone(s') => Gone(s)')
    BY DEF Up, Broken, Gone, NoPoll, Unmarked
  <2>4. QED
    BY <2>1, <2>2, <2>3 DEF Phase
<1>6. Sup(s)'
  BY <1>1, <1>2 DEF Sup, StopComes, Has
<1>7. s'.k \in {"none", "conn", "bound", "started"}
  BY <1>2 DEF Base
<1>8. QED
  BY <1>3, <1>4, <1>5, <1>6, <1>7 DEF Inv, Base

(* Sound is inductive. *)
LEMMA SoundStep ==
  /\ Init /\ Reliable => Sound
  /\ Sound /\ [Next]_s => Sound'
  /\ Sound /\ [Next]_s => (Unbinds => Unbinds') /\ (Forks => Forks')
<1>1. Init /\ Reliable => Sound
  BY InitGood, InitInv DEF Sound
<1>2. ASSUME Sound, Next PROVE Sound' /\ (Unbinds => Unbinds') /\ (Forks => Forks')
  <2>1. Good(s) /\ Inv(s) /\ Reliable
    BY <1>2 DEF Sound
  <2>2. Good(s')
    BY <1>2, <2>1, NextGood
  <2>3. s'.setup = s.setup
    BY <2>2 DEF Good
  <2>4. Inv(s)'
    BY <1>2, <2>1, <2>3, NextSettles, InvPrimed
  <2>5. Good(s)'
    BY <2>2 DEF Good
  <2>6. Reliable' /\ (Unbinds => Unbinds') /\ (Forks => Forks')
    BY <2>1, <2>3 DEF Reliable, Offload, Unbinds, Forks
  <2>7. QED
    BY <2>4, <2>5, <2>6 DEF Sound
<1>3. ASSUME Sound, UNCHANGED s PROVE Sound' /\ (Unbinds => Unbinds') /\ (Forks => Forks')
  <2>1. s'.setup = s.setup /\ Inv(s') /\ Good(s') /\ Reliable
    BY <1>3 DEF Sound
  <2>2. Inv(s)'
    BY <2>1, InvPrimed
  <2>3. QED
    BY <2>1, <2>2 DEF Sound, Good, Reliable, Offload, Unbinds, Forks
<1>4. QED
  BY <1>1, <1>2, <1>3

(* The requests that the session itself holds. *)
LEMMA HeldByFew == ASSUME Sound PROVE Held \cap Req \subseteq {s.login_timer, s.logout}
<1>1. Base(s) /\ s.state \in ConnState
  BY TypedRecord DEF Sound, Good, FieldTypes, Inv
<1>2. s.ready \in Seq(Event \cup TimerContext) /\ s.pend \subseteq TimerContext
  BY ListFacts DEF Sound
<1>3. s.notify \in Req => s.notify = s.login_timer
  BY <1>1, ReqAssumption DEF Base, Phase, Waiting, LoggingIn, Up, Broken, Gone, Awaits, ConnState
<1>4. \A c \in s.pend : c.ev = "POLL" => c.q = s.login_timer
  BY <1>1 DEF Base, Phase, Waiting, LoggingIn, Up, Broken, Gone, PollsFor, NoPoll, ConnState
<1>5. \A i \in DOMAIN s.ready : s.ready[i].ev = "POLL" => s.ready[i].q = s.login_timer
  <2>1. DOMAIN << >> = {}
    BY SMTT(30)
  <2>2. QED
    BY <1>1, <2>1 DEF Base, Phase, Waiting, LoggingIn, Up, Broken, Gone, PollsFor, NoPoll, ConnState
<1>6. s.state = "IN_LOGIN" => s.login = s.login_timer
  BY <1>1 DEF Base, Phase, LoggingIn
<1>7. \A c \in Event \cup TimerContext : c.ev = "POLL" \/ c.q = None
  BY DEF Event, TimerContext
<1>8. \A i \in DOMAIN s.ready : s.ready[i] \in Event \cup TimerContext
  BY <1>2, SMTT(30)
<1>9. \A q \in {c.q : c \in s.pend} : q \in Req => q = s.login_timer
  BY <1>2, <1>4, <1>7, ReqAssumption
<1>10. \A q \in {s.ready[i].q : i \in DOMAIN s.ready} : q \in Req => q = s.login_timer
  BY <1>5, <1>7, <1>8, ReqAssumption
<1>11. QED
  BY <1>3, <1>6, <1>9, <1>10 DEF Held

(* mgmt_ipc_write_rsp frees each request at most once, however logins, logouts, errors, timers,   *)
(* kernel events and restarts interleave.                                                       *)
THEOREM RequestsAnsweredOnce == Spec /\ Reliable => []AnsweredOnce
<1>1. Sound => AnsweredOnce
  BY DEF Sound, Inv, Base, ReqsFor, AnsweredOnce
<1>2. QED
  BY <1>1, SoundStep, PTL DEF Spec

(* Every queue_task_t pointer that a timer, a poll, a login reply or the logout path may still     *)
(* follow is that of an open request, and no open request is forgotten.                         *)
THEOREM RequestsAreHeld == Spec /\ Reliable => []QtaskHeld
<1>1. ASSUME Sound PROVE QtaskHeld
  <2>1. ReqsFor(s, {s.login_timer, s.logout})
    BY <1>1 DEF Sound, Inv, Base
  <2>2. \A q \in Held \cap Req : s.req[q] = "open"
    BY <1>1, <2>1, HeldByFew DEF ReqsFor
  <2>3. s.login_timer \in Held /\ s.logout \in Held
    BY DEF Held
  <2>4. Faults \cap {"host", "crash"} = {} => \A r \in Req : s.req[r] = "open" => r \in Held \/ s.retry[r] > 0
    BY <2>1, <2>3 DEF ReqsFor, Forgets
  <2>5. QED
    BY <2>2, <2>4 DEF QtaskHeld
<1>2. QED
  BY <1>1, SoundStep, PTL DEF Spec

(* The login timer runs whenever a connection is being set up, and a logout that was accepted     *)
(* waits for the kernel's unbind event or for the logout timer.                                 *)
THEOREM WaitsEnd == Spec /\ Reliable /\ Unbinds => []Supervised
<1>1. ASSUME Sound, Unbinds PROVE Supervised
  <2>1. Base(s) /\ Sup(s) /\ s.state \in ConnState
    BY <1>1, TypedRecord DEF Sound, Good, FieldTypes, Inv
  <2>2. s.state \in {"XPT_WAIT", "IN_LOGIN"} => s.login_timer # None
    <3>1. None \notin Qtask
      BY ReqAssumption DEF Qtask
    <3>2. QED
      BY <2>1, <3>1 DEF Base, Phase, Waiting, LoggingIn, Awaits
  <2>3. s.logout # None => s.state \in {"LOGGED_IN", "IN_LOGOUT"}
    BY <2>1, NobodyLogsOut
  <2>4. s.logout # None /\ ~ s.dropped => StopComes(s)
    BY <1>1, <2>1 DEF Sup
  <2>5. Has(s, "STOP") => OnTheWay("STOP")
    BY DEF Has, OnTheWay, Queued
  <2>6. QED
    BY <2>2, <2>3, <2>4, <2>5 DEF Supervised, StopComes
<1>2. QED
  BY <1>1, SoundStep, PTL DEF Spec

(* No PDU, error or poll of an earlier connection is handled as one of the connection in use:     *)
(* __session_conn_reopen flushes them, and stop_conn comes before the next bind_conn.            *)
THEOREM EventsAreOfTheConnection == Spec /\ Reliable => []NoStaleEvent
<1>1. Sound => NoStaleEvent
  BY DEF Sound, Inv, Base, Phase, LoggingIn, Up, Unmarked, NoStaleEvent
<1>2. QED
  BY <1>1, SoundStep, PTL DEF Spec

(* Whenever no handler runs, the kernel's connection is in the state that iscsid takes it to be   *)
(* in.                                                                                          *)
THEOREM KernelFollows == Spec /\ Reliable => []KernelAgrees
<1>1. Sound => KernelAgrees
  BY DEF Sound, Inv, Base, Phase, Waiting, LoggingIn, Up, KernelAgrees
<1>2. QED
  BY <1>1, SoundStep, PTL DEF Spec

(* A login or sync is told of success only in a step after which the session is up in iscsid and  *)
(* kernel, a logout only in one after which it is gone from both.                               *)
THEOREM AnswersTellTheTruth == Spec /\ Reliable => AnswersAreTrue
<1> DEFINE A == \A r \in Req : s.req[r] # "ok" /\ s'.req[r] = "ok" =>
                  IF s'.kind[r] = "logout" THEN ~ s'.live /\ s'.k = "none"
                  ELSE s'.state = "LOGGED_IN" /\ s'.k = "started"
<1>1. Sound /\ [Next]_s => [A]_s
  BY NextSettles DEF Sound, Truthful
<1>2. QED
  BY <1>1, SoundStep, PTL DEF Spec, AnswersAreTrue

(* A session that iscsid frees is gone from the kernel (unless iscsid died), and a login or sync   *)
(* that fails after it was accepted leaves no session behind.                                   *)
THEOREM FailuresLeaveNothing == Spec /\ Reliable /\ Forks => CleansUp
<1> DEFINE A == /\ s.live /\ ~ s'.live => s'.k = "none" \/ Crash
                /\ \A r \in Req : s.req[r] = "open" /\ s'.req[r] = "err" /\ r \in Held \ {s.logout} => ~ s'.live
<1>1. ASSUME Sound, Forks, Next PROVE A
  <2>1. Clean(s, s', s.login_timer) \/ (Crash /\ ~ s'.live)
    BY <1>1, NextSettles DEF Sound
  <2>2. \A r \in Req : r \in Held \ {s.logout} => r = s.login_timer
    BY <1>1, HeldByFew
  <2>3. QED
    BY <1>1, <2>1, <2>2 DEF Clean
<1>2. Sound /\ Forks /\ [Next]_s => [A]_s
  BY <1>1
<1>3. QED
  BY <1>2, SoundStep, PTL DEF Spec, CleansUp
==============================================================================
