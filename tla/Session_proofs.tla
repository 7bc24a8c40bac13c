--------------------------- MODULE Session_proofs ----------------------------
(* What the proofs about a session share.                                                                     *)
(* - The record of a session, field by field, and its lists: the contexts that wait, the events on the socket *)
(*   and the timers.  Good says that they are typed and that the pool counts them.                            *)
(* - The invariant Inv of a software session whose kernel carries out the calls that tear connections down;   *)
(*   Settled says that a handler re-establishes it, answers truthfully and leaves nothing behind.             *)
(* - What one assignment, one call to the kernel, one timer or one queued context does to them; what freeing, *)
(*   reopening and logging out do; the events of the kernel, a crash and the initial states.                  *)
(* Most leaves need first-order reasoning only, so Zenon is the prover where no other is named.               *)
EXTENDS Session, TLAPS

USE ZenonT(60)

(* The fields of the record s, and what each may hold. *)
Fields ==
    {"live", "id", "state", "r_stage", "reopen_cnt", "time2wait", "late", "notify", "logout",
     "login", "login_timer", "nop_timer", "saddr", "failback", "pool", "ready", "pend",
     "retry", "k", "unbinding", "nl", "req", "kind", "dropped", "zombie", "setup", "relinked"}

Types ==
    [live |-> BOOLEAN, id |-> BOOLEAN, state |-> ConnState, r_stage |-> RStage,
     reopen_cnt |-> 0 .. MaxCnt, time2wait |-> BOOLEAN, late |-> BOOLEAN,
     notify |-> Qtask \cup {None}, logout |-> Req \cup {None}, login |-> Qtask \cup {None},
     login_timer |-> Qtask \cup {None}, nop_timer |-> {"off", "interval", "timeout"},
     saddr |-> Address, failback |-> Address, pool |-> 0 .. PoolMax,
     ready |-> Seq(Event \cup TimerContext), pend |-> SUBSET TimerContext,
     retry |-> [Req -> 0 .. HostRetryMax], k |-> Kernel, unbinding |-> BOOLEAN,
     nl |-> Seq(Event), req |-> [Req -> {"idle", "open", "ok", "err", "twice"}],
     kind |-> [Req -> {"none", "login", "logout", "sync"}], dropped |-> BOOLEAN,
     zombie |-> BOOLEAN, setup |-> Setups, relinked |-> BOOLEAN]

(* A record with these fields, as a function of their names. *)
Shaped(t) == t = [x \in Fields |-> t[x]]

Typed(t) == Shaped(t) /\ \A x \in Fields : t[x] \in Types[x]

(* u is t with v in the field x. *)
Sets(t, u, x, v) == u[x] = v /\ \A y \in Fields \ {x} : u[y] = t[y]

(* No context waits to poll a connection. *)
NoPoll(t) ==
    /\ \A i \in DOMAIN t.ready : t.ready[i].ev # "POLL"
    /\ \A c \in t.pend : c.ev # "POLL"

(* The logout timer is not armed. *)
NoLogoutTimer(t) == \A c \in t.pend : c.ev # "LOGOUT_TIMER"

(* u has no poll and no logout timer that t has not. *)
Keeps(t, u) == (NoPoll(t) => NoPoll(u)) /\ (NoLogoutTimer(t) => NoLogoutTimer(u))

(* No PDU waits: the kernel keeps the ones of an offloaded login. *)
NoPdu(t) ==
    /\ \A i \in DOMAIN t.ready : t.ready[i].ev # "RECV_PDU"
    /\ \A i \in DOMAIN t.nl : t.nl[i].ev # "RECV_PDU"

(* A session polls one connection at a time. *)
OnePoll(t) ==
    /\ \A i, j \in DOMAIN t.ready : t.ready[i].ev = "POLL" /\ t.ready[j].ev = "POLL" => i = j
    /\ \A i \in DOMAIN t.ready, c \in t.pend : t.ready[i].ev = "POLL" => c.ev # "POLL"
    /\ \A c, e \in t.pend : c.ev = "POLL" /\ e.ev = "POLL" => c = e

(* The timers on a pending list that has at most one poll and one logout timer. *)
Waits(S, ev) == IF \E c \in S : c.ev = ev THEN 1 ELSE 0

Timers(S) == Waits(S, "POLL") + Waits(S, "LOGOUT_TIMER")

(* Every context of the pool is on one list. *)
Lists(t) ==
    /\ t.pool = Len(t.ready) + Timers(t.pend)
    /\ OnePoll(t)
    /\ t.setup.offload => NoPdu(t) /\ NoLogoutTimer(t)

(* The inductive invariant behind PoolAccounted, for any record of the setup at hand. *)
Good(t) ==
    /\ Typed(t)
    /\ Lists(t)
    /\ t.setup = s.setup
    /\ t.state \in {"XPT_WAIT", "IN_LOGIN", "LOGGED_IN"} => NoLogoutTimer(t)
    /\ t.state = "IN_LOGIN" => t.login \in Qtask

(* Nothing is pending on an empty list. *)
LEMMA NoTimers == Timers({}) = 0
BY SMTT(30) DEF Timers, Waits

(* Timers is a count. *)
LEMMA TimersType == ASSUME NEW S PROVE Timers(S) \in Nat
BY SMTT(30) DEF Timers, Waits

(* A timer of a kind that is not pending yet adds one. *)
LEMMA TimerAdded ==
  ASSUME NEW S, NEW e \in TimerContext, \A c \in S : c.ev # e.ev
  PROVE  Timers(S \cup {e}) = Timers(S) + 1
<1>1. e.ev = "POLL" \/ e.ev = "LOGOUT_TIMER"
  BY DEF TimerContext
<1>2. \A ev : (\E c \in S \cup {e} : c.ev = ev) <=> ((\E c \in S : c.ev = ev) \/ e.ev = ev)
  OBVIOUS
<1>3. QED
  BY <1>1, <1>2, SMTT(30) DEF Timers, Waits

(* The only timer of its kind takes one away. *)
LEMMA TimerRemoved ==
  ASSUME NEW S, NEW e \in TimerContext, e \in S, \A c \in S : c.ev = e.ev => c = e
  PROVE  Timers(S \ {e}) = Timers(S) - 1
<1>1. e.ev = "POLL" \/ e.ev = "LOGOUT_TIMER"
  BY DEF TimerContext
<1>2. \A ev : (\E c \in S \ {e} : c.ev = ev) <=> ((\E c \in S : c.ev = ev) /\ e.ev # ev)
  OBVIOUS
<1>3. QED
  BY <1>1, <1>2, SMTT(30) DEF Timers, Waits

(* An assignment that respects a field's type. *)
LEMMA Update ==
  ASSUME NEW t, Typed(t), NEW x \in Fields, NEW v \in Types[x]
  PROVE  Typed([t EXCEPT ![x] = v]) /\ Sets(t, [t EXCEPT ![x] = v], x, v)
BY DEF Typed, Shaped, Sets

(* The types of the fields, one by one. *)
FieldTypes(t) ==
  /\ t.live \in BOOLEAN /\ t.id \in BOOLEAN /\ t.state \in ConnState /\ t.r_stage \in RStage
  /\ t.reopen_cnt \in 0 .. MaxCnt /\ t.time2wait \in BOOLEAN /\ t.late \in BOOLEAN
  /\ t.notify \in Qtask \cup {None} /\ t.logout \in Req \cup {None} /\ t.login \in Qtask \cup {None}
  /\ t.login_timer \in Qtask \cup {None} /\ t.nop_timer \in {"off", "interval", "timeout"}
  /\ t.saddr \in Address /\ t.failback \in Address /\ t.pool \in 0 .. PoolMax
  /\ t.ready \in Seq(Event \cup TimerContext) /\ t.pend \in SUBSET TimerContext
  /\ t.retry \in [Req -> 0 .. HostRetryMax] /\ t.k \in Kernel /\ t.unbinding \in BOOLEAN
  /\ t.nl \in Seq(Event) /\ t.req \in [Req -> {"idle", "open", "ok", "err", "twice"}]
  /\ t.kind \in [Req -> {"none", "login", "logout", "sync"}] /\ t.dropped \in BOOLEAN
  /\ t.zombie \in BOOLEAN /\ t.setup \in Setups /\ t.relinked \in BOOLEAN

(* Typed is membership in SessionRecord. *)
LEMMA TypedRecord ==
  ASSUME NEW t
  PROVE  (Typed(t) <=> t \in SessionRecord) /\ (Typed(t) <=> Shaped(t) /\ FieldTypes(t))
<1>1. t \in SessionRecord => Typed(t)
  BY SMTT(30) DEF SessionRecord, Typed, Shaped, Fields, Types
<1>2. Typed(t) => Shaped(t) /\ FieldTypes(t)
  BY DEF Typed, FieldTypes, Fields, Types
<1>3. Shaped(t) /\ FieldTypes(t) => t \in SessionRecord
  BY DEF SessionRecord, FieldTypes, Shaped, Fields
<1>4. QED
  BY <1>1, <1>2, <1>3

(* The fields that Lists speaks of. *)
ListFields == {"ready", "pend", "pool", "nl", "setup"}

(* Lists depends on these fields only. *)
LEMMA ListsSame ==
  ASSUME NEW t, NEW u, Lists(t), \A x \in ListFields : u[x] = t[x]
  PROVE  /\ Lists(u)
         /\ Keeps(t, u)
<1>1. u.ready = t.ready /\ u.pend = t.pend /\ u.pool = t.pool /\ u.nl = t.nl /\ u.setup = t.setup
  BY DEF ListFields
<1>2. QED
  BY <1>1, SMTT(30) DEF Lists, OnePoll, NoPdu, NoPoll, NoLogoutTimer, Keeps

PlainFields == Fields \ (ListFields \cup {"state", "login"})

(* A field that the lists, the state and the login task do not depend on. *)
LEMMA Plain ==
  ASSUME NEW t, Good(t), NEW x \in PlainFields, NEW v \in Types[x]
  PROVE  /\ Good([t EXCEPT ![x] = v])
         /\ Keeps(t, [t EXCEPT ![x] = v])
         /\ Sets(t, [t EXCEPT ![x] = v], x, v)
<1> DEFINE u == [t EXCEPT ![x] = v]
<1>1. Typed(t) /\ x \in Fields
  BY DEF Good, PlainFields
<1>2. Typed(u) /\ Sets(t, u, x, v)
  BY <1>1, Update
<1>3. \A y \in ListFields : y \in Fields \ {x}
  BY DEF PlainFields, ListFields, Fields
<1>4. "state" \in Fields \ {x} /\ "login" \in Fields \ {x} /\ "setup" \in Fields \ {x}
  BY DEF PlainFields, ListFields, Fields
<1> HIDE DEF u
<1>5. Lists(u) /\ Keeps(t, u)
  BY <1>2, <1>3, ListsSame DEF Good, Sets
<1>6. u.state = t.state /\ u.login = t.login /\ u.setup = t.setup
  BY <1>2, <1>4 DEF Sets
<1>7. Good(u)
  BY <1>2, <1>5, <1>6 DEF Good, Keeps
<1>8. QED
  BY <1>2, <1>5, <1>7 DEF u

(* The fields of that kind, with their types. *)
LEMMA PlainTypes ==
  /\ {"live", "id", "time2wait", "late", "unbinding", "dropped", "zombie", "relinked"} \subseteq PlainFields
  /\ {"r_stage", "reopen_cnt", "notify", "logout", "login_timer", "nop_timer", "saddr", "failback"}
        \subseteq PlainFields
  /\ {"retry", "k", "req", "kind"} \subseteq PlainFields
  /\ Types["live"] = BOOLEAN /\ Types["id"] = BOOLEAN /\ Types["time2wait"] = BOOLEAN
  /\ Types["late"] = BOOLEAN /\ Types["unbinding"] = BOOLEAN /\ Types["dropped"] = BOOLEAN
  /\ Types["zombie"] = BOOLEAN /\ Types["relinked"] = BOOLEAN
  /\ Types["r_stage"] = RStage /\ Types["reopen_cnt"] = 0 .. MaxCnt
  /\ Types["notify"] = Qtask \cup {None} /\ Types["logout"] = Req \cup {None}
  /\ Types["login_timer"] = Qtask \cup {None} /\ Types["nop_timer"] = {"off", "interval", "timeout"}
  /\ Types["saddr"] = Address /\ Types["failback"] = Address
  /\ Types["retry"] = [Req -> 0 .. HostRetryMax] /\ Types["k"] = Kernel
  /\ Types["req"] = [Req -> {"idle", "open", "ok", "err", "twice"}]
  /\ Types["kind"] = [Req -> {"none", "login", "logout", "sync"}]
BY DEF Types, PlainFields, ListFields, Fields

(* A change of the connection state. *)
LEMMA SetState ==
  ASSUME NEW t, Good(t), NEW v \in ConnState,
         v \in {"XPT_WAIT", "IN_LOGIN", "LOGGED_IN"} => NoLogoutTimer(t),
         v = "IN_LOGIN" => t.login \in Qtask
  PROVE  Good([t EXCEPT !.state = v]) /\ Keeps(t, [t EXCEPT !.state = v])
<1> DEFINE u == [t EXCEPT !.state = v]
<1>1. "state" \in Fields /\ Types["state"] = ConnState /\ Typed(t) /\ "login" \in Fields
  BY DEF Good, Fields, Types
<1>2. Typed(u) /\ Sets(t, u, "state", v)
  BY <1>1, Update
<1>3. \A y \in ListFields \cup {"login"} : y \in Fields \ {"state"}
  BY DEF ListFields, Fields
<1> HIDE DEF u
<1>4. Lists(u) /\ Keeps(t, u)
  BY <1>2, <1>3, ListsSame DEF Good, Sets
<1>5. u.login = t.login /\ u.setup = t.setup /\ u.state = v
  BY <1>2, <1>3 DEF ListFields, Sets
<1>6. Good(u)
  BY <1>2, <1>4, <1>5 DEF Good, Keeps
<1>7. QED
  BY <1>4, <1>6 DEF u

(* Another task logs in. *)
LEMMA SetLogin ==
  ASSUME NEW t, Good(t), NEW v \in Qtask \cup {None}, t.state = "IN_LOGIN" => v \in Qtask
  PROVE  Good([t EXCEPT !.login = v]) /\ [t EXCEPT !.login = v].login = v
<1> DEFINE u == [t EXCEPT !.login = v]
<1>1. "login" \in Fields /\ Types["login"] = Qtask \cup {None} /\ Typed(t)
  BY DEF Good, Fields, Types
<1>2. Typed(u) /\ Sets(t, u, "login", v)
  BY <1>1, Update
<1>3. \A y \in ListFields \cup {"state"} : y \in Fields \ {"login"}
  BY DEF ListFields, Fields
<1> HIDE DEF u
<1>4. Lists(u) /\ Keeps(t, u)
  BY <1>2, <1>3, ListsSame DEF Good, Sets
<1>5. u.state = t.state /\ u.setup = t.setup /\ u.login = v
  BY <1>2, <1>3 DEF ListFields, Sets
<1>6. Good(u)
  BY <1>2, <1>4, <1>5 DEF Good, Keeps
<1>7. QED
  BY <1>5, <1>6 DEF u

(* What became of the requests. *)
LEMMA SetRequests ==
  ASSUME NEW t, Good(t)
  PROVE  /\ \A v \in [Req -> {"idle", "open", "ok", "err", "twice"}] : Good([t EXCEPT !.req = v]) /\ Keeps(t, [t EXCEPT !.req = v])
         /\ \A v \in [Req -> 0 .. HostRetryMax] : Good([t EXCEPT !.retry = v]) /\ Keeps(t, [t EXCEPT !.retry = v])
         /\ \A v \in [Req -> {"none", "login", "logout", "sync"}] : Good([t EXCEPT !.kind = v]) /\ Keeps(t, [t EXCEPT !.kind = v])
<1>1. ASSUME NEW v \in [Req -> {"idle", "open", "ok", "err", "twice"}] PROVE Good([t EXCEPT !.req = v]) /\ Keeps(t, [t EXCEPT !.req = v])
  <2>1. "req" \in PlainFields /\ Types["req"] = [Req -> {"idle", "open", "ok", "err", "twice"}]
    BY PlainTypes
  <2>2. QED
    BY <1>1, <2>1, Plain
<1>2. ASSUME NEW v \in [Req -> 0 .. HostRetryMax] PROVE Good([t EXCEPT !.retry = v]) /\ Keeps(t, [t EXCEPT !.retry = v])
  <2>1. "retry" \in PlainFields /\ Types["retry"] = [Req -> 0 .. HostRetryMax]
    BY PlainTypes
  <2>2. QED
    BY <1>2, <2>1, Plain
<1>3. ASSUME NEW v \in [Req -> {"none", "login", "logout", "sync"}] PROVE Good([t EXCEPT !.kind = v]) /\ Keeps(t, [t EXCEPT !.kind = v])
  <2>1. "kind" \in PlainFields /\ Types["kind"] = [Req -> {"none", "login", "logout", "sync"}]
    BY PlainTypes
  <2>2. QED
    BY <1>3, <2>1, Plain
<1>4. QED
  BY <1>1, <1>2, <1>3

(* The timers. *)
LEMMA SetTimers ==
  ASSUME NEW t, Good(t)
  PROVE  /\ \A v \in Qtask \cup {None} : Good([t EXCEPT !.login_timer = v]) /\ Keeps(t, [t EXCEPT !.login_timer = v])
         /\ \A v \in {"off", "interval", "timeout"} : Good([t EXCEPT !.nop_timer = v]) /\ Keeps(t, [t EXCEPT !.nop_timer = v])
         /\ \A v \in BOOLEAN : Good([t EXCEPT !.relinked = v]) /\ Keeps(t, [t EXCEPT !.relinked = v])
         /\ \A v \in BOOLEAN : Good([t EXCEPT !.zombie = v]) /\ Keeps(t, [t EXCEPT !.zombie = v])
<1>1. ASSUME NEW v \in Qtask \cup {None} PROVE Good([t EXCEPT !.login_timer = v]) /\ Keeps(t, [t EXCEPT !.login_timer = v])
  <2>1. "login_timer" \in PlainFields /\ Types["login_timer"] = Qtask \cup {None}
    BY PlainTypes
  <2>2. QED
    BY <1>1, <2>1, Plain
<1>2. ASSUME NEW v \in {"off", "interval", "timeout"} PROVE Good([t EXCEPT !.nop_timer = v]) /\ Keeps(t, [t EXCEPT !.nop_timer = v])
  <2>1. "nop_timer" \in PlainFields /\ Types["nop_timer"] = {"off", "interval", "timeout"}
    BY PlainTypes
  <2>2. QED
    BY <1>2, <2>1, Plain
<1>3. ASSUME NEW v \in BOOLEAN PROVE Good([t EXCEPT !.relinked = v]) /\ Keeps(t, [t EXCEPT !.relinked = v])
  <2>1. "relinked" \in PlainFields /\ Types["relinked"] = BOOLEAN
    BY PlainTypes
  <2>2. QED
    BY <1>3, <2>1, Plain
<1>4. ASSUME NEW v \in BOOLEAN PROVE Good([t EXCEPT !.zombie = v]) /\ Keeps(t, [t EXCEPT !.zombie = v])
  <2>1. "zombie" \in PlainFields /\ Types["zombie"] = BOOLEAN
    BY PlainTypes
  <2>2. QED
    BY <1>4, <2>1, Plain
<1>5. QED
  BY <1>1, <1>2, <1>3, <1>4

(* The recovery. *)
LEMMA SetStage ==
  ASSUME NEW t, Good(t)
  PROVE  /\ \A v \in RStage : Good([t EXCEPT !.r_stage = v]) /\ Keeps(t, [t EXCEPT !.r_stage = v])
         /\ \A v \in 0 .. MaxCnt : Good([t EXCEPT !.reopen_cnt = v]) /\ Keeps(t, [t EXCEPT !.reopen_cnt = v])
         /\ \A v \in BOOLEAN : Good([t EXCEPT !.time2wait = v]) /\ Keeps(t, [t EXCEPT !.time2wait = v])
         /\ \A v \in BOOLEAN : Good([t EXCEPT !.late = v]) /\ Keeps(t, [t EXCEPT !.late = v])
<1>1. ASSUME NEW v \in RStage PROVE Good([t EXCEPT !.r_stage = v]) /\ Keeps(t, [t EXCEPT !.r_stage = v])
  <2>1. "r_stage" \in PlainFields /\ Types["r_stage"] = RStage
    BY PlainTypes
  <2>2. QED
    BY <1>1, <2>1, Plain
<1>2. ASSUME NEW v \in 0 .. MaxCnt PROVE Good([t EXCEPT !.reopen_cnt = v]) /\ Keeps(t, [t EXCEPT !.reopen_cnt = v])
  <2>1. "reopen_cnt" \in PlainFields /\ Types["reopen_cnt"] = 0 .. MaxCnt
    BY PlainTypes
  <2>2. QED
    BY <1>2, <2>1, Plain
<1>3. ASSUME NEW v \in BOOLEAN PROVE Good([t EXCEPT !.time2wait = v]) /\ Keeps(t, [t EXCEPT !.time2wait = v])
  <2>1. "time2wait" \in PlainFields /\ Types["time2wait"] = BOOLEAN
    BY PlainTypes
  <2>2. QED
    BY <1>3, <2>1, Plain
<1>4. ASSUME NEW v \in BOOLEAN PROVE Good([t EXCEPT !.late = v]) /\ Keeps(t, [t EXCEPT !.late = v])
  <2>1. "late" \in PlainFields /\ Types["late"] = BOOLEAN
    BY PlainTypes
  <2>2. QED
    BY <1>4, <2>1, Plain
<1>5. QED
  BY <1>1, <1>2, <1>3, <1>4

(* The addresses. *)
LEMMA SetAddress ==
  ASSUME NEW t, Good(t)
  PROVE  /\ \A v \in Address : Good([t EXCEPT !.saddr = v]) /\ Keeps(t, [t EXCEPT !.saddr = v])
         /\ \A v \in Address : Good([t EXCEPT !.failback = v]) /\ Keeps(t, [t EXCEPT !.failback = v])
<1>1. ASSUME NEW v \in Address PROVE Good([t EXCEPT !.saddr = v]) /\ Keeps(t, [t EXCEPT !.saddr = v])
  <2>1. "saddr" \in PlainFields /\ Types["saddr"] = Address
    BY PlainTypes
  <2>2. QED
    BY <1>1, <2>1, Plain
<1>2. ASSUME NEW v \in Address PROVE Good([t EXCEPT !.failback = v]) /\ Keeps(t, [t EXCEPT !.failback = v])
  <2>1. "failback" \in PlainFields /\ Types["failback"] = Address
    BY PlainTypes
  <2>2. QED
    BY <1>2, <2>1, Plain
<1>3. QED
  BY <1>1, <1>2

(* Who waits. *)
LEMMA SetOwner ==
  ASSUME NEW t, Good(t)
  PROVE  /\ \A v \in Qtask \cup {None} : Good([t EXCEPT !.notify = v]) /\ Keeps(t, [t EXCEPT !.notify = v])
         /\ \A v \in Req \cup {None} : Good([t EXCEPT !.logout = v]) /\ Keeps(t, [t EXCEPT !.logout = v])
<1>1. ASSUME NEW v \in Qtask \cup {None} PROVE Good([t EXCEPT !.notify = v]) /\ Keeps(t, [t EXCEPT !.notify = v])
  <2>1. "notify" \in PlainFields /\ Types["notify"] = Qtask \cup {None}
    BY PlainTypes
  <2>2. QED
    BY <1>1, <2>1, Plain
<1>2. ASSUME NEW v \in Req \cup {None} PROVE Good([t EXCEPT !.logout = v]) /\ Keeps(t, [t EXCEPT !.logout = v])
  <2>1. "logout" \in PlainFields /\ Types["logout"] = Req \cup {None}
    BY PlainTypes
  <2>2. QED
    BY <1>2, <2>1, Plain
<1>3. QED
  BY <1>1, <1>2

(* The kernel. *)
LEMMA SetKernel ==
  ASSUME NEW t, Good(t)
  PROVE  /\ \A v \in Kernel : Good([t EXCEPT !.k = v]) /\ Keeps(t, [t EXCEPT !.k = v])
         /\ \A v \in BOOLEAN : Good([t EXCEPT !.id = v]) /\ Keeps(t, [t EXCEPT !.id = v])
         /\ \A v \in BOOLEAN : Good([t EXCEPT !.live = v]) /\ Keeps(t, [t EXCEPT !.live = v])
         /\ \A v \in BOOLEAN : Good([t EXCEPT !.unbinding = v]) /\ Keeps(t, [t EXCEPT !.unbinding = v])
<1>1. ASSUME NEW v \in Kernel PROVE Good([t EXCEPT !.k = v]) /\ Keeps(t, [t EXCEPT !.k = v])
  <2>1. "k" \in PlainFields /\ Types["k"] = Kernel
    BY PlainTypes
  <2>2. QED
    BY <1>1, <2>1, Plain
<1>2. ASSUME NEW v \in BOOLEAN PROVE Good([t EXCEPT !.id = v]) /\ Keeps(t, [t EXCEPT !.id = v])
  <2>1. "id" \in PlainFields /\ Types["id"] = BOOLEAN
    BY PlainTypes
  <2>2. QED
    BY <1>2, <2>1, Plain
<1>3. ASSUME NEW v \in BOOLEAN PROVE Good([t EXCEPT !.live = v]) /\ Keeps(t, [t EXCEPT !.live = v])
  <2>1. "live" \in PlainFields /\ Types["live"] = BOOLEAN
    BY PlainTypes
  <2>2. QED
    BY <1>3, <2>1, Plain
<1>4. ASSUME NEW v \in BOOLEAN PROVE Good([t EXCEPT !.unbinding = v]) /\ Keeps(t, [t EXCEPT !.unbinding = v])
  <2>1. "unbinding" \in PlainFields /\ Types["unbinding"] = BOOLEAN
    BY PlainTypes
  <2>2. QED
    BY <1>4, <2>1, Plain
<1>5. QED
  BY <1>1, <1>2, <1>3, <1>4

(* mgmt_ipc_write_rsp *)
LEMMA Answers ==
  ASSUME NEW t, Good(t), NEW q, NEW rsp \in {"ok", "err"}
  PROVE  Good(WriteRsp(t, q, rsp)) /\ Keeps(t, WriteRsp(t, q, rsp))
<1>1. CASE q \in Req
  <2> DEFINE w == [t.req EXCEPT ![q] = IF @ = "open" THEN rsp ELSE "twice"]
  <2>1. t.req \in [Req -> {"idle", "open", "ok", "err", "twice"}]
    BY PlainTypes DEF Good, Typed, PlainFields
  <2>2. w \in [Req -> {"idle", "open", "ok", "err", "twice"}]
    BY <1>1, <2>1
  <2>3. WriteRsp(t, q, rsp) = [t EXCEPT !.req = w]
    BY <1>1 DEF WriteRsp
  <2> HIDE DEF w
  <2>4. QED
    BY <2>2, <2>3, SetRequests, SMTT(30)
<1>2. CASE q \notin Req
  BY <1>2 DEF WriteRsp, Keeps
<1>3. QED
  BY <1>1, <1>2

(* u is t with v and w in the fields x and y. *)
Sets2(t, u, x, v, y, w) == u[x] = v /\ u[y] = w /\ \A z \in Fields \ {x, y} : u[z] = t[z]

(* Two assignments at once. *)
LEMMA Update2 ==
  ASSUME NEW t, Typed(t), NEW x \in Fields, NEW v \in Types[x], NEW y \in Fields \ {x}, NEW w \in Types[y]
  PROVE  Typed([t EXCEPT ![x] = v, ![y] = w]) /\ Sets2(t, [t EXCEPT ![x] = v, ![y] = w], x, v, y, w)
BY DEF Typed, Shaped, Sets2

(* u is t with v, w and e in the fields x, y and z. *)
Sets3(t, u, x, v, y, w, z, e) ==
    u[x] = v /\ u[y] = w /\ u[z] = e /\ \A f \in Fields \ {x, y, z} : u[f] = t[f]

(* Three assignments at once. *)
LEMMA Update3 ==
  ASSUME NEW t, Typed(t), NEW x \in Fields, NEW v \in Types[x], NEW y \in Fields \ {x}, NEW w \in Types[y],
         NEW z \in Fields \ {x, y}, NEW e \in Types[z]
  PROVE  /\ Typed([t EXCEPT ![x] = v, ![y] = w, ![z] = e])
         /\ Sets3(t, [t EXCEPT ![x] = v, ![y] = w, ![z] = e], x, v, y, w, z, e)
BY DEF Typed, Shaped, Sets3

(* A field of a new session. *)
LEMMA FreshValues ==
  ASSUME NEW t, Shaped(t)
  PROVE  /\ Fresh(t).live = FALSE /\ Fresh(t).id = FALSE /\ Fresh(t).state = "FREE"
         /\ Fresh(t).r_stage = "NO_CHANGE" /\ Fresh(t).reopen_cnt = 0 /\ Fresh(t).time2wait = FALSE
         /\ Fresh(t).late = FALSE /\ Fresh(t).notify = None /\ Fresh(t).logout = None
         /\ Fresh(t).login = None /\ Fresh(t).login_timer = None /\ Fresh(t).nop_timer = "off"
         /\ Fresh(t).saddr = "home" /\ Fresh(t).failback = "home" /\ Fresh(t).dropped = FALSE
         /\ Fresh(t).pool = 0 /\ Fresh(t).ready = <<>> /\ Fresh(t).pend = {} /\ Fresh(t).nl = <<>>
BY SMTT(30) DEF Shaped, Fresh, Fields

(* What __session_destroy leaves alone. *)
LEMMA FreshKeeps ==
  ASSUME NEW t, Shaped(t)
  PROVE  /\ Fresh(t).retry = t.retry /\ Fresh(t).k = t.k /\ Fresh(t).unbinding = t.unbinding
         /\ Fresh(t).req = t.req /\ Fresh(t).kind = t.kind /\ Fresh(t).zombie = t.zombie
         /\ Fresh(t).setup = t.setup /\ Fresh(t).relinked = t.relinked
BY SMTT(30) DEF Shaped, Fresh, Fields

(* An assignment keeps the fields. *)
LEMMA UpdateShape == ASSUME NEW t, Shaped(t), NEW x, NEW v PROVE Shaped([t EXCEPT ![x] = v])
BY DEF Shaped

(* So does the making of a session. *)
LEMMA FreshShape == ASSUME NEW t, Shaped(t) PROVE Shaped(Fresh(t))
<1> DEFINE a == [t EXCEPT !.live = FALSE, !.id = FALSE, !.state = "FREE", !.r_stage = "NO_CHANGE",
                       !.reopen_cnt = 0]
           b == [a EXCEPT !.time2wait = FALSE, !.late = FALSE, !.notify = None, !.logout = None,
                       !.login = None]
           c == [b EXCEPT !.login_timer = None, !.nop_timer = "off", !.saddr = "home",
                       !.failback = "home", !.dropped = FALSE]
           d == [c EXCEPT !.pool = 0, !.ready = <<>>, !.pend = {}, !.nl = <<>>]
<1>1. Fresh(t) = d
  BY DEF Fresh
<1>2. Shaped(a)
  BY UpdateShape
<1> HIDE DEF a
<1>3. Shaped(b)
  BY <1>2, UpdateShape
<1> HIDE DEF b
<1>4. Shaped(c)
  BY <1>3, UpdateShape
<1> HIDE DEF c
<1>5. Shaped(d)
  BY <1>4, UpdateShape
<1>6. QED
  BY <1>1, <1>5

(* A new session has the right types. *)
LEMMA FreshTyped == ASSUME NEW t, Typed(t) PROVE Typed(Fresh(t))
<1>1. Shaped(t) /\ FieldTypes(t)
  BY TypedRecord
<1> DEFINE u == Fresh(t)
<1>2. 0 \in 0 .. MaxCnt /\ 0 \in 0 .. PoolMax
  BY BoundAssumption, SMTT(30)
<1>3. <<>> \in Seq(Event \cup TimerContext) /\ <<>> \in Seq(Event)
  BY SMTT(30)
<1>4. Shaped(u)
  BY <1>1, FreshShape
<1> HIDE DEF u
<1>5. FieldTypes(u)
  <2>1. /\ u.live \in BOOLEAN /\ u.id \in BOOLEAN /\ u.state \in ConnState /\ u.r_stage \in RStage
        /\ u.reopen_cnt \in 0 .. MaxCnt /\ u.time2wait \in BOOLEAN /\ u.late \in BOOLEAN
    BY <1>1, <1>2, FreshValues DEF u, ConnState, RStage
  <2>2. /\ u.notify \in Qtask \cup {None} /\ u.logout \in Req \cup {None}
        /\ u.login \in Qtask \cup {None} /\ u.login_timer \in Qtask \cup {None}
        /\ u.nop_timer \in {"off", "interval", "timeout"} /\ u.saddr \in Address /\ u.failback \in Address
    BY <1>1, FreshValues DEF u, Address
  <2>3. /\ u.pool \in 0 .. PoolMax /\ u.ready \in Seq(Event \cup TimerContext)
        /\ u.pend \in SUBSET TimerContext /\ u.nl \in Seq(Event) /\ u.dropped \in BOOLEAN
    BY <1>1, <1>2, <1>3, FreshValues DEF u
  <2>4. QED
    BY <1>1, <2>1, <2>2, <2>3, FreshKeeps DEF FieldTypes, u
<1>6. QED
  BY <1>4, <1>5, TypedRecord DEF u

(* The types of the fields that Lists speaks of. *)
LEMMA ListTypes ==
  /\ ListFields \subseteq Fields /\ "state" \in Fields /\ "login" \in Fields /\ "dropped" \in Fields
  /\ Types["pool"] = 0 .. PoolMax /\ Types["ready"] = Seq(Event \cup TimerContext)
  /\ Types["pend"] = SUBSET TimerContext /\ Types["nl"] = Seq(Event)
BY DEF ListFields, Fields, Types

(* What the contexts on the two lists are about. *)
LEMMA ContextEvents ==
  /\ \A c \in Event : c.ev \in KernelEvent /\ c.ev # "POLL" /\ c.ev # "LOGOUT_TIMER"
  /\ \A c \in TimerContext : c.ev \in {"POLL", "LOGOUT_TIMER"} /\ c.q \in Qtask \cup {None}
  /\ \A c \in TimerContext : c.ev = "POLL" => c.q \in Qtask
  /\ \A c \in TimerContext : c.ev = "LOGOUT_TIMER" => c = [ev |-> "LOGOUT_TIMER", q |-> None, stale |-> FALSE]
  /\ \A q \in Qtask : [ev |-> "POLL", q |-> q, stale |-> FALSE] \in TimerContext
  /\ [ev |-> "LOGOUT_TIMER", q |-> None, stale |-> FALSE] \in TimerContext
<1>1. \A c \in Event : c.ev \in KernelEvent /\ c.ev # "POLL" /\ c.ev # "LOGOUT_TIMER"
  BY DEF Event, KernelEvent
<1>2. \A c \in TimerContext : c.ev \in {"POLL", "LOGOUT_TIMER"} /\ c.q \in Qtask \cup {None}
  BY DEF TimerContext
<1>3. \A c \in TimerContext : c.ev = "POLL" => c.q \in Qtask
  BY DEF TimerContext
<1>4. \A q \in Qtask : [ev |-> "POLL", q |-> q, stale |-> FALSE] \in TimerContext
  BY DEF TimerContext
<1>5. [ev |-> "LOGOUT_TIMER", q |-> None, stale |-> FALSE] \in TimerContext
  BY DEF TimerContext
<1>6. \A c \in TimerContext : c.ev = "LOGOUT_TIMER" => c = [ev |-> "LOGOUT_TIMER", q |-> None, stale |-> FALSE]
  <2>1. \A c \in [ev : {"POLL"}, q : Qtask, stale : {FALSE}] : c.ev = "POLL"
    BY SMTT(30)
  <2>2. ASSUME NEW c \in [ev : {"LOGOUT_TIMER"}, q : {None}, stale : {FALSE}]
        PROVE  c = [ev |-> "LOGOUT_TIMER", q |-> None, stale |-> FALSE]
    OBVIOUS
  <2>3. QED
    BY <2>1, <2>2 DEF TimerContext
<1>7. QED
  BY <1>1, <1>2, <1>3, <1>4, <1>5, <1>6

(* iscsi_flush_context_pool puts every context back. *)
LEMMA Flushed ==
  ASSUME NEW t, Good(t)
  PROVE  /\ Good(FlushContextPool(t)) /\ NoPoll(FlushContextPool(t)) /\ NoLogoutTimer(FlushContextPool(t))
         /\ \A x \in Fields \ {"pool", "ready", "pend"} : FlushContextPool(t)[x] = t[x]
<1> DEFINE u == FlushContextPool(t)
<1>1. Typed(t) /\ 0 \in Types["pool"] /\ <<>> \in Types["ready"] /\ {} \in Types["pend"]
  <2>1. 0 \in 0 .. PoolMax /\ <<>> \in Seq(Event \cup TimerContext)
    BY BoundAssumption, SMTT(30)
  <2>2. QED
    BY <2>1, ListTypes DEF Good
<1>2. Typed(u) /\ Sets3(t, u, "pool", 0, "ready", <<>>, "pend", {})
  <2>1. "pool" \in Fields /\ "ready" \in Fields \ {"pool"} /\ "pend" \in Fields \ {"pool", "ready"}
    BY DEF Fields
  <2>2. QED
    BY <1>1, <2>1, Update3 DEF FlushContextPool
<1> HIDE DEF u
<1>3. u.pool = 0 /\ u.ready = <<>> /\ u.pend = {}
  BY <1>2 DEF Sets3
<1>4. u.nl = t.nl /\ u.setup = t.setup /\ u.state = t.state /\ u.login = t.login
  BY <1>2 DEF Sets3, Fields
<1>5. Timers({}) = 0
  BY NoTimers
<1>6. Lists(u) /\ NoPoll(u) /\ NoLogoutTimer(u)
  BY <1>3, <1>4, <1>5, SMTT(30) DEF Lists, OnePoll, NoPdu, NoPoll, NoLogoutTimer, Good
<1>7. Good(u)
  BY <1>2, <1>4, <1>6 DEF Good
<1>8. QED
  BY <1>2, <1>6, <1>7 DEF u, Sets3

(* A poll is put on ready_list. *)
LEMMA Scheduled ==
  ASSUME NEW t, Good(t), HasContext(t), NoPoll(t), NEW q \in Qtask
  PROVE  Good(Schedule(t, "POLL", q))
<1> DEFINE e == [ev |-> "POLL", q |-> q, stale |-> FALSE]
           u == Schedule(t, "POLL", q)
<1>1. e \in TimerContext /\ e.ev = "POLL"
  BY ContextEvents
<1> HIDE DEF e
<1>2. Typed(t) /\ t.pool \in 0 .. PoolMax /\ t.ready \in Seq(Event \cup TimerContext) /\ t.pend \subseteq TimerContext
  BY TypedRecord DEF Good, FieldTypes
<1>3. t.pool + 1 \in 0 .. PoolMax /\ Append(t.ready, e) \in Seq(Event \cup TimerContext)
  BY <1>1, <1>2, BoundAssumption, SMTT(30) DEF HasContext
<1>4. Typed(u) /\ Sets2(t, u, "pool", t.pool + 1, "ready", Append(t.ready, e))
  <2>1. "pool" \in Fields /\ "ready" \in Fields \ {"pool"}
    BY DEF Fields
  <2>2. QED
    BY <1>2, <1>3, <2>1, ListTypes, Update2 DEF Schedule, e
<1> HIDE DEF u
<1>5. u.pool = t.pool + 1 /\ u.ready = Append(t.ready, e)
  BY <1>4 DEF Sets2
<1>6. u.nl = t.nl /\ u.setup = t.setup /\ u.state = t.state /\ u.login = t.login /\ u.pend = t.pend
  BY <1>4 DEF Sets2, Fields
<1>7. /\ Len(u.ready) = Len(t.ready) + 1
      /\ DOMAIN u.ready = 1 .. Len(t.ready) + 1
      /\ DOMAIN t.ready = 1 .. Len(t.ready)
      /\ \A i \in 1 .. Len(t.ready) : u.ready[i] = t.ready[i]
      /\ u.ready[Len(t.ready) + 1] = e
  BY <1>2, <1>1, <1>5, SMTT(30)
<1>8. Lists(u)
  <2>1. u.pool = Len(u.ready) + Timers(u.pend)
    <3>1. Timers(t.pend) \in Nat
      BY TimersType
    <3>2. QED
      BY <1>2, <1>5, <1>6, <1>7, <3>1, SMTT(30) DEF Good, Lists
  <2>2. OnePoll(u)
    <3>1. \A i \in DOMAIN u.ready : u.ready[i].ev = "POLL" => i = Len(t.ready) + 1
      BY <1>2, <1>7, SMTT(30) DEF NoPoll
    <3>2. \A c \in u.pend : c.ev # "POLL"
      BY <1>6 DEF NoPoll
    <3>3. QED
      BY <3>1, <3>2 DEF OnePoll
  <2>3. u.setup.offload => NoPdu(u) /\ NoLogoutTimer(u)
    <3>1. t.setup.offload => NoPdu(t) /\ NoLogoutTimer(t)
      BY DEF Good, Lists
    <3>2. QED
      BY <1>1, <1>2, <1>6, <1>7, <3>1, SMTT(30) DEF NoPdu, NoLogoutTimer
  <2>4. QED
    BY <2>1, <2>2, <2>3 DEF Lists
<1>9. QED
  BY <1>4, <1>6, <1>8 DEF Good, NoLogoutTimer, u

(* What Good says about the lists, ready for use. *)
LEMMA ListFacts ==
  ASSUME NEW t, Good(t)
  PROVE  /\ Typed(t) /\ Lists(t) /\ t.setup = s.setup
         /\ t.pool \in 0 .. PoolMax /\ t.pool \in Nat /\ PoolMax \in Nat
         /\ t.ready \in Seq(Event \cup TimerContext) /\ t.nl \in Seq(Event)
         /\ t.pend \subseteq TimerContext /\ Timers(t.pend) \in Nat
         /\ t.pool = Len(t.ready) + Timers(t.pend)
<1>1. Typed(t) /\ Lists(t) /\ t.setup = s.setup
  BY DEF Good
<1>2. FieldTypes(t)
  BY <1>1, TypedRecord
<1>3. Timers(t.pend) \in Nat /\ t.pool = Len(t.ready) + Timers(t.pend)
  BY <1>1, TimersType DEF Lists
<1>4. t.pool \in Nat /\ PoolMax \in Nat
  BY <1>2, BoundAssumption, SMTT(30) DEF FieldTypes
<1>5. QED
  BY <1>1, <1>2, <1>3, <1>4 DEF FieldTypes

(* Good for a session whose lists have changed. *)
LEMMA Relisted ==
  ASSUME NEW t, NEW u, Good(t), Typed(u), Lists(u), u.setup = t.setup, u.state = t.state,
         u.login = t.login, NoLogoutTimer(t) => NoLogoutTimer(u)
  PROVE  Good(u)
BY DEF Good

(* A poll or the logout timer is put on pend_list. *)
LEMMA TimerScheduled ==
  ASSUME NEW t, Good(t), HasContext(t), NEW ev, NEW q,
         \/ ev = "POLL" /\ q \in Qtask /\ NoPoll(t)
         \/ ev = "LOGOUT_TIMER" /\ q = None /\ NoLogoutTimer(t) /\ ~ t.setup.offload /\ t.state = "IN_LOGOUT"
  PROVE  Good(ScheduleTimer(t, ev, q))
<1> DEFINE e == [ev |-> ev, q |-> q, stale |-> FALSE]
           p == t.pend \cup {e}
           u == ScheduleTimer(t, ev, q)
<1>1. e \in TimerContext /\ e.ev = ev /\ e \notin t.pend
  BY ContextEvents DEF NoPoll, NoLogoutTimer
<1> HIDE DEF e
<1>2. t.pool + 1 \in 0 .. PoolMax /\ p \in SUBSET TimerContext
  BY <1>1, ListFacts, SMTT(30) DEF HasContext
<1>3. Timers(p) = Timers(t.pend) + 1
  <2>1. \A c \in t.pend : c.ev # e.ev
    BY <1>1 DEF NoPoll, NoLogoutTimer
  <2>2. QED
    BY <1>1, <2>1, TimerAdded DEF p
<1> HIDE DEF p
<1>4. Typed(u) /\ Sets2(t, u, "pool", t.pool + 1, "pend", p)
  <2>1. "pool" \in Fields /\ "pend" \in Fields \ {"pool"}
    BY DEF Fields
  <2>2. Typed(t)
    BY ListFacts
  <2>3. t.pool + 1 \in Types["pool"] /\ p \in Types["pend"]
    BY <1>2, ListTypes
  <2>4. QED
    BY <2>1, <2>2, <2>3, Update2 DEF ScheduleTimer, e, p
<1> HIDE DEF u
<1>5. u.pool = t.pool + 1 /\ u.pend = p
  BY <1>4 DEF Sets2
<1>6. u.nl = t.nl /\ u.setup = t.setup /\ u.state = t.state /\ u.login = t.login /\ u.ready = t.ready
  BY <1>4 DEF Sets2, Fields
<1>7. u.pool = Len(u.ready) + Timers(u.pend)
  BY <1>3, <1>5, <1>6, ListFacts, SMTT(30)
<1>8. OnePoll(u)
  <2>1. \A c \in u.pend : c \in t.pend \/ c = e
    BY <1>5 DEF p
  <2>2. QED
    BY <1>1, <1>6, <2>1, ListFacts DEF OnePoll, Lists, NoPoll
<1>9. u.setup.offload => NoPdu(u) /\ NoLogoutTimer(u)
  <2>1. \A c \in u.pend : c \in t.pend \/ c = e
    BY <1>5 DEF p
  <2>2. ASSUME u.setup.offload PROVE NoPdu(t) /\ NoLogoutTimer(t) /\ ev = "POLL"
    BY <1>6, <2>2, ListFacts DEF Lists
  <2>3. QED
    BY <1>1, <1>6, <2>1, <2>2 DEF NoPdu, NoLogoutTimer
<1>10. ev = "POLL" => (NoLogoutTimer(t) => NoLogoutTimer(u))
  BY <1>1, <1>5 DEF NoLogoutTimer, p
<1>11. Lists(u)
  BY <1>3, <1>5, <1>7, <1>8, <1>9 DEF Lists
<1>12. QED
  BY <1>4, <1>6, <1>10, <1>11 DEF Good, u

(* c is a followed by b. *)
Joined(a, b, c) ==
    /\ Len(c) = Len(a) + Len(b) /\ DOMAIN c = 1 .. Len(a) + Len(b)
    /\ \A i \in 1 .. Len(a) : c[i] = a[i]
    /\ \A i \in Len(a) + 1 .. Len(a) + Len(b) : c[i] = b[i - Len(a)]

(* Concatenation joins. *)
LEMMA Concat ==
  ASSUME NEW S, NEW a \in Seq(S), NEW b \in Seq(S)
  PROVE  a \o b \in Seq(S) /\ Joined(a, b, a \o b)
BY SMTT(30) DEF Joined

(* The first n elements of a list. *)
LEMMA Prefix ==
  ASSUME NEW S, NEW b \in Seq(S), NEW n \in 0 .. Len(b)
  PROVE  SubSeq(b, 1, n) \in Seq(S) /\ Len(SubSeq(b, 1, n)) = n /\ \A i \in 1 .. n : SubSeq(b, 1, n)[i] = b[i]
BY SMTT(30)

(* c is a with the first n events of b at its end. *)
Extends(a, b, n, c) ==
    /\ Len(c) = Len(a) + n
    /\ \A i \in DOMAIN a : i \in DOMAIN c /\ c[i] = a[i]
    /\ \A j \in 1 .. n : Len(a) + j \in DOMAIN c /\ c[Len(a) + j] = b[j]
    /\ \A i \in DOMAIN c : i \notin DOMAIN a =>
         \E j \in 1 .. n : j \in DOMAIN b /\ i = Len(a) + j /\ c[i] = b[j]

(* Reading n events extends the list by them. *)
LEMMA Moved ==
  ASSUME NEW S, NEW a \in Seq(S), NEW b \in Seq(S), NEW n \in 0 .. Len(b), NEW c, c = a \o SubSeq(b, 1, n)
  PROVE  c \in Seq(S) /\ Extends(a, b, n, c)
<1> DEFINE d == SubSeq(b, 1, n)
<1>1. d \in Seq(S) /\ Len(d) = n /\ \A i \in 1 .. n : d[i] = b[i]
  BY Prefix
<1> HIDE DEF d
<1>2. c = a \o d
  BY DEF d
<1>3. Len(a) \in Nat /\ n \in Nat /\ DOMAIN a = 1 .. Len(a) /\ DOMAIN b = 1 .. Len(b) /\ Len(b) \in Nat
  BY SMTT(30)
<1>4. /\ c \in Seq(S) /\ Len(c) = Len(a) + n /\ DOMAIN c = 1 .. Len(a) + n
      /\ \A i \in 1 .. Len(a) : c[i] = a[i]
      /\ \A i \in Len(a) + 1 .. Len(a) + n : c[i] = d[i - Len(a)]
  <2>1. c \in Seq(S) /\ Joined(a, d, c)
    BY <1>1, <1>2, Concat
  <2>2. QED
    BY <1>1, <2>1 DEF Joined
<1>5. \A i \in DOMAIN a : i \in DOMAIN c /\ c[i] = a[i]
  BY <1>3, <1>4, SMTT(30)
<1>6. ASSUME NEW j \in 1 .. n PROVE Len(a) + j \in DOMAIN c /\ c[Len(a) + j] = b[j] /\ j \in DOMAIN b
  <2>1. Len(a) + j \in Len(a) + 1 .. Len(a) + n /\ (Len(a) + j) - Len(a) = j /\ j \in DOMAIN b /\ Len(a) + j \in DOMAIN c
    BY <1>3, <1>4, SMTT(30)
  <2>2. QED
    BY <1>1, <1>4, <2>1
<1>7. ASSUME NEW i \in DOMAIN c, i \notin DOMAIN a
      PROVE  \E j \in 1 .. n : i = Len(a) + j
  <2>1. i - Len(a) \in 1 .. n /\ i = Len(a) + (i - Len(a))
    BY <1>3, <1>4, <1>7, SMTT(30)
  <2>2. QED
    BY <2>1
<1>8. QED
  BY <1>4, <1>5, <1>6, <1>7 DEF Extends

(* c is b without its first element. *)
RestOf(b, c) ==
    /\ 1 \in DOMAIN b /\ Head(b) = b[1]
    /\ \A i \in DOMAIN c : i + 1 \in DOMAIN b /\ c[i] = b[i + 1]
    /\ \A i \in DOMAIN b \ {1} : i - 1 \in DOMAIN c /\ c[i - 1] = b[i]

(* Tail leaves the rest. *)
LEMMA Rest ==
  ASSUME NEW S, NEW b \in Seq(S), b # <<>>
  PROVE  Tail(b) \in Seq(S) /\ Head(b) \in S /\ RestOf(b, Tail(b))
BY SMTT(30) DEF RestOf

(* Events move from the socket to the ready list. *)
LEMMA EventsRead ==
  ASSUME NEW t, Good(t), NEW u, Typed(u), NEW n \in Nat, Extends(t.ready, t.nl, n, u.ready), u.pool = t.pool + n,
         \A i \in DOMAIN u.nl : \E j \in DOMAIN t.nl : u.nl[i] = t.nl[j],
         u.pend = t.pend, u.setup = t.setup, u.state = t.state, u.login = t.login
  PROVE  Good(u) /\ Keeps(t, u)
<1>1. \A i \in DOMAIN u.ready : \/ i \in DOMAIN t.ready /\ u.ready[i] = t.ready[i]
                                \/ \E j \in DOMAIN t.nl : u.ready[i] = t.nl[j]
  BY DEF Extends
<1>2. \A j \in DOMAIN t.nl : t.nl[j].ev # "POLL"
  <2>1. \A j \in DOMAIN t.nl : t.nl[j] \in Event
    BY ListFacts, SMTT(30)
  <2>2. QED
    BY <2>1, ContextEvents
<1>3. NoPoll(t) => NoPoll(u)
  BY <1>1, <1>2 DEF NoPoll
<1>4. OnePoll(u)
  <2>1. OnePoll(t)
    BY ListFacts DEF Lists
  <2>2. \A i \in DOMAIN u.ready : u.ready[i].ev = "POLL" => i \in DOMAIN t.ready /\ t.ready[i].ev = "POLL"
    BY <1>1, <1>2
  <2>3. \A i, j \in DOMAIN u.ready : u.ready[i].ev = "POLL" /\ u.ready[j].ev = "POLL" => i = j
    BY <2>1, <2>2 DEF OnePoll
  <2>4. \A i \in DOMAIN u.ready, c \in u.pend : u.ready[i].ev = "POLL" => c.ev # "POLL"
    BY <2>1, <2>2 DEF OnePoll
  <2>5. \A c, e \in u.pend : c.ev = "POLL" /\ e.ev = "POLL" => c = e
    BY <2>1 DEF OnePoll
  <2>6. QED
    BY <2>3, <2>4, <2>5 DEF OnePoll
<1>5. u.setup.offload => NoPdu(u) /\ NoLogoutTimer(u)
  <2>1. t.setup.offload => NoPdu(t) /\ NoLogoutTimer(t)
    BY ListFacts DEF Lists
  <2>2. NoPdu(t) => NoPdu(u)
    BY <1>1 DEF NoPdu
  <2>3. QED
    BY <2>1, <2>2 DEF NoLogoutTimer
<1>6. u.pool = Len(u.ready) + Timers(u.pend)
  <2>1. Len(u.ready) = Len(t.ready) + n
    BY DEF Extends
  <2>2. Len(t.ready) \in Nat
    BY ListFacts, SMTT(30)
  <2>3. QED
    BY <2>1, <2>2, ListFacts, SMTT(30)
<1>7. Lists(u)
  BY <1>4, <1>5, <1>6, ListFacts DEF Lists
<1>8. Keeps(t, u)
  BY <1>3 DEF Keeps, NoLogoutTimer
<1>9. QED
  BY <1>7, <1>8, Relisted DEF Keeps

(* The fields that a call changes by reading the socket. *)
SocketFields == {"nl", "pool", "ready", "dropped"}

(* What a call does to the socket and the ready list. *)
Drained(t, u) ==
    /\ u.nl = <<>>
    /\ \A x \in Fields \ SocketFields : u[x] = t[x]
    /\ \/ ~ (t.live /\ t.id) /\ u.pool = t.pool /\ u.ready = t.ready /\ u.dropped = t.dropped
       \/ /\ t.live /\ t.id
          /\ \E n \in 0 .. Len(t.nl) :
               /\ t.pool + n <= PoolMax
               /\ u.pool = t.pool + n
               /\ Extends(t.ready, t.nl, n, u.ready)
               /\ (n < Len(t.nl) => u.dropped) /\ (t.dropped => u.dropped)

(* __kipc_call empties the socket, as far as the pool has contexts. *)
LEMMA CallDrains == ASSUME NEW t, Good(t) PROVE Typed(KipcCall(t)) /\ Drained(t, KipcCall(t))
<1>1. Typed(t) /\ <<>> \in Seq(Event)
  BY ListFacts, SMTT(30)
<1>2. "nl" \in Fields /\ "pool" \in Fields \ {"nl"} /\ "ready" \in Fields /\ "dropped" \in Fields \ {"ready"}
      /\ Types["dropped"] = BOOLEAN /\ <<>> \in Types["nl"]
  BY <1>1, ListTypes DEF Fields, Types
<1>3. CASE ~ (t.live /\ t.id)
  <2>1. Typed([t EXCEPT !.nl = <<>>]) /\ Sets(t, [t EXCEPT !.nl = <<>>], "nl", <<>>)
    BY <1>1, <1>2, Update
  <2>2. KipcCall(t) = [t EXCEPT !.nl = <<>>]
    BY <1>3 DEF KipcCall
  <2> DEFINE u == KipcCall(t)
  <2>3. Typed(u) /\ Sets(t, u, "nl", <<>>)
    BY <2>1, <2>2
  <2> HIDE DEF u
  <2>4. u.nl = <<>> /\ \A x \in Fields \ {"nl"} : u[x] = t[x]
    BY <2>3 DEF Sets
  <2>5. Drained(t, u)
    BY <1>2, <1>3, <2>4 DEF Drained, SocketFields
  <2>6. QED
    BY <2>3, <2>5 DEF u
<1>4. CASE t.live /\ t.id
  <2> DEFINE room == PoolMax - t.pool
             n == IF Len(t.nl) <= room THEN Len(t.nl) ELSE room
             p == t.pool + n
             r == t.ready \o SubSeq(t.nl, 1, n)
             d == t.dropped \/ n < Len(t.nl)
             a == [t EXCEPT !.nl = <<>>, !.pool = p]
             u == KipcCall(t)
  <2>1. n \in 0 .. Len(t.nl) /\ p \in 0 .. PoolMax /\ p <= PoolMax
    BY ListFacts, SMTT(30)
  <2>2. r \in Seq(Event \cup TimerContext) /\ Extends(t.ready, t.nl, n, r)
    <3>1. t.ready \in Seq(Event \cup TimerContext) /\ t.nl \in Seq(Event \cup TimerContext)
      BY ListFacts, SMTT(30)
    <3> HIDE DEF n
    <3>2. QED
      BY <2>1, <3>1, Moved
  <2>3. d \in BOOLEAN /\ (n < Len(t.nl) => d) /\ (t.dropped => d)
    OBVIOUS
  <2>4. u = [a EXCEPT !.ready = r, !.dropped = d]
    BY <1>4 DEF KipcCall
  <2> HIDE DEF room, n, p, r, d, u
  <2>5. Typed(a) /\ Sets2(t, a, "nl", <<>>, "pool", p)
    BY <1>1, <1>2, <2>1, ListTypes, Update2
  <2> HIDE DEF a
  <2>6. Typed([a EXCEPT !.ready = r, !.dropped = d])
        /\ Sets2(a, [a EXCEPT !.ready = r, !.dropped = d], "ready", r, "dropped", d)
    BY <1>2, <2>2, <2>3, <2>5, ListTypes, Update2
  <2>7. Typed(u) /\ Sets2(a, u, "ready", r, "dropped", d)
    BY <2>4, <2>6
  <2>8. u.nl = <<>> /\ u.pool = p /\ u.ready = r /\ u.dropped = d
    BY <1>2, <2>5, <2>7 DEF Sets2
  <2>9. \A x \in Fields \ SocketFields : u[x] = t[x]
    BY <2>5, <2>7 DEF Sets2, SocketFields
  <2>10. Drained(t, u)
    BY <1>4, <2>1, <2>2, <2>3, <2>8, <2>9 DEF Drained, p
  <2>11. QED
    BY <2>7, <2>10 DEF u
<1>5. QED
  BY <1>3, <1>4

(* __kipc_call keeps the lists in order. *)
LEMMA Called ==
  ASSUME NEW t, Good(t)
  PROVE  /\ Good(KipcCall(t)) /\ Keeps(t, KipcCall(t))
         /\ KipcCall(t).state = t.state /\ KipcCall(t).login = t.login
<1> DEFINE u == KipcCall(t)
<1>1. Typed(u) /\ Drained(t, u)
  BY CallDrains
<1> HIDE DEF u
<1>2. u.pend = t.pend /\ u.setup = t.setup /\ u.state = t.state /\ u.login = t.login
  BY <1>1 DEF Drained, SocketFields, Fields
<1>3. \A i \in DOMAIN u.nl : \E j \in DOMAIN t.nl : u.nl[i] = t.nl[j]
  <2>1. u.nl = <<>>
    BY <1>1 DEF Drained
  <2>2. QED
    BY <2>1, SMTT(30)
<1>4. \E n \in Nat : u.pool = t.pool + n /\ Extends(t.ready, t.nl, n, u.ready)
  <2>1. CASE ~ (t.live /\ t.id)
    <3>1. u.pool = t.pool /\ u.ready = t.ready
      BY <1>1, <2>1 DEF Drained
    <3>2. t.pool = t.pool + 0 /\ Extends(t.ready, t.nl, 0, t.ready)
      <4>1. t.pool \in Nat /\ Len(t.ready) \in Nat
        BY ListFacts, SMTT(30)
      <4>2. QED
        BY <4>1, SMTT(30) DEF Extends
    <3>3. QED
      BY <3>1, <3>2
  <2>2. CASE t.live /\ t.id
    BY <1>1, <2>2, SMTT(30) DEF Drained
  <2>3. QED
    BY <2>1, <2>2
<1>5. Good(u) /\ Keeps(t, u)
  BY <1>1, <1>2, <1>3, <1>4, EventsRead
<1>6. QED
  BY <1>2, <1>5 DEF u

(* A session without contexts is in order. *)
LEMMA EmptyLists ==
  ASSUME NEW u, Typed(u), u.setup = s.setup, u.pool = 0, u.ready = <<>>, u.pend = {}, u.nl = <<>>,
         u.state # "IN_LOGIN"
  PROVE  Good(u) /\ NoPoll(u) /\ NoLogoutTimer(u)
<1>1. Timers({}) = 0
  BY NoTimers
<1>2. Lists(u) /\ NoPoll(u) /\ NoLogoutTimer(u)
  BY <1>1, SMTT(30) DEF Lists, OnePoll, NoPdu, NoPoll, NoLogoutTimer
<1>3. QED
  BY <1>2 DEF Good

(* A new session has no contexts. *)
LEMMA FreshGood ==
  ASSUME NEW t, Good(t) PROVE Good(Fresh(t)) /\ NoPoll(Fresh(t)) /\ NoLogoutTimer(Fresh(t))
<1> DEFINE u == Fresh(t)
<1>1. Typed(t) /\ Shaped(t) /\ t.setup = s.setup
  BY DEF Good, Typed
<1>2. Typed(u) /\ u.setup = s.setup /\ u.pool = 0 /\ u.ready = <<>> /\ u.pend = {} /\ u.nl = <<>> /\ u.state = "FREE"
  BY <1>1, FreshTyped, FreshValues, FreshKeeps
<1> HIDE DEF u
<1>3. u.state # "IN_LOGIN"
  BY <1>2
<1>4. Good(u) /\ NoPoll(u) /\ NoLogoutTimer(u)
  BY <1>2, <1>3, EmptyLists
<1>5. QED
  BY <1>4 DEF u

(* Contexts that are marked, or moved up when one is taken, stay what they are. *)
LEMMA Remarked ==
  ASSUME NEW t, Good(t), NEW u, Typed(u), Len(u.ready) = Len(t.ready), DOMAIN u.ready = DOMAIN t.ready,
         \A i \in DOMAIN t.ready : u.ready[i].ev = t.ready[i].ev,
         u.pool = t.pool, u.nl = t.nl, u.pend = t.pend, u.setup = t.setup, u.state = t.state, u.login = t.login
  PROVE  Good(u)
<1>1. OnePoll(u)
  <2>1. OnePoll(t)
    BY ListFacts DEF Lists
  <2>2. \A i, j \in DOMAIN u.ready : u.ready[i].ev = "POLL" /\ u.ready[j].ev = "POLL" => i = j
    BY <2>1 DEF OnePoll
  <2>3. \A i \in DOMAIN u.ready, c \in u.pend : u.ready[i].ev = "POLL" => c.ev # "POLL"
    BY <2>1 DEF OnePoll
  <2>4. \A c, e \in u.pend : c.ev = "POLL" /\ e.ev = "POLL" => c = e
    BY <2>1 DEF OnePoll
  <2>5. QED
    BY <2>2, <2>3, <2>4 DEF OnePoll
<1>2. u.setup.offload => NoPdu(u) /\ NoLogoutTimer(u)
  <2>1. t.setup.offload => NoPdu(t) /\ NoLogoutTimer(t)
    BY ListFacts DEF Lists
  <2>2. QED
    BY <2>1 DEF NoPdu, NoLogoutTimer
<1>3. Lists(u)
  BY <1>1, <1>2, ListFacts DEF Lists
<1>4. QED
  BY <1>3, Relisted DEF NoLogoutTimer

(* The events on ready_list are marked, and nothing else happens to them. *)
Rebound(c, u) ==
    /\ u.k = "bound" /\ \A x \in Fields \ {"k", "ready"} : u[x] = c[x]
    /\ DOMAIN u.ready = DOMAIN c.ready /\ \A i \in DOMAIN c.ready : u.ready[i].ev = c.ready[i].ev

(* bind_conn *)
LEMMA BindGood ==
  ASSUME NEW t, Good(t)
  PROVE  Good(KBindConn(t)) /\ KBindConn(t).state = t.state /\ Rebound(KipcCall(t), KBindConn(t))
<1> DEFINE c == KipcCall(t)
           r == [i \in DOMAIN c.ready |-> IF c.ready[i].ev \in KernelEvent THEN [c.ready[i] EXCEPT !.stale = TRUE]
                                          ELSE c.ready[i]]
           u == KBindConn(t)
<1>1. Good(c) /\ c.state = t.state
  BY Called
<1>2. u = [c EXCEPT !.k = "bound", !.ready = r]
  BY DEF KBindConn
<1> HIDE DEF c, u
<1>3. c.ready \in Seq(Event \cup TimerContext) /\ Typed(c)
  BY <1>1, ListFacts
<1>4. \A i \in DOMAIN c.ready : c.ready[i] \in Event \cup TimerContext
  BY <1>3, SMTT(30)
<1>5. \A e \in Event \cup TimerContext : e.ev \in KernelEvent =>
         [e EXCEPT !.stale = TRUE] \in Event /\ [e EXCEPT !.stale = TRUE].ev = e.ev
  <2>1. \A e \in TimerContext : e.ev \notin KernelEvent
    BY ContextEvents DEF KernelEvent
  <2>2. \A e \in Event : [e EXCEPT !.stale = TRUE] \in Event /\ [e EXCEPT !.stale = TRUE].ev = e.ev
    BY DEF Event
  <2>3. QED
    BY <2>1, <2>2
<1>6. /\ r \in Seq(Event \cup TimerContext) /\ Len(r) = Len(c.ready) /\ DOMAIN r = DOMAIN c.ready
      /\ \A i \in DOMAIN c.ready : r[i].ev = c.ready[i].ev
  <2>1. \A i \in DOMAIN c.ready : r[i] \in Event \cup TimerContext /\ r[i].ev = c.ready[i].ev
    BY <1>4, <1>5
  <2>2. DOMAIN c.ready = 1 .. Len(c.ready) /\ Len(c.ready) \in Nat
    BY <1>3, SMTT(30)
  <2>3. DOMAIN r = DOMAIN c.ready
    OBVIOUS
  <2>4. r = [i \in 1 .. Len(c.ready) |-> r[i]]
    BY <2>2
  <2> HIDE DEF r
  <2>5. r \in Seq(Event \cup TimerContext) /\ Len(r) = Len(c.ready)
    BY <2>1, <2>2, <2>3, <2>4, SMTT(30)
  <2>6. QED
    BY <2>1, <2>3, <2>5
<1> HIDE DEF r
<1>7. Typed(u) /\ Sets2(c, u, "k", "bound", "ready", r)
  <2>1. "k" \in Fields /\ "ready" \in Fields \ {"k"} /\ "bound" \in Types["k"]
    BY PlainTypes DEF Fields, Kernel
  <2>2. Typed([c EXCEPT !.k = "bound", !.ready = r]) /\ Sets2(c, [c EXCEPT !.k = "bound", !.ready = r], "k", "bound", "ready", r)
    BY <1>3, <1>6, <2>1, ListTypes, Update2
  <2>3. QED
    BY <1>2, <2>2
<1>8. u.ready = r /\ u.pool = c.pool /\ u.nl = c.nl /\ u.pend = c.pend /\ u.setup = c.setup /\ u.state = c.state
      /\ u.login = c.login
  BY <1>7 DEF Sets2, Fields
<1>9. Good(u)
  BY <1>1, <1>6, <1>7, <1>8, Remarked
<1>10. Rebound(c, u)
  BY <1>6, <1>7 DEF Rebound, Sets2
<1>11. QED
  BY <1>1, <1>8, <1>9, <1>10 DEF c, u

(* stop_conn, destroy_conn and destroy_session *)
LEMMA KernelCallsGood ==
  ASSUME NEW t, Good(t), NEW f
  PROVE  /\ Good(KStopConn(t, f)) /\ Keeps(t, KStopConn(t, f))
         /\ Good(KDestroyConn(t, f)) /\ Good(KDestroySession(t, f))
<1> DEFINE c == KipcCall(t)
<1>1. Good(c) /\ Keeps(t, c)
  BY Called
<1> HIDE DEF c
<1>2. "conn" \in Kernel /\ "session" \in Kernel /\ "none" \in Kernel
  BY DEF Kernel
<1>3. \A v \in Kernel : Good([c EXCEPT !.k = v]) /\ Keeps(c, [c EXCEPT !.k = v])
  BY <1>1, SetKernel
<1>4. Good([c EXCEPT !.k = "none", !.unbinding = FALSE])
  <2> DEFINE d == [c EXCEPT !.k = "none"]
  <2>1. Good(d)
    BY <1>2, <1>3
  <2> HIDE DEF d
  <2>2. Good([d EXCEPT !.unbinding = FALSE])
    BY <2>1, SetKernel
  <2>3. QED
    BY <2>2 DEF d
<1>5. Good(KStopConn(t, f)) /\ Keeps(t, KStopConn(t, f))
  BY <1>1, <1>2, <1>3 DEF KStopConn, c, Keeps
<1>6. Good(KDestroyConn(t, f))
  BY <1>1, <1>2, <1>3 DEF KDestroyConn, c
<1>7. Good(KDestroySession(t, f))
  BY <1>1, <1>4 DEF KDestroySession, c
<1>8. QED
  BY <1>5, <1>6, <1>7

(* conn_delete_timers *)
LEMMA TimersDeletedGood ==
  ASSUME NEW t, Good(t) PROVE Good(ConnDeleteTimers(t)) /\ Keeps(t, ConnDeleteTimers(t))
<1> DEFINE a == [t EXCEPT !.login_timer = None]
<1>1. Good(a) /\ Keeps(t, a)
  BY SetTimers
<1> HIDE DEF a
<1>2. Good([a EXCEPT !.nop_timer = "off"]) /\ Keeps(a, [a EXCEPT !.nop_timer = "off"])
  BY <1>1, SetTimers
<1>3. QED
  BY <1>1, <1>2 DEF ConnDeleteTimers, a, Keeps

(* The end of a login *)
LEMMA LoggedInGood == ASSUME NEW t, Good(t), NoLogoutTimer(t), NEW f PROVE Good(LoggedIn(t, f))
<1> DEFINE n == [t EXCEPT !.notify = None]
           u == IF t.r_stage \in {"NO_CHANGE", "REDIRECT"} THEN ScanHost(t, t.login, f) ELSE WriteRsp(n, t.login, "ok")
           a == [u EXCEPT !.state = "LOGGED_IN"]
           b == [a EXCEPT !.reopen_cnt = 0]
           c == [b EXCEPT !.r_stage = "NO_CHANGE"]
<1>1. Good(n) /\ Keeps(t, n)
  BY SetOwner
<1> HIDE DEF n
<1>2. Good(u) /\ NoLogoutTimer(u)
  BY <1>1, Answers DEF ScanHost, Keeps
<1> HIDE DEF u
<1>3. Good(a)
  BY <1>2, SetState DEF ConnState
<1> HIDE DEF a
<1>4. Good(b)
  <2>1. 0 \in 0 .. MaxCnt
    BY BoundAssumption, SMTT(30)
  <2>2. QED
    BY <1>3, <2>1, SetStage
<1> HIDE DEF b
<1>5. Good(c)
  BY <1>4, SetStage DEF RStage
<1>6. LoggedIn(t, f) = c
  BY DEF LoggedIn, c, b, a, u, n
<1>7. QED
  BY <1>5, <1>6

(* What may become of a login whose reply has been looked at. *)
AfterReply(a, to, f) ==
    {LoginEh([a EXCEPT !.reopen_cnt = RetryMax], a.login, "FATAL_LOGIN", f),
     LoginEh([a EXCEPT !.reopen_cnt = RetryMax], a.login, "LOGIN_AUTH_FAILED", f),
     LoginEh(a, a.login, "LOGIN", f), LoginRedirect(a, to, f), SetupFullFeaturePhase(a, f), KipcCall(a)}

(* iscsi_recv_login_rsp does one of these. *)
LEMMA ReplyForms ==
  ASSUME NEW t, NEW reply, NEW to, NEW f
  PROVE  \E a \in {t, RecordMove(t, reply)} : RecvLoginRsp(t, reply, to, f) \in AfterReply(a, to, f)
<1> DEFINE ret == LoginResponseStatus(LoginRet(reply))
           checked == ret = "SUCCESS"
           a == IF checked THEN RecordMove(t, reply) ELSE t
           status == IF checked THEN CheckIscsiStatusClass(reply) ELSE ret
           u == RecvLoginRsp(t, reply, to, f)
<1>1. a \in {t, RecordMove(t, reply)}
  OBVIOUS
<1>2. u =
         CASE status = "FAILED" -> LoginEh([a EXCEPT !.reopen_cnt = RetryMax], a.login, "FATAL_LOGIN", f)
           [] status = "AUTH_FAILED" -> LoginEh([a EXCEPT !.reopen_cnt = RetryMax], a.login, "LOGIN_AUTH_FAILED", f)
           [] status \in {"RETRY", "IMM_RETRY"} -> LoginEh(a, a.login, "LOGIN", f)
           [] status = "IMM_REDIRECT_RETRY" -> LoginRedirect(a, to, f)
           [] OTHER -> IF reply = "full" THEN SetupFullFeaturePhase(a, f)
                       ELSE IF CallFails("send_pdu", a, f) THEN LoginEh(a, a.login, "LOGIN", f)
                       ELSE KipcCall(a)
  BY DEF RecvLoginRsp
<1> HIDE DEF a, status, checked, ret, u
<1>3. u \in AfterReply(a, to, f)
  <2>1. CASE status \in {"FAILED", "AUTH_FAILED", "RETRY", "IMM_RETRY", "IMM_REDIRECT_RETRY"}
    BY <1>2, <2>1 DEF AfterReply
  <2>2. CASE status \notin {"FAILED", "AUTH_FAILED", "RETRY", "IMM_RETRY", "IMM_REDIRECT_RETRY"}
    <3>1. u = IF reply = "full" THEN SetupFullFeaturePhase(a, f)
              ELSE IF CallFails("send_pdu", a, f) THEN LoginEh(a, a.login, "LOGIN", f)
              ELSE KipcCall(a)
      BY <1>2, <2>2
    <3>2. QED
      BY <3>1 DEF AfterReply
  <2>3. QED
    BY <2>1, <2>2
<1>4. QED
  BY <1>1, <1>3 DEF u

(* iscsi_send_logout *)
LEMMA SendLogoutGood == ASSUME NEW t, Good(t), ~ Offload, NEW f PROVE Good(SendLogout(t, f))
<1>1. CASE t.state # "LOGGED_IN"
  BY <1>1 DEF SendLogout
<1>2. CASE t.state = "LOGGED_IN"
  <2> DEFINE a == KipcCall(t)
             b == [a EXCEPT !.state = "IN_LOGOUT"]
  <2>1. Good(a) /\ a.state = "LOGGED_IN"
    BY <1>2, Called
  <2> HIDE DEF a
  <2>2. NoLogoutTimer(a) /\ Typed(a) /\ a.setup = s.setup
    BY <2>1 DEF Good
  <2>3. Good(b) /\ NoLogoutTimer(b)
    BY <2>1, <2>2, SetState DEF ConnState, Keeps
  <2>4. b.state = "IN_LOGOUT" /\ b.setup = s.setup
    BY <2>2 DEF Typed, Shaped, Fields
  <2> HIDE DEF b
  <2>5. HasContext(b) => Good(ScheduleTimer(b, "LOGOUT_TIMER", None))
    BY <2>3, <2>4, TimerScheduled DEF Offload
  <2>6. QED
    BY <1>2, <2>1, <2>3, <2>5 DEF SendLogout, a, b
<1>3. QED
  BY <1>1, <1>2

(* What may become of a session that received a PDU in full feature phase. *)
AfterPdu(t, f) ==
    {t, KipcCall(t), SendLogout(t, f), ConnErrorHandle(t, f), NopOutTimer([t EXCEPT !.nop_timer = "off"], "interval")}
        \cup {[t EXCEPT !.time2wait = v] : v \in BOOLEAN}
        \cup {ConnErrorHandle([t EXCEPT !.time2wait = v], f) : v \in BOOLEAN}

(* session_conn_recv_pdu does one of these. *)
LEMMA PduForms == ASSUME NEW t, NEW pdu \in Pdu, NEW f PROVE RecvPdu(t, pdu, f) \in AfterPdu(t, f)
<1>1. CASE pdu \in {"nop_rsp", "nop_req"}
  BY <1>1 DEF RecvPdu, RecvNopIn, AfterPdu
<1>2. CASE pdu \in {"logout_rsp", "logout_rsp_t2w", "logout_rsp_now"}
  <2>1. (pdu = "logout_rsp_t2w") \in BOOLEAN
    OBVIOUS
  <2>2. QED
    BY <1>2, <2>1 DEF RecvPdu, RecvLogoutRsp, AfterPdu
<1>3. CASE pdu \in {"async_logout", "async_drop_t2w", "async_drop_now", "async_nego"}
  <2>1. (pdu = "async_drop_t2w") \in BOOLEAN
    OBVIOUS
  <2>2. RecvPdu(t, pdu, f) = RecvAsyncMsg(t, pdu, f)
    BY <1>3 DEF RecvPdu
  <2>3. RecvAsyncMsg(t, pdu, f) \in AfterPdu(t, f)
    BY <1>3, <2>1 DEF RecvAsyncMsg, AfterPdu
  <2>4. QED
    BY <2>2, <2>3
<1>4. CASE pdu = "other"
  BY <1>4 DEF RecvPdu, AfterPdu
<1>5. QED
  BY <1>1, <1>2, <1>3, <1>4 DEF Pdu

(* A request arrives. *)
LEMMA OpenGood ==
  ASSUME NEW t, Good(t), NEW r \in Req, NEW kind \in {"login", "logout", "sync"} PROVE Good(Open(t, r, kind))
<1> DEFINE v == [t.req EXCEPT ![r] = "open"]
           w == [t.kind EXCEPT ![r] = kind]
           a == [t EXCEPT !.req = v]
<1>1. t.req \in [Req -> {"idle", "open", "ok", "err", "twice"}] /\ t.kind \in [Req -> {"none", "login", "logout", "sync"}]
  BY TypedRecord DEF Good, FieldTypes
<1>2. v \in [Req -> {"idle", "open", "ok", "err", "twice"}] /\ w \in [Req -> {"none", "login", "logout", "sync"}]
  BY <1>1
<1>3. Open(t, r, kind) = [a EXCEPT !.kind = w]
  BY DEF Open
<1> HIDE DEF v, w
<1>4. Good(a)
  BY <1>2, SetRequests
<1> HIDE DEF a
<1>5. Good([a EXCEPT !.kind = w])
  BY <1>2, <1>4, SetRequests
<1>6. QED
  BY <1>3, <1>5

(* The session of a login, and the one that iscsi_sync_session takes over. *)
NewSession(t) == [Fresh(t) EXCEPT !.live = TRUE, !.state = "XPT_WAIT"]

TakenOver(t, r) ==
    [Fresh(t) EXCEPT !.live = TRUE, !.id = TRUE, !.state = "CLEANUP_WAIT", !.r_stage = "REOPEN", !.notify = r, !.nl = t.nl]

(* The session that __session_login_task makes *)
LEMMA NewGood == ASSUME NEW t, Good(t) PROVE Good(NewSession(t)) /\ NoPoll(NewSession(t)) /\ NewSession(t).nl = <<>>
<1> DEFINE x == Fresh(t)
           a == [x EXCEPT !.live = TRUE]
           b == [a EXCEPT !.state = "XPT_WAIT"]
<1>1. Good(x) /\ NoPoll(x) /\ NoLogoutTimer(x) /\ x.nl = <<>>
  BY FreshGood, FreshValues DEF Good, Typed
<1> HIDE DEF x
<1>2. Good(a) /\ NoPoll(a) /\ NoLogoutTimer(a) /\ a.nl = <<>>
  <2>1. Good(a) /\ Keeps(x, a)
    BY <1>1, SetKernel
  <2>2. a.nl = <<>>
    BY <1>1 DEF Good, Typed, Shaped, Fields
  <2>3. QED
    BY <1>1, <2>1, <2>2 DEF Keeps
<1> HIDE DEF a
<1>3. Good(b) /\ NoPoll(b) /\ b.nl = <<>>
  <2>1. Good(b) /\ Keeps(a, b)
    BY <1>2, SetState DEF ConnState
  <2>2. b.nl = <<>>
    BY <1>2 DEF Good, Typed, Shaped, Fields
  <2>3. QED
    BY <1>2, <2>1, <2>2 DEF Keeps
<1>4. b = NewSession(t)
  BY DEF a, x, NewSession
<1> HIDE DEF b
<1>5. QED
  BY <1>3, <1>4

(* The session that iscsi_sync_session makes *)
LEMMA TakenOverGood == ASSUME NEW t, Good(t), NEW r \in Req PROVE Good(TakenOver(t, r))
<1> DEFINE x == Fresh(t)
           a == [x EXCEPT !.live = TRUE]
           b == [a EXCEPT !.id = TRUE]
           c == [b EXCEPT !.state = "CLEANUP_WAIT"]
           d == [c EXCEPT !.r_stage = "REOPEN"]
           e == [d EXCEPT !.notify = r]
           g == [e EXCEPT !.nl = t.nl]
<1>1. Good(x) /\ NoPoll(x) /\ NoLogoutTimer(x) /\ x.ready = <<>> /\ x.pend = {}
  BY FreshGood, FreshValues DEF Good, Typed
<1> HIDE DEF x
<1>2. Good(a)
  BY <1>1, SetKernel
<1>3. a.ready = <<>> /\ a.pend = {}
  BY <1>1 DEF Good, Typed, Shaped, Fields
<1> HIDE DEF a
<1>4. Good(b)
  BY <1>2, SetKernel
<1>5. b.ready = <<>> /\ b.pend = {}
  BY <1>2, <1>3 DEF Good, Typed, Shaped, Fields
<1> HIDE DEF b
<1>6. Good(c)
  BY <1>4, SetState DEF ConnState
<1>7. c.ready = <<>> /\ c.pend = {} /\ c.state = "CLEANUP_WAIT"
  BY <1>4, <1>5 DEF Good, Typed, Shaped, Fields
<1> HIDE DEF c
<1>8. Good(d)
  BY <1>6, SetStage DEF RStage
<1>9. d.ready = <<>> /\ d.pend = {} /\ d.state = "CLEANUP_WAIT"
  BY <1>6, <1>7 DEF Good, Typed, Shaped, Fields
<1> HIDE DEF d
<1>10. Good(e)
  BY <1>8, SetOwner DEF Qtask
<1>11. e.ready = <<>> /\ e.pend = {} /\ e.state = "CLEANUP_WAIT"
  BY <1>8, <1>9 DEF Good, Typed, Shaped, Fields
<1> HIDE DEF e
<1>12. Good(g)
  <2>1. Typed(g) /\ Sets(e, g, "nl", t.nl)
    BY <1>10, ListFacts, ListTypes, Update DEF ListFields
  <2> HIDE DEF g
  <2>2. g.nl = t.nl /\ g.ready = e.ready /\ g.pend = e.pend /\ g.pool = e.pool /\ g.setup = e.setup /\ g.state = e.state
        /\ g.login = e.login
    BY <2>1 DEF Sets, Fields
  <2>3. OnePoll(g)
    BY <1>11, <2>2, SMTT(30) DEF OnePoll
  <2>4. g.setup.offload => NoPdu(g) /\ NoLogoutTimer(g)
    <3>1. g.setup.offload => NoPdu(t)
      BY <1>10, <2>2, ListFacts DEF Lists
    <3>2. g.setup.offload => NoPdu(g)
      BY <1>11, <2>2, <3>1, SMTT(30) DEF NoPdu
    <3>3. QED
      BY <1>11, <2>2, <3>2 DEF NoLogoutTimer
  <2>5. Lists(g)
    BY <1>10, <2>2, <2>3, <2>4, ListFacts DEF Lists
  <2>6. QED
    BY <1>10, <1>11, <2>1, <2>2, <2>5 DEF Good
<1>13. g = TakenOver(t, r)
  BY DEF e, d, c, b, a, x, TakenOver
<1> HIDE DEF g
<1>14. QED
  BY <1>12, <1>13

(* The place in a list of what is at i once the place n has been taken out. *)
Was(i, n) == IF i < n THEN i ELSE i + 1

(* c is b without what was at n. *)
Without(b, n, c) ==
    /\ Len(c) = Len(b) - 1
    /\ \A i \in DOMAIN c : Was(i, n) \in DOMAIN b /\ Was(i, n) # n /\ c[i] = b[Was(i, n)]
    /\ \A i, j \in DOMAIN c : (Was(i, n) = Was(j, n) => i = j) /\ (i < j => Was(i, n) < Was(j, n))
    /\ \A j \in DOMAIN b \ {n} : \E i \in DOMAIN c : c[i] = b[j]

(* Taking a context off ready_list *)
LEMMA TakenOut ==
  ASSUME NEW S, NEW b \in Seq(S), NEW n \in DOMAIN b, NEW c,
         c = [i \in 1 .. Len(b) - 1 |-> IF i < n THEN b[i] ELSE b[i + 1]]
  PROVE  c \in Seq(S) /\ Without(b, n, c)
<1>1. Len(b) \in Nat /\ DOMAIN b = 1 .. Len(b) /\ Len(b) >= 1
  BY SMTT(30)
<1>2. Len(b) - 1 \in Nat
  BY <1>1, SMTT(30)
<1>3. \A i \in 1 .. Len(b) - 1 : Was(i, n) \in DOMAIN b /\ Was(i, n) # n /\ c[i] = b[Was(i, n)]
  BY <1>1, SMTT(30) DEF Was
<1>4. \A i \in 1 .. Len(b) - 1 : c[i] \in S
  BY <1>3, SMTT(30)
<1>5. c \in Seq(S) /\ Len(c) = Len(b) - 1 /\ DOMAIN c = 1 .. Len(b) - 1
  BY <1>2, <1>4, SMTT(30)
<1>6. \A i, j \in 1 .. Len(b) - 1 : (Was(i, n) = Was(j, n) => i = j) /\ (i < j => Was(i, n) < Was(j, n))
  BY <1>1, SMTT(30) DEF Was
<1>7. ASSUME NEW j \in DOMAIN b \ {n} PROVE \E i \in 1 .. Len(b) - 1 : c[i] = b[j]
  <2>1. CASE j < n
    BY <1>1, <2>1, SMTT(30)
  <2>2. CASE ~ (j < n)
    <3>1. j - 1 \in 1 .. Len(b) - 1 /\ ~ (j - 1 < n) /\ j - 1 + 1 = j
      BY <1>1, <2>2, SMTT(30)
    <3>2. c[j - 1] = b[j]
      BY <3>1
    <3>3. QED
      BY <3>1, <3>2
  <2>3. QED
    BY <2>1, <2>2
<1>8. QED
  BY <1>3, <1>5, <1>6, <1>7 DEF Without

(* actor_poll finds the context it runs. *)
LEMMA NextIsThere == ASSUME Good(s), s.ready # <<>> PROVE NextContext \in DOMAIN s.ready
<1>1. s.ready \in Seq(Event \cup TimerContext)
  BY ListFacts
<1>2. 1 \in DOMAIN s.ready
  BY <1>1, SMTT(30)
<1>3. QED
  BY <1>2 DEF NextContext

(* A context of ready_list is put back before its handler goes on. *)
LEMMA ContextTaken ==
  ASSUME Good(s), s.ready # <<>>
  PROVE  /\ Good(Taken) /\ Without(s.ready, NextContext, Taken.ready)
         /\ \A x \in Fields \ {"pool", "ready"} : Taken[x] = s[x]
         /\ s.ready[NextContext].ev = "POLL" => NoPoll(Taken) /\ s.ready[NextContext].q \in Qtask
<1> DEFINE n == NextContext
           r == [i \in 1 .. Len(s.ready) - 1 |-> IF i < n THEN s.ready[i] ELSE s.ready[i + 1]]
<1>1. n \in DOMAIN s.ready
  BY NextIsThere
<1>2. s.ready \in Seq(Event \cup TimerContext)
  BY ListFacts
<1>3. Taken = [s EXCEPT !.pool = s.pool - 1, !.ready = r]
  BY DEF Taken
<1> HIDE DEF n
<1>4. r \in Seq(Event \cup TimerContext) /\ Without(s.ready, n, r)
  BY <1>1, <1>2, TakenOut
<1> HIDE DEF r
<1>5. s.pool - 1 \in 0 .. PoolMax
  <2>1. Len(s.ready) \in Nat \ {0}
    BY <1>2, SMTT(30)
  <2>2. QED
    BY <2>1, ListFacts, SMTT(30)
<1> DEFINE u == Taken
<1>6. Typed(u) /\ Sets2(s, u, "pool", s.pool - 1, "ready", r)
  <2>1. "pool" \in Fields /\ "ready" \in Fields \ {"pool"}
    BY DEF Fields
  <2>2. Typed(s)
    BY ListFacts
  <2>3. s.pool - 1 \in Types["pool"] /\ r \in Types["ready"]
    BY <1>4, <1>5, ListTypes
  <2>4. QED
    BY <1>3, <2>1, <2>2, <2>3, Update2
<1> HIDE DEF u
<1>7. u.pool = s.pool - 1 /\ u.ready = r
  BY <1>6 DEF Sets2
<1>8. u.nl = s.nl /\ u.setup = s.setup /\ u.state = s.state /\ u.login = s.login /\ u.pend = s.pend /\ u.saddr = s.saddr
  BY <1>6 DEF Sets2, Fields
<1>9. \A i \in DOMAIN u.ready : Was(i, n) \in DOMAIN s.ready /\ Was(i, n) # n /\ u.ready[i] = s.ready[Was(i, n)]
  BY <1>4, <1>7 DEF Without
<1>10. OnePoll(s)
  BY ListFacts DEF Lists
<1>11. OnePoll(u)
  <2>1. \A i, j \in DOMAIN u.ready : u.ready[i].ev = "POLL" /\ u.ready[j].ev = "POLL" => i = j
    <3>1. \A i, j \in DOMAIN u.ready : Was(i, n) = Was(j, n) => i = j
      BY <1>4, <1>7 DEF Without
    <3>2. QED
      BY <1>9, <1>10, <3>1 DEF OnePoll
  <2>2. \A i \in DOMAIN u.ready, c \in u.pend : u.ready[i].ev = "POLL" => c.ev # "POLL"
    <3>1. \A i \in DOMAIN u.ready : u.ready[i].ev = "POLL" => \E j \in DOMAIN s.ready : s.ready[j].ev = "POLL"
      BY <1>9
    <3>2. \A j \in DOMAIN s.ready, c \in s.pend : s.ready[j].ev = "POLL" => c.ev # "POLL"
      BY <1>10 DEF OnePoll
    <3>3. QED
      BY <1>8, <3>1, <3>2
  <2>3. \A c, e \in u.pend : c.ev = "POLL" /\ e.ev = "POLL" => c = e
    BY <1>8, <1>10 DEF OnePoll
  <2>4. QED
    BY <2>1, <2>2, <2>3 DEF OnePoll
<1>12. u.setup.offload => NoPdu(u) /\ NoLogoutTimer(u)
  <2>1. s.setup.offload => NoPdu(s) /\ NoLogoutTimer(s)
    BY ListFacts DEF Lists
  <2>2. NoPdu(s) => NoPdu(u)
    BY <1>8, <1>9 DEF NoPdu
  <2>3. QED
    BY <1>8, <2>1, <2>2 DEF NoLogoutTimer
<1>13. u.pool = Len(u.ready) + Timers(u.pend)
  <2>1. Len(u.ready) = Len(s.ready) - 1
    BY <1>4, <1>7 DEF Without
  <2>2. Len(s.ready) \in Nat
    BY <1>2, SMTT(30)
  <2>3. QED
    BY <1>7, <1>8, <2>1, <2>2, ListFacts, SMTT(30)
<1>14. Lists(u)
  BY <1>8, <1>11, <1>12, <1>13, ListFacts DEF Lists
<1>15. Good(u)
  BY <1>6, <1>8, <1>14, Relisted DEF NoLogoutTimer
<1>16. ASSUME s.ready[n].ev = "POLL" PROVE NoPoll(u) /\ s.ready[n].q \in Qtask
  <2>1. NoPoll(u)
    BY <1>1, <1>8, <1>9, <1>10, <1>16 DEF OnePoll, NoPoll
  <2>2. s.ready[n] \in Event \cup TimerContext
    BY <1>1, <1>2, SMTT(30)
  <2>3. QED
    BY <1>16, <2>1, <2>2, ContextEvents
<1>17. Without(s.ready, n, u.ready) /\ \A x \in Fields \ {"pool", "ready"} : u[x] = s[x]
  BY <1>4, <1>6, <1>7 DEF Sets2
<1>18. QED
  BY <1>15, <1>16, <1>17 DEF u, n

(* A timer that is ripe is off the pending list. *)
TimerOff(c) == [s EXCEPT !.pend = @ \ {c}, !.pool = @ - 1]

(* A timer of pend_list is put back before its handler goes on. *)
LEMMA TimerTaken ==
  ASSUME Good(s), NEW c \in s.pend
  PROVE  /\ Good(TimerOff(c)) /\ TimerOff(c).pend = s.pend \ {c}
         /\ \A x \in Fields \ {"pend", "pool"} : TimerOff(c)[x] = s[x]
         /\ c.ev = "POLL" => NoPoll(TimerOff(c)) /\ c.q \in Qtask
<1> DEFINE p == s.pend \ {c}
           u == TimerOff(c)
<1>1. c \in TimerContext /\ p \in SUBSET TimerContext
  BY ListFacts
<1>2. Timers(p) = Timers(s.pend) - 1
  <2>1. \A e \in s.pend : e.ev = "POLL" /\ c.ev = "POLL" => e = c
    BY ListFacts DEF Lists, OnePoll
  <2>2. \A e \in TimerContext : e.ev = "LOGOUT_TIMER" /\ c.ev = "LOGOUT_TIMER" => e = c
    BY <1>1, ContextEvents
  <2>3. c.ev = "POLL" \/ c.ev = "LOGOUT_TIMER"
    BY <1>1, ContextEvents
  <2>4. \A e \in s.pend : e.ev = c.ev => e = c
    BY <2>1, <2>2, <2>3, ListFacts
  <2>5. QED
    BY <1>1, <2>4, TimerRemoved
<1>3. s.pool - 1 \in 0 .. PoolMax
  <2>1. Timers(s.pend) >= 1
    <3>1. Timers(p) \in Nat /\ Timers(s.pend) \in Nat
      BY TimersType
    <3>2. QED
      BY <1>2, <3>1, SMTT(30)
  <2>2. Len(s.ready) \in Nat
    BY ListFacts, SMTT(30)
  <2>3. QED
    BY <2>1, <2>2, ListFacts, SMTT(30)
<1>4. \A e \in p : e \in s.pend /\ e # c
  OBVIOUS
<1>5. u = [s EXCEPT !.pend = p, !.pool = s.pool - 1]
  BY DEF TimerOff
<1> HIDE DEF p, u
<1>6. Typed(u) /\ Sets2(s, u, "pend", p, "pool", s.pool - 1)
  <2>1. "pend" \in Fields /\ "pool" \in Fields \ {"pend"}
    BY DEF Fields
  <2>2. Typed(s)
    BY ListFacts
  <2>3. s.pool - 1 \in Types["pool"] /\ p \in Types["pend"]
    BY <1>1, <1>3, ListTypes
  <2>4. QED
    BY <1>5, <2>1, <2>2, <2>3, Update2
<1> HIDE DEF u
<1>7. u.pool = s.pool - 1 /\ u.pend = p
  BY <1>6 DEF Sets2
<1>8. u.nl = s.nl /\ u.setup = s.setup /\ u.state = s.state /\ u.login = s.login /\ u.ready = s.ready
  BY <1>6 DEF Sets2, Fields
<1>9. OnePoll(s)
  BY ListFacts DEF Lists
<1>10. OnePoll(u)
  <2>1. \A i, j \in DOMAIN u.ready : u.ready[i].ev = "POLL" /\ u.ready[j].ev = "POLL" => i = j
    BY <1>8, <1>9 DEF OnePoll
  <2>2. \A i \in DOMAIN u.ready, e \in u.pend : u.ready[i].ev = "POLL" => e.ev # "POLL"
    BY <1>4, <1>7, <1>8, <1>9 DEF OnePoll
  <2>3. \A d, e \in u.pend : d.ev = "POLL" /\ e.ev = "POLL" => d = e
    BY <1>4, <1>7, <1>9 DEF OnePoll
  <2>4. QED
    BY <2>1, <2>2, <2>3 DEF OnePoll
<1>11. NoLogoutTimer(s) => NoLogoutTimer(u)
  BY <1>4, <1>7 DEF NoLogoutTimer
<1>12. u.setup.offload => NoPdu(u) /\ NoLogoutTimer(u)
  BY <1>8, <1>11, ListFacts DEF Lists, NoPdu
<1>13. u.pool = Len(u.ready) + Timers(u.pend)
  <2>1. Len(s.ready) \in Nat
    BY ListFacts, SMTT(30)
  <2>2. s.pool = Len(s.ready) + Timers(s.pend) /\ Timers(s.pend) \in Nat
    BY ListFacts
  <2>3. QED
    BY <1>2, <1>7, <1>8, <2>1, <2>2, SMTT(30)
<1>14. Lists(u)
  BY <1>2, <1>7, <1>10, <1>12, <1>13 DEF Lists
<1>15. Good(u)
  BY <1>6, <1>8, <1>11, <1>14, Relisted
<1>16. c.ev = "POLL" => NoPoll(u) /\ c.q \in Qtask
  <2>1. c.ev = "POLL" => NoPoll(u)
    BY <1>4, <1>7, <1>8, <1>9 DEF OnePoll, NoPoll
  <2>2. QED
    BY <1>1, <2>1, ContextEvents
<1>17. u.pend = s.pend \ {c} /\ \A x \in Fields \ {"pend", "pool"} : u[x] = s[x]
  BY <1>6, <1>7 DEF Sets2, p
<1>18. QED
  BY <1>15, <1>16, <1>17 DEF u

------------------------------------------------------------------------------
(* What the handlers of a software session do to the requests.              *)

(* The calls by which iscsid takes a connection or a session back, or gives a new one its parameters. *)
Tear == {"stop_conn", "destroy_conn", "destroy_session", "set_params", "login_begin"}

(* A software session whose kernel does what iscsid tells it when it tears down. *)
Reliable == ~ Offload /\ s.setup.fail \cap Tear = {}

(* The kernel accepts every request to unbind the session. *)
Unbinds == "unbind" \notin s.setup.fail

(* The scan of a new session can always be started. *)
Forks == "fork" \notin s.setup.fail

(* The failures f of a handler are none of these. *)
Works(f) == ~ Offload /\ f \cap Tear = {} /\ (Unbinds => "unbind" \notin f) /\ (Forks => "fork" \notin f)

(* q is the task that waits for the login. *)
Awaits(t, q) ==
    /\ q \in Qtask
    /\ t.r_stage \in {"NO_CHANGE", "REDIRECT", "REOPEN"}
    /\ t.r_stage # "REOPEN" => t.notify = None /\ q \in Req
    /\ t.r_stage = "REOPEN" => q = IF t.notify # None THEN t.notify ELSE ReopenQ

(* The polls of a session carry the task that waits for the login. *)
PollsFor(t, q) ==
    /\ \A i \in DOMAIN t.ready : t.ready[i].ev = "POLL" => t.ready[i].q = q
    /\ \A c \in t.pend : c.ev = "POLL" => c.q = q

(* An event ev was read or waits in the socket. *)
Has(t, ev) ==
    \/ \E i \in DOMAIN t.ready : t.ready[i].ev = ev
    \/ \E i \in DOMAIN t.nl : t.nl[i].ev = ev

(* The socket holds nothing from a connection, *)
Hushed(t) == \A i \in DOMAIN t.nl : t.nl[i].ev \in SessionEvent

(* and neither does ready_list. *)
Cleared(t) == \A i \in DOMAIN t.ready : t.ready[i].ev \in SessionEvent

(* What the last connection left behind comes before the next one is polled. *)
Order(t) ==
    /\ \A i, j \in DOMAIN t.ready : t.ready[i].ev = "POLL" /\ i < j => t.ready[j].ev \in SessionEvent
    /\ (\E c \in t.pend : c.ev = "POLL") => Cleared(t)

(* The events of a connection on ready_list belong to the connection in use, *)
Unmarked(t) == \A i \in DOMAIN t.ready : t.ready[i].ev \notin SessionEvent => ~ t.ready[i].stale

(* and so does all that waits in the socket. *)
NlUnmarked(t) == \A i \in DOMAIN t.nl : ~ t.nl[i].stale

(* Something will end the unbinding. *)
StopComes(t) == t.unbinding \/ Has(t, "STOP") \/ \E c \in t.pend : c.ev = "LOGOUT_TIMER"

(* A logout that was accepted waits for something that will come. *)
Sup(t) == Unbinds /\ t.logout # None /\ ~ t.dropped => StopComes(t)

(* What holds in XPT_WAIT, *)
Waiting(t) ==
    /\ t.live /\ t.k = (IF t.id THEN "conn" ELSE "none") /\ t.logout = None
    /\ Awaits(t, t.login_timer) /\ PollsFor(t, t.login_timer) /\ Order(t) /\ Hushed(t)

(* in IN_LOGIN, *)
LoggingIn(t) ==
    /\ t.live /\ t.id /\ t.k = "bound" /\ t.logout = None
    /\ Awaits(t, t.login_timer) /\ t.login = t.login_timer /\ NoPoll(t) /\ Unmarked(t)

(* in LOGGED_IN and IN_LOGOUT, *)
Up(t) ==
    /\ t.live /\ t.id /\ t.k = "started" /\ t.login_timer = None /\ t.notify = None
    /\ NoPoll(t) /\ Unmarked(t)

(* in CLEANUP_WAIT, *)
Broken(t) ==
    /\ t.live /\ t.id /\ t.login_timer = None /\ t.notify = None /\ t.logout = None /\ NoPoll(t)

(* and in FREE. *)
Gone(t) ==
    /\ ~ t.live /\ t.login_timer = None /\ t.notify = None /\ t.logout = None
    /\ t.ready = <<>> /\ t.pend = {}

(* Faults that free a session without a look at who waits for it. *)
Forgets == Faults \cap {"host", "crash"} # {}

(* The requests in H, and no others, are open and held by the session. *)
ReqsFor(t, H) == \A r \in Req :
    /\ t.req[r] # "twice"
    /\ t.retry[r] > 0 => t.req[r] = "open" /\ r \notin H /\ t.kind[r] = "login"
    /\ r \in H => t.req[r] = "open"
    /\ ~ Forgets /\ t.req[r] = "open" => r \in H \/ t.retry[r] > 0

(* Only a login or a sync waits for a login, *)
LoginKind(t, q) == q \in Req => t.kind[q] \in {"login", "sync"}

(* only a logout for a logout. *)
LogoutKind(t, l) == l \in Req => t.kind[l] = "logout"

(* No unbinding goes on that nobody asked for. *)
Tracked(t) ==
    ~ Forgets => ~ Has(t, "INVALID_HOST") /\ (t.unbinding \/ Has(t, "STOP") => t.logout # None)

(* What the connection state says about the rest. *)
Phase(t) ==
    /\ t.state = "XPT_WAIT" => Waiting(t)
    /\ t.state = "IN_LOGIN" => LoggingIn(t)
    /\ t.state \in {"LOGGED_IN", "IN_LOGOUT"} => Up(t)
    /\ t.state = "CLEANUP_WAIT" => Broken(t)
    /\ t.state = "FREE" => Gone(t)

(* The inductive invariant of the reliable software session, without the logout's end, *)
Base(t) ==
    /\ t.k \in {"none", "conn", "bound", "started"}
    /\ NlUnmarked(t) /\ Tracked(t)
    /\ ReqsFor(t, {t.login_timer, t.logout})
    /\ LoginKind(t, t.login_timer) /\ LogoutKind(t, t.logout)
    /\ Phase(t)

(* and with it. *)
Inv(t) == Base(t) /\ Sup(t)

(* A request that is answered in the step from t to u is told the truth. *)
Truthful(t, u) == \A r \in Req : t.req[r] # "ok" /\ u.req[r] = "ok" =>
    IF u.kind[r] = "logout" THEN ~ u.live /\ u.k = "none" ELSE u.state = "LOGGED_IN" /\ u.k = "started"

(* A session freed in this step is gone from the kernel, and so is one whose login q fails. *)
Clean(t, u, q) ==
    /\ t.live /\ ~ u.live => u.k = "none"
    /\ Forks => (q \in Req /\ t.req[q] = "open" /\ u.req[q] = "err" => ~ u.live)

(* What a handler does to the requests. *)
Settled(t, u, q) == Inv(u) /\ Truthful(t, u) /\ Clean(t, u, q)

(* u differs from t in the fields X only. *)
Only(t, u, X) == \A x \in Fields \ X : u[x] = t[x]

(* The fields that a kernel call leaves alone. *)
Kept(t, u) ==
    /\ u.live = t.live /\ u.id = t.id /\ u.r_stage = t.r_stage /\ u.notify = t.notify
    /\ u.logout = t.logout /\ u.req = t.req /\ u.kind = t.kind /\ u.retry = t.retry
    /\ u.unbinding = t.unbinding

(* u knows of no event about the session that t does not know of. *)
NoNew(t, u) == \A ev \in SessionEvent : Has(u, ev) => Has(t, ev)

(* The assignments of the handlers. *)
LEMMA FieldSet ==
  ASSUME NEW t, Good(t), NEW v
  PROVE  /\ Sets(t, [t EXCEPT !.live = v], "live", v)
         /\ Sets(t, [t EXCEPT !.id = v], "id", v)
         /\ Sets(t, [t EXCEPT !.state = v], "state", v)
         /\ Sets(t, [t EXCEPT !.r_stage = v], "r_stage", v)
         /\ Sets(t, [t EXCEPT !.notify = v], "notify", v)
         /\ Sets(t, [t EXCEPT !.logout = v], "logout", v)
         /\ Sets(t, [t EXCEPT !.login = v], "login", v)
         /\ Sets(t, [t EXCEPT !.login_timer = v], "login_timer", v)
         /\ Sets(t, [t EXCEPT !.nop_timer = v], "nop_timer", v)
         /\ Sets(t, [t EXCEPT !.retry = v], "retry", v)
         /\ Sets(t, [t EXCEPT !.k = v], "k", v)
         /\ Sets(t, [t EXCEPT !.unbinding = v], "unbinding", v)
         /\ Sets(t, [t EXCEPT !.nl = v], "nl", v)
         /\ Sets(t, [t EXCEPT !.req = v], "req", v)
         /\ Sets(t, [t EXCEPT !.kind = v], "kind", v)
         /\ Sets(t, [t EXCEPT !.zombie = v], "zombie", v)
         /\ Sets(t, [t EXCEPT !.reopen_cnt = v], "reopen_cnt", v)
         /\ Sets(t, [t EXCEPT !.time2wait = v], "time2wait", v)
         /\ Sets(t, [t EXCEPT !.saddr = v], "saddr", v)
         /\ Sets(t, [t EXCEPT !.failback = v], "failback", v)
         /\ Sets(t, [t EXCEPT !.late = v], "late", v)
<1>1. Shaped(t)
  BY DEF Good, Typed
<1>2. ASSUME NEW x \in Fields PROVE Sets(t, [t EXCEPT ![x] = v], x, v)
  BY <1>1 DEF Shaped, Sets
<1>3. "live" \in Fields /\ "id" \in Fields /\ "state" \in Fields /\ "r_stage" \in Fields /\ "notify" \in Fields /\ "logout" \in Fields /\ "login" \in Fields
  BY DEF Fields
<1>4. "login_timer" \in Fields /\ "nop_timer" \in Fields /\ "retry" \in Fields /\ "k" \in Fields /\ "unbinding" \in Fields /\ "nl" \in Fields /\ "req" \in Fields
  BY DEF Fields
<1>5. "kind" \in Fields /\ "zombie" \in Fields /\ "reopen_cnt" \in Fields /\ "time2wait" \in Fields /\ "saddr" \in Fields /\ "failback" \in Fields /\ "late" \in Fields
  BY DEF Fields
<1>6. QED
  BY <1>2, <1>3, <1>4, <1>5

(* What the netlink socket held is on ready_list after a call. *)
Reads(t, u) ==
    /\ \A i \in DOMAIN t.ready : i \in DOMAIN u.ready /\ u.ready[i] = t.ready[i]
    /\ \A i \in DOMAIN u.ready : i \notin DOMAIN t.ready => \E j \in DOMAIN t.nl : u.ready[i] = t.nl[j]
    /\ t.live /\ t.id /\ ~ u.dropped =>
         ~ t.dropped /\ \A j \in DOMAIN t.nl : \E i \in DOMAIN u.ready : u.ready[i] = t.nl[j]

(* __kipc_call, field by field *)
LEMMA CallOut ==
  ASSUME NEW t, Good(t)
  PROVE  Only(t, KipcCall(t), SocketFields) /\ KipcCall(t).nl = <<>> /\ Reads(t, KipcCall(t))
<1> DEFINE u == KipcCall(t)
<1>1. Drained(t, u)
  BY CallDrains
<1> HIDE DEF u
<1>2. Only(t, u, SocketFields) /\ u.nl = <<>>
  BY <1>1 DEF Drained, Only
<1>3. t.nl \in Seq(Event) /\ t.ready \in Seq(Event \cup TimerContext)
  BY ListFacts
<1>4. DOMAIN t.nl = 1 .. Len(t.nl) /\ Len(t.nl) \in Nat
  BY <1>3, SMTT(30)
<1>5. Reads(t, u)
  <2>1. CASE ~ (t.live /\ t.id)
    BY <1>1, <2>1 DEF Drained, Reads
  <2>2. CASE t.live /\ t.id
    <3>1. PICK n \in 0 .. Len(t.nl) : /\ Extends(t.ready, t.nl, n, u.ready)
                                      /\ (n < Len(t.nl) => u.dropped) /\ (t.dropped => u.dropped)
      BY <1>1, <2>2 DEF Drained
    <3>2. ~ u.dropped => n = Len(t.nl)
      BY <1>4, <3>1, SMTT(30)
    <3>3. ~ u.dropped => \A j \in DOMAIN t.nl : \E i \in DOMAIN u.ready : u.ready[i] = t.nl[j]
      BY <1>4, <3>1, <3>2 DEF Extends
    <3>4. \A i \in DOMAIN u.ready : i \notin DOMAIN t.ready => \E j \in DOMAIN t.nl : u.ready[i] = t.nl[j]
      BY <3>1 DEF Extends
    <3>5. \A i \in DOMAIN t.ready : i \in DOMAIN u.ready /\ u.ready[i] = t.ready[i]
      BY <3>1 DEF Extends
    <3>6. QED
      BY <3>1, <3>3, <3>4, <3>5 DEF Reads
  <2>3. QED
    BY <2>1, <2>2
<1>6. QED
  BY <1>2, <1>5 DEF u

(* The same for what the invariants speak of. *)
LEMMA Call ==
  ASSUME NEW t, Good(t), NEW u, u = KipcCall(t)
  PROVE  /\ Good(u) /\ Kept(t, u) /\ u.state = t.state /\ u.login = t.login /\ u.login_timer = t.login_timer
         /\ u.pend = t.pend /\ u.k = t.k /\ u.nl = <<>>
         /\ NoNew(t, u) /\ Keeps(t, u) /\ Reads(t, u)
<1>1. Only(t, u, SocketFields) /\ u.nl = <<>> /\ Reads(t, u)
  BY CallOut
<1>2. Kept(t, u) /\ u.state = t.state /\ u.login = t.login /\ u.login_timer = t.login_timer
      /\ u.pend = t.pend /\ u.k = t.k
  BY <1>1 DEF Only, SocketFields, Fields, Kept
<1>3. NoNew(t, u)
  <2>1. \A i \in DOMAIN u.ready : (\E j \in DOMAIN t.ready : u.ready[i] = t.ready[j]) \/ \E j \in DOMAIN t.nl : u.ready[i] = t.nl[j]
    BY <1>1 DEF Reads
  <2>2. DOMAIN u.nl = {}
    BY <1>1, SMTT(30)
  <2>3. QED
    BY <2>1, <2>2 DEF NoNew, Has
<1>4. QED
  BY <1>1, <1>2, <1>3, Called

(***************************************************************************)
(* Freeing and reopening a session.                                        *)
(***************************************************************************)
(* q, and nobody else, is answered rsp. *)
Replied(t, u, q, rsp) == \A r \in Req :
    u.req[r] = IF r = q THEN (IF t.req[r] = "open" THEN rsp ELSE "twice") ELSE t.req[r]

(* mgmt_ipc_write_rsp, field by field *)
LEMMA AnswerOut ==
  ASSUME NEW t, Good(t), NEW q, NEW rsp \in {"ok", "err"}, NEW u, u = WriteRsp(t, q, rsp)
  PROVE  Good(u) /\ Only(t, u, {"req"}) /\ Replied(t, u, q, rsp)
<1>1. Good(u)
  BY Answers
<1>2. t.req \in [Req -> {"idle", "open", "ok", "err", "twice"}]
  BY TypedRecord DEF Good, FieldTypes
<1>3. CASE q \in Req
  <2> DEFINE v == [t.req EXCEPT ![q] = IF t.req[q] = "open" THEN rsp ELSE "twice"]
  <2>1. u = [t EXCEPT !.req = v]
    BY <1>3 DEF WriteRsp
  <2>2. \A r \in Req : v[r] = IF r = q THEN (IF t.req[r] = "open" THEN rsp ELSE "twice") ELSE t.req[r]
    BY <1>2
  <2> HIDE DEF v
  <2>3. u.req = v /\ Only(t, u, {"req"})
    <3>1. Sets(t, [t EXCEPT !.req = v], "req", v)
      BY FieldSet
    <3>2. Sets(t, u, "req", v)
      BY <2>1, <3>1
    <3>3. QED
      BY <3>2 DEF Sets, Only
  <2>4. QED
    BY <1>1, <2>2, <2>3 DEF Replied
<1>4. CASE q \notin Req
  <2>1. u = t
    BY <1>4 DEF WriteRsp
  <2>2. QED
    BY <1>1, <1>4, <2>1 DEF Replied, Only
<1>5. QED
  BY <1>3, <1>4

(* The session is gone from iscsid and kernel, and q is answered. *)
Freed(t, u, q, rsp) ==
    /\ Gone(u) /\ u.state = "FREE" /\ u.k = "none" /\ u.nl = <<>>
    /\ Replied(t, u, q, rsp) /\ u.kind = t.kind /\ u.retry = t.retry
    /\ u.unbinding => t.unbinding /\ ~ t.id

(* The end of session_conn_shutdown *)
LEMMA FreeOut ==
  ASSUME NEW t, Good(t), t.k = "none", NEW q, NEW rsp \in {"ok", "err"}, t.unbinding => ~ t.id
  PROVE  Freed(t, FreeSession(t, q, rsp), q, rsp)
<1> DEFINE a == WriteRsp(t, q, rsp)
           b == ConnDeleteTimers(a)
           c == Fresh(b)
           z == c.zombie \/ b.login_timer # None \/ b.nop_timer # "off"
           u == FreeSession(t, q, rsp)
<1>5. u = [c EXCEPT !.zombie = z]
  BY DEF FreeSession, SessionDestroy
<1> HIDE DEF z
<1>1. Good(a) /\ Only(t, a, {"req"}) /\ Replied(t, a, q, rsp)
  BY AnswerOut
<1> HIDE DEF a
<1>2. Good(b)
  BY <1>1, TimersDeletedGood
<1>3. \A x \in Fields \ {"login_timer", "nop_timer"} : b[x] = a[x]
  <2>1. Shaped(a)
    BY <1>1 DEF Good, Typed
  <2>2. QED
    BY <2>1 DEF ConnDeleteTimers, Shaped
<1>4. b.req = a.req /\ b.kind = t.kind /\ b.retry = t.retry /\ b.k = t.k /\ b.unbinding = t.unbinding
  BY <1>1, <1>3 DEF Only, Fields
<1> HIDE DEF b, u
<1>6. Shaped(b)
  BY <1>2 DEF Good, Typed
<1>7. Good(c)
  BY <1>2, FreshGood
<1>8. /\ c.live = FALSE /\ c.state = "FREE" /\ c.login_timer = None /\ c.notify = None /\ c.logout = None
      /\ c.ready = <<>> /\ c.pend = {} /\ c.nl = <<>>
  BY <1>6, FreshValues
<1>9. c.req = b.req /\ c.kind = b.kind /\ c.retry = b.retry /\ c.k = b.k /\ c.unbinding = b.unbinding
  BY <1>6, FreshKeeps
<1> HIDE DEF c
<1>10. Only(c, u, {"zombie"})
  <2>1. Sets(c, u, "zombie", z)
    BY <1>5, <1>7, FieldSet
  <2>2. QED
    BY <2>1 DEF Sets, Only
<1>11. Gone(u) /\ u.state = "FREE" /\ u.nl = <<>>
  BY <1>8, <1>10 DEF Only, Fields, Gone
<1>12. u.k = "none" /\ u.req = a.req /\ u.kind = t.kind /\ u.retry = t.retry /\ u.unbinding = t.unbinding
  BY <1>4, <1>9, <1>10 DEF Only, Fields
<1>13. QED
  BY <1>1, <1>11, <1>12 DEF Freed, Replied, u

(* The requests are as they were. *)
Recs(t, u) == u.req = t.req /\ u.kind = t.kind /\ u.retry = t.retry

(* stop_conn and destroy_conn answer nobody. *)
LEMMA CallsKeep ==
  ASSUME NEW t, Good(t), NEW f
  PROVE  /\ Good(KStopConn(t, f)) /\ Recs(t, KStopConn(t, f))
         /\ Good(KDestroyConn(t, f)) /\ Recs(t, KDestroyConn(t, f))
<1> DEFINE u == KipcCall(t)
<1>1. Good(u) /\ Recs(t, u)
  BY Call DEF Kept, Recs
<1> HIDE DEF u
<1>2. \A v : Recs(t, [u EXCEPT !.k = v])
  <2>1. \A v : Sets(u, [u EXCEPT !.k = v], "k", v)
    BY <1>1, FieldSet
  <2>2. QED
    BY <1>1, <2>1 DEF Sets, Fields, Recs
<1>3. KStopConn(t, f) = u \/ KStopConn(t, f) = [u EXCEPT !.k = "conn"]
  BY DEF KStopConn, u
<1>4. KDestroyConn(t, f) = u \/ KDestroyConn(t, f) = [u EXCEPT !.k = "session"]
  BY DEF KDestroyConn, u
<1>5. QED
  BY <1>1, <1>2, <1>3, <1>4, KernelCallsGood

(* destroy_session, when it succeeds *)
LEMMA DestroyOut ==
  ASSUME NEW t, Good(t), NEW f, "destroy_session" \notin f, NEW u, u = KDestroySession(t, f)
  PROVE  Good(u) /\ Recs(t, u) /\ u.k = "none" /\ u.unbinding = FALSE
<1> DEFINE a == KipcCall(t)
<1>1. Good(a) /\ Recs(t, a)
  BY Call DEF Kept, Recs
<1>2. u = [a EXCEPT !.k = "none", !.unbinding = FALSE]
  BY DEF KDestroySession
<1> HIDE DEF a
<1>3. Shaped(a)
  BY <1>1 DEF Good, Typed
<1>4. u.k = "none" /\ u.unbinding = FALSE /\ \A x \in Fields \ {"k", "unbinding"} : u[x] = a[x]
  BY <1>2, <1>3 DEF Shaped, Fields
<1>5. Recs(t, u)
  BY <1>1, <1>4 DEF Recs, Fields
<1>6. QED
  BY <1>4, <1>5, KernelCallsGood

(* session_conn_shutdown of a software session, when the kernel does what it is told: the *)
(* session is gone and the request is answered.                                            *)
LEMMA ShutdownOut ==
  ASSUME NEW t, Good(t), NEW f, Works(f), ~ t.id => t.k = "none", NEW q, NEW rsp \in {"ok", "err"}
  PROVE  Freed(t, SessionConnShutdown(t, q, rsp, f), q, rsp)
<1>1. EndpointCall(t) = t
  BY DEF EndpointCall, Works
<1>2. "stop_conn" \notin f /\ "destroy_conn" \notin f /\ "destroy_session" \notin f
  BY DEF Works, Tear
<1>3. CASE ~ t.id
  <2>1. SessionConnShutdown(t, q, rsp, f) = FreeSession(t, q, rsp)
    BY <1>1, <1>3 DEF SessionConnShutdown
  <2>2. QED
    BY <1>3, <2>1, FreeOut
<1>4. CASE t.id
  <2> DEFINE stops == t.state \in {"IN_LOGIN", "IN_LOGOUT", "LOGGED_IN"}
             b == IF stops THEN KStopConn(t, f) ELSE t
             c == KDestroyConn(b, f)
             e == IF t.k \notin {"none", "session"} THEN c ELSE t
             x == [e EXCEPT !.r_stage = "DESTOYED"]
             d == KDestroySession(x, f)
  <2>1. SessionConnShutdown(t, q, rsp, f) = FreeSession(d, q, rsp)
    BY <1>1, <1>2, <1>4 DEF SessionConnShutdown
  <2>2. Good(b) /\ Recs(t, b)
    BY CallsKeep DEF Recs
  <2> HIDE DEF b
  <2>3. Good(c) /\ Recs(t, c)
    BY <2>2, CallsKeep DEF Recs
  <2> HIDE DEF c
  <2>4. Good(e) /\ Recs(t, e)
    BY <2>3 DEF Recs
  <2> HIDE DEF e
  <2>5. Good(x)
    BY <2>4, SetStage DEF RStage
  <2>6. Recs(t, x)
    <3>1. Sets(e, x, "r_stage", "DESTOYED")
      BY <2>4, FieldSet
    <3> HIDE DEF x
    <3>2. QED
      BY <2>4, <3>1 DEF Sets, Fields, Recs
  <2> HIDE DEF x
  <2>7. Good(d) /\ Recs(t, d) /\ d.k = "none" /\ d.unbinding = FALSE
    <3>1. Good(d) /\ Recs(x, d) /\ d.k = "none" /\ d.unbinding = FALSE
      BY <1>2, <2>5, DestroyOut
    <3>2. QED
      BY <2>6, <3>1 DEF Recs
  <2> HIDE DEF d
  <2>8. Freed(d, FreeSession(d, q, rsp), q, rsp)
    BY <2>7, FreeOut
  <2>9. QED
    BY <2>1, <2>7, <2>8 DEF Freed, Recs, Replied
<1>5. QED
  BY <1>3, <1>4

(* u differs from t only in fields that the invariants do not speak of. *)
Alike(t, u) ==
    /\ Kept(t, u) /\ u.state = t.state /\ u.login = t.login /\ u.login_timer = t.login_timer
    /\ u.ready = t.ready /\ u.pend = t.pend /\ u.k = t.k /\ u.nl = t.nl /\ u.dropped = t.dropped

(* Such fields are the addresses, the counters and the ping timer. *)
LEMMA PlainFieldSet ==
  ASSUME NEW t, Good(t), NEW v
  PROVE  /\ Alike(t, [t EXCEPT !.reopen_cnt = v]) /\ Alike(t, [t EXCEPT !.time2wait = v])
         /\ Alike(t, [t EXCEPT !.saddr = v]) /\ Alike(t, [t EXCEPT !.failback = v])
         /\ Alike(t, [t EXCEPT !.nop_timer = v]) /\ Alike(t, [t EXCEPT !.late = v])
<1>1. ASSUME NEW x \in {"reopen_cnt", "time2wait", "saddr", "failback", "nop_timer", "late"}, NEW u, Sets(t, u, x, v)
      PROVE  Alike(t, u)
  BY <1>1, SMTT(30) DEF Sets, Fields, Alike, Kept
<1>2. QED
  BY <1>1, FieldSet

(* A session that is being reopened, before it is connected. *)
Idle(t, u, stop) ==
    /\ Kept(t, u) /\ u.state = "XPT_WAIT" /\ u.pend = {} /\ NoPoll(u) /\ NoNew(t, u)
    /\ u.k = IF stop THEN "conn" ELSE t.k
    /\ u.nl = IF stop THEN <<>> ELSE t.nl

(* They do not matter to Idle. *)
LEMMA IdleAlike == ASSUME NEW t, NEW u, NEW w, NEW stop, Idle(t, u, stop), Alike(u, w) PROVE Idle(t, w, stop)
<1>1. Kept(t, w) /\ w.state = u.state /\ w.pend = u.pend /\ w.k = u.k /\ w.nl = u.nl /\ w.ready = u.ready
  BY DEF Idle, Alike, Kept
<1>2. NoPoll(w) /\ NoNew(t, w)
  BY <1>1 DEF Idle, NoPoll, NoNew, Has
<1>3. QED
  BY <1>1, <1>2 DEF Idle

(* iscsi_flush_context_pool, field by field *)
LEMMA FlushOut ==
  ASSUME NEW t, Good(t), NEW u, u = FlushContextPool(t)
  PROVE  /\ Good(u) /\ Kept(t, u) /\ u.state = t.state /\ u.k = t.k /\ u.nl = t.nl /\ u.login = t.login
         /\ u.login_timer = t.login_timer /\ u.ready = <<>> /\ u.pend = {} /\ u.dropped = t.dropped
<1>1. Good(u) /\ \A x \in Fields \ {"pool", "ready", "pend"} : u[x] = t[x]
  BY Flushed
<1>2. Shaped(t)
  BY DEF Good, Typed
<1>3. u.ready = <<>> /\ u.pend = {}
  BY <1>2 DEF FlushContextPool, Shaped, Fields
<1>4. QED
  BY <1>1, <1>3 DEF Fields, Kept

(* How __session_conn_reopen begins *)
LEMMA Emptied ==
  ASSUME NEW t, Good(t), NEW u, u = [ConnDeleteTimers(FlushContextPool(t)) EXCEPT !.state = "XPT_WAIT"]
  PROVE  Good(u) /\ Idle(t, u, FALSE) /\ u.ready = <<>> /\ u.login_timer = None
<1> DEFINE a == FlushContextPool(t)
           b == ConnDeleteTimers(a)
<1>1. Good(a) /\ Kept(t, a) /\ a.k = t.k /\ a.nl = t.nl /\ a.ready = <<>> /\ a.pend = {}
  BY FlushOut
<1>2. NoLogoutTimer(a)
  BY Flushed
<1> HIDE DEF a
<1>3. Good(b) /\ NoLogoutTimer(b)
  BY <1>1, <1>2, TimersDeletedGood DEF Keeps
<1>4. b.login_timer = None /\ \A x \in Fields \ {"login_timer", "nop_timer"} : b[x] = a[x]
  <2>1. Shaped(a)
    BY <1>1 DEF Good, Typed
  <2>2. QED
    BY <2>1 DEF ConnDeleteTimers, Shaped, Fields
<1>5. u = [b EXCEPT !.state = "XPT_WAIT"]
  BY DEF a
<1> HIDE DEF b
<1>6. Good(u)
  BY <1>3, <1>5, SetState DEF ConnState
<1>7. Sets(b, [b EXCEPT !.state = "XPT_WAIT"], "state", "XPT_WAIT")
  BY <1>3, FieldSet
<1>8. Sets(b, u, "state", "XPT_WAIT")
  BY <1>5, <1>7
<1>9. /\ Kept(t, u) /\ u.state = "XPT_WAIT" /\ u.k = t.k /\ u.nl = t.nl /\ u.ready = <<>> /\ u.pend = {}
      /\ u.login_timer = None
  <2>1. Kept(a, b) /\ b.k = a.k /\ b.nl = a.nl /\ b.ready = a.ready /\ b.pend = a.pend
    BY <1>4 DEF Fields, Kept
  <2>2. Kept(b, u) /\ u.k = b.k /\ u.nl = b.nl /\ u.ready = b.ready /\ u.pend = b.pend /\ u.login_timer = b.login_timer
    BY <1>8 DEF Sets, Fields, Kept
  <2>3. u.state = "XPT_WAIT"
    BY <1>8 DEF Sets
  <2>4. QED
    BY <1>1, <1>4, <2>1, <2>2, <2>3 DEF Kept
<1>10. NoPoll(u) /\ NoNew(t, u)
  BY <1>9, SMTT(30) DEF NoPoll, NoNew, Has
<1>11. QED
  BY <1>6, <1>9, <1>10 DEF Idle

(* stop_conn, when it succeeds *)
LEMMA StopOut ==
  ASSUME NEW t, NEW a, Good(a), Idle(t, a, FALSE), NEW f, ~ CallFails("stop_conn", a, f), NEW u, u = KStopConn(a, f)
  PROVE  Good(u) /\ Idle(t, u, TRUE)
<1> DEFINE b == KipcCall(a)
<1>1. Good(b) /\ Kept(a, b) /\ b.state = a.state /\ b.pend = a.pend /\ b.nl = <<>> /\ NoNew(a, b) /\ Keeps(a, b)
  BY Call
<1>2. u = [b EXCEPT !.k = "conn"]
  BY DEF KStopConn
<1> HIDE DEF b
<1>3. Good(u)
  BY KernelCallsGood
<1>4. Sets(b, [b EXCEPT !.k = "conn"], "k", "conn")
  BY <1>1, FieldSet
<1>5. Sets(b, u, "k", "conn")
  BY <1>2, <1>4
<1>6. Kept(b, u) /\ u.k = "conn" /\ u.state = b.state /\ u.pend = b.pend /\ u.nl = b.nl /\ u.ready = b.ready
  BY <1>5 DEF Sets, Fields, Kept
<1>7. NoPoll(u)
  BY <1>1, <1>6 DEF Idle, Keeps, NoPoll
<1>8. NoNew(t, u)
  <2>1. NoNew(b, u)
    BY <1>6 DEF NoNew, Has
  <2>2. QED
    BY <1>1, <2>1 DEF Idle, NoNew
<1>9. Kept(t, u) /\ u.state = "XPT_WAIT" /\ u.pend = {} /\ u.nl = <<>>
  BY <1>1, <1>6 DEF Idle, Kept
<1>10. QED
  BY <1>3, <1>6, <1>7, <1>8, <1>9 DEF Idle

(* The poll for q is the last context of ready_list. *)
PollLast(u, q) == \A i, j \in DOMAIN u.ready : u.ready[i].ev = "POLL" => u.ready[i].q = q /\ ~ (i < j)

(* t is being reopened for q. *)
Reopened(t, u, q, stop) ==
    /\ Kept(t, u) /\ u.state = "XPT_WAIT" /\ u.pend = {} /\ PollLast(u, q) /\ NoNew(t, u)
    /\ u.k = IF stop THEN "conn" ELSE t.k
    /\ u.nl = IF stop THEN <<>> ELSE t.nl
    /\ u.login_timer = q

(* A reopen that waits for the login timer *)
LEMMA DelayedOut ==
  ASSUME NEW t, NEW a, Good(a), NEW stop, Idle(t, a, stop), NEW q, NEW u, u = QueueDelayedReopen(a, q)
  PROVE  Reopened(t, u, q, stop)
<1>1. Sets(a, [a EXCEPT !.login_timer = q], "login_timer", q)
  BY FieldSet
<1>2. Sets(a, u, "login_timer", q)
  BY <1>1 DEF QueueDelayedReopen
<1>3. /\ Kept(a, u) /\ u.login_timer = q /\ u.state = a.state /\ u.pend = a.pend /\ u.nl = a.nl /\ u.ready = a.ready
      /\ u.k = a.k
  BY <1>2 DEF Sets, Fields, Kept
<1>4. PollLast(u, q)
  BY <1>3 DEF Idle, NoPoll, PollLast
<1>5. NoNew(t, u)
  BY <1>3 DEF Idle, NoNew, Has
<1>6. Kept(t, u)
  BY <1>3 DEF Idle, Kept
<1>7. QED
  BY <1>3, <1>4, <1>5, <1>6 DEF Idle, Reopened

(* A context is put on ready_list. *)
LEMMA ScheduleOut ==
  ASSUME NEW t, Good(t), NEW ev, NEW q, NEW u, u = Schedule(t, ev, q)
  PROVE  /\ \A x \in Fields \ {"pool", "ready"} : u[x] = t[x]
         /\ u.ready = Append(t.ready, [ev |-> ev, q |-> q, stale |-> FALSE])
<1>1. Shaped(t)
  BY DEF Good, Typed
<1>2. QED
  BY <1>1 DEF Schedule, Shaped, Fields

(* A list with one more element *)
LEMMA Appended ==
  ASSUME NEW S, NEW b \in Seq(S), NEW e, NEW c, c = Append(b, e)
  PROVE  /\ DOMAIN c = 1 .. Len(b) + 1 /\ DOMAIN b = 1 .. Len(b) /\ Len(b) \in Nat
         /\ \A i \in DOMAIN c : (i \in DOMAIN b /\ c[i] = b[i]) \/ (i = Len(b) + 1 /\ c[i] = e)
BY SMTT(30)

(* iscsi_conn_connect *)
LEMMA ConnectOut ==
  ASSUME NEW t, NEW a, Good(a), NEW stop, Idle(t, a, stop), NEW q \in Qtask, NEW f, Works(f)
  PROVE  Reopened(t, ConnConnect(a, q, f), q, stop)
<1>1. EndpointCall(a) = a
  BY DEF EndpointCall, Works
<1>2. CASE ~ HasContext(a) \/ "ep_connect" \in f
  <2>1. ConnConnect(a, q, f) = QueueDelayedReopen(a, q)
    BY <1>1, <1>2 DEF ConnConnect
  <2>2. QED
    BY <2>1, DelayedOut
<1>3. CASE HasContext(a) /\ "ep_connect" \notin f
  <2> DEFINE w == Schedule(a, "POLL", q)
             u == [w EXCEPT !.login_timer = q]
             e == [ev |-> "POLL", q |-> q, stale |-> FALSE]
  <2>1. ConnConnect(a, q, f) = u
    BY <1>1, <1>3 DEF ConnConnect
  <2>2. Good(w)
    BY <1>3, Scheduled DEF Idle
  <2>w. w = Schedule(a, "POLL", q)
    OBVIOUS
  <2> HIDE DEF w
  <2>3. (\A x \in Fields \ {"pool", "ready"} : w[x] = a[x]) /\ w.ready = Append(a.ready, e)
    BY <2>w, ScheduleOut, SMTT(30)
  <2>4. e.ev = "POLL" /\ e.q = q
    OBVIOUS
  <2> HIDE DEF e
  <2>5. Sets(w, u, "login_timer", q)
    BY <2>2, FieldSet
  <2> HIDE DEF u
  <2>6. Kept(a, u) /\ u.state = a.state /\ u.pend = a.pend /\ u.nl = a.nl /\ u.k = a.k
    BY <2>3, <2>5 DEF Sets, Fields, Kept
  <2>7. u.login_timer = q /\ u.ready = w.ready
    BY <2>5 DEF Sets, Fields
  <2>8. a.ready \in Seq(Event \cup TimerContext)
    BY ListFacts
  <2>9. /\ DOMAIN u.ready = 1 .. Len(a.ready) + 1 /\ DOMAIN a.ready = 1 .. Len(a.ready) /\ Len(a.ready) \in Nat
        /\ \A i \in DOMAIN u.ready : (i \in DOMAIN a.ready /\ u.ready[i] = a.ready[i]) \/ (i = Len(a.ready) + 1 /\ u.ready[i] = e)
    <3>1. u.ready = Append(a.ready, e)
      BY <2>3, <2>7
    <3>2. QED
      BY <2>8, <3>1, Appended, SMTT(30)
  <2>10. \A i \in DOMAIN u.ready : u.ready[i].ev = "POLL" => i = Len(a.ready) + 1 /\ u.ready[i] = e
    BY <2>9 DEF Idle, NoPoll
  <2>11. \A i \in DOMAIN u.ready : ~ (Len(a.ready) + 1 < i)
    BY <2>9, SMTT(30)
  <2>12. PollLast(u, q)
    BY <2>4, <2>10, <2>11 DEF PollLast
  <2>13. NoNew(t, u)
    <3>1. "POLL" \notin SessionEvent
      BY DEF SessionEvent
    <3>2. NoNew(a, u)
      BY <2>4, <2>6, <2>9, <3>1 DEF NoNew, Has
    <3>3. QED
      BY <3>2 DEF Idle, NoNew
  <2>14. Kept(t, u)
    BY <2>6 DEF Idle, Kept
  <2>15. Reopened(t, u, q, stop)
    BY <2>6, <2>7, <2>12, <2>13, <2>14 DEF Idle, Reopened
  <2>16. QED
    BY <2>1, <2>15
<1>4. QED
  BY <1>2, <1>3

(* __session_conn_reopen of a software session, when stop_conn does what it is told. *)
LEMMA ReopenOut ==
  ASSUME NEW t, Good(t), NEW q \in Qtask, NEW stop \in BOOLEAN, NEW redirected \in BOOLEAN, NEW f, Works(f),
         stop => t.k \notin {"none", "session"}
  PROVE  Reopened(t, ReopenConn(t, q, stop, redirected, f), q, stop)
<1> DEFINE e == [ConnDeleteTimers(FlushContextPool(t)) EXCEPT !.state = "XPT_WAIT"]
           a == EndpointCall(e)
           b == IF stop THEN KStopConn(a, f) ELSE a
           c == IF redirected \/ b.reopen_cnt = MaxCnt THEN b ELSE [b EXCEPT !.reopen_cnt = b.reopen_cnt + 1]
           d == [b EXCEPT !.time2wait = FALSE]
           u == ReopenConn(t, q, stop, redirected, f)
<1>1. Good(e) /\ Idle(t, e, FALSE)
  BY Emptied
<1> HIDE DEF e
<1>2. Good(a) /\ Idle(t, a, FALSE)
  BY <1>1 DEF EndpointCall, Works
<1>3. ~ (stop /\ CallFails("stop_conn", a, f))
  <2> HIDE DEF a
  <2>1. QED
    BY <1>2 DEF Idle, CallFails, Works, Tear
<1>4. u \in {QueueDelayedReopen(d, q), QueueDelayedReopen(c, q), ConnConnect(c, q, f)}
  BY <1>3 DEF ReopenConn, e
<1> HIDE DEF a, u
<1>5. Good(b) /\ Idle(t, b, stop)
  BY <1>2, <1>3, StopOut
<1> HIDE DEF b
<1>6. Good(d) /\ Alike(b, d)
  BY <1>5, SetStage, PlainFieldSet
<1>7. Good(c) /\ (c = b \/ Alike(b, c))
  <2>1. CASE redirected \/ b.reopen_cnt = MaxCnt
    BY <1>5, <2>1
  <2>2. CASE ~ (redirected \/ b.reopen_cnt = MaxCnt)
    <3>1. b.reopen_cnt \in 0 .. MaxCnt
      BY <1>5, TypedRecord DEF Good, FieldTypes
    <3>2. b.reopen_cnt + 1 \in 0 .. MaxCnt
      BY <2>2, <3>1, BoundAssumption, SMTT(30)
    <3>3. QED
      BY <1>5, <2>2, <3>2, SetStage, PlainFieldSet
  <2>3. QED
    BY <2>1, <2>2
<1> HIDE DEF c, d
<1>8. Idle(t, d, stop) /\ Idle(t, c, stop)
  BY <1>5, <1>6, <1>7, IdleAlike
<1>9. QED
  BY <1>4, <1>6, <1>7, <1>8, DelayedOut, ConnectOut DEF u

(* session_conn_reopen *)
LEMMA FailbackReopenOut ==
  ASSUME NEW t, Good(t), NEW q \in Qtask, NEW stop \in BOOLEAN, NEW f, Works(f),
         stop => t.k \notin {"none", "session"}
  PROVE  Reopened(t, SessionConnReopen(t, q, stop, f), q, stop)
<1> DEFINE a == [t EXCEPT !.saddr = t.failback]
           u == SessionConnReopen(t, q, stop, f)
<1>1. t.failback \in Address
  BY TypedRecord DEF Good, FieldTypes
<1>2. Good(a) /\ Alike(t, a)
  BY <1>1, SetAddress, PlainFieldSet
<1>3. u = ReopenConn(a, q, stop, FALSE, f)
  BY DEF SessionConnReopen
<1> HIDE DEF a, u
<1>4. stop => a.k \notin {"none", "session"}
  BY <1>2 DEF Alike
<1>5. Reopened(a, u, q, stop)
  BY <1>2, <1>3, <1>4, ReopenOut
<1>6. Kept(t, u)
  BY <1>2, <1>5 DEF Reopened, Alike, Kept
<1>7. NoNew(t, u)
  BY <1>2, <1>5 DEF Reopened, Alike, NoNew, Has
<1>8. QED
  BY <1>2, <1>5, <1>6, <1>7 DEF Reopened, Alike, u

(* The answers when a session is freed or reopened. *)
Mid(t, q) ==
    /\ t.live /\ t.logout = None /\ Awaits(t, q) /\ ReqsFor(t, {q}) /\ LoginKind(t, q)
    /\ NlUnmarked(t) /\ Tracked(t)

(* A session is freed. *)
LEMMA FreedSettles ==
  ASSUME NEW t, NEW u, NEW q, NEW rsp \in {"ok", "err"}, Freed(t, u, q, rsp), ReqsFor(t, {q}),
         rsp = "ok" => LogoutKind(t, q), Forgets \/ t.id \/ ~ t.unbinding, NEW p
  PROVE  Settled(t, u, p)
<1>1. Gone(u) /\ u.state = "FREE" /\ u.k = "none" /\ u.nl = <<>> /\ u.kind = t.kind /\ u.retry = t.retry
  BY DEF Freed
<1>2. \A r \in Req : u.req[r] = IF r = q THEN (IF t.req[r] = "open" THEN rsp ELSE "twice") ELSE t.req[r]
  BY DEF Freed, Replied
<1>3. \A r \in Req : r \notin {u.login_timer, u.logout}
  BY <1>1, ReqAssumption DEF Gone
<1>4. ReqsFor(u, {u.login_timer, u.logout})
  BY <1>1, <1>2, <1>3 DEF ReqsFor
<1>5. \A ev : ~ Has(u, ev)
  BY <1>1, SMTT(30) DEF Gone, Has
<1>6. Tracked(u)
  BY <1>5 DEF Tracked, Freed
<1>7. NlUnmarked(u)
  BY <1>1, SMTT(30) DEF NlUnmarked
<1>8. Phase(u)
  BY <1>1 DEF Phase
<1>9. LoginKind(u, u.login_timer) /\ LogoutKind(u, u.logout) /\ Sup(u)
  BY <1>1, <1>3 DEF LoginKind, LogoutKind, Gone, Sup
<1>10. Inv(u)
  BY <1>1, <1>4, <1>6, <1>7, <1>8, <1>9 DEF Inv, Base
<1>11. Truthful(t, u)
  BY <1>1, <1>2 DEF Truthful, LogoutKind, ReqsFor, Gone
<1>12. Clean(t, u, p)
  BY <1>1 DEF Clean, Gone
<1>13. QED
  BY <1>10, <1>11, <1>12 DEF Settled

(* A session is reopened. *)
LEMMA ReopenedSettles ==
  ASSUME NEW t, NEW u, NEW q, NEW stop, Reopened(t, u, q, stop), Mid(t, q),
         IF stop THEN t.id ELSE t.k = (IF t.id THEN "conn" ELSE "none") /\ Hushed(t)
  PROVE  Settled(t, u, q)
<1>1. Kept(t, u) /\ u.state = "XPT_WAIT" /\ u.pend = {} /\ PollLast(u, q) /\ NoNew(t, u) /\ u.login_timer = q
  BY DEF Reopened
<1>2. u.k = (IF u.id THEN "conn" ELSE "none")
  BY <1>1 DEF Reopened, Kept
<1>3. Hushed(u) /\ NlUnmarked(u)
  <2>1. CASE stop
    <3>1. u.nl = <<>>
      BY <2>1 DEF Reopened
    <3>2. QED
      BY <3>1, SMTT(30) DEF Hushed, NlUnmarked
  <2>2. CASE ~ stop
    BY <2>2 DEF Reopened, Hushed, NlUnmarked, Mid
  <2>3. QED
    BY <2>1, <2>2
<1>4. Awaits(u, q) /\ u.live /\ u.logout = None
  BY <1>1 DEF Mid, Awaits, Kept
<1>5. PollsFor(u, q)
  BY <1>1 DEF PollsFor, PollLast
<1>6. Order(u)
  BY <1>1 DEF PollLast, Order
<1>7. Waiting(u)
  BY <1>1, <1>2, <1>3, <1>4, <1>5, <1>6 DEF Waiting
<1>8. ReqsFor(u, {u.login_timer, u.logout})
  <2>1. u.req = t.req /\ u.kind = t.kind /\ u.retry = t.retry /\ ReqsFor(t, {q})
    BY <1>1 DEF Kept, Mid
  <2>2. \A r \in Req : r \in {u.login_timer, u.logout} <=> r \in {q}
    BY <1>1, <1>4, ReqAssumption
  <2>3. QED
    BY <2>1, <2>2 DEF ReqsFor
<1>9. LoginKind(u, u.login_timer) /\ LogoutKind(u, u.logout) /\ Sup(u)
  BY <1>1, <1>4, ReqAssumption DEF LoginKind, LogoutKind, Sup, Kept, Mid
<1>10. Tracked(u)
  BY <1>1 DEF Tracked, NoNew, Kept, Mid, SessionEvent
<1>11. Inv(u)
  BY <1>1, <1>2, <1>3, <1>7, <1>8, <1>9, <1>10 DEF Inv, Base, Phase
<1>12. Truthful(t, u) /\ Clean(t, u, q)
  BY <1>1, <1>4 DEF Truthful, Clean, Kept
<1>13. QED
  BY <1>11, <1>12 DEF Settled

(* A handler may answer nobody at all. *)
LEMMA Unanswered ==
  ASSUME NEW t, NEW u, NEW q, u.req = t.req, u.live = t.live, Inv(u) PROVE Settled(t, u, q)
BY DEF Settled, Truthful, Clean

(* The invariant in the states of a login, *)
LEMMA LoginUnderWay ==
  ASSUME NEW t, Base(t), t.state \in {"XPT_WAIT", "IN_LOGIN"}
  PROVE  /\ Mid(t, t.login_timer)
         /\ t.state = "XPT_WAIT" => t.k = (IF t.id THEN "conn" ELSE "none") /\ Hushed(t)
         /\ t.state = "IN_LOGIN" => t.id /\ t.k = "bound" /\ t.login = t.login_timer
<1>1. t.state = "XPT_WAIT" => Waiting(t)
  BY DEF Base, Phase
<1>2. t.state = "IN_LOGIN" => LoggingIn(t)
  BY DEF Base, Phase
<1>3. t.live /\ t.logout = None /\ Awaits(t, t.login_timer)
  BY <1>1, <1>2 DEF Waiting, LoggingIn
<1>4. ReqsFor(t, {t.login_timer})
  <2>1. \A r \in Req : r \in {t.login_timer, t.logout} <=> r \in {t.login_timer}
    BY <1>3, ReqAssumption
  <2>2. QED
    BY <2>1 DEF Base, ReqsFor
<1>5. Mid(t, t.login_timer)
  BY <1>3, <1>4 DEF Base, Mid
<1>6. QED
  BY <1>1, <1>2, <1>5 DEF Waiting, LoggingIn

(* and of an established connection. *)
LEMMA UpFacts ==
  ASSUME NEW t, Base(t), t.state \in {"LOGGED_IN", "IN_LOGOUT"}
  PROVE  /\ t.live /\ t.id /\ t.k = "started" /\ t.login_timer = None /\ t.notify = None
         /\ NoPoll(t) /\ Unmarked(t) /\ ReqsFor(t, {t.logout})
<1>1. Up(t)
  BY DEF Base, Phase
<1>2. \A r \in Req : r \in {t.login_timer, t.logout} <=> r \in {t.logout}
  BY <1>1, ReqAssumption DEF Up
<1>3. ReqsFor(t, {t.logout})
  BY <1>2 DEF Base, ReqsFor
<1>4. QED
  BY <1>1, <1>3 DEF Up

(* The session of a logout is dropped. *)
LEMMA LogoutSettles ==
  ASSUME NEW t, Good(t), Base(t), NEW f, Works(f), NEW u, u = SessionConnShutdown(t, t.logout, "ok", f), NEW q,
         t.state \in {"LOGGED_IN", "IN_LOGOUT"}
  PROVE  Settled(t, u, q)
<1>1. t.id /\ ReqsFor(t, {t.logout}) /\ LogoutKind(t, t.logout)
  BY UpFacts DEF Base
<1>2. Freed(t, u, t.logout, "ok")
  BY <1>1, ShutdownOut
<1>3. QED
  BY <1>1, <1>2, FreedSettles

(* Only an established connection is logged out. *)
LEMMA NobodyLogsOut ==
  ASSUME NEW t, Base(t), t.state \notin {"LOGGED_IN", "IN_LOGOUT"}, t.state \in ConnState
  PROVE  t.logout = None /\ Inv(t)
<1>1. t.logout = None
  BY DEF Base, Phase, Waiting, LoggingIn, Broken, Gone, ConnState
<1>2. QED
  BY <1>1 DEF Inv, Sup

(* Reading the socket mixes no connections. *)
LEMMA ReadKeeps ==
  ASSUME NEW t, NEW u, Reads(t, u)
  PROVE  /\ Unmarked(t) /\ NlUnmarked(t) => Unmarked(u)
         /\ Cleared(t) /\ Hushed(t) => Cleared(u)
<1>1. \A i \in DOMAIN u.ready : (\E j \in DOMAIN t.ready : u.ready[i] = t.ready[j]) \/ \E j \in DOMAIN t.nl : u.ready[i] = t.nl[j]
  BY DEF Reads
<1>2. Unmarked(t) /\ NlUnmarked(t) => Unmarked(u)
  BY <1>1 DEF Unmarked, NlUnmarked
<1>3. Cleared(t) /\ Hushed(t) => Cleared(u)
  BY <1>1 DEF Cleared, Hushed
<1>4. QED
  BY <1>2, <1>3

(***************************************************************************)
(* Events that are read from the socket meanwhile, and the logout.         *)
(***************************************************************************)
(* u has what t has, except for events that moved or were handled. *)
Follows(t, u) ==
    /\ Kept(t, u) /\ u.state = t.state /\ u.login = t.login /\ u.login_timer = t.login_timer /\ u.k = t.k
    /\ u.pend \subseteq t.pend
    /\ \A i \in DOMAIN u.ready : \/ \E j \in DOMAIN t.ready : u.ready[i] = t.ready[j]
                                 \/ \E j \in DOMAIN t.nl : u.ready[i] = t.nl[j]
    /\ \A i \in DOMAIN u.nl : \E j \in DOMAIN t.nl : u.nl[i] = t.nl[j]

(* What is in the socket comes from the kernel. *)
LEMMA EventKinds == ASSUME NEW t, Good(t) PROVE \A i \in DOMAIN t.nl : t.nl[i] \in Event /\ t.nl[i].ev \in KernelEvent
<1>1. t.nl \in Seq(Event)
  BY ListFacts
<1>2. \A i \in DOMAIN t.nl : t.nl[i] \in Event
  BY <1>1, SMTT(30)
<1>3. QED
  BY <1>2 DEF Event

(* The invariant depends on such events only through their order. *)
LEMMA FollowsBase ==
  ASSUME NEW t, Good(t), Base(t), NEW u, Follows(t, u),
         t.state = "XPT_WAIT" => Order(u), t.state = "FREE" => u.ready = <<>>
  PROVE  Base(u) /\ NoNew(t, u)
<1>1. /\ u.state = t.state /\ u.login = t.login /\ u.login_timer = t.login_timer /\ u.k = t.k
      /\ \A c \in u.pend : c \in t.pend
  BY DEF Follows
<1>2. /\ u.live = t.live /\ u.id = t.id /\ u.r_stage = t.r_stage /\ u.notify = t.notify
      /\ u.logout = t.logout /\ u.req = t.req /\ u.kind = t.kind /\ u.retry = t.retry
      /\ u.unbinding = t.unbinding
  BY DEF Follows, Kept
<1>3. /\ \A i \in DOMAIN u.ready : (\E j \in DOMAIN t.ready : u.ready[i] = t.ready[j]) \/ \E j \in DOMAIN t.nl : u.ready[i] = t.nl[j]
      /\ \A i \in DOMAIN u.nl : \E j \in DOMAIN t.nl : u.nl[i] = t.nl[j]
  BY DEF Follows
<1>4. \A i \in DOMAIN t.nl : t.nl[i].ev # "POLL"
  BY EventKinds DEF KernelEvent
<1>5. NlUnmarked(t)
  BY DEF Base
<1>6. NoNew(t, u)
  BY <1>3 DEF NoNew, Has
<1>7. NlUnmarked(u) /\ Tracked(u)
  <2>1. NlUnmarked(u)
    BY <1>3, <1>5 DEF NlUnmarked
  <2>2. Tracked(u)
    BY <1>2, <1>6 DEF Base, Tracked, NoNew, SessionEvent
  <2>3. QED
    BY <2>1, <2>2
<1>8. ReqsFor(u, {u.login_timer, u.logout}) /\ LoginKind(u, u.login_timer) /\ LogoutKind(u, u.logout)
  <2>1. ReqsFor(t, {t.login_timer, t.logout}) /\ LoginKind(t, t.login_timer) /\ LogoutKind(t, t.logout)
    BY DEF Base
  <2>2. QED
    BY <1>1, <1>2, <2>1, SMTT(30) DEF ReqsFor, LoginKind, LogoutKind
<1>9. Phase(u)
  <2>1. Awaits(t, t.login_timer) => Awaits(u, u.login_timer)
    BY <1>1, <1>2 DEF Awaits
  <2>2. PollsFor(t, t.login_timer) => PollsFor(u, u.login_timer)
    BY <1>1, <1>3, <1>4 DEF PollsFor
  <2>3. Hushed(t) => Hushed(u)
    BY <1>3 DEF Hushed
  <2>4. (NoPoll(t) => NoPoll(u)) /\ (Unmarked(t) => Unmarked(u))
    <3>1. NoPoll(t) => NoPoll(u)
      BY <1>1, <1>3, <1>4 DEF NoPoll
    <3>2. Unmarked(t) => Unmarked(u)
      BY <1>3, <1>5 DEF Unmarked, NlUnmarked
    <3>3. QED
      BY <3>1, <3>2
  <2>5. t.state = "XPT_WAIT" /\ Waiting(t) => Waiting(u)
    BY <1>1, <1>2, <2>1, <2>2, <2>3 DEF Waiting
  <2>6. LoggingIn(t) => LoggingIn(u)
    BY <1>1, <1>2, <2>1, <2>4 DEF LoggingIn
  <2>7. Up(t) => Up(u)
    BY <1>1, <1>2, <2>4 DEF Up
  <2>8. Broken(t) => Broken(u)
    BY <1>1, <1>2, <2>4 DEF Broken
  <2>9. t.state = "FREE" /\ Gone(t) => Gone(u)
    BY <1>1, <1>2 DEF Gone
  <2>10. QED
    BY <1>1, <2>5, <2>6, <2>7, <2>8, <2>9 DEF Base, Phase
<1>10. QED
  BY <1>1, <1>6, <1>7, <1>8, <1>9 DEF Base

(* A call may be made in every state. *)
LEMMA CallBase ==
  ASSUME NEW t, Good(t), Base(t), NEW u, u = KipcCall(t)
  PROVE  Base(u) /\ (Sup(t) => Sup(u))
<1>1. /\ Kept(t, u) /\ u.state = t.state /\ u.login = t.login /\ u.login_timer = t.login_timer
      /\ u.pend = t.pend /\ u.k = t.k /\ u.nl = <<>> /\ Reads(t, u)
  BY Call
<1>2. DOMAIN u.nl = {}
  BY <1>1, SMTT(30)
<1>3. Follows(t, u)
  BY <1>1, <1>2 DEF Follows, Reads
<1>4. t.state = "XPT_WAIT" => Order(u)
  <2>1. ASSUME t.state = "XPT_WAIT" PROVE Order(t) /\ Hushed(t)
    BY <2>1 DEF Base, Phase, Waiting
  <2>2. \A i \in DOMAIN t.nl : t.nl[i].ev # "POLL"
    BY EventKinds DEF KernelEvent
  <2>3. ASSUME Order(t), Hushed(t), NEW i \in DOMAIN u.ready, NEW j \in DOMAIN u.ready, u.ready[i].ev = "POLL", i < j
        PROVE  u.ready[j].ev \in SessionEvent
    <3>1. i \in DOMAIN t.ready /\ u.ready[i] = t.ready[i]
      BY <1>1, <2>2, <2>3 DEF Reads
    <3>2. CASE j \in DOMAIN t.ready
      BY <1>1, <2>3, <3>1, <3>2 DEF Reads, Order
    <3>3. CASE j \notin DOMAIN t.ready
      BY <1>1, <2>3, <3>3 DEF Reads, Hushed
    <3>4. QED
      BY <3>2, <3>3
  <2>4. Order(t) /\ Hushed(t) => Order(u)
    BY <1>1, <2>3, ReadKeeps DEF Order
  <2>5. QED
    BY <2>1, <2>4
<1>5. t.state = "FREE" => u.ready = <<>>
  <2>1. ~ t.live => u.ready = t.ready
    BY CallDrains DEF Drained
  <2>2. QED
    BY <2>1 DEF Base, Phase, Gone
<1>5a. Base(u)
  BY <1>3, <1>4, <1>5, FollowsBase
<1>6. ASSUME Sup(t) PROVE Sup(u)
  <2>0. t.state \in ConnState
    BY TypedRecord DEF Good, FieldTypes
  <2>0a. t.logout # None => t.live /\ t.id
    BY <2>0, NobodyLogsOut DEF Base, Phase, Up
  <2>1. t.live /\ t.id /\ ~ u.dropped => ~ t.dropped /\ \A j \in DOMAIN t.nl : \E i \in DOMAIN u.ready : u.ready[i] = t.nl[j]
    BY <1>1 DEF Reads
  <2>2. \A j \in DOMAIN t.ready : j \in DOMAIN u.ready /\ u.ready[j] = t.ready[j]
    BY <1>1 DEF Reads
  <2>3. ASSUME t.live, t.id, ~ u.dropped, Has(t, "STOP") PROVE Has(u, "STOP")
    <3>1. \A j \in DOMAIN t.nl : \E i \in DOMAIN u.ready : u.ready[i] = t.nl[j]
      BY <2>1, <2>3
    <3>2. CASE \E j \in DOMAIN t.nl : t.nl[j].ev = "STOP"
      <4>1. PICK j \in DOMAIN t.nl : t.nl[j].ev = "STOP"
        BY <3>2
      <4>2. PICK i \in DOMAIN u.ready : u.ready[i] = t.nl[j]
        BY <3>1
      <4>3. QED
        BY <4>1, <4>2 DEF Has
    <3>3. CASE \E j \in DOMAIN t.ready : t.ready[j].ev = "STOP"
      BY <2>2, <3>3 DEF Has
    <3>4. QED
      BY <2>3, <3>2, <3>3 DEF Has
  <2>4. u.logout = t.logout /\ u.unbinding = t.unbinding
    BY <1>1 DEF Kept
  <2>5. QED
    BY <1>1, <1>6, <2>0a, <2>1, <2>3, <2>4 DEF Sup, StopComes
<1>7. QED
  BY <1>5a, <1>6

(* A context is put on pend_list. *)
LEMMA TimerOut ==
  ASSUME NEW t, Good(t), NEW ev, NEW q, NEW u, u = ScheduleTimer(t, ev, q)
  PROVE  /\ \A x \in Fields \ {"pool", "pend"} : u[x] = t[x]
         /\ u.pend = t.pend \cup {[ev |-> ev, q |-> q, stale |-> FALSE]}
<1>1. Shaped(t)
  BY DEF Good, Typed
<1>2. QED
  BY <1>1 DEF ScheduleTimer, Shaped, Fields

(* The states of an established connection *)
UpState == {"LOGGED_IN", "IN_LOGOUT"}

(* The states of an established connection differ in little. *)
LEMMA UpKeeps ==
  ASSUME NEW t, Base(t), t.state \in UpState, NEW u, Kept(t, u), u.state \in UpState, u.k = t.k, u.nl = t.nl,
         u.login_timer = t.login_timer, u.ready = t.ready, NoPoll(u)
  PROVE  Base(u)
<1>1. Up(t) /\ NlUnmarked(t) /\ Tracked(t)
  BY DEF Base, Phase, UpState
<1>2. Up(u) /\ NlUnmarked(u) /\ Tracked(u)
  BY <1>1 DEF Up, Unmarked, NlUnmarked, Tracked, Has, Kept
<1>3. ReqsFor(u, {u.login_timer, u.logout}) /\ LoginKind(u, u.login_timer) /\ LogoutKind(u, u.logout)
  <2>1. ReqsFor(t, {t.login_timer, t.logout}) /\ LoginKind(t, t.login_timer) /\ LogoutKind(t, t.logout)
    BY DEF Base
  <2>2. QED
    BY <2>1, SMTT(30) DEF ReqsFor, LoginKind, LogoutKind, Kept
<1>4. Phase(u)
  BY <1>2 DEF Phase, UpState
<1>5. QED
  BY <1>2, <1>3, <1>4 DEF Base

(* iscsi_send_logout *)
LEMMA SendLogoutBase ==
  ASSUME NEW t, Good(t), Base(t), t.state \in UpState, NEW f, Works(f), NEW u, u = SendLogout(t, f)
  PROVE  /\ Good(u) /\ Base(u) /\ u.state \in UpState /\ Kept(t, u)
         /\ Sup(t) \/ LogoutSent(t, f) => Sup(u)
<1> DEFINE a == KipcCall(t)
           b == [a EXCEPT !.state = "IN_LOGOUT"]
           w == ScheduleTimer(b, "LOGOUT_TIMER", None)
<1>1. Good(u)
  BY SendLogoutGood DEF Works
<1>2. /\ Good(a) /\ Base(a) /\ (Sup(t) => Sup(a)) /\ a.state = t.state /\ Kept(t, a) /\ NoPoll(a)
  BY CallBase, Call, UpFacts DEF Keeps, UpState
<1>3. t.state # "LOGGED_IN" => u = t
  BY DEF SendLogout
<1>4. t.state = "LOGGED_IN" => \/ u = a /\ ~ LogoutSent(t, f)
                               \/ HasContext(b) /\ u = w
                               \/ u = b /\ ~ HasContext(b)
  BY DEF SendLogout, LogoutSent
<1>5. Sets(a, b, "state", "IN_LOGOUT")
  BY <1>2, FieldSet
<1>6. HasContext(a) => HasContext(b)
  <2>1. b.pool = a.pool
    BY <1>5 DEF Sets, Fields
  <2>2. QED
    BY <2>1 DEF HasContext
<1>7. LogoutSent(t, f) => HasContext(a)
  BY DEF LogoutSent
<1> HIDE DEF a
<1>8. t.state = "LOGGED_IN" => Good(b)
  <2>1. t.state = "LOGGED_IN" => NoLogoutTimer(a)
    BY <1>2 DEF Good
  <2>2. QED
    BY <1>2, <2>1, SetState DEF ConnState
<1>9. w = ScheduleTimer(b, "LOGOUT_TIMER", None)
  OBVIOUS
<1> HIDE DEF b, w
<1>10. /\ Kept(a, b) /\ b.state = "IN_LOGOUT" /\ b.k = a.k /\ b.nl = a.nl /\ b.login_timer = a.login_timer
       /\ b.ready = a.ready /\ b.pend = a.pend /\ b.dropped = a.dropped
  BY <1>5 DEF Sets, Fields, Kept
<1>11. Base(b) /\ NoPoll(b) /\ (Sup(a) => Sup(b))
  <2>1. NoPoll(b)
    BY <1>2, <1>10 DEF NoPoll
  <2>2. Base(b)
    BY <1>2, <1>10, <2>1, UpKeeps DEF UpState
  <2>3. Sup(a) => Sup(b)
    BY <1>10 DEF Sup, StopComes, Has, Kept
  <2>4. QED
    BY <2>1, <2>2, <2>3
<1>12. ASSUME Good(b) PROVE Base(w) /\ Sup(w) /\ Kept(b, w) /\ w.state = "IN_LOGOUT"
  <2>1. /\ \A x \in Fields \ {"pool", "pend"} : w[x] = b[x]
        /\ w.pend = b.pend \cup {[ev |-> "LOGOUT_TIMER", q |-> None, stale |-> FALSE]}
    BY <1>9, <1>12, TimerOut, SMTT(30)
  <2>2. /\ Kept(b, w) /\ w.state = b.state /\ w.login_timer = b.login_timer
        /\ w.ready = b.ready /\ w.k = b.k /\ w.nl = b.nl
    BY <2>1 DEF Fields, Kept
  <2>3. (\A c \in b.pend : c.ev # "POLL") => \A c \in w.pend : c.ev # "POLL"
    BY <2>1, SMTT(30)
  <2>4. NoPoll(w)
    BY <1>11, <2>2, <2>3 DEF NoPoll
  <2>5. \E c \in w.pend : c.ev = "LOGOUT_TIMER"
    <3>1. [ev |-> "LOGOUT_TIMER", q |-> None, stale |-> FALSE] \in w.pend
      BY <2>1
    <3>2. [ev |-> "LOGOUT_TIMER", q |-> None, stale |-> FALSE].ev = "LOGOUT_TIMER"
      OBVIOUS
    <3>3. QED
      BY <3>1, <3>2
  <2>6. Base(w)
    BY <1>10, <1>11, <2>2, <2>4, UpKeeps DEF UpState
  <2>7. QED
    BY <1>10, <2>2, <2>5, <2>6 DEF Sup, StopComes
<1>13. u \in {t, a, b} \/ (u = w /\ Base(w) /\ Sup(w) /\ Kept(b, w) /\ w.state = "IN_LOGOUT")
  BY <1>3, <1>4, <1>8, <1>12
<1>14. Kept(t, b) /\ Kept(t, t)
  BY <1>2, <1>10 DEF Kept
<1>15. Base(u) /\ u.state \in UpState /\ (Sup(t) => Sup(u))
  BY <1>2, <1>10, <1>11, <1>13 DEF UpState
<1>16. Kept(t, u)
  BY <1>2, <1>13, <1>14 DEF Kept
<1>17. LogoutSent(t, f) => Sup(u)
  <2>1. LogoutSent(t, f) => t.state = "LOGGED_IN"
    BY DEF LogoutSent
  <2>2. QED
    BY <1>4, <1>6, <1>7, <1>8, <1>12, <2>1
<1>18. QED
  BY <1>1, <1>15, <1>16, <1>17

(***************************************************************************)
(* A context taken off the list, the kernel's events, a crash.              *)
(***************************************************************************)
(* In a reliable setup every handler meets only such failures. *)
LEMMA FailuresWork == ASSUME Good(s), Reliable PROVE \A f \in Failures : Works(f)
<1>1. \A f \in Failures : f \subseteq s.setup.fail
  BY DEF Failures
<1>2. \A f \in Failures : f \cap Tear = {}
  BY <1>1 DEF Reliable
<1>3. QED
  BY <1>1, <1>2 DEF Works, Reliable, Unbinds, Forks

(* The list of ready contexts without the one that runs. *)
LEMMA TakenBase ==
  ASSUME Good(s), Inv(s), s.ready # <<>>
  PROVE  /\ Good(Taken) /\ Base(Taken) /\ Kept(s, Taken) /\ Taken.state = s.state /\ Taken.login = s.login
         /\ Taken.login_timer = s.login_timer /\ Taken.saddr = s.saddr /\ s.state # "FREE"
         /\ s.ready[NextContext].ev # "STOP" => Sup(Taken)
         /\ s.ready[NextContext].ev = "POLL" =>
              s.state = "XPT_WAIT" /\ s.ready[NextContext].q = s.login_timer /\ NoPoll(Taken) /\ Cleared(Taken)
<1> DEFINE u == Taken
           n == NextContext
<1>1. Good(u) /\ Without(s.ready, n, u.ready) /\ Only(s, u, {"pool", "ready"})
  BY ContextTaken DEF Only
<1>2. n \in DOMAIN s.ready /\ s.ready \in Seq(Event \cup TimerContext)
  BY NextIsThere, ListFacts
<1>3. s.ready[n].ev = "POLL" => NoPoll(u) /\ n = 1
  <2>1. s.ready[n].ev = "POLL" => NoPoll(u)
    BY ContextTaken
  <2>2. s.ready[n].ev = "POLL" => n = 1
    <3>1. CASE \E i \in DOMAIN s.ready : s.ready[i].ev = "INVALID_HOST"
      <4>1. n = CHOOSE i \in DOMAIN s.ready : s.ready[i].ev = "INVALID_HOST"
        BY <3>1 DEF NextContext
      <4>2. s.ready[n].ev = "INVALID_HOST"
        BY <3>1, <4>1
      <4>3. QED
        BY <4>2
    <3>2. CASE ~ \E i \in DOMAIN s.ready : s.ready[i].ev = "INVALID_HOST"
      BY <3>2 DEF NextContext
    <3>3. QED
      BY <3>1, <3>2
  <2>3. QED
    BY <2>1, <2>2
<1> HIDE DEF u, n
<1>4. /\ Kept(s, u) /\ u.state = s.state /\ u.login = s.login /\ u.login_timer = s.login_timer /\ u.saddr = s.saddr
      /\ u.k = s.k /\ u.pend = s.pend /\ u.nl = s.nl /\ u.dropped = s.dropped
  BY <1>1 DEF Only, Fields, Kept
<1>5. /\ \A i \in DOMAIN u.ready : Was(i, n) \in DOMAIN s.ready /\ Was(i, n) # n /\ u.ready[i] = s.ready[Was(i, n)]
      /\ \A i, j \in DOMAIN u.ready : i < j => Was(i, n) < Was(j, n)
      /\ \A j \in DOMAIN s.ready \ {n} : \E i \in DOMAIN u.ready : u.ready[i] = s.ready[j]
  BY <1>1 DEF Without
<1>6. Base(s) /\ Sup(s) /\ s.state \in ConnState
  BY TypedRecord DEF Good, FieldTypes, Inv
<1>7. s.state # "FREE"
  BY <1>6 DEF Base, Phase, Gone
<1>8. Follows(s, u)
  BY <1>4, <1>5 DEF Follows
<1>9. s.state = "XPT_WAIT" => Order(u)
  <2>1. s.state = "XPT_WAIT" => Order(s)
    BY <1>6 DEF Base, Phase, Waiting
  <2>2. Cleared(s) => Cleared(u)
    BY <1>5 DEF Cleared
  <2>3. ASSUME Order(s) PROVE Order(u)
    <3>1. ASSUME NEW i \in DOMAIN u.ready, NEW j \in DOMAIN u.ready, u.ready[i].ev = "POLL", i < j
          PROVE  u.ready[j].ev \in SessionEvent
      <4>1. Was(i, n) \in DOMAIN s.ready /\ Was(j, n) \in DOMAIN s.ready /\ Was(i, n) < Was(j, n)
        BY <1>5, <3>1
      <4>2. u.ready[i] = s.ready[Was(i, n)] /\ u.ready[j] = s.ready[Was(j, n)]
        BY <1>5
      <4>3. QED
        BY <2>3, <3>1, <4>1, <4>2 DEF Order
    <3>2. QED
      BY <1>4, <2>2, <2>3, <3>1 DEF Order
  <2>4. QED
    BY <2>1, <2>3
<1>10. Base(u)
  BY <1>6, <1>7, <1>8, <1>9, FollowsBase
<1>11. ASSUME s.ready[n].ev # "STOP" PROVE Sup(u)
  <2>1. Has(s, "STOP") => Has(u, "STOP")
    <3>1. ASSUME NEW j \in DOMAIN s.ready, s.ready[j].ev = "STOP" PROVE Has(u, "STOP")
      <4>1. j \in DOMAIN s.ready \ {n}
        BY <1>11, <3>1
      <4>2. PICK i \in DOMAIN u.ready : u.ready[i] = s.ready[j]
        BY <1>5, <4>1
      <4>3. QED
        BY <3>1, <4>2 DEF Has
    <3>2. QED
      BY <1>4, <3>1 DEF Has
  <2>2. StopComes(s) => StopComes(u)
    BY <1>4, <2>1 DEF StopComes, Kept
  <2>3. QED
    BY <1>4, <1>6, <2>2 DEF Sup, Kept
<1>12. ASSUME s.ready[n].ev = "POLL"
       PROVE  s.state = "XPT_WAIT" /\ s.ready[n].q = s.login_timer /\ NoPoll(u) /\ Cleared(u)
  <2>1. ~ NoPoll(s)
    BY <1>2, <1>12 DEF NoPoll
  <2>2. s.state = "XPT_WAIT"
    BY <1>6, <1>7, <2>1 DEF Base, Phase, LoggingIn, Up, Broken, ConnState
  <2>3. PollsFor(s, s.login_timer) /\ Order(s)
    BY <1>6, <2>2 DEF Base, Phase, Waiting
  <2>4. \A j \in DOMAIN s.ready : j # n => n < j
    BY <1>2, <1>3, <1>12, SMTT(30)
  <2>5. Cleared(u)
    BY <1>2, <1>5, <1>12, <2>3, <2>4 DEF Cleared, Order
  <2>6. QED
    BY <1>2, <1>3, <1>12, <2>2, <2>3, <2>5 DEF PollsFor
<1>13. QED
  BY <1>1, <1>4, <1>7, <1>10, <1>11, <1>12 DEF u, n

(* an event is read, *)
LEMMA NetlinkSettles ==
  ASSUME Good(s), Inv(s), ReadNetlink PROVE Settled(s, s', s.login_timer)
<1> DEFINE u == CtldevHandle(s)
           e == Head(s.nl)
           v == [s EXCEPT !.nl = Tail(@)]
<1>1. s.ready = <<>> /\ s.nl # <<>> /\ s' = u
  BY DEF ReadNetlink
<1>2. RestOf(s.nl, Tail(s.nl)) /\ DOMAIN s.ready = {}
  <2>1. s.nl \in Seq(Event)
    BY ListFacts
  <2>2. DOMAIN s.ready = {}
    BY <1>1, SMTT(30)
  <2>3. QED
    BY <1>1, <2>1, <2>2, Rest
<1>3. Base(s) /\ Sup(s)
  BY DEF Inv
<1>4. Sets(s, v, "nl", Tail(s.nl)) /\ Shaped(s)
  BY FieldSet DEF Good, Typed
<1>5. \/ u = v /\ ~ (s.live /\ s.id)
      \/ s.live /\ s.id /\ u = [v EXCEPT !.pool = @ + 1, !.ready = Append(@, e)]
      \/ u = [v EXCEPT !.dropped = TRUE]
  BY DEF CtldevHandle
<1> HIDE DEF e
<1>6. Shaped(v)
  BY <1>4, UpdateShape
<1> HIDE DEF u, v
<1>7. /\ Only(s, u, SocketFields) /\ u.nl = Tail(s.nl)
      /\ u.ready = <<>> \/ (s.live /\ s.id /\ u.ready = <<e>>)
      /\ s.live /\ s.id /\ ~ u.dropped => u.ready = <<e>> /\ u.dropped = s.dropped
  <2>1. v.nl = Tail(s.nl) /\ v.ready = <<>> /\ v.dropped = s.dropped /\ \A x \in Fields \ SocketFields : v[x] = s[x]
    BY <1>1, <1>4 DEF Sets, Fields, SocketFields
  <2>2. CASE u = v /\ ~ (s.live /\ s.id)
    BY <2>1, <2>2 DEF Only
  <2>3. CASE s.live /\ s.id /\ u = [v EXCEPT !.pool = @ + 1, !.ready = Append(@, e)]
    <3>1. u.ready = Append(v.ready, e) /\ \A x \in Fields \ {"pool", "ready"} : u[x] = v[x]
      BY <1>6, <2>3 DEF Shaped, Fields
    <3>2. Append(<<>>, e) = <<e>>
      BY SMTT(30)
    <3>3. u.nl = v.nl /\ u.dropped = v.dropped /\ \A x \in Fields \ SocketFields : u[x] = v[x]
      BY <3>1 DEF Fields, SocketFields
    <3>4. QED
      BY <2>1, <2>3, <3>1, <3>2, <3>3 DEF Only
  <2>4. CASE u = [v EXCEPT !.dropped = TRUE]
    <3>1. u.dropped = TRUE /\ \A x \in Fields \ {"dropped"} : u[x] = v[x]
      BY <1>6, <2>4 DEF Shaped, Fields
    <3>2. u.nl = v.nl /\ u.ready = v.ready /\ \A x \in Fields \ SocketFields : u[x] = v[x]
      BY <3>1 DEF Fields, SocketFields
    <3>3. QED
      BY <2>1, <3>1, <3>2 DEF Only
  <2>5. QED
    BY <1>5, <2>2, <2>3, <2>4
<1>8. /\ Kept(s, u) /\ u.state = s.state /\ u.login = s.login /\ u.login_timer = s.login_timer /\ u.k = s.k
      /\ u.pend = s.pend
  BY <1>7 DEF Only, SocketFields, Fields, Kept
<1>9. e = s.nl[1] /\ 1 \in DOMAIN s.nl
  BY <1>2 DEF RestOf, e
<1>10. \A i \in DOMAIN u.ready : s.live /\ u.ready[i] = e
  <2>1. DOMAIN <<e>> = {1} /\ <<e>>[1] = e /\ DOMAIN << >> = {}
    BY SMTT(30)
  <2>2. QED
    BY <1>7, <2>1
<1>11. /\ \A i \in DOMAIN u.nl : i + 1 \in DOMAIN s.nl /\ u.nl[i] = s.nl[i + 1]
       /\ \A j \in DOMAIN s.nl \ {1} : j - 1 \in DOMAIN u.nl /\ u.nl[j - 1] = s.nl[j]
  BY <1>2, <1>7 DEF RestOf
<1>12. Follows(s, u)
  BY <1>8, <1>9, <1>10, <1>11 DEF Follows
<1>13. s.state = "XPT_WAIT" => Order(u)
  <2>1. s.state = "XPT_WAIT" => e.ev \in SessionEvent
    BY <1>3, <1>9 DEF Base, Phase, Waiting, Hushed
  <2>2. QED
    BY <1>10, <2>1 DEF Order, Cleared
<1>14. s.state = "FREE" => u.ready = <<>>
  BY <1>3, <1>7 DEF Base, Phase, Gone
<1>15. Base(u)
  BY <1>3, <1>12, <1>13, <1>14, FollowsBase
<1>16. Sup(u)
  <2>1. SUFFICES ASSUME Unbinds, u.logout # None, ~ u.dropped PROVE StopComes(u)
    BY DEF Sup
  <2>2. s.live /\ s.id
    <3>1. s.state \in {"LOGGED_IN", "IN_LOGOUT"}
      <4>1. s.logout # None /\ s.state \in ConnState
        BY <1>8, <2>1, TypedRecord DEF Kept, Good, FieldTypes
      <4>2. QED
        BY <1>3, <4>1, NobodyLogsOut
    <3>2. QED
      BY <1>3, <3>1, UpFacts
  <2>3. u.ready = <<e>> /\ ~ s.dropped
    BY <1>7, <2>1, <2>2
  <2>4. StopComes(s)
    BY <1>3, <1>8, <2>1, <2>3 DEF Sup, Kept
  <2>5. ASSUME NEW j \in DOMAIN s.nl, s.nl[j].ev = "STOP" PROVE Has(u, "STOP")
    <3>1. CASE j = 1
      <4>1. 1 \in DOMAIN <<e>> /\ <<e>>[1] = e
        BY SMTT(30)
      <4>2. QED
        BY <1>9, <2>3, <2>5, <3>1, <4>1 DEF Has
    <3>2. CASE j # 1
      BY <1>11, <2>5, <3>2 DEF Has
    <3>3. QED
      BY <3>1, <3>2
  <2>6. Has(s, "STOP") => Has(u, "STOP")
    BY <1>2, <2>5 DEF Has
  <2>7. QED
    BY <1>8, <2>4, <2>6 DEF StopComes, Kept
<1>17. u.req = s.req /\ u.live = s.live /\ Inv(u)
  BY <1>8, <1>15, <1>16 DEF Inv, Kept
<1>18. QED
  BY <1>1, <1>17, Unanswered, SMTT(30)

(* An event of the kernel in the netlink socket. *)
LEMMA QueuedInv ==
  ASSUME Good(s), Inv(s), NEW ev, NEW u, u = Queue(s, ev) \/ (ev = "STOP" /\ u = [Queue(s, ev) EXCEPT !.unbinding = FALSE]),
         s.state = "XPT_WAIT" => ev \in SessionEvent,
         ~ Forgets => ev # "INVALID_HOST", ~ Forgets /\ ev = "STOP" => s.unbinding
  PROVE  Inv(u) /\ u.req = s.req /\ u.live = s.live
<1> DEFINE e == [ev |-> ev, q |-> None, stale |-> FALSE]
           n == Append(s.nl, e)
           w == Queue(s, ev)
<1>1. e.ev = ev /\ e.stale = FALSE
  OBVIOUS
<1>2. w = [s EXCEPT !.nl = n]
  BY DEF Queue
<1> HIDE DEF e
<1>3. s.nl \in Seq(Event)
  BY ListFacts
<1>4. /\ \A i \in DOMAIN n : n[i] = e \/ (i \in DOMAIN s.nl /\ n[i] = s.nl[i])
      /\ \A i \in DOMAIN s.nl : i \in DOMAIN n /\ n[i] = s.nl[i]
      /\ Len(s.nl) + 1 \in DOMAIN n /\ n[Len(s.nl) + 1] = e
  BY <1>3, SMTT(30)
<1> HIDE DEF n
<1>5. Sets(s, [s EXCEPT !.nl = n], "nl", n) /\ Shaped(s)
  BY FieldSet DEF Good, Typed
<1>6. Sets(s, w, "nl", n) /\ Shaped(w)
  <2>1. Shaped([s EXCEPT !.nl = n])
    BY <1>5, UpdateShape
  <2>2. QED
    BY <1>2, <1>5, <2>1
<1> HIDE DEF w
<1>7. Only(s, u, {"nl", "unbinding"}) /\ u.nl = n /\ (u.unbinding = s.unbinding \/ ev = "STOP")
  <2>1. CASE u = w
    BY <1>6, <2>1 DEF Sets, Fields, Only
  <2>2. CASE ev = "STOP" /\ u = [w EXCEPT !.unbinding = FALSE]
    <3>1. \A x \in Fields \ {"unbinding"} : u[x] = w[x]
      BY <1>6, <2>2 DEF Shaped, Fields
    <3>2. QED
      BY <1>6, <2>2, <3>1 DEF Sets, Fields, Only
  <2>3. QED
    BY <2>1, <2>2 DEF w
<1>8. /\ u.live = s.live /\ u.id = s.id /\ u.state = s.state /\ u.r_stage = s.r_stage /\ u.notify = s.notify
      /\ u.logout = s.logout /\ u.login = s.login /\ u.login_timer = s.login_timer
  BY <1>7 DEF Only, Fields
<1>9. /\ u.ready = s.ready /\ u.pend = s.pend /\ u.k = s.k /\ u.dropped = s.dropped
      /\ u.req = s.req /\ u.kind = s.kind /\ u.retry = s.retry
  BY <1>7 DEF Only, Fields
<1>10. Base(s) /\ Sup(s) /\ s.state \in ConnState
  BY TypedRecord DEF Good, FieldTypes, Inv
<1>11. /\ \A i \in DOMAIN u.nl : u.nl[i] = e \/ (i \in DOMAIN s.nl /\ u.nl[i] = s.nl[i])
       /\ \A i \in DOMAIN s.nl : i \in DOMAIN u.nl /\ u.nl[i] = s.nl[i]
       /\ \E i \in DOMAIN u.nl : u.nl[i] = e
  BY <1>4, <1>7
<1>12. NlUnmarked(u)
  BY <1>1, <1>10, <1>11 DEF Base, NlUnmarked
<1>13. \A x : Has(u, x) => Has(s, x) \/ x = ev
  BY <1>1, <1>9, <1>11 DEF Has
<1>14. \A x : Has(s, x) => Has(u, x)
  BY <1>9, <1>11 DEF Has
<1>15. ev = "STOP" => Has(u, "STOP")
  BY <1>1, <1>11 DEF Has
<1>16. Tracked(u)
  <2>1. Tracked(s)
    BY <1>10 DEF Base
  <2>2. SUFFICES ASSUME ~ Forgets PROVE ~ Has(u, "INVALID_HOST") /\ (u.unbinding \/ Has(u, "STOP") => u.logout # None)
    BY DEF Tracked
  <2>3. ~ Has(s, "INVALID_HOST") /\ (s.unbinding \/ Has(s, "STOP") => s.logout # None)
    BY <2>1, <2>2 DEF Tracked
  <2>4. u.unbinding \/ Has(u, "STOP") => s.unbinding \/ Has(s, "STOP")
    BY <1>7, <1>13, <2>2
  <2>5. QED
    BY <1>8, <1>13, <2>2, <2>3, <2>4
<1>17. Phase(u)
  <2>1. Phase(s)
    BY <1>10 DEF Base
  <2>0. \A q : Awaits(s, q) => Awaits(u, q)
    BY <1>8, SMTT(30) DEF Awaits
  <2>2. s.state = "XPT_WAIT" => Waiting(u)
    <3>1. SUFFICES ASSUME s.state = "XPT_WAIT" PROVE Waiting(u)
      OBVIOUS
    <3>2. Waiting(s)
      BY <2>1, <3>1 DEF Phase
    <3>3. Hushed(u)
      BY <1>1, <1>11, <3>1, <3>2 DEF Waiting, Hushed
    <3>4. Awaits(u, u.login_timer)
      BY <1>8, <2>0, <3>2 DEF Waiting
    <3>5. PollsFor(u, u.login_timer) /\ Order(u)
      <4>1. PollsFor(s, s.login_timer) /\ Order(s)
        BY <3>2 DEF Waiting
      <4>2. PollsFor(u, u.login_timer)
        <5>1. \A q : PollsFor(s, q) => PollsFor(u, q)
          BY <1>9 DEF PollsFor
        <5>2. QED
          BY <1>8, <4>1, <5>1
      <4>3. Order(u)
        BY <1>9, <4>1 DEF Order, Cleared
      <4>4. QED
        BY <4>2, <4>3
    <3>6. QED
      BY <1>8, <1>9, <3>2, <3>3, <3>4, <3>5 DEF Waiting
  <2>3. LoggingIn(s) => LoggingIn(u)
    <3>1. (NoPoll(s) => NoPoll(u)) /\ (Unmarked(s) => Unmarked(u))
      BY <1>9 DEF NoPoll, Unmarked
    <3>2. QED
      BY <1>8, <1>9, <2>0, <3>1 DEF LoggingIn
  <2>4. (Up(s) => Up(u)) /\ (Broken(s) => Broken(u)) /\ (Gone(s) => Gone(u))
    BY <1>8, <1>9 DEF Up, Broken, Gone, NoPoll, Unmarked
  <2>5. QED
    BY <1>8, <2>1, <2>2, <2>3, <2>4 DEF Phase
<1>18. ReqsFor(u, {u.login_timer, u.logout}) /\ LoginKind(u, u.login_timer) /\ LogoutKind(u, u.logout)
  <2>1. ReqsFor(s, {s.login_timer, s.logout}) /\ LoginKind(s, s.login_timer) /\ LogoutKind(s, s.logout)
    BY <1>10 DEF Base
  <2>2. QED
    BY <1>8, <1>9, <2>1, SMTT(30) DEF ReqsFor, LoginKind, LogoutKind
<1>19. Base(u)
  BY <1>9, <1>10, <1>12, <1>16, <1>17, <1>18 DEF Base
<1>20. StopComes(s) => StopComes(u)
  BY <1>7, <1>9, <1>14, <1>15 DEF StopComes
<1>21. Sup(u)
  BY <1>8, <1>9, <1>10, <1>20 DEF Sup
<1>22. QED
  BY <1>8, <1>9, <1>19, <1>21 DEF Inv

(* the kernel sends an event, *)
LEMMA KernelSettles ==
  ASSUME Good(s), Inv(s), KernelEvents PROVE Settled(s, s', s.login_timer)
<1>1. s.k \in {"none", "conn", "bound", "started"} /\ Phase(s) /\ Tracked(s)
  BY DEF Inv, Base
<1>2. s.state = "XPT_WAIT" => s.k \notin {"bound", "started"}
  BY <1>1 DEF Phase, Waiting
<1>3. ASSUME NEW ev, s' = Queue(s, ev) \/ (ev = "STOP" /\ s' = [Queue(s, ev) EXCEPT !.unbinding = FALSE]),
             s.state = "XPT_WAIT" => ev \in SessionEvent,
             ~ Forgets => ev # "INVALID_HOST", ~ Forgets /\ ev = "STOP" => s.unbinding
      PROVE  Settled(s, s', s.login_timer)
  <2>1. Inv(s') /\ s'.req = s.req /\ s'.live = s.live
    BY <1>3, QueuedInv
  <2>2. QED
    BY <2>1, Unanswered
<1>4. CASE KernelPdu
  <2> DEFINE ev == "RECV_PDU"
  <2>1. s' = Queue(s, ev) /\ s.state # "XPT_WAIT" /\ ev # "INVALID_HOST" /\ ev # "STOP"
    BY <1>2, <1>4 DEF KernelPdu
  <2> HIDE DEF ev
  <2>2. QED
    BY <1>3, <2>1
<1>5. CASE KernelError
  <2> DEFINE ev == "ERROR"
  <2>1. s' = Queue(s, ev) /\ s.state # "XPT_WAIT" /\ ev # "INVALID_HOST" /\ ev # "STOP"
    BY <1>1, <1>2, <1>5 DEF KernelError
  <2> HIDE DEF ev
  <2>2. QED
    BY <1>3, <2>1
<1>6. ASSUME NEW ok \in BOOLEAN, KernelLogin(ok) PROVE FALSE
  BY <1>1, <1>6 DEF KernelLogin
<1>7. CASE KernelUnbound
  <2> DEFINE ev == "STOP"
  <2>1. s' = [Queue(s, ev) EXCEPT !.unbinding = FALSE] /\ ev \in SessionEvent /\ ev = "STOP" /\ ev # "INVALID_HOST" /\ s.unbinding
    BY <1>7 DEF KernelUnbound, SessionEvent
  <2> HIDE DEF ev
  <2>2. QED
    BY <1>3, <2>1
<1>8. CASE KernelHostRemoved
  BY <1>3, <1>8 DEF KernelHostRemoved, SessionEvent, Forgets
<1>9. QED
  BY <1>4, <1>5, <1>6, <1>7, <1>8 DEF KernelEvents

(* Nobody is there after a restart, and nobody at the start. *)
LEMMA NobodyInv ==
  ASSUME NEW u, Gone(u), u.state = "FREE", u.nl = <<>>, u.k \in {"none", "conn", "bound", "started"}, ~ u.unbinding \/ Forgets,
         \A r \in Req : u.req[r] \notin {"open", "twice"} /\ ~ (u.retry[r] > 0)
  PROVE  Inv(u)
<1>1. /\ ~ u.live /\ u.login_timer = None /\ u.notify = None /\ u.logout = None /\ u.ready = <<>> /\ u.pend = {}
      /\ DOMAIN u.nl = {} /\ DOMAIN u.ready = {}
  <2>1. DOMAIN << >> = {}
    BY SMTT(30)
  <2>2. QED
    BY <2>1 DEF Gone
<1>2. NlUnmarked(u) /\ ~ Has(u, "INVALID_HOST") /\ ~ Has(u, "STOP")
  BY <1>1 DEF NlUnmarked, Has
<1>3. Tracked(u) /\ Phase(u) /\ Sup(u)
  BY <1>1, <1>2 DEF Tracked, Phase, Sup
<1>4. ReqsFor(u, {None, None}) /\ LoginKind(u, None) /\ LogoutKind(u, None)
  BY ReqAssumption DEF ReqsFor, LoginKind, LogoutKind
<1>5. QED
  BY <1>1, <1>2, <1>3, <1>4 DEF Inv, Base

(* iscsid is restarted. *)
LEMMA CrashInv ==
  ASSUME Good(s), Inv(s), Crash PROVE Inv(s') /\ Truthful(s, s') /\ ~ s'.live
<1> DEFINE x == Fresh(s)
           v == [r \in Req |-> 0]
           w == [r \in Req |-> IF x.req[r] = "open" THEN "err" ELSE x.req[r]]
           a == [x EXCEPT !.retry = v]
           u == [a EXCEPT !.req = w]
<1>1. Shaped(s) /\ Shaped(x)
  <2>1. Shaped(s)
    BY DEF Good, Typed
  <2>2. QED
    BY <2>1, FreshShape
<1>2. /\ x.live = FALSE /\ x.notify = None /\ x.logout = None /\ x.login_timer = None /\ x.ready = <<>> /\ x.pend = {}
      /\ x.nl = <<>> /\ x.state = "FREE" /\ x.k = s.k /\ x.req = s.req
  BY <1>1, FreshValues, FreshKeeps
<1>3. s' = u
  BY DEF Crash
<1>4. \A r \in Req : v[r] = 0 /\ w[r] = IF x.req[r] = "open" THEN "err" ELSE x.req[r]
  OBVIOUS
<1> HIDE DEF x, v, w
<1>5. u.retry = v /\ u.req = w /\ \A y \in Fields \ {"retry", "req"} : u[y] = x[y]
  BY <1>1 DEF Shaped, Fields
<1> HIDE DEF u
<1>6. /\ u.live = FALSE /\ u.notify = None /\ u.logout = None /\ u.login_timer = None /\ u.ready = <<>> /\ u.pend = {}
      /\ u.nl = <<>> /\ u.state = "FREE" /\ u.k = s.k
  BY <1>2, <1>5 DEF Fields
<1>7. Forgets
  BY DEF Crash, Forgets
<1>8. \A r \in Req : s.req[r] # "twice"
  BY DEF Inv, Base, ReqsFor
<1>9. \A r \in Req : u.req[r] \notin {"open", "twice"} /\ ~ (u.retry[r] > 0)
  <2>1. \A r \in Req : u.req[r] \notin {"open", "twice"}
    BY <1>2, <1>4, <1>5, <1>8
  <2>2. ~ (0 > 0)
    BY SMTT(30)
  <2>3. QED
    BY <1>4, <1>5, <2>1, <2>2
<1>10. Gone(u)
  BY <1>6 DEF Gone
<1>11. u.k \in {"none", "conn", "bound", "started"}
  BY <1>6 DEF Inv, Base
<1>12. Inv(u)
  BY <1>6, <1>7, <1>9, <1>10, <1>11, NobodyInv, SMTT(30)
<1>13. Truthful(s, u)
  BY <1>2, <1>4, <1>5 DEF Truthful
<1>14. QED
  BY <1>3, <1>6, <1>12, <1>13

(* At the start nobody asks for anything. *)
LEMMA InitInv == ASSUME Init PROVE Inv(s)
<1>1. PICK setup \in Setups :
    s = [live |-> FALSE, id |-> FALSE, state |-> "FREE", r_stage |-> "NO_CHANGE",
         reopen_cnt |-> 0, time2wait |-> FALSE, late |-> FALSE, notify |-> None,
         logout |-> None, login |-> None, login_timer |-> None, nop_timer |-> "off",
         saddr |-> "home", failback |-> "home", pool |-> 0, ready |-> <<>>, pend |-> {},
         retry |-> [r \in Req |-> 0], k |-> "none", unbinding |-> FALSE, nl |-> <<>>,
         req |-> [r \in Req |-> "idle"], kind |-> [r \in Req |-> "none"],
         dropped |-> FALSE, zombie |-> FALSE, relinked |-> FALSE, setup |-> setup]
  BY DEF Init
<1>2. /\ s.live = FALSE /\ s.login_timer = None /\ s.notify = None /\ s.logout = None /\ s.ready = <<>> /\ s.pend = {}
      /\ s.state = "FREE" /\ s.nl = <<>> /\ s.k = "none" /\ s.unbinding = FALSE
  BY <1>1
<1>3. s.retry = [r \in Req |-> 0] /\ s.req = [r \in Req |-> "idle"]
  BY <1>1
<1>4. \A r \in Req : s.req[r] \notin {"open", "twice"} /\ ~ (s.retry[r] > 0)
  BY <1>3, SMTT(30)
<1>5. Gone(s)
  BY <1>2 DEF Gone
<1>6. QED
  BY <1>2, <1>4, <1>5, NobodyInv, SMTT(30)
==============================================================================
