---------------------------- MODULE Daemon_proofs ----------------------------
(***************************************************************************)
(* What Daemon promises, for every number of clients, discovery records,    *)
(* node records, sessions and requests.                                     *)
(*                                                                          *)
(* A request is held by one thing at a time, the backlog, mgmt_ipc_handle,  *)
(* a session or the shutdown (Holders).  With the children that the         *)
(* shutdown waits for (Kids) this gives StopIsTheEnd; with the calls that   *)
(* clients and children are about to make (Progs), the requests under way   *)
(* (Asking) and the sessions there are (Single), OneSession.                *)
(***************************************************************************)
EXTENDS Daemon, TLAPS, FiniteSetTheorems

USE ZenonT(60)

ConnFields == {"cmd", "arg", "own", "client", "sent", "at", "rsp"}
SessFields == {"st", "rec", "qtask", "logout_qtask"}

(* A table of connections *)
Table(cs) == DOMAIN cs = Reqs /\ \A q \in Reqs : DOMAIN cs[q] = ConnFields

(* A client is told that iscsid stopped. *)
Told(c) == c.cmd = "stop" /\ c.rsp = "ok"

(* A login asks for one more session only of a record that allows several. *)
Asks(c) == c.cmd = "login" => (c.arg[2] => NrSessions[c.arg[1]] > 1)

(* What the other ends of the connections do: iscsid keeps the ones it has, and nobody is told that it stopped. *)
Gentle(cs, ct) ==
    /\ Table(ct)
    /\ \A q \in Reqs : /\ cs[q].at \in {"held", "queued"}
                             => ct[q].at = cs[q].at /\ ct[q].cmd = cs[q].cmd /\ ct[q].arg = cs[q].arg
                       /\ Told(ct[q]) => Told(cs[q])
                       /\ Asks(cs[q]) => Asks(ct[q])

(* q is answered err, and nobody else is. *)
Answered(cs, ct, q, err) ==
    /\ Table(ct)
    /\ \A i \in Reqs \ {q} : ct[i] = cs[i]
    /\ q \in Reqs => \/ ct[q] = NoConn
                     \/ /\ ct[q].at = "closed" /\ ct[q].rsp = err
                        /\ ct[q].cmd = cs[q].cmd /\ ct[q].arg = cs[q].arg

(* A connection that is not there *)
LEMMA NoConnFacts == DOMAIN NoConn = ConnFields /\ NoConn.at = "none" /\ ~ Told(NoConn) /\ Asks(NoConn)
BY DEF NoConn, ConnFields, Told, Asks, None

(* mgmt_ipc_write_rsp answers one. *)
LEMMA AnswerOut ==
  ASSUME NEW cs, Table(cs), NEW q \in Reqs \cup {NoReq}, NEW err
  PROVE  Answered(cs, WriteRsp(cs, q, err), q, err)
<1>1. NoReq \notin Reqs
  BY SMTT(30) DEF NoReq, Reqs
<1>2. CASE q = NoReq
  BY <1>1, <1>2 DEF WriteRsp, Answered
<1>3. CASE q \in Reqs
  <2> DEFINE v == IF cs[q].client THEN [cs[q] EXCEPT !.at = "closed", !.rsp = err] ELSE NoConn
  <2>1. WriteRsp(cs, q, err) = [cs EXCEPT ![q] = v]
    BY <1>1, <1>3 DEF WriteRsp
  <2>2. DOMAIN v = ConnFields
    BY <1>3, NoConnFacts DEF Table
  <2>3. v = NoConn \/ (v.at = "closed" /\ v.cmd = cs[q].cmd /\ v.arg = cs[q].arg /\ v.rsp = err)
    BY <1>3 DEF Table, ConnFields
  <2> HIDE DEF v
  <2>4. QED
    BY <1>3, <2>1, <2>2, <2>3, SMTT(30) DEF Table, Answered
<1>4. QED
  BY <1>2, <1>3

(* A client closes its end: iscsid keeps its own. *)
LEMMA ClosedOut ==
  ASSUME NEW c, DOMAIN c = ConnFields
  PROVE  /\ DOMAIN Closed(c) = ConnFields
         /\ c.at \in {"held", "queued"} => Closed(c).at = c.at /\ Closed(c).cmd = c.cmd /\ Closed(c).arg = c.arg
         /\ Told(Closed(c)) => Told(c)
         /\ Asks(c) => Asks(Closed(c))
<1> DEFINE d == [c EXCEPT !.client = FALSE]
<1>1. DOMAIN d = ConnFields /\ d.at = c.at /\ d.cmd = c.cmd /\ d.arg = c.arg /\ d.rsp = c.rsp
  BY DEF ConnFields
<1>2. Closed(c) = d \/ (c.at = "closed" /\ Closed(c) = NoConn)
  BY DEF Closed
<1> HIDE DEF d
<1>3. CASE Closed(c) = d
  BY <1>1, <1>3 DEF Told, Asks
<1>4. CASE c.at = "closed" /\ Closed(c) = NoConn
  BY <1>4, NoConnFacts
<1>5. QED
  BY <1>2, <1>3, <1>4

(* A process closes all it has, *)
LEMMA ReqsClosed ==
  ASSUME NEW cs, Table(cs), NEW p
  PROVE  Gentle(cs, iscsid_reqs_close(cs, p))
<1> DEFINE ct == iscsid_reqs_close(cs, p)
<1>1. DOMAIN ct = Reqs /\ \A q \in Reqs : ct[q] = Closed(cs[q]) \/ ct[q] = cs[q]
  BY DEF iscsid_reqs_close
<1> HIDE DEF ct
<1>2. \A q \in Reqs : DOMAIN cs[q] = ConnFields
  BY DEF Table
<1>3. QED
  BY <1>1, <1>2, ClosedOut DEF Table, Gentle, ct

(* or one of them. *)
LEMMA OneClosed ==
  ASSUME NEW cs, Table(cs), NEW q
  PROVE  Gentle(cs, [cs EXCEPT ![q] = Closed(@)])
<1> DEFINE ct == [cs EXCEPT ![q] = Closed(cs[q])]
<1>1. DOMAIN ct = Reqs /\ \A i \in Reqs : ct[i] = Closed(cs[i]) \/ ct[i] = cs[i]
  BY DEF Table
<1> HIDE DEF ct
<1>2. \A i \in Reqs : DOMAIN cs[i] = ConnFields
  BY DEF Table
<1>3. Gentle(cs, ct)
  BY <1>1, <1>2, ClosedOut DEF Table, Gentle
<1>4. QED
  BY <1>3 DEF ct

(* What a process does to the connections, iscsid_connect apart *)
LEMMA SentOut ==
  ASSUME NEW cs, Table(cs), NEW q
  PROVE  Gentle(cs, [cs EXCEPT ![q].sent = TRUE])
<1> DEFINE v == [cs[q] EXCEPT !.sent = TRUE]
           ct == [cs EXCEPT ![q] = v]
<1>1. q \in Reqs => DOMAIN v = ConnFields /\ v.at = cs[q].at /\ v.cmd = cs[q].cmd /\ v.rsp = cs[q].rsp /\ v.arg = cs[q].arg
  BY DEF Table, ConnFields
<1> HIDE DEF v
<1>2. DOMAIN ct = Reqs /\ \A i \in Reqs : ct[i] = IF i = q THEN v ELSE cs[i]
  BY DEF Table
<1> HIDE DEF ct
<1>3. Gentle(cs, ct)
  BY <1>1, <1>2 DEF Table, Gentle, Told, Asks
<1>4. QED
  BY <1>3 DEF ct, v

(* The requests that a session will answer *)
Tasks(x) == {x.qtask, x.logout_qtask} \ {NoReq}

SessRec(x) ==
    /\ DOMAIN x = SessFields
    /\ {x.qtask, x.logout_qtask} \subseteq Reqs \cup {NoReq}
    /\ x.st \in {"none", "up", "going", "orphan"} => x.qtask = NoReq
    /\ x.st # "going" => x.logout_qtask = NoReq
    /\ x.st = "retry" => x.qtask # NoReq

(* The request q is a login to r. *)
Wants(cs, q, r) == cs[q].cmd = "login" /\ cs[q].arg[1] = r

(* There is a session, in iscsid or in the kernel. *)
Running(x) == x.st \in {"connect", "login", "up", "sync", "going", "orphan"}

(* Each request is held by one session, *)
Sessions ==
    /\ DOMAIN sess = Sids
    /\ \A s \in Sids : SessRec(sess[s])
    /\ \A s \in Sids : \A q \in Tasks(sess[s]) : conn[q].at = "held" /\ conn[q].cmd # "stop"
    /\ \A s \in Sids : sess[s].st = "retry" => Wants(conn, sess[s].qtask, sess[s].rec)
    /\ \A s, i \in Sids : s # i => Tasks(sess[s]) \cap Tasks(sess[i]) = {}

(* or by mgmt_ipc_handle, which reads it, *)
Reader ==
    /\ cur \in Reqs \cup {NoReq}
    /\ cur # NoReq <=> loop = "read"
    /\ cur # NoReq => conn[cur].at = "held" /\ cur # shutdown_qtask /\ \A s \in Sids : cur \notin Tasks(sess[s])

(* or by the shutdown, *)
Stopper ==
    /\ shutdown_qtask \in Reqs \cup {NoReq}
    /\ shutdown_qtask # NoReq => conn[shutdown_qtask].at = "held" /\ conn[shutdown_qtask].cmd = "stop"

(* or waits in the backlog. *)
Waiters ==
    /\ backlog \in Seq(Reqs)
    /\ \A i \in DOMAIN backlog : conn[backlog[i]].at = "queued"
    /\ \A i, j \in DOMAIN backlog : backlog[i] = backlog[j] => i = j

(* Nobody is held or told that iscsid stopped before it has. *)
Over == loop \in {"final", "exited"}

Ending ==
    /\ Over => backlog = <<>> /\ shutdown_qtask = NoReq /\ \A s \in Sids : Tasks(sess[s]) = {}
    /\ \A q \in Reqs : Told(conn[q]) => Over

Holders == Table(conn) /\ Sessions /\ Reader /\ Stopper /\ Waiters /\ Ending

(* No request is a request of its own. *)
LEMMA NoReqFacts == NoReq \notin Reqs /\ NoReq \notin Sids
BY SMTT(30) DEF NoReq, Reqs, Sids

(* What a session holds are requests. *)
LEMMA TasksAreReqs == ASSUME NEW x, SessRec(x) PROVE Tasks(x) \subseteq Reqs
BY DEF SessRec, Tasks

(* A login that is retried is held. *)
LEMMA RetryHeld ==
  ASSUME Holders, NEW s \in Sids, sess[s].st = "retry"
  PROVE  /\ sess[s].qtask \in Tasks(sess[s]) /\ sess[s].qtask \in Reqs
         /\ conn[sess[s].qtask].at = "held" /\ Wants(conn, sess[s].qtask, sess[s].rec)
<1>1. SessRec(sess[s])
  BY DEF Holders, Sessions
<1>2. sess[s].qtask \in Tasks(sess[s]) /\ sess[s].qtask \in Reqs
  BY <1>1 DEF SessRec, Tasks
<1>3. QED
  BY <1>2 DEF Holders, Sessions

(* iscsid goes on to something else. *)
LEMMA LoopMoves ==
  ASSUME Holders, UNCHANGED <<conn, sess, backlog, cur, shutdown_qtask>>,
         ~ Over, loop' \notin {"read", "final", "exited"}, loop # "read"
  PROVE  Holders'
<1>1. Table(conn)' /\ Sessions'
  BY DEF Holders, Table, Sessions, Wants
<1>2. Reader' /\ Stopper' /\ Waiters'
  BY DEF Holders, Reader, Stopper, Waiters
<1>3. Ending'
  BY DEF Holders, Ending, Over
<1>4. QED
  BY <1>1, <1>2, <1>3 DEF Holders

(* A client or a child does something. *)
LEMMA GentleStep ==
  ASSUME Holders, Gentle(conn, conn'), UNCHANGED <<loop, sess, backlog, cur, shutdown_qtask>>
  PROVE  Holders'
<1>1. Table(conn')
  BY DEF Gentle
<1>2. Sessions'
  <2>1. \A s \in Sids : Tasks(sess[s]) \subseteq Reqs
    BY TasksAreReqs DEF Holders, Sessions
  <2>2. \A s \in Sids : \A q \in Tasks(sess[s]) : conn'[q].at = "held" /\ conn'[q].cmd # "stop"
    BY <2>1 DEF Gentle, Holders, Sessions
  <2>3. \A s \in Sids : sess[s].st = "retry" => Wants(conn', sess[s].qtask, sess[s].rec)
    BY RetryHeld DEF Gentle, Holders, Wants
  <2>4. QED
    BY <2>2, <2>3 DEF Holders, Sessions
<1>3. Reader'
  BY DEF Holders, Reader, Gentle
<1>4. Stopper'
  BY DEF Holders, Stopper, Gentle
<1>5. Waiters'
  <2>1. \A i \in DOMAIN backlog : backlog[i] \in Reqs
    BY SMTT(30) DEF Holders, Waiters
  <2>2. QED
    BY <2>1 DEF Holders, Waiters, Gentle
<1>6. Ending'
  BY DEF Holders, Ending, Over, Gentle
<1>7. QED
  BY <1>1, <1>2, <1>3, <1>4, <1>5, <1>6 DEF Holders, Table

(* A session that was not there is one that may be there. *)
Joins(s) ==
    (\A q \in Reqs : Asks(conn[q])) /\ Running(sess'[s])
    => \/ Running(sess[s]) /\ sess'[s].rec = sess[s].rec
       \/ NrSessions[sess'[s].rec] = 1 => ~ session_is_running(sess'[s].rec)

(* Session s goes on, and q is answered. *)
Moves(s, q, err) ==
    /\ DOMAIN sess' = Sids
    /\ \A i \in Sids \ {s} : sess'[i] = sess[i]
    /\ s \in Sids => /\ SessRec(sess'[s])
                     /\ Tasks(sess'[s]) \subseteq Tasks(sess[s]) \cup {cur}
                     /\ q \notin Tasks(sess'[s])
                     /\ cur \in Tasks(sess'[s]) => conn[cur].cmd # "stop"
                     /\ sess'[s].st = "retry" => Wants(conn, sess'[s].qtask, sess'[s].rec)
                     /\ Joins(s)
    /\ Answered(conn, conn', q, err)
    /\ q \in {cur, NoReq} \/ (s \in Sids /\ q \in Tasks(sess[s]))
    /\ q \in Reqs /\ err = "ok" => conn[q].cmd # "stop"

(* Each request still has one owner afterwards. *)
LEMMA MovesStep ==
  ASSUME Holders, NEW s, NEW q, NEW err, Moves(s, q, err), ~ Over, loop' = "reap",
         cur' = NoReq, UNCHANGED <<backlog, shutdown_qtask>>
  PROVE  Holders'
<1>1. Table(conn') /\ q \in Reqs \cup {NoReq} /\ \A i \in Reqs \ {q} : conn'[i] = conn[i]
  <2>1. s \in Sids => Tasks(sess[s]) \subseteq Reqs
    BY TasksAreReqs DEF Holders, Sessions
  <2>2. QED
    BY <2>1 DEF Moves, Answered, Holders, Reader
<1>2. \A i \in Sids : Tasks(sess[i]) \subseteq Reqs
  BY TasksAreReqs DEF Holders, Sessions
<1>3. \A i \in Sids : NoReq \notin Tasks(sess[i])
  BY DEF Tasks
<1>4. \A i \in Sids \ {s} : q \notin Tasks(sess[i])
  <2>1. CASE q \in {cur, NoReq}
    BY <1>3, <2>1 DEF Holders, Reader
  <2>2. CASE s \in Sids /\ q \in Tasks(sess[s])
    BY <2>2 DEF Holders, Sessions
  <2>3. QED
    BY <2>1, <2>2 DEF Moves
<1>5. q # NoReq => conn[q].at = "held" /\ q # shutdown_qtask
  <2>1. CASE q \in {cur, NoReq}
    BY <2>1 DEF Holders, Reader
  <2>2. CASE s \in Sids /\ q \in Tasks(sess[s])
    BY <2>2 DEF Holders, Sessions, Stopper
  <2>3. QED
    BY <2>1, <2>2 DEF Moves
<1>6. Sessions'
  <2>1. \A i \in Sids : SessRec(sess'[i])
    BY DEF Holders, Sessions, Moves
  <2>2. ASSUME NEW i \in Sids, NEW r \in Tasks(sess'[i]) PROVE conn'[r].at = "held" /\ conn'[r].cmd # "stop"
    <3>1. r \in Reqs /\ r # q
      BY <1>4, <2>1, <2>2, TasksAreReqs DEF Moves
    <3>2. conn'[r] = conn[r]
      BY <1>1, <3>1
    <3>3. r \in Tasks(sess[i]) \/ (r = cur /\ conn[cur].cmd # "stop")
      BY <2>2 DEF Moves
    <3>4. r # NoReq
      BY <3>1, NoReqFacts
    <3>5. QED
      BY <3>2, <3>3, <3>4 DEF Holders, Sessions, Reader
  <2>3. ASSUME NEW i \in Sids, NEW j \in Sids, i # j PROVE Tasks(sess'[i]) \cap Tasks(sess'[j]) = {}
    <3>1. \A r \in Reqs : r = cur => \A k \in Sids : r \notin Tasks(sess[k])
      BY NoReqFacts DEF Holders, Reader
    <3>2. Tasks(sess'[i]) \subseteq Reqs
      BY <2>1, TasksAreReqs
    <3>3. Tasks(sess[i]) \cap Tasks(sess[j]) = {}
      BY <2>3 DEF Holders, Sessions
    <3>4. CASE i = s
      BY <2>3, <3>1, <3>2, <3>3, <3>4 DEF Moves
    <3>5. CASE j = s
      BY <2>3, <3>1, <3>2, <3>3, <3>5 DEF Moves
    <3>6. CASE i # s /\ j # s
      BY <3>3, <3>6 DEF Moves
    <3>7. QED
      BY <3>4, <3>5, <3>6
  <2>4. ASSUME NEW i \in Sids, sess'[i].st = "retry" PROVE Wants(conn', sess'[i].qtask, sess'[i].rec)
    <3>1. Wants(conn, sess'[i].qtask, sess'[i].rec)
      BY <2>4, RetryHeld DEF Moves
    <3>2. sess'[i].qtask \in Tasks(sess'[i]) /\ sess'[i].qtask \in Reqs
      BY <2>1, <2>4 DEF SessRec, Tasks
    <3>3. sess'[i].qtask # q
      BY <1>4, <3>2 DEF Moves
    <3>4. conn'[sess'[i].qtask] = conn[sess'[i].qtask]
      BY <1>1, <3>2, <3>3
    <3>5. QED
      BY <3>1, <3>4 DEF Wants
  <2>5. QED
    BY <2>1, <2>2, <2>3, <2>4 DEF Sessions, Moves
<1>7. Reader'
  BY NoReqFacts DEF Reader
<1>8. Stopper'
  BY <1>1, <1>5 DEF Holders, Stopper
<1>9. Waiters'
  <2>1. \A i \in DOMAIN backlog : backlog[i] \in Reqs
    BY SMTT(30) DEF Holders, Waiters
  <2>2. \A i \in DOMAIN backlog : backlog[i] # q
    BY <1>5, <2>1, NoReqFacts, SMTT(30) DEF Holders, Waiters
  <2>3. QED
    BY <1>1, <2>1, <2>2 DEF Holders, Waiters
<1>10. Ending'
  <2>1. \A i \in Reqs : ~ Told(conn[i])
    BY DEF Holders, Ending
  <2>2. q \in Reqs => ~ Told(conn'[q])
    BY NoConnFacts DEF Moves, Answered, Told
  <2>3. ~ Over'
    BY DEF Over
  <2>4. QED
    BY <1>1, <2>1, <2>2, <2>3 DEF Ending
<1>11. QED
  BY <1>1, <1>6, <1>7, <1>8, <1>9, <1>10 DEF Holders, Table

(* An entry that is not used *)
LEMMA NoSessFacts == SessRec(NoSess) /\ Tasks(NoSess) = {} /\ NoSess.st # "retry" /\ ~ Running(NoSess)
BY DEF SessRec, Tasks, NoSess, SessFields, None, Running

(* sess with the entry of s replaced by x *)
LEMMA EntryOut ==
  ASSUME Holders, NEW s, NEW x, sess' = [sess EXCEPT ![s] = x]
  PROVE  DOMAIN sess' = Sids /\ (\A i \in Sids \ {s} : sess'[i] = sess[i]) /\ (s \in Sids => sess'[s] = x)
BY DEF Holders, Sessions

(* A connection is neither answered nor closed. *)
LEMMA NobodyAnswered ==
  ASSUME Holders, UNCHANGED conn, NEW err
  PROVE  Answered(conn, conn', NoReq, err)
BY NoReqFacts DEF Holders, Answered, Table

(* __session_login_task for the request q: read just now, or retried *)
LEMMA LoginMoves ==
  ASSUME Holders, NEW s, NEW q \in Reqs, NEW r, NEW multiple, Wants(conn, q, r), multiple = conn[q].arg[2],
         q = cur \/ (s \in Sids /\ q = sess[s].qtask /\ sess[s].st = "retry"),
         SessionLogin(s, q, r, multiple) \/ LoginRetry(s, q, r)
  PROVE  \E i, err : Moves(s, i, err)
<1>1. q # NoReq
  BY NoReqFacts
<1>2. s \in Sids /\ q # cur => q \in Tasks(sess[s])
  BY <1>1 DEF Tasks
<1>3. ASSUME NEW err, sess' = [sess EXCEPT ![s] = NoSess], conn' = WriteRsp(conn, q, err), err # "ok" PROVE Moves(s, q, err)
  <2>1. Answered(conn, conn', q, err)
    BY <1>3, AnswerOut DEF Holders
  <2>2. DOMAIN sess' = Sids /\ (\A i \in Sids \ {s} : sess'[i] = sess[i]) /\ (s \in Sids => sess'[s] = NoSess)
    BY <1>3, EntryOut
  <2>3. QED
    BY <1>1, <1>2, <1>3, <2>1, <2>2, NoSessFacts DEF Moves, Joins
<1>4. ASSUME NEW st \in {"connect", "retry"}, sess' = [sess EXCEPT ![s] = [NoSess EXCEPT !.st = st, !.rec = r, !.qtask = q]], UNCHANGED conn,
             st = "retry" \/ ~ session_is_running(r) \/ multiple
      PROVE  Moves(s, NoReq, "err")
  <2> DEFINE x == [NoSess EXCEPT !.st = st, !.rec = r, !.qtask = q]
  <2>1. DOMAIN x = SessFields /\ x.st = st /\ x.rec = r /\ x.qtask = q /\ x.logout_qtask = NoReq
    BY DEF NoSess, SessFields
  <2>2. SessRec(x) /\ Tasks(x) = {q}
    BY <1>1, <2>1, SMTT(30) DEF SessRec, Tasks
  <2> HIDE DEF x
  <2>3. DOMAIN sess' = Sids /\ (\A i \in Sids \ {s} : sess'[i] = sess[i]) /\ (s \in Sids => sess'[s] = x)
    BY <1>4, EntryOut DEF x
  <2>4. Answered(conn, conn', NoReq, "err")
    BY <1>4, NobodyAnswered
  <2>5. conn[q].cmd # "stop"
    BY DEF Wants
  <2>6. (\A i \in Reqs : Asks(conn[i])) /\ multiple => NrSessions[r] # 1
    <3>1. (\A i \in Reqs : Asks(conn[i])) /\ multiple => NrSessions[r] > 1
      BY DEF Asks, Wants
    <3>2. QED
      BY <3>1, SMTT(30)
  <2>7. s \in Sids => Joins(s)
    <3>1. CASE st = "retry"
      <4>1. s \in Sids => ~ Running(sess'[s])
        BY <2>1, <2>3, <3>1, SMTT(30) DEF Running
      <4>2. QED
        BY <4>1 DEF Joins
    <3>2. CASE ~ session_is_running(r) \/ multiple
      BY <2>1, <2>3, <2>6, <3>2 DEF Joins
    <3>3. QED
      BY <1>4, <3>1, <3>2
  <2>8. QED
    BY <1>1, <1>2, <2>1, <2>2, <2>3, <2>4, <2>5, <2>7, NoReqFacts DEF Moves
<1>5. QED
  BY <1>3, <1>4 DEF SessionLogin, LoginRetry

(* The timers and events of a session *)
LEMMA SessionStepMoves ==
  ASSUME Holders, NEW s \in Sids, SessionStep(s)
  PROVE  \E i, err : Moves(s, i, err)
<1> DEFINE x == sess[s]
           q == x.qtask
<1>1. SessRec(x) /\ DOMAIN x = SessFields /\ q \in Reqs \cup {NoReq} /\ x.logout_qtask \in Reqs \cup {NoReq}
  BY DEF Holders, Sessions, SessRec
<1>2. cur = NoReq
  BY DEF SessionStep, Holders, Reader
<1>4. \A i \in Tasks(x) : i \in Reqs /\ conn[i].cmd # "stop"
  BY <1>1, TasksAreReqs DEF Holders, Sessions
<1>5. ASSUME NEW st, NEW err, Answer(s, st, err), st \in {"none", "up"},
             st = "up" => x.logout_qtask = NoReq /\ Running(x)
      PROVE  Moves(s, q, err)
  <2> DEFINE y == IF st = None THEN NoSess ELSE [x EXCEPT !.st = st, !.qtask = NoReq]
  <2>1. SessRec(y) /\ Tasks(y) = {} /\ y.st # "retry" /\ (Running(y) => Running(x) /\ y.rec = x.rec)
    <3>1. CASE st = "none"
      BY <3>1, NoSessFacts, SMTT(30) DEF None
    <3>2. CASE st = "up"
      <4>1. DOMAIN y = SessFields /\ y.st = "up" /\ y.rec = x.rec /\ y.qtask = NoReq /\ y.logout_qtask = NoReq
        BY <1>1, <1>5, <3>2, SMTT(30) DEF SessFields, None
      <4>2. QED
        BY <1>5, <3>2, <4>1, SMTT(30) DEF SessRec, Tasks
    <3>3. QED
      BY <1>5, <3>1, <3>2
  <2> HIDE DEF y
  <2>2. DOMAIN sess' = Sids /\ (\A i \in Sids \ {s} : sess'[i] = sess[i]) /\ (s \in Sids => sess'[s] = y)
    <3>1. sess' = [sess EXCEPT ![s] = y]
      BY <1>5 DEF Answer, y
    <3>2. QED
      BY <3>1, EntryOut
  <2>3. Answered(conn, conn', q, err)
    BY <1>1, <1>5, AnswerOut DEF Answer, Holders
  <2>4. q = NoReq \/ q \in Tasks(x)
    BY DEF Tasks
  <2>5. q \in Reqs => conn[q].cmd # "stop"
    BY <1>4, <2>4, NoReqFacts
  <2>6. QED
    BY <2>1, <2>2, <2>3, <2>4, <2>5 DEF Moves, Joins
<1>6. x.st # "going" => x.logout_qtask = NoReq
  BY <1>1 DEF SessRec
<1>7. CASE x.st = "retry"
  <2>1. CASE Answer(s, None, "err")
    <3>1. Moves(s, q, "err")
      BY <1>5, <2>1 DEF None
    <3>2. QED
      BY <3>1
  <2>2. CASE SessionLogin(s, q, x.rec, conn[q].arg[2])
    <3>1. q \in Reqs
      BY <1>1, <1>7 DEF SessRec
    <3>2. Wants(conn, q, x.rec)
      BY <1>7, RetryHeld
    <3>3. \E i, err : Moves(s, i, err)
      BY <1>7, <2>2, <3>1, <3>2, LoginMoves
    <3>4. QED
      BY <3>3
  <2>3. QED
    BY <1>7, <2>1, <2>2, SMTT(30) DEF SessionStep, SessionSteps
<1>8. CASE x.st \in {"connect", "login", "sync"}
  <2>1. ASSUME NEW st, NEW err, Answer(s, st, err), st \in {"none", "up"} PROVE \E i, e : Moves(s, i, e)
    <3>1. x.logout_qtask = NoReq /\ Running(x)
      BY <1>6, <1>8, SMTT(30) DEF Running
    <3>2. Moves(s, q, err)
      BY <1>5, <2>1, <3>1
    <3>3. QED
      BY <3>2
  <2>2. ASSUME sess' = [sess EXCEPT ![s].st = "login"], UNCHANGED conn PROVE \E i, e : Moves(s, i, e)
    <3> DEFINE y == [x EXCEPT !.st = "login"]
    <3>1. DOMAIN y = SessFields /\ y.st = "login" /\ y.rec = x.rec /\ y.qtask = q /\ y.logout_qtask = x.logout_qtask
      BY <1>1 DEF SessFields
    <3>2. SessRec(y) /\ Tasks(y) = Tasks(x) /\ y.st # "retry" /\ Running(x)
      BY <1>1, <1>6, <1>8, <3>1, SMTT(30) DEF SessRec, Tasks, Running
    <3> HIDE DEF y
    <3>3. DOMAIN sess' = Sids /\ (\A i \in Sids \ {s} : sess'[i] = sess[i]) /\ (s \in Sids => sess'[s] = y)
      <4>1. sess' = [sess EXCEPT ![s] = y]
        BY <2>2 DEF y
      <4>2. QED
        BY <4>1, EntryOut
    <3>4. Answered(conn, conn', NoReq, "err") /\ NoReq \notin Tasks(x)
      BY <2>2, NobodyAnswered DEF Tasks
    <3>5. Moves(s, NoReq, "err")
      BY <1>2, <3>1, <3>2, <3>3, <3>4, NoReqFacts DEF Moves, Joins
    <3>6. QED
      BY <3>5
  <2>3. \/ sess' = [sess EXCEPT ![s].st = "login"] /\ UNCHANGED conn
        \/ Answer(s, None, "err") \/ Answer(s, "up", "ok")
    BY <1>8 DEF SessionStep, SessionSteps
  <2>4. None = "none"
    BY DEF None
  <2>5. QED
    BY <2>1, <2>2, <2>3, <2>4, SMTT(30)
<1>9. CASE x.st = "going"
  <2> DEFINE l == x.logout_qtask
  <2>1. sess' = [sess EXCEPT ![s] = NoSess] /\ conn' = WriteRsp(conn, l, "ok")
    BY <1>9 DEF SessionStep, SessionSteps
  <2>2. Answered(conn, conn', l, "ok")
    BY <1>1, <2>1, AnswerOut DEF Holders
  <2>3. DOMAIN sess' = Sids /\ (\A i \in Sids \ {s} : sess'[i] = sess[i]) /\ (s \in Sids => sess'[s] = NoSess)
    BY <2>1, EntryOut
  <2>4. (l = NoReq \/ l \in Tasks(x)) /\ (l \in Reqs => conn[l].cmd # "stop")
    BY <1>4, NoReqFacts DEF Tasks
  <2>5. Moves(s, l, "ok")
    BY <2>2, <2>3, <2>4, NoSessFacts DEF Moves, Joins
  <2>6. QED
    BY <2>5
<1>10. x.st \in {"retry", "connect", "login", "sync", "going"}
  BY DEF SessionStep, SessionSteps
<1>11. QED
  BY <1>7, <1>8, <1>9, <1>10

(* iscsid keeps what it holds when a session goes on. *)
LEMMA SessionStepHolds ==
  ASSUME Holders, NEW s \in Sids, SessionStep(s)
  PROVE  Holders'
<1>1. ~ Over /\ cur' = NoReq /\ loop' = "reap"
  BY DEF SessionStep, Over, Holders, Reader
<1>2. UNCHANGED <<backlog, shutdown_qtask>>
  BY DEF SessionStep, daemon
<1>3. QED
  BY <1>1, <1>2, SessionStepMoves, MovesStep

(* The handlers of mgmt_ipc.c *)
LEMMA FunctionsMove ==
  ASSUME Holders, cur # NoReq, conn[cur].cmd # "stop", mgmt_ipc_functions(cur)
  PROVE  \E s, q, err : Moves(s, q, err)
<1>1. cur \in Reqs
  BY DEF Holders, Reader
<1>2. ASSUME NEW err, Refuse(cur, err) PROVE Moves(NoReq, cur, err)
  <2>1. Answered(conn, conn', cur, err) /\ sess' = sess
    BY <1>1, <1>2, AnswerOut DEF Refuse, Holders
  <2>2. DOMAIN sess' = Sids
    BY <2>1 DEF Holders, Sessions
  <2>3. QED
    BY <2>1, <2>2, NoReqFacts DEF Moves
<1>3. ASSUME NEW s, NEW y, sess' = [sess EXCEPT ![s] = y], UNCHANGED conn, SessRec(y), Tasks(y) = {cur},
             y.st # "retry", Running(sess[s]), y.rec = sess[s].rec
      PROVE  Moves(s, NoReq, "err")
  <2>1. Answered(conn, conn', NoReq, "err")
    BY <1>3, NobodyAnswered
  <2>2. DOMAIN sess' = Sids /\ (\A i \in Sids \ {s} : sess'[i] = sess[i]) /\ (s \in Sids => sess'[s] = y)
    BY <1>3, EntryOut
  <2>3. QED
    BY <1>1, <1>3, <2>1, <2>2, NoReqFacts DEF Moves, Joins
<1>4. CASE conn[cur].cmd = "login" /\ mgmt_ipc_session_login(cur)
  <2>1. Wants(conn, cur, conn[cur].arg[1])
    BY <1>4 DEF Wants
  <2>2. QED
    BY <1>1, <1>4, <2>1, LoginMoves DEF mgmt_ipc_session_login
<1>5. CASE mgmt_ipc_session_logout(cur)
  <2> DEFINE s == conn[cur].arg
             y == [sess[s] EXCEPT !.st = "going", !.logout_qtask = cur]
  <2>1. CASE \E err : Refuse(cur, err)
    BY <1>2, <2>1
  <2>2. CASE sess[s].st = "up" /\ sess' = [sess EXCEPT ![s] = NoSess] /\ conn' = WriteRsp(conn, cur, "ok")
    <3>1. Answered(conn, conn', cur, "ok")
      BY <1>1, <2>2, AnswerOut DEF Holders
    <3>2. DOMAIN sess' = Sids /\ (\A i \in Sids \ {s} : sess'[i] = sess[i]) /\ (s \in Sids => sess'[s] = NoSess)
      BY <2>2, EntryOut
    <3>3. Moves(s, cur, "ok")
      BY <3>1, <3>2, NoSessFacts DEF Moves, Joins
    <3>4. QED
      BY <3>3
  <2>3. CASE sess[s].st = "up" /\ sess' = [sess EXCEPT ![s].st = "going", ![s].logout_qtask = cur] /\ UNCHANGED conn
    <3>1. CASE s \in Sids
      <4>1. SessRec(sess[s]) /\ DOMAIN sess[s] = SessFields /\ sess[s].qtask = NoReq
        BY <2>3, <3>1 DEF Holders, Sessions, SessRec
      <4>2. DOMAIN y = SessFields /\ y.st = "going" /\ y.rec = sess[s].rec /\ y.qtask = NoReq /\ y.logout_qtask = cur
        BY <4>1, SMTT(30) DEF SessFields
      <4>3. SessRec(y) /\ Tasks(y) = {cur} /\ y.st # "retry" /\ Running(sess[s]) /\ y.rec = sess[s].rec
        BY <1>1, <2>3, <4>2, SMTT(30) DEF SessRec, Tasks, Running
      <4>4. sess' = [sess EXCEPT ![s] = y]
        <5>1. DOMAIN sess = Sids
          BY DEF Holders, Sessions
        <5>2. QED
          BY <2>3, <3>1, <5>1
      <4> HIDE DEF y
      <4>5. Moves(s, NoReq, "err")
        BY <1>3, <2>3, <4>3, <4>4
      <4>6. QED
        BY <4>5
    <3>2. CASE s \notin Sids
      <4>1. DOMAIN sess' = Sids /\ \A i \in Sids : sess'[i] = sess[i]
        BY <2>3, <3>2 DEF Holders, Sessions
      <4>2. Answered(conn, conn', NoReq, "err")
        BY <2>3, NobodyAnswered
      <4>3. Moves(s, NoReq, "err")
        BY <3>2, <4>1, <4>2, NoReqFacts DEF Moves
      <4>4. QED
        BY <4>3
    <3>3. QED
      BY <3>1, <3>2
  <2>4. QED
    BY <1>5, <2>1, <2>2, <2>3 DEF mgmt_ipc_session_logout
<1>6. CASE mgmt_ipc_session_sync(cur)
  <2> DEFINE s == conn[cur].arg
             y == [sess[s] EXCEPT !.st = "sync", !.qtask = cur]
  <2>1. CASE \E err : Refuse(cur, err)
    BY <1>2, <2>1
  <2>2. CASE sess[s].st = "orphan" /\ sess' = [sess EXCEPT ![s].st = "sync", ![s].qtask = cur] /\ UNCHANGED conn
    <3>1. CASE s \in Sids
      <4>1. SessRec(sess[s]) /\ DOMAIN sess[s] = SessFields /\ sess[s].logout_qtask = NoReq
        <5>1. SessRec(sess[s])
          BY <3>1 DEF Holders, Sessions
        <5>2. sess[s].st # "going"
          BY <2>2
        <5>3. QED
          BY <5>1, <5>2 DEF SessRec
      <4>2. DOMAIN y = SessFields /\ y.st = "sync" /\ y.rec = sess[s].rec /\ y.qtask = cur /\ y.logout_qtask = NoReq
        BY <4>1, SMTT(30) DEF SessFields
      <4>3. SessRec(y) /\ Tasks(y) = {cur} /\ y.st # "retry" /\ Running(sess[s]) /\ y.rec = sess[s].rec
        BY <1>1, <2>2, <4>2, SMTT(30) DEF SessRec, Tasks, Running
      <4>4. sess' = [sess EXCEPT ![s] = y]
        <5>1. DOMAIN sess = Sids
          BY DEF Holders, Sessions
        <5>2. QED
          BY <2>2, <3>1, <5>1
      <4> HIDE DEF y
      <4>5. Moves(s, NoReq, "err")
        BY <1>3, <2>2, <4>3, <4>4
      <4>6. QED
        BY <4>5
    <3>2. CASE s \notin Sids
      <4>1. DOMAIN sess' = Sids /\ \A i \in Sids : sess'[i] = sess[i]
        BY <2>2, <3>2, SMTT(30) DEF Holders, Sessions
      <4>2. Answered(conn, conn', NoReq, "err")
        BY <2>2, NobodyAnswered
      <4>3. Moves(s, NoReq, "err")
        BY <3>2, <4>1, <4>2, NoReqFacts DEF Moves
      <4>4. QED
        BY <4>3
    <3>3. QED
      BY <3>1, <3>2
  <2>3. QED
    BY <1>6, <2>1, <2>2 DEF mgmt_ipc_session_sync
<1>7. CASE \/ mgmt_ipc_session_info(cur) \/ mgmt_ipc_cfg(cur) \/ mgmt_ipc_conn_add(cur)
           \/ mgmt_ipc_notify(cur) \/ mgmt_ipc_send_targets(cur)
  <2>1. \E err : Refuse(cur, err)
    BY <1>7 DEF mgmt_ipc_session_info, mgmt_ipc_cfg, mgmt_ipc_conn_add, mgmt_ipc_notify, mgmt_ipc_send_targets
  <2>2. QED
    BY <1>2, <2>1
<1>8. QED
  BY <1>4, <1>5, <1>6, <1>7 DEF mgmt_ipc_functions

(* mgmt_ipc_handle takes the next connection: it is refused, or read from now on. *)
LEMMA AcceptHolds ==
  ASSUME Holders, Accept
  PROVE  Holders'
<1> DEFINE q == Head(backlog)
<1>1. ~ Over /\ ~ Over' /\ cur = NoReq /\ UNCHANGED <<sess, shutdown_qtask>>
  BY DEF Accept, Over, Holders, Reader, daemon
<1>2. q = backlog[1] /\ q \in Reqs /\ conn[q].at = "queued"
  BY SMTT(30) DEF Accept, Holders, Waiters
<1>3. /\ backlog' \in Seq(Reqs)
      /\ \A i \in DOMAIN backlog' : i + 1 \in DOMAIN backlog /\ backlog'[i] = backlog[i + 1] /\ i + 1 # 1
      /\ 1 \in DOMAIN backlog
  BY SMTT(30) DEF Accept, Holders, Waiters
<1>4. \A i \in DOMAIN backlog' : backlog'[i] \in Reqs \ {q} /\ conn[backlog'[i]].at = "queued"
  BY <1>2, <1>3, SMTT(30) DEF Holders, Waiters
<1>5. \A i, j \in DOMAIN backlog' : backlog'[i] = backlog'[j] => i = j
  BY <1>3, SMTT(30) DEF Holders, Waiters
<1>6. /\ Table(conn') /\ \A i \in Reqs \ {q} : conn'[i] = conn[i]
      /\ ~ Told(conn'[q])
      /\ \/ loop' = "reap" /\ cur' = NoReq
         \/ loop' = "read" /\ cur' = q /\ conn'[q].at = "held"
  <2>1. CASE conn' = WriteRsp(conn, q, "err") /\ loop' = "reap" /\ UNCHANGED cur
    <3>1. Answered(conn, conn', q, "err")
      BY <1>2, <2>1, AnswerOut DEF Holders
    <3>2. ~ Told(conn'[q])
      BY <1>2, <3>1, NoConnFacts, SMTT(30) DEF Answered, Told
    <3>3. QED
      BY <1>1, <2>1, <3>1, <3>2 DEF Answered
  <2>2. CASE conn' = [conn EXCEPT ![q].at = "held"] /\ loop' = "read" /\ cur' = q
    <3> DEFINE v == [conn[q] EXCEPT !.at = "held"]
    <3>1. DOMAIN v = ConnFields /\ v.at = "held" /\ v.cmd = conn[q].cmd /\ v.rsp = conn[q].rsp
      BY <1>2 DEF Holders, Table, ConnFields
    <3>2. ~ Told(v)
      BY <1>1, <1>2, <3>1 DEF Told, Holders, Ending
    <3>3. conn' = [conn EXCEPT ![q] = v]
      BY <2>2
    <3> HIDE DEF v
    <3>4. QED
      BY <1>2, <2>2, <3>1, <3>2, <3>3, SMTT(30) DEF Holders, Table
  <2>3. QED
    BY <2>1, <2>2 DEF Accept
<1> HIDE DEF q
<1>7. \A i \in Reqs : conn[i].at = "held" => conn'[i] = conn[i] /\ i # q
  BY <1>2, <1>6
<1>8. \A s \in Sids : Tasks(sess[s]) \subseteq Reqs /\ q \notin Tasks(sess[s])
  BY <1>7, TasksAreReqs DEF Holders, Sessions
<1>9. Sessions'
  <2>1. \A s \in Sids : \A i \in Tasks(sess[s]) : conn'[i].at = "held" /\ conn'[i].cmd # "stop"
    BY <1>7, <1>8 DEF Holders, Sessions
  <2>2. \A s \in Sids : sess[s].st = "retry" => Wants(conn', sess[s].qtask, sess[s].rec)
    BY <1>7, RetryHeld DEF Wants
  <2>3. QED
    BY <1>1, <2>1, <2>2 DEF Holders, Sessions
<1>10. Stopper'
  BY <1>1, <1>7 DEF Holders, Stopper
<1>11. Reader'
  <2>1. q # NoReq /\ q # shutdown_qtask
    BY <1>2, <1>7, NoReqFacts DEF Holders, Stopper
  <2>2. CASE loop' = "reap" /\ cur' = NoReq
    BY <2>2 DEF Reader
  <2>3. CASE loop' = "read" /\ cur' = q /\ conn'[q].at = "held"
    BY <1>1, <1>2, <1>8, <2>1, <2>3 DEF Reader
  <2>4. QED
    BY <1>6, <2>2, <2>3
<1>12. Waiters'
  BY <1>3, <1>4, <1>5, <1>6 DEF Waiters
<1>13. Ending'
  BY <1>1, <1>6 DEF Holders, Ending
<1>14. QED
  BY <1>6, <1>9, <1>10, <1>11, <1>12, <1>13 DEF Holders, Table

(* A handler runs, or the client was gone before it sent anything. *)
LEMMA HandleHolds ==
  ASSUME Holders, Handle
  PROVE  Holders'
<1>1. ~ Over /\ ~ Over' /\ cur \in Reqs /\ cur # NoReq /\ cur' = NoReq /\ loop' = "reap" /\ backlog' = backlog
  BY DEF Handle, Over, Holders, Reader
<1>2. ASSUME conn' = Destroy(conn, cur), UNCHANGED <<sess, shutdown_qtask>> PROVE Holders'
  <2>1. Answered(conn, conn', cur, None) /\ sess' = sess
    BY <1>1, <1>2, AnswerOut DEF Destroy, Holders
  <2>2. None # "ok" /\ DOMAIN sess' = Sids
    BY <2>1 DEF None, Holders, Sessions
  <2>3. Moves(NoReq, cur, None)
    BY <2>1, <2>2, NoReqFacts DEF Moves
  <2>4. QED
    BY <1>1, <1>2, <2>3, MovesStep
<1>3. ASSUME conn[cur].cmd # "stop", mgmt_ipc_functions(cur), UNCHANGED shutdown_qtask PROVE Holders'
  BY <1>1, <1>3, FunctionsMove, MovesStep
<1>4. ASSUME conn[cur].cmd = "stop", event_loop_exit(cur), UNCHANGED <<conn, sess>> PROVE Holders'
  <2>1. shutdown_qtask' = cur /\ conn[cur].at = "held"
    BY <1>1, <1>4 DEF event_loop_exit, Holders, Reader
  <2>2. Sessions' /\ Waiters' /\ Table(conn)'
    BY <1>1, <1>4 DEF Holders, Sessions, Waiters, Table
  <2>3. Reader' /\ Stopper'
    BY <1>1, <1>4, <2>1, SMTT(30) DEF Reader, Stopper
  <2>4. Ending'
    BY <1>1, <1>4 DEF Holders, Ending
  <2>5. QED
    BY <2>2, <2>3, <2>4 DEF Holders
<1>5. QED
  BY <1>2, <1>3, <1>4 DEF Handle

(* Nobody is held any more once the event loop is over. *)
LEMMA OverHolds ==
  ASSUME Table(conn'), Over', cur' = NoReq, shutdown_qtask' = NoReq, backlog' = <<>>,
         DOMAIN sess' = Sids, \A s \in Sids : SessRec(sess'[s]) /\ Tasks(sess'[s]) = {}
  PROVE  Holders'
<1>1. Sessions' /\ Table(conn)'
  <2>1. \A s \in Sids : sess'[s].st # "retry"
    BY DEF SessRec, Tasks
  <2>2. QED
    BY <2>1 DEF Sessions, Table
<1>2. Reader' /\ Stopper' /\ Waiters'
  BY SMTT(30) DEF Reader, Stopper, Waiters, Over
<1>3. Ending'
  BY DEF Ending
<1>4. QED
  BY <1>1, <1>2, <1>3 DEF Holders

(* The end of the event loop answers the stop request and drops the backlog. *)
LEMMA LoopEndHolds ==
  ASSUME Holders, LoopEnd
  PROVE  Holders'
<1> DEFINE answered == WriteRsp(conn, shutdown_qtask, "ok")
<1>1. Table(answered)
  BY AnswerOut DEF Answered, Holders, Stopper
<1>2. \A q \in Reqs : DOMAIN Destroy(answered, q)[q] = ConnFields
  <2>1. \A q \in Reqs : Table(Destroy(answered, q))
    BY <1>1, AnswerOut DEF Answered, Destroy
  <2>2. QED
    BY <2>1 DEF Table
<1>3. Table(conn')
  <2>1. DOMAIN conn' = Reqs /\ \A q \in Reqs : conn'[q] = answered[q] \/ conn'[q] = Destroy(answered, q)[q]
    <3> HIDE DEF answered
    <3>1. LoopEnd => \E B : conn' = [q \in Reqs |-> IF q \in B THEN Destroy(answered, q)[q] ELSE answered[q]]
      BY DEF LoopEnd, answered
    <3>2. QED
      BY <3>1
  <2>2. QED
    BY <1>1, <1>2, <2>1 DEF Table
<1>4. DOMAIN sess' = Sids /\ \A s \in Sids : SessRec(sess'[s]) /\ Tasks(sess'[s]) = {}
  <2> DEFINE x(r) == [NoSess EXCEPT !.st = "orphan", !.rec = r]
  <2>1. \A r : DOMAIN x(r) = SessFields /\ x(r).st = "orphan" /\ x(r).qtask = NoReq /\ x(r).logout_qtask = NoReq
    BY DEF NoSess, SessFields
  <2> HIDE DEF x
  <2>2. \A r : SessRec(x(r)) /\ Tasks(x(r)) = {}
    BY <2>1 DEF SessRec, Tasks
  <2>3. DOMAIN sess' = Sids /\ \A s \in Sids : sess'[s] = NoSess \/ sess'[s] = x(sess[s].rec)
    BY DEF LoopEnd, x
  <2>4. QED
    BY <2>2, <2>3, NoSessFacts
<1>5. Over' /\ cur' = NoReq /\ shutdown_qtask' = NoReq /\ backlog' = <<>>
  BY DEF LoopEnd, Over, event_loop_exit, Holders, Reader
<1>6. QED
  BY <1>3, <1>4, <1>5, OverHolds

(* Exit closes what is still open. *)
LEMMA ExitOut ==
  ASSUME NEW cs, Table(cs)
  PROVE  Table(ExitWith(cs))
<1>1. \A q \in Reqs : Table(Destroy(cs, q))
  BY AnswerOut DEF Answered, Destroy
<1>2. QED
  BY <1>1 DEF Table, ExitWith

(* iscsid is over, and its connections are closed. *)
LEMMA ExitHolds ==
  ASSUME Holders, loop = "final", loop' = "exited", conn' = ExitWith(conn), UNCHANGED <<cur, backlog, sess>>,
         shutdown_qtask' \in {shutdown_qtask, NoReq}
  PROVE  Holders'
<1>1. Over /\ Over' /\ Table(conn')
  BY ExitOut DEF Over, Holders
<1>2. cur' = NoReq /\ shutdown_qtask' = NoReq /\ backlog' = <<>>
  BY <1>1 DEF Holders, Reader, Ending
<1>3. DOMAIN sess' = Sids /\ \A s \in Sids : SessRec(sess'[s]) /\ Tasks(sess'[s]) = {}
  BY <1>1 DEF Holders, Sessions, Ending
<1>4. QED
  BY <1>1, <1>2, <1>3, OverHolds

(* SIGTERM forgets who asked iscsid to stop. *)
LEMMA SigtermHolds ==
  ASSUME Holders, Sigterm
  PROVE  Holders'
<1>1. shutdown_qtask' = NoReq /\ UNCHANGED <<cur, backlog, sess>>
  BY DEF Sigterm, event_loop_exit
<1>2. CASE loop = "final" /\ loop' = "exited" /\ conn' = ExitWith(conn)
  BY <1>1, <1>2, ExitHolds
<1>3. CASE conn' = conn /\ (loop' = loop \/ (loop = "poll" /\ loop' = "reap"))
  <2>1. (Over' <=> Over) /\ (loop' = "read" <=> loop = "read")
    BY <1>3 DEF Over
  <2>2. Sessions' /\ Waiters' /\ Table(conn)'
    BY <1>1, <1>3 DEF Holders, Sessions, Waiters, Table
  <2>3. Reader' /\ Stopper'
    BY <1>1, <1>3, <2>1 DEF Holders, Reader, Stopper
  <2>4. Ending'
    BY <1>1, <1>3, <2>1 DEF Holders, Ending
  <2>5. QED
    BY <2>2, <2>3, <2>4 DEF Holders
<1>4. QED
  BY <1>2, <1>3 DEF Sigterm

(* A request: the new connection goes to the end of the backlog. *)
LEMMA ConnectHolds ==
  ASSUME Holders, NEW p, iscsid_connect(p), UNCHANGED <<loop, cur, sess, shutdown_qtask>>
  PROVE  Holders'
<1>1. CASE UNCHANGED <<conn, backlog>>
  <2>1. Gentle(conn, conn')
    BY <1>1 DEF Holders, Gentle
  <2>2. QED
    BY <1>1, <2>1, GentleStep
<1>2. ASSUME NEW q \in Reqs, NEW a, NEW b, conn[q] = NoConn, backlog' = Append(backlog, q), ~ Over,
             conn' = [conn EXCEPT ![q] = [NoConn EXCEPT !.cmd = a, !.arg = b, !.own = p, !.client = TRUE, !.at = "queued"]]
      PROVE  Holders'
  <2> DEFINE v == [NoConn EXCEPT !.cmd = a, !.arg = b, !.own = p, !.client = TRUE, !.at = "queued"]
  <2>1. DOMAIN v = ConnFields /\ v.at = "queued" /\ ~ Told(v)
    BY DEF NoConn, ConnFields, Told, None
  <2>2. conn' = [conn EXCEPT ![q] = v]
    BY <1>2
  <2> HIDE DEF v
  <2>3. Table(conn') /\ conn'[q] = v /\ \A i \in Reqs \ {q} : conn'[i] = conn[i]
    BY <2>1, <2>2, SMTT(30) DEF Holders, Table
  <2>4. conn[q].at = "none"
    BY <1>2, NoConnFacts, SMTT(30)
  <2>5. \A i \in Reqs : conn[i].at \in {"held", "queued"} => i # q /\ conn'[i] = conn[i]
    BY <2>3, <2>4, SMTT(30)
  <2>6. Sessions'
    <3>1. \A s \in Sids : Tasks(sess[s]) \subseteq Reqs
      BY TasksAreReqs DEF Holders, Sessions
    <3>2. \A s \in Sids : \A i \in Tasks(sess[s]) : conn'[i].at = "held" /\ conn'[i].cmd # "stop"
      BY <2>5, <3>1 DEF Holders, Sessions
    <3>3. \A s \in Sids : sess[s].st = "retry" => Wants(conn', sess[s].qtask, sess[s].rec)
      BY <2>5, RetryHeld DEF Wants
    <3>4. QED
      BY <3>2, <3>3 DEF Holders, Sessions
  <2>7. Reader' /\ Stopper'
    BY <2>5 DEF Holders, Reader, Stopper
  <2>8. Waiters'
    <3>1. \A i \in DOMAIN backlog : backlog[i] \in Reqs /\ conn[backlog[i]].at = "queued"
      BY SMTT(30) DEF Holders, Waiters
    <3>2. backlog \in Seq(Reqs) /\ \A i, j \in DOMAIN backlog : backlog[i] = backlog[j] => i = j
      BY DEF Holders, Waiters
    <3>3. \A i \in DOMAIN backlog : backlog[i] # q /\ conn'[backlog[i]].at = "queued"
      BY <2>5, <3>1
    <3>4. /\ backlog' \in Seq(Reqs)
          /\ \A i \in DOMAIN backlog' : \/ i \in DOMAIN backlog /\ backlog'[i] = backlog[i]
                                        \/ i = Len(backlog) + 1 /\ backlog'[i] = q
      BY <1>2, <3>2, SMTT(30)
    <3>5. QED
      BY <2>1, <2>3, <3>2, <3>3, <3>4 DEF Waiters
  <2>9. Ending'
    BY <1>2, <2>1, <2>3 DEF Holders, Ending, Over
  <2>10. QED
    BY <2>3, <2>6, <2>7, <2>8, <2>9 DEF Holders, Table
<1>3. QED
  BY <1>1, <1>2 DEF iscsid_connect, Over

(* A step of a client or a child: it connects, or it does something to its ends of the connections. *)
LEMMA ProcStepGentle ==
  ASSUME Table(conn), NEW p, ProcStep(p), ~ (Call(p)[1] = "iscsid_request" /\ iscsid_connect(p))
  PROVE  Gentle(conn, conn') /\ backlog' = backlog
<1>1. backlog' = backlog /\ \/ conn' = conn
                            \/ conn' = iscsid_reqs_close(conn, p)
                            \/ \E q : conn' = [conn EXCEPT ![q] = Closed(@)]
                            \/ \E q : conn' = [conn EXCEPT ![q].sent = TRUE]
  <2>1. CASE SessionMgmt(p) \/ Discovery(p)
    BY <2>1 DEF SessionMgmt, Discovery
  <2>2. CASE Requests(p)
    BY <2>2 DEF Requests, iscsid_request_write, iscsid_response, iscsid_reqs_wait
  <2>3. QED
    BY <2>1, <2>2 DEF ProcStep
<1>2. Gentle(conn, conn)
  BY DEF Gentle
<1>3. CASE conn' = conn \/ conn' = iscsid_reqs_close(conn, p)
  <2>1. Gentle(conn, iscsid_reqs_close(conn, p))
    BY ReqsClosed
  <2>2. QED
    BY <1>1, <1>2, <1>3, <2>1
<1>4. ASSUME NEW q, conn' = [conn EXCEPT ![q] = Closed(@)] PROVE Gentle(conn, conn')
  BY <1>4, OneClosed
<1>5. ASSUME NEW q, conn' = [conn EXCEPT ![q].sent = TRUE] PROVE Gentle(conn, conn')
  BY <1>5, SentOut
<1>6. QED
  BY <1>1, <1>3, <1>4, <1>5

(* iscsid keeps what it holds meanwhile. *)
LEMMA ProcStepHolds ==
  ASSUME Holders, NEW p, ProcStep(p)
  PROVE  Holders'
<1>1. UNCHANGED <<loop, cur, sess, shutdown_qtask>>
  BY DEF ProcStep, daemon
<1>2. CASE Call(p)[1] = "iscsid_request" /\ iscsid_connect(p)
  BY <1>1, <1>2, ConnectHolds
<1>3. CASE ~ (Call(p)[1] = "iscsid_request" /\ iscsid_connect(p))
  <2>1. Gentle(conn, conn') /\ backlog' = backlog
    BY <1>3, ProcStepGentle DEF Holders
  <2>2. QED
    BY <1>1, <2>1, GentleStep
<1>4. QED
  BY <1>2, <1>3

(* The connections of a process that ends are closed. *)
LEMMA ExitsHold ==
  ASSUME Holders, NEW p, ChildExit(p) \/ ClientExit(p) \/ ClientKilled(p)
  PROVE  Holders'
<1>1. conn' = iscsid_reqs_close(conn, p) /\ UNCHANGED <<loop, sess, backlog, cur, shutdown_qtask>>
  BY DEF ChildExit, ClientExit, ClientKilled, daemon
<1>2. Gentle(conn, conn')
  BY <1>1, ReqsClosed DEF Holders
<1>3. QED
  BY <1>1, <1>2, GentleStep

(* At the start nobody is connected. *)
LEMMA InitHolds ==
  ASSUME Init
  PROVE  Holders
<1>1. Table(conn) /\ \A q \in Reqs : conn[q] = NoConn
  BY NoConnFacts DEF Init, Table
<1>2. DOMAIN sess = Sids /\ \A s \in Sids : SessRec(sess[s]) /\ Tasks(sess[s]) = {}
  <2> DEFINE x(r) == [NoSess EXCEPT !.st = "orphan", !.rec = r]
  <2>1. \A r : DOMAIN x(r) = SessFields /\ x(r).st = "orphan" /\ x(r).qtask = NoReq /\ x(r).logout_qtask = NoReq
    BY DEF NoSess, SessFields
  <2> HIDE DEF x
  <2>2. \A r : SessRec(x(r)) /\ Tasks(x(r)) = {}
    BY <2>1 DEF SessRec, Tasks
  <2>3. DOMAIN sess = Sids /\ \A s \in Sids : sess[s] = NoSess \/ \E r : sess[s] = x(r)
    BY DEF Init, x
  <2>4. QED
    BY <2>2, <2>3, NoSessFacts
<1>3. Sessions
  <2>1. \A s \in Sids : sess[s].st # "retry"
    BY <1>2 DEF SessRec, Tasks
  <2>2. QED
    BY <1>2, <2>1 DEF Sessions
<1>4. loop = "start" /\ cur = NoReq /\ shutdown_qtask = NoReq /\ backlog = <<>>
  BY DEF Init
<1>5. Reader /\ Stopper /\ Waiters
  BY <1>4, SMTT(30) DEF Reader, Stopper, Waiters
<1>6. Ending
  BY <1>1, <1>4, NoConnFacts, SMTT(30) DEF Ending, Over
<1>7. QED
  BY <1>1, <1>3, <1>5, <1>6 DEF Holders

------------------------------------------------------------------------------
(* The discovery children.                                                  *)

(* Those that run are known to the shutdown, which waits for all of them.   *)
Kids ==
    /\ loop = "start" => \A c \in Children : child[c] = "none"
    /\ \A d \in Discs : child[d] \in {"forked", "live"} => d \in shutdown_callbacks
    /\ loop = "end" \/ Over => shutdown_callbacks = {}

(* Nobody is forked, and the shutdown waits for the same children. *)
LEMMA KidsStay ==
  ASSUME Kids, UNCHANGED shutdown_callbacks, loop' # "start" \/ (loop = "start" /\ UNCHANGED child),
         loop' \in {"end", "final", "exited"} => loop = "end" \/ Over,
         \A d \in Discs : child'[d] \in {"forked", "live"} => child[d] \in {"forked", "live"}
  PROVE  Kids'
<1>1. loop' = "start" => \A c \in Children : child'[c] = "none"
  BY DEF Kids
<1>2. loop' = "end" \/ Over' => shutdown_callbacks' = {}
  BY DEF Kids, Over
<1>3. QED
  BY <1>1, <1>2 DEF Kids

(* main forks the children of the discovery records, and the one that syncs. *)
LEMMA MainKids ==
  ASSUME Main, Kids
  PROVE  Kids'
<1>1. loop' = "enter" /\ shutdown_callbacks' = drecs /\ \A c \in Children : child[c] = "none"
  BY DEF Main, Kids
<1>2. \E S : S \subseteq {Sync} /\ child' = [c \in Children |-> IF c \in drecs \cup S THEN "forked" ELSE child[c]]
  BY DEF Main
<1>3. \A d \in Discs : child'[d] \in {"forked", "live"} => d \in drecs
  BY <1>1, <1>2, SyncAssumption, SMTT(30) DEF Children
<1>4. QED
  BY <1>1, <1>3 DEF Kids, Over

(* The shutdown forgets a child when it has ended. *)
LEMMA LoopTopKids ==
  ASSUME LoopTop, Kids
  PROVE  Kids'
<1>1. CASE UNCHANGED <<shutdown_callbacks, child>> /\ loop' = "poll"
  BY <1>1 DEF Kids, Over
<1>2. CASE shutdown_wait_pids /\ loop' = IF shutdown_callbacks' = {} THEN "end" ELSE "poll"
  <2>1. \A d \in Discs : child'[d] \in {"forked", "live"} => child[d] \in {"forked", "live"} /\ ~ Done(d)
    BY <1>2 DEF shutdown_wait_pids, Children, Done
  <2>2. \A d \in Discs : child'[d] \in {"forked", "live"} => d \in shutdown_callbacks'
    BY <1>2, <2>1 DEF shutdown_wait_pids, Kids
  <2>3. QED
    BY <1>2, <2>2 DEF Kids, Over
<1>3. QED
  BY <1>1, <1>2 DEF LoopTop

(* Every step keeps Kids. *)
LEMMA NextKids ==
  ASSUME Kids, [Next]_vars
  PROVE  Kids'
<1>1. CASE UNCHANGED vars
  BY <1>1 DEF vars, daemon, Kids, Over
<1>2. CASE Main \/ LoopTop
  BY <1>2, MainKids, LoopTopKids
<1>3. ASSUME UNCHANGED <<child, shutdown_callbacks>>,
             \/ loop' = loop
             \/ loop' \in {"top", "reap", "read"}
             \/ loop \in {"end", "final"} /\ loop' \in {"final", "exited"}
      PROVE  Kids'
  BY <1>3 DEF Kids, Over
<1>4. CASE EnterLoop \/ PollTimeout \/ Handle \/ LoopEnd \/ Accept \/ Sigterm \/ \E i \in Sids : SessionStep(i)
  <2>1. UNCHANGED <<child, shutdown_callbacks>>
    BY <1>4 DEF EnterLoop, PollTimeout, Goto, Handle, LoopEnd, Accept, Sigterm, SessionStep, daemon
  <2>2. \/ loop' = loop
        \/ loop' \in {"top", "reap", "read"}
        \/ loop \in {"end", "final"} /\ loop' \in {"final", "exited"}
    BY <1>4 DEF EnterLoop, PollTimeout, Goto, Handle, LoopEnd, Accept, Sigterm, SessionStep
  <2>3. QED
    BY <1>3, <2>1, <2>2
<1>5. CASE (\E p \in Procs : ProcStep(p)) \/ \E p \in Clients : ClientExit(p) \/ ClientKilled(p)
  BY <1>3, <1>5 DEF ProcStep, ClientExit, ClientKilled, daemon
<1>6. CASE reap_proc
  <2>1. loop' = "top" /\ shutdown_callbacks' = shutdown_callbacks
    BY <1>6 DEF reap_proc
  <2>2. \E R : child' = [c \in Children |-> IF c \in R THEN "gone" ELSE child[c]]
    BY <1>6 DEF reap_proc
  <2>3. \A d \in Discs : child'[d] \in {"forked", "live"} => child[d] \in {"forked", "live"}
    BY <2>2 DEF Children
  <2>4. QED
    BY <2>1, <2>3, KidsStay, SMTT(30)
<1>7. CASE iscsid_shutdown
  <2>1. loop = "final" /\ loop' = "exited" /\ shutdown_callbacks' = shutdown_callbacks
    BY <1>7 DEF iscsid_shutdown, daemon
  <2>2. \A d \in Discs : child'[d] \in {"forked", "live"} => child[d] \in {"forked", "live"}
    BY <1>7 DEF iscsid_shutdown, Children
  <2>3. QED
    BY <2>1, <2>2, KidsStay, SMTT(30) DEF Over
<1>8. CASE \E c \in Children : ChildStart(c) \/ ChildExit(c)
  <2>1. PICK c \in Children : ChildStart(c) \/ ChildExit(c)
    BY <1>8
  <2>2. child[c] \in {"forked", "live"} /\ loop' = loop /\ shutdown_callbacks' = shutdown_callbacks
    BY <2>1 DEF ChildStart, ChildExit, daemon
  <2>3. loop # "start"
    BY <2>2 DEF Kids
  <2>4. \E x : child' = [child EXCEPT ![c] = x]
    BY <2>1 DEF ChildStart, ChildExit
  <2>5. \A d \in Discs : child'[d] \in {"forked", "live"} => child[d] \in {"forked", "live"}
    BY <2>2, <2>4, SMTT(30)
  <2>6. QED
    BY <2>2, <2>3, <2>5, KidsStay, SMTT(30) DEF Over
<1>9. QED
  BY <1>1, <1>2, <1>4, <1>5, <1>6, <1>7, <1>8 DEF Next, IscsidStep

(* Every step keeps Holders. *)
LEMMA NextHolders ==
  ASSUME Holders, [Next]_vars
  PROVE  Holders'
<1>1. CASE UNCHANGED vars
  BY <1>1 DEF vars, daemon, Holders, Table, Sessions, Reader, Stopper, Waiters, Ending, Over, Wants
<1>2. CASE Main \/ EnterLoop \/ LoopTop \/ PollTimeout \/ reap_proc
  <2>1. UNCHANGED <<conn, sess, backlog, cur, shutdown_qtask>>
    BY <1>2 DEF Main, EnterLoop, LoopTop, PollTimeout, Goto, reap_proc, daemon
  <2>2. loop \in {"start", "enter", "top", "poll", "reap"} /\ loop' \in {"enter", "top", "poll", "reap", "end"}
    BY <1>2 DEF Main, EnterLoop, LoopTop, PollTimeout, Goto, reap_proc
  <2>3. ~ Over /\ loop' \notin {"read", "final", "exited"} /\ loop # "read"
    BY <2>2 DEF Over
  <2>4. QED
    BY <2>1, <2>3, LoopMoves
<1>3. CASE Handle \/ Accept \/ LoopEnd \/ Sigterm \/ \E i \in Sids : SessionStep(i)
  BY <1>3, HandleHolds, AcceptHolds, LoopEndHolds, SigtermHolds, SessionStepHolds
<1>4. CASE iscsid_shutdown
  BY <1>4, ExitHolds, SMTT(30) DEF iscsid_shutdown, daemon
<1>5. CASE \E p \in Procs : ProcStep(p)
  BY <1>5, ProcStepHolds
<1>6. CASE (\E c \in Children : ChildExit(c)) \/ \E p \in Clients : ClientExit(p) \/ ClientKilled(p)
  BY <1>6, ExitsHold
<1>7. CASE \E c \in Children : ChildStart(c)
  <2>1. UNCHANGED <<loop, conn, sess, backlog, cur, shutdown_qtask>>
    BY <1>7 DEF ChildStart, daemon
  <2>2. Gentle(conn, conn')
    BY <2>1 DEF Holders, Gentle
  <2>3. QED
    BY <2>1, <2>2, GentleStep
<1>8. QED
  BY <1>1, <1>2, <1>3, <1>4, <1>5, <1>6, <1>7 DEF Next, IscsidStep

(* Whoever is told by mgmt_ipc_immediate_stop that iscsid stopped is told so by event_loop after its loop, *)
(* which ends only when shutdown_wait_pids has seen every discovery child end: none is left that could log *)
(* in or out, however the requests of other clients, SIGTERMs and the deaths of clients and children      *)
(* interleave.                                                                                             *)
THEOREM StopIsTheEnd == Spec => []StopMeansStopped
<1>1. Init => Holders /\ Kids
  <2>1. Init => loop = "start" /\ child = [c \in Children |-> "none"]
    BY DEF Init
  <2>2. Init => Kids
    BY <2>1 DEF Kids, Over, Children
  <2>3. QED
    BY <2>2, InitHolds
<1>2. Holders /\ Kids /\ [Next]_vars => (Holders /\ Kids)'
  BY NextHolders, NextKids
<1>3. Holders /\ Kids => StopMeansStopped
  BY DEF Holders, Ending, Told, Kids, StopMeansStopped
<1>4. QED
  BY <1>1, <1>2, <1>3, PTL DEF Spec

------------------------------------------------------------------------------
(* The calls of the processes.                                              *)

(* Nobody is going to ask for one session too many. *)
Proper(calls) == \E X : calls \in Seq(X) /\ \A c \in X : Modest(c)

Progs == DOMAIN prog = Procs /\ \A p \in Procs : Proper(prog[p])

(* Nothing to do is proper, and so is one modest call. *)
LEMMA ProperShort == Proper(<<>>) /\ \A c : Modest(c) => Proper(<<c>>)
<1>1. Proper(<<>>)
  <2> DEFINE a == <<>>  X == {}
  <2>1. a \in Seq(X) /\ \A c \in X : Modest(c)
    BY SMTT(30)
  <2> HIDE DEF a, X
  <2>2. Proper(a)
    BY <2>1 DEF Proper
  <2>3. QED
    BY <2>2 DEF a
<1>2. ASSUME NEW c, Modest(c) PROVE Proper(<<c>>)
  <2> DEFINE a == <<c>>  X == {c}
  <2>1. a \in Seq(X)
    BY SMTT(30)
  <2>2. \A d \in X : Modest(d)
    BY <1>2
  <2> HIDE DEF a, X
  <2>3. Proper(a)
    BY <2>1, <2>2 DEF Proper
  <2>4. QED
    BY <2>3 DEF a
<1>3. QED
  BY <1>1, <1>2

(* And two of them *)
LEMMA ProperPair ==
  ASSUME NEW a, NEW b, Modest(a), Modest(b)
  PROVE  Proper(<<a, b>>)
<1> DEFINE c == <<a, b>>  X == {a, b}
<1>1. c \in Seq(X)
  BY SMTT(30)
<1>2. \A d \in X : Modest(d)
  OBVIOUS
<1> HIDE DEF c, X
<1>3. Proper(c)
  BY <1>1, <1>2 DEF Proper
<1>4. QED
  BY <1>3 DEF c

(* A sequence of as many calls of a kind *)
LEMMA ProperMany ==
  ASSUME NEW n \in Nat, NEW X, NEW calls \in [1..n -> X], \A c \in X : Modest(c)
  PROVE  Proper(calls)
<1>1. calls \in Seq(X)
  BY SMTT(30)
<1>2. QED
  BY <1>1 DEF Proper

(* One after the other *)
LEMMA ProperJoin ==
  ASSUME NEW a, NEW b, Proper(a), Proper(b)
  PROVE  Proper(a \o b)
<1>1. PICK X : a \in Seq(X) /\ \A c \in X : Modest(c)
  BY DEF Proper
<1>2. PICK Y : b \in Seq(Y) /\ \A c \in Y : Modest(c)
  BY DEF Proper
<1> DEFINE Z == X \cup Y
<1>3. a \o b \in Seq(Z)
  <2>1. a \in Seq(Z) /\ b \in Seq(Z)
    <3>1. X \subseteq Z /\ Y \subseteq Z
      OBVIOUS
    <3> HIDE DEF Z
    <3>2. \A S, T, x : S \subseteq T /\ x \in Seq(S) => x \in Seq(T)
      BY SMTT(30)
    <3>3. QED
      BY <1>1, <1>2, <3>1, <3>2
  <2> HIDE DEF Z
  <2>2. QED
    BY <2>1, SMTT(30)
<1>4. \A c \in Z : Modest(c)
  BY <1>1, <1>2
<1> HIDE DEF Z
<1>5. QED
  BY <1>3, <1>4 DEF Proper

(* What a process does next is modest, and so is the rest. *)
LEMMA ProperNext ==
  ASSUME NEW calls, Proper(calls), calls # <<>>
  PROVE  Modest(Head(calls)) /\ Proper(Tail(calls))
<1>1. PICK X : calls \in Seq(X) /\ \A c \in X : Modest(c)
  BY DEF Proper
<1>2. Head(calls) \in X /\ Tail(calls) \in Seq(X)
  BY <1>1, SMTT(30)
<1>3. QED
  BY <1>1, <1>2 DEF Proper

(* A call gives way to the calls that it makes. *)
LEMMA CallsProper ==
  ASSUME Progs, NEW p \in Procs, prog[p] # <<>>, NEW calls, Proper(calls), Calls(p, calls)
  PROVE  Progs'
<1>1. Proper(Tail(prog[p]))
  BY ProperNext DEF Progs
<1>2. Proper(calls \o Tail(prog[p]))
  BY <1>1, ProperJoin
<1> DEFINE v == calls \o Tail(prog[p])
<1>3. prog' = [prog EXCEPT ![p] = v]
  BY DEF Calls
<1>4. Proper(v)
  BY <1>2
<1> HIDE DEF v
<1>5. DOMAIN prog' = Procs /\ \A i \in Procs : prog'[i] = v \/ prog'[i] = prog[i]
  BY <1>3 DEF Progs
<1>6. QED
  BY <1>4, <1>5 DEF Progs

(* A set as a sequence *)
LEMMA WalkOut ==
  ASSUME NEW S, IsFiniteSet(S)
  PROVE  /\ Cardinality(S) \in Nat /\ Walk(S) \in [1..Cardinality(S) -> S]
         /\ IsInjective(Walk(S)) /\ Len(Walk(S)) = Cardinality(S)
<1>1. Cardinality(S) \in Nat /\ ExistsBijection(1..Cardinality(S), S)
  BY FS_CardinalityType
<1>2. \E f \in [1..Cardinality(S) -> S] : IsInjective(f)
  BY <1>1 DEF ExistsBijection, Bijection, Injection, IsInjective
<1>3. Walk(S) \in [1..Cardinality(S) -> S] /\ IsInjective(Walk(S))
  BY <1>2 DEF Walk
<1>4. QED
  BY <1>1, <1>3, SMTT(30)

(* Calls that are none of those *)
LEMMA ModestOthers ==
  ASSUME NEW c, c[1] \notin {"login_portal", "login_multiple", "do_leading_login", "update_session", "iscsid_request"}
  PROVE  Modest(c)
BY DEF Modest

(* A request other than a login *)
LEMMA ModestRequests ==
  ASSUME NEW c, c[1] = "iscsid_request", c[2] # "login"
  PROVE  Modest(c)
BY DEF Modest

(* A call about a record that is not one for another session *)
LEMMA ModestRecords ==
  ASSUME NEW c, c[1] \in {"login_portal", "do_leading_login", "update_session"}, c[2] \in Recs
  PROVE  Modest(c)
BY DEF Modest

(* One call each for the records of a set *)
LEMMA EachProper ==
  ASSUME NEW name \in {"login_portal", "do_leading_login", "update_session"}, NEW S \in SUBSET Recs
  PROVE  Proper(Each(name, S))
<1> DEFINE n == Len(Walk(S))
           X == {<<name, r>> : r \in Recs}
<1>1. IsFiniteSet(S)
  BY RecsAssumption, FS_Subset
<1>2. n \in Nat /\ \A i \in 1..n : Walk(S)[i] \in Recs
  BY <1>1, WalkOut, SMTT(30)
<1>3. \A c \in X : Modest(c)
  <2>1. \A c \in X : c[1] \in {"login_portal", "do_leading_login", "update_session"} /\ c[2] \in Recs
    BY SMTT(30)
  <2>2. QED
    BY <2>1, ModestRecords, SMTT(30)
<1>4. Each(name, S) \in [1..n -> X]
  BY <1>2 DEF Each
<1> HIDE DEF n, X
<1>5. QED
  BY <1>2, <1>3, <1>4, ProperMany

(* One request each, none of them a login, for the sessions of a set *)
LEMMA SessionsProper ==
  ASSUME NEW S \in SUBSET Sids, NEW X, \A c \in X : Modest(c),
         NEW calls \in [1..Len(Walk(S)) -> X]
  PROVE  Proper(calls)
<1>1. IsFiniteSet(S)
  <2>1. IsFiniteSet(Sids)
    BY RecsAssumption, FS_Interval, SMTT(30) DEF Sids
  <2>2. QED
    BY <2>1, FS_Subset
<1>2. Len(Walk(S)) \in Nat
  BY <1>1, WalkOut
<1>3. QED
  BY <1>2, ProperMany

(* The sessions of a set are a sequence of sessions. *)
LEMMA SidsSeq ==
  ASSUME NEW S \in SUBSET Sids
  PROVE  \A i \in 1..Len(Walk(S)) : Walk(S)[i] \in Sids
<1>1. IsFiniteSet(S)
  <2>1. IsFiniteSet(Sids)
    BY RecsAssumption, FS_Interval, SMTT(30) DEF Sids
  <2>2. QED
    BY <2>1, FS_Subset
<1>2. QED
  BY <1>1, WalkOut, SMTT(30)

(* A login that iscsiadm or a child sends on its own asks for another session only of a record that allows it. *)
LEMMA AsyncLoginModest ==
  ASSUME NEW r, NEW m \in BOOLEAN, m => NrSessions[r] > 1
  PROVE  Modest(AsyncLogin(r, m))
BY DEF Modest, AsyncLogin, Multiple

(* iscsi_login_portal *)
LEMMA LoginPortalProper ==
  ASSUME NEW r \in Recs
  PROVE  Proper(iscsi_login_portal(r))
<1> DEFINE k == Cardinality(Matching(r))
           c == AsyncLogin(r, FALSE)
<1>1. k \in Nat
  <2>1. IsFiniteSet(Sids)
    BY RecsAssumption, FS_Interval, SMTT(30) DEF Sids
  <2>2. Matching(r) \subseteq Sids
    BY DEF Matching
  <2>3. QED
    BY <2>1, <2>2, FS_Subset, FS_CardinalityType
<1>2. Modest(c)
  BY AsyncLoginModest
<1>3. iscsi_login_portal(r) = IF k >= NrSessions[r] THEN <<>> ELSE Repeat(c, NrSessions[r] - k)
  BY DEF iscsi_login_portal
<1> HIDE DEF k, c
<1>4. CASE k >= NrSessions[r]
  BY <1>3, <1>4, ProperShort
<1>5. CASE ~ (k >= NrSessions[r])
  <2> DEFINE n == NrSessions[r] - k
             X == {c}
  <2>1. n \in Nat
    BY <1>1, <1>5, RecsAssumption, SMTT(30)
  <2> HIDE DEF n
  <2>2. Repeat(c, n) \in [1..n -> X]
    BY DEF Repeat
  <2>3. \A d \in X : Modest(d)
    BY <1>2
  <2> HIDE DEF X
  <2>4. Proper(Repeat(c, n))
    BY <2>1, <2>2, <2>3, ProperMany
  <2>5. QED
    BY <1>3, <1>5, <2>4 DEF n
<1>6. QED
  BY <1>4, <1>5

(* What a step of a client or a child makes of its calls *)
Goes(p) == prog' = prog \/ \E calls : Proper(calls) /\ Calls(p, calls)

(* One call after another *)
LEMMA GoesOn ==
  ASSUME NEW p, NEW c, Modest(c), Calls(p, <<c>>)
  PROVE  Goes(p)
BY ProperShort DEF Goes

(* Calls that are done *)
LEMMA GoesBy ==
  ASSUME NEW p, Calls(p, <<>>)
  PROVE  Goes(p)
BY ProperShort DEF Goes

(* A client or a child that uses its connections to iscsid *)
LEMMA RequestsGoes ==
  ASSUME NEW p, Requests(p)
  PROVE  Goes(p)
<1>1. \/ prog' = prog
      \/ Calls(p, <<>>)
      \/ \E q, w : Calls(p, <<<<"iscsid_request_write", q, w>>>>)
      \/ \E q, w : Calls(p, <<<<"iscsid_response", q, w>>>>)
  BY DEF Requests, iscsid_connect, iscsid_request_write, iscsid_response, iscsid_reqs_wait
<1>2. ASSUME NEW q, NEW w, Calls(p, <<<<"iscsid_request_write", q, w>>>>) PROVE Goes(p)
  <2> DEFINE c == <<"iscsid_request_write", q, w>>
  <2>1. c[1] = "iscsid_request_write"
    OBVIOUS
  <2>2. Calls(p, <<c>>)
    BY <1>2
  <2> HIDE DEF c
  <2>3. Modest(c)
    BY <2>1 DEF Modest
  <2>4. QED
    BY <2>2, <2>3, GoesOn
<1>3. ASSUME NEW q, NEW w, Calls(p, <<<<"iscsid_response", q, w>>>>) PROVE Goes(p)
  <2> DEFINE c == <<"iscsid_response", q, w>>
  <2>1. c[1] = "iscsid_response"
    OBVIOUS
  <2>2. Calls(p, <<c>>)
    BY <1>3
  <2> HIDE DEF c
  <2>3. Modest(c)
    BY <2>1 DEF Modest
  <2>4. QED
    BY <2>2, <2>3, GoesOn
<1>4. QED
  BY <1>1, <1>2, <1>3, GoesBy DEF Goes

(* The logouts of iscsi_logout_portals *)
LEMMA LogoutsProper ==
  ASSUME NEW recs
  PROVE  Proper(iscsi_logout_portals(recs))
<1> DEFINE S == {s \in Sids : InSysfs(s) /\ sess[s].rec \in recs}
           X == {<<"iscsid_request", "logout", i, "async">> : i \in Sids}
<1>1. S \in SUBSET Sids
  OBVIOUS
<1>2. \A c \in X : Modest(c)
  <2>1. \A c \in X : c[1] = "iscsid_request" /\ c[2] # "login"
    BY SMTT(30)
  <2> HIDE DEF X
  <2>2. QED
    BY <2>1, ModestRequests, SMTT(30)
<1>3. iscsi_logout_portals(recs) = [i \in 1..Len(Walk(S)) |-> <<"iscsid_request", "logout", Walk(S)[i], "async">>]
  BY DEF iscsi_logout_portals
<1> HIDE DEF S
<1>4. iscsi_logout_portals(recs) \in [1..Len(Walk(S)) -> X]
  BY <1>1, <1>3, SidsSeq
<1> HIDE DEF X
<1>5. QED
  BY <1>1, <1>2, <1>4, SessionsProper, SMTT(30)

(* The requests of session_stats *)
LEMMA StatsProper ==
  ASSUME NEW recs
  PROVE  Proper(session_stats(recs))
<1> DEFINE S == {s \in Sids : InSysfs(s) /\ sess[s].rec \in recs}
           X == {<<"iscsid_request", "info", i, "tmo">> : i \in Sids}
<1>1. S \in SUBSET Sids
  OBVIOUS
<1>2. \A c \in X : Modest(c)
  <2>1. \A c \in X : c[1] = "iscsid_request" /\ c[2] # "login"
    BY SMTT(30)
  <2> HIDE DEF X
  <2>2. QED
    BY <2>1, ModestRequests, SMTT(30)
<1>3. session_stats(recs) = [i \in 1..Len(Walk(S)) |-> <<"iscsid_request", "info", Walk(S)[i], "tmo">>]
  BY DEF session_stats
<1> HIDE DEF S
<1>4. session_stats(recs) \in [1..Len(Walk(S)) -> X]
  BY <1>1, <1>3, SidsSeq
<1> HIDE DEF X
<1>5. QED
  BY <1>1, <1>2, <1>4, SessionsProper, SMTT(30)

(* The calls of sync_sessions *)
LEMMA SyncsProper == Proper(sync_sessions)
<1> DEFINE S == {s \in Sids : InSysfs(s)}
           X == {<<"sync_session", i>> : i \in Sids}
<1>1. S \in SUBSET Sids
  OBVIOUS
<1>2. \A c \in X : Modest(c)
  <2>1. \A c \in X : c[1] = "sync_session"
    BY SMTT(30)
  <2> HIDE DEF X
  <2>2. QED
    BY <2>1 DEF Modest
<1>3. sync_sessions = [i \in 1..Len(Walk(S)) |-> <<"sync_session", Walk(S)[i]>>]
  BY DEF sync_sessions
<1> HIDE DEF S
<1>4. sync_sessions \in [1..Len(Walk(S)) -> X]
  BY <1>1, <1>3, SidsSeq
<1> HIDE DEF X
<1>5. QED
  BY <1>1, <1>2, <1>4, SessionsProper, SMTT(30)

(* The calls of session_mgmt.c *)
LEMMA MgmtGoes ==
  ASSUME Progs, NEW p \in Procs, prog[p] # <<>>, SessionMgmt(p)
  PROVE  Goes(p)
<1>1. Modest(Call(p))
  BY ProperNext DEF Progs, Call
<1> DEFINE c == Call(p)
<1>2. \/ c[1] = "login_portal" /\ Calls(p, iscsi_login_portal(c[2]))
      \/ c[1] = "login_multiple" /\ Calls(p, <<AsyncLogin(c[2], TRUE)>>)
      \/ c[1] = "do_leading_login" /\ Calls(p, __do_leading_login(c[2]))
      \/ c[1] = "logout_portals" /\ Calls(p, iscsi_logout_portals(c[2]))
      \/ c[1] = "session_stats" /\ Calls(p, session_stats(c[2]))
      \/ c[1] = "sync_sessions" /\ Calls(p, sync_sessions)
      \/ c[1] = "sync_session" /\ sync_session(p, c[2])
      \/ c[1] = "update_session" /\ Calls(p, update_session(c[2]))
  BY DEF SessionMgmt
<1>3. Modest(c)
  BY <1>1
<1> HIDE DEF c
<1> DEFINE l == <<"login_portal", c[2]>>
<1>4. ASSUME c[2] \in Recs PROVE Modest(l)
  BY <1>4 DEF Modest
<1>5. CASE c[1] = "login_portal" /\ Calls(p, iscsi_login_portal(c[2]))
  <2>1. c[2] \in Recs
    BY <1>3, <1>5, SMTT(30) DEF Modest
  <2>2. QED
    BY <1>5, <2>1, LoginPortalProper DEF Goes
<1>6. CASE c[1] = "login_multiple" /\ Calls(p, <<AsyncLogin(c[2], TRUE)>>)
  <2>1. NrSessions[c[2]] > 1
    BY <1>3, <1>6, SMTT(30) DEF Modest
  <2>2. Modest(AsyncLogin(c[2], TRUE))
    BY <2>1, AsyncLoginModest
  <2>3. QED
    BY <1>6, <2>2, GoesOn
<1>7. CASE c[1] = "do_leading_login" /\ Calls(p, __do_leading_login(c[2]))
  <2>1. c[2] \in Recs
    BY <1>3, <1>7, SMTT(30) DEF Modest
  <2>2. Calls(p, <<>>) \/ Calls(p, <<l>>)
    BY <1>7 DEF __do_leading_login
  <2> HIDE DEF l
  <2>3. QED
    BY <1>4, <2>1, <2>2, GoesOn, GoesBy
<1>8. CASE c[1] = "logout_portals" /\ Calls(p, iscsi_logout_portals(c[2]))
  BY <1>8, LogoutsProper DEF Goes
<1>9. CASE c[1] = "session_stats" /\ Calls(p, session_stats(c[2]))
  BY <1>9, StatsProper DEF Goes
<1>10. CASE c[1] = "sync_sessions" /\ Calls(p, sync_sessions)
  BY <1>10, SyncsProper DEF Goes
<1>11. CASE c[1] = "sync_session" /\ sync_session(p, c[2])
  <2> DEFINE d == <<"iscsid_request", "sync", c[2], "tmo">>
  <2>1. Calls(p, <<>>) \/ Calls(p, <<d>>)
    BY <1>11 DEF sync_session
  <2>2. Modest(d)
    BY DEF Modest
  <2> HIDE DEF d
  <2>3. QED
    BY <2>1, <2>2, GoesOn, GoesBy
<1>12. CASE c[1] = "update_session" /\ Calls(p, update_session(c[2]))
  <2> DEFINE e == <<"reqs_close">>
  <2>1. c[2] \in Recs
    BY <1>3, <1>12, SMTT(30) DEF Modest
  <2>2. Calls(p, <<>>) \/ Calls(p, <<l, e>>)
    BY <1>12 DEF update_session, iscsi_login_portal_nowait
  <2>3. Modest(e)
    BY DEF Modest
  <2> HIDE DEF l, e
  <2>4. Proper(<<l, e>>)
    BY <1>4, <2>1, <2>3, ProperPair
  <2>5. QED
    BY <2>2, <2>4, GoesBy DEF Goes
<1>13. QED
  BY <1>2, <1>5, <1>6, <1>7, <1>8, <1>9, <1>10, <1>11, <1>12

(* The logouts of a list, and the wait for them *)
LEMMA LogoutPortalsProper ==
  ASSUME NEW recs, NEW w \in BOOLEAN
  PROVE  Proper(LogoutPortals(recs, w))
<1> DEFINE a == <<"logout_portals", recs>>
           b == <<IF w THEN "reqs_wait" ELSE "reqs_close">>
<1>1. Modest(a) /\ Modest(b)
  BY DEF Modest
<1>2. LogoutPortals(recs, w) = <<a, b>>
  BY DEF LogoutPortals
<1> HIDE DEF a, b
<1>3. QED
  BY <1>1, <1>2, ProperPair

(* A call that has only a name, and none of those *)
LEMMA NamesModest ==
  \A name \in {"poll", "fall_asleep", "sleep", "discover", "discoveryd_stop", "sync_sessions"} :
    Modest(<<name>>)
BY DEF Modest

(* The calls of a discovery child *)
LEMMA DiscoveryGoes ==
  ASSUME NEW p, Discovery(p)
  PROVE  Goes(p)
<1>1. \/ \E new \in SUBSET Found : update_sessions(p, new)
      \/ \E name \in {"poll", "fall_asleep", "sleep", "discover", "discoveryd_stop"} : Calls(p, <<<<name>>>>)
      \/ Calls(p, <<>>)
      \/ \E recs : Calls(p, LogoutPortals(recs, TRUE))
  BY DEF Discovery, __do_st_disc_and_login, do_st_disc_and_login, discoveryd_stop
<1>2. ASSUME NEW name \in {"poll", "fall_asleep", "sleep", "discover", "discoveryd_stop"}, Calls(p, <<<<name>>>>)
      PROVE  Goes(p)
  BY <1>2, NamesModest, GoesOn
<1>3. ASSUME NEW recs, Calls(p, LogoutPortals(recs, TRUE)) PROVE Goes(p)
  BY <1>3, LogoutPortalsProper DEF Goes
<1>4. ASSUME NEW new \in SUBSET Found, update_sessions(p, new) PROVE Goes(p)
  <2> DEFINE stale == iscsi_targets[p] \ new
             a == Each("update_session", new)
             b == IF stale = {} THEN <<>> ELSE LogoutPortals(stale, FALSE)
             c == <<<<"poll">>>>
  <2>1. Calls(p, a \o b \o c)
    BY <1>4 DEF update_sessions
  <2>2. Proper(a)
    <3>1. new \in SUBSET Recs
      BY RecsAssumption
    <3>2. QED
      BY <3>1, EachProper, SMTT(30)
  <2>3. Proper(b)
    <3>1. Proper(LogoutPortals(stale, FALSE))
      BY LogoutPortalsProper
    <3>2. QED
      BY <3>1, ProperShort
  <2>4. Proper(c)
    BY NamesModest, ProperShort
  <2> HIDE DEF a, b, c
  <2>5. Proper(a \o b)
    BY <2>2, <2>3, ProperJoin
  <2>6. Proper((a \o b) \o c)
    BY <2>4, <2>5, ProperJoin
  <2>7. QED
    BY <2>1, <2>6 DEF Goes
<1>5. QED
  BY <1>1, <1>2, <1>3, <1>4, GoesBy

(* Whatever a client or a child does, its calls stay proper. *)
LEMMA ProcStepProper ==
  ASSUME Progs, NEW p \in Procs, ProcStep(p)
  PROVE  Progs'
<1>1. prog[p] # <<>>
  BY DEF ProcStep
<1>2. Goes(p)
  BY <1>1, RequestsGoes, MgmtGoes, DiscoveryGoes DEF ProcStep
<1>3. CASE prog' = prog
  BY <1>3 DEF Progs
<1>4. ASSUME NEW calls, Proper(calls), Calls(p, calls) PROVE Progs'
  BY <1>1, <1>4, CallsProper
<1>5. QED
  BY <1>2, <1>3, <1>4 DEF Goes

(* SIGTERM wakes children that sleep, children start, and clients die. *)
LEMMA NextProgs ==
  ASSUME Progs, [Next]_vars
  PROVE  Progs'
<1>1. ASSUME prog' = prog PROVE Progs'
  BY <1>1 DEF Progs
<1>2. CASE UNCHANGED vars
  BY <1>1, <1>2 DEF vars
<1>3. CASE Main \/ EnterLoop \/ PollTimeout \/ Handle \/ reap_proc \/ LoopEnd \/ iscsid_shutdown
  BY <1>1, <1>3 DEF Main, EnterLoop, PollTimeout, Goto, Handle, reap_proc, LoopEnd, iscsid_shutdown
<1>4. CASE Accept \/ Sigterm \/ \E i \in Sids : SessionStep(i)
  BY <1>1, <1>4 DEF Accept, Sigterm, SessionStep
<1>5. CASE (\E c \in Children : ChildExit(c)) \/ \E p \in Clients : ClientExit(p)
  BY <1>1, <1>5 DEF ChildExit, ClientExit
<1>6. CASE LoopTop
  <2> DEFINE v == <<<<"discoveryd_stop">>>>
  <2>1. prog' = prog \/ (DOMAIN prog' = Procs /\ \A p \in Procs : prog'[p] = v \/ prog'[p] = prog[p])
    <3>1. prog' = prog \/ \E B : prog' = [p \in Procs |-> IF p \in B THEN v ELSE prog[p]]
      <4>1. CASE prog' = prog
        BY <4>1
      <4>2. CASE shutdown_notify_pids
        <5> DEFINE B == {p \in Procs : p \in shutdown_callbacks /\ child[p] = "live" /\ Sleeping(p)}
        <5>1. prog' = [p \in Procs |-> IF p \in B THEN v ELSE prog[p]]
          BY <4>2 DEF shutdown_notify_pids
        <5>2. QED
          BY <5>1
      <4>3. QED
        BY <1>6, <4>1, <4>2 DEF LoopTop
    <3> HIDE DEF v
    <3>2. QED
      BY <3>1
  <2>2. Proper(v)
    BY NamesModest, ProperShort
  <2> HIDE DEF v
  <2>3. QED
    BY <1>1, <2>1, <2>2 DEF Progs
<1>7. CASE \E p \in Procs : ProcStep(p)
  BY <1>7, ProcStepProper
<1>8. ASSUME NEW p, NEW v, Proper(v), prog' = [prog EXCEPT ![p] = v] PROVE Progs'
  <2>1. DOMAIN prog' = Procs /\ \A i \in Procs : prog'[i] = v \/ prog'[i] = prog[i]
    BY <1>8 DEF Progs
  <2>2. QED
    BY <1>8, <2>1 DEF Progs
<1>9. CASE \E c \in Children : ChildStart(c)
  <2>1. PICK c \in Children : ChildStart(c)
    BY <1>9
  <2> DEFINE name == IF c = Sync THEN "sync_sessions" ELSE "discover"
  <2>2. prog' = [prog EXCEPT ![c] = <<<<name>>>>]
    BY <2>1 DEF ChildStart
  <2>3. Modest(<<name>>)
    BY NamesModest
  <2> HIDE DEF name
  <2>4. QED
    BY <1>8, <2>2, <2>3, ProperShort
<1>10. CASE \E p \in Clients : ClientKilled(p)
  BY <1>8, <1>10, ProperShort DEF ClientKilled
<1>11. QED
  BY <1>2, <1>3, <1>4, <1>5, <1>6, <1>7, <1>9, <1>10 DEF Next, IscsidStep

------------------------------------------------------------------------------
(* The sessions.                                                            *)

(* No request asks for one session too many. *)
Asking == \A q \in Reqs : Asks(conn[q])

(* An answer does not change what was asked. *)
LEMMA AnsweredAsks ==
  ASSUME NEW cs, NEW ct, NEW q, NEW err, Answered(cs, ct, q, err), \A i \in Reqs : Asks(cs[i])
  PROVE  \A i \in Reqs : Asks(ct[i])
BY NoConnFacts DEF Answered, Asks

(* A new connection asks for what its process is about to ask. *)
LEMMA ConnectAsks ==
  ASSUME Holders, Progs, Asking, NEW p \in Procs, prog[p] # <<>>, Call(p)[1] = "iscsid_request", iscsid_connect(p)
  PROVE  Asking'
<1> DEFINE c == Call(p)
<1>1. Modest(c)
  BY ProperNext DEF Progs, Call
<1>2. c[1] = "iscsid_request"
  OBVIOUS
<1>3. conn' = conn \/ \E q \in Reqs : conn' = [conn EXCEPT ![q] =
          [NoConn EXCEPT !.cmd = c[2], !.arg = c[3], !.own = p, !.client = TRUE, !.at = "queued"]]
  BY DEF iscsid_connect
<1> HIDE DEF c
<1> DEFINE v == [NoConn EXCEPT !.cmd = c[2], !.arg = c[3], !.own = p, !.client = TRUE, !.at = "queued"]
<1>4. v.cmd = c[2] /\ v.arg = c[3]
  BY DEF NoConn
<1>5. conn' = conn \/ \E q \in Reqs : conn' = [conn EXCEPT ![q] = v]
  BY <1>3
<1> HIDE DEF v
<1>6. Asks(v)
  BY <1>1, <1>2, <1>4, SMTT(30) DEF Asks, Modest
<1>7. conn' = conn \/ \A i \in Reqs : conn'[i] = v \/ conn'[i] = conn[i]
  BY <1>5 DEF Holders, Table
<1>8. QED
  BY <1>6, <1>7 DEF Asking

(* The connections that are closed at the end, too *)
LEMMA EndAsks ==
  ASSUME Holders, Asking, LoopEnd
  PROVE  Asking'
<1> DEFINE answered == WriteRsp(conn, shutdown_qtask, "ok")
<1>1. Answered(conn, answered, shutdown_qtask, "ok")
  BY AnswerOut DEF Holders, Stopper
<1>2. Table(answered) /\ \A q \in Reqs : Asks(answered[q])
  <2> HIDE DEF answered
  <2>1. Table(answered)
    BY <1>1 DEF Answered
  <2>2. \A q \in Reqs : Asks(answered[q])
    BY <1>1, AnsweredAsks DEF Asking
  <2>3. QED
    BY <2>1, <2>2
<1>3. \A q \in Reqs : Asks(Destroy(answered, q)[q])
  <2>1. \A q \in Reqs : Answered(answered, Destroy(answered, q), q, None)
    BY <1>2, AnswerOut DEF Destroy
  <2>2. QED
    BY <1>2, <2>1, AnsweredAsks
<1>4. \A q \in Reqs : conn'[q] = answered[q] \/ conn'[q] = Destroy(answered, q)[q]
  <2> HIDE DEF answered
  <2>1. \E B : conn' = [q \in Reqs |-> IF q \in B THEN Destroy(answered, q)[q] ELSE answered[q]]
    BY DEF LoopEnd, answered
  <2>2. QED
    BY <2>1
<1>5. QED
  BY <1>2, <1>3, <1>4 DEF Asking

(* And those that exit closes *)
LEMMA ExitAsks ==
  ASSUME Holders, Asking, conn' = ExitWith(conn)
  PROVE  Asking'
<1>1. \A q \in Reqs : Answered(conn, Destroy(conn, q), q, None)
  BY AnswerOut DEF Destroy, Holders
<1>2. \A q \in Reqs : Asks(Destroy(conn, q)[q])
  BY <1>1, AnsweredAsks DEF Asking
<1>3. \A q \in Reqs : conn'[q] = conn[q] \/ conn'[q] = Destroy(conn, q)[q]
  BY DEF ExitWith
<1>4. QED
  BY <1>2, <1>3 DEF Asking

(* A record that allows one session has no more. *)
Single ==
    \A i, j \in Sids : /\ Running(sess[i]) /\ Running(sess[j])
                       /\ sess[i].rec = sess[j].rec /\ NrSessions[sess[i].rec] = 1
                       => i = j

(* session_is_running looks at all of them. *)
LEMMA RunningSeen ==
  \A r : session_is_running(r) <=> \E s \in Sids : Running(sess[s]) /\ sess[s].rec = r
<1>1. \A s : (InList(s) \/ InSysfs(s)) <=> Running(sess[s])
  BY DEF InList, InSysfs, Running
<1>2. QED
  BY <1>1 DEF session_is_running

(* A session that goes on, or one more *)
LEMMA MovesSingle ==
  ASSUME Single, Asking, NEW s, NEW q, NEW err, Moves(s, q, err)
  PROVE  Single' /\ Asking'
<1>1. Asking'
  BY AnsweredAsks DEF Moves, Asking
<1>2. Single'
  <2>1. s \in Sids => Joins(s)
    BY DEF Moves
  <2>2. \A i \in Sids \ {s} : sess'[i] = sess[i]
    BY DEF Moves
  <2>3. ASSUME NEW j \in Sids \ {s}, s \in Sids, Running(sess'[s]), Running(sess[j]), sess'[s].rec = sess[j].rec,
               NrSessions[sess[j].rec] = 1
        PROVE  FALSE
    <3>1. CASE Running(sess[s]) /\ sess'[s].rec = sess[s].rec
      BY <2>3, <3>1 DEF Single
    <3>2. CASE ~ session_is_running(sess'[s].rec)
      BY <2>3, <3>2, RunningSeen
    <3>3. QED
      BY <2>1, <2>3, <3>1, <3>2 DEF Joins, Asking
  <2>4. QED
    BY <2>2, <2>3 DEF Single
<1>3. QED
  BY <1>1, <1>2

(* What the kernel keeps when iscsid ends *)
LEMMA EndSingle ==
  ASSUME Single, LoopEnd
  PROVE  Single'
<1> DEFINE x(r) == [NoSess EXCEPT !.st = "orphan", !.rec = r]
<1>1. \A r : x(r).rec = r
  BY DEF NoSess
<1> HIDE DEF x
<1>2. \A i \in Sids : sess'[i] = NoSess \/ (InSysfs(i) /\ sess'[i] = x(sess[i].rec))
  BY DEF LoopEnd, x
<1>3. \A i : InSysfs(i) => Running(sess[i])
  BY DEF InSysfs, Running
<1>4. \A i \in Sids : Running(sess'[i]) => Running(sess[i]) /\ sess'[i].rec = sess[i].rec
  BY <1>1, <1>2, <1>3, NoSessFacts
<1>5. QED
  BY <1>4 DEF Single

(* Every step keeps a record that allows one session at one. *)
LEMMA NextSingle ==
  ASSUME Holders, Progs, Asking, Single, [Next]_vars
  PROVE  Single' /\ Asking'
<1>1. ASSUME sess' = sess, conn' = conn \/ Gentle(conn, conn') PROVE Single' /\ Asking'
  BY <1>1 DEF Single, Asking, Gentle
<1>2. CASE UNCHANGED vars
  BY <1>1, <1>2 DEF vars
<1>3. CASE Main \/ EnterLoop \/ LoopTop \/ PollTimeout \/ reap_proc
  BY <1>1, <1>3 DEF Main, EnterLoop, LoopTop, PollTimeout, Goto, reap_proc
<1>4. CASE Handle
  <2>1. cur \in Reqs /\ cur # NoReq
    BY <1>4, SMTT(30) DEF Handle, Holders, Reader
  <2>2. ASSUME conn' = Destroy(conn, cur), sess' = sess PROVE Single' /\ Asking'
    <3>1. Answered(conn, conn', cur, None)
      BY <2>1, <2>2, AnswerOut DEF Destroy, Holders
    <3>2. QED
      BY <2>2, <3>1, AnsweredAsks DEF Single, Asking
  <2>3. ASSUME conn[cur].cmd # "stop", mgmt_ipc_functions(cur) PROVE Single' /\ Asking'
    BY <2>1, <2>3, FunctionsMove, MovesSingle
  <2>4. QED
    BY <1>1, <1>4, <2>2, <2>3 DEF Handle
<1>5. CASE Accept
  <2> DEFINE q == Head(backlog)
  <2>1. q \in Reqs /\ sess' = sess
    BY <1>5, SMTT(30) DEF Accept, Holders, Waiters
  <2>2. CASE conn' = WriteRsp(conn, q, "err")
    <3>1. Answered(conn, conn', q, "err")
      BY <2>1, <2>2, AnswerOut DEF Holders
    <3>2. QED
      BY <2>1, <3>1, AnsweredAsks DEF Single, Asking
  <2>3. CASE conn' = [conn EXCEPT ![q].at = "held"]
    <3> DEFINE v == [conn[q] EXCEPT !.at = "held"]
    <3>1. v.cmd = conn[q].cmd /\ v.arg = conn[q].arg
      BY <2>1, SMTT(30) DEF Holders, Table, ConnFields
    <3>2. conn' = [conn EXCEPT ![q] = v]
      BY <2>3
    <3> HIDE DEF v, q
    <3>3. \A i \in Reqs : conn'[i] = conn[i] \/ (i = q /\ conn'[i] = v)
      BY <3>2 DEF Holders, Table
    <3>4. QED
      BY <2>1, <3>1, <3>3 DEF Single, Asking, Asks
  <2>4. QED
    BY <1>5, <2>2, <2>3 DEF Accept
<1>6. CASE LoopEnd
  BY <1>6, EndAsks, EndSingle
<1>7. CASE iscsid_shutdown
  BY <1>7, ExitAsks DEF iscsid_shutdown, Single
<1>8. CASE Sigterm
  BY <1>1, <1>8, ExitAsks DEF Sigterm, Single
<1>9. CASE \E i \in Sids : SessionStep(i)
  BY <1>9, SessionStepMoves, MovesSingle
<1>10. CASE \E p \in Procs : ProcStep(p)
  <2>1. PICK p \in Procs : ProcStep(p)
    BY <1>10
  <2>2. sess' = sess /\ prog[p] # <<>>
    BY <2>1 DEF ProcStep
  <2>3. CASE Call(p)[1] = "iscsid_request" /\ iscsid_connect(p)
    BY <2>2, <2>3, ConnectAsks DEF Single
  <2>4. QED
    BY <1>1, <2>1, <2>2, <2>3, ProcStepGentle DEF Holders
<1>11. CASE (\E c \in Children : ChildExit(c)) \/ \E p \in Clients : ClientExit(p) \/ ClientKilled(p)
  <2>1. sess' = sess /\ \E p : conn' = iscsid_reqs_close(conn, p)
    BY <1>11 DEF ChildExit, ClientExit, ClientKilled
  <2>2. QED
    BY <1>1, <2>1, ReqsClosed DEF Holders
<1>12. CASE \E c \in Children : ChildStart(c)
  BY <1>1, <1>12 DEF ChildStart
<1>13. QED
  BY <1>2, <1>3, <1>4, <1>5, <1>6, <1>7, <1>8, <1>9, <1>10, <1>11, <1>12 DEF Next, IscsidStep

(* An earlier iscsid left one session of a record at most, and the clients run modest scripts. *)
LEMMA InitSingle ==
  ASSUME ModestSetups, Init
  PROVE  Progs /\ Asking /\ Single
<1>1. Asking
  <2>1. \A q \in Reqs : conn[q] = NoConn
    BY DEF Init
  <2>2. QED
    BY <2>1, NoConnFacts DEF Asking
<1>2. PICK setup \in Setups :
        /\ prog = [p \in Procs |-> IF p \in Clients THEN setup.script[p] ELSE <<>>]
        /\ sess = [s \in Sids |-> IF s \in 1..Len(Walk(setup.old))
                                  THEN [NoSess EXCEPT !.st = "orphan", !.rec = Walk(setup.old)[s]] ELSE NoSess]
  BY DEF Init
<1>3. Progs
  <2>1. \A p \in Clients : Proper(setup.script[p])
    BY DEF ModestSetups, Proper
  <2>2. DOMAIN prog = Procs /\ \A p \in Procs : (p \in Clients /\ prog[p] = setup.script[p]) \/ prog[p] = <<>>
    BY <1>2
  <2>3. QED
    BY <2>1, <2>2, ProperShort DEF Progs
<1>4. Single
  <2> DEFINE old == Walk(setup.old)
             n == Cardinality(setup.old)
             x(r) == [NoSess EXCEPT !.st = "orphan", !.rec = r]
  <2>1. n \in Nat /\ old \in [1..n -> setup.old] /\ IsInjective(old) /\ Len(old) = n
    <3>1. IsFiniteSet(setup.old)
      BY DEF ModestSetups
    <3>2. QED
      BY <3>1, WalkOut
  <2>2. \A r : x(r).rec = r
    BY DEF NoSess
  <2> HIDE DEF x, n, old
  <2>3. \A s \in Sids : sess[s] = NoSess \/ (s \in 1..n /\ sess[s] = x(old[s]))
    BY <1>2, <2>1 DEF x, old
  <2>4. \A i, j \in 1..n : old[i] = old[j] => i = j
    BY <2>1 DEF IsInjective
  <2>5. \A s \in Sids : Running(sess[s]) => s \in 1..n /\ sess[s].rec = old[s]
    BY <2>2, <2>3, NoSessFacts
  <2>6. ASSUME NEW i \in Sids, NEW j \in Sids, Running(sess[i]), Running(sess[j]), sess[i].rec = sess[j].rec
        PROVE  i = j
    <3>1. i \in 1..n /\ j \in 1..n /\ old[i] = old[j]
      BY <2>5, <2>6, SMTT(30)
    <3>2. QED
      BY <2>4, <3>1
  <2>7. QED
    BY <2>6 DEF Single
<1>5. QED
  BY <1>1, <1>3, <1>4

(* Where iscsid is, and what its children are *)
Types ==
    /\ loop \in {"start", "enter", "top", "poll", "read", "reap", "end", "final", "exited"}
    /\ DOMAIN child = Children
    /\ \A c \in Children : child[c] \in {"none", "forked", "live", "zombie", "gone"}

(* Every step keeps these types. *)
LEMMA NextTypes ==
  ASSUME Types, [Next]_vars
  PROVE  Types'
<1> DEFINE Loops == {"start", "enter", "top", "poll", "read", "reap", "end", "final", "exited"}
<1>1. loop' \in Loops
  <2>1. CASE Main \/ EnterLoop \/ LoopTop \/ PollTimeout \/ reap_proc
    BY <2>1 DEF Main, EnterLoop, LoopTop, PollTimeout, Goto, reap_proc
  <2>2. CASE Handle \/ LoopEnd \/ iscsid_shutdown \/ Accept \/ \E i \in Sids : SessionStep(i)
    BY <2>2 DEF Handle, LoopEnd, iscsid_shutdown, Accept, SessionStep
  <2>3. CASE Sigterm
    <3>1. loop' = loop \/ loop' \in {"reap", "exited"}
      BY <2>3 DEF Sigterm
    <3>2. QED
      BY <3>1 DEF Types
  <2>4. CASE (\E p \in Procs : ProcStep(p)) \/ UNCHANGED vars
    BY <2>4 DEF ProcStep, vars, Types
  <2>5. CASE (\E c \in Children : ChildStart(c) \/ ChildExit(c)) \/ \E p \in Clients : ClientExit(p) \/ ClientKilled(p)
    BY <2>5 DEF ChildStart, ChildExit, ClientExit, ClientKilled, Types
  <2>6. QED
    BY <2>1, <2>2, <2>3, <2>4, <2>5 DEF Next, IscsidStep
<1> DEFINE States == {"none", "forked", "live", "zombie", "gone"}
<1>2. \/ child' = child
      \/ \E B : child' = [c \in Children |-> IF c \in B THEN "forked" ELSE child[c]]
      \/ \E B : child' = [c \in Children |-> IF c \in B THEN "gone" ELSE child[c]]
      \/ \E c : child' = [child EXCEPT ![c] = "live"] \/ child' = [child EXCEPT ![c] = "zombie"]
  <2>1. CASE Main \/ reap_proc
    BY <2>1 DEF Main, reap_proc
  <2>2. CASE EnterLoop \/ PollTimeout \/ Handle \/ LoopEnd \/ Accept \/ Sigterm \/ \E i \in Sids : SessionStep(i)
    BY <2>2 DEF EnterLoop, PollTimeout, Goto, Handle, LoopEnd, Accept, Sigterm, SessionStep
  <2>3. CASE LoopTop
    <3> DEFINE B == {c \in Children : c \in shutdown_callbacks /\ Done(c)}
    <3>1. child' = child \/ child' = [c \in Children |-> IF c \in B THEN "gone" ELSE child[c]]
      BY <2>3 DEF LoopTop, shutdown_wait_pids
    <3>2. QED
      BY <3>1
  <2>4. CASE iscsid_shutdown
    <3> DEFINE B == {c \in Children : child[c] = "zombie"}
    <3>1. child' = [c \in Children |-> IF c \in B THEN "gone" ELSE child[c]]
      BY <2>4 DEF iscsid_shutdown
    <3>2. QED
      BY <3>1
  <2>5. CASE (\E p \in Procs : ProcStep(p)) \/ UNCHANGED vars \/ \E p \in Clients : ClientExit(p) \/ ClientKilled(p)
    BY <2>5 DEF ProcStep, vars, ClientExit, ClientKilled
  <2>6. CASE \E c \in Children : ChildStart(c) \/ ChildExit(c)
    BY <2>6 DEF ChildStart, ChildExit
  <2>7. QED
    BY <2>1, <2>2, <2>3, <2>4, <2>5, <2>6 DEF Next, IscsidStep
<1>3. DOMAIN child' = Children /\ \A c \in Children : child'[c] \in States
  BY <1>2, SMTT(30) DEF Types
<1>4. QED
  BY <1>1, <1>3 DEF Types

(* One owner for each connection *)
LEMMA HoldersTyped ==
  ASSUME Holders, Types
  PROVE  TypeOK
<1>1. \A q \in Range(backlog) : conn[q].at = "queued"
  BY DEF Range, Holders, Waiters
<1>2. cur # NoReq => conn[cur].at = "held" /\ cur \notin Range(backlog)
  <2>1. cur # NoReq => conn[cur].at = "held"
    BY DEF Holders, Reader
  <2>2. QED
    BY <1>1, <2>1, SMTT(30)
<1>3. \A s \in Sids : \A q \in {sess[s].qtask, sess[s].logout_qtask} \ {NoReq} : conn[q].at = "held"
  BY DEF Holders, Sessions, Tasks
<1>4. shutdown_qtask \in Reqs \cup {NoReq} /\ (shutdown_qtask # NoReq => conn[shutdown_qtask].at = "held")
  BY DEF Holders, Stopper
<1>5. QED
  BY <1>1, <1>2, <1>3, <1>4 DEF TypeOK, Types

(* The sessions of a record, counted *)
LEMMA SingleCounted ==
  ASSUME Single, NEW r, NrSessions[r] = 1
  PROVE  Cardinality({s \in Sids : (InList(s) \/ InSysfs(s)) /\ sess[s].rec = r}) <= 1
<1> DEFINE S == {s \in Sids : (InList(s) \/ InSysfs(s)) /\ sess[s].rec = r}
<1>1. \A s : (InList(s) \/ InSysfs(s)) <=> Running(sess[s])
  BY DEF InList, InSysfs, Running
<1>2. \A i, j \in S : i = j
  BY <1>1 DEF Single
<1> HIDE DEF S
<1>3. CASE S = {}
  <2>1. Cardinality(S) = 0
    BY <1>3, FS_EmptySet
  <2>2. QED
    BY <2>1, SMTT(30) DEF S
<1>4. CASE S # {}
  <2>1. PICK s : s \in S
    BY <1>4
  <2>2. S = {s}
    BY <1>2, <2>1, SMTT(30)
  <2>3. Cardinality(S) = 1
    BY <2>2, FS_Singleton
  <2>4. QED
    BY <2>3, SMTT(30) DEF S
<1>5. QED
  BY <1>3, <1>4

(* A record whose nr_sessions is 1 has one session at most, in iscsid or in the kernel, when no client asks   *)
(* for another one regardless: iscsi_login_portal counts the sessions in sysfs before it sends its logins, and *)
(* other clients, discovery children and syncs may have asked since, but __session_login_task looks again      *)
(* (session_is_running) when it makes the session, after a retry too.  And each connection has one owner.      *)
THEOREM OneSession == ModestSetups /\ Spec => []OneSessionPerRecord
<1>1. ModestSetups /\ Init => Holders /\ Progs /\ Asking /\ Single /\ Types
  <2>1. Init => loop = "start" /\ child = [c \in Children |-> "none"]
    BY DEF Init
  <2>2. Init => Types
    BY <2>1 DEF Types
  <2>3. QED
    BY <2>2, InitHolds, InitSingle
<1>2. Holders /\ Progs /\ Asking /\ Single /\ Types /\ [Next]_vars => (Holders /\ Progs /\ Asking /\ Single /\ Types)'
  BY NextHolders, NextProgs, NextSingle, NextTypes
<1>3. Holders /\ Single /\ Types => OneSessionPerRecord
  BY HoldersTyped, SingleCounted DEF OneSessionPerRecord
<1>4. QED
  BY <1>1, <1>2, <1>3, PTL DEF Spec
====
