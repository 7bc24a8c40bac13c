-------------------------------- MODULE Login --------------------------------
(***************************************************************************)
(* The login negotiation of one connection (usr/login.c) on top of module  *)
(* Auth: the stages, the T bit, the operational keys, and what a login     *)
(* leaves behind for the next one.  It is driven by iscsid (initiator.c,   *)
(* session_conn_poll and iscsi_recv_login_rsp) for a normal session and by *)
(* iscsi_login for a discovery session; both run begin and the first       *)
(* request at once, then answer every response with the next request until *)
(* the full feature phase.  Module Session models the login from outside,  *)
(* by the outcomes this module computes.                                   *)
(*                                                                         *)
(* The target is the environment: it may answer anything.  Lengths are an  *)
(* order preserving abstraction of the source's: 1 is 512, 2 is 8192, 3 is *)
(* 65536, 4 is 262144, 5 the protocol's maximum; 0 and 6 are out of range. *)
(***************************************************************************)
EXTENDS Auth

CONSTANTS
    Cfgs,        \* the node and discovery records of the instance
    SecKeySets,  \* the security keys a response may carry
    OpKeySets,   \* the operational keys a response may carry
    CanFail,     \* the calls that may fail: "text", "send", "rand", "hash"
    MaxLogins    \* bound: login attempts on one session

INITIAL == -1
SECURITY == 0
OP_PARMS == 1
FULL_FEATURE == 3
DefSeg == 2
Lengths == 0 .. 6
Digests == {"NONE", "CRC32C", "CRC32C_NONE", "NONE_CRC32C"}
Transports == {"tcp", "iser", "be2iscsi", "cxgbi"}
SessionKeys == {"InitialR2T", "ImmediateData", "DataPDUInOrder", "DataSequenceInOrder",
                "MaxOutstandingR2T"}
IrrelevantKeys == SessionKeys \cup {"FirstBurstLength", "MaxBurstLength", "MaxConnections"}

Cfg == [type : {"normal", "discovery"}, t : Transports, textNego : BOOLEAN, passwd : BOOLEAN,
        userIn : BOOLEAN, passwdIn : BOOLEAN, algs : SUBSET Algs, hdr : Digests,
        data : Digests, recv : Lengths, xmit : Lengths, first : Lengths, max : Lengths]

\* A response's operational keys, up to and including the first one the code
\* rejects.  first, max, xmit, iRecv and tRecv (the RDMA lengths) are 0 when absent.
OpKeys == [keys : SUBSET SessionKeys, first : Lengths, max : Lengths, xmit : Lengths,
           iRecv : Lengths, tRecv : Lengths, conns : {"absent", "one", "more"},
           hdr : {"absent", "None", "CRC32C", "bad"}, data : {"absent", "None", "CRC32C", "bad"},
           rdma : {"absent", "Yes", "No"}, last : {"none", "erl", "protocol", "unknown"}]

NoOpKeys == [keys |-> {}, first |-> 0, max |-> 0, xmit |-> 0, iRecv |-> 0, tRecv |-> 0,
             conns |-> "absent", hdr |-> "absent", data |-> "absent", rdma |-> "absent",
             last |-> "none"]

ASSUME CfgsAssumption == Cfgs \subseteq Cfg
ASSUME KeySetsAssumption == SecKeySets \subseteq KeyValues /\ OpKeySets \subseteq OpKeys
ASSUME FailAssumption == CanFail \subseteq {"text", "send", "rand", "hash"}
ASSUME LoginsAssumption == MaxLogins \in Nat \ {0}

VARIABLES
    cfg,    \* the record the session was made from
    conn,   \* iscsi_conn_t: stage, partial_response, digests, lengths, address
    irr,    \* iscsi_session_t: irrelevant_keys_bitmap
    acl,    \* the authentication client, session->auth_buffers[0]
    ctx,    \* iscsi_login_context_t and how far the login is
    pdu,    \* the request on the wire
    g       \* history: what this login really did

vars == <<cfg, conn, irr, acl, ctx, pdu, g>>

Outcomes == {"OK", "IO_ERROR", "FAILED", "VERSION_MISMATCH", "NEGOTIATION_FAILED",
             "AUTHENTICATION_FAILED", "REDIRECTION_FAILED", "REDIRECT", "INVALID_PDU"}
NoPdu == [csg |-> INITIAL, nsg |-> INITIAL, T |-> FALSE, auth |-> {}, offer |-> FALSE,
          digests |-> FALSE, irr |-> {}]
-----------------------------------------------------------------------------
(* Setting a session up. *)

Insists(c) == c.userIn \/ c.passwdIn

\* iscsi_setup_authentication refuses incoming credentials without outgoing
\* ones and then leaves the session as calloc made it.  __session_create goes
\* on regardless; init_new_session of discovery gives up.
Refused(c) == Insists(c) /\ ~ c.passwd
Bidirectional(c) == Insists(c) /\ c.passwd
AuthBuffers(c) == ~ Refused(c) /\ (c.passwd \/ c.passwdIn)
Credentials(c) == c.userIn /\ c.passwdIn

Rdma(c) == c.t = "iser"
InRange(v, default) == IF v \in 1 .. 5 THEN v ELSE default
AtMost(v, limit) == IF v > limit THEN limit ELSE v

\* The transport's create_conn: what the hardware cannot do is not offered.
CreateConn(c, p) ==
    CASE c.t = "iser" -> [p EXCEPT !.hdr = "NONE"]
      [] c.t = "be2iscsi" -> [p EXCEPT !.recv = AtMost(@, 3), !.first = AtMost(@, 2),
                                       !.max = AtMost(@, 4), !.xmit = AtMost(@, 3)]
      [] c.t = "cxgbi" -> [p EXCEPT !.recv = AtMost(@, 2)]
      [] OTHER -> p

\* iscsi_copy_operational_params.  The corrections it writes back to the
\* record are the ones it would make again.
CopyOperationalParams(c) ==
    LET max == InRange(c.max, 5)
        first == AtMost(InRange(c.first, 4), max)
        recv == InRange(c.recv, 4)
        disc == c.type = "discovery"
    IN  CreateConn(c, [hdr |-> IF disc THEN "NONE" ELSE c.hdr,
                       data |-> IF disc THEN "NONE" ELSE c.data,
                       recv |-> IF disc /\ c.textNego THEN AtMost(recv, DefSeg) ELSE recv,
                       xmit |-> IF c.xmit = 0 THEN DefSeg ELSE InRange(c.xmit, 4),
                       first |-> first, max |-> max])
-----------------------------------------------------------------------------
(* The requests. *)

\* Where a security request that sets the T bit wants to go.
SecurityNext(c, p) ==
    IF c.type = "discovery" /\ p.hdr = "NONE" /\ p.data = "NONE" /\ p.recv = DefSeg
    THEN FULL_FEATURE ELSE OP_PARMS

\* fill_security_params_text
SecurityPdu(c, p, a) ==
    [csg |-> SECURITY, nsg |-> IF a.sendT THEN SecurityNext(c, p) ELSE SECURITY,
     T |-> a.sendT, auth |-> a.sendKeys, offer |-> FALSE, digests |-> FALSE, irr |-> {}]

\* fill_op_params_text: the keys are offered in the first request of the stage;
\* later ones only answer keys that do not apply to a discovery session.  The
\* digests go with the first request, over RDMA with every one but the first.
OpParmsPdu(c, partial, keys) ==
    [csg |-> OP_PARMS, nsg |-> FULL_FEATURE, T |-> TRUE, auth |-> {}, offer |-> ~ partial,
     digests |-> partial = (c.type = "normal" /\ Rdma(c)),
     irr |-> IF partial THEN keys ELSE {}]

\* iscsi_make_login_pdu settles the stage of the first request.
RequestStage(c, stage) ==
    IF stage # INITIAL THEN stage ELSE IF AuthBuffers(c) THEN SECURITY ELSE OP_PARMS

\* iscsi_login_req: the next request, or the end of this login.
LoginReq(cn, a, keys, received, f, gh) ==
    LET stage == RequestStage(cfg, cn.stage)
        known == stage \in {SECURITY, OP_PARMS}
        req == IF stage = SECURITY THEN SecurityPdu(cfg, cn.par, a)
               ELSE OpParmsPdu(cfg, cn.partial, keys)
        sent == known /\ {"text", "send"} \cap f = {}
    IN  /\ conn' = [cn EXCEPT !.stage = stage]
        /\ pdu' = IF sent THEN req ELSE NoPdu
        /\ ctx' = [ctx EXCEPT
               !.st = IF sent THEN "wait" ELSE "ended",
               !.ret = IF known /\ "text" \notin f /\ "send" \in f THEN "IO_ERROR" ELSE "FAILED",
               !.count = IF cn.stage = INITIAL THEN @ + 1 ELSE @,
               !.cls = "success",
               !.tmo = IF received /\ stage = SECURITY THEN "auth" ELSE "login"]
        /\ g' = IF ~ sent THEN gh
                ELSE [gh EXCEPT !.turn = ~ @,
                                !.offers = IF req.offer THEN @ + 1 ELSE @,
                                !.digests = IF req.digests /\ @ < 2 THEN @ + 1 ELSE @,
                                !.answered = @ \/ "CHAP_R" \in req.auth]

\* check_for_authentication
ConfiguredClient(c) ==
    AclSetAuthRmt(AclSetChapAlgList(AclSetPasswd(AclInit), c.algs), Bidirectional(c))

\* turn tells a request from the one before it; digests counts to two.
NoHistory == [offers |-> 0, digests |-> 0, answered |-> FALSE, proved |-> FALSE, 
              declared |-> 6, turn |-> FALSE]

\* Every login starts from the configured parameters again.
FreshConn ==
    [conn EXCEPT !.par = CopyOperationalParams(cfg), !.stage = INITIAL, !.partial = FALSE]

\* A login attempt: iscsi_login_begin and the first request.
Begin(f) ==
    LET a == IF AuthBuffers(cfg) THEN ConfiguredClient(cfg) ELSE AclInit
        cn == FreshConn
    IN  /\ ctx.st # "wait" /\ ctx.count < MaxLogins
        /\ acl' = a
        /\ UNCHANGED <<cfg, irr>>
        /\ IF a.phase = "ERROR"
           THEN /\ conn' = cn /\ pdu' = NoPdu /\ g' = NoHistory
                /\ ctx' = [ctx EXCEPT !.st = "ended", !.ret = "FAILED", !.cls = "success",
                                      !.count = @ + 1]
           ELSE LoginReq(cn, a, irr, FALSE, f, NoHistory)
-----------------------------------------------------------------------------
(* The responses. *)

\* A digest key must be a value we offered.
BadDigestAccepted(mine, v) == v \in {"absent", "None", "CRC32C"}
DigestAccepted(mine, v) ==
    v \in {"absent", "None", "CRC32C"} /\ (v = "None" => mine # "CRC32C")
                                       /\ (v = "CRC32C" => mine # "NONE")
Digest(mine, v) ==
    CASE v = "None" -> "NONE" [] v = "CRC32C" -> "CRC32C" [] OTHER -> mine

OpAccepted(c, p, k) ==
    /\ DigestAccepted(p.hdr, k.hdr) /\ DigestAccepted(p.data, k.data)
    /\ c.type = "normal" => k.conns # "more"
    /\ Rdma(c) => k.rdma # "No"
    /\ k.last = "none"

\* What get_op_params_text_keys leaves of the lengths and the digests.  The
\* node record of a discovery session is empty: the target's length counts.
Lowered(mine, theirs) == IF theirs = 0 THEN mine ELSE AtMost(mine, theirs)
OpParams(c, p, k) ==
    LET plain == c.type = "discovery" \/ ~ Rdma(c)
        normal == c.type = "normal"
        x == IF ~ plain \/ k.xmit = 0 THEN p.xmit
             ELSE IF ~ normal \/ c.xmit = 0 \/ k.xmit < p.xmit THEN k.xmit ELSE p.xmit
    IN  [hdr |-> IF DigestAccepted(p.hdr, k.hdr) THEN Digest(p.hdr, k.hdr) ELSE p.hdr,
         data |-> IF DigestAccepted(p.data, k.data) THEN Digest(p.data, k.data) ELSE p.data,
         recv |-> IF Rdma(c) THEN Lowered(p.recv, k.iRecv) ELSE p.recv,
         xmit |-> IF Rdma(c) THEN Lowered(x, k.tRecv) ELSE x,
         first |-> IF normal /\ k.first # 0 THEN k.first ELSE p.first,
         max |-> IF normal /\ k.max # 0 THEN k.max ELSE p.max]

\* The keys a discovery session has no use for, to be answered Irrelevant.
Irrelevant(k) ==
    k.keys \cup (IF k.first # 0 THEN {"FirstBurstLength"} ELSE {})
           \cup (IF k.max # 0 THEN {"MaxBurstLength"} ELSE {})
           \cup (IF k.conns # "absent" THEN {"MaxConnections"} ELSE {})

\* A login response.  kind is what is wrong with it: "timeout" (none came),
\* "io_error" (none could be read), "draft8" and "opcode" (not a login
\* response), "too_big" (no room for the terminating NUL), "version", "address"
\* (a TargetAddress that does not resolve), "unknown" (a key that has no place
\* in the security stage), "flaw" (a key twice, or too much text).
Rsp(kind, cls, csg, t, nsg, sec, op) ==
    [kind |-> kind, cls |-> cls, csg |-> csg, T |-> t, nsg |-> nsg, sec |-> sec, op |-> op]

Moves == {<<FALSE, SECURITY>>} \cup {<<TRUE, n>> : n \in 0 .. 3}
NotAResponse == {"timeout", "io_error", "draft8", "opcode"}
Classes == {"success", "redirect", "initiator_err", "target_err"}

\* iscsi_process_login_response: its verdict, and the state it leaves.  The
\* sanity checks of the header are for a response that claims success.
HeaderVerdict(r) ==
    CASE r.kind = "too_big" -> "FAILED"
      [] r.kind # "too_big" /\ r.cls # "success" -> "OK"
      [] r.kind = "version" /\ r.cls = "success" -> "VERSION_MISMATCH"
      [] OTHER -> IF r.csg # conn.stage \/ (r.T /\ r.nsg <= conn.stage)
                  THEN "INVALID_PDU" ELSE "OK"

\* The text keys and, in the security stage, acl_recv_begin to acl_recv_end.
ScannedAcl(r, f) ==
    LET b == AclRecvBegin(acl)
    IN  IF conn.stage # SECURITY THEN acl
        ELSE IF b.phase = "ERROR" \/ r.kind \in {"address", "unknown"} THEN b
        ELSE AclRecvEnd(b, r.T, r.sec, r.kind = "flaw", Credentials(cfg), f)

TextVerdict(r, a) ==
    CASE conn.stage = SECURITY /\ AclRecvBegin(acl).phase = "ERROR" -> "FAILED"
      [] r.kind = "address" -> "REDIRECTION_FAILED"
      [] r.kind = "unknown" -> "NEGOTIATION_FAILED"
      [] conn.stage = SECURITY /\ AuthStatus(a) \notin {"CONTINUE", "PASS"} ->
           "AUTHENTICATION_FAILED"
      [] conn.stage = OP_PARMS /\ r.op.last = "protocol" -> "VERSION_MISMATCH"
      [] conn.stage = OP_PARMS /\ ~ OpAccepted(cfg, conn.par, r.op) -> "NEGOTIATION_FAILED"
      [] OTHER -> "OK"

\* What a response leaves in the connection and in irrelevant_keys_bitmap.
BadScannedConn(r, ok) ==
    LET p == IF conn.stage = OP_PARMS THEN OpParams(cfg, conn.par, r.op) ELSE conn.par
    IN  IF ~ ok THEN [conn EXCEPT !.par = p]
        ELSE [conn EXCEPT !.par = p, !.partial = @ \/ ~ r.T, !.stage = IF r.T THEN r.nsg ELSE @]

ScannedConn(r, ok) ==
    LET p == IF conn.stage = OP_PARMS THEN OpParams(cfg, conn.par, r.op) ELSE conn.par
    IN  IF ~ ok THEN [conn EXCEPT !.par = p]
        ELSE [conn EXCEPT !.par = p, !.partial = ~ r.T, !.stage = IF r.T THEN r.nsg ELSE @]

ScannedIrr(r, ok) ==
    IF ok /\ r.T THEN {}
    ELSE IF cfg.type = "discovery" THEN irr \cup Irrelevant(r.op) ELSE irr

\* The history: the target answered the challenge of the request, and the
\* segment length it declared last.
Observed(r) ==
    [g EXCEPT !.proved = @ \/ (/\ "CHAP_C" \in pdu.auth /\ r.sec["CHAP_R"] = "right"
                               /\ r.sec["CHAP_N"] = "ok"),
              !.declared = IF r.op.xmit = 0 THEN @ ELSE r.op.xmit]

Unread(kind) ==
    CASE kind = "timeout" -> "FAILED" [] kind = "io_error" -> "IO_ERROR"
      [] kind = "draft8" -> "VERSION_MISMATCH" [] kind = "opcode" -> "INVALID_PDU"

End(ret, cls) ==
    /\ ctx' = [ctx EXCEPT !.st = "ended", !.ret = ret, !.cls = cls]
    /\ pdu' = NoPdu

\* iscsi_login_rsp and, as iscsi_recv_login_rsp and iscsi_login do, the next
\* request unless the login is over.
LoginRsp(r, f) ==
    LET head == HeaderVerdict(r)
        a == ScannedAcl(r, f)
        ret == IF head # "OK" THEN head ELSE TextVerdict(r, a)
        scanned == r.cls \in {"success", "redirect"} /\ head = "OK"
        cn == ScannedConn(r, ret = "OK")
    IN  /\ ctx.st = "wait"
        /\ UNCHANGED cfg
        /\ IF r.kind \in NotAResponse
           THEN UNCHANGED <<conn, irr, acl, g>> /\ End(Unread(r.kind), ctx.cls)
           ELSE IF ~ scanned
           THEN /\ UNCHANGED <<conn, irr, acl, g>>
                /\ End(CASE r.cls = "success" -> head
                         [] r.cls = "redirect" -> "REDIRECT"
                         [] OTHER -> "OK", r.cls)
           ELSE /\ acl' = a
                /\ irr' = ScannedIrr(r, ret = "OK")
                /\ IF r.cls = "redirect" \/ ret # "OK"
                   THEN /\ conn' = cn /\ g' = Observed(r)
                        /\ End(IF r.cls = "redirect" THEN "REDIRECT" ELSE ret, r.cls)
                   ELSE IF cn.stage = FULL_FEATURE
                   THEN /\ conn' = cn /\ g' = Observed(r) /\ pdu' = NoPdu
                        /\ ctx' = [ctx EXCEPT !.st = "full", !.ret = "OK", !.cls = "success"]
                   ELSE LoginReq(cn, a, irr', TRUE, f, Observed(r))
-----------------------------------------------------------------------------
Init ==
    /\ cfg \in {c \in Cfgs : c.type = "discovery" => ~ Refused(c)}
    /\ conn = [stage |-> INITIAL, partial |-> FALSE, par |-> CopyOperationalParams(cfg)]
    /\ irr = {}
    /\ acl = AclInit
    /\ ctx = [st |-> "idle", ret |-> "FAILED", cls |-> "success",
              count |-> 0, tmo |-> "login"]
    /\ pdu = NoPdu
    /\ g = NoHistory

\* The calls that may fail now: random numbers and digests only in the security stage.
Fails ==
    {{}} \cup {{c} : c \in IF conn.stage = SECURITY THEN CanFail
                         ELSE CanFail \cap {"text", "send"}}

Start == \E f \in Fails : Begin(f)
\* A successful response with its keys; any other one; none.
Receive ==
    \/ \E m \in Moves, sec \in IF conn.stage = SECURITY THEN SecKeySets ELSE {NoKeys},
          op \in IF conn.stage = OP_PARMS THEN OpKeySets ELSE {NoOpKeys} :
          LET r == Rsp("ok", "success", conn.stage, m[1], m[2], sec, op)
          IN  \E f \in Fails : LoginRsp(r, f)
    \/ \E kind \in {"ok", "too_big", "version", "address", "unknown", "flaw"},
          cls \in Classes, csg \in {SECURITY, OP_PARMS}, t \in BOOLEAN :
          LoginRsp(Rsp(kind, cls, csg, t, FULL_FEATURE, NoKeys, NoOpKeys), {})
    \/ \E kind \in NotAResponse :
          LoginRsp(Rsp(kind, "success", conn.stage, FALSE, SECURITY, NoKeys, NoOpKeys), {})

Next == Start \/ Receive

Spec == Init /\ [][Next]_vars

\* Weak fairness of Receive, stated by its guard (only Receive is possible
\* while a response is awaited): the target answers, or the wait times out.
FairSpec == Spec /\ (<>[](ctx.st = "wait") => []<><<ctx.st = "wait">>_vars)
-----------------------------------------------------------------------------
(* Properties. *)

\* The state is well typed: stages, digests and lengths the code knows.
TypeOK ==
    /\ cfg \in Cfg
    /\ conn.stage \in -1 .. 3 /\ conn.partial \in BOOLEAN
    /\ conn.par \in [hdr : Digests, data : Digests, recv : Lengths, xmit : Lengths,
                     first : Lengths, max : Lengths]
    /\ irr \in SUBSET IrrelevantKeys
    /\ acl \in Client
    /\ ctx \in [st : {"idle", "wait", "full", "ended"}, ret : Outcomes, count : 0 .. MaxLogins,
                cls : Classes,
                tmo : {"auth", "login"}]
    /\ pdu \in [csg : -1 .. 1, nsg : -1 .. 3, T : BOOLEAN, auth : SUBSET KeyTypes,
                offer : BOOLEAN, digests : BOOLEAN, irr : SUBSET IrrelevantKeys]
    /\ g \in [offers : Nat, digests : 0 .. 2, answered : BOOLEAN, proved : BOOLEAN,
              declared : Lengths, turn : BOOLEAN]

\* A session that authenticates leaves the security stage only after the
\* authentication client passed; when it authenticates the target too, only
\* after the target answered our challenge with the incoming secret; and when
\* CHAP was negotiated, only after we sent our own answer.  Our challenge is as long
\* as the digest the two sides agreed on, in every request that carries one
\* (acl_recv_end: acl_local_auth before acl_rmt_auth).
SecurityStageCompletes ==
    /\ AuthBuffers(cfg) /\ conn.stage > SECURITY =>
        /\ acl.phase = "DONE" /\ acl.status = "PASS"
        /\ Bidirectional(cfg) => g.proved
        /\ acl.method = "CHAP" => g.answered
    /\ "CHAP_C" \in pdu.auth => acl.alg \in cfg.algs /\ acl.chalLen = DigestLen[acl.alg]

\* While the operational stage is negotiated the keys have been offered once
\* and only once, however many partial responses either stage had; so have the
\* digests, except over RDMA, which repeats them in every later request.  And
\* whatever an earlier login on this session negotiated, an offer is the
\* configured one again and legal: lengths in range, FirstBurstLength at most
\* MaxBurstLength, digests those of the record unless the transport has none.
OfferedRight ==
    /\ ctx.st = "wait" /\ conn.stage = OP_PARMS =>
        /\ g.offers = 1
        /\ cfg.type = "discovery" \/ ~ Rdma(cfg) => g.digests = 1
    /\ pdu.offer =>
        /\ {conn.par.recv, conn.par.first, conn.par.max} \subseteq 1 .. 5
        /\ conn.par.first <= conn.par.max
        /\ cfg.type = "normal" => /\ conn.par.hdr = IF Rdma(cfg) THEN "NONE" ELSE cfg.hdr
                                  /\ conn.par.data = cfg.data

\* In the full feature phase we never send segments longer than the target last
\* declared, or than the record allows, and use no digest the record forbids.
AgreedLimitsHold ==
    /\ TypeOK
    /\ ctx.st = "full" =>
        /\ ~ Rdma(cfg) => conn.par.xmit <= g.declared
        /\ cfg.type = "normal" /\ cfg.xmit # 0 => conn.par.xmit <= InRange(cfg.xmit, 4)
        /\ \A p \in {<<cfg.hdr, conn.par.hdr>>, <<cfg.data, conn.par.data>>} :
               cfg.type = "normal" /\ ~ Rdma(cfg) /\ p[1] \in {"NONE", "CRC32C"} => p[2] = p[1]

\* A target that keeps answering cannot keep a login in the security stage
\* (AUTH_RECV_END_MAX_COUNT).
SecurityEnds ==
    (ctx.st = "wait" /\ conn.stage = SECURITY) ~> ~ (ctx.st = "wait" /\ conn.stage = SECURITY)

=============================================================================
