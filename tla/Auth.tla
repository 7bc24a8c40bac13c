-------------------------------- MODULE Auth --------------------------------
(***************************************************************************)
(* The initiator's side of the iSCSI security stage (usr/auth.c): AuthMethod *)
(* negotiation and CHAP, one way or mutual.  The authentication client     *)
(* (struct iscsi_acl) is a record, and each acl_ function of the source a  *)
(* function from one record to the next; module Login calls them in the    *)
(* order login.c does.  node_type is always TYPE_INITIATOR, the only value *)
(* check_for_authentication passes, so the TYPE_TARGET and the responder's *)
(* branches are left out.                                                  *)
(*                                                                         *)
(* A text value is abstracted to what the code tells apart.  A received    *)
(* CHAP_R is "right" (the digest of our challenge under the incoming       *)
(* secret), "own" (the digest under our own secret), "wrong", "short"      *)
(* (another length than the digest's) or "bad" (not an encoded number).    *)
(***************************************************************************)
EXTENDS Integers, FiniteSets

CONSTANTS
    Algs,        \* the CHAP digests of the build
    DigestLen,   \* [Algs -> Nat]: the length of each one's response
    MaxRecvEnd   \* AUTH_RECV_END_MAX_COUNT

ASSUME AlgsAssumption ==
    /\ DigestLen \in [Algs -> Nat \ {0}]
    /\ Algs \cap {"absent", "bad", "not_present", "reject"} = {}
ASSUME RecvEndAssumption == MaxRecvEnd \in Nat

KeyTypes == {"AuthMethod", "CHAP_A", "CHAP_N", "CHAP_R", "CHAP_I", "CHAP_C"}
Phases == {"CONFIGURE", "NEGOTIATE", "AUTHENTICATE", "DONE", "ERROR"}
LocalStates == {"SEND_ALG", "RECV_ALG", "RECV_CHALLENGE", "DONE", "ERROR"}
RmtStates == {"SEND_ALG", "SEND_CHALLENGE", "RECV_RSP", "DONE", "ERROR"}
Methods == {"CHAP", "None"}

\* The values of a received key, "absent" when the response does not carry it.
KeyValues == [AuthMethod : Methods \cup {"absent", "Reject"},
              CHAP_A : Algs \cup {"absent", "bad"},
              CHAP_N : {"absent", "ok", "bad"},
              CHAP_R : {"absent", "right", "own", "wrong", "short", "bad"},
              CHAP_I : {"absent", "ok", "bad"},
              CHAP_C : {"absent", "ok", "bad"}]

NoKeys == [k \in KeyTypes |-> "absent"]
Present(keys) == {k \in KeyTypes : keys[k] # "absent"}

Client == [phase : Phases, local : LocalStates \cup {"none"}, rmt : RmtStates \cup {"none"},
           status : {"none", "PASS", "FAIL"}, method : Methods \cup {"not_present", "reject"},
           alg : Algs \cup {"not_present", "reject"}, len : Nat, algs : SUBSET Algs,
           authRmt : BOOLEAN, passwd : BOOLEAN, valid : SUBSET Methods,
           receiving : BOOLEAN, ends : Nat, rspFlag : BOOLEAN, tSent : BOOLEAN,
           sendT : BOOLEAN, sendKeys : SUBSET KeyTypes, sendDup : BOOLEAN,
           chalLen : Nat, proc : SUBSET KeyTypes]
-----------------------------------------------------------------------------
(* The send and receive key blocks. *)

\* acl_set_key_value on the send block: a key set twice marks the block.
SetKeyValue(a, k) ==
    IF k \in a.sendKeys THEN [a EXCEPT !.sendDup = TRUE]
    ELSE [a EXCEPT !.sendKeys = @ \cup {k}]

\* acl_get_key_val on the receive block marks the key processed.
Processed(a, ks) == [a EXCEPT !.proc = @ \cup ks]

InitSendBlock(a) == [a EXCEPT !.sendT = FALSE, !.sendKeys = {}, !.sendDup = FALSE]

\* The error exits of the source: the authentication is over and failed.
FailDone(a) == [a EXCEPT !.status = "FAIL", !.phase = "DONE"]
-----------------------------------------------------------------------------
(* Configuration, all of it before the first login PDU. *)

ValidMethods(a) ==
    IF a.authRmt THEN {"CHAP"} ELSE IF ~ a.passwd THEN {"None"} ELSE Methods

\* Offering no method at all would send AuthMethod=None; the key is always sent.
AclSetAuthMethodValid(a) ==
    LET b == InitSendBlock([a EXCEPT !.valid = ValidMethods(a)])
    IN  SetKeyValue([b EXCEPT !.sendT = ~ a.authRmt], "AuthMethod")

AclInit ==
    AclSetAuthMethodValid(
        [phase |-> "CONFIGURE", local |-> "none", rmt |-> "none", status |-> "none",
         method |-> "not_present", alg |-> "not_present", len |-> 0, algs |-> {},
         authRmt |-> TRUE, passwd |-> FALSE, valid |-> {}, receiving |-> FALSE,
         ends |-> 0, rspFlag |-> FALSE, tSent |-> FALSE, sendT |-> FALSE,
         sendKeys |-> {}, sendDup |-> FALSE, chalLen |-> 0, proc |-> {}])

AclSetPasswd(a) == AclSetAuthMethodValid([a EXCEPT !.passwd = TRUE])

\* An empty list of digests (or one that names a digest twice, given here as
\* empty too) is refused and leaves the client in error.
AclSetChapAlgList(a, algs) ==
    IF algs = {} THEN [a EXCEPT !.phase = "ERROR"] ELSE [a EXCEPT !.algs = algs]

AclSetAuthRmt(a, on) ==
    IF a.phase = "ERROR" THEN a
    ELSE AclSetAuthMethodValid([a EXCEPT !.authRmt = on])
-----------------------------------------------------------------------------
(* Negotiation. *)

\* The first of the received values that is also one of ours.
AclChkAuthMethodKey(a, keys) ==
    LET v == keys["AuthMethod"]
    IN  Processed([a EXCEPT !.method = IF v = "absent" THEN "not_present"
                                       ELSE IF v \in a.valid THEN v
                                       ELSE "reject"], {"AuthMethod"})

AclChkChapAlgKey(a, keys) ==
    LET v == keys["CHAP_A"]
        b == Processed(a, {"CHAP_A"})
    IN  IF v = "absent" THEN [b EXCEPT !.alg = "not_present"]
        ELSE IF v \in a.algs THEN [b EXCEPT !.alg = v, !.len = DigestLen[v]]
        ELSE [b EXCEPT !.alg = "reject"]

AclNextPhase(a) ==
    CASE a.phase = "CONFIGURE" -> [a EXCEPT !.phase = "NEGOTIATE"]
      [] a.phase = "NEGOTIATE" /\ a.method # "CHAP" ->
           [a EXCEPT !.local = "DONE", !.rmt = "DONE",
                     !.status = IF a.authRmt THEN "FAIL" ELSE "PASS",
                     !.phase = IF a.authRmt THEN "DONE" ELSE "AUTHENTICATE"]
      [] a.phase = "NEGOTIATE" /\ a.method = "CHAP" ->
           [a EXCEPT !.local = "SEND_ALG", !.rmt = "SEND_ALG", !.phase = "AUTHENTICATE"]
      [] a.phase = "AUTHENTICATE" -> [a EXCEPT !.phase = "DONE"]
      [] OTHER -> [a EXCEPT !.phase = "ERROR"]
-----------------------------------------------------------------------------
(* CHAP: proving ourselves to the target, and the target to us. *)

\* acl_chap_compute_rsp: our digest of a challenge, if a password is set.
CanCompute(a, f) == a.passwd /\ "hash" \notin f

\* AUTH_LOCAL_STATE_RECV_CHALLENGE: answer the target's challenge.
RecvChallenge(a, keys, f) ==
    LET b == Processed(a, {"CHAP_I", "CHAP_C"})
    IN  IF keys["CHAP_I"] = "ok" /\ keys["CHAP_C"] = "ok" /\ CanCompute(b, f)
        THEN [SetKeyValue(SetKeyValue(b, "CHAP_R"), "CHAP_N") EXCEPT !.local = "DONE"]
        ELSE [b EXCEPT !.local = "ERROR"]

AclLocalAuth(a, keys, f) ==
    CASE a.local = "SEND_ALG" -> [SetKeyValue(a, "CHAP_A") EXCEPT !.local = "RECV_ALG"]
      [] a.local = "RECV_ALG" ->
           LET b == AclChkChapAlgKey(a, keys)
           IN  IF b.alg \in {"not_present", "reject"} THEN [b EXCEPT !.local = "ERROR"]
               ELSE RecvChallenge(b, keys, f)
      [] a.local = "RECV_CHALLENGE" -> RecvChallenge(a, keys, f)
      [] a.local = "DONE" -> a
      [] OTHER -> [a EXCEPT !.phase = "ERROR"]

\* acl_chap_auth_request: the target's answer against the incoming credentials.
BadAclChapAuthRequest(keys, credentials, f) ==
    /\ credentials
    /\ keys["CHAP_N"] = "ok"
    /\ keys["CHAP_R"] # "short"
    /\ "hash" \notin f
AclChapAuthRequest(keys, credentials, f) ==
    /\ credentials
    /\ keys["CHAP_N"] = "ok"
    /\ keys["CHAP_R"] = "right"
    /\ "hash" \notin f

\* AUTH_RMT_STATE_RECV_RSP.
RecvRsp(a, keys, credentials, f) ==
    LET b == Processed(a, {"CHAP_R", "CHAP_N"})
    IN  IF keys["CHAP_R"] \in {"absent", "bad"} \/ keys["CHAP_N"] = "absent"
           \/ (keys["CHAP_R"] = "own" /\ CanCompute(b, f))
        THEN [b EXCEPT !.rmt = "ERROR"]
        ELSE [b EXCEPT !.rspFlag = TRUE, !.rmt = "DONE",
                       !.status = IF AclChapAuthRequest(keys, credentials, f)
                                  THEN "PASS" ELSE "FAIL"]

\* AUTH_RMT_STATE_SEND_CHALLENGE: the challenge is as long as the digest.
SendChallenge(a, f) ==
    IF ~ a.authRmt THEN [a EXCEPT !.status = "PASS", !.rmt = "DONE"]
    ELSE IF "rand" \in f THEN [a EXCEPT !.rmt = "ERROR"]
    ELSE [SetKeyValue(SetKeyValue(a, "CHAP_I"), "CHAP_C")
             EXCEPT !.chalLen = a.len, !.rmt = "RECV_RSP"]

AclRmtAuth(a, keys, credentials, f) ==
    CASE a.rmt = "SEND_ALG" -> [a EXCEPT !.rmt = "SEND_CHALLENGE"]
      [] a.rmt = "SEND_CHALLENGE" -> SendChallenge(a, f)
      [] a.rmt = "RECV_RSP" -> RecvRsp(a, keys, credentials, f)
      [] a.rmt = "DONE" -> a
      [] OTHER -> [a EXCEPT !.phase = "ERROR"]

\* acl_local_auth comes first: it settles the digest acl_rmt_auth relies on.
Authenticate(a, keys, credentials, f) ==
    LET b == AclLocalAuth(a, keys, f)
        c == IF b.local = "ERROR" THEN b ELSE AclRmtAuth(b, keys, credentials, f)
    IN  IF c.local = "ERROR" \/ c.rmt = "ERROR" THEN FailDone(c) ELSE c
-----------------------------------------------------------------------------
(* One response of the target. *)

\* The T bit may leave the stage only when both sides are done with it.
AclHandShake(a, t) ==
    CASE a.phase = "DONE" -> a
      [] a.phase # "DONE" /\ t /\ ~ a.tSent -> FailDone(a)
      [] a.phase = "NEGOTIATE" /\ ~ (t /\ ~ a.tSent) -> [a EXCEPT !.sendT = TRUE]
      [] a.phase \notin {"DONE", "NEGOTIATE"} /\ ~ t ->
           IF a.rmt \in {"RECV_RSP", "DONE"} THEN [a EXCEPT !.sendT = TRUE] ELSE a
      [] a.phase \notin {"DONE", "NEGOTIATE"} /\ t /\ a.tSent ->
           IF a.rmt = "DONE" THEN AclNextPhase(a) ELSE FailDone(a)

AclRecvBegin(a) ==
    IF a.phase \in {"ERROR", "DONE"} \/ a.receiving THEN [a EXCEPT !.phase = "ERROR"]
    ELSE LET b == IF a.phase = "CONFIGURE" THEN AclNextPhase(a) ELSE a
         IN  InitSendBlock([b EXCEPT !.receiving = TRUE, !.tSent = a.sendT, !.proc = {}])

\* The verdict on one response: whether the login may go on.  An
\* authentication the configuration asked for and nobody did is a failure, and
\* so is a key nobody looked at; a failure sends nothing.
AclRcvEndStatus(a, keys) ==
    LET skipped == a.phase = "DONE" /\ a.authRmt /\ ~ a.rspFlag /\ a.status = "PASS"
        alive == a.phase # "DONE" \/ (a.status = "PASS" /\ ~ skipped)
        b == IF skipped THEN [a EXCEPT !.status = "FAIL"]
             ELSE IF alive /\ (a.sendDup \/ ~ (Present(keys) \subseteq a.proc)) THEN FailDone(a)
             ELSE a
        good == b.phase # "DONE" \/ b.status = "PASS"
        c == IF good THEN b ELSE InitSendBlock(b)
    IN  IF a.phase = "ERROR" THEN a ELSE [c EXCEPT !.receiving = FALSE, !.proc = {}]

BadCountRecvEnd(a) == a
CountRecvEnd(a) == [a EXCEPT !.ends = @ + 1]

\* flaw: the receive block saw a key twice, or more text than it can hold.
AclRecvEnd(a, t, keys, flaw, credentials, f) ==
    LET a1 == IF a.ends > MaxRecvEnd \/ flaw THEN FailDone(a) ELSE a
        a2 == CountRecvEnd(a1)
        a3 == IF a2.phase # "NEGOTIATE" THEN a2
              ELSE LET m == AclChkAuthMethodKey(a2, keys)
                   IN  IF m.method = "not_present" THEN FailDone(m) ELSE AclNextPhase(m)
        a4 == IF a3.phase = "AUTHENTICATE" THEN Authenticate(a3, keys, credentials, f) ELSE a3
    IN  IF a.phase = "ERROR" THEN a
        ELSE IF ~ a.receiving THEN [a EXCEPT !.phase = "ERROR"]
        ELSE AclRcvEndStatus(AclHandShake(a4, t), keys)

\* What acl_recv_end returns for the record it leaves.
AuthStatus(a) ==
    CASE a.phase = "ERROR" -> "ERROR"
      [] a.phase = "DONE" -> a.status
      [] OTHER -> "CONTINUE"
=============================================================================
