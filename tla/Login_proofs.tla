---------------------------- MODULE Login_proofs ----------------------------
EXTENDS Login, TLAPS

-----------------------------------------------------------------------------
(* The authentication client keeps its type. *)

ClientFields ==
    {"phase", "local", "rmt", "status", "method", "alg", "len", "algs", "authRmt", "passwd",
     "valid", "receiving", "ends", "rspFlag", "tSent", "sendT", "sendKeys", "sendDup",
     "chalLen", "proc"}

LEMMA ClientDomain == ASSUME NEW a \in Client PROVE DOMAIN a = ClientFields
BY Zenon DEF Client, ClientFields

LEMMA SetKeyType == ASSUME NEW a \in Client, NEW k \in KeyTypes PROVE SetKeyValue(a, k) \in Client
<1> USE SMTT(30)
<1>1. [a EXCEPT !.sendDup = TRUE] \in Client
  BY Zenon DEF Client
<1>2. [a EXCEPT !.sendKeys = @ \cup {k}] \in Client
  BY ZenonT(60) DEF Client
<1>3. QED
  BY <1>1, <1>2, Zenon DEF SetKeyValue

LEMMA SmallTypes ==
  ASSUME NEW a \in Client, NEW ks \in SUBSET KeyTypes
  PROVE  Processed(a, ks) \in Client /\ InitSendBlock(a) \in Client /\ FailDone(a) \in Client
<1> USE SMTT(30)
<1>1. Processed(a, ks) \in Client
  BY Zenon DEF Processed, Client
<1>2. [a EXCEPT !.sendT = FALSE, !.sendKeys = {}, !.sendDup = FALSE] \in Client
  BY Zenon DEF Client
<1>3. FailDone(a) \in Client
  <2> DEFINE b == [a EXCEPT !.status = "FAIL"]
  <2>1. b \in Client
    BY Zenon DEF Client
  <2>2. FailDone(a) = [b EXCEPT !.phase = "DONE"]
    BY Zenon DEF FailDone
  <2> HIDE DEF b
  <2>3. [b EXCEPT !.phase = "DONE"] \in Client
    BY <2>1 DEF Client, Phases
  <2>4. QED
    BY <2>2, <2>3, Zenon
<1>4. QED
  BY <1>1, <1>2, <1>3, Zenon DEF InitSendBlock

LEMMA NextPhaseType == ASSUME NEW a \in Client PROVE AclNextPhase(a) \in Client
<1> USE SMTT(30)
<1>1. ASSUME NEW p \in Phases PROVE [a EXCEPT !.phase = p] \in Client
  BY Zenon DEF Client
<1>2. ASSUME NEW p \in Phases, NEW v \in {"PASS", "FAIL"}
      PROVE  [a EXCEPT !.local = "DONE", !.rmt = "DONE", !.status = v, !.phase = p] \in Client
  <2> DEFINE b == [a EXCEPT !.local = "DONE"]
             c == [b EXCEPT !.rmt = "DONE"]
             d == [c EXCEPT !.status = v]
  <2>0. [a EXCEPT !.local = "DONE", !.rmt = "DONE", !.status = v, !.phase = p] = [d EXCEPT !.phase = p]
    BY Zenon
  <2>1. b \in Client
    BY Zenon DEF Client, LocalStates
  <2> HIDE DEF b
  <2>2. c \in Client
    BY <2>1 DEF Client, RmtStates
  <2> HIDE DEF c
  <2>3. d \in Client
    BY <2>2 DEF Client
  <2> HIDE DEF d
  <2>4. [d EXCEPT !.phase = p] \in Client
    BY <2>3 DEF Client
  <2>5. QED
    BY <2>0, <2>4, Zenon
<1>3. ASSUME NEW p \in Phases
      PROVE  [a EXCEPT !.local = "SEND_ALG", !.rmt = "SEND_ALG", !.phase = p] \in Client
  BY ZenonT(60) DEF Client, LocalStates, RmtStates
<1>4. QED
  BY <1>1, <1>2, <1>3, Zenon DEF AclNextPhase, Phases

LEMMA ChkAlgType == ASSUME NEW a \in Client, NEW keys \in KeyValues PROVE AclChkChapAlgKey(a, keys) \in Client
<1> USE SMTT(30)
<1>1. Processed(a, {"CHAP_A"}) \in Client
  BY SmallTypes, Zenon DEF KeyTypes
<1>2. \A v \in a.algs : v \in Algs /\ DigestLen[v] \in Nat
  BY AlgsAssumption, Zenon DEF Client
<1>3. QED
  <2> DEFINE b == Processed(a, {"CHAP_A"})
             v == keys["CHAP_A"]
  <2>1. b \in Client
    BY <1>1, Zenon
  <2> HIDE DEF b
  <2>2. [b EXCEPT !.alg = "not_present"] \in Client /\ [b EXCEPT !.alg = "reject"] \in Client
    BY <2>1 DEF Client
  <2>3. ASSUME v \in a.algs PROVE [b EXCEPT !.alg = v, !.len = DigestLen[v]] \in Client
    <3> DEFINE c == [b EXCEPT !.alg = v]
    <3>1. c \in Client
      BY <1>2, <2>1, <2>3 DEF Client
    <3>2. [b EXCEPT !.alg = v, !.len = DigestLen[v]] = [c EXCEPT !.len = DigestLen[v]]
      BY Zenon
    <3> HIDE DEF c
    <3>3. [c EXCEPT !.len = DigestLen[v]] \in Client
      BY <1>2, <2>3, <3>1 DEF Client
    <3>4. QED
      BY <3>2, <3>3, Zenon
  <2>4. QED
    BY <2>2, <2>3, Zenon DEF AclChkChapAlgKey, b

LEMMA ChkMethodType == ASSUME NEW a \in Client, NEW keys \in KeyValues PROVE AclChkAuthMethodKey(a, keys) \in Client
<1> USE SMTT(30)
<1> DEFINE v == keys["AuthMethod"]
           m == IF v = "absent" THEN "not_present" ELSE IF v \in a.valid THEN v ELSE "reject"
<1>1. m \in Methods \cup {"not_present", "reject"}
  BY Zenon DEF Client
<1> HIDE DEF m
<1>2. [a EXCEPT !.method = m] \in Client
  BY <1>1, Zenon DEF Client
<1>3. QED
  BY <1>2, SmallTypes, Zenon DEF AclChkAuthMethodKey, m, KeyTypes

LEMMA RecvChallengeType == ASSUME NEW a \in Client, NEW keys, NEW f PROVE RecvChallenge(a, keys, f) \in Client
<1> USE SMTT(30)
<1> DEFINE b == Processed(a, {"CHAP_I", "CHAP_C"})
           c == SetKeyValue(SetKeyValue(b, "CHAP_R"), "CHAP_N")
<1>1. b \in Client
  BY SmallTypes, Zenon DEF KeyTypes
<1> HIDE DEF b
<1>2. c \in Client
  BY <1>1, SetKeyType, Zenon DEF KeyTypes
<1> HIDE DEF c
<1>3. [c EXCEPT !.local = "DONE"] \in Client /\ [b EXCEPT !.local = "ERROR"] \in Client
  BY <1>1, <1>2 DEF Client, LocalStates
<1>4. QED
  BY <1>3, Zenon DEF RecvChallenge, b, c

LEMMA LocalAuthType == ASSUME NEW a \in Client, NEW keys \in KeyValues, NEW f PROVE AclLocalAuth(a, keys, f) \in Client
<1> USE SMTT(30)
<1>1. SetKeyValue(a, "CHAP_A") \in Client /\ AclChkChapAlgKey(a, keys) \in Client
  BY SetKeyType, ChkAlgType, Zenon DEF KeyTypes
<1>2. \A c \in Client : /\ [c EXCEPT !.local = "RECV_ALG"] \in Client /\ [c EXCEPT !.local = "ERROR"] \in Client
                        /\ [c EXCEPT !.phase = "ERROR"] \in Client
  BY DEF Client, LocalStates, Phases
<1>3. QED
  BY <1>1, <1>2, RecvChallengeType, Zenon DEF AclLocalAuth

LEMMA RmtAuthType ==
  ASSUME NEW a \in Client, NEW keys, NEW credentials, NEW f
  PROVE  AclRmtAuth(a, keys, credentials, f) \in Client
<1> USE SMTT(30)
<1>1. SetKeyValue(SetKeyValue(a, "CHAP_I"), "CHAP_C") \in Client /\ Processed(a, {"CHAP_R", "CHAP_N"}) \in Client
  BY SetKeyType, SmallTypes, Zenon DEF KeyTypes
<1>a. ASSUME NEW b \in Client, NEW r \in RmtStates PROVE [b EXCEPT !.rmt = r] \in Client
  BY DEF Client
<1>b. ASSUME NEW b \in Client, NEW v \in {"PASS", "FAIL"}
      PROVE  [b EXCEPT !.rspFlag = TRUE, !.rmt = "DONE", !.status = v] \in Client
  <2>1. [b EXCEPT !.rspFlag = TRUE, !.rmt = "DONE"] \in Client
    <3> DEFINE e == [b EXCEPT !.rspFlag = TRUE]
    <3>1. e \in Client
      BY ZenonT(60) DEF Client
    <3>2. [b EXCEPT !.rspFlag = TRUE, !.rmt = "DONE"] = [e EXCEPT !.rmt = "DONE"]
      BY Zenon
    <3> HIDE DEF e
    <3>3. [e EXCEPT !.rmt = "DONE"] \in Client
      BY <3>1, <1>a, Zenon DEF RmtStates
    <3>4. QED
      BY <3>2, <3>3, Zenon
  <2> DEFINE d == [b EXCEPT !.rspFlag = TRUE, !.rmt = "DONE"]
  <2>2. [b EXCEPT !.rspFlag = TRUE, !.rmt = "DONE", !.status = v] = [d EXCEPT !.status = v]
    BY Zenon
  <2>3. d \in Client
    BY <2>1, Zenon
  <2> HIDE DEF d
  <2>4. [d EXCEPT !.status = v] \in Client
    BY <2>3 DEF Client
  <2>5. QED
    BY <2>2, <2>4, Zenon
<1>c. ASSUME NEW b \in Client
      PROVE  [b EXCEPT !.chalLen = a.len, !.rmt = "RECV_RSP"] \in Client
  <2> DEFINE e == [b EXCEPT !.chalLen = a.len]
  <2>1. e \in Client
    BY DEF Client
  <2>2. [b EXCEPT !.chalLen = a.len, !.rmt = "RECV_RSP"] = [e EXCEPT !.rmt = "RECV_RSP"]
    BY Zenon
  <2> HIDE DEF e
  <2>3. [e EXCEPT !.rmt = "RECV_RSP"] \in Client
    BY <2>1, <1>a, Zenon DEF RmtStates
  <2>4. QED
    BY <2>2, <2>3, Zenon
<1>d. [a EXCEPT !.status = "PASS", !.rmt = "DONE"] \in Client
  BY ZenonT(60) DEF Client, RmtStates
<1>2. RecvRsp(a, keys, credentials, f) \in Client
  BY <1>1, <1>a, <1>b, Zenon DEF RecvRsp, RmtStates
<1>3. SendChallenge(a, f) \in Client
  BY <1>1, <1>a, <1>c, <1>d, Zenon DEF SendChallenge, RmtStates
<1>4. QED
  BY <1>2, <1>3 DEF AclRmtAuth, Client, RmtStates, Phases

LEMMA RecvEndType ==
  ASSUME NEW a \in Client, NEW t, NEW keys \in KeyValues, NEW flaw, NEW credentials, NEW f
  PROVE  AclRecvEnd(a, t, keys, flaw, credentials, f) \in Client
<1> USE SMTT(30)
<1> DEFINE a1 == IF a.ends > MaxRecvEnd \/ flaw THEN FailDone(a) ELSE a
           a2 == CountRecvEnd(a1)
           m == AclChkAuthMethodKey(a2, keys)
           a3 == IF a2.phase # "NEGOTIATE" THEN a2
                 ELSE IF m.method = "not_present" THEN FailDone(m) ELSE AclNextPhase(m)
           a4 == IF a3.phase = "AUTHENTICATE" THEN Authenticate(a3, keys, credentials, f) ELSE a3
           h == AclHandShake(a4, t)
<1>0. \A c \in Client : FailDone(c) \in Client
  BY SmallTypes, Zenon
<1>1. a1 \in Client
  BY <1>0, Zenon
<1> HIDE DEF a1
<1>2. a2 \in Client
  BY <1>1 DEF CountRecvEnd, Client
<1> HIDE DEF a2
<1>3. a3 \in Client
  BY <1>0, <1>2, ChkMethodType, NextPhaseType, Zenon
<1> HIDE DEF a3
<1>4. a4 \in Client
  <2>1. Authenticate(a3, keys, credentials, f) \in Client
    BY <1>0, <1>3, LocalAuthType, RmtAuthType, Zenon DEF Authenticate
  <2>2. QED
    BY <1>3, <2>1, Zenon
<1> HIDE DEF a4
<1>5. h \in Client
  <2>1. [a4 EXCEPT !.sendT = TRUE] \in Client
    BY <1>4, ZenonT(60) DEF Client
  <2>2. QED
    BY <1>0, <1>4, <2>1, NextPhaseType, Zenon DEF AclHandShake
<1> HIDE DEF h
<1>6. AclRcvEndStatus(h, keys) \in Client
  <2>1. [h EXCEPT !.status = "FAIL"] \in Client /\ FailDone(h) \in Client
    BY <1>0, <1>5 DEF Client
  <2>2. ASSUME NEW c \in Client
        PROVE  [c EXCEPT !.receiving = FALSE, !.proc = {}] \in Client
    <3> DEFINE e == [c EXCEPT !.receiving = FALSE]
    <3>1. e \in Client
      BY ZenonT(60) DEF Client
    <3>2. [c EXCEPT !.receiving = FALSE, !.proc = {}] = [e EXCEPT !.proc = {}]
      BY Zenon
    <3> HIDE DEF e
    <3>3. [e EXCEPT !.proc = {}] \in Client
      BY <3>1 DEF Client
    <3>4. QED
      BY <3>2, <3>3, Zenon
  <2>3. ASSUME NEW c \in Client PROVE InitSendBlock(c) \in Client
    BY SmallTypes, Zenon
  <2>4. QED
    BY <1>5, <2>1, <2>2, <2>3, Zenon DEF AclRcvEndStatus
<1>7. [a EXCEPT !.phase = "ERROR"] \in Client
  BY ZenonT(60) DEF Client, Phases
<1>8. QED
  BY <1>6, <1>7, Zenon DEF AclRecvEnd, h, a4, a3, a2, a1
-----------------------------------------------------------------------------
(* What one response does to the client. *)

\* The client between two responses of the security stage.  sent are the keys
\* of the request on the wire.
Handshake(c, a, sent) ==
    /\ a \in Client /\ a.algs = c.algs /\ a.authRmt = Bidirectional(c)
    /\ a.phase \in {"CONFIGURE", "AUTHENTICATE"}
    /\ a.phase = "AUTHENTICATE" =>
        \/ a.method # "CHAP" /\ ~ a.authRmt /\ a.local = "DONE" /\ a.rmt = "DONE"
        \/ a.method = "CHAP" /\ a.local = "RECV_ALG" /\ a.rmt = "SEND_CHALLENGE" /\ ~ a.sendT
        \/ a.method = "CHAP" /\ a.local = "DONE" /\ a.rmt = "RECV_RSP" /\ "CHAP_C" \in sent
        \/ a.method = "CHAP" /\ a.local = "DONE" /\ a.rmt = "DONE"

\* What the client's record claims of the login: that we answered the target's
\* challenge, and that the target answered ours with the incoming secret.
ClaimsAnswered(a) == a.phase = "AUTHENTICATE" /\ a.method = "CHAP" /\ a.local = "DONE"
ClaimsProved(a) == /\ a.phase = "AUTHENTICATE" /\ a.method = "CHAP" /\ a.rmt = "DONE"
                   /\ a.authRmt /\ a.status = "PASS"

\* The handshake, and the record's claims are true.
Underway(c, a, sent, h) ==
    /\ Handshake(c, a, sent)
    /\ ClaimsAnswered(a) => h.answered
    /\ ClaimsProved(a) => h.proved

\* A challenge on the wire is as long as the digest agreed on.
RightLength(c, a, sent) ==
    "CHAP_C" \in sent => a.alg \in c.algs /\ a.chalLen = DigestLen[a.alg]

\* b is the client a, ready to take in the keys of a response.
Begins(a, b) ==
    /\ b \in Client
    /\ b.phase = IF a.phase = "CONFIGURE" THEN "NEGOTIATE" ELSE "AUTHENTICATE"
    /\ b.tSent = a.sendT /\ b.sendKeys = {} /\ b.sendT = FALSE /\ b.receiving = TRUE
    /\ b.local = a.local /\ b.rmt = a.rmt /\ b.status = a.status /\ b.method = a.method
    /\ b.algs = a.algs /\ b.authRmt = a.authRmt

\* acl_recv_begin of a client between two responses.
LEMMA Begun ==
  ASSUME NEW a \in Client, a.phase \in {"CONFIGURE", "AUTHENTICATE"}, ~ a.receiving
  PROVE  Begins(a, AclRecvBegin(a))
<1> USE SMTT(30)
<1> DEFINE b == AclRecvBegin(a)
           p == IF a.phase = "CONFIGURE" THEN AclNextPhase(a) ELSE a
           q == [p EXCEPT !.receiving = TRUE, !.tSent = a.sendT, !.proc = {}]
<1>1. /\ p \in Client /\ p.phase = IF a.phase = "CONFIGURE" THEN "NEGOTIATE" ELSE "AUTHENTICATE"
      /\ p.local = a.local /\ p.rmt = a.rmt /\ p.status = a.status /\ p.method = a.method
      /\ p.algs = a.algs /\ p.authRmt = a.authRmt
  BY DEF AclNextPhase, Client, Phases
<1> HIDE DEF p
<1>2. /\ q \in Client /\ q.receiving = TRUE /\ q.tSent = a.sendT /\ q.phase = p.phase
      /\ q.local = a.local /\ q.rmt = a.rmt /\ q.status = a.status /\ q.method = a.method
      /\ q.algs = a.algs /\ q.authRmt = a.authRmt
  BY <1>1, ZenonT(60) DEF Client
<1> HIDE DEF q
<1>3. b = InitSendBlock(q)
  BY Zenon DEF AclRecvBegin, p, q
<1> HIDE DEF b
<1>4. DOMAIN q = ClientFields
  BY <1>2, ClientDomain, Zenon
<1>5. b \in Client
  BY <1>2, <1>3, SmallTypes, Zenon
<1>6. QED
  BY <1>1, <1>2, <1>3, <1>4, <1>5 DEF Begins, b, InitSendBlock, ClientFields

\* What neither negotiation nor CHAP changes.
Kept(a, b) == b.algs = a.algs /\ b.authRmt = a.authRmt /\ b.tSent = a.tSent

\* AUTH_PHASE_NEGOTIATE of acl_recv_end: a method, or the end.
LEMMA Negotiated ==
  ASSUME NEW a \in Client, a.phase = "NEGOTIATE", NEW keys \in KeyValues,
         NEW m, m = AclChkAuthMethodKey(a, keys),
         NEW b, b = IF m.method = "not_present" THEN FailDone(m) ELSE AclNextPhase(m)
  PROVE  /\ Kept(a, b) /\ b.sendKeys = a.sendKeys /\ b.sendT = a.sendT
         /\ \/ b.status = "FAIL" /\ b.phase = "DONE"
            \/ /\ b.phase = "AUTHENTICATE" /\ b.method = "CHAP"
               /\ b.local = "SEND_ALG" /\ b.rmt = "SEND_ALG"
            \/ /\ b.phase = "AUTHENTICATE" /\ b.method # "CHAP" /\ ~ b.authRmt
               /\ b.local = "DONE" /\ b.rmt = "DONE"
<1> USE SMTT(30)
<1>1. /\ m.algs = a.algs /\ m.authRmt = a.authRmt /\ m.tSent = a.tSent /\ m.phase = "NEGOTIATE"
      /\ m.sendKeys = a.sendKeys /\ m.sendT = a.sendT /\ m.authRmt \in BOOLEAN
  <2>1. DOMAIN a = ClientFields /\ a.authRmt \in BOOLEAN
    BY ClientDomain, Zenon DEF Client
  <2>2. QED
    BY <2>1, Zenon DEF AclChkAuthMethodKey, Processed, ClientFields
<1>2. DOMAIN m = ClientFields
  BY ChkMethodType, ClientDomain, Zenon
<1>3. CASE m.method = "not_present"
  BY <1>1, <1>2, <1>3, Zenon DEF FailDone, ClientFields, Kept
<1>4. CASE m.method \notin {"not_present", "CHAP"}
  <2>1. b = [m EXCEPT !.local = "DONE", !.rmt = "DONE",
                      !.status = IF m.authRmt THEN "FAIL" ELSE "PASS",
                      !.phase = IF m.authRmt THEN "DONE" ELSE "AUTHENTICATE"]
    BY <1>1, <1>4, Zenon DEF AclNextPhase
  <2>2. QED
    BY <1>1, <1>2, <1>4, <2>1, ZenonT(60) DEF ClientFields, Kept
<1>5. CASE m.method = "CHAP"
  BY <1>1, <1>2, <1>5, Zenon DEF AclNextPhase, ClientFields, Kept
<1>6. QED
  BY <1>3, <1>4, <1>5, Zenon

\* The local half of CHAP (acl_local_auth): the offer of the digests, then the
\* answer to the target's challenge under the digest it chose.
LEMMA Answered ==
  ASSUME NEW a \in Client, NEW keys \in KeyValues, NEW f, NEW b, b = AclLocalAuth(a, keys, f)
  PROVE  /\ Kept(a, b) /\ b.method = a.method /\ b.rmt = a.rmt /\ b.status = a.status
         /\ b.sendT = a.sendT
         /\ a.local \in {"SEND_ALG", "RECV_ALG", "DONE"} => b.phase = a.phase
         /\ a.local = "DONE" => b = a
         /\ a.local = "SEND_ALG" => b.local = "RECV_ALG" /\ b.sendKeys = a.sendKeys \cup {"CHAP_A"}
         /\ a.local = "RECV_ALG" /\ b.local # "ERROR" =>
              /\ b.local = "DONE" /\ b.sendKeys = a.sendKeys \cup {"CHAP_R", "CHAP_N"}
              /\ b.alg \in a.algs /\ b.len = DigestLen[b.alg]
<1> USE SMTT(30)
<1>1. DOMAIN a = ClientFields
  BY ClientDomain, Zenon
<1>2. CASE a.local = "SEND_ALG"
  BY <1>1, <1>2, Zenon DEF AclLocalAuth, SetKeyValue, ClientFields, Kept
<1>3. CASE a.local \in {"RECV_CHALLENGE", "DONE", "ERROR", "none"}
  BY <1>1, <1>3, ZenonT(60) DEF AclLocalAuth, RecvChallenge, Processed, SetKeyValue, ClientFields, Kept
<1>4. CASE a.local = "RECV_ALG"
  <2> DEFINE d == AclChkChapAlgKey(a, keys)
             e == Processed(d, {"CHAP_I", "CHAP_C"})
             x == SetKeyValue(SetKeyValue(e, "CHAP_R"), "CHAP_N")
  <2>1. /\ DOMAIN d = ClientFields /\ Kept(a, d) /\ d.method = a.method /\ d.rmt = a.rmt
        /\ d.status = a.status /\ d.sendT = a.sendT /\ d.phase = a.phase /\ d.sendKeys = a.sendKeys
        /\ d.alg \in {"not_present", "reject"} \/ (d.alg \in a.algs /\ d.len = DigestLen[d.alg])
    BY <1>1, Zenon DEF AclChkChapAlgKey, Processed, ClientFields, Kept
  <2> HIDE DEF d
  <2>2. /\ DOMAIN e = ClientFields /\ Kept(a, e) /\ e.method = a.method /\ e.rmt = a.rmt
        /\ e.status = a.status /\ e.sendT = a.sendT /\ e.phase = a.phase /\ e.sendKeys = a.sendKeys
        /\ e.alg = d.alg /\ e.len = d.len
    BY <2>1, Zenon DEF Processed, ClientFields, Kept
  <2> HIDE DEF e
  <2>3. /\ DOMAIN x = ClientFields /\ Kept(a, x) /\ x.method = a.method /\ x.rmt = a.rmt
        /\ x.status = a.status /\ x.sendT = a.sendT /\ x.phase = a.phase
        /\ x.sendKeys = a.sendKeys \cup {"CHAP_R", "CHAP_N"} /\ x.alg = d.alg /\ x.len = d.len
    BY <2>2 DEF SetKeyValue, ClientFields, Kept
  <2> HIDE DEF x
  <2>4. \/ d.alg \in {"not_present", "reject"} /\ b = [d EXCEPT !.local = "ERROR"]
        \/ d.alg \notin {"not_present", "reject"} /\ b = [x EXCEPT !.local = "DONE"]
        \/ b = [e EXCEPT !.local = "ERROR"]
    BY <1>4, Zenon DEF AclLocalAuth, RecvChallenge, d, e, x
  <2>5. QED
    BY <1>4, <2>1, <2>2, <2>3, <2>4 DEF ClientFields, Kept
<1>5. QED
  BY <1>2, <1>3, <1>4, Zenon DEF Client, LocalStates

\* The remote half (acl_rmt_auth): our challenge, then the target's answer.
LEMMA Challenged ==
  ASSUME NEW a \in Client, NEW keys \in KeyValues, NEW cr, NEW f, NEW b, b = AclRmtAuth(a, keys, cr, f),
         a.rmt \in {"SEND_ALG", "SEND_CHALLENGE", "RECV_RSP", "DONE"}
  PROVE  /\ Kept(a, b) /\ b.method = a.method /\ b.local = a.local /\ b.sendT = a.sendT
         /\ b.phase = a.phase /\ b.alg = a.alg
         /\ a.rmt = "SEND_ALG" => b.rmt = "SEND_CHALLENGE" /\ b.sendKeys = a.sendKeys
         /\ a.rmt = "SEND_CHALLENGE" /\ b.rmt # "ERROR" =>
              \/ ~ a.authRmt /\ b.rmt = "DONE" /\ b.sendKeys = a.sendKeys
              \/ /\ b.rmt = "RECV_RSP" /\ b.chalLen = a.len
                 /\ b.sendKeys = a.sendKeys \cup {"CHAP_I", "CHAP_C"}
         /\ a.rmt = "RECV_RSP" /\ b.rmt # "ERROR" =>
              /\ b.rmt = "DONE" /\ b.sendKeys = a.sendKeys
              /\ b.status = "PASS" => keys["CHAP_R"] = "right" /\ keys["CHAP_N"] = "ok"
         /\ a.rmt = "DONE" => b = a
<1> USE SMTT(30)
<1>1. DOMAIN a = ClientFields
  BY ClientDomain, Zenon
<1>2. CASE a.rmt \in {"SEND_ALG", "DONE"}
  BY <1>1, <1>2, Zenon DEF AclRmtAuth, ClientFields, Kept
<1>3. CASE a.rmt = "SEND_CHALLENGE"
  <2> DEFINE x == SetKeyValue(SetKeyValue(a, "CHAP_I"), "CHAP_C")
  <2>1. /\ DOMAIN x = ClientFields /\ Kept(a, x) /\ x.method = a.method /\ x.local = a.local
        /\ x.sendT = a.sendT /\ x.phase = a.phase /\ x.alg = a.alg
        /\ x.sendKeys = a.sendKeys \cup {"CHAP_I", "CHAP_C"}
    BY <1>1, ZenonT(60) DEF SetKeyValue, ClientFields, Kept
  <2> HIDE DEF x
  <2>2. \/ ~ a.authRmt /\ b = [a EXCEPT !.status = "PASS", !.rmt = "DONE"]
        \/ b = [a EXCEPT !.rmt = "ERROR"]
        \/ b = [x EXCEPT !.chalLen = a.len, !.rmt = "RECV_RSP"]
    BY <1>3, Zenon DEF AclRmtAuth, SendChallenge, x
  <2>3. CASE ~ a.authRmt /\ b = [a EXCEPT !.status = "PASS", !.rmt = "DONE"]
    BY <1>1, <1>3, <2>3 DEF ClientFields, Kept
  <2>4. CASE b = [a EXCEPT !.rmt = "ERROR"]
    BY <1>1, <1>3, <2>4 DEF ClientFields, Kept
  <2>5. CASE b = [x EXCEPT !.chalLen = a.len, !.rmt = "RECV_RSP"]
    BY <1>3, <2>1, <2>5 DEF ClientFields, Kept
  <2>6. QED
    BY <2>2, <2>3, <2>4, <2>5, Zenon
<1>4. CASE a.rmt = "RECV_RSP"
  <2> DEFINE x == Processed(a, {"CHAP_R", "CHAP_N"})
  <2>1. /\ DOMAIN x = ClientFields /\ Kept(a, x) /\ x.method = a.method /\ x.local = a.local
        /\ x.sendT = a.sendT /\ x.phase = a.phase /\ x.alg = a.alg /\ x.sendKeys = a.sendKeys
    BY <1>1, Zenon DEF Processed, ClientFields, Kept
  <2> HIDE DEF x
  <2>2. \/ b = [x EXCEPT !.rmt = "ERROR"]
        \/ b = [x EXCEPT !.rspFlag = TRUE, !.rmt = "DONE",
                         !.status = IF AclChapAuthRequest(keys, cr, f) THEN "PASS" ELSE "FAIL"]
    BY <1>4, Zenon DEF AclRmtAuth, RecvRsp, x
  <2>3. CASE b = [x EXCEPT !.rmt = "ERROR"]
    BY <1>4, <2>1, <2>3 DEF ClientFields, Kept
  <2>4. CASE b = [x EXCEPT !.rspFlag = TRUE, !.rmt = "DONE",
                           !.status = IF AclChapAuthRequest(keys, cr, f) THEN "PASS" ELSE "FAIL"]
    BY <1>4, <2>1, <2>4 DEF ClientFields, Kept, AclChapAuthRequest
  <2>5. QED
    BY <2>2, <2>3, <2>4, Zenon
<1>5. QED
  BY <1>2, <1>3, <1>4, Zenon

\* Both halves, in the order of acl_recv_end.
LEMMA Authenticated ==
  ASSUME NEW a \in Client, NEW keys \in KeyValues, NEW cr, NEW f,
         NEW b, b = Authenticate(a, keys, cr, f), a.sendKeys = {},
         <<a.local, a.rmt>> \in {<<"SEND_ALG", "SEND_ALG">>, <<"RECV_ALG", "SEND_CHALLENGE">>,
                                <<"DONE", "RECV_RSP">>, <<"DONE", "DONE">>}
  PROVE  /\ Kept(a, b) /\ b.sendT = a.sendT
         /\ \/ b.phase = "DONE" /\ b.status = "FAIL"
            \/ /\ b.phase = a.phase /\ b.method = a.method
               /\ a.local = "SEND_ALG" => /\ b.local = "RECV_ALG" /\ b.rmt = "SEND_CHALLENGE"
                                          /\ b.sendKeys = {"CHAP_A"}
               /\ a.local = "RECV_ALG" =>
                    /\ b.local = "DONE" /\ "CHAP_R" \in b.sendKeys
                    /\ b.rmt \in {"DONE", "RECV_RSP"}
                    /\ b.rmt = "DONE" => ~ a.authRmt /\ "CHAP_C" \notin b.sendKeys
                    /\ b.rmt = "RECV_RSP" => /\ "CHAP_C" \in b.sendKeys /\ b.alg \in a.algs
                                             /\ b.chalLen = DigestLen[b.alg]
               /\ a.rmt = "RECV_RSP" =>
                    /\ b.local = "DONE" /\ b.rmt = "DONE" /\ b.sendKeys = {}
                    /\ b.status = "PASS" => keys["CHAP_R"] = "right" /\ keys["CHAP_N"] = "ok"
               /\ a.rmt = "DONE" => b = a
<1> USE SMTT(30)
<1> DEFINE l == AclLocalAuth(a, keys, f)
           r == IF l.local = "ERROR" THEN l ELSE AclRmtAuth(l, keys, cr, f)
<1>0. l \in Client
  BY LocalAuthType, Zenon
<1>1. /\ Kept(a, l) /\ l.method = a.method /\ l.rmt = a.rmt /\ l.sendT = a.sendT
      /\ l.phase = a.phase
      /\ a.local = "DONE" => l = a
      /\ a.local = "SEND_ALG" => l.local = "RECV_ALG" /\ l.sendKeys = {"CHAP_A"}
      /\ a.local = "RECV_ALG" /\ l.local # "ERROR" =>
           /\ l.local = "DONE" /\ l.sendKeys = {"CHAP_R", "CHAP_N"}
           /\ l.alg \in a.algs /\ l.len = DigestLen[l.alg]
  <2>1. a.local \in {"SEND_ALG", "RECV_ALG", "DONE"}
    BY Zenon
  <2>2. {} \cup {"CHAP_A"} = {"CHAP_A"} /\ {} \cup {"CHAP_R", "CHAP_N"} = {"CHAP_R", "CHAP_N"}
    BY Zenon
  <2>3. QED
    BY <2>1, <2>2, Answered
<1> HIDE DEF l
<1>2. r \in Client
  BY <1>0, RmtAuthType, Zenon
<1>3. CASE l.local = "ERROR"
  <2>1. r = l /\ b = FailDone(l)
    BY <1>3, Zenon DEF Authenticate, l
  <2>2. DOMAIN l = ClientFields
    BY <1>0, ClientDomain, Zenon
  <2>3. QED
    BY <1>1, <2>1, <2>2 DEF FailDone, Kept, ClientFields
<1>4. CASE l.local # "ERROR"
  <2>1. r = AclRmtAuth(l, keys, cr, f)
    BY <1>4, Zenon
  <2>2. l.rmt \in {"SEND_ALG", "SEND_CHALLENGE", "RECV_RSP", "DONE"}
    BY <1>1, Zenon
  <2>3. /\ Kept(l, r) /\ r.method = l.method /\ r.local = l.local /\ r.sendT = l.sendT
        /\ r.phase = l.phase /\ r.alg = l.alg
        /\ l.rmt = "SEND_ALG" => r.rmt = "SEND_CHALLENGE" /\ r.sendKeys = l.sendKeys
        /\ l.rmt = "SEND_CHALLENGE" /\ r.rmt # "ERROR" =>
              \/ ~ l.authRmt /\ r.rmt = "DONE" /\ r.sendKeys = l.sendKeys
              \/ /\ r.rmt = "RECV_RSP" /\ r.chalLen = l.len
                 /\ r.sendKeys = l.sendKeys \cup {"CHAP_I", "CHAP_C"}
        /\ l.rmt = "RECV_RSP" /\ r.rmt # "ERROR" =>
              /\ r.rmt = "DONE" /\ r.sendKeys = l.sendKeys
              /\ r.status = "PASS" => keys["CHAP_R"] = "right" /\ keys["CHAP_N"] = "ok"
        /\ l.rmt = "DONE" => r = l
    BY <1>0, <2>1, <2>2, Challenged
  <2> HIDE DEF r
  <2>4. CASE r.rmt = "ERROR"
    <3>1. b = FailDone(r)
      BY <2>4, Zenon DEF Authenticate, l, r
    <3>2. DOMAIN r = ClientFields
      BY <1>2, ClientDomain, Zenon
    <3>3. QED
      BY <1>1, <2>3, <3>1, <3>2 DEF FailDone, Kept, ClientFields
  <2>5. CASE r.rmt # "ERROR"
    <3>1. b = r
      BY <1>4, <2>3, <2>5, Zenon DEF Authenticate, l, r
    <3>2. Kept(a, b) /\ b.sendT = a.sendT /\ b.phase = a.phase /\ b.method = a.method
      BY <1>1, <2>3, <3>1, Zenon DEF Kept
    <3>3. ASSUME a.local = "SEND_ALG"
          PROVE  b.local = "RECV_ALG" /\ b.rmt = "SEND_CHALLENGE" /\ b.sendKeys = {"CHAP_A"}
      BY <1>1, <2>3, <3>1, <3>3, Zenon
    <3>4. ASSUME a.local = "RECV_ALG"
          PROVE  /\ b.local = "DONE" /\ "CHAP_R" \in b.sendKeys
                 /\ b.rmt \in {"DONE", "RECV_RSP"}
                 /\ b.rmt = "DONE" => ~ a.authRmt /\ "CHAP_C" \notin b.sendKeys
                 /\ b.rmt = "RECV_RSP" => /\ "CHAP_C" \in b.sendKeys /\ b.alg \in a.algs
                                          /\ b.chalLen = DigestLen[b.alg]
      BY <1>1, <1>4, <2>3, <2>5, <3>1, <3>4 DEF Kept
    <3>5. ASSUME a.rmt = "RECV_RSP"
          PROVE  /\ b.local = "DONE" /\ b.rmt = "DONE" /\ b.sendKeys = {}
                 /\ b.status = "PASS" => keys["CHAP_R"] = "right" /\ keys["CHAP_N"] = "ok"
      BY <1>1, <2>3, <2>5, <3>1, <3>5, Zenon
    <3>6. a.rmt = "DONE" => b = a
      BY <1>1, <2>3, <3>1, Zenon
    <3>7. QED
      BY <3>2, <3>3, <3>4, <3>5, <3>6, Zenon
  <2>6. QED
    BY <2>4, <2>5, Zenon
<1>5. QED
  BY <1>3, <1>4, Zenon

\* The T bit and the verdict: the stage is left only with the remote half done.
LEMMA Settled ==
  ASSUME NEW x \in Client, NEW t \in BOOLEAN, NEW keys \in KeyValues,
         NEW e, e = AclRcvEndStatus(AclHandShake(x, t), keys),
         AuthStatus(e) \in {"CONTINUE", "PASS"},
         x.phase \in {"AUTHENTICATE", "DONE"}, x.phase = "DONE" => x.status = "FAIL"
  PROVE  /\ x.phase = "AUTHENTICATE"
         /\ e.algs = x.algs /\ e.authRmt = x.authRmt /\ e.method = x.method /\ e.local = x.local
         /\ e.rmt = x.rmt /\ e.status = x.status /\ e.alg = x.alg /\ e.chalLen = x.chalLen
         /\ e.sendKeys = x.sendKeys
         /\ t => x.tSent /\ x.rmt = "DONE" /\ e.phase = "DONE" /\ e.status = "PASS"
         /\ ~ t => /\ e.phase = "AUTHENTICATE"
                   /\ e.sendT => x.sendT \/ x.rmt \in {"RECV_RSP", "DONE"}
<1> USE SMTT(30)
<1> DEFINE h == AclHandShake(x, t)
           v == [h EXCEPT !.receiving = FALSE, !.proc = {}]
<1>1. DOMAIN x = ClientFields /\ x.status \in {"none", "PASS", "FAIL"} /\ x.tSent \in BOOLEAN
  BY ClientDomain, Zenon DEF Client
<1>2. \/ h = x /\ x.phase = "DONE" /\ x.status = "FAIL"
      \/ h = FailDone(x)
      \/ x.phase = "AUTHENTICATE" /\ ~ t /\ h = x
      \/ /\ x.phase = "AUTHENTICATE" /\ ~ t /\ x.rmt \in {"RECV_RSP", "DONE"}
         /\ h = [x EXCEPT !.sendT = TRUE]
      \/ /\ x.phase = "AUTHENTICATE" /\ t /\ x.tSent /\ x.rmt = "DONE"
         /\ h = [x EXCEPT !.phase = "DONE"]
  BY <1>1, Zenon DEF AclHandShake, AclNextPhase
<1>3. /\ DOMAIN h = ClientFields /\ h.phase \in {"AUTHENTICATE", "DONE"}
      /\ h.status \in {"none", "PASS", "FAIL"}
  BY <1>1, <1>2, ZenonT(60) DEF FailDone, ClientFields
<1>4. h.phase = "AUTHENTICATE" \/ h.status = "PASS"
  <2>1. CASE h.phase = "DONE" /\ h.status # "PASS"
    <3>1. e = [InitSendBlock(h) EXCEPT !.receiving = FALSE, !.proc = {}]
      BY <1>3, <2>1, Zenon DEF AclRcvEndStatus, h
    <3>2. e.phase = "DONE" /\ e.status = h.status
      BY <1>3, <2>1, <3>1, Zenon DEF InitSendBlock, ClientFields
    <3>3. QED
      BY <1>3, <2>1, <3>2, Zenon DEF AuthStatus
  <2>2. QED
    BY <1>3, <2>1, Zenon
<1>5. h # FailDone(x)
  <2>1. FailDone(x).status = "FAIL" /\ FailDone(x).phase = "DONE"
    BY <1>1, Zenon DEF FailDone, ClientFields
  <2>2. QED
    BY <2>1, <1>4, Zenon
<1>6. x.phase = "AUTHENTICATE"
  BY <1>2, <1>4, <1>5, Zenon
<1> HIDE DEF h
<1>7. e = v
  <2> DEFINE skipped == h.phase = "DONE" /\ h.authRmt /\ ~ h.rspFlag /\ h.status = "PASS"
             alive == h.phase # "DONE" \/ (h.status = "PASS" /\ ~ skipped)
  <2>1. CASE skipped
    <3>1. e = [InitSendBlock([h EXCEPT !.status = "FAIL"]) EXCEPT !.receiving = FALSE, !.proc = {}]
      <4>1. [h EXCEPT !.status = "FAIL"].phase = "DONE" /\ [h EXCEPT !.status = "FAIL"].status = "FAIL"
        BY <1>3, <2>1, Zenon DEF ClientFields
      <4>2. QED
        BY <2>1, <4>1, Zenon DEF AclRcvEndStatus, h
    <3>2. e.phase = "DONE" /\ e.status = "FAIL"
      BY <1>3, <2>1, <3>1, ZenonT(60) DEF InitSendBlock, ClientFields
    <3>3. QED
      BY <3>2, Zenon DEF AuthStatus
  <2>2. CASE ~ skipped /\ alive /\ (h.sendDup \/ ~ (Present(keys) \subseteq h.proc))
    <3>0. FailDone(h).phase = "DONE" /\ FailDone(h).status = "FAIL"
      BY <1>3, Zenon DEF FailDone, ClientFields
    <3>1. e = [InitSendBlock(FailDone(h)) EXCEPT !.receiving = FALSE, !.proc = {}]
      BY <1>3, <2>2, <3>0, Zenon DEF AclRcvEndStatus, h
    <3>2. e.phase = "DONE" /\ e.status = "FAIL"
      BY <1>3, <3>1, ZenonT(60) DEF InitSendBlock, FailDone, ClientFields
    <3>3. QED
      BY <3>2, Zenon DEF AuthStatus
  <2>3. CASE ~ skipped /\ ~ (alive /\ (h.sendDup \/ ~ (Present(keys) \subseteq h.proc)))
    BY <1>3, <1>4, <2>3, Zenon DEF AclRcvEndStatus, h
  <2>4. QED
    BY <2>1, <2>2, <2>3, Zenon
<1>8. /\ e.algs = h.algs /\ e.authRmt = h.authRmt /\ e.method = h.method /\ e.local = h.local
      /\ e.rmt = h.rmt /\ e.status = h.status /\ e.alg = h.alg /\ e.chalLen = h.chalLen
      /\ e.sendKeys = h.sendKeys /\ e.phase = h.phase /\ e.sendT = h.sendT
  BY <1>3, <1>7, ZenonT(60) DEF ClientFields
<1>9. CASE h = x /\ ~ t
  BY <1>6, <1>8, <1>9, Zenon
<1>10. CASE ~ t /\ x.rmt \in {"RECV_RSP", "DONE"} /\ h = [x EXCEPT !.sendT = TRUE]
  BY <1>1, <1>6, <1>8, <1>10, Zenon DEF ClientFields
<1>11. CASE t /\ x.tSent /\ x.rmt = "DONE" /\ h = [x EXCEPT !.phase = "DONE"]
  BY <1>1, <1>4, <1>6, <1>8, <1>11 DEF ClientFields
<1>12. QED
  BY <1>2, <1>5, <1>6, <1>9, <1>10, <1>11, Zenon

\* One response that the login survives.
LEMMA ResponseKeeps ==
  ASSUME NEW c, NEW a, NEW sent, Handshake(c, a, sent), AclRecvBegin(a).phase # "ERROR",
         NEW t \in BOOLEAN, NEW keys \in KeyValues, NEW flaw, NEW cr, NEW f,
         NEW e, e = AclRecvEnd(AclRecvBegin(a), t, keys, flaw, cr, f),
         AuthStatus(e) \in {"CONTINUE", "PASS"}
  PROVE  /\ t => /\ e.phase = "DONE" /\ e.status = "PASS"
                 /\ Bidirectional(c) =>
                      \/ ClaimsProved(a)
                      \/ "CHAP_C" \in sent /\ keys["CHAP_R"] = "right" /\ keys["CHAP_N"] = "ok"
                 /\ e.method = "CHAP" => ClaimsAnswered(a)
         /\ ~ t => /\ Handshake(c, e, e.sendKeys) /\ RightLength(c, e, e.sendKeys)
                   /\ ClaimsAnswered(e) => ClaimsAnswered(a) \/ "CHAP_R" \in e.sendKeys
                   /\ ClaimsProved(e) =>
                        \/ ClaimsProved(a)
                        \/ "CHAP_C" \in sent /\ keys["CHAP_R"] = "right" /\ keys["CHAP_N"] = "ok"
<1> USE SMTT(30)
<1> DEFINE b == AclRecvBegin(a)
           a1 == IF b.ends > MaxRecvEnd \/ flaw THEN FailDone(b) ELSE b
           a2 == CountRecvEnd(a1)
           m == AclChkAuthMethodKey(a2, keys)
           n == IF m.method = "not_present" THEN FailDone(m) ELSE AclNextPhase(m)
           a3 == IF a2.phase # "NEGOTIATE" THEN a2 ELSE n
           a4 == IF a3.phase = "AUTHENTICATE" THEN Authenticate(a3, keys, cr, f) ELSE a3
<1>0. a \in Client /\ a.phase \in {"CONFIGURE", "AUTHENTICATE"} /\ a.receiving \in BOOLEAN
  BY Zenon DEF Handshake, Client
<1>1. ~ a.receiving
  <2>1. SUFFICES ASSUME a.receiving PROVE b.phase = "ERROR"
    BY <1>0, Zenon
  <2>2. DOMAIN a = ClientFields
    BY <1>0, ClientDomain, Zenon
  <2>3. QED
    BY <2>1, <2>2, Zenon DEF AclRecvBegin, ClientFields
<1>2. /\ b \in Client
      /\ b.phase = IF a.phase = "CONFIGURE" THEN "NEGOTIATE" ELSE "AUTHENTICATE"
      /\ b.tSent = a.sendT /\ b.sendKeys = {} /\ b.sendT = FALSE /\ b.receiving = TRUE
      /\ b.local = a.local /\ b.rmt = a.rmt /\ b.status = a.status /\ b.method = a.method
      /\ b.algs = a.algs /\ b.authRmt = a.authRmt
  <2>1. Begins(a, b)
    BY <1>0, <1>1, Begun, Zenon
  <2>2. QED
    BY <2>1, Zenon DEF Begins
<1>x. e = AclRecvEnd(b, t, keys, flaw, cr, f)
  BY Zenon
<1> HIDE DEF b
<1>3. e = AclRcvEndStatus(AclHandShake(a4, t), keys)
  BY <1>2, <1>x, Zenon DEF AclRecvEnd
<1>4. e \in Client
  BY <1>2, <1>x, RecvEndType
\* The receive counter and a flawed response.
<1>5. /\ a2 \in Client /\ Kept(b, a2) /\ a2.sendKeys = {} /\ a2.sendT = FALSE
      /\ \/ a2.phase = "DONE" /\ a2.status = "FAIL"
         \/ /\ a2.phase = b.phase /\ a2.local = a.local /\ a2.rmt = a.rmt /\ a2.status = a.status
            /\ a2.method = a.method
  <2>1. DOMAIN b = ClientFields
    BY <1>2, ClientDomain, Zenon
  <2>2. /\ a1 \in Client /\ DOMAIN a1 = ClientFields /\ Kept(b, a1) /\ a1.sendKeys = {}
        /\ a1.sendT = FALSE
        /\ \/ a1.phase = "DONE" /\ a1.status = "FAIL"
           \/ /\ a1.phase = b.phase /\ a1.local = a.local /\ a1.rmt = a.rmt /\ a1.status = a.status
              /\ a1.method = a.method
    <3>1. FailDone(b) \in Client
      BY <1>2, SmallTypes, Zenon
    <3>2. a1 \in Client
      BY <1>2, <3>1, Zenon
    <3>3. DOMAIN a1 = ClientFields
      BY <3>2, ClientDomain, Zenon
    <3>4. QED
      BY <1>2, <2>1, <3>2, <3>3, Zenon DEF FailDone, Kept, ClientFields
  <2> HIDE DEF a1
  <2>3. a2 \in Client
    BY <2>2 DEF CountRecvEnd, Client
  <2>4. QED
    BY <2>2, <2>3, Zenon DEF CountRecvEnd, Kept, ClientFields
<1> HIDE DEF a2
\* The negotiation of the method.
<1>6. /\ a3 \in Client /\ Kept(b, a3) /\ a3.sendKeys = {} /\ a3.sendT = FALSE
      /\ \/ a3.phase = "DONE" /\ a3.status = "FAIL"
         \/ /\ a.phase = "CONFIGURE" /\ a3.phase = "AUTHENTICATE" /\ a3.method = "CHAP"
            /\ a3.local = "SEND_ALG" /\ a3.rmt = "SEND_ALG"
         \/ /\ a.phase = "CONFIGURE" /\ a3.phase = "AUTHENTICATE" /\ a3.method # "CHAP"
            /\ ~ a3.authRmt /\ a3.local = "DONE" /\ a3.rmt = "DONE"
         \/ /\ a.phase = "AUTHENTICATE" /\ a3.phase = "AUTHENTICATE" /\ a3.local = a.local
            /\ a3.rmt = a.rmt /\ a3.status = a.status /\ a3.method = a.method
  <2>1. CASE a2.phase # "NEGOTIATE"
    BY <1>0, <1>2, <1>5, <2>1, Zenon
  <2>2. CASE a2.phase = "NEGOTIATE"
    <3>1. m \in Client
      BY <1>5, ChkMethodType, Zenon
    <3>2. n \in Client
      BY <3>1, SmallTypes, NextPhaseType, Zenon
    <3>3. /\ Kept(a2, n) /\ n.sendKeys = a2.sendKeys /\ n.sendT = a2.sendT
          /\ \/ n.status = "FAIL" /\ n.phase = "DONE"
             \/ /\ n.phase = "AUTHENTICATE" /\ n.method = "CHAP"
                /\ n.local = "SEND_ALG" /\ n.rmt = "SEND_ALG"
             \/ /\ n.phase = "AUTHENTICATE" /\ n.method # "CHAP" /\ ~ n.authRmt
                /\ n.local = "DONE" /\ n.rmt = "DONE"
      BY <1>5, <2>2, Negotiated
    <3>4. a3 = n
      BY <2>2, Zenon
    <3> HIDE DEF n, a3
    <3>5. QED
      BY <1>0, <1>2, <1>5, <2>2, <3>2, <3>3, <3>4, ZenonT(60) DEF Kept
  <2>3. QED
    BY <2>1, <2>2, Zenon
<1> HIDE DEF a3
\* CHAP.
<1>7. a4 \in Client
  <2>1. Authenticate(a3, keys, cr, f) \in Client
    BY <1>6, LocalAuthType, RmtAuthType, SmallTypes, Zenon DEF Authenticate
  <2>2. QED
    BY <1>6, <2>1, Zenon
<1>8. \/ a4.phase = "DONE" /\ a4.status = "FAIL"
      \/ /\ a3.phase = "AUTHENTICATE" /\ a4.phase = "AUTHENTICATE"
         /\ a4.method = a3.method /\ Kept(b, a4) /\ a4.sendT = FALSE
         /\ a3.local = "SEND_ALG" => /\ a4.local = "RECV_ALG" /\ a4.rmt = "SEND_CHALLENGE"
                                     /\ a4.sendKeys = {"CHAP_A"}
         /\ a3.local = "RECV_ALG" =>
              /\ a4.local = "DONE" /\ "CHAP_R" \in a4.sendKeys
              /\ a4.rmt \in {"DONE", "RECV_RSP"}
              /\ a4.rmt = "DONE" => ~ a3.authRmt /\ "CHAP_C" \notin a4.sendKeys
              /\ a4.rmt = "RECV_RSP" => /\ "CHAP_C" \in a4.sendKeys /\ a4.alg \in a3.algs
                                        /\ a4.chalLen = DigestLen[a4.alg]
         /\ a3.rmt = "RECV_RSP" =>
              /\ a4.local = "DONE" /\ a4.rmt = "DONE" /\ a4.sendKeys = {}
              /\ a4.status = "PASS" => keys["CHAP_R"] = "right" /\ keys["CHAP_N"] = "ok"
         /\ a3.rmt = "DONE" => a4 = a3
  <2>1. CASE a3.phase = "AUTHENTICATE"
    <3>1. <<a3.local, a3.rmt>> \in {<<"SEND_ALG", "SEND_ALG">>, <<"RECV_ALG", "SEND_CHALLENGE">>,
                                   <<"DONE", "RECV_RSP">>, <<"DONE", "DONE">>}
      BY <1>6, <2>1, Zenon DEF Handshake
    <3>2. a4 = Authenticate(a3, keys, cr, f)
      BY <2>1, Zenon
    <3> HIDE DEF a4
    <3>3. Kept(b, a3) /\ Kept(a3, a4) => Kept(b, a4)
      BY Zenon DEF Kept
    <3>4. QED
      BY <1>6, <2>1, <3>1, <3>2, <3>3, Authenticated
  <2>2. CASE a3.phase # "AUTHENTICATE"
    BY <1>6, <2>2, Zenon
  <2>3. QED
    BY <2>1, <2>2, Zenon
<1> HIDE DEF a4
\* The T bit and the verdict.
<1>9. /\ a4.phase = "AUTHENTICATE"
      /\ e.algs = a4.algs /\ e.authRmt = a4.authRmt /\ e.method = a4.method /\ e.local = a4.local
      /\ e.rmt = a4.rmt /\ e.status = a4.status /\ e.alg = a4.alg /\ e.chalLen = a4.chalLen
      /\ e.sendKeys = a4.sendKeys
      /\ t => a4.tSent /\ a4.rmt = "DONE" /\ e.phase = "DONE" /\ e.status = "PASS"
      /\ ~ t => /\ e.phase = "AUTHENTICATE"
                /\ e.sendT => a4.sendT \/ a4.rmt \in {"RECV_RSP", "DONE"}
  <2>1. a4.phase \in {"AUTHENTICATE", "DONE"} /\ (a4.phase = "DONE" => a4.status = "FAIL")
    BY <1>8, Zenon
  <2>2. QED
    BY <1>3, <1>7, <2>1, Settled
<1>10. /\ a3.phase = "AUTHENTICATE" /\ a4.sendT = FALSE /\ e.method = a3.method
       /\ e.algs = c.algs /\ a3.algs = c.algs /\ e.authRmt = Bidirectional(c)
       /\ a3.authRmt = Bidirectional(c) /\ a4.tSent = a.sendT
  BY <1>2, <1>6, <1>8, <1>9 DEF Handshake, Kept
<1>11. a3.sendKeys = {} /\ Bidirectional(c) \in BOOLEAN
  BY <1>0, <1>6, ZenonT(60) DEF Handshake, Client
<1>12. CASE a.phase = "CONFIGURE" /\ a3.method = "CHAP" /\ a3.local = "SEND_ALG"
  BY <1>4, <1>8, <1>9, <1>10, <1>12 DEF Handshake, RightLength, ClaimsAnswered, ClaimsProved
<1>13. CASE a3.method # "CHAP" /\ ~ a3.authRmt /\ a3.local = "DONE" /\ a3.rmt = "DONE"
  BY <1>4, <1>6, <1>8, <1>9, <1>10, <1>11, <1>13 DEF Handshake, RightLength, ClaimsAnswered, ClaimsProved
<1>14. CASE /\ a.phase = "AUTHENTICATE" /\ a3.method = "CHAP" /\ a3.local = "RECV_ALG"
            /\ a3.rmt = "SEND_CHALLENGE" /\ ~ a.sendT
  BY <1>4, <1>8, <1>9, <1>10, <1>14 DEF Handshake, RightLength, ClaimsAnswered, ClaimsProved
<1>15. CASE /\ a.phase = "AUTHENTICATE" /\ a3.method = "CHAP" /\ a3.local = "DONE"
            /\ a3.rmt = "RECV_RSP" /\ "CHAP_C" \in sent
            /\ a.method = "CHAP" /\ a.local = "DONE"
  BY <1>4, <1>8, <1>9, <1>10, <1>15 DEF Handshake, RightLength, ClaimsAnswered, ClaimsProved
<1>16. CASE /\ a.phase = "AUTHENTICATE" /\ a3.method = "CHAP" /\ a3.local = "DONE"
            /\ a3.rmt = "DONE" /\ a.method = "CHAP" /\ a.local = "DONE"
            /\ a.rmt = "DONE" /\ a3.status = a.status
  BY <1>2, <1>4, <1>6, <1>8, <1>9, <1>10, <1>11, <1>16 DEF Handshake, RightLength, ClaimsAnswered, ClaimsProved
<1>17. QED
  <2>1. CASE a.phase = "CONFIGURE"
    BY <1>6, <1>10, <1>12, <1>13, <2>1, ZenonT(60)
  <2>2. CASE a.phase = "AUTHENTICATE"
    BY <1>6, <1>10, <1>13, <1>14, <1>15, <1>16, <2>2 DEF Handshake, Kept
  <2>3. QED
    BY <1>0, <2>1, <2>2, Zenon
-----------------------------------------------------------------------------
(* The parameters of the connection. *)

Params == [hdr : Digests, data : Digests, recv : Lengths, xmit : Lengths,
           first : Lengths, max : Lengths]
Conns == [stage : -1 .. 3, partial : BOOLEAN, par : Params]
Contexts == [st : {"idle", "wait", "full", "ended"}, ret : Outcomes, count : 0 .. MaxLogins,
             cls : Classes, tmo : {"auth", "login"}]
Requests == [csg : -1 .. 1, nsg : -1 .. 3, T : BOOLEAN, auth : SUBSET KeyTypes,
             offer : BOOLEAN, digests : BOOLEAN, irr : SUBSET IrrelevantKeys]
Histories == [offers : Nat, digests : 0 .. 2, answered : BOOLEAN, proved : BOOLEAN,
              declared : Lengths, turn : BOOLEAN]

\* AgreedLimitsHold in every state of the login, not only at its end.
Limited(c, p, declared) ==
    /\ ~ Rdma(c) => p.xmit <= declared
    /\ c.type = "normal" /\ c.xmit # 0 => p.xmit <= InRange(c.xmit, 4)
    /\ \A q \in {<<c.hdr, p.hdr>>, <<c.data, p.data>>} :
           c.type = "normal" /\ ~ Rdma(c) /\ q[1] \in {"NONE", "CRC32C"} => q[2] = q[1]

\* What iscsi_copy_operational_params makes of any record is legal.
LEMMA CopyIsLegal ==
  ASSUME NEW c \in Cfg, NEW p, p = CopyOperationalParams(c)
  PROVE  /\ p \in Params /\ Limited(c, p, 6)
         /\ {p.recv, p.first, p.max} \subseteq 1 .. 5 /\ p.first <= p.max
         /\ c.type = "normal" => p.hdr = (IF Rdma(c) THEN "NONE" ELSE c.hdr) /\ p.data = c.data
<1> USE SMTT(30)
<1> DEFINE max == InRange(c.max, 5)
           first == AtMost(InRange(c.first, 4), max)
           recv == InRange(c.recv, 4)
           seg == IF c.type = "discovery" /\ c.textNego THEN AtMost(recv, DefSeg) ELSE recv
           xmit == IF c.xmit = 0 THEN DefSeg ELSE InRange(c.xmit, 4)
           hdr == IF c.type = "discovery" THEN "NONE" ELSE c.hdr
           data == IF c.type = "discovery" THEN "NONE" ELSE c.data
           q == [hdr |-> hdr, data |-> data, recv |-> seg, xmit |-> xmit,
                 first |-> first, max |-> max]
<1>1. /\ max \in 1 .. 5 /\ first \in 1 .. 5 /\ first <= max /\ seg \in 1 .. 5 /\ xmit \in 1 .. 5
      /\ c.xmit # 0 => xmit <= InRange(c.xmit, 4)
  BY DEF Cfg, Lengths, InRange, AtMost, DefSeg
<1>2. hdr \in Digests /\ data \in Digests /\ (c.type = "normal" => hdr = c.hdr /\ data = c.data)
  BY Zenon DEF Cfg, Digests
<1>3. p = CreateConn(c, q) /\ c.t \in Transports
  BY Zenon DEF CopyOperationalParams, Cfg
<1> HIDE DEF max, first, seg, xmit, hdr, data
<1>4. /\ p = [hdr |-> p.hdr, data |-> p.data, recv |-> p.recv, xmit |-> p.xmit,
              first |-> p.first, max |-> p.max]
      /\ p.recv \in 1 .. 5 /\ p.first \in 1 .. 5 /\ p.max \in 1 .. 5 /\ p.first <= p.max
      /\ p.xmit \in 1 .. 5 /\ p.xmit <= xmit /\ p.data = data
      /\ p.hdr = IF Rdma(c) THEN "NONE" ELSE hdr
  <2>1. CASE c.t = "iser"
    <3>1. p = [hdr |-> "NONE", data |-> data, recv |-> seg, xmit |-> xmit,
               first |-> first, max |-> max]
      BY <1>3, <2>1, Zenon DEF CreateConn
    <3>2. QED
      BY <1>1, <2>1, <3>1 DEF Rdma
  <2>2. CASE c.t = "be2iscsi"
    <3>1. p = [hdr |-> hdr, data |-> data, recv |-> AtMost(seg, 3), xmit |-> AtMost(xmit, 3),
               first |-> AtMost(first, 2), max |-> AtMost(max, 4)]
      BY <1>3, <2>2, Zenon DEF CreateConn
    <3>2. /\ AtMost(seg, 3) \in 1 .. 5 /\ AtMost(xmit, 3) \in 1 .. 5 /\ AtMost(xmit, 3) <= xmit
          /\ AtMost(first, 2) \in 1 .. 5 /\ AtMost(max, 4) \in 1 .. 5
          /\ AtMost(first, 2) <= AtMost(max, 4)
      BY <1>1 DEF AtMost
    <3>3. QED
      BY <2>2, <3>1, <3>2 DEF Rdma
  <2>3. CASE c.t = "cxgbi"
    <3>1. p = [hdr |-> hdr, data |-> data, recv |-> AtMost(seg, 2), xmit |-> xmit,
               first |-> first, max |-> max]
      BY <1>3, <2>3, Zenon DEF CreateConn
    <3>2. AtMost(seg, 2) \in 1 .. 5
      BY <1>1 DEF AtMost
    <3>3. QED
      BY <1>1, <2>3, <3>1, <3>2 DEF Rdma
  <2>4. CASE c.t = "tcp"
    <3>1. p = q
      BY <1>3, <2>4, Zenon DEF CreateConn
    <3>2. QED
      BY <1>1, <2>4, <3>1 DEF Rdma
  <2>5. QED
    BY <1>3, <2>1, <2>2, <2>3, <2>4, Zenon DEF Transports
<1>5. p \in Params
  <2>1. p.hdr \in Digests /\ p.data \in Digests
    BY <1>2, <1>4, Zenon DEF Digests
  <2>2. 1 .. 5 \subseteq Lengths
    BY DEF Lengths
  <2> HIDE DEF q
  <2>3. QED
    BY <1>4, <2>1, <2>2, Zenon DEF Params
<1>6. Limited(c, p, 6)
  <2>1. InRange(c.xmit, 4) \in Nat
    BY DEF InRange
  <2>2. QED
    BY <1>1, <1>2, <1>4, <2>1 DEF Limited
<1>7. QED
  BY <1>2, <1>4, <1>5, <1>6, Zenon

\* What a response may change them to.
LEMMA OpParamsLimited ==
  ASSUME NEW c \in Cfg, NEW p \in Params, NEW k \in OpKeys, NEW d \in Lengths, Limited(c, p, d),
         NEW q, q = OpParams(c, p, k)
  PROVE  q \in Params /\ Limited(c, q, IF k.xmit = 0 THEN d ELSE k.xmit)
<1> USE SMTT(30)
<1>1. /\ p.xmit \in Lengths /\ k.xmit \in Lengths /\ p.recv \in Lengths /\ k.iRecv \in Lengths
      /\ k.tRecv \in Lengths /\ p.first \in Lengths /\ p.max \in Lengths /\ k.first \in Lengths
      /\ k.max \in Lengths /\ p.hdr \in Digests /\ p.data \in Digests
      /\ k.hdr \in {"absent", "None", "CRC32C", "bad"} /\ k.data \in {"absent", "None", "CRC32C", "bad"}
  BY Zenon DEF Params, OpKeys
<1>2. q.hdr \in Digests /\ q.data \in Digests
  BY <1>1, Zenon DEF OpParams, Digest, Digests
<1>3. /\ q.xmit \in Lengths /\ q.recv \in Lengths /\ q.first \in Lengths /\ q.max \in Lengths
      /\ ~ Rdma(c) => q.xmit <= IF k.xmit = 0 THEN d ELSE k.xmit
      /\ c.type = "normal" /\ c.xmit # 0 => q.xmit <= p.xmit
  BY <1>1 DEF OpParams, Lowered, AtMost, Lengths, Limited
<1>4. q \in Params
  BY <1>2, <1>3, Zenon DEF OpParams, Params
<1>5. ASSUME NEW mine \in {"NONE", "CRC32C"}, NEW v \in {"absent", "None", "CRC32C", "bad"}
      PROVE  (IF DigestAccepted(mine, v) THEN Digest(mine, v) ELSE mine) = mine
  BY Zenon DEF DigestAccepted, Digest
<1>6. /\ p.hdr \in {"NONE", "CRC32C"} => q.hdr = p.hdr
      /\ p.data \in {"NONE", "CRC32C"} => q.data = p.data
  BY <1>1, <1>5, Zenon DEF OpParams
<1>7. InRange(c.xmit, 4) \in Nat
  BY DEF InRange
<1>8. QED
  BY <1>1, <1>3, <1>4, <1>6, <1>7 DEF Limited, Lengths
-----------------------------------------------------------------------------
(* The inductive invariant. *)

\* The authentication is over and was done.
Completed(c, a, h) ==
    /\ a.phase = "DONE" /\ a.status = "PASS"
    /\ Bidirectional(c) => h.proved
    /\ a.method = "CHAP" => h.answered

\* The operational keys have been offered, the digests too unless RDMA repeats them.
OfferedOnce(c, h) ==
    h.offers = 1 /\ (c.type = "discovery" \/ ~ Rdma(c) => h.digests = 1)
NotOffered(c, p, h) == h.offers = 0 /\ h.digests = 0 /\ p = CopyOperationalParams(c)

LoginInv ==
    /\ cfg \in Cfg /\ conn \in Conns /\ irr \in SUBSET IrrelevantKeys /\ acl \in Client
    /\ ctx \in Contexts /\ pdu \in Requests /\ g \in Histories
    /\ Limited(cfg, conn.par, g.declared)
    /\ AuthBuffers(cfg) /\ conn.stage > SECURITY => Completed(cfg, acl, g)
    /\ RightLength(cfg, acl, pdu.auth)
    /\ pdu.offer => conn.par = CopyOperationalParams(cfg)
    /\ ctx.st = "wait" => conn.stage \in {SECURITY, OP_PARMS}
    /\ ctx.st = "wait" /\ conn.stage = SECURITY =>
        /\ Underway(cfg, acl, pdu.auth, g)
        /\ NotOffered(cfg, conn.par, g)
    /\ ctx.st = "wait" /\ conn.stage = OP_PARMS => OfferedOnce(cfg, g)

\* The invariant gives the properties.
LEMMA InvSuffices == ASSUME LoginInv PROVE TypeOK /\ SecurityStageCompletes /\ OfferedRight /\ AgreedLimitsHold
<1>1. TypeOK
  BY Zenon DEF LoginInv, TypeOK, Conns, Params, Contexts, Requests, Histories
<1>2. SecurityStageCompletes
  BY Zenon DEF LoginInv, SecurityStageCompletes, Completed, RightLength
<1>3. OfferedRight
  <2>1. ASSUME pdu.offer
        PROVE  /\ {conn.par.recv, conn.par.first, conn.par.max} \subseteq 1 .. 5
               /\ conn.par.first <= conn.par.max
               /\ cfg.type = "normal" => /\ conn.par.hdr = IF Rdma(cfg) THEN "NONE" ELSE cfg.hdr
                                         /\ conn.par.data = cfg.data
    <3>1. cfg \in Cfg /\ conn.par = CopyOperationalParams(cfg)
      BY <2>1, Zenon DEF LoginInv
    <3>2. QED
      BY <3>1, CopyIsLegal, Zenon
  <2>2. ctx.st = "wait" /\ conn.stage = OP_PARMS => OfferedOnce(cfg, g)
    BY Zenon DEF LoginInv
  <2>3. QED
    BY <2>1, <2>2, Zenon DEF OfferedRight, OfferedOnce
<1>4. AgreedLimitsHold
  BY <1>1, Zenon DEF LoginInv, AgreedLimitsHold, Limited
<1>5. QED
  BY <1>1, <1>2, <1>3, <1>4, Zenon

\* The client as check_for_authentication leaves it.
LEMMA InitialClient ==
  /\ AclInit \in Client
  /\ \A c \in Cfg : /\ ConfiguredClient(c) \in Client
                    /\ ConfiguredClient(c).phase # "ERROR" =>
                         /\ Handshake(c, ConfiguredClient(c), ConfiguredClient(c).sendKeys)
                         /\ ConfiguredClient(c).phase = "CONFIGURE"
                         /\ ConfiguredClient(c).sendKeys = {"AuthMethod"}
<1> USE SMTT(30)
<1>1. ASSUME NEW a \in Client
      PROVE  /\ AclSetAuthMethodValid(a) \in Client
             /\ AclSetAuthMethodValid(a).phase = a.phase /\ AclSetAuthMethodValid(a).algs = a.algs
             /\ AclSetAuthMethodValid(a).authRmt = a.authRmt
             /\ AclSetAuthMethodValid(a).sendKeys = {"AuthMethod"}
  <2> DEFINE v == [a EXCEPT !.valid = ValidMethods(a)]
             b == InitSendBlock(v)
             d == [b EXCEPT !.sendT = ~ a.authRmt]
  <2>1. v \in Client /\ v.phase = a.phase /\ v.algs = a.algs /\ v.authRmt = a.authRmt
    BY DEF Client, ValidMethods, Methods
  <2> HIDE DEF v
  <2>2. b \in Client
    BY <2>1, SmallTypes, Zenon
  <2>3. b.phase = a.phase /\ b.algs = a.algs /\ b.authRmt = a.authRmt /\ b.sendKeys = {}
    <3>1. DOMAIN v = ClientFields
      BY <2>1, ClientDomain, Zenon
    <3>2. QED
      BY <2>1, <3>1, Zenon DEF InitSendBlock, ClientFields
  <2> HIDE DEF b
  <2>a. ASSUME NEW t \in BOOLEAN PROVE [b EXCEPT !.sendT = t] \in Client
    BY <2>2 DEF Client
  <2>b. d \in Client
    BY <2>a, Zenon
  <2>c. DOMAIN b = ClientFields
    BY <2>2, ClientDomain, Zenon
  <2>4. d \in Client /\ d.phase = a.phase /\ d.algs = a.algs /\ d.authRmt = a.authRmt /\ d.sendKeys = {}
    BY <2>3, <2>b, <2>c, Zenon DEF ClientFields
  <2> HIDE DEF d
  <2>5. DOMAIN d = ClientFields
    BY <2>4, ClientDomain, Zenon
  <2>6. AclSetAuthMethodValid(a) = SetKeyValue(d, "AuthMethod")
    BY Zenon DEF AclSetAuthMethodValid, v, b, d
  <2>7. SetKeyValue(d, "AuthMethod") \in Client
    BY <2>4, SetKeyType, Zenon DEF KeyTypes
  <2>8. QED
    BY <2>4, <2>5, <2>6, <2>7 DEF SetKeyValue, ClientFields
<1> DEFINE z == [phase |-> "CONFIGURE", local |-> "none", rmt |-> "none", status |-> "none",
         method |-> "not_present", alg |-> "not_present", len |-> 0, algs |-> {},
         authRmt |-> TRUE, passwd |-> FALSE, valid |-> {}, receiving |-> FALSE,
         ends |-> 0, rspFlag |-> FALSE, tSent |-> FALSE, sendT |-> FALSE,
         sendKeys |-> {}, sendDup |-> FALSE, chalLen |-> 0, proc |-> {}]
<1>2. z \in Client /\ z.phase = "CONFIGURE"
  BY Zenon DEF Client, Phases, LocalStates, RmtStates
<1>3. AclInit = AclSetAuthMethodValid(z)
  BY Zenon DEF AclInit
<1> HIDE DEF z
<1>4. AclInit \in Client /\ AclInit.phase = "CONFIGURE"
  BY <1>1, <1>2, <1>3, Zenon
<1>5. ASSUME NEW c \in Cfg
      PROVE  /\ ConfiguredClient(c) \in Client
             /\ ConfiguredClient(c).phase # "ERROR" =>
                  /\ Handshake(c, ConfiguredClient(c), ConfiguredClient(c).sendKeys)
                         /\ ConfiguredClient(c).phase = "CONFIGURE"
                  /\ ConfiguredClient(c).sendKeys = {"AuthMethod"}
  <2> DEFINE p == AclSetPasswd(AclInit)
             l == AclSetChapAlgList(p, c.algs)
             r == [l EXCEPT !.authRmt = Bidirectional(c)]
  <2>0. c.algs \in SUBSET Algs /\ Bidirectional(c) \in BOOLEAN
    BY Zenon DEF Cfg, Bidirectional, Insists
  <2>1. [AclInit EXCEPT !.passwd = TRUE] \in Client /\ [AclInit EXCEPT !.passwd = TRUE].phase = "CONFIGURE"
    BY <1>4, ZenonT(60) DEF Client
  <2>2. p \in Client /\ p.phase = "CONFIGURE"
    BY <1>1, <2>1, Zenon DEF AclSetPasswd
  <2> HIDE DEF p
  <2>3. /\ l \in Client
        /\ l.phase = "ERROR" \/ (l.phase = "CONFIGURE" /\ l.algs = c.algs)
    BY <2>0, <2>2 DEF AclSetChapAlgList, Client, Phases
  <2> HIDE DEF l
  <2>4. /\ r \in Client /\ r.authRmt = Bidirectional(c) /\ r.phase = l.phase /\ r.algs = l.algs
    BY <2>0, <2>3 DEF Client
  <2> HIDE DEF r
  <2>5. ConfiguredClient(c) = IF l.phase = "ERROR" THEN l ELSE AclSetAuthMethodValid(r)
    BY Zenon DEF ConfiguredClient, AclSetAuthRmt, p, l, r
  <2>6. QED
    BY <1>1, <2>3, <2>4, <2>5, Zenon DEF Handshake
<1>6. QED
  BY <1>4, <1>5, Zenon

\* iscsi_login_req from what iscsi_login_begin or a response leaves.
LEMMA RequestKeeps ==
  ASSUME cfg \in Cfg, ctx \in Contexts,
         NEW cn \in Conns, NEW a \in Client, NEW keys \in SUBSET IrrelevantKeys,
         NEW received \in BOOLEAN, NEW f, NEW h \in Histories,
         cn.stage = INITIAL => ctx.count < MaxLogins,
         LoginReq(cn, a, keys, received, f, h),
         cfg' = cfg, acl' = a, irr' \in SUBSET IrrelevantKeys,
         Limited(cfg, cn.par, h.declared),
         AuthBuffers(cfg) /\ cn.stage > SECURITY => Completed(cfg, a, h),
         RequestStage(cfg, cn.stage) = SECURITY =>
           /\ Handshake(cfg, a, a.sendKeys)
           /\ ClaimsAnswered(a) => h.answered \/ "CHAP_R" \in a.sendKeys
           /\ ClaimsProved(a) => h.proved
           /\ RightLength(cfg, a, a.sendKeys) /\ NotOffered(cfg, cn.par, h),
         RequestStage(cfg, cn.stage) = OP_PARMS =>
           IF cn.partial THEN OfferedOnce(cfg, h) ELSE NotOffered(cfg, cn.par, h)
  PROVE  LoginInv'
<1> USE SMTT(30)
<1> DEFINE stage == RequestStage(cfg, cn.stage)
           known == stage \in {SECURITY, OP_PARMS}
           req == IF stage = SECURITY THEN SecurityPdu(cfg, cn.par, a)
                  ELSE OpParmsPdu(cfg, cn.partial, keys)
           sent == known /\ {"text", "send"} \cap f = {}
<1>1. stage \in -1 .. 3 /\ (AuthBuffers(cfg) /\ stage > SECURITY => cn.stage > SECURITY)
  BY DEF RequestStage, Conns, SECURITY, OP_PARMS, INITIAL
<1>2. req \in Requests
  <2>1. SecurityPdu(cfg, cn.par, a) \in Requests
    BY DEF SecurityPdu, SecurityNext, Requests, Client, SECURITY, OP_PARMS, FULL_FEATURE
  <2>2. OpParmsPdu(cfg, cn.partial, keys) \in Requests
    BY DEF OpParmsPdu, Requests, Conns, OP_PARMS, FULL_FEATURE
  <2>3. QED
    BY <2>1, <2>2, ZenonT(60)
<1>3. NoPdu \in Requests /\ NoPdu.auth = {} /\ NoPdu.offer = FALSE
  BY DEF NoPdu, Requests, INITIAL
<1>4. /\ conn' = [cn EXCEPT !.stage = stage]
      /\ pdu' = IF sent THEN req ELSE NoPdu
      /\ ctx' = [ctx EXCEPT
               !.st = IF sent THEN "wait" ELSE "ended",
               !.ret = IF known /\ "text" \notin f /\ "send" \in f THEN "IO_ERROR" ELSE "FAILED",
               !.count = IF cn.stage = INITIAL THEN @ + 1 ELSE @,
               !.cls = "success",
               !.tmo = IF received /\ stage = SECURITY THEN "auth" ELSE "login"]
      /\ g' = IF ~ sent THEN h
              ELSE [h EXCEPT !.turn = ~ @,
                             !.offers = IF req.offer THEN @ + 1 ELSE @,
                             !.digests = IF req.digests /\ @ < 2 THEN @ + 1 ELSE @,
                             !.answered = @ \/ "CHAP_R" \in req.auth]
  BY Zenon DEF LoginReq
<1>a. stage = SECURITY => req.auth = a.sendKeys /\ req.offer = FALSE /\ req.digests = FALSE
  BY Zenon DEF SecurityPdu
<1>b. ASSUME stage = OP_PARMS PROVE req.auth = {} /\ req.offer = ~ cn.partial
  <2>1. req = OpParmsPdu(cfg, cn.partial, keys)
    BY <1>b DEF SECURITY, OP_PARMS
  <2>2. OpParmsPdu(cfg, cn.partial, keys).auth = {}
    BY Zenon DEF OpParmsPdu
  <2>3. OpParmsPdu(cfg, cn.partial, keys).offer = ~ cn.partial
    BY Zenon DEF OpParmsPdu
  <2>4. QED
    BY <2>1, <2>2, <2>3, Zenon
<1>c. ASSUME stage = OP_PARMS, cfg.type = "discovery" \/ ~ Rdma(cfg)
      PROVE  req.digests = ~ cn.partial
  <2>1. req.digests = (cn.partial = (cfg.type = "normal" /\ Rdma(cfg)))
    BY <1>c DEF OpParmsPdu, SECURITY, OP_PARMS
  <2>2. (cfg.type = "normal" /\ Rdma(cfg)) = FALSE
    BY <1>c, Zenon
  <2>3. cn.partial \in BOOLEAN
    BY Zenon DEF Conns
  <2>4. QED
    BY <2>1, <2>2, <2>3, ZenonT(60)
<1>5. /\ stage = SECURITY => req.auth = a.sendKeys /\ req.offer = FALSE /\ req.digests = FALSE
      /\ stage = OP_PARMS =>
           /\ req.auth = {} /\ req.offer = ~ cn.partial
           /\ cfg.type = "discovery" \/ ~ Rdma(cfg) => req.digests = ~ cn.partial
  BY <1>a, <1>b, <1>c, Zenon
<1> HIDE DEF stage, req
<1>6. conn' \in Conns /\ conn'.stage = stage /\ conn'.par = cn.par
  BY <1>1, <1>4, Zenon DEF Conns
<1>7. pdu' \in Requests
  BY <1>2, <1>3, <1>4, Zenon
<1>8. ctx' \in Contexts /\ (ctx'.st = "wait" => sent)
  <2>1. (IF cn.stage = INITIAL THEN ctx.count + 1 ELSE ctx.count) \in 0 .. MaxLogins
    BY LoginsAssumption DEF Contexts
  <2>2. QED
    BY <1>4, <2>1, ZenonT(60) DEF Contexts, Outcomes, Classes
<1>9. /\ g' \in Histories /\ g'.declared = h.declared /\ g'.proved = h.proved
      /\ h.answered => g'.answered
      /\ sent => /\ g'.answered = (h.answered \/ "CHAP_R" \in req.auth)
                 /\ g'.offers = (IF req.offer THEN h.offers + 1 ELSE h.offers)
                 /\ g'.digests = (IF req.digests /\ h.digests < 2 THEN h.digests + 1 ELSE h.digests)
  <2>1. CASE ~ sent
    BY <1>4, <2>1, Zenon
  <2>2. CASE sent
    <3>1. g' = [h EXCEPT !.turn = ~ @,
                         !.offers = IF req.offer THEN @ + 1 ELSE @,
                         !.digests = IF req.digests /\ @ < 2 THEN @ + 1 ELSE @,
                         !.answered = @ \/ "CHAP_R" \in req.auth]
      BY <1>4, <2>2, Zenon
    <3>2. /\ (IF req.offer THEN h.offers + 1 ELSE h.offers) \in Nat
          /\ (IF req.digests /\ h.digests < 2 THEN h.digests + 1 ELSE h.digests) \in 0 .. 2
      BY DEF Histories
    <3>3. QED
      BY <3>1, <3>2, <2>2, ZenonT(60) DEF Histories
  <2>3. QED
    BY <2>1, <2>2, Zenon
<1>10. Limited(cfg', conn'.par, g'.declared)
  BY <1>6, <1>9, Zenon
<1>11. AuthBuffers(cfg') /\ conn'.stage > SECURITY => Completed(cfg', acl', g')
  BY <1>1, <1>6, <1>9, Zenon DEF Completed
<1>12. CASE ~ sent
  <2>1. pdu'.auth = {} /\ pdu'.offer = FALSE /\ ctx'.st # "wait"
    BY <1>3, <1>4, <1>8, <1>12, ZenonT(60)
  <2>2. QED
    BY <1>6, <1>7, <1>8, <1>9, <1>10, <1>11, <2>1, Zenon DEF LoginInv, RightLength
<1>13. CASE sent /\ stage = SECURITY
  <2>1. pdu' = req /\ pdu'.auth = a.sendKeys /\ pdu'.offer = FALSE
    BY <1>4, <1>5, <1>13, Zenon
  <2>2. /\ Handshake(cfg, a, a.sendKeys)
        /\ ClaimsAnswered(a) => h.answered \/ "CHAP_R" \in a.sendKeys
        /\ ClaimsProved(a) => h.proved
        /\ RightLength(cfg, a, a.sendKeys) /\ NotOffered(cfg, cn.par, h)
    BY <1>13, Zenon DEF stage
  <2>3. /\ g'.answered = (h.answered \/ "CHAP_R" \in a.sendKeys)
        /\ NotOffered(cfg, conn'.par, g')
    BY <1>5, <1>6, <1>9, <1>13, <2>2, Zenon DEF NotOffered
  <2>4. Underway(cfg', acl', pdu'.auth, g')
    BY <1>9, <2>1, <2>2, <2>3, Zenon DEF Underway
  <2>5. stage # OP_PARMS
    BY <1>13 DEF SECURITY, OP_PARMS
  <2>6. RightLength(cfg', acl', pdu'.auth)
    BY <2>1, <2>2, Zenon DEF RightLength
  <2>7. QED
    BY <1>6, <1>7, <1>8, <1>9, <1>10, <1>11, <1>13, <2>1, <2>3, <2>4, <2>5, <2>6, Zenon DEF LoginInv
<1>14. CASE sent /\ stage = OP_PARMS
  <2>1. pdu' = req /\ pdu'.auth = {} /\ pdu'.offer = ~ cn.partial
    BY <1>4, <1>5, <1>14, Zenon
  <2>2. IF cn.partial THEN OfferedOnce(cfg, h) ELSE NotOffered(cfg, cn.par, h)
    BY <1>14, Zenon DEF stage
  <2>3. OfferedOnce(cfg, g')
    <3>1. cn.partial \in BOOLEAN /\ cfg.type \in {"normal", "discovery"} /\ h.offers \in Nat /\ h.digests \in 0 .. 2
      BY Zenon DEF Conns, Cfg, Histories
    <3>2. CASE cn.partial
      BY <1>5, <1>9, <1>14, <2>2, <3>1, <3>2, Zenon DEF OfferedOnce
    <3>3. CASE ~ cn.partial
      <4>1. h.offers = 0 /\ h.digests = 0
        BY <2>2, <3>3, Zenon DEF NotOffered
      <4>2. req.offer /\ (cfg.type = "discovery" \/ ~ Rdma(cfg) => req.digests)
        BY <1>5, <1>14, <3>3, ZenonT(60)
      <4>3. g'.offers = 1
        BY <1>9, <1>14, <4>1, <4>2
      <4>4. ASSUME cfg.type = "discovery" \/ ~ Rdma(cfg) PROVE g'.digests = 1
        BY <1>9, <1>14, <4>1, <4>2, <4>4
      <4>5. QED
        BY <4>3, <4>4, Zenon DEF OfferedOnce
    <3>4. QED
      BY <3>1, <3>2, <3>3, Zenon
  <2>4. pdu'.offer => conn'.par = CopyOperationalParams(cfg')
    BY <1>6, <2>1, <2>2, Zenon DEF NotOffered
  <2>5. stage # SECURITY
    BY <1>14 DEF SECURITY, OP_PARMS
  <2>6. QED
    BY <1>6, <1>7, <1>8, <1>9, <1>10, <1>11, <1>14, <2>1, <2>3, <2>4, <2>5, Zenon DEF LoginInv, RightLength
<1>15. QED
  BY <1>12, <1>13, <1>14, Zenon

\* iscsi_login_begin.
LEMMA BeginKeeps == ASSUME LoginInv, NEW f, Begin(f) PROVE LoginInv'
<1> USE SMTT(30)
<1> DEFINE a == IF AuthBuffers(cfg) THEN ConfiguredClient(cfg) ELSE AclInit
           cn == FreshConn
<1>1. /\ cfg \in Cfg /\ conn \in Conns /\ irr \in SUBSET IrrelevantKeys /\ ctx \in Contexts
      /\ ctx.count < MaxLogins /\ acl' = a /\ cfg' = cfg /\ irr' = irr
  BY Zenon DEF LoginInv, Begin
<1>2. a \in Client
  BY <1>1, InitialClient, Zenon
<1>3. CopyOperationalParams(cfg) \in Params /\ Limited(cfg, CopyOperationalParams(cfg), 6)
  BY <1>1, CopyIsLegal, Zenon
<1>4. /\ cn \in Conns /\ cn.stage = INITIAL /\ cn.partial = FALSE
      /\ cn.par = CopyOperationalParams(cfg)
  <2> DEFINE q == CopyOperationalParams(cfg)
  <2>1. cn = [conn EXCEPT !.par = q, !.stage = INITIAL, !.partial = FALSE]
    BY Zenon DEF FreshConn
  <2>2. q \in Params /\ INITIAL \in -1 .. 3
    BY <1>3 DEF INITIAL
  <2> HIDE DEF cn, q
  <2>3. cn \in Conns
    BY <1>1, <2>1, <2>2, Zenon DEF Conns
  <2>4. cn.par = q /\ cn.stage = INITIAL /\ cn.partial = FALSE
    BY <1>1, <2>1, Zenon DEF Conns
  <2>5. QED
    BY <2>3, <2>4, Zenon DEF q
<1>5. /\ NoHistory \in Histories /\ NoHistory.declared = 6 /\ NoHistory.offers = 0
      /\ NoHistory.digests = 0 /\ NoHistory.answered = FALSE /\ NoHistory.proved = FALSE
  BY DEF NoHistory, Histories, Lengths
<1>6. INITIAL < SECURITY /\ SECURITY < OP_PARMS /\ INITIAL \notin {SECURITY, OP_PARMS} /\ ~ (INITIAL > SECURITY)
  BY DEF INITIAL, SECURITY, OP_PARMS
<1>7. CASE a.phase = "ERROR"
  <2>1. /\ conn' = cn /\ pdu' = NoPdu /\ g' = NoHistory
        /\ ctx' = [ctx EXCEPT !.st = "ended", !.ret = "FAILED", !.cls = "success", !.count = @ + 1]
    BY <1>7, Zenon DEF Begin
  <2>2. pdu' \in Requests /\ pdu'.auth = {} /\ pdu'.offer = FALSE
    BY <2>1 DEF NoPdu, Requests, INITIAL
  <2>3. ctx' \in Contexts /\ ctx'.st = "ended"
    <3>1. ctx.count + 1 \in 0 .. MaxLogins
      BY <1>1, LoginsAssumption DEF Contexts
    <3>2. QED
      BY <1>1, <2>1, <3>1, Zenon DEF Contexts, Outcomes, Classes
  <2> HIDE DEF a, cn
  <2>4. QED
    BY <1>1, <1>2, <1>3, <1>4, <1>5, <1>6, <2>1, <2>2, <2>3, Zenon DEF LoginInv, RightLength
<1>8. CASE a.phase # "ERROR"
  <2>1. LoginReq(cn, a, irr, FALSE, f, NoHistory)
    BY <1>8, Zenon DEF Begin
  <2>2. NotOffered(cfg, cn.par, NoHistory)
    BY <1>4, <1>5, Zenon DEF NotOffered
  <2>3. ASSUME RequestStage(cfg, cn.stage) = SECURITY
        PROVE  /\ Handshake(cfg, a, a.sendKeys) /\ ~ ClaimsAnswered(a) /\ ~ ClaimsProved(a)
               /\ RightLength(cfg, a, a.sendKeys)
    <3>1. a = ConfiguredClient(cfg)
      <4> HIDE DEF cn
      <4>1. AuthBuffers(cfg)
        BY <1>4, <2>3 DEF RequestStage, INITIAL, SECURITY, OP_PARMS
      <4>2. QED
        BY <4>1, Zenon
    <3>2. /\ Handshake(cfg, a, a.sendKeys) /\ a.sendKeys = {"AuthMethod"}
          /\ a.phase = "CONFIGURE"
      BY <1>1, <1>8, <3>1, InitialClient, Zenon
    <3>3. QED
      BY <3>2, Zenon DEF RightLength, ClaimsAnswered, ClaimsProved
  <2> HIDE DEF a, cn
  <2>4. QED
    BY <1>1, <1>2, <1>3, <1>4, <1>5, <1>6, <2>1, <2>2, <2>3, RequestKeeps, Zenon
<1>9. QED
  BY <1>7, <1>8, Zenon

\* A response as the environment may send it.
RspOK(r) ==
    /\ r.cls \in Classes /\ r.T \in BOOLEAN /\ r.nsg \in 0 .. 3 /\ r.sec \in KeyValues
    /\ r.op \in OpKeys /\ (conn.stage # OP_PARMS => r.op.xmit = 0)
    /\ r.kind \in NotAResponse \cup {"ok", "too_big", "version", "address", "unknown", "flaw"}

\* iscsi_login_rsp.
LEMMA ResponseStep == ASSUME LoginInv, NEW r, RspOK(r), NEW f, LoginRsp(r, f) PROVE LoginInv'
<1> USE SMTT(30)
<1> DEFINE head == HeaderVerdict(r)
           a == ScannedAcl(r, f)
           ret == IF head # "OK" THEN head ELSE TextVerdict(r, a)
           scanned == r.cls \in {"success", "redirect"} /\ head = "OK"
           cn == ScannedConn(r, ret = "OK")
           h == Observed(r)
           b == AclRecvBegin(acl)
           p == IF conn.stage = OP_PARMS THEN OpParams(cfg, conn.par, r.op) ELSE conn.par
<1>1. /\ cfg \in Cfg /\ conn \in Conns /\ irr \in SUBSET IrrelevantKeys /\ ctx \in Contexts
      /\ acl \in Client /\ pdu \in Requests /\ g \in Histories /\ ctx.st = "wait" /\ cfg' = cfg
      /\ conn.stage \in {SECURITY, OP_PARMS} /\ Limited(cfg, conn.par, g.declared)
      /\ conn.stage = SECURITY => /\ Underway(cfg, acl, pdu.auth, g)
                                  /\ NotOffered(cfg, conn.par, g)
      /\ conn.stage = OP_PARMS => OfferedOnce(cfg, g)
      /\ AuthBuffers(cfg) /\ conn.stage > SECURITY => Completed(cfg, acl, g)
  BY Zenon DEF LoginInv, LoginRsp
<1>2. NoPdu \in Requests /\ NoPdu.auth = {} /\ NoPdu.offer = FALSE
  BY DEF NoPdu, Requests, INITIAL
<1>3. /\ head \in Outcomes /\ TextVerdict(r, a) \in Outcomes /\ ret \in Outcomes
      /\ r.kind \in NotAResponse => Unread(r.kind) \in Outcomes
  BY Zenon DEF HeaderVerdict, TextVerdict, Outcomes, Unread, NotAResponse
<1>4. CASE r.kind \in NotAResponse \/ ~ scanned
  <2>1. UNCHANGED <<conn, irr, acl, g>>
    BY <1>4, Zenon DEF LoginRsp
  <2>2. \E v \in Outcomes, k \in Classes : End(v, k)
    <3>0. ctx.cls \in Classes /\ r.cls \in Classes
      BY <1>1, Zenon DEF RspOK, Contexts
    <3>1. CASE r.kind \in NotAResponse
      <4>1. End(Unread(r.kind), ctx.cls)
        BY <3>1, Zenon DEF LoginRsp
      <4>2. QED
        BY <1>3, <3>0, <3>1, <4>1, Zenon
    <3>2. CASE r.kind \notin NotAResponse /\ ~ scanned
      <4>1. End(CASE r.cls = "success" -> head [] r.cls = "redirect" -> "REDIRECT" [] OTHER -> "OK", r.cls)
        BY <3>2, Zenon DEF LoginRsp
      <4>2. (CASE r.cls = "success" -> head [] r.cls = "redirect" -> "REDIRECT" [] OTHER -> "OK") \in Outcomes
        BY <1>3, Zenon DEF Outcomes
      <4>3. QED
        BY <3>0, <4>1, <4>2, Zenon
    <3>3. QED
      BY <1>4, <3>1, <3>2, Zenon
  <2>3. pdu' = NoPdu /\ ctx' \in Contexts /\ ctx'.st = "ended"
    BY <1>1, <2>2, Zenon DEF End, Contexts
  <2>4. QED
    BY <1>1, <1>2, <2>1, <2>3, Zenon DEF LoginInv, RightLength
<1>5. CASE r.kind \notin NotAResponse /\ scanned
  <2>0. acl' = a /\ irr' = ScannedIrr(r, ret = "OK")
    BY <1>5, Zenon DEF LoginRsp
  <2>1. irr' \in SUBSET IrrelevantKeys
    <3>1. Irrelevant(r.op) \subseteq IrrelevantKeys
      <4>1. r.op.keys \subseteq SessionKeys
        BY Zenon DEF RspOK, OpKeys
      <4>2. QED
        BY <4>1, Zenon DEF Irrelevant, IrrelevantKeys
    <3>2. QED
      BY <1>1, <2>0, <3>1, Zenon DEF ScannedIrr
  <2>2. a \in Client
    <3>1. b \in Client
      <4>1. ASSUME NEW x \in Client, NEW t \in BOOLEAN
            PROVE  [x EXCEPT !.receiving = TRUE, !.tSent = t, !.proc = {}] \in Client
        BY Zenon DEF Client
      <4>2. acl.sendT \in BOOLEAN /\ [acl EXCEPT !.phase = "ERROR"] \in Client
        BY <1>1 DEF Client, Phases
      <4>3. QED
        BY <1>1, <4>1, <4>2, NextPhaseType, SmallTypes, Zenon DEF AclRecvBegin
    <3>2. QED
      BY <1>1, <3>1, RecvEndType, Zenon DEF ScannedAcl, RspOK
  <2>3. /\ h \in Histories /\ h.offers = g.offers /\ h.digests = g.digests /\ h.answered = g.answered
        /\ g.proved => h.proved
        /\ "CHAP_C" \in pdu.auth /\ r.sec["CHAP_R"] = "right" /\ r.sec["CHAP_N"] = "ok" => h.proved
        /\ h.declared = IF r.op.xmit = 0 THEN g.declared ELSE r.op.xmit
    <3>1. r.op.xmit \in Lengths /\ g.declared \in Lengths /\ g.proved \in BOOLEAN
      BY <1>1, Zenon DEF RspOK, OpKeys, Histories
    <3>2. QED
      BY <1>1, <3>1, Zenon DEF Observed, Histories
  <2>4. p \in Params /\ Limited(cfg, p, h.declared)
    <3>1. CASE conn.stage = OP_PARMS
      <4>1. conn.par \in Params /\ g.declared \in Lengths /\ r.op \in OpKeys
        BY <1>1, Zenon DEF Conns, Histories, RspOK
      <4>2. QED
        BY <1>1, <2>3, <3>1, <4>1, OpParamsLimited, Zenon
    <3>2. CASE conn.stage # OP_PARMS
      BY <1>1, <2>3, <3>2, Zenon DEF RspOK, Conns
    <3>3. QED
      BY <3>1, <3>2, Zenon
  <2>5. /\ cn \in Conns /\ cn.par = p
        /\ cn.stage = IF ret = "OK" /\ r.T THEN r.nsg ELSE conn.stage
        /\ ret = "OK" => cn.partial = ~ r.T
    <3>1. r.nsg \in -1 .. 3 /\ r.T \in BOOLEAN
      BY DEF RspOK
    <3> HIDE DEF p, ret
    <3>2. cn = IF ret # "OK" THEN [conn EXCEPT !.par = p]
               ELSE [conn EXCEPT !.par = p, !.partial = ~ r.T, !.stage = IF r.T THEN r.nsg ELSE @]
      BY Zenon DEF ScannedConn, p
    <3>3. CASE ret # "OK"
      BY <1>1, <2>4, <3>2, <3>3, Zenon DEF Conns
    <3>4. CASE ret = "OK" /\ r.T
      <4>1. cn = [conn EXCEPT !.par = p, !.partial = FALSE, !.stage = r.nsg]
        BY <3>2, <3>4, Zenon
      <4> HIDE DEF cn
      <4>2. cn \in Conns
        BY <1>1, <2>4, <3>1, <4>1, Zenon DEF Conns
      <4>3. cn.par = p /\ cn.partial = FALSE /\ cn.stage = r.nsg
        BY <1>1, <4>1, Zenon DEF Conns
      <4>4. QED
        BY <3>4, <4>2, <4>3, Zenon
    <3>5. CASE ret = "OK" /\ ~ r.T
      <4>1. cn = [conn EXCEPT !.par = p, !.partial = TRUE]
        BY <1>1, <3>2, <3>5, Zenon DEF Conns
      <4> HIDE DEF cn
      <4>2. cn \in Conns
        BY <1>1, <2>4, <4>1, Zenon DEF Conns
      <4>3. cn.par = p /\ cn.partial = TRUE /\ cn.stage = conn.stage
        BY <1>1, <4>1, Zenon DEF Conns
      <4>4. QED
        BY <3>5, <4>2, <4>3, Zenon
    <3>6. QED
      BY <3>1, <3>3, <3>4, <3>5, Zenon
  <2>6. ret = "OK" => TextVerdict(r, a) = "OK"
    BY <1>3, Zenon
  \* A response the security stage survives.
  <2>7. ASSUME ret = "OK", conn.stage = SECURITY
        PROVE  /\ r.T => Completed(cfg, a, h)
               /\ ~ r.T => /\ Handshake(cfg, a, a.sendKeys) /\ RightLength(cfg, a, a.sendKeys)
                           /\ ClaimsAnswered(a) => h.answered \/ "CHAP_R" \in a.sendKeys
                           /\ ClaimsProved(a) => h.proved
    <3>1. TextVerdict(r, a) = "OK"
      BY <2>6, <2>7, Zenon
    <3>2. /\ b.phase # "ERROR" /\ r.kind \notin {"address", "unknown"}
          /\ AuthStatus(a) \in {"CONTINUE", "PASS"}
      BY <2>7, <3>1, Zenon DEF TextVerdict
    <3>3. a = AclRecvEnd(b, r.T, r.sec, r.kind = "flaw", Credentials(cfg), f)
      BY <2>7, <3>2, Zenon DEF ScannedAcl
    <3>4. Underway(cfg, acl, pdu.auth, g)
      BY <1>1, <2>7, Zenon
    <3>5. r.T \in BOOLEAN /\ r.sec \in KeyValues
      BY Zenon DEF RspOK
    <3>6. Handshake(cfg, acl, pdu.auth)
      BY <3>4, Zenon DEF Underway
    <3> DEFINE flaw == r.kind = "flaw"
               shown == /\ "CHAP_C" \in pdu.auth /\ r.sec["CHAP_R"] = "right"
                        /\ r.sec["CHAP_N"] = "ok"
    <3>7. /\ a = AclRecvEnd(AclRecvBegin(acl), r.T, r.sec, flaw, Credentials(cfg), f)
          /\ AclRecvBegin(acl).phase # "ERROR"
      BY <3>2, <3>3, ZenonT(60)
    <3> HIDE DEF a, h, b, flaw
    <3>8. /\ r.T => /\ a.phase = "DONE" /\ a.status = "PASS"
                    /\ Bidirectional(cfg) => ClaimsProved(acl) \/ shown
                    /\ a.method = "CHAP" => ClaimsAnswered(acl)
          /\ ~ r.T => /\ Handshake(cfg, a, a.sendKeys) /\ RightLength(cfg, a, a.sendKeys)
                      /\ ClaimsAnswered(a) => ClaimsAnswered(acl) \/ "CHAP_R" \in a.sendKeys
                      /\ ClaimsProved(a) => ClaimsProved(acl) \/ shown
      BY <3>2, <3>5, <3>6, <3>7, ResponseKeeps
    <3>9. (ClaimsProved(acl) \/ shown => h.proved) /\ (ClaimsAnswered(acl) => h.answered)
      BY <2>3, <3>4, Zenon DEF Underway
    <3>10. QED
      BY <3>8, <3>9, Zenon DEF Completed
  <2>8. AuthBuffers(cfg) /\ cn.stage > SECURITY => Completed(cfg, a, h)
    <3>1. CASE conn.stage = OP_PARMS
      <4>1. a = acl
        BY <3>1 DEF ScannedAcl, OP_PARMS, SECURITY
      <4>2. OP_PARMS > SECURITY
        BY DEF OP_PARMS, SECURITY
      <4>3. QED
        BY <1>1, <2>3, <3>1, <4>1, <4>2, Zenon DEF Completed
    <3>2. CASE conn.stage = SECURITY
      <4>1. CASE ret = "OK" /\ r.T
        BY <2>7, <3>2, <4>1, ZenonT(60)
      <4>2. CASE ~ (ret = "OK" /\ r.T)
        BY <2>5, <3>2, <4>2 DEF SECURITY
      <4>3. QED
        BY <4>1, <4>2, Zenon
    <3>3. QED
      BY <1>1, <3>1, <3>2, Zenon
  <2>9. CASE r.cls = "redirect" \/ ret # "OK"
    <3>1. /\ conn' = cn /\ g' = h
          /\ End(IF r.cls = "redirect" THEN "REDIRECT" ELSE ret, r.cls)
      BY <1>5, <2>9, Zenon DEF LoginRsp
    <3>2. (IF r.cls = "redirect" THEN "REDIRECT" ELSE ret) \in Outcomes /\ r.cls \in Classes
      BY <1>3, Zenon DEF Outcomes, RspOK
    <3>3. pdu' = NoPdu /\ ctx' \in Contexts /\ ctx'.st = "ended"
      BY <1>1, <3>1, <3>2, Zenon DEF End, Contexts
    <3> HIDE DEF a, cn, h, ret, p
    <3>4. QED
      BY <1>1, <1>2, <2>0, <2>1, <2>2, <2>3, <2>4, <2>5, <2>8, <3>1, <3>3, Zenon DEF LoginInv, RightLength
  <2>10. CASE r.cls # "redirect" /\ ret = "OK" /\ cn.stage = FULL_FEATURE
    <3>1. /\ conn' = cn /\ g' = h /\ pdu' = NoPdu
          /\ ctx' = [ctx EXCEPT !.st = "full", !.ret = "OK", !.cls = "success"]
      BY <1>5, <2>10, Zenon DEF LoginRsp
    <3>2. ctx' \in Contexts /\ ctx'.st = "full"
      BY <1>1, <3>1, Zenon DEF Contexts, Outcomes, Classes
    <3> HIDE DEF a, cn, h, ret, p
    <3>3. QED
      BY <1>1, <1>2, <2>0, <2>1, <2>2, <2>3, <2>4, <2>5, <2>8, <3>1, <3>2 DEF LoginInv, RightLength
  <2>11. CASE r.cls # "redirect" /\ ret = "OK" /\ cn.stage # FULL_FEATURE
    <3>1. LoginReq(cn, a, irr', TRUE, f, h)
      BY <1>5, <2>11, Zenon DEF LoginRsp
    <3> HIDE DEF a, cn, h, ret, p
    <3>2. cn.stage \in 0 .. 3 /\ RequestStage(cfg, cn.stage) = cn.stage /\ cn.stage # INITIAL
      <4>1. cn.stage \in 0 .. 3
        BY <1>1, <2>5 DEF SECURITY, OP_PARMS, RspOK
      <4>2. cn.stage # INITIAL
        BY <4>1 DEF INITIAL
      <4>3. QED
        BY <4>1, <4>2, Zenon DEF RequestStage
    <3>3. r.T => cn.stage > conn.stage
      <4>1. r.cls = "success" /\ head = "OK"
        BY <1>5, <2>11, Zenon
      <4>2. r.T => r.nsg > conn.stage
        BY <1>1, <4>1 DEF HeaderVerdict, RspOK, Conns
      <4>3. QED
        BY <2>5, <2>11, <4>2, Zenon
    <3>4. ASSUME cn.stage = SECURITY
          PROVE  /\ Handshake(cfg, a, a.sendKeys)
                 /\ ClaimsAnswered(a) => h.answered \/ "CHAP_R" \in a.sendKeys
                 /\ ClaimsProved(a) => h.proved
                 /\ RightLength(cfg, a, a.sendKeys) /\ NotOffered(cfg, cn.par, h)
      <4>1. ~ r.T /\ conn.stage = SECURITY
        BY <1>1, <2>5, <2>11, <3>3, <3>4 DEF SECURITY, OP_PARMS
      <4>2. conn.stage # OP_PARMS
        BY <4>1 DEF SECURITY, OP_PARMS
      <4>3. NotOffered(cfg, cn.par, h)
        BY <1>1, <2>3, <2>5, <4>1, <4>2, Zenon DEF NotOffered, p
      <4>4. QED
        BY <2>7, <2>11, <4>1, <4>3, Zenon
    <3>5. ASSUME cn.stage = OP_PARMS
          PROVE  IF cn.partial THEN OfferedOnce(cfg, h) ELSE NotOffered(cfg, cn.par, h)
      <4>0. r.T \in BOOLEAN /\ cn.partial = ~ r.T
        BY <2>5, <2>11, Zenon DEF RspOK
      <4>1. CASE r.T
        <5>1. conn.stage = SECURITY /\ conn.stage # OP_PARMS
          BY <1>1, <3>3, <3>5, <4>1 DEF SECURITY, OP_PARMS
        <5>2. NotOffered(cfg, cn.par, h)
          BY <1>1, <2>3, <2>5, <5>1, Zenon DEF NotOffered, p
        <5>3. QED
          BY <4>0, <4>1, <5>2, Zenon
      <4>2. CASE ~ r.T
        <5>1. conn.stage = OP_PARMS
          BY <2>5, <3>5, <4>2, Zenon
        <5>2. OfferedOnce(cfg, h)
          BY <1>1, <2>3, <5>1, Zenon DEF OfferedOnce
        <5>3. QED
          BY <4>0, <4>2, <5>2, Zenon
      <4>3. QED
        BY <4>0, <4>1, <4>2, Zenon
    <3>6. Limited(cfg, cn.par, h.declared)
      BY <2>4, <2>5, ZenonT(60)
    <3>7. QED
      BY <1>1, <2>0, <2>1, <2>2, <2>3, <2>5, <2>8, <3>1, <3>2, <3>4, <3>5, <3>6, RequestKeeps, Zenon
  <2>12. QED
    BY <2>9, <2>10, <2>11, Zenon
<1>6. QED
  BY <1>4, <1>5, Zenon

LEMMA InitHolds == Init => LoginInv
<1> USE SMTT(30)
<1> SUFFICES ASSUME Init PROVE LoginInv
  BY Zenon
<1>1. cfg \in Cfg
  BY CfgsAssumption, Zenon DEF Init
<1>2. CopyOperationalParams(cfg) \in Params /\ Limited(cfg, CopyOperationalParams(cfg), 6)
  BY <1>1, CopyIsLegal, Zenon
<1>3. conn \in Conns /\ conn.stage = -1 /\ conn.par = CopyOperationalParams(cfg)
  BY <1>2 DEF Init, Conns, INITIAL
<1>4. ctx \in Contexts /\ ctx.st = "idle"
  BY LoginsAssumption DEF Init, Contexts, Outcomes, Classes
<1>5. pdu \in Requests /\ pdu.auth = {} /\ pdu.offer = FALSE
  BY DEF Init, NoPdu, Requests, INITIAL
<1>6. g \in Histories /\ g.declared = 6
  BY DEF Init, NoHistory, Histories, Lengths
<1>7. irr \in SUBSET IrrelevantKeys /\ acl \in Client
  BY InitialClient, Zenon DEF Init
<1>8. QED
  BY <1>1, <1>2, <1>3, <1>4, <1>5, <1>6, <1>7 DEF LoginInv, RightLength, SECURITY

LEMMA StepKeeps == LoginInv /\ [Next]_vars => LoginInv'
<1> USE SMTT(30)
<1> SUFFICES ASSUME LoginInv, [Next]_vars PROVE LoginInv'
  BY Zenon
<1>1. CASE UNCHANGED vars
  BY <1>1, Zenon DEF vars, LoginInv
<1>2. CASE Start
  BY <1>2, BeginKeeps, Zenon DEF Start
<1>3. CASE Receive
  <2>0. NoKeys \in KeyValues /\ NoOpKeys \in OpKeys /\ NoOpKeys.xmit = 0
    <3>1. NoOpKeys \in OpKeys /\ NoOpKeys.xmit = 0
      BY DEF NoOpKeys, OpKeys, Lengths
    <3>2. NoKeys \in KeyValues
      BY Zenon DEF NoKeys, KeyValues, KeyTypes
    <3>3. QED
      BY <3>1, <3>2, Zenon
  <2>1. ASSUME NEW kind \in NotAResponse \cup {"ok", "too_big", "version", "address", "unknown", "flaw"},
               NEW cls \in Classes, NEW csg, NEW t \in BOOLEAN, NEW nsg \in 0 .. 3,
               NEW sec \in KeyValues, NEW op \in OpKeys, conn.stage # OP_PARMS => op.xmit = 0
        PROVE  RspOK(Rsp(kind, cls, csg, t, nsg, sec, op))
    BY <2>1, Zenon DEF RspOK, Rsp
  <2>2. ASSUME NEW m \in Moves, NEW sec \in IF conn.stage = SECURITY THEN SecKeySets ELSE {NoKeys},
               NEW op \in IF conn.stage = OP_PARMS THEN OpKeySets ELSE {NoOpKeys},
               NEW f \in Fails, LoginRsp(Rsp("ok", "success", conn.stage, m[1], m[2], sec, op), f)
        PROVE  LoginInv'
    <3>1. m[1] \in BOOLEAN /\ m[2] \in 0 .. 3
      <4>1. CASE m = <<FALSE, SECURITY>>
        BY <4>1 DEF SECURITY
      <4>2. CASE \E n \in 0 .. 3 : m = <<TRUE, n>>
        BY <4>2
      <4>3. QED
        BY <4>1, <4>2, Zenon DEF Moves
    <3>2. sec \in KeyValues /\ op \in OpKeys /\ (conn.stage # OP_PARMS => op.xmit = 0)
      BY <2>0, KeySetsAssumption, Zenon
    <3>3. RspOK(Rsp("ok", "success", conn.stage, m[1], m[2], sec, op))
      BY <2>1, <3>1, <3>2, Zenon DEF Classes
    <3>4. QED
      BY <2>2, <3>3, ResponseStep, Zenon
  <2>3. ASSUME NEW kind \in {"ok", "too_big", "version", "address", "unknown", "flaw"},
               NEW cls \in Classes, NEW csg \in {SECURITY, OP_PARMS}, NEW t \in BOOLEAN,
               LoginRsp(Rsp(kind, cls, csg, t, FULL_FEATURE, NoKeys, NoOpKeys), {})
        PROVE  LoginInv'
    <3>1. RspOK(Rsp(kind, cls, csg, t, FULL_FEATURE, NoKeys, NoOpKeys))
      <4>1. FULL_FEATURE \in 0 .. 3
        BY DEF FULL_FEATURE
      <4>2. QED
        BY <2>0, <2>1, <4>1, Zenon
    <3>2. QED
      BY <2>3, <3>1, ResponseStep, Zenon
  <2>4. ASSUME NEW kind \in NotAResponse,
               LoginRsp(Rsp(kind, "success", conn.stage, FALSE, SECURITY, NoKeys, NoOpKeys), {})
        PROVE  LoginInv'
    <3>1. RspOK(Rsp(kind, "success", conn.stage, FALSE, SECURITY, NoKeys, NoOpKeys))
      <4>1. SECURITY \in 0 .. 3 /\ "success" \in Classes
        BY DEF SECURITY, Classes
      <4>2. QED
        BY <2>0, <2>1, <4>1, Zenon
    <3>2. QED
      BY <2>4, <3>1, ResponseStep, Zenon
  <2>5. QED
    BY <1>3, <2>2, <2>3, <2>4, ZenonT(60) DEF Receive
<1>4. QED
  BY <1>1, <1>2, <1>3, Zenon DEF Next

LEMMA LoginInvariant == Spec => []LoginInv
BY InitHolds, StepKeeps, PTL DEF Spec

-----------------------------------------------------------------------------
(* The theorems, for any records, any keys of the responses, any digests and *)
(* any number of logins. *)

\* A session that authenticates leaves the security stage only with the
\* authentication passed, the target's answer to our challenge seen if it was
\* asked for, and our own answer sent; and a challenge is as long as the digest
\* agreed on (acl_recv_end under login.c's check_security_stage_status).
THEOREM AuthenticationIsComplete == Spec => []SecurityStageCompletes
<1>1. LoginInv => SecurityStageCompletes
  BY InvSuffices, Zenon
<1>2. QED
  BY <1>1, LoginInvariant, PTL

\* The operational keys are offered once per login, as configured and legal
\* (iscsi_copy_operational_params, fill_op_params_text).
THEOREM OffersAreRight == Spec => []OfferedRight
<1>1. LoginInv => OfferedRight
  BY InvSuffices, Zenon
<1>2. QED
  BY <1>1, LoginInvariant, PTL

\* What the full feature phase uses is within what both sides allow
\* (get_op_params_text_keys).
THEOREM LimitsAreKept == Spec => []AgreedLimitsHold
<1>1. LoginInv => AgreedLimitsHold
  BY InvSuffices, Zenon
<1>2. QED
  BY <1>1, LoginInvariant, PTL
=============================================================================
