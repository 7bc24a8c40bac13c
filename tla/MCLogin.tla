------------------------------- MODULE MCLogin -------------------------------
(* Login for TLC: two digests, and records and keys that exercise each of the *)
(* code's cases. *)
EXTENDS Login

MCAlgs == {"md5", "sha1"}
MCDigestLen == [a \in MCAlgs |-> IF a = "md5" THEN 16 ELSE 20]

Base == [type |-> "normal", t |-> "tcp", textNego |-> FALSE, passwd |-> TRUE, userIn |-> FALSE,
         passwdIn |-> FALSE, algs |-> {"md5"}, hdr |-> "CRC32C_NONE", data |-> "NONE",
         recv |-> 4, xmit |-> 0, first |-> 4, max |-> 5]

\* Mutual, one way and no authentication, with every kind of operational record.
MCCfgs == {
    [Base EXCEPT !.userIn = TRUE, !.passwdIn = TRUE, !.xmit = 6],
    [Base EXCEPT !.userIn = TRUE],
    [Base EXCEPT !.algs = {}],
    [Base EXCEPT !.passwd = FALSE, !.hdr = "CRC32C", !.data = "NONE_CRC32C", !.xmit = 3],
    [Base EXCEPT !.passwd = FALSE, !.t = "be2iscsi", !.first = 6, !.max = 3],
    [Base EXCEPT !.passwd = FALSE, !.t = "iser", !.xmit = 4, !.recv = 0],
    [Base EXCEPT !.passwd = FALSE, !.t = "cxgbi", !.first = 4, !.max = 1],
    [Base EXCEPT !.type = "discovery", !.recv = 2, !.algs = MCAlgs],
    [Base EXCEPT !.type = "discovery", !.passwd = FALSE, !.textNego = TRUE]}

\* The messages of the handshake, and any one key of each changed.
With(keys) == [k \in KeyTypes |-> IF k \in DOMAIN keys THEN keys[k] ELSE "absent"]
Method == [AuthMethod |-> "CHAP"]
Challenge == [CHAP_A |-> "md5", CHAP_I |-> "ok", CHAP_C |-> "ok"]
Answer == [CHAP_N |-> "ok", CHAP_R |-> "right"]
Messages == {NoKeys, With(Method), With(Challenge), With(Answer)}
KeyValue(k) == {v[k] : v \in KeyValues}
MCSecKeySets == UNION {{[m EXCEPT ![k] = v] : v \in KeyValue(k)} : m \in Messages, k \in KeyTypes}

\* At most two operational keys in one response.
OneKey == {
    [NoOpKeys EXCEPT !.keys = {"InitialR2T"}], [NoOpKeys EXCEPT !.first = 5],
    [NoOpKeys EXCEPT !.xmit = 1], [NoOpKeys EXCEPT !.xmit = 5],
    [NoOpKeys EXCEPT !.conns = "one"], [NoOpKeys EXCEPT !.conns = "more"],
    [NoOpKeys EXCEPT !.hdr = "None"], [NoOpKeys EXCEPT !.hdr = "CRC32C"],
    [NoOpKeys EXCEPT !.hdr = "bad"], [NoOpKeys EXCEPT !.data = "CRC32C"],
    [NoOpKeys EXCEPT !.iRecv = 1], [NoOpKeys EXCEPT !.tRecv = 2], [NoOpKeys EXCEPT !.rdma = "Yes"],
    [NoOpKeys EXCEPT !.rdma = "No"], [NoOpKeys EXCEPT !.last = "erl"],
    [NoOpKeys EXCEPT !.last = "protocol"], [NoOpKeys EXCEPT !.last = "unknown"]}
MCOpKeySets == OneKey \cup {NoOpKeys,
    [NoOpKeys EXCEPT !.max = 2, !.xmit = 1]}

\* Credentials in, none out: the record iscsi_setup_authentication refuses.
MCRefused == {[Base EXCEPT !.passwd = FALSE, !.userIn = TRUE, !.passwdIn = TRUE]}
==============================================================================
