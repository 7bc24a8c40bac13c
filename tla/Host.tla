-------------------------------- MODULE Host --------------------------------
(***************************************************************************)
(* The card side of iscsiadm: the network settings of offload cards         *)
(* (iface mode, apply and applyall), their CHAP table, their flash nodes     *)
(* and statistics (host mode), and ping.  Two iscsiadm processes work on     *)
(* one card through the netlink socket of usr/netlink.c; iscsid is not       *)
(* asked.                                                                    *)
(*                                                                          *)
(* The settings are counted in one pass over the iface records and filled    *)
(* into a vector of that size in a second one.  A record is a set of named   *)
(* values; an empty string and a zero are names it does not have.            *)
(***************************************************************************)
EXTENDS Naturals, Sequences, FiniteSets, FiniteSetsExt
LOCAL INSTANCE TLC

CONSTANTS HostScenes,    \* what is in the records and on the card, and what A and B run
          NumEntries     \* CHAP entries that fit in one answer

VARIABLES ifaces,        \* the iface records by name
          card,          \* CHAP indices, flash nodes, pings under way
          adm            \* the two processes

hostvars == <<ifaces, card, adm>>

\* A scene starts with nothing under way on the card; chap_tbl_idx is not negative.
ASSUME HostAssumption ==
  /\ NumEntries \in Nat \ {0}
  /\ \A sc \in HostScenes :
       /\ DOMAIN sc.card = {"chap", "max", "nodes", "flash", "pings", "good"}
       /\ sc.card.max \in Nat /\ sc.card.chap \subseteq 0..sc.card.max
       /\ sc.card.pings = {} /\ sc.card.good = {}
       /\ sc.card.nodes = DOMAIN sc.card.flash
       /\ \A n \in sc.card.nodes : DOMAIN sc.card.flash[n] = {"st", "v4", "set"}
       /\ sc.a.idx \in Nat /\ sc.b.idx \in Nat /\ sc.a.second \in Nat /\ sc.b.second \in Nat

Admins == {"A", "B"}

Switch == {"enable", "disable"}

-----------------------------------------------------------------------------
(* iface records *)

Get(i, n) == IF n \in DOMAIN i.set THEN i.set[n] ELSE ""

Dotted(x) == x \in {"1.1", "0.0"}
Colon(x) == x \in {"1:1", ":bad"}

iface_get_iptype(i) ==
  IF Get(i, "ipaddress") = ""
  THEN IF i.v6name THEN 6 ELSE 4
  ELSE IF Get(i, "bootproto") # "dhcp" /\ ~Dotted(Get(i, "ipaddress")) THEN 6 ELSE 4

\* Broken variant: a switch that is off is not counted.
EnCnt_On(i, names) == Cardinality({n \in names : Get(i, n) = "enable"})

EnCnt(i, names) == Cardinality({n \in names : Get(i, n) \in Switch})

ValCnt(i, names) == Cardinality({n \in names : Get(i, n) # ""})

If(b) == IF b THEN 1 ELSE 0

iface_get_common_param_count(i) ==
  1 + If(Get(i, "vlan_state") # "disable" /\ Get(i, "vlan_id") # "")
    + EnCnt(i, {"delayed_ack", "nagle", "tcp_wsf_state", "tcp_timestamp", "redirect", "header_digest",
                "data_digest", "immediate_data", "initial_r2t", "data_seq_inorder", "data_pdu_inorder",
                "chap_auth", "bidi_chap", "strict_login_comp", "discovery_auth", "discovery_logout"})
    + ValCnt(i, {"mtu", "port", "tcp_wsf", "tcp_timer_scale", "def_task_mgmt_tmo", "erl",
                 "max_recv_dlength", "first_burst_len", "max_burst_len", "max_out_r2t"})

CountIpv4(i) ==
  LET a == IF Get(i, "bootproto") = "dhcp" THEN 1
           ELSE IF Dotted(Get(i, "ipaddress"))
                THEN 2 + If(Dotted(Get(i, "subnet_mask"))) + If(Dotted(Get(i, "gateway")))
                ELSE 0
  IN IF a = 0 THEN 0
     ELSE a + 1 + EnCnt(i, {"dhcp_dns", "dhcp_slp_da", "tos_state", "gratuitous_arp",
                            "dhcp_alt_client_id_state", "dhcp_req_vendor_id_state",
                            "dhcp_vendor_id_state", "dhcp_learn_iqn", "fragmentation",
                            "incoming_forwarding"})
            + ValCnt(i, {"dhcp_alt_client_id", "dhcp_vendor_id", "tos", "ttl"})
            + iface_get_common_param_count(i)

CountIpv6(i) ==
  LET one(auto, addr) == IF auto THEN 1 ELSE 2 * If(Colon(Get(i, addr)))
      a == one(Get(i, "ipv6_autocfg") \in {"nd", "dhcpv6", "nd,dhcpv6"}, "ipaddress")
         + one(Get(i, "linklocal_autocfg") = "auto", "ipv6_linklocal")
         + one(Get(i, "router_autocfg") = "auto", "ipv6_router")
  IN IF a = 0 THEN 0
     ELSE a + 1 + EnCnt(i, {"gratuitous_neighbor_adv", "mld"})
            + ValCnt(i, {"flow_label", "traffic_class", "hop_limit", "nd_reachable_tmo",
                         "nd_rexmit_time", "nd_stale_tmo", "dup_addr_detect_cnt",
                         "router_adv_link_mtu"})
            + iface_get_common_param_count(i)

CountOne(i) ==
  IF Get(i, "state") = "disable" THEN 1
  ELSE IF iface_get_iptype(i) = 4 THEN CountIpv4(i) ELSE CountIpv6(i)

\* the records a command goes through: its own, or all with the hardware address
Chosen(c) == IF c.op = "apply" THEN {c.iface} ELSE {n \in DOMAIN ifaces : ifaces[n].hw = c.hw}

iface_get_param_count(rs) == MapThenSumSet(LAMBDA n : CountOne(rs[n]), DOMAIN rs)

-----------------------------------------------------------------------------
(* the second pass *)

\* one filled entry of the vector: interface number, parameter and value
Entry(num, n, v) == {[num |-> num, param |-> n, val |-> v]}

FillState(i, n) == IF Get(i, n) \in Switch THEN Entry(i.num, n, Get(i, n)) ELSE {}

FillInt(i, n) == IF Get(i, n) # "" THEN Entry(i.num, n, Get(i, n)) ELSE {}

FillStr(i, n) == IF Get(i, n) # "" THEN Entry(i.num, n, Get(i, n)) ELSE {}

FillVlanId(i) == Entry(i.num, "vlan_id", IF Get(i, "vlan_id") = "4096" THEN "0" ELSE Get(i, "vlan_id"))

FillBootproto(i) == Entry(i.num, "bootproto", IF Get(i, "bootproto") = "dhcp" THEN "dhcp" ELSE "static")

\* these three leave the number 0
FillAutocfg(i) ==
  Entry(0, "ipv6_autocfg", IF Get(i, "ipv6_autocfg") \in {"nd", "dhcpv6"} THEN Get(i, "ipv6_autocfg") ELSE "disable")

FillLinklocalAutocfg(i) ==
  Entry(0, "linklocal_autocfg", IF Get(i, "linklocal_autocfg") = "auto" THEN "enable" ELSE "disable")

FillRouterAutocfg(i) ==
  Entry(0, "router_autocfg", IF Get(i, "router_autocfg") = "auto" THEN "enable" ELSE "disable")

FillIpv4Addr(i, n) == IF Get(i, n) = "1.1" THEN Entry(i.num, n, Get(i, n)) ELSE {}

FillIpv6Addr(i, n) == IF Get(i, n) = "1:1" THEN Entry(i.num, n, Get(i, n)) ELSE {}

States(i, names) == UNION {FillState(i, n) : n \in names}
Ints(i, names) == UNION {FillInt(i, n) : n \in names}

AddressIpv4(i) ==
  IF Get(i, "bootproto") = "dhcp" THEN FillBootproto(i)
  ELSE IF Dotted(Get(i, "ipaddress"))
       THEN FillBootproto(i) \cup UNION {FillIpv4Addr(i, n) : n \in {"ipaddress", "subnet_mask", "gateway"}}
       ELSE {}

FillIpv4(i) ==
  States(i, {"dhcp_dns", "dhcp_slp_da", "tos_state", "gratuitous_arp", "dhcp_alt_client_id_state",
             "dhcp_req_vendor_id_state", "dhcp_vendor_id_state", "dhcp_learn_iqn", "fragmentation",
             "incoming_forwarding"})
  \cup Ints(i, {"tos", "ttl"})
  \cup FillStr(i, "dhcp_alt_client_id") \cup FillStr(i, "dhcp_vendor_id")

AddressIpv6(i) ==
  LET one(auto, fill, addr) == IF auto THEN fill
                               ELSE IF Colon(Get(i, addr)) THEN fill \cup FillIpv6Addr(i, addr) ELSE {}
  IN one(Get(i, "ipv6_autocfg") \in {"nd", "dhcpv6", "nd,dhcpv6"}, FillAutocfg(i), "ipaddress")
     \cup one(Get(i, "linklocal_autocfg") = "auto", FillLinklocalAutocfg(i), "ipv6_linklocal")
     \cup one(Get(i, "router_autocfg") = "auto", FillRouterAutocfg(i), "ipv6_router")

FillIpv6(i) ==
  States(i, {"gratuitous_neighbor_adv", "mld"})
  \cup Ints(i, {"flow_label", "traffic_class", "hop_limit", "nd_reachable_tmo", "nd_rexmit_time",
                "nd_stale_tmo", "dup_addr_detect_cnt", "router_adv_link_mtu"})

FillNetCommon(i) ==
  States(i, {"state", "vlan_state", "delayed_ack", "nagle", "tcp_wsf_state", "tcp_timestamp", "redirect"})
  \cup Ints(i, {"mtu", "port", "tcp_wsf", "tcp_timer_scale"})
  \cup (IF Get(i, "vlan_state") # "disable" /\ Get(i, "vlan_id") # "" THEN FillVlanId(i) ELSE {})

FillIscsiCommon(i) ==
  States(i, {"header_digest", "data_digest", "immediate_data", "initial_r2t", "data_seq_inorder",
             "data_pdu_inorder", "chap_auth", "bidi_chap", "strict_login_comp", "discovery_auth",
             "discovery_logout"})
  \cup Ints(i, {"def_task_mgmt_tmo", "erl", "max_recv_dlength", "first_burst_len", "max_out_r2t",
                "max_burst_len"})

WithPort(i) == IF Get(i, "port") = "" THEN [i EXCEPT !.set = @ @@ ("port" :> "3260")] ELSE i

\* lost: the parameters for which iscsi_nla_alloc finds no memory
BuildOne(i0, lost) ==
  LET i == WithPort(i0)
      v4 == iface_get_iptype(i) = 4
      kept(es) == {e \in es : e.param \notin lost}
      addr == kept(IF v4 THEN AddressIpv4(i) ELSE AddressIpv6(i))
      own == kept(IF v4 THEN FillIpv4(i) ELSE FillIpv6(i))
  IN IF Get(i, "state") = "disable" THEN kept(FillState(i, "state"))
     ELSE IF addr = {} THEN {}
     ELSE addr \cup own \cup kept(FillNetCommon(i)) \cup kept(FillIscsiCommon(i))

iface_build_net_config(rs, lost) == UNION {{<<n, e>> : e \in BuildOne(rs[n], lost)} : n \in DOMAIN rs}

-----------------------------------------------------------------------------
(* iface mode *)

Set(p, f) == adm' = [adm EXCEPT ![p] = [x \in DOMAIN @ |-> IF x \in DOMAIN f THEN f[x] ELSE @[x]]]

Finish(p, r) == Set(p, [pc |-> "done", rc |-> r])

At(p, ops, pc) == adm[p].cmd.op \in ops /\ adm[p].pc = pc

\* the first pass, and the vector
ApplyCount(p) ==
  /\ At(p, {"apply", "apply_all"}, "start")
  /\ LET rs == [n \in Chosen(adm[p].cmd) |-> ifaces[n]]
         n == iface_get_param_count(rs)
     IN IF n = 0 THEN Finish(p, "ok") ELSE Set(p, [pc |-> "fill", recs |-> rs, cnt |-> n])
  /\ UNCHANGED <<ifaces, card>>

\* the second pass reads the records of applyall again; what a write behind the vector does is open
ApplyFill(p) ==
  /\ At(p, {"apply", "apply_all"}, "fill")
  /\ LET c == adm[p].cmd
         rs == IF c.op = "apply" THEN adm[p].recs ELSE [n \in Chosen(c) |-> ifaces[n]]
         used == iface_build_net_config(rs, c.lost)
         next == IF used = {} \/ ~c.trans THEN {"err"}
                 ELSE IF c.host = "zero" THEN {"ok"}
                 ELSE IF ~c.open THEN {"err"} ELSE {"call"}
     IN \E x \in next \cup (IF Cardinality(used) > adm[p].cnt THEN {"died"} ELSE {}) :
          Set(p, [pc |-> IF x = "call" THEN x ELSE "done", rc |-> x, recs |-> rs,
                  used |-> used, changed |-> rs # adm[p].recs])
  /\ UNCHANGED <<ifaces, card>>

ApplyCall(p) ==
  /\ At(p, {"apply", "apply_all"}, "call")
  /\ \E r \in {"ok", "err"} : (adm[p].cmd.host = "none" => r = "err") /\ Finish(p, r)
  /\ UNCHANGED <<ifaces, card>>

\* the parameters of this update that the other records of the interface share
SharedNames == {"vlan_state", "vlan_id"}

Updated(i, set) == [i EXCEPT !.set = set @@ @]

Part(set, names) == [n \in DOMAIN set \cap names |-> set[n]]

UpdateStart(p) ==
  /\ At(p, {"update"}, "start")
  /\ LET c == adm[p].cmd
         sync == IF c.sync /\ c.trans
                 THEN {n \in DOMAIN ifaces : ifaces[n].hw = ifaces[c.iface].hw /\ ifaces[n].num = ifaces[c.iface].num}
                 ELSE {}
     IN IF DOMAIN c.set = {} \/ ~c.trans THEN Finish(p, "inval") ELSE Set(p, [pc |-> "sync", left |-> sync])
  /\ UNCHANGED <<ifaces, card>>

UpdateSync(p) ==
  /\ At(p, {"update"}, "sync")
  /\ \E n \in adm[p].left :
       /\ ifaces' = [ifaces EXCEPT ![n] = Updated(@, Part(adm[p].cmd.set, SharedNames))]
       /\ Set(p, [left |-> adm[p].left \ {n}])
  /\ UNCHANGED card

UpdateOwn(p) ==
  /\ At(p, {"update"}, "sync") /\ adm[p].left = {}
  /\ LET c == adm[p].cmd
         own == IF c.sync THEN Part(c.set, DOMAIN c.set \ SharedNames) ELSE c.set
     IN ifaces' = [ifaces EXCEPT ![c.iface] = Updated(@, own)]
  /\ Finish(p, "ok")
  /\ UNCHANGED card

-----------------------------------------------------------------------------
(* the CHAP table of the card *)

\* the first NumEntries entries from idx on
GetChap(idx) == {i \in card.chap : i >= idx /\ Cardinality({j \in card.chap : idx <= j /\ j < i}) < NumEntries}

\* Broken variant: goes on by the number of entries.
NextChapIdx_Count(idx, got) == idx + Cardinality(got)

NextChapIdx(idx, got) == IF got = {} THEN idx ELSE Max(got) + 1

\* a successful answer leaves the number of bytes read in rc
ChapShow(p) ==
  /\ At(p, {"chap_show"}, "start")
  /\ LET got == GetChap(adm[p].idx)
         again == {i \in got : \E k \in 1..2 : <<i, k>> \in adm[p].out}
         out == adm[p].out \cup (again \X {2}) \cup ((got \ again) \X {1})
     IN \/ Finish(p, "err")
        \/ /\ adm[p].cmd.trans /\ adm[p].cmd.open
           /\ IF Cardinality(got) # NumEntries THEN Set(p, [out |-> out, pc |-> "done", rc |-> "bytes"])
              ELSE Set(p, [out |-> out, idx |-> NextChapIdx(adm[p].idx, got)])
  /\ UNCHANGED <<ifaces, card>>

\* the direction of the pair, as the names say
ChapType(ps) ==
  LET last(ns) == IF \E k \in 1..Len(ps) : ps[k] \in ns
                  THEN ps[Max({k \in 1..Len(ps) : ps[k] \in ns})] ELSE "none"
      user == last({"username", "username_in"})
      pass == last({"password", "password_in"})
  IN IF user = "username" /\ pass = "password" THEN "out"
     ELSE IF user = "username_in" /\ pass = "password_in" THEN "in" ELSE "none"

\* index, type, name, password and its length
ChapConfig(lost) == {"index", "type", "username", "password", "password_length"} \ lost

\* the calls and what they return
kset_chap == {"ok", "busy", "err"}
kdelete_chap == {"bytes", "busy", "err"}
kget_host_stats == {"bytes", "err"}

ChapSet(p) ==
  /\ At(p, {"chap_new"}, "start")
  /\ LET c == adm[p].cmd
         rcs == IF c.params = <<>> THEN {"ok"}
                ELSE IF ~c.trans \/ ChapType(c.params) = "none" THEN {"inval"}
                ELSE IF Len(c.params) > 2 \/ ChapConfig(c.lost) = {} \/ ~c.open THEN {"err"}
                ELSE kset_chap
     IN \E r \in rcs :
          /\ card' = [card EXCEPT !.chap = IF r = "ok" /\ c.params # <<>> THEN @ \cup {c.idx} ELSE @]
          /\ Finish(p, r)
  /\ UNCHANGED ifaces

ChapDelete(p) ==
  /\ At(p, {"chap_delete"}, "start")
  /\ LET c == adm[p].cmd
         rcs == IF c.idx > card.max THEN {"ok"} ELSE IF c.trans /\ c.open THEN kdelete_chap ELSE {"err"}
     IN \E r \in rcs :
          /\ card' = [card EXCEPT !.chap = IF r = "bytes" THEN @ \ {c.idx} ELSE @]
          /\ Finish(p, r)
  /\ UNCHANGED ifaces

-----------------------------------------------------------------------------
(* flash nodes: [st |-> "none", "saved" or "in", v4, set |-> who wrote each parameter] *)

Flash(p) == card.flash[adm[p].cmd.idx]

\* every operation but show needs an index, and all of them a transport; the info is read from sysfs
FlashStart(p) ==
  /\ At(p, {"flash_show", "flash_new", "flash_delete", "flash_update", "flash_login", "flash_logout"}, "start")
  /\ LET c == adm[p].cmd
         gone == Flash(p).st = "none"
     IN IF c.idx \notin card.nodes /\ c.op \notin {"flash_show", "flash_new"} THEN Finish(p, "inval")
        ELSE IF ~c.trans THEN Finish(p, "notfound")
        ELSE IF c.op = "flash_show"
             THEN Finish(p, IF c.idx \notin card.nodes
                           THEN IF \A n \in card.nodes : card.flash[n].st = "none" THEN "no_objs" ELSE "ok"
                           ELSE IF gone THEN "err" ELSE "ok")
        ELSE IF c.op = "flash_update" /\ (gone \/ ~c.known) THEN Finish(p, IF gone THEN "err" ELSE "inval")
        ELSE IF ~c.open THEN Finish(p, "internal")
        ELSE Set(p, [pc |-> "call", v4 |-> c.op = "flash_update" /\ Flash(p).v4])
  /\ UNCHANGED <<ifaces, card>>

\* Broken variant: everything that was read is sent.
FlashConfig_All(p) == DOMAIN Flash(p).set

\* an address must be of the node's family
FlashFills(p, n) == n \notin adm[p].cmd.lost /\ (n = "ipaddr" => adm[p].cmd.addr4 = adm[p].v4)

\* the parameters of an update that can be filled
FlashConfig(p) == {n \in adm[p].cmd.names : FlashFills(p, n)}

\* what the node holds after these parameters were written
FlashWrite(p, used) ==
  LET old == Flash(p).set IN [n \in used \cup DOMAIN old |-> IF n \in used THEN p ELSE old[n]]

FlashUpdate(p) ==
  /\ At(p, {"flash_update"}, "call")
  /\ LET used == FlashConfig(p)
         rcs == IF used = {} \/ Flash(p).st = "none" THEN {"err"} ELSE {"ok", "err"}
     IN \E r \in rcs :
          /\ card' = IF r = "ok" THEN [card EXCEPT !.flash[adm[p].cmd.idx].set = FlashWrite(p, used)] ELSE card
          /\ Finish(p, r)
  /\ UNCHANGED ifaces

FlashNew(p) ==
  /\ At(p, {"flash_new"}, "call")
  /\ \E n \in {m \in card.nodes : card.flash[m].st = "none"} :
        card' = [card EXCEPT !.flash[n].st = "saved"] /\ Finish(p, "ok")
  /\ UNCHANGED ifaces

FlashNewFails(p) == At(p, {"flash_new"}, "call") /\ Finish(p, "err") /\ UNCHANGED <<ifaces, card>>

\* what the card answers: the node must exist, be logged out or be logged in
FlashCall(p, op, from, to, refused) ==
  /\ At(p, {op}, "call")
  /\ \E r \in IF Flash(p).st \in from THEN {"ok", "err"} ELSE {refused} :
       /\ card' = IF r = "ok" THEN [card EXCEPT !.flash[adm[p].cmd.idx] = [@ EXCEPT !.st = to]] ELSE card
       /\ Finish(p, r)
  /\ UNCHANGED ifaces

FlashDelete(p) == FlashCall(p, "flash_delete", {"saved"}, "none", "err")
FlashLogin(p) == FlashCall(p, "flash_login", {"saved"}, "in", IF Flash(p).st = "in" THEN "exists" ELSE "err")
FlashLogout(p) == FlashCall(p, "flash_logout", {"in"}, "saved", IF Flash(p).st = "saved" THEN "notfound" ELSE "err")

\* exec_host_stats_op
HostStats(p) ==
  /\ At(p, {"stats"}, "start")
  /\ IF adm[p].cmd.trans /\ adm[p].cmd.open THEN \E r \in kget_host_stats : Finish(p, r) ELSE Finish(p, "err")
  /\ UNCHANGED <<ifaces, card>>

-----------------------------------------------------------------------------
(* ping: the card knows number k of process p as <<p, k>>                     *)

\* rand gives the ids, from the second in which the process called srand; two sequences of rand are taken
\* to have no value in common
PingId(p, k) == <<adm[p].cmd.second, k>>

PingStart(p) ==
  /\ At(p, {"ping"}, "start")
  /\ LET c == adm[p].cmd IN
     IF ~c.valid \/ ~c.trans \/ c.host = "zero" THEN Finish(p, "inval")
     ELSE Set(p, [pc |-> IF c.uip THEN "uip" ELSE "send"])
  /\ UNCHANGED <<ifaces, card>>

\* one ping is over: the socket is closed, the outcome printed; the last one leaves its rc
PingOver(p, r, status) ==
  Set(p, [rc |-> IF adm[p].sent = adm[p].cmd.count THEN r ELSE "", sent |-> adm[p].sent + 1, nl |-> <<>>,
          completed |-> adm[p].completed \cup (IF r = "ok" /\ status = 0 THEN {adm[p].sent} ELSE {}),
          pc |-> IF adm[p].sent = adm[p].cmd.count THEN "done" ELSE IF adm[p].cmd.uip THEN "uip" ELSE "send"])

\* what the answer of iscsiuio means for a request
UipAnswer(command, rsp) ==
  IF rsp = "up" THEN "ok" ELSE IF command = "iface" \/ rsp = "initializing" THEN "again" ELSE "err"

\* one request to iscsiuio: no daemon, a failed write or read, five reads without an answer, or an answer
uip_broadcast(command) ==
  {"conn", "comm", "err", "again"} \cup {UipAnswer(command, rsp) : rsp \in {"up", "initializing", "failed"}}

\* for cards of iscsiuio: the settings first, then the ping
UipPing(p) ==
  /\ At(p, {"ping"}, "uip")
  /\ \E a \in uip_broadcast("iface") : \E b \in uip_broadcast("ping") :
       LET r == IF a \in {"ok", "again"} THEN b ELSE a IN
       /\ PingOver(p, r, 0)
       /\ card' = [card EXCEPT !.good = IF r = "ok" THEN @ \cup {<<p, adm[p].sent>>} ELSE @]
  /\ UNCHANGED ifaces

\* ksend_ping writes the request, and the card may be done with it before the answer is read
KsendPing(p) ==
  /\ At(p, {"ping"}, "send")
  /\ IF adm[p].cmd.open THEN /\ card' = [card EXCEPT !.pings = @ \cup {<<p, adm[p].sent>>}]
                             /\ Set(p, [pc |-> "answer", nl |-> <<>>])
     ELSE PingOver(p, "err", 0) /\ UNCHANGED card
  /\ UNCHANGED ifaces

\* __kipc_call handles what lies before the answer, and then ping_event is reset
PingAnswer(p) ==
  /\ At(p, {"ping"}, "answer")
  /\ \/ Set(p, [pc |-> "poll", nl |-> <<>>]) /\ UNCHANGED card
     \/ \E r \in {"not_supp", "inval", "err"} :
          PingOver(p, r, 0) /\ card' = [card EXCEPT !.pings = @ \ {<<p, adm[p].sent>>}]
  /\ UNCHANGED ifaces

\* the completion goes to every open netlink socket
PingComp(ping) ==
  /\ ping \in card.pings
  /\ \E status \in {0, 1} :
       /\ adm' = [p \in Admins |-> IF adm[p].pc \in {"answer", "poll"}
                                   THEN [adm[p] EXCEPT !.nl = Append(@, <<PingId(ping[1], ping[2]), status>>)] ELSE adm[p]]
       /\ card' = [card EXCEPT !.pings = @ \ {ping}, !.good = IF status = 0 THEN @ \cup {ping} ELSE @]
  /\ UNCHANGED ifaces

\* ctldev_handle takes the event; one with another id is left alone
OwnEvent(p, ev) == ev[1] = PingId(p, adm[p].sent)

PingPoll(p) ==
  /\ At(p, {"ping"}, "poll") /\ adm[p].nl # <<>>
  /\ LET ev == Head(adm[p].nl) IN
     IF OwnEvent(p, ev) THEN PingOver(p, "ok", ev[2]) ELSE Set(p, [nl |-> Tail(adm[p].nl)])
  /\ UNCHANGED <<ifaces, card>>

\* the 30 seconds are over, or the socket fails
PingTimeout(p) ==
  /\ At(p, {"ping"}, "poll")
  /\ \E r \in {"timeout", "trans", "internal"} : PingOver(p, r, 0)
  /\ UNCHANGED <<ifaces, card>>

-----------------------------------------------------------------------------
NoCmd == [op |-> "none", iface |-> "", hw |-> "", host |-> "ok", lost |-> {}, trans |-> TRUE, open |-> TRUE,
          sync |-> FALSE, set |-> [n \in {} |-> ""], idx |-> 0, params |-> <<>>, names |-> {}, addr4 |-> TRUE,
          known |-> TRUE, valid |-> TRUE, uip |-> FALSE, count |-> 1, second |-> 0]

NewAdm(c) == [cmd |-> c, pc |-> IF c.op = "none" THEN "done" ELSE "start", rc |-> "", recs |-> <<>>, cnt |-> 0,
              used |-> {}, changed |-> FALSE, left |-> {}, idx |-> 0, out |-> {}, v4 |-> FALSE, nl |-> <<>>,
              sent |-> 1, completed |-> {}]

NoCard == [chap |-> {}, max |-> 0, nodes |-> {}, flash |-> <<>>, pings |-> {}, good |-> {}]

HostIdle == ifaces = <<>> /\ card = NoCard /\ adm = [p \in Admins |-> NewAdm(NoCmd)]

HostInit == \E sc \in HostScenes :
              /\ ifaces = sc.ifaces /\ card = sc.card
              /\ adm = [p \in Admins |-> NewAdm(IF p = "A" THEN sc.a ELSE sc.b)]

AdmStep(p) ==
  \/ ApplyCount(p) \/ ApplyFill(p) \/ ApplyCall(p) \/ UpdateStart(p) \/ UpdateSync(p) \/ UpdateOwn(p)
  \/ ChapShow(p) \/ ChapSet(p) \/ ChapDelete(p)
  \/ FlashStart(p) \/ FlashUpdate(p) \/ FlashNew(p) \/ FlashNewFails(p)
  \/ FlashDelete(p) \/ FlashLogin(p) \/ FlashLogout(p) \/ HostStats(p)
  \/ PingStart(p) \/ UipPing(p) \/ KsendPing(p) \/ PingAnswer(p) \/ PingPoll(p) \/ PingTimeout(p)

HostNext == (\E p \in Admins : AdmStep(p)) \/ (\E ping \in card.pings : PingComp(ping))

\* a process runs until it ends
HostFairness == \A p \in Admins : <>[](adm[p].pc # "done") => []<><<AdmStep(p)>>_hostvars

HostSpec == HostInit /\ [][HostNext]_hostvars /\ HostFairness

-----------------------------------------------------------------------------
Filled(p) == adm[p].used # {}

NoPort(p) == \E n \in DOMAIN adm[p].recs : Get(adm[p].recs[n], "port") = ""

\* every value of the records is one the code accepts, and memory was there for it
AllGood(p) ==
  /\ adm[p].cmd.lost = {}
  /\ \A n \in DOMAIN adm[p].recs :
       LET i == adm[p].recs[n] IN
       /\ Get(i, "state") \in Switch /\ Get(i, "vlan_state") \in Switch
       /\ \A a \in {"ipaddress", "subnet_mask", "gateway", "ipv6_linklocal", "ipv6_router"} :
            Get(i, a) \notin {"0.0", ":bad"}

\* The vector iface_apply_net_config allocates from the first pass holds what the second pass fills in, and
\* all of it is used when every value is good, except for a record without a port, which only the
\* second pass gives one, and for records that change between the two passes (__iface_get_param_count
\* and __iface_build_net_config).
CountMatchesFill ==
  \A p \in Admins : Filled(p) /\ ~NoPort(p) /\ ~adm[p].changed =>
     /\ Cardinality(adm[p].used) <= adm[p].cnt
     /\ AllGood(p) => Cardinality(adm[p].used) = adm[p].cnt

\* The vector is never too short for what is filled in (iface_get_param_count "Returns netconfig parameter
\* count", and param_count entries are allocated for it).
VectorSuffices == \A p \in Admins : Cardinality(adm[p].used) <= adm[p].cnt

\* get_host_chap_info prints no entry twice and leaves none out that was there when it began and that nobody
\* deletes, however many answers it takes and whatever another process adds meanwhile.  "Ping k completed" is
\* printed only for a ping that the card completed with success: kexec_ping takes no late completion of an
\* earlier ping for it, and one of another process only if that process called srand in the same second,
\* when "get unique ping id" gives both the same ids.
CardTruth ==
  \A p \in Admins :
    /\ \A e \in adm[p].out : e[2] = 1
    /\ adm[p].rc = "bytes" /\ adm[p].cmd.op = "chap_show" =>
         \A i \in card.chap : \/ <<i, 1>> \in adm[p].out
                              \/ \E q \in Admins \ {p} : adm[q].cmd.op = "chap_new" /\ adm[q].cmd.idx = i
    /\ \A k \in adm[p].completed : \E q \in Admins : PingId(q, k) = PingId(p, k) /\ <<q, k>> \in card.good

\* What a successful update wrote to a flash node stays until another one writes the same parameter:
\* iscsi_set_flashnode_params reads the whole node and sends only the parameters it was given.
FlashKept ==
  [][\A n \in card.nodes : \A x \in DOMAIN card.flash[n].set :
       card'.flash[n].set[x] # card.flash[n].set[x] =>
         \E p \in Admins : adm[p].cmd.op = "flash_update" /\ x \in adm[p].cmd.names /\ card'.flash[n].set[x] = p]_hostvars

\* Every command ends: the listing moves on with every answer and a ping gives up after its time.
HostEnds == \A p \in Admins : <>(adm[p].pc = "done")
=============================================================================
