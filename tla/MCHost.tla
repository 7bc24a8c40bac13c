------------------------------- MODULE MCHost -------------------------------
(* Scenes of Host for TLC. *)
EXTENDS Host
LOCAL INSTANCE TLC

On(names, x) == [n \in names |-> x]
Rec(v6, num, set) == [hw |-> "h", v6name |-> v6, num |-> num, set |-> set]
Plain == ("state" :> "enable") @@ ("vlan_state" :> "disable") @@ ("port" :> "1")

Switches4 == {"dhcp_dns", "dhcp_slp_da", "tos_state", "gratuitous_arp", "dhcp_alt_client_id_state",
              "dhcp_req_vendor_id_state", "dhcp_vendor_id_state", "dhcp_learn_iqn", "fragmentation",
              "incoming_forwarding"}
Switches6 == {"gratuitous_neighbor_adv", "mld"}
SwitchesBoth == {"delayed_ack", "nagle", "tcp_wsf_state", "tcp_timestamp", "redirect", "header_digest",
                 "data_digest", "immediate_data", "initial_r2t", "data_seq_inorder", "data_pdu_inorder",
                 "chap_auth", "bidi_chap", "strict_login_comp", "discovery_auth", "discovery_logout"}
Values == {"dhcp_alt_client_id", "dhcp_vendor_id", "tos", "ttl", "flow_label", "traffic_class", "hop_limit",
           "nd_reachable_tmo", "nd_rexmit_time", "nd_stale_tmo", "dup_addr_detect_cnt", "router_adv_link_mtu",
           "mtu", "tcp_wsf", "tcp_timer_scale", "def_task_mgmt_tmo", "erl", "max_recv_dlength",
           "first_burst_len", "max_burst_len", "max_out_r2t", "vlan_id"}
Full == On(Switches4 \cup Switches6 \cup SwitchesBoth, "enable") @@ On(Values, "1")

Dhcp == "bootproto" :> "dhcp"
Static == ("ipaddress" :> "1.1") @@ ("subnet_mask" :> "1.1") @@ ("gateway" :> "1.1")
Nd == ("ipv6_autocfg" :> "nd") @@ ("linklocal_autocfg" :> "auto") @@ ("router_autocfg" :> "auto")
Static6 == ("ipaddress" :> "1:1") @@ ("ipv6_linklocal" :> "1:1") @@ ("ipv6_router" :> "1:1")

Sets == {Plain @@ a @@ b : a \in {Dhcp, Static, Nd, Static6},
                           b \in {Full} \cup {n :> "1" : n \in Values} \cup {n :> "disable" : n \in Switches4 \cup Switches6 \cup SwitchesBoth}}
        \cup {x @@ Plain @@ Full @@ a : a \in {Dhcp, Static, Nd, Static6, "ipv6_autocfg" :> "nd,dhcpv6", "bootproto" :> "none"},
                 x \in {"state" :> "disable", "state" :> "", "vlan_state" :> "enable", "vlan_state" :> "",
                        ("vlan_state" :> "enable") @@ ("vlan_id" :> "4096"), "port" :> "",
                        "ipaddress" :> "0.0", "gateway" :> "0.0", "ipaddress" :> ":bad", "ipv6_router" :> ":bad", "nagle" :> "x"}}

EmptyCard == [NoCard EXCEPT !.max = 9]
Run(rs, c, a, b) == [ifaces |-> rs, card |-> c, a |-> a, b |-> b]
Cmd(o) == [NoCmd EXCEPT !.op = o]
Apply == [Cmd("apply") EXCEPT !.iface = "i"]
ApplyAll == [Cmd("apply_all") EXCEPT !.hw = "h"]
Two == [n \in {"i", "j", "k"} |-> CASE n = "i" -> Rec(FALSE, 0, Plain @@ Dhcp)
                                    [] n = "j" -> Rec(TRUE, 0, Plain @@ Nd)
                                    [] OTHER -> [Rec(TRUE, 1, Plain @@ Nd) EXCEPT !.hw = "g"]]
Vlan == [Cmd("update") EXCEPT !.iface = "i", !.sync = TRUE,
                              !.set = ("vlan_state" :> "enable") @@ ("vlan_id" :> "1") @@ ("mtu" :> "1")]

ApplyScenes ==
  {Run("i" :> Rec(s \in {Plain @@ Nd, Plain @@ Nd @@ Full} \/ "linklocal_autocfg" \in DOMAIN s, 1, s), EmptyCard, Apply, NoCmd) : s \in Sets}
  \cup {Run(Two, EmptyCard, a, b) : a \in {ApplyAll, [ApplyAll EXCEPT !.host = "none"]}, b \in {Vlan, [Vlan EXCEPT !.sync = FALSE], [Vlan EXCEPT !.trans = FALSE]}}
  \cup {Run("i" :> Rec(FALSE, 0, Plain @@ Dhcp @@ Full), EmptyCard, a, NoCmd) :
          a \in {[Apply EXCEPT !.lost = {"bootproto"}], [Apply EXCEPT !.lost = {"mtu", "state"}], [Apply EXCEPT !.host = "zero"],
                 [Apply EXCEPT !.trans = FALSE], [Apply EXCEPT !.open = FALSE]}}

Chaps == [EmptyCard EXCEPT !.chap = {0, 3, 4, 6}]
ChapNew(i, ps) == [Cmd("chap_new") EXCEPT !.idx = i, !.params = ps]
Pair == <<"username", "password">>
ChapScenes ==
  {Run(<<>>, Chaps, Cmd("chap_show"), b) : b \in {ChapNew(1, Pair), ChapNew(5, <<"username_in", "password_in">>), ChapNew(7, <<"username", "password_in">>),
       ChapNew(7, <<>>), ChapNew(7, Pair \o <<"username">>), [ChapNew(7, Pair) EXCEPT !.open = FALSE], [Cmd("chap_delete") EXCEPT !.idx = 3],
       [Cmd("chap_delete") EXCEPT !.idx = 10], [Cmd("chap_delete") EXCEPT !.idx = 3, !.open = FALSE], [Cmd("chap_show") EXCEPT !.open = FALSE], Cmd("stats"), [Cmd("stats") EXCEPT !.trans = FALSE]}}

Nodes == [EmptyCard EXCEPT !.nodes = {0, 1},
            !.flash = [n \in {0, 1} |-> [st |-> IF n = 0 THEN "saved" ELSE "none", v4 |-> TRUE, set |-> [x \in {"port", "erl", "ipaddr"} |-> "flash"]]]]
Fl(o) == [Cmd(o) EXCEPT !.idx = 0]
Upd(ns) == [Fl("flash_update") EXCEPT !.names = ns]
FlashScenes ==
  {Run(<<>>, Nodes, a, b) :
     a \in {Upd({"port", "ipaddr"}), [Upd({"port", "ipaddr"}) EXCEPT !.addr4 = FALSE], Fl("flash_login"), Fl("flash_logout"), Fl("flash_new"),
            [Upd({"port"}) EXCEPT !.known = FALSE], [Upd({"port"}) EXCEPT !.idx = 1]},
     b \in {Upd({"erl"}), Upd({"port"}), [Fl("flash_delete") EXCEPT !.idx = 0], [Fl("flash_delete") EXCEPT !.idx = 7], Fl("flash_login"), Fl("flash_show"),
            [Fl("flash_show") EXCEPT !.idx = 7], [Fl("flash_login") EXCEPT !.trans = FALSE], [Fl("flash_login") EXCEPT !.open = FALSE]}}
  \cup {Run(<<>>, [Nodes EXCEPT !.flash[0].st = "in"], Fl("flash_logout"), b) : b \in {Fl("flash_login"), Fl("flash_delete"), Fl("flash_logout")}}

Ping(n) == [Cmd("ping") EXCEPT !.count = n]
PingScenes == {Run(<<>>, EmptyCard, Ping(2), b) :
                 b \in {[Ping(1) EXCEPT !.second = 1], [Ping(1) EXCEPT !.uip = TRUE],
                        [Ping(1) EXCEPT !.valid = FALSE], [Ping(1) EXCEPT !.open = FALSE]}}
              \cup {Run(<<>>, EmptyCard, Ping(1), Ping(1))}   \* in one second: they share an id

\* a record without a port
PortScenes == {Run("i" :> Rec(FALSE, 0, Dhcp @@ ("state" :> "enable") @@ ("vlan_state" :> "disable")), EmptyCard, Apply, NoCmd)}

MCHostScenes == ApplyScenes \cup ChapScenes \cup FlashScenes \cup PingScenes
=============================================================================
