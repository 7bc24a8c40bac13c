------------------------------- MODULE Stack -------------------------------
(***************************************************************************)
(* The protocols of one interface of iscsiuio: IPv4 with DHCP, IPv6 with    *)
(* neighbour discovery and DHCPv6, path requests of the kernel and pings.   *)
(* N is nic_loop, K the netlink thread that resolves a path, P the ping.    *)
(* The network may deliver any frame of the scene at any time and again.    *)
(*                                                                          *)
(* Addresses are small numbers, 0 is none; an IPv6 address belongs to the   *)
(* net of its tens, net 1 is the link-local one.  A frame has the fields    *)
(*   t kind, ip and mac of the sender, dip destination, x identifier,       *)
(*   a address it is about, o an option is present, m a flag.               *)
(***************************************************************************)
EXTENDS Arp, Sequences, SequencesExt, FiniteSets

CONSTANTS
  SScenes,      \* the scenes, see MCUiod
  MaxRx,        \* bound: frames that are received
  MaxRetry,     \* MAX_ARP_RETRY
  MaxWaits,     \* waits of 250 ms for one answer, 8 in the code
  MaxDiscover,  \* longest pause between two DISCOVER, 60 s
  MaxRequest,   \* longest pause between two REQUEST, 10 s
  MaxSol,       \* IPV6_MAX_ROUTER_SOL_RETRY
  MaxDhcp6,     \* DHCPV6_NUM_OF_RETRY
  MaxAddr6,     \* IPV6_NUM_OF_ADDRESS_ENTRY
  MaxNeigh      \* UIP_ARPTAB_SIZE of ipv6.h

VARIABLE v

NoFrame == [t |-> "none", ip |-> 0, mac |-> 0, dip |-> 0, x |-> 0, a |-> 0, o |-> FALSE, m |-> FALSE]

Broadcast == 99

OurMulti == 98

Net(a) == a \div 10

LinkLocal(a) == Net(a) = 1

(***************************************************************************)
(* DHCP.  parse_msg takes over the address of every reply with our xid and  *)
(* hardware address, and returns the kind of message.  The flag NEWDATA     *)
(* stays set while discovering: after a datagram that is no OFFER the loop   *)
(* runs to its longest pause in one call and starts again.                  *)
(***************************************************************************)

ForUs(x, f) == f.x = x.xid /\ f.m

parse_msg(x, f) == IF ForUs(x, f) THEN [x EXCEPT !.dh.ip = f.a, !.dh.gw = IF f.o THEN f.ip ELSE @] ELSE x

MsgType(x, f) == IF ForUs(x, f) THEN f.t ELSE "none"

Restart(x) == [x EXCEPT !.dh.pt = "begin"]

Discover(x, f, expired) ==
  IF f # NoFrame
  THEN LET y == parse_msg(x, f)
       IN IF MsgType(x, f) = "offer" THEN [y EXCEPT !.dh.state = "offer", !.dh.ticks = 1, !.dh.pt = "req"]
          ELSE Restart([y EXCEPT !.dh.ticks = MaxDiscover])
  ELSE IF ~expired THEN x
  ELSE IF x.dh.ticks < MaxDiscover THEN [x EXCEPT !.dh.ticks = @ + 1] ELSE Restart(x)

Bound(x) == [x EXCEPT !.dh.state = "config", !.dh.pt = "lease", !.host = x.dh.ip, !.gw = x.dh.gw]

Request(x, f, expired) ==
  LET y == IF f # NoFrame THEN parse_msg(x, f) ELSE x
  IN IF f # NoFrame /\ MsgType(x, f) = "ack" THEN Bound(y)
     ELSE IF f = NoFrame /\ ~expired THEN x
     ELSE IF x.dh.ticks <= MaxRequest THEN [y EXCEPT !.dh.ticks = @ + 1] ELSE Restart(y)

handle_dhcp(x, f, expired) ==
  CASE x.dh.pt = "none"  -> x
    [] x.dh.pt = "begin" -> IF f = NoFrame THEN [x EXCEPT !.dh.state = "sending", !.dh.ticks = 1, !.dh.pt = "disc"]
                            ELSE [x EXCEPT !.dh.state = "sending", !.dh.ticks = MaxDiscover]
    [] x.dh.pt = "disc"  -> Discover(x, f, expired)
    [] x.dh.pt = "req"   -> Request(x, f, expired)
    [] x.dh.pt = "lease" -> IF expired THEN Restart(x) ELSE x

dhcpc_init(x) == [x EXCEPT !.dh = [pt |-> "begin", state |-> "initial", ticks |-> 0, ip |-> 0, gw |-> 0],
                           !.xid = @ + 1]

(***************************************************************************)
(* ICMP echo replies.  ping_conf is NULL while no ping runs.                *)
(***************************************************************************)
process_icmp_packet_Any(x, f) ==
  IF ~x.ping.conf THEN [x EXCEPT !.crashed = TRUE] ELSE [x EXCEPT !.ping.state = "success"]

process_icmp_packet(x, f) ==
  IF ~x.ping.conf THEN [x EXCEPT !.crashed = TRUE]
  ELSE IF f.x = x.ping.seq THEN [x EXCEPT !.ping.state = "success"] ELSE x

(***************************************************************************)
(* IPv4 input.  Without an address every packet is taken.  An echo request  *)
(* and a TCP segment are answered at once and change nothing here.          *)
(***************************************************************************)
Dhcp(f) == f.t \in {"offer", "ack", "nak"}

Accepted4(x, f) == x.host = 0 \/ f.dip = x.host \/ (Dhcp(f) /\ f.dip = Broadcast)

uip_input4(x, f) == CASE ~Accepted4(x, f)   -> x
                      [] f.t = "echorep"    -> process_icmp_packet(x, f)
                      [] Dhcp(f)            -> handle_dhcp(x, f, FALSE)
                      [] OTHER              -> x

(* uip_arp_ipin and uip_arp_arpin: whom the table learns from. *)
Learns(x, f) == \/ f.t = "arprep"
                \/ f.t # "arprep" /\ f.dip = x.host

Learn(x, f) == IF Learns(x, f) THEN uip_arp_update(f.ip, f.mac) ELSE UNCHANGED arpvars

(***************************************************************************)
(* IPv6: the list of our addresses, newest first, and the neighbour table,  *)
(* whose entries never age.                                                 *)
(***************************************************************************)
ipv6_add_prefix_entry(x, a) ==
  IF a \in ToSet(x.nd.addrs) \/ Len(x.nd.addrs) = MaxAddr6 THEN x ELSE [x EXCEPT !.nd.addrs = <<a>> \o @]

ipv6_is_it_our_address(x, a) == a \in ToSet(x.nd.addrs)

ipv6_update_arp_table(x, ip, mac) ==
  LET others == { e \in x.nd.neigh : e[1] # ip }
  IN IF others = x.nd.neigh /\ Cardinality(others) = MaxNeigh THEN x
     ELSE [x EXCEPT !.nd.neigh = others \cup {<<ip, mac>>}]

ipv6_ip_in_arp_table(x, ip) == IF \E e \in x.nd.neigh : e[1] = ip
                               THEN (CHOOSE e \in x.nd.neigh : e[1] = ip)[2] ELSE 0

(* The first of our global addresses that shares most with a: the address itself, its net, or any. *)
ipv6_find_longest_match(x, a) ==
  LET ours == SelectSeq(x.nd.addrs, LAMBDA b : ~LinkLocal(b))
      same == SelectSeq(ours, LAMBDA b : Net(b) = Net(a))
  IN IF a \in ToSet(ours) THEN a ELSE IF same # <<>> THEN same[1] ELSE IF ours # <<>> THEN ours[1] ELSE 0

(* The address to speak with a: link-local for link-local. *)
SourceFor(x, a) == IF LinkLocal(a) \/ ipv6_find_longest_match(x, a) = 0 THEN x.nd.ll ELSE ipv6_find_longest_match(x, a)

ipv6_icmp_process_prefix(x, f) == IF f.a = 0 THEN x ELSE ipv6_add_prefix_entry(x, f.a)

(* An option of length 0 (ra0) never ends the loop over the options, which holds nic_mutex. *)
ipv6_icmp_handle_router_adv(x, f) ==
  IF x.nd.ra THEN x
  ELSE IF f.t = "ra0" THEN [x EXCEPT !.N = "stuck"]
  ELSE IF ~f.o THEN x
  ELSE [ipv6_icmp_process_prefix(x, f) EXCEPT !.nd.ra = TRUE, !.nd.managed = f.m,
                                              !.nd.router = IF f.x # 0 /\ x.sc.auto THEN f.ip ELSE @]

(* The answer names SourceFor(target), or the destination when the source option is missing. *)
ipv6_icmp_handle_nd_sol(x, f) ==
  IF ~f.m \/ ~ipv6_is_it_our_address(x, f.a) THEN x
  ELSE [x EXCEPT !.told = @ \cup {[asked |-> f.a, opt |-> f.o, named |-> IF f.o THEN SourceFor(x, f.a) ELSE f.dip]}]

ipv6_icmp_handle_nd_adv(x, f) ==
  IF ~ipv6_is_it_our_address(x, f.dip) /\ f.dip # OurMulti THEN x
  ELSE LET y == ipv6_update_arp_table(x, f.ip, f.mac)
       IN IF f.o THEN ipv6_update_arp_table(y, f.a, f.x) ELSE y

(* DHCPv6.  An advertisement with an address ends the exchange: a request is sent and no reply awaited. *)
dhcpv6_process_opt_ia_na(x, f) == ipv6_add_prefix_entry(x, f.a)

dhcpv6_handle_advertise(x, f) ==
  IF x.nd.sol # "sent" THEN x
  ELSE IF f.a = 0 THEN [x EXCEPT !.nd.sol = "adv"]
  ELSE [dhcpv6_process_opt_ia_na(x, f) EXCEPT !.nd.sol = "req", !.nd.done = TRUE, !.nd.tid = @ + 1]

ipv6_udp_handle_dhcp(x, f) == IF x.nd.done \/ f.x # x.nd.tid THEN x ELSE dhcpv6_handle_advertise(x, f)

ipv6_icmp_rx(x, f) == CASE f.t \in {"ra", "ra0"} -> ipv6_icmp_handle_router_adv(x, f)
                        [] f.t = "ns"      -> ipv6_icmp_handle_nd_sol(x, f)
                        [] f.t = "na"      -> ipv6_icmp_handle_nd_adv(x, f)
                        [] f.t = "echorep" -> process_icmp_packet(x, f)

ipv6_udp_rx(x, f) == IF x.nd.nodhcp THEN x ELSE ipv6_udp_handle_dhcp(x, f)

ipv6_rx_packet(x, f) == IF f.t = "adv" THEN ipv6_udp_rx(x, f) ELSE ipv6_icmp_rx(x, f)

(***************************************************************************)
(* handle_ndp.  pt is where the protothread waits; f is the packet it is    *)
(* called for.  inc: the buffer of a SOLICIT may still hold one, and then    *)
(* it keeps the transaction id.                                             *)
(***************************************************************************)
Background(x) == [x EXCEPT !.nd.state = "bg", !.nd.pt = "loop"]

(* The addresses that path requests use are copied out only on the way from here to the background. *)
CopyOut(x) == Background([x EXCEPT !.router6 = IF x.sc.auto THEN x.nd.router ELSE @,
                                   !.ll6 = IF x.sc.auto THEN x.nd.ll ELSE @])

ipv6_disable_dhcpv6(x) == [x EXCEPT !.nd.nodhcp = TRUE]

ipv6_do_stateful_dhcpv6(x) == ~x.nd.ra \/ x.nd.managed

dhcpv6_do_discovery(x, inc) == [x EXCEPT !.nd.tid = @ + inc, !.nd.sol = "sent"]

RtrAdv(x, inc) ==
  LET y == [x EXCEPT !.nd.retry = @ + 1, !.nd.state = "rtr_adv"]
  IN IF x.sc.cfg # "dhcp6" THEN CopyOut(ipv6_disable_dhcpv6(x))
     ELSE IF ipv6_do_stateful_dhcpv6(x)
     THEN dhcpv6_do_discovery([x EXCEPT !.nd.retry = 0, !.nd.state = "dis", !.nd.pt = "dhcp"], inc)
     ELSE IF y.nd.retry > MaxDhcp6 THEN CopyOut(ipv6_disable_dhcpv6(y))
     ELSE [y EXCEPT !.nd.pt = "begin"]

RtrExpired(x, inc) ==
  LET y == [x EXCEPT !.nd.retry = @ + 1]
  IN IF y.nd.retry >= MaxSol THEN RtrAdv([y EXCEPT !.nd.state = "rtr_adv"], inc) ELSE y

DhcpExpired(x, inc) ==
  LET y == [x EXCEPT !.nd.retry = @ + 1]
  IN IF y.nd.retry < MaxDhcp6 THEN dhcpv6_do_discovery(y, inc) ELSE Background(y)

Begin(x, inc) == IF x.nd.state = "rtr_adv" THEN RtrAdv(x, inc)
                 ELSE [x EXCEPT !.nd.state = "rtr_sol", !.nd.retry = 0, !.nd.pt = "rtr"]

handle_ndp(x, f, expired, inc) ==
  LET y == IF f = NoFrame THEN x ELSE ipv6_rx_packet(x, f)
  IN CASE x.nd.pt = "none"  -> x
       [] x.nd.pt = "begin" -> Begin(x, inc)
       [] y.N = "stuck"     -> y
       [] x.nd.pt = "rtr"   -> IF f # NoFrame /\ y.nd.ra
                               THEN RtrAdv([y EXCEPT !.nd.retry = 0, !.nd.state = "rtr_adv"], inc)
                               ELSE IF expired THEN RtrExpired(y, inc) ELSE y
       [] x.nd.pt = "dhcp"  -> IF f # NoFrame /\ y.nd.done THEN CopyOut(y)
                               ELSE IF expired THEN DhcpExpired(y, inc) ELSE y
       [] x.nd.pt = "loop"  -> y

(* handle_ndp with force waits for nothing: it runs to the background, or to its next restart. *)
Forced(x, inc) ==
  LET sol == [x EXCEPT !.nd.retry = IF x.nd.pt = "rtr" /\ @ >= MaxSol THEN @ + 1 ELSE MaxSol, !.nd.state = "rtr_adv"]
      y   == CASE x.nd.pt = "dhcp" -> IF x.nd.retry + 1 < MaxDhcp6 THEN dhcpv6_do_discovery(x, inc) ELSE x
               [] x.nd.pt = "begin" /\ x.nd.state = "rtr_adv" -> RtrAdv(x, inc)
               [] OTHER -> RtrAdv(sol, inc)
  IN IF y.nd.pt = "dhcp" THEN Background([y EXCEPT !.nd.retry = MaxDhcp6]) ELSE y

ipv6_init(x) == IF x.sc.auto THEN ipv6_add_prefix_entry([x EXCEPT !.nd.ll = x.sc.ll6], x.sc.ll6) ELSE x

(* The gateway, too, is put on the list of our addresses. *)
ipv6_set_ip_params(x) ==
  LET a == IF x.sc.cfg = "static6" THEN ipv6_add_prefix_entry(x, x.sc.host6) ELSE x
      b == IF x.sc.auto \/ x.sc.gw6 = 0 THEN a
           ELSE ipv6_add_prefix_entry([a EXCEPT !.nd.router = x.sc.gw6], x.sc.gw6)
  IN IF x.sc.auto THEN b ELSE ipv6_add_prefix_entry([b EXCEPT !.nd.ll = x.sc.ll6], x.sc.ll6)

NoNd == [pt |-> "none", state |-> "init", retry |-> 0, ra |-> FALSE, managed |-> FALSE, router |-> 0, ll |-> 0,
         addrs |-> <<>>, neigh |-> {}, nodhcp |-> FALSE, sol |-> "none", done |-> FALSE, tid |-> 0]

ndpc_init(x) == ipv6_set_ip_params(ipv6_init([x EXCEPT !.nd = [NoNd EXCEPT !.pt = "begin"]]))

(***************************************************************************)
(* nic_loop: acquisition, timers and received frames.                       *)
(***************************************************************************)
NoDhcp == [pt |-> "none", state |-> "initial", ticks |-> 0, ip |-> 0, gw |-> 0]

V6(x) == x.sc.cfg \in {"static6", "dhcp6"}

do_acquisition ==
  /\ v.N = "init" /\ ~v.stop
  /\ v' = LET x == [v EXCEPT !.dh = NoDhcp, !.nd = NoNd, !.ping.conf = FALSE]   \* uip_init
          IN CASE v.sc.cfg = "static4" -> [x EXCEPT !.N = "run"]
               [] v.sc.cfg = "dhcp4"   -> [dhcpc_init(x) EXCEPT !.N = "loop", !.granted = {}]
               [] V6(v)                -> [ndpc_init(x) EXCEPT !.N = "loop"]
  /\ UNCHANGED arpvars

Acquired(x) == IF V6(x) THEN x.nd.state = "bg" ELSE x.dh.state = "config"

uip_reset(x) == [x EXCEPT !.host = 0, !.gw = 0, !.dh = NoDhcp, !.ping.conf = FALSE]

(* The wait ends with an address or after its time; only a failure of DHCP is an error. *)
process_dhcp_loop ==
  /\ v.N = "loop"
  /\ v' = IF Acquired(v) \/ v.stop THEN [v EXCEPT !.N = "run"]
          ELSE IF V6(v) THEN [v EXCEPT !.N = "run", !.nd.retry = MaxSol]
          ELSE [uip_reset(v) EXCEPT !.N = IF v.again THEN "init" ELSE "failed", !.again = FALSE]
  /\ UNCHANGED arpvars

do_timers_per_nic_iface ==
  /\ v.N \in {"loop", "run"} /\ ~v.stop
  /\ \E inc \in IF V6(v) THEN {0, 1} ELSE {0}, tick \in BOOLEAN :
       /\ tick => v.ticks > 0
       /\ LET x == [v EXCEPT !.ticks = @ - IF tick THEN 1 ELSE 0]
          IN v' = IF V6(v) THEN handle_ndp(x, NoFrame, TRUE, inc) ELSE handle_dhcp(x, NoFrame, TRUE)
       /\ IF tick THEN uip_arp_timer ELSE UNCHANGED arpvars

(* A server and a peer answer what was sent: no identifier comes before it was used. *)
Possible(f) == CASE Dhcp(f)         -> f.x \in 1..v.xid
                 [] f.t = "echorep" -> f.x \in 1..v.seq
                 [] f.t = "adv"     -> f.x \in 1..v.nd.tid
                 [] OTHER           -> TRUE

Grants(f) == CASE f.t = "ack" -> IF f.x = v.xid /\ f.m THEN {f.a} ELSE {}
               [] f.t = "ra"  -> IF f.o THEN {f.a} ELSE {}
               [] f.t = "adv" -> IF f.x = v.nd.tid THEN {f.a} ELSE {}
               [] OTHER       -> {}

Announces(f) == IF f.t # "na" THEN {} ELSE IF f.o THEN {<<f.ip, f.mac>>, <<f.a, f.x>>} ELSE {<<f.ip, f.mac>>}

process_packets ==
  /\ v.N \in {"loop", "run"} /\ ~v.stop /\ v.nrx < MaxRx
  /\ \E f \in v.sc.rx, expired \in IF V6(v) THEN BOOLEAN ELSE {FALSE}, inc \in IF V6(v) THEN {0, 1} ELSE {0} :
       /\ Possible(f)
       /\ LET x == [v EXCEPT !.nrx = @ + 1, !.granted = @ \cup Grants(f), !.heard6 = @ \cup Announces(f),
                             !.echoed = @ \/ (f.t = "echorep" /\ f.x = v.seq /\ v.ping.seq = v.seq)]
          IN v' = IF V6(v) THEN handle_ndp(x, f, expired, inc)
                  ELSE IF f.t \in {"arpreq", "arprep"} THEN x ELSE uip_input4(x, f)
       /\ IF V6(v) THEN UNCHANGED arpvars ELSE Learn(v, f)

(***************************************************************************)
(* Path requests of the kernel (K) and of a ping (P).  An answer without a  *)
(* hardware address says that there is none.                                *)
(***************************************************************************)
NextHop4(x, dst) == IF Net(x.host) = Net(dst) \/ x.gw = 0 THEN dst ELSE x.gw

(* 0 where the code gives up.  Without a prefix mask everything is on the link. *)
NextHop6(x, dst) ==
  LET src == IF LinkLocal(dst) THEN x.ll6 ELSE ipv6_find_longest_match(x, dst)
  IN IF ~LinkLocal(dst) /\ src = 0 THEN 0
     ELSE IF ~x.sc.mask6 \/ Net(src) = Net(dst) THEN dst ELSE x.router6

NextHop(x, dst) == IF V6(x) THEN NextHop6(x, dst) ELSE NextHop4(x, dst)

Lookup(x, a) == IF V6(x) THEN ipv6_ip_in_arp_table(x, a) ELSE uip_lookup_arp_entry(a)

PingDone(x, state) == [x EXCEPT !.path.P.pc = "off", !.ping = [conf |-> FALSE, seq |-> 0, state |-> "init"],
                                !.res = state, !.pings = @ - 1]

cnic_nl_neigh_rsp(x, mac) == [x EXCEPT !.path.K.pc = "off", !.ans = Append(@, [mac |-> mac, nh |-> x.path.K.nh])]

PathDone(x, t, mac) == IF t = "K" THEN cnic_nl_neigh_rsp(x, mac)
                       ELSE IF mac = 0 THEN PingDone(x, "no_arp") ELSE [x EXCEPT !.path.P.pc = "echo"]

(* ndpc_request runs handle_ndp until it is in the background. *)
PathStart(t) ==
  /\ v.path[t].pc = "start" /\ v.N \notin {"init", "stuck"}
  /\ LET dst == v.sc.dst[t]
         nh  == NextHop(v, dst)
         x   == [v EXCEPT !.path[t].nh = nh]
         mac == Lookup(x, nh)
     IN IF V6(v) /\ v.nd.state # "bg" THEN \E inc \in {0, 1} : v' = Forced(v, inc)
        ELSE v' = IF nh = 0 \/ mac # 0 THEN PathDone(x, t, mac)
                  ELSE [x EXCEPT !.path[t].pc = "send", !.path[t].retry = 0]
  /\ UNCHANGED arpvars

(* Both fail when xmit_mutex is taken. *)
Solicited(x, t) == { IF busy THEN PathDone(x, t, 0) ELSE [x EXCEPT !.path[t].pc = "wait", !.path[t].count = 0]
                      : busy \in x.sc.busy }

cnic_arp_send(x, t) == Solicited(x, t)

cnic_neigh_soliciation_send(x, t) == Solicited(x, t)

PathSend(t) ==
  /\ v.path[t].pc = "send"
  /\ v' \in IF v.stop \/ v.path[t].retry = MaxRetry THEN {PathDone(v, t, 0)}
            ELSE IF V6(v) THEN cnic_neigh_soliciation_send(v, t) ELSE cnic_arp_send(v, t)
  /\ UNCHANGED arpvars

PathWait(t) ==
  /\ v.path[t].pc = "wait"
  /\ LET mac == Lookup(v, v.path[t].nh)
         x   == [v EXCEPT !.path[t].count = @ + 1]
     IN v' \in { IF down THEN PathDone(v, t, 0)
                 ELSE IF mac # 0 THEN PathDone(v, t, mac)
                 ELSE IF x.path[t].count < MaxWaits THEN x
                 ELSE [x EXCEPT !.path[t].pc = "send", !.path[t].retry = @ + 1] : down \in v.sc.ifdown }
  /\ UNCHANGED arpvars

Path(t) == PathStart(t) \/ PathSend(t) \/ PathWait(t)

(***************************************************************************)
(* The ping.                                                                *)
(***************************************************************************)
PingStart == /\ v.path.P.pc = "off" /\ v.pings > 0 /\ v.N = "run" /\ ~v.stop
             /\ v' = [v EXCEPT !.path.P.pc = "start", !.ping.conf = TRUE, !.res = "none", !.echoed = FALSE]
             /\ UNCHANGED arpvars

Numbered(x) == [x EXCEPT !.seq = @ + 1, !.ping.seq = x.seq + 1]

prepare_icmpv4_req_pkt(x) == { IF big THEN PingDone(Numbered(x), "oversize")
                               ELSE [Numbered(x) EXCEPT !.path.P.pc = "reply"] : big \in x.sc.big }

determine_src_ipv6_addr(x) == IF x.sc.cfg = "static6" THEN x.sc.host6
                              ELSE IF LinkLocal(x.sc.dst.P) THEN x.ll6
                              ELSE ipv6_find_longest_match(x, x.sc.dst.P)

(* The hardware address is looked up for the destination, even behind a router. *)
fill_icmpv6_eth_hdr(x) == ipv6_ip_in_arp_table(x, x.sc.dst.P) # 0

prepare_icmpv6_req_pkt(x) == IF ~LinkLocal(x.sc.dst.P) /\ determine_src_ipv6_addr(x) = 0 THEN PingDone(x, "no_source")
                             ELSE IF ~fill_icmpv6_eth_hdr(Numbered(x)) THEN PingDone(Numbered(x), "no_entry")
                             ELSE [Numbered(x) EXCEPT !.path.P.pc = "reply"]

do_ping_from_nic_iface ==
  /\ v.path.P.pc = "echo" /\ v.N # "stuck"
  /\ v' \in (IF V6(v) THEN {prepare_icmpv6_req_pkt(v)} ELSE prepare_icmpv4_req_pkt(v))
               \cup { PingDone(v, "no_packet") : n \in v.sc.nopkt }
  /\ UNCHANGED arpvars

(* The wait ends with the reply, after ten seconds, or with the daemon. *)
PingWait == /\ v.path.P.pc = "reply" /\ v.N # "stuck"
            /\ v' \in {PingDone(v, IF v.stop THEN v.ping.state ELSE "timeout")}
                        \cup (IF v.ping.state = "success" THEN {PingDone(v, "success")} ELSE {})
            /\ UNCHANGED arpvars

Stop == /\ v.sc.stop /\ ~v.stop
        /\ v' = [v EXCEPT !.stop = TRUE, !.N = IF @ = "init" THEN "failed" ELSE @]
        /\ UNCHANGED arpvars

(***************************************************************************)
(* Specification.                                                           *)
(***************************************************************************)
NoPath == [pc |-> "off", nh |-> 0, retry |-> 0, count |-> 0]

StackState(sc) ==
  [sc |-> sc, N |-> "init", again |-> sc.again, stop |-> FALSE, crashed |-> FALSE, host |-> sc.host, gw |-> sc.gw,
   dh |-> NoDhcp, xid |-> 0, nd |-> NoNd, router6 |-> IF sc.auto THEN 0 ELSE sc.gw6,
   ll6 |-> IF sc.auto THEN 0 ELSE sc.ll6, ticks |-> sc.ticks, nrx |-> 0,
   path |-> [K |-> [NoPath EXCEPT !.pc = IF sc.dst.K = 0 THEN "off" ELSE "start"], P |-> NoPath], ans |-> <<>>,
   ping |-> [conf |-> FALSE, seq |-> 0, state |-> "init"], pings |-> sc.pings, seq |-> 0, res |-> "none",
   granted |-> {}, heard6 |-> {}, echoed |-> FALSE, told |-> {}]

(* No interface. *)
NoStack == [StackState([cfg |-> "static4", auto |-> FALSE, host |-> 0, gw |-> 0, host6 |-> 0, gw6 |-> 0, ll6 |-> 0,
                        mask6 |-> FALSE, rx |-> {}, again |-> FALSE, dst |-> [K |-> 0, P |-> 0], pings |-> 0, ticks |-> 0,
                        stop |-> FALSE, busy |-> {}, ifdown |-> {}, big |-> {}, nopkt |-> {}]) EXCEPT !.N = "off"]

stackvars == <<v, arp_table, arptime, quiet, heard>>

StackInit == v \in { StackState(sc) : sc \in SScenes } /\ uip_arp_init

StackNext == /\ ~v.crashed
             /\ \/ do_acquisition \/ process_dhcp_loop \/ do_timers_per_nic_iface \/ process_packets
                \/ Path("K") \/ Path("P")
                \/ PingStart \/ do_ping_from_nic_iface \/ PingWait
                \/ Stop

(* Threads run and waits come to their end; the network need not deliver anything. *)
StackFairness == /\ WF_stackvars(~v.crashed /\ (do_acquisition \/ process_dhcp_loop))
                 /\ WF_stackvars(~v.crashed /\ Path("K"))
                 /\ WF_stackvars(~v.crashed /\ (Path("P") \/ do_ping_from_nic_iface \/ PingWait))

(***************************************************************************)
(* Properties.                                                              *)
(***************************************************************************)
(* A path request gets at most one answer, and a hardware address in it was  *)
(* announced for the next hop: the destination on our own net, otherwise the *)
(* destination or the gateway.  A ping succeeds only after a reply with the   *)
(* number of its own request, from whatever host: nobody looks at the sender. *)
(* A neighbour advertisement of ours speaks for the address that was asked    *)
(* for; but asked for a link-local one, be it the configured gateway, it      *)
(* names our own link-local address, and to a solicitation without a source   *)
(* option it names the address this was sent to, be it a multicast address    *)
(* (cnic_handle_ipv4_iscsi_path_req, process_icmp_packet,                     *)
(* ipv6_icmp_handle_nd_sol).  The address of an interface with DHCP was       *)
(* acknowledged in the running exchange, and the list of IPv6 addresses holds *)
(* nothing but the configuration, the prefix of a router and what a server    *)
(* advertised, late and repeated messages notwithstanding (handle_dhcp,       *)
(* parse_msg, ipv6_udp_handle_dhcp).                                          *)
AnswersTrue ==
  /\ Len(v.ans) <= 1
  /\ \A i \in DOMAIN v.ans : v.ans[i].mac # 0 =>
       /\ <<v.ans[i].nh, v.ans[i].mac>> \in heard \cup v.heard6
       /\ v.ans[i].nh # v.sc.dst.K => Net(v.ans[i].nh) # Net(v.sc.dst.K)
  /\ v.res = "success" => v.echoed
  /\ \A a \in v.told : a.opt => a.named = IF LinkLocal(a.asked) THEN v.nd.ll ELSE a.asked
  /\ v.sc.cfg = "dhcp4" => v.host \in v.granted \cup {0}
  /\ ToSet(v.nd.addrs) \subseteq v.granted \cup {v.sc.ll6, v.sc.host6, v.sc.gw6}

(* Every path request is answered, every ping ends and every acquisition     *)
(* ends, however silent the network is (cnic_handle_iscsi_path_req,           *)
(* ndpc_request, do_ping_from_nic_iface, process_dhcp_loop).  What is not     *)
(* silence may prevent it: an echo reply while no ping runs, for which        *)
(* process_icmp_packet follows a NULL pointer, and a router advertisement     *)
(* with an option of length 0.                                                *)
StackSettles ==
  /\ \A t \in {"K", "P"} : (v.path[t].pc # "off") ~> (v.path[t].pc = "off" \/ v.crashed \/ v.N = "stuck")
  /\ (v.N = "loop") ~> (v.N # "loop" \/ v.crashed)
=============================================================================
