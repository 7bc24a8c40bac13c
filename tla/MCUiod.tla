------------------------------- MODULE MCUiod -------------------------------
(* Scenes of the data path of iscsiuio for TLC. *)
EXTENDS Uiod

F(k, vlan) == [k |-> k, vlan |-> vlan]

UBase == [drv |-> "bnx2", fail |-> FALSE, packets |-> {NumPackets}, shut |-> FALSE, ifdown |-> FALSE, prompt |-> TRUE,
          in |-> <<>>, tm |-> <<>>, down |-> "no", node |-> {TRUE}, again |-> 0, ping |-> "off", arp |-> "off",
          calm |-> FALSE, msix |-> FALSE, lossy |-> FALSE]

Drivers == {"bnx2", "bnx2x", "qedi"}

MCUScenes ==
  { \* every step of open fails once, the queue of packets is short, the device goes down and comes back
    [UBase EXCEPT !.drv = d[1], !.msix = d[2], !.fail = TRUE, !.packets = {0, NumPackets}, !.down = "down", !.again = 1,
                  !.node = BOOLEAN] : d \in (Drivers \X {FALSE}) \cup {<<"bnx2", TRUE>>} }
  \cup \* frames that wait for an address, a bad descriptor, another vlan
  { [UBase EXCEPT !.drv = d, !.in = <<F("remote", 1), F("bad", 1), F("arp", 2)>>, !.tm = <<FALSE>>, !.calm = TRUE]
      : d \in {"bnx2", "bnx2x"} }
  \cup \* a ping beside nic_loop, one free packet
  { [UBase EXCEPT !.drv = d, !.in = <<F("ip", 1), F("arp", 2)>>, !.tm = <<TRUE>>, !.ping = "start", !.packets = {1}]
      : d \in Drivers }
  \cup { [UBase EXCEPT !.drv = d, !.in = <<F("other", 1)>>, !.ping = "start", !.down = "down"] : d \in {"bnx2", "qedi"} }
  \cup \* an ARP request of the netlink thread
  { [UBase EXCEPT !.drv = d, !.in = <<F("remote", 1)>>, !.tm = <<TRUE>>, !.arp = "start", !.prompt = p, !.down = "down"]
      : d \in Drivers, p \in BOOLEAN }
  \cup \* an interrupt is lost, another may follow
  { [UBase EXCEPT !.in = <<F("ip", 1)>>, !.tm = <<TRUE, TRUE>>, !.lossy = TRUE] }
  \cup { [UBase EXCEPT !.drv = d, !.tm = <<TRUE, TRUE>>, !.arp = "start", !.shut = s, !.ifdown = ~s, !.down = "stop"]
           : d \in Drivers, s \in BOOLEAN }

Fr(t, ip, mac, dip) == [NoFrame EXCEPT !.t = t, !.ip = ip, !.mac = mac, !.dip = dip]

SBase == [cfg |-> "static4", auto |-> FALSE, host |-> 21, gw |-> 0, host6 |-> 0, gw6 |-> 0, ll6 |-> 0, mask6 |-> FALSE,
          rx |-> {}, again |-> FALSE, dst |-> [K |-> 0, P |-> 0], pings |-> 0, ticks |-> 0, stop |-> FALSE,
          busy |-> {FALSE}, ifdown |-> {FALSE}, big |-> {FALSE}, nopkt |-> {}]

Rep(x) == [Fr("echorep", 22, 1, 21) EXCEPT !.x = x]

Lease(t, x, a, m, o) == [Fr(t, 23, 3, Broadcast) EXCEPT !.x = x, !.a = a, !.m = m, !.o = o]

S6 == [SBase EXCEPT !.cfg = "static6", !.host = 0, !.host6 = 21, !.gw6 = 23, !.ll6 = 11]

NA(ip, mac, dip, o, a, x) == [Fr("na", ip, mac, dip) EXCEPT !.o = o, !.a = a, !.x = x]

NS(dip, a, o, m) == [Fr("ns", 12, 2, dip) EXCEPT !.a = a, !.o = o, !.m = m]

RA(x, a, o, m) == [Fr("ra", 13, 3, OurMulti) EXCEPT !.x = x, !.a = a, !.o = o, !.m = m]

Adv(x, a) == [Fr("adv", 14, 2, 11) EXCEPT !.x = x, !.a = a]

MCSScenes4 ==
  { \* paths over ARP, on the link and through a gateway
    [SBase EXCEPT !.dst.K = d, !.gw = 23, !.ticks = 3, !.busy = BOOLEAN, !.ifdown = BOOLEAN, !.stop = TRUE,
                  !.rx = {Fr("arprep", 22, 1, 21), Fr("arprep", 22, 2, 21), Fr("arpreq", 23, 3, 21),
                          Fr("arprep", 31, 3, 24), Fr("arpreq", 31, 1, 24)}] : d \in {22, 31} }
  \cup
  { \* a host with an address that ends in zeros, which announces another hardware address
    [SBase EXCEPT !.dst.K = 20, !.ticks = 3,
                  !.rx = {Fr("arpreq", 20, 1, 21), Fr("arprep", 20, 2, 21), Fr("arprep", 22, 1, 21)}] }
  \cup
  { \* pings, late replies
    [SBase EXCEPT !.dst.P = d, !.pings = 2, !.big = BOOLEAN, !.nopkt = {TRUE}, !.stop = TRUE,
                  !.rx = {Fr("arprep", 22, 1, 21), Rep(1), Rep(2)}] : d \in {22} }
  \cup
  { \* DHCP: messages for others, of the first exchange and without options
    [SBase EXCEPT !.cfg = "dhcp4", !.host = 0, !.again = TRUE, !.ticks = 0, !.dst.K = 31,
                  !.rx = {Lease("offer", x, 21, TRUE, TRUE) : x \in 1..2} \cup
                         {Lease("ack", x, 20 + x, TRUE, FALSE) : x \in 1..2} \cup
                         {Lease("nak", 1, 0, TRUE, FALSE), Lease("ack", 1, 24, FALSE, TRUE)}] }

MCSScenes6 ==
  { \* paths with a static address, with and without a prefix mask
    [S6 EXCEPT !.dst.K = d, !.mask6 = m, !.ifdown = BOOLEAN,
                  !.rx = {NA(22, 1, 21, FALSE, 0, 0), NA(23, 3, OurMulti, TRUE, 31, 2), NA(12, 2, 24, TRUE, 22, 3)}]
      : d \in {22, 31, 12}, m \in BOOLEAN }
  \cup
  { \* solicitations with and without a source option, to one of our addresses, to another one and to all,
    \* beside a gateway of our net and a link-local one
    [S6 EXCEPT !.gw6 = g, !.rx = { NS(d, a, o, m) : d \in {21, 24, OurMulti}, a \in {11, 21, g, 24}, o \in BOOLEAN,
                                                    m \in {TRUE} } \cup {NS(24, 21, TRUE, FALSE)}] : g \in {13, 23} }
  \cup
  { \* a router that sends an option of length 0
    [S6 EXCEPT !.cfg = "dhcp6", !.host6 = 0, !.gw6 = 0, !.auto = TRUE, !.dst = [K |-> 12, P |-> 12], !.pings = 1,
                  !.rx = {[RA(0, 0, FALSE, FALSE) EXCEPT !.t = "ra0"], RA(1, 21, TRUE, FALSE), NA(12, 2, 11, FALSE, 0, 0),
                          Rep(1)}] }
  \cup
  { \* pings with a static address and with the address of a router
    [S6 EXCEPT !.dst.P = d, !.pings = 2, !.auto = (c = "dhcp6"), !.cfg = c,
                  !.rx = {NA(22, 1, 11, TRUE, 12, 2), RA(1, 0, TRUE, FALSE), Rep(1), Rep(2)}]
      : d \in {22, 12}, c \in {"static6", "dhcp6"} }
  \cup
  { \* DHCPv6 with and without a managing router, and a path request that forces the acquisition
    [S6 EXCEPT !.cfg = "dhcp6", !.host6 = 0, !.gw6 = IF a THEN 0 ELSE 23, !.auto = a, !.mask6 = TRUE, !.dst.K = d,
                  !.rx = {RA(1, 24, TRUE, TRUE), RA(0, 21, TRUE, FALSE), RA(1, 0, FALSE, TRUE),
                          Adv(1, 25), Adv(2, 0), Adv(2, 26), NA(13, 3, 11, FALSE, 0, 0)}]
      : d \in {12, 31}, a \in BOOLEAN }

MCSScenes == MCSScenes4 \cup MCSScenes6
=============================================================================
