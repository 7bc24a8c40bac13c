-------------------------------- MODULE Uio --------------------------------
(***************************************************************************)
(* The devices of iscsiuio: the drivers bnx2, bnx2x and qedi under the      *)
(* threads that use them.  W is nic_loop, P a ping, K the netlink thread    *)
(* that sends an ARP request for a path.  One buffer, tx_pkt, holds the     *)
(* frame that the hardware sends; what waits for an address waits on        *)
(* tx_packet_queue.  Handlers that hold nic_mutex are one action; K never   *)
(* takes it, so its trylock of xmit_mutex and its start_xmit are two.       *)
(***************************************************************************)
EXTENDS Integers, Sequences, SequencesExt, FiniteSets

CONSTANTS
  UScenes,      \* the scenes, see MCUiod
  NumPackets    \* alloc_free_queue(nic, 5)

VARIABLE u

NoRx == [k |-> "none", vlan |-> 0]

Threads == {"W", "P"}

(***************************************************************************)
(* Resources, in the order in which open takes them.                        *)
(***************************************************************************)
Bnx2Steps == <<"priv", "fd", "fstat", "bar0", "rx_ring", "rx_pkt_ring", "reg", "sblk", "tx_ring", "bufs",
               "multicast">>

Bnx2xSteps == <<"priv", "fd", "fstat", "bar0", "reg", "bar2", "reg2", "rx_pkt_ring">>

Bnx2xLateSteps == <<"driver", "sblk", "tx_ring", "bufs", "bus", "mac">>

QediSteps == <<"host_no", "priv", "driver", "fd", "fstat", "rx_pkt_ring", "map_info">>

QediLateSteps == <<"uctrl", "rx_comp_ring", "bufs", "bus">>

Steps(d) == CASE d = "bnx2"  -> Bnx2Steps
              [] d = "bnx2x" -> Bnx2xSteps \o Bnx2xLateSteps
              [] d = "qedi"  -> QediSteps \o QediLateSteps

Checks == {"fstat", "multicast", "driver", "bus", "mac", "host_no", "map_info"}

Taken(seq) == { seq[i] : i \in DOMAIN seq } \ Checks

All(d) == Taken(Steps(d))

(* The labels bnx2_open jumps to, last acquisition first. *)
Bnx2Undo == <<"tx_ring", "sblk", "reg", "rx_pkt_ring", "rx_ring", "fd", "priv">>

Bnx2Label(x) == CASE x = "fd" -> "priv"
                  [] x \in {"fstat", "bar0", "rx_ring"} -> "fd"
                  [] x = "rx_pkt_ring" -> "rx_ring"
                  [] x = "reg" -> "rx_pkt_ring"
                  [] x = "sblk" -> "reg"
                  [] x = "tx_ring" -> "sblk"
                  [] OTHER -> "tx_ring"

(* With MSI-X status_blk points into the mapping, not to its start, and munmap refuses it. *)
Bnx2Rollback(x, msix) ==
  { Bnx2Undo[i] : i \in { j \in DOMAIN Bnx2Undo : j >= SelectInSeq(Bnx2Undo, LAMBDA y : y = Bnx2Label(x)) } }
  \ (IF msix THEN {"sblk"} ELSE {})

Bnx2xRollback_Short == {"tx_ring", "sblk", "reg", "rx_pkt_ring", "bar2", "bar0", "fd", "priv"}

Bnx2xRollback == {"tx_ring", "sblk", "reg", "reg2", "rx_pkt_ring", "bar2", "bar0", "fd", "priv"}

QediRollback == {"bufs", "rx_comp_ring", "uctrl", "rx_pkt_ring", "fd", "priv"}

Rollback(d, x, msix) == CASE d = "bnx2"  -> Bnx2Rollback(x, msix)
                          [] d = "bnx2x" -> Bnx2xRollback
                          [] d = "qedi"  -> QediRollback

Bnx2CloseResources == {"rx_ring", "rx_pkt_ring", "bufs", "tx_ring", "sblk", "reg", "bar0", "fd"}

Bnx2xCloseResources == {"rx_pkt_ring", "bufs", "tx_ring", "sblk", "reg", "reg2", "bar2", "bar0", "fd"}

QediCloseResources == {"rx_pkt_ring", "bufs", "rx_comp_ring", "uctrl", "fd"}

CloseResources(d) == CASE d = "bnx2"  -> Bnx2CloseResources
                       [] d = "bnx2x" -> Bnx2xCloseResources
                       [] d = "qedi"  -> QediCloseResources

(***************************************************************************)
(* open.  The device node may be missing: bnx2 tries for ever, the others   *)
(* MaxTries times, giving up nic_mutex between two tries.  A device that    *)
(* uio_verify refuses is used all the same.  What a failed open does not    *)
(* give back stays allocated without a reference (lost).                    *)
(***************************************************************************)
MaxTries == 2

ResetTx(x) == [x EXCEPT !.prod = 0, !.cons = 0, !.hw = 0, !.bell = 0]

OpenFails(x, at) ==
  LET seq   == Steps(x.drv)
      taken == Taken(SubSeq(seq, 1, SelectInSeq(seq, LAMBDA y : y = at) - 1))
  IN IF at = "host_no" THEN [x EXCEPT !.pc.W = "crash"]   \* open_error reads bp, which is NULL
     ELSE [x EXCEPT !.pc.W = "closing",
                    !.lost = @ \cup (taken \ (IF at = "priv" THEN {} ELSE Rollback(x.drv, at, x.sc.msix)))]

Opened(x) == [ResetTx(x) EXCEPT !.pc.W = "alloc", !.opened = TRUE, !.held = All(x.drv)]

NoDevice(x) == IF x.drv = "bnx2" \/ x.tries < MaxTries - 1 THEN [x EXCEPT !.tries = (@ + 1) % MaxTries]
               ELSE OpenFails(x, "fd")

MayFail(x) == IF x.sc.fail THEN { Steps(x.drv)[i] : i \in DOMAIN Steps(x.drv) } \ {"fd"} ELSE {}

Open == /\ u.pc.W = "open"
        /\ u' \in IF u.opened THEN {[u EXCEPT !.pc.W = "alloc"]}
                  ELSE {Opened(u), NoDevice(u)} \cup { OpenFails(u, x) : x \in MayFail(u) }

(***************************************************************************)
(* The queue of free packets and the queue of packets that wait for an      *)
(* address.                                                                 *)
(***************************************************************************)
AllocFreeQueue == /\ u.pc.W = "alloc"
                  /\ \E n \in u.sc.packets :
                       u' = [u EXCEPT !.free = @ + n, !.total = @ + n,
                                      !.pc.W = IF n = 0 THEN "closing" ELSE "loop"]

FreeFreeQueue(x) == [x EXCEPT !.total = @ - x.free, !.free = 0]

GetFree(x, t) == [x EXCEPT !.free = @ - 1, !.hold[t] = TRUE]

PutFree(x, t) == [x EXCEPT !.free = @ + 1, !.hold[t] = FALSE]

QueueTx(x, f) == [x EXCEPT !.q = Append(@, f)]

DequeueTx(x) == [x EXCEPT !.q = Tail(@)]

(***************************************************************************)
(* Transmission.  prod and cons are the indexes of the driver, hw and bell  *)
(* those of the hardware: it has sent hw frames and was told of bell.  What *)
(* tx_pkt holds is not followed: a later frame overwrites one that the       *)
(* hardware has not sent yet.                                               *)
(***************************************************************************)
Complete(x, w) == [x EXCEPT !.hw = @ + w, !.irq = @ \/ w > 0, !.mute = @ /\ w = 0]

(* The interrupt of a completion may be lost: mute until there is another. *)
CompleteMute(x) == [x EXCEPT !.hw = @ + 1, !.mute = ~x.irq]

Post(x) == [x EXCEPT !.prod = @ + 1]

Bnx2StartXmit_Locked(x) == IF x.sc.shut THEN x ELSE [Post(x) EXCEPT !.bell = x.prod + 1]

Bnx2StartXmit(x) == IF x.sc.shut THEN [x EXCEPT !.xm = "free"] ELSE [Post(x) EXCEPT !.bell = x.prod + 1]

Bnx2xStartXmit(x) == IF x.sc.shut THEN x
                     ELSE [Post(x) EXCEPT !.bell = IF x.sc.ifdown THEN @ ELSE x.prod + 1]

QediStartXmit(x) == IF x.sc.shut THEN x ELSE [Post(x) EXCEPT !.bell = x.prod + 1]

StartXmit(x) == CASE x.drv = "bnx2"  -> Bnx2StartXmit(x)
                  [] x.drv = "bnx2x" -> Bnx2xStartXmit(x)
                  [] x.drv = "qedi"  -> QediStartXmit(x)

SendQueued(x) == StartXmit(DequeueTx(x))

Bnx2ClearTxIntr(x) == LET y == [x EXCEPT !.cons = x.hw]
                      IN IF y.q # <<>> THEN SendQueued(y) ELSE [y EXCEPT !.xm = "free"]

Bnx2xClearTxIntr(x) == LET y == [x EXCEPT !.cons = x.hw]
                       IN IF x.cons = x.hw \/ x.xm # "free" THEN x
                          ELSE IF y.q # <<>> THEN SendQueued(y) ELSE y

QediClearTxIntr(x) == LET y == [x EXCEPT !.cons = x.hw]
                      IN IF x.cons = x.hw \/ x.xm # "free" THEN x
                         ELSE IF y.q # <<>> THEN SendQueued(y) ELSE y

(* How many frames the hardware may send while write waits for a completion. *)
Waits(x) == IF x.cons # x.hw THEN {0}
            ELSE IF x.sc.prompt /\ x.bell > x.hw THEN 1..(x.bell - x.hw) ELSE 0..(x.bell - x.hw)

Bnx2Write(x) == IF x.xm # "free" THEN {x}
                   ELSE {StartXmit([x EXCEPT !.xm = "held"])}

Bnx2xWrite(x) == { LET y == Bnx2xClearTxIntr(Complete(x, w))
                      IN IF y.xm # "free" THEN y ELSE StartXmit(y) : w \in Waits(x) }

QediWrite(x) == { LET y == QediClearTxIntr(Complete(x, w))
                     IN IF y.xm # "free" THEN y ELSE StartXmit(y) : w \in Waits(x) }

Write(x) == CASE x.drv = "bnx2"  -> Bnx2Write(x)
                 [] x.drv = "bnx2x" -> Bnx2xWrite(x)
                 [] x.drv = "qedi"  -> QediWrite(x)

(* prepare_ipv4_packet: a frame without a known address waits, an ARP request goes in its place. *)
PrepareIpv4(x, f, known) == IF known THEN Write(x) ELSE Write(QueueTx(x, f))

HwSend == /\ u.opened /\ u.hw < u.bell
          /\ u' \in {Complete(u, 1)} \cup (IF u.sc.lossy THEN {CompleteMute(u)} ELSE {})

(***************************************************************************)
(* Interrupts and received frames.  A frame is for one of two vlans; P only *)
(* takes those of vlan 1 and drops the others.                              *)
(***************************************************************************)
HwReceive == /\ u.opened /\ u.in # <<>>
             /\ u' = [u EXCEPT !.rx = Append(@, Head(u.in)), !.in = Tail(@), !.irq = TRUE, !.mute = FALSE]

Leaving(x) == x.down # "no"

NicProcessIntr(t) ==
  /\ u.pc[t] = "loop" /\ u.irq /\ u.opened /\ ~Leaving(u)
  /\ LET x == [u EXCEPT !.irq = FALSE, !.pc[t] = "pkts"]
     IN u' = CASE u.drv = "bnx2"  -> Bnx2ClearTxIntr(x)
               [] u.drv = "bnx2x" -> Bnx2xClearTxIntr(x)
               [] u.drv = "qedi"  -> x

GetPacket(t) == /\ u.pc[t] = "pkts"
                /\ u' = IF u.free = 0 \/ Leaving(u) THEN [u EXCEPT !.pc[t] = "loop"]
                        ELSE [GetFree(u, t) EXCEPT !.pc[t] = "read"]

Bnx2Read(x, t) == [x EXCEPT !.cur[t] = IF Head(x.rx).k = "bad" THEN NoRx ELSE Head(x.rx), !.rx = Tail(@)]

Bnx2xRead(x, t) == [x EXCEPT !.cur[t] = Head(x.rx), !.rx = Tail(@)]

QediRead(x, t) == [x EXCEPT !.cur[t] = IF Head(x.rx).k = "bad" THEN NoRx ELSE Head(x.rx), !.rx = Tail(@)]

Read(t) ==
  /\ u.pc[t] = "read"
  /\ LET y == IF u.rx = <<>> THEN u
              ELSE CASE u.drv = "bnx2"  -> Bnx2Read(u, t)
                     [] u.drv = "bnx2x" -> Bnx2xRead(u, t)
                     [] u.drv = "qedi"  -> QediRead(u, t)
     IN u' = IF ~u.opened THEN [u EXCEPT !.pc[t] = "crash"]
             ELSE IF y.cur[t] = NoRx THEN [PutFree(y, t) EXCEPT !.pc[t] = "loop"]
             ELSE [y EXCEPT !.pc[t] = "input"]

Answers(x, f) == CASE f.k = "arp"    -> Write(x)
                   [] f.k = "ip"     -> PrepareIpv4(x, "reply", TRUE)
                   [] f.k = "remote" -> PrepareIpv4(x, "reply", FALSE)
                   [] OTHER          -> {x}

ProcessPackets(t) ==
  /\ u.pc[t] = "input"
  /\ LET f == u.cur[t]
         x == [u EXCEPT !.cur[t] = NoRx, !.pc[t] = "pkts"]
     IN u' \in IF ~u.opened THEN {[u EXCEPT !.pc[t] = "crash"]}
               ELSE { PutFree(y, t) : y \in IF t = "P" /\ f.vlan # 1 THEN {x} ELSE Answers(x, f) }

CheckTimers == /\ u.pc.W = "loop" /\ ~Leaving(u) /\ u.tm # <<>>
               /\ LET x == [u EXCEPT !.tm = Tail(@)]
                  IN u' \in IF u.free = 0 THEN {x}
                            ELSE { PutFree(y, "W") : y \in PrepareIpv4(GetFree(x, "W"), "timer", Head(u.tm)) }

(***************************************************************************)
(* The ping thread and the netlink thread.                                  *)
(***************************************************************************)
PingSend == /\ u.pc.P = "start" /\ u.pc.W \in {"loop", "pkts", "read", "input"} /\ u.opened
            /\ u' \in IF u.free = 0 THEN {[u EXCEPT !.pc.P = "off"]}
                      ELSE { [PutFree(y, "P") EXCEPT !.pc.P = "loop"]
                              : y \in PrepareIpv4(GetFree(u, "P"), "echo", TRUE) }

PingEnds == /\ u.pc.P = "loop"
            /\ u' = [u EXCEPT !.pc.P = "off"]

(* cnic_arp_send: the frame is built in tx_pkt under xmit_mutex, then sent. *)
ArpFill == /\ u.pc.K = "start" /\ u.pc.W \in {"loop", "pkts", "read", "input", "closing"}
           /\ u' = IF u.xm # "free" THEN [u EXCEPT !.pc.K = "off"]
                   ELSE IF ~u.opened THEN [u EXCEPT !.pc.K = "crash"]
                   ELSE [u EXCEPT !.xm = "held", !.pc.K = "filled"]

ArpXmit == /\ u.pc.K = "filled"
           /\ u' = IF ~u.opened THEN [u EXCEPT !.pc.K = "crash"]
                   ELSE [StartXmit(u) EXCEPT !.xm = "free", !.pc.K = "off"]

(***************************************************************************)
(* Going down.  nic_close leaves the device open when its node is gone;     *)
(* without NIC_GOING_DOWN (the daemon stops) it stays open too.             *)
(***************************************************************************)
GoDown == /\ u.sc.down # "no" /\ u.down = "no" /\ u.pc.W \notin {"off", "crash"}
          /\ u' = [u EXCEPT !.down = u.sc.down]

LeaveLoop == /\ u.pc.W = "loop" /\ Leaving(u)
             /\ u' = [FreeFreeQueue(u) EXCEPT !.pc.W = "closing"]

NicClose(x, node) ==
  IF ~node THEN x
  ELSE [x EXCEPT !.opened = FALSE, !.held = @ \ (CloseResources(x.drv) \cup {"priv"})]

Close == /\ u.pc.W = "closing"
         /\ LET next(x) == [x EXCEPT !.xm = "free", !.down = "no", !.tries = 0,
                                     !.again = @ - 1, !.pc.W = IF u.again > 0 THEN "open" ELSE "off"]
            IN u' \in IF u.down # "down" THEN {next(u)}
                      ELSE { next(NicClose(u, node)) : node \in u.sc.node }

(***************************************************************************)
(* Specification.                                                           *)
(***************************************************************************)
Idle == [W |-> "off", P |-> "off", K |-> "off"]

Fresh(sc) == [sc |-> sc, drv |-> sc.drv, opened |-> FALSE, held |-> {}, lost |-> {}, tries |-> 0, again |-> sc.again,
              xm |-> "free", prod |-> 0, cons |-> 0, hw |-> 0, bell |-> 0,
              q |-> <<>>, in |-> sc.in, rx |-> <<>>, irq |-> FALSE, mute |-> FALSE, tm |-> sc.tm,
              free |-> 0, total |-> 0, hold |-> [t \in Threads |-> FALSE], cur |-> [t \in Threads |-> NoRx],
              down |-> "no", pc |-> [Idle EXCEPT !.W = "open", !.P = sc.ping, !.K = sc.arp]]

UInit == u \in { Fresh(sc) : sc \in UScenes }

Crashed(x) == "crash" \in { x.pc[t] : t \in {"W", "P", "K"} }

Thread(t) == NicProcessIntr(t) \/ GetPacket(t) \/ Read(t) \/ ProcessPackets(t)

Worker == Open \/ AllocFreeQueue \/ CheckTimers \/ LeaveLoop \/ Close \/ Thread("W")

UNext == /\ ~Crashed(u)
         /\ \/ Worker
            \/ PingSend \/ PingEnds \/ Thread("P")
            \/ ArpFill \/ ArpXmit
            \/ HwSend \/ HwReceive
            \/ GoDown

(* The hardware sends what it was told of, nic_loop sees an interrupt that was raised, and the *)
(* threads run.                                                                               *)
UFairness == /\ <>[](u.opened /\ u.hw < u.bell) => []<><<HwSend>>_u
             /\ <>[](u.pc.W = "loop" /\ u.irq /\ u.opened /\ ~Leaving(u)) => []<><<NicProcessIntr("W")>>_u
             /\ <>[](u.pc.W \in {"pkts", "read", "input"}) => []<><<Thread("W")>>_u
             /\ <>[](u.pc.P \in {"pkts", "read", "input"}) => []<><<Thread("P")>>_u
             /\ <>[](u.pc.P = "loop") => []<><<Thread("P") \/ PingEnds>>_u
             /\ <>[](u.pc.K = "filled") => []<><<ArpXmit>>_u
             /\ <>[](u.pc.W = "loop" /\ Leaving(u)) => []<><<LeaveLoop>>_u
             /\ <>[](u.pc.W = "closing") => []<><<Close>>_u

(***************************************************************************)
(* Properties.                                                              *)
(***************************************************************************)
(* A failed open gives back all it took but the register file of bnx2, its  *)
(* status block if it uses MSI-X, and the buffers of bnx2 and bnx2x; an     *)
(* open device holds all it needs, a closed one nothing; no free packet is  *)
(* lost or put back twice, whatever process_packets, the timers and the     *)
(* ping do with it (open, close, get_next_free_packet and                   *)
(* put_packet_in_free_queue).                                               *)
DeviceAccounted ==
  /\ u.lost \subseteq (CASE u.drv = "bnx2"  -> {"bar0", "bufs"} \cup (IF u.sc.msix THEN {"sblk"} ELSE {})
                         [] u.drv = "bnx2x" -> {"bufs"}
                         [] u.drv = "qedi"  -> {})
  /\ u.held = IF u.opened THEN All(u.drv) ELSE {}
  /\ u.free + Cardinality({ t \in Threads : u.hold[t] }) = u.total
  /\ u.total \in 0..(NumPackets + 1)

(* The device stays usable: xmit_mutex, which bnx2_write leaves locked until *)
(* an interrupt, is released again and again, and with bnx2 and bnx2x a      *)
(* frame that waits for an ARP request is sent after it.  Two things are     *)
(* excepted: the interrupt of a completion is lost and no other comes, for   *)
(* which bnx2 has no timer, and a thread that uses the device after nic_loop *)
(* closed it brings the daemon down.                                         *)
TransmitProgress ==
  /\ []<>(u.xm = "free" \/ u.mute \/ Crashed(u) \/ u.pc.W = "off")
  /\ u.sc.calm => []<>(u.q = <<>>)
=============================================================================
