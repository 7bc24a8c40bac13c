-------------------------------- MODULE Uiod --------------------------------
(***************************************************************************)
(* The data path of iscsiuio below Nic: the user space drivers with their    *)
(* packets (Uio) and the protocols above them (Stack with Arp).  A frame      *)
(* meets the other half only as one of the frames of a scene, so a behaviour  *)
(* has a device or an interface.                                             *)
(***************************************************************************)
EXTENDS Stack

CONSTANTS UScenes, NumPackets

VARIABLE u

Dev == INSTANCE Uio

vars == <<u, v, arp_table, arptime, quiet, heard>>

NoUio == [Dev!Fresh([drv |-> "qedi", fail |-> FALSE, packets |-> {}, shut |-> FALSE, ifdown |-> FALSE, prompt |-> TRUE,
                        in |-> <<>>, tm |-> <<>>, down |-> "no", node |-> {}, again |-> 0, ping |-> "off",
                        arp |-> "off", calm |-> FALSE, msix |-> FALSE, lossy |-> FALSE]) EXCEPT !.pc.W = "off"]

Init == \/ Dev!UInit /\ v = NoStack /\ uip_arp_init
        \/ u = NoUio /\ StackInit

Next == \/ Dev!UNext /\ UNCHANGED stackvars
        \/ StackNext /\ UNCHANGED u

Spec == Init /\ [][Next]_vars /\ Dev!UFairness /\ StackFairness

\* A failed open gives back what it took, an open device holds all it needs, a closed one nothing, and
\* no packet is lost or put back twice; only the register file of bnx2, its status block with MSI-X, and
\* the buffers of bnx2 and bnx2x stay behind after a failure (open, close, get_next_free_packet and
\* put_packet_in_free_queue).
DeviceAccounted == Dev!DeviceAccounted

\* xmit_mutex, which bnx2_write leaves locked until an interrupt, is released again and again, and with
\* bnx2 and bnx2x a frame that waits for an ARP request is sent after it.  Every path request is
\* answered, every ping and every acquisition ends, however silent the network is.  Excepted are a lost
\* interrupt that no other follows; the end of the daemon when a thread uses a closed device, or when
\* an echo reply comes while no ping runs and process_icmp_packet follows the NULL ping_conf; and the
\* endless loop of ipv6_icmp_handle_router_adv over an option of length 0.
Settles == Dev!TransmitProgress /\ StackSettles
=============================================================================
