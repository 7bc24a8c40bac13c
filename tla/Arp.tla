-------------------------------- MODULE Arp --------------------------------
(***************************************************************************)
(* The ARP table of iscsiuio (uip_arp.c), one for all interfaces.  An entry *)
(* with address 0 is unused.  Its time is the value of arptime, an unsigned *)
(* char, when its address was last heard from.                              *)
(***************************************************************************)
EXTENDS Integers

CONSTANTS
  Addrs,      \* addresses, not 0
  HalfZero,   \* those of them one half of which is 0, as 10.1.0.0
  Macs,       \* hardware addresses, not 0
  TabSize,    \* UIP_ARPTAB_SIZE
  MaxAge,     \* UIP_ARP_MAXAGE
  TimeRange   \* the values of arptime: 2^8

ASSUME ArpAssumption == /\ TabSize \in Nat \ {0}
                        /\ MaxAge \in Nat \ {0} /\ TimeRange \in Nat /\ MaxAge < TimeRange
                        /\ 0 \notin Addrs /\ HalfZero \subseteq Addrs

VARIABLES
  arp_table, arptime,
  quiet,      \* history: how many ticks ago the table was last updated for an address, at most MaxAge
  heard       \* history: the pairs of addresses that it was updated for

arpvars == <<arp_table, arptime, quiet, heard>>

Slots == 1..TabSize

Used(i) == arp_table[i].ip # 0

(* (u8_t)(arptime - time) *)
TicksSince(now, time) == IF now >= time THEN now - time ELSE now - time + TimeRange

(* ++arptime *)
NextTime == IF arptime + 1 = TimeRange THEN 0 ELSE arptime + 1

uip_arp_init == /\ arp_table = [i \in Slots |-> [ip |-> 0, mac |-> 0, time |-> 0]]
                /\ arptime = 0
                /\ quiet = [a \in Addrs \cup {0} |-> MaxAge]
                /\ heard = {}

Expired_Late(i, now) == Used(i) /\ TicksSince(now, arp_table[i].time) > MaxAge

Expired(i, now) == Used(i) /\ TicksSince(now, arp_table[i].time) >= MaxAge

uip_arp_timer ==
  /\ arptime' = NextTime
  /\ arp_table' = [i \in Slots |-> IF Expired(i, arptime') THEN [arp_table[i] EXCEPT !.ip = 0] ELSE arp_table[i]]
  /\ quiet' = [a \in Addrs \cup {0} |-> IF quiet[a] < MaxAge THEN quiet[a] + 1 ELSE MaxAge]
  /\ UNCHANGED heard

First(S) == CHOOSE i \in S : \A j \in S : i <= j

Known(ip) == \E i \in Slots : arp_table[i].ip = ip

Oldest(i) == \A j \in Slots : TicksSince(arptime, arp_table[j].time) <= TicksSince(arptime, arp_table[i].time)

(* Where a new entry goes: an unused one, or else the oldest. *)
Place == IF \E i \in Slots : ~Used(i) THEN First({i \in Slots : ~Used(i)}) ELSE First({i \in Slots : Oldest(i)})

(* Whether there is an entry to update.  One of whose address a half is 0 is not *)
(* taken for an entry in use here, so such an address gets a new one each time.  *)
Existing(ip) == ip \notin HalfZero \cup {0} /\ Known(ip)

(* An entry that exists gets a new time and keeps its hardware address, whatever *)
(* the message says.  The sender of a probe has address 0.                       *)
uip_arp_update(ip, mac) ==
  /\ LET i == IF Existing(ip) THEN First({j \in Slots : arp_table[j].ip = ip}) ELSE Place
     IN arp_table' = [arp_table EXCEPT ![i] = [ip |-> ip, time |-> arptime,
                                                mac |-> IF Existing(ip) THEN arp_table[i].mac ELSE mac]]
  /\ quiet' = [quiet EXCEPT ![ip] = 0]
  /\ heard' = heard \cup {<<ip, mac>>}
  /\ UNCHANGED arptime

(* An unused entry matches the address 0 and still has its old hardware address. *)
uip_lookup_arp_entry(ip) == IF Known(ip) THEN arp_table[First({i \in Slots : arp_table[i].ip = ip})].mac ELSE 0

ArpNext == uip_arp_timer \/ \E ip \in Addrs \cup {0}, mac \in Macs : uip_arp_update(ip, mac)

ArpSpec == uip_arp_init /\ [][ArpNext]_arpvars

(* What the table holds for an address was announced for this very address; *)
(* the address was heard from less than MaxAge ticks ago although the clock  *)
(* wraps around; and there is one entry for it, unless half of it is 0.      *)
(* Which message was the last is left open: a host that comes back with      *)
(* another hardware address refreshes the entry with the old one             *)
(* (uip_arp_timer and uip_arp_update).                                       *)
ArpFresh == \A i \in Slots : Used(i) =>
              /\ <<arp_table[i].ip, arp_table[i].mac>> \in heard
              /\ quiet[arp_table[i].ip] < MaxAge
              /\ arp_table[i].ip \notin HalfZero => \A j \in Slots : arp_table[j].ip = arp_table[i].ip => j = i
=============================================================================
