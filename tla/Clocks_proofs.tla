---------------------------- MODULE Clocks_proofs ----------------------------
(***************************************************************************)
(* What three parts keep as time passes, each on its own: the ARP table    *)
(* ages its entries, the iSNS client refreshes its registration, and the   *)
(* actor scheduler wakes what it delayed.                                  *)
(***************************************************************************)
EXTENDS Arp, Isns, Actor, SequenceTheorems, TLAPS

------------------------------------------------------------------------------
(* The ARP table never offers an entry for an address that was quiet for   *)
(* too long, for every table size, every maximal age and every range of the *)
(* clock above it.                                                          *)

ArpType ==
  /\ arp_table \in [Slots -> [ip : Addrs \cup {0}, mac : Macs \cup {0}, time : 0..(TimeRange - 1)]]
  /\ arptime \in 0..(TimeRange - 1)
  /\ quiet \in [Addrs \cup {0} -> 0..MaxAge]

(* The clock, which wraps around, tells the real age of every entry in use: its *)
(* address has not been quiet for longer.                                       *)
AgeIsReal == \A i \in Slots : Used(i) =>
               /\ quiet[arp_table[i].ip] <= TicksSince(arptime, arp_table[i].time)
               /\ TicksSince(arptime, arp_table[i].time) < MaxAge

Announced == \A i \in Slots : Used(i) => <<arp_table[i].ip, arp_table[i].mac>> \in heard

Unique == \A i, j \in Slots : Used(i) /\ arp_table[j].ip = arp_table[i].ip => j = i \/ arp_table[i].ip \in HalfZero

ArpInv == ArpType /\ AgeIsReal /\ Announced /\ Unique

(* An entry that exists is the one uip_arp_update finds: there is only one. *)
LEMMA FirstIsThe ==
  ASSUME ArpInv, NEW ip \in Addrs \cup {0}, Existing(ip)
  PROVE  LET f == First({j \in Slots : arp_table[j].ip = ip})
         IN f \in Slots /\ arp_table[f].ip = ip
<1>1. PICK k \in Slots : arp_table[k].ip = ip /\ ip \notin HalfZero \cup {0}
  BY DEF Existing, Known
<1>2. \A j \in Slots : arp_table[j].ip = ip => j = k
  BY <1>1 DEF ArpInv, Unique, Used
<1>3. {j \in Slots : arp_table[j].ip = ip} = {k}
  BY <1>1, <1>2
<1>4. k <= k
  BY DEF Slots
<1>5. QED
  BY <1>1, <1>3, <1>4 DEF First

(* uip_arp_timer: an entry grows older by one tick, or is dropped at MaxAge. *)
LEMMA TimerKeeps == ASSUME ArpInv, uip_arp_timer PROVE ArpInv'
<1> USE DEF ArpInv
<1>1. arptime' \in 0..(TimeRange - 1)
  BY ArpAssumption DEF uip_arp_timer, NextTime, ArpType
<1>2. /\ arp_table' \in [Slots -> [ip : Addrs \cup {0}, mac : Macs \cup {0}, time : 0..(TimeRange - 1)]]
      /\ quiet' \in [Addrs \cup {0} -> 0..MaxAge]
  BY ArpAssumption DEF uip_arp_timer, ArpType
<1>3. \A i \in Slots : Used(i)' => /\ Used(i) /\ arp_table'[i] = arp_table[i] /\ ~Expired(i, arptime')
  BY DEF uip_arp_timer, Used, ArpType
<1>4. AgeIsReal'
  <2> SUFFICES ASSUME NEW i \in Slots, Used(i)'
               PROVE /\ quiet'[arp_table'[i].ip] <= TicksSince(arptime', arp_table'[i].time)
                     /\ TicksSince(arptime', arp_table'[i].time) < MaxAge
    BY DEF AgeIsReal
  <2> DEFINE a == arp_table[i].ip
             t == arp_table[i].time
  <2>1. Used(i) /\ arp_table'[i] = arp_table[i] /\ ~(TicksSince(arptime', t) >= MaxAge)
    BY <1>3 DEF Expired
  <2>2. quiet[a] <= TicksSince(arptime, t) /\ TicksSince(arptime, t) < MaxAge
    BY <2>1 DEF AgeIsReal
  <2>3. t \in 0..(TimeRange - 1) /\ arptime \in 0..(TimeRange - 1) /\ a \in Addrs \cup {0} /\ quiet[a] \in 0..MaxAge
    BY DEF ArpType
  <2>4. arptime' = NextTime /\ quiet'[a] = IF quiet[a] < MaxAge THEN quiet[a] + 1 ELSE MaxAge
    BY <2>3 DEF uip_arp_timer
  <2> HIDE DEF a, t
  <2>5. TicksSince(arptime', t) = TicksSince(arptime, t) + 1 /\ TicksSince(arptime, t) \in Nat
    BY <2>2, <2>3, <2>4, ArpAssumption DEF TicksSince, NextTime
  <2>6. quiet'[a] <= TicksSince(arptime', t) /\ TicksSince(arptime', t) < MaxAge
    BY <2>1, <2>2, <2>3, <2>4, <2>5, ArpAssumption
  <2>7. QED
    BY <2>1, <2>6 DEF a, t
<1>5. Announced'
  BY <1>3 DEF Announced, uip_arp_timer
<1>6. Unique'
  <2> SUFFICES ASSUME NEW i \in Slots, NEW j \in Slots, Used(i)', arp_table'[j].ip = arp_table'[i].ip
               PROVE j = i \/ arp_table'[i].ip \in HalfZero
    BY DEF Unique
  <2>1. Used(j)'
    BY DEF Used
  <2>2. QED
    BY <1>3, <2>1 DEF Unique
<1>7. QED
  BY <1>1, <1>2, <1>4, <1>5, <1>6 DEF ArpType

(* uip_arp_update: the entry it writes is confirmed now, the others stay. *)
LEMMA UpdateKeeps ==
  ASSUME ArpInv, NEW ip \in Addrs \cup {0}, NEW mac \in Macs, uip_arp_update(ip, mac)
  PROVE  ArpInv'
<1> DEFINE k == IF Existing(ip) THEN First({j \in Slots : arp_table[j].ip = ip}) ELSE Place
           e == [ip |-> ip, time |-> arptime, mac |-> IF Existing(ip) THEN arp_table[k].mac ELSE mac]
<1>1. /\ arp_table' = [arp_table EXCEPT ![k] = e]
      /\ quiet' = [quiet EXCEPT ![ip] = 0]
      /\ heard' = heard \cup {<<ip, mac>>} /\ arptime' = arptime
  BY DEF uip_arp_update
<1>2. Existing(ip) => k \in Slots /\ arp_table[k].ip = ip
  BY FirstIsThe
<1>3. e \in [ip : Addrs \cup {0}, mac : Macs \cup {0}, time : 0..(TimeRange - 1)] /\ e.ip = ip /\ e.time = arptime
  BY <1>2 DEF ArpInv, ArpType
<1>4. ip # 0 => <<ip, e.mac>> \in heard'
  <2>1. CASE Existing(ip)
    <3>1. Used(k) /\ k \in Slots /\ arp_table[k].ip = ip /\ e.mac = arp_table[k].mac
      BY <1>2, <2>1 DEF Used, Existing
    <3>2. QED
      BY <1>1, <3>1 DEF ArpInv, Announced
  <2>2. CASE ~Existing(ip)
    BY <1>1, <2>2
  <2>3. QED
    BY <2>1, <2>2
<1>5. ip \notin HalfZero \cup {0} => \A j \in Slots : arp_table[j].ip = ip => j = k
  <2> SUFFICES ASSUME ip \notin HalfZero \cup {0}, NEW j \in Slots, arp_table[j].ip = ip PROVE j = k
    OBVIOUS
  <2>1. Existing(ip) /\ Used(j)
    BY DEF Existing, Known, Used
  <2>2. QED
    BY <1>2, <2>1 DEF ArpInv, Unique
<1> HIDE DEF k, e
<1>6. ArpType'
  <2>1. arp_table' \in [Slots -> [ip : Addrs \cup {0}, mac : Macs \cup {0}, time : 0..(TimeRange - 1)]]
    BY <1>1, <1>3 DEF ArpInv, ArpType
  <2>2. 0 \in 0..MaxAge
    BY ArpAssumption
  <2>3. quiet' \in [Addrs \cup {0} -> 0..MaxAge]
    BY <1>1, <2>2, Zenon DEF ArpInv, ArpType
  <2>4. QED
    BY <1>1, <2>1, <2>3 DEF ArpInv, ArpType
<1>7. \A i \in Slots : i = k \/ arp_table'[i] = arp_table[i]
  BY <1>1 DEF ArpInv, ArpType
<1>8. k \in Slots => arp_table'[k] = e
  BY <1>1 DEF ArpInv, ArpType
<1>9. AgeIsReal'
  <2> SUFFICES ASSUME NEW i \in Slots, Used(i)'
               PROVE /\ quiet'[arp_table'[i].ip] <= TicksSince(arptime, arp_table'[i].time)
                     /\ TicksSince(arptime, arp_table'[i].time) < MaxAge
    BY <1>1 DEF AgeIsReal
  <2>1. quiet'[ip] = 0 /\ \A a \in Addrs \cup {0} : a # ip => quiet'[a] = quiet[a]
    BY <1>1 DEF ArpInv, ArpType
  <2>2. CASE i = k
    <3>1. arp_table'[i].ip = ip /\ arp_table'[i].time = arptime /\ arptime \in Int
      BY <1>3, <1>8, <2>2 DEF ArpInv, ArpType
    <3>2. QED
      BY <2>1, <3>1, ArpAssumption DEF TicksSince
  <2>3. CASE i # k
    <3> DEFINE t == arp_table[i].time
    <3>1. arp_table'[i] = arp_table[i] /\ Used(i)
      BY <1>7, <2>3 DEF Used
    <3>2. quiet[arp_table[i].ip] <= TicksSince(arptime, t) /\ TicksSince(arptime, t) < MaxAge
      BY <3>1 DEF ArpInv, AgeIsReal
    <3>3. t \in 0..(TimeRange - 1) /\ arptime \in 0..(TimeRange - 1) /\ arp_table[i].ip \in Addrs \cup {0}
      BY DEF ArpInv, ArpType
    <3> HIDE DEF t
    <3>4. TicksSince(arptime, t) >= 0
      BY <3>3, ArpAssumption DEF TicksSince
    <3>5. quiet'[arp_table[i].ip] <= TicksSince(arptime, t)
      BY <2>1, <3>2, <3>3, <3>4
    <3>6. QED
      BY <3>1, <3>2, <3>5 DEF t
  <2>4. QED
    BY <2>2, <2>3
<1>10. Announced'
  <2> SUFFICES ASSUME NEW i \in Slots, Used(i)'
               PROVE <<arp_table'[i].ip, arp_table'[i].mac>> \in heard'
    BY DEF Announced
  <2>1. CASE i = k
    BY <1>3, <1>4, <1>8, <2>1 DEF Used
  <2>2. CASE i # k
    BY <1>1, <1>7, <2>2 DEF ArpInv, Announced, Used
  <2>3. QED
    BY <2>1, <2>2
<1>11. Unique'
  <2> SUFFICES ASSUME NEW i \in Slots, NEW j \in Slots, Used(i)', arp_table'[j].ip = arp_table'[i].ip
               PROVE j = i \/ arp_table'[i].ip \in HalfZero
    BY DEF Unique
  <2>1. CASE i = k
    BY <1>3, <1>5, <1>7, <1>8, <2>1 DEF Used
  <2>2. CASE i # k /\ j = k
    BY <1>3, <1>5, <1>7, <1>8, <2>2 DEF Used
  <2>3. CASE i # k /\ j # k
    BY <1>7, <2>3 DEF ArpInv, Unique, Used
  <2>4. QED
    BY <2>1, <2>2, <2>3
<1>12. QED
  BY <1>6, <1>9, <1>10, <1>11 DEF ArpInv

(* Whatever arrives and however often the clock of uip_arp_timer wraps       *)
(* around, the table holds only pairs that were announced, for addresses     *)
(* that were heard from less than MaxAge ticks ago, each once unless half of *)
(* it is 0.                                                                  *)
THEOREM ArpStaysFresh == ArpSpec => []ArpFresh
<1>1. uip_arp_init => ArpInv
  BY ArpAssumption DEF uip_arp_init, ArpInv, ArpType, AgeIsReal, Announced, Unique, Used
<1>2. ArpInv /\ [ArpNext]_arpvars => ArpInv'
  <2> SUFFICES ASSUME ArpInv, [ArpNext]_arpvars PROVE ArpInv'
    OBVIOUS
  <2>1. CASE uip_arp_timer
    BY <2>1, TimerKeeps
  <2>2. ASSUME NEW ip \in Addrs \cup {0}, NEW mac \in Macs, uip_arp_update(ip, mac) PROVE ArpInv'
    BY <2>2, UpdateKeeps
  <2>3. CASE UNCHANGED arpvars
    BY <2>3 DEF arpvars, ArpInv, ArpType, AgeIsReal, Announced, Unique, Used, TicksSince
  <2>4. QED
    BY <2>1, <2>2, <2>3 DEF ArpNext
<1>3. ArpInv => ArpFresh
  <2> SUFFICES ASSUME ArpInv, NEW i \in Slots, Used(i)
               PROVE /\ <<arp_table[i].ip, arp_table[i].mac>> \in heard
                     /\ quiet[arp_table[i].ip] < MaxAge
                     /\ arp_table[i].ip \notin HalfZero =>
                          \A j \in Slots : arp_table[j].ip = arp_table[i].ip => j = i
    BY DEF ArpFresh
  <2>1. /\ quiet[arp_table[i].ip] <= TicksSince(arptime, arp_table[i].time)
        /\ TicksSince(arptime, arp_table[i].time) < MaxAge
    BY DEF ArpInv, AgeIsReal
  <2>2. /\ quiet[arp_table[i].ip] \in Int /\ arptime \in Int /\ arp_table[i].time \in Int
    BY DEF ArpInv, ArpType
  <2>3. quiet[arp_table[i].ip] < MaxAge
    BY <2>1, <2>2, ArpAssumption DEF TicksSince
  <2>4. QED
    BY <2>3 DEF ArpInv, Announced, Unique
<1>4. QED
  BY <1>1, <1>2, <1>3, PTL DEF ArpSpec

------------------------------------------------------------------------------
(* The refresh of an iSNS registration is carried on by exactly one timer   *)
(* or query, in every scene: for any interfaces, faults, number of drops    *)
(* and changes of the server, and whatever another process does to it.      *)

IsnsFields == {"sc", "pc", "regn", "stop", "list", "exp", "tm", "disc", "fly", "known", "msgs", "srv", "c", "nf",
               "drops", "changes"}

(* What the refresh consists of. *)
RefreshFields == {"sc", "pc", "regn", "list", "tm", "fly", "disc"}

(* t is s as far as the refresh goes. *)
Same(s, t) == DOMAIN t = DOMAIN s /\ \A x \in RefreshFields : t[x] = s[x]

ByPeriod(s) == s.sc.poll < 0 /\ s.sc.period

(* Only a child that polls has the periodic timer. *)
PollsOnly(s) == s.sc.poll > 0 \/ s.disc = {}

(* Nothing is due and nothing in flight. *)
NoRefresh(s) == s.tm = {} /\ s.fly = {}

OneRefresh(s) == \E e \in Entries : s.list = {e} /\ ((s.tm = {e} /\ s.fly = {}) \/ (s.tm = {} /\ s.fly = {e}))

(* The entry has a periodic timer. *)
Polled(s) == s.sc.poll > 0 /\ s.sc.period => \E e \in Entries : s.list = {e} /\ e \in s.disc

(* A child that has to register has no refresh left over; one that is        *)
(* registered has one if it keeps a period, and none otherwise.              *)
RefreshInv(s) ==
  /\ DOMAIN s = IsnsFields /\ s.regn \in BOOLEAN /\ s.sc.poll \in Int /\ s.sc.period \in BOOLEAN /\ PollsOnly(s)
  /\ s.pc = "exit" => s.tm = {}
  /\ s.pc # "exit" /\ s.regn => NoRefresh(s)
  /\ s.pc \in {"init", "end"} => NoRefresh(s)
  /\ s.pc = "init" => s.regn
  /\ s.pc = "loop" /\ ~s.regn => IF ByPeriod(s) THEN OneRefresh(s) ELSE NoRefresh(s)
  /\ s.pc = "loop" /\ ~s.regn => Polled(s)
  /\ s.pc \in {"init", "loop", "end", "exit"}

LEMMA SameKeeps == ASSUME NEW s, NEW t, RefreshInv(s), Same(s, t) PROVE RefreshInv(t)
BY DEF RefreshInv, Same, RefreshFields, IsnsFields, ByPeriod, NoRefresh, OneRefresh, PollsOnly, Polled

LEMMA InvSuffices == ASSUME RefreshInv(n) PROVE RefreshSupervised
BY DEF RefreshInv, RefreshSupervised, ByPeriod, NoRefresh, OneRefresh, Polled

-----------------------------------------------------------------------------
(* A query changes the sessions, never the refresh. *)
LEMMA QueriesApart ==
  ASSUME NEW s, DOMAIN s = IsnsFields, NEW tgt, NEW iname, NEW q \in isns_disc_new_portals(s, tgt, iname)
  PROVE  q[1] \in BOOLEAN /\ Same(s, q[2])
<1>1. \A k : Same(s, [s EXCEPT !.known = k])
  BY DEF Same, IsnsFields, RefreshFields
<1>2. Same(s, update_sessions(s, tgt, iname)) /\ Same(s, s) /\ Same(s, Spend(s))
  BY <1>1 DEF update_sessions, Spend, Same, IsnsFields, RefreshFields
<1> DEFINE ok == \A a \in {isns_query_node(i, iname) : i \in s.sc.ifaces} \ {NotSet} : discovery_isns_query(s, a)
<1>3. q = <<ok, IF ok THEN update_sessions(s, tgt, iname) ELSE s>> \/ q = <<FALSE, Spend(s)>>
  BY Zenon DEF isns_disc_new_portals
<1>4. ok \in BOOLEAN
  OBVIOUS
<1> HIDE DEF ok
<1>5. CASE q = <<FALSE, Spend(s)>>
  BY <1>2, <1>5
<1>6. CASE q = <<ok, IF ok THEN update_sessions(s, tgt, iname) ELSE s>>
  <2>1. q[1] = ok /\ q[2] = (IF ok THEN update_sessions(s, tgt, iname) ELSE s)
    BY <1>6
  <2>2. QED
    BY <1>2, <1>4, <2>1
<1>7. QED
  BY <1>3, <1>5, <1>6

(* What registration leaves: the new entry with its timer, or nothing. *)
Done(s, t) == /\ DOMAIN t = IsnsFields /\ t.sc = s.sc /\ t.pc = s.pc /\ t.regn = s.regn /\ PollsOnly(t)
              /\ t.fly = {} /\ IF ByPeriod(s) THEN OneRefresh(t) ELSE NoRefresh(t)
              /\ Polled(t)

Failed(s, t) == /\ DOMAIN t = IsnsFields /\ t.sc = s.sc /\ t.pc = s.pc /\ t.regn = s.regn /\ PollsOnly(t) /\ NoRefresh(t)

LEMMA SetupGives ==
  ASSUME NEW s, DOMAIN s = IsnsFields, s.list = {}, NoRefresh(s), PollsOnly(s), s.sc.poll \in Int, s.sc.poll # 0,
         s.sc.period \in BOOLEAN, NEW r \in isns_setup_registration_refresh(s)
  PROVE  (r[1] = TRUE /\ Done(s, r[2])) \/ (r[1] = FALSE /\ Failed(s, r[2]))
<1> DEFINE e == CHOOSE x \in Unused(s) : x \notin s.disc \/ Unused(s) \subseteq s.disc
           t == [s EXCEPT !.list = @ \cup {e}]
<1>0. Unused(s) # {} /\ Unused(s) \subseteq Entries
  BY DEF NoRefresh, Entries, Unused
<1>1. e \in Entries
  <2>1. \E x \in Unused(s) : x \notin s.disc \/ Unused(s) \subseteq s.disc
    BY <1>0
  <2>2. e \in Unused(s)
    BY <2>1, Zenon
  <2>3. QED
    BY <1>0, <2>2
<1> HIDE DEF e
<1>2. CASE ~s.sc.period
  <2>1. r = <<TRUE, s>>
    BY <1>2 DEF isns_setup_registration_refresh
  <2>2. Done(s, s)
    BY <1>2 DEF Done, ByPeriod, NoRefresh, Polled
  <2>3. QED
    BY <2>1, <2>2
<1>3. CASE s.sc.period /\ r = <<FALSE, Spend(s)>>
  BY <1>3 DEF Failed, Spend, NoRefresh, PollsOnly, IsnsFields
<1>4. CASE s.sc.period /\ s.sc.poll > 0 /\ r = <<TRUE, isns_add_timer(t, e)>>
  <2> DEFINE u == isns_add_timer(t, e)
  <2>1. /\ DOMAIN u = IsnsFields /\ \A x \in {"sc", "pc", "regn", "tm", "fly"} : u[x] = s[x]
        /\ u.list = s.list \cup {e} /\ u.disc = s.disc \cup {e}
    BY DEF isns_add_timer, IsnsFields
  <2>2. ~ByPeriod(s)
    BY <1>4 DEF ByPeriod
  <2> HIDE DEF u
  <2>3. u.list = {e} /\ e \in u.disc
    BY <2>1
  <2>4. Polled(u)
    BY <1>1, <2>3, Zenon DEF Polled
  <2>5. Done(s, u)
    BY <1>4, <2>1, <2>2, <2>4 DEF Done, NoRefresh, PollsOnly
  <2>6. QED
    BY <1>4, <2>5 DEF u
<1>5. CASE s.sc.period /\ ~(s.sc.poll > 0) /\ r = <<TRUE, isns_add_oneshot_timer(t, e)>>
  <2> DEFINE u == isns_add_oneshot_timer(t, e)
  <2>1. /\ DOMAIN u = IsnsFields /\ \A x \in {"sc", "pc", "regn", "fly", "disc"} : u[x] = s[x]
        /\ u.list = s.list \cup {e} /\ u.tm = s.tm \cup {e}
    BY DEF isns_add_oneshot_timer, IsnsFields
  <2>2. ByPeriod(s)
    BY <1>5 DEF ByPeriod
  <2> HIDE DEF u
  <2>3. u.list = {e} /\ u.tm = {e} /\ u.fly = {}
    BY <2>1 DEF NoRefresh
  <2>4. OneRefresh(u)
    BY <1>1, <2>3, Zenon DEF OneRefresh
  <2>5. Done(s, u)
    BY <1>5, <2>1, <2>2, <2>3, <2>4 DEF Done, PollsOnly, Polled
  <2>6. QED
    BY <1>5, <2>5 DEF u
<1>6. QED
  BY <1>2, <1>3, <1>4, <1>5 DEF isns_setup_registration_refresh, e

LEMMA ScnGives ==
  ASSUME NEW s, NEW s0, Done(s0, s), NEW r \in ScnRegister(s)
  PROVE  (r[1] = TRUE /\ Done(s0, r[2])) \/ (r[1] = FALSE /\ Failed(s0, r[2]))
<1> DEFINE U(x, ns) == [x EXCEPT !.srv.scn = @ \cup ns]
           C(x) == isns_cancel_refresh_timers(x)
<1>1. \A ns : Done(s0, U(s, ns)) /\ Done(s0, U(Spend(s), ns))
  BY DEF Done, Spend, OneRefresh, NoRefresh, PollsOnly, Polled, IsnsFields
<1>2. \A x : Done(s0, x) => Failed(s0, C(x))
  BY DEF Done, Failed, NoRefresh, PollsOnly, IsnsFields, isns_cancel_refresh_timers
<1>3. r = <<TRUE, U(s, isns_initiators)>> \/ (\E ns : r = <<TRUE, U(Spend(s), ns)>>)
      \/ (\E ns : r = <<FALSE, C(U(Spend(s), ns))>>)
  BY DEF ScnRegister
<1> HIDE DEF U, C
<1>4. CASE r = <<TRUE, U(s, isns_initiators)>>
  BY <1>1, <1>4
<1>5. ASSUME NEW ns, r = <<TRUE, U(Spend(s), ns)>> PROVE r[1] = TRUE /\ Done(s0, r[2])
  BY <1>1, <1>5
<1>6. ASSUME NEW ns, r = <<FALSE, C(U(Spend(s), ns))>> PROVE r[1] = FALSE /\ Failed(s0, r[2])
  <2>1. Failed(s0, C(U(Spend(s), ns)))
    BY <1>1, <1>2
  <2>2. QED
    BY <1>6, <2>1
<1>7. QED
  BY <1>3, <1>4, <1>5, <1>6

(* Registration from an empty list. *)
LEMMA RegistrationGives ==
  ASSUME NEW s, DOMAIN s = IsnsFields, s.list = {}, NoRefresh(s), PollsOnly(s), s.sc.poll \in Int, s.sc.period \in BOOLEAN,
         NEW r \in isns_scn_register(s)
  PROVE  (r[1] = TRUE /\ Done(s, r[2])) \/ (r[1] = FALSE /\ Failed(s, r[2]))
<1> DEFINE g == [s EXCEPT !.srv.reg = @ \cup isns_build_objs(s)]
<1>1. /\ DOMAIN g = IsnsFields /\ g.list = {} /\ NoRefresh(g) /\ PollsOnly(g) /\ g.sc = s.sc
      /\ \A t : (Done(g, t) => Done(s, t)) /\ (Failed(g, t) => Failed(s, t))
  BY DEF NoRefresh, Done, Failed, ByPeriod, PollsOnly, IsnsFields
<1>2. CASE r = <<FALSE, Spend(s)>>
  BY <1>2 DEF Failed, Spend, NoRefresh, PollsOnly, IsnsFields
<1>3. CASE s.sc.poll = 0 /\ r = <<TRUE, g>>
  BY <1>1, <1>3 DEF Done, ByPeriod, NoRefresh, Polled, IsnsFields
<1> HIDE DEF g
<1>4. CASE s.sc.poll # 0 /\ \E x \in isns_setup_registration_refresh(g) : r \in (IF x[1] THEN ScnRegister(x[2]) ELSE {x})
  <2>1. PICK x \in isns_setup_registration_refresh(g) : r \in (IF x[1] THEN ScnRegister(x[2]) ELSE {x})
    BY <1>4
  <2>2. (x[1] = TRUE /\ Done(g, x[2])) \/ (x[1] = FALSE /\ Failed(g, x[2]))
    BY <1>1, <1>4, SetupGives
  <2>3. CASE x[1] = TRUE
    BY <1>1, <2>1, <2>2, <2>3, ScnGives
  <2>4. CASE x[1] = FALSE
    BY <1>1, <2>1, <2>2, <2>4
  <2>5. QED
    BY <2>2, <2>3, <2>4
<1>5. QED
  BY <1>2, <1>3, <1>4 DEF isns_scn_register, isns_register_objs, g

LEMMA RegisterKeeps ==
  ASSUME NEW s, RefreshInv(s), s.pc = "loop", s.regn, NEW t \in Register(s)
  PROVE  RefreshInv(t)
<1> DEFINE z == isns_clear_refresh_list(s)
<1>1. /\ DOMAIN z = IsnsFields /\ z.list = {} /\ NoRefresh(z) /\ PollsOnly(z) /\ z.sc = s.sc /\ z.pc = "loop" /\ z.regn = TRUE
      /\ z.sc.poll \in Int /\ z.sc.period \in BOOLEAN
  BY DEF RefreshInv, NoRefresh, PollsOnly, isns_clear_refresh_list, IsnsFields
<1> HIDE DEF z
<1>2. PICK r \in isns_scn_register(z) :
        t \in (IF r[1] THEN {Registered(q[2], TRUE) : q \in isns_disc_new_portals(r[2], NotSet, NotSet)}
               ELSE {Registered(r[2], FALSE)})
  BY DEF Register, z
<1>3. (r[1] = TRUE /\ Done(z, r[2])) \/ (r[1] = FALSE /\ Failed(z, r[2]))
  BY <1>1, RegistrationGives
<1>4. CASE r[1] = FALSE
  <2>1. t = Registered(r[2], FALSE) /\ Failed(z, r[2])
    BY <1>2, <1>3, <1>4
  <2>2. QED
    BY <1>1, <2>1 DEF Registered, Failed, RefreshInv, NoRefresh, PollsOnly, IsnsFields
<1>5. CASE r[1] = TRUE
  <2>1. PICK q \in isns_disc_new_portals(r[2], NotSet, NotSet) : t = Registered(q[2], TRUE)
    BY <1>2, <1>5
  <2>2. Done(z, r[2]) /\ DOMAIN r[2] = IsnsFields
    BY <1>3, <1>5 DEF Done
  <2>3. Same(r[2], q[2])
    BY <2>2, QueriesApart
  <2>4. Done(z, q[2])
    BY <2>2, <2>3 DEF Done, Same, RefreshFields, OneRefresh, NoRefresh, PollsOnly, Polled
  <2>5. /\ DOMAIN t = IsnsFields /\ t.sc = z.sc /\ t.regn = FALSE
        /\ t.pc = (IF z.sc.poll = 0 THEN "end" ELSE "loop")
        /\ t.tm = q[2].tm /\ t.fly = q[2].fly /\ t.list = q[2].list /\ t.disc = q[2].disc
    BY <1>1, <2>1, <2>4 DEF Registered, Done, IsnsFields
  <2>6. CASE z.sc.poll = 0
    <3>1. PollsOnly(t) /\ NoRefresh(t) /\ t.pc = "end"
      BY <1>1, <2>4, <2>5, <2>6 DEF Done, ByPeriod, NoRefresh, PollsOnly
    <3>2. QED
      BY <1>1, <2>5, <3>1 DEF RefreshInv
  <2>7. CASE z.sc.poll # 0
    <3>1. PollsOnly(t) /\ t.pc = "loop" /\ (IF ByPeriod(t) THEN OneRefresh(t) ELSE NoRefresh(t)) /\ Polled(t)
      BY <1>1, <2>4, <2>5, <2>7 DEF Done, ByPeriod, OneRefresh, NoRefresh, PollsOnly, Polled
    <3>2. QED
      BY <1>1, <2>5, <3>1 DEF RefreshInv
  <2>8. QED
    BY <2>6, <2>7
<1>6. QED
  BY <1>3, <1>4, <1>5

-----------------------------------------------------------------------------
(* A timer that fires hands its entry to a query, sets itself again, or has  *)
(* the child register.                                                       *)
LEMMA TimersKeep ==
  ASSUME NEW s, RefreshInv(s), s.pc = "loop", NEW t \in RunTimers(s)
  PROVE  RefreshInv(t) /\ t.pc = "loop"
<1>1. CASE t \in isns_reg_refresh_with_disc(s) /\ s.disc # {}
  <2>1. PICK q \in isns_disc_new_portals(s, NotSet, NotSet) : t = (IF q[1] THEN q[2] ELSE [q[2] EXCEPT !.regn = TRUE])
    BY <1>1 DEF isns_reg_refresh_with_disc
  <2>2. Same(s, q[2]) /\ q[1] \in BOOLEAN
    BY QueriesApart DEF RefreshInv
  <2>3. RefreshInv(q[2]) /\ q[2].pc = "loop"
    BY <2>2, SameKeeps DEF Same, RefreshFields
  <2>4. CASE q[1] = TRUE
    BY <2>1, <2>3, <2>4
  <2>5. CASE q[1] = FALSE
    <3>1. NoRefresh(s)
      BY <1>1 DEF RefreshInv, PollsOnly, ByPeriod
    <3>2. NoRefresh(q[2])
      BY <2>2, <3>1 DEF Same, RefreshFields, NoRefresh
    <3>3. QED
      BY <2>1, <2>3, <2>5, <3>2 DEF RefreshInv, NoRefresh, PollsOnly, IsnsFields
  <2>6. QED
    BY <2>2, <2>4, <2>5
<1>2. CASE \E e \in s.tm : t \in isns_reg_refresh_by_eid_qry([s EXCEPT !.tm = @ \ {e}], e)
  <2>1. PICK e \in s.tm : t \in isns_reg_refresh_by_eid_qry([s EXCEPT !.tm = @ \ {e}], e)
    BY <1>2
  <2>2. ~s.regn /\ ByPeriod(s) /\ e \in Entries /\ s.list = {e} /\ s.tm = {e} /\ s.fly = {}
    BY <2>1 DEF RefreshInv, OneRefresh, NoRefresh
  <2> DEFINE u == [s EXCEPT !.tm = @ \ {e}]
  <2>3. /\ DOMAIN u = IsnsFields /\ u.tm = {} /\ u.fly = {} /\ u.list = {e} /\ u.sc = s.sc /\ u.pc = "loop"
        /\ u.regn = FALSE /\ PollsOnly(u)
    BY <2>2 DEF RefreshInv, PollsOnly, IsnsFields
  <2>4. s.sc.poll \in Int /\ s.sc.period \in BOOLEAN
    BY DEF RefreshInv
  <2> HIDE DEF u
  <2>5. \/ t = [isns_free_refresh_data(u, e) EXCEPT !.regn = TRUE]
        \/ t = [u EXCEPT !.fly = @ \cup {e}]
        \/ t = isns_add_oneshot_timer(Spend(u), e)
    BY <2>1 DEF isns_reg_refresh_by_eid_qry, u
  <2>6. CASE t = [isns_free_refresh_data(u, e) EXCEPT !.regn = TRUE]
    BY <2>3, <2>4, <2>6 DEF isns_free_refresh_data, RefreshInv, NoRefresh, PollsOnly, IsnsFields
  <2>7. CASE t = [u EXCEPT !.fly = @ \cup {e}]
    <3>1. DOMAIN t = IsnsFields /\ t.tm = {} /\ t.fly = {e} /\ t.list = {e} /\ t.sc = s.sc /\ t.pc = "loop"
          /\ t.regn = FALSE /\ PollsOnly(t)
      BY <2>3, <2>7 DEF IsnsFields, PollsOnly
    <3>2. Polled(t) /\ ByPeriod(t)
      BY <2>2, <2>4, <3>1 DEF ByPeriod, Polled
    <3>3. OneRefresh(t)
      BY <2>2, <3>1, Zenon DEF OneRefresh
    <3>4. QED
      BY <2>4, <3>1, <3>2, <3>3 DEF RefreshInv
  <2>8. CASE t = isns_add_oneshot_timer(Spend(u), e)
    <3>1. DOMAIN t = IsnsFields /\ t.tm = {e} /\ t.fly = {} /\ t.list = {e} /\ t.sc = s.sc /\ t.pc = "loop"
          /\ t.regn = FALSE /\ PollsOnly(t)
      BY <2>3, <2>8 DEF IsnsFields, PollsOnly, isns_add_oneshot_timer, Spend
    <3>2. Polled(t) /\ ByPeriod(t)
      BY <2>2, <2>4, <3>1 DEF ByPeriod, Polled
    <3>3. OneRefresh(t)
      BY <2>2, <3>1, Zenon DEF OneRefresh
    <3>4. QED
      BY <2>4, <3>1, <3>2, <3>3 DEF RefreshInv
  <2>9. QED
    BY <2>5, <2>6, <2>7, <2>8
<1>3. (t \in isns_reg_refresh_with_disc(s) /\ s.disc # {})
      \/ \E e \in s.tm : t \in isns_reg_refresh_by_eid_qry([s EXCEPT !.tm = @ \ {e}], e)
  <2> DEFINE G(x) == isns_reg_refresh_by_eid_qry([s EXCEPT !.tm = @ \ {x}], x)
             D == isns_reg_refresh_with_disc(s)
             U == UNION {G(x) : x \in s.tm}
  <2>1. t \in U \cup (IF s.disc # {} THEN D ELSE {})
    BY DEF RunTimers
  <2> HIDE DEF G, D, U
  <2>2. t \in U \/ (t \in D /\ s.disc # {})
    BY <2>1
  <2>3. t \in U => \E x \in s.tm : t \in G(x)
    BY Zenon DEF U
  <2>4. QED
    BY <2>2, <2>3, Zenon DEF G, D
<1>4. QED
  BY <1>1, <1>2, <1>3

-----------------------------------------------------------------------------
(* One step of the child, of the other process or of the server. *)
LEMMA StepKeeps == ASSUME RefreshInv(n), IsnsNext PROVE RefreshInv(n')
<1>0. DOMAIN n = IsnsFields
  BY DEF RefreshInv
<1>1. CASE isns_eventd
  BY <1>1 DEF isns_eventd, RefreshInv, NoRefresh, PollsOnly, IsnsFields
<1>2. CASE isns_scn_recv
  <2>1. CASE n.regn /\ n' \in Register(n)
    BY <1>2, <2>1, RegisterKeeps DEF isns_scn_recv
  <2>2. CASE \E t \in RunTimers(n) : n' \in (IF t.regn THEN Register(t) ELSE {t})
    <3>1. PICK t \in RunTimers(n) : n' \in (IF t.regn THEN Register(t) ELSE {t})
      BY <2>2
    <3>2. RefreshInv(t) /\ t.pc = "loop"
      BY <1>2, TimersKeep DEF isns_scn_recv
    <3>3. QED
      BY <3>1, <3>2, RegisterKeeps
  <2>3. QED
    BY <1>2, <2>1, <2>2 DEF isns_scn_recv
<1>3. CASE isns_scn_callback
  <2>1. PICK m \in n.msgs : \E q \in isns_disc_new_portals(n, m.tgt, m.node) : n' = [q[2] EXCEPT !.msgs = @ \ {m}]
    BY <1>3 DEF isns_scn_callback
  <2>2. PICK q \in isns_disc_new_portals(n, m.tgt, m.node) : n' = [q[2] EXCEPT !.msgs = @ \ {m}]
    BY <2>1
  <2>3. Same(n, q[2])
    BY <1>0, QueriesApart
  <2>4. Same(n, n')
    BY <1>0, <2>2, <2>3 DEF Same, RefreshFields, IsnsFields
  <2>5. QED
    BY <2>4, SameKeeps
<1>4. CASE EidQryRsp
  <2>1. PICK e \in n.fly : n' = isns_eid_qry_rsp(n, e, Source \in n.srv.reg)
    BY <1>4 DEF EidQryRsp
  <2>2. /\ n.pc = "loop" /\ ~n.regn /\ ByPeriod(n) /\ e \in Entries /\ n.list = {e} /\ n.tm = {} /\ n.fly = {e}
        /\ n.regn = FALSE
    BY <1>4, <2>1 DEF EidQryRsp, RefreshInv, OneRefresh, NoRefresh
  <2>3. /\ DOMAIN n' = IsnsFields /\ n'.list = {e} /\ n'.tm = {e} /\ n'.fly = {} /\ n'.pc = "loop" /\ n'.regn = FALSE
        /\ n'.sc = n.sc /\ n'.disc = n.disc
    BY <1>0, <2>1, <2>2 DEF isns_eid_qry_rsp, isns_add_oneshot_timer, IsnsFields
  <2>4. OneRefresh(n')
    BY <2>2, <2>3, Zenon DEF OneRefresh
  <2>5. QED
    BY <2>2, <2>3, <2>4 DEF RefreshInv, ByPeriod, PollsOnly, Polled
<1>5. CASE start_isns
  BY <1>5 DEF start_isns, isns_clear_refresh_list, isns_cancel_refresh_timers, RefreshInv, PollsOnly, IsnsFields
<1>6. CASE catch_signal
  <2>1. Same(n, n')
    BY <1>0, <1>6 DEF catch_signal, Same, RefreshFields, IsnsFields
  <2>2. QED
    BY <2>1, SameKeeps
<1>7. CASE discovery_isns
  <2>1. Same(n, n')
    BY <1>0, <1>7 DEF discovery_isns, Spend, Same, RefreshFields, IsnsFields
  <2>2. QED
    BY <2>1, SameKeeps
<1>8. CASE Expire \/ Drop \/ Change
  <2>1. Same(n, n')
    BY <1>0, <1>8 DEF Expire, Drop, Change, Same, RefreshFields, IsnsFields
  <2>2. QED
    BY <2>1, SameKeeps
<1>9. QED
  BY <1>1, <1>2, <1>3, <1>4, <1>5, <1>6, <1>7, <1>8 DEF IsnsNext

(* A child of iscsid that believes in its registration with a period is      *)
(* never without the one timer or query that renews it, or without the       *)
(* periodic timer if it polls, and no one-shot timer refers to a freed entry *)
(* (isns_setup_registration_refresh, isns_eid_qry_rsp).                      *)
THEOREM RefreshIsSupervised ==
  ASSUME \A sc \in IsnsScenes : sc.poll \in Int /\ sc.period \in BOOLEAN
  PROVE  IsnsInit /\ [][IsnsNext]_n => []RefreshSupervised
<1>1. IsnsInit => RefreshInv(n)
  <2>1. SUFFICES ASSUME NEW sc \in IsnsScenes, n = IsnsState(sc, "init") PROVE RefreshInv(n)
    BY DEF IsnsInit
  <2>2. /\ DOMAIN n = IsnsFields /\ n.sc = sc /\ n.pc = "init" /\ n.regn = TRUE /\ n.disc = {}
        /\ n.tm = {} /\ n.fly = {}
    BY <2>1 DEF IsnsState, IsnsFields
  <2>3. QED
    BY <2>2 DEF RefreshInv, NoRefresh, PollsOnly
<1>2. RefreshInv(n) /\ [IsnsNext]_n => RefreshInv(n)'
  BY StepKeeps DEF RefreshInv, ByPeriod, NoRefresh, OneRefresh, PollsOnly, Polled
<1>3. RefreshInv(n) => RefreshSupervised
  BY InvSuffices
<1>4. QED
  BY <1>1, <1>2, <1>3, PTL

------------------------------------------------------------------------------
(* The scheduler: for any set of actors, any longest delay and any number   *)
(* of calls, the two lists agree with the actors' states, pend_list is      *)
(* sorted and the alarm covers its head.  Spec is the actors' here.         *)

(***************************************************************************)
(* Facts about the list primitives.                                        *)
(***************************************************************************)

\* A function on 1..m is a sequence of length m.
LEMMA FunctionIsSeq ==
    ASSUME NEW S, NEW m \in Nat, NEW f \in [1 .. m -> S]
    PROVE  f \in Seq(S) /\ Len(f) = m /\ DOMAIN f = 1 .. m
<1>1. f \in Seq(S)
    BY SeqDef
<1>2. Len(f) \in Nat /\ DOMAIN f = 1 .. Len(f)
    BY <1>1, LenProperties
<1> QED
    BY <1>1, <1>2

\* list_del of an entry that is present: the list with position p left out.
LEMMA WithoutAt ==
    ASSUME NEW S, NEW s \in Seq(S), Distinct(s), NEW a, a \in Elems(s)
    PROVE  \E p \in 1 .. Len(s) :
              /\ s[p] = a
              /\ Without(s, a) \in Seq(S)
              /\ Len(Without(s, a)) = Len(s) - 1
              /\ \A i \in 1 .. Len(s) - 1 :
                    Without(s, a)[i] = IF i < p THEN s[i] ELSE s[i + 1]
<1> DEFINE p == CHOOSE i \in DOMAIN s : s[i] = a
           w == [i \in 1 .. Len(s) - 1 |-> IF i < p THEN s[i] ELSE s[i + 1]]
<1>1. Len(s) \in Nat /\ DOMAIN s = 1 .. Len(s) /\ \A i \in 1 .. Len(s) : s[i] \in S
    BY LenProperties, ElementOfSeq
<1>2. p \in DOMAIN s /\ s[p] = a
    BY DEF Elems
<1>3. Without(s, a) = w
    BY DEF Without
<1>4. Len(s) - 1 \in Nat
    BY <1>1, <1>2
<1>5. w \in [1 .. Len(s) - 1 -> S]
    BY <1>1, <1>4
<1>6. w \in Seq(S) /\ Len(w) = Len(s) - 1
    BY <1>4, <1>5, FunctionIsSeq
<1> QED
    BY <1>1, <1>2, <1>3, <1>6

\* What list_del does to the set of entries, to distinctness, to the order and
\* to the head.
LEMMA WithoutProperties ==
    ASSUME NEW S, NEW s \in Seq(S), Distinct(s), NEW a, NEW f \in [S -> Int]
    PROVE  /\ Without(s, a) \in Seq(S)
           /\ Distinct(Without(s, a))
           /\ Elems(Without(s, a)) = Elems(s) \ {a}
           /\ Sorted(s, f) => Sorted(Without(s, a), f)
           /\ Sorted(s, f) /\ Without(s, a) # <<>>
                => s # <<>> /\ f[Head(s)] <= f[Head(Without(s, a))]
<1>1. CASE a \notin Elems(s)
    <2>1. Without(s, a) = s
        BY <1>1 DEF Without
    <2>2. s # <<>> => f[Head(s)] \in Int
        BY HeadTailProperties
    <2> QED
        BY <1>1, <2>1, <2>2
<1>2. CASE a \in Elems(s)
    <2> DEFINE w == Without(s, a)
    <2>1. PICK p \in 1 .. Len(s) :
              /\ s[p] = a
              /\ w \in Seq(S)
              /\ Len(w) = Len(s) - 1
              /\ \A i \in 1 .. Len(s) - 1 : w[i] = IF i < p THEN s[i] ELSE s[i + 1]
        BY <1>2, WithoutAt
    <2> HIDE DEF w
    <2>2. /\ Len(s) \in Nat /\ DOMAIN s = 1 .. Len(s)
          /\ DOMAIN w = 1 .. Len(s) - 1
          /\ \A i \in 1 .. Len(s) : f[s[i]] \in Int
        BY <2>1, LenProperties, ElementOfSeq
    <2>7. ASSUME NEW i \in 1 .. Len(s) - 1
          PROVE  \E k \in 1 .. Len(s) : w[i] = s[k] /\ k # p /\ k = IF i < p THEN i ELSE i + 1
        <3>1. CASE i < p
            <4>1. i \in 1 .. Len(s) /\ w[i] = s[i] /\ i # p
                BY <3>1, <2>1, <2>2
            <4> QED
                BY <3>1, <4>1
        <3>2. CASE ~ (i < p)
            <4>1. i + 1 \in 1 .. Len(s) /\ w[i] = s[i + 1] /\ i + 1 # p
                BY <3>2, <2>1, <2>2
            <4> QED
                BY <3>2, <4>1
        <3> QED
            BY <3>1, <3>2
    <2>3. Distinct(w)
        <3>1. SUFFICES ASSUME NEW i \in 1 .. Len(s) - 1, NEW j \in 1 .. Len(s) - 1, w[i] = w[j]
                       PROVE  i = j
            BY <2>2, SMTT(30) DEF Distinct
        <3>2. PICK i2 \in 1 .. Len(s) : w[i] = s[i2] /\ i2 = IF i < p THEN i ELSE i + 1
            BY <2>7
        <3>3. PICK j2 \in 1 .. Len(s) : w[j] = s[j2] /\ j2 = IF j < p THEN j ELSE j + 1
            BY <2>7
        <3>4. i2 = j2
            BY <3>1, <3>2, <3>3, <2>2 DEF Distinct
        <3> QED
            BY <3>2, <3>3, <3>4, <2>2, SMTT(30)
    <2>4. Elems(w) = Elems(s) \ {a}
        <3>1. ASSUME NEW x \in Elems(w) PROVE x \in Elems(s) \ {a}
            <4>1. PICK i \in 1 .. Len(s) - 1 : w[i] = x
                BY <2>2, SMTT(30) DEF Elems
            <4>2. PICK k \in 1 .. Len(s) : x = s[k] /\ k # p
                BY <4>1, <2>7
            <4> QED
                BY <4>2, <2>1, <2>2 DEF Elems, Distinct
        <3>2. ASSUME NEW x \in Elems(s) \ {a} PROVE x \in Elems(w)
            <4>1. PICK i \in 1 .. Len(s) : s[i] = x
                BY <2>2 DEF Elems
            <4>2. i # p
                BY <4>1, <2>1
            <4>3. CASE i < p
                <5>1. i \in 1 .. Len(s) - 1 /\ w[i] = x
                    BY <4>1, <4>3, <2>1, <2>2, SMTT(30)
                <5> QED
                    BY <5>1, <2>2 DEF Elems
            <4>4. CASE i > p
                <5>1. i - 1 \in 1 .. Len(s) - 1 /\ w[i - 1] = x
                    BY <4>1, <4>4, <2>1, <2>2
                <5> QED
                    BY <5>1, <2>2, SMTT(30) DEF Elems
            <4> QED
                BY <4>2, <4>3, <4>4, <2>2
        <3> QED
            BY <3>1, <3>2
    <2>5. ASSUME Sorted(s, f) PROVE Sorted(w, f)
        <3>1. SUFFICES ASSUME NEW i \in 1 .. Len(s) - 1, NEW j \in 1 .. Len(s) - 1, i < j
                       PROVE  f[w[i]] <= f[w[j]]
            BY <2>2 DEF Sorted
        <3>2. PICK i2 \in 1 .. Len(s) : w[i] = s[i2] /\ i2 = IF i < p THEN i ELSE i + 1
            BY <2>7
        <3>3. PICK j2 \in 1 .. Len(s) : w[j] = s[j2] /\ j2 = IF j < p THEN j ELSE j + 1
            BY <2>7
        <3>4. i2 < j2
            BY <3>1, <3>2, <3>3, <2>2
        <3> QED
            BY <3>2, <3>3, <3>4, <2>2, <2>5 DEF Sorted
    <2>6. ASSUME Sorted(s, f), w # <<>>
          PROVE  s # <<>> /\ f[Head(s)] <= f[Head(w)]
        <3>1. Len(w) >= 1 /\ Len(s) >= 2
            BY <2>1, <2>2, <2>6, EmptySeq
        <3>2. s # <<>> /\ Head(s) = s[1] /\ Head(w) = w[1]
            BY <3>1, <2>1, EmptySeq
        <3>3. w[1] = s[1] \/ w[1] = s[2]
            BY <3>1, <2>1, <2>2
        <3>4. 1 \in DOMAIN s /\ 2 \in DOMAIN s
            BY <3>1, <2>2
        <3>5. f[s[1]] <= f[s[2]]
            BY <3>4, <2>6 DEF Sorted
        <3>6. f[s[1]] <= f[s[1]]
            BY <3>4, <2>2
        <3> QED
            BY <3>2, <3>3, <3>5, <3>6
    <2> QED
        BY <2>1, <2>3, <2>4, <2>5, <2>6 DEF w
<1> QED
    BY <1>1, <1>2

\* What __list_add does.
LEMMA InsertedProperties ==
    ASSUME NEW S, NEW s \in Seq(S), NEW a \in S, NEW p \in 1 .. Len(s) + 1,
           Distinct(s), a \notin Elems(s)
    PROVE  /\ InsertedAt(s, p, a) \in Seq(S)
           /\ Len(InsertedAt(s, p, a)) = Len(s) + 1
           /\ Distinct(InsertedAt(s, p, a))
           /\ Elems(InsertedAt(s, p, a)) = Elems(s) \cup {a}
           /\ Head(InsertedAt(s, p, a)) = IF p = 1 THEN a ELSE Head(s)
<1> DEFINE w == InsertedAt(s, p, a)
<1>1. Len(s) \in Nat /\ DOMAIN s = 1 .. Len(s) /\ \A i \in 1 .. Len(s) : s[i] \in S
    BY LenProperties, ElementOfSeq
<1>2. w \in [1 .. Len(s) + 1 -> S]
    BY <1>1 DEF InsertedAt
<1>3. w \in Seq(S) /\ Len(w) = Len(s) + 1 /\ DOMAIN w = 1 .. Len(s) + 1
    BY <1>1, <1>2, FunctionIsSeq
<1>4. /\ w[p] = a
      /\ \A i \in 1 .. Len(s) + 1 : i < p => i \in 1 .. Len(s) /\ w[i] = s[i]
      /\ \A i \in 1 .. Len(s) + 1 : i > p => i - 1 \in 1 .. Len(s) /\ w[i] = s[i - 1]
    BY <1>1 DEF InsertedAt
<1> HIDE DEF w
<1>5. Distinct(w)
    <2>1. SUFFICES ASSUME NEW i \in 1 .. Len(s) + 1, NEW j \in 1 .. Len(s) + 1, w[i] = w[j]
                   PROVE  i = j
        BY <1>3 DEF Distinct
    <2>2. \A k \in 1 .. Len(s) : s[k] # a
        BY <1>1 DEF Elems
    <2>3. i = p <=> j = p
        BY <2>1, <2>2, <1>1, <1>4
    <2>4. CASE i # p /\ j # p
        <3> DEFINE i2 == IF i < p THEN i ELSE i - 1
                   j2 == IF j < p THEN j ELSE j - 1
        <3>1. i2 \in DOMAIN s /\ w[i] = s[i2]
            BY <2>4, <1>1, <1>4
        <3>2. j2 \in DOMAIN s /\ w[j] = s[j2]
            BY <2>4, <1>1, <1>4
        <3>3. i2 = j2
            BY <3>1, <3>2, <2>1 DEF Distinct
        <3> QED
            BY <3>3, <2>4
    <2> QED
        BY <2>3, <2>4
<1>6. Elems(w) = Elems(s) \cup {a}
    <2>1. ASSUME NEW x \in Elems(w) PROVE x \in Elems(s) \cup {a}
        <3>1. PICK i \in 1 .. Len(s) + 1 : w[i] = x
            BY <1>3 DEF Elems
        <3>2. i = p \/ \E k \in 1 .. Len(s) : x = s[k]
            <4>1. CASE i < p
                BY <4>1, <3>1, <1>4
            <4>2. CASE i > p
                BY <4>2, <3>1, <1>4
            <4> QED
                BY <4>1, <4>2, <1>1
        <3> QED
            BY <3>1, <3>2, <1>1, <1>4 DEF Elems
    <2>2. ASSUME NEW x \in Elems(s) PROVE x \in Elems(w)
        <3>1. PICK i \in 1 .. Len(s) : s[i] = x
            BY <1>1 DEF Elems
        <3>2. CASE i < p
            <4>1. i \in 1 .. Len(s) + 1 /\ w[i] = x
                BY <3>1, <3>2, <1>1, <1>4
            <4> QED
                BY <4>1, <1>3 DEF Elems
        <3>3. CASE ~ (i < p)
            <4>1. i + 1 \in 1 .. Len(s) + 1 /\ i + 1 > p /\ (i + 1) - 1 = i
                BY <3>3, <1>1
            <4>2. w[i + 1] = x
                BY <4>1, <3>1, <1>4
            <4> QED
                BY <4>1, <4>2, <1>3 DEF Elems
        <3> QED
            BY <3>2, <3>3
    <2>3. a \in Elems(w)
        BY <1>3, <1>4 DEF Elems
    <2> QED
        BY <2>1, <2>2, <2>3
<1>7. Head(w) = IF p = 1 THEN a ELSE Head(s)
    <2>1. Head(w) = w[1] /\ 1 \in 1 .. Len(s) + 1
        BY <1>1, <1>3
    <2>2. CASE p = 1
        BY <2>1, <2>2, <1>4
    <2>3. CASE p # 1
        <3>1. w[1] = s[1] /\ 1 \in 1 .. Len(s)
            BY <2>1, <2>3, <1>1, <1>4
        <3>2. Head(s) = s[1]
            BY <3>1
        <3> QED
            BY <2>1, <2>3, <3>1, <3>2
    <2> QED
        BY <2>2, <2>3
<1> QED
    BY <1>3, <1>5, <1>6, <1>7 DEF w

\* Inserting at the place actor_insert_on_pend_list finds keeps the list in
\* order; g is the times after the call, which differ from f only at a.
LEMMA InsertedSorted ==
    ASSUME NEW S, NEW s \in Seq(S), NEW a \in S, NEW p \in 1 .. Len(s) + 1,
           NEW f \in [S -> Int], NEW d \in Int, a \notin Elems(s), Sorted(s, f),
           \A i \in 1 .. p - 1 : f[s[i]] <= d,
           p <= Len(s) => f[s[p]] > d
    PROVE  Sorted(InsertedAt(s, p, a), [f EXCEPT ![a] = d])
<1> DEFINE w == InsertedAt(s, p, a)
           g == [f EXCEPT ![a] = d]
<1>1. Len(s) \in Nat /\ DOMAIN s = 1 .. Len(s) /\ \A i \in 1 .. Len(s) : s[i] \in S
    BY LenProperties, ElementOfSeq
<1>2. DOMAIN w = 1 .. Len(s) + 1
    BY DEF InsertedAt
<1>3. /\ w[p] = a
      /\ \A i \in 1 .. Len(s) + 1 : i < p => i \in 1 .. Len(s) /\ w[i] = s[i]
      /\ \A i \in 1 .. Len(s) + 1 : i > p => i - 1 \in 1 .. Len(s) /\ w[i] = s[i - 1]
    BY <1>1 DEF InsertedAt
<1>4. \A k \in 1 .. Len(s) : g[s[k]] = f[s[k]] /\ f[s[k]] \in Int
    BY <1>1 DEF Elems
<1>5. g[a] = d
    OBVIOUS
<1> HIDE DEF w, g
<1>6. SUFFICES ASSUME NEW i \in 1 .. Len(s) + 1, NEW j \in 1 .. Len(s) + 1, i < j
               PROVE  g[w[i]] <= g[w[j]]
    BY <1>2 DEF Sorted, w, g
<1>7. CASE j < p
    <2>1. w[i] = s[i] /\ w[j] = s[j] /\ i \in 1 .. Len(s) /\ j \in 1 .. Len(s)
        BY <1>6, <1>7, <1>3
    <2> QED
        BY <2>1, <1>1, <1>4, <1>6, SMTT(30) DEF Sorted
<1>8. CASE j = p
    <2>1. w[i] = s[i] /\ w[j] = a /\ i \in 1 .. Len(s) /\ i \in 1 .. p - 1
        BY <1>6, <1>8, <1>3
    <2>2. f[s[i]] <= d
        BY <2>1
    <2> QED
        BY <2>1, <2>2, <1>4, <1>5
<1>9. CASE j > p
    <2>1. w[j] = s[j - 1] /\ j - 1 \in 1 .. Len(s) /\ p \in 1 .. Len(s)
        <3>1. w[j] = s[j - 1] /\ j - 1 \in 1 .. Len(s)
            BY <1>9, <1>3
        <3> QED
            BY <3>1, <1>9, <1>1
    <2>2. f[s[p]] > d /\ f[s[p]] \in Int
        BY <2>1, <1>4
    <2>3. f[s[p]] <= f[s[j - 1]]
        <3>1. CASE p = j - 1
            BY <3>1, <2>2
        <3>2. CASE p < j - 1
            BY <3>2, <2>1, <1>1 DEF Sorted
        <3> QED
            BY <3>1, <3>2, <1>9, <2>1
    <2>4. CASE i = p
        <3>1. g[w[i]] = d
            BY <2>4, <1>3, <1>5
        <3>2. j - 1 \in 1 .. Len(s)
            BY <2>1
        <3>3. g[s[j - 1]] = f[s[j - 1]] /\ f[s[j - 1]] \in Int
            BY <3>2, <1>4
        <3>4. g[w[j]] = g[s[j - 1]]
            BY <2>1
        <3> QED
            BY <3>1, <3>3, <3>4, <2>2, <2>3
    <2>5. CASE i < p
        <3>1. w[i] = s[i] /\ i \in 1 .. Len(s) /\ i < j - 1
            BY <2>5, <1>3, <1>9
        <3> QED
            BY <3>1, <2>1, <1>1, <1>4 DEF Sorted
    <2>6. CASE i > p
        <3>1. w[i] = s[i - 1] /\ i - 1 \in 1 .. Len(s) /\ i - 1 < j - 1
            BY <2>6, <1>3, <1>6
        <3> QED
            BY <3>1, <2>1, <1>1, <1>4 DEF Sorted
    <2> QED
        BY <2>4, <2>5, <2>6
<1> QED
    BY <1>7, <1>8, <1>9

\* What list_add, list_add_tail and the removal of the first entry do.
LEMMA ListAddTail ==
    ASSUME NEW S, NEW s \in Seq(S), NEW a \in S, Distinct(s), a \notin Elems(s)
    PROVE  /\ Append(s, a) \in Seq(S)
           /\ Distinct(Append(s, a))
           /\ Elems(Append(s, a)) = Elems(s) \cup {a}
<1>1. Len(s) \in Nat /\ DOMAIN s = 1 .. Len(s) /\ Len(s) + 1 \in 1 .. Len(s) + 1
    BY LenProperties
<1>2. Append(s, a) = InsertedAt(s, Len(s) + 1, a)
    <2>1. InsertedAt(s, Len(s) + 1, a) \in Seq(S) /\ Len(InsertedAt(s, Len(s) + 1, a)) = Len(s) + 1
        BY <1>1, InsertedProperties
    <2>2. Append(s, a) \in Seq(S) /\ Len(Append(s, a)) = Len(s) + 1
        OBVIOUS
    <2>3. \A i \in 1 .. Len(s) + 1 : Append(s, a)[i] = InsertedAt(s, Len(s) + 1, a)[i]
        BY <1>1 DEF InsertedAt
    <2> QED
        BY <2>1, <2>2, <2>3, SeqEqual
<1> QED
    BY <1>1, <1>2, InsertedProperties

LEMMA ListAdd ==
    ASSUME NEW S, NEW s \in Seq(S), NEW a \in S, Distinct(s), a \notin Elems(s)
    PROVE  /\ <<a>> \o s \in Seq(S)
           /\ Distinct(<<a>> \o s)
           /\ Elems(<<a>> \o s) = Elems(s) \cup {a}
<1>1. Len(s) \in Nat /\ DOMAIN s = 1 .. Len(s) /\ 1 \in 1 .. Len(s) + 1
    BY LenProperties
<1>2. <<a>> \o s = InsertedAt(s, 1, a)
    <2>1. InsertedAt(s, 1, a) \in Seq(S) /\ Len(InsertedAt(s, 1, a)) = Len(s) + 1
        BY <1>1, InsertedProperties
    <2>2. <<a>> \in Seq(S) /\ Len(<<a>>) = 1 /\ <<a>>[1] = a
        OBVIOUS
    <2>3. /\ <<a>> \o s \in Seq(S) /\ Len(<<a>> \o s) = Len(s) + 1
          /\ \A i \in 1 .. Len(s) + 1 : (<<a>> \o s)[i] = IF i <= 1 THEN <<a>>[i] ELSE s[i - 1]
        BY <2>2, <1>1, ConcatProperties
    <2>4. \A i \in 1 .. Len(s) + 1 : (<<a>> \o s)[i] = InsertedAt(s, 1, a)[i]
        BY <2>2, <2>3, <1>1 DEF InsertedAt
    <2> QED
        BY <2>1, <2>3, <2>4, SeqEqual
<1>3. /\ InsertedAt(s, 1, a) \in Seq(S)
      /\ Distinct(InsertedAt(s, 1, a))
      /\ Elems(InsertedAt(s, 1, a)) = Elems(s) \cup {a}
    BY <1>1, InsertedProperties
<1> QED
    BY <1>2, <1>3

LEMMA ListTakeFirst ==
    ASSUME NEW S, NEW s \in Seq(S), s # <<>>, Distinct(s)
    PROVE  /\ Tail(s) \in Seq(S)
           /\ Head(s) \in S
           /\ Distinct(Tail(s))
           /\ Elems(Tail(s)) = Elems(s) \ {Head(s)}
<1>1. /\ Head(s) \in S /\ Tail(s) \in Seq(S) /\ Len(Tail(s)) = Len(s) - 1
      /\ \A i \in 1 .. Len(s) - 1 : Tail(s)[i] = s[i + 1]
    BY HeadTailProperties
<1>2. /\ Len(s) \in Nat \ {0} /\ DOMAIN s = 1 .. Len(s) /\ Head(s) = s[1]
      /\ DOMAIN Tail(s) = 1 .. Len(s) - 1
    BY <1>1, LenProperties, EmptySeq
<1>3. Distinct(Tail(s))
    BY <1>1, <1>2 DEF Distinct
<1>4. ASSUME NEW x \in Elems(Tail(s)) PROVE x \in Elems(s) \ {Head(s)}
    <2>1. PICK i \in 1 .. Len(s) - 1 : x = s[i + 1]
        BY <1>1, <1>2 DEF Elems
    <2>2. i + 1 \in DOMAIN s /\ 1 \in DOMAIN s /\ i + 1 # 1
        BY <1>2
    <2> QED
        BY <2>1, <2>2, <1>2 DEF Elems, Distinct
<1>5. ASSUME NEW x \in Elems(s) \ {Head(s)} PROVE x \in Elems(Tail(s))
    <2>1. PICK i \in 1 .. Len(s) : x = s[i] /\ i # 1
        BY <1>2 DEF Elems
    <2>2. i - 1 \in 1 .. Len(s) - 1 /\ Tail(s)[i - 1] = x
        BY <2>1, <1>1, <1>2
    <2> QED
        BY <2>2, <1>2 DEF Elems
<1> QED
    BY <1>1, <1>3, <1>4, <1>5

\* Moving the first k entries of pend_list (s) to the tail of ready_list (r).
LEMMA ListMovePrefix ==
    ASSUME NEW S, NEW s \in Seq(S), NEW r \in Seq(S), NEW k \in 0 .. Len(s),
           Distinct(s), Distinct(r), Elems(r) \cap Elems(s) = {}
    PROVE  LET moved == r \o SubSeq(s, 1, k)
               rest == SubSeq(s, k + 1, Len(s))
           IN  /\ moved \in Seq(S)
               /\ Distinct(moved)
               /\ Elems(moved) = Elems(r) \cup {s[i] : i \in 1 .. k}
               /\ rest \in Seq(S)
               /\ Distinct(rest)
               /\ Elems(rest) = Elems(s) \ {s[i] : i \in 1 .. k}
               /\ Len(rest) = Len(s) - k
               /\ \A i \in 1 .. Len(s) - k : rest[i] = s[k + i]
<1> DEFINE pre == SubSeq(s, 1, k)
           moved == r \o pre
           rest == SubSeq(s, k + 1, Len(s))
<1>1. /\ Len(s) \in Nat /\ DOMAIN s = 1 .. Len(s) /\ \A i \in 1 .. Len(s) : s[i] \in S
      /\ Len(r) \in Nat /\ DOMAIN r = 1 .. Len(r)
      /\ k \in Nat /\ k <= Len(s)
    BY LenProperties, ElementOfSeq
<1>2. /\ pre \in Seq(S) /\ Len(pre) = k /\ \A i \in 1 .. k : pre[i] = s[i]
    <2>1. /\ pre \in Seq(S) /\ Len(pre) = IF 1 <= k THEN k - 1 + 1 ELSE 0
          /\ \A i \in 1 .. k - 1 + 1 : pre[i] = s[1 + i - 1]
        BY <1>1, SubSeqProperties
    <2> QED
        BY <2>1, <1>1
<1>3. /\ rest \in Seq(S) /\ Len(rest) = Len(s) - k
      /\ \A i \in 1 .. Len(s) - k : rest[i] = s[k + i]
    <2>1. /\ rest \in Seq(S)
          /\ Len(rest) = IF k + 1 <= Len(s) THEN Len(s) - (k + 1) + 1 ELSE 0
          /\ \A i \in 1 .. Len(s) - (k + 1) + 1 : rest[i] = s[k + 1 + i - 1]
        BY <1>1, SubSeqProperties
    <2> QED
        BY <2>1, <1>1
<1>4. /\ moved \in Seq(S) /\ Len(moved) = Len(r) + k
      /\ \A i \in 1 .. Len(r) + k : moved[i] = IF i <= Len(r) THEN r[i] ELSE pre[i - Len(r)]
    BY <1>2, ConcatProperties, SMTT(30)
<1> HIDE DEF pre, moved, rest
<1>5. DOMAIN rest = 1 .. Len(s) - k /\ DOMAIN moved = 1 .. Len(r) + k
    BY <1>3, <1>4, LenProperties
<1>6. /\ \A i \in 1 .. Len(r) : i \in 1 .. Len(r) + k /\ moved[i] = r[i]
      /\ \A i \in 1 .. Len(r) + k : i > Len(r) => i - Len(r) \in 1 .. k /\ moved[i] = s[i - Len(r)]
      /\ \A i \in 1 .. k : i + Len(r) \in 1 .. Len(r) + k /\ moved[i + Len(r)] = s[i]
    BY <1>1, <1>2, <1>4, SMTT(30)
<1>7. Distinct(rest)
    <2>1. SUFFICES ASSUME NEW i \in 1 .. Len(s) - k, NEW j \in 1 .. Len(s) - k, rest[i] = rest[j]
                   PROVE  i = j
        BY <1>5 DEF Distinct
    <2>2. k + i \in DOMAIN s /\ k + j \in DOMAIN s /\ s[k + i] = s[k + j]
        BY <2>1, <1>1, <1>3
    <2>3. k + i = k + j
        BY <2>2 DEF Distinct
    <2> QED
        BY <2>3, <1>1
<1>8. Elems(rest) = Elems(s) \ {s[i] : i \in 1 .. k}
    <2>1. ASSUME NEW x \in Elems(rest) PROVE x \in Elems(s) \ {s[i] : i \in 1 .. k}
        <3>1. PICK i \in 1 .. Len(s) - k : x = s[k + i]
            BY <1>3, <1>5, SMTT(30) DEF Elems
        <3>2. k + i \in DOMAIN s /\ k + i \notin 1 .. k /\ 1 .. k \subseteq DOMAIN s
            BY <1>1
        <3> QED
            BY <3>1, <3>2 DEF Elems, Distinct
    <2>2. ASSUME NEW x \in Elems(s), x \notin {s[i] : i \in 1 .. k} PROVE x \in Elems(rest)
        <3>1. PICK i \in 1 .. Len(s) : x = s[i]
            BY <1>1 DEF Elems
        <3>2. i \notin 1 .. k
            BY <3>1, <2>2
        <3>3. i - k \in 1 .. Len(s) - k /\ k + (i - k) = i
            BY <3>2, <1>1
        <3>4. rest[i - k] = x
            BY <3>1, <3>3, <1>3
        <3> QED
            BY <3>3, <3>4, <1>5 DEF Elems
    <2> QED
        BY <2>1, <2>2
<1>9. Distinct(moved)
    <2>1. SUFFICES ASSUME NEW i \in 1 .. Len(r) + k, NEW j \in 1 .. Len(r) + k, moved[i] = moved[j]
                   PROVE  i = j
        BY <1>5 DEF Distinct
    <2>2. \A m \in 1 .. Len(r) : moved[m] \in Elems(r)
        BY <1>1, <1>6, SMTT(30) DEF Elems
    <2>3. \A m \in 1 .. Len(r) + k : m > Len(r) => moved[m] \in Elems(s)
        <3>1. TAKE m \in 1 .. Len(r) + k
        <3>2. HAVE m > Len(r)
        <3>3. m - Len(r) \in DOMAIN s /\ moved[m] = s[m - Len(r)]
            BY <3>2, <1>1, <1>6
        <3> QED
            BY <3>3 DEF Elems
    <2>4. CASE i <= Len(r) /\ j <= Len(r)
        <3>1. i \in DOMAIN r /\ j \in DOMAIN r /\ r[i] = r[j]
            BY <2>1, <2>4, <1>1, <1>6
        <3> QED
            BY <3>1 DEF Distinct
    <2>5. CASE i > Len(r) /\ j > Len(r)
        <3>1. i - Len(r) \in DOMAIN s /\ moved[i] = s[i - Len(r)]
            BY <2>5, <1>1, <1>6
        <3>2. j - Len(r) \in DOMAIN s /\ moved[j] = s[j - Len(r)]
            BY <2>5, <1>1, <1>6
        <3>3. i - Len(r) = j - Len(r)
            BY <3>1, <3>2, <2>1 DEF Distinct
        <3> QED
            BY <3>3, <1>1
    <2>6. CASE i <= Len(r) /\ j > Len(r)
        <3>1. moved[i] \in Elems(r) /\ moved[j] \in Elems(s)
            BY <2>2, <2>3, <2>6, <1>1
        <3> QED
            BY <3>1, <2>1
    <2>7. CASE i > Len(r) /\ j <= Len(r)
        <3>1. moved[j] \in Elems(r) /\ moved[i] \in Elems(s)
            BY <2>2, <2>3, <2>7, <1>1
        <3> QED
            BY <3>1, <2>1
    <2> QED
        BY <2>4, <2>5, <2>6, <2>7, <1>1
<1>10. Elems(moved) = Elems(r) \cup {s[i] : i \in 1 .. k}
    <2>1. ASSUME NEW x \in Elems(moved) PROVE x \in Elems(r) \cup {s[i] : i \in 1 .. k}
        <3>1. PICK i \in 1 .. Len(r) + k : x = moved[i]
            BY <1>5 DEF Elems
        <3>2. CASE i <= Len(r)
            <4>1. i \in DOMAIN r /\ x = r[i]
                BY <3>1, <3>2, <1>1, <1>6
            <4> QED
                BY <4>1 DEF Elems
        <3>3. CASE i > Len(r)
            BY <3>1, <3>3, <1>6
        <3> QED
            BY <3>2, <3>3, <1>1
    <2>2. ASSUME NEW x \in Elems(r) PROVE x \in Elems(moved)
        <3>1. PICK i \in 1 .. Len(r) : x = r[i]
            BY <1>1 DEF Elems
        <3> QED
            BY <3>1, <1>5, <1>6 DEF Elems
    <2>3. ASSUME NEW i \in 1 .. k PROVE s[i] \in Elems(moved)
        BY <1>5, <1>6 DEF Elems
    <2> QED
        BY <2>1, <2>2, <2>3
<1> QED
    BY <1>3, <1>4, <1>7, <1>8, <1>9, <1>10 DEF moved, rest, pre

(***************************************************************************)
(* The inductive invariant.  None of its parts is inductive alone: that    *)
(* the alarm covers the head of pend_list survives a deletion only because *)
(* the list is sorted, and the list operations keep the list sorted only   *)
(* because an actor is on it at most once.                                 *)
(***************************************************************************)
Inv == TypeOK /\ ListsMatchStates /\ PendSorted /\ AlarmCoversHead

\* The alarm al covers the list p at the present place of the loop.
Covers(al, p) ==
    pc \in {"run", "callback", "sleep", "handle"} /\ p # <<>> =>
        sigalrm \/ (al # NoAlarm /\ al <= left[Head(p)])

\* What list_del does, in the form the proofs about the variables use it.
LEMMA WithoutAll ==
    \A S : \A s \in Seq(S) : \A f \in [S -> Int] : \A a :
        Distinct(s) =>
           /\ Without(s, a) \in Seq(S)
           /\ Distinct(Without(s, a))
           /\ Elems(Without(s, a)) = Elems(s) \ {a}
           /\ Sorted(s, f) => Sorted(Without(s, a), f)
           /\ Sorted(s, f) /\ Without(s, a) # <<>>
                => s # <<>> /\ f[Head(s)] <= f[Head(Without(s, a))]
    BY WithoutProperties

\* Taking an actor off pend_list leaves the rest sorted and covered, by the
\* alarm that was set and by what actor_delete leaves of it.
LEMMA DelistedProperties ==
    ASSUME Inv, NEW a \in Actors
    PROVE  LET p == Without(pend_list, a)
               r == Without(ready_list, a)
           IN  /\ p \in Seq(Actors) /\ Distinct(p) /\ Sorted(p, left)
               /\ Elems(p) = Elems(pend_list) \ {a}
               /\ r \in Seq(Actors) /\ Distinct(r)
               /\ Elems(r) = Elems(ready_list) \ {a}
               /\ Covers(alarm, p)
               /\ Covers(AlarmAfterDelete(a), p)
               /\ AlarmAfterDelete(a) \in {NoAlarm} \cup 0 .. MaxDelay
<1> DEFINE p == Without(pend_list, a)
           r == Without(ready_list, a)
<1>1. /\ left \in [Actors -> Int] /\ pend_list \in Seq(Actors) /\ ready_list \in Seq(Actors)
      /\ Distinct(pend_list) /\ Distinct(ready_list) /\ Sorted(pend_list, left)
      /\ alarm \in {NoAlarm} \cup 0 .. MaxDelay
    BY DEF Inv, TypeOK, ListsMatchStates, PendSorted
<1>2. /\ p \in Seq(Actors) /\ Distinct(p) /\ Sorted(p, left)
      /\ Elems(p) = Elems(pend_list) \ {a}
      /\ p # <<>> => pend_list # <<>> /\ left[Head(pend_list)] <= left[Head(p)]
    BY <1>1, WithoutAll, Zenon
<1>3. r \in Seq(Actors) /\ Distinct(r) /\ Elems(r) = Elems(ready_list) \ {a}
    BY <1>1, WithoutAll, Zenon
<1> HIDE DEF p, r
<1>4. p # <<>> => left[Head(p)] \in Int /\ left[Head(pend_list)] \in Int
    <2>1. p # <<>> => Head(p) \in Actors /\ Head(pend_list) \in Actors
        BY <1>1, <1>2, HeadTailProperties
    <2> QED
        BY <2>1, <1>1
<1>5. Covers(alarm, p)
    <2>1. SUFFICES ASSUME pc \in {"run", "callback", "sleep", "handle"}, p # <<>>, ~ sigalrm
                   PROVE  alarm # NoAlarm /\ alarm <= left[Head(p)]
        BY DEF Covers
    <2>2. alarm # NoAlarm /\ alarm <= left[Head(pend_list)]
        BY <2>1, <1>2 DEF Inv, AlarmCoversHead
    <2>3. alarm \in Int
        BY <1>1 DEF NoAlarm
    <2> QED
        BY <2>1, <2>2, <2>3, <1>2, <1>4
<1>6. Covers(AlarmAfterDelete(a), p) /\ AlarmAfterDelete(a) \in {NoAlarm} \cup 0 .. MaxDelay
    BY <1>1, <1>5 DEF AlarmAfterDelete, Covers, p
<1> QED
    BY <1>2, <1>3, <1>5, <1>6 DEF p, r

\* actor_schedule_private preserves the invariant.
LEMMA EnlistPreserves ==
    ASSUME Inv,
           NEW a \in Actors, NEW d \in 0 .. MaxDelay, NEW head \in BOOLEAN,
           NEW p \in Seq(Actors), NEW r \in Seq(Actors),
           NEW al \in {NoAlarm} \cup 0 .. MaxDelay,
           Distinct(p), Sorted(p, left), Elems(p) = Elems(pend_list) \ {a},
           Distinct(r), Elems(r) = Elems(ready_list) \ {a},
           Covers(al, p),
           Enlist(p, r, al, a, d, head),
           UNCHANGED <<sigalrm, pc>>, ops' \in 0 .. MaxOps
    PROVE  Inv'
<1> USE DEF Inv
<1>1. /\ left \in [Actors -> 0 .. MaxDelay] /\ state \in [Actors -> ActorState]
      /\ \A b \in Actors : state[b] = "WAITING" <=> b \in Elems(pend_list)
      /\ \A b \in Actors : state[b] = "SCHEDULED" <=> b \in Elems(ready_list)
    BY DEF TypeOK, ListsMatchStates
<1>2. a \notin Elems(p) /\ a \notin Elems(r)
    OBVIOUS
<1>3. CASE d = 0
    <2>1. /\ state' = [state EXCEPT ![a] = "SCHEDULED"]
          /\ ready_list' = IF head THEN <<a>> \o r ELSE Append(r, a)
          /\ pend_list' = p /\ alarm' = al /\ left' = left
        BY <1>3 DEF Enlist
    <2>2. /\ ready_list' \in Seq(Actors)
          /\ Distinct(ready_list')
          /\ Elems(ready_list') = Elems(r) \cup {a}
        BY <2>1, <1>2, ListAdd, ListAddTail
    <2>3. TypeOK'
        BY <2>1, <2>2, <1>1 DEF TypeOK, ActorState
    <2>4. ListsMatchStates'
        <3>1. \A b \in Actors : state'[b] = "WAITING" <=> b \in Elems(pend_list')
            BY <2>1, <1>1, <1>2
        <3>2. \A b \in Actors : state'[b] = "SCHEDULED" <=> b \in Elems(ready_list')
            BY <2>1, <2>2, <1>1
        <3> QED
            BY <2>1, <2>2, <3>1, <3>2 DEF ListsMatchStates
    <2>5. PendSorted'
        BY <2>1 DEF PendSorted
    <2>6. AlarmCoversHead'
        BY <2>1 DEF AlarmCoversHead, Covers
    <2> QED
        BY <2>3, <2>4, <2>5, <2>6
<1>4. CASE d # 0
    <2>1. /\ state' = [state EXCEPT ![a] = "WAITING"]
          /\ left' = [left EXCEPT ![a] = d]
          /\ ready_list' = r
          /\ InsertOnPendList(p, al, a, d)
        BY <1>4 DEF Enlist
    <2>2. PICK place \in 1 .. Len(p) + 1 :
              /\ IsSortedPlace(p, d, place)
              /\ pend_list' = InsertedAt(p, place, a)
              /\ alarm' = IF place = 1 THEN d ELSE al
        BY <2>1 DEF InsertOnPendList
    <2>3. /\ pend_list' \in Seq(Actors) /\ Len(pend_list') = Len(p) + 1
          /\ Distinct(pend_list')
          /\ Elems(pend_list') = Elems(p) \cup {a}
          /\ Head(pend_list') = IF place = 1 THEN a ELSE Head(p)
        BY <2>2, <1>2, InsertedProperties
    <2>4. TypeOK'
        BY <2>1, <2>2, <2>3, <1>1 DEF TypeOK, ActorState
    <2>5. ListsMatchStates'
        <3>1. \A b \in Actors : state'[b] = "WAITING" <=> b \in Elems(pend_list')
            BY <2>1, <2>3, <1>1
        <3>2. \A b \in Actors : state'[b] = "SCHEDULED" <=> b \in Elems(ready_list')
            BY <2>1, <1>1, <1>2
        <3> QED
            BY <2>1, <2>3, <3>1, <3>2 DEF ListsMatchStates
    <2>6. PendSorted'
        <3>1. left \in [Actors -> Int] /\ d \in Int
            BY <1>1, SMTT(30)
        <3>2. /\ \A i \in 1 .. place - 1 : left[p[i]] <= d
              /\ place <= Len(p) => left[p[place]] > d
            BY <2>2 DEF IsSortedPlace
        <3>3. Sorted(InsertedAt(p, place, a), [left EXCEPT ![a] = d])
            BY <3>1, <3>2, <1>2, InsertedSorted
        <3> QED
            BY <3>3, <2>1, <2>2 DEF PendSorted
    <2>7. AlarmCoversHead'
        <3>1. CASE place = 1
            <4>1. alarm' = d /\ left'[Head(pend_list')] = d /\ d # NoAlarm /\ d <= d
                BY <3>1, <2>1, <2>2, <2>3, <1>1 DEF NoAlarm
            <4> QED
                BY <4>1 DEF AlarmCoversHead
        <3>2. CASE place # 1
            <4>1. p # <<>> /\ Len(p) \in Nat \ {0}
                <5>1. p \in Seq(Actors) /\ Len(p) \in Nat
                    BY <1>2, LenProperties
                <5>2. Len(p) # 0
                    BY <3>2, <5>1
                <5> QED
                    BY <5>1, <5>2, EmptySeq
            <4>2. Head(p) \in Elems(p) /\ Head(p) \in Actors
                BY <4>1, LenProperties, HeadTailProperties DEF Elems
            <4>3. alarm' = al /\ left'[Head(pend_list')] = left[Head(p)]
                BY <4>2, <3>2, <2>1, <2>2, <2>3, <1>1, <1>2, SMTT(30)
            <4> QED
                BY <4>1, <4>3 DEF AlarmCoversHead, Covers
        <3> QED
            BY <3>1, <3>2
    <2> QED
        BY <2>4, <2>5, <2>6, <2>7
<1> QED
    BY <1>3, <1>4

\* A scheduling call leaves the loop where it is.
LEMMA CallFacts == TypeOK /\ Call => UNCHANGED <<sigalrm, pc>> /\ ops' \in 0 .. MaxOps
    BY MaxOpsAssumption DEF TypeOK, Call

LEMMA InitInv == Init => Inv
<1> SUFFICES ASSUME Init PROVE Inv
    OBVIOUS
<1>1. TypeOK
    <2>1. 0 \in 0 .. MaxDelay /\ 0 \in 0 .. MaxOps
        BY MaxOpsAssumption, MaxDelayAssumption
    <2>2. left \in [Actors -> 0 .. MaxDelay] /\ state \in [Actors -> ActorState]
        BY <2>1 DEF Init, ActorState
    <2>3. pend_list \in Seq(Actors) /\ ready_list \in Seq(Actors)
        BY EmptySeq DEF Init
    <2>4. alarm \in {NoAlarm} \cup 0 .. MaxDelay /\ pc \in LoopState
        BY DEF Init, LoopState
    <2>5. sigalrm \in BOOLEAN /\ ops \in 0 .. MaxOps
        BY <2>1 DEF Init
    <2> QED
        BY <2>2, <2>3, <2>4, <2>5 DEF TypeOK
<1>2. ListsMatchStates
    BY DEF Init, ListsMatchStates, Distinct, Elems
<1>3. PendSorted /\ AlarmCoversHead
    BY DEF Init, PendSorted, Sorted, AlarmCoversHead
<1> QED
    BY <1>1, <1>2, <1>3 DEF Inv

\* One step of the scheduler, of its callers, of the loop or of time preserves
\* the invariant.
LEMMA NextInv == Inv /\ [Next]_vars => Inv'
<1> SUFFICES ASSUME Inv, [Next]_vars PROVE Inv'
    OBVIOUS
<1> USE MaxOpsAssumption, MaxDelayAssumption
<1>1. /\ TypeOK /\ ListsMatchStates /\ PendSorted /\ AlarmCoversHead
      /\ pend_list \in Seq(Actors) /\ ready_list \in Seq(Actors)
      /\ alarm \in {NoAlarm} \cup 0 .. MaxDelay
      /\ Distinct(pend_list) /\ Distinct(ready_list) /\ Sorted(pend_list, left)
    BY DEF Inv, TypeOK, ListsMatchStates, PendSorted
<1>2. ASSUME NEW a \in Actors, ActorInit(a) PROVE Inv'
    <2>1. /\ UNCHANGED <<left, pend_list, ready_list, alarm, sigalrm, pc>> /\ ops' \in 0 .. MaxOps
          /\ state' = [state EXCEPT ![a] = "NOTSCHEDULED"]
          /\ state[a] \notin {"WAITING", "SCHEDULED"}
        BY <1>1, <1>2, CallFacts DEF ActorInit, Listed
    <2>2. TypeOK'
        BY <2>1, <1>1 DEF TypeOK, ActorState
    <2>3. ListsMatchStates'
        BY <2>1, <1>1 DEF TypeOK, ListsMatchStates
    <2>4. PendSorted' /\ AlarmCoversHead'
        BY <2>1, <1>1 DEF PendSorted, AlarmCoversHead
    <2> QED
        BY <2>2, <2>3, <2>4 DEF Inv
<1>3. ASSUME NEW a \in Actors, ActorDelete(a) PROVE Inv'
    <2> DEFINE p == Without(pend_list, a)
               r == Without(ready_list, a)
    <2>1. /\ UNCHANGED <<left, sigalrm, pc>> /\ ops' \in 0 .. MaxOps
          /\ state' = [state EXCEPT ![a] = "NOTSCHEDULED"]
          /\ pend_list' = p /\ ready_list' = r /\ alarm' = AlarmAfterDelete(a)
        BY <1>1, <1>3, CallFacts DEF ActorDelete
    <2>2. /\ p \in Seq(Actors) /\ Distinct(p) /\ Sorted(p, left)
          /\ Elems(p) = Elems(pend_list) \ {a}
          /\ r \in Seq(Actors) /\ Distinct(r)
          /\ Elems(r) = Elems(ready_list) \ {a}
          /\ Covers(AlarmAfterDelete(a), p)
          /\ AlarmAfterDelete(a) \in {NoAlarm} \cup 0 .. MaxDelay
        BY DelistedProperties
    <2> HIDE DEF p, r
    <2>3. TypeOK'
        BY <2>1, <2>2, <1>1 DEF TypeOK, ActorState
    <2>4. ListsMatchStates'
        BY <2>1, <2>2, <1>1 DEF TypeOK, ListsMatchStates
    <2>5. PendSorted' /\ AlarmCoversHead'
        BY <2>1, <2>2 DEF PendSorted, AlarmCoversHead, Covers
    <2> QED
        BY <2>3, <2>4, <2>5 DEF Inv
<1>4. ASSUME NEW a \in Actors, NEW head \in BOOLEAN, ActorSchedule(a, head) PROVE Inv'
    <2>1. UNCHANGED <<sigalrm, pc>> /\ ops' \in 0 .. MaxOps
        BY <1>1, <1>4, CallFacts DEF ActorSchedule
    <2>2. CASE state[a] \in {"WAITING", "NOTSCHEDULED"}
        <3>1. Enlist(Without(pend_list, a), ready_list, alarm, a, 0, head)
            BY <2>2, <1>4 DEF ActorSchedule
        <3>2. /\ Without(pend_list, a) \in Seq(Actors) /\ Distinct(Without(pend_list, a))
              /\ Sorted(Without(pend_list, a), left)
              /\ Elems(Without(pend_list, a)) = Elems(pend_list) \ {a}
              /\ Covers(alarm, Without(pend_list, a))
            BY DelistedProperties
        <3>3. Elems(ready_list) = Elems(ready_list) \ {a}
            BY <2>2, <1>1 DEF ListsMatchStates
        <3>4. 0 \in 0 .. MaxDelay
            BY SMTT(30)
        <3> QED
            BY <2>1, <3>1, <3>2, <3>3, <3>4, <1>1, EnlistPreserves
    <2>3. CASE state[a] \notin {"WAITING", "NOTSCHEDULED"}
        <3>1. UNCHANGED <<state, left, pend_list, ready_list, alarm>>
            BY <2>3, <1>4 DEF ActorSchedule
        <3> QED
            BY <2>1, <3>1, <1>1 DEF Inv, TypeOK, ListsMatchStates, PendSorted, AlarmCoversHead
    <2> QED
        BY <2>2, <2>3
<1>5. ASSUME NEW a \in Actors, NEW d \in 0 .. MaxDelay, ActorTimer(a, d) PROVE Inv'
    <2>1. /\ UNCHANGED <<sigalrm, pc>> /\ ops' \in 0 .. MaxOps
          /\ ~ Listed(a)
          /\ Enlist(pend_list, ready_list, alarm, a, d, FALSE)
        BY <1>1, <1>5, CallFacts DEF ActorTimer
    <2>2. Elems(pend_list) = Elems(pend_list) \ {a} /\ Elems(ready_list) = Elems(ready_list) \ {a}
        BY <2>1, <1>1 DEF ListsMatchStates, Listed
    <2>3. Covers(alarm, pend_list)
        BY <1>1 DEF Covers, AlarmCoversHead
    <2> QED
        BY <2>1, <2>2, <2>3, <1>1, EnlistPreserves
<1>6. ASSUME NEW a \in Actors, NEW d \in 0 .. MaxDelay, ActorTimerMod(a, d) PROVE Inv'
    <2> DEFINE p == Without(pend_list, a)
               r == Without(ready_list, a)
    <2>1. /\ UNCHANGED <<sigalrm, pc>> /\ ops' \in 0 .. MaxOps
          /\ Enlist(p, r, AlarmAfterDelete(a), a, d, FALSE)
        BY <1>1, <1>6, CallFacts DEF ActorTimerMod
    <2>2. /\ p \in Seq(Actors) /\ Distinct(p) /\ Sorted(p, left)
          /\ Elems(p) = Elems(pend_list) \ {a}
          /\ r \in Seq(Actors) /\ Distinct(r)
          /\ Elems(r) = Elems(ready_list) \ {a}
          /\ Covers(AlarmAfterDelete(a), p)
          /\ AlarmAfterDelete(a) \in {NoAlarm} \cup 0 .. MaxDelay
        BY DelistedProperties
    <2> HIDE DEF p, r
    <2> QED
        BY <2>1, <2>2, EnlistPreserves
<1>7. ASSUME ActorPoll PROVE Inv'
    <2>1. PICK k \in 0 .. Len(pend_list) :
              /\ IsRipePrefix(k)
              /\ ready_list' = ready_list \o SubSeq(pend_list, 1, k)
              /\ pend_list' = SubSeq(pend_list, k + 1, Len(pend_list))
              /\ state' = [a \in Actors |->
                              IF \E i \in 1 .. k : a = pend_list[i] THEN "SCHEDULED" ELSE state[a]]
              /\ alarm' = IF k < Len(pend_list) THEN left[pend_list[k + 1]] ELSE NoAlarm
        BY <1>7 DEF ActorPoll
    <2>2. UNCHANGED <<left, sigalrm, ops>> /\ pc' = "run"
        BY <1>7 DEF ActorPoll
    <2>3. Elems(ready_list) \cap Elems(pend_list) = {}
        <3>1. \A x \in Elems(ready_list) : x \in Actors
            BY <1>1, LenProperties, ElementOfSeq DEF Elems
        <3> QED
            BY <3>1, <1>1 DEF ListsMatchStates
    <2>4. /\ ready_list' \in Seq(Actors)
          /\ Distinct(ready_list')
          /\ Elems(ready_list') = Elems(ready_list) \cup {pend_list[i] : i \in 1 .. k}
          /\ pend_list' \in Seq(Actors)
          /\ Distinct(pend_list')
          /\ Elems(pend_list') = Elems(pend_list) \ {pend_list[i] : i \in 1 .. k}
          /\ Len(pend_list') = Len(pend_list) - k
          /\ \A i \in 1 .. Len(pend_list) - k : pend_list'[i] = pend_list[k + i]
        BY <2>1, <2>3, <1>1, ListMovePrefix, SMTT(30)
    <2>5. /\ Len(pend_list) \in Nat /\ DOMAIN pend_list = 1 .. Len(pend_list)
          /\ DOMAIN pend_list' = 1 .. Len(pend_list) - k
          /\ \A i \in 1 .. Len(pend_list) : pend_list[i] \in Actors
        BY <2>4, <1>1, LenProperties, ElementOfSeq, SMTT(30)
    <2>6. TypeOK'
        <3>1. state' \in [Actors -> ActorState]
            BY <2>1, <1>1 DEF TypeOK, ActorState
        <3>2. alarm' \in {NoAlarm} \cup 0 .. MaxDelay
            BY <2>1, <2>5, <1>1, SMTT(30) DEF TypeOK
        <3> QED
            BY <3>1, <3>2, <2>2, <2>4, <1>1 DEF TypeOK, LoopState
    <2>7. ListsMatchStates'
        <3>1. \A b \in Actors : state'[b] = "WAITING" <=> b \in Elems(pend_list')
            BY <2>1, <2>4, <1>1, SMTT(30) DEF ListsMatchStates
        <3>2. \A b \in Actors : state'[b] = "SCHEDULED" <=> b \in Elems(ready_list')
            BY <2>1, <2>4, <1>1, SMTT(30) DEF ListsMatchStates
        <3> QED
            BY <3>1, <3>2, <2>4, SMTT(30) DEF ListsMatchStates
    <2>8. PendSorted'
        <3>1. SUFFICES ASSUME NEW i \in 1 .. Len(pend_list) - k, NEW j \in 1 .. Len(pend_list) - k, i < j
                       PROVE  left[pend_list'[i]] <= left[pend_list'[j]]
            BY <2>2, <2>5 DEF PendSorted, Sorted
        <3>2. k + i \in DOMAIN pend_list /\ k + j \in DOMAIN pend_list /\ k + i < k + j
            BY <3>1, <2>5
        <3>3. left[pend_list[k + i]] <= left[pend_list[k + j]]
            BY <3>2, <1>1 DEF Sorted
        <3> QED
            BY <3>3, <2>4
    <2>9. AlarmCoversHead'
        <3>1. SUFFICES ASSUME pend_list' # <<>>
                       PROVE  alarm' # NoAlarm /\ alarm' <= left'[Head(pend_list')]
            BY DEF AlarmCoversHead
        <3>2. Len(pend_list') >= 1 /\ Head(pend_list') = pend_list'[1]
            BY <3>1, <2>4, EmptySeq
        <3>3. k < Len(pend_list) /\ k + 1 \in 1 .. Len(pend_list) /\ pend_list'[1] = pend_list[k + 1]
            BY <3>2, <2>4, <2>5, SMTT(30)
        <3>4. alarm' = left[pend_list[k + 1]] /\ left[pend_list[k + 1]] \in Nat
            BY <3>3, <2>1, <2>5, <1>1 DEF TypeOK
        <3> QED
            BY <3>2, <3>3, <3>4, <2>2 DEF NoAlarm
    <2> QED
        BY <2>6, <2>7, <2>8, <2>9, SMTT(30) DEF Inv
<1>8. ASSUME RunReady PROVE Inv'
    <2>1. /\ pc = "run" /\ ready_list # <<>> /\ ready_list' = Tail(ready_list)
          /\ state' = [state EXCEPT ![Head(ready_list)] = "NOTSCHEDULED"]
          /\ pc' = "callback" /\ UNCHANGED <<left, pend_list, alarm, sigalrm, ops>>
        BY <1>8 DEF RunReady
    <2>2. /\ ready_list' \in Seq(Actors) /\ Head(ready_list) \in Actors
          /\ Distinct(ready_list')
          /\ Elems(ready_list') = Elems(ready_list) \ {Head(ready_list)}
        BY <2>1, <1>1, ListTakeFirst
    <2>3. Head(ready_list) \in Elems(ready_list)
        BY <2>1, <1>1, EmptySeq, LenProperties DEF Elems
    <2>4. TypeOK'
        BY <2>1, <2>2, <1>1 DEF TypeOK, ActorState, LoopState
    <2>5. ListsMatchStates'
        BY <2>1, <2>2, <2>3, <1>1 DEF ListsMatchStates, TypeOK
    <2>6. PendSorted' /\ AlarmCoversHead'
        BY <2>1, <1>1, SMTT(30) DEF PendSorted, AlarmCoversHead
    <2> QED
        BY <2>4, <2>5, <2>6 DEF Inv
<1>9. ASSUME CallbackReturns \/ EnterPoll \/ AlarmWakes \/ OtherWakes PROVE Inv'
    <2>1. /\ UNCHANGED <<state, left, pend_list, ready_list, alarm, sigalrm, ops>>
          /\ \/ pc \in {"run", "callback", "sleep"} /\ pc' \in {"run", "sleep", "handle"}
             \/ pc' = "handle_sig"
        BY <1>9, SMTT(30) DEF CallbackReturns, EnterPoll, AlarmWakes, OtherWakes
    <2> QED
        BY <2>1, <1>1
        DEF Inv, TypeOK, LoopState, ListsMatchStates, PendSorted, AlarmCoversHead
<1>10. ASSUME HandlersReturn PROVE Inv'
    BY <1>1, <1>10
    DEF HandlersReturn, Inv, TypeOK, LoopState, ListsMatchStates, PendSorted, AlarmCoversHead
<1>11. ASSUME Tick PROVE Inv'
    <2>1. /\ alarm # 0 /\ alarm' = IF alarm = NoAlarm THEN NoAlarm ELSE alarm - 1
          /\ left' = [a \in Actors |-> IF left[a] > 0 THEN left[a] - 1 ELSE 0]
          /\ UNCHANGED <<state, pend_list, ready_list, sigalrm, pc, ops>>
        BY <1>11 DEF Tick
    <2>2. left \in [Actors -> 0 .. MaxDelay]
        BY <1>1 DEF TypeOK
    <2>3. TypeOK'
        <3>1. alarm' \in {NoAlarm} \cup 0 .. MaxDelay
            BY <2>1, <1>1 DEF NoAlarm
        <3>2. left' \in [Actors -> 0 .. MaxDelay]
            BY <2>1, <2>2, SMTT(30)
        <3> QED
            BY <3>1, <3>2, <2>1, <1>1 DEF TypeOK
    <2>4. ListsMatchStates'
        BY <2>1, <1>1 DEF ListsMatchStates
    <2>5. \A i \in DOMAIN pend_list : pend_list[i] \in Actors
        BY <1>1, LenProperties, ElementOfSeq
    <2>6. PendSorted'
        <3>1. SUFFICES ASSUME NEW i \in DOMAIN pend_list, NEW j \in DOMAIN pend_list, i < j
                       PROVE  left'[pend_list[i]] <= left'[pend_list[j]]
            BY <2>1 DEF PendSorted, Sorted
        <3>2. left[pend_list[i]] <= left[pend_list[j]]
            BY <3>1, <1>1 DEF Sorted
        <3>3. pend_list[i] \in Actors /\ pend_list[j] \in Actors
            BY <2>5
        <3> QED
            BY <3>2, <3>3, <2>1, <2>2
    <2>7. AlarmCoversHead'
        <3>1. SUFFICES ASSUME pc \in {"run", "callback", "sleep", "handle"}, pend_list # <<>>, ~ sigalrm
                       PROVE  alarm' # NoAlarm /\ alarm' <= left'[Head(pend_list)]
            BY <2>1 DEF AlarmCoversHead
        <3>2. alarm # NoAlarm /\ alarm <= left[Head(pend_list)] /\ alarm \in 0 .. MaxDelay
            BY <3>1, <1>1 DEF AlarmCoversHead
        <3>3. Head(pend_list) \in Actors
            BY <3>1, <1>1, HeadTailProperties, SMTT(30)
        <3> QED
            BY <3>2, <3>3, <2>1, <2>2 DEF NoAlarm
    <2> QED
        BY <2>3, <2>4, <2>6, <2>7 DEF Inv
<1>12. ASSUME AlarmFires PROVE Inv'
    BY <1>1, <1>12
    DEF AlarmFires, Inv, TypeOK, ListsMatchStates, PendSorted, AlarmCoversHead, NoAlarm
<1>13. CASE UNCHANGED vars
    BY <1>1, <1>13 DEF vars, Inv, TypeOK, ListsMatchStates, PendSorted, AlarmCoversHead
<1> QED
    BY <1>2, <1>3, <1>4, <1>5, <1>6, <1>7, <1>8, <1>9, <1>10, <1>11, <1>12, <1>13 DEF Next, Loop

\* In every reachable state of the scheduler, whatever its callers do, each
\* variable has its type and the lists agree with the actors' states: the
\* assert of actor_poll cannot fail and no actor is run twice for one call.
THEOREM ListsCorrect == Spec => [](TypeOK /\ ListsMatchStates)
<1>1. Inv => TypeOK /\ ListsMatchStates
    BY DEF Inv
<1> QED
    BY <1>1, InitInv, NextInv, PTL DEF Spec

\* pend_list is sorted in every reachable state, so actor_poll loses no ripe
\* actor by stopping at the first unripe one.
THEOREM PendListSorted == Spec => []PendSorted
<1>1. Inv => PendSorted
    BY DEF Inv
<1> QED
    BY <1>1, InitInv, NextInv, PTL DEF Spec

\* event_loop never sleeps in poll() with a pending actor and no SIGALRM on
\* its way by the time that actor is due.
THEOREM NoLostWakeup == Spec => []AlarmCoversHead
<1>1. Inv => AlarmCoversHead
    BY DEF Inv
<1> QED
    BY <1>1, InitInv, NextInv, PTL DEF Spec
==============================================================================
