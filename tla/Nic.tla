-------------------------------- MODULE Nic --------------------------------
(***************************************************************************)
(* The control path of iscsiuio for one network device: the listener that   *)
(* takes requests of iscsid ("L"), the threads it starts to enable the      *)
(* device ("E1", "E2"), the netlink listener ("M"), the thread that answers *)
(* the path requests of the kernel ("N") and nic_loop ("W").  They share    *)
(* nic_mutex, nic_list_mutex, the flags and state of the nic and the lists  *)
(* of its interfaces.                                                       *)
(*                                                                          *)
(* A critical section is one step.  pc[t] says where a thread is: "w_x"     *)
(* waits on a condition variable, "r_x" was woken and "t_x" timed out, both *)
(* wait for nic_mutex.                                                      *)
(***************************************************************************)
EXTENDS Integers, Sequences, FiniteSets

CONSTANTS Scenes,      \* what iscsid and the kernel ask for, what fails
          PendMax,     \* limit of pending_count (1000)
          PathMax      \* limit of pathreq_pending_count (10 and 12)

VARIABLES sc,    \* the scene
          nic,   \* the nic_t
          ifs,   \* its interfaces; 0 is the NULL pointer
          pc, lk,\* where the threads are; owner of nic_list_mutex
          l, n,  \* locals of parse_iface and of ctldev_handle
          wc,    \* the interface nic_loop acquires, and its list head
          cl,    \* the requests of iscsid: "todo", "up" or "err"
          kq,    \* messages the kernel has not sent
          ans    \* answers to path requests

vars == <<sc, nic, ifs, pc, lk, l, n, wc, cl, kq, ans>>

Threads == {"L", "E1", "E2", "M", "N", "W"}

Enablers == {"E1", "E2"}

None == "none"

(***************************************************************************)
(* The nic and its interfaces.                                              *)
(***************************************************************************)
nic_init == [ex |-> TRUE, flags |-> {"DISABLED"}, state |-> "STOPPED", mutex |-> None,
             open |-> FALSE, thread |-> FALSE, enable |-> None, nl |-> FALSE,
             pend |-> 0, path |-> 0, ring |-> 0, first |-> 0, cancel |-> {}, stray |-> {}]

NoNic == [nic_init EXCEPT !.ex = FALSE]

Has(f) == f \in nic.flags

NoVlan == -1

NumInvalid == -1

nic_iface_init == [proto |-> 0, vlan |-> 0, num |-> NumInvalid, rtype |-> "off", cfg |-> "off",
                   addr |-> 0, acq |-> FALSE, w1 |-> FALSE, w2 |-> FALSE, persist |-> FALSE,
                   next |-> 0, vnext |-> 0]

RECURSIVE Chain(_, _)
Chain(s, i) == IF i = 0 THEN <<>> ELSE <<i>> \o Chain(s, s[i].next)

RECURSIVE VlanChain(_, _)
VlanChain(s, i) == IF i = 0 THEN <<>> ELSE <<i>> \o VlanChain(s, s[i].vnext)

\* The interfaces a walk over the two lists meets, in order.
RECURSIVE Walk(_, _)
Walk(s, i) == IF i = 0 THEN <<>> ELSE VlanChain(s, i) \o Walk(s, s[i].next)

FirstOr0(s) == IF s = <<>> THEN 0 ELSE s[1]

nic_find_nic_iface(s, first, proto, vlan, num, rtype) ==
  LET typed(c) == rtype = "off" \/ s[c].rtype = rtype
      numbered(c) == num # NumInvalid /\ s[c].num = num /\ (num = 0 => typed(c))
      tagged(c) == s[c].vlan = vlan /\ typed(c)
      matches(c, head) == \/ numbered(c)
                          \/ head /\ num = NumInvalid /\ vlan = NoVlan
                          \/ (~head \/ (num = NumInvalid /\ vlan # NoVlan)) /\ tagged(c)
      heads == {Chain(s, first)[i] : i \in 1..Len(Chain(s, first))}
  IN  FirstOr0(SelectSeq(Walk(s, first), LAMBDA c : s[c].proto = proto /\ matches(c, c \in heads)))

\* The list head of a protocol family and the head before it (0: none).
HeadOf(s, first, proto) == FirstOr0(SelectSeq(Chain(s, first), LAMBDA c : s[c].proto = proto))

Before(s, first, c) == FirstOr0(SelectSeq(Chain(s, first), LAMBDA p : s[p].next = c))

\* Append interface x, replacing the head of its family; the pair is the
\* interfaces and the new nic->nic_iface.
nic_add_nic_iface(s, first, x) ==
  LET i == Len(s) + 1
      c == HeadOf(s, first, x.proto)
      p == Before(s, first, c)
      t == Append(s, IF c = 0 THEN [x EXCEPT !.next = first]
                              ELSE [x EXCEPT !.next = s[c].next, !.vnext = c])
  IN  IF nic_find_nic_iface(s, first, x.proto, x.vlan, x.num, x.rtype) # 0 THEN <<s, first>>
      ELSE IF c = 0 THEN <<t, i>>
      ELSE IF p = 0 THEN <<[t EXCEPT ![c].next = 0], i>>
      ELSE <<[t EXCEPT ![c].next = 0, ![p].next = i], first>>

persist_all_nic_iface(s, first) ==
  [i \in 1..Len(s) |-> IF \E j \in 1..Len(Walk(s, first)) : Walk(s, first)[j] = i
                       THEN [s[i] EXCEPT !.persist = TRUE] ELSE s[i]]

\* Found in the vlan list of head c: unlinked there and put before c.  Its own
\* next pointer is left as it is.
set_nic_iface(s, first, i) ==
  LET c == HeadOf(s, first, s[i].proto)
      p == Before(s, first, c)
      v == FirstOr0(SelectSeq(VlanChain(s, c), LAMBDA j : s[j].vnext = i))
      t == [[s EXCEPT ![v].vnext = s[i].vnext] EXCEPT ![i].vnext = c]
  IN  IF c = i \/ v = 0 THEN <<s, first>>
      ELSE IF p = 0 THEN <<t, i>>
      ELSE <<[t EXCEPT ![p].next = i], first>>

uip_reset(x) == [x EXCEPT !.cfg = "off", !.addr = 0]

\* The device is closed when its node exists (ok).
nic_close(c, ok) == IF ok THEN [c EXCEPT !.open = FALSE, !.state = "STOPPED",
                                         !.flags = (@ \ {"ENABLED"}) \cup {"DISABLED"}]
                    ELSE c

ResetUnlessPersistent(s) == [i \in 1..Len(s) |-> IF s[i].persist THEN s[i] ELSE uip_reset(s[i])]

(***************************************************************************)
(* Threads, locks and condition variables.                                  *)
(***************************************************************************)
At(t, x) == pc[t] = x

Goto(t, x) == pc' = [pc EXCEPT ![t] = x]

Free == nic.mutex = None

\* A broadcast: everyone waiting at "w_c" goes on.
Woken(p, c) == [t \in Threads |-> IF p[t] = "w_" \o c THEN "r_" \o c ELSE p[t]]

\* Nobody is going to signal any more, or the machine is slow.
Overdue(t) == t \in sc.slow \/ t = "M" \/ pc["W"] \in {"none", "w_wait"}

\* Mutant: nic_disable waits without a limit for if_down.
Timeout_Unlimited(t, c) ==
  /\ At(t, "w_" \o c) /\ Overdue(t) /\ t # "M"
  /\ Goto(t, "t_" \o c)
  /\ UNCHANGED <<sc, nic, ifs, lk, l, n, wc, cl, kq, ans>>

Timeout(t, c) ==
  /\ At(t, "w_" \o c) /\ Overdue(t)
  /\ Goto(t, "t_" \o c)
  /\ UNCHANGED <<sc, nic, ifs, lk, l, n, wc, cl, kq, ans>>

\* A wait is a cancellation point.
Waiting(t, c) == IF t \in nic.cancel THEN "cancelled" ELSE "w_" \o c

AfterDisable(t) == CASE t = "L" -> "set" [] t = "N" -> "run1" [] t = "M" -> "remove"

AfterEnable(t) == IF t = "N" THEN "run2" ELSE "done"

\* nic_disable: the state is read without the mutex.
nic_disable(t) ==
  /\ \/ /\ At(t, "dis")
        /\ Goto(t, IF nic.state \in {"STARTED", "RUNNING"} THEN "dis2" ELSE AfterDisable(t))
        /\ UNCHANGED nic
     \/ /\ At(t, "dis2") /\ Free
        /\ nic' = [nic EXCEPT !.state = "STOPPED",
                              !.flags = (@ \ {"ENABLED"}) \cup {"DISABLED"}
                                        \cup (IF t = "M" THEN {"GOING_DOWN"} ELSE {})]
        /\ Goto(t, "w_dis")
     \/ /\ pc[t] \in {"r_dis", "t_dis"} /\ Free
        /\ Goto(t, AfterDisable(t))
        /\ UNCHANGED nic
  /\ UNCHANGED <<sc, ifs, lk, l, n, wc, cl, kq, ans>>

\* Mutant: nic_loop is not woken.
nic_enable_Silent(t) ==
  /\ \/ /\ At(t, "en")
        /\ Goto(t, IF ~Has("GOING_DOWN") /\ nic.state = "STOPPED" THEN "en2" ELSE AfterEnable(t))
        /\ UNCHANGED nic
     \/ /\ At(t, "en2") /\ Free
        /\ nic' = [nic EXCEPT !.flags = (@ \ {"DISABLED"}) \cup {"ENABLED", "PENDING"}]
        /\ Goto(t, Waiting(t, "en"))
     \/ /\ pc[t] \in {"r_en", "t_en"} /\ Free
        /\ nic' = [nic EXCEPT !.flags = (@ \ {"ENABLED", "PENDING"}) \cup {"DISABLED"}]
        /\ Goto(t, AfterEnable(t))
  /\ UNCHANGED <<sc, ifs, lk, l, n, wc, cl, kq, ans>>

\* nic_enable: the broadcast is for nic_loop, the wait for its answer.
nic_enable(t) ==
  /\ \/ /\ At(t, "en")
        /\ Goto(t, IF ~Has("GOING_DOWN") /\ nic.state = "STOPPED" THEN "en2" ELSE AfterEnable(t))
        /\ UNCHANGED nic
     \/ /\ At(t, "en2") /\ Free
        /\ nic' = [nic EXCEPT !.flags = (@ \ {"DISABLED"}) \cup {"ENABLED", "PENDING"}]
        /\ pc' = [Woken(pc, "wait") EXCEPT ![t] = Waiting(t, "en")]
     \/ /\ pc[t] \in {"r_en", "t_en"} /\ Free
        /\ nic' = IF At(t, "r_en") /\ Has("ENABLED") THEN nic
                  ELSE [nic EXCEPT !.flags = (@ \ {"ENABLED", "PENDING"}) \cup {"DISABLED"}]
        /\ Goto(t, AfterEnable(t))
  /\ UNCHANGED <<sc, ifs, lk, l, n, wc, cl, kq, ans>>

\* Start nic_loop unless it runs, and wait until it has.
prepare_nic_thread(t) ==
  /\ \/ /\ At(t, "prep") /\ Free
        /\ IF nic.thread THEN Goto(t, "en") /\ UNCHANGED nic
           ELSE /\ pc' = [pc EXCEPT ![t] = Waiting(t, "start"), !["W"] = "start"]
                /\ nic' = [nic EXCEPT !.thread = TRUE]
     \/ /\ pc[t] \in {"r_start", "t_start"} /\ Free
        /\ Goto(t, "en")
        /\ UNCHANGED nic
  /\ UNCHANGED <<sc, ifs, lk, l, n, wc, cl, kq, ans>>

enable_nic_thread(t) ==
  \/ prepare_nic_thread(t)
  \/ nic_enable(t)
  \/ /\ At(t, "done")
     /\ nic' = [nic EXCEPT !.enable = None]
     /\ Goto(t, "none")
     /\ UNCHANGED <<sc, ifs, lk, l, n, wc, cl, kq, ans>>

\* A cancelled wait takes the mutex back before the thread ends, and there is
\* no cleanup handler.
CancelledWaiter(t) ==
  /\ At(t, "cancelled") /\ Free
  /\ nic' = [nic EXCEPT !.mutex = t]
  /\ Goto(t, "dead")
  /\ UNCHANGED <<sc, ifs, lk, l, n, wc, cl, kq, ans>>

\* pthread_cancel ends a thread that waits; another one goes on to its next wait.
pthread_cancel(p, t) == [p EXCEPT ![t] = IF @ \in {"w_start", "w_en"} THEN "cancelled" ELSE @]

(***************************************************************************)
(* The listener: iscsid_loop, process_iscsid_broadcast and parse_iface.     *)
(***************************************************************************)
\* The answer to iscsid for a result of parse_iface; INITIALIZING makes iscsid
\* try again.
process_iscsid_broadcast(rc) ==
  /\ cl' = [cl EXCEPT ![l.r] = CASE rc = "ok" -> "up" [] rc = "again" -> "todo" [] OTHER -> "err"]
  /\ l' = [r |-> 0, i |-> 0]
  /\ lk' = None
  /\ Goto("L", "idle")

decode_iface(r) ==
  [r EXCEPT !.addr = IF r.proto = 6 /\ r.num # NumInvalid /\ r.autocfg = "dhcpv6" THEN 0 ELSE @,
            !.autocfg = IF r.num # NumInvalid THEN @ ELSE "unused"]

\* How the address is to be configured.
RequestType(r) ==
  CASE r.proto = 6 /\ r.autocfg = "dhcpv6" -> "dhcp"
    [] r.proto = 6 /\ r.autocfg = "nd" -> "static"
    [] OTHER -> IF r.addr = 0 THEN "dhcp" ELSE "static"

Req == decode_iface(sc.reqs[l.r])

valid_vlan(v) == v > 0 /\ v < 4095

\* The nic of a network device, by its name and by its host number; whether it
\* has a uio device; whether a library is there for its PCI id.
from_netdev_name_find_nic == nic.ex

from_host_no_find_associated_eth_device == nic.ex

nic_fill_name == sc.uio

prepare_library == sc.lib

\* An enable thread has not marked the nic as pending yet, or is pending for as
\* long as parse_iface puts up with.
Starting == \/ Has("PENDING") /\ nic.pend > PendMax
            \/ \E e \in Enablers : pc[e] \in {"prep", "w_start", "r_start", "t_start", "en", "en2"}

\* nic_list_mutex is tried ten times; then the nic is looked up or created,
\* which fails when it has no uio device.  A patient iscsid lets a second pass
\* before it asks again, in which an enable thread gets to its wait, and the
\* device is enabled before the pending tries are over.
iscsid_loop ==
  /\ At("L", "idle")
  /\ \E r \in DOMAIN cl :
       LET q == sc.reqs[r]
           found == lk = None /\ (from_netdev_name_find_nic \/ nic_fill_name) /\ (q.vlan # 0 => valid_vlan(q.vlan))
       IN  /\ cl[r] = "todo" /\ (q.after # 0 => cl[q.after] # "todo") /\ ~(sc.patient /\ Starting)
           /\ \/ /\ ~found
                 /\ cl' = [cl EXCEPT ![r] = "err"]
                 /\ UNCHANGED <<nic, ifs, pc, lk, l>>
              \/ /\ found
                 /\ lk' = "L" /\ l' = [r |-> r, i |-> 0] /\ Goto("L", "lock")
                 /\ nic' = IF from_netdev_name_find_nic THEN nic ELSE [nic_init EXCEPT !.stray = nic.stray]
                 /\ UNCHANGED <<ifs, cl>>
  /\ UNCHANGED <<sc, n, wc, kq, ans>>

\* The library and the request type must be known.
ParseRequestType == IF prepare_library /\ Req.proto # 0 THEN "iface" ELSE "err"

\* An enable that is still pending: wait two seconds and ask again.
PendingCheck ==
  CASE At("L", "sleep") -> IF Has("ENABLED") /\ nic.state = "RUNNING" THEN ParseRequestType ELSE "again"
    [] At("L", "lock") /\ Has("GOING_DOWN") -> "err"
    [] At("L", "lock") /\ ~Has("GOING_DOWN") /\ nic.pend > PendMax -> "ok"
    [] At("L", "lock") /\ ~Has("GOING_DOWN") /\ nic.pend <= PendMax ->
         IF Has("PENDING") THEN "sleep" ELSE ParseRequestType

ParsePending ==
  /\ pc["L"] \in {"lock", "sleep"} /\ Free
  /\ nic' = CASE At("L", "lock") /\ PendingCheck = "ok" ->
                   [nic EXCEPT !.pend = 0, !.flags = @ \ {"PENDING"}]
              [] PendingCheck = "sleep" -> [nic EXCEPT !.pend = @ + 1]
              [] OTHER -> nic
  /\ IF PendingCheck \in {"sleep", "iface"} THEN Goto("L", PendingCheck) /\ UNCHANGED <<l, cl, lk>>
     ELSE process_iscsid_broadcast(PendingCheck)
  /\ UNCHANGED <<sc, ifs, n, wc, kq, ans>>

\* Another interface waits for its path request.
PathReqElsewhere(i) == Has("PATHREQ") /\ (i # 0 => ~(ifs[i].w1 \/ ifs[i].w2))

\* With the interface found or created: its wait flag is set and the thread for
\* path requests started.
WithIface(i, s, first, path) ==
  /\ ifs' = [s EXCEPT ![i].w1 = TRUE]
  /\ nic' = [nic EXCEPT !.flags = @ \cup {"PATHREQ"}, !.first = first, !.path = path, !.nl = TRUE]
  /\ l' = [l EXCEPT !.i = i]
  /\ pc' = [pc EXCEPT !["L"] = "config", !["N"] = IF nic.nl THEN @ ELSE "start"]
  /\ UNCHANGED <<cl, lk>>

ParseIface ==
  LET r == Req
      t == RequestType(r)
      i == nic_find_nic_iface(ifs, nic.first, r.proto, r.vlan, r.num, t)
      new == [nic_iface_init EXCEPT !.proto = r.proto, !.vlan = r.vlan, !.num = r.num, !.rtype = t]
      add == nic_add_nic_iface(ifs, nic.first, new)
      set == set_nic_iface(ifs, nic.first, i)
      path == IF PathReqElsewhere(i) THEN 0 ELSE nic.path
  IN  /\ At("L", "iface") /\ Free
      /\ \/ /\ PathReqElsewhere(i) /\ nic.path < PathMax
            /\ nic' = [nic EXCEPT !.path = @ + 1]
            /\ process_iscsid_broadcast("again")
            /\ UNCHANGED ifs
         \/ /\ ~(PathReqElsewhere(i) /\ nic.path < PathMax) /\ i = 0
            /\ WithIface(Len(add[1]), persist_all_nic_iface(add[1], add[2]), add[2], path)
         \/ /\ ~(PathReqElsewhere(i) /\ nic.path < PathMax) /\ i # 0
            /\ WithIface(i, set[1], set[2], path)
      /\ UNCHANGED <<sc, n, wc, kq, ans>>

\* The configuration is the one asked for.
SameConfig(x) == x.cfg = RequestType(Req) /\ (x.cfg = "static" => x.addr = Req.addr)

\* A changed configuration is acquired again by nic_loop, which is stopped first.
ParseConfig ==
  /\ At("L", "config")
  /\ \/ SameConfig(ifs[l.i]) /\ Goto("L", "enable") /\ UNCHANGED ifs
     \/ /\ ~SameConfig(ifs[l.i]) /\ Free
        /\ ifs' = [ifs EXCEPT ![l.i].acq = TRUE]
        /\ Goto("L", "dis")
  /\ UNCHANGED <<sc, nic, lk, l, n, wc, cl, kq, ans>>

\* The new configuration is set without the mutex.
ParseSet == ifs' = [ifs EXCEPT ![l.i].cfg = RequestType(Req),
                               ![l.i].addr = IF RequestType(Req) = "dhcp" THEN 0 ELSE Req.addr]

\* A new enable thread replaces the one that is still on record.
ParseEnable ==
  /\ pc["L"] \in {"set", "enable"}
  /\ IF At("L", "set") THEN ParseSet ELSE UNCHANGED ifs
  /\ LET e == IF At("E1", "none") THEN "E1" ELSE "E2"
         start == nic.state = "STOPPED"
         p == IF ~start THEN pc
              ELSE [(IF nic.enable = None THEN pc ELSE pthread_cancel(pc, nic.enable)) EXCEPT ![e] = "prep"]
     IN  /\ start => At(e, "none")
         /\ nic' = IF start THEN [nic EXCEPT !.enable = e, !.cancel = (@ \cup {nic.enable}) \ {None, e}]
                   ELSE nic
         /\ IF Req.ping THEN pc' = [p EXCEPT !["L"] = "ping"] /\ UNCHANGED <<l, cl, lk>>
            ELSE /\ cl' = [cl EXCEPT ![l.r] = IF nic.state = "RUNNING" THEN "up" ELSE "todo"]
                 /\ l' = [r |-> 0, i |-> 0] /\ lk' = None
                 /\ pc' = [p EXCEPT !["L"] = "idle"]
  /\ UNCHANGED <<sc, n, wc, kq, ans>>

\* The ping thread, which the listener joins.  Its time limit is an absolute time
\* long past, so it never waits for the device.  A bad length and a device
\* stopped in between leave the status at 0.
perform_ping ==
  /\ \/ /\ At("L", "ping") /\ sc.reqs[l.r].lenok /\ nic.state = "RUNNING" /\ Has("ENABLED")
        /\ Goto("L", "ping2") /\ UNCHANGED <<l, cl, lk>>
     \/ /\ At("L", "ping") /\ ~(sc.reqs[l.r].lenok /\ nic.state = "RUNNING" /\ Has("ENABLED"))
        /\ Free
        /\ process_iscsid_broadcast(IF sc.reqs[l.r].lenok THEN "again" ELSE "ok")
     \/ /\ At("L", "ping2")
        /\ \E rc \in (IF nic.state # "RUNNING" THEN {"ok"} ELSE {"ok", "err"}) :
             process_iscsid_broadcast(rc)
  /\ UNCHANGED <<sc, nic, ifs, n, wc, kq, ans>>

Listener == \/ iscsid_loop \/ ParsePending \/ ParseIface
            \/ ParseConfig \/ ParseEnable \/ perform_ping
            \/ nic_disable("L") \/ Timeout("L", "dis")

(***************************************************************************)
(* The netlink listener: nic_nl_open.                                       *)
(***************************************************************************)
\* The message is that the interface went down.
if_down(m) == sc.msgs[m].proto = 0

\* A message may need an answer given to iscsid: the kernel asks for a path when
\* iscsid connects.
Due(m) == m \in kq /\ (sc.msgs[m].after # 0 => cl[sc.msgs[m].after] = "up")

\* A path request goes to the ring, which has one usable place; the thread is
\* woken if it waits.
NlPathReq(m) ==
  /\ At("M", "idle") /\ lk = None
  /\ Due(m) /\ ~if_down(m)
  /\ kq' = kq \ {m}
  /\ IF from_host_no_find_associated_eth_device /\ nic.nl
     THEN nic' = [nic EXCEPT !.ring = m] /\ pc' = Woken(pc, "nl")
     ELSE UNCHANGED <<nic, pc>>
  /\ UNCHANGED <<sc, ifs, lk, l, n, wc, cl, ans>>

\* if_down: the ring is flushed and a waiting path request aborted.
NlIfDown(m) ==
  /\ At("M", "idle") /\ lk = None
  /\ Due(m) /\ if_down(m)
  /\ kq' = kq \ {m}
  /\ IF from_host_no_find_associated_eth_device /\ nic.nl
     THEN /\ nic' = [nic EXCEPT !.ring = 0]
          /\ pc' = [Woken(pc, "arp") EXCEPT !["M"] = "down"]
          /\ lk' = "M"
     ELSE UNCHANGED <<nic, pc, lk>>
  /\ UNCHANGED <<sc, ifs, l, n, wc, cl, ans>>

NlExitLoop ==
  /\ At("M", "down") /\ Free
  /\ nic' = [nic EXCEPT !.flags = (@ \ {"PATHREQ"}) \cup {"EXIT_MAIN_LOOP"}]
  /\ pc' = [Woken(pc, "en") EXCEPT !["M"] = "dis"]
  /\ UNCHANGED <<sc, ifs, lk, l, n, wc, cl, kq, ans>>

\* The threads of the nic are cancelled and its memory freed.  A cancelled
\* thread ends later, and nobody waits for that.
nic_remove(p) == /\ nic' = [NoNic EXCEPT !.stray = nic.stray \cup {t \in Enablers \cup {"N", "W"} :
                                                              p[t] \notin {"none", "dead"}}]
                 /\ ifs' = <<>>
                 /\ pc' = [t \in Threads |-> IF t \in Enablers \cup {"N", "W"} THEN "none" ELSE p[t]]
                 /\ n' = [m |-> 0, i |-> 0] /\ wc' = [i |-> 0, c |-> 0]

NlRemove ==
  /\ At("M", "remove") /\ Free
  /\ nic_remove([pc EXCEPT !["M"] = "idle"])
  /\ lk' = None
  /\ UNCHANGED <<sc, l, cl, kq, ans>>

\* Until it ends such a thread uses the freed nic (a cancelled wait its mutex):
\* nothing comes of it, or the daemon dies.
StrayThread ==
  /\ \E t \in nic.stray : nic' = [nic EXCEPT !.stray = @ \ {t}]
  /\ pc' \in {pc, [t \in Threads |-> "dead"]}
  /\ UNCHANGED <<sc, ifs, lk, l, n, wc, cl, kq, ans>>

NetlinkListener == \/ \E m \in kq : NlPathReq(m) \/ NlIfDown(m)
                   \/ NlExitLoop \/ NlRemove
                   \/ nic_disable("M") \/ Timeout("M", "dis")

(***************************************************************************)
(* Path requests: nl_process_handle_thread and ctldev_handle.               *)
(***************************************************************************)
\* The wait has no predicate: what was queued while the thread was busy stays in
\* the ring until the next signal.
nl_process_handle_thread ==
  /\ \/ /\ At("N", "start")
        /\ Goto("N", "w_nl") /\ UNCHANGED <<nic, n>>
     \/ /\ At("N", "r_nl")
        /\ nic' = [nic EXCEPT !.ring = 0]
        /\ n' = [m |-> nic.ring, i |-> 0]
        /\ Goto("N", IF nic.ring = 0 THEN "start" ELSE "find")
  /\ UNCHANGED <<sc, ifs, lk, l, wc, cl, kq, ans>>

Msg == sc.msgs[n.m]

\* The interface of the request; without one, the top of the family is used, or a
\* vlan interface is made that inherits its configuration.
ctldev_handle ==
  LET vlan == IF Msg.vlan = 0 THEN NoVlan ELSE Msg.vlan
      i == nic_find_nic_iface(ifs, nic.first, Msg.proto, vlan, Msg.num, "off")
      top == nic_find_nic_iface(ifs, nic.first, Msg.proto, NoVlan, NumInvalid, "off")
      legacy == \/ ifs[top].num = NumInvalid
                \/ ifs[top].num = 0 /\ ifs[top].vlan = 0 /\ Msg.vlan # 0
      new == [nic_iface_init EXCEPT !.proto = Msg.proto, !.vlan = Msg.vlan,
                                    !.cfg = ifs[top].cfg, !.addr = ifs[top].addr, !.acq = TRUE]
      add == nic_add_nic_iface(ifs, nic.first, new)
  IN  /\ At("N", "find") /\ Free
      /\ \/ /\ i # 0
            /\ n' = [n EXCEPT !.i = i] /\ Goto("N", "run1") /\ UNCHANGED <<nic, ifs>>
         \/ /\ i = 0 /\ top = 0
            /\ n' = [m |-> 0, i |-> 0] /\ Goto("N", "start") /\ UNCHANGED <<nic, ifs>>
         \/ /\ i = 0 /\ top # 0 /\ ~legacy
            /\ n' = [n EXCEPT !.i = top] /\ Goto("N", "run1") /\ UNCHANGED <<nic, ifs>>
         \/ /\ i = 0 /\ top # 0 /\ legacy
            /\ ifs' = persist_all_nic_iface(add[1], add[2])
            /\ nic' = [nic EXCEPT !.first = add[2]]
            /\ n' = [n EXCEPT !.i = Len(add[1])] /\ Goto("N", "dis")
      /\ UNCHANGED <<sc, lk, l, wc, cl, kq, ans>>

\* The nic has to run; it is enabled if it is stopped and given 2.5 seconds.
CtldevRunning ==
  /\ \/ /\ At("N", "run1")
        /\ Goto("N", IF nic.state = "STOPPED" THEN "en" ELSE "run2")
        /\ UNCHANGED <<ifs, n>>
     \/ /\ At("N", "run2") /\ nic.state = "RUNNING"
        /\ ifs' = [ifs EXCEPT ![n.i].w2 = TRUE, ![n.i].w1 = FALSE]
        /\ Goto("N", "lookup") /\ UNCHANGED n
     \/ /\ At("N", "run2") /\ nic.state # "RUNNING"
        /\ ("N" \in sc.slow \/ pc["W"] \in {"none", "w_wait"})
        /\ n' = [m |-> 0, i |-> 0] /\ Goto("N", "start")
        /\ UNCHANGED ifs
  /\ UNCHANGED <<sc, nic, lk, l, wc, cl, kq, ans>>

\* The answer of cnic_nl_neigh_rsp, and the wait flags.
NeighRsp(rc) ==
  /\ ans' = [ans EXCEPT ![n.m] = Append(@, rc)]
  /\ ifs' = [ifs EXCEPT ![n.i].w1 = FALSE, ![n.i].w2 = FALSE]
  /\ Goto("N", "clear")

\* The address is known, or asked for: the request cannot be sent while another
\* packet is, and if_down ends the wait.
cnic_handle_iscsi_path_req ==
  /\ \/ /\ At("N", "lookup")
        /\ \/ NeighRsp("ok")
           \/ NeighRsp("fail")
           \/ Goto("N", "w_arp") /\ UNCHANGED <<ans, ifs>>
     \/ /\ At("N", "w_arp")
        /\ \E rc \in {"ok", "fail"} : NeighRsp(rc)
     \/ /\ At("N", "r_arp")
        /\ NeighRsp("fail")
  /\ UNCHANGED <<sc, nic, lk, l, n, wc, cl, kq>>

CtldevDone ==
  /\ At("N", "clear") /\ Free
  /\ nic' = [nic EXCEPT !.flags = @ \ {"PATHREQ"}]
  /\ n' = [m |-> 0, i |-> 0]
  /\ Goto("N", "start")
  /\ UNCHANGED <<sc, ifs, lk, l, wc, cl, kq, ans>>

PathThread == \/ nl_process_handle_thread \/ ctldev_handle \/ CtldevRunning
              \/ cnic_handle_iscsi_path_req \/ CtldevDone
              \/ nic_disable("N") \/ Timeout("N", "dis")
              \/ nic_enable("N") \/ Timeout("N", "en")

(***************************************************************************)
(* nic_loop.                                                                *)
(***************************************************************************)
\* The outer loop from its condition to the open of the device: c is the nic, p
\* the threads.  nic_mutex, held here, is given up by the wait to be enabled and
\* while the device is opened.
LoopTop(c, p) ==
  IF "EXIT_MAIN_LOOP" \in c.flags \/ "GOING_DOWN" \in c.flags
  THEN nic' = [c EXCEPT !.flags = @ \ {"PENDING"}] /\ pc' = [p EXCEPT !["W"] = "bye"]
  ELSE nic' = c /\ pc' = [p EXCEPT !["W"] = IF "DISABLED" \in c.flags THEN "w_wait" ELSE "open"]

LoopStart ==
  /\ \/ At("W", "start") /\ Free /\ LoopTop(nic, Woken(pc, "start"))
     \/ At("W", "r_wait") /\ Free /\ Goto("W", "open") /\ UNCHANGED nic
     \/ At("W", "bye") /\ nic' = [nic EXCEPT !.thread = FALSE] /\ Goto("W", "none")
  /\ UNCHANGED <<sc, ifs, lk, l, n, wc, cl, kq, ans>>

\* ops->open waits for the device node.  When it fails the loop goes on without
\* the mutex.
LoopOpen ==
  /\ At("W", "open") /\ Free
  /\ \/ /\ "ok" \in sc.open \/ nic.open
        /\ nic' = [nic EXCEPT !.open = TRUE]
        /\ Goto("W", "alloc")
     \/ /\ "fail" \in sc.open /\ ~nic.open
        /\ nic' = [nic EXCEPT !.flags = @ \ {"ENABLED"}]
        /\ pc' = [Woken(pc, "en") EXCEPT !["W"] = "close"]
     \/ /\ "notsup" \in sc.open /\ ~nic.open
        /\ nic' = [nic EXCEPT !.flags = @ \cup {"EXIT_MAIN_LOOP"}]
        /\ pc' = [Woken(pc, "en") EXCEPT !["W"] = "close"]
  /\ UNCHANGED <<sc, ifs, lk, l, n, wc, cl, kq, ans>>

\* Mutant: the nic is said to run before its interfaces are acquired.
LoopAlloc_Early ==
  /\ At("W", "alloc")
  /\ nic' = [nic EXCEPT !.state = "RUNNING", !.flags = @ \ {"PENDING"}] /\ Goto("W", "acq")
  /\ UNCHANGED <<sc, ifs, lk, l, n, wc, cl, kq, ans>>

\* The packets are allocated, the state set, both without the mutex.
LoopAlloc ==
  /\ At("W", "alloc")
  /\ \/ nic' = [nic EXCEPT !.state = "STARTED"] /\ Goto("W", "acq")
     \/ /\ sc.nomem
        /\ pc' = [Woken(pc, "en") EXCEPT !["W"] = "close"] /\ UNCHANGED nic
  /\ UNCHANGED <<sc, ifs, lk, l, n, wc, cl, kq, ans>>

\* The next interface to look at after i under head c.  The inner walk follows
\* next, not vlan_next.
AfterIface(s, x) ==
  LET v == IF x.i = x.c THEN s[x.c].vnext ELSE s[x.i].next
  IN  IF v # 0 THEN [c |-> x.c, i |-> v] ELSE [c |-> s[x.c].next, i |-> s[x.c].next]

\* do_acquisition from x on, up to an interface whose address takes time to get; a
\* static IPv4 address is there at once.
RECURSIVE do_acquisition(_, _)
do_acquisition(s, x) ==
  IF x.i = 0 THEN [s |-> s, x |-> x]
  ELSE IF s[x.i].acq /\ (s[x.i].proto = 6 \/ s[x.i].cfg = "dhcp") THEN [s |-> s, x |-> x]
  ELSE do_acquisition([s EXCEPT ![x.i].acq = FALSE], AfterIface(s, x))

\* process_dhcp_loop ends with an address, out of time, or because the nic is
\* disabled.  A failure of IPv4 resets the interface, which stays to be acquired.
process_dhcp_loop ==
  LET off == ~Has("ENABLED") \/ Has("GOING_DOWN")
      fails == Has("GOING_DOWN") \/ Has("DISABLED")
      done(ok) == IF ifs[wc.i].proto = 4 /\ ~ok THEN uip_reset(ifs[wc.i])
                  ELSE [ifs[wc.i] EXCEPT !.acq = FALSE]
  IN  {do_acquisition([ifs EXCEPT ![wc.i] = done(ok)], AfterIface(ifs, wc)) :
         ok \in (IF off \/ sc.dhcpok THEN {~fails} ELSE {~fails, FALSE})}

\* When all interfaces are done the nic runs, unless it was disabled meanwhile.
LoopAcquire ==
  /\ pc["W"] \in {"acq", "dhcp"} /\ Free
  /\ \E d \in (IF At("W", "dhcp") THEN process_dhcp_loop
                ELSE {do_acquisition(ifs, [c |-> nic.first, i |-> nic.first])}) :
       /\ ifs' = d.s /\ wc' = d.x
       /\ IF d.x.i # 0 THEN Goto("W", "dhcp") /\ UNCHANGED nic
          ELSE IF Has("DISABLED")
          THEN pc' = [Woken(pc, "en") EXCEPT !["W"] = "close"] /\ UNCHANGED nic
          ELSE /\ nic' = [nic EXCEPT !.state = "RUNNING", !.flags = @ \ {"PENDING"}]
               /\ pc' = [Woken(pc, "en") EXCEPT !["W"] = "pkt"]
  /\ UNCHANGED <<sc, lk, l, n, cl, kq, ans>>

\* The packet loop is left when the nic is stopped; the other ways to dev_close
\* come without the mutex.
LoopClose ==
  /\ \/ At("W", "close")
     \/ At("W", "pkt") /\ Free /\ (nic.state # "RUNNING" \/ Has("GOING_DOWN"))
  /\ \E ok \in (IF Has("GOING_DOWN") THEN BOOLEAN ELSE {TRUE}) :
       LET c == IF Has("GOING_DOWN") THEN nic_close(nic, ok) ELSE nic
       IN  LoopTop([c EXCEPT !.flags = @ \ {"GOING_DOWN"}, !.pend = 0],
                   IF Has("EXIT_MAIN_LOOP") THEN pc ELSE Woken(pc, "dis"))
  /\ ifs' = IF Has("GOING_DOWN") THEN ResetUnlessPersistent(ifs) ELSE ifs
  /\ UNCHANGED <<sc, lk, l, n, wc, cl, kq, ans>>

nic_loop == \/ LoopStart \/ LoopOpen \/ LoopAlloc \/ LoopAcquire \/ LoopClose

Enabler(e) == \/ enable_nic_thread(e) \/ CancelledWaiter(e)
              \/ Timeout(e, "start") \/ Timeout(e, "en")

(***************************************************************************)
(* The specification.                                                       *)
(***************************************************************************)
Init ==
  /\ sc \in Scenes
  /\ nic = NoNic /\ ifs = <<>>
  /\ pc = [t \in Threads |-> IF t \in {"L", "M"} THEN "idle" ELSE "none"]
  /\ lk = None
  /\ l = [r |-> 0, i |-> 0] /\ n = [m |-> 0, i |-> 0] /\ wc = [i |-> 0, c |-> 0]
  /\ cl = [r \in DOMAIN sc.reqs |-> "todo"]
  /\ kq = DOMAIN sc.msgs
  /\ ans = [m \in DOMAIN sc.msgs |-> <<>>]

Next == \/ Listener \/ NetlinkListener \/ PathThread \/ nic_loop
        \/ \E e \in Enablers : Enabler(e)
        \/ StrayThread

\* The threads run; iscsid tries each request again until it is answered.
Fairness ==
  /\ WF_vars(Listener) /\ WF_vars(PathThread) /\ WF_vars(nic_loop)
  /\ WF_vars(NlExitLoop \/ NlRemove \/ nic_disable("M") \/ Timeout("M", "dis"))
  /\ \A e \in Enablers : WF_vars(Enabler(e))

Spec == Init /\ [][Next]_vars /\ Fairness

(***************************************************************************)
(* Properties.                                                              *)
(***************************************************************************)

\* A cancelled enable thread died holding nic_mutex: a request passed the check
\* for a pending enable, the thread of the one before began to wait, and was
\* cancelled for a new one.
Orphaned == nic.mutex # None /\ pc[nic.mutex] = "dead"

Died == \A t \in Threads : pc[t] = "dead"

\* iscsid is told that the device is up only when it is: the device is open and
\* nic_loop in its packet loop, and if the nic has one interface it was acquired with
\* the configuration asked for.  (The answer after too many pending tries is
\* another one, ParsePending; a DHCP server that does not answer may go unnoticed.)
UpIsServed ==
  [][\A r \in DOMAIN cl :
       (cl[r] = "todo" /\ cl'[r] = "up" /\ pc["L"] \in {"set", "enable"} /\ sc.dhcpok) =>
         /\ nic.open /\ At("W", "pkt")
         /\ Len(ifs) = 1 => SameConfig(ifs[l.i]) /\ ~ifs[l.i].acq]_vars

\* Without faults every request of iscsid is answered for good: no wakeup between
\* the enable thread, nic_loop and the threads that disable the nic is lost.  The
\* exception is Orphaned, and only a request that comes while an enable thread
\* starts, or after the limit of pending tries, leads to it (iscsid_ipc.c cancels
\* that thread in pthread_cond_timedwait, and it keeps nic_mutex).
Served == <>(sc.fine => (\A r \in DOMAIN cl : cl[r] # "todo") \/ (~sc.patient /\ Orphaned))

\* if_down ends, and with it the nic is gone, again and again: no thread of the
\* nic keeps the netlink listener waiting.  The exceptions: nic_mutex was lost as
\* above, for which the listener waits for ever with nic_list_mutex held; and an
\* earlier nic_remove freed a nic under a thread that still ran, and the daemon
\* died of it.
IfDownEnds == At("M", "down") ~> (At("M", "idle") \/ (~sc.patient /\ Orphaned) \/ Died)
=============================================================================
