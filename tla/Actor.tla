-------------------------------- MODULE Actor --------------------------------
(***************************************************************************)
(* The cooperative scheduler of iscsid (usr/actor.c) and the part of the   *)
(* daemon's main loop that drives it (event_loop in usr/event_poll.c).     *)
(*                                                                         *)
(* An actor is a callback that is either put on ready_list, to be run by   *)
(* the current or the next actor_poll(), or parked on pend_list until its  *)
(* ttschedule second.  While the loop sleeps in poll() the only thing that *)
(* brings it back for a pending actor is the SIGALRM of alarm(2), read     *)
(* through a signalfd, so the scheduler must keep alarm(2) no later than   *)
(* the head of pend_list at all times.                                     *)
(*                                                                         *)
(* Time is relative: left[a] is what actor_time_left(a, now) returns and   *)
(* alarm is the number of seconds until SIGALRM.                           *)
(***************************************************************************)
EXTENDS Integers, Sequences

CONSTANTS
    Actors,     \* the actor_t structures of the daemon
    MaxDelay,   \* longest delay_secs a caller asks for
    MaxOps      \* bound on the scheduling calls made by callbacks and handlers

ASSUME MaxDelayAssumption == MaxDelay \in Nat \ {0}
ASSUME MaxOpsAssumption == MaxOps \in Nat

VARIABLES
    state,      \* actor_t.state
    left,       \* seconds until actor_t.ttschedule, 0 once it has passed
    pend_list,
    ready_list,
    alarm,      \* seconds until SIGALRM, NoAlarm when alarm(0) is in force
    sigalrm,    \* SIGALRM pending in the signalfd
    pc,         \* where event_loop() is
    ops         \* scheduling calls made so far

vars == <<state, left, pend_list, ready_list, alarm, sigalrm, pc, ops>>

NoAlarm == -1

ActorState == {"INVALID", "NOTSCHEDULED", "SCHEDULED", "WAITING"}

(* "top": before actor_poll(); "run": in its while loop; "callback": inside  *)
(* thread->callback(); "sleep": in poll(); "handle", "handle_sig": in the    *)
(* descriptor handlers, without and with POLL_ALARM among the revents.       *)
LoopState == {"top", "run", "callback", "sleep", "handle", "handle_sig"}

TypeOK ==
    /\ state \in [Actors -> ActorState]
    /\ left \in [Actors -> 0 .. MaxDelay]
    /\ pend_list \in Seq(Actors)
    /\ ready_list \in Seq(Actors)
    /\ alarm \in {NoAlarm} \cup 0 .. MaxDelay
    /\ sigalrm \in BOOLEAN
    /\ pc \in LoopState
    /\ ops \in 0 .. MaxOps

(***************************************************************************)
(* List primitives (list.h), defined position by position.                 *)
(***************************************************************************)
Elems(s) == {s[i] : i \in DOMAIN s}

\* list_del: s without the actor a, which occurs in it once.
Without(s, a) ==
    IF a \notin Elems(s) THEN s
    ELSE LET p == CHOOSE i \in DOMAIN s : s[i] = a
         IN  [i \in 1 .. Len(s) - 1 |-> IF i < p THEN s[i] ELSE s[i + 1]]

\* __list_add: a put at position p of s.
InsertedAt(s, p, a) ==
    [i \in 1 .. Len(s) + 1 |->
        IF i < p THEN s[i] ELSE IF i = p THEN a ELSE s[i - 1]]

\* Broken variant: insertion always at the tail.
BadIsSortedPlace(s, d, p) == p = Len(s) + 1

\* p is the place of a thread due in d seconds on the list s: before the first
\* entry that is due strictly later (time_after), the tail if none is.
IsSortedPlace(s, d, p) ==
    /\ \A i \in 1 .. p - 1 : left[s[i]] <= d
    /\ p <= Len(s) => left[s[p]] > d

(***************************************************************************)
(* Scheduling calls.  They run inside callbacks and descriptor handlers.   *)
(***************************************************************************)
InCaller == pc \in {"callback", "handle", "handle_sig"}

Call == InCaller /\ ops < MaxOps /\ ops' = ops + 1 /\ UNCHANGED <<sigalrm, pc>>

Listed(a) == state[a] \in {"WAITING", "SCHEDULED"}

\* actor_init.  It re-initialises the list links without unlinking, so its
\* callers use it on actors that are on no list.
ActorInit(a) ==
    /\ Call
    /\ ~ Listed(a)
    /\ state' = [state EXCEPT ![a] = "NOTSCHEDULED"]
    /\ UNCHANGED <<left, pend_list, ready_list, alarm>>

\* actor_delete turns alarm(2) off when it empties pend_list.
AlarmAfterDelete(a) ==
    IF Listed(a) /\ Without(pend_list, a) = <<>> THEN NoAlarm ELSE alarm

\* Broken variant: only a WAITING actor is unlinked.
BadActorDelete(a) ==
    /\ Call
    /\ pend_list' = Without(pend_list, a)
    /\ alarm' = AlarmAfterDelete(a)
    /\ state' = [state EXCEPT ![a] = "NOTSCHEDULED"]
    /\ UNCHANGED <<left, ready_list>>

ActorDelete(a) ==
    /\ Call
    /\ pend_list' = Without(pend_list, a)
    /\ ready_list' = Without(ready_list, a)
    /\ alarm' = AlarmAfterDelete(a)
    /\ state' = [state EXCEPT ![a] = "NOTSCHEDULED"]
    /\ UNCHANGED left

\* Broken variant: alarm(2) is set only when the list was empty.
BadInsertOnPendList(p, al, a, d) ==
    \E place \in 1 .. Len(p) + 1 :
        /\ IsSortedPlace(p, d, place)
        /\ pend_list' = InsertedAt(p, place, a)
        /\ alarm' = IF p = <<>> THEN d ELSE al

\* actor_insert_on_pend_list: a joins the list p, which does not hold it, in
\* sort order; alarm(2), so far al, is set anew only when the head changes.
InsertOnPendList(p, al, a, d) ==
    \E place \in 1 .. Len(p) + 1 :
        /\ IsSortedPlace(p, d, place)
        /\ pend_list' = InsertedAt(p, place, a)
        /\ alarm' = IF place = 1 THEN d ELSE al

\* actor_schedule_private for an actor that is WAITING or NOTSCHEDULED, once
\* it has been taken off its list: p, r and al are the two lists and the alarm
\* at that point.
Enlist(p, r, al, a, d, head) ==
    IF d = 0
    THEN /\ state' = [state EXCEPT ![a] = "SCHEDULED"]
         /\ ready_list' = IF head THEN <<a>> \o r ELSE Append(r, a)
         /\ pend_list' = p
         /\ alarm' = al
         /\ UNCHANGED left
    ELSE /\ state' = [state EXCEPT ![a] = "WAITING"]
         /\ left' = [left EXCEPT ![a] = d]
         /\ InsertOnPendList(p, al, a, d)
         /\ ready_list' = r

\* actor_schedule and actor_schedule_head.  A WAITING actor moves to
\* ready_list; one that is SCHEDULED, or was never set up, stays as it is.
ActorSchedule(a, head) ==
    /\ Call
    /\ IF state[a] \in {"WAITING", "NOTSCHEDULED"}
       THEN Enlist(Without(pend_list, a), ready_list, alarm, a, 0, head)
       ELSE UNCHANGED <<state, left, pend_list, ready_list, alarm>>

\* actor_timer: actor_init, then schedule with a delay.
ActorTimer(a, d) ==
    /\ Call
    /\ ~ Listed(a)
    /\ Enlist(pend_list, ready_list, alarm, a, d, FALSE)

\* actor_timer_mod: actor_delete, then schedule with the new delay.
ActorTimerMod(a, d) ==
    /\ Call
    /\ Enlist(Without(pend_list, a), Without(ready_list, a), AlarmAfterDelete(a),
              a, d, FALSE)

(***************************************************************************)
(* The loop.                                                               *)
(***************************************************************************)
\* The first k entries of pend_list are ripe and no other leading ones are.
IsRipePrefix(k) ==
    /\ \A i \in 1 .. k : left[pend_list[i]] = 0
    /\ k < Len(pend_list) => left[pend_list[k + 1]] > 0

\* Broken variant: alarm(2) is not re-armed for the first unripe entry.
BadActorPoll ==
    /\ pc = "top"
    /\ \E k \in 0 .. Len(pend_list) :
        /\ IsRipePrefix(k)
        /\ ready_list' = ready_list \o SubSeq(pend_list, 1, k)
        /\ pend_list' = SubSeq(pend_list, k + 1, Len(pend_list))
        /\ state' = [a \in Actors |->
                        IF \E i \in 1 .. k : a = pend_list[i] THEN "SCHEDULED" ELSE state[a]]
    /\ pc' = "run"
    /\ UNCHANGED <<left, alarm, sigalrm, ops>>

\* actor_poll up to its while loop: move the ripe entries to the tail of
\* ready_list, re-arm the alarm for the first unripe one, or clear it.
ActorPoll ==
    /\ pc = "top"
    /\ \E k \in 0 .. Len(pend_list) :
        /\ IsRipePrefix(k)
        /\ ready_list' = ready_list \o SubSeq(pend_list, 1, k)
        /\ pend_list' = SubSeq(pend_list, k + 1, Len(pend_list))
        /\ state' = [a \in Actors |->
                        IF \E i \in 1 .. k : a = pend_list[i] THEN "SCHEDULED" ELSE state[a]]
        /\ alarm' = IF k < Len(pend_list) THEN left[pend_list[k + 1]] ELSE NoAlarm
    /\ pc' = "run"
    /\ UNCHANGED <<left, sigalrm, ops>>

\* One round of the while loop of actor_poll, up to the callback.
RunReady ==
    /\ pc = "run"
    /\ ready_list # <<>>
    /\ ready_list' = Tail(ready_list)
    /\ state' = [state EXCEPT ![Head(ready_list)] = "NOTSCHEDULED"]
    /\ pc' = "callback"
    /\ UNCHANGED <<left, pend_list, alarm, sigalrm, ops>>

CallbackReturns ==
    /\ pc = "callback"
    /\ pc' = "run"
    /\ UNCHANGED <<state, left, pend_list, ready_list, alarm, sigalrm, ops>>

\* ready_list has drained: actor_poll returns and event_loop enters poll().
EnterPoll ==
    /\ pc = "run"
    /\ ready_list = <<>>
    /\ pc' = "sleep"
    /\ UNCHANGED <<state, left, pend_list, ready_list, alarm, sigalrm, ops>>

\* poll() reports the signalfd, possibly along with other descriptors.
AlarmWakes ==
    /\ pc = "sleep"
    /\ sigalrm
    /\ pc' = "handle_sig"
    /\ UNCHANGED <<state, left, pend_list, ready_list, alarm, sigalrm, ops>>

\* poll() reports only the netlink socket or the management socket, or ends
\* by EINTR or by the REAP_WAKEUP timeout.
OtherWakes ==
    /\ pc = "sleep"
    /\ ~ sigalrm
    /\ pc' = "handle"
    /\ UNCHANGED <<state, left, pend_list, ready_list, alarm, sigalrm, ops>>

\* The handlers are done; the signalfd is read if poll() reported it.
HandlersReturn ==
    /\ pc \in {"handle", "handle_sig"}
    /\ sigalrm' = (sigalrm /\ pc # "handle_sig")
    /\ pc' = "top"
    /\ UNCHANGED <<state, left, pend_list, ready_list, alarm, ops>>

\* A second of CLOCK_MONOTONIC_COARSE passes.  alarm(2) counts from the
\* moment of the call, so SIGALRM comes some time within the second in which
\* the count reaches 0.
Tick ==
    /\ alarm # 0
    /\ alarm' = IF alarm = NoAlarm THEN NoAlarm ELSE alarm - 1
    /\ left' = [a \in Actors |-> IF left[a] > 0 THEN left[a] - 1 ELSE 0]
    /\ UNCHANGED <<state, pend_list, ready_list, sigalrm, pc, ops>>

AlarmFires ==
    /\ alarm = 0
    /\ alarm' = NoAlarm
    /\ sigalrm' = TRUE
    /\ UNCHANGED <<state, left, pend_list, ready_list, pc, ops>>

Init ==
    /\ state = [a \in Actors |-> "INVALID"]
    /\ left = [a \in Actors |-> 0]
    /\ pend_list = <<>>
    /\ ready_list = <<>>
    /\ alarm = NoAlarm
    /\ sigalrm = FALSE
    /\ pc = "top"
    /\ ops = 0

Loop ==
    \/ ActorPoll
    \/ RunReady
    \/ CallbackReturns
    \/ EnterPoll
    \/ AlarmWakes
    \/ HandlersReturn

Next ==
    \/ \E a \in Actors : ActorInit(a) \/ ActorDelete(a)
    \/ \E a \in Actors, head \in BOOLEAN : ActorSchedule(a, head)
    \/ \E a \in Actors, d \in 0 .. MaxDelay : ActorTimer(a, d) \/ ActorTimerMod(a, d)
    \/ Loop
    \/ OtherWakes
    \/ Tick
    \/ AlarmFires

Spec == Init /\ [][Next]_vars

\* The process is scheduled, its clock advances and the kernel delivers its
\* signal; nothing makes another descriptor ready.
Fairness == WF_vars(Loop) /\ WF_vars(Tick) /\ WF_vars(AlarmFires)

FairSpec == Spec /\ Fairness

(***************************************************************************)
(* Properties.                                                             *)
(***************************************************************************)
Distinct(s) == \A i, j \in DOMAIN s : s[i] = s[j] => i = j

Sorted(s, f) == \A i, j \in DOMAIN s : i < j => f[s[i]] <= f[s[j]]

\* The links and the state field agree: an actor is on pend_list exactly when
\* it is WAITING, on ready_list exactly when it is SCHEDULED, and on neither
\* twice (the assert and the "state corrupted" message of actor_poll).
ListsMatchStates ==
    /\ Distinct(pend_list)
    /\ Distinct(ready_list)
    /\ \A a \in Actors : state[a] = "WAITING" <=> a \in Elems(pend_list)
    /\ \A a \in Actors : state[a] = "SCHEDULED" <=> a \in Elems(ready_list)

\* pend_list is in order of ascending run time, which is what lets actor_poll
\* stop at the first unripe entry.
PendSorted == Sorted(pend_list, left)

\* No lost wakeup: from the moment actor_poll has looked at pend_list until it
\* looks again, either SIGALRM is on its way no later than the head is due, or
\* it is already pending in the signalfd.
AlarmCoversHead ==
    pc \in {"run", "callback", "sleep", "handle"} /\ pend_list # <<>> =>
        \/ sigalrm
        \/ alarm # NoAlarm /\ alarm <= left[Head(pend_list)]

\* Once callers stop putting it off (they make at most MaxOps calls), every
\* pending actor leaves pend_list: its delay cannot pass with the loop asleep
\* in poll().
PendingGetsRun == \A a \in Actors : state[a] = "WAITING" ~> state[a] # "WAITING"
==============================================================================
