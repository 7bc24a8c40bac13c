# A TLA+ model of open-iscsi

open-iscsi is the iSCSI initiator of Linux: a daemon, `iscsid`, that logs in to
targets, hands the established connections to the kernel and recovers them; a
command line tool, `iscsiadm`, that asks the daemon over a Unix socket, keeps a
record database and talks to cards; and `iscsiuio`, a helper with its own network
stack for some offload cards.  The modules here model the control logic of all
three: what is scheduled, who is answered, which timers run, what the kernel, the
database and the devices hold.  They are translated from the C sources;
`PROJECT.json` gives for each definition the lines it stands for.

## 1. Inventory

| Part | Source | State | Hard because | Module |
|---|---|---|---|---|
| Scheduler | `usr/actor.c` | `pend_list`, `ready_list`, `alarm(2)` | callbacks re-arm and delete timers while the lists are walked; one lost alarm stops the daemon | `Actor` |
| Session | `usr/initiator.c`, `usr/netlink.c` | connection state, recovery stage, timers, context pool, pending requests | requests, errors, events and timers arrive in any order and in the middle of kernel calls | `Session` |
| Login | `usr/login.c`, `usr/auth.c` | stage, keys, CHAP state | two-sided negotiation | `Login`, `Auth` |
| Daemon | `usr/event_poll.c`, `usr/iscsid.c`, `usr/mgmt_ipc.c` | shutdown list, children, open requests | wakeups, reaping, shutdown while requests wait | `Daemon` |
| Clients | `usr/session_mgmt.c`, `usr/iscsid_req.c`, `usr/iscsiadm.c` | outstanding requests | check then act against the daemon | `Daemon` |
| Cards | `usr/iscsiadm.c`, `usr/iface.c`, `usr/host.c`, `usr/flashnode.c`, `usr/netlink.c` | iface records, CHAP table, flash nodes, pings | two passes that must agree; events of other processes | `Host` |
| Database | `usr/idbm.c`, `usr/iface.c`, `libopeniscsiusr/` | lock file, records, links | several processes, crashes | `Idbm`, `RecordStore` |
| Discovery | `usr/discovery.c`, `usr/discoveryd.c` | discovery session, iSNS registration | retries, redirects, refresh timers, notifications | `SendTargets`, `Isns`, `Disc` |
| iscsiuio control | `iscsiuio/src/unix/` | nic, interfaces, threads | threads, condition variables, cancellation | `Nic` |
| iscsiuio drivers | `iscsiuio/src/unix/libs/` | resources, packets, transmit queue | mutexes unlocked by interrupts, partial failures | `Uio` |
| iscsiuio stack | `iscsiuio/src/uip/`, `iscsiuio/src/apps/dhcpc/` | ARP and neighbour tables, leases | late, lost and repeated packets | `Stack`, `Arp` |

How the parts interact: `event_loop` runs `actor_poll`, sleeps in `poll`, then reads
the netlink and the management socket.  A handler runs to its end, but each kernel
call it makes reads the netlink socket until its own answer comes, and queues the
events it finds on the way.  `iscsiadm` reads the database, counts the sessions in
sysfs and sends one request per login or logout; discovery children of `iscsid` do
the same.  For cards of `iscsiuio`, `iscsid` asks it to bring an interface up, and
the kernel asks it for the path to a target.

Three modules compose parts:

- `Admin` puts `Daemon` (commands that ask `iscsid`) beside `Host` (commands that
  use the netlink socket themselves);
- `Disc` puts the two kinds of discovery children side by side;
- `Uiod` puts `Uio` beside `Stack`, which extends `Arp`.

The parts of one such pair share no state in the code, so a behaviour of the
composition has one of them and the other one idle.  `Login` extends `Auth` and
drives it.  `Session` uses the outcomes of `Login`, and `Daemon` uses what `Session`
promises: a login and a logout are answered some time (a login that is redirected for
ever is not, and `Daemon` does not have that one).

## 2. Modules

One `MC` module per run gives the scenes, records and setups for TLC.  The theorems are in
`Clocks_proofs` (of `Actor`, `Isns` and `Arp`), `Login_proofs`, `Daemon_proofs`, `Host_proofs` and, of
`Session`, in `SessionTimers_proofs` and `SessionRequests_proofs`, which rest on the lemmas of
`Session_proofs` and `SessionSteps_proofs`.

### Actor

One actor per `actor_t`; `state`, `pend_list`, `ready_list` are the fields and
lists of the code.  Time is relative: `left[a]` is what `actor_time_left` returns
and `alarm` counts down to SIGALRM.  `pc` says where `event_loop` is.  Callbacks
and handlers may make any scheduling call, `MaxOps` in all; `ActorInit` and
`ActorTimer` are only called on actors that are on no list, which is what their
callers must ensure (`Session` checks that for the ping timer).  A failing
`clock_gettime` and an error of `read` on the signalfd are not modelled.

### Session

One record `s` holds the session of iscsid (connection state, `r_stage`,
`reopen_cnt`, the three request pointers, the timers, the context pool with its
two lists), the kernel's session (`k`), the netlink socket (`nl`), the management
requests and `setup`: the transport, the calls that may fail, the replies of the
target, the faults.  Every function of `initiator.c` is an operator from the
record to the next one, with the set `f` of calls that fail during this
invocation; an action applies one of them.  Ghost fields: `stale` (an event of an
earlier connection), `dropped`, `zombie`, `relinked`.

- Timers have no durations: an armed timer may fire between any two handlers.
  `late` becomes true when `initial_login_retry_max * login_timeout` has passed.
- `reopen_cnt` saturates at `MaxCnt`.
- The netlink socket is read when `ready_list` has drained; a request is read when
  at most one event was read before it.  `actor_schedule_head` is modelled where
  the next context is chosen.
- The kernel queues events between handlers; within a handler every kernel call
  reads all that is queued (`KipcCall`).
- Login replies are the outcomes `iscsi_recv_login_rsp` tells apart, PDUs the
  cases of `session_conn_recv_pdu`.  A card that offloads the login passes no PDUs.
- `R_STAGE_SESSION_CLEANUP` and `LOGOUT_REQUESTED` are never set by any code.
  `rec->session.multiple`, `noop_out_interval` 0 with userspace pings, and more than
  one connection (`ISCSI_CONN_MAX` is 1) are left out.

`Supervised`, `NoStaleEvent` and `KernelAgrees` are stated for software sessions: the
code deletes the login timer of an offloaded login and applies its notices in any
state (section 6).

### Auth and Login

`Auth` has one operator per `acl_` function of the initiator role; each takes the
client (`struct iscsi_acl`) to the next one.  `Login` drives it: `Begin` sets the
parameters up again, configures the client and sends the first request;
`LoginRsp` processes one response (header checks, text, `acl_recv_begin` to
`acl_recv_end`, stage) and sends the next request, in one action as in
`iscsi_recv_login_rsp` and in the loop of `iscsi_login`.  `conn`, `acl`, `ctx` and `irr` are
the connection, the client, the login context and `irrelevant_keys_bitmap`; `pdu` is
the request on the wire; `g` is history: how often keys were offered, whether we
answered the target's challenge and it answered ours, the length it declared.

- A received key is one of the values the code tells apart; digests are right,
  computed with our own secret, wrong, of a wrong length or unreadable.
- Lengths are the numbers 0 to 6 in the order of the source's limits.
- Keys whose values nothing depends on (aliases, tags, times, the Boolean session
  keys) are left out, except that a discovery session has to answer some of them.
- The target may send anything, in any order.

### Idbm and RecordStore

The records of one target: node records are files named by portal and iface (or by
the portal alone, in the old style), discovery records directories with links, iface
records files.  A command of `iscsiadm` or of the library is a sequence of calls,
`prog[p]`; a step takes the first one off and puts the calls that one makes in its
place, so that commands interleave, and die, between any two calls on the file
system.  A file that is open for writing is torn until it is closed.  The content of
a record is two parameters and its source; parsing is whether it is whole.

`RecordStore` is what the database promises: a command changes one record at a time,
and an update changes the one parameter it names.  `Idbm` implements it
(`ImplementsStore`), with `StoreOf` as the refinement mapping: a torn record counts as
what the process that writes it has in memory, and the promise ends (`trusted`) when
a process dies with the lock.  A process waits for the lock up to 30 seconds, which
is taken to be longer than any command holds it, so only a lock whose maker died is
waited for to the end.

### Daemon, Host and Admin

`Daemon`: `iscsid` from its start through `event_loop` (accept, handle, reap, shutdown)
to its exit; its children (discovery, and the sync of sessions an earlier `iscsid`
left); clients as sequences of calls as in `Idbm`: login and logout of many portals,
by startup mode, without waiting, of firmware targets, statistics, queries and stop.
A connection is a record `conn[q]` with its command and answer; a session is what
`Session` promises.  A client may be killed, and a SIGTERM may come at any time.  A client
gives up after a timeout where the code has one (stop, configuration, statistics, sync) and waits for ever
where it has none (login, logout, offloaded SendTargets).

`Host`: two processes of `iscsiadm` on one card.  `ApplyCount` and `ApplyFill` are the two
passes of `iface_apply_net_config`: how many entries a record needs
(`iface_get_param_count`) and which are filled (`iface_build_net_config`), with every
parameter of both and with memory that runs out.  `UpdateStart` to `UpdateOwn` are the
update of an iface record with the settings that others share; the `Chap`, `Flash` and
`Ping` actions are the commands of host mode and ping, a listing or a ping step by
step.  A value is one of those the code tells apart: a switch, a good or bad address
of either family, a number or nothing.

### SendTargets, Isns and Disc

`SendTargets`: one discovery session, through a socket, through the kernel or logged in
by the card, from `discovery_sendtargets` of the polling child to the logins and logouts
of `update_sessions`.  A line of text is two halves, so that a response may end inside a
line; `d.k` is what the kernel holds.  The target sends the same text in all connections of
one discovery, and lists of portals are compared as sets: `rec_list` is not emptied before a
reconnect (`usr/discovery.c:1622-1632`), so it may name a portal twice.  Failures are limited by
`nf`, redirects are not.  `Isns`: the child that registers with a server,
the refresh by timer or query, notifications, the poll, and another process that
registers and deregisters the same node.  The library open-isns and the server are
external.

### Nic

The threads of `iscsiuio` for one nic: the listener, two enable threads, the netlink
listener, the path request thread and `nic_loop`.  A critical section is one step; `w_x`
in `pc` is a thread that waits on a condition variable, `r_x` one that was woken and
`t_x` one that timed out.  Cancelling a thread in a condition wait leaves the mutex
with it (`Orphaned`), as in the code, and `nic_remove` frees the nic under threads that it has
cancelled but not joined (`stray`), which then do no harm or end the daemon (`Died`).  In the
`patient` scenes `iscsid` lets a second pass before it asks again, so that no thread is cancelled
in its wait.

### Uio, Arp, Stack and Uiod

`Uio`: open, transmit, receive, interrupt and close of bnx2, bnx2x and qedi, with the
packet pool and `tx_packet_queue`; open fails after any step and its error path gives back
what the code gives back.  The interrupt of a completion may be lost (`mute`).  `Arp`: the table
with its wrapping 8 bit clock; an address of which a half is 0 (`HalfZero`, as 10.1.0.0) is never
found when the table is updated and gets another entry each time.  `Stack`: DHCP,
router advertisements, neighbour discovery, DHCPv6, path requests and pings of one
interface; the network delivers any frame of a scene at any time and again.  An echo reply while
no ping runs makes `process_icmp_packet` follow a NULL pointer (`crashed`), a router advertisement
with an option of length 0 keeps `ipv6_icmp_handle_router_adv` in its loop with `nic_mutex` held
(`N` is `stuck`).  The "other
configuration" flag of router advertisements, checksums and header layout are left out.

## 3. Runs

| Run | Bounds | Checks |
|---|---|---|
| `actor` | 3 actors, delays up to 2 s, 5 calls, fairness | `ListsMatchStates`, `PendSorted`, `AlarmCoversHead`, `PendingGetsRun` |
| `session` | 2 requests, pool of 3, two software sessions with errors and failing calls; 3 requests: one with restarts of `iscsid` and syncs, and an offloaded login | `AnsweredOnce`, `QtaskHeld`, `Supervised`, `NoStaleEvent`, `KernelAgrees`, `AnswersAreTrue`, `CleansUp` |
| `session_faults` | 2 requests, host removal, crash, failing teardown calls | `PoolAccounted`, `TimerDiscipline` |
| `session_live` | pool of 4, fairness | `RequestsAnswered`, `InitialLoginDeadline` |
| `login` | 9 records, 2 logins in a row, `MaxRecvEnd` 3, fairness | `SecurityStageCompletes`, `OfferedRight`, `AgreedLimitsHold`, `SecurityEnds` |
| `idbm` | 2 processes, any two of 17 commands, 2 databases, 1 crash, fairness | `LockGuards`, `ImplementsStore`, `EveryCommandEnds` |
| `admin` | 12 scenes of the daemon (3 clients, 2 discovery children, 4 records, 3 sessions) and those of the card, fairness | `StopMeansStopped`, `OneSessionPerRecord`, `ShutdownEnds`; `CountMatchesFill`, `CardTruth`, `FlashKept`; `CommandsEnd` of both |
| `nic` | 19 scenes, fairness | `UpIsServed`, `Served`, `IfDownEnds` |
| `disc` | 6 SendTargets and 9 iSNS scenes, fairness | `SentIsFound`, `RefreshSupervised`, `DiscoveryEnds`, `Follows` |
| `uiod` | scenes of three drivers and of the stack, 3 frames received, fairness | `DeviceAccounted`, `AnswersTrue`, `ArpFresh`, `Settles` |

What they show, beyond their names:

- `session`, `session_faults`, `session_live`: whatever order requests, errors, events
  and timers come in, a request is answered once and truthfully, no session waits
  without a timer, no event of an old connection is applied to a new one, and
  iscsid and the kernel agree about what exists.  Every request is answered and the
  initial login is not tried again after its time, except that redirects are followed without
  end (`Redirects`).
- `login`: the security stage ends only when both sides have authenticated as
  configured, and what was agreed is not exceeded by a later response.
- `idbm`: no process reads half a record, no update is lost, and every command ends
  also after another one died with the lock.
- `admin`: an answered stop means that no child can log in any more; racing logins
  make no second session; counting and filling of the settings of a card agree.
- `nic`: when the listener tells `iscsid` "up" for a device it has configured, the device is open and
  `nic_loop` in its packet loop, and a single interface has the configuration asked for, provided
  that a DHCP server answers.  The "up" after too many pending tries is another answer and not
  covered.  Without faults every request is answered, unless `nic_mutex` is lost with a thread that
  was cancelled in its wait, which a patient `iscsid` avoids.  Every if_down ends, unless that
  happens or the daemon dies because a cancelled thread outlived the nic it uses.
- `disc`: what a target sends completely is found, and no text of a broken exchange is
  taken for part of a later one; retries end, redirects need not; the refresh of a
  registration with a period is carried on by exactly one one-shot timer or query, or by the
  periodic timer of a child that polls.  A child that polls follows the server whatever is lost;
  one that relies on notifications does if none is lost, no query fails and no interface has an
  initiator name of its own (`CanFollow`, which also asks for a period to keep).
- `uiod`: a failed open gives back what it took (up to what the property names), no
  packet is lost, a ping or a path is answered only by what the network said.  What is not
  compared by the code is not claimed: the sender of an echo reply, and the hardware
  address of a host that is in the table already.  `Settles` has four exceptions: an interrupt
  is lost and none follows, a thread uses a device that was closed, an echo reply comes
  without a ping, and a router sends an option of length 0.

The bounds.  Two requests are enough for a login and a logout, or a sync and a logout,
to compete for one session; the third one adds a later login.  A pool of three
contexts is small enough to overflow and large enough for a poll, an event and a
logout timer.  `RetryMax`, `ReopenMax`, `MaxCnt`, `MaxTries` and the other counters are
such that the limits are passed.  The sets of failing calls are split over the setups
because their subsets multiply.

The records of `login` are mutual, one-way and no authentication, an incoming name
without a secret, no usable digest, every kind of digest preference, lengths out
of range, and the transports that change the offer.  A handshake takes three
responses, so with `MaxRecvEnd` 3 (10 in the code) it fits and the limit is still
passed.

A record of `idbm` is one of two ifaces on one portal, found by two kinds of discovery;
that gives records in both styles, links that are shared, and two updates of the same
record.  The scenes of the other runs each put one kind of trouble (a failure, a
second request, a lost notice) beside the normal course; in `Host` two answers are
needed for a listing (`NumEntries` 2) and three records cover shared and separate
settings.  The clock of `Arp` wraps at 4 with entries that live 2 ticks (256 and
`UIP_ARP_MAXAGE`, 30, in the code).  In `uiod` the table has two entries, so that three received
frames (`MaxRx`) overfill it; one address of a scene of its own has a half that is 0.

Deadlock is checked for `actor`.  All the other systems end: the requests are used up,
the commands are done or the daemon has exited.

### Violations

Two runs show where the code and what is written about it disagree; each checks one
property and its counterexample is short.

| Run | Property | In short |
|---|---|---|
| `session_stuck` | `AnsweredOnce` | a failed teardown leaves `logout_qtask` dangling, and the request is answered again after it was freed |
| `host_vector` | `VectorSuffices` | a record without a port is given one between counting and filling |

More disagreements came up and have no run:

- `session_reopen_max` does not count failures in the login phase (`usr/initiator.c:768`
  against `etc/iscsid.conf:316`); the test of `iscsi_send_logout` at `usr/initiator.c:2149` is
  inverted; a session whose authentication cannot be set up is used all the same
  (`usr/initiator.c:398` against `usr/initiator_common.c:64`).
- `iscsiadm -k` is said to "immediately stop all iscsid operations" and not to log out
  (`doc/iscsiadm.8.template:297`), but discovery children log out when they end
  (`usr/discoveryd.c:78-98`).
- A target that hangs up after its answer makes `discovery.c:1707` report an error, and the
  polling child then logs out of everything it had found.
- A firmware discovery that finds nothing deletes the records of other sources too: the
  comparison with "if we are not from the same discovery source ignore it"
  (`usr/iscsiadm.c:1127`) is inside the loop over what was found.  Two processes that waited
  30 seconds for a dead one's lock both go on and overwrite each other
  (`usr/idbm.c:1566-1570`).
- `kget_chap`, `kdelete_chap` and `kget_host_stats` return byte counts, so that `iscsiadm`
  exits with another status than 0 on success (`doc/iscsiadm.8.template:538`); applying
  settings to host 0 is reported as success and not done (`usr/iscsiadm.c:1443-1448`).
- An ARP reply for a known address keeps the old hardware address and makes the entry young again
  (`uip_arp.c:139-146`), though the comment at 128 speaks of "an entry to update" and the one at 190
  says that the cache is "filled in with the values from the ARP reply".
- A redirect is followed without a look at the time, though `etc/iscsid.conf:163-167` calls
  `initial_login_retry_max` times `login_timeout` "the maximum amount of time iscsid will try to
  establish the initial login".  A discovery does not count redirects as retries either
  (`usr/discovery.c:1478-1491`).
- "get unique ping id" (`usr/netlink.c:1119`): two processes that start in the same second draw the
  same ids (`srand(time(NULL))`, `usr/iscsiadm.c:3585`).
- `update_sessions` passes over every record when `iname` is not `ic_source_name`
  (`usr/discoveryd.c:161`, against "if set we only update session for that initiator" at 129).
- "Only check those entries that are actually in use" (`uip_arp.c:134`): the test also passes over an
  address of which one half is 0.
- A neighbour solicitation without a source option is answered for the address it was sent to,
  be it a multicast address (`ipv6.c:1067-1083`; "just use whatever it sent to us").
- A permanent redirect never updates the failback address; host removal during a
  login or sync frees the session without an answer, and so does the end of an unbind
  that `iscsid` had asked for before it was restarted and that comes while the new one
  syncs the session; the login timer
  of an offloaded login is deleted before errors are left to it;
  a stale notice of one is accepted in any state; `irrelevant_keys_bitmap` is not cleared
  for a second login; partial responses of the operational stage are not counted.

## 4. Fairness

An assumption is mostly written as "if its condition holds for ever, the step is taken
again and again".

- `Actor`: the process runs (`Loop`), the clock advances and the kernel delivers the
  signal.  Other descriptors becoming ready is not assumed.
- `Session`: `event_loop` handles what is on `ready_list` and in the socket, an armed
  timer expires, the kernel reports the unbind it accepted, and the time limit of the
  initial login passes.  A login timer expires or is armed anew (`RearmsLoginTimer`); one that
  is armed anew again and again, as by redirects, need not fire.  The target need not answer
  and the network need not work.
- `Login`: while a response is awaited one comes or the wait ends, by the login timer
  of iscsid or the poll timeout of `iscsi_login`.
- `Idbm`, `Host`, `SendTargets`: a process that can go on does; a killed one does not.
- `Daemon`: iscsid and its children run, a connection that waits is accepted, clients run,
  and a session that was asked to log in or out gets there or fails, which is what
  `session_live` shows of `Session` unless the login is redirected for ever.
- `Isns`: the event loop runs, timers expire and queries are answered or time out.
- `Nic`: threads run and waits with a timeout end; `iscsid` asks again.
- `Uio`, `Stack`: the hardware sends the frames it was told of, an interrupt that was raised is
  handled (it need not be raised), and threads run.  The network may stay silent.

## 5. Proofs

`Clocks_proofs`, of `Actor`, for every set of actors, every `MaxDelay` and `MaxOps` (`MaxDelayAssumption`,
`MaxOpsAssumption`):

- `ListsCorrect`: `Spec => [](TypeOK /\ ListsMatchStates)`.
- `PendListSorted`: `Spec => []PendSorted`.
- `NoLostWakeup`: `Spec => []AlarmCoversHead`.

`ListsMatchStates` with `TypeOK` is inductive once each list is known to hold no actor
twice, which is part of it; sortedness needs it because an insertion compares the new
actor with entries whose `left` must not change under it; the alarm needs both, since
the head after a removal or an insertion is the earliest only in a sorted list.  The
lemmas say what `Without` and `InsertedAt` do to membership, distinctness and order.

`SessionTimers_proofs` and `SessionRequests_proofs`, for every set of requests, every pool size, every limit
and every set of setups (`ReqAssumption` and the other assumptions of `Session`), any number of
faults, failures and restarts:

- `PoolIsAccounted`: `Spec => []PoolAccounted`, type correctness included, of software and offloaded
  sessions and whatever calls fail.
- `TimersAreKept`: `Spec /\ ~ Offload /\ Erl = 0 => []TimerDiscipline`.
- `RequestsAnsweredOnce`, `RequestsAreHeld`, `EventsAreOfTheConnection`, `KernelFollows`,
  `AnswersTellTheTruth`: `Spec /\ Reliable` gives `[]AnsweredOnce`, `[]QtaskHeld`, `[]NoStaleEvent`,
  `[]KernelAgrees` and the action property `AnswersAreTrue`.
- `WaitsEnd`: `Spec /\ Reliable /\ Unbinds => []Supervised`.
- `FailuresLeaveNothing`: `Spec /\ Reliable /\ Forks => CleansUp`.

The hypotheses are about the setup that a behaviour starts with, and the code needs them.
`Reliable` is a software session whose `stop_conn`, `destroy_conn`, `destroy_session`, `set_params` and
`login_begin` do not fail; connecting, creating, binding, starting and sending may.  When a teardown
call fails, the session stays with a pointer to a request that was answered (run `session_stuck`
shows where that ends); when the parameters of a new connection are refused during recovery,
`iscsi_login_eh` does not stop it, and it stays bound while `iscsid` waits for its successor.
`Unbinds` and `Forks` say that the kernel takes requests to unbind and that the scan of a new session
starts: without the first a logout has no event to wait for, and without the second a login fails
with its session up.  With a positive error recovery level `__conn_error_handle` leaves the
ping timer armed, and in an offloaded session a late `LOGIN_FREE` frees the session with its login
timer armed; so `TimersAreKept` is about the others.

Each proof follows the structure of the code: a lemma per helper, then per handler, then per action.
`Session_proofs` has the lists, the invariants and the kernel's events, `SessionTimers_proofs` the
pool and the timers, `SessionSteps_proofs` the handlers of contexts and timers, and
`SessionRequests_proofs` those of requests and the theorems that need all of them.  None of the
properties is inductive.  For the pool, `Good` adds that no list names a context twice and where
logout timers and polls can exist at all, since a context is put back by whoever takes it off a
list.  For the timers, `Pinged` (with `Calm`) ties the ping timer to the states in which it runs.
For the requests, `Inv` is a case distinction on the phase of the session (waiting for a transport,
logging in, up, going down), and says of each phase who waits for which request, what the kernel
holds, which polls, timers and events can be around and of which connection they are; `Sup` adds who
will end a wait.  A handler may break it on its way, so each is shown to re-establish it as a whole
(`Settled`), to answer truthfully and to leave nothing behind; an event read in the middle of a
kernel call is only queued, which the lemmas on `KipcCall` use.

`Daemon_proofs`, for every set of clients, children, records, found targets and scripts, and every
number of sessions, requests and places in the backlog (`RecsAssumption`: finitely many records,
`nr_sessions` is a number; `SyncAssumption`: the syncing child is not a discovery child):

- `StopIsTheEnd`: `Spec => []StopMeansStopped`.
- `OneSession`: `ModestSetups /\ Spec => []OneSessionPerRecord`, type correctness and the one owner of each
  connection included.

`Holders` says that a connection of `iscsid` is held by one thing at a time (backlog, reader, one field of one
session, shutdown), that only the shutdown holds a stop request, and that a success for one is
written after the loop only: the other answers, some of which come from sessions and are "ok" too,
can then not be answers to a stop.  `Kids` says that every discovery child that runs is in the list that
`shutdown_wait_pids` empties before the loop ends.  For the second theorem `Single` states the property for
two entries of the session table; it is kept because a new entry passes `session_is_running`
unless the request says `multiple`, so the invariant also covers the requests under way (`Asking`), a
retried login being held with the record it asks for, and the calls that clients and children are still
going to make (`Progs`, `Proper`).  `ModestSetups` is about the commands that clients start with: none
asks for another session of a record that allows one, as `iscsiadm -m session --op new` does whatever
`nr_sessions` says; what these commands call later is proved to follow.  The run evaluates it for its
scenes (`MCModest`).

`Login_proofs`, for every set of records, digests, lengths, key sets and failing calls, every
answer of a target and any number of logins in a row (the assumptions of `Auth` and `Login`):

- `AuthenticationIsComplete`: `Spec => []SecurityStageCompletes`.
- `OffersAreRight`: `Spec => []OfferedRight`.
- `LimitsAreKept`: `Spec => []AgreedLimitsHold`, type correctness included.

The inductive invariant is `LoginInv`.  That the stage was left rightly depends on what the
client's record claims while the stage lasts: `Underway` says that the record is in one of four
shapes between two responses (`Handshake`) and that its claims, our answer sent
(`ClaimsAnswered`) and the target's proof checked (`ClaimsProved`), are true of the messages
exchanged, which the ghost `g` records.  `ResponseKeeps` shows that one call of `acl_recv_begin`
and `acl_recv_end` keeps this for every key a target may send, by way of one lemma for
each phase (`Begun`, `Negotiated`, `Answered`, `Challenged`, `Authenticated`, `Settled`).  For the
offers the invariant says that nothing was offered before the operational stage
(`NotOffered`) and everything once in it (`OfferedOnce`); for the limits it extends the property to
logins that are not finished (`Limited`), since `xmit` is lowered by one response and used after
a later one.

`Clocks_proofs`, of `Isns`, for every set of scenes (interfaces, faults, number of changes and of other
processes' interventions): `RefreshIsSupervised`: `[]RefreshSupervised`.  `RefreshInv` adds the moments at
which no refresh may exist at all: before the first registration, while one is being made
again and after the end; a registration installs one refresh only if none was left.  Periodic
timers are left out of that: `isns_clear_refresh_list` frees the entries before a child registers
again and leaves these timers, so a child that polls may have several.

`Host_proofs`, for every set of scenes (records, CHAP table, flash nodes and any two
commands) and every `NumEntries` (`HostAssumption`: the table has a last index, a process starts in
some second and nothing is under way at the start):

- `CardIsToldTrue`: `HostSpec => []CardTruth`.
- `FlashNodesKept`: `HostSpec => FlashKept`.

The inductive invariant is `HostInv`.  For the listing it says that everything before
`idx` was printed and nothing behind it (`ListedOnce`, `ListedAll`), since a finished listing
alone says nothing about one that is under way; `AnswerIsPrefix` shows that an answer has no
gap and that an answer that is not full is the last one, by counting the entries below the
least one that is missing.  For pings it says that a completion with status 0 that still
lies in a socket has the id of a ping that was answered (`EventsTrue`); the id is the second in
which the process started and the number of the ping, so it need not be the process's own.  Steps that neither list
nor ping are dealt with once (`QuietStep`).

`Clocks_proofs`, of `Arp`, for every table size, address, age limit and range of the clock above it
(`ArpAssumption`): `ArpStaysFresh`: `ArpSpec => []ArpFresh`.  The invariant adds that the
difference of the wrapping clock and the stored time is at least as long as its address has been
quiet, and below `MaxAge` (`AgeIsReal`); it holds because an entry is dropped before the clock can come round to it.

Only model-checked:

- liveness (out of the prover's reach) and `InitialLoginDeadline`;
- the properties of `Session` listed above for offloaded sessions and failing teardown calls, as far as
  they are stated for them;
- `LockGuards` and the refinement of `RecordStore`: they rest on the balance of the lock and unlock calls in
  what is left of each command, a sequence put together from the calls of loops over files, and that
  balance needs induction over sequences;
- `UpIsServed`, because `Nic` uses recursive operators, with which the prover has no SMT backend;
- `CountMatchesFill`: two sums over the parameters of the records of a host agree, which needs induction over
  these sets;
- `SentIsFound`, `DeviceAccounted` and `AnswersTrue`.

## 6. Not modelled

- Option parsing, output and record printing of `iscsiadm`; `iscsistart`.
- Formats: PDU headers, netlink attributes, sysfs paths, DHCP options, checksums.  What
  reading them yields is an input of the models.
- Firmware tables (`utils/fwparam_ibft`), `utils/md5.c`, `sha1`, string and list helpers: pure
  functions without control that a property here depends on.
- The TCP of uIP: no part of `iscsiuio` opens or accepts a TCP connection.  The command
  line and logging of `iscsiuio`.
- The kernel, cards, DHCP and iSNS servers and the library open-isns are external; they are
  modelled by what the code lets them do.
- More than one connection per session, which the code does not support.
- The scan of a new session and the answer after it are one step.  `idbm_delete_node` leaves without
  unlocking when it cannot read the directory of a portal (`usr/idbm.c:2854-2855`); a failing
  `scandir` is not modelled.
