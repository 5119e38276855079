# A TLA+ development for cppTango

cppTango is the C++ library of the Tango control system. A *device server* is a
process that offers devices (commands, attributes, pipes) over CORBA; clients use
them through proxies, read cached values that a server polls for them, and receive
events over ZMQ. This directory models the parts of the library where several
threads share state or where index arithmetic decides what a client sees, checks
them with TLC on small instances, and proves the central results with TLAPS for
every instance.

Paths below are relative to the repository's `src/` directory (the library), e.g.
`server/pollthread.cpp`. `PROJECT.json` maps every definition to its lines.

## 1. Inventory

| component | state | operations | interacts with | what is hard | what makes it correct |
|---|---|---|---|---|---|
| **Serialisation monitor** `tango_monitor.h`, `auto_tango_monitor.cpp` | owner, nesting counter, condition variable of each device, class or process | `get_monitor` (timed, recursive), `rel_monitor` | every request, the polling threads | timeout against signal, releases by threads that do not own it, circular waits | exact ownership, no lost wake-up, circular waits end |
| **Polling command channel** `pollthread.cpp`, `dserverpoll.cpp`, `utils_polling.cpp` | one `PollThCmd` buffer, flags `cmd_pending` and `trigger`, one condition variable for everybody | add, remove, update, trigger, exit; requests of the polling thread to itself | administration device, device code, polling thread | one signal for many kinds of sleepers, untimed waits, confirmations that time out | what is acknowledged was executed, nothing is executed twice, waits end |
| **Polling work list** `pollthread.cpp` | works ordered by date, externally triggered works, the item being polled, `rem_upd`, `auto_upd`, tuning counters | the commands of the channel, one poll, tuning, discarding | channel, lists of polled objects of the devices | an object that changes its own polling while polled; dates recomputed in place; discarding | work list and polled objects agree, order, merging, no starvation |
| **Polling ring buffer** `pollring.cpp` | slots, `insert_elt`, `nb_elt` | insert result or exception, read last, history, delays | polling thread writes, clients read | wrap-around, pointers left behind, ownership of results | the ring is the newest insertions; every object is freed once |
| **Client event queue** `client/eventqueue.cpp` | five vectors, `insert_elt`, `nb_elt`, `max_elt` | insert, three ways to extract, last date, destructor | ZMQ thread inserts, clients extract | a test outside the mutex, a ring or no limit, five vectors that must be told apart | only the oldest are lost, one owner for each event, no access out of bounds |
| **Black box** `blackbox.cpp` | ring of request records | an insertion per kind of operation and of client, `read` | every request | slots reused without being cleared | what is reported is what happened |
| **Polling thread pool** `utils_polling.cpp` | threads, device to thread map, pool configuration | `create_poll_thread`, removal, `check_pool_conf` at start | administration device, database | partial failures between map, configuration and thread | one thread for each polled device; map and configuration agree |
| **Device locking** `device.cpp`, `dserverlock.cpp`, `client/lockthread.cpp` | lock owner, date, validity, counter; renewal thread of the client | lock, relock, unlock, check | clients, their lock threads, restart of a device | a lease that expires while its renewal is on its way | at most one owner; a lock in use is renewed |
| **Attribute polling and cached reads** `device_2.cpp` … `device_5.cpp` | polled values | reads from device, cache, or cache then device | ring buffers, monitors | data too old, polling stopped | a cached read is never older than it says |
| **Event supplier / consumer** `eventsupplier.cpp`, `zmqeventsupplier.cpp`, `client/event.cpp`, `client/zmqeventconsumer.cpp`, `client/eventkeepalive.cpp` | subscription dates, event counters, channels, heartbeats | subscribe, detect, push, keep alive, reconnect | polling, clients, ZMQ | lost and repeated events, reconnection against unsubscription | a missed event is noticed; a restarted server is found again |
| **Asynchronous requests** `client/proxy_asyn*.cpp`, `client/asynreq.cpp` | table of pending replies | send, poll, wait, callback, cancel | CORBA deferred calls | late replies, two threads waiting for one reply | each reply is delivered once |
| **Administration device, start, shutdown** `dserver.cpp`, `utils.cpp`, `utils_shut.cpp` | devices, threads | restart, kill, shutdown | everything | order of the steps, who joins whom | state survives a restart; shutdown ends |
| **Signals, interface changes** `dserversignal.cpp`, `thsig.cpp`, `devintr.cpp`, `dintrthread.cpp` | registrations, pending comparisons | register, deliver; wait, compare, push | devices, one thread each | a command buffer of the same shape as that of polling | no registration is lost |
| **Forwarded attributes** `rootattreg.cpp`, `fwdattribute.cpp` | registry of root attributes | register, events | event consumer | callbacks during registration | registry and subscriptions agree |
| **Attributes, configuration, pipes, data types, groups, database, logging, telemetry** | typed data | conversion, encoding | – | data, little control | not candidates, or late ones |

The hazards behind this table are listed, with their lines, in `PROJECT.json`.

## 2. Plan

Done: `TangoMonitor`, `PollChannel`, `PollWorks`, `PollRing`, `EventQueue`,
`BlackBox`, the abstract `BoundedLog`, `DeviceLock`, `EventSupplier` and
`EventConsumer` (a composition of client and server), `AsynRequests`; proofs for all of
them: the monitor and the black box, the command channel, the ring and the work list,
the event queue, the locks, the asynchronous requests and the events.

Next, in this order:

1. `PollPool`: `create_poll_thread`, `add_obj_polling` and `rem_obj_polling` with
   the map of devices, the pool configuration and the thread counters, including the
   step that fails in the middle; `check_pool_conf` as a pure algorithm against a
   reference definition.
2. A composition of `TangoMonitor` and `PollChannel`: a trigger gives up the device
   monitor around its wait and takes it back while it holds the mutex of the channel.
3. The serialisation models of `AutoTangoMonitor` on top of `TangoMonitor`.
4. Restart and shutdown; signals; interface changes; the other kinds of events.

## 3. The modules

Several modules have a constant `Scenarios` and a variable `scenario`, chosen once in
`Init`: a record that says which operations the environment uses and how often. One
run then checks a component under several ways of using it, and a property that the
code keeps only for some of them says so in its own text (`AckMeansServedAlone`) or
in the hypothesis of its theorem (`OneReader`, `Counted`). These predicates are
definitions of the modules: `Alone` of `PollChannel` (one sender, which triggers
nothing), `OneReader` and `Counted` of `AsynRequests` (one thread for each proxy; and
counters that nobody is known to spoil), `KnownKinds` of `EventQueue` (the kinds of
events its destructor and its date know).

Each module has a `TypeOK`, the description of its state. It is checked by the runs of
the monitor and the ring, and proved wherever there is a module of proofs; to the
others it can be added in any configuration, and what it would say about two pieces of
state is part of the properties instead.

**`TangoMonitor`** (`tango_monitor.h`). The mutex of a monitor is held throughout
`get_monitor` and `rel_monitor` except in the wait on the condition variable, so a
step goes from one wait to the next: `GetMonitor` up to the wait or the end,
`WakeUp` the `while` loop after a signal, `Expire` and `ThrowTimedOut` the end of the
timed wait and the exception, `RelMonitor` and `RelMonitorNotOwner` the two ways
through `rel_monitor`. `held` is a history variable: the acquisitions a thread has
not given back. A signal is assumed to reach a thread that still sleeps, not one
whose timeout has already ended its wait (`phase = "expired"`), as POSIX demands;
spurious returns are modelled.

**`PollChannel`** (`pollthread.cpp` 250–311 and 742–771, the senders of
`dserverpoll.cpp`, the triggers of `utils_polling.cpp`, `device.cpp`). `shared_cmd`
is the buffer; device, name, type and index are one value, the request that wrote
them last. Requesters sleep in two places: `queued` (the untimed wait of "`if`
`(shared_cmd.cmd_pending) mon.wait()`") and `posted` (the timed wait for the
execution). The polling thread sleeps in `asleep`. A signal wakes any one of them
(`AfterSignal`). A request of the polling thread to itself is `SelfRequest` and
`SelfExecute`, two steps, because it fills the buffer without the mutex. `pc` =
`undefined` marks the front of an empty list being taken.

**`PollWorks`** (`execute_cmd`, `one_more_poll`, `insert_in_list`,
`add_insert_in_list`, `tune_list`, `compute_sleep_time`). Here a command is executed
as it is sent, together with the change its sender makes to the device's `poll_list`.
A poll is two steps, `StartPoll` and `EndPoll`; between them the polled object may
change or stop its own polling (`SelfUpdPeriod`, `SelfRemObj`), which is why the code
has `rem_upd` and `auto_upd`. All dates are relative to the present: letting time
pass subtracts from every date, so that a run of any length has finitely many states.
`RemoveIf`, `TuneList`, `Discard` and `ApplyAutoUpd` are the loops of the code, written
as recursive functions. The event heartbeat, storage of sub-devices and automatic unsubscription, which also
are works, are not modelled.

**`PollRing`** (`pollring.cpp`). `InsertData`, `InsertExcept` and `Delete` are the
steps; the readers are operators. Results and exceptions are numbered, 0 is the null
pointer, and `freed` counts deletions. `insert_except` deletes results of IDL 1 and 2
only; the later ones stay behind the exception until the next `insert_data`.

**`EventQueue`** (`eventqueue.cpp`). One vector of the five is used by a
subscription (`kind`). `get_events(CallBack)` is two steps, `ChooseKind` without the
mutex and `GetEventsForCallback` with it. An access outside a vector sets `stray` and
stops the model, since nothing is known of the process after it.

**`BlackBox`** (`blackbox.cpp`). An insertion assigns some of the fields of a slot;
which ones depends on the operation and on who calls. `read` is the operator `Read`.

**`DeviceLock`** (`device.cpp` `lock` … `check_lock`, `dserverlock.cpp`,
`devapi_base.cpp` `lock`, `unlock`, the destructor of a proxy, `lockthread.cpp`).
`dev` is what a device knows of its lock, `proxy` the counters of the client,
`thread` the `LockThread` with its timer and command buffer, `app` the place of the
application between the answer of the server and the command to its thread. The unit
of time is half a second, because the thread renews half a second before the
shortest lease ends while the server compares whole seconds; `half` is the half of
the current second, and all dates are relative to the present. A relock is on its
way for at most one unit (`lag`). `owed` (grants not given back) and `robbed` (who
lost a lock that was still valid, and by whom) are histories. Clients exit properly, with
`unlock_all_devs`, or crash; the server restarts a device, which saves its lock, or
itself, which loses it. There is one server, and a client has one proxy for each
device and one thread that locks.

**`EventSupplier`** (`eventcmds.cpp`, `eventsupplier.cpp`, `zmqeventsupplier.cpp`,
`poll_attr` of `pollthread.cpp`): the subscription commands, the confirmation and its
expiry, the event counters, the detection of a change, its publication (twice after a
first subscription), and restarts of the server. The value of an attribute changes to any
other one of `Values`, one it had before too. A poll is two steps, as in the code: `Poll`
reads the attribute, removes an expired subscription, compares the value with
`prev_change_event` if there was a subscription, and pushes the event; `StoreData` then
puts the value into the polling buffer (`cache`). The reading and the comparison
are one step of the model: the code pushes and stores `prev_change_event` under one mutex
with the value it read, and `UpToDate` is about that value, not about the attribute.
A client reads with the default source CACHE_DEV
(`devapi_base.cpp:726`): `ReadFrom` gives the stored value, or the one of the device
where nothing is stored, the attribute is not polled or the stored value is too old.
Ages of stored values are not modelled, so both may always come. **`EventConsumer`** (`event.cpp`, `zmqeventconsumer.cpp`,
`eventkeepalive.cpp`) extends it with the client: `SubscribeEvent` and the steps of
`connect_event` (`op`), the reception with its counters, unsubscription, and the
keep-alive thread (`ka`) with its confirmations, the heartbeat check and the
reconnection, which goes channel, events, re-subscription, reading, callback. ZMQ is
external: a SUB socket that counts its filters and a queue that drops what exceeds
its high water mark. Ages are counted in periods of the keep-alive thread, and what
it or the application has begun ends within a period. `seen`, `got`, `odd`, `lossy`
and `blocked` are histories. Events are change events of attributes of one device;
one server, one client.

**`AsynRequests`** (`asynreq.cpp`, `proxy_asyn.cpp`, `proxy_asyn_cb.cpp`,
`api_util.cpp`, `cbthread.cpp`). `table` and `cancelled` hold the requests to be
polled, `cbtab` and `arrived` those with a callback, `ctr` and `cbctr` the counters
of each proxy. A step is a section under one mutex or one call of the user's
callback, which is made without a mutex; `thr` says where each thread is between
two steps. `process_request` counts down and erases in two lines (`api_util.cpp:812`), the model
in one step: only a reader of the counter in between could tell them apart.
The ORB is external: it sends, gets one answer (of the device, or an
exception of its own: timeout, no connection, connection lost) and queues the answers
to requests with a callback. A reply to a request that was not delivered does the
call again synchronously (`redone`).

**`BoundedLog`** is the abstract specification of the two rings: a log of the newest
entries, at most `depth` of them (no limit for 0), where a step adds one entry or
empties the log. `PollRing` and `EventQueue` implement it (`IsBoundedLog`) under the
mapping `Contents`, which reads the ring from `insert_elt` backwards.

Operators whose comment begins with "Faulty variant" are not part of the models: each
is a plausible mistake in the definition that follows it, and the property it
violates is named in `PROJECT.json`.

## 4. The runs

| run | instance | states | shows |
|---|---|---|---|
| `monitor` | 3 threads, 2 monitors, nesting 2 | 9 000 | `Ownership`, `NoLostWakeUp`, `CircularWaitBroken` |
| `channel` | `ByAdmin`: administration device alone, 4 requests, exit; `ByAll`: creation, triggers, self-requests, exit, spurious wake-ups | 118 000 | `AckMeansServedAlone`, `NoPollOfEmptyList`, `NeverTwice`, `CommandTaken`, `QueueLeft` |
| `works` | `Changing`: two attributes of one device, periods 0, 2, 3, changes of periods from inside and outside; `Competing`: an attribute and a command of two devices; `Renewing`: attributes that share a work and ask for the period they have; `Stopping`: objects that stop their own polling | 280 000 | `WorksMatchPollList`, `Sorted`, `AttributesMerged`, `NotStarved` |
| `ring` | depths 1 to 3, 7 insertions of every kind of result | 655 000 | `HistoryFaithful`, `DeltasFaithful`, `FreedOnce`, `SlotsFaithful`, `IsBoundedLog` |
| `queue_events` | depths 1 to 3 and unlimited, 7 events of three kinds | 3 300 | `InBounds`, `OneOwner`, `OnlyOldestLost`, `LastDateFaithful`, `IsBoundedLog` |
| `blackbox_read` | depths 1 and 2, IDL 3 and 4, 3 requests | 65 000 | `ReadFaithful` |
| `lock` | 2 clients, 2 devices, validity 2 s; `Competing`: both lock one device twice, end or crash; `Renewing`: one holds two locks, the other takes one by force | 168 000 | `RenewedInTime`, `CounterAgrees`, `NoAccidentalForce`, `DeadClientReleases` |
| `events` | 2 attributes, high water mark 2, end of a subscription after 3 periods, confirmation each period; two values; `Losses` (a heartbeat), `Twice` and `TwiceBack` (two subscriptions to one event, given back, with a restart or with a value that changes and returns), `Late` and `Stops` (polling begins late, or ends), `Back` (a value that changes and returns, and a restart) | 2 179 000 | `CopyWithinRun`, `GapReported`, `NeverDeaf`, `SubscriptionKept`, `UpToDate`, `Reconnects` |
| `asyn` | 2 proxies, 2 threads, 2 or 3 requests; `Polling` with a server that stops, `Cancelling`, `Apart`, `Pulling`, `PullingAll`, `Failing`, `Shared`, `Pushing` | 214 000 | `PendingAgrees`, `ToldOnce`, `NotReplayed`, `Delivered`, `Returned` |
| `lock_renewal` | `Renewing`, validities 2 s and 4 s | – | **violated**: `RenewedInTime` |
| `events_copies` | `Back`: one event, two changes, a restart | – | **violated**: `OnlyCopiesSuppressed` |
| `asyn_pending` | `Polling`, and the repeated call may fail | – | **violated**: `PendingAgrees` |

*Bounds.* The monitor needs three threads so that a woken thread and a late arrival
compete while a third sleeps, and two monitors for a circle. Four requests let a
request queue behind one that timed out. A ring of 3 filled 7 times wraps twice with
every mixture of results and exceptions; a ring of 1 is the boundary of all index
arithmetic. Three requests on a black box of two slots reuse a slot after any two
others. The time unit of `PollWorks` is DISCARD_THRESHOLD (20 ms): periods of 2 and 3
units and polls of 0 or 1 make works late, discarded and tuned. A validity of 2 s is
MIN_LOCK_VALIDITY, where the half second of the renewal is the largest part of the
lease. Dates, `tune_ctr` and the timers are relative, so the runs of `PollWorks` and
`DeviceLock` have no bound on their length. In `events` a subscription ends after
three periods and is confirmed every one, the ratio of the code, so that a confirmation
can be late by two; a high water mark of 2 loses events after two changes; two events of
one channel are needed because a reconnection treats the first event of a channel
differently from the others. Two requests are enough for a thread to get the response to the
request of another; three make the purge of cancelled requests pass over one.

*Fairness.* Threads that were woken get the mutex and timed waits end: the code has
no path between two waits that blocks, apart from user code, and `poll_cmd` and
`poll_attr` of user code that never return are excluded by the fairness of
`OneMorePoll`, `OneMoreTrigg` and `EndPoll`. `GetCommand` is strongly fair: a sleep of
exactly zero, after which the buffer is not looked at, does not occur at every turn.
In `DeviceLock` time passes and the threads of a client go on; in `EventConsumer` the
keep-alive thread and a connection in progress go on, while nothing at all is assumed
of the server, so `Reconnects` has "the server is down" and "the server refuses" as
alternatives; in `AsynRequests` each call goes on, callbacks return, and the ORB
answers a request at the latest by its timeout. Clients are never fair: nobody has to
send a request, to unlock, to release a monitor or to run into a timeout of a
monitor. Deadlock is not checked where a finished bounded history or an exited
thread is a legitimate end.

*What the passing runs assume.*

* `AckMeansServedAlone` and `NoPollOfEmptyList` speak of the administration device
  alone, which serialises its own requests with its monitor, and of waits that do
  not return by themselves. Alone means that nobody else sends commands, triggers or
  ends the thread, and that it triggers nothing itself.
* `works` changes periods from a period only, and leaves `WorksMatchPollList` out for
  objects that stop their own polling. A polled object makes one request per poll
  (`MaxSelf`): a second one, while the list is empty, would be in `auto_upd` as well and
  the object in the list twice.
* `AttributesMerged` leaves out the scenarios in which a polled object asks for the
  period it already has (`NewPeriods`). `upd_obj_polling_period` has no early return for
  that; an attribute that shares its work and does so during the poll gets a work of its
  own, because the shared one is out of the list then and `add_insert_in_list` does not
  find it. Without the hypothesis `Renewing` is a counterexample.
* `Sorted` is not true of every value of the constants: `tune_list` leaves alone a work
  whose date is after the next tuning and may move another past it. TLC shows this with
  POLL_LOOP_NB = 1 and periods 6 and 7; with the real 500 it takes a period longer than
  500 of the shortest.
* `NotStarved` is checked where the works together need no more time than the shortest
  period. In a thread with more to do (three works of period 2 that need 1 each) TLC finds
  a cycle in which the discard loop skips the same object every time.
* `queue_events` lets only data ready events be read by callback and
  uses the three kinds the destructor knows (`KnownKinds`), because outside of these
  `InBounds` is false in the two ways `QueueInBounds` describes (section 6); `LastDateFaithful`
  leaves data ready events out. `blackbox_read` is for devices of IDL 3 and 4.
* In `lock` a client uses one validity; a client that lost a lock by force or by a
  restart of the server is promised nothing more, since its counters are then wrong.
* `GapReported` and `CopyWithinRun` speak of events of one run of the server;
  `SubscriptionKept` of events the server did not refuse and main_reconnect is not about
  to re-subscribe (`Unsubscribed`), with a confirmation that is due more than a period
  before the subscription ends (`ConsumerAssumption`: the code confirms after a third of
  EVENT_RESUBSCRIBE_PERIOD).
* `UpToDate` compares what the callbacks have with `prev_change_event`, the value from which
  the server detects the next change, and excepts an attribute (`lossy`) of which an event
  was lost by ZMQ, by a held monitor or by the counters, whose subscription had
  expired when a change was detected, or of which the read of a subscription or of
  a reconnection brought a value other than `prev_change_event`. The exception ends with
  the next event, or with a read that does bring that value and goes to all callbacks.
  The last kind is a behaviour of the code and not of the
  network (section 5). What is left is that no read replaces a newer event and that a
  value that was read and the events behind it agree.
* In `asyn` a proxy is used by one thread, the calls of `ApiUtil` are left to an
  application with one thread, nobody asks for replies while the push model does
  (`OneReader`), and all requests are cancelled at once only when there is one proxy
  (`Counted`).

## 5. Disagreements between code and comments

Shown by a run:

* `lock_renewal` – locking a second device with a shorter validity shortens the
  period of the `LockThread`, but the date of its next renewal, computed with the longer
  one, stays: the new lock ends before it is renewed.
* `events_copies` – `push_zmq_event` takes an event whose counter equals that of the
  last one for the second copy the server sends after a first subscription. After a
  restart the counters begin again, and a client that is registered by a confirmation only
  gets events that all have the counter 0.
* `asyn_pending` – `read_attributes_reply` and `write_attributes_reply` do a call again
  after a successful ping; if that call throws, the request stays in its table and
  in the number of pending requests.

Three configurations have no run in `PROJECT.json` and can be tried by hand; TLC
finds the named invariant violated:

* `tlc -config MC_PollChannel_lost.cfg MC_PollChannel` (`AckMeansServed`) – a sender
  tests `cmd_pending` once, with `if`, before its wait and not after it. Two senders
  overwrite each other, and the request that was overwritten is acknowledged by the
  execution of the other.
* `tlc -config MC_PollWorks_trigger.cfg MC_PollWorks` (`WorksMatchPollList`) – when
  other works exist, `POLL_UPD_PERIOD` of an externally triggered object sets
  `found_in_work_list` although the object was not found, and the object stays in the
  externally triggered list as well.
* `tlc -config MC_EventQueue_destructor.cfg MC_EventQueue` (`InBounds`) – the destructor
  of `EventQueue` knows three of the five vectors and walks the empty data ready vector
  for the two others.

Met while modelling, without a configuration of their own:

* Polling. A trigger writes its device and object over those of a pending command. With
  two senders the only signal of `execute_cmd` may wake the wrong sleeper, and the
  untimed wait of the other never ends. A creation that timed out leaves the thread
  known with `cmd_pending` set (`dserverpoll.cpp:869`), and `add_obj_polling` deletes a
  `PollObj` whose command stays in the buffer (`:862`). A spurious return of the
  untimed wait of `get_command` polls an empty list. Setting the period of an externally
  triggered object to 0 again puts it into the list of works with the period 0. A
  polled object that stops its own polling is put back at the end of the poll, and
  `rem_obj_polling` then writes to the thread information it has just removed (`:1766`). A delay of
  exactly DISCARD_THRESHOLD gives a negative sleep (`pollthread.cpp:1366`).
  `needed_time` of a work made by `POLL_UPD_PERIOD` is uninitialised (`:680`). A poll
  of several attributes stores its results one by one and stops at the first that
  fails (`:1935`). A ring depth of zero is not refused (`device.cpp:1290`).
* Event queue and black box. `get_events(CallBack)` may extract from the wrong vector
  if an event arrives between its test and its lock; the date of a data ready event is
  read from the vector of configuration events; `is_empty` looks at one vector for all
  kinds. A read by an old client on a device of IDL 5 keeps the operation of an earlier
  request in the slot of the black box.
* Locks. `LOCK_EXIT` clears the buffer although a `LOCK_ADD_DEV` may be pending
  (`lockthread.cpp:362`). An expired lock may be unlocked by a client that never had it
  (`device.cpp:4846`), and `old_locker_client` outlives its use (`:5105`).
  `check_lock` reads the lock without the monitor of the device (`device_4.cpp:483`).
  `re_lock_devices` uses a device pointer that may be null (`dserverlock.cpp:279`).
* Events. A failed re-subscription is ignored (`eventkeepalive.cpp:1353`); the counter
  of a callback is updated before its monitor is taken (`zmqeventconsumer.cpp:2766`);
  the detection of a change uses a copy of the list of client versions
  (`eventsupplier.cpp:181`); the value of a new subscription is read after a fixed sleep
  that stands for the time a ZMQ connection takes (`event.cpp:3010`).
* Values read instead of events. The read of a new subscription or of a reconnection may
  bring a value that is not `prev_change_event`, in two ways. Polls without a subscriber
  leave `prev_change_event` as it was (`eventsupplier.cpp:218`); and `poll_attr` pushes the
  event (`pollthread.cpp:1914`) before it fills the polling buffer (`:1933` on) from which
  the client reads, so that a read in between brings the older value, possibly in place of
  an event the client could not receive yet. In the first case, if the
  attribute then returns to the value of `prev_change_event`, the next poll detects no
  change (`eventsupplier.cpp:422`), and the client keeps the value it has read until a later
  change, although nothing was lost. In the second the client has the older value until
  the attribute changes again. With `AfterRead` left at `lossy`, TLC shows the first: a
  poll pushes 0 before the client has connected its socket, the value becomes 1, the first
  read brings 1, the value returns to 0, and the client keeps 1.
* Asynchronous requests. An iterator is used after its element was erased
  (`api_util.cpp:788`). Cancelling a request twice counts it down twice
  (`proxy_asyn.cpp:2938`), and cancelling all of them resets the counter of one
  connection only (`:2957`). Two threads of a proxy may fire a callback twice
  (`proxy_asyn_cb.cpp:211`). A proxy that waits for all
  its replies asks the ORB for a response even when another thread took the last one,
  which the ORB answers with BAD_INV_ORDER (`:1071`). A stop of the callback
  thread that arrives between its test and its wait is seen only at the next request
  (`cbthread.cpp:65`).

## 6. The proofs

`Device_proofs` proves, for any set of threads and monitors, `MonitorTypes`,
`MonitorOwnership` and `MonitorNoLostWakeUp`. The inductive invariant is
`TypeOK /\ Ownership /\ NoLostWakeUp`: that the counter is never negative needs
`Ownership` (only the owner counts down), and `NoLostWakeUp` needs it where an owner
that is not the caller must exist for the caller to sleep. There is one step per
action; the argument for the wake-up is that a monitor becomes free only in
`RelMonitor`, which signals a sleeper if there is one, and that a woken thread that
finds it taken again goes back to sleep on a monitor that is *not* free. The only
assumptions are that `NoThread` is not a thread and that the nesting bound is positive.

It also proves, for every depth and any requests, `BoxReadFaithful`: on devices up to
IDL 4 a report of the black box is exactly the newest requests. The inductive invariant
`BoxInv` cannot speak of the fields of a slot, because an insertion leaves some of them
as an earlier request wrote them; it says what `build_info_as_str` *shows* of the slot.
A writing with IDL 4 does not reset the identification that an earlier client left in the
slot; it is never shown, because `update_client_host` overwrites it unless the caller is a
thread of the server, and for those `build_info_as_str` does not look at it.
`BoxReadOrigins` is what remains on every IDL version: the number and the order of the
requests, their origin and client, and the operation of all but the readings that
`insert_attr` does not label on IDL 5 (section 5).

`Polling_proofs` proves, for every depth and any number of insertions, `RingTypes`,
`RingSlots`, `RingIsBoundedLog`, `RingHistory`, `RingDeltas` and `RingFreedOnce`.
`TypeOK` is not inductive by itself; `RingInv` adds `IndexInv`, that a ring that is not
full has filled its slots from zero on (`nb_elt < max_elt => insert_elt = nb_elt`).
`EntriesStep` then says how an insertion moves the k-th newest entry to place k+1 and
leaves its slot alone, from which both `SlotsFaithful` and the refinement follow:
`InsertIsPush` shows that an insertion is the `Push` of the abstract log, and the
destructor is its `Flush`. The reading loops step an index backwards around the
ring; `ReadIndexIs` says in closed form where they are after k steps, and with it
`HistoryFaithful` and `DeltasFaithful` are facts about slots. `FreedOnce` needs
`OwnerInv`: every object is in exactly one slot and not freed, or in none and freed
once, and a slot never points to one object twice.

The same module proves of the work list, for any devices, objects, periods, scenarios and
bounds on lateness and tuning, `WorksInvariant`, `WorksAreItems`, `WorksMatch` and `WorksMerged`. The
hypothesis `Orderly` is that of the run: no polled object stops its own polling, no
externally triggered object gets a period, none makes itself externally triggered, and
there is one request per poll; each excludes a behaviour described in section 5 or above, and all
scenarios of the run but `Stopping` satisfy it. The argument has three layers:

* `Picks`: tuning, discarding, sleeping and letting time pass only rearrange the list. The
  loops are recursive functions; `LoopTheorems` gives their values up to each round, and
  `PicksTrans` composes the rounds. Nothing about dates is needed.
* `GoodList`: no work is without name and no object is twice in a list. `RemoveNameGood`,
  `InsertGood`, `AddInsertGood`, `ReinsertGood` and `AppliedGood` say for each operation
  which object it adds to which period or takes away (`InList`), and that it makes no two
  works that could be one (`MergedList`, `NewKey`).
* `WorksInv`: the lists say what the devices say also *during* a poll, when the first
  work is out of the list. `InPoll` has three cases: nothing was asked (`Quiet`); the
  polled object is in the list with its new period and will be dropped from its old work
  (`Moved`, by way of `rem_upd`); or the list was empty and it will get its new work
  at the end of the poll (`Deferred`, by way of `auto_upd`). `WorksMatchPollList`, which
  counts occurrences between polls, is not inductive without them.

`LoopTheorems` holds what the recursive functions need. The induction theorems of the
library take an operator as a parameter, which the provers cannot instantiate; so
`LeastNat` is derived from the well-foundedness of the numbers, `UpTo` is induction up to a
bound with a set in place of the predicate, and `LoopExists` says that the function
that goes through the states of a loop exists, so that a recursive definition of it
satisfies its own equation.

`PollChannel_proofs` proves, for any set of requesters and any scenario,
`ChannelTypes`, `ChannelNeverTwice`, `ChannelNoPollOfEmptyList` and
`ChannelAckMeansServedAlone`. The inductive invariant has a part for each: `FreshInv`
(no trace of a request exists before it is made), with which `OnceInv` says that what
is in the buffer or was taken from it has not been executed; `WokenInv` (a sleeper
without a timeout is woken with a command or a trigger at hand); `AloneInv` for a
sender on its own: it leaves the untimed wait only when the buffer is free, and from
then on its command is in the buffer or was executed. The proof showed that the
first form of `Alone` was too weak: another requester that ends the thread, or a
trigger of one's own, signals as well and ends the wait for the buffer too early.

`EventQueue_proofs` proves `QueueTypes`, `QueueOneOwner`, `QueueOnlyOldestLost` and
`QueueIsBoundedLog` for all kinds and depths, unlimited ones too, and `QueueLastDate`
under `KnownKinds`. `InBounds` is not true of every kind and callback, so
`QueueInBounds` says exactly when a vector is left (`WrongVector`): when there are
events and either `get_events(CallBack)` has chosen the vector of another kind (an event
came between its test and its lock, or it is a pipe event), or the destructor meets a
queue of device interface or pipe events. Everything else, the arithmetic of the
indexes above all, stays in bounds for every kind, size and order of operations.
The invariant says
which event every slot holds (`EventAt`, a function of `insert_elt`, `nb_elt` and the
number of insertions), so the vector is determined by the indexes; the events
that have left it are then the older ones, and `PlacesInv` says that each of them is
with the client, in order, or deleted, once.

`AsynRequests_proofs` proves `AsynTypes` and `AsynNotReplayed` (no call is done again
that the device executed or may execute) for every scenario, `AsynToldOnce` under
`OneReader` and `AsynPendingAgrees` under `Counted`. `NotReplayed` rests on the answers
of the ORB that allow a repetition being final. For `ToldOnce` the invariant
follows a request with a callback from hand to hand: the thread that sends it, the queue of the
ORB, the arrived ones, the one thread that fires it; two threads never have the same
one because a proxy is read by one thread. `CountInv` identifies each counter with the
cardinality of a set of requests. The hypotheses are needed: two threads of one proxy
fire a callback twice, and the run `asyn_pending` violates `PendingAgrees` where a
repeated call fails.

`DeviceLock_proofs` proves `LockTypes` and, under `SameValidity` (each client asks for
one validity), `LockRenewedInTime`, `LockCounterAgrees` and `LockNoAccidentalForce`, for
any clients, devices and validities. `OwnInv` describes the locks of each client that
lives and has not lost one: its counter equals the grants it has not given back; the
renewal by its thread, be it a timer or on its way, reaches the server before the lease ends,
whatever half of the second the server's clock is in; and a device the thread does not
know of yet has just been locked. `SameValidity` is needed: the run `lock_renewal` violates
`RenewedInTime` without it. The proof corrected a history variable, which counted a
client as robbed whose lease had already run out.

`EventConsumer_proofs` proves, for any events, periods, high water mark and scenario,
`EventTypes`, `EventNeverDeaf`, `EventSubscriptionKept`, `EventCopies`, `EventGaps` and
`EventUpToDate`. The invariants build on each other:

* `DeafInv` adds to the types and to `NeverDeaf` the phases of the two threads
  (`PhaseInv`: a connection in progress and a reconnection exclude each other, and only
  a channel with events is reconnected).
* `KeptInv` bounds the age of a subscription in the server by the age of the last
  confirmation in the client, and says it is 0 where the client is late with one
  (`Young`). `SubscriptionKept` alone is not inductive: one period before its end a
  subscription is kept only because a confirmation is due. The first form of the
  property had to exempt the events that main_reconnect has connected and not yet
  re-subscribed.
* `CounterInv` orders the events of an attribute: those in the queue, the last one the
  callbacks got and the next one the server would push are in the order of their
  runs and numbers, in each run the counters follow the numbers as soon as there is one
  (`Before`), there are at most two copies of an event (`Ordered`), and at most one more
  copy of the one that was received, none if one was suppressed (`Follows`). The
  difference of the counters is then the number of events lost in between. Dropping
  events of one publisher keeps all this, because it keeps the order and no copy
  without the other; `NotFrom` is a recursive function, treated with `LoopTheorems`.
* `ValueInv` says who has the value of `prev_change_event` of an attribute that is not
  excepted (`Fresh`): the last event on its way (`LastIsNow`), or the callbacks or the thread about to call them once all that is
  on its way are copies of what was received (`Given`). It needs the previous part: an event is
  suppressed without a loss only if a copy of it was, or will be, given.

Only model-checked: liveness (`CircularWaitBroken`, `CommandTaken`, `QueueLeft`,
`NotStarved`, `DeadClientReleases`, `Reconnects`, `Delivered`, `Returned`), which is
out of the prover's reach, and `Sorted`, which depends on the sizes of the constants
(section 4). The assumptions of all modules on their constants
(`LockAssumption`, `SupplierAssumption`, `ConsumerAssumption`, `ScenariosAssumption`
and the like) are evaluated by their runs.

## 7. Not modelled

The components of section 1 without a module, for the reasons given in
`PROJECT.json`: typed data and its conversions, database access, logging and telemetry
have little control to check; the thread pool, cached reads, shutdown, signals,
interface changes and forwarded attributes are left for later. Within the
modelled ones:

* which monitor a request takes (`auto_tango_monitor.cpp`), and the device monitor
  around a trigger;
* the index a command carries into `poll_list`, which is stale when the object was
  deleted in between; the heartbeat and storage works; a ring of depth zero;
* locks of the root devices of forwarded attributes, several servers, and several
  threads of one client that lock;
* archive, periodic, alarm, configuration, data ready and pipe events (they share the
  counters, the confirmation and the reconnection with change events), events pushed by
  the code of a device, notifd and multicast;
* two threads that use one proxy for asynchronous requests, repeated cancellations, and
  a change from the push model back to pulling and to pushing again;
* layout and text of replies.
