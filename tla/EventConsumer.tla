---------------------------- MODULE EventConsumer ----------------------------
(***************************************************************************)
(* The client side of change events: subscriptions (event.cpp), the ZMQ    *)
(* thread that receives the events (zmqeventconsumer.cpp) and the          *)
(* keep-alive thread that confirms subscriptions and reconnects            *)
(* (eventkeepalive.cpp), composed with the server of EventSupplier.        *)
(*                                                                         *)
(* map_modification_lock excludes the subscriptions of the application     *)
(* from the work of the keep-alive thread; DelayEvent keeps the ZMQ thread *)
(* away from both while a subscription is made.  Between two periods of    *)
(* the keep-alive thread (Tick) everything it and the application have     *)
(* begun ends: their calls are short compared with the period.             *)
(***************************************************************************)
EXTENDS EventSupplier

CONSTANT ConfirmPeriod  \* EVENT_RESUBSCRIBE_PERIOD / 3

ASSUME ConsumerAssumption ==
    ConfirmPeriod \in Nat /\ ConfirmPeriod + 1 < ResubscribePeriod

VARIABLES
    chan,     \* channel_map: the one channel, that of the server
    cb,       \* event_callback_map
    pending,  \* event_not_connected: subscriptions that wait for the server
    op,       \* connect_event in progress
    ka,       \* the keep-alive thread
    used,     \* identifiers the application has used
    seen,     \* history: the last value given to each callback
    got,      \* history: the last event of each attribute that was not suppressed
    odd,      \* history: what the counters should have prevented
    blocked   \* history: events whose subscription the server refused

consumerVars == <<chan, cb, pending, op, ka, used>>
historyVars == <<seen, got, odd, blocked>>
vars == <<scenario, supplierVars, consumerVars, historyVars>>

Ids == DOMAIN scenario.ids
Event(id) == scenario.ids[id]

NoChannel ==
    [known |-> FALSE, run |-> 0, last_subscribed |-> 0, heartbeat |-> TRUE,
     heartbeat_skipped |-> FALSE, event_system_failed |-> FALSE]
NoCallback == [ids |-> {}, ctr |-> 0, discarded_event |-> FALSE, endpoint |-> 0]
NoOp == [pc |-> "idle", id |-> 0, by_ka |-> FALSE, run |-> 0, da |-> None]
Asleep == [pc |-> "asleep", todo |-> {}, run |-> 0, da |-> None]
NoEvent == [run |-> 0, nb |-> 0, ctr |-> 0]

Init ==
    /\ SupplierInit
    /\ chan = NoChannel
    /\ cb = [e \in Events |-> NoCallback]
    /\ pending = [all |-> {}, recent |-> {}]
    /\ op = NoOp
    /\ ka = Asleep
    /\ used = {}
    /\ seen = [id \in Ids |-> None]
    /\ got = [e \in Events |-> NoEvent]
    /\ odd = {}
    /\ blocked = {}

(* The events of the channel. *)
Connected == {e \in Events : cb[e].ids # {}}

(* The application may take the writer lock. *)
MapsFree == op = NoOp /\ ka.pc \in {"asleep", "channel"}

-----------------------------------------------------------------------------
(* connect_event, on behalf of the application or of the keep-alive thread. *)

SubscribeEvent(id) ==
    /\ MapsFree /\ id \notin used
    /\ used' = used \cup {id}
    /\ op' = [NoOp EXCEPT !.pc = "info", !.id = id]
    /\ UNCHANGED <<scenario, supplierVars, chan, cb, pending, ka, historyVars>>

(* get_subscription_info: ZmqEventSubscriptionChange is accepted. *)
GetSubscriptionInfo ==
    /\ op.pc = "info" /\ Accepts(svr, Event(op.id))
    /\ svr' = Subscribed(svr, Event(op.id))
    /\ blocked' = blocked \ {Event(op.id)}
    /\ op' = [op EXCEPT !.pc = "connect", !.run = svr.run]
    /\ UNCHANGED <<scenario, val, sock, wire, lossy, chan, cb, pending, ka, used, seen, got, odd>>

(* The server is down or refuses: a stateless subscription waits in         *)
(* event_not_connected, another one throws.                                 *)
SubscriptionFailed ==
    /\ op.pc = "info" /\ ~ Accepts(svr, Event(op.id))
    /\ pending' \in IF op.by_ka THEN {pending}
                    ELSE {pending, [all |-> pending.all \cup {op.id},
                                    recent |-> pending.recent \cup {op.id}]}
    /\ op' = NoOp
    /\ UNCHANGED <<scenario, supplierVars, chan, cb, ka, used, historyVars>>

(* connect_event_channel *)
ChannelOf(run) == [NoChannel EXCEPT !.known = TRUE, !.run = run]

(* connect_event_system *)
ConnectEventSystem(s, es, run) ==
    [pubs |-> s.pubs \cup {run},
     filters |-> [e \in Events |-> s.filters[e] + IF e \in es THEN 1 ELSE 0]]

ConnectEvent ==
    /\ op.pc = "connect"
    /\ LET e == Event(op.id)
           new == cb[e].ids = {}
       IN  /\ cb' = [cb EXCEPT ![e] =
                        IF new THEN [NoCallback EXCEPT !.ids = {op.id}, !.endpoint = op.run]
                        ELSE [cb[e] EXCEPT !.ids = @ \cup {op.id}]]
           /\ chan' = IF new /\ ~ chan.known THEN ChannelOf(op.run) ELSE chan
           /\ sock' = IF new THEN ConnectEventSystem(sock, {e}, op.run) ELSE sock
           /\ got' = IF new THEN [got EXCEPT ![e] = NoEvent] ELSE got
    /\ op' = [op EXCEPT !.pc = "read"]
    /\ UNCHANGED <<scenario, val, svr, wire, lossy, pending, ka, used, seen, odd, blocked>>

(* History: the value v that was read will be given to the callbacks, to    *)
(* all of them or to one only.  They lack what was detected last if v is     *)
(* not it; if v is, it makes up for a lost event, unless an older one is     *)
(* still on its way.                                                        *)
AfterRead(e, v, all) ==
    IF v # svr.prev[e] THEN lossy \cup {e}
    ELSE IF all /\ \A m \in ToSet(wire) : m.ev # e THEN lossy \ {e} ELSE lossy

(* get_fire_sync_event: the attribute is read, then the callback is called. *)
ReadFirst ==
    /\ op.pc = "read"
    /\ LET e == Event(op.id)
       IN  \/ /\ svr.up
              /\ \E v \in ReadFrom(svr, e) :
                    /\ op' = [op EXCEPT !.pc = "fire", !.da = v]
                    /\ lossy' = AfterRead(e, v, cb[e].ids = {op.id})
           \/ /\ ~ svr.up
              /\ op' = [op EXCEPT !.pc = "fire", !.da = None]
              /\ lossy' = lossy
    /\ UNCHANGED <<scenario, val, svr, sock, wire, chan, cb, pending, ka, used, historyVars>>

FireFirst ==
    /\ op.pc = "fire"
    /\ seen' = [seen EXCEPT ![op.id] = IF op.da = None THEN @ ELSE op.da]
    /\ pending' = [all |-> pending.all \ {op.id}, recent |-> pending.recent \ {op.id}]
    /\ op' = NoOp
    /\ UNCHANGED <<scenario, supplierVars, chan, cb, ka, used, got, odd, blocked>>

(* disconnect_event, and disconnect_event_channel for the last event. *)
Disconnected(s, e, last) ==
    [pubs |-> IF last THEN s.pubs \ {cb[e].endpoint} ELSE s.pubs,
     filters |-> [s.filters EXCEPT ![e] = @ - 1]]

UnsubscribeEvent(id) ==
    /\ MapsFree /\ scenario.again
    /\ \/ /\ id \in cb[Event(id)].ids
          /\ LET e == Event(id)
                 gone == cb[e].ids = {id}
                 last == gone /\ Connected = {e}
             IN  /\ cb' = [cb EXCEPT ![e] = IF gone THEN NoCallback
                                            ELSE [cb[e] EXCEPT !.ids = @ \ {id}]]
                 /\ chan' = IF last THEN NoChannel ELSE chan
                 /\ sock' = IF gone THEN Disconnected(sock, e, last) ELSE sock
          /\ UNCHANGED pending
       \/ /\ id \in pending.all
          /\ pending' = [all |-> pending.all \ {id}, recent |-> pending.recent \ {id}]
          /\ UNCHANGED <<cb, chan, sock>>
    /\ UNCHANGED <<scenario, val, svr, wire, lossy, op, ka, used, historyVars>>

-----------------------------------------------------------------------------
(* The ZMQ thread: push_zmq_event. *)

(* The counter the event is compared with: the first event of a callback    *)
(* sets it.                                                                 *)
Base(c, ds_ctr) == IF ds_ctr > 1 /\ c.ctr = 0 THEN ds_ctr - 1 ELSE c.ctr

MissedEvent(c, ds_ctr) == ds_ctr - Base(c, ds_ctr)

(* The second copy of the first event is not given to the callbacks. *)
Suppressed(c, ds_ctr) == MissedEvent(c, ds_ctr) = 0 /\ ~ c.discarded_event

(* Faulty variant: one event too many may be missed. *)
ReportedLate(c, ds_ctr) == MissedEvent(c, ds_ctr) > 2

(* An error API_MissedEvents precedes the event. *)
Reported(c, ds_ctr) == MissedEvent(c, ds_ctr) >= 2

Counted(c, ds_ctr) == [c EXCEPT !.ctr = ds_ctr, !.discarded_event = FALSE]

(* History: what goes wrong when an event is suppressed, and when it is not *)
OddSuppressed(m, g) ==
    IF ~ m.final \/ (m.run = g.run /\ m.nb = g.nb) THEN {}
    ELSE IF m.ctr = 0 THEN {"uncounted"}
    ELSE IF m.run # g.run THEN {"other run"} ELSE {"same run"}
OddAccepted(c, m, g) ==
    (IF m.run = g.run /\ m.nb = g.nb THEN {"twice"} ELSE {})
    \cup (IF m.run = g.run /\ m.nb > g.nb + 1 /\ g.ctr > 0 /\ ~ Reported(c, m.ctr)
          THEN {"gap"} ELSE {})

(* Faulty variant: nobody holds it. *)
MonitorFree(e) == FALSE

(* main_reconnect holds the callback monitor of the event it re-subscribes. *)
MonitorHeld(e) == ka.pc \in {"subscribe", "read", "fire"} /\ e = Min(ka.todo)

(* No event is polled while DelayEvent is in force. *)
Receiving == wire # <<>> /\ op = NoOp /\ ka.pc # "pending"

SuppressEvent ==
    /\ Receiving
    /\ LET m == Head(wire)
           c == cb[m.ev]
       IN  /\ c.ids # {} /\ Suppressed(c, m.ctr)
           /\ cb' = [cb EXCEPT ![m.ev].discarded_event = TRUE]
           /\ odd' = odd \cup OddSuppressed(m, got[m.ev])
           /\ lossy' = IF OddSuppressed(m, got[m.ev]) = {} THEN lossy ELSE lossy \cup {m.ev}
    /\ wire' = Tail(wire)
    /\ UNCHANGED <<scenario, val, svr, sock, chan, pending, op, ka, used, seen, got, blocked>>

(* History: with the event m the callbacks have what was detected last.      *)
AfterEvent(m) ==
    IF /\ m.val = svr.prev[m.ev]
       /\ \A x \in ToSet(Tail(wire)) : x.ev = m.ev => x.run = m.run /\ x.nb = m.nb
    THEN lossy \ {m.ev} ELSE lossy

(* The event is given to the callbacks, or lost when the callback monitor   *)
(* is not released in time: the counter has been updated by then.           *)
PushEvent ==
    /\ Receiving
    /\ LET m == Head(wire)
           c == cb[m.ev]
       IN  /\ c.ids # {} /\ ~ Suppressed(c, m.ctr)
           /\ cb' = [cb EXCEPT ![m.ev] = Counted(c, m.ctr)]
           /\ odd' = odd \cup OddAccepted(c, m, got[m.ev])
           /\ got' = [got EXCEPT ![m.ev] = [run |-> m.run, nb |-> m.nb, ctr |-> m.ctr]]
           /\ IF MonitorHeld(m.ev)
              THEN lossy' = lossy \cup {m.ev} /\ seen' = seen
              ELSE /\ lossy' = AfterEvent(m)
                   /\ seen' = [id \in Ids |-> IF id \in c.ids THEN m.val ELSE seen[id]]
    /\ wire' = Tail(wire)
    /\ UNCHANGED <<scenario, val, svr, sock, chan, pending, op, ka, used, blocked>>

(* The event is not found in the callback map. *)
IgnoreEvent ==
    /\ Receiving /\ cb[Head(wire).ev].ids = {}
    /\ wire' = Tail(wire)
    /\ UNCHANGED <<scenario, val, svr, sock, lossy, consumerVars, historyVars>>

-----------------------------------------------------------------------------
(* The keep-alive thread: run_undetached. *)

(* push_heartbeat_event of the server and of the client: the heartbeat      *)
(* reaches the channel, unless it is lost.                                  *)
Heartbeat == svr.up /\ chan.run = svr.run

(* One period passes and the thread wakes up.  What was put into            *)
(* event_not_connected just before is left for the next period.             *)
Tick(lost) ==
    /\ ka = Asleep /\ op = NoOp
    /\ lost => scenario.loss > 0 /\ Heartbeat
    /\ scenario' = IF lost THEN [scenario EXCEPT !.loss = @ - 1] ELSE scenario
    /\ svr' = [svr EXCEPT !.age = [e \in Events |-> IF e \in svr.client_lib
                                    THEN Min({@[e] + 1, ResubscribePeriod}) ELSE 0]]
    /\ chan' = IF chan.known
               THEN [chan EXCEPT !.heartbeat = Heartbeat /\ ~ lost,
                                 !.last_subscribed = Min({@ + 1, ConfirmPeriod + 1})]
               ELSE chan
    /\ \E late \in SUBSET pending.recent :
          ka' = [Asleep EXCEPT !.pc = "pending", !.todo = pending.all \ late]
    /\ pending' = [pending EXCEPT !.recent = {}]
    /\ UNCHANGED <<val, sock, wire, lossy, cb, op, used, historyVars>>

(* not_conected_event: one attempt for each. *)
NotConnectedEvent ==
    /\ ka.pc = "pending" /\ op = NoOp
    /\ IF ka.todo = {} THEN ka' = [ka EXCEPT !.pc = "channel"] /\ op' = op
       ELSE \E id \in ka.todo :
              /\ op' = [NoOp EXCEPT !.pc = "info", !.id = id, !.by_ka = TRUE]
              /\ ka' = [ka EXCEPT !.todo = @ \ {id}]
    /\ UNCHANGED <<scenario, supplierVars, chan, cb, pending, used, historyVars>>

(* confirm_subscription, when it is time for it.  The command fails if the  *)
(* server is down or if it refuses one of the events.                       *)
ConfirmSubscription ==
    /\ ka.pc = "channel" /\ op = NoOp
    /\ ka' = [ka EXCEPT !.pc = "heartbeat"]
    /\ IF chan.known /\ chan.last_subscribed > ConfirmPeriod /\ svr.up
       THEN /\ svr' = Confirmed(svr, Connected)
            /\ chan' = IF Refused(svr, Connected) = {}
                       THEN [chan EXCEPT !.last_subscribed = 0] ELSE chan
            /\ blocked' = (blocked \cup Connected) \ ConfirmedEvents(svr, Connected)
       ELSE UNCHANGED <<svr, chan, blocked>>
    /\ UNCHANGED <<scenario, val, sock, wire, lossy, cb, pending, op, used, seen, got, odd>>

(* Faulty variant: a reconnection that failed is not tried again. *)
LostOnce(c) == c.known /\ ~ c.heartbeat /\ ~ c.event_system_failed

(* Has a heartbeat been skipped, or the last reconnection failed? *)
Lost(c) == c.known /\ (~ c.heartbeat \/ c.heartbeat_skipped \/ c.event_system_failed)

CheckHeartbeat ==
    /\ ka.pc = "heartbeat"
    /\ IF Lost(chan)
       THEN /\ chan' = [chan EXCEPT !.heartbeat_skipped = TRUE]
            /\ ka' = [ka EXCEPT !.pc = "reconnect"]
       ELSE ka' = Asleep /\ chan' = chan
    /\ UNCHANGED <<scenario, supplierVars, cb, pending, op, used, historyVars>>

(* What is left of the queue w without the events of one publisher. *)
NotFrom(w, run) ==
    LET left[i \in 0 .. Len(w)] ==
            IF i = 0 THEN <<>>
            ELSE IF w[i].run = run THEN left[i - 1] ELSE Append(left[i - 1], w[i])
    IN  left[Len(w)]

(* reconnect_to_zmq_channel: the server is asked for the first event only,  *)
(* and its publisher is left.  ZMQ may drop what it had received from it.   *)
ReconnectToChannel ==
    /\ ka.pc = "reconnect"
    /\ LET e == Min(Connected)
       IN  IF Accepts(svr, e)
           THEN /\ svr' = Subscribed(svr, e)
                /\ chan' = [chan EXCEPT !.run = svr.run, !.heartbeat = TRUE,
                                        !.heartbeat_skipped = FALSE, !.event_system_failed = FALSE]
                /\ sock' = [sock EXCEPT !.pubs = @ \ {cb[e].endpoint}]
                /\ wire' \in {wire, NotFrom(wire, cb[e].endpoint)}
                /\ lossy' = lossy \cup {m.ev : m \in ToSet(wire) \ ToSet(wire')}
                /\ blocked' = blocked \ {e}
                /\ ka' = [ka EXCEPT !.pc = "events", !.run = svr.run]
           ELSE /\ chan' = [chan EXCEPT !.event_system_failed = TRUE]
                /\ ka' = Asleep
                /\ UNCHANGED <<svr, sock, wire, lossy, blocked>>
    /\ UNCHANGED <<scenario, val, cb, pending, op, used, seen, got, odd>>

(* Faulty variant: all are disconnected, only the first is connected again. *)
ReconnectedFirst(s, es, run) ==
    ConnectEventSystem([s EXCEPT !.filters = [e \in Events |-> @[e] - IF e \in es THEN 1 ELSE 0]],
                       {Min(es)}, run)

(* reconnect_to_zmq_event: every event is connected to the new publisher;   *)
(* only the first one has been disconnected.                                *)
Reconnected(s, es, run) ==
    ConnectEventSystem([s EXCEPT !.filters[Min(es)] = @ - 1], es, run)

ReconnectToEvents ==
    /\ ka.pc = "events"
    /\ sock' = Reconnected(sock, Connected, ka.run)
    /\ cb' = [e \in Events |-> IF e \in Connected THEN [cb[e] EXCEPT !.endpoint = ka.run] ELSE cb[e]]
    /\ ka' = [ka EXCEPT !.pc = "subscribe", !.todo = Connected]
    /\ UNCHANGED <<scenario, val, svr, wire, lossy, chan, pending, op, used, historyVars>>

(* The thread goes on with the next event of the channel, or ends. *)
NextEvent(k) ==
    IF Cardinality(k.todo) = 1 THEN Asleep
    ELSE [k EXCEPT !.pc = "subscribe", !.todo = @ \ {Min(@)}, !.da = None]

(* re_subscribe_after_reconnect: a failure is ignored. *)
ReSubscribe ==
    /\ ka.pc = "subscribe"
    /\ LET e == Min(ka.todo)
       IN  IF Accepts(svr, e)
           THEN /\ svr' = Subscribed(svr, e)
                /\ chan' = [chan EXCEPT !.heartbeat_skipped = FALSE, !.last_subscribed = 0]
                /\ blocked' = blocked \ {e}
                /\ ka' = [ka EXCEPT !.pc = "read"]
           ELSE /\ blocked' = IF svr.up THEN blocked \cup {e} ELSE blocked
                /\ ka' = NextEvent(ka)
                /\ UNCHANGED <<svr, chan>>
    /\ UNCHANGED <<scenario, val, sock, wire, lossy, cb, pending, op, used, seen, got, odd>>

(* Its read of the attribute, and the call of the callbacks. *)
ReRead ==
    /\ ka.pc = "read"
    /\ LET e == Min(ka.todo)
       IN  \/ /\ svr.up
              /\ \E v \in ReadFrom(svr, e) :
                    /\ ka' = [ka EXCEPT !.pc = "fire", !.da = v]
                    /\ lossy' = AfterRead(e, v, TRUE)
           \/ /\ ~ svr.up
              /\ ka' = [ka EXCEPT !.pc = "fire", !.da = None]
              /\ lossy' = lossy
    /\ UNCHANGED <<scenario, val, svr, sock, wire, chan, cb, pending, op, used, historyVars>>

ReFire ==
    /\ ka.pc = "fire"
    /\ seen' = [id \in Ids |-> IF id \in cb[Min(ka.todo)].ids /\ ka.da # None THEN ka.da ELSE seen[id]]
    /\ ka' = NextEvent(ka)
    /\ UNCHANGED <<scenario, supplierVars, chan, cb, pending, op, used, got, odd, blocked>>

-----------------------------------------------------------------------------
ServerStep == SupplierStep /\ UNCHANGED <<consumerVars, historyVars>>

Connecting ==
    \/ GetSubscriptionInfo \/ SubscriptionFailed \/ ConnectEvent \/ ReadFirst \/ FireFirst

Receive == SuppressEvent \/ PushEvent \/ IgnoreEvent

KeepAlive ==
    \/ Tick(FALSE) \/ NotConnectedEvent \/ ConfirmSubscription \/ CheckHeartbeat
    \/ ReconnectToChannel \/ ReconnectToEvents \/ ReSubscribe \/ ReRead \/ ReFire

Next ==
    \/ ServerStep
    \/ \E id \in Ids : SubscribeEvent(id) \/ UnsubscribeEvent(id)
    \/ Connecting
    \/ Receive
    \/ Tick(TRUE)
    \/ KeepAlive

(* A subscription that was begun goes on, and so does the keep-alive thread, *)
(* which wakes up every period.  Nothing is assumed of the server.          *)
Fairness == WF_vars(Connecting) /\ WF_vars(KeepAlive)

Spec == Init /\ [][Next]_vars /\ Fairness

-----------------------------------------------------------------------------
ServerType ==
    [up : BOOLEAN, run : Nat \ {0}, polled : SUBSET Events, client_lib : SUBSET Events,
     age : [Events -> 0 .. ResubscribePeriod], event_cptr : [Events -> Nat],
     con_client : BOOLEAN, double_send : 0 .. 1,
     prev : [Events -> Nat \cup {None}], cache : [Events -> Nat \cup {None}],
     poll : [ev : Events, val : Nat] \cup {NoPoll}, nb : [Events -> Nat]]
SocketType == [pubs : SUBSET Nat, filters : [Events -> Nat]]
MessageType ==
    [ev : Events, run : Nat \ {0}, ctr : Nat, val : Nat, nb : Nat \ {0}, final : BOOLEAN]
ChannelType ==
    [known : BOOLEAN, run : Nat, last_subscribed : 0 .. ConfirmPeriod + 1,
     heartbeat : BOOLEAN, heartbeat_skipped : BOOLEAN, event_system_failed : BOOLEAN]
CallbackType == [ids : SUBSET Ids, ctr : Nat, discarded_event : BOOLEAN, endpoint : Nat]
OpType ==
    [pc : {"idle", "info", "connect", "read", "fire"}, id : Ids \cup {0},
     by_ka : BOOLEAN, run : Nat, da : Nat \cup {None}]
KaType ==
    [pc : {"asleep", "pending", "channel", "heartbeat", "reconnect", "events",
           "subscribe", "read", "fire"},
     todo : (SUBSET Ids) \cup (SUBSET Events), run : Nat, da : Nat \cup {None}]

SupplierTypes ==
    /\ scenario \in Scenario
    /\ val \in [Events -> Nat]
    /\ svr \in ServerType
    /\ sock \in SocketType
    /\ wire \in Seq(MessageType) /\ Len(wire) <= Hwm
    /\ lossy \subseteq Events
ConsumerTypes ==
    /\ chan \in ChannelType
    /\ cb \in [Events -> CallbackType]
    /\ pending \in [all : SUBSET Ids, recent : SUBSET Ids]
    /\ op \in OpType
    /\ ka \in KaType
    /\ used \subseteq Ids
HistoryTypes ==
    /\ seen \in [Ids -> Nat \cup {None}]
    /\ got \in [Events -> [run : Nat, nb : Nat, ctr : Nat]]
    /\ odd \subseteq {"uncounted", "other run", "same run", "twice", "gap"}
    /\ blocked \subseteq Events
TypeOK == SupplierTypes /\ ConsumerTypes /\ HistoryTypes

(* An event that is suppressed as the second copy of another, of the same    *)
(* run of the server and with a counter, is one; and no event is given to    *)
(* the callbacks twice (push_zmq_event).                                     *)
CopyWithinRun == "same run" \notin odd /\ "twice" \notin odd

(* When events of one run were lost on their way, the callbacks are told     *)
(* before the next one (push_zmq_event, API_MissedEvents).                   *)
GapReported == "gap" \notin odd

(* What the comment of push_zmq_event says: only the second copy of an event *)
(* is kept from the callbacks.                                               *)
OnlyCopiesSuppressed == odd = {}

(* An event with a callback can be received: its filter is set and its       *)
(* publisher connected, except while the keep-alive thread changes the       *)
(* publisher; and there is a channel to watch exactly when there is a        *)
(* callback.                                                                 *)
NeverDeaf ==
    /\ \A e \in Connected :
          /\ sock.filters[e] > 0
          /\ ka.pc = "events" \/ cb[e].endpoint \in sock.pubs
    /\ chan.known <=> Connected # {}

(* The events that main_reconnect has connected and not yet re-subscribed.   *)
Unsubscribed(k) ==
    IF k.pc = "subscribe" THEN k.todo
    ELSE IF k.pc \in {"read", "fire"} THEN k.todo \ {Min(k.todo)} ELSE {}

(* The server does not let the subscription of a client that is alive end,   *)
(* unless it refused it: the keep-alive thread confirms it in time           *)
(* (confirm_subscription against EVENT_RESUBSCRIBE_PERIOD).                  *)
SubscriptionKept ==
    \A e \in Connected \ (blocked \cup Unsubscribed(ka)) :
        svr.up /\ cb[e].endpoint = svr.run
        => e \in svr.client_lib /\ svr.age[e] < ResubscribePeriod

(* Once everything sent has been received, the callbacks have the value with *)
(* which the server compares the next one (prev_change_event), so that no    *)
(* change from what they have goes unnoticed; unless an event was lost, or   *)
(* the read of a subscription or of a reconnection itself brought another    *)
(* value.  A value that was read never replaces a newer event                *)
(* (get_fire_sync_event, re_subscribe_after_reconnect, push_zmq_event).      *)
Settled(e) ==
    /\ svr.up /\ svr.prev[e] # None /\ e \notin lossy
    /\ op = NoOp /\ ka.pc # "fire"
    /\ \A m \in ToSet(wire) : m.ev # e
UpToDate ==
    \A e \in Connected : Settled(e) => \A id \in cb[e].ids : seen[id] = svr.prev[e]

(* As long as the server is up and refuses nothing, every event with a       *)
(* callback ends up connected to it and registered with it, and nothing      *)
(* waits in event_not_connected.                                             *)
AllConnected ==
    /\ \A e \in Connected : cb[e].endpoint = svr.run /\ e \in svr.client_lib
    /\ pending.all = {}
Reconnects ==
    []<>(\/ ~ svr.up
         \/ Refused(svr, Connected \cup {Event(id) : id \in pending.all}) # {}
         \/ AllConnected)

=============================================================================
