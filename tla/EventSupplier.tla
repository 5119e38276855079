---------------------------- MODULE EventSupplier ----------------------------
(***************************************************************************)
(* The server side of change events: the subscription commands of the      *)
(* administration device (eventcmds.cpp), the polls of the polling thread  *)
(* (pollthread.cpp), which detect a change (eventsupplier.cpp) and publish *)
(* the event (zmqeventsupplier.cpp) before they store the value that the   *)
(* clients read (device_5.cpp).  ZMQ itself is external: a SUB socket that *)
(* counts its filters, and a queue that drops what exceeds its high water  *)
(* mark.                                                                   *)
(*                                                                         *)
(* There is one client; the events are attributes of one device, numbered  *)
(* in the order of their names, which is the order of the maps of the      *)
(* client.  Ages are in periods of the keep-alive thread of the client.    *)
(***************************************************************************)
EXTENDS Integers, Sequences, FiniteSets, FiniteSetsExt, SequencesExt

CONSTANTS
    Events,             \* 1 .. N, in the order of their names
    ResubscribePeriod,  \* EVENT_RESUBSCRIBE_PERIOD: a subscription that is not confirmed ends
    Values,             \* the values of an attribute
    Hwm,                \* bound: high water mark of the sockets
    Scenarios           \* the circumstances the runs consider (see Scenario)

(* late: the server may start with an attribute that is not polled yet;     *)
(* stops: bound, how often a polling is stopped; loss: bound, lost          *)
(* heartbeats; ids: the subscriptions the application makes, and to which   *)
(* event; again: an application that unsubscribes; changes: bound, changes  *)
(* of the value of each attribute; runs: bound, runs of the server process. *)
Scenario == [late : BOOLEAN, stops : Nat, loss : Nat,
             ids : UNION {[S -> Events] : S \in SUBSET (1 .. 3)}, again : BOOLEAN,
             changes : [Events -> Nat], runs : Nat]

ASSUME SupplierAssumption ==
    /\ Events \subseteq Nat /\ IsFiniteSet(Events) /\ Events # {}
    /\ Values \subseteq Nat /\ 0 \in Values
    /\ ResubscribePeriod \in Nat \ {0} /\ Hwm \in Nat \ {0}
    /\ Scenarios \subseteq Scenario

VARIABLES
    scenario,  \* a member of Scenarios
    val,       \* [Events -> Nat]: the value of each attribute
    svr,       \* the server process
    sock,      \* the event SUB socket of the client: connected publishers and filters
    wire,      \* events on their way to the client
    lossy      \* history: events whose callbacks may not have the value detected last

supplierVars == <<val, svr, sock, wire, lossy>>

None == -1
NoPoll == [ev |-> None, val |-> None]

(* A server that starts: no subscription, no counter, no known client. *)
NewServer(run, polled) ==
    [up |-> TRUE, run |-> run, polled |-> polled,
     client_lib |-> {}, age |-> [e \in Events |-> 0],
     event_cptr |-> [e \in Events |-> 0],       \* 0: not in the map
     con_client |-> FALSE, double_send |-> 0,
     prev |-> [e \in Events |-> None],           \* prev_change_event, None: not inited
     cache |-> [e \in Events |-> None],          \* newest value in the polling buffer
     poll |-> NoPoll,                           \* a poll that has not stored its value yet
     nb |-> [e \in Events |-> 0]]               \* history: events pushed in this run

FirstPolled == IF scenario.late THEN SUBSET Events ELSE {Events}

SupplierInit ==
    /\ scenario \in Scenarios
    /\ val = [e \in Events |-> 0]
    /\ \E polled \in FirstPolled : svr = NewServer(1, polled)
    /\ sock = [pubs |-> {}, filters |-> [e \in Events |-> 0]]
    /\ wire = <<>>
    /\ lossy = {}

-----------------------------------------------------------------------------
(* The commands of the administration device. *)

(* event_subscription: a change event needs a polled attribute. *)
Accepts(s, e) == s.up /\ e \in s.polled

(* store_subscribed_client_info *)
Stored(s, e) == [s EXCEPT !.client_lib = @ \cup {e}, !.age[e] = 0]

(* update_connected_client: the next event is sent twice to a new client.   *)
ConnectedClient(s) ==
    IF s.con_client THEN s
    ELSE [s EXCEPT !.con_client = TRUE, !.double_send = @ + 1]

(* init_event_cptr *)
InitEventCptr(s, e) ==
    [s EXCEPT !.event_cptr[e] = IF @ = 0 THEN 1 ELSE @]

(* Faulty variant: every subscription starts the counter again. *)
SubscribedAgain(s, e) ==
    [Stored(ConnectedClient(s), e) EXCEPT !.event_cptr[e] = 1]

(* zmq_event_subscription_change, if the event is accepted. *)
Subscribed(s, e) == InitEventCptr(Stored(ConnectedClient(s), e), e)

(* event_confirm_subscription: the events are treated in their order and    *)
(* the first one that is refused ends the command.                          *)
Refused(s, es) == {e \in es : ~ Accepts(s, e)}
ConfirmedEvents(s, es) == {e \in es : \A r \in Refused(s, es) : e < r}

(* Faulty variant: only the first event of the list is confirmed. *)
ConfirmedFirst(s, es) == Stored(s, Min(es))

Confirmed(s, es) ==
    [s EXCEPT !.client_lib = @ \cup ConfirmedEvents(s, es),
              !.age = [e \in Events |-> IF e \in ConfirmedEvents(s, es) THEN 0 ELSE @[e]]]

-----------------------------------------------------------------------------
(* The polling thread. *)

(* detect_change, and the first value after the start of the server. *)
IsChange(s, e) == s.prev[e] = None \/ s.prev[e] # val[e]

(* push_event: the copies of the event and what the sockets do with them.   *)
(* nb and final are history: the number of the event in this run, and       *)
(* whether a copy is the last one.                                          *)
Copies(s, e) ==
    LET n == IF s.double_send > 0 THEN 2 ELSE 1
        sent == IF s.run \in sock.pubs /\ sock.filters[e] > 0 THEN n ELSE 0
        kept == Min({sent, Hwm - Len(wire)})
    IN  [i \in 1 .. kept |->
            [ev |-> e, run |-> s.run, ctr |-> s.event_cptr[e], val |-> val[e],
             nb |-> s.nb[e] + 1, final |-> i = kept]]

Pushed(s, e) ==
    [s EXCEPT !.event_cptr[e] = IF @ = 0 THEN 0 ELSE @ + 1,
              !.double_send = IF @ > 0 THEN @ - 1 ELSE @,
              !.nb[e] = @ + 1, !.prev[e] = val[e]]

(* detect_and_push_events: a subscription that was not confirmed for too    *)
(* long is removed, but takes part in the detection for the last time.      *)
Expired(s, e) == s.age[e] >= ResubscribePeriod
Unexpired(s, e) == IF Expired(s, e) THEN [s EXCEPT !.client_lib = @ \ {e}] ELSE s

(* Without a subscription nothing is compared, and prev stays what it was.  *)
Detects(s, e) == e \in s.client_lib /\ IsChange(s, e)

(* poll_attr: the attribute is read, and the value is pushed if it changed. *)
(* A poll that would find and store nothing new is left out.                *)
Read(s, e) == [s EXCEPT !.poll = [ev |-> e, val |-> val[e]]]
Poll(e) ==
    /\ svr.up /\ e \in svr.polled /\ svr.poll = NoPoll
    /\ \/ /\ ~ Detects(svr, e)
          /\ svr.cache[e] # val[e] \/ (e \in svr.client_lib /\ Expired(svr, e))
          /\ svr' = Read(Unexpired(svr, e), e)
          /\ UNCHANGED <<wire, lossy>>
       \/ /\ Detects(svr, e) /\ Expired(svr, e)
          /\ svr' = Read([Unexpired(svr, e) EXCEPT !.prev[e] = val[e]], e)
          /\ lossy' = lossy \cup {e}
          /\ UNCHANGED wire
       \/ /\ Detects(svr, e) /\ ~ Expired(svr, e)
          /\ svr' = Read(Pushed(svr, e), e)
          /\ wire' = wire \o Copies(svr, e)
          /\ lossy' = IF Len(Copies(svr, e)) = 0 THEN lossy \cup {e} ELSE lossy
    /\ UNCHANGED <<scenario, val, sock>>

(* Only then the value is inserted into the polling buffer. *)
StoreData ==
    /\ svr.up /\ svr.poll # NoPoll
    /\ svr' = [svr EXCEPT !.cache[svr.poll.ev] = svr.poll.val, !.poll = NoPoll]
    /\ UNCHANGED <<scenario, val, sock, wire, lossy>>

(* What read_attribute may bring, with the source CACHE_DEV: what is stored *)
(* or, if nothing is or if it is too old, the value of the device.          *)
ReadFrom(s, e) ==
    IF e \in s.polled /\ s.cache[e] # None THEN {s.cache[e], val[e]} ELSE {val[e]}

-----------------------------------------------------------------------------
(* What happens to the attributes and to the server. *)

Change(e) ==
    /\ scenario.changes[e] > 0
    /\ scenario' = [scenario EXCEPT !.changes[e] = @ - 1]
    /\ \E v \in Values \ {val[e]} : val' = [val EXCEPT ![e] = v]
    /\ UNCHANGED <<svr, sock, wire, lossy>>

(* The polling thread carries these commands out between two polls. *)
StartPolling(e) ==
    /\ svr.up /\ e \notin svr.polled /\ svr.poll = NoPoll
    /\ svr' = [svr EXCEPT !.polled = @ \cup {e}]
    /\ UNCHANGED <<scenario, val, sock, wire, lossy>>

StopPolling(e) ==
    /\ svr.up /\ e \in svr.polled /\ svr.poll = NoPoll /\ scenario.stops > 0
    /\ svr' = [svr EXCEPT !.polled = @ \ {e}, !.cache[e] = None]
    /\ scenario' = [scenario EXCEPT !.stops = @ - 1]
    /\ UNCHANGED <<val, sock, wire, lossy>>

(* The process ends; what it has sent may or may not arrive. *)
Kill ==
    /\ svr.up /\ svr.run < scenario.runs
    /\ svr' = [svr EXCEPT !.up = FALSE]
    /\ wire' \in {wire, <<>>}
    /\ UNCHANGED <<scenario, val, sock, lossy>>

(* It starts again, on other ports. *)
Start ==
    /\ ~ svr.up
    /\ \E polled \in FirstPolled : svr' = NewServer(svr.run + 1, polled)
    /\ UNCHANGED <<scenario, val, sock, wire, lossy>>

SupplierStep ==
    \/ \E e \in Events : Poll(e) \/ Change(e) \/ StartPolling(e) \/ StopPolling(e)
    \/ StoreData \/ Kill \/ Start

=============================================================================
