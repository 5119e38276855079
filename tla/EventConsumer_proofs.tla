------------------------ MODULE EventConsumer_proofs ------------------------
(***************************************************************************)
(* The safety properties of EventConsumer, for any events, periods and     *)
(* scenarios.                                                              *)
(***************************************************************************)
EXTENDS EventConsumer, FiniteSetTheorems, SequenceTheorems, LoopTheorems, TLAPS

(* Who works when: the keep-alive thread leaves the channel alone while a  *)
(* subscription is made, and reconnects only a channel with events.        *)
Reconnecting == {"reconnect", "events", "subscribe", "read", "fire"}
Resubscribing == {"subscribe", "read", "fire"}

PhaseInv ==
    /\ op.pc = "idle" <=> op = NoOp
    /\ op.pc # "idle" => op.id \in Ids /\ ka.pc \in {"asleep", "pending", "channel"}
    /\ ka.pc = "asleep" => ka = Asleep
    /\ ka.pc = "pending" => ka.todo \subseteq Ids
    /\ ka.pc \in {"channel", "heartbeat", "reconnect", "events"} => ka.todo = {}
    /\ ka.pc \in Reconnecting => Connected # {}
    /\ ka.pc \in Resubscribing => ka.todo \subseteq Connected /\ ka.todo # {}

(* The next event is sent twice only to a client that is connected. *)
ServerInv == svr.con_client \/ svr.double_send = 0

DeafInv == TypeOK /\ ServerInv /\ PhaseInv /\ NeverDeaf

-----------------------------------------------------------------------------
(* Subscriptions. *)

(* Publishers are runs of the server up to the present one. *)
RunsInv ==
    /\ \A e \in Connected : cb[e].endpoint <= svr.run
    /\ op.run <= svr.run /\ ka.run <= svr.run

(* The server registered e, and confirms it again before it is too old:    *)
(* the channel counts the periods since the last confirmation of all its   *)
(* events.                                                                 *)
Young(e) ==
    /\ e \in svr.client_lib /\ svr.age[e] <= chan.last_subscribed
    /\ chan.last_subscribed > ConfirmPeriod /\ ka.pc \notin {"pending", "channel"} => svr.age[e] = 0
    /\ ka.pc \in Resubscribing => svr.age[e] = 0

KeptInv ==
    /\ \A e \in Connected \ (blocked \cup Unsubscribed(ka)) :
          svr.up /\ cb[e].endpoint = svr.run => Young(e)
    /\ op.pc = "connect" /\ svr.up /\ op.run = svr.run
          => Event(op.id) \in svr.client_lib /\ svr.age[Event(op.id)] = 0

-----------------------------------------------------------------------------
(* Counters. *)

(* Of two events of one attribute, x was pushed before y, or is a copy of  *)
(* it: within one run of the server the counters follow the events, once   *)
(* there is a counter.                                                     *)
Copy(x, y) == x.run = y.run /\ x.nb = y.nb
Before(x, y) ==
    /\ x.run <= y.run
    /\ x.run = y.run =>
          /\ x.nb <= y.nb
          /\ x.nb = y.nb => x.ctr = y.ctr
          /\ x.ctr > 0 => y.ctr > 0 /\ y.nb - y.ctr = x.nb - x.ctr

(* The event that the server would push next. *)
NextOf(s, e) == [run |-> s.run, nb |-> s.nb[e] + 1, ctr |-> s.event_cptr[e]]
Earlier(x, n) == Before(x, n) /\ ~ Copy(x, n)

(* The queue: at most two copies of an event, and the last one is final.   *)
Ordered(w, s) ==
    /\ \A i \in 1 .. Len(w) : Earlier(w[i], NextOf(s, w[i].ev))
    /\ \A i, j \in 1 .. Len(w) : i < j /\ w[i].ev = w[j].ev
          => /\ Before(w[i], w[j])
             /\ Copy(w[i], w[j]) => w[i].val = w[j].val
    /\ \A i, j, k \in 1 .. Len(w) :
          ~ (/\ i < j /\ j < k /\ w[i].ev = w[j].ev /\ w[j].ev = w[k].ev
             /\ Copy(w[i], w[j]) /\ Copy(w[j], w[k]))
    /\ \A i \in 1 .. Len(w) : ~ w[i].final =>
          \E j \in 1 .. Len(w) : i < j /\ w[i].ev = w[j].ev /\ Copy(w[i], w[j])

(* A callback c and the last event g it got, or was not given because of   *)
(* the monitor, is followed by at most one copy of g, or by none if one    *)
(* has been suppressed.                                                    *)
Follows(e, w, s, c, g) ==
    /\ c.ctr = g.ctr
    /\ Earlier(g, NextOf(s, e))
    /\ \A i \in 1 .. Len(w) : w[i].ev = e =>
          /\ Before(g, w[i])
          /\ c.discarded_event => ~ Copy(g, w[i])
    /\ \A i, j \in 1 .. Len(w) :
          i < j /\ w[i].ev = e /\ w[j].ev = e => ~ Copy(g, w[i]) \/ ~ Copy(g, w[j])

CounterInv ==
    /\ Ordered(wire, svr)
    /\ \A e \in Connected : Follows(e, wire, svr, cb[e], got[e])
    /\ CopyWithinRun /\ GapReported

-----------------------------------------------------------------------------
(* Values. *)

(* The server has detected a value of e, and nothing was lost.              *)
Fresh(e) == svr.up /\ e \notin lossy /\ svr.prev[e] # None

(* The last event of e on its way has the value detected last. *)
LastIsNow(e) ==
    \A i \in 1 .. Len(wire) :
        wire[i].ev = e /\ (\A j \in 1 .. Len(wire) : i < j => wire[j].ev # e)
        => wire[i].val = svr.prev[e]

(* All that is on its way are copies of what was received. *)
AllCopies(e) == \A i \in 1 .. Len(wire) : wire[i].ev = e => Copy(got[e], wire[i])

(* The callbacks have the value detected last, or the thread that subscribes or   *)
(* re-subscribes e is about to give it to them.                             *)
Refiring(e) == ka.pc = "fire" /\ e = Min(ka.todo)
Connects(id) == op.pc \in {"read", "fire"} /\ op.id = id
Given(e) ==
    /\ ~ Refiring(e) => \A id \in cb[e].ids : ~ Connects(id) => seen[id] = svr.prev[e]
    /\ Refiring(e) => ka.da = svr.prev[e]
    /\ op.pc = "fire" /\ Event(op.id) = e => op.da = svr.prev[e]

Valued(e) ==
    /\ \A id \in cb[e].ids : Event(id) = e
    /\ Fresh(e) => LastIsNow(e) /\ (e \in Connected /\ AllCopies(e) => Given(e))

ValueInv == \A e \in Events : Valued(e)

-----------------------------------------------------------------------------
(* The operators of the model. *)

LEMMA MinIs ==
    ASSUME NEW S, S \subseteq Nat, S # {}
    PROVE  Min(S) \in S /\ \A y \in S : Min(S) <= y
<1>1. \E x \in S : \A y \in S : x =< y
  BY LeastNat
<1> QED BY <1>1 DEF Min

LEMMA MinTwo ==
    ASSUME NEW a \in Int, NEW b \in Int
    PROVE  Min({a, b}) = IF a <= b THEN a ELSE b
<1>1. \E x \in {a, b} : \A y \in {a, b} : x =< y
  OBVIOUS
<1>2. Min({a, b}) \in {a, b} /\ \A y \in {a, b} : Min({a, b}) =< y
  BY <1>1 DEF Min
<1> QED BY <1>2

ServerOK(s) == s \in ServerType /\ (s.con_client \/ s.double_send = 0)

LEMMA NewServerFacts ==
    ASSUME NEW run \in Nat \ {0}, NEW polled \in SUBSET Events
    PROVE  ServerOK(NewServer(run, polled))
BY SupplierAssumption DEF ServerOK, ServerType, NewServer, NoPoll

Server(up, run, polled, lib, age, cptr, con, double, prev, nb, cache, poll) ==
    [up |-> up, run |-> run, polled |-> polled, client_lib |-> lib, age |-> age,
     event_cptr |-> cptr, con_client |-> con, double_send |-> double, prev |-> prev,
     cache |-> cache, poll |-> poll, nb |-> nb]

LEMMA StoredFacts ==
    ASSUME NEW s \in ServerType, NEW e \in Events
    PROVE  LET t == Stored(s, e)
           IN  /\ t \in ServerType
               /\ t.up = s.up /\ t.run = s.run /\ t.polled = s.polled
               /\ t.con_client = s.con_client /\ t.double_send = s.double_send
               /\ t.event_cptr = s.event_cptr /\ t.prev = s.prev /\ t.nb = s.nb
               /\ t.client_lib = s.client_lib \cup {e} /\ t.age = [s.age EXCEPT ![e] = 0]
<1> DEFINE lib == s.client_lib \cup {e}
           age == [s.age EXCEPT ![e] = 0]
<1>1. lib \in SUBSET Events /\ age \in [Events -> 0 .. ResubscribePeriod]
  BY SupplierAssumption DEF ServerType
<1>2. Stored(s, e) = [s EXCEPT !.client_lib = lib, !.age = age]
  BY DEF Stored, ServerType
<1> HIDE DEF lib, age
<1>3. Stored(s, e) = Server(s.up, s.run, s.polled, lib, age, s.event_cptr, s.con_client,
                            s.double_send, s.prev, s.nb, s.cache, s.poll)
  BY <1>2 DEF ServerType, Server
<1>4. Stored(s, e) \in ServerType
  BY <1>1, <1>3 DEF Server, ServerType
<1> QED BY <1>3, <1>4 DEF Server, lib, age

LEMMA ConnectedClientFacts ==
    ASSUME NEW s, ServerOK(s)
    PROVE  LET t == ConnectedClient(s)
           IN  /\ ServerOK(t)
               /\ t.up = s.up /\ t.run = s.run /\ t.polled = s.polled
               /\ t.event_cptr = s.event_cptr /\ t.prev = s.prev /\ t.nb = s.nb
               /\ t.client_lib = s.client_lib /\ t.age = s.age
<1>1. CASE s.con_client
  BY <1>1 DEF ConnectedClient
<1>2. CASE ~ s.con_client
  <2>1. s \in ServerType /\ s.double_send = 0
    BY <1>2 DEF ServerOK
  <2>2. ConnectedClient(s) = [s EXCEPT !.con_client = TRUE, !.double_send = 1]
    BY <1>2, <2>1 DEF ConnectedClient, ServerType
  <2>3. ConnectedClient(s) = Server(s.up, s.run, s.polled, s.client_lib, s.age, s.event_cptr,
                                    TRUE, 1, s.prev, s.nb, s.cache, s.poll)
    BY <2>1, <2>2 DEF ServerType, Server
  <2>4. Server(s.up, s.run, s.polled, s.client_lib, s.age, s.event_cptr, TRUE, 1, s.prev, s.nb, s.cache, s.poll)
           \in ServerType
    BY <2>1 DEF ServerType, Server
  <2> QED BY <2>3, <2>4 DEF Server, ServerOK
<1> QED BY <1>1, <1>2

LEMMA InitEventCptrFacts ==
    ASSUME NEW s \in ServerType, NEW e \in Events
    PROVE  LET t == InitEventCptr(s, e)
           IN  /\ t \in ServerType
               /\ t.up = s.up /\ t.run = s.run /\ t.polled = s.polled
               /\ t.con_client = s.con_client /\ t.double_send = s.double_send
               /\ t.prev = s.prev /\ t.nb = s.nb /\ t.client_lib = s.client_lib /\ t.age = s.age
               /\ t.event_cptr = [s.event_cptr EXCEPT ![e] = IF @ = 0 THEN 1 ELSE @]
BY DEF InitEventCptr, ServerType

(* What a subscription changes. *)
SubscribedTo(t, s, e) ==
    /\ ServerOK(t)
    /\ t.up = s.up /\ t.run = s.run /\ t.polled = s.polled /\ t.prev = s.prev /\ t.nb = s.nb
    /\ t.client_lib = s.client_lib \cup {e}
    /\ t.age[e] = 0 /\ \A f \in Events \ {e} : t.age[f] = s.age[f]
    /\ t.event_cptr[e] = (IF s.event_cptr[e] = 0 THEN 1 ELSE s.event_cptr[e])
    /\ \A f \in Events \ {e} : t.event_cptr[f] = s.event_cptr[f]

LEMMA SubscribedFacts ==
    ASSUME NEW s, ServerOK(s), NEW e \in Events
    PROVE  SubscribedTo(Subscribed(s, e), s, e)
<1> DEFINE t1 == ConnectedClient(s)
           t2 == Stored(t1, e)
           t3 == InitEventCptr(t2, e)
<1>1. /\ ServerOK(t1)
      /\ t1.up = s.up /\ t1.run = s.run /\ t1.polled = s.polled
      /\ t1.event_cptr = s.event_cptr /\ t1.prev = s.prev /\ t1.nb = s.nb
      /\ t1.client_lib = s.client_lib /\ t1.age = s.age
  BY ConnectedClientFacts
<1> HIDE DEF t1
<1>2. /\ t2 \in ServerType
      /\ t2.up = t1.up /\ t2.run = t1.run /\ t2.polled = t1.polled
      /\ t2.con_client = t1.con_client /\ t2.double_send = t1.double_send
      /\ t2.event_cptr = t1.event_cptr /\ t2.prev = t1.prev /\ t2.nb = t1.nb
      /\ t2.client_lib = t1.client_lib \cup {e} /\ t2.age = [t1.age EXCEPT ![e] = 0]
  BY <1>1, StoredFacts DEF ServerOK
<1> HIDE DEF t2
<1>3. /\ t3 \in ServerType
      /\ t3.up = t2.up /\ t3.run = t2.run /\ t3.polled = t2.polled
      /\ t3.con_client = t2.con_client /\ t3.double_send = t2.double_send
      /\ t3.prev = t2.prev /\ t3.nb = t2.nb /\ t3.client_lib = t2.client_lib /\ t3.age = t2.age
      /\ t3.event_cptr = [t2.event_cptr EXCEPT ![e] = IF @ = 0 THEN 1 ELSE @]
  BY <1>2, InitEventCptrFacts
<1> HIDE DEF t3
<1>4. s.age \in [Events -> 0 .. ResubscribePeriod] /\ s.event_cptr \in [Events -> Nat]
  BY DEF ServerOK, ServerType
<1>5. t3.age = [s.age EXCEPT ![e] = 0]
      /\ t3.event_cptr = [s.event_cptr EXCEPT ![e] = IF @ = 0 THEN 1 ELSE @]
  BY <1>1, <1>2, <1>3
<1>6. ServerOK(t3)
  BY <1>1, <1>2, <1>3 DEF ServerOK
<1>7. SubscribedTo(t3, s, e)
  BY <1>1, <1>2, <1>3, <1>4, <1>5, <1>6 DEF SubscribedTo
<1> QED BY <1>7 DEF t3, t2, t1, Subscribed

LEMMA ConfirmedFacts ==
    ASSUME NEW s, ServerOK(s), NEW es \in SUBSET Events
    PROVE  LET t == Confirmed(s, es)
           IN  /\ ServerOK(t)
               /\ t.up = s.up /\ t.run = s.run /\ t.polled = s.polled
               /\ t.event_cptr = s.event_cptr /\ t.prev = s.prev /\ t.nb = s.nb
               /\ t.client_lib = s.client_lib \cup ConfirmedEvents(s, es)
               /\ \A e \in Events : t.age[e] = IF e \in ConfirmedEvents(s, es) THEN 0 ELSE s.age[e]
<1>1. ConfirmedEvents(s, es) \subseteq Events
  BY DEF ConfirmedEvents
<1> DEFINE lib == s.client_lib \cup ConfirmedEvents(s, es)
           age == [e \in Events |-> IF e \in ConfirmedEvents(s, es) THEN 0 ELSE s.age[e]]
<1>2. lib \in SUBSET Events /\ age \in [Events -> 0 .. ResubscribePeriod] /\ s \in ServerType
  BY <1>1, SupplierAssumption DEF ServerOK, ServerType
<1>3. Confirmed(s, es) = [s EXCEPT !.client_lib = lib, !.age = age]
  BY <1>2 DEF Confirmed, ServerType
<1> HIDE DEF lib, age
<1>4. Confirmed(s, es) = Server(s.up, s.run, s.polled, lib, age, s.event_cptr, s.con_client,
                                s.double_send, s.prev, s.nb, s.cache, s.poll)
  BY <1>2, <1>3 DEF ServerType, Server
<1>5. Confirmed(s, es) \in ServerType
  BY <1>2, <1>4 DEF Server, ServerType
<1> QED BY <1>4, <1>5 DEF Server, lib, age, ServerOK

(* What the publication of a value v of e changes. *)
PushedFrom(t, s, e, v) ==
    /\ ServerOK(t)
    /\ t.up = s.up /\ t.run = s.run /\ t.polled = s.polled
    /\ t.client_lib = s.client_lib /\ t.age = s.age
    /\ t.event_cptr[e] = (IF s.event_cptr[e] = 0 THEN 0 ELSE s.event_cptr[e] + 1)
    /\ t.nb[e] = s.nb[e] + 1 /\ t.prev[e] = v
    /\ \A f \in Events \ {e} :
          t.event_cptr[f] = s.event_cptr[f] /\ t.nb[f] = s.nb[f] /\ t.prev[f] = s.prev[f]

LEMMA PushedFacts ==
    ASSUME NEW s, ServerOK(s), NEW e \in Events, val \in [Events -> Nat]
    PROVE  PushedFrom(Pushed(s, e), s, e, val[e])
<1> DEFINE cptr == [s.event_cptr EXCEPT ![e] = IF @ = 0 THEN 0 ELSE @ + 1]
           double == IF s.double_send > 0 THEN s.double_send - 1 ELSE s.double_send
           nb == [s.nb EXCEPT ![e] = @ + 1]
           prev == [s.prev EXCEPT ![e] = val[e]]
<1>1. s \in ServerType
  BY DEF ServerOK
<1>2. cptr \in [Events -> Nat] /\ nb \in [Events -> Nat]
  BY <1>1 DEF ServerType
<1>3. prev \in [Events -> Nat \cup {None}]
  BY <1>1 DEF ServerType
<1>4. double \in 0 .. 1 /\ (s.double_send = 0 => double = 0)
  BY <1>1 DEF ServerType
<1>5. Pushed(s, e) = [s EXCEPT !.event_cptr = cptr, !.double_send = double, !.nb = nb, !.prev = prev]
  BY <1>1 DEF Pushed, ServerType
<1>6. /\ cptr[e] = (IF s.event_cptr[e] = 0 THEN 0 ELSE s.event_cptr[e] + 1)
      /\ nb[e] = s.nb[e] + 1 /\ prev[e] = val[e]
      /\ \A f \in Events \ {e} : cptr[f] = s.event_cptr[f] /\ nb[f] = s.nb[f] /\ prev[f] = s.prev[f]
  BY <1>1 DEF ServerType
<1> HIDE DEF cptr, double, nb, prev
<1>7. Pushed(s, e) = Server(s.up, s.run, s.polled, s.client_lib, s.age, cptr, s.con_client,
                            double, prev, nb, s.cache, s.poll)
  BY <1>1, <1>5 DEF ServerType, Server
<1>8. Pushed(s, e) \in ServerType
  BY <1>1, <1>2, <1>3, <1>4, <1>7 DEF Server, ServerType
<1>9. ServerOK(Pushed(s, e))
  BY <1>4, <1>7, <1>8 DEF Server, ServerOK
<1> QED BY <1>6, <1>7, <1>9 DEF Server, PushedFrom

(* A poll: the attribute is read, an expired subscription removed, and     *)
(* nothing, or a change, is detected.                                      *)
LEMMA ReadFacts ==
    ASSUME NEW s, ServerOK(s), NEW e \in Events, val \in [Events -> Nat]
    PROVE  LET t == Read(s, e)
           IN  /\ ServerOK(t)
               /\ t.up = s.up /\ t.run = s.run /\ t.polled = s.polled
               /\ t.client_lib = s.client_lib /\ t.age = s.age
               /\ t.event_cptr = s.event_cptr /\ t.prev = s.prev /\ t.nb = s.nb
<1> DEFINE poll == [ev |-> e, val |-> val[e]]
<1>1. s \in ServerType /\ poll \in [ev : Events, val : Nat]
  BY DEF ServerOK
<1>2. Read(s, e) = [s EXCEPT !.poll = poll]
  BY DEF Read
<1> HIDE DEF poll
<1>3. Read(s, e) = Server(s.up, s.run, s.polled, s.client_lib, s.age, s.event_cptr, s.con_client,
                          s.double_send, s.prev, s.nb, s.cache, poll)
  BY <1>1, <1>2 DEF ServerType, Server
<1>4. Read(s, e) \in ServerType
  BY <1>1, <1>3 DEF Server, ServerType
<1> QED BY <1>3, <1>4 DEF Server, ServerOK

LeftFrom(t, s, lib, prev) ==
    /\ ServerOK(t)
    /\ t.up = s.up /\ t.run = s.run /\ t.polled = s.polled
    /\ t.client_lib = lib /\ t.age = s.age
    /\ t.event_cptr = s.event_cptr /\ t.prev = prev /\ t.nb = s.nb

LEMMA LeftFacts ==
    ASSUME NEW s, ServerOK(s), NEW lib \in SUBSET Events, NEW prev \in [Events -> Nat \cup {None}],
           NEW t, t = [s EXCEPT !.client_lib = lib, !.prev = prev]
    PROVE  LeftFrom(t, s, lib, prev)
<1>1. s \in ServerType
  BY DEF ServerOK
<1>2. t = Server(s.up, s.run, s.polled, lib, s.age, s.event_cptr, s.con_client,
                 s.double_send, prev, s.nb, s.cache, s.poll)
  BY <1>1 DEF ServerType, Server
<1>3. t \in ServerType
  BY <1>1, <1>2 DEF Server, ServerType
<1> QED BY <1>2, <1>3 DEF Server, ServerOK, LeftFrom

PollServer ==
    /\ ServerOK(svr') /\ svr.up
    /\ svr'.up = svr.up /\ svr'.run = svr.run /\ svr'.polled = svr.polled /\ svr'.age = svr.age
QuietPoll(e) ==
    /\ svr'.client_lib = svr.client_lib \/ (Expired(svr, e) /\ svr'.client_lib = svr.client_lib \ {e})
    /\ svr'.event_cptr = svr.event_cptr /\ svr'.nb = svr.nb /\ svr'.prev = svr.prev
    /\ UNCHANGED <<wire, lossy>>
ExpiredPoll(e) ==
    /\ Expired(svr, e) /\ svr'.client_lib = svr.client_lib \ {e}
    /\ svr'.event_cptr = svr.event_cptr /\ svr'.nb = svr.nb
    /\ \A f \in Events \ {e} : svr'.prev[f] = svr.prev[f]
    /\ wire' = wire /\ lossy' = lossy \cup {e}
PushingPoll(e) ==
    /\ PushedFrom(svr', svr, e, val[e])
    /\ svr' = Read(Pushed(svr, e), e) /\ ServerOK(Pushed(svr, e))
    /\ wire' = wire \o Copies(svr, e)
    /\ lossy' = IF Len(Copies(svr, e)) = 0 THEN lossy \cup {e} ELSE lossy

LEMMA PollEffect ==
    ASSUME ServerOK(svr), val \in [Events -> Nat], NEW e \in Events, Poll(e)
    PROVE  /\ UNCHANGED <<scenario, val, sock>>
           /\ PollServer /\ (QuietPoll(e) \/ ExpiredPoll(e) \/ PushingPoll(e))
<1>0. svr \in ServerType /\ svr.client_lib \in SUBSET Events /\ svr.prev \in [Events -> Nat \cup {None}]
  BY DEF ServerOK, ServerType
<1>1. svr.up /\ UNCHANGED <<scenario, val, sock>>
  BY DEF Poll
<1>a. PICK lib : lib = IF Expired(svr, e) THEN svr.client_lib \ {e} ELSE svr.client_lib
  OBVIOUS
<1>2. lib \in SUBSET Events
  BY <1>0, <1>a
<1>3. Unexpired(svr, e) = [svr EXCEPT !.client_lib = lib, !.prev = svr.prev]
  BY <1>0, <1>a DEF Unexpired, ServerType
<1>4. CASE svr' = Read(Unexpired(svr, e), e) /\ UNCHANGED <<wire, lossy>>
  <2>0. PICK t : t = [svr EXCEPT !.client_lib = lib, !.prev = svr.prev]
    OBVIOUS
  <2>1. /\ ServerOK(t) /\ t.up = svr.up /\ t.run = svr.run /\ t.polled = svr.polled
        /\ t.client_lib = lib /\ t.age = svr.age
        /\ t.event_cptr = svr.event_cptr /\ t.prev = svr.prev /\ t.nb = svr.nb
    <3>1. LeftFrom(t, svr, lib, svr.prev)
      BY <1>0, <1>2, <2>0, LeftFacts
    <3> QED BY <3>1 DEF LeftFrom
  <2>2. svr' = Read(t, e)
    BY <1>3, <1>4, <2>0
  <2>3. /\ ServerOK(svr') /\ svr'.up = t.up /\ svr'.run = t.run /\ svr'.polled = t.polled
        /\ svr'.client_lib = t.client_lib /\ svr'.age = t.age
        /\ svr'.event_cptr = t.event_cptr /\ svr'.prev = t.prev /\ svr'.nb = t.nb
    BY <2>1, <2>2, ReadFacts
  <2>4. PollServer
    BY <1>1, <2>1, <2>3 DEF PollServer
  <2>5. QuietPoll(e)
    BY <1>4, <1>a, <2>1, <2>3 DEF QuietPoll
  <2> QED BY <1>1, <2>4, <2>5
<1>5. CASE /\ Expired(svr, e) /\ svr' = Read([Unexpired(svr, e) EXCEPT !.prev[e] = val[e]], e)
           /\ lossy' = lossy \cup {e} /\ wire' = wire
  <2> DEFINE prev == [svr.prev EXCEPT ![e] = val[e]]
  <2>0. PICK t : t = [svr EXCEPT !.client_lib = lib, !.prev = prev]
    OBVIOUS
  <2>1. prev \in [Events -> Nat \cup {None}] /\ \A f \in Events \ {e} : prev[f] = svr.prev[f]
    BY <1>0
  <2>2. [Unexpired(svr, e) EXCEPT !.prev[e] = val[e]] = t
    BY <1>0, <1>3, <2>0 DEF ServerType
  <2> HIDE DEF prev
  <2>3. /\ ServerOK(t) /\ t.up = svr.up /\ t.run = svr.run /\ t.polled = svr.polled
        /\ t.client_lib = lib /\ t.age = svr.age
        /\ t.event_cptr = svr.event_cptr /\ t.prev = prev /\ t.nb = svr.nb
    <3>1. LeftFrom(t, svr, lib, prev)
      BY <1>2, <2>0, <2>1, LeftFacts
    <3> QED BY <3>1 DEF LeftFrom
  <2>4. svr' = Read(t, e)
    BY <1>5, <2>2
  <2>5. /\ ServerOK(svr') /\ svr'.up = t.up /\ svr'.run = t.run /\ svr'.polled = t.polled
        /\ svr'.client_lib = t.client_lib /\ svr'.age = t.age
        /\ svr'.event_cptr = t.event_cptr /\ svr'.prev = t.prev /\ svr'.nb = t.nb
    BY <2>3, <2>4, ReadFacts
  <2>6. PollServer
    BY <1>1, <2>3, <2>5 DEF PollServer
  <2>7. ExpiredPoll(e)
    BY <1>5, <1>a, <2>1, <2>3, <2>5 DEF ExpiredPoll
  <2> QED BY <1>1, <2>6, <2>7
<1>6. CASE /\ svr' = Read(Pushed(svr, e), e) /\ wire' = wire \o Copies(svr, e)
           /\ lossy' = IF Len(Copies(svr, e)) = 0 THEN lossy \cup {e} ELSE lossy
  <2> DEFINE t == Pushed(svr, e)
  <2>1. PushedFrom(t, svr, e, val[e]) /\ ServerOK(t)
    BY PushedFacts DEF PushedFrom
  <2>2. svr' = Read(t, e)
    BY <1>6
  <2> HIDE DEF t
  <2>3. /\ ServerOK(svr') /\ svr'.up = t.up /\ svr'.run = t.run /\ svr'.polled = t.polled
        /\ svr'.client_lib = t.client_lib /\ svr'.age = t.age
        /\ svr'.event_cptr = t.event_cptr /\ svr'.prev = t.prev /\ svr'.nb = t.nb
    BY <2>1, <2>2, ReadFacts
  <2>4. PollServer
    BY <1>1, <2>1, <2>3 DEF PollServer, PushedFrom
  <2>5. PushedFrom(svr', svr, e, val[e])
    BY <2>1, <2>3 DEF PushedFrom
  <2>6. PushingPoll(e)
    BY <1>6, <2>1, <2>5 DEF PushingPoll, t
  <2> QED BY <1>1, <2>4, <2>6
<1> QED BY <1>4, <1>5, <1>6 DEF Poll

LEMMA ReadFromFacts ==
    ASSUME ServerOK(svr), val \in [Events -> Nat], NEW e \in Events
    PROVE  ReadFrom(svr, e) \subseteq Nat
<1>1. svr.cache[e] \in Nat \cup {None} /\ val[e] \in Nat
  BY DEF ServerOK, ServerType
<1> QED BY <1>1 DEF ReadFrom

Published(s, e, v, last) ==
    [ev |-> e, run |-> s.run, ctr |-> s.event_cptr[e], val |-> v, nb |-> s.nb[e] + 1, final |-> last]

LEMMA PublishedType ==
    ASSUME NEW s \in ServerType, NEW e \in Events, NEW v \in Nat, NEW last \in BOOLEAN
    PROVE  Published(s, e, v, last) \in MessageType
<1>1. s.run \in Nat \ {0} /\ s.event_cptr[e] \in Nat /\ s.nb[e] + 1 \in Nat \ {0}
  BY DEF ServerType
<1> QED BY <1>1 DEF Published, MessageType

LEMMA CopiesFacts ==
    ASSUME NEW s \in ServerType, NEW e \in Events, val \in [Events -> Nat],
           Len(wire) \in Nat, Len(wire) <= Hwm
    PROVE  /\ Copies(s, e) \in Seq(MessageType)
           /\ Len(Copies(s, e)) \in 0 .. 2 /\ Len(wire) + Len(Copies(s, e)) <= Hwm
           /\ \A i \in 1 .. Len(Copies(s, e)) :
                 Copies(s, e)[i] = Published(s, e, val[e], i = Len(Copies(s, e)))
<1> DEFINE n == IF s.double_send > 0 THEN 2 ELSE 1
           sent == IF s.run \in sock.pubs /\ sock.filters[e] > 0 THEN n ELSE 0
           kept == Min({sent, Hwm - Len(wire)})
           w == [i \in 1 .. kept |-> Published(s, e, val[e], i = kept)]
<1>1. sent \in 0 .. 2 /\ Hwm - Len(wire) \in Nat
  BY SupplierAssumption
<1> HIDE DEF sent
<1>2. kept = IF sent <= Hwm - Len(wire) THEN sent ELSE Hwm - Len(wire)
  BY <1>1, MinTwo
<1>3. Copies(s, e) = w
  BY DEF Copies, Published, sent
<1>4. kept \in 0 .. 2 /\ Len(wire) + kept <= Hwm
  BY <1>1, <1>2, SupplierAssumption
<1> HIDE DEF kept
<1>5. \A i \in 1 .. kept : Published(s, e, val[e], i = kept) \in MessageType
  BY PublishedType
<1>6. w \in Seq(MessageType) /\ Len(w) = kept
  BY <1>4, <1>5
<1> QED BY <1>3, <1>4, <1>6

(* A subscription gets older by one period. *)
Older(s) == [s EXCEPT !.age = [e \in Events |-> IF e \in s.client_lib
                                THEN Min({@[e] + 1, ResubscribePeriod}) ELSE 0]]

LEMMA OlderFacts ==
    ASSUME NEW s, ServerOK(s)
    PROVE  LET t == Older(s)
           IN  /\ ServerOK(t)
               /\ t.up = s.up /\ t.run = s.run /\ t.polled = s.polled
               /\ t.event_cptr = s.event_cptr /\ t.prev = s.prev /\ t.nb = s.nb
               /\ t.client_lib = s.client_lib
               /\ \A e \in s.client_lib : t.age[e] <= s.age[e] + 1
<1> DEFINE age == [e \in Events |-> IF e \in s.client_lib
                     THEN IF s.age[e] + 1 <= ResubscribePeriod THEN s.age[e] + 1
                          ELSE ResubscribePeriod ELSE 0]
<1>1. s \in ServerType /\ s.client_lib \subseteq Events /\ s.age \in [Events -> 0 .. ResubscribePeriod]
  BY DEF ServerOK, ServerType
<1>2. age \in [Events -> 0 .. ResubscribePeriod]
  BY <1>1, SupplierAssumption
<1>3. \A e \in s.client_lib : age[e] <= s.age[e] + 1
  <2> TAKE e \in s.client_lib
  <2>1. e \in Events /\ s.age[e] \in Int
    BY <1>1
  <2>2. age[e] = IF s.age[e] + 1 <= ResubscribePeriod THEN s.age[e] + 1 ELSE ResubscribePeriod
    BY <2>1
  <2> QED BY <2>1, <2>2, SupplierAssumption
<1>4. \A e \in Events : Min({s.age[e] + 1, ResubscribePeriod})
          = IF s.age[e] + 1 <= ResubscribePeriod THEN s.age[e] + 1 ELSE ResubscribePeriod
  <2> TAKE e \in Events
  <2>1. s.age[e] + 1 \in Int /\ ResubscribePeriod \in Int
    BY <1>1, SupplierAssumption
  <2> QED BY <2>1, MinTwo
<1>5. age = [e \in Events |-> IF e \in s.client_lib
                THEN Min({s.age[e] + 1, ResubscribePeriod}) ELSE 0]
  BY <1>4
<1> HIDE DEF age
<1>6. Older(s) = [s EXCEPT !.age = age]
  BY <1>1, <1>5 DEF Older, ServerType
<1>7. Older(s) = Server(s.up, s.run, s.polled, s.client_lib, age, s.event_cptr, s.con_client,
                        s.double_send, s.prev, s.nb, s.cache, s.poll)
  BY <1>1, <1>6 DEF ServerType, Server
<1>8. Older(s) \in ServerType
  BY <1>1, <1>2, <1>7 DEF Server, ServerType
<1> QED BY <1>3, <1>7, <1>8 DEF Server, ServerOK

-----------------------------------------------------------------------------
(* What is left of the queue w without the events of one publisher: all    *)
(* the others, in their order; h gives the place each one had.             *)
Left(u, w, i, run, h) ==
    /\ h \in [1 .. Len(u) -> 1 .. i]
    /\ \A a, b \in 1 .. Len(u) : a < b => h[a] < h[b]
    /\ \A a \in 1 .. Len(u) : u[a] = w[h[a]] /\ w[h[a]].run # run
    /\ \A j \in 1 .. i : w[j].run # run => \E a \in 1 .. Len(u) : h[a] = j

LEMMA NotFromLoop ==
    ASSUME NEW w \in Seq(MessageType), NEW run
    PROVE  \E left : /\ left \in [0 .. Len(w) -> Seq(MessageType)] /\ left[0] = <<>>
                     /\ \A i \in 1 .. Len(w) :
                           left[i] = IF w[i].run = run THEN left[i - 1] ELSE Append(left[i - 1], w[i])
                     /\ NotFrom(w, run) = left[Len(w)]
<1> DEFINE n == Len(w)
           Turn(i, s) == IF w[i].run = run THEN s ELSE Append(s, w[i])
           step == [x \in (1 .. n) \X Seq(MessageType) |-> Turn(x[1], x[2])]
<1>1. n \in Nat /\ \A i \in 1 .. n : w[i] \in MessageType
  OBVIOUS
<1>2. \A i \in 1 .. n, s \in Seq(MessageType) : Turn(i, s) \in Seq(MessageType)
  BY <1>1
<1>3. \A i \in 1 .. n, s \in Seq(MessageType) : step[<<i, s>>] = Turn(i, s)
  OBVIOUS
<1>4. step \in Turns(n, Seq(MessageType))
  BY <1>2 DEF Turns
<1> HIDE DEF step, Turn, n
<1>5. <<>> \in Seq(MessageType)
  OBVIOUS
<1>6. PICK f : IsLoop(n, Seq(MessageType), <<>>, step, f)
  BY <1>1, <1>4, <1>5, LoopExists
<1>7. f \in [0 .. n -> Seq(MessageType)] /\ f[0] = <<>>
      /\ \A i \in 1 .. n : f[i] = step[<<i, f[i - 1]>>]
  BY <1>6 DEF IsLoop
<1>8. \A i \in 1 .. n : i - 1 \in 0 .. n /\ f[i - 1] \in Seq(MessageType)
  BY <1>1, <1>7
<1>9. \A i \in 1 .. n : f[i] = Turn(i, f[i - 1])
  BY <1>3, <1>7, <1>8
<1>10. f = [i \in 0 .. n |-> IF i = 0 THEN <<>> ELSE Turn(i, f[i - 1])]
  BY <1>1, <1>7, <1>9
<1> DEFINE left[i \in 0 .. n] == IF i = 0 THEN <<>> ELSE Turn(i, left[i - 1])
<1>11. left = [i \in 0 .. n |-> IF i = 0 THEN <<>> ELSE Turn(i, left[i - 1])]
  BY <1>10
<1>12. NotFrom(w, run) = left[n]
  BY DEF NotFrom, n, Turn
<1> HIDE DEF left
<1>13. DOMAIN left = 0 .. n /\ left[0] = <<>> /\ \A i \in 1 .. n : left[i] = Turn(i, left[i - 1])
  BY <1>1, <1>11
<1>14. \A i \in 0 .. n : left[i] = f[i]
  <2> DEFINE G == {i \in 0 .. n : left[i] = f[i]}
  <2>1. 0 \in G
    BY <1>1, <1>7, <1>13
  <2>2. \A m \in 1 .. n : m - 1 \in G => m \in G
    BY <1>1, <1>9, <1>13
  <2> HIDE DEF G
  <2>3. 0 .. n \subseteq G
    BY <1>1, <2>1, <2>2, UpTo
  <2> QED BY <2>3 DEF G
<1>15. n \in 0 .. n
  BY <1>1
<1> QED BY <1>7, <1>9, <1>12, <1>14, <1>15 DEF n, Turn

LEMMA NotFromFacts ==
    ASSUME NEW w \in Seq(MessageType), NEW run
    PROVE  /\ NotFrom(w, run) \in Seq(MessageType) /\ Len(NotFrom(w, run)) <= Len(w)
           /\ \E h : Left(NotFrom(w, run), w, Len(w), run, h)
<1> DEFINE n == Len(w)
<1>1. PICK left : /\ left \in [0 .. n -> Seq(MessageType)] /\ left[0] = <<>>
                  /\ \A i \in 1 .. n :
                        left[i] = IF w[i].run = run THEN left[i - 1] ELSE Append(left[i - 1], w[i])
                  /\ NotFrom(w, run) = left[n]
  BY NotFromLoop
<1>2. n \in Nat
  OBVIOUS
<1> DEFINE G == {i \in 0 .. n : Len(left[i]) <= i /\ \E h : Left(left[i], w, i, run, h)}
<1>3. 0 \in G
  <2> DEFINE h == [a \in 1 .. 0 |-> 1]
  <2>1. Len(left[0]) = 0
    BY <1>1
  <2>2. 1 .. Len(left[0]) = {} /\ 1 .. 0 = {}
    BY <2>1
  <2>3. h \in [1 .. Len(left[0]) -> 1 .. 0]
    BY <2>2
  <2> HIDE DEF h
  <2>4. Left(left[0], w, 0, run, h)
    BY <2>2, <2>3 DEF Left
  <2> QED BY <1>2, <2>1, <2>4
<1>4. ASSUME NEW m \in 1 .. n, m - 1 \in G PROVE m \in G
  <2>1. m - 1 \in 0 .. n /\ left[m - 1] \in Seq(MessageType) /\ Len(left[m - 1]) <= m - 1
        /\ m \in 0 .. n
    BY <1>1, <1>2, <1>4
  <2>2. PICK h : Left(left[m - 1], w, m - 1, run, h)
    BY <1>4
  <2> DEFINE u == left[m - 1]
             k == Len(u)
  <2> HIDE DEF G
  <2>3. k \in Nat /\ k <= m - 1 /\ u \in Seq(MessageType)
    BY <2>1
  <2>4. CASE w[m].run = run
    <3>1. left[m] = u
      BY <1>1, <2>4
    <3>2. h \in [1 .. k -> 1 .. m]
      BY <1>2, <2>2 DEF Left
    <3>3. Left(u, w, m, run, h)
      BY <1>2, <2>2, <2>4, <3>2 DEF Left
    <3> QED BY <2>1, <2>3, <3>1, <3>3 DEF G
  <2>5. CASE w[m].run # run
    <3> DEFINE v == Append(u, w[m])
               g == [a \in 1 .. k + 1 |-> IF a = k + 1 THEN m ELSE h[a]]
    <3>1. left[m] = v
      BY <1>1, <2>5
    <3>2. Len(v) = k + 1 /\ v[k + 1] = w[m] /\ \A a \in 1 .. k : v[a] = u[a]
      BY <1>2, <2>3
    <3>3. /\ g[k + 1] = m /\ \A a \in 1 .. k : g[a] = h[a]
          /\ 1 .. k + 1 = 1 .. k \cup {k + 1} /\ k + 1 \notin 1 .. k
      BY <2>3
    <3>4. \A a \in 1 .. k : h[a] \in 1 .. m - 1
      BY <2>2 DEF Left
    <3>5. g \in [1 .. k + 1 -> 1 .. m]
      BY <1>2, <2>3, <3>4
    <3> HIDE DEF v, g, u
    <3>6. \A a, b \in 1 .. k + 1 : a < b => g[a] < g[b]
      <4> SUFFICES ASSUME NEW a \in 1 .. k + 1, NEW b \in 1 .. k + 1, a < b PROVE g[a] < g[b]
        OBVIOUS
      <4>1. a \in 1 .. k
        BY <2>3
      <4>2. CASE b = k + 1
        BY <1>2, <3>3, <3>4, <4>1, <4>2
      <4>3. CASE b # k + 1
        <5>1. b \in 1 .. k
          BY <3>3, <4>3
        <5> QED BY <2>2, <3>3, <4>1, <5>1 DEF Left, u
      <4> QED BY <4>2, <4>3
    <3>7. \A a \in 1 .. k + 1 : v[a] = w[g[a]] /\ w[g[a]].run # run
      <4> TAKE a \in 1 .. k + 1
      <4>1. CASE a = k + 1
        BY <2>5, <3>2, <3>3, <4>1
      <4>2. CASE a # k + 1
        <5>1. a \in 1 .. k
          BY <3>3, <4>2
        <5> QED BY <2>2, <3>2, <3>3, <5>1 DEF Left, u
      <4> QED BY <4>1, <4>2
    <3>8. ASSUME NEW j \in 1 .. m, w[j].run # run PROVE \E a \in 1 .. k + 1 : g[a] = j
      <4>1. CASE j = m
        BY <3>3, <4>1
      <4>2. CASE j # m
        <5>1. j \in 1 .. m - 1
          BY <1>2, <4>2
        <5>2. PICK a \in 1 .. k : h[a] = j
          BY <2>2, <3>8, <5>1 DEF Left, u
        <5> QED BY <3>3, <5>2
      <4> QED BY <4>1, <4>2
    <3>9. Left(v, w, m, run, g)
      BY <3>2, <3>5, <3>6, <3>7, <3>8 DEF Left
    <3> QED BY <2>1, <2>3, <3>1, <3>2, <3>9 DEF G
  <2> QED BY <2>4, <2>5
<1> HIDE DEF G
<1>5. 0 .. n \subseteq G
  BY <1>2, <1>3, <1>4, UpTo
<1>6. n \in G /\ n \in 0 .. n
  BY <1>2, <1>5
<1> QED BY <1>1, <1>6 DEF G

-----------------------------------------------------------------------------
(* Types, phases, and that no event with a callback is deaf. *)

LEMMA IdsFacts ==
    ASSUME scenario \in Scenario
    PROVE  Ids \subseteq 1 .. 3 /\ \A id \in Ids : Event(id) \in Events
<1>1. scenario.ids \in UNION {[S -> Events] : S \in SUBSET (1 .. 3)}
  BY DEF Scenario
<1>2. PICK S \in SUBSET (1 .. 3) : scenario.ids \in [S -> Events]
  BY <1>1
<1> QED BY <1>2 DEF Ids, Event

LEMMA SameIds ==
    ASSUME scenario'.ids = scenario.ids
    PROVE  Ids' = Ids /\ CallbackType' = CallbackType /\ OpType' = OpType /\ KaType' = KaType
BY DEF Ids, CallbackType, OpType, KaType

LEMMA SameClients ==
    ASSUME \A e \in Events : cb'[e].ids = cb[e].ids
    PROVE  Connected' = Connected
BY DEF Connected

LEMMA ConnectedEvents == Connected \subseteq Events /\ Connected \subseteq Nat /\ Events \subseteq Nat
BY SupplierAssumption DEF Connected

LEMMA DeafInit == Init => DeafInv
<1> SUFFICES ASSUME Init PROVE DeafInv
  OBVIOUS
<1>1. SupplierInit
  BY DEF Init
<1>2. PICK polled \in FirstPolled : svr = NewServer(1, polled)
  BY <1>1 DEF SupplierInit
<1>3. polled \in SUBSET Events
  BY <1>2 DEF FirstPolled
<1>4. ServerOK(svr)
  BY <1>2, <1>3, NewServerFacts
<1>5. scenario \in Scenario
  BY <1>1, SupplierAssumption DEF SupplierInit
<1>6. SupplierTypes
  BY <1>1, <1>4, <1>5, SupplierAssumption DEF SupplierInit, SupplierTypes, SocketType, ServerOK
<1>7. ConsumerTypes
  <2>1. chan \in ChannelType
    BY ConsumerAssumption DEF Init, NoChannel, ChannelType
  <2>2. cb \in [Events -> CallbackType]
    BY DEF Init, NoCallback, CallbackType
  <2>3. op \in OpType
    BY DEF Init, NoOp, OpType
  <2>4. ka \in KaType
    BY DEF Init, Asleep, KaType
  <2> QED BY <2>1, <2>2, <2>3, <2>4 DEF Init, ConsumerTypes
<1>8. HistoryTypes
  BY DEF Init, HistoryTypes, NoEvent
<1>9. Connected = {}
  BY DEF Init, Connected, NoCallback
<1>10. PhaseInv
  BY DEF Init, PhaseInv, NoOp, Asleep, Reconnecting, Resubscribing
<1>11. NeverDeaf
  BY <1>9 DEF Init, NeverDeaf, NoChannel
<1> QED BY <1>4, <1>6, <1>7, <1>8, <1>10, <1>11 DEF DeafInv, TypeOK, ServerInv, ServerOK

(* Steps of the server leave the client alone. *)
LEMMA ConsumerKept ==
    ASSUME DeafInv, UNCHANGED consumerVars, scenario'.ids = scenario.ids, sock' = sock
    PROVE  ConsumerTypes' /\ PhaseInv' /\ NeverDeaf'
<1>1. Ids' = Ids /\ CallbackType' = CallbackType /\ OpType' = OpType /\ KaType' = KaType
  BY SameIds
<1>2. cb' = cb /\ chan' = chan /\ op' = op /\ ka' = ka /\ pending' = pending /\ used' = used
  BY DEF consumerVars
<1>3. Connected' = Connected
  BY <1>2, SameClients
<1> QED BY <1>1, <1>2, <1>3 DEF DeafInv, TypeOK, ConsumerTypes, PhaseInv, NeverDeaf

LEMMA HistoryKept ==
    ASSUME DeafInv, UNCHANGED historyVars, scenario'.ids = scenario.ids
    PROVE  HistoryTypes'
<1>1. Ids' = Ids
  BY SameIds
<1> QED BY <1>1 DEF DeafInv, TypeOK, HistoryTypes, historyVars

LEMMA SupplierKept ==
    ASSUME DeafInv, UNCHANGED <<scenario, supplierVars>>
    PROVE  SupplierTypes' /\ ServerInv'
BY DEF DeafInv, TypeOK, SupplierTypes, supplierVars, ServerInv

LEMMA PollDeaf == ASSUME DeafInv, NEW e \in Events, Poll(e) PROVE SupplierTypes' /\ ServerInv'
<1>1. /\ scenario \in Scenario /\ val \in [Events -> Nat] /\ ServerOK(svr) /\ svr \in ServerType
      /\ sock \in SocketType /\ wire \in Seq(MessageType) /\ Len(wire) <= Hwm /\ lossy \subseteq Events
      /\ Len(wire) \in Nat
  BY DEF DeafInv, TypeOK, SupplierTypes, ServerInv, ServerOK
<1>2. UNCHANGED <<scenario, val, sock>> /\ ServerOK(svr')
      /\ (QuietPoll(e) \/ ExpiredPoll(e) \/ PushingPoll(e))
  BY <1>1, PollEffect DEF PollServer
<1>3. CASE QuietPoll(e) \/ ExpiredPoll(e)
  <2>1. wire' = wire /\ lossy' \in {lossy, lossy \cup {e}}
    BY <1>3 DEF QuietPoll, ExpiredPoll
  <2> QED BY <1>1, <1>2, <2>1 DEF SupplierTypes, ServerInv, ServerOK
<1>4. CASE PushingPoll(e)
  <2>1. wire' = wire \o Copies(svr, e) /\ lossy' \in {lossy, lossy \cup {e}}
    BY <1>4 DEF PushingPoll
  <2> DEFINE w == Copies(svr, e)
  <2>3. w \in Seq(MessageType) /\ Len(w) \in Nat /\ Len(wire) + Len(w) <= Hwm
    BY <1>1, CopiesFacts
  <2> HIDE DEF w
  <2>4. wire \o w \in Seq(MessageType) /\ Len(wire \o w) = Len(wire) + Len(w)
    BY <1>1, <2>3
  <2>5. wire' \in Seq(MessageType) /\ Len(wire') <= Hwm
    BY <2>1, <2>3, <2>4 DEF w
  <2> QED BY <1>1, <1>2, <2>1, <2>5 DEF SupplierTypes, ServerInv, ServerOK
<1> QED BY <1>2, <1>3, <1>4

(* The fields of the server that neither subscriptions nor events use. *)
SameEvents(t, s) ==
    /\ ServerOK(t) /\ t.up = s.up /\ t.run = s.run
    /\ t.client_lib = s.client_lib /\ t.age = s.age
    /\ t.event_cptr = s.event_cptr /\ t.prev = s.prev /\ t.nb = s.nb

LEMMA CacheFacts ==
    ASSUME NEW s, ServerOK(s), NEW polled \in SUBSET Events,
           NEW cache \in [Events -> Nat \cup {None}],
           NEW poll \in [ev : Events, val : Nat] \cup {NoPoll},
           NEW t, t = [s EXCEPT !.polled = polled, !.cache = cache, !.poll = poll]
    PROVE  SameEvents(t, s)
<1>1. s \in ServerType
  BY DEF ServerOK
<1>2. t = Server(s.up, s.run, polled, s.client_lib, s.age, s.event_cptr, s.con_client,
                 s.double_send, s.prev, s.nb, cache, poll)
  BY <1>1 DEF ServerType, Server
<1>3. t \in ServerType
  BY <1>1, <1>2 DEF Server, ServerType
<1> QED BY <1>2, <1>3 DEF Server, ServerOK, SameEvents

LEMMA PollingFacts ==
    ASSUME ServerOK(svr), NEW e \in Events, StartPolling(e) \/ StopPolling(e) \/ StoreData
    PROVE  SameEvents(svr', svr) /\ UNCHANGED <<val, sock, wire, lossy>>
<1>1. /\ svr \in ServerType /\ svr.polled \in SUBSET Events
      /\ svr.cache \in [Events -> Nat \cup {None}]
      /\ svr.poll \in [ev : Events, val : Nat] \cup {NoPoll} /\ NoPoll \in {NoPoll}
  BY DEF ServerOK, ServerType
<1>2. CASE StartPolling(e)
  <2> DEFINE polled == svr.polled \cup {e}
  <2>1. polled \in SUBSET Events
    BY <1>1
  <2>2. svr' = [svr EXCEPT !.polled = polled, !.cache = svr.cache, !.poll = svr.poll]
    BY <1>1, <1>2 DEF StartPolling, ServerType
  <2> HIDE DEF polled
  <2>3. SameEvents(svr', svr)
    BY <1>1, <2>1, <2>2, CacheFacts
  <2> QED BY <1>2, <2>3 DEF StartPolling
<1>3. CASE StopPolling(e)
  <2> DEFINE polled == svr.polled \ {e}
             cache == [svr.cache EXCEPT ![e] = None]
  <2>1. polled \in SUBSET Events /\ cache \in [Events -> Nat \cup {None}]
    BY <1>1
  <2>2. svr' = [svr EXCEPT !.polled = polled, !.cache = cache, !.poll = svr.poll]
    BY <1>1, <1>3 DEF StopPolling, ServerType
  <2> HIDE DEF polled, cache
  <2>3. SameEvents(svr', svr)
    BY <1>1, <2>1, <2>2, CacheFacts
  <2> QED BY <1>3, <2>3 DEF StopPolling
<1>4. CASE StoreData
  <2> DEFINE cache == [svr.cache EXCEPT ![svr.poll.ev] = svr.poll.val]
  <2>1. svr.poll # NoPoll /\ svr' = [svr EXCEPT !.cache[svr.poll.ev] = svr.poll.val, !.poll = NoPoll]
    BY <1>4 DEF StoreData
  <2>2. svr.poll.ev \in Events /\ svr.poll.val \in Nat
    BY <1>1, <2>1
  <2>3. cache \in [Events -> Nat \cup {None}] /\ NoPoll \in [ev : Events, val : Nat] \cup {NoPoll}
    BY <1>1, <2>2
  <2>4. svr' = [svr EXCEPT !.polled = svr.polled, !.cache = cache, !.poll = NoPoll]
    BY <1>1, <2>1 DEF ServerType
  <2> HIDE DEF cache
  <2>5. SameEvents(svr', svr)
    BY <1>1, <2>3, <2>4, CacheFacts
  <2> QED BY <1>4, <2>5 DEF StoreData
<1> QED BY <1>2, <1>3, <1>4

LEMMA KilledType ==
    ASSUME NEW s, ServerOK(s)
    PROVE  LET t == [s EXCEPT !.up = FALSE]
           IN  /\ ServerOK(t) /\ ~ t.up /\ t.run = s.run
               /\ t.event_cptr = s.event_cptr /\ t.prev = s.prev /\ t.nb = s.nb
BY DEF ServerOK, ServerType

LEMMA ScenarioStep ==
    ASSUME NEW s \in Scenario, NEW t,
           \/ s.stops > 0 /\ t = [s EXCEPT !.stops = @ - 1]
           \/ s.loss > 0 /\ t = [s EXCEPT !.loss = @ - 1]
           \/ \E e \in Events : s.changes[e] > 0 /\ t = [s EXCEPT !.changes[e] = @ - 1]
    PROVE  t \in Scenario /\ t.ids = s.ids
<1>1. s.stops \in Nat /\ s.loss \in Nat
  BY DEF Scenario
<1>2. CASE s.stops > 0 /\ t = [s EXCEPT !.stops = @ - 1]
  <2> DEFINE n == s.stops - 1
  <2>1. n \in Nat
    BY <1>1, <1>2
  <2>2. t = [s EXCEPT !.stops = n]
    BY <1>2
  <2> HIDE DEF n
  <2> QED BY <2>1, <2>2 DEF Scenario
<1>3. CASE s.loss > 0 /\ t = [s EXCEPT !.loss = @ - 1]
  <2> DEFINE n == s.loss - 1
  <2>1. n \in Nat
    BY <1>1, <1>3
  <2>2. t = [s EXCEPT !.loss = n]
    BY <1>3
  <2> HIDE DEF n
  <2> QED BY <2>1, <2>2 DEF Scenario
<1>4. ASSUME NEW e \in Events, s.changes[e] > 0, t = [s EXCEPT !.changes[e] = @ - 1]
      PROVE  t \in Scenario /\ t.ids = s.ids
  <2> DEFINE c == [s.changes EXCEPT ![e] = @ - 1]
  <2>1. s.changes \in [Events -> Nat]
    BY DEF Scenario
  <2>2. c \in [Events -> Nat]
    BY <1>4, <2>1
  <2>3. t = [s EXCEPT !.changes = c]
    BY <1>4
  <2> HIDE DEF c
  <2> QED BY <2>2, <2>3 DEF Scenario
<1> QED BY <1>2, <1>3, <1>4

LEMMA ServerDeaf ==
    ASSUME DeafInv, ServerStep
    PROVE  DeafInv'
<1>0. /\ scenario \in Scenario /\ val \in [Events -> Nat] /\ ServerOK(svr)
      /\ wire \in Seq(MessageType) /\ Len(wire) <= Hwm
      /\ svr.run \in Nat /\ svr.polled \subseteq Events
  BY DEF DeafInv, TypeOK, SupplierTypes, ServerInv, ServerOK, ServerType
<1>1. ASSUME NEW e \in Events, Poll(e)
      PROVE  SupplierTypes' /\ ServerInv' /\ scenario' = scenario /\ sock' = sock
  BY <1>1, PollDeaf DEF Poll
<1>2. ASSUME NEW e \in Events, Change(e)
      PROVE  SupplierTypes' /\ ServerInv' /\ scenario'.ids = scenario.ids /\ sock' = sock
  <2>1. scenario' \in Scenario /\ scenario'.ids = scenario.ids
    BY <1>0, <1>2, ScenarioStep DEF Change
  <2>2. PICK v \in Values : val' = [val EXCEPT ![e] = v]
    BY <1>2 DEF Change
  <2>3. val' \in [Events -> Nat]
    BY <1>0, <2>2, SupplierAssumption
  <2> QED BY <1>2, <2>1, <2>3 DEF Change, DeafInv, TypeOK, SupplierTypes, ServerInv
<1>3. ASSUME NEW e \in Events, StartPolling(e) \/ StopPolling(e) \/ StoreData
      PROVE  SupplierTypes' /\ ServerInv' /\ scenario'.ids = scenario.ids /\ sock' = sock
  <2>1. ServerOK(svr') /\ UNCHANGED <<val, sock, wire, lossy>>
    BY <1>0, <1>3, PollingFacts DEF SameEvents
  <2>2. scenario' \in Scenario /\ scenario'.ids = scenario.ids
    BY <1>0, <1>3, ScenarioStep DEF StartPolling, StopPolling, StoreData
  <2> QED BY <2>1, <2>2 DEF DeafInv, TypeOK, SupplierTypes, ServerInv, ServerOK
<1>4. Events # {}
  BY SupplierAssumption
<1>5. ASSUME Kill
      PROVE  SupplierTypes' /\ ServerInv' /\ scenario' = scenario /\ sock' = sock
  <2>1. /\ svr' = [svr EXCEPT !.up = FALSE] /\ UNCHANGED <<scenario, val, sock, lossy>>
        /\ wire' \in {wire, <<>>}
    BY <1>5 DEF Kill
  <2>2. ServerOK(svr')
    BY <1>0, <2>1, KilledType
  <2>3. wire' \in Seq(MessageType) /\ Len(wire') <= Hwm
    <3>1. <<>> \in Seq(MessageType) /\ Len(<<>>) = 0 /\ 0 <= Hwm
      BY SupplierAssumption
    <3>2. CASE wire' = wire
      BY <1>0, <3>2
    <3>3. CASE wire' = <<>>
      BY <3>1, <3>3
    <3> QED BY <2>1, <3>2, <3>3
  <2> QED BY <2>1, <2>2, <2>3 DEF DeafInv, TypeOK, SupplierTypes, ServerInv, ServerOK
<1>6. ASSUME Start
      PROVE  SupplierTypes' /\ ServerInv' /\ scenario' = scenario /\ sock' = sock
  <2>1. PICK polled \in FirstPolled : svr' = NewServer(svr.run + 1, polled)
    BY <1>6 DEF Start
  <2>2. polled \in SUBSET Events /\ svr.run + 1 \in Nat \ {0}
    BY <1>0, <2>1 DEF FirstPolled
  <2>3. ServerOK(svr')
    BY <2>1, <2>2, NewServerFacts
  <2> QED BY <1>6, <2>3 DEF Start, DeafInv, TypeOK, SupplierTypes, ServerInv, ServerOK
<1>7. SupplierTypes' /\ ServerInv' /\ scenario'.ids = scenario.ids /\ sock' = sock
  BY <1>1, <1>2, <1>3, <1>4, <1>5, <1>6 DEF ServerStep, SupplierStep
<1>8. UNCHANGED <<consumerVars, historyVars>>
  BY DEF ServerStep
<1> QED BY <1>7, <1>8, ConsumerKept, HistoryKept DEF DeafInv, TypeOK

(* The parts of the state that a step of the client reads. *)
LEMMA DeafParts ==
    ASSUME DeafInv
    PROVE  /\ scenario \in Scenario /\ val \in [Events -> Nat] /\ ServerOK(svr)
           /\ sock \in SocketType /\ wire \in Seq(MessageType) /\ Len(wire) <= Hwm /\ lossy \subseteq Events
           /\ chan \in ChannelType /\ cb \in [Events -> CallbackType]
           /\ pending \in [all : SUBSET Ids, recent : SUBSET Ids] /\ op \in OpType /\ ka \in KaType
           /\ used \subseteq Ids
           /\ seen \in [Ids -> Nat \cup {None}]
           /\ got \in [Events -> [run : Nat, nb : Nat, ctr : Nat]]
           /\ odd \subseteq {"uncounted", "other run", "same run", "twice", "gap"}
           /\ blocked \subseteq Events
           /\ Ids \subseteq 1 .. 3 /\ \A id \in Ids : Event(id) \in Events
BY IdsFacts DEF DeafInv, TypeOK, SupplierTypes, ConsumerTypes, HistoryTypes, ServerInv, ServerOK

LEMMA SubscribeDeaf == ASSUME DeafInv, NEW id \in Ids, SubscribeEvent(id) PROVE DeafInv'
<1>1. /\ UNCHANGED <<scenario, supplierVars, chan, cb, pending, ka, historyVars>>
      /\ used' = used \cup {id} /\ op' = [NoOp EXCEPT !.pc = "info", !.id = id]
      /\ op = NoOp /\ ka.pc \in {"asleep", "channel"}
  BY DEF SubscribeEvent, MapsFree
<1>2. op' = [pc |-> "info", id |-> id, by_ka |-> FALSE, run |-> 0, da |-> None]
  BY <1>1 DEF NoOp
<1>3. Ids' = Ids /\ CallbackType' = CallbackType /\ OpType' = OpType /\ KaType' = KaType
  BY <1>1, SameIds
<1>4. op' \in OpType
  BY <1>2 DEF OpType
<1>5. ConsumerTypes'
  BY <1>1, <1>3, <1>4 DEF ConsumerTypes, DeafInv, TypeOK
<1>6. Connected' = Connected
  BY <1>1, SameClients
<1>7. PhaseInv'
  BY <1>1, <1>2, <1>3, <1>6 DEF DeafInv, PhaseInv, NoOp
<1>8. NeverDeaf'
  BY <1>1, <1>6 DEF DeafInv, NeverDeaf, supplierVars
<1> QED BY <1>1, <1>5, <1>7, <1>8, SupplierKept, HistoryKept DEF DeafInv, TypeOK

LEMMA GetInfoDeaf == ASSUME DeafInv, GetSubscriptionInfo PROVE DeafInv'
<1>0. /\ scenario \in Scenario /\ ServerOK(svr) /\ svr.run \in Nat /\ op \in OpType
      /\ \A id \in Ids : Event(id) \in Events
  BY DeafParts DEF ServerOK, ServerType
<1>1. /\ UNCHANGED <<scenario, val, sock, wire, lossy, chan, cb, pending, ka, used, seen, got, odd>>
      /\ svr' = Subscribed(svr, Event(op.id)) /\ op.pc = "info"
      /\ blocked' = blocked \ {Event(op.id)} /\ op' = [op EXCEPT !.pc = "connect", !.run = svr.run]
  BY DEF GetSubscriptionInfo
<1>2. op.id \in Ids /\ Event(op.id) \in Events /\ ka.pc \in {"asleep", "pending", "channel"}
  BY <1>0, <1>1 DEF DeafInv, PhaseInv
<1>3. ServerOK(svr')
  BY <1>0, <1>1, <1>2, SubscribedFacts DEF SubscribedTo
<1>4. SupplierTypes' /\ ServerInv'
  BY <1>1, <1>3 DEF DeafInv, TypeOK, SupplierTypes, ServerInv, ServerOK
<1>5. Ids' = Ids /\ CallbackType' = CallbackType /\ OpType' = OpType /\ KaType' = KaType
  BY <1>1, SameIds
<1>6. op' \in OpType /\ op'.pc = "connect" /\ op'.id = op.id
  BY <1>0, <1>1 DEF OpType
<1>7. ConsumerTypes'
  BY <1>1, <1>5, <1>6 DEF ConsumerTypes, DeafInv, TypeOK
<1>8. HistoryTypes'
  BY <1>1, <1>5 DEF HistoryTypes, DeafInv, TypeOK
<1>9. Connected' = Connected
  BY <1>1, SameClients
<1>10. PhaseInv'
  <2>1. ka' = ka /\ op' # NoOp
    BY <1>1, <1>6 DEF NoOp
  <2> QED BY <1>2, <1>5, <1>6, <1>9, <2>1 DEF DeafInv, PhaseInv
<1>11. NeverDeaf'
  BY <1>1, <1>9 DEF DeafInv, NeverDeaf
<1> QED BY <1>4, <1>7, <1>8, <1>10, <1>11 DEF DeafInv, TypeOK

LEMMA FailedDeaf == ASSUME DeafInv, SubscriptionFailed PROVE DeafInv'
<1>0. /\ op \in OpType /\ pending \in [all : SUBSET Ids, recent : SUBSET Ids]
  BY DeafParts
<1>1. /\ UNCHANGED <<scenario, supplierVars, chan, cb, ka, used, historyVars>>
      /\ op' = NoOp /\ op.pc = "info"
      /\ pending' \in {pending, [all |-> pending.all \cup {op.id}, recent |-> pending.recent \cup {op.id}]}
  BY DEF SubscriptionFailed
<1>2. op.id \in Ids
  BY <1>1 DEF DeafInv, PhaseInv
<1>3. Ids' = Ids /\ CallbackType' = CallbackType /\ OpType' = OpType /\ KaType' = KaType
  BY <1>1, SameIds
<1>4. NoOp \in OpType /\ pending' \in [all : SUBSET Ids, recent : SUBSET Ids]
  BY <1>0, <1>1, <1>2 DEF OpType, NoOp
<1>5. ConsumerTypes'
  BY <1>1, <1>3, <1>4 DEF ConsumerTypes, DeafInv, TypeOK
<1>6. Connected' = Connected
  BY <1>1, SameClients
<1>7. PhaseInv'
  BY <1>1, <1>3, <1>6 DEF DeafInv, PhaseInv, NoOp
<1>8. NeverDeaf'
  BY <1>1, <1>6 DEF DeafInv, NeverDeaf, supplierVars
<1> QED BY <1>1, <1>5, <1>7, <1>8, SupplierKept, HistoryKept DEF DeafInv, TypeOK

LEMMA ReadFirstEffect ==
    ASSUME DeafInv, ReadFirst
    PROVE  LET e == Event(op.id)
           IN  /\ op.pc = "read" /\ op.id \in Ids /\ e \in Events
               /\ ka.pc \in {"asleep", "pending", "channel"}
               /\ op' \in OpType /\ op'.pc = "fire" /\ op'.id = op.id /\ op'.run = op.run
               /\ svr.up => op'.da \in Nat /\ lossy' = AfterRead(e, op'.da, cb[e].ids = {op.id})
               /\ ~ svr.up => lossy' = lossy
               /\ UNCHANGED <<scenario, val, svr, sock, wire, chan, cb, pending, ka, used, historyVars>>
<1> DEFINE e == Event(op.id)
<1>0. /\ op \in OpType /\ val \in [Events -> Nat] /\ ServerOK(svr) /\ \A id \in Ids : Event(id) \in Events
  BY DeafParts
<1>1. /\ UNCHANGED <<scenario, val, svr, sock, wire, chan, cb, pending, ka, used, historyVars>>
      /\ op.pc = "read"
  BY DEF ReadFirst
<1>2. op.id \in Ids /\ e \in Events /\ ka.pc \in {"asleep", "pending", "channel"}
  BY <1>0, <1>1 DEF DeafInv, PhaseInv
<1>3. PICK da \in Nat \cup {None} :
         /\ op' = [op EXCEPT !.pc = "fire", !.da = da]
         /\ svr.up => da \in Nat /\ lossy' = AfterRead(e, da, cb[e].ids = {op.id})
         /\ ~ svr.up => lossy' = lossy
  <2>1. CASE svr.up
    <3>1. PICK v \in ReadFrom(svr, e) : /\ op' = [op EXCEPT !.pc = "fire", !.da = v]
                                        /\ lossy' = AfterRead(e, v, cb[e].ids = {op.id})
      BY <2>1 DEF ReadFirst
    <3>2. v \in Nat
      BY <1>0, <1>2, ReadFromFacts
    <3> QED BY <2>1, <3>1, <3>2
  <2>2. CASE ~ svr.up
    BY <2>2 DEF ReadFirst
  <2> QED BY <2>1, <2>2
<1>4. op' \in OpType /\ op'.pc = "fire" /\ op'.id = op.id /\ op'.run = op.run /\ op'.da = da
  BY <1>0, <1>3 DEF OpType
<1> QED BY <1>1, <1>2, <1>3, <1>4

LEMMA ReadFirstDeaf == ASSUME DeafInv, ReadFirst PROVE DeafInv'
<1>1. /\ UNCHANGED <<scenario, val, svr, sock, wire, chan, cb, pending, ka, used, historyVars>>
      /\ op' \in OpType /\ op'.pc = "fire" /\ op'.id = op.id
      /\ op.id \in Ids /\ ka.pc \in {"asleep", "pending", "channel"}
  BY ReadFirstEffect
<1>2. lossy' \subseteq Events
  BY ReadFirstEffect, DeafParts DEF AfterRead
<1>3. Ids' = Ids /\ CallbackType' = CallbackType /\ OpType' = OpType /\ KaType' = KaType
  BY <1>1, SameIds
<1>5. ConsumerTypes'
  BY <1>1, <1>3 DEF ConsumerTypes, DeafInv, TypeOK
<1>6. SupplierTypes' /\ ServerInv'
  BY <1>1, <1>2 DEF SupplierTypes, ServerInv, DeafInv, TypeOK
<1>7. Connected' = Connected
  BY <1>1, SameClients
<1>8. PhaseInv'
  <2>1. ka' = ka /\ op' # NoOp
    BY <1>1 DEF NoOp
  <2> QED BY <1>1, <1>3, <1>7, <2>1 DEF DeafInv, PhaseInv
<1>9. NeverDeaf'
  BY <1>1, <1>7 DEF DeafInv, NeverDeaf
<1> QED BY <1>1, <1>5, <1>6, <1>8, <1>9, HistoryKept DEF DeafInv, TypeOK

LEMMA FireFirstDeaf == ASSUME DeafInv, FireFirst PROVE DeafInv'
<1>0. /\ op \in OpType /\ pending \in [all : SUBSET Ids, recent : SUBSET Ids]
      /\ seen \in [Ids -> Nat \cup {None}]
  BY DeafParts
<1>1. /\ UNCHANGED <<scenario, supplierVars, chan, cb, ka, used, got, odd, blocked>>
      /\ seen' = [seen EXCEPT ![op.id] = IF op.da = None THEN @ ELSE op.da]
      /\ pending' = [all |-> pending.all \ {op.id}, recent |-> pending.recent \ {op.id}]
      /\ op' = NoOp
  BY DEF FireFirst
<1>2. Ids' = Ids /\ CallbackType' = CallbackType /\ OpType' = OpType /\ KaType' = KaType
  BY <1>1, SameIds
<1>3. NoOp \in OpType /\ pending' \in [all : SUBSET Ids, recent : SUBSET Ids]
  BY <1>0, <1>1 DEF OpType, NoOp
<1>4. seen' \in [Ids -> Nat \cup {None}]
  BY <1>0, <1>1 DEF OpType
<1>5. ConsumerTypes'
  BY <1>1, <1>2, <1>3 DEF ConsumerTypes, DeafInv, TypeOK
<1>6. HistoryTypes'
  BY <1>1, <1>2, <1>4 DEF HistoryTypes, DeafInv, TypeOK
<1>7. Connected' = Connected
  BY <1>1, SameClients
<1>8. PhaseInv'
  BY <1>1, <1>2, <1>7 DEF DeafInv, PhaseInv, NoOp
<1>9. NeverDeaf'
  BY <1>1, <1>7 DEF DeafInv, NeverDeaf, supplierVars
<1> QED BY <1>1, <1>5, <1>6, <1>8, <1>9, SupplierKept DEF DeafInv, TypeOK

LEMMA ConnectEventSystemFacts ==
    ASSUME NEW s \in SocketType, NEW es, NEW run \in Nat
    PROVE  LET t == ConnectEventSystem(s, es, run)
           IN  /\ t \in SocketType /\ t.pubs = s.pubs \cup {run}
               /\ \A e \in Events : t.filters[e] = s.filters[e] + IF e \in es THEN 1 ELSE 0
<1>1. s.pubs \in SUBSET Nat /\ s.filters \in [Events -> Nat]
  BY DEF SocketType
<1> DEFINE f == [e \in Events |-> s.filters[e] + IF e \in es THEN 1 ELSE 0]
<1>2. f \in [Events -> Nat] /\ s.pubs \cup {run} \in SUBSET Nat
  BY <1>1
<1>3. \A e \in Events : f[e] = s.filters[e] + IF e \in es THEN 1 ELSE 0
  OBVIOUS
<1>4. ConnectEventSystem(s, es, run) = [pubs |-> s.pubs \cup {run}, filters |-> f]
  BY DEF ConnectEventSystem
<1> HIDE DEF f
<1>5. ConnectEventSystem(s, es, run) \in SocketType
  BY <1>2, <1>4 DEF SocketType
<1> QED BY <1>3, <1>4, <1>5

(* What a new subscription id of e, by a connection to a run of the server, *)
(* does to the client.                                                      *)
LEMMA ConnectEffect ==
    ASSUME DeafInv, ConnectEvent
    PROVE  LET e == Event(op.id)
               new == e \notin Connected
           IN  /\ op.id \in Ids /\ e \in Events /\ op.run \in Nat
               /\ UNCHANGED <<scenario, val, svr, wire, lossy, pending, ka, used, seen, odd, blocked>>
               /\ op' \in OpType /\ op'.pc = "read" /\ op'.id = op.id /\ op'.run = op.run /\ op.pc = "connect"
               /\ cb' \in [Events -> CallbackType]
               /\ cb'[e].ids = cb[e].ids \cup {op.id}
               /\ cb'[e].endpoint = IF new THEN op.run ELSE cb[e].endpoint
               /\ cb'[e].ctr = IF new THEN 0 ELSE cb[e].ctr
               /\ cb'[e].discarded_event <=> ~ new /\ cb[e].discarded_event
               /\ got'[e] = IF new THEN NoEvent ELSE got[e]
               /\ \A f \in Events \ {e} : cb'[f] = cb[f] /\ got'[f] = got[f]
               /\ Connected' = Connected \cup {e}
               /\ IF new THEN sock' = ConnectEventSystem(sock, {e}, op.run) ELSE sock' = sock
               /\ chan' = IF new /\ ~ chan.known THEN ChannelOf(op.run) ELSE chan
               /\ HistoryTypes'
<1> DEFINE e == Event(op.id)
           new == cb[e].ids = {}
           c == IF new THEN [NoCallback EXCEPT !.ids = {op.id}, !.endpoint = op.run]
                ELSE [cb[e] EXCEPT !.ids = @ \cup {op.id}]
<1>0. /\ op \in OpType /\ cb \in [Events -> CallbackType] /\ \A id \in Ids : Event(id) \in Events
      /\ got \in [Events -> [run : Nat, nb : Nat, ctr : Nat]]
  BY DeafParts
<1>1. op.id \in Ids /\ e \in Events /\ op.run \in Nat /\ op.pc = "connect"
  BY <1>0 DEF DeafInv, PhaseInv, ConnectEvent, OpType
<1>2. /\ UNCHANGED <<scenario, val, svr, wire, lossy, pending, ka, used, seen, odd, blocked>>
      /\ cb' = [cb EXCEPT ![e] = c]
      /\ chan' = IF new /\ ~ chan.known THEN ChannelOf(op.run) ELSE chan
      /\ sock' = IF new THEN ConnectEventSystem(sock, {e}, op.run) ELSE sock
      /\ got' = IF new THEN [got EXCEPT ![e] = NoEvent] ELSE got
      /\ op' = [op EXCEPT !.pc = "read"]
  BY DEF ConnectEvent
<1>3. /\ c \in CallbackType /\ c.ids = cb[e].ids \cup {op.id}
      /\ c.endpoint = IF new THEN op.run ELSE cb[e].endpoint
      /\ c.ctr = IF new THEN 0 ELSE cb[e].ctr
      /\ c.discarded_event <=> ~ new /\ cb[e].discarded_event
  <2>1. cb[e] \in CallbackType
    BY <1>0, <1>1
  <2>2. CASE new
    <3>1. c = [ids |-> {op.id}, ctr |-> 0, discarded_event |-> FALSE, endpoint |-> op.run]
      BY <2>2 DEF NoCallback
    <3> HIDE DEF c, new, e
    <3>2. {op.id} \in SUBSET Ids /\ FALSE \in BOOLEAN
      BY <1>1
    <3>3. c \in CallbackType
      BY <1>1, <3>1, <3>2 DEF CallbackType
    <3> QED BY <2>2, <3>1, <3>3 DEF new
  <2>3. CASE ~ new
    <3>1. c = [ids |-> cb[e].ids \cup {op.id}, ctr |-> cb[e].ctr,
               discarded_event |-> cb[e].discarded_event, endpoint |-> cb[e].endpoint]
      BY <2>1, <2>3 DEF CallbackType
    <3> QED BY <1>1, <2>1, <2>3, <3>1 DEF CallbackType
  <2> QED BY <2>2, <2>3
<1> HIDE DEF c
<1>4. cb' \in [Events -> CallbackType] /\ cb'[e] = c /\ \A f \in Events \ {e} : cb'[f] = cb[f]
  BY <1>0, <1>1, <1>2, <1>3
<1>5. (e \notin Connected <=> new) /\ Connected' = Connected \cup {e}
  BY <1>1, <1>3, <1>4 DEF Connected
<1>6. op' \in OpType /\ op'.pc = "read" /\ op'.id = op.id /\ op'.run = op.run
  BY <1>0, <1>2 DEF OpType
<1>7. /\ got' \in [Events -> [run : Nat, nb : Nat, ctr : Nat]]
      /\ got'[e] = (IF new THEN NoEvent ELSE got[e]) /\ \A f \in Events \ {e} : got'[f] = got[f]
  BY <1>0, <1>1, <1>2 DEF NoEvent
<1>8. HistoryTypes'
  BY <1>2, <1>7, SameIds DEF HistoryTypes, DeafInv, TypeOK
<1> QED BY <1>1, <1>2, <1>3, <1>4, <1>5, <1>6, <1>7, <1>8

LEMMA ChannelOfFacts ==
    ASSUME NEW run \in Nat
    PROVE  LET c == ChannelOf(run)
           IN  c \in ChannelType /\ c.known /\ c.run = run /\ c.last_subscribed = 0
<1>1. NoChannel \in ChannelType
  BY ConsumerAssumption DEF NoChannel, ChannelType
<1>2. NoChannel.last_subscribed = 0
  BY DEF NoChannel
<1> QED BY <1>1, <1>2 DEF ChannelOf, ChannelType

LEMMA ConnectDeaf == ASSUME DeafInv, ConnectEvent PROVE DeafInv'
<1> DEFINE e == Event(op.id)
           new == e \notin Connected
<1>0. sock \in SocketType /\ chan \in ChannelType /\ sock.filters \in [Events -> Nat]
  BY DeafParts DEF SocketType
<1>1. /\ op.id \in Ids /\ e \in Events /\ op.run \in Nat
      /\ UNCHANGED <<scenario, val, svr, wire, lossy, pending, ka, used, seen, odd, blocked>>
      /\ op' \in OpType /\ op'.pc = "read" /\ op'.id = op.id /\ op.pc = "connect"
      /\ cb' \in [Events -> CallbackType]
      /\ cb'[e].endpoint = IF new THEN op.run ELSE cb[e].endpoint
      /\ \A f \in Events \ {e} : cb'[f] = cb[f]
      /\ Connected' = Connected \cup {e}
      /\ IF new THEN sock' = ConnectEventSystem(sock, {e}, op.run) ELSE sock' = sock
      /\ chan' = IF new /\ ~ chan.known THEN ChannelOf(op.run) ELSE chan
      /\ HistoryTypes'
  BY ConnectEffect
<1> HIDE DEF e
<1>2. /\ sock' \in SocketType /\ sock.pubs \subseteq sock'.pubs
      /\ \A f \in Events : sock'.filters[f] >= sock.filters[f]
      /\ new => op.run \in sock'.pubs /\ sock'.filters[e] > 0
  <2>1. CASE new
    <3>1. /\ sock' \in SocketType /\ sock'.pubs = sock.pubs \cup {op.run}
          /\ \A f \in Events : sock'.filters[f] = sock.filters[f] + IF f \in {e} THEN 1 ELSE 0
      BY <1>0, <1>1, <2>1, ConnectEventSystemFacts
    <3> QED BY <1>0, <1>1, <3>1
  <2>2. CASE ~ new
    BY <1>0, <1>1, <2>2
  <2> QED BY <2>1, <2>2
<1>3. chan' \in ChannelType /\ (chan'.known <=> chan.known \/ new)
  <2>2. ChannelOf(op.run) \in ChannelType /\ ChannelOf(op.run).known
    BY <1>1, ChannelOfFacts
  <2>3. CASE new /\ ~ chan.known
    BY <1>1, <2>2, <2>3
  <2>4. CASE ~ (new /\ ~ chan.known)
    BY <1>0, <1>1, <2>4
  <2> QED BY <2>3, <2>4
<1>4. Ids' = Ids /\ CallbackType' = CallbackType /\ OpType' = OpType /\ KaType' = KaType
  BY <1>1, SameIds
<1>5. SupplierTypes' /\ ServerInv'
  BY <1>1, <1>2 DEF SupplierTypes, ServerInv, DeafInv, TypeOK
<1>6. ConsumerTypes'
  BY <1>1, <1>3, <1>4 DEF ConsumerTypes, DeafInv, TypeOK
<1>7. PhaseInv'
  <2>1. op' # NoOp /\ ka.pc \in {"asleep", "pending", "channel"}
    BY <1>1 DEF NoOp, DeafInv, PhaseInv
  <2> QED BY <1>1, <1>4, <2>1 DEF DeafInv, PhaseInv, Reconnecting, Resubscribing
<1>8. NeverDeaf'
  <2>1. \A f \in Connected : f \in Events /\ sock'.filters[f] > 0
    <3> TAKE f \in Connected
    <3>1. f \in Events /\ sock.filters[f] > 0
      BY DEF DeafInv, NeverDeaf, Connected
    <3> QED BY <1>0, <1>2, <3>1 DEF SocketType
  <2>2. \A f \in Connected : ka'.pc = "events" \/ cb'[f].endpoint \in sock'.pubs
    BY <1>1, <1>2 DEF DeafInv, NeverDeaf, Connected
  <2>3. new => cb'[e].endpoint \in sock'.pubs
    BY <1>1, <1>2
  <2>4. chan'.known <=> Connected' # {}
    BY <1>1, <1>3 DEF DeafInv, NeverDeaf
  <2> QED BY <1>1, <1>2, <2>1, <2>2, <2>3, <2>4 DEF NeverDeaf
<1> QED BY <1>1, <1>5, <1>6, <1>7, <1>8 DEF DeafInv, TypeOK

LEMMA DisconnectedFacts ==
    ASSUME NEW s \in SocketType, NEW e \in Events, s.filters[e] > 0, NEW last \in BOOLEAN
    PROVE  LET t == Disconnected(s, e, last)
           IN  /\ t \in SocketType /\ t.pubs = IF last THEN s.pubs \ {cb[e].endpoint} ELSE s.pubs
               /\ \A f \in Events \ {e} : t.filters[f] = s.filters[f]
<1> DEFINE pubs == IF last THEN s.pubs \ {cb[e].endpoint} ELSE s.pubs
           filters == [s.filters EXCEPT ![e] = @ - 1]
<1>1. s.pubs \in SUBSET Nat /\ s.filters \in [Events -> Nat]
  BY DEF SocketType
<1>2. s.filters[e] - 1 \in Nat
  BY <1>1
<1>3. filters \in [Events -> Nat] /\ \A f \in Events \ {e} : filters[f] = s.filters[f]
  BY <1>1, <1>2
<1>4. pubs \in SUBSET Nat
  BY <1>1
<1>5. Disconnected(s, e, last) = [pubs |-> pubs, filters |-> filters]
  BY DEF Disconnected
<1> HIDE DEF pubs, filters
<1>6. Disconnected(s, e, last) \in SocketType
  BY <1>3, <1>4, <1>5 DEF SocketType
<1>7. Disconnected(s, e, last).pubs = pubs /\ Disconnected(s, e, last).filters = filters
  BY <1>5
<1> QED BY <1>3, <1>6, <1>7 DEF pubs

LEMMA UnsubscribeEffect ==
    ASSUME DeafInv, NEW id \in Ids, UnsubscribeEvent(id)
    PROVE  LET e == Event(id)
               gone == cb[e].ids = {id}
               last == gone /\ Connected = {e}
           IN  /\ UNCHANGED <<scenario, val, svr, wire, lossy, op, ka, used, historyVars>>
               /\ op = NoOp /\ ka.pc \in {"asleep", "channel"} /\ e \in Events
               /\ \/ UNCHANGED <<cb, chan, sock>> /\ pending' \in [all : SUBSET Ids, recent : SUBSET Ids]
                  \/ /\ pending' = pending /\ id \in cb[e].ids /\ cb' \in [Events -> CallbackType]
                     /\ cb'[e].ids = cb[e].ids \ {id}
                     /\ ~ gone => /\ cb'[e].endpoint = cb[e].endpoint /\ cb'[e].ctr = cb[e].ctr
                                  /\ (cb'[e].discarded_event <=> cb[e].discarded_event)
                     /\ \A f \in Events \ {e} : cb'[f] = cb[f]
                     /\ e \in Connected /\ Connected' = IF gone THEN Connected \ {e} ELSE Connected
                     /\ chan' = IF last THEN NoChannel ELSE chan
                     /\ sock' = IF gone THEN Disconnected(sock, e, last) ELSE sock
<1> DEFINE e == Event(id)
           gone == cb[e].ids = {id}
           last == gone /\ Connected = {e}
           c == IF gone THEN NoCallback ELSE [cb[e] EXCEPT !.ids = @ \ {id}]
<1>0. /\ cb \in [Events -> CallbackType] /\ e \in Events
      /\ pending \in [all : SUBSET Ids, recent : SUBSET Ids]
  BY DeafParts
<1>1. /\ UNCHANGED <<scenario, val, svr, wire, lossy, op, ka, used, historyVars>>
      /\ op = NoOp /\ ka.pc \in {"asleep", "channel"}
  BY DEF UnsubscribeEvent, MapsFree
<1>2. CASE /\ id \in pending.all
           /\ pending' = [all |-> pending.all \ {id}, recent |-> pending.recent \ {id}]
           /\ UNCHANGED <<cb, chan, sock>>
  <2>1. pending' \in [all : SUBSET Ids, recent : SUBSET Ids]
    BY <1>0, <1>2
  <2> QED BY <1>0, <1>1, <1>2, <2>1
<1>3. CASE /\ id \in cb[e].ids /\ cb' = [cb EXCEPT ![e] = c]
           /\ chan' = IF last THEN NoChannel ELSE chan
           /\ sock' = IF gone THEN Disconnected(sock, e, last) ELSE sock
           /\ pending' = pending
  <2>1. cb[e] \in CallbackType
    BY <1>0
  <2>2. /\ c \in CallbackType /\ c.ids = cb[e].ids \ {id}
        /\ ~ gone => /\ c.endpoint = cb[e].endpoint /\ c.ctr = cb[e].ctr
                     /\ (c.discarded_event <=> cb[e].discarded_event)
    <3>1. CASE gone
      BY <2>1, <3>1 DEF CallbackType, NoCallback
    <3>2. CASE ~ gone
      BY <2>1, <3>2 DEF CallbackType
    <3> QED BY <3>1, <3>2
  <2> HIDE DEF c
  <2>3. cb' \in [Events -> CallbackType] /\ cb'[e] = c /\ \A f \in Events \ {e} : cb'[f] = cb[f]
    BY <1>0, <1>3, <2>2
  <2>4. e \in Connected /\ Connected' = IF gone THEN Connected \ {e} ELSE Connected
    <3>1. c.ids = {} <=> gone
      BY <1>3, <2>2
    <3>2. e \in Connected
      BY <1>0, <1>3 DEF Connected
    <3>3. \A f \in Events : f \in Connected' <=> cb'[f].ids # {}
      BY DEF Connected
    <3>4. \A f \in Events : f \in Connected <=> cb[f].ids # {}
      BY DEF Connected
    <3>5. Connected' \subseteq Events /\ Connected \subseteq Events
      BY DEF Connected
    <3>6. CASE gone
      BY <1>0, <2>3, <3>1, <3>2, <3>3, <3>4, <3>5, <3>6
    <3>7. CASE ~ gone
      BY <1>0, <2>3, <3>1, <3>2, <3>3, <3>4, <3>5, <3>7
    <3> QED BY <3>2, <3>6, <3>7
  <2> QED BY <1>0, <1>1, <1>3, <2>2, <2>3, <2>4
<1> QED BY <1>2, <1>3 DEF UnsubscribeEvent

LEMMA UnsubscribeDeaf == ASSUME DeafInv, NEW id \in Ids, UnsubscribeEvent(id) PROVE DeafInv'
<1> DEFINE e == Event(id)
           gone == cb[e].ids = {id}
           last == gone /\ Connected = {e}
<1>0. sock \in SocketType /\ chan \in ChannelType /\ sock.filters \in [Events -> Nat]
  BY DeafParts DEF SocketType
<1>1. /\ UNCHANGED <<scenario, val, svr, wire, lossy, op, ka, used, historyVars>>
      /\ op = NoOp /\ ka.pc \in {"asleep", "channel"} /\ e \in Events
      /\ \/ UNCHANGED <<cb, chan, sock>> /\ pending' \in [all : SUBSET Ids, recent : SUBSET Ids]
         \/ /\ pending' = pending /\ cb' \in [Events -> CallbackType]
            /\ ~ gone => cb'[e].endpoint = cb[e].endpoint
            /\ \A f \in Events \ {e} : cb'[f] = cb[f]
            /\ e \in Connected /\ Connected' = IF gone THEN Connected \ {e} ELSE Connected
            /\ chan' = IF last THEN NoChannel ELSE chan
            /\ sock' = IF gone THEN Disconnected(sock, e, last) ELSE sock
  BY UnsubscribeEffect
<1> HIDE DEF e, gone, last
<1>2. Ids' = Ids /\ CallbackType' = CallbackType /\ OpType' = OpType /\ KaType' = KaType
  BY <1>1, SameIds
<1>3. CASE UNCHANGED <<cb, chan, sock>> /\ pending' \in [all : SUBSET Ids, recent : SUBSET Ids]
  <2>1. ConsumerTypes' /\ SupplierTypes' /\ ServerInv'
    BY <1>1, <1>2, <1>3 DEF DeafInv, TypeOK, ConsumerTypes, SupplierTypes, ServerInv
  <2>2. Connected' = Connected
    BY <1>3, SameClients
  <2>3. PhaseInv' /\ NeverDeaf'
    BY <1>1, <1>2, <1>3, <2>2 DEF DeafInv, PhaseInv, NeverDeaf
  <2> QED BY <1>1, <2>1, <2>3, HistoryKept DEF DeafInv, TypeOK
<1>4. CASE /\ pending' = pending /\ cb' \in [Events -> CallbackType]
           /\ ~ gone => cb'[e].endpoint = cb[e].endpoint
           /\ \A f \in Events \ {e} : cb'[f] = cb[f]
           /\ e \in Connected /\ Connected' = IF gone THEN Connected \ {e} ELSE Connected
           /\ chan' = IF last THEN NoChannel ELSE chan
           /\ sock' = IF gone THEN Disconnected(sock, e, last) ELSE sock
  <2>1. sock.filters[e] > 0
    BY <1>4 DEF DeafInv, NeverDeaf
  <2>2. /\ sock' \in SocketType /\ (~ last => sock'.pubs = sock.pubs)
        /\ \A f \in Connected' : sock'.filters[f] = sock.filters[f]
    <3>1. CASE gone
      <4>1. last \in BOOLEAN
        BY DEF last
      <4>2. /\ Disconnected(sock, e, last) \in SocketType
            /\ Disconnected(sock, e, last).pubs = IF last THEN sock.pubs \ {cb[e].endpoint} ELSE sock.pubs
            /\ \A f \in Events \ {e} : Disconnected(sock, e, last).filters[f] = sock.filters[f]
        BY <1>0, <1>1, <2>1, <4>1, DisconnectedFacts
      <4>3. sock' = Disconnected(sock, e, last) /\ Connected' \subseteq Events \ {e}
        BY <1>4, <3>1 DEF Connected
      <4> QED BY <4>2, <4>3
    <3>2. CASE ~ gone
      BY <1>0, <1>4, <3>2
    <3> QED BY <3>1, <3>2
  <2>3. chan' \in ChannelType
    BY <1>0, <1>4, ConsumerAssumption DEF NoChannel, ChannelType
  <2>4. last => Connected' = {}
    BY <1>4 DEF last
  <2>5. ~ last => Connected' # {}
    BY <1>4 DEF last
  <2>6. chan'.known <=> Connected' # {}
    BY <1>4, <2>4, <2>5 DEF NoChannel, DeafInv, NeverDeaf
  <2>7. ConsumerTypes' /\ SupplierTypes' /\ ServerInv'
    BY <1>1, <1>2, <1>4, <2>2, <2>3 DEF DeafInv, TypeOK, ConsumerTypes, SupplierTypes, ServerInv
  <2>8. PhaseInv'
    BY <1>1, <1>2 DEF DeafInv, PhaseInv, Reconnecting, Resubscribing
  <2>9. ASSUME NEW f \in Connected' PROVE sock'.filters[f] > 0 /\ cb'[f].endpoint \in sock'.pubs
    <3>1. f \in Connected /\ ~ last
      BY <1>4, <2>4, <2>9
    <3>2. cb'[f].endpoint = cb[f].endpoint
      BY <1>4, <2>9, <3>1 DEF Connected
    <3>3. sock.filters[f] > 0 /\ cb[f].endpoint \in sock.pubs
      BY <1>1, <3>1 DEF DeafInv, NeverDeaf
    <3> QED BY <2>2, <2>9, <3>1, <3>2, <3>3
  <2>10. NeverDeaf'
    BY <2>6, <2>9 DEF NeverDeaf
  <2> QED BY <1>1, <2>7, <2>8, <2>10, HistoryKept DEF DeafInv, TypeOK
<1> QED BY <1>1, <1>3, <1>4

(* The head of the queue, and what is left behind it. *)
LEMMA HeadFacts ==
    ASSUME DeafInv, wire # <<>>
    PROVE  /\ Head(wire) = wire[1] /\ wire[1] \in MessageType /\ wire[1].ev \in Events
           /\ Len(wire) \in Nat \ {0} /\ Tail(wire) \in Seq(MessageType)
           /\ Len(Tail(wire)) = Len(wire) - 1 /\ Len(Tail(wire)) <= Hwm
           /\ \A i \in 1 .. Len(Tail(wire)) : Tail(wire)[i] = wire[i + 1]
<1>1. wire \in Seq(MessageType) /\ Len(wire) <= Hwm
  BY DeafParts
<1>2. Len(wire) \in Nat \ {0}
  BY <1>1
<1>3. wire[1] \in MessageType
  BY <1>1, <1>2
<1>4. wire[1].ev \in Events
  BY <1>3 DEF MessageType
<1> QED BY <1>1, <1>2, <1>3, <1>4, SupplierAssumption

LEMMA SuppressEffect ==
    ASSUME DeafInv, SuppressEvent
    PROVE  LET m == wire[1]
               e == m.ev
           IN  /\ e \in Connected /\ Suppressed(cb[e], m.ctr) /\ Receiving
               /\ cb' \in [Events -> CallbackType]
               /\ cb'[e].ids = cb[e].ids /\ cb'[e].ctr = cb[e].ctr /\ cb'[e].endpoint = cb[e].endpoint
               /\ cb'[e].discarded_event
               /\ \A f \in Events \ {e} : cb'[f] = cb[f]
               /\ odd' = odd \cup OddSuppressed(m, got[e])
               /\ lossy' = IF OddSuppressed(m, got[e]) = {} THEN lossy ELSE lossy \cup {e}
               /\ wire' = Tail(wire) /\ Connected' = Connected
               /\ UNCHANGED <<scenario, val, svr, sock, chan, pending, op, ka, used, seen, got, blocked>>
<1> DEFINE m == wire[1]
           e == m.ev
<1>1. Receiving /\ wire # <<>>
  BY DEF SuppressEvent, Receiving
<1>2. Head(wire) = m /\ e \in Events
  BY <1>1, HeadFacts
<1>3. /\ cb[e].ids # {} /\ Suppressed(cb[e], m.ctr)
      /\ cb' = [cb EXCEPT ![e].discarded_event = TRUE]
      /\ odd' = odd \cup OddSuppressed(m, got[e])
      /\ lossy' = IF OddSuppressed(m, got[e]) = {} THEN lossy ELSE lossy \cup {e}
      /\ wire' = Tail(wire)
      /\ UNCHANGED <<scenario, val, svr, sock, chan, pending, op, ka, used, seen, got, blocked>>
  BY <1>2 DEF SuppressEvent
<1>4. cb \in [Events -> CallbackType]
  BY DeafParts
<1> HIDE DEF m, e
<1> DEFINE c == [cb[e] EXCEPT !.discarded_event = TRUE]
<1>5. /\ c \in CallbackType /\ c.ids = cb[e].ids /\ c.ctr = cb[e].ctr /\ c.endpoint = cb[e].endpoint
      /\ c.discarded_event
  BY <1>2, <1>4 DEF CallbackType
<1>6. cb' = [cb EXCEPT ![e] = c]
  BY <1>3, <1>4
<1> HIDE DEF c
<1>7. cb' \in [Events -> CallbackType] /\ cb'[e] = c /\ \A f \in Events \ {e} : cb'[f] = cb[f]
  BY <1>2, <1>4, <1>5, <1>6
<1>8. Connected' = Connected
  <2>1. \A f \in Events : cb'[f].ids = cb[f].ids
    BY <1>5, <1>7
  <2> QED BY <2>1, SameClients
<1>9. e \in Connected
  BY <1>2, <1>3 DEF Connected
<1> QED BY <1>1, <1>3, <1>5, <1>7, <1>8, <1>9 DEF m, e

LEMMA PushEffect ==
    ASSUME DeafInv, PushEvent
    PROVE  LET m == wire[1]
               e == m.ev
           IN  /\ e \in Connected /\ ~ Suppressed(cb[e], m.ctr) /\ Receiving
               /\ cb' \in [Events -> CallbackType]
               /\ cb'[e].ids = cb[e].ids /\ cb'[e].ctr = m.ctr /\ cb'[e].endpoint = cb[e].endpoint
               /\ ~ cb'[e].discarded_event
               /\ \A f \in Events \ {e} : cb'[f] = cb[f] /\ got'[f] = got[f]
               /\ got'[e].run = m.run /\ got'[e].nb = m.nb /\ got'[e].ctr = m.ctr
               /\ odd' = odd \cup OddAccepted(cb[e], m, got[e])
               /\ IF MonitorHeld(e)
                  THEN lossy' = lossy \cup {e} /\ seen' = seen
                  ELSE /\ lossy' = AfterEvent(m)
                       /\ seen' = [id \in Ids |-> IF id \in cb[e].ids THEN m.val ELSE seen[id]]
               /\ wire' = Tail(wire) /\ Connected' = Connected
               /\ HistoryTypes'
               /\ UNCHANGED <<scenario, val, svr, sock, chan, pending, op, ka, used, blocked>>
<1> DEFINE m == wire[1]
           e == m.ev
<1>1. Receiving /\ wire # <<>>
  BY DEF PushEvent, Receiving
<1>2. Head(wire) = m /\ e \in Events /\ m \in MessageType
  BY <1>1, HeadFacts
<1>3. /\ cb[e].ids # {} /\ ~ Suppressed(cb[e], m.ctr)
      /\ cb' = [cb EXCEPT ![e] = Counted(cb[e], m.ctr)]
      /\ odd' = odd \cup OddAccepted(cb[e], m, got[e])
      /\ got' = [got EXCEPT ![e] = [run |-> m.run, nb |-> m.nb, ctr |-> m.ctr]]
      /\ IF MonitorHeld(e)
         THEN lossy' = lossy \cup {e} /\ seen' = seen
         ELSE /\ lossy' = AfterEvent(m)
              /\ seen' = [id \in Ids |-> IF id \in cb[e].ids THEN m.val ELSE seen[id]]
      /\ wire' = Tail(wire)
      /\ UNCHANGED <<scenario, val, svr, sock, chan, pending, op, ka, used, blocked>>
  BY <1>2 DEF PushEvent
<1>4. /\ cb \in [Events -> CallbackType] /\ got \in [Events -> [run : Nat, nb : Nat, ctr : Nat]]
      /\ seen \in [Ids -> Nat \cup {None}]
      /\ odd \subseteq {"uncounted", "other run", "same run", "twice", "gap"}
  BY DeafParts
<1> HIDE DEF m, e
<1> DEFINE c == Counted(cb[e], m.ctr)
           g == [run |-> m.run, nb |-> m.nb, ctr |-> m.ctr]
<1>5. m.run \in Nat /\ m.nb \in Nat /\ m.ctr \in Nat /\ m.val \in Nat
  BY <1>2 DEF MessageType
<1>6. /\ c \in CallbackType /\ c.ids = cb[e].ids /\ c.ctr = m.ctr /\ c.endpoint = cb[e].endpoint
      /\ ~ c.discarded_event
  <2>1. cb[e] \in CallbackType
    BY <1>2, <1>4
  <2> QED BY <1>5, <2>1 DEF CallbackType, Counted
<1> HIDE DEF c
<1>7. cb' \in [Events -> CallbackType] /\ cb'[e] = c /\ \A f \in Events \ {e} : cb'[f] = cb[f]
  BY <1>2, <1>3, <1>4, <1>6 DEF c
<1>8. Connected' = Connected
  <2>1. \A f \in Events : cb'[f].ids = cb[f].ids
    BY <1>6, <1>7
  <2> QED BY <2>1, SameClients
<1>9. e \in Connected
  BY <1>2, <1>3 DEF Connected
<1>10. /\ got' \in [Events -> [run : Nat, nb : Nat, ctr : Nat]] /\ got'[e] = g
       /\ \A f \in Events \ {e} : got'[f] = got[f]
  BY <1>2, <1>3, <1>4, <1>5
<1>11. got'[e].run = m.run /\ got'[e].nb = m.nb /\ got'[e].ctr = m.ctr
  BY <1>10
<1>12. HistoryTypes'
  <2>1. Ids' = Ids
    BY <1>3, SameIds
  <2>2. seen' \in [Ids -> Nat \cup {None}]
    BY <1>3, <1>4, <1>5
  <2>3. odd' \subseteq {"uncounted", "other run", "same run", "twice", "gap"}
    BY <1>3, <1>4 DEF OddAccepted
  <2>4. blocked' \subseteq Events
    BY <1>3, DeafParts
  <2> QED BY <1>10, <2>1, <2>2, <2>3, <2>4 DEF HistoryTypes
<1> HIDE DEF g
<1> QED BY <1>1, <1>3, <1>6, <1>7, <1>8, <1>9, <1>10, <1>11, <1>12 DEF m, e

(* A step of the ZMQ thread that leaves the subscriptions as they are. *)
LEMMA ReceiveKept ==
    ASSUME DeafInv, cb' \in [Events -> CallbackType], wire # <<>>, wire' = Tail(wire),
           lossy' \subseteq Events,
           \A e \in Events : cb'[e].ids = cb[e].ids /\ cb'[e].endpoint = cb[e].endpoint,
           UNCHANGED <<scenario, val, svr, sock, chan, pending, op, ka, used>>
    PROVE  SupplierTypes' /\ ServerInv' /\ ConsumerTypes' /\ PhaseInv' /\ NeverDeaf'
<1>1. Ids' = Ids /\ CallbackType' = CallbackType /\ OpType' = OpType /\ KaType' = KaType
  BY SameIds
<1>2. Connected' = Connected
  BY SameClients
<1>3. wire' \in Seq(MessageType) /\ Len(wire') <= Hwm
  BY HeadFacts
<1>4. SupplierTypes' /\ ServerInv'
  BY <1>3 DEF DeafInv, TypeOK, SupplierTypes, ServerInv
<1>5. ConsumerTypes'
  BY <1>1 DEF DeafInv, TypeOK, ConsumerTypes
<1>6. PhaseInv'
  BY <1>1, <1>2 DEF DeafInv, PhaseInv
<1>7. NeverDeaf'
  BY <1>2 DEF DeafInv, NeverDeaf, Connected
<1> QED BY <1>4, <1>5, <1>6, <1>7

LEMMA ReceiveDeaf == ASSUME DeafInv, Receive PROVE DeafInv'
<1>0. lossy \subseteq Events /\ odd \subseteq {"uncounted", "other run", "same run", "twice", "gap"}
  BY DeafParts
<1>1. CASE SuppressEvent
  <2> DEFINE m == wire[1]
             e == m.ev
  <2>1. /\ cb' \in [Events -> CallbackType] /\ wire # <<>> /\ wire' = Tail(wire) /\ e \in Connected
        /\ \A f \in Events : cb'[f].ids = cb[f].ids /\ cb'[f].endpoint = cb[f].endpoint
        /\ lossy' \subseteq lossy \cup {e} /\ odd' = odd \cup OddSuppressed(m, got[e])
        /\ UNCHANGED <<scenario, val, svr, sock, chan, pending, op, ka, used, seen, got, blocked>>
    BY <1>1, SuppressEffect DEF Receiving
  <2>2. lossy' \subseteq Events
    BY <1>0, <2>1 DEF Connected
  <2>3. SupplierTypes' /\ ServerInv' /\ ConsumerTypes' /\ PhaseInv' /\ NeverDeaf'
    BY <2>1, <2>2, ReceiveKept
  <2>4. odd' \subseteq {"uncounted", "other run", "same run", "twice", "gap"}
    BY <1>0, <2>1 DEF OddSuppressed
  <2>5. Ids' = Ids
    BY <2>1, SameIds
  <2>6. HistoryTypes'
    BY <2>1, <2>4, <2>5 DEF DeafInv, TypeOK, HistoryTypes
  <2> QED BY <2>3, <2>6 DEF DeafInv, TypeOK
<1>2. CASE PushEvent
  <2> DEFINE e == wire[1].ev
  <2>1. /\ cb' \in [Events -> CallbackType] /\ wire # <<>> /\ wire' = Tail(wire) /\ e \in Connected
        /\ \A f \in Events : cb'[f].ids = cb[f].ids /\ cb'[f].endpoint = cb[f].endpoint
        /\ lossy' \in {lossy \cup {e}, AfterEvent(wire[1])} /\ HistoryTypes'
        /\ UNCHANGED <<scenario, val, svr, sock, chan, pending, op, ka, used>>
    BY <1>2, PushEffect DEF Receiving
  <2>2. lossy' \subseteq Events
    BY <1>0, <2>1 DEF Connected, AfterEvent
  <2>3. SupplierTypes' /\ ServerInv' /\ ConsumerTypes' /\ PhaseInv' /\ NeverDeaf'
    BY <2>1, <2>2, ReceiveKept
  <2> QED BY <2>1, <2>3 DEF DeafInv, TypeOK
<1>3. CASE IgnoreEvent
  <2>1. /\ cb' = cb /\ wire # <<>> /\ wire' = Tail(wire)
        /\ UNCHANGED <<scenario, val, svr, sock, lossy, chan, pending, op, ka, used, historyVars>>
    BY <1>3 DEF IgnoreEvent, Receiving, consumerVars
  <2>2. cb \in [Events -> CallbackType]
    BY DeafParts
  <2>3. SupplierTypes' /\ ServerInv' /\ ConsumerTypes' /\ PhaseInv' /\ NeverDeaf'
    BY <1>0, <2>1, <2>2, ReceiveKept
  <2> QED BY <2>1, <2>3, HistoryKept DEF DeafInv, TypeOK
<1> QED BY <1>1, <1>2, <1>3 DEF Receive

(* A step of the keep-alive thread that leaves the subscriptions as they are. *)
LEMMA KeepAliveKept ==
    ASSUME DeafInv, scenario' \in Scenario, scenario'.ids = scenario.ids, ServerOK(svr'),
           chan' \in ChannelType, chan'.known <=> chan.known,
           pending' \in [all : SUBSET Ids, recent : SUBSET Ids], op' \in OpType, ka' \in KaType,
           wire' \in Seq(MessageType), Len(wire') <= Hwm, lossy' \subseteq Events,
           sock' = sock, ka.pc # "events", blocked' \subseteq Events, PhaseInv',
           UNCHANGED <<val, cb, used, seen, got, odd>>
    PROVE  DeafInv'
<1>1. Ids' = Ids /\ CallbackType' = CallbackType /\ OpType' = OpType /\ KaType' = KaType
  BY SameIds
<1>2. Connected' = Connected
  BY SameClients
<1>3. SupplierTypes' /\ ServerInv'
  BY DEF DeafInv, TypeOK, SupplierTypes, ServerInv, ServerOK
<1>4. ConsumerTypes'
  BY <1>1 DEF DeafInv, TypeOK, ConsumerTypes
<1>5. HistoryTypes'
  BY <1>1 DEF DeafInv, TypeOK, HistoryTypes
<1>6. NeverDeaf'
  BY <1>2 DEF DeafInv, NeverDeaf
<1> QED BY <1>3, <1>4, <1>5, <1>6 DEF DeafInv, TypeOK

LEMMA TickEffect ==
    ASSUME DeafInv, NEW lost \in BOOLEAN, Tick(lost)
    PROVE  /\ ka = Asleep /\ op = NoOp /\ scenario' \in Scenario /\ scenario'.ids = scenario.ids
           /\ svr' = Older(svr) /\ ka' \in KaType
           /\ ka'.pc = "pending" /\ ka'.todo \subseteq Ids /\ ka'.run = 0
           /\ chan' \in ChannelType /\ (chan'.known <=> chan.known)
           /\ chan.known => chan'.last_subscribed =
                 IF chan.last_subscribed <= ConfirmPeriod THEN chan.last_subscribed + 1 ELSE ConfirmPeriod + 1
           /\ pending' \in [all : SUBSET Ids, recent : SUBSET Ids]
           /\ UNCHANGED <<val, sock, wire, lossy, cb, op, used, historyVars>>
<1>0. /\ scenario \in Scenario /\ chan \in ChannelType
      /\ pending \in [all : SUBSET Ids, recent : SUBSET Ids]
  BY DeafParts
<1>1. /\ ka = Asleep /\ op = NoOp /\ (lost => scenario.loss > 0)
      /\ scenario' = IF lost THEN [scenario EXCEPT !.loss = @ - 1] ELSE scenario
      /\ svr' = Older(svr)
      /\ chan' = IF chan.known
                 THEN [chan EXCEPT !.heartbeat = Heartbeat /\ ~ lost,
                                   !.last_subscribed = Min({@ + 1, ConfirmPeriod + 1})]
                 ELSE chan
      /\ pending' = [pending EXCEPT !.recent = {}]
      /\ UNCHANGED <<val, sock, wire, lossy, cb, op, used, historyVars>>
  BY DEF Tick, Older
<1>2. PICK late \in SUBSET pending.recent :
         ka' = [Asleep EXCEPT !.pc = "pending", !.todo = pending.all \ late]
  BY DEF Tick
<1>3. scenario' \in Scenario /\ scenario'.ids = scenario.ids
  <2>1. CASE lost
    <3>1. scenario.loss > 0 /\ scenario' = [scenario EXCEPT !.loss = @ - 1]
      BY <1>1, <2>1
    <3> QED BY <1>0, <3>1, ScenarioStep
  <2>2. CASE ~ lost
    BY <1>0, <1>1, <2>2
  <2> QED BY <2>1, <2>2
<1>4. /\ chan' \in ChannelType /\ (chan'.known <=> chan.known)
      /\ chan.known => chan'.last_subscribed =
            IF chan.last_subscribed <= ConfirmPeriod THEN chan.last_subscribed + 1 ELSE ConfirmPeriod + 1
  <2>1. CASE chan.known
    <3> DEFINE beat == Heartbeat /\ ~ lost
               last == Min({chan.last_subscribed + 1, ConfirmPeriod + 1})
    <3>1. ConfirmPeriod \in Nat /\ chan.last_subscribed \in 0 .. ConfirmPeriod + 1
      BY <1>0, ConsumerAssumption DEF ChannelType
    <3>2. last = IF chan.last_subscribed + 1 <= ConfirmPeriod + 1 THEN chan.last_subscribed + 1
                 ELSE ConfirmPeriod + 1
      BY <3>1, MinTwo
    <3>3. chan' = [chan EXCEPT !.heartbeat = beat, !.last_subscribed = last]
      BY <1>0, <1>1, <2>1 DEF ChannelType
    <3> HIDE DEF last
    <3>4. last \in 0 .. ConfirmPeriod + 1
          /\ last = IF chan.last_subscribed <= ConfirmPeriod THEN chan.last_subscribed + 1 ELSE ConfirmPeriod + 1
      BY <3>1, <3>2
    <3>5. beat \in BOOLEAN
      OBVIOUS
    <3> HIDE DEF beat
    <3> QED BY <1>0, <3>3, <3>4, <3>5 DEF ChannelType
  <2>2. CASE ~ chan.known
    BY <1>0, <1>1, <2>2
  <2> QED BY <2>1, <2>2
<1>5. pending' \in [all : SUBSET Ids, recent : SUBSET Ids]
  BY <1>0, <1>1
<1>6. ka' \in KaType /\ ka'.pc = "pending" /\ ka'.todo \subseteq Ids /\ ka'.run = 0
  <2> DEFINE todo == pending.all \ late
  <2>1. todo \in SUBSET Ids
    BY <1>0
  <2>2. ka' = [pc |-> "pending", todo |-> todo, run |-> 0, da |-> None]
    BY <1>2 DEF Asleep
  <2> HIDE DEF todo
  <2> QED BY <2>1, <2>2 DEF KaType
<1> QED BY <1>1, <1>3, <1>4, <1>5, <1>6

LEMMA TickDeaf == ASSUME DeafInv, NEW lost \in BOOLEAN, Tick(lost) PROVE DeafInv'
<1>1. /\ ka = Asleep /\ op = NoOp /\ scenario' \in Scenario /\ scenario'.ids = scenario.ids
      /\ svr' = Older(svr) /\ ka' \in KaType
      /\ ka'.pc = "pending" /\ ka'.todo \subseteq Ids
      /\ chan' \in ChannelType /\ (chan'.known <=> chan.known)
      /\ pending' \in [all : SUBSET Ids, recent : SUBSET Ids]
      /\ UNCHANGED <<val, sock, wire, lossy, cb, op, used, historyVars>>
  BY TickEffect
<1>2. ServerOK(svr')
  BY <1>1, DeafParts, OlderFacts
<1>3. Ids' = Ids
  BY <1>1, SameIds
<1>4. PhaseInv'
  BY <1>1, <1>3 DEF DeafInv, PhaseInv, NoOp, Reconnecting, Resubscribing
<1> QED BY <1>1, <1>2, <1>4, DeafParts, KeepAliveKept DEF Asleep, historyVars

LEMMA NotConnectedDeaf == ASSUME DeafInv, NotConnectedEvent PROVE DeafInv'
<1>0. ka \in KaType /\ op \in OpType
  BY DeafParts
<1>1. /\ ka.pc = "pending" /\ op = NoOp /\ ka.todo \subseteq Ids
      /\ UNCHANGED <<scenario, supplierVars, chan, cb, pending, used, historyVars>>
  BY DEF NotConnectedEvent, DeafInv, PhaseInv
<1>2. op' \in OpType /\ ka' \in KaType /\ PhaseInv'
  <2>0. Ids' = Ids
    BY <1>1, SameIds
  <2>1. CASE ka.todo = {}
    <3>1. ka' = [ka EXCEPT !.pc = "channel"] /\ op' = op
      BY <2>1 DEF NotConnectedEvent
    <3>2. ka' \in KaType /\ ka'.pc = "channel" /\ ka'.todo = {}
      BY <1>0, <2>1, <3>1 DEF KaType
    <3> QED BY <1>0, <1>1, <3>1, <3>2 DEF DeafInv, PhaseInv, Reconnecting, Resubscribing, NoOp
  <2>2. CASE ka.todo # {}
    <3>1. PICK id \in ka.todo :
             /\ op' = [NoOp EXCEPT !.pc = "info", !.id = id, !.by_ka = TRUE]
             /\ ka' = [ka EXCEPT !.todo = @ \ {id}]
      BY <2>2 DEF NotConnectedEvent
    <3>2. op' = [pc |-> "info", id |-> id, by_ka |-> TRUE, run |-> 0, da |-> None]
      BY <3>1 DEF NoOp
    <3>3. op' \in OpType /\ op'.pc = "info" /\ op'.id \in Ids /\ op' # NoOp
      BY <1>1, <3>2 DEF OpType, NoOp
    <3> DEFINE todo == ka.todo \ {id}
    <3>4. todo \in SUBSET Ids
      BY <1>1
    <3>5. ka' = [ka EXCEPT !.todo = todo]
      BY <1>0, <3>1 DEF KaType
    <3> HIDE DEF todo
    <3>6. ka' \in KaType /\ ka'.pc = "pending" /\ ka'.todo \subseteq Ids
      BY <1>0, <1>1, <3>4, <3>5 DEF KaType
    <3> QED BY <2>0, <3>3, <3>6 DEF PhaseInv, Reconnecting, Resubscribing
  <2> QED BY <2>1, <2>2
<1> QED BY <1>1, <1>2, DeafParts, KeepAliveKept DEF supplierVars, historyVars

LEMMA ConfirmDeaf == ASSUME DeafInv, ConfirmSubscription PROVE DeafInv'
<1>0. ka \in KaType /\ chan \in ChannelType /\ ServerOK(svr) /\ blocked \subseteq Events
  BY DeafParts
<1>1. /\ ka.pc = "channel" /\ op = NoOp /\ ka' = [ka EXCEPT !.pc = "heartbeat"]
      /\ UNCHANGED <<scenario, val, sock, wire, lossy, cb, pending, op, used, seen, got, odd>>
  BY DEF ConfirmSubscription
<1>2. ka' \in KaType /\ ka'.pc = "heartbeat" /\ ka'.todo = {}
  BY <1>0, <1>1 DEF KaType, DeafInv, PhaseInv
<1>3. PhaseInv'
  BY <1>1, <1>2 DEF DeafInv, PhaseInv, NoOp, Reconnecting, Resubscribing
<1>4. /\ ServerOK(svr') /\ chan' \in ChannelType /\ (chan'.known <=> chan.known)
      /\ blocked' \subseteq Events
  <2>1. CASE chan.known /\ chan.last_subscribed > ConfirmPeriod /\ svr.up
    <3>1. /\ svr' = Confirmed(svr, Connected)
          /\ chan' \in {[chan EXCEPT !.last_subscribed = 0], chan}
          /\ blocked' = (blocked \cup Connected) \ ConfirmedEvents(svr, Connected)
      BY <2>1 DEF ConfirmSubscription
    <3>2. Connected \in SUBSET Events
      BY ConnectedEvents
    <3>3. ServerOK(svr')
      BY <1>0, <3>1, <3>2, ConfirmedFacts
    <3>4. [chan EXCEPT !.last_subscribed = 0] \in ChannelType
          /\ [chan EXCEPT !.last_subscribed = 0].known = chan.known
      BY <1>0, ConsumerAssumption DEF ChannelType
    <3> QED BY <1>0, <3>1, <3>2, <3>3, <3>4
  <2>2. CASE ~ (chan.known /\ chan.last_subscribed > ConfirmPeriod /\ svr.up)
    BY <1>0, <2>2 DEF ConfirmSubscription
  <2> QED BY <2>1, <2>2
<1> QED BY <1>1, <1>2, <1>3, <1>4, DeafParts, KeepAliveKept

LEMMA HeartbeatEffect ==
    ASSUME DeafInv, CheckHeartbeat
    PROVE  /\ ka.pc = "heartbeat" /\ chan' \in ChannelType /\ (chan'.known <=> chan.known)
           /\ chan'.last_subscribed = chan.last_subscribed
           /\ ka' \in KaType /\ ka'.run \in {ka.run, 0}
           /\ \/ ka' = Asleep
              \/ ka'.pc = "reconnect" /\ ka'.todo = {} /\ chan.known
           /\ UNCHANGED <<scenario, supplierVars, cb, pending, op, used, historyVars>>
<1>0. ka \in KaType /\ chan \in ChannelType
  BY DeafParts
<1>1. /\ ka.pc = "heartbeat" /\ ka.todo = {}
      /\ UNCHANGED <<scenario, supplierVars, cb, pending, op, used, historyVars>>
  BY DEF CheckHeartbeat, DeafInv, PhaseInv
<1>2. CASE Lost(chan)
  <2>1. chan' = [chan EXCEPT !.heartbeat_skipped = TRUE] /\ ka' = [ka EXCEPT !.pc = "reconnect"]
    BY <1>2 DEF CheckHeartbeat
  <2>2. chan' \in ChannelType /\ (chan'.known <=> chan.known) /\ chan'.last_subscribed = chan.last_subscribed
    BY <1>0, <2>1 DEF ChannelType
  <2>3. ka' \in KaType /\ ka'.pc = "reconnect" /\ ka'.todo = {} /\ ka'.run = ka.run
    BY <1>0, <1>1, <2>1 DEF KaType
  <2> QED BY <1>1, <1>2, <2>2, <2>3 DEF Lost
<1>3. CASE ~ Lost(chan)
  <2>1. ka' = Asleep /\ chan' = chan
    BY <1>3 DEF CheckHeartbeat
  <2>2. Asleep \in KaType /\ Asleep.run = 0
    BY DEF Asleep, KaType
  <2> QED BY <1>0, <1>1, <2>1, <2>2
<1> QED BY <1>2, <1>3

LEMMA HeartbeatDeaf == ASSUME DeafInv, CheckHeartbeat PROVE DeafInv'
<1>1. /\ ka.pc = "heartbeat" /\ chan' \in ChannelType /\ (chan'.known <=> chan.known)
      /\ ka' \in KaType
      /\ \/ ka' = Asleep
         \/ ka'.pc = "reconnect" /\ ka'.todo = {} /\ chan.known
      /\ UNCHANGED <<scenario, supplierVars, cb, pending, op, used, historyVars>>
  BY HeartbeatEffect
<1>2. op.pc = "idle" /\ op = NoOp /\ op' = op
  BY <1>1 DEF DeafInv, PhaseInv, NoOp, TypeOK, ConsumerTypes, OpType
<1>3. Connected' = Connected
  BY <1>1, SameClients
<1>4. chan.known => Connected # {}
  BY DEF DeafInv, NeverDeaf
<1>5. PhaseInv'
  <2>1. CASE ka' = Asleep
    BY <1>2, <2>1 DEF PhaseInv, Asleep, Reconnecting, Resubscribing, NoOp
  <2>2. CASE ka'.pc = "reconnect" /\ ka'.todo = {} /\ chan.known
    BY <1>2, <1>3, <1>4, <2>2 DEF PhaseInv, Reconnecting, Resubscribing, NoOp
  <2> QED BY <1>1, <2>1, <2>2
<1> QED BY <1>1, <1>5, DeafParts, KeepAliveKept DEF supplierVars, historyVars

(* The subset of the queue that a reconnection leaves. *)
LEMMA NotFromKept ==
    ASSUME DeafInv, NEW run, wire' \in {wire, NotFrom(wire, run)}
    PROVE  wire' \in Seq(MessageType) /\ Len(wire') <= Hwm
<1>0. wire \in Seq(MessageType) /\ Len(wire) <= Hwm
  BY DeafParts
<1>1. wire \in Seq(MessageType) /\ Len(wire) \in Nat /\ Len(wire) <= Hwm /\ Hwm \in Nat
  BY <1>0, SupplierAssumption
<1>2. NotFrom(wire, run) \in Seq(MessageType) /\ Len(NotFrom(wire, run)) <= Len(wire)
  BY <1>1, NotFromFacts
<1>3. Len(NotFrom(wire, run)) \in Nat
  BY <1>2
<1>4. CASE wire' = wire
  BY <1>1, <1>4
<1>5. CASE wire' = NotFrom(wire, run)
  BY <1>1, <1>2, <1>3, <1>5
<1> QED BY <1>4, <1>5

LEMMA MinConnected ==
    ASSUME Connected # {}
    PROVE  Min(Connected) \in Connected /\ Min(Connected) \in Events
BY ConnectedEvents, MinIs

(* A reconnection: of the first event, if the server accepts it. *)
LEMMA ChannelEffect ==
    ASSUME DeafInv, ReconnectToChannel
    PROVE  LET e == Min(Connected)
           IN  /\ ka.pc = "reconnect" /\ op = NoOp /\ e \in Connected
               /\ chan' \in ChannelType /\ (chan'.known <=> chan.known)
               /\ chan'.last_subscribed = chan.last_subscribed
               /\ ka' \in KaType
               /\ \/ /\ svr.up /\ svr' = Subscribed(svr, e) /\ blocked' = blocked \ {e}
                     /\ sock' \in SocketType /\ sock'.filters = sock.filters
                     /\ wire' \in {wire, NotFrom(wire, cb[e].endpoint)}
                     /\ lossy' = lossy \cup {m.ev : m \in ToSet(wire) \ ToSet(wire')}
                     /\ ka'.pc = "events" /\ ka'.todo = {} /\ ka'.run = svr.run
                  \/ ka' = Asleep /\ UNCHANGED <<svr, sock, wire, lossy, blocked>>
               /\ UNCHANGED <<scenario, val, cb, pending, op, used, seen, got, odd>>
<1> DEFINE e == Min(Connected)
<1>0. /\ ka \in KaType /\ chan \in ChannelType /\ sock \in SocketType /\ op \in OpType
      /\ svr.run \in Nat
  BY DeafParts DEF ServerOK, ServerType
<1>1. /\ ka.pc = "reconnect"
      /\ UNCHANGED <<scenario, val, cb, pending, op, used, seen, got, odd>>
  BY DEF ReconnectToChannel
<1>2. Connected # {} /\ op = NoOp /\ ka.todo = {}
  BY <1>0, <1>1 DEF DeafInv, PhaseInv, Reconnecting, OpType
<1>3. e \in Connected
  BY <1>2, MinConnected
<1>4. CASE Accepts(svr, e)
  <2>1. /\ svr' = Subscribed(svr, e)
        /\ chan' = [chan EXCEPT !.run = svr.run, !.heartbeat = TRUE,
                                !.heartbeat_skipped = FALSE, !.event_system_failed = FALSE]
        /\ sock' = [sock EXCEPT !.pubs = @ \ {cb[e].endpoint}]
        /\ wire' \in {wire, NotFrom(wire, cb[e].endpoint)}
        /\ lossy' = lossy \cup {m.ev : m \in ToSet(wire) \ ToSet(wire')}
        /\ blocked' = blocked \ {e}
        /\ ka' = [ka EXCEPT !.pc = "events", !.run = svr.run]
    BY <1>4 DEF ReconnectToChannel
  <2>2. svr.up
    BY <1>4 DEF Accepts
  <2> HIDE DEF e
  <2>3. chan' \in ChannelType /\ (chan'.known <=> chan.known) /\ chan'.last_subscribed = chan.last_subscribed
    BY <1>0, <2>1 DEF ChannelType
  <2>4. sock' \in SocketType /\ sock'.filters = sock.filters
    BY <1>0, <2>1 DEF SocketType
  <2>5. ka' \in KaType /\ ka'.pc = "events" /\ ka'.todo = {} /\ ka'.run = svr.run
    BY <1>0, <1>2, <2>1 DEF KaType
  <2> QED BY <1>1, <1>2, <1>3, <2>1, <2>2, <2>3, <2>4, <2>5 DEF e
<1>5. CASE ~ Accepts(svr, e)
  <2>1. /\ chan' = [chan EXCEPT !.event_system_failed = TRUE] /\ ka' = Asleep
        /\ UNCHANGED <<svr, sock, wire, lossy, blocked>>
    BY <1>5 DEF ReconnectToChannel
  <2> HIDE DEF e
  <2>2. chan' \in ChannelType /\ (chan'.known <=> chan.known) /\ chan'.last_subscribed = chan.last_subscribed
    BY <1>0, <2>1 DEF ChannelType
  <2>3. Asleep \in KaType
    BY DEF Asleep, KaType
  <2> QED BY <1>1, <1>2, <1>3, <2>1, <2>2, <2>3 DEF e
<1> QED BY <1>4, <1>5

LEMMA ChannelDeaf == ASSUME DeafInv, ReconnectToChannel PROVE DeafInv'
<1> DEFINE e == Min(Connected)
           made == /\ svr.up /\ svr' = Subscribed(svr, e) /\ blocked' = blocked \ {e}
                   /\ sock' \in SocketType /\ sock'.filters = sock.filters
                   /\ wire' \in {wire, NotFrom(wire, cb[e].endpoint)}
                   /\ lossy' = lossy \cup {m.ev : m \in ToSet(wire) \ ToSet(wire')}
                   /\ ka'.pc = "events" /\ ka'.todo = {} /\ ka'.run = svr.run
<1>1. /\ ka.pc = "reconnect" /\ op = NoOp /\ e \in Connected
      /\ chan' \in ChannelType /\ (chan'.known <=> chan.known)
      /\ ka' \in KaType
      /\ made \/ (ka' = Asleep /\ UNCHANGED <<svr, sock, wire, lossy, blocked>>)
      /\ UNCHANGED <<scenario, val, cb, pending, op, used, seen, got, odd>>
  BY ChannelEffect
<1> HIDE DEF e
<1>2. Connected' = Connected
  BY <1>1, SameClients
<1>3. Ids' = Ids /\ CallbackType' = CallbackType /\ OpType' = OpType /\ KaType' = KaType
  BY <1>1, SameIds
<1>4. CASE made
  <2>1. ServerOK(svr')
    <3>1. e \in Events /\ ServerOK(svr)
      BY <1>1, ConnectedEvents, DeafParts
    <3> QED BY <1>4, <3>1, SubscribedFacts DEF SubscribedTo
  <2>2. wire' \in Seq(MessageType) /\ Len(wire') <= Hwm
    BY <1>4, NotFromKept
  <2>3. lossy' \subseteq Events
    <3>1. wire \in Seq(MessageType) /\ lossy \subseteq Events
      BY DeafParts
    <3>2. \A m \in MessageType : m.ev \in Events
      BY DEF MessageType
    <3>3. ToSet(wire) \subseteq MessageType
      BY <3>1 DEF ToSet
    <3> QED BY <1>4, <3>1, <3>2, <3>3
  <2>4. SupplierTypes' /\ ServerInv'
    BY <1>1, <1>4, <2>1, <2>2, <2>3 DEF DeafInv, TypeOK, SupplierTypes, ServerInv, ServerOK
  <2>5. ConsumerTypes'
    BY <1>1, <1>3 DEF DeafInv, TypeOK, ConsumerTypes
  <2>6. HistoryTypes'
    BY <1>1, <1>3, <1>4 DEF DeafInv, TypeOK, HistoryTypes
  <2>7. PhaseInv'
    BY <1>1, <1>2, <1>4 DEF PhaseInv, NoOp, Reconnecting, Resubscribing
  <2>8. NeverDeaf'
    BY <1>1, <1>2, <1>4 DEF DeafInv, NeverDeaf
  <2> QED BY <2>4, <2>5, <2>6, <2>7, <2>8 DEF DeafInv, TypeOK
<1>5. CASE ka' = Asleep /\ UNCHANGED <<svr, sock, wire, lossy, blocked>>
  <2>1. PhaseInv'
    BY <1>1, <1>5 DEF PhaseInv, NoOp, Asleep, Reconnecting, Resubscribing
  <2> QED BY <1>1, <1>5, <2>1, DeafParts, KeepAliveKept
<1> QED BY <1>1, <1>4, <1>5

LEMMA ReconnectedFacts ==
    ASSUME NEW s \in SocketType, NEW es \in SUBSET Events, es # {}, NEW run \in Nat,
           \A e \in es : s.filters[e] > 0
    PROVE  LET t == Reconnected(s, es, run)
           IN  t \in SocketType /\ run \in t.pubs /\ \A e \in es : t.filters[e] > 0
<1> DEFINE n == Min(es)
           r == [s EXCEPT !.filters[n] = @ - 1]
           filters == [s.filters EXCEPT ![n] = @ - 1]
<1>1. n \in es
  BY MinIs, SupplierAssumption
<1>2. s.pubs \in SUBSET Nat /\ s.filters \in [Events -> Nat]
  BY DEF SocketType
<1> HIDE DEF n
<1>3. filters \in [Events -> Nat] /\ \A e \in es : filters[e] + 1 > 0
  <2>1. s.filters[n] - 1 \in Nat
    BY <1>1, <1>2
  <2> QED BY <1>1, <1>2, <2>1
<1>4. r = [pubs |-> s.pubs, filters |-> filters]
  BY <1>2 DEF SocketType
<1> HIDE DEF filters
<1>5. r \in SocketType /\ r.filters = filters
  BY <1>2, <1>3, <1>4 DEF SocketType
<1>6. Reconnected(s, es, run) = ConnectEventSystem(r, es, run)
  BY DEF Reconnected, n
<1> HIDE DEF r
<1> DEFINE t == ConnectEventSystem(r, es, run)
<1>7. /\ t \in SocketType /\ t.pubs = r.pubs \cup {run}
      /\ \A e \in Events : t.filters[e] = r.filters[e] + IF e \in es THEN 1 ELSE 0
  BY <1>5, ConnectEventSystemFacts
<1> HIDE DEF t
<1>8. \A e \in es : t.filters[e] = filters[e] + 1
  BY <1>5, <1>7
<1> QED BY <1>3, <1>6, <1>7, <1>8 DEF t

LEMMA EventsEffect ==
    ASSUME DeafInv, ReconnectToEvents
    PROVE  /\ ka.pc = "events" /\ op = NoOp /\ cb' \in [Events -> CallbackType]
           /\ Connected' = Connected /\ Connected # {}
           /\ \A e \in Events : /\ cb'[e].ids = cb[e].ids /\ cb'[e].ctr = cb[e].ctr
                                /\ (cb'[e].discarded_event <=> cb[e].discarded_event)
           /\ \A e \in Connected : cb'[e].endpoint = ka.run
           /\ ka' \in KaType /\ ka'.pc = "subscribe" /\ ka'.todo = Connected /\ ka'.run = ka.run
           /\ sock' = Reconnected(sock, Connected, ka.run)
           /\ UNCHANGED <<scenario, val, svr, wire, lossy, chan, pending, op, used, historyVars>>
<1>0. /\ ka \in KaType /\ op \in OpType /\ cb \in [Events -> CallbackType] /\ ka.run \in Nat
  BY DeafParts DEF KaType
<1>1. /\ ka.pc = "events" /\ sock' = Reconnected(sock, Connected, ka.run)
      /\ cb' = [e \in Events |-> IF e \in Connected THEN [cb[e] EXCEPT !.endpoint = ka.run] ELSE cb[e]]
      /\ ka' = [ka EXCEPT !.pc = "subscribe", !.todo = Connected]
      /\ UNCHANGED <<scenario, val, svr, wire, lossy, chan, pending, op, used, historyVars>>
  BY DEF ReconnectToEvents
<1>2. op = NoOp /\ Connected # {}
  BY <1>0, <1>1 DEF DeafInv, PhaseInv, Reconnecting, OpType
<1>3. ASSUME NEW e \in Events
      PROVE  LET c == [cb[e] EXCEPT !.endpoint = ka.run]
             IN  /\ c \in CallbackType /\ c.ids = cb[e].ids /\ c.ctr = cb[e].ctr
                 /\ (c.discarded_event <=> cb[e].discarded_event) /\ c.endpoint = ka.run
  <2>1. cb[e] \in CallbackType
    BY <1>0
  <2> QED BY <1>0, <2>1 DEF CallbackType
<1>4. cb' \in [Events -> CallbackType]
  BY <1>0, <1>1, <1>3
<1>5. ASSUME NEW e \in Events
      PROVE  /\ cb'[e].ids = cb[e].ids /\ cb'[e].ctr = cb[e].ctr
             /\ (cb'[e].discarded_event <=> cb[e].discarded_event)
             /\ e \in Connected => cb'[e].endpoint = ka.run
  <2>1. CASE e \in Connected
    <3>1. cb'[e] = [cb[e] EXCEPT !.endpoint = ka.run]
      BY <1>1, <2>1
    <3> QED BY <1>3, <3>1
  <2>2. CASE e \notin Connected
    BY <1>1, <2>2
  <2> QED BY <2>1, <2>2
<1>6. Connected' = Connected
  BY <1>5, SameClients
<1>7. ka' \in KaType /\ ka'.pc = "subscribe" /\ ka'.todo = Connected /\ ka'.run = ka.run
  <2> DEFINE S == Connected
  <2>1. S \in SUBSET Events /\ ka' = [ka EXCEPT !.pc = "subscribe", !.todo = S]
    BY <1>1, ConnectedEvents
  <2> HIDE DEF S
  <2>2. ka' \in KaType /\ ka'.pc = "subscribe" /\ ka'.todo = S /\ ka'.run = ka.run
    BY <1>0, <2>1 DEF KaType
  <2> QED BY <2>2 DEF S
<1>8. Connected \subseteq Events
  BY ConnectedEvents
<1> QED BY <1>1, <1>2, <1>4, <1>5, <1>6, <1>7, <1>8

LEMMA EventsDeaf == ASSUME DeafInv, ReconnectToEvents PROVE DeafInv'
<1>1. /\ ka.pc = "events" /\ op = NoOp /\ cb' \in [Events -> CallbackType]
      /\ Connected' = Connected /\ Connected # {}
      /\ \A e \in Connected : cb'[e].endpoint = ka.run
      /\ ka' \in KaType /\ ka'.pc = "subscribe" /\ ka'.todo = Connected
      /\ sock' = Reconnected(sock, Connected, ka.run)
      /\ UNCHANGED <<scenario, val, svr, wire, lossy, chan, pending, op, used, historyVars>>
  BY EventsEffect
<1>2. sock \in SocketType /\ ka.run \in Nat /\ Connected \in SUBSET Events
  BY DeafParts, ConnectedEvents DEF KaType
<1>3. \A e \in Connected : sock.filters[e] > 0
  BY DEF DeafInv, NeverDeaf
<1>4. sock' \in SocketType /\ ka.run \in sock'.pubs /\ \A e \in Connected : sock'.filters[e] > 0
  BY <1>1, <1>2, <1>3, ReconnectedFacts
<1>5. Ids' = Ids /\ CallbackType' = CallbackType /\ OpType' = OpType /\ KaType' = KaType
  BY <1>1, SameIds
<1>6. SupplierTypes' /\ ServerInv'
  BY <1>1, <1>4 DEF DeafInv, TypeOK, SupplierTypes, ServerInv
<1>7. ConsumerTypes'
  BY <1>1, <1>5 DEF DeafInv, TypeOK, ConsumerTypes
<1>8. PhaseInv'
  BY <1>1, <1>2 DEF PhaseInv, NoOp, Reconnecting, Resubscribing
<1>9. NeverDeaf'
  BY <1>1, <1>4 DEF DeafInv, NeverDeaf
<1> QED BY <1>1, <1>6, <1>7, <1>8, <1>9, HistoryKept DEF DeafInv, TypeOK

LEMMA NextEventFacts ==
    ASSUME NEW k \in KaType, k.todo \subseteq Events, k.todo # {}, k.pc \in Resubscribing
    PROVE  LET n == NextEvent(k)
           IN  /\ n \in KaType /\ Min(k.todo) \in k.todo
               /\ \/ n = Asleep /\ k.todo = {Min(k.todo)}
                  \/ n.pc = "subscribe" /\ n.todo = k.todo \ {Min(k.todo)} /\ n.todo # {} /\ n.run = k.run
<1> DEFINE f == Min(k.todo)
<1>1. f \in k.todo /\ IsFiniteSet(k.todo)
  <2>1. k.todo \subseteq Nat /\ IsFiniteSet(k.todo)
    BY SupplierAssumption, FS_Subset
  <2> QED BY <2>1, MinIs
<1> HIDE DEF f
<1>2. CASE Cardinality(k.todo) = 1
  <2>1. NextEvent(k) = Asleep /\ Asleep \in KaType
    BY <1>2 DEF NextEvent, Asleep, KaType
  <2>2. PICK x : k.todo = {x}
    BY <1>1, <1>2, FS_Singleton
  <2> QED BY <1>1, <2>1, <2>2 DEF f
<1>3. CASE Cardinality(k.todo) # 1
  <2> DEFINE todo == k.todo \ {f}
  <2>1. NextEvent(k) = [k EXCEPT !.pc = "subscribe", !.todo = @ \ {Min(@)}, !.da = None]
    BY <1>3 DEF NextEvent
  <2>2. NextEvent(k) = [k EXCEPT !.pc = "subscribe", !.todo = todo, !.da = None]
    BY <2>1 DEF f, KaType
  <2>3. todo \in SUBSET Events
    OBVIOUS
  <2>4. todo # {}
    <3>1. k.todo # {f}
      BY <1>1, <1>3, FS_Singleton
    <3> QED BY <1>1, <3>1
  <2> HIDE DEF todo
  <2>5. /\ NextEvent(k) \in KaType /\ NextEvent(k).pc = "subscribe" /\ NextEvent(k).todo = todo
        /\ NextEvent(k).run = k.run
    BY <2>2, <2>3 DEF KaType
  <2> QED BY <1>1, <2>4, <2>5 DEF todo, f
<1> QED BY <1>2, <1>3

(* One of the events of the channel is subscribed again. *)
LEMMA ReSubscribeEffect ==
    ASSUME DeafInv, ReSubscribe
    PROVE  LET e == Min(ka.todo)
           IN  /\ ka.pc = "subscribe" /\ op = NoOp /\ e \in ka.todo /\ ka.todo \subseteq Connected
               /\ chan' \in ChannelType /\ (chan'.known <=> chan.known) /\ ka' \in KaType
               /\ \/ /\ svr.up /\ svr' = Subscribed(svr, e) /\ blocked' = blocked \ {e}
                     /\ chan'.last_subscribed = 0
                     /\ ka'.pc = "read" /\ ka'.todo = ka.todo /\ ka'.run = ka.run
                  \/ /\ ~ Accepts(svr, e) /\ svr' = svr /\ chan' = chan /\ ka' = NextEvent(ka)
                     /\ blocked' = IF svr.up THEN blocked \cup {e} ELSE blocked
               /\ UNCHANGED <<scenario, val, sock, wire, lossy, cb, pending, op, used, seen, got, odd>>
<1> DEFINE e == Min(ka.todo)
<1>0. ka \in KaType /\ chan \in ChannelType /\ op \in OpType
  BY DeafParts
<1>1. /\ ka.pc = "subscribe"
      /\ UNCHANGED <<scenario, val, sock, wire, lossy, cb, pending, op, used, seen, got, odd>>
  BY DEF ReSubscribe
<1>2. op = NoOp /\ ka.todo \subseteq Connected /\ ka.todo # {}
  BY <1>0, <1>1 DEF DeafInv, PhaseInv, Reconnecting, Resubscribing, OpType
<1>3. ka.todo \subseteq Events
  BY <1>2, ConnectedEvents
<1>4. NextEvent(ka) \in KaType /\ e \in ka.todo
  BY <1>0, <1>1, <1>2, <1>3, NextEventFacts DEF Resubscribing
<1>5. CASE Accepts(svr, e)
  <2>1. /\ svr' = Subscribed(svr, e) /\ blocked' = blocked \ {e}
        /\ chan' = [chan EXCEPT !.heartbeat_skipped = FALSE, !.last_subscribed = 0]
        /\ ka' = [ka EXCEPT !.pc = "read"]
    BY <1>5 DEF ReSubscribe
  <2>2. svr.up
    BY <1>5 DEF Accepts
  <2> HIDE DEF e
  <2>3. chan' \in ChannelType /\ (chan'.known <=> chan.known) /\ chan'.last_subscribed = 0
    <3>1. 0 \in 0 .. ConfirmPeriod + 1
      BY ConsumerAssumption
    <3> QED BY <1>0, <2>1, <3>1 DEF ChannelType
  <2>4. ka' \in KaType /\ ka'.pc = "read" /\ ka'.todo = ka.todo /\ ka'.run = ka.run
    BY <1>0, <2>1 DEF KaType
  <2> QED BY <1>1, <1>2, <1>4, <2>1, <2>2, <2>3, <2>4 DEF e
<1>6. CASE ~ Accepts(svr, e)
  BY <1>0, <1>1, <1>2, <1>4, <1>6 DEF ReSubscribe
<1> QED BY <1>5, <1>6

(* The next event, or the end of the reconnection. *)
LEMMA NextEventPhase ==
    ASSUME DeafInv, ka.pc \in Resubscribing, op' = op, cb' = cb,
           ka' = NextEvent(ka)
    PROVE  PhaseInv' /\ ka' \in KaType
<1>0. ka \in KaType /\ op \in OpType
  BY DeafParts
<1>1. op = NoOp /\ ka.todo \subseteq Connected /\ ka.todo # {}
  BY <1>0 DEF DeafInv, PhaseInv, Reconnecting, Resubscribing, OpType
<1>2. Connected' = Connected
  BY SameClients
<1>3. /\ NextEvent(ka) \in KaType
      /\ \/ NextEvent(ka) = Asleep
         \/ /\ NextEvent(ka).pc = "subscribe" /\ NextEvent(ka).todo \subseteq ka.todo
            /\ NextEvent(ka).todo # {}
  <2>1. ka.todo \subseteq Events
    BY <1>1, ConnectedEvents
  <2> QED BY <1>0, <1>1, <2>1, NextEventFacts
<1>4. CASE ka' = Asleep
  BY <1>1, <1>3, <1>4 DEF PhaseInv, NoOp, Asleep, Reconnecting, Resubscribing
<1>5. CASE ka'.pc = "subscribe" /\ ka'.todo \subseteq ka.todo /\ ka'.todo # {}
  BY <1>1, <1>2, <1>3, <1>5 DEF PhaseInv, NoOp, Reconnecting, Resubscribing
<1> QED BY <1>3, <1>4, <1>5

LEMMA ReSubscribeDeaf == ASSUME DeafInv, ReSubscribe PROVE DeafInv'
<1> DEFINE e == Min(ka.todo)
           made == /\ svr.up /\ svr' = Subscribed(svr, e) /\ blocked' = blocked \ {e}
                   /\ ka'.pc = "read" /\ ka'.todo = ka.todo
           refused == /\ svr' = svr /\ ka' = NextEvent(ka)
                      /\ blocked' = IF svr.up THEN blocked \cup {e} ELSE blocked
<1>1. /\ ka.pc = "subscribe" /\ op = NoOp /\ e \in ka.todo /\ ka.todo \subseteq Connected
      /\ chan' \in ChannelType /\ (chan'.known <=> chan.known) /\ ka' \in KaType
      /\ made \/ refused
      /\ UNCHANGED <<scenario, val, sock, wire, lossy, cb, pending, op, used, seen, got, odd>>
  BY ReSubscribeEffect
<1> HIDE DEF e
<1>2. e \in Events
  BY <1>1, ConnectedEvents
<1>3. Connected' = Connected
  BY <1>1, SameClients
<1>4. CASE made
  <2>1. ServerOK(svr')
    BY <1>2, <1>4, DeafParts, SubscribedFacts DEF SubscribedTo
  <2>2. PhaseInv'
    BY <1>1, <1>3, <1>4 DEF PhaseInv, NoOp, Reconnecting, Resubscribing
  <2>3. blocked' \subseteq Events
    BY <1>4, DeafParts
  <2> QED BY <1>1, <2>1, <2>2, <2>3, DeafParts, KeepAliveKept
<1>5. CASE refused
  <2>1. PhaseInv'
    BY <1>1, <1>5, NextEventPhase DEF Resubscribing
  <2>2. blocked \subseteq Events
    BY DeafParts
  <2>3. blocked' \subseteq Events
    BY <1>2, <1>5, <2>2
  <2>4. ServerOK(svr')
    BY <1>5, DeafParts
  <2> QED BY <1>1, <2>1, <2>3, <2>4, DeafParts, KeepAliveKept
<1> QED BY <1>1, <1>4, <1>5

LEMMA ReReadEffect ==
    ASSUME DeafInv, ReRead
    PROVE  LET e == Min(ka.todo)
           IN  /\ ka.pc = "read" /\ op = NoOp /\ e \in ka.todo /\ ka.todo \subseteq Connected
               /\ ka' \in KaType /\ ka'.pc = "fire" /\ ka'.todo = ka.todo /\ ka'.run = ka.run
               /\ svr.up => ka'.da \in Nat /\ lossy' = AfterRead(e, ka'.da, TRUE)
               /\ ~ svr.up => lossy' = lossy
               /\ UNCHANGED <<scenario, val, svr, sock, wire, chan, cb, pending, op, used, historyVars>>
<1> DEFINE e == Min(ka.todo)
<1>0. ka \in KaType /\ op \in OpType /\ val \in [Events -> Nat] /\ ServerOK(svr)
  BY DeafParts
<1>1. /\ ka.pc = "read"
      /\ UNCHANGED <<scenario, val, svr, sock, wire, chan, cb, pending, op, used, historyVars>>
  BY DEF ReRead
<1>2. op = NoOp /\ ka.todo \subseteq Connected /\ ka.todo # {}
  BY <1>0, <1>1 DEF DeafInv, PhaseInv, Reconnecting, Resubscribing, OpType
<1>3. ka.todo \subseteq Nat /\ ka.todo \subseteq Events
  BY <1>2, ConnectedEvents
<1>4. e \in ka.todo
  BY <1>2, <1>3, MinIs
<1>5. PICK da \in Nat \cup {None} :
         /\ ka' = [ka EXCEPT !.pc = "fire", !.da = da]
         /\ svr.up => da \in Nat /\ lossy' = AfterRead(e, da, TRUE)
         /\ ~ svr.up => lossy' = lossy
  <2>1. CASE svr.up
    <3>1. PICK v \in ReadFrom(svr, e) : /\ ka' = [ka EXCEPT !.pc = "fire", !.da = v]
                                        /\ lossy' = AfterRead(e, v, TRUE)
      BY <2>1 DEF ReRead
    <3>2. v \in Nat
      BY <1>0, <1>3, <1>4, ReadFromFacts
    <3> QED BY <2>1, <3>1, <3>2
  <2>2. CASE ~ svr.up
    BY <2>2 DEF ReRead
  <2> QED BY <2>1, <2>2
<1>6. ka' \in KaType /\ ka'.pc = "fire" /\ ka'.todo = ka.todo /\ ka'.run = ka.run /\ ka'.da = da
  BY <1>0, <1>5 DEF KaType
<1> QED BY <1>1, <1>2, <1>4, <1>5, <1>6

LEMMA ReReadDeaf == ASSUME DeafInv, ReRead PROVE DeafInv'
<1>1. /\ ka.pc = "read" /\ op = NoOp /\ ka.todo \subseteq Connected /\ ka.todo # {}
      /\ ka' \in KaType /\ ka'.pc = "fire" /\ ka'.todo = ka.todo
      /\ UNCHANGED <<scenario, val, svr, sock, wire, chan, cb, pending, op, used, historyVars>>
  BY ReReadEffect
<1>2. Connected' = Connected
  BY <1>1, SameClients
<1>3. PhaseInv'
  BY <1>1, <1>2 DEF PhaseInv, NoOp, Reconnecting, Resubscribing
<1>4. lossy' \subseteq Events
  <2>1. Min(ka.todo) \in Events /\ lossy \subseteq Events
    BY ReReadEffect, ConnectedEvents, DeafParts
  <2> QED BY <2>1, ReReadEffect DEF AfterRead
<1> QED BY <1>1, <1>3, <1>4, DeafParts, KeepAliveKept DEF historyVars

LEMMA ReFireDeaf == ASSUME DeafInv, ReFire PROVE DeafInv'
<1>0. ka \in KaType /\ seen \in [Ids -> Nat \cup {None}]
  BY DeafParts
<1>1. /\ ka.pc = "fire" /\ ka' = NextEvent(ka)
      /\ seen' = [id \in Ids |-> IF id \in cb[Min(ka.todo)].ids /\ ka.da # None THEN ka.da ELSE seen[id]]
      /\ UNCHANGED <<scenario, supplierVars, chan, cb, pending, op, used, got, odd, blocked>>
  BY DEF ReFire
<1>2. PhaseInv' /\ ka' \in KaType
  BY <1>1, NextEventPhase DEF Resubscribing
<1>3. seen' \in [Ids -> Nat \cup {None}]
  BY <1>0, <1>1 DEF KaType
<1>4. Ids' = Ids /\ CallbackType' = CallbackType /\ OpType' = OpType /\ KaType' = KaType
  BY <1>1, SameIds
<1>5. ConsumerTypes'
  BY <1>1, <1>2, <1>4 DEF DeafInv, TypeOK, ConsumerTypes
<1>6. HistoryTypes'
  BY <1>1, <1>3, <1>4 DEF DeafInv, TypeOK, HistoryTypes
<1>7. Connected' = Connected
  BY <1>1, SameClients
<1>8. NeverDeaf'
  BY <1>1, <1>7 DEF DeafInv, NeverDeaf, supplierVars
<1> QED BY <1>1, <1>2, <1>5, <1>6, <1>8, SupplierKept DEF DeafInv, TypeOK

(* The steps of Next, one by one. *)
LEMMA Steps ==
    ASSUME Next
    PROVE  \/ ServerStep
           \/ \E id \in Ids : SubscribeEvent(id)
           \/ \E id \in Ids : UnsubscribeEvent(id)
           \/ GetSubscriptionInfo \/ SubscriptionFailed \/ ConnectEvent \/ ReadFirst \/ FireFirst
           \/ Receive
           \/ \E lost \in BOOLEAN : Tick(lost)
           \/ NotConnectedEvent \/ ConfirmSubscription \/ CheckHeartbeat
           \/ ReconnectToChannel \/ ReconnectToEvents \/ ReSubscribe \/ ReRead \/ ReFire
BY DEF Next, Connecting, KeepAlive

LEMMA DeafStep == ASSUME DeafInv, [Next]_vars PROVE DeafInv'
<1>1. CASE Next
  BY <1>1, Steps, ServerDeaf, SubscribeDeaf, UnsubscribeDeaf, GetInfoDeaf, FailedDeaf, ConnectDeaf,
     ReadFirstDeaf, FireFirstDeaf, ReceiveDeaf, TickDeaf, NotConnectedDeaf, ConfirmDeaf, HeartbeatDeaf,
     ChannelDeaf, EventsDeaf, ReSubscribeDeaf, ReReadDeaf, ReFireDeaf
<1>2. CASE UNCHANGED vars
  <2>1. UNCHANGED <<scenario, supplierVars>> /\ UNCHANGED consumerVars /\ UNCHANGED historyVars
        /\ sock' = sock
    BY <1>2 DEF vars, supplierVars
  <2> QED BY <2>1, SupplierKept, ConsumerKept, HistoryKept DEF DeafInv, TypeOK
<1> QED BY <1>1, <1>2

(* The state of the client and of the server is always well formed: the    *)
(* ages and periods stay in their bounds, the filters of the socket never  *)
(* become negative (disconnect_event, reconnect_to_zmq_event), and the     *)
(* events on their way never exceed the high water mark.                   *)
THEOREM EventTypes == Spec => []TypeOK
<1>1. DeafInv => TypeOK
  BY DEF DeafInv
<1> QED BY <1>1, DeafInit, DeafStep, PTL DEF Spec

(* No event with a callback is ever deaf: for any number of subscriptions, *)
(* restarts and reconnections its filter is set and its publisher is       *)
(* connected, except while main_reconnect changes it, and there is a       *)
(* channel to watch exactly when there is a callback.                      *)
THEOREM EventNeverDeaf == Spec => []NeverDeaf
<1>1. DeafInv => NeverDeaf
  BY DEF DeafInv
<1> QED BY <1>1, DeafInit, DeafStep, PTL DEF Spec

-----------------------------------------------------------------------------
(* Subscriptions are kept. *)
SubscribedInv == DeafInv /\ RunsInv /\ KeptInv

(* The numbers the argument is about. *)
LEMMA KeptNumbers ==
    ASSUME DeafInv
    PROVE  /\ svr.run \in Nat /\ op.run \in Nat /\ ka.run \in Nat
           /\ \A e \in Events : cb[e].endpoint \in Nat /\ svr.age[e] \in 0 .. ResubscribePeriod
           /\ chan.last_subscribed \in 0 .. ConfirmPeriod + 1
           /\ ConfirmPeriod \in Nat /\ ResubscribePeriod \in Nat /\ ConfirmPeriod + 1 < ResubscribePeriod
<1>1. ServerOK(svr) /\ op \in OpType /\ ka \in KaType /\ cb \in [Events -> CallbackType] /\ chan \in ChannelType
  BY DeafParts
<1>2. svr.run \in Nat /\ \A e \in Events : svr.age[e] \in 0 .. ResubscribePeriod
  BY <1>1 DEF ServerOK, ServerType
<1>3. op.run \in Nat /\ ka.run \in Nat /\ chan.last_subscribed \in 0 .. ConfirmPeriod + 1
  BY <1>1 DEF OpType, KaType, ChannelType
<1>4. \A e \in Events : cb[e].endpoint \in Nat
  BY <1>1 DEF CallbackType
<1> QED BY <1>2, <1>3, <1>4, ConsumerAssumption, SupplierAssumption

LEMMA YoungAge ==
    ASSUME DeafInv, NEW e \in Events, Young(e)
    PROVE  svr.age[e] < ResubscribePeriod
BY KeptNumbers DEF Young

(* Steps that change neither the age of a subscription nor the channel. *)
LEMMA YoungKept ==
    ASSUME NEW e, Young(e), e \in svr'.client_lib, svr'.age[e] = svr.age[e],
           chan'.last_subscribed = chan.last_subscribed,
           ka'.pc \notin {"pending", "channel"} => ka.pc \notin {"pending", "channel"},
           ka'.pc \in Resubscribing => ka.pc \in Resubscribing
    PROVE  Young(e)'
BY DEF Young

(* A subscription that has just been made or confirmed. *)
LEMMA YoungNew ==
    ASSUME NEW e, e \in svr'.client_lib, svr'.age[e] = 0, chan'.last_subscribed \in Nat
    PROVE  Young(e)'
BY DEF Young

LEMMA KeptInit == ASSUME Init PROVE RunsInv /\ KeptInv
<1>1. Connected = {}
  BY DEF Init, Connected, NoCallback
<1>2. op.run = 0 /\ ka.run = 0 /\ op.pc = "idle"
  BY DEF Init, NoOp, Asleep
<1>3. svr.run \in Nat
  BY DeafInit, KeptNumbers
<1> QED BY <1>1, <1>2, <1>3 DEF RunsInv, KeptInv

(* A step of the server that goes on: subscriptions that are young stay. *)
LEMMA ServerGoesOn ==
    ASSUME SubscribedInv, UNCHANGED <<consumerVars, historyVars>>, scenario'.ids = scenario.ids,
           svr'.run = svr.run, svr'.up => svr.up,
           \A e \in svr.client_lib : svr.age[e] < ResubscribePeriod =>
               e \in svr'.client_lib /\ svr'.age[e] = svr.age[e]
    PROVE  RunsInv' /\ KeptInv'
<1>0. DeafInv
  BY DEF SubscribedInv
<1>1. /\ cb' = cb /\ chan' = chan /\ op' = op /\ ka' = ka /\ blocked' = blocked
  BY DEF consumerVars, historyVars
<1>2. Connected' = Connected /\ Unsubscribed(ka') = Unsubscribed(ka)
  BY <1>1, SameClients
<1>3. RunsInv'
  BY <1>1, <1>2 DEF SubscribedInv, RunsInv
<1>4. ASSUME NEW e \in Connected \ (blocked \cup Unsubscribed(ka)), svr'.up /\ cb[e].endpoint = svr.run
      PROVE  Young(e)'
  <2>1. Young(e) /\ e \in Events
    BY <1>4, ConnectedEvents DEF SubscribedInv, KeptInv
  <2>2. svr.age[e] < ResubscribePeriod /\ e \in svr.client_lib
    BY <1>0, <2>1, YoungAge DEF Young
  <2> QED BY <1>1, <2>1, <2>2, YoungKept
<1>5. op.pc = "connect" /\ svr'.up /\ op.run = svr.run
         => Event(op.id) \in svr'.client_lib /\ svr'.age[Event(op.id)] = 0
  BY ConsumerAssumption, SupplierAssumption DEF SubscribedInv, KeptInv
<1>6. Event(op.id)' = Event(op.id)
  BY <1>1 DEF Event
<1>7. KeptInv'
  BY <1>1, <1>2, <1>4, <1>5, <1>6 DEF KeptInv
<1> QED BY <1>3, <1>7

LEMMA ServerKept == ASSUME SubscribedInv, ServerStep PROVE RunsInv' /\ KeptInv'
<1>0. /\ DeafInv /\ ServerOK(svr) /\ scenario \in Scenario /\ val \in [Events -> Nat]
      /\ svr.polled \subseteq Events /\ svr.client_lib \subseteq Events
  BY DeafParts DEF SubscribedInv, ServerOK, ServerType
<1>1. UNCHANGED <<consumerVars, historyVars>>
  BY DEF ServerStep
<1> DEFINE goes == /\ scenario'.ids = scenario.ids /\ svr'.run = svr.run /\ (svr'.up => svr.up)
                   /\ \A e \in svr.client_lib : svr.age[e] < ResubscribePeriod =>
                         e \in svr'.client_lib /\ svr'.age[e] = svr.age[e]
<1>2. ASSUME NEW e \in Events, Poll(e) PROVE goes
  <2>1. scenario' = scenario /\ PollServer /\ (QuietPoll(e) \/ ExpiredPoll(e) \/ PushingPoll(e))
    BY <1>0, <1>2, PollEffect
  <2>2. svr.age[e] \in Int /\ ResubscribePeriod \in Int
    BY <1>0, KeptNumbers
  <2>3. \A f \in svr.client_lib : svr.age[f] < ResubscribePeriod => f \in svr'.client_lib
    BY <2>1, <2>2 DEF QuietPoll, ExpiredPoll, PushingPoll, PushedFrom, Expired
  <2> QED BY <2>1, <2>3 DEF PollServer
<1>3. ASSUME NEW e \in Events, Change(e) PROVE goes
  <2>1. scenario'.ids = scenario.ids
    BY <1>0, <1>3, ScenarioStep DEF Change
  <2> QED BY <1>3, <2>1 DEF Change
<1>4. ASSUME NEW e \in Events, StartPolling(e) \/ StopPolling(e) \/ StoreData PROVE goes
  <2>1. scenario'.ids = scenario.ids
    BY <1>0, <1>4, ScenarioStep DEF StartPolling, StopPolling, StoreData
  <2> QED BY <1>0, <1>4, <2>1, PollingFacts DEF SameEvents
<1>5. Events # {}
  BY SupplierAssumption
<1>6. CASE Kill
  <2>1. svr' = [svr EXCEPT !.up = FALSE] /\ scenario' = scenario
    BY <1>6 DEF Kill
  <2>2. svr'.run = svr.run /\ ~ svr'.up /\ svr'.client_lib = svr.client_lib /\ svr'.age = svr.age
    BY <1>0, <2>1 DEF ServerOK, ServerType
  <2> QED BY <1>1, <2>1, <2>2, ServerGoesOn
<1>7. CASE Start
  <2>1. PICK polled \in FirstPolled : svr' = NewServer(svr.run + 1, polled)
    BY <1>7 DEF Start
  <2>2. svr'.run = svr.run + 1
    BY <2>1 DEF NewServer
  <2>3. /\ cb' = cb /\ chan' = chan /\ op' = op /\ ka' = ka /\ blocked' = blocked
    BY <1>1 DEF consumerVars, historyVars
  <2>4. Connected' = Connected
    BY <2>3, SameClients
  <2>5. /\ \A e \in Connected : cb[e].endpoint <= svr.run /\ cb[e].endpoint \in Nat
        /\ op.run <= svr.run /\ ka.run <= svr.run /\ svr.run \in Nat /\ op.run \in Nat /\ ka.run \in Nat
    BY <1>0, KeptNumbers, ConnectedEvents DEF SubscribedInv, RunsInv
  <2>6. RunsInv'
    BY <2>2, <2>3, <2>4, <2>5 DEF RunsInv
  <2>7. (\A e \in Connected : cb'[e].endpoint # svr'.run) /\ op'.run # svr'.run
    BY <2>2, <2>3, <2>5
  <2>8. KeptInv'
    BY <2>4, <2>7 DEF KeptInv
  <2> QED BY <2>6, <2>8
<1>8. CASE goes
  BY <1>1, <1>8, ServerGoesOn
<1> QED BY <1>2, <1>3, <1>4, <1>5, <1>6, <1>7, <1>8 DEF ServerStep, SupplierStep

(* A step that leaves the subscriptions at the server as they are. *)
LEMMA ClientKept ==
    ASSUME SubscribedInv, svr' = svr, blocked' = blocked, Connected' \subseteq Connected,
           \A e \in Connected' : cb'[e].endpoint = cb[e].endpoint,
           Connected' # {} => chan'.last_subscribed = chan.last_subscribed,
           Unsubscribed(ka') = Unsubscribed(ka),
           ka'.pc \notin {"pending", "channel"} => ka.pc \notin {"pending", "channel"},
           ka'.pc \in Resubscribing => ka.pc \in Resubscribing,
           op'.run \in {op.run, 0}, ka'.run \in {ka.run, 0}, op'.pc # "connect"
    PROVE  RunsInv' /\ KeptInv'
<1>1. DeafInv /\ svr.run \in Nat
  BY KeptNumbers DEF SubscribedInv
<1>2. RunsInv'
  BY <1>1 DEF SubscribedInv, RunsInv
<1>3. ASSUME NEW e \in Connected' \ (blocked \cup Unsubscribed(ka)), svr.up /\ cb'[e].endpoint = svr.run
      PROVE  Young(e)'
  <2>1. Young(e)
    BY <1>3 DEF SubscribedInv, KeptInv
  <2>2. e \in svr'.client_lib /\ chan'.last_subscribed = chan.last_subscribed
    BY <1>3, <2>1 DEF Young
  <2> QED BY <2>1, <2>2, YoungKept
<1>4. KeptInv'
  BY <1>3 DEF KeptInv
<1> QED BY <1>2, <1>4

LEMMA SubscribeKept == ASSUME SubscribedInv, NEW id \in Ids, SubscribeEvent(id) PROVE RunsInv' /\ KeptInv'
<1>1. /\ UNCHANGED <<scenario, supplierVars, chan, cb, pending, ka, historyVars>>
      /\ op' = [NoOp EXCEPT !.pc = "info", !.id = id]
  BY DEF SubscribeEvent
<1>2. op'.pc = "info" /\ op'.run = 0
  BY <1>1 DEF NoOp
<1>3. Connected' = Connected
  BY <1>1, SameClients
<1> QED BY <1>1, <1>2, <1>3, ClientKept DEF supplierVars, historyVars

LEMMA UnsubscribeKept == ASSUME SubscribedInv, NEW id \in Ids, UnsubscribeEvent(id) PROVE RunsInv' /\ KeptInv'
<1> DEFINE e == Event(id)
           gone == cb[e].ids = {id}
           last == gone /\ Connected = {e}
<1>0. DeafInv
  BY DEF SubscribedInv
<1>1. /\ UNCHANGED <<scenario, val, svr, wire, lossy, op, ka, used, historyVars>>
      /\ op = NoOp /\ ka.pc \in {"asleep", "channel"} /\ e \in Events
      /\ \/ UNCHANGED <<cb, chan, sock>>
         \/ /\ ~ gone => cb'[e].endpoint = cb[e].endpoint
            /\ \A f \in Events \ {e} : cb'[f] = cb[f]
            /\ e \in Connected /\ Connected' = IF gone THEN Connected \ {e} ELSE Connected
            /\ chan' = IF last THEN NoChannel ELSE chan
  BY <1>0, UnsubscribeEffect
<1>2. op'.pc # "connect" /\ op' = op /\ ka' = ka /\ blocked' = blocked /\ svr' = svr
  BY <1>1 DEF NoOp, historyVars
<1> HIDE DEF e, gone, last
<1>3. CASE UNCHANGED <<cb, chan, sock>>
  <2>1. Connected' = Connected
    BY <1>3, SameClients
  <2> QED BY <1>2, <1>3, <2>1, ClientKept
<1>4. CASE /\ ~ gone => cb'[e].endpoint = cb[e].endpoint
           /\ \A f \in Events \ {e} : cb'[f] = cb[f]
           /\ e \in Connected /\ Connected' = IF gone THEN Connected \ {e} ELSE Connected
           /\ chan' = IF last THEN NoChannel ELSE chan
  <2>1. Connected' \subseteq Connected /\ Connected \subseteq Events
    BY <1>4, ConnectedEvents
  <2>2. \A f \in Connected' : cb'[f].endpoint = cb[f].endpoint
    BY <1>4, <2>1
  <2>3. Connected' # {} => chan' = chan
    BY <1>4 DEF last
  <2> QED BY <1>2, <2>1, <2>2, <2>3, ClientKept
<1> QED BY <1>1, <1>3, <1>4

(* The server registers e, for a subscription or for a reconnection. *)
LEMMA RegisteredKept ==
    ASSUME SubscribedInv, NEW e \in Events, svr' = Subscribed(svr, e), blocked' = blocked \ {e},
           Connected' = Connected, \A f \in Connected : cb'[f].endpoint = cb[f].endpoint,
           chan'.last_subscribed \in Nat,
           chan'.last_subscribed # chan.last_subscribed => chan'.last_subscribed = 0 /\ ka.pc \in Resubscribing,
           Unsubscribed(ka) \subseteq Unsubscribed(ka') \cup {e},
           ka'.pc \notin {"pending", "channel"} => ka.pc \notin {"pending", "channel"},
           ka'.pc \in Resubscribing => ka.pc \in Resubscribing
    PROVE  /\ svr'.run = svr.run /\ e \in svr'.client_lib /\ svr'.age[e] = 0
           /\ \A f \in Connected \ (blocked' \cup Unsubscribed(ka')) :
                 svr'.up /\ cb'[f].endpoint = svr'.run => Young(f)'
<1>0. DeafInv
  BY DEF SubscribedInv
<1>1. SubscribedTo(svr', svr, e)
  BY <1>0, DeafParts, SubscribedFacts
<1>2. /\ svr'.run = svr.run /\ (svr'.up <=> svr.up) /\ svr'.client_lib = svr.client_lib \cup {e}
      /\ svr'.age[e] = 0 /\ \A f \in Events \ {e} : svr'.age[f] = svr.age[f]
  BY <1>1 DEF SubscribedTo
<1>3. ASSUME NEW f \in Connected \ (blocked' \cup Unsubscribed(ka')), svr'.up, cb'[f].endpoint = svr'.run
      PROVE  Young(f)'
  <2>1. CASE f = e
    BY <1>2, <2>1, YoungNew
  <2>2. CASE f # e
    <3>1. f \in Connected \ (blocked \cup Unsubscribed(ka)) /\ f \in Events
      BY <1>3, <2>2, ConnectedEvents
    <3>2. Young(f)
      BY <1>2, <1>3, <3>1 DEF SubscribedInv, KeptInv
    <3>3. f \in svr'.client_lib /\ svr'.age[f] = svr.age[f]
      BY <1>2, <2>2, <3>1, <3>2 DEF Young
    <3>4. CASE chan'.last_subscribed = chan.last_subscribed
      BY <3>2, <3>3, <3>4, YoungKept
    <3>5. CASE chan'.last_subscribed # chan.last_subscribed
      <4>1. svr'.age[f] = 0
        BY <3>2, <3>3, <3>5 DEF Young
      <4> QED BY <3>3, <4>1, YoungNew
    <3> QED BY <3>4, <3>5
  <2> QED BY <2>1, <2>2
<1> QED BY <1>2, <1>3

LEMMA GetInfoKept == ASSUME SubscribedInv, GetSubscriptionInfo PROVE RunsInv' /\ KeptInv'
<1> DEFINE e == Event(op.id)
<1>0. DeafInv /\ op \in OpType /\ \A id \in Ids : Event(id) \in Events
  BY DeafParts DEF SubscribedInv
<1>1. /\ UNCHANGED <<scenario, val, sock, wire, lossy, chan, cb, pending, ka, used, seen, got, odd>>
      /\ svr' = Subscribed(svr, e) /\ op.pc = "info"
      /\ blocked' = blocked \ {e} /\ op' = [op EXCEPT !.pc = "connect", !.run = svr.run]
  BY DEF GetSubscriptionInfo
<1>2. e \in Events
  BY <1>0, <1>1 DEF DeafInv, PhaseInv
<1>3. op'.run = svr.run /\ op'.id = op.id
  BY <1>0, <1>1 DEF OpType
<1>4. Event(op.id)' = e
  BY <1>1, <1>3 DEF Event
<1> HIDE DEF e
<1>5. Connected' = Connected
  BY <1>1, SameClients
<1>6. chan.last_subscribed \in Nat /\ svr.run \in Nat
  BY <1>0, KeptNumbers
<1>7. /\ svr'.run = svr.run /\ e \in svr'.client_lib /\ svr'.age[e] = 0
      /\ \A f \in Connected \ (blocked' \cup Unsubscribed(ka')) :
            svr'.up /\ cb'[f].endpoint = svr'.run => Young(f)'
  BY <1>1, <1>2, <1>5, <1>6, RegisteredKept
<1>8. RunsInv'
  BY <1>1, <1>3, <1>5, <1>6, <1>7 DEF SubscribedInv, RunsInv
<1>9. KeptInv'
  BY <1>4, <1>5, <1>7 DEF KeptInv
<1> QED BY <1>8, <1>9

LEMMA FailedKept == ASSUME SubscribedInv, SubscriptionFailed PROVE RunsInv' /\ KeptInv'
<1>1. UNCHANGED <<scenario, supplierVars, chan, cb, ka, used, historyVars>> /\ op' = NoOp
  BY DEF SubscriptionFailed
<1>2. op'.pc # "connect" /\ op'.run = 0
  BY <1>1 DEF NoOp
<1>3. Connected' = Connected
  BY <1>1, SameClients
<1> QED BY <1>1, <1>2, <1>3, ClientKept DEF supplierVars, historyVars

LEMMA ConnectKept == ASSUME SubscribedInv, ConnectEvent PROVE RunsInv' /\ KeptInv'
<1> DEFINE e == Event(op.id)
           new == e \notin Connected
<1>0. DeafInv
  BY DEF SubscribedInv
<1>1. /\ op.id \in Ids /\ e \in Events /\ op.run \in Nat
      /\ UNCHANGED <<scenario, val, svr, wire, lossy, pending, ka, used, seen, odd, blocked>>
      /\ op'.pc = "read" /\ op'.run = op.run /\ op.pc = "connect"
      /\ cb'[e].endpoint = IF new THEN op.run ELSE cb[e].endpoint
      /\ \A f \in Events \ {e} : cb'[f] = cb[f]
      /\ Connected' = Connected \cup {e}
      /\ chan' = IF new /\ ~ chan.known THEN ChannelOf(op.run) ELSE chan
  BY <1>0, ConnectEffect
<1>2. svr.up /\ op.run = svr.run => e \in svr.client_lib /\ svr.age[e] = 0
  BY <1>1 DEF SubscribedInv, KeptInv
<1> HIDE DEF e
<1>3. \A f \in Connected \ {e} : cb'[f] = cb[f]
  BY <1>1, ConnectedEvents
<1>4. RunsInv'
  BY <1>1, <1>3 DEF SubscribedInv, RunsInv
<1>5. chan.last_subscribed \in Nat /\ chan'.last_subscribed \in Nat
  <2>1. chan.last_subscribed \in Nat
    BY <1>0, KeptNumbers
  <2>2. ChannelOf(op.run).last_subscribed = 0
    BY <1>1, ChannelOfFacts
  <2> QED BY <1>1, <2>1, <2>2
<1>6. ~ chan.known => Connected = {}
  BY <1>0 DEF DeafInv, NeverDeaf
<1>7. ASSUME NEW f \in Connected' \ (blocked \cup Unsubscribed(ka)), svr.up, cb'[f].endpoint = svr.run
      PROVE  Young(f)'
  <2>1. CASE f = e /\ new
    BY <1>1, <1>2, <1>5, <1>7, <2>1, YoungNew
  <2>2. CASE ~ (f = e /\ new)
    <3>1. f \in Connected /\ cb'[f].endpoint = cb[f].endpoint
      BY <1>1, <1>3, <1>7, <2>2
    <3>2. Young(f)
      BY <1>7, <3>1 DEF SubscribedInv, KeptInv
    <3>3. chan' = chan
      BY <1>1, <1>6, <3>1
    <3> QED BY <1>1, <3>2, <3>3, YoungKept DEF Young
  <2> QED BY <2>1, <2>2
<1>8. KeptInv'
  BY <1>1, <1>7 DEF KeptInv
<1> QED BY <1>4, <1>8

LEMMA ReadFirstKept == ASSUME SubscribedInv, ReadFirst PROVE RunsInv' /\ KeptInv'
<1>0. DeafInv
  BY DEF SubscribedInv
<1>1. /\ UNCHANGED <<scenario, val, svr, sock, wire, chan, cb, pending, ka, used, historyVars>>
      /\ op'.pc = "fire" /\ op'.run = op.run
  BY <1>0, ReadFirstEffect
<1>3. Connected' = Connected
  BY <1>1, SameClients
<1> QED BY <1>1, <1>3, ClientKept DEF historyVars

LEMMA FireFirstKept == ASSUME SubscribedInv, FireFirst PROVE RunsInv' /\ KeptInv'
<1>1. UNCHANGED <<scenario, supplierVars, chan, cb, ka, used, got, odd, blocked>> /\ op' = NoOp
  BY DEF FireFirst
<1>2. op'.pc # "connect" /\ op'.run = 0
  BY <1>1 DEF NoOp
<1>3. Connected' = Connected
  BY <1>1, SameClients
<1> QED BY <1>1, <1>2, <1>3, ClientKept DEF supplierVars

LEMMA ReceivedKept == ASSUME SubscribedInv, Receive PROVE RunsInv' /\ KeptInv'
<1>0. DeafInv
  BY DEF SubscribedInv
<1>1. /\ Connected' = Connected /\ \A f \in Events : cb'[f].endpoint = cb[f].endpoint
      /\ UNCHANGED <<svr, chan, op, ka, blocked>> /\ op = NoOp
  <2>1. CASE SuppressEvent
    BY <1>0, <2>1, SuppressEffect DEF Receiving
  <2>2. CASE PushEvent
    BY <1>0, <2>2, PushEffect DEF Receiving
  <2>3. CASE IgnoreEvent
    <3>1. UNCHANGED <<cb, svr, chan, op, ka, blocked>> /\ op = NoOp
      BY <2>3 DEF IgnoreEvent, Receiving, consumerVars, historyVars
    <3> QED BY <3>1, SameClients
  <2> QED BY <2>1, <2>2, <2>3 DEF Receive
<1>2. op'.pc # "connect"
  BY <1>1 DEF NoOp
<1>3. \A f \in Connected' : cb'[f].endpoint = cb[f].endpoint
  BY <1>1, ConnectedEvents
<1> QED BY <1>1, <1>2, <1>3, ClientKept

LEMMA TickKept == ASSUME SubscribedInv, NEW lost \in BOOLEAN, Tick(lost) PROVE RunsInv' /\ KeptInv'
<1>0. DeafInv
  BY DEF SubscribedInv
<1>1. /\ ka = Asleep /\ op = NoOp /\ svr' = Older(svr) /\ ka'.pc = "pending" /\ ka'.run = 0
      /\ chan.known => chan'.last_subscribed =
            IF chan.last_subscribed <= ConfirmPeriod THEN chan.last_subscribed + 1 ELSE ConfirmPeriod + 1
      /\ UNCHANGED <<val, sock, wire, lossy, cb, op, used, historyVars>>
  BY <1>0, TickEffect
<1>2. /\ svr'.run = svr.run /\ (svr'.up <=> svr.up) /\ svr'.client_lib = svr.client_lib
      /\ \A e \in svr.client_lib : svr'.age[e] <= svr.age[e] + 1
  BY <1>0, <1>1, DeafParts, OlderFacts
<1>3. Connected' = Connected /\ blocked' = blocked /\ cb' = cb
  BY <1>1, SameClients DEF historyVars
<1>4. Unsubscribed(ka) = {} /\ Unsubscribed(ka') = {} /\ ka.pc = "asleep"
  BY <1>1 DEF Unsubscribed, Asleep
<1>5. svr.run \in Nat
  BY <1>0, KeptNumbers
<1>6. RunsInv'
  BY <1>1, <1>2, <1>3, <1>5 DEF SubscribedInv, RunsInv
<1>7. op'.pc # "connect"
  BY <1>1 DEF NoOp
<1>8. ASSUME NEW e \in Connected \ blocked, svr.up, cb[e].endpoint = svr.run
      PROVE  Young(e)'
  <2>1. Young(e) /\ e \in Events
    BY <1>4, <1>8, ConnectedEvents DEF SubscribedInv, KeptInv
  <2>2. chan.known
    BY <1>0, <1>8 DEF DeafInv, NeverDeaf
  <2>3. e \in svr.client_lib /\ svr.age[e] <= chan.last_subscribed
        /\ (chan.last_subscribed > ConfirmPeriod => svr.age[e] = 0)
    BY <1>4, <2>1 DEF Young
  <2>4. chan.last_subscribed \in Nat /\ ConfirmPeriod \in Nat /\ svr.age[e] \in Nat
    BY <1>0, <2>1, KeptNumbers
  <2>5. svr'.age[e] \in Int
    <3>1. DeafInv'
      BY <1>0, TickDeaf
    <3>2. ServerOK(svr)'
      BY <3>1 DEF DeafInv, TypeOK, SupplierTypes, ServerInv, ServerOK
    <3> QED BY <2>1, <3>2 DEF ServerOK, ServerType
  <2>6. svr'.age[e] <= chan'.last_subscribed
    BY <1>1, <1>2, <2>2, <2>3, <2>4, <2>5
  <2> QED BY <1>1, <1>2, <2>3, <2>6 DEF Young, Resubscribing
<1>9. KeptInv'
  BY <1>2, <1>3, <1>4, <1>7, <1>8 DEF KeptInv
<1> QED BY <1>6, <1>9

LEMMA NotConnectedKept == ASSUME SubscribedInv, NotConnectedEvent PROVE RunsInv' /\ KeptInv'
<1>0. ka \in KaType
  BY DeafParts DEF SubscribedInv
<1>1. /\ ka.pc = "pending" /\ op = NoOp
      /\ UNCHANGED <<scenario, supplierVars, chan, cb, pending, used, historyVars>>
  BY DEF NotConnectedEvent
<1>2. ka'.pc \in {"pending", "channel"} /\ ka'.run = ka.run /\ op'.pc # "connect" /\ op'.run \in {op.run, 0}
  <2>1. CASE ka.todo = {}
    <3>1. ka' = [ka EXCEPT !.pc = "channel"] /\ op' = op
      BY <2>1 DEF NotConnectedEvent
    <3> QED BY <1>0, <1>1, <3>1 DEF KaType, NoOp
  <2>2. CASE ka.todo # {}
    <3>1. PICK id \in ka.todo :
             /\ op' = [NoOp EXCEPT !.pc = "info", !.id = id, !.by_ka = TRUE]
             /\ ka' = [ka EXCEPT !.todo = @ \ {id}]
      BY <2>2 DEF NotConnectedEvent
    <3>2. op'.pc = "info" /\ op'.run = 0
      BY <3>1 DEF NoOp
    <3>3. ka'.pc = "pending" /\ ka'.run = ka.run
      BY <1>0, <1>1, <3>1 DEF KaType
    <3> QED BY <3>2, <3>3
  <2> QED BY <2>1, <2>2
<1>3. Unsubscribed(ka) = {} /\ Unsubscribed(ka') = {}
  BY <1>1, <1>2 DEF Unsubscribed
<1>4. Connected' = Connected
  BY <1>1, SameClients
<1> QED BY <1>1, <1>2, <1>3, <1>4, ClientKept DEF supplierVars, historyVars, Resubscribing

LEMMA ConfirmKept == ASSUME SubscribedInv, ConfirmSubscription PROVE RunsInv' /\ KeptInv'
<1>0. DeafInv /\ ka \in KaType /\ chan \in ChannelType /\ ServerOK(svr)
  BY DeafParts DEF SubscribedInv
<1>1. /\ ka.pc = "channel" /\ op = NoOp /\ ka' = [ka EXCEPT !.pc = "heartbeat"]
      /\ UNCHANGED <<scenario, val, sock, wire, lossy, cb, pending, op, used, seen, got, odd>>
  BY DEF ConfirmSubscription
<1>2. ka'.pc = "heartbeat" /\ ka'.run = ka.run
  BY <1>0, <1>1 DEF KaType
<1>3. Unsubscribed(ka) = {} /\ Unsubscribed(ka') = {} /\ op'.pc # "connect"
  BY <1>1, <1>2 DEF Unsubscribed, NoOp
<1>4. Connected' = Connected /\ Connected \in SUBSET Events
  BY <1>1, SameClients, ConnectedEvents
<1>5. CASE chan.known /\ chan.last_subscribed > ConfirmPeriod /\ svr.up
  <2>1. /\ svr' = Confirmed(svr, Connected)
        /\ chan' \in {[chan EXCEPT !.last_subscribed = 0], chan}
        /\ blocked' = (blocked \cup Connected) \ ConfirmedEvents(svr, Connected)
    BY <1>5 DEF ConfirmSubscription
  <2>2. /\ svr'.run = svr.run /\ svr'.client_lib = svr.client_lib \cup ConfirmedEvents(svr, Connected)
        /\ \A e \in Events : svr'.age[e] = IF e \in ConfirmedEvents(svr, Connected) THEN 0 ELSE svr.age[e]
    BY <1>0, <1>4, <2>1, ConfirmedFacts
  <2>3. RunsInv'
    BY <1>1, <1>2, <1>4, <2>2 DEF SubscribedInv, RunsInv
  <2>4. chan'.last_subscribed \in Nat
    BY <1>0, <2>1 DEF ChannelType
  <2>5. \A e \in Connected \ blocked' : e \in ConfirmedEvents(svr, Connected) /\ e \in Events
    BY <1>4, <2>1
  <2>6. \A e \in Connected \ blocked' : Young(e)'
    <3> TAKE e \in Connected \ blocked'
    <3>1. e \in svr'.client_lib /\ svr'.age[e] = 0
      BY <2>2, <2>5
    <3> QED BY <2>4, <3>1, YoungNew
  <2>7. KeptInv'
    BY <1>3, <1>4, <2>6 DEF KeptInv
  <2> QED BY <2>3, <2>7
<1>6. CASE ~ (chan.known /\ chan.last_subscribed > ConfirmPeriod /\ svr.up)
  <2>1. svr' = svr /\ chan' = chan /\ blocked' = blocked
    BY <1>6 DEF ConfirmSubscription
  <2>2. RunsInv'
    BY <1>1, <1>2, <1>4, <2>1 DEF SubscribedInv, RunsInv
  <2>3. ASSUME NEW e \in Connected \ blocked, svr.up, cb[e].endpoint = svr.run
        PROVE  Young(e)'
    <3>1. Young(e)
      BY <1>3, <2>3 DEF SubscribedInv, KeptInv
    <3>2. chan.known
      BY <1>0, <2>3 DEF DeafInv, NeverDeaf
    <3>3. ~ (chan.last_subscribed > ConfirmPeriod)
      BY <1>6, <2>3, <3>2
    <3> QED BY <1>2, <2>1, <3>1, <3>3 DEF Young, Resubscribing
  <2>4. KeptInv'
    BY <1>1, <1>3, <1>4, <2>1, <2>3 DEF KeptInv
  <2> QED BY <2>2, <2>4
<1> QED BY <1>5, <1>6

LEMMA HeartbeatKept == ASSUME SubscribedInv, CheckHeartbeat PROVE RunsInv' /\ KeptInv'
<1>0. DeafInv /\ op \in OpType
  BY DeafParts DEF SubscribedInv
<1>1. /\ ka.pc = "heartbeat" /\ chan'.last_subscribed = chan.last_subscribed
      /\ ka'.run \in {ka.run, 0} /\ (ka' = Asleep \/ ka'.pc = "reconnect")
      /\ UNCHANGED <<scenario, supplierVars, cb, pending, op, used, historyVars>>
  BY <1>0, HeartbeatEffect
<1>2. Unsubscribed(ka) = {} /\ Unsubscribed(ka') = {} /\ ka'.pc \in {"asleep", "reconnect"}
  BY <1>1 DEF Unsubscribed, Asleep
<1>3. Connected' = Connected
  BY <1>1, SameClients
<1>4. op'.pc # "connect"
  BY <1>0, <1>1 DEF DeafInv, PhaseInv
<1> QED BY <1>1, <1>2, <1>3, <1>4, ClientKept DEF supplierVars, historyVars, Resubscribing

LEMMA ChannelKept == ASSUME SubscribedInv, ReconnectToChannel PROVE RunsInv' /\ KeptInv'
<1> DEFINE e == Min(Connected)
           made == /\ svr' = Subscribed(svr, e) /\ blocked' = blocked \ {e}
                   /\ ka'.pc = "events" /\ ka'.run = svr.run
<1>0. DeafInv
  BY DEF SubscribedInv
<1>1. /\ ka.pc = "reconnect" /\ op = NoOp /\ e \in Connected
      /\ chan'.last_subscribed = chan.last_subscribed
      /\ made \/ (ka' = Asleep /\ svr' = svr /\ blocked' = blocked)
      /\ UNCHANGED <<scenario, val, cb, pending, op, used, seen, got, odd>>
  BY <1>0, ChannelEffect
<1> HIDE DEF e
<1>2. Connected' = Connected /\ op'.pc # "connect"
  BY <1>1, SameClients DEF NoOp
<1>3. CASE made
  <2>1. Unsubscribed(ka) = {} /\ Unsubscribed(ka') = {}
    BY <1>1, <1>3 DEF Unsubscribed
  <2>2. chan.last_subscribed \in Nat /\ e \in Events /\ svr.run \in Nat
    BY <1>0, <1>1, KeptNumbers, ConnectedEvents
  <2>3. /\ svr'.run = svr.run
        /\ \A f \in Connected \ (blocked' \cup Unsubscribed(ka')) :
              svr'.up /\ cb'[f].endpoint = svr'.run => Young(f)'
    BY <1>1, <1>2, <1>3, <2>1, <2>2, RegisteredKept DEF Resubscribing
  <2>4. RunsInv'
    BY <1>1, <1>2, <1>3, <2>2, <2>3 DEF SubscribedInv, RunsInv
  <2>5. KeptInv'
    BY <1>2, <2>3 DEF KeptInv
  <2> QED BY <2>4, <2>5
<1>4. CASE ka' = Asleep /\ svr' = svr /\ blocked' = blocked
  <2>1. Unsubscribed(ka) = {} /\ Unsubscribed(ka') = {} /\ ka'.pc = "asleep" /\ ka'.run = 0
    BY <1>1, <1>4 DEF Unsubscribed, Asleep
  <2> QED BY <1>1, <1>2, <1>4, <2>1, ClientKept DEF Resubscribing
<1> QED BY <1>1, <1>3, <1>4

LEMMA EventsKept == ASSUME SubscribedInv, ReconnectToEvents PROVE RunsInv' /\ KeptInv'
<1>0. DeafInv
  BY DEF SubscribedInv
<1>1. /\ ka.pc = "events" /\ op = NoOp /\ Connected' = Connected
      /\ \A e \in Connected : cb'[e].endpoint = ka.run
      /\ ka'.pc = "subscribe" /\ ka'.todo = Connected /\ ka'.run = ka.run
      /\ UNCHANGED <<scenario, val, svr, wire, lossy, chan, pending, op, used, historyVars>>
  BY <1>0, EventsEffect
<1>2. Unsubscribed(ka') = Connected /\ op'.pc # "connect"
  BY <1>1 DEF Unsubscribed, NoOp
<1>3. RunsInv'
  BY <1>1 DEF SubscribedInv, RunsInv
<1>4. KeptInv'
  BY <1>1, <1>2 DEF KeptInv
<1> QED BY <1>3, <1>4

LEMMA UnsubscribedNext ==
    ASSUME DeafInv, ka.pc \in Resubscribing
    PROVE  /\ Unsubscribed(NextEvent(ka)) = ka.todo \ {Min(ka.todo)}
           /\ NextEvent(ka).pc \in {"asleep", "subscribe"} /\ NextEvent(ka).run \in {ka.run, 0}
           /\ ka.todo \subseteq Connected /\ ka.todo # {}
<1>0. ka \in KaType
  BY DeafParts
<1>1. ka.todo \subseteq Connected /\ ka.todo # {}
  BY DEF DeafInv, PhaseInv
<1>2. ka.todo \subseteq Events
  BY <1>1, ConnectedEvents
<1> DEFINE n == NextEvent(ka)
<1>3. \/ n = Asleep /\ ka.todo = {Min(ka.todo)}
      \/ n.pc = "subscribe" /\ n.todo = ka.todo \ {Min(ka.todo)} /\ n.run = ka.run
  BY <1>0, <1>1, <1>2, NextEventFacts
<1> HIDE DEF n
<1>4. CASE n = Asleep /\ ka.todo = {Min(ka.todo)}
  <2>1. n.pc = "asleep" /\ n.run = 0
    BY <1>4 DEF Asleep
  <2>2. Unsubscribed(n) = {}
    BY <2>1 DEF Unsubscribed
  <2> QED BY <1>1, <1>4, <2>1, <2>2 DEF n
<1>5. CASE n.pc = "subscribe" /\ n.todo = ka.todo \ {Min(ka.todo)} /\ n.run = ka.run
  <2>1. Unsubscribed(n) = n.todo
    BY <1>5 DEF Unsubscribed
  <2> QED BY <1>1, <1>5, <2>1 DEF n
<1> QED BY <1>3, <1>4, <1>5

LEMMA ReSubscribeKept == ASSUME SubscribedInv, ReSubscribe PROVE RunsInv' /\ KeptInv'
<1> DEFINE e == Min(ka.todo)
           made == /\ svr' = Subscribed(svr, e) /\ blocked' = blocked \ {e}
                   /\ chan'.last_subscribed = 0
                   /\ ka'.pc = "read" /\ ka'.todo = ka.todo /\ ka'.run = ka.run
           refused == /\ svr' = svr /\ chan' = chan /\ ka' = NextEvent(ka)
                      /\ blocked' = IF svr.up THEN blocked \cup {e} ELSE blocked
<1>0. DeafInv
  BY DEF SubscribedInv
<1>1. /\ ka.pc = "subscribe" /\ op = NoOp /\ e \in ka.todo /\ ka.todo \subseteq Connected
      /\ made \/ refused
      /\ UNCHANGED <<scenario, val, sock, wire, lossy, cb, pending, op, used, seen, got, odd>>
  BY <1>0, ReSubscribeEffect
<1>2. Connected' = Connected /\ op'.pc # "connect" /\ e \in Events
  BY <1>1, SameClients, ConnectedEvents DEF NoOp
<1>3. Unsubscribed(ka) = ka.todo
  BY <1>1 DEF Unsubscribed
<1>4. CASE made
  <2>1. Unsubscribed(ka') = ka.todo \ {e}
    BY <1>4 DEF Unsubscribed
  <2> HIDE DEF e
  <2>2. chan.last_subscribed \in Nat /\ svr.run \in Nat
    BY <1>0, KeptNumbers
  <2>3. /\ svr'.run = svr.run
        /\ \A f \in Connected \ (blocked' \cup Unsubscribed(ka')) :
              svr'.up /\ cb'[f].endpoint = svr'.run => Young(f)'
    BY <1>1, <1>2, <1>3, <1>4, <2>1, <2>2, RegisteredKept DEF Resubscribing
  <2>4. RunsInv'
    BY <1>1, <1>2, <1>4, <2>3 DEF SubscribedInv, RunsInv
  <2>5. KeptInv'
    BY <1>2, <2>3 DEF KeptInv
  <2> QED BY <2>4, <2>5
<1>5. CASE refused
  <2>1. /\ Unsubscribed(ka') = ka.todo \ {e} /\ ka'.pc \in {"asleep", "subscribe"}
        /\ ka'.run \in {ka.run, 0}
    BY <1>0, <1>1, <1>5, UnsubscribedNext DEF Resubscribing
  <2> HIDE DEF e
  <2>2. svr.run \in Nat
    BY <1>0, KeptNumbers
  <2>3. RunsInv'
    BY <1>1, <1>2, <1>5, <2>1, <2>2 DEF SubscribedInv, RunsInv
  <2>4. ASSUME NEW f \in Connected \ (blocked' \cup Unsubscribed(ka')), svr.up, cb[f].endpoint = svr.run
        PROVE  Young(f)'
    <3>1. f \in Connected \ (blocked \cup Unsubscribed(ka))
      BY <1>3, <1>5, <2>1, <2>4
    <3>2. Young(f)
      BY <2>4, <3>1 DEF SubscribedInv, KeptInv
    <3> QED BY <1>1, <1>5, <2>1, <3>2, YoungKept DEF Young, Resubscribing
  <2>5. KeptInv'
    BY <1>1, <1>2, <1>5, <2>4 DEF KeptInv
  <2> QED BY <2>3, <2>5
<1> QED BY <1>1, <1>4, <1>5

LEMMA ReReadKept == ASSUME SubscribedInv, ReRead PROVE RunsInv' /\ KeptInv'
<1>0. DeafInv
  BY DEF SubscribedInv
<1>1. /\ ka.pc = "read" /\ op = NoOp /\ ka'.pc = "fire" /\ ka'.todo = ka.todo /\ ka'.run = ka.run
      /\ UNCHANGED <<scenario, val, svr, sock, wire, chan, cb, pending, op, used, historyVars>>
  BY <1>0, ReReadEffect
<1>2. Unsubscribed(ka') = Unsubscribed(ka)
  BY <1>1 DEF Unsubscribed
<1>3. Connected' = Connected /\ op'.pc # "connect"
  BY <1>1, SameClients DEF NoOp
<1> QED BY <1>1, <1>2, <1>3, ClientKept DEF historyVars, Resubscribing

LEMMA ReFireKept == ASSUME SubscribedInv, ReFire PROVE RunsInv' /\ KeptInv'
<1>0. DeafInv /\ op \in OpType
  BY DeafParts DEF SubscribedInv
<1>1. /\ ka.pc = "fire" /\ ka' = NextEvent(ka)
      /\ UNCHANGED <<scenario, supplierVars, chan, cb, pending, op, used, got, odd, blocked>>
  BY DEF ReFire
<1>2. /\ Unsubscribed(ka') = ka.todo \ {Min(ka.todo)} /\ ka'.pc \in {"asleep", "subscribe"}
      /\ ka'.run \in {ka.run, 0}
  BY <1>0, <1>1, UnsubscribedNext DEF Resubscribing
<1>3. Unsubscribed(ka) = ka.todo \ {Min(ka.todo)}
  BY <1>1 DEF Unsubscribed
<1>4. Connected' = Connected /\ op'.pc # "connect"
  BY <1>0, <1>1, SameClients DEF DeafInv, PhaseInv
<1> QED BY <1>1, <1>2, <1>3, <1>4, ClientKept DEF supplierVars, Resubscribing

LEMMA SubscribedStep == ASSUME SubscribedInv, [Next]_vars PROVE SubscribedInv'
<1>1. DeafInv'
  BY DeafStep DEF SubscribedInv
<1>2. CASE Next
  <2>1. RunsInv' /\ KeptInv'
    BY <1>2, Steps, ServerKept, SubscribeKept, UnsubscribeKept, GetInfoKept, FailedKept, ConnectKept,
       ReadFirstKept, FireFirstKept, ReceivedKept, TickKept, NotConnectedKept, ConfirmKept, HeartbeatKept,
       ChannelKept, EventsKept, ReSubscribeKept, ReReadKept, ReFireKept
  <2> QED BY <1>1, <2>1 DEF SubscribedInv
<1>3. CASE UNCHANGED vars
  <2>1. UNCHANGED <<consumerVars, historyVars>> /\ scenario' = scenario /\ svr' = svr
    BY <1>3 DEF vars, supplierVars
  <2>2. RunsInv' /\ KeptInv'
    BY <2>1, ServerGoesOn
  <2> QED BY <1>1, <2>2 DEF SubscribedInv
<1> QED BY <1>2, <1>3

(* A server that runs keeps the subscription of a client that is alive and  *)
(* connected to it, unless it refused it: confirm_subscription comes before *)
(* the age reaches EVENT_RESUBSCRIBE_PERIOD, whatever happens to the        *)
(* heartbeats, the other subscriptions and the server in between.           *)
THEOREM EventSubscriptionKept == Spec => []SubscriptionKept
<1>1. Init => SubscribedInv
  BY DeafInit, KeptInit DEF SubscribedInv
<1>2. SubscribedInv => SubscriptionKept
  <2> SUFFICES ASSUME SubscribedInv,
                      NEW e \in Connected \ (blocked \cup Unsubscribed(ka)),
                      svr.up, cb[e].endpoint = svr.run
               PROVE  e \in svr.client_lib /\ svr.age[e] < ResubscribePeriod
    BY DEF SubscriptionKept
  <2>1. Young(e) /\ e \in Events /\ DeafInv
    BY ConnectedEvents DEF SubscribedInv, KeptInv
  <2> QED BY <2>1, YoungAge DEF Young
<1> QED BY <1>1, <1>2, SubscribedStep, PTL DEF Spec

-----------------------------------------------------------------------------
(* The counters tell copies and gaps. *)

IsStamp(x) == x.run \in Nat /\ x.nb \in Nat /\ x.ctr \in Nat

LEMMA EarlierBefore ==
    ASSUME NEW x, NEW y, NEW z, IsStamp(x), IsStamp(y), IsStamp(z), Earlier(x, y), Before(y, z)
    PROVE  Earlier(x, z)
BY DEF IsStamp, Earlier, Before, Copy

LEMMA MessageStamp == ASSUME NEW w \in Seq(MessageType), NEW i \in 1 .. Len(w)
                      PROVE  IsStamp(w[i]) /\ w[i].ev \in Events /\ w[i].run # 0
<1>1. w[i] \in MessageType
  OBVIOUS
<1> QED BY <1>1 DEF MessageType, IsStamp

LEMMA NextStamp == ASSUME NEW s \in ServerType, NEW e \in Events
                   PROVE  /\ IsStamp(NextOf(s, e)) /\ NextOf(s, e).run = s.run /\ s.run # 0
                          /\ NextOf(s, e).nb = s.nb[e] + 1 /\ NextOf(s, e).ctr = s.event_cptr[e]
BY DEF ServerType, IsStamp, NextOf

(* From s to t, what the server would push next only moves on. *)
Advances(s, t) ==
    \A e \in Events : \A x : IsStamp(x) /\ Earlier(x, NextOf(s, e)) => Earlier(x, NextOf(t, e))

LEMMA SameAdvances ==
    ASSUME NEW s, NEW t, t.run = s.run, t.nb = s.nb, t.event_cptr = s.event_cptr
    PROVE  Advances(s, t)
BY DEF Advances, NextOf

LEMMA SubscribedAdvances ==
    ASSUME NEW s, ServerOK(s), NEW e \in Events
    PROVE  Advances(s, Subscribed(s, e))
<1> DEFINE t == Subscribed(s, e)
<1>1. SubscribedTo(t, s, e)
  BY SubscribedFacts
<1> HIDE DEF t
<1>2. s \in ServerType /\ t \in ServerType
  BY <1>1 DEF SubscribedTo, ServerOK
<1>3. /\ t.run = s.run /\ t.nb = s.nb
      /\ \A f \in Events : s.event_cptr[f] > 0 => t.event_cptr[f] = s.event_cptr[f]
  BY <1>1, <1>2 DEF SubscribedTo, ServerType
<1>4. ASSUME NEW f \in Events, NEW x, IsStamp(x), Earlier(x, NextOf(s, f))
      PROVE  Earlier(x, NextOf(t, f))
  <2> DEFINE n == NextOf(s, f)
             o == NextOf(t, f)
  <2>1. IsStamp(n) /\ IsStamp(o) /\ o.run = n.run /\ o.nb = n.nb /\ (n.ctr > 0 => o.ctr = n.ctr)
    BY <1>2, <1>3, NextStamp
  <2> HIDE DEF n, o
  <2>2. Earlier(x, o)
    BY <1>4, <2>1 DEF IsStamp, Earlier, Before, Copy, n
  <2> QED BY <2>2 DEF o
<1> QED BY <1>4 DEF Advances, t

LEMMA PushedAdvances ==
    ASSUME NEW s, ServerOK(s), NEW e \in Events, val \in [Events -> Nat]
    PROVE  Advances(s, Pushed(s, e)) /\ Earlier(NextOf(s, e), NextOf(Pushed(s, e), e))
<1> DEFINE t == Pushed(s, e)
<1>1. PushedFrom(t, s, e, val[e])
  BY PushedFacts
<1> HIDE DEF t
<1>2. s \in ServerType /\ t \in ServerType
  BY <1>1 DEF PushedFrom, ServerOK
<1> DEFINE n(f) == NextOf(s, f)
           o(f) == NextOf(t, f)
<1>3. \A f \in Events : IsStamp(n(f)) /\ IsStamp(o(f)) /\ o(f).run = n(f).run
  BY <1>1, <1>2, NextStamp DEF PushedFrom
<1>4. \A f \in Events \ {e} : o(f).nb = n(f).nb /\ o(f).ctr = n(f).ctr
  BY <1>1, <1>2, NextStamp DEF PushedFrom
<1>5. o(e).nb = n(e).nb + 1 /\ o(e).ctr = IF n(e).ctr = 0 THEN 0 ELSE n(e).ctr + 1
  BY <1>1, <1>2, NextStamp DEF PushedFrom, ServerType
<1> HIDE DEF n, o
<1>6. Earlier(n(e), o(e))
  BY <1>3, <1>5 DEF IsStamp, Earlier, Before, Copy
<1>7. ASSUME NEW f \in Events, NEW x, IsStamp(x), Earlier(x, n(f))
      PROVE  Earlier(x, o(f))
  <2>1. CASE f = e
    BY <1>3, <1>6, <1>7, <2>1, EarlierBefore DEF Earlier
  <2>2. CASE f # e
    BY <1>3, <1>4, <1>7, <2>2 DEF IsStamp, Earlier, Before, Copy
  <2> QED BY <2>1, <2>2
<1> QED BY <1>6, <1>7 DEF Advances, n, o, t

LEMMA NewAdvances ==
    ASSUME NEW s \in ServerType, NEW t \in ServerType, t.run = s.run + 1
    PROVE  Advances(s, t)
<1> SUFFICES ASSUME NEW e \in Events, NEW x, IsStamp(x), Earlier(x, NextOf(s, e))
             PROVE  Earlier(x, NextOf(t, e))
  BY DEF Advances
<1>1. /\ IsStamp(NextOf(s, e)) /\ IsStamp(NextOf(t, e))
      /\ NextOf(s, e).run = s.run /\ NextOf(t, e).run = s.run + 1
  BY NextStamp
<1> QED BY <1>1 DEF IsStamp, Earlier, Before, Copy

-----------------------------------------------------------------------------
(* The queue: the server moves on, an event is taken, events are appended, *)
(* the events of a publisher are dropped.                                  *)

LEMMA OrderedAdvances ==
    ASSUME NEW w \in Seq(MessageType), NEW s, NEW t, Ordered(w, s), Advances(s, t)
    PROVE  Ordered(w, t)
<1>1. \A i \in 1 .. Len(w) : Earlier(w[i], NextOf(t, w[i].ev))
  BY MessageStamp DEF Ordered, Advances
<1> QED BY <1>1 DEF Ordered

LEMMA FollowsAdvances ==
    ASSUME NEW e \in Events, NEW w, NEW s, NEW t, NEW c, NEW d, NEW g, IsStamp(g),
           Follows(e, w, s, c, g), Advances(s, t),
           d.ctr = c.ctr, d.discarded_event <=> c.discarded_event
    PROVE  Follows(e, w, t, d, g)
BY DEF Follows, Advances

(* All members of a queue u are members of w, in their order; and the later *)
(* copies of one of them in w are among them.                               *)
Embedded(u, w, h) ==
    /\ h \in [1 .. Len(u) -> 1 .. Len(w)]
    /\ \A a, b \in 1 .. Len(u) : a < b => h[a] < h[b]
    /\ \A a \in 1 .. Len(u) : u[a] = w[h[a]]
WithCopies(u, w, h) ==
    \A a \in 1 .. Len(u), j \in 1 .. Len(w) :
        h[a] < j /\ Copy(u[a], w[j]) => \E b \in 1 .. Len(u) : h[b] = j

LEMMA OrderedEmbedded ==
    ASSUME NEW u \in Seq(MessageType), NEW w \in Seq(MessageType), NEW s, Ordered(w, s), NEW h,
           Embedded(u, w, h), WithCopies(u, w, h)
    PROVE  Ordered(u, s)
<1>0. /\ h \in [1 .. Len(u) -> 1 .. Len(w)]
      /\ \A a, b \in 1 .. Len(u) : a < b => h[a] < h[b]
      /\ \A a \in 1 .. Len(u) : u[a] = w[h[a]]
  BY DEF Embedded
<1>1. \A i \in 1 .. Len(u) : Earlier(u[i], NextOf(s, u[i].ev))
  BY <1>0 DEF Ordered
<1>2. \A i, j \in 1 .. Len(u) : i < j /\ u[i].ev = u[j].ev
         => /\ Before(u[i], u[j])
            /\ Copy(u[i], u[j]) => u[i].val = u[j].val
  BY <1>0 DEF Ordered
<1>3. \A i, j, k \in 1 .. Len(u) :
         ~ (/\ i < j /\ j < k /\ u[i].ev = u[j].ev /\ u[j].ev = u[k].ev
            /\ Copy(u[i], u[j]) /\ Copy(u[j], u[k]))
  <2> SUFFICES ASSUME NEW i \in 1 .. Len(u), NEW j \in 1 .. Len(u), NEW k \in 1 .. Len(u),
                      i < j, j < k, u[i].ev = u[j].ev, u[j].ev = u[k].ev,
                      Copy(u[i], u[j]), Copy(u[j], u[k])
               PROVE  FALSE
    OBVIOUS
  <2>1. h[i] \in 1 .. Len(w) /\ h[j] \in 1 .. Len(w) /\ h[k] \in 1 .. Len(w) /\ h[i] < h[j] /\ h[j] < h[k]
    BY <1>0
  <2>2. u[i] = w[h[i]] /\ u[j] = w[h[j]] /\ u[k] = w[h[k]]
    BY <1>0
  <2>3. /\ w[h[i]].ev = w[h[j]].ev /\ w[h[j]].ev = w[h[k]].ev
        /\ Copy(w[h[i]], w[h[j]]) /\ Copy(w[h[j]], w[h[k]])
    BY <2>2
  <2>4. \A a, b, c \in 1 .. Len(w) :
           ~ (/\ a < b /\ b < c /\ w[a].ev = w[b].ev /\ w[b].ev = w[c].ev
              /\ Copy(w[a], w[b]) /\ Copy(w[b], w[c]))
    BY DEF Ordered
  <2> QED BY <2>1, <2>3, <2>4
<1>4. ASSUME NEW i \in 1 .. Len(u), ~ u[i].final
      PROVE  \E b \in 1 .. Len(u) : i < b /\ u[i].ev = u[b].ev /\ Copy(u[i], u[b])
  <2>1. h[i] \in 1 .. Len(w) /\ u[i] = w[h[i]]
    BY <1>0
  <2>2. PICK j \in 1 .. Len(w) : h[i] < j /\ u[i].ev = w[j].ev /\ Copy(u[i], w[j])
    BY <1>4, <2>1 DEF Ordered
  <2>3. PICK b \in 1 .. Len(u) : h[b] = j
    BY <2>2 DEF WithCopies
  <2>4. i < b
    <3>1. CASE b < i
      <4>1. h[b] < h[i]
        BY <1>0, <3>1
      <4> QED BY <2>1, <2>2, <2>3, <4>1
    <3>2. CASE b = i
      BY <2>1, <2>2, <2>3, <3>2
    <3> QED BY <3>1, <3>2
  <2> QED BY <1>0, <2>2, <2>3, <2>4
<1> QED BY <1>1, <1>2, <1>3, <1>4 DEF Ordered

LEMMA FollowsEmbedded ==
    ASSUME NEW e, NEW u \in Seq(MessageType), NEW w \in Seq(MessageType), NEW s, NEW c, NEW g,
           Follows(e, w, s, c, g), NEW h, Embedded(u, w, h)
    PROVE  Follows(e, u, s, c, g)
<1>0. /\ h \in [1 .. Len(u) -> 1 .. Len(w)]
      /\ \A a, b \in 1 .. Len(u) : a < b => h[a] < h[b]
      /\ \A a \in 1 .. Len(u) : u[a] = w[h[a]]
  BY DEF Embedded
<1>1. \A i \in 1 .. Len(u) : u[i].ev = e =>
         /\ Before(g, u[i])
         /\ c.discarded_event => ~ Copy(g, u[i])
  BY <1>0 DEF Follows
<1>2. \A i, j \in 1 .. Len(u) :
         i < j /\ u[i].ev = e /\ u[j].ev = e => ~ Copy(g, u[i]) \/ ~ Copy(g, u[j])
  <2> SUFFICES ASSUME NEW i \in 1 .. Len(u), NEW j \in 1 .. Len(u), i < j, u[i].ev = e, u[j].ev = e
               PROVE  ~ Copy(g, u[i]) \/ ~ Copy(g, u[j])
    OBVIOUS
  <2>1. h[i] \in 1 .. Len(w) /\ h[j] \in 1 .. Len(w) /\ h[i] < h[j] /\ u[i] = w[h[i]] /\ u[j] = w[h[j]]
    BY <1>0
  <2> QED BY <2>1 DEF Follows
<1> QED BY <1>1, <1>2 DEF Follows

LEMMA TailEmbedded ==
    ASSUME NEW w \in Seq(MessageType), w # <<>>
    PROVE  \E h : Embedded(Tail(w), w, h) /\ WithCopies(Tail(w), w, h)
<1> DEFINE n == Len(w)
           u == Tail(w)
           h == [a \in 1 .. n - 1 |-> a + 1]
<1>1. n \in Nat \ {0} /\ Len(u) = n - 1 /\ \A a \in 1 .. n - 1 : u[a] = w[a + 1]
  OBVIOUS
<1>2. \A a \in 1 .. n - 1 : h[a] = a + 1 /\ a + 1 \in 1 .. n
  BY <1>1
<1>3. h \in [1 .. n - 1 -> 1 .. n]
  BY <1>1
<1>4. \A j \in 1 .. n : 1 < j => j - 1 \in 1 .. n - 1 /\ h[j - 1] = j
  BY <1>1
<1> HIDE DEF h, u
<1>5. \A a, b \in 1 .. n - 1 : a < b => h[a] < h[b]
  BY <1>1, <1>2
<1>6. Embedded(u, w, h)
  BY <1>1, <1>2, <1>3, <1>5 DEF Embedded
<1>7. ASSUME NEW a \in 1 .. n - 1, NEW j \in 1 .. n, h[a] < j
      PROVE  \E b \in 1 .. n - 1 : h[b] = j
  <2>1. 1 < j
    BY <1>1, <1>2, <1>7
  <2> QED BY <1>4, <2>1
<1>8. WithCopies(u, w, h)
  BY <1>1, <1>7 DEF WithCopies
<1> QED BY <1>6, <1>8 DEF u

LEMMA NotFromEmbedded ==
    ASSUME NEW w \in Seq(MessageType), NEW run
    PROVE  \E h : Embedded(NotFrom(w, run), w, h) /\ WithCopies(NotFrom(w, run), w, h)
<1> DEFINE u == NotFrom(w, run)
<1>1. PICK h : Left(u, w, Len(w), run, h)
  BY NotFromFacts
<1> HIDE DEF u
<1>2. Embedded(u, w, h)
  BY <1>1 DEF Left, Embedded
<1>3. ASSUME NEW a \in 1 .. Len(u), NEW j \in 1 .. Len(w), Copy(u[a], w[j])
      PROVE  \E b \in 1 .. Len(u) : h[b] = j
  BY <1>1, <1>3 DEF Left, Copy
<1>4. WithCopies(u, w, h)
  BY <1>3 DEF WithCopies
<1> QED BY <1>2, <1>4 DEF u

(* What a queue becomes when events are taken from it or dropped. *)
LEMMA Shrunk ==
    ASSUME NEW w \in Seq(MessageType), NEW u,
           \/ u = w \/ u = <<>>
           \/ w # <<>> /\ u = Tail(w)
           \/ \E run : u = NotFrom(w, run)
    PROVE  /\ u \in Seq(MessageType)
           /\ \A s : Ordered(w, s) => Ordered(u, s)
           /\ \A e, s, c, g : Follows(e, w, s, c, g) => Follows(e, u, s, c, g)
<1>1. CASE u = w
  BY <1>1
<1>2. CASE u = <<>>
  <2>1. u \in Seq(MessageType) /\ 1 .. Len(u) = {}
    BY <1>2
  <2> QED BY <2>1 DEF Ordered, Follows
<1>3. CASE w # <<>> /\ u = Tail(w)
  <2>1. u \in Seq(MessageType)
    BY <1>3
  <2>2. PICK h : Embedded(u, w, h) /\ WithCopies(u, w, h)
    BY <1>3, TailEmbedded
  <2> QED BY <2>1, <2>2, OrderedEmbedded, FollowsEmbedded
<1>4. CASE \E run : u = NotFrom(w, run)
  <2>1. u \in Seq(MessageType)
    BY <1>4, NotFromFacts
  <2>2. PICK h : Embedded(u, w, h) /\ WithCopies(u, w, h)
    BY <1>4, NotFromEmbedded
  <2> QED BY <2>1, <2>2, OrderedEmbedded, FollowsEmbedded
<1> QED BY <1>1, <1>2, <1>3, <1>4

LEMMA PublishedFields ==
    ASSUME NEW s, NEW e, NEW v, NEW last \in BOOLEAN
    PROVE  LET p == Published(s, e, v, last)
           IN  /\ p.ev = e /\ p.run = s.run /\ p.nb = s.nb[e] + 1 /\ p.ctr = s.event_cptr[e]
               /\ p.val = v /\ p.final = last
BY DEF Published

(* The copies of one event are appended. *)
LEMMA Appended ==
    ASSUME NEW w \in Seq(MessageType), NEW u \in Seq(MessageType), Len(u) \in 0 .. 2,
           NEW s, ServerOK(s), NEW e \in Events, val \in [Events -> Nat],
           \A i \in 1 .. Len(u) : u[i] = Published(s, e, val[e], i = Len(u))
    PROVE  /\ Ordered(w, s) => Ordered(w \o u, Pushed(s, e))
           /\ \A f \in Events : \A c, g : IsStamp(g) /\ Follows(f, w, s, c, g) =>
                 Follows(f, w \o u, Pushed(s, e), c, g)
<1> DEFINE t == Pushed(s, e)
           v == w \o u
           m == Len(w)
           n == Len(u)
           o == NextOf(s, e)
<1>1. Advances(s, t) /\ Earlier(o, NextOf(t, e))
  BY PushedAdvances
<1>2. IsStamp(o) /\ o.run = s.run /\ o.nb = s.nb[e] + 1 /\ o.ctr = s.event_cptr[e]
  BY NextStamp DEF ServerOK
<1>3. \A i \in 1 .. n : /\ u[i].ev = e /\ u[i].run = o.run /\ u[i].nb = o.nb /\ u[i].ctr = o.ctr
                        /\ u[i].val = val[e] /\ (u[i].final <=> i = n)
  <2> HIDE DEF t, v, m, o
  <2> TAKE i \in 1 .. n
  <2>1. u[i] = Published(s, e, val[e], i = n)
    OBVIOUS
  <2> DEFINE last == i = n
  <2>2. /\ u[i].ev = e /\ u[i].run = s.run /\ u[i].nb = s.nb[e] + 1 /\ u[i].ctr = s.event_cptr[e]
        /\ u[i].val = val[e] /\ u[i].final = last
    <3>1. last \in BOOLEAN /\ u[i] = Published(s, e, val[e], last)
      BY <2>1
    <3> HIDE DEF last
    <3> QED BY <3>1, PublishedFields
  <2>3. u[i].final <=> last
    BY <2>2
  <2> QED BY <1>2, <2>2, <2>3
<1>4. /\ m \in Nat /\ n \in 0 .. 2 /\ Len(v) = m + n
      /\ \A i \in 1 .. m : v[i] = w[i]
      /\ \A i \in m + 1 .. m + n : v[i] = u[i - m] /\ i - m \in 1 .. n
      /\ \A i \in 1 .. m + n : i \in 1 .. m \/ i \in m + 1 .. m + n
  OBVIOUS
<1> HIDE DEF t, v, m, n, o
<1>5. \A x, i : i \in m + 1 .. m + n =>
         /\ v[i].ev = e /\ v[i].val = val[e] /\ (v[i].final <=> i = m + n)
         /\ (Copy(x, v[i]) <=> Copy(x, o)) /\ (Before(x, v[i]) <=> Before(x, o))
         /\ (Earlier(v[i], x) <=> Earlier(o, x))
  <2> SUFFICES ASSUME NEW x, NEW i \in m + 1 .. m + n
               PROVE  /\ v[i].ev = e /\ v[i].val = val[e] /\ (v[i].final <=> i = m + n)
                      /\ (Copy(x, v[i]) <=> Copy(x, o)) /\ (Before(x, v[i]) <=> Before(x, o))
                      /\ (Earlier(v[i], x) <=> Earlier(o, x))
    OBVIOUS
  <2>1. v[i] = u[i - m] /\ i - m \in 1 .. n
    BY <1>4
  <2>2. /\ v[i].ev = e /\ v[i].run = o.run /\ v[i].nb = o.nb /\ v[i].ctr = o.ctr
        /\ v[i].val = val[e] /\ (v[i].final <=> i - m = n)
    BY <1>3, <2>1
  <2>3. i - m = n <=> i = m + n
    BY <1>4
  <2> QED BY <2>2, <2>3 DEF Copy, Before, Earlier
<1>6. ASSUME Ordered(w, s) PROVE Ordered(v, t)
  <2>0. \A i \in 1 .. m : w[i].ev = e => Before(w[i], o) /\ ~ Copy(w[i], o)
    BY <1>6 DEF Ordered, Earlier, m, o
  <2>1. ASSUME NEW i \in 1 .. Len(v) PROVE Earlier(v[i], NextOf(t, v[i].ev))
    <3>1. CASE i \in 1 .. m
      <4>1. IsStamp(w[i]) /\ w[i].ev \in Events /\ v[i] = w[i]
        BY <1>4, <3>1, MessageStamp DEF m
      <4> QED BY <1>1, <1>6, <3>1, <4>1 DEF Ordered, Advances, m
    <3>2. CASE i \in m + 1 .. m + n
      BY <1>1, <1>5, <3>2
    <3> QED BY <1>4, <2>1, <3>1, <3>2
  <2>2. ASSUME NEW i \in 1 .. Len(v), NEW j \in 1 .. Len(v), i < j, v[i].ev = v[j].ev
        PROVE  Before(v[i], v[j]) /\ (Copy(v[i], v[j]) => v[i].val = v[j].val)
    <3>1. CASE i \in 1 .. m /\ j \in 1 .. m
      BY <1>4, <1>6, <2>2, <3>1 DEF Ordered, m
    <3>2. CASE i \in 1 .. m /\ j \in m + 1 .. m + n
      <4>1. v[i] = w[i] /\ w[i].ev = e
        BY <1>4, <1>5, <2>2, <3>2
      <4>2. Before(w[i], o) /\ ~ Copy(w[i], o)
        BY <2>0, <3>2, <4>1
      <4> QED BY <1>5, <3>2, <4>1, <4>2
    <3>3. CASE i \in m + 1 .. m + n /\ j \in m + 1 .. m + n
      <4>1. Before(v[i], v[j]) <=> Before(v[i], o)
        BY <1>5, <3>3
      <4>2. v[i].run = o.run /\ v[i].nb = o.nb /\ v[i].ctr = o.ctr
        BY <1>3, <1>4, <3>3
      <4>3. Before(v[i], o)
        BY <1>2, <4>2 DEF Before, IsStamp
      <4> QED BY <1>5, <3>3, <4>1, <4>3
    <3>4. CASE i \in m + 1 .. m + n /\ j \in 1 .. m
      BY <1>4, <2>2, <3>4
    <3> QED BY <1>4, <3>1, <3>2, <3>3, <3>4
  <2>3. ASSUME NEW i \in 1 .. Len(v), NEW j \in 1 .. Len(v), NEW k \in 1 .. Len(v),
               i < j, j < k, v[i].ev = v[j].ev, v[j].ev = v[k].ev, Copy(v[i], v[j]), Copy(v[j], v[k])
        PROVE  FALSE
    <3>1. CASE k \in 1 .. m
      <4>1. i \in 1 .. m /\ j \in 1 .. m
        BY <1>4, <2>3, <3>1
      <4>2. v[i] = w[i] /\ v[j] = w[j] /\ v[k] = w[k]
        BY <1>4, <3>1, <4>1
      <4> QED BY <1>6, <2>3, <3>1, <4>1, <4>2 DEF Ordered, m
    <3>2. CASE k \in m + 1 .. m + n
      <4>1. v[k].ev = e
        BY <1>5, <3>2
      <4>2. CASE j \in 1 .. m
        <5>1. ~ Copy(w[j], o)
          BY <1>4, <2>0, <2>3, <4>1, <4>2
        <5> QED BY <1>4, <1>5, <2>3, <3>2, <4>2, <5>1
      <4>3. CASE j \in m + 1 .. m + n
        <5>1. CASE i \in 1 .. m
          <6>1. ~ Copy(w[i], o)
            BY <1>4, <2>0, <2>3, <4>1, <5>1
          <6> QED BY <1>4, <1>5, <2>3, <4>3, <5>1, <6>1
        <5>2. CASE i \in m + 1 .. m + n
          BY <1>4, <2>3, <3>2, <5>2
        <5> QED BY <1>4, <5>1, <5>2
      <4> QED BY <1>4, <4>2, <4>3
    <3> QED BY <1>4, <3>1, <3>2
  <2>4. ASSUME NEW i \in 1 .. Len(v), ~ v[i].final
        PROVE  \E j \in 1 .. Len(v) : i < j /\ v[i].ev = v[j].ev /\ Copy(v[i], v[j])
    <3>1. CASE i \in 1 .. m
      <4>1. PICK j \in 1 .. m : i < j /\ w[i].ev = w[j].ev /\ Copy(w[i], w[j])
        BY <1>4, <1>6, <2>4, <3>1 DEF Ordered, m
      <4>2. j \in 1 .. Len(v) /\ v[i] = w[i] /\ v[j] = w[j]
        BY <1>4, <3>1, <4>1
      <4> QED BY <4>1, <4>2
    <3>2. CASE i \in m + 1 .. m + n
      <4>1. i # m + n
        BY <1>5, <2>4, <3>2
      <4>2. m + n \in m + 1 .. m + n /\ i < m + n /\ m + n \in 1 .. Len(v)
        BY <1>4, <3>2, <4>1
      <4>3. v[i].ev = v[m + n].ev
        BY <1>5, <3>2, <4>2
      <4>4. v[i].run = o.run /\ v[i].nb = o.nb /\ v[m + n].run = o.run /\ v[m + n].nb = o.nb
        BY <1>3, <1>4, <3>2, <4>2
      <4>5. Copy(v[i], v[m + n])
        BY <4>4 DEF Copy
      <4> QED BY <4>2, <4>3, <4>5
    <3> QED BY <1>4, <3>1, <3>2
  <2> QED BY <2>1, <2>2, <2>3, <2>4 DEF Ordered
<1>7. ASSUME NEW f \in Events, NEW c, NEW g, IsStamp(g), Follows(f, w, s, c, g)
      PROVE  Follows(f, v, t, c, g)
  <2>1. c.ctr = g.ctr /\ Earlier(g, NextOf(s, f)) /\ Earlier(g, NextOf(t, f))
    BY <1>1, <1>7 DEF Follows, Advances
  <2>2. ASSUME NEW i \in 1 .. Len(v), v[i].ev = f
        PROVE  Before(g, v[i]) /\ (c.discarded_event => ~ Copy(g, v[i]))
    <3>1. CASE i \in 1 .. m
      BY <1>4, <1>7, <2>2, <3>1 DEF Follows, m
    <3>2. CASE i \in m + 1 .. m + n
      <4>1. f = e
        BY <1>5, <2>2, <3>2
      <4> QED BY <1>5, <2>1, <3>2, <4>1 DEF Earlier, o
    <3> QED BY <1>4, <3>1, <3>2
  <2>3. ASSUME NEW i \in 1 .. Len(v), NEW j \in 1 .. Len(v), i < j, v[i].ev = f, v[j].ev = f
        PROVE  ~ Copy(g, v[i]) \/ ~ Copy(g, v[j])
    <3>1. CASE j \in 1 .. m
      <4>1. i \in 1 .. m
        BY <1>4, <2>3, <3>1
      <4>2. v[i] = w[i] /\ v[j] = w[j]
        BY <1>4, <3>1, <4>1
      <4> QED BY <1>7, <2>3, <3>1, <4>1, <4>2 DEF Follows, m
    <3>2. CASE j \in m + 1 .. m + n
      <4>1. f = e
        BY <1>5, <2>3, <3>2
      <4> QED BY <1>5, <2>1, <3>2, <4>1 DEF Earlier, o
    <3> QED BY <1>4, <3>1, <3>2
  <2> QED BY <2>1, <2>2, <2>3 DEF Follows
<1> QED BY <1>6, <1>7 DEF v, t

-----------------------------------------------------------------------------
(* The steps of the specification. *)
CountedInv == DeafInv /\ CounterInv

LEMMA GotStamp == ASSUME DeafInv, NEW e \in Events PROVE IsStamp(got[e])
<1>1. got[e] \in [run : Nat, nb : Nat, ctr : Nat]
  BY DeafParts
<1> QED BY <1>1 DEF IsStamp

LEMMA CounterInit == ASSUME Init PROVE CounterInv
<1>1. Connected = {} /\ odd = {} /\ wire = <<>>
  BY DEF Init, SupplierInit, Connected, NoCallback
<1>2. 1 .. Len(wire) = {}
  BY <1>1
<1> QED BY <1>1, <1>2 DEF CounterInv, Ordered, CopyWithinRun, GapReported

(* A step that adds no event and gives none to a callback. *)
LEMMA CounterKept ==
    ASSUME CountedInv, odd' = odd, Advances(svr, svr'),
           \/ wire' = wire \/ wire' = <<>>
           \/ wire # <<>> /\ wire' = Tail(wire)
           \/ \E run : wire' = NotFrom(wire, run),
           Connected' \subseteq Connected,
           \A e \in Connected' : /\ cb'[e].ctr = cb[e].ctr
                                 /\ (cb'[e].discarded_event <=> cb[e].discarded_event)
                                 /\ got'[e] = got[e]
    PROVE  CounterInv'
<1>0. DeafInv /\ wire \in Seq(MessageType) /\ Connected \subseteq Events
  BY DeafParts, ConnectedEvents DEF CountedInv
<1>1. /\ wire' \in Seq(MessageType) /\ Ordered(wire', svr)
      /\ \A e \in Connected : Follows(e, wire', svr, cb[e], got[e])
  <2>1. Ordered(wire, svr) /\ \A e \in Connected : Follows(e, wire, svr, cb[e], got[e])
    BY DEF CountedInv, CounterInv
  <2>2. /\ wire' \in Seq(MessageType)
        /\ \A s : Ordered(wire, s) => Ordered(wire', s)
        /\ \A e, s, c, g : Follows(e, wire, s, c, g) => Follows(e, wire', s, c, g)
    BY <1>0, Shrunk
  <2> QED BY <2>1, <2>2
<1>2. Ordered(wire', svr')
  BY <1>1, OrderedAdvances
<1>3. ASSUME NEW e \in Connected' PROVE Follows(e, wire', svr', cb'[e], got'[e])
  <2>1. e \in Events /\ IsStamp(got[e]) /\ Follows(e, wire', svr, cb[e], got[e])
    BY <1>0, <1>1, <1>3, GotStamp
  <2>2. Follows(e, wire', svr', cb'[e], got[e])
    BY <1>3, <2>1, FollowsAdvances
  <2> QED BY <1>3, <2>2
<1>4. (CopyWithinRun /\ GapReported)'
  BY DEF CountedInv, CounterInv, CopyWithinRun, GapReported
<1> QED BY <1>2, <1>3, <1>4 DEF CounterInv

LEMMA PollCounter ==
    ASSUME CountedInv, NEW e \in Events, PushingPoll(e), UNCHANGED <<consumerVars, historyVars>>
    PROVE  CounterInv'
<1>10. DeafInv
  BY DEF CountedInv
<1>11. /\ wire \in Seq(MessageType) /\ Len(wire) <= Hwm /\ ServerOK(svr) /\ val \in [Events -> Nat]
  BY <1>10, DeafParts
<1>0. /\ DeafInv /\ wire \in Seq(MessageType) /\ Len(wire) <= Hwm /\ ServerOK(svr)
      /\ val \in [Events -> Nat] /\ svr \in ServerType /\ Len(wire) \in Nat
  BY <1>10, <1>11 DEF ServerOK
<1>1. svr' = Read(Pushed(svr, e), e) /\ ServerOK(Pushed(svr, e)) /\ wire' = wire \o Copies(svr, e)
  BY DEF PushingPoll
<1>9. Advances(Pushed(svr, e), svr')
  <2> DEFINE t == Pushed(svr, e)
  <2>1. svr' = Read(t, e) /\ ServerOK(t)
    BY <1>1
  <2> HIDE DEF t
  <2>2. svr'.run = t.run /\ svr'.nb = t.nb /\ svr'.event_cptr = t.event_cptr
    BY <1>0, <2>1, ReadFacts
  <2>3. Advances(t, svr')
    BY <2>2, SameAdvances
  <2> QED BY <2>3 DEF t
<1>2. cb' = cb /\ got' = got /\ odd' = odd
  BY DEF consumerVars, historyVars
<1>3. Connected' = Connected /\ Connected \subseteq Events
  BY <1>2, SameClients, ConnectedEvents
<1> DEFINE u == Copies(svr, e)
<1>4. u \in Seq(MessageType) /\ Len(u) \in 0 .. 2
      /\ \A i \in 1 .. Len(u) : u[i] = Published(svr, e, val[e], i = Len(u))
  BY <1>0, CopiesFacts
<1> HIDE DEF u
<1>5. /\ Ordered(wire, svr) => Ordered(wire \o u, Pushed(svr, e))
      /\ \A f \in Events : \A c, g : IsStamp(g) /\ Follows(f, wire, svr, c, g) =>
            Follows(f, wire \o u, Pushed(svr, e), c, g)
  BY <1>0, <1>4, Appended
<1>13. wire' \in Seq(MessageType) /\ wire' = wire \o u
  BY <1>0, <1>1, <1>4 DEF u
<1>6. Ordered(wire', svr')
  <2>1. Ordered(wire', Pushed(svr, e))
    BY <1>5, <1>13 DEF CountedInv, CounterInv
  <2> QED BY <1>9, <1>13, <2>1, OrderedAdvances
<1>7. \A f \in Connected : Follows(f, wire', svr', cb'[f], got'[f])
  <2> TAKE f \in Connected
  <2>1. f \in Events /\ IsStamp(got[f]) /\ Follows(f, wire, svr, cb[f], got[f])
    BY <1>0, <1>3, GotStamp DEF CountedInv, CounterInv
  <2>2. Follows(f, wire', Pushed(svr, e), cb[f], got[f])
    BY <1>5, <1>13, <2>1
  <2>3. Follows(f, wire', svr', cb[f], got[f])
    BY <1>9, <2>1, <2>2, FollowsAdvances
  <2> QED BY <1>2, <2>3
<1>8. (CopyWithinRun /\ GapReported)'
  BY <1>2 DEF CountedInv, CounterInv, CopyWithinRun, GapReported
<1> QED BY <1>3, <1>6, <1>7, <1>8 DEF CounterInv

LEMMA ServerCounter == ASSUME CountedInv, ServerStep PROVE CounterInv'
<1>0. /\ DeafInv /\ ServerOK(svr) /\ svr \in ServerType /\ val \in [Events -> Nat]
      /\ svr.polled \subseteq Events /\ svr.run \in Nat
  BY DeafParts DEF CountedInv, ServerOK, ServerType
<1>1. UNCHANGED <<consumerVars, historyVars>> /\ cb' = cb /\ got' = got /\ odd' = odd
  BY DEF ServerStep, consumerVars, historyVars
<1>2. Connected' = Connected
  BY <1>1, SameClients
<1> DEFINE kept == Advances(svr, svr') /\ wire' \in {wire, <<>>}
<1>3. ASSUME NEW e \in Events, Poll(e) PROVE CounterInv' \/ kept
  <2>1. PollServer /\ (QuietPoll(e) \/ ExpiredPoll(e) \/ PushingPoll(e))
    BY <1>0, <1>3, PollEffect
  <2>2. CASE QuietPoll(e) \/ ExpiredPoll(e)
    <3>1. svr'.run = svr.run /\ svr'.nb = svr.nb /\ svr'.event_cptr = svr.event_cptr /\ wire' = wire
      BY <2>1, <2>2 DEF PollServer, QuietPoll, ExpiredPoll
    <3> QED BY <3>1, SameAdvances
  <2>3. CASE PushingPoll(e)
    BY <1>1, <2>3, PollCounter
  <2> QED BY <2>1, <2>2, <2>3
<1>4. ASSUME NEW e \in Events, Change(e) PROVE kept
  BY <1>4, SameAdvances DEF Change
<1>5. ASSUME NEW e \in Events, StartPolling(e) \/ StopPolling(e) \/ StoreData PROVE kept
  <2>1. /\ svr'.run = svr.run /\ svr'.nb = svr.nb /\ svr'.event_cptr = svr.event_cptr
        /\ wire' = wire
    BY <1>0, <1>5, PollingFacts DEF SameEvents
  <2> QED BY <2>1, SameAdvances
<1>6. Events # {}
  BY SupplierAssumption
<1>7. ASSUME Kill PROVE kept
  <2>1. svr' = [svr EXCEPT !.up = FALSE] /\ wire' \in {wire, <<>>}
    BY <1>7 DEF Kill
  <2>2. svr'.run = svr.run /\ svr'.nb = svr.nb /\ svr'.event_cptr = svr.event_cptr
    BY <1>0, <2>1 DEF ServerType
  <2> QED BY <2>1, <2>2, SameAdvances
<1>8. ASSUME Start PROVE kept
  <2>1. PICK polled \in FirstPolled : svr' = NewServer(svr.run + 1, polled)
    BY <1>8 DEF Start
  <2>2. polled \in SUBSET Events /\ svr.run + 1 \in Nat \ {0}
    BY <1>0, <2>1 DEF FirstPolled
  <2>3. svr' \in ServerType /\ svr'.run = svr.run + 1
    BY <2>1, <2>2, NewServerFacts DEF ServerOK, NewServer
  <2> QED BY <1>0, <1>8, <2>3, NewAdvances DEF Start
<1>9. CASE kept
  BY <1>1, <1>2, <1>9, CounterKept
<1> QED BY <1>3, <1>4, <1>5, <1>6, <1>7, <1>8, <1>9 DEF ServerStep, SupplierStep

(* A step of the client that leaves the queue and the callbacks alone. *)
LEMMA ClientCounter ==
    ASSUME CountedInv, UNCHANGED <<svr, wire, cb, got, odd>>
    PROVE  CounterInv'
<1>1. Connected' = Connected
  BY SameClients
<1>2. Advances(svr, svr')
  BY SameAdvances
<1> QED BY <1>1, <1>2, CounterKept

LEMMA UnsubscribeCounter == ASSUME CountedInv, NEW id \in Ids, UnsubscribeEvent(id) PROVE CounterInv'
<1> DEFINE e == Event(id)
           gone == cb[e].ids = {id}
<1>0. DeafInv
  BY DEF CountedInv
<1>1. /\ UNCHANGED <<scenario, val, svr, wire, lossy, op, ka, used, historyVars>> /\ e \in Events
      /\ \/ UNCHANGED <<cb, chan, sock>>
         \/ /\ ~ gone => cb'[e].ctr = cb[e].ctr /\ (cb'[e].discarded_event <=> cb[e].discarded_event)
            /\ \A f \in Events \ {e} : cb'[f] = cb[f]
            /\ e \in Connected /\ Connected' = IF gone THEN Connected \ {e} ELSE Connected
  BY <1>0, UnsubscribeEffect
<1> HIDE DEF e, gone
<1>2. svr' = svr /\ wire' = wire /\ got' = got /\ odd' = odd
  BY <1>1 DEF historyVars
<1>3. CASE UNCHANGED <<cb, chan, sock>>
  BY <1>2, <1>3, ClientCounter
<1>4. CASE /\ ~ gone => cb'[e].ctr = cb[e].ctr /\ (cb'[e].discarded_event <=> cb[e].discarded_event)
           /\ \A f \in Events \ {e} : cb'[f] = cb[f]
           /\ e \in Connected /\ Connected' = IF gone THEN Connected \ {e} ELSE Connected
  <2>1. Connected' \subseteq Connected /\ Connected \subseteq Events
    BY <1>4, ConnectedEvents
  <2>2. \A f \in Connected' : cb'[f].ctr = cb[f].ctr /\ (cb'[f].discarded_event <=> cb[f].discarded_event)
    BY <1>4, <2>1
  <2>3. Advances(svr, svr')
    BY <1>2, SameAdvances
  <2> QED BY <1>2, <2>1, <2>2, <2>3, CounterKept
<1> QED BY <1>1, <1>3, <1>4

LEMMA ConnectCounter == ASSUME CountedInv, ConnectEvent PROVE CounterInv'
<1> DEFINE e == Event(op.id)
           new == e \notin Connected
<1>0. DeafInv /\ wire \in Seq(MessageType) /\ svr \in ServerType
  BY DeafParts DEF CountedInv, ServerOK
<1>1. /\ e \in Events
      /\ UNCHANGED <<scenario, val, svr, wire, lossy, pending, ka, used, seen, odd, blocked>>
      /\ cb'[e].ctr = IF new THEN 0 ELSE cb[e].ctr
      /\ cb'[e].discarded_event <=> ~ new /\ cb[e].discarded_event
      /\ got'[e] = IF new THEN NoEvent ELSE got[e]
      /\ \A f \in Events \ {e} : cb'[f] = cb[f] /\ got'[f] = got[f]
      /\ Connected' = Connected \cup {e}
  BY <1>0, ConnectEffect
<1> HIDE DEF e
<1>2. Advances(svr, svr') /\ svr' = svr /\ wire' = wire /\ Connected \subseteq Events
  BY <1>1, SameAdvances, ConnectedEvents
<1>3. ASSUME NEW f \in Connected' PROVE Follows(f, wire', svr', cb'[f], got'[f])
  <2>1. CASE f = e /\ new
    <3>1. /\ got'[f].run = 0 /\ got'[f].nb = 0 /\ got'[f].ctr = 0 /\ cb'[f].ctr = 0
          /\ ~ cb'[f].discarded_event
      BY <1>1, <2>1 DEF NoEvent
    <3>2. IsStamp(NextOf(svr, f)) /\ NextOf(svr, f).run # 0
      BY <1>0, <1>1, <2>1, NextStamp
    <3>3. Earlier(got'[f], NextOf(svr, f))
      BY <3>1, <3>2 DEF Earlier, Before, Copy, IsStamp
    <3>4. \A i \in 1 .. Len(wire) : Before(got'[f], wire[i]) /\ ~ Copy(got'[f], wire[i])
      <4> TAKE i \in 1 .. Len(wire)
      <4>1. IsStamp(wire[i]) /\ wire[i].run # 0
        BY <1>0, MessageStamp
      <4> QED BY <3>1, <4>1 DEF Before, Copy, IsStamp
    <3> QED BY <1>2, <3>1, <3>3, <3>4 DEF Follows
  <2>2. CASE ~ (f = e /\ new)
    <3>1. /\ f \in Connected /\ f \in Events /\ cb'[f].ctr = cb[f].ctr /\ got'[f] = got[f]
          /\ (cb'[f].discarded_event <=> cb[f].discarded_event)
      BY <1>1, <1>2, <1>3, <2>2
    <3>2. Follows(f, wire, svr, cb[f], got[f]) /\ IsStamp(got[f])
      BY <1>0, <3>1, GotStamp DEF CountedInv, CounterInv
    <3> QED BY <1>2, <3>1, <3>2, FollowsAdvances
  <2> QED BY <2>1, <2>2
<1>4. Ordered(wire', svr')
  BY <1>2 DEF CountedInv, CounterInv
<1>5. (CopyWithinRun /\ GapReported)'
  BY <1>1 DEF CountedInv, CounterInv, CopyWithinRun, GapReported
<1> QED BY <1>3, <1>4, <1>5 DEF CounterInv

(* What the counter of a callback says about the head of the queue: m is   *)
(* suppressed only if it has the counter of the last event.                *)
LEMMA SuppressedCounter ==
    ASSUME NEW c, NEW n \in Nat, c.ctr \in Nat, c.discarded_event \in BOOLEAN
    PROVE  /\ Suppressed(c, n) => n = c.ctr /\ ~ c.discarded_event
           /\ n = c.ctr /\ ~ c.discarded_event => Suppressed(c, n)
           /\ c.ctr > 0 => MissedEvent(c, n) = n - c.ctr
BY DEF Suppressed, MissedEvent, Base

(* The callback of the head of the queue. *)
LEMMA HeadCounter ==
    ASSUME CountedInv, wire # <<>>, wire[1].ev \in Connected
    PROVE  LET m == wire[1]
               e == m.ev
           IN  /\ e \in Events /\ IsStamp(m) /\ IsStamp(got[e]) /\ cb[e].ctr = got[e].ctr
               /\ cb[e].discarded_event \in BOOLEAN /\ Before(got[e], m)
               /\ cb[e].discarded_event => ~ Copy(got[e], m)
               /\ m.final \in BOOLEAN
<1> DEFINE m == wire[1]
           e == m.ev
<1>0. DeafInv /\ wire \in Seq(MessageType) /\ cb \in [Events -> CallbackType]
  BY DeafParts DEF CountedInv
<1>1. m \in MessageType /\ e \in Events /\ Len(wire) \in Nat \ {0}
  BY <1>0, HeadFacts
<1>2. 1 \in 1 .. Len(wire)
  BY <1>1
<1>3. Follows(e, wire, svr, cb[e], got[e])
  BY DEF CountedInv, CounterInv
<1>4. cb[e].ctr = got[e].ctr /\ Before(got[e], m) /\ (cb[e].discarded_event => ~ Copy(got[e], m))
  BY <1>2, <1>3 DEF Follows
<1>5. cb[e].discarded_event \in BOOLEAN
  BY <1>0, <1>1 DEF CallbackType
<1>6. IsStamp(m) /\ m.final \in BOOLEAN
  BY <1>1 DEF MessageType, IsStamp
<1>7. IsStamp(got[e])
  BY <1>0, <1>1, GotStamp
<1> QED BY <1>1, <1>4, <1>5, <1>6, <1>7

(* The events behind the head: what the queue says of them. *)
LEMMA BehindHead ==
    ASSUME DeafInv, wire # <<>>, Ordered(wire, svr)
    PROVE  LET u == Tail(wire)
           IN  \A i \in 1 .. Len(u) :
                  /\ IsStamp(u[i]) /\ i + 1 \in 1 .. Len(wire) /\ u[i] = wire[i + 1]
                  /\ u[i].ev = wire[1].ev => Before(wire[1], u[i])
<1>1. /\ wire \in Seq(MessageType) /\ Tail(wire) \in Seq(MessageType)
      /\ Len(wire) \in Nat \ {0} /\ Len(Tail(wire)) = Len(wire) - 1
      /\ \A i \in 1 .. Len(Tail(wire)) : Tail(wire)[i] = wire[i + 1]
  BY HeadFacts, DeafParts
<1> SUFFICES ASSUME NEW i \in 1 .. Len(Tail(wire))
             PROVE  /\ IsStamp(Tail(wire)[i]) /\ i + 1 \in 1 .. Len(wire) /\ Tail(wire)[i] = wire[i + 1]
                    /\ Tail(wire)[i].ev = wire[1].ev => Before(wire[1], Tail(wire)[i])
  OBVIOUS
<1>2. 1 \in 1 .. Len(wire) /\ i + 1 \in 1 .. Len(wire) /\ 1 < i + 1 /\ Tail(wire)[i] = wire[i + 1]
  BY <1>1
<1>3. IsStamp(wire[i + 1])
  BY <1>1, <1>2, MessageStamp
<1>4. wire[1].ev = wire[i + 1].ev => Before(wire[1], wire[i + 1])
  BY <1>2 DEF Ordered
<1> QED BY <1>2, <1>3, <1>4

LEMMA SuppressCounter == ASSUME CountedInv, SuppressEvent PROVE CounterInv'
<1> DEFINE m == wire[1]
           e == m.ev
           g == got[e]
           c == cb[e]
           u == Tail(wire)
<1>0. DeafInv
  BY DEF CountedInv
<1>1. /\ e \in Connected /\ Suppressed(c, m.ctr) /\ wire # <<>>
      /\ cb'[e].ctr = c.ctr /\ cb'[e].discarded_event
      /\ \A f \in Events \ {e} : cb'[f] = cb[f]
      /\ odd' = odd \cup OddSuppressed(m, g) /\ wire' = u /\ Connected' = Connected
      /\ UNCHANGED <<svr, got>>
  BY <1>0, SuppressEffect DEF Receiving
<1>2. /\ e \in Events /\ IsStamp(m) /\ IsStamp(g) /\ c.ctr = g.ctr
      /\ c.discarded_event \in BOOLEAN /\ Before(g, m) /\ m.final \in BOOLEAN
  BY <1>1, HeadCounter
<1>3. Follows(e, wire, svr, c, g) /\ Ordered(wire, svr)
  BY <1>1 DEF CountedInv, CounterInv
<1>4. wire \in Seq(MessageType) /\ Len(wire) \in Nat \ {0}
  BY <1>0, <1>1, HeadFacts, DeafParts
<1>5. /\ u \in Seq(MessageType) /\ Ordered(u, svr)
      /\ \A f \in Connected : Follows(f, u, svr, cb[f], got[f])
  <2>1. /\ u \in Seq(MessageType)
        /\ \A s : Ordered(wire, s) => Ordered(u, s)
        /\ \A f, s, d, h : Follows(f, wire, s, d, h) => Follows(f, u, s, d, h)
    BY <1>1, <1>4, Shrunk
  <2> QED BY <1>3, <2>1 DEF CountedInv, CounterInv
<1>6. \A i \in 1 .. Len(u) : /\ IsStamp(u[i]) /\ i + 1 \in 1 .. Len(wire) /\ u[i] = wire[i + 1]
                             /\ u[i].ev = e => Before(m, u[i])
  BY <1>0, <1>1, <1>3, BehindHead
<1> HIDE DEF m, e, g, c, u
<1>7. m.ctr = c.ctr
  BY <1>1, <1>2, SuppressedCounter DEF IsStamp
<1>8. "same run" \notin OddSuppressed(m, g) /\ "twice" \notin OddSuppressed(m, g) /\ "gap" \notin OddSuppressed(m, g)
  <2>1. m.run = g.run /\ m.ctr # 0 => m.nb = g.nb
    BY <1>2, <1>7 DEF IsStamp, Before
  <2> QED BY <2>1 DEF OddSuppressed
<1>9. (CopyWithinRun /\ GapReported)'
  BY <1>1, <1>8 DEF CountedInv, CounterInv, CopyWithinRun, GapReported
<1>10. ASSUME NEW i \in 1 .. Len(u), u[i].ev = e PROVE ~ Copy(g, u[i])
  <2>1. CASE Copy(g, m)
    <3>1. 1 \in 1 .. Len(wire) /\ i + 1 \in 1 .. Len(wire) /\ 1 < i + 1 /\ wire[1].ev = e
          /\ wire[i + 1].ev = e /\ Copy(g, wire[1])
      BY <1>4, <1>6, <1>10, <2>1 DEF m, e
    <3>2. ~ Copy(g, wire[1]) \/ ~ Copy(g, wire[i + 1])
      BY <1>3, <3>1 DEF Follows
    <3> QED BY <1>6, <3>1, <3>2
  <2>2. CASE ~ Copy(g, m)
    <3>1. Earlier(g, m) /\ Before(m, u[i]) /\ IsStamp(u[i])
      BY <1>2, <1>6, <1>10, <2>2 DEF Earlier
    <3>2. Earlier(g, u[i])
      BY <1>2, <3>1, EarlierBefore
    <3> QED BY <3>2 DEF Earlier
  <2> QED BY <2>1, <2>2
<1>11. Follows(e, u, svr, cb'[e], g)
  <2>1. Follows(e, u, svr, c, g)
    BY <1>1, <1>5 DEF c, g
  <2> QED BY <1>1, <1>10, <2>1 DEF Follows
<1>12. \A f \in Connected : Follows(f, u, svr, cb'[f], got[f])
  <2> TAKE f \in Connected
  <2>1. CASE f = e
    BY <1>11, <2>1 DEF g
  <2>2. CASE f # e
    BY <1>1, <1>5, <2>2, ConnectedEvents
  <2> QED BY <2>1, <2>2
<1> QED BY <1>1, <1>5, <1>9, <1>12 DEF CounterInv

LEMMA PushCounter == ASSUME CountedInv, PushEvent PROVE CounterInv'
<1> DEFINE m == wire[1]
           e == m.ev
           g == got[e]
           c == cb[e]
           u == Tail(wire)
<1>0. DeafInv
  BY DEF CountedInv
<1>1. /\ e \in Connected /\ ~ Suppressed(c, m.ctr) /\ wire # <<>>
      /\ cb'[e].ctr = m.ctr /\ ~ cb'[e].discarded_event
      /\ \A f \in Events \ {e} : cb'[f] = cb[f] /\ got'[f] = got[f]
      /\ got'[e].run = m.run /\ got'[e].nb = m.nb /\ got'[e].ctr = m.ctr
      /\ odd' = odd \cup OddAccepted(c, m, g) /\ wire' = u /\ Connected' = Connected
      /\ svr' = svr
  BY <1>0, PushEffect DEF Receiving
<1>2. /\ e \in Events /\ IsStamp(m) /\ IsStamp(g) /\ c.ctr = g.ctr
      /\ c.discarded_event \in BOOLEAN /\ Before(g, m) /\ (c.discarded_event => ~ Copy(g, m))
  BY <1>1, HeadCounter
<1>3. Ordered(wire, svr)
  BY DEF CountedInv, CounterInv
<1>4. wire \in Seq(MessageType) /\ Len(wire) \in Nat \ {0}
  BY <1>0, <1>1, HeadFacts, DeafParts
<1>5. /\ u \in Seq(MessageType) /\ Ordered(u, svr)
      /\ \A f \in Connected : Follows(f, u, svr, cb[f], got[f])
  <2>1. /\ u \in Seq(MessageType)
        /\ \A s : Ordered(wire, s) => Ordered(u, s)
        /\ \A f, s, d, h : Follows(f, wire, s, d, h) => Follows(f, u, s, d, h)
    BY <1>1, <1>4, Shrunk
  <2> QED BY <1>3, <2>1 DEF CountedInv, CounterInv
<1>6. \A i \in 1 .. Len(u) : /\ IsStamp(u[i]) /\ i + 1 \in 1 .. Len(wire) /\ u[i] = wire[i + 1]
                             /\ u[i].ev = e => Before(m, u[i])
  BY <1>0, <1>1, <1>3, BehindHead
<1>7. Earlier(m, NextOf(svr, e)) /\ 1 \in 1 .. Len(wire)
  BY <1>3, <1>4 DEF Ordered
<1>8. ASSUME NEW i \in 1 .. Len(u), NEW j \in 1 .. Len(u), i < j, u[i].ev = e, u[j].ev = e
      PROVE  ~ Copy(m, u[i]) \/ ~ Copy(m, u[j])
  <2>1. /\ i + 1 \in 1 .. Len(wire) /\ j + 1 \in 1 .. Len(wire) /\ 1 < i + 1 /\ i + 1 < j + 1
        /\ u[i] = wire[i + 1] /\ u[j] = wire[j + 1]
    BY <1>6, <1>8
  <2>2. ~ (Copy(m, wire[i + 1]) /\ Copy(wire[i + 1], wire[j + 1]))
    BY <1>3, <1>7, <1>8, <2>1 DEF Ordered
  <2> QED BY <2>1, <2>2 DEF Copy
<1> HIDE DEF m, e, g, c, u
<1>9. ~ Copy(g, m)
  <2> SUFFICES ASSUME Copy(g, m) PROVE FALSE
    OBVIOUS
  <2>1. m.ctr = c.ctr /\ ~ c.discarded_event
    BY <1>2 DEF Copy, Before
  <2> QED BY <1>1, <1>2, <2>1, SuppressedCounter DEF IsStamp
<1>10. "twice" \notin OddAccepted(c, m, g) /\ "gap" \notin OddAccepted(c, m, g) /\ "same run" \notin OddAccepted(c, m, g)
  <2>1. ~ (m.run = g.run /\ m.nb = g.nb)
    BY <1>9 DEF Copy
  <2>2. ~ (m.run = g.run /\ m.nb > g.nb + 1 /\ g.ctr > 0 /\ ~ Reported(c, m.ctr))
    <3> SUFFICES ASSUME m.run = g.run, m.nb > g.nb + 1, g.ctr > 0 PROVE Reported(c, m.ctr)
      OBVIOUS
    <3>1. MissedEvent(c, m.ctr) = m.ctr - c.ctr
      BY <1>2, SuppressedCounter DEF IsStamp
    <3>2. m.ctr - g.ctr >= 2
      BY <1>2 DEF Before, IsStamp
    <3> QED BY <1>2, <3>1, <3>2 DEF Reported
  <2> QED BY <2>1, <2>2 DEF OddAccepted
<1>11. (CopyWithinRun /\ GapReported)'
  BY <1>1, <1>10 DEF CountedInv, CounterInv, CopyWithinRun, GapReported
<1>12. Follows(e, u, svr, cb'[e], got'[e])
  <2>1. \A x : /\ Copy(got'[e], x) <=> Copy(m, x)
               /\ Before(got'[e], x) <=> Before(m, x)
    BY <1>1 DEF Copy, Before
  <2>2. Earlier(got'[e], NextOf(svr, e))
    BY <1>7, <2>1 DEF Earlier
  <2> QED BY <1>1, <1>6, <1>8, <2>1, <2>2 DEF Follows
<1>13. \A f \in Connected : Follows(f, u, svr, cb'[f], got'[f])
  <2> TAKE f \in Connected
  <2>1. CASE f = e
    BY <1>12, <2>1
  <2>2. CASE f # e
    BY <1>1, <1>5, <2>2, ConnectedEvents
  <2> QED BY <2>1, <2>2
<1> QED BY <1>1, <1>5, <1>11, <1>13 DEF CounterInv

LEMMA RegisteredCounter ==
    ASSUME CountedInv, NEW e \in Events, svr' = Subscribed(svr, e), UNCHANGED <<cb, got, odd>>,
           wire' = wire \/ \E run : wire' = NotFrom(wire, run)
    PROVE  CounterInv'
<1>1. ServerOK(svr)
  BY DeafParts DEF CountedInv
<1>2. Advances(svr, svr')
  BY <1>1, SubscribedAdvances
<1>3. Connected' = Connected
  BY SameClients
<1> QED BY <1>2, <1>3, CounterKept

LEMMA ReconnectCounter ==
    ASSUME CountedInv, GetSubscriptionInfo \/ ReconnectToChannel \/ ReconnectToEvents \/ ReSubscribe
    PROVE  CounterInv'
<1>0. DeafInv /\ \A id \in Ids : Event(id) \in Events
  BY DeafParts DEF CountedInv
<1>1. CASE GetSubscriptionInfo
  <2>1. /\ svr' = Subscribed(svr, Event(op.id)) /\ op.pc = "info"
        /\ UNCHANGED <<cb, got, odd, wire>>
    BY <1>1 DEF GetSubscriptionInfo
  <2>2. Event(op.id) \in Events
    BY <1>0, <2>1 DEF DeafInv, PhaseInv
  <2> QED BY <2>1, <2>2, RegisteredCounter
<1>2. CASE ReconnectToChannel
  <2> DEFINE e == Min(Connected)
  <2>1. /\ e \in Connected /\ UNCHANGED <<cb, got, odd>>
        /\ \/ svr' = Subscribed(svr, e) /\ wire' \in {wire, NotFrom(wire, cb[e].endpoint)}
           \/ svr' = svr /\ wire' = wire
    BY <1>0, <1>2, ChannelEffect
  <2> HIDE DEF e
  <2>2. e \in Events
    BY <2>1, ConnectedEvents
  <2> QED BY <2>1, <2>2, RegisteredCounter, ClientCounter
<1>3. CASE ReconnectToEvents
  <2>1. /\ Connected' = Connected /\ UNCHANGED <<svr, wire, historyVars>>
        /\ \A e \in Events : cb'[e].ctr = cb[e].ctr /\ (cb'[e].discarded_event <=> cb[e].discarded_event)
    BY <1>0, <1>3, EventsEffect
  <2>2. Advances(svr, svr') /\ got' = got /\ odd' = odd /\ Connected \subseteq Events
    BY <2>1, SameAdvances, ConnectedEvents DEF historyVars
  <2> QED BY <2>1, <2>2, CounterKept
<1>4. CASE ReSubscribe
  <2> DEFINE e == Min(ka.todo)
  <2>1. /\ e \in Connected /\ UNCHANGED <<cb, got, odd, wire>>
        /\ svr' = Subscribed(svr, e) \/ svr' = svr
    BY <1>0, <1>4, ReSubscribeEffect
  <2> HIDE DEF e
  <2>2. e \in Events
    BY <2>1, ConnectedEvents
  <2> QED BY <2>1, <2>2, RegisteredCounter, ClientCounter
<1> QED BY <1>1, <1>2, <1>3, <1>4

LEMMA AgesCounter ==
    ASSUME CountedInv, (\E lost \in BOOLEAN : Tick(lost)) \/ ConfirmSubscription
    PROVE  CounterInv'
<1>0. DeafInv /\ ServerOK(svr)
  BY DeafParts DEF CountedInv
<1>1. /\ UNCHANGED <<cb, got, odd, wire>>
      /\ svr'.run = svr.run /\ svr'.nb = svr.nb /\ svr'.event_cptr = svr.event_cptr
  <2>1. ASSUME NEW lost \in BOOLEAN, Tick(lost)
        PROVE  /\ UNCHANGED <<cb, got, odd, wire>>
               /\ svr'.run = svr.run /\ svr'.nb = svr.nb /\ svr'.event_cptr = svr.event_cptr
    <3>1. svr' = Older(svr) /\ UNCHANGED <<cb, wire, historyVars>>
      BY <1>0, <2>1, TickEffect
    <3> QED BY <1>0, <3>1, OlderFacts DEF historyVars
  <2>2. CASE ConfirmSubscription
    <3>1. UNCHANGED <<cb, got, odd, wire>> /\ (svr' = svr \/ svr' = Confirmed(svr, Connected))
      BY <2>2 DEF ConfirmSubscription
    <3>2. Connected \in SUBSET Events
      BY ConnectedEvents
    <3> QED BY <1>0, <3>1, <3>2, ConfirmedFacts
  <2> QED BY <2>1, <2>2
<1>2. Advances(svr, svr') /\ Connected' = Connected
  BY <1>1, SameAdvances, SameClients
<1> QED BY <1>1, <1>2, CounterKept

LEMMA ReceiveCounter == ASSUME CountedInv, Receive PROVE CounterInv'
<1>1. CASE IgnoreEvent
  <2>1. /\ wire # <<>> /\ wire' = Tail(wire) /\ UNCHANGED <<svr, cb, got, odd>>
    BY <1>1 DEF IgnoreEvent, Receiving, consumerVars, historyVars
  <2>2. Advances(svr, svr') /\ Connected' = Connected
    BY <2>1, SameAdvances, SameClients
  <2> QED BY <2>1, <2>2, CounterKept
<1> QED BY <1>1, SuppressCounter, PushCounter DEF Receive

LEMMA CountedStep == ASSUME CountedInv, [Next]_vars PROVE CountedInv'
<1>1. DeafInv' /\ DeafInv
  BY DeafStep DEF CountedInv
<1>2. ASSUME \/ \E id \in Ids : SubscribeEvent(id)
             \/ SubscriptionFailed \/ ReadFirst \/ FireFirst
             \/ NotConnectedEvent \/ CheckHeartbeat \/ ReRead \/ ReFire \/ UNCHANGED vars
      PROVE  CounterInv'
  <2>1. UNCHANGED <<svr, wire, cb, got, odd>>
    BY <1>2 DEF SubscribeEvent, SubscriptionFailed, ReadFirst, FireFirst, NotConnectedEvent,
       CheckHeartbeat, ReRead, ReFire, vars, supplierVars, consumerVars, historyVars
  <2> QED BY <2>1, ClientCounter
<1>3. CounterInv'
  BY <1>2, Steps, ServerCounter, UnsubscribeCounter, ConnectCounter, ReceiveCounter, AgesCounter,
     ReconnectCounter
<1> QED BY <1>1, <1>3 DEF CountedInv

(* The counters of the events tell a second copy from another event of the  *)
(* same run of the server: no event is suppressed for a copy that it is     *)
(* not, and none reaches the callbacks twice (push_zmq_event).              *)
THEOREM EventCopies == Spec => []CopyWithinRun
<1>1. Init => CountedInv
  BY DeafInit, CounterInit DEF CountedInv
<1>2. CountedInv => CopyWithinRun
  BY DEF CountedInv, CounterInv
<1> QED BY <1>1, <1>2, CountedStep, PTL DEF Spec

(* A gap in the events of one run is reported to the callbacks before the   *)
(* next event (push_zmq_event, API_MissedEvents).                           *)
THEOREM EventGaps == Spec => []GapReported
<1>1. Init => CountedInv
  BY DeafInit, CounterInit DEF CountedInv
<1>2. CountedInv => GapReported
  BY DEF CountedInv, CounterInv
<1> QED BY <1>1, <1>2, CountedStep, PTL DEF Spec

-----------------------------------------------------------------------------
(* The values the callbacks have. *)

ValuesInv == CountedInv /\ ValueInv

LEMMA ValueInit == ASSUME Init PROVE ValueInv
<1> SUFFICES ASSUME NEW e \in Events PROVE Valued(e)
  BY DEF ValueInv
<1>1. svr.prev[e] = None
  BY DEF Init, SupplierInit, NewServer
<1>2. cb[e].ids = {}
  BY DEF Init, NoCallback
<1> QED BY <1>1, <1>2 DEF Valued, Fresh

(* A step that neither gives nor loses a value. *)
LEMMA GivenKept ==
    ASSUME NEW e, Given(e), svr'.prev[e] = svr.prev[e], scenario'.ids = scenario.ids,
           \A id \in cb'[e].ids : id \in cb[e].ids \/ Connects(id)',
           \A id \in cb'[e].ids : Connects(id) => Connects(id)',
           \A id \in cb'[e].ids : seen'[id] = seen[id],
           ka' = ka \/ (ka.pc # "fire" /\ ka'.pc # "fire"),
           op' = op \/ op'.pc # "fire"
    PROVE  Given(e)'
<1>1. Refiring(e)' <=> Refiring(e)
  BY DEF Refiring
<1>2. ka = ka' \/ ~ Refiring(e)
  BY DEF Refiring
<1>3. ~ Refiring(e) => \A id \in cb'[e].ids : ~ Connects(id)' => seen'[id] = svr'.prev[e]
  BY DEF Given
<1>4. Refiring(e) => ka'.da = svr'.prev[e]
  BY <1>2 DEF Given
<1>5. op'.pc = "fire" /\ (Event(op.id) = e)' => op'.da = svr'.prev[e]
  BY DEF Given, Event
<1> QED BY <1>1, <1>3, <1>4, <1>5 DEF Given

LEMMA Quiet ==
    ASSUME ValuesInv, UNCHANGED <<wire, lossy, got, seen>>, svr'.up => svr.up,
           svr'.prev = svr.prev, scenario'.ids = scenario.ids,
           \A e \in Events : cb'[e].ids \subseteq cb[e].ids,
           ka' = ka \/ (ka.pc # "fire" /\ ka'.pc # "fire"),
           op' = op \/ (op.pc \notin {"read", "fire"} /\ op'.pc # "fire")
    PROVE  ValueInv'
<1> SUFFICES ASSUME NEW e \in Events PROVE Valued(e)'
  BY DEF ValueInv
<1>1. Valued(e) /\ cb'[e].ids \subseteq cb[e].ids
  BY DEF ValuesInv, ValueInv
<1>3. \A id \in cb'[e].ids : Event(id)' = e
  BY <1>1 DEF Valued, Event
<1>4. Fresh(e)' => Fresh(e)
  BY DEF Fresh
<1>5. LastIsNow(e) => LastIsNow(e)'
  BY DEF LastIsNow
<1>6. AllCopies(e)' => AllCopies(e)
  BY DEF AllCopies
<1>7. (e \in Connected)' => e \in Connected
  BY <1>1 DEF Connected
<1>8. Given(e) => Given(e)'
  <2>1. \A id \in cb'[e].ids : Connects(id) => Connects(id)'
    BY DEF Connects
  <2> QED BY <1>1, <2>1, GivenKept
<1> QED BY <1>1, <1>3, <1>4, <1>5, <1>6, <1>7, <1>8 DEF Valued

(* The server: a value that was lost is nobody's concern.                   *)
LEMMA ServerValued ==
    ASSUME NEW e \in Events, Valued(e), UNCHANGED <<consumerVars, historyVars>>,
           scenario'.ids = scenario.ids,
           \/ ~ Fresh(e)'
           \/ LastIsNow(e)' /\ (e \in Connected => ~ AllCopies(e)')
           \/ /\ Fresh(e) /\ svr'.prev[e] = svr.prev[e] /\ (LastIsNow(e) => LastIsNow(e)')
              /\ AllCopies(e)' => AllCopies(e)
    PROVE  Valued(e)'
<1>1. cb' = cb /\ ka' = ka /\ op' = op /\ seen' = seen
  BY DEF consumerVars, historyVars
<1>2. \A id \in cb'[e].ids : Event(id)' = e
  BY <1>1 DEF Valued, Event
<1>3. (e \in Connected)' <=> e \in Connected
  BY <1>1 DEF Connected
<1>4. svr'.prev[e] = svr.prev[e] /\ Given(e) => Given(e)'
  <2>1. \A id : Connects(id)' <=> Connects(id)
    BY <1>1 DEF Connects
  <2> QED BY <1>1, <2>1, GivenKept
<1> QED BY <1>2, <1>3, <1>4 DEF Valued

LEMMA SameWire ==
    ASSUME NEW e, wire' = wire, got' = got, svr'.prev[e] = svr.prev[e]
    PROVE  (LastIsNow(e) => LastIsNow(e)') /\ (AllCopies(e)' => AllCopies(e))
BY DEF LastIsNow, AllCopies

(* Events u of the attribute e are appended to the queue. *)
LEMMA AppendedValues ==
    ASSUME NEW u \in Seq(MessageType), NEW e \in Events, \A i \in 1 .. Len(u) : u[i].ev = e,
           wire \in Seq(MessageType), wire' = wire \o u, got' = got,
           \A f \in Events \ {e} : svr'.prev[f] = svr.prev[f]
    PROVE  /\ \A f \in Events \ {e} :
                 (LastIsNow(f) => LastIsNow(f)') /\ (AllCopies(f)' => AllCopies(f))
           /\ Len(u) # 0 /\ (\A i \in 1 .. Len(u) : u[i].val = svr'.prev[e]) => LastIsNow(e)'
           /\ AllCopies(e)' /\ Len(u) # 0 => Copy(got[e], u[1])
<1> DEFINE n == Len(wire)
<1>1. n \in Nat /\ Len(u) \in Nat /\ Len(wire') = n + Len(u)
  OBVIOUS
<1>2. /\ \A i \in 1 .. n : wire'[i] = wire[i] /\ i \in 1 .. Len(wire')
      /\ \A i \in 1 .. Len(u) : wire'[n + i] = u[i] /\ n + i \in 1 .. Len(wire')
  BY <1>1
<1>3. \A i \in 1 .. Len(wire') : i \in 1 .. n \/ (i - n \in 1 .. Len(u) /\ i = n + (i - n))
  BY <1>1
<1>4. \A i \in 1 .. Len(wire') : i \notin 1 .. n => wire'[i] = u[i - n] /\ i - n \in 1 .. Len(u)
  BY <1>1, <1>2, <1>3
<1> HIDE DEF n
<1>5. ASSUME NEW f \in Events \ {e} PROVE LastIsNow(f) => LastIsNow(f)'
  <2> SUFFICES ASSUME LastIsNow(f), NEW i \in 1 .. Len(wire'), wire'[i].ev = f,
                      \A j \in 1 .. Len(wire') : i < j => wire'[j].ev # f
               PROVE  wire'[i].val = svr'.prev[f]
    BY DEF LastIsNow
  <2>0. i \in 1 .. n
    <3>1. SUFFICES ASSUME i \notin 1 .. n PROVE FALSE
      OBVIOUS
    <3>2. wire'[i] = u[i - n] /\ i - n \in 1 .. Len(u)
      BY <1>4, <3>1
    <3>3. wire'[i].ev = e
      BY <3>2
    <3> QED BY <3>3
  <2>1. i \in 1 .. n /\ wire[i].ev = f /\ wire'[i] = wire[i]
    BY <1>2, <2>0
  <2>2. \A j \in 1 .. n : i < j => wire[j].ev # f
    BY <1>2
  <2> QED BY <2>1, <2>2 DEF LastIsNow, n
<1>6. ASSUME NEW f \in Events \ {e} PROVE AllCopies(f)' => AllCopies(f)
  BY <1>2 DEF AllCopies, n
<1>7. ASSUME Len(u) # 0, \A i \in 1 .. Len(u) : u[i].val = svr'.prev[e] PROVE LastIsNow(e)'
  <2> SUFFICES ASSUME NEW i \in 1 .. Len(wire'),
                      \A j \in 1 .. Len(wire') : i < j => wire'[j].ev # e
               PROVE  wire'[i].val = svr'.prev[e]
    BY DEF LastIsNow
  <2>1. Len(u) \in 1 .. Len(u) /\ Len(wire') \in 1 .. Len(wire') /\ n + Len(u) = Len(wire')
    BY <1>1, <1>7
  <2>2. wire'[Len(wire')].ev = e
    BY <1>2, <2>1
  <2>3. i = Len(wire')
    <3>1. ~ (i < Len(wire'))
      BY <2>1, <2>2
    <3>2. PICK k \in Nat : k = Len(wire')
      BY <1>1
    <3>3. i \in 1 .. k /\ ~ (i < k)
      BY <3>1, <3>2
    <3>4. i = k
      BY <3>3
    <3> QED BY <3>2, <3>4
  <2> QED BY <1>2, <1>7, <2>1, <2>3
<1>8. ASSUME AllCopies(e)', Len(u) # 0 PROVE Copy(got[e], u[1])
  <2>1. 1 \in 1 .. Len(u)
    BY <1>1, <1>8
  <2>2. wire'[n + 1] = u[1] /\ n + 1 \in 1 .. Len(wire') /\ u[1].ev = e
    BY <1>2, <2>1
  <2> QED BY <1>8, <2>2 DEF AllCopies
<1> QED BY <1>5, <1>6, <1>7, <1>8

LEMMA PollValued ==
    ASSUME ValuesInv, NEW e \in Events, Poll(e), UNCHANGED <<consumerVars, historyVars>>
    PROVE  ValueInv'
<1>10. DeafInv
  BY DEF ValuesInv, CountedInv
<1>11. /\ wire \in Seq(MessageType) /\ Len(wire) <= Hwm /\ ServerOK(svr) /\ val \in [Events -> Nat]
  BY <1>10, DeafParts
<1>0. /\ DeafInv /\ wire \in Seq(MessageType) /\ Len(wire) <= Hwm /\ ServerOK(svr)
      /\ val \in [Events -> Nat] /\ svr \in ServerType /\ Len(wire) \in Nat
  BY <1>10, <1>11 DEF ServerOK
<1>1. /\ got' = got /\ scenario' = scenario /\ svr'.up = svr.up
      /\ QuietPoll(e) \/ ExpiredPoll(e) \/ PushingPoll(e)
  BY <1>0, PollEffect DEF PollServer, historyVars
<1>2. CASE QuietPoll(e)
  <2>1. UNCHANGED <<wire, lossy>> /\ svr'.prev = svr.prev
    BY <1>2 DEF QuietPoll
  <2> QED BY <1>1, <2>1, Quiet DEF consumerVars, historyVars
<1>3. CASE ExpiredPoll(e) \/ PushingPoll(e)
  <2>0. \A f \in Events \ {e} : svr'.prev[f] = svr.prev[f]
    BY <1>3 DEF ExpiredPoll, PushingPoll, PushedFrom
  <2>1. /\ e \in lossy' \/ (LastIsNow(e)' /\ (e \in Connected => ~ AllCopies(e)'))
        /\ \A f \in Events \ {e} : /\ f \notin lossy' => f \notin lossy
                                   /\ LastIsNow(f) => LastIsNow(f)'
                                   /\ AllCopies(f)' => AllCopies(f)
    <3>1. CASE ExpiredPoll(e)
      <4>1. lossy' = lossy \cup {e} /\ wire' = wire
        BY <3>1 DEF ExpiredPoll
      <4> QED BY <1>1, <2>0, <4>1, SameWire
    <3>2. CASE PushingPoll(e)
      <4> DEFINE u == Copies(svr, e)
      <4>1. /\ wire' = wire \o u /\ lossy' = (IF Len(u) = 0 THEN lossy \cup {e} ELSE lossy)
            /\ svr'.prev[e] = val[e]
        BY <3>2 DEF PushingPoll, PushedFrom
      <4>2. u \in Seq(MessageType) /\ Len(u) \in 0 .. 2
            /\ \A i \in 1 .. Len(u) : u[i] = Published(svr, e, val[e], i = Len(u))
        BY <1>0, CopiesFacts
      <4> HIDE DEF u
      <4>3. \A i \in 1 .. Len(u) : u[i].ev = e /\ u[i].val = val[e]
                                   /\ u[i].run = svr.run /\ u[i].nb = svr.nb[e] + 1
        <5> SUFFICES ASSUME NEW i \in 1 .. Len(u)
                     PROVE  /\ u[i].ev = e /\ u[i].val = val[e]
                            /\ u[i].run = svr.run /\ u[i].nb = svr.nb[e] + 1
          OBVIOUS
        <5>1. PICK last \in BOOLEAN : u[i] = Published(svr, e, val[e], last)
          BY <4>2
        <5> QED BY <5>1, PublishedFields
      <4>4. /\ \A f \in Events \ {e} :
                  (LastIsNow(f) => LastIsNow(f)') /\ (AllCopies(f)' => AllCopies(f))
            /\ Len(u) # 0 => LastIsNow(e)'
            /\ AllCopies(e)' /\ Len(u) # 0 => Copy(got[e], u[1])
        BY <1>0, <1>1, <2>0, <4>1, <4>2, <4>3, AppendedValues
      <4>5. ASSUME e \in Connected, AllCopies(e)', Len(u) # 0 PROVE FALSE
        <5>1. Copy(got[e], u[1]) /\ 1 \in 1 .. Len(u)
          BY <4>2, <4>4, <4>5
        <5>2. Copy(got[e], NextOf(svr, e))
          BY <4>3, <5>1 DEF Copy, NextOf
        <5>3. Earlier(got[e], NextOf(svr, e))
          BY <4>5 DEF ValuesInv, CountedInv, CounterInv, Follows
        <5> QED BY <5>2, <5>3 DEF Earlier
      <4>6. Len(u) = 0 => e \in lossy'
        BY <4>1
      <4>7. \A f \in Events \ {e} : f \notin lossy' => f \notin lossy
        BY <4>1
      <4> QED BY <4>4, <4>5, <4>6, <4>7
    <3> QED BY <1>3, <3>1, <3>2
  <2> SUFFICES ASSUME NEW f \in Events PROVE Valued(f)'
    BY DEF ValueInv
  <2>2. Valued(f)
    BY DEF ValuesInv, ValueInv
  <2>3. CASE f = e
    BY <1>1, <2>1, <2>2, <2>3, ServerValued DEF Fresh
  <2>4. CASE f # e
    <3>1. (Fresh(f)' => Fresh(f)) /\ svr'.prev[f] = svr.prev[f]
      BY <1>1, <2>0, <2>1, <2>4 DEF Fresh
    <3> QED BY <1>1, <2>1, <2>2, <2>4, <3>1, ServerValued
  <2> QED BY <2>3, <2>4
<1> QED BY <1>1, <1>2, <1>3

LEMMA ServerValues == ASSUME ValuesInv, ServerStep PROVE ValueInv'
<1>0. /\ DeafInv /\ ServerOK(svr) /\ svr \in ServerType
      /\ svr.polled \subseteq Events /\ svr.run \in Nat /\ scenario \in Scenario
  BY DeafParts DEF ValuesInv, CountedInv, ServerOK, ServerType
<1>1. UNCHANGED <<consumerVars, historyVars>> /\ got' = got /\ seen' = seen /\ cb' = cb
      /\ op' = op /\ ka' = ka
  BY DEF ServerStep, consumerVars, historyVars
<1>3. ASSUME NEW e \in Events, Poll(e) PROVE ValueInv'
  BY <1>1, <1>3, PollValued
<1>4. ASSUME NEW e \in Events, Change(e) PROVE ValueInv'
  <2>1. UNCHANGED <<svr, wire, lossy>>
    BY <1>4 DEF Change
  <2>2. scenario'.ids = scenario.ids
    BY <1>0, <1>4, ScenarioStep DEF Change
  <2> QED BY <1>1, <2>1, <2>2, Quiet
<1>5. ASSUME NEW e \in Events, StartPolling(e) \/ StopPolling(e) \/ StoreData PROVE ValueInv'
  <2>1. UNCHANGED <<wire, lossy>> /\ svr'.up = svr.up /\ svr'.prev = svr.prev
    BY <1>0, <1>5, PollingFacts DEF SameEvents
  <2>2. scenario'.ids = scenario.ids
    BY <1>0, <1>5, ScenarioStep DEF StartPolling, StopPolling, StoreData
  <2> QED BY <1>1, <2>1, <2>2, Quiet
<1>6. ASSUME Kill \/ Start PROVE ValueInv'
  <2>1. scenario' = scenario
    BY <1>6 DEF Kill, Start
  <2> SUFFICES ASSUME NEW f \in Events PROVE Valued(f)'
    BY DEF ValueInv
  <2>2. Valued(f)
    BY DEF ValuesInv, ValueInv
  <2>3. ~ Fresh(f)'
    <3>1. CASE Kill
      <4>1. ~ svr'.up
        BY <1>0, <3>1 DEF Kill, ServerType
      <4> QED BY <4>1 DEF Fresh
    <3>2. CASE Start
      <4>1. PICK polled \in FirstPolled : svr' = NewServer(svr.run + 1, polled)
        BY <3>2 DEF Start
      <4>2. svr'.prev[f] = None
        BY <4>1 DEF NewServer
      <4> QED BY <4>2 DEF Fresh
    <3> QED BY <1>6, <3>1, <3>2
  <2> QED BY <1>1, <2>1, <2>2, <2>3, ServerValued
<1>7. Events # {}
  BY SupplierAssumption
<1> QED BY <1>3, <1>4, <1>5, <1>6, <1>7 DEF ServerStep, SupplierStep

(* The steps of the client that are quiet. *)
LEMMA QuietSteps ==
    ASSUME ValuesInv,
           \/ \E id \in Ids : SubscribeEvent(id)
           \/ \E id \in Ids : UnsubscribeEvent(id)
           \/ GetSubscriptionInfo \/ SubscriptionFailed
           \/ \E lost \in BOOLEAN : Tick(lost)
           \/ NotConnectedEvent \/ ConfirmSubscription \/ CheckHeartbeat
           \/ ReconnectToEvents \/ ReSubscribe \/ UNCHANGED vars
    PROVE  ValueInv'
<1>0. DeafInv /\ op \in OpType /\ ka \in KaType /\ ServerOK(svr)
  BY DeafParts DEF ValuesInv, CountedInv
<1>1. CASE \E id \in Ids : SubscribeEvent(id)
  <2>1. /\ UNCHANGED <<scenario, svr, val, wire, lossy, got, seen, cb, ka>>
        /\ op = NoOp /\ \E id \in Ids : op' = [NoOp EXCEPT !.pc = "info", !.id = id]
    BY <1>1 DEF SubscribeEvent, MapsFree, supplierVars, historyVars
  <2>2. op.pc = "idle" /\ op'.pc = "info"
    BY <2>1 DEF NoOp
  <2> QED BY <2>1, <2>2, Quiet
<1>2. CASE \E id \in Ids : UnsubscribeEvent(id)
  <2>1. PICK id \in Ids : UnsubscribeEvent(id)
    BY <1>2
  <2>2. /\ UNCHANGED <<scenario, svr, val, wire, lossy, historyVars, op, ka>>
        /\ \/ cb' = cb
           \/ /\ cb'[Event(id)].ids = cb[Event(id)].ids \ {id}
              /\ \A f \in Events \ {Event(id)} : cb'[f] = cb[f]
    BY <1>0, <2>1, UnsubscribeEffect
  <2>3. \A f \in Events : cb'[f].ids \subseteq cb[f].ids
    BY <2>2
  <2>4. seen' = seen /\ got' = got
    BY <2>2 DEF historyVars
  <2> QED BY <2>2, <2>3, <2>4, Quiet
<1>3. CASE GetSubscriptionInfo
  <2>1. /\ UNCHANGED <<scenario, val, wire, lossy, got, seen, cb, ka>>
        /\ svr' = Subscribed(svr, Event(op.id)) /\ op.pc = "info"
        /\ op' = [op EXCEPT !.pc = "connect", !.run = svr.run]
    BY <1>3 DEF GetSubscriptionInfo
  <2>2. Event(op.id) \in Events
    <3>1. op.id \in Ids
      BY <1>0, <2>1 DEF DeafInv, PhaseInv
    <3> QED BY <1>0, <3>1, DeafParts
  <2>3. svr'.up = svr.up /\ svr'.prev = svr.prev
    BY <1>0, <2>1, <2>2, SubscribedFacts DEF SubscribedTo
  <2>4. op'.pc = "connect"
    BY <1>0, <2>1 DEF OpType
  <2> QED BY <2>1, <2>3, <2>4, Quiet
<1>4. CASE SubscriptionFailed
  <2>1. /\ UNCHANGED <<scenario, svr, val, wire, lossy, got, seen, cb, ka>>
        /\ op.pc = "info" /\ op'.pc = "idle"
    BY <1>4 DEF SubscriptionFailed, NoOp, supplierVars, historyVars
  <2> QED BY <2>1, Quiet
<1>5. CASE \E lost \in BOOLEAN : Tick(lost)
  <2>1. PICK lost \in BOOLEAN : Tick(lost)
    BY <1>5
  <2>2. /\ ka = Asleep /\ scenario'.ids = scenario.ids /\ svr' = Older(svr) /\ ka'.pc = "pending"
        /\ UNCHANGED <<val, wire, lossy, cb, op, historyVars>>
    BY <1>0, <2>1, TickEffect
  <2>3. svr'.up = svr.up /\ svr'.prev = svr.prev
    BY <1>0, <2>2, OlderFacts
  <2> QED BY <2>2, <2>3, Quiet DEF Asleep, historyVars
<1>6. CASE NotConnectedEvent
  <2>4. /\ UNCHANGED <<scenario, svr, val, wire, lossy, got, seen, cb>>
        /\ ka.pc = "pending" /\ op = NoOp
    BY <1>6 DEF NotConnectedEvent, supplierVars, historyVars
  <2>1. /\ op' = op \/ \E id \in ka.todo : op' = [NoOp EXCEPT !.pc = "info", !.id = id, !.by_ka = TRUE]
        /\ ka' = [ka EXCEPT !.pc = "channel"] \/ \E id \in ka.todo : ka' = [ka EXCEPT !.todo = @ \ {id}]
    BY <1>6 DEF NotConnectedEvent
  <2>5. op.pc = "idle"
    BY <2>4 DEF NoOp
  <2>6. ASSUME NEW id, op' = [NoOp EXCEPT !.pc = "info", !.id = id, !.by_ka = TRUE]
        PROVE  op'.pc = "info"
    BY <2>6 DEF NoOp
  <2>7. op'.pc = "idle" \/ op'.pc = "info"
    <3>1. CASE op' = op
      BY <2>5, <3>1
    <3>2. CASE op' # op
      BY <2>1, <2>6, <3>2
    <3> QED BY <3>1, <3>2
  <2>2. op.pc = "idle" /\ op'.pc \in {"idle", "info"}
    BY <2>5, <2>7
  <2>3. ka'.pc \in {"channel", "pending"}
    BY <1>0, <2>1, <2>4 DEF KaType
  <2> QED BY <2>2, <2>3, <2>4, Quiet
<1>7. CASE ConfirmSubscription
  <2>1. /\ UNCHANGED <<scenario, val, wire, lossy, got, seen, cb, op>>
        /\ ka.pc = "channel" /\ ka' = [ka EXCEPT !.pc = "heartbeat"]
        /\ svr' = svr \/ svr' = Confirmed(svr, Connected)
    BY <1>7 DEF ConfirmSubscription
  <2>2. Connected \in SUBSET Events
    BY ConnectedEvents
  <2>3. svr'.up = svr.up /\ svr'.prev = svr.prev
    BY <1>0, <2>1, <2>2, ConfirmedFacts
  <2>4. ka'.pc = "heartbeat"
    BY <1>0, <2>1 DEF KaType
  <2> QED BY <2>1, <2>3, <2>4, Quiet
<1>8. CASE CheckHeartbeat
  <2>1. /\ ka.pc = "heartbeat" /\ (ka' = Asleep \/ ka'.pc = "reconnect")
        /\ UNCHANGED <<scenario, supplierVars, cb, op, historyVars>>
    BY <1>0, <1>8, HeartbeatEffect
  <2>2. UNCHANGED <<svr, val, wire, lossy, got, seen>>
    BY <2>1 DEF supplierVars, historyVars
  <2>3. ka'.pc # "fire" /\ ka.pc # "fire"
    BY <2>1 DEF Asleep
  <2> QED BY <2>1, <2>2, <2>3, Quiet
<1>9. CASE ReconnectToEvents
  <2>1. /\ ka.pc = "events" /\ ka'.pc = "subscribe"
        /\ \A e \in Events : cb'[e].ids = cb[e].ids
        /\ UNCHANGED <<scenario, val, svr, wire, lossy, op, historyVars>>
    BY <1>0, <1>9, EventsEffect
  <2> QED BY <2>1, Quiet DEF historyVars
<1>10. CASE ReSubscribe
  <2> DEFINE e == Min(ka.todo)
  <2>1. /\ ka.pc = "subscribe" /\ e \in ka.todo /\ ka.todo \subseteq Connected
        /\ \/ svr' = Subscribed(svr, e) /\ ka'.pc = "read"
           \/ svr' = svr /\ ka' = NextEvent(ka)
        /\ UNCHANGED <<scenario, val, wire, lossy, cb, op, seen, got>>
    BY <1>0, <1>10, ReSubscribeEffect
  <2> HIDE DEF e
  <2>2. e \in Events
    BY <2>1, ConnectedEvents
  <2>3. svr'.up = svr.up /\ svr'.prev = svr.prev
    BY <1>0, <2>1, <2>2, SubscribedFacts DEF SubscribedTo
  <2>4. ka'.pc \in {"read", "asleep", "subscribe"}
    BY <1>0, <2>1, UnsubscribedNext DEF Resubscribing
  <2> QED BY <2>1, <2>3, <2>4, Quiet
<1>11. CASE UNCHANGED vars
  <2>1. UNCHANGED <<scenario, svr, val, wire, lossy, got, seen, cb, op, ka>>
    BY <1>11 DEF vars, supplierVars, consumerVars, historyVars
  <2> QED BY <2>1, Quiet
<1> QED BY <1>1, <1>2, <1>3, <1>4, <1>5, <1>6, <1>7, <1>8, <1>9, <1>10, <1>11

LEMMA ConnectValues == ASSUME ValuesInv, ConnectEvent PROVE ValueInv'
<1>0. DeafInv /\ cb \in [Events -> CallbackType] /\ wire \in Seq(MessageType)
  BY DeafParts DEF ValuesInv, CountedInv
<1> DEFINE e == Event(op.id)
<1>1. /\ op.id \in Ids /\ e \in Events
      /\ UNCHANGED <<scenario, val, svr, wire, lossy, ka, seen>>
      /\ op'.pc = "read" /\ op'.id = op.id /\ op.pc = "connect"
      /\ cb'[e].ids = cb[e].ids \cup {op.id}
      /\ got'[e] = IF e \notin Connected THEN NoEvent ELSE got[e]
      /\ \A f \in Events \ {e} : cb'[f] = cb[f] /\ got'[f] = got[f]
      /\ Connected' = Connected \cup {e}
  BY <1>0, ConnectEffect
<1>2. ka.pc \in {"asleep", "pending", "channel"}
  BY <1>0, <1>1 DEF DeafInv, PhaseInv
<1>3. \A id : Connects(id)' <=> id = op.id
  BY <1>1 DEF Connects
<1> SUFFICES ASSUME NEW f \in Events PROVE Valued(f)'
  BY DEF ValueInv
<1>4. Valued(f)
  BY DEF ValuesInv, ValueInv
<1>5. \A id \in cb'[f].ids : id \in cb[f].ids \/ (id = op.id /\ f = e)
  BY <1>1
<1>6. \A id \in cb'[f].ids : Event(id)' = f
  BY <1>1, <1>4, <1>5 DEF Valued, Event
<1>7. (Fresh(f)' => Fresh(f)) /\ (LastIsNow(f) => LastIsNow(f)')
  BY <1>1 DEF Fresh, LastIsNow
<1>8. Given(f) => Given(f)'
  <2>1. \A id : ~ Connects(id)
    BY <1>1 DEF Connects
  <2> QED BY <1>1, <1>3, <1>5, <2>1, GivenKept
<1>9. CASE f \in Connected
  <2>1. got'[f] = got[f]
    BY <1>1, <1>9
  <2>2. AllCopies(f)' => AllCopies(f)
    BY <1>1, <2>1 DEF AllCopies
  <2> QED BY <1>4, <1>6, <1>7, <1>8, <1>9, <2>2 DEF Valued
<1>10. CASE f \notin Connected
  <2>1. cb[f].ids = {}
    BY <1>10 DEF Connected
  <2>2. \A id \in cb'[f].ids : Connects(id)'
    BY <1>3, <1>5, <2>1
  <2>3. ~ Refiring(f)' /\ op'.pc # "fire"
    BY <1>1, <1>2 DEF Refiring
  <2>4. Given(f)'
    BY <2>2, <2>3 DEF Given
  <2> QED BY <1>4, <1>6, <1>7, <2>4 DEF Valued
<1> QED BY <1>9, <1>10

(* A read: a value that is not the one detected last makes e lossy, and one *)
(* that is makes up for what was lost.                                      *)
LEMMA ReadValues ==
    ASSUME DeafInv, NEW e, NEW v, UNCHANGED <<wire, svr>>, NEW f, Fresh(f)',
           \/ v # svr.prev[e] /\ lossy' = lossy \cup {e}
           \/ v = svr.prev[e] /\ lossy' = lossy
           \/ v = svr.prev[e] /\ lossy' = lossy \ {e} /\ \A m \in ToSet(wire) : m.ev # e
    PROVE  /\ f = e => v = svr.prev[e]
           /\ Fresh(f) \/ (f = e /\ \A i \in 1 .. Len(wire) : wire[i].ev # e)
<1>1. wire \in Seq(MessageType)
  BY DeafParts
<1>2. f \notin lossy'
  BY DEF Fresh
<1>3. CASE f \in lossy
  <2>1. f = e /\ v = svr.prev[e] /\ \A m \in ToSet(wire) : m.ev # e
    BY <1>2, <1>3
  <2>2. \A i \in 1 .. Len(wire) : wire[i] \in ToSet(wire)
    BY <1>1 DEF ToSet
  <2> QED BY <2>1, <2>2
<1>4. CASE f \notin lossy
  BY <1>2, <1>4 DEF Fresh
<1> QED BY <1>3, <1>4

LEMMA ReadFirstValues == ASSUME ValuesInv, ReadFirst PROVE ValueInv'
<1>0. DeafInv
  BY DEF ValuesInv, CountedInv
<1> DEFINE e == Event(op.id)
<1>1. /\ op.pc = "read" /\ UNCHANGED <<scenario, svr, wire, cb, ka, seen, got>>
      /\ op'.pc = "fire" /\ op'.id = op.id /\ ka.pc \in {"asleep", "pending", "channel"}
      /\ svr.up => lossy' = AfterRead(e, op'.da, cb[e].ids = {op.id})
  BY <1>0, ReadFirstEffect DEF historyVars
<1>2. svr.up => \/ op'.da # svr.prev[e] /\ lossy' = lossy \cup {e}
                \/ op'.da = svr.prev[e] /\ lossy' = lossy
                \/ /\ op'.da = svr.prev[e] /\ lossy' = lossy \ {e} /\ cb[e].ids = {op.id}
                   /\ \A m \in ToSet(wire) : m.ev # e
  BY <1>1 DEF AfterRead
<1>5. Event(op.id)' = e
  BY <1>1 DEF Event
<1> HIDE DEF e
<1>4. (\A id : Connects(id)' <=> Connects(id)) /\ Connects(op.id)'
  BY <1>1 DEF Connects
<1> SUFFICES ASSUME NEW f \in Events PROVE Valued(f)'
  BY DEF ValueInv
<1>6. Valued(f)
  BY DEF ValuesInv, ValueInv
<1>7. \A id \in cb'[f].ids : Event(id)' = f
  BY <1>1, <1>6 DEF Valued, Event
<1>8. (LastIsNow(f) => LastIsNow(f)') /\ (AllCopies(f)' => AllCopies(f))
      /\ ((f \in Connected)' <=> f \in Connected)
  BY <1>1 DEF LastIsNow, AllCopies, Connected
<1>9. ~ Refiring(f)' /\ ~ Refiring(f)
  BY <1>1 DEF Refiring
<1>11. ASSUME Fresh(f)' PROVE LastIsNow(f)' /\ ((f \in Connected)' /\ AllCopies(f)' => Given(f)')
  <2>0. svr.up
    BY <1>1, <1>11 DEF Fresh
  <2>1. /\ f = e => op'.da = svr.prev[e]
        /\ Fresh(f) \/ (f = e /\ \A i \in 1 .. Len(wire) : wire[i].ev # e)
    <3>1. PICK v, d : v = op'.da /\ d = e
      OBVIOUS
    <3>2. \/ v # svr.prev[d] /\ lossy' = lossy \cup {d}
          \/ v = svr.prev[d] /\ lossy' = lossy
          \/ v = svr.prev[d] /\ lossy' = lossy \ {d} /\ \A m \in ToSet(wire) : m.ev # d
      BY <1>2, <2>0, <3>1
    <3>3. UNCHANGED <<wire, svr>>
      BY <1>1
    <3>4. /\ f = d => v = svr.prev[d]
          /\ Fresh(f) \/ (f = d /\ \A i \in 1 .. Len(wire) : wire[i].ev # d)
      BY <1>0, <1>11, <3>2, <3>3, ReadValues
    <3> QED BY <3>1, <3>4
  <2>2. CASE Fresh(f)
    <3>1. Given(f) => Given(f)'
      <4>1. Given(f) => \A id \in cb'[f].ids : ~ Connects(id)' => seen'[id] = svr'.prev[f]
        BY <1>1, <1>4, <1>9 DEF Given
      <4> QED BY <1>1, <1>5, <1>9, <2>1, <4>1 DEF Given
    <3> QED BY <1>6, <1>8, <2>2, <3>1 DEF Valued
  <2>3. CASE ~ Fresh(f)
    <3>1. f = e /\ \A i \in 1 .. Len(wire) : wire[i].ev # e
      BY <2>1, <2>3
    <3>2. LastIsNow(f)'
      BY <1>1, <3>1 DEF LastIsNow
    <3>3. f \in lossy /\ f \notin lossy'
      BY <1>1, <1>11, <2>3 DEF Fresh
    <3>4. cb[e].ids = {op.id}
      BY <1>2, <2>0, <3>3
    <3>5. \A id \in cb'[f].ids : Connects(id)'
      BY <1>1, <1>4, <3>1, <3>4
    <3> QED BY <1>1, <1>5, <1>9, <2>1, <3>2, <3>5 DEF Given
  <2> QED BY <2>2, <2>3
<1> QED BY <1>7, <1>11 DEF Valued

LEMMA FireFirstValues == ASSUME ValuesInv, FireFirst PROVE ValueInv'
<1>0. DeafInv /\ op \in OpType /\ seen \in [Ids -> Nat \cup {None}] /\ cb \in [Events -> CallbackType]
  BY DeafParts DEF ValuesInv, CountedInv
<1>1. /\ op.pc = "fire" /\ UNCHANGED <<scenario, val, svr, lossy, wire, cb, ka, got>> /\ op' = NoOp
      /\ seen' = [seen EXCEPT ![op.id] = IF op.da = None THEN @ ELSE op.da]
  BY DEF FireFirst, supplierVars
<1>2. /\ ka.pc \in {"asleep", "pending", "channel"} /\ op.id \in Ids /\ op'.pc = "idle"
  BY <1>0, <1>1 DEF DeafInv, PhaseInv, NoOp
<1>3. /\ seen'[op.id] = (IF op.da = None THEN seen[op.id] ELSE op.da)
      /\ \A id : id # op.id /\ id \in Ids => seen'[id] = seen[id]
  BY <1>0, <1>1, <1>2
<1> SUFFICES ASSUME NEW f \in Events PROVE Valued(f)'
  BY DEF ValueInv
<1>4. Valued(f) /\ cb[f].ids \subseteq Ids
  BY <1>0 DEF ValuesInv, ValueInv, CallbackType
<1>5. \A id \in cb'[f].ids : Event(id)' = f
  BY <1>1, <1>4 DEF Valued, Event
<1>6. /\ LastIsNow(f) => LastIsNow(f)'
      /\ AllCopies(f)' => AllCopies(f)
      /\ (f \in Connected)' <=> f \in Connected
      /\ Fresh(f)' => Fresh(f)
  BY <1>1 DEF LastIsNow, AllCopies, Connected, Fresh
<1>7. ~ Refiring(f)' /\ ~ Refiring(f)
  BY <1>1, <1>2 DEF Refiring
<1>8. ASSUME Fresh(f), Given(f) PROVE Given(f)'
  <2>0. svr.prev[f] # None
    BY <1>8 DEF Fresh
  <2>1. ASSUME NEW id \in cb[f].ids PROVE seen'[id] = svr.prev[f]
    <3>1. CASE id = op.id
      <4>1. Event(op.id) = f
        BY <1>4, <2>1, <3>1 DEF Valued
      <4>2. op.da = svr.prev[f]
        BY <1>1, <1>8, <4>1 DEF Given
      <4> QED BY <1>3, <2>0, <3>1, <4>2
    <3>2. CASE id # op.id
      <4>1. seen[id] = svr.prev[f]
        BY <1>7, <1>8, <2>1, <3>2 DEF Given, Connects
      <4> QED BY <1>3, <1>4, <2>1, <3>2, <4>1
    <3> QED BY <3>1, <3>2
  <2> QED BY <1>1, <1>2, <1>7, <2>1 DEF Given
<1> QED BY <1>4, <1>5, <1>6, <1>8 DEF Valued

LEMMA ReReadValues == ASSUME ValuesInv, ReRead PROVE ValueInv'
<1>0. DeafInv
  BY DEF ValuesInv, CountedInv
<1> DEFINE e == Min(ka.todo)
<1>1. /\ ka.pc = "read" /\ op = NoOp
      /\ ka'.pc = "fire" /\ ka'.todo = ka.todo
      /\ svr.up => lossy' = AfterRead(e, ka'.da, TRUE)
      /\ UNCHANGED <<scenario, val, svr, wire, cb, op, historyVars>>
  BY <1>0, ReReadEffect
<1>2. seen' = seen /\ got' = got
  BY <1>1 DEF historyVars
<1>3. \A f : ~ Refiring(f) /\ (Refiring(f)' <=> f = e)
  BY <1>1 DEF Refiring
<1> HIDE DEF e
<1>4. op'.pc = "idle" /\ op.pc = "idle"
  BY <1>1 DEF NoOp
<1> SUFFICES ASSUME NEW f \in Events PROVE Valued(f)'
  BY DEF ValueInv
<1>5. Valued(f)
  BY DEF ValuesInv, ValueInv
<1>6. (\A id \in cb'[f].ids : Event(id)' = f)
  BY <1>1, <1>5 DEF Valued, Event
<1>7. /\ LastIsNow(f) => LastIsNow(f)'
      /\ AllCopies(f)' => AllCopies(f)
      /\ (f \in Connected)' <=> f \in Connected
  BY <1>1, <1>2 DEF LastIsNow, AllCopies, Connected
<1>a. svr.up => \/ ka'.da # svr.prev[e] /\ lossy' = lossy \cup {e}
                \/ ka'.da = svr.prev[e] /\ lossy' = lossy
                \/ /\ ka'.da = svr.prev[e] /\ lossy' = lossy \ {e}
                   /\ \A m \in ToSet(wire) : m.ev # e
  BY <1>1 DEF AfterRead
<1>b. Fresh(f)' => /\ f = e => ka'.da = svr.prev[e]
                   /\ Fresh(f) \/ (f = e /\ \A i \in 1 .. Len(wire) : wire[i].ev # e)
  <2> SUFFICES ASSUME Fresh(f)'
               PROVE  /\ f = e => ka'.da = svr.prev[e]
                      /\ Fresh(f) \/ (f = e /\ \A i \in 1 .. Len(wire) : wire[i].ev # e)
    OBVIOUS
  <2>1. svr.up
    BY <1>1 DEF Fresh
  <2>2. PICK v, d : v = ka'.da /\ d = e
    OBVIOUS
  <2>3. \/ v # svr.prev[d] /\ lossy' = lossy \cup {d}
        \/ v = svr.prev[d] /\ lossy' = lossy
        \/ v = svr.prev[d] /\ lossy' = lossy \ {d} /\ \A m \in ToSet(wire) : m.ev # d
    BY <1>a, <2>1, <2>2
  <2>4. UNCHANGED <<wire, svr>>
    BY <1>1
  <2>5. /\ f = d => v = svr.prev[d]
        /\ Fresh(f) \/ (f = d /\ \A i \in 1 .. Len(wire) : wire[i].ev # d)
    BY <1>0, <2>3, <2>4, ReadValues
  <2> QED BY <2>2, <2>5
<1>8. ASSUME Fresh(f)', f = e PROVE Given(f)'
  <2>1. ka'.da = svr'.prev[f]
    BY <1>1, <1>8, <1>b
  <2> QED BY <1>3, <1>4, <1>8, <2>1 DEF Given
<1>9. ASSUME Given(f), f # e PROVE Given(f)'
  <2>1. \A id \in cb'[f].ids : ~ Connects(id) /\ ~ Connects(id)'
    BY <1>4 DEF Connects
  <2> QED BY <1>1, <1>2, <1>3, <1>4, <1>9, <2>1 DEF Given
<1>10. Fresh(f)' => Fresh(f) \/ (f = e /\ LastIsNow(f)')
  <2> SUFFICES ASSUME Fresh(f)', ~ Fresh(f) PROVE f = e /\ LastIsNow(f)'
    OBVIOUS
  <2>1. f = e /\ \A i \in 1 .. Len(wire) : wire[i].ev # e
    BY <1>b
  <2> QED BY <1>1, <2>1 DEF LastIsNow
<1> QED BY <1>5, <1>6, <1>7, <1>8, <1>9, <1>10 DEF Valued

LEMMA ReFireValues == ASSUME ValuesInv, ReFire PROVE ValueInv'
<1>0. DeafInv /\ cb \in [Events -> CallbackType]
  BY DeafParts DEF ValuesInv, CountedInv
<1> DEFINE e == Min(ka.todo)
<1>1. /\ ka.pc = "fire" /\ ka' = NextEvent(ka)
      /\ seen' = [id \in Ids |-> IF id \in cb[e].ids /\ ka.da # None THEN ka.da ELSE seen[id]]
      /\ UNCHANGED <<scenario, val, svr, lossy, wire, cb, op, got>>
  BY DEF ReFire, supplierVars
<1>2. op.pc = "idle"
  BY <1>0, <1>1 DEF DeafInv, PhaseInv
<1>3. ka'.pc # "fire"
  BY <1>0, <1>1, UnsubscribedNext DEF Resubscribing
<1>4. \A f : ~ Refiring(f)' /\ (Refiring(f) <=> f = e)
  BY <1>1, <1>3 DEF Refiring
<1> HIDE DEF e
<1> SUFFICES ASSUME NEW f \in Events PROVE Valued(f)'
  BY DEF ValueInv
<1>5. Valued(f) /\ cb[f].ids \subseteq Ids
  BY <1>0 DEF ValuesInv, ValueInv, CallbackType
<1>6. (\A id \in cb'[f].ids : Event(id)' = f)
  BY <1>1, <1>5 DEF Valued, Event
<1>7. /\ LastIsNow(f) => LastIsNow(f)'
      /\ AllCopies(f)' => AllCopies(f)
      /\ (f \in Connected)' <=> f \in Connected
      /\ Fresh(f)' => Fresh(f)
  BY <1>1 DEF LastIsNow, AllCopies, Connected, Fresh
<1>8. ASSUME Fresh(f), Given(f) PROVE Given(f)'
  <2>0. svr.prev[f] # None
    BY <1>8 DEF Fresh
  <2>1. ASSUME NEW id \in cb[f].ids PROVE seen'[id] = svr.prev[f]
    <3>1. CASE f = e
      <4>1. ka.da = svr.prev[f]
        BY <1>4, <1>8, <3>1 DEF Given
      <4> QED BY <1>1, <1>5, <2>0, <2>1, <3>1, <4>1
    <3>2. CASE f # e
      <4>1. seen[id] = svr.prev[f]
        BY <1>2, <1>4, <1>8, <2>1, <3>2 DEF Given, Connects
      <4>2. id \notin cb[e].ids \/ e \notin Events
        <5>1. Event(id) = f
          BY <1>5, <2>1 DEF Valued
        <5>2. e \in Events => \A j \in cb[e].ids : Event(j) = e
          BY DEF ValuesInv, ValueInv, Valued
        <5> QED BY <3>2, <5>1, <5>2
      <4>3. e \in Events
        <5>1. ka.todo \subseteq Connected /\ ka.todo # {}
          BY <1>0, <1>1, UnsubscribedNext DEF Resubscribing
        <5>2. ka.todo \subseteq Nat /\ ka.todo \subseteq Events
          BY <5>1, ConnectedEvents
        <5> QED BY <5>1, <5>2, MinIs DEF e
      <4> QED BY <1>1, <1>5, <2>1, <4>1, <4>2, <4>3
    <3> QED BY <3>1, <3>2
  <2> QED BY <1>1, <1>2, <1>4, <2>1 DEF Given
<1> QED BY <1>5, <1>6, <1>7, <1>8 DEF Valued

(* The queue without its first event. *)
LEMMA TailValues ==
    ASSUME DeafInv, wire # <<>>, wire' = Tail(wire), NEW f, svr'.prev[f] = svr.prev[f]
    PROVE  /\ LastIsNow(f) => LastIsNow(f)'
           /\ AllCopies(f)' /\ got'[f] = got[f] /\ (wire[1].ev # f \/ Copy(got[f], wire[1]))
              => AllCopies(f)
<1>1. /\ Len(wire) \in Nat \ {0} /\ Len(wire') = Len(wire) - 1
      /\ \A i \in 1 .. Len(wire') : wire'[i] = wire[i + 1]
  BY HeadFacts
<1>2. \A i \in 1 .. Len(wire') : i + 1 \in 1 .. Len(wire)
  BY <1>1
<1>3. \A j \in 1 .. Len(wire) : j = 1 \/ (j - 1 \in 1 .. Len(wire') /\ wire'[j - 1] = wire[j])
  BY <1>1
<1>4. ASSUME LastIsNow(f) PROVE LastIsNow(f)'
  <2> SUFFICES ASSUME NEW i \in 1 .. Len(wire'), wire'[i].ev = f,
                      \A j \in 1 .. Len(wire') : i < j => wire'[j].ev # f
               PROVE  wire'[i].val = svr'.prev[f]
    BY DEF LastIsNow
  <2>1. wire[i + 1].ev = f /\ i + 1 \in 1 .. Len(wire) /\ wire'[i] = wire[i + 1]
    BY <1>1, <1>2
  <2>2. ASSUME NEW j \in 1 .. Len(wire), i + 1 < j PROVE wire[j].ev # f
    <3>1. j # 1 /\ i < j - 1
      BY <1>1, <2>2
    <3> QED BY <1>3, <3>1
  <2> QED BY <1>4, <2>1, <2>2 DEF LastIsNow
<1>5. ASSUME AllCopies(f)', got'[f] = got[f], wire[1].ev # f \/ Copy(got[f], wire[1])
      PROVE  AllCopies(f)
  <2> SUFFICES ASSUME NEW j \in 1 .. Len(wire), wire[j].ev = f PROVE Copy(got[f], wire[j])
    BY DEF AllCopies
  <2>1. CASE j = 1
    BY <1>5, <2>1
  <2>2. CASE j # 1
    <3>1. j - 1 \in 1 .. Len(wire') /\ wire'[j - 1] = wire[j]
      BY <1>3, <2>2
    <3> QED BY <1>5, <3>1 DEF AllCopies
  <2> QED BY <2>1, <2>2
<1> QED BY <1>4, <1>5

LEMMA ReceivedValued ==
    ASSUME DeafInv, Receiving, NEW f \in Events, Valued(f), wire' = Tail(wire), cb'[f].ids = cb[f].ids,
           UNCHANGED <<scenario, val, svr, op, ka>>,
           f \in Connected => \/ \A id \in cb[f].ids : seen'[id] = seen[id]
                              \/ AllCopies(f)' => Given(f)',
           f \notin lossy' => f \notin lossy,
           f \notin lossy' /\ AllCopies(f)' /\ f \in Connected => AllCopies(f) \/ Given(f)'
    PROVE  Valued(f)'
<1>1. wire # <<>> /\ op = NoOp
  BY DEF Receiving
<1>2. \A id \in cb'[f].ids : Event(id)' = f
  BY DEF Valued, Event
<1>3. (Fresh(f)' => Fresh(f)) /\ ((f \in Connected)' <=> f \in Connected)
  BY DEF Fresh, Connected
<1>4. LastIsNow(f) => LastIsNow(f)'
  BY <1>1, TailValues
<1>5. (\A id \in cb[f].ids : seen'[id] = seen[id]) /\ Given(f) => Given(f)'
  <2>1. \A id : Connects(id)' <=> Connects(id)
    BY DEF Connects
  <2> QED BY <2>1, GivenKept
<1>6. Fresh(f)' => f \notin lossy'
  BY DEF Fresh
<1> QED BY <1>2, <1>3, <1>4, <1>5, <1>6 DEF Valued

LEMMA IgnoreValues == ASSUME ValuesInv, IgnoreEvent PROVE ValueInv'
<1>0. DeafInv
  BY DEF ValuesInv, CountedInv
<1>1. /\ Receiving /\ wire # <<>> /\ cb[Head(wire).ev].ids = {} /\ wire' = Tail(wire)
      /\ UNCHANGED <<scenario, val, svr, lossy, op, ka, cb, seen, got>>
  BY DEF IgnoreEvent, Receiving, consumerVars, historyVars
<1>2. Head(wire) = wire[1]
  BY <1>0, <1>1, HeadFacts
<1> SUFFICES ASSUME NEW f \in Events PROVE Valued(f)'
  BY DEF ValueInv
<1>3. Valued(f)
  BY DEF ValuesInv, ValueInv
<1>4. f \in Connected /\ AllCopies(f)' => AllCopies(f)
  BY <1>0, <1>1, <1>2, TailValues DEF Connected
<1> QED BY <1>0, <1>1, <1>3, <1>4, ReceivedValued

LEMMA SuppressValues == ASSUME ValuesInv, SuppressEvent PROVE ValueInv'
<1>0. DeafInv /\ CountedInv
  BY DEF ValuesInv, CountedInv
<1>a. PICK m, e : m = wire[1] /\ e = m.ev
  OBVIOUS
<1>1. /\ e \in Connected /\ Receiving /\ wire' = Tail(wire)
      /\ cb'[e].ids = cb[e].ids /\ \A f \in Events \ {e} : cb'[f] = cb[f]
      /\ lossy' = IF OddSuppressed(m, got[e]) = {} THEN lossy ELSE lossy \cup {e}
      /\ UNCHANGED <<scenario, val, svr, op, ka, seen, got>>
  BY <1>0, <1>a, SuppressEffect
<1>2. wire # <<>> /\ e \in Events
  BY <1>1, ConnectedEvents DEF Receiving
<1>3. /\ Len(wire) \in Nat \ {0} /\ Len(wire') = Len(wire) - 1
      /\ \A i \in 1 .. Len(wire') : wire'[i] = wire[i + 1]
  BY <1>0, <1>1, <1>2, HeadFacts
<1>4. ASSUME e \notin lossy', AllCopies(e)' PROVE Copy(got[e], m)
  <2>1. OddSuppressed(m, got[e]) = {}
    BY <1>1, <1>4
  <2>2. ~ m.final \/ (m.run = got[e].run /\ m.nb = got[e].nb)
    BY <2>1 DEF OddSuppressed
  <2>3. CASE ~ m.final
    <3>1. 1 \in 1 .. Len(wire)
      BY <1>3
    <3>2. PICK j \in 1 .. Len(wire) : 1 < j /\ m.ev = wire[j].ev /\ Copy(m, wire[j])
      BY <1>0, <1>a, <2>3, <3>1 DEF CountedInv, CounterInv, Ordered
    <3>3. j - 1 \in 1 .. Len(wire') /\ wire'[j - 1] = wire[j]
      BY <1>3, <3>2
    <3>4. Copy(got[e], wire[j])
      BY <1>1, <1>4, <1>a, <3>2, <3>3 DEF AllCopies
    <3> QED BY <3>2, <3>4 DEF Copy
  <2>4. CASE m.run = got[e].run /\ m.nb = got[e].nb
    BY <2>4 DEF Copy
  <2> QED BY <2>2, <2>3, <2>4
<1> SUFFICES ASSUME NEW f \in Events PROVE Valued(f)'
  BY DEF ValueInv
<1>5. Valued(f)
  BY DEF ValuesInv, ValueInv
<1>6. f \notin lossy' /\ AllCopies(f)' => AllCopies(f)
  BY <1>0, <1>1, <1>2, <1>4, <1>a, TailValues
<1>7. cb'[f].ids = cb[f].ids /\ (f \notin lossy' => f \notin lossy)
  BY <1>1
<1> QED BY <1>0, <1>1, <1>5, <1>6, <1>7, ReceivedValued

LEMMA PushValues == ASSUME ValuesInv, PushEvent PROVE ValueInv'
<1>0. DeafInv /\ CountedInv /\ cb \in [Events -> CallbackType]
  BY DeafParts DEF ValuesInv, CountedInv
<1>a. PICK m, e : m = wire[1] /\ e = m.ev
  OBVIOUS
<1>1. /\ e \in Connected /\ Receiving /\ wire' = Tail(wire)
      /\ cb'[e].ids = cb[e].ids /\ \A f \in Events \ {e} : cb'[f] = cb[f] /\ got'[f] = got[f]
      /\ got'[e].run = m.run /\ got'[e].nb = m.nb
      /\ IF MonitorHeld(e)
         THEN lossy' = lossy \cup {e} /\ seen' = seen
         ELSE /\ lossy' = AfterEvent(m)
              /\ seen' = [id \in Ids |-> IF id \in cb[e].ids THEN m.val ELSE seen[id]]
      /\ UNCHANGED <<scenario, val, svr, op, ka>>
  BY <1>0, <1>a, PushEffect
<1>2. wire # <<>> /\ e \in Events /\ op = NoOp /\ op.pc = "idle"
  BY <1>1, ConnectedEvents DEF Receiving, NoOp
<1>3. /\ Len(wire) \in Nat \ {0} /\ Len(wire') = Len(wire) - 1
      /\ \A i \in 1 .. Len(wire') : wire'[i] = wire[i + 1]
  BY <1>0, <1>1, <1>2, HeadFacts
<1>4. \A f \in Events : Valued(f) /\ cb[f].ids \subseteq Ids
  BY <1>0 DEF ValuesInv, ValueInv, CallbackType
<1>5. ASSUME AllCopies(e)', LastIsNow(e) PROVE m.val = svr.prev[e]
  <2>1. 1 \in 1 .. Len(wire)
    BY <1>3
  <2>2. \A j \in 1 .. Len(wire) : 1 < j /\ wire[j].ev = e => Copy(m, wire[j])
    <3> SUFFICES ASSUME NEW j \in 1 .. Len(wire), 1 < j, wire[j].ev = e PROVE Copy(m, wire[j])
      OBVIOUS
    <3>1. j - 1 \in 1 .. Len(wire') /\ wire'[j - 1] = wire[j]
      BY <1>3
    <3>2. Copy(got'[e], wire[j])
      BY <1>5, <3>1 DEF AllCopies
    <3> QED BY <1>1, <3>2 DEF Copy
  <2>3. CASE \A j \in 1 .. Len(wire) : 1 < j => wire[j].ev # e
    BY <1>5, <1>a, <2>1, <2>3 DEF LastIsNow
  <2>4. CASE \E j \in 1 .. Len(wire) : 1 < j /\ wire[j].ev = e
    <3>1. PICK j \in 1 .. Len(wire) : 1 < j /\ wire[j].ev = e
      BY <2>4
    <3>2. Copy(m, wire[j]) /\ m.val = wire[j].val
      BY <1>0, <1>a, <2>1, <2>2, <3>1 DEF CountedInv, CounterInv, Ordered
    <3>3. ASSUME NEW k \in 1 .. Len(wire), j < k, wire[k].ev = e PROVE FALSE
      <4>1. Copy(m, wire[k])
        BY <1>3, <2>2, <3>1, <3>3
      <4>2. Copy(wire[j], wire[k])
        BY <3>2, <4>1 DEF Copy
      <4> QED BY <1>0, <1>a, <2>1, <3>1, <3>2, <3>3, <4>2 DEF CountedInv, CounterInv, Ordered
    <3>4. wire[j].val = svr.prev[e]
      BY <1>5, <3>1, <3>3 DEF LastIsNow
    <3> QED BY <3>2, <3>4
  <2> QED BY <2>3, <2>4
<1>6. Valued(e)'
  <2>1. Valued(e)
    BY <1>2, <1>4
  <2>2. CASE MonitorHeld(e)
    BY <1>0, <1>1, <1>2, <2>1, <2>2, ReceivedValued
  <2>3. CASE ~ MonitorHeld(e)
    <3>1. /\ lossy' = AfterEvent(m)
          /\ seen' = [id \in Ids |-> IF id \in cb[e].ids THEN m.val ELSE seen[id]]
      BY <1>1, <2>3
    <3>2. ~ Refiring(e)'
      BY <1>1, <2>3 DEF Refiring, MonitorHeld
    <3>3. ASSUME m.val = svr.prev[e] PROVE Given(e)'
      <4>1. \A id \in cb'[e].ids : seen'[id] = svr'.prev[e]
        BY <1>1, <1>2, <1>4, <3>1, <3>3
      <4> QED BY <1>1, <1>2, <3>2, <4>1 DEF Given
    <3>4. \A id \in cb'[e].ids : Event(id)' = e
      BY <1>1, <2>1 DEF Valued, Event
    <3>5. ASSUME Fresh(e)' PROVE LastIsNow(e)' /\ (AllCopies(e)' => Given(e)')
      <4>1. CASE Fresh(e)
        <5>1. LastIsNow(e) => LastIsNow(e)'
          BY <1>0, <1>1, <1>2, TailValues
        <5> QED BY <1>5, <2>1, <3>3, <4>1, <5>1 DEF Valued
      <4>2. CASE ~ Fresh(e)
        <5>1. e \in lossy /\ e \notin lossy'
          BY <1>1, <3>5, <4>2 DEF Fresh
        <5>2. /\ m.val = svr.prev[e]
              /\ \A x \in ToSet(Tail(wire)) : x.ev = e => x.run = m.run /\ x.nb = m.nb
          BY <1>a, <3>1, <5>1 DEF AfterEvent
        <5>3. ASSUME NEW i \in 1 .. Len(wire'), wire'[i].ev = e PROVE wire'[i].val = svr.prev[e]
          <6>1. wire' \in Seq(MessageType)
            BY <1>0, <1>1, <1>2, HeadFacts
          <6>2. wire'[i] \in ToSet(wire')
            BY <6>1 DEF ToSet
          <6>3. Copy(m, wire'[i])
            BY <1>1, <5>2, <5>3, <6>2 DEF Copy
          <6>4. i + 1 \in 1 .. Len(wire) /\ 1 \in 1 .. Len(wire) /\ 1 < i + 1 /\ wire'[i] = wire[i + 1]
            BY <1>3
          <6>5. \A a, b \in 1 .. Len(wire) :
                   a < b /\ wire[a].ev = wire[b].ev /\ Copy(wire[a], wire[b]) => wire[a].val = wire[b].val
            BY <1>0 DEF CountedInv, CounterInv, Ordered
          <6>7. wire[1].ev = wire[i + 1].ev /\ Copy(wire[1], wire[i + 1])
            BY <1>a, <5>3, <6>3, <6>4
          <6>6. m.val = wire[i + 1].val
            BY <1>a, <6>4, <6>5, <6>7
          <6> QED BY <5>2, <6>4, <6>6
        <5>4. LastIsNow(e)'
          BY <1>1, <5>3 DEF LastIsNow
        <5> QED BY <3>3, <5>2, <5>4
      <4> QED BY <4>1, <4>2
    <3> QED BY <3>4, <3>5 DEF Valued
  <2> QED BY <2>2, <2>3
<1>7. ASSUME NEW f \in Events, f # e PROVE Valued(f)'
  <2>1. Valued(f) /\ cb[f].ids \subseteq Ids
    BY <1>4
  <2>2. \A id \in cb[f].ids : seen'[id] = seen[id]
    <3>1. CASE MonitorHeld(e)
      BY <1>1, <3>1
    <3>2. CASE ~ MonitorHeld(e)
      <4>1. \A id \in cb[f].ids : id \notin cb[e].ids
        BY <1>2, <1>4, <1>7 DEF Valued
      <4> QED BY <1>1, <2>1, <3>2, <4>1
    <3> QED BY <3>1, <3>2
  <2>3. f \notin lossy' => f \notin lossy
    BY <1>1, <1>7, <1>a DEF AfterEvent
  <2>4. AllCopies(f)' => AllCopies(f)
    BY <1>0, <1>1, <1>2, <1>7, <1>a, TailValues
  <2>5. cb'[f].ids = cb[f].ids
    BY <1>1, <1>7
  <2> QED BY <1>0, <1>1, <2>1, <2>2, <2>3, <2>4, <2>5, ReceivedValued
<1> QED BY <1>6, <1>7 DEF ValueInv

(* The queue without the events of one publisher: an event of which some   *)
(* was dropped is lossy.                                                   *)
LEMMA NotFromValues ==
    ASSUME DeafInv, NEW run, wire' \in {wire, NotFrom(wire, run)}, NEW f,
           \A m \in ToSet(wire) \ ToSet(wire') : m.ev # f, svr'.prev[f] = svr.prev[f], got'[f] = got[f]
    PROVE  /\ LastIsNow(f) => LastIsNow(f)'
           /\ AllCopies(f)' => AllCopies(f)
<1>1. CASE wire' = wire
  BY <1>1 DEF LastIsNow, AllCopies
<1>2. CASE wire' = NotFrom(wire, run)
  <2>0. wire \in Seq(MessageType)
    BY DeafParts
  <2>1. wire \in Seq(MessageType) /\ wire' \in Seq(MessageType)
    BY <1>2, <2>0, NotFromFacts
  <2>2. PICK h : Left(wire', wire, Len(wire), run, h)
    BY <1>2, <2>1, NotFromFacts
  <2>3. /\ \A a \in 1 .. Len(wire') : h[a] \in 1 .. Len(wire) /\ wire'[a] = wire[h[a]] /\ wire'[a].run # run
        /\ \A a, b \in 1 .. Len(wire') : a < b => h[a] < h[b]
        /\ \A j \in 1 .. Len(wire) : wire[j].run # run => \E a \in 1 .. Len(wire') : h[a] = j
    BY <2>2 DEF Left
  <2>4. Len(wire) \in Nat /\ Len(wire') \in Nat
    BY <2>1
  <2>5. ASSUME NEW j \in 1 .. Len(wire), wire[j].ev = f PROVE \E a \in 1 .. Len(wire') : h[a] = j
    <3>1. wire[j] \in ToSet(wire)
      BY <2>1 DEF ToSet
    <3>2. wire[j] \in ToSet(wire')
      BY <2>5, <3>1
    <3>3. PICK a \in 1 .. Len(wire') : wire'[a] = wire[j]
      BY <2>1, <3>2 DEF ToSet
    <3> QED BY <2>3, <3>3
  <2>6. ASSUME LastIsNow(f) PROVE LastIsNow(f)'
    <3> SUFFICES ASSUME NEW i \in 1 .. Len(wire'), wire'[i].ev = f,
                        \A j \in 1 .. Len(wire') : i < j => wire'[j].ev # f
                 PROVE  wire'[i].val = svr'.prev[f]
      BY DEF LastIsNow
    <3>1. h[i] \in 1 .. Len(wire) /\ wire[h[i]] = wire'[i]
      BY <2>3
    <3>2. ASSUME NEW j \in 1 .. Len(wire), h[i] < j, wire[j].ev = f PROVE FALSE
      <4>1. PICK a \in 1 .. Len(wire') : h[a] = j
        BY <2>5, <3>2
      <4>2. wire'[a].ev = f /\ ~ (i < a)
        BY <2>3, <3>2, <4>1
      <4>3. a = i \/ a < i
        BY <2>4, <4>2
      <4>4. h[a] = h[i] \/ h[a] < h[i]
        BY <2>3, <4>3
      <4> QED BY <2>4, <3>1, <3>2, <4>1, <4>4
    <3> QED BY <2>6, <3>1, <3>2 DEF LastIsNow
  <2>7. ASSUME AllCopies(f)' PROVE AllCopies(f)
    <3> SUFFICES ASSUME NEW j \in 1 .. Len(wire), wire[j].ev = f PROVE Copy(got[f], wire[j])
      BY DEF AllCopies
    <3>1. PICK a \in 1 .. Len(wire') : h[a] = j
      BY <2>5
    <3>2. wire'[a] = wire[j]
      BY <2>3, <3>1
    <3> QED BY <2>7, <3>2 DEF AllCopies
  <2> QED BY <2>6, <2>7
<1> QED BY <1>1, <1>2

LEMMA ChannelValues == ASSUME ValuesInv, ReconnectToChannel PROVE ValueInv'
<1>0. DeafInv /\ ServerOK(svr)
  BY DeafParts DEF ValuesInv, CountedInv
<1>1. PICK e : e = Min(Connected)
  OBVIOUS
<1>2. /\ ka.pc = "reconnect" /\ e \in Connected
      /\ \/ /\ svr' = Subscribed(svr, e) /\ wire' \in {wire, NotFrom(wire, cb[e].endpoint)}
            /\ lossy' = lossy \cup {m.ev : m \in ToSet(wire) \ ToSet(wire')} /\ ka'.pc = "events"
         \/ ka' = Asleep /\ UNCHANGED <<svr, wire, lossy>>
      /\ UNCHANGED <<scenario, val, cb, op, seen, got>>
  BY <1>0, <1>1, ChannelEffect
<1>3. ka'.pc # "fire"
  BY <1>2 DEF Asleep
<1>4. CASE UNCHANGED <<svr, wire, lossy>>
  BY <1>2, <1>3, <1>4, Quiet
<1>5. CASE /\ svr' = Subscribed(svr, e) /\ wire' \in {wire, NotFrom(wire, cb[e].endpoint)}
           /\ lossy' = lossy \cup {m.ev : m \in ToSet(wire) \ ToSet(wire')}
  <2>1. e \in Events
    BY <1>2, ConnectedEvents
  <2>2. svr'.up = svr.up /\ svr'.prev = svr.prev
    BY <1>0, <1>5, <2>1, SubscribedFacts DEF SubscribedTo
  <2> SUFFICES ASSUME NEW f \in Events PROVE Valued(f)'
    BY DEF ValueInv
  <2>3. Valued(f)
    BY DEF ValuesInv, ValueInv
  <2>4. \A id \in cb'[f].ids : Event(id)' = f
    BY <1>2, <2>3 DEF Valued, Event
  <2>5. (f \in Connected)' <=> f \in Connected
    BY <1>2 DEF Connected
  <2>6. Given(f) => Given(f)'
    <3>1. \A id : Connects(id)' <=> Connects(id)
      BY <1>2 DEF Connects
    <3> QED BY <1>2, <1>3, <2>2, <3>1, GivenKept
  <2>7. Fresh(f)' => Fresh(f)
    BY <1>2, <1>5, <2>2 DEF Fresh
  <2>8. Fresh(f)' => (LastIsNow(f) => LastIsNow(f)') /\ (AllCopies(f)' => AllCopies(f))
    <3> SUFFICES ASSUME Fresh(f)' PROVE (LastIsNow(f) => LastIsNow(f)') /\ (AllCopies(f)' => AllCopies(f))
      OBVIOUS
    <3>1. f \notin lossy'
      BY DEF Fresh
    <3>2. \A m \in ToSet(wire) \ ToSet(wire') : m.ev # f
      BY <1>5, <3>1
    <3> QED BY <1>0, <1>2, <1>5, <2>2, <3>2, NotFromValues
  <2> QED BY <2>3, <2>4, <2>5, <2>6, <2>7, <2>8 DEF Valued
<1> QED BY <1>2, <1>4, <1>5

LEMMA ValuesStep == ASSUME ValuesInv, [Next]_vars PROVE ValuesInv'
<1>1. CountedInv'
  BY CountedStep DEF ValuesInv
<1>2. ASSUME Receive PROVE ValueInv'
  BY <1>2, IgnoreValues, SuppressValues, PushValues DEF Receive
<1>3. ValueInv'
  BY <1>2, Steps, ServerValues, QuietSteps, ConnectValues, ReadFirstValues, FireFirstValues,
     ChannelValues, ReReadValues, ReFireValues
<1> QED BY <1>1, <1>3 DEF ValuesInv

(* Whatever the values and the order of polls, subscriptions, reads and     *)
(* events: callbacks that have received all that was sent have the value    *)
(* with which the server compares the next one, unless an event was lost or *)
(* a read itself brought another value (detect_and_push_events,             *)
(* get_fire_sync_event, re_subscribe_after_reconnect, push_zmq_event).      *)
THEOREM EventUpToDate == Spec => []UpToDate
<1>1. Init => ValuesInv
  BY DeafInit, CounterInit, ValueInit DEF ValuesInv, CountedInv
<1>2. ValuesInv => UpToDate
  <2> SUFFICES ASSUME ValuesInv, NEW e \in Connected, Settled(e), NEW id \in cb[e].ids
               PROVE  seen[id] = svr.prev[e]
    BY DEF UpToDate
  <2>1. e \in Events /\ wire \in Seq(MessageType)
    BY ConnectedEvents, DeafParts DEF ValuesInv, CountedInv
  <2>2. Valued(e)
    BY <2>1 DEF ValuesInv, ValueInv
  <2>3. Fresh(e) /\ op = NoOp /\ ka.pc # "fire"
    BY DEF Settled, Fresh
  <2>4. \A i \in 1 .. Len(wire) : wire[i].ev # e
    <3>1. \A i \in 1 .. Len(wire) : wire[i] \in ToSet(wire)
      BY <2>1 DEF ToSet
    <3> QED BY <3>1 DEF Settled
  <2>5. AllCopies(e)
    BY <2>4 DEF AllCopies
  <2>6. Given(e)
    BY <2>2, <2>3, <2>5 DEF Valued
  <2>7. ~ Refiring(e) /\ ~ Connects(id)
    BY <2>3 DEF Refiring, Connects, NoOp
  <2> QED BY <2>6, <2>7 DEF Given
<1> QED BY <1>1, <1>2, ValuesStep, PTL DEF Spec

=============================================================================
