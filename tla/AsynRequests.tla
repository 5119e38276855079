---------------------------- MODULE AsynRequests ----------------------------
(***************************************************************************)
(* Asynchronous requests of a client: the table of requests to be polled,  *)
(* the tables of requests with a callback, the counters each proxy keeps   *)
(* of its own, the calls that fire the callbacks and the thread that fires *)
(* them by itself in the push sub-model (asynreq.cpp, proxy_asyn.cpp,      *)
(* proxy_asyn_cb.cpp, api_util.cpp, cbthread.cpp).                         *)
(*                                                                         *)
(* A step is what one holds a mutex for, or a call of the user's callback, *)
(* which is made with no mutex held.  The ORB is external: it sends a      *)
(* request, gets one answer to it - the device's, or an exception of its   *)
(* own - and queues the answers to requests with a callback until one asks *)
(* for the next response.  Arguments and results are left out; a result is *)
(* the kind of answer it came from.                                        *)
(***************************************************************************)
EXTENDS Integers, Sequences, FiniteSets, SequencesExt

CONSTANTS Proxies,      \* the Connection objects of the process
          Users,        \* threads of the application
          CbThread,     \* the thread of the push sub-model
          Scenarios     \* ways of using the library, see ScenarioType

VARIABLES scenario,     \* the way of using the library, chosen once
          req,          \* the requests issued so far; the index is the identifier
          table,        \* asyn_poll_req_table
          cancelled,    \* cancelled_request
          cbtab,        \* cb_dev_table and cb_req_table, changed together
          arrived,      \* the entries of cb_dev_table with the arrived flag
          ctr, cbctr,   \* pasyn_ctr and pasyn_cb_ctr of each proxy
          conn,         \* proxies whose connection_state is CONNECTION_OK
          thr,          \* where each thread is, see ThreadType
          push, stop,   \* auto_cb = PUSH_CALLBACK; cb_thread_cmd.stop
          orb,          \* what the ORB knows: answers, its queue, executions
          up,           \* the server answers
          told, redone  \* results handed to the user; requests done again

tables == <<table, cancelled, cbtab, arrived, ctr, cbctr>>
vars == <<scenario, req, tables, conn, thr, push, stop, orb, up, told, redone>>

Kinds == {"cmd", "read", "write"}
Answers == {"none", "ok", "failed", "timeout", "refused", "nomatch", "broken"}
Calls == {"poll", "wait", "timed"}

(***************************************************************************)
(* A scenario: the proxies each application thread uses; the kinds of      *)
(* requests it polls for and those it gives a callback; the calls it makes *)
(* to get replies, on a proxy and on ApiUtil; the push sub-model; whether  *)
(* the server may stop; whether a call that is done again may fail;        *)
(* whether all requests may be cancelled at once; how many requests there  *)
(* are.                                                                    *)
(***************************************************************************)
ScenarioType ==
    [own : [Users -> SUBSET Proxies], polled : SUBSET Kinds, called : SUBSET Kinds,
     mine : SUBSET Calls, all : SUBSET Calls, push : BOOLEAN,
     faults : BOOLEAN, redoFails : BOOLEAN, cancelAll : BOOLEAN, bound : Nat]

ASSUME ScenariosAssumption ==
    /\ Scenarios \subseteq ScenarioType
    /\ "all" \notin Proxies /\ CbThread \notin Users

(***************************************************************************)
(* The applications that get a callback fired once: no two threads use the *)
(* same proxy; the calls on ApiUtil, which get the replies of every proxy, *)
(* are left to the one thread that uses any, and nobody asks for replies   *)
(* while the push sub-model does.                                          *)
(***************************************************************************)
OneReader(s) ==
    /\ \A t, u \in Users : t # u => s.own[t] \cap s.own[u] = {}
    /\ s.all # {} => \A t, u \in Users : s.own[t] # {} /\ s.own[u] # {} => t = u
    /\ s.push => s.all = {} /\ s.mine = {}

(***************************************************************************)
(* The applications whose counters stay right: also, no call that is done  *)
(* again fails, and all requests are cancelled at once only by the         *)
(* application with a single proxy.                                        *)
(***************************************************************************)
Counted(s) ==
    /\ OneReader(s) /\ ~ s.redoFails
    /\ s.cancelAll => \A t, u \in Users : \A p \in s.own[t], q \in s.own[u] : p = q

Threads == Users \cup {CbThread}
Ids == DOMAIN req

ThreadType ==
    [at : {"idle", "send", "signal", "reply", "fetch", "sweep", "fire", "remove",
           "check", "lock", "asleep", "woken", "exit"},
     call : Calls, dev : Proxies \cup {"all"}, id : Ids \cup {0},
     back : {"fetch", "sweep"}]

Idle == [at |-> "idle", call |-> "poll", dev |-> "all", id |-> 0, back |-> "fetch"]
CbIdle == [Idle EXCEPT !.at = IF scenario.push THEN "check" ELSE "exit", !.call = "wait"]

TypeOK ==
    /\ scenario \in Scenarios
    /\ req \in Seq([dev : Proxies, kind : Kinds, cb : BOOLEAN])
    /\ table \subseteq {r \in Ids : ~req[r].cb}
    /\ cancelled \in Seq(Ids) /\ IsInjective(cancelled)
    /\ cbtab \subseteq {r \in Ids : req[r].cb} /\ arrived \subseteq Ids
    /\ ctr \in [Proxies -> Int] /\ cbctr \in [Proxies -> Int]
    /\ conn \subseteq Proxies
    /\ thr \in [Threads -> ThreadType]
    /\ \A t \in Threads : thr[t].at \in {"send", "reply", "fire", "remove"} => thr[t].id \in Ids
    /\ push \in BOOLEAN /\ stop \in BOOLEAN /\ up \in BOOLEAN
    /\ orb \in [answer : [Ids -> Answers], ran : SUBSET Ids, queue : SUBSET Ids]
    /\ told \in [Ids -> Nat] /\ redone \subseteq Ids

Init ==
    /\ scenario \in Scenarios
    /\ req = <<>> /\ table = {} /\ cancelled = <<>> /\ cbtab = {} /\ arrived = {}
    /\ ctr = [p \in Proxies |-> 0] /\ cbctr = [p \in Proxies |-> 0]
    /\ conn = Proxies
    /\ thr = [t \in Threads |-> IF t = CbThread THEN CbIdle ELSE Idle]
    /\ push = scenario.push /\ stop = FALSE
    /\ orb = [answer |-> <<>>, ran |-> {}, queue |-> {}]
    /\ up = TRUE /\ told = <<>> /\ redone = {}

At(t, where) == thr[t].at = where
Goes(t, where) == thr' = [thr EXCEPT ![t].at = where]
Returns(t) == thr' = [thr EXCEPT ![t] = IF t = CbThread THEN CbIdle ELSE Idle]
Uses(t, p) == p \in scenario.own[t]
Answered(r) == orb.answer[r] # "none"

-----------------------------------------------------------------------------
(* The ORB and the device server, external. *)

Sent(r) == \A t \in Users : ~(At(t, "send") /\ thr[t].id = r)
Pending(r) == r \in Ids /\ Sent(r) /\ ~Answered(r)

(* The answer of the ORB to a request is a; the executions become ran. *)
OrbAnswers(r, a, ran) ==
    /\ orb' = [orb EXCEPT !.answer[r] = a, !.ran = ran]
    /\ UNCHANGED <<scenario, req, tables, conn, thr, push, stop, up, told, redone>>

(* The device executes the request, at the latest after the client gave up. *)
Run(r) ==
    /\ r \in Ids /\ Sent(r) /\ up /\ r \notin orb.ran
    /\ orb.answer[r] \in {"none", "timeout"}
    /\ OrbAnswers(r, orb.answer[r], orb.ran \cup {r})

(* Its reply: a result or a DevFailed. *)
Reply(r) ==
    /\ Pending(r) /\ up /\ r \in orb.ran
    /\ \E a \in {"ok", "failed"} : OrbAnswers(r, a, orb.ran)

(* The timeout of the proxy: TRANSIENT_CallTimedout. *)
Timeout(r) == Pending(r) /\ OrbAnswers(r, "timeout", orb.ran)

(* No server to connect to, or one that does not know the object: the      *)
(* request is not executed.                                                *)
Refuse(r) == Pending(r) /\ ~up /\ r \notin orb.ran /\ OrbAnswers(r, "refused", orb.ran)
NoMatch(r) ==
    /\ Pending(r) /\ up /\ scenario.faults /\ r \notin orb.ran
    /\ OrbAnswers(r, "nomatch", orb.ran)

(* The connection is lost once the request was sent: COMM_FAILURE. *)
Break(r) == Pending(r) /\ ~up /\ OrbAnswers(r, "broken", orb.ran)

ServerStops ==
    /\ scenario.faults /\ up' = ~up
    /\ UNCHANGED <<scenario, req, tables, conn, thr, push, stop, orb, told, redone>>

-----------------------------------------------------------------------------
(* Requests to be polled. *)

(* check_and_reconnect: a proxy that lost its connection needs the server. *)
CheckAndReconnect(p) ==
    /\ p \in conn \/ up
    /\ conn' = conn \cup {p}

Issue(p, kind, cb) ==
    /\ Len(req) < scenario.bound
    /\ req' = Append(req, [dev |-> p, kind |-> kind, cb |-> cb])
    /\ told' = Append(told, 0)
    /\ orb' = [orb EXCEPT !.answer = Append(@, "none")]

(* remove_cancelled_request succeeds on an answered request, and on one    *)
(* that is not in the table any more.                                      *)
RemoveCancelledRequest(r) == r \notin table \/ Answered(r)

(* The loop of store_request over the cancelled requests steps over the    *)
(* one that follows each one it erases.                                    *)
Purge[i \in 0 .. Len(cancelled)] ==
    IF i = 0 THEN [left |-> <<>>, skip |-> FALSE]
    ELSE IF ~ Purge[i - 1].skip /\ RemoveCancelledRequest(cancelled[i])
         THEN [left |-> Purge[i - 1].left, skip |-> TRUE]
         ELSE [left |-> Append(Purge[i - 1].left, cancelled[i]), skip |-> FALSE]
Purged == Purge[Len(cancelled)].left

(* add_asyn_request and store_request, then send_deferred. *)
AddAsynRequest(p, kind) ==
    /\ Issue(p, kind, FALSE)
    /\ LET gone == ToSet(cancelled) \ ToSet(Purged)
       IN  table' = (table \ gone) \cup {Len(req) + 1}
    /\ cancelled' = Purged
    /\ ctr' = [ctr EXCEPT ![p] = @ + 1]
    /\ UNCHANGED <<scenario, cbtab, arrived, cbctr, thr, push, stop, up, redone>>

CommandInoutAsynch(t, p) ==
    /\ At(t, "idle") /\ Uses(t, p) /\ "cmd" \in scenario.polled
    /\ CheckAndReconnect(p)
    /\ AddAsynRequest(p, "cmd")

ReadAttributesAsynch(t, p) ==
    /\ At(t, "idle") /\ Uses(t, p) /\ "read" \in scenario.polled
    /\ CheckAndReconnect(p)
    /\ AddAsynRequest(p, "read")

WriteAttributesAsynch(t, p) ==
    /\ At(t, "idle") /\ Uses(t, p) /\ "write" \in scenario.polled
    /\ CheckAndReconnect(p)
    /\ AddAsynRequest(p, "write")

(* Faulty variant: the counter is forgotten. *)
RemoveUncounted(r) == table' = table \ {r} /\ UNCHANGED ctr

(* remove_asyn_request *)
RemoveAsynRequest(r) ==
    /\ table' = table \ {r}
    /\ ctr' = [ctr EXCEPT ![req[r].dev] = @ - 1]

(* The result or the exception goes to the caller. *)
Told(r) == told' = [told EXCEPT ![r] = @ + 1]

(* Faulty variant: also after a connection lost once the request was sent. *)
ToRedoAnyway(r) == orb.answer[r] \in {"refused", "nomatch", "broken"}

(* The exceptions of the ORB after which the call is done again.  Doing it *)
(* is never certain: the proxy refuses to reconnect for a second after a   *)
(* failure, and an ORB that throws its exception instead of handing it in  *)
(* the environment of the request leaves only the failure to connect.      *)
ToRedo(r) == orb.answer[r] = "refused" \/ orb.answer[r] = "nomatch"

(* What a failed call does to the connection: a timeout only when the      *)
(* device has alternate addresses and does not answer a ping.              *)
Disconnected(r) ==
    conn' \in IF orb.answer[r] \in {"refused", "nomatch", "broken"} THEN {conn \ {req[r].dev}}
              ELSE IF orb.answer[r] = "timeout" THEN {conn, conn \ {req[r].dev}}
              ELSE {conn}

(* redo_synch_cmd and the calls it stands for: the proxy reconnects. *)
Redone(r) ==
    /\ up
    /\ redone' = redone \cup {r}
    /\ conn' = conn \cup {req[r].dev}

Answer(t, r, kinds) ==
    /\ At(t, "idle") \/ (At(t, "reply") /\ thr[t].id = r)
    /\ r \in table /\ Answered(r) /\ req[r].kind \in kinds /\ Uses(t, req[r].dev)
    /\ r \notin ToSet(cancelled) /\ told[r] = 0
    /\ Told(r) /\ Returns(t)
    /\ UNCHANGED <<scenario, req, cancelled, cbtab, arrived, cbctr, push, stop, orb, up>>

(* command_inout_reply: whatever becomes of the call that is done again,   *)
(* the request leaves the table.                                           *)
CommandInoutReply(t, r) ==
    /\ Answer(t, r, {"cmd"})
    /\ RemoveAsynRequest(r)
    /\ \/ ToRedo(r) /\ Redone(r)
       \/ Disconnected(r) /\ UNCHANGED redone

(* read_attr_except and write_attr_except: the device is pinged, and the   *)
(* call is done again out of their sight.                                  *)
AttrReplied(r) ==
    \/ ToRedo(r) /\ Redone(r) /\ RemoveAsynRequest(r)
    \/ ToRedo(r) /\ scenario.redoFails /\ Redone(r) /\ UNCHANGED <<table, ctr>>
    \/ Disconnected(r) /\ RemoveAsynRequest(r) /\ UNCHANGED redone

(* read_attributes_reply, and read_attribute_reply for one attribute *)
ReadAttributesReply(t, r) == Answer(t, r, {"read"}) /\ AttrReplied(r)

(* write_attributes_reply *)
WriteAttributesReply(t, r) == Answer(t, r, {"write"}) /\ AttrReplied(r)

(* The forms with a timeout wait first; one that expires changes nothing. *)
ReplyWait(t, r) ==
    /\ At(t, "idle") /\ r \in table /\ ~Answered(r) /\ Uses(t, req[r].dev)
    /\ r \notin ToSet(cancelled) /\ told[r] = 0
    /\ thr' = [thr EXCEPT ![t].at = "reply", ![t].id = r]
    /\ UNCHANGED <<scenario, req, tables, conn, push, stop, orb, up, told, redone>>

ReplyNotArrived(t) ==
    /\ At(t, "reply") /\ ~Answered(thr[t].id)
    /\ Returns(t)
    /\ UNCHANGED <<scenario, req, tables, conn, push, stop, orb, up, told, redone>>

(* cancel_asynch_request, of a request the caller did not cancel before. *)
CancelAsynchRequest(t, r) ==
    /\ At(t, "idle") /\ r \in table /\ Uses(t, req[r].dev) /\ r \notin ToSet(cancelled)
    /\ told[r] = 0
    /\ cancelled' = Append(cancelled, r)
    /\ ctr' = [ctr EXCEPT ![req[r].dev] = @ - 1]
    /\ UNCHANGED <<scenario, req, table, cbtab, arrived, cbctr, conn, thr, push, stop, orb, up, told, redone>>

(* cancel_all_polling_asynch_request: the requests of every proxy, but the *)
(* counter of this one.                                                    *)
CancelAllPollingAsynchRequest(t, p) ==
    /\ At(t, "idle") /\ Uses(t, p) /\ scenario.cancelAll /\ table # {}
    /\ cancelled' = cancelled \o SetToSeq(table \ ToSet(cancelled))
    /\ ctr' = [ctr EXCEPT ![p] = 0]
    /\ UNCHANGED <<scenario, req, table, cbtab, arrived, cbctr, conn, thr, push, stop, orb, up, told, redone>>

-----------------------------------------------------------------------------
(* Requests with a callback. *)

(* add_asyn_cb_request and store_request; the request is sent afterwards. *)
AddAsynCbRequest(t, p, kind) ==
    /\ Issue(p, kind, TRUE)
    /\ cbtab' = cbtab \cup {Len(req) + 1}
    /\ cbctr' = [cbctr EXCEPT ![p] = @ + 1]
    /\ thr' = [thr EXCEPT ![t].at = "send", ![t].id = Len(req) + 1]
    /\ UNCHANGED <<scenario, table, cancelled, arrived, ctr, push, stop, up, redone>>

CommandInoutAsynchCb(t, p) ==
    /\ At(t, "idle") /\ Uses(t, p) /\ "cmd" \in scenario.called
    /\ CheckAndReconnect(p)
    /\ AddAsynCbRequest(t, p, "cmd")

ReadAttributesAsynchCb(t, p) ==
    /\ At(t, "idle") /\ Uses(t, p) /\ "read" \in scenario.called
    /\ CheckAndReconnect(p)
    /\ AddAsynCbRequest(t, p, "read")

WriteAttributesAsynchCb(t, p) ==
    /\ At(t, "idle") /\ Uses(t, p) /\ "write" \in scenario.called
    /\ CheckAndReconnect(p)
    /\ AddAsynCbRequest(t, p, "write")

(* send_multiple_requests_deferred: the ORB queues the request. *)
Send(t) ==
    /\ At(t, "send")
    /\ orb' = [orb EXCEPT !.queue = @ \cup {thr[t].id}]
    /\ IF push THEN Goes(t, "signal") ELSE Returns(t)
    /\ UNCHANGED <<scenario, req, tables, conn, push, stop, up, told, redone>>

(* Faulty variant: nobody gets the signal. *)
AwakeNobody(others) == others

(* The condition of the tables: at most one thread waits for it. *)
Awake(others) ==
    IF thr[CbThread].at = "asleep" THEN [others EXCEPT ![CbThread].at = "woken"] ELSE others

Signal(t) ==
    /\ At(t, "signal")
    /\ thr' = Awake([thr EXCEPT ![t] = Idle])
    /\ UNCHANGED <<scenario, req, tables, conn, push, stop, orb, up, told, redone>>

(* get_asynch_replies of a proxy or, for "all", of ApiUtil.  Without a     *)
(* timeout one empties the queue of the ORB and then looks for arrived     *)
(* replies, with a timeout the other way round.                            *)
GetAsynchReplies(t, dev, call) ==
    /\ At(t, "idle") /\ t \in Users /\ scenario.own[t] # {}
    /\ \/ dev = "all" /\ call \in scenario.all
       \/ dev # "all" /\ call \in scenario.mine /\ Uses(t, dev)
    /\ thr' = [thr EXCEPT ![t] = [Idle EXCEPT !.call = call, !.dev = dev,
                                  !.at = IF call = "poll" THEN "fetch" ELSE "sweep"]]
    /\ UNCHANGED <<scenario, req, tables, conn, push, stop, orb, up, told, redone>>

(* Faulty variant: a proxy fires the callback of every response it gets. *)
ForAnyone(t, r) == TRUE

(* Faulty variant: ApiUtil leaves the replies to the proxies. *)
ForOneProxy(t, r) == thr[t].dev = req[r].dev

(* The response is processed by the call that got it. *)
ForMe(t, r) == thr[t].dev \in {"all", req[r].dev}

(* get_next_response, get_request and mark_as_arrived; the response to a   *)
(* request of another proxy is only marked.                                *)
Fetch(t) ==
    /\ At(t, "fetch")
    /\ \E r \in orb.queue :
         /\ Answered(r)
         /\ orb' = [orb EXCEPT !.queue = @ \ {r}]
         /\ arrived' = arrived \cup {r}
         /\ thr' = [thr EXCEPT ![t].at = IF ForMe(t, r) THEN "fire" ELSE "fetch",
                               ![t].id = IF ForMe(t, r) THEN r ELSE 0,
                               ![t].back = "fetch"]
    /\ UNCHANGED <<scenario, req, table, cancelled, cbtab, ctr, cbctr, conn, push, stop, up, told, redone>>

(* What the call with a timeout still waits for. *)
Awaited(t) == IF thr[t].dev = "all" THEN cbtab # {} ELSE cbctr[thr[t].dev] # 0

(* Without a timeout the queue is left when no response is there, whether  *)
(* the ORB says so or throws for want of a request.  With one it is left   *)
(* when nothing is awaited, or when the time is over; and a proxy, not     *)
(* ApiUtil, lets the exception of an empty queue through.                  *)
FetchEnds(t) ==
    /\ At(t, "fetch")
    /\ \/ thr[t].call = "poll" /\ (\A r \in orb.queue : ~Answered(r)) /\ Goes(t, "sweep")
       \/ thr[t].call # "poll" /\ ~Awaited(t) /\ Returns(t)
       \/ thr[t].call = "timed" /\ Awaited(t) /\ Returns(t)
       \/ thr[t].call # "poll" /\ thr[t].dev # "all" /\ orb.queue = {} /\ Returns(t)
    /\ UNCHANGED <<scenario, req, tables, conn, push, stop, orb, up, told, redone>>

(* The replies already there: get_request of the proxy, or the loop of     *)
(* ApiUtil over the table.                                                 *)
Sweep(t) ==
    /\ At(t, "sweep")
    /\ \E r \in arrived :
         /\ ForMe(t, r)
         /\ thr' = [thr EXCEPT ![t].at = "fire", ![t].id = r, ![t].back = "sweep"]
    /\ UNCHANGED <<scenario, req, tables, conn, push, stop, orb, up, told, redone>>

Swept(t) == IF thr[t].call = "poll" THEN Returns(t) ELSE Goes(t, "fetch")

SweepEnds(t) ==
    /\ At(t, "sweep") /\ \A r \in arrived : ~ForMe(t, r)
    /\ Swept(t)
    /\ UNCHANGED <<scenario, req, tables, conn, push, stop, orb, up, told, redone>>

(* Cb_Cmd_Request, Cb_ReadAttr_Request, Cb_WriteAttr_Request: a callback   *)
(* is given every answer, and no call is done again.                       *)
CbFired(r) ==
    /\ Told(r)
    /\ conn' = IF orb.answer[r] \in {"refused", "nomatch", "broken"} THEN conn \ {req[r].dev} ELSE conn

CbCmdRequest(r) == req[r].kind = "cmd" /\ CbFired(r)
CbReadAttrRequest(r) == req[r].kind = "read" /\ CbFired(r)
CbWriteAttrRequest(r) == req[r].kind = "write" /\ CbFired(r)

Fire(t) ==
    /\ At(t, "fire")
    /\ \/ CbCmdRequest(thr[t].id)
       \/ CbReadAttrRequest(thr[t].id)
       \/ CbWriteAttrRequest(thr[t].id)
    /\ Goes(t, "remove")
    /\ UNCHANGED <<scenario, req, tables, push, stop, orb, up, redone>>

(* remove_asyn_cb_request, and its two halves in process_request.  The     *)
(* loop of ApiUtil goes on from the entry it erased, which is undefined:   *)
(* it reaches the entries that follow, or ends.                            *)
RemoveAsynCbRequest(t) ==
    LET r == thr[t].id
    IN  /\ At(t, "remove")
        /\ cbtab' = cbtab \ {r} /\ arrived' = arrived \ {r}
        /\ cbctr' = [cbctr EXCEPT ![req[r].dev] = @ - 1]
        /\ \/ thr' = [thr EXCEPT ![t].at = thr[t].back, ![t].id = 0]
           \/ thr[t].dev = "all" /\ thr[t].back = "sweep" /\ Swept(t)
        /\ UNCHANGED <<scenario, req, table, cancelled, ctr, conn, push, stop, orb, up, told, redone>>

-----------------------------------------------------------------------------
(* The thread of the push sub-model. *)

(* while(!shared_cmd.is_stopped()) *)
IsStopped ==
    /\ At(CbThread, "check")
    /\ Goes(CbThread, IF stop THEN "exit" ELSE "lock")
    /\ UNCHANGED <<scenario, req, tables, conn, push, stop, orb, up, told, redone>>

(* The thread sleeps when there is no request, tested with the mutex held. *)
WaitForRequests ==
    /\ At(CbThread, "lock")
    /\ Goes(CbThread, IF cbtab = {} THEN "asleep" ELSE "woken")
    /\ UNCHANGED <<scenario, req, tables, conn, push, stop, orb, up, told, redone>>

(* get_asynch_replies(0) when there is a request. *)
RunUndetached ==
    /\ At(CbThread, "woken")
    /\ Goes(CbThread, IF cbtab # {} THEN "sweep" ELSE "check")
    /\ UNCHANGED <<scenario, req, tables, conn, push, stop, orb, up, told, redone>>

(* set_asynch_cb_sub_model(PULL_CALLBACK) *)
SetAsynchCbSubModel(t) ==
    /\ t \in Users /\ At(t, "idle") /\ push
    /\ push' = FALSE /\ stop' = TRUE
    /\ thr' = Awake(thr)
    /\ UNCHANGED <<scenario, req, tables, conn, orb, up, told, redone>>

-----------------------------------------------------------------------------
Device ==
    \E r \in Ids : Run(r) \/ Reply(r) \/ Timeout(r) \/ Refuse(r) \/ NoMatch(r) \/ Break(r)

UserCall(t) ==
    \/ \E p \in Proxies :
         \/ CommandInoutAsynch(t, p) \/ ReadAttributesAsynch(t, p) \/ WriteAttributesAsynch(t, p)
         \/ CommandInoutAsynchCb(t, p) \/ ReadAttributesAsynchCb(t, p) \/ WriteAttributesAsynchCb(t, p)
         \/ CancelAllPollingAsynchRequest(t, p)
    \/ \E r \in Ids : ReplyWait(t, r) \/ CancelAsynchRequest(t, r)
    \/ \E dev \in Proxies \cup {"all"}, call \in Calls : GetAsynchReplies(t, dev, call)
    \/ SetAsynchCbSubModel(t) \/ ReplyNotArrived(t)

Replied(t) ==
    \E r \in Ids :
        CommandInoutReply(t, r) \/ ReadAttributesReply(t, r) \/ WriteAttributesReply(t, r)

Step(t) ==
    \/ Send(t) \/ Signal(t)
    \/ Fetch(t) \/ FetchEnds(t) \/ Sweep(t) \/ SweepEnds(t) \/ Fire(t)
    \/ RemoveAsynCbRequest(t)

CbStep == IsStopped \/ WaitForRequests \/ RunUndetached \/ Step(CbThread)

Next ==
    \/ Device \/ ServerStops \/ CbStep
    \/ \E t \in Users : UserCall(t) \/ Replied(t) \/ Step(t)

(* A thread goes on with the call it is in, and the ORB answers a request  *)
(* at the latest when its timeout is over.                                 *)
Fairness ==
    /\ \A t \in Users : WF_vars(Step(t)) /\ WF_vars(~At(t, "idle") /\ Replied(t))
    /\ WF_vars(CbStep)
    /\ WF_vars(\E r \in Ids : Timeout(r))

Spec == Init /\ [][Next]_vars /\ Fairness

-----------------------------------------------------------------------------
(* What pending_asynch_call returns: the counter of a proxy is the number  *)
(* of its requests to be polled that are neither replied nor cancelled,    *)
(* and of its requests with a callback that was not fired.                 *)
PendingAgrees ==
    \A p \in Proxies :
        /\ ctr[p] = Cardinality({r \in table \ ToSet(cancelled) : req[r].dev = p /\ told[r] = 0})
        /\ cbctr[p] = Cardinality({r \in cbtab : req[r].dev = p})

(* A result reaches the user once: a callback is fired exactly once before *)
(* its request leaves the tables, although any thread may get the response *)
(* to the request of another; a polled request leaves its table with its   *)
(* reply, or once it is both cancelled and answered, since the ORB still   *)
(* writes to it until then; and no response is queued or marked for a      *)
(* request the tables have forgotten (store_request, get_asynch_replies).  *)
ToldOnce ==
    \A r \in Ids :
        /\ told[r] <= 1
        /\ req[r].cb /\ r \notin cbtab => told[r] = 1
        /\ ~req[r].cb /\ r \notin table => Answered(r)
        /\ r \in orb.queue \cup arrived => r \in cbtab

(* A call is done again synchronously only when the device did not execute *)
(* it, and will not: never after a timeout or a connection lost while the  *)
(* reply was awaited (command_inout_reply, read_attr_except,               *)
(* write_attr_except).                                                     *)
NotReplayed == redone \cap orb.ran = {}

(* In the push sub-model the callbacks of all requests are fired: no       *)
(* wake-up of the thread is lost (command_inout_asynch, run_undetached).   *)
Delivered == (push /\ cbtab # {}) ~> (cbtab = {} \/ ~push)

(* Every call returns, also one that waits for replies without a timeout   *)
(* while the replies of other proxies arrive (get_asynch_replies).         *)
Returned == \A t \in Users : ~At(t, "idle") ~> At(t, "idle")
=============================================================================
