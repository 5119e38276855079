------------------------------ MODULE PollWorks ------------------------------
(***************************************************************************)
(* The work of one polling thread (class PollThread): the list of works    *)
(* ordered by wake-up date, the externally triggered works, and what the   *)
(* commands of the administration device do to them.  How a command        *)
(* reaches the thread is PollChannel; here a command is executed as soon   *)
(* as it is sent, together with the change of the device's list of polled  *)
(* objects (poll_list) that its sender makes.                              *)
(*                                                                         *)
(* All dates are relative to the clock: time passes by subtracting from    *)
(* every date, so that runs of any length have finitely many states.       *)
(***************************************************************************)
EXTENDS Integers, Sequences, SequencesExt, FiniteSets

CONSTANTS
    PollObjs,           \* set of [dev, type, name]; type is "cmd" or "attr"
    Periods,           \* polling periods; 0 means externally triggered
    Scenarios,         \* what clients and polled objects ask for, see below
    Uninitialised,     \* values of a needed_time that was never written
    DiscardThreshold,  \* DISCARD_THRESHOLD
    PollLoopNb,        \* POLL_LOOP_NB
    PollingBef9,       \* polling_bef_9
    MaxSelf,           \* bound: requests of a polled object during one poll
    NotPolled,
    NoItem,
    NoSleep            \* a sleep without value: std::nullopt

(***************************************************************************)
(* In a scenario some of the objects are ever polled, with some of the     *)
(* periods; updates and self_updates are the changes <<old, new>> of a     *)
(* period asked for by clients and by the object that is being polled;     *)
(* self_rem says whether a polled object may stop its own polling, and     *)
(* needed_times how long a poll may last.                                  *)
(***************************************************************************)
Scenario ==
    [objects : SUBSET PollObjs, periods : SUBSET Periods,
     updates : SUBSET (Periods \X Periods), self_updates : SUBSET (Periods \X Periods),
     self_rem : BOOLEAN, needed_times : SUBSET Nat]

(* An item of the lists of works, class WorkItem. *)
WorkItem ==
    [dev : {o.dev : o \in PollObjs}, type : {o.type : o \in PollObjs},
     name : Seq({o.name : o \in PollObjs}), update : Periods, date : Int, needed : Int]

ASSUME WorksAssumption ==
    /\ \A a, b \in PollObjs : a.dev = b.dev /\ a.type = b.type /\ a.name = b.name => a = b
    /\ Periods \subseteq Nat
    /\ Scenarios \subseteq Scenario
    /\ Uninitialised \subseteq Int
    /\ DiscardThreshold \in Nat
    /\ PollLoopNb \in Nat \ {0}
    /\ PollingBef9 \in BOOLEAN
    /\ MaxSelf \in Nat
    /\ NotPolled \notin Nat
    /\ NoItem \notin WorkItem
    /\ NoSleep \notin Int

VARIABLES
    scenario,         \* chosen at the start, never changed
    poll_list,        \* [PollObjs -> Periods \cup {NotPolled}], the PollObj of the devices
    works,            \* Seq(Item), sorted by date
    ext_trig_works,   \* Seq(Item)
    tmp,              \* the item being polled, NoItem if none
    rem_upd,          \* Seq of <<period, name>>
    auto_upd,         \* Seq of <<period, name>>
    now,              \* the thread's now
    new_upd,          \* local_cmd.new_upd
    self,             \* requests of the polled object during this poll
    tune_ctr, need_two_tuning, previous_nb_late,
    sleep,            \* how long get_command waits, or NoSleep
    polling_stop

works_vars == <<scenario, poll_list, works, ext_trig_works, tmp, rem_upd, auto_upd, now, new_upd,
                self, tune_ctr, need_two_tuning, previous_nb_late, sleep, polling_stop>>

Item(o, period, date) ==
    [dev |-> o.dev, type |-> o.type, name |-> <<o.name>>, update |-> period,
     date |-> date, needed |-> 0]

WorksInit ==
    /\ scenario \in Scenarios
    /\ poll_list = [o \in PollObjs |-> NotPolled]
    /\ works = <<>> /\ ext_trig_works = <<>>
    /\ tmp = NoItem
    /\ rem_upd = <<>> /\ auto_upd = <<>>
    /\ now = 0 /\ new_upd = 0 /\ self = 0
    /\ tune_ctr = 1 /\ need_two_tuning = FALSE /\ previous_nb_late = 0
    /\ sleep = 1
    /\ polling_stop = TRUE

-----------------------------------------------------------------------------
(* Operations on lists of items. *)

Polls(w, o) == w.dev = o.dev /\ w.type = o.type /\ Contains(w.name, o.name)
IndexOf(ws, o) == SelectInSeq(ws, LAMBDA w : Polls(w, o))

(* remove_if: the elements of s that are not at the indexes I, in order.    *)
RemoveIf(s, I) ==
    LET kept[i \in 0 .. Len(s)] ==
            IF i = 0 THEN <<>>
            ELSE IF i \in I THEN kept[i - 1] ELSE Append(kept[i - 1], s[i])
    IN  kept[Len(s)]

(* The name leaves the first item that has it; an item without name goes.   *)
RemoveName(ws, o) ==
    LET i == IndexOf(ws, o)
        names == RemoveFirst(ws[i].name, o.name)
    IN  IF i = 0 THEN ws
        ELSE IF names = <<>> THEN RemoveAt(ws, i)
        ELSE [ws EXCEPT ![i].name = names]

(* insert_in_list: before the first item that is not earlier.               *)
Insert(ws, w) ==
    LET i == SelectInSeq(ws, LAMBDA x : ~ (x.date < w.date))
    IN  IF i = 0 THEN Append(ws, w) ELSE InsertAt(ws, i, w)

(* Attributes of a device with the same period share one item, so that they *)
(* are read by one read_attributes (devices of IDL version 4 and later).    *)
Merges(type) == type = "attr" /\ ~ PollingBef9
IndexToMerge(ws, w) ==
    IF Merges(w.type)
    THEN SelectInSeq(ws, LAMBDA x : x.dev = w.dev /\ x.update = w.update /\ x.type = w.type)
    ELSE 0

(* Faulty variant: no item to share is looked for.                          *)
AddInsertSeparately(ws, w) == Insert(ws, w)

AddInsert(ws, w) ==
    LET i == IndexToMerge(ws, w)
    IN  IF i = 0 THEN Insert(ws, w)
        ELSE [ws EXCEPT ![i].name = Append(@, w.name[1])]

Shift(ws, d) == [i \in DOMAIN ws |-> [ws[i] EXCEPT !.date = @ - d]]

-----------------------------------------------------------------------------
(* tune_list(true): the works are spread over the shortest period. *)

Quotient(a, b) == IF b = 0 THEN 0 ELSE a \div b

(* Faulty variant: the date of the previous work is forgotten.              *)
TunedDateAlone(prev, w, delta) == prev.needed + delta

TunedDate(prev, w, delta) ==
    LET n == Quotient(w.date - prev.date, prev.update)
        next_prev == IF w.date > prev.date THEN prev.date + n * prev.update ELSE prev.date
    IN  next_prev + prev.needed + delta

TuneList(ws, start) ==
    LET sum[i \in 0 .. Len(ws)] == IF i = 0 THEN 0 ELSE sum[i - 1] + ws[i].needed
        needed_sum == sum[Len(ws)]
        min_upd == Min({ws[i].update : i \in DOMAIN ws})
        delta == (min_upd - needed_sum) \div Len(ws)
        next_tuning == start + PollLoopNb * min_upd
        tuned[i \in 1 .. Len(ws)] ==
            IF i = 1 \/ ~ (ws[i].date < next_tuning) THEN ws[i]
            ELSE [ws[i] EXCEPT !.date = TunedDate(tuned[i - 1], ws[i], delta)]
    IN  IF Len(ws) < 2 \/ needed_sum > min_upd THEN ws
        ELSE [i \in 1 .. Len(ws) |-> tuned[i]]

(* The discard loop of compute_sleep_time: while the first work is late by  *)
(* more than the threshold it is moved by one period.  The loop ends after  *)
(* at most fuel rounds if no period is zero.                                *)
Late(w) == - w.date > DiscardThreshold

(* Faulty variant: a late work is taken out and not put back.               *)
DiscardForGood(ws) ==
    [works |-> IF Len(ws) > 1 THEN Tail(ws) ELSE ws, count |-> 1]

Discard(ws) ==
    LET fuel == Cardinality(UNION {{i} \X (1 .. - ws[i].date) : i \in DOMAIN ws})
        round[n \in 0 .. fuel] ==
            IF n = 0 THEN [works |-> ws, count |-> 0]
            ELSE LET r == round[n - 1]
                     w == Head(r.works)
                 IN  IF ~ Late(w) THEN r
                     ELSE [works |-> Tail(Insert(r.works, [w EXCEPT !.date = @ + w.update])),
                           count |-> r.count + 1]
    IN  round[fuel]

(* compute_sleep_time, with after = 0: the works it leaves, how long to     *)
(* sleep, and the number of late works to remember.                         *)
ComputeSleepTime(ws) ==
    LET nb_late == IF PollingBef9 THEN 0 ELSE Cardinality({i \in DOMAIN ws : Late(ws[i])})
        discard == \/ PollingBef9
                   \/ nb_late # 0 /\ nb_late = Len(ws)
                   \/ nb_late # 0 /\ previous_nb_late # 0 /\ ~ (nb_late < previous_nb_late)
        next == Head(ws).date
        d == Discard(ws)
        first == Head(d.works).date
    IN  IF ws = <<>>
        THEN [works |-> ws, count |-> 0, sleep |-> sleep, nb_late |-> previous_nb_late]
        ELSE IF nb_late # 0 /\ ~ discard
        THEN [works |-> ws, count |-> 0, sleep |-> NoSleep, nb_late |-> nb_late]
        ELSE IF next >= 0
        THEN [works |-> ws, count |-> 0, sleep |-> next, nb_late |-> 0]
        ELSE IF - next < DiscardThreshold
        THEN [works |-> ws, count |-> 0, sleep |-> NoSleep, nb_late |-> 0]
        ELSE [works |-> d.works, count |-> d.count, nb_late |-> 0,
              sleep |-> IF first < DiscardThreshold /\ - first < DiscardThreshold
                        THEN NoSleep ELSE first]

(* The end of an iteration of the main loop of the thread: the list is      *)
(* tuned from time to time, and the sleep until the next poll computed.     *)
EndOfLoop(ws, ctr, two, start) ==
    LET tuned == IF ctr <= 0 THEN TuneList(ws, start) ELSE ws
        ctr1 == IF ctr > 0 THEN ctr ELSE IF two THEN 4 * Len(ws) ELSE PollLoopNb
        s == ComputeSleepTime(tuned)
    IN  /\ works' = s.works
        /\ tune_ctr' = ctr1 - s.count
        /\ need_two_tuning' = (two /\ ctr > 0)
        /\ previous_nb_late' = s.nb_late
        /\ sleep' = s.sleep

-----------------------------------------------------------------------------
(* execute_cmd: what a command does to the lists, as a function of the      *)
(* state of the thread [works, ext, rem, auto, now, ctr, two].              *)

Thread(ws, ext, start) ==
    [works |-> ws, ext |-> ext, rem |-> rem_upd, auto |-> auto_upd, now |-> start,
     ctr |-> tune_ctr, two |-> need_two_tuning]

(* POLL_ADD_OBJ *)
AddObj(th, o, period, delta) ==
    LET w == Item(o, period, IF period = 0 THEN 0 ELSE th.now + delta)
        i == IndexToMerge(th.works, w)
    IN  IF i # 0
        THEN [th EXCEPT !.works[i].name = Append(@, o.name)]
        ELSE IF period = 0 THEN [th EXCEPT !.ext = Append(@, w)]
        ELSE [th EXCEPT !.works = Insert(@, w),
                        !.ctr = 4 * (Len(th.works) + 1), !.two = TRUE]

(* POLL_REM_OBJ and POLL_REM_EXT_TRIG_OBJ *)
RemObj(th, o) == [th EXCEPT !.works = RemoveName(@, o)]
RemExtTrigObj(th, o) == [th EXCEPT !.ext = RemoveName(@, o)]

(* POLL_REM_DEV *)
RemDev(th, d) ==
    [th EXCEPT !.works = RemoveIf(@, {i \in DOMAIN @ : @[i].dev = d}),
               !.ext = RemoveIf(@, {i \in DOMAIN @ : @[i].dev = d})]

(* POLL_UPD_PERIOD to a period that is not zero.  If the list of works is   *)
(* empty the object is looked for in the externally triggered works; the    *)
(* needed_time of the work made from it is read before it is written.       *)
UpdPeriodic(th, o, period, junk) ==
    LET ext == IndexOf(th.ext, o)
    IN  IF th.works # <<>>
        THEN [th EXCEPT !.works = AddInsert(RemoveName(@, o), Item(o, period, th.now + period)),
                        !.now = @ + period,
                        !.ctr = 0,
                        !.rem = IF IndexOf(th.works, o) = 0
                                THEN Append(@, <<period, o.name>>) ELSE @]
        ELSE IF ext # 0
        THEN [th EXCEPT !.ext = RemoveAt(@, ext),
                        !.works = <<[Item(o, period, th.now) EXCEPT !.needed = junk]>>]
        ELSE [th EXCEPT !.auto = Append(@, <<period, o.name>>)]

(* POLL_UPD_PERIOD to zero: the object goes to the end of the externally    *)
(* triggered works; if it was not in the list of works, the first of the    *)
(* externally triggered works with its name comes back, with both names.    *)
UpdTriggered(th, o, junk) ==
    LET ext == Append(th.ext, Item(o, 0, 0))
    IN  IF IndexOf(th.works, o) # 0
        THEN [th EXCEPT !.works = RemoveName(@, o), !.ext = ext]
        ELSE [th EXCEPT !.ext = RemoveAt(ext, IndexOf(ext, o)),
                        !.works = Insert(@, [Item(o, 0, th.now) EXCEPT
                                                !.name = <<o.name, o.name>>, !.needed = junk])]

UpdPeriod(th, o, period, junk) ==
    IF period = 0 THEN UpdTriggered(th, o, junk) ELSE UpdPeriodic(th, o, period, junk)

-----------------------------------------------------------------------------
(* Commands received while the thread sleeps, d time units after it began   *)
(* to; a sleep of exactly zero is not a sleep.                              *)

Asleep == tmp = NoItem /\ sleep # 0
SleepTime == IF sleep = NoSleep THEN 0 ELSE IF sleep < 0 THEN 0 ELSE sleep
Elapsed == IF works = <<>> THEN {0} ELSE 0 .. SleepTime

(* The state of the thread d time units later, when the command wakes it.   *)
Woken(d) == Thread(Shift(works, d), ext_trig_works, 0)

(* One iteration of the loop, with a command that leaves the state th.      *)
Execute(th) ==
    /\ ext_trig_works' = th.ext
    /\ rem_upd' = th.rem
    /\ auto_upd' = th.auto
    /\ now' = 0
    /\ EndOfLoop(th.works, th.ctr, th.two, th.now)

AddObjPolling(o, period, delta) ==
    /\ Asleep /\ poll_list[o] = NotPolled
    /\ o \in scenario.objects /\ period \in scenario.periods
    /\ poll_list' = [poll_list EXCEPT ![o] = period]
    /\ \E d \in Elapsed : Execute(AddObj(Woken(d), o, period, delta))
    /\ UNCHANGED <<scenario, tmp, new_upd, self, polling_stop>>

RemObjPolling(o) ==
    /\ Asleep /\ poll_list[o] # NotPolled
    /\ poll_list' = [poll_list EXCEPT ![o] = NotPolled]
    /\ \E d \in Elapsed :
          Execute(IF poll_list[o] = 0 THEN RemExtTrigObj(Woken(d), o) ELSE RemObj(Woken(d), o))
    /\ UNCHANGED <<scenario, tmp, new_upd, self, polling_stop>>

UpdObjPollingPeriod(o, period) ==
    /\ Asleep /\ <<poll_list[o], period>> \in scenario.updates
    /\ poll_list' = [poll_list EXCEPT ![o] = period]
    /\ new_upd' = period
    /\ \E d \in Elapsed, junk \in Uninitialised :
          Execute(UpdPeriod(Woken(d), o, period, junk))
    /\ UNCHANGED <<scenario, tmp, self, polling_stop>>

(* DeviceImpl::stop_polling, when a device is deleted or restarted. *)
StopDevicePolling(dev) ==
    /\ Asleep
    /\ \E o \in PollObjs : o.dev = dev /\ poll_list[o] # NotPolled
    /\ poll_list' = [o \in PollObjs |-> IF o.dev = dev THEN NotPolled ELSE poll_list[o]]
    /\ \E d \in Elapsed : Execute(RemDev(Woken(d), dev))
    /\ UNCHANGED <<scenario, tmp, new_upd, self, polling_stop>>

(* POLL_START and POLL_STOP *)
StartStop ==
    /\ Asleep
    /\ polling_stop' = ~ polling_stop
    /\ \E d \in Elapsed : Execute(Woken(d))
    /\ UNCHANGED <<scenario, poll_list, tmp, new_upd, self>>

-----------------------------------------------------------------------------
(* one_more_poll: the first work leaves the list and is polled; meanwhile   *)
(* the polled object may change its own polling; then the work goes back.   *)

StartPoll ==
    /\ tmp = NoItem /\ works # <<>>
    /\ LET ws == Shift(works, SleepTime)
       IN  tmp' = Head(ws) /\ works' = Tail(ws)
    /\ now' = 0 /\ self' = 0
    /\ UNCHANGED <<scenario, poll_list, ext_trig_works, rem_upd, auto_upd, new_upd, tune_ctr,
                   need_two_tuning, previous_nb_late, sleep, polling_stop>>

(* A request made by the polled object o itself, executed at once by the    *)
(* polling thread (set_local_cmd and execute_cmd).                          *)
SelfExecute(o, th) ==
    /\ tmp # NoItem /\ ~ polling_stop /\ self < MaxSelf
    /\ Polls(tmp, o) /\ poll_list[o] # NotPolled
    /\ self' = self + 1
    /\ works' = th.works
    /\ ext_trig_works' = th.ext
    /\ rem_upd' = th.rem
    /\ auto_upd' = th.auto
    /\ now' = th.now
    /\ tune_ctr' = th.ctr
    /\ need_two_tuning' = th.two
    /\ UNCHANGED <<scenario, tmp, previous_nb_late, sleep, polling_stop>>

SelfUpdPeriod(o, period) ==
    /\ <<poll_list[o], period>> \in scenario.self_updates
    /\ \E junk \in Uninitialised :
          SelfExecute(o, UpdPeriod(Thread(works, ext_trig_works, now), o, period, junk))
    /\ poll_list' = [poll_list EXCEPT ![o] = period]
    /\ new_upd' = period

(* How often the object is in a list. *)
Occurrences(ws, o) ==
    Cardinality({p \in UNION {{i} \X DOMAIN ws[i].name : i \in DOMAIN ws} :
                    LET w == ws[p[1]]
                    IN  w.dev = o.dev /\ w.type = o.type /\ w.name[p[2]] = o.name})

(* An object that stops its own polling; if it is the last one of the       *)
(* thread, the thread exits as well (POLL_EXIT, see PollChannel).  Bound: no *)
(* work is left over from such a removal.                                   *)
SelfRemObj(o) ==
    /\ scenario.self_rem
    /\ \A x \in PollObjs : Occurrences(works, x) <= IF poll_list[x] = NotPolled THEN 0 ELSE 1
    /\ Occurrences(works, o) = 0 /\ tmp # NoItem /\ Occurrences(<<tmp>>, o) = 1
    /\ \E other \in PollObjs \ {o} : poll_list[other] # NotPolled
    /\ SelfExecute(o, LET th == Thread(works, ext_trig_works, now)
                      IN  IF poll_list[o] = 0 THEN RemExtTrigObj(th, o) ELSE RemObj(th, o))
    /\ poll_list' = [poll_list EXCEPT ![o] = NotPolled]
    /\ UNCHANGED new_upd

(* The item goes back, one period later, without the names given away.      *)
Reinsert(ws, w, given) ==
    LET names == RemoveIf(w.name, {k \in DOMAIN w.name : \E i \in DOMAIN given : given[i][2] = w.name[k]})
    IN  IF names = <<>> THEN ws
        ELSE Insert(ws, [w EXCEPT !.name = names, !.date = @ + w.update])

(* The new periods of the objects that changed their own.                   *)
ApplyAutoUpd(ws, w, start) ==
    LET Applied(s, e) ==
            LET i == SelectInSeq(s.works, LAMBDA x : /\ x.dev = w.dev /\ x.type = w.type
                                                     /\ x.update = e[1])
                item == [w EXCEPT !.name = <<e[2]>>, !.update = e[1],
                                  !.date = s.now + new_upd, !.needed = 0]
            IN  IF i # 0
                THEN [s EXCEPT !.works[i].name = Append(@, e[2])]
                ELSE [works |-> Insert(s.works, item), now |-> s.now + new_upd]
        applied[k \in 0 .. Len(auto_upd)] ==
            IF k = 0 THEN [works |-> ws, now |-> start] ELSE Applied(applied[k - 1], auto_upd[k])
    IN  applied[Len(auto_upd)]

(* Faulty variant: rem_upd is forgotten.                                    *)
EndPollForgetsRemUpd(needed) ==
    LET w == [tmp EXCEPT !.date = @ - needed,
                         !.needed = IF polling_stop THEN @ ELSE needed]
        start == now - needed
        ws == Shift(works, needed)
        done == ApplyAutoUpd(Reinsert(ws, w, auto_upd), w, start)
    IN  /\ tmp # NoItem
        /\ tmp' = NoItem /\ auto_upd' = <<>> /\ now' = 0 /\ self' = 0
        /\ rem_upd' = IF auto_upd = <<>> THEN <<>> ELSE rem_upd
        /\ UNCHANGED <<scenario, poll_list, ext_trig_works, new_upd, polling_stop>>
        /\ EndOfLoop(done.works, tune_ctr - 1, need_two_tuning, done.now)

EndPoll(needed) ==
    LET w == [tmp EXCEPT !.date = @ - needed,
                         !.needed = IF polling_stop THEN @ ELSE needed]
        start == now - needed
        ws == Shift(works, needed)
        given == IF auto_upd = <<>> THEN rem_upd ELSE auto_upd
        done == ApplyAutoUpd(Reinsert(ws, w, given), w, start)
    IN  /\ tmp # NoItem
        /\ tmp' = NoItem /\ auto_upd' = <<>> /\ now' = 0 /\ self' = 0
        /\ rem_upd' = IF auto_upd = <<>> THEN <<>> ELSE rem_upd
        /\ UNCHANGED <<scenario, poll_list, ext_trig_works, new_upd, polling_stop>>
        /\ EndOfLoop(done.works, tune_ctr - 1, need_two_tuning, done.now)

-----------------------------------------------------------------------------

Deltas == {0, 1}

WorksNext ==
    \/ \E o \in PollObjs :
          \/ \E p \in Periods, delta \in Deltas : AddObjPolling(o, p, delta)
          \/ RemObjPolling(o)
          \/ \E p \in Periods : UpdObjPollingPeriod(o, p)
          \/ \E p \in Periods : SelfUpdPeriod(o, p)
          \/ SelfRemObj(o)
    \/ \E d \in {o.dev : o \in PollObjs} : StopDevicePolling(d)
    \/ StartStop
    \/ StartPoll
    \/ \E n \in scenario.needed_times : EndPoll(n)

(* The polling thread runs, and a poll ends; commands are not fair.  This    *)
(* is weak fairness of Poll, with its enabling condition written out.       *)
Poll == StartPoll \/ \E n \in scenario.needed_times : EndPoll(n)
CanPoll == tmp # NoItem \/ works # <<>>

Fairness == []<>~CanPoll \/ []<><<Poll>>_works_vars

WorksSpec == WorksInit /\ [][WorksNext]_works_vars

FairSpec == WorksSpec /\ Fairness

-----------------------------------------------------------------------------

(* The lists of works and the work being polled consist of items, with names *)
(* and periods of objects that exist; the sleep has a length or is none.     *)
WorksTypeOK ==
    /\ poll_list \in [PollObjs -> Periods \cup {NotPolled}]
    /\ sleep \in Int \cup {NoSleep}
    /\ works \in Seq(WorkItem) /\ ext_trig_works \in Seq(WorkItem)
    /\ tmp \in WorkItem \cup {NoItem}
    /\ \A i \in DOMAIN works : works[i].name # <<>>

(* Between two polls the lists of the thread say what the devices say: an   *)
(* object with a period is in exactly one work, of that period; one without *)
(* is exactly once among the externally triggered works; one that is not    *)
(* polled is nowhere, and no work is without an object.  An object that      *)
(* stopped its own polling is the exception: the work it was polled by goes  *)
(* back to the list.                                                         *)
WorksMatchPollList ==
    tmp = NoItem /\ ~ scenario.self_rem =>
        \A o \in PollObjs :
            /\ Occurrences(works, o) = IF poll_list[o] \in {0, NotPolled} THEN 0 ELSE 1
            /\ Occurrences(ext_trig_works, o) = IF poll_list[o] = 0 THEN 1 ELSE 0
            /\ \A i \in DOMAIN works :
                  works[i].name # <<>> /\ (Polls(works[i], o) => works[i].update = poll_list[o])

(* The list of works is ordered by date: the first one is the next to do,   *)
(* although tune_list computes all dates anew and in place.  A work whose   *)
(* date is after the next tuning keeps its date, so this needs a PollLoopNb *)
(* that is large compared with the ratio of two periods.                    *)
Sorted ==
    \A i \in 1 .. Len(works) - 1 : works[i].date <= works[i + 1].date

(* A polled object that asks for a period asks for another one. *)
NewPeriods == \A u \in scenario.self_updates : u[1] # u[2]

(* Attributes of one device with one period are in one work, and are read   *)
(* by one read_attributes (add_insert_in_list).  The exception is an         *)
(* attribute that asks, while it is polled with others, for the period it    *)
(* already has: it gets a work of its own, as the shared one is not in the   *)
(* list at that moment.                                                      *)
AttributesMerged ==
    tmp = NoItem /\ NewPeriods =>
        \A i, j \in DOMAIN works :
            /\ Merges(works[i].type) /\ works[i].type = works[j].type
            /\ works[i].dev = works[j].dev /\ works[i].update = works[j].update
            => i = j

(* Every object with a period is polled again and again, although tuning    *)
(* and discarding move the works, once no more commands arrive: only the    *)
(* beginning and the end of a poll change tmp.  The works together need no  *)
(* more time than the shortest period; in a thread that has more to do, the *)
(* discard loop may skip the same object for ever.                          *)
NotStarved ==
    <>[][tmp' # tmp]_works_vars => \A o \in PollObjs :
        []<>((tmp # NoItem /\ Polls(tmp, o)) \/ poll_list[o] \in {0, NotPolled})

=============================================================================
