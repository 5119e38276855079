------------------------ MODULE AsynRequests_proofs ------------------------
(***************************************************************************)
(* Proofs about asynchronous requests, for any number of proxies, threads  *)
(* and requests: their types, that no call the device may execute is done  *)
(* again, and, for the applications in which each reply has one reader,    *)
(* that it reaches the user once and that the counters of pending requests *)
(* are right.                                                              *)
(***************************************************************************)
EXTENDS AsynRequests, LoopTheorems, FiniteSetTheorems, SequenceTheorems

Request == [dev : Proxies, kind : Kinds, cb : BOOLEAN]
Places == {"idle", "send", "signal", "reply", "fetch", "sweep", "fire", "remove",
           "check", "lock", "asleep", "woken", "exit"}

LEMMA ReqTypes ==
    ASSUME TypeOK
    PROVE  /\ Len(req) \in Nat /\ Ids = 1 .. Len(req) /\ IsFiniteSet(Ids)
           /\ \A r \in Ids : /\ req[r].dev \in Proxies /\ req[r].kind \in Kinds /\ req[r].cb \in BOOLEAN
                            /\ told[r] \in Nat
<1>1. req \in Seq(Request)
  BY DEF TypeOK, Request
<1>2. Ids = 1 .. Len(req) /\ Len(req) \in Nat /\ \A r \in 1 .. Len(req) : req[r] \in Request
  BY <1>1 DEF Ids
<1>3. IsFiniteSet(Ids)
  BY <1>2, FS_Interval
<1>4. \A r \in Ids : told[r] \in Nat
  BY DEF TypeOK
<1> QED BY <1>2, <1>3, <1>4 DEF Request

(* What a new request adds. *)
LEMMA IssueFacts ==
    ASSUME TypeOK, NEW p \in Proxies, NEW k \in Kinds, NEW cb \in BOOLEAN, Issue(p, k, cb)
    PROVE  /\ Len(req) \in Nat /\ Ids = 1 .. Len(req) /\ Ids' = Ids \cup {Len(req) + 1}
           /\ Len(req) + 1 \notin Ids
           /\ req' \in Seq(Request)
           /\ req'[Len(req) + 1] = [dev |-> p, kind |-> k, cb |-> cb]
           /\ \A r \in Ids : req'[r] = req[r]
           /\ told' \in [Ids' -> Nat] /\ told'[Len(req) + 1] = 0
           /\ \A r \in Ids : told'[r] = told[r]
           /\ orb' \in [answer : [Ids' -> Answers], ran : SUBSET Ids, queue : SUBSET Ids]
           /\ orb'.ran = orb.ran /\ orb'.queue = orb.queue
           /\ orb'.answer[Len(req) + 1] = "none"
           /\ \A r \in Ids : orb'.answer[r] = orb.answer[r]
<1> DEFINE n == Len(req)
           new == [dev |-> p, kind |-> k, cb |-> cb]
<1>1. req \in Seq(Request) /\ n \in Nat /\ Ids = 1 .. n
  BY DEF TypeOK, Ids, Request
<1>2. new \in Request
  BY DEF Request
<1>3. /\ req' = Append(req, new) /\ told' = Append(told, 0)
      /\ orb' = [orb EXCEPT !.answer = Append(orb.answer, "none")]
  BY DEF Issue
<1>4. req' \in Seq(Request) /\ Len(req') = n + 1 /\ req'[n + 1] = new /\ \A r \in 1 .. n : req'[r] = req[r]
  BY <1>1, <1>2, <1>3
<1>5. Ids' = 1 .. n + 1 /\ 1 .. n + 1 = (1 .. n) \cup {n + 1} /\ n + 1 \notin 1 .. n
  BY <1>1, <1>4 DEF Ids
<1>6. told \in [1 .. n -> Nat] /\ orb \in [answer : [1 .. n -> Answers], ran : SUBSET Ids, queue : SUBSET Ids]
  BY <1>1 DEF TypeOK
<1>7. /\ told' \in [1 .. n + 1 -> Nat] /\ told'[n + 1] = 0 /\ \A r \in 1 .. n : told'[r] = told[r]
  <2>1. told \in Seq(Nat)
    BY <1>1, <1>6, SeqDef
  <2>2. Len(told) = n
    BY <1>6, <2>1, LenProperties
  <2>3. told' \in Seq(Nat) /\ Len(told') = n + 1
    BY <1>3, <2>1, <2>2
  <2>4. told' \in [1 .. n + 1 -> Nat]
    BY <2>3, LenProperties
  <2> QED BY <1>3, <2>1, <2>2, <2>4
<1>8. "none" \in Answers /\ orb.answer \in [1 .. n -> Answers]
  BY <1>6 DEF Answers
<1>9. /\ Append(orb.answer, "none") \in [1 .. n + 1 -> Answers]
      /\ Append(orb.answer, "none")[n + 1] = "none"
      /\ \A r \in 1 .. n : Append(orb.answer, "none")[r] = orb.answer[r]
  <2> DEFINE s == orb.answer
  <2>1. s \in Seq(Answers)
    BY <1>1, <1>8, SeqDef
  <2>2. s \in [1 .. n -> Answers] /\ "none" \in Answers
    BY <1>8
  <2> HIDE DEF s
  <2>3. Len(s) = n
    BY <2>1, <2>2, LenProperties
  <2>4. Append(s, "none") \in Seq(Answers) /\ Len(Append(s, "none")) = n + 1
    BY <2>1, <2>2, <2>3
  <2>5. Append(s, "none") \in [1 .. n + 1 -> Answers]
    BY <2>4, LenProperties
  <2>6. Append(s, "none")[n + 1] = "none" /\ \A r \in 1 .. n : Append(s, "none")[r] = s[r]
    BY <2>1, <2>3
  <2> QED BY <2>5, <2>6 DEF s
<1>10. orb' = [answer |-> Append(orb.answer, "none"), ran |-> orb.ran, queue |-> orb.queue]
  BY <1>3, <1>6
<1> QED BY <1>1, <1>4, <1>5, <1>6, <1>7, <1>9, <1>10

(* The types of the records of threads, whose identifiers are requests. *)
WithIds == {"send", "reply", "fire", "remove"}
ThreadsOK(f) ==
    /\ f \in [Threads -> ThreadType]
    /\ \A t \in Threads : f[t].at \in WithIds => f[t].id \in Ids

LEMMA IdleTypes == Idle \in ThreadType /\ CbIdle \in ThreadType
BY DEF Idle, CbIdle, ThreadType, Calls

LEMMA ThreadsChanged ==
    ASSUME TypeOK, NEW t \in Threads, NEW x \in ThreadType, x.at \in WithIds => x.id \in Ids
    PROVE  ThreadsOK([thr EXCEPT ![t] = x])
BY DEF TypeOK, ThreadsOK, WithIds

LEMMA Returning ==
    ASSUME TypeOK, NEW t \in Threads
    PROVE  /\ Returns(t) => ThreadsOK(thr')
           /\ ThreadsOK([thr EXCEPT ![t] = Idle])
<1>1. Idle.at = "idle" /\ CbIdle.at \in {"check", "exit"}
  BY DEF Idle, CbIdle
<1>2. ThreadsOK([thr EXCEPT ![t] = Idle]) /\ ThreadsOK([thr EXCEPT ![t] = CbIdle])
  BY <1>1, IdleTypes, ThreadsChanged DEF WithIds
<1> QED BY <1>2 DEF Returns

(* A thread goes on to another place, with the request r in hand. *)
LEMMA Going ==
    ASSUME TypeOK, NEW t \in Threads, NEW w \in Places
    PROVE  /\ (w \in WithIds => thr[t].id \in Ids) => ThreadsOK([thr EXCEPT ![t].at = w])
           /\ \A r \in Ids : ThreadsOK([thr EXCEPT ![t].at = w, ![t].id = r])
           /\ \A r \in Ids, b \in {"fetch", "sweep"} :
                 ThreadsOK([thr EXCEPT ![t].at = w, ![t].id = r, ![t].back = b])
           /\ w \notin WithIds => ThreadsOK([thr EXCEPT ![t].at = w, ![t].id = 0])
           /\ w \notin WithIds => \A b \in {"fetch", "sweep"} :
                 ThreadsOK([thr EXCEPT ![t].at = w, ![t].id = 0, ![t].back = b])
<1>1. thr \in [Threads -> ThreadType]
  BY DEF TypeOK
<1>2. ASSUME NEW r \in Ids \cup {0}, NEW b \in {"fetch", "sweep"}, w \in WithIds => r \in Ids
      PROVE  ThreadsOK([thr EXCEPT ![t].at = w, ![t].id = r, ![t].back = b])
  <2> DEFINE x == [thr[t] EXCEPT !.at = w, !.id = r, !.back = b]
  <2>1. x \in ThreadType /\ x.at = w /\ x.id = r
    BY <1>1 DEF ThreadType, Places
  <2>2. ThreadsOK([thr EXCEPT ![t] = x])
    BY <1>2, <2>1, ThreadsChanged
  <2>3. [thr EXCEPT ![t].at = w, ![t].id = r, ![t].back = b] = [thr EXCEPT ![t] = x]
    BY <1>1
  <2> QED BY <2>2, <2>3
<1>3. ASSUME NEW r \in Ids \cup {0}, w \in WithIds => r \in Ids
      PROVE  ThreadsOK([thr EXCEPT ![t].at = w, ![t].id = r])
  <2> DEFINE x == [thr[t] EXCEPT !.at = w, !.id = r]
  <2>1. x \in ThreadType /\ x.at = w /\ x.id = r
    BY <1>1 DEF ThreadType, Places
  <2>2. ThreadsOK([thr EXCEPT ![t] = x])
    BY <1>3, <2>1, ThreadsChanged
  <2>3. [thr EXCEPT ![t].at = w, ![t].id = r] = [thr EXCEPT ![t] = x]
    BY <1>1
  <2> QED BY <2>2, <2>3
<1>4. ASSUME w \in WithIds => thr[t].id \in Ids PROVE ThreadsOK([thr EXCEPT ![t].at = w])
  <2> DEFINE x == [thr[t] EXCEPT !.at = w]
  <2>1. x \in ThreadType /\ x.at = w /\ x.id = thr[t].id
    BY <1>1 DEF ThreadType, Places
  <2>2. ThreadsOK([thr EXCEPT ![t] = x])
    BY <1>4, <2>1, ThreadsChanged
  <2>3. [thr EXCEPT ![t].at = w] = [thr EXCEPT ![t] = x]
    BY <1>1
  <2> QED BY <2>2, <2>3
<1> QED BY <1>2, <1>3, <1>4

-----------------------------------------------------------------------------
(* The loop of store_request over the cancelled requests. *)

Purging == [left : Seq(Ids), skip : BOOLEAN]

LEMMA PurgeDef ==
    ASSUME TypeOK
    PROVE  /\ DOMAIN Purge = 0 .. Len(cancelled)
           /\ Purge[0] = [left |-> <<>>, skip |-> FALSE]
           /\ \A i \in 1 .. Len(cancelled) :
                 Purge[i] = IF ~ Purge[i - 1].skip /\ RemoveCancelledRequest(cancelled[i])
                            THEN [left |-> Purge[i - 1].left, skip |-> TRUE]
                            ELSE [left |-> Append(Purge[i - 1].left, cancelled[i]), skip |-> FALSE]
<1> DEFINE n == Len(cancelled)
           first == [left |-> <<>>, skip |-> FALSE]
           Turn(i, s) == IF ~ s.skip /\ RemoveCancelledRequest(cancelled[i])
                         THEN [left |-> s.left, skip |-> TRUE]
                         ELSE [left |-> Append(s.left, cancelled[i]), skip |-> FALSE]
           step == [x \in (1 .. n) \X Purging |-> Turn(x[1], x[2])]
<1>1. n \in Nat /\ \A i \in 1 .. n : cancelled[i] \in Ids
  BY DEF TypeOK
<1>2. first \in Purging
  BY DEF Purging
<1>3. \A i \in 1 .. n : \A s \in Purging : Turn(i, s) \in Purging
  BY <1>1 DEF Purging
<1> HIDE DEF n, first, Turn
<1>4. step \in [(1 .. n) \X Purging -> Purging] /\ \A i \in 1 .. n : \A s \in Purging : step[<<i, s>>] = Turn(i, s)
  BY <1>3
<1> HIDE DEF step
<1>5. PICK f \in [0 .. n -> Purging] : f[0] = first /\ \A i \in 1 .. n : f[i] = step[<<i, f[i - 1]>>]
  <2>1. n \in Nat
    BY <1>1
  <2>2. step \in Turns(n, Purging)
    BY <1>4 DEF Turns
  <2>3. \E f : IsLoop(n, Purging, first, step, f)
    BY <1>2, <2>1, <2>2, LoopExists
  <2> QED BY <2>3 DEF IsLoop
<1>6. \A i \in 1 .. n : i - 1 \in 0 .. n /\ f[i - 1] \in Purging
  BY <1>1, <1>5
<1>7. \A i \in 1 .. n : f[i] = Turn(i, f[i - 1])
  BY <1>4, <1>5, <1>6
<1>8. f = [i \in 0 .. n |-> IF i = 0 THEN first ELSE Turn(i, f[i - 1])]
  BY <1>1, <1>5, <1>7
<1>9. Purge = [i \in 0 .. n |-> IF i = 0 THEN first ELSE Turn(i, Purge[i - 1])]
  BY <1>8 DEF Purge, n, first, Turn
<1> HIDE DEF Purge
<1>10. DOMAIN Purge = 0 .. n /\ Purge[0] = first /\ \A i \in 1 .. n : Purge[i] = Turn(i, Purge[i - 1])
  BY <1>1, <1>9
<1> QED BY <1>10 DEF n, first, Turn

(* What the loop keeps: some of the cancelled requests, each once, and all *)
(* of those that cannot be removed yet.                                    *)
LEMMA PurgedFacts ==
    ASSUME TypeOK
    PROVE  /\ Purged \in Seq(Ids) /\ IsInjective(Purged)
           /\ ToSet(Purged) \subseteq ToSet(cancelled)
           /\ \A r \in ToSet(cancelled) : ~ RemoveCancelledRequest(r) => r \in ToSet(Purged)
<1> DEFINE n == Len(cancelled)
           Kept(i, s) ==
              /\ s \in Purging
              /\ \A a, b \in DOMAIN s.left : s.left[a] = s.left[b] => a = b
              /\ \A a \in DOMAIN s.left : \E j \in 1 .. i : s.left[a] = cancelled[j]
              /\ \A j \in 1 .. i : ~ RemoveCancelledRequest(cancelled[j])
                    => \E a \in DOMAIN s.left : s.left[a] = cancelled[j]
           G == {i \in 0 .. n : Kept(i, Purge[i])}
<1>1. /\ n \in Nat /\ DOMAIN cancelled = 1 .. n /\ \A i \in 1 .. n : cancelled[i] \in Ids
      /\ \A i, j \in 1 .. n : cancelled[i] = cancelled[j] => i = j
  BY DEF TypeOK, IsInjective
<1>2. 0 \in G
  <2>1. Purge[0] = [left |-> <<>>, skip |-> FALSE]
    BY PurgeDef
  <2>2. Kept(0, [left |-> <<>>, skip |-> FALSE])
    BY DEF Purging
  <2> QED BY <1>1, <2>1, <2>2
<1>3. ASSUME NEW i \in 1 .. n, i - 1 \in G PROVE i \in G
  <2> DEFINE s == Purge[i - 1]
             u == Purge[i]
  <2>1. Kept(i - 1, s)
    BY <1>3
  <2>2. u = IF ~ s.skip /\ RemoveCancelledRequest(cancelled[i])
            THEN [left |-> s.left, skip |-> TRUE]
            ELSE [left |-> Append(s.left, cancelled[i]), skip |-> FALSE]
    BY PurgeDef
  <2>3. i \in 0 .. n /\ 1 .. i = (1 .. i - 1) \cup {i} /\ \A j \in 1 .. i - 1 : j \in 1 .. n /\ j # i
    BY <1>1
  <2> HIDE DEF s, u
  <2>4. s.left \in Seq(Ids) /\ cancelled[i] \in Ids
    BY <1>1, <2>1 DEF Purging
  <2>5. CASE ~ s.skip /\ RemoveCancelledRequest(cancelled[i])
    <3>1. u = [left |-> s.left, skip |-> TRUE]
      BY <2>2, <2>5
    <3>2. Kept(i, u)
      BY <2>1, <2>3, <2>4, <2>5, <3>1 DEF Purging
    <3> QED BY <2>3, <3>2 DEF u
  <2>6. CASE ~ (~ s.skip /\ RemoveCancelledRequest(cancelled[i]))
    <3> DEFINE l == s.left
               m == Append(l, cancelled[i])
    <3>1. u = [left |-> m, skip |-> FALSE] /\ l \in Seq(Ids)
      BY <2>2, <2>4, <2>6
    <3>2. /\ m \in Seq(Ids) /\ DOMAIN l = 1 .. Len(l) /\ DOMAIN m = 1 .. Len(l) + 1 /\ Len(l) \in Nat
          /\ m[Len(l) + 1] = cancelled[i] /\ \A a \in 1 .. Len(l) : m[a] = l[a]
      BY <2>4
    <3>3. u.left = m /\ u \in Purging
      BY <3>1, <3>2 DEF Purging
    <3>4. \A a \in DOMAIN l : \E j \in 1 .. i - 1 : l[a] = cancelled[j]
      BY <2>1
    <3>5. \A a, b \in DOMAIN l : l[a] = l[b] => a = b
      BY <2>1
    <3>6. \A j \in 1 .. i - 1 : ~ RemoveCancelledRequest(cancelled[j]) => \E a \in DOMAIN l : l[a] = cancelled[j]
      BY <2>1
    <3> HIDE DEF l, m
    <3>7. \A a \in DOMAIN l : l[a] # cancelled[i]
      BY <1>1, <2>3, <3>4
    <3>8. \A a, b \in DOMAIN m : m[a] = m[b] => a = b
      BY <3>2, <3>5, <3>7
    <3>9. \A a \in DOMAIN m : \E j \in 1 .. i : m[a] = cancelled[j]
      <4> TAKE a \in DOMAIN m
      <4>1. CASE a = Len(l) + 1
        BY <2>3, <3>2, <4>1
      <4>2. CASE a # Len(l) + 1
        <5>1. a \in DOMAIN l /\ m[a] = l[a]
          BY <3>2, <4>2
        <5>2. PICK j \in 1 .. i - 1 : l[a] = cancelled[j]
          BY <3>4, <5>1
        <5>3. j \in 1 .. i
          BY <2>3
        <5> QED BY <5>1, <5>2, <5>3
      <4> QED BY <4>1, <4>2
    <3>10. \A j \in 1 .. i : ~ RemoveCancelledRequest(cancelled[j]) => \E a \in DOMAIN m : m[a] = cancelled[j]
      <4> TAKE j \in 1 .. i
      <4>1. CASE j = i
        BY <3>2, <4>1
      <4>2. CASE j # i
        BY <2>3, <3>2, <3>6, <4>2
      <4> QED BY <4>1, <4>2
    <3>11. Kept(i, u)
      BY <3>3, <3>8, <3>9, <3>10
    <3> QED BY <2>3, <3>11 DEF u
  <2> QED BY <2>5, <2>6
<1>4. Kept(n, Purge[n])
  <2> HIDE DEF G
  <2>1. 0 .. n \subseteq G
    BY <1>1, <1>2, <1>3, UpTo
  <2> QED BY <1>1, <2>1 DEF G
<1> DEFINE l == Purge[n].left
<1>5. /\ l \in Seq(Ids) /\ \A a, b \in DOMAIN l : l[a] = l[b] => a = b
      /\ \A a \in DOMAIN l : \E j \in 1 .. n : l[a] = cancelled[j]
      /\ \A j \in 1 .. n : ~ RemoveCancelledRequest(cancelled[j]) => \E a \in DOMAIN l : l[a] = cancelled[j]
  BY <1>4 DEF Purging
<1> HIDE DEF l
<1>6. Purged = l
  BY DEF Purged, l
<1> QED BY <1>1, <1>5, <1>6 DEF IsInjective, ToSet

(* All the requests that are to be polled, cancelled at once. *)
LEMMA SetToSeqFacts ==
    ASSUME NEW S, IsFiniteSet(S)
    PROVE  SetToSeq(S) \in Seq(S) /\ IsInjective(SetToSeq(S)) /\ ToSet(SetToSeq(S)) = S
<1> DEFINE c == Cardinality(S)
<1>1. c \in Nat /\ ExistsBijection(1 .. c, S)
  BY FS_CardinalityType
<1>2. PICK f \in Bijection(1 .. c, S) : TRUE
  BY <1>1 DEF ExistsBijection
<1>3. f \in [1 .. c -> S] /\ IsInjective(f)
  BY <1>2 DEF Bijection, Injection
<1> DEFINE s == SetToSeq(S)
<1>4. s \in [1 .. c -> S] /\ IsInjective(s)
  BY <1>3 DEF SetToSeq
<1> HIDE DEF s
<1>5. s \in Seq(S)
  BY <1>1, <1>4, SeqDef
<1>6. s \in Injection(1 .. c, S)
  BY <1>4 DEF Injection
<1>7. Cardinality(1 .. c) = c
  BY <1>1, FS_Interval
<1>8. s \in Surjection(1 .. c, S)
  BY <1>6, <1>7, FS_Injection
<1>9. ToSet(s) = S
  BY <1>4, <1>8 DEF Surjection, ToSet
<1> QED BY <1>4, <1>5, <1>9 DEF s

-----------------------------------------------------------------------------
(* Types. *)

LEMMA AwakeOK == ASSUME NEW f, ThreadsOK(f) PROVE ThreadsOK(Awake(f))
<1>1. f \in [Threads -> ThreadType] /\ CbThread \in Threads
  BY DEF ThreadsOK, Threads
<1> DEFINE x == [f[CbThread] EXCEPT !.at = "woken"]
<1>2. x \in ThreadType /\ x.at = "woken"
  BY <1>1 DEF ThreadType
<1>3. [f EXCEPT ![CbThread].at = "woken"] = [f EXCEPT ![CbThread] = x]
  BY <1>1
<1>4. ThreadsOK([f EXCEPT ![CbThread] = x])
  BY <1>1, <1>2 DEF ThreadsOK, WithIds
<1> QED BY <1>3, <1>4 DEF Awake

(* A step that only moves a thread. *)
OnlyThreads == UNCHANGED <<scenario, req, tables, conn, push, stop, orb, up, told, redone>>

LEMMA OnlyThreadsType == ASSUME TypeOK, OnlyThreads, ThreadsOK(thr') PROVE TypeOK'
BY DEF TypeOK, OnlyThreads, ThreadsOK, WithIds, ThreadType, Ids, Threads, tables

(* The steps of a thread that only move it. *)
LEMMA MovingTypes ==
    ASSUME TypeOK, NEW t \in Threads,
           \/ \E r \in Ids : ReplyWait(t, r)
           \/ ReplyNotArrived(t) \/ Signal(t)
           \/ \E dev \in Proxies \cup {"all"}, call \in Calls : GetAsynchReplies(t, dev, call)
           \/ FetchEnds(t) \/ Sweep(t) \/ SweepEnds(t)
           \/ IsStopped \/ WaitForRequests \/ RunUndetached
    PROVE  TypeOK'
<1>0. {"reply", "fetch", "sweep", "fire", "exit", "lock", "asleep", "woken", "check"} \subseteq Places
      /\ CbThread \in Threads /\ {"fetch", "sweep", "exit", "lock", "asleep", "woken", "check"} \cap WithIds = {}
  BY DEF Places, Threads, WithIds
<1>1. ASSUME NEW r \in Ids, ReplyWait(t, r) PROVE TypeOK'
  BY <1>0, <1>1, Going, OnlyThreadsType DEF ReplyWait, OnlyThreads
<1>2. CASE ReplyNotArrived(t)
  BY <1>2, Returning, OnlyThreadsType DEF ReplyNotArrived, OnlyThreads
<1>3. CASE Signal(t)
  BY <1>3, Returning, AwakeOK, OnlyThreadsType DEF Signal, OnlyThreads
<1>4. ASSUME NEW dev \in Proxies \cup {"all"}, NEW call \in Calls, GetAsynchReplies(t, dev, call)
      PROVE  TypeOK'
  <2> DEFINE x == [Idle EXCEPT !.call = call, !.dev = dev, !.at = IF call = "poll" THEN "fetch" ELSE "sweep"]
  <2>1. x \in ThreadType /\ x.at \notin WithIds
    BY DEF Idle, ThreadType, WithIds
  <2>2. thr' = [thr EXCEPT ![t] = x] /\ OnlyThreads
    BY <1>4 DEF GetAsynchReplies, OnlyThreads
  <2> QED BY <2>1, <2>2, ThreadsChanged, OnlyThreadsType
<1>5. CASE FetchEnds(t) \/ SweepEnds(t)
  <2>1. Goes(t, "sweep") \/ Goes(t, "fetch") \/ Returns(t)
    BY <1>5 DEF FetchEnds, SweepEnds, Swept
  <2>2. ThreadsOK(thr')
    BY <1>0, <2>1, Going, Returning DEF Goes
  <2> QED BY <1>5, <2>2, OnlyThreadsType DEF FetchEnds, SweepEnds, OnlyThreads
<1>6. CASE Sweep(t)
  <2>1. PICK r \in arrived : thr' = [thr EXCEPT ![t].at = "fire", ![t].id = r, ![t].back = "sweep"]
    BY <1>6 DEF Sweep
  <2>2. r \in Ids
    BY DEF TypeOK
  <2>3. ThreadsOK(thr')
    BY <1>0, <2>1, <2>2, Going
  <2> QED BY <1>6, <2>3, OnlyThreadsType DEF Sweep, OnlyThreads
<1>7. CASE IsStopped \/ WaitForRequests \/ RunUndetached
  <2>1. PICK w \in {"exit", "lock", "asleep", "woken", "sweep", "check"} : Goes(CbThread, w)
    BY <1>7 DEF IsStopped, WaitForRequests, RunUndetached
  <2>2. w \in Places /\ w \notin WithIds /\ thr' = [thr EXCEPT ![CbThread].at = w]
    BY <1>0, <2>1 DEF Goes
  <2> HIDE <2>1
  <2>3. ThreadsOK(thr')
    BY <1>0, <2>2, Going
  <2> QED BY <1>7, <2>3, OnlyThreadsType DEF IsStopped, WaitForRequests, RunUndetached, OnlyThreads
<1> QED BY <1>1, <1>2, <1>3, <1>4, <1>5, <1>6, <1>7

(* A new request of either kind. *)
LEMMA AddTypes ==
    ASSUME TypeOK, NEW t \in Users, NEW p \in Proxies, NEW k \in Kinds, conn' \subseteq Proxies,
           AddAsynRequest(p, k) \/ AddAsynCbRequest(t, p, k)
    PROVE  TypeOK'
<1>0. t \in Threads /\ {TRUE, FALSE} \subseteq BOOLEAN
  BY DEF Threads
<1>1. \E cb \in BOOLEAN : Issue(p, k, cb)
  BY DEF AddAsynRequest, AddAsynCbRequest
<1> DEFINE new == Len(req) + 1
<1>2. /\ Ids' = Ids \cup {new} /\ new \notin Ids /\ new \in Ids'
      /\ req' \in Seq(Request) /\ \A r \in Ids : req'[r] = req[r]
      /\ told' \in [Ids' -> Nat]
      /\ orb' \in [answer : [Ids' -> Answers], ran : SUBSET Ids, queue : SUBSET Ids]
  BY <1>1, IssueFacts
<1>3. orb' \in [answer : [Ids' -> Answers], ran : SUBSET Ids', queue : SUBSET Ids']
  BY <1>2
<1>4. ThreadType \subseteq ThreadType'
  BY <1>2 DEF ThreadType
<1>5. CASE AddAsynRequest(p, k)
  <2>1. req'[new] = [dev |-> p, kind |-> k, cb |-> FALSE]
    BY <1>0, <1>5, IssueFacts DEF AddAsynRequest
  <2>2. /\ table' = (table \ (ToSet(cancelled) \ ToSet(Purged))) \cup {new}
        /\ cancelled' = Purged /\ ctr' = [ctr EXCEPT ![p] = @ + 1]
        /\ UNCHANGED <<scenario, cbtab, arrived, cbctr, thr, push, stop, up, redone>>
    BY <1>5 DEF AddAsynRequest
  <2>3. cancelled' \in Seq(Ids') /\ IsInjective(cancelled')
    <3>1. Purged \in Seq(Ids) /\ IsInjective(Purged)
      BY PurgedFacts
    <3> QED BY <1>2, <2>2, <3>1, SeqMonotonic
  <2>4. table' \subseteq {r \in Ids' : ~ req'[r].cb}
    <3>1. ~ req'[new].cb /\ \A r \in table : r \in Ids /\ ~ req[r].cb
      BY <2>1 DEF TypeOK
    <3>2. ASSUME NEW r \in table' PROVE r \in Ids' /\ ~ req'[r].cb
      <4>1. CASE r = new
        BY <1>2, <3>1, <4>1
      <4>2. CASE r \in table
        BY <1>2, <3>1, <4>2
      <4> QED BY <2>2, <4>1, <4>2
    <3> QED BY <3>2
  <2>5. cbtab' \subseteq {r \in Ids' : req'[r].cb} /\ arrived' \subseteq Ids' /\ redone' \subseteq Ids'
    BY <1>2, <2>2 DEF TypeOK
  <2>6. thr' \in [Threads -> ThreadType'] /\ ctr' \in [Proxies -> Int] /\ cbctr' \in [Proxies -> Int]
    BY <1>4, <2>2 DEF TypeOK
  <2>7. \A u \in Threads : thr'[u].at \in {"send", "reply", "fire", "remove"} => thr'[u].id \in Ids'
    BY <1>2, <2>2 DEF TypeOK
  <2> QED BY <1>2, <1>3, <2>2, <2>3, <2>4, <2>5, <2>6, <2>7 DEF TypeOK, Threads, Request
<1>6. CASE AddAsynCbRequest(t, p, k)
  <2>1. req'[new] = [dev |-> p, kind |-> k, cb |-> TRUE]
    BY <1>0, <1>6, IssueFacts DEF AddAsynCbRequest
  <2>2. /\ cbtab' = cbtab \cup {new} /\ cbctr' = [cbctr EXCEPT ![p] = @ + 1]
        /\ thr' = [thr EXCEPT ![t].at = "send", ![t].id = new]
        /\ UNCHANGED <<scenario, table, cancelled, arrived, ctr, push, stop, up, redone>>
    BY <1>6 DEF AddAsynCbRequest
  <2>3. cancelled' \in Seq(Ids') /\ IsInjective(cancelled')
    BY <1>2, <2>2, SeqMonotonic DEF TypeOK
  <2>4. cbtab' \subseteq {r \in Ids' : req'[r].cb}
    <3>1. req'[new].cb /\ \A r \in cbtab : r \in Ids /\ req[r].cb
      BY <2>1 DEF TypeOK
    <3>2. ASSUME NEW r \in cbtab' PROVE r \in Ids' /\ req'[r].cb
      <4>1. CASE r = new
        BY <1>2, <3>1, <4>1
      <4>2. CASE r \in cbtab
        BY <1>2, <3>1, <4>2
      <4> QED BY <2>2, <4>1, <4>2
    <3> QED BY <3>2
  <2>5. table' \subseteq {r \in Ids' : ~ req'[r].cb} /\ arrived' \subseteq Ids' /\ redone' \subseteq Ids'
    BY <1>2, <2>2 DEF TypeOK
  <2>6. thr' \in [Threads -> ThreadType']
        /\ \A u \in Threads : thr'[u].at \in {"send", "reply", "fire", "remove"} => thr'[u].id \in Ids'
    <3> DEFINE x == [thr[t] EXCEPT !.at = "send", !.id = new]
    <3>1. thr \in [Threads -> ThreadType] /\ thr \in [Threads -> ThreadType']
      BY <1>4 DEF TypeOK
    <3>2. x \in ThreadType' /\ x.id = new
      <4>1. thr[t] \in ThreadType' /\ new \in Ids'
        BY <1>0, <1>2, <3>1
      <4> HIDE DEF new
      <4> QED BY <4>1 DEF ThreadType
    <3>3. thr' = [thr EXCEPT ![t] = x]
      BY <1>0, <2>2, <3>1
    <3> HIDE DEF x
    <3> QED BY <1>0, <1>2, <3>1, <3>2, <3>3 DEF TypeOK
  <2>7. ctr' \in [Proxies -> Int] /\ cbctr' \in [Proxies -> Int]
    BY <2>2 DEF TypeOK
  <2> QED BY <1>2, <1>3, <2>2, <2>3, <2>4, <2>5, <2>6, <2>7 DEF TypeOK, Threads, Request
<1> QED BY <1>5, <1>6

(* The ORB and the server. *)
LEMMA OrbTypes ==
    ASSUME TypeOK, Device \/ ServerStops
    PROVE  TypeOK'
<1>1. ASSUME NEW r \in Ids, NEW a \in Answers, NEW ran \in SUBSET Ids, OrbAnswers(r, a, ran)
      PROVE  TypeOK'
  <2>1. orb' = [orb EXCEPT !.answer[r] = a, !.ran = ran] /\ orb \in [answer : [Ids -> Answers], ran : SUBSET Ids, queue : SUBSET Ids]
    BY <1>1 DEF OrbAnswers, TypeOK
  <2>2. orb' \in [answer : [Ids -> Answers], ran : SUBSET Ids, queue : SUBSET Ids]
    BY <2>1
  <2> QED BY <1>1, <2>2 DEF OrbAnswers, TypeOK, ThreadType, Ids, Threads, tables
<1>2. orb.answer \in [Ids -> Answers] /\ orb.ran \in SUBSET Ids
  BY DEF TypeOK
<1>3. {"ok", "failed", "timeout", "refused", "nomatch", "broken"} \subseteq Answers
  BY DEF Answers
<1>4. ASSUME Device PROVE TypeOK'
  <2>1. PICK r \in Ids : Run(r) \/ Reply(r) \/ Timeout(r) \/ Refuse(r) \/ NoMatch(r) \/ Break(r)
    BY <1>4 DEF Device
  <2>2. CASE Run(r)
    <3>1. orb.answer[r] \in Answers /\ orb.ran \cup {r} \in SUBSET Ids
      BY <1>2
    <3> QED BY <1>1, <2>2, <3>1 DEF Run
  <2>3. CASE Reply(r)
    BY <1>1, <1>2, <1>3, <2>3 DEF Reply
  <2>4. CASE Timeout(r) \/ Refuse(r) \/ NoMatch(r) \/ Break(r)
    BY <1>1, <1>2, <1>3, <2>4 DEF Timeout, Refuse, NoMatch, Break
  <2> QED BY <2>1, <2>2, <2>3, <2>4
<1>5. ASSUME ServerStops PROVE TypeOK'
  <2>1. up' \in BOOLEAN
    BY <1>5 DEF ServerStops, TypeOK
  <2> QED BY <1>5, <2>1 DEF ServerStops, TypeOK, ThreadType, Ids, Threads, tables
<1> QED BY <1>4, <1>5

(* A reply got by the caller. *)
LEMMA ReplyTypes ==
    ASSUME TypeOK, NEW t \in Users, NEW r \in Ids,
           CommandInoutReply(t, r) \/ ReadAttributesReply(t, r) \/ WriteAttributesReply(t, r)
    PROVE  TypeOK'
<1>1. /\ told' = [told EXCEPT ![r] = @ + 1] /\ Returns(t)
      /\ UNCHANGED <<scenario, req, cancelled, cbtab, arrived, cbctr, push, stop, orb, up>>
  BY DEF CommandInoutReply, ReadAttributesReply, WriteAttributesReply, Answer, Told
<1>2. ThreadsOK(thr')
  BY <1>1, Returning DEF Threads
<1>3. req[r].dev \in Proxies
  BY ReqTypes
<1>4. table' \in {table, table \ {r}} /\ ctr' \in {ctr, [ctr EXCEPT ![req[r].dev] = @ - 1]}
  BY DEF CommandInoutReply, ReadAttributesReply, WriteAttributesReply, AttrReplied, RemoveAsynRequest
<1>5. redone' \in {redone, redone \cup {r}}
      /\ conn' \in {conn, conn \cup {req[r].dev}, conn \ {req[r].dev}}
  BY DEF CommandInoutReply, ReadAttributesReply, WriteAttributesReply, AttrReplied, Redone, Disconnected
<1>6. table' \subseteq {q \in Ids : ~ req[q].cb} /\ ctr' \in [Proxies -> Int]
  <2>1. table \subseteq {q \in Ids : ~ req[q].cb} /\ ctr \in [Proxies -> Int]
    BY DEF TypeOK
  <2>2. table' \subseteq {q \in Ids : ~ req[q].cb}
    BY <1>4, <2>1
  <2>3. ctr' \in [Proxies -> Int]
    BY <1>4, <2>1
  <2> QED BY <2>2, <2>3
<1>7. redone' \subseteq Ids /\ conn' \subseteq Proxies
  BY <1>3, <1>5 DEF TypeOK
<1>8. told' \in [Ids -> Nat]
  BY <1>1 DEF TypeOK
<1> QED BY <1>1, <1>2, <1>6, <1>7, <1>8 DEF TypeOK, ThreadsOK, WithIds, ThreadType, Ids, Threads

(* Requests cancelled. *)
LEMMA CancelTypes ==
    ASSUME TypeOK, NEW t \in Users,
           \/ \E r \in Ids : CancelAsynchRequest(t, r)
           \/ \E p \in Proxies : CancelAllPollingAsynchRequest(t, p)
    PROVE  /\ TypeOK'
           /\ ToSet(cancelled) \subseteq ToSet(cancelled')
           /\ \A p \in Proxies : CancelAllPollingAsynchRequest(t, p) => table \subseteq ToSet(cancelled')
           /\ \A r \in Ids : CancelAsynchRequest(t, r) => ToSet(cancelled') = ToSet(cancelled) \cup {r}
<1>0. /\ cancelled \in Seq(Ids) /\ Len(cancelled) \in Nat /\ DOMAIN cancelled = 1 .. Len(cancelled)
      /\ \A i, j \in 1 .. Len(cancelled) : cancelled[i] = cancelled[j] => i = j
      /\ table \subseteq Ids
  BY DEF TypeOK, IsInjective
<1>1. UNCHANGED <<scenario, req, table, cbtab, arrived, cbctr, conn, thr, push, stop, orb, up, told, redone>>
  BY DEF CancelAsynchRequest, CancelAllPollingAsynchRequest
<1>2. ctr' \in [Proxies -> Int]
  <2>1. ctr \in [Proxies -> Int]
    BY DEF TypeOK
  <2>2. ASSUME NEW r \in Ids, CancelAsynchRequest(t, r) PROVE ctr' \in [Proxies -> Int]
    <3>1. ctr' = [ctr EXCEPT ![req[r].dev] = @ - 1]
      BY <2>2 DEF CancelAsynchRequest
    <3>2. \A p \in Proxies : ctr[p] - 1 \in Int
      BY <2>1
    <3> QED BY <2>1, <3>1, <3>2
  <2>3. ASSUME NEW p \in Proxies, CancelAllPollingAsynchRequest(t, p) PROVE ctr' \in [Proxies -> Int]
    BY <2>1, <2>3 DEF CancelAllPollingAsynchRequest
  <2> QED BY <2>2, <2>3
<1>3. ASSUME NEW q \in Seq(Ids), \A i, j \in 1 .. Len(q) : q[i] = q[j] => i = j,
             \A i \in 1 .. Len(q) : q[i] \notin ToSet(cancelled), cancelled' = cancelled \o q
      PROVE  /\ cancelled' \in Seq(Ids) /\ IsInjective(cancelled')
             /\ ToSet(cancelled') = ToSet(cancelled) \cup ToSet(q)
  <2> DEFINE c == Len(cancelled)
             m == cancelled \o q
  <2>1. /\ m \in Seq(Ids) /\ Len(q) \in Nat /\ Len(m) = c + Len(q) /\ DOMAIN m = 1 .. c + Len(q)
        /\ DOMAIN q = 1 .. Len(q)
        /\ \A i \in 1 .. c : m[i] = cancelled[i]
        /\ \A i \in 1 .. Len(q) : m[c + i] = q[i]
    BY <1>0, <1>3
  <2> HIDE DEF m
  <2>0. /\ \A i \in 1 .. c : cancelled[i] \in ToSet(cancelled)
        /\ \A i \in 1 .. Len(q) : q[i] \in ToSet(q)
    BY <1>0, <2>1 DEF ToSet
  <2>2. \A i \in 1 .. c + Len(q) : i \in 1 .. c \/ (i - c \in 1 .. Len(q) /\ m[i] = q[i - c])
    <3> TAKE i \in 1 .. c + Len(q)
    <3>1. i \notin 1 .. c => i - c \in 1 .. Len(q) /\ c + (i - c) = i
      BY <1>0, <2>1
    <3> QED BY <2>1, <3>1
  <2>3. \A i \in 1 .. Len(q) : c + i \in DOMAIN m
    BY <1>0, <2>1
  <2>4. \A i, j \in DOMAIN m : m[i] = m[j] => i = j
    <3> SUFFICES ASSUME NEW i \in DOMAIN m, NEW j \in DOMAIN m, m[i] = m[j] PROVE i = j
      OBVIOUS
    <3>1. CASE i \in 1 .. c /\ j \in 1 .. c
      BY <1>0, <2>1, <3>1
    <3>0. /\ i \notin 1 .. c => i - c \in 1 .. Len(q) /\ m[i] = q[i - c]
          /\ j \notin 1 .. c => j - c \in 1 .. Len(q) /\ m[j] = q[j - c]
      BY <2>1, <2>2
    <3>2. CASE i \notin 1 .. c /\ j \notin 1 .. c
      <4>1. i - c = j - c
        BY <1>3, <3>0, <3>2
      <4> QED BY <1>0, <2>1, <4>1
    <3>3. CASE ~ (i \in 1 .. c <=> j \in 1 .. c)
      <4>1. i \in 1 .. c => m[i] \in ToSet(cancelled)
        BY <2>0, <2>1
      <4>2. j \in 1 .. c => m[j] \in ToSet(cancelled)
        BY <2>0, <2>1
      <4>3. i \notin 1 .. c => m[i] \notin ToSet(cancelled)
        BY <1>3, <3>0
      <4>4. j \notin 1 .. c => m[j] \notin ToSet(cancelled)
        BY <1>3, <3>0
      <4> QED BY <3>3, <4>1, <4>2, <4>3, <4>4
    <3> QED BY <3>1, <3>2, <3>3
  <2>5. ToSet(m) = ToSet(cancelled) \cup ToSet(q)
    <3>1. ASSUME NEW x \in ToSet(m) PROVE x \in ToSet(cancelled) \cup ToSet(q)
      <4>1. PICK i \in DOMAIN m : x = m[i]
        BY <3>1 DEF ToSet
      <4> QED BY <2>0, <2>1, <2>2, <4>1
    <3>2. ASSUME NEW x \in ToSet(cancelled) PROVE x \in ToSet(m)
      BY <1>0, <2>1 DEF ToSet
    <3>3. ASSUME NEW x \in ToSet(q) PROVE x \in ToSet(m)
      <4>1. PICK i \in DOMAIN q : x = q[i]
        BY DEF ToSet
      <4>2. c + i \in DOMAIN m /\ m[c + i] = x
        BY <2>1, <2>3, <4>1
      <4> QED BY <4>2 DEF ToSet
    <3> QED BY <3>1, <3>2, <3>3
  <2>6. cancelled' = m
    BY <1>3 DEF m
  <2> QED BY <2>1, <2>4, <2>5, <2>6 DEF IsInjective
<1>4. ASSUME NEW r \in Ids, CancelAsynchRequest(t, r)
      PROVE  /\ cancelled' \in Seq(Ids) /\ IsInjective(cancelled')
             /\ ToSet(cancelled') = ToSet(cancelled) \cup {r}
  <2>1. cancelled' = cancelled \o <<r>> /\ r \notin ToSet(cancelled)
    BY <1>0, <1>4 DEF CancelAsynchRequest
  <2>2. <<r>> \in Seq(Ids) /\ Len(<<r>>) = 1 /\ <<r>>[1] = r /\ DOMAIN <<r>> = 1 .. 1
    OBVIOUS
  <2>3. ToSet(<<r>>) = {r}
    BY <2>2 DEF ToSet
  <2>4. /\ \A i, j \in 1 .. Len(<<r>>) : <<r>>[i] = <<r>>[j] => i = j
        /\ \A i \in 1 .. Len(<<r>>) : <<r>>[i] \notin ToSet(cancelled)
    BY <2>1, <2>2
  <2> DEFINE q == <<r>>
  <2>5. q \in Seq(Ids) /\ ToSet(q) = {r} /\ cancelled' = cancelled \o q
    BY <2>1, <2>2, <2>3
  <2>6. /\ \A i, j \in 1 .. Len(q) : q[i] = q[j] => i = j
        /\ \A i \in 1 .. Len(q) : q[i] \notin ToSet(cancelled)
    BY <2>4
  <2> HIDE DEF q
  <2> QED BY <1>3, <2>5, <2>6
<1>5. ASSUME NEW p \in Proxies, CancelAllPollingAsynchRequest(t, p)
      PROVE  /\ cancelled' \in Seq(Ids) /\ IsInjective(cancelled')
             /\ ToSet(cancelled) \subseteq ToSet(cancelled') /\ table \subseteq ToSet(cancelled')
  <2> DEFINE S == table \ ToSet(cancelled)
             q == SetToSeq(S)
  <2>1. S \subseteq Ids /\ IsFiniteSet(S)
    BY <1>0, ReqTypes, FS_Subset
  <2> HIDE DEF S
  <2>2. q \in Seq(S) /\ IsInjective(q) /\ ToSet(q) = S
    BY <2>1, SetToSeqFacts
  <2> HIDE DEF q
  <2>3. q \in Seq(Ids) /\ DOMAIN q = 1 .. Len(q)
    BY <2>1, <2>2, SeqMonotonic
  <2>4. cancelled' = cancelled \o q
    BY <1>5 DEF CancelAllPollingAsynchRequest, q, S
  <2>5. \A i \in 1 .. Len(q) : q[i] \notin ToSet(cancelled)
    BY <2>2, <2>3 DEF S
  <2>6. \A i, j \in 1 .. Len(q) : q[i] = q[j] => i = j
    BY <2>2, <2>3 DEF IsInjective
  <2>7. /\ cancelled' \in Seq(Ids) /\ IsInjective(cancelled')
        /\ ToSet(cancelled') = ToSet(cancelled) \cup S
    BY <1>3, <2>2, <2>3, <2>4, <2>5, <2>6
  <2> QED BY <2>7 DEF S
<1>6. cancelled' \in Seq(Ids) /\ IsInjective(cancelled')
  BY <1>4, <1>5
<1>7. TypeOK'
  BY <1>1, <1>2, <1>6 DEF TypeOK, ThreadType, Ids, Threads
<1> QED BY <1>4, <1>5, <1>7

(* Requests with a callback, from the call that sends them to the one that *)
(* removes them.                                                           *)
LEMMA CallbackTypes ==
    ASSUME TypeOK, NEW t \in Threads, Send(t) \/ Fetch(t) \/ Fire(t) \/ RemoveAsynCbRequest(t)
    PROVE  TypeOK'
<1> DEFINE Orbs == [answer : [Ids -> Answers], ran : SUBSET Ids, queue : SUBSET Ids]
<1>0. orb \in Orbs
  BY DEF TypeOK
<1>p. /\ {"signal", "fetch", "sweep", "fire", "remove"} \subseteq Places
      /\ {"signal", "fetch", "sweep"} \cap WithIds = {}
  BY DEF Places, WithIds
<1>1. CASE Send(t)
  <2>1. thr[t].id \in Ids
    BY <1>1 DEF Send, At, TypeOK
  <2>2. orb' \in Orbs
    <3>1. orb' = [orb EXCEPT !.queue = @ \cup {thr[t].id}]
      BY <1>1 DEF Send
    <3> QED BY <1>0, <2>1, <3>1
  <2>3. ThreadsOK(thr')
    BY <1>1, <1>p, Going, Returning DEF Send, Goes
  <2> QED BY <1>1, <2>2, <2>3 DEF Send, TypeOK, ThreadsOK, WithIds, ThreadType, Ids, Threads, tables
<1>2. CASE Fetch(t)
  <2>1. PICK r \in orb.queue :
           /\ orb' = [orb EXCEPT !.queue = @ \ {r}]
           /\ arrived' = arrived \cup {r}
           /\ thr' = [thr EXCEPT ![t].at = IF ForMe(t, r) THEN "fire" ELSE "fetch",
                                 ![t].id = IF ForMe(t, r) THEN r ELSE 0, ![t].back = "fetch"]
    BY <1>2 DEF Fetch
  <2>2. r \in Ids /\ orb' \in Orbs
    BY <1>0, <2>1
  <2>3. arrived' \subseteq Ids
    BY <2>1, <2>2 DEF TypeOK
  <2>4. ThreadsOK(thr')
    <3>1. CASE ForMe(t, r)
      <4>1. thr' = [thr EXCEPT ![t].at = "fire", ![t].id = r, ![t].back = "fetch"]
        BY <2>1, <3>1
      <4> QED BY <1>p, <2>2, <4>1, Going
    <3>2. CASE ~ ForMe(t, r)
      <4>1. thr' = [thr EXCEPT ![t].at = "fetch", ![t].id = 0, ![t].back = "fetch"]
        BY <2>1, <3>2
      <4> QED BY <1>p, <4>1, Going
    <3> QED BY <3>1, <3>2
  <2> QED BY <1>2, <2>2, <2>3, <2>4 DEF Fetch, TypeOK, ThreadsOK, WithIds, ThreadType, Ids, Threads
<1>3. CASE Fire(t)
  <2>1. thr[t].id \in Ids
    BY <1>3 DEF Fire, At, TypeOK
  <2>2. told' = [told EXCEPT ![thr[t].id] = @ + 1] /\ conn' \subseteq conn
    BY <1>3 DEF Fire, CbCmdRequest, CbReadAttrRequest, CbWriteAttrRequest, CbFired, Told
  <2>3. told' \in [Ids -> Nat] /\ conn' \subseteq Proxies
    BY <2>1, <2>2 DEF TypeOK
  <2>4. ThreadsOK(thr')
    <3>1. thr' = [thr EXCEPT ![t].at = "remove"]
      BY <1>3 DEF Fire, Goes
    <3> QED BY <1>p, <2>1, <3>1, Going
  <2> QED BY <1>3, <2>3, <2>4 DEF Fire, TypeOK, ThreadsOK, WithIds, ThreadType, Ids, Threads, tables
<1>4. CASE RemoveAsynCbRequest(t)
  <2> DEFINE r == thr[t].id
  <2>1. r \in Ids /\ thr[t].back \in {"fetch", "sweep"}
    BY <1>4 DEF RemoveAsynCbRequest, At, TypeOK, ThreadType
  <2>2. /\ cbtab' = cbtab \ {r} /\ arrived' = arrived \ {r} /\ cbctr' = [cbctr EXCEPT ![req[r].dev] = @ - 1]
    BY <1>4 DEF RemoveAsynCbRequest
  <2>3. cbtab' \subseteq {q \in Ids : req[q].cb} /\ arrived' \subseteq Ids /\ cbctr' \in [Proxies -> Int]
    <3>1. cbtab' \subseteq cbtab /\ arrived' \subseteq arrived
      BY <2>2
    <3>2. cbtab \subseteq {q \in Ids : req[q].cb} /\ arrived \subseteq Ids /\ cbctr \in [Proxies -> Int]
      BY DEF TypeOK
    <3>3. PICK d : d = req[r].dev
      OBVIOUS
    <3>4. cbctr' = [cbctr EXCEPT ![d] = cbctr[d] - 1] /\ d \in Proxies
      BY <2>1, <2>2, <3>3, ReqTypes
    <3>5. cbctr' \in [Proxies -> Int]
      <4> HIDE DEF r
      <4> QED BY <3>2, <3>4
    <3> QED BY <3>1, <3>2, <3>5
  <2>4. ThreadsOK(thr')
    <3>1. CASE thr' = [thr EXCEPT ![t].at = thr[t].back, ![t].id = 0]
      BY <1>p, <2>1, <3>1, Going
    <3>2. CASE Returns(t) \/ Goes(t, "fetch")
      BY <1>p, <3>2, Going, Returning DEF Goes
    <3> QED BY <1>4, <3>1, <3>2 DEF RemoveAsynCbRequest, Swept
  <2> QED BY <1>4, <2>3, <2>4 DEF RemoveAsynCbRequest, TypeOK, ThreadsOK, WithIds, ThreadType, Ids, Threads
<1> QED BY <1>1, <1>2, <1>3, <1>4

LEMMA SubModelTypes ==
    ASSUME TypeOK, NEW t \in Users, SetAsynchCbSubModel(t)
    PROVE  TypeOK'
<1>1. ThreadsOK(thr)
  BY DEF TypeOK, ThreadsOK, WithIds
<1>2. ThreadsOK(thr')
  BY <1>1, AwakeOK DEF SetAsynchCbSubModel
<1>3. push' \in BOOLEAN /\ stop' \in BOOLEAN
  BY DEF SetAsynchCbSubModel
<1> QED BY <1>2, <1>3 DEF SetAsynchCbSubModel, TypeOK, ThreadsOK, WithIds, ThreadType, Ids, Threads, tables

(* The requests a thread of the application makes. *)
Adds(t) ==
    \E p \in Proxies, k \in Kinds :
        Uses(t, p) /\ CheckAndReconnect(p) /\ At(t, "idle") /\ (AddAsynRequest(p, k) \/ AddAsynCbRequest(t, p, k))

LEMMA UserCallCases ==
    ASSUME NEW t \in Users, UserCall(t)
    PROVE  \/ Adds(t)
           \/ \E p \in Proxies : CancelAllPollingAsynchRequest(t, p)
           \/ \E r \in Ids : CancelAsynchRequest(t, r)
           \/ \E r \in Ids : ReplyWait(t, r)
           \/ ReplyNotArrived(t)
           \/ \E dev \in Proxies \cup {"all"}, call \in Calls : GetAsynchReplies(t, dev, call)
           \/ SetAsynchCbSubModel(t)
<1>1. {"cmd", "read", "write"} \subseteq Kinds
  BY DEF Kinds
<1>2. ASSUME NEW p \in Proxies,
             \/ CommandInoutAsynch(t, p) \/ ReadAttributesAsynch(t, p) \/ WriteAttributesAsynch(t, p)
             \/ CommandInoutAsynchCb(t, p) \/ ReadAttributesAsynchCb(t, p) \/ WriteAttributesAsynchCb(t, p)
      PROVE  Adds(t)
  BY <1>1, <1>2 DEF Adds, CommandInoutAsynch, ReadAttributesAsynch, WriteAttributesAsynch,
                    CommandInoutAsynchCb, ReadAttributesAsynchCb, WriteAttributesAsynchCb
<1> QED BY <1>2 DEF UserCall

LEMMA TypeStep == TypeOK /\ [Next]_vars => TypeOK'
<1> SUFFICES ASSUME TypeOK, [Next]_vars PROVE TypeOK'
  OBVIOUS
<1>0. CbThread \in Threads /\ Users \subseteq Threads
  BY DEF Threads
<1>1. CASE Device \/ ServerStops
  BY <1>1, OrbTypes
<1>2. ASSUME NEW t \in Threads, Step(t) PROVE TypeOK'
  BY <1>2, MovingTypes, CallbackTypes DEF Step
<1>3. CASE CbStep
  BY <1>0, <1>2, <1>3, MovingTypes DEF CbStep
<1>4. ASSUME NEW t \in Users, Replied(t) PROVE TypeOK'
  BY <1>4, ReplyTypes DEF Replied
<1>5. ASSUME NEW t \in Users, UserCall(t) PROVE TypeOK'
  <2>1. CASE Adds(t)
    <3>1. PICK p \in Proxies, k \in Kinds :
             CheckAndReconnect(p) /\ (AddAsynRequest(p, k) \/ AddAsynCbRequest(t, p, k))
      BY <2>1 DEF Adds
    <3>2. conn' \subseteq Proxies
      BY <3>1 DEF CheckAndReconnect, TypeOK
    <3> QED BY <3>1, <3>2, AddTypes
  <2>2. CASE \/ \E p \in Proxies : CancelAllPollingAsynchRequest(t, p)
             \/ \E r \in Ids : CancelAsynchRequest(t, r)
    BY <2>2, CancelTypes
  <2>3. CASE \/ \E r \in Ids : ReplyWait(t, r)
             \/ ReplyNotArrived(t)
             \/ \E dev \in Proxies \cup {"all"}, call \in Calls : GetAsynchReplies(t, dev, call)
    BY <1>0, <2>3, MovingTypes
  <2>4. CASE SetAsynchCbSubModel(t)
    BY <2>4, SubModelTypes
  <2> QED BY <1>5, <2>1, <2>2, <2>3, <2>4, UserCallCases
<1>6. CASE UNCHANGED vars
  BY <1>6 DEF vars, TypeOK, ThreadType, Ids, Threads, tables
<1> QED BY <1>0, <1>1, <1>2, <1>3, <1>4, <1>5, <1>6 DEF Next

LEMMA TypeInit == Init => TypeOK
<1> SUFFICES ASSUME Init PROVE TypeOK
  OBVIOUS
<1>1. req = <<>> /\ Ids = {}
  BY DEF Init, Ids
<1>2. Idle.at = "idle" /\ CbIdle.at \in {"check", "exit"} /\ thr = [t \in Threads |-> IF t = CbThread THEN CbIdle ELSE Idle]
  BY DEF Idle, CbIdle, Init
<1>3. thr \in [Threads -> ThreadType] /\ \A t \in Threads : thr[t].at \in {"idle", "check", "exit"}
  BY <1>2, IdleTypes
<1>4. orb \in [answer : [Ids -> Answers], ran : SUBSET Ids, queue : SUBSET Ids] /\ told \in [Ids -> Nat]
  BY <1>1 DEF Init
<1>5. cancelled \in Seq(Ids) /\ IsInjective(cancelled)
  BY DEF Init, IsInjective
<1>6. push \in BOOLEAN
  BY ScenariosAssumption DEF Init, ScenarioType
<1>7. req \in Seq([dev : Proxies, kind : Kinds, cb : BOOLEAN])
  BY <1>1
<1>8. ctr \in [Proxies -> Int] /\ cbctr \in [Proxies -> Int] /\ conn \subseteq Proxies
  BY DEF Init
<1>9. table = {} /\ cbtab = {} /\ arrived = {} /\ redone = {} /\ stop \in BOOLEAN /\ up \in BOOLEAN
  BY DEF Init
<1>10. scenario \in Scenarios
  BY DEF Init
<1> QED BY <1>3, <1>4, <1>5, <1>6, <1>7, <1>8, <1>9, <1>10 DEF TypeOK

(* The tables, the counters, the threads and what the ORB knows stay in    *)
(* their types: a request with a callback is never in the table of those   *)
(* to be polled, nor the other way round, none is cancelled twice, and the *)
(* threads that handle a request have one.                                 *)
THEOREM AsynTypes == Spec => []TypeOK
BY TypeInit, TypeStep, PTL DEF Spec

-----------------------------------------------------------------------------
(* No call is done again that the device executed or may execute. *)

Unexecuted == {"refused", "nomatch"}

(* The answers that let a call be done again are final, and are given only *)
(* to requests that the device did not execute.                            *)
ReplayInv ==
    /\ \A r \in Ids : orb.answer[r] \in Unexecuted => r \notin orb.ran
    /\ \A r \in redone : orb.answer[r] \in Unexecuted

(* A step that leaves the answers, the executions and the calls done again *)
(* as they are, or adds a request.                                         *)
AnswersKept ==
    /\ Ids \subseteq Ids' /\ orb'.ran = orb.ran /\ redone' = redone
    /\ \A r \in Ids : orb'.answer[r] = orb.answer[r]
    /\ \A r \in Ids' \ Ids : orb'.answer[r] = "none"

LEMMA AnswersSteps ==
    ASSUME TypeOK, [Next]_vars
    PROVE  \/ Device \/ (\E t \in Users : Replied(t)) \/ AnswersKept
<1>0. orb \in [answer : [Ids -> Answers], ran : SUBSET Ids, queue : SUBSET Ids]
  BY DEF TypeOK
<1>1. ASSUME UNCHANGED <<req, orb, redone>> PROVE AnswersKept
  BY <1>1 DEF AnswersKept, Ids
<1>2. ASSUME NEW t, Step(t) PROVE AnswersKept
  <2>1. CASE Send(t) \/ Fetch(t)
    <3>1. CASE Send(t)
      <4>1. UNCHANGED <<req, redone>> /\ \E q : orb' = [orb EXCEPT !.queue = q]
        BY <3>1 DEF Send
      <4>2. orb'.answer = orb.answer /\ orb'.ran = orb.ran
        BY <1>0, <4>1
      <4> QED BY <4>1, <4>2 DEF AnswersKept, Ids
    <3>2. CASE Fetch(t)
      <4>1. UNCHANGED <<req, redone>>
        BY <3>2 DEF Fetch
      <4>2. PICK r : orb' = [orb EXCEPT !.queue = @ \ {r}]
        BY <3>2 DEF Fetch
      <4>3. orb'.answer = orb.answer /\ orb'.ran = orb.ran
        BY <1>0, <4>2
      <4> QED BY <4>1, <4>3 DEF AnswersKept, Ids
    <3> QED BY <2>1, <3>1, <3>2
  <2>2. CASE Signal(t) \/ FetchEnds(t)
    BY <1>1, <2>2 DEF Signal, FetchEnds
  <2>3. CASE Sweep(t) \/ SweepEnds(t)
    <3>1. Sweep(t) => AnswersKept
      BY <1>1 DEF Sweep
    <3>2. SweepEnds(t) => AnswersKept
      BY <1>1 DEF SweepEnds
    <3> QED BY <2>3, <3>1, <3>2
  <2>4. CASE Fire(t)
    BY <1>1, <2>4 DEF Fire
  <2>5. CASE RemoveAsynCbRequest(t)
    BY <1>1, <2>5 DEF RemoveAsynCbRequest
  <2> QED BY <1>2, <2>1, <2>2, <2>3, <2>4, <2>5 DEF Step
<1>3. ASSUME NEW t \in Users, UserCall(t) PROVE AnswersKept
  <2>1. CASE Adds(t)
    <3>1. PICK p \in Proxies, k \in Kinds : AddAsynRequest(p, k) \/ AddAsynCbRequest(t, p, k)
      BY <2>1 DEF Adds
    <3>2. \E cb \in BOOLEAN : Issue(p, k, cb)
      BY <3>1 DEF AddAsynRequest, AddAsynCbRequest
    <3>3. redone' = redone
      BY <3>1 DEF AddAsynRequest, AddAsynCbRequest
    <3> QED BY <3>2, <3>3, IssueFacts DEF AnswersKept
  <2>2. CASE ~ Adds(t)
    <3>1. ASSUME NEW r, ReplyWait(t, r) \/ CancelAsynchRequest(t, r) PROVE AnswersKept
      BY <1>1, <3>1 DEF ReplyWait, CancelAsynchRequest
    <3>2. ASSUME NEW p, CancelAllPollingAsynchRequest(t, p) PROVE AnswersKept
      BY <1>1, <3>2 DEF CancelAllPollingAsynchRequest
    <3>3. ASSUME NEW d, NEW call, GetAsynchReplies(t, d, call) PROVE AnswersKept
      BY <1>1, <3>3 DEF GetAsynchReplies
    <3>4. ASSUME ReplyNotArrived(t) \/ SetAsynchCbSubModel(t) PROVE AnswersKept
      BY <1>1, <3>4 DEF ReplyNotArrived, SetAsynchCbSubModel
    <3> QED BY <1>3, <2>2, <3>1, <3>2, <3>3, <3>4, UserCallCases
  <2> QED BY <2>1, <2>2
<1>4. ASSUME CbStep PROVE AnswersKept
  BY <1>1, <1>2, <1>4 DEF CbStep, IsStopped, WaitForRequests, RunUndetached
<1>5. ASSUME ServerStops \/ UNCHANGED vars PROVE AnswersKept
  BY <1>1, <1>5 DEF ServerStops, vars
<1> QED BY <1>2, <1>3, <1>4, <1>5 DEF Next

LEMMA ReplayStep == ASSUME TypeOK, ReplayInv, [Next]_vars PROVE ReplayInv'
<1>0. /\ orb \in [answer : [Ids -> Answers], ran : SUBSET Ids, queue : SUBSET Ids]
      /\ redone \subseteq Ids
  BY DEF TypeOK
<1>1. CASE AnswersKept
  BY <1>0, <1>1 DEF AnswersKept, ReplayInv, Unexecuted
<1>2. ASSUME NEW t \in Users, Replied(t) PROVE ReplayInv'
  <2>1. PICK r \in Ids : CommandInoutReply(t, r) \/ ReadAttributesReply(t, r) \/ WriteAttributesReply(t, r)
    BY <1>2 DEF Replied
  <2>2. UNCHANGED <<req, orb>>
    BY <2>1 DEF CommandInoutReply, ReadAttributesReply, WriteAttributesReply, Answer
  <2>3. redone' = redone \/ (ToRedo(r) /\ redone' = redone \cup {r})
    BY <2>1 DEF CommandInoutReply, ReadAttributesReply, WriteAttributesReply, AttrReplied, Redone
  <2> QED BY <2>2, <2>3 DEF ReplayInv, Unexecuted, ToRedo, Ids
<1>3. ASSUME Device PROVE ReplayInv'
  <2>1. PICK r \in Ids : Run(r) \/ Reply(r) \/ Timeout(r) \/ Refuse(r) \/ NoMatch(r) \/ Break(r)
    BY <1>3 DEF Device
  <2>2. \E a, ran : /\ OrbAnswers(r, a, ran) /\ orb.answer[r] \in {"none", "timeout"}
                    /\ ran \in {orb.ran, orb.ran \cup {r}}
                    /\ a \in Unexecuted => r \notin ran
    BY <2>1 DEF Run, Reply, Timeout, Refuse, NoMatch, Break, Pending, Answered, Unexecuted
  <2>3. PICK a, ran : /\ OrbAnswers(r, a, ran) /\ orb.answer[r] \in {"none", "timeout"}
                      /\ ran \in {orb.ran, orb.ran \cup {r}}
                      /\ a \in Unexecuted => r \notin ran
    BY <2>2
  <2>4. /\ orb'.answer = [orb.answer EXCEPT ![r] = a] /\ orb'.ran = ran
        /\ UNCHANGED <<req, redone>>
    BY <1>0, <2>3 DEF OrbAnswers
  <2>5. r \notin redone
    BY <2>3 DEF ReplayInv, Unexecuted
  <2> QED BY <1>0, <2>3, <2>4, <2>5 DEF ReplayInv, Ids
<1> QED BY <1>1, <1>2, <1>3, AnswersSteps

(* Whatever the threads and the ORB do, and however many times the server  *)
(* stops and starts, no call is done again synchronously that the device   *)
(* executed: after a timeout or a lost connection the exception goes to    *)
(* the caller instead (command_inout_reply, read_attr_except,              *)
(* write_attr_except).                                                     *)
THEOREM AsynNotReplayed == Spec => []NotReplayed
<1>1. Init => ReplayInv
  BY DEF Init, ReplayInv, Ids
<1>2. TypeOK /\ ReplayInv /\ [Next]_vars => ReplayInv'
  BY ReplayStep
<1>3. TypeOK /\ ReplayInv => NotReplayed
  BY DEF TypeOK, ReplayInv, NotReplayed
<1> QED BY AsynTypes, <1>1, <1>2, <1>3, PTL DEF Spec

-----------------------------------------------------------------------------
(* A result reaches the user once. *)

Reading == {"fetch", "sweep", "fire", "remove"}

(* The replies that the application lets one of its threads ask for. *)
MayRead(t, dev) ==
    \/ dev = "all" /\ scenario.all # {} /\ scenario.own[t] # {}
    \/ dev \in scenario.own[t] /\ scenario.mine # {}

(* Where a thread of the application may be, and that of the push          *)
(* sub-model, which runs in that sub-model only.                           *)
Placed(t, x) ==
    /\ t = CbThread => /\ x.dev = "all" /\ x.at \notin {"idle", "send", "signal", "reply"}
                       /\ x.at # "exit" => scenario.push
    /\ t # CbThread => (x.at \in Reading => MayRead(t, x.dev))

PlacesInv == \A t \in Threads : Placed(t, thr[t])

(* A request with a callback is known to the tables until its callback is  *)
(* fired, and goes from the thread that sends it to the queue of the ORB,  *)
(* is marked as arrived, and is in the hands of a thread that fires it.    *)
SendInv ==
    /\ \A t \in Threads : At(t, "send") => /\ thr[t].id \in cbtab \ (orb.queue \cup arrived)
                                           /\ told[thr[t].id] = 0
    /\ \A t, u \in Threads : At(t, "send") /\ At(u, "send") /\ thr[t].id = thr[u].id => t = u

QueueInv ==
    /\ orb.queue \subseteq cbtab /\ arrived \subseteq cbtab /\ orb.queue \cap arrived = {}
    /\ \A r \in orb.queue : told[r] = 0
    /\ \A r \in arrived : told[r] # 0 => \E t \in Threads : At(t, "remove") /\ thr[t].id = r

FireInv ==
    \A t \in Threads :
        At(t, "fire") \/ At(t, "remove") =>
            /\ thr[t].id \in arrived /\ ForMe(t, thr[t].id)
            /\ told[thr[t].id] = IF At(t, "fire") THEN 0 ELSE 1

ResultInv ==
    \A r \in Ids :
        /\ told[r] <= 1
        /\ req[r].cb /\ r \notin cbtab => told[r] = 1
        /\ ~ req[r].cb /\ r \notin table => Answered(r)

OnceInv == SendInv /\ QueueInv /\ FireInv /\ ResultInv

(* A step of one thread. *)
Others(t) == \A u \in Threads : u # t => thr'[u] = thr[u]
MovesTo(t, w, r) == /\ thr'[t].at = w /\ thr'[t].id = r /\ thr'[t].dev = thr[t].dev
                    /\ Others(t)
Home(t) == /\ thr'[t].at = IF t # CbThread THEN "idle" ELSE IF scenario.push THEN "check" ELSE "exit"
           /\ thr'[t].dev = "all" /\ thr'[t].id = 0
           /\ Others(t)

GoesWith(t, w, r) == thr' = [thr EXCEPT ![t].at = w, ![t].id = r]
GoesBack(t, w, r, b) == thr' = [thr EXCEPT ![t].at = w, ![t].id = r, ![t].back = b]

LEMMA Moves ==
    ASSUME TypeOK, NEW t \in Threads, NEW w, NEW r
    PROVE  /\ Goes(t, w) => MovesTo(t, w, thr[t].id)
           /\ GoesWith(t, w, r) => MovesTo(t, w, r)
           /\ \A b : GoesBack(t, w, r, b) => MovesTo(t, w, r)
<1>1. thr \in [Threads -> ThreadType] /\ thr[t] \in ThreadType
  BY DEF TypeOK
<1>2. DOMAIN thr = Threads /\ DOMAIN thr[t] = {"at", "call", "dev", "id", "back"}
  BY <1>1 DEF ThreadType
<1> QED BY <1>1, <1>2 DEF MovesTo, Others, Goes, GoesWith, GoesBack

LEMMA ReturnsHome == ASSUME TypeOK, NEW t \in Threads, Returns(t) PROVE Home(t)
<1>1. thr \in [Threads -> ThreadType]
  BY DEF TypeOK
<1>2. /\ Idle.at = "idle" /\ Idle.dev = "all" /\ Idle.id = 0
      /\ CbIdle.at = (IF scenario.push THEN "check" ELSE "exit") /\ CbIdle.dev = "all" /\ CbIdle.id = 0
  BY DEF Idle, CbIdle
<1> QED BY <1>1, <1>2 DEF Returns, Home, Others

(* The thread of the push sub-model is woken, or nothing happens to it. *)
WokenUp(u) == thr[u].at = "asleep" /\ thr'[u].at = "woken" /\ thr'[u].dev = thr[u].dev /\ thr'[u].id = thr[u].id

LEMMA AwakeMoves ==
    ASSUME TypeOK, NEW f \in [Threads -> ThreadType], f[CbThread] = thr[CbThread], thr' = Awake(f)
    PROVE  \A u \in Threads : thr'[u] = f[u] \/ (u = CbThread /\ WokenUp(u))
<1>1. CbThread \in Threads /\ DOMAIN f = Threads
  BY DEF Threads
<1>2. f[CbThread] \in ThreadType
  BY <1>1
<1>3. DOMAIN f[CbThread] = {"at", "call", "dev", "id", "back"}
  BY <1>2 DEF ThreadType
<1>4. CASE thr[CbThread].at = "asleep"
  <2>1. thr' = [f EXCEPT ![CbThread].at = "woken"]
    BY <1>4 DEF Awake
  <2>2. thr'[CbThread] = [f[CbThread] EXCEPT !.at = "woken"] /\ \A u \in Threads \ {CbThread} : thr'[u] = f[u]
    BY <1>1, <2>1
  <2>3. thr'[CbThread].at = "woken" /\ thr'[CbThread].dev = f[CbThread].dev /\ thr'[CbThread].id = f[CbThread].id
    BY <1>3, <2>2
  <2> QED BY <1>4, <2>2, <2>3 DEF WokenUp
<1>5. CASE thr[CbThread].at # "asleep"
  BY <1>5 DEF Awake
<1> QED BY <1>4, <1>5

(* What each step does to the threads. *)
LEMMA ThreadSteps ==
    ASSUME TypeOK, NEW t \in Threads
    PROVE  /\ \A r \in Ids : ReplyWait(t, r) => MovesTo(t, "reply", r)
           /\ ReplyNotArrived(t) => Home(t)
           /\ Replied(t) => Home(t)
           /\ Send(t) => MovesTo(t, "signal", thr[t].id) \/ Home(t)
           /\ FetchEnds(t) => MovesTo(t, "sweep", thr[t].id) \/ Home(t)
           /\ SweepEnds(t) => MovesTo(t, "fetch", thr[t].id) \/ Home(t)
           /\ Fire(t) => MovesTo(t, "remove", thr[t].id)
           /\ RemoveAsynCbRequest(t) => \/ Home(t)
                                        \/ \E w \in {"fetch", "sweep"} : \E r : MovesTo(t, w, r)
           /\ Sweep(t) => \E r \in arrived : ForMe(t, r) /\ MovesTo(t, "fire", r)
           /\ Fetch(t) => \E r \in orb.queue :
                 /\ orb' = [orb EXCEPT !.queue = @ \ {r}] /\ arrived' = arrived \cup {r}
                 /\ IF ForMe(t, r) THEN MovesTo(t, "fire", r) ELSE MovesTo(t, "fetch", 0)
<1>1. thr[t].back \in {"fetch", "sweep"}
  BY DEF TypeOK, ThreadType
<1>2. ASSUME NEW r \in Ids, ReplyWait(t, r) PROVE MovesTo(t, "reply", r)
  <2>1. GoesWith(t, "reply", r)
    BY <1>2 DEF ReplyWait, GoesWith
  <2> QED BY <2>1, Moves
<1>3. (ReplyNotArrived(t) => Home(t)) /\ (Replied(t) => Home(t))
  <2>1. ReplyNotArrived(t) => Returns(t)
    BY DEF ReplyNotArrived
  <2>2. Replied(t) => Returns(t)
    BY DEF Replied, CommandInoutReply, ReadAttributesReply, WriteAttributesReply, Answer
  <2> QED BY <2>1, <2>2, ReturnsHome
<1>4. Send(t) => MovesTo(t, "signal", thr[t].id) \/ Home(t)
  BY Moves, ReturnsHome DEF Send
<1>5. FetchEnds(t) => MovesTo(t, "sweep", thr[t].id) \/ Home(t)
  BY Moves, ReturnsHome DEF FetchEnds
<1>6. Swept(t) => MovesTo(t, "fetch", thr[t].id) \/ Home(t)
  BY Moves, ReturnsHome DEF Swept
<1>7. SweepEnds(t) => MovesTo(t, "fetch", thr[t].id) \/ Home(t)
  BY <1>6 DEF SweepEnds
<1>8. Fire(t) => MovesTo(t, "remove", thr[t].id)
  BY Moves DEF Fire
<1>9. ASSUME RemoveAsynCbRequest(t)
      PROVE  Home(t) \/ \E w \in {"fetch", "sweep"} : \E r : MovesTo(t, w, r)
  <2>1. Swept(t) \/ thr' = [thr EXCEPT ![t].at = thr[t].back, ![t].id = 0]
    BY <1>9, Zenon DEF RemoveAsynCbRequest
  <2>2. Swept(t) \/ GoesWith(t, thr[t].back, 0)
    BY <2>1 DEF GoesWith
  <2> QED BY <1>1, <1>6, <2>2, Moves
<1>10. ASSUME Sweep(t) PROVE \E r \in arrived : ForMe(t, r) /\ MovesTo(t, "fire", r)
  <2>1. PICK r \in arrived : ForMe(t, r) /\ GoesBack(t, "fire", r, "sweep")
    BY <1>10, Zenon DEF Sweep, GoesBack
  <2> QED BY <2>1, Moves
<1>11. ASSUME Fetch(t)
       PROVE  \E r \in orb.queue :
                 /\ orb' = [orb EXCEPT !.queue = @ \ {r}] /\ arrived' = arrived \cup {r}
                 /\ IF ForMe(t, r) THEN MovesTo(t, "fire", r) ELSE MovesTo(t, "fetch", 0)
  <2>1. PICK r \in orb.queue :
           /\ orb' = [orb EXCEPT !.queue = @ \ {r}] /\ arrived' = arrived \cup {r}
           /\ GoesBack(t, IF ForMe(t, r) THEN "fire" ELSE "fetch", IF ForMe(t, r) THEN r ELSE 0, "fetch")
    BY <1>11, Zenon DEF Fetch, GoesBack
  <2>2. IF ForMe(t, r) THEN MovesTo(t, "fire", r) ELSE MovesTo(t, "fetch", 0)
    BY <2>1, Moves
  <2> QED BY <2>1, <2>2
<1> QED BY <1>2, <1>3, <1>4, <1>5, <1>7, <1>8, <1>9, <1>10, <1>11

LEMMA PlacedAfter ==
    ASSUME TypeOK, PlacesInv, scenario' = scenario, NEW t \in Threads
    PROVE  /\ Home(t) => PlacesInv'
           /\ \A w, r : /\ MovesTo(t, w, r)
                        /\ w \in Reading => thr[t].at \in Reading \/ t = CbThread
                        /\ t = CbThread => /\ w \notin {"idle", "send", "signal", "reply"}
                                           /\ thr[t].at # "exit" \/ w = "exit"
                        => PlacesInv'
<1>2. ASSUME Others(t), Placed(t, thr'[t]) PROVE PlacesInv'
  <2>1. \A u \in Threads : Placed(u, thr'[u])
    BY <1>2 DEF PlacesInv, Others
  <2> QED BY <2>1 DEF PlacesInv, Placed, MayRead, Threads
<1>3. ASSUME Home(t) PROVE PlacesInv'
  <2>1. Placed(t, thr'[t])
    BY <1>3 DEF Home, Placed, Reading
  <2> QED BY <1>2, <1>3, <2>1 DEF Home
<1>4. ASSUME NEW w, NEW r, MovesTo(t, w, r),
             w \in Reading => thr[t].at \in Reading \/ t = CbThread,
             t = CbThread => /\ w \notin {"idle", "send", "signal", "reply"}
                             /\ thr[t].at # "exit" \/ w = "exit"
      PROVE  PlacesInv'
  <2>1. Placed(t, thr[t])
    BY DEF PlacesInv
  <2>2. Placed(t, thr'[t])
    BY <1>4, <2>1 DEF MovesTo, Placed
  <2> QED BY <1>2, <1>4, <2>2 DEF MovesTo
<1> QED BY <1>3, <1>4

LEMMA PlacesStep == ASSUME TypeOK, PlacesInv, [Next]_vars PROVE PlacesInv' /\ scenario' = scenario
<1>0. /\ CbThread \in Threads /\ Users \subseteq Threads /\ \A t \in Users : t # CbThread
      /\ thr[CbThread].dev = "all" /\ thr[CbThread].at \notin {"idle", "send", "signal", "reply"}
      /\ thr[CbThread].at # "exit" => scenario.push
  BY ScenariosAssumption DEF Threads, PlacesInv, Placed
<1>1. ASSUME UNCHANGED <<scenario, thr>> PROVE PlacesInv' /\ scenario' = scenario
  BY <1>1 DEF PlacesInv, Placed, MayRead, Threads
<1>2. CASE Device \/ ServerStops
  <2>1. Device => UNCHANGED <<scenario, thr>>
    BY DEF Device, Run, Reply, Timeout, Refuse, NoMatch, Break, OrbAnswers
  <2>2. ServerStops => UNCHANGED <<scenario, thr>>
    BY DEF ServerStops
  <2> QED BY <1>1, <1>2, <2>1, <2>2
<1>3. ASSUME NEW t \in Threads, Step(t) PROVE PlacesInv' /\ scenario' = scenario
  <2>0. t = CbThread => ~ At(t, "send") /\ ~ At(t, "signal")
    BY <1>0 DEF At
  <2>1. CASE Send(t)
    <3>1. scenario' = scenario /\ t # CbThread
      BY <2>0, <2>1 DEF Send
    <3> QED BY <2>1, <3>1, ThreadSteps, PlacedAfter DEF Reading
  <2>2. CASE Signal(t)
    <3>1. scenario' = scenario /\ t # CbThread /\ thr' = Awake([thr EXCEPT ![t] = Idle])
      BY <2>0, <2>2 DEF Signal
    <3> DEFINE f == [thr EXCEPT ![t] = Idle]
    <3>2. f \in [Threads -> ThreadType] /\ f[CbThread] = thr[CbThread]
      BY <1>0, <3>1, IdleTypes DEF TypeOK
    <3>3. \A u \in Threads : f[u] = thr[u] \/ (u = t /\ f[u] = Idle)
      BY <3>1 DEF TypeOK
    <3> HIDE DEF f
    <3>4. thr' = Awake(f)
      BY <3>1 DEF f
    <3>5. \A u \in Threads : thr'[u] = f[u] \/ (u = CbThread /\ WokenUp(u))
      BY <3>2, <3>4, AwakeMoves
    <3>6. Placed(t, Idle)
      BY <3>1 DEF Placed, Idle, Reading
    <3>7. WokenUp(CbThread) => Placed(CbThread, thr'[CbThread])
      BY <1>0 DEF WokenUp, Placed
    <3>8. \A u \in Threads : Placed(u, thr'[u])
      BY <3>3, <3>5, <3>6, <3>7 DEF PlacesInv
    <3> QED BY <3>1, <3>8 DEF PlacesInv, Placed, MayRead, Threads
  <2>3. CASE Fetch(t)
    <3>1. scenario' = scenario /\ thr[t].at \in Reading /\ thr[t].at # "exit"
      BY <2>3 DEF Fetch, At, Reading
    <3>2. \E w \in {"fire", "fetch"} : \E r : MovesTo(t, w, r)
      BY <2>3, ThreadSteps
    <3> QED BY <3>1, <3>2, PlacedAfter
  <2>4. CASE Sweep(t)
    <3>1. scenario' = scenario /\ thr[t].at \in Reading /\ thr[t].at # "exit"
      BY <2>4 DEF Sweep, At, Reading
    <3>2. \E r : MovesTo(t, "fire", r)
      BY <2>4, ThreadSteps
    <3> QED BY <3>1, <3>2, PlacedAfter
  <2>5. CASE FetchEnds(t)
    <3>1. scenario' = scenario /\ thr[t].at \in Reading /\ thr[t].at # "exit"
      BY <2>5 DEF FetchEnds, At, Reading
    <3> QED BY <2>5, <3>1, ThreadSteps, PlacedAfter
  <2>6. CASE SweepEnds(t)
    <3>1. scenario' = scenario /\ thr[t].at \in Reading /\ thr[t].at # "exit"
      BY <2>6 DEF SweepEnds, At, Reading
    <3> QED BY <2>6, <3>1, ThreadSteps, PlacedAfter
  <2>7. CASE Fire(t)
    <3>1. scenario' = scenario /\ thr[t].at \in Reading /\ thr[t].at # "exit"
      BY <2>7 DEF Fire, At, Reading
    <3> QED BY <2>7, <3>1, ThreadSteps, PlacedAfter
  <2>8. CASE RemoveAsynCbRequest(t)
    <3>1. scenario' = scenario /\ thr[t].at \in Reading /\ thr[t].at # "exit"
      BY <2>8 DEF RemoveAsynCbRequest, At, Reading
    <3> QED BY <2>8, <3>1, ThreadSteps, PlacedAfter
  <2> QED BY <1>3, <2>1, <2>2, <2>3, <2>4, <2>5, <2>6, <2>7, <2>8 DEF Step
<1>4. CASE IsStopped \/ WaitForRequests \/ RunUndetached
  <2>1. scenario' = scenario /\ thr[CbThread].at # "exit"
    BY <1>4 DEF IsStopped, WaitForRequests, RunUndetached, At
  <2>2. \E w \in {"exit", "lock", "asleep", "woken", "sweep", "check"} : Goes(CbThread, w)
    BY <1>4 DEF IsStopped, WaitForRequests, RunUndetached
  <2>3. \E w \in {"exit", "lock", "asleep", "woken", "sweep", "check"} : MovesTo(CbThread, w, thr[CbThread].id)
    BY <1>0, <2>2, Moves
  <2> QED BY <1>0, <2>1, <2>3, PlacedAfter
<1>5. CASE CbStep
  BY <1>0, <1>3, <1>4, <1>5 DEF CbStep
<1>6. ASSUME NEW t \in Users, Replied(t) PROVE PlacesInv' /\ scenario' = scenario
  <2>1. scenario' = scenario
    BY <1>6 DEF Replied, CommandInoutReply, ReadAttributesReply, WriteAttributesReply, Answer
  <2> QED BY <1>0, <1>6, <2>1, ThreadSteps, PlacedAfter
<1>7. ASSUME NEW t \in Users, UserCall(t) PROVE PlacesInv' /\ scenario' = scenario
  <2>0. t \in Threads /\ t # CbThread
    BY <1>0
  <2>1. CASE Adds(t)
    <3>1. PICK p \in Proxies, k \in Kinds : AddAsynRequest(p, k) \/ AddAsynCbRequest(t, p, k)
      BY <2>1 DEF Adds
    <3>2. AddAsynRequest(p, k) => UNCHANGED <<scenario, thr>>
      BY DEF AddAsynRequest
    <3>3. AddAsynCbRequest(t, p, k) => scenario' = scenario /\ GoesWith(t, "send", Len(req) + 1)
      BY DEF AddAsynCbRequest, GoesWith
    <3> QED BY <1>1, <2>0, <3>1, <3>2, <3>3, Moves, PlacedAfter DEF Reading
  <2>2. ASSUME \/ \E p \in Proxies : CancelAllPollingAsynchRequest(t, p)
               \/ \E r \in Ids : CancelAsynchRequest(t, r)
        PROVE  PlacesInv' /\ scenario' = scenario
    BY <1>1, <2>2 DEF CancelAllPollingAsynchRequest, CancelAsynchRequest
  <2>3. ASSUME NEW r \in Ids, ReplyWait(t, r) PROVE PlacesInv' /\ scenario' = scenario
    <3>1. scenario' = scenario
      BY <2>3 DEF ReplyWait
    <3> QED BY <2>0, <2>3, <3>1, ThreadSteps, PlacedAfter DEF Reading
  <2>4. CASE ReplyNotArrived(t)
    <3>1. scenario' = scenario
      BY <2>4 DEF ReplyNotArrived
    <3> QED BY <2>0, <2>4, <3>1, ThreadSteps, PlacedAfter
  <2>5. ASSUME NEW dev \in Proxies \cup {"all"}, NEW call \in Calls, GetAsynchReplies(t, dev, call)
        PROVE  PlacesInv' /\ scenario' = scenario
    <3> DEFINE x == [Idle EXCEPT !.call = call, !.dev = dev, !.at = IF call = "poll" THEN "fetch" ELSE "sweep"]
    <3>1. x.dev = dev
      BY DEF Idle
    <3>2. scenario' = scenario /\ thr' = [thr EXCEPT ![t] = x] /\ MayRead(t, dev)
      BY <2>5 DEF GetAsynchReplies, MayRead, Uses
    <3> HIDE DEF x
    <3>3. Placed(t, x)
      BY <2>0, <3>1, <3>2 DEF Placed
    <3>4. \A u \in Threads : thr'[u] = IF u = t THEN x ELSE thr[u]
      BY <2>0, <3>2 DEF TypeOK
    <3>5. \A u \in Threads : Placed(u, thr'[u])
      BY <3>3, <3>4 DEF PlacesInv
    <3> QED BY <3>2, <3>5 DEF PlacesInv, Placed, MayRead, Threads
  <2>6. CASE SetAsynchCbSubModel(t)
    <3>1. scenario' = scenario /\ thr' = Awake(thr)
      BY <2>6 DEF SetAsynchCbSubModel
    <3>2. \A u \in Threads : thr'[u] = thr[u] \/ (u = CbThread /\ WokenUp(u))
      BY <3>1, AwakeMoves DEF TypeOK
    <3>3. WokenUp(CbThread) => Placed(CbThread, thr'[CbThread])
      BY <1>0 DEF WokenUp, Placed
    <3>4. \A u \in Threads : Placed(u, thr'[u])
      BY <3>2, <3>3 DEF PlacesInv
    <3> QED BY <3>1, <3>4 DEF PlacesInv, Placed, MayRead, Threads
  <2> QED BY <1>7, <2>1, <2>2, <2>3, <2>4, <2>5, <2>6, UserCallCases
<1>8. CASE UNCHANGED vars
  BY <1>1, <1>8 DEF vars
<1> QED BY <1>0, <1>2, <1>3, <1>5, <1>6, <1>7, <1>8 DEF Next

(* No two threads read the replies of the same proxy. *)
LEMMA OneReads ==
    ASSUME TypeOK, PlacesInv, OneReader(scenario), NEW t \in Threads, NEW u \in Threads, NEW r \in Ids,
           thr[t].at \in Reading, thr[u].at \in Reading, ForMe(t, r), ForMe(u, r)
    PROVE  t = u
<1>1. scenario.own \in [Users -> SUBSET Proxies] /\ "all" \notin Proxies
  BY ScenariosAssumption DEF TypeOK, ScenarioType
<1>2. Placed(t, thr[t]) /\ Placed(u, thr[u])
  BY DEF PlacesInv
<1>3. CASE t = CbThread \/ u = CbThread
  <2>1. scenario.push /\ scenario.all = {} /\ scenario.mine = {}
    BY <1>2, <1>3 DEF Placed, OneReader, Reading
  <2>2. t = CbThread /\ u = CbThread
    BY <1>2, <2>1 DEF Placed, MayRead
  <2> QED BY <2>2
<1>4. CASE t # CbThread /\ u # CbThread
  <2>1. t \in Users /\ u \in Users /\ MayRead(t, thr[t].dev) /\ MayRead(u, thr[u].dev)
    BY <1>2, <1>4 DEF Placed, Threads
  <2>2. scenario.own[t] # {} /\ scenario.own[u] # {}
    BY <2>1 DEF MayRead
  <2>3. CASE thr[t].dev = "all" \/ thr[u].dev = "all"
    <3>1. scenario.all # {}
      BY <1>1, <2>1, <2>3 DEF MayRead
    <3> QED BY <2>1, <2>2, <3>1 DEF OneReader
  <2>4. CASE thr[t].dev # "all" /\ thr[u].dev # "all"
    <3>1. req[r].dev \in scenario.own[t] \cap scenario.own[u]
      BY <2>1, <2>4 DEF MayRead, ForMe
    <3> QED BY <2>1, <3>1 DEF OneReader
  <2> QED BY <2>3, <2>4
<1> QED BY <1>3, <1>4

(* A step that leaves the requests with a callback where they are. *)
Quietly ==
    /\ UNCHANGED <<req, cbtab, arrived, told>> /\ orb'.queue = orb.queue
    /\ \A u \in Threads : \/ thr'[u] = thr[u]
                          \/ thr[u].at # "remove" /\ thr'[u].at \notin {"send", "fire", "remove"}

LEMMA QuietKeeps ==
    ASSUME TypeOK, OnceInv, Quietly,
           \A r \in Ids : ~ req[r].cb /\ r \notin table' => orb'.answer[r] # "none"
    PROVE  OnceInv'
<1>1. SendInv'
  BY DEF OnceInv, SendInv, Quietly, At, Threads
<1>2. QueueInv'
  <2>1. ASSUME NEW r \in arrived, told[r] # 0 PROVE \E t \in Threads : thr'[t].at = "remove" /\ thr'[t].id = r
    <3>1. PICK t \in Threads : thr[t].at = "remove" /\ thr[t].id = r
      BY <2>1 DEF OnceInv, QueueInv, At
    <3>2. thr'[t] = thr[t]
      BY <3>1 DEF Quietly
    <3> QED BY <3>1, <3>2
  <2> QED BY <2>1 DEF OnceInv, QueueInv, Quietly, At, Threads
<1>3. FireInv'
  BY DEF OnceInv, FireInv, Quietly, At, ForMe, Threads
<1>4. ResultInv'
  BY DEF OnceInv, ResultInv, Quietly, Answered, Ids
<1> QED BY <1>1, <1>2, <1>3, <1>4 DEF OnceInv

(* The ORB, the server and the calls that only move a thread. *)
LEMMA QuietSteps ==
    ASSUME TypeOK, PlacesInv, OnceInv, NEW t \in Threads,
           \/ Device \/ ServerStops
           \/ (\E r \in Ids : ReplyWait(t, r)) \/ ReplyNotArrived(t)
           \/ (t # CbThread /\ Signal(t))
           \/ FetchEnds(t) \/ SweepEnds(t)
           \/ IsStopped \/ WaitForRequests \/ RunUndetached
           \/ \E dev \in Proxies \cup {"all"}, call \in Calls : GetAsynchReplies(t, dev, call)
           \/ SetAsynchCbSubModel(t)
           \/ \E p \in Proxies : CancelAllPollingAsynchRequest(t, p)
           \/ \E r \in Ids : CancelAsynchRequest(t, r)
    PROVE  OnceInv'
<1>0. /\ CbThread \in Threads
      /\ orb \in [answer : [Ids -> Answers], ran : SUBSET Ids, queue : SUBSET Ids]
  BY DEF Threads, TypeOK
<1> DEFINE Same == UNCHANGED <<req, table, cbtab, arrived, told>>
           Calm == \A u \in Threads : \/ thr'[u] = thr[u]
                                      \/ thr[u].at # "remove" /\ thr'[u].at \notin {"send", "fire", "remove"}
<1>1. ASSUME Same, orb' = orb, Calm PROVE OnceInv'
  <2>1. \A r \in Ids : ~ req[r].cb /\ r \notin table' => orb'.answer[r] # "none"
    BY <1>1 DEF OnceInv, ResultInv, Answered
  <2> QED BY <1>1, <2>1, QuietKeeps DEF Quietly
<1>2. ASSUME NEW u \in Threads, Same, orb' = orb, thr[u].at # "remove",
             Home(u) \/ \E w \in {"reply", "fetch", "sweep", "exit", "lock", "asleep", "woken", "check"} : \E r : MovesTo(u, w, r)
      PROVE  OnceInv'
  <2>1. Calm
    BY <1>2 DEF Home, MovesTo, Others
  <2> QED BY <1>1, <1>2, <2>1
<1>3. ASSUME NEW u \in Threads, NEW x, thr[u].at # "remove", x.at \notin {"send", "fire", "remove"},
             \A v \in Threads : thr'[v] = (IF v = u THEN x ELSE thr[v]) \/ (v = CbThread /\ WokenUp(v)),
             Same, orb' = orb
      PROVE  OnceInv'
  <2>1. Calm
    BY <1>3 DEF WokenUp
  <2> QED BY <1>1, <1>3, <2>1
<1>4. ASSUME NEW r \in Ids, NEW a \in Answers \ {"none"}, NEW ran, OrbAnswers(r, a, ran) PROVE OnceInv'
  <2>1. orb'.queue = orb.queue /\ orb'.answer = [orb.answer EXCEPT ![r] = a]
    BY <1>0, <1>4 DEF OrbAnswers
  <2>2. Quietly /\ table' = table
    BY <1>4, <2>1 DEF OrbAnswers, Quietly, tables
  <2>3. \A q \in Ids : ~ req[q].cb /\ q \notin table' => orb'.answer[q] # "none"
    BY <1>0, <2>1, <2>2 DEF OnceInv, ResultInv, Answered
  <2> QED BY <2>2, <2>3, QuietKeeps
<1>5. ASSUME Device PROVE OnceInv'
  <2>1. PICK r \in Ids : Run(r) \/ Reply(r) \/ Timeout(r) \/ Refuse(r) \/ NoMatch(r) \/ Break(r)
    BY <1>5 DEF Device
  <2>2. CASE Run(r)
    <3>1. OrbAnswers(r, orb.answer[r], orb.ran \cup {r})
      BY <2>2 DEF Run
    <3>2. orb'.queue = orb.queue /\ orb'.answer = orb.answer
      BY <1>0, <3>1 DEF OrbAnswers
    <3>3. Quietly /\ table' = table
      BY <3>1, <3>2 DEF OrbAnswers, Quietly, tables
    <3>4. \A q \in Ids : ~ req[q].cb /\ q \notin table' => orb'.answer[q] # "none"
      BY <3>2, <3>3 DEF OnceInv, ResultInv, Answered
    <3> QED BY <3>3, <3>4, QuietKeeps
  <2>3. CASE ~ Run(r)
    <3>1. \E a \in {"ok", "failed", "timeout", "refused", "nomatch", "broken"} : OrbAnswers(r, a, orb.ran)
      BY <2>1, <2>3 DEF Reply, Timeout, Refuse, NoMatch, Break
    <3> QED BY <1>4, <3>1 DEF Answers
  <2> QED BY <2>2, <2>3
<1>6. ASSUME ServerStops PROVE OnceInv'
  BY <1>1, <1>6 DEF ServerStops, tables
<1>7. ASSUME \/ \E p \in Proxies : CancelAllPollingAsynchRequest(t, p)
             \/ \E r \in Ids : CancelAsynchRequest(t, r)
      PROVE  OnceInv'
  BY <1>1, <1>7 DEF CancelAllPollingAsynchRequest, CancelAsynchRequest
<1>8. ASSUME NEW r \in Ids, ReplyWait(t, r) PROVE OnceInv'
  <2>1. Same /\ orb' = orb /\ thr[t].at # "remove"
    BY <1>8 DEF ReplyWait, tables, At
  <2> QED BY <1>2, <1>8, <2>1, ThreadSteps
<1>9. ASSUME ReplyNotArrived(t) PROVE OnceInv'
  <2>1. Same /\ orb' = orb /\ thr[t].at # "remove"
    BY <1>9 DEF ReplyNotArrived, tables, At
  <2> QED BY <1>2, <1>9, <2>1, ThreadSteps
<1>10. ASSUME FetchEnds(t) PROVE OnceInv'
  <2>1. Same /\ orb' = orb /\ thr[t].at # "remove"
    BY <1>10 DEF FetchEnds, tables, At
  <2> QED BY <1>2, <1>10, <2>1, ThreadSteps
<1>11. ASSUME SweepEnds(t) PROVE OnceInv'
  <2>1. Same /\ orb' = orb /\ thr[t].at # "remove"
    BY <1>11 DEF SweepEnds, tables, At
  <2> QED BY <1>2, <1>11, <2>1, ThreadSteps
<1>12. ASSUME IsStopped \/ WaitForRequests \/ RunUndetached PROVE OnceInv'
  <2>1. Same /\ orb' = orb /\ thr[CbThread].at # "remove"
    BY <1>12 DEF IsStopped, WaitForRequests, RunUndetached, At, tables
  <2>2. \E w \in {"exit", "lock", "asleep", "woken", "sweep", "check"} : Goes(CbThread, w)
    BY <1>12 DEF IsStopped, WaitForRequests, RunUndetached
  <2>3. \E w \in {"exit", "lock", "asleep", "woken", "sweep", "check"} : MovesTo(CbThread, w, thr[CbThread].id)
    BY <1>0, <2>2, Moves
  <2> QED BY <1>0, <1>2, <2>1, <2>3
<1>13. ASSUME NEW dev \in Proxies \cup {"all"}, NEW call \in Calls, GetAsynchReplies(t, dev, call)
       PROVE  OnceInv'
  <2> DEFINE x == [Idle EXCEPT !.call = call, !.dev = dev, !.at = IF call = "poll" THEN "fetch" ELSE "sweep"]
  <2>0. x.at \notin {"send", "fire", "remove"}
    BY DEF Idle
  <2> HIDE DEF x
  <2>1. thr' = [thr EXCEPT ![t] = x]
    BY <1>13, Zenon DEF GetAsynchReplies, x
  <2>2. UNCHANGED <<scenario, req, tables, conn, push, stop, orb, up, told, redone>> /\ At(t, "idle")
    BY <1>13, Zenon DEF GetAsynchReplies
  <2>3. Same /\ orb' = orb /\ thr[t].at # "remove"
    BY <2>2 DEF tables, At
  <2>4. \A u \in Threads : thr'[u] = IF u = t THEN x ELSE thr[u]
    BY <2>1 DEF TypeOK
  <2> QED BY <1>3, <2>0, <2>3, <2>4
<1>14. ASSUME t # CbThread, Signal(t) PROVE OnceInv'
  <2> DEFINE f == [thr EXCEPT ![t] = Idle]
  <2>1. Same /\ orb' = orb /\ thr[t].at # "remove" /\ thr' = Awake(f)
    BY <1>14 DEF Signal, tables, At
  <2>2. f \in [Threads -> ThreadType] /\ f[CbThread] = thr[CbThread]
    BY <1>0, <1>14, IdleTypes DEF TypeOK
  <2>3. \A u \in Threads : f[u] = IF u = t THEN Idle ELSE thr[u]
    BY DEF TypeOK
  <2> HIDE DEF f
  <2>4. \A u \in Threads : thr'[u] = f[u] \/ (u = CbThread /\ WokenUp(u))
    BY <2>1, <2>2, AwakeMoves
  <2>5. Idle.at \notin {"send", "fire", "remove"}
    BY DEF Idle
  <2> QED BY <1>3, <2>1, <2>3, <2>4, <2>5
<1>15. ASSUME SetAsynchCbSubModel(t) PROVE OnceInv'
  <2>1. Same /\ orb' = orb /\ thr' = Awake(thr)
    BY <1>15 DEF SetAsynchCbSubModel, tables
  <2>2. \A u \in Threads : thr'[u] = thr[u] \/ (u = CbThread /\ WokenUp(u))
    BY <2>1, AwakeMoves DEF TypeOK
  <2>3. Calm
    BY <2>2 DEF WokenUp
  <2> QED BY <1>1, <2>1, <2>3
<1> QED BY <1>5, <1>6, <1>7, <1>8, <1>9, <1>10, <1>11, <1>12, <1>13, <1>14, <1>15

(* The life of a request with a callback, step by step. *)
LEMMA SendOnce ==
    ASSUME TypeOK, OnceInv, NEW t \in Threads, Send(t)
    PROVE  OnceInv'
<1> DEFINE r == thr[t].id
<1>1. /\ UNCHANGED <<req, table, cbtab, arrived, told>> /\ thr[t].at = "send"
      /\ orb' = [orb EXCEPT !.queue = @ \cup {r}]
  BY DEF Send, tables, At
<1>2. orb'.queue = orb.queue \cup {r} /\ orb'.answer = orb.answer
  BY <1>1 DEF TypeOK
<1>3. /\ Others(t) /\ thr'[t].at \notin {"send", "fire", "remove"}
  BY ThreadSteps DEF MovesTo, Home
<1>4. r \in cbtab \ (orb.queue \cup arrived) /\ told[r] = 0
  BY <1>1 DEF OnceInv, SendInv, At
<1>5. \A u \in Threads : u # t /\ thr[u].at = "send" => thr[u].id # r
  BY <1>1 DEF OnceInv, SendInv, At
<1> HIDE DEF r
<1>6. SendInv'
  BY <1>1, <1>2, <1>3, <1>5 DEF OnceInv, SendInv, At, Others, Threads
<1>7. QueueInv'
  <2>1. ASSUME NEW q \in arrived, told[q] # 0 PROVE \E u \in Threads : thr'[u].at = "remove" /\ thr'[u].id = q
    <3>1. PICK u \in Threads : thr[u].at = "remove" /\ thr[u].id = q
      BY <2>1 DEF OnceInv, QueueInv, At
    <3> QED BY <1>1, <1>3, <3>1 DEF Others
  <2> QED BY <1>1, <1>2, <1>4, <2>1 DEF OnceInv, QueueInv, At, Threads
<1>8. FireInv'
  BY <1>1, <1>3 DEF OnceInv, FireInv, At, ForMe, Others, Threads
<1>9. ResultInv'
  BY <1>1, <1>2 DEF OnceInv, ResultInv, Answered, Ids
<1> QED BY <1>6, <1>7, <1>8, <1>9 DEF OnceInv

LEMMA FetchOnce ==
    ASSUME TypeOK, OnceInv, NEW t \in Threads, Fetch(t)
    PROVE  OnceInv'
<1>1. /\ UNCHANGED <<req, table, cbtab, told>> /\ thr[t].at = "fetch"
  BY DEF Fetch, At
<1>2. PICK r \in orb.queue :
         /\ orb' = [orb EXCEPT !.queue = @ \ {r}] /\ arrived' = arrived \cup {r}
         /\ IF ForMe(t, r) THEN MovesTo(t, "fire", r) ELSE MovesTo(t, "fetch", 0)
  BY ThreadSteps
<1>3. orb'.queue = orb.queue \ {r} /\ orb'.answer = orb.answer
  BY <1>2 DEF TypeOK
<1>4. Others(t) /\ thr'[t].at \notin {"send", "remove"} /\ thr'[t].dev = thr[t].dev
  BY <1>2 DEF MovesTo
<1>5. r \in cbtab /\ r \notin arrived /\ told[r] = 0
  BY DEF OnceInv, QueueInv
<1>6. \A u \in Threads : thr[u].at = "send" => thr[u].id # r
  BY DEF OnceInv, SendInv, At
<1>7. SendInv'
  BY <1>1, <1>2, <1>3, <1>4, <1>6 DEF OnceInv, SendInv, At, Others, Threads
<1>8. QueueInv'
  <2>1. ASSUME NEW q \in arrived, told[q] # 0 PROVE \E u \in Threads : thr'[u].at = "remove" /\ thr'[u].id = q
    <3>1. PICK u \in Threads : thr[u].at = "remove" /\ thr[u].id = q
      BY <2>1 DEF OnceInv, QueueInv, At
    <3> QED BY <1>1, <1>4, <3>1 DEF Others
  <2> QED BY <1>1, <1>2, <1>3, <1>5, <2>1 DEF OnceInv, QueueInv, At, Threads
<1>9. FireInv'
  <2>1. ASSUME NEW u \in Threads, u # t, thr'[u].at \in {"fire", "remove"}
        PROVE  thr'[u].id \in arrived' /\ ForMe(u, thr[u].id)' /\ told'[thr'[u].id] = IF thr'[u].at = "fire" THEN 0 ELSE 1
    BY <1>1, <1>2, <1>4, <2>1 DEF OnceInv, FireInv, At, ForMe, Others
  <2>2. ASSUME thr'[t].at = "fire"
        PROVE  thr'[t].id \in arrived' /\ ForMe(t, thr[t].id)' /\ told'[thr'[t].id] = 0
    <3>1. ForMe(t, r) /\ thr'[t].id = r
      BY <1>2, <2>2 DEF MovesTo
    <3> QED BY <1>1, <1>2, <1>4, <1>5, <3>1 DEF ForMe
  <2> QED BY <1>4, <2>1, <2>2 DEF FireInv, At, Threads
<1>10. ResultInv'
  BY <1>1, <1>3 DEF OnceInv, ResultInv, Answered, Ids
<1> QED BY <1>7, <1>8, <1>9, <1>10 DEF OnceInv

LEMMA SweepOnce ==
    ASSUME TypeOK, PlacesInv, OneReader(scenario), OnceInv, NEW t \in Threads, Sweep(t)
    PROVE  OnceInv'
<1>1. /\ UNCHANGED <<req, table, cbtab, arrived, told, orb>> /\ thr[t].at = "sweep"
  BY DEF Sweep, At, tables
<1>2. PICK r \in arrived : ForMe(t, r) /\ MovesTo(t, "fire", r)
  BY ThreadSteps
<1>3. told[r] = 0
  <2>1. SUFFICES ASSUME told[r] # 0 PROVE FALSE
    OBVIOUS
  <2>2. PICK u \in Threads : thr[u].at = "remove" /\ thr[u].id = r
    BY <2>1 DEF OnceInv, QueueInv, At
  <2>3. ForMe(u, r) /\ r \in Ids
    BY <2>2 DEF OnceInv, FireInv, At, TypeOK
  <2>4. t = u
    BY <1>1, <1>2, <2>2, <2>3, OneReads DEF Reading
  <2> QED BY <1>1, <2>2, <2>4
<1>4. Others(t) /\ thr'[t].at = "fire" /\ thr'[t].dev = thr[t].dev /\ thr'[t].id = r
  BY <1>2 DEF MovesTo
<1>5. SendInv'
  BY <1>1, <1>4 DEF OnceInv, SendInv, At, Others, Threads
<1>6. QueueInv'
  <2>1. ASSUME NEW q \in arrived, told[q] # 0 PROVE \E u \in Threads : thr'[u].at = "remove" /\ thr'[u].id = q
    <3>1. PICK u \in Threads : thr[u].at = "remove" /\ thr[u].id = q
      BY <2>1 DEF OnceInv, QueueInv, At
    <3> QED BY <1>1, <1>4, <3>1 DEF Others
  <2> QED BY <1>1, <2>1 DEF OnceInv, QueueInv, At, Threads
<1>7. FireInv'
  BY <1>1, <1>2, <1>3, <1>4 DEF OnceInv, FireInv, At, ForMe, Others, Threads
<1>8. ResultInv'
  BY <1>1 DEF OnceInv, ResultInv, Answered, Ids
<1> QED BY <1>5, <1>6, <1>7, <1>8 DEF OnceInv

LEMMA FireOnce ==
    ASSUME TypeOK, PlacesInv, OneReader(scenario), OnceInv, NEW t \in Threads, Fire(t)
    PROVE  OnceInv'
<1> DEFINE r == thr[t].id
<1>1. UNCHANGED <<req, table, cbtab, arrived, orb>> /\ thr[t].at = "fire"
  BY DEF Fire, At, tables
<1>2. r \in arrived /\ ForMe(t, r) /\ told[r] = 0 /\ r \in Ids /\ r \in cbtab
  BY <1>1 DEF OnceInv, FireInv, QueueInv, At, TypeOK
<1>3. told' = [told EXCEPT ![r] = @ + 1]
  BY DEF Fire, CbCmdRequest, CbReadAttrRequest, CbWriteAttrRequest, CbFired, Told
<1>4. MovesTo(t, "remove", r)
  BY ThreadSteps
<1>5. \A u \in Threads : u # t /\ thr[u].at \in {"fire", "remove"} => thr[u].id # r
  <2> SUFFICES ASSUME NEW u \in Threads, thr[u].at \in {"fire", "remove"}, thr[u].id = r PROVE u = t
    OBVIOUS
  <2>1. ForMe(u, r)
    BY DEF OnceInv, FireInv, At
  <2> QED BY <1>1, <1>2, <2>1, OneReads DEF Reading
<1>6. \A u \in Threads : thr[u].at = "send" => thr[u].id # r
  BY <1>2 DEF OnceInv, SendInv, At
<1>7. r \notin orb.queue
  BY <1>2 DEF OnceInv, QueueInv
<1> HIDE DEF r
<1>8. told'[r] = 1 /\ \A q \in Ids : q # r => told'[q] = told[q]
  BY <1>2, <1>3 DEF TypeOK
<1>9. Others(t) /\ thr'[t].at = "remove" /\ thr'[t].dev = thr[t].dev /\ thr'[t].id = r
  BY <1>4 DEF MovesTo
<1>10. SendInv'
  <2>1. \A u \in Threads : thr[u].at = "send" => thr[u].id \in Ids
    BY DEF TypeOK
  <2> QED BY <1>1, <1>6, <1>8, <1>9, <2>1 DEF OnceInv, SendInv, At, Others, Threads
<1>11. QueueInv'
  <2>1. ASSUME NEW q \in arrived, told'[q] # 0 PROVE \E u \in Threads : thr'[u].at = "remove" /\ thr'[u].id = q
    <3>1. CASE q = r
      BY <1>9, <3>1
    <3>2. CASE q # r
      <4>1. told[q] # 0
        BY <1>8, <2>1, <3>2 DEF TypeOK
      <4>2. PICK u \in Threads : thr[u].at = "remove" /\ thr[u].id = q
        BY <4>1 DEF OnceInv, QueueInv, At
      <4> QED BY <1>1, <1>9, <4>2 DEF Others
    <3> QED BY <3>1, <3>2
  <2>2. \A q \in orb.queue : told'[q] = 0
    BY <1>7, <1>8 DEF OnceInv, QueueInv, TypeOK
  <2> QED BY <1>1, <2>1, <2>2 DEF OnceInv, QueueInv, At, Threads
<1>12. FireInv'
  <2>1. ASSUME NEW u \in Threads, u # t, thr'[u].at \in {"fire", "remove"}
        PROVE  thr'[u].id \in arrived' /\ ForMe(u, thr[u].id)' /\ told'[thr'[u].id] = IF thr'[u].at = "fire" THEN 0 ELSE 1
    <3>1. thr'[u] = thr[u] /\ thr[u].id # r /\ thr[u].id \in arrived /\ ForMe(u, thr[u].id)
          /\ told[thr[u].id] = IF thr[u].at = "fire" THEN 0 ELSE 1
      BY <1>5, <1>9, <2>1 DEF OnceInv, FireInv, At, Others
    <3>2. told'[thr[u].id] = told[thr[u].id]
      BY <1>8, <3>1 DEF TypeOK
    <3> QED BY <1>1, <3>1, <3>2 DEF ForMe
  <2>2. thr'[t].id \in arrived' /\ ForMe(t, thr[t].id)' /\ told'[thr'[t].id] = 1
    BY <1>1, <1>2, <1>8, <1>9 DEF ForMe
  <2> QED BY <1>9, <2>1, <2>2 DEF FireInv, At, Threads
<1>13. ResultInv'
  BY <1>1, <1>2, <1>8 DEF OnceInv, ResultInv, Answered, Ids
<1> QED BY <1>10, <1>11, <1>12, <1>13 DEF OnceInv

LEMMA RemoveOnce ==
    ASSUME TypeOK, PlacesInv, OneReader(scenario), OnceInv, NEW t \in Threads, RemoveAsynCbRequest(t)
    PROVE  OnceInv'
<1> DEFINE r == thr[t].id
<1>1. /\ UNCHANGED <<req, table, orb, told>> /\ thr[t].at = "remove"
      /\ cbtab' = cbtab \ {r} /\ arrived' = arrived \ {r}
  BY DEF RemoveAsynCbRequest, At
<1>2. r \in arrived /\ ForMe(t, r) /\ told[r] = 1 /\ r \in Ids
  BY <1>1 DEF OnceInv, FireInv, At, TypeOK
<1>3. Others(t) /\ thr'[t].at \notin {"send", "fire", "remove"}
  BY ThreadSteps DEF MovesTo, Home
<1>4. \A u \in Threads : u # t /\ thr[u].at \in {"fire", "remove"} => thr[u].id # r
  <2> SUFFICES ASSUME NEW u \in Threads, thr[u].at \in {"fire", "remove"}, thr[u].id = r PROVE u = t
    OBVIOUS
  <2>1. ForMe(u, r)
    BY DEF OnceInv, FireInv, At
  <2> QED BY <1>1, <1>2, <2>1, OneReads DEF Reading
<1>5. \A u \in Threads : thr[u].at = "send" => thr[u].id # r
  BY <1>2 DEF OnceInv, SendInv, At
<1>6. r \notin orb.queue
  BY <1>2 DEF OnceInv, QueueInv
<1>7. \A u \in Threads : thr[u].at = "remove" /\ u # t => thr[u].id # r
  BY <1>4
<1>8. thr[t].id = r
  OBVIOUS
<1> HIDE DEF r
<1>9. SendInv'
  BY <1>1, <1>3, <1>5 DEF OnceInv, SendInv, At, Others, Threads
<1>10. QueueInv'
  <2>1. ASSUME NEW q \in arrived, q # r, told[q] # 0 PROVE \E u \in Threads : thr'[u].at = "remove" /\ thr'[u].id = q
    <3>1. PICK u \in Threads : thr[u].at = "remove" /\ thr[u].id = q
      BY <2>1 DEF OnceInv, QueueInv, At
    <3>2. u # t
      BY <1>8, <2>1, <3>1
    <3> QED BY <1>3, <3>1, <3>2 DEF Others
  <2> QED BY <1>1, <1>6, <2>1 DEF OnceInv, QueueInv, At, Threads
<1>11. FireInv'
  BY <1>1, <1>3, <1>4 DEF OnceInv, FireInv, At, ForMe, Others, Threads
<1>12. ResultInv'
  BY <1>1, <1>2 DEF OnceInv, ResultInv, Answered, Ids
<1> QED BY <1>9, <1>10, <1>11, <1>12 DEF OnceInv

LEMMA ReplyOnce ==
    ASSUME TypeOK, OnceInv, NEW t \in Users, Replied(t)
    PROVE  OnceInv'
<1>0. t \in Threads
  BY DEF Threads
<1>1. PICK r \in Ids : CommandInoutReply(t, r) \/ ReadAttributesReply(t, r) \/ WriteAttributesReply(t, r)
  BY DEF Replied
<1>2. /\ UNCHANGED <<req, cbtab, arrived, orb>> /\ told' = [told EXCEPT ![r] = @ + 1]
      /\ r \in table /\ Answered(r) /\ told[r] = 0 /\ thr[t].at \in {"idle", "reply"}
  BY <1>1 DEF CommandInoutReply, ReadAttributesReply, WriteAttributesReply, Answer, Told, At
<1>3. table' \in {table, table \ {r}}
  BY <1>1 DEF CommandInoutReply, ReadAttributesReply, WriteAttributesReply, AttrReplied, RemoveAsynRequest
<1>4. ~ req[r].cb /\ r \notin cbtab /\ orb.queue \subseteq cbtab /\ arrived \subseteq cbtab
  BY <1>2 DEF TypeOK, OnceInv, QueueInv
<1>5. told'[r] = 1 /\ \A q \in Ids : q # r => told'[q] = told[q]
  BY <1>2 DEF TypeOK
<1>6. Others(t) /\ thr'[t].at \notin {"send", "fire", "remove"}
  BY <1>0, ThreadSteps DEF Home
<1>7. \A q \in cbtab : q \in Ids /\ told'[q] = told[q]
  BY <1>4, <1>5 DEF TypeOK
<1>8. SendInv'
  BY <1>2, <1>6, <1>7 DEF OnceInv, SendInv, At, Others, Threads
<1>9. QueueInv'
  <2>1. ASSUME NEW q \in arrived, told'[q] # 0 PROVE \E u \in Threads : thr'[u].at = "remove" /\ thr'[u].id = q
    <3>1. told[q] # 0
      BY <1>4, <1>7, <2>1
    <3>2. PICK u \in Threads : thr[u].at = "remove" /\ thr[u].id = q
      BY <3>1 DEF OnceInv, QueueInv, At
    <3> QED BY <1>2, <1>6, <3>2 DEF Others
  <2> QED BY <1>2, <1>4, <1>7, <2>1 DEF OnceInv, QueueInv, At, Threads
<1>10. FireInv'
  BY <1>2, <1>4, <1>6, <1>7 DEF OnceInv, FireInv, At, ForMe, Others, Threads
<1>11. ResultInv'
  BY <1>2, <1>3, <1>4, <1>5 DEF OnceInv, ResultInv, Answered, Ids
<1> QED BY <1>8, <1>9, <1>10, <1>11 DEF OnceInv

LEMMA AddOnce ==
    ASSUME TypeOK, OnceInv, NEW t \in Users, Adds(t)
    PROVE  OnceInv'
<1>0. t \in Threads /\ {TRUE, FALSE} \subseteq BOOLEAN
  BY DEF Threads
<1> DEFINE new == Len(req) + 1
<1>1. PICK p \in Proxies, k \in Kinds : At(t, "idle") /\ (AddAsynRequest(p, k) \/ AddAsynCbRequest(t, p, k))
  BY DEF Adds
<1>2. PICK cb \in BOOLEAN : Issue(p, k, cb) /\ (AddAsynRequest(p, k) => ~ cb) /\ (AddAsynCbRequest(t, p, k) /\ ~ AddAsynRequest(p, k) => cb)
  BY <1>1 DEF AddAsynRequest, AddAsynCbRequest
<1>3. /\ Ids' = Ids \cup {new} /\ new \notin Ids
      /\ req'[new] = [dev |-> p, kind |-> k, cb |-> cb] /\ \A r \in Ids : req'[r] = req[r]
      /\ told'[new] = 0 /\ \A r \in Ids : told'[r] = told[r]
      /\ orb'.queue = orb.queue /\ orb'.answer[new] = "none" /\ \A r \in Ids : orb'.answer[r] = orb.answer[r]
  BY <1>2, IssueFacts
<1>4. req'[new].cb = cb
  BY <1>3
<1> HIDE DEF new
<1>5. /\ cbtab \subseteq Ids /\ orb.queue \subseteq Ids /\ arrived \subseteq Ids /\ table \subseteq Ids
      /\ \A u \in Threads : thr[u].at \in {"send", "fire", "remove"} => thr[u].id \in Ids
  BY DEF TypeOK
<1>6. ASSUME arrived' = arrived PROVE QueueInv' <=> /\ orb.queue \subseteq cbtab' /\ arrived \subseteq cbtab'
                                                    /\ \A r \in arrived : told[r] # 0 => \E u \in Threads : thr'[u].at = "remove" /\ thr'[u].id = r
  BY <1>3, <1>5, <1>6 DEF OnceInv, QueueInv, At, Threads
<1>7. CASE AddAsynRequest(p, k)
  <2>1. /\ UNCHANGED <<cbtab, arrived, thr>> /\ ~ cb
        /\ table' = (table \ (ToSet(cancelled) \ ToSet(Purged))) \cup {new}
    BY <1>2, <1>7 DEF AddAsynRequest, new
  <2>2. SendInv'
    BY <1>3, <1>5, <2>1 DEF OnceInv, SendInv, At, Threads
  <2>3. QueueInv'
    BY <1>6, <2>1 DEF OnceInv, QueueInv, At
  <2>4. FireInv'
    BY <1>3, <1>5, <2>1 DEF OnceInv, FireInv, At, ForMe, Threads
  <2>5. \A r \in ToSet(cancelled) \ ToSet(Purged) : RemoveCancelledRequest(r)
    BY PurgedFacts
  <2>6. ASSUME NEW r \in Ids, ~ req[r].cb, r \notin table' PROVE orb'.answer[r] # "none"
    <3>1. r \notin table \/ RemoveCancelledRequest(r)
      BY <1>3, <2>1, <2>5, <2>6
    <3>2. Answered(r)
      BY <2>6, <3>1 DEF RemoveCancelledRequest, OnceInv, ResultInv
    <3> QED BY <1>3, <3>2 DEF Answered
  <2>7. ASSUME NEW r \in Ids' PROVE /\ told'[r] <= 1
                                    /\ req'[r].cb /\ r \notin cbtab' => told'[r] = 1
                                    /\ ~ req'[r].cb /\ r \notin table' => orb'.answer[r] # "none"
    <3>1. CASE r = new
      BY <1>3, <1>4, <2>1, <3>1
    <3>2. CASE r \in Ids
      BY <1>3, <2>1, <2>6, <3>2 DEF OnceInv, ResultInv
    <3> QED BY <1>3, <3>1, <3>2
  <2>8. ResultInv'
    BY <2>7 DEF ResultInv, Answered
  <2> QED BY <2>2, <2>3, <2>4, <2>8 DEF OnceInv
<1>8. CASE AddAsynCbRequest(t, p, k) /\ ~ AddAsynRequest(p, k)
  <2>1. /\ UNCHANGED <<arrived, table>> /\ cb /\ cbtab' = cbtab \cup {new} /\ GoesWith(t, "send", new)
    BY <1>2, <1>8 DEF AddAsynCbRequest, GoesWith, new
  <2>2. thr[t].at = "idle" /\ Others(t) /\ thr'[t].at = "send" /\ thr'[t].id = new
    BY <1>0, <1>1, <2>1, Moves DEF MovesTo, At
  <2>3. SendInv'
    <3>1. ASSUME NEW u \in Threads, u # t, thr'[u].at = "send"
          PROVE  /\ thr'[u].id \in cbtab' \ (orb'.queue \cup arrived') /\ told'[thr'[u].id] = 0
                 /\ thr'[u].id # new
                 /\ \A v \in Threads : v # t /\ thr'[v].at = "send" /\ thr'[v].id = thr'[u].id => u = v
      BY <1>3, <1>5, <2>1, <2>2, <3>1 DEF OnceInv, SendInv, At, Others
    <3>2. thr'[t].id \in cbtab' \ (orb'.queue \cup arrived') /\ told'[thr'[t].id] = 0
      BY <1>3, <1>5, <2>1, <2>2
    <3> QED BY <2>2, <3>1, <3>2 DEF SendInv, At, Threads
  <2>4. QueueInv'
    <3>1. ASSUME NEW r \in arrived, told[r] # 0 PROVE \E u \in Threads : thr'[u].at = "remove" /\ thr'[u].id = r
      <4>1. PICK u \in Threads : thr[u].at = "remove" /\ thr[u].id = r
        BY <3>1 DEF OnceInv, QueueInv, At
      <4> QED BY <2>2, <4>1 DEF Others
    <3> QED BY <1>6, <2>1, <3>1 DEF OnceInv, QueueInv
  <2>5. FireInv'
    BY <1>3, <1>5, <2>1, <2>2 DEF OnceInv, FireInv, At, ForMe, Others, Threads
  <2>6. ASSUME NEW r \in Ids' PROVE /\ told'[r] <= 1
                                    /\ req'[r].cb /\ r \notin cbtab' => told'[r] = 1
                                    /\ ~ req'[r].cb /\ r \notin table' => orb'.answer[r] # "none"
    <3>1. CASE r = new
      BY <1>3, <1>4, <2>1, <3>1
    <3>2. CASE r \in Ids
      BY <1>3, <2>1, <3>2 DEF OnceInv, ResultInv, Answered
    <3> QED BY <1>3, <3>1, <3>2
  <2>7. ResultInv'
    BY <2>6 DEF ResultInv, Answered
  <2> QED BY <2>3, <2>4, <2>5, <2>7 DEF OnceInv
<1> QED BY <1>1, <1>7, <1>8

LEMMA OnceStep == ASSUME TypeOK, PlacesInv, OneReader(scenario), OnceInv, [Next]_vars PROVE OnceInv'
<1>0. CbThread \in Threads /\ Users \subseteq Threads /\ ~ Signal(CbThread)
  BY DEF Threads, Signal, At, PlacesInv, Placed
<1>1. CASE Device \/ ServerStops
  BY <1>0, <1>1, QuietSteps
<1>2. ASSUME NEW t \in Threads, Step(t) PROVE OnceInv'
  BY <1>0, <1>2, QuietSteps, SendOnce, FetchOnce, SweepOnce, FireOnce, RemoveOnce DEF Step
<1>3. CASE CbStep
  BY <1>0, <1>2, <1>3, QuietSteps DEF CbStep
<1>4. ASSUME NEW t \in Users, Replied(t) PROVE OnceInv'
  BY <1>4, ReplyOnce
<1>5. ASSUME NEW t \in Users, UserCall(t) PROVE OnceInv'
  BY <1>0, <1>5, UserCallCases, AddOnce, QuietSteps
<1>6. CASE UNCHANGED vars
  BY <1>6 DEF vars, tables, OnceInv, SendInv, QueueInv, FireInv, ResultInv, At, ForMe, Answered, Ids, Threads
<1> QED BY <1>0, <1>1, <1>2, <1>3, <1>4, <1>5, <1>6 DEF Next

LEMMA OnceInit == Init => PlacesInv /\ OnceInv
<1> SUFFICES ASSUME Init PROVE PlacesInv /\ OnceInv
  OBVIOUS
<1>1. /\ Idle.at = "idle" /\ CbIdle.at = (IF scenario.push THEN "check" ELSE "exit") /\ CbIdle.dev = "all"
      /\ \A t \in Threads : thr[t] = IF t = CbThread THEN CbIdle ELSE Idle
  BY DEF Idle, CbIdle, Init
<1>2. PlacesInv
  BY <1>1 DEF PlacesInv, Placed, Reading
<1>3. \A t \in Threads : thr[t].at \notin {"send", "fire", "remove"}
  BY <1>1
<1>4. Ids = {} /\ orb.queue = {} /\ arrived = {} /\ cbtab = {}
  BY DEF Init, Ids
<1>5. OnceInv
  BY <1>3, <1>4 DEF OnceInv, SendInv, QueueInv, FireInv, ResultInv, At
<1> QED BY <1>2, <1>5

(* In the applications where each reply has one reader, however their      *)
(* threads and the one of the push sub-model interleave, the callback of a *)
(* request is fired exactly once before its request leaves the tables,     *)
(* also when the call that got the response was of another proxy; a polled *)
(* request stays in its table while the ORB may write to it; and no        *)
(* response is queued or marked for a request that the tables have         *)
(* forgotten (store_request, get_asynch_replies, remove_asyn_cb_request).  *)
(* The hypothesis is needed: a reply is marked as arrived before its       *)
(* callback is called and is removed after it, so that a second reader     *)
(* fires it again.                                                         *)
THEOREM AsynToldOnce == Spec => [](OneReader(scenario) => ToldOnce)
<1> DEFINE Inv == PlacesInv /\ (OneReader(scenario) => OnceInv)
<1>1. Init => Inv
  BY OnceInit
<1>2. TypeOK /\ Inv /\ [Next]_vars => Inv'
  BY PlacesStep, OnceStep DEF OneReader
<1>3. TypeOK /\ Inv => (OneReader(scenario) => ToldOnce)
  BY DEF OnceInv, ResultInv, QueueInv, ToldOnce
<1> QED BY AsynTypes, <1>1, <1>2, <1>3, PTL DEF Spec

-----------------------------------------------------------------------------
(* The counters of pending requests. *)

ToReply(p) == {r \in table \ ToSet(cancelled) : req[r].dev = p}
ToFire(p) == {r \in cbtab : req[r].dev = p}

(* Beside the counters: a request leaves the table with its reply, and is  *)
(* made on a proxy that its application uses.                              *)
CountInv ==
    /\ \A r \in table : told[r] = 0
    /\ \A r \in Ids : \E t \in Users : req[r].dev \in scenario.own[t]
    /\ \A p \in Proxies : ctr[p] = Cardinality(ToReply(p)) /\ cbctr[p] = Cardinality(ToFire(p))

LEMMA ToFinite == ASSUME TypeOK, NEW p PROVE IsFiniteSet(ToReply(p)) /\ IsFiniteSet(ToFire(p))
<1>1. ToReply(p) \subseteq Ids /\ ToFire(p) \subseteq Ids /\ IsFiniteSet(Ids)
  BY ReqTypes DEF TypeOK, ToReply, ToFire
<1> QED BY <1>1, FS_Subset

LEMMA CountKept ==
    ASSUME TypeOK, CountInv, UNCHANGED <<scenario, req, table, cancelled, cbtab, ctr, cbctr>>,
           \A r \in table : told'[r] = told[r]
    PROVE  CountInv'
<1>1. \A p : ToReply(p)' = ToReply(p) /\ ToFire(p)' = ToFire(p)
  BY DEF ToReply, ToFire
<1> QED BY <1>1 DEF CountInv, Ids

(* One request more or less, of one proxy. *)
LEMMA Count ==
    ASSUME NEW S, IsFiniteSet(S), NEW r
    PROVE  /\ r \notin S => Cardinality(S \cup {r}) = Cardinality(S) + 1
           /\ r \in S => Cardinality(S \ {r}) = Cardinality(S) - 1
           /\ Cardinality(S) \in Nat
BY FS_AddElement, FS_RemoveElement, FS_CardinalityType

LEMMA AddCounted ==
    ASSUME TypeOK, CountInv, NEW t \in Users, Adds(t)
    PROVE  CountInv'
<1>0. t \in Threads /\ {TRUE, FALSE} \subseteq BOOLEAN
  BY DEF Threads
<1> DEFINE new == Len(req) + 1
<1>1. PICK p \in Proxies, k \in Kinds : Uses(t, p) /\ (AddAsynRequest(p, k) \/ AddAsynCbRequest(t, p, k))
  BY DEF Adds
<1>2. \E cb \in BOOLEAN : Issue(p, k, cb)
  BY <1>1 DEF AddAsynRequest, AddAsynCbRequest
<1>3. /\ Ids' = Ids \cup {new} /\ new \notin Ids
      /\ req'[new].dev = p /\ \A r \in Ids : req'[r] = req[r]
      /\ told'[new] = 0 /\ \A r \in Ids : told'[r] = told[r]
      /\ scenario' = scenario
  <2>1. scenario' = scenario
    BY <1>1 DEF AddAsynRequest, AddAsynCbRequest
  <2>2. PICK cb \in BOOLEAN : Issue(p, k, cb)
    BY <1>2
  <2>3. req'[new] = [dev |-> p, kind |-> k, cb |-> cb]
    BY <2>2, IssueFacts
  <2> QED BY <2>1, <2>2, <2>3, IssueFacts
<1>4. \A r \in Ids' : \E u \in Users : req'[r].dev \in scenario'.own[u]
  BY <1>1, <1>3 DEF Uses, CountInv
<1>5. /\ cbtab \subseteq Ids /\ table \subseteq Ids /\ ToSet(cancelled) \subseteq Ids
      /\ ctr \in [Proxies -> Int] /\ cbctr \in [Proxies -> Int]
  BY DEF TypeOK, ToSet
<1>6. \A q : /\ IsFiniteSet(ToReply(q)) /\ IsFiniteSet(ToFire(q))
             /\ new \notin ToReply(q) /\ new \notin ToFire(q)
  BY <1>3, <1>5, ToFinite DEF ToReply, ToFire
<1>7. CASE AddAsynRequest(p, k)
  <2>1. /\ UNCHANGED <<cbtab, cbctr>> /\ cancelled' = Purged
        /\ table' = (table \ (ToSet(cancelled) \ ToSet(Purged))) \cup {new}
        /\ ctr' = [ctr EXCEPT ![p] = @ + 1]
    BY <1>7 DEF AddAsynRequest
  <2> HIDE DEF new
  <2>2. ToSet(cancelled') \subseteq ToSet(cancelled)
    BY <2>1, PurgedFacts
  <2>3. table' \ ToSet(cancelled') = (table \ ToSet(cancelled)) \cup {new}
    BY <1>3, <1>5, <2>1, <2>2
  <2>4. ToReply(p)' = ToReply(p) \cup {new} /\ \A q : q # p => ToReply(q)' = ToReply(q)
    BY <1>3, <1>5, <2>3 DEF ToReply
  <2>5. \A q : ToFire(q)' = ToFire(q)
    BY <1>3, <1>5, <2>1 DEF ToFire
  <2>6. \A q \in Proxies : ctr'[q] = Cardinality(ToReply(q)') /\ cbctr'[q] = Cardinality(ToFire(q)')
    <3>1. Cardinality(ToReply(p)') = Cardinality(ToReply(p)) + 1
      BY <1>6, <2>4, Count
    <3> QED BY <1>5, <2>1, <2>4, <2>5, <3>1 DEF CountInv
  <2>7. \A r \in table' : told'[r] = 0
    BY <1>3, <1>5, <2>1 DEF CountInv
  <2> QED BY <1>4, <2>6, <2>7 DEF CountInv
<1>8. CASE AddAsynCbRequest(t, p, k)
  <2>1. /\ UNCHANGED <<table, cancelled, ctr>> /\ cbtab' = cbtab \cup {new}
        /\ cbctr' = [cbctr EXCEPT ![p] = @ + 1]
    BY <1>8 DEF AddAsynCbRequest
  <2> HIDE DEF new
  <2>2. ToFire(p)' = ToFire(p) \cup {new} /\ \A q : q # p => ToFire(q)' = ToFire(q)
    BY <1>3, <1>5, <2>1 DEF ToFire
  <2>3. \A q : ToReply(q)' = ToReply(q)
    BY <1>3, <1>5, <2>1 DEF ToReply
  <2>4. \A q \in Proxies : ctr'[q] = Cardinality(ToReply(q)') /\ cbctr'[q] = Cardinality(ToFire(q)')
    <3>1. Cardinality(ToFire(p)') = Cardinality(ToFire(p)) + 1
      BY <1>6, <2>2, Count
    <3> QED BY <1>5, <2>1, <2>2, <2>3, <3>1 DEF CountInv
  <2>5. \A r \in table' : told'[r] = 0
    BY <1>3, <1>5, <2>1 DEF CountInv
  <2> QED BY <1>4, <2>4, <2>5 DEF CountInv
<1> QED BY <1>1, <1>7, <1>8

(* A request that is to be polled, replied or cancelled. *)
LEMMA LessToReply ==
    ASSUME TypeOK, CountInv, NEW r \in table \ ToSet(cancelled), UNCHANGED <<scenario, req, cbtab, cbctr>>,
           table' \ ToSet(cancelled') = (table \ ToSet(cancelled)) \ {r},
           ctr' = [ctr EXCEPT ![req[r].dev] = @ - 1],
           \A q \in table' : told'[q] = 0
    PROVE  CountInv'
<1>1. r \in Ids /\ ctr \in [Proxies -> Int]
  BY DEF TypeOK
<1>2. PICK p \in Proxies : p = req[r].dev
  BY <1>1, ReqTypes
<1>3. r \in ToReply(p) /\ IsFiniteSet(ToReply(p)) /\ Cardinality(ToReply(p)) \in Nat
  <2>1. r \in ToReply(p)
    BY <1>2 DEF ToReply
  <2>2. IsFiniteSet(ToReply(p))
    BY ToFinite
  <2> QED BY <2>1, <2>2, FS_CardinalityType
<1>4. ToReply(p)' = ToReply(p) \ {r} /\ \A q : q # p => ToReply(q)' = ToReply(q)
  BY <1>2 DEF ToReply
<1>5. \A q : ToFire(q)' = ToFire(q)
  BY DEF ToFire
<1>6. Cardinality(ToReply(p)') = Cardinality(ToReply(p)) - 1
  BY <1>3, <1>4, Count
<1>7. ctr' = [ctr EXCEPT ![p] = ctr[p] - 1]
  BY <1>2
<1>8. \A q \in Proxies : ctr'[q] = Cardinality(ToReply(q)') /\ cbctr'[q] = Cardinality(ToFire(q)')
  BY <1>1, <1>4, <1>5, <1>6, <1>7 DEF CountInv
<1> QED BY <1>8 DEF CountInv, Ids

LEMMA ReplyCounted ==
    ASSUME TypeOK, CountInv, Counted(scenario), NEW t \in Users, Replied(t)
    PROVE  CountInv'
<1>1. PICK r \in Ids : CommandInoutReply(t, r) \/ ReadAttributesReply(t, r) \/ WriteAttributesReply(t, r)
  BY DEF Replied
<1>2. /\ UNCHANGED <<scenario, req, cbtab, cbctr, cancelled>> /\ told' = [told EXCEPT ![r] = @ + 1]
      /\ r \in table \ ToSet(cancelled)
  BY <1>1 DEF CommandInoutReply, ReadAttributesReply, WriteAttributesReply, Answer, Told
<1>3. RemoveAsynRequest(r)
  BY <1>1 DEF CommandInoutReply, ReadAttributesReply, WriteAttributesReply, AttrReplied, Counted
<1>4. table' = table \ {r} /\ ctr' = [ctr EXCEPT ![req[r].dev] = @ - 1]
  BY <1>3 DEF RemoveAsynRequest
<1>5. \A q \in table' : told'[q] = 0
  BY <1>2, <1>4 DEF TypeOK, CountInv
<1>6. table' \ ToSet(cancelled') = (table \ ToSet(cancelled)) \ {r}
  BY <1>2, <1>4
<1> QED BY <1>2, <1>4, <1>5, <1>6, LessToReply

LEMMA CancelCounted ==
    ASSUME TypeOK, CountInv, Counted(scenario), NEW t \in Users,
           \/ \E r \in Ids : CancelAsynchRequest(t, r)
           \/ \E p \in Proxies : CancelAllPollingAsynchRequest(t, p)
    PROVE  CountInv'
<1>1. ASSUME NEW r \in Ids, CancelAsynchRequest(t, r) PROVE CountInv'
  <2>1. /\ UNCHANGED <<scenario, req, table, cbtab, cbctr, told>> /\ r \in table \ ToSet(cancelled)
        /\ ctr' = [ctr EXCEPT ![req[r].dev] = @ - 1]
    BY <1>1 DEF CancelAsynchRequest
  <2>2. ToSet(cancelled') = ToSet(cancelled) \cup {r}
    BY <1>1, CancelTypes
  <2>3. table' \ ToSet(cancelled') = (table \ ToSet(cancelled)) \ {r} /\ \A q \in table' : told'[q] = 0
    BY <2>1, <2>2 DEF CountInv
  <2> QED BY <2>1, <2>3, LessToReply
<1>2. ASSUME NEW p \in Proxies, CancelAllPollingAsynchRequest(t, p) PROVE CountInv'
  <2>1. /\ UNCHANGED <<scenario, req, table, cbtab, cbctr, told>> /\ ctr' = [ctr EXCEPT ![p] = 0]
        /\ p \in scenario.own[t] /\ scenario.cancelAll
    BY <1>2 DEF CancelAllPollingAsynchRequest, Uses
  <2>2. table \subseteq ToSet(cancelled') /\ table \subseteq Ids /\ ctr \in [Proxies -> Int]
    BY <1>2, CancelTypes DEF TypeOK
  <2>3. \A q : ToReply(q)' = {} /\ ToFire(q)' = ToFire(q)
    BY <2>1, <2>2 DEF ToReply, ToFire
  <2>4. Cardinality({}) = 0
    BY FS_EmptySet
  <2>5. \A r \in Ids : req[r].dev = p
    BY <2>1 DEF CountInv, Counted
  <2>6. \A q \in Proxies : q # p => ToReply(q) = {}
    BY <2>2, <2>5 DEF ToReply
  <2>7. \A q \in Proxies : ctr'[q] = 0
    BY <2>1, <2>2, <2>4, <2>6 DEF CountInv
  <2>8. \A q \in Proxies : ctr'[q] = Cardinality(ToReply(q)') /\ cbctr'[q] = Cardinality(ToFire(q)')
    BY <2>1, <2>3, <2>4, <2>7 DEF CountInv
  <2> QED BY <2>1, <2>8 DEF CountInv, Ids
<1> QED BY <1>1, <1>2

LEMMA RemoveCounted ==
    ASSUME TypeOK, CountInv, OnceInv, NEW t \in Threads, RemoveAsynCbRequest(t)
    PROVE  CountInv'
<1>1. PICK r : r = thr[t].id
  OBVIOUS
<1>2. /\ UNCHANGED <<scenario, req, table, cancelled, ctr, told>> /\ thr[t].at = "remove"
      /\ cbtab' = cbtab \ {r} /\ cbctr' = [cbctr EXCEPT ![req[r].dev] = @ - 1]
  BY <1>1 DEF RemoveAsynCbRequest, At
<1>3. r \in cbtab /\ r \in Ids /\ cbctr \in [Proxies -> Int]
  BY <1>1, <1>2 DEF OnceInv, FireInv, QueueInv, At, TypeOK
<1>4. PICK p \in Proxies : p = req[r].dev
  BY <1>3, ReqTypes
<1>5. r \in ToFire(p) /\ IsFiniteSet(ToFire(p)) /\ Cardinality(ToFire(p)) \in Nat
  BY <1>3, <1>4, ToFinite, Count DEF ToFire
<1>6. ToFire(p)' = ToFire(p) \ {r} /\ \A q : q # p => ToFire(q)' = ToFire(q)
  BY <1>2, <1>4 DEF ToFire
<1>7. \A q : ToReply(q)' = ToReply(q)
  BY <1>2 DEF ToReply
<1>8. Cardinality(ToFire(p)') = Cardinality(ToFire(p)) - 1
  BY <1>5, <1>6, Count
<1>9. cbctr' = [cbctr EXCEPT ![p] = cbctr[p] - 1]
  BY <1>2, <1>4
<1>10. \A q \in Proxies : ctr'[q] = Cardinality(ToReply(q)') /\ cbctr'[q] = Cardinality(ToFire(q)')
  BY <1>2, <1>3, <1>6, <1>7, <1>8, <1>9 DEF CountInv
<1> QED BY <1>2, <1>10 DEF CountInv, Ids

(* The steps that touch neither the tables nor the counters. *)
LEMMA CountSteps ==
    ASSUME TypeOK, CountInv, OnceInv, NEW t \in Threads,
           \/ Device \/ ServerStops
           \/ (\E r \in Ids : ReplyWait(t, r)) \/ ReplyNotArrived(t)
           \/ Send(t) \/ Signal(t) \/ Fetch(t) \/ FetchEnds(t) \/ Sweep(t) \/ SweepEnds(t) \/ Fire(t)
           \/ IsStopped \/ WaitForRequests \/ RunUndetached
           \/ \E dev \in Proxies \cup {"all"}, call \in Calls : GetAsynchReplies(t, dev, call)
           \/ SetAsynchCbSubModel(t)
    PROVE  CountInv'
<1>1. ASSUME UNCHANGED <<scenario, req, table, cancelled, cbtab, ctr, cbctr, told>> PROVE CountInv'
  BY <1>1, CountKept
<1>2. ASSUME Device \/ ServerStops PROVE CountInv'
  <2>1. Device => \E r, a, ran : OrbAnswers(r, a, ran)
    BY DEF Device, Run, Reply, Timeout, Refuse, NoMatch, Break
  <2>2. \A r, a, ran : OrbAnswers(r, a, ran) => UNCHANGED <<scenario, req, tables, told>>
    BY DEF OrbAnswers
  <2>3. ServerStops => UNCHANGED <<scenario, req, tables, told>>
    BY DEF ServerStops
  <2> QED BY <1>1, <1>2, <2>1, <2>2, <2>3 DEF tables
<1>3. ASSUME NEW r \in Ids, ReplyWait(t, r) PROVE CountInv'
  BY <1>1, <1>3 DEF ReplyWait, tables
<1>4. ASSUME ReplyNotArrived(t) PROVE CountInv'
  BY <1>1, <1>4 DEF ReplyNotArrived, tables
<1>5. ASSUME Send(t) PROVE CountInv'
  BY <1>1, <1>5 DEF Send, tables
<1>6. ASSUME Signal(t) PROVE CountInv'
  BY <1>1, <1>6 DEF Signal, tables
<1>7. ASSUME Fetch(t) PROVE CountInv'
  <2>1. UNCHANGED <<scenario, req, table, cancelled, cbtab, ctr, cbctr, told>>
    <3>1. UNCHANGED <<scenario, req, table, cancelled, cbtab, ctr, cbctr, conn, push, stop, up, told, redone>>
      BY <1>7, Zenon DEF Fetch
    <3> QED BY <3>1
  <2> QED BY <1>1, <2>1
<1>8. ASSUME FetchEnds(t) PROVE CountInv'
  <2>1. UNCHANGED <<scenario, req, table, cancelled, cbtab, ctr, cbctr, told>>
    BY <1>8 DEF FetchEnds, tables
  <2> QED BY <1>1, <2>1
<1>9. ASSUME Sweep(t) PROVE CountInv'
  <2>1. UNCHANGED <<scenario, req, table, cancelled, cbtab, ctr, cbctr, told>>
    <3>1. OnlyThreads
      BY <1>9, Zenon DEF Sweep, OnlyThreads
    <3> QED BY <3>1 DEF OnlyThreads, tables
  <2> QED BY <1>1, <2>1
<1>10. ASSUME SweepEnds(t) PROVE CountInv'
  BY <1>1, <1>10 DEF SweepEnds, tables
<1>11. ASSUME IsStopped \/ WaitForRequests \/ RunUndetached PROVE CountInv'
  BY <1>1, <1>11 DEF IsStopped, WaitForRequests, RunUndetached, tables
<1>12. ASSUME NEW dev, NEW call, GetAsynchReplies(t, dev, call) PROVE CountInv'
  <2>1. UNCHANGED <<scenario, req, tables, conn, push, stop, orb, up, told, redone>>
    BY <1>12, Zenon DEF GetAsynchReplies
  <2> QED BY <1>1, <2>1 DEF tables
<1>13. ASSUME SetAsynchCbSubModel(t) PROVE CountInv'
  BY <1>1, <1>13 DEF SetAsynchCbSubModel, tables
<1>14. ASSUME Fire(t) PROVE CountInv'
  <2>1. PICK r : r = thr[t].id
    OBVIOUS
  <2>2. UNCHANGED <<scenario, req, table, cancelled, cbtab, ctr, cbctr>> /\ thr[t].at = "fire"
    BY <1>14 DEF Fire, tables, At
  <2>3. told' = [told EXCEPT ![r] = @ + 1]
    BY <1>14, <2>1 DEF Fire, CbCmdRequest, CbReadAttrRequest, CbWriteAttrRequest, CbFired, Told
  <2>4. r \in cbtab
    BY <2>1, <2>2 DEF OnceInv, FireInv, QueueInv, At
  <2>5. \A q \in table : q \in Ids /\ q # r
    BY <2>4 DEF TypeOK
  <2>6. \A q \in table : told'[q] = told[q]
    BY <2>3, <2>5 DEF TypeOK
  <2> QED BY <2>2, <2>6, CountKept
<1> QED BY <1>2, <1>3, <1>4, <1>5, <1>6, <1>7, <1>8, <1>9, <1>10, <1>11, <1>12, <1>13, <1>14

LEMMA CountStep ==
    ASSUME TypeOK, OnceInv, CountInv, Counted(scenario), [Next]_vars
    PROVE  CountInv'
<1>0. CbThread \in Threads /\ Users \subseteq Threads
  BY DEF Threads
<1>1. CASE Device \/ ServerStops
  BY <1>0, <1>1, CountSteps
<1>2. ASSUME NEW t \in Threads, Step(t) PROVE CountInv'
  BY <1>2, CountSteps, RemoveCounted DEF Step
<1>3. CASE CbStep
  BY <1>0, <1>2, <1>3, CountSteps DEF CbStep
<1>4. ASSUME NEW t \in Users, Replied(t) PROVE CountInv'
  BY <1>4, ReplyCounted
<1>5. ASSUME NEW t \in Users, UserCall(t) PROVE CountInv'
  BY <1>0, <1>5, UserCallCases, AddCounted, CancelCounted, CountSteps
<1>6. CASE UNCHANGED vars
  BY <1>6, CountKept DEF vars, tables
<1> QED BY <1>0, <1>1, <1>2, <1>3, <1>4, <1>5, <1>6 DEF Next

(* What pending_asynch_call returns is right in the applications where     *)
(* each reply has one reader, no call that is done again fails, and all    *)
(* requests are cancelled at once only where there is one proxy: through   *)
(* requests made, replied, cancelled and purged late, and callbacks fired  *)
(* by any of the threads, the counters of each proxy are the numbers of    *)
(* its requests in the tables.                                             *)
THEOREM AsynPendingAgrees == Spec => [](Counted(scenario) => PendingAgrees)
<1> DEFINE Inv == PlacesInv /\ (Counted(scenario) => OnceInv /\ CountInv)
<1>1. Init => Inv
  <2> SUFFICES ASSUME Init PROVE Inv
    OBVIOUS
  <2>1. Cardinality({}) = 0 /\ ToSet(cancelled) = {} /\ Ids = {} /\ table = {} /\ cbtab = {}
    BY FS_EmptySet DEF Init, ToSet, Ids
  <2>2. \A p : ToReply(p) = {} /\ ToFire(p) = {}
    BY <2>1 DEF ToReply, ToFire
  <2>3. CountInv
    BY <2>1, <2>2 DEF Init, CountInv
  <2> QED BY <2>3, OnceInit
<1>2. TypeOK /\ Inv /\ [Next]_vars => Inv'
  BY PlacesStep, OnceStep, CountStep DEF Counted, OneReader
<1>3. TypeOK /\ Inv => (Counted(scenario) => PendingAgrees)
  <2> SUFFICES ASSUME TypeOK, CountInv PROVE PendingAgrees
    OBVIOUS
  <2>1. ASSUME NEW p \in Proxies
        PROVE  /\ ToReply(p) = {r \in table \ ToSet(cancelled) : req[r].dev = p /\ told[r] = 0}
               /\ ToFire(p) = {r \in cbtab : req[r].dev = p}
    BY DEF ToReply, ToFire, CountInv
  <2> QED BY <2>1 DEF PendingAgrees, CountInv
<1> QED BY AsynTypes, <1>1, <1>2, <1>3, PTL DEF Spec

=============================================================================
