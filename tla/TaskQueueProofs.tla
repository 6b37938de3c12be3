-------------------------- MODULE TaskQueueProofs ---------------------------
(***************************************************************************)
(* Proofs about TaskQueue for any number of callers and tasks: it keeps    *)
(* its types, no task is lost or run twice, tasks run in hand-over order,  *)
(* and the whole implements TaskExecutor.                                  *)
(***************************************************************************)
EXTENDS TaskQueue, TLAPS

-----------------------------------------------------------------------------
(* Facts about sequences, for pushes and pops.                             *)

LEMMA AppendFacts ==
    ASSUME NEW S, NEW s \in Seq(S), NEW e \in S
    PROVE  /\ Append(s, e) \in Seq(S)
           /\ DOMAIN Append(s, e) = DOMAIN s \cup {Len(s) + 1}
           /\ Append(s, e)[Len(s) + 1] = e
           /\ \A i \in DOMAIN s : Append(s, e)[i] = s[i]
           /\ Range(Append(s, e)) = Range(s) \cup {e}
           /\ Injective(s) /\ e \notin Range(s) => Injective(Append(s, e))
<1> DEFINE r == Append(s, e)
<1>1. r \in Seq(S) /\ DOMAIN r = DOMAIN s \cup {Len(s) + 1} /\ DOMAIN s = 1 .. Len(s)
  OBVIOUS
<1>2. r[Len(s) + 1] = e /\ \A i \in DOMAIN s : r[i] = s[i]
  OBVIOUS
<1> HIDE DEF r
<1>3. Range(r) = Range(s) \cup {e}
  BY <1>1, <1>2 DEF Range
<1>4. Injective(s) /\ e \notin Range(s) => Injective(r)
  BY <1>1, <1>2 DEF Injective, Range
<1>5. QED BY <1>1, <1>2, <1>3, <1>4 DEF r

LEMMA PopFacts ==
    ASSUME NEW S, NEW s \in Seq(S), s # <<>>
    PROVE  /\ Head(s) \in S /\ Tail(s) \in Seq(S)
           /\ 1 \in DOMAIN s /\ Head(s) = s[1]
           /\ \A i \in DOMAIN Tail(s) : i + 1 \in DOMAIN s /\ Tail(s)[i] = s[i + 1]
           /\ Range(s) = {Head(s)} \cup Range(Tail(s))
           /\ Injective(s) => Injective(Tail(s)) /\ Head(s) \notin Range(Tail(s))
<1> DEFINE t == Tail(s)
<1>1. Head(s) = s[1] /\ Head(s) \in S /\ t \in Seq(S)
  OBVIOUS
<1>2. Len(s) \in Nat /\ Len(s) # 0 /\ DOMAIN s = 1 .. Len(s) /\ DOMAIN t = 1 .. Len(s) - 1
  OBVIOUS
<1>3. \A i \in DOMAIN t : t[i] = s[i + 1]
  OBVIOUS
<1> HIDE DEF t
<1>4. \A i \in DOMAIN s : i = 1 \/ i - 1 \in DOMAIN t
  BY <1>2
<1>5. Range(s) = {s[1]} \cup Range(t)
  <2>1. Range(s) \subseteq {s[1]} \cup Range(t)
    BY <1>2, <1>3, <1>4 DEF Range
  <2>2. {s[1]} \cup Range(t) \subseteq Range(s)
    BY <1>2, <1>3 DEF Range
  <2>3. QED BY <2>1, <2>2
<1>6. Injective(s) => Injective(t) /\ s[1] \notin Range(t)
  BY <1>2, <1>3 DEF Injective, Range
<1>7. QED BY <1>1, <1>2, <1>3, <1>5, <1>6 DEF t

LEMMA EmptyFacts == Range(<<>>) = {} /\ Injective(<<>>)
BY DEF Range, Injective

-----------------------------------------------------------------------------
(* The inductive invariant.  InOnePlace is inductive with the types;       *)
(* RunsInOrder is not: that a task about to start finds everything ahead   *)
(* of it done depends on where the tasks ahead of a waiting task are.      *)

AheadOfBatch == done \cup Current \cup Range(voidLocal)

Before(s, i, u) == \E j \in DOMAIN s : j < i /\ s[j] = u

(* Every task ahead of a waiting one has run, is running, or stands before *)
(* it on the way to the game thread.                                       *)
OnTheWay ==
    /\ \A i \in DOMAIN voidLocal : \A u \in before[voidLocal[i]] :
         u \in done \cup Current \/ Before(voidLocal, i, u)
    /\ \A i \in DOMAIN voidQueue : \A u \in before[voidQueue[i]] :
         u \in AheadOfBatch \/ Before(voidQueue, i, u)
    /\ \A i \in DOMAIN taskLocal : \A u \in before[taskLocal[i]] :
         u \in AheadOfBatch \/ Before(taskLocal, i, u)
    /\ \A i \in DOMAIN taskQueue : \A u \in before[taskQueue[i]] :
         \/ u \in AheadOfBatch \cup Range(voidQueue) \cup Range(taskLocal)
         \/ Before(taskQueue, i, u)

(* A caller waits on a task of its own that has been handed over and has   *)
(* not been answered; a task nobody handed over has no answer.             *)
WaitsUnanswered ==
    /\ \A c \in Caller : waiting[c] # NoTask =>
         waiting[c] \in handed /\ reply[waiting[c]] = "none"
    /\ \A c, d \in Caller : waiting[c] = waiting[d] /\ waiting[c] # NoTask => c = d
    /\ \A t \in ExecTask : t \notin handed => reply[t] = "none"

IInv == TypeOK /\ InOnePlace /\ RunsInOrder /\ OnTheWay /\ WaitsUnanswered

-----------------------------------------------------------------------------
LEMMA InitIInv == Init => IInv
<1> SUFFICES ASSUME Init PROVE IInv
  OBVIOUS
<1> USE TasksAssumption, EmptyFacts DEF Init
<1>1. TypeOK
  BY DEF TypeOK, Task
<1>2. InOnePlace
  BY DEF InOnePlace, Queued, Batch, Current
<1>3. RunsInOrder /\ OnTheWay /\ WaitsUnanswered
  BY DEF RunsInOrder, OnTheWay, WaitsUnanswered, Current
<1>4. QED BY <1>1, <1>2, <1>3 DEF IInv

(* The type invariant alone is inductive.                                  *)
LEMMA StepTypeOK == TypeOK /\ [Next]_vars => TypeOK'
<1> SUFFICES ASSUME TypeOK, [Next]_vars PROVE TypeOK'
  OBVIOUS
<1> USE DEF TypeOK, queues, locals, history
<1>1. ASSUME NEW c \in Caller, NEW t \in VoidTask, Post(c, t) PROVE TypeOK'
  <2>1. before' \in [Task -> SUBSET Task] /\ handed' \in SUBSET Task
    BY <1>1 DEF Post, RecordHandOver, Ahead, Task
  <2>2. voidQueue' \in Seq(VoidTask)
    BY <1>1, AppendFacts DEF Post
  <2>3. QED BY <1>1, <2>1, <2>2 DEF Post
<1>2. ASSUME NEW c \in Caller, NEW t \in ExecTask, ExecutePush(c, t) PROVE TypeOK'
  <2>1. before' \in [Task -> SUBSET Task] /\ handed' \in SUBSET Task
    BY <1>2 DEF ExecutePush, RecordHandOver, Ahead, Task
  <2>2. taskQueue' \in Seq(ExecTask)
    BY <1>2, AppendFacts DEF ExecutePush
  <2>3. QED BY <1>2, <2>1, <2>2 DEF ExecutePush
<1>3. ASSUME NEW c \in Caller, Await(c) PROVE TypeOK'
  BY <1>3 DEF Await, ExecuteReady, ExecuteTimeout, Return
<1>4. CASE DrainSwap
  BY <1>4 DEF DrainSwap
<1>5. CASE DrainStartVoid
  <2>1. Head(voidLocal) \in VoidTask /\ Tail(voidLocal) \in Seq(VoidTask)
    BY <1>5, PopFacts DEF DrainStartVoid
  <2>2. QED BY <1>5, <2>1 DEF DrainStartVoid, Task
<1>6. CASE DrainStartTask
  <2>1. Head(taskLocal) \in ExecTask /\ Tail(taskLocal) \in Seq(ExecTask)
    BY <1>6, PopFacts DEF DrainStartTask
  <2>2. QED BY <1>6, <2>1 DEF DrainStartTask, Task
<1>7. CASE DrainFinish
  BY <1>7 DEF DrainFinish
<1>8. CASE UNCHANGED vars
  BY <1>8 DEF vars
<1>9. QED
  BY <1>1, <1>2, <1>3, <1>4, <1>5, <1>6, <1>7, <1>8 DEF Next, Call, GameThread

(* Every reachable state is well typed (Utils::TaskQueue's members, and    *)
(* the locals of drainAll() and execute()).                                *)
THEOREM TypeCorrect == Spec => []TypeOK
<1>1. Init => TypeOK
  BY InitIInv DEF IInv
<1>2. QED BY <1>1, StepTypeOK, PTL DEF Spec

-----------------------------------------------------------------------------
(* One lemma per action that moves a task.                                 *)

LEMMA PostIInv ==
    ASSUME IInv, NEW c \in Caller, NEW t \in VoidTask, Post(c, t), TypeOK'
    PROVE  IInv'
<1> USE DEF IInv, TypeOK
<1>1. /\ voidQueue' = Append(voidQueue, t) /\ handed' = handed \cup {t} /\ t \notin handed
      /\ before' = [before EXCEPT ![t] = Ahead(t)]
      /\ UNCHANGED <<taskQueue, voidLocal, taskLocal, running, done, waiting, reply>>
  BY DEF Post, RecordHandOver, locals
<1>2. t \notin Range(voidQueue) /\ t \in Task /\ t # NoTask
  BY <1>1, TasksAssumption DEF InOnePlace, Queued, Task
<1>3. InOnePlace'
  <2>1. Range(voidQueue)' = Range(voidQueue) \cup {t} /\ Injective(voidQueue)'
    BY <1>1, <1>2, AppendFacts DEF InOnePlace
  <2>2. Range(taskQueue)' = Range(taskQueue) /\ Batch' = Batch /\ Current' = Current
    BY <1>1 DEF Batch, Current
  <2>3. QED BY <1>1, <1>2, <2>1, <2>2 DEF InOnePlace, Queued
<1>4. \A u \in Task : u # t => before'[u] = before[u]
  BY <1>1
<1>5. RunsInOrder'
  <2>1. Current' = Current /\ t \notin done \cup Current /\ done \cup Current \subseteq Task
    BY <1>1, <1>2 DEF InOnePlace, Current
  <2>2. QED BY <1>1, <1>4, <2>1 DEF RunsInOrder
<1>6. OnTheWay'
  <2>1. /\ AheadOfBatch' = AheadOfBatch /\ Current' = Current
        /\ Range(taskLocal)' = Range(taskLocal)
    BY <1>1 DEF AheadOfBatch, Current
  <2>2. /\ \A i \in DOMAIN voidLocal : voidLocal[i] # t /\ voidLocal[i] \in Task
        /\ \A i \in DOMAIN voidQueue : voidQueue[i] # t /\ voidQueue[i] \in Task
        /\ \A i \in DOMAIN taskLocal : taskLocal[i] # t /\ taskLocal[i] \in Task
        /\ \A i \in DOMAIN taskQueue : taskQueue[i] # t /\ taskQueue[i] \in Task
    BY <1>1 DEF InOnePlace, Queued, Batch, Range, Task
  <2>3. \A i \in DOMAIN voidLocal' : \A u \in before'[voidLocal'[i]] :
          u \in (done \cup Current)' \/ Before(voidLocal', i, u)
    BY <1>1, <1>4, <2>1, <2>2 DEF OnTheWay
  <2>4. \A i \in DOMAIN taskLocal' : \A u \in before'[taskLocal'[i]] :
          u \in AheadOfBatch' \/ Before(taskLocal', i, u)
    BY <1>1, <1>4, <2>1, <2>2 DEF OnTheWay
  <2> DEFINE n == Len(voidQueue) + 1
  <2>5. /\ DOMAIN voidQueue' = DOMAIN voidQueue \cup {n} /\ voidQueue'[n] = t
        /\ \A i \in DOMAIN voidQueue : voidQueue'[i] = voidQueue[i] /\ i < n
        /\ Range(voidQueue)' = Range(voidQueue) \cup {t}
    BY <1>1, AppendFacts
  <2> HIDE DEF n
  <2>6. \A i \in DOMAIN taskQueue' : \A u \in before'[taskQueue'[i]] :
          \/ u \in (AheadOfBatch \cup Range(voidQueue) \cup Range(taskLocal))'
          \/ Before(taskQueue', i, u)
    BY <1>1, <1>4, <2>1, <2>2, <2>5 DEF OnTheWay
  <2>7. \A u \in before'[t] : u \in AheadOfBatch \cup Range(voidQueue)
    <3>1. before'[t] = {u \in handed : u \in VoidTask}
      BY <1>1, <1>2, TasksAssumption DEF Ahead
    <3>2. Range(taskQueue) \cap VoidTask = {} /\ Range(taskLocal) \cap VoidTask = {}
      BY TasksAssumption DEF Range
    <3>3. QED BY <3>1, <3>2 DEF InOnePlace, Queued, Batch, AheadOfBatch
  <2>8. \A i \in DOMAIN voidQueue' : \A u \in before'[voidQueue'[i]] :
          u \in AheadOfBatch' \/ Before(voidQueue', i, u)
    <3>1. \A i \in DOMAIN voidQueue : \A u : Before(voidQueue, i, u) => Before(voidQueue', i, u)
      BY <2>5 DEF Before
    <3>2. \A u \in Range(voidQueue) : Before(voidQueue', n, u)
      BY <2>5 DEF Before, Range
    <3>3. QED BY <1>4, <2>1, <2>2, <2>5, <2>7, <3>1, <3>2 DEF OnTheWay
  <2>9. QED BY <2>3, <2>4, <2>6, <2>8 DEF OnTheWay
<1>7. WaitsUnanswered'
  BY <1>1 DEF WaitsUnanswered
<1>8. QED BY <1>3, <1>5, <1>6, <1>7

LEMMA ExecutePushIInv ==
    ASSUME IInv, NEW c \in Caller, NEW t \in ExecTask, ExecutePush(c, t), TypeOK'
    PROVE  IInv'
<1> USE DEF IInv, TypeOK
<1>1. /\ taskQueue' = Append(taskQueue, t) /\ handed' = handed \cup {t} /\ t \notin handed
      /\ before' = [before EXCEPT ![t] = Ahead(t)]
      /\ waiting' = [waiting EXCEPT ![c] = t]
      /\ UNCHANGED <<voidQueue, voidLocal, taskLocal, running, done, reply>>
  BY DEF ExecutePush, RecordHandOver, locals
<1>2. t \notin Range(taskQueue) /\ t \in Task /\ t # NoTask
  BY <1>1, TasksAssumption DEF InOnePlace, Queued, Task
<1>3. InOnePlace'
  <2>1. Range(taskQueue)' = Range(taskQueue) \cup {t} /\ Injective(taskQueue)'
    BY <1>1, <1>2, AppendFacts DEF InOnePlace
  <2>2. Range(voidQueue)' = Range(voidQueue) /\ Batch' = Batch /\ Current' = Current
    BY <1>1 DEF Batch, Current
  <2>3. QED BY <1>1, <1>2, <2>1, <2>2 DEF InOnePlace, Queued
<1>4. \A u \in Task : u # t => before'[u] = before[u]
  BY <1>1
<1>5. RunsInOrder'
  <2>1. Current' = Current /\ t \notin done \cup Current /\ done \cup Current \subseteq Task
    BY <1>1, <1>2 DEF InOnePlace, Current
  <2>2. QED BY <1>1, <1>4, <2>1 DEF RunsInOrder
<1>6. OnTheWay'
  <2>1. /\ AheadOfBatch' = AheadOfBatch /\ Current' = Current
        /\ Range(voidQueue)' = Range(voidQueue) /\ Range(taskLocal)' = Range(taskLocal)
    BY <1>1 DEF AheadOfBatch, Current
  <2>2. /\ \A i \in DOMAIN voidLocal : voidLocal[i] # t /\ voidLocal[i] \in Task
        /\ \A i \in DOMAIN voidQueue : voidQueue[i] # t /\ voidQueue[i] \in Task
        /\ \A i \in DOMAIN taskLocal : taskLocal[i] # t /\ taskLocal[i] \in Task
        /\ \A i \in DOMAIN taskQueue : taskQueue[i] # t /\ taskQueue[i] \in Task
    BY <1>1 DEF InOnePlace, Queued, Batch, Range, Task
  <2>3. \A i \in DOMAIN voidLocal' : \A u \in before'[voidLocal'[i]] :
          u \in (done \cup Current)' \/ Before(voidLocal', i, u)
    BY <1>1, <1>4, <2>1, <2>2 DEF OnTheWay
  <2>4. \A i \in DOMAIN taskLocal' : \A u \in before'[taskLocal'[i]] :
          u \in AheadOfBatch' \/ Before(taskLocal', i, u)
    BY <1>1, <1>4, <2>1, <2>2 DEF OnTheWay
  <2>5. \A i \in DOMAIN voidQueue' : \A u \in before'[voidQueue'[i]] :
          u \in AheadOfBatch' \/ Before(voidQueue', i, u)
    BY <1>1, <1>4, <2>1, <2>2 DEF OnTheWay
  <2> DEFINE n == Len(taskQueue) + 1
  <2>6. /\ DOMAIN taskQueue' = DOMAIN taskQueue \cup {n} /\ taskQueue'[n] = t
        /\ \A i \in DOMAIN taskQueue : taskQueue'[i] = taskQueue[i] /\ i < n
    BY <1>1, AppendFacts
  <2> HIDE DEF n
  <2>7. \A u \in before'[t] :
          u \in AheadOfBatch \cup Range(voidQueue) \cup Range(taskLocal) \cup Range(taskQueue)
    <3>1. before'[t] = handed
      BY <1>1, <1>2 DEF Ahead
    <3>2. QED BY <3>1 DEF InOnePlace, Queued, Batch, AheadOfBatch
  <2>8. \A i \in DOMAIN taskQueue' : \A u \in before'[taskQueue'[i]] :
          \/ u \in (AheadOfBatch \cup Range(voidQueue) \cup Range(taskLocal))'
          \/ Before(taskQueue', i, u)
    <3>1. \A i \in DOMAIN taskQueue : \A u : Before(taskQueue, i, u) => Before(taskQueue', i, u)
      BY <2>6 DEF Before
    <3>2. \A u \in Range(taskQueue) : Before(taskQueue', n, u)
      BY <2>6 DEF Before, Range
    <3>3. QED BY <1>4, <2>1, <2>2, <2>6, <2>7, <3>1, <3>2 DEF OnTheWay
  <2>9. QED BY <2>3, <2>4, <2>5, <2>8 DEF OnTheWay
<1>7. WaitsUnanswered'
  BY <1>1, <1>2 DEF WaitsUnanswered
<1>8. QED BY <1>3, <1>5, <1>6, <1>7

LEMMA AwaitIInv ==
    ASSUME IInv, NEW c \in Caller, Await(c), TypeOK'
    PROVE  IInv'
<1> USE DEF IInv, TypeOK
<1>1. /\ UNCHANGED <<voidQueue, taskQueue, voidLocal, taskLocal, running, done, handed, before>>
      /\ waiting' = [waiting EXCEPT ![c] = NoTask]
      /\ \E answer : reply' = [reply EXCEPT ![waiting[c]] = answer]
  BY DEF Await, ExecuteReady, ExecuteTimeout, Return, queues, locals, history
<1>2. waiting[c] # NoTask
  BY TasksAssumption DEF Await, ExecuteReady, ExecuteTimeout, Task
<1>3. InOnePlace' /\ RunsInOrder'
  BY <1>1 DEF InOnePlace, RunsInOrder, Queued, Batch, Current
<1>4. OnTheWay'
  BY <1>1 DEF OnTheWay, AheadOfBatch, Current
<1>5. WaitsUnanswered'
  <2>1. \A d \in Caller : waiting'[d] # NoTask => d # c /\ waiting'[d] = waiting[d]
    BY <1>1
  <2>2. \A t \in ExecTask : t # waiting[c] => reply'[t] = reply[t]
    BY <1>1
  <2>3. waiting[c] \in handed
    BY <1>2 DEF WaitsUnanswered
  <2>4. QED BY <1>1, <1>2, <2>1, <2>2, <2>3 DEF WaitsUnanswered
<1>6. QED BY <1>3, <1>4, <1>5

LEMMA DrainSwapIInv ==
    ASSUME IInv, DrainSwap, TypeOK'
    PROVE  IInv'
<1> USE DEF IInv, TypeOK
<1>1. /\ voidLocal = <<>> /\ taskLocal = <<>> /\ running = NoTask
      /\ voidLocal' = voidQueue /\ taskLocal' = taskQueue
      /\ voidQueue' = <<>> /\ taskQueue' = <<>>
      /\ UNCHANGED <<running, done, waiting, reply, handed, before>>
  BY DEF DrainSwap, Draining, history
<1>2. Current = {} /\ Current' = {}
  BY <1>1 DEF Current
<1>3. InOnePlace'
  BY <1>1, <1>2, EmptyFacts DEF InOnePlace, Queued, Batch
<1>4. RunsInOrder'
  BY <1>1, <1>2 DEF RunsInOrder
<1>5. OnTheWay'
  <2>1. AheadOfBatch = done /\ AheadOfBatch' = done \cup Range(voidQueue)
    BY <1>1, <1>2, EmptyFacts DEF AheadOfBatch
  <2>2. QED BY <1>1, <1>2, <2>1, EmptyFacts DEF OnTheWay
<1>6. WaitsUnanswered'
  BY <1>1 DEF WaitsUnanswered
<1>7. QED BY <1>3, <1>4, <1>5, <1>6

LEMMA DrainStartVoidIInv ==
    ASSUME IInv, DrainStartVoid, TypeOK'
    PROVE  IInv'
<1> USE DEF IInv, TypeOK
<1> DEFINE v == Head(voidLocal)
<1>1. /\ running = NoTask /\ voidLocal # <<>>
      /\ running' = v /\ voidLocal' = Tail(voidLocal)
      /\ UNCHANGED <<voidQueue, taskQueue, taskLocal, done, waiting, reply, handed, before>>
  BY DEF DrainStartVoid, queues, history
<1>2. /\ v \in VoidTask /\ 1 \in DOMAIN voidLocal /\ v = voidLocal[1]
      /\ \A i \in DOMAIN voidLocal' : i + 1 \in DOMAIN voidLocal /\ voidLocal'[i] = voidLocal[i + 1]
      /\ Range(voidLocal) = {v} \cup Range(voidLocal')
      /\ Injective(voidLocal') /\ v \notin Range(voidLocal')
      /\ DOMAIN voidLocal \subseteq Nat \ {0} /\ DOMAIN voidLocal' \subseteq Nat
      /\ \A i \in DOMAIN voidLocal : i = 1 \/ i - 1 \in DOMAIN voidLocal'
  BY <1>1, PopFacts DEF InOnePlace
<1> HIDE DEF v
<1>3. Current = {} /\ Current' = {v} /\ v # NoTask
  BY <1>1, <1>2, TasksAssumption DEF Current, Task
<1>4. InOnePlace'
  <2>1. v \notin Range(taskLocal)
    BY <1>2, TasksAssumption DEF Range
  <2>2. QED BY <1>1, <1>2, <1>3, <2>1 DEF InOnePlace, Queued, Batch
<1>5. AheadOfBatch' = AheadOfBatch
  BY <1>1, <1>2, <1>3 DEF AheadOfBatch
<1>6. RunsInOrder'
  <2>1. before[v] \subseteq done
    BY <1>2, <1>3 DEF OnTheWay, Before
  <2>2. QED BY <1>1, <1>3, <2>1 DEF RunsInOrder
<1>7. OnTheWay'
  <2>1. ASSUME NEW i \in DOMAIN voidLocal', NEW u \in before'[voidLocal'[i]]
        PROVE  u \in (done \cup Current)' \/ Before(voidLocal', i, u)
    <3>1. u \in done \/ Before(voidLocal, i + 1, u)
      BY <1>1, <1>2, <1>3, <2>1 DEF OnTheWay
    <3>2. CASE Before(voidLocal, i + 1, u)
      <4>1. PICK j \in DOMAIN voidLocal : j < i + 1 /\ voidLocal[j] = u
        BY <3>2 DEF Before
      <4>2. CASE j = 1
        BY <1>2, <1>3, <4>1, <4>2
      <4>3. CASE j # 1
        <5>1. j - 1 \in DOMAIN voidLocal' /\ j \in Nat /\ i \in Nat
          BY <1>2, <4>1, <4>3
        <5>2. (j - 1) + 1 = j /\ j - 1 < i
          BY <4>1, <5>1
        <5>3. voidLocal'[j - 1] = u
          BY <1>2, <4>1, <5>1, <5>2
        <5>4. QED BY <5>1, <5>2, <5>3 DEF Before
      <4>4. QED BY <4>2, <4>3
    <3>3. QED BY <1>1, <3>1, <3>2
  <2>2. QED BY <1>1, <1>5, <2>1 DEF OnTheWay
<1>8. WaitsUnanswered'
  BY <1>1 DEF WaitsUnanswered
<1>9. QED BY <1>4, <1>6, <1>7, <1>8

LEMMA DrainStartTaskIInv ==
    ASSUME IInv, DrainStartTask, TypeOK'
    PROVE  IInv'
<1> USE DEF IInv, TypeOK
<1> DEFINE t == Head(taskLocal)
<1>1. /\ running = NoTask /\ taskLocal # <<>> /\ voidLocal = <<>>
      /\ running' = t /\ taskLocal' = Tail(taskLocal)
      /\ UNCHANGED <<voidQueue, taskQueue, voidLocal, done, waiting, reply, handed, before>>
  BY DEF DrainStartTask, queues, history
<1>2. /\ t \in ExecTask /\ 1 \in DOMAIN taskLocal /\ t = taskLocal[1]
      /\ \A i \in DOMAIN taskLocal' : i + 1 \in DOMAIN taskLocal /\ taskLocal'[i] = taskLocal[i + 1]
      /\ Range(taskLocal) = {t} \cup Range(taskLocal')
      /\ Injective(taskLocal') /\ t \notin Range(taskLocal')
      /\ DOMAIN taskLocal \subseteq Nat \ {0} /\ DOMAIN taskLocal' \subseteq Nat
      /\ \A i \in DOMAIN taskLocal : i = 1 \/ i - 1 \in DOMAIN taskLocal'
  BY <1>1, PopFacts DEF InOnePlace
<1> HIDE DEF t
<1>3. /\ Current = {} /\ Current' = {t} /\ t # NoTask
      /\ Range(voidLocal) = {} /\ Range(voidLocal)' = {}
  BY <1>1, <1>2, TasksAssumption, EmptyFacts DEF Current, Task
<1>4. InOnePlace'
  BY <1>1, <1>2, <1>3 DEF InOnePlace, Queued, Batch
<1>5. AheadOfBatch = done /\ AheadOfBatch' = done \cup {t}
  BY <1>1, <1>3 DEF AheadOfBatch
<1>6. RunsInOrder'
  <2>1. before[t] \subseteq done
    BY <1>2, <1>5 DEF OnTheWay, Before
  <2>2. QED BY <1>1, <1>3, <2>1 DEF RunsInOrder
<1>7. OnTheWay'
  <2>1. ASSUME NEW i \in DOMAIN taskLocal', NEW u \in before'[taskLocal'[i]]
        PROVE  u \in AheadOfBatch' \/ Before(taskLocal', i, u)
    <3>1. u \in done \/ Before(taskLocal, i + 1, u)
      BY <1>1, <1>2, <1>5, <2>1 DEF OnTheWay
    <3>2. CASE Before(taskLocal, i + 1, u)
      <4>1. PICK j \in DOMAIN taskLocal : j < i + 1 /\ taskLocal[j] = u
        BY <3>2 DEF Before
      <4>2. CASE j = 1
        BY <1>2, <1>5, <4>1, <4>2
      <4>3. CASE j # 1
        <5>1. j - 1 \in DOMAIN taskLocal' /\ j \in Nat /\ i \in Nat
          BY <1>2, <4>1, <4>3
        <5>2. (j - 1) + 1 = j /\ j - 1 < i
          BY <4>1, <5>1
        <5>3. taskLocal'[j - 1] = u
          BY <1>2, <4>1, <5>1, <5>2
        <5>4. QED BY <5>1, <5>2, <5>3 DEF Before
      <4>4. QED BY <4>2, <4>3
    <3>3. QED BY <1>5, <3>1, <3>2
  <2>2. DOMAIN voidLocal' = {}
    BY <1>1
  <2>3. AheadOfBatch \subseteq AheadOfBatch'
    BY <1>5
  <2>4. \A i \in DOMAIN taskQueue' : \A u \in before'[taskQueue'[i]] :
          \/ u \in (AheadOfBatch \cup Range(voidQueue) \cup Range(taskLocal))'
          \/ Before(taskQueue', i, u)
    BY <1>1, <1>2, <1>5 DEF OnTheWay
  <2>5. QED BY <1>1, <2>1, <2>2, <2>3, <2>4 DEF OnTheWay
<1>8. WaitsUnanswered'
  BY <1>1 DEF WaitsUnanswered
<1>9. QED BY <1>4, <1>6, <1>7, <1>8

LEMMA DrainFinishIInv ==
    ASSUME IInv, DrainFinish, TypeOK'
    PROVE  IInv'
<1> USE DEF IInv, TypeOK
<1>1. /\ running # NoTask /\ done' = done \cup {running} /\ running' = NoTask
      /\ UNCHANGED <<voidQueue, taskQueue, voidLocal, taskLocal, waiting, reply, handed, before>>
  BY DEF DrainFinish, queues, locals, history
<1>2. Current = {running} /\ Current' = {} /\ done' = done \cup Current
  BY <1>1 DEF Current
<1>3. InOnePlace'
  BY <1>1, <1>2 DEF InOnePlace, Queued, Batch
<1>4. RunsInOrder'
  BY <1>1, <1>2 DEF RunsInOrder
<1>5. OnTheWay'
  <2>1. AheadOfBatch' = AheadOfBatch /\ (done \cup Current)' = done \cup Current
    BY <1>1, <1>2 DEF AheadOfBatch
  <2>2. QED BY <1>1, <2>1 DEF OnTheWay
<1>6. WaitsUnanswered'
  BY <1>1 DEF WaitsUnanswered
<1>7. QED BY <1>3, <1>4, <1>5, <1>6

-----------------------------------------------------------------------------
LEMMA StepIInv == IInv /\ [Next]_vars => IInv'
<1> SUFFICES ASSUME IInv, [Next]_vars PROVE IInv'
  OBVIOUS
<1>1. TypeOK'
  BY StepTypeOK DEF IInv
<1>2. CASE UNCHANGED vars
  BY <1>2 DEF vars, IInv, TypeOK, InOnePlace, RunsInOrder, OnTheWay, WaitsUnanswered,
              Queued, Batch, Current, AheadOfBatch
<1>3. ASSUME NEW c \in Caller, Call(c) PROVE IInv'
  BY <1>1, <1>3, PostIInv, ExecutePushIInv DEF Call
<1>4. ASSUME NEW c \in Caller, Await(c) PROVE IInv'
  BY <1>1, <1>4, AwaitIInv
<1>5. CASE GameThread
  BY <1>1, <1>5, DrainSwapIInv, DrainStartVoidIInv, DrainStartTaskIInv, DrainFinishIInv
     DEF GameThread
<1>6. QED BY <1>2, <1>3, <1>4, <1>5 DEF Next

LEMMA InvariantIInv == Spec => []IInv
BY InitIInv, StepIInv, PTL DEF Spec

(* drainAll() neither drops a task between the two queues and its locals   *)
(* nor runs one twice, however callers and drains interleave.              *)
THEOREM NoTaskLostOrRepeated == Spec => []InOnePlace
<1>1. IInv => InOnePlace
  BY DEF IInv
<1>2. QED BY <1>1, InvariantIInv, PTL

(* When a task body is entered, every earlier post, and before an execute  *)
(* every earlier execute, has returned: across batches and after timeouts. *)
THEOREM HandOverOrder == Spec => []RunsInOrder
<1>1. IInv => RunsInOrder
  BY DEF IInv
<1>2. QED BY <1>1, InvariantIInv, PTL

-----------------------------------------------------------------------------
(* Refinement: under statusOf each step of the queue is a step of the      *)
(* executor, and DrainSwap is none at all.                                 *)

LEMMA StatusFacts ==
    ASSUME IInv
    PROVE  \A t \in Task :
             /\ statusOf[t] = "done" <=> t \in done
             /\ statusOf[t] = "running" <=> t = running
             /\ statusOf[t] = "new" <=> t \notin handed
             /\ statusOf[t] = "pending" <=> t \in handed /\ t \notin done /\ t # running
<1>1. \A t \in Task : t = running => t \in handed /\ t \notin done
  BY TasksAssumption DEF IInv, InOnePlace, Current
<1>2. done \subseteq handed
  BY DEF IInv, InOnePlace
<1>3. QED BY <1>1, <1>2 DEF statusOf

LEMMA HandOverRefines ==
    ASSUME IInv, IInv', NEW t \in Task, t \notin handed, RecordHandOver(t),
           UNCHANGED <<running, done, reply>>
    PROVE  Executor!HandOver(t)
<1>1. t \notin done /\ t # running
  BY TasksAssumption DEF IInv, InOnePlace, Current
<1>2. statusOf' = [statusOf EXCEPT ![t] = "pending"]
  BY <1>1 DEF statusOf, RecordHandOver
<1>3. Ahead(t) = {u \in Task : statusOf[u] # "new" /\ Executor!MustPrecede(u, t)}
  <2>1. handed \subseteq Task
    BY DEF IInv, TypeOK
  <2>2. QED BY <2>1, StatusFacts DEF Ahead, Executor!MustPrecede
<1>4. before' = [before EXCEPT ![t] =
                   {u \in Task : statusOf[u] # "new" /\ Executor!MustPrecede(u, t)}]
  BY <1>3 DEF RecordHandOver
<1>5. statusOf[t] = "new"
  BY StatusFacts
<1>6. QED BY <1>2, <1>4, <1>5 DEF Executor!HandOver, Executor!Task, Task

LEMMA StartRefines ==
    ASSUME IInv, IInv', NEW t \in Task, t \in handed, t \notin done,
           running = NoTask, running' = t, UNCHANGED <<handed, before, done, reply>>
    PROVE  Executor!Start(t)
<1>1. \A u \in Task : statusOf[u] # "running"
  BY StatusFacts, TasksAssumption
<1>2. statusOf[t] = "pending"
  BY StatusFacts, TasksAssumption
<1>3. before[t] \subseteq done
  BY TasksAssumption DEF IInv, RunsInOrder, Current
<1>4. \A u \in before[t] : statusOf[u] = "done"
  BY <1>3, StatusFacts DEF IInv, TypeOK
<1>5. statusOf' = [statusOf EXCEPT ![t] = "running"]
  BY TasksAssumption DEF statusOf
<1>6. QED BY <1>1, <1>2, <1>4, <1>5 DEF Executor!Start, Executor!Task, Task

LEMMA FinishRefines ==
    ASSUME IInv, DrainFinish
    PROVE  \E t \in Task : Executor!Finish(t)
<1>1. running \in Task
  BY DEF DrainFinish, IInv, TypeOK
<1>2. statusOf[running] = "running"
  BY <1>1, StatusFacts
<1>3. statusOf' = [statusOf EXCEPT ![running] = "done"]
  BY <1>1, TasksAssumption DEF statusOf, DrainFinish, history
<1>4. UNCHANGED <<before, reply>>
  BY DEF DrainFinish, history
<1>5. QED BY <1>1, <1>2, <1>3, <1>4 DEF Executor!Finish

LEMMA AwaitRefines ==
    ASSUME IInv, NEW c \in Caller, Await(c)
    PROVE  \E t \in ExecTask : Executor!Answer(t) \/ Executor!GiveUp(t)
<1> DEFINE t == waiting[c]
<1>1. t # NoTask /\ t \in ExecTask
  BY TasksAssumption DEF Await, ExecuteReady, ExecuteTimeout, IInv, TypeOK, Task
<1>2. t \in Task /\ t \in handed /\ reply[t] = "none"
  BY <1>1 DEF IInv, WaitsUnanswered, Task
<1>3. UNCHANGED <<statusOf, before>>
  BY DEF Await, ExecuteReady, ExecuteTimeout, Return, history, statusOf
<1>4. CASE ExecuteReady(c)
  <2>1. reply' = [reply EXCEPT ![t] = "value"] /\ statusOf[t] = "done"
    BY <1>2, <1>4, StatusFacts DEF ExecuteReady, Return
  <2>2. QED BY <1>1, <1>2, <1>3, <2>1 DEF Executor!Answer
<1>5. CASE ExecuteTimeout(c)
  <2>1. reply' = [reply EXCEPT ![t] = "timeout"] /\ t \notin done
    BY <1>5 DEF ExecuteTimeout, Return
  <2>2. statusOf[t] \in {"pending", "running"}
    BY <1>2, <2>1, StatusFacts
  <2>3. QED BY <1>1, <1>2, <1>3, <2>1, <2>2 DEF Executor!GiveUp
<1>6. QED BY <1>4, <1>5 DEF Await

LEMMA StepRefines == IInv /\ IInv' /\ [Next]_vars => [Executor!Next]_(Executor!vars)
<1> SUFFICES ASSUME IInv, IInv', [Next]_vars
             PROVE  Executor!Next \/ UNCHANGED <<statusOf, before, reply>>
  BY DEF Executor!vars
<1> USE DEF Executor!Next, Executor!Task, Task
<1>1. ASSUME NEW c \in Caller, NEW t \in VoidTask, Post(c, t) PROVE Executor!Next
  BY <1>1, HandOverRefines DEF Post
<1>2. ASSUME NEW c \in Caller, NEW t \in ExecTask, ExecutePush(c, t) PROVE Executor!Next
  BY <1>2, HandOverRefines DEF ExecutePush
<1>3. ASSUME NEW c \in Caller, Await(c) PROVE Executor!Next
  BY <1>3, AwaitRefines
<1>4. CASE DrainSwap
  BY <1>4 DEF DrainSwap, statusOf, history
<1>5. CASE DrainStartVoid
  <2>1. Head(voidLocal) \in VoidTask /\ Head(voidLocal) \in Range(voidLocal)
    BY <1>5, PopFacts DEF DrainStartVoid, IInv, TypeOK
  <2>2. Head(voidLocal) \in handed \ done
    BY <2>1 DEF IInv, InOnePlace, Batch
  <2>3. Executor!Start(Head(voidLocal))
    BY <1>5, <2>1, <2>2, StartRefines DEF DrainStartVoid, history
  <2>4. QED BY <2>1, <2>3
<1>6. CASE DrainStartTask
  <2>1. Head(taskLocal) \in ExecTask /\ Head(taskLocal) \in Range(taskLocal)
    BY <1>6, PopFacts DEF DrainStartTask, IInv, TypeOK
  <2>2. Head(taskLocal) \in handed \ done
    BY <2>1 DEF IInv, InOnePlace, Batch
  <2>3. Executor!Start(Head(taskLocal))
    BY <1>6, <2>1, <2>2, StartRefines DEF DrainStartTask, history
  <2>4. QED BY <2>1, <2>3
<1>7. CASE DrainFinish
  BY <1>7, FinishRefines
<1>8. CASE UNCHANGED vars
  BY <1>8 DEF vars, statusOf
<1>9. QED
  BY <1>1, <1>2, <1>3, <1>4, <1>5, <1>6, <1>7, <1>8 DEF Next, Call, GameThread

(* Utils::TaskQueue implements the executor it stands for: each task runs  *)
(* once and in order, and execute() answers with a value only when the     *)
(* task is done and with a timeout only while it is not.                   *)
THEOREM Refinement == Spec => ImplementsExecutor
<1>1. Init => Executor!Init
  BY TasksAssumption DEF Init, Executor!Init, Executor!Task, Task, statusOf
<1>2. QED
  BY <1>1, InvariantIInv, StepRefines, PTL DEF Spec, ImplementsExecutor, Executor!Spec
=============================================================================
