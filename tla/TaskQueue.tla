----------------------------- MODULE TaskQueue ------------------------------
(***************************************************************************)
(* Utils::TaskQueue (src/utils/TaskQueue.h), the hand-over of work from    *)
(* the RPC thread to the game thread.  Hooks::Glue and Hooks::Frame each   *)
(* own one.  Callers run post() and execute(); one game thread runs        *)
(* drainAll() from its hook, once a frame.                                 *)
(*                                                                         *)
(* Each critical section of m_mutex is one action.  A task body runs       *)
(* outside the lock, so its start and its end are two actions: a caller's  *)
(* timeout can fall between them.                                          *)
(***************************************************************************)
EXTENDS Naturals, Sequences

CONSTANTS
    Caller,     \* threads that post and execute (the program has one)
    VoidTask,   \* the std::function<void()> objects handed to post()
    ExecTask,   \* the std::function<std::string()> objects handed to execute()
    NoTask      \* "none": nothing is running, the caller is not waiting

Task == VoidTask \cup ExecTask

ASSUME TasksAssumption ==
    /\ VoidTask \cap ExecTask = {}
    /\ NoTask \notin Task

VARIABLES
    voidQueue,   \* m_voidQueue
    taskQueue,   \* m_taskQueue
    voidLocal,   \* voidLocal of the drainAll() in progress
    taskLocal,   \* taskLocal of the drainAll() in progress
    running,     \* the task whose body the game thread is executing
    done,        \* tasks whose body has returned: an ExecTask's future is ready
    waiting,     \* [Caller -> the task whose future it waits on]
    reply,       \* [ExecTask -> what execute() returned]
    handed,      \* history: tasks pushed so far
    before       \* history: [Task -> tasks pushed earlier that go before it]

queues == <<voidQueue, taskQueue>>
locals == <<voidLocal, taskLocal>>
history == <<handed, before>>
vars == <<voidQueue, taskQueue, voidLocal, taskLocal, running, done,
          waiting, reply, handed, before>>

Range(s) == {s[i] : i \in DOMAIN s}

-----------------------------------------------------------------------------
Init ==
    /\ voidQueue = <<>>
    /\ taskQueue = <<>>
    /\ voidLocal = <<>>
    /\ taskLocal = <<>>
    /\ running = NoTask
    /\ done = {}
    /\ waiting = [c \in Caller |-> NoTask]
    /\ reply = [t \in ExecTask |-> "none"]
    /\ handed = {}
    /\ before = [t \in Task |-> {}]

\* The tasks already handed over that the drain order puts ahead of t: posts
\* go ahead of everything, executes only ahead of executes.
Ahead(t) == {u \in handed : u \in VoidTask \/ t \in ExecTask}

RecordHandOver(t) ==
    /\ handed' = handed \cup {t}
    /\ before' = [before EXCEPT ![t] = Ahead(t)]

\* post(): every call makes a new task object.
Post(c, t) ==
    /\ waiting[c] = NoTask
    /\ t \notin handed
    /\ voidQueue' = Append(voidQueue, t)
    /\ RecordHandOver(t)
    /\ UNCHANGED <<taskQueue, locals, running, done, waiting, reply>>

\* execute(), first half: wrap the task, push it, start to wait.
ExecutePush(c, t) ==
    /\ waiting[c] = NoTask
    /\ t \notin handed
    /\ taskQueue' = Append(taskQueue, t)
    /\ waiting' = [waiting EXCEPT ![c] = t]
    /\ RecordHandOver(t)
    /\ UNCHANGED <<voidQueue, locals, running, done, reply>>

Return(c, answer) ==
    /\ reply' = [reply EXCEPT ![waiting[c]] = answer]
    /\ waiting' = [waiting EXCEPT ![c] = NoTask]
    /\ UNCHANGED <<queues, locals, running, done, history>>

\* Mutant: the result is taken as soon as the body has started.
ExecuteReady_Early(c) ==
    /\ waiting[c] \in done \cup ({running} \ {NoTask})
    /\ Return(c, "value")

\* execute(), second half: the future became ready in time.
ExecuteReady(c) ==
    /\ waiting[c] \in done
    /\ Return(c, "value")

\* Mutant: future.get() without the wait_for.
ExecuteTimeout_Never(c) == FALSE /\ ExecuteReady(c)

\* execute(), second half: wait_for gives up.  The task stays where it is.
ExecuteTimeout(c) ==
    /\ waiting[c] # NoTask
    /\ waiting[c] \notin done
    /\ Return(c, "timeout")

Draining == voidLocal # <<>> \/ taskLocal # <<>> \/ running # NoTask

\* Mutant: the queues are copied, not swapped with empty ones.
DrainSwap_Copy ==
    /\ ~Draining
    /\ voidQueue # <<>> \/ taskQueue # <<>>
    /\ voidLocal' = voidQueue
    /\ taskLocal' = taskQueue
    /\ UNCHANGED <<queues, running, done, waiting, reply, history>>

\* Mutant: a drain takes the executes alone when there are any.
DrainSwap_OneQueue ==
    /\ ~Draining
    /\ voidQueue # <<>> \/ taskQueue # <<>>
    /\ IF taskQueue # <<>>
         THEN /\ taskLocal' = taskQueue /\ taskQueue' = <<>>
              /\ UNCHANGED <<voidLocal, voidQueue>>
         ELSE /\ voidLocal' = voidQueue /\ voidQueue' = <<>>
              /\ UNCHANGED <<taskLocal, taskQueue>>
    /\ UNCHANGED <<running, done, waiting, reply, history>>

\* Mutant: a drain returns at once when nothing was posted.
DrainSwap_PostsOnly ==
    /\ ~Draining
    /\ voidQueue # <<>>
    /\ voidLocal' = voidQueue
    /\ taskLocal' = taskQueue
    /\ voidQueue' = <<>>
    /\ taskQueue' = <<>>
    /\ UNCHANGED <<running, done, waiting, reply, history>>

\* drainAll(), the locked part (empty queues make it a stuttering step).
DrainSwap ==
    /\ ~Draining
    /\ voidQueue # <<>> \/ taskQueue # <<>>
    /\ voidLocal' = voidQueue
    /\ taskLocal' = taskQueue
    /\ voidQueue' = <<>>
    /\ taskQueue' = <<>>
    /\ UNCHANGED <<running, done, waiting, reply, history>>

\* drainAll(), first loop: pop the next post and enter its body.
DrainStartVoid ==
    /\ running = NoTask
    /\ voidLocal # <<>>
    /\ running' = Head(voidLocal)
    /\ voidLocal' = Tail(voidLocal)
    /\ UNCHANGED <<queues, taskLocal, done, waiting, reply, history>>

\* drainAll(), second loop, reached when the first is through.
DrainStartTask ==
    /\ running = NoTask
    /\ voidLocal = <<>>
    /\ taskLocal # <<>>
    /\ running' = Head(taskLocal)
    /\ taskLocal' = Tail(taskLocal)
    /\ UNCHANGED <<queues, voidLocal, done, waiting, reply, history>>

\* The body returns; packaged_task makes the future of an ExecTask ready.
DrainFinish ==
    /\ running # NoTask
    /\ done' = done \cup {running}
    /\ running' = NoTask
    /\ UNCHANGED <<queues, locals, waiting, reply, history>>

Call(c) ==
    \/ \E t \in VoidTask : Post(c, t)
    \/ \E t \in ExecTask : ExecutePush(c, t)

Await(c) == ExecuteReady(c) \/ ExecuteTimeout(c)

GameThread == DrainSwap \/ DrainStartVoid \/ DrainStartTask \/ DrainFinish

Next ==
    \/ \E c \in Caller : Call(c) \/ Await(c)
    \/ GameThread

\* Only wait_for is fair by itself: its deadline passes whatever the game does.
Fairness == \A c \in Caller : WF_vars(Await(c))

Spec == Init /\ [][Next]_vars /\ Fairness

-----------------------------------------------------------------------------
TypeOK ==
    /\ voidQueue \in Seq(VoidTask)
    /\ voidLocal \in Seq(VoidTask)
    /\ taskQueue \in Seq(ExecTask)
    /\ taskLocal \in Seq(ExecTask)
    /\ running \in Task \cup {NoTask}
    /\ done \in SUBSET Task
    /\ waiting \in [Caller -> ExecTask \cup {NoTask}]
    /\ reply \in [ExecTask -> {"none", "value", "timeout"}]
    /\ handed \in SUBSET Task
    /\ before \in [Task -> SUBSET Task]

Queued == Range(voidQueue) \cup Range(taskQueue)
Batch == Range(voidLocal) \cup Range(taskLocal)
Current == {running} \ {NoTask}

Injective(s) == \A i, j \in DOMAIN s : s[i] = s[j] => i = j

(* A task that was handed over is in exactly one place: one entry of one   *)
(* queue, one entry of one batch, in execution, or done.  So none is lost  *)
(* between the queue and the batch, and none can run twice.                *)
InOnePlace ==
    /\ handed = Queued \cup Batch \cup Current \cup done
    /\ Queued \cap Batch = {}
    /\ (Queued \cup Batch) \cap Current = {}
    /\ (Queued \cup Batch \cup Current) \cap done = {}
    /\ Injective(voidQueue) /\ Injective(voidLocal)
    /\ Injective(taskQueue) /\ Injective(taskLocal)

(* The tasks that go ahead of a task by hand-over order have run when its  *)
(* body is entered, whichever batches they fell into: a login posted       *)
(* before an execute has taken effect when the execute reads the client.   *)
RunsInOrder ==
    \A t \in done \cup Current : before[t] \subseteq done

(* execute() always returns, even if the game thread never drains again.   *)
ExecuteReturns == \A c \in Caller : (waiting[c] # NoTask) ~> (waiting[c] = NoTask)

(* While frames keep coming every task handed over runs in the end,        *)
(* including one whose caller was told "timeout".                          *)
HandedOverRuns ==
    WF_vars(GameThread) => \A t \in Task : (t \in handed) ~> (t \in done)

-----------------------------------------------------------------------------
statusOf == [t \in Task |-> IF t \in done THEN "done"
                            ELSE IF t = running THEN "running"
                            ELSE IF t \in handed THEN "pending"
                            ELSE "new"]

Executor == INSTANCE TaskExecutor WITH status <- statusOf

(* The queue, with its batches and timeouts, is an executor that runs each *)
(* task once, in order, and answers "value" only for a task that is done.  *)
ImplementsExecutor == Executor!Spec
=============================================================================
