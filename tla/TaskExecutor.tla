---------------------------- MODULE TaskExecutor ----------------------------
(***************************************************************************)
(* What Utils::TaskQueue (src/utils/TaskQueue.h) promises its callers: a   *)
(* task handed over is executed exactly once by the draining thread, never *)
(* before the tasks that must precede it, and a caller that waits gets     *)
(* either the task's own result, after the task has finished, or a timeout *)
(* while it has not.  Nothing is said about queues, batches or locks.      *)
(***************************************************************************)
EXTENDS Naturals

CONSTANTS VoidTask,   \* tasks handed over with post()
          ExecTask    \* tasks handed over with execute()

Task == VoidTask \cup ExecTask

VARIABLES
    status,  \* [Task -> {"new", "pending", "running", "done"}]
    before,  \* [Task -> SUBSET Task]: what has to be done before the task starts
    reply    \* [ExecTask -> {"none", "value", "timeout"}]

vars == <<status, before, reply>>

\* A post waits for earlier posts only; an execute waits for everything
\* handed over earlier, posts included.
MustPrecede(u, t) == u \in VoidTask \/ t \in ExecTask

Init ==
    /\ status = [t \in Task |-> "new"]
    /\ before = [t \in Task |-> {}]
    /\ reply = [t \in ExecTask |-> "none"]

HandOver(t) ==
    /\ status[t] = "new"
    /\ status' = [status EXCEPT ![t] = "pending"]
    /\ before' = [before EXCEPT ![t] =
                    {u \in Task : status[u] # "new" /\ MustPrecede(u, t)}]
    /\ UNCHANGED reply

Start(t) ==
    /\ status[t] = "pending"
    /\ \A u \in Task : status[u] # "running"
    /\ \A u \in before[t] : status[u] = "done"
    /\ status' = [status EXCEPT ![t] = "running"]
    /\ UNCHANGED <<before, reply>>

Finish(t) ==
    /\ status[t] = "running"
    /\ status' = [status EXCEPT ![t] = "done"]
    /\ UNCHANGED <<before, reply>>

Answer(t) ==
    /\ reply[t] = "none"
    /\ status[t] = "done"
    /\ reply' = [reply EXCEPT ![t] = "value"]
    /\ UNCHANGED <<status, before>>

GiveUp(t) ==
    /\ reply[t] = "none"
    /\ status[t] \in {"pending", "running"}
    /\ reply' = [reply EXCEPT ![t] = "timeout"]
    /\ UNCHANGED <<status, before>>

Next ==
    \/ \E t \in Task : HandOver(t) \/ Start(t) \/ Finish(t)
    \/ \E t \in ExecTask : Answer(t) \/ GiveUp(t)

Spec == Init /\ [][Next]_vars
=============================================================================
