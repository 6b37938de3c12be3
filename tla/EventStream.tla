----------------------------- MODULE EventStream -----------------------------
(***************************************************************************)
(* What the event pipe (src/runtime/events/EventPipe.cpp) promises to the  *)
(* code that pushes events and to the client that reads them: one client   *)
(* at a time; the events of one thread are read in the order in which it   *)
(* pushed them, each once; one pushed while no pipe is published is never  *)
(* sent; and one that was to be sent is lost only while no client is there *)
(* or no pipe is published.  An event may still be on its way when its     *)
(* client leaves, and then reach the next one.  A client is hung up on in  *)
(* one case only: a write to an earlier one has failed, and that is not    *)
(* dealt with yet.  Nothing is said about queues, handles and locks.       *)
(***************************************************************************)
EXTENDS Naturals, Sequences

CONSTANTS Thread, MaxEvents, MaxSessions

Event == 1 .. MaxEvents

VARIABLES
    session, \* number of the last client
    here,    \* is a client there
    open,    \* is a pipe published
    pushed,  \* events pushed
    sender,  \* [event -> thread that pushed it]
    pending, \* events on their way
    wire,    \* what was written, as <<session, event>>
    failed   \* session a write has failed for, while that is dealt with; 0: none

vars == <<session, here, open, pushed, sender, pending, wire, failed>>

Init ==
    /\ session = 0 /\ here = FALSE /\ open = FALSE
    /\ pushed = 0 /\ sender \in [Event -> Thread]
    /\ pending = {} /\ wire = <<>> /\ failed = 0

Push(t) ==
    /\ pushed < MaxEvents
    /\ pushed' = pushed + 1
    /\ sender' = [sender EXCEPT ![pushed'] = t]
    /\ pending' = IF open THEN pending \cup {pushed'} ELSE pending
    /\ UNCHANGED <<session, here, open, wire, failed>>

Arrive ==
    /\ ~here /\ ~open
    /\ session < MaxSessions
    /\ session' = session + 1 /\ here' = TRUE
    /\ UNCHANGED <<open, pushed, sender, pending, wire, failed>>

Leave ==
    /\ here /\ here' = FALSE
    /\ UNCHANGED <<session, open, pushed, sender, pending, wire, failed>>

Publish ==
    /\ ~open /\ session # 0
    /\ open' = TRUE
    /\ UNCHANGED <<session, here, pushed, sender, pending, wire, failed>>

\* The pipe of a client that has left is given up, or the failure is done with.
Retire ==
    /\ open /\ ~here
    /\ open' = FALSE
    /\ failed' \in {failed, 0}
    /\ UNCHANGED <<session, here, pushed, sender, pending, wire>>

Settle ==
    /\ failed # 0 /\ failed' = 0
    /\ UNCHANGED <<session, here, open, pushed, sender, pending, wire>>

\* A client pays for the failure of one before.
Cut ==
    /\ here /\ open /\ failed \notin {0, session}
    /\ here' = FALSE /\ open' = FALSE /\ failed' = 0
    /\ UNCHANGED <<session, pushed, sender, pending, wire>>

Deliver(e) ==
    /\ here /\ open /\ failed = 0 /\ e \in pending
    /\ \A d \in pending : sender[d] = sender[e] => e <= d
    /\ pending' = pending \ {e}
    /\ wire' = Append(wire, <<session, e>>)
    /\ UNCHANGED <<session, here, open, pushed, sender, failed>>

\* An event is lost when no pipe is published, or its write fails.
Lose(e) ==
    /\ ~(here /\ open) /\ failed = 0 /\ e \in pending
    /\ pending' = pending \ {e}
    /\ failed' = IF open THEN session ELSE 0
    /\ UNCHANGED <<session, here, open, pushed, sender, wire>>

Next ==
    \/ \E t \in Thread : Push(t)
    \/ Arrive \/ Leave \/ Publish \/ Retire \/ Settle \/ Cut
    \/ \E e \in Event : Deliver(e) \/ Lose(e)

Spec == Init /\ [][Next]_vars
=============================================================================
