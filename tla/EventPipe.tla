----------------------------- MODULE EventPipe ------------------------------
(***************************************************************************)
(* Runtime::EventPipe (src/runtime/events/EventPipe.cpp), but for the      *)
(* history's requests, which EventsApi adds.                               *)
(*                                                                         *)
(* Four threads: the game thread and the RPC thread push events (a script  *)
(* run by the RPC thread signals events there), the write thread takes     *)
(* them to the pipe, the accept thread keeps one pipe instance for one     *)
(* client.  The clients and the pipe object of the operating system are    *)
(* external.  A critical section of s_lock or s_writeLock is one action.   *)
(* s_writeEvent is left out: WriteThread's wait on it ends after 100 ms    *)
(* with or without it.  Shutdown(), run only as the process ends, is left  *)
(* out too.  Events are numbered in the order they enter the history.      *)
(***************************************************************************)
EXTENDS CircularBuffer, FiniteSets

CONSTANTS
    Game, Rpc,      \* the two threads that call PushEvent
    Handle,         \* values CreateNamedPipe can return: any that is not open
    INVALID,        \* INVALID_HANDLE_VALUE
    MaxEvents,      \* bound: events pushed
    MaxSessions     \* bound: times a client opens the pipe

Thread == {Game, Rpc}

ASSUME EventPipeAssumption ==
    /\ INVALID \notin Handle
    /\ Game # Rpc
    /\ MaxEvents \in Nat /\ MaxSessions \in Nat

VARIABLES
    sPipe,      \* s_pipe
    disconn,    \* s_disconnEvent, manual reset
    writeQueue, \* s_writeQueue
    buffer,     \* s_buffer's entries
    maxSize,    \* s_buffer.m_maxSize
    pushing,    \* [Thread -> the event inside PushEvent, 0: none]
    hasPipe,    \* [Thread -> PushEvent's local hasPipe]
    aPc, aPipe, \* PipeAcceptThread: where it is, and its h
    wPc, wMsg, wPipe, \* WriteThread: where it is, its msg and pipe
    instance,   \* the pipe instance: its handle, and whether a client is there
    session,    \* history: how often a client opened the pipe
    wSession,   \* history: the session whose pipe WriteThread has read
    mistaken,   \* history: has WriteThread taken a new pipe for that one?
    pushed,     \* history: events pushed
    sender,     \* history: [event -> thread that pushed it]
    audience,   \* history: [event -> session whose client was there, 0: none]
    wire        \* history: what was written, as <<session, event>>

accept == <<aPc, aPipe>>
writer == <<wPc, wMsg, wPipe, wSession>>
store == <<buffer, maxSize>>
producers == <<pushing, hasPipe>>
pipe == <<instance, session, mistaken>>
record == <<pushed, sender, audience>>
vars == <<sPipe, disconn, writeQueue, store, producers, accept,
          writer, pipe, record, wire>>

Event == 1 .. MaxEvents
NoInstance == [handle |-> INVALID, client |-> "closed"]

Init ==
    /\ sPipe = INVALID /\ disconn = FALSE
    /\ writeQueue = <<>>
    /\ buffer = <<>> /\ maxSize = DefaultMax
    /\ pushing = [t \in Thread |-> 0]
    /\ hasPipe = [t \in Thread |-> FALSE]
    /\ aPc = "create" /\ aPipe = INVALID
    /\ wPc = "pop" /\ wMsg = 0 /\ wPipe = INVALID /\ wSession = 0
    /\ instance = NoInstance /\ session = 0 /\ mistaken = FALSE
    /\ pushed = 0
    /\ sender = [e \in Event |-> Game]
    /\ audience = [e \in Event |-> 0]
    /\ wire = <<>>

-----------------------------------------------------------------------------
(* PushEvent.                                                              *)

\* Mutant: an event is queued whether or not a pipe is published.
PushToHistory_Deaf(t) ==
    /\ pushing[t] = 0
    /\ pushed < MaxEvents
    /\ pushed' = pushed + 1
    /\ buffer' = PushTrimmed(buffer, pushed', maxSize)
    /\ pushing' = [pushing EXCEPT ![t] = pushed']
    /\ hasPipe' = [hasPipe EXCEPT ![t] = TRUE]
    /\ sender' = [sender EXCEPT ![pushed'] = t]
    /\ audience' = [audience EXCEPT ![pushed'] =
                      IF sPipe # INVALID THEN session ELSE 0]
    /\ UNCHANGED <<sPipe, disconn, writeQueue, maxSize, accept,
                   writer, pipe, wire>>

PushToHistory(t) ==
    /\ pushing[t] = 0
    /\ pushed < MaxEvents
    /\ pushed' = pushed + 1
    /\ buffer' = PushTrimmed(buffer, pushed', maxSize)
    /\ pushing' = [pushing EXCEPT ![t] = pushed']
    /\ hasPipe' = [hasPipe EXCEPT ![t] = sPipe # INVALID]
    /\ sender' = [sender EXCEPT ![pushed'] = t]
    /\ audience' = [audience EXCEPT ![pushed'] =
                      IF sPipe # INVALID THEN session ELSE 0]
    /\ UNCHANGED <<sPipe, disconn, writeQueue, maxSize, accept,
                   writer, pipe, wire>>

\* Mutant: the write queue holds one message.
PushToQueue_Full(t) ==
    /\ pushing[t] # 0
    /\ writeQueue' = IF hasPipe[t] /\ writeQueue = <<>> THEN <<pushing[t]>> ELSE writeQueue
    /\ pushing' = [pushing EXCEPT ![t] = 0]
    /\ hasPipe' = [hasPipe EXCEPT ![t] = FALSE]
    /\ UNCHANGED <<sPipe, disconn, store, accept, writer, pipe, record, wire>>

PushToQueue(t) ==
    /\ pushing[t] # 0
    /\ writeQueue' = IF hasPipe[t] THEN Append(writeQueue, pushing[t]) ELSE writeQueue
    /\ pushing' = [pushing EXCEPT ![t] = 0]
    /\ hasPipe' = [hasPipe EXCEPT ![t] = FALSE]
    /\ UNCHANGED <<sPipe, disconn, store, accept, writer, pipe, record, wire>>

-----------------------------------------------------------------------------
(* PipeAcceptThread.  Only one instance may exist (nMaxInstances is 1):    *)
(* while it does, CreateNamedPipe fails and the thread sleeps and retries. *)
(* The value it returns may be one that was closed before.                 *)

CreatePipe ==
    /\ aPc = "create"
    /\ instance = NoInstance
    /\ \E h \in Handle :
         /\ aPipe' = h
         /\ instance' = [handle |-> h, client |-> "listening"]
    /\ aPc' = "connect"
    /\ UNCHANGED <<sPipe, disconn, writeQueue, store, producers,
                   writer, session, mistaken, record, wire>>

\* ConnectNamedPipe returns with a client, who may have left again, and
\* s_disconnEvent is reset.
ConnectPipe ==
    /\ aPc = "connect"
    /\ instance.client \in {"present", "gone"}
    /\ disconn' = FALSE
    /\ aPc' = "publish"
    /\ UNCHANGED <<sPipe, writeQueue, store, producers, aPipe, writer,
                   pipe, record, wire>>

\* ConnectNamedPipe fails: the client came and left before the call.
ConnectFails ==
    /\ aPc = "connect"
    /\ instance.client = "gone"
    /\ instance' = NoInstance
    /\ aPc' = "create"
    /\ UNCHANGED <<sPipe, disconn, writeQueue, store, producers, aPipe,
                   writer, session, mistaken, record, wire>>

\* Closing a handle value closes the instance that has it, if any.
Close(h) == IF instance.handle = h THEN NoInstance ELSE instance

PublishPipe ==
    /\ aPc = "publish"
    /\ instance' = IF sPipe # INVALID THEN Close(sPipe) ELSE instance
    /\ sPipe' = aPipe
    /\ aPc' = "watch"
    /\ UNCHANGED <<disconn, writeQueue, store, producers, aPipe, writer,
                   session, mistaken, record, wire>>

AwaitDisconnect ==
    /\ aPc = "watch"
    /\ disconn
    /\ aPc' = "retire"
    /\ UNCHANGED <<sPipe, disconn, writeQueue, store, producers, aPipe,
                   writer, pipe, record, wire>>

\* Mutant: the accept thread leaves closing to the write thread.
RetirePipe_NoClose ==
    /\ aPc = "retire"
    /\ sPipe' = IF sPipe = aPipe THEN INVALID ELSE sPipe
    /\ aPc' = "create"
    /\ UNCHANGED <<instance, disconn, writeQueue, store, producers, aPipe,
                   writer, session, mistaken, record, wire>>

RetirePipe ==
    /\ aPc = "retire"
    /\ IF sPipe = aPipe
         THEN instance' = Close(sPipe) /\ sPipe' = INVALID
         ELSE UNCHANGED <<instance, sPipe>>
    /\ aPc' = "create"
    /\ UNCHANGED <<disconn, writeQueue, store, producers, aPipe, writer,
                   session, mistaken, record, wire>>

AcceptThread ==
    CreatePipe \/ ConnectPipe \/ ConnectFails \/ PublishPipe \/ AwaitDisconnect
      \/ RetirePipe

-----------------------------------------------------------------------------
(* WriteThread.                                                            *)

PopMessage ==
    /\ wPc = "pop"
    /\ writeQueue # <<>>
    /\ wMsg' = Head(writeQueue)
    /\ writeQueue' = Tail(writeQueue)
    /\ wPc' = "read"
    /\ UNCHANGED <<sPipe, disconn, store, producers, accept, wPipe,
                   wSession, pipe, record, wire>>

\* The message is dropped when no pipe is published.
ReadPipe ==
    /\ wPc = "read"
    /\ wPipe' = sPipe /\ wSession' = session
    /\ wPc' = IF sPipe = INVALID THEN "pop" ELSE "write"
    /\ UNCHANGED <<sPipe, disconn, writeQueue, store, producers, accept,
                   wMsg, pipe, record, wire>>

Reachable(h) == instance.handle = h /\ instance.client = "present"

\* WriteFile succeeds; until the client reads it may block.
WriteSucceeds ==
    /\ wPc = "write"
    /\ Reachable(wPipe)
    /\ wire' = Append(wire, <<session, wMsg>>)
    /\ wPc' = "pop"
    /\ UNCHANGED <<sPipe, disconn, writeQueue, store, producers, accept,
                   wMsg, wPipe, wSession, pipe, record>>

\* Mutant: the message of a failed write is queued again.
WriteFails_Requeue ==
    /\ wPc = "write"
    /\ ~Reachable(wPipe)
    /\ writeQueue' = Append(writeQueue, wMsg)
    /\ wPc' = "failed"
    /\ UNCHANGED <<sPipe, disconn, store, producers, accept, wMsg, wPipe,
                   wSession, pipe, record, wire>>

\* WriteFile fails.
WriteFails ==
    /\ wPc = "write"
    /\ ~Reachable(wPipe)
    /\ wPc' = "failed"
    /\ UNCHANGED <<sPipe, disconn, writeQueue, store, producers, accept,
                   wMsg, wPipe, wSession, pipe, record, wire>>

\* Mutant: a failed write is not signalled.
SignalFailure_Left ==
    /\ wPc = "failed"
    /\ wPc' = "drop"
    /\ UNCHANGED <<sPipe, disconn, writeQueue, store, producers, accept,
                   wMsg, wPipe, wSession, pipe, record, wire>>

\* SetEvent(s_disconnEvent), before the lock is taken.
SignalFailure ==
    /\ wPc = "failed"
    /\ disconn' = TRUE
    /\ wPc' = "drop"
    /\ UNCHANGED <<sPipe, writeQueue, store, producers, accept, wMsg,
                   wPipe, wSession, pipe, record, wire>>

\* Mutant: the write thread closes whatever is published.
DropPipe_Unchecked ==
    /\ wPc = "drop"
    /\ instance' = IF sPipe # INVALID THEN Close(sPipe) ELSE instance
    /\ sPipe' = INVALID
    /\ mistaken' = (mistaken \/ (sPipe = wPipe /\ session # wSession))
    /\ wPc' = "pop"
    /\ UNCHANGED <<disconn, writeQueue, store, producers, accept, wMsg,
                   wPipe, wSession, session, record, wire>>

\* The write thread closes the pipe it failed on if that is still published,
\* or a later one that has the same value.
DropPipe ==
    /\ wPc = "drop"
    /\ IF sPipe = wPipe
         THEN /\ instance' = Close(sPipe) /\ sPipe' = INVALID
              /\ mistaken' = (mistaken \/ session # wSession)
         ELSE UNCHANGED <<instance, sPipe, mistaken>>
    /\ wPc' = "pop"
    /\ UNCHANGED <<disconn, writeQueue, store, producers, accept, wMsg,
                   wPipe, wSession, session, record, wire>>

WriteThread ==
    PopMessage \/ ReadPipe \/ WriteSucceeds \/ WriteFails \/ SignalFailure \/ DropPipe

-----------------------------------------------------------------------------
(* The clients.                                                            *)

ClientOpens ==
    /\ instance.client = "listening"
    /\ session < MaxSessions
    /\ instance' = [instance EXCEPT !.client = "present"]
    /\ session' = session + 1
    /\ UNCHANGED <<sPipe, disconn, writeQueue, store, producers, accept,
                   writer, mistaken, record, wire>>

ClientLeaves ==
    /\ instance.client = "present"
    /\ instance' = [instance EXCEPT !.client = "gone"]
    /\ UNCHANGED <<sPipe, disconn, writeQueue, store, producers, accept,
                   writer, session, mistaken, record, wire>>

-----------------------------------------------------------------------------
Push(t) == PushToHistory(t) \/ PushToQueue(t)

Next ==
    \/ \E t \in Thread : Push(t)
    \/ AcceptThread
    \/ WriteThread
    \/ ClientOpens \/ ClientLeaves

\* The threads run whenever they can; a thread inside PushEvent leaves it.
\* WriteSucceeds is fair: a client that stays reads.  Nothing obliges a
\* client to come or to leave, or an event to happen.
Fairness ==
    /\ WF_vars(AcceptThread)
    /\ WF_vars(WriteThread)
    /\ \A t \in Thread : WF_vars(PushToQueue(t))

Spec == Init /\ [][Next]_vars /\ Fairness

-----------------------------------------------------------------------------
TypeOK ==
    /\ sPipe \in Handle \cup {INVALID} /\ disconn \in BOOLEAN
    /\ writeQueue \in Seq(Event)
    /\ buffer \in Seq(Event) /\ maxSize \in Nat \ {0}
    /\ pushing \in [Thread -> Event \cup {0}]
    /\ hasPipe \in [Thread -> BOOLEAN]
    /\ aPc \in {"create", "connect", "publish", "watch", "retire"}
    /\ aPipe \in Handle \cup {INVALID}
    /\ wPc \in {"pop", "read", "write", "failed", "drop"}
    /\ wMsg \in Event \cup {0} /\ wPipe \in Handle \cup {INVALID}
    /\ instance \in [handle : Handle \cup {INVALID},
                     client : {"closed", "listening", "present", "gone"}]
    /\ session \in 0 .. MaxSessions /\ wSession \in 0 .. MaxSessions
    /\ mistaken \in BOOLEAN
    /\ pushed \in 0 .. MaxEvents
    /\ sender \in [Event -> Thread]
    /\ audience \in [Event -> 0 .. MaxSessions]
    /\ wire \in Seq((1 .. MaxSessions) \X Event)

(* The accept and the write thread both close pipes, and between them they *)
(* never leave an instance behind: when a new one is to be created the old *)
(* one is closed, or CreateNamedPipe would fail for ever.                  *)
NoInstanceLeft ==
    /\ aPc = "create" => instance = NoInstance /\ sPipe = INVALID
    /\ aPc \in {"connect", "publish"} => instance.handle = aPipe /\ sPipe = INVALID

(* The accept thread waits only for a pipe that is still published, or     *)
(* that it has been told about: otherwise nobody would ever wake it.  One  *)
(* mistake of the write thread breaks this, and nothing else does: that it *)
(* takes a new pipe for the one it failed on.                              *)
AcceptorWakes ==
    aPc = "watch" =>
      \/ disconn
      \/ sPipe = aPipe /\ instance.handle = aPipe
      \/ mistaken

(* On the wire no event appears twice, the sessions follow one another,    *)
(* and events of one thread keep the order in which it pushed them.        *)
WireOrder ==
    \A i, j \in DOMAIN wire : i < j =>
        /\ wire[i][2] # wire[j][2]
        /\ wire[i][1] <= wire[j][1]
        /\ sender[wire[i][2]] = sender[wire[j][2]] => wire[i][2] < wire[j][2]

OnWire(n, e) == \E i \in DOMAIN wire : wire[i] = <<n, e>>
Over(n) == session > n \/ (session = n /\ instance.client # "present")

(* An event pushed while a client's pipe is published reaches that client  *)
(* unless the session ends first.                                          *)
AudienceIsServed ==
    \A e \in Event, n \in 1 .. MaxSessions :
        (audience[e] = n) ~> (OnWire(n, e) \/ Over(n))

(* Once a client has left, the next event that is queued leads to a new    *)
(* instance that listens for the next client, unless the write thread      *)
(* takes a new pipe for an old one.                                        *)
LeaverIsReplaced ==
    (instance.client = "gone" /\ sPipe # INVALID /\ writeQueue # <<>>)
      ~> (instance.client = "listening" \/ mistaken)

(* The pipe is closed under a client in one case only: the write to an     *)
(* earlier client has failed, the accept thread has meanwhile made a new   *)
(* instance, and its handle has the value of the old one, so that the      *)
(* write thread closes the wrong one.                                      *)
ClientKept ==
    [][instance.client = "present" /\ instance'.client = "closed"
         => wPc = "drop" /\ wSession < session /\ wPipe = instance.handle]_vars

(* What a client is told: it can "connect to it as a client to receive     *)
(* event notifications as they happen" (docs/EN/02-injection.md:84), so    *)
(* that the pipe is not closed under one that has not left.  The code does *)
(* close it in the case of ClientKept (EventPipe.cpp:61).                  *)
ClientStays ==
    [][instance.client = "present" => instance'.client # "closed"]_vars

-----------------------------------------------------------------------------
clientHere == instance.client = "present"
published == sPipe # INVALID

\* The events between PushEvent and the pipe, but for those that will be
\* dropped since no pipe was published.
pendingOf ==
    {e \in Event : \/ \E t \in Thread : pushing[t] = e /\ hasPipe[t]
                   \/ \E i \in DOMAIN writeQueue : writeQueue[i] = e
                   \/ wPc \in {"read", "write"} /\ wMsg = e}

\* The session whose client a write has failed to reach, until the write thread
\* is through with it.
failedOf == IF wPc \in {"failed", "drop"} THEN wSession ELSE 0

Stream == INSTANCE EventStream WITH
              here <- clientHere, open <- published, pending <- pendingOf,
              failed <- failedOf

(* The four threads together send events as EventStream says: in the order *)
(* of each thread, to a client that is not hung up on but by a write that  *)
(* failed for one before, losing an event only while nobody is served, and *)
(* never sending one that was pushed while no pipe was published.          *)
ImplementsEventStream == Stream!Spec
=============================================================================
