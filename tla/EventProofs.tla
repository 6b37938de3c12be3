----------------------------- MODULE EventProofs -----------------------------
(***************************************************************************)
(* Proofs about EventPipe and EventsApi for any number of events,          *)
(* sessions, handle values, names and requests.                            *)
(***************************************************************************)
EXTENDS EventsApi, BufferProofs

USE EventPipeAssumption, EventsApiAssumption, DefaultMaxAssumption

-----------------------------------------------------------------------------
(* The types of EventPipe, in four parts.                                  *)

PipeTypes ==
    /\ sPipe \in Handle \cup {INVALID} /\ disconn \in BOOLEAN
    /\ aPc \in {"create", "connect", "publish", "watch", "retire"}
    /\ aPipe \in Handle \cup {INVALID}
    /\ wPc \in {"pop", "read", "write", "failed", "drop"}
    /\ wPipe \in Handle \cup {INVALID}
    /\ instance \in [handle : Handle \cup {INVALID},
                     client : {"closed", "listening", "present", "gone"}]
    /\ mistaken \in BOOLEAN

QueueTypes ==
    /\ writeQueue \in Seq(Event)
    /\ pushing \in [Thread -> Event \cup {0}]
    /\ hasPipe \in [Thread -> BOOLEAN]
    /\ wMsg \in Event \cup {0}
    /\ wPc # "pop" => wMsg \in Event

StoreTypes == buffer \in Seq(Event) /\ maxSize \in Nat \ {0}

RecordTypes ==
    /\ session \in 0 .. MaxSessions /\ wSession \in 0 .. MaxSessions
    /\ instance.client \in {"present", "gone"} => session \in 1 .. MaxSessions
    /\ pushed \in 0 .. MaxEvents
    /\ sender \in [Event -> Thread]
    /\ audience \in [Event -> 0 .. MaxSessions]
    /\ wire \in Seq((1 .. MaxSessions) \X Event)

PTypes == PipeTypes /\ QueueTypes /\ StoreTypes /\ RecordTypes

LEMMA TypesSuffice == PTypes => TypeOK
BY DEF PTypes, PipeTypes, QueueTypes, StoreTypes, RecordTypes, TypeOK

LEMMA InitTypes == Init => PTypes
<1> SUFFICES ASSUME Init PROVE PTypes
  OBVIOUS
<1>1. PipeTypes
  BY DEF Init, PipeTypes, NoInstance
<1>2. QueueTypes
  BY EmptySeq DEF Init, QueueTypes
<1>3. StoreTypes
  BY EmptySeq DEF Init, StoreTypes
<1>4. session = 0 /\ wSession = 0 /\ pushed = 0 /\ instance.client = "closed" /\ wire = <<>>
  BY DEF Init, NoInstance
<1>5. sender \in [Event -> Thread] /\ audience \in [Event -> 0 .. MaxSessions]
  BY DEF Init, Thread
<1> QED BY <1>1, <1>2, <1>3, <1>4, <1>5, EmptySeq DEF PTypes, RecordTypes

\* The next event has a number of its own.
LEMMA NextEvent ==
    ASSUME pushed \in 0 .. MaxEvents, pushed < MaxEvents
    PROVE  pushed + 1 \in Event /\ pushed + 1 \in 0 .. MaxEvents /\ pushed + 1 # 0
BY DEF Event

-----------------------------------------------------------------------------
(* Which parts of the state a step leaves alone.                           *)

LEMMA PushFrame ==
    ASSUME NEW t \in Thread, Push(t)
    PROVE  UNCHANGED <<sPipe, disconn, aPc, aPipe, wPc, wMsg, wPipe, wSession, instance,
                       session, mistaken, maxSize, wire>>
BY DEF Push, PushToHistory, PushToQueue, accept, writer, pipe, store

LEMMA AcceptFrame ==
    ASSUME AcceptThread
    PROVE  UNCHANGED <<writeQueue, buffer, maxSize, pushing, hasPipe, wPc, wMsg, wPipe,
                       wSession, session, mistaken, pushed, sender, audience, wire>>
BY DEF AcceptThread, CreatePipe, ConnectPipe, ConnectFails, PublishPipe, AwaitDisconnect,
       RetirePipe, store, producers, writer, record, pipe

LEMMA WriteFrame ==
    ASSUME WriteThread
    PROVE  UNCHANGED <<buffer, maxSize, pushing, hasPipe, aPc, aPipe, session,
                       pushed, sender, audience>>
BY DEF WriteThread, PopMessage, ReadPipe, WriteSucceeds, WriteFails, SignalFailure, DropPipe,
       store, producers, accept, pipe, record

LEMMA ClientFrame ==
    ASSUME ClientOpens \/ ClientLeaves
    PROVE  UNCHANGED <<sPipe, disconn, writeQueue, buffer, maxSize, pushing, hasPipe,
                       aPc, aPipe, wPc, wMsg, wPipe, wSession, mistaken, pushed, sender, audience,
                       wire>>
BY DEF ClientOpens, ClientLeaves, store, producers, accept, writer, record

LEMMA Stutter ==
    ASSUME UNCHANGED vars
    PROVE  /\ UNCHANGED <<sPipe, disconn, writeQueue, buffer, maxSize, pushing, hasPipe>>
           /\ UNCHANGED <<aPc, aPipe, wPc, wMsg, wPipe, wSession, instance, session, mistaken>>
           /\ UNCHANGED <<pushed, sender, audience, wire>>
BY DEF vars, store, producers, accept, writer, pipe, record

-----------------------------------------------------------------------------
(* Every step keeps the types.                                             *)

LEMMA PushTypes == ASSUME PTypes, NEW t \in Thread, Push(t) PROVE PTypes'
<1> USE DEF PTypes
<1>1. PipeTypes'
  BY PushFrame DEF PipeTypes
<1>2. CASE PushToHistory(t)
  <2>1. pushed' \in Event /\ pushed' \in 0 .. MaxEvents
    BY <1>2, NextEvent DEF PushToHistory, RecordTypes
  <2>2. StoreTypes'
    <3>1. Append(buffer, pushed') \in Seq(Event)
      BY <2>1 DEF StoreTypes
    <3> QED BY <1>2, <2>1, <3>1, TrimFacts DEF PushToHistory, PushTrimmed, StoreTypes
  <2>3. QueueTypes'
    <3>1. pushing' \in [Thread -> Event \cup {0}]
      BY <1>2, <2>1 DEF PushToHistory, QueueTypes
    <3>2. hasPipe' \in [Thread -> BOOLEAN]
      BY <1>2 DEF PushToHistory, QueueTypes
    <3>3. writeQueue' = writeQueue
      BY <1>2 DEF PushToHistory
    <3> QED BY <3>1, <3>2, <3>3, PushFrame DEF QueueTypes
  <2>4. RecordTypes'
    <3>1. sender' \in [Event -> Thread] /\ audience' \in [Event -> 0 .. MaxSessions]
      BY <1>2, <2>1 DEF PushToHistory, RecordTypes
    <3> QED BY <2>1, <3>1, PushFrame DEF RecordTypes
  <2> QED BY <1>1, <2>2, <2>3, <2>4
<1>3. CASE PushToQueue(t)
  <2>1. UNCHANGED <<buffer, maxSize, pushed, sender, audience>>
    BY <1>3 DEF PushToQueue, store, record
  <2>2. StoreTypes' /\ RecordTypes'
    BY <2>1, PushFrame DEF StoreTypes, RecordTypes
  <2>3. pushing[t] \in Event
    BY <1>3 DEF PushToQueue, QueueTypes
  <2>4. writeQueue' \in Seq(Event)
    BY <1>3, <2>3 DEF PushToQueue, QueueTypes
  <2>5. pushing' \in [Thread -> Event \cup {0}]
    BY <1>3 DEF PushToQueue, QueueTypes
  <2>6. hasPipe' \in [Thread -> BOOLEAN]
    BY <1>3 DEF PushToQueue, QueueTypes
  <2>7. QueueTypes'
    BY <2>4, <2>5, <2>6, PushFrame DEF QueueTypes
  <2> QED BY <1>1, <2>2, <2>7
<1> QED BY <1>2, <1>3 DEF Push

LEMMA AcceptTypes == ASSUME PTypes, AcceptThread PROVE PTypes'
<1> USE DEF PTypes
<1>1. QueueTypes' /\ StoreTypes'
  BY AcceptFrame DEF QueueTypes, StoreTypes
<1>2. instance' \in {instance, NoInstance}
         \/ \E h \in Handle : instance' = [handle |-> h, client |-> "listening"]
  BY DEF AcceptThread, CreatePipe, ConnectPipe, ConnectFails, PublishPipe, AwaitDisconnect,
         RetirePipe, Close, pipe
<1>3. RecordTypes'
  <2>1. instance'.client \in {"present", "gone"} => instance.client \in {"present", "gone"}
    BY <1>2 DEF NoInstance
  <2> QED BY <2>1, AcceptFrame DEF RecordTypes
<1>4. PipeTypes'
  <2>1. instance' \in [handle : Handle \cup {INVALID},
                       client : {"closed", "listening", "present", "gone"}]
    BY <1>2 DEF PipeTypes, NoInstance
  <2>2. /\ sPipe' \in {sPipe, aPipe, INVALID}
        /\ aPc' \in {"create", "connect", "publish", "watch", "retire"}
        /\ aPipe' \in Handle \cup {aPipe}
    BY DEF AcceptThread, CreatePipe, ConnectPipe, ConnectFails, PublishPipe, AwaitDisconnect,
           RetirePipe, pipe, PipeTypes
  <2>3. disconn' \in {disconn, FALSE}
    BY DEF AcceptThread, CreatePipe, ConnectPipe, ConnectFails, PublishPipe, AwaitDisconnect,
           RetirePipe
  <2> QED BY <2>1, <2>2, <2>3, AcceptFrame DEF PipeTypes
<1> QED BY <1>1, <1>3, <1>4

LEMMA WriteTypes == ASSUME PTypes, WriteThread PROVE PTypes'
<1> USE DEF PTypes
<1>1. instance' \in {instance, NoInstance} /\ disconn' \in {disconn, TRUE}
  BY DEF WriteThread, PopMessage, ReadPipe, WriteSucceeds, WriteFails, SignalFailure,
         DropPipe, Close, pipe
<1>2. StoreTypes'
  BY WriteFrame DEF StoreTypes
<1>3. PipeTypes'
  <2>1. /\ sPipe' \in {sPipe, INVALID} /\ wPipe' \in {wPipe, sPipe}
        /\ wPc' \in {"pop", "read", "write", "failed", "drop"}
    BY DEF WriteThread, PopMessage, ReadPipe, WriteSucceeds, WriteFails, SignalFailure,
           DropPipe
  <2>3. mistaken' \in BOOLEAN
    BY DEF WriteThread, PopMessage, ReadPipe, WriteSucceeds, WriteFails, SignalFailure,
           DropPipe, pipe, PipeTypes
  <2>2. instance' \in [handle : Handle \cup {INVALID},
                       client : {"closed", "listening", "present", "gone"}]
    BY <1>1 DEF PipeTypes, NoInstance
  <2> QED BY <1>1, <2>1, <2>2, <2>3, WriteFrame DEF PipeTypes
<1>4. QueueTypes'
  <2>1. CASE PopMessage
    <3>1. Head(writeQueue) \in Event /\ Tail(writeQueue) \in Seq(Event)
      BY <2>1 DEF PopMessage, QueueTypes
    <3> QED BY <2>1, <3>1, WriteFrame DEF PopMessage, QueueTypes
  <2>2. CASE ~PopMessage
    <3>1. writeQueue' = writeQueue /\ wMsg' = wMsg /\ wPc # "pop"
      BY <2>2 DEF WriteThread, ReadPipe, WriteSucceeds, WriteFails, SignalFailure, DropPipe
    <3> QED BY <3>1, WriteFrame DEF QueueTypes
  <2> QED BY <2>1, <2>2
<1>5. RecordTypes'
  <2>1. instance'.client \in {"present", "gone"} => instance.client \in {"present", "gone"}
    BY <1>1 DEF NoInstance
  <2>2. wire' \in Seq((1 .. MaxSessions) \X Event)
    <3>1. CASE WriteSucceeds
      <4>1. session \in 1 .. MaxSessions /\ wMsg \in Event
        BY <3>1 DEF WriteSucceeds, Reachable, RecordTypes, QueueTypes
      <4> QED BY <3>1, <4>1 DEF WriteSucceeds, RecordTypes
    <3>2. CASE ~WriteSucceeds
      <4>1. wire' = wire
        BY <3>2 DEF WriteThread, PopMessage, ReadPipe, WriteFails, SignalFailure, DropPipe
      <4> QED BY <4>1 DEF RecordTypes
    <3> QED BY <3>1, <3>2
  <2>3. wSession' \in {wSession, session}
    BY DEF WriteThread, PopMessage, ReadPipe, WriteSucceeds, WriteFails, SignalFailure, DropPipe
  <2> QED BY <2>1, <2>2, <2>3, WriteFrame DEF RecordTypes
<1> QED BY <1>2, <1>3, <1>4, <1>5

LEMMA ClientTypes == ASSUME PTypes, ClientOpens \/ ClientLeaves PROVE PTypes'
<1> USE DEF PTypes
<1>1. QueueTypes' /\ StoreTypes'
  BY ClientFrame DEF QueueTypes, StoreTypes
<1>2. /\ instance' \in [handle : Handle \cup {INVALID},
                        client : {"closed", "listening", "present", "gone"}]
      /\ instance'.client \in {"present", "gone"}
  BY DEF ClientOpens, ClientLeaves, PipeTypes
<1>3. PipeTypes'
  BY <1>2, ClientFrame DEF PipeTypes
<1>4. session' \in 1 .. MaxSessions
  BY DEF ClientOpens, ClientLeaves, RecordTypes, pipe
<1>5. RecordTypes'
  BY <1>2, <1>4, ClientFrame DEF RecordTypes
<1> QED BY <1>1, <1>3, <1>5

LEMMA StutterTypes == ASSUME PTypes, UNCHANGED vars PROVE PTypes'
BY Stutter DEF PTypes, PipeTypes, QueueTypes, StoreTypes, RecordTypes

LEMMA StepTypes == PTypes /\ [Next]_vars => PTypes'
BY PushTypes, AcceptTypes, WriteTypes, ClientTypes, StutterTypes DEF Next

(* Type correctness of the event pipe, for any number of events, sessions  *)
(* and handle values.                                                      *)
THEOREM EventTypeCorrect == Spec => []TypeOK
BY InitTypes, StepTypes, TypesSuffice, PTL DEF Spec

-----------------------------------------------------------------------------
(* Who may close the pipe.  A handle value may be returned again: which    *)
(* instance the write thread failed on is told by the session it wrote to. *)

\* What the accept thread is at tells what the pipe is.  Once the write thread
\* has closed the wrong pipe, nobody serves any more.
Accepting ==
    /\ instance.client = "closed" => instance.handle = INVALID
    /\ instance.handle = INVALID => instance.client = "closed"
    /\ aPc # "create" => aPipe \in Handle
    /\ aPc = "create" => instance.handle = INVALID /\ sPipe = INVALID
    /\ aPc \in {"connect", "publish"} => instance.handle = aPipe /\ sPipe = INVALID
    /\ aPc \in {"watch", "retire"} =>
         \/ sPipe = aPipe /\ instance.handle = aPipe
         \/ sPipe = INVALID /\ instance.handle = INVALID /\ (disconn \/ mistaken)
    /\ aPc = "retire" => disconn
    /\ aPc = "publish" => instance.client # "listening" /\ ~disconn
    /\ aPc \in {"watch", "retire"} => instance.client # "listening"
    /\ mistaken => aPc = "watch" /\ sPipe = INVALID /\ ~disconn

\* The write thread holds a pipe it has seen published.  While it writes, that
\* pipe is published and nobody has given it up; once it has failed, its client
\* has left, and a client that is there came later.
Writing ==
    /\ wPc \in {"write", "failed", "drop"} =>
         wPipe \in Handle /\ 1 <= wSession /\ wSession <= session
    /\ wPc \in {"write", "failed"} =>
         aPc = "watch" /\ sPipe = wPipe /\ ~disconn /\ wSession = session
    /\ wPc = "failed" => instance.client = "gone"
    /\ wPc = "drop" /\ sPipe # INVALID /\ wSession = session =>
         sPipe = wPipe /\ instance.client = "gone" /\ disconn
    /\ wPc = "drop" /\ aPc \in {"connect", "publish"}
         /\ instance.client \in {"present", "gone"} => wSession < session
    /\ disconn /\ sPipe # INVALID => wPc = "drop" /\ sPipe = wPipe /\ wSession = session

ClosingInv == PTypes /\ Accepting /\ Writing

\* Only the write thread closes a pipe under a client, and only by mistake.
Kept ==
    instance.client = "present" /\ instance'.client = "closed"
      => wPc = "drop" /\ wSession < session /\ wPipe = instance.handle

LEMMA NoInstanceIs ==
    ASSUME PipeTypes
    PROVE  /\ NoInstance.handle = INVALID /\ NoInstance.client = "closed"
           /\ instance.handle = INVALID /\ instance.client = "closed" => instance = NoInstance
BY DEF PipeTypes, NoInstance

LEMMA InitClosing == Init => ClosingInv
<1> SUFFICES ASSUME Init PROVE ClosingInv
  OBVIOUS
<1>1. PTypes
  BY InitTypes
<1>2. Accepting /\ Writing
  BY DEF Init, Accepting, Writing, NoInstance
<1> QED BY <1>1, <1>2 DEF ClosingInv

LEMMA AcceptClosing ==
    ASSUME ClosingInv, AcceptThread
    PROVE  Accepting' /\ Writing' /\ Kept
<1>1. PipeTypes /\ Accepting /\ Writing
  BY DEF ClosingInv, PTypes
<1>w. UNCHANGED <<wPc, wPipe, wSession, session, mistaken>>
        /\ session \in Nat /\ wSession \in Nat
  BY AcceptFrame DEF ClosingInv, PTypes, RecordTypes
<1> USE <1>1, <1>w
<1>2. CASE CreatePipe
  <2>1. PICK h \in Handle : aPipe' = h /\ instance' = [handle |-> h, client |-> "listening"]
    BY <1>2 DEF CreatePipe
  <2>2. instance'.handle = h /\ instance'.client = "listening" /\ h # INVALID
    BY <2>1
  <2>3. /\ aPc = "create" /\ aPc' = "connect" /\ instance.client = "closed"
        /\ UNCHANGED <<sPipe, disconn>>
    BY <1>2, NoInstanceIs DEF CreatePipe
  <2>4. Accepting'
    BY <2>1, <2>2, <2>3 DEF Accepting
  <2>5. Writing'
    BY <2>1, <2>2, <2>3 DEF Writing, Accepting
  <2> QED BY <2>2, <2>4, <2>5 DEF Kept
<1>3. CASE ConnectPipe
  <2>1. /\ aPc = "connect" /\ aPc' = "publish" /\ ~disconn'
        /\ instance.client \in {"present", "gone"}
        /\ UNCHANGED <<sPipe, aPipe, instance>>
    BY <1>3 DEF ConnectPipe, pipe
  <2>2. Accepting'
    BY <2>1 DEF Accepting
  <2>3. Writing'
    BY <2>1 DEF Writing, Accepting
  <2> QED BY <2>1, <2>2, <2>3 DEF Kept
<1>4. CASE ConnectFails
  <2>1. /\ aPc = "connect" /\ aPc' = "create" /\ instance.client = "gone"
        /\ instance'.handle = INVALID /\ instance'.client = "closed"
        /\ UNCHANGED <<sPipe, disconn, aPipe>>
    BY <1>4, NoInstanceIs DEF ConnectFails
  <2>2. Accepting'
    BY <2>1 DEF Accepting
  <2>3. Writing'
    BY <2>1 DEF Writing, Accepting
  <2> QED BY <2>1, <2>2, <2>3 DEF Kept
<1>5. CASE PublishPipe
  <2>1. /\ aPc = "publish" /\ aPc' = "watch" /\ sPipe = INVALID
        /\ sPipe' = aPipe
        /\ UNCHANGED <<instance, disconn, aPipe>>
    BY <1>5 DEF PublishPipe, Accepting
  <2>2. instance.client \in {"present", "gone"}
    BY <2>1 DEF Accepting, PipeTypes
  <2>3. Accepting'
    BY <2>1 DEF Accepting
  <2>4. Writing'
    BY <2>1, <2>2 DEF Writing, Accepting
  <2> QED BY <2>1, <2>3, <2>4 DEF Kept
<1>6. CASE AwaitDisconnect
  <2>1. /\ aPc = "watch" /\ aPc' = "retire" /\ disconn
        /\ UNCHANGED <<sPipe, disconn, aPipe, instance>>
    BY <1>6 DEF AwaitDisconnect, pipe
  <2>2. Accepting'
    BY <2>1 DEF Accepting
  <2>3. Writing'
    BY <2>1 DEF Writing, Accepting
  <2> QED BY <2>1, <2>2, <2>3 DEF Kept
<1>7. CASE RetirePipe
  <2>1. /\ aPc = "retire" /\ aPc' = "create" /\ disconn
        /\ UNCHANGED <<disconn, aPipe>>
    BY <1>7 DEF RetirePipe, Accepting
  <2>2. /\ sPipe' = INVALID /\ instance'.handle = INVALID /\ instance'.client = "closed"
        /\ instance.client # "present"
    <3>1. CASE sPipe = aPipe
      BY <1>7, <2>1, <3>1, NoInstanceIs DEF RetirePipe, Close, Accepting, Writing
    <3>2. CASE sPipe # aPipe
      BY <1>7, <2>1, <3>2 DEF RetirePipe, Accepting
    <3> QED BY <3>1, <3>2
  <2>3. Accepting'
    BY <2>1, <2>2 DEF Accepting
  <2>4. Writing'
    BY <2>1, <2>2 DEF Writing, Accepting
  <2> QED BY <2>2, <2>3, <2>4 DEF Kept
<1> QED BY <1>2, <1>3, <1>4, <1>5, <1>6, <1>7 DEF AcceptThread

LEMMA WriteClosing ==
    ASSUME ClosingInv, WriteThread
    PROVE  Accepting' /\ Writing' /\ Kept
<1>1. PipeTypes /\ Accepting /\ Writing /\ session \in Nat /\ wSession \in Nat
        /\ (instance.client \in {"present", "gone"} => 1 <= session)
  BY DEF ClosingInv, PTypes, RecordTypes
<1> USE <1>1
<1>2. UNCHANGED <<aPc, aPipe, session>>
  BY WriteFrame
<1>3. CASE PopMessage \/ WriteSucceeds
  <2>1. wPc' \in {"pop", "read"} /\ wPc \in {"pop", "write"}
        /\ UNCHANGED <<sPipe, disconn, wPipe, wSession, mistaken, instance>>
    BY <1>3 DEF PopMessage, WriteSucceeds, pipe
  <2>2. Accepting' /\ Writing'
    BY <1>2, <2>1 DEF Accepting, Writing
  <2> QED BY <2>1, <2>2 DEF Kept
<1>4. CASE ReadPipe
  <2>1. /\ wPc = "read" /\ wPc' = IF sPipe = INVALID THEN "pop" ELSE "write"
        /\ wPipe' = sPipe /\ wSession' = session
        /\ UNCHANGED <<sPipe, disconn, mistaken, instance>>
    BY <1>4 DEF ReadPipe, pipe
  <2>2. sPipe # INVALID => instance.client \in {"present", "gone"}
    BY DEF Accepting, PipeTypes
  <2>3. Accepting' /\ Writing'
    BY <1>2, <2>1, <2>2 DEF Accepting, Writing, PipeTypes
  <2> QED BY <2>1, <2>3 DEF Kept
<1>5. CASE WriteFails
  <2>1. /\ wPc = "write" /\ wPc' = "failed" /\ ~Reachable(wPipe)
        /\ UNCHANGED <<sPipe, disconn, wPipe, wSession, mistaken, instance>>
    BY <1>5 DEF WriteFails, pipe
  <2>2. instance.client = "gone"
    BY <2>1 DEF Reachable, Accepting, Writing, PipeTypes
  <2>3. Accepting' /\ Writing'
    BY <1>2, <2>1, <2>2 DEF Accepting, Writing
  <2> QED BY <2>1, <2>3 DEF Kept
<1>6. CASE SignalFailure
  <2>1. /\ wPc = "failed" /\ wPc' = "drop" /\ disconn' = TRUE
        /\ UNCHANGED <<sPipe, wPipe, wSession, mistaken, instance>>
    BY <1>6 DEF SignalFailure, pipe
  <2>2. Accepting' /\ Writing'
    BY <1>2, <2>1 DEF Accepting, Writing
  <2> QED BY <2>1, <2>2 DEF Kept
<1>7. CASE DropPipe
  <2>1. wPc = "drop" /\ wPc' = "pop" /\ UNCHANGED <<disconn, wPipe, wSession>>
    BY <1>7 DEF DropPipe
  <2>2. CASE sPipe = wPipe
    <3>1. /\ sPipe' = INVALID /\ aPc \in {"watch", "retire"} /\ sPipe = aPipe
          /\ sPipe # INVALID /\ wPipe = instance.handle /\ ~mistaken
          /\ instance' = Close(sPipe) /\ mistaken' = (session # wSession)
      BY <1>7, <2>1, <2>2 DEF DropPipe, Accepting, Writing, PipeTypes
    <3>2. instance'.handle = INVALID /\ instance'.client = "closed"
      BY <2>2, <3>1, NoInstanceIs DEF Close
    <3>3. mistaken' => ~disconn /\ aPc = "watch"
      BY <3>1 DEF Writing, Accepting
    <3>4. ~mistaken' => disconn
      BY <2>1, <3>1 DEF Writing, Accepting
    <3>5. Accepting' /\ Writing'
      BY <1>2, <2>1, <3>1, <3>2, <3>3, <3>4 DEF Accepting, Writing
    <3>6. Kept
      BY <2>1, <3>1 DEF Kept, Writing
    <3> QED BY <3>5, <3>6
  <2>3. CASE sPipe # wPipe
    <3>1. UNCHANGED <<sPipe, instance, mistaken>>
      BY <1>7, <2>3 DEF DropPipe
    <3>2. Accepting' /\ Writing'
      BY <1>2, <2>1, <2>3, <3>1 DEF Accepting, Writing
    <3> QED BY <3>1, <3>2 DEF Kept
  <2> QED BY <2>2, <2>3
<1> QED BY <1>3, <1>4, <1>5, <1>6, <1>7 DEF WriteThread

LEMMA ClientClosing ==
    ASSUME ClosingInv, ClientOpens \/ ClientLeaves
    PROVE  Accepting' /\ Writing' /\ Kept
<1>1. PipeTypes /\ Accepting /\ Writing /\ session \in Nat /\ wSession \in Nat
  BY DEF ClosingInv, PTypes, RecordTypes
<1>2. /\ instance'.handle = instance.handle
      /\ \/ instance.client = "listening" /\ instance'.client = "present"
              /\ session' = session + 1
         \/ instance.client = "present" /\ instance'.client = "gone" /\ session' = session
  BY <1>1 DEF ClientOpens, ClientLeaves, PipeTypes
<1>3. UNCHANGED <<sPipe, disconn, aPc, aPipe, wPc, wPipe, wSession, mistaken>>
  BY ClientFrame
<1>4. Accepting'
  BY <1>1, <1>2, <1>3 DEF Accepting
<1>5. Writing'
  BY <1>1, <1>2, <1>3 DEF Accepting, Writing, PipeTypes
<1> QED BY <1>2, <1>4, <1>5 DEF Kept

LEMMA SameClosing ==
    ASSUME ClosingInv,
           UNCHANGED <<sPipe, disconn, aPc, aPipe, wPc, wPipe, wSession, instance, session,
                       mistaken>>
    PROVE  Accepting' /\ Writing' /\ Kept
BY DEF ClosingInv, Accepting, Writing, Kept

LEMMA StepClosing ==
    ASSUME ClosingInv, [Next]_vars
    PROVE  ClosingInv' /\ Kept
<1>1. PTypes'
  BY StepTypes DEF ClosingInv
<1>2. CASE UNCHANGED vars \/ \E t \in Thread : Push(t)
  <2>1. UNCHANGED <<sPipe, disconn, aPc, aPipe, wPc, wPipe, wSession, instance, session,
                    mistaken>>
    BY <1>2, PushFrame, Stutter
  <2> QED BY <1>1, <2>1, SameClosing DEF ClosingInv
<1>3. CASE AcceptThread
  BY <1>1, <1>3, AcceptClosing DEF ClosingInv
<1>4. CASE WriteThread
  BY <1>1, <1>4, WriteClosing DEF ClosingInv
<1>5. CASE ClientOpens \/ ClientLeaves
  BY <1>1, <1>5, ClientClosing DEF ClosingInv
<1> QED BY <1>2, <1>3, <1>4, <1>5 DEF Next

(* The accept and the write thread never leave a pipe instance behind,     *)
(* though handle values may be returned again.                             *)
THEOREM NoInstanceStays == Spec => []NoInstanceLeft
<1>1. ClosingInv /\ [Next]_vars => ClosingInv'
  BY StepClosing
<1>2. ClosingInv => NoInstanceLeft
  BY NoInstanceIs DEF ClosingInv, PTypes, Accepting, NoInstanceLeft
<1> QED BY <1>1, <1>2, InitClosing, PTL DEF Spec

(* The accept thread waits for a pipe nobody will tell it about only after *)
(* the write thread has taken a new pipe for the one it failed on.         *)
THEOREM AcceptorIsWoken == Spec => []AcceptorWakes
<1>1. ClosingInv /\ [Next]_vars => ClosingInv'
  BY StepClosing
<1>2. ClosingInv => AcceptorWakes
  BY DEF ClosingInv, Accepting, AcceptorWakes
<1> QED BY <1>1, <1>2, InitClosing, PTL DEF Spec

(* The pipe is closed under a client only by a write thread that takes it  *)
(* for the pipe of an earlier client, to whom a write has failed.          *)
THEOREM ClientIsKept == Spec => ClientKept
<1>1. ClosingInv /\ [Next]_vars => ClosingInv'
  BY StepClosing
<1>2. ClosingInv /\ [Next]_vars
        => [instance.client = "present" /\ instance'.client = "closed"
              => wPc = "drop" /\ wSession < session /\ wPipe = instance.handle]_vars
  BY StepClosing DEF Kept
<1> QED BY <1>1, <1>2, InitClosing, PTL DEF Spec, ClientKept

(* What that mistake costs: the accept thread waits for ever at            *)
(* EventPipe.cpp:101, on the event it has reset itself, and no pipe is     *)
(* published again.                                                        *)
THEOREM MistakeIsFinal ==
    Spec => [](mistaken => aPc = "watch" /\ ~disconn /\ sPipe = INVALID)
              /\ [][mistaken => mistaken']_vars
<1>1. ClosingInv /\ [Next]_vars => ClosingInv'
  BY StepClosing
<1>2. ClosingInv => (mistaken => aPc = "watch" /\ ~disconn /\ sPipe = INVALID)
  BY DEF ClosingInv, Accepting
<1>3. [Next]_vars => [mistaken => mistaken']_vars
  <2> SUFFICES ASSUME [Next]_vars, mistaken PROVE mistaken'
    BY DEF vars, pipe
  <2>1. CASE WriteThread
    BY <2>1 DEF WriteThread, PopMessage, ReadPipe, WriteSucceeds, WriteFails, SignalFailure,
                DropPipe, pipe
  <2> QED BY <2>1, PushFrame, AcceptFrame, ClientFrame, Stutter DEF Next
<1> QED BY <1>1, <1>2, <1>3, InitClosing, PTL DEF Spec

-----------------------------------------------------------------------------
(* The order on the wire.  Every event is pushing, then queued, then held  *)
(* by the write thread, then written; one that is further along comes      *)
(* before those behind it.                                                 *)

Before(a, b) == a # b /\ (sender[a] = sender[b] => a < b)

AheadOfPushing(a) ==
    a <= pushed /\ \A t \in Thread : pushing[t] # 0 => Before(a, pushing[t])

AheadOfQueue(a) ==
    AheadOfPushing(a) /\ \A j \in DOMAIN writeQueue : Before(a, writeQueue[j])

Held == wPc \in {"read", "write"}

PushingInOrder ==
    \A t \in Thread : pushing[t] # 0 => pushing[t] <= pushed /\ sender[pushing[t]] = t

QueueInOrder ==
    /\ \A i \in DOMAIN writeQueue : AheadOfPushing(writeQueue[i])
    /\ \A i, j \in DOMAIN writeQueue : i < j => Before(writeQueue[i], writeQueue[j])

HeldInOrder == Held => AheadOfQueue(wMsg)

WireInOrder ==
    \A i \in DOMAIN wire :
        /\ AheadOfQueue(wire[i][2]) /\ wire[i][1] <= session
        /\ Held => Before(wire[i][2], wMsg)

Pipeline == PushingInOrder /\ QueueInOrder /\ HeldInOrder /\ WireInOrder /\ WireOrder

LEMMA InitPipeline == Init => Pipeline
BY DEF Init, Pipeline, PushingInOrder, QueueInOrder, HeldInOrder, WireInOrder, WireOrder, Held

LEMMA SeqRange ==
    /\ \A i \in DOMAIN writeQueue : PTypes => writeQueue[i] \in Event
    /\ \A i \in DOMAIN wire : PTypes => wire[i][1] \in 1 .. MaxSessions /\ wire[i][2] \in Event
    /\ PTypes /\ Held => wMsg \in Event
    /\ \A t \in Thread : PTypes => pushing[t] \in Event \cup {0}
BY DEF PTypes, QueueTypes, RecordTypes, Held

LEMMA HistoryPipeline ==
    ASSUME PTypes, Pipeline, NEW t \in Thread, PushToHistory(t)
    PROVE  Pipeline'
<1>1. /\ UNCHANGED <<writeQueue, wire, wPc, wMsg, session>>
      /\ pushed \in Nat /\ pushed' = pushed + 1 /\ pushed' \in Event /\ pushed' # 0
  BY NextEvent DEF PushToHistory, writer, pipe, PTypes, RecordTypes
<1>2. /\ pushing \in [Thread -> Event \cup {0}] /\ pushing[t] = 0
      /\ pushing' = [pushing EXCEPT ![t] = pushed']
      /\ sender \in [Event -> Thread] /\ sender' = [sender EXCEPT ![pushed'] = t]
  BY DEF PushToHistory, PTypes, QueueTypes, RecordTypes
<1>3. \A a, b \in Event : a <= pushed /\ b <= pushed /\ Before(a, b) => Before(a, b)'
  BY <1>1, <1>2 DEF Before, Event
<1>4. \A a \in Event : AheadOfPushing(a) => AheadOfPushing(a)'
  <2> SUFFICES ASSUME NEW a \in Event, AheadOfPushing(a) PROVE AheadOfPushing(a)'
    OBVIOUS
  <2>1. a <= pushed' /\ a < pushed' /\ a # pushed'
    BY <1>1 DEF AheadOfPushing, Event
  <2>2. ASSUME NEW u \in Thread, pushing'[u] # 0 PROVE Before(a, pushing[u])'
    <3>1. CASE u = t
      <4>1. pushing'[u] = pushed'
        BY <1>2, <3>1
      <4> QED BY <2>1, <4>1 DEF Before
    <3>2. CASE u # t
      <4>1. pushing'[u] = pushing[u] /\ pushing[u] \in Event /\ pushing[u] <= pushed
            /\ Before(a, pushing[u])
        BY <1>2, <2>2, <3>2 DEF Pipeline, PushingInOrder, AheadOfPushing
      <4>2. sender'[a] = sender[a] /\ sender'[pushing[u]] = sender[pushing[u]]
        BY <1>1, <1>2, <2>1, <4>1 DEF Event
      <4> QED BY <4>1, <4>2 DEF Before
    <3> QED BY <3>1, <3>2
  <2> QED BY <2>1, <2>2 DEF AheadOfPushing
<1>5. \A a \in Event : AheadOfQueue(a) => AheadOfQueue(a)'
  <2> SUFFICES ASSUME NEW a \in Event, AheadOfQueue(a) PROVE AheadOfQueue(a)'
    OBVIOUS
  <2>1. AheadOfPushing(a)' /\ a <= pushed
    BY <1>4 DEF AheadOfQueue, AheadOfPushing
  <2>2. \A j \in DOMAIN writeQueue : Before(a, writeQueue[j])'
    <3> SUFFICES ASSUME NEW j \in DOMAIN writeQueue PROVE Before(a, writeQueue[j])'
      OBVIOUS
    <3>1. writeQueue[j] \in Event /\ writeQueue[j] <= pushed /\ Before(a, writeQueue[j])
      BY SeqRange DEF Pipeline, QueueInOrder, AheadOfPushing, AheadOfQueue
    <3>2. sender'[a] = sender[a] /\ sender'[writeQueue[j]] = sender[writeQueue[j]]
      BY <1>1, <1>2, <2>1, <3>1 DEF Event
    <3> QED BY <1>1, <3>1, <3>2 DEF Before
  <2> QED BY <1>1, <2>1, <2>2 DEF AheadOfQueue
<1>6. PushingInOrder'
  <2> SUFFICES ASSUME NEW u \in Thread, pushing'[u] # 0
               PROVE  pushing'[u] <= pushed' /\ sender'[pushing'[u]] = u
    BY DEF PushingInOrder
  <2>1. CASE u = t
    <3>1. pushing'[u] = pushed'
      BY <1>2, <2>1
    <3>2. sender'[pushed'] = t /\ pushed' <= pushed'
      BY <1>1, <1>2
    <3> QED BY <2>1, <3>1, <3>2
  <2>2. CASE u # t
    <3>1. pushing'[u] = pushing[u] /\ pushing[u] \in Event /\ pushing[u] # 0
      BY <1>2, <2>2
    <3>2. pushing[u] <= pushed /\ sender[pushing[u]] = u
      BY <3>1 DEF Pipeline, PushingInOrder
    <3>3. sender'[pushing[u]] = u /\ pushing[u] <= pushed'
      BY <1>1, <1>2, <3>1, <3>2 DEF Event
    <3> QED BY <3>1, <3>3
  <2> QED BY <2>1, <2>2
<1>7. QueueInOrder'
  <2>1. \A i \in DOMAIN writeQueue : AheadOfPushing(writeQueue[i])'
    BY <1>1, <1>4, SeqRange DEF Pipeline, QueueInOrder, AheadOfPushing, Before
  <2>2. \A i, j \in DOMAIN writeQueue : i < j => Before(writeQueue[i], writeQueue[j])'
    BY <1>1, <1>3, SeqRange DEF Pipeline, QueueInOrder, AheadOfPushing, Before
  <2> QED BY <1>1, <2>1, <2>2 DEF QueueInOrder
<1>8. HeldInOrder'
  BY <1>1, <1>5, SeqRange DEF Pipeline, HeldInOrder, Held, AheadOfQueue, AheadOfPushing, Before
<1>9. WireInOrder' /\ WireOrder'
  <2> SUFFICES ASSUME NEW i \in DOMAIN wire
               PROVE  /\ AheadOfQueue(wire[i][2])' /\ wire[i][1] <= session
                      /\ Held => Before(wire[i][2], wMsg)'
                      /\ \A j \in DOMAIN wire : i < j =>
                           /\ wire[i][2] # wire[j][2] /\ wire[i][1] <= wire[j][1]
                           /\ sender'[wire[i][2]] = sender'[wire[j][2]] => wire[i][2] < wire[j][2]
    BY <1>1 DEF WireInOrder, WireOrder, Held, Before
  <2>1. wire[i][2] \in Event /\ AheadOfQueue(wire[i][2]) /\ wire[i][1] <= session
        /\ wire[i][2] <= pushed
    BY SeqRange DEF Pipeline, WireInOrder, AheadOfQueue, AheadOfPushing
  <2>2. AheadOfQueue(wire[i][2])'
    BY <1>1, <1>5, <2>1 DEF AheadOfQueue, AheadOfPushing, Before
  <2>3. Held => Before(wire[i][2], wMsg)'
    BY <1>1, <1>3, <2>1, SeqRange
       DEF Pipeline, WireInOrder, HeldInOrder, AheadOfQueue, AheadOfPushing, Before
  <2>4. ASSUME NEW j \in DOMAIN wire, i < j
        PROVE  /\ wire[i][2] # wire[j][2] /\ wire[i][1] <= wire[j][1]
               /\ sender'[wire[i][2]] = sender'[wire[j][2]] => wire[i][2] < wire[j][2]
    <3>1. wire[j][2] \in Event /\ wire[j][2] <= pushed
      BY SeqRange DEF Pipeline, WireInOrder, AheadOfQueue, AheadOfPushing
    <3>2. sender'[wire[i][2]] = sender[wire[i][2]] /\ sender'[wire[j][2]] = sender[wire[j][2]]
      BY <1>1, <1>2, <2>1, <3>1 DEF Event
    <3> QED BY <2>4, <3>2 DEF Pipeline, WireOrder
  <2> QED BY <2>1, <2>2, <2>3, <2>4
<1> QED BY <1>6, <1>7, <1>8, <1>9 DEF Pipeline

LEMMA QueuePipeline ==
    ASSUME PTypes, Pipeline, NEW t \in Thread, PushToQueue(t)
    PROVE  Pipeline'
<1>1. /\ UNCHANGED <<wire, wPc, wMsg, session, pushed, sender>>
      /\ pushing \in [Thread -> Event \cup {0}] /\ pushing[t] \in Event /\ pushing[t] # 0
      /\ pushing' = [pushing EXCEPT ![t] = 0]
  BY DEF PushToQueue, writer, pipe, record, PTypes, QueueTypes
<1>2. \A u \in Thread : pushing'[u] # 0 => u # t /\ pushing'[u] = pushing[u]
  BY <1>1
<1>3. \A a, b \in Event : Before(a, b) <=> Before(a, b)'
  BY <1>1 DEF Before
<1>4. \A a \in Event : AheadOfPushing(a) => AheadOfPushing(a)'
  BY <1>1, <1>2 DEF AheadOfPushing, Before
<1>5. \/ writeQueue' = writeQueue
      \/ /\ writeQueue \in Seq(Event) /\ Len(writeQueue) \in Nat
         /\ DOMAIN writeQueue = 1 .. Len(writeQueue)
         /\ DOMAIN writeQueue' = DOMAIN writeQueue \cup {Len(writeQueue) + 1}
         /\ \A i \in DOMAIN writeQueue : writeQueue'[i] = writeQueue[i]
         /\ writeQueue'[Len(writeQueue) + 1] = pushing[t]
  BY <1>1 DEF PushToQueue, PTypes, QueueTypes
<1>6. \A j \in DOMAIN writeQueue' :
        \/ j \in DOMAIN writeQueue /\ writeQueue'[j] = writeQueue[j]
        \/ writeQueue'[j] = pushing[t] /\ j \notin DOMAIN writeQueue
             /\ \A i \in DOMAIN writeQueue' : i <= j
  BY <1>5
<1>7. \A a \in Event : AheadOfQueue(a) => AheadOfQueue(a)'
  BY <1>1, <1>4, <1>6 DEF AheadOfQueue, AheadOfPushing, Before
<1>8. PushingInOrder'
  BY <1>1, <1>2 DEF Pipeline, PushingInOrder
<1>9. QueueInOrder'
  <2>1. \A i \in DOMAIN writeQueue' : AheadOfPushing(writeQueue[i])'
    <3> SUFFICES ASSUME NEW i \in DOMAIN writeQueue' PROVE AheadOfPushing(writeQueue[i])'
      OBVIOUS
    <3>1. CASE i \in DOMAIN writeQueue /\ writeQueue'[i] = writeQueue[i]
      BY <1>4, <3>1, SeqRange DEF Pipeline, QueueInOrder, AheadOfPushing, Before
    <3>2. CASE writeQueue'[i] = pushing[t]
      <4>1. pushing[t] <= pushed'
            /\ \A u \in Thread : pushing'[u] # 0 => pushing[t] # pushing'[u]
                 /\ (sender'[pushing[t]] = sender'[pushing'[u]] => pushing[t] < pushing'[u])
        BY <1>1, <1>2 DEF Pipeline, PushingInOrder
      <4> QED BY <3>2, <4>1 DEF AheadOfPushing, Before
    <3> QED BY <1>6, <3>1, <3>2
  <2>2. ASSUME NEW i \in DOMAIN writeQueue', NEW j \in DOMAIN writeQueue', i < j
        PROVE  Before(writeQueue[i], writeQueue[j])'
    <3>1. i \in DOMAIN writeQueue /\ writeQueue'[i] = writeQueue[i]
      BY <1>5, <1>6, <2>2
    <3>2. CASE j \in DOMAIN writeQueue /\ writeQueue'[j] = writeQueue[j]
      BY <1>1, <2>2, <3>1, <3>2 DEF Pipeline, QueueInOrder, Before
    <3>3. CASE writeQueue'[j] = pushing[t]
      BY <1>1, <3>1, <3>3 DEF Pipeline, QueueInOrder, AheadOfPushing, Before
    <3> QED BY <1>6, <3>2, <3>3
  <2> QED BY <2>1, <2>2 DEF QueueInOrder
<1>10. HeldInOrder'
  BY <1>1, <1>7, SeqRange DEF Pipeline, HeldInOrder, Held, AheadOfQueue, AheadOfPushing, Before
<1>11. WireInOrder'
  BY <1>1, <1>7, SeqRange DEF Pipeline, WireInOrder, Held, AheadOfQueue, AheadOfPushing, Before
<1>12. WireOrder'
  BY <1>1 DEF Pipeline, WireOrder
<1> QED BY <1>8, <1>9, <1>10, <1>11, <1>12 DEF Pipeline

LEMMA WritePipeline == ASSUME PTypes, Pipeline, WriteThread PROVE Pipeline'
<1>1. UNCHANGED <<pushing, session, pushed, sender>>
  BY WriteFrame
<1>2. PushingInOrder' /\ \A a : AheadOfPushing(a) <=> AheadOfPushing(a)'
  BY <1>1 DEF Pipeline, PushingInOrder, AheadOfPushing, Before
<1> USE <1>1
<1>3. CASE PopMessage
  <2> DEFINE t == Tail(writeQueue)
  <2>1. /\ wPc = "pop" /\ wPc' = "read" /\ wire' = wire
        /\ writeQueue # <<>> /\ wMsg' = Head(writeQueue) /\ writeQueue' = t
    BY <1>3 DEF PopMessage
  <2>2. /\ writeQueue \in Seq(Event) /\ Len(writeQueue) \in Nat \ {0}
        /\ DOMAIN writeQueue = 1 .. Len(writeQueue) /\ DOMAIN t = 1 .. Len(writeQueue) - 1
        /\ Head(writeQueue) = writeQueue[1] /\ 1 \in DOMAIN writeQueue
        /\ \A i \in DOMAIN t : t[i] = writeQueue[i + 1]
    BY <2>1 DEF PTypes, QueueTypes
  <2> HIDE DEF t
  <2>3. \A i \in DOMAIN t : i + 1 \in DOMAIN writeQueue /\ t[i] = writeQueue[i + 1] /\ 1 < i + 1
    BY <2>2
  <2>4. QueueInOrder'
    BY <2>1, <2>2, <2>3 DEF Pipeline, QueueInOrder, AheadOfPushing, Before
  <2>5. HeldInOrder'
    BY <2>1, <2>2, <2>3 DEF Pipeline, QueueInOrder, HeldInOrder, AheadOfQueue, AheadOfPushing,
                            Before
  <2>6. WireInOrder'
    BY <2>1, <2>2, <2>3 DEF Pipeline, WireInOrder, AheadOfQueue, AheadOfPushing, Before
  <2>7. WireOrder'
    BY <2>1 DEF Pipeline, WireOrder
  <2> QED BY <1>2, <2>4, <2>5, <2>6, <2>7 DEF Pipeline
<1>4. CASE WriteSucceeds
  <2>1. /\ wPc = "write" /\ wPc' = "pop" /\ writeQueue' = writeQueue
        /\ wire' = Append(wire, <<session, wMsg>>)
        /\ wire \in Seq((1 .. MaxSessions) \X Event)
        /\ session \in 1 .. MaxSessions /\ wMsg \in Event
    BY <1>4 DEF WriteSucceeds, Reachable, PTypes, RecordTypes, QueueTypes
  <2>2. /\ Len(wire) \in Nat /\ DOMAIN wire = 1 .. Len(wire)
        /\ DOMAIN wire' = DOMAIN wire \cup {Len(wire) + 1}
        /\ \A i \in DOMAIN wire : wire'[i] = wire[i]
        /\ wire'[Len(wire) + 1] = <<session, wMsg>>
    BY <2>1
  <2>3. AheadOfQueue(wMsg) /\ \A i \in DOMAIN wire : Before(wire[i][2], wMsg) /\ wire[i][1] <= session
    BY <2>1 DEF Pipeline, HeldInOrder, WireInOrder, Held
  <2>4. \A i \in DOMAIN wire' :
          \/ i \in DOMAIN wire /\ wire'[i] = wire[i]
          \/ i = Len(wire) + 1 /\ wire'[i][1] = session /\ wire'[i][2] = wMsg
    BY <2>2
  <2>5. QueueInOrder'
    BY <2>1 DEF Pipeline, QueueInOrder, AheadOfPushing, Before
  <2>6. HeldInOrder'
    BY <2>1 DEF HeldInOrder, Held
  <2>7. WireInOrder'
    <3>1. \A a : AheadOfQueue(a) => AheadOfQueue(a)'
      BY <2>1 DEF AheadOfQueue, AheadOfPushing, Before
    <3>2. ~Held'
      BY <2>1 DEF Held
    <3>3. \A i \in DOMAIN wire' : AheadOfQueue(wire[i][2])' /\ wire'[i][1] <= session'
      BY <2>1, <2>3, <2>4 DEF Pipeline, WireInOrder, AheadOfQueue, AheadOfPushing, Before
    <3> QED BY <3>2, <3>3 DEF WireInOrder
  <2>8. WireOrder'
    <3> SUFFICES ASSUME NEW i \in DOMAIN wire', NEW j \in DOMAIN wire', i < j
                 PROVE  /\ wire'[i][2] # wire'[j][2] /\ wire'[i][1] <= wire'[j][1]
                        /\ sender[wire'[i][2]] = sender[wire'[j][2]] => wire'[i][2] < wire'[j][2]
      BY DEF WireOrder
    <3>1. i \in DOMAIN wire /\ wire'[i] = wire[i]
      BY <2>2, <2>4
    <3>2. CASE j \in DOMAIN wire /\ wire'[j] = wire[j]
      BY <3>1, <3>2 DEF Pipeline, WireOrder
    <3>3. CASE wire'[j][1] = session /\ wire'[j][2] = wMsg
      BY <2>3, <3>1, <3>3 DEF Before
    <3> QED BY <2>4, <3>2, <3>3
  <2> QED BY <1>2, <2>5, <2>6, <2>7, <2>8 DEF Pipeline
<1>5. CASE ReadPipe \/ WriteFails \/ SignalFailure \/ DropPipe
  <2>1. UNCHANGED <<writeQueue, wire, wMsg>> /\ (Held' => Held)
    BY <1>5 DEF ReadPipe, WriteFails, SignalFailure, DropPipe, Held
  <2>2. QueueInOrder'
    BY <2>1 DEF Pipeline, QueueInOrder, AheadOfPushing, Before
  <2>3. HeldInOrder'
    BY <2>1 DEF Pipeline, HeldInOrder, AheadOfQueue, AheadOfPushing, Before
  <2>4. WireInOrder'
    BY <2>1 DEF Pipeline, WireInOrder, AheadOfQueue, AheadOfPushing, Before
  <2>5. WireOrder'
    BY <2>1 DEF Pipeline, WireOrder
  <2> QED BY <1>2, <2>2, <2>3, <2>4, <2>5 DEF Pipeline
<1> QED BY <1>3, <1>4, <1>5 DEF WriteThread

LEMMA SamePipeline ==
    ASSUME PTypes, Pipeline, session' \in {session, session + 1},
           UNCHANGED <<pushing, writeQueue, wPc, wMsg, wire, pushed, sender>>
    PROVE  Pipeline'
<1>1. session <= session' /\ \A i \in DOMAIN wire : wire[i][1] <= session => wire[i][1] <= session'
  BY SeqRange DEF PTypes, RecordTypes
<1>2. PushingInOrder' /\ QueueInOrder' /\ HeldInOrder'
  BY DEF Pipeline, PushingInOrder, QueueInOrder, HeldInOrder, Held, AheadOfQueue,
         AheadOfPushing, Before
<1>3. WireInOrder'
  BY <1>1 DEF Pipeline, WireInOrder, Held, AheadOfQueue, AheadOfPushing, Before
<1>4. WireOrder'
  BY DEF Pipeline, WireOrder
<1> QED BY <1>2, <1>3, <1>4 DEF Pipeline

LEMMA StepPipeline == PTypes /\ Pipeline /\ [Next]_vars => Pipeline'
<1> SUFFICES ASSUME PTypes, Pipeline, [Next]_vars PROVE Pipeline'
  OBVIOUS
<1>1. CASE \E t \in Thread : Push(t)
  BY <1>1, HistoryPipeline, QueuePipeline DEF Push
<1>2. CASE WriteThread
  BY <1>2, WritePipeline
<1>3. CASE AcceptThread
  BY <1>3, AcceptFrame, SamePipeline
<1>4. CASE ClientOpens \/ ClientLeaves
  <2>1. session' \in {session, session + 1}
    BY <1>4 DEF ClientOpens, ClientLeaves
  <2> QED BY <1>4, <2>1, ClientFrame, SamePipeline
<1>5. CASE UNCHANGED vars
  BY <1>5, Stutter, SamePipeline
<1> QED BY <1>1, <1>2, <1>3, <1>4, <1>5 DEF Next

(* On the wire no event appears twice, the sessions follow one another,    *)
(* and events of one thread keep the order in which it pushed them.        *)
THEOREM WireKeepsOrder == Spec => []WireOrder
<1>1. Pipeline => WireOrder
  BY DEF Pipeline
<1> QED BY <1>1, InitTypes, StepTypes, InitPipeline, StepPipeline, PTL DEF Spec

-----------------------------------------------------------------------------
(* EventPipe implements EventStream.                                       *)

OnWay(e) ==
    \/ \E t \in Thread : pushing[t] = e /\ hasPipe[t]
    \/ \E i \in DOMAIN writeQueue : writeQueue[i] = e
    \/ Held /\ wMsg = e

LEMMA PendingIs == /\ pendingOf = {e \in Event : OnWay(e)}
                   /\ pendingOf' = {e \in Event : OnWay(e)'}
BY DEF pendingOf, OnWay, Held

LEMMA SamePending ==
    ASSUME UNCHANGED <<pushing, hasPipe, writeQueue, wMsg>>, Held' <=> Held
    PROVE  pendingOf' = pendingOf
<1>1. \A e \in Event : OnWay(e)' <=> OnWay(e)
  BY DEF OnWay
<1> QED BY <1>1, PendingIs

LEMMA FailedIs ==
    /\ UNCHANGED <<wPc, wSession>> => failedOf' = failedOf
    /\ wPc \notin {"failed", "drop"} => failedOf = 0
    /\ wPc' \notin {"failed", "drop"} => failedOf' = 0
BY DEF failedOf

\* The event held by the write thread is nowhere else, and comes first.
LEMMA HeldIsFirst ==
    ASSUME PTypes, Pipeline, Held, UNCHANGED <<pushing, hasPipe, writeQueue>>, ~Held'
    PROVE  /\ wMsg \in pendingOf /\ pendingOf' = pendingOf \ {wMsg}
           /\ \A d \in pendingOf : sender[d] = sender[wMsg] => wMsg <= d
<1>1. AheadOfQueue(wMsg) /\ wMsg \in Event
  BY SeqRange DEF Pipeline, HeldInOrder
<1>2. \A t \in Thread : pushing[t] # 0 => Before(wMsg, pushing[t])
  BY <1>1 DEF AheadOfQueue, AheadOfPushing
<1>3. \A j \in DOMAIN writeQueue : Before(wMsg, writeQueue[j])
  BY <1>1 DEF AheadOfQueue
<1>4. \A e \in Event : e # 0
  BY DEF Event
<1>5. \A e \in Event : OnWay(e)' <=> OnWay(e) /\ e # wMsg
  BY <1>2, <1>3, <1>4 DEF OnWay, Before
<1>6. \A d \in Event : OnWay(d) => d = wMsg \/ Before(wMsg, d)
  BY <1>2, <1>3, <1>4 DEF OnWay
<1>7. \A d \in Event : OnWay(d) /\ sender[d] = sender[wMsg] => wMsg <= d
  <2> SUFFICES ASSUME NEW d \in Event, OnWay(d), sender[d] = sender[wMsg] PROVE wMsg <= d
    OBVIOUS
  <2>1. d \in Nat /\ wMsg \in Nat
    BY <1>1 DEF Event
  <2> QED BY <1>6, <2>1 DEF Before
<1>8. wMsg \in pendingOf
  BY <1>1, PendingIs DEF OnWay
<1> QED BY <1>5, <1>7, <1>8, PendingIs

LEMMA HistoryStream ==
    ASSUME PTypes, NEW t \in Thread, PushToHistory(t)
    PROVE  Stream!Push(t)
<1>1. /\ pushed < MaxEvents /\ pushed' = pushed + 1 /\ pushed' \in Event /\ pushed' # 0
      /\ sender' = [sender EXCEPT ![pushed'] = t]
  BY NextEvent DEF PushToHistory, PTypes, RecordTypes
<1>2. UNCHANGED <<sPipe, instance, session, wire, writeQueue, wPc, wMsg, wSession>>
  BY PushFrame DEF PushToHistory, Push
<1>3. /\ pushing[t] = 0 /\ pushing' = [pushing EXCEPT ![t] = pushed']
      /\ hasPipe' = [hasPipe EXCEPT ![t] = published]
      /\ pushing \in [Thread -> Event \cup {0}] /\ hasPipe \in [Thread -> BOOLEAN]
  BY DEF PushToHistory, PTypes, QueueTypes, published
<1>4. ASSUME NEW e \in Event
      PROVE  OnWay(e)' <=> OnWay(e) \/ (published /\ e = pushed')
  <2>1. e # 0
    BY DEF Event
  <2>2. (\E u \in Thread : pushing'[u] = e /\ hasPipe'[u]) <=>
          (\E u \in Thread : pushing[u] = e /\ hasPipe[u]) \/ (published /\ e = pushed')
    <3>1. ASSUME NEW u \in Thread, u # t
          PROVE  pushing'[u] = pushing[u] /\ hasPipe'[u] = hasPipe[u]
      BY <1>3, <3>1
    <3>2. pushing'[t] = pushed' /\ (hasPipe'[t] <=> published) /\ pushing[t] # e
      BY <1>3, <2>1
    <3> QED BY <3>1, <3>2
  <2> QED BY <1>2, <2>2 DEF OnWay, Held
<1>5. pendingOf' = IF published THEN pendingOf \cup {pushed'} ELSE pendingOf
  BY <1>1, <1>4, PendingIs
<1>6. UNCHANGED <<session, clientHere, published, wire, failedOf>>
  BY <1>2, FailedIs DEF clientHere, published
<1> QED BY <1>1, <1>5, <1>6 DEF Stream!Push

LEMMA QueueStream ==
    ASSUME PTypes, NEW t \in Thread, PushToQueue(t)
    PROVE  pendingOf' = pendingOf
<1>1. UNCHANGED <<wPc, wMsg>>
  BY PushFrame DEF Push
<1>2. /\ pushing[t] # 0 /\ pushing[t] \in Event
      /\ pushing' = [pushing EXCEPT ![t] = 0] /\ hasPipe' = [hasPipe EXCEPT ![t] = FALSE]
      /\ pushing \in [Thread -> Event \cup {0}] /\ hasPipe \in [Thread -> BOOLEAN]
      /\ writeQueue \in Seq(Event)
      /\ writeQueue' = IF hasPipe[t] THEN Append(writeQueue, pushing[t]) ELSE writeQueue
  BY DEF PushToQueue, PTypes, QueueTypes
<1>3. \A e : (\E i \in DOMAIN writeQueue' : writeQueue'[i] = e) <=>
               (\E i \in DOMAIN writeQueue : writeQueue[i] = e) \/ (hasPipe[t] /\ e = pushing[t])
  <2>1. CASE hasPipe[t]
    <3>1. /\ DOMAIN writeQueue' = DOMAIN writeQueue \cup {Len(writeQueue) + 1}
          /\ \A i \in DOMAIN writeQueue : writeQueue'[i] = writeQueue[i]
          /\ writeQueue'[Len(writeQueue) + 1] = pushing[t]
      BY <1>2, <2>1
    <3> QED BY <2>1, <3>1
  <2>2. CASE ~hasPipe[t]
    BY <1>2, <2>2
  <2> QED BY <2>1, <2>2
<1>4. \A e : (\E u \in Thread : pushing[u] = e /\ hasPipe[u]) <=>
               (\E u \in Thread : pushing'[u] = e /\ hasPipe'[u]) \/ (hasPipe[t] /\ e = pushing[t])
  <2>1. \A u \in Thread : u # t => pushing'[u] = pushing[u] /\ hasPipe'[u] = hasPipe[u]
    BY <1>2
  <2>2. ~hasPipe'[t]
    BY <1>2
  <2> QED BY <2>1, <2>2
<1>5. \A e \in Event : OnWay(e)' <=> OnWay(e)
  BY <1>1, <1>3, <1>4 DEF OnWay, Held
<1> QED BY <1>5, PendingIs

LEMMA PopStream ==
    ASSUME PTypes, PopMessage
    PROVE  pendingOf' = pendingOf
<1>1. /\ writeQueue \in Seq(Event) /\ writeQueue # <<>> /\ writeQueue' = Tail(writeQueue)
      /\ wMsg' = Head(writeQueue) /\ ~Held /\ Held' /\ UNCHANGED <<pushing, hasPipe>>
  BY DEF PopMessage, Held, PTypes, QueueTypes, producers
<1>2. /\ 1 \in DOMAIN writeQueue /\ Head(writeQueue) = writeQueue[1]
      /\ \A i \in DOMAIN writeQueue : i = 1 \/ i - 1 \in DOMAIN writeQueue'
      /\ \A i \in DOMAIN writeQueue' : i + 1 \in DOMAIN writeQueue /\ writeQueue'[i] = writeQueue[i + 1]
      /\ \A i \in DOMAIN writeQueue : i \in Nat
  BY <1>1
<1>3. ASSUME NEW e
      PROVE  (\E i \in DOMAIN writeQueue : writeQueue[i] = e) <=>
               (\E i \in DOMAIN writeQueue' : writeQueue'[i] = e) \/ e = Head(writeQueue)
  <2>1. ASSUME NEW i \in DOMAIN writeQueue, writeQueue[i] = e, i # 1
        PROVE  \E j \in DOMAIN writeQueue' : writeQueue'[j] = e
    <3>1. i - 1 \in DOMAIN writeQueue' /\ (i - 1) + 1 = i
      BY <1>2, <2>1
    <3> QED BY <1>2, <2>1, <3>1
  <2> QED BY <1>2, <2>1
<1>4. \A e \in Event : OnWay(e)' <=> OnWay(e)
  BY <1>1, <1>3 DEF OnWay
<1> QED BY <1>4, PendingIs

LEMMA WriteStream ==
    ASSUME ClosingInv, Pipeline, WriteThread
    PROVE  Stream!Next \/ UNCHANGED Stream!vars
<1> USE DEF ClosingInv, Stream!vars, Stream!Next
<1>1. UNCHANGED <<pushing, hasPipe, session, pushed, sender>>
  BY WriteFrame
<1>e. Stream!Event = Event
  BY DEF Stream!Event, Event
<1>2. CASE PopMessage
  <2>1. failedOf = 0 /\ failedOf' = 0
    BY <1>2, FailedIs DEF PopMessage
  <2> QED BY <1>1, <1>2, <2>1, PopStream DEF PopMessage, clientHere, published, pipe
<1>3. CASE ReadPipe
  <2>1. UNCHANGED <<writeQueue, wMsg, clientHere, published, wire>> /\ Held
          /\ failedOf = 0 /\ failedOf' = 0
    BY <1>3, FailedIs DEF ReadPipe, clientHere, published, pipe, Held
  <2>2. CASE sPipe = INVALID
    <3>1. ~Held' /\ ~published
      BY <1>3, <2>2 DEF ReadPipe, Held, published
    <3>2. Stream!Lose(wMsg)
      BY <1>1, <2>1, <3>1, HeldIsFirst DEF Stream!Lose
    <3> QED BY <1>e, <2>1, <3>2, SeqRange
  <2>3. CASE sPipe # INVALID
    <3>1. Held'
      BY <1>3, <2>3 DEF ReadPipe, Held
    <3> QED BY <1>1, <2>1, <3>1, SamePending
  <2> QED BY <2>2, <2>3
<1>4. CASE WriteSucceeds
  <2>1. /\ UNCHANGED <<writeQueue, wMsg, clientHere, published>> /\ Held /\ ~Held'
        /\ wire' = Append(wire, <<session, wMsg>>) /\ failedOf = 0 /\ failedOf' = 0
    BY <1>4, FailedIs DEF WriteSucceeds, clientHere, published, pipe, Held
  <2>2. clientHere /\ published
    BY <1>4 DEF WriteSucceeds, Reachable, clientHere, published, PTypes, PipeTypes, Writing
  <2>3. Stream!Deliver(wMsg)
    BY <1>1, <2>1, <2>2, HeldIsFirst DEF Stream!Deliver
  <2> QED BY <1>e, <2>1, <2>3, SeqRange
<1>5. CASE WriteFails
  <2>1. UNCHANGED <<writeQueue, wMsg, clientHere, published, wire>> /\ Held /\ ~Held'
          /\ failedOf = 0
    BY <1>5, FailedIs DEF WriteFails, clientHere, published, pipe, Held
  <2>2. ~clientHere /\ published /\ failedOf' = session
    BY <1>5 DEF WriteFails, Reachable, Writing, Accepting, clientHere, published, failedOf,
                PTypes, PipeTypes
  <2>3. Stream!Lose(wMsg)
    BY <1>1, <2>1, <2>2, HeldIsFirst DEF Stream!Lose
  <2> QED BY <1>e, <2>1, <2>3, SeqRange
<1>6. CASE SignalFailure
  <2>1. UNCHANGED <<writeQueue, wMsg, clientHere, published, wire, failedOf>> /\ (Held' <=> Held)
    BY <1>6 DEF SignalFailure, clientHere, published, failedOf, pipe, Held
  <2> QED BY <1>1, <2>1, SamePending
<1>7. CASE DropPipe
  <2>1. UNCHANGED <<writeQueue, wMsg, wire>> /\ (Held' <=> Held)
          /\ failedOf = wSession /\ failedOf' = 0 /\ wSession # 0
    BY <1>7 DEF DropPipe, Held, failedOf, Writing, PTypes, RecordTypes
  <2>2. pendingOf' = pendingOf
    BY <1>1, <2>1, SamePending
  <2>3. CASE sPipe = wPipe
    <3>1. /\ published /\ ~published' /\ instance'.client = "closed" /\ ~clientHere'
          /\ (clientHere => wSession # session)
      BY <1>7, <2>3, NoInstanceIs
         DEF DropPipe, Close, Writing, Accepting, published, clientHere, PTypes, PipeTypes
    <3>2. CASE clientHere
      BY <1>1, <2>1, <2>2, <3>1, <3>2 DEF Stream!Cut, clientHere, published
    <3>3. CASE ~clientHere
      BY <1>1, <2>1, <2>2, <3>1, <3>3 DEF Stream!Retire, clientHere, published
    <3> QED BY <3>2, <3>3
  <2>4. CASE sPipe # wPipe
    <3>1. UNCHANGED <<clientHere, published>>
      BY <1>7, <2>4 DEF DropPipe, clientHere, published
    <3> QED BY <1>1, <2>1, <2>2, <3>1 DEF Stream!Settle
  <2> QED BY <2>3, <2>4
<1> QED BY <1>2, <1>3, <1>4, <1>5, <1>6, <1>7 DEF WriteThread

LEMMA AcceptStream ==
    ASSUME ClosingInv, AcceptThread
    PROVE  Stream!Next \/ UNCHANGED Stream!vars
<1> USE DEF ClosingInv, Stream!vars, Stream!Next
<1>1. UNCHANGED <<session, pushed, sender, wire, failedOf>> /\ pendingOf' = pendingOf
  BY AcceptFrame, SamePending, FailedIs DEF Held
<1>2. CASE CreatePipe \/ ConnectPipe \/ ConnectFails \/ AwaitDisconnect
  <2>1. sPipe' = sPipe
    BY <1>2 DEF CreatePipe, ConnectPipe, ConnectFails, AwaitDisconnect
  <2>2. instance' = instance \/ (~clientHere /\ instance'.client \in {"closed", "listening"})
    BY <1>2, NoInstanceIs DEF CreatePipe, ConnectPipe, ConnectFails, AwaitDisconnect, clientHere,
       pipe, PTypes
  <2> QED BY <1>1, <2>1, <2>2 DEF clientHere, published
<1>3. CASE PublishPipe
  <2>1. /\ sPipe = INVALID /\ sPipe' = aPipe /\ aPipe # INVALID /\ instance' = instance
        /\ instance.client \in {"present", "gone"}
    BY <1>3 DEF PublishPipe, Accepting, PTypes, PipeTypes
  <2>2. session # 0
    BY <2>1 DEF PTypes, RecordTypes
  <2>3. ~published /\ published' /\ clientHere' = clientHere
    BY <2>1 DEF published, clientHere
  <2> QED BY <1>1, <2>2, <2>3 DEF Stream!Publish
<1>4. CASE RetirePipe
  <2>1. CASE sPipe = aPipe
    <3>1. /\ published /\ sPipe' = INVALID
          /\ instance.client = "gone"
          /\ instance' = instance \/ instance'.client = "closed"
      BY <1>4, <2>1, NoInstanceIs DEF RetirePipe, Close, Accepting, Writing, published, PTypes,
         PipeTypes
    <3>2. ~clientHere /\ ~clientHere' /\ ~published'
      BY <3>1 DEF clientHere, published
    <3> QED BY <1>1, <3>1, <3>2 DEF Stream!Retire, clientHere, published
  <2>2. CASE sPipe # aPipe
    BY <1>1, <1>4, <2>2 DEF RetirePipe, clientHere, published
  <2> QED BY <2>1, <2>2
<1> QED BY <1>2, <1>3, <1>4 DEF AcceptThread

LEMMA ClientStream ==
    ASSUME ClosingInv, ClientOpens \/ ClientLeaves
    PROVE  Stream!Next
<1> USE DEF ClosingInv, Stream!Next
<1>1. UNCHANGED <<pushed, sender, wire, sPipe, published, failedOf>> /\ pendingOf' = pendingOf
  BY ClientFrame, SamePending, FailedIs DEF Held, published
<1>2. CASE ClientOpens
  <2>1. /\ instance.client = "listening" /\ sPipe = INVALID
        /\ instance' = [instance EXCEPT !.client = "present"]
        /\ session < MaxSessions /\ session' = session + 1
    BY <1>2 DEF ClientOpens, Accepting, PTypes, PipeTypes
  <2>2. ~clientHere /\ ~published /\ clientHere' = TRUE
    BY <2>1 DEF clientHere, published, PTypes, PipeTypes
  <2> QED BY <1>1, <2>1, <2>2 DEF Stream!Arrive
<1>3. CASE ClientLeaves
  <2>1. clientHere /\ ~clientHere' /\ session' = session
    BY <1>3 DEF ClientLeaves, clientHere, PTypes, PipeTypes
  <2> QED BY <1>1, <2>1 DEF Stream!Leave, clientHere
<1> QED BY <1>2, <1>3

LEMMA StepStream == ClosingInv /\ Pipeline /\ [Next]_vars => [Stream!Next]_(Stream!vars)
<1> SUFFICES ASSUME ClosingInv, Pipeline, [Next]_vars
             PROVE  Stream!Next \/ UNCHANGED Stream!vars
  OBVIOUS
<1>1. ASSUME NEW t \in Thread, Push(t) PROVE Stream!Next \/ UNCHANGED Stream!vars
  <2>1. CASE PushToHistory(t)
    BY <2>1, HistoryStream DEF ClosingInv, Stream!Next
  <2>2. CASE PushToQueue(t)
    <3>1. UNCHANGED <<session, pushed, sender, wire, clientHere, published, failedOf>>
      BY <2>2, PushFrame, FailedIs DEF Push, PushToQueue, record, clientHere, published
    <3> QED BY <2>2, <3>1, QueueStream DEF ClosingInv, Stream!vars
  <2> QED BY <1>1, <2>1, <2>2 DEF Push
<1>2. CASE UNCHANGED vars
  <2>1. UNCHANGED <<session, pushed, sender, wire, clientHere, published, failedOf>>
    BY <1>2, Stutter, FailedIs DEF clientHere, published
  <2>2. pendingOf' = pendingOf
    BY <1>2, Stutter, SamePending DEF Held
  <2> QED BY <2>1, <2>2 DEF Stream!vars
<1> QED BY <1>1, <1>2, WriteStream, AcceptStream, ClientStream DEF Next

LEMMA StreamInit == Init => Stream!Init
<1> SUFFICES ASSUME Init PROVE Stream!Init
  OBVIOUS
<1>1. /\ ~clientHere /\ ~published /\ session = 0 /\ pushed = 0 /\ wire = <<>>
      /\ sender \in [Event -> Thread]
  BY DEF Init, NoInstance, clientHere, published, Thread
<1>2. pendingOf = {} /\ failedOf = 0
  BY DEF Init, pendingOf, failedOf, Event
<1> QED BY <1>1, <1>2 DEF Stream!Init, Stream!Event, Event, clientHere, published

(* The push, accept and write threads together are an event stream: they   *)
(* keep each thread's order, lose an event only while nobody is served,    *)
(* send none that was pushed while no pipe was published, and hang up on a *)
(* client only while a failed write to an earlier one is dealt with.       *)
THEOREM StreamRefinement == Spec => ImplementsEventStream
<1>1. Init => Stream!Init
  BY StreamInit
<1>2. ClosingInv /\ [Next]_vars => ClosingInv'
  BY StepClosing
<1>3. ClosingInv => PTypes
  BY DEF ClosingInv
<1> QED BY <1>1, <1>2, <1>3, InitClosing, InitPipeline, StepPipeline, StepStream, PTL
        DEF Spec, ImplementsEventStream, Stream!Spec

-----------------------------------------------------------------------------
(* EventsApi: types.  Its steps touch EventPipe's variables by one of      *)
(* EventPipe's own steps or by one on the history alone.                   *)

StoreStep ==
    /\ UNCHANGED <<sPipe, disconn, writeQueue, producers, accept, writer, pipe, record, wire>>
    /\ StoreTypes'

LEMMA NamesAre == \A names \in NameList : names \in Seq(Name) /\ names # <<>>
<1> SUFFICES ASSUME NEW names \in NameList PROVE names \in Seq(Name) /\ names # <<>>
  OBVIOUS
<1>1. PICK k \in {1, 2} : names \in [1 .. k -> Name]
  BY DEF NameList
<1>2. names \in Seq(Name)
  BY <1>1
<1>3. names # <<>>
  BY <1>1
<1> QED BY <1>2, <1>3

LEMMA StoreStepTypes == ASSUME PTypes, StoreStep PROVE PTypes'
<1>1. PipeTypes' /\ QueueTypes' /\ RecordTypes'
  BY DEF PTypes, StoreStep, PipeTypes, QueueTypes, RecordTypes, producers, accept, writer,
         pipe, record
<1> QED BY <1>1 DEF PTypes, StoreStep

LEMMA ApiSteps ==
    ASSUME PTypes, ApiNext
    PROVE  [Next]_vars \/ StoreStep
<1>1. ASSUME NEW max \in Sizes, SetMaxBuffer(max) PROVE StoreStep
  <2>1. Capacity(max) \in Nat \ {0}
    BY DEF Capacity
  <2> QED BY <1>1, <2>1, TrimFacts
          DEF SetMaxBuffer, StoreOnly, StoreStep, StoreTypes, PTypes
<1>2. CASE ClearHistory
  BY <1>2, EmptySeq DEF ClearHistory, StoreOnly, StoreStep, StoreTypes, PTypes
<1>3. ASSUME NEW offset \in Offsets, NEW count \in Counts, GetHistory(offset, count)
      PROVE  StoreStep
  BY <1>3 DEF GetHistory, StoreOnly, StoreStep, StoreTypes, PTypes, store
<1>4. CASE \/ FillEvents \/ (\E t \in Thread, n \in Name : SignalEvent(t, n))
           \/ (\E verb \in {"subscribe", "unsubscribe"}, names \in NameList :
                 BeginRequest(verb, names))
           \/ Subscribe \/ Unsubscribe \/ ClearSubscriptions \/ GetBufferCount
  BY <1>4 DEF FillEvents, SignalEvent, BeginRequest, Subscribe, Unsubscribe,
              ClearSubscriptions, GetBufferCount
<1>5. CASE (\E t \in Thread : PushSignalled(t)) \/ PushOwnEvent
  BY <1>5 DEF PushSignalled, PushOwnEvent, Next, Push, Thread
<1>6. CASE (\E t \in Thread : PushToQueue(t))
           \/ AcceptThread \/ WriteThread \/ ClientOpens \/ ClientLeaves
  BY <1>6 DEF Next, Push
<1> QED BY <1>1, <1>2, <1>3, <1>4, <1>5, <1>6 DEF ApiNext

LEMMA ApiPTypes == PTypes /\ [ApiNext]_apiVars => PTypes'
<1>1. UNCHANGED apiVars => UNCHANGED vars
  BY DEF apiVars
<1> QED BY <1>1, ApiSteps, StepTypes, StoreStepTypes

LEMMA StoreStepStream ==
    ASSUME ClosingInv, Pipeline, StoreStep
    PROVE  ClosingInv' /\ Pipeline' /\ UNCHANGED Stream!vars
<1>1. /\ UNCHANGED <<sPipe, disconn, writeQueue, pushing, hasPipe, aPc, aPipe, wPc, wMsg, wPipe>>
      /\ UNCHANGED <<instance, wSession, session, mistaken, pushed, sender, wire>>
  BY DEF StoreStep, producers, accept, writer, pipe, record
<1>2. PTypes'
  BY StoreStepTypes DEF ClosingInv
<1>3. Accepting' /\ Writing'
  BY <1>1 DEF ClosingInv, Accepting, Writing
<1>4. Pipeline'
  BY <1>1, SamePipeline DEF ClosingInv
<1>5. UNCHANGED <<clientHere, published, pendingOf, failedOf>>
  BY <1>1, SamePending, FailedIs DEF clientHere, published, Held
<1> QED BY <1>1, <1>2, <1>3, <1>4, <1>5 DEF ClosingInv, Stream!vars

(* The events.* methods and the hook on signals use the pipe as EventPipe  *)
(* allows: with them, too, it is an event stream, whatever a client does   *)
(* to the subscriptions and to the history.                                *)
THEOREM ApiStreamRefinement == ApiSpec => ImplementsEventStream
<1> DEFINE StreamInv == ClosingInv /\ Pipeline
<1>1. ApiInit => Init
  BY DEF ApiInit
<1>2. Init => StreamInv /\ Stream!Init
  BY InitClosing, InitPipeline, StreamInit
<1>3. StreamInv /\ [ApiNext]_apiVars => StreamInv' /\ [Stream!Next]_(Stream!vars)
  <2> SUFFICES ASSUME StreamInv, [ApiNext]_apiVars
               PROVE  StreamInv' /\ [Stream!Next]_(Stream!vars)
    OBVIOUS
  <2>1. [Next]_vars \/ StoreStep
    <3>1. UNCHANGED apiVars => UNCHANGED vars
      BY DEF apiVars
    <3> QED BY <3>1, ApiSteps DEF ClosingInv
  <2>2. CASE [Next]_vars
    BY <2>2, StepClosing, StepPipeline, StepStream DEF ClosingInv
  <2>3. CASE StoreStep
    BY <2>3, StoreStepStream
  <2> QED BY <2>1, <2>2, <2>3
<1> HIDE DEF StreamInv
<1> QED BY <1>1, <1>2, <1>3, PTL DEF ApiSpec, ImplementsEventStream, Stream!Spec

\* ApiTypeOK in two parts; a request in progress has names left.
HookTypes ==
    /\ subs \in SUBSET Name /\ tableReady \in BOOLEAN
    /\ checked \in [Thread -> Name \cup {NoName}]
    /\ kind \in [Event -> Name \cup {NoName}]
    /\ silent \in SUBSET Name
    /\ late \in [Name -> Nat]

TodoTypes ==
    /\ todo = <<>> \/ todo \in {"subscribe", "unsubscribe"} \X (Seq(Name) \ {<<>>})
    /\ calls \in 0 .. MaxRequests

ApiTypes == PTypes /\ HookTypes /\ TodoTypes

LEMMA ApiTypesSuffice == ApiTypes => ApiTypeOK
BY DEF ApiTypes, HookTypes, TodoTypes, ApiTypeOK

LEMMA InitApiTypes == ApiInit => ApiTypes
<1> SUFFICES ASSUME ApiInit PROVE ApiTypes
  OBVIOUS
<1>1. PTypes
  BY InitTypes DEF ApiInit
<1>2. HookTypes
  BY DEF ApiInit, HookTypes
<1>3. TodoTypes
  BY DEF ApiInit, TodoTypes
<1> QED BY <1>1, <1>2, <1>3 DEF ApiTypes

\* What a step does to the variables of EventsApi.
LEMMA OtherSteps ==
    ASSUME ApiNext
    PROVE  \/ UNCHANGED <<hooks, todo, calls>>
           \/ FillEvents
           \/ \E t \in Thread, n \in Name : SignalEvent(t, n)
           \/ \E t \in Thread : PushSignalled(t)
           \/ \E verb \in {"subscribe", "unsubscribe"}, names \in NameList :
                BeginRequest(verb, names)
           \/ Subscribe \/ Unsubscribe \/ ClearSubscriptions
           \/ UNCHANGED <<hooks, todo>> /\ Request
<1>1. GetBufferCount \/ PushOwnEvent => UNCHANGED <<hooks, todo, calls>>
  BY DEF GetBufferCount, PushOwnEvent, hooks, requests
<1>2. (\E max \in Sizes : SetMaxBuffer(max)) \/ ClearHistory
        \/ (\E offset \in Offsets, count \in Counts : GetHistory(offset, count))
        => UNCHANGED <<hooks, todo>> /\ Request
  BY DEF SetMaxBuffer, ClearHistory, GetHistory, StoreOnly, hooks
<1>3. UNCHANGED <<hooks, requests>> => UNCHANGED <<hooks, todo, calls>>
  BY DEF hooks, requests
<1> QED BY <1>1, <1>2, <1>3 DEF ApiNext

LEMMA TodoFacts ==
    ASSUME TodoTypes, todo # <<>>
    PROVE  /\ Head(todo[2]) \in Name
           /\ Rest = <<>> \/ Rest \in {"subscribe", "unsubscribe"} \X (Seq(Name) \ {<<>>})
<1>1. todo[1] \in {"subscribe", "unsubscribe"} /\ todo[2] \in Seq(Name) /\ todo[2] # <<>>
  BY DEF TodoTypes
<1>2. Len(todo[2]) > 1 => Tail(todo[2]) \in Seq(Name) /\ Tail(todo[2]) # <<>>
  <2>1. ASSUME NEW names \in Seq(Name), Len(names) > 1
        PROVE  Tail(names) \in Seq(Name) /\ Tail(names) # <<>>
    <3>1. Tail(names) \in Seq(Name) /\ Len(Tail(names)) = Len(names) - 1 /\ Len(names) \in Nat
      BY <2>1
    <3>2. Len(Tail(names)) # 0
      BY <2>1, <3>1
    <3>3. Len(<<>>) = 0
      OBVIOUS
    <3> QED BY <3>1, <3>2, <3>3, Zenon
  <2> QED BY <1>1, <2>1
<1>3. Head(todo[2]) \in Name
  BY <1>1
<1>4. CASE Len(todo[2]) > 1
  BY <1>1, <1>2, <1>3, <1>4 DEF Rest
<1>5. CASE ~(Len(todo[2]) > 1)
  BY <1>3, <1>5 DEF Rest
<1> QED BY <1>4, <1>5

-----------------------------------------------------------------------------
(* What a client may rely on after it has unsubscribed.  A name that is    *)
(* silent is not subscribed, so that at most the game thread is still on   *)
(* its way to PushEvent with it, and a name that is not silent has no late *)
(* event.  The RPC thread is either in a request or in the signal hook.    *)

SilentNames ==
    /\ todo # <<>> => checked[Rpc] = NoName
    /\ \A n \in silent : n \notin subs /\ checked[Rpc] # n
    /\ \A n \in Name : n \notin silent => late[n] = 0
    /\ \A n \in Name : late[n] <= 1 /\ (checked[Game] = n => late[n] = 0)

HookInv == ApiTypes /\ SilentNames

LEMMA InitHooks == ApiInit => HookInv
<1> SUFFICES ASSUME ApiInit PROVE HookInv
  OBVIOUS
<1>1. SilentNames
  BY DEF ApiInit, SilentNames, Thread
<1> QED BY <1>1, InitApiTypes DEF HookInv

LEMMA StepHooks == HookInv /\ [ApiNext]_apiVars => HookInv'
<1> SUFFICES ASSUME HookInv, [ApiNext]_apiVars PROVE HookInv'
  OBVIOUS
<1>0. PTypes' /\ HookTypes /\ TodoTypes /\ SilentNames /\ Game \in Thread /\ Rpc \in Thread
  BY ApiPTypes DEF HookInv, ApiTypes, Thread
<1> SUFFICES HookTypes' /\ TodoTypes' /\ SilentNames'
  BY <1>0 DEF HookInv, ApiTypes
<1> USE <1>0
<1>1. CASE UNCHANGED <<hooks, todo, calls>> \/ UNCHANGED apiVars
  <2>1. UNCHANGED <<subs, tableReady, checked, todo, kind, silent, late, calls>>
    BY <1>1 DEF hooks, requests, apiVars
  <2> QED BY <2>1 DEF HookTypes, TodoTypes, SilentNames
<1>2. CASE FillEvents
  <2>1. UNCHANGED <<subs, checked, todo, kind, silent, late, calls>> /\ tableReady' = TRUE
    BY <1>2 DEF FillEvents, requests
  <2> QED BY <2>1 DEF HookTypes, TodoTypes, SilentNames
<1>3. ASSUME NEW t \in Thread, NEW n \in Name, SignalEvent(t, n)
      PROVE  HookTypes' /\ TodoTypes' /\ SilentNames'
  <2>1. /\ UNCHANGED <<subs, tableReady, todo, kind, silent, late, calls>>
        /\ checked' = [checked EXCEPT ![t] = n]
    BY <1>3 DEF SignalEvent, requests
  <2>2. n \notin silent /\ late[n] = 0
    BY <1>3 DEF SignalEvent, SilentNames
  <2>3. HookTypes' /\ TodoTypes'
    BY <2>1 DEF HookTypes, TodoTypes
  <2>4. \A u \in Thread : checked'[u] = IF u = t THEN n ELSE checked[u]
    BY <2>1 DEF HookTypes
  <2>5. t = Rpc => todo = <<>>
    BY <1>3 DEF SignalEvent, Idle
  <2>6. SilentNames'
    BY <2>1, <2>2, <2>4, <2>5 DEF SilentNames
  <2> QED BY <2>3, <2>6
<1>4. ASSUME NEW t \in Thread, PushSignalled(t)
      PROVE  HookTypes' /\ TodoTypes' /\ SilentNames'
  <2> DEFINE n == checked[t]
  <2>1. /\ UNCHANGED <<subs, tableReady, todo, silent, calls>>
        /\ checked' = [checked EXCEPT ![t] = NoName] /\ n \in Name
        /\ kind' = [kind EXCEPT ![pushed'] = n]
        /\ late' = [late EXCEPT ![n] = IF n \in silent THEN @ + 1 ELSE @]
    BY <1>4 DEF PushSignalled, requests, HookTypes
  <2>2. \A u \in Thread : checked'[u] = IF u = t THEN NoName ELSE checked[u]
    BY <2>1 DEF HookTypes
  <2>3. late' \in [Name -> Nat] /\ \A m \in Name :
          late'[m] = IF m = n /\ m \in silent THEN late[m] + 1 ELSE late[m]
    BY <2>1 DEF HookTypes
  <2>4. kind' \in [Event -> Name \cup {NoName}]
    BY <2>1 DEF HookTypes
  <2>5. HookTypes' /\ TodoTypes'
    BY <2>1, <2>3, <2>4 DEF HookTypes, TodoTypes
  <2>6. n \in silent => t = Game /\ late[n] = 0
    BY <2>1 DEF SilentNames, Thread
  <2>7. SilentNames'
    <3>1. ASSUME NEW m \in Name PROVE late'[m] <= 1 /\ (checked'[Game] = m => late'[m] = 0)
      <4>1. CASE m = n /\ n \in silent
        <5>1. late'[m] = 1 /\ checked'[Game] = NoName
          BY <2>2, <2>3, <2>6, <4>1
        <5> QED BY <5>1
      <4>2. CASE ~(m = n /\ n \in silent)
        <5>1. late'[m] = late[m] /\ (checked'[Game] = m => checked[Game] = m)
          BY <2>2, <2>3, <4>2
        <5> QED BY <5>1 DEF SilentNames
      <4> QED BY <4>1, <4>2
    <3>2. todo' # <<>> => checked'[Rpc] = NoName
      BY <2>1, <2>2 DEF SilentNames
    <3>3. \A m \in silent' : m \notin subs' /\ checked'[Rpc] # m
      BY <2>1, <2>2 DEF SilentNames, HookTypes
    <3>4. \A m \in Name : m \notin silent' => late'[m] = 0
      BY <2>1, <2>3 DEF SilentNames
    <3> QED BY <3>1, <3>2, <3>3, <3>4 DEF SilentNames
  <2> QED BY <2>5, <2>7
<1>5. ASSUME NEW verb \in {"subscribe", "unsubscribe"}, NEW names \in NameList,
             BeginRequest(verb, names)
      PROVE  HookTypes' /\ TodoTypes' /\ SilentNames'
  <2>1. /\ UNCHANGED <<subs, tableReady, checked, kind, silent, late>>
        /\ todo' = <<verb, names>> /\ calls' = calls + 1 /\ calls < MaxRequests
        /\ checked[Rpc] = NoName
    BY <1>5 DEF BeginRequest, Request, Idle
  <2>2. todo' \in {"subscribe", "unsubscribe"} \X (Seq(Name) \ {<<>>})
    BY <2>1, NamesAre
  <2>3. calls' \in 0 .. MaxRequests
    BY <2>1 DEF TodoTypes
  <2>4. HookTypes' /\ TodoTypes'
    BY <2>1, <2>2, <2>3 DEF HookTypes, TodoTypes
  <2>5. SilentNames'
    BY <2>1 DEF SilentNames
  <2> QED BY <2>4, <2>5
<1>6. CASE Subscribe
  <2> DEFINE n == Head(todo[2])
  <2>1. /\ UNCHANGED <<tableReady, checked, kind, calls>>
        /\ n \in Name /\ todo # <<>> /\ todo' = Rest
        /\ subs' = subs \cup {n} /\ silent' = silent \ {n}
        /\ late' = [late EXCEPT ![n] = 0]
    BY <1>6, TodoFacts DEF Subscribe, requests
  <2> HIDE DEF n
  <2>2. TodoTypes'
    BY <2>1, TodoFacts DEF TodoTypes
  <2>3. HookTypes' /\ \A m \in Name : late'[m] = IF m = n THEN 0 ELSE late[m]
    BY <2>1 DEF HookTypes
  <2>4. SilentNames'
    BY <2>1, <2>3 DEF SilentNames
  <2> QED BY <2>2, <2>3, <2>4
<1>7. ASSUME NEW names \in SUBSET Name, Silence(names), checked[Rpc] = NoName,
             subs' = subs \ names, UNCHANGED <<tableReady, checked, kind>>
      PROVE  HookTypes' /\ SilentNames'
  <2>1. /\ silent' = silent \cup names /\ late' \in [Name -> Nat]
        /\ \A m \in Name : late'[m] = IF m \in names \ silent THEN 0 ELSE late[m]
    BY <1>7 DEF Silence, HookTypes
  <2>2. HookTypes'
    BY <1>7, <2>1 DEF HookTypes
  <2>3. SilentNames'
    BY <1>7, <2>1 DEF SilentNames, HookTypes
  <2> QED BY <2>2, <2>3
<1>8. CASE Unsubscribe
  <2> DEFINE n == Head(todo[2])
  <2>1. /\ UNCHANGED <<tableReady, checked, kind, calls>>
        /\ n \in Name /\ checked[Rpc] = NoName /\ todo # <<>> /\ todo' = Rest
        /\ subs' = subs \ {n} /\ Silence({n})
    BY <1>8, TodoFacts DEF Unsubscribe, SilentNames, requests
  <2> HIDE DEF n
  <2>2. TodoTypes'
    BY <2>1, TodoFacts DEF TodoTypes
  <2>3. {n} \in SUBSET Name
    BY <2>1
  <2> QED BY <1>7, <2>1, <2>2, <2>3
<1>9. CASE ClearSubscriptions
  <2>1. /\ UNCHANGED <<tableReady, checked, kind, todo>>
        /\ checked[Rpc] = NoName /\ calls' \in 0 .. MaxRequests
        /\ subs' = {} /\ Silence(Name)
    BY <1>9 DEF ClearSubscriptions, Request, Idle, TodoTypes
  <2>2. subs' = subs \ Name
    BY <2>1 DEF HookTypes
  <2>3. TodoTypes'
    BY <2>1 DEF TodoTypes
  <2> QED BY <1>7, <2>1, <2>2, <2>3
<1>10. CASE UNCHANGED <<hooks, todo>> /\ Request
  <2>1. UNCHANGED <<subs, tableReady, checked, todo, kind, silent, late>>
        /\ calls' \in 0 .. MaxRequests
    BY <1>10 DEF hooks, Request, TodoTypes
  <2> QED BY <2>1 DEF HookTypes, TodoTypes, SilentNames
<1> QED BY <1>1, <1>2, <1>3, <1>4, <1>5, <1>6, <1>8, <1>9, <1>10, OtherSteps

(* Type correctness of the events.* methods, with the pipe below them.     *)
THEOREM ApiTypeCorrect == ApiSpec => [](TypeOK /\ ApiTypeOK)
<1>1. HookInv => TypeOK /\ ApiTypeOK
  BY TypesSuffice, ApiTypesSuffice DEF HookInv, ApiTypes
<1> QED BY <1>1, InitHooks, StepHooks, PTL DEF ApiSpec

(* After the response to events.unsubscribe or events.clear at most one    *)
(* more event of the name is pushed.                                       *)
THEOREM OneLateEvent == ApiSpec => []AtMostOneLate
<1>1. HookInv => AtMostOneLate
  BY DEF HookInv, SilentNames, AtMostOneLate
<1> QED BY <1>1, InitHooks, StepHooks, PTL DEF ApiSpec

-----------------------------------------------------------------------------
(* The history.  Between the two reads of events.getHistory no request is  *)
(* handled, so that the history does not get shorter.                      *)

NoGap(entries) == \A i, j \in DOMAIN entries : entries[j] - entries[i] = j - i

Fits(q) ==
    /\ q.offset \in Int /\ q.entries \in Seq(Event)
    /\ q.entries # <<>> =>
         (IF q.offset < 0 THEN 0 ELSE q.offset) + Len(q.entries) <= Len(buffer)
    /\ NoGap(q.entries)

Recent ==
    /\ Len(buffer) <= maxSize
    /\ \A i \in DOMAIN buffer : buffer[i] = pushed - Len(buffer) + i

AnswerFits ==
    HistoryAnswerFits /\ (answer # <<>> => NoGap(answer[1].entries))

HistoryInv ==
    /\ PTypes
    /\ Recent
    /\ query # <<>> => Fits(query[1])
    /\ AnswerFits

LEMMA InitHistory == ApiInit => HistoryInv
<1> SUFFICES ASSUME ApiInit PROVE HistoryInv
  OBVIOUS
<1>1. PTypes
  BY InitTypes DEF ApiInit
<1>2. Recent
  BY DEF ApiInit, Init, Recent
<1> QED BY <1>1, <1>2 DEF ApiInit, HistoryInv, AnswerFits, HistoryAnswerFits

\* A push keeps the history recent and makes it no shorter.
LEMMA PushedRecent ==
    ASSUME PTypes, Recent, NEW t \in Thread, PushToHistory(t)
    PROVE  Recent' /\ Len(buffer) <= Len(buffer')
<1> DEFINE s == Append(buffer, pushed')
<1>1. /\ buffer \in Seq(Event) /\ maxSize \in Nat \ {0} /\ maxSize' = maxSize
      /\ pushed \in Nat /\ pushed' = pushed + 1 /\ pushed' \in Event
      /\ buffer' = Trim(s, maxSize)
  BY NextEvent DEF PushToHistory, PushTrimmed, PTypes, StoreTypes, RecordTypes
<1>2. /\ Len(buffer) \in Nat /\ s \in Seq(Event) /\ Len(s) = Len(buffer) + 1
      /\ \A i \in 1 .. Len(buffer) : s[i] = buffer[i]
      /\ s[Len(buffer) + 1] = pushed'
  BY <1>1
<1> HIDE DEF s
<1>3. \A i \in 1 .. Len(s) : s[i] = pushed' - Len(s) + i
  <2> SUFFICES ASSUME NEW i \in 1 .. Len(s) PROVE s[i] = pushed' - Len(s) + i
    OBVIOUS
  <2>1. CASE i = Len(buffer) + 1
    BY <1>1, <1>2, <2>1
  <2>2. CASE i \in 1 .. Len(buffer)
    <3>1. s[i] = pushed - Len(buffer) + i
      BY <1>1, <1>2, <2>2 DEF Recent
    <3> QED BY <1>1, <1>2, <3>1
  <2> QED BY <1>2, <2>1, <2>2
<1>4. /\ buffer' \in Seq(Event)
      /\ Len(buffer') = IF Len(s) > maxSize THEN maxSize ELSE Len(s)
      /\ \A i \in 1 .. Len(buffer') :
           /\ Len(s) - Len(buffer') + i \in 1 .. Len(s)
           /\ buffer'[i] = s[Len(s) - Len(buffer') + i]
  <2>1. Trim(s, maxSize) \in Seq(Event) /\ Len(Trim(s, maxSize)) = IF Len(s) > maxSize THEN maxSize ELSE Len(s)
    BY <1>1, <1>2, TrimFacts
  <2>2. \A i \in 1 .. Len(Trim(s, maxSize)) :
          /\ Len(s) - Len(Trim(s, maxSize)) + i \in 1 .. Len(s)
          /\ Trim(s, maxSize)[i] = s[Len(s) - Len(Trim(s, maxSize)) + i]
    BY <1>1, <1>2, TrimFacts
  <2>3. buffer' = Trim(s, maxSize)
    BY <1>1
  <2> QED BY <2>1, <2>2, <2>3
<1>5. Len(buffer') \in Nat /\ Len(buffer') <= maxSize' /\ DOMAIN buffer' = 1 .. Len(buffer')
  BY <1>1, <1>2, <1>4
<1>6. \A i \in 1 .. Len(buffer') : buffer'[i] = pushed' - Len(buffer') + i
  <2> SUFFICES ASSUME NEW i \in 1 .. Len(buffer')
               PROVE  buffer'[i] = pushed' - Len(buffer') + i
    OBVIOUS
  <2> DEFINE k == Len(s) - Len(buffer') + i
  <2>1. k \in 1 .. Len(s) /\ buffer'[i] = s[k]
    BY <1>4
  <2>2. s[k] = pushed' - Len(s) + k
    BY <1>3, <2>1
  <2>3. pushed' - Len(s) + k = pushed' - Len(buffer') + i
    BY <1>1, <1>2, <1>5
  <2> QED BY <2>1, <2>2, <2>3
<1>7. Len(buffer) <= Len(buffer')
  BY <1>1, <1>2, <1>4 DEF Recent
<1> QED BY <1>5, <1>6, <1>7 DEF Recent

\* events.setMaxBuffer drops the oldest entries only.
LEMMA ResizedRecent ==
    ASSUME PTypes, Recent, NEW max \in Sizes, SetMaxBuffer(max)
    PROVE  Recent'
<1>1. /\ buffer \in Seq(Event) /\ Len(buffer) \in Nat /\ DOMAIN buffer = 1 .. Len(buffer)
      /\ maxSize' \in Nat \ {0}
      /\ pushed \in Nat /\ pushed' = pushed /\ buffer' = Trim(buffer, maxSize')
  BY DEF SetMaxBuffer, StoreOnly, record, PTypes, StoreTypes, RecordTypes, Capacity
<1>2. /\ buffer' \in Seq(Event)
      /\ Len(buffer') = IF Len(buffer) > maxSize' THEN maxSize' ELSE Len(buffer)
      /\ \A i \in 1 .. Len(buffer') :
           /\ Len(buffer) - Len(buffer') + i \in 1 .. Len(buffer)
           /\ buffer'[i] = buffer[Len(buffer) - Len(buffer') + i]
  BY <1>1, TrimFacts
<1>3. Len(buffer') \in Nat /\ Len(buffer') <= maxSize' /\ DOMAIN buffer' = 1 .. Len(buffer')
  BY <1>1, <1>2
<1>4. \A i \in 1 .. Len(buffer') : buffer'[i] = pushed' - Len(buffer') + i
  BY <1>1, <1>2, <1>3 DEF Recent
<1> QED BY <1>3, <1>4 DEF Recent

\* A page of a history without a gap has none.
LEMMA PageNoGap ==
    ASSUME PTypes, Recent, NEW offset \in Int, NEW count \in Int
    PROVE  NoGap(GetRange(buffer, offset, count))
<1> DEFINE page == GetRange(buffer, offset, count)
           n == Len(page)
           first == First(offset)
<1>1. /\ buffer \in Seq(Event) /\ Len(buffer) \in Nat /\ pushed \in Int
      /\ DOMAIN buffer = 1 .. Len(buffer)
  BY DEF PTypes, StoreTypes, RecordTypes
<1>2. /\ page \in Seq(Event) /\ n \in Nat /\ DOMAIN page = 1 .. n
      /\ \A i \in 1 .. n : page[i] = buffer[first + i]
      /\ page # <<>> => first + n <= Len(buffer)
      /\ first \in Nat
  BY <1>1, GetRangeFacts DEF First
<1> HIDE DEF page, n, first
<1>3. \A i \in 1 .. n : page[i] = pushed - Len(buffer) + first + i
  <2> SUFFICES ASSUME NEW i \in 1 .. n PROVE page[i] = pushed - Len(buffer) + first + i
    OBVIOUS
  <2>1. page # <<>>
    BY <1>2
  <2>2. first + i \in DOMAIN buffer
    BY <1>1, <1>2, <2>1
  <2> QED BY <1>1, <1>2, <2>2 DEF Recent
<1>4. NoGap(page)
  BY <1>1, <1>2, <1>3 DEF NoGap
<1> QED BY <1>4 DEF page

LEMMA StepHistory == HistoryInv /\ [ApiNext]_apiVars => HistoryInv'
<1> SUFFICES ASSUME HistoryInv, [ApiNext]_apiVars PROVE HistoryInv'
  OBVIOUS
<1>0. PTypes /\ PTypes' /\ Recent /\ AnswerFits
      /\ (query # <<>> => Fits(query[1])) /\ buffer \in Seq(Event) /\ Len(buffer) \in Nat
  BY ApiPTypes DEF HistoryInv, PTypes, StoreTypes
<1> SUFFICES Recent' /\ (query' # <<>> => Fits(query[1])') /\ AnswerFits'
  BY <1>0 DEF HistoryInv
<1> USE <1>0
<1>1. CASE UNCHANGED <<buffer, maxSize, pushed, query, answer>>
  BY <1>1 DEF Recent, AnswerFits, HistoryAnswerFits, Fits, NoGap
<1>2. ASSUME NEW t \in Thread, PushToHistory(t), UNCHANGED <<query, answer>>
      PROVE  Recent' /\ (query' # <<>> => Fits(query[1])') /\ AnswerFits'
  <2>1. Recent' /\ Len(buffer) <= Len(buffer')
    BY <1>2, PushedRecent
  <2>2. buffer' \in Seq(Event) /\ Len(buffer') \in Nat
    BY DEF PTypes, StoreTypes
  <2>3. query' # <<>> => Fits(query[1])'
    BY <1>2, <2>1, <2>2 DEF Fits, NoGap
  <2> QED BY <1>2, <2>1, <2>3 DEF AnswerFits, HistoryAnswerFits, NoGap
<1>3. ASSUME NEW max \in Sizes, SetMaxBuffer(max)
      PROVE  Recent' /\ (query' # <<>> => Fits(query[1])') /\ AnswerFits'
  <2>1. query = <<>> /\ UNCHANGED <<query, answer>>
    BY <1>3 DEF SetMaxBuffer, Request, Idle
  <2> QED BY <1>3, <2>1, ResizedRecent DEF AnswerFits, HistoryAnswerFits, NoGap
<1>4. CASE ClearHistory
  <2>1. query = <<>> /\ UNCHANGED <<query, answer>> /\ buffer' = <<>> /\ maxSize' = maxSize
    BY <1>4 DEF ClearHistory, Request, Idle
  <2>2. Recent'
    BY <2>1 DEF Recent, PTypes, StoreTypes
  <2> QED BY <2>1, <2>2 DEF AnswerFits, HistoryAnswerFits, NoGap
<1>5. ASSUME NEW offset \in Offsets, NEW count \in Counts, GetHistory(offset, count)
      PROVE  Recent' /\ (query' # <<>> => Fits(query[1])') /\ AnswerFits'
  <2>1. /\ UNCHANGED <<buffer, maxSize, pushed, answer>> /\ offset \in Int /\ count \in Int
        /\ query' = <<[offset |-> offset, entries |-> GetRange(buffer, offset, count)]>>
    BY <1>5 DEF GetHistory, StoreOnly, store, record
  <2>2. query'[1].offset = offset /\ query'[1].entries = GetRange(buffer, offset, count)
    BY <2>1
  <2>3. NoGap(GetRange(buffer, offset, count))
    BY <2>1, PageNoGap
  <2>4. Fits(query[1])'
    BY <2>1, <2>2, <2>3, GetRangeFacts DEF Fits, NoGap
  <2> QED BY <2>1, <2>4 DEF Recent, AnswerFits, HistoryAnswerFits, NoGap
<1>6. CASE GetBufferCount
  <2>1. /\ UNCHANGED <<buffer, maxSize, pushed>> /\ query # <<>> /\ query' = <<>>
        /\ answer' = <<[offset |-> query[1].offset, entries |-> query[1].entries,
                        total |-> Len(buffer)]>>
    BY <1>6 DEF GetBufferCount, vars, store, record
  <2>2. /\ answer'[1].offset = query[1].offset /\ answer'[1].entries = query[1].entries
        /\ answer'[1].total = Len(buffer)
    BY <2>1
  <2>3. AnswerFits'
    BY <2>1, <2>2 DEF AnswerFits, HistoryAnswerFits, Fits, NoGap
  <2> QED BY <2>1, <2>3 DEF Recent
<1>7. CASE (UNCHANGED vars /\ UNCHANGED <<query, answer>>) \/ UNCHANGED apiVars
  <2>1. UNCHANGED <<buffer, maxSize, pushed, query, answer>>
    BY <1>7 DEF vars, store, record, apiVars, requests
  <2> QED BY <1>1, <2>1
<1>8. CASE \/ FillEvents \/ (\E t \in Thread, n \in Name : SignalEvent(t, n))
           \/ (\E verb \in {"subscribe", "unsubscribe"}, names \in NameList :
                 BeginRequest(verb, names))
           \/ Subscribe \/ Unsubscribe \/ ClearSubscriptions
  <2>1. UNCHANGED vars /\ UNCHANGED <<query, answer>>
    BY <1>8 DEF FillEvents, SignalEvent, BeginRequest, Subscribe, Unsubscribe,
                ClearSubscriptions, requests
  <2> QED BY <1>7, <2>1
<1>9. CASE (\E t \in Thread : PushSignalled(t)) \/ PushOwnEvent
  <2>1. \E t \in Thread : PushToHistory(t) /\ UNCHANGED <<query, answer>>
    BY <1>9 DEF PushSignalled, PushOwnEvent, requests, Thread
  <2> QED BY <1>2, <2>1
<1>10. CASE UNCHANGED requests
            /\ ((\E t \in Thread : PushToQueue(t))
                \/ AcceptThread \/ WriteThread \/ ClientOpens \/ ClientLeaves)
  <2>1. UNCHANGED <<buffer, maxSize, pushed>>
    <3>1. ASSUME NEW t \in Thread, PushToQueue(t) PROVE UNCHANGED <<buffer, maxSize, pushed>>
      BY <3>1 DEF PushToQueue, store, record
    <3> QED BY <1>10, <3>1, AcceptFrame, WriteFrame, ClientFrame
  <2>2. UNCHANGED <<query, answer>>
    BY <1>10 DEF requests
  <2> QED BY <1>1, <2>1, <2>2
<1> QED BY <1>3, <1>4, <1>5, <1>6, <1>7, <1>8, <1>9, <1>10 DEF ApiNext

(* The history ends with the newest event and has no gap, and neither has  *)
(* a page of it.                                                           *)
THEOREM HistoryStaysRecent == ApiSpec => []HistoryIsRecent
<1>1. HistoryInv => HistoryIsRecent
  BY DEF HistoryInv, Recent, AnswerFits, NoGap, HistoryIsRecent
<1> QED BY <1>1, InitHistory, StepHistory, PTL DEF ApiSpec

(* The total that getHistory reports covers the entries it returns.        *)
THEOREM AnswersFit == ApiSpec => []HistoryAnswerFits
<1>1. HistoryInv => HistoryAnswerFits
  BY DEF HistoryInv, AnswerFits
<1> QED BY <1>1, InitHistory, StepHistory, PTL DEF ApiSpec
==============================================================================
