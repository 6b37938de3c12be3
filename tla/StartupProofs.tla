--------------------------- MODULE StartupProofs ----------------------------
(***************************************************************************)
(* Proofs about Startup for any number of clients, connections and         *)
(* commands: the command pipe never hangs up on a client that asked.       *)
(***************************************************************************)
EXTENDS Startup, TLAPS

\* Until a client has its answer the instance it opened is still its own.
StillJoined == \A c \in Client : conn[c] \in {"open", "asked"} => Joined(c)

\* What the server may find of the client it is joined with.
ClientInStep ==
    inst.st = "connected" =>
      /\ server \in {"connect", "read"} =>
           \/ conn[inst.by] = "open" /\ inst.msg = "none"
           \/ conn[inst.by] = "asked" /\ inst.msg = "request"
      /\ server = "write" => conn[inst.by] = "asked" /\ inst.msg = "none"
      /\ server = "flush" =>
           \/ conn[inst.by] = "asked" /\ inst.msg = "response"
           \/ conn[inst.by] = "answered" /\ inst.msg = "none"
      /\ server = "close" => conn[inst.by] = "answered" /\ inst.msg = "none"

\* There is an instance exactly while the server thread holds one; it listens
\* only before a client came, and is empty then.
ServerInStep ==
    /\ server \in {"off", "create"} => inst.st = "none"
    /\ server = "connect" => inst.st \in {"listening", "connected", "left"}
    /\ server \in {"read", "write", "flush", "close"} => inst.st \in {"connected", "left"}
    /\ inst.st \in {"none", "listening"} => inst.msg = "none"

\* The injector's handle is closed between commands, and a request of its
\* that waits in the pipe is the command it is at.
InjectorInStep ==
    /\ injector \notin {"probed", "sending"} => conn[Injector] = "closed"
    /\ injector = "probed" => conn[Injector] = "open"
    /\ injector = "sending" => command \in 1 .. Commands
    /\ inst.msg = "request" /\ inst.by = Injector =>
         injector = "sending" /\ conn[Injector] = "asked"

\* The server thread is created once.
ServerStarted == attached < 8 => server = "off"

IInv == /\ TypeOK /\ StillJoined /\ ClientInStep /\ ServerInStep /\ InjectorInStep
        /\ ServerStarted /\ SentIsAnswered

LEMMA PartsFacts ==
    /\ Len(Parts) = 9
    /\ \A i \in 1 .. 9 : Parts[i] = "server" <=> i = 8
BY DEF Parts

LEMMA CommandRange ==
    ASSUME TypeOK
    PROVE  /\ command <= Commands => command \in 1 .. Commands
           /\ command \in 1 .. Commands => command + 1 \in 1 .. Commands + 1
<1>1. Commands \in Nat /\ command \in 1 .. Commands + 1
  BY StartupAssumption DEF TypeOK
<1> QED BY <1>1

LEMMA InitIInv == Init => IInv
<1> SUFFICES ASSUME Init PROVE IInv
  OBVIOUS
<1> USE StartupAssumption DEF Init, NoInstance
<1>1. TypeOK
  <2>1. dispatched \in Seq(1 .. Commands) /\ attached \in 0 .. Len(Parts)
        /\ firstFrame \in 0 .. Len(Parts)
    BY PartsFacts
  <2>2. command \in 1 .. Commands + 1 /\ calls \in [Cli -> 0 .. MaxCalls]
    OBVIOUS
  <2>3. inst \in [st : {"none", "listening", "connected", "left"}, by : Client,
                  msg : {"none", "request", "response"}]
    BY DEF Client
  <2> QED BY <2>1, <2>2, <2>3 DEF TypeOK
<1>2. StillJoined /\ ClientInStep /\ ServerInStep
  BY DEF StillJoined, ClientInStep, ServerInStep, Client
<1>3. InjectorInStep /\ ServerStarted /\ SentIsAnswered
  BY DEF InjectorInStep, ServerStarted, SentIsAnswered, Client
<1> QED BY <1>1, <1>2, <1>3 DEF IInv

-----------------------------------------------------------------------------
LEMMA OnAttachIInv == ASSUME IInv, OnAttach PROVE IInv'
<1>a. attached \in 0 .. 9 /\ firstFrame \in 0 .. 9
  BY PartsFacts DEF IInv, TypeOK
<1>0. /\ attached \in 0 .. 8 /\ attached' = attached + 1
      /\ server' = IF attached = 7 THEN "create" ELSE server
  BY <1>a, PartsFacts DEF OnAttach
<1>b. attached' \in 0 .. Len(Parts)
  BY <1>0, PartsFacts
<1> USE StartupAssumption DEF IInv, OnAttach, game, inject, Joined, Client
<1>1. TypeOK'
  BY <1>0, <1>b DEF TypeOK
<1>2. StillJoined'
  BY DEF TypeOK, StillJoined, ClientInStep
<1>3. ClientInStep'
  BY DEF TypeOK, StillJoined, ClientInStep, ServerInStep
<1>4. ServerInStep'
  BY <1>0 DEF ServerInStep, ServerStarted
<1>5. InjectorInStep'
  BY DEF TypeOK, StillJoined, ClientInStep, ServerInStep, InjectorInStep
<1>6. ServerStarted' /\ SentIsAnswered'
  BY <1>0 DEF ServerStarted, SentIsAnswered
<1> QED BY <1>1, <1>2, <1>3, <1>4, <1>5, <1>6

LEMMA FrameIInv == ASSUME IInv, Frame PROVE IInv'
<1> USE StartupAssumption DEF IInv, Frame, game, inject, Joined, Client
<1>1. TypeOK'
  BY PartsFacts DEF TypeOK
<1>2. StillJoined'
  BY DEF TypeOK, StillJoined, ClientInStep
<1>3. ClientInStep'
  BY DEF TypeOK, StillJoined, ClientInStep, ServerInStep
<1>4. ServerInStep'
  BY DEF TypeOK, ServerInStep, ServerStarted
<1>5. InjectorInStep'
  BY DEF TypeOK, StillJoined, ClientInStep, ServerInStep, InjectorInStep
<1>6. ServerStarted' /\ SentIsAnswered'
  BY PartsFacts DEF ServerStarted, SentIsAnswered
<1> QED BY <1>1, <1>2, <1>3, <1>4, <1>5, <1>6

LEMMA CreatePipeIInv == ASSUME IInv, CreatePipe PROVE IInv'
<1> USE StartupAssumption DEF IInv, CreatePipe, NoInstance, game, inject, Joined, Client
<1>1. TypeOK'
  BY PartsFacts DEF TypeOK
<1>2. StillJoined'
  <2>1. inst.st = "none"
    BY DEF ServerInStep
  <2> QED BY <2>1 DEF StillJoined
<1>3. ClientInStep'
  BY DEF TypeOK, StillJoined, ClientInStep, ServerInStep
<1>4. ServerInStep'
  BY DEF TypeOK, ServerInStep, ServerStarted
<1>5. InjectorInStep'
  BY DEF TypeOK, StillJoined, ClientInStep, ServerInStep, InjectorInStep
<1>6. ServerStarted' /\ SentIsAnswered'
  BY PartsFacts DEF ServerStarted, SentIsAnswered
<1> QED BY <1>1, <1>2, <1>3, <1>4, <1>5, <1>6

LEMMA ConnectPipeIInv == ASSUME IInv, ConnectPipe PROVE IInv'
<1> USE StartupAssumption DEF IInv, ConnectPipe, game, inject, Joined, Client
<1>1. TypeOK'
  BY PartsFacts DEF TypeOK
<1>2. StillJoined'
  BY DEF TypeOK, StillJoined, ClientInStep
<1>3. ClientInStep'
  BY DEF TypeOK, StillJoined, ClientInStep, ServerInStep
<1>4. ServerInStep'
  BY DEF TypeOK, ServerInStep, ServerStarted
<1>5. InjectorInStep'
  BY DEF TypeOK, StillJoined, ClientInStep, ServerInStep, InjectorInStep
<1>6. ServerStarted' /\ SentIsAnswered'
  BY PartsFacts DEF ServerStarted, SentIsAnswered
<1> QED BY <1>1, <1>2, <1>3, <1>4, <1>5, <1>6

LEMMA ReadRequestIInv == ASSUME IInv, ReadRequest PROVE IInv'
<1>0. dispatched' \in Seq(1 .. Commands)
  <2>1. inst.msg = "request" /\ inst.by = Injector => command \in 1 .. Commands
    BY DEF IInv, InjectorInStep
  <2>2. dispatched \in Seq(1 .. Commands)
    BY DEF IInv, TypeOK
  <2>3. CASE inst.msg = "request" /\ inst.by = Injector
    BY <2>1, <2>2, <2>3 DEF ReadRequest
  <2>4. CASE ~(inst.msg = "request" /\ inst.by = Injector)
    BY <2>2, <2>4 DEF ReadRequest
  <2> QED BY <2>3, <2>4
<1> USE StartupAssumption DEF IInv, ReadRequest, game, inject, Joined, Client
<1>1. TypeOK'
  <2>1. inst' \in [st : {"none", "listening", "connected", "left"}, by : Client,
                   msg : {"none", "request", "response"}]
    BY DEF TypeOK
  <2> QED BY <1>0, <2>1 DEF TypeOK
<1>2. StillJoined'
  BY DEF TypeOK, StillJoined, ClientInStep
<1>3. ClientInStep'
  BY DEF TypeOK, StillJoined, ClientInStep, ServerInStep
<1>4. ServerInStep'
  BY DEF TypeOK, ServerInStep, ServerStarted
<1>5. InjectorInStep'
  BY DEF TypeOK, StillJoined, ClientInStep, ServerInStep, InjectorInStep
<1>6. ServerStarted' /\ SentIsAnswered'
  BY PartsFacts DEF ServerStarted, SentIsAnswered
<1> QED BY <1>1, <1>2, <1>3, <1>4, <1>5, <1>6

LEMMA WriteResponseIInv == ASSUME IInv, WriteResponse PROVE IInv'
<1> USE StartupAssumption DEF IInv, WriteResponse, game, inject, Joined, Client
<1>1. TypeOK'
  BY PartsFacts DEF TypeOK
<1>2. StillJoined'
  BY DEF TypeOK, StillJoined, ClientInStep
<1>3. ClientInStep'
  BY DEF TypeOK, StillJoined, ClientInStep, ServerInStep
<1>4. ServerInStep'
  BY DEF TypeOK, ServerInStep, ServerStarted
<1>5. InjectorInStep'
  BY DEF TypeOK, StillJoined, ClientInStep, ServerInStep, InjectorInStep
<1>6. ServerStarted' /\ SentIsAnswered'
  BY PartsFacts DEF ServerStarted, SentIsAnswered
<1> QED BY <1>1, <1>2, <1>3, <1>4, <1>5, <1>6

LEMMA FlushPipeIInv == ASSUME IInv, FlushPipe PROVE IInv'
<1> USE StartupAssumption DEF IInv, FlushPipe, game, inject, Joined, Client
<1>1. TypeOK'
  BY PartsFacts DEF TypeOK
<1>2. StillJoined'
  BY DEF TypeOK, StillJoined, ClientInStep
<1>3. ClientInStep'
  BY DEF TypeOK, StillJoined, ClientInStep, ServerInStep
<1>4. ServerInStep'
  BY DEF TypeOK, ServerInStep, ServerStarted
<1>5. InjectorInStep'
  BY DEF TypeOK, StillJoined, ClientInStep, ServerInStep, InjectorInStep
<1>6. ServerStarted' /\ SentIsAnswered'
  BY PartsFacts DEF ServerStarted, SentIsAnswered
<1> QED BY <1>1, <1>2, <1>3, <1>4, <1>5, <1>6

LEMMA ClosePipeIInv == ASSUME IInv, ClosePipe PROVE IInv'
<1> USE StartupAssumption DEF IInv, ClosePipe, NoInstance, game, inject, Joined, Client
<1>1. TypeOK'
  BY PartsFacts DEF TypeOK
<1>2. StillJoined'
  BY DEF TypeOK, StillJoined, ClientInStep
<1>3. ClientInStep'
  BY DEF TypeOK, StillJoined, ClientInStep, ServerInStep
<1>4. ServerInStep'
  BY DEF TypeOK, ServerInStep, ServerStarted
<1>5. InjectorInStep'
  BY DEF TypeOK, StillJoined, ClientInStep, ServerInStep, InjectorInStep
<1>6. ServerStarted' /\ SentIsAnswered'
  BY PartsFacts DEF ServerStarted, SentIsAnswered
<1> QED BY <1>1, <1>2, <1>3, <1>4, <1>5, <1>6

LEMMA CliOpensIInv == ASSUME IInv, NEW c \in Cli, CliOpens(c) PROVE IInv'
<1>0. calls' \in [Cli -> 0 .. MaxCalls]
  <2>1. calls \in [Cli -> 0 .. MaxCalls] /\ MaxCalls \in Nat
    BY StartupAssumption DEF IInv, TypeOK
  <2>2. calls[c] + 1 \in 0 .. MaxCalls
    BY <2>1 DEF CliOpens
  <2> QED BY <2>1, <2>2 DEF CliOpens
<1> USE StartupAssumption DEF IInv, CliOpens, Open, game, inject, Joined, Client
<1>1. TypeOK'
  <2>1. inst' \in [st : {"none", "listening", "connected", "left"}, by : Client,
                   msg : {"none", "request", "response"}]
    BY DEF TypeOK
  <2>2. conn' \in [Client -> {"closed", "open", "asked", "answered"}]
    BY DEF TypeOK
  <2> QED BY <1>0, <2>1, <2>2 DEF TypeOK
<1>2. StillJoined'
  BY DEF TypeOK, StillJoined, ClientInStep
<1>3. ClientInStep'
  BY DEF TypeOK, StillJoined, ClientInStep, ServerInStep
<1>4. ServerInStep'
  BY DEF TypeOK, ServerInStep, ServerStarted
<1>5. InjectorInStep'
  BY DEF TypeOK, StillJoined, ClientInStep, ServerInStep, InjectorInStep
<1>6. ServerStarted' /\ SentIsAnswered'
  BY PartsFacts DEF ServerStarted, SentIsAnswered
<1> QED BY <1>1, <1>2, <1>3, <1>4, <1>5, <1>6

LEMMA CliMovesIInv == ASSUME IInv, NEW c \in Cli, CliMoves(c) PROVE IInv'
<1> USE StartupAssumption DEF IInv, CliMoves, game, inject, Joined, Client
<1>1. /\ Joined(c) /\ c # Injector /\ inst'.by = c /\ inst'.st = "connected"
      /\ conn' = [conn EXCEPT ![c] = conn'[c]]
      /\ \/ conn[c] = "open" /\ inst'.msg = "request" /\ conn'[c] = "asked"
         \/ /\ conn[c] = "asked" /\ inst.msg = "response"
            /\ inst'.msg = "none" /\ conn'[c] = "answered"
  BY DEF Write, Read, TypeOK
<1>2. TypeOK'
  <2>1. inst' \in [st : {"none", "listening", "connected", "left"}, by : Client,
                   msg : {"none", "request", "response"}]
    BY DEF Write, Read, TypeOK
  <2>2. conn' \in [Client -> {"closed", "open", "asked", "answered"}]
    BY DEF Write, Read, TypeOK
  <2> QED BY <2>1, <2>2 DEF TypeOK
<1>3. StillJoined'
  BY <1>1 DEF TypeOK, StillJoined
<1>4. ClientInStep'
  BY <1>1 DEF ClientInStep
<1>5. ServerInStep'
  BY <1>1 DEF ServerInStep
<1>6. InjectorInStep'
  <2>1. conn'[Injector] = conn[Injector]
    BY <1>1 DEF TypeOK
  <2> QED BY <1>1, <2>1 DEF InjectorInStep
<1>7. ServerStarted' /\ SentIsAnswered'
  BY DEF ServerStarted, SentIsAnswered
<1> QED BY <1>2, <1>3, <1>4, <1>5, <1>6, <1>7

LEMMA CliLeavesIInv == ASSUME IInv, NEW c \in Cli, CliLeaves(c) PROVE IInv'
<1> USE StartupAssumption DEF IInv, CliLeaves, Close, game, inject, Joined, Client
<1>1. TypeOK'
  BY PartsFacts DEF TypeOK
<1>2. StillJoined'
  BY DEF TypeOK, StillJoined, ClientInStep
<1>3. ClientInStep'
  BY DEF TypeOK, StillJoined, ClientInStep, ServerInStep
<1>4. ServerInStep'
  BY DEF TypeOK, ServerInStep, ServerStarted
<1>5. InjectorInStep'
  BY DEF TypeOK, StillJoined, ClientInStep, ServerInStep, InjectorInStep
<1>6. ServerStarted' /\ SentIsAnswered'
  BY PartsFacts DEF ServerStarted, SentIsAnswered
<1> QED BY <1>1, <1>2, <1>3, <1>4, <1>5, <1>6

LEMMA InjectDllIInv == ASSUME IInv, InjectDll PROVE IInv'
<1> USE StartupAssumption DEF IInv, InjectDll, Go, Joined, Client
<1>1. TypeOK'
  BY PartsFacts DEF TypeOK
<1>2. StillJoined'
  BY DEF TypeOK, StillJoined, ClientInStep
<1>3. ClientInStep'
  BY DEF TypeOK, StillJoined, ClientInStep, ServerInStep
<1>4. ServerInStep'
  BY DEF TypeOK, ServerInStep, ServerStarted
<1>5. InjectorInStep'
  BY DEF TypeOK, StillJoined, ClientInStep, ServerInStep, InjectorInStep
<1>6. ServerStarted' /\ SentIsAnswered'
  BY PartsFacts DEF ServerStarted, SentIsAnswered
<1> QED BY <1>1, <1>2, <1>3, <1>4, <1>5, <1>6

LEMMA ProbePipeIInv == ASSUME IInv, ProbePipe PROVE IInv'
<1> USE StartupAssumption DEF IInv, ProbePipe, Open, Go, Joined, Client
<1>1. TypeOK'
  BY PartsFacts DEF TypeOK
<1>2. StillJoined'
  BY DEF TypeOK, StillJoined, ClientInStep
<1>3. ClientInStep'
  BY DEF TypeOK, StillJoined, ClientInStep, ServerInStep
<1>4. ServerInStep'
  BY DEF TypeOK, ServerInStep, ServerStarted
<1>5. InjectorInStep'
  BY DEF TypeOK, StillJoined, ClientInStep, ServerInStep, InjectorInStep
<1>6. ServerStarted' /\ SentIsAnswered'
  BY PartsFacts DEF ServerStarted, SentIsAnswered
<1> QED BY <1>1, <1>2, <1>3, <1>4, <1>5, <1>6

LEMMA ProbeTimeoutIInv == ASSUME IInv, ProbeTimeout PROVE IInv'
<1> USE StartupAssumption DEF IInv, ProbeTimeout, Go, Joined, Client
<1>1. TypeOK'
  BY PartsFacts DEF TypeOK
<1>2. StillJoined'
  BY DEF TypeOK, StillJoined, ClientInStep
<1>3. ClientInStep'
  BY DEF TypeOK, StillJoined, ClientInStep, ServerInStep
<1>4. ServerInStep'
  BY DEF TypeOK, ServerInStep, ServerStarted
<1>5. InjectorInStep'
  BY DEF TypeOK, StillJoined, ClientInStep, ServerInStep, InjectorInStep
<1>6. ServerStarted' /\ SentIsAnswered'
  BY PartsFacts DEF ServerStarted, SentIsAnswered
<1> QED BY <1>1, <1>2, <1>3, <1>4, <1>5, <1>6

LEMMA CloseProbeIInv == ASSUME IInv, CloseProbe PROVE IInv'
<1> USE StartupAssumption DEF IInv, CloseProbe, Close, Go, Joined, Client
<1>1. TypeOK'
  BY PartsFacts DEF TypeOK
<1>2. StillJoined'
  BY DEF TypeOK, StillJoined, ClientInStep
<1>3. ClientInStep'
  BY DEF TypeOK, StillJoined, ClientInStep, ServerInStep
<1>4. ServerInStep'
  BY DEF TypeOK, ServerInStep, ServerStarted
<1>5. InjectorInStep'
  BY DEF TypeOK, StillJoined, ClientInStep, ServerInStep, InjectorInStep
<1>6. ServerStarted' /\ SentIsAnswered'
  BY PartsFacts DEF ServerStarted, SentIsAnswered
<1> QED BY <1>1, <1>2, <1>3, <1>4, <1>5, <1>6

LEMMA WaitBlindlyIInv == ASSUME IInv, WaitBlindly PROVE IInv'
<1> USE StartupAssumption DEF IInv, WaitBlindly, Go, Joined, Client
<1>1. TypeOK'
  BY PartsFacts DEF TypeOK
<1>2. StillJoined'
  BY DEF TypeOK, StillJoined, ClientInStep
<1>3. ClientInStep'
  BY DEF TypeOK, StillJoined, ClientInStep, ServerInStep
<1>4. ServerInStep'
  BY DEF TypeOK, ServerInStep, ServerStarted
<1>5. InjectorInStep'
  BY DEF TypeOK, StillJoined, ClientInStep, ServerInStep, InjectorInStep
<1>6. ServerStarted' /\ SentIsAnswered'
  BY PartsFacts DEF ServerStarted, SentIsAnswered
<1> QED BY <1>1, <1>2, <1>3, <1>4, <1>5, <1>6

LEMMA ResumeGameIInv == ASSUME IInv, ResumeGame PROVE IInv'
<1> USE StartupAssumption DEF IInv, ResumeGame, Go, Joined, Client
<1>1. TypeOK'
  BY PartsFacts DEF TypeOK
<1>2. StillJoined'
  BY DEF TypeOK, StillJoined, ClientInStep
<1>3. ClientInStep'
  BY DEF TypeOK, StillJoined, ClientInStep, ServerInStep
<1>4. ServerInStep'
  BY DEF TypeOK, ServerInStep, ServerStarted
<1>5. InjectorInStep'
  BY DEF TypeOK, StillJoined, ClientInStep, ServerInStep, InjectorInStep
<1>6. ServerStarted' /\ SentIsAnswered'
  BY PartsFacts DEF ServerStarted, SentIsAnswered
<1> QED BY <1>1, <1>2, <1>3, <1>4, <1>5, <1>6

LEMMA PauseIInv == ASSUME IInv, Pause PROVE IInv'
<1> USE StartupAssumption DEF IInv, Pause, Go, Joined, Client
<1>1. TypeOK'
  BY PartsFacts DEF TypeOK
<1>2. StillJoined'
  BY DEF TypeOK, StillJoined, ClientInStep
<1>3. ClientInStep'
  BY DEF TypeOK, StillJoined, ClientInStep, ServerInStep
<1>4. ServerInStep'
  BY DEF TypeOK, ServerInStep, ServerStarted
<1>5. InjectorInStep'
  BY DEF TypeOK, StillJoined, ClientInStep, ServerInStep, InjectorInStep
<1>6. ServerStarted' /\ SentIsAnswered'
  BY PartsFacts DEF ServerStarted, SentIsAnswered
<1> QED BY <1>1, <1>2, <1>3, <1>4, <1>5, <1>6

LEMMA OpenCommandIInv == ASSUME IInv, OpenCommand PROVE IInv'
<1>0. command \in 1 .. Commands
  BY CommandRange DEF IInv, OpenCommand
<1> USE StartupAssumption DEF IInv, OpenCommand, Open, Go, Joined, Client
<1>1. TypeOK'
  BY PartsFacts DEF TypeOK
<1>2. StillJoined'
  BY DEF TypeOK, StillJoined, ClientInStep
<1>3. ClientInStep'
  BY DEF TypeOK, StillJoined, ClientInStep, ServerInStep
<1>4. ServerInStep'
  BY DEF TypeOK, ServerInStep, ServerStarted
<1>5. InjectorInStep'
  <2>1. inst'.msg = "none"
    BY DEF TypeOK, ServerInStep
  <2> QED BY <1>0, <2>1 DEF InjectorInStep
<1>6. ServerStarted' /\ SentIsAnswered'
  BY PartsFacts DEF ServerStarted, SentIsAnswered
<1> QED BY <1>1, <1>2, <1>3, <1>4, <1>5, <1>6

LEMMA WriteCommandIInv == ASSUME IInv, WriteCommand PROVE IInv'
<1> USE StartupAssumption DEF IInv, WriteCommand, Write, Go, Joined, Client
<1>1. TypeOK'
  BY PartsFacts DEF TypeOK
<1>2. StillJoined'
  BY DEF TypeOK, StillJoined, ClientInStep
<1>3. ClientInStep'
  BY DEF TypeOK, StillJoined, ClientInStep, ServerInStep
<1>4. ServerInStep'
  BY DEF TypeOK, ServerInStep, ServerStarted
<1>5. InjectorInStep'
  BY DEF TypeOK, StillJoined, ClientInStep, ServerInStep, InjectorInStep
<1>6. ServerStarted' /\ SentIsAnswered'
  BY PartsFacts DEF ServerStarted, SentIsAnswered
<1> QED BY <1>1, <1>2, <1>3, <1>4, <1>5, <1>6

LEMMA ReadAnswerIInv == ASSUME IInv, ReadAnswer PROVE IInv'
<1> USE StartupAssumption DEF IInv, ReadAnswer, Read, Go, Joined, Client
<1>1. TypeOK'
  BY PartsFacts DEF TypeOK
<1>2. StillJoined'
  BY DEF TypeOK, StillJoined, ClientInStep
<1>3. ClientInStep'
  BY DEF TypeOK, StillJoined, ClientInStep, ServerInStep
<1>4. ServerInStep'
  BY DEF TypeOK, ServerInStep, ServerStarted
<1>5. InjectorInStep'
  BY DEF TypeOK, StillJoined, ClientInStep, ServerInStep, InjectorInStep
<1>6. ServerStarted' /\ SentIsAnswered'
  BY PartsFacts DEF ServerStarted, SentIsAnswered
<1> QED BY <1>1, <1>2, <1>3, <1>4, <1>5, <1>6

LEMMA OpenFailsIInv == ASSUME IInv, OpenFails PROVE IInv'
<1>0. command \in 1 .. Commands
  BY CommandRange DEF IInv, OpenFails
<1>a. command' \in 1 .. Commands + 1
  BY <1>0, CommandRange DEF IInv, OpenFails, Tell
<1> USE StartupAssumption DEF IInv, OpenFails, Tell, Go, Joined, Client
<1>1. TypeOK'
  <2>1. outcome' \in [1 .. Commands -> {"none", "notSent", "failed", "response"}]
    BY <1>0 DEF TypeOK
  <2> QED BY <1>a, <2>1 DEF TypeOK
<1>2. StillJoined'
  BY DEF TypeOK, StillJoined, ClientInStep
<1>3. ClientInStep'
  BY DEF TypeOK, StillJoined, ClientInStep, ServerInStep
<1>4. ServerInStep'
  BY DEF TypeOK, ServerInStep, ServerStarted
<1>5. InjectorInStep'
  BY DEF TypeOK, StillJoined, ClientInStep, ServerInStep, InjectorInStep
<1>6. ServerStarted' /\ SentIsAnswered'
  BY PartsFacts DEF TypeOK, ServerStarted, SentIsAnswered
<1> QED BY <1>1, <1>2, <1>3, <1>4, <1>5, <1>6

LEMMA CommandReturnsIInv == ASSUME IInv, CommandReturns PROVE IInv'
<1>0. command \in 1 .. Commands
  BY DEF IInv, InjectorInStep, CommandReturns
<1>a. command' \in 1 .. Commands + 1
  BY <1>0, CommandRange DEF IInv, CommandReturns, Tell
<1> USE StartupAssumption DEF IInv, CommandReturns, Tell, Close, Broken, Go, Joined, Client
<1>1. TypeOK'
  <2>1. outcome' \in [1 .. Commands -> {"none", "notSent", "failed", "response"}]
    BY <1>0 DEF TypeOK
  <2>2. inst' \in [st : {"none", "listening", "connected", "left"}, by : Client,
                   msg : {"none", "request", "response"}]
    BY DEF TypeOK
  <2>3. conn' \in [Client -> {"closed", "open", "asked", "answered"}]
    BY DEF TypeOK
  <2> QED BY <1>a, <2>1, <2>2, <2>3 DEF TypeOK
<1>2. StillJoined'
  BY DEF TypeOK, StillJoined, ClientInStep
<1>3. ClientInStep'
  BY DEF TypeOK, StillJoined, ClientInStep, ServerInStep
<1>4. ServerInStep'
  BY DEF TypeOK, ServerInStep, ServerStarted
<1>5. InjectorInStep'
  BY DEF TypeOK, StillJoined, ClientInStep, ServerInStep, InjectorInStep
<1>6. ServerStarted' /\ SentIsAnswered'
  BY PartsFacts DEF ServerStarted, SentIsAnswered, StillJoined
<1> QED BY <1>1, <1>2, <1>3, <1>4, <1>5, <1>6

LEMMA AllSentIInv == ASSUME IInv, AllSent PROVE IInv'
<1> USE StartupAssumption DEF IInv, AllSent, Go, Joined, Client
<1>1. TypeOK'
  BY PartsFacts DEF TypeOK
<1>2. StillJoined'
  BY DEF TypeOK, StillJoined, ClientInStep
<1>3. ClientInStep'
  BY DEF TypeOK, StillJoined, ClientInStep, ServerInStep
<1>4. ServerInStep'
  BY DEF TypeOK, ServerInStep, ServerStarted
<1>5. InjectorInStep'
  BY DEF TypeOK, StillJoined, ClientInStep, ServerInStep, InjectorInStep
<1>6. ServerStarted' /\ SentIsAnswered'
  BY PartsFacts DEF ServerStarted, SentIsAnswered
<1> QED BY <1>1, <1>2, <1>3, <1>4, <1>5, <1>6

-----------------------------------------------------------------------------
LEMMA StepIInv == IInv /\ [Next]_vars => IInv'
<1> SUFFICES ASSUME IInv, [Next]_vars PROVE IInv'
  OBVIOUS
<1>1. CASE OnAttach \/ Frame
  BY <1>1, OnAttachIInv, FrameIInv
<1>2. CASE Server
  BY <1>2, CreatePipeIInv, ConnectPipeIInv, ReadRequestIInv, WriteResponseIInv,
     FlushPipeIInv, ClosePipeIInv DEF Server
<1>3. CASE Inject
  <2>1. CASE InjectDll \/ ProbePipe \/ ProbeTimeout \/ CloseProbe \/ WaitBlindly
               \/ ResumeGame \/ Pause
    BY <2>1, InjectDllIInv, ProbePipeIInv, ProbeTimeoutIInv, CloseProbeIInv,
       WaitBlindlyIInv, ResumeGameIInv, PauseIInv
  <2>2. CASE OpenCommand \/ WriteCommand \/ ReadAnswer \/ OpenFails
               \/ CommandReturns \/ AllSent
    BY <2>2, OpenCommandIInv, WriteCommandIInv, ReadAnswerIInv, OpenFailsIInv,
       CommandReturnsIInv, AllSentIInv
  <2> QED BY <1>3, <2>1, <2>2 DEF Inject
<1>4. ASSUME NEW c \in Cli, CliOpens(c) \/ CliMoves(c) \/ CliLeaves(c)
      PROVE  IInv'
  BY <1>4, CliOpensIInv, CliMovesIInv, CliLeavesIInv
<1>5. CASE UNCHANGED vars
  <2> USE <1>5 DEF vars, game, inject, IInv
  <2>1. TypeOK'
    BY DEF TypeOK
  <2>2. StillJoined' /\ ClientInStep'
    BY DEF StillJoined, Joined, ClientInStep
  <2>3. ServerInStep' /\ InjectorInStep'
    BY DEF ServerInStep, InjectorInStep
  <2>4. ServerStarted' /\ SentIsAnswered'
    BY DEF ServerStarted, SentIsAnswered
  <2> QED BY <2>1, <2>2, <2>3, <2>4
<1> QED BY <1>1, <1>2, <1>3, <1>4, <1>5 DEF Next

LEMMA InvariantIInv == Spec => []IInv
BY InitIInv, StepIInv, PTL DEF Spec

-----------------------------------------------------------------------------
(* Commands are dispatched in order: the invariant on top of IInv.         *)

\* The command the injector is at has been dispatched.
Done == \E i \in DOMAIN dispatched : dispatched[i] = command

\* Nothing beyond the current command has been dispatched.
NoneAhead == \A i \in DOMAIN dispatched : dispatched[i] <= command

\* Once dispatched, the command waits for its response or has it, and is not
\* in the pipe any more; what the server writes, has written, or the injector
\* has read on its handle is a response to a command that was dispatched.
DoneInStep ==
    /\ Done => /\ injector = "sending" /\ conn[Injector] \in {"asked", "answered"}
               /\ ~(inst.msg = "request" /\ inst.by = Injector)
    /\ server = "write" /\ Joined(Injector) => Done
    /\ inst.msg = "response" /\ Joined(Injector) => Done
    /\ conn[Injector] = "answered" => Done

SentInv == CommandsInOrder /\ NoneAhead /\ DoneInStep

LEMMA InitSent == Init => SentInv
<1> SUFFICES ASSUME Init PROVE SentInv
  OBVIOUS
<1>1. dispatched = <<>> /\ DOMAIN dispatched = {}
  BY DEF Init
<1>2. \A k \in 1 .. Commands : outcome[k] = "none"
  BY DEF Init
<1>3. server = "off" /\ inst.msg = "none" /\ conn[Injector] = "closed"
  BY DEF Init, NoInstance, Client
<1>4. CommandsInOrder /\ NoneAhead
  BY <1>1, <1>2 DEF CommandsInOrder, NoneAhead
<1>5. DoneInStep
  BY <1>1, <1>3 DEF DoneInStep, Done
<1> QED BY <1>4, <1>5 DEF SentInv

\* What a step keeps that neither dispatches nor tells of a command.
LEMMA SameCommand ==
    ASSUME SentInv, UNCHANGED <<dispatched, command, outcome>>
    PROVE  CommandsInOrder' /\ NoneAhead' /\ (Done' <=> Done)
BY DEF SentInv, CommandsInOrder, NoneAhead, Done

LEMMA DllSent == ASSUME IInv, SentInv, OnAttach \/ Frame PROVE SentInv'
<1>1. UNCHANGED <<dispatched, command, outcome, inst, conn, injector>>
  BY DEF OnAttach, Frame, inject
<1>2. server' = "write" => server = "write"
  BY DEF OnAttach, Frame
<1>3. DoneInStep'
  BY <1>1, <1>2, SameCommand DEF SentInv, DoneInStep, Joined
<1> QED BY <1>1, <1>3, SameCommand DEF SentInv

LEMMA ReadRequestSent == ASSUME IInv, SentInv, ReadRequest PROVE SentInv'
<1>1. UNCHANGED <<command, outcome, conn, injector>>
  BY DEF ReadRequest, inject
<1>2. /\ inst'.msg = "none" /\ inst'.st = inst.st /\ inst'.by = inst.by
      /\ inst.msg = "request" \/ inst.st = "left"
  BY DEF ReadRequest, IInv, TypeOK
<1>3. dispatched \in Seq(1 .. Commands) /\ Commands \in Nat
  BY StartupAssumption DEF IInv, TypeOK
<1>4. CASE inst.msg = "request" /\ inst.by = Injector
  <2>1. dispatched' = Append(dispatched, command)
    BY <1>4 DEF ReadRequest
  <2>2. /\ injector = "sending" /\ conn[Injector] = "asked"
        /\ command \in 1 .. Commands
    BY <1>4 DEF IInv, InjectorInStep
  <2>3. ~Done
    BY <1>4 DEF SentInv, DoneInStep
  <2>4. \A i \in DOMAIN dispatched : dispatched[i] \in 1 .. Commands /\ dispatched[i] < command
    BY <1>3, <2>2, <2>3 DEF SentInv, NoneAhead, Done
  <2>5. /\ DOMAIN dispatched = 1 .. Len(dispatched) /\ Len(dispatched) \in Nat
        /\ DOMAIN dispatched' = 1 .. Len(dispatched) + 1
        /\ \A i \in DOMAIN dispatched : dispatched'[i] = dispatched[i]
        /\ dispatched'[Len(dispatched) + 1] = command
    BY <1>3, <2>1, <2>2
  <2>6. CommandsInOrder'
    <3>1. ASSUME NEW i \in DOMAIN dispatched', NEW j \in DOMAIN dispatched', i < j
          PROVE  dispatched'[i] < dispatched'[j]
      <4>1. i \in DOMAIN dispatched
        BY <2>5, <3>1
      <4>2. CASE j = Len(dispatched) + 1
        BY <2>4, <2>5, <4>1, <4>2
      <4>3. CASE j \in DOMAIN dispatched
        BY <2>5, <3>1, <4>1, <4>3 DEF SentInv, CommandsInOrder
      <4> QED BY <2>5, <4>2, <4>3
    <3>2. ASSUME NEW k \in 1 .. Commands, outcome'[k] = "response"
          PROVE  \E i \in DOMAIN dispatched' : dispatched'[i] = k
      <4>1. PICK i \in DOMAIN dispatched : dispatched[i] = k
        BY <1>1, <3>2 DEF SentInv, CommandsInOrder
      <4>2. i \in DOMAIN dispatched' /\ dispatched'[i] = k
        BY <2>5, <4>1
      <4> QED BY <4>2
    <3>3. ASSUME NEW i \in DOMAIN dispatched'
          PROVE  dispatched'[i] = command' \/ outcome'[dispatched'[i]] = "response"
      BY <1>1, <2>5, <3>3 DEF SentInv, CommandsInOrder
    <3> QED BY <3>1, <3>2, <3>3 DEF CommandsInOrder
  <2>7. NoneAhead'
    <3>1. ASSUME NEW i \in DOMAIN dispatched' PROVE dispatched'[i] <= command'
      BY <1>1, <2>2, <2>4, <2>5, <3>1
    <3> QED BY <3>1 DEF NoneAhead
  <2>8. Done'
    BY <1>1, <2>5 DEF Done
  <2>9. DoneInStep'
    BY <1>1, <1>2, <2>2, <2>8 DEF DoneInStep
  <2> QED BY <2>6, <2>7, <2>9 DEF SentInv
<1>5. CASE ~(inst.msg = "request" /\ inst.by = Injector)
  <2>1. dispatched' = dispatched
    BY <1>5 DEF ReadRequest
  <2>2. ~Joined(Injector)'
    BY <1>2, <1>5 DEF Joined
  <2>3. DoneInStep'
    BY <1>1, <1>2, <2>1, <2>2, SameCommand DEF SentInv, DoneInStep
  <2> QED BY <1>1, <2>1, <2>3, SameCommand DEF SentInv
<1> QED BY <1>4, <1>5

LEMMA ServerSent == ASSUME IInv, SentInv, Server PROVE SentInv'
<1> USE DEF SentInv
<1>1. ASSUME UNCHANGED <<dispatched, command, outcome, conn, injector>>, server' # "write",
             inst'.msg = "request" => inst.msg = "request" /\ inst.by = inst'.by,
             inst'.msg = "response" /\ Joined(Injector)' => Done
      PROVE  SentInv'
  <2>1. DoneInStep'
    BY <1>1, SameCommand DEF DoneInStep
  <2> QED BY <1>1, <2>1, SameCommand
<1>2. CASE CreatePipe
  <2>1. inst'.msg = "none"
    BY <1>2 DEF CreatePipe, NoInstance
  <2> QED BY <1>1, <1>2, <2>1 DEF CreatePipe, inject
<1>3. CASE ConnectPipe
  BY <1>1, <1>3 DEF ConnectPipe, inject, DoneInStep, Joined
<1>4. CASE ReadRequest
  BY <1>4, ReadRequestSent
<1>5. CASE WriteResponse
  <2>1. inst'.msg = "request" => inst.msg = "request" /\ inst.by = inst'.by
    BY <1>5 DEF WriteResponse, IInv, TypeOK
  <2>2. Joined(Injector)' => Done
    BY <1>5 DEF WriteResponse, IInv, TypeOK, Joined, DoneInStep
  <2> QED BY <1>1, <1>5, <2>1, <2>2 DEF WriteResponse, inject
<1>6. CASE FlushPipe
  BY <1>1, <1>6 DEF FlushPipe, inject, DoneInStep, Joined
<1>7. CASE ClosePipe
  <2>1. inst'.msg = "none"
    BY <1>7 DEF ClosePipe, NoInstance
  <2> QED BY <1>1, <1>7, <2>1 DEF ClosePipe, inject
<1> QED BY <1>2, <1>3, <1>4, <1>5, <1>6, <1>7 DEF Server

LEMMA CliSent ==
    ASSUME IInv, SentInv, NEW c \in Cli, CliOpens(c) \/ CliMoves(c) \/ CliLeaves(c)
    PROVE  SentInv'
<1>1. UNCHANGED <<dispatched, command, outcome, injector, server>> /\ c # Injector
  BY StartupAssumption DEF CliOpens, CliMoves, CliLeaves, inject
<1>2. conn'[Injector] = conn[Injector]
  BY <1>1 DEF CliOpens, CliMoves, CliLeaves, Open, Write, Read, Close, IInv, TypeOK, Client
<1>3. /\ Joined(Injector)' => Joined(Injector) /\ inst' = inst
      /\ inst'.msg = "request" /\ inst'.by = Injector => inst.msg = "request" /\ inst.by = Injector
  <2>t. inst \in [st : {"none", "listening", "connected", "left"}, by : Client,
                  msg : {"none", "request", "response"}]
    BY DEF IInv, TypeOK
  <2>1. CASE CliOpens(c)
    <3>1. inst'.by = c
      BY <2>t, <2>1 DEF CliOpens, Open
    <3> QED BY <1>1, <3>1 DEF Joined
  <2>2. CASE CliMoves(c)
    <3>1. inst'.by = c
      BY <2>t, <2>2 DEF CliMoves, Write, Read, Joined
    <3> QED BY <1>1, <3>1 DEF Joined
  <2>3. CASE CliLeaves(c)
    <3>1. CASE Joined(c)
      <4>1. inst'.st = "left" /\ inst'.by = inst.by /\ inst'.msg = inst.msg
        BY <2>t, <2>3, <3>1 DEF CliLeaves, Close
      <4> QED BY <4>1 DEF Joined
    <3>2. CASE ~Joined(c)
      BY <2>3, <3>2 DEF CliLeaves, Close, Joined
    <3> QED BY <3>1, <3>2
  <2> QED BY <2>1, <2>2, <2>3
<1>4. DoneInStep'
  BY <1>1, <1>2, <1>3, SameCommand DEF SentInv, DoneInStep
<1> QED BY <1>1, <1>4, SameCommand DEF SentInv

LEMMA InjectSent == ASSUME IInv, SentInv, Inject PROVE SentInv'
<1> USE DEF SentInv
<1>t. /\ conn \in [Client -> {"closed", "open", "asked", "answered"}] /\ Injector \in Client
      /\ inst \in [st : {"none", "listening", "connected", "left"}, by : Client,
                   msg : {"none", "request", "response"}]
  BY DEF IInv, TypeOK, Client
\* Nothing the injector does outside of "sending" touches a command that was
\* dispatched, since there is none.
<1>n. injector # "sending" => ~Done
  BY DEF DoneInStep
<1>1. CASE InjectDll \/ ProbeTimeout \/ WaitBlindly \/ ResumeGame \/ Pause \/ AllSent
  <2>1. /\ UNCHANGED <<dispatched, command, outcome, inst, conn, server>>
        /\ injector # "sending"
    BY <1>1 DEF InjectDll, ProbeTimeout, WaitBlindly, ResumeGame, Pause, AllSent, Go
  <2>2. DoneInStep'
    BY <1>n, <2>1, SameCommand DEF DoneInStep, Joined
  <2> QED BY <2>1, <2>2, SameCommand
<1>2. CASE ProbePipe \/ OpenCommand
  <2>1. /\ UNCHANGED <<dispatched, command, outcome, server>>
        /\ injector # "sending" /\ Open(Injector)
    BY <1>2 DEF ProbePipe, OpenCommand, Go
  <2>2. server = "connect" /\ inst'.msg = "none" /\ conn'[Injector] = "open"
    BY <1>t, <2>1 DEF Open, IInv, ServerInStep, TypeOK
  <2>3. DoneInStep'
    BY <1>n, <2>1, <2>2, SameCommand DEF DoneInStep
  <2> QED BY <2>1, <2>3, SameCommand
<1>3. CASE CloseProbe
  <2>1. /\ UNCHANGED <<dispatched, command, outcome, server>>
        /\ injector # "sending" /\ Close(Injector)
    BY <1>3 DEF CloseProbe, Go
  <2>2. conn'[Injector] = "closed" /\ ~Joined(Injector)'
    BY <1>t, <2>1 DEF Close, Joined
  <2>3. DoneInStep'
    BY <1>n, <2>1, <2>2, SameCommand DEF DoneInStep
  <2> QED BY <2>1, <2>3, SameCommand
<1>4. CASE WriteCommand
  <2>1. UNCHANGED <<dispatched, command, outcome, server>> /\ Write(Injector)
    BY <1>4 DEF WriteCommand, Go
  <2>2. ~Done
    BY <2>1 DEF DoneInStep, Write
  <2>3. inst'.msg = "request" /\ conn'[Injector] = "asked" /\ server # "write"
    BY <1>t, <2>1 DEF Write, Joined, IInv, ClientInStep
  <2>4. DoneInStep'
    BY <2>1, <2>2, <2>3, SameCommand DEF DoneInStep
  <2> QED BY <2>1, <2>4, SameCommand
<1>5. CASE ReadAnswer
  <2>1. /\ UNCHANGED <<dispatched, command, outcome, server>> /\ Read(Injector)
        /\ injector' = "sending"
    BY <1>5 DEF ReadAnswer, Go
  <2>2. Done
    BY <2>1 DEF DoneInStep, Read
  <2>3. inst'.msg = "none" /\ conn'[Injector] = "answered"
    BY <1>t, <2>1 DEF Read
  <2>4. DoneInStep'
    BY <2>1, <2>2, <2>3, SameCommand DEF DoneInStep
  <2> QED BY <2>1, <2>4, SameCommand
\* The injector goes on to its next command: nothing of it was dispatched yet.
<1>6. ASSUME NEW told, told = "response" <=> Done, Tell(told), command \in 1 .. Commands,
             conn'[Injector] = "closed", ~Joined(Injector)'
      PROVE  SentInv'
  <2>1. /\ UNCHANGED <<dispatched, server>> /\ command' = command + 1
        /\ outcome' = [outcome EXCEPT ![command] = told]
    BY <1>6 DEF Tell, Go
  <2>2. /\ dispatched \in Seq(1 .. Commands) /\ Commands \in Nat
        /\ DOMAIN outcome = 1 .. Commands
    BY StartupAssumption DEF IInv, TypeOK
  <2>3. \A i \in DOMAIN dispatched : dispatched[i] \in 1 .. Commands /\ dispatched[i] <= command
    BY <2>2 DEF NoneAhead
  <2>4. NoneAhead' /\ ~Done'
    BY <1>6, <2>1, <2>3 DEF NoneAhead, Done
  <2>5. CommandsInOrder'
    <3>1. \A i, j \in DOMAIN dispatched' : i < j => dispatched'[i] < dispatched'[j]
      BY <2>1 DEF CommandsInOrder
    <3>2. ASSUME NEW k \in 1 .. Commands, outcome'[k] = "response"
          PROVE  \E i \in DOMAIN dispatched' : dispatched'[i] = k
      <4>1. CASE k = command
        BY <1>6, <2>1, <2>2, <3>2, <4>1 DEF Done
      <4>2. CASE k # command
        BY <2>1, <2>2, <3>2, <4>2 DEF CommandsInOrder
      <4> QED BY <4>1, <4>2
    <3>3. ASSUME NEW i \in DOMAIN dispatched'
          PROVE  outcome'[dispatched'[i]] = "response"
      <4>1. CASE dispatched[i] = command
        BY <1>6, <2>1, <2>2, <3>3, <4>1 DEF Done
      <4>2. CASE dispatched[i] # command
        BY <2>1, <2>2, <2>3, <3>3, <4>2 DEF CommandsInOrder
      <4> QED BY <4>1, <4>2
    <3> QED BY <3>1, <3>2, <3>3 DEF CommandsInOrder
  <2>6. DoneInStep'
    BY <1>6, <2>4 DEF DoneInStep
  <2> QED BY <2>4, <2>5, <2>6
<1>7. CASE OpenFails
  <2>1. /\ injector = "send" /\ Tell("notSent") /\ UNCHANGED <<inst, conn>>
        /\ command \in 1 .. Commands
    BY <1>7, CommandRange DEF OpenFails, IInv
  <2>2. conn[Injector] = "closed" /\ ~Done
    BY <2>1, <1>n DEF IInv, InjectorInStep
  <2>3. ~Joined(Injector)'
    <3>1. Joined(Injector) => conn[Injector] # "closed"
      BY DEF Joined, IInv, ClientInStep, ServerInStep, TypeOK
    <3> QED BY <2>1, <2>2, <3>1 DEF Joined
  <2> QED BY <1>6, <2>1, <2>2, <2>3
<1>8. CASE CommandReturns
  <2>1. /\ injector = "sending" /\ Close(Injector) /\ command \in 1 .. Commands
        /\ conn[Injector] = "answered" \/ Broken(Injector)
        /\ Tell(IF conn[Injector] = "answered" THEN "response" ELSE "failed")
    BY <1>8 DEF CommandReturns, IInv, InjectorInStep
  <2>2. conn[Injector] = "answered"
    BY <1>t, <2>1 DEF Broken, IInv, StillJoined
  <2>3. Done /\ Tell("response")
    BY <2>1, <2>2 DEF DoneInStep
  <2>4. conn'[Injector] = "closed" /\ ~Joined(Injector)'
    BY <1>t, <2>1 DEF Close, Joined
  <2> QED BY <1>6, <2>1, <2>3, <2>4
<1> QED BY <1>1, <1>2, <1>3, <1>4, <1>5, <1>7, <1>8 DEF Inject

LEMMA StepSent == IInv /\ SentInv /\ [Next]_vars => SentInv'
<1> SUFFICES ASSUME IInv, SentInv, [Next]_vars PROVE SentInv'
  OBVIOUS
<1>1. CASE Next
  BY <1>1, DllSent, ServerSent, InjectSent, CliSent DEF Next
<1>2. CASE UNCHANGED vars
  <2>1. UNCHANGED <<dispatched, command, outcome, inst, conn, injector, server>>
    BY <1>2 DEF vars, inject
  <2>2. DoneInStep'
    BY <2>1, SameCommand DEF SentInv, DoneInStep, Joined
  <2> QED BY <2>1, <2>2, SameCommand DEF SentInv
<1> QED BY <1>1, <1>2

-----------------------------------------------------------------------------
(* The startup has its types: no step takes the injector past its last     *)
(* command, and only its own commands are dispatched on its handle.        *)
THEOREM StartupTypeCorrect == Spec => []TypeOK
<1>1. IInv => TypeOK
  BY DEF IInv
<1> QED BY <1>1, InvariantIInv, PTL

(* However many clients come and leave, a command that reached the pipe is *)
(* answered: the server thread never disconnects a client that waits.      *)
THEOREM SentCommandsAreAnswered == Spec => []SentIsAnswered
<1>1. IInv => SentIsAnswered
  BY DEF IInv
<1> QED BY <1>1, InvariantIInv, PTL

(* The injector's commands are dispatched in the order given, each once at *)
(* most, and whatever it was told is answered was dispatched, with any     *)
(* number of clients coming in between.                                    *)
THEOREM CommandsStayInOrder == Spec => []CommandsInOrder
<1>1. SentInv => CommandsInOrder
  BY DEF SentInv
<1> QED BY <1>1, InvariantIInv, InitSent, StepSent, PTL DEF Spec

-----------------------------------------------------------------------------
(* The startup implements CommandService.                                  *)

\* The commands told of are those before the one the injector is at, and only
\* then is the game resumed.
ToldInStep ==
    /\ \A k \in 1 .. Commands : outcome[k] = "none" <=> command <= k
    /\ running <=> injector \in {"pause", "send", "sending", "done"}

LEMMA InitTold == Init => ToldInStep
<1> SUFFICES ASSUME Init PROVE ToldInStep
  OBVIOUS
<1>1. \A k \in 1 .. Commands : outcome[k] = "none" /\ command <= k
  BY StartupAssumption DEF Init
<1>2. running = FALSE /\ injector = "launch"
  BY DEF Init
<1> QED BY <1>1, <1>2 DEF ToldInStep

LEMMA TellTold ==
    ASSUME IInv, ToldInStep, NEW told \in {"notSent", "response"}, Tell(told),
           command \in 1 .. Commands, injector \in {"send", "sending"}
    PROVE  ToldInStep'
<1>1. /\ outcome \in [1 .. Commands -> {"none", "notSent", "failed", "response"}]
      /\ Commands \in Nat
  BY StartupAssumption DEF IInv, TypeOK
<1>2. \A k \in 1 .. Commands : outcome'[k] = "none" <=> command' <= k
  BY <1>1 DEF Tell, Go, ToldInStep
<1>3. running' <=> injector' \in {"pause", "send", "sending", "done"}
  BY DEF Tell, Go, ToldInStep
<1> QED BY <1>2, <1>3 DEF ToldInStep

\* How sendPipeCommand ends.
LEMMA Returns ==
    ASSUME IInv, CommandReturns
    PROVE  /\ injector = "sending" /\ command \in 1 .. Commands
           /\ conn[Injector] = "answered" /\ Tell("response")
<1>1. Injector \in Client
  BY DEF Client
<1>2. conn[Injector] = "answered"
  BY <1>1 DEF CommandReturns, Broken, IInv, StillJoined
<1> QED BY <1>2 DEF CommandReturns, IInv, InjectorInStep

LEMMA Fails ==
    ASSUME IInv, OpenFails
    PROVE  injector = "send" /\ command \in 1 .. Commands /\ Tell("notSent")
BY CommandRange DEF OpenFails, IInv

LEMMA StepTold == IInv /\ ToldInStep /\ [Next]_vars => ToldInStep'
<1> SUFFICES ASSUME IInv, ToldInStep, [Next]_vars PROVE ToldInStep'
  OBVIOUS
<1>1. CASE UNCHANGED <<injector, running, command, outcome>>
  BY <1>1 DEF ToldInStep
<1>2. CASE OpenFails
  BY <1>2, Fails, TellTold
<1>3. CASE CommandReturns
  BY <1>3, Returns, TellTold
<1>4. CASE Inject /\ UNCHANGED <<command, outcome>>
  <2>1. running' <=> injector' \in {"pause", "send", "sending", "done"}
    BY <1>4 DEF Inject, InjectDll, ProbePipe, ProbeTimeout, CloseProbe, WaitBlindly, ResumeGame,
       Pause, OpenCommand, WriteCommand, ReadAnswer, OpenFails, CommandReturns, AllSent, Go,
       Tell, ToldInStep
  <2> QED BY <1>4, <2>1 DEF ToldInStep
<1>5. Inject => UNCHANGED <<command, outcome>> \/ OpenFails \/ CommandReturns
  BY DEF Inject, InjectDll, ProbePipe, ProbeTimeout, CloseProbe, WaitBlindly, ResumeGame,
     Pause, OpenCommand, WriteCommand, ReadAnswer, AllSent
<1>6. OnAttach \/ Frame \/ Server => UNCHANGED <<injector, running, command, outcome>>
  BY DEF OnAttach, Frame, Server, CreatePipe, ConnectPipe, ReadRequest, WriteResponse,
     FlushPipe, ClosePipe, game, inject
<1>7. \A c \in Cli : CliOpens(c) \/ CliMoves(c) \/ CliLeaves(c) =>
        UNCHANGED <<injector, running, command, outcome>>
  BY DEF CliOpens, CliMoves, CliLeaves, game, inject
<1>8. UNCHANGED vars => UNCHANGED <<injector, running, command, outcome>>
  BY DEF vars, game, inject
<1> QED BY <1>1, <1>2, <1>3, <1>4, <1>5, <1>6, <1>7, <1>8 DEF Next

\* While there is a command to go, it is the one whose turn it is.
LEMMA CurrentIs ==
    ASSUME ToldInStep, command \in 1 .. Commands, Commands \in Nat
    PROVE  Service!Current(command) /\ (Service!IsDispatched(command) <=> Done)
<1>1. outcome[command] = "none"
  BY DEF ToldInStep
<1>2. \A j \in 1 .. Commands : j < command => outcome[j] # "none"
  BY DEF ToldInStep
<1> QED BY <1>1, <1>2 DEF Service!Current, Service!IsDispatched, Done

LEMMA StepServes ==
    IInv /\ SentInv /\ ToldInStep /\ ToldInStep' /\ [Next]_vars => [Service!Next]_(Service!vars)
<1> SUFFICES ASSUME IInv, SentInv, ToldInStep, ToldInStep', [Next]_vars
             PROVE  Service!Next \/ UNCHANGED <<phaseOf, dispatched, outcome>>
  BY DEF Service!vars
<1> USE DEF Service!Next
<1>a. Commands \in Nat
  BY StartupAssumption
<1>1. CASE UNCHANGED <<injector, running, dispatched, outcome>>
  BY <1>1 DEF phaseOf
<1>2. CASE ReadRequest
  <2>1. UNCHANGED <<injector, running, outcome>>
    BY <1>2 DEF ReadRequest, game, inject
  <2>2. CASE inst.msg = "request" /\ inst.by = Injector
    <3>1. injector = "sending" /\ command \in 1 .. Commands
      BY <2>2 DEF IInv, InjectorInStep
    <3>2. ~Done
      BY <2>2 DEF SentInv, DoneInStep
    <3>3. phaseOf = "serving" /\ phaseOf' = phaseOf
      BY <2>1, <3>1 DEF phaseOf, ToldInStep
    <3>4. dispatched' = Append(dispatched, command)
      BY <1>2, <2>2 DEF ReadRequest
    <3>5. Service!Dispatch(command)
      BY <1>a, <2>1, <3>1, <3>2, <3>3, <3>4, CurrentIs DEF Service!Dispatch
    <3> QED BY <3>1, <3>5
  <2>3. CASE ~(inst.msg = "request" /\ inst.by = Injector)
    <3>1. dispatched' = dispatched
      BY <1>2, <2>3 DEF ReadRequest
    <3> QED BY <1>1, <2>1, <3>1
  <2> QED BY <2>2, <2>3
<1>3. CASE OpenFails
  <2>1. injector = "send" /\ command \in 1 .. Commands /\ Tell("notSent")
    BY <1>3, Fails
  <2>2. ~Done
    BY <2>1 DEF SentInv, DoneInStep
  <2>3. /\ phaseOf = "serving" /\ phaseOf' = phaseOf /\ dispatched' = dispatched
        /\ outcome' = [outcome EXCEPT ![command] = "notSent"]
    BY <2>1 DEF Tell, Go, phaseOf, ToldInStep
  <2>4. Service!Refuse(command)
    BY <1>a, <2>1, <2>2, <2>3, CurrentIs DEF Service!Refuse
  <2> QED BY <2>1, <2>4
<1>4. CASE CommandReturns
  <2>1. injector = "sending" /\ command \in 1 .. Commands /\ Tell("response")
    BY <1>4, Returns
  <2>2. Done
    BY <1>4, Returns DEF SentInv, DoneInStep
  <2>3. /\ phaseOf = "serving" /\ phaseOf' = phaseOf /\ dispatched' = dispatched
        /\ outcome' = [outcome EXCEPT ![command] = "response"]
    BY <2>1 DEF Tell, Go, phaseOf, ToldInStep
  <2>4. Service!Answer(command)
    BY <1>a, <2>1, <2>2, <2>3, CurrentIs DEF Service!Answer
  <2> QED BY <2>1, <2>4
<1>5. CASE ResumeGame
  <2>1. /\ injector = "resume" /\ running' = TRUE /\ UNCHANGED <<dispatched, outcome>>
        /\ injector' \in {"done", "pause"}
    BY <1>5 DEF ResumeGame, Go
  <2>2. phaseOf = "starting" /\ phaseOf' = "serving"
    BY <2>1 DEF phaseOf, ToldInStep
  <2> QED BY <2>1, <2>2 DEF Service!Decide
<1>6. CASE ProbeTimeout
  <2>1. injector = "wait" /\ injector' = "dead" /\ UNCHANGED <<dispatched, outcome>>
    BY <1>6 DEF ProbeTimeout, Go
  <2>2. phaseOf = "starting" /\ phaseOf' = "gone"
    BY <2>1 DEF phaseOf, ToldInStep
  <2> QED BY <2>1, <2>2 DEF Service!Decide
<1>7. CASE InjectDll \/ ProbePipe \/ CloseProbe \/ WaitBlindly \/ Pause \/ OpenCommand
             \/ WriteCommand \/ ReadAnswer \/ AllSent
  <2>1. /\ UNCHANGED <<running, dispatched, outcome>>
        /\ injector # "dead" /\ injector' # "dead"
    BY <1>7 DEF InjectDll, ProbePipe, CloseProbe, WaitBlindly, Pause, OpenCommand, WriteCommand,
       ReadAnswer, AllSent, Go
  <2> QED BY <2>1 DEF phaseOf
<1>8. OnAttach \/ Frame \/ (Server /\ ~ReadRequest) =>
        UNCHANGED <<injector, running, dispatched, outcome>>
  BY DEF OnAttach, Frame, Server, CreatePipe, ConnectPipe, WriteResponse,
     FlushPipe, ClosePipe, game, inject
<1>9. \A c \in Cli : CliOpens(c) \/ CliMoves(c) \/ CliLeaves(c) =>
        UNCHANGED <<injector, running, dispatched, outcome>>
  BY DEF CliOpens, CliMoves, CliLeaves, game, inject
<1>10. UNCHANGED vars => UNCHANGED <<injector, running, dispatched, outcome>>
  BY DEF vars, game, inject
<1> QED BY <1>1, <1>2, <1>3, <1>4, <1>5, <1>6, <1>7, <1>8, <1>9, <1>10 DEF Next, Inject

(* Injector and server thread, with any number of clients in between, are  *)
(* a command service: commands are begun one after the other once the game *)
(* has been resumed, dispatched once, answered only when dispatched, and   *)
(* never dispatched when told as not sent.                                 *)
THEOREM StartupRefinement == Spec => ImplementsCommandService
<1>1. Init => Service!Init
  BY DEF Init, phaseOf, Service!Init
<1> QED BY <1>1, InvariantIInv, InitSent, StepSent, InitTold, StepTold, StepServes, PTL
        DEF Spec, ImplementsCommandService, Service!Spec

-----------------------------------------------------------------------------
(* What waiting for the pipe does guarantee.                               *)

\* Having seen the pipe, the injector knows that the server was started.
PipeSeen ==
    usePipe /\ injector \notin {"launch", "wait", "dead"} => attached >= 8

\* With args.usePipe the game runs, and renders its first frame, when all Parts
\* are up but, maybe, the last.
ServerBeforeFrame ==
    usePipe => (running => attached >= 8) /\ (firstFrame # 0 => firstFrame >= 8)

LEMMA StepPipeSeen == IInv /\ PipeSeen /\ [Next]_vars => PipeSeen'
<1> SUFFICES ASSUME IInv, PipeSeen, [Next]_vars PROVE PipeSeen'
  OBVIOUS
<1>1. attached \in 0 .. 9 /\ (inst.st = "listening" => attached >= 8)
  BY PartsFacts DEF IInv, TypeOK, ServerStarted, ServerInStep
<1>2. usePipe' = usePipe /\ (attached' = attached \/ attached' = attached + 1)
  BY DEF Next, OnAttach, Frame, Server, CreatePipe, ConnectPipe, ReadRequest, WriteResponse,
     FlushPipe, ClosePipe, CliOpens, CliMoves, CliLeaves, Inject, InjectDll, ProbePipe,
     ProbeTimeout, CloseProbe, WaitBlindly, ResumeGame, Pause, OpenCommand, WriteCommand,
     ReadAnswer, OpenFails, CommandReturns, AllSent, Tell, Go, game, inject, vars
<1>3. CASE Inject
  <2>1. CASE ProbePipe
    BY <1>1, <1>2, <2>1 DEF ProbePipe, Open, PipeSeen
  <2>2. CASE ~ProbePipe
    <3>1. \/ injector' \in {"launch", "wait", "dead"} \/ ~usePipe
          \/ injector \notin {"launch", "wait", "dead"}
      BY <1>3, <2>2 DEF Inject, InjectDll, ProbeTimeout, CloseProbe, WaitBlindly, ResumeGame,
         Pause, OpenCommand, WriteCommand, ReadAnswer, OpenFails, CommandReturns, AllSent,
         Tell, Go
    <3> QED BY <1>1, <1>2, <3>1 DEF PipeSeen
  <2> QED BY <2>1, <2>2
<1>4. CASE injector' = injector
  BY <1>1, <1>2, <1>4 DEF PipeSeen
<1>5. Inject \/ injector' = injector
  BY DEF Next, OnAttach, Frame, Server, CreatePipe, ConnectPipe, ReadRequest, WriteResponse,
     FlushPipe, ClosePipe, CliOpens, CliMoves, CliLeaves, inject, vars
<1> QED BY <1>3, <1>4, <1>5

LEMMA StepServerFirst ==
    /\ IInv /\ ToldInStep /\ PipeSeen /\ ServerBeforeFrame /\ [Next]_vars
    /\ ToldInStep' /\ PipeSeen'
    => ServerBeforeFrame'
<1> SUFFICES ASSUME IInv, ToldInStep, PipeSeen, ServerBeforeFrame, [Next]_vars,
                    ToldInStep', PipeSeen'
             PROVE  ServerBeforeFrame'
  OBVIOUS
<1>0. usePipe' /\ running' => attached' >= 8
  BY DEF ToldInStep, PipeSeen
<1>1. CASE Frame
  <2>1. usePipe => attached >= 8
    BY <1>1 DEF Frame, ToldInStep, PipeSeen
  <2> QED BY <1>0, <1>1, <2>1 DEF Frame, inject, ServerBeforeFrame
<1>2. CASE UNCHANGED <<usePipe, firstFrame>>
  BY <1>0, <1>2 DEF ServerBeforeFrame
<1>3. Frame \/ UNCHANGED <<usePipe, firstFrame>>
  BY DEF Next, OnAttach, Server, CreatePipe, ConnectPipe, ReadRequest, WriteResponse,
     FlushPipe, ClosePipe, CliOpens, CliMoves, CliLeaves, Inject, InjectDll, ProbePipe,
     ProbeTimeout, CloseProbe, WaitBlindly, ResumeGame, Pause, OpenCommand, WriteCommand,
     ReadAnswer, OpenFails, CommandReturns, AllSent, Tell, Go, game, inject, vars
<1> QED BY <1>1, <1>2, <1>3

(* What waiting for the pipe does guarantee: the game does not run before  *)
(* everything but the frame callback is up.  StartupFrames shows that the  *)
(* callback itself may come later.                                         *)
THEOREM FramesFindTheServer == Spec => []ServerBeforeFrame
<1>1. Init => PipeSeen /\ ServerBeforeFrame
  BY DEF Init, PipeSeen, ServerBeforeFrame
<1> QED BY <1>1, InvariantIInv, InitTold, StepTold, StepPipeSeen, StepServerFirst, PTL DEF Spec
=============================================================================
