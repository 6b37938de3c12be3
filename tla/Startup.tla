------------------------------- MODULE Startup -------------------------------
(***************************************************************************)
(* How the SDK comes up and how it is talked to: the injector              *)
(* (src/injector/main.cpp, pipe.cpp), the thread that runs OnAttach        *)
(* (src/DllMain.cpp), the command pipe's server thread                     *)
(* (src/ipc/CommandPipe.cpp) and the game's frames.  The pipe is that of   *)
(* the operating system: a client can open it only while an instance       *)
(* listens, and disconnecting discards what the client has not read.       *)
(***************************************************************************)
EXTENDS Naturals, Sequences

CONSTANTS
    Injector,  \* the injector as a client of the pipe
    Cli,       \* other clients (src/tests/wowsdk_cli.py)
    Commands,  \* number of --pipe-cmd arguments
    Modes,     \* values of args.usePipe
    MaxCalls   \* bound: connections each other client makes

Client == Cli \cup {Injector}

ASSUME StartupAssumption ==
    /\ Injector \notin Cli
    /\ Commands \in Nat /\ MaxCalls \in Nat
    /\ Modes \subseteq BOOLEAN

\* What OnAttach brings up, in order.
Parts == <<"log", "events", "hooks", "frame", "glue", "lua", "runtime",
           "server", "onFrame">>

VARIABLES
    attached,  \* how many Parts OnAttach has brought up
    running,   \* has the injector resumed the game's main thread
    firstFrame,\* history: attached when the first frame was rendered, else 0
    server,    \* where the server thread is
    inst,      \* the pipe instance: its state, client, and unread message
    conn,      \* [Client -> what the client has done on its handle]
    usePipe,   \* args.usePipe
    injector,  \* where the injector is
    command,   \* number of the command the injector is at
    outcome,   \* [1 .. Commands -> what sendPipeCommand told]
    calls,     \* [Cli -> connections made]
    dispatched \* history: the injector's commands dispatched, in order

game == <<attached, running, firstFrame>>
inject == <<usePipe, injector, command, outcome>>
vars == <<game, server, inst, conn, inject, calls, dispatched>>

NoInstance == [st |-> "none", by |-> Injector, msg |-> "none"]

Init ==
    /\ attached = 0 /\ running = FALSE /\ firstFrame = 0
    /\ server = "off" /\ inst = NoInstance
    /\ conn = [c \in Client |-> "closed"]
    /\ usePipe \in Modes
    /\ injector = "launch" /\ command = 1
    /\ outcome = [k \in 1 .. Commands |-> "none"]
    /\ calls = [c \in Cli |-> 0]
    /\ dispatched = <<>>

-----------------------------------------------------------------------------
(* The DLL: OnAttach on its own thread, and the game's frames.             *)

\* OnAttach, one part after the other; LoadLibrary has started its thread.
OnAttach ==
    /\ injector # "launch"
    /\ attached < Len(Parts)
    /\ attached' = attached + 1
    /\ server' = IF Parts[attached'] = "server" THEN "create" ELSE server
    /\ UNCHANGED <<running, firstFrame, inst, conn, inject, calls, dispatched>>

\* The game renders frames once its main thread runs.
Frame ==
    /\ running /\ firstFrame = 0
    /\ firstFrame' = attached
    /\ UNCHANGED <<attached, running, server, inst, conn, inject, calls, dispatched>>

-----------------------------------------------------------------------------
(* The server thread.                                                      *)

CreatePipe ==
    /\ server = "create"
    /\ inst' = [NoInstance EXCEPT !.st = "listening"]
    /\ server' = "connect"
    /\ UNCHANGED <<game, conn, inject, calls, dispatched>>

\* ConnectNamedPipe returns; it fails only if the client has left again.
ConnectPipe ==
    /\ server = "connect"
    /\ \/ inst.st \in {"connected", "left"} /\ server' = "read"
       \/ inst.st = "left" /\ server' = "close"
    /\ UNCHANGED <<game, inst, conn, inject, calls, dispatched>>

\* Mutant: the buffer is dispatched even when ReadFile has failed.
ReadRequest_Unchecked ==
    /\ server = "read"
    /\ inst.msg = "request" \/ inst.st = "left"
    /\ dispatched' = IF inst.by = Injector THEN Append(dispatched, command) ELSE dispatched
    /\ inst' = [inst EXCEPT !.msg = "none"]
    /\ server' = "write"
    /\ UNCHANGED <<game, conn, inject, calls>>

\* ReadFile has a request, which is dispatched, or fails since the client
\* left: the response then says "Read error".
ReadRequest ==
    /\ server = "read"
    /\ inst.msg = "request" \/ inst.st = "left"
    /\ dispatched' = IF inst.msg = "request" /\ inst.by = Injector
                       THEN Append(dispatched, command) ELSE dispatched
    /\ inst' = [inst EXCEPT !.msg = "none"]
    /\ server' = "write"
    /\ UNCHANGED <<game, conn, inject, calls>>

WriteResponse ==
    /\ server = "write"
    /\ inst' = IF inst.st = "connected" THEN [inst EXCEPT !.msg = "response"] ELSE inst
    /\ server' = "flush"
    /\ UNCHANGED <<game, conn, inject, calls, dispatched>>

\* Mutant: the instance is disconnected without FlushFileBuffers.
FlushPipe_Skipped ==
    /\ server = "flush"
    /\ server' = "close"
    /\ UNCHANGED <<game, inst, conn, inject, calls, dispatched>>

\* FlushFileBuffers returns when the client has read the response or left.
FlushPipe ==
    /\ server = "flush"
    /\ inst.msg # "response" \/ inst.st = "left"
    /\ server' = "close"
    /\ UNCHANGED <<game, inst, conn, inject, calls, dispatched>>

\* Mutant: the thread ends after one client.
ClosePipe_Last ==
    /\ server = "close"
    /\ inst' = NoInstance
    /\ server' = "off"
    /\ UNCHANGED <<game, conn, inject, calls, dispatched>>

\* DisconnectNamedPipe and CloseHandle: the client's handle is of no use now.
ClosePipe ==
    /\ server = "close"
    /\ inst' = NoInstance
    /\ server' = "create"
    /\ UNCHANGED <<game, conn, inject, calls, dispatched>>

Server == CreatePipe \/ ConnectPipe \/ ReadRequest \/ WriteResponse \/ FlushPipe
            \/ ClosePipe

-----------------------------------------------------------------------------
(* A client's handle.                                                      *)

Joined(c) == inst.by = c /\ inst.st = "connected"

\* CreateFile succeeds.
Open(c) ==
    /\ inst.st = "listening"
    /\ inst' = [inst EXCEPT !.st = "connected", !.by = c]
    /\ conn' = [conn EXCEPT ![c] = "open"]

\* WriteFile of the request.
Write(c) ==
    /\ conn[c] = "open" /\ Joined(c)
    /\ inst' = [inst EXCEPT !.msg = "request"]
    /\ conn' = [conn EXCEPT ![c] = "asked"]

\* ReadFile has the response.
Read(c) ==
    /\ conn[c] = "asked" /\ Joined(c) /\ inst.msg = "response"
    /\ inst' = [inst EXCEPT !.msg = "none"]
    /\ conn' = [conn EXCEPT ![c] = "answered"]

\* CloseHandle.
Close(c) ==
    /\ conn[c] # "closed"
    /\ inst' = IF Joined(c) THEN [inst EXCEPT !.st = "left"] ELSE inst
    /\ conn' = [conn EXCEPT ![c] = "closed"]

\* WriteFile or ReadFile fails: the server has disconnected.
Broken(c) == conn[c] \in {"open", "asked"} /\ ~Joined(c)

-----------------------------------------------------------------------------
(* Another client: it may stop at any point, and does not try again.       *)

CliOpens(c) ==
    /\ conn[c] = "closed" /\ calls[c] < MaxCalls
    /\ Open(c)
    /\ calls' = [calls EXCEPT ![c] = @ + 1]
    /\ UNCHANGED <<game, server, inject, dispatched>>

CliMoves(c) ==
    /\ Write(c) \/ Read(c)
    /\ UNCHANGED <<game, server, inject, calls, dispatched>>

CliLeaves(c) ==
    /\ Close(c)
    /\ UNCHANGED <<game, server, inject, calls, dispatched>>

-----------------------------------------------------------------------------
(* The injector.                                                           *)

Go(step) ==
    /\ injector' = step
    /\ UNCHANGED <<attached, firstFrame, server, usePipe, calls, dispatched>>

\* CreateProcess with CREATE_SUSPENDED and injectDll.
InjectDll ==
    /\ injector = "launch"
    /\ Go("wait")
    /\ UNCHANGED <<running, inst, conn, command, outcome>>

\* waitForPipe opens the pipe at last.
ProbePipe ==
    /\ injector = "wait" /\ usePipe
    /\ Open(Injector)
    /\ Go("probed")
    /\ UNCHANGED <<running, command, outcome>>

\* Mutant: waitForPipe tries for ever.
ProbeTimeout_Never == FALSE /\ ProbePipe

\* waitForPipe: 15 s without success end the injector.
ProbeTimeout ==
    /\ injector = "wait" /\ usePipe
    /\ inst.st # "listening"
    /\ Go("dead")
    /\ UNCHANGED <<running, inst, conn, command, outcome>>

CloseProbe ==
    /\ injector = "probed"
    /\ Close(Injector)
    /\ Go("resume")
    /\ UNCHANGED <<running, command, outcome>>

\* Without the pipe: Sleep(args.waitMs), as long as that is.
WaitBlindly ==
    /\ injector = "wait" /\ ~usePipe
    /\ Go("resume")
    /\ UNCHANGED <<running, inst, conn, command, outcome>>

ResumeGame ==
    /\ injector = "resume"
    /\ running' = TRUE
    /\ Go(IF Commands = 0 THEN "done" ELSE "pause")
    /\ UNCHANGED <<inst, conn, command, outcome>>

\* Sleep(300): assumed long enough for the server to be done with the probe
\* and to listen again or to serve another client.
Pause ==
    /\ injector = "pause"
    /\ server # "off" => inst.st = "listening" \/ (inst.st # "none" /\ inst.by \in Cli)
    /\ Go("send")
    /\ UNCHANGED <<running, inst, conn, command, outcome>>

\* sendPipeCommand: one attempt to open the pipe, then write.
OpenCommand ==
    /\ injector = "send" /\ command <= Commands
    /\ Open(Injector)
    /\ Go("sending")
    /\ UNCHANGED <<running, command, outcome>>

WriteCommand ==
    /\ injector = "sending"
    /\ Write(Injector)
    /\ Go("sending")
    /\ UNCHANGED <<running, command, outcome>>

ReadAnswer ==
    /\ injector = "sending"
    /\ Read(Injector)
    /\ Go("sending")
    /\ UNCHANGED <<running, command, outcome>>

Tell(told) ==
    /\ outcome' = [outcome EXCEPT ![command] = told]
    /\ command' = command + 1
    /\ Go("send")
    /\ UNCHANGED running

\* sendPipeCommand returns false at once: the pipe cannot be opened.
OpenFails ==
    /\ injector = "send" /\ command <= Commands
    /\ inst.st # "listening"
    /\ Tell("notSent")
    /\ UNCHANGED <<inst, conn>>

\* Mutant: sendPipeCommand does not wait for the response.
CommandReturns_Unread ==
    /\ injector = "sending"
    /\ conn[Injector] \in {"asked", "answered"} \/ Broken(Injector)
    /\ Tell(IF conn[Injector] \in {"asked", "answered"} THEN "response" ELSE "failed")
    /\ Close(Injector)

\* sendPipeCommand returns: with a response, or because an operation failed.
CommandReturns ==
    /\ injector = "sending"
    /\ conn[Injector] = "answered" \/ Broken(Injector)
    /\ Tell(IF conn[Injector] = "answered" THEN "response" ELSE "failed")
    /\ Close(Injector)

AllSent ==
    /\ injector = "send" /\ command > Commands
    /\ Go("done")
    /\ UNCHANGED <<running, inst, conn, command, outcome>>

Inject ==
    \/ InjectDll \/ ProbePipe \/ ProbeTimeout \/ CloseProbe \/ WaitBlindly
    \/ ResumeGame \/ Pause \/ OpenCommand \/ WriteCommand \/ ReadAnswer
    \/ OpenFails \/ CommandReturns \/ AllSent

-----------------------------------------------------------------------------
Next ==
    \/ OnAttach \/ Frame \/ Server \/ Inject
    \/ \E c \in Cli : CliOpens(c) \/ CliMoves(c) \/ CliLeaves(c)

\* Every thread runs.  Nothing is assumed of the other clients here.
Fairness == WF_vars(OnAttach) /\ WF_vars(Frame) /\ WF_vars(Server) /\ WF_vars(Inject)

Spec == Init /\ [][Next]_vars /\ Fairness
-----------------------------------------------------------------------------
TypeOK ==
    /\ attached \in 0 .. Len(Parts) /\ running \in BOOLEAN
    /\ firstFrame \in 0 .. Len(Parts)
    /\ server \in {"off", "create", "connect", "read", "write", "flush", "close"}
    /\ inst \in [st : {"none", "listening", "connected", "left"}, by : Client,
                 msg : {"none", "request", "response"}]
    /\ conn \in [Client -> {"closed", "open", "asked", "answered"}]
    /\ usePipe \in BOOLEAN
    /\ injector \in {"launch", "wait", "probed", "resume", "pause", "send",
                     "sending", "done", "dead"}
    /\ command \in 1 .. Commands + 1
    /\ outcome \in [1 .. Commands -> {"none", "notSent", "failed", "response"}]
    /\ calls \in [Cli -> 0 .. MaxCalls]
    /\ dispatched \in Seq(1 .. Commands)

(* A command that got as far as the pipe is answered: the server neither   *)
(* hangs up before the response is read nor mixes up its clients.          *)
SentIsAnswered == \A k \in 1 .. Commands : outcome[k] # "failed"

(* Commands are dispatched in the order given, each once, and one that was *)
(* answered was dispatched: "Commands are sent in order. Each waits for a  *)
(* response before sending the next" (docs/EN/02-injection.md:80).         *)
CommandsInOrder ==
    /\ \A i, j \in DOMAIN dispatched : i < j => dispatched[i] < dispatched[j]
    /\ \A k \in 1 .. Commands : outcome[k] = "response" =>
         \E i \in DOMAIN dispatched : dispatched[i] = k
    /\ \A i \in DOMAIN dispatched :
         dispatched[i] = command \/ outcome[dispatched[i]] = "response"

phaseOf == IF injector = "dead" THEN "gone" ELSE IF running THEN "serving" ELSE "starting"

Service == INSTANCE CommandService WITH phase <- phaseOf

(* The injector and the server thread, with other clients on the same      *)
(* pipe, go through the commands as CommandService says: no command is     *)
(* begun before the game has been resumed and the one before it has been   *)
(* told of, and one told as not sent is never dispatched later.            *)
ImplementsCommandService == Service!Spec

(* Whatever other clients do, one that stays silent included, the injector *)
(* comes to its end.                                                       *)
InjectorEnds == <>(injector \in {"done", "dead"})

(* When every client goes on or leaves, the server listens again after     *)
(* each of them.                                                           *)
ServerReturns ==
    (\A c \in Cli : WF_vars(CliMoves(c) \/ CliLeaves(c)))
      => ((inst.st = "connected") ~> (inst.st = "listening"))

(* All commands of the command line are answered when the injector is      *)
(* done: one can "queue JSON-RPC commands to execute immediately after the *)
(* SDK initializes" (docs/EN/02-injection.md:72).                          *)
CommandsAnswered ==
    injector = "done" => \A k \in 1 .. Commands : outcome[k] = "response"

(* No frame is rendered before OnAttach is through: waiting for the pipe   *)
(* "guarantees the DLL is fully initialized before any game frame runs"    *)
(* (docs/EN/02-injection.md:58).                                           *)
ReadyBeforeFrame == firstFrame # 0 => firstFrame = Len(Parts)
=============================================================================
