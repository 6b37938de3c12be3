------------------------------ MODULE Console -------------------------------
(***************************************************************************)
(* The console of the game and that of the SDK: the hook on PrintMessage   *)
(* (src/hooks/ConsoleHooks.cpp), the log it fills (LogCapture), the        *)
(* console window (ConsoleManager) and the dll.* methods (ControlRpc), all *)
(* as the RPC thread gets to them through the dispatcher.                  *)
(*                                                                         *)
(* Any thread of the game prints; the hook's flag and lock are shared by   *)
(* all.  The RPC thread uses the log without the lock: if it does so while *)
(* a message is being pushed, it may see the buffer as before, or the      *)
(* behaviour is undefined (status "torn"), and the model ends there.  It   *)
(* ends also when a handler takes a value of the wrong type out of the     *)
(* params: built with JSON_NOEXCEPTION (src/utils/json/Json.h), the JSON   *)
(* library then aborts the process (status "aborted").                     *)
(***************************************************************************)
EXTENDS Dispatch, CircularBuffer, FiniteSets

CONSTANTS
    Printer,   \* threads that print
    NoThread,  \* the lock is free
    Request,   \* messages a client may send
    MaxPrints  \* bound: messages a thread prints

ASSUME ConsoleAssumption == NoThread \notin Printer /\ MaxPrints \in Nat

\* The values a handler takes out of params that are no Misfit: numbers and a
\* Boolean.
Fits(params) ==
    /\ \A name \in {"offset", "count", "maxEntries"} : ValueOf(params, name, 0) \in Int
    /\ ValueOf(params, "showInConsole", FALSE) \in BOOLEAN

\* The RPC thread's own steps, besides the methods.
Step == {"read", "total", "resize"}

ASSUME RequestAssumption ==
    /\ Method \cap Step = {}
    /\ \A raw \in Request :
         /\ raw.kind \in {"unread", "text", "json"}
         /\ raw.kind = "json" => raw.params \in {Absent, Misfit} \/ Fits(raw.params)

VARIABLES
    pc,         \* step of the hook a thread is at
    printed,    \* messages a thread has printed
    inCallback, \* s_inCallback
    logLock,    \* the thread in s_logLock
    buffer,     \* LogCapture's s_buffer
    maxSize,    \* its capacity
    config,     \* LogCapture's s_config
    console,    \* ConsoleManager: initialized, visible; the last text shown
    rpc,        \* the RPC thread: its step, the request, the logs it has read
    reply,      \* history: the message answered last, and the answer
    dropped,    \* history: messages not captured, with the threads in the hook
    status      \* "running", "torn" or "aborted"

hook == <<pc, printed, inCallback, logLock, dropped>>
vars == <<hook, buffer, maxSize, config, console, rpc, reply, status>>

Running == status = "running"

-----------------------------------------------------------------------------
(* PrintMessage_Hook.                                                      *)

\* The threads that have raised the flag and not taken it down.
InHook == {t \in Printer : pc[t] \in {"raised", "pushing", "left"}}

At(t, from, to) ==
    /\ Running
    /\ pc[t] = from /\ pc' = [pc EXCEPT ![t] = to]

\* The original prints in any case; with the flag up that is all.
PrintMessage(t) ==
    /\ printed[t] < MaxPrints
    /\ At(t, "out", IF inCallback THEN "out" ELSE "printed")
    /\ printed' = [printed EXCEPT ![t] = @ + 1]
    /\ dropped' = IF inCallback THEN dropped \cup {[by |-> t, n |-> printed'[t], busy |-> InHook]}
                                ELSE dropped
    /\ UNCHANGED <<inCallback, logLock, buffer, maxSize, config, console, rpc, reply, status>>

RaiseFlag(t) ==
    /\ At(t, "printed", "raised")
    /\ inCallback' = TRUE
    /\ UNCHANGED <<printed, logLock, dropped, buffer, maxSize, config, console, rpc, reply, status>>

EnterLock(t) ==
    /\ At(t, "raised", "pushing")
    /\ logLock = NoThread
    /\ logLock' = t
    /\ UNCHANGED <<printed, inCallback, dropped, buffer, maxSize, config, console, rpc, reply, status>>

\* ConsoleManager::Print, if showInConsole is set.
Echo(text) ==
    console' = IF config.showInConsole /\ console.initialized /\ console.visible
                 THEN [console EXCEPT !.shown = <<text>>] ELSE console

\* Mutant: the lock is not left.
Capture_KeepsLock(t) ==
    LET text == [by |-> t, n |-> printed[t]]
    IN /\ At(t, "pushing", "left")
       /\ buffer' = PushTrimmed(buffer, text, maxSize)
       /\ Echo(text)
       /\ UNCHANGED <<printed, inCallback, logLock, dropped, maxSize, config, rpc, reply, status>>

\* LogCapture::OnConsoleMessage, and out of the lock.
Capture(t) ==
    LET text == [by |-> t, n |-> printed[t]]
    IN /\ At(t, "pushing", "left")
       /\ buffer' = PushTrimmed(buffer, text, maxSize)
       /\ Echo(text)
       /\ logLock' = NoThread
       /\ UNCHANGED <<printed, inCallback, dropped, maxSize, config, rpc, reply, status>>

\* Mutant: only the lock is left.
LowerFlag_Kept(t) ==
    /\ At(t, "left", "out")
    /\ UNCHANGED <<printed, inCallback, logLock, dropped, buffer, maxSize, config, console,
                   rpc, reply, status>>

LowerFlag(t) ==
    /\ At(t, "left", "out")
    /\ inCallback' = FALSE
    /\ UNCHANGED <<printed, logLock, dropped, buffer, maxSize, config, console, rpc, reply, status>>

Hook(t) == RaiseFlag(t) \/ EnterLock(t) \/ Capture(t) \/ LowerFlag(t)

-----------------------------------------------------------------------------
(* The RPC thread.                                                         *)

Idle == [at |-> "read"]

Answer(answer) ==
    /\ reply' = <<[raw |-> rpc.raw, answer |-> answer]>>
    /\ rpc' = Idle

\* A message arrives and is refused, or goes to its handler; params that do not
\* fit are noticed when the handler uses them.
Receive(raw) ==
    /\ Running /\ rpc = Idle
    /\ IF Reaches(raw)
         THEN LET req == FromRaw(raw)
              IN IF req.params = Misfit /\ req.method \in {"dll.getLogs", "dll.setLogConfig"}
                   THEN status' = "aborted" /\ UNCHANGED <<rpc, reply>>
                   ELSE /\ rpc' = [at |-> req.method, req |-> req, raw |-> raw]
                        /\ reply' = <<>>
                        /\ UNCHANGED status
         ELSE /\ reply' = <<[raw |-> raw, answer |-> Refusal(raw)]>>
              /\ UNCHANGED <<rpc, status>>
    /\ UNCHANGED <<hook, buffer, maxSize, config, console>>

\* dll.toggleConsole: the first call makes the window, which is then visible.
ToggleConsole ==
    /\ Running /\ rpc.at = "dll.toggleConsole"
    /\ console' = [console EXCEPT !.initialized = TRUE,
                                  !.visible = ~console.initialized \/ ~console.visible]
    /\ Answer(Result(rpc.req.id, [visible |-> console'.visible]))
    /\ UNCHANGED <<hook, buffer, maxSize, config, status>>

\* dll.getInfo
GetInfo ==
    /\ Running /\ rpc.at = "dll.getInfo"
    /\ Answer(Result(rpc.req.id, [console |-> console.initialized, visible |-> console.visible,
                                  config |-> config, logCount |-> Len(buffer)]))
    /\ UNCHANGED <<hook, buffer, maxSize, config, console, status>>

\* dll.getLogs: first the entries,
GetLogs ==
    /\ Running /\ rpc.at = "dll.getLogs"
    /\ LET offset == ValueOf(rpc.req.params, "offset", 0)
           count == ValueOf(rpc.req.params, "count", 50)
       IN rpc' = [at |-> "total", req |-> rpc.req, raw |-> rpc.raw, offset |-> offset,
                  entries |-> GetRange(buffer, offset, count)]
    /\ UNCHANGED <<hook, buffer, maxSize, config, console, reply, status>>

\* Mutant: what is counted is the page.
GetLogCount_OfPage ==
    /\ Running /\ rpc.at = "total"
    /\ Answer(Result(rpc.req.id, [total |-> Len(rpc.entries), offset |-> rpc.offset,
                                  entries |-> rpc.entries]))
    /\ UNCHANGED <<hook, buffer, maxSize, config, console, status>>

\* then their total.
GetLogCount ==
    /\ Running /\ rpc.at = "total"
    /\ Answer(Result(rpc.req.id, [total |-> Len(buffer), offset |-> rpc.offset,
                                  entries |-> rpc.entries]))
    /\ UNCHANGED <<hook, buffer, maxSize, config, console, status>>

\* dll.setLogConfig: LogCapture::SetConfig up to the buffer,
SetLogConfig ==
    /\ Running /\ rpc.at = "dll.setLogConfig"
    /\ config' = [maxEntries |-> Capacity(ValueOf(rpc.req.params, "maxEntries", DefaultMax)),
                  showInConsole |-> ValueOf(rpc.req.params, "showInConsole", FALSE)]
    /\ rpc' = [at |-> "resize", req |-> rpc.req, raw |-> rpc.raw]
    /\ UNCHANGED <<hook, buffer, maxSize, console, reply, status>>

\* Mutant: what is cut off is the newest.
SetMaxSize_DropsNewest ==
    /\ Running /\ rpc.at = "resize"
    /\ maxSize' = Capacity(config.maxEntries)
    /\ buffer' = SubSeq(buffer, 1, Least(Len(buffer), maxSize'))
    /\ Answer(Result(rpc.req.id, config))
    /\ UNCHANGED <<hook, config, console, status>>

\* and the buffer.
SetMaxSize ==
    /\ Running /\ rpc.at = "resize"
    /\ maxSize' = Capacity(config.maxEntries)
    /\ buffer' = Trim(buffer, maxSize')
    /\ Answer(Result(rpc.req.id, config))
    /\ UNCHANGED <<hook, config, console, status>>

\* A step that uses the buffer while a message is being pushed.
Tear ==
    /\ Running /\ rpc.at \in {"dll.getInfo", "dll.getLogs", "total", "resize"}
    /\ \E t \in Printer : pc[t] = "pushing"
    /\ status' = "torn"
    /\ UNCHANGED <<hook, buffer, maxSize, config, console, rpc, reply>>

Handle == ToggleConsole \/ GetInfo \/ GetLogs \/ GetLogCount \/ SetLogConfig \/ SetMaxSize

-----------------------------------------------------------------------------
\* OnAttach has set the callback and the default configuration.
Init ==
    /\ pc = [t \in Printer |-> "out"] /\ printed = [t \in Printer |-> 0]
    /\ inCallback = FALSE /\ logLock = NoThread
    /\ buffer = <<>> /\ maxSize = DefaultMax
    /\ config = [maxEntries |-> DefaultMax, showInConsole |-> FALSE]
    /\ console = [initialized |-> FALSE, visible |-> FALSE, shown |-> <<>>]
    /\ rpc = Idle /\ reply = <<>>
    /\ dropped = {} /\ status = "running"

Next ==
    \/ \E t \in Printer : PrintMessage(t) \/ Hook(t)
    \/ \E raw \in Request : Receive(raw)
    \/ Handle \/ Tear

\* A thread that prints goes on; prints are bounded, so the lock, which is
\* not fair, is free in the end.
Spec ==
    /\ Init /\ [][Next]_vars
    /\ \A t \in Printer : WF_vars(Hook(t))

-----------------------------------------------------------------------------
Text == [by : Printer, n : 1 .. MaxPrints]

TypeOK ==
    /\ pc \in [Printer -> {"out", "printed", "raised", "pushing", "left"}]
    /\ printed \in [Printer -> 0 .. MaxPrints]
    /\ inCallback \in BOOLEAN /\ logLock \in Printer \cup {NoThread}
    /\ buffer \in Seq(Text) /\ maxSize \in Nat \ {0}
    /\ config \in [maxEntries : Nat \ {0}, showInConsole : BOOLEAN]
    /\ console \in [initialized : BOOLEAN, visible : BOOLEAN, shown : Seq(Text)]
    /\ rpc.at \in Method \cup Step
    /\ dropped \subseteq [by : Printer, n : 1 .. MaxPrints, busy : SUBSET Printer]
    /\ status \in {"running", "torn", "aborted"}

(* A message is missing in the log only if another thread was in the       *)
(* callback when it was printed: the flag of one message never outlives    *)
(* it, whatever two threads do to it without a lock.                       *)
CapturedUnlessBusy == \A d \in dropped : d.busy # {}

\* A message is on its way to the log; another was in the callback when it was
\* printed; it is in the log after the i-th.
OnItsWay(t, n) == n = printed[t] /\ pc[t] \in {"printed", "raised", "pushing"}
Dropped(t, n) == \E d \in dropped : d.by = t /\ d.n = n
After(i, n) == \E j \in DOMAIN buffer : i < j /\ buffer[j] = [by |-> buffer[i].by, n |-> n]

(* The log holds the newest messages of a thread in the order in which it  *)
(* printed them, none twice, and none is missing after the oldest but      *)
(* those that were not captured, whatever other threads print meanwhile    *)
(* and however often the log is cut: an offset of dll.getLogs is a         *)
(* "position in the log buffer" (docs/EN/03-methods/dll.md:77).            *)
LogIsRecent ==
    \A i \in DOMAIN buffer :
        LET t == buffer[i].by
        IN /\ \A j \in DOMAIN buffer : i < j /\ buffer[j].by = t => buffer[i].n < buffer[j].n
           /\ \A n \in buffer[i].n + 1 .. printed[t] :
                OnItsWay(t, n) \/ Dropped(t, n) \/ After(i, n)

(* The hook never keeps a thread of the game: who prints gets out again.   *)
PrintReturns ==
    \A t \in Printer : pc[t] # "out" ~> pc[t] = "out" \/ ~Running

(* An answer carries the number of its request, also if no handler has    *)
(* been found, and the total of dll.getLogs covers the entries it returns  *)
(* though it is read after them.                                           *)
RepliesFit ==
    reply # <<>> =>
      LET raw == reply[1].raw
          answer == reply[1].answer
      IN /\ answer.error \in {0, -32601} => answer.id = (IF raw.id = Absent THEN 0 ELSE raw.id)
         /\ answer.error = 0 /\ raw.method = "dll.getLogs" /\ answer.value.entries # <<>> =>
              (IF answer.value.offset < 0 THEN 0 ELSE answer.value.offset)
                + Len(answer.value.entries) <= answer.value.total

(* "capture all game console output" (docs/EN/03-methods/dll.md:5).        *)
AllIsCaptured == dropped = {}
=============================================================================
