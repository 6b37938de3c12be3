---------------------------- MODULE ConsoleProofs ----------------------------
(***************************************************************************)
(* Proofs about Console, and with it about Dispatch: for any number of     *)
(* printing threads, any number of messages, and any requests.             *)
(***************************************************************************)
EXTENDS Console, BufferProofs

\* The flag is up only while a thread is between raising and lowering it.
FlagKept == inCallback => InHook # {}

\* The lock is left by the thread that has entered it, after the push.
LockKept == \A t \in Printer : pc[t] = "pushing" <=> logLock = t

\* A message that is on its way to the log is newer than what its thread has
\* there.
LogBehind ==
    \A i \in DOMAIN buffer :
        /\ buffer[i].n <= printed[buffer[i].by]
        /\ pc[buffer[i].by] \in {"printed", "raised", "pushing"} =>
             buffer[i].n < printed[buffer[i].by]

\* The two halves of LogIsRecent.
LogInOrder ==
    \A i, j \in DOMAIN buffer :
        i < j /\ buffer[i].by = buffer[j].by => buffer[i].n < buffer[j].n

Accounted(i, n) == OnItsWay(buffer[i].by, n) \/ Dropped(buffer[i].by, n) \/ After(i, n)
NoGap == \A i \in DOMAIN buffer : \A n \in buffer[i].n + 1 .. printed[buffer[i].by] : Accounted(i, n)

\* A thread in the hook has printed something.
Started == \A t \in Printer : pc[t] # "out" => printed[t] # 0

\* The log is within the limit in force, and this is the one configured but
\* between the two halves of dll.setLogConfig.
LimitKept ==
    /\ Len(buffer) <= maxSize
    /\ rpc.at # "resize" => config.maxEntries = maxSize

\* The RPC thread at a step with a request that reaches a handler.
With(raw, at) ==
    /\ Reaches(raw)
    /\ raw.kind = "json"
    /\ at \in {"dll.getLogs", "total", "dll.setLogConfig", "resize"} => Fits(FromRaw(raw).params)

Taken == \E raw \in Request :
    /\ With(raw, raw.method)
    /\ rpc = [at |-> raw.method, req |-> FromRaw(raw), raw |-> raw]

\* dll.getLogs has its entries, and the log still has as many.
Entries == \E raw \in Request, offset \in Int, entries \in Seq(Text) :
    /\ With(raw, "total") /\ raw.method = "dll.getLogs"
    /\ rpc = [at |-> "total", req |-> FromRaw(raw), raw |-> raw, offset |-> offset,
              entries |-> entries]
    /\ entries # <<>> => First(offset) + Len(entries) <= Len(buffer)

Configured == \E raw \in Request :
    /\ With(raw, "resize") /\ raw.method = "dll.setLogConfig"
    /\ rpc = [at |-> "resize", req |-> FromRaw(raw), raw |-> raw]

RequestKept == rpc = Idle \/ Taken \/ Entries \/ Configured

HookInv == FlagKept /\ LockKept /\ LogBehind /\ Started /\ LogInOrder /\ NoGap /\ CapturedUnlessBusy
RpcInv == LimitKept /\ RequestKept /\ RepliesFit
CInv == TypeOK /\ HookInv /\ RpcInv

-----------------------------------------------------------------------------
(* Dispatch.                                                               *)

\* A valid request keeps the members of the message it was.
LEMMA ValidIsRequest ==
    ASSUME NEW raw, FromRaw(raw).valid
    PROVE  /\ raw.kind = "json"
           /\ FromRaw(raw).method = raw.method
           /\ FromRaw(raw).id = IF raw.id = Absent THEN 0 ELSE raw.id
           /\ FromRaw(raw).params = IF raw.params = Absent THEN <<>> ELSE raw.params
BY DEF FromRaw, FromJson, InvalidRequest, Object

\* What reaches a handler is a request for a registered method.
LEMMA ReachedIsRequest ==
    ASSUME NEW raw, Reaches(raw)
    PROVE  FromRaw(raw).valid /\ raw.method \in Method
BY ValidIsRequest DEF Reaches

\* What is refused is answered with an error.
LEMMA RefusalIsError ==
    ASSUME NEW raw
    PROVE  /\ Refusal(raw).error # 0
           /\ Refusal(raw).error = -32601 => Refusal(raw).id = (IF raw.id = Absent THEN 0 ELSE raw.id)
BY ValidIsRequest DEF Refusal, Error

\* The params of a request that reaches its handler are none, or fit.
LEMMA NoParamsFit == Fits(<<>>)
BY DEF Fits, ValueOf

LEMMA ReachedFits ==
    ASSUME NEW raw \in Request, Reaches(raw), FromRaw(raw).params # Misfit
    PROVE  Fits(FromRaw(raw).params)
BY ReachedIsRequest, ValidIsRequest, RequestAssumption, NoParamsFit

-----------------------------------------------------------------------------
(* Types.                                                                  *)

LEMMA InitHolds == Init => CInv
<1> SUFFICES ASSUME Init PROVE CInv
  OBVIOUS
<1>1. TypeOK
  <2>1. /\ pc \in [Printer -> {"out", "printed", "raised", "pushing", "left"}]
        /\ printed \in [Printer -> 0 .. MaxPrints]
        /\ logLock \in Printer \cup {NoThread} /\ rpc.at \in Method \cup Step
        /\ maxSize \in Nat \ {0}
    BY DefaultMaxAssumption, ConsoleAssumption DEF Init, Idle, Step
  <2>2. buffer \in Seq(Text) /\ <<>> \in Seq(Text)
    BY EmptySeq DEF Init
  <2>3. inCallback \in BOOLEAN /\ status \in {"running", "torn", "aborted"} /\ dropped = {}
    BY DEF Init
  <2>4. config \in [maxEntries : Nat \ {0}, showInConsole : BOOLEAN]
    BY DefaultMaxAssumption DEF Init
  <2>5. console \in [initialized : BOOLEAN, visible : BOOLEAN, shown : Seq(Text)]
    BY <2>2 DEF Init
  <2> QED BY <2>1, <2>2, <2>3, <2>4, <2>5 DEF TypeOK
<1>2. HookInv
  BY ConsoleAssumption DEF Init, HookInv, FlagKept, LockKept, LogBehind, Started, LogInOrder,
     NoGap, CapturedUnlessBusy
<1>3. RpcInv
  BY DefaultMaxAssumption DEF Init, RpcInv, LimitKept, RequestKept, RepliesFit, Idle
<1> QED BY <1>1, <1>2, <1>3 DEF CInv

\* What a handler makes of its params.
LEMMA CapacityFacts ==
    /\ \A max \in Int : Capacity(max) \in Nat \ {0}
    /\ \A max \in Nat \ {0} : Capacity(max) = max
BY DefaultMaxAssumption DEF Capacity

LEMMA ParamFacts ==
    ASSUME NEW params, Fits(params)
    PROVE  /\ ValueOf(params, "offset", 0) \in Int /\ ValueOf(params, "count", 50) \in Int
           /\ ValueOf(params, "maxEntries", DefaultMax) \in Int
           /\ ValueOf(params, "showInConsole", FALSE) \in BOOLEAN
<1>1. ASSUME NEW name \in {"offset", "count", "maxEntries"}, NEW default \in Int
      PROVE  ValueOf(params, name, default) \in Int
  BY DEF Fits, ValueOf
<1>2. ValueOf(params, "showInConsole", FALSE) \in BOOLEAN
  BY DEF Fits
<1>3. /\ ValueOf(params, "offset", 0) \in Int /\ ValueOf(params, "count", 50) \in Int
      /\ ValueOf(params, "maxEntries", DefaultMax) \in Int
  BY <1>1, DefaultMaxAssumption
<1> QED BY <1>2, <1>3, Zenon

\* The request at a step of the RPC thread.
LEMMA AtMethod ==
    ASSUME RequestKept, rpc.at \notin Step
    PROVE  Taken
BY DEF RequestKept, Entries, Configured, Idle, Step

LEMMA AtTotal == ASSUME RequestKept, rpc.at = "total" PROVE Entries
<1>1. ~Taken
  BY RequestAssumption, ReachedIsRequest DEF Taken, With, Step
<1> QED BY <1>1 DEF RequestKept, Configured, Idle

LEMMA AtResize == ASSUME RequestKept, rpc.at = "resize" PROVE Configured
<1>1. ~Taken
  BY RequestAssumption, ReachedIsRequest DEF Taken, With, Step
<1> QED BY <1>1 DEF RequestKept, Entries, Idle

-----------------------------------------------------------------------------
(* What a step leaves alone.                                               *)

Rpc == (\E raw \in Request : Receive(raw)) \/ Handle \/ Tear

LEMMA HookFrame ==
    ASSUME NEW t \in Printer, PrintMessage(t) \/ Hook(t)
    PROVE  UNCHANGED <<maxSize, config, rpc, reply, status>>
BY DEF PrintMessage, Hook, RaiseFlag, EnterLock, Capture, LowerFlag

LEMMA RpcFrame ==
    ASSUME Rpc
    PROVE  /\ UNCHANGED hook
           /\ UNCHANGED <<buffer, maxSize>> \/ SetMaxSize
<1>1. ASSUME NEW raw \in Request, Receive(raw) PROVE UNCHANGED <<hook, buffer, maxSize>>
  BY <1>1 DEF Receive
<1>2. CASE Handle
  BY <1>2 DEF Handle, ToggleConsole, GetInfo, GetLogs, GetLogCount, SetLogConfig, SetMaxSize
<1>3. CASE Tear
  BY <1>3 DEF Tear
<1> QED BY <1>1, <1>2, <1>3 DEF Rpc

\* What SetMaxSize leaves of the log is its end.
LEMMA ResizeFacts ==
    ASSUME TypeOK, SetMaxSize
    PROVE  /\ maxSize' = config.maxEntries
           /\ buffer' \in Seq(Text) /\ Len(buffer') <= maxSize'
           /\ \A i \in 1 .. Len(buffer') :
                /\ Len(buffer) - Len(buffer') + i \in 1 .. Len(buffer)
                /\ buffer'[i] = buffer[Len(buffer) - Len(buffer') + i]
<1>1. config.maxEntries \in Nat \ {0} /\ buffer \in Seq(Text)
  BY DEF TypeOK
<1>2. maxSize' = config.maxEntries /\ buffer' = Trim(buffer, config.maxEntries)
  BY <1>1, CapacityFacts DEF SetMaxSize
<1>3. /\ Trim(buffer, config.maxEntries) \in Seq(Text)
      /\ Len(Trim(buffer, config.maxEntries)) <= config.maxEntries
  BY <1>1, TrimFacts
<1> QED BY <1>1, <1>2, <1>3, TrimFacts

\* A message that is pushed has a number.
LEMMA TextFacts ==
    ASSUME TypeOK, Started, NEW t \in Printer, pc[t] = "pushing"
    PROVE  [by |-> t, n |-> printed[t]] \in Text
BY ConsoleAssumption DEF TypeOK, Started, Text

\* What Capture adds comes after what the log keeps.
LEMMA CaptureFacts ==
    ASSUME TypeOK, Started, LimitKept, NEW t \in Printer, Capture(t)
    PROVE  /\ buffer' \in Seq(Text)
           /\ Len(buffer) <= Len(buffer') /\ Len(buffer') <= maxSize'
           /\ \A i \in 1 .. Len(buffer') : \E k \in 1 .. Len(buffer) + 1 :
                /\ k = Len(buffer) + 1 - Len(buffer') + i
                /\ buffer'[i] = IF k = Len(buffer) + 1 THEN [by |-> t, n |-> printed[t]]
                                                       ELSE buffer[k]
<1>1. /\ buffer \in Seq(Text) /\ maxSize \in Nat \ {0} /\ Len(buffer) <= maxSize
      /\ [by |-> t, n |-> printed[t]] \in Text
  BY TextFacts DEF TypeOK, LimitKept, Capture, At
<1>2. /\ buffer' = PushTrimmed(buffer, [by |-> t, n |-> printed[t]], maxSize)
      /\ maxSize' = maxSize
  BY DEF Capture
<1> DEFINE text == [by |-> t, n |-> printed[t]]
           u == PushTrimmed(buffer, text, maxSize)
<1>3. /\ u \in Seq(Text) /\ Len(buffer) <= Len(u) /\ Len(u) <= maxSize
      /\ \A i \in 1 .. Len(u) : \E k \in 1 .. Len(buffer) + 1 :
           /\ k = Len(buffer) + 1 - Len(u) + i
           /\ u[i] = IF k = Len(buffer) + 1 THEN text ELSE buffer[k]
  <2>1. text \in Text
    BY <1>1
  <2> HIDE DEF text
  <2> QED BY <1>1, <2>1, PushFacts
<1>4. buffer' = u /\ maxSize' = maxSize
  BY <1>2
<1> HIDE DEF u
<1> QED BY <1>3, <1>4

-----------------------------------------------------------------------------
(* The hook.                                                               *)

LEMMA StepFlag ==
    ASSUME TypeOK, FlagKept, CapturedUnlessBusy, NEW t \in Printer, PrintMessage(t) \/ Hook(t)
    PROVE  FlagKept' /\ CapturedUnlessBusy'
<1> USE DEF FlagKept, CapturedUnlessBusy, InHook, At, TypeOK
<1>1. CASE PrintMessage(t)
  BY <1>1 DEF PrintMessage
<1>2. CASE RaiseFlag(t)
  BY <1>2 DEF RaiseFlag
<1>3. CASE EnterLock(t)
  BY <1>3 DEF EnterLock
<1>4. CASE Capture(t)
  BY <1>4 DEF Capture
<1>5. CASE LowerFlag(t)
  BY <1>5 DEF LowerFlag
<1> QED BY <1>1, <1>2, <1>3, <1>4, <1>5 DEF Hook

LEMMA StepLock ==
    ASSUME TypeOK, LockKept, NEW t \in Printer, PrintMessage(t) \/ Hook(t)
    PROVE  LockKept'
<1> USE ConsoleAssumption DEF LockKept, At, TypeOK
<1>1. CASE PrintMessage(t)
  BY <1>1 DEF PrintMessage
<1>2. CASE RaiseFlag(t)
  BY <1>2 DEF RaiseFlag
<1>3. CASE EnterLock(t)
  BY <1>3 DEF EnterLock
<1>4. CASE Capture(t)
  BY <1>4 DEF Capture
<1>5. CASE LowerFlag(t)
  BY <1>5 DEF LowerFlag
<1> QED BY <1>1, <1>2, <1>3, <1>4, <1>5 DEF Hook

LEMMA StepStarted ==
    ASSUME TypeOK, Started, NEW t \in Printer, PrintMessage(t) \/ Hook(t)
    PROVE  Started'
<1> USE ConsoleAssumption DEF Started, At, TypeOK
<1>1. CASE PrintMessage(t)
  BY <1>1 DEF PrintMessage
<1>2. CASE Hook(t)
  BY <1>2 DEF Hook, RaiseFlag, EnterLock, Capture, LowerFlag
<1> QED BY <1>1, <1>2

LEMMA BufferTyped ==
    ASSUME TypeOK, NEW i \in DOMAIN buffer
    PROVE  buffer[i].by \in Printer /\ buffer[i].n \in 1 .. MaxPrints
<1>1. buffer[i] \in Text
  BY DEF TypeOK
<1> QED BY <1>1 DEF Text

\* A step of the hook that does not push.
LEMMA StepBehind ==
    ASSUME TypeOK, LogBehind, LogInOrder, NEW t \in Printer, PrintMessage(t) \/ Hook(t),
           ~Capture(t)
    PROVE  LogBehind' /\ LogInOrder'
<1>1. buffer' = buffer /\ buffer \in Seq(Text)
  BY DEF PrintMessage, Hook, RaiseFlag, EnterLock, LowerFlag, TypeOK
<1>2. LogInOrder'
  BY <1>1 DEF LogInOrder
<1>3. ASSUME NEW i \in DOMAIN buffer
      PROVE  /\ buffer[i].n <= printed'[buffer[i].by]
             /\ pc'[buffer[i].by] \in {"printed", "raised", "pushing"} =>
                  buffer[i].n < printed'[buffer[i].by]
  <2> DEFINE by == buffer[i].by
             n == buffer[i].n
  <2>1. by \in Printer /\ n \in Nat
    BY <1>1, BufferTyped
  <2>2. n <= printed[by] /\ (pc[by] \in {"printed", "raised", "pushing"} => n < printed[by])
    BY DEF LogBehind
  <2> HIDE DEF by, n
  <2>3. PrintMessage(t) => n <= printed'[by]
          /\ (pc'[by] \in {"printed", "raised", "pushing"} => n < printed'[by])
    BY <2>1, <2>2 DEF PrintMessage, At, TypeOK
  <2>4. Hook(t) => n <= printed'[by]
          /\ (pc'[by] \in {"printed", "raised", "pushing"} => n < printed'[by])
    BY <2>1, <2>2 DEF Hook, RaiseFlag, EnterLock, LowerFlag, At, TypeOK
  <2>5. n <= printed'[by] /\ (pc'[by] \in {"printed", "raised", "pushing"} => n < printed'[by])
    BY <2>3, <2>4
  <2> QED BY <2>5 DEF by, n
<1> QED BY <1>1, <1>2, <1>3 DEF LogBehind

\* What is pushed is newer than what its thread has in the log.
LEMMA CaptureBehind ==
    ASSUME TypeOK, Started, LimitKept, LogBehind, LogInOrder, NEW t \in Printer, Capture(t)
    PROVE  LogBehind' /\ LogInOrder'
<1> DEFINE text == [by |-> t, n |-> printed[t]]
           At0(i) == Len(buffer) + 1 - Len(buffer') + i
<1>1. /\ buffer \in Seq(Text) /\ buffer' \in Seq(Text)
      /\ DOMAIN buffer = 1 .. Len(buffer) /\ DOMAIN buffer' = 1 .. Len(buffer')
      /\ Len(buffer) \in Nat /\ Len(buffer') \in Nat
  <2>1. buffer \in Seq(Text)
    BY DEF TypeOK
  <2>2. buffer' \in Seq(Text)
    BY CaptureFacts
  <2> QED BY <2>1, <2>2
<1>2. \A i \in 1 .. Len(buffer') :
        /\ At0(i) \in 1 .. Len(buffer) + 1
        /\ buffer'[i] = IF At0(i) = Len(buffer) + 1 THEN text ELSE buffer[At0(i)]
  BY CaptureFacts
<1>3. pc[t] = "pushing" /\ pc' = [pc EXCEPT ![t] = "left"] /\ printed' = printed
  BY DEF Capture, At
<1>4. \A k \in 1 .. Len(buffer) :
        /\ buffer[k].by \in Printer /\ buffer[k].n \in 1 .. MaxPrints
        /\ buffer[k].n <= printed[buffer[k].by]
        /\ buffer[k].by = t => buffer[k].n < printed[t]
  BY <1>1, <1>3, BufferTyped DEF LogBehind
<1>5. text.by = t /\ text.n = printed[t] /\ printed[t] \in Nat
  BY DEF TypeOK
<1> HIDE DEF text, At0
<1>6. ASSUME NEW i \in 1 .. Len(buffer')
      PROVE  /\ buffer'[i].n <= printed'[buffer'[i].by]
             /\ pc'[buffer'[i].by] \in {"printed", "raised", "pushing"} =>
                  buffer'[i].n < printed'[buffer'[i].by]
  <2>1. CASE At0(i) = Len(buffer) + 1
    <3>1. buffer'[i] = text
      BY <1>2, <2>1
    <3> QED BY <1>3, <1>5, <3>1 DEF TypeOK
  <2>2. CASE At0(i) # Len(buffer) + 1
    <3>1. At0(i) \in 1 .. Len(buffer) /\ buffer'[i] = buffer[At0(i)]
      BY <1>1, <1>2, <2>2
    <3>2. pc'[buffer[At0(i)].by] \in {"printed", "raised", "pushing"} =>
            pc[buffer[At0(i)].by] \in {"printed", "raised", "pushing"}
      BY <1>3, <1>4, <3>1 DEF TypeOK
    <3> QED BY <1>1, <1>3, <3>1, <3>2 DEF LogBehind
  <2> QED BY <2>1, <2>2
<1>7. ASSUME NEW i \in 1 .. Len(buffer'), NEW j \in 1 .. Len(buffer'), i < j,
             buffer'[i].by = buffer'[j].by
      PROVE  buffer'[i].n < buffer'[j].n
  <2>1. At0(i) < At0(j)
    BY <1>1, <1>7 DEF At0
  <2>2. At0(i) \in 1 .. Len(buffer) /\ buffer'[i] = buffer[At0(i)]
    BY <1>1, <1>2, <2>1
  <2>3. CASE At0(j) = Len(buffer) + 1
    <3>1. buffer'[j] = text
      BY <1>2, <2>3
    <3> QED BY <1>4, <1>5, <1>7, <2>2, <3>1
  <2>4. CASE At0(j) # Len(buffer) + 1
    <3>1. At0(j) \in 1 .. Len(buffer) /\ buffer'[j] = buffer[At0(j)]
      BY <1>1, <1>2, <2>4
    <3> QED BY <1>1, <1>7, <2>1, <2>2, <3>1 DEF LogInOrder
  <2> QED BY <2>3, <2>4
<1> QED BY <1>1, <1>6, <1>7 DEF LogBehind, LogInOrder

\* Cutting the log keeps its end, and so the order.
LEMMA ResizeBehind ==
    ASSUME TypeOK, LogBehind, LogInOrder, SetMaxSize
    PROVE  LogBehind' /\ LogInOrder'
<1> DEFINE At0(i) == Len(buffer) - Len(buffer') + i
<1>1. /\ DOMAIN buffer = 1 .. Len(buffer) /\ DOMAIN buffer' = 1 .. Len(buffer')
      /\ Len(buffer) \in Nat /\ Len(buffer') \in Nat
  <2>1. buffer \in Seq(Text)
    BY DEF TypeOK
  <2>2. buffer' \in Seq(Text)
    BY ResizeFacts
  <2> QED BY <2>1, <2>2
<1>2. \A i \in 1 .. Len(buffer') :
        At0(i) \in 1 .. Len(buffer) /\ buffer'[i] = buffer[At0(i)]
  BY ResizeFacts
<1>3. \A i, j \in 1 .. Len(buffer') : i < j => At0(i) < At0(j)
  BY <1>1
<1> HIDE DEF At0
<1>4. UNCHANGED <<pc, printed>>
  BY DEF SetMaxSize, hook
<1> QED BY <1>1, <1>2, <1>3, <1>4 DEF LogBehind, LogInOrder

\* A step of the hook that does not push keeps account of what it prints.
LEMMA StepGap ==
    ASSUME TypeOK, NoGap, NEW t \in Printer, PrintMessage(t) \/ Hook(t), ~Capture(t)
    PROVE  NoGap'
<1>1. buffer' = buffer
  BY DEF PrintMessage, Hook, RaiseFlag, EnterLock, LowerFlag
<1> SUFFICES ASSUME NEW i \in DOMAIN buffer, NEW n \in buffer[i].n + 1 .. printed'[buffer[i].by]
             PROVE  Accounted(i, n)'
  BY <1>1 DEF NoGap
<1>2. buffer[i].by \in Printer /\ buffer[i].n \in Nat /\ n \in Int
  BY BufferTyped
<1>3. After(i, n)' <=> After(i, n)
  BY <1>1 DEF After
<1>4. Dropped(buffer[i].by, n) => Dropped(buffer[i].by, n)'
  BY <1>1 DEF Dropped, PrintMessage, Hook, RaiseFlag, EnterLock, LowerFlag
<1>5. n \in buffer[i].n + 1 .. printed[buffer[i].by] => Accounted(i, n)
  BY DEF NoGap
<1>0. PICK by \in Printer : by = buffer[i].by
  BY <1>2
<1>6. ASSUME PrintMessage(t), by = t PROVE Accounted(i, n)'
  <2>1. pc[t] = "out" /\ printed'[t] = printed[t] + 1 /\ printed[t] \in Nat
    BY <1>6, ConsoleAssumption DEF PrintMessage, At, TypeOK
  <2>2. CASE n = printed[t] + 1
    <3>1. CASE inCallback
      <4>1. [by |-> t, n |-> printed'[t], busy |-> InHook] \in dropped'
        BY <1>6, <3>1 DEF PrintMessage
      <4>2. Dropped(t, n)'
        BY <2>1, <2>2, <4>1 DEF Dropped
      <4> QED BY <1>0, <1>1, <1>6, <4>2 DEF Accounted
    <3>2. CASE ~inCallback
      <4>1. pc'[t] = "printed"
        BY <1>6, <3>2 DEF PrintMessage, At, TypeOK
      <4>2. OnItsWay(t, n)'
        BY <2>1, <2>2, <4>1 DEF OnItsWay
      <4> QED BY <1>0, <1>1, <1>6, <4>2 DEF Accounted
    <3> QED BY <3>1, <3>2
  <2>3. CASE n # printed[t] + 1
    <3>1. n \in buffer[i].n + 1 .. printed[buffer[i].by]
      BY <1>0, <1>2, <1>6, <2>1, <2>3
    <3>2. ~OnItsWay(by, n)
      BY <1>6, <2>1 DEF OnItsWay
    <3> QED BY <1>0, <1>1, <1>3, <1>4, <1>5, <3>1, <3>2 DEF Accounted
  <2> QED BY <2>2, <2>3
<1>7. ASSUME ~(PrintMessage(t) /\ by = t) PROVE Accounted(i, n)'
  <2>1. printed'[by] = printed[by]
    BY <1>7 DEF PrintMessage, Hook, RaiseFlag, EnterLock, LowerFlag, TypeOK
  <2>2. OnItsWay(by, n) => OnItsWay(by, n)'
    BY <1>7, <2>1 DEF OnItsWay, PrintMessage, Hook, RaiseFlag, EnterLock, LowerFlag, At, TypeOK
  <2> QED BY <1>0, <1>1, <1>3, <1>4, <1>5, <2>1, <2>2 DEF Accounted
<1> QED BY <1>6, <1>7

\* An entry that stays is accounted for by the entries that stay with it.
LEMMA AfterKept ==
    ASSUME TypeOK, buffer' \in Seq(Text), NEW shift \in Nat,
           \A j \in 1 .. Len(buffer) : j > shift =>
             j - shift \in 1 .. Len(buffer') /\ buffer'[j - shift] = buffer[j],
           NEW i \in 1 .. Len(buffer'), i + shift \in 1 .. Len(buffer), NEW n,
           After(i + shift, n)
    PROVE  After(i, n)'
<1>1. buffer \in Seq(Text) /\ DOMAIN buffer = 1 .. Len(buffer) /\ DOMAIN buffer' = 1 .. Len(buffer')
      /\ Len(buffer) \in Nat /\ Len(buffer') \in Nat
  BY DEF TypeOK
<1>2. PICK j \in 1 .. Len(buffer) : i + shift < j /\ buffer[j] = [by |-> buffer[i + shift].by, n |-> n]
  BY <1>1 DEF After
<1>3. j - shift \in 1 .. Len(buffer') /\ i < j - shift /\ buffer'[j - shift] = buffer[j]
  BY <1>1, <1>2
<1>4. buffer'[i] = buffer[i + shift]
  <2>1. i + shift > shift /\ (i + shift) - shift = i
    BY <1>1
  <2> QED BY <2>1
<1> QED BY <1>1, <1>2, <1>3, <1>4 DEF After

\* A message that is pushed is no longer on its way, but in the log.
LEMMA CaptureGap ==
    ASSUME TypeOK, Started, LimitKept, NoGap, NEW t \in Printer, Capture(t)
    PROVE  NoGap'
<1> DEFINE text == [by |-> t, n |-> printed[t]]
           shift == Len(buffer) + 1 - Len(buffer')
<1>1. /\ buffer \in Seq(Text) /\ buffer' \in Seq(Text)
      /\ DOMAIN buffer = 1 .. Len(buffer) /\ DOMAIN buffer' = 1 .. Len(buffer')
      /\ Len(buffer) \in Nat /\ Len(buffer') \in Nat
  <2>1. buffer \in Seq(Text)
    BY DEF TypeOK
  <2>2. buffer' \in Seq(Text)
    BY CaptureFacts
  <2> QED BY <2>1, <2>2
<1>2. \A i \in 1 .. Len(buffer') :
        /\ i + shift \in 1 .. Len(buffer) + 1
        /\ buffer'[i] = IF i + shift = Len(buffer) + 1 THEN text ELSE buffer[i + shift]
  <2>1. \A i \in 1 .. Len(buffer') : i + shift = Len(buffer) + 1 - Len(buffer') + i
    BY <1>1
  <2> HIDE DEF text, shift
  <2>2. \A i \in 1 .. Len(buffer') : \E k \in 1 .. Len(buffer) + 1 :
          /\ k = Len(buffer) + 1 - Len(buffer') + i
          /\ buffer'[i] = IF k = Len(buffer) + 1 THEN text ELSE buffer[k]
    BY CaptureFacts DEF text
  <2> QED BY <2>1, <2>2
<1>3. pc[t] = "pushing" /\ pc' = [pc EXCEPT ![t] = "left"] /\ printed' = printed /\ dropped' = dropped
  BY DEF Capture, At
<1>4. text.by = t /\ text.n = printed[t] /\ printed[t] \in Nat
  BY DEF TypeOK
<1>5. shift \in Nat /\ Len(buffer') = Len(buffer) + 1 - shift
  <2>1. Len(buffer') <= Len(buffer) + 1
    <3>1. CASE Len(buffer') = 0
      BY <1>1, <3>1
    <3>2. CASE Len(buffer') # 0
      <4>1. 1 \in 1 .. Len(buffer')
        BY <1>1, <3>2
      <4> HIDE DEF text
      <4>2. 1 + shift \in 1 .. Len(buffer) + 1
        BY <1>2, <4>1
      <4> QED BY <1>1, <4>2
    <3> QED BY <3>1, <3>2
  <2> QED BY <1>1, <2>1
<1> HIDE DEF text, shift
<1>6. \A j \in 1 .. Len(buffer) : j > shift =>
        j - shift \in 1 .. Len(buffer') /\ buffer'[j - shift] = buffer[j]
  <2> SUFFICES ASSUME NEW j \in 1 .. Len(buffer), j > shift
               PROVE  j - shift \in 1 .. Len(buffer') /\ buffer'[j - shift] = buffer[j]
    OBVIOUS
  <2>1. j - shift \in 1 .. Len(buffer') /\ (j - shift) + shift = j /\ j # Len(buffer) + 1
    BY <1>1, <1>5
  <2> QED BY <1>2, <2>1
<1> SUFFICES ASSUME NEW i \in 1 .. Len(buffer'),
                    NEW n \in buffer'[i].n + 1 .. printed'[buffer'[i].by]
             PROVE  Accounted(i, n)'
  BY <1>1 DEF NoGap
<1>7. CASE i + shift = Len(buffer) + 1
  <2>1. buffer'[i] = text
    BY <1>2, <1>7
  <2> QED BY <1>3, <1>4, <2>1
<1>8. CASE i + shift # Len(buffer) + 1
  <2>1. i + shift \in 1 .. Len(buffer) /\ buffer'[i] = buffer[i + shift]
    BY <1>1, <1>2, <1>5, <1>8
  <2>2. Accounted(i + shift, n)
    BY <1>1, <1>3, <2>1 DEF NoGap
  <2>3. After(i + shift, n) => After(i, n)'
    BY <1>1, <1>5, <1>6, <2>1, AfterKept
  <2>4. Dropped(buffer[i + shift].by, n) => Dropped(buffer[i].by, n)'
    BY <1>3, <2>1 DEF Dropped
  <2>5. ASSUME OnItsWay(buffer[i + shift].by, n), buffer[i + shift].by = t PROVE After(i, n)'
    <3>1. Len(buffer') \in 1 .. Len(buffer') /\ Len(buffer') + shift = Len(buffer) + 1 /\ i < Len(buffer')
      BY <1>1, <1>5, <1>8
    <3>2. buffer'[Len(buffer')] = text
      BY <1>2, <3>1
    <3>3. text = [by |-> buffer'[i].by, n |-> n]
      BY <2>1, <2>5 DEF OnItsWay, text
    <3> QED BY <1>1, <3>1, <3>2, <3>3 DEF After
  <2>6. ASSUME OnItsWay(buffer[i + shift].by, n), buffer[i + shift].by # t
        PROVE  OnItsWay(buffer[i].by, n)'
    <3>1. PICK by \in Printer : by = buffer[i + shift].by
      BY <1>1, <2>1, BufferTyped
    <3>2. by = buffer'[i].by /\ OnItsWay(by, n) /\ by # t
      BY <2>1, <2>6, <3>1
    <3>3. pc'[by] = pc[by] /\ printed'[by] = printed[by]
      BY <1>3, <3>1, <3>2 DEF TypeOK
    <3>4. n = printed'[by] /\ pc'[by] \in {"printed", "raised", "pushing"}
      BY <3>2, <3>3 DEF OnItsWay
    <3> QED BY <3>2, <3>4 DEF OnItsWay
  <2> QED BY <2>1, <2>2, <2>3, <2>4, <2>5, <2>6 DEF Accounted
<1> QED BY <1>7, <1>8

\* What is cut off is older than what stays.
LEMMA ResizeGap ==
    ASSUME TypeOK, NoGap, SetMaxSize
    PROVE  NoGap'
<1> DEFINE shift == Len(buffer) - Len(buffer')
<1>1. /\ buffer \in Seq(Text) /\ buffer' \in Seq(Text)
      /\ DOMAIN buffer = 1 .. Len(buffer) /\ DOMAIN buffer' = 1 .. Len(buffer')
      /\ Len(buffer) \in Nat /\ Len(buffer') \in Nat
  <2>1. buffer \in Seq(Text)
    BY DEF TypeOK
  <2>2. buffer' \in Seq(Text)
    BY ResizeFacts
  <2> QED BY <2>1, <2>2
<1>2. \A i \in 1 .. Len(buffer') : i + shift \in 1 .. Len(buffer) /\ buffer'[i] = buffer[i + shift]
  <2>1. \A i \in 1 .. Len(buffer') : i + shift = Len(buffer) - Len(buffer') + i
    BY <1>1
  <2> HIDE DEF shift
  <2> QED BY <2>1, ResizeFacts
<1>3. UNCHANGED <<pc, printed, dropped>>
  BY DEF SetMaxSize, hook
<1>4. shift \in Nat /\ Len(buffer') = Len(buffer) - shift
  <2>1. CASE Len(buffer') = 0
    BY <1>1, <2>1
  <2>2. CASE Len(buffer') # 0
    <3>1. 1 \in 1 .. Len(buffer')
      BY <1>1, <2>2
    <3>2. 1 + shift \in 1 .. Len(buffer)
      BY <1>2, <3>1
    <3> QED BY <1>1, <3>2
  <2> QED BY <2>1, <2>2
<1> HIDE DEF shift
<1>5. \A j \in 1 .. Len(buffer) : j > shift =>
        j - shift \in 1 .. Len(buffer') /\ buffer'[j - shift] = buffer[j]
  <2> SUFFICES ASSUME NEW j \in 1 .. Len(buffer), j > shift
               PROVE  j - shift \in 1 .. Len(buffer') /\ buffer'[j - shift] = buffer[j]
    OBVIOUS
  <2>1. j - shift \in 1 .. Len(buffer') /\ (j - shift) + shift = j
    BY <1>1, <1>4
  <2> QED BY <1>2, <2>1
<1> SUFFICES ASSUME NEW i \in 1 .. Len(buffer'),
                    NEW n \in buffer'[i].n + 1 .. printed'[buffer'[i].by]
             PROVE  Accounted(i, n)'
  BY <1>1 DEF NoGap
<1>6. i + shift \in 1 .. Len(buffer) /\ buffer'[i] = buffer[i + shift]
  BY <1>2
<1>7. Accounted(i + shift, n)
  BY <1>1, <1>3, <1>6 DEF NoGap
<1>8. After(i + shift, n) => After(i, n)'
  BY <1>1, <1>4, <1>5, <1>6, AfterKept
<1> QED BY <1>3, <1>6, <1>7, <1>8 DEF Accounted, OnItsWay, Dropped

LEMMA StepHook ==
    ASSUME TypeOK, LimitKept, HookInv, [Next]_vars
    PROVE  HookInv'
<1> USE DEF HookInv
<1>1. ASSUME NEW t \in Printer, PrintMessage(t) \/ Hook(t) PROVE HookInv'
  <2>1. LogBehind' /\ LogInOrder' /\ NoGap'
    BY <1>1, StepBehind, CaptureBehind, StepGap, CaptureGap
  <2> QED BY <1>1, <2>1, StepFlag, StepLock, StepStarted
<1>2. CASE Rpc
  <2>1. UNCHANGED hook
    BY <1>2, RpcFrame
  <2>2. LogBehind' /\ LogInOrder'
    BY <1>2, <2>1, RpcFrame, ResizeBehind DEF LogBehind, LogInOrder, hook
  <2>3. NoGap'
    <3>1. ASSUME UNCHANGED buffer PROVE NoGap'
      BY <2>1, <3>1 DEF NoGap, Accounted, OnItsWay, Dropped, After, hook
    <3> QED BY <1>2, <3>1, RpcFrame, ResizeGap
  <2> QED BY <2>1, <2>2, <2>3 DEF hook, FlagKept, LockKept, Started, CapturedUnlessBusy, InHook
<1>3. CASE UNCHANGED vars
  BY <1>3 DEF vars, hook, FlagKept, LockKept, Started, CapturedUnlessBusy, InHook, LogBehind, LogInOrder,
              NoGap, Accounted, OnItsWay, Dropped, After
<1> QED BY <1>1, <1>2, <1>3 DEF Next, Rpc

-----------------------------------------------------------------------------
(* The RPC thread.                                                         *)

\* The hook only adds to the log, up to the limit.
LEMMA HookRpc ==
    ASSUME TypeOK, Started, RpcInv, NEW t \in Printer, PrintMessage(t) \/ Hook(t)
    PROVE  RpcInv'
<1>1. UNCHANGED <<maxSize, config, rpc, reply>>
  BY HookFrame
<1>2. Len(buffer) \in Nat /\ Len(buffer') \in Nat /\ Len(buffer) <= Len(buffer') /\ Len(buffer') <= maxSize
  <2>1. CASE Capture(t)
    <3>1. buffer \in Seq(Text) /\ buffer' \in Seq(Text)
      BY <2>1, CaptureFacts DEF RpcInv, TypeOK
    <3>2. Len(buffer) <= Len(buffer') /\ Len(buffer') <= maxSize'
      BY <2>1, CaptureFacts DEF RpcInv
    <3> QED BY <1>1, <3>1, <3>2
  <2>2. CASE ~Capture(t)
    <3>1. buffer' = buffer /\ buffer \in Seq(Text)
      BY <2>2 DEF PrintMessage, Hook, RaiseFlag, EnterLock, LowerFlag, TypeOK
    <3> QED BY <3>1 DEF RpcInv, LimitKept
  <2> QED BY <2>1, <2>2
<1>3. LimitKept'
  BY <1>1, <1>2 DEF RpcInv, LimitKept
<1>4. RequestKept'
  <2>1. Taken => Taken'
    BY <1>1 DEF Taken
  <2>2. Configured => Configured'
    BY <1>1 DEF Configured
  <2>3. Entries => Entries'
    <3> SUFFICES ASSUME Entries PROVE Entries'
      OBVIOUS
    <3>1. PICK raw \in Request, offset \in Int, entries \in Seq(Text) :
             /\ With(raw, "total") /\ raw.method = "dll.getLogs"
             /\ rpc = [at |-> "total", req |-> FromRaw(raw), raw |-> raw, offset |-> offset,
                       entries |-> entries]
             /\ entries # <<>> => First(offset) + Len(entries) <= Len(buffer)
      BY DEF Entries
    <3>2. entries # <<>> => First(offset) + Len(entries) <= Len(buffer')
      BY <1>2, <3>1 DEF First
    <3> QED BY <1>1, <3>1, <3>2 DEF Entries
  <2> QED BY <1>1, <2>1, <2>2, <2>3 DEF RpcInv, RequestKept
<1>5. RepliesFit'
  BY <1>1 DEF RpcInv, RepliesFit
<1> QED BY <1>3, <1>4, <1>5 DEF RpcInv

Fit(raw, answer) ==
    /\ answer.error \in {0, -32601} => answer.id = (IF raw.id = Absent THEN 0 ELSE raw.id)
    /\ answer.error = 0 /\ raw.method = "dll.getLogs" /\ answer.value.entries # <<>> =>
         First(answer.value.offset) + Len(answer.value.entries) <= answer.value.total

LEMMA RepliesAreFit == RepliesFit <=> (reply # <<>> => Fit(reply[1].raw, reply[1].answer))
BY DEF RepliesFit, Fit, First

LEMMA RefusalFits == ASSUME NEW raw, ~Reaches(raw) PROVE Fit(raw, Refusal(raw))
<1>1. Refusal(raw).error \in {-32700, -32600, -32601}
  BY DEF Refusal, Error
<1> QED BY <1>1, RefusalIsError DEF Fit

LEMMA ResultFits ==
    ASSUME NEW raw, Reaches(raw), NEW value,
           raw.method = "dll.getLogs" /\ value.entries # <<>> =>
             First(value.offset) + Len(value.entries) <= value.total
    PROVE  Fit(raw, Result(FromRaw(raw).id, value))
BY ReachedIsRequest, ValidIsRequest DEF Fit, Result

LEMMA ReceiveRpc ==
    ASSUME RpcInv, NEW raw \in Request, Receive(raw)
    PROVE  RpcInv'
<1>1. UNCHANGED <<buffer, maxSize, config>> /\ rpc = Idle
  BY DEF Receive
<1>2. CASE ~Reaches(raw)
  <2>1. rpc' = Idle /\ reply' = <<[raw |-> raw, answer |-> Refusal(raw)]>>
    BY <1>2 DEF Receive
  <2>2. reply'[1].raw = raw /\ reply'[1].answer = Refusal(raw)
    BY <2>1
  <2>3. RepliesFit'
    BY <1>2, <2>2, RefusalFits DEF RepliesFit, Fit, First
  <2> QED BY <1>1, <2>1, <2>3 DEF RpcInv, LimitKept, RequestKept
<1>3. CASE Reaches(raw) /\ UNCHANGED <<rpc, reply>>
  BY <1>1, <1>3 DEF RpcInv, LimitKept, RequestKept, RepliesFit
<1>4. CASE Reaches(raw) /\ ~UNCHANGED <<rpc, reply>>
  <2>1. /\ rpc' = [at |-> FromRaw(raw).method, req |-> FromRaw(raw), raw |-> raw]
        /\ reply' = <<>>
        /\ FromRaw(raw).params = Misfit => raw.method \notin {"dll.getLogs", "dll.setLogConfig"}
    BY <1>4, ReachedIsRequest, ValidIsRequest DEF Receive
  <2>2. FromRaw(raw).method = raw.method /\ raw.method \notin Step /\ raw.kind = "json"
    BY <1>4, ReachedIsRequest, ValidIsRequest, RequestAssumption
  <2>3. With(raw, raw.method)
    BY <1>4, <2>1, <2>2, ReachedFits DEF With, Step
  <2>4. Taken'
    BY <2>1, <2>2, <2>3 DEF Taken
  <2>5. LimitKept'
    BY <1>1, <2>1, <2>2 DEF RpcInv, LimitKept, Idle, Step
  <2> QED BY <2>1, <2>4, <2>5 DEF RpcInv, RequestKept, RepliesFit
<1> QED BY <1>2, <1>3, <1>4

\* The request a method is called with.
LEMMA TakenIsCalled ==
    ASSUME RequestKept, rpc.at \notin Step
    PROVE  \E raw \in Request : /\ With(raw, raw.method) /\ raw.method = rpc.at
                                /\ rpc.req = FromRaw(raw) /\ rpc.raw = raw
<1>1. PICK raw \in Request :
        With(raw, raw.method) /\ rpc = [at |-> raw.method, req |-> FromRaw(raw), raw |-> raw]
  BY AtMethod DEF Taken
<1>2. raw.method = rpc.at /\ rpc.req = FromRaw(raw) /\ rpc.raw = raw
  BY <1>1
<1> QED BY <1>1, <1>2

\* A method other than dll.getLogs answers with whatever it likes.
LEMMA AnswerFits ==
    ASSUME RequestKept, rpc.at \notin Step, rpc.at # "dll.getLogs", NEW value,
           Answer(Result(rpc.req.id, value))
    PROVE  RepliesFit' /\ rpc' = Idle
<1>1. PICK raw \in Request : /\ With(raw, raw.method) /\ raw.method = rpc.at
                             /\ rpc.req = FromRaw(raw) /\ rpc.raw = raw
  BY TakenIsCalled
<1>2. Fit(raw, Result(FromRaw(raw).id, value))
  BY <1>1, ResultFits DEF With
<1>3. reply'[1].raw = raw /\ reply'[1].answer = Result(FromRaw(raw).id, value) /\ rpc' = Idle
  BY <1>1 DEF Answer
<1> QED BY <1>2, <1>3 DEF RepliesFit, Fit, First

LEMMA ToggleRpc == ASSUME RpcInv, ToggleConsole PROVE RpcInv'
<1>1. rpc.at = "dll.toggleConsole" /\ rpc.at \notin Step /\ UNCHANGED <<buffer, maxSize, config>>
  BY DEF ToggleConsole, Step
<1>2. RepliesFit' /\ rpc' = Idle
  BY <1>1, AnswerFits DEF ToggleConsole, RpcInv
<1> QED BY <1>1, <1>2 DEF RpcInv, LimitKept, RequestKept

LEMMA InfoRpc == ASSUME RpcInv, GetInfo PROVE RpcInv'
<1>1. rpc.at = "dll.getInfo" /\ rpc.at \notin Step /\ UNCHANGED <<buffer, maxSize, config>>
  BY DEF GetInfo, Step
<1>2. RepliesFit' /\ rpc' = Idle
  BY <1>1, AnswerFits DEF GetInfo, RpcInv
<1> QED BY <1>1, <1>2 DEF RpcInv, LimitKept, RequestKept

\* dll.getLogs: the entries are there,
LEMMA GetLogsRpc == ASSUME TypeOK, RpcInv, GetLogs PROVE RpcInv'
<1>1. /\ rpc.at = "dll.getLogs" /\ rpc.at \notin Step
      /\ UNCHANGED <<buffer, maxSize, config, reply>>
  BY DEF GetLogs, Step
<1>2. PICK raw \in Request : /\ With(raw, raw.method) /\ raw.method = rpc.at
                             /\ rpc.req = FromRaw(raw) /\ rpc.raw = raw
  BY <1>1, TakenIsCalled DEF RpcInv
<1> DEFINE offset == ValueOf(rpc.req.params, "offset", 0)
           count == ValueOf(rpc.req.params, "count", 50)
           entries == GetRange(buffer, offset, count)
<1>3. Fits(rpc.req.params)
  BY <1>1, <1>2 DEF With
<1>4. offset \in Int /\ count \in Int /\ buffer \in Seq(Text)
  BY <1>3, ParamFacts DEF TypeOK
<1>5. rpc' = [at |-> "total", req |-> rpc.req, raw |-> rpc.raw, offset |-> offset,
              entries |-> entries]
  BY DEF GetLogs
<1> HIDE DEF offset, count
<1>6. entries \in Seq(Text) /\ (entries # <<>> => First(offset) + Len(entries) <= Len(buffer))
  BY <1>4, GetRangeFacts DEF First
<1> HIDE DEF entries
<1>7. With(raw, "total")
  BY <1>1, <1>2 DEF With
<1>8. Entries'
  BY <1>1, <1>2, <1>4, <1>5, <1>6, <1>7 DEF Entries
<1> QED BY <1>1, <1>5, <1>8 DEF RpcInv, LimitKept, RequestKept, RepliesFit

\* and the total, which is read later, covers them.
LEMMA CountRpc == ASSUME TypeOK, RpcInv, GetLogCount PROVE RpcInv'
<1>1. rpc.at = "total" /\ UNCHANGED <<buffer, maxSize, config>>
  BY DEF GetLogCount
<1>2. PICK raw \in Request, offset \in Int, entries \in Seq(Text) :
        /\ With(raw, "total") /\ raw.method = "dll.getLogs"
        /\ rpc = [at |-> "total", req |-> FromRaw(raw), raw |-> raw, offset |-> offset,
                  entries |-> entries]
        /\ entries # <<>> => First(offset) + Len(entries) <= Len(buffer)
  BY <1>1, AtTotal DEF RpcInv, Entries
<1>3. rpc.req = FromRaw(raw) /\ rpc.raw = raw /\ rpc.offset = offset /\ rpc.entries = entries
  BY <1>2
<1> DEFINE value == [total |-> Len(buffer), offset |-> offset, entries |-> entries]
<1>4. value.total = Len(buffer) /\ value.offset = offset /\ value.entries = entries
  OBVIOUS
<1>5. reply' = <<[raw |-> raw, answer |-> Result(FromRaw(raw).id, value)]>> /\ rpc' = Idle
  BY <1>3 DEF GetLogCount, Answer
<1> HIDE DEF value
<1>6. Fit(raw, Result(FromRaw(raw).id, value))
  BY <1>2, <1>4, ResultFits DEF With
<1>7. reply'[1].raw = raw /\ reply'[1].answer = Result(FromRaw(raw).id, value)
  BY <1>5
<1>8. RepliesFit'
  BY <1>6, <1>7 DEF RepliesFit, Fit, First
<1> QED BY <1>1, <1>5, <1>8 DEF RpcInv, LimitKept, RequestKept

\* dll.setLogConfig: the configuration is ahead of the buffer,
LEMMA SetConfigRpc == ASSUME RpcInv, SetLogConfig PROVE RpcInv'
<1>1. /\ rpc.at = "dll.setLogConfig" /\ rpc.at \notin Step
      /\ UNCHANGED <<buffer, maxSize, reply>>
      /\ rpc' = [at |-> "resize", req |-> rpc.req, raw |-> rpc.raw]
  BY DEF SetLogConfig, Step
<1>2. PICK raw \in Request : /\ With(raw, raw.method) /\ raw.method = rpc.at
                             /\ rpc.req = FromRaw(raw) /\ rpc.raw = raw
  BY <1>1, TakenIsCalled DEF RpcInv
<1>3. With(raw, "resize")
  BY <1>1, <1>2 DEF With
<1>4. Configured'
  BY <1>1, <1>2, <1>3 DEF Configured
<1> QED BY <1>1, <1>4 DEF RpcInv, LimitKept, RequestKept, RepliesFit

\* until this is cut to it.
LEMMA ResizeRpc == ASSUME TypeOK, RpcInv, SetMaxSize PROVE RpcInv'
<1>1. rpc.at = "resize" /\ UNCHANGED config /\ Answer(Result(rpc.req.id, config))
  BY DEF SetMaxSize
<1>2. PICK raw \in Request :
        /\ With(raw, "resize") /\ raw.method = "dll.setLogConfig"
        /\ rpc = [at |-> "resize", req |-> FromRaw(raw), raw |-> raw]
  BY <1>1, AtResize DEF RpcInv, Configured
<1>3. /\ reply'[1].raw = raw /\ reply'[1].answer = Result(FromRaw(raw).id, config)
      /\ rpc' = Idle
  BY <1>1, <1>2 DEF Answer
<1>4. Fit(raw, Result(FromRaw(raw).id, config))
  BY <1>2, ResultFits DEF With
<1>5. RepliesFit'
  BY <1>3, <1>4 DEF RepliesFit, Fit, First
<1>6. LimitKept'
  BY <1>1, ResizeFacts DEF LimitKept
<1> QED BY <1>3, <1>5, <1>6 DEF RpcInv, RequestKept

LEMMA StepRpc ==
    ASSUME TypeOK, Started, RpcInv, [Next]_vars
    PROVE  RpcInv'
<1>1. CASE Handle
  BY <1>1, ToggleRpc, InfoRpc, GetLogsRpc, CountRpc, SetConfigRpc, ResizeRpc DEF Handle
<1>2. CASE Tear
  <2>1. UNCHANGED <<buffer, maxSize, config, rpc, reply>>
    BY <1>2 DEF Tear
  <2> QED BY <2>1 DEF RpcInv, LimitKept, RequestKept, RepliesFit, Taken, Entries, Configured
<1>3. CASE UNCHANGED vars
  <2>1. UNCHANGED <<buffer, maxSize, config, rpc, reply>>
    BY <1>3 DEF vars
  <2> QED BY <2>1 DEF RpcInv, LimitKept, RequestKept, RepliesFit, Taken, Entries, Configured
<1> QED BY <1>1, <1>2, <1>3, HookRpc, ReceiveRpc DEF Next

-----------------------------------------------------------------------------
(* Types, and the theorems.                                                *)

LEMMA HookTypes ==
    ASSUME TypeOK, Started, LimitKept, NEW t \in Printer, PrintMessage(t) \/ Hook(t)
    PROVE  TypeOK'
<1>1. UNCHANGED <<maxSize, config, rpc, status>>
  BY HookFrame
<1>2. /\ pc' \in [Printer -> {"out", "printed", "raised", "pushing", "left"}]
      /\ printed' \in [Printer -> 0 .. MaxPrints]
      /\ inCallback' \in BOOLEAN /\ logLock' \in Printer \cup {NoThread}
  <2> USE ConsoleAssumption DEF TypeOK, At
  <2>1. CASE PrintMessage(t)
    BY <2>1 DEF PrintMessage
  <2>2. CASE Hook(t)
    BY <2>2 DEF Hook, RaiseFlag, EnterLock, Capture, LowerFlag
  <2> QED BY <2>1, <2>2
<1>3. dropped' \subseteq [by : Printer, n : 1 .. MaxPrints, busy : SUBSET Printer]
  <2>1. CASE PrintMessage(t)
    <3>1. printed'[t] \in 1 .. MaxPrints
      BY <2>1, ConsoleAssumption DEF TypeOK, PrintMessage
    <3>2. [by |-> t, n |-> printed'[t], busy |-> InHook]
            \in [by : Printer, n : 1 .. MaxPrints, busy : SUBSET Printer]
      BY <3>1 DEF InHook
    <3> QED BY <2>1, <3>2 DEF TypeOK, PrintMessage
  <2>2. CASE Hook(t)
    BY <2>2 DEF TypeOK, Hook, RaiseFlag, EnterLock, Capture, LowerFlag
  <2> QED BY <2>1, <2>2
<1>4. buffer' \in Seq(Text) /\ console' \in [initialized : BOOLEAN, visible : BOOLEAN, shown : Seq(Text)]
  <2>1. CASE Capture(t)
    <3> DEFINE text == [by |-> t, n |-> printed[t]]
    <3>1. text \in Text
      BY <2>1, TextFacts DEF Capture, At
    <3>2. Echo(text)
      BY <2>1 DEF Capture
    <3> HIDE DEF text
    <3>3. <<text>> \in Seq(Text)
      BY <3>1
    <3>4. console' \in [initialized : BOOLEAN, visible : BOOLEAN, shown : Seq(Text)]
      BY <3>2, <3>3 DEF Echo, TypeOK
    <3> QED BY <2>1, <3>4, CaptureFacts
  <2>2. CASE ~Capture(t)
    BY <2>2 DEF TypeOK, PrintMessage, Hook, RaiseFlag, EnterLock, LowerFlag
  <2> QED BY <2>1, <2>2
<1> QED BY <1>1, <1>2, <1>3, <1>4 DEF TypeOK

LEMMA RpcTypes ==
    ASSUME TypeOK, RpcInv, Rpc
    PROVE  TypeOK'
<1>1. UNCHANGED hook
  BY RpcFrame
<1>2. rpc'.at \in Method \cup Step /\ status' \in {"running", "torn", "aborted"}
  <2>1. ASSUME NEW raw \in Request, Receive(raw)
        PROVE  rpc'.at \in Method \cup Step /\ status' \in {"running", "torn", "aborted"}
    BY <2>1 DEF Receive, Reaches, TypeOK
  <2>2. CASE Handle
    <3>1. status' = status
      BY <2>2 DEF Handle, ToggleConsole, GetInfo, GetLogs, GetLogCount, SetLogConfig, SetMaxSize
    <3>2. rpc' = Idle \/ GetLogs \/ SetLogConfig
      BY <2>2 DEF Handle, ToggleConsole, GetInfo, GetLogCount, SetMaxSize, Answer
    <3>3. rpc'.at \in Step
      <4>1. rpc' = Idle => rpc'.at = "read"
        BY DEF Idle
      <4>2. GetLogs => rpc'.at = "total"
        BY DEF GetLogs
      <4>3. SetLogConfig => rpc'.at = "resize"
        BY DEF SetLogConfig
      <4> QED BY <3>2, <4>1, <4>2, <4>3 DEF Step
    <3> QED BY <3>1, <3>3 DEF TypeOK
  <2>3. CASE Tear
    BY <2>3 DEF Tear, TypeOK
  <2> QED BY <2>1, <2>2, <2>3 DEF Rpc
<1>3. buffer' \in Seq(Text) /\ maxSize' \in Nat \ {0}
  BY RpcFrame, ResizeFacts DEF TypeOK
<1>4. config' \in [maxEntries : Nat \ {0}, showInConsole : BOOLEAN]
  <2>1. CASE SetLogConfig
    <3>1. rpc.at = "dll.setLogConfig" /\ rpc.at \notin Step
      BY <2>1 DEF SetLogConfig, Step
    <3>2. Fits(rpc.req.params)
      BY <3>1, TakenIsCalled DEF RpcInv, With
    <3>3. /\ Capacity(ValueOf(rpc.req.params, "maxEntries", DefaultMax)) \in Nat \ {0}
          /\ ValueOf(rpc.req.params, "showInConsole", FALSE) \in BOOLEAN
      BY <3>2, ParamFacts, CapacityFacts
    <3> QED BY <2>1, <3>3 DEF SetLogConfig
  <2>2. CASE ~SetLogConfig
    <3>1. config' = config
      BY <2>2 DEF Rpc, Receive, Handle, ToggleConsole, GetInfo, GetLogs, GetLogCount, SetMaxSize, Tear
    <3> QED BY <3>1 DEF TypeOK
  <2> QED BY <2>1, <2>2
<1>5. console' \in [initialized : BOOLEAN, visible : BOOLEAN, shown : Seq(Text)]
  <2>1. console' = console \/ ToggleConsole
    BY DEF Rpc, Receive, Handle, GetInfo, GetLogs, GetLogCount, SetLogConfig, SetMaxSize, Tear
  <2> QED BY <2>1 DEF ToggleConsole, TypeOK
<1> QED BY <1>1, <1>2, <1>3, <1>4, <1>5 DEF TypeOK, hook

LEMMA StepHolds ==
    ASSUME CInv, [Next]_vars
    PROVE  CInv'
<1>1. TypeOK /\ HookInv /\ RpcInv /\ Started /\ LimitKept
  BY DEF CInv, HookInv, RpcInv
<1>2. HookInv'
  BY <1>1, StepHook
<1>3. RpcInv'
  BY <1>1, StepRpc
<1>4. UNCHANGED vars => TypeOK'
  BY <1>1 DEF vars, hook, TypeOK
<1>5. TypeOK'
  BY <1>1, <1>4, HookTypes, RpcTypes DEF Next, Rpc
<1> QED BY <1>2, <1>3, <1>5 DEF CInv

LEMMA Invariance == Spec => []CInv
<1> QED BY InitHolds, StepHolds, PTL DEF Spec

(* The types of Console, which the handlers keep although they take their  *)
(* numbers and Booleans from the params of a client.                       *)
THEOREM ConsoleTypeCorrect == Spec => []TypeOK
BY Invariance, PTL DEF CInv

(* PrintMessage_Hook: whatever any number of threads do to the flag that   *)
(* has no lock, a message misses the log only if another one was in the    *)
(* callback when it was printed.                                           *)
THEOREM LostOnlyWhenBusy == Spec => []CapturedUnlessBusy
<1>1. CInv => CapturedUnlessBusy
  BY DEF CInv, HookInv
<1> QED BY <1>1, Invariance, PTL

(* LogCapture: the log holds the newest messages of a thread in the order  *)
(* in which it printed them, each once and none missing in between but     *)
(* those that were not captured, through pushes and cuts to any limit.     *)
THEOREM LogStaysRecent == Spec => []LogIsRecent
<1>1. LogInOrder /\ NoGap => LogIsRecent
  BY DEF LogInOrder, NoGap, Accounted, LogIsRecent
<1>2. CInv => LogIsRecent
  BY <1>1 DEF CInv, HookInv
<1> QED BY <1>2, Invariance, PTL

(* Dispatcher and ControlRpc: an answer has the number of its request, and *)
(* the total that dll.getLogs reads after the entries covers them, for any *)
(* offset and count.                                                       *)
THEOREM RepliesAlwaysFit == Spec => []RepliesFit
<1>1. CInv => RepliesFit
  BY DEF CInv, RpcInv
<1> QED BY <1>1, Invariance, PTL
=============================================================================
