# A TLA+ model of WoWControlSDK

WoWControlSDK injects a DLL into a game client, hooks a few of its functions,
and lets other programs drive the game by JSON-RPC over a named pipe and follow
it by events on a second one. It is a small program with awkward concurrency:
an injector in another process, a command thread, an accept thread, a write
thread, and a game thread which the SDK only borrows from within hooks. Almost
nothing of this is tested by the repository. The modules here describe those
threads, their hand-overs and their time limits. TLC checks them on small
instances, and TLAPS proves their invariants and refinements for any size.

Paths below are relative to the repository (`src/...`) or to this directory.

## 1. The system

### Threads

| Thread | Started by | Does |
|---|---|---|
| game thread | the game | runs the hooks: drains the task queues, polls the loading flags, updates the state cache, signals game events, reports login errors |
| attach thread | `DllMain` | `OnAttach`: `Runtime::initialize`, then `SetOnFrame` |
| command thread, here "RPC thread" | `CommandPipe::Start` | serves one client, one request at a time: reads, dispatches, answers, disconnects |
| accept thread | `EventPipe::Initialize` | keeps one instance of the event pipe for one client |
| write thread | `EventPipe::Initialize` | takes messages from the write queue to the pipe |
| the injector, other clients | other processes | open the pipes, leave when they like |

### Components

| Component | State | Operations | Talks to | Hard about it | Correct means |
|---|---|---|---|---|---|
| Task queue (`src/utils/TaskQueue.h`; instances in `GlueHooks`, `FrameHooks`) | two queues, a mutex, one future per execute | `post`, `execute` with a time limit, `drainAll` | RPC thread in, game thread out | the batch is run outside the lock; a caller may give up while its task is queued or running | every task once, in order; a value only from a task that is done; callers return |
| Event pipe (`src/runtime/events/EventPipe.cpp`, `src/utils/CircularBuffer.h`) | published handle, write queue, history, two events, two mutexes | `PushEvent`, `GetHistory`, `SetMaxBuffer`, `ClearHistory`, the two threads | game and RPC thread in, one client out | two threads close handles, which they compare by value; a handle is used after its lock is left; one unbounded wait | no client cut off, no instance left open, no wait for ever, order kept |
| Event subscriptions (`src/hooks/EventHooks.cpp`, `EventRpc.cpp`) | set of names, table of ids | subscribe, unsubscribe, clear, the signal hook | event pipe | checked under the lock, used outside it | at most one late event; answers agree with the history |
| Loading detection (`src/hooks/LoadingHooks.cpp`) | nine statics | `PollFlag`, once a frame | event pipe | guesses from three values of the game's memory; throttle and give-up timers | the `loading.*` stream a client can follow |
| Command pipe (`src/ipc/CommandPipe.cpp`) | one pipe instance | the server thread's loop | dispatcher | clients leave or stay silent at any point; the response may be discarded by the disconnect | each request answered once; back to listening |
| Injector (`src/injector/*`) | command line, child process | create suspended, inject, wait for the pipe, resume, send commands | command pipe | races the DLL's start and the server's loop | commands in order, answered; the injector ends |
| DLL entry and runtime (`src/DllMain.cpp`, `src/runtime/Runtime.cpp`) | which part is up | `OnAttach` | everything | parts are visible before the next ones are there | ready before the first frame |
| Authentication (`AuthRpc.cpp`, `GlueState.cpp`, `GlueHooks.cpp`) | `s_loginPending`, `s_capturedLoginResult` | login, enterWorld, logout, the login hook, the post-update | task queue, the game | two unlocked flags, late results, polling with limits | an answer is about the call it answers |
| State cache and event bus (`StateCache.cpp`, `EventBus`) | player and world as last read, the last screen, one mutex | `update` once a frame, events for what changed, answers to `player.*` and `world.getState` | event bus, event pipe, RPC thread | the mutex is left between copy, store and events | events and answers do not contradict each other; screens form a chain |
| Request dispatch (`Dispatcher`, `MethodRegistry`, `protocol`) | table of methods | parse, look up, call | command pipe, handlers | requests too long, not JSON, of another version, without a number | one response, with the number of the request; what is refused reaches no handler |
| Group cache (`src/core/api/GroupAPI.cpp`) | cached members, checksum | `group.get`, `group.combatSummary`; rebuild when the checksum changes | game memory | the checksum is an XOR over two tables; members load and change without it | nobody is named who is not in the group; the methods agree |
| Console and log capture (`ConsoleHooks`, `LogCapture`, `ConsoleManager`, `ControlRpc`) | buffer of messages, configuration, one flag, one lock, the console window | print hook, `dll.getLogs`, `dll.setLogConfig`, `dll.toggleConsole`, `dll.getInfo` | any printing thread, RPC thread | one flag for all threads, set without the lock; the RPC thread takes no lock | a message is lost only beside another; the printing thread gets out; the log has no other gap; answers fit |
| Window service (`WindowService.cpp`, `WindowRpc.cpp`) | `m_hwnd`, backed-up and own icons, old window procedure | find the window, forget it in `WM_DESTROY`, `setIcon` and its undo, calls on the window | RPC thread in, the thread of the game's window | the window goes and comes at any moment; the search takes any client's; loads that fail half way | requests act on the open window of the game; no icon leaks; the original is kept |
| Lua engine and hooks | the game's Lua state | run a script, registered functions | game and RPC thread | unsynchronised use of one state | - |
| Memory readers and resolvers (`src/core/native`, `core/api`, `core/resolvers`) | none | token to unit, object to fields | the game | one offset on two bases, pointers read as GUIDs, two aura tables | token, method and cache mean the same unit |
| Detours, RPC wrappers, client wrappers | none or constants | machine code and formatting | the game | data layout | - |

### Interactions

The RPC thread acts on the game in two ways: it posts or executes tasks on a
queue that a hook drains, or it reads the game's memory. Events travel from the
game thread (or from the RPC thread, when it runs a script) through the
subscriptions into the event pipe's history and its write queue, and from there
through the write thread to whichever client the accept thread has published.
The command pipe is also how the injector learns that the DLL is there.

## 2. Modules

| Module | Models | Its abstract specification | Proofs |
|---|---|---|---|
| `TaskQueue` | `TaskQueue.h`, `Glue::Post/Execute`, `Frame::Execute`, the drains | `TaskExecutor` | `TaskQueueProofs` |
| `CircularBuffer` | `CircularBuffer.h`, as operators on sequences; the history of `EventPipe` and the log of `Console` | | `BufferProofs` |
| `EventPipe` | `EventPipe.cpp` | `EventStream` | `EventProofs` |
| `EventsApi` | `EventHooks.cpp` and `EventRpc.cpp`, history requests included; composes with `EventPipe`, which it extends | | `EventProofs` |
| `LoadingPoll` | `LoadingHooks.cpp` | `LoadingEvents` | `PollProofs` |
| `Startup` | `OnAttach`, `CommandPipe.cpp`, the injector's main line and its pipe functions, other clients; composes the three processes | `CommandService` | `StartupProofs` |
| `Window` | `WindowService.cpp`, `WindowRpc.cpp`, the game's windows and those of other clients as environment | | `WindowProofs` |
| `AuthFlow` | the login, enterWorld and logout handlers, the login hook, the drain around them, the game as environment | | `AuthProofs` |
| `GameUnits` | `WoWObject`, `Unit`, `UnitAPI`, `ObjectAPI`, `UnitResolver` and the `unit.*`, `object.*` methods, as operators on a memory of the game | | |
| `GroupCache` | `GroupAPI.cpp`, `GroupRpc.cpp`; on top of `GameUnits` | | `PollProofs` |
| `StateCache` | `StateCache.cpp`, `EventBus.cpp`, the readers and `player.*`, `world.getState`; on top of `GameUnits` | | `PollProofs` |
| `Dispatch` | what `CommandPipe` reads, `Request`, `Response`, `Dispatcher`, `MethodRegistry`, as operators on a message | | |
| `Console` | `ConsoleHooks`, `LogCapture`, `ConsoleManager`, `ControlRpc`; composes with `Dispatch`, through which its handlers are reached, and `CircularBuffer` | | `ConsoleProofs` |
| `MCEventsApi`, `MCGroupCache`, `MCStateCache`, `MCConsole` | values of constants for TLC | | |

### TaskQueue

One action per critical section. `Post` and `Execute` are the two ways in.
`DrainAll` takes both queues in one step, since the code swaps them under one
lock; the tasks are then begun and finished one at a time, the voids first.
Calls arrive between any two of these steps. A waiting caller may time out
whenever its task is not done. The code's `wait_for` ends with a timeout only
after the limit; here the limit may pass at any moment, which allows every real
behaviour. `before` is history: what had been handed over, and has to run first.

An exception in an execute goes to its future; for the queue that is a task that is
done. An exception in a void is not modelled: `drainAll` has no handler, so it
would leave into the hook, and the rest of the batch would be destroyed unrun. The
voids the handlers post (functions of the game with fixed arguments) throw none of
their own.

### EventPipe and EventsApi

A critical section of `s_lock` or `s_writeLock` is an action; what the code does
outside the locks is an action of its own, so `WriteFile`, `SetEvent` and
`DisconnectNamedPipe` interleave with everything. The local handle of each thread
is a variable (`aPipe`, `wPipe`). Handles are values, and `CreateNamedPipe` returns any
that is not open, which may be one that was closed before: Windows does use
values again. `instance` is the operating system's
one pipe instance with its client, who comes and leaves as an environment. Two
histories tell what the code cannot: `wSession` is the session whose pipe the write
thread has read, and `mistaken` says that it has closed the pipe of a later session
because that had the same value.

`EventsApi` adds the subscription set, with a request list taken name by name
as the handlers take it, and the gap between the signal hook's look-up and its
push. Events the SDK pushes on its own account are not subject to subscriptions
in the code, nor here. `StateCache`'s `screenChanged` is one of these.

`EventStream` knows neither queue nor handle: events that were pushed while a pipe
is published are on their way (`pending`) until they are written or lost, the earlier
of one thread before the later. In `EventPipe` those are the ones in the hands of
a producer that saw a pipe, in the queue, and in the write thread's hands
(`pendingOf`). `EventStream` also says that an event is lost only while no client is
served, and that a client is hung up on (`Cut`) only while a failed write to an
earlier one has not been dealt with (`failed`).

### LoadingPoll

`PollFlag` runs to its end in one thread, so it is one action with three
disjoint ways through its conditions. What it reads of the game is arbitrary
at every poll. Times are ages that stop at the threshold they are compared with.

### Startup

The server's loop is one action per system call; so is each client's. `Open`
succeeds only while the server listens, and a client may leave at any step.
`Parts` names the order in which `OnAttach` brings things up. `Frame` records
what was up when the first frame was rendered.

`CommandService` is the view of who typed the command line: the commands one by
one, each dispatched and answered or neither. What becomes of the pipe, of the
other clients and of the server's thread are stutters of it.

### Window

`GetHandle` is four actions (check, search, and the two reads of the `return`), since
the game may destroy its window between them; `WM_DESTROY` clears `m_hwnd` only for
the window that `Initialize` found and subclassed. `Other` is the windows of other
clients on the desktop, which have the same classes. The first loop of
`FindWoWWindow` never succeeds (line 73 compares a thread with a process), so the
search is the second loop, which takes any client's window. The rest of a request is one action on
the handle. All methods but `setIcon` come down to one call on the window and
change nothing the SDK keeps (`ActPlain`). `setIcon` may load none, one or both
of the sizes it was asked for. `kept` is history: the game's windows that have been
open since the request began; at most one, since the game has one at a time. So is
`sure`: `m_hwnd` was that window when the request began, or no other client has had
one since.

### AuthFlow

The handlers' polls are actions, the two assignments of `setLoginPending` are
two, and the test and the two assignments in the login hook are three, because
nothing locks them. The game is external. It accepts or rejects a login it was asked
for, however late; it enters and leaves the world and loses connections.

### GameUnits, GroupCache, StateCache

A memory of the game is a record: the local GUID, the tables of party and raid,
the objects by GUID, and for `StateCache` the world. `GameUnits` is pure: what
each getter makes of it. A field that is read like another one is left out
(levels and names like health, for example). Two things are kept because they go wrong easily: which
base an offset is added to (`GetTargetGUID` against `TargetOfPlayer`), and which of
the two aura tables is used.

The three modules that work on the game's thread alone, `GroupCache`,
`StateCache` and `LoadingPoll`, are proved about in one module. The first two
share `mem`, which `GameUnits` declares; the specifications of the other two
are named `StateSpec` and `PollSpec`.

`GroupCache` runs its methods whole, because the handlers execute them on the game
thread in one task. Between them the game regroups, loads, changes and unloads
units. A checksum is the set of bits that are set in an odd number of `Word`s;
the constant `Word` decides which GUIDs collide. `told` is history, emptied when the
tables change; `built` is the tables the cache was built from.

`StateCache` splits `update` where the code leaves the mutex: copy, store, events,
screen. The RPC thread answers between any two of these. `view` is history: a
listener that has asked once and applies each event since. The pipe is
represented by its last `client.screenChanged`.

### Dispatch and Console

A message is one that could not be read, one that is not JSON, or a JSON value
of which only what `Request::fromJson` looks at is kept. `Dispatch` says what it is
refused with, or that it reaches a handler. `Console` receives such messages. The
hook's path is one action per access to the flag, the lock and the buffer,
for each printing thread. Where the RPC thread uses the buffer while a push is
under way, the behaviour of the program is undefined: `Tear` ends the
model there (`status`), besides the steps in which the buffer is seen as before. A
parameter of a wrong type ends the process (`JSON_NOEXCEPTION`), also a `status`.
`RequestAssumption` says which messages there are: in the parameters of one
that reaches a handler, what the handlers take is a number or a Boolean, or
something the library cannot convert.

## 3. What is checked

| Run | Properties | Bounds | States |
|---|---|---|---|
| `task_queue` | `InOnePlace`, `RunsInOrder`, `ExecuteReturns`, `HandedOverRuns`, `ImplementsExecutor` | 2 callers, 2 posts, 2 executes | 8,783 |
| `event_pipe` | `NoInstanceLeft`, `AcceptorWakes`, `WireOrder`, `ClientKept`, `AudienceIsServed`, `LeaverIsReplaced`, `ImplementsEventStream` | 3 events, 2 sessions, 2 producers, 2 handle values | 62,419 |
| `event_pipe_reuse` | `ClientStays` (violated) | 2 events, else the same | - |
| `events_api` | `AtMostOneLate`, `HistoryIsRecent`, `HistoryAnswerFits` | 2 names, 3 events, 3 requests | 1,647,800 |
| `loading` | `LoadingOutsideWorld`, `NoIdleLoading`, `ImplementsLoadingEvents` | 3 progress values, flags -1, 0, 1, polls 0 to 2 apart | 2,034 |
| `startup` | `SentIsAnswered`, `CommandsInOrder`, `InjectorEnds`, `ServerReturns`, `ImplementsCommandService` | 2 commands, 2 other clients, 2 connections each | 175,024 |
| `startup_frames` | `ReadyBeforeFrame` (violated) | no command, no other client | - |
| `auth` | `AnswerIsOwn`, `EnterIsFresh`, `HandlersReturn` | 2 logins, 2 of enterWorld and logout | 116,492 |
| `window` | `UsesOpenWindow`, `IconsHeld`, `BackupIsGames` | 2 windows of the game, 1 of another client, 3 icons | 2,593,929 |
| `group_cache` | `PartyIsCurrent`, `AnswersAgree`, `PartyTokensAreMembers`, `RebuiltOnlyOnChange` | the player and 2 others, 2 party and 3 raid slots, 3 forms of a unit | 381,759 |
| `state_cache` | `FollowerKnows`, `ScreensChain`, `ScreenIsTold` | 10 moments of a session, in any order | 10,676 |
| `console` | `CapturedUnlessBusy`, `LogIsRecent`, `RepliesFit`, `PrintReturns` | 2 printing threads with 2 messages each, 10 messages of a client, a log of 2 | 187,248 |

The type invariants are part of no run; they are proved instead (section 4).

What each shows:

* **task_queue**: a handed-over task is in one place, whatever the drains and
  timeouts. A post is never overtaken by an execute, although the two are in
  different queues: the single lock around both swaps is what it needs. An
  execute returns even if the game stops drawing frames, and if it goes on the
  task runs even though its caller has gone. The queue is an implementation of
  `TaskExecutor`, where there is neither queue nor batch. Two tasks of each
  kind are needed for order within a queue and across the queues; a third
  would only lengthen a batch. Two callers are more than the program has.
* **event_pipe**: the two threads that close pipes never leave an instance behind,
  and an event pushed while a client was there reaches it or the session ends.
  A client that has not left is cut off in one case only, which `ClientKept`
  spells out: a write to the client before has failed, and the new pipe has the
  handle value of the old one. The same mistake of the write thread is the only
  way for the accept thread to wait for ever (`AcceptorWakes`, `LeaverIsReplaced`).
  Together the threads are an implementation of
  `EventStream`. Two sessions give one hand-over, three
  events one each side of it and one across; with two handle values a new
  instance gets the one just closed or another.
* **event_pipe_reuse**: that case does happen. A client may come and be published
  between the failed write to its predecessor and the comparison at
  `EventPipe.cpp:61`, and is then disconnected without having left.
* **events_api**: one event at most is pushed after `events.unsubscribe` was
  answered, per name, because one thread can be between look-up and push; two
  would need two threads there, and the RPC thread cannot be there while it
  answers. The history ends with the newest event and has no gap, however it is
  resized and cleared, and neither has a page of it. The two critical sections of
  `events.getHistory` never contradict
  one another, for negative, zero and excessive arguments. The pipe has no
  client in this run; `event_pipe` has them.
* **loading**: whatever the game's memory shows and whenever frames come, the
  events form the stream of `LoadingEvents`, and a loading whose progress does not
  move ends. (One that has moved once may stay open for as long as its end does
  not show: nothing in the code gives it up.) Thresholds are met exactly and overshot, and the progress
  has a first value, one in between, and full, which is all the code compares.
* **startup**: the injector ends, in time or with an error; its commands are
  dispatched in order and each that got through the pipe is answered, with
  other clients that connect, ask, stay silent or leave in between. What the
  command line sees of it is `CommandService`. Two
  commands make one "next command"; two clients can hold the pipe in turn.
* **auth**: until a login has timed out, each is answered for what became of it;
  `client.enterWorld` with `waitForWorld` does not take an old world for the
  new one; every call returns. Two logins give every order of a first one's
  late end and a second one's start.
* **window**: a window of the game that is open throughout a request is the one it
  acts on, although `m_hwnd` is shared without a lock and most windows go unnoticed,
  if `m_hwnd` was that window already or no other client has been there meanwhile.
  Without this condition the code does act on another client's window (section 5).
  Whatever sizes are
  asked for and fail to load, each icon is in one field or destroyed. The two
  windows are one subclassed and one that goes unnoticed, or two unnoticed; three
  icons are a pair and one more.
* **group_cache**: while no two sets of GUIDs have one checksum, `group.get` names
  in a party nobody who is not in it, whatever groups came and went since it was
  built. `group.get` and `group.combatSummary` agree with each other,
  though units change in between. The tokens `party1` to `party4` of `unit.get` mean the
  members `group.get` lists. The cache is rebuilt only on a change. Two others
  allow one member to be exchanged for the other and a raid with
  the player's subgroup in it. Each GUID has a bit of its own here.
* **state_cache**: a listener of the bus that asks once, at any point of an
  update, and applies the events afterwards has what the cache has, since
  what is compared is what was replaced. The screen events are a chain
  without a gap and without a repetition, and end at the screen that stays.
  The moments are three screens (one with a name the code does not know), two
  zones, three states of the player, and a way from one map to another.
* **console**: two threads that print at the same time lose a message only if it
  was printed during another; the flag never stays up and the lock never
  stays taken. However the log is cut, it has the newest messages of each thread in the
  order printed, and no gap but for those that were lost. An answer has the
  number of its request, and `dll.getLogs` never tells of
  fewer messages than it returns, for as long as the unlocked buffer is
  not torn. A third thread would meet no other case: the flag and
  the lock each know two sides.

### Fairness

Where a thread of the program loops without a condition of its own, its steps
are weakly fair; nothing is assumed of users.

* `TaskQueue`: `wait_for` returns (weak fairness of each caller's wait), since
  its time limit passes. The game thread is *not* fair: frames stop while the
  client hangs or loads. `HandedOverRuns` names them as its premise.
* `EventPipe`: the two threads and a thread inside `PushEvent` go on. A
  client that stays is assumed to read, since `WriteFile` blocks otherwise; a
  client may never come, and never leave.
* `Window`, `GroupCache`: none; their properties are invariants or speak of
  single steps.
* `StateCache`: frames come, so `update` goes on (weak fairness), for
  `ScreenIsTold` alone.
* `Console`: a thread inside the hook goes on. The lock is not assumed to be
  fair; a thread gets it because the other threads print a bounded number of
  messages here.
* `LoadingPoll`: frames come, and the clock moves between some of them.
* `Startup`: attach thread, game, server and injector go on. Other clients may
  stop anywhere; `ServerReturns` names as its premise that they do not.
* `AuthFlow`: the handler goes on. Its deadline is strongly fair, because the
  code looks at it at the beginning of every round: no matter how the rounds go, it
  is met in the end. Nothing is assumed of the game.

### Deadlock

TLC looks for deadlock in `loading`, `auth`, `group_cache` and `state_cache`, which never stop. The other
models end when their bounded calls are used up, so it is switched off there,
and "nobody waits for ever" is stated by the liveness properties instead.

### Breaking the properties

`PROJECT.json` lists for every property of a passing run a plausible slip in the
code under which the run fails: a dropped guard, a missing reset, a swapped
order. These forms are in the modules, each before the action it alters, marked
"Mutant", and no specification uses them.

## 4. What is proved

TLAPS checks all of the following for every value of the constants that
satisfies the named assumptions, all of which TLC evaluates as well.

**TaskQueueProofs** (any set of callers and tasks; tasks of the two kinds are
disjoint and `NoTask` is neither)
: `TypeCorrect`, `NoTaskLostOrRepeated`, `HandOverOrder`, `Refinement`.
  `InOnePlace` and `RunsInOrder` are not inductive alone. The order in
  which tasks run follows from where they lie, so the invariant adds that the
  predecessors of a queued task are ahead of it in its queue, or in the batch,
  or have run, and that a void in the batch runs before the executes next to it.
  The refinement maps the place of a task to its status; a swap of the queues
  is a stutter.

**StartupProofs** (any number of commands and of other clients)
: `StartupTypeCorrect`, `SentCommandsAreAnswered`, `CommandsStayInOrder`. The invariant keeps the
  server, the instance and each client in step: a client that has asked is
  still joined (`StillJoined`) and sees the request or the response
  (`ClientInStep`); the server is at the point of its loop that fits the
  message in the pipe (`ServerInStep`); the injector's handle is open exactly
  where its program says (`InjectorInStep`); the server runs
  once its part is attached (`ServerStarted`). So the server can close the
  instance only under a client that has its response or that has left. For the
  order, a second invariant on top of it says that nothing beyond the current
  command was dispatched (`NoneAhead`), and that every response on its way to the
  injector is to the current command, which is then not in the pipe any
  more (`DoneInStep`).
: `StartupRefinement`: every step of the injector, the server and the others is
  one of `CommandService` or a stutter. The server's read is the dispatch, the
  return of `sendPipeCommand` the answer. A third invariant says that the
  commands told of are those before the current one (`ToldInStep`).
  `FramesFindTheServer`: with `--pipe` no frame is drawn before the server thread
  runs, because the injector has seen its pipe (`PipeSeen`). That is what is left
  of the promise `startup_frames` refutes; no run states it.

**WindowProofs** (any number of windows and icons)
: `WindowTypeCorrect`, `RequestsUseOpenWindow`, `IconsAreHeld`, `BackupIsKept`.
  For the handle, the invariant adds that the game has one window at a time
  (`OneWindow`), that `kept` is open (`KeptOpen`), that a search is made only when
  the open window is not in `m_hwnd` (`SearchLost`), and that no other client is
  there (`Alone`) as long as `sure` rests on that; from the end of the
  search to the second read the open window is in `m_hwnd` (`HandleFound`):
  `WM_DESTROY` may clear it then, but only in closing that window. For the
  icons it adds that before the first backup windows show the game's own
  (`NothingSet`), which is why the backup never holds one of the SDK's.

**EventProofs** (any number of producers, events, clients, handle values, names and
requests)
: `EventTypeCorrect`, `NoInstanceStays`, `AcceptorIsWoken`, `ClientIsKept`,
  `MistakeIsFinal`, `WireKeepsOrder` for the pipe, `ApiTypeCorrect`, `OneLateEvent`,
  `HistoryStaysRecent`, `AnswersFit` for the methods on top of it. Nothing is assumed
  of the handle values. `NoInstanceStays` holds without exception; the other two about
  closing name the one there is, the mistake at `EventPipe.cpp:61`, and
  `MistakeIsFinal` says what it costs: from then on the accept thread waits at line 101
  and no pipe is published. Their
  invariant ties the accept thread's place to `s_pipe`, its local handle, the
  instance and the event it waits for (`Accepting`), and says of which session the
  write thread still holds a handle, and that this one has ended once a write has
  failed (`Writing`). The order of the wire is that of a
  pipeline: what is in a producer's hands, in the queue, in the write thread's hands
  and on the wire is in order, stage by stage (`Pipeline`). That one event
  at most comes late rests on the RPC thread not being in the hook while it answers
  (`SilentNames`); that answers fit rests on the total never shrinking between the
  two critical sections of one request (`Fits`).
: `StreamRefinement`, `ApiStreamRefinement`: every
  step of the pipe, alone and under the methods, is one of `EventStream` or a
  stutter. By the pipeline, the event in the write thread's hands is the earliest
  of its thread on the way (`HeldIsFirst`); by `Writing`, a write fails only while
  no client is served, and a pipe that is closed under a client is not the one a write
  has failed on.

**AuthProofs** (any number of logins, of enterWorld and of logout)
: `AuthTypeCorrect`, `EntersAreFresh`, `AnswersAreOwn`. A login is in one place at a
  time: queued, in the batch, open at the game, or over (`Places`). Unless one timed out, all
  before the current one are over when it is posted (`Past`), so whatever the
  hook captures while it is pending is of the current one, and the flags are as its
  step says (`Current`).

**PollProofs** (what the game's thread does alone)
: *Loading* (any throttle, give-up time, set of gaps and progress scale):
  `LoadingTypeCorrect`, `NoLoadingInWorld`, `LoadingRefinement`. The invariant
  adds that a closed loading has no progress (`Closed`), that the code's timer
  is never ahead of the time since the last event (`ThrottleBehind`), which is
  why a restart cannot beat the throttle, and that without real progress only
  the first value was reported (`OnlyFirst`), which is why a give-up drops
  nothing a client has seen move.
: *Group* (any game: GUIDs, words, forms of units; the two about a party
  for finitely many GUIDs, the tokens for at most nine slots):
  `AnswersAlwaysAgree`, `RebuildsFollowChanges`, `TokensNameMembers`,
  `PartyStaysCurrent`. The kept checksum is that of the tables at the build, and
  what was answered since the last change is what is kept. For `PartyStaysCurrent`
  the loops of `computeChecksum` are shown to come to the parity over a set: the
  party itself for a party (`PartyChecksum`), the raid without the subgroup for a
  raid (`RaidChecksum`). The latter has the player in it, the former never, so a
  checksum cannot survive a change from one to the other; `Independent` is needed
  only against collisions.
: *State* (any memories, in any order): `FollowersKnow`, `ScreensFormChain`. A
  listener has what is kept; between store and events it may still have what was
  replaced, which the render thread has a copy of (`PlayerFollows`, `PlaceFollows`).

**BufferProofs** (any sequence, capacity, offset and count)
: `TrimTwice`, `PagesJoin`, and what `Trim`, `PushTrimmed` and `GetRange` return, entry
  by entry (`TrimFacts`, `PushFacts`, `GetRangeFacts`), on which the proofs about the
  history and about the log rest. `PagesJoin` is what `offset` and `count` are for:
  who goes on where a page ended misses nothing and gets nothing twice, as
  long as nothing is pushed in between.

**ConsoleProofs** (any number of printing threads and messages of each, any log
limit, any set of messages that satisfies `RequestAssumption`)
: `ConsoleTypeCorrect`, `LostOnlyWhenBusy`, `LogStaysRecent`,
  `RepliesAlwaysFit`. `LostOnlyWhenBusy` needs that the flag is up only while a
  thread is inside the hook (`FlagKept`). The log keeps its order because only the
  owner of the lock pushes (`LockKept`) and what a thread has on its way is newer
  than what it has in the log (`LogBehind`); it has no gap because a cut keeps what
  is after anything it keeps (`NoGap`). For the answers the invariant says
  what the RPC thread holds at each step of a request (`RequestKept`): between the two
  halves of `dll.getLogs`, entries that were in the log, which does not shrink
  then; between those of `dll.setLogConfig`, a configuration the buffer does not follow
  yet (`LimitKept`). What `Dispatch` makes of a message is proved once
  (`ValidIsRequest` and the lemmas after it).

Every invariant, action property and refinement that a passing run checks is a
theorem. Only model-checked is what must happen eventually (`ExecuteReturns`,
`HandedOverRuns`, `AudienceIsServed`, `LeaverIsReplaced`, `NoIdleLoading`,
`InjectorEnds`, `ServerReturns`, `HandlersReturn`, `ScreenIsTold`, `PrintReturns`).
Liveness, `ENABLED`, and what a recursive
definition computes for all inputs are out of the prover's reach. None of the
modules declares a RECURSIVE operator; `Number` (the digits of a raid token) is a
recursive function, about which nothing is proved.

## 5. Disagreements met

Those with a run:

1. `src/DllMain.cpp:34`: the pipe answers before `SetOnFrame`; the injector
   resumes the game on the former. (`startup_frames`)
2. `src/runtime/events/EventPipe.cpp:61`: the write thread takes a handle under
   the lock, fails to write to it outside, and then compares it with
   `s_pipe` by value. In between the accept thread may have closed that instance,
   made a new one and got the same value; a client that has just connected is
   disconnected, though docs/EN/02-injection.md:84 lets it follow the events "as
   they happen". And nobody is served after it: the accept thread, which has reset
   `s_disconnEvent` itself at line 94, waits `INFINITE` at line 101, and the event is set
   only when a write fails, which needs a published pipe (`MistakeIsFinal`). Of the
   properties about closing, `NoInstanceLeft` holds all the same; `AcceptorWakes`,
   `ClientKept` and `LeaverIsReplaced` except the case by name.
   (`event_pipe_reuse`)

Those that a configuration in this directory shows, besides the runs:

3. `src/core/native/Unit.cpp:128`: the target of a unit is read at an offset from the
   unit's data where health and mana are; `ResolveUnitToken` reads it from the object. The
   target `unit.get` reports for the player is not the unit `target` names.
   (`UnitTarget.cfg`: `TargetAgrees`)
4. `src/runtime/window/WindowService.cpp:336`: `GetHandle` returns the handle of a
   window that has gone if there is no other. `setIcon` then backs up nothing and
   notes that it has; the icon of a later window cannot be restored
   (docs/EN/03-methods/window.md:352). (`WindowIcons.cfg`: `RestoredIsGames`)
5. `src/runtime/window/WindowService.cpp:73`: the thread of a window is compared with
   the process, which never holds, so the search takes the first window of the
   class, of whichever client; requests then show, move or close another process's
   window (docs/EN/03-methods/window.md:3: "the main World of Warcraft window").
   (`WindowOthers.cfg`: `UsesOwnWindow`)
6. `src/injector/pipe.cpp:51`: a second `--pipe-cmd` tries once to open the
   pipe, right when the server is between two clients. (`StartupCommands.cfg`:
   `CommandsAnswered`)
7. `src/rpc/handlers/auth/AuthRpc.cpp:64`: a login with `realmName` is answered
   before the selection has run: the screen it waits for is the one it came from.
   (`AuthRealm.cfg`: `RealmIsSelected`)

Those that the modules state and no configuration checks:

8. `src/core/resolvers/UnitResolver.cpp:26`: `raidN` reads two of the raid table's pointers as
   one GUID, so it names no one (`RaidTokensAreMembers` in `GroupCache`); `focus` and
   GUIDs, which docs/EN/03-methods/unit.md:3 lists, are no tokens.
9. `src/core/api/GroupAPI.cpp:51`: the cached group keeps the health and the state its
   members had when it was built, and misses those that were not loaded then
   (docs/EN/03-methods/group.md:9, :89). `AnswersAgree` is the good side of it.
10. `src/hooks/ConsoleHooks.cpp:18`: a message printed while another thread is in the
   hook is not captured (`AllIsCaptured` in `Console`; docs/EN/03-methods/dll.md:5).
11. `src/runtime/state/StateCache.cpp:63`: the world is always valid, so `world.getState`
    never answers "world not available" (docs/EN/03-methods/world.md:54) once a
    frame was rendered.
12. `src/utils/CircularBuffer.h:33`: a smaller log or history is trimmed at once;
    docs/EN/03-methods/dll.md:119 and docs/EN/03-methods/events.md:200 say that the old
    entries stay until they are overwritten. `HistoryIsRecent` and `LogIsRecent` hold
    either way.
13. `src/rpc/protocol/Request.cpp:10`: a request without `"jsonrpc": "2.0"` is refused
    with error -32600 and id 0 (`FromJson` in `Dispatch`). The method docs show such
    requests with a result: docs/EN/03-methods/dll.md:49, group.md:48, unit.md:50,
    player.md:95, world.md:31. `README.md:147` and the tests send the member.
    `RepliesFit` does not say which it should be.
14. `src/runtime/console/ConsoleManager.cpp:149`:
    `uptimeMs` counts from the first `dll.toggleConsole` (docs/EN/03-methods/dll.md:39: from
    the initialisation of the DLL).

Further, `LoadingHooks.cpp:81` drops a loading without visible progress for
five seconds, and the world is then entered without `loading.finished`, which
docs/EN/03-methods/events.md:243 ties to the entry. `LoadingEvents` allows it.

Small ones that need no model: `EventRpc.cpp:102` answers `events.setMaxBuffer` with the number asked for, even
if it is not positive and another one is in force; docs/EN/02-injection.md:13
and 24 say the main thread is "resumed momentarily", the injector resumes it
once; `LoadingHooks.cpp:84` stores a value that is overwritten before it is read;
the `EnumWindows` search of
`WindowService.cpp:90-112` writes what it finds 24 bytes behind `s_windowClasses`, which
has three pointers, and has no result (it gets there only when a window
appears after both loops); `Initialize` runs before there is a window when the
game was started suspended, and no window is subclassed later; `setIcon` answers
`ok` when it failed, docs/EN/03-methods/window.md:347 says `ok` tells; `getInfo`
compares with `SW_HIDE` and `SW_MINIMIZE`, which `GetWindowPlacement` does not
return.

## 6. Assumptions and omissions

* The 300 ms the injector sleeps after resuming the game (`Pause`) are enough
  for the server to be done with the injector's probe. Without it the first
  command can be lost like the second.
* In `Startup` a request fits the 4,095 bytes of one read and handlers return; `Console` has
  the requests that do not fit.
* In `GroupCache` the player is in the raid's table and not in the party's, in a raid the
  party's table is the player's subgroup, and `PartyIsCurrent` supposes that checksums
  do not collide (32 bits cannot promise it).
* In `StateCache` the game's memory does not change during an update: both run on the
  render thread.
* In `Console`, once the unlocked buffer is torn nothing is said any more, because
  the language says nothing either.
* Shutdown is not modelled: the DLL stays until the process ends.
* `ConnectNamedPipe` and `CreateNamedPipe` fail only in the ways the code has
  a branch for and Windows documents for one instance.
* In `Window` the game has one window at a time; the value of a window handle is not
  used twice (Windows changes the upper half of it each time); the window does
  not go between two messages of one operation. When a client other than this one
  gets there first, icons are set on its window as on any.
* `setMaxSize` also reserves memory for that many entries (`CircularBuffer.h:32`),
  which fails for a huge number and ends the process; the sizes here are small.
* An exception thrown by a void of the task queue (`TaskQueue.h:56`) is left out.
* In `AuthFlow` the glue update is called on every screen; only the SDK logs in.
* Which character an index means (`AuthRpc.cpp:143`) and which realm a name means: the
  lists are the game's, and nothing in the code holds on to them.
* Not modelled, in whole: the Lua engine and its hooks (calls into the
  game's interpreter from the RPC thread without a lock have no outcome one could
  enumerate; nothing in `src/` fills the lists of the hooks), detours (machine code), the
  client wrappers (one call each), vendored libraries. Of the readers, names,
  positions, the list of characters and the list of realms; of the
  handlers, those that only format what they read (`client.getInfo`, `char.list`).

## 7. Plan

Done in this order, the most important behaviour first: task queue, event
pipe, subscriptions, loading, start-up with the command pipe, authentication,
the window service; then the readers of units with the group cache and the state
cache on top of them, dispatch, and the console. Each has its proofs. The
abstract specifications `CommandService` and `EventStream` came last.

Left, in the order of use: an abstract request server that `Startup` and
`Console` both implement, which needs their two views of one request brought
together; the character list under `client.enterWorld`.

## 8. Running it

    tlc -config TaskQueue.cfg TaskQueue
    tlc -config MCEventsApi.cfg MCEventsApi
    tlapm TaskQueueProofs.tla

The other runs go the same way: `EventPipe` (also with `EventPipeReuse.cfg`),
`LoadingPoll`, `Startup` (also with `StartupFrames.cfg`), `AuthFlow`, `Window`,
`GroupCache.cfg` with `MCGroupCache`, `StateCache.cfg` with `MCStateCache`,
`Console.cfg` with `MCConsole`. Besides the runs, `UnitTarget.cfg`,
`StartupCommands.cfg`, `AuthRealm.cfg`, `WindowIcons.cfg` and `WindowOthers.cfg` go
with `MCGroupCache`, `Startup`, `AuthFlow` and `Window`; each ends with the
counterexample of section 5.
