----------------------------- MODULE EventsApi ------------------------------
(***************************************************************************)
(* The events.* methods (src/rpc/handlers/event/EventRpc.cpp) and the      *)
(* event hooks (src/hooks/EventHooks.cpp) on top of EventPipe: game events *)
(* reach PushEvent only when subscribed, the SDK's own events always do.   *)
(* A critical section of Hooks::Events::s_lock is one action; the signal   *)
(* hook leaves it before it calls PushEvent.                               *)
(***************************************************************************)
EXTENDS EventPipe

CONSTANTS
    Name,           \* names of game events
    NoName,         \* no event; also the kind of the SDK's own events
    Sizes,          \* arguments of events.setMaxBuffer
    Offsets, Counts,\* arguments of events.getHistory
    MaxRequests     \* bound: events.* requests

ASSUME EventsApiAssumption ==
    /\ NoName \notin Name
    /\ Sizes \subseteq Int /\ Offsets \subseteq Int /\ Counts \subseteq Int
    /\ MaxRequests \in Nat

VARIABLES
    subs,       \* s_subscriptions
    tableReady, \* s_eventTableReady: FillEvents has named the event ids
    checked,    \* [Thread -> name found subscribed, PushEvent not yet called]
    todo,       \* subscribe/unsubscribe request in progress: <<verb, names>>
    query,      \* getHistory in progress, between its two reads
    answer,     \* the last getHistory response
    calls,      \* events.* requests so far
    kind,       \* history: [Event -> name it was pushed under]
    silent,     \* history: names the client has unsubscribed or cleared
    late        \* history: [Name -> events pushed since the name went silent]

hooks == <<subs, tableReady, checked, todo, kind, silent, late>>
requests == <<query, answer, calls>>
apiVars == <<vars, hooks, requests>>

ApiInit ==
    /\ Init
    /\ subs = {} /\ tableReady = FALSE
    /\ checked = [t \in Thread |-> NoName]
    /\ todo = <<>> /\ query = <<>> /\ answer = <<>> /\ calls = 0
    /\ kind = [e \in Event |-> NoName]
    /\ silent = Name
    /\ late = [n \in Name |-> 0]

\* Mutant: requests are handled by more than one RPC thread.
Idle_ManyRpcThreads(t) == pushing[t] = 0 /\ checked[t] = NoName

\* The thread executes neither the signal hook nor, one at a time on the RPC
\* thread, a request.
Idle(t) ==
    /\ pushing[t] = 0 /\ checked[t] = NoName
    /\ t = Rpc => todo = <<>> /\ query = <<>>

-----------------------------------------------------------------------------
\* FillEvents_hook: the game names its event ids.
FillEvents ==
    /\ Idle(Game)
    /\ ~tableReady
    /\ tableReady' = TRUE
    /\ UNCHANGED <<vars, subs, checked, todo, kind, silent, late, requests>>

\* SignalEventHandler_hook under the shared lock.  A signal nobody subscribed
\* to changes nothing.
SignalEvent(t, n) ==
    /\ Idle(t)
    /\ tableReady /\ n \in subs
    /\ checked' = [checked EXCEPT ![t] = n]
    /\ UNCHANGED <<vars, subs, tableReady, todo, kind, silent, late, requests>>

\* SignalEventHandler_hook after the unlock: into PushEvent.
PushSignalled(t) ==
    /\ checked[t] # NoName
    /\ PushToHistory(t)
    /\ kind' = [kind EXCEPT ![pushed'] = checked[t]]
    /\ late' = [late EXCEPT ![checked[t]] = IF checked[t] \in silent THEN @ + 1 ELSE @]
    /\ checked' = [checked EXCEPT ![t] = NoName]
    /\ UNCHANGED <<subs, tableReady, todo, silent, requests>>

\* StateCache and LoadingHooks push their own events without a subscription.
PushOwnEvent ==
    /\ Idle(Game)
    /\ PushToHistory(Game)
    /\ UNCHANGED <<hooks, requests>>

-----------------------------------------------------------------------------
\* A request reaches its handler.
Request ==
    /\ Idle(Rpc)
    /\ calls < MaxRequests
    /\ calls' = calls + 1

\* events.subscribe and events.unsubscribe take the names one at a time.
BeginRequest(verb, names) ==
    /\ Request /\ UNCHANGED <<vars, query, answer>>
    /\ todo' = <<verb, names>>
    /\ UNCHANGED <<subs, tableReady, checked, kind, silent, late>>

Rest == IF Len(todo[2]) > 1 THEN <<todo[1], Tail(todo[2])>> ELSE <<>>

Subscribe ==
    /\ todo # <<>> /\ todo[1] = "subscribe"
    /\ subs' = subs \cup {Head(todo[2])}
    /\ silent' = silent \ {Head(todo[2])}
    /\ late' = [late EXCEPT ![Head(todo[2])] = 0]
    /\ todo' = Rest
    /\ UNCHANGED <<vars, tableReady, checked, kind, requests>>

\* What the client may rely on once names are withdrawn.
Silence(names) ==
    /\ silent' = silent \cup names
    /\ late' = [n \in Name |-> IF n \in names \ silent THEN 0 ELSE late[n]]

\* Mutant: the loop erases the last name of the list only.
Unsubscribe_LastOnly ==
    /\ todo # <<>> /\ todo[1] = "unsubscribe"
    /\ subs' = IF Len(todo[2]) > 1 THEN subs ELSE subs \ {Head(todo[2])}
    /\ Silence({Head(todo[2])})
    /\ todo' = Rest
    /\ UNCHANGED <<vars, tableReady, checked, kind, requests>>

Unsubscribe ==
    /\ todo # <<>> /\ todo[1] = "unsubscribe"
    /\ subs' = subs \ {Head(todo[2])}
    /\ Silence({Head(todo[2])})
    /\ todo' = Rest
    /\ UNCHANGED <<vars, tableReady, checked, kind, requests>>

\* events.clear
ClearSubscriptions ==
    /\ Request /\ UNCHANGED <<vars, query, answer>>
    /\ subs' = {}
    /\ Silence(Name)
    /\ UNCHANGED <<tableReady, checked, todo, kind>>

NameList == [1 .. 1 -> Name] \cup [1 .. 2 -> Name]

-----------------------------------------------------------------------------
(* The history.  Its requests touch the store only.                        *)

StoreOnly ==
    UNCHANGED <<sPipe, disconn, writeQueue, producers, accept, writer, pipe,
                record, wire, hooks>>

\* events.setMaxBuffer
SetMaxBuffer(max) ==
    /\ Request /\ StoreOnly
    /\ maxSize' = Capacity(max)
    /\ buffer' = Trim(buffer, maxSize')
    /\ UNCHANGED <<query, answer>>

\* events.clearHistory
ClearHistory ==
    /\ Request /\ StoreOnly
    /\ buffer' = <<>>
    /\ UNCHANGED <<maxSize, query, answer>>

\* events.getHistory, first lock: the entries.
GetHistory(offset, count) ==
    /\ Request /\ StoreOnly
    /\ query' = <<[offset |-> offset, entries |-> GetRange(buffer, offset, count)]>>
    /\ UNCHANGED <<store, answer>>

\* events.getHistory, second lock: the total.
GetBufferCount ==
    /\ query # <<>>
    /\ answer' = <<[offset |-> query[1].offset, entries |-> query[1].entries,
                    total |-> Len(buffer)]>>
    /\ query' = <<>>
    /\ UNCHANGED <<vars, hooks, calls>>

-----------------------------------------------------------------------------
ApiNext ==
    \/ FillEvents
    \/ \E t \in Thread : (\E n \in Name : SignalEvent(t, n)) \/ PushSignalled(t)
    \/ PushOwnEvent
    \/ \E verb \in {"subscribe", "unsubscribe"}, names \in NameList :
         BeginRequest(verb, names)
    \/ Subscribe \/ Unsubscribe \/ ClearSubscriptions
    \/ \E max \in Sizes : SetMaxBuffer(max)
    \/ ClearHistory
    \/ \E offset \in Offsets, count \in Counts : GetHistory(offset, count)
    \/ GetBufferCount
    \/ UNCHANGED <<hooks, requests>> /\ \E t \in Thread : PushToQueue(t)
    \/ /\ AcceptThread \/ WriteThread \/ ClientOpens \/ ClientLeaves
       /\ UNCHANGED <<hooks, requests>>

ApiSpec == ApiInit /\ [][ApiNext]_apiVars

-----------------------------------------------------------------------------
ApiTypeOK ==
    /\ subs \in SUBSET Name /\ tableReady \in BOOLEAN
    /\ checked \in [Thread -> Name \cup {NoName}]
    /\ todo = <<>> \/ todo \in {"subscribe", "unsubscribe"} \X Seq(Name)
    /\ kind \in [Event -> Name \cup {NoName}]
    /\ silent \in SUBSET Name
    /\ late \in [Name -> Nat]
    /\ calls \in 0 .. MaxRequests

(* After the response to events.unsubscribe or events.clear at most one    *)
(* more event of the name is pushed until the client subscribes again: the *)
(* one the game thread had already checked.                                *)
AtMostOneLate == \A n \in Name : late[n] <= 1

(* The history ends with the newest event and has no gap, whatever was     *)
(* pushed, cleared and resized in between, and neither has a page of it    *)
(* that events.getHistory returns.                                         *)
HistoryIsRecent ==
    /\ \A i \in DOMAIN buffer : buffer[i] = pushed - Len(buffer) + i
    /\ answer # <<>> =>
         \A i, j \in DOMAIN answer[1].entries :
             answer[1].entries[j] - answer[1].entries[i] = j - i

(* The total that getHistory reports covers the entries it returns, though *)
(* it is read in a second critical section.                                *)
HistoryAnswerFits ==
    answer # <<>> /\ answer[1].entries # <<>> =>
      LET first == IF answer[1].offset < 0 THEN 0 ELSE answer[1].offset
      IN first + Len(answer[1].entries) <= answer[1].total
=============================================================================
