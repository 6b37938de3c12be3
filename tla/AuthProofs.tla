----------------------------- MODULE AuthProofs -----------------------------
(***************************************************************************)
(* Proofs about AuthFlow for any number of logins and of other calls.      *)
(***************************************************************************)
EXTENDS AuthFlow, TLAPS

USE AuthAssumption

-----------------------------------------------------------------------------
(* Sequences of posts.                                                     *)

\* The post of login k is in s.
Holds(s, k) == \E i \in DOMAIN s : s[i] = <<"login", k>>

\* No login is posted twice.
Once(s) == \A i, j \in DOMAIN s : s[i] = s[j] /\ s[i][1] = "login" => i = j

LEMMA TaskFacts ==
    /\ \A k \in Login : <<"login", k>> \in Task /\ <<"select", k>> \in Task
    /\ <<"enter", 0>> \in Task /\ <<"logout", 0>> \in Task
    /\ \A t \in Task : /\ t = <<t[1], t[2]>>
                       /\ t[1] \in {"login", "select"} => t[2] \in Login
BY DEF Task

LEMMA AppendHolds ==
    ASSUME NEW s \in Seq(Task), NEW t \in Task
    PROVE  /\ Append(s, t) \in Seq(Task)
           /\ \A k \in Login : Holds(Append(s, t), k) <=> Holds(s, k) \/ t = <<"login", k>>
           /\ Once(s) /\ (t[1] = "login" => ~Holds(s, t[2])) => Once(Append(s, t))
<1>1. /\ Append(s, t) \in Seq(Task)
      /\ DOMAIN Append(s, t) = DOMAIN s \cup {Len(s) + 1} /\ Len(s) \in Nat
      /\ Append(s, t)[Len(s) + 1] = t
      /\ \A i \in DOMAIN s : i # Len(s) + 1 /\ Append(s, t)[i] = s[i]
  OBVIOUS
<1>2. \A k \in Login : Holds(Append(s, t), k) <=> Holds(s, k) \/ t = <<"login", k>>
  BY <1>1 DEF Holds
<1>3. ASSUME Once(s), t[1] = "login" => ~Holds(s, t[2]) PROVE Once(Append(s, t))
  <2>1. \A i \in DOMAIN s : s[i] = t => t[1] # "login"
    BY <1>3, TaskFacts DEF Holds
  <2> QED BY <1>1, <1>3, <2>1 DEF Once
<1> QED BY <1>1, <1>2, <1>3

LEMMA TailHolds ==
    ASSUME NEW s \in Seq(Task), s # <<>>
    PROVE  /\ Head(s) \in Task /\ Tail(s) \in Seq(Task)
           /\ \A k \in Login : Holds(s, k) <=> Head(s) = <<"login", k>> \/ Holds(Tail(s), k)
           /\ Once(s) => /\ Once(Tail(s))
                         /\ \A k \in Login : Head(s) = <<"login", k>> => ~Holds(Tail(s), k)
<1>1. /\ Head(s) \in Task /\ Tail(s) \in Seq(Task)
      /\ Len(s) \in Nat /\ DOMAIN s = 1 .. Len(s) /\ DOMAIN Tail(s) = 1 .. Len(s) - 1
      /\ Head(s) = s[1] /\ 1 \in DOMAIN s
      /\ \A i \in DOMAIN Tail(s) : Tail(s)[i] = s[i + 1]
  OBVIOUS
<1>2. \A i \in DOMAIN Tail(s) : i + 1 \in DOMAIN s /\ i + 1 # 1
  BY <1>1
<1>3. \A i \in DOMAIN s : i = 1 \/ (i - 1 \in DOMAIN Tail(s) /\ s[i] = Tail(s)[i - 1])
  BY <1>1
<1>4. \A k \in Login : Holds(s, k) <=> Head(s) = <<"login", k>> \/ Holds(Tail(s), k)
  BY <1>1, <1>2, <1>3 DEF Holds
<1>5. ASSUME Once(s) PROVE Once(Tail(s))
  <2> SUFFICES ASSUME NEW i \in DOMAIN Tail(s), NEW j \in DOMAIN Tail(s),
                      Tail(s)[i] = Tail(s)[j], Tail(s)[i][1] = "login"
               PROVE  i = j
    BY DEF Once
  <2>1. i + 1 = j + 1
    BY <1>1, <1>2, <1>5 DEF Once
  <2> QED BY <1>1, <2>1
<1>6. ASSUME Once(s), NEW k \in Login, Head(s) = <<"login", k>>, Holds(Tail(s), k) PROVE FALSE
  <2>1. PICK i \in DOMAIN Tail(s) : Tail(s)[i] = <<"login", k>>
    BY <1>6 DEF Holds
  <2>2. s[i + 1] = s[1] /\ s[i + 1][1] = "login"
    BY <1>1, <1>6, <2>1
  <2> QED BY <1>1, <1>2, <1>6, <2>2 DEF Once
<1> QED BY <1>1, <1>4, <1>5, <1>6

LEMMA EmptyHolds == /\ <<>> \in Seq(Task) /\ Once(<<>>) /\ \A k : ~Holds(<<>>, k)
BY DEF Once, Holds

-----------------------------------------------------------------------------
(* Types.                                                                  *)

\* TypeOK in four parts.
FrameTypes ==
    /\ screen \in {"login", "charselect", "world"} /\ realms \in BOOLEAN
    /\ open \in SUBSET Login /\ entering \in BOOLEAN
    /\ gPc \in {"drain", "run", "original", "report", "store", "clear", "post"}
    /\ reported \in Login \cup {0}
    /\ pending \in BOOLEAN /\ captured \in Login \cup {0}

PostTypes == queue \in Seq(Task) /\ batch \in Seq(Task)

RpcTypes ==
    /\ rPc \in {"idle", "set", "reset", "result", "screen", "realm", "chars", "entering"}
    /\ login \in 0 .. MaxLogins /\ enters \in 0 .. MaxEnters
    /\ realmName \in [Login -> BOOLEAN]
    /\ answer \in [Login -> {"none", "ok", "failed", "timeout", "realmTimeout"}]
    /\ cause \in [Login -> Login \cup {0}]

PastTypes ==
    /\ accepted \in SUBSET Login /\ selected \in SUBSET Login
    /\ fresh \in BOOLEAN /\ stale \in BOOLEAN

LEMMA TypeParts == TypeOK <=> FrameTypes /\ PostTypes /\ RpcTypes /\ PastTypes
BY DEF TypeOK, FrameTypes, PostTypes, RpcTypes, PastTypes

LEMMA InitType == Init => TypeOK
<1> SUFFICES ASSUME Init PROVE TypeOK
  OBVIOUS
<1>1. queue \in Seq(Task) /\ batch \in Seq(Task)
  BY EmptyHolds DEF Init
<1>2. login \in 0 .. MaxLogins /\ enters \in 0 .. MaxEnters
  BY DEF Init
<1>3. /\ realmName \in [Login -> BOOLEAN] /\ cause \in [Login -> Login \cup {0}]
      /\ answer \in [Login -> {"none", "ok", "failed", "timeout", "realmTimeout"}]
  BY DEF Init
<1> QED BY <1>1, <1>2, <1>3 DEF Init, TypeOK

\* A login in progress is one of the logins, and so is one that is reported.
InProgress == rPc \in {"set", "reset", "result", "screen", "realm", "chars"} => login \in Login

ReportIsOn == gPc \in {"report", "store"} => reported \in Login

TInv == TypeOK /\ InProgress /\ ReportIsOn

LEMMA LoginRange ==
    ASSUME TypeOK
    PROVE  /\ login < MaxLogins => login + 1 \in Login /\ login + 1 \in 0 .. MaxLogins
           /\ enters < MaxEnters => enters + 1 \in 0 .. MaxEnters
<1>1. login \in 0 .. MaxLogins /\ enters \in 0 .. MaxEnters /\ MaxLogins \in Nat /\ MaxEnters \in Nat
  BY DEF TypeOK
<1> QED BY <1>1 DEF Login

LEMMA RpcType ==
    ASSUME TInv, \/ \E named \in BOOLEAN : PostLogin(named)
                 \/ \E wait \in BOOLEAN : PostEnter(wait)
                 \/ PostLogout \/ Handler
    PROVE  TInv'
<1>0. FrameTypes /\ PostTypes /\ RpcTypes /\ PastTypes /\ InProgress /\ ReportIsOn
  BY TypeParts DEF TInv
<1> SUFFICES FrameTypes' /\ PostTypes' /\ RpcTypes' /\ PastTypes' /\ InProgress' /\ ReportIsOn'
  BY DEF TInv, TypeOK, FrameTypes, PostTypes, RpcTypes, PastTypes
<1>1. UNCHANGED <<screen, realms, open, entering, gPc, reported, batch, accepted, selected>>
  BY DEF PostLogin, PostEnter, PostLogout, Handler, SetPending, ResetCaptured, LoginTimeout,
         LoginRejected, NothingCaptured, LoginScreen, PostSelect, RealmTimeout,
         CharSelectShown, EnterAnswered, RpcStep, game, frame, happened
<1>2. FrameTypes' /\ ReportIsOn'
  <2>1. pending' \in {pending, TRUE} /\ captured' \in {captured, 0}
    BY DEF PostLogin, PostEnter, PostLogout, Handler, SetPending, ResetCaptured,
           LoginTimeout, LoginRejected, NothingCaptured, LoginScreen, PostSelect,
           RealmTimeout, CharSelectShown, EnterAnswered, glue
  <2> QED BY <1>0, <1>1, <2>1 DEF FrameTypes, ReportIsOn
<1>3. PastTypes'
  <2>1. fresh' \in {fresh, FALSE} /\ stale' \in {stale, stale \/ (screen = "world" /\ ~fresh)}
    BY DEF PostLogin, PostEnter, PostLogout, Handler, SetPending, ResetCaptured,
           LoginTimeout, LoginRejected, NothingCaptured, LoginScreen, PostSelect,
           RealmTimeout, CharSelectShown, EnterAnswered, Answer, told
  <2> QED BY <1>0, <1>1, <2>1 DEF PastTypes
<1> USE <1>0 DEF PostTypes, RpcTypes, InProgress
<1>4. ASSUME NEW named \in BOOLEAN, PostLogin(named)
      PROVE  PostTypes' /\ RpcTypes' /\ InProgress'
  <2>1. login' \in Login /\ login' \in 0 .. MaxLogins
    BY <1>4, LoginRange DEF PostLogin, TInv
  <2>2. queue' \in Seq(Task)
    BY <1>4, <2>1, TaskFacts, AppendHolds DEF PostLogin
  <2> QED BY <1>1, <1>4, <2>1, <2>2 DEF PostLogin, told
<1>5. ASSUME NEW wait \in BOOLEAN, PostEnter(wait)
      PROVE  PostTypes' /\ RpcTypes' /\ InProgress'
  <2>1. queue' \in Seq(Task) /\ enters' \in 0 .. MaxEnters
    BY <1>5, LoginRange, TaskFacts, AppendHolds DEF PostEnter, TInv
  <2> QED BY <1>1, <1>5, <2>1 DEF PostEnter, told
<1>6. CASE PostLogout
  <2>1. queue' \in Seq(Task) /\ enters' \in 0 .. MaxEnters
    BY <1>6, LoginRange, TaskFacts, AppendHolds DEF PostLogout, TInv
  <2> QED BY <1>1, <1>2, <1>3, <1>6, <2>1 DEF PostLogout, told
<1>7. CASE SetPending \/ ResetCaptured \/ NothingCaptured \/ EnterAnswered
  BY <1>1, <1>2, <1>3, <1>7 DEF SetPending, ResetCaptured, NothingCaptured, EnterAnswered, told
<1>8. CASE LoginTimeout \/ RealmTimeout \/ CharSelectShown
  BY <1>1, <1>2, <1>3, <1>8 DEF LoginTimeout, RealmTimeout, CharSelectShown, Answer
<1>9. CASE LoginRejected
  <2>1. cause' \in [Login -> Login \cup {0}]
    BY <1>9 DEF LoginRejected, FrameTypes
  <2> QED BY <1>1, <1>2, <1>3, <1>9, <2>1 DEF LoginRejected, Answer
<1>10. CASE LoginScreen
  BY <1>1, <1>2, <1>3, <1>10 DEF LoginScreen, Answer, told
<1>11. CASE PostSelect
  <2>1. queue' \in Seq(Task)
    BY <1>11, TaskFacts, AppendHolds DEF PostSelect
  <2> QED BY <1>1, <1>2, <1>3, <1>11, <2>1 DEF PostSelect, told
<1> QED BY <1>2, <1>3, <1>4, <1>5, <1>6, <1>7, <1>8, <1>9, <1>10, <1>11 DEF Handler

LEMMA GameType == ASSUME TInv, GameThread PROVE TInv'
<1>0. FrameTypes /\ PostTypes /\ RpcTypes /\ PastTypes /\ InProgress /\ ReportIsOn
  BY TypeParts DEF TInv
<1> SUFFICES FrameTypes' /\ PostTypes' /\ RpcTypes' /\ PastTypes' /\ InProgress' /\ ReportIsOn'
  BY DEF TInv, TypeOK, FrameTypes, PostTypes, RpcTypes, PastTypes
<1>1. UNCHANGED <<rPc, login, realmName, enters, answer, cause, stale>>
  BY DEF GameThread, DrainSwap, RunTask, Original, Reject, Accept, Idles, EnterWorld,
         LeaveWorld, Disconnect, HookTest, HookStore, HookClear, PostUpdate, GameStep, Works, rpc, told
<1>2. RpcTypes' /\ InProgress'
  BY <1>0, <1>1 DEF RpcTypes, InProgress
<1> USE <1>0 DEF FrameTypes, PostTypes, ReportIsOn
<1>3. CASE DrainSwap
  BY <1>1, <1>2, <1>3, EmptyHolds DEF DrainSwap, game, glue, happened, PastTypes
<1>4. CASE RunTask
  <2>1. Head(batch) \in Task /\ Tail(batch) \in Seq(Task)
    BY <1>4, TailHolds DEF RunTask
  <2>2. open' \in SUBSET Login /\ selected' \in SUBSET Login /\ entering' \in BOOLEAN
    BY <1>4, <2>1, TaskFacts DEF RunTask, PastTypes
  <2> QED BY <1>1, <1>2, <1>4, <2>1, <2>2 DEF RunTask, glue, PastTypes
<1>5. CASE Original
  BY <1>1, <1>2, <1>5 DEF Original, game, glue, happened, PastTypes
<1>6. ASSUME NEW k \in Login, Reject(k) \/ Accept(k)
      PROVE  FrameTypes' /\ PostTypes' /\ PastTypes' /\ ReportIsOn'
  BY <1>1, <1>6 DEF Reject, Accept, Works, glue, PastTypes
<1>7. CASE Idles \/ EnterWorld \/ LeaveWorld \/ Disconnect
  <2>1. realms' \in BOOLEAN /\ entering' \in BOOLEAN /\ fresh' \in BOOLEAN
    BY <1>7 DEF Idles, EnterWorld, LeaveWorld, Disconnect, PastTypes
  <2> QED BY <1>1, <1>2, <1>7, <2>1 DEF Idles, EnterWorld, LeaveWorld, Disconnect, Works, glue,
                                    PastTypes
<1>8. CASE HookTest \/ HookStore \/ HookClear \/ PostUpdate
  <2>1. pending' \in BOOLEAN
    BY <1>8 DEF HookTest, HookStore, HookClear, PostUpdate, glue
  <2> QED BY <1>1, <1>2, <1>8, <2>1 DEF HookTest, HookStore, HookClear, PostUpdate, game, glue, happened,
                                    PastTypes
<1> QED BY <1>2, <1>3, <1>4, <1>5, <1>6, <1>7, <1>8 DEF GameThread

LEMMA StepType == TInv /\ [Next]_vars => TInv'
<1>1. ASSUME TInv, UNCHANGED vars PROVE TInv'
  <2>1. /\ UNCHANGED <<screen, realms, open, entering, queue, batch, gPc, reported>>
        /\ UNCHANGED <<pending, captured, rPc, login, realmName, enters>>
        /\ UNCHANGED <<answer, cause, stale, accepted, selected, fresh>>
    BY <1>1 DEF vars, game, frame, glue, rpc, told, happened
  <2>2. FrameTypes' /\ PostTypes' /\ RpcTypes'
    BY <1>1, <2>1, TypeParts DEF TInv, FrameTypes, PostTypes, RpcTypes
  <2>3. PastTypes' /\ InProgress' /\ ReportIsOn'
    BY <1>1, <2>1, TypeParts DEF TInv, PastTypes, InProgress, ReportIsOn
  <2> QED
    BY <2>2, <2>3 DEF TInv, TypeOK, FrameTypes, PostTypes, RpcTypes, PastTypes
<1> QED BY <1>1, RpcType, GameType DEF Next

(* Type correctness of the login flow, for any number of calls.            *)
THEOREM AuthTypeCorrect == Spec => []TypeOK
<1>1. Init => TInv
  BY InitType DEF Init, TInv, InProgress, ReportIsOn
<1>2. TInv => TypeOK
  BY DEF TInv
<1> QED BY <1>1, <1>2, StepType, PTL DEF Spec

-----------------------------------------------------------------------------
(* enterWorld.                                                             *)

WorldIsFresh == (rPc = "entering" /\ screen = "world" => fresh) /\ EnterIsFresh

LEMMA StepFresh == TInv /\ WorldIsFresh /\ [Next]_vars => WorldIsFresh'
<1> SUFFICES ASSUME TInv, WorldIsFresh, [Next]_vars PROVE WorldIsFresh'
  OBVIOUS
<1> USE DEF WorldIsFresh, EnterIsFresh
<1>1. CASE UNCHANGED vars
  BY <1>1 DEF vars, game, rpc, told
<1>2. CASE EnterAnswered
  <2>1. ~(stale \/ (screen = "world" /\ ~fresh))
    BY <1>2 DEF EnterAnswered
  <2>2. rPc' = "idle" /\ stale' = (stale \/ (screen = "world" /\ ~fresh))
    BY <1>2 DEF EnterAnswered
  <2>3. ~stale'
    BY <2>1, <2>2
  <2> QED BY <2>2, <2>3
<1>3. ASSUME NEW wait \in BOOLEAN, PostEnter(wait) PROVE WorldIsFresh'
  BY <1>3 DEF PostEnter, RpcStep, game, told
<1>4. CASE \/ \E named \in BOOLEAN : PostLogin(named)
           \/ PostLogout \/ (Handler /\ ~EnterAnswered)
  <2>1. UNCHANGED <<stale, fresh, screen>>
    BY <1>4 DEF PostLogin, PostLogout, Handler, SetPending, ResetCaptured,
                LoginTimeout, LoginRejected, NothingCaptured, LoginScreen, PostSelect,
                RealmTimeout, CharSelectShown, Answer, RpcStep, game, told
  <2>2. rPc' = "entering" => rPc = "entering"
    BY <1>4 DEF PostLogin, PostLogout, Handler, SetPending, ResetCaptured,
                LoginTimeout, LoginRejected, NothingCaptured, LoginScreen, PostSelect,
                RealmTimeout, CharSelectShown, Answer
  <2> QED BY <2>1, <2>2
<1>5. CASE GameThread
  <2>1. UNCHANGED <<stale, rPc>>
    BY <1>5 DEF GameThread, DrainSwap, RunTask, Original, Reject, Accept, Idles, EnterWorld,
                LeaveWorld, Disconnect, HookTest, HookStore, HookClear, PostUpdate, GameStep, Works,
                rpc, told
  <2>2. screen' = "world" => (screen = "world" /\ fresh' = fresh) \/ fresh' = TRUE
    BY <1>5 DEF GameThread, DrainSwap, RunTask, Original, Reject, Accept, Idles, EnterWorld,
                LeaveWorld, Disconnect, HookTest, HookStore, HookClear, PostUpdate, Works, game
  <2> QED BY <2>1, <2>2
<1> QED BY <1>1, <1>2, <1>3, <1>4, <1>5 DEF Next

(* An enterWorld that waits says "ok" only after the game has entered the  *)
(* world since the call began.                                             *)
THEOREM EntersAreFresh == Spec => []EnterIsFresh
<1>1. Init => TInv /\ WorldIsFresh
  BY InitType DEF Init, TInv, InProgress, ReportIsOn, WorldIsFresh, EnterIsFresh
<1>2. WorldIsFresh => EnterIsFresh
  BY DEF WorldIsFresh
<1> QED BY <1>1, <1>2, StepType, StepFresh, PTL DEF Spec

-----------------------------------------------------------------------------
(* client.login.  A login is in one place at a time: posted, taken by the  *)
(* drain, carried out by the game, or reported.                            *)

Reporting(k) == gPc \in {"report", "store"} /\ reported = k

Flying(k) == Holds(queue, k) \/ Holds(batch, k) \/ k \in open \/ Reporting(k)

Places ==
    /\ Once(queue) /\ Once(batch)
    /\ \A k \in Login :
         /\ ~(Holds(queue, k) /\ Holds(batch, k))
         /\ k \in open => ~Holds(queue, k) /\ ~Holds(batch, k)
         /\ Reporting(k) => ~Holds(queue, k) /\ ~Holds(batch, k) /\ k \notin open

\* No earlier login has timed out: then none is still flying.
Own(k) == \A j \in 1 .. k - 1 : answer[j] # "timeout"

Past ==
    \A k \in Login :
        /\ Flying(k) => k <= login /\ k \notin accepted /\ captured # k
        /\ k > login => k \notin accepted /\ captured # k /\ answer[k] = "none"
        /\ k < login \/ (k = login /\ rPc \in {"idle", "entering"}) => answer[k] # "none"
        /\ Own(k) /\ answer[k] \in {"failed", "ok", "realmTimeout"} => ~Flying(k)

\* What the login in progress sees is about itself.
Current ==
    login # 0 /\ Own(login) =>
        /\ rPc \in {"result", "screen"} => captured \in {0, login}
        /\ rPc \in {"set", "reset", "result", "screen"} /\ screen # "login" => login \in accepted
        /\ rPc \in {"realm", "chars"} => login \in accepted

LoginInv == TInv /\ Places /\ Past /\ Current /\ AnswerIsOwn

LEMMA InitLogin == Init => LoginInv
<1> SUFFICES ASSUME Init PROVE LoginInv
  OBVIOUS
<1>1. TInv
  BY InitType DEF Init, TInv, InProgress, ReportIsOn
<1>2. Places
  BY EmptyHolds DEF Init, Places, Reporting
<1>3. Past
  BY EmptyHolds DEF Init, Past, Flying, Reporting, Login
<1>4. Current /\ AnswerIsOwn
  BY DEF Init, Current, AnswerIsOwn
<1> QED BY <1>1, <1>2, <1>3, <1>4 DEF LoginInv

\* A step that neither posts nor drains.
LEMMA SamePlaces ==
    ASSUME Places, UNCHANGED <<queue, batch>>, open' \subseteq open,
           \A k \in Login : Reporting(k)' => Reporting(k) \/ (k \in open /\ k \notin open')
    PROVE  Places' /\ \A k \in Login : Flying(k)' => Flying(k)
<1>1. \A k \in Login : (Holds(queue, k)' <=> Holds(queue, k)) /\ (Holds(batch, k)' <=> Holds(batch, k))
  BY DEF Holds
<1>2. Once(queue)' /\ Once(batch)'
  BY DEF Places, Once
<1>3. Places'
  BY <1>1, <1>2 DEF Places
<1>4. \A k \in Login : Flying(k)' => Flying(k)
  BY <1>1 DEF Flying
<1> QED BY <1>3, <1>4

\* A step that posts something.
LEMMA PostPlaces ==
    ASSUME TInv, Places, NEW t \in Task, queue' = Append(queue, t),
           UNCHANGED <<batch, open, gPc, reported>>,
           t[1] = "login" => ~Flying(t[2])
    PROVE  Places' /\ \A k \in Login : Flying(k)' => Flying(k) \/ t = <<"login", k>>
<1>1. queue \in Seq(Task)
  BY DEF TInv, TypeOK
<1>2. /\ Once(queue')
      /\ \A k \in Login : Holds(queue', k) <=> Holds(queue, k) \/ t = <<"login", k>>
  BY <1>1, AppendHolds DEF Places, Flying
<1>3. \A k \in Login : Holds(batch', k) <=> Holds(batch, k)
  BY DEF Holds
<1>4. \A k \in Login : t = <<"login", k>> => ~Flying(k)
  OBVIOUS
<1>5. Once(batch')
  BY DEF Places, Once
<1>6. \A k \in Login : Reporting(k)' <=> Reporting(k)
  BY DEF Reporting
<1>7. Once(queue)' /\ Once(batch)'
  BY <1>2, <1>5 DEF Once
<1>8. \A k \in Login : (Holds(queue, k)' <=> Holds(queue, k) \/ t = <<"login", k>>)
                       /\ (Holds(batch, k)' <=> Holds(batch, k))
  BY <1>2, <1>3 DEF Holds
<1>9. Places'
  BY <1>4, <1>6, <1>7, <1>8 DEF Places, Flying
<1>10. \A k \in Login : Flying(k)' => Flying(k) \/ t = <<"login", k>>
  BY <1>6, <1>8 DEF Flying
<1> QED BY <1>9, <1>10

LEMMA DrainPlaces ==
    ASSUME TInv, Places, DrainSwap \/ RunTask
    PROVE  Places' /\ \A k \in Login : Flying(k)' => Flying(k)
<1>1. queue \in Seq(Task) /\ batch \in Seq(Task)
  BY DEF TInv, TypeOK
<1>2. \A k \in Login : ~Reporting(k) /\ ~Reporting(k)'
  BY DEF DrainSwap, RunTask, Reporting
<1>3. CASE DrainSwap
  <2>1. batch = <<>> /\ batch' = queue /\ queue' = <<>> /\ open' = open
    BY <1>3 DEF DrainSwap, game
  <2>2. \A k \in Login : ~Holds(queue, k)' /\ (Holds(batch, k)' <=> Holds(queue, k))
    BY <2>1, EmptyHolds DEF Holds
  <2>3. Once(queue)' /\ Once(batch)'
    BY <2>1, EmptyHolds DEF Once, Places
  <2> QED BY <1>2, <2>1, <2>2, <2>3 DEF Places, Flying
<1>4. CASE RunTask
  <2> DEFINE t == Head(batch)
  <2>1. /\ batch # <<>> /\ batch' = Tail(batch) /\ queue' = queue
        /\ open' = IF t[1] = "login" THEN open \cup {t[2]} ELSE open
    BY <1>4 DEF RunTask
  <2>2. /\ t \in Task
        /\ \A k \in Login : Holds(batch, k) <=> t = <<"login", k>> \/ Holds(Tail(batch), k)
        /\ Once(Tail(batch))
        /\ \A k \in Login : t = <<"login", k>> => ~Holds(Tail(batch), k)
    BY <1>1, <2>1, TailHolds DEF Places
  <2> HIDE DEF t
  <2>3. \A k \in Login : k \in open' <=> k \in open \/ t = <<"login", k>>
    BY <2>1, <2>2, TaskFacts
  <2>4. \A k \in Login : /\ Holds(queue, k)' <=> Holds(queue, k)
                         /\ Holds(batch, k)' <=> Holds(Tail(batch), k)
    BY <2>1 DEF Holds
  <2>5. Once(queue)' /\ Once(batch)'
    BY <2>1, <2>2 DEF Once, Places
  <2> QED BY <1>2, <2>2, <2>3, <2>4, <2>5 DEF Places, Flying
<1> QED BY <1>3, <1>4

LEMMA LoginFacts ==
    ASSUME TInv
    PROVE  /\ login \in Nat
           /\ \A k \in Login : k \in Nat /\ k # 0
           /\ \A k \in Login : \A j \in 1 .. k - 1 : j \in Login /\ j < k
           /\ \A k, m \in Login : k < m => k \in 1 .. m - 1
           /\ login # 0 => login \in Login
           /\ \A k \in Login :
                answer[k] \in {"none", "ok", "failed", "timeout", "realmTimeout"}
<1>1. login \in 0 .. MaxLogins /\ MaxLogins \in Nat
  BY DEF TInv, TypeOK
<1>2. answer \in [Login -> {"none", "ok", "failed", "timeout", "realmTimeout"}]
  BY DEF TInv, TypeOK
<1>3. \A k \in Login : answer[k] \in {"none", "ok", "failed", "timeout", "realmTimeout"}
  BY <1>2
<1>4. /\ \A k \in Login : k \in Nat /\ k # 0
      /\ \A k \in Login : \A j \in 1 .. k - 1 : j \in Login /\ j < k
      /\ \A k, m \in Login : k < m => k \in 1 .. m - 1
      /\ login # 0 => login \in Login
  BY <1>1 DEF Login
<1> QED BY <1>1, <1>3, <1>4

\* A login that is still flying while an own one is in progress is that one.
LEMMA OnlyCurrent ==
    ASSUME TInv, Past, NEW k \in Login, Flying(k), login # 0, Own(login)
    PROVE  k = login
<1>1. /\ k <= login /\ login \in Nat /\ k \in Nat /\ login \in Login
      /\ answer[k] \in {"none", "ok", "failed", "timeout", "realmTimeout"}
  BY LoginFacts DEF Past
<1>2. CASE k < login
  <2>1. k \in 1 .. login - 1
    BY <1>1, <1>2, LoginFacts
  <2>2. answer[k] # "none" /\ answer[k] # "timeout"
    BY <1>2, <2>1 DEF Past, Own
  <2>3. Own(k)
    <3>1. \A j \in 1 .. k - 1 : j \in 1 .. login - 1
      BY <1>1, <1>2
    <3> QED BY <3>1 DEF Own
  <2> QED BY <1>1, <2>2, <2>3 DEF Past
<1> QED BY <1>1, <1>2

\* A step of the RPC thread within a call.
LEMMA QuietRpc ==
    ASSUME LoginInv, UNCHANGED <<login, answer, cause, accepted, screen>>,
           \A k \in Login : Flying(k)' => Flying(k),
           captured' \in {captured, 0},
           rPc' \in {"idle", "entering"} => rPc \in {"idle", "entering"},
           rPc' \in {"set", "reset"} => rPc \in {"set", "reset"},
           rPc' = "result" => captured' = 0 \/ rPc \in {"result", "screen"},
           rPc' = "screen" => rPc \in {"result", "screen"},
           rPc' = "result" => rPc \in {"reset", "result", "screen"},
           rPc' \in {"realm", "chars"} =>
             rPc \in {"realm", "chars"} \/ (rPc = "screen" /\ screen # "login")
    PROVE  Past' /\ Current' /\ AnswerIsOwn'
<1>1. \A k \in Login : k # 0
  BY DEF Login
<1>2. \A k : Own(k)' <=> Own(k)
  BY DEF Own
<1>3. Past'
  BY <1>1, <1>2 DEF LoginInv, Past
<1>4. Current'
  BY <1>2 DEF LoginInv, Current
<1>5. AnswerIsOwn'
  BY DEF LoginInv, AnswerIsOwn
<1> QED BY <1>3, <1>4, <1>5

\* The end of client.login.
LEMMA AnsweredRpc ==
    ASSUME LoginInv, NEW what \in {"failed", "ok", "timeout", "realmTimeout"},
           login \in Login, answer' = [answer EXCEPT ![login] = what], rPc' = "idle",
           UNCHANGED <<login, captured, accepted, screen>>,
           \A k \in Login : Flying(k)' => Flying(k),
           \A k \in Login : k # login => cause'[k] = cause[k],
           Own(login) /\ what = "failed" => ~Flying(login) /\ cause'[login] = login,
           Own(login) /\ what \in {"ok", "realmTimeout"} => login \in accepted
    PROVE  Past' /\ Current' /\ AnswerIsOwn'
<1>0. TInv /\ Past
  BY DEF LoginInv
<1>1. /\ \A k \in Login : k \in Nat /\ k # 0
      /\ login \in Nat
      /\ \A k \in Login : answer'[k] = IF k = login THEN what ELSE answer[k]
  <2>1. answer \in [Login -> {"none", "ok", "failed", "timeout", "realmTimeout"}]
    BY <1>0 DEF TInv, TypeOK
  <2> QED BY <1>0, <2>1, LoginFacts
<1>2. \A k \in Login : k <= login => (Own(k)' <=> Own(k))
  <2> SUFFICES ASSUME NEW k \in Login, k <= login PROVE Own(k)' <=> Own(k)
    OBVIOUS
  <2>1. \A j \in 1 .. k - 1 : answer'[j] = answer[j]
    BY <1>0, <1>1, LoginFacts
  <2> QED BY <2>1 DEF Own
<1>3. \A k \in Login : k > login => answer'[k] = "none"
  BY <1>0, <1>1 DEF Past
<1>4. Past'
  <2>1. ASSUME NEW k \in Login
        PROVE  /\ Flying(k)' => k <= login /\ k \notin accepted /\ captured # k
               /\ k > login => k \notin accepted /\ captured # k
    BY <1>0 DEF Past
  <2>2. ASSUME NEW k \in Login, k <= login PROVE answer'[k] # "none"
    BY <1>0, <1>1, <2>2 DEF Past
  <2>3. ASSUME NEW k \in Login, Own(k)', answer'[k] \in {"failed", "ok", "realmTimeout"}
        PROVE  ~Flying(k)'
    <3>1. k <= login
      BY <1>1, <1>3, <2>3
    <3>2. Own(k)
      BY <1>2, <2>3, <3>1
    <3>3. CASE k = login
      BY <1>0, <1>1, <2>3, <3>2, <3>3 DEF Past
    <3>4. CASE k # login
      BY <1>0, <1>1, <2>3, <3>2, <3>4 DEF Past
    <3> QED BY <3>3, <3>4
  <2> QED BY <1>1, <1>3, <2>1, <2>2, <2>3 DEF Past
<1>5. Current'
  BY DEF Current
<1>6. AnswerIsOwn'
  <2> SUFFICES ASSUME NEW k \in Login, Own(k)'
               PROVE  /\ answer'[k] = "failed" => cause'[k] = k
                      /\ answer'[k] \in {"ok", "realmTimeout"} => k \in accepted
    BY DEF AnswerIsOwn, Own
  <2>1. CASE k = login
    <3>1. answer'[k] = what /\ Own(login)
      BY <1>1, <1>2, <2>1
    <3> QED BY <2>1, <3>1
  <2>2. CASE k < login
    <3>1. answer'[k] = answer[k] /\ cause'[k] = cause[k] /\ Own(k)
      BY <1>1, <1>2, <2>2
    <3> QED BY <3>1 DEF LoginInv, AnswerIsOwn, Own
  <2>3. CASE k > login
    BY <1>3, <2>3
  <2> QED BY <1>1, <2>1, <2>2, <2>3
<1> QED BY <1>4, <1>5, <1>6

LEMMA RpcLogin ==
    ASSUME LoginInv, TInv',
           \/ \E named \in BOOLEAN : PostLogin(named)
           \/ \E wait \in BOOLEAN : PostEnter(wait)
           \/ PostLogout \/ Handler
    PROVE  LoginInv'
<1>0. TInv /\ Places /\ Past /\ Current /\ AnswerIsOwn
  BY DEF LoginInv
<1> SUFFICES Places' /\ Past' /\ Current' /\ AnswerIsOwn'
  BY DEF LoginInv
<1>1. UNCHANGED <<screen, open, batch, gPc, reported, accepted>>
  BY DEF PostLogin, PostEnter, PostLogout, Handler, SetPending, ResetCaptured, LoginTimeout,
         LoginRejected, NothingCaptured, LoginScreen, PostSelect, RealmTimeout,
         CharSelectShown, EnterAnswered, RpcStep, game, frame, happened
<1>2. queue' = queue => Places' /\ \A k \in Login : Flying(k)' => Flying(k)
  BY <1>0, <1>1, SamePlaces DEF Reporting
<1>3. ASSUME NEW named \in BOOLEAN, PostLogin(named)
      PROVE  Places' /\ Past' /\ Current' /\ AnswerIsOwn'
  <2>1. /\ rPc = "idle" /\ screen = "login" /\ rPc' = "set"
        /\ login' = login + 1 /\ login' \in Login /\ login \in Nat
        /\ queue' = Append(queue, <<"login", login'>>)
        /\ UNCHANGED <<captured, answer, cause>>
    <3>1. login' \in Login /\ login \in Nat
      BY <1>0, <1>3, LoginRange, LoginFacts DEF PostLogin, TInv
    <3> QED BY <1>3, <3>1 DEF PostLogin, glue, told
  <2>2. ~Flying(login') /\ <<"login", login'>> \in Task
    <3>1. ~(login' <= login)
      BY <2>1
    <3>2. ~Flying(login')
      BY <1>0, <2>1, <3>1 DEF Past
    <3> QED BY <2>1, <3>2, TaskFacts
  <2>3. Places' /\ \A k \in Login : Flying(k)' => Flying(k) \/ k = login'
    BY <1>0, <1>1, <2>1, <2>2, PostPlaces
  <2>4. \A k : Own(k)' <=> Own(k)
    BY <2>1 DEF Own
  <2>5. Past'
    <3> SUFFICES ASSUME NEW k \in Login
                 PROVE  /\ Flying(k)' => k <= login' /\ k \notin accepted /\ captured # k
                        /\ k > login' => k \notin accepted /\ captured # k /\ answer[k] = "none"
                        /\ k < login' => answer[k] # "none"
                        /\ Own(k) /\ answer[k] \in {"failed", "ok", "realmTimeout"} => ~Flying(k)'
      BY <1>1, <2>1, <2>4 DEF Past
    <3>1. k \in Nat
      BY <1>0, LoginFacts
    <3>2. CASE k = login'
      <4>1. k > login /\ ~(k > login') /\ ~(k < login') /\ k <= login'
        BY <2>1, <3>2
      <4>2. k \notin accepted /\ captured # k /\ answer[k] = "none"
        BY <1>0, <4>1 DEF Past
      <4> QED BY <4>1, <4>2
    <3>3. CASE k # login'
      <4>1. /\ k <= login => k <= login'
            /\ k > login' => k > login
            /\ k < login' => k < login \/ k = login
        BY <2>1, <3>1, <3>3
      <4> QED BY <1>0, <2>1, <2>3, <3>3, <4>1 DEF Past
    <3> QED BY <3>2, <3>3
  <2>6. Current'
    BY <1>1, <2>1 DEF Current
  <2>7. AnswerIsOwn'
    BY <1>0, <1>1, <2>1 DEF AnswerIsOwn
  <2> QED BY <2>3, <2>5, <2>6, <2>7
<1>4. CASE PostLogout \/ \E wait \in BOOLEAN : PostEnter(wait)
  <2>1. /\ rPc = "idle" /\ rPc' \in {"idle", "entering"}
        /\ UNCHANGED <<login, captured, answer, cause>>
        /\ \E t \in {<<"enter", 0>>, <<"logout", 0>>} : queue' = Append(queue, t)
    BY <1>4 DEF PostEnter, PostLogout, glue, told
  <2>2. Places' /\ \A k \in Login : Flying(k)' => Flying(k)
    BY <1>0, <1>1, <2>1, TaskFacts, PostPlaces
  <2> QED BY <1>1, <2>1, <2>2, QuietRpc
<1>5. CASE PostSelect
  <2>1. /\ rPc = "realm" /\ rPc' = "chars" /\ login \in Login
        /\ UNCHANGED <<login, captured, answer, cause>>
        /\ queue' = Append(queue, <<"select", login>>)
    BY <1>0, <1>5 DEF PostSelect, TInv, InProgress, glue, told
  <2>2. Places' /\ \A k \in Login : Flying(k)' => Flying(k)
    BY <1>0, <1>1, <2>1, TaskFacts, PostPlaces
  <2> QED BY <1>1, <2>1, <2>2, QuietRpc
<1>6. CASE SetPending \/ ResetCaptured \/ NothingCaptured \/ EnterAnswered
  <2>1. /\ UNCHANGED <<login, answer, cause, queue>>
        /\ \/ rPc = "set" /\ rPc' = "reset" /\ captured' = captured
           \/ rPc = "reset" /\ rPc' = "result" /\ captured' = 0
           \/ rPc = "result" /\ rPc' = "screen" /\ captured' = captured
           \/ rPc = "entering" /\ rPc' = "idle" /\ captured' = captured
    BY <1>6 DEF SetPending, ResetCaptured, NothingCaptured, EnterAnswered, glue, told
  <2> QED BY <1>1, <1>2, <2>1, QuietRpc
<1>7. CASE LoginTimeout \/ RealmTimeout \/ CharSelectShown
  <2>1. /\ UNCHANGED <<login, cause, queue, captured>> /\ login \in Login /\ rPc' = "idle"
        /\ \/ rPc = "result" /\ answer' = [answer EXCEPT ![login] = "timeout"]
           \/ rPc \in {"realm", "chars"} /\ answer' = [answer EXCEPT ![login] = "realmTimeout"]
           \/ rPc = "chars" /\ answer' = [answer EXCEPT ![login] = "ok"]
    BY <1>0, <1>7 DEF LoginTimeout, RealmTimeout, CharSelectShown, Answer, glue, TInv,
                      InProgress
  <2>2. rPc \in {"realm", "chars"} /\ Own(login) => login \in accepted
    BY <1>0, <2>1, LoginFacts DEF Current
  <2> QED BY <1>1, <1>2, <2>1, <2>2, AnsweredRpc
<1>8. CASE LoginRejected
  <2>1. /\ UNCHANGED <<login, queue, captured>> /\ login \in Login /\ rPc' = "idle"
        /\ rPc = "result" /\ captured # 0
        /\ answer' = [answer EXCEPT ![login] = "failed"]
        /\ cause' = [cause EXCEPT ![login] = captured]
        /\ cause \in [Login -> Login \cup {0}]
    BY <1>0, <1>8 DEF LoginRejected, Answer, glue, TInv, InProgress, TypeOK
  <2>2. /\ cause'[login] = captured
        /\ \A k \in Login : k # login => cause'[k] = cause[k]
    BY <2>1
  <2>3. Own(login) => captured = login /\ ~Flying(login)
    <3>1. Own(login) => captured = login
      BY <1>0, <2>1, LoginFacts DEF Current
    <3>2. captured = login => ~Flying(login)
      BY <1>0, <2>1 DEF Past
    <3> QED BY <3>1, <3>2
  <2> QED BY <1>1, <1>2, <2>1, <2>2, <2>3, AnsweredRpc
<1>9. CASE LoginScreen
  <2>1. rPc = "screen" /\ login \in Login /\ UNCHANGED <<login, cause, queue, captured>>
    BY <1>0, <1>9 DEF LoginScreen, Answer, glue, told, TInv, InProgress
  <2>2. CASE screen # "charselect" \/ realmName[login]
    <3>1. /\ answer' = answer
          /\ \/ rPc' = "result"
             \/ rPc' = "realm" /\ screen = "charselect"
      BY <1>9, <2>2 DEF LoginScreen, told
    <3> QED BY <1>1, <1>2, <2>1, <3>1, QuietRpc
  <2>3. CASE ~(screen # "charselect" \/ realmName[login])
    <3>1. rPc' = "idle" /\ answer' = [answer EXCEPT ![login] = "ok"] /\ screen = "charselect"
      BY <1>9, <2>3 DEF LoginScreen, Answer
    <3>2. Own(login) => login \in accepted
      BY <1>0, <2>1, <3>1, LoginFacts DEF Current
    <3> QED BY <1>1, <1>2, <2>1, <3>1, <3>2, AnsweredRpc
  <2> QED BY <2>2, <2>3
<1> QED BY <1>3, <1>4, <1>5, <1>6, <1>7, <1>8, <1>9 DEF Handler

\* A step of the game thread that accepts no login and stores no result.
LEMMA QuietGame ==
    ASSUME LoginInv, UNCHANGED <<login, answer, cause, rPc, accepted, captured>>,
           \A k \in Login : Flying(k)' => Flying(k),
           screen' # "login" => screen # "login"
    PROVE  Past' /\ Current' /\ AnswerIsOwn'
<1>1. \A k : Own(k)' <=> Own(k)
  BY DEF Own
<1>2. Past'
  BY <1>1 DEF LoginInv, Past
<1>3. Current'
  BY <1>1 DEF LoginInv, Current
<1>4. AnswerIsOwn'
  BY DEF LoginInv, AnswerIsOwn
<1> QED BY <1>2, <1>3, <1>4

LEMMA GameLogin == ASSUME LoginInv, TInv', GameThread PROVE LoginInv'
<1>0. TInv /\ Places /\ Past /\ Current /\ AnswerIsOwn
  BY DEF LoginInv
<1> SUFFICES Places' /\ Past' /\ Current' /\ AnswerIsOwn'
  BY DEF LoginInv
<1>1. UNCHANGED <<rPc, login, answer, cause>>
  BY DEF GameThread, DrainSwap, RunTask, Original, Reject, Accept, Idles, EnterWorld,
         LeaveWorld, Disconnect, HookTest, HookStore, HookClear, PostUpdate, GameStep, Works, rpc, told
<1>2. \A k : Own(k)' <=> Own(k)
  BY <1>1 DEF Own
<1>3. CASE DrainSwap \/ RunTask
  <2>1. UNCHANGED <<accepted, captured, screen>>
    BY <1>3 DEF DrainSwap, RunTask, game, glue, happened
  <2> QED BY <1>0, <1>1, <1>3, <2>1, DrainPlaces, QuietGame
<1>4. CASE Original \/ Idles \/ EnterWorld \/ LeaveWorld \/ Disconnect
           \/ HookTest \/ HookClear \/ PostUpdate
  <2>1. /\ UNCHANGED <<accepted, captured, queue, batch, open, reported>>
        /\ screen' # "login" => screen # "login"
        /\ gPc' \in {"report", "store"} => gPc \in {"report", "store"}
    BY <1>4 DEF Original, Idles, EnterWorld, LeaveWorld, Disconnect, HookTest, HookClear,
                PostUpdate, Works, game, glue, happened
  <2>2. Places' /\ \A k \in Login : Flying(k)' => Flying(k)
    BY <1>0, <2>1, SamePlaces DEF Reporting
  <2> QED BY <1>1, <2>1, <2>2, QuietGame
<1>5. ASSUME NEW k \in Login, Reject(k) PROVE Places' /\ Past' /\ Current' /\ AnswerIsOwn'
  <2>1. /\ UNCHANGED <<accepted, captured, queue, batch, screen>>
        /\ k \in open /\ open' = open \ {k} /\ reported' = k
    BY <1>5 DEF Reject, Works, glue
  <2>2. Places' /\ \A j \in Login : Flying(j)' => Flying(j)
    BY <1>0, <2>1, SamePlaces DEF Reporting
  <2> QED BY <1>1, <2>1, <2>2, QuietGame
<1>6. ASSUME NEW k \in Login, Accept(k) PROVE Places' /\ Past' /\ Current' /\ AnswerIsOwn'
  <2>1. /\ UNCHANGED <<captured, queue, batch, reported>>
        /\ gPc = "original" /\ gPc' = "post"
        /\ k \in open /\ open' = open \ {k} /\ accepted' = accepted \cup {k}
    BY <1>6 DEF Accept, Works, glue
  <2>2. Places' /\ \A j \in Login : Flying(j)' => Flying(j)
    BY <1>0, <2>1, SamePlaces DEF Reporting
  <2>3. Flying(k) /\ ~Flying(k)'
    BY <1>0, <2>1 DEF Places, Flying, Reporting, Holds
  <2>4. Past'
    <3>1. k <= login /\ ~(k > login)
      BY <1>0, <2>3, LoginFacts DEF Past
    <3> QED BY <1>0, <1>1, <1>2, <2>1, <2>2, <2>3, <3>1 DEF Past
  <2>5. Current'
    <3>1. login # 0 /\ Own(login) => login \in accepted'
      BY <1>0, <2>1, <2>3, OnlyCurrent
    <3> QED BY <1>0, <1>1, <1>2, <2>1, <3>1 DEF Current
  <2>6. AnswerIsOwn'
    BY <1>0, <1>1, <2>1 DEF AnswerIsOwn
  <2> QED BY <2>2, <2>4, <2>5, <2>6
<1>7. CASE HookStore
  <2> DEFINE k == reported
  <2>1. /\ UNCHANGED <<accepted, queue, batch, open, reported, screen>>
        /\ gPc = "store" /\ gPc' = "clear" /\ captured' = k /\ k \in Login
    BY <1>0, <1>7 DEF HookStore, game, happened, TInv, ReportIsOn
  <2>2. Places' /\ \A j \in Login : Flying(j)' => Flying(j)
    BY <1>0, <2>1, SamePlaces DEF Reporting
  <2>3. Flying(k)
    BY <2>1 DEF Flying, Reporting
  <2>4. \A j \in Login : Flying(j)' => j # k
    BY <1>0, <2>1 DEF Places, Flying, Reporting, Holds
  <2>5. Past'
    <3>1. k <= login /\ ~(k > login)
      BY <1>0, <2>1, <2>3, LoginFacts DEF Past
    <3> QED BY <1>0, <1>1, <1>2, <2>1, <2>2, <2>4, <3>1 DEF Past
  <2>6. Current'
    <3>1. login # 0 /\ Own(login) => login = k
      BY <1>0, <2>1, <2>3, OnlyCurrent
    <3> QED BY <1>0, <1>1, <1>2, <2>1, <3>1 DEF Current
  <2>7. AnswerIsOwn'
    BY <1>0, <1>1, <2>1 DEF AnswerIsOwn
  <2> QED BY <2>2, <2>5, <2>6, <2>7
<1> QED BY <1>3, <1>4, <1>5, <1>6, <1>7 DEF GameThread

LEMMA StepLogin == LoginInv /\ [Next]_vars => LoginInv'
<1> SUFFICES ASSUME LoginInv, [Next]_vars PROVE LoginInv'
  OBVIOUS
<1>1. TInv'
  BY StepType DEF LoginInv
<1>2. CASE UNCHANGED vars
  <2>1. /\ UNCHANGED <<screen, open, queue, batch, gPc, reported, captured>>
        /\ UNCHANGED <<rPc, login, answer, cause, accepted>>
    BY <1>2 DEF vars, game, frame, glue, rpc, told, happened
  <2>2. Places' /\ \A k \in Login : Flying(k)' => Flying(k)
    BY <2>1, SamePlaces DEF LoginInv, Reporting
  <2>3. Past' /\ Current' /\ AnswerIsOwn'
    BY <2>1, <2>2, QuietGame
  <2> QED BY <1>1, <2>2, <2>3 DEF LoginInv
<1> QED BY <1>1, <1>2, RpcLogin, GameLogin DEF Next

(* As long as no login has timed out, a login is answered for what became  *)
(* of it and not of an earlier one.                                        *)
THEOREM AnswersAreOwn == Spec => []AnswerIsOwn
<1>1. LoginInv => AnswerIsOwn
  BY DEF LoginInv
<1> QED BY <1>1, InitLogin, StepLogin, PTL DEF Spec
=============================================================================
