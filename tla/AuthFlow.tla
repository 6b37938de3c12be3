------------------------------ MODULE AuthFlow ------------------------------
(***************************************************************************)
(* client.login, client.enterWorld and client.logout                       *)
(* (src/rpc/handlers/auth/AuthRpc.cpp) between the RPC thread, which posts *)
(* and polls, and the game thread with its two hooks                       *)
(* (src/hooks/GlueHooks.cpp).  They share s_loginPending and               *)
(* s_capturedLoginResult without a lock, and the game's memory.            *)
(*                                                                         *)
(* The game is external: it carries out what it is asked in its own time,  *)
(* may still hear from an earlier login attempt after a new one, and may   *)
(* lose its connection.  Only the SDK logs in.  client.quit, after which   *)
(* nothing happens, and the realmlist methods, which are executes, are     *)
(* left out.                                                               *)
(***************************************************************************)
EXTENDS Integers, Sequences

CONSTANTS MaxLogins,  \* bound: calls of client.login
          MaxEnters   \* bound: calls of client.enterWorld and client.logout

ASSUME AuthAssumption == MaxLogins \in Nat /\ MaxEnters \in Nat

Login == 1 .. MaxLogins
Task == ({"login", "select"} \X Login) \cup {<<"enter", 0>>, <<"logout", 0>>}

VARIABLES
    screen,    \* the screen the game shows
    realms,    \* has the realm list entries (RealmList::IsReady)
    open,      \* logins the game is carrying out: neither accepted nor rejected
    entering,  \* has the game been asked to enter the world
    queue,     \* the posts of Hooks::Glue
    batch,     \* those the drain in progress has taken
    gPc,       \* where the game thread is in its frame
    reported,  \* the login whose rejection the game is reporting
    pending,   \* s_loginPending
    captured,  \* s_capturedLoginResult: the login it is about, 0: nullptr
    rPc,       \* where the RPC thread is
    login,     \* client.login calls so far; the last one may be in progress
    realmName, \* [Login -> was realmName given]
    enters,    \* client.enterWorld and client.logout calls so far
    answer,    \* [Login -> what was answered]
    cause,     \* history: [Login -> the login whose rejection was answered]
    accepted,  \* history: logins the server accepted
    selected,  \* history: logins whose RealmList::Select has run
    fresh,     \* history: world entered since enterWorld checked the screen
    stale      \* history: an enterWorld was answered "ok" without that

game == <<screen, realms, open, entering>>
frame == <<batch, gPc, reported>>
glue == <<pending, captured>>
rpc == <<rPc, login, realmName, enters>>
told == <<answer, cause, stale>>
happened == <<accepted, selected>>
vars == <<game, queue, frame, glue, rpc, told, happened, fresh>>

Init ==
    /\ screen = "login" /\ realms = FALSE /\ open = {} /\ entering = FALSE
    /\ queue = <<>> /\ batch = <<>>
    /\ gPc = "drain" /\ reported = 0
    /\ pending = FALSE /\ captured = 0
    /\ rPc = "idle" /\ login = 0 /\ enters = 0
    /\ realmName = [k \in Login |-> FALSE]
    /\ answer = [k \in Login |-> "none"]
    /\ cause = [k \in Login |-> 0]
    /\ accepted = {} /\ selected = {} /\ fresh = FALSE /\ stale = FALSE

-----------------------------------------------------------------------------
(* The RPC thread.                                                         *)

RpcStep == UNCHANGED <<game, frame, happened>>

\* handleLogin: validateLoginParams, then the post.  On another screen it
\* answers an error and nothing has changed.
PostLogin(named) ==
    /\ rPc = "idle" /\ login < MaxLogins
    /\ screen = "login"
    /\ login' = login + 1
    /\ realmName' = [realmName EXCEPT ![login'] = named]
    /\ queue' = Append(queue, <<"login", login'>>)
    /\ rPc' = "set"
    /\ RpcStep /\ UNCHANGED <<glue, enters, told, fresh>>

\* setLoginPending, first assignment.
SetPending ==
    /\ rPc = "set"
    /\ pending' = TRUE
    /\ rPc' = "reset"
    /\ RpcStep /\ UNCHANGED <<queue, captured, login, realmName, enters, told, fresh>>

\* Mutant: the result of the last login is kept.
ResetCaptured_Kept ==
    /\ rPc = "reset"
    /\ rPc' = "result"
    /\ RpcStep /\ UNCHANGED <<queue, glue, login, realmName, enters, told, fresh>>

\* setLoginPending, second assignment.
ResetCaptured ==
    /\ rPc = "reset"
    /\ captured' = 0
    /\ rPc' = "result"
    /\ RpcStep /\ UNCHANGED <<queue, pending, login, realmName, enters, told, fresh>>

Answer(what) ==
    /\ answer' = [answer EXCEPT ![login] = what]
    /\ rPc' = "idle"
    /\ UNCHANGED <<queue, login, realmName, enters, stale>>

\* waitForLoginResult: 20 s are over, looked at first in every round.
LoginTimeout ==
    /\ rPc = "result"
    /\ Answer("timeout")
    /\ RpcStep /\ UNCHANGED <<glue, cause, fresh>>

\* waitForLoginResult: a captured result ends the wait.
LoginRejected ==
    /\ rPc = "result" /\ captured # 0
    /\ Answer("failed")
    /\ cause' = [cause EXCEPT ![login] = captured]
    /\ RpcStep /\ UNCHANGED <<glue, fresh>>

\* waitForLoginResult: none captured, on to the screen.
NothingCaptured ==
    /\ rPc = "result" /\ captured = 0
    /\ rPc' = "screen"
    /\ RpcStep /\ UNCHANGED <<queue, glue, login, realmName, enters, told, fresh>>

\* waitForLoginResult: the screen says the login succeeded, or the next round.
LoginScreen ==
    /\ rPc = "screen"
    /\ IF screen # "charselect"
         THEN rPc' = "result" /\ UNCHANGED <<queue, login, realmName, enters, told>>
       ELSE IF realmName[login]
         THEN rPc' = "realm" /\ UNCHANGED <<queue, login, realmName, enters, told>>
       ELSE Answer("ok") /\ UNCHANGED cause
    /\ RpcStep /\ UNCHANGED <<glue, fresh>>

\* waitForRealmReady returns, then waitForCharSelect posts the selection.
PostSelect ==
    /\ rPc = "realm" /\ realms
    /\ queue' = Append(queue, <<"select", login>>)
    /\ rPc' = "chars"
    /\ RpcStep /\ UNCHANGED <<glue, login, realmName, enters, told, fresh>>

\* Mutant: the two waits have no time limit.
RealmTimeout_Never == FALSE /\ PostSelect

\* waitForRealmReady or waitForCharSelect gives up.
RealmTimeout ==
    /\ \/ rPc = "realm" /\ ~realms
       \/ rPc = "chars" /\ screen # "charselect"
    /\ Answer("realmTimeout")
    /\ RpcStep /\ UNCHANGED <<glue, cause, fresh>>

\* waitForCharSelect finds the character screen.
CharSelectShown ==
    /\ rPc = "chars" /\ screen = "charselect"
    /\ Answer("ok")
    /\ RpcStep /\ UNCHANGED <<glue, cause, fresh>>

\* Mutant: the screen is not checked.
PostEnter_Unchecked(wait) ==
    /\ rPc = "idle" /\ enters < MaxEnters
    /\ enters' = enters + 1
    /\ queue' = Append(queue, <<"enter", 0>>)
    /\ fresh' = FALSE
    /\ rPc' = IF wait THEN "entering" ELSE "idle"
    /\ RpcStep /\ UNCHANGED <<glue, login, realmName, told>>

\* handleEnterWorld: the check of the screen, then the post.
PostEnter(wait) ==
    /\ rPc = "idle" /\ enters < MaxEnters
    /\ screen = "charselect"
    /\ enters' = enters + 1
    /\ queue' = Append(queue, <<"enter", 0>>)
    /\ fresh' = FALSE
    /\ rPc' = IF wait THEN "entering" ELSE "idle"
    /\ RpcStep /\ UNCHANGED <<glue, login, realmName, told>>

\* handleEnterWorld: in the world, or 30 s are over.
EnterAnswered ==
    /\ rPc = "entering"
    /\ stale' = (stale \/ (screen = "world" /\ ~fresh))
    /\ rPc' = "idle"
    /\ RpcStep /\ UNCHANGED <<queue, glue, login, realmName, enters, answer, cause, fresh>>

\* handleLogout asks in any state.
PostLogout ==
    /\ rPc = "idle" /\ enters < MaxEnters
    /\ enters' = enters + 1
    /\ queue' = Append(queue, <<"logout", 0>>)
    /\ RpcStep /\ UNCHANGED <<rPc, glue, login, realmName, told, fresh>>

Handler ==
    \/ SetPending \/ ResetCaptured \/ LoginTimeout \/ LoginRejected
    \/ NothingCaptured \/ LoginScreen \/ PostSelect \/ RealmTimeout
    \/ CharSelectShown \/ EnterAnswered

-----------------------------------------------------------------------------
(* The game thread: GlueMgrUpdate_Hook drains, lets the game work, and     *)
(* looks at the screen.  Whether it is called in the world too is not to   *)
(* be seen in this code: here it is.                                       *)

GameStep == UNCHANGED <<rpc, told>>

DrainSwap ==
    /\ gPc = "drain" /\ batch = <<>> /\ queue # <<>>
    /\ batch' = queue /\ queue' = <<>>
    /\ gPc' = "run"
    /\ GameStep /\ UNCHANGED <<game, reported, glue, happened, fresh>>

\* A post runs: it only asks the game.
RunTask ==
    /\ gPc = "run" /\ batch # <<>>
    /\ LET task == Head(batch) IN
         /\ open' = IF task[1] = "login" THEN open \cup {task[2]} ELSE open
         /\ selected' = IF task[1] = "select" THEN selected \cup {task[2]} ELSE selected
         /\ entering' = IF task[1] = "enter" THEN screen = "charselect"
                        ELSE IF task[1] = "logout" THEN FALSE ELSE entering
    /\ batch' = Tail(batch)
    /\ GameStep
    /\ UNCHANGED <<screen, realms, queue, gPc, reported, glue, accepted, fresh>>

Original ==
    /\ gPc \in {"drain", "run"} /\ batch = <<>>
    /\ gPc = "drain" => queue = <<>>
    /\ gPc' = "original"
    /\ GameStep /\ UNCHANGED <<game, queue, batch, reported, glue, happened, fresh>>

\* In s_original the game does at most one of the following.
Works == gPc = "original" /\ GameStep /\ UNCHANGED <<queue, batch, selected>>

\* The server rejects a login, and the game reports it.
Reject(k) ==
    /\ Works /\ k \in open
    /\ open' = open \ {k}
    /\ reported' = k /\ gPc' = "report"
    /\ UNCHANGED <<screen, realms, entering, glue, accepted, fresh>>

\* The server accepts a login.
Accept(k) ==
    /\ Works /\ k \in open /\ screen = "login"
    /\ open' = open \ {k} /\ accepted' = accepted \cup {k}
    /\ screen' = "charselect"
    /\ gPc' = "post"
    /\ UNCHANGED <<realms, entering, reported, glue, fresh>>

Idles ==
    /\ Works
    /\ realms' \in {realms, screen # "login"}
    /\ gPc' = "post"
    /\ UNCHANGED <<screen, open, entering, reported, glue, accepted, fresh>>

EnterWorld ==
    /\ Works /\ screen = "charselect" /\ entering
    /\ screen' = "world" /\ entering' = FALSE /\ fresh' = TRUE
    /\ gPc' = "post"
    /\ UNCHANGED <<realms, open, reported, glue, accepted>>

LeaveWorld ==
    /\ Works /\ screen = "world"
    /\ screen' = "charselect" /\ gPc' = "post"
    /\ UNCHANGED <<realms, open, entering, reported, glue, accepted, fresh>>

\* The connection is lost: back to the login screen.
Disconnect ==
    /\ Works /\ screen # "login"
    /\ screen' = "login" /\ realms' = FALSE /\ entering' = FALSE
    /\ gPc' = "post"
    /\ UNCHANGED <<open, reported, glue, accepted, fresh>>

\* GruntLoginState_Hook, its tests.
HookTest ==
    /\ gPc = "report"
    /\ gPc' = IF pending /\ captured = 0 THEN "store" ELSE "post"
    /\ GameStep /\ UNCHANGED <<game, queue, batch, reported, glue, happened, fresh>>

\* GruntLoginState_Hook, its first assignment.
HookStore ==
    /\ gPc = "store"
    /\ captured' = reported
    /\ gPc' = "clear"
    /\ GameStep /\ UNCHANGED <<game, queue, batch, reported, pending, happened, fresh>>

\* GruntLoginState_Hook, its second: by now the flag may be the next login's.
HookClear ==
    /\ gPc = "clear"
    /\ pending' = FALSE
    /\ gPc' = "post"
    /\ GameStep /\ UNCHANGED <<game, queue, batch, reported, captured, happened, fresh>>

\* GlueMgr_PostUpdate, on the game's own screen.
PostUpdate ==
    /\ gPc = "post"
    /\ pending' = (pending /\ screen # "charselect")
    /\ gPc' = "drain"
    /\ GameStep /\ UNCHANGED <<game, queue, batch, reported, captured, happened, fresh>>

GameThread ==
    \/ DrainSwap \/ RunTask \/ Original
    \/ \E k \in Login : Reject(k) \/ Accept(k)
    \/ Idles \/ EnterWorld \/ LeaveWorld \/ Disconnect
    \/ HookTest \/ HookStore \/ HookClear \/ PostUpdate

Next ==
    \/ \E named \in BOOLEAN : PostLogin(named)
    \/ \E wait \in BOOLEAN : PostEnter(wait)
    \/ PostLogout \/ Handler
    \/ GameThread

\* The RPC thread polls, whatever the game does, and looks at the deadline in
\* every round.
Fairness == SF_vars(LoginTimeout) /\ WF_vars(Handler)

Spec == Init /\ [][Next]_vars /\ Fairness

-----------------------------------------------------------------------------
TypeOK ==
    /\ screen \in {"login", "charselect", "world"} /\ realms \in BOOLEAN
    /\ open \in SUBSET Login /\ entering \in BOOLEAN
    /\ queue \in Seq(Task) /\ batch \in Seq(Task)
    /\ gPc \in {"drain", "run", "original", "report", "store", "clear", "post"}
    /\ reported \in Login \cup {0}
    /\ pending \in BOOLEAN /\ captured \in Login \cup {0}
    /\ rPc \in {"idle", "set", "reset", "result", "screen", "realm", "chars", "entering"}
    /\ login \in 0 .. MaxLogins /\ enters \in 0 .. MaxEnters
    /\ realmName \in [Login -> BOOLEAN]
    /\ answer \in [Login -> {"none", "ok", "failed", "timeout", "realmTimeout"}]
    /\ cause \in [Login -> Login \cup {0}]
    /\ accepted \in SUBSET Login /\ selected \in SUBSET Login
    /\ fresh \in BOOLEAN /\ stale \in BOOLEAN

(* As long as no login has timed out, a login is answered for what became  *)
(* of it and not of an earlier one: no captured result is left over, and   *)
(* s_loginPending is down before the game can report on anything else.     *)
AnswerIsOwn ==
    \A k \in Login : (\A j \in 1 .. k - 1 : answer[j] # "timeout") =>
        /\ answer[k] = "failed" => cause[k] = k
        /\ answer[k] \in {"ok", "realmTimeout"} => k \in accepted

(* An enterWorld that waits says "ok" only after the game has entered the  *)
(* world since the call began.                                             *)
EnterIsFresh == ~stale

(* Every call is answered, even if the game thread stops for good.         *)
HandlersReturn == (rPc # "idle") ~> (rPc = "idle")

(* A login with realmName that is answered "ok" has selected the realm: it *)
(* "auto-selects the realm and waits for char select"                      *)
(* (docs/EN/03-methods/client.md:78).                                      *)
RealmIsSelected ==
    \A k \in Login : answer[k] = "ok" /\ realmName[k] => k \in selected
=============================================================================
