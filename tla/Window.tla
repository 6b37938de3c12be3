------------------------------- MODULE Window -------------------------------
(***************************************************************************)
(* Runtime::Window::WindowService (src/runtime/window/WindowService.cpp)   *)
(* and the window.* methods (src/rpc/handlers/window/WindowRpc.cpp): which *)
(* window a request acts on, while the game destroys and creates windows,  *)
(* and what becomes of the icons.                                          *)
(*                                                                         *)
(* m_hwnd is a plain pointer that the RPC thread stores and the game       *)
(* thread clears in WM_DESTROY.  The game's windows, those of other        *)
(* clients on the desktop, icons and WM_SETICON are external.  The value   *)
(* of a handle is not used twice.  Position, size, title and show state    *)
(* are the operating system's: a request for them is one call on the       *)
(* window.  The events of SubclassedWndProc go to an EventBus nobody       *)
(* subscribes to.  That the window goes between two messages of one        *)
(* operation is left out.                                                  *)
(***************************************************************************)
EXTENDS Naturals, FiniteSets

CONSTANTS
    MaxWindows, \* bound: windows the game creates, one after the other
    Other,      \* windows of other clients, of the same window classes
    MaxIcons,   \* bound: icons loaded
    Game,       \* an icon the game has of its own, this one or another client
    None        \* nullptr

Win == 1 .. MaxWindows
Window == Win \cup Other
Icon == 1 .. MaxIcons
Size == {"small", "big"}

ASSUME WindowAssumption ==
    /\ MaxWindows \in Nat /\ MaxIcons \in Nat
    /\ Game \notin Icon \cup {None} /\ None \notin Icon \cup Window
    /\ Other \cap Win = {}

VARIABLES
    win,        \* [Window -> "none", "open", "dying" in WM_DESTROY, "gone"]
    subclassed, \* windows whose procedure is SubclassedWndProc
    hwnd,       \* m_hwnd
    init,       \* where Initialize is
    pc, op, h,  \* RPC thread: where it is, the method, GetHandle's result
    kept,       \* history: the game's windows open since the request began
    sure,       \* history: m_hwnd was one of these then, or the game has been
                \* the only client since
    saved,      \* m_iconState.hasOriginal
    original,   \* originalSmall, originalBig
    custom,     \* customSmall, customBig
    shown,      \* [Window -> [Size -> icon the window has]]
    loaded,     \* icons loaded so far
    alive,      \* those not destroyed
    restored    \* history: window of the last RestoreIcon, if no SetIcon since

windows == <<win, subclassed>>
request == <<pc, op, h, kept, sure>>
icons == <<saved, original, custom, shown, loaded, alive, restored>>
vars == <<windows, hwnd, init, request, icons>>

\* What a request asks for.  "plain": all methods but window.setIcon.  An icon
\* file may be good for some of the sizes asked for only.
PlainOp == [verb : {"plain", "restore"}, sizes : {{}}, good : {{}}]
SetOp == {o \in [verb : {"icon"}, sizes : SUBSET Size \ {{}}, good : SUBSET Size] :
            o.good \subseteq o.sizes}
Op == PlainOp \cup SetOp

Init ==
    /\ win = [w \in Window |-> "none"] /\ subclassed = {}
    /\ hwnd = None /\ init = "find"
    /\ pc = "idle" /\ op = [verb |-> "plain", sizes |-> {}, good |-> {}]
    /\ h = None /\ kept = {} /\ sure = TRUE
    /\ saved = FALSE
    /\ original = [s \in Size |-> None] /\ custom = [s \in Size |-> None]
    /\ shown = [w \in Window |-> [s \in Size |-> Game]]
    /\ loaded = 0 /\ alive = {} /\ restored = None

\* IsWindow: also while WM_DESTROY is handled, but not for nullptr.
IsWindow(w) == w \in Window /\ win[w] \in {"open", "dying"}

\* FindWoWWindow.  The first search never succeeds: it compares the thread of a
\* window with the process.  The second takes any client's window, and m_hwnd is
\* stored only if there is one.  The third, of EnumWindows, has no result.
FindWoWWindow ==
    IF \E w \in Window : IsWindow(w)
      THEN \E w \in Window : IsWindow(w) /\ hwnd' = w
      ELSE UNCHANGED hwnd

-----------------------------------------------------------------------------
(* The game thread, and the other clients.                                 *)

\* The game creates its next window once the last one is gone.
OpenWindow(w) ==
    /\ win[w] = "none"
    /\ \A v \in 1 .. w - 1 : win[v] = "gone"
    /\ win' = [win EXCEPT ![w] = "open"]
    /\ UNCHANGED <<subclassed, hwnd, init, request, icons>>

\* WM_DESTROY.  SubclassedWndProc, where it is installed, clears m_hwnd.
DestroyWindow(w) ==
    /\ win[w] = "open"
    /\ win' = [win EXCEPT ![w] = "dying"]
    /\ hwnd' = IF w \in subclassed THEN None ELSE hwnd
    /\ kept' = kept \ {w}
    /\ UNCHANGED <<subclassed, init, pc, op, h, sure, icons>>

WindowGone(w) ==
    /\ win[w] = "dying"
    /\ win' = [win EXCEPT ![w] = "gone"]
    /\ UNCHANGED <<subclassed, hwnd, init, request, icons>>

OpenOther(x) ==
    /\ win[x] = "none"
    /\ win' = [win EXCEPT ![x] = "open"]
    /\ sure' = (sure /\ hwnd \in kept)
    /\ UNCHANGED <<subclassed, hwnd, init, pc, op, h, kept, icons>>

CloseOther(x) ==
    /\ win[x] = "open"
    /\ win' = [win EXCEPT ![x] = "gone"]
    /\ UNCHANGED <<subclassed, hwnd, init, request, icons>>

-----------------------------------------------------------------------------
(* WindowService::Initialize, on the attach thread.  The command thread is *)
(* started after it.                                                       *)

InitFind ==
    /\ init = "find"
    /\ FindWoWWindow
    /\ init' = IF hwnd' = None THEN "done" ELSE "subclass"
    /\ UNCHANGED <<windows, request, icons>>

\* SetWindowLongPtr fails if the window has gone or is another process's.
InitSubclass ==
    /\ init = "subclass"
    /\ subclassed' = subclassed \cup {w \in Win : w = hwnd /\ IsWindow(w)}
    /\ init' = "done"
    /\ UNCHANGED <<win, hwnd, request, icons>>

-----------------------------------------------------------------------------
(* The RPC thread: GetHandle, common to all methods, then the operation.   *)

Request(o) ==
    /\ pc = "idle" /\ init = "done"
    /\ op' = o
    /\ kept' = {w \in Win : win[w] = "open"}
    /\ sure' = (hwnd \in kept' \/ \A x \in Other : ~IsWindow(x))
    /\ pc' = "check"
    /\ UNCHANGED <<windows, hwnd, init, h, icons>>

\* Mutant: IsWindow is not asked.
CheckHandle_Trusts ==
    /\ pc = "check"
    /\ pc' = IF hwnd # None THEN "test" ELSE "find"
    /\ UNCHANGED <<windows, hwnd, init, op, h, kept, sure, icons>>

CheckHandle ==
    /\ pc = "check"
    /\ pc' = IF IsWindow(hwnd) THEN "test" ELSE "find"
    /\ UNCHANGED <<windows, hwnd, init, op, h, kept, sure, icons>>

FindHandle ==
    /\ pc = "find"
    /\ FindWoWWindow
    /\ pc' = "test"
    /\ UNCHANGED <<windows, init, op, h, kept, sure, icons>>

\* m_hwnd ? m_hwnd : nullopt reads it twice more: without a window the method
\* fails, and a window seen here may be nullptr when it is taken.
TestHandle ==
    /\ pc = "test"
    /\ pc' = IF hwnd = None THEN "idle" ELSE "take"
    /\ UNCHANGED <<windows, hwnd, init, op, h, kept, sure, icons>>

TakeHandle ==
    /\ pc = "take"
    /\ h' = hwnd
    /\ pc' = "act"
    /\ UNCHANGED <<windows, hwnd, init, op, kept, sure, icons>>

Answer ==
    /\ pc' = "idle"
    /\ UNCHANGED <<windows, hwnd, init, op, h, kept, sure>>

\* Show, Hide, SetBounds and the like: nothing kept here changes.
ActPlain ==
    /\ pc = "act"
    /\ op.verb = "plain" \/ (op.verb = "restore" /\ ~saved)
    /\ Answer
    /\ UNCHANGED icons

\* WM_GETICON and the class icon: 0 if the window has gone.
IconOf(s) == IF IsWindow(h) THEN shown[h][s] ELSE None

\* WM_SETICON of what is not nullptr; without effect if the window has gone.
SetIcons(new) ==
    shown' = [w \in Window |-> IF w = h /\ IsWindow(w)
                THEN [s \in Size |-> IF new[s] = None THEN shown[w][s] ELSE new[s]]
                ELSE shown[w]]

Custom == {custom[s] : s \in Size} \ {None}

\* Number of the next icon, for each size loaded; the small one comes first.
Loads ==
    [s \in Size |-> IF s \notin op.good THEN None
                    ELSE IF s = "big" /\ "small" \in op.good THEN loaded + 2
                    ELSE loaded + 1]

\* Mutant: the backup is taken again whenever an icon is set.
SetIcon_Again ==
    /\ pc = "act" /\ op.verb = "icon"
    /\ loaded + Cardinality(op.good) <= MaxIcons
    /\ original' = [s \in Size |-> IconOf(s)] /\ saved' = TRUE
    /\ alive' = (alive \ Custom) \cup ({Loads[s] : s \in Size} \ {None})
    /\ loaded' = loaded + Cardinality(op.good)
    /\ custom' = Loads
    /\ SetIcons(Loads)
    /\ restored' = None
    /\ Answer

\* Mutant: only the icons of the sizes asked for are destroyed.
SetIcon_Leaks ==
    /\ pc = "act" /\ op.verb = "icon"
    /\ loaded + Cardinality(op.good) <= MaxIcons
    /\ original' = IF saved THEN original ELSE [s \in Size |-> IconOf(s)]
    /\ saved' = TRUE
    /\ alive' = (alive \ {custom[s] : s \in op.sizes}) \cup ({Loads[s] : s \in Size} \ {None})
    /\ loaded' = loaded + Cardinality(op.good)
    /\ custom' = Loads
    /\ SetIcons(Loads)
    /\ restored' = None
    /\ Answer

\* SetIcon: back up once, destroy both custom icons, load and set the new.
SetIcon ==
    /\ pc = "act" /\ op.verb = "icon"
    /\ loaded + Cardinality(op.good) <= MaxIcons
    /\ original' = IF saved THEN original ELSE [s \in Size |-> IconOf(s)]
    /\ saved' = TRUE
    /\ alive' = (alive \ Custom) \cup ({Loads[s] : s \in Size} \ {None})
    /\ loaded' = loaded + Cardinality(op.good)
    /\ custom' = Loads
    /\ SetIcons(Loads)
    /\ restored' = None
    /\ Answer

RestoreIcon ==
    /\ pc = "act" /\ op.verb = "restore"
    /\ saved
    /\ alive' = alive \ Custom
    /\ custom' = [s \in Size |-> None]
    /\ SetIcons(original)
    /\ restored' = IF IsWindow(h) THEN h ELSE None
    /\ Answer
    /\ UNCHANGED <<saved, original, loaded>>

-----------------------------------------------------------------------------
Next ==
    \/ \E w \in Win : OpenWindow(w) \/ DestroyWindow(w) \/ WindowGone(w)
    \/ \E x \in Other : OpenOther(x) \/ CloseOther(x)
    \/ InitFind \/ InitSubclass
    \/ \E o \in Op : Request(o)
    \/ CheckHandle \/ FindHandle \/ TestHandle \/ TakeHandle
    \/ ActPlain \/ SetIcon \/ RestoreIcon

Spec == Init /\ [][Next]_vars

-----------------------------------------------------------------------------
TypeOK ==
    /\ win \in [Window -> {"none", "open", "dying", "gone"}]
    /\ subclassed \in SUBSET Win
    /\ hwnd \in Window \cup {None} /\ init \in {"find", "subclass", "done"}
    /\ pc \in {"idle", "check", "find", "test", "take", "act"} /\ op \in Op
    /\ h \in Window \cup {None} /\ kept \in SUBSET Win /\ sure \in BOOLEAN
    /\ saved \in BOOLEAN
    /\ original \in [Size -> Icon \cup {Game, None}]
    /\ custom \in [Size -> Icon \cup {None}]
    /\ shown \in [Window -> [Size -> Icon \cup {Game}]]
    /\ loaded \in 0 .. MaxIcons /\ alive \in SUBSET Icon
    /\ restored \in Window \cup {None}

(* A window of the game that is open throughout a request is the one the   *)
(* request acts on, if m_hwnd was that window already or no other client   *)
(* has been there since the request came: the handle of a window destroyed *)
(* without notice, the game's or another client's, is not trusted, and     *)
(* WM_DESTROY of one window does not lose the next.                        *)
UsesOpenWindow == pc = "act" /\ kept # {} /\ sure => h \in kept

(* The same whatever other clients do: the methods manage "the main World  *)
(* of Warcraft window" (docs/EN/03-methods/window.md:3), the one of the    *)
(* process the SDK is in.                                                  *)
UsesOwnWindow == pc = "act" /\ kept # {} => h \in kept

(* Every icon loaded and not yet destroyed is held in one of the two       *)
(* fields, and in one only: none leaks, and none is destroyed twice,       *)
(* whichever sizes are set or fail to load.                                *)
IconsHeld ==
    /\ alive = Custom
    /\ custom["small"] = custom["big"] => custom["small"] = None

(* The backup is never one of the icons set by the SDK, which will be      *)
(* destroyed: "Subsequent setIcon calls do not overwrite the backup"       *)
(* (docs/EN/03-methods/window.md:352).                                     *)
BackupIsGames == \A s \in Size : original[s] \in {Game, None}

(* A window whose icons were restored shows the game's: the backup allows  *)
(* "restoration to the original state at any time"                         *)
(* (docs/EN/03-methods/window.md:352).                                     *)
RestoredIsGames == restored # None => \A s \in Size : shown[restored][s] = Game
=============================================================================
