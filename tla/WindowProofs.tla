---------------------------- MODULE WindowProofs ----------------------------
(***************************************************************************)
(* Proofs about Window for any number of windows and icons.                *)
(***************************************************************************)
EXTENDS Window, FiniteSetTheorems, TLAPS

\* The game has one window at a time.
OneWindow == \A v, w \in Win : v < w /\ win[w] # "none" => win[v] = "gone"

\* What the history calls kept is open.
KeptOpen == \A w \in kept : win[w] = "open"

\* Requests come after Initialize.
InitFirst == pc # "idle" => init = "done"

\* No window of another client is there.
Alone == \A x \in Other : ~IsWindow(x)

\* The search is made only if m_hwnd does not hold the open window.
SearchLost == pc = "find" => hwnd \notin kept

\* Up to the search the open window is in m_hwnd or the only one there is, then
\* it is in m_hwnd until it is taken.
HandleFound == kept # {} /\ sure =>
                 /\ pc = "check" => hwnd \in kept \/ Alone
                 /\ pc = "find" => Alone
                 /\ pc \in {"test", "take"} => hwnd \in kept
                 /\ pc = "act" => h \in kept

\* Before the first backup the windows show the game's icons.
NothingSet == ~saved => \A w \in Window, s \in Size : shown[w][s] = Game

WInv == TypeOK /\ OneWindow /\ KeptOpen /\ InitFirst /\ SearchLost /\ HandleFound
IconInv == TypeOK /\ IconsHeld /\ BackupIsGames /\ NothingSet

USE WindowAssumption

-----------------------------------------------------------------------------
(* Facts about the operators.                                              *)

LEMMA LoadsFacts ==
    ASSUME TypeOK, op.good \in SUBSET Size, loaded + Cardinality(op.good) <= MaxIcons
    PROVE  /\ Loads \in [Size -> Icon \cup {None}]
           /\ Loads["small"] = Loads["big"] => Loads["small"] = None
           /\ loaded + Cardinality(op.good) \in 0 .. MaxIcons
<1>1. op.good \in {{}, {"small"}, {"big"}, {"small", "big"}}
  BY DEF Size
<1>2. /\ Cardinality({}) = 0 /\ Cardinality({"small"}) = 1
      /\ Cardinality({"big"}) = 1 /\ Cardinality({"small", "big"}) = 2
  <2>1. Cardinality({}) = 0
    BY FS_EmptySet
  <2>2. IsFiniteSet({"small"}) /\ Cardinality({"small"}) = 1
    BY FS_Singleton
  <2>3. Cardinality({"big"}) = 1
    BY FS_Singleton
  <2>4. Cardinality({"small"} \cup {"big"}) = 2
    BY <2>2, FS_AddElement
  <2>5. {"small"} \cup {"big"} = {"small", "big"}
    OBVIOUS
  <2> QED BY <2>1, <2>2, <2>3, <2>4, <2>5
<1>3. loaded \in Nat
  BY DEF TypeOK
<1>4. CASE op.good = {}
  <2>1. Loads = [s \in Size |-> None]
    BY <1>4 DEF Loads
  <2> QED BY <2>1, <1>2, <1>3, <1>4 DEF Size
<1>5. CASE op.good = {"small"}
  <2>1. Loads = [s \in Size |-> IF s = "small" THEN loaded + 1 ELSE None]
    BY <1>5 DEF Loads, Size
  <2>2. loaded + 1 \in Icon
    BY <1>2, <1>3, <1>5 DEF Icon
  <2> QED BY <2>1, <2>2, <1>2, <1>3, <1>5 DEF Size, Icon
<1>6. CASE op.good = {"big"}
  <2>1. Loads = [s \in Size |-> IF s = "big" THEN loaded + 1 ELSE None]
    BY <1>6 DEF Loads, Size
  <2>2. loaded + 1 \in Icon
    BY <1>2, <1>3, <1>6 DEF Icon
  <2> QED BY <2>1, <2>2, <1>2, <1>3, <1>6 DEF Size, Icon
<1>7. CASE op.good = {"small", "big"}
  <2>1. Loads = [s \in Size |-> IF s = "big" THEN loaded + 2 ELSE loaded + 1]
    BY <1>7 DEF Loads, Size
  <2>2. loaded + 1 \in Icon /\ loaded + 2 \in Icon
    BY <1>2, <1>3, <1>7 DEF Icon
  <2> QED BY <2>1, <2>2, <1>2, <1>3, <1>7 DEF Size, Icon
<1> QED BY <1>1, <1>4, <1>5, <1>6, <1>7

\* Setting icons leaves every window with an icon for each size.
LEMMA SetIconsType ==
    ASSUME TypeOK, NEW new \in [Size -> Icon \cup {Game, None}], SetIcons(new)
    PROVE  shown' \in [Window -> [Size -> Icon \cup {Game}]]
BY DEF TypeOK, SetIcons

-----------------------------------------------------------------------------
(* Types.                                                                  *)

LEMMA InitType == Init => TypeOK
<1> SUFFICES ASSUME Init PROVE TypeOK
  OBVIOUS
<1>1. op \in Op
  BY DEF Init, Op, PlainOp
<1>2. /\ win \in [Window -> {"none", "open", "dying", "gone"}]
      /\ shown \in [Window -> [Size -> Icon \cup {Game}]]
  BY DEF Init
<1>3. original \in [Size -> Icon \cup {Game, None}] /\ custom \in [Size -> Icon \cup {None}]
  BY DEF Init
<1>4. loaded \in 0 .. MaxIcons /\ alive \in SUBSET Icon
  BY DEF Init
<1> QED BY <1>1, <1>2, <1>3, <1>4 DEF Init, TypeOK

\* The steps that leave the icons alone.
LEMMA OtherType ==
    ASSUME TypeOK, Next, ~SetIcon, ~RestoreIcon
    PROVE  TypeOK' /\ UNCHANGED icons
<1>1. ASSUME NEW w \in Win, OpenWindow(w) \/ DestroyWindow(w) \/ WindowGone(w)
      PROVE  TypeOK' /\ UNCHANGED icons
  BY <1>1 DEF TypeOK, OpenWindow, DestroyWindow, WindowGone, request, icons, Window
<1>6. ASSUME NEW x \in Other, OpenOther(x) \/ CloseOther(x)
      PROVE  TypeOK' /\ UNCHANGED icons
  BY <1>6 DEF TypeOK, OpenOther, CloseOther, request, icons, Window
<1>2. CASE InitFind \/ InitSubclass
  BY <1>2 DEF TypeOK, InitFind, InitSubclass, FindWoWWindow, windows, request, icons
<1>3. ASSUME NEW o \in Op, Request(o)
      PROVE  TypeOK' /\ UNCHANGED icons
  BY <1>3 DEF TypeOK, Request, windows, icons
<1>4. CASE CheckHandle \/ FindHandle \/ TestHandle \/ TakeHandle
  BY <1>4 DEF TypeOK, CheckHandle, FindHandle, TestHandle, TakeHandle, FindWoWWindow, windows, icons
<1>5. CASE ActPlain
  BY <1>5 DEF TypeOK, ActPlain, Answer, windows, icons
<1> QED BY <1>1, <1>2, <1>3, <1>4, <1>5, <1>6 DEF Next

LEMMA SetIconType == ASSUME TypeOK, SetIcon PROVE TypeOK'
<1>1. op.good \in SUBSET Size
  BY DEF TypeOK, Op, PlainOp, SetOp
<1>2. /\ Loads \in [Size -> Icon \cup {None}]
      /\ loaded + Cardinality(op.good) \in 0 .. MaxIcons
  BY <1>1, LoadsFacts DEF SetIcon
<1>3. original' \in [Size -> Icon \cup {Game, None}]
  BY DEF SetIcon, TypeOK, IconOf, IsWindow
<1>4. shown' \in [Window -> [Size -> Icon \cup {Game}]]
  BY <1>2, SetIconsType DEF SetIcon
<1>5. alive' \in SUBSET Icon
  BY <1>2 DEF SetIcon, TypeOK
<1> QED BY <1>2, <1>3, <1>4, <1>5 DEF SetIcon, TypeOK, Answer, windows

LEMMA RestoreIconType == ASSUME TypeOK, RestoreIcon PROVE TypeOK'
<1>1. shown' \in [Window -> [Size -> Icon \cup {Game}]]
  BY SetIconsType DEF RestoreIcon, TypeOK
<1> QED BY <1>1 DEF RestoreIcon, TypeOK, Answer, windows, IsWindow

LEMMA StepType == TypeOK /\ [Next]_vars => TypeOK'
<1> SUFFICES ASSUME TypeOK, [Next]_vars PROVE TypeOK'
  OBVIOUS
<1>1. CASE UNCHANGED vars
  BY <1>1 DEF vars, windows, request, icons, TypeOK
<1> QED BY <1>1, OtherType, SetIconType, RestoreIconType

(* The window service keeps its types: m_hwnd is a window or nullptr, the  *)
(* icon fields hold icons that were loaded, for any number of them.        *)
THEOREM WindowTypeCorrect == Spec => []TypeOK
<1> QED BY InitType, StepType, PTL DEF Spec

-----------------------------------------------------------------------------
(* Icons.                                                                  *)

LEMMA InitIcons == Init => IconInv
BY InitType DEF Init, IconInv, IconsHeld, Custom, BackupIsGames, NothingSet, Size

LEMMA SetIconIcons == ASSUME IconInv, SetIcon PROVE IconInv'
<1>1. TypeOK'
  BY SetIconType DEF IconInv
<1>2. op.good \in SUBSET Size
  BY DEF IconInv, TypeOK, Op, PlainOp, SetOp
<1>3. /\ Loads \in [Size -> Icon \cup {None}]
      /\ Loads["small"] = Loads["big"] => Loads["small"] = None
  BY <1>2, LoadsFacts DEF SetIcon, IconInv
<1>4. IconsHeld'
  BY <1>3 DEF SetIcon, IconInv, IconsHeld, Custom
<1>5. BackupIsGames'
  BY DEF SetIcon, IconInv, BackupIsGames, NothingSet, IconOf, IsWindow
<1>6. NothingSet'
  BY DEF SetIcon, NothingSet
<1> QED BY <1>1, <1>4, <1>5, <1>6 DEF IconInv

LEMMA RestoreIconIcons == ASSUME IconInv, RestoreIcon PROVE IconInv'
<1>1. TypeOK'
  BY RestoreIconType DEF IconInv
<1>2. IconsHeld'
  BY DEF RestoreIcon, IconInv, IconsHeld, Custom, Size
<1> QED BY <1>1, <1>2 DEF RestoreIcon, IconInv, BackupIsGames, NothingSet

LEMMA StepIcons == IconInv /\ [Next]_vars => IconInv'
<1> SUFFICES ASSUME IconInv, [Next]_vars PROVE IconInv'
  OBVIOUS
<1>1. ASSUME TypeOK', UNCHANGED icons PROVE IconInv'
  BY <1>1 DEF IconInv, icons, IconsHeld, Custom, BackupIsGames, NothingSet
<1>2. CASE UNCHANGED vars
  BY <1>1, <1>2, StepType DEF vars, IconInv
<1>3. CASE Next /\ ~SetIcon /\ ~RestoreIcon
  BY <1>1, <1>3, OtherType DEF IconInv
<1> QED BY <1>2, <1>3, SetIconIcons, RestoreIconIcons

LEMMA InvariantIcons == Spec => []IconInv
BY InitIcons, StepIcons, PTL DEF Spec

(* SetIcon and RestoreIcon account for every icon they load: none leaks    *)
(* and none is destroyed twice, whichever sizes fail to load.              *)
THEOREM IconsAreHeld == Spec => []IconsHeld
<1>1. IconInv => IconsHeld
  BY DEF IconInv
<1> QED BY <1>1, InvariantIcons, PTL

(* The backup made by the first SetIcon holds the game's own icons or, if  *)
(* its window had gone, nothing; never an icon the SDK destroys.           *)
THEOREM BackupIsKept == Spec => []BackupIsGames
<1>1. IconInv => BackupIsGames
  BY DEF IconInv
<1> QED BY <1>1, InvariantIcons, PTL

-----------------------------------------------------------------------------
(* Handles.                                                                *)

LEMMA InitWindows == Init => WInv
<1> SUFFICES ASSUME Init PROVE OneWindow /\ KeptOpen /\ InitFirst /\ SearchLost /\ HandleFound
  BY InitType DEF WInv
<1>1. \A w \in Win : win[w] = "none"
  BY DEF Init, Window
<1> QED BY <1>1 DEF Init, OneWindow, KeptOpen, InitFirst, SearchLost, HandleFound

\* Only one window of the game passes IsWindow.
LEMMA OnlyWindow ==
    ASSUME WInv, NEW v \in Win, IsWindow(v), NEW w \in kept
    PROVE  v = w
<1>1. w \in Win /\ win[v] \in {"open", "dying"} /\ win[w] = "open"
  BY DEF WInv, TypeOK, IsWindow, KeptOpen
<1>2. v \in Nat /\ w \in Nat
  BY <1>1 DEF Win
<1> QED BY <1>1, <1>2 DEF WInv, OneWindow

\* Without another client, only the open window passes it.
LEMMA AloneWindow ==
    ASSUME WInv, Alone, NEW v, IsWindow(v), kept # {}
    PROVE  v \in kept
<1>1. v \in Win
  BY DEF Alone, IsWindow, Window
<1> QED BY <1>1, OnlyWindow

\* A step of the RPC thread or of Initialize leaves the windows as they are.
LEMMA WindowsAlone ==
    ASSUME WInv, UNCHANGED win, kept' = kept
    PROVE  OneWindow' /\ KeptOpen' /\ (Alone <=> Alone')
BY DEF WInv, OneWindow, KeptOpen, Alone, IsWindow

LEMMA GameWindows ==
    ASSUME WInv, NEW w \in Win, OpenWindow(w) \/ DestroyWindow(w) \/ WindowGone(w)
    PROVE  OneWindow' /\ KeptOpen' /\ InitFirst' /\ SearchLost' /\ HandleFound'
<1> USE DEF WInv
<1>1. w \in Window /\ w \notin Other
  BY DEF Window
<1>2. CASE OpenWindow(w)
  <2>1. OneWindow'
    BY <1>1, <1>2 DEF OpenWindow, OneWindow, TypeOK, Win
  <2>2. Alone => Alone'
    BY <1>1, <1>2 DEF OpenWindow, Alone, IsWindow, TypeOK
  <2> QED BY <1>1, <1>2, <2>1, <2>2 DEF OpenWindow, KeptOpen, InitFirst, SearchLost, HandleFound,
                                  request, TypeOK
<1>3. CASE DestroyWindow(w)
  <2>1. OneWindow' /\ KeptOpen' /\ InitFirst'
    BY <1>1, <1>3 DEF DestroyWindow, OneWindow, KeptOpen, InitFirst, TypeOK
  <2>2. IsWindow(w)
    BY <1>1, <1>3 DEF DestroyWindow, IsWindow
  <2>3. kept' = {}
    BY <1>3, <2>2, OnlyWindow DEF DestroyWindow
  <2> QED BY <2>1, <2>3 DEF SearchLost, HandleFound
<1>4. CASE WindowGone(w)
  <2>1. OneWindow' /\ KeptOpen' /\ InitFirst' /\ SearchLost'
    BY <1>1, <1>4 DEF WindowGone, OneWindow, KeptOpen, InitFirst, SearchLost, request, TypeOK
  <2>2. Alone => Alone'
    BY <1>1, <1>4 DEF WindowGone, Alone, IsWindow, TypeOK
  <2> QED BY <1>4, <2>1, <2>2 DEF WindowGone, HandleFound, request
<1> QED BY <1>2, <1>3, <1>4

LEMMA OtherWindows ==
    ASSUME WInv, NEW x \in Other, OpenOther(x) \/ CloseOther(x)
    PROVE  OneWindow' /\ KeptOpen' /\ InitFirst' /\ SearchLost' /\ HandleFound'
<1> USE DEF WInv
<1>1. x \in Window /\ x \notin Win
  BY DEF Window
<1>2. \A w \in Win : win'[w] = win[w]
  BY <1>1 DEF OpenOther, CloseOther, TypeOK, Window
<1>3. UNCHANGED <<hwnd, init, pc, h, kept>>
  BY DEF OpenOther, CloseOther, request
<1>4. OneWindow' /\ KeptOpen' /\ InitFirst' /\ SearchLost'
  BY <1>2, <1>3 DEF OneWindow, KeptOpen, InitFirst, SearchLost, TypeOK
<1>5. CASE OpenOther(x)
  BY <1>3, <1>4, <1>5 DEF OpenOther, HandleFound, SearchLost
<1>6. CASE CloseOther(x)
  <2>1. Alone => Alone'
    BY <1>1, <1>6 DEF CloseOther, Alone, IsWindow, TypeOK
  <2> QED BY <1>3, <1>4, <1>6, <2>1 DEF CloseOther, HandleFound, request
<1> QED BY <1>5, <1>6

LEMMA FindFinds ==
    ASSUME WInv, FindWoWWindow, kept # {}, Alone
    PROVE  hwnd' \in kept
<1>1. PICK w \in kept : w \in Window /\ IsWindow(w)
  BY DEF WInv, TypeOK, KeptOpen, IsWindow, Window
<1>2. PICK v \in Window : IsWindow(v) /\ hwnd' = v
  BY <1>1 DEF FindWoWWindow
<1> QED BY <1>2, AloneWindow

\* A window of the game that is open passes IsWindow.
LEMMA KeptIsWindow ==
    ASSUME WInv, hwnd \in kept
    PROVE  IsWindow(hwnd)
BY DEF WInv, TypeOK, KeptOpen, IsWindow, Window

LEMMA RpcWindows ==
    ASSUME WInv,
           CheckHandle \/ FindHandle \/ TestHandle \/ TakeHandle
             \/ ActPlain \/ SetIcon \/ RestoreIcon
    PROVE  OneWindow' /\ KeptOpen' /\ InitFirst' /\ SearchLost' /\ HandleFound'
<1> USE DEF WInv
<1>1. /\ UNCHANGED <<win, kept, sure, init>> /\ pc # "idle"
  BY DEF CheckHandle, FindHandle, TestHandle, TakeHandle, ActPlain, SetIcon, RestoreIcon,
         Answer, windows
<1>2. OneWindow' /\ KeptOpen' /\ InitFirst' /\ (Alone <=> Alone')
  BY <1>1, WindowsAlone DEF InitFirst
<1>3. CASE CheckHandle
  <2>1. ASSUME IsWindow(hwnd), kept # {}, Alone PROVE hwnd \in kept
    BY <2>1, AloneWindow
  <2> QED BY <1>1, <1>2, <1>3, <2>1, KeptIsWindow DEF CheckHandle, HandleFound, SearchLost
<1>4. CASE FindHandle
  BY <1>1, <1>2, <1>4, FindFinds DEF FindHandle, HandleFound, SearchLost
<1>5. CASE TestHandle \/ TakeHandle
  BY <1>1, <1>2, <1>5 DEF TestHandle, TakeHandle, HandleFound, SearchLost
<1>6. CASE ActPlain \/ SetIcon \/ RestoreIcon
  BY <1>2, <1>6 DEF ActPlain, SetIcon, RestoreIcon, Answer, HandleFound, SearchLost
<1> QED BY <1>2, <1>3, <1>4, <1>5, <1>6

LEMMA StepWindows == WInv /\ [Next]_vars => WInv'
<1> SUFFICES ASSUME WInv, [Next]_vars
             PROVE  OneWindow' /\ KeptOpen' /\ InitFirst' /\ SearchLost' /\ HandleFound'
  BY StepType DEF WInv
<1>1. CASE UNCHANGED vars
  BY <1>1 DEF vars, windows, request, WInv, OneWindow, KeptOpen, InitFirst, SearchLost, HandleFound,
              Alone, IsWindow
<1>2. CASE InitFind \/ InitSubclass
  <2>1. UNCHANGED <<win, kept, pc>> /\ pc = "idle"
    BY <1>2 DEF WInv, InitFind, InitSubclass, InitFirst, windows, request
  <2> QED BY <2>1, WindowsAlone DEF InitFirst, SearchLost, HandleFound
<1>3. ASSUME NEW o \in Op, Request(o)
      PROVE  OneWindow' /\ KeptOpen' /\ InitFirst' /\ SearchLost' /\ HandleFound'
  BY <1>3 DEF WInv, Request, OneWindow, KeptOpen, InitFirst, SearchLost, HandleFound, Alone,
              IsWindow, windows
<1> QED BY <1>1, <1>2, <1>3, GameWindows, OtherWindows, RpcWindows DEF Next

(* A request acts on the game's window if that is open all along and was in *)
(* m_hwnd already or no other client has a window meanwhile, for any number *)
(* of windows of the game and of others, before and during the request, and *)
(* any interleaving with WM_DESTROY.                                        *)
THEOREM RequestsUseOpenWindow == Spec => []UsesOpenWindow
<1>1. WInv => UsesOpenWindow
  BY DEF WInv, HandleFound, UsesOpenWindow
<1> QED BY <1>1, InitWindows, StepWindows, PTL DEF Spec
=============================================================================
