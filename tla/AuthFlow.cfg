\* Two logins, the second after any end of the first, and two of enterWorld and
\* logout.
SPECIFICATION Spec
CONSTANTS
    MaxLogins = 2
    MaxEnters = 2
INVARIANTS
    AnswerIsOwn
    EnterIsFresh
PROPERTIES
    HandlersReturn
\* Calls are bounded, but the game goes on: deadlock is checked.
