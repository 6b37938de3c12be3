\* One login.
SPECIFICATION Spec
CONSTANTS
    MaxLogins = 1
    MaxEnters = 0
INVARIANTS
    RealmIsSelected
