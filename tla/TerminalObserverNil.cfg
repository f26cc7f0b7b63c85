\* One subscription and two notifications are enough.
SPECIFICATION Spec
CONSTANTS
    Observers = {o1}
    Operations = {a, b}
    Nil = Nil
CHECK_DEADLOCK FALSE
INVARIANT CallbackHasOperation
