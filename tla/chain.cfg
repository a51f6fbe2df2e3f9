SPECIFICATION Spec
CONSTANTS
    None = None
    N = 3
    Guarded = {3}
    Threshold = 2
    Cooldown = 2
INVARIANT OpenedByCount
PROPERTIES LeftAlone EveryBackendTried AnswersAgain
