SPECIFICATION RouterSpec
CONSTANTS
    None = None
    HalfSecond = 1
    N = 2
    Scores = {1, 2}
    RetryAfters = {None, 0, 2}
    Resets = {0, 1}
    DefaultCooldown = 1
    MaxWait = 2
    PingsFail = FALSE
PROPERTIES RetryAfterKept EveryProviderTried AnswersAgain
