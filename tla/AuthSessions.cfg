SPECIFICATION Spec
CONSTANTS
    Users = {u1}
    Passwords = {p1, p2}
    Requests = {r1, r2, r3, r4}
    MaxAttempts = 2
    None = None
SYMMETRY Symmetry
INVARIANTS ChallengesGiveOneSession SecondFactorsArePassed RecoveryTokensAreUsedOnce StaleSessionsWereUnderWay
PROPERTIES SettledPasswordsStay
CHECK_DEADLOCK FALSE
