\* A logout that races a refresh.
CONSTANTS
    Tokens = {t1, t2, t3}
    Logouts = {l1}
    Mortal = {t1}
    NoToken = NoToken
SPECIFICATION TokenSpec
INVARIANT LogoutClosesFamily
\* Every call has ended and every token has expired.
CHECK_DEADLOCK FALSE
