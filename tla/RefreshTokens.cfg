\* Four tokens, and a logout that races their rotation and their reuse.
CONSTANTS
    Tokens = {t1, t2, t3, t4}
    Logouts = {l1}
    Mortal = {t1}
    NoToken = NoToken
SPECIFICATION FairTokenSpec
INVARIANTS TokenTypeOK StandstillIsAPair TokenAnswersAreTrue NobodyElseIsLoggedOut
PROPERTIES ImplementsRefreshPort CallsEnd
\* Every call has ended and every token has expired.
CHECK_DEADLOCK FALSE
