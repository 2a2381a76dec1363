SPECIFICATION Spec
CONSTANTS
    NoBrowser = NoBrowser
    NoCode = NoCode
    NoTransaction = NoTransaction
    NoSession = NoSession
    NoLogin = NoLogin
    Keep = Keep
    Browsers = {b1, b2}
    Subjects = {s1}
    Logins = {t1, t2}
    Codes = {c1, c2}
    Calls = {p1, p2}
    TransactionLife = 2
    CodeLife = 1
    LastTick = 2
SYMMETRY Symmetry
INVARIANTS TypeOK SessionIsOwn OneSessionPerCode
PROPERTIES RedirectsSpendAtHome SignsInAlone
