\* Two browsers, two requests in flight, three tokens.
CONSTANTS
    t1 = t1  t2 = t2  t3 = t3  r1 = r1  r2 = r2  b1 = b1  b2 = b2
    Tokens = {t1, t2, t3}
    Browsers = {b1, b2}
    Requests = {r1, r2}
    MaxFaults = 1
    NoToken = NoToken  NoBrowser = NoBrowser
SPECIFICATION Spec
SYMMETRY Interchangeable
INVARIANTS RetiredStaysDead SessionsExpire CookieIsGood OneSessionPerLogin
