\* Two tabs of one browser and two logins.
SPECIFICATION SessionFairSpec
CONSTANTS
  Tabs = {t1, t2}
  Tokens = {k1, k2}
  NoToken = NoToken
INVARIANTS SignOutHolds
PROPERTY EndsAtLogin
