\* Two tabs of one browser, one tab with a failing call, two clients of the API.
SPECIFICATION MCFairSpec
CONSTANTS
  t1 = t1
  t2 = t2
  b1 = b1
  Callers = {t1, t2}
  Browsers = {b1}
  BrowserOf <- OneBrowser
  Typed = {"ann", "Ann", "bob"}
  Normal <- MCNormal
  Passwords = {"p", "q"}
  Person <- MCPerson
  Goes <- MCGoes
  RefreshTtl = 2
  MaxAccounts = 3
  MaxTime = 1
  MaxFaults = 1
INVARIANT OneAccountPerEmail
PROPERTY AccountsKept
PROPERTY SessionIsEarned
PROPERTY PageFitsVisitor
PROPERTY GetsIn
