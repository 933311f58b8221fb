\* One thread: three cookies, timeouts that run out within the run.
SPECIFICATION SessionSpec
CONSTANTS
  Threads = {t1}
  Cookies = {c1, c2, c3}
  NoCookie = NoCookie
  Timeouts = {0, 1, 3}
  UserLists <- MCUserLists
  Tokens <- MCTokens
  CookieLists <- MCCookieLists
  Forms <- MCForms
  MaxTime = 5
SYMMETRY Symmetry
INVARIANTS SessionTypeOK AdmittedInSession SessionKept 
PROPERTY SessionsApart
