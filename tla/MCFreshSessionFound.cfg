\* The promise of static_handler.cc:56, with one thread.
SPECIFICATION SessionSpec
CONSTANTS
  Threads = {t1}
  Cookies = {c1, c2}
  NoCookie = NoCookie
  Timeouts = {2}
  UserLists <- MCUserLists
  Tokens <- MCTokens
  CookieLists <- MCCookieLists
  Forms <- MCForms
  MaxTime = 2
INVARIANT FreshSessionFound
