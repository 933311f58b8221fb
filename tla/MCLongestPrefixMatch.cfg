\* The promise of request_handler.h:74.
SPECIFICATION ConfigSpec
CONSTANTS
  MaxStatements = 2
  Slash <- SlashCode
  AnyText = AnyText
  EndsInA = EndsInA
  Unbalanced = Unbalanced
  Word = Word
  Strings <- MCStrings
  Regexes <- MCRegexes
  Search <- MCSearch
  Handlers <- HandlerObjects
  NoHandler = NoHandler
  Configs <- MCConfigs
  MaxReserve = 1000
INVARIANT LongestPrefixMatch
