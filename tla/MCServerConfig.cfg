\* Every config of up to three statements, every uri of up to four characters.
SPECIFICATION ConfigSpec
CONSTANTS
  MaxStatements = 3
  Slash <- SlashCode
  AnyText = AnyText
  EndsInA = EndsInA
  Unbalanced = Unbalanced
  Word = Word
  Strings <- MCStrings
  Regexes <- MCRegexes
  Search <- MCSearch
  Handlers <- HandlerObjects
  NoHandler = NoHandler
  Configs <- MCConfigs
  MaxReserve = 1000
INVARIANTS ConfigTypeOK AcceptsExactlyValid MountsAsConfigured InitPrefixFits AnswersListed DirectoryReached
PROPERTIES RegistrationIsolated
