\* Every file of up to seven characters.
SPECIFICATION ParserSpec
CONSTANTS
  MaxInput = 7
  NoChar = NoChar
INVARIANTS ParserTypeOK AccessesDefined  RoundTrip
