\* A buffer that the last malformed request does not fit in; body segments of
\* up to two characters.
SPECIFICATION ExchangeSpec
CONSTANTS
  MaxLength = 4
  Tokens <- MCTokens
  Numbers <- MCNumbers
  Handlers <- MCHandlers
  UriPrefixes <- MCUriPrefixes
  ProxyPasses <- MCProxyPasses
  Root <- MCRoot
  Files <- MCFiles
  ToHtml <- MCToHtml
  WellFormed <- MCWellFormed
  Malformed <- MCMalformed
  Tried <- MCTried
  RemoteTexts <- MCRemoteTexts
  MaxRedirectDepth = 3
  MaxBuffer = 40
  MaxRead = 2
  SizeRange = 1000
INVARIANTS ExchangeTypeOK InitSplits HeadersRewritten DirectoryMapped RedirectFollowed DeliveredAsSent ForwardedParses  FileServed
PROPERTY Answered
