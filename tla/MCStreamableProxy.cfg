SPECIFICATION FairSpec
CONSTANTS
  a = a
  b = b
  Sessions = {a, b}
  NoSession = NoSession
  Uris = {u}
  Handlers = {h1, h2}
  None = None
  MessageCap = 2
  ResponseCap = 1
  MaxRequests = 3
  Mixes <- AllMixes
INVARIANTS
  ProxyTypeOK
  RecordedMeansSubscribed
  HandshakeOnce
  NoDoubleClose
  RegistryIsLive
PROPERTIES
  AnswersItsOwn
  PostEnds
  GoneSessionForgotten
CHECK_DEADLOCK FALSE
