SPECIFICATION FairSpec
CONSTANTS
  hello = hello
  c1 = c1
  c2 = c2
  Calls = {hello, c1, c2}
  Hello = hello
INVARIANTS
  TypeOK
  RepliesMatch
  NoEntryLeaks
  HandshakeFirst
  MissedNeverSent
PROPERTIES
  KeepsContract
  CloseWakesSentCalls
  HeartbeatStops
  EveryCallEnds
CHECK_DEADLOCK FALSE
