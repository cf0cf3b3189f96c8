SPECIFICATION FairSpec
CONSTANTS
  Null = Null
  i1 = i1
  s1 = s1
  Invokes = {i1}
  Streams = {s1}
  Offers <- MCOffers
  Frames <- MCFrames
  MaxRedirects = 2
  MaxStops = 2
  MaxStarts = 2
  MaxReports = 2
INVARIANTS
  TypeOK
  PendingCallsCanSettle
  NoForgottenTimer
  ConnectedHasTransport
  StreamsEndOnce
PROPERTIES
  ReportedOnce
  ImplementsConnection
  StopEndsTheSession
