SPECIFICATION Spec
CONSTANTS
  g1 = g1
  g2 = g2
  g3 = g3
  h1 = h1
  h2 = h2
  f1 = f1
  d1 = d1
  d2 = d2
  d3 = d3
  d4 = d4
  NoKey = NoKey
  NoCall = NoCall
  NoOutcome = NoOutcome
  Cancelled = Cancelled
  Gets = {g1}
  Heads = {h1}
  Prefetches = {f1}
  Conditional = {g1}
  Calls = {d1, d2, d3}
  MayLose = TRUE
  MayFail = TRUE
  SinkFails = TRUE
  MayStall = TRUE
INVARIANTS
  AnsweredOnce
  OneUpstreamEach
PROPERTIES
  BadGatewayHasCause
  EveryoneAnswered
CHECK_DEADLOCK FALSE
