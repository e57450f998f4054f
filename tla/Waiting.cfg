SPECIFICATION WaitingSpec
CONSTANTS
  p1 = p1
  p2 = p2
  p3 = p3
  k1 = k1
  k2 = k2
  d1 = d1
  d2 = d2
  d3 = d3
  ok = ok
  NoKey = NoKey
  NoCall = NoCall
  NoOutcome = NoOutcome
  Cancelled = Cancelled
  Procs = {p1, p2, p3}
  Calls = {d1, d2, d3}
  Keys = {k1, k2}
  Outcomes = {ok}
  Forgettable = {k2}
  a1 = a1
  s1 = s1
  w1 = w1
  w2 = w2
  Nobody = Nobody
  Requests = {a1, s1}
  Dynamic = {a1}
  Waiters = {w1, w2}
INVARIANTS
  OneExecution
  NobodyStranded
  NoLostWakeup
PROPERTIES
  CallersReturn
  WaitersReturn
