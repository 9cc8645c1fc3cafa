SPECIFICATION DashboardSpec
CONSTANTS
  Queries = {q1, q2, q3, q4}
  Conns = {c1, c2, c3, c4}
  Capacity = 2
  None = None
  l1 = l1
  l2 = l2
  t1 = t1
  t2 = t2
  Logs = {l1, l2}
  Traces = {t1, t2}
  Stamp <- MCStamp
  TraceOf <- MCTraceOf
  SpanCount <- MCSpanCount
  Passing = {l1, t1}
  Found = {l2, t2}
  Page = 2
  Commands = {s1, s2}
  Pids = {p1, p2}
  NoPid = NoPid
  Corrupt = Corrupt
SYMMETRY Symmetric
INVARIANTS
  OneOwner
  NoConnectionLeaks
  SelectionsHold
  FileNamesStarted
  StopsHitTheDaemon
CHECK_DEADLOCK FALSE
