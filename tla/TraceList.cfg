SPECIFICATION ApartSpec
CONSTANTS
  Traces = {t1, t2}
  SpanIds = {a, b}
  Labels = {claude}
  NotLlm = NotLlm
  TokenKinds = {input, output}
  Tokens = {0, 2}
  MaxTime = 2
  DayLength = 2
  NoRow = NoRow
  Limits = {0, 1, 2}
  LabelledSpans = 2
INVARIANTS
  TraceLatestIsNewest
  DailyLlmIsSum
  RollupAgreesWithWalk
  IngestNeverDisturbs
