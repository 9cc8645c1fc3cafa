----------------------------- MODULE MCRequests -----------------------------
(***************************************************************************)
(* What a client sends and what it is answered: the metric rollups as they *)
(* are written, and beside them, each alone, the conversion of an export,  *)
(* the views over metrics, events and timings, the filters, the structured *)
(* queries and the listings of logs, traces and sessions, pure functions   *)
(* of an input that nothing changes.                                       *)
(***************************************************************************)
EXTENDS MetricRollups

CONSTANTS claude, NaN, Absent, NoInput

VARIABLES part, input

requestVars == <<part, vars, input>>

N == INSTANCE Conversion WITH
        Word <- 16, Exact <- 4, MaxItems <- 2, MaxBucketCount <- 1,
        Severities <- {0, 1, 4, 5, 8, 9, 12, 13, 16, 17, 20, 21, 24, 25},
        Names <- {"a", "b"}, MaxTime <- 2, MaxRows <- 2, Sizes <- 1..2,
        Values <- {[kind |-> "number", n |-> -1, count |-> 1], [kind |-> "number", n |-> 2, count |-> 1],
                   [kind |-> "histogram", n |-> 3, count |-> 2], [kind |-> "histogram", n |-> 0, count |-> 0]},
        MaxBound <- 5, MaxObserved <- 6, MaxObservations <- 4
F == INSTANCE Filters WITH
        Values <- {"x", "y"}, Letters <- {"a", "A", "b"}, MaxLength <- 4,
        Inner <- {"f", "and", "&&", "=", "contains", "q"}, Numbers <- -1..1,
        Milliseconds <- {0, 1, 500}, NsPerMs <- 1000000
L == INSTANCE Listing WITH
        LastTime <- 3, Levels <- {"INFO", "FATAL"}, Asked <- {Absent, "BOGUS", "WARN", "FATAL"},
        Limits <- 0..2, Offsets <- 0..2, Cap <- 1, ExportCap <- 2, DefaultLimit <- 1,
        SpanTimes <- 0..1, MaxSpans <- 3, SpanCap <- 2, Sampled <- 1

E == INSTANCE Endpoints WITH
        Second <- 10, MaxInt <- 127, DefaultBucket <- 6, MinBucket <- 2, MaxBucket <- 12, Month <- 30,
        Now <- 40, OneDay <- 1, Counts <- {0, 1, 7, 50, 2000, Absent}, Buckets <- {0, 1, 12, 13, 20, Absent}
G == INSTANCE Evidence WITH
        Models <- Names, Depth <- 2, Limits <- 2..3, MinSamples <- 2, MaxSpans <- 3
K == INSTANCE EventViews WITH
        Labels <- {"a", "b"}, Tops <- 1, DayLength <- 1, MaxTime <- 1, MaxRows <- 3,
        Models <- {claude}, BucketLength <- 1, MinSamples <- 10
S == INSTANCE Sessions WITH
        MaxSpans <- 3, Limits <- 0..2, ListCap <- 3, SessionCap <- 3, MaxRows <- 2

RequestsInit ==
    \/ part = "rollups"    /\ InitUpgraded /\ input = NoInput
    \/ /\ Init
       /\ \/ part = "export"     /\ N!Init
          \/ part = "metrics"    /\ N!RequestInit
          \/ part = "histograms" /\ N!HistogramInit
          \/ part = "filters"    /\ F!FilterInit
          \/ part = "patterns"   /\ F!PatternInit
          \/ part = "texts"      /\ F!TextInit
          \/ part = "predicates" /\ F!RowInit
          \/ part = "logs"       /\ L!LogsInit
          \/ part = "trace"      /\ L!DetailInit
          \/ part = "traces"     /\ L!TracesInit
          \/ part = "endpoints"  /\ E!RequestInit
          \/ part = "commands"   /\ E!CommandInit
          \/ part = "evidence"   /\ G!Init
          \/ part = "events"     /\ K!Init
          \/ part = "timings"    /\ K!TimingInit
          \/ part = "sessions"   /\ S!ListInit
          \/ part = "context"    /\ S!ContextInit
RequestsNext == part = "rollups" /\ Next /\ UNCHANGED <<part, input>>
RequestsSpec == RequestsInit /\ [][RequestsNext]_requestVars

\* What a client sent is stored or answered as left out, and what is stored reads back:
\* points, spans and levels of an export; the views over metric rows agree with each
\* other, and a histogram expands to as many observations as it counted.  The views over
\* events count each once where they should, and the views over durations count the same
\* requests.
ExportsAnswered ==
    /\ part = "export"     => N!DropsAreAnswered /\ N!SpansAreAnswered /\ N!LevelsAreRanges
    /\ part = "metrics"    => N!AggregatesAgree
    /\ part = "histograms" => N!ExpansionKeepsMass
    /\ part = "events" =>
        /\ K!ToolUseIsCounted /\ K!ApprovalsAddUp
        /\ K!EventSidesAgree  /\ K!SubagentsAgree
    /\ part = "timings" =>
        /\ K!LatencyViewsAgree  /\ K!ComparisonCoversRequests
        /\ K!RanksAreNeighbours /\ K!IdleWithinTurns /\ K!HooksAddUp

\* The rows that a filter selects carry what the answer says was applied; a pattern of
\* models matches alike in the storage and in the command line; a structured query
\* reaches the server as it was parsed, and numbers compare as numbers.  The usage
\* endpoints apply what they echo, over one window, with buckets they can divide by, and
\* answer the shape their clients decode; the command line and the terminal dashboard
\* read what the endpoints read.  A request of an agent is recognised by one signature,
\* and the statements that filter requests find it; what its usage spans say is counted
\* for it once.
FiltersAgree ==
    /\ part = "filters"    => F!ScopesHoldWhatTheyEcho
    /\ part = "patterns"   => F!PatternsAgree
    /\ part = "texts"      => F!WireKeepsPredicates
    /\ part = "predicates" => F!NumbersCompareAsNumbers
    /\ part = "endpoints"  => E!RepliesHoldWhatTheyEcho /\ E!BucketsPositive /\ E!ShapesMatch
    /\ part = "commands"   => E!PanelsMatchEndpoints /\ E!TuiNeverRefused
    /\ part = "evidence" =>
        /\ G!LockStep         /\ G!RequiredSuffice    /\ G!RecognisedIsMeasured
        /\ G!UsageCountedOnce /\ G!ReliableMeansEvery /\ G!SampleIsEnough

\* A page is what its limit and offset say of the newest matches, what is listed is what
\* is exported and opens, and a trace opens to what its row showed.  A session is listed
\* as it is diagnosed, a cut list has the newest, and the timeline of a session is the
\* earliest of all that is stored of it.
ListingsAgree ==
    /\ part = "logs"   => L!LogListsAgree /\ (input.level = Absent /\ input.offset = 0 => L!PagesContinue)
    /\ part = "trace"  => L!TraceMatchesItsRow
    /\ part = "traces" => L!TraceExportsAgree
    /\ part = "sessions" => S!ListMatchesDiagnosis /\ S!CutListIsNewest
    /\ part = "context"  => S!TimelineIsEarliest   /\ S!FoundWhateverTheLimit

\* What filters.rs says of its dimensions, "session via `session.id`": a filter by
\* session selects the spans of the session.
SessionFilterSelects == part = "filters" => F!SessionFilterSelects

\* What conversion.rs says of telemetry that cannot be stored, "never silently dropped,
\* and never asserted stored": what was fully accepted can be read.
AcceptedPointsRead == part = "export" => N!AcceptedPointsRead
=============================================================================
