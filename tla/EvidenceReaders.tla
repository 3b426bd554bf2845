--------------------------- MODULE EvidenceReaders ---------------------------
(***************************************************************************)
(* The scripts that turn a run's logs into a verdict read their input once,*)
(* a line at a time: summarize-mkw-state-trace finds the races of a state  *)
(* trace and accepts a completed one, and summarize-audio-queue decides    *)
(* from the last counters of every log whether audio was ever dropped.     *)
(* The readers of ghosts, of two traces, of an Android session and of      *)
(* patches have modules of their own.                                      *)
(*                                                                         *)
(* The recorder is external: it may skip samples, restart a race, stop at  *)
(* any row, and a log may be cut or the counters of two runs be appended   *)
(* to one file.  What a reader concludes is compared with what the rows    *)
(* say when they are looked at all together.                               *)
(***************************************************************************)
EXTENDS GhostInputs, TraceComparison, SessionSignals, PatchHunks

CONSTANTS
    MaxRows,        \* rows of a trace
    MaxTime,        \* race times 0 .. MaxTime
    TimeStep,       \* --race-time-step: 2 for three or four players
    Countdown,      \* the frames of the countdown (240)
    InputFrames,    \* --expected-input-frames
    MaxLogs, MaxSamples, MaxCount

ASSUME ReadersAssumption ==
    /\ MaxRows \in Nat /\ MaxTime \in Nat /\ TimeStep \subseteq {1, 2}
    /\ Countdown \in Nat /\ InputFrames \in Nat /\ Countdown < InputFrames
    /\ MaxLogs \in Nat /\ MaxSamples \in Nat /\ MaxCount \in Nat

Stage == {"menu", "race", "finish"}         \* stage 2, 4 and all others
Row == [stage : {"race"}, time : 0 .. MaxTime] \cup [stage : Stage \ {"race"}, time : {0}]
Sample == [submitted : 0 .. MaxCount, dropped : 0 .. MaxCount]

VARIABLES
    input, step,    \* what is read; the time step of a trace
    rows,           \* the rows of the trace so far
    start, spans,   \* race_segments: the open race, or 0, and the closed ones
    log,            \* the samples of the log that is read
    logs,           \* the last samples of the logs before it
    worst,          \* the most that was dropped in any run that was logged
    status          \* of the audio summary: reading, rejected, clean, dirty

trace == <<input, step, rows, start, spans>>
audio == <<log, logs, worst, status>>
others == <<ghost, comparison, session, patch>>
readers == <<trace, audio, others>>

Length(span) == span[2] - span[1] + 1

ReadersInit ==
    /\ input \in {"trace", "audio", "ghost", "comparison", "session", "patch"}
    /\ step \in IF input = "trace" THEN TimeStep ELSE {1}
    /\ IF input = "ghost" THEN GhostInit \/ LibraryInit ELSE GhostNone
    /\ ComparisonInit /\ SessionInit /\ PatchInit
    /\ rows = <<>> /\ start = 0 /\ spans = <<>>
    /\ log = <<>> /\ logs = <<>> /\ worst = 0 /\ status = "reading"

(* --------------------------- the state trace --------------------------- *)

Follows(row) ==
    /\ rows # <<>>
    /\ LET last == rows[Len(rows)]
       IN  last.stage = "race" /\ row.time = last.time + step

\* mutant of ReadSegment: a gap in the samples does not end the race
ReadLenient(row) ==
    LET index == Len(rows) + 1
    IN  IF row.stage # "race"
        THEN /\ start' = 0
             /\ spans' = IF start = 0 THEN spans ELSE Append(spans, <<start, index - 1>>)
        ELSE start' = (IF start = 0 THEN index ELSE start) /\ spans' = spans

\* race_segments: a race ends at a row of another stage or at a gap in time
ReadSegment(row) ==
    LET index == Len(rows) + 1
        closed == IF start = 0 THEN spans ELSE Append(spans, <<start, index - 1>>)
    IN  IF row.stage = "race" /\ start # 0 /\ Follows(row)
        THEN UNCHANGED <<start, spans>>
        ELSE /\ start' = IF row.stage = "race" THEN index ELSE 0
             /\ spans' = closed

ReadRow(row) ==
    /\ input = "trace" /\ Len(rows) < MaxRows
    /\ rows' = Append(rows, row)
    /\ ReadSegment(row)
    /\ UNCHANGED <<input, step, audio, others>>

Segments == IF start = 0 THEN spans ELSE Append(spans, <<start, Len(rows)>>)

\* A finish anywhere before the next race is the finish of this one.
ReachedFinish(n) ==
    LET next == IF n < Len(Segments) THEN Segments[n + 1][1] ELSE Len(rows) + 1
    IN  \E i \in Segments[n][2] + 1 .. next - 1 : rows[i].stage = "finish"

\* mutant of Exact: only the length of the race is compared
LengthOnly(span) == Length(span) = InputFrames - Countdown
Exact(span) ==
    /\ rows[span[1]].time = Countdown
    /\ rows[span[2]].time = InputFrames - 1
    /\ Length(span) = InputFrames - Countdown

\* require_completion: the first exact race that was completed, or 0
AcceptedSegment ==
    LET good == {n \in 1 .. Len(Segments) : ReachedFinish(n) /\ Exact(Segments[n])}
    IN  IF good = {} THEN 0 ELSE CHOOSE n \in good : \A m \in good : n <= m

(* ---------------------------- the audio logs --------------------------- *)

\* mutant of Monotone: only what was submitted must not shrink
SubmittedOnly(sample) == log = <<>> \/ log[Len(log)].submitted <= sample.submitted
Monotone(sample) ==
    log = <<>> \/ LET last == log[Len(log)]
                  IN  last.submitted <= sample.submitted /\ last.dropped <= sample.dropped

ReadSample(sample) ==
    /\ status = "reading" /\ Len(log) < MaxSamples
    /\ IF Monotone(sample)
       THEN /\ log' = Append(log, sample)
            /\ status' = status
       ELSE /\ status' = "rejected"
            /\ log' = log
    /\ worst' = IF sample.dropped > worst THEN sample.dropped ELSE worst
    /\ UNCHANGED <<trace, logs, others>>

\* A telemetry line that does not parse, or whose range is impossible.
ReadMalformed ==
    /\ status = "reading"
    /\ status' = "rejected"
    /\ UNCHANGED <<trace, log, logs, worst, others>>

NextLog ==
    /\ status = "reading" /\ Len(logs) < MaxLogs
    /\ IF log = <<>>
       THEN status' = "rejected" /\ UNCHANGED <<log, logs>>
       ELSE /\ logs' = Append(logs, log[Len(log)])
            /\ log' = <<>> /\ UNCHANGED status
    /\ UNCHANGED <<trace, worst, others>>

Summarize ==
    /\ status = "reading" /\ logs # <<>> /\ log = <<>>
    /\ status' = IF \A i \in 1 .. Len(logs) : logs[i].dropped = 0
                 THEN "clean" ELSE "dirty"
    /\ UNCHANGED <<trace, log, logs, worst, others>>

ReadersNext ==
    \/ \E row \in Row : ReadRow(row)
    \/ /\ input = "audio"
       /\ \/ \E sample \in Sample : ReadSample(sample)
          \/ ReadMalformed \/ NextLog \/ Summarize
    \/ /\ input = "ghost" /\ GhostNext
       /\ UNCHANGED <<trace, audio, comparison, session, patch>>
    \/ /\ input = "comparison" /\ ComparisonNext
       /\ UNCHANGED <<trace, audio, ghost, session, patch>>
    \/ /\ input = "session" /\ SessionNext
       /\ UNCHANGED <<trace, audio, ghost, comparison, patch>>
    \/ /\ input = "patch" /\ PatchNext
       /\ UNCHANGED <<trace, audio, ghost, comparison, session>>

ReadersSpec == ReadersInit /\ [][ReadersNext]_readers

(* ------------------------------ properties ----------------------------- *)

\* The rows a .. b, seen as a whole, are one race without a gap.
IsRace(a, b) ==
    /\ 1 <= a /\ a <= b /\ b <= Len(rows)
    /\ \A i \in a .. b : rows[i].stage = "race"
    /\ \A i \in a .. b - 1 : rows[i + 1].time = rows[i].time + step

Races == {r \in (1 .. Len(rows)) \X (1 .. Len(rows)) :
             IsRace(r[1], r[2]) /\ ~IsRace(r[1] - 1, r[2]) /\ ~IsRace(r[1], r[2] + 1)}

\* The segments are exactly the longest gapless races of the trace, in their
\* order, and the race that two traces are compared on is the first of the
\* longest of them.
SegmentsAreRaces ==
    LET races == Races
    IN  /\ {Segments[n] : n \in 1 .. Len(Segments)} = races
        /\ \A n \in 2 .. Len(Segments) : Segments[n - 1][2] < Segments[n][1]
        /\ step = 1 => LET best == LongestRace(rows) IN
               \/ races = {} /\ best = <<>>
               \/ \E r \in races :
                      /\ best = SubSeq(rows, r[1], r[2])
                      /\ \A o \in races : \/ Length(o) < Length(r)
                                          \/ Length(o) = Length(r) /\ r[1] <= o[1]

\* A verdict holds of all that was read.  A trace is accepted exactly when
\* one race was sampled in every frame of the input and then finished, not
\* a race that was restarted or joined in the middle; and audio logs are
\* clean only if no line of any of them ever counted a dropped block, also
\* when the counters were set back within a log.  A set of ghosts is accepted
\* exactly if it has one playable ghost of each course.  The verdicts on two
\* traces, an Android session and a patch are defined where they are modelled.
VerdictIsTrue ==
    /\ input = "trace" /\ step = 1 => (AcceptedSegment # 0 <=> \E r \in Races, f \in 1 .. Len(rows) :
           /\ {rows[i].time : i \in r[1] .. r[2]} = Countdown .. InputFrames - 1
           /\ r[2] < f /\ rows[f].stage = "finish"
           /\ \A i \in r[2] + 1 .. f : rows[i].stage # "race")
    /\ status = "clean" => worst = 0
    /\ input = "ghost" => (MatrixAccepted <=> OneGhostPerCourse)
    /\ input = "comparison" => MatchIsTrue
    /\ input = "session" => SignalsAreTrue
    /\ input = "patch" => PatchIsWhole
=============================================================================
