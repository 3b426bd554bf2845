--------------------------- MODULE TraceComparison ---------------------------
(***************************************************************************)
(* scripts/compare-mkw-state-traces.py: the longest race of a native trace *)
(* is compared word by word with the longest race of the oracle.  The      *)
(* native trace has a row for every frame; Dolphin's MemoryWatcher sends a *)
(* datagram of the values that changed since its last one, so that a row   *)
(* of the oracle is put together from all datagrams before it.             *)
(*                                                                         *)
(* Dolphin is external: a race may be paused, restarted or left, and a     *)
(* datagram may be lost.  One word stands for the seventeen.               *)
(***************************************************************************)
EXTENDS Integers, Sequences, SequencesExt

CONSTANTS
    Natives,        \* native traces
    MaxRaceTime,    \* race times 0 .. MaxRaceTime
    MaxFrames,      \* frames of the oracle that are recorded
    MaxLost,        \* datagrams that are lost
    Unseen          \* a value that no datagram has told

Frame == [stage : {"race"}, time : 0 .. MaxRaceTime, word : {0, 1}]
             \cup [stage : {"menu"}, time : {0}, word : {0}]

ASSUME ComparisonAssumption ==
    /\ Natives \subseteq Seq(Frame)
    /\ MaxRaceTime \in Nat /\ MaxFrames \in Nat /\ MaxLost \in Nat
    /\ Unseen \notin {"race", "menu"} \cup Nat

VARIABLES
    frames,         \* the frames of the oracle's game
    seen,           \* state: the values told by the datagrams
    oracle,         \* rows of the oracle
    lost            \* datagrams that were lost

comparison == <<frames, seen, oracle, lost>>

ComparisonInit ==
    /\ frames = <<>> /\ oracle = <<>> /\ lost = 0
    /\ seen = [stage |-> Unseen, time |-> Unseen, word |-> Unseen]

\* what the watcher knows of the frame before; at the start it takes all for new
Address == {"stage", "time", "word"}
Changed(frame) ==
    IF frames = <<>> THEN Address
    ELSE {a \in Address : frame[a] # frames[Len(frames)][a]}

\* mutant of ReadDatagram: the row is made when its time is read
ReadTimeFirst(frame) ==
    LET now == [a \in Address |-> IF a \in Changed(frame) THEN frame[a] ELSE seen[a]]
    IN  /\ seen' = now
        /\ oracle' = IF "time" \in Changed(frame) /\ \A a \in Address : now[a] # Unseen
                     THEN Append(oracle, [now EXCEPT !.word = seen.word]) ELSE oracle

\* read_oracle: all pairs of the line first, then a row if the time is one of them
ReadDatagram(frame) ==
    LET now == [a \in Address |-> IF a \in Changed(frame) THEN frame[a] ELSE seen[a]]
    IN  /\ seen' = now
        /\ oracle' = IF "time" \in Changed(frame) /\ \A a \in Address : now[a] # Unseen
                     THEN Append(oracle, now) ELSE oracle

WatchFrame(frame) ==
    /\ Len(frames) < MaxFrames
    /\ frames' = Append(frames, frame)
    /\ \/ ReadDatagram(frame) /\ UNCHANGED lost
       \/ lost < MaxLost /\ lost' = lost + 1 /\ UNCHANGED <<seen, oracle>>

ComparisonNext == \E frame \in Frame : WatchFrame(frame)

(* ---------------------------- the comparison --------------------------- *)

\* longest_race_segment, which knows no other step than 1
LongestRace(trace) ==
    LET Extend(run, row) ==
            IF row.stage # "race" THEN <<>>
            ELSE IF run # <<>> /\ row.time # Last(run).time + 1 THEN <<row>>
            ELSE Append(run, row)
        Read(acc, row) ==
            LET run == Extend(acc.current, row)
            IN  [current |-> run,
                 best |-> IF Len(run) > Len(acc.best) THEN run ELSE acc.best]
    IN  FoldLeft(Read, [current |-> <<>>, best |-> <<>>], trace).best

\* main: what the script exits with 0 for; a race has a time once
Matches(native) ==
    LET n == LongestRace(native)
        o == LongestRace(oracle)
        common == {c \in (DOMAIN n) \X (DOMAIN o) : n[c[1]].time = o[c[2]].time}
    IN  /\ n # <<>> /\ o # <<>>
        /\ \A c \in common : n[c[1]].word = o[c[2]].word

(* ------------------------------ properties ----------------------------- *)

\* The rows a .. b of a trace are one race without a gap.
IsRun(trace, a, b) ==
    /\ \A i \in a .. b : trace[i].stage = "race"
    /\ \A i \in a .. b - 1 : trace[i + 1].time = trace[i].time + 1

\* the first of the longest races of a trace, seen as a whole
FirstLongest(trace) ==
    LET runs == {r \in (DOMAIN trace) \X (DOMAIN trace) :
                    r[1] <= r[2] /\ IsRun(trace, r[1], r[2])}
        Before(r, s) == \/ s[2] - s[1] < r[2] - r[1]
                        \/ s[2] - s[1] = r[2] - r[1] /\ r[1] <= s[1]
    IN  IF runs = {} THEN <<>>
        ELSE LET r == CHOOSE r \in runs : \A s \in runs : Before(r, s)
             IN  SubSeq(trace, r[1], r[2])

\* The frames of the game that a new race time begins with.
Ticks ==
    LET new == {i \in DOMAIN frames : i = 1 \/ frames[i].time # frames[i - 1].time}
    IN  [n \in 1 .. Cardinality(new) |->
            frames[CHOOSE i \in new : Cardinality({j \in new : j <= i}) = n]]

\* As long as no datagram was lost, a native trace matches exactly if both
\* have a race, and every frame of the two races that has the same time has
\* the same word in the trace as in the game that Dolphin played.
MatchIsTrue ==
    lost = 0 =>
        LET game == FirstLongest(Ticks)
        IN  \A native \in Natives :
                LET own == FirstLongest(native)
                IN  Matches(native) <=>
                        /\ own # <<>> /\ game # <<>>
                        /\ \A i \in DOMAIN own, j \in DOMAIN game :
                               own[i].time = game[j].time => own[i].word = game[j].word
=============================================================================
