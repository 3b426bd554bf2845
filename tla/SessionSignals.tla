---------------------------- MODULE SessionSignals ----------------------------
(***************************************************************************)
(* scripts/summarize-android-a2-session.py: the lines that a session of    *)
(* the Android app leaves in the log are counted, in whatever order they   *)
(* come, and the counts decide whether the automated signals are complete. *)
(*                                                                         *)
(* The app is external (its lines are written by SDL and the runtime): it  *)
(* pauses, loses its surface before or after the pause, regains it while   *)
(* paused, and resumes; it may be killed and launched again while the log  *)
(* goes on.                                                                *)
(***************************************************************************)
EXTENDS Integers

CONSTANT MaxLines   \* lines of one kind in a log

ASSUME SignalsAssumption == MaxLines \in Nat

Signal == {"playback", "audible", "connected", "created", "destroyed", "paused", "resumed",
           "suspended", "unsuspended", "fatal"}

VARIABLES
    app,            \* stopped, running or paused
    surface,        \* it has a surface
    gamepads,       \* its gamepads are active
    launches,
    cycle,          \* how far one process got: the surface destroyed, created
                    \* again, and the app resumed on it (1, 2, 3)
    count,          \* count[m]: lines of the log that show m
    submitted,      \* most_advanced: the most bytes of the queue samples, or -1
    capture         \* reading, refused

session == <<app, surface, gamepads, launches, cycle, count, submitted, capture>>

SessionInit ==
    /\ app = "stopped" /\ surface = FALSE /\ gamepads = FALSE
    /\ launches = 0 /\ cycle = 0
    /\ count = [m \in Signal |-> 0]
    /\ submitted = -1 /\ capture = "reading"

\* one line of the log
ReadLine(m) == count[m] < MaxLines /\ count' = [count EXCEPT ![m] = @ + 1]

(* --------------------------- the app, external ------------------------- *)

Launch ==
    /\ app = "stopped" /\ app' = "running"
    /\ surface' = TRUE /\ gamepads' = TRUE /\ launches' = launches + 1
    /\ cycle' = IF cycle = 3 THEN 3 ELSE 0
    /\ ReadLine("created")
    /\ UNCHANGED submitted

Kill ==
    /\ app # "stopped" /\ app' = "stopped"
    /\ surface' = FALSE /\ gamepads' = FALSE
    /\ UNCHANGED <<launches, cycle, count, submitted>>

Pause ==
    /\ app = "running" /\ app' = "paused"
    /\ ReadLine("paused")
    /\ UNCHANGED <<surface, gamepads, launches, cycle, submitted>>

\* surfaceDestroyed() is logged before the pause it leads to, or after one
LoseSurface ==
    /\ app # "stopped" /\ surface /\ surface' = FALSE
    /\ cycle' = IF cycle = 0 THEN 1 ELSE cycle
    /\ ReadLine("destroyed")
    /\ UNCHANGED <<app, gamepads, launches, submitted>>

RegainSurface ==
    /\ app = "paused" /\ ~surface /\ surface' = TRUE
    /\ cycle' = IF cycle = 1 THEN 2 ELSE cycle
    /\ ReadLine("created")
    /\ UNCHANGED <<app, gamepads, launches, submitted>>

Resume ==
    /\ app = "paused" /\ surface /\ app' = "running"
    /\ cycle' = IF cycle = 2 THEN 3 ELSE cycle
    /\ ReadLine("resumed")
    /\ UNCHANGED <<surface, gamepads, launches, submitted>>

\* the runtime hears of the pause or the resume a while after it
TurnGamepads ==
    /\ app # "stopped" /\ gamepads = (app = "paused") /\ gamepads' = ~gamepads
    /\ ReadLine(IF gamepads THEN "suspended" ELSE "unsuspended")
    /\ UNCHANGED <<app, surface, launches, cycle, submitted>>

\* the other lines, of which only the first tells anything
Report(m) ==
    /\ app # "stopped" /\ count[m] = 0 /\ ReadLine(m)
    /\ UNCHANGED <<app, surface, gamepads, launches, cycle, submitted>>

(* ------------------------------ the summary ---------------------------- *)

\* a queue sample: the most advanced one so far is kept
ReadQueue(bytes) ==
    /\ app # "stopped"
    /\ submitted' = IF bytes > submitted THEN bytes ELSE submitted
    /\ UNCHANGED <<app, surface, gamepads, launches, cycle, count>>

\* a sample that does not parse, or that cannot be: there is no summary
RefuseQueue ==
    /\ app # "stopped" /\ capture' = "refused"
    /\ UNCHANGED <<app, surface, gamepads, launches, cycle, count, submitted>>

SessionNext ==
    /\ capture = "reading"
    /\ \/ /\ UNCHANGED capture
          /\ \/ Launch \/ Kill \/ Pause \/ LoseSurface \/ RegainSurface \/ Resume
             \/ TurnGamepads
             \/ \E m \in {"playback", "audible", "connected", "fatal"} : Report(m)
             \/ \E bytes \in {0, 1} : ReadQueue(bytes)
       \/ RefuseQueue

Once == {"playback", "audible", "connected", "destroyed", "paused", "resumed",
         "suspended", "unsuspended"}

\* mutant of SignalsComplete: one created surface is enough
OneSurface ==
    /\ capture = "reading" /\ submitted > 0
    /\ \A m \in Once \cup {"created"} : count[m] > 0
    /\ count["fatal"] = 0

\* automated_signal_matrix_passed
SignalsComplete ==
    /\ capture = "reading" /\ submitted > 0
    /\ \A m \in Once : count[m] > 0
    /\ count["created"] >= 2 /\ count["fatal"] = 0

(* ------------------------------ properties ----------------------------- *)

\* In the log of one process the counts say what they are counted for: it
\* was paused and resumed, its surface was destroyed and another one made,
\* and it played; and every log in which one process went through the cycle
\* and gave all the other signals passes.
SignalsAreTrue ==
    /\ SignalsComplete /\ launches = 1 => cycle >= 2
    /\ (/\ capture = "reading" /\ cycle = 3 /\ submitted > 0 /\ count["fatal"] = 0
        /\ \A m \in Once \ {"destroyed", "paused", "resumed"} : count[m] > 0) => SignalsComplete

\* What docs/artifacts/2026-09-04/android/a2-runtime-signal-sanitizer.md says
\* a strict pass requires, "one complete surface pause/resume cycle".  It does
\* not: the resume may belong to a pause before, and the surfaces to two
\* launches.
MatrixIsOneCycle == SignalsComplete => cycle = 3
=============================================================================
