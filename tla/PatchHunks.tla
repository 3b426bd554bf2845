----------------------------- MODULE PatchHunks -----------------------------
(***************************************************************************)
(* scripts/verify-patch-hunks.py: a patch is accepted when every hunk has  *)
(* as many lines as its header declares and no changed line is outside of  *)
(* a hunk.  The script walks through the lines once; a line counts         *)
(* differently inside of a hunk, where a removed "-- " looks like a header *)
(* of a file and an empty line is an empty line of context.                *)
(***************************************************************************)
EXTENDS Integers, Sequences, FiniteSetsExt

CONSTANTS
    Declared,       \* the counts <<old, new>> that hunk headers declare
    MaxPatchLines

ASSUME PatchAssumption == Declared \subseteq Nat \X Nat /\ MaxPatchLines \in Nat

\* what a line starts with; "\\" is the note on a missing newline
Kind == {" ", "", "-", "+", "--- ", "+++ ", "\\", "other"}
Line == [kind : Kind, declared : {<<0, 0>>}] \cup [kind : {"@@"}, declared : Declared]
Old == {" ", "", "-", "--- "}
New == {" ", "", "+", "+++ "}
Stray == {" ", "-", "+"}

VARIABLES
    lines,          \* the lines of the patch so far
    expected,       \* <<expected_old, expected_new>> of the last header
    actual,         \* <<actual_old, actual_new>>
    decision        \* reading, refused, verified

patch == <<lines, expected, actual, decision>>

PatchInit == lines = <<>> /\ expected = <<0, 0>> /\ actual = <<0, 0>> /\ decision = "reading"

Inside == actual # expected

Refuse == decision' = "refused" /\ UNCHANGED <<expected, actual>>

ReadOutside(line) ==
    /\ ~Inside
    /\ IF line.kind \in Stray THEN Refuse
       ELSE /\ IF line.kind = "@@"
               THEN expected' = line.declared /\ actual' = <<0, 0>>
               ELSE UNCHANGED <<expected, actual>>
            /\ UNCHANGED decision

One(kinds, line) == IF line.kind \in kinds THEN 1 ELSE 0

\* mutant of ReadInside: headers of files are headers also in a hunk
ReadInsideHeaders(line) ==
    LET now == <<actual[1] + One(Old \ {"--- "}, line), actual[2] + One(New \ {"+++ "}, line)>>
    IN  /\ Inside
        /\ IF \/ line.kind \in {"@@", "other"}
              \/ now[1] > expected[1] \/ now[2] > expected[2]
           THEN Refuse
           ELSE actual' = now /\ UNCHANGED <<expected, decision>>

\* a line that is none of a hunk's ends it before it is complete
ReadInside(line) ==
    LET now == <<actual[1] + One(Old, line), actual[2] + One(New, line)>>
    IN  /\ Inside
        /\ IF \/ line.kind \in {"@@", "other"}
              \/ now[1] > expected[1] \/ now[2] > expected[2]
           THEN Refuse
           ELSE actual' = now /\ UNCHANGED <<expected, decision>>

ReadPatch(line) ==
    /\ Len(lines) < MaxPatchLines
    /\ lines' = Append(lines, line)
    /\ ReadOutside(line) \/ ReadInside(line)

EndPatch ==
    /\ decision' = IF Inside THEN "refused" ELSE "verified"
    /\ UNCHANGED <<lines, expected, actual>>

PatchNext ==
    /\ decision = "reading"
    /\ (\E line \in Line : ReadPatch(line)) \/ EndPatch

(* ------------------------------ properties ----------------------------- *)

CountOf(kinds, a, b) == Cardinality({i \in a .. b : lines[i].kind \in kinds})

\* where the hunk of the header at h can end
Ends(h) ==
    {e \in h .. Len(lines) :
        /\ <<CountOf(Old, h + 1, e), CountOf(New, h + 1, e)>> = lines[h].declared
        /\ \A i \in h + 1 .. e : lines[i].kind \notin {"@@", "other"}}

Whole ==
    LET headers == {h \in DOMAIN lines : lines[h].kind = "@@"}
    IN  /\ \A h \in headers : Ends(h) # {}
        /\ \A i \in DOMAIN lines : lines[i].kind \in Stray =>
               \E h \in headers : h < i /\ i <= Min(Ends(h))

\* A patch is verified exactly if each of its headers is followed by the
\* lines that it declares, and all changed lines are among those.
PatchIsWhole ==
    /\ decision = "verified" => Whole
    /\ decision = "refused" => ~Whole
=============================================================================
