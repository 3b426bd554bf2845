----------------------------- MODULE GhostInputs -----------------------------
(***************************************************************************)
(* scripts/inspect-mkw-rkg.py: a ghost's inputs, which are stored as they  *)
(* are or Yaz compressed, are expanded, split into the face, direction and *)
(* trick streams, and counted in frames; a set of ghosts is accepted when  *)
(* it has one consistent ghost of each course.                             *)
(*                                                                         *)
(* The file is external: its compressed bytes are read as tokens that are  *)
(* chosen one at a time, a literal byte or a reference, and the file may   *)
(* end anywhere.  One flag byte comes before every eight tokens.           *)
(***************************************************************************)
EXTENDS Integers, Sequences, FiniteSetsExt

CONSTANTS
    Byte,           \* the bytes of inputs
    Sizes,          \* inputs sizes that headers declare
    Stored,         \* lengths of inputs that are not compressed
    Yaz,            \* compressed ones: what they say to expand to, their bytes
    Courses,        \* courses 0 .. Courses - 1 (32)
    MaxGhosts       \* files of a library

ASSUME GhostAssumption ==
    /\ Byte \subseteq 0 .. 255 /\ Sizes \subseteq Nat /\ Stored \subseteq Nat
    /\ Yaz \subseteq (Nat \ {0}) \X Nat
    /\ Courses \in Nat /\ MaxGhosts \in Nat

VARIABLES
    header,         \* the size of the inputs, the size that Yaz expands to or 0
    left,           \* compressed bytes not read yet
    flags,          \* tokens that the last flag byte still announces
    out,            \* the inputs so far
    tokens,         \* what was read: first position, length, distance, byte
    verdict,        \* none, decoding, expanded, rejected, accepted
    library         \* the summaries of all files

ghost == <<header, left, flags, out, tokens, verdict, library>>

\* frames: the different frame counts of the three streams
Summary == [course : 0 .. Courses, frames : (SUBSET {1, 2}) \ {{}}, empty : BOOLEAN]

GhostNone ==
    /\ header = [inputs |-> 0, expanded |-> 0] /\ left = 0 /\ flags = 0
    /\ out = <<>> /\ tokens = <<>> /\ verdict = "none" /\ library = <<>>

GhostInit ==
    /\ \E size \in Sizes, y \in Yaz \cup {<<0, 0>>} :
           header = [inputs |-> size, expanded |-> y[1]] /\ left = y[2]
    /\ flags = 0 /\ out = <<>> /\ tokens = <<>>
    /\ verdict = "decoding" /\ library = <<>>

\* Any set of files that were read, for the course matrix.
LibraryInit ==
    /\ header = [inputs |-> 0, expanded |-> 0] /\ left = 0 /\ flags = 0
    /\ out = <<>> /\ tokens = <<>> /\ verdict = "none"
    /\ \E n \in 0 .. MaxGhosts : library \in [1 .. n -> Summary]

Reject == verdict' = "rejected" /\ UNCHANGED <<header, left, flags, out, tokens, library>>

(* ------------------------------- decode_yaz ---------------------------- *)

FlagByte == IF flags = 0 THEN 1 ELSE 0
Announced == IF flags = 0 THEN 8 ELSE flags

\* A token of the given bytes that adds some output, which is all written.
ReadToken(bytes, first, length, distance, byte, output) ==
    /\ left' = left - FlagByte - bytes
    /\ flags' = Announced - 1
    /\ out' = output
    /\ tokens' = Append(tokens, [first |-> first, length |-> length,
                                 distance |-> distance, byte |-> byte])
    /\ UNCHANGED <<header, verdict, library>>

Expanding == verdict = "decoding" /\ Len(out) < header.expanded

Literal(byte) ==
    /\ Expanding
    /\ IF left < FlagByte + 1 THEN Reject
       ELSE ReadToken(1, Len(out) + 1, 1, 0, byte, Append(out, byte))

\* mutant of CopyRun: a slice, which ends where the output ended
CopySlice(output, distance, count) ==
    LET last == Len(output) - distance + count
    IN  output \o SubSeq(output, Len(output) - distance + 1,
                         IF last < Len(output) THEN last ELSE Len(output))

\* Byte by byte, so that a run may repeat bytes that it has just written.
CopyRun(output, distance, count) ==
    LET run[k \in 0 .. count] ==
            IF k = 0 THEN output
            ELSE LET before == run[k - 1]
                 IN  Append(before, before[Len(before) + 1 - distance])
    IN  run[count]

\* Lengths 3 .. 17 are in the two bytes of a reference, longer ones take a
\* third byte.
Reference(distance, count) ==
    LET bytes == IF count > 17 THEN 3 ELSE 2
    IN  /\ Expanding
        /\ IF \/ left < FlagByte + bytes
              \/ distance > Len(out)
              \/ Len(out) + count > header.expanded
           THEN Reject
           ELSE ReadToken(bytes, Len(out) + 1, count, distance, 0,
                      CopyRun(out, distance, count))

Expanded ==
    /\ verdict = "decoding" /\ header.expanded > 0 /\ Len(out) = header.expanded
    /\ verdict' = "expanded"
    /\ UNCHANGED <<header, left, flags, out, tokens, library>>

\* Not compressed: the inputs follow the header, or the file ends before.
ReadStored(bytes) ==
    /\ verdict = "decoding" /\ header.expanded = 0
    /\ IF Len(bytes) # header.inputs THEN Reject
       ELSE /\ out' = bytes /\ verdict' = "expanded"
            /\ UNCHANGED <<header, left, flags, tokens, library>>

(* ------------------------- the table and the streams ------------------- *)

Word(i) == 256 * out[i] + out[i + 1]
Counts == <<Word(1), Word(3), Word(5)>>
StreamStart(n) == 9 + 2 * (IF n = 1 THEN 0 ELSE IF n = 2 THEN Counts[1]
                           ELSE Counts[1] + Counts[2])
Records(n) == {StreamStart(n) + 2 * k : k \in 0 .. Counts[n] - 1}

\* A record of length 0 counts as a frame.
FramesOf(n) ==
    LET frames(i) == IF n = 3 THEN Word(i) % 4096 ELSE out[i + 1]
    IN  MapThenSumSet(LAMBDA i : IF frames(i) = 0 THEN 1 ELSE frames(i), Records(n))

\* mutant of Fits: a table that leaves bytes over is accepted
Covers == 8 + 2 * (Counts[1] + Counts[2] + Counts[3]) <= Len(out)
Fits == 8 + 2 * (Counts[1] + Counts[2] + Counts[3]) = Len(out)

Inspect ==
    /\ verdict = "expanded"
    /\ IF Len(out) = header.inputs /\ Len(out) >= 8 /\ Fits
       THEN /\ verdict' = "accepted"
            /\ UNCHANGED <<header, left, flags, out, tokens, library>>
       ELSE Reject

(* --------------------------- the course matrix ------------------------- *)

MatrixAccepted ==
    LET observed == {library[n].course : n \in DOMAIN library}
    IN  /\ Len(library) = Courses
        /\ \A m, n \in DOMAIN library : library[m].course = library[n].course => m = n
        /\ 0 .. Courses - 1 \subseteq observed
        /\ observed \subseteq 0 .. Courses - 1
        /\ \A n \in DOMAIN library :
               ~library[n].empty /\ Cardinality(library[n].frames) = 1

GhostNext ==
    \/ \E byte \in Byte : Literal(byte)
    \/ \E distance \in 1 .. Len(out) + 1, count \in 3 .. header.expanded + 1 :
           Reference(distance, count)
    \/ \E size \in Stored : \E bytes \in [1 .. size -> Byte] : ReadStored(bytes)
    \/ Expanded \/ Inspect

(* ------------------------------ properties ----------------------------- *)

TokenBytes(t) == IF t.distance = 0 THEN 1 ELSE IF t.length > 17 THEN 3 ELSE 2

\* What was expanded is what all tokens together say, however they overlap:
\* they cover the output without a gap, every byte is its literal or the byte
\* that many places before it in the final output, and the bytes read are the
\* tokens' own and a flag byte for every eight of them.  And the streams of
\* accepted inputs are disjoint and leave nothing of them over.
InputsAreExact ==
    /\ tokens # <<>> =>
        /\ Len(out) = MapThenSumSet(LAMBDA n : tokens[n].length, DOMAIN tokens)
        /\ \A n \in DOMAIN tokens : LET t == tokens[n] IN
            /\ t.first = 1 + MapThenSumSet(LAMBDA m : tokens[m].length, 1 .. n - 1)
            /\ \A i \in t.first .. t.first + t.length - 1 :
                   out[i] = IF t.distance = 0 THEN t.byte ELSE out[i - t.distance]
        /\ left + MapThenSumSet(LAMBDA n : TokenBytes(tokens[n]), DOMAIN tokens)
                + (Len(tokens) + 7) \div 8 \in {y[2] : y \in Yaz}
    /\ verdict = "accepted" =>
        /\ {i \in 9 .. Len(out) : i % 2 = 1} = Records(1) \cup Records(2) \cup Records(3)
        /\ Len(out) = 8 + 2 * (Counts[1] + Counts[2] + Counts[3])
        /\ \A n \in 1 .. 3 : FramesOf(n) >= Counts[n]

\* The library is playable: each course has one ghost, whose streams end
\* together, and there is no other file.
OneGhostPerCourse ==
    /\ \A c \in 0 .. Courses - 1 : \E n \in DOMAIN library :
           /\ library[n].course = c
           /\ \A m \in DOMAIN library \ {n} : library[m].course # c
    /\ \A n \in DOMAIN library :
           /\ library[n].course < Courses /\ ~library[n].empty
           /\ \E f \in 1 .. 2 : library[n].frames = {f}
=============================================================================
