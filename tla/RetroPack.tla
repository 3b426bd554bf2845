----------------------------- MODULE RetroPack -----------------------------
(***************************************************************************)
(* What the install transaction promises, whatever interrupts it: there is *)
(* one pack, it is replaced in one step, and what the player had saved     *)
(* when the replacement began goes with it.  What is saved while it is     *)
(* under way may go with it or not; and a save that meets no pack at all   *)
(* ends the promise.                                                       *)
(***************************************************************************)
CONSTANTS Save, OldSave, None
VARIABLES
    pack, saves,    \* the pack and what was saved in it
    copied,         \* the saves the replacement under way will bring, or None
    torn            \* the promise has ended

Init ==
    /\ \/ pack = "none" /\ saves = {}
       \/ pack = "old" /\ saves = OldSave
    /\ copied = None /\ torn = FALSE

Begin == /\ copied = None
         /\ copied' = saves
         /\ UNCHANGED <<pack, saves, torn>>

\* an install takes effect: the official release, with the saves copied for it
Replace == /\ copied # None
           /\ pack' = "new" /\ saves' = copied /\ copied' = None
           /\ UNCHANGED torn

Abandon == /\ copied # None
           /\ copied' = None
           /\ UNCHANGED <<pack, saves, torn>>

Play == /\ pack # "none"
        /\ \E s \in Save \ saves :
            /\ saves' = saves \cup {s}
            /\ \/ UNCHANGED copied
               \/ copied # None /\ copied' = copied \cup {s}
        /\ UNCHANGED <<pack, torn>>

\* only a replacement under way leaves a gap for a save to fall in
Tear == copied # None /\ torn' = TRUE

Next == \/ Begin \/ Replace \/ Abandon \/ Play \/ Tear
        \/ torn /\ UNCHANGED torn

Spec == Init /\ [][Next]_<<pack, saves, copied, torn>>
=============================================================================
