-------------------------- MODULE MCEvidenceReaders --------------------------
(* Every trace of a few rows, every audio log of a few samples, every patch  *)
(* of a few lines.                                                           *)
EXTENDS EvidenceReaders
MCSteps == {1, 2}
\* refused headers, a ninth token, a run of 18 bytes
MCYaz == {<<8, 6>>, <<10, 12>>, <<20, 6>>}
\* races that are whole, joined late, paused, restarted, and no race
MCNatives ==
    LET F(t, w) == [stage |-> "race", time |-> t, word |-> w]
        menu == [stage |-> "menu", time |-> 0, word |-> 0]
    IN  {<<F(0, u), F(1, v), F(2, w)>> : u \in {0, 1}, v \in {0, 1}, w \in {0, 1}}
        \cup {<<menu, F(1, v), F(2, w)>> : v \in {0, 1}, w \in {0, 1}}
        \cup {<<F(0, 1), F(1, 0), F(1, 1), F(2, 0), menu>>,
              <<F(0, 0), F(1, 0), F(0, 1), F(1, 1)>>, <<menu>>}
\* changed, added, of one line each, and empty hunks
MCDeclared == {<<1, 1>>, <<0, 2>>, <<2, 1>>, <<0, 0>>}
=============================================================================
