------------------------- MODULE MCArchiveDownload -------------------------
(* Instances of ArchiveDownload: one execution at a time, or two.           *)
EXTENDS ArchiveDownload
CONSTANTS E1, E2
=============================================================================
