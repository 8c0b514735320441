----------------------------- MODULE MCMainLoop -----------------------------
(* Two handlers, two signals and two edits of the files.                   *)
EXTENDS MainLoop
=============================================================================
