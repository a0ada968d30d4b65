----------------------------- MODULE MCConsole -----------------------------
(* One command that can be typed, beside the empty line and !reload. *)
EXTENDS Console

MCTexts == {"list"}
=============================================================================
