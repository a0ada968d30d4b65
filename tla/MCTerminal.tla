----------------------------- MODULE MCTerminal -----------------------------
(* The main loop and a dispatch task print. *)
EXTENDS Terminal

MCTasks == {"main", "task"}
=============================================================================
