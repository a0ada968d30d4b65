----------------------------- MODULE MCPlayers -----------------------------
(* One player, and two calls about her. *)
EXTENDS Players

MCNames == {"Ann"}
MCCalls == {"c1", "c2"}
MCOf == [c \in MCCalls |-> "Ann"]
=============================================================================
