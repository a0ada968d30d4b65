----------------------------- MODULE MCDispatch -----------------------------
(* One plugin; a line for a join, one for the end of the startup, and one that
   is not text. *)
EXTENDS Dispatch

Reg1(list) == [list |-> list, key |-> list]
MCKeys == {"r", "triggers", "stop", "crash", "cron", "join", "leave", "start"}
MCPlugins == {"p"}
MCScript == [p |-> <<Reg1("start"), Reg1("join")>>]
MCLines == {"joined", "done", "junk"}
MCMatches == [joined |-> {"join", "r"}, done |-> {"r", "up"}, junk |-> {}]
MCPatterns == {"up"}

\* For the liveness run: a trigger, a cron job and callbacks for the exit.
LiveScript == [p |-> <<[list |-> "triggers", key |-> "r"], Reg1("cron"), Reg1("stop")>>]
LiveLines == {"left"}
LiveMatches == [left |-> {"leave", "r"}]

MCLate == {[list |-> "triggers", key |-> "r"]}
=============================================================================
