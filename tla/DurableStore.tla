---------------------------- MODULE DurableStore ----------------------------
(***************************************************************************)
(* What wrapper:store promises, whatever happens to the process: its       *)
(* contents after a restart are contents it really had, none older than    *)
(* what a previous restart would have found.                               *)
(***************************************************************************)
EXTENDS Naturals, Sequences

CONSTANTS Contents, Empty

VARIABLE log  \* the contents so far, from the saved one to the current one

Init == log = <<Empty>>

\* A set or delete: new contents, not yet saved.
Change == \E c \in Contents : log' = Append(log, c)

\* Contents log[i] reach the disk: what came before cannot come back.
Save == \E i \in 1..Len(log) : log' = SubSeq(log, i, Len(log))

\* The process ends, however it does, and the next one reads the disk.
Restart == log' = <<Head(log)>>

Next == Change \/ Save \/ Restart

Spec == Init /\ [][Next]_log
=============================================================================
