----------------------------- MODULE MCSettings -----------------------------
(* The built-in event and one of the user's; a password that is written as it
   is, and one that is escaped. *)
EXTENDS Settings

MCEvents == {"start", "backup"}
MCPasswords == {"secret", "p=w"}
MCSpecial == {"p=w"}
=============================================================================
