---------------------------- MODULE MCSmtSession ----------------------------
(* TLC instances of SmtSession. *)
EXTENDS SmtSession

BothOps == {"check", "model"}
=============================================================================
