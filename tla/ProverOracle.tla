---------------------------- MODULE ProverOracle ----------------------------
(***************************************************************************)
(* What a prover session promises the code that calls it: a query is       *)
(* replied to once, with the prover's answer to that very query, with the  *)
(* fallback that is safe for the operation ("satisfiable", "not valid",    *)
(* "the formula itself"), or with an exception.  The operations in Silent  *)
(* never let an exception out.                                             *)
(***************************************************************************)
EXTENDS Naturals

CONSTANTS Ops, Silent

VARIABLES
  status,   \* "idle", "busy", or "dead" when the whole program has ended
  op,       \* the operation asked for last
  asked,    \* its number
  reply     \* what it was replied

vars == <<status, op, asked, reply>>

NoReply == [kind |-> "none", from |-> 0]

Init ==
  /\ status = "idle"
  /\ op = "none"
  /\ asked = 0
  /\ reply = NoReply

Ask ==
  /\ status = "idle"
  /\ status' = "busy"
  /\ op' \in Ops
  /\ asked' = asked + 1
  /\ reply' = NoReply

Replies ==
  {[kind |-> "answer", from |-> asked], [kind |-> "fallback", from |-> 0]}
    \cup (IF op \in Silent THEN {} ELSE {[kind |-> "raised", from |-> 0]})

Reply ==
  /\ status = "busy"
  /\ status' = "idle"
  /\ reply' \in Replies
  /\ UNCHANGED <<op, asked>>

End ==
  /\ status # "dead"
  /\ status' = "dead"
  /\ UNCHANGED <<op, asked, reply>>

Next == Ask \/ Reply \/ End

Spec == Init /\ [][Next]_vars /\ WF_vars(Reply)
=============================================================================
