----------------------------- MODULE SmtSession -----------------------------
(***************************************************************************)
(* One Z3 kept alive behind a pair of pipes (common/smtsolver.ml), the     *)
(* prover hip and sleek use unless told otherwise.                         *)
(*                                                                         *)
(* The interface is made of lines.  check_formula takes every line longer  *)
(* than 7 characters for a message and the first other one for the verdict *)
(* ("sat", "unsat", "unknown").  get_model and get_unsat_core read the     *)
(* same channel with a parser that gives up at the first token it does not *)
(* know, and whose lexer throws away what it has buffered when it ends.    *)
(* Only the writing of their query is guarded by the timer.                *)
(*                                                                         *)
(* z3_restart_interval is -1 and nothing sets it, so there is no regular   *)
(* restart here; and a new Z3 prints no banner, so starting one does not   *)
(* wait for it.                                                            *)
(***************************************************************************)
EXTENDS Integers, Sequences

CONSTANTS
  Ops,         \* the operations the program uses
  MayDie,      \* may Z3 die by itself (or not be installed)?
  OuterTimer,  \* does the client guard its own work with the same timer?
  MaxQueries   \* bound on the calls the client makes

\* "check" stands for smt_is_sat and smt_imply, "model" for get_model and
\* get_unsat_core.
AllOps == {"check", "model"}

ASSUME SmtAssumption ==
  /\ Ops \subseteq AllOps
  /\ MayDie \in BOOLEAN
  /\ OuterTimer \in BOOLEAN
  /\ MaxQueries \in Nat

VARIABLES
  running,   \* is_z3_running
  alive,     \* does the process in !prover_process live?
  pc,        \* what the program is doing
  op,        \* the operation in progress, or the last one
  q,         \* its number
  seen,      \* has it read a message already?
  outcome,   \* how the last operation ended
  armed,     \* is the interval timer running?
  input,     \* the queries Z3 has not read yet
  output,    \* the lines of Z3 the program has not read yet
  parsed     \* has a reply of this Z3 been read by the parser before?

vars == <<running, alive, pc, op, q, seen, outcome, armed, input, output, parsed>>
proc == <<running, alive, parsed>>
chan == <<input, output>>
call == <<op, q>>

NoOutcome == [kind |-> "none", from |-> 0]

\* What Z3 can reply: a message comes when it finds an error in the query; the
\* verdict of get_model is followed by a model, with short lines around it, or by
\* the message that there is none.
Replies(o) ==
  IF o = "check" THEN {<<"verdict">>, <<"message", "verdict">>}
  ELSE {<<"verdict", "message">>, <<"verdict", "short", "message", "short">>}

Lines(query, texts) == [i \in DOMAIN texts |-> [from |-> query.from, text |-> texts[i]]]

Init ==
  /\ running = FALSE /\ alive = FALSE
  /\ pc = "idle" /\ op = "none" /\ q = 0
  /\ seen = FALSE
  /\ outcome = NoOutcome
  /\ armed = FALSE
  /\ input = <<>> /\ output = <<>>
  /\ parsed = FALSE

-----------------------------------------------------------------------------
(* start, stop and restart.                                                 *)

\* A new process behind new pipes.
Fresh ==
  /\ running' = TRUE /\ alive' = TRUE
  /\ input' = <<>> /\ output' = <<>>
  /\ parsed' = FALSE

\* In stop (), the handler around kill and waitpid swallows a Timeout.
MayLoseAlarm == armed' \in {armed, FALSE}

\* Smtsolver.start and stop, called by the dispatcher.
ClientStart ==
  /\ pc = "idle" /\ ~running
  /\ Fresh
  /\ UNCHANGED <<pc, call, seen, outcome, armed>>

ClientStop ==
  /\ pc = "idle" /\ running
  /\ running' = FALSE /\ alive' = FALSE
  /\ MayLoseAlarm
  /\ UNCHANGED <<pc, call, seen, outcome, chan, parsed>>

ClientTimer ==
  /\ OuterTimer /\ pc = "idle"
  /\ armed' = ~armed
  /\ UNCHANGED <<proc, pc, call, seen, outcome, chan>>

-----------------------------------------------------------------------------
(* check_formula, and push_smt_input for get_model and get_unsat_core.      *)

Call(o) ==
  /\ pc = "idle" /\ q < MaxQueries
  /\ op' = o
  /\ q' = q + 1
  /\ seen' = FALSE
  /\ outcome' = NoOutcome
  /\ pc' = "enter"
  /\ UNCHANGED <<proc, armed, chan>>

Enter ==
  /\ pc = "enter"
  /\ pc' = "send"
  /\ IF running THEN UNCHANGED <<proc, chan>> ELSE Fresh
  /\ UNCHANGED <<call, seen, outcome, armed>>

\* Faulty variant (see "mutants" in PROJECT.json): the timer is not set.
SendUnguarded ==
  /\ pc = "send"
  /\ IF alive THEN pc' = "wait" /\ input' = Append(input, [from |-> q, op |-> op])
     ELSE pc' = "killed" /\ UNCHANGED input
  /\ UNCHANGED <<proc, call, seen, outcome, armed, output>>

\* The timer is set, then the text is written.  The program does not handle
\* SIGPIPE, so a write to a dead Z3 ends it.
Send ==
  /\ pc = "send"
  /\ armed' = TRUE
  /\ IF alive THEN pc' = "wait" /\ input' = Append(input, [from |-> q, op |-> op])
     ELSE pc' = "killed" /\ UNCHANGED input
  /\ UNCHANGED <<proc, call, seen, outcome, output>>

\* Faulty variant: the timer is not cleared.
WrittenArmed ==
  /\ pc = "wait" /\ op = "model"
  /\ pc' = "read"
  /\ UNCHANGED <<proc, call, seen, outcome, armed, chan>>

\* push_smt_input guards the writing only; the reply is read outside.
Written ==
  /\ pc = "wait" /\ op = "model"
  /\ pc' = "read"
  /\ armed' = FALSE
  /\ UNCHANGED <<proc, call, seen, outcome, chan>>

Return(k, f) ==
  /\ pc' = "idle"
  /\ outcome' = [kind |-> k, from |-> f]

\* icollect_output: messages are collected and passed over.
Message ==
  /\ pc = "wait" /\ op = "check"
  /\ output # <<>> /\ Head(output).text = "message"
  /\ output' = Tail(output)
  /\ seen' = TRUE
  /\ UNCHANGED <<proc, pc, call, outcome, armed, input>>

\* The first short line is the result; what is no verdict counts as unknown.
Verdict ==
  /\ pc = "wait" /\ op = "check"
  /\ output # <<>> /\ Head(output).text # "message"
  /\ output' = Tail(output)
  /\ armed' = FALSE
  /\ IF Head(output).text = "verdict" THEN Return("answer", Head(output).from)
     ELSE Return("fallback", 0)
  /\ UNCHANGED <<proc, call, seen, input>>

\* End_of_file: a message already read is "unknown", and without one, or when
\* it says "unexpected", an exception leaves the guarded call and nobody
\* restarts Z3.
EndOfFile ==
  /\ pc = "wait" /\ op = "check" /\ output = <<>> /\ ~alive
  /\ \/ /\ seen
        /\ armed' = FALSE
        /\ Return("fallback", 0)
     \/ /\ Return("raised", 0)
        /\ UNCHANGED armed
  /\ UNCHANGED <<proc, call, seen, chan>>

\* The lexer reads what there is, some lines of it or all.  The parser accepts
\* the whole of a reply that begins with a verdict, or gives up: "no model".
ModelRead ==
  /\ pc = "read" /\ output # <<>>
  /\ \E n \in DOMAIN output :
       /\ output' = SubSeq(output, n + 1, Len(output))
       /\ \/ /\ Head(output).text = "verdict"
             /\ \A i \in n + 1 .. Len(output) : output[i].from # Head(output).from
             /\ Return("answer", Head(output).from)
          \/ Return("fallback", 0)
  /\ parsed' = TRUE
  /\ UNCHANGED <<running, alive, call, seen, armed, input>>

ModelEndOfFile ==
  /\ pc = "read" /\ output = <<>> /\ ~alive
  /\ Return("fallback", 0)
  /\ UNCHANGED <<proc, call, seen, armed, chan>>

-----------------------------------------------------------------------------
(* The timer fires where the program waits.                                 *)

\* Faulty variant: Z3 is not restarted.
TimeoutOnly ==
  /\ armed /\ pc = "wait"
  /\ armed' = FALSE
  /\ IF op = "check" THEN Return("fallback", 0) ELSE pc' = "read" /\ UNCHANGED outcome
  /\ UNCHANGED <<proc, chan, call, seen>>

\* fail_with_timeout restarts Z3; get_model then reads from the new one.
Timeout ==
  /\ armed /\ pc = "wait"
  /\ armed' = FALSE
  /\ Fresh
  /\ IF op = "check" THEN Return("fallback", 0) ELSE pc' = "read" /\ UNCHANGED outcome
  /\ UNCHANGED <<call, seen>>

\* Between two queries it is the client that gets it.
AlarmInClient ==
  /\ armed /\ pc = "idle"
  /\ armed' = FALSE
  /\ UNCHANGED <<proc, pc, call, seen, outcome, chan>>

-----------------------------------------------------------------------------
(* Z3.                                                                      *)

Answer ==
  /\ alive /\ input # <<>>
  /\ \E texts \in Replies(Head(input).op) : output' = output \o Lines(Head(input), texts)
  /\ input' = Tail(input)
  /\ UNCHANGED <<proc, pc, call, seen, outcome, armed>>

Die ==
  /\ MayDie /\ alive /\ pc # "killed"
  /\ alive' = FALSE
  /\ input' = <<>>
  /\ UNCHANGED <<running, pc, call, seen, outcome, armed, output, parsed>>

-----------------------------------------------------------------------------
Client == (\E o \in Ops : Call(o)) \/ ClientStart \/ ClientStop \/ ClientTimer

Program ==
  \/ Enter \/ Send \/ Written \/ Message \/ Verdict \/ EndOfFile
  \/ ModelRead \/ ModelEndOfFile

Alarm == Timeout \/ AlarmInClient

Next == Client \/ Program \/ Alarm \/ Answer \/ Die

\* The program runs and time passes; Z3 need not answer.
Fairness == WF_vars(Program) /\ WF_vars(Alarm)

Spec == Init /\ [][Next]_vars /\ Fairness

-----------------------------------------------------------------------------
Pcs == {"idle", "enter", "send", "wait", "read", "killed"}
Texts == {"message", "verdict", "short"}
Query == [from : Nat, op : AllOps]
Line == [from : Nat, text : Texts]
Outcomes == [kind : {"none", "answer", "fallback", "raised"}, from : Nat]

\* Every variable of the session has its type; Z3 runs only while the program
\* knows of it, and the timer never runs while a model is read.
TypeOK ==
  /\ running \in BOOLEAN /\ alive \in BOOLEAN /\ parsed \in BOOLEAN
  /\ pc \in Pcs /\ op \in AllOps \cup {"none"} /\ q \in Nat
  /\ seen \in BOOLEAN /\ outcome \in Outcomes /\ armed \in BOOLEAN
  /\ input \in Seq(Query) /\ output \in Seq(Line)
  /\ alive => running
  /\ pc = "read" => ~armed

\* "send formula to z3 and receive result": the verdict an operation returns is
\* the one on its own query, never a line that an earlier one has left in the
\* channel (check_formula, get_model).
AnswerIsForQuery == outcome.kind = "answer" => outcome.from = q

\* As long as the parser has not read from this Z3, timeouts, crashes, messages
\* and restarts never put the answers of check_formula out of step; and the
\* first model it reads is the one asked for (check_formula, get_model).
AnswersInStep ==
  [][pc = "wait" \/ pc = "read" =>
       (outcome'.kind = "answer" /\ ~parsed => outcome'.from = q)]_vars

Busy == q > 0 /\ outcome.kind = "none"

\* Every check comes to an end, or ends the program, though Z3 may never answer
\* and an earlier reply may be in its way (check_formula).
ChecksEnd == Busy /\ op = "check" ~> ~Busy \/ pc = "killed"
=============================================================================
