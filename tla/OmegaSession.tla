---------------------------- MODULE OmegaSession ----------------------------
(***************************************************************************)
(* One Omega Calculator kept alive behind a pair of pipes                  *)
(* (common/omega.ml), started, stopped and restarted through PrvComms      *)
(* (common/procutils.ml).                                                  *)
(*                                                                         *)
(* hip and sleek are sequential: one query is in progress at a time.  The  *)
(* other actors are the calculator, which answers in its own time or dies, *)
(* and the interval timer, which may fire wherever the program waits.  A   *)
(* timer is left running when a guarded call ends with an exception other  *)
(* than Timeout (module PrvTimer), so it may fire long after the query     *)
(* that set it.                                                            *)
(*                                                                         *)
(* A query is the number of the call that made it, and the answer to it is *)
(* that number again: what the properties need to know of an answer is     *)
(* whose it is.                                                            *)
(***************************************************************************)
EXTENDS Integers, Sequences, FiniteSets

CONSTANTS
  Ops,           \* the operations the program uses
  Interval,      \* omega_restart_interval; -1 by default
  DisTimeout,    \* dis_provers_timeout
  OcWarning,     \* oc_warning: absorb the exceptions of is_sat and is_valid
  MayDie,        \* may the calculator die by itself (or not be installed)?
  OuterTimer,    \* does the client guard its own work with the same timer?
  BatchMode,     \* tp_batch_mode: start once, stop at the end
  MaxQueries,    \* bound on the calls the client makes
  MaxStarts      \* bound on the processes the client itself starts

\* check_formula serves is_sat and is_valid, send_and_receive the others;
\* "hull" stands for hull, gist and pairwisecheck2, which handle nothing.
Checks == {"sat", "valid"}
AllOps == Checks \cup {"simplify", "pairwise", "hull"}

ASSUME SessionAssumption ==
  /\ Ops \subseteq AllOps
  /\ Interval \in Int
  /\ {DisTimeout, OcWarning, MayDie, OuterTimer, BatchMode} \subseteq BOOLEAN
  /\ MaxQueries \in Nat
  /\ MaxStarts \in Nat

VARIABLES
  running,   \* is_omega_running
  pid,       \* !process.pid; 0 before the first start
  count,     \* omega_call_count
  pc,        \* what the program is doing
  op,        \* the operation in progress, or the last one
  q,         \* its number
  why,       \* on whose behalf the calculator is being started or stopped
  exn,       \* the exception being handled
  outcome,   \* how the last operation ended
  armed,     \* is the interval timer running?
  last,      \* the pids handed out so far are 1 .. last
  live,      \* processes running
  zombie,    \* processes dead and not waited for
  greeted,   \* processes whose banner the program has read
  pipe,      \* queries written to pid and not answered on its inchannel
  ready      \* how many of them it has answered: its unread output

prog == <<running, pid, count, op, q>>
procs == <<last, live, zombie, greeted>>
chan == <<pipe, ready>>
vars == <<running, pid, count, pc, op, q, why, exn, outcome, armed,
          last, live, zombie, greeted, pipe, ready>>

NoOutcome == [kind |-> "none", from |-> 0]

Init ==
  /\ running = FALSE /\ pid = 0 /\ count = 0
  /\ pc = "idle" /\ op = "none" /\ q = 0 /\ why = "client"
  /\ exn = "none" /\ outcome = NoOutcome
  /\ armed = FALSE
  /\ last = 0 /\ live = {} /\ zombie = {} /\ greeted = {}
  /\ pipe = <<>> /\ ready = 0

-----------------------------------------------------------------------------
(* The client: hip or sleek, through tpdispatcher.                          *)

\* Is the query of the operation in progress guarded by its own timer?
Guarded == op \notin Checks \/ ~DisTimeout

Call(o) ==
  /\ pc = "idle" /\ q < MaxQueries
  /\ op' = o
  /\ q' = q + 1
  /\ outcome' = NoOutcome
  /\ pc' = "enter"
  /\ UNCHANGED <<running, pid, count, why, exn, armed, procs, chan>>

\* Omega.start_prover and Omega.stop, called by the dispatcher: around the
\* whole run in batch mode, around single queries otherwise.
ClientStart ==
  /\ pc = "idle" /\ ~running /\ last < MaxStarts
  /\ BatchMode => q = 0
  /\ pc' = "spawn" /\ why' = "client"
  /\ UNCHANGED <<prog, exn, outcome, armed, procs, chan>>

ClientStop ==
  /\ pc = "idle" /\ running
  /\ BatchMode => q = MaxQueries
  /\ pc' = "kill" /\ why' = "client stop"
  /\ UNCHANGED <<prog, exn, outcome, armed, procs, chan>>

\* maybe_raise_and_catch_timeout_sleek around the client's own work.
ClientTimer ==
  /\ OuterTimer /\ pc = "idle"
  /\ armed' = ~armed
  /\ UNCHANGED <<prog, pc, why, exn, outcome, procs, chan>>

-----------------------------------------------------------------------------
(* check_formula and send_and_receive, up to the query.                     *)

Start(w) == pc' = "spawn" /\ why' = w
Restart(w) == pc' = "kill" /\ why' = w

\* check_formula looks at the count only when it need not start the process;
\* send_and_receive starts it first and looks at the count in any case.
Enter ==
  /\ pc = "enter"
  /\ \/ ~running /\ Start("start")
     \/ running /\ count = Interval /\ Restart("regular")
     \/ running /\ count # Interval /\ pc' = "send" /\ why' = "query"
  /\ UNCHANGED <<prog, exn, outcome, armed, procs, chan>>

\* incr omega_call_count; the timer is set, then the text is written.  The
\* program does not handle SIGPIPE, so a write to a dead calculator ends it.
Send ==
  /\ pc = "send"
  /\ count' = count + 1
  /\ armed' = (armed \/ Guarded)
  /\ \/ /\ pid \in live
        /\ pipe' = Append(pipe, q)
        /\ pc' = "wait"
     \/ /\ pid \notin live
        /\ pc' = "killed"
        /\ UNCHANGED pipe
  /\ UNCHANGED <<running, pid, op, q, why, exn, outcome, procs, ready>>

Return(k, f) ==
  /\ pc' = "idle"
  /\ exn' = "none"
  /\ outcome' = [kind |-> k, from |-> f]

\* Faulty variant: the answer is looked at and not consumed.
ReceivePeeks ==
  /\ pc = "wait" /\ ready > 0
  /\ pipe' = Tail(pipe)
  /\ armed' = (armed /\ ~Guarded)
  /\ Return("answer", Head(pipe))
  /\ UNCHANGED <<prog, why, procs, ready>>

\* The first complete answer on the channel is taken, and the timer cleared.
Receive ==
  /\ pc = "wait" /\ ready > 0
  /\ pipe' = Tail(pipe)
  /\ ready' = ready - 1
  /\ armed' = (armed /\ ~Guarded)
  /\ Return("answer", Head(pipe))
  /\ UNCHANGED <<prog, why, procs>>

Raise(e) == pc' = "exn" /\ exn' = e

\* The answer is read and Ocparser rejects it, inside the guarded call.
Misparse ==
  /\ pc = "wait" /\ ready > 0 /\ op \notin Checks
  /\ pipe' = Tail(pipe)
  /\ ready' = ready - 1
  /\ Raise("Other")
  /\ UNCHANGED <<prog, why, outcome, armed, procs>>

\* End_of_file: in the middle of a query, or before the banner.
EndOfFile ==
  /\ \/ pc = "wait" /\ ready = 0
     \/ pc = "prelude"
  /\ pid \notin live
  /\ Raise("Eof")
  /\ UNCHANGED <<prog, why, outcome, armed, procs, chan>>

-----------------------------------------------------------------------------
(* PrvComms.start and stop.                                                 *)

\* fork, and set_process: the old pipes are forgotten.
Spawn ==
  /\ pc = "spawn"
  /\ last' = last + 1
  /\ pid' = last + 1
  /\ live' = live \cup {last + 1}
  /\ pipe' = <<>> /\ ready' = 0
  /\ pc' = "prelude"
  /\ UNCHANGED <<running, count, op, q, why, exn, outcome, armed, zombie, greeted>>

\* The banner is read, and is_omega_running set; then whoever wanted the
\* calculator goes on.
Banner ==
  /\ pc = "prelude" /\ pid \in live
  /\ running' = TRUE
  /\ greeted' = greeted \cup {pid}
  /\ count' = IF why = "regular" THEN 0 ELSE count
  /\ \/ /\ why = "client"
        /\ pc' = "idle"
        /\ UNCHANGED <<why, exn, outcome>>
     \/ /\ why \in {"timeout", "recover"}
        /\ Return("fallback", 0)
        /\ UNCHANGED why
     \/ /\ why = "start" /\ op \notin Checks /\ count = Interval
        /\ Restart("regular")
        /\ UNCHANGED <<exn, outcome>>
     \/ /\ \/ why = "regular"
           \/ why = "start" /\ (op \in Checks \/ count # Interval)
        /\ pc' = "send" /\ why' = "query"
        /\ UNCHANGED <<exn, outcome>>
  /\ UNCHANGED <<pid, op, q, armed, last, live, zombie, chan>>

Kill ==
  /\ pc = "kill"
  /\ live' = live \ {pid}
  /\ zombie' = IF pid \in live THEN zombie \cup {pid} ELSE zombie
  /\ pc' = "reap"
  /\ UNCHANGED <<prog, why, exn, outcome, armed, last, greeted, chan>>

\* Faulty variant (see "mutants" in PROJECT.json): is_omega_running is not reset
\* when an operation gives up.
StoppedStillRunning ==
  /\ running' = (why = "give up")
  /\ \/ /\ why \in {"regular", "timeout", "recover"}
        /\ pc' = "spawn"
        /\ UNCHANGED <<exn, outcome>>
     \/ /\ why = "give up"
        /\ Return("fallback", 0)
     \/ /\ why = "client stop"
        /\ pc' = "idle"
        /\ UNCHANGED <<exn, outcome>>
  /\ UNCHANGED <<pid, count, op, q, why, last, live, greeted, chan>>

\* What follows stop (): the second half of a restart, the exception that
\* made the operation give up, or the client.
Stopped ==
  /\ running' = FALSE
  /\ \/ /\ why \in {"regular", "timeout", "recover"}
        /\ pc' = "spawn"
        /\ UNCHANGED <<exn, outcome>>
     \/ /\ why = "give up"
        /\ IF OcWarning THEN Return("fallback", 0) ELSE Return("raised", 0)
     \/ /\ why = "client stop"
        /\ pc' = "idle"
        /\ UNCHANGED <<exn, outcome>>
  /\ UNCHANGED <<pid, count, op, q, why, last, live, greeted, chan>>

Reap ==
  /\ pc = "reap"
  /\ zombie' = zombie \ {pid}
  /\ Stopped
  /\ UNCHANGED armed

-----------------------------------------------------------------------------
(* The timer fires where the program waits.                                 *)

AlarmRaises ==
  /\ armed /\ pc \in {"prelude", "wait"}
  /\ armed' = FALSE
  /\ Raise("Timeout")
  /\ UNCHANGED <<prog, why, outcome, procs, chan>>

\* In stop (), the handler around kill and waitpid swallows the exception.
AlarmSwallowed ==
  /\ armed /\ pc = "reap"
  /\ armed' = FALSE
  /\ Stopped
  /\ UNCHANGED zombie

\* Between two queries it is the client that gets it.
AlarmInClient ==
  /\ armed /\ pc = "idle"
  /\ armed' = FALSE
  /\ UNCHANGED <<prog, pc, why, exn, outcome, procs, chan>>

Alarm == AlarmRaises \/ AlarmSwallowed \/ AlarmInClient

-----------------------------------------------------------------------------
(* The exception handlers, from the inside out.                             *)

Fallback == Return("fallback", 0) /\ UNCHANGED why
Escape == Return("raised", 0) /\ UNCHANGED why

\* restart does nothing unless is_omega_running.
Recover == IF running THEN Restart("recover") /\ UNCHANGED <<exn, outcome>> ELSE Fallback

Handling(o) == pc = "exn" /\ op \in o /\ why # "client"
HandlingDone == UNCHANGED <<prog, armed, procs, chan>>

\* Faulty variant: oc_warning is looked at in is_sat_ops only.
CheckEscapeValid == IF OcWarning /\ op = "sat" THEN Fallback ELSE Escape

\* The wrapper of is_sat_ops and is_valid_ops.
CheckEscape == IF OcWarning THEN Fallback ELSE Escape

\* check_formula's fail_with_timeout.
CheckTimeout ==
  /\ Handling(Checks) /\ why = "query" /\ exn = "Timeout" /\ ~DisTimeout
  /\ Restart("timeout") /\ UNCHANGED <<exn, outcome>>
  /\ HandlingDone

\* is_sat_ops_x and is_valid_ops: End_of_file restarts; what else reaches
\* them stops the calculator and goes on to the wrapper.
CheckEof ==
  /\ Handling(Checks) /\ why # "recover" /\ exn = "Eof"
  /\ Recover
  /\ HandlingDone

CheckGivesUp ==
  /\ Handling(Checks) /\ why # "recover" /\ exn = "Timeout"
  /\ why = "query" => DisTimeout
  /\ IF running THEN Restart("give up") /\ UNCHANGED <<exn, outcome>> ELSE CheckEscape
  /\ HandlingDone

CheckRecoveryFails ==
  /\ Handling(Checks) /\ why = "recover"
  /\ CheckEscape
  /\ HandlingDone

\* Faulty variant: no restart on Timeout.
SimplifyAfterTimeout ==
  /\ Handling({"simplify"})
  /\ IF why # "recover" /\ exn = "Eof" THEN Recover ELSE Fallback
  /\ HandlingDone

\* simplify_ops_x restarts on Timeout and End_of_file only; whatever it lets
\* out, simplify turns into the formula it was given.
Simplify ==
  /\ Handling({"simplify"})
  /\ IF why # "recover" /\ exn \in {"Timeout", "Eof"} THEN Recover ELSE Fallback
  /\ HandlingDone

\* pairwisecheck restarts on End_of_file only.
Pairwise ==
  /\ Handling({"pairwise"})
  /\ IF why # "recover" /\ exn = "Eof" THEN Recover ELSE Escape
  /\ HandlingDone

\* hull, gist and pairwisecheck2 handle nothing.
Unhandled ==
  /\ Handling({"hull"})
  /\ Escape
  /\ HandlingDone

\* Nor does start_prover: the exception goes to whoever started it.
ClientStartFails ==
  /\ pc = "exn" /\ why = "client"
  /\ pc' = "idle" /\ exn' = "none"
  /\ UNCHANGED <<why, outcome>>
  /\ HandlingDone

Handle ==
  \/ CheckTimeout \/ CheckEof \/ CheckGivesUp \/ CheckRecoveryFails
  \/ Simplify \/ Pairwise \/ Unhandled \/ ClientStartFails

-----------------------------------------------------------------------------
(* The calculator.                                                          *)

Answer ==
  /\ pid \in live \cap greeted /\ ready < Len(pipe)
  /\ ready' = ready + 1
  /\ UNCHANGED <<prog, pc, why, exn, outcome, armed, procs, pipe>>

Die(p) ==
  /\ MayDie /\ pc # "killed"
  /\ live' = live \ {p}
  /\ zombie' = zombie \cup {p}
  /\ UNCHANGED <<prog, pc, why, exn, outcome, armed, last, greeted, chan>>

-----------------------------------------------------------------------------
Client == (\E o \in Ops : Call(o)) \/ ClientStart \/ ClientStop \/ ClientTimer

Program ==
  \/ Enter \/ Send \/ Receive \/ Misparse \/ EndOfFile
  \/ Spawn \/ Banner \/ Kill \/ Reap \/ Handle

Next == Client \/ Program \/ Alarm \/ Answer \/ \E p \in live : Die(p)

\* The program runs, a new calculator prints its banner or dies, and time
\* passes; it is never assumed that the calculator answers.
Fairness == WF_vars(Program) /\ WF_vars(Alarm)

Spec == Init /\ [][Next]_vars /\ Fairness

-----------------------------------------------------------------------------
Pcs == {"idle", "enter", "send", "wait", "exn", "spawn", "prelude", "kill", "reap", "killed"}
Whys == {"client", "client stop", "start", "regular", "query", "timeout", "recover", "give up"}
Exns == {"none", "Timeout", "Eof", "Other"}
Outcomes == [kind : {"none", "answer", "fallback", "raised"}, from : Nat]

\* Every variable of the session has its type.
TypeOK ==
  /\ running \in BOOLEAN /\ pid \in Nat /\ count \in Nat
  /\ pc \in Pcs /\ op \in AllOps \cup {"none"} /\ q \in Nat
  /\ why \in Whys /\ exn \in Exns /\ outcome \in Outcomes
  /\ armed \in BOOLEAN
  /\ last \in Nat /\ live \subseteq 1 .. last /\ zombie \subseteq 1 .. last
  /\ greeted \subseteq 1 .. last
  /\ pipe \in Seq(Nat) /\ ready \in 0 .. Len(pipe)

\* An operation that ends with an answer of the calculator ends with the
\* answer to its own query, never with one that was still in the pipe from a
\* query that timed out (check_formula, send_and_receive).
AnswerIsForQuery == outcome.kind = "answer" => outcome.from = q

\* What check_formula promises: "send formula to omega and receive result".
CheckAnswerIsForQuery == op \in Checks => AnswerIsForQuery

\* stop () signals and waits for a child of the program that has not been
\* waited for yet, never a pid the system may have given to someone else
\* (PrvComms.stop, Omega.stop, Omega.restart).
KillsOwnChild == pc \in {"kill", "reap"} => pid \in live \cup zombie

\* A calculator that has been put to use is not lost while it runs: no other
\* process takes its place in !process before it is killed (start_prover,
\* restart and every handler that calls them).
NoLostCalculator == \A p \in live \cap greeted : p = pid

Busy == q > 0 /\ outcome.kind = "none"

Oracle == INSTANCE ProverOracle WITH
  Silent <- {"simplify"} \cup (IF OcWarning THEN Checks ELSE {}),
  status <- IF pc = "killed" THEN "dead" ELSE IF Busy THEN "busy" ELSE "idle",
  asked <- q,
  reply <- outcome

\* What a session promises its client, whatever happens to the calculator: each
\* query gets its own answer, the safe fallback or, where the operation lets
\* one out, an exception; and it gets it in the end though the calculator may
\* never answer.
ImplementsOracle == Oracle!Spec
=============================================================================
