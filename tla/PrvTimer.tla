------------------------------ MODULE PrvTimer ------------------------------
(***************************************************************************)
(* The timed calls of common/procutils.ml, module PrvComms.                *)
(*                                                                         *)
(* maybe_raise_timeout fn arg limit runs fn under a SIGALRM timer.  There  *)
(* is ONE interval timer (ITIMER_REAL) and ONE SIGALRM handler in the      *)
(* process, and guarded calls nest: SLEEK guards a whole entailment        *)
(* (maybe_raise_and_catch_timeout_sleek) and every prover query made on    *)
(* its behalf is guarded again.                                            *)
(*                                                                         *)
(* The state is the stack of guarded calls in progress (innermost last),   *)
(* how far the innermost one has got through the body of                   *)
(* maybe_raise_timeout, the timer, the handler, and the exception being    *)
(* propagated, if any.  A SIGALRM is handled at the step boundary at which *)
(* it falls due, and unwinding takes no time.                              *)
(***************************************************************************)
EXTENDS Integers, Sequences

CONSTANTS
  Limits,         \* the values of limit, in seconds; setitimer takes 0 as "off"
  MaxDepth,       \* bound on the nesting of guarded calls
  FnRaisesOther,  \* may fn raise an exception other than Timeout?
  FnCatches,      \* may fn swallow an exception (a "with _ ->" inside it)?
  SleekCount      \* the initial value of sleek_cnt_timeout_limit

ASSUME TimerAssumption ==
  /\ Limits \subseteq Nat
  /\ MaxDepth \in Nat
  /\ FnRaisesOther \in BOOLEAN
  /\ FnCatches \in BOOLEAN
  /\ SleekCount \in Nat

VARIABLES
  calls,    \* the guarded calls in progress, innermost last
  phase,    \* where the innermost call is (and "run" when there is none)
  timer,    \* seconds until SIGALRM; 0 = disarmed
  handler,  \* what SIGALRM does
  exn,      \* the exception being propagated
  cnt,      \* sleek_cnt_timeout_limit; -1 stands for every negative value
  stray     \* history: was the running timer left by a call that raised?

vars == <<calls, phase, timer, handler, exn, cnt, stray>>

\* maybe_raise_timeout itself, and its two wrappers that catch Timeout.
Kinds == {"raise", "catch", "sleek"}

Handlers == {"default", "raise_timeout"}

\* age: seconds since the call armed the timer, capped at limit + 1.
Call == [kind : Kinds, limit : Limits, old : Handlers, age : Nat]

Top == calls[Len(calls)]

Outer == SubSeq(calls, 1, Len(calls) - 1)

Init ==
  /\ calls = <<>>
  /\ phase = "run"
  /\ timer = 0
  /\ handler = "default"
  /\ exn = "none"
  /\ cnt = SleekCount
  /\ stray = FALSE

(***************************************************************************)
(* Entering: the handler is installed before the timer is set, and the old *)
(* one is remembered.  The SLEEK wrapper calls fn unguarded when its limit *)
(* is not positive.                                                        *)
(***************************************************************************)
Enter(k, l) ==
  /\ exn = "none" /\ phase = "run"
  /\ Len(calls) < MaxDepth
  /\ k = "sleek" => l > 0
  /\ calls' = Append(calls, [kind |-> k, limit |-> l, old |-> handler, age |-> 0])
  /\ handler' = "raise_timeout"
  /\ phase' = "arming"
  /\ UNCHANGED <<timer, exn, cnt, stray>>

\* Faulty variants (see "mutants" in PROJECT.json): the limit off by one, and
\* the timer never set.
SetTimerLate ==
  /\ exn = "none" /\ phase = "arming"
  /\ timer' = IF Top.limit = 0 THEN 0 ELSE Top.limit + 1
  /\ phase' = "run"
  /\ stray' = FALSE
  /\ UNCHANGED <<calls, handler, exn, cnt>>

SetTimerForgotten ==
  /\ exn = "none" /\ phase = "arming"
  /\ phase' = "run"
  /\ UNCHANGED <<calls, timer, handler, exn, cnt, stray>>

\* set_timer limit: overwrites whatever time an enclosing call had left.
SetTimer ==
  /\ exn = "none" /\ phase = "arming"
  /\ timer' = Top.limit
  /\ phase' = "run"
  /\ stray' = FALSE
  /\ UNCHANGED <<calls, handler, exn, cnt>>

FnReturns ==
  /\ exn = "none" /\ phase = "run" /\ calls # <<>>
  /\ phase' = "returned"
  /\ UNCHANGED <<calls, timer, handler, exn, cnt, stray>>

\* Faulty variants: the timer is left running, and reset_sigalrm comes first.
ClearTimerForgotten ==
  /\ exn = "none" /\ phase = "returned"
  /\ phase' = "disarmed"
  /\ UNCHANGED <<calls, timer, handler, exn, cnt, stray>>

ClearTimerLast ==
  /\ exn = "none" /\ phase = "returned"
  /\ handler' = Top.old
  /\ phase' = "disarmed"
  /\ UNCHANGED <<calls, timer, exn, cnt, stray>>

\* set_timer 0.0, still inside the try.
ClearTimer ==
  /\ exn = "none" /\ phase = "returned"
  /\ timer' = 0
  /\ phase' = "disarmed"
  /\ stray' = FALSE
  /\ UNCHANGED <<calls, handler, exn, cnt>>

\* reset_sigalrm (), and the result goes to the caller.
ResetHandler ==
  /\ exn = "none" /\ phase = "disarmed"
  /\ handler' = Top.old
  /\ calls' = Outer
  /\ phase' = "run"
  /\ UNCHANGED <<timer, exn, cnt, stray>>

FnRaises ==
  /\ FnRaisesOther
  /\ exn = "none" /\ phase = "run" /\ calls # <<>>
  /\ exn' = "Other"
  /\ UNCHANGED <<calls, phase, timer, handler, cnt, stray>>

\* One second passes; SIGALRM is delivered when the timer runs out.  With the
\* default disposition it would end the program: AlarmHandled excludes that.
Aged(c) == [c EXCEPT !.age = IF c.age > c.limit THEN c.age ELSE c.age + 1]

\* Faulty variant: a timer that is off counts too.
TickBelowZero ==
  /\ exn = "none"
  /\ timer = 1 => handler = "raise_timeout"
  /\ timer' = timer - 1
  /\ exn' = IF timer = 1 THEN "Timeout" ELSE "none"
  /\ UNCHANGED <<calls, phase, handler, cnt, stray>>

Tick ==
  /\ exn = "none"
  /\ timer = 1 => handler = "raise_timeout"
  /\ calls' = [i \in DOMAIN calls |->
                 IF phase = "arming" /\ i = Len(calls) THEN calls[i] ELSE Aged(calls[i])]
  /\ timer' = IF timer = 0 THEN 0 ELSE timer - 1
  /\ exn' = IF timer = 1 THEN "Timeout" ELSE "none"
  /\ UNCHANGED <<phase, handler, cnt, stray>>

\* The exception leaves the innermost call: neither the timer nor the handler
\* is put back.  The wrappers stop a Timeout; the SLEEK one gives up with a
\* Failure when its countdown reaches exactly 0.
NextCnt == IF cnt < 0 THEN cnt ELSE cnt - 1

Unwind ==
  /\ exn # "none" /\ calls # <<>>
  /\ calls' = Outer
  /\ phase' = "run"
  /\ \/ /\ exn = "Other" \/ Top.kind = "raise"
        /\ UNCHANGED <<exn, cnt>>
     \/ /\ exn = "Timeout" /\ Top.kind = "catch"
        /\ exn' = "none"
        /\ UNCHANGED cnt
     \/ /\ exn = "Timeout" /\ Top.kind = "sleek"
        /\ cnt' = NextCnt
        /\ exn' = IF NextCnt = 0 THEN "Other" ELSE "none"
  /\ stray' = (timer > 0)
  /\ UNCHANGED <<timer, handler>>

\* Code between two guarded calls, or the top level, handles the exception.
Catch ==
  /\ exn # "none" /\ phase = "run"
  /\ calls = <<>> \/ FnCatches
  /\ exn' = "none"
  /\ UNCHANGED <<calls, phase, timer, handler, cnt, stray>>

Next ==
  \/ \E k \in Kinds, l \in Limits : Enter(k, l)
  \/ SetTimer
  \/ FnReturns
  \/ ClearTimer
  \/ ResetHandler
  \/ FnRaises
  \/ Tick
  \/ Unwind
  \/ Catch

\* Time passes and the OCaml code between two waits runs; fn may never return.
Fairness ==
  /\ WF_vars(Tick)
  /\ WF_vars(SetTimer)
  /\ WF_vars(ClearTimer)
  /\ WF_vars(ResetHandler)
  /\ WF_vars(Unwind)

Spec == Init /\ [][Next]_vars /\ Fairness

-----------------------------------------------------------------------------
\* Every variable has its type (the variables of maybe_raise_timeout and of
\* the operating system it sets).
TypeOK ==
  /\ calls \in Seq(Call)
  /\ phase \in {"run", "arming", "returned", "disarmed"}
  /\ timer \in Nat
  /\ handler \in Handlers
  /\ exn \in {"none", "Timeout", "Other"}
  /\ cnt \in Int
  /\ stray \in BOOLEAN

\* A pending alarm always finds a handler that turns it into Timeout: at no
\* point can SIGALRM arrive with the default disposition, which would end hip
\* or sleek.  It rests on the order of Sys.signal, set_timer and reset_sigalrm
\* on every path through maybe_raise_timeout, the exceptional ones included.
AlarmHandled == timer > 0 => handler = "raise_timeout"

\* "If fnc runs for more than tsec seconds, a Timeout exception will be raised.
\* Otherwise, this method returns the result": Timeout is raised only when a
\* guarded call still in progress has used up its limit, unless the timer that
\* runs out is stray: left running by a call whose fn raised something else, and
\* neither set nor cleared since.
TimeoutIsDue ==
  [][exn = "none" /\ exn' = "Timeout" /\ ~stray =>
       \E i \in DOMAIN calls' : calls'[i].age >= calls'[i].limit]_vars

FnRunning(i) == i < Len(calls) \/ phase = "run"

\* The other half of that sentence: no fn guarded with a limit is still running
\* when its limit has passed.
WithinLimit ==
  \A i \in DOMAIN calls :
    FnRunning(i) /\ calls[i].limit > 0 => calls[i].age <= calls[i].limit

\* A guarded call with a limit comes to an end even if fn hangs for ever (a
\* prover that never answers).
CallEnds == calls # <<>> /\ Top.limit > 0 ~> calls = <<>>
=============================================================================
