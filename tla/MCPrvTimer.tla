----------------------------- MODULE MCPrvTimer -----------------------------
(* TLC instance of PrvTimer, in two settings that have a timer of their own *)
(* each: flat calls, with the constants of the configuration, and nested    *)
(* ones.  One setting moves only while the other is in its initial state.   *)
EXTENDS PrvTimer

MCFlatLimits == {0, 2, 5}
MCNestedLimits == {0, 1, 3}

VARIABLES ncalls, nphase, ntimer, nhandler, nexn, ncnt, nstray

nvars == <<ncalls, nphase, ntimer, nhandler, nexn, ncnt, nstray>>

Nested ==
  INSTANCE PrvTimer
    WITH Limits <- MCNestedLimits, MaxDepth <- 3, FnRaisesOther <- TRUE, FnCatches <- TRUE,
         SleekCount <- 1,
         calls <- ncalls, phase <- nphase, timer <- ntimer, handler <- nhandler, exn <- nexn,
         cnt <- ncnt, stray <- nstray

MCInit == Init /\ Nested!Init

MCNext ==
  \/ Nested!Init /\ Next /\ UNCHANGED nvars
  \/ Init /\ Nested!Next /\ UNCHANGED vars

MCSpec == MCInit /\ [][MCNext]_<<vars, nvars>> /\ Fairness

\* Timeout is raised only when a guarded call still in progress has used up its
\* limit, also when calls nest and fn raises or swallows what it likes, unless
\* the running timer is one a raising call has left (maybe_raise_timeout).
NestedTimeoutIsDue == Nested!TimeoutIsDue
=============================================================================
