-------------------------- MODULE MCOmegaSessions --------------------------
(* Two settings of OmegaSession: the one the configuration describes, and   *)
(* one with variables of its own, where every operation is used and the     *)
(* provers' own timeouts are disabled.  One setting moves only while the    *)
(* other is in its initial state.                                           *)
EXTENDS MCOmegaSession

VARIABLES
  erunning, epid, ecount, epc, eop, eq, ewhy, eexn, eoutcome, earmed,
  elast, elive, ezombie, egreeted, epipe, eready

evars == <<erunning, epid, ecount, epc, eop, eq, ewhy, eexn, eoutcome, earmed,
           elast, elive, ezombie, egreeted, epipe, eready>>

Every ==
  INSTANCE OmegaSession
    WITH Ops <- DistinctOps, Interval <- 1, DisTimeout <- TRUE, OcWarning <- FALSE,
         MayDie <- TRUE, OuterTimer <- TRUE, BatchMode <- FALSE, MaxQueries <- 2, MaxStarts <- 2,
         running <- erunning, pid <- epid, count <- ecount, pc <- epc, op <- eop, q <- eq,
         why <- ewhy, exn <- eexn, outcome <- eoutcome, armed <- earmed, last <- elast,
         live <- elive, zombie <- ezombie, greeted <- egreeted, pipe <- epipe, ready <- eready

MCInit == Init /\ Every!Init

MCNext ==
  \/ Every!Init /\ Next /\ UNCHANGED evars
  \/ Init /\ Every!Next /\ UNCHANGED vars

MCSpec == MCInit /\ [][MCNext]_<<vars, evars>> /\ Fairness

\* Whatever the operation, and although several of them let an exception out
\* with the calculator still running, the session stops only its own child and
\* loses track of no calculator it has finished starting.
EveryOpKeepsProcesses == Every!KillsOwnChild /\ Every!NoLostCalculator
=============================================================================
