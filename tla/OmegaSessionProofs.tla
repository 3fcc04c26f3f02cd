------------------------- MODULE OmegaSessionProofs -------------------------
(***************************************************************************)
(* What holds of an Omega session for every restart interval, every number *)
(* of queries and processes, and every value of the flags.                 *)
(***************************************************************************)
EXTENDS OmegaSession, SequenceTheorems, TLAPS

\* What the program is doing fits is_omega_running and the reason it is doing
\* it: it writes and reads only while the calculator runs, on behalf of a
\* query; it kills only a running one; it starts one only when none runs.
Control ==
  /\ pc \in {"send", "wait"} => running /\ why = "query"
  /\ pc \in {"kill", "reap"} =>
       running /\ why \in {"regular", "timeout", "recover", "give up", "client stop"}
  /\ pc \in {"spawn", "prelude"} =>
       ~running /\ why \in {"client", "start", "regular", "timeout", "recover"}
  /\ pc = "exn" /\ why = "query" => running
  /\ pc = "exn" /\ why = "client" => ~running
  /\ pc = "exn" => exn # "none"

\* is_omega_running says that !process is a child not waited for, and the only
\* greeted process that is alive; after SIGKILL it is not alive.
Children ==
  /\ running => pid \in live \cup zombie
  /\ pc = "reap" => pid \notin live
  /\ \A p \in live \cap greeted : p = pid /\ running

ProcessInv == TypeOK /\ Control /\ Children

-----------------------------------------------------------------------------
LEMMA ProcessInit ==
  ASSUME Init
  PROVE  ProcessInv
<1>1. pipe \in Seq(Nat) /\ Len(pipe) = 0
  BY EmptySeq DEF Init
<1>2. TypeOK
  <2>1. outcome \in Outcomes
    BY DEF Init, NoOutcome, Outcomes, Exns
  <2>2. pc \in Pcs /\ why \in Whys /\ exn \in Exns
    BY DEF Init, Pcs, Whys, Exns
  <2>3. live \subseteq 1 .. last /\ zombie \subseteq 1 .. last /\ greeted \subseteq 1 .. last
    BY DEF Init
  <2>4. ready \in 0 .. Len(pipe)
    BY <1>1 DEF Init
  <2>5. op \in AllOps \cup {"none"}
    BY DEF Init
  <2>6. /\ running \in BOOLEAN /\ armed \in BOOLEAN
        /\ pid \in Nat /\ count \in Nat /\ q \in Nat /\ last \in Nat
    BY DEF Init
  <2>7. QED
    BY <1>1, <2>1, <2>2, <2>3, <2>4, <2>5, <2>6 DEF TypeOK
<1>3. Control /\ Children
  BY DEF Init, Control, Children
<1>4. QED
  BY <1>2, <1>3 DEF ProcessInv

\* The end of an operation.
LEMMA ReturnType ==
  ASSUME NEW k \in {"none", "answer", "fallback", "raised"}, NEW f \in Nat,
         Return(k, f)
  PROVE  pc' \in Pcs /\ exn' \in Exns /\ outcome' \in Outcomes
<1>1. pc' \in Pcs /\ exn' \in Exns
  BY DEF Return, Pcs, Exns
<1>2. outcome' \in Outcomes
  BY DEF Return, Outcomes
<1>3. QED
  BY <1>1, <1>2

\* The client.
LEMMA ClientType ==
  ASSUME SessionAssumption, TypeOK, Client
  PROVE  TypeOK'
<1>1. ASSUME NEW o \in Ops, Call(o)
      PROVE  TypeOK'
  BY <1>1 DEF SessionAssumption, Call, TypeOK, procs, chan, NoOutcome, Outcomes, Pcs, Exns
<1>2. CASE ClientStart
  BY <1>2 DEF ClientStart, TypeOK, prog, procs, chan, Pcs, Whys
<1>3. CASE ClientStop
  BY <1>3 DEF ClientStop, TypeOK, prog, procs, chan, Pcs, Whys
<1>4. CASE ClientTimer
  BY <1>4 DEF ClientTimer, TypeOK, prog, procs, chan
<1>5. QED
  BY <1>1, <1>2, <1>3, <1>4 DEF Client

\* Handlers end an operation, let it be or go on to a restart.
LEMMA HandleFrame ==
  ASSUME Handle
  PROVE  /\ UNCHANGED <<prog, armed, procs, chan>>
         /\ pc = "exn"
  BY DEF Handle, CheckTimeout, CheckEof, CheckGivesUp, CheckRecoveryFails, Simplify,
         Pairwise, Unhandled, ClientStartFails, Handling, HandlingDone

\* One of three things: a restart or stop, the end of the operation, or (for
\* start_prover) back to the client.
Ends(k) == Return(k, 0) /\ why' = why

LEMMA HandleEnds ==
  ASSUME Handle
  PROVE  \/ /\ running \/ (why = "query" /\ exn = "Timeout")
            /\ pc' = "kill" /\ why' \in {"timeout", "recover", "give up"}
            /\ exn' = exn /\ outcome' = outcome
         \/ Ends("fallback") \/ Ends("raised")
         \/ /\ why = "client" /\ pc' = "idle" /\ exn' = "none"
            /\ why' = why /\ outcome' = outcome
<1>1. CASE CheckTimeout
  BY <1>1 DEF CheckTimeout, Restart
<1>2. CASE CheckEof
  BY <1>2 DEF CheckEof, Recover, Restart, Fallback, Ends
<1>3. CASE CheckGivesUp
  BY <1>3 DEF CheckGivesUp, Restart, CheckEscape, Fallback, Escape, Ends
<1>4. CASE CheckRecoveryFails
  BY <1>4 DEF CheckRecoveryFails, CheckEscape, Fallback, Escape, Ends
<1>5. CASE Simplify
  BY <1>5 DEF Simplify, Recover, Restart, Fallback, Ends
<1>6. CASE Pairwise
  BY <1>6 DEF Pairwise, Recover, Restart, Fallback, Escape, Ends
<1>7. CASE Unhandled
  BY <1>7 DEF Unhandled, Escape, Ends
<1>8. CASE ClientStartFails
  BY <1>8 DEF ClientStartFails
<1>9. QED
  BY <1>1, <1>2, <1>3, <1>4, <1>5, <1>6, <1>7, <1>8 DEF Handle

LEMMA HandleType ==
  ASSUME TypeOK, Handle
  PROVE  TypeOK'
<1>1. exn \in Exns /\ 0 \in Nat
  BY DEF TypeOK
<1>2. pc' \in Pcs /\ exn' \in Exns /\ outcome' \in Outcomes /\ why' \in Whys
  <2>1. CASE Ends("fallback") \/ Ends("raised")
    BY <1>1, <2>1, ReturnType DEF Ends, TypeOK
  <2>2. CASE ~(Ends("fallback") \/ Ends("raised"))
    BY <2>2, HandleEnds DEF TypeOK, Pcs, Whys, Exns
  <2>3. QED
    BY <2>1, <2>2
<1>3. QED
  BY <1>2, HandleFrame DEF TypeOK, prog, procs, chan

\* The end of stop (), waited for or interrupted.
LEMMA StoppedType ==
  ASSUME TypeOK, Stopped, zombie' \subseteq zombie, armed' \in BOOLEAN
  PROVE  TypeOK'
<1>1. exn \in Exns /\ 0 \in Nat
  BY DEF TypeOK
<1>2. pc' \in Pcs /\ exn' \in Exns /\ outcome' \in Outcomes
  <2>1. CASE Return("fallback", 0) \/ Return("raised", 0)
    BY <1>1, <2>1, ReturnType
  <2>2. CASE pc' \in {"spawn", "idle"} /\ UNCHANGED <<exn, outcome>>
    BY <2>2 DEF TypeOK, Pcs
  <2>3. QED
    BY <2>1, <2>2 DEF Stopped
<1>3. QED
  BY <1>2 DEF Stopped, TypeOK, chan

\* The first element of the pipe, and the pipe without it.
LEMMA HeadAndTail ==
  ASSUME TypeOK, ready > 0
  PROVE  /\ Head(pipe) \in Nat
         /\ Tail(pipe) \in Seq(Nat)
         /\ ready - 1 \in 0 .. Len(Tail(pipe))
<1>1. pipe \in Seq(Nat) /\ Len(pipe) \in Nat /\ ready \in 0 .. Len(pipe)
  BY LenProperties DEF TypeOK
<1>2. pipe # <<>>
  BY <1>1, EmptySeq
<1>3. Head(pipe) \in Nat /\ Tail(pipe) \in Seq(Nat) /\ Len(Tail(pipe)) = Len(pipe) - 1
  BY <1>1, <1>2, HeadTailProperties
<1>4. QED
  BY <1>1, <1>3

\* The query is written.
LEMMA SendType ==
  ASSUME TypeOK, Send
  PROVE  TypeOK'
<1>1. pipe' \in Seq(Nat) /\ ready' \in 0 .. Len(pipe')
  <2>1. CASE UNCHANGED pipe
    BY <2>1 DEF Send, TypeOK
  <2>2. CASE pipe' = Append(pipe, q)
    <3>1. Append(pipe, q) \in Seq(Nat) /\ Len(Append(pipe, q)) = Len(pipe) + 1
      BY AppendProperties DEF TypeOK
    <3>2. Len(pipe) \in Nat
      BY LenProperties DEF TypeOK
    <3>3. QED
      BY <2>2, <3>1, <3>2 DEF Send, TypeOK
  <2>3. QED
    BY <2>1, <2>2 DEF Send
<1>2. armed' \in BOOLEAN
  BY DEF Send, Guarded, TypeOK
<1>3. pc' \in Pcs /\ count' \in Nat
  BY DEF Send, TypeOK, Pcs
<1>4. QED
  BY <1>1, <1>2, <1>3 DEF Send, TypeOK, procs

\* An answer is taken from the pipe.
LEMMA ReadType ==
  ASSUME TypeOK, Receive \/ Misparse
  PROVE  TypeOK'
<1>1. /\ ready > 0 /\ pipe' = Tail(pipe) /\ ready' = ready - 1
      /\ UNCHANGED <<prog, why, procs>>
  BY DEF Receive, Misparse
<1>2. pipe' \in Seq(Nat) /\ ready' \in 0 .. Len(pipe')
  BY <1>1, HeadAndTail
<1>3. pc' \in Pcs /\ exn' \in Exns /\ outcome' \in Outcomes
  <2>1. CASE Receive
    <3>1. Head(pipe) \in Nat /\ "none" \in Exns
      BY <1>1, HeadAndTail DEF Exns
    <3>2. QED
      BY <2>1, <3>1, ReturnType DEF Receive
  <2>2. CASE Misparse
    BY <2>2 DEF Misparse, Raise, TypeOK, Pcs, Exns
  <2>3. QED
    BY <2>1, <2>2
<1>4. armed' \in BOOLEAN
  BY DEF Receive, Misparse, Guarded, TypeOK
<1>5. QED
  BY <1>1, <1>2, <1>3, <1>4 DEF TypeOK, prog, procs

\* A process is started, and its banner read.
LEMMA SpawnType ==
  ASSUME TypeOK, Spawn
  PROVE  TypeOK'
<1>1. last' \in Nat /\ live' \subseteq 1 .. last' /\ zombie' \subseteq 1 .. last'
      /\ greeted' \subseteq 1 .. last' /\ pid' \in Nat
  BY DEF Spawn, TypeOK
<1>2. pipe' \in Seq(Nat) /\ ready' \in 0 .. Len(pipe')
  <2>1. pipe' = <<>> /\ ready' = 0
    BY DEF Spawn
  <2>2. pipe' \in Seq(Nat) /\ Len(pipe') = 0
    BY <2>1, EmptySeq
  <2>3. QED
    BY <2>1, <2>2
<1>3. pc' \in Pcs
  BY DEF Spawn, Pcs
<1>4. QED
  BY <1>1, <1>2, <1>3 DEF Spawn, TypeOK

LEMMA BannerType ==
  ASSUME TypeOK, Banner
  PROVE  TypeOK'
<1>1. exn \in Exns /\ 0 \in Nat
  BY DEF TypeOK
<1>2. pc' \in Pcs /\ exn' \in Exns /\ outcome' \in Outcomes /\ why' \in Whys
  <2>1. CASE Return("fallback", 0) /\ UNCHANGED why
    BY <1>1, <2>1, ReturnType DEF TypeOK
  <2>2. CASE /\ pc' \in {"idle", "kill", "send"} /\ why' \in {why, "regular", "query"}
             /\ UNCHANGED <<exn, outcome>>
    BY <2>2 DEF TypeOK, Pcs, Whys
  <2>3. QED
    BY <2>1, <2>2 DEF Banner, Restart
<1>3. greeted' \subseteq 1 .. last' /\ count' \in Nat /\ running' \in BOOLEAN
  BY DEF Banner, TypeOK
<1>4. QED
  BY <1>2, <1>3 DEF Banner, TypeOK, chan

LEMMA TypeStep ==
  ASSUME TypeOK, [Next]_vars
  PROVE  TypeOK'
<1>1. CASE Client
  BY <1>1, ClientType, SessionAssumption
<1>2. CASE Enter
  BY <1>2 DEF Enter, Start, Restart, TypeOK, prog, procs, chan, Pcs, Whys
<1>3. CASE Send
  BY <1>3, SendType
<1>4. CASE Receive \/ Misparse
  BY <1>4, ReadType
<1>5. CASE EndOfFile
  BY <1>5 DEF EndOfFile, Raise, TypeOK, prog, procs, chan, Pcs, Exns
<1>6. CASE Spawn
  BY <1>6, SpawnType
<1>7. CASE Banner
  BY <1>7, BannerType
<1>8. CASE Kill
  BY <1>8 DEF Kill, TypeOK, prog, chan, Pcs
<1>9. CASE Reap
  BY <1>9, StoppedType DEF Reap, TypeOK
<1>10. CASE Handle
  BY <1>10, HandleType
<1>11. CASE AlarmRaises
  BY <1>11 DEF AlarmRaises, Raise, TypeOK, prog, procs, chan, Pcs, Exns
<1>12. CASE AlarmSwallowed
  BY <1>12, StoppedType DEF AlarmSwallowed
<1>13. CASE AlarmInClient
  BY <1>13 DEF AlarmInClient, TypeOK, prog, procs, chan
<1>14. CASE Answer
  <2>1. ready' \in 0 .. Len(pipe')
    BY <1>14, LenProperties DEF Answer, TypeOK
  <2>2. QED
    BY <1>14, <2>1 DEF Answer, TypeOK, prog, procs
<1>15. ASSUME NEW p \in live, Die(p)
       PROVE  TypeOK'
  BY <1>15 DEF Die, TypeOK, prog, chan
<1>16. CASE UNCHANGED vars
  BY <1>16 DEF vars, TypeOK
<1>17. QED
  BY <1>1, <1>2, <1>3, <1>4, <1>5, <1>6, <1>7, <1>8, <1>9, <1>10, <1>11, <1>12, <1>13,
     <1>14, <1>15, <1>16 DEF Next, Program, Alarm

\* Every variable keeps its type, whatever dies and whenever the timer fires.
THEOREM TypeCorrect == Spec => []TypeOK
<1>1. Init => TypeOK
  BY ProcessInit DEF ProcessInv
<1>2. TypeOK /\ [Next]_vars => TypeOK'
  BY TypeStep
<1>3. QED
  BY <1>1, <1>2, PTL DEF Spec

-----------------------------------------------------------------------------
\* After stop () no process that was ever greeted is alive.
LEMMA StoppedProcess ==
  ASSUME Control, Children, pc = "reap", Stopped, zombie' \subseteq zombie
  PROVE  (Control /\ Children)'
<1>1. live' \cap greeted' = {} /\ running' = FALSE
  BY DEF Control, Children, Stopped
<1>2. \/ pc' = "spawn" /\ why' \in {"regular", "timeout", "recover"}
      \/ pc' = "idle"
  BY DEF Stopped, Return
<1>3. QED
  BY <1>1, <1>2 DEF Control, Children

LEMMA HandleProcess ==
  ASSUME Control, Children, Handle
  PROVE  (Control /\ Children)'
<1>1. UNCHANGED <<running, pid, live, zombie, greeted>> /\ pc = "exn"
  BY HandleFrame DEF prog, procs
<1>2. \/ running /\ pc' = "kill" /\ why' \in {"timeout", "recover", "give up"}
      \/ pc' = "idle"
  BY <1>1, HandleEnds DEF Control, Ends, Return
<1>3. QED
  BY <1>1, <1>2 DEF Control, Children

LEMMA ProcessStep ==
  ASSUME ProcessInv, [Next]_vars
  PROVE  ProcessInv'
<1>1. TypeOK'
  BY TypeStep DEF ProcessInv
<1>2. (Control /\ Children)'
  <2> USE DEF ProcessInv
  <2>1. CASE Client
    <3>1. ASSUME NEW o \in Ops, Call(o)
          PROVE  (Control /\ Children)'
      BY <3>1 DEF Call, procs, Control, Children
    <3>2. CASE ClientStart
      BY <3>2 DEF ClientStart, prog, procs, Control, Children
    <3>3. CASE ClientStop
      BY <3>3 DEF ClientStop, prog, procs, Control, Children
    <3>4. CASE ClientTimer
      BY <3>4 DEF ClientTimer, prog, procs, Control, Children
    <3>5. QED
      BY <2>1, <3>1, <3>2, <3>3, <3>4 DEF Client
  <2>2. CASE Enter
    BY <2>2 DEF Enter, Start, Restart, prog, procs, Control, Children
  <2>3. CASE Send
    BY <2>3 DEF Send, procs, Control, Children
  <2>4. CASE Receive \/ Misparse \/ EndOfFile
    <3>1. CASE Receive
      BY <3>1 DEF Receive, Return, prog, procs, Control, Children
    <3>2. CASE Misparse
      BY <3>2 DEF Misparse, Raise, prog, procs, Control, Children
    <3>3. CASE EndOfFile
      BY <3>3 DEF EndOfFile, Raise, prog, procs, Control, Children
    <3>4. QED
      BY <2>4, <3>1, <3>2, <3>3
  <2>5. CASE Spawn
    BY <2>5 DEF Spawn, Control, Children, TypeOK
  <2>6. CASE Banner
    BY <2>6 DEF Banner, Return, Restart, Control, Children
  <2>7. CASE Kill
    BY <2>7 DEF Kill, prog, Control, Children
  <2>8. CASE Reap
    BY <2>8, StoppedProcess DEF Reap
  <2>9. CASE Handle
    BY <2>9, HandleProcess
  <2>10. CASE AlarmRaises
    BY <2>10 DEF AlarmRaises, Raise, prog, procs, Control, Children
  <2>11. CASE AlarmSwallowed
    BY <2>11, StoppedProcess DEF AlarmSwallowed
  <2>12. CASE AlarmInClient
    BY <2>12 DEF AlarmInClient, prog, procs, Control, Children
  <2>13. CASE Answer
    BY <2>13 DEF Answer, prog, procs, Control, Children
  <2>14. ASSUME NEW p \in live, Die(p)
         PROVE  (Control /\ Children)'
    BY <2>14 DEF Die, prog, Control, Children
  <2>15. CASE UNCHANGED vars
    BY <2>15 DEF vars, Control, Children
  <2>16. QED
    BY <2>1, <2>2, <2>3, <2>4, <2>5, <2>6, <2>7, <2>8, <2>9, <2>10, <2>11, <2>12, <2>13,
       <2>14, <2>15 DEF Next, Program, Alarm
<1>3. QED
  BY <1>1, <1>2 DEF ProcessInv

LEMMA ProcessInvariant == Spec => []ProcessInv
<1>1. Init => ProcessInv
  BY ProcessInit
<1>2. ProcessInv /\ [Next]_vars => ProcessInv'
  BY ProcessStep
<1>3. QED
  BY <1>1, <1>2, PTL DEF Spec

\* stop () only ever signals and waits for a child that has not been waited
\* for, and no calculator in use is lost while it is alive: for all operations,
\* deaths and alarms.
THEOREM ProcessesKept == Spec => [](KillsOwnChild /\ NoLostCalculator)
<1>1. ProcessInv => KillsOwnChild /\ NoLostCalculator
  BY DEF ProcessInv, Control, Children, KillsOwnChild, NoLostCalculator
<1>2. QED
  BY <1>1, ProcessInvariant, PTL

-----------------------------------------------------------------------------
\* The operations that restart the calculator, or stop it, when a query is left
\* without its answer.
Recovering == {"sat", "valid", "simplify"}

\* Between two queries the pipe of a running calculator is empty; during one it
\* holds that query; and an exception that leaves the query there is one that
\* the operation answers with a restart or a stop.
Sync ==
  /\ op \in Recovering \cup {"none"}
  /\ running /\ pc \in {"idle", "enter", "send"} => pipe = <<>>
  /\ pc = "wait" => pipe = <<q>>
  /\ pc = "prelude" => pipe = <<>>
  /\ running /\ pc = "exn" =>
       why = "query" /\ (pipe = <<>> \/ exn \in {"Timeout", "Eof"})
  /\ AnswerIsForQuery

SyncInv == ProcessInv /\ Sync

\* A pipe of one query, read.
LEMMA OneQuery ==
  ASSUME NEW n \in Nat
  PROVE  Head(<<n>>) = n /\ Tail(<<n>>) = <<>> /\ Append(<<>>, n) = <<n>>
  OBVIOUS

\* The outcome of an operation that ends.
LEMMA ReturnOutcome ==
  ASSUME NEW k, NEW f, Return(k, f)
  PROVE  pc' = "idle" /\ exn' = "none" /\ outcome'.kind = k /\ outcome'.from = f
  BY DEF Return

LEMMA StoppedSync ==
  ASSUME SyncInv, pc = "reap", Stopped
  PROVE  Sync'
<1>1. \/ pc' = "spawn" /\ UNCHANGED outcome
      \/ pc' = "idle" /\ (outcome' = outcome \/ outcome'.kind # "answer")
  <2>1. CASE Return("fallback", 0)
    BY <2>1, ReturnOutcome
  <2>2. CASE Return("raised", 0)
    BY <2>2, ReturnOutcome
  <2>3. CASE pc' \in {"spawn", "idle"} /\ UNCHANGED outcome
    BY <2>3
  <2>4. QED
    BY <2>1, <2>2, <2>3 DEF Stopped
<1>2. QED
  BY <1>1 DEF SyncInv, Sync, Stopped, AnswerIsForQuery

\* A handler lets the calculator run on only if the pipe is empty.
LEMMA HandleSync ==
  ASSUME SyncInv, Handle
  PROVE  Sync'
<1>1. UNCHANGED <<running, op, q, pipe>> /\ pc = "exn"
  BY HandleFrame DEF prog, chan
<1>2. /\ pc' \in {"kill", "idle"}
      /\ outcome' = outcome \/ outcome'.kind # "answer"
  <2>1. CASE Ends("fallback")
    BY <2>1, ReturnOutcome DEF Ends
  <2>2. CASE Ends("raised")
    BY <2>2, ReturnOutcome DEF Ends
  <2>3. CASE ~(Ends("fallback") \/ Ends("raised"))
    BY <2>3, HandleEnds
  <2>4. QED
    BY <2>1, <2>2, <2>3
<1>3. pc' = "idle" /\ running => pipe = <<>>
  <2>1. SUFFICES ASSUME pc' = "idle", running
                 PROVE  pipe = <<>>
    OBVIOUS
  <2>2. why = "query" /\ (pipe = <<>> \/ exn \in {"Timeout", "Eof"})
    BY <1>1, <2>1 DEF SyncInv, Sync
  <2>3. op \in Recovering \cup {"none"} /\ exn # "none"
    BY <1>1 DEF SyncInv, Sync, ProcessInv, Control
  <2>4. CASE CheckTimeout \/ CheckEof \/ CheckGivesUp
    BY <2>1, <2>4 DEF CheckTimeout, CheckEof, CheckGivesUp, Recover, Restart
  <2>5. CASE Simplify
    BY <2>1, <2>2, <2>5 DEF Simplify, Recover, Restart
  <2>6. CASE CheckRecoveryFails \/ ClientStartFails
    BY <2>2, <2>6 DEF CheckRecoveryFails, ClientStartFails
  <2>7. CASE Pairwise \/ Unhandled
    BY <2>3, <2>7 DEF Pairwise, Unhandled, Handling, Recovering
  <2>8. QED
    BY <2>4, <2>5, <2>6, <2>7 DEF Handle
<1>4. QED
  BY <1>1, <1>2, <1>3 DEF SyncInv, Sync, AnswerIsForQuery

LEMMA SyncStep ==
  ASSUME Ops \subseteq Recovering, SyncInv, [Next]_vars
  PROVE  SyncInv'
<1>1. ProcessInv'
  BY ProcessStep DEF SyncInv
<1>2. Sync'
  <2> USE DEF SyncInv
  <2>1. q \in Nat
    BY DEF ProcessInv, TypeOK
  <2>2. ASSUME NEW o \in Ops, Call(o)
        PROVE  Sync'
    BY <2>2 DEF Call, NoOutcome, chan, Sync, AnswerIsForQuery
  <2>3. CASE ClientStart \/ ClientStop \/ ClientTimer
    <3>1. CASE ClientStart
      BY <3>1 DEF ClientStart, prog, chan, Sync, AnswerIsForQuery
    <3>2. CASE ClientStop
      BY <3>2 DEF ClientStop, prog, chan, Sync, AnswerIsForQuery
    <3>3. CASE ClientTimer
      BY <3>3 DEF ClientTimer, prog, chan, Sync, AnswerIsForQuery
    <3>4. QED
      BY <2>3, <3>1, <3>2, <3>3
  <2>4. CASE Enter
    BY <2>4 DEF Enter, Start, Restart, prog, chan, Sync, AnswerIsForQuery
  <2>5. CASE Send
    <3>1. running /\ pipe = <<>>
      BY <2>5 DEF Send, Sync, ProcessInv, Control
    <3>2. \/ pc' = "wait" /\ pipe' = <<q>>
          \/ pc' = "killed" /\ pipe' = pipe
      BY <2>1, <2>5, <3>1, OneQuery DEF Send
    <3>3. QED
      BY <2>5, <3>2 DEF Send, Sync, AnswerIsForQuery
  <2>6. CASE Receive
    <3>1. pipe = <<q>>
      BY <2>6 DEF Receive, Sync
    <3>2. Head(pipe) = q /\ pipe' = <<>>
      BY <2>1, <2>6, <3>1, OneQuery DEF Receive
    <3>3. pc' = "idle" /\ outcome'.kind = "answer" /\ outcome'.from = q
      BY <2>6, <3>2, ReturnOutcome DEF Receive
    <3>4. QED
      BY <2>6, <3>2, <3>3 DEF Receive, prog, Sync, AnswerIsForQuery
  <2>7. CASE Misparse
    <3>1. pipe' = <<>>
      BY <2>1, <2>7, OneQuery DEF Misparse, Sync
    <3>2. QED
      BY <2>7, <3>1 DEF Misparse, Raise, prog, Sync, AnswerIsForQuery, ProcessInv, Control
  <2>8. CASE EndOfFile
    BY <2>8 DEF EndOfFile, Raise, prog, chan, Sync, AnswerIsForQuery, ProcessInv, Control
  <2>9. CASE Spawn
    BY <2>9 DEF Spawn, Sync, AnswerIsForQuery
  <2>10. CASE Banner
    <3>1. outcome' = outcome \/ outcome'.kind # "answer"
      <4>1. CASE Return("fallback", 0)
        BY <4>1, ReturnOutcome
      <4>2. CASE outcome' = outcome
        BY <4>2
      <4>3. QED
        BY <2>10, <4>1, <4>2 DEF Banner
    <3>2. pc' \in {"idle", "kill", "send"}
      BY <2>10 DEF Banner, Return, Restart
    <3>3. QED
      BY <2>10, <3>1, <3>2 DEF Banner, chan, Sync, AnswerIsForQuery
  <2>11. CASE Kill
    BY <2>11 DEF Kill, prog, chan, Sync, AnswerIsForQuery
  <2>12. CASE Reap
    BY <2>12, StoppedSync DEF Reap
  <2>13. CASE Handle
    BY <2>13, HandleSync
  <2>14. CASE AlarmRaises
    BY <2>14 DEF AlarmRaises, Raise, prog, chan, Sync, AnswerIsForQuery, ProcessInv, Control
  <2>15. CASE AlarmSwallowed
    BY <2>15, StoppedSync DEF AlarmSwallowed
  <2>16. CASE AlarmInClient
    BY <2>16 DEF AlarmInClient, prog, chan, Sync, AnswerIsForQuery
  <2>17. CASE Answer
    BY <2>17 DEF Answer, prog, Sync, AnswerIsForQuery
  <2>18. ASSUME NEW p \in live, Die(p)
         PROVE  Sync'
    BY <2>18 DEF Die, prog, chan, Sync, AnswerIsForQuery
  <2>19. CASE UNCHANGED vars
    BY <2>19 DEF vars, Sync, AnswerIsForQuery
  <2>20. QED
    BY <2>2, <2>3, <2>4, <2>5, <2>6, <2>7, <2>8, <2>9, <2>10, <2>11, <2>12, <2>13,
       <2>14, <2>15, <2>16, <2>17, <2>18, <2>19 DEF Next, Client, Program, Alarm
<1>3. QED
  BY <1>1, <1>2 DEF SyncInv

\* is_sat, is_valid and simplify never take the answer to one query for the
\* answer to another, however often the calculator dies, hangs or is restarted
\* and whenever a timer fires, as long as no operation that leaves a timed-out
\* query in the pipe (hull, gist, pairwisecheck, pairwisecheck2) is used.
THEOREM AnswersMatch ==
  ASSUME Ops \subseteq Recovering
  PROVE  Spec => []AnswerIsForQuery
<1>1. Init => SyncInv
  <2>1. Init => ProcessInv
    BY ProcessInit
  <2>2. Init => Sync
    BY DEF Init, NoOutcome, Sync, AnswerIsForQuery
  <2>3. QED
    BY <2>1, <2>2 DEF SyncInv
<1>2. SyncInv /\ [Next]_vars => SyncInv'
  BY SyncStep
<1>3. SyncInv => AnswerIsForQuery
  BY DEF SyncInv, Sync
<1>4. QED
  BY <1>1, <1>2, <1>3, PTL DEF Spec

-----------------------------------------------------------------------------
\* On whose behalf the calculator is started or stopped says whether a query is
\* in progress, and only is_sat and is_valid give up.
Errand ==
  /\ q > 0 => op \in Ops
  /\ pc = "idle" => ~Busy
  /\ pc \in {"enter", "send", "wait"} => Busy
  /\ pc \in {"spawn", "prelude", "kill", "reap", "exn"} =>
       (Busy <=> why \notin {"client", "client stop"})
  /\ pc = "exn" => why # "client stop"
  /\ pc \in {"kill", "reap"} /\ why = "give up" => op \in Checks

\* The ways an operation ends, and those it may not end in.
Outcome(k, f) == [kind |-> k, from |-> f]

LEMMA ErrandEnds ==
  ASSUME Errand, pc' = "idle", UNCHANGED <<op, q>>, ~Busy'
  PROVE  Errand'
  BY DEF Errand

LEMMA ReturnNotBusy ==
  ASSUME NEW k \in {"answer", "fallback", "raised"}, NEW f, Return(k, f)
  PROVE  ~Busy' /\ pc' = "idle" /\ outcome' = Outcome(k, f)
  BY DEF Return, Busy, Outcome

LEMMA StoppedErrand ==
  ASSUME Errand, pc = "reap", Stopped
  PROVE  Errand'
<1>1. UNCHANGED <<op, q, why>>
  BY DEF Stopped
<1>2. CASE why \in {"regular", "timeout", "recover"} /\ pc' = "spawn" /\ outcome' = outcome
  BY <1>1, <1>2 DEF Errand, Busy
<1>3. CASE why = "client stop" /\ pc' = "idle" /\ outcome' = outcome
  BY <1>1, <1>3 DEF Errand, Busy
<1>4. CASE Return("fallback", 0) \/ Return("raised", 0)
  BY <1>1, <1>4, ReturnNotBusy, ErrandEnds
<1>5. QED
  BY <1>2, <1>3, <1>4 DEF Stopped

LEMMA HandleErrand ==
  ASSUME Control, Errand, Handle
  PROVE  Errand'
<1>1. UNCHANGED <<op, q>> /\ pc = "exn"
  BY HandleFrame DEF prog
<1>2. CASE Ends("fallback") \/ Ends("raised")
  BY <1>1, <1>2, ReturnNotBusy, ErrandEnds DEF Ends
<1>3. CASE why = "client" /\ pc' = "idle" /\ outcome' = outcome
  BY <1>1, <1>3 DEF Errand, Busy
<1>4. CASE /\ pc' = "kill" /\ why' \in {"timeout", "recover", "give up"}
           /\ outcome' = outcome
  <2>1. why \notin {"client", "client stop"}
    BY <1>1, <1>4 DEF Errand, Handle, CheckTimeout, CheckEof, CheckGivesUp,
         CheckRecoveryFails, Simplify, Pairwise, Unhandled, ClientStartFails, Handling
  <2>2. why' = "give up" => op \in Checks
    BY <1>4 DEF Handle, CheckTimeout, CheckEof, CheckGivesUp, CheckRecoveryFails, Simplify,
         Pairwise, Unhandled, ClientStartFails, Handling, Recover, Restart, Fallback,
         Escape, CheckEscape, Return
  <2>3. QED
    BY <1>1, <1>4, <2>1, <2>2 DEF Errand, Busy
<1>5. QED
  BY <1>2, <1>3, <1>4, HandleEnds

LEMMA ErrandStep ==
  ASSUME ProcessInv, Errand, [Next]_vars
  PROVE  Errand'
<1>1. q \in Nat /\ Control
  BY DEF ProcessInv, TypeOK
<1>2. ASSUME NEW o \in Ops, Call(o)
      PROVE  Errand'
  BY <1>1, <1>2 DEF Call, NoOutcome, Errand, Busy
<1>3. CASE ClientStart \/ ClientStop \/ ClientTimer
  BY <1>3 DEF ClientStart, ClientStop, ClientTimer, prog, Errand, Busy
<1>4. CASE Enter
  BY <1>4 DEF Enter, Start, Restart, prog, Errand, Busy
<1>5. CASE Send
  BY <1>5 DEF Send, Errand, Busy
<1>6. CASE Receive
  <2>1. UNCHANGED <<op, q>> /\ Return("answer", Head(pipe))
    BY <1>6 DEF Receive, prog
  <2>2. QED
    BY <2>1, ReturnNotBusy, ErrandEnds
<1>7. CASE Misparse \/ EndOfFile \/ AlarmRaises
  <2>1. /\ UNCHANGED <<op, q, why, outcome>> /\ pc' = "exn" /\ pc \in {"wait", "prelude"}
    BY <1>7 DEF Misparse, EndOfFile, AlarmRaises, Raise, prog
  <2>2. QED
    BY <1>1, <2>1 DEF Errand, Busy, Control
<1>8. CASE Spawn \/ Kill
  BY <1>8 DEF Spawn, Kill, prog, Errand, Busy
<1>9. CASE Banner
  <2>1. UNCHANGED <<op, q>>
    BY <1>9 DEF Banner
  <2>2. CASE Return("fallback", 0)
    BY <2>1, <2>2, ReturnNotBusy, ErrandEnds
  <2>3. CASE ~Return("fallback", 0)
    BY <1>9, <2>1, <2>3 DEF Banner, Restart, Errand, Busy
  <2>4. QED
    BY <2>2, <2>3
<1>10. CASE Reap \/ AlarmSwallowed
  BY <1>10, StoppedErrand DEF Reap, AlarmSwallowed
<1>11. CASE Handle
  BY <1>1, <1>11, HandleErrand
<1>12. CASE UNCHANGED <<prog, pc, why, outcome>>
  BY <1>12 DEF prog, Errand, Busy
<1>13. QED
  BY <1>2, <1>3, <1>4, <1>5, <1>6, <1>7, <1>8, <1>9, <1>10, <1>11, <1>12
     DEF Next, Client, Program, Alarm, AlarmInClient, Answer, Die, vars, prog

-----------------------------------------------------------------------------
(* Under the refinement mapping of ImplementsOracle every step is one of the *)
(* oracle's or leaves it as it is.                                           *)

LEMMA OracleStutters ==
  ASSUME UNCHANGED <<op, q, outcome>>, pc = "killed" <=> pc' = "killed"
  PROVE  UNCHANGED Oracle!vars
  BY DEF Oracle!vars, Busy

LEMMA OracleReplies ==
  ASSUME NEW k \in {"answer", "fallback", "raised"}, NEW f,
         Return(k, f), UNCHANGED <<op, q>>, Busy, pc # "killed",
         k = "answer" => f = q,
         k # "answer" => f = 0,
         k = "raised" => op \notin {"simplify"} \cup (IF OcWarning THEN Checks ELSE {})
  PROVE  Oracle!Reply
<1>1. ~Busy' /\ pc' = "idle" /\ outcome' = Outcome(k, f)
  BY ReturnNotBusy
<1>2. outcome' \in Oracle!Replies
  BY <1>1 DEF Outcome, Oracle!Replies
<1>3. QED
  BY <1>1, <1>2 DEF Oracle!Reply

LEMMA StoppedIsReply ==
  ASSUME Errand, pc = "reap", Stopped
  PROVE  [Oracle!Next]_(Oracle!vars)
<1>1. UNCHANGED <<op, q, why>> /\ pc' # "killed"
  BY DEF Stopped, Return
<1>2. CASE outcome' = outcome
  BY <1>1, <1>2, OracleStutters
<1>3. CASE why = "give up" /\ (IF OcWarning THEN Return("fallback", 0) ELSE Return("raised", 0))
  <2>1. Busy /\ op \in Checks
    BY <1>3 DEF Errand
  <2>2. op # "simplify"
    BY <2>1 DEF Checks
  <2>3. Oracle!Reply
    BY <1>1, <1>3, <2>1, <2>2, OracleReplies
  <2>4. QED
    BY <2>3 DEF Oracle!Next
<1>4. QED
  BY <1>2, <1>3 DEF Stopped

LEMMA HandleIsReply ==
  ASSUME Errand, Handle
  PROVE  [Oracle!Next]_(Oracle!vars)
<1>1. UNCHANGED <<op, q>> /\ pc = "exn"
  BY HandleFrame DEF prog
<1>2. CASE outcome' = outcome /\ pc' # "killed"
  BY <1>1, <1>2, OracleStutters
<1>3. CASE Ends("fallback") \/ Ends("raised")
  <2>1. CASE ClientStartFails
    BY <1>1, <2>1, OracleStutters DEF ClientStartFails
  <2>2. CASE ~ClientStartFails
    <3>1. Busy
      BY <1>1, <2>2 DEF Errand, Handle, CheckTimeout, CheckEof, CheckGivesUp,
           CheckRecoveryFails, Simplify, Pairwise, Unhandled, Handling
    <3>2. CASE Return("fallback", 0)
      BY <1>1, <3>1, <3>2, OracleReplies DEF Oracle!Next
    <3>3. CASE Return("raised", 0)
      <4>1. outcome'.kind = "raised" /\ pc' = "idle"
        BY <3>3 DEF Return
      <4>2. /\ ~Simplify /\ ~CheckTimeout /\ ~CheckEof
        <5>1. pc' # "kill" /\ ~Fallback
          BY <4>1 DEF Fallback, Return
        <5>2. QED
          BY <4>1, <5>1 DEF Simplify, CheckTimeout, CheckEof, Recover, Restart
      <4>3. op \notin {"simplify"} \cup (IF OcWarning THEN Checks ELSE {})
        <5>1. CASE CheckGivesUp \/ CheckRecoveryFails
          <6>1. CheckEscape /\ op \in Checks
            BY <4>1, <5>1 DEF CheckGivesUp, CheckRecoveryFails, Restart, Handling
          <6>2. ~OcWarning
            BY <4>1, <6>1 DEF CheckEscape, Fallback, Return
          <6>3. QED
            BY <6>1, <6>2 DEF Checks
        <5>2. CASE Pairwise \/ Unhandled
          BY <5>2 DEF Pairwise, Unhandled, Handling, Checks
        <5>3. QED
          BY <2>2, <4>2, <5>1, <5>2 DEF Handle
      <4>4. QED
        BY <1>1, <3>1, <3>3, <4>3, OracleReplies DEF Oracle!Next
    <3>4. QED
      BY <1>3, <3>2, <3>3 DEF Ends
  <2>3. QED
    BY <2>1, <2>2
<1>4. QED
  BY <1>2, <1>3, HandleEnds

LEMMA OracleStep ==
  ASSUME SyncInv, Errand, [Next]_vars
  PROVE  [Oracle!Next]_(Oracle!vars)
<1>1. ASSUME NEW o \in Ops, Call(o)
      PROVE  [Oracle!Next]_(Oracle!vars)
  <2>1. /\ pc = "idle" /\ ~Busy /\ pc' = "enter" /\ op' \in Ops /\ q' = q + 1
        /\ outcome' = NoOutcome /\ q \in Nat
    BY <1>1 DEF Call, Errand, SyncInv, ProcessInv, TypeOK
  <2>2. Busy'
    BY <2>1 DEF Busy, NoOutcome
  <2>3. Oracle!Ask
    BY <2>1, <2>2 DEF Oracle!Ask, Oracle!NoReply, NoOutcome
  <2>4. QED
    BY <2>3 DEF Oracle!Next
<1>2. CASE Send
  <2>1. UNCHANGED <<op, q, outcome>> /\ pc = "send" /\ pc' \in {"wait", "killed"}
    BY <1>2 DEF Send
  <2>2. CASE pc' = "wait"
    BY <2>1, <2>2, OracleStutters
  <2>3. CASE pc' = "killed"
    BY <2>1, <2>3 DEF Oracle!Next, Oracle!End
  <2>4. QED
    BY <2>1, <2>2, <2>3
<1>3. CASE Receive
  <2>1. /\ UNCHANGED <<op, q>> /\ pc = "wait" /\ Return("answer", Head(pipe)) /\ pipe = <<q>>
        /\ q \in Nat /\ Busy
    BY <1>3 DEF Receive, prog, SyncInv, Sync, Errand, ProcessInv, TypeOK
  <2>2. Head(pipe) = q
    BY <2>1, OneQuery
  <2>3. Oracle!Reply
    BY <2>1, <2>2, OracleReplies
  <2>4. QED
    BY <2>3 DEF Oracle!Next
<1>4. CASE Banner
  <2>1. UNCHANGED <<op, q>> /\ pc = "prelude"
    BY <1>4 DEF Banner
  <2>2. CASE why \in {"timeout", "recover"} /\ Return("fallback", 0)
    <3>1. Oracle!Reply
      BY <2>1, <2>2, OracleReplies DEF Errand
    <3>2. QED
      BY <3>1 DEF Oracle!Next
  <2>3. CASE pc' \in {"idle", "kill", "send"} /\ outcome' = outcome
    BY <2>1, <2>3, OracleStutters
  <2>4. QED
    BY <1>4, <2>2, <2>3 DEF Banner, Restart
<1>5. CASE Reap \/ AlarmSwallowed
  BY <1>5, StoppedIsReply DEF Reap, AlarmSwallowed
<1>6. CASE Handle
  BY <1>6, HandleIsReply
<1>7. CASE /\ UNCHANGED <<op, q, outcome>>
           /\ pc' = pc \/ (pc # "killed" /\ pc' # "killed")
  BY <1>7, OracleStutters
<1>8. QED
  BY <1>1, <1>2, <1>3, <1>4, <1>5, <1>6, <1>7
     DEF Next, Client, ClientStart, ClientStop, ClientTimer, Program, Enter, Start, Restart,
         Misparse, EndOfFile, Raise, Spawn, Kill, Alarm, AlarmRaises, AlarmInClient, Answer,
         Die, prog, vars

\* Every behaviour of a session of is_sat, is_valid and simplify is one of the
\* oracle, up to the oracle's fairness: one reply to each query, the answer to
\* that very query, the safe fallback, or an exception where the operation lets
\* one out.
THEOREM SessionIsOracle ==
  ASSUME Ops \subseteq Recovering
  PROVE  Spec => Oracle!Init /\ [][Oracle!Next]_(Oracle!vars)
<1>1. Init => SyncInv /\ Errand /\ Oracle!Init
  <2>1. Init => SyncInv
    <3>1. Init => ProcessInv
      BY ProcessInit
    <3>2. Init => Sync
      BY DEF Init, NoOutcome, Sync, AnswerIsForQuery
    <3>3. QED
      BY <3>1, <3>2 DEF SyncInv
  <2>2. Init => Errand /\ Oracle!Init
    BY DEF Init, Errand, Busy, NoOutcome, Oracle!Init, Oracle!NoReply
  <2>3. QED
    BY <2>1, <2>2
<1>2. SyncInv /\ Errand /\ [Next]_vars => (SyncInv /\ Errand)'
  BY SyncStep, ErrandStep DEF SyncInv
<1>3. SyncInv /\ Errand /\ [Next]_vars => [Oracle!Next]_(Oracle!vars)
  BY OracleStep
<1>4. QED
  BY <1>1, <1>2, <1>3, PTL DEF Spec
=============================================================================
