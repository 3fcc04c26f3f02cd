-------------------------- MODULE SmtSessionProofs --------------------------
(***************************************************************************)
(* Theorems about SmtSession, for every value of its constants.  Type      *)
(* correctness is inductive once the place of the program says which       *)
(* operation it is in; that answers stay in step needs to know what may be *)
(* in the two pipes at every place.                                        *)
(***************************************************************************)
EXTENDS SmtSession, SequenceTheorems, TLAPS

\* A query, once written, is that of the operation in progress, which knows
\* that Z3 is running; only get_model reads outside the guarded call.
Placed ==
  /\ pc \in {"enter", "send", "wait", "read"} => op \in AllOps /\ outcome = NoOutcome
  /\ pc \in {"send", "wait", "read"} => running
  /\ pc = "read" => op = "model"

TInv == TypeOK /\ Placed

Quiet == input = <<>> /\ output = <<>>

\* What is in the pipes while the program waits: its query, or the reply to it.
Own ==
  \/ input = <<[from |-> q, op |-> op]>> /\ output = <<>>
  \/ input = <<>> /\ \A i \in DOMAIN output : output[i].from = q

\* The reply to a check ends with the first line that is no message.
VerdictLast == \A i \in DOMAIN output : output[i].text = "message" <=> i < Len(output)

InStep ==
  running /\ ~parsed =>
    /\ ~alive => input = <<>>
    /\ pc \in {"idle", "enter", "send"} => Quiet
    /\ pc \in {"wait", "read"} => Own
    /\ pc = "wait" /\ op = "check" => VerdictLast

IInv == TInv /\ InStep

-----------------------------------------------------------------------------
(* Sequences, and what Z3 replies.                                          *)

LEMMA TailFacts ==
  ASSUME NEW S, NEW s \in Seq(S), s # <<>>
  PROVE  /\ Tail(s) \in Seq(S) /\ Len(Tail(s)) = Len(s) - 1
         /\ \A i \in DOMAIN Tail(s) : i + 1 \in DOMAIN s /\ Tail(s)[i] = s[i + 1]
         /\ Head(s) = s[1] /\ Head(s) \in S /\ 1 \in DOMAIN s /\ Len(s) \in Nat /\ Len(s) >= 1
OBVIOUS

LEMMA TailOwn ==
  ASSUME NEW s \in Seq(Line), s # <<>>, NEW n, \A i \in DOMAIN s : s[i].from = n
  PROVE  \A i \in DOMAIN Tail(s) : Tail(s)[i].from = n
BY TailFacts

LEMMA TailVerdict ==
  ASSUME NEW s \in Seq(Line), s # <<>>,
         \A i \in DOMAIN s : s[i].text = "message" <=> i < Len(s)
  PROVE  \A i \in DOMAIN Tail(s) : Tail(s)[i].text = "message" <=> i < Len(Tail(s))
<1> SUFFICES ASSUME NEW i \in DOMAIN Tail(s)
             PROVE  Tail(s)[i].text = "message" <=> i < Len(Tail(s))
  OBVIOUS
<1>1. /\ i + 1 \in DOMAIN s /\ Tail(s)[i] = s[i + 1]
      /\ Len(Tail(s)) = Len(s) - 1 /\ Len(s) \in Nat /\ Tail(s) \in Seq(Line)
  BY TailFacts
<1>2. i \in Nat
  BY <1>1
<1>3. s[i + 1].text = "message" <=> i + 1 < Len(s)
  BY <1>1
<1> QED
  BY <1>1, <1>2, <1>3

LEMMA SuffixFacts ==
  ASSUME NEW S, NEW s \in Seq(S), NEW n \in DOMAIN s
  PROVE  SubSeq(s, n + 1, Len(s)) \in Seq(S)
OBVIOUS

LEMMA ConcatFacts ==
  ASSUME NEW S, NEW s \in Seq(S), NEW t \in Seq(S)
  PROVE  s \o t \in Seq(S) /\ (s = <<>> => s \o t = t)
OBVIOUS

LEMMA ReplyShape ==
  ASSUME NEW o \in AllOps, NEW texts \in Replies(o)
  PROVE  /\ texts \in Seq(Texts)
         /\ o = "check" => \A i \in DOMAIN texts : texts[i] = "message" <=> i < Len(texts)
<1>1. CASE texts = <<"verdict">>
  BY <1>1 DEF Texts
<1>2. CASE texts = <<"message", "verdict">>
  BY <1>2 DEF Texts
<1>3. CASE texts = <<"verdict", "message">> /\ o # "check"
  BY <1>3 DEF Texts
<1>4. CASE texts = <<"verdict", "short", "message", "short">> /\ o # "check"
  BY <1>4 DEF Texts
<1> QED
  BY <1>1, <1>2, <1>3, <1>4 DEF Replies

LEMMA LineShape ==
  ASSUME NEW query \in Query, NEW texts \in Seq(Texts)
  PROVE  /\ Lines(query, texts) \in Seq(Line)
         /\ DOMAIN Lines(query, texts) = DOMAIN texts
         /\ Len(Lines(query, texts)) = Len(texts)
         /\ \A i \in DOMAIN texts : /\ Lines(query, texts)[i].from = query.from
                                    /\ Lines(query, texts)[i].text = texts[i]
<1>1. Lines(query, texts) = [i \in 1 .. Len(texts) |-> [from |-> query.from, text |-> texts[i]]]
  BY DEF Lines
<1>2. \A i \in 1 .. Len(texts) : [from |-> query.from, text |-> texts[i]] \in Line
  BY DEF Query, Line
<1>3. Len(texts) \in Nat /\ DOMAIN texts = 1 .. Len(texts)
  OBVIOUS
<1> QED
  BY <1>1, <1>2, <1>3

-----------------------------------------------------------------------------
(* Type correctness.                                                        *)

LEMMA ReturnType ==
  ASSUME NEW k \in {"answer", "fallback", "raised"}, NEW f \in Nat, Return(k, f)
  PROVE  pc' = "idle" /\ outcome' \in Outcomes
BY DEF Return, Outcomes

LEMMA FreshType ==
  ASSUME Fresh
  PROVE  /\ running' = TRUE /\ alive' = TRUE /\ parsed' = FALSE
         /\ input' = <<>> /\ output' = <<>>
         /\ input' \in Seq(Query) /\ output' \in Seq(Line)
BY DEF Fresh

LEMMA TypeInit ==
  ASSUME Init
  PROVE  TInv
<1>1. input \in Seq(Query) /\ output \in Seq(Line)
  BY DEF Init
<1>2. outcome \in Outcomes
  BY DEF Init, NoOutcome, Outcomes
<1> QED
  BY <1>1, <1>2 DEF Init, TInv, TypeOK, Placed, Pcs

\* The client.
LEMMA ClientType ==
  ASSUME SmtAssumption, TInv, Client
  PROVE  TInv'
<1> USE DEF TInv, TypeOK, Placed, Pcs
<1>1. ASSUME NEW o \in Ops, Call(o)
      PROVE  TInv'
  <2>1. outcome' \in Outcomes /\ op' \in AllOps /\ q' \in Nat
    BY <1>1 DEF SmtAssumption, Call, NoOutcome, Outcomes
  <2> QED
    BY <1>1, <2>1 DEF Call, proc, chan
<1>2. CASE ClientStart
  BY <1>2, FreshType DEF ClientStart, call
<1>3. CASE ClientStop
  BY <1>3 DEF ClientStop, MayLoseAlarm, call, chan
<1>4. CASE ClientTimer
  BY <1>4 DEF ClientTimer, proc, call, chan
<1> QED
  BY <1>1, <1>2, <1>3, <1>4 DEF Client

\* check_formula and push_smt_input.
LEMMA ProgramType ==
  ASSUME TInv, Program
  PROVE  TInv'
<1> USE DEF TInv, TypeOK, Placed, Pcs
<1>1. CASE Enter
  <2>1. CASE running
    BY <1>1, <2>1 DEF Enter, proc, call, chan
  <2>2. CASE ~running
    BY <1>1, <2>2, FreshType DEF Enter, call
  <2> QED
    BY <2>1, <2>2
<1>2. CASE Send
  <2>1. [from |-> q, op |-> op] \in Query
    BY <1>2 DEF Send, Query
  <2>2. input' \in Seq(Query)
    BY <1>2, <2>1 DEF Send
  <2> QED
    BY <1>2, <2>2 DEF Send, proc, call
<1>3. CASE Written
  BY <1>3 DEF Written, proc, call, chan
<1>4. CASE Message
  BY <1>4, TailFacts DEF Message, proc, call
<1>5. CASE Verdict
  <2>1. /\ output' \in Seq(Line) /\ Head(output).from \in Nat
    <3>1. output \in Seq(Line) /\ output # <<>> /\ output' = Tail(output)
      BY <1>5 DEF Verdict
    <3>2. Tail(output) \in Seq(Line) /\ Head(output) \in Line
      BY <3>1, TailFacts
    <3> QED
      BY <3>1, <3>2 DEF Line
  <2>2. pc' = "idle" /\ outcome' \in Outcomes
    BY <1>5, <2>1, ReturnType DEF Verdict
  <2> QED
    BY <1>5, <2>1, <2>2 DEF Verdict, proc, call
<1>6. CASE EndOfFile
  <2>1. pc' = "idle" /\ outcome' \in Outcomes
    BY <1>6, ReturnType DEF EndOfFile
  <2>2. armed' \in BOOLEAN
    BY <1>6 DEF EndOfFile
  <2> QED
    BY <1>6, <2>1, <2>2 DEF EndOfFile, proc, call, chan
<1>7. CASE ModelRead
  <2>1. PICK n \in DOMAIN output :
          /\ output' = SubSeq(output, n + 1, Len(output))
          /\ \/ Return("answer", Head(output).from)
             \/ Return("fallback", 0)
    BY <1>7 DEF ModelRead
  <2>2. output' \in Seq(Line) /\ Head(output).from \in Nat
    <3>1. output \in Seq(Line) /\ output # <<>>
      BY <1>7 DEF ModelRead
    <3>2. SubSeq(output, n + 1, Len(output)) \in Seq(Line) /\ Head(output) \in Line
      BY <3>1, TailFacts, SuffixFacts
    <3> QED
      BY <2>1, <3>2 DEF Line
  <2>3. pc' = "idle" /\ outcome' \in Outcomes
    BY <2>1, <2>2, ReturnType
  <2> QED
    BY <1>7, <2>2, <2>3 DEF ModelRead, call
<1>8. CASE ModelEndOfFile
  <2>1. pc' = "idle" /\ outcome' \in Outcomes
    BY <1>8, ReturnType DEF ModelEndOfFile
  <2> QED
    BY <1>8, <2>1 DEF ModelEndOfFile, proc, call, chan
<1> QED
  BY <1>1, <1>2, <1>3, <1>4, <1>5, <1>6, <1>7, <1>8 DEF Program

\* The timer and Z3.
LEMMA OthersType ==
  ASSUME TInv, Alarm \/ Answer \/ Die
  PROVE  TInv'
<1> USE DEF TInv, TypeOK, Placed, Pcs
<1>1. CASE Timeout
  <2>1. CASE op = "check"
    <3>1. pc' = "idle" /\ outcome' \in Outcomes
      BY <1>1, <2>1, ReturnType DEF Timeout
    <3> QED
      BY <1>1, <3>1, FreshType DEF Timeout, call
  <2>2. CASE op # "check"
    BY <1>1, <2>2, FreshType DEF Timeout, call, AllOps
  <2> QED
    BY <2>1, <2>2
<1>2. CASE AlarmInClient
  BY <1>2 DEF AlarmInClient, proc, call, chan
<1>3. CASE Answer
  <2>1. PICK texts \in Replies(Head(input).op) : output' = output \o Lines(Head(input), texts)
    BY <1>3 DEF Answer
  <2>2. Head(input) \in Query /\ input' \in Seq(Query)
    BY <1>3, TailFacts DEF Answer
  <2>3. Lines(Head(input), texts) \in Seq(Line)
    BY <2>2, ReplyShape, LineShape DEF Query
  <2>4. output' \in Seq(Line)
    BY <2>1, <2>3, ConcatFacts
  <2> QED
    BY <1>3, <2>2, <2>4 DEF Answer, proc, call
<1>4. CASE Die
  <2>1. input' \in Seq(Query)
    BY <1>4 DEF Die
  <2> QED
    BY <1>4, <2>1 DEF Die, call
<1> QED
  BY <1>1, <1>2, <1>3, <1>4 DEF Alarm

LEMMA TypeStep ==
  ASSUME SmtAssumption, TInv, [Next]_vars
  PROVE  TInv'
<1>1. CASE UNCHANGED vars
  BY <1>1 DEF TInv, TypeOK, Placed, vars
<1> QED
  BY <1>1, ClientType, ProgramType, OthersType DEF Next

\* Every variable has its type, Z3 runs only while is_z3_running says so, and
\* no timer runs while get_model reads (smtsolver.ml).
THEOREM TypeCorrect == Spec => []TypeOK
<1>1. Init => TInv
  BY TypeInit
<1>2. TInv /\ [Next]_vars => TInv'
  BY TypeStep, SmtAssumption
<1>3. TInv => TypeOK
  BY DEF TInv
<1> QED
  BY <1>1, <1>2, <1>3, PTL DEF Spec

-----------------------------------------------------------------------------
(* Answers stay in step.                                                    *)

LEMMA InStepInit ==
  ASSUME Init
  PROVE  InStep
BY DEF Init, InStep

LEMMA FreshQuiet ==
  ASSUME Fresh, TInv', op' = op, pc' \in {"idle", "send", "read"}
  PROVE  InStep'
<1>1. /\ alive' /\ input' = <<>> /\ output' = <<>> /\ DOMAIN output' = {}
  BY DEF Fresh
<1> QED
  BY <1>1 DEF InStep, Quiet, Own

LEMMA ClientInStep ==
  ASSUME IInv, Client
  PROVE  InStep'
<1> USE DEF IInv, InStep, Quiet
<1>1. ASSUME NEW o \in Ops, Call(o)
      PROVE  InStep'
  BY <1>1 DEF Call, proc, chan
<1>2. CASE ClientStart
  BY <1>2 DEF ClientStart, Fresh
<1>3. CASE ClientStop
  BY <1>3 DEF ClientStop
<1>4. CASE ClientTimer
  BY <1>4 DEF ClientTimer, proc, call, chan
<1> QED
  BY <1>1, <1>2, <1>3, <1>4 DEF Client

\* The end of an operation that finds the pipes empty.
LEMMA BackIdle ==
  ASSUME pc' = "idle", running' /\ ~parsed' => Quiet'
  PROVE  InStep'
BY DEF InStep, Quiet

LEMMA ProgramInStep ==
  ASSUME IInv, Program
  PROVE  InStep'
<1> USE DEF IInv, TInv
<1>1. CASE Enter
  BY <1>1 DEF Enter, Fresh, InStep, Quiet, proc, call, chan
<1>2. CASE Send
  <2>1. UNCHANGED <<running, alive, parsed, op, q, output>>
    BY <1>2 DEF Send, proc, call
  <2>2. CASE alive /\ running /\ ~parsed
    <3>1. input = <<>> /\ output = <<>>
      BY <1>2, <2>2 DEF Send, InStep, Quiet
    <3>2. pc' = "wait" /\ input' = Append(<<>>, [from |-> q, op |-> op])
      BY <1>2, <2>2, <3>1 DEF Send
    <3>3. input' = <<[from |-> q', op |-> op']>> /\ output' = <<>>
      BY <2>1, <3>1, <3>2
    <3>4. Own' /\ DOMAIN output' = {}
      BY <3>3 DEF Own
    <3> QED
      BY <2>1, <2>2, <3>2, <3>4 DEF InStep, VerdictLast
  <2>3. CASE ~alive /\ running /\ ~parsed
    BY <1>2, <2>1, <2>3 DEF Send, InStep, Quiet
  <2>4. CASE ~running \/ parsed
    BY <2>1, <2>4 DEF InStep
  <2> QED
    BY <2>2, <2>3, <2>4 DEF TypeOK
<1>3. CASE Written
  BY <1>3 DEF Written, InStep, Own, proc, call, chan
<1>4. CASE Message
  <2> SUFFICES ASSUME running', ~parsed'
               PROVE  InStep'
    BY DEF InStep
  <2>1. /\ UNCHANGED <<running, alive, parsed, pc, op, q, input>>
        /\ pc = "wait" /\ op = "check"
        /\ output # <<>> /\ output' = Tail(output)
    BY <1>4 DEF Message, proc, call
  <2>2. Own /\ VerdictLast /\ (~alive => input = <<>>)
    BY <2>1 DEF InStep
  <2>3. output \in Seq(Line)
    BY DEF TypeOK
  <2>4. Own'
    <3>1. input = <<>> /\ \A i \in DOMAIN output : output[i].from = q
      BY <2>1, <2>2 DEF Own
    <3>2. \A i \in DOMAIN Tail(output) : Tail(output)[i].from = q
      BY <2>1, <2>3, <3>1, TailOwn
    <3> QED
      BY <2>1, <3>1, <3>2 DEF Own
  <2>5. VerdictLast'
    <3>1. \A i \in DOMAIN Tail(output) :
            Tail(output)[i].text = "message" <=> i < Len(Tail(output))
      BY <2>1, <2>2, <2>3, TailVerdict DEF VerdictLast
    <3> QED
      BY <2>1, <3>1 DEF VerdictLast
  <2> QED
    BY <2>1, <2>2, <2>4, <2>5 DEF InStep
<1>5. CASE Verdict
  <2> SUFFICES ASSUME running', ~parsed'
               PROVE  input' = <<>> /\ output' = <<>>
    BY <1>5, BackIdle DEF Verdict, Return, Quiet
  <2>1. /\ UNCHANGED <<running, parsed, input>>
        /\ pc = "wait" /\ op = "check"
        /\ output # <<>> /\ output' = Tail(output) /\ Head(output).text # "message"
    BY <1>5 DEF Verdict, proc, call
  <2>2. input = <<>> /\ VerdictLast
    BY <2>1 DEF InStep, Own
  <2>3. /\ Head(output) = output[1] /\ 1 \in DOMAIN output
        /\ Len(output) \in Nat /\ Len(output) >= 1
        /\ Tail(output) \in Seq(Line) /\ Len(Tail(output)) = Len(output) - 1
    BY <2>1, TailFacts DEF TypeOK
  <2>4. Len(Tail(output)) = 0
    BY <2>1, <2>2, <2>3 DEF VerdictLast
  <2>5. Tail(output) = <<>>
    BY <2>3, <2>4, EmptySeq
  <2> QED
    BY <2>1, <2>2, <2>5
<1>6. CASE EndOfFile
  BY <1>6, BackIdle DEF EndOfFile, Return, InStep, Quiet, proc, call, chan
<1>7. CASE ModelRead
  BY <1>7 DEF ModelRead, InStep
<1>8. CASE ModelEndOfFile
  BY <1>8, BackIdle DEF ModelEndOfFile, Return, InStep, Quiet, proc, call, chan
<1> QED
  BY <1>1, <1>2, <1>3, <1>4, <1>5, <1>6, <1>7, <1>8 DEF Program

LEMMA OthersInStep ==
  ASSUME IInv, TInv', Alarm \/ Answer \/ Die
  PROVE  InStep'
<1> USE DEF IInv, TInv
<1>1. CASE Timeout
  <2>1. Fresh /\ op' = op /\ pc' \in {"idle", "read"}
    BY <1>1 DEF Timeout, Return, call
  <2> QED
    BY <2>1, FreshQuiet
<1>2. CASE AlarmInClient
  BY <1>2 DEF AlarmInClient, InStep, Quiet, proc, call, chan
<1>3. CASE Answer
  <2> SUFFICES ASSUME running', ~parsed'
               PROVE  InStep'
    BY DEF InStep
  <2>1. /\ UNCHANGED <<running, alive, parsed, pc, op, q>>
        /\ alive /\ input # <<>> /\ input' = Tail(input)
    BY <1>3 DEF Answer, proc, call
  <2>2. pc \in {"idle", "enter", "send", "wait", "read"} => pc \in {"wait", "read"} /\ Own
    BY <2>1 DEF InStep, Quiet
  <2>3. CASE pc = "killed"
    BY <2>1, <2>3 DEF InStep
  <2>4. CASE pc \in {"wait", "read"}
    <3>1. input = <<[from |-> q, op |-> op]>> /\ output = <<>>
      BY <2>1, <2>2, <2>4 DEF Own
    <3>2. Head(input) = [from |-> q, op |-> op] /\ Head(input).op = op /\ input' = <<>>
      BY <2>1, <3>1
    <3>pick. PICK texts \in Replies(Head(input).op) : output' = output \o Lines(Head(input), texts)
      BY <1>3 DEF Answer
    <3>3. texts \in Replies(op) /\ output' = output \o Lines([from |-> q, op |-> op], texts)
      BY <3>2, <3>pick
    <3>4. /\ [from |-> q, op |-> op] \in Query /\ op \in AllOps
      BY <2>4 DEF TypeOK, Placed, Query
    <3> DEFINE reply == Lines([from |-> q, op |-> op], texts)
    <3>5. /\ texts \in Seq(Texts)
          /\ op = "check" => \A i \in DOMAIN texts : texts[i] = "message" <=> i < Len(texts)
      BY <3>3, <3>4, ReplyShape
    <3>6. /\ reply \in Seq(Line) /\ DOMAIN reply = DOMAIN texts /\ Len(reply) = Len(texts)
          /\ \A i \in DOMAIN texts : reply[i].from = q /\ reply[i].text = texts[i]
      BY <3>4, <3>5, LineShape
    <3>7. output' = reply
      BY <3>1, <3>3, <3>6, ConcatFacts DEF TypeOK
    <3> HIDE DEF reply
    <3>8. Own'
      BY <2>1, <3>2, <3>6, <3>7 DEF Own
    <3>9. op = "check" => VerdictLast'
      BY <3>5, <3>6, <3>7 DEF VerdictLast
    <3> QED
      BY <2>1, <2>4, <3>8, <3>9 DEF InStep
  <2> QED
    BY <2>2, <2>3, <2>4 DEF TypeOK, Pcs
<1>4. CASE Die
  BY <1>4 DEF Die, InStep, Quiet, Own, VerdictLast, call
<1> QED
  BY <1>1, <1>2, <1>3, <1>4 DEF Alarm

LEMMA InvStep ==
  ASSUME SmtAssumption, IInv, [Next]_vars
  PROVE  IInv'
<1>1. TInv'
  BY TypeStep DEF IInv
<1>2. ASSUME UNCHANGED vars
      PROVE  InStep'
  <2>1. UNCHANGED <<running, alive, parsed, pc, op, q, input, output>>
    BY <1>2 DEF vars
  <2>2. Quiet' = Quiet /\ Own' = Own /\ VerdictLast' = VerdictLast
    BY <2>1 DEF Quiet, Own, VerdictLast
  <2> QED
    BY <2>1, <2>2 DEF IInv, InStep
<1>3. ASSUME Next
      PROVE  InStep'
  <2>1. CASE Client
    BY <2>1, ClientInStep
  <2>2. CASE Program
    BY <2>2, ProgramInStep
  <2>3. CASE Alarm \/ Answer \/ Die
    BY <1>1, <2>3, OthersInStep
  <2> QED
    BY <1>3, <2>1, <2>2, <2>3 DEF Next
<1> QED
  BY <1>1, <1>2, <1>3 DEF IInv

\* The reply that an operation takes for an answer is its own.
LEMMA TakenIsOwn ==
  ASSUME IInv, [Next]_vars, pc = "wait" \/ pc = "read", outcome'.kind = "answer", ~parsed
  PROVE  outcome'.from = q
<1> USE DEF IInv, TInv
<1>1. outcome.kind = "none" /\ running
  BY DEF Placed, NoOutcome
<1>2. CASE Verdict \/ ModelRead
  <2>1. /\ output \in Seq(Line) /\ output # <<>>
        /\ outcome' = [kind |-> "answer", from |-> Head(output).from]
    BY <1>2 DEF Verdict, ModelRead, Return, TypeOK
  <2>2. \A i \in DOMAIN output : output[i].from = q
    BY <1>1, <2>1 DEF InStep, Own
  <2>3. Head(output) = output[1] /\ 1 \in DOMAIN output
    BY <2>1, TailFacts
  <2> QED
    BY <2>1, <2>2, <2>3
<1>3. CASE EndOfFile \/ ModelEndOfFile
  BY <1>3 DEF EndOfFile, ModelEndOfFile, Return
<1>4. CASE Timeout
  BY <1>1, <1>4 DEF Timeout, Return
<1>5. CASE Enter \/ Send \/ Written \/ Message
  BY <1>1, <1>5 DEF Enter, Send, Written, Message
<1>6. CASE Client \/ AlarmInClient
  BY <1>6 DEF Client, Call, ClientStart, ClientStop, ClientTimer, AlarmInClient
<1>7. CASE Answer \/ Die
  BY <1>1, <1>7 DEF Answer, Die
<1>8. CASE UNCHANGED vars
  BY <1>1, <1>8 DEF vars
<1> QED
  BY <1>2, <1>3, <1>4, <1>5, <1>6, <1>7, <1>8 DEF Next, Program, Alarm

\* Timeouts, crashes, messages and restarts never put the answers of
\* check_formula out of step, whatever the number of queries; only a reply read
\* by the parser of get_model can (smtsolver.ml).
THEOREM StayInStep == Spec => AnswersInStep
<1>1. Init => IInv
  BY TypeInit, InStepInit DEF IInv
<1>2. IInv /\ [Next]_vars => IInv'
  BY InvStep, SmtAssumption
<1>3. IInv /\ [Next]_vars =>
        [pc = "wait" \/ pc = "read" =>
           (outcome'.kind = "answer" /\ ~parsed => outcome'.from = q)]_vars
  BY TakenIsOwn
<1> QED
  BY <1>1, <1>2, <1>3, PTL DEF Spec, AnswersInStep
=============================================================================
