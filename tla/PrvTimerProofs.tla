--------------------------- MODULE PrvTimerProofs ---------------------------
(***************************************************************************)
(* What holds of the timed calls for every set of limits, every depth of   *)
(* nesting and every value of the other constants.                         *)
(***************************************************************************)
EXTENDS PrvTimer, SequenceTheorems, TLAPS

\* The shape of the stack and of the innermost call: the handler is installed
\* as long as any call is in progress, because a nested call puts back the one
\* it found, which was installed; and once a call has cleared the timer nothing
\* sets it again before the handler is put back.
Shape ==
  /\ phase # "run" => calls # <<>>
  /\ calls # <<>> => handler = "raise_timeout"
  /\ \A i \in 2 .. Len(calls) : calls[i].old = "raise_timeout"
  /\ phase = "disarmed" => timer = 0

HandledInv == TypeOK /\ Shape /\ AlarmHandled

\* A nonempty sequence without its last element.
LEMMA AllButLast ==
  ASSUME NEW S, NEW s \in Seq(S), s # <<>>
  PROVE  /\ SubSeq(s, 1, Len(s) - 1) \in Seq(S)
         /\ Len(SubSeq(s, 1, Len(s) - 1)) = Len(s) - 1
         /\ \A i \in 1 .. Len(s) - 1 : SubSeq(s, 1, Len(s) - 1)[i] = s[i]
         /\ Len(s) \in Nat \ {0}
         /\ s[Len(s)] \in S
<1>1. Len(s) \in Nat /\ Len(s) >= 1
  BY EmptySeq, LenProperties
<1>2. s[Len(s)] \in S
  BY <1>1, ElementOfSeq
<1>3. SubSeq(s, 1, Len(s) - 1) \in Seq(S)
  BY <1>1
<1>4. Len(SubSeq(s, 1, Len(s) - 1)) = Len(s) - 1
  BY <1>1, SMTT(30)
<1>5. \A i \in 1 .. Len(s) - 1 : SubSeq(s, 1, Len(s) - 1)[i] = s[i]
  BY <1>1
<1>6. QED
  BY <1>1, <1>2, <1>3, <1>4, <1>5

\* Dropping the innermost call leaves a stack of calls.
LEMMA OuterType ==
  ASSUME calls \in Seq(Call), calls # <<>>
  PROVE  /\ Outer \in Seq(Call)
         /\ Len(Outer) = Len(calls) - 1
         /\ \A i \in 1 .. Len(calls) - 1 : Outer[i] = calls[i]
         /\ Len(calls) \in Nat \ {0}
         /\ Top \in Call
  BY AllButLast, Zenon DEF Outer, Top

\* A function from 1 .. n to S is a sequence of length n.
LEMMA FunctionIsSeq ==
  ASSUME NEW S, NEW n \in Nat, NEW f \in [1 .. n -> S]
  PROVE  f \in Seq(S) /\ Len(f) = n
  OBVIOUS

\* A second passing keeps the stack a stack of calls of the same length.
LEMMA TickType ==
  ASSUME TypeOK, Tick
  PROVE  /\ calls' \in Seq(Call)
         /\ Len(calls') = Len(calls)
         /\ \A i \in 1 .. Len(calls) : calls'[i].old = calls[i].old
<1>1. \A i \in DOMAIN calls : calls[i] \in Call
  BY ElementOfSeq, LenProperties DEF TypeOK
<1>2. \A i \in DOMAIN calls : Aged(calls[i]) \in Call
  BY <1>1, TimerAssumption DEF Aged, Call
<1>3. \A i \in DOMAIN calls : calls'[i] \in Call
  BY <1>1, <1>2 DEF Tick
<1>4. DOMAIN calls = 1 .. Len(calls) /\ Len(calls) \in Nat
  BY LenProperties DEF TypeOK
<1>5. calls' = [i \in 1 .. Len(calls) |->
                 IF phase = "arming" /\ i = Len(calls) THEN calls[i] ELSE Aged(calls[i])]
  BY <1>4 DEF Tick
<1>6. calls' \in [1 .. Len(calls) -> Call]
  BY <1>3, <1>4, <1>5
<1>7. calls' \in Seq(Call) /\ Len(calls') = Len(calls)
  BY <1>4, <1>6, FunctionIsSeq
<1>8. \A i \in 1 .. Len(calls) : calls'[i].old = calls[i].old
  BY <1>1, <1>4, <1>5 DEF Aged, Call
<1>9. QED
  BY <1>7, <1>8

LEMMA HandledInit ==
  ASSUME Init
  PROVE  HandledInv
<1>1. TypeOK
  <2>1. calls \in Seq(Call)
    BY EmptySeq DEF Init
  <2>2. cnt \in Int
    BY TimerAssumption DEF Init
  <2>3. stray \in BOOLEAN
    BY DEF Init
  <2>4. QED
    BY <2>1, <2>2, <2>3 DEF Init, TypeOK, Handlers
<1>2. Shape /\ AlarmHandled
  BY EmptySeq DEF Init, Shape, AlarmHandled
<1>3. QED
  BY <1>1, <1>2 DEF HandledInv

LEMMA HandledStep == HandledInv /\ [Next]_vars => HandledInv'
<1> SUFFICES ASSUME HandledInv, [Next]_vars PROVE HandledInv'
  OBVIOUS
<1> USE TimerAssumption DEF HandledInv, TypeOK, Shape, AlarmHandled
<1>1. CASE UNCHANGED vars
  BY <1>1 DEF vars
<1>2. ASSUME NEW k \in Kinds, NEW l \in Limits, Enter(k, l) PROVE HandledInv'
  <2>1. [kind |-> k, limit |-> l, old |-> handler, age |-> 0] \in Call
    BY <1>2 DEF Call
  <2>2. calls' \in Seq(Call) /\ calls' # <<>>
    BY <1>2, <2>1, AppendProperties DEF Enter
  <2>3. QED
    BY <1>2, <2>2 DEF Enter, Handlers
<1>3. CASE SetTimer
  <2>1. Top.limit \in Nat
    BY <1>3, OuterType DEF SetTimer, Call
  <2>2. QED
    BY <1>3, <2>1 DEF SetTimer
<1>4. CASE FnReturns
  BY <1>4 DEF FnReturns
<1>5. CASE ClearTimer
  BY <1>5 DEF ClearTimer
<1>6. CASE ResetHandler
  <2>1. /\ Outer \in Seq(Call) /\ Len(Outer) = Len(calls) - 1
        /\ \A i \in 1 .. Len(calls) - 1 : Outer[i] = calls[i]
        /\ Len(calls) \in Nat \ {0}
    BY <1>6, OuterType DEF ResetHandler
  <2>2. Top.old \in Handlers
    BY <1>6, OuterType DEF ResetHandler, Call
  <2>3. Outer # <<>> => Top.old = "raise_timeout"
    <3>1. Outer # <<>> => Len(Outer) # 0
      BY <2>1, EmptySeq
    <3>2. QED
      BY <2>1, <3>1 DEF Top
  <2>4. QED
    BY <1>6, <2>1, <2>2, <2>3 DEF ResetHandler
<1>7. CASE FnRaises
  BY <1>7 DEF FnRaises
<1>8. CASE Tick
  <2>1. /\ calls' \in Seq(Call)
        /\ Len(calls') = Len(calls)
        /\ \A i \in 1 .. Len(calls) : calls'[i].old = calls[i].old
    BY <1>8, TickType
  <2>2. calls # <<>> => calls' # <<>>
    BY <2>1, EmptySeq, LenProperties
  <2>3. /\ timer' \in Nat /\ exn' \in {"none", "Timeout"}
        /\ timer' > 0 => timer > 0
        /\ timer = 0 => timer' = 0
        /\ UNCHANGED <<phase, handler, cnt, stray>>
    BY <1>8 DEF Tick
  <2>4. TypeOK'
    BY <2>1, <2>3
  <2>5. Shape'
    BY <2>1, <2>2, <2>3, LenProperties
  <2>6. QED
    BY <2>3, <2>4, <2>5
<1>9. CASE Unwind
  <2>1. /\ Outer \in Seq(Call) /\ Len(Outer) = Len(calls) - 1
        /\ \A i \in 1 .. Len(calls) - 1 : Outer[i] = calls[i]
        /\ Len(calls) \in Nat \ {0}
    BY <1>9, OuterType DEF Unwind
  <2>2. NextCnt \in Int
    BY DEF NextCnt
  <2>3. QED
    BY <1>9, <2>1, <2>2 DEF Unwind
<1>10. CASE Catch
  BY <1>10 DEF Catch
<1>11. QED
  BY <1>1, <1>2, <1>3, <1>4, <1>5, <1>6, <1>7, <1>8, <1>9, <1>10 DEF Next

\* The variables of the timed calls keep their types.
THEOREM TypeCorrect == Spec => []TypeOK
<1>1. HandledInv => TypeOK
  BY DEF HandledInv
<1>2. QED
  BY HandledInit, HandledStep, <1>1, PTL DEF Spec

\* SIGALRM never arrives with its default disposition, whatever fn raises or
\* swallows and however deeply the calls nest.
THEOREM AlarmAlwaysHandled == Spec => []AlarmHandled
<1>1. HandledInv => AlarmHandled
  BY DEF HandledInv
<1>2. QED
  BY HandledInit, HandledStep, <1>1, PTL DEF Spec

(***************************************************************************)
(* A running timer that is not stray belongs to a call in progress, and    *)
(* has at most that call's remaining time left.                            *)
(***************************************************************************)
Owner == IF phase = "arming" THEN Len(calls) - 1 ELSE Len(calls)

Owned ==
  /\ exn = "Timeout" => timer = 0
  /\ timer > 0 /\ ~stray => Owner >= 1 /\ calls[Owner].age + timer >= calls[Owner].limit

DueInv == HandledInv /\ Owned

\* A second passing keeps the timer owned, and if it raises Timeout, the owner
\* has used up its limit.
LEMMA OwnedTick ==
  ASSUME DueInv, Tick
  PROVE  /\ Owned'
         /\ timer = 1 /\ ~stray =>
              \E i \in DOMAIN calls' : calls'[i].age >= calls'[i].limit
<1> USE DEF DueInv, HandledInv, TypeOK
<1>1. /\ calls' \in Seq(Call)
      /\ Len(calls') = Len(calls)
      /\ Len(calls) \in Nat
      /\ DOMAIN calls = 1 .. Len(calls)
      /\ DOMAIN calls' = 1 .. Len(calls)
      /\ Owner' = Owner /\ Owner \in Int
  BY TickType, LenProperties DEF Tick, Owner
<1>2. CASE timer = 0 \/ stray
  <2>1. stray' = stray
    BY DEF Tick
  <2>2. timer = 0 => timer' = 0
    BY DEF Tick
  <2>3. timer' = 0 \/ stray'
    BY <1>2, <2>1, <2>2
  <2>4. exn' = "Timeout" => timer' = 0
    BY DEF Tick
  <2>5. timer = 1 => stray
    BY <1>2
  <2>6. Owned'
    BY <2>3, <2>4 DEF Owned
  <2>7. QED
    BY <2>5, <2>6
<1>3. CASE timer > 0 /\ ~stray
  <2>1. Owner \in 1 .. Len(calls) /\ calls[Owner].age + timer >= calls[Owner].limit
    BY <1>1, <1>3 DEF Owned, Owner
  <2>2. calls[Owner] \in Call
    BY <1>1, <2>1, ElementOfSeq
  <2>3. calls'[Owner] = Aged(calls[Owner])
    <3>1. phase = "arming" => Owner # Len(calls)
      <4>1. Len(calls) \in Nat
        BY <1>1
      <4>2. QED
        BY <4>1 DEF Owner
    <3>2. Owner \in DOMAIN calls
      BY <1>1, <2>1
    <3>3. calls' = [i \in DOMAIN calls |->
                     IF phase = "arming" /\ i = Len(calls) THEN calls[i] ELSE Aged(calls[i])]
      BY DEF Tick
    <3>4. QED
      BY <3>1, <3>2, <3>3
  <2>4. /\ calls[Owner].age \in Nat /\ calls[Owner].limit \in Nat
        /\ calls'[Owner].limit = calls[Owner].limit
        /\ calls'[Owner].age =
             IF calls[Owner].age > calls[Owner].limit
             THEN calls[Owner].age ELSE calls[Owner].age + 1
    BY <2>2, <2>3, TimerAssumption DEF Aged, Call
  <2>5. calls'[Owner].age + (timer - 1) >= calls'[Owner].limit
    BY <1>3, <2>1, <2>4
  <2>6. timer' = timer - 1 /\ (exn' # "none" => timer = 1) /\ stray' = stray
    BY <1>3 DEF Tick
  <2>7. Owned'
    BY <1>1, <1>3, <2>1, <2>5, <2>6 DEF Owned
  <2>8. timer = 1 => calls'[Owner].age >= calls'[Owner].limit
    BY <2>4, <2>5
  <2>9. timer = 1 => \E i \in DOMAIN calls' : calls'[i].age >= calls'[i].limit
    <3>1. Owner \in DOMAIN calls'
      BY <1>1, <2>1
    <3>2. QED
      BY <2>8, <3>1
  <2>10. QED
    BY <2>7, <2>9
<1>4. QED
  BY <1>2, <1>3

LEMMA DueInit == Init => DueInv
<1>1. Init => Owned
  BY DEF Init, Owned
<1>2. QED
  BY <1>1, HandledInit DEF DueInv

LEMMA DueStep ==
  ASSUME DueInv, [Next]_vars
  PROVE  DueInv'
<1>1. HandledInv'
  BY HandledStep DEF DueInv
<1>2. Owned'
  <2> USE DEF DueInv, HandledInv, TypeOK
  <2>1. CASE UNCHANGED vars
    BY <2>1 DEF vars, Owned, Owner
  <2>2. ASSUME NEW k \in Kinds, NEW l \in Limits, Enter(k, l) PROVE Owned'
    <3>1. [kind |-> k, limit |-> l, old |-> handler, age |-> 0] \in Call
      BY DEF Call
    <3>2. /\ Len(calls') = Len(calls) + 1 /\ Len(calls) \in Nat
          /\ \A i \in 1 .. Len(calls) : calls'[i] = calls[i]
      BY <2>2, <3>1, AppendProperties, LenProperties DEF Enter
    <3>3. Owner = Len(calls) /\ Owner' = Len(calls)
      BY <2>2, <3>2 DEF Enter, Owner
    <3>4. timer > 0 /\ ~stray => calls'[Owner] = calls[Owner]
      BY <3>2, <3>3 DEF Owned
    <3>5. QED
      BY <2>2, <3>3, <3>4 DEF Enter, Owned
  <2>3. CASE SetTimer
    <3>1. calls # <<>>
      BY <2>3 DEF SetTimer, Shape
    <3>2. Len(calls) \in Nat \ {0} /\ Top \in Call
      BY <3>1, OuterType
    <3>3. Top.limit \in Nat /\ Top.age \in Nat
      BY <3>2, TimerAssumption DEF Call
    <3>4. Owner' = Len(calls) /\ calls' = calls /\ timer' = Top.limit /\ exn' = "none"
      BY <2>3 DEF SetTimer, Owner
    <3>5. QED
      BY <3>2, <3>3, <3>4 DEF Owned, Top
  <2>4. CASE FnReturns
    BY <2>4 DEF FnReturns, Owned, Owner
  <2>5. CASE ClearTimer
    BY <2>5 DEF ClearTimer, Owned
  <2>6. CASE ResetHandler
    BY <2>6 DEF ResetHandler, Shape, Owned
  <2>7. CASE FnRaises
    BY <2>7 DEF FnRaises, Owned, Owner
  <2>8. CASE Tick
    BY <2>8, OwnedTick
  <2>9. CASE Unwind
    <3>1. timer' > 0 => stray'
      BY <2>9 DEF Unwind
    <3>2. timer' = timer /\ (exn' = "Timeout" => exn = "Timeout")
      BY <2>9 DEF Unwind
    <3>3. exn' = "Timeout" => timer' = 0
      BY <3>2 DEF Owned
    <3>4. ~(timer' > 0 /\ ~stray')
      BY <3>1
    <3>5. QED
      BY <3>3, <3>4 DEF Owned
  <2>10. CASE Catch
    BY <2>10 DEF Catch, Owned, Owner
  <2>11. QED
    BY <2>1, <2>2, <2>3, <2>4, <2>5, <2>6, <2>7, <2>8, <2>9, <2>10 DEF Next
<1>3. QED
  BY <1>1, <1>2 DEF DueInv

\* Only a second passing raises Timeout.
LEMMA DueAction ==
  ASSUME DueInv, [Next]_vars
  PROVE  [exn = "none" /\ exn' = "Timeout" /\ ~stray =>
            \E i \in DOMAIN calls' : calls'[i].age >= calls'[i].limit]_vars
<1> SUFFICES ASSUME exn = "none", exn' = "Timeout", ~stray
             PROVE  \E i \in DOMAIN calls' : calls'[i].age >= calls'[i].limit
  OBVIOUS
<1>1. Tick /\ timer = 1
  BY DEF Next, vars, Enter, SetTimer, FnReturns, ClearTimer, ResetHandler, FnRaises,
         Tick, Unwind, Catch
<1>2. QED
  BY <1>1, OwnedTick

LEMMA DueInvariant == Spec => []DueInv
<1>1. DueInv /\ [Next]_vars => DueInv'
  BY DueStep
<1>2. QED
  BY DueInit, <1>1, PTL DEF Spec

\* When Timeout is raised some guarded call still in progress has used up its
\* limit, or the timer is stray: for all limits, every depth of nesting and
\* whatever fn raises or swallows (maybe_raise_timeout).
THEOREM TimeoutAlwaysDue == Spec => TimeoutIsDue
<1>1. DueInv /\ [Next]_vars =>
        [exn = "none" /\ exn' = "Timeout" /\ ~stray =>
           \E i \in DOMAIN calls' : calls'[i].age >= calls'[i].limit]_vars
  BY DueAction
<1>2. QED
  BY DueInvariant, <1>1, PTL DEF Spec, TimeoutIsDue

\* The step that makes a timer stray.
BecomesStray ==
  [][stray' /\ ~stray => exn = "Other" /\ calls # <<>> /\ timer > 0]_vars

\* A timer becomes stray only when an exception that is not Timeout leaves a
\* guarded call: Timeout itself never leaves a timer running, neither where it is
\* caught nor where it goes on to the callers (the "with e -> raise e" of
\* maybe_raise_timeout).
THEOREM OnlyOthersStray == Spec => BecomesStray
<1>1. DueInv /\ [Next]_vars =>
        [stray' /\ ~stray => exn = "Other" /\ calls # <<>> /\ timer > 0]_vars
  <2> SUFFICES ASSUME DueInv, [Next]_vars, stray', ~stray
               PROVE  exn = "Other" /\ calls # <<>> /\ timer > 0
    OBVIOUS
  <2>1. Unwind
    BY DEF Next, vars, Enter, SetTimer, FnReturns, ClearTimer, ResetHandler, FnRaises,
           Tick, Catch
  <2>2. timer > 0
    BY <2>1 DEF Unwind
  <2>3. QED
    BY <2>1, <2>2 DEF Unwind, DueInv, HandledInv, TypeOK, Owned
<1>2. QED
  BY DueInvariant, <1>1, PTL DEF Spec, BecomesStray

(***************************************************************************)
(* When guarded calls do not nest, the timer of the one in progress is the *)
(* one that was set for it, whatever an earlier call left running.         *)
(***************************************************************************)
OnTime ==
  /\ Len(calls) <= MaxDepth
  /\ calls # <<>> /\ phase = "arming" => Top.age = 0
  /\ calls # <<>> /\ phase = "run" /\ Top.limit > 0 =>
       Top.age <= Top.limit /\ (exn = "none" => timer > 0 /\ Top.age + timer = Top.limit)

FlatInv == HandledInv /\ OnTime

\* With no nesting there is one call or none.
LEMMA OneCall ==
  ASSUME MaxDepth <= 1, FlatInv, calls # <<>>
  PROVE  /\ Len(calls) = 1 /\ DOMAIN calls = {1} /\ Top = calls[1] /\ Top \in Call
         /\ Top.age \in Nat /\ Top.limit \in Nat
         /\ Outer = <<>>
<1>1. calls \in Seq(Call)
  BY DEF FlatInv, HandledInv, TypeOK
<1>2. Len(calls) \in Nat \ {0} /\ Top \in Call /\ Outer \in Seq(Call)
      /\ Len(Outer) = Len(calls) - 1
  BY <1>1, OuterType
<1>3. Len(calls) = 1
  BY <1>2, TimerAssumption DEF FlatInv, OnTime
<1>4. DOMAIN calls = {1}
  BY <1>1, <1>3, LenProperties
<1>5. Outer = <<>>
  BY <1>2, <1>3, EmptySeq
<1>6. QED
  BY <1>2, <1>3, <1>4, <1>5, TimerAssumption DEF Top, Call

LEMMA FlatStep ==
  ASSUME MaxDepth <= 1, ~FnCatches, FlatInv, [Next]_vars
  PROVE  FlatInv'
<1>1. HandledInv'
  BY HandledStep DEF FlatInv
<1>2. /\ calls \in Seq(Call) /\ timer \in Nat /\ MaxDepth \in Nat
      /\ Len(calls) \in Nat /\ Len(calls) <= MaxDepth
  BY TimerAssumption, LenProperties DEF FlatInv, HandledInv, TypeOK, OnTime
<1>3. OnTime'
  <2>1. CASE UNCHANGED vars
    BY <2>1 DEF vars, FlatInv, OnTime, Top
  <2>2. ASSUME NEW k \in Kinds, NEW l \in Limits, Enter(k, l)
        PROVE  OnTime'
    <3> DEFINE c == [kind |-> k, limit |-> l, old |-> handler, age |-> 0]
    <3>1. c \in Call /\ c.age = 0
      BY <2>2, TimerAssumption DEF Call, Enter, FlatInv, HandledInv, TypeOK
    <3> HIDE DEF c
    <3>2. calls' = Append(calls, c) /\ phase' = "arming" /\ Len(calls) < MaxDepth
      BY <2>2 DEF Enter, c
    <3>3. Len(calls') = Len(calls) + 1 /\ calls'[Len(calls) + 1] = c
      BY <1>2, <3>1, <3>2, AppendProperties
    <3>4. Top'.age = 0
      BY <3>1, <3>3 DEF Top
    <3>5. QED
      BY <1>2, <3>2, <3>3, <3>4 DEF OnTime
  <2>3. CASE SetTimer
    <3>1. calls # <<>>
      BY <2>3 DEF SetTimer, FlatInv, HandledInv, Shape
    <3>2. Top.age = 0 /\ Top.limit \in Nat
      BY <2>3, <3>1, OneCall DEF SetTimer, FlatInv, OnTime
    <3>3. calls' = calls /\ Top' = Top /\ timer' = Top.limit
      BY <2>3 DEF SetTimer, Top
    <3>4. QED
      BY <1>2, <3>2, <3>3 DEF OnTime
  <2>4. CASE FnReturns \/ ClearTimer
    BY <1>2, <2>4 DEF FnReturns, ClearTimer, OnTime, FlatInv
  <2>5. CASE ResetHandler \/ Unwind
    <3>1. calls # <<>> /\ calls' = Outer
      BY <2>5 DEF ResetHandler, Unwind, FlatInv, HandledInv, Shape
    <3>2. calls' = <<>>
      BY <3>1, OneCall
    <3>3. QED
      BY <1>2, <3>2, EmptySeq DEF OnTime
  <2>6. CASE FnRaises
    BY <2>6 DEF FnRaises, FlatInv, OnTime, Top
  <2>7. CASE Tick
    <3>1. CASE calls = <<>>
      <4>1. Len(calls') = 0
        BY <2>7, <3>1, TickType, EmptySeq DEF FlatInv, HandledInv
      <4>2. calls' = <<>>
        BY <4>1, <2>7, TickType, EmptySeq DEF FlatInv, HandledInv
      <4>3. QED
        BY <1>2, <4>1, <4>2 DEF OnTime
    <3>2. CASE calls # <<>>
      <4>1. /\ Len(calls) = 1 /\ DOMAIN calls = {1} /\ Top = calls[1] /\ Top \in Call
            /\ Top.age \in Nat /\ Top.limit \in Nat
        BY <3>2, OneCall
      <4>2. Len(calls') = 1
        BY <2>7, <4>1, TickType DEF FlatInv, HandledInv
      <4>3. Top' = IF phase = "arming" THEN Top ELSE Aged(Top)
        BY <2>7, <4>1, <4>2 DEF Tick, Top
      <4>4. /\ phase' = phase /\ exn = "none"
            /\ timer' = (IF timer = 0 THEN 0 ELSE timer - 1)
            /\ exn' = (IF timer = 1 THEN "Timeout" ELSE "none")
        BY <2>7 DEF Tick
      <4>5. Aged(Top).limit = Top.limit
            /\ Aged(Top).age = (IF Top.age > Top.limit THEN Top.age ELSE Top.age + 1)
        BY <4>1 DEF Aged, Call
      <4>6. phase = "arming" => Top'.age = 0
        BY <3>2, <4>3 DEF FlatInv, OnTime
      <4>7. ASSUME phase = "run", Top'.limit > 0
            PROVE  Top'.age <= Top'.limit
                   /\ (exn' = "none" => timer' > 0 /\ Top'.age + timer' = Top'.limit)
        <5>1. Top.limit > 0 /\ Top' = Aged(Top)
          BY <4>3, <4>5, <4>7
        <5>2. timer > 0 /\ Top.age + timer = Top.limit
          BY <3>2, <4>4, <4>7, <5>1 DEF FlatInv, OnTime
        <5>3. Top'.age = Top.age + 1 /\ Top'.limit = Top.limit
          BY <1>2, <4>1, <4>5, <5>1, <5>2
        <5>4. QED
          BY <1>2, <4>1, <4>4, <5>2, <5>3
      <4>8. QED
        BY <1>2, <2>7, <4>1, <4>2, <4>4, <4>6, <4>7 DEF OnTime, Tick
    <3>3. QED
      BY <3>1, <3>2
  <2>8. CASE Catch
    <3>1. calls = <<>> /\ calls' = calls
      BY <2>8 DEF Catch
    <3>2. QED
      BY <1>2, <3>1 DEF OnTime
  <2>9. QED
    BY <2>1, <2>2, <2>3, <2>4, <2>5, <2>6, <2>7, <2>8 DEF Next
<1>4. QED
  BY <1>1, <1>3 DEF FlatInv

\* No fn guarded with a limit is still running when its limit has passed, as
\* long as guarded calls do not nest and fn swallows no exception: also after
\* a call that left its timer running.
THEOREM FlatWithinLimit ==
  ASSUME MaxDepth <= 1, ~FnCatches
  PROVE  Spec => []WithinLimit
<1>1. Init => FlatInv
  <2>1. Init => HandledInv
    BY HandledInit
  <2>2. Init => OnTime
    BY TimerAssumption, EmptySeq DEF Init, OnTime
  <2>3. QED
    BY <2>1, <2>2 DEF FlatInv
<1>2. FlatInv /\ [Next]_vars => FlatInv'
  BY FlatStep
<1>3. FlatInv => WithinLimit
  <2>1. SUFFICES ASSUME FlatInv, NEW i \in DOMAIN calls, FnRunning(i), calls[i].limit > 0
                 PROVE  calls[i].age <= calls[i].limit
    BY DEF WithinLimit
  <2>2. calls # <<>>
    BY <2>1
  <2>3. Len(calls) = 1 /\ i = 1 /\ Top = calls[1]
    BY <2>1, <2>2, OneCall
  <2>4. phase = "run"
    BY <2>1, <2>3 DEF FnRunning
  <2>5. QED
    BY <2>1, <2>2, <2>3, <2>4 DEF FlatInv, OnTime
<1>4. QED
  BY <1>1, <1>2, <1>3, PTL DEF Spec
=============================================================================
