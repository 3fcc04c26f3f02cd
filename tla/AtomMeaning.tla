---------------------------- MODULE AtomMeaning ----------------------------
(***************************************************************************)
(* What the atomic formulas of MONA mean, as relations on the values of    *)
(* their variables, against which the automata of BasicAutomata are        *)
(* checked.                                                                *)
(*                                                                         *)
(* A word interprets a track three ways: as the Boolean in the first       *)
(* letter, as the set of the positions where the track is 1, or, for a     *)
(* first-order variable, as the least of these positions.  A word that     *)
(* gives a first-order variable no position is outside of the logic; MONA  *)
(* makes it a don't-care with Restrict(FirstOrder).                        *)
(***************************************************************************)
EXTENDS BasicAutomata

\* The positions of a word, and the set and the number on track i.
Positions(w) == 0 .. Len(w) - 2
SetOn(w, i) == {n \in Positions(w) : Bit(w[n+2], i) = 1}
Least(S) == CHOOSE n \in S : \A m \in S : n <= m
Greatest(S) == CHOOSE n \in S : \A m \in S : m <= n
NumberOn(w, i) == Least(SetOn(w, i))

\* The number that track i denotes, least significant bit first.
BinaryOn(w, i) ==
    LET sum[n \in 0..Len(w)-1] ==
          IF n = 0 THEN 0 ELSE sum[n-1] + Bit(w[n+1], i) * 2^(n-1)
    IN sum[Len(w)-1]

-----------------------------------------------------------------------------
(* The kinds of atomic formulas (Code_...::makeDFA), their automata and    *)
(* their meaning.  args are tracks, val is the number in the formula.      *)

AtomAutomaton(kind, args, val) ==
    CASE kind = "True" -> True
      [] kind = "False" -> False
      [] kind = "EqEmpty" -> Empty(args[1])
      [] kind = "FirstOrder" -> FirstOrder(args[1])
      [] kind = "EqConst" -> Const(val, args[1])
      [] kind = "Singleton" -> Singleton(args[1])
      [] kind = "BoolVar" -> Boolvar(args[1])
      [] kind = "In" -> In(args[1], args[2])
      [] kind = "Eq1" -> Eq1(args[1], args[2])
      [] kind = "Eq2" -> Eq2(args[1], args[2])
      [] kind = "Sub2" -> Subset(args[1], args[2])
      [] kind = "Less1" -> Less(args[1], args[2])
      [] kind = "LessEq1" -> Lesseq(args[1], args[2])
      [] kind = "EqPlus2" -> Plus2(args[1], args[2])
      [] kind = "EqMinus2" -> Minus2(args[1], args[2])
      [] kind = "EqMin" -> Min(args[1], args[2])
      [] kind = "EqMax" -> Max(args[1], args[2])
      [] kind = "EqPlus1" -> Plus1(args[1], args[2], val)
      [] kind = "EqMinus1" -> Minus1(args[1], args[2])
      [] kind = "EqUnion" -> Union(args[1], args[2], args[3])
      [] kind = "EqInter" -> Inter(args[1], args[2], args[3])
      [] kind = "EqSetMinus" -> Setminus(args[1], args[2], args[3])
      [] kind = "EqPlusModulo" -> PlusModulo1(args[1], args[2], args[3])
      [] kind = "EqMinusModulo" -> MinusModulo1(args[1], args[2], args[3])
      [] kind = "EqPresbConst" -> PresbConst(args[1], val)

\* The arguments that are first-order variables.
NumberArgs(kind, args) ==
    CASE kind \in {"EqConst"} -> {args[1]}
      [] kind \in {"In", "EqMin", "EqMax"} -> {args[1]}
      [] kind \in {"Eq1", "Less1", "LessEq1", "EqPlus1", "EqMinus1"} ->
           {args[1], args[2]}
      [] kind \in {"EqPlusModulo", "EqMinusModulo"} ->
           {args[1], args[2], args[3]}
      [] OTHER -> {}

\* A word is in the logic for these first-order variables.
Interprets(w, numbers) == \A i \in numbers : SetOn(w, i) # {}

\* Subtraction of numbers stops at 0.
Pred(n) == IF n = 0 THEN 0 ELSE n - 1

\* The examples plusmodulo.mona and minusmodulo.mona in formulas.
PlusModulo(i, j, k) ==
    /\ j > k => i = 0
    /\ j + 1 < k => i = j + 1
    /\ j + 1 = k => i = 0
    /\ j = k /\ k > 1 => i = 1
    /\ j = k /\ k <= 1 => i = 0
MinusModulo(i, j, k) ==
    /\ j > k => i = 0
    /\ j <= k /\ j > 0 => i = j - 1
    /\ j <= k /\ j = 0 /\ k > 0 => i = k - 1
    /\ j <= k /\ j = 0 /\ k = 0 => i = 0

\* Does the word satisfy the formula?
Holds(kind, args, val, w) ==
    LET S(n) == SetOn(w, args[n])
        N(n) == NumberOn(w, args[n])
    IN CASE kind = "True" -> TRUE
         [] kind = "False" -> FALSE
         [] kind = "EqEmpty" -> S(1) = {}
         [] kind = "FirstOrder" -> S(1) # {}
         [] kind = "EqConst" -> N(1) = val
         [] kind = "Singleton" -> Cardinality(S(1)) = 1
         [] kind = "BoolVar" -> Bit(w[1], args[1]) = 1
         [] kind = "In" -> N(1) \in S(2)
         [] kind = "Eq1" -> N(1) = N(2)
         [] kind = "Eq2" -> S(1) = S(2)
         [] kind = "Sub2" -> S(1) \subseteq S(2)
         [] kind = "Less1" -> N(1) < N(2)
         [] kind = "LessEq1" -> N(1) <= N(2)
         [] kind = "EqPlus2" -> S(1) = {n + 1 : n \in S(2)}
         [] kind = "EqMinus2" -> S(1) = {Pred(n) : n \in S(2)}
         [] kind = "EqMin" -> N(1) = IF S(2) = {} THEN 0 ELSE Least(S(2))
         [] kind = "EqMax" -> N(1) = IF S(2) = {} THEN 0 ELSE Greatest(S(2))
         [] kind = "EqPlus1" -> N(1) = N(2) + val
         [] kind = "EqMinus1" -> N(1) = Pred(N(2))
         [] kind = "EqUnion" -> S(1) = S(2) \cup S(3)
         [] kind = "EqInter" -> S(1) = S(2) \cap S(3)
         [] kind = "EqSetMinus" -> S(1) = S(2) \ S(3)
         [] kind = "EqPlusModulo" -> PlusModulo(N(1), N(2), N(3))
         [] kind = "EqMinusModulo" -> MinusModulo(N(1), N(2), N(3))
         [] kind = "EqPresbConst" -> BinaryOn(w, args[1]) = val
=============================================================================
