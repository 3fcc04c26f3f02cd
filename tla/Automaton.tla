----------------------------- MODULE Automaton -----------------------------
(***************************************************************************)
(* The finite automata of MONA's DFA package (mona-1.4/DFA/dfa.h, dfa.c),  *)
(* the decision procedure HIP runs as the prover "mona".                   *)
(*                                                                         *)
(* An automaton has ns states, a start state s, a status f per state       *)
(* (1 accept, -1 reject, 0 don't care) and a transition per state.  MONA   *)
(* keeps the transitions of a state in a BDD over the variable tracks whose *)
(* leaves are states; here q[p] is the function that BDD denotes.          *)
(*                                                                         *)
(* A letter gives one bit per track.  It is the number whose most          *)
(* significant bit is track 0, so that counting through the letters is     *)
(* walking through the paths of a BDD from left (0) to right (1), which is *)
(* the order in which the package meets leaves and numbers new states.     *)
(* The module BddTable is about the BDDs themselves.                       *)
(***************************************************************************)
EXTENDS Integers, Sequences, FiniteSets

CONSTANT Tracks        \* the number of variables in play

LetterCount == 2^Tracks

Letters == 0 .. LetterCount - 1

\* What track i, counted from 0, weighs in a letter.
Weight(i) == 2^(Tracks - 1 - i)

\* The bit letter l has on track i, and l with bit b there instead.
Bit(l, i) == (l \div Weight(i)) % 2
WithBit(l, i, b) == l + (b - Bit(l, i)) * Weight(i)

ASSUME TracksAssumption ==
    /\ Tracks \in Nat
    /\ LetterCount \in Nat \ {0}
    /\ \A l \in Letters, i \in 0..Tracks-1, b \in {0, 1} : WithBit(l, i, b) \in Letters

\* The letter whose bit on track i is b[i], for b \in [0..Tracks-1 -> {0,1}].
LetterOf(b) ==
    LET upto[i \in 0..Tracks] == IF i = 0 THEN 0 ELSE 2 * upto[i-1] + b[i-1]
    IN upto[Tracks]

Statuses == {-1, 0, 1}

States(a) == 0 .. a.ns - 1

IsAutomaton(a) ==
    /\ a.ns \in Nat \ {0}
    /\ a.s \in States(a)
    /\ a.q \in [States(a) -> [Letters -> States(a)]]
    /\ a.f \in [States(a) -> Statuses]

\* No automaton (a null pointer), and no number.
NoAutomaton == [ns |-> 0, s |-> 0, q |-> <<>>, f |-> <<>>]
None == -1

-----------------------------------------------------------------------------
(* The operations of dfa.c that work on one automaton. *)

\* dfaNegation: don't-care states keep their status.
Negation(a) == [a EXCEPT !.f = [p \in States(a) |-> -a.f[p]]]

\* dfaRestrict: what was rejected becomes don't care.
Restricted(a) ==
    [a EXCEPT !.f = [p \in States(a) |-> IF a.f[p] = -1 THEN 0 ELSE a.f[p]]]

\* dfaUnrestrict: what was don't care becomes rejected.
Unrestricted(a) ==
    [a EXCEPT !.f = [p \in States(a) |-> IF a.f[p] = 0 THEN -1 ELSE a.f[p]]]

\* dfaReplaceIndices: the variable at index i moves to index to[i].  The BDD
\* is relabelled in place, nodes are not reordered.
ReplacedIndices(a, to) ==
    LET Read(l) == LetterOf([i \in 0..Tracks-1 |->
                               IF i \in DOMAIN to THEN Bit(l, to[i]) ELSE 0])
    IN [a EXCEPT !.q = [p \in States(a) |-> [l \in Letters |-> a.q[p][Read(l)]]]]

\* Relabelling in place leaves a BDD ordered if the order is kept.
KeepsOrder(to) == \A i, j \in DOMAIN to : i < j => to[i] < to[j]

-----------------------------------------------------------------------------
(* Words.  The first letter of a word gives the Boolean variables, the     *)
(* others the positions 0, 1, ... of the string.                           *)

WordsUpTo(n) == UNION {[1..k -> Letters] : k \in 1..n}

\* The state that word w leads to from state p.
Reached(a, p, w) ==
    LET after[n \in 0..Len(w)] == IF n = 0 THEN p ELSE a.q[after[n-1]][w[n]]
    IN after[Len(w)]

\* What the automaton says of a word.
Says(a, w) == a.f[Reached(a, a.s, w)]

\* The states that can be reached in at most n steps from p.
Reachable(a) ==
    LET within[n \in 0..a.ns] ==
          IF n = 0 THEN {a.s}
          ELSE UNION {{p} \cup {a.q[p][l] : l \in Letters} : p \in within[n-1]}
    IN within[a.ns]
=============================================================================
