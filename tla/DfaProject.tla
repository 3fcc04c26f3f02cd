----------------------------- MODULE DfaProject -----------------------------
(***************************************************************************)
(* dfaProject (mona-1.4/DFA/project.c): the automaton that guesses a track *)
(* is made deterministic by the subset construction.                       *)
(*                                                                         *)
(* A set of states is known by its place in the table ssets.  The          *)
(* transitions of the singletons come from projecting the BDDs of the      *)
(* automaton given (proj_term1).  Those of any other set are made when the *)
(* set is reached, from the transitions of the two sets it was first       *)
(* composed of, by joining leaves (proj_term2); these may have to be made  *)
(* first (eval_bdd).  Sets that are reached are numbered in the order in   *)
(* which they are met, and that is their state in the result (proj_term3). *)
(***************************************************************************)
EXTENDS Automaton

VARIABLES
    subject, track, \* the automaton given and the track to guess
    ssets,    \* the sets met: elements, decomp1, decomp2
    sq,       \* the transitions that have been made, by the number of the set
    single,   \* the singleton whose transitions come next
    evals,    \* the calls of eval_bdd that are active, as a stack
    queue,    \* the list from lst to lt: the set that is state n-1 at place n
    at,       \* the place of lh in the list
    leaves,   \* leaves of the BDD being built
    made      \* the BDDs of the result

projectVars ==
    <<subject, track, ssets, sq, single, evals, queue, at, leaves, made>>

\* Sets have numbers from 0.
Elements(n) == ssets[n + 1].elements
Made(n) == n \in DOMAIN sq
SetPlace(table, S) == CHOOSE n \in 1..Len(table) : table[n].elements = S

\* make_sset unless the hash table has the set, which is put together from
\* the sets d and e.
Table(S, d, e) ==
    IF \E n \in 1..Len(ssets) : ssets[n].elements = S THEN ssets
    ELSE Append(ssets, [elements |-> S, decomp1 |-> d, decomp2 |-> e])

\* The BDD that the leaves make, and the letter of the next leaf.
Root == [l \in Letters |-> leaves[l + 1]]
Letter == Len(leaves)

ProjectIdle ==
    /\ subject = NoAutomaton /\ track = 0
    /\ ssets = <<>> /\ sq = <<>> /\ single = 0
    /\ evals = <<>> /\ queue = <<>> /\ at = 1
    /\ leaves = <<>> /\ made = <<>>

Singletons(a) ==
    [n \in 1..a.ns |-> [elements |-> {n - 1}, decomp1 |-> None, decomp2 |-> None]]

ProjectStart(a, i) ==
    /\ subject' = a /\ track' = i
    /\ ssets' = Singletons(a)
    /\ sq' = <<>> /\ single' = 0
    /\ evals' = <<>> /\ queue' = <<>> /\ at' = 1
    /\ leaves' = <<>> /\ made' = <<>>

-----------------------------------------------------------------------------
(* The singletons: bdd_project with proj_term1 at the leaves. *)

Guess(p, l, b) == subject.q[p][WithBit(l, track, b)]

\* Faulty variant (see "mutants" in PROJECT.json): only one of the two guesses is made.
ProjTerm1OneGuess ==
    /\ single < subject.ns /\ Letter < LetterCount
    /\ LET p == Guess(single, Letter, 0)
       IN /\ ssets' = Table({p}, p, p)
          /\ leaves' = Append(leaves, SetPlace(ssets', {p}) - 1)
    /\ UNCHANGED <<subject, track, sq, single, evals, queue, at, made>>

ProjTerm1 ==
    /\ single < subject.ns /\ Letter < LetterCount
    /\ LET p == Guess(single, Letter, 0)
           q == Guess(single, Letter, 1)
       IN /\ ssets' = Table({p, q}, p, q)
          /\ leaves' = Append(leaves, SetPlace(ssets', {p, q}) - 1)
    /\ UNCHANGED <<subject, track, sq, single, evals, queue, at, made>>

\* After the last one, the start singleton becomes state 0.
SingletonMade ==
    /\ single < subject.ns /\ Letter = LetterCount
    /\ sq' = [n \in DOMAIN sq \cup {single} |-> IF n = single THEN Root ELSE sq[n]]
    /\ single' = single + 1
    /\ queue' = IF single + 1 = subject.ns THEN <<subject.s>> ELSE queue
    /\ leaves' = <<>>
    /\ UNCHANGED <<subject, track, ssets, evals, at, made>>

-----------------------------------------------------------------------------
(* The loop over the sets reached. *)

Evaluating == evals # <<>>
Innermost == evals[Len(evals)]
Decomp1 == ssets[Innermost + 1].decomp1
Decomp2 == ssets[Innermost + 1].decomp2

\* Faulty variant (see "mutants" in PROJECT.json): sets whose transitions are known are asked as well.
EvalQueuedAgain ==
    /\ at <= Len(queue) /\ ~Evaluating
    /\ evals' = <<queue[at]>>
    /\ UNCHANGED <<subject, track, ssets, sq, single, queue, at, leaves, made>>

\* eval_bdd(lh->sset_id) where there is something to do.
EvalQueued ==
    /\ at <= Len(queue) /\ ~Evaluating
    /\ ~Made(queue[at])
    /\ evals' = <<queue[at]>>
    /\ UNCHANGED <<subject, track, ssets, sq, single, queue, at, leaves, made>>

\* The recursive calls: the first component before the second.
EvalComponent ==
    /\ Evaluating
    /\ ~Made(Decomp1) \/ ~Made(Decomp2)
    /\ evals' = Append(evals, IF Made(Decomp1) THEN Decomp2 ELSE Decomp1)
    /\ UNCHANGED <<subject, track, ssets, sq, single, queue, at, leaves, made>>

\* bdd_apply2_hashed with proj_term2: the union of two leaves.
ProjTerm2 ==
    /\ Evaluating /\ Letter < LetterCount
    /\ Made(Decomp1) /\ Made(Decomp2)
    /\ LET m == sq[Decomp1][Letter]
           n == sq[Decomp2][Letter]
           S == Elements(m) \cup Elements(n)
       IN /\ ssets' = Table(S, m, n)
          /\ leaves' = Append(leaves, SetPlace(ssets', S) - 1)
    /\ UNCHANGED <<subject, track, sq, single, evals, queue, at, made>>

EvalReturns ==
    /\ Evaluating /\ Letter = LetterCount
    /\ sq' = [n \in DOMAIN sq \cup {Innermost} |->
                IF n = Innermost THEN Root ELSE sq[n]]
    /\ evals' = SubSeq(evals, 1, Len(evals) - 1)
    /\ leaves' = <<>>
    /\ UNCHANGED <<subject, track, ssets, single, queue, at, made>>

Numbered(list, n) == CHOOSE m \in 1..Len(list) : list[m] = n

\* bdd_apply1 with proj_term3: the set at a leaf gets a number, for good.
ProjTerm3 ==
    /\ at <= Len(queue) /\ ~Evaluating
    /\ Made(queue[at]) /\ Letter < LetterCount
    /\ LET n == sq[queue[at]][Letter]
       IN /\ queue' = IF \E m \in 1..Len(queue) : queue[m] = n THEN queue
                      ELSE Append(queue, n)
          /\ leaves' = Append(leaves, Numbered(queue', n) - 1)
    /\ UNCHANGED <<subject, track, ssets, sq, single, evals, at, made>>

NextSet ==
    /\ at <= Len(queue) /\ ~Evaluating
    /\ Letter = LetterCount
    /\ made' = Append(made, Root)
    /\ at' = at + 1
    /\ leaves' = <<>>
    /\ UNCHANGED <<subject, track, ssets, sq, single, evals, queue>>

ProjectStep ==
    \/ ProjTerm1 \/ SingletonMade
    \/ EvalQueued \/ EvalComponent \/ ProjTerm2 \/ EvalReturns
    \/ ProjTerm3 \/ NextSet

ProjectDone == queue # <<>> /\ at > Len(queue)

\* A set is don't care if all its states are, and accepts if one does.
SetStatus(S) ==
    IF \A p \in S : subject.f[p] = 0 THEN 0
    ELSE IF \E p \in S : subject.f[p] = 1 THEN 1 ELSE -1

ProjectResult ==
    [ns |-> Len(queue), s |-> 0,
     q  |-> [n \in 0..Len(queue)-1 |-> made[n + 1]],
     f  |-> [n \in 0..Len(queue)-1 |-> SetStatus(Elements(queue[n + 1]))]]

\* All calls of dfaProject on automata that are well formed.
ProjectInit ==
    /\ IsAutomaton(subject) /\ track \in 0..Tracks-1
    /\ ssets = Singletons(subject)
    /\ sq = <<>> /\ single = 0
    /\ evals = <<>> /\ queue = <<>> /\ at = 1
    /\ leaves = <<>> /\ made = <<>>

ProjectSpec == ProjectInit /\ [][ProjectStep]_projectVars

-----------------------------------------------------------------------------
(* The types of the construction. *)
ProjectTypeOK ==
    /\ ssets # <<>> => IsAutomaton(subject) /\ track \in 0..Tracks-1
    /\ ssets \in Seq([elements : SUBSET States(subject),
                      decomp1 : {None} \cup Nat, decomp2 : {None} \cup Nat])
    /\ DOMAIN sq \subseteq 0..Len(ssets)-1
    /\ \A n \in DOMAIN sq : sq[n] \in [Letters -> 0..Len(ssets)-1]
    /\ single \in 0..subject.ns
    /\ evals \in Seq(0..Len(ssets)-1)
    /\ queue \in Seq(0..Len(ssets)-1)
    /\ at \in 1..Len(queue)+1
    /\ leaves \in Seq(Nat) /\ Len(leaves) <= LetterCount
    /\ made \in Seq([Letters -> 0..Len(queue)-1])

\* The states that automaton a goes to from S with l, whatever the bit on i.
Guesses(a, i, S, l) == {a.q[p][WithBit(l, i, b)] : p \in S, b \in {0, 1}}

\* The subset construction, although the transitions of a set were made from
\* those of two other sets: a set goes to the states that its states go to,
\* whatever the bit on the track.
SubsetSuccessors ==
    \A n \in DOMAIN sq, l \in Letters :
      Elements(sq[n][l]) = Guesses(subject, track, Elements(n), l)

\* eval_bdd comes to an end, and never asks a singleton for its components
\* (they are -1): every call is for a set met before the set that asks.
EvalDescends ==
    \A n \in 1..Len(evals) :
      /\ evals[n] >= subject.ns
      /\ n > 1 => evals[n] < evals[n-1]

\* The hash table knows every set once, and so does the result.
SetsUnique ==
    /\ \A m, n \in 1..Len(ssets) : ssets[m].elements = ssets[n].elements => m = n
    /\ \A m, n \in 1..Len(queue) : queue[m] = queue[n] => m = n
=============================================================================
