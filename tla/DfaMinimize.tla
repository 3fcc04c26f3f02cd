---------------------------- MODULE DfaMinimize ----------------------------
(***************************************************************************)
(* dfaMinimize (mona-1.4/DFA/minimize.c): partition refinement.  discrs[p] *)
(* is the number of the block of state p.  A round maps the transitions of *)
(* every state to block numbers and then renumbers the states: two states  *)
(* get the same number if they have the same mapped transitions and the    *)
(* same status (rename_partition).  Numbers are given in the order in which *)
(* the blocks are met, and the loop ends when their number does not grow.  *)
(*                                                                         *)
(* The array discrs is overwritten while it is renumbered, so the numbers  *)
(* in the transitions of the result are those of the round before.         *)
(***************************************************************************)
EXTENDS Automaton

VARIABLES
    given,      \* the automaton
    discrs,     \* the numbers given in this round, for states 0, 1, ...
    before,     \* discrs when the transitions were mapped
    keys,       \* the hash table of rename_partition, in order of insertion
    oldBlocks,  \* num_old_blocs
    again       \* the do loop has been entered

minimizeVars == <<given, discrs, before, keys, oldBlocks, again>>

\* new_bddm's root for p: its transitions, mapped by minimization_term_fn.
\* The call before the loop has zeros for roots, as if all were in block 0.
Mapped(p) == [l \in Letters |-> before[given.q[p][l]]]
\* Faulty variant (see "mutants" in PROJECT.json): the status does not tell states apart.
KeyAtAnyStatus(p) == <<Mapped(p), 0>>

\* Faulty variant (see "mutants" in PROJECT.json): transitions are compared as they were given.
KeyAtUnmapped(p) == <<given.q[p], given.f[p]>>

KeyAt(p) == <<Mapped(p), given.f[p]>>

KeyPlace(list, k) == CHOOSE n \in 1..Len(list) : list[n] = k

Renaming == Len(discrs) < given.ns
Renamed == given.ns # 0 /\ Len(discrs) = given.ns

\* num_new_blocs, which is 2 before the loop whatever the first call returned.
NewBlocks == IF again THEN Len(keys) ELSE 2

MinimizeIdle ==
    /\ given = NoAutomaton
    /\ discrs = <<>> /\ before = <<>> /\ keys = <<>>
    /\ oldBlocks = 0 /\ again = FALSE

MinimizeStart(a) ==
    /\ given' = a
    /\ before' = [p \in States(a) |-> 0]
    /\ discrs' = <<>> /\ keys' = <<>>
    /\ oldBlocks' = 0 /\ again' = FALSE

\* One turn of the loop of rename_partition.
Rename ==
    /\ Renaming
    /\ LET k == KeyAt(Len(discrs))
       IN /\ keys' = IF \E n \in 1..Len(keys) : keys[n] = k
                     THEN keys ELSE Append(keys, k)
          /\ discrs' = Append(discrs, KeyPlace(keys', k) - 1)
    /\ UNCHANGED <<given, before, oldBlocks, again>>

\* The top of the do loop: all transitions are mapped before the numbers
\* change.  The loop is entered once in any case.
Refine ==
    /\ Renamed
    /\ again => NewBlocks > oldBlocks
    /\ before' = [p \in States(given) |-> discrs[p + 1]]
    /\ oldBlocks' = NewBlocks
    /\ again' = TRUE
    /\ discrs' = <<>> /\ keys' = <<>>
    /\ UNCHANGED given

MinimizeStep == Rename \/ Refine

MinimizeDone == Renamed /\ again /\ NewBlocks <= oldBlocks

\* States of a block in order; the last one decides in b->q and b->f.
LastIn(n) == CHOOSE p \in States(given) :
                /\ discrs[p+1] = n
                /\ \A r \in States(given) : discrs[r+1] = n => r <= p

MinimizeResult ==
    [ns |-> Len(keys), s |-> discrs[given.s + 1],
     q  |-> [n \in 0..Len(keys)-1 |-> Mapped(LastIn(n))],
     f  |-> [n \in 0..Len(keys)-1 |-> given.f[LastIn(n)]]]

\* All calls of dfaMinimize on automata that are well formed.
MinimizeInit ==
    /\ IsAutomaton(given)
    /\ before = [p \in States(given) |-> 0]
    /\ discrs = <<>> /\ keys = <<>>
    /\ oldBlocks = 0 /\ again = FALSE

MinimizeSpec == MinimizeInit /\ [][MinimizeStep]_minimizeVars

-----------------------------------------------------------------------------
(* The types of the refinement. *)
MinimizeTypeOK ==
    /\ given.ns # 0 => IsAutomaton(given)
    /\ before \in [States(given) -> Nat]
    /\ discrs \in Seq(Nat) /\ Len(discrs) <= given.ns
    /\ keys \in Seq([Letters -> Nat] \X Statuses)
    /\ oldBlocks \in Nat
    /\ again \in BOOLEAN

\* The result is a quotient of the automaton given, although its transitions
\* name blocks by the numbers of one round and its states by those of the
\* next: the block of a state goes where the state goes, and has its status.
Quotient ==
    MinimizeDone =>
      \A p \in States(given) :
        LET to == MinimizeResult.q[discrs[p+1]]
        IN /\ \A l \in Letters : to[l] = discrs[given.q[p][l] + 1]
           /\ MinimizeResult.f[discrs[p+1]] = given.f[p]

\* States that a bisimulation relates accept the same words.
Bisimulation(R) ==
    \A pq \in R :
      /\ given.f[pq[1]] = given.f[pq[2]]
      /\ \A l \in Letters : <<given.q[pq[1]][l], given.q[pq[2]][l]>> \in R

KeepsTogether(R) ==
    \A pq \in R :
      /\ before[pq[1]] = before[pq[2]]
      /\ pq[1] < Len(discrs) /\ pq[2] < Len(discrs)
           => discrs[pq[1] + 1] = discrs[pq[2] + 1]

\* The pairs of states that the words of up to ns letters lead p and r to.
LedTo(p, r) ==
    LET within[n \in 0..given.ns] ==
          IF n = 0 THEN {<<p, r>>}
          ELSE UNION {{pq} \cup {<<given.q[pq[1]][l], given.q[pq[2]][l]>> :
                                   l \in Letters} : pq \in within[n-1]}
    IN within[given.ns]

\* The states that no word tells apart, which is the largest bisimulation.
Alike ==
    {pr \in States(given) \X States(given) :
       \A pq \in LedTo(pr[1], pr[2]) : given.f[pq[1]] = given.f[pq[2]]}

\* Nothing is split that could stay together, so the result is minimal:
\* equivalent states are in one block to the end.
NeverSplits == MinimizeDone => KeepsTogether(Alike)
=============================================================================
