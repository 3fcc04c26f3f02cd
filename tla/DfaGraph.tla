------------------------------ MODULE DfaGraph ------------------------------
(***************************************************************************)
(* The two operations that colour the transition graph backwards from the  *)
(* accepting states and change nothing but statuses: dfaRightQuotient      *)
(* (mona-1.4/DFA/quotient.c), done before a projection, and dfaPrefixClose *)
(* (mona-1.4/DFA/prefix.c).                                                *)
(***************************************************************************)
EXTENDS Automaton

\* The states from which goal can be reached along edges, goal included.
\* edges[p] is the set of successors of p.
CanReach(a, edges, goal) ==
    LET after[n \in 0..a.ns] ==
          IF n = 0 THEN goal
          ELSE LET found == after[n-1]
               IN found \cup {p \in States(a) : edges[p] \cap found # {}}
    IN after[a.ns]

WithStatus(a, s) == {p \in States(a) : a.f[p] = s}

\* read00: the successors under the letters that are 0 but perhaps on track i.
Padding(a, i) ==
    [p \in States(a) |-> {a.q[p][0], a.q[p][WithBit(0, i, 1)]}]

\* dfaRightQuotient: a state accepts if 0..0X0..0 letters lead it to a state
\* that did, else it rejects if they lead it to a state that did.
RightQuotient(a, i) ==
    LET accepting == CanReach(a, Padding(a, i), WithStatus(a, 1))
        rejecting == CanReach(a, Padding(a, i), WithStatus(a, -1))
    IN [a EXCEPT !.f = [p \in States(a) |->
                          IF p \in accepting THEN 1
                          ELSE IF p \in rejecting THEN -1 ELSE 0]]

\* dfaPrefixClose: a state accepts if any letters lead it to one that did.
PrefixClose(a) ==
    LET edges == [p \in States(a) |-> {a.q[p][l] : l \in Letters}]
        accepting == CanReach(a, edges, WithStatus(a, 1))
    IN [a EXCEPT !.f = [p \in States(a) |->
                          IF p \in accepting THEN 1 ELSE a.f[p]]]
=============================================================================
