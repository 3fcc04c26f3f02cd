----------------------------- MODULE DfaProduct -----------------------------
(***************************************************************************)
(* dfaProduct (mona-1.4/DFA/product.c): the automaton of p op q from those *)
(* of p and q.  Product states are found while the BDDs of their           *)
(* transitions are built: every leaf reached is a pair of states, looked   *)
(* up in a hash table and put on a list if new (prod_term_fn); the list is *)
(* worked through from the front.                                          *)
(*                                                                         *)
(* The list is never shortened while the loop runs, so that the number the *)
(* hash table gives to a pair is its place in the list, less one.          *)
(***************************************************************************)
EXTENDS Automaton

VARIABLES
    left, right,   \* the automata given
    binop,         \* the operation, one of Ops
    pairs,         \* the list from qst to qt, and the hash table
    head,          \* the place of qh in the list
    row,           \* leaves of the BDD being built for the pair at head
    roots          \* the BDDs built, bdd_roots(bddm)

productVars == <<left, right, binop, pairs, head, row, roots>>

\* dfaProductType.  Bit 2*x + y of the number is the result for x and y.
AND == 8
OR == 14
IMPL == 11
BIIMPL == 9
Ops == {AND, OR, IMPL, BIIMPL}

Binfun(op, x, y) == (op \div 2^(2*x + y)) % 2
StatusToBool(s) == IF s = -1 THEN 0 ELSE 1
BoolToStatus(b) == IF b = 0 THEN -1 ELSE 1

\* The status of a product state, given those of its parts.
StatusOf(op, s, t) ==
    IF s # 0 /\ t # 0
    THEN BoolToStatus(Binfun(op, StatusToBool(s), StatusToBool(t)))
    ELSE 0

\* is_loop: the transition BDD of p is the leaf p.
IsLoop(a, p) == \A l \in Letters : a.q[p][l] = p

\* Faulty variant (see "mutants" in PROJECT.json): any state that is never left counts as don't care.
BottomLoopAnyStatus(n) ==
    IsLoop(left, pairs[n][1]) \/ IsLoop(right, pairs[n][2])

\* make_a_loop_status is 0.  Only the first argument is looked at if it loops.
BottomLoop(n) ==
    LET p == pairs[n][1]
        q == pairs[n][2]
    IN IF IsLoop(left, p) THEN left.f[p] = 0
       ELSE IsLoop(right, q) /\ right.f[q] = 0

Listed(pq) == \E n \in 1..Len(pairs) : pairs[n] = pq
Place(list, pq) == CHOOSE n \in 1..Len(list) : list[n] = pq

\* The variables at rest.
ProductIdle ==
    /\ left = NoAutomaton /\ right = NoAutomaton
    /\ binop = AND
    /\ pairs = <<>> /\ head = 1
    /\ row = <<>> /\ roots = <<>>

\* The first lines of dfaProduct: the pair of start states is number 0.
ProductStart(a1, a2, op) ==
    /\ left' = a1 /\ right' = a2 /\ binop' = op
    /\ pairs' = << <<a1.s, a2.s>> >>
    /\ head' = 1
    /\ row' = <<>> /\ roots' = <<>>

Working == head <= Len(pairs)

\* make_loop: the pair becomes a state that is never left.
MakeLoop ==
    /\ Working /\ row = <<>> /\ BottomLoop(head)
    /\ roots' = Append(roots, [l \in Letters |-> head - 1])
    /\ head' = head + 1
    /\ UNCHANGED <<left, right, binop, pairs, row>>

\* The pair of states that the letter after the leaves met leads to.
Successors ==
    <<left.q[pairs[head][1]][Len(row)], right.q[pairs[head][2]][Len(row)]>>

\* Faulty variant (see "mutants" in PROJECT.json): leaves numbered from one.
ProdTermFromOne ==
    /\ Working /\ Len(row) < LetterCount
    /\ ~BottomLoop(head)
    /\ pairs' = IF Listed(Successors) THEN pairs ELSE Append(pairs, Successors)
    /\ row' = Append(row, Place(pairs', Successors))
    /\ UNCHANGED <<left, right, binop, head, roots>>

\* prod_term_fn at the next leaf: a pair on the list, or a new one.
ProdTerm ==
    /\ Working /\ Len(row) < LetterCount
    /\ ~BottomLoop(head)
    /\ pairs' = IF Listed(Successors) THEN pairs ELSE Append(pairs, Successors)
    /\ row' = Append(row, Place(pairs', Successors) - 1)
    /\ UNCHANGED <<left, right, binop, head, roots>>

\* bdd_apply2_sequential adds the BDD to the roots, and qh moves on.
NextPair ==
    /\ Working /\ Len(row) = LetterCount
    /\ roots' = Append(roots, [l \in Letters |-> row[l + 1]])
    /\ head' = head + 1
    /\ row' = <<>>
    /\ UNCHANGED <<left, right, binop, pairs>>

ProductStep == MakeLoop \/ ProdTerm \/ NextPair

ProductDone == pairs # <<>> /\ ~Working

\* dfaMakeNoBddm and the loop at the end.
ProductResult ==
    [ns |-> Len(pairs), s |-> 0,
     q  |-> [n \in 0..Len(pairs)-1 |-> roots[n + 1]],
     f  |-> [n \in 0..Len(pairs)-1 |->
               StatusOf(binop, left.f[pairs[n+1][1]], right.f[pairs[n+1][2]])]]

\* All calls of dfaProduct on automata that are well formed.
ProductInit ==
    /\ IsAutomaton(left) /\ IsAutomaton(right)
    /\ binop \in Ops
    /\ pairs = << <<left.s, right.s>> >>
    /\ head = 1
    /\ row = <<>> /\ roots = <<>>

ProductSpec == ProductInit /\ [][ProductStep]_productVars

-----------------------------------------------------------------------------
(* The types of the loop. *)
ProductTypeOK ==
    /\ pairs # <<>> => IsAutomaton(left) /\ IsAutomaton(right)
    /\ binop \in Ops
    /\ pairs \in Seq(States(left) \X States(right))
    /\ head \in 1..Len(pairs)+1
    /\ row \in Seq(0..Len(pairs)-1) /\ Len(row) <= LetterCount
    /\ roots \in Seq([Letters -> 0..Len(pairs)-1])

\* The invariant(bdd_roots_length(bddm) == res) of make_loop: the root added
\* for a pair has the number the hash table gave to the pair.  dfaProduct
\* relies on it at its end, where it reads roots and pairs side by side.
RootsInStep == pairs # <<>> => Len(roots) = head - 1

\* A pair of states has one number: no pair is on the list twice.
NumbersUnique ==
    \A m, n \in 1..Len(pairs) : pairs[m] = pairs[n] => m = n

\* A state of a part that is don't care and never left.
Sink(a, p) == IsLoop(a, p) /\ a.f[p] = 0

\* The product does what its parts do.  A transition of a product state leads
\* to the pair of the states its parts go to; or the state is a loop made
\* without looking at one part, and then the other part is in a sink, so that
\* the state stays don't care, as it should.
ProductFollows ==
    \A n \in 1..Len(roots), l \in Letters :
      LET p == pairs[n][1]
          q == pairs[n][2]
          to == roots[n][l] + 1
      IN \/ pairs[to] = <<left.q[p][l], right.q[q][l]>>
         \/ to = n /\ (Sink(left, p) \/ Sink(right, q))
=============================================================================
