--------------------------- MODULE DfaLoopsProofs ---------------------------
(***************************************************************************)
(* Proofs about the two loops of MONA that build an automaton from the     *)
(* leaves they meet: DfaProduct, for all automata over all numbers of      *)
(* tracks, and DfaProject, for all automata, tracks and numbers of tracks. *)
(*                                                                         *)
(* The product.  That states and roots stay in step and that a pair has    *)
(* one number is not enough: what a finished row says of the successors    *)
(* must be known while the row is being filled in (RowFollows), and must   *)
(* survive the growth of the list, which is only ever appended to.         *)
(*                                                                         *)
(* The projection.  The transitions of a set are made from those of the    *)
(* two sets it was first put together from, so the inductive invariant     *)
(* says of the table that these two came first and have the same states    *)
(* between them (TableOK).  The leaves of the BDD that is being built mean *)
(* something else in each of the three phases (LeavesFollow), and no phase *)
(* may begin while leaves of another are left.                             *)
(***************************************************************************)
EXTENDS DfaProduct, DfaProject, TLAPS

-----------------------------------------------------------------------------
(* Facts about sequences and letters. *)

LEMMA LetterFacts ==
    /\ LetterCount \in Nat /\ LetterCount >= 1
    /\ Letters = 0..LetterCount-1
BY TracksAssumption DEF Letters

LEMMA AppendFacts ==
    ASSUME NEW S, NEW s \in Seq(S), NEW x \in S
    PROVE  /\ Append(s, x) \in Seq(S)
           /\ Len(s) \in Nat
           /\ Len(Append(s, x)) = Len(s) + 1
           /\ \A n \in 1..Len(s) : Append(s, x)[n] = s[n]
           /\ Append(s, x)[Len(s) + 1] = x
           /\ Append(s, x) # <<>>
OBVIOUS

LEMMA Widened ==
    ASSUME NEW S, NEW T, S \subseteq T, NEW s \in Seq(S)
    PROVE  s \in Seq(T)
OBVIOUS

-----------------------------------------------------------------------------
(* The product: the invariant. *)

\* The pair that the letter l leads to from the pair at place n.
After(n, l) == <<left.q[pairs[n][1]][l], right.q[pairs[n][2]][l]>>

PairsOK ==
    /\ IsAutomaton(left) /\ IsAutomaton(right)
    /\ pairs \in Seq(States(left) \X States(right))
    /\ Len(pairs) >= 1

CountersOK ==
    /\ binop \in Ops
    /\ head \in 1..Len(pairs)+1
    /\ Len(roots) = head - 1
    /\ Len(row) <= LetterCount

LeavesOK ==
    /\ row \in Seq(0..Len(pairs)-1)
    /\ roots \in Seq([Letters -> 0..Len(pairs)-1])

\* The leaves met so far lead to the successors of the pair at head.
RowFollows ==
    row # <<>> =>
      /\ head <= Len(pairs)
      /\ \A k \in 1..Len(row) : pairs[row[k] + 1] = After(head, k - 1)

ProductInv ==
    /\ PairsOK /\ CountersOK /\ LeavesOK
    /\ NumbersUnique /\ RowFollows /\ ProductFollows

-----------------------------------------------------------------------------
(* The product: the places of the list. *)

LEMMA FunctionWidened ==
    ASSUME NEW D, NEW S, NEW T, S \subseteq T, NEW f \in [D -> S]
    PROVE  f \in [D -> T]
OBVIOUS

\* The successors of a pair on the list are a pair of states.
LEMMA AfterPair ==
    ASSUME PairsOK, NEW n \in 1..Len(pairs), NEW l \in Letters
    PROVE  /\ pairs[n] \in States(left) \X States(right)
           /\ After(n, l) \in States(left) \X States(right)
<1>1. pairs[n] \in States(left) \X States(right)
  BY DEF PairsOK
<1>2. /\ pairs[n][1] \in States(left)
      /\ pairs[n][2] \in States(right)
  BY <1>1
<1>3. /\ left.q \in [States(left) -> [Letters -> States(left)]]
      /\ right.q \in [States(right) -> [Letters -> States(right)]]
  BY DEF PairsOK, IsAutomaton
<1>4. /\ left.q[pairs[n][1]][l] \in States(left)
      /\ right.q[pairs[n][2]][l] \in States(right)
  BY <1>2, <1>3
<1> QED
  BY <1>1, <1>4 DEF After

\* A place is where the list says.
LEMMA PlaceFound ==
    ASSUME NEW list, NEW pq, \E n \in 1..Len(list) : list[n] = pq
    PROVE  /\ Place(list, pq) \in 1..Len(list)
           /\ list[Place(list, pq)] = pq
BY DEF Place

\* While a row is filled in, the next leaf is for the pair Successors.
LEMMA NextLeaf ==
    ASSUME PairsOK, CountersOK, LeavesOK, Working, Len(row) < LetterCount
    PROVE  /\ Successors = After(head, Len(row))
           /\ Successors \in States(left) \X States(right)
           /\ head \in 1..Len(pairs)
<1>1. head \in 1..Len(pairs)
  BY DEF PairsOK, CountersOK, Working
<1>2. Len(row) \in Letters
  BY LetterFacts DEF LeavesOK
<1> QED
  BY <1>1, <1>2, AfterPair DEF Successors, After

LEMMA ProductInitInv == ProductInit => ProductInv
<1> SUFFICES ASSUME ProductInit
             PROVE  ProductInv
  OBVIOUS
<1> USE DEF ProductInit
<1>1. /\ left.s \in States(left) /\ right.s \in States(right)
      /\ <<left.s, right.s>> \in States(left) \X States(right)
  BY DEF IsAutomaton
<1>2. /\ pairs \in Seq(States(left) \X States(right))
      /\ Len(pairs) = 1
  BY <1>1
<1>3. PairsOK
  BY <1>2 DEF PairsOK
<1>4. CountersOK
  BY <1>2, LetterFacts DEF CountersOK
<1>5. LeavesOK
  BY DEF LeavesOK
<1>6. NumbersUnique
  BY <1>2 DEF NumbersUnique
<1>7. RowFollows /\ ProductFollows
  BY DEF RowFollows, ProductFollows
<1> QED
  BY <1>3, <1>4, <1>5, <1>6, <1>7 DEF ProductInv

-----------------------------------------------------------------------------
(* The list of pairs only grows. *)

\* What is left of the list when a pair may have been added.
PairsGrown ==
    /\ pairs' \in Seq(States(left) \X States(right))
    /\ Len(pairs) \in Nat /\ Len(pairs') \in Nat
    /\ Len(pairs) <= Len(pairs')
    /\ \A n \in 1..Len(pairs) : pairs'[n] = pairs[n]

LEMMA ListGrows ==
    ASSUME PairsOK, NEW pq \in States(left) \X States(right),
           pairs' = IF Listed(pq) THEN pairs ELSE Append(pairs, pq)
    PROVE  /\ PairsGrown
           /\ \E n \in 1..Len(pairs') : pairs'[n] = pq
           /\ NumbersUnique => \A m, n \in 1..Len(pairs') :
                                 pairs'[m] = pairs'[n] => m = n
<1>1. pairs \in Seq(States(left) \X States(right)) /\ Len(pairs) \in Nat
  BY DEF PairsOK
<1>2. CASE Listed(pq)
  BY <1>1, <1>2 DEF PairsGrown, Listed, NumbersUnique
<1>3. CASE ~Listed(pq)
  <2>1. /\ pairs' = Append(pairs, pq)
        /\ pairs' \in Seq(States(left) \X States(right))
        /\ Len(pairs') = Len(pairs) + 1
        /\ \A n \in 1..Len(pairs) : pairs'[n] = pairs[n]
        /\ pairs'[Len(pairs) + 1] = pq
    BY <1>1, <1>3, AppendFacts
  <2>2. PairsGrown
    BY <1>1, <2>1 DEF PairsGrown
  <2>3. \E n \in 1..Len(pairs') : pairs'[n] = pq
    BY <1>1, <2>1
  <2>4. ASSUME NumbersUnique, NEW m \in 1..Len(pairs'), NEW n \in 1..Len(pairs'),
               pairs'[m] = pairs'[n]
        PROVE  m = n
    <3>1. \A k \in 1..Len(pairs) : pairs[k] # pq
      BY <1>3 DEF Listed
    <3>2. /\ m \in 1..Len(pairs) \/ m = Len(pairs) + 1
          /\ n \in 1..Len(pairs) \/ n = Len(pairs) + 1
      BY <1>1, <2>1
    <3> QED
      BY <1>1, <2>1, <2>4, <3>1, <3>2 DEF NumbersUnique
  <2> QED
    BY <2>2, <2>3, <2>4
<1> QED
  BY <1>2, <1>3

\* make_loop: a loop is made where one part is in a sink.
LEMMA MakeLoopInv == ProductInv /\ MakeLoop => ProductInv'
<1> SUFFICES ASSUME ProductInv, MakeLoop
             PROVE  ProductInv'
  OBVIOUS
<1>0. PairsOK /\ CountersOK /\ LeavesOK /\ NumbersUnique /\ ProductFollows
  BY DEF ProductInv
<1>1. /\ head <= Len(pairs) /\ row = <<>> /\ BottomLoop(head)
      /\ roots' = Append(roots, [l \in Letters |-> head - 1])
      /\ head' = head + 1
      /\ left' = left /\ right' = right /\ binop' = binop
      /\ pairs' = pairs /\ row' = row
  BY DEF MakeLoop, Working
<1>2. Len(pairs) \in Nat /\ head \in 1..Len(pairs) /\ Len(roots) = head - 1
  BY <1>0, <1>1 DEF PairsOK, CountersOK
<1> DEFINE loop == [l \in Letters |-> head - 1]
<1>3. loop \in [Letters -> 0..Len(pairs)-1]
  BY <1>2
<1>4. roots \in Seq([Letters -> 0..Len(pairs)-1])
  BY <1>0 DEF LeavesOK
<1>5. /\ roots' \in Seq([Letters -> 0..Len(pairs)-1])
      /\ Len(roots') = head
      /\ \A n \in 1..Len(roots) : roots'[n] = roots[n]
      /\ roots'[head] = loop
  <2> HIDE DEF loop
  <2>1. roots' = Append(roots, loop)
    BY <1>1 DEF loop
  <2> QED
    BY <1>2, <1>3, <1>4, <2>1, AppendFacts
<1>6. PairsOK' /\ NumbersUnique'
  BY <1>0, <1>1 DEF PairsOK, NumbersUnique
<1>7. CountersOK'
  BY <1>0, <1>1, <1>2, <1>5 DEF CountersOK
<1>8. LeavesOK' /\ RowFollows'
  BY <1>0, <1>1, <1>5 DEF LeavesOK, RowFollows
<1>9. Sink(left, pairs[head][1]) \/ Sink(right, pairs[head][2])
  BY <1>1 DEF BottomLoop, Sink
<1>10. ProductFollows'
  <2> SUFFICES ASSUME NEW n \in 1..Len(roots'), NEW l \in Letters
               PROVE  \/ pairs[roots'[n][l] + 1]
                           = <<left.q[pairs[n][1]][l], right.q[pairs[n][2]][l]>>
                      \/ /\ roots'[n][l] + 1 = n
                         /\ Sink(left, pairs[n][1]) \/ Sink(right, pairs[n][2])
    BY <1>1 DEF ProductFollows
  <2>1. CASE n \in 1..Len(roots)
    BY <1>0, <1>5, <2>1 DEF ProductFollows
  <2>2. CASE n = head
    <3>1. roots'[n][l] = head - 1
      BY <1>5, <2>2
    <3> QED
      BY <1>2, <1>9, <2>2, <3>1
  <2> QED
    BY <1>2, <1>5, <2>1, <2>2
<1> QED
  BY <1>6, <1>7, <1>8, <1>10 DEF ProductInv

\* prod_term_fn: the leaf met is the number of the pair of successors.
LEMMA ProdTermInv == ProductInv /\ ProdTerm => ProductInv'
<1> SUFFICES ASSUME ProductInv, ProdTerm
             PROVE  ProductInv'
  OBVIOUS
<1>0. PairsOK /\ CountersOK /\ LeavesOK /\ NumbersUnique /\ RowFollows
      /\ ProductFollows
  BY DEF ProductInv
<1>1. /\ Working /\ Len(row) < LetterCount
      /\ pairs' = IF Listed(Successors) THEN pairs ELSE Append(pairs, Successors)
      /\ row' = Append(row, Place(pairs', Successors) - 1)
      /\ left' = left /\ right' = right /\ binop' = binop
      /\ head' = head /\ roots' = roots
  BY DEF ProdTerm
<1>2. /\ Successors = After(head, Len(row))
      /\ Successors \in States(left) \X States(right)
      /\ head \in 1..Len(pairs)
  BY <1>0, <1>1, NextLeaf
<1>3. /\ PairsGrown
      /\ \E n \in 1..Len(pairs') : pairs'[n] = Successors
      /\ \A m, n \in 1..Len(pairs') : pairs'[m] = pairs'[n] => m = n
  BY <1>0, <1>1, <1>2, ListGrows
<1> DEFINE leaf == Place(pairs', Successors) - 1
<1>4. /\ leaf \in 0..Len(pairs')-1
      /\ pairs'[leaf + 1] = Successors
  <2>1. /\ Place(pairs', Successors) \in 1..Len(pairs')
        /\ pairs'[Place(pairs', Successors)] = Successors
    BY <1>3, PlaceFound
  <2> QED
    BY <1>3, <2>1 DEF PairsGrown
<1>5. row \in Seq(0..Len(pairs')-1) /\ roots \in Seq([Letters -> 0..Len(pairs')-1])
  <2>1. 0..Len(pairs)-1 \subseteq 0..Len(pairs')-1
    BY <1>3 DEF PairsGrown
  <2>2. [Letters -> 0..Len(pairs)-1] \subseteq [Letters -> 0..Len(pairs')-1]
    BY <2>1
  <2> QED
    BY <1>0, <2>1, <2>2, Widened DEF LeavesOK
<1>6. /\ row' \in Seq(0..Len(pairs')-1)
      /\ Len(row) \in Nat /\ Len(row') = Len(row) + 1
      /\ \A k \in 1..Len(row) : row'[k] = row[k]
      /\ row'[Len(row) + 1] = leaf
  <2> HIDE DEF leaf
  <2>1. row' = Append(row, leaf)
    BY <1>1 DEF leaf
  <2> QED
    BY <1>4, <1>5, <2>1, AppendFacts
<1>7. PairsOK'
  BY <1>0, <1>1, <1>3 DEF PairsOK, PairsGrown
<1>8. CountersOK'
  BY <1>0, <1>1, <1>3, <1>6, LetterFacts DEF CountersOK, PairsGrown
<1>9. LeavesOK'
  BY <1>1, <1>5, <1>6 DEF LeavesOK
<1>10. NumbersUnique'
  BY <1>3 DEF NumbersUnique
<1>11. RowFollows'
  <2>2. pairs'[head] = pairs[head]
    BY <1>2, <1>3 DEF PairsGrown
  <2>3. \A k : After(head, k)' = <<left.q[pairs[head][1]][k], right.q[pairs[head][2]][k]>>
    BY <1>1, <2>2 DEF After
  <2>4. ASSUME NEW k \in 1..Len(row')
        PROVE  pairs'[row'[k] + 1]
                 = <<left.q[pairs[head][1]][k - 1], right.q[pairs[head][2]][k - 1]>>
    <3>1. CASE k \in 1..Len(row)
      <4>1. row'[k] = row[k] /\ row[k] + 1 \in 1..Len(pairs)
        <5>1. row[k] \in 0..Len(pairs)-1
          BY <1>0, <3>1 DEF LeavesOK
        <5>2. Len(pairs) \in Nat
          BY <1>0 DEF PairsOK
        <5> QED
          BY <1>6, <3>1, <5>1, <5>2
      <4>2. pairs[row[k] + 1] = After(head, k - 1)
        BY <1>0, <1>6, <3>1 DEF RowFollows
      <4> QED
        BY <1>3, <4>1, <4>2 DEF PairsGrown, After
    <3>2. CASE k = Len(row) + 1
      <4>1. row'[k] = leaf /\ k - 1 = Len(row)
        BY <1>6, <3>2
      <4>2. pairs'[row'[k] + 1] = Successors
        BY <1>4, <4>1
      <4> QED
        BY <1>2, <4>1, <4>2 DEF After
    <3> QED
      BY <1>6, <3>1, <3>2
  <2>5. head' <= Len(pairs')
    BY <1>1, <1>2, <1>3 DEF PairsGrown
  <2>6. \A k \in 1..Len(row') : pairs'[row'[k] + 1] = After(head, k - 1)'
    BY <2>3, <2>4
  <2> QED
    BY <1>1, <2>5, <2>6 DEF RowFollows
<1>12. ProductFollows'
  <2> SUFFICES ASSUME NEW n \in 1..Len(roots), NEW l \in Letters
               PROVE  \/ pairs'[roots[n][l] + 1]
                           = <<left.q[pairs'[n][1]][l], right.q[pairs'[n][2]][l]>>
                      \/ /\ roots[n][l] + 1 = n
                         /\ Sink(left, pairs'[n][1]) \/ Sink(right, pairs'[n][2])
    BY <1>1 DEF ProductFollows
  <2>1. Len(pairs) \in Nat /\ Len(roots) = head - 1
    BY <1>0 DEF PairsOK, CountersOK
  <2>2. n \in 1..Len(pairs)
    BY <1>2, <2>1
  <2>3. roots[n] \in [Letters -> 0..Len(pairs)-1]
    BY <1>0 DEF LeavesOK
  <2>4. roots[n][l] + 1 \in 1..Len(pairs)
    BY <2>1, <2>3
  <2>5. pairs'[n] = pairs[n] /\ pairs'[roots[n][l] + 1] = pairs[roots[n][l] + 1]
    BY <1>3, <2>2, <2>4 DEF PairsGrown
  <2> QED
    BY <1>0, <2>5 DEF ProductFollows
<1> QED
  BY <1>7, <1>8, <1>9, <1>10, <1>11, <1>12 DEF ProductInv

\* bdd_apply2_sequential returns: the row becomes the root of its pair.
LEMMA NextPairInv == ProductInv /\ NextPair => ProductInv'
<1> SUFFICES ASSUME ProductInv, NextPair
             PROVE  ProductInv'
  OBVIOUS
<1>0. PairsOK /\ CountersOK /\ LeavesOK /\ NumbersUnique /\ RowFollows
      /\ ProductFollows
  BY DEF ProductInv
<1>1. /\ head <= Len(pairs) /\ Len(row) = LetterCount
      /\ roots' = Append(roots, [l \in Letters |-> row[l + 1]])
      /\ head' = head + 1 /\ row' = <<>>
      /\ left' = left /\ right' = right /\ binop' = binop
      /\ pairs' = pairs
  BY DEF NextPair, Working
<1>2. Len(pairs) \in Nat /\ head \in 1..Len(pairs) /\ Len(roots) = head - 1
  BY <1>0, <1>1 DEF PairsOK, CountersOK
<1> DEFINE root == [l \in Letters |-> row[l + 1]]
<1>3. root \in [Letters -> 0..Len(pairs)-1]
  <2>1. \A l \in Letters : l + 1 \in 1..Len(row)
    BY <1>1, LetterFacts
  <2>2. \A k \in 1..Len(row) : row[k] \in 0..Len(pairs)-1
    BY <1>0 DEF LeavesOK
  <2> QED
    BY <2>1, <2>2
<1>4. /\ roots' \in Seq([Letters -> 0..Len(pairs)-1])
      /\ Len(roots') = head
      /\ \A n \in 1..Len(roots) : roots'[n] = roots[n]
      /\ roots'[head] = root
  <2> HIDE DEF root
  <2>1. roots' = Append(roots, root)
    BY <1>1 DEF root
  <2>2. roots \in Seq([Letters -> 0..Len(pairs)-1])
    BY <1>0 DEF LeavesOK
  <2> QED
    BY <1>2, <1>3, <2>1, <2>2, AppendFacts
<1>5. PairsOK' /\ NumbersUnique'
  BY <1>0, <1>1 DEF PairsOK, NumbersUnique
<1>6. CountersOK'
  BY <1>0, <1>1, <1>2, <1>4, LetterFacts DEF CountersOK
<1>7. LeavesOK' /\ RowFollows'
  BY <1>0, <1>1, <1>4 DEF LeavesOK, RowFollows
<1>8. ProductFollows'
  <2> SUFFICES ASSUME NEW n \in 1..Len(roots'), NEW l \in Letters
               PROVE  \/ pairs[roots'[n][l] + 1]
                           = <<left.q[pairs[n][1]][l], right.q[pairs[n][2]][l]>>
                      \/ /\ roots'[n][l] + 1 = n
                         /\ Sink(left, pairs[n][1]) \/ Sink(right, pairs[n][2])
    BY <1>1 DEF ProductFollows
  <2>1. CASE n \in 1..Len(roots)
    BY <1>0, <1>4, <2>1 DEF ProductFollows
  <2>2. CASE n = head
    <3>1. roots'[n][l] = row[l + 1]
      BY <1>4, <2>2
    <3>2. row # <<>> /\ l + 1 \in 1..Len(row)
      BY <1>1, LetterFacts
    <3>3. pairs[row[l + 1] + 1] = After(head, (l + 1) - 1)
      BY <1>0, <3>2 DEF RowFollows
    <3>4. (l + 1) - 1 = l
      BY LetterFacts
    <3> QED
      BY <2>2, <3>1, <3>3, <3>4 DEF After
  <2> QED
    BY <1>2, <1>4, <2>1, <2>2
<1> QED
  BY <1>5, <1>6, <1>7, <1>8 DEF ProductInv

LEMMA ProductStutter == ProductInv /\ UNCHANGED productVars => ProductInv'
<1> SUFFICES ASSUME ProductInv, UNCHANGED productVars
             PROVE  ProductInv'
  OBVIOUS
<1> USE DEF productVars
<1>1. PairsOK' /\ CountersOK' /\ LeavesOK'
  BY DEF ProductInv, PairsOK, CountersOK, LeavesOK
<1>2. NumbersUnique'
  BY DEF ProductInv, NumbersUnique
<1>3. RowFollows'
  BY DEF ProductInv, RowFollows, After
<1>4. ProductFollows'
  BY DEF ProductInv, ProductFollows
<1> QED
  BY <1>1, <1>2, <1>3, <1>4 DEF ProductInv

\* The invariant holds of every call of dfaProduct on automata that are well
\* formed, whatever they are and however many tracks there are.
THEOREM ProductInvariant == ProductSpec => []ProductInv
<1>1. ProductInv /\ [ProductStep]_productVars => ProductInv'
  BY MakeLoopInv, ProdTermInv, NextPairInv, ProductStutter DEF ProductStep
<1> QED
  BY ProductInitInv, <1>1, PTL DEF ProductSpec

\* dfaProduct reads roots and pairs side by side at its end: the invariant of
\* make_loop holds at every step.
THEOREM RootsAreInStep == ProductSpec => []RootsInStep
<1>1. ProductInv => RootsInStep
  BY DEF ProductInv, CountersOK, RootsInStep
<1> QED
  BY ProductInvariant, <1>1, PTL

\* The hash table of dfaProduct never gives two numbers to a pair of states.
THEOREM PairsHaveOneNumber == ProductSpec => []NumbersUnique
<1>1. ProductInv => NumbersUnique
  BY DEF ProductInv
<1> QED
  BY ProductInvariant, <1>1, PTL

\* The transitions of the product are those of the parts, but for the loops
\* made where a part is in a sink.
THEOREM TransitionsFollow == ProductSpec => []ProductFollows
<1>1. ProductInv => ProductFollows
  BY DEF ProductInv
<1> QED
  BY ProductInvariant, <1>1, PTL

\* The types of the loop of dfaProduct.
THEOREM ProductTypes == ProductSpec => []ProductTypeOK
<1>1. ProductInv => ProductTypeOK
  BY DEF ProductInv, PairsOK, CountersOK, LeavesOK, ProductTypeOK
<1> QED
  BY ProductInvariant, <1>1, PTL

\* What dfaProduct returns is an automaton: all leaves are states of it.
THEOREM ProductIsAutomaton ==
    ProductSpec => [](ProductDone => IsAutomaton(ProductResult))
<1>1. ASSUME ProductInv, ProductDone
      PROVE  IsAutomaton(ProductResult)
  <2>1. /\ Len(pairs) \in Nat /\ Len(pairs) >= 1
        /\ Len(roots) = Len(pairs)
        /\ roots \in Seq([Letters -> 0..Len(pairs)-1])
        /\ pairs \in Seq(States(left) \X States(right))
    BY <1>1 DEF ProductInv, PairsOK, CountersOK, LeavesOK, ProductDone, Working
  <2> DEFINE ids == 0..Len(pairs)-1
             q == [n \in ids |-> roots[n + 1]]
             f == [n \in ids |-> StatusOf(binop, left.f[pairs[n+1][1]],
                                                 right.f[pairs[n+1][2]])]
  <2>2. q \in [ids -> [Letters -> ids]]
    BY <2>1
  <2>3. \A n \in ids : StatusOf(binop, left.f[pairs[n+1][1]],
                                       right.f[pairs[n+1][2]]) \in Statuses
    BY DEF StatusOf, BoolToStatus, Statuses
  <2>4. f \in [ids -> Statuses]
    BY <2>3
  <2>5. /\ ProductResult.ns = Len(pairs) /\ ProductResult.s = 0
        /\ ProductResult.q = q /\ ProductResult.f = f
    BY DEF ProductResult
  <2>6. States(ProductResult) = ids
    BY <2>5 DEF States
  <2> QED
    BY <2>1, <2>2, <2>4, <2>5, <2>6 DEF IsAutomaton
<1> QED
  BY ProductInvariant, <1>1, PTL

-----------------------------------------------------------------------------
(* The projection: the invariant. *)

\* The states that the states of S can go to with l, whatever is guessed.
Succ(S, l) == Guesses(subject, track, S, l)

SetRecords == [elements : SUBSET States(subject),
               decomp1 : {None} \cup Nat, decomp2 : {None} \cup Nat]

Numbers == 0..Len(ssets)-1

SubjectOK == IsAutomaton(subject) /\ track \in 0..Tracks-1

\* A set that is no singleton is the union of two sets met before it.
PutTogether(n) ==
    /\ ssets[n].decomp1 \in 0..n-2
    /\ ssets[n].decomp2 \in 0..n-2
    /\ ssets[n].elements = Elements(ssets[n].decomp1) \cup Elements(ssets[n].decomp2)

TableOK ==
    /\ ssets \in Seq(SetRecords)
    /\ Len(ssets) >= subject.ns
    /\ \A n \in 1..subject.ns : ssets[n].elements = {n - 1}
    /\ \A n \in subject.ns+1..Len(ssets) : PutTogether(n)
    /\ \A m, n \in 1..Len(ssets) : ssets[m].elements = ssets[n].elements => m = n

\* The singletons have their transitions before anything else.
MadeOK ==
    /\ DOMAIN sq \subseteq Numbers
    /\ \A n \in DOMAIN sq : sq[n] \in [Letters -> Numbers]
    /\ single \in 0..subject.ns
    /\ 0..single-1 \subseteq DOMAIN sq
    /\ queue # <<>> <=> single = subject.ns
    /\ SubsetSuccessors

EvalsOK ==
    /\ evals \in Seq(Numbers)
    /\ evals # <<>> => queue # <<>>
    /\ EvalDescends

QueueOK ==
    /\ queue \in Seq(Numbers)
    /\ \A m, n \in 1..Len(queue) : queue[m] = queue[n] => m = n
    /\ at \in 1..Len(queue)+1
    /\ made \in Seq([Letters -> 0..Len(queue)-1])
    /\ Len(made) = at - 1

\* The result so far is the subset construction.
MadeFollows ==
    \A n \in 1..Len(made), l \in Letters :
      Elements(queue[made[n][l] + 1]) = Succ(Elements(queue[n]), l)

SingleLeaves ==
    /\ leaves \in Seq(Numbers)
    /\ \A k \in 1..Len(leaves) : Elements(leaves[k]) = Succ({single}, k - 1)

EvalLeaves ==
    /\ leaves \in Seq(Numbers)
    /\ leaves # <<>> => Made(Decomp1) /\ Made(Decomp2)
    /\ \A k \in 1..Len(leaves) :
         Elements(leaves[k]) =
           Elements(sq[Decomp1][k - 1]) \cup Elements(sq[Decomp2][k - 1])

QueueLeaves ==
    /\ leaves \in Seq(0..Len(queue)-1)
    /\ leaves # <<>> => at <= Len(queue) /\ Made(queue[at])
    /\ \A k \in 1..Len(leaves) : queue[leaves[k] + 1] = sq[queue[at]][k - 1]

LeavesFollow ==
    /\ Len(leaves) <= LetterCount
    /\ single < subject.ns => SingleLeaves
    /\ evals # <<>> => EvalLeaves
    /\ single = subject.ns /\ evals = <<>> => QueueLeaves

ProjectInv ==
    /\ SubjectOK /\ TableOK /\ MadeOK /\ EvalsOK
    /\ QueueOK /\ MadeFollows /\ LeavesFollow

-----------------------------------------------------------------------------
(* The projection: the table of sets. *)

LEMMA PrefixFacts ==
    ASSUME NEW S, NEW s \in Seq(S), NEW m \in Nat, m <= Len(s)
    PROVE  /\ SubSeq(s, 1, m) \in Seq(S)
           /\ Len(SubSeq(s, 1, m)) = m
           /\ \A n \in 1..m : SubSeq(s, 1, m)[n] = s[n]
<1>1. SubSeq(s, 1, m) \in Seq(S)
  OBVIOUS
<1>2. Len(SubSeq(s, 1, m)) = m
  OBVIOUS
<1>3. \A n \in 1..m : SubSeq(s, 1, m)[n] = s[n]
  OBVIOUS
<1> QED
  BY <1>1, <1>2, <1>3

\* Guessing leads to states.
LEMMA GuessStates ==
    ASSUME SubjectOK, NEW p \in States(subject), NEW l \in Letters, NEW b \in {0, 1}
    PROVE  Guess(p, l, b) \in States(subject)
<1>1. WithBit(l, track, b) \in Letters
  BY TracksAssumption DEF SubjectOK
<1>2. subject.q \in [States(subject) -> [Letters -> States(subject)]]
  BY DEF SubjectOK, IsAutomaton
<1> QED
  BY <1>1, <1>2 DEF Guess

LEMMA SuccStates ==
    ASSUME SubjectOK, NEW S \in SUBSET States(subject), NEW l \in Letters
    PROVE  Succ(S, l) \in SUBSET States(subject)
BY GuessStates DEF Succ, Guesses, Guess

LEMMA SuccUnion ==
    ASSUME NEW S, NEW T, NEW l
    PROVE  Succ(S \cup T, l) = Succ(S, l) \cup Succ(T, l)
BY DEF Succ, Guesses

LEMMA SuccSingle ==
    ASSUME NEW p, NEW l
    PROVE  Succ({p}, l) = {Guess(p, l, 0), Guess(p, l, 1)}
BY DEF Succ, Guesses, Guess

LEMMA SubsetSucc ==
    SubsetSuccessors <=>
      \A n \in DOMAIN sq, l \in Letters : Elements(sq[n][l]) = Succ(Elements(n), l)
BY DEF SubsetSuccessors, Succ

Grown ==
    /\ ssets' \in Seq(SetRecords)
    /\ Len(ssets) \in Nat /\ Len(ssets') \in Nat
    /\ Len(ssets) <= Len(ssets')
    /\ \A n \in 1..Len(ssets) : ssets'[n] = ssets[n]

\* The set is in the table.
LEMMA SetKnown ==
    ASSUME TableOK, UNCHANGED <<subject, ssets>>
    PROVE  Grown /\ TableOK'
<1>1. ssets \in Seq(SetRecords) /\ Len(ssets) \in Nat
  BY DEF TableOK
<1>2. Grown
  BY <1>1 DEF Grown
<1>3. (\A n \in subject.ns+1..Len(ssets) : PutTogether(n))'
  BY DEF TableOK, PutTogether, Elements
<1>4. ssets' \in Seq(SetRecords)'
  BY DEF TableOK, SetRecords, States
<1> QED
  BY <1>2, <1>3, <1>4 DEF TableOK

\* The set is new.
LEMMA SetNew ==
    ASSUME TableOK, UNCHANGED subject, subject.ns \in Nat,
           NEW rec \in SetRecords, ssets' = Append(ssets, rec),
           rec.decomp1 \in Numbers, rec.decomp2 \in Numbers,
           rec.elements = Elements(rec.decomp1) \cup Elements(rec.decomp2),
           \A n \in 1..Len(ssets) : ssets[n].elements # rec.elements
    PROVE  /\ Grown /\ TableOK'
           /\ Len(ssets') = Len(ssets) + 1
           /\ ssets'[Len(ssets) + 1] = rec
<1>1. /\ ssets \in Seq(SetRecords) /\ Len(ssets) \in Nat
      /\ subject.ns \in Nat /\ subject.ns <= Len(ssets)
  BY DEF TableOK
<1>2. /\ ssets' \in Seq(SetRecords)
      /\ Len(ssets') = Len(ssets) + 1
      /\ \A n \in 1..Len(ssets) : ssets'[n] = ssets[n]
      /\ ssets'[Len(ssets) + 1] = rec
  BY <1>1, AppendFacts
<1>3. Grown
  BY <1>1, <1>2 DEF Grown
<1>4. ssets' \in Seq(SetRecords)'
  BY <1>2 DEF SetRecords, States
<1>5. /\ Len(ssets') >= subject.ns
      /\ \A n \in 1..subject.ns : ssets'[n].elements = {n - 1}
  BY <1>1, <1>2 DEF TableOK
<1>6. ASSUME NEW n \in subject.ns+1..Len(ssets')
      PROVE  PutTogether(n)'
  <2>1. CASE n \in subject.ns+1..Len(ssets)
    <3>1. PutTogether(n) /\ n \in 1..Len(ssets)
      BY <1>1, <2>1 DEF TableOK
    <3>2. /\ ssets[n].decomp1 + 1 \in 1..Len(ssets)
          /\ ssets[n].decomp2 + 1 \in 1..Len(ssets)
          /\ ssets'[n] = ssets[n]
      BY <1>1, <1>2, <2>1, <3>1 DEF PutTogether
    <3> QED
      BY <1>2, <3>1, <3>2 DEF PutTogether, Elements
  <2>2. CASE n = Len(ssets) + 1
    <3>1. /\ rec.decomp1 \in 0..n-2 /\ rec.decomp2 \in 0..n-2
          /\ rec.decomp1 + 1 \in 1..Len(ssets)
          /\ rec.decomp2 + 1 \in 1..Len(ssets)
      BY <1>1, <2>2 DEF Numbers
    <3>2. /\ ssets'[rec.decomp1 + 1] = ssets[rec.decomp1 + 1]
          /\ ssets'[rec.decomp2 + 1] = ssets[rec.decomp2 + 1]
          /\ ssets'[n] = rec
      BY <1>2, <2>2, <3>1
    <3> QED
      BY <3>1, <3>2 DEF PutTogether, Elements
  <2> QED
    BY <1>1, <1>2, <2>1, <2>2
<1>7. ASSUME NEW m \in 1..Len(ssets'), NEW n \in 1..Len(ssets'),
             ssets'[m].elements = ssets'[n].elements
      PROVE  m = n
  <2>1. /\ m \in 1..Len(ssets) \/ m = Len(ssets) + 1
        /\ n \in 1..Len(ssets) \/ n = Len(ssets) + 1
    BY <1>1, <1>2
  <2> QED
    BY <1>1, <1>2, <1>7, <2>1 DEF TableOK
<1> QED
  BY <1>2, <1>3, <1>4, <1>5, <1>6, <1>7 DEF TableOK

\* Looking up a set of which two known sets are the parts.
LEMMA TableGrows ==
    ASSUME SubjectOK, TableOK, UNCHANGED subject,
           NEW d \in Numbers, NEW e \in Numbers, NEW S,
           S = Elements(d) \cup Elements(e),
           ssets' = Table(S, d, e)
    PROVE  /\ Grown
           /\ TableOK'
           /\ SetPlace(ssets', S) \in 1..Len(ssets')
           /\ ssets'[SetPlace(ssets', S)].elements = S
<1>1. /\ ssets \in Seq(SetRecords) /\ Len(ssets) \in Nat
      /\ subject.ns \in Nat
  BY DEF TableOK, SubjectOK, IsAutomaton
<1>2. CASE \E n \in 1..Len(ssets) : ssets[n].elements = S
  <2>1. ssets' = ssets
    BY <1>2 DEF Table
  <2>2. Grown /\ TableOK'
    BY <2>1, SetKnown
  <2> QED
    BY <1>2, <2>1, <2>2 DEF SetPlace
<1>3. CASE ~\E n \in 1..Len(ssets) : ssets[n].elements = S
  <2> DEFINE rec == [elements |-> S, decomp1 |-> d, decomp2 |-> e]
  <2>1. ssets' = Append(ssets, rec)
    BY <1>3 DEF Table
  <2>2. /\ rec.decomp1 \in Numbers /\ rec.decomp2 \in Numbers
        /\ rec.elements = S
        /\ rec.elements = Elements(rec.decomp1) \cup Elements(rec.decomp2)
    OBVIOUS
  <2>3. rec \in SetRecords
    <3>1. /\ d \in Nat /\ d + 1 \in 1..Len(ssets)
          /\ e \in Nat /\ e + 1 \in 1..Len(ssets)
      BY <1>1 DEF Numbers
    <3>2. ssets[d + 1] \in SetRecords /\ ssets[e + 1] \in SetRecords
      BY <1>1, <3>1
    <3>3. S \in SUBSET States(subject)
      BY <3>2 DEF Elements, SetRecords
    <3> QED
      BY <3>1, <3>3 DEF SetRecords
  <2> HIDE DEF rec
  <2>4. /\ Grown /\ TableOK'
        /\ Len(ssets') = Len(ssets) + 1
        /\ ssets'[Len(ssets) + 1] = rec
    BY <1>1, <1>3, <2>1, <2>2, <2>3, SetNew
  <2>5. \E n \in 1..Len(ssets') : ssets'[n].elements = S
    <3>1. Len(ssets) + 1 \in 1..Len(ssets')
      BY <1>1, <2>4
    <3>2. ssets'[Len(ssets) + 1].elements = S
      BY <2>2, <2>4
    <3> QED
      BY <3>1, <3>2
  <2> QED
    BY <2>4, <2>5 DEF SetPlace
<1> QED
  BY <1>2, <1>3

\* What a set has stays as the table grows.
LEMMA ElementsKept ==
    ASSUME Grown, NEW n \in Numbers
    PROVE  /\ n \in Numbers' /\ Elements(n)' = Elements(n)
           /\ ssets'[n + 1] = ssets[n + 1]
BY DEF Grown, Numbers, Elements

\* A state is the number of the set of just that state.
LEMMA SingletonKnown ==
    ASSUME SubjectOK, TableOK, NEW p \in States(subject)
    PROVE  p \in Numbers /\ Elements(p) = {p}
<1>1. /\ subject.ns \in Nat /\ subject.ns <= Len(ssets) /\ Len(ssets) \in Nat
      /\ p \in Nat /\ p < subject.ns
  BY DEF SubjectOK, TableOK, IsAutomaton, States
<1>2. p \in Numbers /\ p + 1 \in 1..subject.ns /\ (p + 1) - 1 = p
  BY <1>1 DEF Numbers
<1>3. ssets[p + 1].elements = {(p + 1) - 1}
  BY <1>2 DEF TableOK
<1> QED
  BY <1>2, <1>3 DEF Elements

\* The set looked up is the one that the place found is about.
LEMMA PlaceIsNumber ==
    ASSUME Grown, NEW S, SetPlace(ssets', S) \in 1..Len(ssets'),
           ssets'[SetPlace(ssets', S)].elements = S
    PROVE  /\ SetPlace(ssets', S) - 1 \in Numbers'
           /\ ssets'[(SetPlace(ssets', S) - 1) + 1].elements = S
<1>1. Len(ssets') \in Nat
  BY DEF Grown
<1>2. /\ SetPlace(ssets', S) - 1 \in Numbers'
      /\ (SetPlace(ssets', S) - 1) + 1 = SetPlace(ssets', S)
  BY <1>1 DEF Numbers
<1> QED
  BY <1>2

-----------------------------------------------------------------------------
\* The parts of the invariant that look at the table only through the
\* elements of known sets.
LEMMA KnownKept ==
    ASSUME Grown, MadeOK, EvalsOK, QueueOK, MadeFollows, SubjectOK,
           UNCHANGED <<subject, track, sq, single, evals, queue, at, made>>
    PROVE  MadeOK' /\ EvalsOK' /\ QueueOK' /\ MadeFollows'
<1>1. Numbers \subseteq Numbers'
  BY DEF Grown, Numbers
<1>2. [Letters -> Numbers] \subseteq [Letters -> Numbers]'
  BY <1>1
<1>3. (SubsetSuccessors)'
  <2>1. ASSUME NEW n \in DOMAIN sq, NEW l \in Letters
        PROVE  Elements(sq[n][l])' = Guesses(subject, track, Elements(n), l)'
    <3>1. n \in Numbers /\ sq[n][l] \in Numbers
      BY DEF MadeOK
    <3>2. Elements(n)' = Elements(n) /\ Elements(sq[n][l])' = Elements(sq[n][l])
      BY <3>1, ElementsKept DEF Elements
    <3> QED
      BY <3>2 DEF MadeOK, SubsetSuccessors
  <2> QED
    BY <2>1 DEF SubsetSuccessors
<1>4. MadeOK'
  <2>1. \A n \in DOMAIN sq : sq[n] \in [Letters -> Numbers']
    BY <1>2 DEF MadeOK
  <2> QED
    BY <1>1, <1>3, <2>1 DEF MadeOK
<1>5. EvalsOK'
  <2>1. evals \in Seq(Numbers')
    BY <1>1, Widened DEF EvalsOK
  <2> QED
    BY <2>1 DEF EvalsOK, EvalDescends
<1>6. QueueOK'
  <2>1. queue \in Seq(Numbers')
    BY <1>1, Widened DEF QueueOK
  <2> QED
    BY <2>1 DEF QueueOK
<1>7. MadeFollows'
  <2>1. ASSUME NEW n \in 1..Len(made), NEW l \in Letters
        PROVE  Elements(queue[made[n][l] + 1])' = Succ(Elements(queue[n]), l)'
    <3>1. made[n] \in [Letters -> 0..Len(queue)-1] /\ n \in 1..Len(queue)
      BY DEF QueueOK
    <3>2. made[n][l] + 1 \in 1..Len(queue)
      BY <3>1 DEF QueueOK
    <3>3. queue[n] \in Numbers /\ queue[made[n][l] + 1] \in Numbers
      BY <3>1, <3>2 DEF QueueOK
    <3>4. /\ Elements(queue[n])' = Elements(queue[n])
          /\ Elements(queue[made[n][l] + 1])' = Elements(queue[made[n][l] + 1])
      BY <3>3, ElementsKept DEF Elements
    <3>5. Succ(Elements(queue[n]), l)' = Succ(Elements(queue[n]), l)
      BY <3>4 DEF Succ
    <3> QED
      BY <3>4, <3>5 DEF MadeFollows
  <2> QED
    BY <2>1 DEF MadeFollows
<1> QED
  BY <1>4, <1>5, <1>6, <1>7

\* proj_term1: the leaf is the set of the two states that can be guessed.
LEMMA ProjTerm1Inv == ProjectInv /\ ProjTerm1 => ProjectInv'
<1> SUFFICES ASSUME ProjectInv, ProjTerm1
             PROVE  ProjectInv'
  OBVIOUS
<1>0. /\ SubjectOK /\ TableOK /\ MadeOK /\ EvalsOK
      /\ QueueOK /\ MadeFollows /\ LeavesFollow
  BY DEF ProjectInv
<1> DEFINE p == Guess(single, Letter, 0)
           q == Guess(single, Letter, 1)
<1>1. /\ single < subject.ns /\ Len(leaves) < LetterCount
      /\ ssets' = Table({p, q}, p, q)
      /\ leaves' = Append(leaves, SetPlace(ssets', {p, q}) - 1)
      /\ UNCHANGED <<subject, track, sq, single, evals, queue, at, made>>
  BY DEF ProjTerm1, Letter
<1>2. /\ subject.ns \in Nat /\ single \in States(subject)
      /\ single \in Nat
  BY <1>0, <1>1 DEF SubjectOK, IsAutomaton, MadeOK, States
<1>3. SingleLeaves /\ evals = <<>> /\ Len(leaves) \in Nat
  <2>1. single # subject.ns
    BY <1>1, <1>2
  <2>2. evals = <<>>
    BY <1>0, <2>1 DEF MadeOK, EvalsOK
  <2>3. SingleLeaves
    BY <1>0, <1>1 DEF LeavesFollow
  <2>4. Len(leaves) \in Nat
    BY <2>3 DEF SingleLeaves
  <2> QED
    BY <2>2, <2>3, <2>4
<1>4. Letter \in Letters /\ Letter = Len(leaves)
  BY <1>1, <1>3, LetterFacts DEF Letter
<1>5. p \in States(subject) /\ q \in States(subject)
  BY <1>0, <1>2, <1>4, GuessStates
<1>6. /\ p \in Numbers /\ q \in Numbers
      /\ Elements(p) = {p} /\ Elements(q) = {q}
  BY <1>0, <1>5, SingletonKnown
<1>7. /\ Grown
      /\ TableOK'
      /\ SetPlace(ssets', {p, q}) \in 1..Len(ssets')
      /\ ssets'[SetPlace(ssets', {p, q})].elements = {p, q}
  <2>1. {p, q} = Elements(p) \cup Elements(q)
    BY <1>6
  <2>2. ssets' = Table({p, q}, p, q) /\ UNCHANGED subject
    BY <1>1
  <2> HIDE DEF p, q
  <2> QED
    BY <1>0, <1>6, <2>1, <2>2, TableGrows
<1>8. SubjectOK'
  BY <1>0, <1>1 DEF SubjectOK, IsAutomaton, States
<1>9. MadeOK' /\ EvalsOK' /\ QueueOK' /\ MadeFollows'
  BY <1>0, <1>1, <1>7, KnownKept
<1>10. LeavesFollow'
  <2> DEFINE leaf == SetPlace(ssets', {p, q}) - 1
  <2>1. leaf \in Numbers' /\ ssets'[leaf + 1].elements = {p, q}
    <3> HIDE DEF p, q
    <3> QED
      BY <1>7, PlaceIsNumber
  <2>2. {p, q} = Succ({single}, Letter)
    BY SuccSingle
  <2>3. leaves' = Append(leaves, leaf)
    BY <1>1
  <2>4. leaves \in Seq(Numbers')
    <3>1. Numbers \subseteq Numbers'
      BY <1>7 DEF Grown, Numbers
    <3> QED
      BY <1>3, <3>1, Widened DEF SingleLeaves
  <2> HIDE DEF leaf, p, q
  <2>5. /\ leaves' \in Seq(Numbers')
        /\ Len(leaves') = Len(leaves) + 1
        /\ \A n \in 1..Len(leaves) : leaves'[n] = leaves[n]
        /\ leaves'[Len(leaves) + 1] = leaf
    BY <2>1, <2>3, <2>4, AppendFacts
  <2>6. \A S, l : Succ(S, l)' = Succ(S, l)
    BY <1>1 DEF Succ
  <2>7. ASSUME NEW k \in 1..Len(leaves')
        PROVE  Elements(leaves[k])' = Succ({single}, k - 1)
    <3>1. CASE k \in 1..Len(leaves)
      <4>1. leaves'[k] = leaves[k] /\ leaves[k] \in Numbers
        BY <1>3, <2>5, <3>1 DEF SingleLeaves
      <4>2. Elements(leaves[k]) = Succ({single}, k - 1)
        BY <1>3, <3>1 DEF SingleLeaves
      <4>3. Elements(leaves[k])' = ssets'[leaves[k] + 1].elements
        BY <4>1 DEF Elements
      <4>4. ssets'[leaves[k] + 1] = ssets[leaves[k] + 1]
        <5>1. leaves[k] + 1 \in 1..Len(ssets)
          BY <1>7, <4>1 DEF Grown, Numbers
        <5> QED
          BY <1>7, <5>1 DEF Grown
      <4> QED
        BY <4>2, <4>3, <4>4 DEF Elements
    <3>2. CASE k = Len(leaves) + 1
      <4>1. leaves'[k] = leaf /\ k - 1 = Letter
        BY <1>3, <1>4, <2>5, <3>2
      <4>2. Elements(leaves[k])' = ssets'[leaf + 1].elements
        BY <4>1 DEF Elements
      <4>3. Succ({single}, k - 1) = {p, q}
        BY <2>2, <4>1
      <4> QED
        BY <2>1, <4>2, <4>3
    <3> QED
      BY <1>3, <2>5, <3>1, <3>2
  <2>8. SingleLeaves'
    BY <1>1, <2>5, <2>6, <2>7 DEF SingleLeaves
  <2>9. Len(leaves') <= LetterCount
    BY <1>1, <1>3, <2>5, LetterFacts
  <2>10. single' < subject'.ns /\ evals' = <<>> /\ single' # subject'.ns
    BY <1>1, <1>2, <1>3
  <2> QED
    BY <2>8, <2>9, <2>10 DEF LeavesFollow
<1> QED
  BY <1>7, <1>8, <1>9, <1>10 DEF ProjectInv

\* No phase has begun.
LEMMA NoLeaves == leaves = <<>> => LeavesFollow
BY LetterFacts
   DEF LeavesFollow, SingleLeaves, EvalLeaves, QueueLeaves

\* A BDD is made when there is a leaf for every letter.
LEMMA RootFacts ==
    ASSUME NEW S, leaves \in Seq(S), Len(leaves) = LetterCount
    PROVE  /\ Root \in [Letters -> S]
           /\ \A l \in Letters : /\ l + 1 \in 1..Len(leaves)
                                 /\ (l + 1) - 1 = l
                                 /\ Root[l] = leaves[l + 1]
<1>1. \A l \in Letters : l + 1 \in 1..Len(leaves) /\ (l + 1) - 1 = l
  BY LetterFacts
<1>2. \A k \in 1..Len(leaves) : leaves[k] \in S
  OBVIOUS
<1> QED
  BY <1>1, <1>2 DEF Root

\* The transitions of the set x are made.
LEMMA SqExtends ==
    ASSUME NEW x \in Numbers, NEW root \in [Letters -> Numbers],
           UNCHANGED <<subject, track, ssets>>,
           DOMAIN sq \subseteq Numbers,
           \A n \in DOMAIN sq : sq[n] \in [Letters -> Numbers],
           SubsetSuccessors,
           \A l \in Letters : Elements(root[l]) = Succ(Elements(x), l),
           sq' = [n \in DOMAIN sq \cup {x} |-> IF n = x THEN root ELSE sq[n]]
    PROVE  /\ DOMAIN sq' = DOMAIN sq \cup {x}
           /\ DOMAIN sq' \subseteq Numbers'
           /\ \A n \in DOMAIN sq' : sq'[n] \in [Letters -> Numbers']
           /\ SubsetSuccessors'
<1>1. DOMAIN sq' = DOMAIN sq \cup {x} /\ Numbers' = Numbers
  BY DEF Numbers
<1>2. \A n \in DOMAIN sq' : sq'[n] \in [Letters -> Numbers']
  BY <1>1
<1>3. ASSUME NEW n \in DOMAIN sq', NEW l \in Letters
      PROVE  Elements(sq'[n][l]) = Succ(Elements(n), l)
  <2>1. CASE n = x
    BY <2>1
  <2>2. CASE n # x
    BY <1>1, <2>2, SubsetSucc
  <2> QED
    BY <2>1, <2>2
<1>4. SubsetSuccessors'
  BY <1>3 DEF SubsetSuccessors, Elements, Succ
<1> QED
  BY <1>1, <1>2, <1>4

\* bdd_project returns for a singleton.
LEMMA SingletonMadeInv == ProjectInv /\ SingletonMade => ProjectInv'
<1> SUFFICES ASSUME ProjectInv, SingletonMade
             PROVE  ProjectInv'
  OBVIOUS
<1>0. /\ SubjectOK /\ TableOK /\ MadeOK /\ EvalsOK
      /\ QueueOK /\ MadeFollows /\ LeavesFollow
  BY DEF ProjectInv
<1>1. /\ single < subject.ns /\ Len(leaves) = LetterCount
      /\ sq' = [n \in DOMAIN sq \cup {single} |-> IF n = single THEN Root ELSE sq[n]]
      /\ single' = single + 1
      /\ queue' = IF single + 1 = subject.ns THEN <<subject.s>> ELSE queue
      /\ leaves' = <<>>
      /\ UNCHANGED <<subject, track, ssets, evals, at, made>>
  BY DEF SingletonMade, Letter
<1>2. /\ subject.ns \in Nat /\ single \in States(subject)
      /\ single \in Nat /\ subject.s \in States(subject)
  BY <1>0, <1>1 DEF SubjectOK, IsAutomaton, MadeOK, States
<1>3. /\ SingleLeaves /\ queue = <<>> /\ evals = <<>>
      /\ at = 1 /\ made = <<>>
  <2>1. single # subject.ns
    BY <1>1, <1>2
  <2>2. queue = <<>> /\ evals = <<>>
    BY <1>0, <2>1 DEF MadeOK, EvalsOK
  <2>3. SingleLeaves
    BY <1>0, <1>1 DEF LeavesFollow
  <2>4. at = 1
    BY <1>0, <2>2 DEF QueueOK
  <2>5. made = <<>>
    BY <1>0, <2>4 DEF QueueOK
  <2> QED
    BY <2>2, <2>3, <2>4, <2>5
<1>4. /\ single \in Numbers /\ Elements(single) = {single}
      /\ subject.s \in Numbers
  BY <1>0, <1>2, SingletonKnown
<1>5. Root \in [Letters -> Numbers]
  BY <1>1, <1>3, RootFacts DEF SingleLeaves
<1>6. \A l \in Letters : Elements(Root[l]) = Succ(Elements(single), l)
  <2> TAKE l \in Letters
  <2>1. l + 1 \in 1..Len(leaves) /\ (l + 1) - 1 = l /\ Root[l] = leaves[l + 1]
    BY <1>1, <1>3, RootFacts DEF SingleLeaves
  <2>2. Elements(leaves[l + 1]) = Succ({single}, (l + 1) - 1)
    BY <1>3, <2>1 DEF SingleLeaves
  <2> QED
    BY <1>4, <2>1, <2>2
<1>7. /\ DOMAIN sq' = DOMAIN sq \cup {single}
      /\ DOMAIN sq' \subseteq Numbers'
      /\ \A n \in DOMAIN sq' : sq'[n] \in [Letters -> Numbers']
      /\ SubsetSuccessors'
  BY <1>0, <1>1, <1>4, <1>5, <1>6, SqExtends DEF MadeOK
<1>8. SubjectOK' /\ TableOK'
  BY <1>0, <1>1, SetKnown DEF SubjectOK
<1>9. MadeOK'
  <2>1. 0..single'-1 \subseteq DOMAIN sq'
    BY <1>0, <1>1, <1>2, <1>7 DEF MadeOK
  <2>2. single' \in 0..subject'.ns /\ (queue' # <<>> <=> single' = subject'.ns)
    BY <1>1, <1>2, <1>3
  <2> QED
    BY <1>7, <2>1, <2>2 DEF MadeOK
<1>10. EvalsOK'
  BY <1>0, <1>1, <1>3 DEF EvalsOK, EvalDescends, Numbers
<1>11. QueueOK' /\ MadeFollows'
  <2>0. queue' = <<>> \/ queue' = <<subject.s>>
    BY <1>1, <1>3
  <2>1. queue' \in Seq(Numbers')
    <3>1. Numbers' = Numbers
      BY <1>1 DEF Numbers
    <3>2. CASE queue' = <<>>
      BY <3>2
    <3>3. CASE queue' = <<subject.s>>
      BY <1>4, <3>1, <3>3
    <3> QED
      BY <2>0, <3>2, <3>3
  <2>2. Len(queue') \in Nat /\ Len(queue') <= 1
    BY <2>0
  <2>3. /\ \A m, n \in 1..Len(queue') : m = n
        /\ at' \in 1..Len(queue')+1
    BY <1>1, <1>3, <2>2
  <2>4. made' = <<>> /\ Len(made') = at' - 1
    BY <1>1, <1>3
  <2> QED
    BY <2>1, <2>3, <2>4 DEF QueueOK, MadeFollows
<1>12. LeavesFollow'
  <2>1. (leaves = <<>> => LeavesFollow)'
    BY NoLeaves, PTL
  <2> QED
    BY <1>1, <2>1
<1> QED
  BY <1>8, <1>9, <1>10, <1>11, <1>12 DEF ProjectInv

\* A set without transitions is no singleton.
LEMMA NotMade ==
    ASSUME SubjectOK, MadeOK, queue # <<>>, NEW n \in Numbers, ~Made(n)
    PROVE  n >= subject.ns
BY DEF MadeOK, Made, Numbers, SubjectOK, IsAutomaton

\* What stays as the stack of eval_bdd changes.
LEMMA StackOnly ==
    ASSUME SubjectOK, TableOK, MadeOK, QueueOK, MadeFollows,
           UNCHANGED <<subject, track, ssets, sq, single, queue, at, made>>
    PROVE  SubjectOK' /\ TableOK' /\ MadeOK' /\ QueueOK' /\ MadeFollows'
<1>1. SubjectOK' /\ TableOK'
  <2>1. UNCHANGED <<subject, ssets>>
    OBVIOUS
  <2> QED
    BY <2>1, SetKnown DEF SubjectOK
<1>2. SubsetSuccessors'
  BY DEF MadeOK, SubsetSuccessors, Elements
<1>3. MadeOK' /\ QueueOK'
  BY <1>2 DEF MadeOK, QueueOK, Numbers
<1>4. MadeFollows'
  BY DEF MadeFollows, Elements, Succ
<1> QED
  BY <1>1, <1>3, <1>4

\* The first call of eval_bdd for a set that was reached.
LEMMA EvalQueuedInv == ProjectInv /\ EvalQueued => ProjectInv'
<1> SUFFICES ASSUME ProjectInv, EvalQueued
             PROVE  ProjectInv'
  OBVIOUS
<1>0. /\ SubjectOK /\ TableOK /\ MadeOK /\ EvalsOK
      /\ QueueOK /\ MadeFollows /\ LeavesFollow
  BY DEF ProjectInv
<1>1. /\ at <= Len(queue) /\ evals = <<>> /\ ~Made(queue[at])
      /\ evals' = <<queue[at]>>
      /\ UNCHANGED <<subject, track, ssets, sq, single, queue, at, leaves, made>>
  BY DEF EvalQueued, Evaluating
<1>2. at \in 1..Len(queue) /\ queue # <<>> /\ queue[at] \in Numbers
  BY <1>0, <1>1 DEF QueueOK
<1>3. queue[at] >= subject.ns
  BY <1>0, <1>1, <1>2, NotMade
<1>4. SubjectOK' /\ TableOK' /\ MadeOK' /\ QueueOK' /\ MadeFollows'
  BY <1>0, <1>1, StackOnly
<1>5. EvalsOK'
  <2>1. evals' \in Seq(Numbers') /\ Len(evals') = 1 /\ evals'[1] = queue[at]
    BY <1>1, <1>2 DEF Numbers
  <2> QED
    BY <1>1, <1>2, <1>3, <2>1 DEF EvalsOK, EvalDescends
<1>6. leaves' = <<>>
  <2>1. single = subject.ns
    BY <1>0, <1>2 DEF MadeOK
  <2> QED
    BY <1>0, <1>1, <2>1 DEF LeavesFollow, QueueLeaves
<1>7. LeavesFollow'
  <2>1. (leaves = <<>> => LeavesFollow)'
    BY NoLeaves, PTL
  <2> QED
    BY <1>6, <2>1
<1> QED
  BY <1>4, <1>5, <1>7 DEF ProjectInv

\* The set on top of the stack was put together from sets met before it.
LEMMA InnermostParts ==
    ASSUME SubjectOK, TableOK, EvalsOK, evals # <<>>
    PROVE  /\ Innermost \in Numbers /\ Innermost >= subject.ns
           /\ Len(evals) \in Nat /\ Len(evals) >= 1
           /\ Decomp1 \in Numbers /\ Decomp1 < Innermost
           /\ Decomp2 \in Numbers /\ Decomp2 < Innermost
           /\ Elements(Innermost) = Elements(Decomp1) \cup Elements(Decomp2)
<1>1. Len(evals) \in Nat /\ Len(evals) >= 1
  BY DEF EvalsOK
<1>2. Innermost \in Numbers /\ Innermost >= subject.ns
  BY <1>1 DEF EvalsOK, EvalDescends, Innermost
<1>3. /\ Innermost + 1 \in subject.ns+1..Len(ssets) /\ Innermost \in Nat
      /\ Innermost < Len(ssets) /\ Len(ssets) \in Nat
  BY <1>2 DEF TableOK, SubjectOK, IsAutomaton, Numbers
<1>4. PutTogether(Innermost + 1)
  BY <1>3 DEF TableOK
<1>5. /\ Decomp1 \in 0..(Innermost + 1)-2
      /\ Decomp2 \in 0..(Innermost + 1)-2
      /\ Elements(Innermost) = Elements(Decomp1) \cup Elements(Decomp2)
  BY <1>4 DEF PutTogether, Decomp1, Decomp2, Elements
<1>6. /\ Decomp1 \in Numbers /\ Decomp1 < Innermost
      /\ Decomp2 \in Numbers /\ Decomp2 < Innermost
  BY <1>3, <1>5 DEF Numbers
<1> QED
  BY <1>1, <1>2, <1>5, <1>6

\* A recursive call of eval_bdd.
LEMMA EvalComponentInv == ProjectInv /\ EvalComponent => ProjectInv'
<1> SUFFICES ASSUME ProjectInv, EvalComponent
             PROVE  ProjectInv'
  OBVIOUS
<1>0. /\ SubjectOK /\ TableOK /\ MadeOK /\ EvalsOK
      /\ QueueOK /\ MadeFollows /\ LeavesFollow
  BY DEF ProjectInv
<1> DEFINE part == IF Made(Decomp1) THEN Decomp2 ELSE Decomp1
<1>1. /\ evals # <<>>
      /\ ~Made(Decomp1) \/ ~Made(Decomp2)
      /\ evals' = Append(evals, part)
      /\ UNCHANGED <<subject, track, ssets, sq, single, queue, at, leaves, made>>
  BY DEF EvalComponent, Evaluating
<1>2. /\ Innermost \in Numbers /\ Innermost >= subject.ns
      /\ Len(evals) \in Nat /\ Len(evals) >= 1
      /\ Decomp1 \in Numbers /\ Decomp1 < Innermost
      /\ Decomp2 \in Numbers /\ Decomp2 < Innermost
  BY <1>0, <1>1, InnermostParts
<1>3. part \in Numbers /\ part < Innermost /\ ~Made(part)
  BY <1>1, <1>2
<1>4. queue # <<>> /\ part >= subject.ns
  <2> HIDE DEF part
  <2> QED
    BY <1>0, <1>1, <1>3, NotMade DEF EvalsOK
<1>5. SubjectOK' /\ TableOK' /\ MadeOK' /\ QueueOK' /\ MadeFollows'
  BY <1>0, <1>1, StackOnly
<1>6. EvalsOK'
  <2>1. evals' = Append(evals, part)
    BY <1>1
  <2> HIDE DEF part
  <2>2. evals \in Seq(Numbers)
    BY <1>0 DEF EvalsOK
  <2>3. /\ evals' \in Seq(Numbers)
        /\ Len(evals') = Len(evals) + 1
        /\ \A n \in 1..Len(evals) : evals'[n] = evals[n]
        /\ evals'[Len(evals) + 1] = part
    BY <1>3, <2>1, <2>2, AppendFacts
  <2>4. ASSUME NEW n \in 1..Len(evals')
        PROVE  evals'[n] >= subject.ns /\ (n > 1 => evals'[n] < evals'[n-1])
    <3>1. CASE n \in 1..Len(evals)
      <4>1. evals[n] >= subject.ns /\ (n > 1 => evals[n] < evals[n-1])
        BY <1>0, <3>1 DEF EvalsOK, EvalDescends
      <4>2. evals'[n] = evals[n] /\ (n > 1 => evals'[n-1] = evals[n-1])
        BY <2>3, <3>1
      <4> QED
        BY <4>1, <4>2
    <3>2. CASE n = Len(evals) + 1
      <4>1. n - 1 = Len(evals) /\ evals'[n - 1] = Innermost /\ evals'[n] = part
        BY <1>2, <2>3, <3>2 DEF Innermost
      <4> QED
        BY <1>3, <1>4, <4>1
    <3> QED
      BY <1>2, <2>3, <3>1, <3>2
  <2>5. EvalDescends'
    BY <1>1, <2>4 DEF EvalDescends
  <2>6. evals' \in Seq(Numbers')
    BY <1>1, <2>3 DEF Numbers
  <2> QED
    BY <1>1, <1>4, <2>5, <2>6 DEF EvalsOK
<1>7. leaves' = <<>>
  BY <1>0, <1>1 DEF LeavesFollow, EvalLeaves
<1>8. LeavesFollow'
  <2>1. (leaves = <<>> => LeavesFollow)'
    BY NoLeaves, PTL
  <2> QED
    BY <1>7, <2>1
<1> QED
  BY <1>5, <1>6, <1>8 DEF ProjectInv

\* proj_term2: the leaf is the union of two sets.
LEMMA ProjTerm2Inv == ProjectInv /\ ProjTerm2 => ProjectInv'
<1> SUFFICES ASSUME ProjectInv, ProjTerm2
             PROVE  ProjectInv'
  OBVIOUS
<1>0. /\ SubjectOK /\ TableOK /\ MadeOK /\ EvalsOK
      /\ QueueOK /\ MadeFollows /\ LeavesFollow
  BY DEF ProjectInv
<1> DEFINE m == sq[Decomp1][Letter]
           n == sq[Decomp2][Letter]
           S == Elements(m) \cup Elements(n)
<1>1. /\ evals # <<>> /\ Len(leaves) < LetterCount
      /\ Made(Decomp1) /\ Made(Decomp2)
      /\ ssets' = Table(S, m, n)
      /\ leaves' = Append(leaves, SetPlace(ssets', S) - 1)
      /\ UNCHANGED <<subject, track, sq, single, evals, queue, at, made>>
  BY DEF ProjTerm2, Evaluating, Letter
<1>2. EvalLeaves /\ Len(leaves) \in Nat /\ Letter = Len(leaves)
  <2> HIDE DEF m, n, S
  <2>1. EvalLeaves
    BY <1>0, <1>1 DEF LeavesFollow
  <2>2. Len(leaves) \in Nat
    BY <2>1 DEF EvalLeaves
  <2> QED
    BY <2>1, <2>2 DEF Letter
<1>3. Letter \in Letters
  BY <1>1, <1>2, LetterFacts
<1>4. m \in Numbers /\ n \in Numbers
  BY <1>0, <1>1, <1>3 DEF MadeOK, Made
<1>5. /\ Grown
      /\ TableOK'
      /\ SetPlace(ssets', S) \in 1..Len(ssets')
      /\ ssets'[SetPlace(ssets', S)].elements = S
  <2>1. S = Elements(m) \cup Elements(n) /\ ssets' = Table(S, m, n)
    BY <1>1
  <2> HIDE DEF m, n, S
  <2> QED
    BY <1>0, <1>1, <1>4, <2>1, TableGrows
<1>6. SubjectOK'
  BY <1>0, <1>1 DEF SubjectOK, IsAutomaton, States
<1>7. MadeOK' /\ EvalsOK' /\ QueueOK' /\ MadeFollows'
  BY <1>0, <1>1, <1>5, KnownKept
<1>8. /\ Innermost \in Numbers
      /\ Decomp1 \in Numbers /\ Decomp2 \in Numbers
  BY <1>0, <1>1, InnermostParts
<1>9. Decomp1' = Decomp1 /\ Decomp2' = Decomp2
  <2>1. Innermost' = Innermost
    BY <1>1 DEF Innermost
  <2>2. ssets'[Innermost + 1] = ssets[Innermost + 1]
    BY <1>5, <1>8 DEF Grown, Numbers
  <2> QED
    BY <2>1, <2>2 DEF Decomp1, Decomp2
<1>10. LeavesFollow'
  <2> DEFINE leaf == SetPlace(ssets', S) - 1
  <2>1. leaf \in Numbers' /\ ssets'[leaf + 1].elements = S
    <3> HIDE DEF S
    <3> QED
      BY <1>5, PlaceIsNumber
  <2>2. leaves' = Append(leaves, leaf)
    BY <1>1
  <2>3. leaves \in Seq(Numbers')
    <3>1. Numbers \subseteq Numbers'
      BY <1>5 DEF Grown, Numbers
    <3> QED
      BY <1>2, <3>1, Widened DEF EvalLeaves
  <2> HIDE DEF leaf
  <2>4. /\ leaves' \in Seq(Numbers')
        /\ Len(leaves') = Len(leaves) + 1
        /\ \A k \in 1..Len(leaves) : leaves'[k] = leaves[k]
        /\ leaves'[Len(leaves) + 1] = leaf
    BY <2>1, <2>2, <2>3, AppendFacts
  <2>5. ASSUME NEW k \in 1..Len(leaves')
        PROVE  ssets'[leaves'[k] + 1].elements
                 = ssets'[sq[Decomp1][k - 1] + 1].elements
                     \cup ssets'[sq[Decomp2][k - 1] + 1].elements
    <3>0. k - 1 \in Letters
      BY <1>1, <1>2, <2>4, LetterFacts
    <3>1. /\ sq[Decomp1][k - 1] \in Numbers
          /\ sq[Decomp2][k - 1] \in Numbers
      BY <1>0, <1>1, <3>0 DEF MadeOK, Made
    <3>2. /\ ssets'[sq[Decomp1][k - 1] + 1] = ssets[sq[Decomp1][k - 1] + 1]
          /\ ssets'[sq[Decomp2][k - 1] + 1] = ssets[sq[Decomp2][k - 1] + 1]
      BY <1>5, <3>1, ElementsKept
    <3>3. CASE k \in 1..Len(leaves)
      <4>1. leaves'[k] = leaves[k] /\ leaves[k] \in Numbers
        BY <1>2, <2>4, <3>3 DEF EvalLeaves
      <4>2. ssets'[leaves[k] + 1] = ssets[leaves[k] + 1]
        BY <1>5, <4>1 DEF Grown, Numbers
      <4>3. Elements(leaves[k]) =
              Elements(sq[Decomp1][k - 1]) \cup Elements(sq[Decomp2][k - 1])
        BY <1>2, <3>3 DEF EvalLeaves
      <4> QED
        BY <3>2, <4>1, <4>2, <4>3 DEF Elements
    <3>4. CASE k = Len(leaves) + 1
      <4>1. leaves'[k] = leaf /\ k - 1 = Letter
        BY <1>2, <2>4, <3>4
      <4>2. S = Elements(sq[Decomp1][k - 1]) \cup Elements(sq[Decomp2][k - 1])
        BY <4>1
      <4> QED
        BY <2>1, <3>2, <4>1, <4>2 DEF Elements
    <3> QED
      BY <1>2, <2>4, <3>3, <3>4
  <2>6. EvalLeaves'
    BY <1>1, <1>9, <2>4, <2>5 DEF EvalLeaves, Made, Elements
  <2>7. Len(leaves') <= LetterCount /\ evals' # <<>>
    BY <1>1, <1>2, <2>4, LetterFacts
  <2>8. ~(single' < subject'.ns)
    <3>1. single = subject.ns
      BY <1>0, <1>1 DEF EvalsOK, MadeOK
    <3> QED
      BY <1>0, <1>1, <3>1 DEF SubjectOK, IsAutomaton
  <2> QED
    BY <2>6, <2>7, <2>8 DEF LeavesFollow
<1> QED
  BY <1>5, <1>6, <1>7, <1>10 DEF ProjectInv

\* eval_bdd returns: what the states of a set can do is what those of its
\* parts can.
LEMMA EvalReturnsInv == ProjectInv /\ EvalReturns => ProjectInv'
<1> SUFFICES ASSUME ProjectInv, EvalReturns
             PROVE  ProjectInv'
  OBVIOUS
<1>0. /\ SubjectOK /\ TableOK /\ MadeOK /\ EvalsOK
      /\ QueueOK /\ MadeFollows /\ LeavesFollow
  BY DEF ProjectInv
<1>1. /\ evals # <<>> /\ Len(leaves) = LetterCount
      /\ sq' = [n \in DOMAIN sq \cup {Innermost} |->
                  IF n = Innermost THEN Root ELSE sq[n]]
      /\ evals' = SubSeq(evals, 1, Len(evals) - 1)
      /\ leaves' = <<>>
      /\ UNCHANGED <<subject, track, ssets, single, queue, at, made>>
  BY DEF EvalReturns, Evaluating, Letter
<1>2. /\ Innermost \in Numbers
      /\ Len(evals) \in Nat /\ Len(evals) >= 1
      /\ Elements(Innermost) = Elements(Decomp1) \cup Elements(Decomp2)
  BY <1>0, <1>1, InnermostParts
<1>3. /\ leaves \in Seq(Numbers) /\ Made(Decomp1) /\ Made(Decomp2)
      /\ EvalLeaves
  <2>1. EvalLeaves
    BY <1>0, <1>1 DEF LeavesFollow
  <2>2. leaves # <<>>
    BY <1>1, LetterFacts
  <2> QED
    BY <2>1, <2>2 DEF EvalLeaves
<1>4. Root \in [Letters -> Numbers]
  BY <1>1, <1>3, RootFacts
<1>5. \A l \in Letters : Elements(Root[l]) = Succ(Elements(Innermost), l)
  <2> TAKE l \in Letters
  <2>1. l + 1 \in 1..Len(leaves) /\ (l + 1) - 1 = l /\ Root[l] = leaves[l + 1]
    BY <1>1, <1>3, RootFacts
  <2>2. Elements(leaves[l + 1])
          = Elements(sq[Decomp1][(l + 1) - 1]) \cup Elements(sq[Decomp2][(l + 1) - 1])
    BY <1>3, <2>1 DEF EvalLeaves
  <2>3. /\ Elements(sq[Decomp1][l]) = Succ(Elements(Decomp1), l)
        /\ Elements(sq[Decomp2][l]) = Succ(Elements(Decomp2), l)
    BY <1>0, <1>3, SubsetSucc DEF MadeOK, Made
  <2>4. Succ(Elements(Innermost), l)
          = Succ(Elements(Decomp1), l) \cup Succ(Elements(Decomp2), l)
    BY <1>2, SuccUnion
  <2> QED
    BY <2>1, <2>2, <2>3, <2>4
<1>6. /\ DOMAIN sq' = DOMAIN sq \cup {Innermost}
      /\ DOMAIN sq' \subseteq Numbers'
      /\ \A n \in DOMAIN sq' : sq'[n] \in [Letters -> Numbers']
      /\ SubsetSuccessors'
  BY <1>0, <1>1, <1>2, <1>4, <1>5, SqExtends DEF MadeOK
<1>7. SubjectOK' /\ TableOK'
  <2>1. UNCHANGED <<subject, ssets>>
    BY <1>1
  <2> QED
    BY <1>0, <1>1, <2>1, SetKnown DEF SubjectOK
<1>8. MadeOK'
  BY <1>0, <1>1, <1>6 DEF MadeOK
<1>9. EvalsOK'
  <2>1. /\ evals' \in Seq(Numbers)
        /\ Len(evals') = Len(evals) - 1
        /\ \A n \in 1..Len(evals') : evals'[n] = evals[n]
    <3>1. evals' = SubSeq(evals, 1, Len(evals) - 1) /\ evals \in Seq(Numbers)
      BY <1>0, <1>1 DEF EvalsOK
    <3>2. Len(evals) - 1 \in Nat /\ Len(evals) - 1 <= Len(evals)
      BY <1>2
    <3> QED
      BY <3>1, <3>2, PrefixFacts
  <2>2. ASSUME NEW n \in 1..Len(evals')
        PROVE  evals'[n] >= subject.ns /\ (n > 1 => evals'[n] < evals'[n-1])
    <3>1. n \in 1..Len(evals) /\ evals'[n] = evals[n]
      BY <1>2, <2>1
    <3>2. n > 1 => evals'[n-1] = evals[n-1]
      BY <1>2, <2>1
    <3> QED
      BY <1>0, <3>1, <3>2 DEF EvalsOK, EvalDescends
  <2>3. EvalDescends'
    BY <1>1, <2>2 DEF EvalDescends
  <2>4. queue' # <<>> /\ evals' \in Seq(Numbers')
    BY <1>0, <1>1, <2>1 DEF EvalsOK, Numbers
  <2> QED
    BY <2>3, <2>4 DEF EvalsOK
<1>10. QueueOK' /\ MadeFollows'
  BY <1>0, <1>1 DEF QueueOK, MadeFollows, Numbers, Elements, Succ
<1>11. LeavesFollow'
  <2>1. (leaves = <<>> => LeavesFollow)'
    BY NoLeaves, PTL
  <2> QED
    BY <1>1, <2>1
<1> QED
  BY <1>6, <1>7, <1>8, <1>9, <1>10, <1>11 DEF ProjectInv

\* What is known in the loop over the queue, outside eval_bdd.
LEMMA InTheLoop ==
    ASSUME ProjectInv, at <= Len(queue), evals = <<>>
    PROVE  /\ QueueLeaves /\ single = subject.ns
           /\ at \in 1..Len(queue) /\ queue # <<>> /\ Len(queue) \in Nat
           /\ queue[at] \in Numbers
           /\ Len(leaves) \in Nat
<1>1. /\ at \in 1..Len(queue) /\ queue # <<>> /\ Len(queue) \in Nat
      /\ queue[at] \in Numbers
  BY DEF ProjectInv, QueueOK
<1>2. single = subject.ns
  BY <1>1 DEF ProjectInv, MadeOK
<1>3. QueueLeaves
  BY <1>2 DEF ProjectInv, LeavesFollow
<1> QED
  BY <1>1, <1>2, <1>3 DEF QueueLeaves

\* proj_term3: the set at the leaf has a number, for good.
LEMMA ProjTerm3Inv == ProjectInv /\ ProjTerm3 => ProjectInv'
<1> SUFFICES ASSUME ProjectInv, ProjTerm3
             PROVE  ProjectInv'
  OBVIOUS
<1>0. /\ SubjectOK /\ TableOK /\ MadeOK /\ EvalsOK
      /\ QueueOK /\ MadeFollows /\ LeavesFollow
  BY DEF ProjectInv
<1> DEFINE n == sq[queue[at]][Letter]
<1>1. /\ at <= Len(queue) /\ evals = <<>>
      /\ Made(queue[at]) /\ Len(leaves) < LetterCount
      /\ queue' = IF \E m \in 1..Len(queue) : queue[m] = n THEN queue
                  ELSE Append(queue, n)
      /\ leaves' = Append(leaves, Numbered(queue', n) - 1)
      /\ UNCHANGED <<subject, track, ssets, sq, single, evals, at, made>>
  BY DEF ProjTerm3, Evaluating, Letter
<1>2. /\ QueueLeaves /\ single = subject.ns
      /\ at \in 1..Len(queue) /\ queue # <<>> /\ Len(queue) \in Nat
      /\ queue[at] \in Numbers /\ Len(leaves) \in Nat
  BY <1>1, InTheLoop
<1>3. Letter \in Letters /\ Letter = Len(leaves)
  BY <1>1, <1>2, LetterFacts DEF Letter
<1>4. n \in Numbers
  BY <1>0, <1>1, <1>3 DEF MadeOK, Made
<1>5. queue \in Seq(Numbers)
  BY <1>0 DEF QueueOK
<1>6. /\ queue' \in Seq(Numbers)
      /\ Len(queue') \in Nat /\ Len(queue) <= Len(queue')
      /\ \A k \in 1..Len(queue) : queue'[k] = queue[k]
      /\ \A j, k \in 1..Len(queue') : queue'[j] = queue'[k] => j = k
      /\ \E k \in 1..Len(queue') : queue'[k] = n
  <2> HIDE DEF n
  <2>1. CASE \E k \in 1..Len(queue) : queue[k] = n
    BY <1>0, <1>1, <1>2, <2>1 DEF QueueOK
  <2>2. CASE ~\E k \in 1..Len(queue) : queue[k] = n
    <3>1. queue' = Append(queue, n)
      BY <1>1, <2>2 DEF n
    <3>2. /\ queue' \in Seq(Numbers)
          /\ Len(queue') = Len(queue) + 1
          /\ \A k \in 1..Len(queue) : queue'[k] = queue[k]
          /\ queue'[Len(queue) + 1] = n
      BY <1>4, <1>5, <3>1, AppendFacts
    <3>3. ASSUME NEW j \in 1..Len(queue'), NEW k \in 1..Len(queue'),
                 queue'[j] = queue'[k]
          PROVE  j = k
      <4>1. /\ j \in 1..Len(queue) \/ j = Len(queue) + 1
            /\ k \in 1..Len(queue) \/ k = Len(queue) + 1
        BY <1>2, <3>2
      <4> QED
        BY <1>0, <1>2, <2>2, <3>2, <3>3, <4>1 DEF QueueOK
    <3>4. Len(queue) + 1 \in 1..Len(queue')
      BY <1>2, <3>2
    <3> QED
      BY <1>2, <3>2, <3>3, <3>4
  <2> QED
    BY <2>1, <2>2
<1> DEFINE leaf == Numbered(queue', n) - 1
<1>7. leaf \in 0..Len(queue')-1 /\ queue'[leaf + 1] = n
  <2>1. /\ Numbered(queue', n) \in 1..Len(queue')
        /\ queue'[Numbered(queue', n)] = n
    <3> HIDE DEF n
    <3> QED
      BY <1>6 DEF Numbered
  <2> QED
    BY <1>6, <2>1
<1>8. SubjectOK' /\ TableOK'
  <2>1. UNCHANGED <<subject, ssets>>
    BY <1>1
  <2> QED
    BY <1>0, <1>1, <2>1, SetKnown DEF SubjectOK
<1>9. queue' # <<>>
  BY <1>2, <1>6
<1>10. MadeOK'
  <2>1. SubsetSuccessors'
    BY <1>0, <1>1 DEF MadeOK, SubsetSuccessors, Elements
  <2> QED
    BY <1>0, <1>1, <1>2, <1>9, <2>1 DEF MadeOK, Numbers
<1>11. EvalsOK'
  BY <1>0, <1>1, <1>9 DEF EvalsOK, EvalDescends, Numbers
<1>12. QueueOK'
  <2>1. 0..Len(queue)-1 \subseteq 0..Len(queue')-1
    BY <1>2, <1>6
  <2>2. [Letters -> 0..Len(queue)-1] \subseteq [Letters -> 0..Len(queue')-1]
    BY <2>1
  <2>3. made' \in Seq([Letters -> 0..Len(queue')-1])
    BY <1>0, <1>1, <2>2, Widened DEF QueueOK
  <2>4. queue' \in Seq(Numbers')
    BY <1>1, <1>6 DEF Numbers
  <2>5. at' \in 1..Len(queue')+1 /\ Len(made') = at' - 1
    BY <1>0, <1>1, <1>2, <1>6 DEF QueueOK
  <2> QED
    BY <1>6, <2>3, <2>4, <2>5 DEF QueueOK
<1>13. MadeFollows'
  <2>1. ASSUME NEW k \in 1..Len(made), NEW l \in Letters
        PROVE  Elements(queue'[made[k][l] + 1]) = Succ(Elements(queue'[k]), l)
    <3>1. made[k] \in [Letters -> 0..Len(queue)-1] /\ k \in 1..Len(queue)
      <4>1. made[k] \in [Letters -> 0..Len(queue)-1]
        BY <1>0 DEF QueueOK
      <4>2. Len(made) = at - 1 /\ at \in 1..Len(queue)+1
        BY <1>0 DEF QueueOK
      <4> QED
        BY <1>2, <4>1, <4>2
    <3>2. made[k][l] + 1 \in 1..Len(queue)
      BY <1>2, <3>1
    <3>3. queue'[k] = queue[k] /\ queue'[made[k][l] + 1] = queue[made[k][l] + 1]
      BY <1>6, <3>1, <3>2
    <3> QED
      BY <1>0, <3>3 DEF MadeFollows
  <2> QED
    BY <1>1, <2>1 DEF MadeFollows, Elements, Succ
<1>14. LeavesFollow'
  <2>1. leaves' = Append(leaves, leaf)
    BY <1>1
  <2>2. leaves \in Seq(0..Len(queue')-1)
    <3>1. 0..Len(queue)-1 \subseteq 0..Len(queue')-1
      BY <1>2, <1>6
    <3> QED
      BY <1>2, <3>1, Widened DEF QueueLeaves
  <2> HIDE DEF leaf
  <2>3. /\ leaves' \in Seq(0..Len(queue')-1)
        /\ Len(leaves') = Len(leaves) + 1
        /\ \A k \in 1..Len(leaves) : leaves'[k] = leaves[k]
        /\ leaves'[Len(leaves) + 1] = leaf
    BY <1>7, <2>1, <2>2, AppendFacts
  <2>4. queue'[at] = queue[at]
    BY <1>2, <1>6
  <2>5. ASSUME NEW k \in 1..Len(leaves')
        PROVE  queue'[leaves'[k] + 1] = sq[queue[at]][k - 1]
    <3>1. CASE k \in 1..Len(leaves)
      <4>1. leaves[k] + 1 \in 1..Len(queue)
        BY <1>2, <3>1 DEF QueueLeaves
      <4>2. queue[leaves[k] + 1] = sq[queue[at]][k - 1]
        BY <1>2, <3>1 DEF QueueLeaves
      <4> QED
        BY <1>6, <2>3, <3>1, <4>1, <4>2
    <3>2. CASE k = Len(leaves) + 1
      <4>1. leaves'[k] = leaf /\ k - 1 = Letter
        BY <1>2, <1>3, <2>3, <3>2
      <4> QED
        BY <1>7, <4>1
    <3> QED
      BY <1>2, <2>3, <3>1, <3>2
  <2>6. QueueLeaves'
    <3>1. at' <= Len(queue') /\ queue'[at'] \in DOMAIN sq'
      BY <1>1, <1>2, <1>6, <2>4 DEF Made
    <3> QED
      BY <1>1, <2>3, <2>4, <2>5, <3>1 DEF QueueLeaves, Made
  <2>7. Len(leaves') <= LetterCount /\ evals' = <<>> /\ ~(single' < subject'.ns)
    BY <1>0, <1>1, <1>2, <2>3, LetterFacts DEF SubjectOK, IsAutomaton
  <2> QED
    BY <2>6, <2>7 DEF LeavesFollow
<1> QED
  BY <1>8, <1>10, <1>11, <1>12, <1>13, <1>14 DEF ProjectInv

\* A set of the queue is done.
LEMMA NextSetInv == ProjectInv /\ NextSet => ProjectInv'
<1> SUFFICES ASSUME ProjectInv, NextSet
             PROVE  ProjectInv'
  OBVIOUS
<1>0. /\ SubjectOK /\ TableOK /\ MadeOK /\ EvalsOK
      /\ QueueOK /\ MadeFollows /\ LeavesFollow
  BY DEF ProjectInv
<1>1. /\ at <= Len(queue) /\ evals = <<>> /\ Len(leaves) = LetterCount
      /\ made' = Append(made, Root) /\ at' = at + 1 /\ leaves' = <<>>
      /\ UNCHANGED <<subject, track, ssets, sq, single, evals, queue>>
  BY DEF NextSet, Evaluating, Letter
<1>2. /\ QueueLeaves
      /\ at \in 1..Len(queue) /\ Len(queue) \in Nat /\ queue[at] \in Numbers
  BY <1>1, InTheLoop
<1>3. Made(queue[at])
  <2>1. leaves # <<>>
    BY <1>1, LetterFacts
  <2> QED
    BY <1>2, <2>1 DEF QueueLeaves
<1>4. Root \in [Letters -> 0..Len(queue)-1]
  BY <1>1, <1>2, RootFacts DEF QueueLeaves
<1>5. \A l \in Letters : Elements(queue[Root[l] + 1]) = Succ(Elements(queue[at]), l)
  <2> TAKE l \in Letters
  <2>1. l + 1 \in 1..Len(leaves) /\ (l + 1) - 1 = l /\ Root[l] = leaves[l + 1]
    BY <1>1, <1>2, RootFacts DEF QueueLeaves
  <2>2. queue[leaves[l + 1] + 1] = sq[queue[at]][(l + 1) - 1]
    BY <1>2, <2>1 DEF QueueLeaves
  <2>3. Elements(sq[queue[at]][l]) = Succ(Elements(queue[at]), l)
    BY <1>0, <1>3, SubsetSucc DEF MadeOK, Made
  <2> QED
    BY <2>1, <2>2, <2>3
<1>6. /\ made' \in Seq([Letters -> 0..Len(queue)-1])
      /\ Len(made) \in Nat /\ Len(made') = Len(made) + 1
      /\ \A n \in 1..Len(made) : made'[n] = made[n]
      /\ made'[Len(made) + 1] = Root
  <2>1. made \in Seq([Letters -> 0..Len(queue)-1])
    BY <1>0 DEF QueueOK
  <2> QED
    BY <1>1, <1>4, <2>1, AppendFacts
<1>7. Len(made) = at - 1
  BY <1>0 DEF QueueOK
<1>8. SubjectOK' /\ TableOK'
  <2>1. UNCHANGED <<subject, ssets>>
    BY <1>1
  <2> QED
    BY <1>0, <1>1, <2>1, SetKnown DEF SubjectOK
<1>9. MadeOK' /\ EvalsOK'
  <2>1. SubsetSuccessors'
    BY <1>0, <1>1 DEF MadeOK, SubsetSuccessors, Elements
  <2> QED
    BY <1>0, <1>1, <2>1 DEF MadeOK, EvalsOK, EvalDescends, Numbers
<1>10. QueueOK'
  <2>1. at' \in 1..Len(queue')+1 /\ Len(made') = at' - 1
    BY <1>1, <1>2, <1>6, <1>7
  <2> QED
    BY <1>0, <1>1, <1>6, <2>1 DEF QueueOK, Numbers
<1>11. MadeFollows'
  <2>1. ASSUME NEW n \in 1..Len(made'), NEW l \in Letters
        PROVE  Elements(queue[made'[n][l] + 1]) = Succ(Elements(queue[n]), l)
    <3>1. CASE n \in 1..Len(made)
      BY <1>0, <1>6, <3>1 DEF MadeFollows
    <3>2. CASE n = Len(made) + 1
      <4>1. n = at /\ made'[n] = Root
        BY <1>2, <1>6, <1>7, <3>2
      <4> QED
        BY <1>5, <4>1
    <3> QED
      BY <1>6, <3>1, <3>2
  <2> QED
    BY <1>1, <2>1 DEF MadeFollows, Elements, Succ
<1>12. LeavesFollow'
  <2>1. (leaves = <<>> => LeavesFollow)'
    BY NoLeaves, PTL
  <2> QED
    BY <1>1, <2>1
<1> QED
  BY <1>8, <1>9, <1>10, <1>11, <1>12 DEF ProjectInv

LEMMA ProjectStutter == ProjectInv /\ UNCHANGED projectVars => ProjectInv'
<1> SUFFICES ASSUME ProjectInv, UNCHANGED projectVars
             PROVE  ProjectInv'
  OBVIOUS
<1>0. /\ SubjectOK /\ TableOK /\ MadeOK /\ EvalsOK
      /\ QueueOK /\ MadeFollows /\ LeavesFollow
  BY DEF ProjectInv
<1>1. UNCHANGED <<subject, track, ssets, sq, single, evals, queue, at, leaves, made>>
  BY DEF projectVars
<1>2. SubjectOK' /\ TableOK' /\ MadeOK' /\ QueueOK' /\ MadeFollows'
  BY <1>0, <1>1, StackOnly
<1>3. EvalsOK'
  BY <1>0, <1>1 DEF EvalsOK, EvalDescends, Numbers
<1>4. /\ SingleLeaves => SingleLeaves'
      /\ EvalLeaves => EvalLeaves'
      /\ QueueLeaves => QueueLeaves'
  BY <1>1 DEF SingleLeaves, EvalLeaves, QueueLeaves, Numbers, Elements, Succ,
              Made, Decomp1, Decomp2, Innermost
<1>5. LeavesFollow'
  BY <1>0, <1>1, <1>4 DEF LeavesFollow
<1> QED
  BY <1>2, <1>3, <1>5 DEF ProjectInv

LEMMA ProjectInitInv == ProjectInit => ProjectInv
<1> SUFFICES ASSUME ProjectInit
             PROVE  ProjectInv
  OBVIOUS
<1>1. /\ IsAutomaton(subject) /\ track \in 0..Tracks-1
      /\ ssets = Singletons(subject)
      /\ sq = <<>> /\ single = 0
      /\ evals = <<>> /\ queue = <<>> /\ at = 1
      /\ leaves = <<>> /\ made = <<>>
  BY DEF ProjectInit
<1>2. SubjectOK /\ subject.ns \in Nat /\ subject.ns # 0
  BY <1>1 DEF SubjectOK, IsAutomaton
<1>3. TableOK
  <2>1. \A n \in 1..subject.ns : {n - 1} \in SUBSET States(subject)
    BY <1>2 DEF States
  <2>2. /\ Len(ssets) = subject.ns
        /\ \A n \in 1..subject.ns :
             ssets[n] = [elements |-> {n - 1}, decomp1 |-> None, decomp2 |-> None]
    BY <1>1, <1>2 DEF Singletons
  <2>3. \A n \in 1..subject.ns : ssets[n] \in SetRecords /\ ssets[n].elements = {n - 1}
    <3>1. ASSUME NEW n \in 1..subject.ns
          PROVE  ssets[n] \in SetRecords /\ ssets[n].elements = {n - 1}
      <4>1. [elements |-> {n - 1}, decomp1 |-> None, decomp2 |-> None] \in SetRecords
        BY <2>1 DEF SetRecords
      <4> QED
        BY <2>2, <4>1
    <3> QED
      BY <3>1
  <2>4. ssets \in Seq(SetRecords)
    <3>1. ssets \in [1..subject.ns -> SetRecords]
      BY <1>1, <2>3 DEF Singletons
    <3> QED
      BY <1>2, <3>1
  <2>5. \A m, n \in 1..subject.ns : {m - 1} = {n - 1} => m = n
    BY <1>2
  <2>6. \A n \in subject.ns+1..Len(ssets) : PutTogether(n)
    BY <1>2, <2>2
  <2>7. \A m, n \in 1..Len(ssets) : ssets[m].elements = ssets[n].elements => m = n
    BY <2>2, <2>3, <2>5
  <2>8. Len(ssets) >= subject.ns /\ \A n \in 1..subject.ns : ssets[n].elements = {n - 1}
    BY <1>2, <2>2, <2>3
  <2> QED
    BY <2>4, <2>6, <2>7, <2>8 DEF TableOK
<1>4. MadeOK
  <2>1. DOMAIN sq = {} /\ 0..single-1 = {}
    BY <1>1
  <2> QED
    BY <1>1, <1>2, <2>1 DEF MadeOK, SubsetSuccessors
<1>5. EvalsOK /\ QueueOK /\ MadeFollows
  BY <1>1 DEF EvalsOK, EvalDescends, QueueOK, MadeFollows
<1>6. LeavesFollow
  BY <1>1, NoLeaves
<1> QED
  BY <1>2, <1>3, <1>4, <1>5, <1>6 DEF ProjectInv

\* The invariant holds of every call of dfaProject on automata that are well
\* formed.
THEOREM ProjectInvariant == ProjectSpec => []ProjectInv
<1>1. ProjectInv /\ [ProjectStep]_projectVars => ProjectInv'
  BY ProjTerm1Inv, SingletonMadeInv, EvalQueuedInv, EvalComponentInv,
     ProjTerm2Inv, EvalReturnsInv, ProjTerm3Inv, NextSetInv, ProjectStutter
     DEF ProjectStep
<1> QED
  BY ProjectInitInv, <1>1, PTL DEF ProjectSpec

\* proj_term1 and proj_term2 build the transitions of the subset
\* construction, although those of a set come from two others.
THEOREM SubsetConstruction == ProjectSpec => []SubsetSuccessors
<1>1. ProjectInv => SubsetSuccessors
  BY DEF ProjectInv, MadeOK
<1> QED
  BY ProjectInvariant, <1>1, PTL

\* eval_bdd recurses to sets met before and stops before the singletons,
\* whose components are -1: it never reads outside the table, and returns.
THEOREM RecursionDescends == ProjectSpec => []EvalDescends
<1>1. ProjectInv => EvalDescends
  BY DEF ProjectInv, EvalsOK
<1> QED
  BY ProjectInvariant, <1>1, PTL

\* The two hash tables of dfaProject give a set one number.
THEOREM SetsHaveOneNumber == ProjectSpec => []SetsUnique
<1>1. ProjectInv => SetsUnique
  BY DEF ProjectInv, TableOK, QueueOK, SetsUnique
<1> QED
  BY ProjectInvariant, <1>1, PTL

\* What dfaProject returns is an automaton, whose states stand for sets of
\* states of the one given and go where the sets go.
THEOREM ProjectIsSubsetAutomaton ==
    ProjectSpec =>
      [](ProjectDone =>
           /\ IsAutomaton(ProjectResult)
           /\ \A n \in States(ProjectResult), l \in Letters :
                Elements(queue[ProjectResult.q[n][l] + 1])
                  = Guesses(subject, track, Elements(queue[n + 1]), l))
<1>1. ASSUME ProjectInv, ProjectDone
      PROVE  /\ IsAutomaton(ProjectResult)
             /\ \A n \in States(ProjectResult), l \in Letters :
                  Elements(queue[ProjectResult.q[n][l] + 1])
                    = Guesses(subject, track, Elements(queue[n + 1]), l)
  <2>1. /\ Len(queue) \in Nat /\ Len(queue) >= 1
        /\ Len(made) = Len(queue)
        /\ made \in Seq([Letters -> 0..Len(queue)-1])
    BY <1>1 DEF ProjectInv, QueueOK, ProjectDone
  <2> DEFINE ids == 0..Len(queue)-1
             q == [n \in ids |-> made[n + 1]]
             f == [n \in ids |-> SetStatus(Elements(queue[n + 1]))]
  <2>2. q \in [ids -> [Letters -> ids]]
    BY <2>1
  <2>3. f \in [ids -> Statuses]
    <3>1. \A S : SetStatus(S) \in Statuses
      BY DEF SetStatus, Statuses
    <3> QED
      BY <3>1
  <2>4. /\ ProjectResult.ns = Len(queue) /\ ProjectResult.s = 0
        /\ ProjectResult.q = q /\ ProjectResult.f = f
    BY DEF ProjectResult
  <2>5. States(ProjectResult) = ids
    BY <2>4 DEF States
  <2>6. IsAutomaton(ProjectResult)
    BY <2>1, <2>2, <2>3, <2>4, <2>5 DEF IsAutomaton
  <2>7. ASSUME NEW n \in ids, NEW l \in Letters
        PROVE  Elements(queue[q[n][l] + 1])
                 = Guesses(subject, track, Elements(queue[n + 1]), l)
    <3>1. n + 1 \in 1..Len(made) /\ q[n] = made[n + 1]
      BY <2>1
    <3> QED
      BY <1>1, <3>1 DEF ProjectInv, MadeFollows, Succ
  <2> QED
    BY <2>4, <2>5, <2>6, <2>7
<1> QED
  BY ProjectInvariant, <1>1, PTL
=============================================================================
