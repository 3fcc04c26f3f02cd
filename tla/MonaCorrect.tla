---------------------------- MODULE MonaCorrect ----------------------------
(***************************************************************************)
(* What makes the decision procedure correct: the automaton of a formula   *)
(* says of every word what the formula means, the verdict follows, and the *)
(* memory of nodes and automata is kept in order on the way.               *)
(***************************************************************************)
EXTENDS MonaDecision

CONSTANTS
    WordLength,     \* formulas are evaluated on words of at most this length,
    ExtraLetters    \* and a projected variable on so many letters more

-----------------------------------------------------------------------------
(* What a formula means on a word: 1, -1, or 0 where a restriction makes   *)
(* the word not matter.                                                    *)

TracksOf(list) == {list[n] : n \in DOMAIN list}

\* The words that are 0 on all tracks but these.
Lettered(S) == {l \in Letters : \A i \in (0..Tracks-1) \ S : Bit(l, i) = 0}
WordsOver(S, n) == UNION {[1..k -> Lettered(S)] : k \in 1..n}

\* The words that differ from w on track i alone and may be longer: the
\* variable has positions after the end of the word, the others have not.
Variants(w, i) ==
    UNION {{[n \in 1..k |-> WithBit(IF n <= Len(w) THEN w[n] ELSE 0, i, b[n])] :
              b \in [1..k -> {0, 1}]} : k \in Len(w)..Len(w)+ExtraLetters}

\* Extensions of w by letters over the tracks S.
Extensions(w, S) == {w} \cup {w \o x : x \in WordsOver(S, ExtraLetters)}

\* The free variables of a formula.
RECURSIVE FreeTracks(_)
FreeTracks(t) ==
    IF "sub" \notin DOMAIN t THEN TracksOf(t.args)
    ELSE (FreeTracks(t.sub)
            \cup (IF "sub2" \in DOMAIN t THEN FreeTracks(t.sub2) ELSE {}))
         \ (IF t.op = "Project" THEN {t.var} ELSE {})

\* The best status: some 1, else some -1, else 0.
Best(statuses) ==
    IF 1 \in statuses THEN 1 ELSE IF -1 \in statuses THEN -1 ELSE 0

AtomTable ==
    [a \in UNION {f.atoms \cup {[kind |-> "FirstOrder", args |-> <<i>>, val |-> 0] :
                                  i \in f.firstOrder} : f \in Families} |->
       AtomAutomaton(a.kind, a.args, a.val)]

\* The meaning of a formula as a function on words over the tracks S.
RECURSIVE Meaning(_, _, _)
Meaning(t, S, n) ==
    LET longer == n + ExtraLetters
        words == WordsOver(S, n)
    IN CASE t.op \in DOMAIN ProductKinds ->
              LET m1 == Meaning(t.sub, S, n)
                  m2 == Meaning(t.sub2, S, n)
                  m[w \in words] == StatusOf(ProductKinds[t.op], m1[w], m2[w])
              IN m
         [] t.op = "IdLeft" -> Meaning(t.sub, S, n)
         [] t.op = "Negate" ->
              LET m1 == Meaning(t.sub, S, n)
                  m[w \in words] == -m1[w]
              IN m
         [] t.op = "Restrict" ->
              LET m1 == Meaning(t.sub, S, n)
                  m[w \in words] == IF m1[w] = 1 THEN 1 ELSE 0
              IN m
         [] t.op = "Prefix" ->
              LET m1 == Meaning(t.sub, S, longer)
                  m[w \in words] ==
                    IF \E x \in Extensions(w, S) : m1[x] = 1 THEN 1 ELSE m1[w]
              IN m
         [] t.op = "Project" ->
              LET m1 == Meaning(t.sub, S \cup {t.var}, longer)
                  m[w \in words] == Best({m1[x] : x \in Variants(w, t.var)})
              IN m
         [] OTHER ->
              LET a == AtomTable[[kind |-> t.op, args |-> t.args, val |-> t.val]]
                  m[w \in words] == Says(a, w)
              IN m

\* The meaning of formula n on the words that matter to it.
MeaningOf(n) == Meaning(stack[n].formula, FreeTracks(stack[n].formula), WordLength)

-----------------------------------------------------------------------------
(* Properties. *)

\* The types of the three loops that make automata.
TypeOK == ProductTypeOK /\ MinimizeTypeOK /\ ProjectTypeOK

\* The automata of the formulas are there.
Translated == phase = "analyse" /\ verdicts = <<>>

IsAtom(t) == t.op \notin DOMAIN ProductKinds
                 \cup {"IdLeft", "Negate", "Restrict", "Prefix", "Project"}

AtomMeans(t, a) ==
    \A w \in WordsOver(TracksOf(t.args), WordLength + ExtraLetters) :
      Interprets(w, NumberArgs(t.op, t.args))
        => Says(a, w) = IF Holds(t.op, t.args, t.val, w) THEN 1 ELSE -1

\* The difference Q \ P where the result P is the subtrahend too.
TakesItself(t) ==
    t.op = "EqSetMinus" /\ t.args[1] = t.args[3] /\ t.args[1] # t.args[2]

\* The automaton of an atomic formula accepts what the formula means: the
\* tables of DFA/basic.c are written out by hand, one for each way in which
\* arguments can be the same variable.
AtomsMean ==
    Translated => \A n \in DOMAIN results :
      LET t == stack[n].formula
      IN IsAtom(t) /\ ~TakesItself(t) => AtomMeans(t, results[n])

\* The same of P = Q \ P, which holds if P and Q are both empty: "P == R and
\* P != Q, so P = Q \ R means that P and Q are empty" (GTA/basic.c:1513).
SetminusMeans ==
    Translated => \A n \in DOMAIN results :
      LET t == stack[n].formula
      IN TakesItself(t) => AtomMeans(t, results[n])

\* The automaton of a formula says of every word what the formula means,
\* although parts that are equal up to names were made once, relabelled,
\* copied or handed over, and every step was minimized.
AutomatonMeans ==
    Translated /\ ~family.optimize => \A n \in DOMAIN results :
      LET m == MeaningOf(n)
      IN \A w \in DOMAIN m : Says(results[n], w) = m[w]

\* "Code optimization level N (0=none, 1=safe, 2=heuristic)" (Front/mona.cpp:213):
\* after the reduction of the graph the automaton still says of every word that
\* matters what the formula means, although shared nodes were forwarded,
\* copied with other variables, and found equal to nodes changed in place.
ReductionSafe ==
    Translated /\ family.optimize => \A n \in DOMAIN results :
      LET m == MeaningOf(n)
      IN \A w \in DOMAIN m : m[w] # 0 => Says(results[n], w) = m[w]

\* An example is the length of a shortest word with that status.
LeastExample(a, example, status) ==
    LET lengths == {Len(w) : w \in {x \in WordsUpTo(WordLength) :
                                      Says(a, x) = status}}
    IN \A k \in 1..WordLength :
         example = k <=> k \in lengths /\ \A j \in lengths : j >= k

\* The verdict printed of a formula: "valid" is never said where a word is
\* rejected, nor "unsatisfiable" where one is accepted, and the examples are
\* the shortest such words.
VerdictRight ==
    phase = "done" =>
      \A n \in DOMAIN verdicts :
        LET v == verdicts[n]
        IN /\ LeastExample(results[n], v.counter, -1)
           /\ LeastExample(results[n], v.satisfying, 1)
           /\ v.says = "unsatisfiable" <=> v.satisfying = None
           /\ v.says = "valid" <=> v.counter = None /\ v.satisfying # None

\* invariant(!code->mark) in DFATranslate: no automaton is asked for again
\* when it has been made and handed over.
MadeOnce ==
    \A n \in DOMAIN calls :
      nodes[calls[n].code].mark => nodes[calls[n].code].dfa # NoAutomaton

\* The references to node i from formulas and from other nodes.
References(i) ==
    (IF phase \in {"build", "reduce", "translate"}
     THEN Cardinality({n \in DOMAIN stack : stack[n].vc.code = i}) ELSE 0)
    + Cardinality({jn \in (DOMAIN nodes) \X {1, 2} :
                     /\ jn[2] \in DOMAIN nodes[jn[1]].parts
                     /\ nodes[jn[1]].parts[jn[2]].code = i})

\* The count of references is exact while they are taken over, exchanged and
\* dropped: no node is freed while referred to, and none is kept in vain.
RefsExact ==
    /\ \A i \in DOMAIN nodes : nodes[i].refs = References(i)
    /\ \A i \in DOMAIN nodes : \A n \in DOMAIN nodes[i].parts :
         nodes[i].parts[n].code \in DOMAIN nodes \cup {NoCode}
    /\ \A n \in DOMAIN calls : calls[n].code \in DOMAIN nodes
    /\ phase \in {"analyse", "done"} => DOMAIN nodes = {}

\* The automata that calls and loops hold.
HeldByCalls ==
    Cardinality({nk \in (DOMAIN calls) \X {1, 2} :
                   /\ calls[nk[1]].got[nk[2]] # NoAutomaton
                   /\ nk[1] = Len(calls) => Idle /\ ~CallMade})
HeldByLoops ==
    IF Multiplying THEN 2 ELSE IF Projecting \/ Minimizing THEN 1 ELSE 0

\* MONA's count of the automata in memory is exact: none is lost, and none is
\* freed twice or used after it has been given away.
InMemoryExact ==
    inMemory = AutomataIn(nodes) + HeldByCalls + HeldByLoops + Len(results)

\* Where the automaton of a node is relabelled, the map keeps the order of
\* the variables, so that the BDD stays ordered, and has an entry for every
\* variable that is tested in it.
RelabelSafe ==
    calls # <<>> /\ Idle /\ CallMade =>
      LET tested(i) == \E p \in States(Current.dfa), l \in Letters :
                          Current.dfa.q[p][l] # Current.dfa.q[p][WithBit(l, i, 1)]
      IN /\ Len(Current.vars) = Len(Frame.vars)
         /\ KeepsOrder(Relabelling(Current, Frame.vars))
         /\ \A i \in 0..Tracks-1 : tested(i) => i \in TracksOf(Current.vars)
=============================================================================
