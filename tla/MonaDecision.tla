---------------------------- MODULE MonaDecision ----------------------------
(***************************************************************************)
(* MONA from the graph of formula code to the verdict: the recursive       *)
(* translation of the graph into automata (VarCode::DFATranslate and the   *)
(* makeDFA functions of mona-1.4/Front/code.cpp, the wrappers of           *)
(* st_dfa.cpp, the main program), with product, projection and             *)
(* minimization done by the loops of DfaProduct, DfaProject, DfaMinimize,  *)
(* and the search for examples (mona-1.4/DFA/analyze.c).                   *)
(*                                                                         *)
(* The automaton of a node is made once.  It is handed over to the last    *)
(* reference that asks for it and copied for the others, and a node goes   *)
(* away with its last reference, while the graph is being worked through.  *)
(***************************************************************************)
EXTENDS DagReduction, DfaProduct, DfaMinimize, DfaProject, DfaGraph

VARIABLES
    phase,      \* "build", "reduce", "translate", "analyse", "done"
    calls,      \* the active calls of DFATranslate, the innermost last
    results,    \* the automata of the formulas that are done
    inMemory,   \* dfa_in_mem
    verdicts    \* what dfaAnalyze printed of every formula

monaVars == <<phase, calls, results, inMemory, verdicts>>
vars == <<dagVars, productVars, minimizeVars, projectVars, monaVars>>

ProductKinds == [And |-> AND, Or |-> OR, Impl |-> IMPL, Biimpl |-> BIIMPL]

\* Which loop is running?
Multiplying == pairs # <<>>
Projecting == ssets # <<>>
Minimizing == given.ns # 0
Idle == ~Multiplying /\ ~Projecting /\ ~Minimizing

ProductRests ==
    /\ left' = NoAutomaton /\ right' = NoAutomaton /\ binop' = AND
    /\ pairs' = <<>> /\ head' = 1 /\ row' = <<>> /\ roots' = <<>>
MinimizeRests ==
    /\ given' = NoAutomaton /\ discrs' = <<>> /\ before' = <<>>
    /\ keys' = <<>> /\ oldBlocks' = 0 /\ again' = FALSE
ProjectRests ==
    /\ subject' = NoAutomaton /\ track' = 0
    /\ ssets' = <<>> /\ sq' = <<>> /\ single' = 0
    /\ evals' = <<>> /\ queue' = <<>> /\ at' = 1
    /\ leaves' = <<>> /\ made' = <<>>

-----------------------------------------------------------------------------
(* The recursive translation. *)

Frame == calls[Len(calls)]
Current == nodes[Frame.code]
CallMade == Current.dfa # NoAutomaton

\* Code_cc::makeDFA: which part comes first.
PartOrder(n) ==
    CASE Len(n.parts) = 0 -> <<>>
      [] Len(n.parts) = 1 -> <<1>>
      [] OTHER ->
           LET c1 == nodes[n.parts[1].code]
               c2 == nodes[n.parts[2].code]
           IN IF c1.refs = 1 \/ (c2.refs > 1 /\ c1.depth <= c2.depth)
              THEN <<1, 2>> ELSE <<2, 1>>

\* A call of DFATranslate.
Call(vc) ==
    [code |-> vc.code, vars |-> vc.vars,
     todo |-> IF nodes[vc.code].dfa = NoAutomaton
              THEN PartOrder(nodes[vc.code]) ELSE <<>>,
     got  |-> <<NoAutomaton, NoAutomaton>>]

MakeCode ==
    /\ phase = "build"
    /\ DagStep
    /\ UNCHANGED <<productVars, minimizeVars, projectVars, monaVars>>

\* The formula has been read; the first element of the stack is the main
\* formula, the others are those to verify.
BuildEnds ==
    /\ phase = "build"
    /\ Len(stack) \in 1..family.formulas
    /\ WithAssertion
    /\ phase' = IF family.optimize THEN "reduce" ELSE "translate"
    /\ UNCHANGED <<productVars, minimizeVars, projectVars>>
    /\ UNCHANGED <<calls, results, inMemory, verdicts>>

\* options.optimize >= 1, which is the default.
ReduceFormulas ==
    /\ phase = "reduce"
    /\ phase' = "translate"
    /\ ReduceAll
    /\ UNCHANGED <<productVars, minimizeVars, projectVars>>
    /\ UNCHANGED <<calls, results, inMemory, verdicts>>

TranslateFormula ==
    /\ phase = "translate"
    /\ calls = <<>> /\ Len(results) < Len(stack)
    /\ calls' = <<Call(stack[Len(results) + 1].vc)>>
    /\ UNCHANGED <<dagVars, productVars, minimizeVars, projectVars>>
    /\ UNCHANGED <<phase, results, inMemory, verdicts>>

TranslatePart ==
    /\ calls # <<>> /\ Idle /\ ~CallMade
    /\ Frame.todo # <<>>
    /\ calls' = Append(calls, Call(Current.parts[Head(Frame.todo)]))
    /\ UNCHANGED <<dagVars, productVars, minimizeVars, projectVars>>
    /\ UNCHANGED <<phase, results, inMemory, verdicts>>

\* code->dfa = a, code->mark = true.
SetAutomaton(a) ==
    /\ nodes' = [nodes EXCEPT ![Frame.code].dfa = a,
                              ![Frame.code].mark = TRUE]
    /\ UNCHANGED <<family, grows, inserted, stack>>

\* makeDFA of the atomic formulas.
MakeAtom ==
    /\ calls # <<>> /\ Idle /\ ~CallMade
    /\ Current.parts = <<>>
    /\ SetAutomaton(AtomAutomaton(Current.kind, Current.args, Current.val))
    /\ inMemory' = inMemory + 1
    /\ UNCHANGED <<productVars, minimizeVars, projectVars>>
    /\ UNCHANGED <<phase, calls, results, verdicts>>

\* The parts of the node have been translated.
PartsReady ==
    /\ calls # <<>> /\ Idle /\ ~CallMade
    /\ Current.parts # <<>> /\ Frame.todo = <<>>

Part(k) == Frame.got[k]

MakeProduct ==
    /\ PartsReady
    /\ Current.kind \in DOMAIN ProductKinds
    /\ ProductStart(Part(1), Part(2), ProductKinds[Current.kind])
    /\ UNCHANGED <<dagVars, minimizeVars, projectVars, monaVars>>

\* Faulty variant (see "mutants" in PROJECT.json): the quotient is forgotten.
MakeProjectionNoQuotient ==
    /\ PartsReady
    /\ Current.kind = "Project"
    /\ ProjectStart(Part(1), Current.var)
    /\ UNCHANGED <<dagVars, productVars, minimizeVars, monaVars>>

\* st_dfa_project in WS1S mode: the quotient comes first.
MakeProjection ==
    /\ PartsReady
    /\ Current.kind = "Project"
    /\ ProjectStart(RightQuotient(Part(1), Current.var), Current.var)
    /\ UNCHANGED <<dagVars, productVars, minimizeVars, monaVars>>

\* Code_Restrict, Code_Prefix: in place, then minimized.
MakeMinimized ==
    /\ PartsReady
    /\ \/ Current.kind = "Restrict" /\ MinimizeStart(Restricted(Part(1)))
       \/ Current.kind = "Prefix" /\ MinimizeStart(PrefixClose(Part(1)))
    /\ UNCHANGED <<dagVars, productVars, projectVars, monaVars>>

MakeNegation ==
    /\ PartsReady
    /\ Current.kind = "Negate"
    /\ SetAutomaton(Negation(Part(1)))
    /\ UNCHANGED <<productVars, minimizeVars, projectVars, monaVars>>

\* Code_IdLeft: the second automaton is made, and freed.
MakeIdLeft ==
    /\ PartsReady
    /\ Current.kind = "IdLeft"
    /\ SetAutomaton(Part(1))
    /\ inMemory' = inMemory - 1
    /\ UNCHANGED <<productVars, minimizeVars, projectVars>>
    /\ UNCHANGED <<phase, calls, results, verdicts>>

Multiply ==
    /\ ProductStep
    /\ UNCHANGED <<dagVars, minimizeVars, projectVars, monaVars>>

\* st_dfa_product frees both automata; one new one is made.
Multiplied ==
    /\ Multiplying /\ ProductDone
    /\ MinimizeStart(ProductResult)
    /\ ProductRests
    /\ inMemory' = inMemory - 1
    /\ UNCHANGED <<dagVars, projectVars, phase, calls, results, verdicts>>

Project ==
    /\ ProjectStep
    /\ UNCHANGED <<dagVars, productVars, minimizeVars, monaVars>>

Projected ==
    /\ Projecting /\ ProjectDone
    /\ MinimizeStart(ProjectResult)
    /\ ProjectRests
    /\ UNCHANGED <<dagVars, productVars, monaVars>>

Minimize ==
    /\ MinimizeStep
    /\ UNCHANGED <<dagVars, productVars, projectVars, monaVars>>

Minimized ==
    /\ Minimizing /\ MinimizeDone
    /\ SetAutomaton(MinimizeResult)
    /\ MinimizeRests
    /\ UNCHANGED <<productVars, projectVars, monaVars>>

\* st_dfa_replace_indices: the variables of the node and, in their places,
\* those of the reference.
Relabelling(n, list) ==
    [i \in {n.vars[k] : k \in DOMAIN n.vars} |->
       list[CHOOSE k \in DOMAIN n.vars : n.vars[k] = i]]

Delivered ==
    IF Current.vars = Frame.vars THEN Current.dfa
    ELSE ReplacedIndices(Current.dfa, Relabelling(Current, Frame.vars))

\* Faulty variant (see "mutants" in PROJECT.json): the first reference takes the automaton away.
TakenAlways == [nodes EXCEPT ![Frame.code].dfa = NoAutomaton]

\* The table once the automaton is taken: the last reference takes it away.
Taken ==
    IF Current.refs > 1 THEN nodes
    ELSE [nodes EXCEPT ![Frame.code].dfa = NoAutomaton]

\* Faulty variant (see "mutants" in PROJECT.json): copies are not counted.
CopiedUncounted == 0

Copied == IF Current.refs > 1 THEN 1 ELSE 0

\* The end of DFATranslate for a part, and vc.remove() in its caller.
ReturnPart ==
    /\ Len(calls) > 1 /\ Idle /\ CallMade
    /\ LET caller == calls[Len(calls) - 1]
           k == Head(caller.todo)
       IN /\ calls' = Append(SubSeq(calls, 1, Len(calls) - 2),
                             [caller EXCEPT !.todo = Tail(@), !.got[k] = Delivered])
          /\ nodes' = Removed([Taken EXCEPT ![caller.code].parts[k].code = NoCode],
                              Frame.code)
    /\ inMemory' = inMemory + Copied
    /\ UNCHANGED <<family, grows, inserted, stack>>
    /\ UNCHANGED <<productVars, minimizeVars, projectVars>>
    /\ UNCHANGED <<phase, results, verdicts>>

\* The end of DFATranslate for a formula: its reference stays for now.
ReturnFormula ==
    /\ Len(calls) = 1 /\ Idle /\ CallMade
    /\ results' = Append(results, Delivered)
    /\ nodes' = Taken
    /\ calls' = <<>>
    /\ inMemory' = inMemory + Copied
    /\ UNCHANGED <<family, grows, inserted, stack>>
    /\ UNCHANGED <<productVars, minimizeVars, projectVars, phase, verdicts>>

\* formulaCode.remove() and the same for the others, when all are translated.
AutomataIn(table) == Cardinality({i \in DOMAIN table : table[i].dfa # NoAutomaton})

RemoveFormulas ==
    /\ phase = "translate"
    /\ calls = <<>> /\ Len(results) = Len(stack)
    /\ LET after[n \in 0..Len(stack)] ==
             IF n = 0 THEN nodes ELSE Removed(after[n-1], stack[n].vc.code)
       IN /\ nodes' = after[Len(stack)]
          /\ inMemory' = inMemory - (AutomataIn(nodes) - AutomataIn(nodes'))
    /\ phase' = "analyse"
    /\ UNCHANGED <<family, grows, inserted, stack>>
    /\ UNCHANGED <<productVars, minimizeVars, projectVars>>
    /\ UNCHANGED <<calls, results, verdicts>>

-----------------------------------------------------------------------------
(* dfaAnalyze. *)

\* automaton_bfs: the states reached by 1 to n letters.
Visited(a, n) ==
    LET after[k \in 0..n] ==
          IF k = 0 THEN {}
          ELSE LET nearer == after[k-1]
               IN nearer \cup {a.q[p][l] : p \in nearer \cup {a.s}, l \in Letters}
    IN after[n]

\* dfaMakeExample: the length of a shortest word to a state with this status,
\* None if there is none.  The distance of a state that the search does not
\* visit is what happens to be in memory, so it may be taken for an example.
ExampleLengths(a, status) ==
    LET wanted(n) == {p \in Visited(a, n) : a.f[p] = status}
        shortest == IF wanted(a.ns) = {} THEN None
                    ELSE CHOOSE n \in 1..a.ns :
                           wanted(n) # {} /\ wanted(n-1) = {}
        stray == {p \in States(a) \ (Visited(a, a.ns) \cup {a.s}) :
                    a.f[p] = status}
    IN {shortest} \cup IF stray = {} THEN {} ELSE 0..a.ns

\* Faulty variant (see "mutants" in PROJECT.json): a formula without counterexample is called valid.
VerdictValidFirst(counter, satisfying) ==
    IF counter = None THEN "valid"
    ELSE IF satisfying = None THEN "unsatisfiable" ELSE "neither"

Verdict(counter, satisfying) ==
    IF satisfying = None THEN "unsatisfiable"
    ELSE IF counter = None THEN "valid" ELSE "neither"

Analyse ==
    /\ phase = "analyse"
    /\ Len(verdicts) < Len(results)
    /\ LET a == results[Len(verdicts) + 1]
       IN \E c \in ExampleLengths(a, -1), s \in ExampleLengths(a, 1) :
            verdicts' = Append(verdicts,
                               [says |-> Verdict(c, s), counter |-> c,
                                satisfying |-> s])
    /\ phase' = IF Len(verdicts) + 1 = Len(results) THEN "done" ELSE phase
    /\ UNCHANGED <<dagVars, productVars, minimizeVars, projectVars>>
    /\ UNCHANGED <<calls, results, inMemory>>

Init ==
    /\ DagInit
    /\ ProductIdle /\ MinimizeIdle /\ ProjectIdle
    /\ phase = "build"
    /\ calls = <<>> /\ results = <<>> /\ verdicts = <<>>
    /\ inMemory = 0

Translation ==
    \/ ReduceFormulas \/ TranslateFormula \/ TranslatePart
    \/ MakeAtom \/ MakeProduct \/ MakeProjection \/ MakeMinimized
    \/ MakeNegation \/ MakeIdLeft
    \/ Multiply \/ Multiplied \/ Project \/ Projected \/ Minimize \/ Minimized
    \/ ReturnPart \/ ReturnFormula \/ RemoveFormulas \/ Analyse

\* The verdicts are printed; or the bounds allow no more code to be made.
Stopped ==
    /\ phase \in {"build", "done"}
    /\ UNCHANGED vars

Next == MakeCode \/ BuildEnds \/ Translation \/ Stopped

Spec == Init /\ [][Next]_vars
=============================================================================
