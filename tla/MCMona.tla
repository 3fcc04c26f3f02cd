------------------------------- MODULE MCMona -------------------------------
(* Small instances of MonaCorrect. *)
EXTENDS MonaCorrect

Atom(kind, args, val) == [kind |-> kind, args |-> args, val |-> val]
OneVar(kinds, vals) ==
    {Atom(k, <<i>>, v) : k \in kinds, i \in 0..Tracks-1, v \in vals}
TwoVars(kinds) ==
    {Atom(k, <<i, j>>, 0) : k \in kinds, i \in 0..Tracks-1, j \in 0..Tracks-1}
ThreeVars(kinds) ==
    {Atom(k, <<i, j, m>>, 0) :
       k \in kinds, i \in 0..Tracks-1, j \in 0..Tracks-1, m \in 0..Tracks-1}

Family(atoms, unary, binary, projected, lists, inserts, quantifiers, formulas) ==
    [atoms |-> atoms, unary |-> unary, binary |-> binary, projected |-> projected,
     lists |-> lists, inserts |-> inserts,
     quantifiers |-> quantifiers, formulas |-> formulas,
     firstOrder |-> {}, optimize |-> FALSE, vacuous |-> FALSE]

Reduced(f) == [f EXCEPT !.optimize = TRUE]
Vacuous(f) == [f EXCEPT !.vacuous = TRUE]

Sub(i, j) == Atom("Sub2", <<i, j>>, 0)
True0 == Atom("True", <<>>, 0)

\* Every kind of atom, and every way in which its arguments coincide.
Atoms ==
    {True0, Atom("False", <<>>, 0)}
    \cup OneVar({"EqEmpty", "FirstOrder", "Singleton", "BoolVar"}, {0})
    \cup OneVar({"EqConst", "EqPresbConst"}, 0..3)
    \cup TwoVars({"Eq1", "Eq2", "Sub2", "Less1", "LessEq1",
                  "EqPlus2", "EqMinus2", "EqMinus1"})
    \cup {a \in TwoVars({"In", "EqMin", "EqMax"}) : a.args[1] # a.args[2]}
    \cup {Atom("EqPlus1", <<i, j>>, v) :
            i \in 0..Tracks-1, j \in 0..Tracks-1, v \in 0..2}
    \cup ThreeVars({"EqUnion", "EqInter", "EqSetMinus",
                    "EqPlusModulo", "EqMinusModulo"})

WithNumbers(f, S) == [f EXCEPT !.firstOrder = S]
Eq(i, j) == Atom("Eq2", <<i, j>>, 0)

\* Atoms alone; every connective; conjunctions and quantifiers, where parts
\* are shared under other names; formulas that restrict others, so that a
\* product loops at don't care; first-order variables; two formulas.
PlainFamilies ==
    { Family(Atoms, {}, {}, {}, {}, 1, 0, 1),
      Family({Sub(0, 1), Atom("BoolVar", <<1>>, 0)},
             {"Negate", "Restrict", "Prefix"},
             {"And", "Or", "Impl", "Biimpl", "IdLeft"}, {1}, {}, 3, 1, 1),
      Family({Sub(0, 1), Sub(0, 2), True0}, {}, {"And"}, {1, 2}, {"AndList"}, 5, 1, 1),
      Family({Sub(0, 1), Sub(1, 2)}, {"Negate"}, {"Or"}, {}, {}, 5, 0, 1),
      Family({Sub(0, 1), Atom("False", <<>>, 0)}, {"Restrict"}, {"And", "Impl"},
             {}, {}, 4, 0, 1),
      WithNumbers(Family({Atom("Less1", <<0, 1>>, 0)}, {"Negate"}, {"And"}, {0, 1}, {},
                         4, 1, 1), {0, 1}),
      Family({Sub(0, 1), Sub(1, 0), Sub(1, 1)}, {"Negate"}, {"Or"}, {}, {}, 4, 0, 2) }

\* Formulas that are reduced: the local rules; equations to substitute; numbers;
\* conjuncts that occur twice; chains of equations, and two formulas.
ReducedFamilies ==
    { Reduced(Family({True0, Atom("False", <<>>, 0), Eq(0, 0), Sub(0, 1)}, {"Negate"},
                     {"And", "Or", "Impl", "Biimpl"}, {}, {}, 4, 0, 1)),
      Reduced(Family({Eq(0, 1), Sub(1, 2)}, {"Negate"}, {"And", "Or"}, {1}, {}, 5, 1, 1)),
      WithNumbers(Reduced(Family({Atom("Eq1", <<0, 1>>, 0), Atom("Less1", <<0, 1>>, 0)},
                                 {"Negate"}, {"And"}, {0, 1}, {}, 4, 1, 1)), {0, 1}),
      Reduced(Family({Atom("BoolVar", <<0>>, 0), Atom("BoolVar", <<1>>, 0)}, {},
                     {"And", "Biimpl"}, {0, 1}, {}, 6, 1, 1)),
      Reduced(Family({Sub(0, 1), Sub(0, 2)}, {"Negate"}, {"And"}, {1}, {}, 6, 1, 1)),
      Reduced(Family({Eq(0, 1), Eq(1, 2), Sub(1, 2)}, {}, {}, {0, 1, 2}, {"AndList"},
                     5, 2, 2)) }

MCFamilies == PlainFamilies \cup ReducedFamilies

\* Quantifiers over variables that do not occur, and conjuncts that are true.
StaleFamilies ==
    { Vacuous(Reduced(Family(
        {Atom("Singleton", <<0>>, 0), Atom("Singleton", <<1>>, 0),
         Atom("Eq2", <<0, 0>>, 0)}, {},
        {"And", "Or"}, {1, 2}, {}, 7, 1, 1))) }

\* The set differences P = Q \ P.
SetminusFamilies ==
    { Family({a \in ThreeVars({"EqSetMinus"}) :
                a.args[1] = a.args[3] /\ a.args[1] # a.args[2]},
             {"Negate"}, {}, {}, {}, 2, 0, 1) }
=============================================================================
