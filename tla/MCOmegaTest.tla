---------------------------- MODULE MCOmegaTest ----------------------------
(* TLC instances of OmegaTest.  Each family takes the shapes of a few       *)
(* constraints and moves their constants.                                   *)
EXTENDS OmegaTest

Box(n, b) == {Constraint(b, [v \in 1 .. n |-> IF v = w THEN s ELSE 0]) : w \in 1 .. n, s \in {-1, 1}}
Problem(n, G, Q) == [vars |-> 1 .. n, eqs |-> Q, geqs |-> G, freed |-> FALSE]

MCValues == -5 .. 5

Near(k) == k - 1 .. k + 1

Triangle(A) ==
  {Problem(2, Box(2, 4) \cup {Constraint(k[1], A[1].a), Constraint(k[2], A[2].a), Constraint(k[3], A[3].a)}, {}) :
     k \in Near(A[1].k) \X Near(A[2].k) \X Near(A[3].k)}

Side(k, a) == [k |-> k, a |-> a]

\* Two variables, three constraints; coefficients of one variable are equal or
\* have no common factor.
Triangles ==
  UNION {Triangle(A) : A \in {
    <<Side(-1, <<5, -3>>), Side(2, <<2, 5>>), Side(1, <<-5, 2>>)>>,
    <<Side(2, <<2, -1>>), Side(1, <<3, -5>>), Side(0, <<-3, 5>>)>>,
    <<Side(5, <<-5, 3>>), Side(2, <<-2, -3>>), Side(-2, <<5, 2>>)>>,
    <<Side(0, <<5, 3>>), Side(0, <<-5, 3>>), Side(2, <<3, -5>>)>>}}

\* Three variables, two inequalities, or one and an equality.
Shapes == {<<2, 3, -2>>, <<3, -2, 2>>, <<-3, -2, 3>>}
Slabs ==
  {Problem(3, Box(3, 2) \cup {Constraint(k, s), Constraint(l, t)}, {}) :
     k \in -3 .. 1, l \in -3 .. 1, s \in Shapes,
     t \in {<<-2, -3, 3>>, <<2, 2, -3>>, <<-3, 3, 2>>}}
Planes ==
  {Problem(3, Box(3, 2) \cup {Constraint(k, s)}, {Constraint(l, t)}) :
     k \in -3 .. 1, l \in -3 .. 1, s \in Shapes,
     t \in {<<3, 5, 2>>, <<2, 4, -3>>, <<2, -4, 0>>}}

\* No box: opposite constraints, and variables bounded on one side or not at all.
Unbounded ==
  {Problem(3, {Constraint(k, s)} \cup R, {}) :
     k \in -1 .. 3, s \in Shapes,
     R \in {{Constraint(l, [v \in 1 .. 3 |-> -s[v]])} : l \in -1 .. 3, s \in Shapes}
          \cup {{Constraint(0, <<1, 0, 0>>), Constraint(l, <<0, -1, 2>>), Constraint(l, <<-1, 1, -3>>)} : l \in {0, 1}}
          \cup {{Constraint(l, <<3, -5, 0>>), Constraint(l, <<-2, 2, 0>>), Constraint(3, <<0, 3, 0>>)} : l \in {0, 1}}}

\* Two variables bound each other only, and so do two more.
Apart ==
  {Problem(4, {Constraint(1, <<2, 3, 0, 0>>), Constraint(1, <<-2, -3, 0, 0>>),
               Constraint(k, <<0, 0, 1, -1>>), Constraint(k, <<0, 0, -2, 3>>)}, {}) :
     k \in -1 .. 1}

\* Equalities alone; one may follow from the other.
Lattices ==
  {Problem(3, {}, {Constraint(k, s), Constraint(l, <<2, -4, 0>>)}) : k \in -2 .. 2, l \in -2 .. 2, s \in Shapes}
  \cup {Problem(3, {}, {Constraint(k, s), Constraint(l, [v \in 1 .. 3 |-> -s[v]])}) :
          k \in -1 .. 1, l \in -1 .. 1, s \in Shapes}

MCProblems == Triangles \cup Slabs \cup Planes \cup Unbounded \cup Apart \cup Lattices

\* Coefficients 2 and 4, which have a common factor.
SharedFactor ==
  Triangle(<<Side(-1, <<3, -1>>), Side(-3, <<-4, -5>>), Side(4, <<2, 5>>)>>)
  \cup Triangle(<<Side(1, <<4, -5>>), Side(2, <<-2, 5>>), Side(-3, <<-5, -5>>)>>)
=============================================================================
