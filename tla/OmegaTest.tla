----------------------------- MODULE OmegaTest -----------------------------
(***************************************************************************)
(* The Omega test: is there an integer point that satisfies a conjunction  *)
(* of linear equalities and inequalities?  Problem::solve and all it calls *)
(* (omega_lib/src/omega_core), as the three callers that ask for a verdict *)
(* use it: reduceProblem when no variable is protected, verifyProblem, and *)
(* the redundancy tests of expensiveKill.                                  *)
(*                                                                         *)
(* solve and solveGEQ call each other on copies of the problem, one for    *)
(* each shadow and each splinter; the copies share the caller's problem,   *)
(* to which verifyProblem lets them add the equalities they come upon.     *)
(* The state is the stack of these calls.                                  *)
(*                                                                         *)
(* A constraint is a constant and the coefficients of the variables it     *)
(* speaks of; two constraints have opposite keys (the hash table) when     *)
(* their coefficients are opposite.  The order of the constraints and of   *)
(* the variables, which decides ties, is left open.                        *)
(***************************************************************************)
EXTENDS Integers, FiniteSets, Sequences, SequencesExt, FiniteSetsExt

CONSTANTS
  Problems,      \* the problems asked about
  Ops,           \* the callers: "reduce", "verify", "refute"
  MaxWildcards   \* maxWildcards

Callers == {"reduce", "verify", "refute"}

\* A constraint is a constant and the coefficients, not 0, of some variables.
IsConstraint(e, V) ==
  /\ e = [k |-> e.k, c |-> e.c]
  /\ e.k \in Int
  /\ DOMAIN e.c \subseteq V /\ e.c \in [DOMAIN e.c -> Int \ {0}]

IsProblem(p) ==
  /\ p = [vars |-> p.vars, eqs |-> p.eqs, geqs |-> p.geqs, freed |-> p.freed]
  /\ IsFiniteSet(p.vars) /\ p.vars = 1 .. Cardinality(p.vars)
  /\ IsFiniteSet(p.eqs) /\ IsFiniteSet(p.geqs)
  /\ \A e \in p.eqs \cup p.geqs : IsConstraint(e, p.vars)
  /\ p.freed \in BOOLEAN

ASSUME OmegaAssumption ==
  /\ \A p \in Problems : IsProblem(p)
  /\ Ops \subseteq Callers
  /\ MaxWildcards \in Nat \ {0}

VARIABLES
  op,       \* who asks
  given,    \* the problem as it was given
  problem,  \* the caller's problem, originalProblem during verifyProblem
  stack,    \* the calls of solve and solveGEQ in progress, innermost last
  ret,      \* what the call that just ended returned; "none" while one runs
  wild      \* nextWildcard: the names given to new variables so far

vars == <<op, given, problem, stack, ret, wild>>

-----------------------------------------------------------------------------
(* Constraints.                                                             *)

Coef(e, v) == IF v \in DOMAIN e.c THEN e.c[v] ELSE 0

\* No variable is left.
Constant(e) == DOMAIN e.c = {}

\* v = 0
Unit(v) == [k |-> 0, c |-> [w \in {v} |-> 1]]

\* a * e + b * f
Combine(a, e, b, f) ==
  LET sum(v) == a * Coef(e, v) + b * Coef(f, v) IN
  [k |-> a * e.k + b * f.k,
   c |-> [v \in {v \in DOMAIN e.c \cup DOMAIN f.c : sum(v) # 0} |-> sum(v)]]

Opposite(e, f) ==
  /\ DOMAIN e.c = DOMAIN f.c
  /\ \A v \in DOMAIN e.c : e.c[v] = -f.c[v]

\* The constraint k + the sum of a[v] * v; what is 0 is dropped.
Constraint(k, a) == [k |-> k, c |-> [v \in {v \in DOMAIN a : a[v] # 0} |-> a[v]]]

Magnitude(x) == IF x < 0 THEN -x ELSE x

\* gcd of a set of numbers, not all 0
Gcd(S) ==
  LET M == {Magnitude(x) : x \in S} \ {0} IN
  Max({d \in 1 .. Min(M) : \A x \in M : x % d = 0})

CoefGcd(e) == Gcd({e.c[v] : v \in DOMAIN e.c})

\* The constraints that bound v from below and from above.
Lowers(G, v) == {e \in G : Coef(e, v) > 0}
Uppers(G, v) == {e \in G : Coef(e, v) < 0}
Without(G, v) == {e \in G : Coef(e, v) = 0}

\* The pairs an elimination of v combines.
Pairs(G, v) == {m \in Lowers(G, v) \X Uppers(G, v) : ~Opposite(m[1], m[2])}

-----------------------------------------------------------------------------
(* normalize                                                                *)

\* Coefficients without a common factor, and the constant rounded down.
Tighten(e) ==
  IF Constant(e) THEN e
  ELSE LET g == CoefGcd(e) IN
       [k |-> e.k \div g, c |-> [v \in DOMAIN e.c |-> e.c[v] \div g]]

\* Of the constraints with one key the tightest; none that says k >= 0.
Tightest(G) ==
  LET T == {Tighten(e) : e \in G} IN
  {e \in T : ~Constant(e) /\ \A f \in T : f.c = e.c => e.k <= f.k}

\* normalize_false: 0 > k, or two opposite constraints that exclude each other.
Contradictory(G) ==
  LET T == {Tighten(e) : e \in G} IN
  \/ \E e \in T : Constant(e) /\ e.k < 0
  \/ \E e, f \in T : e.k + f.k < 0 /\ Opposite(e, f)

\* The equalities that two opposite constraints make.
Squeezed(G) ==
  LET T == Tightest(G) IN
  {e \in T : /\ e.c[Min(DOMAIN e.c)] > 0
             /\ \E f \in T : e.k = -f.k /\ Opposite(e, f)}

\* normalize_coupled
Coupled(G) == \E e \in G : Cardinality(DOMAIN e.c) > 1

-----------------------------------------------------------------------------
(* analyzeElimination                                                       *)

\* The shadow of a pair, with no common factor divided out, and the grey area
\* between the real shadow and the dark one.
Shadow(m, v) == Combine(-Coef(m[2], v), m[1], Coef(m[1], v), m[2])
Grey(m, v) == (Coef(m[1], v) - 1) * (-Coef(m[2], v) - 1)

AllPairs(G, v) == Lowers(G, v) \X Uppers(G, v)

\* Two parallel bounds so close that the dark shadow is empty.
ParallelGaps(G, v) ==
  {m \in AllPairs(G, v) : Constant(Shadow(m, v)) /\ Shadow(m, v).k < Grey(m, v)}

DarkShadowFeasible(G, v) == ParallelGaps(G, v) = {}

Real(G, v) == {m \in AllPairs(G, v) : ~Constant(Shadow(m, v))}

\* How much tighter the constant of a pair's dark shadow is, after rounding.
Loss(m, v) ==
  LET s == Shadow(m, v)
      g == CoefGcd(s)
  IN (s.k \div g) - ((s.k - Grey(m, v)) \div g)

Infinity == 1000000

\* What is left to try when v is eliminated, counted in four ways.
DisjointSplinters(G, v) ==
  IF DarkShadowFeasible(G, v)
  THEN 1 + MapThenSumSet(LAMBDA m : Loss(m, v), Real(G, v))
  ELSE Infinity

ParallelSplinters(G, v) == Min({Infinity} \cup {Shadow(m, v).k + 1 : m \in ParallelGaps(G, v)})

BoundSplinters(G, v, S, T) ==
  LET worst == Max({0} \cup {Magnitude(Coef(e, v)) : e \in T})
      tries(e) == LET c == Magnitude(Coef(e, v)) IN 1 + (c * worst - c - worst) \div worst
      feasible == DarkShadowFeasible(G, v)
      exact == \A m \in Real(G, v) : Loss(m, v) = 0
  IN (IF feasible THEN 1 ELSE 0)
     + IF feasible /\ exact THEN 0
       ELSE MapThenSumSet(tries, {e \in S : Magnitude(Coef(e, v)) > 1})

LbSplinters(G, v) == BoundSplinters(G, v, Lowers(G, v), Uppers(G, v))
UbSplinters(G, v) == BoundSplinters(G, v, Uppers(G, v), Lowers(G, v))

Score(G, v) ==
  LET units == {m \in Real(G, v) : CoefGcd(Shadow(m, v)) > 1} IN
  10000 * (Min({ParallelSplinters(G, v), DisjointSplinters(G, v),
                LbSplinters(G, v), UbSplinters(G, v)}) - 1)
  + Cardinality(Real(G, v)) - 3 * Cardinality(units)

\* The variables solveGEQ may choose to eliminate.
Best(p) ==
  LET score == [v \in p.vars |-> Score(p.geqs, v)] IN
  {v \in p.vars : \A w \in p.vars : score[v] <= score[w]}

Exact(G, v) ==
  \/ DisjointSplinters(G, v) = 1
  \/ Min({LbSplinters(G, v), ParallelSplinters(G, v)}) = 1

-----------------------------------------------------------------------------
(* The shadows of an elimination.                                           *)

PairGcd(m, v) == Gcd({Coef(m[1], v), Coef(m[2], v)})

RealShadow(m, v) ==
  LET g == PairGcd(m, v) IN
  Combine((-Coef(m[2], v)) \div g, m[1], Coef(m[1], v) \div g, m[2])

\* Faulty variant (see "mutants" in PROJECT.json): the grey area is left out.
DarkShadowIsReal(m, v) == RealShadow(m, v)

DarkShadow(m, v) ==
  LET g == PairGcd(m, v)
      L == Coef(m[1], v)
      U == -Coef(m[2], v)
      grey == IF L = U THEN U - 1 ELSE (U \div g - 1) * (L \div g - 1)
  IN [RealShadow(m, v) EXCEPT !.k = @ - grey]

\* Faulty variant: the last value is left out.
MaxIncrLess(G, v, e) ==
  LET worst == Max({1} \cup {-Coef(f, v) : f \in Uppers(G, v)}) IN
  ((Coef(e, v) - 1) * (worst - 1) - 1) \div worst - 1

\* How many values above each lower bound e have to be tried.
MaxIncr(G, v, e) ==
  LET worst == Max({1} \cup {-Coef(f, v) : f \in Uppers(G, v)}) IN
  ((Coef(e, v) - 1) * (worst - 1) - 1) \div worst

-----------------------------------------------------------------------------
(* Problems, and the calls that work on them.                               *)

FreeVars(p) ==
  {v \in p.vars : /\ Lowers(p.geqs, v) = {} \/ Uppers(p.geqs, v) = {}
                  /\ \A q \in p.eqs : Coef(q, v) = 0}

\* substitute and deleteVariable: i is eliminated by q, where its coefficient
\* is 1 or -1.
Substituted(e, q, i) == Combine(1, e, -Coef(e, i) * Coef(q, i), q)

Eliminated(p, Q, q, i) ==
  [p EXCEPT !.vars = @ \ {i},
            !.eqs = {Substituted(e, q, i) : e \in Q},
            !.geqs = {Substituted(e, q, i) : e \in @}]

\* int_mod_hat: the remainder closest to 0
ModHat(a, b) == LET r == a % b IN IF r > b - r THEN r - b ELSE r

\* nameWildcard: the next name that the problem does not use.
WildcardAt(i) == -(((i - 1 - wild) % MaxWildcards) + 1)
Turns(p) == {i \in 1 .. MaxWildcards : WildcardAt(i) \notin p.vars}
Wildcard(p) == WildcardAt(Min(Turns(p)))

\* pc is where the call is, want its desiredResult, timid whether conservative
\* is set; the rest belongs to an elimination that is not exact: its variable,
\* the lower bounds to be tried, the one being tried, and its tries left.
CallOn(p, want, pc, timid) ==
  [p |-> p, want |-> want, pc |-> pc, then |-> pc, timid |-> timid,
   v |-> 0, todo |-> {}, lower |-> {}, left |-> 0]

Top == Last(stack)
P == Top.p

Running(pc) == stack # <<>> /\ ret = "none" /\ Top.pc = pc
Resumed(pc) == stack # <<>> /\ ret # "none" /\ Top.pc = pc

Return(r) == stack' = Front(stack) /\ ret' = r
Become(f) == stack' = Append(Front(stack), f) /\ ret' = "none"
CallFrom(f, callee) == stack' = Front(stack) \o <<f, callee>> /\ ret' = "none"

\* Faulty variant: what holds in one splinter is told to the caller too.
OuterAlways(Q) ==
  IF op = "verify" /\ P.vars \subseteq problem.vars
  THEN [problem EXCEPT !.eqs = @ \cup Q]
  ELSE problem

\* addingEqualityConstraint: only while the problem is being verified, and
\* only when every variable of the copy is one of the original's.
Outer(Q) ==
  IF op = "verify" /\ ~Top.timid /\ P.vars \subseteq problem.vars
  THEN [problem EXCEPT !.eqs = @ \cup Q]
  ELSE problem

\* A verified problem is one simplifyProblem has reduced.
IsReduced(p) ==
  /\ p.eqs = {} /\ p.geqs # {}
  /\ ~Contradictory(p.geqs) /\ Tightest(p.geqs) = p.geqs /\ Squeezed(p.geqs) = {}

\* What expensiveKill asks about: such a problem with one constraint negated.
Negated(e) == [Combine(-1, e, 0, e) EXCEPT !.k = @ - 1]

OneNegated(p) ==
  \E e \in p.geqs : IsReduced([p EXCEPT !.geqs = (@ \ {e}) \cup {Negated(e)}])

Entry(o, p) ==
  CASE o = "reduce" ->
         [CallOn([p EXCEPT !.freed = FALSE], "UNKNOWN", "eq", FALSE)
            EXCEPT !.pc = IF Cardinality(p.vars) > Cardinality(p.eqs) THEN "free" ELSE "eq"]
    [] o = "verify" ->
         [CallOn([p EXCEPT !.freed = TRUE], "UNKNOWN", "eq", FALSE) EXCEPT !.pc = "free"]
    [] o = "refute" -> CallOn([p EXCEPT !.freed = FALSE], "FALSE", "eq", TRUE)

Init ==
  /\ op \in Ops
  /\ given \in Problems
  /\ op = "verify" => IsReduced(given)
  /\ op = "refute" => OneNegated(given)
  /\ problem = given
  /\ stack = <<Entry(op, given)>>
  /\ ret = "none"
  /\ wild = 0

Asked == UNCHANGED <<op, given>>

-----------------------------------------------------------------------------
(* freeEliminations                                                         *)

FreeElimination ==
  /\ Running("free")
  /\ \E v \in FreeVars(P) :
       Become([Top EXCEPT !.p.vars = @ \ {v}, !.p.geqs = Without(@, v)])
  /\ Asked /\ UNCHANGED <<problem, wild>>

NoneFree ==
  /\ Running("free")
  /\ FreeVars(P) = {}
  /\ Become([Top EXCEPT !.pc = Top.then])
  /\ Asked /\ UNCHANGED <<problem, wild>>

-----------------------------------------------------------------------------
(* solve and solveEQ                                                        *)

NoIntegerSolution(q) ==
  IF Constant(q) THEN q.k # 0 ELSE q.k % CoefGcd(q) # 0

EqualityFails ==
  /\ Running("eq")
  /\ \E q \in P.eqs : NoIntegerSolution(q)
  /\ Return("FALSE")
  /\ Asked /\ UNCHANGED <<problem, wild>>

Units(q) == {i \in DOMAIN q.c : Magnitude(q.c[i]) = 1}

\* doElimination; an equality without variables is dropped.
SolveEquality ==
  /\ Running("eq")
  /\ \E e \in P.eqs :
       LET q == Tighten(e)
           rest == P.eqs \ {e}
       IN /\ ~NoIntegerSolution(e)
          /\ \/ /\ Constant(q)
                /\ Become([Top EXCEPT !.p.eqs = rest])
             \/ \E i \in Units(q) : Become([Top EXCEPT !.p = Eliminated(P, rest, q, i)])
  /\ Asked /\ UNCHANGED <<problem, wild>>

\* doMod: without a unit coefficient, the variable with the smallest one is
\* replaced through a new variable, and the equality divided.
Hat(q, m) == Constraint(ModHat(q.k, m), [v \in DOMAIN q.c |-> ModHat(q.c[v], m)])
Divided(e, m) == Constraint(e.k \div m, [v \in DOMAIN e.c |-> e.c[v] \div m])

DoMod ==
  /\ Running("eq")
  /\ \E e \in P.eqs :
       LET q == Tighten(e)
           least == Min({Magnitude(q.c[i]) : i \in DOMAIN q.c})
           m == least + 1
           alpha == Wildcard(P)
       IN /\ ~NoIntegerSolution(e) /\ ~Constant(q) /\ Units(q) = {}
          /\ Turns(P) # {}
          /\ \E j \in DOMAIN q.c :
               LET hat == Hat(q, m)
                   sub == Combine(1, hat, m * Coef(hat, j), Unit(alpha))
                   whole == Eliminated(P, P.eqs \ {e}, sub, j)
               IN /\ Magnitude(q.c[j]) = least
                  /\ Become([Top EXCEPT !.p =
                       [whole EXCEPT !.vars = @ \cup {alpha},
                                     !.eqs = @ \cup {Divided(Substituted(q, sub, j), m)}]])
                  /\ wild' = alpha
  /\ Asked /\ UNCHANGED problem

EqualitiesSolved ==
  /\ Running("eq")
  /\ P.eqs = {}
  /\ IF P.geqs = {} THEN Return("TRUE") ELSE Become([Top EXCEPT !.pc = "geq"])
  /\ Asked /\ UNCHANGED <<problem, wild>>

-----------------------------------------------------------------------------
(* solveGEQ, up to the elimination.                                         *)

LowestOf(G, x) == {-(e.k \div Coef(e, x)) : e \in Lowers(G, x)}
HighestOf(G, x) == {e.k \div (-Coef(e, x)) : e \in Uppers(G, x)}

Crossed(G, x) == \E lo \in LowestOf(G, x), hi \in HighestOf(G, x) : lo > hi

\* x = b, when the bounds of x leave one value.
Fixed(G, x) ==
  {[Unit(x) EXCEPT !.k = -b] : b \in
     {b \in LowestOf(G, x) \cap HighestOf(G, x) : ~Crossed(G, x)}}

OneVariable ==
  /\ Running("geq")
  /\ \E x \in P.vars :
       /\ P.vars = {x}
       /\ IF (\E e \in P.geqs : Constant(e) /\ e.k < 0) \/ Crossed(P.geqs, x)
          THEN Return("FALSE") /\ UNCHANGED problem
          ELSE Return("TRUE") /\ problem' = Outer(Fixed(P.geqs, x))
  /\ Asked /\ UNCHANGED wild

\* Faulty variant: it is not remembered that there are none left.
FreeFirstAgain ==
  /\ Running("geq")
  /\ Cardinality(P.vars) # 1 /\ ~P.freed
  /\ Become([Top EXCEPT !.pc = "free", !.then = "geq"])
  /\ Asked /\ UNCHANGED <<problem, wild>>

FreeFirst ==
  /\ Running("geq")
  /\ Cardinality(P.vars) # 1 /\ ~P.freed
  /\ Become([Top EXCEPT !.pc = "free", !.then = "geq", !.p.freed = TRUE])
  /\ Asked /\ UNCHANGED <<problem, wild>>

\* normalize, and what solveGEQ does with its result.
Normalize ==
  /\ Running("geq")
  /\ Cardinality(P.vars) # 1 /\ P.freed
  /\ LET G == Tightest(P.geqs)
         Q == Squeezed(P.geqs)
     IN \/ /\ Contradictory(P.geqs)
           /\ Return("FALSE")
           /\ UNCHANGED problem
        \/ /\ ~Contradictory(P.geqs)
           /\ problem' = Outer(Q)
           /\ \/ Q # {} /\ Become([Top EXCEPT !.p.geqs = G, !.p.eqs = Q, !.pc = "eq"])
              \/ Q = {} /\ ~Coupled(G) /\ Return("TRUE")
              \/ Q = {} /\ Coupled(G) /\ Become([Top EXCEPT !.p.geqs = G, !.pc = "choose"])
  /\ Asked /\ UNCHANGED wild

NothingLeft ==
  /\ Running("choose")
  /\ P.vars = {} \/ P.geqs = {}
  /\ Return("TRUE")
  /\ Asked /\ UNCHANGED <<problem, wild>>

Choosing == Running("choose") /\ P.geqs # {}
Chosen == IF Choosing THEN Best(P) ELSE {}

-----------------------------------------------------------------------------
(* An elimination without splinters.                                        *)

Combined(G, v) == Without(G, v) \cup {RealShadow(m, v) : m \in Pairs(G, v)}

\* Down to one variable: only its bounds are computed.
EliminateToOne(v) ==
  /\ Choosing /\ Exact(P.geqs, v)
  /\ \E x \in P.vars \ {v} :
       LET G == Combined(P.geqs, v)
           copy == [problem EXCEPT !.eqs = @ \cup Fixed(G, x)]
       IN /\ P.vars = {v, x}
          /\ IF Crossed(G, x)
             THEN Return("FALSE") /\ UNCHANGED problem
             ELSE /\ Return("TRUE")
                  /\ problem' = IF op = "verify" /\ ~Top.timid /\ x \in problem.vars
                                THEN copy ELSE problem
  /\ Asked /\ UNCHANGED wild

Eliminate(v) ==
  /\ Choosing /\ Exact(P.geqs, v) /\ Cardinality(P.vars) # 2
  /\ IF Lowers(P.geqs, v) = {}
     THEN Become([Top EXCEPT !.pc = "free", !.then = "choose"])
     ELSE Become([Top EXCEPT !.p.vars = @ \ {v},
                             !.p.geqs = Combined(@, v),
                             !.pc = IF Pairs(P.geqs, v) = {} THEN "choose" ELSE "geq"])
  /\ Asked /\ UNCHANGED <<problem, wild>>

-----------------------------------------------------------------------------
(* An elimination with splinters: the real shadow, the dark shadow, and     *)
(* the values close above each lower bound.                                 *)

ShadowProblem(G, v) ==
  [vars |-> P.vars \ {v}, eqs |-> {}, geqs |-> G, freed |-> FALSE]

TryReal(v) ==
  /\ Choosing /\ ~Exact(P.geqs, v)
  /\ CallFrom([Top EXCEPT !.pc = "real", !.v = v],
              CallOn(ShadowProblem(Combined(P.geqs, v), v), "FALSE", "geq", Top.timid))
  /\ Asked /\ UNCHANGED <<problem, wild>>

ToLowers == [Top EXCEPT !.pc = "lowers",
                        !.todo = {e \in Lowers(P.geqs, Top.v) : Coef(e, Top.v) > 1}]

AfterReal ==
  /\ Resumed("real")
  /\ LET v == Top.v
         D == Without(P.geqs, v) \cup {DarkShadow(m, v) : m \in Pairs(P.geqs, v)}
     IN \/ ret = "FALSE" /\ Return("FALSE")
        \/ ret # "FALSE" /\ Top.want = "FALSE" /\ Return("UNKNOWN")
        \/ /\ ret # "FALSE" /\ Top.want # "FALSE" /\ DarkShadowFeasible(P.geqs, v)
           /\ CallFrom([Top EXCEPT !.pc = "dark"],
                       CallOn(ShadowProblem(D, v), Top.want, "geq", TRUE))
        \/ /\ ret # "FALSE" /\ Top.want # "FALSE" /\ ~DarkShadowFeasible(P.geqs, v)
           /\ Become(ToLowers)
  /\ Asked /\ UNCHANGED <<problem, wild>>

AfterDark ==
  /\ Resumed("dark")
  /\ IF ret # "FALSE" THEN Return(ret) ELSE Become(ToLowers)
  /\ Asked /\ UNCHANGED <<problem, wild>>

\* The lower bounds are tried in the order of their coefficients.
NextLower ==
  /\ Running("lowers")
  /\ \E e \in Top.todo :
       /\ \A f \in Top.todo : Coef(e, Top.v) <= Coef(f, Top.v)
       /\ Become([Top EXCEPT !.pc = "splinter", !.lower = {e}, !.todo = @ \ {e},
                             !.left = MaxIncr(P.geqs, Top.v, e),
                             !.p.geqs = @ \ {e}])
  /\ Asked /\ UNCHANGED <<problem, wild>>

Raised(Q) == {[e EXCEPT !.k = @ - 1] : e \in Q}

TrySplinter ==
  /\ Running("splinter") /\ Top.left >= 0
  /\ CallFrom([Top EXCEPT !.lower = Raised(@), !.left = @ - 1],
              CallOn([P EXCEPT !.eqs = Top.lower], Top.want, "eq", TRUE))
  /\ Asked /\ UNCHANGED <<problem, wild>>

AfterSplinter ==
  /\ Resumed("splinter")
  /\ IF ret = "TRUE" THEN Return("TRUE") ELSE Become(Top)
  /\ Asked /\ UNCHANGED <<problem, wild>>

\* Every value of a lower bound has been tried: from now on it is tighter.
LowerExhausted ==
  /\ Running("splinter") /\ Top.left < 0
  /\ IF Top.todo = {} THEN Return("FALSE")
     ELSE LET p == [P EXCEPT !.geqs = @ \cup Top.lower] IN
          CallFrom([Top EXCEPT !.p = p, !.pc = "feasible"], CallOn(p, "FALSE", "eq", TRUE))
  /\ Asked /\ UNCHANGED <<problem, wild>>

AfterFeasible ==
  /\ Resumed("feasible")
  /\ IF ret = "FALSE" THEN Return("FALSE") ELSE Become([Top EXCEPT !.pc = "lowers"])
  /\ Asked /\ UNCHANGED <<problem, wild>>

-----------------------------------------------------------------------------
Next ==
  \/ FreeElimination \/ NoneFree
  \/ EqualityFails \/ SolveEquality \/ DoMod \/ EqualitiesSolved
  \/ OneVariable \/ FreeFirst \/ Normalize \/ NothingLeft
  \/ \E v \in Chosen : EliminateToOne(v) \/ Eliminate(v) \/ TryReal(v)
  \/ AfterReal \/ AfterDark
  \/ NextLower \/ TrySplinter \/ AfterSplinter \/ LowerExhausted \/ AfterFeasible

Finished == stack = <<>> /\ UNCHANGED vars

\* The program runs: while a call is in progress there is always a next step.
\* This is WF_vars(Next), since Next is enabled exactly then (there is no other
\* deadlock), and is much cheaper to check.
Progress == []<><<TRUE>>_vars \/ []<>(stack = <<>>)

Spec == Init /\ [][Next \/ Finished]_vars /\ Progress
-----------------------------------------------------------------------------
CONSTANT Values   \* the values of the variables, in the properties

ASSUME ValuesAssumption == Values \subseteq Int

\* The value of a constraint at x, whose variables are 1 .. Len(x).
At(e, x) ==
  LET upto[i \in 0 .. Len(x)] == IF i = 0 THEN e.k ELSE upto[i - 1] + Coef(e, i) * x[i]
  IN upto[Len(x)]

Satisfies(x, p) ==
  /\ \A e \in p.geqs : At(e, x) >= 0
  /\ \A q \in p.eqs : At(q, x) = 0

Points(p) == [p.vars -> Values]

Answered(r) == stack = <<>> /\ ret = r

\* FALSE is said only of a problem without an integer solution: no splinter is
\* forgotten, and neither rounding, a free elimination nor a substitution loses
\* a solution.  HIP takes FALSE for a proof.
DenialRight == Answered("FALSE") => ~ \E x \in Points(given) : Satisfies(x, given)

\* TRUE is said only of a problem that has an integer solution: the dark shadow
\* has an integer point above each of its points, a splinter is a part of the
\* problem, and an elimination called exact is.  expensiveKill does not ask.
AffirmRight ==
  Answered("TRUE") /\ op # "refute" => \E x \in Points(given) : Satisfies(x, given)

\* The equalities that verifyProblem adds to the problem it verifies hold in all
\* its solutions: none is true in a dark shadow or in one splinter only, or
\* speaks of a variable by a name that was given to another.
EqualitiesImplied ==
  \A q \in problem.eqs \ given.eqs :
    \A x \in Points(given) : Satisfies(x, given) => At(q, x) = 0

\* solve comes back: doMod, the shadows and the splinters make problems that are
\* simpler each time, whatever is eliminated first.
SolveEnds == <>(stack = <<>>)
=============================================================================
