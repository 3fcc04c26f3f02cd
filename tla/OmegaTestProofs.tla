-------------------------- MODULE OmegaTestProofs --------------------------
(***************************************************************************)
(* Proofs about OmegaTest, for all problems: FALSE is said only of a       *)
(* problem without an integer solution, and the equalities verifyProblem   *)
(* adds to the problem hold in all its solutions.                          *)
(*                                                                         *)
(* A point gives each constraint its value, and that is all the proofs     *)
(* know of it: a function from constraints to numbers that respects their  *)
(* sums (Linear).  So a variable may be moved, a new one be given a value, *)
(* and one without bounds be forgotten, without naming the variables.      *)
(*                                                                         *)
(* The argument.  Each step before a splinter turns the points of the      *)
(* problem into points of what it becomes (Becomes).  A splinter does not: *)
(* the call has then looked at a part of its points, and what it says      *)
(* rests on where it has still to look (Open).  The invariant says of      *)
(* every call on the stack: if what its caller asked has a point, there is *)
(* one where it has still to look (Sound).  The core is DarkTried: a point *)
(* that is not in the dark shadow is close above a lower bound that is     *)
(* still to be tried, within the MaxIncr that solveGEQ computes.           *)
(***************************************************************************)
EXTENDS OmegaTest, TLAPS, WellFoundedInduction, FiniteSetTheorems, SequenceTheorems

-----------------------------------------------------------------------------
(* Numbers.                                                                  *)

\* A set of numbers has a least one.
LEMMA LeastNumber ==
    ASSUME NEW S \in SUBSET Nat, S # {}
    PROVE  \E n \in S : \A m \in S : n <= m
<1> DEFINE R == OpToRel(<, Nat)
<1>1. IsWellFoundedOn(R, Nat)
  BY NatLessThanWellFounded
<1> HIDE DEF R
<1>2. PICK n \in S : \A m \in S : <<m, n>> \notin R
  BY <1>1, WFMin
<1>3. ASSUME NEW m \in S
      PROVE  n <= m
  <2>1. m \in Nat /\ n \in Nat
    OBVIOUS
  <2>2. ~ (m < n)
    BY <1>2, <2>1 DEF R, OpToRel
  <2> QED
    BY <2>1, <2>2
<1> QED
  BY <1>3

\* A set of numbers with 0 and the successor of each of its numbers.
LEMMA Induction ==
    ASSUME NEW S \in SUBSET Nat, 0 \in S, \A n \in S : n + 1 \in S
    PROVE  \A n \in Nat : n \in S
<1> SUFFICES ASSUME Nat \ S # {}
             PROVE  FALSE
  OBVIOUS
<1>1. PICK n \in Nat \ S : \A m \in Nat \ S : n <= m
  BY LeastNumber
<1>2. n # 0 /\ n - 1 \in Nat
  OBVIOUS
<1>3. n - 1 \in S
  BY <1>1, <1>2
<1> QED
  BY <1>1, <1>2, <1>3

LEMMA MinFacts ==
    ASSUME NEW S \in SUBSET Nat, S # {}
    PROVE  Min(S) \in S /\ \A m \in S : Min(S) <= m
BY LeastNumber DEF Min

LEMMA MaxFacts ==
    ASSUME NEW S \in SUBSET Int, NEW b \in Int, \A m \in S : m <= b, S # {}
    PROVE  Max(S) \in S /\ \A m \in S : m <= Max(S)
<1> DEFINE T == {b - m : m \in S}
<1>1. T \in SUBSET Nat /\ T # {}
  <2>1. \A m \in S : b - m \in Nat
    OBVIOUS
  <2> QED
    BY <2>1
<1>2. PICK t \in T : \A s \in T : t <= s
  BY <1>1, LeastNumber
<1>3. PICK x \in S : t = b - x
  OBVIOUS
<1>4. \A m \in S : x >= m
  <2> SUFFICES ASSUME NEW m \in S
               PROVE  x >= m
    OBVIOUS
  <2>1. b - x <= b - m
    BY <1>2, <1>3
  <2> QED
    BY <2>1
<1>5. \E y \in S : \A m \in S : y >= m
  BY <1>4
<1>6. Max(S) \in S /\ \A m \in S : Max(S) >= m
  BY <1>5 DEF Max
<1> QED
  BY <1>6

LEMMA DivMod ==
    ASSUME NEW k \in Int, NEW g \in Int, g > 0
    PROVE  /\ k \div g \in Int
           /\ (k % g) \in Int /\ 0 <= (k % g) /\ (k % g) < g
           /\ k = g * (k \div g) + (k % g)
OBVIOUS

\* A product above -g is no product of g and a negative number.
LEMMA NoneBetween ==
    ASSUME NEW s \in Int, NEW g \in Int, g > 0, g * s > -g
    PROVE  s >= 0
OBVIOUS

\* What is not negative before it is divided is not afterwards.
LEMMA FloorRight ==
    ASSUME NEW k \in Int, NEW g \in Int, g > 0, NEW s \in Int, k + g * s >= 0
    PROVE  (k \div g) + s >= 0
<1> DEFINE q == k \div g
           r == k % g
<1>1. q \in Int /\ r \in Int /\ r < g /\ k = g * q + r
  BY DivMod
<1> HIDE DEF q, r
<1>2. g * (q + s) = g * q + g * s
  BY <1>1
<1>3. g * (q + s) > -g
  BY <1>1, <1>2
<1>4. q + s >= 0
  BY <1>1, <1>3, NoneBetween
<1> QED
  BY <1>4 DEF q

\* g divides x
Divides(g, x) == \E y \in Int : x = g * y

LEMMA DividesMod ==
    ASSUME NEW g \in Int, g > 0, NEW x \in Int
    PROVE  /\ Divides(g, x) <=> x % g = 0
           /\ Divides(g, x) => x = g * (x \div g)
<1>1. ASSUME NEW y \in Int, x = g * y
      PROVE  x % g = 0 /\ x \div g = y
  BY <1>1
<1>2. ASSUME x % g = 0
      PROVE  x = g * (x \div g)
  BY <1>2, DivMod
<1> QED
  BY <1>1, <1>2, DivMod DEF Divides

LEMMA MagnitudeFacts ==
    ASSUME NEW x \in Int
    PROVE  /\ Magnitude(x) \in Nat
           /\ Magnitude(x) = x \/ Magnitude(x) = -x
           /\ x # 0 => Magnitude(x) > 0
BY DEF Magnitude

LEMMA GcdFacts ==
    ASSUME NEW S \in SUBSET Int, NEW z \in S, z # 0
    PROVE  /\ Gcd(S) \in Int /\ Gcd(S) > 0
           /\ \A x \in S : Divides(Gcd(S), x)
           /\ \A x \in S : x # 0 => Gcd(S) <= Magnitude(x)
<1> DEFINE M == {Magnitude(x) : x \in S} \ {0}
           D == {d \in 1 .. Min(M) : \A x \in M : x % d = 0}
<1>1. M \in SUBSET Nat /\ M # {} /\ 0 \notin M
  <2>1. \A x \in S : Magnitude(x) \in Nat
    BY MagnitudeFacts
  <2>2. Magnitude(z) \in M
    BY MagnitudeFacts
  <2> QED
    BY <2>1, <2>2
<1>2. Gcd(S) = Max(D)
  BY DEF Gcd
<1>3. \A x \in S : x # 0 => Magnitude(x) \in M
  BY MagnitudeFacts
<1> HIDE DEF M
<1>4. Min(M) \in M /\ Min(M) \in Nat /\ Min(M) # 0 /\ \A m \in M : Min(M) <= m
  BY <1>1, MinFacts
<1>5. D \in SUBSET Int /\ (\A d \in D : d <= Min(M)) /\ \A d \in D : d > 0
  BY <1>4
<1>6. 1 \in D
  <2>1. \A x \in M : x % 1 = 0
    BY <1>1
  <2> QED
    BY <1>4, <2>1
<1>7. Max(D) \in D
  <2> HIDE DEF D
  <2>1. D # {} /\ Min(M) \in Int
    BY <1>4, <1>6
  <2> QED
    BY <1>5, <2>1, MaxFacts
<1> DEFINE g == Max(D)
<1>8. g \in Int /\ g > 0 /\ g <= Min(M) /\ \A x \in M : x % g = 0
  BY <1>4, <1>5, <1>7
<1> HIDE DEF g, D
<1>9. ASSUME NEW x \in S
      PROVE  Divides(g, x)
  <2>1. CASE x = 0
    <3>1. x = g * 0
      BY <1>8, <2>1
    <3> QED
      BY <3>1 DEF Divides
  <2>2. CASE x # 0
    <3>1. Magnitude(x) % g = 0 /\ Magnitude(x) \in Int
      BY <1>3, <1>8, <2>2, MagnitudeFacts
    <3>2. PICK y \in Int : Magnitude(x) = g * y
      BY <1>8, <3>1, DividesMod DEF Divides
    <3>3. -y \in Int /\ g * (-y) = -(g * y)
      BY <1>8
    <3> QED
      BY <3>2, <3>3, MagnitudeFacts DEF Divides
  <2> QED
    BY <2>1, <2>2
<1>10. ASSUME NEW x \in S, x # 0
       PROVE  g <= Magnitude(x)
  <2>1. Magnitude(x) \in M /\ Magnitude(x) \in Int
    BY <1>3, <1>10, MagnitudeFacts
  <2>2. Min(M) <= Magnitude(x)
    BY <1>4, <2>1
  <2> QED
    BY <1>4, <1>8, <2>1, <2>2
<1> QED
  BY <1>2, <1>8, <1>9, <1>10 DEF g

\* What a function makes of a finite set.
LEMMA FiniteImage ==
    ASSUME NEW S, IsFiniteSet(S), NEW f, f = [x \in S |-> f[x]]
    PROVE  IsFiniteSet({f[x] : x \in S})
<1> DEFINE T == {f[x] : x \in S}
<1>1. f \in [S -> T]
  BY Zenon
<1>2. \A t \in T : \E x \in S : f[x] = t
  OBVIOUS
<1>3. f \in Surjection(S, T)
  BY <1>1, <1>2 DEF Surjection
<1> QED
  BY <1>3, FS_Surjection

-----------------------------------------------------------------------------
(* Constraints.                                                             *)

Constraints == [k : Int, c : UNION {[D -> Int \ {0}] : D \in SUBSET Int}]

\* The constraints that speak of the variables in V only.
Over(V) == {e \in Constraints : DOMAIN e.c \subseteq V}

LEMMA ConstraintFacts ==
    ASSUME NEW e \in Constraints
    PROVE  /\ e.k \in Int /\ DOMAIN e.c \in SUBSET Int
           /\ e.c = [v \in DOMAIN e.c |-> e.c[v]]
           /\ \A v \in DOMAIN e.c : e.c[v] \in Int /\ e.c[v] # 0
<1>1. PICK D \in SUBSET Int : e.c \in [D -> Int \ {0}]
  BY DEF Constraints
<1> QED
  BY <1>1 DEF Constraints

LEMMA CoefFacts ==
    ASSUME NEW e \in Constraints, NEW v \in Int
    PROVE  /\ Coef(e, v) \in Int
           /\ Coef(e, v) # 0 <=> v \in DOMAIN e.c
           /\ v \in DOMAIN e.c => Coef(e, v) = e.c[v]
<1>1. CASE v \in DOMAIN e.c
  BY <1>1, ConstraintFacts DEF Coef
<1>2. CASE v \notin DOMAIN e.c
  BY <1>2 DEF Coef
<1> QED
  BY <1>1, <1>2

\* A constraint is its constant and its coefficients.
LEMMA SameConstraint ==
    ASSUME NEW e \in Constraints, NEW f \in Constraints,
           e.k = f.k, \A v \in Int : Coef(e, v) = Coef(f, v)
    PROVE  e = f
<1>1. DOMAIN e.c = DOMAIN f.c
  <2>1. DOMAIN e.c \in SUBSET Int /\ DOMAIN f.c \in SUBSET Int
    BY ConstraintFacts
  <2>2. \A v \in Int : v \in DOMAIN e.c <=> v \in DOMAIN f.c
    BY CoefFacts
  <2> QED
    BY <2>1, <2>2
<1>2. \A v \in DOMAIN e.c : e.c[v] = f.c[v]
  <2> SUFFICES ASSUME NEW v \in DOMAIN e.c
               PROVE  e.c[v] = f.c[v]
    OBVIOUS
  <2>1. v \in Int /\ v \in DOMAIN f.c
    BY <1>1, ConstraintFacts
  <2>2. Coef(e, v) = e.c[v] /\ Coef(f, v) = f.c[v]
    BY <2>1, CoefFacts
  <2> QED
    BY <2>1, <2>2
<1>3. e.c = f.c
  <2>1. e.c = [v \in DOMAIN e.c |-> e.c[v]] /\ f.c = [v \in DOMAIN f.c |-> f.c[v]]
    BY ConstraintFacts
  <2> QED
    BY <1>1, <1>2, <2>1
<1> QED
  BY <1>3 DEF Constraints

\* What Constraint makes.
LEMMA ConstraintMade ==
    ASSUME NEW k \in Int, NEW D \in SUBSET Int, NEW a \in [D -> Int]
    PROVE  /\ Constraint(k, a) \in Constraints
           /\ Constraint(k, a).k = k
           /\ \A v \in Int : Coef(Constraint(k, a), v) = IF v \in D THEN a[v] ELSE 0
           /\ DOMAIN Constraint(k, a).c \subseteq D
<1> DEFINE E == {v \in D : a[v] # 0}
           c == [v \in E |-> a[v]]
<1>1. Constraint(k, a) = [k |-> k, c |-> c]
  BY DEF Constraint
<1>2. c \in [E -> Int \ {0}] /\ E \in SUBSET Int
  OBVIOUS
<1>3. [k |-> k, c |-> c] \in Constraints
  <2> HIDE DEF c, E
  <2> QED
    BY <1>2 DEF Constraints
<1>4. ASSUME NEW v \in Int
      PROVE  Coef([k |-> k, c |-> c], v) = IF v \in D THEN a[v] ELSE 0
  BY DEF Coef
<1> QED
  BY <1>1, <1>3, <1>4

\* The sum of two constraints, before what is 0 is dropped.
Both(e, f) == DOMAIN e.c \cup DOMAIN f.c
Terms(a, e, b, f) == [v \in Both(e, f) |-> a * Coef(e, v) + b * Coef(f, v)]

LEMMA CombineMade ==
    ASSUME NEW a \in Int, NEW b \in Int, NEW e \in Constraints, NEW f \in Constraints
    PROVE  /\ Both(e, f) \in SUBSET Int /\ a * e.k + b * f.k \in Int
           /\ Terms(a, e, b, f) \in [Both(e, f) -> Int]
           /\ Combine(a, e, b, f) = Constraint(a * e.k + b * f.k, Terms(a, e, b, f))
<1> DEFINE D == DOMAIN e.c \cup DOMAIN f.c
           k == a * e.k + b * f.k
           s == [v \in D |-> a * Coef(e, v) + b * Coef(f, v)]
<1>1. Combine(a, e, b, f) = Constraint(k, s)
  BY DEF Combine, Constraint
<1>2. D \in SUBSET Int
  BY ConstraintFacts
<1>3. k \in Int
  <2>1. e.k \in Int /\ f.k \in Int
    BY DEF Constraints
  <2> QED
    BY <2>1
<1>4. ASSUME NEW v \in D
      PROVE  a * Coef(e, v) + b * Coef(f, v) \in Int
  <2>1. Coef(e, v) \in Int /\ Coef(f, v) \in Int
    BY <1>2, CoefFacts
  <2> QED
    BY <2>1
<1>5. s \in [D -> Int]
  BY <1>4
<1> QED
  BY <1>1, <1>2, <1>3, <1>5 DEF Both, Terms

LEMMA CombineType ==
    ASSUME NEW a \in Int, NEW b \in Int, NEW e \in Constraints, NEW f \in Constraints
    PROVE  Combine(a, e, b, f) \in Constraints
<1> DEFINE D == Both(e, f)
           k == a * e.k + b * f.k
           s == Terms(a, e, b, f)
<1>1. D \in SUBSET Int /\ k \in Int /\ s \in [D -> Int] /\ Combine(a, e, b, f) = Constraint(k, s)
  BY CombineMade
<1> HIDE DEF D, k, s
<1> QED
  BY <1>1, ConstraintMade

LEMMA CombineConstant ==
    ASSUME NEW a \in Int, NEW b \in Int, NEW e \in Constraints, NEW f \in Constraints
    PROVE  Combine(a, e, b, f).k = a * e.k + b * f.k
BY DEF Combine

LEMMA CombineDomain ==
    ASSUME NEW a \in Int, NEW b \in Int, NEW e \in Constraints, NEW f \in Constraints
    PROVE  DOMAIN Combine(a, e, b, f).c \subseteq DOMAIN e.c \cup DOMAIN f.c
BY DEF Combine

LEMMA CombineCoef ==
    ASSUME NEW a \in Int, NEW b \in Int, NEW e \in Constraints, NEW f \in Constraints, NEW v \in Int
    PROVE  Coef(Combine(a, e, b, f), v) = a * Coef(e, v) + b * Coef(f, v)
<1> DEFINE D == Both(e, f)
           k == a * e.k + b * f.k
           s == Terms(a, e, b, f)
<1>1. D \in SUBSET Int /\ k \in Int /\ s \in [D -> Int] /\ Combine(a, e, b, f) = Constraint(k, s)
  BY CombineMade
<1>2. Coef(Combine(a, e, b, f), v) = IF v \in D THEN s[v] ELSE 0
  <2> HIDE DEF D, k, s
  <2>1. D \in SUBSET Int /\ k \in Int /\ s \in [D -> Int]
    BY <1>1
  <2>2. Coef(Constraint(k, s), v) = IF v \in D THEN s[v] ELSE 0
    BY <2>1, ConstraintMade
  <2> QED
    BY <1>1, <2>2
<1>3. CASE v \in D
  <2>1. s[v] = a * Coef(e, v) + b * Coef(f, v)
    BY <1>3 DEF Terms
  <2> QED
    BY <1>2, <1>3, <2>1
<1>4. CASE v \notin D
  <2>1. Coef(e, v) = 0 /\ Coef(f, v) = 0
    BY <1>4 DEF Coef, Both
  <2>2. a * Coef(e, v) + b * Coef(f, v) = 0
    BY <2>1
  <2> QED
    BY <1>2, <1>4, <2>2
<1> QED
  BY <1>3, <1>4

LEMMA CombineOver ==
    ASSUME NEW V, NEW a \in Int, NEW b \in Int, NEW e \in Over(V), NEW f \in Over(V)
    PROVE  Combine(a, e, b, f) \in Over(V)
<1>1. e \in Constraints /\ f \in Constraints
  BY DEF Over
<1>2. /\ Combine(a, e, b, f) \in Constraints
      /\ DOMAIN Combine(a, e, b, f).c \subseteq DOMAIN e.c \cup DOMAIN f.c
  BY <1>1, CombineType, CombineDomain
<1> QED
  BY <1>2 DEF Over

\* k >= 0
Number(k) == [k |-> k, c |-> [v \in {} |-> 0]]

LEMMA NumberFacts ==
    ASSUME NEW k \in Int
    PROVE  /\ Number(k) \in Constraints /\ Number(k).k = k /\ Constant(Number(k))
           /\ \A v \in Int : Coef(Number(k), v) = 0
<1>1. [v \in {} |-> 0] \in [{} -> Int \ {0}]
  OBVIOUS
<1> QED
  BY <1>1 DEF Number, Constraints, Constant, Coef

LEMMA UnitFacts ==
    ASSUME NEW v \in Int
    PROVE  /\ Unit(v) \in Constraints /\ Unit(v).k = 0
           /\ \A w \in Int : Coef(Unit(v), w) = IF w = v THEN 1 ELSE 0
           /\ DOMAIN Unit(v).c = {v}
<1>1. [w \in {v} |-> 1] \in [{v} -> Int \ {0}] /\ {v} \in SUBSET Int
  OBVIOUS
<1>2. Unit(v).k = 0 /\ DOMAIN Unit(v).c = {v}
  BY DEF Unit
<1> DEFINE c == [w \in {v} |-> 1]
<1>4. c \in UNION {[D -> Int \ {0}] : D \in SUBSET Int} /\ Unit(v) = [k |-> 0, c |-> c]
  BY <1>1 DEF Unit
<1> HIDE DEF c
<1>5. Unit(v) \in Constraints
  BY <1>4 DEF Constraints
<1>3. ASSUME NEW w \in Int
      PROVE  Coef(Unit(v), w) = IF w = v THEN 1 ELSE 0
  BY DEF Unit, Coef
<1> QED
  BY <1>2, <1>3, <1>5

\* A constraint with another constant.
LEMMA MovedFacts ==
    ASSUME NEW e \in Constraints, NEW n \in Int
    PROVE  /\ [e EXCEPT !.k = n] \in Constraints
           /\ [e EXCEPT !.k = n].k = n
           /\ [e EXCEPT !.k = n].c = e.c
           /\ \A v \in Int : Coef([e EXCEPT !.k = n], v) = Coef(e, v)
           /\ [e EXCEPT !.k = n] = Combine(1, e, 1, Number(n - e.k))
<1> DEFINE f == [e EXCEPT !.k = n]
<1>1. f = [k |-> n, c |-> e.c] /\ e.k \in Int
  BY DEF Constraints
<1>2. f \in Constraints /\ f.k = n /\ f.c = e.c
  BY <1>1 DEF Constraints
<1>3. \A v \in Int : Coef(f, v) = Coef(e, v)
  BY <1>2 DEF Coef
<1> DEFINE d == Number(n - e.k)
           g == Combine(1, e, 1, d)
<1>4. d \in Constraints /\ d.k = n - e.k /\ \A v \in Int : Coef(d, v) = 0
  <2>1. n - e.k \in Int
    BY <1>1
  <2> QED
    BY <2>1, NumberFacts
<1> HIDE DEF d
<1>5. g \in Constraints
  BY <1>4, CombineType
<1>9. g.k = 1 * e.k + 1 * d.k
  <2>1. d \in Constraints
    BY <1>4
  <2> QED
    BY <2>1, CombineConstant
<1>6. ASSUME NEW v \in Int
      PROVE  Coef(g, v) = Coef(f, v)
  <2>1. Coef(g, v) = 1 * Coef(e, v) + 1 * Coef(d, v)
    BY <1>4, CombineCoef
  <2>2. Coef(d, v) = 0 /\ Coef(e, v) \in Int
    BY <1>4, CoefFacts
  <2>3. Coef(g, v) = Coef(e, v)
    BY <2>1, <2>2
  <2> QED
    BY <1>3, <2>3
<1> HIDE DEF f, g
<1>7. g.k = n
  BY <1>1, <1>4, <1>9
<1>8. f = g
  BY <1>2, <1>5, <1>6, <1>7, SameConstraint
<1> QED
  BY <1>2, <1>3, <1>8 DEF f, g, d

-----------------------------------------------------------------------------
(* Points.  A point is the value it gives to every constraint; it respects   *)
(* sums.  So the points need no variables, and a new variable gets a value   *)
(* without a point being extended.                                           *)

Linear(F) ==
    /\ F \in [Constraints -> Int]
    /\ \A e \in Constraints : Constant(e) => F[e] = e.k
    /\ \A a, b \in Int, e, f \in Constraints :
         F[Combine(a, e, b, f)] = a * F[e] + b * F[f]

LinearPoints == {F \in [Constraints -> Int] : Linear(F)}

Solves(F, p) ==
    /\ Linear(F)
    /\ \A e \in p.geqs : F[e] >= 0
    /\ \A q \in p.eqs : F[q] = 0

\* F and G give the variables in V the same values.
Agree(F, G, V) == \A e \in Over(V) : F[e] = G[e]

LEMMA LinearSum ==
    ASSUME NEW F, Linear(F), NEW a \in Int, NEW b \in Int,
           NEW e \in Constraints, NEW f \in Constraints
    PROVE  F[Combine(a, e, b, f)] = a * F[e] + b * F[f]
BY DEF Linear

LEMMA LinearStep ==
    ASSUME NEW F, Linear(F), NEW b \in Int,
           NEW e \in Constraints, NEW f \in Constraints
    PROVE  F[Combine(1, e, b, f)] = F[e] + b * F[f]
<1>1. \A a \in Int : F[Combine(a, e, b, f)] = a * F[e] + b * F[f]
  BY LinearSum
<1>2. F[e] \in Int /\ F[f] \in Int
  BY DEF Linear
<1>3. F[Combine(1, e, b, f)] = 1 * F[e] + b * F[f]
  BY <1>1
<1> QED
  BY <1>2, <1>3

LEMMA LinearValue ==
    ASSUME NEW F, Linear(F), NEW e \in Constraints
    PROVE  /\ F[e] \in Int
           /\ Constant(e) => F[e] = e.k
BY DEF Linear

LEMMA ValueMoved ==
    ASSUME NEW F, Linear(F), NEW e \in Constraints, NEW n \in Int
    PROVE  F[[e EXCEPT !.k = n]] = F[e] + n - e.k
<1> DEFINE d == Number(n - e.k)
<1>1. n - e.k \in Int /\ e.k \in Int
  BY DEF Constraints
<1>2. d \in Constraints /\ Constant(d) /\ d.k = n - e.k
  BY <1>1, NumberFacts
<1>3. [e EXCEPT !.k = n] = Combine(1, e, 1, d)
  BY MovedFacts
<1> HIDE DEF d
<1>4. F[Combine(1, e, 1, d)] = 1 * F[e] + 1 * F[d]
  BY <1>2, LinearSum
<1>5. F[d] = n - e.k /\ F[e] \in Int
  BY <1>2, LinearValue
<1> QED
  BY <1>1, <1>3, <1>4, <1>5

-----------------------------------------------------------------------------
(* normalize and solveEQ: dividing by the common factor. *)

LEMMA CoefGcdFacts ==
    ASSUME NEW e \in Constraints, ~Constant(e)
    PROVE  /\ CoefGcd(e) \in Int /\ CoefGcd(e) > 0
           /\ \A v \in DOMAIN e.c : Divides(CoefGcd(e), e.c[v])
<1> DEFINE S == {e.c[v] : v \in DOMAIN e.c}
<1>1. S \in SUBSET Int
  BY ConstraintFacts
<1>2. PICK v \in DOMAIN e.c : TRUE
  BY DEF Constant
<1>3. e.c[v] \in S /\ e.c[v] # 0
  BY ConstraintFacts
<1>4. \A w \in DOMAIN e.c : e.c[w] \in S
  OBVIOUS
<1>5. CoefGcd(e) = Gcd(S)
  BY DEF CoefGcd
<1> HIDE DEF S
<1> QED
  BY <1>1, <1>3, <1>4, <1>5, GcdFacts

LEMMA TightenFacts ==
    ASSUME NEW e \in Constraints, ~Constant(e)
    PROVE  /\ Tighten(e) \in Constraints /\ DOMAIN Tighten(e).c = DOMAIN e.c
           /\ Tighten(e).k = e.k \div CoefGcd(e)
           /\ \A v \in Int : Coef(e, v) = CoefGcd(e) * Coef(Tighten(e), v)
<1> DEFINE g == CoefGcd(e)
           c == [v \in DOMAIN e.c |-> e.c[v] \div g]
           t == Tighten(e)
<1>1. g \in Int /\ g > 0 /\ \A v \in DOMAIN e.c : Divides(g, e.c[v])
  BY CoefGcdFacts
<1>2. t = [k |-> e.k \div g, c |-> c]
  BY DEF Tighten
<1> HIDE DEF g, t
<1>3. ASSUME NEW v \in DOMAIN e.c
      PROVE  e.c[v] \div g \in Int \ {0} /\ e.c[v] = g * (e.c[v] \div g)
  <2>1. e.c[v] \in Int /\ e.c[v] # 0
    BY ConstraintFacts
  <2>2. e.c[v] = g * (e.c[v] \div g)
    BY <1>1, <2>1, DividesMod
  <2>3. e.c[v] \div g \in Int
    BY <1>1, <2>1, DivMod
  <2>4. g * 0 = 0
    BY <1>1
  <2> QED
    BY <2>1, <2>2, <2>3, <2>4
<1>4. c \in [DOMAIN e.c -> Int \ {0}] /\ DOMAIN e.c \in SUBSET Int
  BY <1>3, ConstraintFacts
<1>5. e.k \div g \in Int
  <2>1. e.k \in Int
    BY DEF Constraints
  <2> QED
    BY <1>1, <2>1, DivMod
<1>6. t \in Constraints
  <2> HIDE DEF c
  <2> QED
    BY <1>2, <1>4, <1>5 DEF Constraints
<1>7. ASSUME NEW v \in Int
      PROVE  Coef(e, v) = g * Coef(t, v)
  <2>1. CASE v \in DOMAIN e.c
    <3>1. Coef(e, v) = e.c[v] /\ Coef(t, v) = e.c[v] \div g
      BY <1>2, <2>1 DEF Coef
    <3> QED
      BY <1>3, <2>1, <3>1
  <2>2. CASE v \notin DOMAIN e.c
    <3>1. Coef(e, v) = 0 /\ Coef(t, v) = 0
      BY <1>2, <2>2 DEF Coef
    <3> QED
      BY <1>1, <3>1
  <2> QED
    BY <2>1, <2>2
<1> QED
  BY <1>2, <1>6, <1>7 DEF g, t

LEMMA TightenValue ==
    ASSUME NEW F, Linear(F), NEW e \in Constraints, ~Constant(e)
    PROVE  /\ CoefGcd(e) \in Int /\ CoefGcd(e) > 0 /\ F[Tighten(e)] \in Int
           /\ F[e] = CoefGcd(e) * F[Tighten(e)] + (e.k % CoefGcd(e))
<1> DEFINE g == CoefGcd(e)
           t == Tighten(e)
           r == e.k % g
           n == Number(r)
           f == Combine(g, t, 1, n)
<1>1. g \in Int /\ g > 0
  BY CoefGcdFacts
<1>2. /\ t \in Constraints /\ t.k = e.k \div g
      /\ \A v \in Int : Coef(e, v) = g * Coef(t, v)
  BY TightenFacts
<1> HIDE DEF g, t
<1>3. r \in Int /\ e.k = g * t.k + r /\ e.k \in Int
  <2>1. e.k \in Int
    BY DEF Constraints
  <2> QED
    BY <1>1, <1>2, <2>1, DivMod
<1> HIDE DEF r
<1>4. n \in Constraints /\ n.k = r /\ Constant(n) /\ \A v \in Int : Coef(n, v) = 0
  BY <1>3, NumberFacts
<1> HIDE DEF n
<1>5. f \in Constraints
  BY <1>1, <1>2, <1>4, CombineType
<1>6. f.k = g * t.k + 1 * n.k
  BY DEF Combine
<1>7. f.k = e.k
  <2>1. t.k \in Int
    BY <1>2 DEF Constraints
  <2> QED
    BY <1>1, <1>3, <1>4, <1>6, <2>1
<1>8. ASSUME NEW v \in Int
      PROVE  Coef(f, v) = Coef(e, v)
  <2>1. Coef(f, v) = g * Coef(t, v) + 1 * Coef(n, v)
    BY <1>1, <1>2, <1>4, CombineCoef
  <2>2. Coef(n, v) = 0 /\ Coef(t, v) \in Int
    BY <1>2, <1>4, CoefFacts
  <2>3. Coef(e, v) = g * Coef(t, v)
    BY <1>2
  <2> QED
    BY <1>1, <2>1, <2>2, <2>3
<1>9. f = e
  <2> HIDE DEF f
  <2> QED
    BY <1>5, <1>7, <1>8, SameConstraint
<1>10. F[f] = g * F[t] + 1 * F[n]
  <2>1. t \in Constraints /\ n \in Constraints /\ 1 \in Int
    BY <1>2, <1>4
  <2> QED
    BY <1>1, <2>1 DEF Linear
<1>11. F[n] = r /\ F[t] \in Int
  BY <1>2, <1>4, LinearValue
<1>12. F[e] = g * F[t] + r
  BY <1>1, <1>3, <1>9, <1>10, <1>11
<1> QED
  BY <1>1, <1>11, <1>12 DEF g, t, r

\* Rounding the constant down loses no integer point.
LEMMA TightenKeeps ==
    ASSUME NEW F, Linear(F), NEW e \in Constraints, F[e] >= 0
    PROVE  F[Tighten(e)] >= 0
<1>1. CASE Constant(e)
  BY <1>1 DEF Tighten
<1>2. CASE ~Constant(e)
  <2> DEFINE g == CoefGcd(e)
             s == F[Tighten(e)]
  <2>1. g \in Int /\ g > 0 /\ s \in Int /\ F[e] = g * s + (e.k % g)
    BY <1>2, TightenValue
  <2>2. e.k \in Int
    BY DEF Constraints
  <2> HIDE DEF g, s
  <2>3. (e.k % g) \in Int /\ (e.k % g) < g
    BY <2>1, <2>2, DivMod
  <2>4. g * s > -g
    BY <2>1, <2>3
  <2>5. s >= 0
    BY <2>1, <2>4, NoneBetween
  <2> QED
    BY <2>5 DEF s
<1> QED
  BY <1>1, <1>2

LEMMA TightenType ==
    ASSUME NEW V, NEW e \in Over(V)
    PROVE  Tighten(e) \in Over(V)
<1>1. CASE Constant(e)
  BY <1>1 DEF Tighten
<1>2. CASE ~Constant(e)
  BY <1>2, TightenFacts DEF Over
<1> QED
  BY <1>1, <1>2

\* An equality that a point satisfies is not found to have no solution.
LEMMA TightenZero ==
    ASSUME NEW F, Linear(F), NEW e \in Constraints, F[e] = 0
    PROVE  /\ ~NoIntegerSolution(e)
           /\ F[Tighten(e)] = 0
<1>1. CASE Constant(e)
  BY <1>1, LinearValue DEF Tighten, NoIntegerSolution
<1>2. CASE ~Constant(e)
  <2> DEFINE g == CoefGcd(e)
             s == F[Tighten(e)]
             r == e.k % g
  <2>1. g \in Int /\ g > 0 /\ s \in Int /\ 0 = g * s + r
    BY <1>2, TightenValue
  <2>2. e.k \in Int
    BY DEF Constraints
  <2> HIDE DEF g, s
  <2>3. r \in Int /\ 0 <= r /\ r < g
    BY <2>1, <2>2, DivMod
  <2> HIDE DEF r
  <2>4. g * s > -g
    BY <2>1, <2>3
  <2>5. s >= 0
    BY <2>1, <2>4, NoneBetween
  <2>6. g * (-s) > -g /\ -s \in Int
    <3>1. g * (-s) = -(g * s)
      BY <2>1
    <3> QED
      BY <2>1, <2>3, <3>1
  <2>7. -s >= 0
    BY <2>1, <2>6, NoneBetween
  <2>8. s = 0
    BY <2>1, <2>5, <2>7
  <2>9. r = 0
    BY <2>1, <2>3, <2>8
  <2> QED
    BY <1>2, <2>8, <2>9 DEF NoIntegerSolution, g, s, r
<1> QED
  BY <1>1, <1>2

LEMMA NoCoef ==
    ASSUME NEW e \in Constraints, \A v \in Int : Coef(e, v) = 0
    PROVE  Constant(e)
BY ConstraintFacts DEF Constant, Coef

\* Two opposite constraints add up to their constants.
LEMMA OppositeSum ==
    ASSUME NEW F, Linear(F), NEW e \in Constraints, NEW f \in Constraints, Opposite(e, f)
    PROVE  F[e] + F[f] = e.k + f.k
<1> DEFINE s == Combine(1, e, 1, f)
<1>1. s \in Constraints
  BY CombineType
<1>2. ASSUME NEW v \in Int
      PROVE  Coef(s, v) = 0
  <2>1. Coef(s, v) = 1 * Coef(e, v) + 1 * Coef(f, v)
    BY CombineCoef
  <2>2. Coef(e, v) \in Int /\ Coef(f, v) \in Int
    BY CoefFacts
  <2>3. Coef(e, v) + Coef(f, v) = 0
    <3>1. CASE v \in DOMAIN e.c
      <4>1. Coef(e, v) = -Coef(f, v)
        BY <3>1 DEF Opposite, Coef
      <4> QED
        BY <2>2, <4>1
    <3>2. CASE v \notin DOMAIN e.c
      <4>1. Coef(e, v) = 0 /\ Coef(f, v) = 0
        BY <3>2 DEF Opposite, Coef
      <4> QED
        BY <4>1
    <3> QED
      BY <3>1, <3>2
  <2> QED
    BY <2>1, <2>2, <2>3
<1>3. F[s] = s.k
  <2> HIDE DEF s
  <2> QED
    BY <1>1, <1>2, NoCoef, LinearValue
<1>4. F[s] = 1 * F[e] + 1 * F[f]
  BY LinearSum
<1>5. s.k = 1 * e.k + 1 * f.k
  BY DEF Combine
<1>6. F[e] \in Int /\ F[f] \in Int /\ e.k \in Int /\ f.k \in Int
  BY LinearValue DEF Constraints
<1> QED
  BY <1>3, <1>4, <1>5, <1>6

\* normalize is right at every point of the problem.
LEMMA NormalizeRight ==
    ASSUME NEW F, Linear(F), NEW V, NEW G \in SUBSET Over(V), \A e \in G : F[e] >= 0
    PROVE  /\ ~Contradictory(G)
           /\ Tightest(G) \in SUBSET Over(V) /\ \A e \in Tightest(G) : F[e] >= 0
           /\ Squeezed(G) \in SUBSET Over(V) /\ \A q \in Squeezed(G) : F[q] = 0
<1> DEFINE T == {Tighten(e) : e \in G}
<1>1. ASSUME NEW t \in T
      PROVE  t \in Over(V) /\ t \in Constraints /\ F[t] \in Int /\ F[t] >= 0
  <2>1. PICK e \in G : t = Tighten(e)
    OBVIOUS
  <2>2. e \in Constraints /\ e \in Over(V)
    BY DEF Over
  <2>3. t \in Over(V) /\ F[t] >= 0
    BY <2>1, <2>2, TightenType, TightenKeeps
  <2>4. t \in Constraints
    BY <2>3 DEF Over
  <2> QED
    BY <2>3, <2>4, LinearValue
<1>2. ~Contradictory(G)
  <2>1. ASSUME NEW t \in T, Constant(t), t.k < 0
        PROVE  FALSE
    BY <1>1, <2>1, LinearValue
  <2>2. ASSUME NEW t \in T, NEW u \in T, t.k + u.k < 0, Opposite(t, u)
        PROVE  FALSE
    <3>1. F[t] + F[u] = t.k + u.k
      BY <1>1, <2>2, OppositeSum
    <3>2. F[t] \in Int /\ F[u] \in Int /\ F[t] >= 0 /\ F[u] >= 0
      BY <1>1
    <3> QED
      BY <2>2, <3>1, <3>2
  <2> HIDE DEF T
  <2> QED
    BY <2>1, <2>2 DEF Contradictory, T
<1>3. Tightest(G) \subseteq T
  BY DEF Tightest
<1>4. ASSUME NEW q \in Squeezed(G)
      PROVE  q \in T /\ F[q] = 0
  <2>1. PICK f \in Tightest(G) : q.k = -f.k /\ Opposite(q, f)
    BY DEF Squeezed
  <2>2. q \in T /\ f \in T
    BY <1>3 DEF Squeezed
  <2>3. F[q] + F[f] = q.k + f.k
    BY <1>1, <2>1, <2>2, OppositeSum
  <2>4. F[q] \in Int /\ F[f] \in Int /\ F[q] >= 0 /\ F[f] >= 0
    BY <1>1, <2>2
  <2>5. f.k \in Int
    BY <1>1, <2>2 DEF Constraints
  <2> QED
    BY <2>1, <2>2, <2>3, <2>4, <2>5
<1> HIDE DEF T
<1> QED
  BY <1>1, <1>2, <1>3, <1>4

\* So is what solveEQ says of an equality.
LEMMA NoSolutionRight ==
    ASSUME NEW F, NEW p, Solves(F, p), p.eqs \subseteq Constraints
    PROVE  \A q \in p.eqs : ~NoIntegerSolution(q)
BY TightenZero DEF Solves

-----------------------------------------------------------------------------
(* substitute: an equality is used to eliminate a variable. *)

LEMMA SubstitutedRight ==
    ASSUME NEW F, Linear(F), NEW e \in Constraints, NEW q \in Constraints, F[q] = 0,
           NEW i \in Int
    PROVE  Substituted(e, q, i) \in Constraints /\ F[Substituted(e, q, i)] = F[e]
<1> DEFINE b == -Coef(e, i) * Coef(q, i)
<1>1. Coef(e, i) \in Int /\ Coef(q, i) \in Int
  BY CoefFacts
<1>2. b \in Int
  BY <1>1
<1>3. Substituted(e, q, i) = Combine(1, e, b, q)
  BY DEF Substituted
<1> HIDE DEF b
<1>4. Combine(1, e, b, q) \in Constraints
  BY <1>2, CombineType
<1>5. F[Combine(1, e, b, q)] = F[e] + b * F[q]
  BY <1>2, LinearStep
<1>6. F[e] \in Int
  BY LinearValue
<1> QED
  BY <1>2, <1>3, <1>4, <1>5, <1>6

\* i is gone if its coefficient in q is 1 or -1.
LEMMA SubstitutedOver ==
    ASSUME NEW V, NEW i \in V, NEW e \in Over(V), NEW q \in Over(V),
           Coef(q, i) = 1 \/ Coef(q, i) = -1, i \in Int
    PROVE  Substituted(e, q, i) \in Over(V \ {i})
<1> DEFINE s == Substituted(e, q, i)
           b == -Coef(e, i) * Coef(q, i)
<1>1. e \in Constraints /\ q \in Constraints
  BY DEF Over
<1>2. Coef(e, i) \in Int
  BY <1>1, CoefFacts
<1>3. b \in Int
  BY <1>2
<1>4. s = Combine(1, e, b, q)
  BY DEF Substituted
<1>5. Combine(1, e, b, q) \in Over(V)
  <2> HIDE DEF b
  <2> QED
    BY <1>3, CombineOver
<1>6. Coef(s, i) = 1 * Coef(e, i) + b * Coef(q, i)
  <2> HIDE DEF b
  <2> QED
    BY <1>1, <1>3, <1>4, CombineCoef
<1>7. Coef(s, i) = 0
  <2>1. CASE Coef(q, i) = 1
    BY <1>2, <1>6, <2>1
  <2>2. CASE Coef(q, i) = -1
    BY <1>2, <1>6, <2>2
  <2> QED
    BY <2>1, <2>2
<1> HIDE DEF s
<1>8. s \in Over(V) /\ s \in Constraints
  BY <1>4, <1>5 DEF Over
<1>9. i \notin DOMAIN s.c
  BY <1>7, <1>8, CoefFacts
<1>10. s \in Over(V \ {i})
  BY <1>8, <1>9 DEF Over
<1> QED
  BY <1>10 DEF s

\* A problem, and what it may speak of.
ProblemSet == [vars : SUBSET Int, eqs : SUBSET Constraints, geqs : SUBSET Constraints,
               freed : BOOLEAN]

ProblemOK(p) ==
    /\ p \in ProblemSet
    /\ p.eqs \subseteq Over(p.vars) /\ p.geqs \subseteq Over(p.vars)
    /\ IsFiniteSet(p.geqs)

\* An elimination of i by q within V, and what it leaves.
MayEliminate(p, V, Q, q, i) ==
    /\ V \in SUBSET Int /\ i \in V /\ p \in ProblemSet /\ IsFiniteSet(p.geqs)
    /\ p.eqs \subseteq Over(V) /\ p.geqs \subseteq Over(V) /\ Q \subseteq p.eqs
    /\ q \in Over(V) /\ (Coef(q, i) = 1 \/ Coef(q, i) = -1)

HasEliminated(r, p, V, i) ==
    /\ r \in ProblemSet /\ IsFiniteSet(r.geqs)
    /\ r.vars = p.vars \ {i} /\ r.freed = p.freed
    /\ r.eqs \subseteq Over(V \ {i}) /\ r.geqs \subseteq Over(V \ {i})

LEMMA EliminatedFacts ==
    ASSUME NEW p, NEW V, NEW Q, NEW q, NEW i, MayEliminate(p, V, Q, q, i)
    PROVE  HasEliminated(Eliminated(p, Q, q, i), p, V, i)
<1> USE DEF MayEliminate
<1> DEFINE r == Eliminated(p, Q, q, i)
           E == {Substituted(e, q, i) : e \in Q}
           G == {Substituted(e, q, i) : e \in p.geqs}
<1>1. r = [p EXCEPT !.vars = p.vars \ {i}, !.eqs = E, !.geqs = G]
  BY DEF Eliminated, ProblemSet
<1>2. \A e \in Over(V) : Substituted(e, q, i) \in Over(V \ {i})
  BY SubstitutedOver
<1>3. E \subseteq Over(V \ {i}) /\ G \subseteq Over(V \ {i})
  BY <1>2
<1>4. E \subseteq Constraints /\ G \subseteq Constraints
  BY <1>3 DEF Over
<1>7. IsFiniteSet(G)
  <2> DEFINE s == [e \in p.geqs |-> Substituted(e, q, i)]
  <2>1. s = [e \in p.geqs |-> s[e]] /\ G = {s[e] : e \in p.geqs}
    OBVIOUS
  <2> HIDE DEF s
  <2> QED
    BY <2>1, FiniteImage
<1> HIDE DEF E, G, r
<1>5. r.vars = p.vars \ {i} /\ r.freed = p.freed /\ r.eqs = E /\ r.geqs = G
  BY <1>1 DEF ProblemSet
<1>6. r \in ProblemSet
  BY <1>1, <1>4 DEF ProblemSet
<1> QED
  BY <1>3, <1>5, <1>6, <1>7 DEF HasEliminated, r

LEMMA EliminatedSolved ==
    ASSUME NEW F, Linear(F), NEW p \in ProblemSet, \A e \in p.geqs : F[e] >= 0,
           NEW Q \in SUBSET p.eqs, \A e \in Q : F[e] = 0,
           NEW q \in Constraints, F[q] = 0, NEW i \in Int
    PROVE  Solves(F, Eliminated(p, Q, q, i))
<1> DEFINE r == Eliminated(p, Q, q, i)
<1>1. r.eqs = {Substituted(e, q, i) : e \in Q} /\ r.geqs = {Substituted(e, q, i) : e \in p.geqs}
  BY DEF Eliminated, ProblemSet
<1>2. p.eqs \subseteq Constraints /\ p.geqs \subseteq Constraints
  BY DEF ProblemSet
<1>3. \A e \in Constraints : F[Substituted(e, q, i)] = F[e]
  BY SubstitutedRight
<1>4. \A e \in r.geqs : F[e] >= 0
  BY <1>1, <1>2, <1>3
<1>5. \A e \in r.eqs : F[e] = 0
  BY <1>1, <1>2, <1>3
<1> QED
  BY <1>4, <1>5 DEF Solves

-----------------------------------------------------------------------------
(* doMod: the new variable gets the value that makes the new equality hold. *)

\* What a point becomes when the variable v gets d more.
Shifted(F, v, d) == [e \in Constraints |-> F[e] + Coef(e, v) * d]

LEMMA ShiftLinear ==
    ASSUME NEW F, Linear(F), NEW v \in Int, NEW d \in Int
    PROVE  Linear(Shifted(F, v, d))
<1> DEFINE H == Shifted(F, v, d)
<1>1. ASSUME NEW e \in Constraints
      PROVE  H[e] = F[e] + Coef(e, v) * d /\ H[e] \in Int /\ F[e] \in Int /\ Coef(e, v) \in Int
  <2>1. H[e] = F[e] + Coef(e, v) * d
    BY DEF Shifted
  <2>2. F[e] \in Int /\ Coef(e, v) \in Int
    BY LinearValue, CoefFacts
  <2> QED
    BY <2>1, <2>2
<1>2. H = [e \in Constraints |-> H[e]]
  BY DEF Shifted
<1> HIDE DEF H
<1>3. H \in [Constraints -> Int]
  BY <1>1, <1>2
<1>4. ASSUME NEW e \in Constraints, Constant(e)
      PROVE  H[e] = e.k
  <2>1. Coef(e, v) = 0
    BY <1>4 DEF Constant, Coef
  <2>2. F[e] = e.k
    BY <1>4, LinearValue
  <2>3. H[e] = F[e] + 0 * d
    BY <1>1, <2>1
  <2> QED
    BY <1>1, <2>2, <2>3
<1>5. ASSUME NEW a \in Int, NEW b \in Int, NEW e \in Constraints, NEW f \in Constraints
      PROVE  H[Combine(a, e, b, f)] = a * H[e] + b * H[f]
  <2> DEFINE s == Combine(a, e, b, f)
  <2>1. s \in Constraints
    BY CombineType
  <2>2. F[s] = a * F[e] + b * F[f]
    BY DEF Linear
  <2>7. Coef(s, v) = a * Coef(e, v) + b * Coef(f, v)
    BY CombineCoef
  <2> HIDE DEF s
  <2>3. H[s] = F[s] + Coef(s, v) * d
    BY <1>1, <2>1
  <2>4. /\ H[e] = F[e] + Coef(e, v) * d /\ H[f] = F[f] + Coef(f, v) * d
        /\ F[e] \in Int /\ F[f] \in Int /\ Coef(e, v) \in Int /\ Coef(f, v) \in Int
    BY <1>1
  <2>5. \A x, y, z, w \in Int :
          (a * x + b * y) + (a * z + b * w) * d = a * (x + z * d) + b * (y + w * d)
    OBVIOUS
  <2>6. H[s] = a * H[e] + b * H[f]
    BY <2>2, <2>3, <2>4, <2>5, <2>7
  <2> QED
    BY <2>6 DEF s
<1>6. Linear(H)
  BY <1>3, <1>4, <1>5 DEF Linear
<1> QED
  BY <1>6 DEF H

LEMMA ShiftAgrees ==
    ASSUME NEW F, Linear(F), NEW v \in Int, NEW d \in Int, NEW V, v \notin V
    PROVE  Agree(F, Shifted(F, v, d), V)
<1> SUFFICES ASSUME NEW e \in Over(V)
             PROVE  F[e] = Shifted(F, v, d)[e]
  BY DEF Agree
<1>1. e \in Constraints /\ Coef(e, v) = 0
  BY DEF Over, Coef
<1>2. Shifted(F, v, d)[e] = F[e] + 0 * d
  BY <1>1 DEF Shifted
<1>3. F[e] \in Int
  BY <1>1, LinearValue
<1> QED
  BY <1>2, <1>3

\* int_mod_hat
LEMMA ModHatFacts ==
    ASSUME NEW a \in Int, NEW m \in Int, m > 2
    PROVE  /\ ModHat(a, m) \in Int
           /\ Divides(m, a - ModHat(a, m))
           /\ a = m - 1 => ModHat(a, m) = -1
           /\ a = -(m - 1) => ModHat(a, m) = 1
<1> DEFINE r == a % m
           q == a \div m
<1>1. r \in Int /\ q \in Int /\ 0 <= r /\ r < m /\ a = m * q + r
  BY DivMod
<1>2. ModHat(a, m) = IF r > m - r THEN r - m ELSE r
  BY DEF ModHat
<1>3. a = m - 1 => r = m - 1
  OBVIOUS
<1>4. a = -(m - 1) => r = 1
  OBVIOUS
<1> HIDE DEF r, q
<1>5. CASE r > m - r
  <2>1. ModHat(a, m) = r - m
    BY <1>2, <1>5
  <2>2. a - (r - m) = m * (q + 1) /\ q + 1 \in Int
    BY <1>1
  <2>3. Divides(m, a - ModHat(a, m))
    BY <2>1, <2>2 DEF Divides
  <2>4. ModHat(a, m) \in Int
    BY <1>1, <2>1
  <2>5. a = m - 1 => ModHat(a, m) = -1
    BY <1>3, <2>1
  <2>6. ~ (a = -(m - 1))
    BY <1>4, <1>5
  <2> QED
    BY <2>3, <2>4, <2>5, <2>6
<1>6. CASE ~ (r > m - r)
  <2>1. ModHat(a, m) = r
    BY <1>2, <1>6
  <2>2. a - r = m * q
    BY <1>1
  <2>3. Divides(m, a - ModHat(a, m))
    BY <1>1, <2>1, <2>2 DEF Divides
  <2>4. ModHat(a, m) \in Int
    BY <1>1, <2>1
  <2>5. ~ (a = m - 1)
    BY <1>3, <1>6
  <2>6. a = -(m - 1) => ModHat(a, m) = 1
    BY <1>4, <2>1
  <2> QED
    BY <2>3, <2>4, <2>5, <2>6
<1> QED
  BY <1>5, <1>6
\* What int_mod_hat takes away, divided.
Quotient(q, m) ==
    Constraint((q.k - ModHat(q.k, m)) \div m,
               [v \in DOMAIN q.c |-> (q.c[v] - ModHat(q.c[v], m)) \div m])

LEMMA ModHatQuotient ==
    ASSUME NEW a \in Int, NEW m \in Int, m > 2
    PROVE  /\ ModHat(a, m) \in Int
           /\ (a - ModHat(a, m)) \div m \in Int
           /\ ModHat(a, m) = a - m * ((a - ModHat(a, m)) \div m)
<1> DEFINE x == a - ModHat(a, m)
<1>1. ModHat(a, m) \in Int /\ Divides(m, x)
  BY ModHatFacts
<1>2. x \in Int
  BY <1>1
<1>3. x = m * (x \div m) /\ x \div m \in Int
  <2> HIDE DEF x
  <2> QED
    BY <1>1, <1>2, DividesMod, DivMod
<1>4. ModHat(a, m) = a - m * (x \div m)
  BY <1>1, <1>3
<1> QED
  BY <1>1, <1>3, <1>4

LEMMA HatFacts ==
    ASSUME NEW V, NEW q \in Over(V), NEW m \in Int, m > 2
    PROVE  /\ Hat(q, m) \in Over(V) /\ Quotient(q, m) \in Over(V)
           /\ Hat(q, m) = Combine(1, q, -m, Quotient(q, m))
           /\ \A v \in DOMAIN q.c : Coef(Hat(q, m), v) = ModHat(q.c[v], m)
<1> DEFINE D == DOMAIN q.c
           k == ModHat(q.k, m)
           a == [v \in D |-> ModHat(q.c[v], m)]
           l == (q.k - k) \div m
           b == [v \in D |-> (q.c[v] - ModHat(q.c[v], m)) \div m]
           h == Hat(q, m)
           w == Quotient(q, m)
           f == Combine(1, q, -m, w)
<1>1. q \in Constraints /\ D \in SUBSET Int /\ D \subseteq V /\ q.k \in Int
  BY ConstraintFacts DEF Over
<1>2. \A v \in D : q.c[v] \in Int
  BY <1>1, ConstraintFacts
<1>3. h = Constraint(k, a) /\ w = Constraint(l, b)
  BY DEF Hat, Quotient
<1>4. k \in Int /\ l \in Int /\ k = q.k - m * l
  BY <1>1, ModHatQuotient
<1>5. a \in [D -> Int]
  BY <1>2, ModHatQuotient
<1>6. b \in [D -> Int]
  BY <1>2, ModHatQuotient
<1>7. \A v \in D : a[v] = q.c[v] - m * b[v]
  BY <1>2, ModHatQuotient
<1>8. \A v \in D : a[v] = ModHat(q.c[v], m)
  OBVIOUS
<1> HIDE DEF h, w, k, l, a, b, D
<1>9. /\ h \in Constraints /\ h.k = k /\ DOMAIN h.c \subseteq D
      /\ \A v \in Int : Coef(h, v) = IF v \in D THEN a[v] ELSE 0
  BY <1>1, <1>3, <1>4, <1>5, ConstraintMade
<1>10. /\ w \in Constraints /\ w.k = l /\ DOMAIN w.c \subseteq D
       /\ \A v \in Int : Coef(w, v) = IF v \in D THEN b[v] ELSE 0
  BY <1>1, <1>3, <1>4, <1>6, ConstraintMade
<1>11. h \in Over(V) /\ w \in Over(V)
  BY <1>1, <1>9, <1>10 DEF Over
<1>12. -m \in Int
  OBVIOUS
<1>13. f \in Constraints
  BY <1>1, <1>10, <1>12, CombineType
<1>14. f.k = h.k
  <2>1. f.k = 1 * q.k + (-m) * w.k
    BY DEF Combine
  <2> QED
    BY <1>1, <1>4, <1>9, <1>10, <2>1
<1>15. ASSUME NEW v \in Int
       PROVE  Coef(f, v) = Coef(h, v)
  <2>1. Coef(f, v) = 1 * Coef(q, v) + (-m) * Coef(w, v)
    BY <1>1, <1>10, <1>12, CombineCoef
  <2>2. CASE v \in D
    <3>1. Coef(q, v) = q.c[v]
      BY <2>2 DEF Coef, D
    <3>2. Coef(w, v) = b[v] /\ Coef(h, v) = a[v]
      BY <1>9, <1>10, <2>2
    <3>3. q.c[v] \in Int /\ b[v] \in Int /\ a[v] = q.c[v] - m * b[v]
      BY <1>2, <1>6, <1>7, <2>2
    <3> QED
      BY <2>1, <3>1, <3>2, <3>3
  <2>3. CASE v \notin D
    <3>1. Coef(q, v) = 0
      BY <2>3 DEF Coef, D
    <3>2. Coef(w, v) = 0 /\ Coef(h, v) = 0
      BY <1>9, <1>10, <2>3
    <3> QED
      BY <2>1, <3>1, <3>2
  <2> QED
    BY <2>2, <2>3
<1> HIDE DEF f
<1>16. f = h
  BY <1>9, <1>13, <1>14, <1>15, SameConstraint
<1> QED
  BY <1>1, <1>8, <1>9, <1>11, <1>16 DEF D, h, w, f

\* An equality that m divides.
LEMMA DividedFacts ==
    ASSUME NEW W, NEW s \in Over(W), NEW d \in Constraints, NEW m \in Int, m > 0,
           s.k = m * d.k, \A v \in Int : Coef(s, v) = m * Coef(d, v)
    PROVE  Divided(s, m) \in Over(W) /\ Divided(s, m) = d
<1> DEFINE D == DOMAIN s.c
           a == [v \in D |-> s.c[v] \div m]
           k == s.k \div m
           t == Divided(s, m)
<1>1. s \in Constraints /\ D \in SUBSET Int /\ D \subseteq W
  BY ConstraintFacts DEF Over
<1>2. \A x \in Int : (m * x) \div m = x
  OBVIOUS
<1>3. k = d.k /\ k \in Int
  <2>1. d.k \in Int
    BY DEF Constraints
  <2> QED
    BY <1>2, <2>1
<1>4. \A v \in D : s.c[v] \div m = Coef(d, v) /\ Coef(d, v) \in Int
  <2> SUFFICES ASSUME NEW v \in D
               PROVE  s.c[v] \div m = Coef(d, v) /\ Coef(d, v) \in Int
    OBVIOUS
  <2>1. v \in Int
    BY <1>1
  <2>2. s.c[v] = m * Coef(d, v)
    BY <2>1 DEF Coef
  <2>3. Coef(d, v) \in Int
    BY <2>1, CoefFacts
  <2> QED
    BY <1>2, <2>2, <2>3
<1>5. a \in [D -> Int] /\ \A v \in D : a[v] = Coef(d, v)
  BY <1>4
<1>6. t = Constraint(k, a)
  BY DEF Divided
<1> HIDE DEF t, k, a
<1>7. /\ t \in Constraints /\ t.k = k /\ DOMAIN t.c \subseteq D
      /\ \A v \in Int : Coef(t, v) = IF v \in D THEN a[v] ELSE 0
  BY <1>1, <1>3, <1>5, <1>6, ConstraintMade
<1>8. ASSUME NEW v \in Int
      PROVE  Coef(t, v) = Coef(d, v)
  <2>1. CASE v \in D
    BY <1>5, <1>7, <2>1
  <2>2. CASE v \notin D
    <3>1. Coef(s, v) = 0
      BY <2>2 DEF Coef
    <3>2. m * Coef(d, v) = 0 /\ Coef(d, v) \in Int
      BY <3>1, CoefFacts
    <3>3. Coef(d, v) = 0
      BY <3>2
    <3> QED
      BY <1>7, <2>2, <3>3
  <2> QED
    BY <2>1, <2>2
<1>9. t = d
  BY <1>3, <1>7, <1>8, SameConstraint
<1> QED
  BY <1>1, <1>7, <1>9 DEF Over, t
\* The equality that defines the new variable.
ModEquality(q, m, j, alpha) == Combine(1, Hat(q, m), m * Coef(Hat(q, m), j), Unit(alpha))

\* The equality q once it is divided by m.
ModRest(q, m, j, alpha) ==
    Combine(1, Combine(1, q, -(m - 1), Quotient(q, m)),
            (m - 1) * Coef(Hat(q, m), j), Unit(alpha))

LEMMA HatUnit ==
    ASSUME NEW V, NEW q \in Over(V), NEW m \in Int, m > 2,
           NEW j \in DOMAIN q.c, Magnitude(q.c[j]) = m - 1
    PROVE  LET h == Coef(Hat(q, m), j) IN
           (h = 1 \/ h = -1) /\ q.c[j] = -(h * (m - 1))
<1> DEFINE h == Coef(Hat(q, m), j)
<1>1. h = ModHat(q.c[j], m)
  BY HatFacts
<1>2. q.c[j] \in Int
  BY ConstraintFacts DEF Over
<1>3. q.c[j] = m - 1 \/ q.c[j] = -(m - 1)
  BY <1>2 DEF Magnitude
<1>4. q.c[j] = m - 1 => h = -1
  BY <1>1, <1>2, ModHatFacts
<1>5. q.c[j] = -(m - 1) => h = 1
  BY <1>1, <1>2, ModHatFacts
<1> HIDE DEF h
<1>6. CASE q.c[j] = m - 1
  <2>1. m - 1 = -((-1) * (m - 1))
    OBVIOUS
  <2> QED
    BY <1>4, <1>6, <2>1 DEF h
<1>7. CASE q.c[j] = -(m - 1)
  <2>1. -(m - 1) = -(1 * (m - 1))
    OBVIOUS
  <2> QED
    BY <1>5, <1>7, <2>1 DEF h
<1> QED
  BY <1>3, <1>6, <1>7

\* q may become the equality of doMod at j, and what it becomes.
ModFits(V, q, m, j, alpha) ==
    /\ V \in SUBSET Int /\ q \in Over(V) /\ m \in Int /\ m > 2
    /\ j \in DOMAIN q.c /\ Magnitude(q.c[j]) = m - 1
    /\ alpha \in Int /\ alpha \notin V

ModMade(V, q, m, j, alpha) ==
    /\ q \in Over(V \cup {alpha})
    /\ ModEquality(q, m, j, alpha) \in Over(V \cup {alpha})
    /\ Coef(ModEquality(q, m, j, alpha), j) = 1 \/ Coef(ModEquality(q, m, j, alpha), j) = -1
    /\ ModRest(q, m, j, alpha) \in Over((V \cup {alpha}) \ {j})
    /\ Divided(Substituted(q, ModEquality(q, m, j, alpha), j), m) = ModRest(q, m, j, alpha)

\* What doMod asserts: the new equality can be solved for j, and q be divided.
ModAsserts(q, m, j, alpha) ==
    LET nFactor == Coef(Hat(q, m), j)
        s == Substituted(q, ModEquality(q, m, j, alpha), j)
    IN /\ nFactor = 1 \/ nFactor = -1
       /\ s.k % m = 0
       /\ \A v \in DOMAIN s.c : s.c[v] % m = 0

LEMMA ModEqualityFacts ==
    ASSUME NEW V, NEW q, NEW m, NEW j, NEW alpha, ModFits(V, q, m, j, alpha)
    PROVE  ModMade(V, q, m, j, alpha) /\ ModAsserts(q, m, j, alpha)
<1> SUFFICES ASSUME V \in SUBSET Int, q \in Over(V), m \in Int, m > 2,
                    j \in DOMAIN q.c, Magnitude(q.c[j]) = m - 1,
                    alpha \in Int, alpha \notin V
             PROVE  ModMade(V, q, m, j, alpha) /\ ModAsserts(q, m, j, alpha)
  BY DEF ModFits
<1> DEFINE W == V \cup {alpha}
           hat == Hat(q, m)
           quo == Quotient(q, m)
           h == Coef(hat, j)
           u == Unit(alpha)
           sub == ModEquality(q, m, j, alpha)
           z == Combine(1, q, -(m - 1), quo)
           d == ModRest(q, m, j, alpha)
           s == Substituted(q, sub, j)
<1>1. q \in Constraints /\ j \in V /\ j \in Int /\ j # alpha /\ q \in Over(W)
  BY DEF Over
<1>2. (h = 1 \/ h = -1) /\ q.c[j] = -(h * (m - 1))
  BY HatUnit
<1>3. hat \in Over(V) /\ quo \in Over(V) /\ hat = Combine(1, q, -m, quo)
  BY HatFacts
<1>4. u \in Over(W) /\ u \in Constraints /\ u.k = 0 /\ Coef(u, j) = 0
  BY <1>1, UnitFacts DEF Over
<1>5. sub = Combine(1, hat, m * h, u) /\ z = Combine(1, q, -(m - 1), quo)
      /\ d = Combine(1, z, (m - 1) * h, u)
  BY DEF ModEquality, ModRest
<1> HIDE DEF hat, quo, h, u, sub, z, d, W
<1>6. h \in Int /\ m * h \in Int /\ (m - 1) * h \in Int /\ -(m - 1) \in Int /\ -m \in Int
  <2>1. h \in Int
    BY <1>2
  <2> QED
    BY <2>1
<1>7. hat \in Over(W) /\ quo \in Over(W) /\ hat \in Constraints /\ quo \in Constraints
  BY <1>3 DEF Over, W
<1>8. sub \in Over(W)
  BY <1>4, <1>5, <1>6, <1>7, CombineOver
<1>9. z \in Over(W)
  BY <1>1, <1>5, <1>6, <1>7, CombineOver
<1>10. d \in Over(W)
  BY <1>4, <1>5, <1>6, <1>9, CombineOver
<1>11. sub \in Constraints /\ z \in Constraints /\ d \in Constraints
  BY <1>8, <1>9, <1>10 DEF Over
<1>12. Coef(sub, j) = h
  <2>1. Coef(sub, j) = 1 * Coef(hat, j) + (m * h) * Coef(u, j)
    BY <1>1, <1>4, <1>5, <1>6, <1>7, CombineCoef
  <2>2. Coef(hat, j) = h
    BY DEF h
  <2> QED
    BY <1>4, <1>6, <2>1, <2>2
<1>13. s = Combine(1, q, m - 1, sub)
  <2>1. s = Combine(1, q, -Coef(q, j) * Coef(sub, j), sub)
    BY DEF Substituted
  <2>2. Coef(q, j) = -(h * (m - 1))
    BY <1>2 DEF Coef
  <2>3. -Coef(q, j) * Coef(sub, j) = m - 1
    <3>1. CASE h = 1
      <4>1. -(-(1 * (m - 1))) * 1 = m - 1
        OBVIOUS
      <4> QED
        BY <1>12, <2>2, <3>1, <4>1
    <3>2. CASE h = -1
      <4>1. -(-((-1) * (m - 1))) * (-1) = m - 1
        OBVIOUS
      <4> QED
        BY <1>12, <2>2, <3>2, <4>1
    <3> QED
      BY <1>2, <3>1, <3>2
  <2> QED
    BY <2>1, <2>3
<1>14. s \in Over(W \ {j})
  <2>1. j \in W
    BY <1>1 DEF W
  <2> QED
    BY <1>1, <1>2, <1>8, <1>12, <2>1, SubstitutedOver
<1>15. \A x, y, t, b \in Int :
         1 * x + (m - 1) * (1 * (1 * x + (-m) * y) + (m * t) * b)
           = m * (1 * (1 * x + (-(m - 1)) * y) + ((m - 1) * t) * b)
  OBVIOUS
<1> HIDE DEF s
<1>16. s.k = m * d.k
  <2>1. s.k = 1 * q.k + (m - 1) * sub.k
    BY <1>13 DEF Combine
  <2>2. sub.k = 1 * hat.k + (m * h) * u.k
    BY <1>5 DEF Combine
  <2>3. hat.k = 1 * q.k + (-m) * quo.k
    BY <1>3 DEF Combine
  <2>4. d.k = 1 * z.k + ((m - 1) * h) * u.k
    BY <1>5 DEF Combine
  <2>5. z.k = 1 * q.k + (-(m - 1)) * quo.k
    BY <1>5 DEF Combine
  <2>6. q.k \in Int /\ quo.k \in Int /\ u.k \in Int
    BY <1>1, <1>4, <1>7 DEF Constraints
  <2>7. 1 * q.k + (m - 1) * (1 * (1 * q.k + (-m) * quo.k) + (m * h) * u.k)
          = m * (1 * (1 * q.k + (-(m - 1)) * quo.k) + ((m - 1) * h) * u.k)
    <3>1. PICK a \in Int, b \in Int, c \in Int : a = q.k /\ b = quo.k /\ c = u.k
      BY <2>6
    <3>2. 1 * a + (m - 1) * (1 * (1 * a + (-m) * b) + (m * h) * c)
            = m * (1 * (1 * a + (-(m - 1)) * b) + ((m - 1) * h) * c)
      BY <1>6, <1>15
    <3> QED
      BY <3>1, <3>2
  <2> QED
    BY <2>1, <2>2, <2>3, <2>4, <2>5, <2>7
<1>17. ASSUME NEW v \in Int
       PROVE  Coef(s, v) = m * Coef(d, v)
  <2>1. Coef(s, v) = 1 * Coef(q, v) + (m - 1) * Coef(sub, v)
    <3>1. m - 1 \in Int
      OBVIOUS
    <3> QED
      BY <1>1, <1>11, <1>13, <3>1, CombineCoef
  <2>2. Coef(sub, v) = 1 * Coef(hat, v) + (m * h) * Coef(u, v)
    BY <1>4, <1>5, <1>6, <1>7, CombineCoef
  <2>3. Coef(hat, v) = 1 * Coef(q, v) + (-m) * Coef(quo, v)
    BY <1>1, <1>3, <1>6, <1>7, CombineCoef
  <2>4. Coef(d, v) = 1 * Coef(z, v) + ((m - 1) * h) * Coef(u, v)
    BY <1>4, <1>5, <1>6, <1>11, CombineCoef
  <2>5. Coef(z, v) = 1 * Coef(q, v) + (-(m - 1)) * Coef(quo, v)
    BY <1>1, <1>5, <1>6, <1>7, CombineCoef
  <2>6. Coef(q, v) \in Int /\ Coef(quo, v) \in Int /\ Coef(u, v) \in Int
    BY <1>1, <1>4, <1>7, CoefFacts
  <2> QED
    BY <1>6, <1>15, <2>1, <2>2, <2>3, <2>4, <2>5, <2>6
<1>18. Divided(s, m) \in Over(W \ {j}) /\ Divided(s, m) = d
  BY <1>11, <1>14, <1>16, <1>17, DividedFacts
<1>19. \A x \in Int : (m * x) % m = 0
  OBVIOUS
<1>20. s.k % m = 0
  BY <1>11, <1>16, <1>19 DEF Constraints
<1>21. ASSUME NEW v \in DOMAIN s.c
       PROVE  s.c[v] % m = 0
  <2>1. v \in Int /\ Coef(d, v) \in Int
    BY <1>11, <1>14, ConstraintFacts, CoefFacts DEF Over
  <2>2. s.c[v] = m * Coef(d, v)
    BY <1>17, <2>1 DEF Coef
  <2> QED
    BY <1>19, <2>1, <2>2
<1>22. ModMade(V, q, m, j, alpha)
  BY <1>1, <1>2, <1>8, <1>12, <1>18 DEF W, h, hat, sub, d, s, ModMade
<1>23. ModAsserts(q, m, j, alpha)
  BY <1>2, <1>20, <1>21 DEF h, hat, sub, s, ModAsserts
<1> QED
  BY <1>22, <1>23

\* The value that makes the new equality hold.
LEMMA ModEqualityHolds ==
    ASSUME NEW V \in SUBSET Int, NEW q \in Over(V), NEW m \in Int, m > 2,
           NEW j \in DOMAIN q.c, Magnitude(q.c[j]) = m - 1,
           NEW alpha \in Int, alpha \notin V,
           NEW F, Linear(F), F[q] = 0
    PROVE  \E H \in LinearPoints :
             /\ Agree(F, H, V)
             /\ H[ModEquality(q, m, j, alpha)] = 0
             /\ H[ModRest(q, m, j, alpha)] = 0
<1> DEFINE hat == Hat(q, m)
           quo == Quotient(q, m)
           h == Coef(hat, j)
           u == Unit(alpha)
           sub == ModEquality(q, m, j, alpha)
           z == Combine(1, q, -(m - 1), quo)
           d == ModRest(q, m, j, alpha)
           t == h * F[quo] - F[u]
           H == Shifted(F, alpha, t)
<1>1. q \in Constraints
  BY DEF Over
<1>2. h = 1 \/ h = -1
  BY HatUnit
<1>3. hat \in Over(V) /\ quo \in Over(V) /\ hat = Combine(1, q, -m, quo)
  BY HatFacts
<1>4. u \in Constraints /\ Coef(u, alpha) = 1
  BY UnitFacts
<1>5. sub = Combine(1, hat, m * h, u) /\ z = Combine(1, q, -(m - 1), quo)
      /\ d = Combine(1, z, (m - 1) * h, u)
  BY DEF ModEquality, ModRest
<1> HIDE DEF hat, quo, h, u, sub, z, d
<1>6. h \in Int /\ m * h \in Int /\ (m - 1) * h \in Int /\ -(m - 1) \in Int /\ -m \in Int
  <2>1. h \in Int
    BY <1>2
  <2> QED
    BY <2>1
<1>7. hat \in Constraints /\ quo \in Constraints
  BY <1>3 DEF Over
<1>8. F[quo] \in Int /\ F[u] \in Int
  BY <1>4, <1>7, LinearValue
<1>9. t \in Int
  BY <1>6, <1>8
<1>10. H[u] = F[u] + 1 * t
  <2> HIDE DEF t
  <2> QED
    BY <1>4 DEF Shifted
<1>11. H[u] = h * F[quo]
  BY <1>6, <1>8, <1>10
<1> HIDE DEF t
<1>12. Linear(H) /\ Agree(F, H, V)
  BY <1>9, ShiftLinear, ShiftAgrees
<1> HIDE DEF H
<1>13. H[q] = 0 /\ H[quo] = F[quo]
  BY <1>3, <1>12 DEF Agree
<1>14. z \in Constraints
  BY <1>1, <1>5, <1>6, <1>7, CombineType
<1>15. H[hat] = H[q] + (-m) * H[quo]
  BY <1>1, <1>3, <1>6, <1>7, <1>12, LinearStep
<1>16. H[sub] = H[hat] + (m * h) * H[u]
  BY <1>4, <1>5, <1>6, <1>7, <1>12, LinearStep
<1>17. H[z] = H[q] + (-(m - 1)) * H[quo]
  BY <1>1, <1>5, <1>6, <1>7, <1>12, LinearStep
<1>18. H[d] = H[z] + ((m - 1) * h) * H[u]
  BY <1>4, <1>5, <1>6, <1>12, <1>14, LinearStep
<1>19. \A n, x, y \in Int : y = 1 \/ y = -1 => (0 + (-n) * x) + (n * y) * (y * x) = 0
  OBVIOUS
<1>20. H[sub] = 0
  BY <1>2, <1>6, <1>8, <1>11, <1>13, <1>15, <1>16, <1>19
<1>21. H[d] = 0
  <2>1. m - 1 \in Int
    OBVIOUS
  <2> QED
    BY <1>2, <1>6, <1>8, <1>11, <1>13, <1>17, <1>18, <1>19, <2>1
<1>22. H \in LinearPoints
  BY <1>12 DEF LinearPoints, Linear
<1> QED
  BY <1>12, <1>20, <1>21, <1>22 DEF sub, d
\* What doMod makes of a problem.
ModProblem(p, e, j, m, alpha) ==
    LET q == Tighten(e)
        sub == ModEquality(q, m, j, alpha)
        whole == Eliminated(p, p.eqs \ {e}, sub, j)
    IN [whole EXCEPT !.vars = @ \cup {alpha},
                     !.eqs = @ \cup {Divided(Substituted(q, sub, j), m)}]

LEMMA ModProblemFacts ==
    ASSUME NEW p, ProblemOK(p), NEW e \in p.eqs, NEW m \in Int, m > 2,
           NEW j \in DOMAIN Tighten(e).c, Magnitude(Tighten(e).c[j]) = m - 1,
           NEW alpha \in Int, alpha \notin p.vars
    PROVE  LET r == ModProblem(p, e, j, m, alpha) IN
           /\ ProblemOK(r)
           /\ r.vars = (p.vars \cup {alpha}) \ {j} /\ r.freed = p.freed
           /\ \A F : Solves(F, p) =>
                \E H \in LinearPoints : Agree(F, H, p.vars) /\ Solves(H, r)
<1> DEFINE q == Tighten(e)
           V == p.vars
           W == V \cup {alpha}
           sub == ModEquality(q, m, j, alpha)
           d == ModRest(q, m, j, alpha)
           w == Eliminated(p, p.eqs \ {e}, sub, j)
           r == ModProblem(p, e, j, m, alpha)
           E == w.eqs \cup {d}
<1>1. /\ p \in ProblemSet /\ p.eqs \subseteq Over(V) /\ p.geqs \subseteq Over(V)
      /\ V \in SUBSET Int /\ W \in SUBSET Int /\ IsFiniteSet(p.geqs)
  BY DEF ProblemOK, ProblemSet
<1>2. q \in Over(V)
  BY <1>1, TightenType
<1>4. /\ q \in Over(W)
      /\ sub \in Over(W) /\ (Coef(sub, j) = 1 \/ Coef(sub, j) = -1)
      /\ d \in Over(W \ {j}) /\ Divided(Substituted(q, sub, j), m) = d
  <2>1. V \in SUBSET Int
    BY <1>1
  <2>2. j \in DOMAIN q.c /\ Magnitude(q.c[j]) = m - 1 /\ alpha \notin V
    OBVIOUS
  <2>3. ModFits(V, q, m, j, alpha)
    BY <1>2, <2>1, <2>2 DEF ModFits
  <2>4. ModMade(V, q, m, j, alpha)
    BY <2>3, ModEqualityFacts
  <2> HIDE DEF q, V
  <2> QED
    BY <2>4 DEF ModMade
<1> HIDE DEF q
<1>3. j \in V /\ j # alpha /\ j \in W
  BY <1>2 DEF Over, q
<1>5. Over(V) \subseteq Over(W)
  BY DEF Over
<1> HIDE DEF sub, d
<1>6. /\ w \in ProblemSet
      /\ w.vars = V \ {j} /\ w.freed = p.freed
      /\ w.eqs \subseteq Over(W \ {j}) /\ w.geqs \subseteq Over(W \ {j})
      /\ IsFiniteSet(w.geqs)
  <2>1. MayEliminate(p, W, p.eqs \ {e}, sub, j)
    BY <1>1, <1>3, <1>4, <1>5 DEF MayEliminate
  <2>2. HasEliminated(w, p, W, j)
    BY <2>1, EliminatedFacts
  <2> HIDE DEF w
  <2> QED
    BY <2>2 DEF HasEliminated
<1>7. r = [w EXCEPT !.vars = (V \ {j}) \cup {alpha}, !.eqs = E]
  <2>1. r = [w EXCEPT !.vars = @ \cup {alpha},
                      !.eqs = @ \cup {Divided(Substituted(q, sub, j), m)}]
    BY DEF ModProblem, q, sub
  <2> HIDE DEF r, w
  <2> QED
    BY <1>4, <1>6, <2>1
<1> HIDE DEF r
<1>8. /\ r.vars = (V \ {j}) \cup {alpha} /\ r.eqs = E /\ r.geqs = w.geqs
      /\ r.freed = p.freed
  <2> HIDE DEF w, E
  <2> QED
    BY <1>6, <1>7 DEF ProblemSet
<1>9. r.vars = W \ {j} /\ r.vars \in SUBSET Int
  BY <1>1, <1>3, <1>8
<1>10. E \subseteq Over(W \ {j})
  BY <1>4, <1>6
<1>11. r \in ProblemSet
  <2>1. E \subseteq Constraints
    BY <1>10 DEF Over
  <2>2. r = [w EXCEPT !.vars = r.vars, !.eqs = r.eqs]
    <3> HIDE DEF w, E
    <3> QED
      BY <1>7, <1>8
  <2> HIDE DEF w, E
  <2> QED
    BY <1>6, <1>8, <1>9, <2>1, <2>2 DEF ProblemSet
<1>12. ProblemOK(r)
  BY <1>6, <1>8, <1>9, <1>10, <1>11 DEF ProblemOK
<1>13. ASSUME NEW F, Solves(F, p)
       PROVE  \E H \in LinearPoints : Agree(F, H, V) /\ Solves(H, r)
  <2>1. Linear(F) /\ (\A f \in p.geqs : F[f] >= 0) /\ \A f \in p.eqs : F[f] = 0
    BY <1>13 DEF Solves
  <2>2. e \in Constraints /\ F[e] = 0
    BY <1>1, <2>1 DEF Over
  <2>3. F[q] = 0
    BY <2>1, <2>2, TightenZero DEF q
  <2>4. PICK H \in LinearPoints : Agree(F, H, V) /\ H[sub] = 0 /\ H[d] = 0
    BY <1>1, <1>2, <2>1, <2>3, ModEqualityHolds DEF q, sub, d
  <2>5. Linear(H)
    BY <2>4 DEF LinearPoints
  <2>6. (\A f \in p.geqs : H[f] >= 0) /\ \A f \in p.eqs \ {e} : H[f] = 0
    BY <1>1, <2>1, <2>4 DEF Agree
  <2>7. sub \in Constraints /\ j \in Int /\ p.eqs \ {e} \in SUBSET p.eqs
    BY <1>1, <1>3, <1>4 DEF Over
  <2>8. Solves(H, w)
    BY <1>1, <2>4, <2>5, <2>6, <2>7, EliminatedSolved
  <2>9. Solves(H, r)
    BY <1>8, <2>4, <2>8 DEF Solves
  <2> QED
    BY <2>4, <2>9
<1> QED
  BY <1>3, <1>8, <1>9, <1>12, <1>13 DEF r

\* The smallest coefficient, when none is 1 or -1.
LEMMA LeastFacts ==
    ASSUME NEW q \in Constraints, ~Constant(q), Units(q) = {}
    PROVE  LET least == Min({Magnitude(q.c[i]) : i \in DOMAIN q.c}) IN
           least \in Int /\ least + 1 \in Int /\ least + 1 > 2 /\ least = (least + 1) - 1
<1> DEFINE S == {Magnitude(q.c[i]) : i \in DOMAIN q.c}
<1>1. \A i \in DOMAIN q.c : Magnitude(q.c[i]) \in Nat /\ Magnitude(q.c[i]) > 0
  BY ConstraintFacts, MagnitudeFacts
<1>2. S \in SUBSET Nat /\ S # {} /\ 0 \notin S
  BY <1>1 DEF Constant
<1>3. 1 \notin S
  BY DEF Units
<1> HIDE DEF S
<1>4. Min(S) \in S /\ Min(S) \in Nat
  BY <1>2, MinFacts
<1>5. Min(S) \in Int /\ Min(S) + 1 > 2 /\ Min(S) + 1 \in Int
  BY <1>2, <1>3, <1>4
<1> QED
  BY <1>5 DEF S

-----------------------------------------------------------------------------
(* One variable: its bounds, and the value they fix.                        *)

LEMMA OneVariableValue ==
    ASSUME NEW F, Linear(F), NEW x \in Int, NEW e \in Over({x})
    PROVE  /\ e \in Constraints /\ Coef(e, x) \in Int /\ e.k \in Int /\ F[Unit(x)] \in Int
           /\ F[e] = e.k + Coef(e, x) * F[Unit(x)]
<1> DEFINE a == Coef(e, x)
           u == Unit(x)
           n == Number(e.k)
           f == Combine(a, u, 1, n)
<1>1. e \in Constraints /\ DOMAIN e.c \subseteq {x}
  BY DEF Over
<1>2. a \in Int /\ e.k \in Int
  BY <1>1, CoefFacts, ConstraintFacts
<1>3. /\ u \in Constraints /\ u.k = 0
      /\ \A w \in Int : Coef(u, w) = IF w = x THEN 1 ELSE 0
  BY UnitFacts
<1>4. n \in Constraints /\ n.k = e.k /\ Constant(n) /\ \A w \in Int : Coef(n, w) = 0
  BY <1>2, NumberFacts
<1>5. \A w \in Int : w # x => Coef(e, w) = 0
  BY <1>1 DEF Coef
<1>6. a = Coef(e, x)
  OBVIOUS
<1> HIDE DEF a, u, n
<1>7. f \in Constraints
  BY <1>2, <1>3, <1>4, CombineType
<1>8. f.k = e.k
  <2>1. f.k = a * u.k + 1 * n.k
    BY DEF Combine
  <2> QED
    BY <1>2, <1>3, <1>4, <2>1
<1>9. ASSUME NEW w \in Int
      PROVE  Coef(f, w) = Coef(e, w)
  <2>1. Coef(f, w) = a * Coef(u, w) + 1 * Coef(n, w)
    BY <1>2, <1>3, <1>4, CombineCoef
  <2>2. Coef(n, w) = 0
    BY <1>4
  <2>3. CASE w = x
    <3>1. Coef(u, w) = 1
      BY <1>3, <2>3
    <3> QED
      BY <1>2, <1>6, <2>1, <2>2, <2>3, <3>1
  <2>4. CASE w # x
    <3>1. Coef(u, w) = 0
      BY <1>3, <2>4
    <3> QED
      BY <1>2, <1>5, <2>1, <2>2, <2>4, <3>1
  <2> QED
    BY <2>3, <2>4
<1>10. f = e
  <2> HIDE DEF f
  <2> QED
    BY <1>1, <1>7, <1>8, <1>9, SameConstraint
<1>11. F[f] = a * F[u] + 1 * F[n]
  <2>1. u \in Constraints /\ n \in Constraints /\ 1 \in Int
    BY <1>3, <1>4
  <2> QED
    BY <1>2, <2>1 DEF Linear
<1>12. F[n] = e.k /\ F[u] \in Int
  BY <1>3, <1>4, LinearValue
<1>13. F[e] = e.k + a * F[u]
  BY <1>2, <1>10, <1>11, <1>12
<1> QED
  BY <1>1, <1>2, <1>12, <1>13 DEF a, u

LEMMA BoundsRight ==
    ASSUME NEW F, Linear(F), NEW x \in Int, NEW G \in SUBSET Over({x}), \A e \in G : F[e] >= 0
    PROVE  /\ \A lo \in LowestOf(G, x) : lo \in Int /\ lo <= F[Unit(x)]
           /\ \A hi \in HighestOf(G, x) : hi \in Int /\ F[Unit(x)] <= hi
<1> DEFINE u == F[Unit(x)]
<1>1. u \in Int
  BY UnitFacts, LinearValue
<1>2. ASSUME NEW e \in Lowers(G, x)
      PROVE  -(e.k \div Coef(e, x)) \in Int /\ -(e.k \div Coef(e, x)) <= u
  <2> DEFINE a == Coef(e, x)
  <2>1. e \in G /\ a > 0
    BY DEF Lowers
  <2>2. a \in Int /\ e.k \in Int /\ F[e] = e.k + a * u
    BY <2>1, OneVariableValue
  <2>3. e.k + a * u >= 0
    BY <2>1, <2>2
  <2> HIDE DEF a, u
  <2>4. (e.k \div a) + u >= 0 /\ e.k \div a \in Int
    BY <1>1, <2>1, <2>2, <2>3, FloorRight, DivMod
  <2>5. -(e.k \div a) \in Int /\ -(e.k \div a) <= u
    BY <1>1, <2>4
  <2> QED
    BY <2>5 DEF a
<1>3. ASSUME NEW e \in Uppers(G, x)
      PROVE  e.k \div (-Coef(e, x)) \in Int /\ u <= e.k \div (-Coef(e, x))
  <2> DEFINE a == -Coef(e, x)
  <2>1. e \in G /\ Coef(e, x) < 0
    BY DEF Uppers
  <2>2. Coef(e, x) \in Int /\ e.k \in Int /\ F[e] = e.k + Coef(e, x) * u
    BY <2>1, OneVariableValue
  <2>3. a \in Int /\ a > 0 /\ -u \in Int
    BY <1>1, <2>1, <2>2
  <2>4. Coef(e, x) * u = a * (-u)
    BY <1>1, <2>2
  <2>5. e.k + a * (-u) >= 0
    BY <2>1, <2>2, <2>4
  <2> HIDE DEF a, u
  <2>6. (e.k \div a) + (-u) >= 0 /\ e.k \div a \in Int
    BY <2>2, <2>3, <2>5, FloorRight, DivMod
  <2>7. u <= e.k \div a
    BY <1>1, <2>6
  <2> QED
    BY <2>6, <2>7 DEF a
<1> QED
  BY <1>2, <1>3 DEF LowestOf, HighestOf, u

LEMMA CrossedRight ==
    ASSUME NEW F, Linear(F), NEW x \in Int, NEW G \in SUBSET Over({x}), \A e \in G : F[e] >= 0
    PROVE  ~Crossed(G, x)
<1> SUFFICES ASSUME NEW lo \in LowestOf(G, x), NEW hi \in HighestOf(G, x), lo > hi
             PROVE  FALSE
  BY DEF Crossed
<1>1. lo \in Int /\ hi \in Int /\ lo <= F[Unit(x)] /\ F[Unit(x)] <= hi
  BY BoundsRight
<1>2. F[Unit(x)] \in Int
  BY UnitFacts, LinearValue
<1> QED
  BY <1>1, <1>2

LEMMA FixedRight ==
    ASSUME NEW F, Linear(F), NEW x \in Int, NEW G \in SUBSET Over({x}), \A e \in G : F[e] >= 0,
           NEW q \in Fixed(G, x)
    PROVE  q \in Over({x}) /\ F[q] = 0
<1>1. PICK b \in LowestOf(G, x) \cap HighestOf(G, x) : q = [Unit(x) EXCEPT !.k = -b]
  BY DEF Fixed
<1>2. b \in Int /\ b <= F[Unit(x)] /\ F[Unit(x)] <= b
  BY BoundsRight
<1>3. F[Unit(x)] \in Int /\ Unit(x) \in Constraints /\ Unit(x).k = 0 /\ DOMAIN Unit(x).c = {x}
  BY UnitFacts, LinearValue
<1>4. F[Unit(x)] = b /\ -b \in Int
  BY <1>2, <1>3
<1>5. q \in Constraints /\ q.c = Unit(x).c
  BY <1>1, <1>3, <1>4, MovedFacts
<1>6. F[q] = F[Unit(x)] + (-b) - Unit(x).k
  BY <1>1, <1>3, <1>4, ValueMoved
<1> QED
  BY <1>2, <1>3, <1>4, <1>5, <1>6 DEF Over

-----------------------------------------------------------------------------
(* The shadows.                                                             *)

\* The coefficients of a pair, divided by their common factor.
LEMMA PairFacts ==
    ASSUME NEW L \in Int, NEW U \in Int, L > 0, U > 0
    PROVE  /\ Gcd({L, -U}) \in Int /\ Gcd({L, -U}) > 0
           /\ L \div Gcd({L, -U}) \in Int /\ L \div Gcd({L, -U}) > 0
           /\ U \div Gcd({L, -U}) \in Int /\ U \div Gcd({L, -U}) > 0
           /\ L = Gcd({L, -U}) * (L \div Gcd({L, -U}))
           /\ U = Gcd({L, -U}) * (U \div Gcd({L, -U}))
<1> DEFINE g == Gcd({L, -U})
<1>1. {L, -U} \in SUBSET Int /\ L \in {L, -U} /\ -U \in {L, -U} /\ L # 0
  OBVIOUS
<1>2. g \in Int /\ g > 0 /\ Divides(g, L) /\ Divides(g, -U)
  BY <1>1, GcdFacts
<1> HIDE DEF g
<1>3. Divides(g, U)
  <2>1. PICK y \in Int : -U = g * y
    BY <1>2 DEF Divides
  <2>2. U = g * (-y) /\ -y \in Int
    BY <1>2, <2>1
  <2> QED
    BY <2>2 DEF Divides
<1>4. ASSUME NEW x \in Int, x > 0, Divides(g, x)
      PROVE  x \div g \in Int /\ x \div g > 0 /\ x = g * (x \div g)
  <2>1. x \div g \in Int /\ x = g * (x \div g)
    BY <1>2, <1>4, DivMod, DividesMod
  <2> DEFINE y == x \div g
  <2>2. y \in Int /\ g * y > 0
    BY <1>4, <2>1
  <2> HIDE DEF y
  <2>3. ~(y <= 0)
    BY <1>2, <2>2
  <2> QED
    BY <2>1, <2>2, <2>3 DEF y
<1> QED
  BY <1>2, <1>3, <1>4 DEF g

LEMMA RealShadowFacts ==
    ASSUME NEW V \in SUBSET Int, NEW v \in V, NEW G \in SUBSET Over(V), NEW m \in AllPairs(G, v)
    PROVE  LET L == Coef(m[1], v)
               U == -Coef(m[2], v)
               g == PairGcd(m, v)
           IN /\ m[1] \in G /\ m[2] \in G /\ m[1] \in Lowers(G, v) /\ m[2] \in Uppers(G, v)
              /\ m[1] \in Constraints /\ m[2] \in Constraints
              /\ L \in Int /\ U \in Int /\ g \in Int /\ L > 0 /\ U > 0 /\ g > 0
              /\ L \div g \in Int /\ L \div g > 0 /\ U \div g \in Int /\ U \div g > 0
              /\ L = g * (L \div g) /\ U = g * (U \div g)
              /\ RealShadow(m, v) \in Over(V \ {v})
              /\ \A F : Linear(F) =>
                   F[RealShadow(m, v)] = (U \div g) * F[m[1]] + (L \div g) * F[m[2]]
<1> DEFINE L == Coef(m[1], v)
           U == -Coef(m[2], v)
           g == PairGcd(m, v)
           l == L \div g
           u == U \div g
           s == RealShadow(m, v)
<1>1. m[1] \in Lowers(G, v) /\ m[2] \in Uppers(G, v)
  BY DEF AllPairs
<1>2. m[1] \in G /\ m[2] \in G /\ L > 0 /\ Coef(m[2], v) < 0
  BY <1>1 DEF Lowers, Uppers
<1>3. m[1] \in Over(V) /\ m[2] \in Over(V) /\ m[1] \in Constraints /\ m[2] \in Constraints
  BY <1>2 DEF Over
<1>4. L \in Int /\ Coef(m[2], v) \in Int /\ v \in Int
  BY <1>3, CoefFacts
<1>5. U \in Int /\ U > 0 /\ Coef(m[2], v) = -U
  BY <1>2, <1>4
<1>6. g = Gcd({L, -U})
  BY <1>5 DEF PairGcd
<1>7. s = Combine(u, m[1], l, m[2])
  BY DEF RealShadow
<1> HIDE DEF L, U, g
<1>8. /\ g \in Int /\ g > 0 /\ l \in Int /\ l > 0 /\ u \in Int /\ u > 0
      /\ L = g * l /\ U = g * u
  <2>1. L \in Int /\ L > 0 /\ U \in Int /\ U > 0
    BY <1>2, <1>4, <1>5
  <2> QED
    BY <1>6, <2>1, PairFacts
<1> HIDE DEF l, u, s
<1>9. s \in Over(V)
  BY <1>3, <1>7, <1>8, CombineOver
<1>10. Coef(s, v) = u * Coef(m[1], v) + l * Coef(m[2], v)
  <2>1. /\ m[1] \in Constraints /\ m[2] \in Constraints /\ u \in Int /\ l \in Int
        /\ v \in Int
    BY <1>3, <1>4, <1>8
  <2> QED
    BY <1>7, <2>1, CombineCoef
<1>11. \A a, b, c \in Int : a * (c * b) + b * (-(c * a)) = 0
  OBVIOUS
<1>12. Coef(s, v) = 0
  <2>1. Coef(s, v) = u * (g * l) + l * (-(g * u))
    BY <1>5, <1>8, <1>10 DEF L
  <2> QED
    BY <1>8, <1>11, <2>1
<1>13. s \in Constraints
  BY <1>9 DEF Over
<1>14. v \notin DOMAIN s.c
  BY <1>4, <1>12, <1>13, CoefFacts
<1>15. s \in Over(V \ {v})
  BY <1>9, <1>14 DEF Over
<1>16. ASSUME NEW F, Linear(F)
       PROVE  F[s] = u * F[m[1]] + l * F[m[2]]
  BY <1>3, <1>7, <1>8, <1>16 DEF Linear
<1> QED
  BY <1>1, <1>2, <1>3, <1>4, <1>5, <1>8, <1>15, <1>16 DEF L, U, g, l, u, s

LEMMA RealShadowRight ==
    ASSUME NEW V \in SUBSET Int, NEW v \in V, NEW G \in SUBSET Over(V), NEW m \in AllPairs(G, v),
           NEW F, Linear(F), \A e \in G : F[e] >= 0
    PROVE  F[RealShadow(m, v)] >= 0
<1> DEFINE l == Coef(m[1], v) \div PairGcd(m, v)
           u == (-Coef(m[2], v)) \div PairGcd(m, v)
<1>1. /\ m[1] \in G /\ m[2] \in G /\ m[1] \in Constraints /\ m[2] \in Constraints
      /\ l \in Int /\ l > 0 /\ u \in Int /\ u > 0
      /\ F[RealShadow(m, v)] = u * F[m[1]] + l * F[m[2]]
  BY RealShadowFacts
<1> HIDE DEF l, u
<1>2. F[m[1]] \in Int /\ F[m[2]] \in Int /\ F[m[1]] >= 0 /\ F[m[2]] >= 0
  BY <1>1, LinearValue
<1>3. \A a, b \in Int : a > 0 /\ b >= 0 => a * b >= 0
  OBVIOUS
<1>4. u * F[m[1]] >= 0 /\ l * F[m[2]] >= 0 /\ u * F[m[1]] \in Int /\ l * F[m[2]] \in Int
  BY <1>1, <1>2, <1>3
<1> QED
  BY <1>1, <1>4

LEMMA WithoutFacts ==
    ASSUME NEW V \in SUBSET Int, NEW v \in V, NEW G \in SUBSET Over(V)
    PROVE  Without(G, v) \subseteq G /\ Without(G, v) \subseteq Over(V \ {v})
<1> SUFFICES ASSUME NEW e \in Without(G, v)
             PROVE  e \in G /\ e \in Over(V \ {v})
  OBVIOUS
<1>1. e \in G /\ e \in Over(V) /\ Coef(e, v) = 0 /\ e \in Constraints
  BY DEF Without, Over
<1>2. v \notin DOMAIN e.c
  BY <1>1, CoefFacts
<1> QED
  BY <1>1, <1>2 DEF Over

LEMMA CombinedRight ==
    ASSUME NEW V \in SUBSET Int, NEW v \in V, NEW G \in SUBSET Over(V)
    PROVE  /\ Combined(G, v) \subseteq Over(V \ {v})
           /\ \A F : Linear(F) /\ (\A e \in G : F[e] >= 0) => \A e \in Combined(G, v) : F[e] >= 0
<1>1. \A m \in Pairs(G, v) : m \in AllPairs(G, v)
  BY DEF Pairs, AllPairs
<1>2. \A m \in Pairs(G, v) : RealShadow(m, v) \in Over(V \ {v})
  BY <1>1, RealShadowFacts
<1>3. Without(G, v) \subseteq G /\ Without(G, v) \subseteq Over(V \ {v})
  BY WithoutFacts
<1>4. ASSUME NEW F, Linear(F), \A e \in G : F[e] >= 0, NEW m \in Pairs(G, v)
      PROVE  F[RealShadow(m, v)] >= 0
  BY <1>1, <1>4, RealShadowRight
<1> QED
  BY <1>2, <1>3, <1>4 DEF Combined

-----------------------------------------------------------------------------
(* Finite sets of constraints: their coefficients have a largest one.       *)

\* Finite sets of numbers of n elements that have an upper bound.
BoundedSets(n) ==
    \A S \in SUBSET Int : IsFiniteSet(S) /\ Cardinality(S) = n =>
      \E b \in Int : \A x \in S : x <= b

LEMMA FiniteBounded ==
    ASSUME NEW S \in SUBSET Int, IsFiniteSet(S)
    PROVE  \E b \in Int : \A x \in S : x <= b
<1> DEFINE N == {n \in Nat : BoundedSets(n)}
<1>1. 0 \in N
  <2>1. BoundedSets(0)
    <3>1. ASSUME NEW R \in SUBSET Int, IsFiniteSet(R), Cardinality(R) = 0
          PROVE  \E b \in Int : \A x \in R : x <= b
      <4>1. R = {}
        BY <3>1, FS_EmptySet
      <4>2. 0 \in Int /\ \A x \in R : x <= 0
        BY <4>1
      <4> QED
        BY <4>2
    <3> QED
      BY <3>1 DEF BoundedSets
  <2> QED
    BY <2>1
<1>2. ASSUME NEW n \in N
      PROVE  n + 1 \in N
  <2>1. n \in Nat /\ BoundedSets(n)
    OBVIOUS
  <2>2. ASSUME NEW R \in SUBSET Int, IsFiniteSet(R), Cardinality(R) = n + 1
        PROVE  \E b \in Int : \A x \in R : x <= b
    <3>1. R # {}
      BY <2>1, <2>2, FS_EmptySet
    <3>2. PICK y \in R : TRUE
      BY <3>1
    <3>3. IsFiniteSet(R \ {y}) /\ Cardinality(R \ {y}) = n
      <4>1. IsFiniteSet(R \ {y}) /\ Cardinality(R \ {y}) = (n + 1) - 1
        BY <2>2, <3>2, FS_RemoveElement
      <4> QED
        BY <2>1, <4>1
    <3>4. PICK b \in Int : \A x \in R \ {y} : x <= b
      BY <2>1, <3>3 DEF BoundedSets
    <3> DEFINE c == IF y <= b THEN b ELSE y
    <3>5. c \in Int /\ y <= c /\ b <= c
      BY <3>2, <3>4
    <3>6. \A x \in R : x <= c
      <4> SUFFICES ASSUME NEW x \in R, x # y
                   PROVE  x <= c
        BY <3>5
      <4>1. x <= b /\ x \in Int
        BY <3>4
      <4> HIDE DEF c
      <4> QED
        BY <3>4, <3>5, <4>1
    <3> HIDE DEF c
    <3> QED
      BY <3>5, <3>6
  <2>3. BoundedSets(n + 1)
    BY <2>2 DEF BoundedSets
  <2> QED
    BY <2>1, <2>3
<1> HIDE DEF N
<1>3. \A n \in Nat : n \in N
  <2>1. N \in SUBSET Nat
    BY DEF N
  <2> QED
    BY <1>1, <1>2, <2>1, Induction
<1>4. Cardinality(S) \in Nat
  BY FS_CardinalityType
<1>5. BoundedSets(Cardinality(S))
  BY <1>3, <1>4 DEF N
<1> QED
  BY <1>5 DEF BoundedSets

\* The largest coefficient of the upper bounds of v, and at least 1.
Worst(G, v) == Max({1} \cup {-Coef(f, v) : f \in Uppers(G, v)})

LEMMA WorstFacts ==
    ASSUME NEW G \in SUBSET Constraints, IsFiniteSet(G), NEW v \in Int
    PROVE  /\ Worst(G, v) \in Int /\ Worst(G, v) >= 1
           /\ \A f \in Uppers(G, v) : -Coef(f, v) <= Worst(G, v)
<1> DEFINE U == Uppers(G, v)
           c == [f \in U |-> -Coef(f, v)]
           S == {c[f] : f \in U}
           T == {1} \cup S
<1>1. U \subseteq G
  BY DEF Uppers
<1>2. IsFiniteSet(U) /\ \A f \in U : -Coef(f, v) \in Int
  BY <1>1, FS_Subset, CoefFacts
<1>3. c = [f \in U |-> c[f]] /\ \A f \in U : c[f] = -Coef(f, v)
  OBVIOUS
<1>4. S = {-Coef(f, v) : f \in U}
  BY <1>3
<1> HIDE DEF c, U
<1>5. IsFiniteSet(S)
  BY <1>2, <1>3, FiniteImage
<1>6. S \in SUBSET Int
  BY <1>2, <1>3
<1> HIDE DEF S
<1>7. IsFiniteSet(T) /\ T \in SUBSET Int /\ 1 \in T
  <2>1. IsFiniteSet({1} \cup S)
    BY <1>5, FS_Union, FS_Singleton
  <2> QED
    BY <1>6, <2>1
<1>8. Worst(G, v) = Max(T)
  BY <1>4 DEF Worst, U
<1>10. \A f \in U : -Coef(f, v) \in T
  BY <1>4
<1> HIDE DEF T
<1>9. PICK b \in Int : \A x \in T : x <= b
  BY <1>7, FiniteBounded
<1>11. Max(T) \in T /\ \A x \in T : x <= Max(T)
  BY <1>7, <1>9, MaxFacts
<1> QED
  BY <1>7, <1>8, <1>10, <1>11 DEF U

-----------------------------------------------------------------------------
(* The dark shadow and the splinters.  A point that the dark shadow leaves   *)
(* out is close above a lower bound.                                         *)

\* The number of values to be tried, for one coefficient w of an upper bound.
LEMMA SplinterCount ==
    ASSUME NEW L \in Int, NEW w \in Int, w > 0, NEW A \in Int, w * (L - 1 - A) >= L
    PROVE  A <= ((L - 1) * (w - 1) - 1) \div w
<1> DEFINE X == (L - 1) * (w - 1) - 1
<1>1. X \in Int /\ X = w * (L - 1) - L
  OBVIOUS
<1>2. w * (L - 1 - A) = w * (L - 1) - w * A
  OBVIOUS
<1>3. w * (-A) = -(w * A) /\ -A \in Int
  OBVIOUS
<1> HIDE DEF X
<1>4. X + w * (-A) >= 0
  BY <1>1, <1>2, <1>3
<1>5. (X \div w) + (-A) >= 0
  BY <1>1, <1>3, <1>4, FloorRight
<1>6. X \div w \in Int
  BY <1>1, DivMod
<1>7. A <= X \div w
  BY <1>5, <1>6
<1> QED
  BY <1>7 DEF X

\* It only grows with the coefficient.
LEMMA SplinterMonotone ==
    ASSUME NEW L \in Int, L > 0, NEW U \in Int, U > 0, NEW A \in Int, U * (L - 1 - A) >= L,
           NEW w \in Int, w >= U
    PROVE  w * (L - 1 - A) >= L
<1> DEFINE y == L - 1 - A
<1>1. y \in Int /\ U * y >= L
  OBVIOUS
<1> HIDE DEF y
<1>2. y > 0
  BY <1>1
<1>3. w * y >= U * y
  <2>1. w * y - U * y = (w - U) * y /\ w - U >= 0 /\ w - U \in Int
    BY <1>1
  <2>2. (w - U) * y >= 0
    BY <1>1, <1>2, <2>1
  <2> QED
    BY <1>1, <2>1, <2>2
<1>4. w * y >= L
  BY <1>1, <1>3
<1> QED
  BY <1>4 DEF y

\* The grey area between the real shadow of a pair and its dark one.
LEMMA GreyEqual ==
    ASSUME NEW U \in Int, U > 0, NEW u \in Int, u > 0, NEW A \in Int, A >= 0,
           NEW B \in Int, B >= 0, u * A + u * B < U - 1
    PROVE  U * (U - 1 - A) >= U
<1>1. u * A >= A /\ u * B >= 0
  <2>1. u * A = A + (u - 1) * A /\ u - 1 >= 0 /\ u - 1 \in Int
    OBVIOUS
  <2>2. \A x, y \in Int : x >= 0 /\ y >= 0 => x * y >= 0
    OBVIOUS
  <2> QED
    BY <2>1, <2>2
<1>2. A < U - 1
  BY <1>1
<1>3. U - 1 - A >= 1
  BY <1>2
<1> QED
  BY <1>3

LEMMA GreyUnequal ==
    ASSUME NEW g \in Int, g > 0, NEW l \in Int, l > 0, NEW u \in Int, u > 0,
           NEW A \in Int, A >= 0, NEW B \in Int, B >= 0,
           u * A + l * B < (u - 1) * (l - 1)
    PROVE  (g * u) * (g * l - 1 - A) >= g * l
<1>1. \A x, y \in Int : x >= 0 /\ y >= 0 => x * y >= 0
  OBVIOUS
<1>2. l * B >= 0
  BY <1>1
<1>3. u * A <= (u - 1) * (l - 1) - 1
  BY <1>2
<1>4. (u - 1) * (l - 1) - 1 = u * l - u - l
  OBVIOUS
<1>5. u * l - u - l - u * A >= 0
  BY <1>3, <1>4
<1>6. g * (u * l - u - l - u * A) >= 0
  BY <1>1, <1>5
<1>7. (g - 1) * (u * l) >= 0
  <2>1. u * l >= 0 /\ u * l \in Int /\ g - 1 >= 0 /\ g - 1 \in Int
    BY <1>1
  <2> QED
    BY <1>1, <2>1
<1>8. g * ((g - 1) * (u * l)) >= 0
  BY <1>1, <1>7
<1>9. (g * u) * (g * l - 1 - A) - g * l
        = g * (u * l - u - l - u * A) + g * ((g - 1) * (u * l))
  OBVIOUS
<1> QED
  BY <1>6, <1>8, <1>9

LEMMA GapClose ==
    ASSUME NEW L \in Int, L > 0, NEW U \in Int, U > 0, NEW A \in Int, NEW B \in Int, B >= 0,
           U * A + L * B < (L - 1) * (U - 1)
    PROVE  U * (L - 1 - A) >= L
<1>1. L * B >= 0
  OBVIOUS
<1>2. (L - 1) * (U - 1) = U * (L - 1) - L + 1
  OBVIOUS
<1>3. U * (L - 1 - A) = U * (L - 1) - U * A
  OBVIOUS
<1> QED
  BY <1>1, <1>2, <1>3

LEMMA DarkShadowFacts ==
    ASSUME NEW V \in SUBSET Int, NEW v \in V, NEW G \in SUBSET Over(V), NEW m \in AllPairs(G, v)
    PROVE  LET L == Coef(m[1], v)
               U == -Coef(m[2], v)
               g == PairGcd(m, v)
               grey == IF L = U THEN U - 1 ELSE (U \div g - 1) * (L \div g - 1)
           IN /\ DarkShadow(m, v) \in Over(V \ {v})
              /\ \A F : Linear(F) => F[DarkShadow(m, v)] = F[RealShadow(m, v)] - grey
<1> DEFINE L == Coef(m[1], v)
           U == -Coef(m[2], v)
           g == PairGcd(m, v)
           grey == IF L = U THEN U - 1 ELSE (U \div g - 1) * (L \div g - 1)
           s == RealShadow(m, v)
<1>1. /\ L \in Int /\ U \in Int /\ U \div g \in Int /\ L \div g \in Int
      /\ s \in Over(V \ {v})
  BY RealShadowFacts
<1>2. DarkShadow(m, v) = [s EXCEPT !.k = s.k - grey]
  BY DEF DarkShadow
<1>3. grey \in Int
  <2> HIDE DEF L, U, g
  <2> QED
    BY <1>1
<1> HIDE DEF grey, s, L, U, g
<1>4. s \in Constraints /\ DOMAIN s.c \subseteq V \ {v}
  BY <1>1 DEF Over
<1>5. s.k \in Int /\ s.k - grey \in Int
  <2>1. s.k \in Int
    BY <1>4, ConstraintFacts
  <2> QED
    BY <1>3, <2>1
<1>6. DarkShadow(m, v) \in Constraints /\ DarkShadow(m, v).c = s.c
  BY <1>2, <1>4, <1>5, MovedFacts
<1>7. DarkShadow(m, v) \in Over(V \ {v})
  BY <1>4, <1>6 DEF Over
<1>8. ASSUME NEW F, Linear(F)
      PROVE  F[DarkShadow(m, v)] = F[s] - grey
  <2>1. F[DarkShadow(m, v)] = F[s] + (s.k - grey) - s.k
    BY <1>2, <1>4, <1>5, <1>8, ValueMoved
  <2>2. F[s] \in Int
    BY <1>4, <1>8, LinearValue
  <2> QED
    BY <1>3, <1>5, <2>1, <2>2
<1> QED
  BY <1>7, <1>8 DEF grey, s, L, U, g

\* A point the dark shadow of a pair leaves out is close above its lower bound.
LEMMA DarkClose ==
    ASSUME NEW V \in SUBSET Int, NEW v \in V, NEW G \in SUBSET Over(V), NEW m \in AllPairs(G, v),
           NEW F, Linear(F), \A e \in G : F[e] >= 0,
           F[DarkShadow(m, v)] < 0 \/ m \in ParallelGaps(G, v)
    PROVE  (-Coef(m[2], v)) * (Coef(m[1], v) - 1 - F[m[1]]) >= Coef(m[1], v)
<1> DEFINE L == Coef(m[1], v)
           U == -Coef(m[2], v)
           g == PairGcd(m, v)
           l == L \div g
           u == U \div g
           A == F[m[1]]
           B == F[m[2]]
<1>1. /\ m[1] \in G /\ m[2] \in G /\ m[1] \in Constraints /\ m[2] \in Constraints
      /\ L \in Int /\ U \in Int /\ g \in Int /\ L > 0 /\ U > 0 /\ g > 0
      /\ l \in Int /\ l > 0 /\ u \in Int /\ u > 0
      /\ L = g * l /\ U = g * u
  BY RealShadowFacts
<1>2. F[RealShadow(m, v)] = u * A + l * B
  BY RealShadowFacts
<1>3. A \in Int /\ A >= 0 /\ B \in Int /\ B >= 0
  BY <1>1, LinearValue
<1>4. CASE F[DarkShadow(m, v)] < 0
  <2>1. F[DarkShadow(m, v)] =
          F[RealShadow(m, v)] - (IF L = U THEN U - 1 ELSE (u - 1) * (l - 1))
    BY DarkShadowFacts
  <2> HIDE DEF L, U, l, u, g, A, B
  <2>2. CASE L = U
    <3>1. l = u
      BY <2>2 DEF l, u
    <3>3. u * A \in Int /\ u * B \in Int
      BY <1>1, <1>3
    <3>6. F[DarkShadow(m, v)] = F[RealShadow(m, v)] - (U - 1)
      BY <2>1, <2>2
    <3>7. F[RealShadow(m, v)] = u * A + u * B
      BY <1>2, <3>1
    <3>2. u * A + u * B - (U - 1) < 0
      <4>1. U \in Int
        BY <1>1
      <4> QED
        BY <1>4, <3>3, <3>6, <3>7, <4>1
    <3>4. u * A + u * B < U - 1
      BY <1>1, <3>2, <3>3
    <3>5. U * (U - 1 - A) >= U
      BY <1>1, <1>3, <3>4, GreyEqual
    <3> QED
      BY <2>2, <3>5 DEF L, U, A
  <2>3. CASE L # U
    <3>2. u * A \in Int /\ l * B \in Int /\ (u - 1) * (l - 1) \in Int
      BY <1>1, <1>3
    <3>6. F[DarkShadow(m, v)] = F[RealShadow(m, v)] - (u - 1) * (l - 1)
      BY <2>1, <2>3
    <3>1. u * A + l * B - (u - 1) * (l - 1) < 0
      BY <1>2, <1>4, <3>2, <3>6
    <3>3. u * A + l * B < (u - 1) * (l - 1)
      BY <3>1, <3>2
    <3>4. (g * u) * (g * l - 1 - A) >= g * l
      <4>1. g \in Int /\ l \in Int /\ u \in Int /\ g > 0 /\ l > 0 /\ u > 0
        BY <1>1
      <4> QED
        BY <1>3, <3>3, <4>1, GreyUnequal
    <3>5. U * (L - 1 - A) >= L
      <4>1. L = g * l /\ U = g * u
        BY <1>1
      <4> QED
        BY <3>4, <4>1
    <3> QED
      BY <3>5 DEF L, U, A
  <2> QED
    BY <2>2, <2>3
<1>5. CASE m \in ParallelGaps(G, v)
  <2> DEFINE s == Shadow(m, v)
  <2>1. Constant(s) /\ s.k < (L - 1) * (U - 1)
    BY <1>5 DEF ParallelGaps, Grey
  <2>2. s = Combine(U, m[1], L, m[2])
    BY DEF Shadow
  <2> HIDE DEF L, U, s
  <2>3. s \in Constraints
    <3>1. m[1] \in Constraints /\ m[2] \in Constraints /\ U \in Int /\ L \in Int
      BY <1>1
    <3> QED
      BY <2>2, <3>1, CombineType
  <2>4. F[s] = U * A + L * B
    <3>1. m[1] \in Constraints /\ m[2] \in Constraints /\ U \in Int /\ L \in Int
      BY <1>1
    <3> QED
      BY <2>2, <3>1 DEF Linear
  <2>5. F[s] = s.k
    BY <2>1, <2>3, LinearValue
  <2>6. U * A + L * B < (L - 1) * (U - 1)
    BY <2>1, <2>4, <2>5
  <2> HIDE DEF A, B
  <2>7. U * (L - 1 - A) >= L
    <3>1. L \in Int /\ L > 0 /\ U \in Int /\ U > 0
      BY <1>1
    <3> QED
      BY <1>3, <2>6, <3>1, GapClose
  <2> QED
    BY <2>7 DEF L, U, A
<1> QED
  BY <1>4, <1>5

\* So its lower bound is one of those whose splinters are tried, far enough.
LEMMA DarkTried ==
    ASSUME NEW V \in SUBSET Int, NEW v \in V, NEW G \in SUBSET Over(V), IsFiniteSet(G),
           NEW m \in AllPairs(G, v),
           NEW F, Linear(F), \A e \in G : F[e] >= 0,
           F[DarkShadow(m, v)] < 0 \/ m \in ParallelGaps(G, v)
    PROVE  /\ m[1] \in Lowers(G, v) /\ Coef(m[1], v) > 1
           /\ F[m[1]] <= MaxIncr(G, v, m[1])
<1> DEFINE L == Coef(m[1], v)
           U == -Coef(m[2], v)
           w == Worst(G, v)
           A == F[m[1]]
<1>1. /\ m[1] \in Lowers(G, v) /\ m[2] \in Uppers(G, v) /\ m[1] \in G /\ m[1] \in Constraints
      /\ L \in Int /\ U \in Int /\ L > 0 /\ U > 0
  BY RealShadowFacts
<1>2. U * (L - 1 - A) >= L
  BY DarkClose
<1>3. A \in Int /\ A >= 0
  BY <1>1, LinearValue
<1>4. w \in Int /\ w >= 1 /\ U <= w
  <2>1. G \in SUBSET Constraints /\ v \in Int
    BY DEF Over
  <2> QED
    BY <1>1, <2>1, WorstFacts
<1>5. MaxIncr(G, v, m[1]) = ((L - 1) * (w - 1) - 1) \div w
  BY DEF MaxIncr, Worst
<1> HIDE DEF L, U, w, A
<1>6. L > 1
  <2> DEFINE y == L - 1 - A
  <2>1. y \in Int /\ U * y > 0
    BY <1>1, <1>2, <1>3
  <2> HIDE DEF y
  <2>2. y > 0
    BY <1>1, <2>1
  <2> QED
    BY <1>1, <1>3, <2>2 DEF y
<1>7. w * (L - 1 - A) >= L
  <2>1. L \in Int /\ L > 0 /\ U \in Int /\ U > 0 /\ w \in Int /\ w >= U
    BY <1>1, <1>4
  <2> QED
    BY <1>2, <1>3, <2>1, SplinterMonotone
<1>8. A <= ((L - 1) * (w - 1) - 1) \div w
  BY <1>1, <1>3, <1>4, <1>7, SplinterCount
<1> QED
  BY <1>1, <1>5, <1>6, <1>8 DEF L, A

-----------------------------------------------------------------------------
(* What the calls do with a problem before any splinter: each of its points  *)
(* is one of what it becomes, but for new variables.                         *)

Negatives == {v \in Int : v < 0}

Keeps(p, r) ==
    \A F \in LinearPoints : Solves(F, p) =>
      \E H \in LinearPoints : Solves(H, r) /\ Agree(F, H, p.vars \cap r.vars)

Becomes(p, r) == ProblemOK(r) /\ r.vars \subseteq p.vars \cup Negatives /\ Keeps(p, r)

LEMMA KeepsSame ==
    ASSUME NEW p, NEW r, \A F \in LinearPoints : Solves(F, p) => Solves(F, r)
    PROVE  Keeps(p, r)
<1>1. \A F \in LinearPoints : Agree(F, F, p.vars \cap r.vars)
  BY DEF Agree
<1> QED
  BY <1>1 DEF Keeps

\* A problem from its parts.
LEMMA ProblemFromParts ==
    ASSUME NEW V \in SUBSET Int, NEW E \in SUBSET Over(V), NEW G \in SUBSET Over(V),
           NEW b \in BOOLEAN, IsFiniteSet(G)
    PROVE  ProblemOK([vars |-> V, eqs |-> E, geqs |-> G, freed |-> b])
<1> DEFINE r == [vars |-> V, eqs |-> E, geqs |-> G, freed |-> b]
<1>1. E \subseteq Constraints /\ G \subseteq Constraints
  BY DEF Over
<1>2. r \in ProblemSet
  BY <1>1 DEF ProblemSet
<1>3. r.vars = V /\ r.eqs = E /\ r.geqs = G
  OBVIOUS
<1> HIDE DEF r
<1>4. ProblemOK(r)
  BY <1>2, <1>3 DEF ProblemOK
<1> QED
  BY <1>4 DEF r

LEMMA ProblemParts ==
    ASSUME NEW p, ProblemOK(p)
    PROVE  /\ p = [vars |-> p.vars, eqs |-> p.eqs, geqs |-> p.geqs, freed |-> p.freed]
           /\ p.vars \in SUBSET Int /\ p.freed \in BOOLEAN
           /\ p.eqs \in SUBSET Over(p.vars) /\ p.geqs \in SUBSET Over(p.vars)
           /\ p.eqs \subseteq Constraints /\ p.geqs \subseteq Constraints
           /\ IsFiniteSet(p.geqs)
BY DEF ProblemOK, ProblemSet

\* freeEliminations
LEMMA FreeBecomes ==
    ASSUME NEW p, ProblemOK(p), NEW v \in FreeVars(p)
    PROVE  Becomes(p, [p EXCEPT !.vars = @ \ {v}, !.geqs = Without(@, v)])
<1> DEFINE V == p.vars \ {v}
           G == Without(p.geqs, v)
           r == [p EXCEPT !.vars = V, !.geqs = G]
<1>1. /\ p \in ProblemSet
      /\ p.vars \in SUBSET Int
      /\ p.eqs \in SUBSET Over(p.vars) /\ p.geqs \in SUBSET Over(p.vars)
      /\ IsFiniteSet(p.geqs)
  BY ProblemParts DEF ProblemOK
<1>2. v \in p.vars /\ \A q \in p.eqs : Coef(q, v) = 0
  BY DEF FreeVars
<1>3. G \subseteq p.geqs /\ G \subseteq Over(V)
  BY <1>1, <1>2, WithoutFacts
<1>4. IsFiniteSet(G)
  BY <1>1, <1>3, FS_Subset
<1>5. p.eqs \subseteq Over(V)
  <2> SUFFICES ASSUME NEW q \in p.eqs
               PROVE  q \in Over(V)
    OBVIOUS
  <2>1. q \in Constraints /\ DOMAIN q.c \subseteq p.vars /\ Coef(q, v) = 0
    BY <1>1, <1>2 DEF Over
  <2>2. v \notin DOMAIN q.c
    BY <1>1, <1>2, <2>1, CoefFacts
  <2> QED
    BY <2>1, <2>2 DEF Over
<1>6. [p EXCEPT !.vars = @ \ {v}, !.geqs = Without(@, v)] = r
  BY <1>1
<1>7. r.vars = V /\ r.eqs = p.eqs /\ r.geqs = G
  BY <1>1 DEF ProblemSet
<1>9. r \in ProblemSet
  <2>1. V \in SUBSET Int /\ G \in SUBSET Constraints
    BY <1>1, <1>3 DEF Over
  <2> HIDE DEF V, G
  <2> QED
    BY <1>1, <2>1 DEF ProblemSet
<1> HIDE DEF r, V, G
<1>10. ProblemOK(r)
  BY <1>3, <1>4, <1>5, <1>7, <1>9 DEF ProblemOK
<1>8. Keeps(p, r)
  <2>1. \A F \in LinearPoints : Solves(F, p) => Solves(F, r)
    BY <1>3, <1>7 DEF Solves
  <2> QED
    BY <2>1, KeepsSame
<1>11. r.vars \subseteq p.vars
  BY <1>7 DEF V
<1> QED
  BY <1>6, <1>8, <1>10, <1>11 DEF Becomes, V, G, r

LEMMA FreedBecomes ==
    ASSUME NEW p, ProblemOK(p)
    PROVE  Becomes(p, [p EXCEPT !.freed = TRUE])
<1> DEFINE r == [p EXCEPT !.freed = TRUE]
<1>1. r \in ProblemSet /\ r.vars = p.vars /\ r.eqs = p.eqs /\ r.geqs = p.geqs
  BY DEF ProblemOK, ProblemSet
<1> HIDE DEF r
<1>2. ProblemOK(r)
  BY <1>1 DEF ProblemOK
<1>3. \A F \in LinearPoints : Solves(F, p) => Solves(F, r)
  BY <1>1 DEF Solves
<1>4. Keeps(p, r)
  BY <1>3, KeepsSame
<1> QED
  BY <1>1, <1>2, <1>4 DEF Becomes, r

\* solveEQ: an equality without variables, and one with a coefficient 1 or -1.
LEMMA DroppedBecomes ==
    ASSUME NEW p, ProblemOK(p), NEW e \in p.eqs
    PROVE  Becomes(p, [p EXCEPT !.eqs = p.eqs \ {e}])
<1> DEFINE r == [p EXCEPT !.eqs = p.eqs \ {e}]
<1>1. r \in ProblemSet /\ r.vars = p.vars /\ r.eqs = p.eqs \ {e} /\ r.geqs = p.geqs
  BY DEF ProblemOK, ProblemSet
<1> HIDE DEF r
<1>2. ProblemOK(r)
  BY <1>1 DEF ProblemOK
<1>3. \A F \in LinearPoints : Solves(F, p) => Solves(F, r)
  BY <1>1 DEF Solves
<1>4. Keeps(p, r)
  BY <1>3, KeepsSame
<1> QED
  BY <1>1, <1>2, <1>4 DEF Becomes, r

LEMMA EliminatedBecomes ==
    ASSUME NEW p, ProblemOK(p), NEW e \in p.eqs, NEW i \in Units(Tighten(e))
    PROVE  Becomes(p, Eliminated(p, p.eqs \ {e}, Tighten(e), i))
<1> DEFINE q == Tighten(e)
           r == Eliminated(p, p.eqs \ {e}, q, i)
<1>1. /\ p.vars \in SUBSET Int /\ p \in ProblemSet /\ IsFiniteSet(p.geqs)
      /\ p.eqs \in SUBSET Over(p.vars) /\ p.geqs \in SUBSET Over(p.vars)
  BY ProblemParts DEF ProblemOK
<1>2. q \in Over(p.vars)
  BY <1>1, TightenType
<1>3. i \in DOMAIN q.c /\ Magnitude(q.c[i]) = 1
  BY DEF Units
<1> HIDE DEF q
<1>4. q \in Constraints /\ i \in p.vars /\ i \in Int
  BY <1>1, <1>2, <1>3 DEF Over
<1>5. Coef(q, i) = 1 \/ Coef(q, i) = -1
  <2>1. Coef(q, i) = q.c[i] /\ q.c[i] \in Int
    BY <1>3, <1>4, ConstraintFacts DEF Coef
  <2> QED
    BY <1>3, <2>1 DEF Magnitude
<1>6. MayEliminate(p, p.vars, p.eqs \ {e}, q, i)
  BY <1>1, <1>2, <1>4, <1>5 DEF MayEliminate
<1>7. HasEliminated(r, p, p.vars, i)
  BY <1>6, EliminatedFacts
<1>8. Keeps(p, r)
  <2>1. ASSUME NEW F \in LinearPoints, Solves(F, p)
        PROVE  Solves(F, r)
    <3>1. Linear(F) /\ (\A f \in p.geqs : F[f] >= 0) /\ \A f \in p.eqs : F[f] = 0
      BY <2>1 DEF Solves
    <3>2. e \in Constraints /\ F[e] = 0
      BY <1>1, <3>1 DEF Over
    <3>3. F[q] = 0
      BY <3>1, <3>2, TightenZero DEF q
    <3>4. p.eqs \ {e} \in SUBSET p.eqs /\ \A f \in p.eqs \ {e} : F[f] = 0
      BY <3>1
    <3> QED
      BY <1>1, <1>4, <3>1, <3>3, <3>4, EliminatedSolved
  <2> HIDE DEF r
  <2> QED
    BY <2>1, KeepsSame
<1> HIDE DEF r
<1>9. ProblemOK(r) /\ r.vars \subseteq p.vars
  BY <1>7 DEF HasEliminated, ProblemOK
<1> QED
  BY <1>8, <1>9 DEF Becomes, q, r

\* doMod
LEMMA ModBecomes ==
    ASSUME NEW p, ProblemOK(p), NEW e \in p.eqs, NEW m \in Int, m > 2,
           NEW j \in DOMAIN Tighten(e).c, Magnitude(Tighten(e).c[j]) = m - 1,
           NEW alpha \in Negatives, alpha \notin p.vars
    PROVE  Becomes(p, ModProblem(p, e, j, m, alpha))
<1> DEFINE r == ModProblem(p, e, j, m, alpha)
<1>1. alpha \in Int
  BY DEF Negatives
<1>2. /\ ProblemOK(r) /\ r.vars = (p.vars \cup {alpha}) \ {j}
      /\ \A F : Solves(F, p) =>
           \E H \in LinearPoints : Agree(F, H, p.vars) /\ Solves(H, r)
  BY <1>1, ModProblemFacts
<1> HIDE DEF r
<1>3. Keeps(p, r)
  <2>1. \A F, H : Agree(F, H, p.vars) => Agree(F, H, p.vars \cap r.vars)
    BY DEF Agree, Over
  <2> QED
    BY <1>2, <2>1 DEF Keeps
<1> QED
  BY <1>2, <1>3 DEF Becomes, r

\* The smallest coefficient, and the new variable, are as doMod wants them.
LEMMA WildcardFacts ==
    ASSUME NEW p, wild \in Int, Turns(p) # {}
    PROVE  Wildcard(p) \in Negatives /\ Wildcard(p) \notin p.vars
<1>1. MaxWildcards \in Nat \ {0}
  BY OmegaAssumption
<1>2. Turns(p) \in SUBSET Nat /\ Turns(p) \subseteq 1 .. MaxWildcards
  BY <1>1 DEF Turns
<1>3. Min(Turns(p)) \in Turns(p)
  BY <1>2, MinFacts
<1>4. PICK i \in 1 .. MaxWildcards : i = Min(Turns(p)) /\ WildcardAt(i) \notin p.vars
  BY <1>3 DEF Turns
<1>5. WildcardAt(i) \in Int /\ WildcardAt(i) < 0
  <2> DEFINE n == i - 1 - wild
  <2>1. n \in Int
    BY <1>1
  <2> HIDE DEF n
  <2>2. (n % MaxWildcards) \in Int /\ 0 <= (n % MaxWildcards)
    BY <1>1, <2>1, DivMod
  <2>3. WildcardAt(i) = -((n % MaxWildcards) + 1)
    BY DEF WildcardAt, n
  <2> QED
    BY <2>2, <2>3
<1> QED
  BY <1>4, <1>5 DEF Wildcard, Negatives

\* normalize
LEMMA FiniteTightest ==
    ASSUME NEW G, IsFiniteSet(G)
    PROVE  IsFiniteSet(Tightest(G))
<1> DEFINE t == [e \in G |-> Tighten(e)]
           T == {t[e] : e \in G}
<1>1. t = [e \in G |-> t[e]] /\ T = {Tighten(e) : e \in G}
  OBVIOUS
<1>2. Tightest(G) \subseteq T
  BY <1>1 DEF Tightest
<1> HIDE DEF t
<1>3. IsFiniteSet(T)
  BY <1>1, FiniteImage
<1> HIDE DEF T
<1> QED
  BY <1>2, <1>3, FS_Subset

LEMMA NormalizedBecomes ==
    ASSUME NEW p, ProblemOK(p), NEW E, E = Squeezed(p.geqs) \/ E = p.eqs
    PROVE  Becomes(p, [p EXCEPT !.geqs = Tightest(p.geqs), !.eqs = E])
<1> DEFINE G == Tightest(p.geqs)
           r == [p EXCEPT !.geqs = G, !.eqs = E]
<1>1. /\ p \in ProblemSet /\ p.geqs \in SUBSET Over(p.vars) /\ p.eqs \in SUBSET Over(p.vars)
      /\ IsFiniteSet(p.geqs)
  BY ProblemParts DEF ProblemOK
<1>2. /\ Tightest(p.geqs) \subseteq {Tighten(e) : e \in p.geqs}
      /\ Squeezed(p.geqs) \subseteq Tightest(p.geqs)
  BY DEF Tightest, Squeezed
<1>3. \A e \in p.geqs : Tighten(e) \in Over(p.vars)
  BY <1>1, TightenType
<1>4. G \subseteq Over(p.vars) /\ E \subseteq Over(p.vars)
  BY <1>1, <1>2, <1>3
<1>5. IsFiniteSet(G)
  BY <1>1, FiniteTightest
<1> HIDE DEF G
<1>6. G \subseteq Constraints /\ E \subseteq Constraints
  BY <1>4 DEF Over
<1>7. r \in ProblemSet /\ r.vars = p.vars /\ r.eqs = E /\ r.geqs = G
  BY <1>1, <1>6 DEF ProblemSet
<1> HIDE DEF r
<1>8. ProblemOK(r)
  BY <1>4, <1>5, <1>7 DEF ProblemOK
<1>9. ASSUME NEW F \in LinearPoints, Solves(F, p)
      PROVE  Solves(F, r)
  <2>1. Linear(F) /\ (\A e \in p.geqs : F[e] >= 0) /\ \A e \in p.eqs : F[e] = 0
    BY <1>9 DEF Solves
  <2>2. (\A e \in G : F[e] >= 0) /\ \A q \in Squeezed(p.geqs) : F[q] = 0
    BY <1>1, <2>1, NormalizeRight DEF G
  <2> QED
    BY <1>7, <2>1, <2>2 DEF Solves
<1>10. Keeps(p, r)
  BY <1>9, KeepsSame
<1> QED
  BY <1>7, <1>8, <1>10 DEF Becomes, r, G

LEMMA FiniteShadows ==
    ASSUME NEW G, IsFiniteSet(G), NEW v, NEW s, s = [m \in Pairs(G, v) |-> s[m]]
    PROVE  IsFiniteSet(Without(G, v) \cup {s[m] : m \in Pairs(G, v)})
<1>1. Without(G, v) \subseteq G /\ Lowers(G, v) \subseteq G /\ Uppers(G, v) \subseteq G
  BY DEF Without, Lowers, Uppers
<1>2. IsFiniteSet(Without(G, v)) /\ IsFiniteSet(Lowers(G, v)) /\ IsFiniteSet(Uppers(G, v))
  BY <1>1, FS_Subset
<1>3. IsFiniteSet(Lowers(G, v) \X Uppers(G, v))
  BY <1>2, FS_Product
<1>4. Pairs(G, v) \subseteq Lowers(G, v) \X Uppers(G, v)
  BY DEF Pairs
<1>5. IsFiniteSet(Pairs(G, v))
  BY <1>3, <1>4, FS_Subset
<1>6. IsFiniteSet({s[m] : m \in Pairs(G, v)})
  BY <1>5, FiniteImage
<1> QED
  BY <1>2, <1>6, FS_Union

LEMMA FiniteCombined ==
    ASSUME NEW G, IsFiniteSet(G), NEW v
    PROVE  IsFiniteSet(Combined(G, v))
<1> DEFINE s == [m \in Pairs(G, v) |-> RealShadow(m, v)]
<1>1. s = [m \in Pairs(G, v) |-> s[m]]
      /\ Combined(G, v) = Without(G, v) \cup {s[m] : m \in Pairs(G, v)}
  BY DEF Combined
<1> HIDE DEF s
<1> QED
  BY <1>1, FiniteShadows

\* What the dark shadow keeps.
Dark(G, v) == Without(G, v) \cup {DarkShadow(m, v) : m \in Pairs(G, v)}

LEMMA FiniteDark ==
    ASSUME NEW G, IsFiniteSet(G), NEW v
    PROVE  IsFiniteSet(Dark(G, v))
<1> DEFINE s == [m \in Pairs(G, v) |-> DarkShadow(m, v)]
<1>1. s = [m \in Pairs(G, v) |-> s[m]]
      /\ Dark(G, v) = Without(G, v) \cup {s[m] : m \in Pairs(G, v)}
  BY DEF Dark
<1> HIDE DEF s
<1> QED
  BY <1>1, FiniteShadows

LEMMA DarkOver ==
    ASSUME NEW V \in SUBSET Int, NEW v \in V, NEW G \in SUBSET Over(V)
    PROVE  Dark(G, v) \subseteq Over(V \ {v})
<1>1. \A m \in Pairs(G, v) : m \in AllPairs(G, v)
  BY DEF Pairs, AllPairs
<1>2. \A m \in Pairs(G, v) : DarkShadow(m, v) \in Over(V \ {v})
  BY <1>1, DarkShadowFacts
<1>3. Without(G, v) \subseteq Over(V \ {v})
  BY WithoutFacts
<1> QED
  BY <1>2, <1>3 DEF Dark

\* An elimination: the shadow that stays in the call, and the one it asks about.
LEMMA CombinedBecomes ==
    ASSUME NEW p, ProblemOK(p), p.eqs = {}, NEW v \in p.vars, NEW r \in ProblemSet,
           r.vars = p.vars \ {v}, r.eqs = {}, r.geqs = Combined(p.geqs, v)
    PROVE  Becomes(p, r)
<1>1. /\ p.vars \in SUBSET Int /\ p.geqs \in SUBSET Over(p.vars) /\ IsFiniteSet(p.geqs)
  BY ProblemParts
<1>2. /\ Combined(p.geqs, v) \subseteq Over(p.vars \ {v})
      /\ \A F : Linear(F) /\ (\A e \in p.geqs : F[e] >= 0) => \A e \in Combined(p.geqs, v) : F[e] >= 0
  BY <1>1, CombinedRight
<1>3. IsFiniteSet(r.geqs)
  BY <1>1, FiniteCombined
<1>4. ProblemOK(r)
  BY <1>2, <1>3 DEF ProblemOK
<1>5. \A F \in LinearPoints : Solves(F, p) => Solves(F, r)
  BY <1>2 DEF Solves
<1>6. Keeps(p, r)
  BY <1>5, KeepsSame
<1> QED
  BY <1>4, <1>6 DEF Becomes

LEMMA ShadowProblemSet ==
    ASSUME NEW V \in SUBSET Int, NEW G \in SUBSET Constraints
    PROVE  [vars |-> V, eqs |-> {}, geqs |-> G, freed |-> FALSE] \in ProblemSet
BY DEF ProblemSet

-----------------------------------------------------------------------------
(* The stack.                                                                *)
(*                                                                           *)
(* A call can be right, CanBe, while a point is left where it has still to   *)
(* look.  The invariant says of each call that it can be right if what its   *)
(* caller asks has a point.  So when the call at the top says FALSE because  *)
(* no point is left, what its caller asked has none.                         *)

Early == {"free", "eq", "geq", "choose"}

Frames ==
    [p : ProblemSet, want : {"UNKNOWN", "FALSE"},
     pc : Early \cup {"real", "dark", "lowers", "splinter", "feasible"},
     then : {"eq", "geq", "choose"}, timid : BOOLEAN,
     v : Int, todo : SUBSET Constraints, lower : SUBSET Constraints, left : Int]

FrameOK(f) ==
    /\ f \in Frames /\ ProblemOK(f.p)
    /\ f.pc # "eq" /\ (f.pc = "free" => f.then # "eq") => f.p.eqs = {}
    /\ f.pc \notin Early => f.v \in f.p.vars
    /\ f.pc \in {"dark", "lowers", "splinter", "feasible"} => f.want # "FALSE"
    /\ f.pc \in {"lowers", "splinter", "feasible"} => f.todo \subseteq Lowers(f.p.geqs, f.v)
    /\ f.pc = "splinter" => \E l \in Over(f.p.vars) : Coef(l, f.v) > 0 /\ f.lower = {l}

\* Close above a lower bound that has still to be tried.
Close(f, G) == \E e \in f.todo : G[e] <= MaxIncr(f.p.geqs, f.v, e)

\* Where the call f has still to look.  The lower bound of a splinter that is
\* being tried is already the next one, so that it is -1 at the splinter's points.
Open(f, low, G) ==
    /\ Solves(G, f.p)
    /\ f.pc \in {"lowers", "feasible"} => Close(f, G)
    /\ f.pc = "splinter" =>
         \A l \in f.lower : G[l] >= low /\ (G[l] <= f.left \/ Close(f, G))

CanBe(f, low) == \E G \in LinearPoints : Open(f, low, G)

\* The points of the problem that f passes to the call it makes.
AskedAt(f, G) ==
    /\ Linear(G)
    /\ f.pc = "real" => \A e \in Combined(f.p.geqs, f.v) : G[e] >= 0
    /\ f.pc = "dark" => \A e \in Dark(f.p.geqs, f.v) : G[e] >= 0
    /\ f.pc = "splinter" => (\A e \in f.p.geqs : G[e] >= 0) /\ \A l \in f.lower : G[l] = -1
    /\ f.pc = "feasible" => Solves(G, f.p)

\* The call k of the stack s has been asked about a problem that has a point.
Posed(s, g, k) ==
    \E F \in LinearPoints : IF k = 1 THEN Solves(F, g) ELSE AskedAt(s[k - 1], F)

\* A call that waits has one more value to look at: the one being tried.
Low(s, r, k) == IF k < Len(s) \/ r # "none" THEN -1 ELSE 0

Sound(s, r, g) ==
    /\ \A k \in 1 .. Len(s) : Posed(s, g, k) => CanBe(s[k], Low(s, r, k))
    /\ r = "FALSE" => ~Posed(s, g, Len(s) + 1)

\* UNKNOWN is only said to who asks whether there is none.
WantsFit(s, r) ==
    /\ \A k \in 2 .. Len(s) : s[k].want = "FALSE" => s[k - 1].pc \in {"real", "feasible"}
    /\ r = "UNKNOWN" /\ s # <<>> => s[Len(s)].pc \in {"real", "feasible"}

\* Each point of g is one of the problem of f.
Follows(f, g) ==
    \A F \in LinearPoints : Solves(F, g) =>
      \E G \in LinearPoints : Solves(G, f.p) /\ Agree(F, G, g.vars \cap f.p.vars)

Tracked(f) == ~f.timid /\ f.pc \in Early \cup {"real"}

Followed(s, g) == \A k \in 1 .. Len(s) : Tracked(s[k]) => Follows(s[k], g)

StackOK(s, r, g) ==
    /\ s \in Seq(Frames) /\ r \in {"none", "TRUE", "FALSE", "UNKNOWN"}
    /\ \A k \in 1 .. Len(s) : FrameOK(s[k])
    /\ WantsFit(s, r) /\ Sound(s, r, g) /\ Followed(s, g)

\* A stack without its last call.
LEMMA FrontFacts ==
    ASSUME NEW S, NEW s \in Seq(S), s # <<>>
    PROVE  /\ Len(s) \in Nat /\ Len(s) > 0 /\ Last(s) = s[Len(s)] /\ Last(s) \in S
           /\ Front(s) \in Seq(S) /\ Len(Front(s)) = Len(s) - 1
           /\ \A k \in 1 .. Len(s) - 1 : Front(s)[k] = s[k]
<1> DEFINE n == Len(s)
<1>1. n \in Nat /\ n > 0 /\ s[n] \in S
  OBVIOUS
<1>2. \A i \in 1 .. n - 1 : s[i] \in S
  OBVIOUS
<1>3. /\ SubSeq(s, 1, n - 1) \in Seq(S) /\ Len(SubSeq(s, 1, n - 1)) = n - 1
      /\ \A i \in 1 .. n - 1 : SubSeq(s, 1, n - 1)[i] = s[i]
  <2>1. n - 1 \in Int /\ 1 \in Int
    BY <1>1
  <2>2. /\ SubSeq(s, 1, n - 1) \in Seq(S)
        /\ Len(SubSeq(s, 1, n - 1)) = IF 1 <= n - 1 THEN (n - 1) - 1 + 1 ELSE 0
        /\ \A i \in 1 .. (n - 1) - 1 + 1 : SubSeq(s, 1, n - 1)[i] = s[1 + i - 1]
    BY <1>2, <2>1, SubSeqProperties
  <2> HIDE DEF n
  <2>3. Len(SubSeq(s, 1, n - 1)) = n - 1
    BY <1>1, <2>2
  <2>4. ASSUME NEW i \in 1 .. n - 1
        PROVE  SubSeq(s, 1, n - 1)[i] = s[i]
    <3>1. i \in 1 .. (n - 1) - 1 + 1 /\ 1 + i - 1 = i
      BY <1>1
    <3>2. SubSeq(s, 1, n - 1)[i] = s[1 + i - 1]
      BY <2>2, <3>1
    <3> QED
      BY <3>1, <3>2
  <2> QED
    BY <2>2, <2>3, <2>4
<1> QED
  BY <1>1, <1>3 DEF Front, Last

\* The call at the top goes on as f: it may forget no point.
LEMMA BecomeKeeps ==
    ASSUME NEW s, NEW r, NEW g, StackOK(s, r, g), s # <<>>,
           NEW f, FrameOK(f), f.want = Last(s).want,
           CanBe(Last(s), Low(s, r, Len(s))) => CanBe(f, 0),
           Tracked(f) => Follows(f, g)
    PROVE  StackOK(Append(Front(s), f), "none", g)
<1> DEFINE n == Len(s)
           t == Append(Front(s), f)
<1>1. s \in Seq(Frames) /\ f \in Frames
  BY DEF StackOK, FrameOK
<1>2. n \in Nat /\ n > 0 /\ Last(s) = s[n] /\ Front(s) \in Seq(Frames) /\ Len(Front(s)) = n - 1
      /\ \A k \in 1 .. n - 1 : Front(s)[k] = s[k]
  BY <1>1, FrontFacts
<1>3. t \in Seq(Frames) /\ Len(t) = n /\ t[n] = f
  BY <1>1, <1>2
<1>4. \A k \in 1 .. n - 1 : t[k] = s[k]
  BY <1>1, <1>2
<1>5. t # <<>>
  BY <1>2, <1>3
<1> HIDE DEF t
<1>6. ASSUME NEW k \in 1 .. n, k # n
      PROVE  k \in 1 .. n - 1 /\ t[k] = s[k]
  BY <1>2, <1>4, <1>6
<1>7. \A k \in 1 .. Len(t) : FrameOK(t[k])
  <2> SUFFICES ASSUME NEW k \in 1 .. n
               PROVE  FrameOK(t[k])
    BY <1>3
  <2>1. CASE k = n
    BY <1>3, <2>1
  <2>2. CASE k # n
    BY <1>6, <2>2 DEF StackOK
  <2> QED
    BY <2>1, <2>2
<1>8. WantsFit(t, "none")
  <2> SUFFICES ASSUME NEW k \in 2 .. n, t[k].want = "FALSE"
               PROVE  t[k - 1].pc \in {"real", "feasible"}
    BY <1>3 DEF WantsFit
  <2>1. k \in 1 .. n /\ k - 1 \in 1 .. n /\ k - 1 # n
    BY <1>2
  <2>2. t[k].want = s[k].want
    <3>1. CASE k = n
      BY <1>2, <1>3, <3>1
    <3>2. CASE k # n
      BY <1>6, <2>1, <3>2
    <3> QED
      BY <3>1, <3>2
  <2>3. t[k - 1] = s[k - 1]
    BY <1>6, <2>1
  <2>4. s[k - 1].pc \in {"real", "feasible"}
    BY <2>2 DEF StackOK, WantsFit
  <2> QED
    BY <2>3, <2>4
<1>9. Sound(t, "none", g)
  <2> SUFFICES ASSUME NEW k \in 1 .. n, Posed(t, g, k)
               PROVE  CanBe(t[k], Low(t, "none", k))
    BY <1>3 DEF Sound
  <2>1. Posed(s, g, k)
    <3>1. CASE k = 1
      BY <3>1 DEF Posed
    <3>2. CASE k # 1
      <4>1. k - 1 \in 1 .. n /\ k - 1 # n
        BY <1>2, <3>2
      <4>2. t[k - 1] = s[k - 1]
        BY <1>6, <4>1
      <4> QED
        BY <3>2, <4>2 DEF Posed
    <3> QED
      BY <3>1, <3>2
  <2>2. CanBe(s[k], Low(s, r, k))
    BY <2>1 DEF StackOK, Sound
  <2>3. CASE k = n
    <3>1. Low(t, "none", k) = 0
      BY <1>2, <1>3, <2>3 DEF Low
    <3> QED
      BY <1>2, <1>3, <2>2, <2>3, <3>1
  <2>4. CASE k # n
    <3>1. k < n
      BY <1>2, <2>4
    <3>2. Low(t, "none", k) = -1 /\ Low(s, r, k) = -1
      BY <1>3, <3>1 DEF Low
    <3> QED
      BY <1>6, <2>2, <2>4, <3>2
  <2> QED
    BY <2>3, <2>4
<1>10. Followed(t, g)
  <2> SUFFICES ASSUME NEW k \in 1 .. n, Tracked(t[k])
               PROVE  Follows(t[k], g)
    BY <1>3 DEF Followed
  <2>1. CASE k = n
    BY <1>3, <2>1
  <2>2. CASE k # n
    BY <1>6, <2>2 DEF StackOK, Followed
  <2> QED
    BY <2>1, <2>2
<1>11. StackOK(t, "none", g)
  BY <1>3, <1>7, <1>8, <1>9, <1>10 DEF StackOK
<1> QED
  BY <1>11 DEF t

\* It ends: FALSE, when no point is left.
LEMMA ReturnKeeps ==
    ASSUME NEW s, NEW r, NEW g, StackOK(s, r, g), s # <<>>,
           NEW a \in {"TRUE", "FALSE", "UNKNOWN"},
           a = "FALSE" => ~CanBe(Last(s), Low(s, r, Len(s))),
           a = "UNKNOWN" => Last(s).want = "FALSE"
    PROVE  StackOK(Front(s), a, g)
<1> DEFINE n == Len(s)
           t == Front(s)
<1>1. s \in Seq(Frames)
  BY DEF StackOK
<1>2. n \in Nat /\ n > 0 /\ Last(s) = s[n] /\ t \in Seq(Frames) /\ Len(t) = n - 1
      /\ \A k \in 1 .. n - 1 : t[k] = s[k]
  BY <1>1, FrontFacts
<1> HIDE DEF t
<1>3. \A k \in 1 .. Len(t) : k \in 1 .. n /\ k < n /\ t[k] = s[k]
  BY <1>2
<1>4. \A k \in 1 .. Len(t) : FrameOK(t[k])
  BY <1>3 DEF StackOK
<1>5. WantsFit(t, a)
  <2>1. ASSUME NEW k \in 2 .. Len(t), t[k].want = "FALSE"
        PROVE  t[k - 1].pc \in {"real", "feasible"}
    <3>1. k \in 1 .. Len(t) /\ k - 1 \in 1 .. Len(t) /\ k \in 2 .. n
      BY <1>2
    <3>2. s[k - 1].pc \in {"real", "feasible"}
      BY <1>3, <2>1, <3>1 DEF StackOK, WantsFit
    <3> QED
      BY <1>3, <3>1, <3>2
  <2>2. ASSUME a = "UNKNOWN", t # <<>>
        PROVE  t[Len(t)].pc \in {"real", "feasible"}
    <3>1. Len(t) # 0 /\ Len(t) \in Nat
      BY <1>2, <2>2
    <3>2. n \in 2 .. n /\ n - 1 \in 1 .. Len(t) /\ Len(t) = n - 1
      BY <1>2, <3>1
    <3>3. s[n - 1].pc \in {"real", "feasible"}
      BY <1>2, <2>2, <3>2 DEF StackOK, WantsFit
    <3> QED
      BY <1>3, <3>2, <3>3
  <2> QED
    BY <2>1, <2>2 DEF WantsFit
<1>6. ASSUME NEW k \in 1 .. n, Posed(t, g, k)
      PROVE  Posed(s, g, k)
  <2>1. CASE k = 1
    BY <1>6, <2>1 DEF Posed
  <2>2. CASE k # 1
    <3>1. k - 1 \in 1 .. Len(t)
      BY <1>2, <2>2
    <3>2. t[k - 1] = s[k - 1]
      BY <1>3, <3>1
    <3> QED
      BY <1>6, <2>2, <3>2 DEF Posed
  <2> QED
    BY <2>1, <2>2
<1>7. Sound(t, a, g)
  <2>1. ASSUME NEW k \in 1 .. Len(t), Posed(t, g, k)
        PROVE  CanBe(t[k], Low(t, a, k))
    <3>1. k \in 1 .. n /\ k < n /\ t[k] = s[k]
      BY <1>3
    <3>2. CanBe(s[k], Low(s, r, k))
      BY <1>6, <2>1, <3>1 DEF StackOK, Sound
    <3>3. Low(s, r, k) = -1 /\ Low(t, a, k) = -1
      BY <3>1 DEF Low
    <3> QED
      BY <3>1, <3>2, <3>3
  <2>2. ASSUME a = "FALSE", Posed(t, g, Len(t) + 1)
        PROVE  FALSE
    <3>1. Len(t) + 1 = n /\ n \in 1 .. n
      BY <1>2
    <3>2. Posed(s, g, n)
      BY <1>6, <2>2, <3>1
    <3>3. CanBe(s[n], Low(s, r, n))
      BY <3>1, <3>2 DEF StackOK, Sound
    <3> QED
      BY <1>2, <2>2, <3>3
  <2> QED
    BY <2>1, <2>2 DEF Sound
<1>8. Followed(t, g)
  BY <1>3 DEF StackOK, Followed
<1>9. StackOK(t, a, g)
  BY <1>2, <1>4, <1>5, <1>7, <1>8 DEF StackOK
<1> QED
  BY <1>9 DEF t

\* It calls c, and waits as f for its answer.
LEMMA CallKeeps ==
    ASSUME NEW s, NEW r, NEW g, StackOK(s, r, g), s # <<>>,
           NEW f, FrameOK(f), f.want = Last(s).want,
           CanBe(Last(s), Low(s, r, Len(s))) => CanBe(f, -1),
           Tracked(f) => Follows(f, g),
           NEW c, FrameOK(c), c.want = "FALSE" => f.pc \in {"real", "feasible"},
           (\E F \in LinearPoints : AskedAt(f, F)) => CanBe(c, 0),
           Tracked(c) => Follows(c, g)
    PROVE  StackOK(Front(s) \o <<f, c>>, "none", g)
<1> DEFINE n == Len(s)
           t == Front(s) \o <<f, c>>
<1>1. s \in Seq(Frames) /\ f \in Frames /\ c \in Frames
  BY DEF StackOK, FrameOK
<1>2. n \in Nat /\ n > 0 /\ Last(s) = s[n] /\ Front(s) \in Seq(Frames) /\ Len(Front(s)) = n - 1
      /\ \A k \in 1 .. n - 1 : Front(s)[k] = s[k]
  BY <1>1, FrontFacts
<1>3. t \in Seq(Frames) /\ Len(t) = n + 1 /\ t[n] = f /\ t[n + 1] = c
  <2>1. <<f, c>> \in Seq(Frames) /\ Len(<<f, c>>) = 2 /\ <<f, c>>[1] = f /\ <<f, c>>[2] = c
    BY <1>1
  <2>2. t \in Seq(Frames) /\ Len(t) = (n - 1) + 2
    BY <1>2, <2>1
  <2>3. \A k \in 1 .. (n - 1) + 2 :
          t[k] = IF k <= n - 1 THEN Front(s)[k] ELSE <<f, c>>[k - (n - 1)]
    BY <1>2, <2>1
  <2>4. n \in 1 .. (n - 1) + 2 /\ n + 1 \in 1 .. (n - 1) + 2 /\ ~(n <= n - 1) /\ ~(n + 1 <= n - 1)
        /\ n - (n - 1) = 1 /\ (n + 1) - (n - 1) = 2 /\ (n - 1) + 2 = n + 1
    BY <1>2
  <2> HIDE DEF t
  <2> QED
    BY <2>1, <2>2, <2>3, <2>4
<1>4. \A k \in 1 .. n - 1 : t[k] = s[k]
  <2>1. <<f, c>> \in Seq(Frames) /\ Len(<<f, c>>) = 2
    BY <1>1
  <2>2. \A k \in 1 .. n - 1 : t[k] = Front(s)[k]
    BY <1>2, <2>1
  <2> QED
    BY <1>2, <2>2
<1> HIDE DEF t
<1>5. ASSUME NEW k \in 1 .. Len(t)
      PROVE  k = n \/ k = n + 1 \/ (k \in 1 .. n /\ k < n /\ k # n /\ t[k] = s[k])
  <2>1. k \in Int /\ k >= 1 /\ k <= n + 1
    BY <1>2, <1>3
  <2>2. CASE k < n
    <3>1. k \in 1 .. n - 1
      BY <1>2, <2>1, <2>2
    <3> QED
      BY <1>2, <1>4, <2>1, <2>2, <3>1
  <2> QED
    BY <1>2, <2>1, <2>2
<1>6. \A k \in 1 .. Len(t) : FrameOK(t[k])
  BY <1>3, <1>5 DEF StackOK
<1>7. WantsFit(t, "none")
  <2> SUFFICES ASSUME NEW k \in 2 .. n + 1, t[k].want = "FALSE"
               PROVE  t[k - 1].pc \in {"real", "feasible"}
    BY <1>3 DEF WantsFit
  <2>1. k \in Int /\ k >= 2 /\ k <= n + 1 /\ (k - 1) + 1 = k
    BY <1>2
  <2>2. CASE k = n + 1
    <3>1. k - 1 = n
      BY <1>2, <2>2
    <3> QED
      BY <1>3, <2>2, <3>1
  <2>3. CASE k # n + 1
    <3>1. k \in 2 .. n /\ k - 1 \in 1 .. n - 1
      BY <1>2, <2>1, <2>3
    <3>2. t[k].want = s[k].want
      <4>1. CASE k = n
        BY <1>2, <1>3, <4>1
      <4>2. CASE k # n
        <5>1. k \in 1 .. n - 1
          BY <1>2, <3>1, <4>2
        <5> QED
          BY <1>4, <5>1
      <4> QED
        BY <4>1, <4>2
    <3>3. s[k - 1].pc \in {"real", "feasible"}
      BY <3>1, <3>2 DEF StackOK, WantsFit
    <3> QED
      BY <1>4, <3>1, <3>3
  <2> QED
    BY <2>2, <2>3
<1>8. ASSUME NEW k \in 1 .. n, Posed(t, g, k)
      PROVE  Posed(s, g, k)
  <2>1. CASE k = 1
    BY <1>8, <2>1 DEF Posed
  <2>2. CASE k # 1
    <3>1. k - 1 \in 1 .. n - 1
      BY <1>2, <2>2
    <3>2. t[k - 1] = s[k - 1]
      BY <1>4, <3>1
    <3> QED
      BY <1>8, <2>2, <3>2 DEF Posed
  <2> QED
    BY <2>1, <2>2
<1>9. Sound(t, "none", g)
  <2> SUFFICES ASSUME NEW k \in 1 .. Len(t), Posed(t, g, k)
               PROVE  CanBe(t[k], Low(t, "none", k))
    BY DEF Sound
  <2>1. ASSUME k \in 1 .. n
        PROVE  CanBe(s[k], Low(s, r, k))
    BY <1>8, <2>1 DEF StackOK, Sound
  <2>2. CASE k = n + 1
    <3>1. Low(t, "none", k) = 0
      BY <1>2, <1>3, <2>2 DEF Low
    <3>2. k # 1 /\ k - 1 = n
      BY <1>2, <2>2
    <3>3. \E F \in LinearPoints : AskedAt(f, F)
      BY <1>3, <3>2 DEF Posed
    <3> QED
      BY <1>3, <2>2, <3>1, <3>3
  <2>3. CASE k = n
    <3>1. k \in 1 .. n /\ k < n + 1
      BY <1>2, <2>3
    <3>2. Low(t, "none", k) = -1
      BY <1>3, <3>1 DEF Low
    <3>3. CanBe(Last(s), Low(s, r, n))
      BY <1>2, <2>1, <2>3, <3>1
    <3> QED
      BY <1>3, <2>3, <3>2, <3>3
  <2>4. CASE k \in 1 .. n /\ k < n /\ t[k] = s[k]
    <3>1. k < Len(t)
      BY <1>2, <1>3, <2>4
    <3>2. Low(t, "none", k) = -1 /\ Low(s, r, k) = -1
      BY <2>4, <3>1 DEF Low
    <3> QED
      BY <2>1, <2>4, <3>2
  <2> QED
    BY <1>5, <2>2, <2>3, <2>4
<1>10. Followed(t, g)
  BY <1>3, <1>5 DEF StackOK, Followed
<1>11. StackOK(t, "none", g)
  BY <1>3, <1>6, <1>7, <1>9, <1>10 DEF StackOK
<1> QED
  BY <1>11 DEF t

\* What the invariant says of the call at the top.
LEMMA TopFacts ==
    ASSUME NEW s, NEW r, NEW g, StackOK(s, r, g), s # <<>>
    PROVE  /\ FrameOK(Last(s)) /\ Last(s) \in Frames
           /\ Tracked(Last(s)) => Follows(Last(s), g)
           /\ Posed(s, g, Len(s)) => CanBe(Last(s), Low(s, r, Len(s)))
           /\ r = "FALSE" => ~ \E F \in LinearPoints : AskedAt(Last(s), F)
           /\ r = "UNKNOWN" => Last(s).pc \in {"real", "feasible"}
<1>1. s \in Seq(Frames)
  BY DEF StackOK
<1>2. Len(s) \in Nat /\ Len(s) > 0 /\ Last(s) = s[Len(s)]
  BY <1>1, FrontFacts
<1>3. Len(s) \in 1 .. Len(s) /\ Len(s) + 1 # 1 /\ (Len(s) + 1) - 1 = Len(s)
  BY <1>2
<1>4. FrameOK(Last(s))
  BY <1>2, <1>3 DEF StackOK
<1>5. r = "FALSE" => ~ \E F \in LinearPoints : AskedAt(Last(s), F)
  BY <1>2, <1>3 DEF StackOK, Sound, Posed
<1> QED
  BY <1>2, <1>3, <1>4, <1>5 DEF StackOK, Followed, Sound, WantsFit, FrameOK

\* A step of a call before an elimination with splinters.
EarlyStep(f, h) ==
    /\ f.pc \in Early /\ h.pc \in Early
    /\ h \in Frames /\ h.want = f.want /\ h.timid = f.timid
    /\ Becomes(f.p, h.p)
    /\ h.pc # "eq" /\ (h.pc = "free" => h.then # "eq") => h.p.eqs = {}

\* No given problem has a variable with the name of a wildcard.
NoWildcards(g) == g.vars \cap Negatives = {}

\* The points of the given problem are still among those of the call.
LEMMA BecomesFollows ==
    ASSUME NEW g, NoWildcards(g), NEW f, NEW h, Becomes(f.p, h.p), Follows(f, g)
    PROVE  Follows(h, g)
<1> SUFFICES ASSUME NEW F \in LinearPoints, Solves(F, g)
             PROVE  \E H \in LinearPoints :
                      Solves(H, h.p) /\ Agree(F, H, g.vars \cap h.p.vars)
  BY DEF Follows
<1>1. PICK G \in LinearPoints : Solves(G, f.p) /\ Agree(F, G, g.vars \cap f.p.vars)
  BY DEF Follows
<1>2. PICK H \in LinearPoints : Solves(H, h.p) /\ Agree(G, H, f.p.vars \cap h.p.vars)
  BY <1>1 DEF Becomes, Keeps
<1>3. g.vars \cap h.p.vars \subseteq f.p.vars
  BY DEF NoWildcards, Becomes
<1>4. Agree(F, H, g.vars \cap h.p.vars)
  <2> SUFFICES ASSUME NEW e \in Over(g.vars \cap h.p.vars)
               PROVE  F[e] = H[e]
    BY DEF Agree
  <2>1. e \in Over(g.vars \cap f.p.vars) /\ e \in Over(f.p.vars \cap h.p.vars)
    BY <1>3 DEF Over
  <2> QED
    BY <1>1, <1>2, <2>1 DEF Agree
<1> QED
  BY <1>2, <1>4

\* Steps before a splinter keep the stack right.
LEMMA EarlyKeeps ==
    ASSUME NEW s, NEW r, NEW g, StackOK(s, r, g), s # <<>>, NoWildcards(g),
           NEW h, EarlyStep(Last(s), h)
    PROVE  StackOK(Append(Front(s), h), "none", g)
<1> DEFINE f == Last(s)
<1>1. FrameOK(f) /\ (Tracked(f) => Follows(f, g))
  BY TopFacts
<1> HIDE DEF f
<1>2. EarlyStep(f, h)
  BY DEF f
<1>3. FrameOK(h)
  BY <1>2 DEF EarlyStep, FrameOK, Early, Becomes
<1>4. CanBe(f, Low(s, r, Len(s))) => CanBe(h, 0)
  <2> SUFFICES ASSUME CanBe(f, Low(s, r, Len(s)))
               PROVE  CanBe(h, 0)
    OBVIOUS
  <2>1. PICK G \in LinearPoints : Solves(G, f.p)
    BY DEF CanBe, Open
  <2>2. PICK H \in LinearPoints : Solves(H, h.p)
    BY <1>2, <2>1 DEF EarlyStep, Becomes, Keeps
  <2>3. Open(h, 0, H)
    BY <1>2, <2>2 DEF Open, EarlyStep, Early
  <2> QED
    BY <2>3 DEF CanBe
<1>5. Tracked(h) => Follows(h, g)
  <2>1. Tracked(h) => Tracked(f)
    BY <1>2 DEF EarlyStep, Tracked
  <2>2. Becomes(f.p, h.p)
    BY <1>2 DEF EarlyStep
  <2> QED
    BY <1>1, <2>1, <2>2, BecomesFollows
<1>6. h.want = f.want
  BY <1>2 DEF EarlyStep
<1> QED
  BY <1>3, <1>4, <1>5, <1>6, BecomeKeeps DEF f

\* Before an elimination a call denies a problem only when it has no point.
LEMMA EarlyOpen ==
    ASSUME NEW f, NEW low, CanBe(f, low)
    PROVE  \E F \in LinearPoints : Solves(F, f.p)
BY DEF CanBe, Open

-----------------------------------------------------------------------------
(* The invariant.                                                           *)

\* What verifyProblem has been told holds in all solutions.
Told ==
    /\ problem.vars = given.vars
    /\ \A q \in problem.eqs \ given.eqs :
         /\ q \in Constraints
         /\ \A F \in LinearPoints : Solves(F, given) => F[q] = 0

IInv ==
    /\ op \in Ops /\ given \in Problems /\ wild \in Int
    /\ StackOK(stack, ret, given)
    /\ Told

LEMMA GivenFacts ==
    ASSUME NEW g \in Problems
    PROVE  ProblemOK(g) /\ NoWildcards(g)
<1>1. IsProblem(g)
  BY OmegaAssumption
<1>2. /\ g.vars = 1 .. Cardinality(g.vars) /\ IsFiniteSet(g.vars)
      /\ \A e \in g.eqs \cup g.geqs : IsConstraint(e, g.vars)
      /\ g.freed \in BOOLEAN /\ IsFiniteSet(g.geqs)
      /\ g = [vars |-> g.vars, eqs |-> g.eqs, geqs |-> g.geqs, freed |-> g.freed]
  BY <1>1 DEF IsProblem
<1>3. Cardinality(g.vars) \in Nat
  BY <1>2, FS_CardinalityType
<1>4. g.vars \subseteq Int /\ NoWildcards(g)
  BY <1>2, <1>3 DEF NoWildcards, Negatives
<1>5. ASSUME NEW e \in g.eqs \cup g.geqs
      PROVE  e \in Over(g.vars)
  <2>1. /\ e = [k |-> e.k, c |-> e.c] /\ e.k \in Int
        /\ DOMAIN e.c \subseteq g.vars /\ e.c \in [DOMAIN e.c -> Int \ {0}]
    BY <1>2 DEF IsConstraint
  <2>2. e.c \in UNION {[D -> Int \ {0}] : D \in SUBSET Int}
    BY <1>4, <2>1
  <2>3. e \in Constraints
    BY <2>1, <2>2 DEF Constraints
  <2> QED
    BY <2>1, <2>3 DEF Over
<1>6. [vars |-> g.vars, eqs |-> g.eqs, geqs |-> g.geqs, freed |-> g.freed] \in ProblemSet
  <2>1. g.eqs \subseteq Constraints /\ g.geqs \subseteq Constraints
    BY <1>5 DEF Over
  <2> QED
    BY <1>2, <1>4, <2>1 DEF ProblemSet
<1>7. g \in ProblemSet
  BY <1>2, <1>6, Zenon
<1> QED
  BY <1>2, <1>4, <1>5, <1>7 DEF ProblemOK

-----------------------------------------------------------------------------
(* The steps before an elimination with splinters.                          *)

\* The actions end in one of these ways.
LEMMA EarlyAction ==
    ASSUME IInv, stack # <<>>, NEW h, EarlyStep(Top, h), Become(h),
           UNCHANGED <<op, given>>, wild' \in Int, Told'
    PROVE  IInv'
<1>1. NoWildcards(given) /\ StackOK(stack, ret, given)
  BY GivenFacts DEF IInv
<1>2. StackOK(Append(Front(stack), h), "none", given)
  BY <1>1, EarlyKeeps DEF Top
<1>3. stack' = Append(Front(stack), h) /\ ret' = "none"
  BY DEF Become
<1> QED
  BY <1>2, <1>3 DEF IInv

LEMMA ReturnAction ==
    ASSUME IInv, stack # <<>>, NEW a \in {"TRUE", "FALSE", "UNKNOWN"}, Return(a),
           a = "FALSE" => ~CanBe(Top, Low(stack, ret, Len(stack))),
           a = "UNKNOWN" => Top.want = "FALSE",
           UNCHANGED <<op, given, wild>>, Told'
    PROVE  IInv'
<1>1. StackOK(stack, ret, given)
  BY DEF IInv
<1>2. StackOK(Front(stack), a, given)
  BY <1>1, ReturnKeeps DEF Top
<1>3. stack' = Front(stack) /\ ret' = a
  BY DEF Return
<1> QED
  BY <1>2, <1>3 DEF IInv

LEMMA ToldSame ==
    ASSUME IInv, UNCHANGED <<given, problem>>
    PROVE  Told'
BY DEF IInv, Told

LEMMA TopOK ==
    ASSUME IInv, stack # <<>>
    PROVE  /\ FrameOK(Top) /\ Top \in Frames /\ P = Top.p /\ ProblemOK(P) /\ P \in ProblemSet
           /\ Tracked(Top) => Follows(Top, given)
           /\ ret = "FALSE" => ~ \E F \in LinearPoints : AskedAt(Top, F)
           /\ ret = "UNKNOWN" => Top.pc \in {"real", "feasible"}
<1>1. StackOK(stack, ret, given)
  BY DEF IInv
<1>2. /\ FrameOK(Top) /\ Top \in Frames
      /\ Tracked(Top) => Follows(Top, given)
      /\ ret = "FALSE" => ~ \E F \in LinearPoints : AskedAt(Top, F)
      /\ ret = "UNKNOWN" => Top.pc \in {"real", "feasible"}
  BY <1>1, TopFacts DEF Top
<1>3. P = Top.p /\ ProblemOK(P) /\ P \in ProblemSet
  BY <1>2 DEF P, FrameOK, ProblemOK
<1> QED
  BY <1>2, <1>3

\* A problem of the call at the top without a point: then it may say FALSE.
LEMMA Denied ==
    ASSUME IInv, stack # <<>>, ~ \E F \in LinearPoints : Solves(F, P)
    PROVE  ~CanBe(Top, Low(stack, ret, Len(stack)))
<1>1. P = Top.p
  BY DEF P
<1> QED
  BY <1>1, EarlyOpen

LEMMA FreeEliminationKeeps ==
    ASSUME IInv, FreeElimination
    PROVE  IInv'
<1>1. stack # <<>> /\ Top.pc = "free"
  BY DEF FreeElimination, Running
<1>2. Top \in Frames /\ FrameOK(Top) /\ P = Top.p /\ ProblemOK(P)
  BY <1>1, TopOK
<1>3. PICK v \in FreeVars(P) : Become([Top EXCEPT !.p.vars = @ \ {v}, !.p.geqs = Without(@, v)])
  BY DEF FreeElimination
<1> DEFINE f == Top
           r == [f.p EXCEPT !.vars = @ \ {v}, !.geqs = Without(@, v)]
           h == [f EXCEPT !.p.vars = @ \ {v}, !.p.geqs = Without(@, v)]
<1>4. Becomes(f.p, r)
  BY <1>2, FreeBecomes
<1>5. r \in ProblemSet
  BY <1>4 DEF Becomes, ProblemOK
<1> HIDE DEF f
<1>6. f \in Frames
  BY <1>2 DEF f
<1>7. /\ h.p = r /\ h.want = f.want /\ h.timid = f.timid /\ h.pc = f.pc /\ h.then = f.then
      /\ r.eqs = f.p.eqs
  BY <1>6 DEF Frames, ProblemSet
<1>8. h \in Frames
  <2>1. h.p \in ProblemSet
    BY <1>5, <1>7
  <2> QED
    BY <1>6, <2>1 DEF Frames
<1> HIDE DEF h, r
<1>9. EarlyStep(f, h)
  BY <1>1, <1>2, <1>4, <1>7, <1>8 DEF EarlyStep, Early, FrameOK, f
<1>10. Become(h) /\ EarlyStep(Top, h)
  BY <1>3, <1>9 DEF h, f
<1>11. UNCHANGED <<op, given>> /\ UNCHANGED problem /\ wild' \in Int
  BY DEF FreeElimination, Asked, IInv
<1>12. Told'
  BY <1>11, ToldSame
<1> QED
  BY <1>1, <1>10, <1>11, <1>12, EarlyAction

LEMMA BecomesSame ==
    ASSUME NEW p, ProblemOK(p)
    PROVE  Becomes(p, p)
<1>1. Keeps(p, p)
  BY KeepsSame
<1> QED
  BY <1>1 DEF Becomes

LEMMA NoneFreeKeeps ==
    ASSUME IInv, NoneFree
    PROVE  IInv'
<1>1. stack # <<>> /\ Top.pc = "free" /\ Become([Top EXCEPT !.pc = Top.then])
  BY DEF NoneFree, Running
<1>2. Top \in Frames /\ FrameOK(Top) /\ ProblemOK(Top.p)
  BY <1>1, TopOK
<1> DEFINE f == Top
           h == [f EXCEPT !.pc = f.then]
<1> HIDE DEF f
<1>3. f \in Frames
  BY <1>2 DEF f
<1>4. /\ h \in Frames /\ h.p = f.p /\ h.want = f.want /\ h.timid = f.timid /\ h.pc = f.then
      /\ f.then \in {"eq", "geq", "choose"}
  BY <1>3 DEF Frames, Early
<1> HIDE DEF h
<1>5. Becomes(f.p, h.p)
  BY <1>2, <1>4, BecomesSame DEF f
<1>6. EarlyStep(f, h)
  BY <1>1, <1>2, <1>4, <1>5 DEF EarlyStep, Early, FrameOK, f
<1>7. Become(h) /\ EarlyStep(Top, h)
  BY <1>1, <1>6 DEF h, f
<1>8. UNCHANGED <<op, given>> /\ UNCHANGED problem /\ wild' \in Int
  BY DEF NoneFree, Asked, IInv
<1>9. Told'
  BY <1>8, ToldSame
<1> QED
  BY <1>1, <1>7, <1>8, <1>9, EarlyAction

LEMMA EqualityFailsKeeps ==
    ASSUME IInv, EqualityFails
    PROVE  IInv'
<1>1. /\ stack # <<>> /\ Top.pc = "eq" /\ Return("FALSE")
      /\ UNCHANGED <<op, given, wild>> /\ UNCHANGED problem
  BY DEF EqualityFails, Running, Asked
<1>2. ProblemOK(P)
  BY <1>1, TopOK
<1>3. P.eqs \subseteq Constraints
  BY <1>2, ProblemParts
<1>4. ~ \E F \in LinearPoints : Solves(F, P)
  BY <1>3, NoSolutionRight DEF EqualityFails
<1>5. ~CanBe(Top, Low(stack, ret, Len(stack)))
  BY <1>1, <1>4, Denied
<1>6. Told'
  BY <1>1, ToldSame
<1> QED
  BY <1>1, <1>5, <1>6, ReturnAction

\* A step that leaves the call where it is, on another problem.
LEMMA SameCall ==
    ASSUME NEW f \in Frames, FrameOK(f), f.pc = "eq", NEW r, Becomes(f.p, r)
    PROVE  EarlyStep(f, [f EXCEPT !.p = r])
<1> DEFINE h == [f EXCEPT !.p = r]
<1>1. r \in ProblemSet
  BY DEF Becomes, ProblemOK
<1>2. h \in Frames /\ h.p = r /\ h.pc = "eq" /\ h.want = f.want /\ h.timid = f.timid
  BY <1>1 DEF Frames
<1> HIDE DEF h
<1>3. EarlyStep(f, h)
  BY <1>2 DEF EarlyStep, Early
<1> QED
  BY <1>3 DEF h

LEMMA SolveEqualityKeeps ==
    ASSUME IInv, SolveEquality
    PROVE  IInv'
<1>1. /\ stack # <<>> /\ Top.pc = "eq"
      /\ UNCHANGED <<op, given>> /\ UNCHANGED problem /\ wild' \in Int
  BY DEF SolveEquality, Running, Asked, IInv
<1>2. Top \in Frames /\ FrameOK(Top) /\ P = Top.p /\ ProblemOK(P)
  BY <1>1, TopOK
<1>3. Told'
  BY <1>1, ToldSame
<1>4. PICK e \in P.eqs :
        \/ Become([Top EXCEPT !.p.eqs = P.eqs \ {e}])
        \/ \E i \in Units(Tighten(e)) :
             Become([Top EXCEPT !.p = Eliminated(P, P.eqs \ {e}, Tighten(e), i)])
  BY DEF SolveEquality
<1>5. CASE Become([Top EXCEPT !.p.eqs = P.eqs \ {e}])
  <2> DEFINE r == [P EXCEPT !.eqs = P.eqs \ {e}]
             h == [Top EXCEPT !.p.eqs = P.eqs \ {e}]
  <2>1. Becomes(P, r)
    BY <1>2, DroppedBecomes
  <2>2. h.p = r /\ h.pc = "eq" /\ h.want = Top.want /\ h.timid = Top.timid
    BY <1>1, <1>2 DEF Frames, ProblemSet
  <2>3. h \in Frames
    <3>1. h.p \in ProblemSet
      BY <2>1, <2>2 DEF Becomes, ProblemOK
    <3> QED
      BY <1>2, <3>1 DEF Frames
  <2> HIDE DEF h, r
  <2>4. EarlyStep(Top, h)
    BY <1>1, <1>2, <2>1, <2>2, <2>3 DEF EarlyStep, Early
  <2>5. Become(h)
    BY <1>5 DEF h
  <2> QED
    BY <1>1, <1>3, <2>4, <2>5, EarlyAction
<1>6. CASE \E i \in Units(Tighten(e)) :
             Become([Top EXCEPT !.p = Eliminated(P, P.eqs \ {e}, Tighten(e), i)])
  <2>1. PICK i \in Units(Tighten(e)) :
             Become([Top EXCEPT !.p = Eliminated(P, P.eqs \ {e}, Tighten(e), i)])
    BY <1>6
  <2> DEFINE r == Eliminated(P, P.eqs \ {e}, Tighten(e), i)
  <2>2. Becomes(Top.p, r)
    BY <1>2, EliminatedBecomes
  <2> HIDE DEF r
  <2>3. EarlyStep(Top, [Top EXCEPT !.p = r])
    BY <1>1, <1>2, <2>2, SameCall
  <2>4. Become([Top EXCEPT !.p = r])
    BY <2>1 DEF r
  <2> QED
    BY <1>1, <1>3, <2>3, <2>4, EarlyAction
<1> QED
  BY <1>4, <1>5, <1>6

LEMMA DoModKeeps ==
    ASSUME IInv, DoMod
    PROVE  IInv'
<1>1. stack # <<>> /\ Top.pc = "eq" /\ UNCHANGED <<op, given>> /\ UNCHANGED problem
  BY DEF DoMod, Running, Asked
<1>2. Top \in Frames /\ FrameOK(Top) /\ P = Top.p /\ ProblemOK(P) /\ wild \in Int
  BY <1>1, TopOK DEF IInv
<1>3. Told'
  BY <1>1, ToldSame
<1> DEFINE least(q) == Min({Magnitude(q.c[i]) : i \in DOMAIN q.c})
<1>4. PICK e \in P.eqs :
        /\ ~Constant(Tighten(e)) /\ Units(Tighten(e)) = {} /\ Turns(P) # {}
        /\ \E j \in DOMAIN Tighten(e).c :
             /\ Magnitude(Tighten(e).c[j]) = least(Tighten(e))
             /\ Become([Top EXCEPT !.p = ModProblem(P, e, j, least(Tighten(e)) + 1, Wildcard(P))])
             /\ wild' = Wildcard(P)
  BY DEF DoMod, ModProblem, ModEquality
<1> DEFINE q == Tighten(e)
           m == least(q) + 1
           alpha == Wildcard(P)
<1>5. PICK j \in DOMAIN q.c :
        /\ Magnitude(q.c[j]) = least(q)
        /\ Become([Top EXCEPT !.p = ModProblem(P, e, j, m, alpha)])
        /\ wild' = alpha
  BY <1>4
<1>6. q \in Constraints
  <2>1. e \in Over(P.vars)
    BY <1>2, ProblemParts
  <2> QED
    BY <2>1, TightenType DEF Over
<1>7. least(q) \in Int /\ m \in Int /\ m > 2 /\ least(q) = m - 1
  BY <1>4, <1>6, LeastFacts
<1>8. alpha \in Negatives /\ alpha \notin P.vars
  BY <1>2, <1>4, WildcardFacts
<1> DEFINE r == ModProblem(P, e, j, m, alpha)
<1> HIDE DEF least, m, alpha
<1>9. Magnitude(Tighten(e).c[j]) = m - 1 /\ j \in DOMAIN Tighten(e).c
  BY <1>5, <1>7
<1>10. Becomes(P, r)
  BY <1>2, <1>7, <1>8, <1>9, ModBecomes
<1>11. Become([Top EXCEPT !.p = r]) /\ wild' = alpha
  BY <1>5
<1> HIDE DEF r, q
<1>12. EarlyStep(Top, [Top EXCEPT !.p = r])
  BY <1>1, <1>2, <1>10, SameCall
<1>13. wild' \in Int
  BY <1>8, <1>11 DEF Negatives
<1> QED
  BY <1>1, <1>3, <1>11, <1>12, <1>13, EarlyAction

\* A step to another place of the call, with the same problem.
LEMMA SameProblem ==
    ASSUME NEW f \in Frames, FrameOK(f), f.pc \in Early, f.p.eqs = {}, NEW c \in Early
    PROVE  EarlyStep(f, [f EXCEPT !.pc = c])
<1> DEFINE h == [f EXCEPT !.pc = c]
<1>1. h \in Frames /\ h.p = f.p /\ h.pc = c /\ h.want = f.want /\ h.timid = f.timid
  BY DEF Frames
<1> HIDE DEF h
<1>2. Becomes(f.p, h.p)
  BY <1>1, BecomesSame DEF FrameOK
<1>3. EarlyStep(f, h)
  BY <1>1, <1>2 DEF EarlyStep
<1> QED
  BY <1>3 DEF h

LEMMA EqualitiesSolvedKeeps ==
    ASSUME IInv, EqualitiesSolved
    PROVE  IInv'
<1>1. /\ stack # <<>> /\ Top.pc = "eq" /\ P.eqs = {}
      /\ UNCHANGED <<op, given, wild>> /\ UNCHANGED problem
  BY DEF EqualitiesSolved, Running, Asked
<1>2. Top \in Frames /\ FrameOK(Top) /\ P = Top.p /\ wild \in Int
  BY <1>1, TopOK DEF IInv
<1>3. Told'
  BY <1>1, ToldSame
<1>4. CASE Return("TRUE")
  BY <1>1, <1>3, <1>4, ReturnAction
<1>5. CASE Become([Top EXCEPT !.pc = "geq"])
  <2>1. EarlyStep(Top, [Top EXCEPT !.pc = "geq"])
    BY <1>1, <1>2, SameProblem DEF Early
  <2>2. UNCHANGED <<op, given>> /\ wild' \in Int
    BY <1>1, <1>2
  <2> QED
    BY <1>1, <1>3, <1>5, <2>1, <2>2, EarlyAction
<1> QED
  BY <1>4, <1>5 DEF EqualitiesSolved

\* Equalities that hold at all points of a problem the caller is told of.
LEMMA ToldMore ==
    ASSUME IInv, Follows(Top, given), NEW Q,
           NEW V, V \subseteq problem.vars, V \subseteq P.vars, Q \subseteq Over(V),
           \A F \in LinearPoints : Solves(F, P) => \A q \in Q : F[q] = 0,
           problem' = [problem EXCEPT !.eqs = @ \cup Q], UNCHANGED given
    PROVE  Told'
<1>1. problem'.vars = problem.vars /\ problem'.eqs \subseteq problem.eqs \cup Q
  OBVIOUS
<1>2. problem.vars = given.vars
  BY DEF IInv, Told
<1>3. ASSUME NEW q \in Q
      PROVE  q \in Constraints /\ \A F \in LinearPoints : Solves(F, given) => F[q] = 0
  <2>1. q \in Constraints
    BY DEF Over
  <2> SUFFICES ASSUME NEW F \in LinearPoints, Solves(F, given)
               PROVE  F[q] = 0
    BY <2>1
  <2>2. PICK G \in LinearPoints : Solves(G, Top.p) /\ Agree(F, G, given.vars \cap Top.p.vars)
    BY DEF Follows
  <2>3. G[q] = 0
    BY <2>2 DEF P
  <2>4. q \in Over(given.vars \cap Top.p.vars)
    BY <1>2 DEF Over, P
  <2> QED
    BY <2>2, <2>3, <2>4 DEF Agree
<1> QED
  BY <1>1, <1>2, <1>3 DEF IInv, Told

LEMMA OuterTold ==
    ASSUME IInv, stack # <<>>, Top.pc \in Early, NEW Q, Q \subseteq Over(P.vars),
           \A F \in LinearPoints : Solves(F, P) => \A q \in Q : F[q] = 0,
           problem' = Outer(Q), UNCHANGED given
    PROVE  Told'
<1>1. CASE op = "verify" /\ ~Top.timid /\ P.vars \subseteq problem.vars
  <2>1. Follows(Top, given)
    BY <1>1, TopOK DEF Tracked
  <2>2. problem' = [problem EXCEPT !.eqs = @ \cup Q]
    BY <1>1 DEF Outer
  <2> QED
    BY <1>1, <2>1, <2>2, ToldMore
<1>2. CASE ~(op = "verify" /\ ~Top.timid /\ P.vars \subseteq problem.vars)
  <2>1. problem' = problem
    BY <1>2 DEF Outer
  <2> QED
    BY <2>1, ToldSame
<1> QED
  BY <1>1, <1>2

LEMMA FixedOver ==
    ASSUME NEW x \in Int, NEW G \in SUBSET Over({x})
    PROVE  Fixed(G, x) \subseteq Over({x})
<1> SUFFICES ASSUME NEW q \in Fixed(G, x)
             PROVE  q \in Over({x})
  OBVIOUS
<1>1. PICK b \in LowestOf(G, x) : q = [Unit(x) EXCEPT !.k = -b]
  BY DEF Fixed
<1>2. PICK e \in Lowers(G, x) : b = -(e.k \div Coef(e, x))
  BY <1>1 DEF LowestOf
<1>3. e \in Constraints /\ Coef(e, x) > 0
  BY <1>2 DEF Lowers, Over
<1>4. e.k \in Int /\ Coef(e, x) \in Int
  BY <1>3, ConstraintFacts, CoefFacts
<1>5. e.k \div Coef(e, x) \in Int
  BY <1>3, <1>4, DivMod
<1>6. b \in Int /\ -b \in Int
  BY <1>2, <1>5
<1>7. Unit(x) \in Constraints /\ DOMAIN Unit(x).c = {x}
  BY UnitFacts
<1>8. q \in Constraints /\ q.c = Unit(x).c
  BY <1>1, <1>6, <1>7, MovedFacts
<1> QED
  BY <1>7, <1>8 DEF Over

LEMMA OneVariableKeeps ==
    ASSUME IInv, OneVariable
    PROVE  IInv'
<1>1. stack # <<>> /\ Top.pc = "geq" /\ Top.pc \in Early /\ UNCHANGED <<op, given, wild>>
  BY DEF OneVariable, Running, Asked, Early
<1>2. ProblemOK(P)
  BY <1>1, TopOK
<1>3. PICK x \in P.vars :
        /\ P.vars = {x}
        /\ IF (\E e \in P.geqs : Constant(e) /\ e.k < 0) \/ Crossed(P.geqs, x)
           THEN Return("FALSE") /\ UNCHANGED problem
           ELSE Return("TRUE") /\ problem' = Outer(Fixed(P.geqs, x))
  BY DEF OneVariable
<1>4. x \in Int /\ P.geqs \in SUBSET Over({x}) /\ P.geqs \subseteq Constraints
  BY <1>2, <1>3, ProblemParts
<1>5. \A F \in LinearPoints : Solves(F, P) => Linear(F) /\ \A e \in P.geqs : F[e] >= 0
  BY DEF Solves
<1>6. CASE (\E e \in P.geqs : Constant(e) /\ e.k < 0) \/ Crossed(P.geqs, x)
  <2>1. ~ \E F \in LinearPoints : Solves(F, P)
    <3> SUFFICES ASSUME NEW F \in LinearPoints, Solves(F, P)
                 PROVE  FALSE
      OBVIOUS
    <3>1. Linear(F) /\ \A e \in P.geqs : F[e] >= 0
      BY <1>5
    <3>2. ~Crossed(P.geqs, x)
      BY <1>4, <3>1, CrossedRight
    <3>3. ASSUME NEW e \in P.geqs, Constant(e), e.k < 0
          PROVE  FALSE
      <4>1. e \in Constraints /\ F[e] >= 0
        BY <1>4, <3>1
      <4>2. F[e] = e.k /\ e.k \in Int
        BY <3>1, <3>3, <4>1, LinearValue, ConstraintFacts
      <4> QED
        BY <3>3, <4>1, <4>2
    <3> QED
      BY <1>6, <3>2, <3>3
  <2>2. ~CanBe(Top, Low(stack, ret, Len(stack)))
    BY <1>1, <2>1, Denied
  <2>3. Return("FALSE") /\ UNCHANGED problem
    BY <1>3, <1>6
  <2>4. Told'
    BY <1>1, <2>3, ToldSame
  <2> QED
    BY <1>1, <2>2, <2>3, <2>4, ReturnAction
<1>7. CASE ~((\E e \in P.geqs : Constant(e) /\ e.k < 0) \/ Crossed(P.geqs, x))
  <2>1. Return("TRUE") /\ problem' = Outer(Fixed(P.geqs, x))
    BY <1>3, <1>7
  <2>2. \A F \in LinearPoints : Solves(F, P) => \A q \in Fixed(P.geqs, x) : F[q] = 0
    BY <1>4, <1>5, FixedRight
  <2>3. Fixed(P.geqs, x) \subseteq Over(P.vars)
    BY <1>3, <1>4, FixedOver
  <2> DEFINE Q == Fixed(P.geqs, x)
  <2> HIDE DEF Q
  <2>4. Told'
    BY <1>1, <2>1, <2>2, <2>3, OuterTold
  <2> QED
    BY <1>1, <2>1, <2>4, ReturnAction
<1> QED
  BY <1>6, <1>7

LEMMA FreeFirstKeeps ==
    ASSUME IInv, FreeFirst
    PROVE  IInv'
<1>1. /\ stack # <<>> /\ Top.pc = "geq"
      /\ Become([Top EXCEPT !.pc = "free", !.then = "geq", !.p.freed = TRUE])
      /\ UNCHANGED <<op, given>> /\ UNCHANGED problem /\ wild' \in Int
  BY DEF FreeFirst, Running, Asked, IInv
<1>2. Top \in Frames /\ FrameOK(Top) /\ P = Top.p /\ ProblemOK(P)
  BY <1>1, TopOK
<1>3. Told'
  BY <1>1, ToldSame
<1> DEFINE f == Top
           r == [f.p EXCEPT !.freed = TRUE]
           h == [f EXCEPT !.pc = "free", !.then = "geq", !.p.freed = TRUE]
<1>4. Becomes(f.p, r)
  BY <1>2, FreedBecomes
<1>5. r \in ProblemSet
  BY <1>4 DEF Becomes, ProblemOK
<1> HIDE DEF f
<1>6. f \in Frames
  BY <1>2 DEF f
<1>7. /\ h.p = r /\ h.want = f.want /\ h.timid = f.timid /\ h.pc = "free" /\ h.then = "geq"
      /\ r.eqs = f.p.eqs
  BY <1>6 DEF Frames, ProblemSet
<1>8. h \in Frames
  <2>1. h.p \in ProblemSet
    BY <1>5, <1>7
  <2> QED
    BY <1>6, <2>1 DEF Frames, Early
<1> HIDE DEF h, r
<1>9. EarlyStep(f, h)
  BY <1>1, <1>2, <1>4, <1>7, <1>8 DEF EarlyStep, Early, FrameOK, f
<1>10. Become(h) /\ EarlyStep(Top, h)
  BY <1>1, <1>9 DEF h, f
<1> QED
  BY <1>1, <1>3, <1>10, EarlyAction

LEMMA NormalizeKeeps ==
    ASSUME IInv, Normalize
    PROVE  IInv'
<1>1. /\ stack # <<>> /\ Top.pc = "geq" /\ Top.pc \in Early
      /\ UNCHANGED <<op, given, wild>>
  BY DEF Normalize, Running, Asked, Early
<1>2. Top \in Frames /\ FrameOK(Top) /\ P = Top.p /\ ProblemOK(P) /\ wild \in Int
  BY <1>1, TopOK DEF IInv
<1>3. UNCHANGED <<op, given>> /\ wild' \in Int
  BY <1>1, <1>2
<1>4. P.geqs \in SUBSET Over(P.vars) /\ P.eqs = {}
  BY <1>1, <1>2, ProblemParts DEF FrameOK
<1>5. ASSUME NEW F \in LinearPoints, Solves(F, P)
      PROVE  /\ ~Contradictory(P.geqs)
             /\ Squeezed(P.geqs) \in SUBSET Over(P.vars) /\ \A q \in Squeezed(P.geqs) : F[q] = 0
  <2>1. Linear(F) /\ \A e \in P.geqs : F[e] >= 0
    BY <1>5 DEF Solves
  <2> QED
    BY <1>4, <2>1, NormalizeRight
<1>6. CASE Contradictory(P.geqs) /\ Return("FALSE") /\ UNCHANGED problem
  <2>1. ~CanBe(Top, Low(stack, ret, Len(stack)))
    BY <1>1, <1>5, <1>6, Denied
  <2>2. Told'
    BY <1>1, <1>6, ToldSame
  <2> QED
    BY <1>1, <1>6, <2>1, <2>2, ReturnAction
<1> DEFINE G == Tightest(P.geqs)
           Q == Squeezed(P.geqs)
<1>7. ASSUME problem' = Outer(Q)
      PROVE  Told'
  <2>1. Q \subseteq Over(P.vars)
    <3>1. Q \subseteq {Tighten(e) : e \in P.geqs}
      BY DEF Squeezed, Tightest
    <3>2. \A e \in P.geqs : Tighten(e) \in Over(P.vars)
      BY <1>4, TightenType
    <3> QED
      BY <3>1, <3>2
  <2>2. \A F \in LinearPoints : Solves(F, P) => \A q \in Q : F[q] = 0
    BY <1>5
  <2> HIDE DEF Q
  <2> QED
    BY <1>1, <1>7, <2>1, <2>2, OuterTold
<1>8. CASE problem' = Outer(Q) /\ Become([Top EXCEPT !.p.geqs = G, !.p.eqs = Q, !.pc = "eq"])
  <2> DEFINE f == Top
             r == [f.p EXCEPT !.geqs = G, !.eqs = Q]
             h == [f EXCEPT !.p.geqs = G, !.p.eqs = Q, !.pc = "eq"]
  <2>1. Becomes(f.p, r)
    BY <1>2, NormalizedBecomes
  <2> HIDE DEF f, G, Q
  <2>2. f \in Frames /\ r \in ProblemSet
    BY <1>2, <2>1 DEF f, Becomes, ProblemOK
  <2>3. h.p = r /\ h.want = f.want /\ h.timid = f.timid /\ h.pc = "eq"
    BY <2>2 DEF Frames, ProblemSet
  <2>4. h \in Frames
    <3>1. h.p \in ProblemSet
      BY <2>2, <2>3
    <3> QED
      BY <2>2, <3>1 DEF Frames, Early
  <2> HIDE DEF h, r
  <2>5. EarlyStep(f, h)
    BY <1>1, <2>1, <2>3, <2>4 DEF EarlyStep, Early, f
  <2>6. Become(h) /\ EarlyStep(Top, h)
    BY <1>8, <2>5 DEF h, f
  <2> QED
    BY <1>1, <1>3, <1>7, <1>8, <2>6, EarlyAction
<1>9. CASE problem' = Outer(Q) /\ Return("TRUE")
  BY <1>1, <1>7, <1>9, ReturnAction
<1>10. CASE problem' = Outer(Q) /\ Become([Top EXCEPT !.p.geqs = G, !.pc = "choose"])
  <2> DEFINE f == Top
             r == [f.p EXCEPT !.geqs = G, !.eqs = f.p.eqs]
             h == [f EXCEPT !.p.geqs = G, !.pc = "choose"]
  <2>1. Becomes(f.p, r)
    BY <1>2, NormalizedBecomes
  <2> HIDE DEF f, G, Q
  <2>2. f \in Frames /\ r \in ProblemSet
    BY <1>2, <2>1 DEF f, Becomes, ProblemOK
  <2>3. h.p = r /\ h.want = f.want /\ h.timid = f.timid /\ h.pc = "choose" /\ r.eqs = f.p.eqs
    BY <2>2 DEF Frames, ProblemSet
  <2>4. h \in Frames
    <3>1. h.p \in ProblemSet
      BY <2>2, <2>3
    <3> QED
      BY <2>2, <3>1 DEF Frames, Early
  <2>5. f.p.eqs = {}
    BY <1>2, <1>4 DEF f
  <2> HIDE DEF h, r
  <2>6. EarlyStep(f, h)
    BY <1>1, <2>1, <2>3, <2>4, <2>5 DEF EarlyStep, Early, f
  <2>7. Become(h) /\ EarlyStep(Top, h)
    BY <1>10, <2>6 DEF h, f
  <2> QED
    BY <1>1, <1>3, <1>7, <1>10, <2>7, EarlyAction
<1> HIDE DEF G, Q
<1> QED
  BY <1>6, <1>8, <1>9, <1>10 DEF Normalize, G, Q

LEMMA NothingLeftKeeps ==
    ASSUME IInv, NothingLeft
    PROVE  IInv'
<1>1. stack # <<>> /\ Return("TRUE") /\ UNCHANGED <<op, given, wild>> /\ UNCHANGED problem
  BY DEF NothingLeft, Running, Asked
<1>2. Told'
  BY <1>1, ToldSame
<1> QED
  BY <1>1, <1>2, ReturnAction

-----------------------------------------------------------------------------
(* The eliminations.                                                        *)

LEMMA ChosenFacts ==
    ASSUME IInv, NEW v \in Chosen
    PROVE  /\ stack # <<>> /\ Top.pc = "choose" /\ Top.pc \in Early /\ v \in P.vars /\ v \in Int
           /\ Top \in Frames /\ FrameOK(Top) /\ P = Top.p /\ ProblemOK(P) /\ wild \in Int
           /\ P.eqs = {} /\ P.vars \in SUBSET Int /\ P.geqs \in SUBSET Over(P.vars)
<1>1. Choosing /\ v \in Best(P)
  BY DEF Chosen
<1>2. stack # <<>> /\ Top.pc = "choose" /\ v \in P.vars
  BY <1>1 DEF Choosing, Running, Best
<1>3. Top \in Frames /\ FrameOK(Top) /\ P = Top.p /\ ProblemOK(P) /\ wild \in Int
  BY <1>2, TopOK DEF IInv
<1>4. P.eqs = {} /\ P.vars \in SUBSET Int /\ P.geqs \in SUBSET Over(P.vars)
  BY <1>2, <1>3, ProblemParts DEF FrameOK
<1> QED
  BY <1>2, <1>3, <1>4 DEF Early

LEMMA EliminateToOneKeeps ==
    ASSUME IInv, NEW v \in Chosen, EliminateToOne(v)
    PROVE  IInv'
<1>1. /\ stack # <<>> /\ Top.pc = "choose" /\ Top.pc \in Early /\ v \in P.vars
      /\ P.vars \in SUBSET Int /\ P.geqs \in SUBSET Over(P.vars)
  BY ChosenFacts
<1>2. UNCHANGED <<op, given, wild>>
  BY DEF EliminateToOne, Asked
<1> DEFINE G == Combined(P.geqs, v)
           Q(x) == Fixed(G, x)
<1>3. PICK x \in P.vars \ {v} :
        /\ P.vars = {v, x}
        /\ IF Crossed(G, x) THEN Return("FALSE") /\ UNCHANGED problem
           ELSE /\ Return("TRUE")
                /\ problem' = IF op = "verify" /\ ~Top.timid /\ x \in problem.vars
                              THEN [problem EXCEPT !.eqs = @ \cup Q(x)] ELSE problem
  BY DEF EliminateToOne
<1>4. x \in Int /\ x \in P.vars /\ P.vars \ {v} = {x}
  BY <1>1, <1>3
<1>5. /\ G \subseteq Over({x})
      /\ \A F : Linear(F) /\ (\A e \in P.geqs : F[e] >= 0) => \A e \in G : F[e] >= 0
  <2>1. /\ G \subseteq Over(P.vars \ {v})
        /\ \A F : Linear(F) /\ (\A e \in P.geqs : F[e] >= 0) => \A e \in G : F[e] >= 0
    BY <1>1, CombinedRight
  <2> QED
    BY <1>4, <2>1
<1> HIDE DEF G
<1>6. ASSUME NEW F \in LinearPoints, Solves(F, P)
      PROVE  ~Crossed(G, x) /\ \A q \in Q(x) : F[q] = 0
  <2>1. Linear(F) /\ \A e \in G : F[e] >= 0
    BY <1>5, <1>6 DEF Solves
  <2> QED
    BY <1>4, <1>5, <2>1, CrossedRight, FixedRight
<1>7. CASE Crossed(G, x)
  <2>1. ~CanBe(Top, Low(stack, ret, Len(stack)))
    BY <1>1, <1>6, <1>7, Denied
  <2>2. Return("FALSE") /\ UNCHANGED problem
    BY <1>3, <1>7
  <2>3. Told'
    BY <1>2, <2>2, ToldSame
  <2> QED
    BY <1>1, <1>2, <2>1, <2>2, <2>3, ReturnAction
<1>8. CASE ~Crossed(G, x)
  <2>1. Return("TRUE")
    BY <1>3, <1>8
  <2>2. Told'
    <3>1. CASE op = "verify" /\ ~Top.timid /\ x \in problem.vars
      <4>1. Follows(Top, given)
        BY <1>1, <3>1, TopOK DEF Tracked
      <4>2. problem' = [problem EXCEPT !.eqs = @ \cup Q(x)]
        BY <1>3, <1>8, <3>1
      <4>3. Q(x) \subseteq Over({x})
        BY <1>4, <1>5, FixedOver
      <4>4. \A F \in LinearPoints : Solves(F, P) => \A q \in Q(x) : F[q] = 0
        BY <1>6
      <4>5. {x} \subseteq problem.vars /\ {x} \subseteq P.vars
        BY <1>4, <3>1
      <4> HIDE DEF Q
      <4> QED
        BY <1>2, <4>1, <4>2, <4>3, <4>4, <4>5, ToldMore
    <3>2. CASE ~(op = "verify" /\ ~Top.timid /\ x \in problem.vars)
      <4>1. UNCHANGED problem
        BY <1>3, <1>8, <3>2
      <4> QED
        BY <1>2, <4>1, ToldSame
    <3> QED
      BY <3>1, <3>2
  <2> QED
    BY <1>1, <1>2, <2>1, <2>2, ReturnAction
<1> QED
  BY <1>7, <1>8

LEMMA EliminateKeeps ==
    ASSUME IInv, NEW v \in Chosen, Eliminate(v)
    PROVE  IInv'
<1>1. /\ stack # <<>> /\ Top.pc = "choose" /\ v \in P.vars
      /\ Top \in Frames /\ FrameOK(Top) /\ P = Top.p /\ ProblemOK(P) /\ wild \in Int
      /\ P.eqs = {} /\ P.vars \in SUBSET Int /\ P.geqs \in SUBSET Over(P.vars)
  BY ChosenFacts
<1>2. UNCHANGED <<op, given, wild>> /\ UNCHANGED problem /\ wild' \in Int
  BY <1>1 DEF Eliminate, Asked
<1>3. Told'
  BY <1>2, ToldSame
<1> DEFINE f == Top
           h1 == [f EXCEPT !.pc = "free", !.then = "choose"]
           G == Combined(P.geqs, v)
           V == P.vars \ {v}
           c == IF Pairs(P.geqs, v) = {} THEN "choose" ELSE "geq"
           h2 == [f EXCEPT !.p.vars = @ \ {v}, !.p.geqs = Combined(@, v), !.pc = c]
           r == [f.p EXCEPT !.vars = V, !.geqs = G]
<1>4. CASE Become(h1)
  <2> HIDE DEF f
  <2>1. f \in Frames
    BY <1>1 DEF f
  <2>2. h1 \in Frames /\ h1.p = f.p /\ h1.pc = "free" /\ h1.then = "choose" /\ h1.want = f.want
        /\ h1.timid = f.timid
    BY <2>1 DEF Frames, Early
  <2> HIDE DEF h1
  <2>3. Becomes(f.p, h1.p)
    BY <1>1, <2>2, BecomesSame DEF f
  <2>4. EarlyStep(f, h1)
    BY <1>1, <2>2, <2>3 DEF EarlyStep, Early, f
  <2>5. Become(h1) /\ EarlyStep(Top, h1)
    BY <1>4, <2>4 DEF f
  <2> QED
    BY <1>1, <1>2, <1>3, <2>5, EarlyAction
<1>5. CASE Become(h2)
  <2>1. G \subseteq Over(V)
    BY <1>1, CombinedRight
  <2>2. V \in SUBSET Int /\ G \in SUBSET Constraints /\ c \in {"choose", "geq"}
    BY <1>1, <2>1 DEF Over
  <2> HIDE DEF f, G, V, c
  <2>3. f \in Frames /\ f.p \in ProblemSet /\ f.p = P
    BY <1>1 DEF f, ProblemOK
  <2>4. r \in ProblemSet /\ r.vars = V /\ r.eqs = f.p.eqs /\ r.geqs = G
    BY <2>2, <2>3 DEF ProblemSet
  <2>5. h2.p = r /\ h2.want = f.want /\ h2.timid = f.timid /\ h2.pc = c
    BY <2>3 DEF Frames, ProblemSet, G, V
  <2> HIDE DEF r
  <2>6. h2 \in Frames
    <3>1. h2.p \in ProblemSet
      BY <2>4, <2>5
    <3> QED
      BY <2>2, <2>3, <3>1 DEF Frames, Early
  <2> HIDE DEF h2
  <2>7. Becomes(f.p, r)
    BY <1>1, <2>3, <2>4, CombinedBecomes DEF G, V
  <2>8. EarlyStep(f, h2)
    <3>1. h2.pc \in Early /\ h2.pc # "free" /\ h2.p.eqs = {}
      BY <1>1, <2>2, <2>3, <2>4, <2>5 DEF Early
    <3> QED
      BY <1>1, <2>5, <2>6, <2>7, <3>1 DEF EarlyStep, Early, f
  <2>9. Become(h2) /\ EarlyStep(Top, h2)
    BY <1>5, <2>8 DEF f
  <2> QED
    BY <1>1, <1>2, <1>3, <2>9, EarlyAction
<1> QED
  BY <1>4, <1>5 DEF Eliminate

LEMMA CallAction ==
    ASSUME IInv, stack # <<>>, NEW f, NEW c, CallFrom(f, c),
           FrameOK(f), f.want = Top.want, FrameOK(c),
           CanBe(Top, Low(stack, ret, Len(stack))) => CanBe(f, -1),
           Tracked(f) => Follows(f, given),
           c.want = "FALSE" => f.pc \in {"real", "feasible"},
           (\E F \in LinearPoints : AskedAt(f, F)) => CanBe(c, 0),
           Tracked(c) => Follows(c, given),
           UNCHANGED <<op, given, wild>>, UNCHANGED problem
    PROVE  IInv'
<1>1. StackOK(stack, ret, given)
  BY DEF IInv
<1>2. StackOK(Front(stack) \o <<f, c>>, "none", given)
  BY <1>1, CallKeeps DEF Top
<1>3. stack' = Front(stack) \o <<f, c>> /\ ret' = "none"
  BY DEF CallFrom
<1>4. Told'
  BY ToldSame
<1> QED
  BY <1>2, <1>3, <1>4 DEF IInv

LEMMA BecomeAction ==
    ASSUME IInv, stack # <<>>, NEW f, Become(f), FrameOK(f), f.want = Top.want,
           CanBe(Top, Low(stack, ret, Len(stack))) => CanBe(f, 0),
           Tracked(f) => Follows(f, given),
           UNCHANGED <<op, given, wild>>, UNCHANGED problem
    PROVE  IInv'
<1>1. StackOK(stack, ret, given)
  BY DEF IInv
<1>2. StackOK(Append(Front(stack), f), "none", given)
  BY <1>1, BecomeKeeps DEF Top
<1>3. stack' = Append(Front(stack), f) /\ ret' = "none"
  BY DEF Become
<1>4. Told'
  BY ToldSame
<1> QED
  BY <1>2, <1>3, <1>4 DEF IInv

\* A call that begins.
LEMMA CallOnFacts ==
    ASSUME NEW p, ProblemOK(p), NEW want \in {"UNKNOWN", "FALSE"}, NEW pc \in {"eq", "geq"},
           NEW timid \in BOOLEAN, pc # "eq" => p.eqs = {}
    PROVE  /\ FrameOK(CallOn(p, want, pc, timid))
           /\ CallOn(p, want, pc, timid).p = p /\ CallOn(p, want, pc, timid).want = want
           /\ CallOn(p, want, pc, timid).timid = timid
           /\ \A F \in LinearPoints : Solves(F, p) => CanBe(CallOn(p, want, pc, timid), 0)
<1> DEFINE c == CallOn(p, want, pc, timid)
<1>1. p \in ProblemSet
  BY DEF ProblemOK
<1>2. c \in Frames /\ c.p = p /\ c.want = want /\ c.pc = pc /\ c.timid = timid
  BY <1>1 DEF CallOn, Frames, Early
<1> HIDE DEF c
<1>3. FrameOK(c)
  BY <1>2 DEF FrameOK, Early
<1>4. ASSUME NEW F \in LinearPoints, Solves(F, p)
      PROVE  CanBe(c, 0)
  <2>1. Open(c, 0, F)
    BY <1>2, <1>4 DEF Open
  <2> QED
    BY <2>1 DEF CanBe
<1> QED
  BY <1>2, <1>3, <1>4 DEF c

LEMMA TryRealKeeps ==
    ASSUME IInv, NEW v \in Chosen, TryReal(v)
    PROVE  IInv'
<1>1. /\ stack # <<>> /\ Top.pc = "choose" /\ v \in P.vars /\ v \in Int
      /\ Top \in Frames /\ FrameOK(Top) /\ P = Top.p /\ ProblemOK(P)
      /\ P.eqs = {} /\ P.vars \in SUBSET Int /\ P.geqs \in SUBSET Over(P.vars)
  BY ChosenFacts
<1>2. UNCHANGED <<op, given, wild>> /\ UNCHANGED problem
  BY DEF TryReal, Asked
<1> DEFINE t == Top
           f == [t EXCEPT !.pc = "real", !.v = v]
           G == Combined(P.geqs, v)
           q == ShadowProblem(G, v)
           c == CallOn(q, "FALSE", "geq", Top.timid)
<1>3. CallFrom(f, c)
  BY DEF TryReal
<1>4. Becomes(P, q) /\ q.eqs = {} /\ q.geqs = G
  <2>1. G \subseteq Over(P.vars \ {v})
    BY <1>1, CombinedRight
  <2>2. P.vars \ {v} \in SUBSET Int /\ G \in SUBSET Constraints
    BY <1>1, <2>1 DEF Over
  <2> HIDE DEF G
  <2>3. q \in ProblemSet
    BY <2>2, ShadowProblemSet DEF ShadowProblem
  <2>4. q.vars = P.vars \ {v} /\ q.eqs = {} /\ q.geqs = G
    BY DEF ShadowProblem
  <2> HIDE DEF q
  <2>5. Becomes(P, q)
    BY <1>1, <2>3, <2>4, CombinedBecomes DEF G
  <2> QED
    BY <2>4, <2>5
<1> HIDE DEF G, q, t
<1>5. t \in Frames /\ t.p = P
  BY <1>1 DEF t
<1>6. f \in Frames /\ f.p = P /\ f.pc = "real" /\ f.v = v /\ f.want = t.want /\ f.timid = t.timid
  BY <1>1, <1>5 DEF Frames
<1> HIDE DEF f
<1>7. FrameOK(f)
  BY <1>1, <1>6 DEF FrameOK
<1>8. Top.timid \in BOOLEAN
  BY <1>1 DEF Frames
<1>9. ProblemOK(q)
  BY <1>4 DEF Becomes
<1>10. FrameOK(c) /\ c.p = q /\ c.timid = Top.timid /\ \A F \in LinearPoints : Solves(F, q) => CanBe(c, 0)
  BY <1>4, <1>8, <1>9, CallOnFacts
<1> HIDE DEF c
<1>11. CanBe(Top, Low(stack, ret, Len(stack))) => CanBe(f, -1)
  BY <1>1, <1>6 DEF CanBe, Open
<1>12. Tracked(Top) => Follows(Top, given)
  BY <1>1, TopOK
<1>13. Tracked(f) => Follows(f, given)
  BY <1>1, <1>6, <1>12 DEF Tracked, Early, Follows, t
<1>14. Tracked(c) => Follows(c, given)
  <2>1. NoWildcards(given)
    BY GivenFacts DEF IInv
  <2>2. Tracked(c) => Tracked(Top)
    BY <1>1, <1>10 DEF Tracked, Early
  <2>3. Becomes(Top.p, c.p)
    BY <1>1, <1>4, <1>10
  <2> QED
    BY <1>12, <2>1, <2>2, <2>3, BecomesFollows
<1>15. (\E F \in LinearPoints : AskedAt(f, F)) => CanBe(c, 0)
  <2> SUFFICES ASSUME NEW F \in LinearPoints, AskedAt(f, F)
               PROVE  CanBe(c, 0)
    OBVIOUS
  <2>1. Linear(F) /\ \A e \in Combined(P.geqs, v) : F[e] >= 0
    BY <1>6 DEF AskedAt
  <2>2. Solves(F, q)
    BY <1>4, <2>1 DEF Solves, G
  <2> QED
    BY <1>10, <2>2
<1>16. f.pc \in {"real", "feasible"} /\ f.want = Top.want
  BY <1>6 DEF t
<1> QED
  BY <1>1, <1>2, <1>3, <1>7, <1>10, <1>11, <1>13, <1>14, <1>15, <1>16, CallAction

LEMMA FrameParts ==
    ASSUME NEW f, FrameOK(f), f.pc \in {"real", "dark", "lowers", "splinter", "feasible"}
    PROVE  /\ f \in Frames /\ f.p \in ProblemSet /\ ProblemOK(f.p) /\ f.p.eqs = {}
           /\ f.v \in f.p.vars /\ f.v \in Int /\ f.p.vars \in SUBSET Int
           /\ f.p.geqs \in SUBSET Over(f.p.vars) /\ f.p.geqs \in SUBSET Constraints
           /\ IsFiniteSet(f.p.geqs)
<1>1. f \in Frames /\ ProblemOK(f.p) /\ f.p.eqs = {} /\ f.v \in f.p.vars
  BY DEF FrameOK, Early
<1> QED
  BY <1>1, ProblemParts DEF ProblemOK

LEMMA MaxIncrFacts ==
    ASSUME NEW G \in SUBSET Constraints, IsFiniteSet(G), NEW v \in Int, NEW e \in Constraints
    PROVE  /\ MaxIncr(G, v, e) \in Int
           /\ \A H : Uppers(H, v) = Uppers(G, v) => MaxIncr(H, v, e) = MaxIncr(G, v, e)
<1> DEFINE w == Worst(G, v)
           x == (Coef(e, v) - 1) * (w - 1) - 1
<1>1. w \in Int /\ w >= 1 /\ Coef(e, v) \in Int
  BY WorstFacts, CoefFacts
<1>2. MaxIncr(G, v, e) = x \div w
  BY DEF MaxIncr, Worst
<1> HIDE DEF w
<1>3. x \in Int /\ w > 0
  BY <1>1
<1> HIDE DEF x
<1>4. x \div w \in Int
  BY <1>1, <1>3, DivMod
<1>5. \A H : Uppers(H, v) = Uppers(G, v) => MaxIncr(H, v, e) = MaxIncr(G, v, e)
  BY DEF MaxIncr
<1> QED
  BY <1>2, <1>4, <1>5

\* What is left when the dark shadow has no point above it, or there is none.
LEMMA ToLowersFacts ==
    ASSUME IInv, stack # <<>>, Top.pc \in {"real", "dark"}, Top.want # "FALSE"
    PROVE  /\ FrameOK(ToLowers) /\ ToLowers.want = Top.want /\ ~Tracked(ToLowers)
           /\ \A G \in LinearPoints, m \in AllPairs(P.geqs, Top.v) :
                /\ Solves(G, P)
                /\ G[DarkShadow(m, Top.v)] < 0 \/ m \in ParallelGaps(P.geqs, Top.v)
                => CanBe(ToLowers, 0)
<1> DEFINE t == Top
           T == {e \in Lowers(t.p.geqs, t.v) : Coef(e, t.v) > 1}
           f == [t EXCEPT !.pc = "lowers", !.todo = T]
<1>1. FrameOK(Top) /\ P = Top.p
  BY TopOK
<1>2. ToLowers = f
  BY DEF ToLowers, P
<1>3. /\ t \in Frames /\ t.p \in ProblemSet /\ ProblemOK(t.p) /\ t.p.eqs = {}
      /\ t.v \in t.p.vars /\ t.v \in Int /\ t.p.vars \in SUBSET Int
      /\ t.p.geqs \in SUBSET Over(t.p.vars) /\ t.p.geqs \in SUBSET Constraints
      /\ IsFiniteSet(t.p.geqs)
  BY <1>1, FrameParts
<1>4. t.p = P /\ t.v = Top.v /\ t.want = Top.want /\ t.want # "FALSE"
  BY <1>1
<1> HIDE DEF t
<1>5. T \subseteq Lowers(t.p.geqs, t.v) /\ T \in SUBSET Constraints
  BY <1>3 DEF Lowers
<1> HIDE DEF T
<1>6. /\ f \in Frames /\ f.p = t.p /\ f.v = t.v /\ f.pc = "lowers" /\ f.todo = T
      /\ f.want = t.want
  BY <1>3, <1>5 DEF Frames
<1> HIDE DEF f
<1>7. FrameOK(f) /\ ~Tracked(f)
  BY <1>3, <1>4, <1>5, <1>6 DEF FrameOK, Tracked, Early
<1>8. ASSUME NEW G \in LinearPoints, NEW m \in AllPairs(t.p.geqs, t.v), Solves(G, t.p),
             G[DarkShadow(m, t.v)] < 0 \/ m \in ParallelGaps(t.p.geqs, t.v)
      PROVE  CanBe(f, 0)
  <2>1. Linear(G) /\ \A e \in t.p.geqs : G[e] >= 0
    BY <1>8 DEF Solves
  <2>2. /\ m[1] \in Lowers(t.p.geqs, t.v) /\ Coef(m[1], t.v) > 1
        /\ G[m[1]] <= MaxIncr(t.p.geqs, t.v, m[1])
    BY <1>3, <1>8, <2>1, DarkTried
  <2>3. m[1] \in f.todo
    BY <1>6, <2>2 DEF T
  <2>4. Close(f, G)
    BY <1>6, <2>2, <2>3 DEF Close
  <2>5. Open(f, 0, G)
    BY <1>6, <1>8, <2>4 DEF Open
  <2> QED
    BY <2>5 DEF CanBe
<1> QED
  BY <1>2, <1>4, <1>6, <1>7, <1>8

LEMMA AfterRealKeeps ==
    ASSUME IInv, AfterReal
    PROVE  IInv'
<1>1. /\ stack # <<>> /\ Top.pc = "real"
      /\ UNCHANGED <<op, given, wild>> /\ UNCHANGED problem
  BY DEF AfterReal, Resumed, Asked
<1>2. FrameOK(Top) /\ P = Top.p /\ (ret = "FALSE" => ~ \E F \in LinearPoints : AskedAt(Top, F))
  BY <1>1, TopOK
<1>3. Told'
  BY <1>1, ToldSame
<1> DEFINE t == Top
           D == Dark(P.geqs, Top.v)
           f == [t EXCEPT !.pc = "dark"]
           q == ShadowProblem(D, Top.v)
           c == CallOn(q, Top.want, "geq", TRUE)
<1>4. /\ t \in Frames /\ t.p \in ProblemSet /\ ProblemOK(t.p) /\ t.p.eqs = {}
      /\ t.v \in t.p.vars /\ t.v \in Int /\ t.p.vars \in SUBSET Int
      /\ t.p.geqs \in SUBSET Over(t.p.vars) /\ t.p.geqs \in SUBSET Constraints
      /\ IsFiniteSet(t.p.geqs)
  BY <1>1, <1>2, FrameParts
<1>5. CASE ret = "FALSE" /\ Return("FALSE")
  <2>1. ASSUME NEW F \in LinearPoints, Solves(F, Top.p)
        PROVE  FALSE
    <3>1. Linear(F) /\ \A e \in Top.p.geqs : F[e] >= 0
      BY <2>1 DEF Solves
    <3>2. \A e \in Combined(Top.p.geqs, Top.v) : F[e] >= 0
      BY <1>4, <3>1, CombinedRight
    <3>3. AskedAt(Top, F)
      BY <1>1, <3>1, <3>2 DEF AskedAt
    <3> QED
      BY <1>2, <1>5, <3>3
  <2>2. ~CanBe(Top, Low(stack, ret, Len(stack)))
    BY <1>1, <1>2, <2>1, Denied
  <2> QED
    BY <1>1, <1>3, <1>5, <2>2, ReturnAction
<1>6. CASE Top.want = "FALSE" /\ Return("UNKNOWN")
  BY <1>1, <1>3, <1>6, ReturnAction
<1>7. CASE Top.want # "FALSE" /\ CallFrom(f, c)
  <2>1. D \subseteq Over(t.p.vars \ {t.v}) /\ IsFiniteSet(D)
    BY <1>2, <1>4, DarkOver, FiniteDark
  <2>2. t.p.vars \ {t.v} \in SUBSET Int
    BY <1>4
  <2>3. q = [vars |-> t.p.vars \ {t.v}, eqs |-> {}, geqs |-> D, freed |-> FALSE]
    BY <1>2 DEF ShadowProblem
  <2>4. q.eqs = {} /\ q.geqs = D
    BY <2>3
  <2> HIDE DEF D
  <2>5. ProblemOK([vars |-> t.p.vars \ {t.v}, eqs |-> {}, geqs |-> D, freed |-> FALSE])
    <3>1. {} \in SUBSET Over(t.p.vars \ {t.v}) /\ D \in SUBSET Over(t.p.vars \ {t.v})
      BY <2>1
    <3> QED
      BY <2>1, <2>2, <3>1, ProblemFromParts
  <2>6. ProblemOK(q)
    BY <2>3, <2>5
  <2> HIDE DEF q
  <2>7. Top.want \in {"UNKNOWN", "FALSE"}
    BY <1>4 DEF Frames
  <2>8. /\ FrameOK(c) /\ c.want = Top.want /\ c.timid = TRUE
        /\ \A F \in LinearPoints : Solves(F, q) => CanBe(c, 0)
    <3> DEFINE want == Top.want
               yes == TRUE
    <3>1. yes \in BOOLEAN /\ want \in {"UNKNOWN", "FALSE"}
      BY <2>7
    <3>2. c = CallOn(q, want, "geq", yes)
      OBVIOUS
    <3> HIDE DEF c, want, yes
    <3>3. /\ FrameOK(c) /\ c.want = want /\ c.timid = yes
          /\ \A F \in LinearPoints : Solves(F, q) => CanBe(c, 0)
      BY <2>4, <2>6, <3>1, <3>2, CallOnFacts
    <3> QED
      BY <3>3 DEF want, yes
  <2> HIDE DEF c
  <2>9. f \in Frames /\ f.p = t.p /\ f.pc = "dark" /\ f.v = t.v /\ f.want = t.want
    <3> HIDE DEF t
    <3> QED
      BY <1>4 DEF Frames
  <2>10. CanBe(Top, Low(stack, ret, Len(stack))) => CanBe(f, -1)
    BY <1>1, <2>9 DEF CanBe, Open
  <2>11. FrameOK(f) /\ ~Tracked(f) /\ ~Tracked(c)
    <3>1. t.want # "FALSE"
      BY <1>7
    <3> HIDE DEF t, f
    <3> QED
      BY <1>4, <2>8, <2>9, <3>1 DEF FrameOK, Tracked, Early
  <2> HIDE DEF f
  <2>12. ASSUME NEW F \in LinearPoints, AskedAt(f, F)
         PROVE  CanBe(c, 0)
    <3>1. Linear(F) /\ \A e \in D : F[e] >= 0
      BY <1>2, <2>9, <2>12 DEF AskedAt, D
    <3>2. Solves(F, q)
      BY <2>4, <3>1 DEF Solves
    <3> QED
      BY <2>8, <3>2
  <2> QED
    BY <1>1, <1>7, <2>8, <2>9, <2>10, <2>11, <2>12, CallAction
<1>8. CASE Top.want # "FALSE" /\ ~DarkShadowFeasible(P.geqs, Top.v) /\ Become(ToLowers)
  <2>1. PICK m \in AllPairs(P.geqs, Top.v) : m \in ParallelGaps(P.geqs, Top.v)
    BY <1>8 DEF DarkShadowFeasible, ParallelGaps
  <2>2. CanBe(Top, Low(stack, ret, Len(stack))) => \E G \in LinearPoints : Solves(G, P)
    BY <1>2, EarlyOpen
  <2>3. FrameOK(ToLowers) /\ ToLowers.want = Top.want /\ ~Tracked(ToLowers)
    BY <1>1, <1>8, ToLowersFacts
  <2>4. CanBe(Top, Low(stack, ret, Len(stack))) => CanBe(ToLowers, 0)
    BY <1>1, <1>8, <2>1, <2>2, ToLowersFacts
  <2> QED
    BY <1>1, <1>8, <2>3, <2>4, BecomeAction
<1> QED
  BY <1>5, <1>6, <1>7, <1>8 DEF AfterReal, Dark

LEMMA AfterDarkKeeps ==
    ASSUME IInv, AfterDark
    PROVE  IInv'
<1>1. /\ stack # <<>> /\ Top.pc = "dark" /\ ret # "none"
      /\ UNCHANGED <<op, given, wild>> /\ UNCHANGED problem
  BY DEF AfterDark, Resumed, Asked
<1>2. /\ FrameOK(Top) /\ P = Top.p
      /\ ret = "FALSE" => ~ \E F \in LinearPoints : AskedAt(Top, F)
      /\ ret # "UNKNOWN" /\ ret \in {"none", "TRUE", "FALSE", "UNKNOWN"}
  BY <1>1, TopOK DEF IInv, StackOK
<1>3. Told'
  BY <1>1, ToldSame
<1>4. /\ Top.p.vars \in SUBSET Int /\ Top.v \in Top.p.vars
      /\ Top.p.geqs \in SUBSET Over(Top.p.vars) /\ Top.p.geqs \in SUBSET Constraints
  BY <1>1, <1>2, FrameParts
<1>5. CASE ret # "FALSE"
  <2>1. ret = "TRUE" /\ Return("TRUE")
    BY <1>1, <1>2, <1>5 DEF AfterDark
  <2> QED
    BY <1>1, <1>3, <2>1, ReturnAction
<1>6. CASE ret = "FALSE"
  <2>1. Become(ToLowers) /\ Top.want # "FALSE"
    BY <1>1, <1>2, <1>6 DEF AfterDark, FrameOK
  <2>2. FrameOK(ToLowers) /\ ToLowers.want = Top.want /\ ~Tracked(ToLowers)
    BY <1>1, <2>1, ToLowersFacts
  <2>3. ASSUME NEW G \in LinearPoints, Solves(G, P)
        PROVE  CanBe(ToLowers, 0)
    <3>1. Linear(G) /\ \A e \in P.geqs : G[e] >= 0
      BY <2>3 DEF Solves
    <3>2. ~AskedAt(Top, G)
      BY <1>2, <1>6
    <3>3. PICK e \in Dark(P.geqs, Top.v) : ~(G[e] >= 0)
      BY <1>1, <1>2, <3>1, <3>2 DEF AskedAt
    <3>4. e \notin Without(P.geqs, Top.v)
      BY <3>1, <3>3 DEF Without
    <3>5. PICK m \in Pairs(P.geqs, Top.v) : e = DarkShadow(m, Top.v)
      BY <3>3, <3>4 DEF Dark
    <3>6. m \in AllPairs(P.geqs, Top.v)
      BY DEF Pairs, AllPairs
    <3>7. e \in Constraints
      <4>1. e \in Over(P.vars \ {Top.v})
        BY <1>2, <1>4, <3>3, DarkOver
      <4> QED
        BY <4>1 DEF Over
    <3>8. G[e] \in Int
      BY <3>1, <3>7, LinearValue
    <3>9. G[DarkShadow(m, Top.v)] < 0
      BY <3>3, <3>5, <3>8
    <3> QED
      BY <1>1, <2>1, <2>3, <3>6, <3>9, ToLowersFacts
  <2>4. CanBe(Top, Low(stack, ret, Len(stack))) => CanBe(ToLowers, 0)
    BY <1>2, <2>3, EarlyOpen
  <2> QED
    BY <1>1, <2>1, <2>2, <2>4, BecomeAction
<1> QED
  BY <1>5, <1>6

LEMMA TopLow ==
    ASSUME IInv, stack # <<>>
    PROVE  /\ ret = "none" => Low(stack, ret, Len(stack)) = 0
           /\ ret # "none" => Low(stack, ret, Len(stack)) = -1
<1>1. stack \in Seq(Frames)
  BY DEF IInv, StackOK
<1>2. Len(stack) \in Nat
  BY <1>1, FrontFacts
<1> QED
  BY <1>2 DEF Low

\* The lower bound e is no upper bound: without it MaxIncr is the same.
LEMMA LowerApart ==
    ASSUME NEW G \in SUBSET Constraints, NEW v \in Int, NEW e \in Constraints, Coef(e, v) > 0
    PROVE  Uppers(G \ {e}, v) = Uppers(G, v) /\ Uppers(G \cup {e}, v) = Uppers(G, v)
<1>1. Coef(e, v) \in Int
  BY CoefFacts
<1>2. ~(Coef(e, v) < 0)
  BY <1>1
<1> QED
  BY <1>2 DEF Uppers

LEMMA NextLowerKeeps ==
    ASSUME IInv, NextLower
    PROVE  IInv'
<1>1. /\ stack # <<>> /\ Top.pc = "lowers" /\ ret = "none"
      /\ UNCHANGED <<op, given, wild>> /\ UNCHANGED problem
  BY DEF NextLower, Running, Asked
<1>2. FrameOK(Top) /\ P = Top.p
  BY <1>1, TopOK
<1> DEFINE t == Top
<1>3. /\ t \in Frames /\ t.p \in ProblemSet /\ ProblemOK(t.p) /\ t.p.eqs = {}
      /\ t.v \in t.p.vars /\ t.v \in Int /\ t.p.vars \in SUBSET Int
      /\ t.p.geqs \in SUBSET Over(t.p.vars) /\ t.p.geqs \in SUBSET Constraints
      /\ IsFiniteSet(t.p.geqs)
  BY <1>1, <1>2, FrameParts
<1>4. t.want # "FALSE" /\ t.pc = "lowers" /\ t.todo \subseteq Lowers(t.p.geqs, t.v)
  BY <1>1, <1>2 DEF FrameOK
<1>5. PICK e \in t.todo :
        Become([t EXCEPT !.pc = "splinter", !.lower = {e}, !.todo = @ \ {e},
                         !.left = MaxIncr(t.p.geqs, t.v, e), !.p.geqs = @ \ {e}])
  BY <1>2 DEF NextLower
<1> DEFINE f == [t EXCEPT !.pc = "splinter", !.lower = {e}, !.todo = @ \ {e},
                          !.left = MaxIncr(t.p.geqs, t.v, e), !.p.geqs = @ \ {e}]
           r == [t.p EXCEPT !.geqs = @ \ {e}]
<1>6. CanBe(Top, 0) => CanBe(t, 0)
  OBVIOUS
<1>7. t.want = Top.want
  OBVIOUS
<1> HIDE DEF t
<1>8. e \in t.p.geqs /\ e \in Constraints /\ e \in Over(t.p.vars) /\ Coef(e, t.v) > 0
  BY <1>3, <1>4 DEF Lowers
<1>9. /\ MaxIncr(t.p.geqs, t.v, e) \in Int
      /\ \A d \in Constraints : MaxIncr(t.p.geqs \ {e}, t.v, d) = MaxIncr(t.p.geqs, t.v, d)
  <2>1. Uppers(t.p.geqs \ {e}, t.v) = Uppers(t.p.geqs, t.v)
    BY <1>3, <1>8, LowerApart
  <2> QED
    BY <1>3, <1>8, <2>1, MaxIncrFacts
<1>10. r \in ProblemSet /\ r.vars = t.p.vars /\ r.eqs = {} /\ r.geqs = t.p.geqs \ {e}
  BY <1>3 DEF ProblemSet
<1>11. ProblemOK(r)
  <2>1. IsFiniteSet(t.p.geqs \ {e})
    BY <1>3, FS_Subset
  <2> HIDE DEF r
  <2> QED
    BY <1>3, <1>10, <2>1 DEF ProblemOK
<1>12. /\ f.p = r /\ f.pc = "splinter" /\ f.want = t.want /\ f.v = t.v /\ f.lower = {e}
       /\ f.todo = t.todo \ {e} /\ f.left = MaxIncr(t.p.geqs, t.v, e)
  BY <1>3 DEF Frames, ProblemSet
<1>13. f \in Frames
  <2>1. f.p \in ProblemSet /\ f.left \in Int
    BY <1>9, <1>10, <1>12
  <2>2. {e} \in SUBSET Constraints
    BY <1>8
  <2> QED
    BY <1>3, <2>1, <2>2 DEF Frames
<1> HIDE DEF f, r
<1>14. FrameOK(f) /\ ~Tracked(f)
  <2>1. f.todo \subseteq Lowers(f.p.geqs, f.v)
    BY <1>4, <1>10, <1>12 DEF Lowers
  <2>2. e \in Over(f.p.vars) /\ Coef(e, f.v) > 0 /\ f.lower = {e}
    BY <1>8, <1>10, <1>12
  <2> QED
    BY <1>3, <1>4, <1>10, <1>11, <1>12, <1>13, <2>1, <2>2 DEF FrameOK, Tracked, Early
<1>15. ASSUME NEW G \in LinearPoints, Open(t, 0, G)
       PROVE  Open(f, 0, G)
  <2>1. Solves(G, t.p) /\ Close(t, G)
    BY <1>4, <1>15 DEF Open
  <2>2. Solves(G, f.p) /\ G[e] >= 0
    BY <1>8, <1>10, <1>12, <2>1 DEF Solves
  <2>3. PICK d \in t.todo : G[d] <= MaxIncr(t.p.geqs, t.v, d)
    BY <2>1 DEF Close
  <2>4. G[e] <= f.left \/ Close(f, G)
    <3>1. CASE d = e
      BY <1>12, <2>3, <3>1
    <3>2. CASE d # e
      <4>1. d \in f.todo /\ d \in Constraints
        BY <1>3, <1>4, <1>12, <3>2 DEF Lowers
      <4>2. G[d] <= MaxIncr(f.p.geqs, f.v, d)
        BY <1>9, <1>10, <1>12, <2>3, <4>1
      <4> QED
        BY <4>1, <4>2 DEF Close
    <3> QED
      BY <3>1, <3>2
  <2> QED
    BY <1>12, <2>2, <2>4 DEF Open
<1>16. CanBe(Top, Low(stack, ret, Len(stack))) => CanBe(f, 0)
  <2>1. Low(stack, ret, Len(stack)) = 0
    BY <1>1, TopLow
  <2> QED
    BY <1>6, <1>15, <2>1 DEF CanBe
<1>17. Become(f) /\ f.want = Top.want
  BY <1>5, <1>7, <1>12 DEF f
<1> QED
  BY <1>1, <1>14, <1>16, <1>17, BecomeAction

\* The call at the top in a splinter.
LEMMA SplinterFacts ==
    ASSUME IInv, stack # <<>>, Top.pc = "splinter"
    PROVE  /\ Top \in Frames /\ FrameOK(Top) /\ P = Top.p /\ ProblemOK(Top.p)
           /\ Top.p \in ProblemSet /\ Top.p.eqs = {}
           /\ Top.p.vars \in SUBSET Int /\ Top.v \in Top.p.vars /\ Top.v \in Int
           /\ Top.p.geqs \in SUBSET Over(Top.p.vars) /\ Top.p.geqs \in SUBSET Constraints
           /\ IsFiniteSet(Top.p.geqs)
           /\ Top.want # "FALSE" /\ Top.todo \subseteq Lowers(Top.p.geqs, Top.v) /\ Top.left \in Int
           /\ \E l \in Over(Top.p.vars) :
                /\ l \in Constraints /\ Coef(l, Top.v) > 0 /\ Top.lower = {l}
                /\ \A low, G : Open(Top, low, G) <=>
                     Solves(G, Top.p) /\ G[l] >= low /\ (G[l] <= Top.left \/ Close(Top, G))
<1>1. FrameOK(Top) /\ P = Top.p
  BY TopOK
<1>2. PICK l \in Over(Top.p.vars) : Coef(l, Top.v) > 0 /\ Top.lower = {l}
  BY <1>1 DEF FrameOK
<1>3. \A low, G : Open(Top, low, G) <=>
         Solves(G, Top.p) /\ G[l] >= low /\ (G[l] <= Top.left \/ Close(Top, G))
  BY <1>2 DEF Open
<1>4. l \in Constraints
  BY DEF Over
<1>5. Top.want # "FALSE" /\ Top.todo \subseteq Lowers(Top.p.geqs, Top.v)
  BY <1>1 DEF FrameOK
<1>6. Top \in Frames /\ Top.left \in Int
  BY <1>1 DEF FrameOK, Frames
<1> QED
  BY <1>1, <1>2, <1>3, <1>4, <1>5, <1>6, FrameParts

LEMMA TrySplinterKeeps ==
    ASSUME IInv, TrySplinter
    PROVE  IInv'
<1>1. /\ stack # <<>> /\ Top.pc = "splinter" /\ ret = "none"
      /\ UNCHANGED <<op, given, wild>> /\ UNCHANGED problem
  BY DEF TrySplinter, Running, Asked
<1> DEFINE t == Top
<1>2. /\ t \in Frames /\ FrameOK(t) /\ P = t.p /\ ProblemOK(t.p)
      /\ t.p \in ProblemSet /\ t.p.eqs = {} /\ t.v \in t.p.vars /\ t.v \in Int
      /\ t.want # "FALSE" /\ t.todo \subseteq Lowers(t.p.geqs, t.v) /\ t.left \in Int
  BY <1>1, SplinterFacts
<1>3. PICK l \in Over(t.p.vars) :
        /\ l \in Constraints /\ Coef(l, t.v) > 0 /\ t.lower = {l}
        /\ \A low, G : Open(t, low, G) <=>
             Solves(G, t.p) /\ G[l] >= low /\ (G[l] <= t.left \/ Close(t, G))
  BY <1>1, SplinterFacts
<1> DEFINE d == [l EXCEPT !.k = l.k - 1]
           f == [t EXCEPT !.lower = {d}, !.left = t.left - 1]
           q == [t.p EXCEPT !.eqs = {l}]
           c == CallOn(q, t.want, "eq", TRUE)
<1>4. CallFrom(f, c)
  <2>1. Raised(t.lower) = {d}
    BY <1>3 DEF Raised
  <2>2. CallFrom([t EXCEPT !.lower = Raised(t.lower), !.left = t.left - 1],
                 CallOn([t.p EXCEPT !.eqs = t.lower], t.want, "eq", TRUE))
    BY <1>2 DEF TrySplinter
  <2> QED
    BY <1>3, <2>1, <2>2
<1>5. Low(stack, ret, Len(stack)) = 0 /\ t.pc = "splinter" /\ t = Top
  BY <1>1, TopLow
<1> HIDE DEF t
<1>6. l.k \in Int /\ l.k - 1 \in Int
  <2>1. l \in Constraints
    BY <1>3
  <2>2. l.k \in Int
    BY <2>1, ConstraintFacts
  <2> QED
    BY <2>2
<1>7. d \in Constraints /\ d.c = l.c /\ Coef(d, t.v) = Coef(l, t.v)
  BY <1>2, <1>3, <1>6, MovedFacts
<1>8. ASSUME NEW F \in LinearPoints
      PROVE  F[l] \in Int /\ F[d] = F[l] - 1
  <2>1. Linear(F)
    BY <1>8 DEF LinearPoints
  <2>2. F[l] \in Int /\ F[d] = F[l] + (l.k - 1) - l.k
    BY <1>3, <1>6, <2>1, ValueMoved, LinearValue
  <2> HIDE DEF d
  <2> QED
    BY <1>6, <2>2
<1> HIDE DEF d
<1>9. d \in Over(t.p.vars)
  BY <1>7 DEF Over
<1>10. t.left - 1 \in Int /\ {d} \in SUBSET Constraints
  BY <1>2, <1>7
<1>11. /\ f \in Frames /\ f.p = t.p /\ f.pc = t.pc /\ f.v = t.v /\ f.want = t.want
       /\ f.lower = {d} /\ f.left = t.left - 1 /\ f.todo = t.todo
  BY <1>2, <1>10 DEF Frames
<1> HIDE DEF f
<1>12. FrameOK(f) /\ ~Tracked(f)
  <2>1. d \in Over(f.p.vars) /\ Coef(d, f.v) > 0 /\ f.lower = {d}
    BY <1>3, <1>7, <1>9, <1>11
  <2> QED
    BY <1>2, <1>5, <1>11, <2>1 DEF FrameOK, Tracked, Early
<1>13. ProblemOK(q) /\ q.geqs = t.p.geqs /\ q.eqs = {l}
  <2>1. q \in ProblemSet /\ q.geqs = t.p.geqs /\ q.eqs = {l} /\ q.vars = t.p.vars
    BY <1>2, <1>3 DEF ProblemSet
  <2> HIDE DEF q
  <2> QED
    BY <1>2, <1>3, <2>1 DEF ProblemOK
<1> HIDE DEF q
<1>14. /\ FrameOK(c) /\ c.want = t.want /\ ~Tracked(c)
       /\ \A F \in LinearPoints : Solves(F, q) => CanBe(c, 0)
  <2> DEFINE want == t.want
             yes == TRUE
  <2>1. yes \in BOOLEAN /\ want \in {"UNKNOWN", "FALSE"}
    BY <1>2 DEF Frames
  <2>2. c = CallOn(q, want, "eq", yes)
    OBVIOUS
  <2> HIDE DEF c, want, yes
  <2>3. /\ FrameOK(c) /\ c.want = want /\ c.timid = yes
        /\ \A F \in LinearPoints : Solves(F, q) => CanBe(c, 0)
    BY <1>13, <2>1, <2>2, CallOnFacts
  <2> QED
    BY <2>3 DEF want, yes, Tracked
<1> HIDE DEF c
<1>15. ASSUME NEW G \in LinearPoints, Open(t, 0, G)
       PROVE  Open(f, -1, G)
  <2>1. Solves(G, t.p) /\ G[l] >= 0 /\ (G[l] <= t.left \/ Close(t, G))
    BY <1>3, <1>15
  <2>2. G[d] >= -1 /\ (G[l] <= t.left => G[d] <= t.left - 1)
    BY <1>2, <1>8, <2>1
  <2>3. Close(t, G) => Close(f, G)
    BY <1>11 DEF Close
  <2> QED
    BY <1>5, <1>11, <2>1, <2>2, <2>3 DEF Open
<1>16. CanBe(Top, Low(stack, ret, Len(stack))) => CanBe(f, -1)
  BY <1>5, <1>15 DEF CanBe
<1>17. ASSUME NEW F \in LinearPoints, AskedAt(f, F)
       PROVE  CanBe(c, 0)
  <2>1. Linear(F) /\ (\A e \in t.p.geqs : F[e] >= 0) /\ F[d] = -1
    BY <1>5, <1>11, <1>17 DEF AskedAt
  <2>2. F[l] = 0
    BY <1>8, <2>1
  <2>3. Solves(F, q)
    BY <1>13, <2>1, <2>2 DEF Solves
  <2> QED
    BY <1>14, <2>3
<1>18. f.want = Top.want /\ c.want # "FALSE"
  BY <1>2, <1>5, <1>11, <1>14
<1> QED
  BY <1>1, <1>4, <1>12, <1>14, <1>16, <1>17, <1>18, CallAction

LEMMA AfterSplinterKeeps ==
    ASSUME IInv, AfterSplinter
    PROVE  IInv'
<1>1. /\ stack # <<>> /\ Top.pc = "splinter" /\ ret # "none"
      /\ UNCHANGED <<op, given, wild>> /\ UNCHANGED problem
  BY DEF AfterSplinter, Resumed, Asked
<1>2. /\ ret = "FALSE" => ~ \E F \in LinearPoints : AskedAt(Top, F)
      /\ ret \in {"TRUE", "FALSE"}
  BY <1>1, TopOK DEF IInv, StackOK
<1>3. FrameOK(Top) /\ P = Top.p
  BY <1>1, SplinterFacts
<1>4. PICK l \in Over(Top.p.vars) :
        /\ l \in Constraints /\ Top.lower = {l}
        /\ \A low, G : Open(Top, low, G) <=>
             Solves(G, Top.p) /\ G[l] >= low /\ (G[l] <= Top.left \/ Close(Top, G))
  BY <1>1, SplinterFacts
<1>5. CASE ret = "TRUE"
  <2>1. Return("TRUE")
    BY <1>5 DEF AfterSplinter
  <2>2. Told'
    BY <1>1, ToldSame
  <2> QED
    BY <1>1, <2>1, <2>2, ReturnAction
<1>6. CASE ret = "FALSE"
  <2>1. Become(Top)
    BY <1>6 DEF AfterSplinter
  <2>2. ASSUME NEW G \in LinearPoints, Open(Top, -1, G)
        PROVE  Open(Top, 0, G)
    <3>1. Solves(G, Top.p) /\ G[l] >= -1 /\ (G[l] <= Top.left \/ Close(Top, G))
      BY <1>4, <2>2
    <3>2. Linear(G) /\ \A e \in Top.p.geqs : G[e] >= 0
      BY <3>1 DEF Solves
    <3>3. ~AskedAt(Top, G)
      BY <1>2, <1>6
    <3>4. G[l] # -1
      BY <1>1, <1>4, <3>2, <3>3 DEF AskedAt
    <3>5. G[l] \in Int
      BY <1>4, <3>2, LinearValue
    <3>6. G[l] >= 0
      BY <3>1, <3>4, <3>5
    <3> QED
      BY <1>4, <3>1, <3>6
  <2>3. CanBe(Top, Low(stack, ret, Len(stack))) => CanBe(Top, 0)
    <3>1. Low(stack, ret, Len(stack)) = -1
      BY <1>1, TopLow
    <3> QED
      BY <2>2, <3>1 DEF CanBe
  <2>4. ~Tracked(Top)
    BY <1>1 DEF Tracked, Early
  <2> QED
    BY <1>1, <1>3, <2>1, <2>3, <2>4, BecomeAction
<1> QED
  BY <1>2, <1>5, <1>6

LEMMA LowerExhaustedKeeps ==
    ASSUME IInv, LowerExhausted
    PROVE  IInv'
<1>1. /\ stack # <<>> /\ Top.pc = "splinter" /\ ret = "none" /\ Top.left < 0
      /\ UNCHANGED <<op, given, wild>> /\ UNCHANGED problem
  BY DEF LowerExhausted, Running, Asked
<1> DEFINE t == Top
<1>2. /\ t \in Frames /\ FrameOK(t) /\ P = t.p /\ ProblemOK(t.p)
      /\ t.p \in ProblemSet /\ t.p.eqs = {} /\ t.v \in t.p.vars /\ t.v \in Int
      /\ t.p.geqs \in SUBSET Over(t.p.vars) /\ t.p.geqs \in SUBSET Constraints
      /\ IsFiniteSet(t.p.geqs)
      /\ t.want # "FALSE" /\ t.todo \subseteq Lowers(t.p.geqs, t.v) /\ t.left \in Int
  BY <1>1, SplinterFacts
<1>3. PICK l \in Over(t.p.vars) :
        /\ l \in Constraints /\ Coef(l, t.v) > 0 /\ t.lower = {l}
        /\ \A low, G : Open(t, low, G) <=>
             Solves(G, t.p) /\ G[l] >= low /\ (G[l] <= t.left \/ Close(t, G))
  BY <1>1, SplinterFacts
<1>4. Low(stack, ret, Len(stack)) = 0 /\ t = Top /\ t.left < 0
  BY <1>1, TopLow
<1>5. ASSUME NEW G \in LinearPoints, Open(t, 0, G)
      PROVE  Solves(G, t.p) /\ G[l] >= 0 /\ Close(t, G)
  <2>1. Solves(G, t.p) /\ G[l] >= 0 /\ (G[l] <= t.left \/ Close(t, G))
    BY <1>3, <1>5
  <2>2. G[l] \in Int
    BY <1>3, <2>1, LinearValue DEF Solves
  <2> QED
    BY <1>2, <1>4, <2>1, <2>2
<1>6. CASE t.todo = {}
  <2>1. Return("FALSE")
    BY <1>6 DEF LowerExhausted
  <2>2. ~CanBe(t, 0)
    BY <1>5, <1>6 DEF CanBe, Close
  <2>3. Told'
    BY <1>1, ToldSame
  <2> QED
    BY <1>1, <1>4, <2>1, <2>2, <2>3, ReturnAction
<1>7. CASE t.todo # {}
  <2> DEFINE q == [t.p EXCEPT !.geqs = @ \cup {l}]
             f == [t EXCEPT !.p = q, !.pc = "feasible"]
             c == CallOn(q, "FALSE", "eq", TRUE)
  <2>1. CallFrom(f, c)
    BY <1>2, <1>3, <1>7 DEF LowerExhausted
  <2> HIDE DEF t
  <2>2. q \in ProblemSet /\ q.vars = t.p.vars /\ q.eqs = {} /\ q.geqs = t.p.geqs \cup {l}
    BY <1>2, <1>3 DEF ProblemSet
  <2> HIDE DEF q
  <2>3. ProblemOK(q)
    <3>1. IsFiniteSet(t.p.geqs \cup {l})
      BY <1>2, FS_AddElement
    <3> QED
      BY <1>2, <1>3, <2>2, <3>1 DEF ProblemOK
  <2>4. /\ f \in Frames /\ f.p = q /\ f.pc = "feasible" /\ f.want = t.want /\ f.v = t.v
        /\ f.todo = t.todo
    BY <1>2, <2>2 DEF Frames
  <2> HIDE DEF f
  <2>5. FrameOK(f) /\ ~Tracked(f)
    <3>1. f.todo \subseteq Lowers(f.p.geqs, f.v)
      BY <1>2, <2>2, <2>4 DEF Lowers
    <3> QED
      BY <1>2, <2>2, <2>3, <2>4, <3>1 DEF FrameOK, Tracked, Early
  <2>6. /\ FrameOK(c) /\ ~Tracked(c)
        /\ \A F \in LinearPoints : Solves(F, q) => CanBe(c, 0)
    <3> DEFINE yes == TRUE
    <3>1. yes \in BOOLEAN
      OBVIOUS
    <3>2. c = CallOn(q, "FALSE", "eq", yes)
      OBVIOUS
    <3> HIDE DEF c, yes
    <3>3. /\ FrameOK(c) /\ c.timid = yes
          /\ \A F \in LinearPoints : Solves(F, q) => CanBe(c, 0)
      BY <2>3, <3>1, <3>2, CallOnFacts
    <3> QED
      BY <3>3 DEF yes, Tracked
  <2> HIDE DEF c
  <2>7. ASSUME NEW G \in LinearPoints, Open(t, 0, G)
        PROVE  Open(f, -1, G)
    <3>1. Solves(G, t.p) /\ G[l] >= 0 /\ Close(t, G)
      BY <1>5, <2>7
    <3>2. Solves(G, q)
      BY <1>2, <2>2, <3>1 DEF Solves
    <3>3. PICK e \in t.todo : G[e] <= MaxIncr(t.p.geqs, t.v, e)
      BY <3>1 DEF Close
    <3>4. e \in Constraints
      BY <1>2 DEF Lowers
    <3>5. Uppers(q.geqs, t.v) = Uppers(t.p.geqs, t.v)
      <4>1. t.p.geqs \in SUBSET Constraints /\ t.v \in Int /\ l \in Constraints /\ Coef(l, t.v) > 0
        BY <1>2, <1>3
      <4>2. Uppers(t.p.geqs \cup {l}, t.v) = Uppers(t.p.geqs, t.v)
        BY <4>1, LowerApart
      <4> QED
        BY <2>2, <4>2
    <3>6. MaxIncr(q.geqs, t.v, e) = MaxIncr(t.p.geqs, t.v, e)
      BY <1>2, <3>4, <3>5, MaxIncrFacts
    <3>7. Close(f, G)
      BY <2>4, <3>3, <3>6 DEF Close
    <3> QED
      BY <2>4, <3>2, <3>7 DEF Open
  <2>8. CanBe(Top, Low(stack, ret, Len(stack))) => CanBe(f, -1)
    BY <1>4, <2>7 DEF CanBe
  <2>9. (\E F \in LinearPoints : AskedAt(f, F)) => CanBe(c, 0)
    BY <2>4, <2>6 DEF AskedAt
  <2>10. f.want = Top.want /\ f.pc \in {"real", "feasible"}
    BY <1>4, <2>4
  <2> QED
    BY <1>1, <2>1, <2>5, <2>6, <2>8, <2>9, <2>10, CallAction
<1> QED
  BY <1>6, <1>7

LEMMA AfterFeasibleKeeps ==
    ASSUME IInv, AfterFeasible
    PROVE  IInv'
<1>1. /\ stack # <<>> /\ Top.pc = "feasible"
      /\ UNCHANGED <<op, given, wild>> /\ UNCHANGED problem
  BY DEF AfterFeasible, Resumed, Asked
<1>2. FrameOK(Top) /\ Top \in Frames /\ P = Top.p
      /\ (ret = "FALSE" => ~ \E F \in LinearPoints : AskedAt(Top, F))
  BY <1>1, TopOK
<1>3. CASE ret = "FALSE" /\ Return("FALSE")
  <2>1. ASSUME NEW F \in LinearPoints, Solves(F, P)
        PROVE  FALSE
    <3>1. AskedAt(Top, F)
      BY <1>1, <1>2, <2>1 DEF AskedAt, Solves
    <3> QED
      BY <1>2, <1>3, <3>1
  <2>2. ~CanBe(Top, Low(stack, ret, Len(stack)))
    BY <1>1, <2>1, Denied
  <2>3. Told'
    BY <1>1, ToldSame
  <2> QED
    BY <1>1, <1>3, <2>2, <2>3, ReturnAction
<1>4. CASE Become([Top EXCEPT !.pc = "lowers"])
  <2> DEFINE t == Top
             f == [t EXCEPT !.pc = "lowers"]
  <2>1. t \in Frames /\ FrameOK(t) /\ t.pc = "feasible" /\ t = Top
    BY <1>1, <1>2
  <2> HIDE DEF t
  <2>2. /\ f \in Frames /\ f.p = t.p /\ f.pc = "lowers" /\ f.want = t.want /\ f.v = t.v
        /\ f.todo = t.todo
    BY <2>1 DEF Frames
  <2> HIDE DEF f
  <2>3. FrameOK(f) /\ ~Tracked(f)
    BY <2>1, <2>2 DEF FrameOK, Tracked, Early
  <2>4. CanBe(Top, Low(stack, ret, Len(stack))) => CanBe(f, 0)
    <3>1. \A G, low : Open(t, low, G) => Open(f, 0, G)
      BY <2>1, <2>2 DEF Open, Close
    <3> QED
      BY <2>1, <3>1 DEF CanBe
  <2>5. Become(f) /\ f.want = Top.want
    BY <1>4, <2>1, <2>2 DEF f
  <2> QED
    BY <1>1, <2>3, <2>4, <2>5, BecomeAction
<1> QED
  BY <1>3, <1>4 DEF AfterFeasible

-----------------------------------------------------------------------------
(* The values of the variables make a point.                                 *)

\* u sums up the constraint e at x, variable by variable.
SumsUp(u, e, x, n) ==
    /\ u \in [0 .. n -> Int]
    /\ u[0] = e.k
    /\ \A i \in 1 .. n : u[i] = u[i - 1] + Coef(e, i) * x[i]

LEMMA SumExists ==
    ASSUME NEW e \in Constraints, NEW n \in Nat, NEW x \in [1 .. n -> Int]
    PROVE  \E u : SumsUp(u, e, x, n)
<1> DEFINE S == {m \in Nat : m <= n => \E u : SumsUp(u, e, x, m)}
<1>1. e.k \in Int
  BY ConstraintFacts
<1>2. 0 \in S
  <2> DEFINE u == [i \in 0 .. 0 |-> e.k]
  <2>1. SumsUp(u, e, x, 0)
    BY <1>1 DEF SumsUp
  <2> HIDE DEF u
  <2> QED
    BY <2>1
<1>3. ASSUME NEW m \in S
      PROVE  m + 1 \in S
  <2> SUFFICES ASSUME m + 1 <= n
               PROVE  \E u : SumsUp(u, e, x, m + 1)
    OBVIOUS
  <2>1. m \in Nat /\ m <= n
    OBVIOUS
  <2>2. PICK u : SumsUp(u, e, x, m)
    BY <2>1
  <2>3. m + 1 \in 1 .. n /\ m + 1 \in Int
    BY <2>1
  <2> DEFINE d == Coef(e, m + 1) * x[m + 1]
             w == [i \in 0 .. m + 1 |-> IF i = m + 1 THEN u[m] + d ELSE u[i]]
  <2>4. d \in Int
    <3>1. Coef(e, m + 1) \in Int /\ x[m + 1] \in Int
      BY <2>3, CoefFacts
    <3> QED
      BY <3>1
  <2>5. u \in [0 .. m -> Int] /\ u[0] = e.k /\ u[m] \in Int
    BY <2>1, <2>2 DEF SumsUp
  <2>6. w \in [0 .. m + 1 -> Int] /\ w[0] = e.k
    <3> HIDE DEF d
    <3>1. ASSUME NEW i \in 0 .. m + 1
          PROVE  (IF i = m + 1 THEN u[m] + d ELSE u[i]) \in Int
      <4>1. i # m + 1 => i \in 0 .. m
        BY <2>1
      <4> QED
        BY <2>4, <2>5, <4>1
    <3>2. 0 \in 0 .. m + 1 /\ 0 # m + 1
      BY <2>1
    <3> QED
      BY <2>5, <3>1, <3>2
  <2>7. ASSUME NEW i \in 1 .. m + 1
        PROVE  w[i] = w[i - 1] + Coef(e, i) * x[i]
    <3> HIDE DEF d
    <3>1. i \in 0 .. m + 1 /\ i - 1 \in 0 .. m + 1 /\ i - 1 # m + 1
      BY <2>1
    <3>2. w[i - 1] = u[i - 1]
      BY <3>1
    <3>3. CASE i = m + 1
      <4>1. i - 1 = m
        BY <2>1, <3>3
      <4>2. w[i] = u[m] + d
        BY <3>1, <3>3
      <4> QED
        BY <3>2, <3>3, <4>1, <4>2 DEF d
    <3>4. CASE i # m + 1
      <4>1. i \in 1 .. m
        BY <2>1, <3>4
      <4>2. u[i] = u[i - 1] + Coef(e, i) * x[i]
        BY <2>2, <4>1 DEF SumsUp
      <4>3. w[i] = u[i]
        BY <3>1, <3>4
      <4> QED
        BY <3>2, <4>2, <4>3
    <3> QED
      BY <3>3, <3>4
  <2> HIDE DEF w
  <2>8. SumsUp(w, e, x, m + 1)
    BY <2>6, <2>7 DEF SumsUp
  <2> QED
    BY <2>8
<1> HIDE DEF S
<1>4. n \in S
  <2>1. S \in SUBSET Nat
    BY DEF S
  <2> QED
    BY <1>2, <1>3, <2>1, Induction
<1> QED
  BY <1>4 DEF S

LEMMA AtSums ==
    ASSUME NEW e \in Constraints, NEW n \in Nat, NEW x \in [1 .. n -> Int]
    PROVE  \E u : SumsUp(u, e, x, n) /\ At(e, x) = u[n]
<1> DEFINE Is(u) == u = [i \in 0 .. n |-> IF i = 0 THEN e.k ELSE u[i - 1] + Coef(e, i) * x[i]]
           upto == CHOOSE u : Is(u)
<1>1. Len(x) = n
  BY LenProperties, SeqDef
<1>2. PICK u : SumsUp(u, e, x, n)
  BY SumExists
<1>3. Is(u)
  <2>1. u \in [0 .. n -> Int]
    BY <1>2 DEF SumsUp
  <2>2. ASSUME NEW i \in 0 .. n
        PROVE  u[i] = IF i = 0 THEN e.k ELSE u[i - 1] + Coef(e, i) * x[i]
    <3>1. i # 0 => i \in 1 .. n
      OBVIOUS
    <3> QED
      BY <1>2, <3>1 DEF SumsUp
  <2> QED
    BY <2>1, <2>2
<1>4. Is(upto)
  <2> HIDE DEF Is
  <2> QED
    BY <1>3
<1>5. At(e, x) = upto[n]
  BY <1>1 DEF At
<1> HIDE DEF upto
<1>6. upto[0] = e.k /\ \A i \in 1 .. n : upto[i] = upto[i - 1] + Coef(e, i) * x[i]
  <2>1. 0 \in 0 .. n
    OBVIOUS
  <2>2. \A i \in 1 .. n : i \in 0 .. n /\ i # 0
    OBVIOUS
  <2> QED
    BY <1>4, <2>1, <2>2
<1> DEFINE S == {m \in Nat : m <= n => upto[m] = u[m]}
<1>7. 0 \in S
  BY <1>2, <1>6 DEF SumsUp
<1>8. ASSUME NEW m \in S
      PROVE  m + 1 \in S
  <2> SUFFICES ASSUME m + 1 <= n
               PROVE  upto[m + 1] = u[m + 1]
    OBVIOUS
  <2>1. m + 1 \in 1 .. n /\ (m + 1) - 1 = m /\ upto[m] = u[m]
    OBVIOUS
  <2>2. u[m + 1] = u[m] + Coef(e, m + 1) * x[m + 1]
    BY <1>2, <2>1 DEF SumsUp
  <2>3. upto[m + 1] = upto[m] + Coef(e, m + 1) * x[m + 1]
    BY <1>6, <2>1
  <2> QED
    BY <2>1, <2>2, <2>3
<1> HIDE DEF S
<1>9. n \in S
  <2>1. S \in SUBSET Nat
    BY DEF S
  <2> QED
    BY <1>7, <1>8, <2>1, Induction
<1>10. upto[n] = u[n]
  BY <1>9 DEF S
<1> QED
  BY <1>2, <1>5, <1>10

LEMMA AtInt ==
    ASSUME NEW e \in Constraints, NEW n \in Nat, NEW x \in [1 .. n -> Int]
    PROVE  At(e, x) \in Int
<1>1. PICK u : SumsUp(u, e, x, n) /\ At(e, x) = u[n]
  BY AtSums
<1>2. n \in 0 .. n
  OBVIOUS
<1> QED
  BY <1>1, <1>2 DEF SumsUp

LEMMA AtConstant ==
    ASSUME NEW e \in Constraints, NEW n \in Nat, NEW x \in [1 .. n -> Int], Constant(e)
    PROVE  At(e, x) = e.k
<1>1. PICK u : SumsUp(u, e, x, n) /\ At(e, x) = u[n]
  BY AtSums
<1>2. e.k \in Int
  BY ConstraintFacts
<1> DEFINE S == {m \in Nat : m <= n => u[m] = e.k}
<1>3. 0 \in S
  BY <1>1 DEF SumsUp
<1>4. ASSUME NEW m \in S
      PROVE  m + 1 \in S
  <2> SUFFICES ASSUME m + 1 <= n
               PROVE  u[m + 1] = e.k
    OBVIOUS
  <2>1. m + 1 \in 1 .. n /\ (m + 1) - 1 = m /\ u[m] = e.k
    OBVIOUS
  <2>2. u[m + 1] = u[m] + Coef(e, m + 1) * x[m + 1]
    BY <1>1, <2>1 DEF SumsUp
  <2>3. Coef(e, m + 1) = 0 /\ x[m + 1] \in Int
    BY <2>1 DEF Coef, Constant
  <2>4. Coef(e, m + 1) * x[m + 1] = 0
    BY <2>3
  <2> QED
    BY <1>2, <2>1, <2>2, <2>4
<1> HIDE DEF S
<1>5. n \in S
  <2>1. S \in SUBSET Nat
    BY DEF S
  <2> QED
    BY <1>3, <1>4, <2>1, Induction
<1> QED
  BY <1>1, <1>5 DEF S

LEMMA SumStep ==
    ASSUME NEW a \in Int, NEW b \in Int, NEW s \in Int, NEW t \in Int,
           NEW c \in Int, NEW d \in Int, NEW y \in Int
    PROVE  (a * s + b * t) + (a * c + b * d) * y = a * (s + c * y) + b * (t + d * y)
OBVIOUS

LEMMA AtCombine ==
    ASSUME NEW e \in Constraints, NEW f \in Constraints, NEW a \in Int, NEW b \in Int,
           NEW n \in Nat, NEW x \in [1 .. n -> Int]
    PROVE  At(Combine(a, e, b, f), x) = a * At(e, x) + b * At(f, x)
<1> DEFINE g == Combine(a, e, b, f)
<1>1. g \in Constraints /\ g.k = a * e.k + b * f.k
  BY CombineType, CombineConstant
<1>2. \A v \in Int : Coef(g, v) = a * Coef(e, v) + b * Coef(f, v)
  BY CombineCoef
<1> HIDE DEF g
<1>3. PICK s : SumsUp(s, e, x, n) /\ At(e, x) = s[n]
  BY AtSums
<1>4. PICK t : SumsUp(t, f, x, n) /\ At(f, x) = t[n]
  BY AtSums
<1>5. PICK u : SumsUp(u, g, x, n) /\ At(g, x) = u[n]
  BY <1>1, AtSums
<1> DEFINE S == {m \in Nat : m <= n => u[m] = a * s[m] + b * t[m]}
<1>6. 0 \in S
  BY <1>1, <1>3, <1>4, <1>5 DEF SumsUp
<1>7. ASSUME NEW m \in S
      PROVE  m + 1 \in S
  <2> SUFFICES ASSUME m + 1 <= n
               PROVE  u[m + 1] = a * s[m + 1] + b * t[m + 1]
    OBVIOUS
  <2>1. m + 1 \in 1 .. n /\ (m + 1) - 1 = m /\ m \in 0 .. n /\ m + 1 \in Int
        /\ u[m] = a * s[m] + b * t[m]
    OBVIOUS
  <2>2. /\ u[m + 1] = u[m] + Coef(g, m + 1) * x[m + 1]
        /\ s[m + 1] = s[m] + Coef(e, m + 1) * x[m + 1]
        /\ t[m + 1] = t[m] + Coef(f, m + 1) * x[m + 1]
    BY <1>3, <1>4, <1>5, <2>1 DEF SumsUp
  <2>3. /\ s[m] \in Int /\ t[m] \in Int /\ x[m + 1] \in Int
        /\ Coef(e, m + 1) \in Int /\ Coef(f, m + 1) \in Int
    BY <1>3, <1>4, <2>1, CoefFacts DEF SumsUp
  <2>4. u[m + 1] = (a * s[m] + b * t[m])
                   + (a * Coef(e, m + 1) + b * Coef(f, m + 1)) * x[m + 1]
    BY <1>2, <2>1, <2>2
  <2> DEFINE sm == s[m]
             tm == t[m]
             c == Coef(e, m + 1)
             d == Coef(f, m + 1)
             y == x[m + 1]
  <2>5. sm \in Int /\ tm \in Int /\ y \in Int /\ c \in Int /\ d \in Int
    BY <2>3
  <2>6. /\ u[m + 1] = (a * sm + b * tm) + (a * c + b * d) * y
        /\ s[m + 1] = sm + c * y /\ t[m + 1] = tm + d * y
    BY <2>2, <2>4
  <2> HIDE DEF sm, tm, c, d, y
  <2>7. (a * sm + b * tm) + (a * c + b * d) * y = a * (sm + c * y) + b * (tm + d * y)
    BY <2>5, SumStep
  <2> QED
    BY <2>6, <2>7
<1> HIDE DEF S
<1>8. n \in S
  <2>1. S \in SUBSET Nat
    BY DEF S
  <2> QED
    BY <1>6, <1>7, <2>1, Induction
<1> QED
  BY <1>3, <1>4, <1>5, <1>8 DEF S, g

\* A solution of the given problem is a point that solves it.
LEMMA SolutionPoint ==
    ASSUME NEW g \in Problems, NEW x \in Points(g)
    PROVE  \E F \in LinearPoints :
             /\ \A e \in Constraints : F[e] = At(e, x)
             /\ Satisfies(x, g) => Solves(F, g)
<1>1. g.vars = 1 .. Cardinality(g.vars) /\ Cardinality(g.vars) \in Nat
  <2>1. IsFiniteSet(g.vars) /\ g.vars = 1 .. Cardinality(g.vars)
    BY OmegaAssumption DEF IsProblem
  <2> QED
    BY <2>1, FS_CardinalityType
<1>2. PICK n \in Nat : g.vars = 1 .. n
  BY <1>1
<1>3. x \in [1 .. n -> Int]
  BY <1>2, ValuesAssumption DEF Points
<1> DEFINE F == [e \in Constraints |-> At(e, x)]
<1>4. F \in [Constraints -> Int]
  BY <1>3, AtInt
<1>5. \A e \in Constraints : F[e] = At(e, x)
  OBVIOUS
<1> HIDE DEF F
<1>6. Linear(F)
  <2>1. \A e \in Constraints : Constant(e) => F[e] = e.k
    BY <1>3, <1>5, AtConstant
  <2>2. ASSUME NEW a \in Int, NEW b \in Int, NEW e \in Constraints, NEW f \in Constraints
        PROVE  F[Combine(a, e, b, f)] = a * F[e] + b * F[f]
    <3>1. Combine(a, e, b, f) \in Constraints
      BY CombineType
    <3>2. At(Combine(a, e, b, f), x) = a * At(e, x) + b * At(f, x)
      BY <1>3, AtCombine
    <3> QED
      BY <1>5, <3>1, <3>2
  <2> QED
    BY <1>4, <2>1, <2>2 DEF Linear
<1>7. F \in LinearPoints
  BY <1>4, <1>6 DEF LinearPoints
<1>8. g.eqs \subseteq Constraints /\ g.geqs \subseteq Constraints
  BY GivenFacts, ProblemParts
<1>9. Satisfies(x, g) => Solves(F, g)
  BY <1>5, <1>6, <1>8 DEF Satisfies, Solves
<1> QED
  BY <1>5, <1>7, <1>9

-----------------------------------------------------------------------------
(* The theorems.                                                             *)

LEMMA EntryFacts ==
    ASSUME NEW o \in Callers, NEW g, ProblemOK(g)
    PROVE  /\ FrameOK(Entry(o, g)) /\ Entry(o, g).pc \in {"free", "eq"}
           /\ \A F : Solves(F, Entry(o, g).p) <=> Solves(F, g)
<1> DEFINE f == Entry(o, g)
<1>1. /\ g \in ProblemSet
      /\ [g EXCEPT !.freed = FALSE] \in ProblemSet /\ [g EXCEPT !.freed = TRUE] \in ProblemSet
  BY DEF ProblemOK, ProblemSet
<1>2. f \in Frames /\ f.pc \in {"free", "eq"} /\ f.then = "eq"
  <2>1. \A p \in ProblemSet, timid \in BOOLEAN, pc \in {"free", "eq"} :
          /\ CallOn(p, "UNKNOWN", "eq", timid) \in Frames
          /\ [CallOn(p, "UNKNOWN", "eq", timid) EXCEPT !.pc = pc] \in Frames
          /\ [CallOn(p, "UNKNOWN", "eq", timid) EXCEPT !.pc = pc].pc = pc
          /\ [CallOn(p, "UNKNOWN", "eq", timid) EXCEPT !.pc = pc].then = "eq"
    BY DEF CallOn, Frames, Early
  <2>2. \A p \in ProblemSet :
          /\ CallOn(p, "FALSE", "eq", TRUE) \in Frames
          /\ CallOn(p, "FALSE", "eq", TRUE).pc = "eq" /\ CallOn(p, "FALSE", "eq", TRUE).then = "eq"
    BY DEF CallOn, Frames, Early
  <2>3. CASE o = "reduce"
    <3> DEFINE pc == IF Cardinality(g.vars) > Cardinality(g.eqs) THEN "free" ELSE "eq"
               p == [g EXCEPT !.freed = FALSE]
    <3>1. f = [CallOn(p, "UNKNOWN", "eq", FALSE) EXCEPT !.pc = pc]
      BY <2>3 DEF Entry
    <3>2. p \in ProblemSet /\ pc \in {"free", "eq"}
      BY <1>1
    <3> HIDE DEF f, p, pc
    <3> QED
      BY <2>1, <3>1, <3>2
  <2>4. CASE o = "verify"
    <3> DEFINE p == [g EXCEPT !.freed = TRUE]
    <3>1. f = [CallOn(p, "UNKNOWN", "eq", FALSE) EXCEPT !.pc = "free"]
      BY <2>4 DEF Entry
    <3>2. p \in ProblemSet
      BY <1>1
    <3> HIDE DEF f, p
    <3> QED
      BY <2>1, <3>1, <3>2
  <2>5. CASE o = "refute"
    <3> DEFINE p == [g EXCEPT !.freed = FALSE]
    <3>1. f = CallOn(p, "FALSE", "eq", TRUE)
      BY <2>5 DEF Entry
    <3>2. p \in ProblemSet
      BY <1>1
    <3> HIDE DEF f, p
    <3> QED
      BY <2>2, <3>1, <3>2
  <2> QED
    BY <2>3, <2>4, <2>5 DEF Callers
<1>3. /\ f.p \in ProblemSet /\ f.p.vars = g.vars /\ f.p.eqs = g.eqs /\ f.p.geqs = g.geqs
  BY <1>1 DEF Callers, Entry, CallOn, ProblemSet
<1> HIDE DEF f
<1>4. ProblemOK(f.p)
  BY <1>3 DEF ProblemOK
<1>5. FrameOK(f)
  BY <1>2, <1>4 DEF FrameOK, Early
<1>6. \A F : Solves(F, f.p) <=> Solves(F, g)
  BY <1>3 DEF Solves
<1> QED
  BY <1>2, <1>5, <1>6 DEF f

LEMMA InitIInv ==
    ASSUME Init
    PROVE  IInv
<1> DEFINE f == Entry(op, given)
<1>1. op \in Ops /\ op \in Callers /\ given \in Problems /\ wild \in Int
      /\ stack = <<f>> /\ ret = "none" /\ problem = given
  BY OmegaAssumption DEF Init
<1>2. ProblemOK(given)
  BY <1>1, GivenFacts
<1>3. FrameOK(f) /\ f.pc \in {"free", "eq"} /\ \A F : Solves(F, f.p) <=> Solves(F, given)
  BY <1>1, <1>2, EntryFacts
<1> HIDE DEF f
<1>4. f \in Frames
  BY <1>3 DEF FrameOK
<1>5. <<f>> \in Seq(Frames) /\ Len(<<f>>) = 1 /\ <<f>>[1] = f
  BY <1>4
<1>6. \A k \in 1 .. Len(<<f>>) : k = 1
  BY <1>5
<1>7. WantsFit(<<f>>, "none")
  BY <1>5 DEF WantsFit
<1>8. Sound(<<f>>, "none", given)
  <2> SUFFICES ASSUME Posed(<<f>>, given, 1)
               PROVE  CanBe(f, Low(<<f>>, "none", 1))
    BY <1>5, <1>6 DEF Sound
  <2>1. PICK F \in LinearPoints : Solves(F, given)
    BY DEF Posed
  <2>2. Open(f, Low(<<f>>, "none", 1), F)
    BY <1>3, <2>1 DEF Open
  <2> QED
    BY <2>2 DEF CanBe
<1>9. Followed(<<f>>, given)
  <2>1. Follows(f, given)
    BY <1>3 DEF Follows, Agree
  <2> QED
    BY <1>5, <1>6, <2>1 DEF Followed
<1>10. StackOK(<<f>>, "none", given)
  BY <1>3, <1>5, <1>6, <1>7, <1>8, <1>9 DEF StackOK
<1>11. Told
  BY <1>1 DEF Told
<1> QED
  BY <1>1, <1>10, <1>11 DEF IInv

LEMMA NextIInv ==
    ASSUME IInv, [Next \/ Finished]_vars
    PROVE  IInv'
<1>1. CASE UNCHANGED vars
  BY <1>1 DEF vars, IInv, Told
<1>2. ASSUME NEW v \in Chosen, EliminateToOne(v) \/ Eliminate(v) \/ TryReal(v)
      PROVE  IInv'
  BY <1>2, EliminateToOneKeeps, EliminateKeeps, TryRealKeeps
<1>3. CASE FreeElimination \/ NoneFree \/ EqualityFails \/ SolveEquality \/ DoMod \/ EqualitiesSolved
  BY <1>3, FreeEliminationKeeps, NoneFreeKeeps, EqualityFailsKeeps, SolveEqualityKeeps,
     DoModKeeps, EqualitiesSolvedKeeps
<1>4. CASE OneVariable \/ FreeFirst \/ Normalize \/ NothingLeft
  BY <1>4, OneVariableKeeps, FreeFirstKeeps, NormalizeKeeps, NothingLeftKeeps
<1>5. CASE \/ AfterReal \/ AfterDark \/ NextLower \/ TrySplinter
           \/ AfterSplinter \/ LowerExhausted \/ AfterFeasible
  BY <1>5, AfterRealKeeps, AfterDarkKeeps, NextLowerKeeps, TrySplinterKeeps,
     AfterSplinterKeeps, LowerExhaustedKeeps, AfterFeasibleKeeps
<1> QED
  BY <1>1, <1>2, <1>3, <1>4, <1>5 DEF Next, Finished

\* In every run the calls on the stack keep each solution of the problem they
\* were asked about where they still have to look, and what verifyProblem has
\* been told holds in every solution (Problem::solve and all it calls).
THEOREM OmegaKeepsSolutions == Spec => []IInv
<1>1. Init => IInv
  BY InitIInv
<1>2. IInv /\ [Next \/ Finished]_vars => IInv'
  BY NextIInv
<1> QED
  BY <1>1, <1>2, PTL DEF Spec

\* FALSE is right: solve and solveGEQ say it of no problem that has an integer
\* solution, whatever they eliminate first (oc_solve.c).
THEOREM DenialAlwaysRight == Spec => []DenialRight
<1>1. IInv => DenialRight
  <2> SUFFICES ASSUME IInv, Answered("FALSE"), NEW x \in Points(given), Satisfies(x, given)
               PROVE  FALSE
    BY DEF DenialRight
  <2>1. given \in Problems /\ Sound(stack, ret, given) /\ stack = <<>> /\ ret = "FALSE"
    BY DEF IInv, StackOK, Answered
  <2>2. PICK F \in LinearPoints : Solves(F, given)
    BY <2>1, SolutionPoint
  <2>3. Len(stack) + 1 = 1
    BY <2>1
  <2> QED
    BY <2>1, <2>2, <2>3 DEF Sound, Posed
<1> QED
  BY <1>1, OmegaKeepsSolutions, PTL

\* The equalities verifyProblem adds hold in every solution of the problem it
\* verifies (addingEqualityConstraint).
THEOREM EqualitiesAlwaysImplied == Spec => []EqualitiesImplied
<1>1. IInv => EqualitiesImplied
  <2> SUFFICES ASSUME IInv, NEW q \in problem.eqs \ given.eqs,
                      NEW x \in Points(given), Satisfies(x, given)
               PROVE  At(q, x) = 0
    BY DEF EqualitiesImplied
  <2>1. given \in Problems /\ q \in Constraints
        /\ \A F \in LinearPoints : Solves(F, given) => F[q] = 0
    BY DEF IInv, Told
  <2>2. PICK F \in LinearPoints : (\A e \in Constraints : F[e] = At(e, x)) /\ Solves(F, given)
    BY <2>1, SolutionPoint
  <2> QED
    BY <2>1, <2>2
<1> QED
  BY <1>1, OmegaKeepsSolutions, PTL

\* doMod's assertions: for every equality it may be called for, and every
\* variable with the least coefficient, nFactor is 1 or -1 and the factor divides
\* what becomes of the equality.
DoModAsserts ==
    Running("eq") =>
      \A e \in P.eqs :
        LET q == Tighten(e)
            least == Min({Magnitude(q.c[i]) : i \in DOMAIN q.c})
        IN ~Constant(q) /\ Units(q) = {} /\ Turns(P) # {} =>
             \A j \in DOMAIN q.c : Magnitude(q.c[j]) = least =>
               ModAsserts(q, least + 1, j, Wildcard(P))

\* No assertion of doMod fails, whatever problem is solved (oc_eq.c 83 and 100).
THEOREM DoModNeverAsserts == Spec => []DoModAsserts
<1>1. IInv => DoModAsserts
  <2> SUFFICES ASSUME IInv, stack # <<>>, Top.pc = "eq", NEW e \in P.eqs,
                      ~Constant(Tighten(e)), Units(Tighten(e)) = {}, Turns(P) # {},
                      NEW j \in DOMAIN Tighten(e).c,
                      Magnitude(Tighten(e).c[j])
                        = Min({Magnitude(Tighten(e).c[i]) : i \in DOMAIN Tighten(e).c})
               PROVE  ModAsserts(Tighten(e),
                        Min({Magnitude(Tighten(e).c[i]) : i \in DOMAIN Tighten(e).c}) + 1,
                        j, Wildcard(P))
    BY DEF DoModAsserts, Running
  <2> DEFINE q == Tighten(e)
             least == Min({Magnitude(q.c[i]) : i \in DOMAIN q.c})
             m == least + 1
             alpha == Wildcard(P)
  <2>1. ProblemOK(P) /\ wild \in Int
    BY TopOK DEF IInv
  <2>2. e \in Over(P.vars) /\ P.vars \in SUBSET Int
    BY <2>1, ProblemParts
  <2>3. q \in Over(P.vars) /\ q \in Constraints
    BY <2>2, TightenType DEF Over
  <2>4. least \in Int /\ m \in Int /\ m > 2 /\ least = m - 1
    BY <2>3, LeastFacts
  <2>5. alpha \in Negatives /\ alpha \notin P.vars
    BY <2>1, WildcardFacts
  <2> HIDE DEF alpha
  <2>6. ModFits(P.vars, q, m, j, alpha)
    <3> HIDE DEF least, m
    <3>1. Magnitude(q.c[j]) = m - 1
      BY <2>4 DEF least
    <3> HIDE DEF q
    <3> QED
      BY <2>2, <2>3, <2>4, <2>5, <3>1 DEF ModFits, Negatives, q
  <2> QED
    BY <2>6, ModEqualityFacts DEF alpha
<1> QED
  BY <1>1, OmegaKeepsSolutions, PTL
=============================================================================
