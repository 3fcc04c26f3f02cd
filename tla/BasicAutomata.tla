--------------------------- MODULE BasicAutomata ---------------------------
(***************************************************************************)
(* The automata of the atomic formulas (mona-1.4/DFA/basic.c), and how     *)
(* they are put together from "exceptions" (mona-1.4/DFA/makebasic.c).     *)
(*                                                                         *)
(* The transitions of a state are a default target and exceptions to it:   *)
(* a path over 0, 1, X (for any), one entry per variable of the automaton, *)
(* and the target it leads to.  State 0 reads the letter of the Boolean    *)
(* variables.  Each automaton is written here as the source stores it; the *)
(* module AtomMeaning says what it should mean.                            *)
(***************************************************************************)
EXTENDS Automaton

X == 2       \* the path entry that matches both bits

\* A transition table: the exceptions, then the default.
To(path, target) == [path |-> path, target |-> target]
On(exceptions, default) == [exceptions |-> exceptions, default |-> default]
Always(default) == On(<<>>, default)

Matches(path, vars, l) ==
    \A n \in DOMAIN path : path[n] \in {X, Bit(l, vars[n])}

\* Two exceptions disagree on a letter: unite_leaf_fn prints an error and
\* exits.  No automaton has a state of this number.
Clash == -1

\* unite_leaf_fn over the roots of the exceptions: the default gives way to
\* any other target.
Target(l, vars, st) ==
    LET hits == {st.exceptions[n].target :
                   n \in {m \in DOMAIN st.exceptions :
                            Matches(st.exceptions[m].path, vars, l)}}
                \ {st.default}
    IN IF hits = {} THEN st.default
       ELSE IF Cardinality(hits) = 1 THEN CHOOSE t \in hits : TRUE
       ELSE Clash

\* dfaSetup, dfaStoreState for each state in turn, dfaBuild.
Build(vars, table, finals) ==
    [ns |-> Len(table), s |-> 0,
     q  |-> [p \in 0..Len(table)-1 |->
               [l \in Letters |-> Target(l, vars, table[p+1])]],
     f  |-> [p \in 0..Len(table)-1 |-> finals[p+1]]]

-----------------------------------------------------------------------------
(* Constants, sets and Boolean variables. *)

True == Build(<<>>, <<Always(1), Always(1)>>, <<0, 1>>)

False == Build(<<>>, <<Always(1), Always(1)>>, <<0, -1>>)

Singleton(i) ==
    Build(<<i>>,
          <<Always(1),
            On(<<To(<<1>>, 2)>>, 1),
            On(<<To(<<1>>, 3)>>, 2),
            Always(3)>>,
          <<0, -1, 1, -1>>)

Eq2(i, j) ==
    IF i = j THEN True
    ELSE Build(<<i, j>>,
               <<Always(1),
                 On(<<To(<<0, 0>>, 1), To(<<1, 1>>, 1)>>, 2),
                 Always(2)>>,
               <<0, 1, -1>>)

Subset(i, j) ==
    IF i = j THEN True
    ELSE Build(<<i, j>>,
               <<Always(1), On(<<To(<<1, 0>>, 2)>>, 1), Always(2)>>,
               <<0, 1, -1>>)

Empty(i) ==
    Build(<<i>>,
          <<Always(1), On(<<To(<<0>>, 1)>>, 2), Always(2)>>,
          <<0, 1, -1>>)

Plus2(i, j) ==
    IF i = j THEN Empty(i)
    ELSE Build(<<i, j>>,
               <<Always(1),
                 On(<<To(<<0, 0>>, 1), To(<<0, 1>>, 2)>>, 3),
                 On(<<To(<<0, X>>, 3), To(<<1, 0>>, 1)>>, 2),
                 Always(3)>>,
               <<0, 1, -1, -1>>)

Minus2(i, j) ==
    IF i = j
    THEN Build(<<i>>,
               <<Always(1), Always(2), On(<<To(<<0>>, 2)>>, 3), Always(3)>>,
               <<0, 1, 1, -1>>)
    ELSE Build(<<i, j>>,
               <<Always(1),
                 On(<<To(<<0, 0>>, 3), To(<<1, 0>>, 4), To(<<1, 1>>, 2)>>, 5),
                 On(<<To(<<1, X>>, 4)>>, 3),
                 On(<<To(<<0, 0>>, 3), To(<<1, 0>>, 4)>>, 5),
                 On(<<To(<<1, 1>>, 4), To(<<0, 1>>, 3)>>, 5),
                 Always(5)>>,
               <<0, 1, 1, 1, -1, -1>>)

Union(i, j, k) ==
    CASE i = j -> Subset(k, i)
      [] i # j /\ i = k -> Subset(j, i)
      [] i # j /\ i # k /\ j = k -> Eq2(i, j)
      [] OTHER ->
           Build(<<i, j, k>>,
                 <<Always(1),
                   On(<<To(<<0, 0, 0>>, 1), To(<<1, X, 1>>, 1),
                        To(<<1, 1, 0>>, 1)>>, 2),
                   Always(2)>>,
                 <<0, 1, -1>>)

Inter(i, j, k) ==
    CASE i = j -> Subset(i, k)
      [] i # j /\ i = k -> Subset(i, j)
      [] i # j /\ i # k /\ j = k -> Eq2(i, j)
      [] OTHER ->
           Build(<<i, j, k>>,
                 <<Always(1),
                   On(<<To(<<1, 1, 1>>, 1), To(<<0, 0, X>>, 1),
                        To(<<0, 1, 0>>, 1)>>, 2),
                   Always(2)>>,
                 <<0, 1, -1>>)

\* i == k is answered like j == k.
Setminus(i, j, k) ==
    CASE j = k \/ i = k -> Empty(i)
      [] j # k /\ i # k /\ i = j ->
           Build(<<i, k>>,
                 <<Always(1),
                   On(<<To(<<0, X>>, 1), To(<<1, 0>>, 1)>>, 2),
                   Always(2)>>,
                 <<0, 1, -1>>)
      [] OTHER ->
           Build(<<i, j, k>>,
                 <<Always(1),
                   On(<<To(<<0, 0, X>>, 1), To(<<1, 1, 0>>, 1),
                        To(<<0, 1, 1>>, 1)>>, 2),
                   Always(2)>>,
                 <<0, 1, -1>>)

Boolvar(b) ==
    Build(<<b>>,
          <<On(<<To(<<0>>, 2)>>, 1), Always(1), Always(2)>>,
          <<0, 1, -1>>)

-----------------------------------------------------------------------------
(* First-order variables: the value of a track is its first 1. *)

FirstOrder(i) ==
    Build(<<i>>,
          <<Always(1), On(<<To(<<0>>, 1)>>, 2), Always(2)>>,
          <<0, -1, 1>>)

\* The source asserts i # j.
In(i, j) ==
    Build(<<i, j>>,
          <<Always(1),
            On(<<To(<<1, 0>>, 3), To(<<1, 1>>, 2)>>, 1),
            Always(2),
            Always(3)>>,
          <<0, -1, 1, -1>>)

Eq1(i, j) ==
    IF i = j THEN True
    ELSE Build(<<i, j>>,
               <<Always(1),
                 On(<<To(<<0, 0>>, 1), To(<<1, 1>>, 2)>>, 3),
                 Always(2),
                 Always(3)>>,
               <<0, -1, 1, -1>>)

Less(i, j) ==
    IF i = j THEN False
    ELSE Build(<<i, j>>,
               <<Always(1),
                 On(<<To(<<0, 0>>, 1), To(<<1, 0>>, 2)>>, 3),
                 On(<<To(<<X, 0>>, 2)>>, 4),
                 Always(3),
                 Always(4)>>,
               <<0, -1, -1, -1, 1>>)

\* Faulty variant (see "mutants" in PROJECT.json): both at once is taken for the second first.
LesseqStrict(i, j) ==
    IF i = j THEN True
    ELSE Build(<<i, j>>,
               <<Always(1),
                 On(<<To(<<0, 0>>, 1), To(<<1, 0>>, 2)>>, 3),
                 On(<<To(<<X, 0>>, 2)>>, 4),
                 Always(3),
                 Always(4)>>,
               <<0, -1, -1, -1, 1>>)

Lesseq(i, j) ==
    IF i = j THEN True
    ELSE Build(<<i, j>>,
               <<Always(1),
                 On(<<To(<<0, 0>>, 1), To(<<1, 0>>, 2), To(<<1, 1>>, 4)>>, 3),
                 On(<<To(<<X, 0>>, 2)>>, 4),
                 Always(3),
                 Always(4)>>,
               <<0, -1, -1, -1, 1>>)

Const(n, i) ==
    Build(<<i>>,
          <<Always(3), Always(1), Always(2)>>
            \o [m \in 1..n |-> On(<<To(<<0>>, m + 3)>>, 2)]
            \o <<On(<<To(<<1>>, 1)>>, 2)>>,
          <<0, 1>> \o [m \in 1..n+2 |-> -1])

Plus1(i, j, n) ==
    CASE n = 0 -> Eq1(i, j)
      [] n # 0 /\ i = j -> False
      [] OTHER ->
           Build(<<i, j>>,
                 <<Always(1),
                   On(<<To(<<0, 0>>, 1), To(<<0, 1>>, 3)>>, 2),
                   Always(2)>>
                   \o [m \in 1..n-1 |-> On(<<To(<<0, X>>, m + 3)>>, 2)]
                   \o <<On(<<To(<<1, X>>, n + 3)>>, 2), Always(n + 3)>>,
                 <<0>> \o [m \in 1..n+2 |-> -1] \o <<1>>)

Minus1(i, j) ==
    IF i = j
    THEN Build(<<i>>,
               <<Always(1), On(<<To(<<1>>, 3)>>, 2), Always(2), Always(3)>>,
               <<0, -1, -1, 1>>)
    ELSE Build(<<i, j>>,
               <<Always(1),
                 On(<<To(<<0, 0>>, 2), To(<<0, 1>>, 3), To(<<1, 0>>, 4)>>, 5),
                 On(<<To(<<0, 0>>, 2), To(<<0, 1>>, 3), To(<<1, 0>>, 4)>>, 3),
                 Always(3),
                 On(<<To(<<X, 0>>, 3)>>, 5),
                 Always(5)>>,
               <<0, -1, -1, -1, -1, 1>>)

Max(i, j) ==
    IF i = j THEN True
    ELSE Build(<<i, j>>,
               <<Always(1),
                 On(<<To(<<0, X>>, 2)>>, 3),
                 On(<<To(<<0, X>>, 2), To(<<1, 0>>, 4)>>, 3),
                 On(<<To(<<X, 0>>, 3)>>, 4),
                 Always(4)>>,
               <<0, -1, -1, 1, -1>>)

Min(i, j) ==
    IF i = j THEN True
    ELSE Build(<<i, j>>,
               <<Always(1),
                 On(<<To(<<0, 0>>, 2), To(<<0, 1>>, 3), To(<<1, 0>>, 4)>>, 5),
                 On(<<To(<<0, 0>>, 2), To(<<1, 1>>, 5)>>, 3),
                 Always(3),
                 On(<<To(<<X, 0>>, 4)>>, 3),
                 Always(5)>>,
               <<0, -1, -1, -1, 1, 1>>)

\* i = j + 1 modulo k
PlusModulo1(i, j, k) ==
    CASE i = j /\ i = k ->
           Build(<<i>>,
                 <<Always(1), On(<<To(<<0>>, 2)>>, 3), Always(2), Always(3)>>,
                 <<0, -1, -1, 1>>)
      [] i = j /\ i # k ->
           Build(<<i, k>>,
                 <<Always(1),
                   On(<<To(<<0, X>>, 2), To(<<1, 0>>, 3)>>, 4),
                   Always(2),
                   On(<<To(<<X, 0>>, 2)>>, 4),
                   Always(4)>>,
                 <<0, -1, -1, -1, 1>>)
      [] i # j /\ j = k ->
           Build(<<i, k>>,
                 <<Always(1),
                   On(<<To(<<0, 0>>, 2), To(<<0, 1>>, 3), To(<<1, 0>>, 4)>>, 5),
                   On(<<To(<<1, 0>>, 6)>>, 3),
                   Always(3),
                   On(<<To(<<X, 0>>, 3)>>, 5),
                   Always(5),
                   On(<<To(<<X, 0>>, 6)>>, 5)>>,
                 <<0, -1, -1, -1, -1, 1, -1>>)
      [] i # j /\ j # k /\ i = k ->
           Build(<<k, j>>,
                 <<Always(1),
                   On(<<To(<<0, X>>, 2), To(<<1, 0>>, 3)>>, 4),
                   Always(2),
                   On(<<To(<<X, 0>>, 3)>>, 4),
                   Always(4)>>,
                 <<0, -1, -1, -1, 1>>)
      [] OTHER ->
           Build(<<i, j, k>>,
                 <<Always(1),
                   On(<<To(<<0, 0, 0>>, 2), To(<<0, X, 1>>, 3),
                        To(<<0, 1, 0>>, 4), To(<<1, 0, 0>>, 5),
                        To(<<1, 0, 1>>, 6), To(<<1, 1, 0>>, 7)>>, 8),
                   On(<<To(<<0, 0, 0>>, 9), To(<<0, 1, 0>>, 4),
                        To(<<1, 0, 0>>, 10)>>, 3),
                   Always(3),
                   On(<<To(<<1, X, 0>>, 11)>>, 3),
                   On(<<To(<<X, 0, 0>>, 12), To(<<X, 0, 1>>, 6),
                        To(<<X, 1, 0>>, 7)>>, 8),
                   On(<<To(<<X, 0, X>>, 6)>>, 8),
                   On(<<To(<<X, X, 1>>, 8)>>, 3),
                   Always(8),
                   On(<<To(<<0, 0, 0>>, 9), To(<<0, 1, 0>>, 4)>>, 3),
                   On(<<To(<<X, 0, 0>>, 10), To(<<X, 1, 1>>, 8)>>, 3),
                   On(<<To(<<X, X, 0>>, 11)>>, 8),
                   On(<<To(<<X, 0, 0>>, 12), To(<<X, 0, 1>>, 6),
                        To(<<X, 1, 0>>, 7)>>, 3)>>,
                 <<0, -1, -1, -1, -1, -1, -1, -1, 1, -1, -1, -1, -1>>)

\* i = j - 1 modulo k
MinusModulo1(i, j, k) ==
    CASE i = j /\ i = k ->
           Build(<<i>>,
                 <<Always(1), On(<<To(<<0>>, 2)>>, 3), Always(2), Always(3)>>,
                 <<0, -1, -1, 1>>)
      [] i = j /\ i # k ->
           Build(<<i, k>>,
                 <<Always(1),
                   On(<<To(<<0, X>>, 2), To(<<1, 0>>, 3)>>, 4),
                   Always(2),
                   On(<<To(<<X, 0>>, 2)>>, 4),
                   Always(4)>>,
                 <<0, -1, -1, -1, 1>>)
      [] i # j /\ j = k ->
           Build(<<i, j>>,
                 <<Always(1),
                   On(<<To(<<0, 0>>, 2), To(<<0, 1>>, 3), To(<<1, 0>>, 4)>>, 5),
                   On(<<To(<<0, 0>>, 2), To(<<1, 0>>, 4)>>, 3),
                   Always(3),
                   On(<<To(<<X, 0>>, 3)>>, 5),
                   Always(5)>>,
                 <<0, -1, -1, -1, -1, 1>>)
      [] i # j /\ j # k /\ i = k ->
           Build(<<j, k>>,
                 <<Always(1),
                   On(<<To(<<0, 1>>, 3), To(<<1, 1>>, 4)>>, 2),
                   Always(2),
                   On(<<To(<<0, X>>, 3)>>, 4),
                   Always(4)>>,
                 <<0, -1, -1, -1, 1>>)
      [] OTHER ->
           Build(<<i, j, k>>,
                 <<Always(1),
                   On(<<To(<<0, 0, 0>>, 2), To(<<0, 1, 0>>, 4),
                        To(<<1, 0, 0>>, 5), To(<<1, 0, 1>>, 6),
                        To(<<1, 1, 0>>, 7), To(<<1, 1, 1>>, 8)>>, 3),
                   On(<<To(<<0, 0, 0>>, 2), To(<<1, 0, 0>>, 9)>>, 3),
                   Always(3),
                   On(<<To(<<0, X, 0>>, 4), To(<<1, X, 0>>, 7)>>, 3),
                   On(<<To(<<X, 0, 0>>, 10), To(<<X, 0, 1>>, 6),
                        To(<<X, 1, 0>>, 11)>>, 8),
                   On(<<To(<<X, 0, X>>, 6)>>, 8),
                   On(<<To(<<X, X, 1>>, 8)>>, 3),
                   Always(8),
                   On(<<To(<<X, 1, 0>>, 11), To(<<X, 1, 1>>, 8)>>, 3),
                   On(<<To(<<X, 0, 0>>, 10), To(<<X, 0, 1>>, 6)>>, 3),
                   On(<<To(<<X, X, 0>>, 11)>>, 8)>>,
                 <<0, -1, -1, -1, -1, -1, -1, -1, 1, -1, -1, -1>>)

-----------------------------------------------------------------------------
(* Presburger constants, least significant bit first. *)

\* The number of bits of n, and its bit at position m >= 1.
Bits(n) == CHOOSE b \in 0..n : 2^b > n /\ (b = 0 \/ 2^(b-1) <= n)
BitAt(n, m) == (n \div 2^(m-1)) % 2

PresbConst(i, n) ==
    Build(<<i>>,
          <<Always(2), Always(1)>>
            \o [m \in 1..Bits(n) |-> On(<<To(<<1 - BitAt(n, m)>>, 1)>>, m + 2)]
            \o <<On(<<To(<<1>>, 1)>>, Bits(n) + 2)>>,
          <<0>> \o [m \in 1..Bits(n)+1 |-> -1] \o <<1>>)
=============================================================================
