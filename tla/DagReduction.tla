---------------------------- MODULE DagReduction ----------------------------
(***************************************************************************)
(* The reduction of the graph of formula code that MONA does before it     *)
(* makes automata, unless it is told not to (mona-1.4/Front/reduce.cpp,    *)
(* codesubst.cpp): VarCode::reduceAll.                                     *)
(*                                                                         *)
(* A node that can be done without is forwarded to another one: every      *)
(* reference that meets it is redirected, with its variables adapted, and  *)
(* the node goes with the last of them.  Nodes are shared and changed in   *)
(* place: what a node was found by, its signature, the place of its bound  *)
(* variable and its bucket, stays what it was when the node was made.      *)
(*                                                                         *)
(* One state of the reduction, s below, is a record of the table of nodes, *)
(* the copies made by substitution (codeTable->sclist), and the lists of   *)
(* conjuncts of phase 2.  Marks, forwardings and the copies of a node are  *)
(* fields of the nodes.  Separate compilation and universes are left out.  *)
(***************************************************************************)
EXTENDS CodeDag

-----------------------------------------------------------------------------
(* Substitution of variables. *)

\* subst: what is not in the list from is left alone.
SubstVar(i, from, to) ==
    IF i \in FreeIn(from)
    THEN to[CHOOSE n \in DOMAIN from :
              from[n] = i /\ \A m \in 1..n-1 : from[m] # i]
    ELSE i

Subst(list, from, to) == [n \in DOMAIN list |-> SubstVar(list[n], from, to)]

\* A reference with one more count.
Counted(s, i) == [s EXCEPT !.nodes[i].refs = @ + 1]

Entered(s, c) ==
    LET x == Inserted(s.nodes, c)
    IN [s |-> [s EXCEPT !.nodes = x.table], vc |-> x.vc]

\* VarCode::substCopy and Code::substCopy: the formula of vc with the variables
\* to in the place of from.  A copy of a node is kept by the signature of its
\* variables, and used again where these are in the same order.
RECURSIVE SubstCopy(_, _, _, _), NodeCopy(_, _, _)
SubstCopy(s, vc, from, to) ==
    LET actuals == Subst(vc.vars, from, to)
        copies == s.nodes[vc.code].sclist
        usable == {n \in DOMAIN copies :
                     copies[n].sign = Signature(actuals)}
    IN IF actuals = vc.vars THEN [s |-> Counted(s, vc.code), vc |-> vc]
       ELSE IF usable # {}
       THEN LET copy == copies[CHOOSE n \in usable : \A m \in usable : n <= m]
            IN [s |-> Counted(s, copy.vc.code),
                vc |-> [copy.vc EXCEPT !.vars =
                          Subst(@, Compressed(copy.actuals), Compressed(actuals))]]
       ELSE LET x == NodeCopy(s, s.nodes[vc.code], actuals)
                entry == [actuals |-> actuals, sign |-> Signature(actuals),
                          vc |-> x.vc]
                kept == [x.s EXCEPT !.nodes[vc.code].sclist = <<entry>> \o @,
                                    !.copies = Append(@, x.vc)]
            IN [s |-> Counted(kept, x.vc.code), vc |-> x.vc]

NodeCopy(s, n, actuals) ==
    CASE n.parts = <<>> ->
           Entered(s, AtomNode(n.kind, Subst(n.args, n.vars, actuals), n.val))
      [] Len(n.parts) = 1 ->
           LET x == SubstCopy(s, n.parts[1], n.vars, actuals)
           IN Entered(x.s, IF n.kind = "Project"
                        THEN ProjectNode(x.s.nodes, n.var, x.vc)
                        ELSE UnaryNode(x.s.nodes, n.kind, x.vc))
      [] OTHER ->
           LET x == SubstCopy(s, n.parts[1], n.vars, actuals)
               y == SubstCopy(x.s, n.parts[2], n.vars, actuals)
           IN Entered(y.s, BinaryNode(y.s.nodes, n.kind, x.vc, y.vc))

\* clearSCTable: the references of the copies are given up.
CopiesCleared(s) ==
    LET after[n \in 0..Len(s.copies)] ==
          IF n = 0 THEN s.nodes ELSE Removed(after[n-1], s.copies[n].code)
    IN [s EXCEPT !.nodes = after[Len(s.copies)], !.copies = <<>>]

\* unmark: all that can be reached, that is, all that is left but copies.
Unmarked(s) ==
    [s EXCEPT !.nodes = [i \in DOMAIN @ |->
                           [@[i] EXCEPT !.mark = FALSE, !.sclist = <<>>]]]

-----------------------------------------------------------------------------
(* Phase 1: local rules and projections. *)

\* forwarded = VarCode(vc.vars->copy(), vc.code), with its reference.
Forward(s, i, vc) ==
    [Counted(s, vc.code) EXCEPT !.nodes[i].forwarded = vc]

\* forwarded = codeTable->insert(c)
ForwardToNew(s, i, c) ==
    LET x == Entered(s, c) IN [x.s EXCEPT !.nodes[i].forwarded = x.vc]

Constant(kind) == AtomNode(kind, <<>>, 0)
ForwardToNegation(s, i, vc) ==
    LET counted == Counted(s, vc.code)
    IN ForwardToNew(counted, i, UnaryNode(counted.nodes, "Negate", vc))

\* The rules of the connectives, in the order in which they are tried: if this
\* part is True or False (or, Same, if the parts are equal), then the formula
\* is one of its parts, its negation, or True.
When(part, is, what, which) ==
    [part |-> part, is |-> is, what |-> what, which |-> which]
Same(what) == When(0, "", what, 1)

LocalRules ==
    [And |-> <<When(1, "True", "part", 2), When(2, "True", "part", 1),
               When(2, "False", "part", 2), When(1, "False", "part", 1),
               Same("part")>>,
     Or |-> <<When(1, "False", "part", 2), When(2, "False", "part", 1),
              When(2, "True", "part", 2), When(1, "True", "part", 1),
              Same("part")>>,
     Impl |-> <<When(1, "True", "part", 2), When(2, "True", "True", 0),
                When(2, "False", "negation", 1), When(1, "False", "True", 0),
                Same("True")>>,
     Biimpl |-> <<When(1, "True", "part", 2), When(2, "True", "part", 1),
                  When(2, "False", "negation", 1),
                  When(1, "False", "negation", 2), Same("True")>>]

Applies(s, n, rule) ==
    IF rule.part = 0 THEN n.parts[1] = n.parts[2]
    ELSE s.nodes[n.parts[rule.part].code].kind = rule.is

Product1(s, i) ==
    LET n == s.nodes[i]
        rules == LocalRules[n.kind]
        usable == {r \in DOMAIN rules : Applies(s, n, rules[r])}
        rule == rules[CHOOSE r \in usable : \A q \in usable : r <= q]
    IN IF usable = {} THEN s
       ELSE CASE rule.what = "part" -> Forward(s, i, n.parts[rule.which])
              [] rule.what = "negation" ->
                   ForwardToNegation(s, i, n.parts[rule.which])
              [] OTHER -> ForwardToNew(s, i, Constant("True"))

\* Faulty variant (see "mutants" in PROJECT.json): ~~X keeps the names that X has inside.
Negate1Unsubstituted(s, i) ==
    LET c == s.nodes[s.nodes[i].parts[1].code]
    IN IF c.kind = "Negate" THEN Forward(s, i, c.parts[1]) ELSE s

Negate1(s, i) ==
    LET n == s.nodes[i]
        c == s.nodes[n.parts[1].code]
    IN CASE c.kind = "Negate" ->
              Forward(s, i, [c.parts[1] EXCEPT !.vars =
                               Subst(@, c.vars, n.parts[1].vars)])
         [] c.kind = "True" -> ForwardToNew(s, i, Constant("False"))
         [] c.kind = "False" -> ForwardToNew(s, i, Constant("True"))
         [] OTHER -> s

Equality1(s, i) ==
    IF s.nodes[i].args[1] = s.nodes[i].args[2]
    THEN ForwardToNew(s, i, Constant("True")) ELSE s

\* The other one of two variables, if they are not one.
OtherThan(x, i, j) ==
    IF i = x /\ j # x THEN j ELSE IF j = x /\ i # x THEN i ELSE None

\* findEquality: a variable that x must be equal to where vc holds; seen are
\* the nodes searched, each with the name x had there (eqlist).
RECURSIVE FindEquality(_, _, _, _)
FindEquality(s, x, vc, seen) ==
    LET n == s.nodes[vc.code]
        local == SubstVar(x, vc.vars, n.vars)
        here == seen \cup {<<vc.code, local>>}
        first == FindEquality(s, local, n.parts[1], seen)
        Outside(r) == [y |-> IF r.y = None THEN None
                             ELSE SubstVar(r.y, n.vars, vc.vars),
                       seen |-> r.seen \cup here]
        Nothing(r) == [y |-> None, seen |-> r]
    IN IF x \notin FreeIn(vc.vars) \/ <<vc.code, local>> \in seen
       THEN Nothing(seen)
       ELSE CASE n.kind = "And" ->
                   IF first.y # None THEN Outside(first)
                   ELSE Outside(FindEquality(s, local, n.parts[2], first.seen))
              [] n.kind \in {"Project", "Restrict"} -> Outside(first)
              [] n.kind \in {"Eq1", "Eq2"} ->
                   Outside([y |-> OtherThan(local, n.args[1], n.args[2]),
                            seen |-> seen])
              [] n.kind = "Biimpl"
                 /\ s.nodes[n.parts[1].code].kind = "BoolVar"
                 /\ s.nodes[n.parts[2].code].kind = "BoolVar" ->
                   Outside([y |-> OtherThan(local,
                                    s.nodes[n.parts[1].code].args[1],
                                    s.nodes[n.parts[2].code].args[1]),
                            seen |-> seen])
              [] OTHER -> Nothing(here)

-----------------------------------------------------------------------------
(* Phase 2: conjuncts that follow from others. *)

\* The conjuncts of a node are references to nodes; conj and restr are the
\* lists conj and restrconj, as sets.
SubstAll(S, from, to) == {[r EXCEPT !.vars = Subst(@, from, to)] : r \in S}
ConjunctsOf(s, vc) == SubstAll(s.conj[vc.code], s.nodes[vc.code].vars, vc.vars)
RestrictedOf(s, vc) == SubstAll(s.restr[vc.code], s.nodes[vc.code].vars, vc.vars)

WithConjuncts(s, i, conj, restr) ==
    [s EXCEPT !.conj = [j \in DOMAIN @ \cup {i} |-> IF j = i THEN conj ELSE @[j]],
              !.restr = [j \in DOMAIN @ \cup {i} |-> IF j = i THEN restr ELSE @[j]]]

Conjunction2(s, i) ==
    LET vc1 == s.nodes[i].parts[1]
        vc2 == s.nodes[i].parts[2]
        Follows(x, y) ==
          /\ ConjunctsOf(s, y) \subseteq ConjunctsOf(s, x) \cup RestrictedOf(s, x)
          /\ RestrictedOf(s, y) \subseteq RestrictedOf(s, x)
        short == IF Follows(vc1, vc2) THEN Forward(s, i, vc1)
                 ELSE IF Follows(vc2, vc1) THEN Forward(s, i, vc2) ELSE s
    IN WithConjuncts(short, i, ConjunctsOf(s, vc1) \cup ConjunctsOf(s, vc2),
                               RestrictedOf(s, vc1) \cup RestrictedOf(s, vc2))

\* "for obscure reasons it is safe to add sublists"
Conjuncts2(s, i) ==
    LET n == s.nodes[i]
        self == [vars |-> n.vars, code |-> i]
        vc == n.parts[1]
        c == s.nodes[vc.code]
    IN CASE n.kind = "And" -> Conjunction2(s, i)
         [] n.kind = "Restrict" ->
              WithConjuncts(s, i, {}, ConjunctsOf(s, vc) \cup RestrictedOf(s, vc))
         [] n.kind = "Project" ->
              WithConjuncts(s, i, {self} \cup ConjunctsOf(s, vc), RestrictedOf(s, vc))
         [] n.kind = "Negate" /\ c.kind = "Project"
            /\ s.nodes[c.parts[1].code].kind = "Negate" ->
              LET below == s.nodes[c.parts[1].code].parts[1]
                  Up(S) == SubstAll(SubstAll(S,
                                     s.nodes[c.parts[1].code].vars, c.parts[1].vars),
                             c.vars, vc.vars)
              IN WithConjuncts(s, i, {self} \cup Up(ConjunctsOf(s, below)),
                               Up(RestrictedOf(s, below)))
         [] OTHER -> WithConjuncts(s, i, {self}, {})

-----------------------------------------------------------------------------
(* The traversal. *)

\* findEquiv: another node that the node i has become equal to, where its
\* contents are now hashed to.
EquivTo(s, i) ==
    LET n == s.nodes[i]
        key == HashKey(n.kind, n.sign, n.val, n.parts)
    IN Found(s.nodes, [n EXCEPT !.bucket = key]) \ {i}

\* A node that has not been forwarded goes to the one it has become equal to.
Unified(s, i) ==
    LET equal == EquivTo(s, i)
    IN IF s.nodes[i].forwarded # NoRef \/ equal = {} THEN s
       ELSE Forward(s, i, [vars |-> s.nodes[i].vars,
                           code |-> CHOOSE j \in equal : TRUE])

\* VarCode::reduce for the reference vc: the node is visited once, and then
\* its forwarding is followed.
RECURSIVE Reduce(_, _), Followed(_, _), Parts(_, _, _), Node1(_, _)
Reduce(s, vc) ==
    LET begun == [s EXCEPT !.nodes[vc.code].mark = TRUE]
    IN Followed(IF s.nodes[vc.code].mark THEN s
                ELSE Unified(IF s.phase = 1 THEN Node1(begun, vc.code)
                             ELSE Conjuncts2(Parts(begun, vc.code, 1), vc.code),
                             vc.code),
                vc)

Followed(s, vc) ==
    LET n == s.nodes[vc.code]
        to == n.forwarded
    IN IF to = NoRef THEN [s |-> s, vc |-> vc]
       ELSE Reduce([s EXCEPT !.nodes = Removed(Counted(s, to.code).nodes, vc.code)],
                   [vars |-> Compressed(Subst(to.vars, n.vars, vc.vars)),
                    code |-> to.code])

\* The references to the parts of node i, from the k-th on, and its depth.
Parts(s, i, k) ==
    IF k > Len(s.nodes[i].parts)
    THEN s
    ELSE LET Put(x) == [x.s EXCEPT !.nodes[i].parts[k] = x.vc]
         IN Parts(Put(Reduce(s, s.nodes[i].parts[k])), i, k + 1)

DepthOf(s, i) ==
    LET parts == s.nodes[i].parts
        Depth(k) == s.nodes[parts[k].code].depth
    IN CASE Len(parts) = 0 -> 0
         [] Len(parts) = 1 -> Depth(1) + 1
         [] OTHER -> Larger(Depth(1), Depth(2)) + 1

Measured(s, i) == [s EXCEPT !.nodes[i].depth = DepthOf(s, i)]

\* ex x: .. & x = y & .. is its body with y for x; a quantifier whose variable
\* does not occur is its body.
Projection1(s, i) ==
    LET n == s.nodes[i]
        vc == n.parts[1]
        Instance(y) == SubstCopy(s, vc, <<n.var>>, <<y>>)
        Reduced(x) == Reduce(x.s, x.vc)
        ForwardedTo(x) == [x.s EXCEPT !.nodes[i].forwarded = x.vc]
        WithEqual(y) == IF y # None THEN ForwardedTo(Reduced(Instance(y)))
                        ELSE IF n.var \notin FreeIn(vc.vars) THEN Forward(s, i, vc)
                        ELSE s
    IN WithEqual(FindEquality(s, n.var, vc, {}).y)

\* reduce1 of all classes.
Rule1(s, i) ==
    LET kind == s.nodes[i].kind
    IN CASE kind \in DOMAIN LocalRules -> Product1(s, i)
         [] kind = "Negate" -> Negate1(s, i)
         [] kind \in {"Eq1", "Eq2"} -> Equality1(s, i)
         [] kind = "Project" -> Projection1(s, i)
         [] OTHER -> s

Node1(s, i) == Rule1(Measured(Parts(s, i, 1), i), i)

\* All references of a list, in order.
ReduceList(s, vcs) ==
    LET after[n \in 0..Len(vcs)] ==
          IF n = 0 THEN [s |-> s, vcs |-> <<>>]
          ELSE LET Appended(x) == [s |-> x.s, vcs |-> Append(after[n-1].vcs, x.vc)]
               IN Appended(Reduce(after[n-1].s, vcs[n]))
    IN after[Len(vcs)]

\* VarCode::reduceAll
ReduceAll ==
    LET start == [nodes |-> nodes, copies |-> <<>>, conj |-> <<>>, restr |-> <<>>,
                  phase |-> 1]
        Phase2(x) ==
          ReduceList([CopiesCleared(Unmarked(x.s)) EXCEPT !.phase = 2], x.vcs)
        formulas == [n \in DOMAIN stack |-> stack[n].vc]
    IN \E x \in {Phase2(ReduceList(start, formulas))} :
         /\ nodes' = Unmarked(x.s).nodes
         /\ stack' = [n \in DOMAIN stack |-> [stack[n] EXCEPT !.vc = x.vcs[n]]]
         /\ UNCHANGED <<family, grows, inserted>>
=============================================================================
