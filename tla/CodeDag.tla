------------------------------ MODULE CodeDag ------------------------------
(***************************************************************************)
(* The graph of formula code MONA builds from a formula before it makes an *)
(* automaton (mona-1.4/Front/code.cpp, codetable.cpp, signature.cpp, the   *)
(* callers in ast.cpp).                                                    *)
(*                                                                         *)
(* Two subformulas share a node if they are equal up to an order-preserving *)
(* renaming of variables: a node is found again by its kind, its parts and *)
(* the signature of its variables, and a reference to it (VarCode) carries *)
(* the variables to put in the place of those of the node.                 *)
(*                                                                         *)
(* Variables are identified with their offsets, the tracks.  Addresses of  *)
(* nodes are node numbers, which grow or shrink: the code orders the parts *)
(* of symmetric connectives by address.                                    *)
(***************************************************************************)
EXTENDS AtomMeaning

CONSTANTS
    Families    \* what formulas are built from: sets of atoms, connectives
                \* and variables, and bounds on insertions, quantifiers
                \* and formulas

VARIABLES
    family,     \* the family the formula belongs to
    grows,      \* do addresses grow?
    inserted,   \* the number of calls of insert so far
    nodes,      \* the code table: address -> node, for the nodes that exist
    stack       \* code built for subformulas, with the formulas they stand for

dagVars == <<family, grows, inserted, nodes, stack>>

ASSUME FamiliesAssumption ==
    \A f \in Families :
      /\ f.inserts \in Nat /\ f.quantifiers \in Nat /\ f.formulas \in Nat
      /\ \A a \in f.atoms :
           \A n \in DOMAIN a.args : a.args[n] \in 0..Tracks-1
      /\ f.projected \subseteq 0..Tracks-1
      /\ f.firstOrder \subseteq 0..Tracks-1
      /\ f.optimize \in BOOLEAN /\ f.vacuous \in BOOLEAN

\* The null pointer; addresses are other numbers.
NoCode == 0
NoRef == [vars |-> <<>>, code |-> NoCode]

Symmetric == {"And", "Or", "Biimpl"}

-----------------------------------------------------------------------------
(* Lists of variables and signatures. *)

\* IdentList::compress: sorted, without duplicates.
Compressed(list) ==
    LET S == {list[n] : n \in DOMAIN list}
    IN [n \in 1..Cardinality(S) |->
          CHOOSE i \in S : Cardinality({j \in S : j < i}) = n - 1]

\* Faulty variant (see "mutants" in PROJECT.json): every variable is compared with the one before it.
SignatureNeighbours(list) ==
    [n \in DOMAIN list |-> IF n > 1 /\ list[n-1] < list[n] THEN 1 ELSE 0]

\* Signature::make: the rank of every variable of the list among them.
Signature(list) ==
    [n \in DOMAIN list |->
       Cardinality({list[m] : m \in {k \in DOMAIN list : list[k] < list[n]}})]

\* The members of a list.
FreeIn(list) == {list[n] : n \in DOMAIN list}

Without(list, i) == SelectSeq(list, LAMBDA j : j # i)

-----------------------------------------------------------------------------
(* The constructors. *)

\* hash: what decides on the bucket.  Different keys are taken not to collide.
HashKey(kind, sign, val, parts) ==
    IF parts = <<>> THEN <<kind, sign, val>>
    ELSE <<kind, [n \in DOMAIN parts |-> parts[n].code]>>

Node(kind, args, val, parts, list, sign, var, varpos, depth) ==
    [kind |-> kind, args |-> args, val |-> val, parts |-> parts,
     vars |-> Compressed(list), sign |-> sign, var |-> var, varpos |-> varpos,
     depth |-> depth, refs |-> 1, mark |-> FALSE, dfa |-> NoAutomaton,
     bucket |-> HashKey(kind, sign, val, parts),
     forwarded |-> NoRef, sclist |-> <<>>]

\* Code_nn and Code_nnn put the arguments of symmetric relations in order.
Ordered(kind, args) ==
    IF \/ kind \in {"Eq1", "Eq2"} /\ args[1] > args[2]
    THEN <<args[2], args[1]>>
    ELSE IF kind \in {"EqUnion", "EqInter"} /\ args[2] > args[3]
         THEN <<args[1], args[3], args[2]>>
         ELSE args

\* Code, Code_n, Code_ni, Code_nn, Code_nni, Code_nnn.  One variable makes no
\* signature.
AtomNode(kind, given_args, val) ==
    LET args == Ordered(kind, given_args)
        sign == IF Len(args) < 2 THEN <<>> ELSE Signature(args)
    IN Node(kind, args, val, <<>>, args, sign, None, 0, 0)

\* Code_c
UnaryNode(table, kind, vc) ==
    Node(kind, <<>>, 0, <<vc>>, vc.vars, Signature(vc.vars), None, 0,
         table[vc.code].depth + 1)

\* Code_Project: varpos is the place of the variable among the others.
ProjectNode(table, var, vc) ==
    LET rest == Without(vc.vars, var)
    IN Node("Project", <<>>, 0, <<vc>>, rest, Signature(rest), var,
            Cardinality({n \in DOMAIN vc.vars : vc.vars[n] < var}),
            table[vc.code].depth + 1)

\* Code_cc
Larger(d1, d2) == IF d1 > d2 THEN d1 ELSE d2

BinaryNode(table, kind, c1, c2) ==
    LET swap == kind \in Symmetric /\ c1.code < c2.code
        vc1 == IF swap THEN c2 ELSE c1
        vc2 == IF swap THEN c1 ELSE c2
        list == vc1.vars \o vc2.vars
    IN Node(kind, <<>>, 0, <<vc1, vc2>>, list, Signature(list), None, 0,
            Larger(table[c1.code].depth, table[c2.code].depth) + 1)

-----------------------------------------------------------------------------
(* References. *)

\* equiv of all classes: what they do not use is the same in both nodes.
Equiv(c, d) ==
    /\ c.kind = d.kind /\ c.val = d.val
    /\ c.sign = d.sign /\ c.varpos = d.varpos
    /\ Len(c.parts) = Len(d.parts)
    /\ \A n \in DOMAIN c.parts : c.parts[n].code = d.parts[n].code

\* Code::remove: the node goes with its last reference, and takes with it the
\* references it still has to its parts.  A reference that was removed is NoCode.
RECURSIVE Removed(_, _)
Removed(table, i) ==
    IF table[i].refs > 1
    THEN [table EXCEPT ![i].refs = @ - 1]
    ELSE LET held == Append(table[i].parts, table[i].forwarded)
             rest == [j \in DOMAIN table \ {i} |-> table[j]]
             without[n \in 0..Len(held)] ==
               IF n = 0 THEN rest
               ELSE IF held[n].code = NoCode THEN without[n-1]
               ELSE Removed(without[n-1], held[n].code)
         IN without[Len(held)]

\* Faulty variant (see "mutants" in PROJECT.json): the parts of a duplicate keep its references.
DiscardedKept(table, c) == table

\* The references of the node c, which was never in the table, are removed.
Discarded(table, c) ==
    LET after[n \in 0..Len(c.parts)] ==
          IF n = 0 THEN table ELSE Removed(after[n-1], c.parts[n].code)
    IN after[Len(c.parts)]

\* The address of the next node.
NextAddress(table) ==
    LET used == DOMAIN table \cup {0}
    IN IF grows THEN (CHOOSE i \in used : \A j \in used : j <= i) + 1
       ELSE (CHOOSE i \in used : \A j \in used : i <= j) - 1

\* The nodes of c's bucket that are found to be equal to it.
Found(table, c) ==
    {i \in DOMAIN table : table[i].bucket = c.bucket /\ Equiv(table[i], c)}

\* A table of nodes, and a reference into it that has been counted.
Result(table, vc) == [table |-> table, vc |-> vc]

\* CodeTable::insert: an equivalent node gets one more reference and the new
\* node is deleted; otherwise the new node is put in.
Inserted(table, c) ==
    IF Found(table, c) # {}
    THEN LET i == CHOOSE i \in Found(table, c) : TRUE
         IN Result(Discarded([table EXCEPT ![i].refs = @ + 1], c),
                   [vars |-> c.vars, code |-> i])
    ELSE LET address == NextAddress(table)
         IN Result([j \in DOMAIN table \cup {address} |->
                      IF j = address THEN c ELSE table[j]],
                   [vars |-> c.vars, code |-> address])

\* andList: a conjunction with True is the other part.
AndListed(table, c1, c2) ==
    IF table[c1.code].kind = "True" THEN Result(Removed(table, c1.code), c2)
    ELSE IF table[c2.code].kind = "True"
         THEN Result(Removed(table, c2.code), c1)
    ELSE Inserted(table, BinaryNode(table, "And", c1, c2))

-----------------------------------------------------------------------------
(* The makeCode functions of the AST, as a stack machine. *)

Top == stack[Len(stack)]
Second == stack[Len(stack) - 1]
Below(n) == SubSeq(stack, 1, Len(stack) - n)

MayInsert == inserted < family.inserts

\* Code that was made takes the place of some on the stack.
Push(x, below, formula) ==
    /\ nodes' = x.table
    /\ stack' = Append(below, [vc |-> x.vc, formula |-> formula])
    /\ inserted' = inserted + 1
    /\ UNCHANGED <<family, grows>>

\* The number of quantifiers of a formula, and the variables they bind.
RECURSIVE Quantifiers(_)
Quantifiers(t) ==
    IF "sub" \notin DOMAIN t THEN 0
    ELSE Quantifiers(t.sub)
         + (IF t.op = "Project" THEN 1 ELSE 0)
         + (IF "sub2" \in DOMAIN t THEN Quantifiers(t.sub2) ELSE 0)

RECURSIVE Bound(_)
Bound(t) ==
    IF "sub" \notin DOMAIN t THEN {}
    ELSE Bound(t.sub)
         \cup (IF t.op = "Project" THEN {t.var} ELSE {})
         \cup (IF "sub2" \in DOMAIN t THEN Bound(t.sub2) ELSE {})

\* Bound variables are fresh (symbolTable.insertFresh): they are bound once
\* and do not occur outside of their scope.
BoundSoFar == UNION {Bound(stack[n].formula) : n \in DOMAIN stack}

\* getRestriction and substitute12UCode: a first-order variable has a position
\* wherever it is used.  A second-order variable is not restricted.
IsNumber(i) == [op |-> "FirstOrder", args |-> <<i>>, val |-> 0]

Restriction(table, i) ==
    IF i \in family.firstOrder
    THEN LET x == Inserted(table, AtomNode("FirstOrder", <<i>>, 0))
         IN Inserted(x.table, UnaryNode(x.table, "Restrict", x.vc))
    ELSE Inserted(table, AtomNode("True", <<>>, 0))

\* A list of references that is one longer.
Collected(vcs, x) == [table |-> x.table, vcs |-> Append(vcs, x.vc)]

\* An atomic formula is in conjunction with the restrictions of its terms.
RestrictedAtom(table, a) ==
    LET terms[n \in 0..Len(a.args)] ==
          IF n = 0 THEN [table |-> table, vcs |-> <<>>]
          ELSE Collected(terms[n-1].vcs, Restriction(terms[n-1].table, a.args[n]))
        Conjunction(t) ==
          LET with[n \in 0..Len(a.args)] ==
                IF n = 0 THEN Inserted(t.table, AtomNode(a.kind, a.args, a.val))
                ELSE AndListed(with[n-1].table, with[n-1].vc, t.vcs[n])
          IN with[Len(a.args)]
    IN Conjunction(terms[Len(a.args)])

AtomFormula(a) ==
    LET with[n \in 0..Len(a.args)] ==
          IF n = 0 THEN [op |-> a.kind, args |-> a.args, val |-> a.val]
          ELSE IF a.args[n] \notin family.firstOrder THEN with[n-1]
          ELSE [op |-> "And", sub |-> with[n-1],
                sub2 |-> [op |-> "Restrict", sub |-> IsNumber(a.args[n])]]
    IN with[Len(a.args)]

InsertAtom ==
    /\ MayInsert
    /\ \E a \in family.atoms :
         /\ FreeIn(a.args) \cap BoundSoFar = {}
         /\ Push(RestrictedAtom(nodes, a), stack, AtomFormula(a))

InsertUnary ==
    /\ MayInsert /\ Len(stack) >= 1
    /\ \E kind \in family.unary :
         Push(Inserted(nodes, UnaryNode(nodes, kind, Top.vc)), Below(1),
              [op |-> kind, sub |-> Top.formula])

\* A quantifier.  Its variable need not occur, if the family says so.
InsertProject ==
    /\ MayInsert /\ Len(stack) >= 1
    /\ Quantifiers(Top.formula) < family.quantifiers
    /\ \E i \in family.projected \ BoundSoFar :
         /\ i \in FreeIn(Top.vc.vars) \/ family.vacuous
         /\ \A n \in 1..Len(stack)-1 : i \notin FreeIn(stack[n].vc.vars)
         /\ Push(Inserted(nodes, ProjectNode(nodes, i, Top.vc)), Below(1),
                 [op |-> "Project", var |-> i, sub |-> Top.formula])

InsertBinary ==
    /\ MayInsert /\ Len(stack) >= 2
    /\ \E kind \in family.binary :
         Push(Inserted(nodes, BinaryNode(nodes, kind, Second.vc, Top.vc)),
              Below(2),
              [op |-> kind, sub |-> Second.formula, sub2 |-> Top.formula])

InsertList ==
    /\ MayInsert /\ Len(stack) >= 2 /\ "AndList" \in family.lists
    /\ Push(AndListed(nodes, Second.vc, Top.vc), Below(2),
            [op |-> "And", sub |-> Second.formula, sub2 |-> Top.formula])

\* The main program puts the restrictions of all global variables in
\* conjunction with every formula, the main formula last.
Globals == family.firstOrder \ family.projected
InOrder(S) == CHOOSE list \in [1..Cardinality(S) -> S] :
                \A m, n \in DOMAIN list : m < n => list[m] < list[n]

Assertion(table) ==
    LET ids == InOrder(Globals)
        all[n \in 0..Len(ids)] ==
          IF n = 0 THEN Inserted(table, AtomNode("True", <<>>, 0))
          ELSE LET x == Inserted(all[n-1].table,
                                 AtomNode("FirstOrder", <<ids[n]>>, 0))
               IN AndListed(x.table, all[n-1].vc, x.vc)
        Restrict(x) == Inserted(x.table, UnaryNode(x.table, "Restrict", x.vc))
    IN IF Globals = {} THEN Inserted(table, AtomNode("True", <<>>, 0))
       ELSE Restrict(all[Len(ids)])

Asserted(formula) ==
    LET ids == InOrder(Globals)
        with[n \in 0..Len(ids)] ==
          IF n = 0 THEN formula
          ELSE [op |-> "And", sub |-> with[n-1],
                sub2 |-> [op |-> "Restrict", sub |-> IsNumber(ids[n])]]
    IN with[Len(ids)]

\* The formulas to verify are stack[2], stack[3], ...; the assertion gets a
\* reference for each.
WithAssertion ==
    /\ \E assertion \in {Assertion(nodes)} :
         LET vc == assertion.vc
             with[n \in 1..Len(stack)] ==
               IF n = 1 THEN [table |-> assertion.table, vcs |-> <<>>]
               ELSE Collected(with[n-1].vcs,
                           AndListed([with[n-1].table EXCEPT ![vc.code].refs = @ + 1],
                                     stack[n].vc, vc))
         IN \E verify \in {with[Len(stack)]} :
            \E main \in {AndListed(verify.table, stack[1].vc, vc)} :
              LET vcs == <<main.vc>> \o verify.vcs
              IN /\ nodes' = main.table
                 /\ stack' = [n \in DOMAIN stack |->
                                [vc |-> vcs[n],
                                 formula |-> Asserted(stack[n].formula)]]
    /\ UNCHANGED <<family, grows, inserted>>

DagInit ==
    /\ family \in Families
    /\ grows \in BOOLEAN
    /\ inserted = 0
    /\ nodes = <<>>
    /\ stack = <<>>

DagStep ==
    InsertAtom \/ InsertUnary \/ InsertProject \/ InsertBinary \/ InsertList
=============================================================================
