------------------------------ MODULE BddTable ------------------------------
(***************************************************************************)
(* The BDD package of MONA (mona-1.4/BDD): node tables that move while     *)
(* they are used.                                                          *)
(*                                                                         *)
(* A node is found by hashing (bdd_find_node_hashed), so that equal nodes  *)
(* are one node.  When the table is too full for a new node it is doubled: *)
(* what can be reached from the roots, from the results not yet put        *)
(* together and from the node looked for is copied into a new table, where *)
(* everything has another address, and the activation frames of the        *)
(* operation under way are corrected (update_activation_stack...).  The    *)
(* operations remember what they have done by address: in a result cache   *)
(* (apply2, project) or in a mark of the node itself (apply1).             *)
(*                                                                         *)
(* The client has two tables, as dfaBuild, dfaProject and dfaProduct have: *)
(* tmp, where BDDs are made path by path (makepath) and united             *)
(* (bdd_apply2_hashed), and aut, which gets the results of one of          *)
(* bdd_apply1, bdd_project, bdd_apply2_sequential.  The recursion of the   *)
(* operations is the explicit one of the source.                           *)
(***************************************************************************)
EXTENDS Integers, Sequences, FiniteSets, SequencesExt

CONSTANTS
    Vars,           \* indices are 0..Vars-1
    Elements,       \* the leaves carry sets of these
    Image,          \* the leaf function of apply1, on sets of elements
    GuessedIndex,   \* the index that project takes away
    Paths,          \* the paths that are made, and the elements at their ends
    FirstTrigger,   \* table_double_trigger of a new table: its size
    Turns,          \* ways to lay out a doubled table, see Moved
    TmpRoots,       \* bounds on the roots made in tmp
    AutRoots        \* and in aut

ASSUME TableAssumption ==
    /\ Vars \in Nat
    /\ GuessedIndex \in 0..Vars-1
    /\ Image \in [SUBSET Elements -> SUBSET Elements]
    /\ DOMAIN Paths \subseteq [0..Vars-1 -> {0, 1, 2}]
    /\ \A path \in DOMAIN Paths : Paths[path] \subseteq Elements
    /\ FirstTrigger \in Nat \ {0}
    /\ Turns \subseteq Nat /\ Turns # {}

VARIABLES
    tmp, aut,       \* two bdd_managers
    marks,          \* the mark fields of the nodes of tmp
    use,            \* what fills aut, once it is known
    op,             \* the operation under way
    pc,             \* its label: "start", "finish"; or "idle"
    p, q, res,      \* its local variables
    acts,           \* its activation frames, but for the one at work
    inter,          \* its list "intermediate"
    tmpMeans,       \* what the roots should denote; not in the code
    autMeans

vars == <<tmp, aut, use, marks, op, pc, p, q, res, acts, inter, tmpMeans, autMeans>>

Either == 2                 \* X in a path
LeafIndex == Vars           \* BDD_LEAF_INDEX is above all indices
Nowhere == 0                \* address 0 is not used
GoingLeft == -1             \* going_left, BDD_UNDEF

Leaf(v) == [index |-> LeafIndex, lo |-> Nowhere, hi |-> Nowhere, value |-> v]
Inner(i, lo, hi) == [index |-> i, lo |-> lo, hi |-> hi, value |-> {}]

\* What is in a node that was taken and not yet written.
Unset == Inner(-1, Nowhere, Nowhere)

NoOp == [kind |-> "none"]

\* bdd_new_manager, bdd_make_cache.
NewManager ==
    [table |-> <<>>, roots |-> <<>>, trigger |-> FirstTrigger, cache |-> <<>>]

\* unite_leaf_fn, proj_term2, and the same for the product's pairs.
Default == {}
Join(v, w) == v \cup w

-----------------------------------------------------------------------------
(* Finding a node. *)

Children(node) == IF node.index = LeafIndex THEN {} ELSE {node.lo, node.hi}

\* What can be reached from the addresses in S.
Live(table, S) ==
    LET within[k \in 0..Vars] ==
          IF k = 0 THEN S
          ELSE UNION {{a} \cup Children(table[a]) : a \in within[k-1]}
    IN within[Vars]

\* Where the nodes that are kept are found after doubling.  Hashing scatters
\* them; here they are packed, and turned by some number of places.
Moved(table, kept, turn) ==
    LET n == Cardinality(kept)
        rank(a) == Cardinality({b \in kept : b < a})
    IN [a \in DOMAIN table |->
          IF a \in kept THEN ((rank(a) + turn) % n) + 1 ELSE Nowhere]

\* get_new_r
NewPlace(to, a) == IF a \in DOMAIN to THEN to[a] ELSE a

Relocated(node, to) ==
    IF node.index = LeafIndex THEN node
    ELSE [node EXCEPT !.lo = NewPlace(to, @), !.hi = NewPlace(to, @)]

\* What is kept: list is what the caller passes as some_roots.
Rooted(m, node, list) == ToSet(m.roots) \cup (ToSet(list) \ {GoingLeft}) \cup Children(node)

\* Faulty variant (see "mutants" in PROJECT.json): the cache survives.
DoubledCached(m, to) ==
    LET n == Cardinality({a \in DOMAIN to : to[a] # Nowhere})
        from(b) == CHOOSE a \in DOMAIN to : to[a] = b
    IN [table |-> [b \in 1..n |-> Relocated(m.table[from(b)], to)],
        roots |-> [k \in DOMAIN m.roots |-> to[m.roots[k]]],
        trigger |-> 2 * m.trigger,
        cache |-> m.cache]

\* double_table_and_cache_hashed: a new table and an empty cache.
Doubled(m, to) ==
    LET n == Cardinality({a \in DOMAIN to : to[a] # Nowhere})
        from(b) == CHOOSE a \in DOMAIN to : to[a] = b
    IN [table |-> [b \in 1..n |-> Relocated(m.table[from(b)], to)],
        roots |-> [k \in DOMAIN m.roots |-> to[m.roots[k]]],
        trigger |-> 2 * m.trigger,
        cache |-> <<>>]

Put(m, node) == [m EXCEPT !.table = Append(@, node)]

\* bdd_find_node_hashed: the ways it can end.  The table doubles only if the
\* node falls in a full bucket, which depends on the hash function.
Find(m, node, list) ==
    IF \E a \in DOMAIN m.table : m.table[a] = node
    THEN {[m |-> m, list |-> list, to |-> <<>>,
           at |-> CHOOSE a \in DOMAIN m.table : m.table[a] = node]}
    ELSE {[m |-> Put(m, node), list |-> list, to |-> <<>>, at |-> Len(m.table) + 1]}
         \cup
         {LET to == Moved(m.table, Live(m.table, Rooted(m, node, list)), turn)
              bigger == Put(Doubled(m, to), Relocated(node, to))
          IN [m |-> bigger, list |-> [k \in DOMAIN list |-> NewPlace(to, list[k])],
              to |-> to, at |-> Len(bigger.table)] :
            turn \in {t \in Turns : Len(m.table) > m.trigger}}

DoubledBy(found) == found.to # <<>>

\* The marks of the nodes of tmp after a search there: a new table has none.
MarksIn(m, doubled) ==
    [a \in DOMAIN m.table |->
       IF doubled \/ a \notin DOMAIN marks THEN Nowhere ELSE marks[a]]

Root(m, a) == [m EXCEPT !.roots = Append(@, a)]

-----------------------------------------------------------------------------
(* What a node denotes: a leaf value for every letter. *)

Letters == [0..Vars-1 -> {0, 1}]

\* The functions that the nodes of a table denote.  An edge that leads nowhere,
\* or to a node that does not come later in the order, denotes nothing.
Broken == {GoingLeft}
Meanings(table) ==
    LET edge(a, b) == b \in DOMAIN table /\ table[a].index < table[b].index
        means[a \in DOMAIN table] ==
          LET node == table[a]
          IN [l \in Letters |->
                IF node.index = LeafIndex THEN node.value
                ELSE LET b == IF l[node.index] = 0 THEN node.lo ELSE node.hi
                     IN IF edge(a, b) THEN means[b][l] ELSE Broken]
    IN means

\* What an address denotes.
At(means, a) == IF a \in DOMAIN means THEN means[a] ELSE [l \in Letters |-> Broken]

Joined(f, g) == [l \in Letters |-> Join(f[l], g[l])]
Imaged(f) == [l \in Letters |-> Image[f[l]]]
Guessed(f, i) ==
    [l \in Letters |-> Join(f[[l EXCEPT ![i] = 0]], f[[l EXCEPT ![i] = 1]])]

-----------------------------------------------------------------------------
(* makepath: one exception of a transition table, from the leaf upwards. *)

Idle == pc = "idle"
\* dfaBuild and dfaProject go on making BDDs in tmp while apply1 copies them;
\* the operands of project and of apply2_sequential are ready before.
TmpMayGrow ==
    /\ Idle /\ Len(tmp.roots) < TmpRoots
    /\ use \in {"none", "apply1"}

PathStart ==
    /\ TmpMayGrow
    /\ \E path \in DOMAIN Paths :
       \E e \in Paths[path] :
       \E f \in Find(tmp, Leaf({e}), <<>>) :
         /\ op' = [kind |-> "path", path |-> path, left |-> Vars,
                   goal |-> [l \in Letters |->
                               IF \A i \in 0..Vars-1 : path[i] \in {Either, l[i]}
                               THEN {e} ELSE Default]]
         /\ tmp' = f.m /\ marks' = MarksIn(f.m, DoubledBy(f))
         /\ res' = f.at
    /\ pc' = "start"
    /\ UNCHANGED <<aut, use, p, q, acts, inter, tmpMeans, autMeans>>

PathBit == op.path[op.left - 1]

\* The default leaf is looked for while sub_res is kept on sub_results, then
\* the node over both.
PathStep ==
    /\ pc = "start" /\ op.kind = "path" /\ op.left > 0
    /\ op' = [op EXCEPT !.left = @ - 1]
    /\ \/ /\ PathBit = Either
          /\ UNCHANGED <<tmp, marks, res>>
       \/ /\ PathBit # Either
          /\ \E f \in Find(tmp, Leaf(Default), <<res>>) :
               LET sub == f.list[1]
                   node == IF PathBit = 0 THEN Inner(op.left - 1, sub, f.at)
                           ELSE Inner(op.left - 1, f.at, sub)
               IN \E g \in Find(f.m, node, <<>>) :
                    /\ tmp' = g.m
                    /\ marks' = MarksIn(g.m, DoubledBy(f) \/ DoubledBy(g))
                    /\ res' = g.at
    /\ UNCHANGED <<aut, use, pc, p, q, acts, inter, tmpMeans, autMeans>>

\* makebdd pushes the path on the roots, and the cache is made anew.
PathEnd ==
    /\ pc = "start" /\ op.kind = "path" /\ op.left = 0
    /\ tmp' = [Root(tmp, res) EXCEPT !.cache = <<>>]
    /\ tmpMeans' = Append(tmpMeans, op.goal)
    /\ pc' = "idle" /\ op' = NoOp /\ res' = Nowhere
    /\ UNCHANGED <<aut, use, marks, p, q, acts, inter, autMeans>>

-----------------------------------------------------------------------------
(* The operations on BDDs. *)

\* The manager of the result, and the operands that name nodes of it.
Hashed == op.kind = "hashed"
Target == IF Hashed THEN tmp ELSE aut
SetTarget(m, doubled) ==
    /\ tmp' = IF Hashed THEN m ELSE tmp
    /\ aut' = IF Hashed THEN aut ELSE m
    /\ marks' = IF Hashed THEN MarksIn(m, doubled) ELSE marks

Begin(kind, a, b, goal) ==
    /\ op' = [kind |-> kind, goal |-> goal]
    /\ pc' = "start" /\ p' = a /\ q' = b
    /\ UNCHANGED <<tmp, aut, marks, res, acts, inter, tmpMeans, autMeans>>

ApplyHashed ==
    /\ TmpMayGrow
    /\ \E m, n \in DOMAIN tmp.roots :
         Begin("hashed", tmp.roots[m], tmp.roots[n],
               Joined(tmpMeans[m], tmpMeans[n]))
    /\ UNCHANGED use

AutMayGrow(kind) ==
    /\ Idle /\ Len(aut.roots) < AutRoots
    /\ use \in {"none", kind}
    /\ use' = kind

Apply1 ==
    /\ AutMayGrow("apply1")
    /\ \E n \in DOMAIN tmp.roots :
         Begin("apply1", tmp.roots[n], Nowhere, Imaged(tmpMeans[n]))

Project ==
    /\ AutMayGrow("project")
    /\ \E n \in DOMAIN tmp.roots :
         Begin("project", tmp.roots[n], Nowhere, Guessed(tmpMeans[n], GuessedIndex))

ApplySequential ==
    /\ AutMayGrow("sequential")
    /\ \E m, n \in DOMAIN tmp.roots :
         Begin("sequential", tmp.roots[m], tmp.roots[n],
               Joined(tmpMeans[m], tmpMeans[n]))

\* The label start, before the lookup.  bdd_project goes on with two nodes
\* below the index, and with one again when they are the same.
Index(a) == IF a = Nowhere THEN LeafIndex ELSE tmp.table[a].index
Splits == op.kind = "project" /\ q = Nowhere /\ Index(p) = GuessedIndex
Here ==
    CASE op.kind = "project" /\ p = q -> <<p, Nowhere>>
      [] Splits -> <<tmp.table[p].lo, tmp.table[p].hi>>
      [] OTHER -> <<p, q>>

\* What is known of a pair of nodes: the mark, or the entry in the cache.
Remembered ==
    IF op.kind = "apply1" THEN marks[Here[1]]
    ELSE IF Here \in DOMAIN Target.cache THEN Target.cache[Here] ELSE Nowhere

AtStart == pc = "start" /\ op.kind \notin {"none", "path"}

Known ==
    /\ AtStart /\ Remembered # Nowhere
    /\ res' = Remembered
    /\ pc' = "finish"
    /\ inter' = Append(inter, GoingLeft)
    /\ UNCHANGED <<tmp, aut, use, marks, op, p, q, acts, tmpMeans, autMeans>>

BothLeaves == Index(Here[1]) = LeafIndex /\ Index(Here[2]) = LeafIndex

LeafValue ==
    LET v == tmp.table[Here[1]].value
        w == IF Here[2] = Nowhere THEN v ELSE tmp.table[Here[2]].value
    IN IF op.kind = "apply1" THEN Image[v] ELSE Join(v, w)

\* insert_cache(m, h, p, q, r).  The hash value h was computed when the size
\* was as at; after doubling it is for another cache, and the entry may go
\* where it is not looked for.
Cached(m, key, at, r) ==
    LET stored == [m EXCEPT !.cache = [k \in DOMAIN @ \cup {key} |->
                                        IF k = key THEN r ELSE @[k]]]
    IN {stored} \cup (IF m.trigger = at THEN {} ELSE {m})

\* The frames after the table of p and q was doubled.
Moves(key, to) == <<NewPlace(to, key[1]), NewPlace(to, key[2])>>
\* Faulty variant (see "mutants" in PROJECT.json): only the nodes at work are corrected.
MovedFramesKeys(frames, to) ==
    [n \in DOMAIN frames |-> [frames[n] EXCEPT !.key = Moves(@, to)]]

MovedFrames(frames, to) ==
    [n \in DOMAIN frames |->
       [frames[n] EXCEPT !.key = Moves(@, to), !.second = Moves(@, to)]]

\* Faulty variant (see "mutants" in PROJECT.json): marks survive the doubling of the table they
\* point into.
MarkedStale(f, a) == [b \in DOMAIN marks |-> IF b = a THEN f.at ELSE marks[b]]

\* update_activation_stack, when aut is doubled during apply1: all marks are
\* invalid.  The node at hand is marked afterwards.
Marked(f, a) ==
    [b \in DOMAIN marks |-> IF b = a THEN f.at
                            ELSE IF DoubledBy(f) THEN Nowhere ELSE marks[b]]

\* The node is looked for, the result remembered for key, and goto finish.
\* The hashed operation computes h anew after doubling.
Settle(node, key, at, list, frames) ==
    \E f \in Find(Target, node, list) :
      /\ res' = f.at /\ inter' = f.list /\ pc' = "finish"
      /\ acts' = IF Hashed THEN MovedFrames(frames, f.to) ELSE frames
      /\ IF op.kind = "apply1"
         THEN /\ aut' = f.m /\ tmp' = tmp
              /\ marks' = Marked(f, key[1])
         ELSE \E m \in Cached(f.m, IF Hashed THEN Moves(key, f.to) ELSE key,
                              IF Hashed THEN f.m.trigger ELSE at, f.at) :
                SetTarget(m, DoubledBy(f))
      /\ UNCHANGED <<use, op, p, q, tmpMeans, autMeans>>

AtLeaves ==
    /\ AtStart /\ Remembered = Nowhere /\ op.kind # "sequential"
    /\ BothLeaves
    /\ Settle(Leaf(LeafValue), Here, Target.trigger, Append(inter, GoingLeft), acts)

\* Both nodes are left if they have the same index, else the one that has the
\* smaller, and first to the left.
Least == IF Index(Here[1]) <= Index(Here[2]) THEN Index(Here[1]) ELSE Index(Here[2])
Down(a, left) ==
    IF Index(a) # Least \/ Least = LeafIndex THEN a
    ELSE IF left THEN tmp.table[a].lo ELSE tmp.table[a].hi

Frame(node) ==
    [index |-> Least, key |-> Here, second |-> <<Down(Here[1], FALSE), Down(Here[2], FALSE)>>,
     h |-> Target.trigger, node |-> node, left |-> Nowhere]

GoLeft ==
    /\ p' = Down(Here[1], TRUE) /\ q' = Down(Here[2], TRUE)
    /\ UNCHANGED <<pc, res>>

Descend ==
    /\ AtStart /\ Remembered = Nowhere /\ op.kind # "sequential"
    /\ ~BothLeaves
    /\ acts' = Append(acts, Frame(Nowhere))
    /\ inter' = Append(inter, GoingLeft)
    /\ GoLeft
    /\ UNCHANGED <<tmp, aut, use, marks, op, tmpMeans, autMeans>>

\* The label finish, above the first call: PEEL, and what was left to do.
AtFinish == pc = "finish" /\ acts # <<>>
Caller == Last(acts)
Peeled == Front(inter)

GoRight ==
    /\ pc' = "start" /\ p' = Caller.second[1] /\ q' = Caller.second[2]
    /\ UNCHANGED <<tmp, aut, use, marks, op, res, tmpMeans, autMeans>>

\* The label second: the result stays on the list, the frame is used again.
Second ==
    /\ AtFinish /\ op.kind # "sequential"
    /\ Last(Peeled) = GoingLeft
    /\ inter' = Append(Front(Peeled), res)
    /\ UNCHANGED acts
    /\ GoRight

\* Faulty variant (see "mutants" in PROJECT.json): a node is made in any case.
ThirdUncompressed ==
    /\ AtFinish /\ op.kind # "sequential"
    /\ Last(Peeled) # GoingLeft
    /\ Settle(Inner(Caller.index, Last(Peeled), res), Caller.key, Caller.h,
              Peeled, Front(acts))

\* The label third: no node if both results are the same.
Third ==
    /\ AtFinish /\ op.kind # "sequential"
    /\ Last(Peeled) # GoingLeft
    /\ IF Last(Peeled) = res
       THEN /\ acts' = Front(acts) /\ inter' = Peeled
            /\ IF op.kind = "apply1"
               THEN /\ marks' = [marks EXCEPT ![Caller.key[1]] = res]
                    /\ UNCHANGED <<tmp, aut>>
               ELSE \E m \in Cached(Target, Caller.key, Caller.h, res) :
                      SetTarget(m, FALSE)
            /\ UNCHANGED <<use, op, pc, p, q, res, tmpMeans, autMeans>>
       ELSE Settle(Inner(Caller.index, Last(Peeled), res), Caller.key, Caller.h,
                   Peeled, Front(acts))

\* The first call returns, and its result is a root.
Return ==
    /\ pc = "finish" /\ acts = <<>>
    /\ SetTarget(Root(Target, res), FALSE)
    /\ IF Hashed
       THEN tmpMeans' = Append(tmpMeans, op.goal) /\ UNCHANGED autMeans
       ELSE autMeans' = Append(autMeans, op.goal) /\ UNCHANGED tmpMeans
    /\ pc' = "idle" /\ op' = NoOp
    /\ p' = Nowhere /\ q' = Nowhere /\ res' = Nowhere /\ inter' = <<>>
    /\ UNCHANGED <<use, acts>>

-----------------------------------------------------------------------------
(* bdd_apply2_sequential: nodes are not looked for but made, on the way     *)
(* down.                                                                   *)

\* bdd_get_free_node_sequential: addresses stay when the table grows, and the
\* cache is kept.
FreeNode(m) ==
    [m EXCEPT !.table = Append(@, Unset),
              !.trigger = IF Len(m.table) < @ THEN @ ELSE 2 * @]

SequentialStart ==
    /\ AtStart /\ Remembered = Nowhere /\ op.kind = "sequential"
    /\ LET grown == FreeNode(aut)
           node == Len(grown.table)
       IN \E m \in Cached(grown, Here, aut.trigger, node) :
            IF BothLeaves
            THEN /\ aut' = [m EXCEPT !.table[node] = Leaf(LeafValue)]
                 /\ res' = node /\ pc' = "finish"
                 /\ UNCHANGED <<acts, p, q>>
            ELSE /\ aut' = m
                 /\ acts' = Append(acts, Frame(node))
                 /\ GoLeft
    /\ UNCHANGED <<tmp, use, marks, op, inter, tmpMeans, autMeans>>

SequentialSecond ==
    /\ AtFinish /\ op.kind = "sequential"
    /\ Caller.left = Nowhere
    /\ acts' = [acts EXCEPT ![Len(acts)].left = res]
    /\ UNCHANGED inter
    /\ GoRight

SequentialThird ==
    /\ AtFinish /\ op.kind = "sequential"
    /\ Caller.left # Nowhere
    /\ aut' = [aut EXCEPT !.table[Caller.node] = Inner(Caller.index, Caller.left, res)]
    /\ res' = Caller.node
    /\ acts' = Front(acts)
    /\ UNCHANGED <<tmp, use, marks, op, pc, p, q, inter, tmpMeans, autMeans>>

-----------------------------------------------------------------------------
Init ==
    /\ tmp = NewManager /\ aut = NewManager /\ use = "none"
    /\ marks = <<>>
    /\ op = NoOp /\ pc = "idle"
    /\ p = Nowhere /\ q = Nowhere /\ res = Nowhere
    /\ acts = <<>> /\ inter = <<>>
    /\ tmpMeans = <<>> /\ autMeans = <<>>

\* The client has made all the BDDs it may.
Stopped == Idle /\ UNCHANGED vars

Next ==
    \/ PathStart \/ PathStep \/ PathEnd
    \/ ApplyHashed \/ Apply1 \/ Project \/ ApplySequential
    \/ Known \/ AtLeaves \/ Descend \/ Second \/ Third \/ Return
    \/ SequentialStart \/ SequentialSecond \/ SequentialThird
    \/ Stopped

Spec == Init /\ [][Next]_vars

-----------------------------------------------------------------------------
(* Properties. *)

\* Every root denotes what was asked for, however often the tables were
\* doubled while it was made and afterwards.
RootsMean ==
    LET t == Meanings(tmp.table)
        r == Meanings(aut.table)
    IN /\ \A n \in DOMAIN tmp.roots :
            At(t, tmp.roots[n]) = tmpMeans[n]
       /\ \A n \in DOMAIN aut.roots :
            At(r, aut.roots[n]) = autMeans[n]

\* The tables that are searched.
Searched == {tmp} \cup IF use \in {"apply1", "project"} THEN {aut} ELSE {}

\* Nodes are shared, ordered, and test nothing in vain, so that two roots are
\* the same if and only if they denote the same: dfaMinimize compares the
\* roots of states in the place of their transitions (rename_partition).
Canonical ==
    /\ \A m \in Searched : \A a \in 1..Len(m.table) :
         LET node == m.table[a]
         IN /\ \A b \in 1..a-1 : m.table[b] # node
            /\ node.index # LeafIndex =>
                 /\ node.lo # node.hi
                 /\ {node.lo, node.hi} \subseteq DOMAIN m.table
                 /\ node.index < m.table[node.lo].index
                 /\ node.index < m.table[node.hi].index
    /\ use \in {"apply1", "project"} =>
         \A m, n \in DOMAIN aut.roots :
           aut.roots[m] = aut.roots[n] <=> autMeans[m] = autMeans[n]

\* What an operation on the nodes of key must denote, given what they denote.
ResultFor(kind, key, means) ==
    LET f == At(means, key[1])
    IN IF kind = "apply1" THEN Imaged(f)
       ELSE IF key[2] = Nowhere THEN Guessed(f, GuessedIndex)
       ELSE Joined(f, At(means, key[2]))

\* Nodes of apply2_sequential that are not finished.
Pending == {acts[n].node : n \in DOMAIN acts}

\* What is remembered is true: a mark or an entry of a result cache leads to
\* what the operation would make of these nodes, although the nodes have
\* moved since, or the results.
MemoRight ==
    LET t == Meanings(tmp.table)
        r == Meanings(aut.table)
    IN /\ \A key \in DOMAIN tmp.cache :
            At(t, tmp.cache[key]) = ResultFor("hashed", key, t)
       /\ \A key \in DOMAIN aut.cache :
            aut.cache[key] \notin Pending =>
              At(r, aut.cache[key]) = ResultFor(use, key, t)
       /\ use = "apply1" =>
            \A a \in DOMAIN marks :
              marks[a] # Nowhere =>
                At(r, marks[a]) = ResultFor("apply1", <<a, Nowhere>>, t)

\* The activation frames keep up with the tables: a frame still leads to the
\* right successors of the nodes it is for, and the result that waits for it
\* is that of the left successors.
Side(a, index, left) ==
    IF a = Nowhere \/ tmp.table[a].index # index THEN a
    ELSE IF left THEN tmp.table[a].lo ELSE tmp.table[a].hi
Successor(frame, left) ==
    <<Side(frame.key[1], frame.index, left), Side(frame.key[2], frame.index, left)>>
Waiting(n) ==
    IF op.kind # "sequential" THEN inter[n]
    ELSE IF acts[n].left = Nowhere THEN GoingLeft ELSE acts[n].left

FramesKeepUp ==
    LET t == Meanings(tmp.table)
    IN \A n \in DOMAIN acts :
         LET frame == acts[n]
             named == {frame.key[1], frame.key[2], frame.second[1], frame.second[2]}
         IN /\ named \ {Nowhere} \subseteq DOMAIN tmp.table
            /\ frame.second = Successor(frame, FALSE)
            /\ Waiting(n) # GoingLeft =>
                 At(Meanings(Target.table), Waiting(n)) =
                   ResultFor(op.kind, Successor(frame, TRUE), t)
=============================================================================
