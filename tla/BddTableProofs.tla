--------------------------- MODULE BddTableProofs ---------------------------
(***************************************************************************)
(* Proofs about BddTable: the roots denote what was asked for (RootsMean), *)
(* the tables that are searched hold every function once (Canonical), what *)
(* is remembered is right (MemoRight), and the activation frames keep up   *)
(* with the tables (FramesKeepUp), for all numbers of variables, sets of   *)
(* elements, leaf functions, sets of paths and ways to lay out a doubled   *)
(* table.                                                                  *)
(*                                                                         *)
(* None of the four is inductive.  BddInv says of each call under way what *)
(* it is to return, as a function of letters: the first call has the goal  *)
(* of the operation, every other the function of the successors for which  *)
(* its caller waits (GoalAt).  A call reads two nodes from the operands    *)
(* (KeyOK), which must still be there when the table of results, perhaps   *)
(* the same table, is doubled: they are in what can be reached from the    *)
(* roots (Reachable), and all that is kept with it goes along in one map   *)
(* of addresses (Carries, DoubledRight).  A result is above the index of   *)
(* its caller (FloorAt), so that the node over two results is ordered.     *)
(* Where nodes are made on the way down (bdd_apply2_sequential), those of  *)
(* the calls under way are open: nothing refers to them but their frame    *)
(* and the cache entry for their key, and no call below is for that key,   *)
(* as indices grow from call to call (IndicesGrow, KnownClosed).           *)
(*                                                                         *)
(* In this order: what a table denotes, by induction from the leaves up,   *)
(* and that ordered and reduced tables hold a function once; doubling and  *)
(* bdd_find_node_hashed; what an operation makes of the two successors;    *)
(* the calls under way; what is remembered; the actions, one lemma each.   *)
(***************************************************************************)
EXTENDS BddTable, TLAPS, WellFoundedInduction, FiniteSetTheorems, SequenceTheorems

\* The values that addresses denote, and the nodes there are.
Denotations == [Letters -> SUBSET Elements]

Nodes == [index : -1..Vars, lo : Nat, hi : Nat, value : SUBSET Elements]
Caches == UNION {[D -> Nat \ {0}] : D \in SUBSET (Nat \X Nat)}
Managers == [table : Seq(Nodes), roots : Seq(Nat), trigger : Nat, cache : Caches]

\* The nodes at F are finished: they lead to finished nodes with larger indices.
LeafAt(t, a) == t[a] = Leaf(t[a].value)
InnerAt(t, F, a) ==
    /\ t[a] = Inner(t[a].index, t[a].lo, t[a].hi)
    /\ t[a].index \in 0..Vars-1
    /\ t[a].lo \in F /\ t[a].hi \in F
    /\ t[a].index < t[t[a].lo].index
    /\ t[a].index < t[t[a].hi].index

Ordered(t, F) ==
    /\ t \in Seq(Nodes) /\ F \subseteq DOMAIN t
    /\ \A a \in F : LeafAt(t, a) \/ InnerAt(t, F, a)

\* No node is there twice, and none tests in vain.
Reduced(t) ==
    /\ \A a, b \in DOMAIN t : t[a] = t[b] => a = b
    /\ \A a \in DOMAIN t : t[a].index # LeafIndex => t[a].lo # t[a].hi

\* A table that is searched.
Sound(t) == Ordered(t, DOMAIN t) /\ Reduced(t)

Means(t, a) == At(Meanings(t), a)

\* What every set with the nodes in R and their children contains.
Closed(t, S) == \A a \in S : Children(t[a]) \subseteq S
Reachable(t, R) ==
    {a \in DOMAIN t : \A S \in SUBSET DOMAIN t : Closed(t, S) /\ R \subseteq S => a \in S}

\* The roots denote what they should.
RootsRight(m, F, means) ==
    /\ means \in Seq(Denotations)
    /\ Len(m.roots) = Len(means)
    /\ \A n \in 1..Len(means) : m.roots[n] \in F /\ Means(m.table, m.roots[n]) = means[n]

-----------------------------------------------------------------------------
(* The calls of an operation, and what they are to return.                    *)

IndexIn(t, a) == IF a = Nowhere THEN LeafIndex ELSE t[a].index
KeyIndex(t, key) ==
    IF IndexIn(t, key[1]) <= IndexIn(t, key[2]) THEN IndexIn(t, key[1]) ELSE IndexIn(t, key[2])

Binary == {"hashed", "sequential"}
Kinds == {"hashed", "sequential", "apply1", "project"}

\* Pairs of nodes a call may be for; L are the addresses it may use.
KeyOK(kind, t, L, key) ==
    /\ key = <<key[1], key[2]>>
    /\ key[1] \in L
    /\ kind \in Binary => key[2] \in L
    /\ kind = "apply1" => key[2] = Nowhere
    /\ kind = "project" /\ key[2] # Nowhere =>
         key[2] \in L /\ KeyIndex(t, key) > GuessedIndex

\* A call that is not of two nodes at once.
Proper(kind, t, key) ==
    kind = "project" /\ key[2] = Nowhere => IndexIn(t, key[1]) # GuessedIndex

SideIn(t, a, i, left) ==
    IF a = Nowhere \/ t[a].index # i THEN a
    ELSE IF left THEN t[a].lo ELSE t[a].hi
SuccIn(t, key, i, left) == <<SideIn(t, key[1], i, left), SideIn(t, key[2], i, left)>>

ResultIn(kind, t, key) == ResultFor(kind, key, Meanings(t))

\* What the call n is to return, and the index its result must be above.
GoalAt(kind, goal, t, frames, W, n) ==
    IF n = 1 THEN goal
    ELSE ResultIn(kind, t, SuccIn(t, frames[n-1].key, frames[n-1].index, W[n-1] = GoingLeft))
FloorAt(frames, n) == IF n = 1 THEN -1 ELSE frames[n-1].index

Frames == [index : Nat, key : Nat \X Nat, second : Nat \X Nat, h : Nat, node : Nat, left : Nat]

FrameRight(kind, t, L, u, F, frame, w) ==
    /\ frame \in Frames
    /\ KeyOK(kind, t, L, frame.key) /\ Proper(kind, t, frame.key)
    /\ frame.index = KeyIndex(t, frame.key) /\ frame.index < Vars
    /\ frame.second = SuccIn(t, frame.key, frame.index, FALSE)
    /\ w # GoingLeft =>
         /\ w \in F /\ frame.index < u[w].index
         /\ Means(u, w) = ResultIn(kind, t, SuccIn(t, frame.key, frame.index, TRUE))

CallAt(kind, goal, t, L, u, F, frames, W, n) ==
    /\ FrameRight(kind, t, L, u, F, frames[n], W[n])
    /\ FloorAt(frames, n) < frames[n].index
    /\ ResultIn(kind, t, frames[n].key) = GoalAt(kind, goal, t, frames, W, n)

CallsRight(kind, goal, t, L, u, F, frames, W) ==
    /\ frames \in Seq(Frames)
    /\ \A n \in 1..Len(frames) : CallAt(kind, goal, t, L, u, F, frames, W, n)

\* The call at work is for key; its result is r.
CallRight(kind, goal, t, L, frames, W, key) ==
    /\ KeyOK(kind, t, L, key)
    /\ FloorAt(frames, Len(frames) + 1) < KeyIndex(t, key)
    /\ ResultIn(kind, t, key) = GoalAt(kind, goal, t, frames, W, Len(frames) + 1)

ResultRight(kind, goal, t, u, F, frames, W, r) ==
    /\ r \in F
    /\ FloorAt(frames, Len(frames) + 1) < u[r].index
    /\ Means(u, r) = GoalAt(kind, goal, t, frames, W, Len(frames) + 1)

\* An entry of a cache.
EntryRight(kind, t, u, key, r) ==
    /\ KeyIndex(t, key) <= u[r].index
    /\ Means(u, r) = ResultIn(kind, t, key)

KeyTyped(t, key) ==
    key[1] \in DOMAIN t /\ (key[2] = Nowhere \/ key[2] \in DOMAIN t)

\* Memory of what was done; the results in open are not finished.
CacheRight(kind, t, u, cache, open) ==
    \A key \in DOMAIN cache :
      /\ KeyTyped(t, key) /\ cache[key] \in DOMAIN u
      /\ cache[key] \notin open => EntryRight(kind, t, u, key, cache[key])

MarksRight(kind, t, u, f) ==
    /\ f \in [DOMAIN t -> Nat]
    /\ kind \in {"none", "apply1"} =>
         \A a \in DOMAIN f : f[a] # Nowhere =>
           f[a] \in DOMAIN u /\ EntryRight("apply1", t, u, <<a, Nowhere>>, f[a])

\* The two managers.
TmpRight(m, means) ==
    /\ m \in Managers /\ Sound(m.table)
    /\ RootsRight(m, DOMAIN m.table, means)
    /\ CacheRight("hashed", m.table, m.table, m.cache, {})

AutRight(kind, t, m, means, open) ==
    /\ m \in Managers /\ Ordered(m.table, DOMAIN m.table \ open)
    /\ kind # "sequential" => open = {} /\ Reduced(m.table)
    /\ kind = "none" => m.table = <<>>
    /\ RootsRight(m, DOMAIN m.table \ open, means)
    /\ kind \in {"none", "apply1"} => DOMAIN m.cache = {}
    /\ CacheRight(kind, t, m.table, m.cache, open)

\* The nodes that were made on the way down are of one call each.
NodesRight(m, frames) ==
    \A n \in DOMAIN frames :
      /\ frames[n].node \in DOMAIN m.table
      /\ \A k \in DOMAIN frames : frames[k].node = frames[n].node => k = n
      /\ \A key \in DOMAIN m.cache : m.cache[key] = frames[n].node => key = frames[n].key

\* The list "intermediate" goes with the frames.
ListRight(label, u, frames, list) ==
    /\ list \in Seq(DOMAIN u \cup {GoingLeft})
    /\ Len(list) = IF label = "start" THEN Len(frames) ELSE Len(frames) + 1

\* What a path denotes from index i on.
PathFrom(path, i, e) ==
    [l \in Letters |-> IF \A j \in i..Vars-1 : path[j] \in {Either, l[j]} THEN {e} ELSE Default]

PathRight(t, path, left, goal, r) ==
    /\ path \in DOMAIN Paths /\ left \in 0..Vars
    /\ \E e \in Paths[path] :
         /\ goal = PathFrom(path, 0, e)
         /\ r \in DOMAIN t /\ left <= t[r].index
         /\ Means(t, r) = PathFrom(path, left, e)

WorkRight(kind, goal, t, L, u, F, frames, W, label, key, r) ==
    /\ kind \in Kinds /\ goal \in Denotations
    /\ label \in {"start", "finish"}
    /\ CallsRight(kind, goal, t, L, u, F, frames, W)
    /\ label = "start" => CallRight(kind, goal, t, L, frames, W, key)
    /\ label = "finish" => ResultRight(kind, goal, t, u, F, frames, W, r)

-----------------------------------------------------------------------------
(* The invariant.  A node is open until the call that took it writes it.      *)

Open == IF op.kind = "sequential" THEN Pending ELSE {}
Finished == DOMAIN Target.table \ Open
Operands == Reachable(tmp.table, ToSet(tmp.roots))
Waits == [n \in DOMAIN acts |-> Waiting(n)]

\* tmp and aut are used for one kind of operation at a time.
UseOK ==
    /\ use \in {"none", "apply1", "project", "sequential"}
    /\ op.kind \in {"path", "hashed"} => use \in {"none", "apply1"}
    /\ op.kind \in {"apply1", "project", "sequential"} => use = op.kind

\* No operation is under way; makepath is; a recursive operation is.
IdleOK == op = NoOp /\ acts = <<>> /\ inter = <<>>

PathOK ==
    /\ pc = "start" /\ acts = <<>> /\ inter = <<>>
    /\ op = [kind |-> "path", path |-> op.path, left |-> op.left, goal |-> op.goal]
    /\ PathRight(tmp.table, op.path, op.left, op.goal, res)

WorkOK ==
    /\ op = [kind |-> op.kind, goal |-> op.goal]
    /\ op.kind # "sequential" => ListRight(pc, Target.table, acts, inter)
    /\ op.kind = "sequential" => NodesRight(aut, acts)
    /\ WorkRight(op.kind, op.goal, tmp.table, Operands, Target.table, Finished,
                 acts, Waits, pc, <<p, q>>, res)

Phase ==
    \/ pc = "idle" /\ IdleOK
    \/ pc # "idle" /\ op.kind = "path" /\ PathOK
    \/ pc # "idle" /\ op.kind # "path" /\ WorkOK

\* The inductive invariant.
BddInv ==
    /\ TmpRight(tmp, tmpMeans)
    /\ AutRight(use, tmp.table, aut, autMeans, Open)
    /\ MarksRight(use, tmp.table, aut.table, marks)
    /\ UseOK
    /\ Phase
-----------------------------------------------------------------------------
(* Numbers.                                                                  *)

\* A set of numbers with 0 and the successor of each of its numbers.
LEMMA Induction ==
    ASSUME NEW S \in SUBSET Nat, 0 \in S, \A n \in S : n + 1 \in S
    PROVE  \A n \in Nat : n \in S
<1> DEFINE R == OpToRel(<, Nat)
           T == Nat \ S
<1> SUFFICES ASSUME T # {}
             PROVE  FALSE
  OBVIOUS
<1>1. IsWellFoundedOn(R, Nat)
  BY NatLessThanWellFounded
<1>2. T \in SUBSET Nat
  OBVIOUS
<1> HIDE DEF R, T
<1>3. PICK n \in T : \A m \in T : <<m, n>> \notin R
  BY <1>1, <1>2, WFMin
<1>4. n \in Nat /\ n \notin S
  BY <1>3 DEF T
<1>5. n # 0 /\ n - 1 \in Nat /\ (n - 1) + 1 = n /\ n - 1 < n
  BY <1>4
<1>6. n - 1 \in T
  BY <1>4, <1>5 DEF T
<1> QED
  BY <1>3, <1>4, <1>5, <1>6 DEF R, OpToRel

-----------------------------------------------------------------------------
(* Nodes, and what they denote.                                              *)

LEMMA VarsFacts ==
    /\ Vars \in Nat /\ LeafIndex = Vars
    /\ GuessedIndex \in 0..Vars-1 /\ GuessedIndex \in Nat
    /\ Image \in [SUBSET Elements -> SUBSET Elements]
BY TableAssumption DEF LeafIndex

LEMMA NodeFacts ==
    ASSUME NEW t \in Seq(Nodes), NEW a \in DOMAIN t
    PROVE  /\ a \in Nat /\ a > 0
           /\ t[a] \in Nodes
           /\ t[a].index \in -1..Vars /\ t[a].index \in Int
           /\ t[a].lo \in Nat /\ t[a].hi \in Nat /\ t[a].value \in SUBSET Elements
           /\ t[a] = [index |-> t[a].index, lo |-> t[a].lo, hi |-> t[a].hi, value |-> t[a].value]
<1>1. a \in Nat /\ a > 0 /\ t[a] \in Nodes
  OBVIOUS
<1> QED
  BY <1>1, VarsFacts DEF Nodes

LEMMA LeafFacts ==
    ASSUME NEW v \in SUBSET Elements
    PROVE  /\ Leaf(v) \in Nodes
           /\ Leaf(v).index = LeafIndex /\ Leaf(v).value = v
BY VarsFacts DEF Leaf, Nodes, Nowhere

LEMMA InnerFacts ==
    ASSUME NEW i \in -1..Vars, NEW a \in Nat, NEW b \in Nat
    PROVE  /\ Inner(i, a, b) \in Nodes
           /\ Inner(i, a, b).index = i
           /\ Inner(i, a, b).lo = a /\ Inner(i, a, b).hi = b
BY DEF Inner, Nodes

LEMMA OrderedFacts ==
    ASSUME NEW t, NEW F, Ordered(t, F), NEW a \in F
    PROVE  /\ t \in Seq(Nodes) /\ a \in DOMAIN t /\ a # Nowhere
           /\ t[a].index \in 0..Vars
           /\ t[a].index = LeafIndex <=> LeafAt(t, a)
           /\ t[a].index # LeafIndex <=> InnerAt(t, F, a)
           /\ Children(t[a]) \subseteq F
           /\ t[a].index # LeafIndex => Children(t[a]) = {t[a].lo, t[a].hi}
<1>1. t \in Seq(Nodes) /\ a \in DOMAIN t /\ (LeafAt(t, a) \/ InnerAt(t, F, a))
  BY DEF Ordered
<1>2. a \in Nat /\ a > 0 /\ t[a].value \in SUBSET Elements
  BY <1>1, NodeFacts
<1>3. LeafAt(t, a) => t[a].index = LeafIndex
  BY <1>2, LeafFacts DEF LeafAt
<1>4. InnerAt(t, F, a) => t[a].index \in 0..Vars-1 /\ t[a].index # LeafIndex
  BY VarsFacts DEF InnerAt
<1>5. t[a].index \in 0..Vars
  BY <1>1, <1>3, <1>4, VarsFacts
<1>6. Children(t[a]) \subseteq F
  BY <1>1, <1>3 DEF Children, InnerAt
<1>7. t[a].index # LeafIndex => Children(t[a]) = {t[a].lo, t[a].hi}
  BY DEF Children
<1> QED
  BY <1>1, <1>2, <1>3, <1>4, <1>5, <1>6, <1>7 DEF Nowhere

\* What the address a denotes, given what the others do.
Denoted(t, f, a) ==
    [l \in Letters |->
       IF t[a].index = LeafIndex THEN t[a].value
       ELSE LET b == IF l[t[a].index] = 0 THEN t[a].lo ELSE t[a].hi
            IN IF b \in DOMAIN t /\ t[a].index < t[b].index THEN f[b][l] ELSE Broken]

Means0(t, f) == f = [a \in DOMAIN t |-> Denoted(t, f, a)]

\* Denoted looks only at nodes with larger indices.
LEMMA DenotedSame ==
    ASSUME NEW t, NEW f, NEW g, NEW a \in DOMAIN t,
           \A b \in DOMAIN t : t[a].index < t[b].index => f[b] = g[b]
    PROVE  Denoted(t, f, a) = Denoted(t, g, a)
BY DEF Denoted

\* The recursive definition has a solution.
LEMMA MeaningsExist ==
    ASSUME NEW t \in Seq(Nodes)
    PROVE  \E f : Means0(t, f)
<1> DEFINE Good(n, f) == /\ f = [a \in DOMAIN t |-> f[a]]
                         /\ \A a \in DOMAIN t : t[a].index >= Vars - n => f[a] = Denoted(t, f, a)
           S == {n \in Nat : \E f : Good(n, f)}
<1>1. 0 \in S
  <2> DEFINE f == [a \in DOMAIN t |-> Denoted(t, t, a)]
  <2>1. ASSUME NEW a \in DOMAIN t, t[a].index >= Vars - 0
        PROVE  f[a] = Denoted(t, f, a)
    <3>1. \A b \in DOMAIN t : ~ (t[a].index < t[b].index)
      BY <2>1, NodeFacts, VarsFacts
    <3> QED
      BY <3>1, DenotedSame
  <2>2. Good(0, f)
    <3>1. f = [a \in DOMAIN t |-> f[a]]
      OBVIOUS
    <3> HIDE DEF f
    <3> QED
      BY <2>1, <3>1
  <2> HIDE DEF Good, f
  <2> QED
    BY <2>2
<1>2. ASSUME NEW n \in S
      PROVE  n + 1 \in S
  <2>1. n \in Nat
    OBVIOUS
  <2>2. PICK f : Good(n, f)
    OBVIOUS
  <2> DEFINE g == [a \in DOMAIN t |-> IF t[a].index >= Vars - n THEN f[a] ELSE Denoted(t, f, a)]
  <2>3. ASSUME NEW a \in DOMAIN t, t[a].index >= Vars - (n + 1)
        PROVE  g[a] = Denoted(t, g, a)
    <3>1. \A b \in DOMAIN t : t[a].index < t[b].index => t[b].index >= Vars - n
      <4>1. t[a].index \in Int /\ \A b \in DOMAIN t : t[b].index \in Int
        BY <2>3, NodeFacts
      <4> QED
        BY <2>1, <2>3, <4>1, VarsFacts
    <3>2. \A b \in DOMAIN t : t[a].index < t[b].index => f[b] = g[b]
      BY <3>1
    <3>3. Denoted(t, f, a) = Denoted(t, g, a)
      BY <3>2, DenotedSame
    <3>4. t[a].index >= Vars - n => f[a] = Denoted(t, f, a)
      BY <2>2
    <3> QED
      BY <3>3, <3>4
  <2>4. Good(n + 1, g)
    <3>1. g = [a \in DOMAIN t |-> g[a]]
      OBVIOUS
    <3> HIDE DEF g
    <3> QED
      BY <2>3, <3>1
  <2> HIDE DEF Good, g
  <2> QED
    BY <2>1, <2>4
<1> HIDE DEF S
<1>3. Vars + 1 \in S
  <2>1. S \in SUBSET Nat
    BY DEF S
  <2> QED
    BY <1>1, <1>2, <2>1, Induction, VarsFacts
<1>4. PICK f : Good(Vars + 1, f)
  BY <1>3 DEF S
<1>5. \A a \in DOMAIN t : t[a].index >= Vars - (Vars + 1)
  BY NodeFacts, VarsFacts
<1>6. \A a \in DOMAIN t : f[a] = Denoted(t, f, a)
  BY <1>4, <1>5
<1>7. f = [a \in DOMAIN t |-> Denoted(t, f, a)]
  BY <1>4, <1>6
<1> QED
  BY <1>7 DEF Means0

LEMMA MeaningsFacts ==
    ASSUME NEW t \in Seq(Nodes)
    PROVE  Means0(t, Meanings(t))
<1> DEFINE f == CHOOSE f : Means0(t, f)
<1>1. Means0(t, f)
  <2>1. \E g : Means0(t, g)
    BY MeaningsExist
  <2> QED
    BY <2>1
<1>2. Meanings(t) = f
  BY DEF Meanings, Means0, Denoted
<1> QED
  BY <1>1, <1>2

LEMMA LeafMeans ==
    ASSUME NEW t, NEW F, Ordered(t, F), NEW a \in F, t[a].index = LeafIndex
    PROVE  Means(t, a) = [l \in Letters |-> t[a].value]
<1>1. t \in Seq(Nodes) /\ a \in DOMAIN t
  BY OrderedFacts
<1>2. Meanings(t) = [b \in DOMAIN t |-> Denoted(t, Meanings(t), b)]
  BY <1>1, MeaningsFacts DEF Means0
<1> DEFINE f == Meanings(t)
<1> HIDE DEF f
<1>3. a \in DOMAIN f /\ f[a] = Denoted(t, f, a)
  BY <1>1, <1>2 DEF f
<1> QED
  BY <1>3 DEF Means, At, f, Denoted

LEMMA InnerMeans ==
    ASSUME NEW t, NEW F, Ordered(t, F), NEW a \in F, t[a].index # LeafIndex
    PROVE  Means(t, a) = [l \in Letters |->
              IF l[t[a].index] = 0 THEN Means(t, t[a].lo)[l] ELSE Means(t, t[a].hi)[l]]
<1>1. t \in Seq(Nodes) /\ a \in DOMAIN t /\ InnerAt(t, F, a) /\ F \subseteq DOMAIN t
  BY OrderedFacts DEF Ordered
<1>2. Meanings(t) = [b \in DOMAIN t |-> Denoted(t, Meanings(t), b)]
  BY <1>1, MeaningsFacts DEF Means0
<1> DEFINE f == Meanings(t)
<1> HIDE DEF f
<1>3. DOMAIN f = DOMAIN t /\ f[a] = Denoted(t, f, a)
  BY <1>1, <1>2 DEF f
<1>4. /\ t[a].lo \in DOMAIN t /\ t[a].hi \in DOMAIN t
      /\ t[a].index < t[t[a].lo].index /\ t[a].index < t[t[a].hi].index
  BY <1>1 DEF InnerAt
<1>5. Means(t, a) = f[a] /\ Means(t, t[a].lo) = f[t[a].lo] /\ Means(t, t[a].hi) = f[t[a].hi]
  BY <1>1, <1>3, <1>4 DEF Means, At, f
<1> QED
  BY <1>3, <1>4, <1>5 DEF Denoted

-----------------------------------------------------------------------------
(* Induction from the leaves, and what follows by it.                        *)

LEMMA FromLeaves ==
    ASSUME NEW t, NEW F, Ordered(t, F), NEW Q,
           \A a \in F : (\A b \in F : t[a].index < t[b].index => b \in Q) => a \in Q
    PROVE  F \subseteq Q
<1> DEFINE S == {n \in Nat : \A a \in F : t[a].index > Vars - n => a \in Q}
<1>1. \A a \in F : t[a].index \in 0..Vars
  BY OrderedFacts
<1>2. 0 \in S
  BY <1>1, VarsFacts
<1>3. ASSUME NEW n \in S
      PROVE  n + 1 \in S
  <2>1. n \in Nat /\ \A a \in F : t[a].index > Vars - n => a \in Q
    OBVIOUS
  <2> SUFFICES ASSUME NEW a \in F, t[a].index > Vars - (n + 1)
               PROVE  a \in Q
    BY <2>1
  <2>2. \A b \in F : t[a].index < t[b].index => t[b].index > Vars - n
    BY <1>1, <2>1, VarsFacts
  <2> QED
    BY <2>1, <2>2
<1> HIDE DEF S
<1>4. Vars + 1 \in S
  <2>1. S \in SUBSET Nat
    BY DEF S
  <2> QED
    BY <1>2, <1>3, <2>1, Induction, VarsFacts
<1>5. \A a \in F : t[a].index > Vars - (Vars + 1)
  BY <1>1, VarsFacts
<1> QED
  BY <1>4, <1>5 DEF S

LEMMA MeansType ==
    ASSUME NEW t, NEW F, Ordered(t, F), NEW a \in F
    PROVE  Means(t, a) \in Denotations
<1> DEFINE Q == {b \in F : Means(t, b) \in Denotations}
<1>1. ASSUME NEW c \in F, \A b \in F : t[c].index < t[b].index => b \in Q
      PROVE  c \in Q
  <2>1. CASE t[c].index = LeafIndex
    <3>1. Means(t, c) = [l \in Letters |-> t[c].value]
      BY <2>1, LeafMeans
    <3>2. t[c].value \in SUBSET Elements
      BY OrderedFacts, NodeFacts
    <3> QED
      BY <3>1, <3>2 DEF Denotations
  <2>2. CASE t[c].index # LeafIndex
    <3>1. InnerAt(t, F, c)
      BY <2>2, OrderedFacts
    <3>2. Means(t, t[c].lo) \in Denotations /\ Means(t, t[c].hi) \in Denotations
      BY <1>1, <3>1 DEF InnerAt
    <3>3. Means(t, c) = [l \in Letters |->
              IF l[t[c].index] = 0 THEN Means(t, t[c].lo)[l] ELSE Means(t, t[c].hi)[l]]
      BY <2>2, InnerMeans
    <3> QED
      BY <3>2, <3>3 DEF Denotations
  <2> QED
    BY <2>1, <2>2
<1> HIDE DEF Q
<1>2. F \subseteq Q
  BY <1>1, FromLeaves
<1> QED
  BY <1>2 DEF Q

\* Letters that agree from index i on.
AgreeFrom(i, l, m) == \A j \in 0..Vars-1 : j >= i => l[j] = m[j]

\* A node does not look at smaller indices.
LEMMA Independent ==
    ASSUME NEW t, NEW F, Ordered(t, F), NEW a \in F,
           NEW l \in Letters, NEW m \in Letters, AgreeFrom(t[a].index, l, m)
    PROVE  Means(t, a)[l] = Means(t, a)[m]
<1> DEFINE Q == {b \in F : AgreeFrom(t[b].index, l, m) => Means(t, b)[l] = Means(t, b)[m]}
<1>1. ASSUME NEW c \in F, \A b \in F : t[c].index < t[b].index => b \in Q
      PROVE  c \in Q
  <2>1. CASE t[c].index = LeafIndex
    BY <2>1, LeafMeans
  <2>2. CASE t[c].index # LeafIndex
    <3> SUFFICES ASSUME AgreeFrom(t[c].index, l, m)
                 PROVE  Means(t, c)[l] = Means(t, c)[m]
      OBVIOUS
    <3>1. InnerAt(t, F, c)
      BY <2>2, OrderedFacts
    <3> DEFINE i == t[c].index
    <3>2. i \in 0..Vars-1 /\ l[i] = m[i]
      BY <3>1, VarsFacts DEF InnerAt, AgreeFrom
    <3>3. ASSUME NEW b \in {t[c].lo, t[c].hi}
          PROVE  Means(t, b)[l] = Means(t, b)[m]
      <4>1. b \in F /\ i < t[b].index /\ t[b].index \in Int
        BY <3>1, OrderedFacts DEF InnerAt
      <4>2. AgreeFrom(t[b].index, l, m)
        BY <3>2, <4>1, VarsFacts DEF AgreeFrom
      <4> QED
        BY <1>1, <4>1, <4>2
    <3>4. Means(t, c) = [x \in Letters |->
              IF x[i] = 0 THEN Means(t, t[c].lo)[x] ELSE Means(t, t[c].hi)[x]]
      BY <2>2, InnerMeans
    <3> HIDE DEF i
    <3>5. Means(t, c)[l] = IF l[i] = 0 THEN Means(t, t[c].lo)[l] ELSE Means(t, t[c].hi)[l]
      BY <3>4
    <3>6. Means(t, c)[m] = IF m[i] = 0 THEN Means(t, t[c].lo)[m] ELSE Means(t, t[c].hi)[m]
      BY <3>4
    <3> QED
      BY <3>2, <3>3, <3>5, <3>6
  <2> QED
    BY <2>1, <2>2
<1> HIDE DEF Q
<1>2. F \subseteq Q
  BY <1>1, FromLeaves
<1> QED
  BY <1>2 DEF Q

LEMMA LetterFacts ==
    ASSUME NEW l \in Letters, NEW i \in 0..Vars-1, NEW b \in {0, 1}
    PROVE  /\ [l EXCEPT ![i] = b] \in Letters
           /\ [l EXCEPT ![i] = b][i] = b
           /\ l[i] \in {0, 1}
           /\ \A j \in 0..Vars-1 : j # i => [l EXCEPT ![i] = b][j] = l[j]
BY DEF Letters

-----------------------------------------------------------------------------
(* Denotations with the letter fixed at an index.                            *)

Fixed(f, i, b) == [l \in Letters |-> f[[l EXCEPT ![i] = b]]]
Choice(i, f, g) == [l \in Letters |-> IF l[i] = 0 THEN f[l] ELSE g[l]]

LEMMA FixedType ==
    ASSUME NEW f \in Denotations, NEW i \in 0..Vars-1, NEW b \in {0, 1}
    PROVE  Fixed(f, i, b) \in Denotations
<1>1. \A l \in Letters : f[[l EXCEPT ![i] = b]] \in SUBSET Elements
  BY LetterFacts DEF Denotations
<1> QED
  BY <1>1 DEF Fixed, Denotations

LEMMA SameDenotation ==
    ASSUME NEW f \in Denotations, NEW g \in Denotations, \A l \in Letters : f[l] = g[l]
    PROVE  f = g
BY DEF Denotations

LEMMA ChoiceOfFixed ==
    ASSUME NEW f \in Denotations, NEW i \in 0..Vars-1
    PROVE  f = Choice(i, Fixed(f, i, 0), Fixed(f, i, 1))
<1>1. ASSUME NEW l \in Letters
      PROVE  f[l] = IF l[i] = 0 THEN f[[l EXCEPT ![i] = 0]] ELSE f[[l EXCEPT ![i] = 1]]
  <2>1. l[i] \in {0, 1} /\ l = [l EXCEPT ![i] = l[i]]
    BY DEF Letters
  <2> QED
    BY <2>1
<1>2. f = [l \in Letters |-> f[l]]
  BY DEF Denotations
<1>3. f = [l \in Letters |-> IF l[i] = 0 THEN f[[l EXCEPT ![i] = 0]] ELSE f[[l EXCEPT ![i] = 1]]]
  BY <1>1, <1>2
<1> QED
  BY <1>3 DEF Choice, Fixed

\* Below its index a node does not depend on the letter.
LEMMA FixedAbove ==
    ASSUME NEW t, NEW F, Ordered(t, F), NEW a \in F,
           NEW i \in 0..Vars-1, i < t[a].index, NEW b \in {0, 1}
    PROVE  Fixed(Means(t, a), i, b) = Means(t, a)
<1>1. ASSUME NEW l \in Letters
      PROVE  Means(t, a)[[l EXCEPT ![i] = b]] = Means(t, a)[l]
  <2> DEFINE m == [l EXCEPT ![i] = b]
  <2>1. m \in Letters
    BY LetterFacts
  <2>2. AgreeFrom(t[a].index, m, l)
    <3>1. t[a].index \in Int
      BY OrderedFacts
    <3> QED
      BY <3>1, LetterFacts DEF AgreeFrom
  <2> HIDE DEF m
  <2>3. Means(t, a)[m] = Means(t, a)[l]
    BY <2>1, <2>2, Independent
  <2> QED
    BY <2>3 DEF m
<1>2. Means(t, a) \in Denotations
  BY MeansType
<1>3. Fixed(Means(t, a), i, b) \in Denotations
  BY <1>2, FixedType
<1>4. \A l \in Letters : Fixed(Means(t, a), i, b)[l] = Means(t, a)[l]
  BY <1>1 DEF Fixed
<1> QED
  BY <1>2, <1>3, <1>4, SameDenotation

LEMMA FixedChoice ==
    ASSUME NEW f \in Denotations, NEW g \in Denotations, NEW i \in 0..Vars-1
    PROVE  /\ Fixed(Choice(i, f, g), i, 0) = Fixed(f, i, 0)
           /\ Fixed(Choice(i, f, g), i, 1) = Fixed(g, i, 1)
<1>1. ASSUME NEW l \in Letters
      PROVE  /\ Choice(i, f, g)[[l EXCEPT ![i] = 0]] = f[[l EXCEPT ![i] = 0]]
             /\ Choice(i, f, g)[[l EXCEPT ![i] = 1]] = g[[l EXCEPT ![i] = 1]]
  <2> DEFINE z == [l EXCEPT ![i] = 0]
             o == [l EXCEPT ![i] = 1]
  <2>1. z \in Letters /\ o \in Letters /\ z[i] = 0 /\ o[i] = 1
    BY LetterFacts
  <2> HIDE DEF z, o
  <2>2. Choice(i, f, g)[z] = f[z] /\ Choice(i, f, g)[o] = g[o]
    BY <2>1 DEF Choice
  <2> QED
    BY <2>2 DEF z, o
<1> QED
  BY <1>1 DEF Fixed

\* A successor is its node with the index fixed.
LEMMA Cofactor ==
    ASSUME NEW t, NEW F, Ordered(t, F), NEW a \in F, InnerAt(t, F, a)
    PROVE  /\ Means(t, a) = Choice(t[a].index, Means(t, t[a].lo), Means(t, t[a].hi))
           /\ Fixed(Means(t, a), t[a].index, 0) = Means(t, t[a].lo)
           /\ Fixed(Means(t, a), t[a].index, 1) = Means(t, t[a].hi)
<1> DEFINE i == t[a].index
           f == Means(t, t[a].lo)
           g == Means(t, t[a].hi)
<1>1. /\ i \in 0..Vars-1 /\ t[a].lo \in F /\ t[a].hi \in F
      /\ i < t[t[a].lo].index /\ i < t[t[a].hi].index /\ i # LeafIndex
  BY OrderedFacts DEF InnerAt
<1>2. Means(t, a) = Choice(i, f, g)
  BY <1>1, InnerMeans DEF Choice
<1>3. f \in Denotations /\ g \in Denotations
  BY <1>1, MeansType
<1> HIDE DEF i
<1>4. Fixed(f, i, 0) = f /\ Fixed(g, i, 1) = g
  BY <1>1, FixedAbove
<1> HIDE DEF f, g
<1>5. Fixed(Means(t, a), i, 0) = f /\ Fixed(Means(t, a), i, 1) = g
  BY <1>1, <1>2, <1>3, <1>4, FixedChoice
<1> QED
  BY <1>2, <1>5 DEF i, f, g

\* In a reduced table nodes that denote the same are the same.
LEMMA ReducedSame ==
    ASSUME NEW t, Ordered(t, DOMAIN t), Reduced(t),
           NEW a \in DOMAIN t, NEW b \in DOMAIN t, Means(t, a) = Means(t, b)
    PROVE  a = b
<1> DEFINE D == DOMAIN t
           Q == {c \in D : \A d \in D : t[c].index <= t[d].index /\ Means(t, c) = Means(t, d) => c = d}
<1>1. ASSUME NEW c \in D, \A d \in D : t[c].index < t[d].index => d \in Q
      PROVE  c \in Q
  <2> SUFFICES ASSUME NEW d \in D, t[c].index <= t[d].index, Means(t, c) = Means(t, d)
               PROVE  c = d
    OBVIOUS
  <2>0. t[c].index \in 0..Vars /\ t[d].index \in 0..Vars
    BY OrderedFacts
  <2>1. CASE t[c].index = LeafIndex
    <3>1. t[d].index = LeafIndex
      BY <2>0, <2>1, VarsFacts
    <3>2. LeafAt(t, c) /\ LeafAt(t, d)
      BY <2>1, <3>1, OrderedFacts
    <3>3. PICK l : l \in Letters
      <4>1. [i \in 0..Vars-1 |-> 0] \in Letters
        BY DEF Letters
      <4> QED
        BY <4>1
    <3>4. Means(t, c)[l] = t[c].value /\ Means(t, d)[l] = t[d].value
      BY <2>1, <3>1, <3>3, LeafMeans
    <3>5. t[c] = t[d]
      BY <3>2, <3>4 DEF LeafAt
    <3> QED
      BY <3>5 DEF Reduced
  <2>2. CASE t[c].index # LeafIndex
    <3>1. InnerAt(t, D, c)
      BY <2>2, OrderedFacts
    <3>2. /\ t[c].index \in 0..Vars-1 /\ t[c].lo \in D /\ t[c].hi \in D
          /\ t[c].index < t[t[c].lo].index /\ t[c].index < t[t[c].hi].index
      BY <3>1 DEF InnerAt
    <3>3. /\ Fixed(Means(t, d), t[c].index, 0) = Means(t, t[c].lo)
          /\ Fixed(Means(t, d), t[c].index, 1) = Means(t, t[c].hi)
      BY <2>2, <3>1, Cofactor
    \* Nodes above the index of c that denote the same are the same.
    <3>4. ASSUME NEW x \in D, NEW y \in D, t[c].index < t[x].index, t[c].index < t[y].index,
                 Means(t, x) = Means(t, y)
          PROVE  x = y
      <4>1. x \in Q /\ y \in Q
        BY <1>1, <3>4
      <4>2. t[x].index <= t[y].index \/ t[y].index <= t[x].index
        <5>1. t[x].index \in Int /\ t[y].index \in Int
          BY OrderedFacts
        <5> QED
          BY <5>1
      <4> QED
        BY <3>4, <4>1, <4>2
    <3> HIDE DEF Q
    <3>5. CASE t[d].index = t[c].index
      <4>1. InnerAt(t, D, d)
        BY <2>2, <3>5, OrderedFacts
      <4>2. /\ t[d].lo \in D /\ t[d].hi \in D
            /\ t[c].index < t[t[d].lo].index /\ t[c].index < t[t[d].hi].index
        BY <3>5, <4>1 DEF InnerAt
      <4>3. /\ Fixed(Means(t, d), t[c].index, 0) = Means(t, t[d].lo)
            /\ Fixed(Means(t, d), t[c].index, 1) = Means(t, t[d].hi)
        BY <3>5, <4>1, Cofactor
      <4>4. t[c].lo = t[d].lo
        BY <3>2, <3>3, <3>4, <4>2, <4>3
      <4>5. t[c].hi = t[d].hi
        BY <3>2, <3>3, <3>4, <4>2, <4>3
      <4>6. t[c] = t[d]
        BY <3>1, <3>5, <4>1, <4>4, <4>5 DEF InnerAt
      <4> QED
        BY <4>6 DEF Reduced
    <3>6. CASE t[d].index # t[c].index
      <4>1. t[c].index < t[d].index
        BY <2>0, <3>6
      <4>2. /\ Fixed(Means(t, d), t[c].index, 0) = Means(t, d)
            /\ Fixed(Means(t, d), t[c].index, 1) = Means(t, d)
        BY <3>2, <4>1, FixedAbove
      <4>3. t[c].lo = t[c].hi
        BY <3>2, <3>3, <3>4, <4>2
      <4> QED
        BY <2>2, <4>3 DEF Reduced
    <3> QED
      BY <3>5, <3>6
  <2> QED
    BY <2>1, <2>2
<1> HIDE DEF Q
<1>2. D \subseteq Q
  BY <1>1, FromLeaves
<1>3. a \in Q /\ b \in Q
  BY <1>2
<1>4. t[a].index <= t[b].index \/ t[b].index <= t[a].index
  <2>1. t[a].index \in Int /\ t[b].index \in Int
    BY OrderedFacts
  <2> QED
    BY <2>1
<1> QED
  BY <1>3, <1>4 DEF Q
-----------------------------------------------------------------------------
(* What is kept when a table is doubled.                                     *)

\* The addresses in X and one edge further.
Spread(t, X) == UNION {{a} \cup Children(t[a]) : a \in X}
Widens(t, S, n, w) == w = [k \in 0..n |-> IF k = 0 THEN S ELSE Spread(t, w[k-1])]

LEMMA WideningExists ==
    ASSUME NEW t, NEW S
    PROVE  \E w : Widens(t, S, Vars, w)
<1> DEFINE T == {n \in Nat : \E w : Widens(t, S, n, w)}
<1>1. 0 \in T
  <2> DEFINE w == [k \in 0..0 |-> S]
  <2>1. Widens(t, S, 0, w)
    BY DEF Widens
  <2> HIDE DEF w
  <2> QED
    BY <2>1
<1>2. ASSUME NEW n \in T
      PROVE  n + 1 \in T
  <2>1. n \in Nat
    OBVIOUS
  <2>2. PICK w : Widens(t, S, n, w)
    OBVIOUS
  <2> DEFINE v == [k \in 0..n+1 |-> IF k = n + 1 THEN Spread(t, w[n]) ELSE w[k]]
  <2>3. ASSUME NEW k \in 0..n+1
        PROVE  v[k] = IF k = 0 THEN S ELSE Spread(t, v[k-1])
    <3>1. CASE k = n + 1
      <4>1. k # 0 /\ k - 1 = n /\ n \in 0..n+1 /\ n # n + 1
        BY <2>1, <3>1
      <4> QED
        BY <3>1, <4>1
    <3>2. CASE k # n + 1
      <4>1. k \in 0..n
        BY <2>1, <3>2
      <4>2. k # 0 => k - 1 \in 0..n+1 /\ k - 1 # n + 1
        BY <2>1, <4>1
      <4>3. w[k] = IF k = 0 THEN S ELSE Spread(t, w[k-1])
        BY <2>2, <4>1 DEF Widens
      <4> QED
        BY <3>2, <4>2, <4>3
    <3> QED
      BY <3>1, <3>2
  <2>4. v = [k \in 0..n+1 |-> v[k]]
    OBVIOUS
  <2> HIDE DEF v
  <2>5. Widens(t, S, n + 1, v)
    BY <2>3, <2>4 DEF Widens
  <2> QED
    BY <2>1, <2>5
<1> HIDE DEF T
<1>3. Vars \in T
  <2>1. T \in SUBSET Nat
    BY DEF T
  <2> QED
    BY <1>1, <1>2, <2>1, Induction, VarsFacts
<1> QED
  BY <1>3 DEF T

LEMMA LiveWidens ==
    ASSUME NEW t, NEW S
    PROVE  \E w : Widens(t, S, Vars, w) /\ Live(t, S) = w[Vars]
<1> DEFINE w == CHOOSE w : Widens(t, S, Vars, w)
<1>1. Widens(t, S, Vars, w)
  <2>1. \E v : Widens(t, S, Vars, v)
    BY WideningExists
  <2> QED
    BY <2>1
<1>2. Live(t, S) = w[Vars]
  BY DEF Live, Widens, Spread
<1> QED
  BY <1>1, <1>2

\* The kept nodes contain the given ones and lead to kept nodes.
LEMMA LiveFacts ==
    ASSUME NEW t, Ordered(t, DOMAIN t), NEW S \in SUBSET DOMAIN t
    PROVE  /\ S \subseteq Live(t, S) /\ Live(t, S) \subseteq DOMAIN t
           /\ Ordered(t, Live(t, S))
<1>1. PICK w : Widens(t, S, Vars, w) /\ Live(t, S) = w[Vars]
  BY LiveWidens
<1>2. /\ w[0] = S
      /\ \A k \in 1..Vars : w[k] = Spread(t, w[k-1])
  <2>1. 0 \in 0..Vars /\ \A k \in 1..Vars : k \in 0..Vars /\ k # 0
    BY VarsFacts
  <2> QED
    BY <1>1, <2>1 DEF Widens
<1>3. \A a \in DOMAIN t : t[a].index \in 0..Vars /\ Children(t[a]) \subseteq DOMAIN t
  BY OrderedFacts
\* One more step only adds addresses, and the children of those there were.
<1>4. ASSUME NEW k \in 1..Vars
      PROVE  /\ w[k-1] \subseteq w[k]
             /\ \A a \in w[k-1] : Children(t[a]) \subseteq w[k]
  BY <1>2 DEF Spread
<1>5. ASSUME NEW i \in Nat
      PROVE  \A n \in Nat : i + n <= Vars => w[i] \subseteq w[i+n]
  <2> DEFINE T == {n \in Nat : i + n <= Vars => w[i] \subseteq w[i+n]}
  <2>1. 0 \in T
    OBVIOUS
  <2>2. ASSUME NEW n \in T
        PROVE  n + 1 \in T
    <3> SUFFICES ASSUME i + (n + 1) <= Vars
                 PROVE  w[i] \subseteq w[i+(n+1)]
      OBVIOUS
    <3>1. n \in Nat /\ w[i] \subseteq w[i+n]
      BY VarsFacts
    <3>2. i + (n + 1) \in 1..Vars /\ (i + (n + 1)) - 1 = i + n
      BY <3>1, VarsFacts
    <3> QED
      BY <1>4, <3>1, <3>2
  <2> HIDE DEF T
  <2>3. \A n \in Nat : n \in T
    <3>1. T \in SUBSET Nat
      BY DEF T
    <3> QED
      BY <2>1, <2>2, <3>1, Induction
  <2> QED
    BY <2>3 DEF T
<1>6. ASSUME NEW i \in 0..Vars, NEW j \in i..Vars
      PROVE  w[i] \subseteq w[j]
  <2>1. i \in Nat /\ j - i \in Nat /\ i + (j - i) = j /\ j <= Vars
    BY VarsFacts
  <2> QED
    BY <1>5, <2>1
\* An address is there as soon as its index allows.
<1> DEFINE Early(k) == \A a \in w[k] : a \in DOMAIN t /\ a \in w[t[a].index]
<1>7. \A k \in Nat : k <= Vars => Early(k)
  <2> DEFINE T == {k \in Nat : k <= Vars => Early(k)}
  <2>1. Early(0)
    <3> SUFFICES ASSUME NEW a \in w[0]
                 PROVE  a \in DOMAIN t /\ a \in w[t[a].index]
      OBVIOUS
    <3>1. a \in DOMAIN t
      BY <1>2
    <3>2. 0 \in 0..Vars /\ t[a].index \in 0..Vars
      BY <1>3, <3>1, VarsFacts
    <3> QED
      BY <1>6, <3>1, <3>2
  <2>2. ASSUME NEW k \in Nat, k + 1 <= Vars, Early(k)
        PROVE  Early(k + 1)
    <3> SUFFICES ASSUME NEW a \in w[k+1]
                 PROVE  a \in DOMAIN t /\ a \in w[t[a].index]
      OBVIOUS
    <3>1. k + 1 \in 1..Vars /\ (k + 1) - 1 = k
      BY <2>2, VarsFacts
    <3>2. PICK b \in w[k] : a = b \/ a \in Children(t[b])
      <4>1. a \in Spread(t, w[k])
        BY <1>2, <3>1
      <4> QED
        BY <4>1 DEF Spread
    <3>3. b \in DOMAIN t /\ b \in w[t[b].index]
      BY <2>2
    <3>4. CASE a \in Children(t[b])
      <4>1. a \in DOMAIN t
        BY <1>3, <3>3, <3>4
      <4>2. t[b].index # LeafIndex
        BY <3>4 DEF Children
      <4>3. InnerAt(t, DOMAIN t, b) /\ (a = t[b].lo \/ a = t[b].hi)
        BY <3>3, <3>4, <4>2, OrderedFacts DEF Children
      <4>4. t[b].index < t[a].index
        BY <4>3 DEF InnerAt
      <4>5. t[b].index + 1 \in 1..Vars /\ (t[b].index + 1) - 1 = t[b].index
            /\ t[a].index \in (t[b].index + 1)..Vars
        BY <1>3, <3>3, <4>1, <4>4, VarsFacts
      <4>6. a \in w[t[b].index + 1]
        BY <1>4, <3>3, <3>4, <4>5
      <4>7. w[t[b].index + 1] \subseteq w[t[a].index]
        BY <1>6, <4>5
      <4> QED
        BY <4>1, <4>6, <4>7
    <3> QED
      BY <3>2, <3>3, <3>4
  <2> HIDE DEF Early
  <2>3. 0 \in T
    BY <2>1
  <2>4. ASSUME NEW k \in T
        PROVE  k + 1 \in T
    <3>1. k \in Nat /\ (k <= Vars => Early(k))
      OBVIOUS
    <3>2. k + 1 <= Vars => k <= Vars
      BY <3>1, VarsFacts
    <3> QED
      BY <2>2, <3>1, <3>2
  <2> HIDE DEF T
  <2>5. \A k \in Nat : k \in T
    <3>1. T \in SUBSET Nat
      BY DEF T
    <3> QED
      BY <2>3, <2>4, <3>1, Induction
  <2> QED
    BY <2>5 DEF T
<1>8. \A a \in w[Vars] : a \in DOMAIN t /\ a \in w[t[a].index]
  BY <1>7, VarsFacts
<1>9. ASSUME NEW a \in w[Vars]
      PROVE  Children(t[a]) \subseteq w[Vars]
  <2>1. CASE t[a].index = LeafIndex
    BY <2>1 DEF Children
  <2>2. CASE t[a].index # LeafIndex
    <3>1. t[a].index + 1 \in 1..Vars /\ (t[a].index + 1) - 1 = t[a].index
          /\ t[a].index + 1 \in 0..Vars /\ Vars \in (t[a].index + 1)..Vars
      BY <1>3, <1>8, <2>2, VarsFacts
    <3>2. Children(t[a]) \subseteq w[t[a].index + 1]
      BY <1>4, <1>8, <3>1
    <3> QED
      BY <1>6, <3>1, <3>2
  <2> QED
    BY <2>1, <2>2
<1>10. S \subseteq w[Vars]
  <2>1. 0 \in 0..Vars /\ Vars \in 0..Vars
    BY VarsFacts
  <2> QED
    BY <1>2, <1>6, <2>1
<1> HIDE DEF Early
<1>11. Ordered(t, w[Vars])
  <2>1. t \in Seq(Nodes) /\ w[Vars] \subseteq DOMAIN t
    BY <1>8 DEF Ordered
  <2>2. ASSUME NEW a \in w[Vars]
        PROVE  LeafAt(t, a) \/ InnerAt(t, w[Vars], a)
    <3>1. LeafAt(t, a) \/ InnerAt(t, DOMAIN t, a)
      BY <1>8 DEF Ordered
    <3>2. InnerAt(t, DOMAIN t, a) => {t[a].lo, t[a].hi} \subseteq w[Vars]
      <4>1. InnerAt(t, DOMAIN t, a) => Children(t[a]) = {t[a].lo, t[a].hi}
        BY <1>8, OrderedFacts
      <4> QED
        BY <1>9, <4>1
    <3> QED
      BY <3>1, <3>2 DEF InnerAt
  <2> QED
    BY <2>1, <2>2 DEF Ordered
<1> QED
  BY <1>1, <1>8, <1>10, <1>11
-----------------------------------------------------------------------------
(* Where the kept nodes go.                                                  *)

LEMMA DivMod ==
    ASSUME NEW k \in Int, NEW g \in Int, g > 0
    PROVE  /\ k \div g \in Int
           /\ (k % g) \in Int /\ 0 <= (k % g) /\ (k % g) < g
           /\ k = g * (k \div g) + (k % g)
OBVIOUS

\* Two numbers less than n apart that leave the same rest are one.
LEMMA SameRest ==
    ASSUME NEW n \in Nat, n > 0, NEW x \in Nat, NEW y \in Nat,
           x <= y, y - x < n, x % n = y % n
    PROVE  x = y
<1> DEFINE u == x \div n
           v == y \div n
           r == x % n
<1>1. u \in Int /\ v \in Int /\ r \in Int /\ x = n * u + r /\ y = n * v + r
  BY DivMod
<1> HIDE DEF u, v, r
<1>2. y - x = n * (v - u)
  BY <1>1
<1>3. v - u >= 1 => n * (v - u) >= n
  BY <1>1
<1>4. v - u <= 0 => n * (v - u) <= 0
  BY <1>1
<1>5. v - u \in Int /\ n * (v - u) \in Int
  BY <1>1
<1> DEFINE d == v - u
           e == n * (v - u)
<1>6. d \in Int /\ e \in Int /\ y - x = e /\ (d >= 1 => e >= n) /\ (d <= 0 => e <= 0)
  BY <1>2, <1>3, <1>4, <1>5
<1> HIDE DEF d, e
<1> QED
  BY <1>6

\* The nodes at K go to the first n places.
Places(t, K, n, to) ==
    /\ n \in Nat /\ to \in [DOMAIN t -> Nat]
    /\ \A a \in DOMAIN t : to[a] # Nowhere <=> a \in K
    /\ \A a \in K : to[a] \in 1..n
    /\ \A a, b \in K : to[a] = to[b] => a = b
    /\ \A b \in 1..n : \E a \in K : to[a] = b

LEMMA MovedFacts ==
    ASSUME NEW t \in Seq(Nodes), NEW K \in SUBSET DOMAIN t, NEW turn \in Nat,
           NEW to, to = Moved(t, K, turn)
    PROVE  Places(t, K, Cardinality(K), to)
<1> DEFINE n == Cardinality(K)
           below(a) == {b \in K : b < a}
           rank(a) == Cardinality(below(a))
<1>1. to = [a \in DOMAIN t |-> IF a \in K THEN ((rank(a) + turn) % n) + 1 ELSE Nowhere]
  BY DEF Moved
<1>2. K \subseteq Nat /\ IsFiniteSet(K) /\ n \in Nat
  <2>1. IsFiniteSet(DOMAIN t)
    <3>1. DOMAIN t = 1..Len(t) /\ Len(t) \in Int
      OBVIOUS
    <3> QED
      BY <3>1, FS_Interval
  <2>2. IsFiniteSet(K)
    BY <2>1, FS_Subset
  <2> QED
    BY <2>2, FS_CardinalityType
<1>3. ASSUME NEW a \in K
      PROVE  rank(a) \in 0..n-1 /\ n > 0
  <2>1. below(a) \in SUBSET (K \ {a})
    BY <1>2
  <2>4. IsFiniteSet(K \ {a}) /\ Cardinality(K \ {a}) = n - 1
    BY <1>2, FS_RemoveElement
  <2>2. IsFiniteSet(below(a)) /\ rank(a) <= n - 1
    <3> HIDE DEF n, below
    <3> QED
      BY <2>1, <2>4, FS_Subset
  <2>3. rank(a) \in Nat
    BY <2>2, FS_CardinalityType
  <2> HIDE DEF rank, n
  <2> QED
    BY <1>2, <2>2, <2>3
<1>4. ASSUME NEW a \in K, NEW b \in K, a < b
      PROVE  rank(a) < rank(b)
  <2>1. below(a) \in SUBSET (below(b) \ {a}) /\ a \in below(b)
    BY <1>2, <1>4
  <2>2. below(b) \in SUBSET K
    OBVIOUS
  <2>3. IsFiniteSet(below(b)) /\ rank(b) \in Nat
    BY <1>2, <2>2, FS_Subset, FS_CardinalityType
  <2> HIDE DEF below
  <2>4. IsFiniteSet(below(b) \ {a}) /\ Cardinality(below(b) \ {a}) = rank(b) - 1
    BY <2>1, <2>3, FS_RemoveElement
  <2>5. IsFiniteSet(below(a)) /\ rank(a) <= rank(b) - 1
    BY <2>1, <2>4, FS_Subset
  <2>6. rank(a) \in Nat
    BY <2>5, FS_CardinalityType
  <2> HIDE DEF rank
  <2> QED
    BY <2>3, <2>5, <2>6
<1> HIDE DEF n, below, rank
<1>5. ASSUME NEW a \in K
      PROVE  to[a] = ((rank(a) + turn) % n) + 1 /\ to[a] \in 1..n
  <2>1. to[a] = ((rank(a) + turn) % n) + 1
    BY <1>1
  <2>2. rank(a) + turn \in Nat
    BY <1>3
  <2>3. (rank(a) + turn) % n \in 0..n-1
    BY <1>2, <1>3, <2>2
  <2> QED
    BY <1>2, <2>1, <2>3
<1>6. ASSUME NEW a \in K, NEW b \in K, to[a] = to[b], a < b
      PROVE  FALSE
  <2>1. rank(a) \in 0..n-1 /\ rank(b) \in 0..n-1 /\ n > 0 /\ rank(a) < rank(b)
    BY <1>3, <1>4, <1>6
  <2> DEFINE x == rank(a) + turn
             y == rank(b) + turn
  <2>2. x % n = y % n
    <3>1. x % n \in Int /\ y % n \in Int
      BY <1>2, <2>1
    <3>2. to[a] = (x % n) + 1 /\ to[b] = (y % n) + 1
      BY <1>5
    <3> DEFINE r == x % n
               s == y % n
    <3>3. r \in Int /\ s \in Int /\ r + 1 = s + 1
      BY <1>6, <3>1, <3>2
    <3> HIDE DEF r, s
    <3>4. r = s
      BY <3>3
    <3> QED
      BY <3>4 DEF r, s
  <2>3. x \in Nat /\ y \in Nat /\ x < y /\ y - x < n
    BY <1>2, <2>1
  <2> HIDE DEF x, y
  <2>4. n \in Nat /\ n > 0 /\ x <= y /\ ~ (x = y)
    BY <1>2, <2>1, <2>3
  <2>5. x = y
    BY <2>2, <2>3, <2>4, SameRest, Zenon
  <2> QED
    BY <2>4, <2>5
<1>7. \A a, b \in K : to[a] = to[b] => a = b
  <2> SUFFICES ASSUME NEW a \in K, NEW b \in K, to[a] = to[b]
               PROVE  a = b
    OBVIOUS
  <2>1. a \in Nat /\ b \in Nat
    BY <1>2
  <2>2. ~ (a < b) /\ ~ (b < a)
    BY <1>6
  <2> QED
    BY <2>1, <2>2
<1>8. to \in [DOMAIN t -> Nat] /\ \A a \in DOMAIN t : to[a] # Nowhere <=> a \in K
  <2>1. ASSUME NEW a \in DOMAIN t
        PROVE  to[a] \in Nat /\ (to[a] # Nowhere <=> a \in K)
    <3>1. CASE a \in K
      <4>1. to[a] \in 1..n
        BY <1>5, <3>1
      <4> QED
        BY <1>2, <3>1, <4>1 DEF Nowhere
    <3>2. CASE a \notin K
      BY <1>1, <3>2 DEF Nowhere
    <3> QED
      BY <3>1, <3>2
  <2>2. to = [a \in DOMAIN t |-> to[a]]
    BY <1>1
  <2> QED
    BY <2>1, <2>2
<1>9. \A b \in 1..n : \E a \in K : to[a] = b
  <2> DEFINE f == [a \in K |-> to[a]]
  <2>1. f \in [K -> 1..n]
    BY <1>5
  <2>2. f \in Injection(K, 1..n)
    BY <1>7, <2>1 DEF Injection, IsInjective
  <2>3. IsFiniteSet(1..n) /\ Cardinality(1..n) = n
    BY <1>2, FS_Interval
  <2>4. f \in Surjection(K, 1..n)
    <3> HIDE DEF f
    <3> QED
      BY <2>2, <2>3, FS_Injection DEF n
  <2> QED
    BY <2>4 DEF Surjection
<1> QED
  BY <1>2, <1>5, <1>7, <1>8, <1>9 DEF n, Places
-----------------------------------------------------------------------------
(* Nodes that are found elsewhere.                                           *)

\* The nodes at K, which lead to nodes at K, are found in u, at to.
Carries(t, K, u, G, to) ==
    /\ Ordered(t, K) /\ Ordered(u, G)
    /\ NewPlace(to, Nowhere) = Nowhere /\ NewPlace(to, GoingLeft) = GoingLeft
    /\ \A a \in K : NewPlace(to, a) \in G /\ u[NewPlace(to, a)] = Relocated(t[a], to)

LEMMA StayFacts ==
    /\ \A a : NewPlace(<<>>, a) = a
    /\ \A node \in Nodes : Relocated(node, <<>>) = node
<1>1. \A a : NewPlace(<<>>, a) = a
  BY DEF NewPlace
<1>2. ASSUME NEW node \in Nodes
      PROVE  Relocated(node, <<>>) = node
  BY <1>1 DEF Relocated, Nodes
<1> QED
  BY <1>1, <1>2

LEMMA RelocatedLeaf ==
    ASSUME NEW v, NEW to
    PROVE  Relocated(Leaf(v), to) = Leaf(v)
BY DEF Relocated, Leaf

LEMMA RelocatedInner ==
    ASSUME NEW i, i # LeafIndex, NEW a, NEW b, NEW to
    PROVE  Relocated(Inner(i, a, b), to) = Inner(i, NewPlace(to, a), NewPlace(to, b))
BY DEF Relocated, Inner

LEMMA CarriedNode ==
    ASSUME NEW t, NEW K, NEW u, NEW G, NEW to, Carries(t, K, u, G, to), NEW a \in K
    PROVE  /\ NewPlace(to, a) \in G
           /\ u[NewPlace(to, a)].index = t[a].index
           /\ t[a].index = LeafIndex => u[NewPlace(to, a)] = t[a]
           /\ t[a].index # LeafIndex =>
                /\ u[NewPlace(to, a)].lo = NewPlace(to, t[a].lo)
                /\ u[NewPlace(to, a)].hi = NewPlace(to, t[a].hi)
<1>1. Ordered(t, K) /\ NewPlace(to, a) \in G /\ u[NewPlace(to, a)] = Relocated(t[a], to)
  BY DEF Carries
<1>2. CASE t[a].index = LeafIndex
  <2>1. t[a] = Leaf(t[a].value)
    BY <1>1, <1>2, OrderedFacts DEF LeafAt
  <2>2. Relocated(t[a], to) = t[a]
    BY <2>1, RelocatedLeaf
  <2> QED
    BY <1>1, <1>2, <2>2
<1>3. CASE t[a].index # LeafIndex
  <2>1. t[a] = Inner(t[a].index, t[a].lo, t[a].hi)
    BY <1>1, <1>3, OrderedFacts DEF InnerAt
  <2>2. Relocated(t[a], to) = Inner(t[a].index, NewPlace(to, t[a].lo), NewPlace(to, t[a].hi))
    BY <1>3, <2>1, RelocatedInner
  <2> QED
    BY <1>1, <1>3, <2>2 DEF Inner
<1> QED
  BY <1>1, <1>2, <1>3

\* They denote what they did.
LEMMA CarriedMeans ==
    ASSUME NEW t, NEW K, NEW u, NEW G, NEW to, Carries(t, K, u, G, to), NEW a \in K
    PROVE  Means(u, NewPlace(to, a)) = Means(t, a)
<1> DEFINE Q == {b \in K : Means(u, NewPlace(to, b)) = Means(t, b)}
<1>1. Ordered(t, K) /\ Ordered(u, G)
  BY DEF Carries
<1>2. ASSUME NEW c \in K, \A b \in K : t[c].index < t[b].index => b \in Q
      PROVE  c \in Q
  <2>1. /\ NewPlace(to, c) \in G
        /\ u[NewPlace(to, c)].index = t[c].index
        /\ t[c].index = LeafIndex => u[NewPlace(to, c)] = t[c]
        /\ t[c].index # LeafIndex =>
             /\ u[NewPlace(to, c)].lo = NewPlace(to, t[c].lo)
             /\ u[NewPlace(to, c)].hi = NewPlace(to, t[c].hi)
    BY CarriedNode
  <2> DEFINE d == NewPlace(to, c)
  <2>2. CASE t[c].index = LeafIndex
    <3>1. Means(t, c) = [l \in Letters |-> t[c].value]
      BY <1>1, <2>2, LeafMeans
    <3>2. Means(u, d) = [l \in Letters |-> u[d].value]
      BY <1>1, <2>1, <2>2, LeafMeans
    <3> QED
      BY <2>1, <2>2, <3>1, <3>2
  <2>3. CASE t[c].index # LeafIndex
    <3>1. InnerAt(t, K, c) /\ InnerAt(u, G, d)
      BY <1>1, <2>1, <2>3, OrderedFacts
    <3>2. Means(t, c) = Choice(t[c].index, Means(t, t[c].lo), Means(t, t[c].hi))
      BY <1>1, <3>1, Cofactor
    <3>3. Means(u, d) = Choice(u[d].index, Means(u, u[d].lo), Means(u, u[d].hi))
      BY <1>1, <2>1, <3>1, Cofactor
    <3>4. t[c].lo \in Q /\ t[c].hi \in Q
      BY <1>2, <3>1 DEF InnerAt
    <3> QED
      BY <2>1, <2>3, <3>2, <3>3, <3>4
  <2> QED
    BY <2>2, <2>3
<1> HIDE DEF Q
<1>3. K \subseteq Q
  BY <1>1, <1>2, FromLeaves
<1> QED
  BY <1>3 DEF Q

LEMMA ReachFacts ==
    ASSUME NEW t, NEW K, Ordered(t, K), NEW R \in SUBSET K
    PROVE  /\ R \subseteq Reachable(t, R) /\ Reachable(t, R) \subseteq K
           /\ Ordered(t, Reachable(t, R))
<1> DEFINE L == Reachable(t, R)
<1>0. K \subseteq DOMAIN t /\ Closed(t, K)
  BY OrderedFacts DEF Closed, Ordered
<1>1. R \subseteq L /\ L \subseteq K
  BY <1>0 DEF Reachable
<1>2. ASSUME NEW a \in L, NEW c \in Children(t[a])
      PROVE  c \in L
  <2>1. c \in DOMAIN t
    BY <1>0, <1>1 DEF Closed
  <2>2. ASSUME NEW S \in SUBSET DOMAIN t, Closed(t, S), R \subseteq S
        PROVE  c \in S
    <3>1. a \in S
      BY <2>2 DEF Reachable
    <3> QED
      BY <2>2, <3>1 DEF Closed
  <2> QED
    BY <2>1, <2>2 DEF Reachable
<1> HIDE DEF L
<1>3. Ordered(t, L)
  <2>1. t \in Seq(Nodes) /\ L \subseteq DOMAIN t
    BY <1>0, <1>1 DEF Ordered
  <2>2. ASSUME NEW a \in L
        PROVE  LeafAt(t, a) \/ InnerAt(t, L, a)
    <3>1. a \in K /\ (LeafAt(t, a) \/ InnerAt(t, K, a))
      BY <1>1 DEF Ordered
    <3>2. InnerAt(t, K, a) => {t[a].lo, t[a].hi} \subseteq L
      <4>1. InnerAt(t, K, a) => Children(t[a]) = {t[a].lo, t[a].hi}
        BY <3>1, OrderedFacts
      <4> QED
        BY <1>2, <4>1
    <3> QED
      BY <3>1, <3>2 DEF InnerAt
  <2> QED
    BY <2>1, <2>2 DEF Ordered
<1> QED
  BY <1>1, <1>3 DEF L

\* What can be reached goes to what can be reached.
LEMMA ReachMoves ==
    ASSUME NEW t, NEW K, NEW u, NEW to, Carries(t, K, u, DOMAIN u, to),
           NEW R \in SUBSET K, NEW P, P = {NewPlace(to, a) : a \in R}
    PROVE  Carries(t, Reachable(t, R), u, Reachable(u, P), to)
<1>1. Ordered(t, K) /\ Ordered(u, DOMAIN u)
  BY DEF Carries
<1>2. K \subseteq DOMAIN t /\ Closed(t, K)
  BY <1>1, OrderedFacts DEF Closed, Ordered
<1>3. Reachable(t, R) \subseteq K
  BY <1>2 DEF Reachable
<1>4. P \in SUBSET DOMAIN u
  BY DEF Carries
<1>5. ASSUME NEW a \in Reachable(t, R)
      PROVE  NewPlace(to, a) \in Reachable(u, P)
  <2>1. NewPlace(to, a) \in DOMAIN u
    BY <1>3 DEF Carries
  <2>2. ASSUME NEW S \in SUBSET DOMAIN u, Closed(u, S), P \subseteq S
        PROVE  NewPlace(to, a) \in S
    <3> DEFINE T == {b \in K : NewPlace(to, b) \in S}
    <3>1. R \subseteq T
      BY <2>2
    <3>2. ASSUME NEW b \in T, NEW c \in Children(t[b])
          PROVE  c \in T
      <4>1. b \in K /\ NewPlace(to, b) \in S /\ c \in K
        BY <1>2 DEF Closed
      <4>2. t[b].index # LeafIndex /\ (c = t[b].lo \/ c = t[b].hi)
        BY DEF Children
      <4>3. /\ u[NewPlace(to, b)].index # LeafIndex
            /\ u[NewPlace(to, b)].lo = NewPlace(to, t[b].lo)
            /\ u[NewPlace(to, b)].hi = NewPlace(to, t[b].hi)
        BY <4>1, <4>2, CarriedNode
      <4>4. NewPlace(to, c) \in Children(u[NewPlace(to, b)])
        BY <4>2, <4>3 DEF Children
      <4>5. NewPlace(to, c) \in S
        BY <2>2, <4>1, <4>4 DEF Closed
      <4> QED
        BY <4>1, <4>5
    <3>3. T \in SUBSET DOMAIN t
      BY <1>2
    <3> HIDE DEF T
    <3>4. a \in T
      BY <3>1, <3>2, <3>3 DEF Reachable, Closed
    <3> QED
      BY <3>4 DEF T
  <2> QED
    BY <2>1, <2>2 DEF Reachable
<1>6. Ordered(t, Reachable(t, R))
  BY <1>1, ReachFacts
<1>7. Ordered(u, Reachable(u, P))
  BY <1>1, <1>4, ReachFacts
<1> QED
  BY <1>3, <1>5, <1>6, <1>7 DEF Carries
-----------------------------------------------------------------------------
(* Finding a node.                                                           *)

\* A node that leads to K.
Shaped(K, node) ==
    \/ \E v \in SUBSET Elements : node = Leaf(v)
    \/ /\ node = Inner(node.index, node.lo, node.hi)
       /\ node.index \in 0..Vars-1 /\ node.lo \in K /\ node.hi \in K

\* A node that may be put into t.
Fits(t, node) ==
    /\ Shaped(DOMAIN t, node)
    /\ node.index # LeafIndex =>
         /\ node.index < t[node.lo].index /\ node.index < t[node.hi].index
         /\ node.lo # node.hi

NodeMeans(t, node) ==
    IF node.index = LeafIndex THEN [l \in Letters |-> node.value]
    ELSE Choice(node.index, Means(t, node.lo), Means(t, node.hi))

LEMMA ShapedFacts ==
    ASSUME NEW K \in SUBSET Nat, NEW node, Shaped(K, node)
    PROVE  /\ node \in Nodes /\ node.index \in 0..Vars
           /\ node.index = LeafIndex => node = Leaf(node.value) /\ node.value \in SUBSET Elements
           /\ node.index # LeafIndex =>
                /\ node = Inner(node.index, node.lo, node.hi)
                /\ node.index \in 0..Vars-1
                /\ node.lo \in K /\ node.hi \in K
                /\ Children(node) = {node.lo, node.hi}
<1>1. CASE \E v \in SUBSET Elements : node = Leaf(v)
  BY <1>1, LeafFacts, VarsFacts DEF Children
<1>2. CASE ~ \E v \in SUBSET Elements : node = Leaf(v)
  <2>1. /\ node = Inner(node.index, node.lo, node.hi)
        /\ node.index \in 0..Vars-1 /\ node.lo \in K /\ node.hi \in K
    BY <1>2 DEF Shaped
  <2>2. node.index \in -1..Vars /\ node.index # LeafIndex /\ node.index \in 0..Vars
    BY <2>1, VarsFacts
  <2>3. node \in Nodes
    <3>1. node.lo \in Nat /\ node.hi \in Nat
      BY <2>1
    <3>2. Inner(node.index, node.lo, node.hi) \in Nodes
      BY <2>2, <3>1, InnerFacts
    <3> QED
      BY <2>1, <3>2
  <2> QED
    BY <2>1, <2>2, <2>3 DEF Children
<1> QED
  BY <1>1, <1>2

LEMMA OrderedShaped ==
    ASSUME NEW t, NEW K, Ordered(t, K), NEW a \in K
    PROVE  Shaped(K, t[a])
<1>1. t \in Seq(Nodes) /\ a \in DOMAIN t /\ (LeafAt(t, a) \/ InnerAt(t, K, a))
  BY DEF Ordered
<1>2. t[a].value \in SUBSET Elements
  BY <1>1, NodeFacts
<1> QED
  BY <1>1, <1>2 DEF LeafAt, InnerAt, Shaped

LEMMA InnerSame ==
    ASSUME NEW i, NEW a, NEW b, NEW j, NEW c, NEW d, Inner(i, a, b) = Inner(j, c, d)
    PROVE  i = j /\ a = c /\ b = d
<1>1. /\ Inner(i, a, b).index = i /\ Inner(i, a, b).lo = a /\ Inner(i, a, b).hi = b
      /\ Inner(j, c, d).index = j /\ Inner(j, c, d).lo = c /\ Inner(j, c, d).hi = d
  BY DEF Inner
<1> QED
  BY <1>1

\* Different nodes stay different.
LEMMA RelocatedDiffer ==
    ASSUME NEW K \in SUBSET Nat, NEW to,
           \A a, b \in K : NewPlace(to, a) = NewPlace(to, b) => a = b,
           NEW v, NEW w, Shaped(K, v), Shaped(K, w), Relocated(v, to) = Relocated(w, to)
    PROVE  v = w
<1>1. CASE v.index = LeafIndex
  <2>1. v = Leaf(v.value) /\ Relocated(v, to) = v
    BY <1>1, ShapedFacts DEF Relocated
  <2>2. CASE w.index = LeafIndex
    BY <2>1, <2>2 DEF Relocated
  <2>3. CASE w.index # LeafIndex
    <3>1. Relocated(w, to) = Inner(w.index, NewPlace(to, w.lo), NewPlace(to, w.hi))
      BY <2>3, ShapedFacts, RelocatedInner
    <3>2. Relocated(w, to).index = w.index
      BY <3>1 DEF Inner
    <3> QED
      BY <1>1, <2>1, <2>3, <3>2
  <2> QED
    BY <2>2, <2>3
<1>2. CASE v.index # LeafIndex
  <2>1. Relocated(v, to) = Inner(v.index, NewPlace(to, v.lo), NewPlace(to, v.hi))
    <3>1. v = Inner(v.index, v.lo, v.hi)
      BY <1>2, ShapedFacts
    <3>2. Relocated(Inner(v.index, v.lo, v.hi), to) = Inner(v.index, NewPlace(to, v.lo), NewPlace(to, v.hi))
      BY <1>2, RelocatedInner
    <3> QED
      BY <3>1, <3>2
  <2>2. w.index # LeafIndex
    <3>1. Relocated(v, to).index = v.index
      BY <2>1 DEF Inner
    <3> QED
      BY <1>2, <3>1 DEF Relocated
  <2>3. Relocated(w, to) = Inner(w.index, NewPlace(to, w.lo), NewPlace(to, w.hi))
    BY <2>2, ShapedFacts, RelocatedInner
  <2>4. v.index = w.index /\ NewPlace(to, v.lo) = NewPlace(to, w.lo)
        /\ NewPlace(to, v.hi) = NewPlace(to, w.hi)
    <3>1. Inner(v.index, NewPlace(to, v.lo), NewPlace(to, v.hi)) =
            Inner(w.index, NewPlace(to, w.lo), NewPlace(to, w.hi))
      BY <2>1, <2>3
    <3> QED
      BY <3>1, InnerSame
  <2>5. v.lo = w.lo /\ v.hi = w.hi
    BY <1>2, <2>2, <2>4, ShapedFacts
  <2> QED
    BY <1>2, <2>2, <2>4, <2>5, ShapedFacts
<1> QED
  BY <1>1, <1>2

LEMMA TypedSeq ==
    ASSUME NEW S, NEW n \in Nat, NEW s \in [1..n -> S]
    PROVE  s \in Seq(S) /\ Len(s) = n
OBVIOUS

LEMMA AppendFacts ==
    ASSUME NEW S, NEW s \in Seq(S), NEW x \in S
    PROVE  /\ Append(s, x) \in Seq(S)
           /\ Len(s) \in Nat /\ Len(Append(s, x)) = Len(s) + 1
           /\ DOMAIN s = 1..Len(s) /\ DOMAIN Append(s, x) = 1..Len(s)+1
           /\ DOMAIN Append(s, x) = DOMAIN s \cup {Len(s) + 1}
           /\ \A k \in DOMAIN s : Append(s, x)[k] = s[k]
           /\ Append(s, x)[Len(s) + 1] = x
           /\ Len(s) + 1 \notin DOMAIN s
OBVIOUS

\* A new node may be put into a table.
LEMMA PutSound ==
    ASSUME NEW t, Sound(t), NEW node, Fits(t, node), \A a \in DOMAIN t : t[a] # node
    PROVE  /\ Sound(Append(t, node))
           /\ \A a \in DOMAIN t : a \in DOMAIN Append(t, node) /\ Append(t, node)[a] = t[a]
<1> DEFINE u == Append(t, node)
           e == Len(t) + 1
<1>1. t \in Seq(Nodes) /\ DOMAIN t \in SUBSET Nat
  BY DEF Sound, Ordered
<1>2. node \in Nodes
  BY <1>1, ShapedFacts DEF Fits
<1>3. /\ u \in Seq(Nodes) /\ DOMAIN u = DOMAIN t \cup {e}
      /\ \A k \in DOMAIN t : u[k] = t[k]
      /\ u[e] = node /\ e \notin DOMAIN t
  BY <1>1, <1>2, AppendFacts
<1> HIDE DEF u, e
<1>4. ASSUME NEW a \in DOMAIN u
      PROVE  LeafAt(u, a) \/ InnerAt(u, DOMAIN u, a)
  <2>1. CASE a \in DOMAIN t
    <3>1. LeafAt(t, a) \/ InnerAt(t, DOMAIN t, a)
      BY <2>1 DEF Sound, Ordered
    <3> QED
      BY <1>3, <2>1, <3>1 DEF LeafAt, InnerAt
  <2>2. CASE a = e
    <3>1. CASE node.index = LeafIndex
      BY <1>1, <1>3, <2>2, <3>1, ShapedFacts DEF Fits, LeafAt
    <3>2. CASE node.index # LeafIndex
      <4>1. /\ node = Inner(node.index, node.lo, node.hi)
            /\ node.index \in 0..Vars-1 /\ node.lo \in DOMAIN t /\ node.hi \in DOMAIN t
            /\ node.index < t[node.lo].index /\ node.index < t[node.hi].index
        BY <1>1, <3>2, ShapedFacts DEF Fits
      <4> QED
        BY <1>3, <2>2, <4>1 DEF InnerAt
    <3> QED
      BY <3>1, <3>2
  <2> QED
    BY <1>3, <2>1, <2>2
<1>5. Reduced(u)
  <2>1. \A a, b \in DOMAIN u : u[a] = u[b] => a = b
    BY <1>3 DEF Sound, Reduced
  <2>2. \A a \in DOMAIN u : u[a].index # LeafIndex => u[a].lo # u[a].hi
    BY <1>3 DEF Sound, Reduced, Fits
  <2> QED
    BY <2>1, <2>2 DEF Reduced
<1>6. Sound(u)
  BY <1>3, <1>4, <1>5 DEF Sound, Ordered
<1> QED
  BY <1>3, <1>6 DEF u

\* The table that is left after a move.
Shifted(t, K, n, u, to) ==
    /\ u = [b \in 1..n |-> u[b]]
    /\ \A b \in 1..n : \E a \in K : to[a] = b /\ u[b] = Relocated(t[a], to)

LEMMA ShiftSound ==
    ASSUME NEW t, Sound(t), NEW K, Ordered(t, K), NEW n, NEW to, Places(t, K, n, to),
           NEW u, Shifted(t, K, n, u, to)
    PROVE  /\ Sound(u) /\ Carries(t, K, u, DOMAIN u, to)
           /\ \A a, b \in K : NewPlace(to, a) = NewPlace(to, b) => a = b
<1>0. /\ n \in Nat /\ to \in [DOMAIN t -> Nat]
      /\ \A a \in K : to[a] \in 1..n
      /\ \A a, b \in K : to[a] = to[b] => a = b
  BY DEF Places
<1>1. t \in Seq(Nodes) /\ K \subseteq DOMAIN t /\ K \in SUBSET Nat /\ DOMAIN t = 1..Len(t)
      /\ Len(t) \in Nat
  BY DEF Ordered
<1>2. DOMAIN u = 1..n
  BY DEF Shifted
<1>3. \A a \in K : NewPlace(to, a) = to[a] /\ to[a] \in DOMAIN u
  BY <1>0, <1>1, <1>2 DEF NewPlace
<1>4. ASSUME NEW a \in K
      PROVE  u[to[a]] = Relocated(t[a], to)
  BY <1>0, <1>2, <1>3 DEF Shifted
<1>5. NewPlace(to, Nowhere) = Nowhere /\ NewPlace(to, GoingLeft) = GoingLeft
  BY <1>1 DEF NewPlace, Nowhere, GoingLeft
<1>6. ASSUME NEW a \in K
      PROVE  /\ u[to[a]].index = t[a].index
             /\ u[to[a]] \in Nodes
             /\ LeafAt(u, to[a]) \/ InnerAt(u, DOMAIN u, to[a])
             /\ u[to[a]].index # LeafIndex => u[to[a]].lo # u[to[a]].hi
  <2>1. CASE t[a].index = LeafIndex
    <3>1. t[a] = Leaf(t[a].value) /\ t[a] \in Nodes
      BY <1>1, <2>1, OrderedFacts, NodeFacts DEF LeafAt
    <3>2. u[to[a]] = t[a]
      BY <1>4, <3>1, RelocatedLeaf
    <3> QED
      BY <2>1, <3>1, <3>2 DEF LeafAt
  <2>2. CASE t[a].index # LeafIndex
    <3>1. InnerAt(t, K, a)
      BY <2>2, OrderedFacts
    <3>2. t[a] = Inner(t[a].index, t[a].lo, t[a].hi) /\ t[a].lo \in K /\ t[a].hi \in K
          /\ t[a].index \in 0..Vars-1
          /\ t[a].index < t[t[a].lo].index
          /\ t[a].index < t[t[a].hi].index
      BY <3>1 DEF InnerAt
    <3>3. u[to[a]] = Inner(t[a].index, to[t[a].lo], to[t[a].hi])
      BY <1>3, <1>4, <2>2, <3>2, RelocatedInner
    <3>4. u[to[a]].index = t[a].index /\ u[to[a]].lo = to[t[a].lo] /\ u[to[a]].hi = to[t[a].hi]
      BY <3>3 DEF Inner
    <3>5. ASSUME NEW b \in K
          PROVE  u[to[b]].index = t[b].index
      <4>1. u[to[b]] = Relocated(t[b], to)
        BY <1>4
      <4>2. t[b] \in Nodes
        BY <1>1
      <4>3. Relocated(t[b], to).index = t[b].index
        BY <4>2 DEF Relocated, Nodes
      <4> QED
        BY <4>1, <4>3
    <3>6. InnerAt(u, DOMAIN u, to[a])
      BY <1>3, <3>2, <3>3, <3>4, <3>5 DEF InnerAt
    <3>7. u[to[a]] \in Nodes
      <4>1. t[a].index \in -1..Vars
        BY <3>2, VarsFacts
      <4>2. to[t[a].lo] \in Nat /\ to[t[a].hi] \in Nat
        BY <1>0, <1>1, <3>2
      <4> QED
        BY <3>3, <4>1, <4>2, InnerFacts
    <3>8. to[t[a].lo] # to[t[a].hi]
      <4>1. t[a].lo # t[a].hi
        BY <1>1, <2>2 DEF Sound, Reduced
      <4> QED
        BY <1>0, <3>2, <4>1
    <3> QED
      BY <3>4, <3>6, <3>7, <3>8
  <2> QED
    BY <2>1, <2>2
<1>7. \A b \in DOMAIN u : \E a \in K : to[a] = b
  BY <1>2 DEF Shifted
<1>8. Ordered(u, DOMAIN u)
  <2>1. \A b \in DOMAIN u : u[b] \in Nodes /\ (LeafAt(u, b) \/ InnerAt(u, DOMAIN u, b))
    BY <1>6, <1>7
  <2>2. u \in Seq(Nodes)
    <3>1. u \in [1..n -> Nodes]
      BY <1>2, <2>1 DEF Shifted
    <3> QED
      BY <1>0, <3>1
  <2> QED
    BY <2>1, <2>2 DEF Ordered
<1>9. Reduced(u)
  <2>1. ASSUME NEW a \in K, NEW b \in K, u[to[a]] = u[to[b]]
        PROVE  a = b
    <3>1. Shaped(K, t[a]) /\ Shaped(K, t[b])
      BY OrderedShaped
    <3>2. Relocated(t[a], to) = Relocated(t[b], to)
      BY <1>4, <2>1
    <3>3. \A x, y \in K : NewPlace(to, x) = NewPlace(to, y) => x = y
      BY <1>0, <1>3
    <3>4. t[a] = t[b]
      BY <1>1, <3>1, <3>2, <3>3, RelocatedDiffer
    <3> QED
      BY <1>1, <3>4 DEF Sound, Reduced
  <2>2. \A c, d \in DOMAIN u : u[c] = u[d] => c = d
    BY <1>7, <2>1
  <2>3. \A c \in DOMAIN u : u[c].index # LeafIndex => u[c].lo # u[c].hi
    BY <1>6, <1>7
  <2> QED
    BY <2>2, <2>3 DEF Reduced
<1>10. Carries(t, K, u, DOMAIN u, to)
  BY <1>3, <1>4, <1>5, <1>8 DEF Carries
<1> QED
  BY <1>0, <1>3, <1>8, <1>9, <1>10 DEF Sound
\* In g there is what was needed of m: where it was, or where to says.
Kept(m, K, g, to) ==
    /\ Carries(m.table, K, g.table, DOMAIN g.table, to)
    /\ ToSet(m.roots) \subseteq K
    /\ g.roots = [n \in DOMAIN m.roots |-> NewPlace(to, m.roots[n])]
    /\ to = <<>> => K = DOMAIN m.table /\ g.cache = m.cache
    /\ to # <<>> => g.cache = <<>>

FoundRight(m, node, list, f) ==
    /\ f.m \in Managers /\ Sound(f.m.table)
    /\ f.at \in DOMAIN f.m.table /\ f.m.table[f.at] = Relocated(node, f.to)
    /\ f.list = [k \in DOMAIN list |-> NewPlace(f.to, list[k])]
    /\ \E K : /\ Kept(m, K, f.m, f.to)
              /\ Children(node) \subseteq K /\ ToSet(list) \ {GoingLeft} \subseteq K

LEMMA ManagerFacts ==
    ASSUME NEW m \in Managers
    PROVE  /\ m.table \in Seq(Nodes) /\ m.roots \in Seq(Nat) /\ m.trigger \in Nat
           /\ m.cache \in Caches
           /\ m = [table |-> m.table, roots |-> m.roots, trigger |-> m.trigger, cache |-> m.cache]
BY DEF Managers

LEMMA EmptyCache == <<>> \in Caches /\ DOMAIN <<>> = {}
<1>1. DOMAIN <<>> = {}
  OBVIOUS
<1>2. <<>> \in [{} -> Nat \ {0}]
  OBVIOUS
<1> QED
  BY <1>1, <1>2 DEF Caches

\* Nothing moves, and the node is there or is put there.
LEMMA StayRight ==
    ASSUME NEW m \in Managers, Sound(m.table), ToSet(m.roots) \subseteq DOMAIN m.table,
           NEW node, Fits(m.table, node),
           NEW list \in Seq(DOMAIN m.table \cup {GoingLeft}),
           NEW f,
           \/ f = [m |-> m, list |-> list, to |-> <<>>, at |-> f.at] 
              /\ f.at \in DOMAIN m.table /\ m.table[f.at] = node
           \/ f = [m |-> Put(m, node), list |-> list, to |-> <<>>, at |-> Len(m.table) + 1]
              /\ \A a \in DOMAIN m.table : m.table[a] # node
    PROVE  FoundRight(m, node, list, f)
<1> DEFINE t == m.table
           K == DOMAIN t
<1>1. t \in Seq(Nodes) /\ K \in SUBSET Nat
  BY ManagerFacts
<1>2. node \in Nodes
  BY <1>1, ShapedFacts DEF Fits
<1>3. Relocated(node, <<>>) = node /\ \A a : NewPlace(<<>>, a) = a
  BY <1>2, StayFacts
<1>4. f.to = <<>> /\ f.list = list
  OBVIOUS
<1>5. /\ f.m \in Managers /\ Sound(f.m.table)
      /\ f.m.roots = m.roots /\ f.m.cache = m.cache
      /\ f.at \in DOMAIN f.m.table /\ f.m.table[f.at] = node
      /\ \A a \in K : a \in DOMAIN f.m.table /\ f.m.table[a] = t[a]
  <2>1. CASE f = [m |-> m, list |-> list, to |-> <<>>, at |-> f.at] 
             /\ f.at \in DOMAIN m.table /\ m.table[f.at] = node
    <3>1. f.m = m
      BY <2>1
    <3> QED
      BY <2>1, <3>1
  <2>2. CASE f = [m |-> Put(m, node), list |-> list, to |-> <<>>, at |-> Len(m.table) + 1]
             /\ \A a \in DOMAIN m.table : m.table[a] # node
    <3>1. f.m = Put(m, node) /\ f.at = Len(t) + 1
      BY <2>2
    <3>2. /\ Put(m, node).table = Append(t, node) /\ Put(m, node).roots = m.roots
          /\ Put(m, node).cache = m.cache
          /\ Append(t, node) \in Seq(Nodes) => Put(m, node) \in Managers
      BY ManagerFacts DEF Put, Managers
    <3>3. /\ Append(t, node) \in Seq(Nodes)
          /\ Len(t) + 1 \in DOMAIN Append(t, node) /\ Append(t, node)[Len(t) + 1] = node
      BY <1>1, <1>2, AppendFacts
    <3>4. /\ Sound(Append(t, node))
          /\ \A a \in K : a \in DOMAIN Append(t, node) /\ Append(t, node)[a] = t[a]
      BY <2>2, PutSound
    <3> QED
      BY <3>1, <3>2, <3>3, <3>4
  <2> QED
    BY <2>1, <2>2
<1>6. Carries(t, K, f.m.table, DOMAIN f.m.table, <<>>)
  <2>1. Ordered(t, K) /\ Ordered(f.m.table, DOMAIN f.m.table)
    BY <1>5 DEF Sound
  <2>2. \A a \in K : Relocated(t[a], <<>>) = t[a]
    BY <1>1, StayFacts
  <2> QED
    BY <1>3, <1>5, <2>1, <2>2 DEF Carries
<1>7. f.m.roots = [n \in DOMAIN m.roots |-> NewPlace(<<>>, m.roots[n])]
  <2>1. m.roots = [n \in DOMAIN m.roots |-> m.roots[n]]
    BY ManagerFacts
  <2> QED
    BY <1>3, <1>5, <2>1
<1>8. f.list = [k \in DOMAIN list |-> NewPlace(<<>>, list[k])]
  <2>1. list = [k \in DOMAIN list |-> list[k]]
    OBVIOUS
  <2> QED
    BY <1>3, <1>4, <2>1
<1>9. ToSet(list) \ {GoingLeft} \subseteq K
  BY DEF ToSet
<1>10. Children(node) \subseteq K
  BY <1>1, ShapedFacts DEF Fits, Children
<1>11. Kept(m, K, f.m, f.to)
  BY <1>4, <1>5, <1>6, <1>7 DEF Kept
<1> QED
  BY <1>3, <1>4, <1>5, <1>8, <1>9, <1>10, <1>11 DEF FoundRight

\* What is needed moves to a table of its own, and the node is put there.
LEMMA DoubledRight ==
    ASSUME NEW m \in Managers, Sound(m.table), ToSet(m.roots) \subseteq DOMAIN m.table,
           NEW node, Fits(m.table, node), \A a \in DOMAIN m.table : m.table[a] # node,
           NEW list \in Seq(DOMAIN m.table \cup {GoingLeft}),
           NEW turn \in Nat, Len(m.table) > 0,
           NEW to, to = Moved(m.table, Live(m.table, Rooted(m, node, list)), turn),
           NEW g, g = Put(Doubled(m, to), Relocated(node, to)),
           NEW f, f = [m |-> g, list |-> [k \in DOMAIN list |-> NewPlace(to, list[k])],
                       to |-> to, at |-> Len(g.table)]
    PROVE  FoundRight(m, node, list, f)
<1> DEFINE t == m.table
           S == Rooted(m, node, list)
           K == Live(t, S)
           n == Cardinality(K)
           from(b) == CHOOSE a \in DOMAIN to : to[a] = b
           u == [b \in 1..n |-> Relocated(t[from(b)], to)]
           x == Relocated(node, to)
<1>1. t \in Seq(Nodes) /\ DOMAIN t \in SUBSET Nat /\ DOMAIN t = 1..Len(t) /\ Len(t) \in Nat
  BY ManagerFacts
<1>2. S \in SUBSET DOMAIN t
  <2>1. ToSet(list) \ {GoingLeft} \subseteq DOMAIN t
    BY DEF ToSet
  <2>2. Children(node) \subseteq DOMAIN t
    BY <1>1, ShapedFacts DEF Fits, Children
  <2> QED
    BY <2>1, <2>2 DEF Rooted
<1>3. S \subseteq K /\ K \subseteq DOMAIN t /\ Ordered(t, K)
  BY <1>2, LiveFacts DEF Sound
<1> HIDE DEF S
<1>0. Places(t, K, n, to)
  <2> HIDE DEF K, t
  <2>1. to = Moved(t, K, turn)
    BY DEF S, K, t
  <2> QED
    BY <1>1, <1>3, <2>1, MovedFacts
<1>4. /\ n \in Nat /\ to \in [DOMAIN t -> Nat]
      /\ \A a \in DOMAIN t : to[a] # Nowhere <=> a \in K
      /\ \A a \in K : to[a] \in 1..n
      /\ \A b \in 1..n : \E a \in K : to[a] = b
  BY <1>0 DEF Places
<1>5. {a \in DOMAIN to : to[a] # Nowhere} = K
  BY <1>3, <1>4
<1>6. Doubled(m, to) = [table |-> u, roots |-> [k \in DOMAIN m.roots |-> to[m.roots[k]]],
                        trigger |-> 2 * m.trigger, cache |-> <<>>]
  BY <1>5 DEF Doubled
<1> HIDE DEF K, n
<1>7. \A b \in 1..n : \E a \in K : to[a] = b /\ u[b] = Relocated(t[a], to)
  <2> SUFFICES ASSUME NEW b \in 1..n
               PROVE  \E a \in K : to[a] = b /\ u[b] = Relocated(t[a], to)
    OBVIOUS
  <2>1. \E a \in DOMAIN to : to[a] = b
    BY <1>3, <1>4
  <2>2. from(b) \in DOMAIN to /\ to[from(b)] = b
    BY <2>1
  <2>3. from(b) \in K
    <3>1. b # Nowhere
      BY <1>4 DEF Nowhere
    <3> QED
      BY <1>4, <2>2, <3>1
  <2>4. u[b] = Relocated(t[from(b)], to)
    OBVIOUS
  <2> QED
    BY <2>2, <2>3, <2>4
<1>8. u = [b \in 1..n |-> u[b]] /\ DOMAIN u = 1..n
  OBVIOUS
<1> HIDE DEF u, from
<1>9. /\ Sound(u) /\ Carries(t, K, u, DOMAIN u, to)
      /\ \A a, b \in K : NewPlace(to, a) = NewPlace(to, b) => a = b
  <2> HIDE DEF t
  <2>1. Sound(t)
    BY DEF t
  <2>2. Shifted(t, K, n, u, to)
    BY <1>7, <1>8 DEF Shifted
  <2> QED
    BY <1>0, <1>3, <2>1, <2>2, ShiftSound
<1>10. Children(node) \subseteq K /\ ToSet(list) \ {GoingLeft} \subseteq K /\ ToSet(m.roots) \subseteq K
  BY <1>3 DEF S, Rooted
<1>11. Shaped(DOMAIN t, node) /\ Shaped(K, node)
  <2>1. Shaped(DOMAIN t, node)
    BY DEF Fits
  <2>2. CASE node.index = LeafIndex
    <3>1. node = Leaf(node.value) /\ node.value \in SUBSET Elements
      BY <1>1, <2>1, <2>2, ShapedFacts
    <3> QED
      BY <2>1, <3>1 DEF Shaped
  <2>3. CASE node.index # LeafIndex
    <3>1. /\ node = Inner(node.index, node.lo, node.hi) /\ node.index \in 0..Vars-1
          /\ Children(node) = {node.lo, node.hi}
      BY <1>1, <2>1, <2>3, ShapedFacts
    <3>2. node.lo \in K /\ node.hi \in K
      BY <1>10, <3>1
    <3> QED
      BY <2>1, <3>1, <3>2 DEF Shaped
  <2> QED
    BY <2>2, <2>3
<1>12. Fits(u, x)
  <2>1. CASE node.index = LeafIndex
    <3>1. x = node /\ node = Leaf(node.value) /\ node.value \in SUBSET Elements
      BY <1>1, <1>11, <2>1, ShapedFacts DEF Relocated
    <3>2. Shaped(DOMAIN u, x)
      BY <3>1 DEF Shaped
    <3> QED
      BY <2>1, <3>1, <3>2 DEF Fits
  <2>2. CASE node.index # LeafIndex
    <3>1. /\ node = Inner(node.index, node.lo, node.hi) /\ node.index \in 0..Vars-1
          /\ node.lo \in K /\ node.hi \in K
      <4>1. K \in SUBSET Nat
        BY <1>1, <1>3
      <4> QED
        BY <1>11, <2>2, <4>1, ShapedFacts
    <3>2. x = Inner(node.index, NewPlace(to, node.lo), NewPlace(to, node.hi))
      <4>1. Relocated(Inner(node.index, node.lo, node.hi), to)
              = Inner(node.index, NewPlace(to, node.lo), NewPlace(to, node.hi))
        BY <2>2, RelocatedInner
      <4> QED
        BY <3>1, <4>1
    <3>3. x.index = node.index /\ x.lo = NewPlace(to, node.lo) /\ x.hi = NewPlace(to, node.hi)
      BY <3>2 DEF Inner
    <3>4. /\ NewPlace(to, node.lo) \in DOMAIN u /\ NewPlace(to, node.hi) \in DOMAIN u
          /\ u[NewPlace(to, node.lo)].index = t[node.lo].index
          /\ u[NewPlace(to, node.hi)].index = t[node.hi].index
      BY <1>9, <3>1, CarriedNode
    <3>5. node.index < t[node.lo].index /\ node.index < t[node.hi].index /\ node.lo # node.hi
      BY <2>2 DEF Fits
    <3>6. NewPlace(to, node.lo) # NewPlace(to, node.hi)
      BY <1>9, <3>1, <3>5
    <3> HIDE DEF x
    <3>7. Shaped(DOMAIN u, x)
      BY <3>1, <3>2, <3>3, <3>4 DEF Shaped
    <3> QED
      BY <3>3, <3>4, <3>5, <3>6, <3>7 DEF Fits
  <2> QED
    BY <2>1, <2>2
<1>13. \A b \in DOMAIN u : u[b] # x
  <2> SUFFICES ASSUME NEW b \in DOMAIN u, u[b] = x
               PROVE  FALSE
    OBVIOUS
  <2>1. PICK a \in K : u[b] = Relocated(t[a], to)
    BY <1>7, <1>8
  <2>2. Shaped(K, t[a]) /\ K \in SUBSET Nat
    BY <1>1, <1>3, OrderedShaped
  <2>3. t[a] = node
    BY <1>9, <1>11, <2>1, <2>2, RelocatedDiffer
  <2> QED
    BY <1>3, <2>3
<1>14. /\ Sound(Append(u, x))
       /\ \A a \in DOMAIN u : a \in DOMAIN Append(u, x) /\ Append(u, x)[a] = u[a]
  BY <1>9, <1>12, <1>13, PutSound
<1>15. u \in Seq(Nodes) /\ x \in Nodes
  <2>1. u \in Seq(Nodes)
    BY <1>9 DEF Sound, Ordered
  <2>2. DOMAIN u \in SUBSET Nat
    BY <1>8
  <2> QED
    BY <1>12, <2>1, <2>2, ShapedFacts DEF Fits
<1>16. /\ g.table = Append(u, x) /\ g.cache = <<>> /\ g.trigger = 2 * m.trigger
       /\ g.roots = [k \in DOMAIN m.roots |-> to[m.roots[k]]]
       /\ g = [table |-> g.table, roots |-> g.roots, trigger |-> g.trigger, cache |-> g.cache]
  <2> HIDE DEF x
  <2>1. g = Put(Doubled(m, to), x)
    BY DEF x
  <2>2. g = [Doubled(m, to) EXCEPT !.table = Append(Doubled(m, to).table, x)]
    BY <2>1 DEF Put
  <2>3. Doubled(m, to).table = u
    BY <1>6
  <2>4. g = [table |-> Append(u, x), roots |-> [k \in DOMAIN m.roots |-> to[m.roots[k]]],
             trigger |-> 2 * m.trigger, cache |-> <<>>]
    <3> DEFINE d == Doubled(m, to)
               r == [k \in DOMAIN m.roots |-> to[m.roots[k]]]
               c == 2 * m.trigger
    <3>1. d = [table |-> u, roots |-> r, trigger |-> c, cache |-> <<>>]
      BY <1>6
    <3>2. g = [d EXCEPT !.table = Append(u, x)]
      BY <2>2, <2>3
    <3> HIDE DEF d, r, c
    <3>3. g = [table |-> Append(u, x), roots |-> r, trigger |-> c, cache |-> <<>>]
      BY <3>1, <3>2
    <3> QED
      BY <3>3 DEF r, c
  <2> QED
    BY <2>4
<1>17. /\ g.table \in Seq(Nodes) /\ Len(g.table) \in DOMAIN g.table
       /\ g.table[Len(g.table)] = x
  BY <1>15, <1>16, AppendFacts
<1>18. g.roots = [k \in DOMAIN m.roots |-> NewPlace(to, m.roots[k])] /\ g.roots \in Seq(Nat)
  <2>1. ASSUME NEW k \in DOMAIN m.roots
        PROVE  to[m.roots[k]] = NewPlace(to, m.roots[k]) /\ to[m.roots[k]] \in Nat
    <3>1. m.roots[k] \in DOMAIN t
      BY DEF ToSet
    <3> QED
      BY <1>4, <3>1 DEF NewPlace
  <2>2. m.roots \in Seq(Nat) /\ DOMAIN m.roots = 1..Len(m.roots) /\ Len(m.roots) \in Nat
    BY ManagerFacts
  <2>3. g.roots \in [1..Len(m.roots) -> Nat]
    BY <1>16, <2>1, <2>2
  <2>4. g.roots \in Seq(Nat)
    <3> DEFINE k == Len(m.roots)
               r == g.roots
    <3>1. k \in Nat /\ r \in [1..k -> Nat]
      BY <2>2, <2>3
    <3> HIDE DEF k, r
    <3>2. r \in Seq(Nat)
      BY <3>1
    <3> QED
      BY <3>2 DEF r
  <2> QED
    BY <1>16, <2>1, <2>4
<1>19. g \in Managers
  <2>1. g.trigger \in Nat
    BY <1>16, ManagerFacts
  <2> QED
    BY <1>16, <1>17, <1>18, <2>1, EmptyCache DEF Managers
<1>20. to # <<>>
  <2>1. 1 \in DOMAIN to
    BY <1>1, <1>4
  <2> QED
    BY <2>1, EmptyCache
<1>21. Carries(t, K, g.table, DOMAIN g.table, to)
  <2>1. \A a \in K : NewPlace(to, a) \in DOMAIN u /\ u[NewPlace(to, a)] = Relocated(t[a], to)
    BY <1>9 DEF Carries
  <2>2. Ordered(g.table, DOMAIN g.table)
    BY <1>14, <1>16 DEF Sound
  <2> QED
    BY <1>9, <1>14, <1>16, <2>1, <2>2 DEF Carries
<1>22. Kept(m, K, g, to)
  BY <1>10, <1>16, <1>18, <1>20, <1>21 DEF Kept
<1>23. f.m = g /\ f.to = to /\ f.at = Len(g.table)
       /\ f.list = [k \in DOMAIN list |-> NewPlace(to, list[k])]
  OBVIOUS
<1> QED
  BY <1>10, <1>14, <1>16, <1>17, <1>19, <1>22, <1>23 DEF FoundRight

LEMMA FindRight ==
    ASSUME NEW m \in Managers, Sound(m.table), ToSet(m.roots) \subseteq DOMAIN m.table,
           NEW node, Fits(m.table, node),
           NEW list \in Seq(DOMAIN m.table \cup {GoingLeft}),
           NEW f \in Find(m, node, list)
    PROVE  FoundRight(m, node, list, f)
<1>1. CASE \E a \in DOMAIN m.table : m.table[a] = node
  <2> DEFINE a == CHOOSE a \in DOMAIN m.table : m.table[a] = node
  <2>1. a \in DOMAIN m.table /\ m.table[a] = node
    BY <1>1
  <2>2. f = [m |-> m, list |-> list, to |-> <<>>, at |-> a]
    BY <1>1 DEF Find
  <2> HIDE DEF a
  <2>3. f.at = a
    BY <2>2
  <2> QED
    BY <2>1, <2>2, <2>3, StayRight
<1>2. CASE ~ \E a \in DOMAIN m.table : m.table[a] = node
  <2>1. CASE f = [m |-> Put(m, node), list |-> list, to |-> <<>>, at |-> Len(m.table) + 1]
    BY <1>2, <2>1, StayRight
  <2>2. CASE f # [m |-> Put(m, node), list |-> list, to |-> <<>>, at |-> Len(m.table) + 1]
    <3> DEFINE goes(turn) == Moved(m.table, Live(m.table, Rooted(m, node, list)), turn)
               puts(to) == Put(Doubled(m, to), Relocated(node, to))
               ends(to) == [m |-> puts(to), list |-> [k \in DOMAIN list |-> NewPlace(to, list[k])],
                            to |-> to, at |-> Len(puts(to).table)]
    <3>1. PICK turn \in {n \in Turns : Len(m.table) > m.trigger} : f = ends(goes(turn))
      BY <1>2, <2>2 DEF Find
    <3>2. turn \in Nat /\ Len(m.table) > 0
      BY <3>1, ManagerFacts, TableAssumption
    <3> HIDE DEF goes, puts
    <3>3. goes(turn) = Moved(m.table, Live(m.table, Rooted(m, node, list)), turn)
      BY DEF goes
    <3>4. puts(goes(turn)) = Put(Doubled(m, goes(turn)), Relocated(node, goes(turn)))
      BY DEF puts
    <3> QED
      BY <1>2, <3>1, <3>2, <3>3, <3>4, DoubledRight
  <2> QED
    BY <2>1, <2>2
<1> QED
  BY <1>1, <1>2

\* The node that was found denotes what it should.
LEMMA FoundMeans ==
    ASSUME NEW m, NEW node, NEW list, NEW f, m.table \in Seq(Nodes),
           FoundRight(m, node, list, f), Fits(m.table, node)
    PROVE  /\ f.m.table[f.at].index = node.index
           /\ Means(f.m.table, f.at) = NodeMeans(m.table, node)
<1> DEFINE t == m.table
           u == f.m.table
<1>1. /\ Ordered(u, DOMAIN u) /\ f.at \in DOMAIN u /\ u[f.at] = Relocated(node, f.to)
  BY DEF FoundRight, Sound
<1>2. PICK K : Carries(t, K, u, DOMAIN u, f.to) /\ Children(node) \subseteq K
  BY DEF FoundRight, Kept
<1>3. DOMAIN t \in SUBSET Nat /\ Shaped(DOMAIN t, node)
  BY DEF Fits
<1>4. CASE node.index = LeafIndex
  <2>1. u[f.at] = node
    BY <1>1, <1>4 DEF Relocated
  <2>2. Means(u, f.at) = [l \in Letters |-> u[f.at].value]
    BY <1>1, <1>4, <2>1, LeafMeans
  <2> QED
    BY <1>4, <2>1, <2>2 DEF NodeMeans
<1>5. CASE node.index # LeafIndex
  <2>1. /\ node = Inner(node.index, node.lo, node.hi)
        /\ node.lo \in K /\ node.hi \in K
    BY <1>2, <1>3, <1>5, ShapedFacts
  <2>2. u[f.at] = Inner(node.index, NewPlace(f.to, node.lo), NewPlace(f.to, node.hi))
    <3>1. Relocated(Inner(node.index, node.lo, node.hi), f.to)
              = Inner(node.index, NewPlace(f.to, node.lo), NewPlace(f.to, node.hi))
      BY <1>5, RelocatedInner
    <3> QED
      BY <1>1, <2>1, <3>1
  <2>3. /\ u[f.at].index = node.index /\ u[f.at].lo = NewPlace(f.to, node.lo)
        /\ u[f.at].hi = NewPlace(f.to, node.hi)
    BY <2>2 DEF Inner
  <2>4. InnerAt(u, DOMAIN u, f.at)
    BY <1>1, <1>5, <2>3, OrderedFacts
  <2>5. Means(u, f.at) = Choice(u[f.at].index, Means(u, u[f.at].lo), Means(u, u[f.at].hi))
    BY <1>1, <2>4, Cofactor
  <2>6. /\ Means(u, NewPlace(f.to, node.lo)) = Means(t, node.lo)
        /\ Means(u, NewPlace(f.to, node.hi)) = Means(t, node.hi)
    BY <1>2, <2>1, CarriedMeans
  <2> QED
    BY <1>5, <2>3, <2>5, <2>6 DEF NodeMeans
<1> QED
  BY <1>4, <1>5
-----------------------------------------------------------------------------
(* What the operations make of what nodes denote.                            *)

Bit(left) == IF left THEN 0 ELSE 1

LEMMA ResultTypes ==
    ASSUME NEW f \in Denotations, NEW g \in Denotations, NEW i \in 0..Vars-1
    PROVE  /\ Joined(f, g) \in Denotations /\ Imaged(f) \in Denotations
           /\ Guessed(f, i) \in Denotations
           /\ Guessed(f, i) = Joined(Fixed(f, i, 0), Fixed(f, i, 1))
           /\ Joined(f, f) = f
<1>1. Joined(f, g) \in Denotations
  BY DEF Denotations, Joined, Join
<1>2. Imaged(f) \in Denotations
  BY VarsFacts DEF Denotations, Imaged
<1>3. Guessed(f, i) = Joined(Fixed(f, i, 0), Fixed(f, i, 1))
  BY DEF Guessed, Joined, Fixed
<1>4. Guessed(f, i) \in Denotations
  <2>1. Fixed(f, i, 0) \in Denotations /\ Fixed(f, i, 1) \in Denotations
    BY FixedType
  <2> QED
    BY <1>3, <2>1 DEF Denotations, Joined, Join
<1>5. Joined(f, f) = f
  BY DEF Denotations, Joined, Join
<1> QED
  BY <1>1, <1>2, <1>3, <1>4, <1>5

LEMMA FixedResults ==
    ASSUME NEW f \in Denotations, NEW g \in Denotations, NEW i \in 0..Vars-1, NEW b \in {0, 1}
    PROVE  /\ Fixed(Joined(f, g), i, b) = Joined(Fixed(f, i, b), Fixed(g, i, b))
           /\ Fixed(Imaged(f), i, b) = Imaged(Fixed(f, i, b))
<1>1. \A l \in Letters : [l EXCEPT ![i] = b] \in Letters
  BY LetterFacts
<1>2. Fixed(Joined(f, g), i, b) = Joined(Fixed(f, i, b), Fixed(g, i, b))
  BY <1>1 DEF Fixed, Joined
<1>3. Fixed(Imaged(f), i, b) = Imaged(Fixed(f, i, b))
  BY <1>1 DEF Fixed, Imaged
<1> QED
  BY <1>2, <1>3

LEMMA FixedTwice ==
    ASSUME NEW f \in Denotations, NEW i \in 0..Vars-1, NEW j \in 0..Vars-1, i # j,
           NEW b \in {0, 1}, NEW c \in {0, 1}
    PROVE  Fixed(Fixed(f, i, b), j, c) = Fixed(Fixed(f, j, c), i, b)
<1>1. ASSUME NEW l \in Letters
      PROVE  /\ [l EXCEPT ![i] = b] \in Letters /\ [l EXCEPT ![j] = c] \in Letters
             /\ [[l EXCEPT ![i] = b] EXCEPT ![j] = c] = [[l EXCEPT ![j] = c] EXCEPT ![i] = b]
  BY DEF Letters
<1> QED
  BY <1>1 DEF Fixed

LEMMA FixedGuessed ==
    ASSUME NEW f \in Denotations, NEW i \in 0..Vars-1, NEW j \in 0..Vars-1, i # j,
           NEW b \in {0, 1}
    PROVE  Fixed(Guessed(f, j), i, b) = Guessed(Fixed(f, i, b), j)
<1>1. Fixed(f, j, 0) \in Denotations /\ Fixed(f, j, 1) \in Denotations /\ Fixed(f, i, b) \in Denotations
  BY FixedType
<1>2. /\ Guessed(f, j) = Joined(Fixed(f, j, 0), Fixed(f, j, 1))
      /\ Guessed(Fixed(f, i, b), j) = Joined(Fixed(Fixed(f, i, b), j, 0), Fixed(Fixed(f, i, b), j, 1))
  BY <1>1, ResultTypes
<1>3. /\ Fixed(Fixed(f, i, b), j, 0) = Fixed(Fixed(f, j, 0), i, b)
      /\ Fixed(Fixed(f, i, b), j, 1) = Fixed(Fixed(f, j, 1), i, b)
  BY FixedTwice
<1>4. Fixed(Joined(Fixed(f, j, 0), Fixed(f, j, 1)), i, b)
        = Joined(Fixed(Fixed(f, j, 0), i, b), Fixed(Fixed(f, j, 1), i, b))
  BY <1>1, FixedResults
<1> QED
  BY <1>2, <1>3, <1>4

-----------------------------------------------------------------------------
(* The nodes a call is for.                                                  *)

LEMMA SideFacts ==
    ASSUME NEW t, NEW L, Ordered(t, L), NEW a \in L, NEW i \in 0..Vars-1, i <= t[a].index,
           NEW left \in BOOLEAN
    PROVE  /\ SideIn(t, a, i, left) \in L
           /\ i < t[SideIn(t, a, i, left)].index
           /\ Means(t, SideIn(t, a, i, left)) = Fixed(Means(t, a), i, Bit(left))
<1>1. a # Nowhere /\ t[a].index \in 0..Vars /\ Bit(left) \in {0, 1}
  BY OrderedFacts DEF Bit
<1>2. CASE t[a].index = i
  <2>1. InnerAt(t, L, a)
    BY <1>2, VarsFacts, OrderedFacts
  <2>2. SideIn(t, a, i, left) = IF left THEN t[a].lo ELSE t[a].hi
    BY <1>1, <1>2 DEF SideIn
  <2>3. /\ Fixed(Means(t, a), t[a].index, 0) = Means(t, t[a].lo)
        /\ Fixed(Means(t, a), t[a].index, 1) = Means(t, t[a].hi)
    BY <2>1, Cofactor
  <2> QED
    BY <1>2, <2>1, <2>2, <2>3 DEF InnerAt, Bit
<1>3. CASE t[a].index # i
  <2>1. i < t[a].index
    BY <1>1, <1>3
  <2>2. SideIn(t, a, i, left) = a
    BY <1>3 DEF SideIn
  <2>3. Fixed(Means(t, a), i, Bit(left)) = Means(t, a)
    BY <1>1, <2>1, FixedAbove
  <2> QED
    BY <2>1, <2>2, <2>3
<1> QED
  BY <1>2, <1>3

LEMMA KeyFacts ==
    ASSUME NEW t, NEW L, Ordered(t, L), NEW kind \in Kinds, NEW key, KeyOK(kind, t, L, key)
    PROVE  /\ key \in Nat \X Nat /\ key = <<key[1], key[2]>>
           /\ key[1] \in L /\ key[1] # Nowhere
           /\ IndexIn(t, key[1]) = t[key[1]].index
           /\ key[2] = Nowhere \/ key[2] \in L
           /\ key[2] # Nowhere => IndexIn(t, key[2]) = t[key[2]].index
           /\ IndexIn(t, key[1]) \in 0..Vars /\ IndexIn(t, key[2]) \in 0..Vars
           /\ KeyIndex(t, key) \in 0..Vars
           /\ KeyIndex(t, key) <= IndexIn(t, key[1]) /\ KeyIndex(t, key) <= IndexIn(t, key[2])
           /\ Means(t, key[1]) \in Denotations
           /\ key[2] # Nowhere => Means(t, key[2]) \in Denotations
<1>1. key = <<key[1], key[2]>> /\ key[1] \in L /\ (key[2] = Nowhere \/ key[2] \in L)
  BY DEF KeyOK, Kinds, Binary
<1>2. L \in SUBSET Nat
  BY DEF Ordered
<1>3. \A a \in L : a # Nowhere /\ t[a].index \in 0..Vars
  BY OrderedFacts
<1>4. key \in Nat \X Nat
  BY <1>1, <1>2 DEF Nowhere
<1>5. /\ IndexIn(t, key[1]) = t[key[1]].index
      /\ key[2] # Nowhere => IndexIn(t, key[2]) = t[key[2]].index
      /\ IndexIn(t, key[1]) \in 0..Vars /\ IndexIn(t, key[2]) \in 0..Vars
  BY <1>1, <1>3, VarsFacts DEF IndexIn
<1>6. /\ KeyIndex(t, key) \in 0..Vars
      /\ KeyIndex(t, key) <= IndexIn(t, key[1]) /\ KeyIndex(t, key) <= IndexIn(t, key[2])
  BY <1>5 DEF KeyIndex
<1>7. Means(t, key[1]) \in Denotations /\ (key[2] # Nowhere => Means(t, key[2]) \in Denotations)
  BY <1>1, MeansType
<1> QED
  BY <1>1, <1>3, <1>4, <1>5, <1>6, <1>7

LEMMA ResultCases ==
    ASSUME NEW t, NEW kind, NEW key
    PROVE  /\ kind = "apply1" => ResultIn(kind, t, key) = Imaged(Means(t, key[1]))
           /\ kind # "apply1" /\ key[2] = Nowhere =>
                ResultIn(kind, t, key) = Guessed(Means(t, key[1]), GuessedIndex)
           /\ kind # "apply1" /\ key[2] # Nowhere =>
                ResultIn(kind, t, key) = Joined(Means(t, key[1]), Means(t, key[2]))
BY DEF ResultIn, ResultFor, Means

LEMMA ResultType ==
    ASSUME NEW t, NEW L, Ordered(t, L), NEW kind \in Kinds, NEW key, KeyOK(kind, t, L, key)
    PROVE  ResultIn(kind, t, key) \in Denotations
BY KeyFacts, ResultCases, ResultTypes, VarsFacts

\* A call for the successors has the result with the letter fixed.
LEMMA SuccFacts ==
    ASSUME NEW t, NEW L, Ordered(t, L), NEW kind \in Kinds,
           NEW key, KeyOK(kind, t, L, key), Proper(kind, t, key),
           NEW i, i = KeyIndex(t, key), i < Vars, NEW left \in BOOLEAN
    PROVE  /\ KeyOK(kind, t, L, SuccIn(t, key, i, left))
           /\ i < KeyIndex(t, SuccIn(t, key, i, left))
           /\ ResultIn(kind, t, SuccIn(t, key, i, left)) = Fixed(ResultIn(kind, t, key), i, Bit(left))
<1> DEFINE a == SideIn(t, key[1], i, left)
           b == SideIn(t, key[2], i, left)
           s == SuccIn(t, key, i, left)
<1>1. /\ key[1] \in L /\ key[1] # Nowhere
      /\ IndexIn(t, key[1]) = t[key[1]].index
      /\ key[2] = Nowhere \/ key[2] \in L
      /\ key[2] # Nowhere => IndexIn(t, key[2]) = t[key[2]].index
      /\ KeyIndex(t, key) \in 0..Vars
      /\ KeyIndex(t, key) <= IndexIn(t, key[1]) /\ KeyIndex(t, key) <= IndexIn(t, key[2])
      /\ Means(t, key[1]) \in Denotations
      /\ key[2] # Nowhere => Means(t, key[2]) \in Denotations
  BY KeyFacts
<1>2. i \in 0..Vars-1 /\ Bit(left) \in {0, 1}
  BY <1>1, VarsFacts DEF Bit
<1>3. a \in L /\ i < t[a].index /\ Means(t, a) = Fixed(Means(t, key[1]), i, Bit(left))
  BY <1>1, <1>2, SideFacts
<1>4. key[2] # Nowhere =>
        b \in L /\ i < t[b].index /\ Means(t, b) = Fixed(Means(t, key[2]), i, Bit(left))
  BY <1>1, <1>2, SideFacts
<1>5. key[2] = Nowhere => b = Nowhere
  BY DEF SideIn
<1>6. s = <<a, b>> /\ s[1] = a /\ s[2] = b
  BY DEF SuccIn
<1> HIDE DEF a, b, s
<1>7. /\ a # Nowhere /\ t[a].index \in 0..Vars
      /\ b # Nowhere => t[b].index \in 0..Vars
      /\ b = Nowhere <=> key[2] = Nowhere
  BY <1>3, <1>4, <1>5, OrderedFacts
<1>8. i < KeyIndex(t, s)
  BY <1>2, <1>3, <1>4, <1>5, <1>6, <1>7, VarsFacts DEF KeyIndex, IndexIn
<1>9. KeyOK(kind, t, L, s)
  <2>1. kind = "project" /\ key[2] # Nowhere => i > GuessedIndex
    BY DEF KeyOK
  <2>2. KeyIndex(t, s) \in Int
    BY <1>6, <1>7, VarsFacts DEF KeyIndex, IndexIn
  <2>3. kind = "project" /\ s[2] # Nowhere => KeyIndex(t, s) > GuessedIndex
    BY <1>2, <1>6, <1>7, <1>8, <2>1, <2>2, VarsFacts
  <2>4. kind \in Binary => s[2] \in L
    <3>1. kind \in Binary => key[2] \in L
      BY DEF KeyOK
    <3>2. key[2] \in L => key[2] # Nowhere
      BY OrderedFacts
    <3> QED
      BY <1>4, <1>6, <3>1, <3>2
  <2>5. kind = "apply1" => s[2] = Nowhere
    BY <1>5, <1>6 DEF KeyOK
  <2> QED
    BY <1>3, <1>4, <1>6, <1>7, <2>3, <2>4, <2>5 DEF KeyOK
<1>10. ResultIn(kind, t, s) = Fixed(ResultIn(kind, t, key), i, Bit(left))
  <2>1. CASE kind = "apply1"
    BY <1>1, <1>2, <1>3, <1>6, <2>1, ResultCases, FixedResults
  <2>2. CASE kind # "apply1" /\ key[2] = Nowhere
    <3>1. i # GuessedIndex
      <4>1. kind = "project"
        <5>1. key[2] \notin L
          BY <2>2, OrderedFacts
        <5> QED
          BY <2>2, <5>1 DEF KeyOK, Kinds, Binary
      <4>2. IndexIn(t, key[1]) # GuessedIndex
        BY <2>2, <4>1 DEF Proper
      <4>3. IndexIn(t, key[2]) = Vars
        BY <2>2, VarsFacts DEF IndexIn
      <4> QED
        BY <1>2, <4>2, <4>3 DEF KeyIndex
    <3>2. /\ ResultIn(kind, t, key) = Guessed(Means(t, key[1]), GuessedIndex)
          /\ ResultIn(kind, t, s) = Guessed(Means(t, a), GuessedIndex)
      BY <1>6, <1>7, <2>2, ResultCases
    <3>3. Fixed(Guessed(Means(t, key[1]), GuessedIndex), i, Bit(left))
            = Guessed(Fixed(Means(t, key[1]), i, Bit(left)), GuessedIndex)
      BY <1>1, <1>2, <3>1, FixedGuessed, VarsFacts
    <3> QED
      BY <1>3, <3>2, <3>3
  <2>3. CASE kind # "apply1" /\ key[2] # Nowhere
    <3>1. /\ ResultIn(kind, t, key) = Joined(Means(t, key[1]), Means(t, key[2]))
          /\ ResultIn(kind, t, s) = Joined(Means(t, a), Means(t, b))
      BY <1>6, <1>7, <2>3, ResultCases
    <3>2. Fixed(Joined(Means(t, key[1]), Means(t, key[2])), i, Bit(left))
            = Joined(Fixed(Means(t, key[1]), i, Bit(left)), Fixed(Means(t, key[2]), i, Bit(left)))
      BY <1>1, <1>2, <2>3, FixedResults
    <3> QED
      BY <1>3, <1>4, <2>3, <3>1, <3>2
  <2> QED
    BY <2>1, <2>2, <2>3
<1> QED
  BY <1>8, <1>9, <1>10 DEF s

\* The node over the results for the successors denotes the result.
LEMMA ResultSplits ==
    ASSUME NEW t, NEW L, Ordered(t, L), NEW kind \in Kinds,
           NEW key, KeyOK(kind, t, L, key), Proper(kind, t, key),
           NEW i, i = KeyIndex(t, key), i < Vars
    PROVE  ResultIn(kind, t, key) =
             Choice(i, ResultIn(kind, t, SuccIn(t, key, i, TRUE)),
                       ResultIn(kind, t, SuccIn(t, key, i, FALSE)))
<1>1. /\ ResultIn(kind, t, SuccIn(t, key, i, TRUE)) = Fixed(ResultIn(kind, t, key), i, 0)
      /\ ResultIn(kind, t, SuccIn(t, key, i, FALSE)) = Fixed(ResultIn(kind, t, key), i, 1)
  <2>1. \A left \in BOOLEAN :
          ResultIn(kind, t, SuccIn(t, key, i, left)) = Fixed(ResultIn(kind, t, key), i, Bit(left))
    BY SuccFacts
  <2>2. TRUE \in BOOLEAN /\ FALSE \in BOOLEAN /\ Bit(TRUE) = 0 /\ Bit(FALSE) = 1
    BY DEF Bit
  <2> QED
    BY <2>1, <2>2
<1>2. i \in 0..Vars-1
  BY KeyFacts, VarsFacts
<1>3. ResultIn(kind, t, key) \in Denotations
  BY ResultType
<1>4. ResultIn(kind, t, key) =
        Choice(i, Fixed(ResultIn(kind, t, key), i, 0), Fixed(ResultIn(kind, t, key), i, 1))
  BY <1>2, <1>3, ChoiceOfFixed
<1> QED
  BY <1>1, <1>4

\* Where a call really starts.
HereIn(kind, t, key) ==
    IF kind = "project" /\ key[1] = key[2] THEN <<key[1], Nowhere>>
    ELSE IF kind = "project" /\ key[2] = Nowhere /\ IndexIn(t, key[1]) = GuessedIndex
    THEN <<t[key[1]].lo, t[key[1]].hi>>
    ELSE key

LEMMA HereFacts ==
    ASSUME NEW t, NEW L, Ordered(t, L), NEW kind \in Kinds, NEW key, KeyOK(kind, t, L, key),
           NEW here, here = HereIn(kind, t, key)
    PROVE  /\ KeyOK(kind, t, L, here) /\ Proper(kind, t, here)
           /\ KeyIndex(t, key) <= KeyIndex(t, here)
           /\ ResultIn(kind, t, here) = ResultIn(kind, t, key)
<1>1. /\ key[1] \in L /\ key[1] # Nowhere
      /\ IndexIn(t, key[1]) = t[key[1]].index
      /\ key[2] = Nowhere \/ key[2] \in L
      /\ KeyIndex(t, key) \in 0..Vars
      /\ KeyIndex(t, key) <= IndexIn(t, key[1])
      /\ IndexIn(t, key[1]) \in 0..Vars
      /\ Means(t, key[1]) \in Denotations
  BY KeyFacts
<1>2. CASE kind = "project" /\ key[1] = key[2]
  <2>1. here = <<key[1], Nowhere>> /\ here[1] = key[1] /\ here[2] = Nowhere
    BY <1>2 DEF HereIn
  <2>2. KeyIndex(t, key) > GuessedIndex /\ KeyIndex(t, key) = IndexIn(t, key[1])
    BY <1>1, <1>2 DEF KeyOK, KeyIndex
  <2>3. KeyIndex(t, here) = IndexIn(t, key[1])
    BY <1>1, <2>1, VarsFacts DEF KeyIndex, IndexIn
  <2>4. KeyOK(kind, t, L, here) /\ Proper(kind, t, here)
    <3>1. IndexIn(t, here[1]) # GuessedIndex
      BY <1>1, <2>1, <2>2, VarsFacts
    <3> QED
      BY <1>1, <1>2, <2>1, <3>1 DEF KeyOK, Proper, Binary
  <2>5. ResultIn(kind, t, here) = Guessed(Means(t, key[1]), GuessedIndex)
    BY <1>2, <2>1, ResultCases
  <2>6. ResultIn(kind, t, key) = Joined(Means(t, key[1]), Means(t, key[1]))
    BY <1>1, <1>2, ResultCases
  <2>7. /\ Fixed(Means(t, key[1]), GuessedIndex, 0) = Means(t, key[1])
        /\ Fixed(Means(t, key[1]), GuessedIndex, 1) = Means(t, key[1])
    <3>1. GuessedIndex < t[key[1]].index
      BY <1>1, <2>2, VarsFacts
    <3> QED
      BY <1>1, <3>1, FixedAbove, VarsFacts
  <2>8. Guessed(Means(t, key[1]), GuessedIndex) = Joined(Means(t, key[1]), Means(t, key[1]))
    BY <1>1, <2>7, ResultTypes, VarsFacts
  <2> QED
    BY <1>1, <2>2, <2>3, <2>4, <2>5, <2>6, <2>8
<1>3. CASE kind = "project" /\ key[1] # key[2] /\ key[2] = Nowhere /\ IndexIn(t, key[1]) = GuessedIndex
  <2> DEFINE a == t[key[1]].lo
             b == t[key[1]].hi
  <2>1. here = <<a, b>> /\ here[1] = a /\ here[2] = b
    BY <1>3 DEF HereIn
  <2>2. InnerAt(t, L, key[1])
    <3>1. t[key[1]].index # LeafIndex
      BY <1>1, <1>3, VarsFacts
    <3> QED
      BY <1>1, <3>1, OrderedFacts
  <2>3. a \in L /\ b \in L /\ GuessedIndex < t[a].index /\ GuessedIndex < t[b].index
    BY <1>1, <1>3, <2>2 DEF InnerAt
  <2>4. /\ Fixed(Means(t, key[1]), GuessedIndex, 0) = Means(t, a)
        /\ Fixed(Means(t, key[1]), GuessedIndex, 1) = Means(t, b)
    BY <1>1, <1>3, <2>2, Cofactor
  <2> HIDE DEF a, b
  <2>5. a # Nowhere /\ b # Nowhere /\ t[a].index \in 0..Vars /\ t[b].index \in 0..Vars
    BY <2>3, OrderedFacts
  <2>6. KeyIndex(t, here) > GuessedIndex
    BY <2>1, <2>3, <2>5, VarsFacts DEF KeyIndex, IndexIn
  <2>7. KeyOK(kind, t, L, here) /\ Proper(kind, t, here)
    BY <1>3, <2>1, <2>3, <2>5, <2>6 DEF KeyOK, Proper, Binary
  <2>8. ResultIn(kind, t, here) = Joined(Means(t, a), Means(t, b))
    BY <1>3, <2>1, <2>5, ResultCases
  <2>9. ResultIn(kind, t, key) = Guessed(Means(t, key[1]), GuessedIndex)
    BY <1>3, ResultCases
  <2>10. Guessed(Means(t, key[1]), GuessedIndex) = Joined(Means(t, a), Means(t, b))
    BY <1>1, <2>4, ResultTypes, VarsFacts
  <2>11. KeyIndex(t, key) <= KeyIndex(t, here)
    <3>1. KeyIndex(t, here) \in Int
      BY <2>1, <2>5 DEF KeyIndex, IndexIn
    <3> QED
      BY <1>1, <1>3, <2>6, <3>1, VarsFacts
  <2> QED
    BY <2>7, <2>8, <2>9, <2>10, <2>11
<1>4. CASE ~ (kind = "project" /\ key[1] = key[2])
           /\ ~ (kind = "project" /\ key[2] = Nowhere /\ IndexIn(t, key[1]) = GuessedIndex)
  <2>1. here = key
    BY <1>4 DEF HereIn
  <2>2. Proper(kind, t, key)
    BY <1>4 DEF Proper
  <2> QED
    BY <1>1, <2>1, <2>2
<1> QED
  BY <1>2, <1>3, <1>4

\* Leaves are put together at once.
LeafValueIn(kind, t, key) ==
    IF kind = "apply1" THEN Image[t[key[1]].value]
    ELSE IF key[2] = Nowhere THEN t[key[1]].value
    ELSE Join(t[key[1]].value, t[key[2]].value)

LEMMA LeafResult ==
    ASSUME NEW t, NEW L, Ordered(t, L), NEW kind \in Kinds, NEW key, KeyOK(kind, t, L, key),
           IndexIn(t, key[1]) = LeafIndex, IndexIn(t, key[2]) = LeafIndex
    PROVE  /\ LeafValueIn(kind, t, key) \in SUBSET Elements
           /\ ResultIn(kind, t, key) = [l \in Letters |-> LeafValueIn(kind, t, key)]
<1>1. /\ key[1] \in L
      /\ IndexIn(t, key[1]) = t[key[1]].index
      /\ key[2] = Nowhere \/ key[2] \in L
      /\ key[2] # Nowhere => IndexIn(t, key[2]) = t[key[2]].index
  BY KeyFacts
<1>2. ASSUME NEW a \in L, t[a].index = LeafIndex
      PROVE  t[a].value \in SUBSET Elements /\ Means(t, a) = [l \in Letters |-> t[a].value]
  <2>1. t \in Seq(Nodes) /\ a \in DOMAIN t
    BY OrderedFacts
  <2> QED
    BY <1>2, <2>1, NodeFacts, LeafMeans
<1> DEFINE v == t[key[1]].value
           w == t[key[2]].value
<1>3. v \in SUBSET Elements /\ Means(t, key[1]) = [l \in Letters |-> v]
  BY <1>1, <1>2
<1>4. key[2] # Nowhere => w \in SUBSET Elements /\ Means(t, key[2]) = [l \in Letters |-> w]
  BY <1>1, <1>2
<1>5. CASE kind = "apply1"
  <2>1. ResultIn(kind, t, key) = Imaged(Means(t, key[1]))
    BY <1>5, ResultCases
  <2> QED
    BY <1>3, <1>5, <2>1, VarsFacts DEF LeafValueIn, Imaged
<1>6. CASE kind # "apply1" /\ key[2] = Nowhere
  <2>1. ResultIn(kind, t, key) = Guessed(Means(t, key[1]), GuessedIndex)
    BY <1>6, ResultCases
  <2>2. \A l \in Letters : /\ [l EXCEPT ![GuessedIndex] = 0] \in Letters
                           /\ [l EXCEPT ![GuessedIndex] = 1] \in Letters
    BY LetterFacts, VarsFacts
  <2>3. Guessed(Means(t, key[1]), GuessedIndex) = [l \in Letters |-> v]
    BY <1>3, <2>2 DEF Guessed, Join
  <2> QED
    BY <1>3, <1>6, <2>1, <2>3 DEF LeafValueIn
<1>7. CASE kind # "apply1" /\ key[2] # Nowhere
  <2>1. ResultIn(kind, t, key) = Joined(Means(t, key[1]), Means(t, key[2]))
    BY <1>7, ResultCases
  <2> QED
    BY <1>3, <1>4, <1>7, <2>1 DEF LeafValueIn, Joined, Join
<1> QED
  BY <1>5, <1>6, <1>7
-----------------------------------------------------------------------------
(* The calls under way.                                                      *)

LEMMA CarriesSelf ==
    ASSUME NEW t, NEW K, Ordered(t, K)
    PROVE  Carries(t, K, t, K, <<>>)
<1>1. \A a \in K : Relocated(t[a], <<>>) = t[a]
  <2>1. t \in Seq(Nodes) /\ K \subseteq DOMAIN t
    BY DEF Ordered
  <2> QED
    BY <2>1, StayFacts
<1> QED
  BY <1>1, StayFacts DEF Carries

LEMMA KeyMoved ==
    ASSUME NEW t, NEW L, NEW u, NEW G, NEW to, Carries(t, L, u, G, to),
           NEW kind \in Kinds, NEW key, KeyOK(kind, t, L, key)
    PROVE  /\ KeyOK(kind, u, G, Moves(key, to))
           /\ KeyIndex(u, Moves(key, to)) = KeyIndex(t, key)
           /\ ResultIn(kind, u, Moves(key, to)) = ResultIn(kind, t, key)
           /\ Proper(kind, t, key) => Proper(kind, u, Moves(key, to))
<1> DEFINE k == Moves(key, to)
<1>0. Ordered(t, L) /\ Ordered(u, G)
  BY DEF Carries
<1>1. /\ key[1] \in L /\ key[1] # Nowhere
      /\ IndexIn(t, key[1]) = t[key[1]].index
      /\ key[2] = Nowhere \/ key[2] \in L
      /\ key[2] # Nowhere => IndexIn(t, key[2]) = t[key[2]].index
  BY <1>0, KeyFacts
<1>2. k = <<k[1], k[2]>> /\ k[1] = NewPlace(to, key[1]) /\ k[2] = NewPlace(to, key[2])
  BY DEF Moves
<1> HIDE DEF k
<1>3. /\ k[1] \in G /\ u[k[1]].index = t[key[1]].index /\ Means(u, k[1]) = Means(t, key[1])
  BY <1>1, <1>2, CarriedNode, CarriedMeans
<1>4. key[2] \in L =>
        k[2] \in G /\ u[k[2]].index = t[key[2]].index /\ Means(u, k[2]) = Means(t, key[2])
  BY <1>2, CarriedNode, CarriedMeans
<1>5. key[2] = Nowhere => k[2] = Nowhere
  BY <1>2 DEF Carries
<1>6. k[1] # Nowhere /\ (k[2] = Nowhere <=> key[2] = Nowhere)
  <2>1. Nowhere \notin G
    BY <1>0, OrderedFacts
  <2> QED
    BY <1>1, <1>3, <1>4, <1>5, <2>1
<1>7. IndexIn(u, k[1]) = IndexIn(t, key[1]) /\ IndexIn(u, k[2]) = IndexIn(t, key[2])
  BY <1>1, <1>3, <1>4, <1>6 DEF IndexIn
<1>8. KeyIndex(u, k) = KeyIndex(t, key)
  BY <1>7 DEF KeyIndex
<1>9. KeyOK(kind, u, G, k)
  <2>1. key[2] \in L => k[2] \in G
    BY <1>4
  <2> QED
    BY <1>2, <1>3, <1>6, <1>8, <2>1 DEF KeyOK
<1>10. ResultIn(kind, u, k) = ResultIn(kind, t, key)
  <2>1. key[2] # Nowhere => Means(u, k[2]) = Means(t, key[2])
    BY <1>1, <1>4
  <2>2. CASE kind = "apply1"
    BY <1>3, <2>2, ResultCases
  <2>3. CASE kind # "apply1" /\ key[2] = Nowhere
    BY <1>3, <1>6, <2>3, ResultCases
  <2>4. CASE kind # "apply1" /\ key[2] # Nowhere
    BY <1>3, <1>6, <2>1, <2>4, ResultCases
  <2> QED
    BY <2>2, <2>3, <2>4
<1>11. Proper(kind, t, key) => Proper(kind, u, k)
  BY <1>6, <1>7 DEF Proper
<1> QED
  BY <1>8, <1>9, <1>10, <1>11 DEF k

LEMMA SuccMoved ==
    ASSUME NEW t, NEW L, NEW u, NEW G, NEW to, Carries(t, L, u, G, to),
           NEW kind \in Kinds, NEW key, KeyOK(kind, t, L, key),
           NEW i, i < Vars, NEW left \in BOOLEAN
    PROVE  SuccIn(u, Moves(key, to), i, left) = Moves(SuccIn(t, key, i, left), to)
<1>0. Ordered(t, L) /\ Ordered(u, G) /\ NewPlace(to, Nowhere) = Nowhere
  BY DEF Carries
<1>1. key[1] \in L /\ (key[2] = Nowhere \/ key[2] \in L)
  BY <1>0, KeyFacts
<1>2. ASSUME NEW a, a \in L \/ a = Nowhere
      PROVE  SideIn(u, NewPlace(to, a), i, left) = NewPlace(to, SideIn(t, a, i, left))
  <2>1. CASE a = Nowhere
    BY <1>0, <2>1 DEF SideIn
  <2>2. CASE a \in L
    <3>1. a # Nowhere /\ NewPlace(to, a) # Nowhere /\ t[a].index \in 0..Vars
      <4>1. NewPlace(to, a) \in G
        BY <2>2, CarriedNode
      <4> QED
        BY <1>0, <2>2, <4>1, OrderedFacts
    <3>2. /\ u[NewPlace(to, a)].index = t[a].index
          /\ t[a].index # LeafIndex =>
                /\ u[NewPlace(to, a)].lo = NewPlace(to, t[a].lo)
                /\ u[NewPlace(to, a)].hi = NewPlace(to, t[a].hi)
      BY <2>2, CarriedNode
    <3>3. t[a].index = i => t[a].index # LeafIndex
      BY <3>1, VarsFacts
    <3> QED
      BY <3>1, <3>2, <3>3 DEF SideIn
  <2> QED
    BY <1>2, <2>1, <2>2
<1>3. Moves(key, to)[1] = NewPlace(to, key[1]) /\ Moves(key, to)[2] = NewPlace(to, key[2])
  BY DEF Moves
<1>4. /\ SideIn(u, NewPlace(to, key[1]), i, left) = NewPlace(to, SideIn(t, key[1], i, left))
      /\ SideIn(u, NewPlace(to, key[2]), i, left) = NewPlace(to, SideIn(t, key[2], i, left))
  BY <1>1, <1>2
<1>5. /\ SuccIn(t, key, i, left)[1] = SideIn(t, key[1], i, left)
      /\ SuccIn(t, key, i, left)[2] = SideIn(t, key[2], i, left)
  BY DEF SuccIn
<1> QED
  BY <1>3, <1>4, <1>5 DEF SuccIn, Moves

\* What is known of a call.
LEMMA FrameFacts ==
    ASSUME NEW t, NEW L, Ordered(t, L), NEW kind \in Kinds, NEW goal, NEW u, NEW F,
           NEW frames, NEW W, CallsRight(kind, goal, t, L, u, F, frames, W),
           NEW n \in 1..Len(frames)
    PROVE  /\ CallAt(kind, goal, t, L, u, F, frames, W, n)
           /\ FrameRight(kind, t, L, u, F, frames[n], W[n])
           /\ frames[n] \in Frames /\ frames[n].index \in 0..Vars-1
<1>1. CallAt(kind, goal, t, L, u, F, frames, W, n)
  BY DEF CallsRight
<1>2. FrameRight(kind, t, L, u, F, frames[n], W[n])
  BY <1>1 DEF CallAt
<1>3. /\ frames[n] \in Frames /\ KeyOK(kind, t, L, frames[n].key)
      /\ frames[n].index = KeyIndex(t, frames[n].key) /\ frames[n].index < Vars
  BY <1>2 DEF FrameRight
<1>4. KeyIndex(t, frames[n].key) \in 0..Vars
  BY <1>3, KeyFacts
<1>5. frames[n].index \in 0..Vars-1
  BY <1>3, <1>4, VarsFacts
<1> QED
  BY <1>1, <1>2, <1>3, <1>5

LEMMA GoalFacts ==
    ASSUME NEW kind, NEW goal, NEW t, NEW frames, NEW W
    PROVE  /\ FloorAt(frames, 1) = -1
           /\ GoalAt(kind, goal, t, frames, W, 1) = goal
           /\ \A n : n # 1 =>
                /\ FloorAt(frames, n) = frames[n-1].index
                /\ GoalAt(kind, goal, t, frames, W, n) =
                     ResultIn(kind, t, SuccIn(t, frames[n-1].key, frames[n-1].index, W[n-1] = GoingLeft))
BY DEF FloorAt, GoalAt

\* The calls follow when the nodes are found elsewhere.
Follows(frames, to, g) ==
    /\ g \in Seq(Frames) /\ Len(g) = Len(frames)
    /\ \A n \in 1..Len(frames) :
         /\ g[n].index = frames[n].index
         /\ g[n].key = Moves(frames[n].key, to) /\ g[n].second = Moves(frames[n].second, to)

WaitsFollow(N, W, K, at, V) ==
    \A n \in 1..N : V[n] = NewPlace(at, W[n]) /\ (W[n] = GoingLeft \/ W[n] \in K)

SameGoal(kind, goal, t, frames, W, n, u, g, V, m) ==
    /\ FloorAt(g, m) = FloorAt(frames, n)
    /\ GoalAt(kind, goal, u, g, V, m) = GoalAt(kind, goal, t, frames, W, n)

LEMMA CallsFollow ==
    ASSUME NEW t, NEW L, NEW t2, NEW L2, NEW to, Carries(t, L, t2, L2, to),
           NEW u, NEW K, NEW u2, NEW G, NEW at, Carries(u, K, u2, G, at),
           NEW kind \in Kinds, NEW goal, NEW F, NEW frames, NEW W,
           CallsRight(kind, goal, t, L, u, F, frames, W),
           NEW g, Follows(frames, to, g),
           NEW V, WaitsFollow(Len(frames), W, K, at, V)
    PROVE  /\ CallsRight(kind, goal, t2, L2, u2, G, g, V)
           /\ SameGoal(kind, goal, t, frames, W, Len(frames) + 1, t2, g, V, Len(g) + 1)
<1>0. /\ Ordered(t, L) /\ Ordered(t2, L2) /\ Ordered(u, K) /\ Ordered(u2, G)
      /\ frames \in Seq(Frames) /\ Len(frames) \in Nat
      /\ g \in Seq(Frames) /\ Len(g) = Len(frames)
  BY DEF Carries, CallsRight, Follows
<1>1. ASSUME NEW n \in 1..Len(frames)
      PROVE  /\ g[n] \in Frames
             /\ g[n].index = frames[n].index
             /\ g[n].key = Moves(frames[n].key, to) /\ g[n].second = Moves(frames[n].second, to)
             /\ V[n] = GoingLeft <=> W[n] = GoingLeft
             /\ W[n] # GoingLeft => W[n] \in K /\ V[n] = NewPlace(at, W[n])
  <2>1. V[n] = NewPlace(at, W[n]) /\ (W[n] = GoingLeft \/ W[n] \in K)
    BY DEF WaitsFollow
  <2>2. W[n] \in K => V[n] # GoingLeft
    <3>1. W[n] \in K => V[n] \in G
      BY <2>1, CarriedNode
    <3>2. GoingLeft \notin G
      <4>1. G \subseteq Nat
        BY <1>0 DEF Ordered
      <4> QED
        BY <4>1 DEF GoingLeft
    <3> QED
      BY <3>1, <3>2
  <2>3. W[n] = GoingLeft => V[n] = GoingLeft
    BY <2>1 DEF Carries
  <2> QED
    BY <1>0, <2>1, <2>2, <2>3 DEF Follows
<1>2. ASSUME NEW n \in 1..Len(frames), NEW left \in BOOLEAN
      PROVE  /\ SuccIn(t2, g[n].key, g[n].index, left) =
                  Moves(SuccIn(t, frames[n].key, frames[n].index, left), to)
             /\ ResultIn(kind, t2, SuccIn(t2, g[n].key, g[n].index, left)) =
                  ResultIn(kind, t, SuccIn(t, frames[n].key, frames[n].index, left))
  <2>1. /\ KeyOK(kind, t, L, frames[n].key) /\ Proper(kind, t, frames[n].key)
        /\ frames[n].index = KeyIndex(t, frames[n].key) /\ frames[n].index < Vars
    <3>1. FrameRight(kind, t, L, u, F, frames[n], W[n])
      BY <1>0, FrameFacts
    <3> QED
      BY <3>1 DEF FrameRight
  <2>2. SuccIn(t2, g[n].key, g[n].index, left) = Moves(SuccIn(t, frames[n].key, frames[n].index, left), to)
    BY <1>1, <2>1, SuccMoved
  <2>3. KeyOK(kind, t, L, SuccIn(t, frames[n].key, frames[n].index, left))
    BY <1>0, <2>1, SuccFacts
  <2> QED
    BY <2>2, <2>3, KeyMoved
<1>3. ASSUME NEW n \in 1..Len(frames)+1
      PROVE  SameGoal(kind, goal, t, frames, W, n, t2, g, V, n)
  <2>1. CASE n = 1
    BY <2>1, GoalFacts DEF SameGoal
  <2>2. CASE n # 1
    <3>1. n \in Nat /\ n > 1 /\ n - 1 \in 1..Len(frames)
      BY <1>0, <2>2
    <3>2. /\ FloorAt(g, n) = g[n-1].index /\ FloorAt(frames, n) = frames[n-1].index
          /\ GoalAt(kind, goal, t2, g, V, n) =
               ResultIn(kind, t2, SuccIn(t2, g[n-1].key, g[n-1].index, V[n-1] = GoingLeft))
          /\ GoalAt(kind, goal, t, frames, W, n) =
               ResultIn(kind, t, SuccIn(t, frames[n-1].key, frames[n-1].index, W[n-1] = GoingLeft))
      BY <2>2 DEF FloorAt, GoalAt
    <3>3. g[n-1].index = frames[n-1].index /\ (V[n-1] = GoingLeft) = (W[n-1] = GoingLeft)
      BY <1>1, <3>1
    <3>4. ResultIn(kind, t2, SuccIn(t2, g[n-1].key, g[n-1].index, W[n-1] = GoingLeft)) =
          ResultIn(kind, t, SuccIn(t, frames[n-1].key, frames[n-1].index, W[n-1] = GoingLeft))
      BY <1>2, <3>1
    <3> QED
      BY <3>2, <3>3, <3>4 DEF SameGoal
  <2> QED
    BY <2>1, <2>2
<1>4. ASSUME NEW n \in 1..Len(frames)
      PROVE  CallAt(kind, goal, t2, L2, u2, G, g, V, n)
  <2>0. /\ CallAt(kind, goal, t, L, u, F, frames, W, n)
        /\ FrameRight(kind, t, L, u, F, frames[n], W[n])
    BY <1>0, FrameFacts
  <2>1. /\ KeyOK(kind, t, L, frames[n].key) /\ Proper(kind, t, frames[n].key)
        /\ frames[n].index = KeyIndex(t, frames[n].key) /\ frames[n].index < Vars
        /\ frames[n].second = SuccIn(t, frames[n].key, frames[n].index, FALSE)
        /\ FloorAt(frames, n) < frames[n].index
        /\ ResultIn(kind, t, frames[n].key) = GoalAt(kind, goal, t, frames, W, n)
    BY <2>0 DEF CallAt, FrameRight
  <2>2. W[n] # GoingLeft =>
          /\ frames[n].index < u[W[n]].index
          /\ Means(u, W[n]) = ResultIn(kind, t, SuccIn(t, frames[n].key, frames[n].index, TRUE))
    BY <2>0 DEF FrameRight
  <2>3. /\ KeyOK(kind, t2, L2, g[n].key) /\ Proper(kind, t2, g[n].key)
        /\ KeyIndex(t2, g[n].key) = KeyIndex(t, frames[n].key)
        /\ ResultIn(kind, t2, g[n].key) = ResultIn(kind, t, frames[n].key)
    BY <1>1, <2>1, KeyMoved
  <2>4. g[n].second = SuccIn(t2, g[n].key, g[n].index, FALSE)
    BY <1>1, <1>2, <2>1
  <2>5. V[n] # GoingLeft =>
         /\ V[n] \in G /\ g[n].index < u2[V[n]].index
         /\ Means(u2, V[n]) = ResultIn(kind, t2, SuccIn(t2, g[n].key, g[n].index, TRUE))
    <3> SUFFICES ASSUME V[n] # GoingLeft
                 PROVE  /\ V[n] \in G /\ g[n].index < u2[V[n]].index
                        /\ Means(u2, V[n]) = ResultIn(kind, t2, SuccIn(t2, g[n].key, g[n].index, TRUE))
      OBVIOUS
    <3>1. W[n] # GoingLeft /\ W[n] \in K /\ V[n] = NewPlace(at, W[n])
      BY <1>1
    <3>2. V[n] \in G /\ u2[V[n]].index = u[W[n]].index /\ Means(u2, V[n]) = Means(u, W[n])
      BY <3>1, CarriedNode, CarriedMeans
    <3>3. ResultIn(kind, t2, SuccIn(t2, g[n].key, g[n].index, TRUE)) =
            ResultIn(kind, t, SuccIn(t, frames[n].key, frames[n].index, TRUE))
      BY <1>2
    <3> QED
      BY <1>1, <2>2, <3>1, <3>2, <3>3
  <2>6. FrameRight(kind, t2, L2, u2, G, g[n], V[n])
    BY <1>1, <2>1, <2>3, <2>4, <2>5 DEF FrameRight
  <2>7. SameGoal(kind, goal, t, frames, W, n, t2, g, V, n)
    BY <1>0, <1>3
  <2> QED
    BY <1>1, <2>1, <2>3, <2>6, <2>7 DEF CallAt, SameGoal
<1> QED
  BY <1>0, <1>3, <1>4 DEF CallsRight
\* The first calls of frames, with what they wait for.
Begins(frames, W, k, g, V) ==
    /\ g \in Seq(Frames) /\ Len(g) >= k /\ k <= Len(frames) /\ k \in Nat
    /\ \A n \in 1..k : /\ g[n].index = frames[n].index /\ g[n].key = frames[n].key
                       /\ g[n].second = frames[n].second /\ V[n] = W[n]

LEMMA CallsBegin ==
    ASSUME NEW kind, NEW goal, NEW t, NEW L, NEW u, NEW F, NEW frames, NEW W,
           CallsRight(kind, goal, t, L, u, F, frames, W),
           NEW k, NEW g, NEW V, Begins(frames, W, k, g, V)
    PROVE  /\ \A n \in 1..k : CallAt(kind, goal, t, L, u, F, g, V, n)
           /\ SameGoal(kind, goal, t, frames, W, k + 1, t, g, V, k + 1)
<1>0. /\ g \in Seq(Frames) /\ Len(g) \in Nat /\ Len(frames) \in Nat /\ frames \in Seq(Frames)
      /\ k \in Nat /\ k <= Len(frames) /\ k <= Len(g)
  BY DEF Begins, CallsRight
<1>1. \A n \in 1..k : /\ g[n].index = frames[n].index /\ g[n].key = frames[n].key
                      /\ g[n].second = frames[n].second /\ V[n] = W[n] /\ g[n] \in Frames
  BY <1>0 DEF Begins
<1>2. ASSUME NEW n \in 1..k+1
      PROVE  SameGoal(kind, goal, t, frames, W, n, t, g, V, n)
  <2>1. CASE n = 1
    BY <2>1, GoalFacts DEF SameGoal
  <2>2. CASE n # 1
    <3>1. n - 1 \in 1..k
      BY <1>0, <2>2
    <3>2. g[n-1].index = frames[n-1].index /\ g[n-1].key = frames[n-1].key /\ V[n-1] = W[n-1]
      BY <1>1, <3>1
    <3> QED
      BY <2>2, <3>2 DEF FloorAt, GoalAt, SameGoal
  <2> QED
    BY <2>1, <2>2
<1>3. ASSUME NEW n \in 1..k
      PROVE  CallAt(kind, goal, t, L, u, F, g, V, n)
  <2>1. CallAt(kind, goal, t, L, u, F, frames, W, n)
    BY <1>0 DEF CallsRight
  <2>2. FrameRight(kind, t, L, u, F, g[n], V[n])
    BY <1>1, <2>1 DEF CallAt, FrameRight
  <2>3. SameGoal(kind, goal, t, frames, W, n, t, g, V, n)
    BY <1>0, <1>2
  <2> QED
    BY <1>1, <2>1, <2>2, <2>3 DEF CallAt, SameGoal
<1> QED
  BY <1>0, <1>2, <1>3

\* One call more.
LEMMA CallsPush ==
    ASSUME NEW kind, NEW goal, NEW t, NEW L, NEW u, NEW F, NEW frames, NEW W,
           CallsRight(kind, goal, t, L, u, F, frames, W),
           NEW k, NEW g, NEW V, Begins(frames, W, k, g, V), Len(g) = k + 1,
           FrameRight(kind, t, L, u, F, g[k + 1], V[k + 1]),
           FloorAt(frames, k + 1) < g[k + 1].index,
           ResultIn(kind, t, g[k + 1].key) = GoalAt(kind, goal, t, frames, W, k + 1)
    PROVE  /\ CallsRight(kind, goal, t, L, u, F, g, V)
           /\ FloorAt(g, Len(g) + 1) = g[k + 1].index
           /\ GoalAt(kind, goal, t, g, V, Len(g) + 1) =
                ResultIn(kind, t, SuccIn(t, g[k + 1].key, g[k + 1].index, V[k + 1] = GoingLeft))
<1>1. g \in Seq(Frames) /\ k \in Nat
  BY DEF Begins
<1>2. /\ \A n \in 1..k : CallAt(kind, goal, t, L, u, F, g, V, n)
      /\ SameGoal(kind, goal, t, frames, W, k + 1, t, g, V, k + 1)
  BY CallsBegin
<1>3. CallAt(kind, goal, t, L, u, F, g, V, k + 1)
  BY <1>2 DEF CallAt, SameGoal
<1>4. CallsRight(kind, goal, t, L, u, F, g, V)
  BY <1>1, <1>2, <1>3 DEF CallsRight
<1>5. Len(g) + 1 # 1 /\ (Len(g) + 1) - 1 = k + 1
  BY <1>1
<1> QED
  BY <1>4, <1>5 DEF FloorAt, GoalAt

Pushed(frames, frame, g) == g = Append(frames, frame)

\* The frame of the call for here, and that it waits for its left result.
FrameFor(t, here, frame) ==
    /\ frame \in Frames
    /\ frame.index = KeyIndex(t, here) /\ KeyIndex(t, here) < Vars
    /\ frame.key = here
    /\ frame.second = SuccIn(t, here, frame.index, FALSE)
WaitsLeft(frames, W, V) ==
    /\ \A n \in 1..Len(frames) : V[n] = W[n]
    /\ V[Len(frames) + 1] = GoingLeft

\* A call for two nodes that are not both leaves: first to the left.
LEMMA DescendStep ==
    ASSUME NEW kind \in Kinds, NEW goal, NEW t, NEW L, Ordered(t, L), NEW u, NEW F,
           NEW frames, NEW W, CallsRight(kind, goal, t, L, u, F, frames, W),
           NEW key, CallRight(kind, goal, t, L, frames, W, key),
           NEW here, here = HereIn(kind, t, key),
           NEW frame, FrameFor(t, here, frame),
           NEW g, Pushed(frames, frame, g), NEW V, WaitsLeft(frames, W, V)
    PROVE  /\ CallsRight(kind, goal, t, L, u, F, g, V)
           /\ CallRight(kind, goal, t, L, g, V, SuccIn(t, here, frame.index, TRUE))
<1> DEFINE k == Len(frames)
<1>0. /\ frame \in Frames /\ frame.index = KeyIndex(t, here) /\ KeyIndex(t, here) < Vars
      /\ frame.key = here /\ frame.second = SuccIn(t, here, frame.index, FALSE)
      /\ \A n \in 1..k : V[n] = W[n]
      /\ V[k + 1] = GoingLeft
  BY DEF FrameFor, WaitsLeft
<1>1. frames \in Seq(Frames) /\ k \in Nat
  BY DEF CallsRight
<1>2. /\ g \in Seq(Frames) /\ Len(g) = k + 1 /\ g[k + 1] = frame
      /\ \A n \in 1..k : g[n] = frames[n]
  BY <1>0, <1>1, AppendFacts DEF Pushed
<1>3. /\ KeyOK(kind, t, L, here) /\ Proper(kind, t, here)
      /\ KeyIndex(t, key) <= KeyIndex(t, here)
      /\ ResultIn(kind, t, here) = ResultIn(kind, t, key)
  BY HereFacts DEF CallRight
<1>4. FrameRight(kind, t, L, u, F, frame, GoingLeft)
  BY <1>0, <1>3 DEF FrameRight
<1>5. Begins(frames, W, k, g, V)
  BY <1>0, <1>1, <1>2 DEF Begins
<1>6. FloorAt(frames, k + 1) < frame.index
      /\ ResultIn(kind, t, here) = GoalAt(kind, goal, t, frames, W, k + 1)
  <2>1. /\ FloorAt(frames, k + 1) < KeyIndex(t, key)
        /\ ResultIn(kind, t, key) = GoalAt(kind, goal, t, frames, W, k + 1)
        /\ KeyOK(kind, t, L, key)
    BY DEF CallRight
  <2>2. KeyIndex(t, key) \in Int /\ KeyIndex(t, here) \in Int
    BY <1>3, <2>1, KeyFacts
  <2>3. FloorAt(frames, k + 1) \in Int
    <3>1. CASE k + 1 = 1
      BY <3>1 DEF FloorAt
    <3>2. CASE k + 1 # 1
      <4>1. k \in 1..Len(frames) /\ (k + 1) - 1 = k
        BY <1>1, <3>2
      <4>2. frames[k].index \in Int
        BY <1>1, <4>1, FrameFacts
      <4> QED
        BY <3>2, <4>1, <4>2 DEF FloorAt
    <3> QED
      BY <3>1, <3>2
  <2> QED
    BY <1>0, <1>3, <2>1, <2>2, <2>3
<1>7. /\ CallsRight(kind, goal, t, L, u, F, g, V)
      /\ FloorAt(g, Len(g) + 1) = frame.index
      /\ GoalAt(kind, goal, t, g, V, Len(g) + 1) =
                ResultIn(kind, t, SuccIn(t, here, frame.index, V[k + 1] = GoingLeft))
  <2> HIDE DEF k
  <2>1. V[k + 1] = GoingLeft
    BY <1>0 DEF k
  <2>2. FrameRight(kind, t, L, u, F, g[k + 1], V[k + 1])
    BY <1>2, <1>4, <2>1
  <2>3. g[k + 1].key = here /\ g[k + 1].index = frame.index
    BY <1>0, <1>2
  <2>4. /\ FloorAt(frames, k + 1) < g[k + 1].index
        /\ ResultIn(kind, t, g[k + 1].key) = GoalAt(kind, goal, t, frames, W, k + 1)
    BY <1>6, <2>3
  <2>5. /\ CallsRight(kind, goal, t, L, u, F, g, V)
        /\ FloorAt(g, Len(g) + 1) = g[k + 1].index
        /\ GoalAt(kind, goal, t, g, V, Len(g) + 1) =
                ResultIn(kind, t, SuccIn(t, g[k + 1].key, g[k + 1].index, V[k + 1] = GoingLeft))
    <3>1. Len(g) = k + 1
      BY <1>2
    <3> QED
      BY <1>5, <2>2, <2>4, <3>1, CallsPush
  <2> QED
    BY <2>3, <2>5
<1>8. /\ KeyOK(kind, t, L, SuccIn(t, here, frame.index, TRUE))
      /\ frame.index < KeyIndex(t, SuccIn(t, here, frame.index, TRUE))
  BY <1>0, <1>3, SuccFacts
<1>9. (V[k + 1] = GoingLeft) = TRUE
  BY <1>0
<1> QED
  BY <1>7, <1>8, <1>9 DEF CallRight

\* The first k calls wait for r instead of going to the left.
Returns(frames, W, k, g, V, r) ==
    /\ k = Len(frames) /\ k # 0 /\ W[k] = GoingLeft
    /\ g \in Seq(Frames) /\ Len(g) = k
    /\ \A n \in 1..k : /\ g[n].index = frames[n].index /\ g[n].key = frames[n].key
                       /\ g[n].second = frames[n].second
    /\ V[k] = r
    /\ \A n \in 1..k-1 : V[n] = W[n]

\* The result for the left successors is there: now to the right.
LEMMA SecondStep ==
    ASSUME NEW kind \in Kinds, NEW goal, NEW t, NEW L, Ordered(t, L),
           NEW u, NEW F, Ordered(u, F),
           NEW frames, NEW W, CallsRight(kind, goal, t, L, u, F, frames, W),
           NEW r, ResultRight(kind, goal, t, u, F, frames, W, r),
           NEW k, NEW g, NEW V, Returns(frames, W, k, g, V, r)
    PROVE  /\ CallsRight(kind, goal, t, L, u, F, g, V)
           /\ CallRight(kind, goal, t, L, g, V, frames[k].second)
<1>0. /\ k = Len(frames) /\ k # 0 /\ W[k] = GoingLeft
      /\ g \in Seq(Frames) /\ Len(g) = k
      /\ \A n \in 1..k : /\ g[n].index = frames[n].index /\ g[n].key = frames[n].key
                         /\ g[n].second = frames[n].second
      /\ V[k] = r
      /\ \A n \in 1..k-1 : V[n] = W[n]
  BY DEF Returns
<1>1. frames \in Seq(Frames) /\ k \in Nat /\ k \in 1..k /\ (k - 1) + 1 = k /\ k - 1 \in Nat
      /\ (k + 1) - 1 = k /\ k + 1 # 1
  BY <1>0 DEF CallsRight
<1>2. /\ CallAt(kind, goal, t, L, u, F, frames, W, k)
      /\ FrameRight(kind, t, L, u, F, frames[k], W[k])
  BY <1>0, <1>1, FrameFacts
<1>3. Begins(frames, W, k - 1, g, V)
  BY <1>0, <1>1 DEF Begins
<1>4. r \in F /\ frames[k].index < u[r].index
      /\ Means(u, r) = ResultIn(kind, t, SuccIn(t, frames[k].key, frames[k].index, TRUE))
  <2>1. /\ r \in F /\ FloorAt(frames, k + 1) < u[r].index
        /\ Means(u, r) = GoalAt(kind, goal, t, frames, W, k + 1)
    BY <1>0 DEF ResultRight
  <2>2. /\ FloorAt(frames, k + 1) = frames[k].index
        /\ GoalAt(kind, goal, t, frames, W, k + 1) =
             ResultIn(kind, t, SuccIn(t, frames[k].key, frames[k].index, W[k] = GoingLeft))
    BY <1>0, <1>1 DEF FloorAt, GoalAt
  <2>3. (W[k] = GoingLeft) = TRUE
    BY <1>0
  <2> QED
    BY <2>1, <2>2, <2>3
<1>5. FrameRight(kind, t, L, u, F, g[k], V[k])
  <2>1. g[k] \in Frames
    BY <1>0, <1>1
  <2> QED
    BY <1>0, <1>1, <1>2, <1>4, <2>1 DEF FrameRight
<1>6. /\ CallsRight(kind, goal, t, L, u, F, g, V)
      /\ FloorAt(g, Len(g) + 1) = g[k].index
      /\ GoalAt(kind, goal, t, g, V, Len(g) + 1) =
           ResultIn(kind, t, SuccIn(t, g[k].key, g[k].index, V[k] = GoingLeft))
  <2> DEFINE j == k - 1
  <2>1. j + 1 = k /\ Begins(frames, W, j, g, V)
    BY <1>1, <1>3
  <2> HIDE DEF j
  <2>2. /\ FloorAt(frames, j + 1) < g[j + 1].index
        /\ ResultIn(kind, t, g[j + 1].key) = GoalAt(kind, goal, t, frames, W, j + 1)
        /\ Len(g) = j + 1 /\ FrameRight(kind, t, L, u, F, g[j + 1], V[j + 1])
    BY <1>0, <1>1, <1>2, <1>5, <2>1 DEF CallAt
  <2>3. /\ CallsRight(kind, goal, t, L, u, F, g, V)
        /\ FloorAt(g, Len(g) + 1) = g[j + 1].index
        /\ GoalAt(kind, goal, t, g, V, Len(g) + 1) =
             ResultIn(kind, t, SuccIn(t, g[j + 1].key, g[j + 1].index, V[j + 1] = GoingLeft))
    BY <2>1, <2>2, CallsPush
  <2> QED
    BY <2>1, <2>3
<1>7. r # GoingLeft
  <2>1. r \in Nat
    BY <1>4 DEF Ordered
  <2> QED
    BY <2>1 DEF GoingLeft
<1>8. /\ KeyOK(kind, t, L, frames[k].key) /\ Proper(kind, t, frames[k].key)
      /\ frames[k].index = KeyIndex(t, frames[k].key) /\ frames[k].index < Vars
      /\ frames[k].second = SuccIn(t, frames[k].key, frames[k].index, FALSE)
  BY <1>2 DEF FrameRight
<1>9. /\ KeyOK(kind, t, L, frames[k].second)
      /\ frames[k].index < KeyIndex(t, frames[k].second)
  <2>1. \A left \in BOOLEAN :
          /\ KeyOK(kind, t, L, SuccIn(t, frames[k].key, frames[k].index, left))
          /\ frames[k].index < KeyIndex(t, SuccIn(t, frames[k].key, frames[k].index, left))
    BY <1>8, SuccFacts
  <2> QED
    BY <1>8, <2>1
<1>10. g[k].index = frames[k].index /\ g[k].key = frames[k].key /\ (V[k] = GoingLeft) = FALSE
  BY <1>0, <1>1, <1>7
<1>11. GoalAt(kind, goal, t, g, V, Len(g) + 1) = ResultIn(kind, t, frames[k].second)
  BY <1>6, <1>8, <1>10
<1> QED
  BY <1>0, <1>6, <1>9, <1>10, <1>11 DEF CallRight

\* The results w and r are those of both calls for the successors of the call k.
BothRight(kind, goal, t, L, u, F, frames, W, k, w, r, i) ==
    /\ i \in 0..Vars-1 /\ w \in F /\ r \in F
    /\ i < u[w].index /\ i < u[r].index
    /\ FloorAt(frames, k) < i
    /\ KeyOK(kind, t, L, frames[k].key) /\ KeyIndex(t, frames[k].key) = i
    /\ ResultIn(kind, t, frames[k].key) = GoalAt(kind, goal, t, frames, W, k)
    /\ ResultIn(kind, t, frames[k].key) = Choice(i, Means(u, w), Means(u, r))
    /\ w = r => Means(u, r) = ResultIn(kind, t, frames[k].key)

LEMMA ThirdStep ==
    ASSUME NEW kind \in Kinds, NEW goal, NEW t, NEW L, Ordered(t, L),
           NEW u, NEW F, Ordered(u, F),
           NEW frames, NEW W, CallsRight(kind, goal, t, L, u, F, frames, W),
           NEW k, k = Len(frames), k # 0, NEW w, W[k] = w, w # GoingLeft,
           NEW r, ResultRight(kind, goal, t, u, F, frames, W, r),
           NEW i, i = frames[k].index
    PROVE  BothRight(kind, goal, t, L, u, F, frames, W, k, w, r, i)
<1>1. frames \in Seq(Frames) /\ k \in Nat /\ k \in 1..k
      /\ (k + 1) - 1 = k /\ k + 1 # 1
  BY DEF CallsRight
<1>2. /\ CallAt(kind, goal, t, L, u, F, frames, W, k)
      /\ FrameRight(kind, t, L, u, F, frames[k], W[k]) /\ i \in 0..Vars-1
  BY <1>1, FrameFacts
<1>3. /\ r \in F /\ FloorAt(frames, k + 1) < u[r].index
      /\ Means(u, r) = GoalAt(kind, goal, t, frames, W, k + 1)
  BY DEF ResultRight
<1>4. /\ FloorAt(frames, k + 1) = i
      /\ GoalAt(kind, goal, t, frames, W, k + 1) =
           ResultIn(kind, t, SuccIn(t, frames[k].key, i, W[k] = GoingLeft))
  BY <1>1 DEF FloorAt, GoalAt
<1>5. (W[k] = GoingLeft) = FALSE
  OBVIOUS
<1>6. /\ KeyOK(kind, t, L, frames[k].key) /\ Proper(kind, t, frames[k].key)
      /\ i = KeyIndex(t, frames[k].key) /\ i < Vars
      /\ w \in F /\ i < u[w].index
      /\ Means(u, w) = ResultIn(kind, t, SuccIn(t, frames[k].key, i, TRUE))
  BY <1>2 DEF FrameRight
<1>7. Means(u, r) = ResultIn(kind, t, SuccIn(t, frames[k].key, i, FALSE))
  BY <1>3, <1>4, <1>5
<1>8. ResultIn(kind, t, frames[k].key) = Choice(i, Means(u, w), Means(u, r))
  <2>1. ResultIn(kind, t, frames[k].key) =
          Choice(i, ResultIn(kind, t, SuccIn(t, frames[k].key, i, TRUE)),
                    ResultIn(kind, t, SuccIn(t, frames[k].key, i, FALSE)))
    BY <1>6, ResultSplits
  <2> QED
    BY <1>6, <1>7, <2>1
<1>9. w = r => Means(u, r) = ResultIn(kind, t, frames[k].key)
  <2>1. Means(u, r) \in Denotations
    BY <1>3, MeansType
  <2>2. Choice(i, Means(u, r), Means(u, r)) = Means(u, r)
    BY <2>1 DEF Choice, Denotations
  <2> QED
    BY <1>8, <2>2
<1> QED
  BY <1>2, <1>3, <1>4, <1>6, <1>8, <1>9 DEF CallAt, BothRight

\* The calls are for larger and larger indices.
LEMMA IndicesGrow ==
    ASSUME NEW kind \in Kinds, NEW goal, NEW t, NEW L, Ordered(t, L), NEW u, NEW F,
           NEW frames, NEW W, CallsRight(kind, goal, t, L, u, F, frames, W),
           NEW n \in 1..Len(frames)
    PROVE  frames[n].index <= FloorAt(frames, Len(frames) + 1)
<1>1. frames \in Seq(Frames) /\ Len(frames) \in Nat
  BY DEF CallsRight
<1>2. \A k \in 1..Len(frames) :
        /\ frames[k].index \in Int /\ FloorAt(frames, k) < frames[k].index
        /\ FloorAt(frames, k + 1) = frames[k].index
  <2> SUFFICES ASSUME NEW k \in 1..Len(frames)
               PROVE  /\ frames[k].index \in Int /\ FloorAt(frames, k) < frames[k].index
                      /\ FloorAt(frames, k + 1) = frames[k].index
    OBVIOUS
  <2>1. CallAt(kind, goal, t, L, u, F, frames, W, k) /\ frames[k].index \in Int
    BY FrameFacts
  <2>2. k + 1 # 1 /\ (k + 1) - 1 = k
    BY <1>1
  <2> QED
    BY <2>1, <2>2 DEF CallAt, FloorAt
<1> DEFINE S == {d \in Nat : n + d <= Len(frames) => frames[n].index <= frames[n + d].index}
<1>3. 0 \in S
  BY <1>1, <1>2
<1>4. ASSUME NEW d \in S
      PROVE  d + 1 \in S
  <2> SUFFICES ASSUME n + (d + 1) <= Len(frames)
               PROVE  frames[n].index <= frames[n + (d + 1)].index
    OBVIOUS
  <2> DEFINE m == n + d
  <2>1. m \in 1..Len(frames) /\ m + 1 \in 1..Len(frames) /\ n + (d + 1) = m + 1
        /\ frames[n].index <= frames[m].index
    BY <1>1
  <2> HIDE DEF m
  <2>2. frames[m].index < frames[m + 1].index
    BY <1>2, <2>1
  <2>3. /\ frames[n].index \in Int /\ frames[m].index \in Int
        /\ frames[m + 1].index \in Int
    BY <1>2, <2>1
  <2>4. frames[n].index <= frames[m + 1].index
    BY <2>1, <2>2, <2>3
  <2> QED
    BY <2>1, <2>4
<1> HIDE DEF S
<1>5. \A d \in Nat : d \in S
  <2>1. S \in SUBSET Nat
    BY DEF S
  <2> QED
    BY <1>3, <1>4, <2>1, Induction
<1>6. Len(frames) - n \in S /\ n + (Len(frames) - n) = Len(frames) /\ Len(frames) \in 1..Len(frames)
  BY <1>1, <1>5
<1>7. frames[n].index <= frames[Len(frames)].index
  BY <1>6 DEF S
<1> QED
  BY <1>2, <1>6, <1>7
-----------------------------------------------------------------------------
(* What is remembered, when tables change.                                   *)

\* Tables with the same nodes at K, and perhaps others.
LEMMA CarriesStays ==
    ASSUME NEW t, NEW K, NEW u, NEW G
    PROVE  Carries(t, K, u, G, <<>>) <=>
             /\ Ordered(t, K) /\ Ordered(u, G)
             /\ \A a \in K : a \in G /\ u[a] = t[a]
<1>1. ASSUME Ordered(t, K)
      PROVE  \A a \in K : Relocated(t[a], <<>>) = t[a]
  <2>1. t \in Seq(Nodes) /\ K \subseteq DOMAIN t
    BY <1>1 DEF Ordered
  <2> QED
    BY <2>1, StayFacts
<1> QED
  BY <1>1, StayFacts DEF Carries

LEMMA CarriedStays ==
    ASSUME NEW t, NEW K, NEW u, NEW G, Carries(t, K, u, G, <<>>), NEW a \in K
    PROVE  a \in G /\ u[a] = t[a] /\ Means(u, a) = Means(t, a)
<1>1. a \in G /\ u[a] = t[a]
  BY CarriesStays
<1>2. Means(u, NewPlace(<<>>, a)) = Means(t, a)
  BY CarriedMeans
<1> QED
  BY <1>1, <1>2, StayFacts

LEMMA EntryStays ==
    ASSUME NEW t, NEW t2, Carries(t, DOMAIN t, t2, DOMAIN t2, <<>>),
           NEW u, NEW K, NEW u2, NEW G, Carries(u, K, u2, G, <<>>),
           NEW kind, NEW key, KeyTyped(t, key),
           NEW r \in K, EntryRight(kind, t, u, key, r)
    PROVE  r \in G /\ KeyTyped(t2, key) /\ EntryRight(kind, t2, u2, key, r)
<1>1. r \in G /\ u2[r] = u[r] /\ Means(u2, r) = Means(u, r)
  BY CarriedStays
<1>2. \A a \in DOMAIN t : a \in DOMAIN t2 /\ t2[a] = t[a] /\ Means(t2, a) = Means(t, a)
  BY CarriedStays
<1>3. /\ KeyTyped(t2, key)
      /\ IndexIn(t2, key[1]) = IndexIn(t, key[1]) /\ IndexIn(t2, key[2]) = IndexIn(t, key[2])
  BY <1>2 DEF KeyTyped, IndexIn
<1>4. KeyIndex(t2, key) = KeyIndex(t, key)
  BY <1>3 DEF KeyIndex
<1>5. ResultIn(kind, t2, key) = ResultIn(kind, t, key)
  <2>1. /\ Means(t2, key[1]) = Means(t, key[1])
        /\ key[2] # Nowhere => Means(t2, key[2]) = Means(t, key[2])
    BY <1>2 DEF KeyTyped
  <2> QED
    BY <2>1, ResultCases
<1> QED
  BY <1>1, <1>3, <1>4, <1>5 DEF EntryRight

LEMMA CacheStays ==
    ASSUME NEW t, NEW t2, Carries(t, DOMAIN t, t2, DOMAIN t2, <<>>),
           NEW u, NEW open, NEW u2, NEW open2, DOMAIN u \subseteq DOMAIN u2,
           Carries(u, DOMAIN u \ open, u2, DOMAIN u2 \ open2, <<>>),
           NEW kind, NEW cache, CacheRight(kind, t, u, cache, open),
           \A key \in DOMAIN cache : cache[key] \in open /\ cache[key] \notin open2 =>
             EntryRight(kind, t2, u2, key, cache[key])
    PROVE  CacheRight(kind, t2, u2, cache, open2)
<1>1. ASSUME NEW key \in DOMAIN cache
      PROVE  /\ KeyTyped(t2, key) /\ cache[key] \in DOMAIN u2
             /\ cache[key] \notin open2 => EntryRight(kind, t2, u2, key, cache[key])
  <2>1. KeyTyped(t, key) /\ cache[key] \in DOMAIN u
    BY <1>1 DEF CacheRight
  <2>2. KeyTyped(t2, key)
    BY <2>1, CarriedStays DEF KeyTyped
  <2>3. ASSUME cache[key] \notin open
        PROVE  EntryRight(kind, t2, u2, key, cache[key])
    <3>1. EntryRight(kind, t, u, key, cache[key])
      BY <2>3 DEF CacheRight
    <3> QED
      BY <2>1, <2>3, <3>1, EntryStays
  <2> QED
    BY <2>1, <2>2, <2>3
<1> QED
  BY <1>1 DEF CacheRight

\* insert_cache
CacheGrows(cache, key, r, c) ==
    \A k \in DOMAIN c : (k \in DOMAIN cache /\ c[k] = cache[k]) \/ (k = key /\ c[k] = r)

MayAdd(kind, t, m, open, key, r) ==
    /\ m \in Managers /\ key \in Nat \X Nat /\ r \in DOMAIN m.table
    /\ CacheRight(kind, t, m.table, m.cache, open) /\ KeyTyped(t, key)
    /\ r \notin open => EntryRight(kind, t, m.table, key, r)
Added(kind, t, m, open, key, r, m2) ==
    /\ m2 \in Managers
    /\ m2.table = m.table /\ m2.roots = m.roots /\ m2.trigger = m.trigger
    /\ CacheRight(kind, t, m.table, m2.cache, open)
    /\ CacheGrows(m.cache, key, r, m2.cache)

LEMMA CachedRight ==
    ASSUME NEW kind, NEW t, NEW m, NEW open, NEW key, NEW r, MayAdd(kind, t, m, open, key, r),
           NEW at, NEW m2 \in Cached(m, key, at, r)
    PROVE  Added(kind, t, m, open, key, r, m2)
<1>0. /\ m \in Managers /\ key \in Nat \X Nat /\ r \in DOMAIN m.table /\ m.table \in Seq(Nodes)
      /\ CacheRight(kind, t, m.table, m.cache, open) /\ KeyTyped(t, key)
      /\ r \notin open => EntryRight(kind, t, m.table, key, r)
  BY ManagerFacts DEF MayAdd
<1> DEFINE c == [k \in DOMAIN m.cache \cup {key} |-> IF k = key THEN r ELSE m.cache[k]]
<1>1. m = [table |-> m.table, roots |-> m.roots, trigger |-> m.trigger, cache |-> m.cache]
      /\ m.cache \in Caches
  BY <1>0, ManagerFacts
<1>2. r \in Nat \ {0}
  BY <1>0, NodeFacts
<1>3. c \in Caches
  <2>1. PICK D \in SUBSET (Nat \X Nat) : m.cache \in [D -> Nat \ {0}]
    BY <1>1 DEF Caches
  <2>2. c \in [D \cup {key} -> Nat \ {0}]
    BY <1>2, <2>1
  <2>3. D \cup {key} \in SUBSET (Nat \X Nat)
    BY <1>0
  <2> HIDE DEF c
  <2> QED
    BY <2>2, <2>3 DEF Caches
<1>4. CacheGrows(m.cache, key, r, c)
  BY DEF CacheGrows
<1>5. CacheRight(kind, t, m.table, c, open)
  <2> HIDE DEF c
  <2> QED
    BY <1>0, <1>4 DEF CacheRight, CacheGrows
<1>6. m2 = m \/ m2 = [m EXCEPT !.cache = c]
  BY DEF Cached
<1> HIDE DEF c
<1>7. CASE m2 = m
  BY <1>0, <1>7 DEF Added, CacheGrows
<1>8. CASE m2 = [m EXCEPT !.cache = c]
  <2>1. m2 = [table |-> m.table, roots |-> m.roots, trigger |-> m.trigger, cache |-> c]
    BY <1>1, <1>8
  <2>2. m2 \in Managers
    BY <1>0, <1>3, <2>1, ManagerFacts DEF Managers
  <2> QED
    BY <1>4, <1>5, <2>1, <2>2 DEF Added
<1> QED
  BY <1>6, <1>7, <1>8

-----------------------------------------------------------------------------
(* The managers after a search.                                              *)

LEMMA OneKept ==
    ASSUME NEW m, NEW node, NEW list, NEW f, FoundRight(m, node, list, f), f.to = <<>>
    PROVE  /\ Carries(m.table, DOMAIN m.table, f.m.table, DOMAIN f.m.table, <<>>)
           /\ f.m.cache = m.cache
BY DEF FoundRight, Kept

LEMMA CacheFound ==
    ASSUME NEW m, NEW node, NEW list, NEW f, FoundRight(m, node, list, f), f.to # <<>>
    PROVE  DOMAIN f.m.cache = {}
<1>1. f.m.cache = <<>>
  BY DEF FoundRight, Kept
<1> QED
  BY <1>1, EmptyCache

LEMMA RootsFound ==
    ASSUME NEW m \in Managers, NEW node, NEW list, NEW f, FoundRight(m, node, list, f),
           NEW means, RootsRight(m, DOMAIN m.table, means)
    PROVE  RootsRight(f.m, DOMAIN f.m.table, means)
<1>1. PICK K : Kept(m, K, f.m, f.to)
  BY DEF FoundRight
<1>2. /\ means \in Seq(Denotations) /\ Len(m.roots) = Len(means)
      /\ \A n \in 1..Len(means) : Means(m.table, m.roots[n]) = means[n]
  BY DEF RootsRight
<1>3. m.roots \in Seq(Nat) /\ DOMAIN m.roots = 1..Len(means) /\ Len(means) \in Nat
  BY <1>2, ManagerFacts
<1>4. f.m.roots = [n \in 1..Len(means) |-> NewPlace(f.to, m.roots[n])]
  BY <1>1, <1>3 DEF Kept
<1>5. f.m.roots \in Seq(Nat)
  BY ManagerFacts DEF FoundRight
<1>6. Len(f.m.roots) = Len(means)
  BY <1>3, <1>4, <1>5
<1>7. ASSUME NEW n \in 1..Len(means)
      PROVE  f.m.roots[n] \in DOMAIN f.m.table /\ Means(f.m.table, f.m.roots[n]) = means[n]
  <2>1. m.roots[n] \in K /\ Carries(m.table, K, f.m.table, DOMAIN f.m.table, f.to)
    <3>1. m.roots[n] \in ToSet(m.roots)
      BY <1>3, <1>7 DEF ToSet
    <3> QED
      BY <1>1, <3>1 DEF Kept
  <2>2. f.m.roots[n] = NewPlace(f.to, m.roots[n])
    BY <1>4, <1>7
  <2>3. Means(f.m.table, NewPlace(f.to, m.roots[n])) = Means(m.table, m.roots[n])
    BY <2>1, CarriedMeans
  <2>4. NewPlace(f.to, m.roots[n]) \in DOMAIN f.m.table
    BY <2>1, CarriedNode
  <2> QED
    BY <1>2, <1>7, <2>2, <2>3, <2>4
<1> QED
  BY <1>2, <1>6, <1>7 DEF RootsRight

LEMMA CacheKept ==
    ASSUME NEW m, NEW node, NEW list, NEW f, FoundRight(m, node, list, f),
           NEW t, NEW t2, f.to = <<>> => Carries(t, DOMAIN t, t2, DOMAIN t2, <<>>),
           NEW kind, CacheRight(kind, t, m.table, m.cache, {})
    PROVE  CacheRight(kind, t2, f.m.table, f.m.cache, {})
<1>1. CASE f.to # <<>>
  BY <1>1, CacheFound DEF CacheRight
<1>2. CASE f.to = <<>>
  <2>1. /\ Carries(m.table, DOMAIN m.table, f.m.table, DOMAIN f.m.table, <<>>)
        /\ f.m.cache = m.cache
    BY <1>2, OneKept
  <2>2. DOMAIN m.table \ {} = DOMAIN m.table /\ DOMAIN f.m.table \ {} = DOMAIN f.m.table
    OBVIOUS
  <2>3. DOMAIN m.table \subseteq DOMAIN f.m.table
    BY <2>1, CarriedStays
  <2>4. Carries(m.table, DOMAIN m.table \ {}, f.m.table, DOMAIN f.m.table \ {}, <<>>)
    BY <2>1, <2>2
  <2>5. CacheRight(kind, t2, f.m.table, m.cache, {})
    BY <1>2, <2>3, <2>4, CacheStays
  <2> QED
    BY <2>1, <2>5
<1> QED
  BY <1>1, <1>2

LEMMA TmpFound ==
    ASSUME NEW m, NEW means, TmpRight(m, means),
           NEW node, NEW list, NEW f, FoundRight(m, node, list, f)
    PROVE  TmpRight(f.m, means)
<1>1. f.to = <<>> => Carries(m.table, DOMAIN m.table, f.m.table, DOMAIN f.m.table, <<>>)
  BY OneKept
<1>2. CacheRight("hashed", f.m.table, f.m.table, f.m.cache, {})
  BY <1>1, CacheKept DEF TmpRight
<1>3. RootsRight(f.m, DOMAIN f.m.table, means)
  BY RootsFound DEF TmpRight
<1> QED
  BY <1>2, <1>3 DEF TmpRight, FoundRight

LEMMA AutFound ==
    ASSUME NEW kind \in {"apply1", "project"}, NEW t, Ordered(t, DOMAIN t),
           NEW m, NEW means, AutRight(kind, t, m, means, {}),
           NEW node, NEW list, NEW f, FoundRight(m, node, list, f)
    PROVE  AutRight(kind, t, f.m, means, {})
<1>1. Carries(t, DOMAIN t, t, DOMAIN t, <<>>)
  BY CarriesSelf
<1>2. CacheRight(kind, t, f.m.table, f.m.cache, {})
  BY <1>1, CacheKept DEF AutRight
<1>3. DOMAIN m.table \ {} = DOMAIN m.table /\ DOMAIN f.m.table \ {} = DOMAIN f.m.table
  OBVIOUS
<1>4. RootsRight(f.m, DOMAIN f.m.table, means)
  BY <1>3, RootsFound DEF AutRight
<1>5. kind = "apply1" => DOMAIN f.m.cache = {}
  <2>1. kind = "apply1" => DOMAIN m.cache = {}
    BY DEF AutRight
  <2> QED
    BY <2>1, OneKept, CacheFound
<1>6. f.m \in Managers /\ Ordered(f.m.table, DOMAIN f.m.table) /\ Reduced(f.m.table)
  BY DEF FoundRight, Sound
<1> QED
  BY <1>2, <1>3, <1>4, <1>5, <1>6 DEF AutRight

\* The marks after a search in tmp.
LEMMA MarksTmp ==
    ASSUME NEW kind \in {"none", "apply1"}, NEW t, NEW u, NEW f, MarksRight(kind, t, u, f),
           Ordered(u, DOMAIN u), NEW t2, NEW doubled \in BOOLEAN,
           ~ doubled => Carries(t, DOMAIN t, t2, DOMAIN t2, <<>>),
           NEW h, h = [a \in DOMAIN t2 |-> IF doubled \/ a \notin DOMAIN f THEN Nowhere ELSE f[a]]
    PROVE  MarksRight(kind, t2, u, h)
<1>1. f \in [DOMAIN t -> Nat]
  BY DEF MarksRight
<1>2. h \in [DOMAIN t2 -> Nat]
  BY <1>1 DEF Nowhere
<1>3. ASSUME NEW a \in DOMAIN h, h[a] # Nowhere
      PROVE  h[a] \in DOMAIN u /\ EntryRight("apply1", t2, u, <<a, Nowhere>>, h[a])
  <2>1. ~ doubled /\ a \in DOMAIN f /\ h[a] = f[a]
    BY <1>3
  <2>2. f[a] \in DOMAIN u /\ EntryRight("apply1", t, u, <<a, Nowhere>>, f[a])
    BY <1>3, <2>1 DEF MarksRight
  <2>3. Carries(u, DOMAIN u, u, DOMAIN u, <<>>)
    BY CarriesSelf
  <2>4. KeyTyped(t, <<a, Nowhere>>)
    BY <1>1, <2>1 DEF KeyTyped
  <2>5. EntryRight("apply1", t2, u, <<a, Nowhere>>, f[a])
    BY <2>1, <2>2, <2>3, <2>4, EntryStays
  <2> QED
    BY <2>1, <2>2, <2>5
<1> QED
  BY <1>2, <1>3 DEF MarksRight

\* The marks after a search in aut for the node at a.
LEMMA MarksAut ==
    ASSUME NEW kind, NEW t, Ordered(t, DOMAIN t), NEW u, NEW f, MarksRight(kind, t, u, f),
           kind = "apply1",
           NEW u2 \in Seq(Nodes), NEW doubled \in BOOLEAN,
           ~ doubled => Carries(u, DOMAIN u, u2, DOMAIN u2, <<>>),
           NEW a \in DOMAIN t, NEW r \in DOMAIN u2,
           EntryRight("apply1", t, u2, <<a, Nowhere>>, r),
           NEW h, h = [b \in DOMAIN f |-> IF b = a THEN r ELSE IF doubled THEN Nowhere ELSE f[b]]
    PROVE  MarksRight(kind, t, u2, h)
<1>1. f \in [DOMAIN t -> Nat]
  BY DEF MarksRight
<1>2. r \in Nat
  BY NodeFacts
<1>3. h \in [DOMAIN t -> Nat]
  BY <1>1, <1>2 DEF Nowhere
<1>4. ASSUME NEW b \in DOMAIN h, h[b] # Nowhere
      PROVE  h[b] \in DOMAIN u2 /\ EntryRight("apply1", t, u2, <<b, Nowhere>>, h[b])
  <2>1. CASE b = a
    <3>1. h[b] = r
      BY <1>4, <2>1
    <3> QED
      BY <2>1, <3>1
  <2>2. CASE b # a
    <3>1. ~ doubled /\ b \in DOMAIN f /\ h[b] = f[b]
      BY <1>4, <2>2
    <3>2. f[b] \in DOMAIN u /\ EntryRight("apply1", t, u, <<b, Nowhere>>, f[b])
      BY <1>4, <3>1 DEF MarksRight
    <3>3. Carries(t, DOMAIN t, t, DOMAIN t, <<>>)
      BY CarriesSelf
    <3>4. KeyTyped(t, <<b, Nowhere>>)
      BY <1>1, <3>1 DEF KeyTyped
    <3>5. f[b] \in DOMAIN u2 /\ EntryRight("apply1", t, u2, <<b, Nowhere>>, f[b])
      BY <3>1, <3>2, <3>3, <3>4, EntryStays
    <3> QED
      BY <3>1, <3>5
  <2> QED
    BY <2>1, <2>2
<1> QED
  BY <1>3, <1>4 DEF MarksRight

\* A root more.
LEMMA RootsAdd ==
    ASSUME NEW m \in Managers, NEW F \in SUBSET Nat, NEW means, RootsRight(m, F, means),
           NEW r \in F, NEW goal \in Denotations, Means(m.table, r) = goal
    PROVE  /\ Root(m, r).table = m.table /\ Root(m, r).cache = m.cache
           /\ Root(m, r).roots = Append(m.roots, r)
           /\ Root(m, r) \in Managers
           /\ RootsRight(Root(m, r), F, Append(means, goal))
<1>1. m = [table |-> m.table, roots |-> m.roots, trigger |-> m.trigger, cache |-> m.cache]
      /\ m.roots \in Seq(Nat)
  BY ManagerFacts
<1>3. Append(m.roots, r) \in Seq(Nat)
  BY <1>1
<1>2. /\ Root(m, r).table = m.table /\ Root(m, r).roots = Append(m.roots, r)
      /\ Root(m, r).cache = m.cache
      /\ Append(m.roots, r) \in Seq(Nat) => Root(m, r) \in Managers
  BY ManagerFacts DEF Root, Managers
<1>4. Root(m, r) \in Managers
  BY <1>2, <1>3
<1>5. /\ means \in Seq(Denotations) /\ Len(m.roots) = Len(means) /\ Len(means) \in Nat
      /\ \A n \in 1..Len(means) : m.roots[n] \in F /\ Means(m.table, m.roots[n]) = means[n]
  BY DEF RootsRight
<1>6. /\ Len(Append(m.roots, r)) = Len(means) + 1
      /\ \A n \in 1..Len(means) : Append(m.roots, r)[n] = m.roots[n]
      /\ Append(m.roots, r)[Len(means) + 1] = r
  BY <1>1, <1>5, AppendFacts
<1>7. /\ Append(means, goal) \in Seq(Denotations)
      /\ Len(Append(means, goal)) = Len(means) + 1
      /\ \A n \in 1..Len(means) : Append(means, goal)[n] = means[n]
      /\ Append(means, goal)[Len(means) + 1] = goal
  BY <1>5, AppendFacts
<1>8. \A n \in 1..Len(means)+1 : n \in 1..Len(means) \/ n = Len(means) + 1
  BY <1>5
<1> DEFINE s == Append(m.roots, r)
           v == Append(means, goal)
<1> HIDE DEF s, v
<1>9. /\ v \in Seq(Denotations) /\ Len(s) = Len(v)
      /\ \A n \in 1..Len(v) : s[n] \in F /\ Means(m.table, s[n]) = v[n]
  BY <1>5, <1>6, <1>7, <1>8 DEF s, v
<1> QED
  BY <1>2, <1>4, <1>9 DEF RootsRight, s, v

LEMMA FloorType ==
    ASSUME NEW kind \in Kinds, NEW goal, NEW t, NEW L, Ordered(t, L), NEW u, NEW F,
           NEW frames, NEW W, CallsRight(kind, goal, t, L, u, F, frames, W),
           NEW n \in 1..Len(frames)+1
    PROVE  FloorAt(frames, n) \in -1..Vars-1
<1>1. frames \in Seq(Frames) /\ Len(frames) \in Nat
  BY DEF CallsRight
<1>2. n # 1 => n - 1 \in 1..Len(frames)
  BY <1>1
<1>3. \A k \in 1..Len(frames) : frames[k].index \in 0..Vars-1
  BY FrameFacts
<1> QED
  BY <1>2, <1>3, VarsFacts DEF FloorAt

\* insert_cache in the two managers.
MayEnter(kind, t, L, u, key, r) ==
    /\ Ordered(t, L) /\ KeyOK(kind, t, L, key)
    /\ r \in DOMAIN u /\ EntryRight(kind, t, u, key, r)
SameNodes(m, m2) == m2.table = m.table /\ m2.roots = m.roots

LEMMA TmpCached ==
    ASSUME NEW m, NEW means, TmpRight(m, means), NEW at, NEW r, NEW L, NEW key,
           MayEnter("hashed", m.table, L, m.table, key, r),
           NEW m2 \in Cached(m, key, at, r)
    PROVE  TmpRight(m2, means) /\ SameNodes(m, m2)
<1>0. /\ r \in DOMAIN m.table /\ Ordered(m.table, L) /\ KeyOK("hashed", m.table, L, key)
      /\ EntryRight("hashed", m.table, m.table, key, r)
  BY DEF MayEnter
<1>1. m \in Managers /\ m.table \in Seq(Nodes) /\ Sound(m.table)
      /\ RootsRight(m, DOMAIN m.table, means)
      /\ CacheRight("hashed", m.table, m.table, m.cache, {})
  BY ManagerFacts DEF TmpRight
<1>2. key \in Nat \X Nat /\ KeyTyped(m.table, key)
  <2>1. "hashed" \in Kinds /\ L \subseteq DOMAIN m.table
    BY <1>0 DEF Kinds, Ordered
  <2> QED
    BY <1>0, <2>1, KeyFacts DEF KeyTyped
<1>3. /\ m2 \in Managers /\ m2.table = m.table /\ m2.roots = m.roots
      /\ CacheRight("hashed", m.table, m.table, m2.cache, {})
  <2>1. MayAdd("hashed", m.table, m, {}, key, r)
    BY <1>0, <1>1, <1>2 DEF MayAdd
  <2>2. Added("hashed", m.table, m, {}, key, r, m2)
    BY <2>1, CachedRight
  <2> QED
    BY <2>2 DEF Added
<1> QED
  BY <1>1, <1>3 DEF TmpRight, RootsRight, SameNodes

LEMMA AutCached ==
    ASSUME NEW kind \in {"project", "sequential"}, NEW t, NEW m, NEW means, NEW open,
           AutRight(kind, t, m, means, open), NEW at, NEW r \in DOMAIN m.table,
           NEW L, Ordered(t, L), NEW key, KeyOK(kind, t, L, key),
           r \notin open => EntryRight(kind, t, m.table, key, r),
           NEW m2 \in Cached(m, key, at, r)
    PROVE  /\ AutRight(kind, t, m2, means, open) /\ m2.table = m.table
           /\ CacheGrows(m.cache, key, r, m2.cache)
<1>1. m \in Managers /\ m.table \in Seq(Nodes)
      /\ RootsRight(m, DOMAIN m.table \ open, means)
      /\ CacheRight(kind, t, m.table, m.cache, open)
  BY ManagerFacts DEF AutRight
<1>2. key \in Nat \X Nat /\ KeyTyped(t, key)
  <2>1. kind \in Kinds /\ L \subseteq DOMAIN t
    BY DEF Kinds, Ordered
  <2> QED
    BY <2>1, KeyFacts DEF KeyTyped
<1>3. /\ m2 \in Managers /\ m2.table = m.table /\ m2.roots = m.roots
      /\ CacheRight(kind, t, m.table, m2.cache, open)
      /\ CacheGrows(m.cache, key, r, m2.cache)
  <2>1. MayAdd(kind, t, m, open, key, r)
    BY <1>1, <1>2 DEF MayAdd
  <2>2. Added(kind, t, m, open, key, r, m2)
    BY <2>1, CachedRight
  <2> QED
    BY <2>2 DEF Added
<1>4. RootsRight(m2, DOMAIN m2.table \ open, means)
  BY <1>1, <1>3 DEF RootsRight
<1>5. /\ Ordered(m2.table, DOMAIN m2.table \ open)
      /\ kind # "sequential" => open = {} /\ Reduced(m2.table)
  BY <1>3 DEF AutRight
<1>6. kind \notin {"none", "apply1"}
  OBVIOUS
<1> QED
  BY <1>3, <1>4, <1>5, <1>6 DEF AutRight

\* While there is no cache, tmp does not matter to aut.
LEMMA AutTmp ==
    ASSUME NEW kind \in {"none", "apply1"}, NEW t, NEW t2, NEW m, NEW means,
           AutRight(kind, t, m, means, {})
    PROVE  AutRight(kind, t2, m, means, {})
<1>1. DOMAIN m.cache = {}
  BY DEF AutRight
<1>2. CacheRight(kind, t2, m.table, m.cache, {})
  BY <1>1 DEF CacheRight
<1> QED
  BY <1>2 DEF AutRight

\* aut gets its use.
LEMMA AutUse ==
    ASSUME NEW kind \in {"apply1", "project", "sequential"}, NEW t, NEW m, NEW means,
           AutRight("none", t, m, means, {})
    PROVE  AutRight(kind, t, m, means, {})
<1>1. DOMAIN m.cache = {}
  BY DEF AutRight
<1>2. CacheRight(kind, t, m.table, m.cache, {})
  BY <1>1 DEF CacheRight
<1> QED
  BY <1>1, <1>2 DEF AutRight

LEMMA MarksUse ==
    ASSUME NEW kind \in {"apply1", "project", "sequential"}, NEW t, NEW u, NEW f,
           MarksRight("none", t, u, f)
    PROVE  MarksRight(kind, t, u, f)
BY DEF MarksRight

-----------------------------------------------------------------------------
(* The calls after a step.                                                   *)

LEMMA CallsGrow ==
    ASSUME NEW kind, NEW goal, NEW t, NEW L, NEW u, NEW F, NEW u2, NEW F2,
           Carries(u, F, u2, F2, <<>>),
           NEW frames, NEW W, CallsRight(kind, goal, t, L, u, F, frames, W)
    PROVE  CallsRight(kind, goal, t, L, u2, F2, frames, W)
<1>1. ASSUME NEW n \in 1..Len(frames)
      PROVE  CallAt(kind, goal, t, L, u2, F2, frames, W, n)
  <2>1. CallAt(kind, goal, t, L, u, F, frames, W, n)
    BY DEF CallsRight
  <2>2. FrameRight(kind, t, L, u, F, frames[n], W[n])
    BY <2>1 DEF CallAt
  <2>3. W[n] \in F => W[n] \in F2 /\ u2[W[n]] = u[W[n]] /\ Means(u2, W[n]) = Means(u, W[n])
    BY CarriedStays
  <2>4. FrameRight(kind, t, L, u2, F2, frames[n], W[n])
    BY <2>2, <2>3 DEF FrameRight
  <2> QED
    BY <2>1, <2>4 DEF CallAt
<1> QED
  BY <1>1 DEF CallsRight

LEMMA PairMoves ==
    ASSUME NEW key \in Nat \X Nat
    PROVE  Moves(key, <<>>) = key
BY StayFacts DEF Moves

LEMMA FollowSame ==
    ASSUME NEW frames \in Seq(Frames)
    PROVE  Follows(frames, <<>>, frames)
<1>1. ASSUME NEW n \in 1..Len(frames)
      PROVE  frames[n].key \in Nat \X Nat /\ frames[n].second \in Nat \X Nat
  <2>1. frames[n] \in Frames
    OBVIOUS
  <2> QED
    BY <2>1 DEF Frames
<1> QED
  BY <1>1, PairMoves DEF Follows

LEMMA FollowMoved ==
    ASSUME NEW t, NEW L, NEW t2, NEW L2, NEW to, Carries(t, L, t2, L2, to),
           NEW kind \in Kinds, NEW goal, NEW u, NEW F, NEW frames, NEW W,
           CallsRight(kind, goal, t, L, u, F, frames, W),
           NEW g, g = MovedFrames(frames, to)
    PROVE  Follows(frames, to, g)
<1>1. frames \in Seq(Frames) /\ Len(frames) \in Nat /\ DOMAIN frames = 1..Len(frames)
  BY DEF CallsRight
<1>2. Ordered(t, L) /\ Ordered(t2, L2)
  BY DEF Carries
<1>3. ASSUME NEW n \in 1..Len(frames)
      PROVE  /\ g[n] \in Frames
             /\ g[n].index = frames[n].index
             /\ g[n].key = Moves(frames[n].key, to) /\ g[n].second = Moves(frames[n].second, to)
  <2>1. /\ FrameRight(kind, t, L, u, F, frames[n], W[n])
        /\ frames[n] \in Frames /\ frames[n].index \in 0..Vars-1
    BY <1>2, FrameFacts
  <2>2. /\ KeyOK(kind, t, L, frames[n].key) /\ Proper(kind, t, frames[n].key)
        /\ frames[n].index = KeyIndex(t, frames[n].key) /\ frames[n].index < Vars
        /\ frames[n].second = SuccIn(t, frames[n].key, frames[n].index, FALSE)
    BY <2>1 DEF FrameRight
  <2>3. KeyOK(kind, t, L, frames[n].second)
    <3>1. FALSE \in BOOLEAN
      OBVIOUS
    <3>2. \A left \in BOOLEAN :
            KeyOK(kind, t, L, SuccIn(t, frames[n].key, frames[n].index, left))
      BY <1>2, <2>2, SuccFacts
    <3> QED
      BY <2>2, <3>1, <3>2
  <2>4. /\ Moves(frames[n].key, to) \in Nat \X Nat
        /\ Moves(frames[n].second, to) \in Nat \X Nat
    <3>1. /\ KeyOK(kind, t2, L2, Moves(frames[n].key, to))
          /\ KeyOK(kind, t2, L2, Moves(frames[n].second, to))
      BY <2>2, <2>3, KeyMoved
    <3> QED
      BY <1>2, <3>1, KeyFacts
  <2>5. g[n] = [frames[n] EXCEPT !.key = Moves(frames[n].key, to),
                                 !.second = Moves(frames[n].second, to)]
    BY <1>1 DEF MovedFrames
  <2> QED
    BY <2>1, <2>4, <2>5 DEF Frames
<1>4. g \in Seq(Frames) /\ Len(g) = Len(frames)
  <2>1. g = [n \in 1..Len(frames) |-> g[n]]
    BY <1>1 DEF MovedFrames
  <2>2. g \in [1..Len(frames) -> Frames]
    BY <1>3, <2>1
  <2>3. Len(frames) \in Nat
    BY <1>1
  <2> QED
    BY <2>2, <2>3, TypedSeq
<1> QED
  BY <1>3, <1>4 DEF Follows

\* What the operands go to when tmp is searched.
LEMMA OperandsFound ==
    ASSUME NEW m \in Managers, NEW node, NEW list, NEW f, FoundRight(m, node, list, f)
    PROVE  Carries(m.table, Reachable(m.table, ToSet(m.roots)),
                   f.m.table, Reachable(f.m.table, ToSet(f.m.roots)), f.to)
<1>1. PICK K : Kept(m, K, f.m, f.to)
  BY DEF FoundRight
<1>2. /\ Carries(m.table, K, f.m.table, DOMAIN f.m.table, f.to)
      /\ ToSet(m.roots) \in SUBSET K
      /\ f.m.roots = [n \in DOMAIN m.roots |-> NewPlace(f.to, m.roots[n])]
  BY <1>1 DEF Kept
<1>3. ToSet(f.m.roots) = {NewPlace(f.to, a) : a \in ToSet(m.roots)}
  BY <1>2 DEF ToSet
<1> QED
  BY <1>2, <1>3, ReachMoves

\* A node is looked for as the result for key.
Ready(kind, goal, t, L, u, frames, W, key, node) ==
    /\ CallsRight(kind, goal, t, L, u, DOMAIN u, frames, W)
    /\ KeyOK(kind, t, L, key)
    /\ ResultIn(kind, t, key) = GoalAt(kind, goal, t, frames, W, Len(frames) + 1)
    /\ FloorAt(frames, Len(frames) + 1) < KeyIndex(t, key)
    /\ Fits(u, node) /\ node.index = KeyIndex(t, key)
    /\ NodeMeans(u, node) = ResultIn(kind, t, key)

\* r is the result for key, and of the call at work.
Settled(kind, goal, t, L, u, F, frames, W, key, r) ==
    /\ CallsRight(kind, goal, t, L, u, F, frames, W)
    /\ ResultRight(kind, goal, t, u, F, frames, W, r)
    /\ KeyOK(kind, t, L, key) /\ EntryRight(kind, t, u, key, r)

\* The list that goes with a search, and what of it is waited for afterwards.
ListFor(u, list, frames, W) ==
    /\ list \in Seq(DOMAIN u \cup {GoingLeft}) /\ Len(list) = Len(frames) + 1
    /\ \A n \in 1..Len(frames) : list[n] = W[n]
TakesList(frames, V, list) == \A n \in 1..Len(frames) : V[n] = list[n]

LEMMA SettleWork ==
    ASSUME NEW kind \in Kinds, NEW goal, NEW t, NEW L, NEW m, NEW node, NEW list, NEW f,
           m.table \in Seq(Nodes), FoundRight(m, node, list, f),
           NEW frames, NEW W, NEW key,
           Ready(kind, goal, t, L, m.table, frames, W, key, node),
           ListFor(m.table, list, frames, W),
           NEW t2, NEW L2, NEW to, Carries(t, L, t2, L2, to),
           NEW g, Follows(frames, to, g), NEW V, TakesList(frames, V, f.list)
    PROVE  Settled(kind, goal, t2, L2, f.m.table, DOMAIN f.m.table, g, V, Moves(key, to), f.at)
<1> DEFINE u == m.table
           u2 == f.m.table
           k == Len(frames)
<1>0. /\ list \in Seq(DOMAIN u \cup {GoingLeft}) /\ Len(list) = k + 1
      /\ \A n \in 1..k : list[n] = W[n] /\ V[n] = f.list[n]
  BY DEF ListFor, TakesList
<1>1. /\ CallsRight(kind, goal, t, L, u, DOMAIN u, frames, W)
      /\ KeyOK(kind, t, L, key)
      /\ ResultIn(kind, t, key) = GoalAt(kind, goal, t, frames, W, k + 1)
      /\ FloorAt(frames, k + 1) < KeyIndex(t, key)
      /\ Fits(u, node) /\ node.index = KeyIndex(t, key)
      /\ NodeMeans(u, node) = ResultIn(kind, t, key)
  BY DEF Ready
<1>2. k \in Nat /\ DOMAIN list = 1..k+1
  BY <1>0, <1>1 DEF CallsRight
<1>3. /\ u2[f.at].index = node.index /\ Means(u2, f.at) = NodeMeans(u, node)
      /\ f.at \in DOMAIN u2
  <2>1. f.at \in DOMAIN u2
    BY DEF FoundRight
  <2> QED
    BY <1>1, <2>1, FoundMeans
<1>4. PICK K : /\ Carries(u, K, u2, DOMAIN u2, f.to)
               /\ ToSet(list) \ {GoingLeft} \subseteq K
  BY DEF FoundRight, Kept
<1>5. WaitsFollow(k, W, K, f.to, V)
  <2> SUFFICES ASSUME NEW n \in 1..k
               PROVE  V[n] = NewPlace(f.to, W[n]) /\ (W[n] = GoingLeft \/ W[n] \in K)
    BY DEF WaitsFollow
  <2>1. n \in DOMAIN list /\ list[n] = W[n] /\ list[n] \in ToSet(list)
    BY <1>0, <1>2 DEF ToSet
  <2>2. f.list[n] = NewPlace(f.to, list[n])
    BY <2>1 DEF FoundRight
  <2> QED
    BY <1>0, <1>4, <2>1, <2>2
<1> HIDE DEF u, u2, k
<1>6. /\ CallsRight(kind, goal, t2, L2, u2, DOMAIN u2, g, V)
      /\ SameGoal(kind, goal, t, frames, W, k + 1, t2, g, V, Len(g) + 1)
  BY <1>1, <1>4, <1>5, CallsFollow DEF k
<1>7. /\ KeyOK(kind, t2, L2, Moves(key, to))
      /\ KeyIndex(t2, Moves(key, to)) = KeyIndex(t, key)
      /\ ResultIn(kind, t2, Moves(key, to)) = ResultIn(kind, t, key)
  BY <1>1, KeyMoved
<1>8. ResultRight(kind, goal, t2, u2, DOMAIN u2, g, V, f.at)
  BY <1>1, <1>3, <1>6 DEF ResultRight, SameGoal
<1>9. EntryRight(kind, t2, u2, Moves(key, to), f.at)
  <2>1. KeyIndex(t, key) \in 0..Vars
    <3>1. Ordered(t, L)
      BY DEF Carries
    <3> QED
      BY <1>1, <3>1, KeyFacts
  <2> QED
    BY <1>1, <1>3, <1>7, <2>1 DEF EntryRight
<1> QED
  BY <1>6, <1>7, <1>8, <1>9 DEF Settled, u2

LEMMA LeafReady ==
    ASSUME NEW kind \in Kinds, NEW goal, NEW t, NEW L, Ordered(t, L), NEW u \in Seq(Nodes),
           NEW frames, NEW W, CallsRight(kind, goal, t, L, u, DOMAIN u, frames, W),
           NEW key, CallRight(kind, goal, t, L, frames, W, key),
           NEW here, here = HereIn(kind, t, key),
           IndexIn(t, here[1]) = LeafIndex, IndexIn(t, here[2]) = LeafIndex,
           NEW node, node = Leaf(LeafValueIn(kind, t, here))
    PROVE  Ready(kind, goal, t, L, u, frames, W, here, node)
<1>1. /\ KeyOK(kind, t, L, key)
      /\ FloorAt(frames, Len(frames) + 1) < KeyIndex(t, key)
      /\ ResultIn(kind, t, key) = GoalAt(kind, goal, t, frames, W, Len(frames) + 1)
  BY DEF CallRight
<1>2. /\ KeyOK(kind, t, L, here) /\ KeyIndex(t, key) <= KeyIndex(t, here)
      /\ ResultIn(kind, t, here) = ResultIn(kind, t, key)
  BY <1>1, HereFacts
<1>3. KeyIndex(t, here) = LeafIndex
  BY DEF KeyIndex
<1>4. /\ LeafValueIn(kind, t, here) \in SUBSET Elements
      /\ ResultIn(kind, t, here) = [l \in Letters |-> LeafValueIn(kind, t, here)]
  BY <1>2, LeafResult
<1>5. node.index = LeafIndex /\ node.value = LeafValueIn(kind, t, here)
  BY <1>4, LeafFacts
<1>6. Fits(u, node)
  BY <1>4, <1>5 DEF Fits, Shaped
<1>7. NodeMeans(u, node) = ResultIn(kind, t, here)
  BY <1>4, <1>5 DEF NodeMeans
<1>8. FloorAt(frames, Len(frames) + 1) < KeyIndex(t, here)
  <2>1. KeyIndex(t, key) \in 0..Vars /\ KeyIndex(t, here) \in 0..Vars
    BY <1>1, <1>2, KeyFacts
  <2>2. FloorAt(frames, Len(frames) + 1) \in Int
    BY FloorType
  <2> QED
    BY <1>1, <1>2, <2>1, <2>2
<1> QED
  BY <1>1, <1>2, <1>3, <1>5, <1>6, <1>7, <1>8 DEF Ready

LEMMA InnerReady ==
    ASSUME NEW kind \in Kinds, NEW goal, NEW t, NEW L, Ordered(t, L),
           NEW u, Ordered(u, DOMAIN u),
           NEW frames, NEW W, CallsRight(kind, goal, t, L, u, DOMAIN u, frames, W),
           NEW k, k = Len(frames), k # 0, NEW w, W[k] = w, w # GoingLeft,
           NEW r, ResultRight(kind, goal, t, u, DOMAIN u, frames, W, r), w # r,
           NEW i, i = frames[k].index,
           NEW g, NEW V, Begins(frames, W, k - 1, g, V), Len(g) = k - 1,
           NEW node, node = Inner(i, w, r)
    PROVE  Ready(kind, goal, t, L, u, g, V, frames[k].key, node)
<1>0. k \in Nat /\ k - 1 \in Nat /\ (k - 1) + 1 = k
  BY DEF CallsRight
<1>1. /\ i \in 0..Vars-1 /\ w \in DOMAIN u /\ r \in DOMAIN u
      /\ i < u[w].index /\ i < u[r].index
      /\ FloorAt(frames, k) < i
      /\ KeyOK(kind, t, L, frames[k].key) /\ KeyIndex(t, frames[k].key) = i
      /\ ResultIn(kind, t, frames[k].key) = GoalAt(kind, goal, t, frames, W, k)
      /\ ResultIn(kind, t, frames[k].key) = Choice(i, Means(u, w), Means(u, r))
  <2>1. BothRight(kind, goal, t, L, u, DOMAIN u, frames, W, k, w, r, i)
    BY ThirdStep
  <2> QED
    BY <2>1 DEF BothRight
<1>2. /\ \A n \in 1..k-1 : CallAt(kind, goal, t, L, u, DOMAIN u, g, V, n)
      /\ SameGoal(kind, goal, t, frames, W, k, t, g, V, k)
  <2>1. /\ \A n \in 1..k-1 : CallAt(kind, goal, t, L, u, DOMAIN u, g, V, n)
        /\ SameGoal(kind, goal, t, frames, W, (k-1)+1, t, g, V, (k-1)+1)
    BY CallsBegin
  <2> QED
    BY <1>0, <2>1
<1>3. CallsRight(kind, goal, t, L, u, DOMAIN u, g, V)
  BY <1>2 DEF CallsRight, Begins
<1>4. /\ node \in Nodes /\ node.index = i /\ node.lo = w /\ node.hi = r
  <2>1. i \in -1..Vars /\ w \in Nat /\ r \in Nat
    <3>1. u \in Seq(Nodes) /\ w \in DOMAIN u /\ r \in DOMAIN u /\ i \in 0..Vars-1
      BY <1>1 DEF Ordered
    <3>2. w \in Nat /\ r \in Nat
      BY <3>1, NodeFacts
    <3>3. i \in -1..Vars
      BY <3>1, VarsFacts
    <3> QED
      BY <3>2, <3>3
  <2> QED
    BY <2>1, InnerFacts
<1>5. i # LeafIndex
  BY <1>1, VarsFacts
<1>6. Fits(u, node)
  BY <1>1, <1>4 DEF Fits, Shaped
<1>7. NodeMeans(u, node) = ResultIn(kind, t, frames[k].key)
  BY <1>1, <1>4, <1>5 DEF NodeMeans
<1> QED
  BY <1>0, <1>1, <1>2, <1>3, <1>4, <1>6, <1>7 DEF Ready, SameGoal

\* Both results are the same, which is the result.
LEMMA EqualWork ==
    ASSUME NEW kind \in Kinds, NEW goal, NEW t, NEW L, Ordered(t, L),
           NEW u, NEW F, Ordered(u, F),
           NEW frames, NEW W, CallsRight(kind, goal, t, L, u, F, frames, W),
           NEW k, k = Len(frames), k # 0, W[k] # GoingLeft,
           NEW r, W[k] = r, ResultRight(kind, goal, t, u, F, frames, W, r),
           NEW g, NEW V, Begins(frames, W, k - 1, g, V), Len(g) = k - 1
    PROVE  Settled(kind, goal, t, L, u, F, g, V, frames[k].key, r)
<1>0. k \in Nat /\ k - 1 \in Nat /\ (k - 1) + 1 = k
  BY DEF CallsRight
<1> DEFINE i == frames[k].index
<1>1. /\ i \in 0..Vars-1 /\ r \in F /\ i < u[r].index
      /\ FloorAt(frames, k) < i
      /\ KeyOK(kind, t, L, frames[k].key) /\ KeyIndex(t, frames[k].key) = i
      /\ ResultIn(kind, t, frames[k].key) = GoalAt(kind, goal, t, frames, W, k)
      /\ Means(u, r) = ResultIn(kind, t, frames[k].key)
  <2>1. r # GoingLeft
    OBVIOUS
  <2>2. BothRight(kind, goal, t, L, u, F, frames, W, k, r, r, i)
    BY <2>1, ThirdStep
  <2> QED
    BY <2>2 DEF BothRight
<1>2. /\ \A n \in 1..k-1 : CallAt(kind, goal, t, L, u, F, g, V, n)
      /\ SameGoal(kind, goal, t, frames, W, k, t, g, V, k)
  <2>1. /\ \A n \in 1..k-1 : CallAt(kind, goal, t, L, u, F, g, V, n)
        /\ SameGoal(kind, goal, t, frames, W, (k-1)+1, t, g, V, (k-1)+1)
    BY CallsBegin
  <2> QED
    BY <1>0, <2>1
<1>3. CallsRight(kind, goal, t, L, u, F, g, V)
  BY <1>2 DEF CallsRight, Begins
<1>4. u[r].index \in 0..Vars /\ FloorAt(frames, k) \in Int
  BY <1>1, OrderedFacts, FloorType
<1> HIDE DEF i
<1>5. ResultRight(kind, goal, t, u, F, g, V, r)
  BY <1>0, <1>1, <1>2, <1>4 DEF ResultRight, SameGoal
<1>6. EntryRight(kind, t, u, frames[k].key, r)
  BY <1>1, <1>4 DEF EntryRight
<1> QED
  BY <1>1, <1>3, <1>5, <1>6 DEF Settled

\* A remembered result.
LEMMA KnownWork ==
    ASSUME NEW kind \in Kinds, NEW goal, NEW t, NEW L, Ordered(t, L),
           NEW u, NEW F, Ordered(u, F),
           NEW frames, NEW W, CallsRight(kind, goal, t, L, u, F, frames, W),
           NEW key, CallRight(kind, goal, t, L, frames, W, key),
           NEW here, here = HereIn(kind, t, key),
           NEW r \in F, EntryRight(kind, t, u, here, r)
    PROVE  ResultRight(kind, goal, t, u, F, frames, W, r)
<1>1. /\ KeyOK(kind, t, L, key)
      /\ FloorAt(frames, Len(frames) + 1) < KeyIndex(t, key)
      /\ ResultIn(kind, t, key) = GoalAt(kind, goal, t, frames, W, Len(frames) + 1)
  BY DEF CallRight
<1>2. /\ KeyOK(kind, t, L, here) /\ KeyIndex(t, key) <= KeyIndex(t, here)
      /\ ResultIn(kind, t, here) = ResultIn(kind, t, key)
  BY <1>1, HereFacts
<1>3. KeyIndex(t, key) \in 0..Vars /\ KeyIndex(t, here) \in 0..Vars
  BY <1>1, <1>2, KeyFacts
<1>4. FloorAt(frames, Len(frames) + 1) \in Int /\ u[r].index \in 0..Vars
  BY FloorType, OrderedFacts
<1>5. KeyIndex(t, here) <= u[r].index /\ Means(u, r) = ResultIn(kind, t, here)
  BY DEF EntryRight
<1> QED
  BY <1>1, <1>2, <1>3, <1>4, <1>5 DEF ResultRight

-----------------------------------------------------------------------------
(* makepath.                                                                 *)

LEMMA PathType ==
    ASSUME NEW path \in DOMAIN Paths, NEW e \in Paths[path], NEW i
    PROVE  /\ e \in Elements /\ {e} \in SUBSET Elements /\ Default \in SUBSET Elements
           /\ PathFrom(path, i, e) \in Denotations
           /\ path \in [0..Vars-1 -> {0, 1, 2}]
<1>1. e \in Elements /\ path \in [0..Vars-1 -> {0, 1, 2}]
  BY TableAssumption
<1>2. {e} \in SUBSET Elements /\ Default \in SUBSET Elements
  BY <1>1 DEF Default
<1> QED
  BY <1>1, <1>2 DEF PathFrom, Denotations

\* Some letter follows the path.
LEMMA PathMeets ==
    ASSUME NEW path \in [0..Vars-1 -> {0, 1, 2}], NEW i \in 0..Vars, NEW e
    PROVE  \E l \in Letters : PathFrom(path, i, e)[l] = {e}
<1> DEFINE m == [j \in 0..Vars-1 |-> IF path[j] = Either THEN 0 ELSE path[j]]
<1>1. m \in Letters /\ \A j \in 0..Vars-1 : path[j] \in {Either, m[j]}
  <2>1. \A j \in 0..Vars-1 : path[j] \in {0, 1, 2}
    OBVIOUS
  <2> QED
    BY <2>1 DEF Letters, Either
<1> HIDE DEF m
<1>2. \A j \in i..Vars-1 : j \in 0..Vars-1
  BY VarsFacts
<1>3. PathFrom(path, i, e)[m] = {e}
  BY <1>1, <1>2 DEF PathFrom
<1> QED
  BY <1>1, <1>3

\* What the default leaf denotes.
AllDefault == [l \in Letters |-> Default]
OnPath(path, i, l) == \A j \in i..Vars-1 : path[j] \in {Either, l[j]}

PathCases(path, i, e) ==
    /\ path[i] = Either => PathFrom(path, i, e) = PathFrom(path, i + 1, e)
    /\ path[i] = 0 => PathFrom(path, i, e) = Choice(i, PathFrom(path, i + 1, e), AllDefault)
    /\ path[i] = 1 => PathFrom(path, i, e) = Choice(i, AllDefault, PathFrom(path, i + 1, e))

LEMMA PathSplits ==
    ASSUME NEW path \in [0..Vars-1 -> {0, 1, 2}], NEW i \in 0..Vars-1, NEW e
    PROVE  PathCases(path, i, e)
<1>1. ASSUME NEW l \in Letters
      PROVE  OnPath(path, i, l) <=> OnPath(path, i + 1, l) /\ path[i] \in {Either, l[i]}
  <2>1. i \in i..Vars-1 /\ \A j \in i..Vars-1 : j = i \/ j \in i+1..Vars-1
    BY VarsFacts
  <2>2. \A j \in i+1..Vars-1 : j \in i..Vars-1
    BY VarsFacts
  <2> QED
    BY <2>1, <2>2 DEF OnPath
<1> DEFINE f == PathFrom(path, i, e)
           g == PathFrom(path, i + 1, e)
<1>2. /\ f = [l \in Letters |-> IF OnPath(path, i, l) THEN {e} ELSE Default]
      /\ g = [l \in Letters |-> IF OnPath(path, i + 1, l) THEN {e} ELSE Default]
  BY DEF PathFrom, OnPath
<1> HIDE DEF f, g
<1>3. \A l \in Letters : l[i] \in {0, 1}
  BY DEF Letters
<1>4. /\ f = [l \in Letters |-> f[l]] /\ g = [l \in Letters |-> g[l]]
      /\ \A l \in Letters : f[l] = IF OnPath(path, i, l) THEN {e} ELSE Default
      /\ \A l \in Letters : g[l] = IF OnPath(path, i + 1, l) THEN {e} ELSE Default
  BY <1>2
<1>5. CASE path[i] = Either
  <2>1. \A l \in Letters : f[l] = g[l]
    BY <1>1, <1>4, <1>5
  <2> QED
    BY <1>4, <1>5, <2>1 DEF f, g, Either, PathCases
<1>6. \A l \in Letters : AllDefault[l] = Default
  BY DEF AllDefault
<1>7. CASE path[i] = 0
  <2>1. ASSUME NEW l \in Letters
        PROVE  f[l] = IF l[i] = 0 THEN g[l] ELSE AllDefault[l]
    <3>1. OnPath(path, i, l) <=> OnPath(path, i + 1, l) /\ l[i] = 0
      BY <1>1, <1>3, <1>7 DEF Either
    <3> QED
      BY <1>4, <1>6, <3>1
  <2>2. f = Choice(i, g, AllDefault)
    BY <1>4, <2>1 DEF Choice
  <2> QED
    BY <1>7, <2>2 DEF f, g, Either, PathCases
<1>8. CASE path[i] = 1
  <2>1. ASSUME NEW l \in Letters
        PROVE  f[l] = IF l[i] = 0 THEN AllDefault[l] ELSE g[l]
    <3>1. OnPath(path, i, l) <=> OnPath(path, i + 1, l) /\ l[i] # 0
      BY <1>1, <1>3, <1>8 DEF Either
    <3> QED
      BY <1>4, <1>6, <3>1
  <2>2. f = Choice(i, AllDefault, g)
    BY <1>4, <2>1 DEF Choice
  <2> QED
    BY <1>8, <2>2 DEF f, g, Either, PathCases
<1>9. path[i] \in {0, 1, Either}
  BY DEF Either
<1> QED
  BY <1>5, <1>7, <1>8, <1>9

LEMMA PathBegins ==
    ASSUME NEW m \in Managers, NEW path \in DOMAIN Paths, NEW e \in Paths[path],
           NEW list, NEW f, FoundRight(m, Leaf({e}), list, f), Fits(m.table, Leaf({e}))
    PROVE  PathRight(f.m.table, path, Vars, PathFrom(path, 0, e), f.at)
<1>1. {e} \in SUBSET Elements
  BY PathType
<1>2. Leaf({e}).index = LeafIndex /\ Leaf({e}).value = {e}
  BY <1>1, LeafFacts
<1>3. f.at \in DOMAIN f.m.table
  BY DEF FoundRight
<1>4. /\ f.m.table[f.at].index = LeafIndex
      /\ Means(f.m.table, f.at) = [l \in Letters |-> {e}]
  <2>1. m.table \in Seq(Nodes)
    BY ManagerFacts
  <2>2. /\ f.m.table[f.at].index = Leaf({e}).index
        /\ Means(f.m.table, f.at) = NodeMeans(m.table, Leaf({e}))
    BY <2>1, FoundMeans
  <2> QED
    BY <1>2, <2>2 DEF NodeMeans
<1>5. PathFrom(path, Vars, e) = [l \in Letters |-> {e}]
  <2>1. Vars..Vars-1 = {}
    BY VarsFacts
  <2> QED
    BY <2>1 DEF PathFrom
<1> QED
  BY <1>3, <1>4, <1>5, VarsFacts DEF PathRight

PathSoFar(t, path, left, e, r) ==
    /\ r \in DOMAIN t /\ left <= t[r].index
    /\ Means(t, r) = PathFrom(path, left, e)
PathJoins(bit, i, f, node) ==
    node = IF bit = 0 THEN Inner(i, f.list[1], f.at) ELSE Inner(i, f.at, f.list[1])
PathOver(t, path, i, e, node) ==
    /\ Fits(t, node) /\ node.index = i
    /\ NodeMeans(t, node) = PathFrom(path, i, e)

\* The node over the result so far and the default leaf.
LEMMA PathNode ==
    ASSUME NEW m \in Managers, NEW path \in DOMAIN Paths, NEW e \in Paths[path],
           NEW left \in 0..Vars, left > 0, NEW r, PathSoFar(m.table, path, left, e, r),
           NEW bit, bit = path[left - 1], bit # Either, Fits(m.table, Leaf(Default)),
           NEW list, list = <<r>>, NEW f, FoundRight(m, Leaf(Default), list, f),
           NEW node, PathJoins(bit, left - 1, f, node)
    PROVE  PathOver(f.m.table, path, left - 1, e, node)
<1> DEFINE u == f.m.table
           i == left - 1
           d == AllDefault
           sub == f.list[1]
<1>0. /\ r \in DOMAIN m.table /\ left <= m.table[r].index
      /\ Means(m.table, r) = PathFrom(path, left, e)
  BY DEF PathSoFar
<1>1. /\ path \in [0..Vars-1 -> {0, 1, 2}] /\ {e} # Default
      /\ Default \in SUBSET Elements
  BY PathType DEF Default
<1>2. i \in 0..Vars-1 /\ i + 1 = left /\ i < left
  BY VarsFacts
<1>3. bit \in {0, 1}
  BY <1>1, <1>2 DEF Either
<1>4. sub \in DOMAIN u /\ u[sub].index = m.table[r].index /\ Means(u, sub) = Means(m.table, r)
  <2>1. PICK K : /\ Carries(m.table, K, u, DOMAIN u, f.to)
                 /\ ToSet(list) \ {GoingLeft} \subseteq K
    BY DEF FoundRight, Kept
  <2>2. m.table \in Seq(Nodes)
    BY ManagerFacts
  <2>3. r # GoingLeft
    BY <1>0, <2>2, NodeFacts DEF GoingLeft
  <2>4. DOMAIN list = {1} /\ list[1] = r
    OBVIOUS
  <2>5. r \in ToSet(list)
    BY <2>4 DEF ToSet
  <2>6. r \in K
    BY <2>1, <2>3, <2>5
  <2>7. sub = NewPlace(f.to, r)
    BY <2>4 DEF FoundRight
  <2>8. NewPlace(f.to, r) \in DOMAIN u /\ u[NewPlace(f.to, r)].index = m.table[r].index
    BY <2>1, <2>6, CarriedNode
  <2>9. Means(u, NewPlace(f.to, r)) = Means(m.table, r)
    BY <2>1, <2>6, CarriedMeans
  <2> QED
    BY <2>7, <2>8, <2>9
<1>5. f.at \in DOMAIN u /\ u[f.at].index = LeafIndex /\ Means(u, f.at) = d
  <2>1. f.at \in DOMAIN u
    BY DEF FoundRight
  <2>2. m.table \in Seq(Nodes)
    BY ManagerFacts
  <2>3. /\ u[f.at].index = Leaf(Default).index
        /\ Means(u, f.at) = NodeMeans(m.table, Leaf(Default))
    BY <2>2, FoundMeans
  <2>4. Leaf(Default).index = LeafIndex /\ Leaf(Default).value = Default
    BY <1>1, LeafFacts
  <2> QED
    BY <2>1, <2>3, <2>4 DEF NodeMeans, AllDefault
<1> HIDE DEF u
<1>6. sub # f.at
  <2>1. PICK l \in Letters : PathFrom(path, left, e)[l] = {e}
    BY <1>1, PathMeets
  <2>2. d[l] = Default
    BY DEF AllDefault
  <2> HIDE DEF d
  <2> QED
    BY <1>0, <1>1, <1>4, <1>5, <2>1, <2>2
<1>7. u \in Seq(Nodes)
  BY ManagerFacts DEF FoundRight, u
<1>8. sub \in Nat /\ f.at \in Nat /\ i \in -1..Vars /\ u[sub].index \in Int
  <2>1. sub \in Nat /\ f.at \in Nat /\ u[sub].index \in Int
    BY <1>4, <1>5, <1>7, NodeFacts
  <2>2. i \in -1..Vars
    BY <1>2, VarsFacts
  <2> QED
    BY <2>1, <2>2
<1>9. i < u[sub].index /\ i < u[f.at].index /\ i # LeafIndex
  BY <1>0, <1>2, <1>4, <1>5, <1>8, VarsFacts
<1>10. path[i] = bit
  OBVIOUS
<1> HIDE DEF i, d, sub
<1>11. CASE bit = 0
  <2>1. node = Inner(i, sub, f.at)
    BY <1>11 DEF i, sub, PathJoins
  <2>2. node.index = i /\ node.lo = sub /\ node.hi = f.at
    BY <1>8, <2>1, InnerFacts
  <2>3. Fits(u, node)
    BY <1>2, <1>4, <1>5, <1>6, <1>9, <2>1, <2>2 DEF Fits, Shaped
  <2>4. PathFrom(path, i, e) = Choice(i, PathFrom(path, left, e), d)
    <3>1. PathFrom(path, i, e) = Choice(i, PathFrom(path, i + 1, e), AllDefault)
      <4>1. PathCases(path, i, e)
        BY <1>1, <1>2, PathSplits
      <4> QED
        BY <1>10, <1>11, <4>1 DEF PathCases
    <3> QED
      BY <1>2, <3>1 DEF d
  <2> QED
    BY <1>0, <1>4, <1>5, <1>9, <2>2, <2>3, <2>4 DEF NodeMeans, PathOver, u, i
<1>12. CASE bit = 1
  <2>1. node = Inner(i, f.at, sub)
    BY <1>12 DEF i, sub, PathJoins
  <2>2. node.index = i /\ node.lo = f.at /\ node.hi = sub
    BY <1>8, <2>1, InnerFacts
  <2>3. Fits(u, node)
    BY <1>2, <1>4, <1>5, <1>6, <1>9, <2>1, <2>2 DEF Fits, Shaped
  <2>4. PathFrom(path, i, e) = Choice(i, d, PathFrom(path, left, e))
    <3>1. PathFrom(path, i, e) = Choice(i, AllDefault, PathFrom(path, i + 1, e))
      <4>1. PathCases(path, i, e)
        BY <1>1, <1>2, PathSplits
      <4> QED
        BY <1>10, <1>12, <4>1 DEF PathCases
    <3> QED
      BY <1>2, <3>1 DEF d
  <2> QED
    BY <1>0, <1>4, <1>5, <1>9, <2>2, <2>3, <2>4 DEF NodeMeans, PathOver, u, i
<1> QED
  BY <1>3, <1>11, <1>12

-----------------------------------------------------------------------------
(* Nodes that are made before they are known.                                *)

LEMMA OrderedSame ==
    ASSUME NEW u, NEW F, Ordered(u, F), NEW u2 \in Seq(Nodes),
           \A a \in F : a \in DOMAIN u2 /\ u2[a] = u[a]
    PROVE  Ordered(u2, F)
<1>1. \A a \in F : LeafAt(u2, a) \/ InnerAt(u2, F, a)
  BY DEF Ordered, LeafAt, InnerAt
<1> QED
  BY <1>1 DEF Ordered

LEMMA OrderedAdd ==
    ASSUME NEW u, NEW F, Ordered(u, F), NEW u2 \in Seq(Nodes),
           \A a \in F : a \in DOMAIN u2 /\ u2[a] = u[a],
           NEW n \in DOMAIN u2, LeafAt(u2, n) \/ InnerAt(u2, F, n)
    PROVE  Ordered(u2, F \cup {n})
<1>1. Ordered(u2, F)
  BY OrderedSame
<1>2. \A a \in F \cup {n} : LeafAt(u2, a) \/ InnerAt(u2, F, a)
  BY <1>1 DEF Ordered
<1>3. \A a \in F \cup {n} : InnerAt(u2, F, a) => InnerAt(u2, F \cup {n}, a)
  BY DEF InnerAt
<1> QED
  BY <1>1, <1>2, <1>3 DEF Ordered

\* aut when nodes are made or finished.
Grown(m, open, m2, open2) ==
    /\ m2 \in Managers /\ m2.roots = m.roots /\ m2.cache = m.cache
    /\ DOMAIN m.table \subseteq DOMAIN m2.table
    /\ Ordered(m2.table, DOMAIN m2.table \ open2)
    /\ \A a \in DOMAIN m.table \ open :
         a \in DOMAIN m2.table \ open2 /\ m2.table[a] = m.table[a]
EntriesFinish(t, m, open, m2, open2) ==
    \A key \in DOMAIN m.cache : m.cache[key] \in open /\ m.cache[key] \notin open2 =>
      EntryRight("sequential", t, m2.table, key, m.cache[key])

LEMMA AutGrown ==
    ASSUME NEW t, Ordered(t, DOMAIN t), NEW m, NEW means, NEW open,
           AutRight("sequential", t, m, means, open),
           NEW m2, NEW open2, Grown(m, open, m2, open2), EntriesFinish(t, m, open, m2, open2)
    PROVE  /\ AutRight("sequential", t, m2, means, open2)
           /\ Carries(m.table, DOMAIN m.table \ open, m2.table, DOMAIN m2.table \ open2, <<>>)
<1> DEFINE F == DOMAIN m.table \ open
           F2 == DOMAIN m2.table \ open2
<1>0. /\ m2 \in Managers /\ m2.roots = m.roots /\ m2.cache = m.cache
      /\ DOMAIN m.table \subseteq DOMAIN m2.table /\ Ordered(m2.table, F2)
      /\ \A a \in F : a \in F2 /\ m2.table[a] = m.table[a]
      /\ \A key \in DOMAIN m.cache : m.cache[key] \in open /\ m.cache[key] \notin open2 =>
           EntryRight("sequential", t, m2.table, key, m.cache[key])
  BY DEF Grown, EntriesFinish
<1>1. Ordered(m.table, F) /\ RootsRight(m, F, means)
      /\ CacheRight("sequential", t, m.table, m.cache, open)
  BY DEF AutRight
<1>2. Carries(m.table, F, m2.table, F2, <<>>)
  BY <1>0, <1>1, CarriesStays
<1>3. RootsRight(m2, F2, means)
  BY <1>0, <1>1, <1>2, CarriedStays DEF RootsRight
<1>4. Carries(t, DOMAIN t, t, DOMAIN t, <<>>)
  BY CarriesSelf
<1>5. CacheRight("sequential", t, m2.table, m2.cache, open2)
  BY <1>0, <1>1, <1>2, <1>4, CacheStays
<1> QED
  BY <1>0, <1>2, <1>3, <1>5 DEF AutRight

LEMMA FreeFacts ==
    ASSUME NEW m \in Managers, NEW g, g = FreeNode(m)
    PROVE  /\ g \in Managers /\ g.roots = m.roots /\ g.cache = m.cache
           /\ g.table = Append(m.table, Unset)
           /\ DOMAIN m.table \subseteq DOMAIN g.table
           /\ Len(g.table) = Len(m.table) + 1 /\ Len(g.table) \notin DOMAIN m.table
           /\ DOMAIN g.table = DOMAIN m.table \cup {Len(g.table)}
           /\ \A a \in DOMAIN m.table : g.table[a] = m.table[a]
<1>1. Unset \in Nodes
  BY VarsFacts, InnerFacts DEF Unset, Nowhere
<1>2. m.table \in Seq(Nodes) /\ m.roots \in Seq(Nat) /\ m.trigger \in Nat /\ m.cache \in Caches
  BY ManagerFacts
<1>3. Append(m.table, Unset) \in Seq(Nodes)
  BY <1>1, <1>2
<1> DEFINE e == IF Len(m.table) < m.trigger THEN m.trigger ELSE 2 * m.trigger
<1>4. e \in Nat
  BY <1>2
<1>5. g = [table |-> Append(m.table, Unset), roots |-> m.roots, trigger |-> e, cache |-> m.cache]
  <2>1. m = [table |-> m.table, roots |-> m.roots, trigger |-> m.trigger, cache |-> m.cache]
    BY ManagerFacts
  <2> QED
    BY <2>1 DEF FreeNode
<1> HIDE DEF e
<1>6. /\ g.roots = m.roots /\ g.cache = m.cache /\ g.table = Append(m.table, Unset)
      /\ g \in Managers
  BY <1>2, <1>3, <1>4, <1>5 DEF Managers
<1> DEFINE s == Append(m.table, Unset)
<1>7. /\ Len(s) = Len(m.table) + 1 /\ Len(s) \notin DOMAIN m.table
      /\ DOMAIN s = DOMAIN m.table \cup {Len(s)}
      /\ \A a \in DOMAIN m.table : s[a] = m.table[a]
  BY <1>1, <1>2, AppendFacts
<1> HIDE DEF s
<1> QED
  BY <1>6, <1>7 DEF s

WithNode(m, n, x, g) == g = [m EXCEPT !.table[n] = x]

LEMMA TableSet ==
    ASSUME NEW m \in Managers, NEW n \in DOMAIN m.table, NEW x \in Nodes,
           NEW g, WithNode(m, n, x, g)
    PROVE  /\ g \in Managers /\ g.roots = m.roots /\ g.cache = m.cache
           /\ DOMAIN g.table = DOMAIN m.table /\ g.table[n] = x
           /\ \A a \in DOMAIN m.table : a # n => g.table[a] = m.table[a]
<1>1. m.table \in Seq(Nodes) /\ m.roots \in Seq(Nat) /\ m.trigger \in Nat /\ m.cache \in Caches
  BY ManagerFacts
<1> DEFINE s == [m.table EXCEPT ![n] = x]
<1>2. /\ s \in Seq(Nodes) /\ DOMAIN s = DOMAIN m.table /\ s[n] = x
      /\ \A a \in DOMAIN m.table : a # n => s[a] = m.table[a]
  BY <1>1
<1>3. g = [table |-> s, roots |-> m.roots, trigger |-> m.trigger, cache |-> m.cache]
  <2>1. m = [table |-> m.table, roots |-> m.roots, trigger |-> m.trigger, cache |-> m.cache]
    BY ManagerFacts
  <2> QED
    BY <2>1 DEF WithNode
<1> HIDE DEF s
<1>4. g.table = s /\ g.roots = m.roots /\ g.cache = m.cache
  BY <1>3
<1>5. g \in Managers
  BY <1>1, <1>2, <1>3 DEF Managers
<1> QED
  BY <1>2, <1>4, <1>5

\* The nodes that are not finished, when calls come and go.
OpenIn(frames) == {frames[n].node : n \in DOMAIN frames}

LEMMA FrontFacts ==
    ASSUME NEW S, NEW s \in Seq(S), s # <<>>
    PROVE  /\ Len(s) \in Nat /\ Len(s) > 0 /\ Len(s) \in 1..Len(s)
           /\ Last(s) = s[Len(s)] /\ Last(s) \in S
           /\ Front(s) \in Seq(S) /\ Len(Front(s)) = Len(s) - 1
           /\ DOMAIN s = 1..Len(s) /\ DOMAIN Front(s) = 1..Len(s)-1
           /\ \A k \in 1..Len(s)-1 : Front(s)[k] = s[k]
<1>1. Len(s) \in Nat /\ Len(s) > 0
  BY EmptySeq
<1>2. Last(s) = s[Len(s)] /\ Front(s) = SubSeq(s, 1, Len(s) - 1)
  BY DEF Last, Front
<1>3. /\ SubSeq(s, 1, Len(s) - 1) \in Seq(S) /\ Len(SubSeq(s, 1, Len(s) - 1)) = Len(s) - 1
      /\ \A k \in 1..Len(s)-1 : SubSeq(s, 1, Len(s) - 1)[k] = s[k]
  <2> DEFINE n == Len(s) - 1
  <2>1. n \in Nat /\ n \in Int /\ 1 \in Int /\ \A k \in 1..n : s[k] \in S
    BY <1>1
  <2> HIDE DEF n
  <2>2. /\ SubSeq(s, 1, n) \in Seq(S)
        /\ Len(SubSeq(s, 1, n)) = IF 1 <= n THEN n - 1 + 1 ELSE 0
        /\ \A k \in 1..n-1+1 : SubSeq(s, 1, n)[k] = s[1+k-1]
    BY <2>1, SubSeqProperties
  <2>3. /\ n - 1 + 1 = n /\ (IF 1 <= n THEN n - 1 + 1 ELSE 0) = n
        /\ \A k \in 1..n : 1+k-1 = k
    BY <2>1
  <2>4. \A k \in 1..n : SubSeq(s, 1, n)[k] = s[k]
    BY <2>2, <2>3
  <2> QED
    BY <2>2, <2>3, <2>4 DEF n
<1>4. DOMAIN s = 1..Len(s) /\ DOMAIN Front(s) = 1..Len(s)-1 /\ s[Len(s)] \in S
  <2>1. Len(Front(s)) = Len(s) - 1 /\ Front(s) \in Seq(S)
    BY <1>2, <1>3
  <2>2. DOMAIN Front(s) = 1..Len(Front(s))
    BY <2>1
  <2> QED
    BY <1>1, <2>1, <2>2
<1> QED
  BY <1>1, <1>2, <1>3, <1>4

\* m2 has one node more, and perhaps the entry key for it.
OneMore(m, m2, n, key) ==
    /\ n \notin DOMAIN m.table /\ DOMAIN m2.table = DOMAIN m.table \cup {n}
    /\ \A k \in DOMAIN m.cache : m.cache[k] \in DOMAIN m.table
    /\ CacheGrows(m.cache, key, n, m2.cache)

LEMMA NodesGrow ==
    ASSUME NEW m, NEW m2, NEW frames, NodesRight(m, frames), NEW n, NEW key, OneMore(m, m2, n, key)
    PROVE  /\ NodesRight(m2, frames)
           /\ \A k \in DOMAIN frames : frames[k].node \in DOMAIN m.table /\ frames[k].node # n
           /\ n \in DOMAIN m2.table
           /\ \A c \in DOMAIN m2.cache : m2.cache[c] = n => c = key
<1>1. \A k \in DOMAIN frames : frames[k].node \in DOMAIN m.table /\ frames[k].node # n
  BY DEF NodesRight, OneMore
<1>2. ASSUME NEW k \in DOMAIN frames
      PROVE  /\ frames[k].node \in DOMAIN m2.table
             /\ \A j \in DOMAIN frames : frames[j].node = frames[k].node => j = k
             /\ \A c \in DOMAIN m2.cache : m2.cache[c] = frames[k].node => c = frames[k].key
  BY <1>1 DEF NodesRight, CacheGrows, OneMore
<1>3. NodesRight(m2, frames)
  BY <1>2 DEF NodesRight
<1>4. /\ n \in DOMAIN m2.table
      /\ \A c \in DOMAIN m2.cache : m2.cache[c] = n => c = key
  BY DEF CacheGrows, OneMore
<1> QED
  BY <1>1, <1>3, <1>4

LEMMA NodesPush ==
    ASSUME NEW m, NEW m2, NEW frames \in Seq(Frames), NodesRight(m, frames),
           NEW n, NEW key, OneMore(m, m2, n, key),
           NEW frame \in Frames, frame.node = n, frame.key = key,
           NEW g, Pushed(frames, frame, g)
    PROVE  NodesRight(m2, g) /\ OpenIn(g) = OpenIn(frames) \cup {n}
<1>1. /\ DOMAIN g = DOMAIN frames \cup {Len(frames) + 1}
      /\ \A k \in DOMAIN frames : g[k] = frames[k]
      /\ g[Len(frames) + 1] = frame /\ Len(frames) + 1 \notin DOMAIN frames
  BY AppendFacts DEF Pushed
<1>2. /\ NodesRight(m2, frames)
      /\ \A k \in DOMAIN frames : frames[k].node # n
      /\ n \in DOMAIN m2.table
      /\ \A c \in DOMAIN m2.cache : m2.cache[c] = n => c = key
  BY NodesGrow
<1>3. OpenIn(g) = OpenIn(frames) \cup {n}
  BY <1>1 DEF OpenIn
<1>4. NodesRight(m2, g)
  <2>1. ASSUME NEW k \in DOMAIN g
        PROVE  /\ g[k].node \in DOMAIN m2.table
               /\ \A j \in DOMAIN g : g[j].node = g[k].node => j = k
               /\ \A c \in DOMAIN m2.cache : m2.cache[c] = g[k].node => c = g[k].key
    <3>1. CASE k \in DOMAIN frames
      BY <1>1, <1>2, <3>1 DEF NodesRight
    <3>2. CASE k = Len(frames) + 1
      BY <1>1, <1>2, <3>2
    <3> QED
      BY <1>1, <3>1, <3>2
  <2> QED
    BY <2>1 DEF NodesRight
<1> QED
  BY <1>3, <1>4

LEMMA NodesPop ==
    ASSUME NEW m, NEW m2, NEW frames \in Seq(Frames), frames # <<>>, NodesRight(m, frames),
           DOMAIN m2.table = DOMAIN m.table, m2.cache = m.cache,
           NEW g, g = Front(frames)
    PROVE  NodesRight(m2, g) /\ OpenIn(g) = OpenIn(frames) \ {Last(frames).node}
<1>1. /\ Len(frames) \in Nat /\ DOMAIN frames = 1..Len(frames) /\ Len(frames) \in DOMAIN frames
      /\ DOMAIN g = 1..Len(frames)-1 /\ \A k \in DOMAIN g : g[k] = frames[k]
      /\ Last(frames) = frames[Len(frames)]
  BY FrontFacts
<1>2. \A k \in DOMAIN frames : k \in DOMAIN g \/ k = Len(frames)
  BY <1>1
<1>3. \A k \in DOMAIN g : k \in DOMAIN frames /\ k # Len(frames)
  BY <1>1
<1>4. NodesRight(m2, g)
  BY <1>1, <1>3 DEF NodesRight
<1>5. \A k \in DOMAIN g : frames[k].node # Last(frames).node
  BY <1>1, <1>3 DEF NodesRight
<1>6. OpenIn(g) = OpenIn(frames) \ {Last(frames).node}
  BY <1>1, <1>2, <1>3, <1>5 DEF OpenIn
<1> QED
  BY <1>4, <1>6

\* Only what the last frame waits for is changed.
LEMMA NodesSame ==
    ASSUME NEW m, NEW frames, NEW g, NodesRight(m, frames), DOMAIN g = DOMAIN frames,
           \A k \in DOMAIN frames : g[k].node = frames[k].node /\ g[k].key = frames[k].key
    PROVE  NodesRight(m, g) /\ OpenIn(g) = OpenIn(frames)
BY DEF NodesRight, OpenIn

\* A call is not for a node that is not finished.
LEMMA KnownClosed ==
    ASSUME NEW kind \in Kinds, NEW goal, NEW t, NEW L, Ordered(t, L), NEW m, NEW F,
           NEW frames, NEW W, CallsRight(kind, goal, t, L, m.table, F, frames, W),
           NodesRight(m, frames),
           NEW key, CallRight(kind, goal, t, L, frames, W, key),
           NEW here, here = HereIn(kind, t, key), here \in DOMAIN m.cache
    PROVE  m.cache[here] \notin OpenIn(frames)
<1> SUFFICES ASSUME NEW n \in DOMAIN frames, m.cache[here] = frames[n].node
             PROVE  FALSE
  BY DEF OpenIn
<1>1. here = frames[n].key
  BY DEF NodesRight
<1>2. frames \in Seq(Frames) /\ n \in 1..Len(frames) /\ Len(frames) \in Nat
  BY DEF CallsRight
<1>3. /\ FrameRight(kind, t, L, m.table, F, frames[n], W[n]) /\ frames[n].index \in 0..Vars-1
  BY <1>2, FrameFacts
<1>4. frames[n].index = KeyIndex(t, here)
  BY <1>1, <1>3 DEF FrameRight
<1>5. frames[n].index <= FloorAt(frames, Len(frames) + 1)
  BY <1>2, IndicesGrow
<1>6. FloorAt(frames, Len(frames) + 1) < KeyIndex(t, key) /\ KeyOK(kind, t, L, key)
  BY DEF CallRight
<1>7. KeyIndex(t, key) <= KeyIndex(t, here) /\ KeyIndex(t, key) \in 0..Vars
  BY <1>6, HereFacts, KeyFacts
<1>8. FloorAt(frames, Len(frames) + 1) \in Int
  BY <1>2, FloorType
<1> QED
  BY <1>3, <1>4, <1>5, <1>6, <1>7, <1>8

\* A leaf that was made is the result of the call at work.
LEMMA LeafWork ==
    ASSUME NEW kind \in Kinds, NEW goal, NEW t, NEW L, Ordered(t, L),
           NEW u, NEW F, NEW u2, NEW F2, Carries(u, F, u2, F2, <<>>),
           NEW frames, NEW W, CallsRight(kind, goal, t, L, u, F, frames, W),
           NEW key, CallRight(kind, goal, t, L, frames, W, key),
           NEW here, here = HereIn(kind, t, key),
           IndexIn(t, here[1]) = LeafIndex, IndexIn(t, here[2]) = LeafIndex,
           NEW n \in F2, u2[n] = Leaf(LeafValueIn(kind, t, here))
    PROVE  /\ CallsRight(kind, goal, t, L, u2, F2, frames, W)
           /\ EntryRight(kind, t, u2, here, n)
           /\ ResultRight(kind, goal, t, u2, F2, frames, W, n)
<1>0. Ordered(u2, F2)
  BY DEF Carries
<1>1. KeyOK(kind, t, L, key)
  BY DEF CallRight
<1>2. KeyOK(kind, t, L, here)
  BY <1>1, HereFacts
<1>3. KeyIndex(t, here) = LeafIndex
  BY DEF KeyIndex
<1>4. /\ LeafValueIn(kind, t, here) \in SUBSET Elements
      /\ ResultIn(kind, t, here) = [l \in Letters |-> LeafValueIn(kind, t, here)]
  BY <1>2, LeafResult
<1>5. u2[n].index = LeafIndex /\ u2[n].value = LeafValueIn(kind, t, here)
  BY <1>4, LeafFacts
<1>6. Means(u2, n) = [l \in Letters |-> u2[n].value]
  BY <1>0, <1>5, LeafMeans
<1>7. EntryRight(kind, t, u2, here, n)
  BY <1>3, <1>4, <1>5, <1>6, VarsFacts DEF EntryRight
<1>8. CallsRight(kind, goal, t, L, u2, F2, frames, W)
  BY CallsGrow
<1>9. ResultRight(kind, goal, t, u2, F2, frames, W, n)
  BY <1>0, <1>7, <1>8, KnownWork
<1> QED
  BY <1>7, <1>8, <1>9

\* A node is finished, over the results for its successors.
LEMMA NodeWork ==
    ASSUME NEW kind \in Kinds, NEW goal, NEW t, NEW L, Ordered(t, L),
           NEW u, NEW F, NEW u2, NEW F2, Carries(u, F, u2, F2, <<>>),
           NEW frames, NEW W, CallsRight(kind, goal, t, L, u, F, frames, W),
           NEW k, k = Len(frames), k # 0, NEW w, NEW r, NEW i,
           BothRight(kind, goal, t, L, u, F, frames, W, k, w, r, i),
           NEW n \in F2, u2[n] = Inner(i, w, r),
           NEW g, NEW V, Begins(frames, W, k - 1, g, V), Len(g) = k - 1
    PROVE  Settled(kind, goal, t, L, u2, F2, g, V, frames[k].key, n)
<1>0. k \in Nat /\ k - 1 \in Nat /\ (k - 1) + 1 = k
  BY DEF CallsRight
<1>1. /\ i \in 0..Vars-1 /\ w \in F /\ r \in F
      /\ FloorAt(frames, k) < i
      /\ KeyOK(kind, t, L, frames[k].key) /\ KeyIndex(t, frames[k].key) = i
      /\ ResultIn(kind, t, frames[k].key) = GoalAt(kind, goal, t, frames, W, k)
      /\ ResultIn(kind, t, frames[k].key) = Choice(i, Means(u, w), Means(u, r))
  BY DEF BothRight
<1>2. Ordered(u2, F2) /\ Ordered(u, F)
  BY DEF Carries
<1>3. /\ w \in F2 /\ r \in F2 /\ Means(u2, w) = Means(u, w) /\ Means(u2, r) = Means(u, r)
  BY <1>1, CarriedStays
<1>4. u2[n].index = i /\ u2[n].lo = w /\ u2[n].hi = r
  BY DEF Inner
<1>5. i # LeafIndex
  BY <1>1, VarsFacts
<1>6. InnerAt(u2, F2, n)
  BY <1>2, <1>4, <1>5, OrderedFacts
<1>7. Means(u2, n) = Choice(u2[n].index, Means(u2, u2[n].lo), Means(u2, u2[n].hi))
  BY <1>2, <1>6, Cofactor
<1>8. EntryRight(kind, t, u2, frames[k].key, n)
  BY <1>1, <1>3, <1>4, <1>7 DEF EntryRight
<1>9. CallsRight(kind, goal, t, L, u2, F2, frames, W)
  BY CallsGrow
<1>10. /\ \A j \in 1..k-1 : CallAt(kind, goal, t, L, u2, F2, g, V, j)
       /\ SameGoal(kind, goal, t, frames, W, k, t, g, V, k)
  <2>1. /\ \A j \in 1..k-1 : CallAt(kind, goal, t, L, u2, F2, g, V, j)
        /\ SameGoal(kind, goal, t, frames, W, (k-1)+1, t, g, V, (k-1)+1)
    BY <1>9, CallsBegin
  <2> QED
    BY <1>0, <2>1
<1>11. CallsRight(kind, goal, t, L, u2, F2, g, V)
  BY <1>10 DEF CallsRight, Begins
<1>12. ResultRight(kind, goal, t, u2, F2, g, V, n)
  BY <1>0, <1>1, <1>3, <1>4, <1>7, <1>10 DEF ResultRight, SameGoal
<1> QED
  BY <1>1, <1>8, <1>11, <1>12 DEF Settled

-----------------------------------------------------------------------------
(* What the invariant says of a state.                                       *)

LEMMA RootsIn ==
    ASSUME NEW m \in Managers, NEW F, NEW means, RootsRight(m, F, means)
    PROVE  /\ ToSet(m.roots) \subseteq F
           /\ DOMAIN m.roots = 1..Len(means) /\ DOMAIN means = 1..Len(means)
           /\ \A n \in DOMAIN m.roots :
                /\ m.roots[n] \in F /\ m.roots[n] \in ToSet(m.roots)
                /\ Means(m.table, m.roots[n]) = means[n]
<1>1. /\ m.roots \in Seq(Nat) /\ means \in Seq(Denotations)
      /\ Len(m.roots) = Len(means)
      /\ \A n \in 1..Len(means) : m.roots[n] \in F /\ Means(m.table, m.roots[n]) = means[n]
  BY ManagerFacts DEF RootsRight
<1>2. DOMAIN m.roots = 1..Len(means) /\ DOMAIN means = 1..Len(means)
  BY <1>1
<1> QED
  BY <1>1, <1>2 DEF ToSet

LEMMA TmpFacts ==
    ASSUME NEW m, NEW means, TmpRight(m, means), NEW L, L = Reachable(m.table, ToSet(m.roots))
    PROVE  /\ m \in Managers /\ m.table \in Seq(Nodes)
           /\ Sound(m.table) /\ Ordered(m.table, DOMAIN m.table) /\ Reduced(m.table)
           /\ ToSet(m.roots) \subseteq DOMAIN m.table
           /\ Ordered(m.table, L) /\ L \subseteq DOMAIN m.table /\ ToSet(m.roots) \subseteq L
<1>1. m \in Managers /\ Sound(m.table) /\ RootsRight(m, DOMAIN m.table, means)
  BY DEF TmpRight
<1>2. Ordered(m.table, DOMAIN m.table) /\ Reduced(m.table) /\ m.table \in Seq(Nodes)
  BY <1>1, ManagerFacts DEF Sound
<1>3. ToSet(m.roots) \subseteq DOMAIN m.table
  BY <1>1, RootsIn
<1>4. Ordered(m.table, L) /\ L \subseteq DOMAIN m.table /\ ToSet(m.roots) \subseteq L
  BY <1>2, <1>3, ReachFacts
<1> QED
  BY <1>1, <1>2, <1>3, <1>4

\* A table is searched.
LEMMA SearchTmp ==
    ASSUME NEW m, NEW means, TmpRight(m, means), NEW node, Fits(m.table, node),
           NEW list \in Seq(DOMAIN m.table \cup {GoingLeft}), NEW f \in Find(m, node, list)
    PROVE  /\ FoundRight(m, node, list, f) /\ TmpRight(f.m, means)
           /\ ~ DoubledBy(f) =>
                Carries(m.table, DOMAIN m.table, f.m.table, DOMAIN f.m.table, <<>>)
<1>1. m \in Managers /\ Sound(m.table) /\ ToSet(m.roots) \subseteq DOMAIN m.table
  BY TmpFacts
<1>2. FoundRight(m, node, list, f)
  BY <1>1, FindRight
<1>3. TmpRight(f.m, means)
  BY <1>2, TmpFound
<1> QED
  BY <1>2, <1>3, OneKept DEF DoubledBy

\* What goes with a change of tmp.
LEMMA OthersKept ==
    ASSUME NEW kind \in {"none", "apply1"}, NEW t, NEW t2, NEW doubled \in BOOLEAN,
           ~ doubled => Carries(t, DOMAIN t, t2, DOMAIN t2, <<>>),
           NEW m, NEW means, AutRight(kind, t, m, means, {}),
           MarksRight(kind, t, m.table, marks),
           NEW g, g.table = t2
    PROVE  /\ AutRight(kind, t2, m, means, {})
           /\ MarksRight(kind, t2, m.table, MarksIn(g, doubled))
<1>1. AutRight(kind, t2, m, means, {})
  BY AutTmp
<1>2. Ordered(m.table, DOMAIN m.table)
  <2>1. DOMAIN m.table \ {} = DOMAIN m.table
    OBVIOUS
  <2> QED
    BY <2>1 DEF AutRight
<1> DEFINE h == [a \in DOMAIN t2 |-> IF doubled \/ a \notin DOMAIN marks THEN Nowhere ELSE marks[a]]
<1>3. MarksIn(g, doubled) = h
  BY DEF MarksIn
<1>4. MarksRight(kind, t2, m.table, h)
  BY <1>2, MarksTmp
<1> QED
  BY <1>1, <1>3, <1>4

LEMMA InvFacts ==
    ASSUME BddInv
    PROVE  /\ TmpRight(tmp, tmpMeans)
           /\ AutRight(use, tmp.table, aut, autMeans, Open)
           /\ MarksRight(use, tmp.table, aut.table, marks)
           /\ use \in {"none", "apply1", "project", "sequential"}
           /\ op.kind \in {"path", "hashed"} => use \in {"none", "apply1"}
           /\ op.kind \in {"apply1", "project", "sequential"} => use = op.kind
           /\ op.kind # "sequential" => Open = {}
           /\ tmp \in Managers /\ tmp.table \in Seq(Nodes)
           /\ Sound(tmp.table) /\ Ordered(tmp.table, DOMAIN tmp.table)
           /\ ToSet(tmp.roots) \subseteq DOMAIN tmp.table
           /\ Ordered(tmp.table, Operands) /\ Operands \subseteq DOMAIN tmp.table
           /\ ToSet(tmp.roots) \subseteq Operands
<1>1. TmpRight(tmp, tmpMeans)
  BY DEF BddInv
<1>2. /\ tmp \in Managers /\ tmp.table \in Seq(Nodes)
      /\ Sound(tmp.table) /\ Ordered(tmp.table, DOMAIN tmp.table)
      /\ ToSet(tmp.roots) \subseteq DOMAIN tmp.table
      /\ Ordered(tmp.table, Operands) /\ Operands \subseteq DOMAIN tmp.table
      /\ ToSet(tmp.roots) \subseteq Operands
  BY <1>1, TmpFacts DEF Operands
<1> QED
  BY <1>2 DEF BddInv, UseOK, Open

\* No operation is under way.
LEMMA IdleFacts ==
    ASSUME BddInv, Idle
    PROVE  op = NoOp /\ op.kind = "none" /\ acts = <<>> /\ inter = <<>> /\ Open = {}
BY DEF BddInv, Phase, Idle, IdleOK, NoOp, Open

LEMMA WorkFacts ==
    ASSUME BddInv, pc \in {"start", "finish"}, op.kind # "path"
    PROVE  /\ op = [kind |-> op.kind, goal |-> op.goal]
           /\ op.kind \in Kinds /\ op.goal \in Denotations
           /\ op.kind # "sequential" => ListRight(pc, Target.table, acts, inter)
           /\ op.kind = "sequential" => NodesRight(aut, acts)
           /\ CallsRight(op.kind, op.goal, tmp.table, Operands, Target.table, Finished, acts, Waits)
           /\ pc = "start" => CallRight(op.kind, op.goal, tmp.table, Operands, acts, Waits, <<p, q>>)
           /\ pc = "finish" =>
                ResultRight(op.kind, op.goal, tmp.table, Target.table, Finished, acts, Waits, res)
BY DEF BddInv, Phase, WorkOK, WorkRight

\* The table of the results.
LEMMA TargetFacts ==
    ASSUME BddInv, op.kind \in Kinds
    PROVE  /\ op.kind = "hashed" => Target = tmp
           /\ op.kind # "hashed" => Target = aut
           /\ Target \in Managers /\ Ordered(Target.table, Finished)
           /\ Target.table \in Seq(Nodes)
           /\ op.kind # "sequential" => Finished = DOMAIN Target.table /\ Sound(Target.table)
           /\ op.kind # "sequential" => ToSet(Target.roots) \subseteq DOMAIN Target.table
<1>1. /\ op.kind = "hashed" => Target = tmp
      /\ op.kind # "hashed" => Target = aut
  BY DEF Target, Hashed
<1>2. op.kind # "sequential" => Finished = DOMAIN Target.table
  BY InvFacts DEF Finished
<1>3. CASE op.kind = "hashed"
  BY <1>1, <1>2, <1>3, InvFacts
<1>4. CASE op.kind # "hashed"
  <2>1. use = op.kind
    BY <1>4, InvFacts DEF Kinds
  <2>2. /\ aut \in Managers /\ Ordered(aut.table, DOMAIN aut.table \ Open)
        /\ op.kind # "sequential" => Reduced(aut.table)
        /\ RootsRight(aut, DOMAIN aut.table \ Open, autMeans)
    BY <2>1, InvFacts DEF AutRight
  <2>3. ToSet(aut.roots) \subseteq DOMAIN aut.table \ Open
    BY <2>2, RootsIn
  <2> QED
    BY <1>1, <1>2, <1>4, <2>2, <2>3, ManagerFacts DEF Finished, Sound
<1> QED
  BY <1>3, <1>4

-----------------------------------------------------------------------------
(* The actions of makepath.                                                  *)

LEMMA LeafFits ==
    ASSUME NEW t, NEW v \in SUBSET Elements
    PROVE  Fits(t, Leaf(v))
BY LeafFacts DEF Fits, Shaped

LEMMA PathStartKeeps ==
    ASSUME BddInv, PathStart
    PROVE  BddInv'
<1>1. /\ op.kind = "none" /\ acts = <<>> /\ inter = <<>> /\ Open = {}
      /\ use \in {"none", "apply1"}
  BY IdleFacts DEF PathStart, TmpMayGrow
<1>2. PICK path \in DOMAIN Paths : \E e \in Paths[path] : \E f \in Find(tmp, Leaf({e}), <<>>) :
        /\ op' = [kind |-> "path", path |-> path, left |-> Vars,
                  goal |-> [l \in Letters |->
                               IF \A i \in 0..Vars-1 : path[i] \in {Either, l[i]}
                               THEN {e} ELSE Default]]
        /\ tmp' = f.m /\ marks' = MarksIn(f.m, DoubledBy(f))
        /\ res' = f.at
  BY DEF PathStart
<1>3. PICK e \in Paths[path] : \E f \in Find(tmp, Leaf({e}), <<>>) :
        /\ op' = [kind |-> "path", path |-> path, left |-> Vars, goal |-> PathFrom(path, 0, e)]
        /\ tmp' = f.m /\ marks' = MarksIn(f.m, DoubledBy(f))
        /\ res' = f.at
  BY <1>2 DEF PathFrom
<1>4. PICK f \in Find(tmp, Leaf({e}), <<>>) :
        /\ op' = [kind |-> "path", path |-> path, left |-> Vars, goal |-> PathFrom(path, 0, e)]
        /\ tmp' = f.m /\ marks' = MarksIn(f.m, DoubledBy(f))
        /\ res' = f.at
  BY <1>3
<1>5. pc' = "start" /\ aut' = aut /\ use' = use /\ acts' = <<>> /\ inter' = <<>>
      /\ tmpMeans' = tmpMeans /\ autMeans' = autMeans
  BY <1>1 DEF PathStart
<1>6. op'.kind = "path" /\ op'.path = path /\ op'.left = Vars /\ op'.goal = PathFrom(path, 0, e)
  BY <1>4
<1>7. Fits(tmp.table, Leaf({e}))
  BY PathType, LeafFits
<1>8. /\ FoundRight(tmp, Leaf({e}), <<>>, f) /\ TmpRight(f.m, tmpMeans)
      /\ ~ DoubledBy(f) =>
           Carries(tmp.table, DOMAIN tmp.table, f.m.table, DOMAIN f.m.table, <<>>)
  <2>1. <<>> \in Seq(DOMAIN tmp.table \cup {GoingLeft})
    OBVIOUS
  <2> QED
    BY <1>7, <2>1, InvFacts, SearchTmp
<1>9. /\ AutRight(use, f.m.table, aut, autMeans, {})
      /\ MarksRight(use, f.m.table, aut.table, MarksIn(f.m, DoubledBy(f)))
  <2>1. DoubledBy(f) \in BOOLEAN
    BY DEF DoubledBy
  <2> QED
    BY <1>1, <1>8, <2>1, InvFacts, OthersKept
<1>10. PathRight(f.m.table, path, Vars, PathFrom(path, 0, e), f.at)
  BY <1>7, <1>8, InvFacts, PathBegins
<1>11. Open' = {}
  BY <1>6 DEF Open
<1>12. UseOK'
  BY <1>1, <1>5, <1>6 DEF UseOK
<1>13. PathOK'
  BY <1>4, <1>5, <1>6, <1>10 DEF PathOK
<1> QED
  BY <1>4, <1>5, <1>6, <1>8, <1>9, <1>11, <1>12, <1>13 DEF BddInv, Phase

LEMMA PathFacts ==
    ASSUME BddInv, pc = "start", op.kind = "path"
    PROVE  /\ acts = <<>> /\ inter = <<>> /\ Open = {} /\ use \in {"none", "apply1"}
           /\ op = [kind |-> "path", path |-> op.path, left |-> op.left, goal |-> op.goal]
           /\ PathRight(tmp.table, op.path, op.left, op.goal, res)
BY InvFacts DEF BddInv, Phase, PathOK, IdleOK

LEMMA PathStepKeeps ==
    ASSUME BddInv, PathStep
    PROVE  BddInv'
<1>1. /\ pc = "start" /\ op.kind = "path" /\ op.left > 0
      /\ op' = [op EXCEPT !.left = op.left - 1]
      /\ aut' = aut /\ use' = use /\ pc' = pc /\ acts' = acts /\ inter' = inter
      /\ tmpMeans' = tmpMeans /\ autMeans' = autMeans
  BY DEF PathStep
<1>2. /\ acts = <<>> /\ inter = <<>> /\ Open = {} /\ use \in {"none", "apply1"}
      /\ op = [kind |-> "path", path |-> op.path, left |-> op.left, goal |-> op.goal]
      /\ PathRight(tmp.table, op.path, op.left, op.goal, res)
  BY <1>1, PathFacts
<1>3. op' = [kind |-> "path", path |-> op.path, left |-> op.left - 1, goal |-> op.goal]
  BY <1>1, <1>2
<1>4. op'.kind = "path" /\ op'.path = op.path /\ op'.left = op.left - 1 /\ op'.goal = op.goal
  BY <1>3
<1>5. /\ op.path \in DOMAIN Paths /\ op.left \in 0..Vars /\ op.left - 1 \in 0..Vars-1
  BY <1>1, <1>2, VarsFacts DEF PathRight
<1>6. PICK e \in Paths[op.path] :
        /\ op.goal = PathFrom(op.path, 0, e)
        /\ res \in DOMAIN tmp.table /\ op.left <= tmp.table[res].index
        /\ Means(tmp.table, res) = PathFrom(op.path, op.left, e)
  BY <1>2 DEF PathRight
<1>7. op.path \in [0..Vars-1 -> {0, 1, 2}]
  BY <1>5, <1>6, PathType
<1>8. PathBit = op.path[op.left - 1]
  BY DEF PathBit
<1>9. Open' = {} /\ UseOK'
  BY <1>1, <1>2, <1>4 DEF Open, UseOK
<1> SUFFICES /\ TmpRight(tmp', tmpMeans) /\ AutRight(use, tmp'.table, aut, autMeans, {})
             /\ MarksRight(use, tmp'.table, aut.table, marks')
             /\ PathRight(tmp'.table, op.path, op.left - 1, op.goal, res')
  BY <1>1, <1>2, <1>3, <1>4, <1>9 DEF BddInv, Phase, PathOK
<1>10. CASE PathBit = Either /\ tmp' = tmp /\ marks' = marks /\ res' = res
  <2>1. PathFrom(op.path, op.left - 1, e) = PathFrom(op.path, op.left, e)
    <3>1. (op.left - 1) + 1 = op.left
      BY <1>5
    <3>2. PathCases(op.path, op.left - 1, e)
      BY <1>5, <1>7, PathSplits
    <3> QED
      BY <1>8, <1>10, <3>1, <3>2 DEF PathCases
  <2>2. op.left - 1 <= tmp.table[res].index
    <3>1. tmp.table[res].index \in Int
      BY <1>6, InvFacts, NodeFacts
    <3> QED
      BY <1>5, <1>6, <3>1
  <2>3. PathRight(tmp.table, op.path, op.left - 1, op.goal, res)
    BY <1>5, <1>6, <2>1, <2>2, VarsFacts DEF PathRight
  <2> QED
    BY <1>2, <1>10, <2>3, InvFacts
<1>11. CASE PathBit # Either /\
            \E f \in Find(tmp, Leaf(Default), <<res>>) :
               LET sub == f.list[1]
                   node == IF PathBit = 0 THEN Inner(op.left - 1, sub, f.at)
                           ELSE Inner(op.left - 1, f.at, sub)
               IN \E g \in Find(f.m, node, <<>>) :
                    /\ tmp' = g.m
                    /\ marks' = MarksIn(g.m, DoubledBy(f) \/ DoubledBy(g))
                    /\ res' = g.at
  <2>1. PICK f \in Find(tmp, Leaf(Default), <<res>>) :
               LET sub == f.list[1]
                   node == IF PathBit = 0 THEN Inner(op.left - 1, sub, f.at)
                           ELSE Inner(op.left - 1, f.at, sub)
               IN \E g \in Find(f.m, node, <<>>) :
                    /\ tmp' = g.m
                    /\ marks' = MarksIn(g.m, DoubledBy(f) \/ DoubledBy(g))
                    /\ res' = g.at
    BY <1>11
  <2> DEFINE sub == f.list[1]
             node == IF PathBit = 0 THEN Inner(op.left - 1, sub, f.at)
                     ELSE Inner(op.left - 1, f.at, sub)
  <2>2. PICK g \in Find(f.m, node, <<>>) :
                    /\ tmp' = g.m
                    /\ marks' = MarksIn(g.m, DoubledBy(f) \/ DoubledBy(g))
                    /\ res' = g.at
    BY <2>1
  <2>3. Fits(tmp.table, Leaf(Default))
    BY LeafFits DEF Default
  <2>4. /\ FoundRight(tmp, Leaf(Default), <<res>>, f) /\ TmpRight(f.m, tmpMeans)
        /\ ~ DoubledBy(f) =>
             Carries(tmp.table, DOMAIN tmp.table, f.m.table, DOMAIN f.m.table, <<>>)
    <3>1. <<res>> \in Seq(DOMAIN tmp.table \cup {GoingLeft})
      BY <1>6
    <3> QED
      BY <2>3, <3>1, InvFacts, SearchTmp
  <2>5. /\ Fits(f.m.table, node) /\ node.index = op.left - 1
        /\ NodeMeans(f.m.table, node) = PathFrom(op.path, op.left - 1, e)
    <3> DEFINE bit == PathBit
               list == <<res>>
    <3>0. bit = op.path[op.left - 1] /\ bit # Either /\ list = <<res>>
      BY <1>8, <1>11
    <3>1. FoundRight(tmp, Leaf(Default), list, f)
      BY <2>4
    <3>2. PathJoins(bit, op.left - 1, f, node)
      BY DEF PathJoins
    <3>3. tmp \in Managers
      BY InvFacts
    <3>4. PathSoFar(tmp.table, op.path, op.left, e, res)
      BY <1>6 DEF PathSoFar
    <3> HIDE DEF bit, list, node
    <3>5. PathOver(f.m.table, op.path, op.left - 1, e, node)
      BY <1>1, <1>5, <2>3, <3>0, <3>1, <3>2, <3>3, <3>4, PathNode
    <3> QED
      BY <3>5 DEF PathOver
  <2> HIDE DEF node, sub
  <2>6. /\ FoundRight(f.m, node, <<>>, g) /\ TmpRight(g.m, tmpMeans)
        /\ ~ DoubledBy(g) =>
             Carries(f.m.table, DOMAIN f.m.table, g.m.table, DOMAIN g.m.table, <<>>)
    <3>1. <<>> \in Seq(DOMAIN f.m.table \cup {GoingLeft})
      OBVIOUS
    <3> QED
      BY <2>2, <2>4, <2>5, <3>1, SearchTmp
  <2> DEFINE d == DoubledBy(f) \/ DoubledBy(g)
  <2>7. ~ d => Carries(tmp.table, DOMAIN tmp.table, g.m.table, DOMAIN g.m.table, <<>>)
    BY <2>4, <2>6, CarriesStays
  <2>8. d \in BOOLEAN
    BY DEF DoubledBy
  <2>9. MarksIn(g.m, DoubledBy(f) \/ DoubledBy(g)) = MarksIn(g.m, d)
    OBVIOUS
  <2> HIDE DEF d
  <2>10. /\ AutRight(use, g.m.table, aut, autMeans, {})
         /\ MarksRight(use, g.m.table, aut.table, MarksIn(g.m, d))
    BY <1>2, <2>7, <2>8, InvFacts, OthersKept
  <2>11. PathRight(g.m.table, op.path, op.left - 1, op.goal, g.at)
    <3>1. g.at \in DOMAIN g.m.table
      BY <2>6 DEF FoundRight
    <3>2. /\ g.m.table[g.at].index = node.index
          /\ Means(g.m.table, g.at) = NodeMeans(f.m.table, node)
      <4>1. f.m.table \in Seq(Nodes)
        BY <2>4, TmpFacts
      <4> QED
        BY <2>5, <2>6, <4>1, FoundMeans
    <3>3. op.left - 1 <= g.m.table[g.at].index
      BY <1>5, <2>5, <3>2
    <3> QED
      BY <1>5, <1>6, <2>5, <3>1, <3>2, <3>3, VarsFacts DEF PathRight
  <2> QED
    BY <2>2, <2>6, <2>9, <2>10, <2>11
<1> QED
  BY <1>10, <1>11 DEF PathStep

LEMMA PathEndKeeps ==
    ASSUME BddInv, PathEnd
    PROVE  BddInv'
<1>1. /\ pc = "start" /\ op.kind = "path" /\ op.left = 0
      /\ tmp' = [Root(tmp, res) EXCEPT !.cache = <<>>]
      /\ tmpMeans' = Append(tmpMeans, op.goal)
      /\ pc' = "idle" /\ op' = NoOp
      /\ aut' = aut /\ use' = use /\ marks' = marks /\ acts' = acts /\ inter' = inter
      /\ autMeans' = autMeans
  BY DEF PathEnd
<1>2. /\ acts = <<>> /\ inter = <<>> /\ Open = {} /\ use \in {"none", "apply1"}
      /\ PathRight(tmp.table, op.path, op.left, op.goal, res)
  BY <1>1, PathFacts
<1>3. res \in DOMAIN tmp.table /\ Means(tmp.table, res) = op.goal /\ op.goal \in Denotations
  <2>1. PICK e \in Paths[op.path] :
          /\ op.goal = PathFrom(op.path, 0, e)
          /\ res \in DOMAIN tmp.table
          /\ Means(tmp.table, res) = PathFrom(op.path, op.left, e)
    BY <1>2 DEF PathRight
  <2>2. op.path \in DOMAIN Paths
    BY <1>2 DEF PathRight
  <2> QED
    BY <1>1, <2>1, <2>2, PathType
<1>4. /\ Root(tmp, res).table = tmp.table /\ Root(tmp, res) \in Managers
      /\ RootsRight(Root(tmp, res), DOMAIN tmp.table, Append(tmpMeans, op.goal))
  <2>1. RootsRight(tmp, DOMAIN tmp.table, tmpMeans) /\ DOMAIN tmp.table \in SUBSET Nat
    BY InvFacts DEF TmpRight
  <2> QED
    BY <1>3, <2>1, InvFacts, RootsAdd
<1>5. /\ tmp'.table = tmp.table /\ tmp'.roots = Root(tmp, res).roots /\ DOMAIN tmp'.cache = {}
      /\ tmp' \in Managers
  <2> DEFINE r == Root(tmp, res)
  <2>1. r \in Managers /\ tmp' = [r EXCEPT !.cache = <<>>]
    BY <1>1, <1>4
  <2> HIDE DEF r
  <2>2. r = [table |-> r.table, roots |-> r.roots, trigger |-> r.trigger, cache |-> r.cache]
    BY <2>1, ManagerFacts
  <2>3. tmp' = [table |-> r.table, roots |-> r.roots, trigger |-> r.trigger, cache |-> <<>>]
    BY <2>1, <2>2
  <2>4. tmp' \in Managers
    BY <2>1, <2>3, ManagerFacts, EmptyCache DEF Managers
  <2>5. tmp'.table = r.table /\ tmp'.roots = r.roots /\ tmp'.cache = <<>>
    BY <2>3
  <2> QED
    BY <1>4, <2>4, <2>5, EmptyCache DEF r
<1>6. TmpRight(tmp', tmpMeans')
  <2>1. RootsRight(tmp', DOMAIN tmp'.table, tmpMeans')
    BY <1>1, <1>4, <1>5 DEF RootsRight
  <2>2. CacheRight("hashed", tmp'.table, tmp'.table, tmp'.cache, {})
    BY <1>5 DEF CacheRight
  <2>3. Sound(tmp'.table)
    BY <1>5, InvFacts
  <2> QED
    BY <1>5, <2>1, <2>2, <2>3 DEF TmpRight
<1>7. Open' = {} /\ UseOK' /\ IdleOK'
  BY <1>1, <1>2 DEF Open, UseOK, IdleOK, NoOp
<1>8. AutRight(use, tmp.table, aut, autMeans, {}) /\ MarksRight(use, tmp.table, aut.table, marks)
  BY <1>2, InvFacts
<1> QED
  BY <1>1, <1>5, <1>6, <1>7, <1>8 DEF BddInv, Phase

-----------------------------------------------------------------------------
(* The beginnings of the operations.                                         *)

\* No call is under way, so that the one at work is to reach the goal.
LEMMA FirstCall ==
    ASSUME NEW kind \in Kinds, NEW t, NEW L, Ordered(t, L), NEW key, KeyOK(kind, t, L, key),
           NEW goal, goal = ResultIn(kind, t, key), NEW u, NEW F, NEW frames, frames = <<>>, NEW W
    PROVE  /\ CallsRight(kind, goal, t, L, u, F, frames, W)
           /\ CallRight(kind, goal, t, L, frames, W, key)
           /\ goal \in Denotations
<1>1. Len(frames) = 0 /\ frames \in Seq(Frames) /\ 1..Len(frames) = {}
  OBVIOUS
<1>2. CallsRight(kind, goal, t, L, u, F, frames, W)
  BY <1>1 DEF CallsRight
<1>3. /\ FloorAt(frames, 1) = -1
      /\ GoalAt(kind, goal, t, frames, W, 1) = goal
  BY GoalFacts
<1>4. KeyIndex(t, key) \in 0..Vars /\ goal \in Denotations
  BY KeyFacts, ResultType
<1>5. Len(frames) + 1 = 1 /\ -1 < KeyIndex(t, key)
  BY <1>1, <1>4
<1> QED
  BY <1>2, <1>3, <1>4, <1>5 DEF CallRight

LEMMA BeginKeeps ==
    ASSUME BddInv, Idle, NEW kind \in Kinds, NEW a, NEW b, NEW goal, Begin(kind, a, b, goal),
           KeyOK(kind, tmp.table, Operands, <<a, b>>),
           goal = ResultIn(kind, tmp.table, <<a, b>>),
           \/ kind = "hashed" /\ use \in {"none", "apply1"} /\ use' = use
           \/ kind # "hashed" /\ use \in {"none", kind} /\ use' = kind
    PROVE  BddInv'
<1>1. /\ op' = [kind |-> kind, goal |-> goal]
      /\ pc' = "start" /\ p' = a /\ q' = b
      /\ tmp' = tmp /\ aut' = aut /\ marks' = marks /\ acts' = acts /\ inter' = inter
      /\ tmpMeans' = tmpMeans /\ autMeans' = autMeans
  BY DEF Begin
<1>2. op'.kind = kind /\ op'.goal = goal
  BY <1>1
<1>3. acts = <<>> /\ inter = <<>> /\ Open = {}
  BY IdleFacts
<1>4. Open' = {}
  <2>1. DOMAIN acts' = {}
    BY <1>1, <1>3
  <2> QED
    BY <2>1 DEF Open, Pending
<1>5. Operands' = Operands /\ Ordered(tmp.table, Operands)
  BY <1>1, InvFacts DEF Operands
<1>6. UseOK'
  BY <1>2, InvFacts DEF UseOK, Kinds
<1>7. AutRight(use', tmp.table, aut, autMeans, {}) /\ MarksRight(use', tmp.table, aut.table, marks)
  <2>1. AutRight(use, tmp.table, aut, autMeans, {}) /\ MarksRight(use, tmp.table, aut.table, marks)
    BY <1>3, InvFacts
  <2>2. use' = use \/ (use = "none" /\ use' \in {"apply1", "project", "sequential"})
    BY DEF Kinds
  <2> QED
    BY <2>1, <2>2, AutUse, MarksUse
<1>8. WorkOK'
  <2>1. /\ CallsRight(kind, goal, tmp.table, Operands, Target'.table, Finished', acts, Waits')
        /\ CallRight(kind, goal, tmp.table, Operands, acts, Waits', <<a, b>>)
        /\ goal \in Denotations
    BY <1>3, <1>5, FirstCall
  <2>2. WorkRight(kind, goal, tmp.table, Operands, Target'.table, Finished', acts, Waits',
                  "start", <<a, b>>, res')
    BY <2>1 DEF WorkRight
  <2>3. ListRight("start", Target'.table, acts, inter)
    BY <1>3 DEF ListRight
  <2>4. NodesRight(aut, acts)
    BY <1>3 DEF NodesRight
  <2> QED
    BY <1>1, <1>2, <1>5, <2>2, <2>3, <2>4 DEF WorkOK
<1> QED
  BY <1>1, <1>2, <1>4, <1>6, <1>7, <1>8, InvFacts DEF BddInv, Phase, Kinds

LEMMA RootFacts ==
    ASSUME BddInv, NEW n \in DOMAIN tmp.roots
    PROVE  /\ tmp.roots[n] \in Operands /\ tmp.roots[n] # Nowhere
           /\ Means(tmp.table, tmp.roots[n]) = tmpMeans[n]
<1>1. tmp.roots[n] \in Operands /\ Means(tmp.table, tmp.roots[n]) = tmpMeans[n]
  <2>1. RootsRight(tmp, DOMAIN tmp.table, tmpMeans)
    BY InvFacts DEF TmpRight
  <2> QED
    BY <2>1, InvFacts, RootsIn
<1> QED
  BY <1>1, InvFacts, OrderedFacts

LEMMA ApplyHashedKeeps ==
    ASSUME BddInv, ApplyHashed
    PROVE  BddInv'
<1>1. Idle /\ use \in {"none", "apply1"} /\ use' = use
  BY DEF ApplyHashed, TmpMayGrow
<1>2. PICK m \in DOMAIN tmp.roots, n \in DOMAIN tmp.roots :
         Begin("hashed", tmp.roots[m], tmp.roots[n], Joined(tmpMeans[m], tmpMeans[n]))
  BY DEF ApplyHashed
<1> DEFINE a == tmp.roots[m]
           b == tmp.roots[n]
<1>3. /\ a \in Operands /\ b \in Operands /\ b # Nowhere
      /\ Means(tmp.table, a) = tmpMeans[m] /\ Means(tmp.table, b) = tmpMeans[n]
  BY RootFacts
<1>4. "hashed" \in Kinds
  BY DEF Kinds
<1>5. KeyOK("hashed", tmp.table, Operands, <<a, b>>)
  BY <1>3 DEF KeyOK
<1>6. Joined(tmpMeans[m], tmpMeans[n]) = ResultIn("hashed", tmp.table, <<a, b>>)
  BY <1>3, ResultCases
<1> QED
  BY <1>1, <1>2, <1>4, <1>5, <1>6, BeginKeeps

LEMMA Apply1Keeps ==
    ASSUME BddInv, Apply1
    PROVE  BddInv'
<1>1. Idle /\ use \in {"none", "apply1"} /\ use' = "apply1"
  BY DEF Apply1, AutMayGrow
<1>2. PICK n \in DOMAIN tmp.roots :
         Begin("apply1", tmp.roots[n], Nowhere, Imaged(tmpMeans[n]))
  BY DEF Apply1
<1> DEFINE a == tmp.roots[n]
<1>3. a \in Operands /\ Means(tmp.table, a) = tmpMeans[n]
  BY RootFacts
<1>4. "apply1" \in Kinds
  BY DEF Kinds
<1>5. KeyOK("apply1", tmp.table, Operands, <<a, Nowhere>>)
  BY <1>3 DEF KeyOK, Binary
<1>6. Imaged(tmpMeans[n]) = ResultIn("apply1", tmp.table, <<a, Nowhere>>)
  BY <1>3, ResultCases
<1> QED
  BY <1>1, <1>2, <1>4, <1>5, <1>6, BeginKeeps

LEMMA ProjectKeeps ==
    ASSUME BddInv, Project
    PROVE  BddInv'
<1>1. Idle /\ use \in {"none", "project"} /\ use' = "project"
  BY DEF Project, AutMayGrow
<1>2. PICK n \in DOMAIN tmp.roots :
         Begin("project", tmp.roots[n], Nowhere, Guessed(tmpMeans[n], GuessedIndex))
  BY DEF Project
<1> DEFINE a == tmp.roots[n]
<1>3. a \in Operands /\ Means(tmp.table, a) = tmpMeans[n]
  BY RootFacts
<1>4. "project" \in Kinds
  BY DEF Kinds
<1>5. KeyOK("project", tmp.table, Operands, <<a, Nowhere>>)
  BY <1>3 DEF KeyOK, Binary
<1>6. Guessed(tmpMeans[n], GuessedIndex) = ResultIn("project", tmp.table, <<a, Nowhere>>)
  BY <1>3, ResultCases
<1> QED
  BY <1>1, <1>2, <1>4, <1>5, <1>6, BeginKeeps

LEMMA ApplySequentialKeeps ==
    ASSUME BddInv, ApplySequential
    PROVE  BddInv'
<1>1. Idle /\ use \in {"none", "sequential"} /\ use' = "sequential"
  BY DEF ApplySequential, AutMayGrow
<1>2. PICK m \in DOMAIN tmp.roots, n \in DOMAIN tmp.roots :
         Begin("sequential", tmp.roots[m], tmp.roots[n], Joined(tmpMeans[m], tmpMeans[n]))
  BY DEF ApplySequential
<1> DEFINE a == tmp.roots[m]
           b == tmp.roots[n]
<1>3. /\ a \in Operands /\ b \in Operands /\ b # Nowhere
      /\ Means(tmp.table, a) = tmpMeans[m] /\ Means(tmp.table, b) = tmpMeans[n]
  BY RootFacts
<1>4. "sequential" \in Kinds
  BY DEF Kinds
<1>5. KeyOK("sequential", tmp.table, Operands, <<a, b>>)
  BY <1>3 DEF KeyOK
<1>6. Joined(tmpMeans[m], tmpMeans[n]) = ResultIn("sequential", tmp.table, <<a, b>>)
  BY <1>3, ResultCases
<1> QED
  BY <1>1, <1>2, <1>4, <1>5, <1>6, BeginKeeps

-----------------------------------------------------------------------------
(* The label start.                                                          *)

LEMMA StartFacts ==
    ASSUME BddInv, AtStart
    PROVE  /\ pc = "start" /\ op.kind \in Kinds /\ op.kind # "path"
           /\ CallRight(op.kind, op.goal, tmp.table, Operands, acts, Waits, <<p, q>>)
           /\ Here = HereIn(op.kind, tmp.table, <<p, q>>)
           /\ KeyOK(op.kind, tmp.table, Operands, Here) /\ Proper(op.kind, tmp.table, Here)
           /\ Here \in Nat \X Nat /\ Here = <<Here[1], Here[2]>>
           /\ Here[1] \in DOMAIN tmp.table /\ KeyTyped(tmp.table, Here)
<1>1. pc = "start" /\ op.kind # "path"
  BY DEF AtStart
<1>2. /\ op.kind \in Kinds
      /\ CallRight(op.kind, op.goal, tmp.table, Operands, acts, Waits, <<p, q>>)
  BY <1>1, WorkFacts
<1>3. KeyOK(op.kind, tmp.table, Operands, <<p, q>>) /\ Ordered(tmp.table, Operands)
  BY <1>2, InvFacts DEF CallRight
<1>4. p # Nowhere
  <2>1. <<p, q>>[1] \in Operands /\ <<p, q>>[1] = p
    BY <1>3 DEF KeyOK
  <2> QED
    BY <1>3, <2>1, OrderedFacts
<1>5. Here = HereIn(op.kind, tmp.table, <<p, q>>)
  <2>1. Splits <=> op.kind = "project" /\ q = Nowhere /\ IndexIn(tmp.table, p) = GuessedIndex
    BY DEF Splits, Index, IndexIn
  <2>2. HereIn(op.kind, tmp.table, <<p, q>>) =
          IF op.kind = "project" /\ p = q THEN <<p, Nowhere>>
          ELSE IF Splits THEN <<tmp.table[p].lo, tmp.table[p].hi>> ELSE <<p, q>>
    BY <2>1 DEF HereIn
  <2>3. CASE op.kind = "project" /\ p = q
    <3>1. ~ Splits
      BY <1>4, <2>1, <2>3
    <3> QED
      BY <2>2, <2>3, <3>1 DEF Here
  <2>4. CASE Splits
    <3>1. ~ (op.kind = "project" /\ p = q)
      BY <1>4, <2>1, <2>4
    <3> QED
      BY <2>2, <2>4, <3>1 DEF Here
  <2>5. CASE ~ Splits /\ ~ (op.kind = "project" /\ p = q)
    BY <2>2, <2>5 DEF Here
  <2> QED
    BY <2>3, <2>4, <2>5
<1>6. KeyOK(op.kind, tmp.table, Operands, Here) /\ Proper(op.kind, tmp.table, Here)
  BY <1>2, <1>3, <1>5, HereFacts
<1>7. /\ Here \in Nat \X Nat /\ Here = <<Here[1], Here[2]>>
      /\ Here[1] \in Operands /\ (Here[2] = Nowhere \/ Here[2] \in Operands)
  BY <1>2, <1>3, <1>6, KeyFacts
<1> QED
  BY <1>1, <1>2, <1>5, <1>6, <1>7, InvFacts DEF KeyTyped

\* What is remembered is right.
LEMMA RememberedRight ==
    ASSUME BddInv, AtStart, Remembered # Nowhere
    PROVE  /\ Remembered \in Finished
           /\ EntryRight(op.kind, tmp.table, Target.table, Here, Remembered)
<1> DEFINE r == Remembered
<1>1. op.kind \in Kinds /\ pc = "start" /\ op.kind # "path"
  BY StartFacts
<1>2. CASE op.kind = "apply1"
  <2>1. r = marks[Here[1]]
    BY <1>2 DEF Remembered
  <2>2. MarksRight("apply1", tmp.table, aut.table, marks) /\ Here[1] \in DOMAIN tmp.table
    BY <1>2, InvFacts, StartFacts
  <2>3. /\ marks[Here[1]] \in DOMAIN aut.table
        /\ EntryRight("apply1", tmp.table, aut.table, <<Here[1], Nowhere>>, marks[Here[1]])
    BY <2>1, <2>2 DEF MarksRight
  <2>4. Here = <<Here[1], Nowhere>>
    <3>1. KeyOK("apply1", tmp.table, Operands, Here)
      BY <1>2, StartFacts
    <3>2. Here = <<Here[1], Here[2]>> /\ Here[2] = Nowhere
      BY <3>1 DEF KeyOK
    <3> QED
      BY <3>2
  <2>5. Target = aut /\ Finished = DOMAIN aut.table
    BY <1>1, <1>2, TargetFacts
  <2> QED
    BY <1>2, <2>1, <2>3, <2>4, <2>5
<1>3. CASE op.kind # "apply1"
  <2>1. Here \in DOMAIN Target.cache /\ r = Target.cache[Here]
    BY <1>3 DEF Remembered
  <2>2. CacheRight(op.kind, tmp.table, Target.table, Target.cache, Open)
    <3>1. CASE op.kind = "hashed"
      BY <1>1, <3>1, InvFacts, TargetFacts DEF TmpRight
    <3>2. CASE op.kind # "hashed"
      <4>1. use = op.kind /\ Target = aut
        BY <1>1, <1>3, <3>2, InvFacts, TargetFacts DEF Kinds
      <4> QED
        BY <4>1, InvFacts DEF AutRight
    <3> QED
      BY <3>1, <3>2
  <2>3. r \notin Open
    <3>1. CASE op.kind # "sequential"
      BY <3>1, InvFacts
    <3>2. CASE op.kind = "sequential"
      <4>1. Target = aut /\ NodesRight(aut, acts) /\ Ordered(tmp.table, Operands)
            /\ CallsRight(op.kind, op.goal, tmp.table, Operands, aut.table, Finished, acts, Waits)
        BY <1>1, <3>2, InvFacts, WorkFacts, TargetFacts
      <4>2. /\ CallRight(op.kind, op.goal, tmp.table, Operands, acts, Waits, <<p, q>>)
            /\ Here = HereIn(op.kind, tmp.table, <<p, q>>)
        BY StartFacts
      <4>3. aut.cache[Here] \notin OpenIn(acts)
        BY <1>1, <2>1, <4>1, <4>2, KnownClosed
      <4> QED
        BY <2>1, <3>2, <4>1, <4>3 DEF Open, OpenIn, Pending
    <3> QED
      BY <3>1, <3>2
  <2>4. r \in DOMAIN Target.table /\ EntryRight(op.kind, tmp.table, Target.table, Here, r)
    BY <2>1, <2>2, <2>3 DEF CacheRight
  <2> QED
    BY <2>3, <2>4 DEF Finished
<1> QED
  BY <1>2, <1>3

\* A step that leaves the tables and what they mean.
LEMMA MovesOnly ==
    ASSUME BddInv, pc \in {"start", "finish"}, op.kind \in Kinds,
           tmp' = tmp, aut' = aut, use' = use, marks' = marks, op' = op,
           tmpMeans' = tmpMeans, autMeans' = autMeans,
           pc' \in {"start", "finish"}, Open' = Open,
           op.kind # "sequential" => ListRight(pc', Target.table, acts', inter'),
           op.kind = "sequential" => NodesRight(aut, acts'),
           CallsRight(op.kind, op.goal, tmp.table, Operands, Target.table, Finished, acts', Waits'),
           pc' = "start" =>
             CallRight(op.kind, op.goal, tmp.table, Operands, acts', Waits', <<p', q'>>),
           pc' = "finish" =>
             ResultRight(op.kind, op.goal, tmp.table, Target.table, Finished, acts', Waits', res')
    PROVE  BddInv'
<1>1. Target' = Target /\ Operands' = Operands /\ Finished' = Finished
  BY DEF Target, Hashed, Operands, Finished
<1>2. op = [kind |-> op.kind, goal |-> op.goal] /\ op.goal \in Denotations
  BY WorkFacts DEF Kinds
<1>3. UseOK'
  BY InvFacts DEF UseOK
<1>4. WorkOK'
  BY <1>1, <1>2 DEF WorkOK, WorkRight
<1>5. op.kind # "path"
  BY DEF Kinds
<1> QED
  BY <1>3, <1>4, <1>5, InvFacts DEF BddInv, Phase

LEMMA SameWaits ==
    ASSUME acts' = acts, op' = op,
           op.kind # "sequential" => \A n \in DOMAIN acts : inter'[n] = inter[n]
    PROVE  Waits' = Waits
<1>1. \A n \in DOMAIN acts : Waiting(n)' = Waiting(n)
  BY DEF Waiting
<1> QED
  BY <1>1 DEF Waits

LEMMA KnownKeeps ==
    ASSUME BddInv, Known
    PROVE  BddInv'
<1>1. /\ AtStart /\ Remembered # Nowhere
      /\ res' = Remembered /\ pc' = "finish" /\ inter' = Append(inter, GoingLeft)
      /\ tmp' = tmp /\ aut' = aut /\ use' = use /\ marks' = marks /\ op' = op /\ acts' = acts
      /\ tmpMeans' = tmpMeans /\ autMeans' = autMeans
  BY DEF Known
<1>2. op.kind \in Kinds /\ pc = "start" /\ op.kind # "path"
  BY <1>1, StartFacts
<1>3. /\ CallsRight(op.kind, op.goal, tmp.table, Operands, Target.table, Finished, acts, Waits)
      /\ op.kind # "sequential" => ListRight("start", Target.table, acts, inter)
      /\ op.kind = "sequential" => NodesRight(aut, acts)
  BY <1>2, WorkFacts
<1>4. acts \in Seq(Frames) /\ Len(acts) \in Nat /\ DOMAIN acts = 1..Len(acts)
  BY <1>3 DEF CallsRight
<1>5. ASSUME op.kind # "sequential"
      PROVE  /\ ListRight("finish", Target.table, acts, inter')
             /\ \A n \in DOMAIN acts : inter'[n] = inter[n]
  <2> DEFINE S == DOMAIN Target.table \cup {GoingLeft}
  <2>1. inter \in Seq(S) /\ Len(inter) = Len(acts)
    BY <1>3, <1>5 DEF ListRight
  <2>2. GoingLeft \in S
    OBVIOUS
  <2> HIDE DEF S
  <2>3. /\ Append(inter, GoingLeft) \in Seq(S) /\ Len(Append(inter, GoingLeft)) = Len(acts) + 1
        /\ \A n \in DOMAIN acts : Append(inter, GoingLeft)[n] = inter[n]
    BY <1>4, <2>1, <2>2, AppendFacts
  <2> QED
    BY <1>1, <2>3 DEF ListRight, S
<1>6. Waits' = Waits
  BY <1>1, <1>5, SameWaits
<1>7. Open' = Open
  BY <1>1 DEF Open, Pending
<1>8. ResultRight(op.kind, op.goal, tmp.table, Target.table, Finished, acts, Waits, Remembered)
  <2> DEFINE key == <<p, q>>
             here == Here
             r == Remembered
             W == Waits
  <2>1. Ordered(tmp.table, Operands) /\ Ordered(Target.table, Finished)
    BY <1>2, InvFacts, TargetFacts
  <2>2. /\ CallRight(op.kind, op.goal, tmp.table, Operands, acts, W, key)
        /\ here = HereIn(op.kind, tmp.table, key)
    BY <1>1, StartFacts
  <2>3. r \in Finished /\ EntryRight(op.kind, tmp.table, Target.table, here, r)
    BY <1>1, RememberedRight
  <2>4. CallsRight(op.kind, op.goal, tmp.table, Operands, Target.table, Finished, acts, W)
    BY <1>3
  <2> HIDE DEF key, here, r, W
  <2>5. ResultRight(op.kind, op.goal, tmp.table, Target.table, Finished, acts, W, r)
    BY <1>2, <2>1, <2>2, <2>3, <2>4, KnownWork
  <2> QED
    BY <2>5 DEF r, W
<1> QED
  BY <1>1, <1>2, <1>3, <1>5, <1>6, <1>7, <1>8, MovesOnly

\* The frame of a call that goes on.
LEMMA FrameIs ==
    ASSUME BddInv, AtStart, ~ BothLeaves, NEW node \in Nat, NEW frame, frame = Frame(node)
    PROVE  /\ frame \in Frames
           /\ frame.index = KeyIndex(tmp.table, Here) /\ KeyIndex(tmp.table, Here) < Vars
           /\ frame.key = Here
           /\ frame.second = SuccIn(tmp.table, Here, frame.index, FALSE)
           /\ frame.node = node /\ frame.left = Nowhere
           /\ <<Down(Here[1], TRUE), Down(Here[2], TRUE)>> =
                SuccIn(tmp.table, Here, frame.index, TRUE)
<1> DEFINE t == tmp.table
           i == KeyIndex(t, Here)
<1>1. /\ op.kind \in Kinds /\ KeyOK(op.kind, t, Operands, Here) /\ Proper(op.kind, t, Here)
      /\ Here \in Nat \X Nat /\ Ordered(t, Operands)
  BY StartFacts, InvFacts
<1>2. \A a : Index(a) = IndexIn(t, a)
  BY DEF Index, IndexIn
<1>3. Least = i
  BY <1>2 DEF Least, KeyIndex
<1>4. /\ IndexIn(t, Here[1]) \in 0..Vars /\ IndexIn(t, Here[2]) \in 0..Vars /\ i \in 0..Vars
      /\ i <= IndexIn(t, Here[1]) /\ i <= IndexIn(t, Here[2])
  BY <1>1, KeyFacts
<1>5. i < Vars /\ i \in Nat /\ i # LeafIndex
  BY <1>2, <1>4, VarsFacts DEF BothLeaves
<1> HIDE DEF i
<1>6. \A a, left : Down(a, left) = SideIn(t, a, i, left)
  <2> SUFFICES ASSUME NEW a, NEW left
               PROVE  Down(a, left) = SideIn(t, a, i, left)
    OBVIOUS
  <2>1. CASE a = Nowhere
    BY <1>3, <1>5, <2>1 DEF Down, SideIn, Index
  <2>2. CASE a # Nowhere
    BY <1>3, <1>5, <2>2 DEF Down, SideIn, Index
  <2> QED
    BY <2>1, <2>2
<1>7. \A left : <<Down(Here[1], left), Down(Here[2], left)>> = SuccIn(t, Here, i, left)
  BY <1>6 DEF SuccIn
<1>8. SuccIn(t, Here, i, FALSE) \in Nat \X Nat
  <2>1. FALSE \in BOOLEAN
    OBVIOUS
  <2>2. \A left \in BOOLEAN : KeyOK(op.kind, t, Operands, SuccIn(t, Here, i, left))
    BY <1>1, <1>5, SuccFacts DEF i
  <2> QED
    BY <1>1, <2>1, <2>2, KeyFacts
<1>9. Target.trigger \in Nat
  BY <1>1, TargetFacts, ManagerFacts
<1>10. frame = [index |-> i, key |-> Here, second |-> SuccIn(t, Here, i, FALSE),
                h |-> Target.trigger, node |-> node, left |-> Nowhere]
  BY <1>3, <1>7 DEF Frame
<1>11. frame \in Frames
  <2>1. ASSUME NEW a \in Nat, NEW k \in Nat \X Nat, NEW s \in Nat \X Nat,
               NEW h \in Nat, NEW n \in Nat, NEW l \in Nat
        PROVE  [index |-> a, key |-> k, second |-> s, h |-> h, node |-> n, left |-> l] \in Frames
    BY DEF Frames
  <2> DEFINE k == Here
             s == SuccIn(t, Here, i, FALSE)
             h == Target.trigger
  <2>2. /\ Nowhere \in Nat /\ i \in Nat /\ k \in Nat \X Nat /\ s \in Nat \X Nat /\ h \in Nat
        /\ frame = [index |-> i, key |-> k, second |-> s, h |-> h, node |-> node, left |-> Nowhere]
    BY <1>1, <1>5, <1>8, <1>9, <1>10 DEF Nowhere
  <2> HIDE DEF k, s, h
  <2> QED
    BY <2>1, <2>2
<1>12. /\ frame.index = i /\ frame.key = Here /\ frame.second = SuccIn(t, Here, i, FALSE)
       /\ frame.node = node /\ frame.left = Nowhere
  BY <1>10
<1> QED
  BY <1>5, <1>7, <1>11, <1>12 DEF i

LEMMA DescendKeeps ==
    ASSUME BddInv, Descend
    PROVE  BddInv'
<1>1. /\ AtStart /\ op.kind # "sequential" /\ ~ BothLeaves
      /\ acts' = Append(acts, Frame(Nowhere)) /\ inter' = Append(inter, GoingLeft)
      /\ p' = Down(Here[1], TRUE) /\ q' = Down(Here[2], TRUE) /\ pc' = pc
      /\ tmp' = tmp /\ aut' = aut /\ use' = use /\ marks' = marks /\ op' = op
      /\ tmpMeans' = tmpMeans /\ autMeans' = autMeans
  BY DEF Descend, GoLeft
<1>2. op.kind \in Kinds /\ pc = "start" /\ op.kind # "path"
  BY <1>1, StartFacts
<1>3. CallsRight(op.kind, op.goal, tmp.table, Operands, Target.table, Finished, acts, Waits)
      /\ ListRight("start", Target.table, acts, inter)
  BY <1>1, <1>2, WorkFacts
<1>4. acts \in Seq(Frames) /\ Len(acts) \in Nat /\ DOMAIN acts = 1..Len(acts)
  BY <1>3 DEF CallsRight
<1> DEFINE frame == Frame(Nowhere)
<1>5. /\ frame \in Frames
      /\ frame.index = KeyIndex(tmp.table, Here) /\ KeyIndex(tmp.table, Here) < Vars
      /\ frame.key = Here
      /\ frame.second = SuccIn(tmp.table, Here, frame.index, FALSE)
      /\ <<p', q'>> = SuccIn(tmp.table, Here, frame.index, TRUE)
  <2>1. Nowhere \in Nat
    BY DEF Nowhere
  <2> QED
    BY <1>1, <2>1, FrameIs
<1>6. Pushed(acts, frame, acts')
  BY <1>1 DEF Pushed
<1> HIDE DEF frame
<1>7. Len(acts') = Len(acts) + 1 /\ acts' \in Seq(Frames) /\ DOMAIN acts' = 1..Len(acts)+1
  BY <1>4, <1>5, <1>6, AppendFacts DEF Pushed
<1>8. /\ ListRight("start", Target.table, acts', inter')
      /\ \A n \in 1..Len(acts) : inter'[n] = inter[n]
      /\ inter'[Len(acts) + 1] = GoingLeft
  <2> DEFINE S == DOMAIN Target.table \cup {GoingLeft}
  <2>1. inter \in Seq(S) /\ Len(inter) = Len(acts)
    BY <1>3 DEF ListRight
  <2>2. GoingLeft \in S
    OBVIOUS
  <2> HIDE DEF S
  <2>3. /\ Append(inter, GoingLeft) \in Seq(S) /\ Len(Append(inter, GoingLeft)) = Len(acts) + 1
        /\ \A n \in 1..Len(acts) : Append(inter, GoingLeft)[n] = inter[n]
        /\ Append(inter, GoingLeft)[Len(acts) + 1] = GoingLeft
    BY <1>4, <2>1, <2>2, AppendFacts
  <2> QED
    BY <1>1, <1>7, <2>3 DEF ListRight, S
<1>9. /\ \A n \in 1..Len(acts) : Waits'[n] = Waits[n]
      /\ Waits'[Len(acts) + 1] = GoingLeft
  <2>1. \A n \in 1..Len(acts)+1 : Waits'[n] = inter'[n]
    BY <1>1, <1>7 DEF Waits, Waiting
  <2>2. \A n \in 1..Len(acts) : Waits[n] = inter[n]
    BY <1>1, <1>4 DEF Waits, Waiting
  <2>3. Len(acts) + 1 \in 1..Len(acts)+1 /\ \A n \in 1..Len(acts) : n \in 1..Len(acts)+1
    BY <1>4
  <2> QED
    BY <1>8, <2>1, <2>2, <2>3
<1>10. /\ CallsRight(op.kind, op.goal, tmp.table, Operands, Target.table, Finished, acts', Waits')
       /\ CallRight(op.kind, op.goal, tmp.table, Operands, acts', Waits',
                    SuccIn(tmp.table, Here, frame.index, TRUE))
  <2> DEFINE key == <<p, q>>
             here == Here
             W == Waits
             V == Waits'
  <2>1. /\ CallRight(op.kind, op.goal, tmp.table, Operands, acts, W, key)
        /\ here = HereIn(op.kind, tmp.table, key)
        /\ CallsRight(op.kind, op.goal, tmp.table, Operands, Target.table, Finished, acts, W)
        /\ Ordered(tmp.table, Operands)
    BY <1>1, <1>3, StartFacts, InvFacts
  <2>2. FrameFor(tmp.table, here, frame)
    BY <1>5 DEF FrameFor
  <2>3. WaitsLeft(acts, W, V)
    BY <1>9 DEF WaitsLeft
  <2> HIDE DEF key, here, W, V
  <2>4. /\ CallsRight(op.kind, op.goal, tmp.table, Operands, Target.table, Finished, acts', V)
        /\ CallRight(op.kind, op.goal, tmp.table, Operands, acts', V,
                     SuccIn(tmp.table, here, frame.index, TRUE))
    BY <1>2, <1>6, <2>1, <2>2, <2>3, DescendStep
  <2> QED
    BY <2>4 DEF here, V
<1>11. Open' = Open
  BY <1>1 DEF Open
<1> QED
  BY <1>1, <1>2, <1>5, <1>8, <1>10, <1>11, MovesOnly

-----------------------------------------------------------------------------
(* The label finish, when the result is put on the list.                     *)

Peels(list, k, S) ==
    /\ Front(list) \in Seq(S) /\ Len(Front(list)) = k /\ Last(Front(list)) = list[k]
    /\ \A n \in 1..k : Front(list)[n] = list[n]
    /\ Front(Front(list)) \in Seq(S) /\ Len(Front(Front(list))) = k - 1
    /\ \A n \in 1..k-1 : Front(Front(list))[n] = list[n]

LEMMA ListFacts ==
    ASSUME NEW u, NEW frames \in Seq(Frames), frames # <<>>,
           NEW list, ListRight("finish", u, frames, list),
           NEW k, k = Len(frames), NEW S, S = DOMAIN u \cup {GoingLeft}
    PROVE  Peels(list, k, S)
<1>1. list \in Seq(S) /\ Len(list) = k + 1
  BY DEF ListRight
<1>2. k \in Nat /\ k > 0 /\ DOMAIN frames = 1..k
  BY FrontFacts
<1>3. list # <<>>
  BY <1>1, <1>2
<1> DEFINE peeled == Front(list)
<1>4. /\ peeled \in Seq(S) /\ Len(peeled) = k
      /\ \A n \in 1..k : peeled[n] = list[n]
  <2>1. /\ peeled \in Seq(S) /\ Len(peeled) = Len(list) - 1
        /\ \A n \in 1..Len(list)-1 : peeled[n] = list[n]
    BY <1>1, <1>3, FrontFacts
  <2>2. Len(list) - 1 = k
    BY <1>1, <1>2
  <2> QED
    BY <2>1, <2>2
<1> HIDE DEF peeled
<1>5. peeled # <<>>
  BY <1>2, <1>4
<1>6. /\ Last(peeled) = peeled[k] /\ k \in 1..k
      /\ Front(peeled) \in Seq(S) /\ Len(Front(peeled)) = k - 1
      /\ \A n \in 1..k-1 : Front(peeled)[n] = peeled[n]
  BY <1>4, <1>5, FrontFacts
<1>7. \A n \in 1..k-1 : n \in 1..k
  BY <1>2
<1> QED
  BY <1>2, <1>4, <1>6, <1>7 DEF Peels, peeled

\* What is known at the label finish.
LEMMA FinishFacts ==
    ASSUME BddInv, AtFinish, NEW k, k = Len(acts)
    PROVE  /\ op.kind \in Kinds /\ op.kind # "path" /\ pc = "finish"
           /\ acts \in Seq(Frames) /\ acts # <<>> /\ Caller = acts[k] /\ Caller \in Frames
           /\ k \in Nat /\ k # 0 /\ k \in 1..k /\ DOMAIN acts = 1..k
           /\ CallsRight(op.kind, op.goal, tmp.table, Operands, Target.table, Finished, acts, Waits)
           /\ ResultRight(op.kind, op.goal, tmp.table, Target.table, Finished, acts, Waits, res)
           /\ res \in Finished
           /\ op.kind # "sequential" => ListRight("finish", Target.table, acts, inter)
           /\ op.kind = "sequential" => NodesRight(aut, acts)
<1>1. pc = "finish" /\ acts # <<>>
  BY DEF AtFinish
<1>2. op.kind # "path"
  BY <1>1 DEF BddInv, Phase, PathOK
<1>3. /\ op.kind \in Kinds
      /\ CallsRight(op.kind, op.goal, tmp.table, Operands, Target.table, Finished, acts, Waits)
      /\ ResultRight(op.kind, op.goal, tmp.table, Target.table, Finished, acts, Waits, res)
      /\ op.kind # "sequential" => ListRight("finish", Target.table, acts, inter)
      /\ op.kind = "sequential" => NodesRight(aut, acts)
  BY <1>1, <1>2, WorkFacts
<1>4. acts \in Seq(Frames) /\ res \in Finished
  BY <1>3 DEF CallsRight, ResultRight
<1>5. /\ k \in Nat /\ k > 0 /\ k \in 1..k /\ DOMAIN acts = 1..k
      /\ Last(acts) = acts[k] /\ Last(acts) \in Frames
  BY <1>1, <1>4, FrontFacts
<1> QED
  BY <1>1, <1>2, <1>3, <1>4, <1>5 DEF Caller

LEMMA WaitsList ==
    ASSUME op.kind # "sequential"
    PROVE  \A n \in DOMAIN acts : Waits[n] = inter[n]
BY DEF Waits, Waiting

LEMMA SecondKeeps ==
    ASSUME BddInv, Second
    PROVE  BddInv'
<1>1. /\ AtFinish /\ op.kind # "sequential" /\ Last(Peeled) = GoingLeft
      /\ inter' = Append(Front(Peeled), res) /\ acts' = acts
      /\ pc' = "start" /\ p' = Caller.second[1] /\ q' = Caller.second[2]
      /\ tmp' = tmp /\ aut' = aut /\ use' = use /\ marks' = marks /\ op' = op
      /\ tmpMeans' = tmpMeans /\ autMeans' = autMeans
  BY DEF Second, GoRight
<1> DEFINE k == Len(acts)
           V == Waits'
           W == Waits
<1>2. /\ op.kind \in Kinds /\ pc = "finish"
      /\ acts \in Seq(Frames) /\ acts # <<>> /\ Caller = acts[k] /\ Caller \in Frames
      /\ k \in Nat /\ k # 0 /\ k \in 1..k /\ DOMAIN acts = 1..k
      /\ CallsRight(op.kind, op.goal, tmp.table, Operands, Target.table, Finished, acts, W)
      /\ ResultRight(op.kind, op.goal, tmp.table, Target.table, Finished, acts, W, res)
      /\ res \in Finished
      /\ ListRight("finish", Target.table, acts, inter)
  BY <1>1, FinishFacts
<1>3. Finished = DOMAIN Target.table /\ Ordered(Target.table, Finished)
      /\ Ordered(tmp.table, Operands)
  BY <1>1, <1>2, TargetFacts, InvFacts
<1> DEFINE S == DOMAIN Target.table \cup {GoingLeft}
<1>4. /\ Peeled \in Seq(S) /\ Last(Peeled) = inter[k]
      /\ Front(Peeled) \in Seq(S) /\ Len(Front(Peeled)) = k - 1
      /\ \A n \in 1..k-1 : Front(Peeled)[n] = inter[n]
  <2> DEFINE u == Target.table
  <2>1. k = Len(acts) /\ Peeled = Front(inter) /\ S = DOMAIN u \cup {GoingLeft}
    BY DEF Peeled
  <2>2. ListRight("finish", u, acts, inter)
    BY <1>2
  <2> HIDE DEF k, u, S
  <2>3. Peels(inter, k, S)
    BY <1>2, <2>1, <2>2, ListFacts
  <2> QED
    BY <1>2, <2>1, <2>3 DEF Peels
<1>5. res \in S
  BY <1>2, <1>3
<1> HIDE DEF S, k
<1>6. /\ inter' \in Seq(S) /\ Len(inter') = k /\ inter'[k] = res
      /\ \A n \in 1..k-1 : inter'[n] = inter[n]
  <2> DEFINE s == Front(Peeled)
  <2>1. s \in Seq(S) /\ Len(s) = k - 1
    BY <1>4
  <2> HIDE DEF s
  <2>2. /\ Append(s, res) \in Seq(S) /\ Len(Append(s, res)) = k
        /\ Append(s, res)[k] = res
        /\ \A n \in 1..k-1 : Append(s, res)[n] = s[n]
    <3>1. (k - 1) + 1 = k
      BY <1>2
    <3> QED
      BY <1>5, <2>1, <3>1, AppendFacts
  <2> QED
    BY <1>1, <1>4, <2>2 DEF s
<1>7. /\ V[k] = res /\ W[k] = GoingLeft
      /\ \A n \in 1..k-1 : V[n] = W[n]
  <2>1. \A n \in 1..k : V[n] = inter'[n] /\ W[n] = inter[n]
    BY <1>1, <1>2 DEF Waits, Waiting
  <2>2. \A n \in 1..k-1 : n \in 1..k
    BY <1>2
  <2> QED
    BY <1>1, <1>2, <1>4, <1>6, <2>1, <2>2
<1> HIDE DEF V, W
<1>8. /\ CallsRight(op.kind, op.goal, tmp.table, Operands, Target.table, Finished, acts, V)
      /\ CallRight(op.kind, op.goal, tmp.table, Operands, acts, V, acts[k].second)
  <2>1. Returns(acts, W, k, acts, V, res)
    BY <1>2, <1>7 DEF k, Returns
  <2> QED
    BY <1>2, <1>3, <2>1, SecondStep
<1>9. <<p', q'>> = acts[k].second
  <2>1. Caller.second \in Nat \X Nat
    BY <1>2 DEF Frames
  <2>2. Caller.second = <<Caller.second[1], Caller.second[2]>>
    BY <2>1
  <2> QED
    BY <1>1, <1>2, <2>2
<1>10. Open' = Open
  BY <1>1 DEF Open
<1>11. ListRight(pc', Target.table, acts', inter')
  <2>1. k = Len(acts)
    BY DEF k
  <2> QED
    BY <1>1, <1>6, <2>1 DEF ListRight, S
<1>12. pc' = "start" /\ pc' # "finish"
  BY <1>1
<1> QED
  BY <1>1, <1>2, <1>8, <1>9, <1>10, <1>11, <1>12, MovesOnly DEF V
-----------------------------------------------------------------------------
(* A node is looked for and the result remembered.                           *)

LEMMA FoundList ==
    ASSUME NEW m, NEW node, NEW list, NEW f, FoundRight(m, node, list, f),
           NEW frames, NEW W, ListFor(m.table, list, frames, W),
           NEW g, Len(g) = Len(frames)
    PROVE  ListRight("finish", f.m.table, g, f.list)
<1> DEFINE S == DOMAIN f.m.table \cup {GoingLeft}
<1>1. PICK K : /\ Kept(m, K, f.m, f.to) /\ ToSet(list) \ {GoingLeft} \subseteq K
  BY DEF FoundRight
<1>2. /\ NewPlace(f.to, GoingLeft) = GoingLeft
      /\ \A a \in K : NewPlace(f.to, a) \in DOMAIN f.m.table
  BY <1>1 DEF Kept, Carries
<1>3. /\ list \in Seq(DOMAIN m.table \cup {GoingLeft}) /\ Len(list) = Len(frames) + 1
      /\ Len(list) \in Nat /\ DOMAIN list = 1..Len(list)
  BY DEF ListFor
<1>4. f.list = [k \in 1..Len(list) |-> NewPlace(f.to, list[k])]
  BY <1>3 DEF FoundRight
<1>5. \A k \in 1..Len(list) : list[k] = GoingLeft \/ list[k] \in K
  BY <1>1, <1>3 DEF ToSet
<1>6. \A k \in 1..Len(list) : NewPlace(f.to, list[k]) \in S
  BY <1>2, <1>5
<1> HIDE DEF S
<1>7. f.list \in [1..Len(list) -> S]
  BY <1>4, <1>6
<1>8. f.list \in Seq(S) /\ Len(f.list) = Len(list)
  BY <1>3, <1>7, TypedSeq
<1> QED
  BY <1>3, <1>8 DEF S, ListRight

\* The operation has the result for a call.
LEMMA SettledInv ==
    ASSUME BddInv, pc \in {"start", "finish"}, op.kind \in {"hashed", "apply1", "project"},
           op' = op, use' = use, pc' = "finish",
           TmpRight(tmp', tmpMeans'), AutRight(use, tmp'.table, aut', autMeans', {}),
           MarksRight(use, tmp'.table, aut'.table, marks'),
           ListRight("finish", Target'.table, acts', inter'),
           NEW key,
           Settled(op.kind, op.goal, tmp'.table, Operands', Target'.table,
                   DOMAIN Target'.table, acts', Waits', key, res')
    PROVE  BddInv'
<1>1. op.kind \in Kinds /\ op.kind # "sequential" /\ op.kind # "path"
  BY DEF Kinds
<1>2. Open' = {}
  BY <1>1 DEF Open
<1>3. Finished' = DOMAIN Target'.table
  BY <1>2 DEF Finished
<1>4. op = [kind |-> op.kind, goal |-> op.goal] /\ op.goal \in Denotations
  BY <1>1, WorkFacts
<1>5. UseOK'
  BY InvFacts DEF UseOK
<1>6. WorkRight(op.kind, op.goal, tmp'.table, Operands', Target'.table, Finished',
                acts', Waits', "finish", <<p', q'>>, res')
  BY <1>1, <1>3, <1>4 DEF WorkRight, Settled
<1>7. WorkOK'
  BY <1>1, <1>4, <1>6 DEF WorkOK
<1> QED
  BY <1>1, <1>2, <1>5, <1>7 DEF BddInv, Phase

\* What is found where, when the frames and the result follow.
Placed(node, list, frames, W, f) ==
    FoundRight(Target, node, list, f) /\ ListFor(Target.table, list, frames, W)

LEMMA SettledWaits ==
    ASSUME op.kind # "sequential", op' = op, NEW frames, DOMAIN acts' = 1..Len(frames),
           NEW f, inter' = f.list
    PROVE  TakesList(frames, Waits', f.list)
BY DEF Waits, Waiting, TakesList

LEMMA SettleHashed ==
    ASSUME BddInv, pc \in {"start", "finish"}, op.kind = "hashed",
           NEW node, NEW key, NEW list, NEW frames, NEW W,
           Ready("hashed", op.goal, tmp.table, Operands, tmp.table, frames, W, key, node),
           NEW f, Placed(node, list, frames, W, f),
           acts' = MovedFrames(frames, f.to),
           NEW at, NEW m \in Cached(f.m, Moves(key, f.to), at, f.at),
           tmp' = m, aut' = aut, marks' = MarksIn(m, DoubledBy(f)),
           op' = op, use' = use, tmpMeans' = tmpMeans, autMeans' = autMeans,
           res' = f.at, inter' = f.list, pc' = "finish"
    PROVE  BddInv'
<1> DEFINE t == tmp.table
           u == f.m.table
           L2 == Reachable(u, ToSet(f.m.roots))
           g == acts'
           V == Waits'
           k2 == Moves(key, f.to)
<1>1. "hashed" \in Kinds /\ Target = tmp
  BY TargetFacts DEF Kinds
<1>2. /\ FoundRight(tmp, node, list, f)
      /\ ListFor(t, list, frames, W)
  BY <1>1 DEF Placed
<1>3. Carries(t, Operands, u, L2, f.to)
  BY <1>2, InvFacts, OperandsFound DEF Operands
<1>4. CallsRight("hashed", op.goal, t, Operands, t, DOMAIN t, frames, W)
  BY DEF Ready
<1>5. Follows(frames, f.to, g)
  BY <1>1, <1>3, <1>4, FollowMoved
<1>6. DOMAIN g = 1..Len(frames) /\ g \in Seq(Frames) /\ Len(g) = Len(frames)
  BY <1>5 DEF Follows
<1>7. TakesList(frames, V, f.list)
  BY <1>6, SettledWaits
<1>8. t \in Seq(Nodes)
  BY InvFacts
<1> HIDE DEF L2, g, V, k2
<1>9. Settled("hashed", op.goal, u, L2, u, DOMAIN u, g, V, k2, f.at)
  BY <1>1, <1>2, <1>3, <1>5, <1>7, <1>8, SettleWork DEF k2
<1>10. TmpRight(f.m, tmpMeans)
  BY <1>2, InvFacts, TmpFound
<1>11. TmpRight(m, tmpMeans) /\ m.table = u /\ m.roots = f.m.roots
  <2>1. MayEnter("hashed", u, L2, u, k2, f.at)
    BY <1>2, <1>3, <1>9 DEF Carries, FoundRight, Settled, MayEnter
  <2>2. m \in Cached(f.m, k2, at, f.at)
    BY DEF k2
  <2>3. TmpRight(m, tmpMeans) /\ SameNodes(f.m, m)
    BY <1>10, <2>1, <2>2, TmpCached
  <2> QED
    BY <2>3 DEF SameNodes
<1>12. Operands' = L2 /\ Target' = m
  BY <1>11 DEF Operands, L2, Target, Hashed
<1>13. /\ AutRight(use, u, aut, autMeans, {})
       /\ MarksRight(use, u, aut.table, MarksIn(m, DoubledBy(f)))
  <2>1. DoubledBy(f) \in BOOLEAN /\ (~ DoubledBy(f) => Carries(t, DOMAIN t, u, DOMAIN u, <<>>))
    BY <1>2, OneKept DEF DoubledBy
  <2>2. use \in {"none", "apply1"} /\ AutRight(use, t, aut, autMeans, {})
        /\ MarksRight(use, t, aut.table, marks)
    BY InvFacts
  <2> QED
    BY <1>11, <2>1, <2>2, OthersKept
<1>14. ListRight("finish", m.table, g, inter')
  <2>1. ListRight("finish", u, g, f.list)
    BY <1>2, <1>6, FoundList
  <2> QED
    BY <1>11, <2>1
<1> QED
  BY <1>9, <1>11, <1>12, <1>13, <1>14, SettledInv DEF g, V

LEMMA SettleApart ==
    ASSUME BddInv, pc \in {"start", "finish"}, op.kind \in {"apply1", "project"},
           NEW node, NEW key, NEW list, NEW frames, NEW W,
           Ready(op.kind, op.goal, tmp.table, Operands, aut.table, frames, W, key, node),
           NEW f, Placed(node, list, frames, W, f),
           acts' = frames, op' = op, inter' = f.list
    PROVE  /\ Settled(op.kind, op.goal, tmp.table, Operands, f.m.table, DOMAIN f.m.table,
                      frames, Waits', key, f.at)
           /\ Target = aut /\ FoundRight(aut, node, list, f) /\ f.at \in DOMAIN f.m.table
           /\ AutRight(op.kind, tmp.table, f.m, autMeans, {})
           /\ key = <<key[1], key[2]>> /\ key[1] \in DOMAIN tmp.table
           /\ ListRight("finish", f.m.table, frames, inter')
<1> DEFINE t == tmp.table
           u == f.m.table
           V == Waits'
<1>1. op.kind \in Kinds /\ Target = aut /\ op.kind # "sequential" /\ use = op.kind
  BY TargetFacts, InvFacts DEF Kinds
<1>2. /\ FoundRight(aut, node, list, f)
      /\ ListFor(aut.table, list, frames, W)
  BY <1>1 DEF Placed
<1>3. /\ CallsRight(op.kind, op.goal, t, Operands, aut.table, DOMAIN aut.table, frames, W)
      /\ KeyOK(op.kind, t, Operands, key)
  BY DEF Ready
<1>4. /\ Ordered(t, Operands) /\ Carries(t, Operands, t, Operands, <<>>)
  BY InvFacts, CarriesSelf
<1>5. /\ frames \in Seq(Frames) /\ Follows(frames, <<>>, frames)
      /\ DOMAIN frames = 1..Len(frames)
  BY <1>3, FollowSame DEF CallsRight
<1>6. /\ key \in Nat \X Nat /\ key = <<key[1], key[2]>> /\ key[1] \in Operands
  BY <1>1, <1>3, <1>4, KeyFacts
<1>7. Moves(key, <<>>) = key
  BY <1>6, PairMoves
<1>8. TakesList(frames, V, f.list)
  BY <1>1, <1>5, SettledWaits
<1>9. aut.table \in Seq(Nodes) /\ f.at \in DOMAIN u
  BY <1>1, <1>2, TargetFacts DEF FoundRight
<1> DEFINE to == <<>>
<1>10. Carries(t, Operands, t, Operands, to) /\ Follows(frames, to, frames) /\ Moves(key, to) = key
  BY <1>4, <1>5, <1>7
<1> HIDE DEF V, to
<1>11. Settled(op.kind, op.goal, t, Operands, u, DOMAIN u, frames, V, Moves(key, to), f.at)
  BY <1>1, <1>2, <1>8, <1>9, <1>10, SettleWork
<1>12. AutRight(op.kind, t, f.m, autMeans, {})
  <2>1. AutRight(op.kind, t, aut, autMeans, {}) /\ Ordered(t, DOMAIN t)
    BY <1>1, InvFacts
  <2> QED
    BY <1>2, <2>1, AutFound
<1>13. ListRight("finish", u, frames, inter')
  BY <1>2, FoundList
<1>14. key[1] \in DOMAIN t
  BY <1>6, InvFacts
<1> QED
  BY <1>1, <1>2, <1>6, <1>9, <1>10, <1>11, <1>12, <1>13, <1>14 DEF V

LEMMA SettleApply1 ==
    ASSUME BddInv, pc \in {"start", "finish"}, op.kind = "apply1",
           NEW node, NEW key, NEW list, NEW frames, NEW W,
           Ready("apply1", op.goal, tmp.table, Operands, aut.table, frames, W, key, node),
           NEW f, Placed(node, list, frames, W, f),
           acts' = frames, tmp' = tmp, aut' = f.m, marks' = Marked(f, key[1]),
           op' = op, use' = use, tmpMeans' = tmpMeans, autMeans' = autMeans,
           res' = f.at, inter' = f.list, pc' = "finish"
    PROVE  BddInv'
<1> DEFINE t == tmp.table
           u == f.m.table
           V == Waits'
<1>1. /\ Settled("apply1", op.goal, t, Operands, u, DOMAIN u, frames, V, key, f.at)
      /\ Target = aut /\ FoundRight(aut, node, list, f) /\ f.at \in DOMAIN u
      /\ AutRight("apply1", t, f.m, autMeans, {})
      /\ key = <<key[1], key[2]>> /\ key[1] \in DOMAIN t
      /\ ListRight("finish", u, frames, inter')
  BY SettleApart
<1>2. KeyOK("apply1", t, Operands, key) /\ EntryRight("apply1", t, u, key, f.at)
  BY <1>1 DEF Settled
<1>3. key = <<key[1], Nowhere>>
  BY <1>1, <1>2 DEF KeyOK
<1>4. EntryRight("apply1", t, u, <<key[1], Nowhere>>, f.at)
  BY <1>2, <1>3
<1>5. Operands' = Operands /\ Target' = f.m
  BY <1>1 DEF Operands, Target, Hashed
<1>6. use = "apply1" /\ TmpRight(tmp, tmpMeans) /\ MarksRight("apply1", t, aut.table, marks)
      /\ Ordered(t, DOMAIN t)
  BY InvFacts
<1>7. MarksRight("apply1", t, u, Marked(f, key[1]))
  <2> DEFINE a == key[1]
             d == DoubledBy(f)
             r == f.at
             h == [b \in DOMAIN marks |-> IF b = a THEN r ELSE IF d THEN Nowhere ELSE marks[b]]
  <2>1. Marked(f, a) = h
    BY DEF Marked
  <2>2. d \in BOOLEAN /\ (~ d => Carries(aut.table, DOMAIN aut.table, u, DOMAIN u, <<>>))
    BY <1>1, OneKept DEF DoubledBy
  <2>3. u \in Seq(Nodes)
    BY <1>1, ManagerFacts DEF FoundRight
  <2>4. /\ EntryRight("apply1", t, u, <<a, Nowhere>>, r) /\ a \in DOMAIN t /\ r \in DOMAIN u
        /\ h = [b \in DOMAIN marks |-> IF b = a THEN r ELSE IF d THEN Nowhere ELSE marks[b]]
    BY <1>1, <1>4
  <2> HIDE DEF a, d, r, h
  <2>5. MarksRight("apply1", t, u, h)
    BY <1>6, <2>2, <2>3, <2>4, MarksAut
  <2> QED
    BY <2>1, <2>5 DEF a
<1> QED
  BY <1>1, <1>5, <1>6, <1>7, SettledInv

LEMMA SettleProject ==
    ASSUME BddInv, pc \in {"start", "finish"}, op.kind = "project",
           NEW node, NEW key, NEW list, NEW frames, NEW W,
           Ready("project", op.goal, tmp.table, Operands, aut.table, frames, W, key, node),
           NEW f, Placed(node, list, frames, W, f),
           acts' = frames, NEW at, NEW m \in Cached(f.m, key, at, f.at),
           tmp' = tmp, aut' = m, marks' = marks,
           op' = op, use' = use, tmpMeans' = tmpMeans, autMeans' = autMeans,
           res' = f.at, inter' = f.list, pc' = "finish"
    PROVE  BddInv'
<1> DEFINE t == tmp.table
           u == f.m.table
           V == Waits'
<1>1. /\ Settled("project", op.goal, t, Operands, u, DOMAIN u, frames, V, key, f.at)
      /\ Target = aut /\ f.at \in DOMAIN u
      /\ AutRight("project", t, f.m, autMeans, {})
      /\ ListRight("finish", u, frames, inter')
  BY SettleApart
<1>2. use = "project" /\ TmpRight(tmp, tmpMeans) /\ MarksRight("project", t, aut.table, marks)
      /\ Ordered(t, Operands)
  BY InvFacts
<1>3. AutRight("project", t, m, autMeans, {}) /\ m.table = u
  <2>1. /\ KeyOK("project", t, Operands, key)
        /\ f.at \notin {} => EntryRight("project", t, u, key, f.at)
    BY <1>1 DEF Settled
  <2> QED
    BY <1>1, <1>2, <2>1, AutCached
<1>4. Operands' = Operands /\ Target' = m
  BY <1>1 DEF Operands, Target, Hashed
<1>5. MarksRight("project", t, m.table, marks)
  BY <1>2 DEF MarksRight
<1> QED
  BY <1>1, <1>2, <1>3, <1>4, <1>5, SettledInv
LEMMA SettleInv ==
    ASSUME BddInv, pc \in {"start", "finish"}, op.kind \in {"hashed", "apply1", "project"},
           NEW node, NEW key, NEW at, NEW list, NEW frames, NEW W,
           Ready(op.kind, op.goal, tmp.table, Operands, Target.table, frames, W, key, node),
           ListFor(Target.table, list, frames, W),
           Settle(node, key, at, list, frames)
    PROVE  BddInv'
<1>1. PICK f \in Find(Target, node, list) :
        /\ res' = f.at /\ inter' = f.list /\ pc' = "finish"
        /\ acts' = IF Hashed THEN MovedFrames(frames, f.to) ELSE frames
        /\ IF op.kind = "apply1"
           THEN /\ aut' = f.m /\ tmp' = tmp
                /\ marks' = Marked(f, key[1])
           ELSE \E m \in Cached(f.m, IF Hashed THEN Moves(key, f.to) ELSE key,
                                IF Hashed THEN f.m.trigger ELSE at, f.at) :
                  SetTarget(m, DoubledBy(f))
        /\ use' = use /\ op' = op /\ p' = p /\ q' = q
        /\ tmpMeans' = tmpMeans /\ autMeans' = autMeans
  BY DEF Settle
<1>2. FoundRight(Target, node, list, f)
  <2>1. Fits(Target.table, node)
    BY DEF Ready
  <2>2. list \in Seq(DOMAIN Target.table \cup {GoingLeft})
    BY DEF ListFor
  <2>3. /\ Target \in Managers /\ Sound(Target.table)
        /\ ToSet(Target.roots) \subseteq DOMAIN Target.table
    BY TargetFacts DEF Kinds
  <2> QED
    BY <1>1, <2>1, <2>2, <2>3, FindRight
<1>3. Placed(node, list, frames, W, f)
  BY <1>2 DEF Placed
<1>4. CASE op.kind = "hashed"
  <2>1. Hashed /\ Target = tmp
    BY <1>4 DEF Hashed, Target
  <2>2. PICK m \in Cached(f.m, Moves(key, f.to), f.m.trigger, f.at) : SetTarget(m, DoubledBy(f))
    BY <1>1, <1>4, <2>1
  <2>3. tmp' = m /\ aut' = aut /\ marks' = MarksIn(m, DoubledBy(f))
    BY <2>1, <2>2 DEF SetTarget
  <2>4. acts' = MovedFrames(frames, f.to)
    BY <1>1, <2>1
  <2>5. Ready("hashed", op.goal, tmp.table, Operands, tmp.table, frames, W, key, node)
    BY <1>4, <2>1
  <2>6. res' = f.at /\ inter' = f.list /\ pc' = "finish" /\ use' = use /\ op' = op
        /\ tmpMeans' = tmpMeans /\ autMeans' = autMeans
    BY <1>1
  <2> QED
    BY <1>3, <1>4, <2>2, <2>3, <2>4, <2>5, <2>6, SettleHashed
<1>5. CASE op.kind = "apply1"
  <2>1. ~ Hashed /\ Target = aut
    BY <1>5 DEF Hashed, Target
  <2>2. aut' = f.m /\ tmp' = tmp /\ marks' = Marked(f, key[1]) /\ acts' = frames
    BY <1>1, <1>5, <2>1
  <2>3. Ready("apply1", op.goal, tmp.table, Operands, aut.table, frames, W, key, node)
    BY <1>5, <2>1
  <2>4. res' = f.at /\ inter' = f.list /\ pc' = "finish" /\ use' = use /\ op' = op
        /\ tmpMeans' = tmpMeans /\ autMeans' = autMeans
    BY <1>1
  <2> QED
    BY <1>3, <1>5, <2>2, <2>3, <2>4, SettleApply1
<1>6. CASE op.kind = "project"
  <2>1. ~ Hashed /\ Target = aut
    BY <1>6 DEF Hashed, Target
  <2>2. PICK m \in Cached(f.m, key, at, f.at) : SetTarget(m, DoubledBy(f))
    BY <1>1, <1>6, <2>1
  <2>3. tmp' = tmp /\ aut' = m /\ marks' = marks
    BY <2>1, <2>2 DEF SetTarget
  <2>4. acts' = frames
    BY <1>1, <2>1
  <2>5. Ready("project", op.goal, tmp.table, Operands, aut.table, frames, W, key, node)
    BY <1>6, <2>1
  <2>6. res' = f.at /\ inter' = f.list /\ pc' = "finish" /\ use' = use /\ op' = op
        /\ tmpMeans' = tmpMeans /\ autMeans' = autMeans
    BY <1>1
  <2> QED
    BY <1>3, <1>6, <2>2, <2>3, <2>4, <2>5, <2>6, SettleProject
<1> QED
  BY <1>4, <1>5, <1>6

\* The leaves at hand.
LEMMA LeavesAre ==
    ASSUME BddInv, AtStart, BothLeaves
    PROVE  /\ IndexIn(tmp.table, Here[1]) = LeafIndex /\ IndexIn(tmp.table, Here[2]) = LeafIndex
           /\ LeafValue = LeafValueIn(op.kind, tmp.table, Here)
<1>1. IndexIn(tmp.table, Here[1]) = LeafIndex /\ IndexIn(tmp.table, Here[2]) = LeafIndex
  BY DEF BothLeaves, Index, IndexIn
<1> DEFINE v == tmp.table[Here[1]].value
           w == IF Here[2] = Nowhere THEN v ELSE tmp.table[Here[2]].value
<1>2. LeafValue = IF op.kind = "apply1" THEN Image[v] ELSE Join(v, w)
  BY DEF LeafValue
<1>3. Join(v, v) = v
  BY DEF Join
<1> QED
  BY <1>1, <1>2, <1>3 DEF LeafValueIn

LEMMA AtLeavesKeeps ==
    ASSUME BddInv, AtLeaves
    PROVE  BddInv'
<1>1. /\ AtStart /\ op.kind # "sequential" /\ BothLeaves
      /\ Settle(Leaf(LeafValue), Here, Target.trigger, Append(inter, GoingLeft), acts)
  BY DEF AtLeaves
<1>2. op.kind \in Kinds /\ pc = "start" /\ op.kind # "path"
  BY <1>1, StartFacts
<1>3. /\ CallsRight(op.kind, op.goal, tmp.table, Operands, Target.table, Finished, acts, Waits)
      /\ ListRight("start", Target.table, acts, inter)
      /\ CallRight(op.kind, op.goal, tmp.table, Operands, acts, Waits, <<p, q>>)
      /\ Here = HereIn(op.kind, tmp.table, <<p, q>>)
  BY <1>1, <1>2, WorkFacts, StartFacts
<1>4. Finished = DOMAIN Target.table /\ Target.table \in Seq(Nodes) /\ Ordered(tmp.table, Operands)
  BY <1>1, <1>2, TargetFacts, InvFacts
<1>5. acts \in Seq(Frames) /\ Len(acts) \in Nat /\ DOMAIN acts = 1..Len(acts)
  BY <1>3 DEF CallsRight
<1> DEFINE list == Append(inter, GoingLeft)
           node == Leaf(LeafValue)
           here == Here
           key == <<p, q>>
           W == Waits
           at == Target.trigger
<1>6. ListFor(Target.table, list, acts, W)
  <2> DEFINE S == DOMAIN Target.table \cup {GoingLeft}
  <2>1. inter \in Seq(S) /\ Len(inter) = Len(acts) /\ GoingLeft \in S
    BY <1>3 DEF ListRight
  <2> HIDE DEF S
  <2>2. /\ Append(inter, GoingLeft) \in Seq(S) /\ Len(Append(inter, GoingLeft)) = Len(acts) + 1
        /\ \A n \in 1..Len(acts) : Append(inter, GoingLeft)[n] = inter[n]
    BY <1>5, <2>1, AppendFacts
  <2>3. \A n \in 1..Len(acts) : W[n] = inter[n]
    BY <1>1, <1>5, WaitsList
  <2> QED
    BY <2>2, <2>3 DEF ListFor, S
<1>7. Ready(op.kind, op.goal, tmp.table, Operands, Target.table, acts, W, here, node)
  <2>1. /\ IndexIn(tmp.table, here[1]) = LeafIndex /\ IndexIn(tmp.table, here[2]) = LeafIndex
        /\ node = Leaf(LeafValueIn(op.kind, tmp.table, here))
    BY <1>1, LeavesAre
  <2>2. /\ CallsRight(op.kind, op.goal, tmp.table, Operands, Target.table, DOMAIN Target.table, acts, W)
        /\ CallRight(op.kind, op.goal, tmp.table, Operands, acts, W, key)
        /\ here = HereIn(op.kind, tmp.table, key)
    BY <1>3, <1>4
  <2> HIDE DEF node, here, key, W
  <2> QED
    BY <1>2, <1>4, <2>1, <2>2, LeafReady
<1>8. Settle(node, here, at, list, acts)
  BY <1>1
<1>9. op.kind \in {"hashed", "apply1", "project"}
  BY <1>1, <1>2 DEF Kinds
<1> HIDE DEF node, here, at, list, W
<1> QED
  BY <1>2, <1>6, <1>7, <1>8, <1>9, SettleInv
\* The last call is over.
LEMMA PopFacts ==
    ASSUME NEW frames \in Seq(Frames), frames # <<>>, NEW k, k = Len(frames),
           NEW W, NEW V, \A n \in 1..k-1 : V[n] = W[n], NEW g, g = Front(frames)
    PROVE  /\ Begins(frames, W, k - 1, g, V) /\ Len(g) = k - 1
           /\ g \in Seq(Frames) /\ DOMAIN g = 1..k-1
<1>1. /\ g \in Seq(Frames) /\ Len(g) = k - 1 /\ DOMAIN g = 1..k-1
      /\ \A n \in 1..k-1 : g[n] = frames[n]
      /\ k \in Nat /\ k > 0
  BY FrontFacts
<1> QED
  BY <1>1 DEF Begins

\* The list and the frames when a call is over that is not sequential.
LEMMA ThirdFacts ==
    ASSUME BddInv, AtFinish, op.kind # "sequential", Last(Peeled) # GoingLeft,
           NEW k, k = Len(acts), NEW W, W = Waits, NEW g, g = Front(acts)
    PROVE  /\ op.kind \in {"hashed", "apply1", "project"} /\ pc = "finish"
           /\ Caller = acts[k] /\ acts[k] \in Frames /\ k \in Nat /\ k # 0 /\ k = Len(acts)
           /\ CallsRight(op.kind, op.goal, tmp.table, Operands, Target.table,
                         DOMAIN Target.table, acts, W)
           /\ ResultRight(op.kind, op.goal, tmp.table, Target.table,
                          DOMAIN Target.table, acts, W, res)
           /\ Ordered(Target.table, DOMAIN Target.table) /\ Ordered(tmp.table, Operands)
           /\ W[k] = Last(Peeled)
           /\ ListFor(Target.table, Peeled, g, W)
           /\ g \in Seq(Frames) /\ Len(g) = k - 1 /\ DOMAIN g = 1..k-1
           /\ \A V : (\A n \in 1..k-1 : V[n] = W[n]) => Begins(acts, W, k - 1, g, V)
<1>1. /\ op.kind \in Kinds /\ pc = "finish"
      /\ acts \in Seq(Frames) /\ acts # <<>> /\ Caller = acts[k] /\ Caller \in Frames
      /\ k \in Nat /\ k # 0 /\ k \in 1..k /\ DOMAIN acts = 1..k
      /\ CallsRight(op.kind, op.goal, tmp.table, Operands, Target.table, Finished, acts, W)
      /\ ResultRight(op.kind, op.goal, tmp.table, Target.table, Finished, acts, W, res)
      /\ ListRight("finish", Target.table, acts, inter)
  BY FinishFacts
<1>2. Finished = DOMAIN Target.table /\ Ordered(Target.table, Finished)
      /\ Ordered(tmp.table, Operands)
  BY <1>1, TargetFacts, InvFacts
<1> DEFINE u == Target.table
           S == DOMAIN u \cup {GoingLeft}
           list == Peeled
<1>3. /\ list \in Seq(S) /\ Len(list) = k /\ Last(list) = inter[k]
      /\ \A n \in 1..k : list[n] = inter[n]
  <2>1. list = Front(inter) /\ S = DOMAIN u \cup {GoingLeft}
    BY DEF Peeled
  <2>2. ListRight("finish", u, acts, inter)
    BY <1>1
  <2> HIDE DEF u, S, list
  <2>3. Peels(inter, k, S)
    BY <1>1, <2>1, <2>2, ListFacts
  <2> QED
    BY <2>1, <2>3 DEF Peels
<1>4. \A n \in 1..k : W[n] = inter[n]
  BY <1>1, WaitsList
<1>5. /\ g \in Seq(Frames) /\ Len(g) = k - 1 /\ DOMAIN g = 1..k-1
      /\ \A V : (\A n \in 1..k-1 : V[n] = W[n]) => Begins(acts, W, k - 1, g, V)
  <2>1. ASSUME NEW V, \A n \in 1..k-1 : V[n] = W[n]
        PROVE  /\ g \in Seq(Frames) /\ Len(g) = k - 1 /\ DOMAIN g = 1..k-1
               /\ Begins(acts, W, k - 1, g, V)
    BY <1>1, <2>1, PopFacts
  <2>2. \A n \in 1..k-1 : W[n] = W[n]
    OBVIOUS
  <2> QED
    BY <2>1, <2>2
<1>6. ListFor(u, list, g, W)
  <2>1. Len(g) + 1 = k /\ \A n \in 1..Len(g) : n \in 1..k
    BY <1>1, <1>5
  <2> QED
    BY <1>3, <1>4, <2>1 DEF ListFor
<1>7. op.kind \in {"hashed", "apply1", "project"}
  BY <1>1 DEF Kinds
<1> QED
  BY <1>1, <1>2, <1>3, <1>4, <1>5, <1>6, <1>7

\* Both results are the same.
EqualResult ==
    /\ AtFinish /\ op.kind # "sequential"
    /\ Last(Peeled) # GoingLeft /\ Last(Peeled) = res
    /\ acts' = Front(acts) /\ inter' = Peeled
    /\ IF op.kind = "apply1"
       THEN /\ marks' = [marks EXCEPT ![Caller.key[1]] = res]
            /\ UNCHANGED <<tmp, aut>>
       ELSE \E m \in Cached(Target, Caller.key, Caller.h, res) :
              SetTarget(m, FALSE)
    /\ UNCHANGED <<use, op, pc, p, q, res, tmpMeans, autMeans>>

LEMMA EqualSettled ==
    ASSUME BddInv, EqualResult, NEW k, k = Len(acts)
    PROVE  /\ Settled(op.kind, op.goal, tmp.table, Operands, Target.table, DOMAIN Target.table,
                      acts', Waits', acts[k].key, res)
           /\ ListRight("finish", Target.table, acts', inter')
           /\ res \in DOMAIN Target.table
<1> DEFINE W == Waits
           V == Waits'
           g == acts'
           u == Target.table
<1>1. /\ AtFinish /\ op.kind # "sequential"
      /\ Last(Peeled) # GoingLeft /\ Last(Peeled) = res
      /\ g = Front(acts) /\ inter' = Peeled /\ op' = op
  BY DEF EqualResult
<1>2. /\ op.kind \in {"hashed", "apply1", "project"} /\ k \in Nat /\ k # 0 /\ k = Len(acts)
      /\ CallsRight(op.kind, op.goal, tmp.table, Operands, u, DOMAIN u, acts, W)
      /\ ResultRight(op.kind, op.goal, tmp.table, u, DOMAIN u, acts, W, res)
      /\ Ordered(u, DOMAIN u) /\ Ordered(tmp.table, Operands)
      /\ W[k] = Last(Peeled) /\ ListFor(u, Peeled, g, W)
      /\ g \in Seq(Frames) /\ Len(g) = k - 1 /\ DOMAIN g = 1..k-1
      /\ \A X : (\A n \in 1..k-1 : X[n] = W[n]) => Begins(acts, W, k - 1, g, X)
  BY <1>1, ThirdFacts
<1>3. \A n \in 1..k-1 : V[n] = W[n]
  <2>1. \A n \in 1..k-1 : V[n] = inter'[n]
    BY <1>1, <1>2 DEF Waits, Waiting
  <2>2. \A n \in 1..k-1 : Peeled[n] = W[n]
    BY <1>2 DEF ListFor
  <2> QED
    BY <1>1, <2>1, <2>2
<1>4. op.kind \in Kinds
  BY <1>2 DEF Kinds
<1>5. W[k] = res /\ W[k] # GoingLeft
  BY <1>1, <1>2
<1> HIDE DEF V, W, g, u
<1>6. Settled(op.kind, op.goal, tmp.table, Operands, u, DOMAIN u, g, V, acts[k].key, res)
  <2>1. Begins(acts, W, k - 1, g, V)
    BY <1>2, <1>3
  <2> QED
    BY <1>2, <1>4, <1>5, <2>1, EqualWork
<1>7. res \in DOMAIN u
  BY <1>2 DEF ResultRight
<1>8. ListRight("finish", u, g, Peeled)
  BY <1>2 DEF ListFor, ListRight
<1> QED
  BY <1>1, <1>6, <1>7, <1>8 DEF V, g, u

LEMMA EqualKeeps ==
    ASSUME BddInv, EqualResult
    PROVE  BddInv'
<1> DEFINE k == Len(acts)
           key == acts[k].key
           t == tmp.table
           u == Target.table
<1>1. /\ AtFinish /\ op.kind # "sequential" /\ Last(Peeled) # GoingLeft
      /\ op' = op /\ use' = use /\ pc' = pc /\ res' = res
      /\ tmpMeans' = tmpMeans /\ autMeans' = autMeans
      /\ IF op.kind = "apply1"
         THEN /\ marks' = [marks EXCEPT ![Caller.key[1]] = res]
              /\ tmp' = tmp /\ aut' = aut
         ELSE \E m \in Cached(Target, Caller.key, Caller.h, res) :
                SetTarget(m, FALSE)
  BY DEF EqualResult
<1>2. /\ op.kind \in {"hashed", "apply1", "project"} /\ pc = "finish"
      /\ Caller = acts[k] /\ Ordered(u, DOMAIN u) /\ Ordered(t, Operands)
  BY <1>1, ThirdFacts
<1>3. /\ Settled(op.kind, op.goal, t, Operands, u, DOMAIN u, acts', Waits', key, res)
      /\ ListRight("finish", u, acts', inter') /\ res \in DOMAIN u
  BY EqualSettled
<1>4. /\ op.kind = "hashed" => Target = tmp
      /\ op.kind # "hashed" => Target = aut
  BY DEF Target, Hashed
<1>5. KeyOK(op.kind, t, Operands, key) /\ EntryRight(op.kind, t, u, key, res)
  BY <1>3 DEF Settled
<1>6. CASE op.kind = "hashed"
  <2>1. PICK m \in Cached(tmp, key, acts[k].h, res) : SetTarget(m, FALSE)
    BY <1>1, <1>2, <1>4, <1>6
  <2>2. tmp' = m /\ aut' = aut /\ marks' = MarksIn(m, FALSE)
    BY <1>6, <2>1 DEF SetTarget, Hashed
  <2>3. TmpRight(m, tmpMeans) /\ m.table = t /\ m.roots = tmp.roots
    <3>1. MayEnter("hashed", t, Operands, t, key, res)
      BY <1>2, <1>3, <1>4, <1>5, <1>6 DEF MayEnter
    <3>2. TmpRight(m, tmpMeans) /\ SameNodes(tmp, m)
      BY <2>1, <3>1, InvFacts, TmpCached
    <3> QED
      BY <3>2 DEF SameNodes
  <2>4. AutRight(use, t, aut, autMeans, {}) /\ MarksRight(use, t, aut.table, MarksIn(m, FALSE))
    <3>1. /\ use \in {"none", "apply1"} /\ AutRight(use, t, aut, autMeans, {})
          /\ MarksRight(use, t, aut.table, marks) /\ Ordered(t, DOMAIN t)
      BY <1>6, InvFacts
    <3>2. Carries(t, DOMAIN t, t, DOMAIN t, <<>>)
      BY <3>1, CarriesSelf
    <3>3. FALSE \in BOOLEAN
      OBVIOUS
    <3> DEFINE d == FALSE
    <3>4. d \in BOOLEAN /\ (~ d => Carries(t, DOMAIN t, t, DOMAIN t, <<>>)) /\ m.table = t
      BY <2>3, <3>2
    <3> HIDE DEF d
    <3>5. MarksRight(use, t, aut.table, MarksIn(m, d))
      BY <3>1, <3>4, OthersKept
    <3> QED
      BY <3>1, <3>5 DEF d
  <2>5. Operands' = Operands /\ Target' = m
    BY <1>1, <1>6, <2>2, <2>3 DEF Operands, Target, Hashed
  <2> QED
    BY <1>1, <1>2, <1>3, <1>4, <1>6, <2>2, <2>3, <2>4, <2>5, SettledInv
<1>7. CASE op.kind = "apply1"
  <2>1. /\ marks' = [marks EXCEPT ![key[1]] = res] /\ tmp' = tmp /\ aut' = aut
    BY <1>1, <1>2, <1>7
  <2>2. /\ use = "apply1" /\ TmpRight(tmp, tmpMeans) /\ AutRight("apply1", t, aut, autMeans, {})
        /\ MarksRight("apply1", t, aut.table, marks) /\ Ordered(t, DOMAIN t)
    BY <1>7, InvFacts
  <2>3. key = <<key[1], Nowhere>> /\ key[1] \in DOMAIN t
    <3>1. key = <<key[1], key[2]>> /\ key[2] = Nowhere /\ key[1] \in Operands
      BY <1>5, <1>7 DEF KeyOK
    <3> QED
      BY <3>1, InvFacts
  <2>4. MarksRight("apply1", t, aut.table, [marks EXCEPT ![key[1]] = res])
    <3> DEFINE a == key[1]
               d == FALSE
               h == [b \in DOMAIN marks |-> IF b = a THEN res ELSE IF d THEN Nowhere ELSE marks[b]]
               v == aut.table
    <3>1. [marks EXCEPT ![a] = res] = h
      <4>1. marks \in [DOMAIN t -> Nat]
        BY <2>2 DEF MarksRight
      <4> QED
        BY <4>1
    <3>2. d \in BOOLEAN /\ (~ d => Carries(v, DOMAIN v, v, DOMAIN v, <<>>))
      BY <1>2, <1>4, <1>7, CarriesSelf
    <3>3. /\ EntryRight("apply1", t, v, <<a, Nowhere>>, res) /\ a \in DOMAIN t /\ res \in DOMAIN v
          /\ h = [b \in DOMAIN marks |-> IF b = a THEN res ELSE IF d THEN Nowhere ELSE marks[b]]
          /\ v \in Seq(Nodes)
      BY <1>2, <1>3, <1>4, <1>5, <1>7, <2>3 DEF Ordered
    <3>4. MarksRight("apply1", t, v, marks) /\ Ordered(t, DOMAIN t)
      BY <2>2
    <3> HIDE DEF a, d, h, v
    <3>5. MarksRight("apply1", t, v, h)
      BY <3>2, <3>3, <3>4, MarksAut
    <3> QED
      BY <3>1, <3>5 DEF a, v
  <2>5. Operands' = Operands /\ Target' = Target
    BY <1>1, <2>1 DEF Operands, Target, Hashed
  <2> QED
    BY <1>1, <1>2, <1>3, <1>4, <1>7, <2>1, <2>2, <2>4, <2>5, SettledInv
<1>8. CASE op.kind = "project"
  <2>1. PICK m \in Cached(aut, key, acts[k].h, res) : SetTarget(m, FALSE)
    BY <1>1, <1>2, <1>4, <1>8
  <2>2. tmp' = tmp /\ aut' = m /\ marks' = marks
    BY <1>8, <2>1 DEF SetTarget, Hashed
  <2>3. /\ use = "project" /\ TmpRight(tmp, tmpMeans) /\ AutRight("project", t, aut, autMeans, {})
        /\ MarksRight("project", t, aut.table, marks)
    BY <1>8, InvFacts
  <2>4. AutRight("project", t, m, autMeans, {}) /\ m.table = aut.table
    <3>1. /\ KeyOK("project", t, Operands, key) /\ res \in DOMAIN aut.table
          /\ res \notin {} => EntryRight("project", t, aut.table, key, res)
      BY <1>3, <1>4, <1>5, <1>8
    <3> QED
      BY <1>2, <2>1, <2>3, <3>1, AutCached
  <2>5. Operands' = Operands /\ Target' = m
    BY <1>1, <1>8, <2>2 DEF Operands, Target, Hashed
  <2>6. MarksRight("project", t, m.table, marks)
    BY <2>3, <2>4
  <2> QED
    BY <1>1, <1>2, <1>3, <1>4, <1>8, <2>2, <2>3, <2>4, <2>5, <2>6, SettledInv
<1> QED
  BY <1>2, <1>6, <1>7, <1>8

LEMMA ThirdKeeps ==
    ASSUME BddInv, Third
    PROVE  BddInv'
<1>1. AtFinish /\ op.kind # "sequential" /\ Last(Peeled) # GoingLeft
  BY DEF Third
<1>2. CASE Last(Peeled) = res
  <2>1. EqualResult
    BY <1>2 DEF Third, EqualResult
  <2> QED
    BY <2>1, EqualKeeps
<1>3. CASE Last(Peeled) # res
  <2> DEFINE k == Len(acts)
             W == Waits
             g == Front(acts)
             u == Target.table
             w == Last(Peeled)
             i == acts[k].index
             node == Inner(i, w, res)
             key == acts[k].key
             at == acts[k].h
             list == Peeled
  <2>0. k = Len(acts) /\ W = Waits /\ g = Front(acts)
    OBVIOUS
  <2> HIDE DEF k, W, g
  <2>1. /\ op.kind \in {"hashed", "apply1", "project"} /\ pc = "finish"
        /\ Caller = acts[k] /\ k \in Nat /\ k # 0 /\ k = Len(acts)
        /\ CallsRight(op.kind, op.goal, tmp.table, Operands, u, DOMAIN u, acts, W)
        /\ ResultRight(op.kind, op.goal, tmp.table, u, DOMAIN u, acts, W, res)
        /\ Ordered(u, DOMAIN u) /\ Ordered(tmp.table, Operands)
        /\ W[k] = w /\ ListFor(u, list, g, W)
        /\ Len(g) = k - 1
        /\ \A X : (\A n \in 1..k-1 : X[n] = W[n]) => Begins(acts, W, k - 1, g, X)
    BY <1>1, <2>0, ThirdFacts
  <2>2. Begins(acts, W, k - 1, g, W)
    BY <2>1
  <2>3. Settle(node, key, at, list, g)
    BY <1>1, <1>3, <2>0, <2>1 DEF Third
  <2>4. op.kind \in Kinds
    BY <2>1 DEF Kinds
  <2>5. i = acts[k].index /\ node = Inner(i, w, res) /\ w # res /\ w # GoingLeft
    BY <1>1, <1>3
  <2> HIDE DEF u, w, i, node, list
  <2>6. Ready(op.kind, op.goal, tmp.table, Operands, u, g, W, acts[k].key, node)
    BY <2>1, <2>2, <2>4, <2>5, InnerReady
  <2> HIDE DEF key, at
  <2>7. Ready(op.kind, op.goal, tmp.table, Operands, Target.table, g, W, key, node)
        /\ ListFor(Target.table, list, g, W)
    BY <2>1, <2>6 DEF key, u
  <2> QED
    BY <2>1, <2>3, <2>7, SettleInv
<1> QED
  BY <1>2, <1>3
\* The first call returns.
LEMMA ReturnFacts ==
    ASSUME BddInv, Return
    PROVE  /\ op.kind \in Kinds /\ Open = {} /\ Open' = {} /\ UseOK' /\ IdleOK' /\ pc' = "idle"
           /\ res \in DOMAIN Target.table /\ Means(Target.table, res) = op.goal
           /\ op.goal \in Denotations /\ use' = use
<1>1. /\ pc = "finish" /\ acts = <<>> /\ use' = use /\ acts' = acts
      /\ pc' = "idle" /\ op' = NoOp /\ inter' = <<>>
  BY DEF Return
<1>2. op.kind # "path"
  BY <1>1 DEF BddInv, Phase, PathOK
<1>3. /\ op.kind \in Kinds /\ op.goal \in Denotations
      /\ ResultRight(op.kind, op.goal, tmp.table, Target.table, Finished, acts, Waits, res)
  BY <1>1, <1>2, WorkFacts
<1>4. Open = {}
  <2>1. DOMAIN acts = {}
    BY <1>1
  <2> QED
    BY <2>1 DEF Open, Pending
<1>5. Open' = {} /\ IdleOK' /\ UseOK'
  BY <1>1, InvFacts DEF Open, IdleOK, UseOK, NoOp
<1>6. Len(acts) + 1 = 1
  BY <1>1
<1>7. res \in Finished /\ Means(Target.table, res) = op.goal
  BY <1>3, <1>6, GoalFacts DEF ResultRight
<1> QED
  BY <1>1, <1>3, <1>4, <1>5, <1>7 DEF Finished

LEMMA ReturnKeeps ==
    ASSUME BddInv, Return
    PROVE  BddInv'
<1>1. /\ op.kind \in Kinds /\ Open = {} /\ Open' = {} /\ UseOK' /\ IdleOK' /\ pc' = "idle"
      /\ res \in DOMAIN Target.table /\ Means(Target.table, res) = op.goal
      /\ op.goal \in Denotations /\ use' = use
  BY ReturnFacts
<1>2. /\ SetTarget(Root(Target, res), FALSE)
      /\ IF Hashed
         THEN tmpMeans' = Append(tmpMeans, op.goal) /\ autMeans' = autMeans
         ELSE autMeans' = Append(autMeans, op.goal) /\ tmpMeans' = tmpMeans
  BY DEF Return
<1> DEFINE t == tmp.table
<1>3. /\ TmpRight(tmp, tmpMeans) /\ AutRight(use, t, aut, autMeans, {})
      /\ MarksRight(use, t, aut.table, marks) /\ tmp \in Managers /\ Ordered(t, DOMAIN t)
  BY <1>1, InvFacts
<1>4. CASE op.kind = "hashed"
  <2>1. /\ tmp' = Root(tmp, res) /\ aut' = aut /\ marks' = MarksIn(Root(tmp, res), FALSE)
        /\ tmpMeans' = Append(tmpMeans, op.goal) /\ autMeans' = autMeans
        /\ res \in DOMAIN t /\ Means(t, res) = op.goal
    BY <1>1, <1>2, <1>4 DEF SetTarget, Hashed, Target
  <2> DEFINE m == Root(tmp, res)
             F == DOMAIN t
  <2>2. /\ m.table = t /\ m.cache = tmp.cache /\ m \in Managers
        /\ RootsRight(m, F, Append(tmpMeans, op.goal))
    <3>1. RootsRight(tmp, F, tmpMeans) /\ F \in SUBSET Nat
      BY <1>3 DEF TmpRight, Ordered
    <3> QED
      BY <1>1, <1>3, <2>1, <3>1, RootsAdd
  <2> HIDE DEF m
  <2>3. TmpRight(m, Append(tmpMeans, op.goal))
    BY <1>3, <2>2 DEF TmpRight
  <2>4. AutRight(use, t, aut, autMeans, {}) /\ MarksRight(use, t, aut.table, MarksIn(m, FALSE))
    <3>1. use \in {"none", "apply1"}
      BY <1>4, InvFacts
    <3> DEFINE d == FALSE
    <3>2. d \in BOOLEAN /\ (~ d => Carries(t, DOMAIN t, t, DOMAIN t, <<>>)) /\ m.table = t
      BY <1>3, <2>2, CarriesSelf
    <3> HIDE DEF d
    <3>3. MarksRight(use, t, aut.table, MarksIn(m, d))
      BY <1>3, <3>1, <3>2, OthersKept
    <3> QED
      BY <1>3, <3>3 DEF d
  <2> QED
    BY <1>1, <2>1, <2>2, <2>3, <2>4 DEF BddInv, Phase, m
<1>5. CASE op.kind # "hashed"
  <2>1. /\ tmp' = tmp /\ aut' = Root(aut, res) /\ marks' = marks
        /\ autMeans' = Append(autMeans, op.goal) /\ tmpMeans' = tmpMeans
        /\ res \in DOMAIN aut.table /\ Means(aut.table, res) = op.goal
    BY <1>1, <1>2, <1>5 DEF SetTarget, Hashed, Target
  <2> DEFINE m == Root(aut, res)
             F == DOMAIN aut.table \ {}
  <2>2. /\ m.table = aut.table /\ m.cache = aut.cache /\ m \in Managers
        /\ RootsRight(m, F, Append(autMeans, op.goal))
    <3>1. aut \in Managers /\ RootsRight(aut, F, autMeans) /\ F \in SUBSET Nat /\ res \in F
      BY <1>3, <2>1 DEF AutRight, Ordered
    <3> HIDE DEF F
    <3> QED
      BY <1>1, <2>1, <3>1, RootsAdd
  <2> HIDE DEF m
  <2>3. AutRight(use, t, m, Append(autMeans, op.goal), {})
    BY <1>3, <2>2 DEF AutRight
  <2>4. MarksRight(use, t, m.table, marks)
    BY <1>3, <2>2
  <2> QED
    BY <1>1, <1>3, <2>1, <2>3, <2>4 DEF BddInv, Phase, m
<1> QED
  BY <1>4, <1>5
-----------------------------------------------------------------------------
(* bdd_apply2_sequential.                                                    *)

\* A step that changes aut.
LEMMA SequentialInv ==
    ASSUME BddInv, pc \in {"start", "finish"}, op.kind = "sequential",
           tmp' = tmp, use' = use, marks' = marks, op' = op,
           tmpMeans' = tmpMeans, autMeans' = autMeans, pc' \in {"start", "finish"},
           NEW m, aut' = m, NEW open, OpenIn(acts') = open,
           AutRight("sequential", tmp.table, m, autMeans, open), NodesRight(m, acts'),
           NEW F, F = DOMAIN m.table \ open,
           CallsRight("sequential", op.goal, tmp.table, Operands, m.table, F, acts', Waits'),
           pc' = "start" =>
             CallRight("sequential", op.goal, tmp.table, Operands, acts', Waits', <<p', q'>>),
           pc' = "finish" =>
             ResultRight("sequential", op.goal, tmp.table, m.table, F, acts', Waits', res')
    PROVE  BddInv'
<1>1. Open' = open
  BY DEF Open, OpenIn, Pending
<1>2. Target' = m /\ Operands' = Operands
  BY DEF Target, Hashed, Operands
<1>3. Finished' = F
  BY <1>1, <1>2 DEF Finished
<1>4. op = [kind |-> op.kind, goal |-> op.goal] /\ op.goal \in Denotations
  BY WorkFacts
<1>5. UseOK' /\ use = "sequential"
  BY InvFacts DEF UseOK
<1>6. MarksRight("sequential", tmp.table, m.table, marks)
  <2>1. MarksRight("sequential", tmp.table, aut.table, marks)
    BY <1>5, InvFacts
  <2> QED
    BY <2>1 DEF MarksRight
<1>7. WorkRight("sequential", op.goal, tmp.table, Operands, m.table, F,
                acts', Waits', pc', <<p', q'>>, res')
  BY <1>4 DEF WorkRight, Kinds
<1>8. WorkOK'
  BY <1>2, <1>3, <1>4, <1>7 DEF WorkOK
<1> QED
  BY <1>1, <1>5, <1>6, <1>8, InvFacts DEF BddInv, Phase

\* aut, when bdd_apply2_sequential is under way.
LEMMA SequentialFacts ==
    ASSUME BddInv, pc \in {"start", "finish"}, op.kind = "sequential"
    PROVE  /\ use = "sequential" /\ Target = aut /\ op.kind \in Kinds
           /\ Open = OpenIn(acts) /\ Finished = DOMAIN aut.table \ Open
           /\ AutRight("sequential", tmp.table, aut, autMeans, Open)
           /\ aut \in Managers /\ aut.table \in Seq(Nodes) /\ Ordered(aut.table, Finished)
           /\ Ordered(tmp.table, DOMAIN tmp.table) /\ Ordered(tmp.table, Operands)
           /\ NodesRight(aut, acts) /\ Open \subseteq DOMAIN aut.table
           /\ CallsRight("sequential", op.goal, tmp.table, Operands, aut.table, Finished, acts, Waits)
           /\ \A k \in DOMAIN aut.cache : aut.cache[k] \in DOMAIN aut.table
<1>1. Open = OpenIn(acts)
  BY DEF Open, OpenIn, Pending
<1>2. /\ use = "sequential" /\ Target = aut /\ op.kind \in Kinds
      /\ AutRight("sequential", tmp.table, aut, autMeans, Open)
      /\ Ordered(tmp.table, DOMAIN tmp.table) /\ Ordered(tmp.table, Operands)
  BY InvFacts DEF Target, Hashed, Kinds
<1>3. /\ NodesRight(aut, acts)
      /\ CallsRight("sequential", op.goal, tmp.table, Operands, aut.table, Finished, acts, Waits)
  BY <1>2, WorkFacts
<1>4. aut \in Managers /\ aut.table \in Seq(Nodes) /\ Ordered(aut.table, Finished)
  BY <1>2, TargetFacts
<1>5. Open \subseteq DOMAIN aut.table
  BY <1>1, <1>3 DEF OpenIn, NodesRight
<1>6. \A k \in DOMAIN aut.cache : aut.cache[k] \in DOMAIN aut.table
  BY <1>2 DEF AutRight, CacheRight
<1> QED
  BY <1>1, <1>2, <1>3, <1>4, <1>5, <1>6 DEF Finished

\* A node is taken, and entered as the result to come.
NodeTaken(m, node, open2) ==
    /\ AutRight("sequential", tmp.table, m, autMeans, open2)
    /\ OneMore(aut, m, node, Here) /\ m.table \in Seq(Nodes) /\ m \in Managers
    /\ Carries(aut.table, Finished, m.table, DOMAIN m.table \ open2, <<>>)
    /\ DOMAIN m.table \ open2 = Finished

LEMMA TakeNode ==
    ASSUME BddInv, AtStart, op.kind = "sequential",
           NEW grown, grown = FreeNode(aut), NEW node, node = Len(grown.table),
           NEW m \in Cached(grown, Here, aut.trigger, node),
           NEW open2, open2 = Open \cup {node}
    PROVE  NodeTaken(m, node, open2) /\ node \in Nat
<1> DEFINE t == tmp.table
<1>1. /\ pc = "start" /\ KeyOK("sequential", t, Operands, Here)
  BY StartFacts
<1>2. /\ Finished = DOMAIN aut.table \ Open
      /\ AutRight("sequential", t, aut, autMeans, Open)
      /\ aut \in Managers /\ aut.table \in Seq(Nodes) /\ Ordered(aut.table, Finished)
      /\ Ordered(t, DOMAIN t) /\ Ordered(t, Operands) /\ Open \subseteq DOMAIN aut.table
      /\ \A k \in DOMAIN aut.cache : aut.cache[k] \in DOMAIN aut.table
  BY <1>1, SequentialFacts
<1>3. /\ grown \in Managers /\ grown.roots = aut.roots /\ grown.cache = aut.cache
      /\ DOMAIN aut.table \subseteq DOMAIN grown.table
      /\ node \notin DOMAIN aut.table
      /\ DOMAIN grown.table = DOMAIN aut.table \cup {node}
      /\ \A a \in DOMAIN aut.table : grown.table[a] = aut.table[a]
  BY <1>2, FreeFacts
<1>4. grown.table \in Seq(Nodes) /\ node \in Nat
  BY <1>3, ManagerFacts
<1>5. DOMAIN grown.table \ open2 = Finished
  BY <1>2, <1>3
<1>6. Ordered(grown.table, Finished)
  BY <1>2, <1>3, <1>4, OrderedSame
<1>7. /\ AutRight("sequential", t, grown, autMeans, open2)
      /\ Carries(aut.table, Finished, grown.table, DOMAIN grown.table \ open2, <<>>)
  <2>1. Grown(aut, Open, grown, open2)
    BY <1>2, <1>3, <1>5, <1>6 DEF Grown
  <2>2. EntriesFinish(t, aut, Open, grown, open2)
    BY DEF EntriesFinish
  <2> QED
    BY <1>2, <2>1, <2>2, AutGrown
<1>8. /\ AutRight("sequential", t, m, autMeans, open2) /\ m.table = grown.table
      /\ CacheGrows(grown.cache, Here, node, m.cache)
  <2>1. node \in DOMAIN grown.table /\ node \in open2
    BY <1>3
  <2> HIDE DEF t
  <2> QED
    BY <1>1, <1>2, <1>7, <2>1, AutCached
<1>9. m \in Managers
  BY <1>8 DEF AutRight
<1>10. OneMore(aut, m, node, Here)
  BY <1>2, <1>3, <1>8 DEF OneMore
<1> QED
  BY <1>4, <1>5, <1>7, <1>8, <1>9, <1>10 DEF NodeTaken

LEMMA SequentialDescends ==
    ASSUME BddInv, AtStart, op.kind = "sequential", ~ BothLeaves,
           NEW m, NEW node \in Nat, NodeTaken(m, node, Open \cup {node}),
           aut' = m, acts' = Append(acts, Frame(node)),
           p' = Down(Here[1], TRUE), q' = Down(Here[2], TRUE), pc' = pc,
           tmp' = tmp, use' = use, marks' = marks, op' = op,
           tmpMeans' = tmpMeans, autMeans' = autMeans
    PROVE  BddInv'
<1> DEFINE t == tmp.table
           frame == Frame(node)
           here == Here
           key == <<p, q>>
           g == acts'
           V == Waits'
           W == Waits
           open2 == Open \cup {node}
           F2 == DOMAIN m.table \ open2
<1>1. /\ pc = "start"
      /\ CallRight("sequential", op.goal, t, Operands, acts, W, key)
      /\ here = HereIn("sequential", t, key)
  BY StartFacts
<1>2. /\ Open = OpenIn(acts) /\ NodesRight(aut, acts) /\ Ordered(t, Operands)
      /\ CallsRight("sequential", op.goal, t, Operands, aut.table, Finished, acts, W)
      /\ op.kind \in Kinds
  BY <1>1, SequentialFacts
<1>3. acts \in Seq(Frames) /\ Len(acts) \in Nat /\ DOMAIN acts = 1..Len(acts)
  BY <1>2 DEF CallsRight
<1>4. /\ AutRight("sequential", t, m, autMeans, open2)
      /\ OneMore(aut, m, node, here)
      /\ Carries(aut.table, Finished, m.table, F2, <<>>)
  BY DEF NodeTaken
<1>5. /\ frame \in Frames /\ FrameFor(t, here, frame) /\ frame.node = node /\ frame.key = here
      /\ frame.left = Nowhere /\ <<p', q'>> = SuccIn(t, here, frame.index, TRUE)
  BY FrameIs DEF FrameFor
<1>6. Pushed(acts, frame, g)
  BY DEF Pushed
<1> HIDE DEF frame, here, key, W, open2, F2
<1>7. NodesRight(m, g) /\ OpenIn(g) = open2
  <2>1. NodesRight(m, g) /\ OpenIn(g) = OpenIn(acts) \cup {node}
    BY <1>2, <1>3, <1>4, <1>5, <1>6, NodesPush
  <2> QED
    BY <1>2, <2>1 DEF open2
<1>8. CallsRight("sequential", op.goal, t, Operands, m.table, F2, acts, W)
  BY <1>2, <1>4, CallsGrow
<1>9. WaitsLeft(acts, W, V)
  <2>1. /\ DOMAIN g = 1..Len(acts)+1 /\ g[Len(acts) + 1] = frame
        /\ \A n \in 1..Len(acts) : g[n] = acts[n]
    BY <1>3, <1>5, <1>6, AppendFacts DEF Pushed
  <2>2. \A n \in 1..Len(acts)+1 : V[n] = IF g[n].left = Nowhere THEN GoingLeft ELSE g[n].left
    BY <2>1 DEF Waits, Waiting
  <2>3. \A n \in 1..Len(acts) : W[n] = IF acts[n].left = Nowhere THEN GoingLeft ELSE acts[n].left
    BY <1>3 DEF W, Waits, Waiting
  <2>4. Len(acts) + 1 \in 1..Len(acts)+1 /\ \A n \in 1..Len(acts) : n \in 1..Len(acts)+1
    BY <1>3
  <2>5. V[Len(acts) + 1] = GoingLeft
    BY <1>5, <2>1, <2>2, <2>4
  <2>6. \A n \in 1..Len(acts) : V[n] = W[n]
    BY <2>1, <2>2, <2>3, <2>4
  <2> HIDE DEF V
  <2> QED
    BY <2>5, <2>6 DEF WaitsLeft
<1> HIDE DEF V
<1>10. /\ CallsRight("sequential", op.goal, t, Operands, m.table, F2, g, V)
       /\ CallRight("sequential", op.goal, t, Operands, g, V, SuccIn(t, here, frame.index, TRUE))
  <2> HIDE DEF g, t
  <2>1. "sequential" \in Kinds
    BY DEF Kinds
  <2> QED
    BY <1>1, <1>2, <1>5, <1>6, <1>8, <1>9, <2>1, DescendStep
<1>11. /\ pc' = "start" /\ F2 = DOMAIN m.table \ open2
       /\ CallRight("sequential", op.goal, t, Operands, g, V, <<p', q'>>)
  BY <1>1, <1>5, <1>10 DEF F2
<1> QED
  BY <1>1, <1>4, <1>7, <1>10, <1>11, SequentialInv DEF V
\* The node is written at once.
LEMMA SequentialLeaf ==
    ASSUME BddInv, AtStart, op.kind = "sequential", BothLeaves,
           NEW m, NEW node \in Nat, NodeTaken(m, node, Open \cup {node}),
           aut' = [m EXCEPT !.table[node] = Leaf(LeafValue)],
           res' = node, pc' = "finish", acts' = acts,
           tmp' = tmp, use' = use, marks' = marks, op' = op,
           tmpMeans' = tmpMeans, autMeans' = autMeans
    PROVE  BddInv'
<1> DEFINE t == tmp.table
           here == Here
           key == <<p, q>>
           W == Waits
           open == Open
           open2 == open \cup {node}
           u == aut.table
           F == Finished
           m3 == aut'
           u3 == m3.table
           x == Leaf(LeafValue)
           F3 == DOMAIN u3 \ open
<1>1. /\ pc = "start" /\ KeyOK("sequential", t, Operands, here)
      /\ CallRight("sequential", op.goal, t, Operands, acts, W, key)
      /\ here = HereIn("sequential", t, key)
  BY StartFacts
<1>2. /\ open = OpenIn(acts) /\ NodesRight(aut, acts) /\ Ordered(t, Operands)
      /\ CallsRight("sequential", op.goal, t, Operands, u, F, acts, W)
      /\ open \subseteq DOMAIN u /\ F = DOMAIN u \ open /\ Ordered(u, F)
      /\ Ordered(t, DOMAIN t)
  BY <1>1, SequentialFacts
<1>3. /\ AutRight("sequential", t, m, autMeans, open2)
      /\ OneMore(aut, m, node, here) /\ m.table \in Seq(Nodes) /\ m \in Managers
      /\ Carries(u, F, m.table, DOMAIN m.table \ open2, <<>>)
      /\ DOMAIN m.table \ open2 = F
  BY DEF NodeTaken
<1>4. /\ IndexIn(t, here[1]) = LeafIndex /\ IndexIn(t, here[2]) = LeafIndex
      /\ LeafValue = LeafValueIn("sequential", t, here)
  BY LeavesAre
<1>5. LeafValue \in SUBSET Elements
  <2>1. "sequential" \in Kinds
    BY DEF Kinds
  <2> HIDE DEF t, here
  <2> QED
    BY <1>1, <1>2, <1>4, <2>1, LeafResult
<1>6. x \in Nodes
  BY <1>5, LeafFacts
<1>7. node \notin DOMAIN u /\ node \in DOMAIN m.table /\ DOMAIN m.table = DOMAIN u \cup {node}
  BY <1>3 DEF OneMore
<1>8. /\ m3 \in Managers /\ m3.roots = m.roots /\ m3.cache = m.cache
      /\ DOMAIN u3 = DOMAIN m.table /\ u3[node] = x
      /\ \A a \in DOMAIN m.table : a # node => u3[a] = m.table[a]
  <2>1. WithNode(m, node, x, m3)
    BY DEF WithNode
  <2> HIDE DEF m3, x
  <2> QED
    BY <1>3, <1>6, <1>7, <2>1, TableSet
<1>9. u3 \in Seq(Nodes)
  BY <1>8, ManagerFacts
<1> HIDE DEF m3, x
<1>10. F3 = F \cup {node} /\ node \in F3
  BY <1>2, <1>7, <1>8
<1>11. \A a \in F : a \in DOMAIN u3 /\ u3[a] = m.table[a]
  BY <1>3, <1>7, <1>8
<1>12. Ordered(u3, F3)
  <2>1. Ordered(m.table, F)
    BY <1>3 DEF Carries
  <2>2. LeafAt(u3, node)
    <3>1. x.value = LeafValue /\ x = Leaf(LeafValue)
      BY <1>5, LeafFacts DEF x
    <3> QED
      BY <1>8, <3>1 DEF LeafAt
  <2>3. node \in DOMAIN u3
    BY <1>7, <1>8
  <2> QED
    BY <1>9, <1>10, <1>11, <2>1, <2>2, <2>3, OrderedAdd
<1>13. Carries(u, F, u3, F3, <<>>)
  <2>1. \A a \in F : m.table[a] = u[a]
    BY <1>3, CarriesStays
  <2> HIDE DEF u3, F3, F, u
  <2> QED
    BY <1>2, <1>10, <1>11, <1>12, <2>1, CarriesStays
<1>14. /\ CallsRight("sequential", op.goal, t, Operands, u3, F3, acts, W)
       /\ EntryRight("sequential", t, u3, here, node)
       /\ ResultRight("sequential", op.goal, t, u3, F3, acts, W, node)
  <2>1. "sequential" \in Kinds
    BY DEF Kinds
  <2>2. u3[node] = Leaf(LeafValueIn("sequential", t, here))
    BY <1>4, <1>8 DEF x
  <2> HIDE DEF t, here, key, W, u, F, u3, F3
  <2> QED
    BY <1>1, <1>2, <1>4, <1>10, <1>13, <2>1, <2>2, LeafWork
<1>15. AutRight("sequential", t, m3, autMeans, open)
  <2>1. Grown(m, open2, m3, open)
    <3>1. \A a \in DOMAIN m.table \ open2 : a \in F3 /\ u3[a] = m.table[a]
      BY <1>3, <1>10, <1>11
    <3> QED
      BY <1>8, <1>12, <3>1 DEF Grown
  <2>2. EntriesFinish(t, m, open2, m3, open)
    <3>1. ASSUME NEW k \in DOMAIN m.cache, m.cache[k] \in open2, m.cache[k] \notin open
          PROVE  EntryRight("sequential", t, u3, k, m.cache[k])
      <4>1. m.cache[k] = node
        BY <3>1
      <4>2. k = here
        <5>1. \A c \in DOMAIN m.cache : m.cache[c] = node => c = here
          BY <1>2, <1>3, NodesGrow
        <5> QED
          BY <4>1, <5>1
      <4> QED
        BY <1>14, <4>1, <4>2
    <3> QED
      BY <3>1 DEF EntriesFinish
  <2> HIDE DEF open2, open, t
  <2> QED
    BY <1>2, <1>3, <2>1, <2>2, AutGrown
<1>16. NodesRight(m3, acts)
  <2>1. NodesRight(m, acts)
    BY <1>2, <1>3, NodesGrow
  <2> QED
    BY <1>8, <2>1 DEF NodesRight
<1>17. Waits' = W
  BY SameWaits
<1>18. OpenIn(acts') = open /\ pc' # "start"
  BY <1>2
<1> QED
  BY <1>1, <1>14, <1>15, <1>16, <1>17, <1>18, SequentialInv DEF m3

LEMMA SequentialStartKeeps ==
    ASSUME BddInv, SequentialStart
    PROVE  BddInv'
<1>1. /\ AtStart /\ op.kind = "sequential"
      /\ tmp' = tmp /\ use' = use /\ marks' = marks /\ op' = op
      /\ tmpMeans' = tmpMeans /\ autMeans' = autMeans
  BY DEF SequentialStart
<1> DEFINE grown == FreeNode(aut)
           node == Len(grown.table)
<1>2. PICK m \in Cached(grown, Here, aut.trigger, node) :
        IF BothLeaves
        THEN /\ aut' = [m EXCEPT !.table[node] = Leaf(LeafValue)]
             /\ res' = node /\ pc' = "finish"
             /\ acts' = acts /\ p' = p /\ q' = q
        ELSE /\ aut' = m
             /\ acts' = Append(acts, Frame(node))
             /\ p' = Down(Here[1], TRUE) /\ q' = Down(Here[2], TRUE) /\ pc' = pc
  BY DEF SequentialStart, GoLeft
<1>3. NodeTaken(m, node, Open \cup {node}) /\ node \in Nat
  <2> DEFINE g == grown
             n == node
             open2 == Open \cup {n}
  <2>1. g = FreeNode(aut) /\ n = Len(g.table) /\ open2 = Open \cup {n}
        /\ m \in Cached(g, Here, aut.trigger, n)
    OBVIOUS
  <2> HIDE DEF g, n, open2
  <2>2. NodeTaken(m, n, open2) /\ n \in Nat
    BY <1>1, <2>1, TakeNode
  <2> QED
    BY <2>2 DEF n, open2
<1> HIDE DEF node
<1>4. CASE BothLeaves
  BY <1>1, <1>2, <1>3, <1>4, SequentialLeaf
<1>5. CASE ~ BothLeaves
  BY <1>1, <1>2, <1>3, <1>5, SequentialDescends
<1> QED
  BY <1>4, <1>5

LEMMA SequentialSecondKeeps ==
    ASSUME BddInv, SequentialSecond
    PROVE  BddInv'
<1> DEFINE k == Len(acts)
           g == acts'
           V == Waits'
           W == Waits
           u == Target.table
           F == Finished
<1>1. /\ AtFinish /\ op.kind = "sequential" /\ Caller.left = Nowhere
      /\ g = [acts EXCEPT ![k].left = res] /\ inter' = inter
      /\ pc' = "start" /\ p' = Caller.second[1] /\ q' = Caller.second[2]
      /\ tmp' = tmp /\ aut' = aut /\ use' = use /\ marks' = marks /\ op' = op
      /\ tmpMeans' = tmpMeans /\ autMeans' = autMeans
  BY DEF SequentialSecond, GoRight
<1>2. /\ op.kind \in Kinds /\ pc = "finish"
      /\ acts \in Seq(Frames) /\ Caller = acts[k] /\ Caller \in Frames
      /\ k \in Nat /\ k # 0 /\ k \in 1..k /\ DOMAIN acts = 1..k
      /\ CallsRight(op.kind, op.goal, tmp.table, Operands, u, F, acts, W)
      /\ ResultRight(op.kind, op.goal, tmp.table, u, F, acts, W, res)
      /\ res \in F /\ NodesRight(aut, acts)
  BY <1>1, FinishFacts
<1>3. Ordered(u, F) /\ Ordered(tmp.table, Operands)
  BY <1>2, TargetFacts, InvFacts
<1>4. res \in Nat /\ res # Nowhere
  BY <1>2, <1>3, OrderedFacts, NodeFacts
<1> DEFINE frame == [acts[k] EXCEPT !.left = res]
<1>5. /\ frame \in Frames /\ frame.left = res
      /\ frame.index = acts[k].index /\ frame.key = acts[k].key
      /\ frame.second = acts[k].second /\ frame.node = acts[k].node
  BY <1>2, <1>4 DEF Frames
<1>6. g = [acts EXCEPT ![k] = frame]
  BY <1>1
<1> HIDE DEF frame
<1>7. /\ DOMAIN g = 1..k /\ g[k] = frame
      /\ \A n \in 1..k-1 : g[n] = acts[n]
  BY <1>2, <1>6
<1>8. g \in Seq(Frames) /\ Len(g) = k
  BY <1>2, <1>5, <1>6
<1>9. \A n \in 1..k : /\ g[n].index = acts[n].index /\ g[n].key = acts[n].key
                      /\ g[n].second = acts[n].second /\ g[n].node = acts[n].node
  <2> SUFFICES ASSUME NEW n \in 1..k
               PROVE  /\ g[n].index = acts[n].index /\ g[n].key = acts[n].key
                      /\ g[n].second = acts[n].second /\ g[n].node = acts[n].node
    OBVIOUS
  <2>1. CASE n = k
    BY <1>5, <1>7, <2>1
  <2>2. CASE n # k
    <3>1. n \in 1..k-1
      <4>1. k \in Nat /\ n \in 1..k /\ n # k
        BY <1>2, <2>2
      <4> HIDE DEF k
      <4> QED
        BY <4>1
    <3> QED
      BY <1>7, <3>1
  <2> QED
    BY <2>1, <2>2
<1>10. Returns(acts, W, k, g, V, res)
  <2>1. \A n \in 1..k : /\ V[n] = IF g[n].left = Nowhere THEN GoingLeft ELSE g[n].left
                        /\ W[n] = IF acts[n].left = Nowhere THEN GoingLeft ELSE acts[n].left
    BY <1>1, <1>2, <1>7 DEF Waits, Waiting
  <2>2. \A n \in 1..k-1 : n \in 1..k
    BY <1>2
  <2>3. V[k] = res /\ W[k] = GoingLeft
    BY <1>1, <1>2, <1>4, <1>5, <1>7, <2>1
  <2>4. \A n \in 1..k-1 : V[n] = W[n]
    BY <1>7, <2>1, <2>2
  <2> HIDE DEF V, W
  <2> QED
    BY <1>2, <1>8, <1>9, <2>3, <2>4 DEF Returns
<1>11. NodesRight(aut, g) /\ OpenIn(g) = OpenIn(acts)
  BY <1>2, <1>7, <1>9, NodesSame
<1>12. Open' = Open
  BY <1>1, <1>11 DEF Open, OpenIn, Pending
<1>13. <<p', q'>> = acts[k].second
  <2>1. Caller.second \in Nat \X Nat
    BY <1>2 DEF Frames
  <2>2. Caller.second = <<Caller.second[1], Caller.second[2]>>
    BY <2>1
  <2> QED
    BY <1>1, <1>2, <2>2
<1>14. /\ CallsRight(op.kind, op.goal, tmp.table, Operands, u, F, g, V)
       /\ CallRight(op.kind, op.goal, tmp.table, Operands, g, V, acts[k].second)
  <2> HIDE DEF k, g, V, W, u, F
  <2> QED
    BY <1>2, <1>3, <1>10, SecondStep
<1>15. pc' = "start" /\ pc' # "finish"
  BY <1>1
<1> QED
  BY <1>1, <1>2, <1>11, <1>12, <1>13, <1>14, <1>15, MovesOnly

LEMMA SequentialThirdKeeps ==
    ASSUME BddInv, SequentialThird
    PROVE  BddInv'
<1> DEFINE t == tmp.table
           k == Len(acts)
           g == Front(acts)
           V == Waits'
           W == Waits
           u == aut.table
           open == Open
           F == Finished
           n == acts[k].node
           w == acts[k].left
           i == acts[k].index
           key == acts[k].key
           m3 == aut'
           u3 == m3.table
           open3 == open \ {n}
           F3 == DOMAIN u3 \ open3
           x == Inner(i, w, res)
<1>1. /\ AtFinish /\ op.kind = "sequential" /\ Caller.left # Nowhere
      /\ aut' = [aut EXCEPT !.table[Caller.node] = Inner(Caller.index, Caller.left, res)]
      /\ res' = Caller.node /\ acts' = g /\ pc' = pc
      /\ tmp' = tmp /\ use' = use /\ marks' = marks /\ op' = op
      /\ tmpMeans' = tmpMeans /\ autMeans' = autMeans
  BY DEF SequentialThird
<1>2. /\ pc = "finish" /\ acts \in Seq(Frames) /\ acts # <<>> /\ Caller = acts[k]
      /\ acts[k] \in Frames
      /\ k \in Nat /\ k # 0 /\ k \in 1..k /\ DOMAIN acts = 1..k
      /\ res \in F
  BY <1>1, FinishFacts
<1>3. /\ open = OpenIn(acts) /\ NodesRight(aut, acts) /\ Ordered(t, Operands)
      /\ CallsRight("sequential", op.goal, t, Operands, u, F, acts, W)
      /\ open \subseteq DOMAIN u /\ F = DOMAIN u \ open /\ Ordered(u, F)
      /\ Ordered(t, DOMAIN t) /\ AutRight("sequential", t, aut, autMeans, open)
      /\ aut \in Managers /\ Target = aut
  BY <1>1, <1>2, SequentialFacts
<1>4. ResultRight("sequential", op.goal, t, u, F, acts, W, res)
  BY <1>1, <1>3, FinishFacts
<1>5. W[k] = w /\ w # GoingLeft
  <2>1. w \in Nat
    BY <1>2 DEF Frames
  <2> QED
    BY <1>1, <1>2, <2>1 DEF Waits, Waiting, GoingLeft
<1>6. n \in open /\ n \in DOMAIN u /\ n \notin F
  BY <1>2, <1>3 DEF OpenIn
<1>7. BothRight("sequential", op.goal, t, Operands, u, F, acts, W, k, w, res, i)
  <2>1. "sequential" \in Kinds /\ k = Len(acts) /\ i = acts[k].index
    BY DEF Kinds
  <2> HIDE DEF t, k, W, u, F, w, i
  <2> QED
    BY <1>2, <1>3, <1>4, <1>5, <2>1, ThirdStep
<1>8. /\ i \in 0..Vars-1 /\ w \in F /\ res \in F /\ i < u[w].index /\ i < u[res].index
  BY <1>7 DEF BothRight
<1>9. x \in Nodes /\ x.index = i /\ x.lo = w /\ x.hi = res
  <2>1. i \in -1..Vars /\ w \in Nat /\ res \in Nat
    BY <1>3, <1>8, VarsFacts DEF Ordered
  <2> QED
    BY <2>1, InnerFacts
<1>10. /\ m3 \in Managers /\ m3.roots = aut.roots /\ m3.cache = aut.cache
       /\ DOMAIN u3 = DOMAIN u /\ u3[n] = x
       /\ \A a \in DOMAIN u : a # n => u3[a] = u[a]
  <2>1. WithNode(aut, n, x, m3)
    BY <1>1, <1>2 DEF WithNode
  <2> HIDE DEF m3, x, n
  <2> QED
    BY <1>3, <1>6, <1>9, <2>1, TableSet
<1>11. u3 \in Seq(Nodes)
  BY <1>10, ManagerFacts
<1>12. F3 = F \cup {n} /\ n \in F3 /\ n \in DOMAIN u3
  BY <1>3, <1>6, <1>10
<1>13. \A a \in F : a \in DOMAIN u3 /\ u3[a] = u[a]
  BY <1>3, <1>6, <1>10
<1> HIDE DEF m3, x, w, i
<1>14. Ordered(u3, F3)
  <2>1. InnerAt(u3, F, n)
    <3>1. /\ u3[n] = Inner(i, w, res) /\ u3[n].index = i /\ u3[n].lo = w /\ u3[n].hi = res
      BY <1>9, <1>10 DEF x
    <3>2. u3[w] = u[w] /\ u3[res] = u[res]
      BY <1>8, <1>13
    <3> QED
      BY <1>8, <3>1, <3>2 DEF InnerAt
  <2> HIDE DEF u3, F3, F, u, n
  <2> QED
    BY <1>3, <1>11, <1>12, <1>13, <2>1, OrderedAdd
<1>15. Carries(u, F, u3, F3, <<>>)
  <2> HIDE DEF u3, F3, F, u
  <2> QED
    BY <1>3, <1>12, <1>13, <1>14, CarriesStays
<1>16. Begins(acts, W, k - 1, g, V) /\ Len(g) = k - 1 /\ g \in Seq(Frames) /\ DOMAIN g = 1..k-1
  <2>1. /\ g \in Seq(Frames) /\ DOMAIN g = 1..k-1
        /\ \A j \in 1..k-1 : g[j] = acts[j]
    BY <1>2, FrontFacts
  <2>2. \A j \in 1..k-1 : V[j] = IF g[j].left = Nowhere THEN GoingLeft ELSE g[j].left
    <3> HIDE DEF g
    <3> QED
      BY <1>1, <2>1 DEF Waits, Waiting
  <2>3. \A j \in 1..k-1 : W[j] = IF acts[j].left = Nowhere THEN GoingLeft ELSE acts[j].left
    <3>1. \A j \in 1..k-1 : j \in 1..k
      BY <1>2
    <3> QED
      BY <1>1, <1>2, <3>1 DEF Waits, Waiting
  <2>4. \A j \in 1..k-1 : V[j] = W[j]
    BY <2>1, <2>2, <2>3
  <2>5. k = Len(acts) /\ g = Front(acts)
    OBVIOUS
  <2> HIDE DEF V, W, k, g
  <2> QED
    BY <1>2, <2>4, <2>5, PopFacts
<1>17. Settled("sequential", op.goal, t, Operands, u3, F3, g, V, key, n)
  <2>1. "sequential" \in Kinds /\ k = Len(acts) /\ key = acts[k].key
    BY DEF Kinds
  <2>2. u3[n] = Inner(i, w, res)
    BY <1>10 DEF x
  <2> HIDE DEF t, u3, F3, F, u, n, k, g, V, W, key
  <2>3. Settled("sequential", op.goal, t, Operands, u3, F3, g, V, acts[k].key, n)
    BY <1>2, <1>3, <1>7, <1>12, <1>15, <1>16, <2>1, <2>2, NodeWork
  <2> QED
    BY <2>1, <2>3
<1>18. AutRight("sequential", t, m3, autMeans, open3)
  <2>1. Grown(aut, open, m3, open3)
    <3>1. \A a \in DOMAIN u \ open : a \in F3 /\ u3[a] = u[a]
      BY <1>3, <1>12, <1>13
    <3> QED
      BY <1>10, <1>14, <3>1 DEF Grown
  <2>2. EntriesFinish(t, aut, open, m3, open3)
    <3>1. ASSUME NEW c \in DOMAIN aut.cache, aut.cache[c] \in open, aut.cache[c] \notin open3
          PROVE  EntryRight("sequential", t, u3, c, aut.cache[c])
      <4>1. aut.cache[c] = n
        BY <3>1
      <4>2. c = key
        BY <1>2, <1>3, <4>1 DEF NodesRight
      <4>3. EntryRight("sequential", t, u3, key, n)
        BY <1>17 DEF Settled
      <4> QED
        BY <4>1, <4>2, <4>3
    <3> QED
      BY <3>1 DEF EntriesFinish
  <2> HIDE DEF open3, open, t
  <2> QED
    BY <1>3, <2>1, <2>2, AutGrown
<1>19. NodesRight(m3, g) /\ OpenIn(g) = open3
  <2>1. NodesRight(m3, g) /\ OpenIn(g) = OpenIn(acts) \ {Last(acts).node}
    <3>1. g = Front(acts)
      OBVIOUS
    <3> HIDE DEF g
    <3> QED
      BY <1>2, <1>3, <1>10, <3>1, NodesPop
  <2>2. Last(acts) = acts[k]
    BY <1>2 DEF Caller
  <2> QED
    BY <1>3, <2>1, <2>2
<1>20. /\ CallsRight("sequential", op.goal, t, Operands, u3, F3, g, V)
       /\ ResultRight("sequential", op.goal, t, u3, F3, g, V, n)
  BY <1>17 DEF Settled
<1>21. pc' = "finish" /\ pc' # "start" /\ res' = n /\ acts' = g
  BY <1>1, <1>2
<1> HIDE DEF g, V, n, open3
<1>22. BddInv'
  <2>1. OpenIn(acts') = open3 /\ NodesRight(m3, acts')
        /\ F3 = DOMAIN m3.table \ open3 /\ aut' = m3
        /\ CallsRight("sequential", op.goal, t, Operands, m3.table, F3, acts', Waits')
        /\ ResultRight("sequential", op.goal, t, m3.table, F3, acts', Waits', res')
    BY <1>19, <1>20, <1>21 DEF m3, V
  <2> HIDE DEF F3
  <2> QED
    BY <1>1, <1>2, <1>18, <1>21, <2>1, SequentialInv
<1> QED
  BY <1>22
-----------------------------------------------------------------------------
(* The invariant holds always.                                               *)

LEMMA InvStarts ==
    ASSUME Init
    PROVE  BddInv
<1>1. /\ tmp = NewManager /\ aut = NewManager /\ use = "none" /\ marks = <<>>
      /\ op = NoOp /\ pc = "idle" /\ acts = <<>> /\ inter = <<>>
      /\ tmpMeans = <<>> /\ autMeans = <<>>
  BY DEF Init
<1>2. op.kind = "none" /\ Open = {}
  BY <1>1 DEF NoOp, Open
<1>3. /\ NewManager.table = <<>> /\ NewManager.roots = <<>> /\ NewManager.cache = <<>>
      /\ NewManager = [table |-> <<>>, roots |-> <<>>, trigger |-> FirstTrigger, cache |-> <<>>]
  BY DEF NewManager
<1>4. NewManager \in Managers
  <2>1. <<>> \in Caches
    BY EmptyCache
  <2>2. FirstTrigger \in Nat
    BY TableAssumption
  <2>3. <<>> \in Seq(Nodes) /\ <<>> \in Seq(Nat)
    OBVIOUS
  <2>4. ASSUME NEW a \in Seq(Nodes), NEW b \in Seq(Nat), NEW c \in Nat, NEW d \in Caches
        PROVE  [table |-> a, roots |-> b, trigger |-> c, cache |-> d] \in Managers
    BY DEF Managers
  <2> QED
    BY <1>3, <2>1, <2>2, <2>3, <2>4
<1> DEFINE t == NewManager.table
<1>5. DOMAIN t = {} /\ DOMAIN NewManager.cache = {} /\ t \in Seq(Nodes)
  BY <1>3, EmptyCache
<1>6. Ordered(t, {}) /\ Reduced(t)
  BY <1>5 DEF Ordered, Reduced
<1>7. RootsRight(NewManager, {}, <<>>)
  BY <1>3 DEF RootsRight
<1>8. \A kind, S : CacheRight(kind, t, t, NewManager.cache, S)
  BY <1>5 DEF CacheRight
<1>9. TmpRight(NewManager, <<>>)
  BY <1>4, <1>5, <1>6, <1>7, <1>8 DEF TmpRight, Sound
<1>10. DOMAIN t \ {} = {}
  BY <1>5
<1>11. AutRight("none", t, NewManager, <<>>, {})
  BY <1>3, <1>4, <1>5, <1>6, <1>7, <1>8, <1>10 DEF AutRight
<1>12. MarksRight("none", t, t, <<>>)
  <2>1. <<>> \in [DOMAIN t -> Nat] /\ DOMAIN <<>> = {}
    BY <1>5, EmptyCache
  <2> QED
    BY <2>1 DEF MarksRight
<1>13. UseOK
  BY <1>1, <1>2 DEF UseOK
<1>14. Phase
  BY <1>1 DEF Phase, IdleOK
<1> QED
  BY <1>1, <1>2, <1>9, <1>11, <1>12, <1>13, <1>14 DEF BddInv

LEMMA StutterKeeps ==
    ASSUME BddInv, UNCHANGED vars
    PROVE  BddInv'
<1>1. /\ tmp' = tmp /\ aut' = aut /\ use' = use /\ marks' = marks /\ op' = op /\ pc' = pc
      /\ p' = p /\ q' = q /\ res' = res /\ acts' = acts /\ inter' = inter
      /\ tmpMeans' = tmpMeans /\ autMeans' = autMeans
  BY DEF vars
<1>2. Waits' = Waits
  BY <1>1, SameWaits
<1>3. Open' = Open
  BY <1>1 DEF Open, Pending
<1>4. Target' = Target /\ Operands' = Operands
  BY <1>1 DEF Target, Hashed, Operands
<1>5. Finished' = Finished
  BY <1>3, <1>4 DEF Finished
<1>6. UseOK' /\ (IdleOK <=> IdleOK') /\ (PathOK <=> PathOK')
  BY <1>1 DEF BddInv, UseOK, IdleOK, PathOK
<1>7. WorkOK <=> WorkOK'
  BY <1>1, <1>2, <1>4, <1>5 DEF WorkOK
<1>8. Phase'
  BY <1>1, <1>6, <1>7 DEF BddInv, Phase
<1> QED
  BY <1>1, <1>3, <1>6, <1>8 DEF BddInv

LEMMA NextKeeps ==
    ASSUME BddInv, [Next]_vars
    PROVE  BddInv'
<1>1. CASE PathStart
  BY <1>1, PathStartKeeps
<1>2. CASE PathStep
  BY <1>2, PathStepKeeps
<1>3. CASE PathEnd
  BY <1>3, PathEndKeeps
<1>4. CASE ApplyHashed
  BY <1>4, ApplyHashedKeeps
<1>5. CASE Apply1
  BY <1>5, Apply1Keeps
<1>6. CASE Project
  BY <1>6, ProjectKeeps
<1>7. CASE ApplySequential
  BY <1>7, ApplySequentialKeeps
<1>8. CASE Known
  BY <1>8, KnownKeeps
<1>9. CASE AtLeaves
  BY <1>9, AtLeavesKeeps
<1>10. CASE Descend
  BY <1>10, DescendKeeps
<1>11. CASE Second
  BY <1>11, SecondKeeps
<1>12. CASE Third
  BY <1>12, ThirdKeeps
<1>13. CASE Return
  BY <1>13, ReturnKeeps
<1>14. CASE SequentialStart
  BY <1>14, SequentialStartKeeps
<1>15. CASE SequentialSecond
  BY <1>15, SequentialSecondKeeps
<1>16. CASE SequentialThird
  BY <1>16, SequentialThirdKeeps
<1>17. CASE UNCHANGED vars
  BY <1>17, StutterKeeps
<1> QED
  BY <1>1, <1>2, <1>3, <1>4, <1>5, <1>6, <1>7, <1>8, <1>9, <1>10, <1>11, <1>12, <1>13,
     <1>14, <1>15, <1>16, <1>17 DEF Next, Stopped
\* Every root denotes what was asked for, at the time it was asked for.
LEMMA RootsMeanFollows ==
    ASSUME BddInv
    PROVE  RootsMean
<1>1. TmpRight(tmp, tmpMeans) /\ AutRight(use, tmp.table, aut, autMeans, Open)
  BY InvFacts
<1>2. /\ tmp \in Managers /\ RootsRight(tmp, DOMAIN tmp.table, tmpMeans)
      /\ aut \in Managers /\ RootsRight(aut, DOMAIN aut.table \ Open, autMeans)
  BY <1>1 DEF TmpRight, AutRight
<1>3. /\ \A n \in DOMAIN tmp.roots : Means(tmp.table, tmp.roots[n]) = tmpMeans[n]
      /\ \A n \in DOMAIN aut.roots : Means(aut.table, aut.roots[n]) = autMeans[n]
  BY <1>2, RootsIn
<1> QED
  BY <1>3 DEF RootsMean, Means

\* Reduced and ordered tables have each function once.
LEMMA CanonicalFollows ==
    ASSUME BddInv
    PROVE  Canonical
<1>1. /\ Sound(tmp.table) /\ AutRight(use, tmp.table, aut, autMeans, Open)
      /\ op.kind # "sequential" => Open = {}
      /\ op.kind = "sequential" => use = "sequential"
  BY InvFacts
<1>2. ASSUME use \in {"apply1", "project"}
      PROVE  /\ Sound(aut.table) /\ aut \in Managers
             /\ RootsRight(aut, DOMAIN aut.table, autMeans)
  <2>1. Open = {}
    BY <1>1, <1>2
  <2>2. DOMAIN aut.table \ Open = DOMAIN aut.table
    BY <2>1
  <2> QED
    BY <1>1, <1>2, <2>2 DEF AutRight, Sound
<1>3. ASSUME NEW m \in Searched
      PROVE  \A a \in 1..Len(m.table) :
               LET node == m.table[a]
               IN /\ \A b \in 1..a-1 : m.table[b] # node
                  /\ node.index # LeafIndex =>
                       /\ node.lo # node.hi
                       /\ {node.lo, node.hi} \subseteq DOMAIN m.table
                       /\ node.index < m.table[node.lo].index
                       /\ node.index < m.table[node.hi].index
  <2>1. Sound(m.table)
    BY <1>1, <1>2, <1>3 DEF Searched
  <2>2. m.table \in Seq(Nodes) /\ Ordered(m.table, DOMAIN m.table) /\ Reduced(m.table)
    BY <2>1 DEF Sound, Ordered
  <2> DEFINE t == m.table
  <2>3. DOMAIN t = 1..Len(t) /\ Len(t) \in Nat
    BY <2>2
  <2> HIDE DEF t
  <2>4. ASSUME NEW a \in 1..Len(t)
        PROVE  /\ \A b \in 1..a-1 : t[b] # t[a]
               /\ t[a].index # LeafIndex =>
                    /\ t[a].lo # t[a].hi
                    /\ {t[a].lo, t[a].hi} \subseteq DOMAIN t
                    /\ t[a].index < t[t[a].lo].index
                    /\ t[a].index < t[t[a].hi].index
    <3>1. \A b \in 1..a-1 : b \in DOMAIN t /\ b # a
      BY <2>3
    <3>2. a \in DOMAIN t /\ Ordered(t, DOMAIN t) /\ Reduced(t)
      BY <2>2, <2>3 DEF t
    <3>3. t[a].index # LeafIndex => InnerAt(t, DOMAIN t, a)
      BY <3>2, OrderedFacts
    <3>4. \A b \in 1..a-1 : t[b] # t[a]
      BY <3>1, <3>2 DEF Reduced
    <3>5. t[a].index # LeafIndex => t[a].lo # t[a].hi
      BY <3>2 DEF Reduced
    <3> QED
      BY <3>3, <3>4, <3>5 DEF InnerAt
  <2> QED
    BY <2>4 DEF t
<1>4. ASSUME use \in {"apply1", "project"}, NEW m \in DOMAIN aut.roots, NEW n \in DOMAIN aut.roots
      PROVE  aut.roots[m] = aut.roots[n] <=> autMeans[m] = autMeans[n]
  <2>1. \A k \in DOMAIN aut.roots :
          /\ aut.roots[k] \in DOMAIN aut.table
          /\ Means(aut.table, aut.roots[k]) = autMeans[k]
    BY <1>2, <1>4, RootsIn
  <2>2. Ordered(aut.table, DOMAIN aut.table) /\ Reduced(aut.table)
    BY <1>2, <1>4 DEF Sound
  <2>3. autMeans[m] = autMeans[n] => aut.roots[m] = aut.roots[n]
    BY <2>1, <2>2, ReducedSame
  <2> QED
    BY <2>1, <2>3
<1> QED
  BY <1>3, <1>4 DEF Canonical

\* What is remembered is right, although the nodes have moved.
LEMMA MemoRightFollows ==
    ASSUME BddInv
    PROVE  MemoRight
<1>1. /\ TmpRight(tmp, tmpMeans) /\ AutRight(use, tmp.table, aut, autMeans, Open)
      /\ MarksRight(use, tmp.table, aut.table, marks)
  BY InvFacts
<1>2. Open \subseteq Pending
  BY DEF Open
<1>3. ASSUME NEW key \in DOMAIN tmp.cache
      PROVE  Means(tmp.table, tmp.cache[key]) = ResultIn("hashed", tmp.table, key)
  BY <1>1, <1>3 DEF TmpRight, CacheRight, EntryRight
<1>4. ASSUME NEW key \in DOMAIN aut.cache, aut.cache[key] \notin Pending
      PROVE  Means(aut.table, aut.cache[key]) = ResultIn(use, tmp.table, key)
  BY <1>1, <1>2, <1>4 DEF AutRight, CacheRight, EntryRight
<1>5. ASSUME use = "apply1", NEW a \in DOMAIN marks, marks[a] # Nowhere
      PROVE  Means(aut.table, marks[a]) = ResultIn("apply1", tmp.table, <<a, Nowhere>>)
  BY <1>1, <1>5 DEF MarksRight, EntryRight
<1> QED
  BY <1>3, <1>4, <1>5 DEF MemoRight, Means, ResultIn

\* The frames lead to the right successors, and wait for the right results.
LEMMA FramesKeepUpFollows ==
    ASSUME BddInv
    PROVE  FramesKeepUp
<1> DEFINE t == tmp.table
<1> SUFFICES ASSUME NEW n \in DOMAIN acts
             PROVE  /\ {acts[n].key[1], acts[n].key[2], acts[n].second[1], acts[n].second[2]}
                         \ {Nowhere} \subseteq DOMAIN t
                    /\ acts[n].second = Successor(acts[n], FALSE)
                    /\ Waiting(n) # GoingLeft =>
                         At(Meanings(Target.table), Waiting(n)) =
                           ResultFor(op.kind, Successor(acts[n], TRUE), Meanings(t))
  BY DEF FramesKeepUp
<1>1. pc \in {"start", "finish"} /\ op.kind # "path"
  <2>1. acts # <<>>
    BY EmptyCache
  <2> QED
    BY <2>1 DEF BddInv, Phase, IdleOK, PathOK, WorkOK, WorkRight
<1>2. /\ op.kind \in Kinds
      /\ CallsRight(op.kind, op.goal, t, Operands, Target.table, Finished, acts, Waits)
  BY <1>1, WorkFacts
<1>3. Ordered(t, Operands) /\ Operands \subseteq DOMAIN t
  BY InvFacts
<1>4. n \in 1..Len(acts)
  BY <1>2 DEF CallsRight
<1>5. /\ FrameRight(op.kind, t, Operands, Target.table, Finished, acts[n], Waits[n])
      /\ acts[n] \in Frames /\ acts[n].index \in 0..Vars-1
  BY <1>2, <1>3, <1>4, FrameFacts
<1> DEFINE key == acts[n].key
           i == acts[n].index
<1>6. /\ KeyOK(op.kind, t, Operands, key) /\ Proper(op.kind, t, key)
      /\ i = KeyIndex(t, key) /\ i < Vars /\ acts[n].second = SuccIn(t, key, i, FALSE)
      /\ Waits[n] # GoingLeft =>
           Means(Target.table, Waits[n]) = ResultIn(op.kind, t, SuccIn(t, key, i, TRUE))
  BY <1>5 DEF FrameRight
<1>7. \A left \in BOOLEAN : SuccIn(t, key, i, left) = Successor(acts[n], left)
  BY DEF SuccIn, SideIn, Successor, Side
<1>8. Waits[n] = Waiting(n)
  BY DEF Waits
<1>9. /\ key[1] \in Operands
      /\ key[2] = Nowhere \/ key[2] \in Operands
  BY <1>2, <1>3, <1>6, KeyFacts
<1> HIDE DEF key, i, t
<1>10. KeyOK(op.kind, t, Operands, SuccIn(t, key, i, FALSE))
  BY <1>2, <1>3, <1>6, SuccFacts
<1>11. /\ acts[n].second[1] \in Operands
       /\ acts[n].second[2] = Nowhere \/ acts[n].second[2] \in Operands
  <2> DEFINE second == SuccIn(t, key, i, FALSE)
  <2>1. KeyOK(op.kind, t, Operands, second) /\ acts[n].second = second
    BY <1>6, <1>10
  <2> HIDE DEF second
  <2>2. second[1] \in Operands /\ (second[2] = Nowhere \/ second[2] \in Operands)
    BY <1>2, <1>3, <2>1, KeyFacts
  <2> QED
    BY <2>1, <2>2
<1>12. {key[1], key[2], acts[n].second[1], acts[n].second[2]} \ {Nowhere} \subseteq DOMAIN t
  BY <1>3, <1>9, <1>11
<1>13. acts[n].second = Successor(acts[n], FALSE)
  BY <1>6, <1>7
<1>14. Waiting(n) # GoingLeft =>
         At(Meanings(Target.table), Waiting(n)) =
           ResultFor(op.kind, Successor(acts[n], TRUE), Meanings(t))
  BY <1>6, <1>7, <1>8 DEF Means, ResultIn
<1> QED
  BY <1>12, <1>13, <1>14 DEF key

-----------------------------------------------------------------------------
\* In every state of the BDD package the tables are ordered (and reduced, where
\* nodes are looked for), what is remembered is right, and every call under
\* way, with what it waits for, leads to the goal of its caller.
THEOREM InvAlways == Spec => []BddInv
<1>1. Init => BddInv
  BY InvStarts
<1>2. BddInv /\ [Next]_vars => BddInv'
  BY NextKeeps
<1> QED
  BY <1>1, <1>2, PTL DEF Spec

\* A root of either table denotes what the caller of makepath, bdd_apply1,
\* bdd_project or bdd_apply2 asked for, however often the table was doubled
\* while it was made and afterwards.
THEOREM RootsMeanAlways == Spec => []RootsMean
<1>1. BddInv => RootsMean
  BY RootsMeanFollows
<1> QED
  BY <1>1, InvAlways, PTL

\* bdd_find_node_hashed keeps the tables ordered and without duplicates or idle
\* tests, so that the roots dfaMinimize compares are the same if and only if
\* they denote the same.
THEOREM CanonicalAlways == Spec => []Canonical
<1>1. BddInv => Canonical
  BY CanonicalFollows
<1> QED
  BY <1>1, InvAlways, PTL

\* No mark and no entry of a result cache is ever stale: what lookup_cache and
\* the mark of apply1 give is the result for these nodes, although the tables
\* were doubled since.
THEOREM MemoRightAlways == Spec => []MemoRight
<1>1. BddInv => MemoRight
  BY MemoRightFollows
<1> QED
  BY <1>1, InvAlways, PTL

\* update_activation_stack and the list "intermediate" keep the calls under way
\* right: each names the nodes it is for and their right successors, and waits
\* for the result of the left ones.
THEOREM FramesKeepUpAlways == Spec => []FramesKeepUp
<1>1. BddInv => FramesKeepUp
  BY FramesKeepUpFollows
<1> QED
  BY <1>1, InvAlways, PTL
=============================================================================
