------------------------- MODULE DfaMinimizeProofs -------------------------
(***************************************************************************)
(* Proofs about DfaMinimize, for all automata: the result is a quotient,   *)
(* no two states that a bisimulation relates are ever told apart, and the  *)
(* states that no word tells apart are so related, so that it is minimal.  *)
(*                                                                         *)
(* That the result is a quotient is not obvious from the code: transitions *)
(* are written with the numbers of one round and states with those of the  *)
(* next, and the loop ends because the number of blocks did not grow.  Why *)
(* the numbers are then the same: a round only ever splits blocks          *)
(* (Coarser), both rounds number blocks in the order in which they are     *)
(* met (InOrder), and so the numbers of a round run alike with those of    *)
(* the round before until a block is split, and from then on there are     *)
(* more of them (Alongside).                                               *)
(***************************************************************************)
EXTENDS DfaMinimize, TLAPS, WellFoundedInduction, FiniteSetTheorems

Renumbered == 0..Len(discrs)-1

GivenOK == IsAutomaton(given)

\* A round never puts together what the round before had apart.
Coarser ==
    \A p, r \in States(given) : KeyAt(p) = KeyAt(r) => before[p] = before[r]

\* Blocks were numbered in the order in which they were met.
InOrder ==
    \A p \in States(given) :
      before[p] = 0 \/ \E r \in States(given) : r < p /\ before[r] + 1 = before[p]

BeforeOK ==
    /\ before \in [States(given) -> Nat]
    /\ Coarser /\ InOrder

\* The numbers given in this round, for the states that have one.
DiscrsOK ==
    /\ discrs \in Seq(Nat) /\ Len(discrs) <= given.ns
    /\ keys \in Seq([Letters -> Nat] \X Statuses)
    /\ \A p \in Renumbered : /\ discrs[p + 1] + 1 \in 1..Len(keys)
                             /\ keys[discrs[p + 1] + 1] = KeyAt(p)
    /\ \A m, n \in 1..Len(keys) : keys[m] = keys[n] => m = n

\* A block has a last state, and the blocks are numbered in order.
BlocksOK ==
    /\ \A n \in 0..Len(keys)-1 :
         \E p \in Renumbered :
           /\ discrs[p + 1] = n
           /\ \A r \in Renumbered : discrs[r + 1] = n => r <= p
    /\ \A p \in Renumbered :
         discrs[p + 1] = 0 \/ \E r \in Renumbered : /\ r < p
                                                    /\ discrs[r + 1] + 1 = discrs[p + 1]

Same == \A p \in Renumbered : discrs[p + 1] = before[p]
More == \A p \in Renumbered : before[p] + 1 < Len(keys)

Alongside == Same \/ More

\* oldBlocks numbers were given in the round before, unless there was only
\* one block then: oldBlocks is 2 after the first call whatever it found.
OldOK ==
    /\ oldBlocks \in Nat /\ again \in BOOLEAN
    /\ again => \/ \E p \in States(given) : before[p] + 1 >= oldBlocks
                \/ \A p \in States(given) : before[p] = 0 /\ given.f[p] = given.f[0]

MinimizeInv == GivenOK /\ BeforeOK /\ DiscrsOK /\ BlocksOK /\ Alongside /\ OldOK

-----------------------------------------------------------------------------
LEMMA AppendFacts ==
    ASSUME NEW S, NEW s \in Seq(S), NEW x \in S
    PROVE  /\ Append(s, x) \in Seq(S)
           /\ Len(s) \in Nat
           /\ Len(Append(s, x)) = Len(s) + 1
           /\ \A n \in 1..Len(s) : Append(s, x)[n] = s[n]
           /\ Append(s, x)[Len(s) + 1] = x
OBVIOUS

LEMMA StateFacts ==
    ASSUME GivenOK
    PROVE  /\ given.ns \in Nat /\ given.ns >= 1
           /\ States(given) = 0..given.ns-1
           /\ \A p \in States(given) : /\ given.f[p] \in Statuses
                                       /\ \A l \in Letters : given.q[p][l] \in States(given)
<1>1. given.ns \in Nat /\ given.ns >= 1 /\ States(given) = 0..given.ns-1
  BY DEF GivenOK, IsAutomaton, States
<1>2. /\ given.q \in [States(given) -> [Letters -> States(given)]]
      /\ given.f \in [States(given) -> Statuses]
  BY DEF GivenOK, IsAutomaton
<1>3. \A p \in States(given) : /\ given.f[p] \in Statuses
                              /\ given.q[p] \in [Letters -> States(given)]
  BY <1>2
<1> QED
  BY <1>1, <1>3

LEMMA KeyType ==
    ASSUME GivenOK, BeforeOK, NEW p \in States(given)
    PROVE  KeyAt(p) \in [Letters -> Nat] \X Statuses
<1>1. Mapped(p) \in [Letters -> Nat]
  BY StateFacts DEF Mapped, BeforeOK
<1> QED
  BY <1>1, StateFacts DEF KeyAt

LEMMA BelowIsState ==
    ASSUME GivenOK, NEW m \in States(given), NEW p \in Nat, p < m
    PROVE  p \in States(given)
<1>1. given.ns \in Nat /\ States(given) = 0..given.ns-1
  BY StateFacts
<1> QED
  BY <1>1

\* What it means that two states have the same key.
LEMMA SameKey ==
    ASSUME NEW p, NEW r
    PROVE  KeyAt(p) = KeyAt(r) <=>
             /\ \A l \in Letters : before[given.q[p][l]] = before[given.q[r][l]]
             /\ given.f[p] = given.f[r]
<1>1. KeyAt(p) = KeyAt(r) <=> Mapped(p) = Mapped(r) /\ given.f[p] = given.f[r]
  BY DEF KeyAt
<1>2. Mapped(p) = Mapped(r) <=>
        \A l \in Letters : before[given.q[p][l]] = before[given.q[r][l]]
  <2>1. ASSUME Mapped(p) = Mapped(r), NEW l \in Letters
        PROVE  before[given.q[p][l]] = before[given.q[r][l]]
    <3>1. Mapped(p)[l] = Mapped(r)[l]
      BY <2>1
    <3> QED
      BY <3>1 DEF Mapped
  <2>2. ASSUME \A l \in Letters : before[given.q[p][l]] = before[given.q[r][l]]
        PROVE  Mapped(p) = Mapped(r)
    BY <2>2 DEF Mapped
  <2> QED
    BY <2>1, <2>2
<1> QED
  BY <1>1, <1>2

\* What the numbers given so far are.
LEMMA NumberFacts ==
    ASSUME DiscrsOK, NEW p \in Renumbered
    PROVE  /\ p \in Nat /\ p < Len(discrs)
           /\ discrs[p + 1] \in Nat /\ discrs[p + 1] < Len(keys)
<1>1. /\ discrs \in Seq(Nat) /\ Len(discrs) \in Nat /\ Len(keys) \in Nat
      /\ discrs[p + 1] + 1 \in 1..Len(keys)
  BY DEF DiscrsOK
<1>2. p \in Nat /\ p < Len(discrs) /\ p + 1 \in 1..Len(discrs)
  BY <1>1 DEF Renumbered
<1>3. discrs[p + 1] \in Nat
  BY <1>1, <1>2
<1> QED
  BY <1>1, <1>2, <1>3

\* States with one key have one number.
LEMMA OneNumber ==
    ASSUME DiscrsOK, NEW p \in Renumbered, NEW r \in Renumbered
    PROVE  KeyAt(p) = KeyAt(r) <=> discrs[p + 1] = discrs[r + 1]
<1>1. /\ discrs[p + 1] + 1 \in 1..Len(keys) /\ keys[discrs[p + 1] + 1] = KeyAt(p)
      /\ discrs[r + 1] + 1 \in 1..Len(keys) /\ keys[discrs[r + 1] + 1] = KeyAt(r)
  BY DEF DiscrsOK
<1>2. discrs[p + 1] \in Nat /\ discrs[r + 1] \in Nat
  BY DEF DiscrsOK, Renumbered
<1>3. discrs[p + 1] + 1 = discrs[r + 1] + 1 => discrs[p + 1] = discrs[r + 1]
  BY <1>2
<1> QED
  BY <1>1, <1>3 DEF DiscrsOK

-----------------------------------------------------------------------------
LEMMA InitInv == MinimizeInit => MinimizeInv
<1> SUFFICES ASSUME MinimizeInit
             PROVE  MinimizeInv
  OBVIOUS
<1>1. /\ GivenOK
      /\ before = [p \in States(given) |-> 0]
      /\ discrs = <<>> /\ keys = <<>>
      /\ oldBlocks = 0 /\ again = FALSE
  BY DEF MinimizeInit, GivenOK
<1>2. Renumbered = {} /\ 0..Len(keys)-1 = {}
  BY <1>1 DEF Renumbered
<1>3. BeforeOK
  BY <1>1 DEF BeforeOK, Coarser, InOrder
<1>4. DiscrsOK /\ BlocksOK
  BY <1>1, <1>2, StateFacts DEF DiscrsOK, BlocksOK
<1>5. Alongside /\ OldOK
  BY <1>1, <1>2 DEF Alongside, Same, OldOK
<1> QED
  BY <1>1, <1>3, <1>4, <1>5 DEF MinimizeInv

\* What one turn of rename_partition does: the state m gets the number x,
\* which is that of its key.
LEMMA RenameFacts ==
    ASSUME MinimizeInv, Rename, NEW m, m = Len(discrs), NEW x,
           x = KeyPlace(keys', KeyAt(m)) - 1
    PROVE  /\ m \in States(given) /\ m \in Nat
           /\ discrs \in Seq(Nat) /\ Len(keys) \in Nat
           /\ x \in Nat
           /\ discrs' \in Seq(Nat) /\ Len(discrs') = m + 1
           /\ \A p \in Renumbered : discrs'[p + 1] = discrs[p + 1]
           /\ discrs'[m + 1] = x
           /\ keys' \in Seq([Letters -> Nat] \X Statuses)
           /\ \A n \in 1..Len(keys) : keys'[n] = keys[n]
           /\ x + 1 \in 1..Len(keys') /\ keys'[x + 1] = KeyAt(m)
           /\ \A j, k \in 1..Len(keys') : keys'[j] = keys'[k] => j = k
           /\ \/ /\ keys' = keys /\ x < Len(keys)
                 /\ \E p \in Renumbered : discrs[p + 1] = x /\ KeyAt(p) = KeyAt(m)
              \/ Len(keys') = Len(keys) + 1 /\ x = Len(keys)
           /\ UNCHANGED <<given, before, oldBlocks, again>>
<1>0. GivenOK /\ BeforeOK /\ DiscrsOK /\ BlocksOK
  BY DEF MinimizeInv
<1> DEFINE key == KeyAt(m)
<1>1. /\ m < given.ns
      /\ keys' = IF \E n \in 1..Len(keys) : keys[n] = key
                 THEN keys ELSE Append(keys, key)
      /\ discrs' = Append(discrs, x)
      /\ UNCHANGED <<given, before, oldBlocks, again>>
  BY DEF Rename, Renaming
<1>2. /\ discrs \in Seq(Nat) /\ m \in Nat
      /\ keys \in Seq([Letters -> Nat] \X Statuses) /\ Len(keys) \in Nat
  BY <1>0 DEF DiscrsOK
<1>3. m \in States(given)
  BY <1>0, <1>1, <1>2, StateFacts
<1>4. key \in [Letters -> Nat] \X Statuses
  BY <1>0, <1>3, KeyType
<1> HIDE DEF key
<1>5. /\ keys' \in Seq([Letters -> Nat] \X Statuses)
      /\ Len(keys') \in Nat
      /\ \A n \in 1..Len(keys) : keys'[n] = keys[n]
      /\ \E n \in 1..Len(keys') : keys'[n] = key
      /\ \A j, k \in 1..Len(keys') : keys'[j] = keys'[k] => j = k
      /\ \/ keys' = keys
         \/ /\ Len(keys') = Len(keys) + 1 /\ keys'[Len(keys) + 1] = key
            /\ \A n \in 1..Len(keys) : keys[n] # key
  <2>1. CASE \E n \in 1..Len(keys) : keys[n] = key
    BY <1>0, <1>1, <1>2, <2>1 DEF DiscrsOK
  <2>2. CASE ~\E n \in 1..Len(keys) : keys[n] = key
    <3>1. keys' = Append(keys, key)
      BY <1>1, <2>2
    <3>2. /\ keys' \in Seq([Letters -> Nat] \X Statuses)
          /\ Len(keys') = Len(keys) + 1
          /\ \A n \in 1..Len(keys) : keys'[n] = keys[n]
          /\ keys'[Len(keys) + 1] = key
      BY <1>2, <1>4, <3>1, AppendFacts
    <3>3. ASSUME NEW j \in 1..Len(keys'), NEW k \in 1..Len(keys'), keys'[j] = keys'[k]
          PROVE  j = k
      <4>1. /\ j \in 1..Len(keys) \/ j = Len(keys) + 1
            /\ k \in 1..Len(keys) \/ k = Len(keys) + 1
        BY <1>2, <3>2
      <4> QED
        BY <1>0, <1>2, <2>2, <3>2, <3>3, <4>1 DEF DiscrsOK
    <3>4. Len(keys) + 1 \in 1..Len(keys') /\ Len(keys') \in Nat
      BY <1>2, <3>2
    <3>5. \E n \in 1..Len(keys') : keys'[n] = key
      BY <3>2, <3>4
    <3>6. \A n \in 1..Len(keys) : keys[n] # key
      BY <2>2
    <3> QED
      BY <3>2, <3>3, <3>4, <3>5, <3>6
  <2> QED
    BY <2>1, <2>2
<1>6. KeyPlace(keys', key) \in 1..Len(keys') /\ keys'[KeyPlace(keys', key)] = key
  BY <1>5 DEF KeyPlace
<1>7. x \in Nat /\ x + 1 \in 1..Len(keys') /\ keys'[x + 1] = key
  <2>1. x = KeyPlace(keys', key) - 1
    BY DEF key
  <2> QED
    BY <1>5, <1>6, <2>1
<1>8. /\ discrs' \in Seq(Nat) /\ Len(discrs') = m + 1
      /\ \A n \in 1..Len(discrs) : discrs'[n] = discrs[n]
      /\ discrs'[m + 1] = x
  <2>1. discrs' = Append(discrs, x) /\ discrs \in Seq(Nat) /\ x \in Nat
    BY <1>1, <1>2, <1>7
  <2>2. /\ discrs' \in Seq(Nat) /\ Len(discrs') = Len(discrs) + 1
        /\ \A n \in 1..Len(discrs) : discrs'[n] = discrs[n]
        /\ discrs'[Len(discrs) + 1] = x
    BY <2>1, AppendFacts
  <2> QED
    BY <2>2
<1>9. \A p \in Renumbered : discrs'[p + 1] = discrs[p + 1]
  BY <1>2, <1>8 DEF Renumbered
<1>10. \/ /\ keys' = keys /\ x < Len(keys)
          /\ \E p \in Renumbered : discrs[p + 1] = x /\ KeyAt(p) = KeyAt(m)
       \/ Len(keys') = Len(keys) + 1 /\ x = Len(keys)
  <2>1. CASE keys' = keys
    <3>1. x \in 0..Len(keys)-1 /\ x < Len(keys)
      BY <1>2, <1>7, <2>1
    <3>2. PICK p \in Renumbered : discrs[p + 1] = x
      BY <1>0, <3>1 DEF BlocksOK
    <3>3. KeyAt(p) = KeyAt(m)
      BY <1>0, <1>7, <2>1, <3>2 DEF DiscrsOK, key
    <3> QED
      BY <2>1, <3>1, <3>2, <3>3
  <2>2. CASE /\ Len(keys') = Len(keys) + 1 /\ keys'[Len(keys) + 1] = key
             /\ \A n \in 1..Len(keys) : keys[n] # key
    <3>1. Len(keys) + 1 \in 1..Len(keys')
      BY <1>2, <2>2
    <3>2. x + 1 = Len(keys) + 1
      BY <1>5, <1>7, <2>2, <3>1
    <3> QED
      BY <1>2, <1>7, <2>2, <3>2
  <2> QED
    BY <1>5, <2>1, <2>2
<1> QED
  BY <1>1, <1>2, <1>3, <1>5, <1>7, <1>8, <1>9, <1>10 DEF key

LEMMA KeyStays ==
    ASSUME UNCHANGED <<given, before>>
    PROVE  \A p : KeyAt(p)' = KeyAt(p)
BY DEF KeyAt, Mapped

LEMMA RenameInv == MinimizeInv /\ Rename => MinimizeInv'
<1> SUFFICES ASSUME MinimizeInv, Rename
             PROVE  MinimizeInv'
  OBVIOUS
<1>0. /\ GivenOK /\ BeforeOK /\ DiscrsOK /\ BlocksOK /\ Alongside /\ OldOK
  BY DEF MinimizeInv
<1> DEFINE m == Len(discrs)
           x == KeyPlace(keys', KeyAt(m)) - 1
<1>1. /\ m \in States(given) /\ m \in Nat
      /\ discrs \in Seq(Nat) /\ Len(keys) \in Nat
      /\ x \in Nat
      /\ discrs' \in Seq(Nat) /\ Len(discrs') = m + 1
      /\ \A p \in Renumbered : discrs'[p + 1] = discrs[p + 1]
      /\ discrs'[m + 1] = x
      /\ keys' \in Seq([Letters -> Nat] \X Statuses)
      /\ \A n \in 1..Len(keys) : keys'[n] = keys[n]
      /\ x + 1 \in 1..Len(keys') /\ keys'[x + 1] = KeyAt(m)
      /\ \A j, k \in 1..Len(keys') : keys'[j] = keys'[k] => j = k
      /\ \/ /\ keys' = keys /\ x < Len(keys)
            /\ \E p \in Renumbered : discrs[p + 1] = x /\ KeyAt(p) = KeyAt(m)
         \/ Len(keys') = Len(keys) + 1 /\ x = Len(keys)
      /\ UNCHANGED <<given, before, oldBlocks, again>>
  BY RenameFacts
<1> HIDE DEF x
<1>2. /\ Renumbered = 0..m-1
      /\ Renumbered' = 0..m
      /\ \A p \in Renumbered' : p \in Renumbered \/ p = m
      /\ \A p \in Renumbered : p \in Renumbered' /\ p < m /\ p \in Nat
      /\ m \in Renumbered'
      /\ \A p \in Renumbered : discrs[p + 1] \in Nat /\ discrs[p + 1] < Len(keys)
  <2>1. /\ Renumbered = 0..m-1 /\ Renumbered' = 0..m
    BY <1>1 DEF Renumbered
  <2>2. \A p \in Renumbered : discrs[p + 1] \in Nat /\ discrs[p + 1] < Len(keys)
    BY <1>0, NumberFacts
  <2> HIDE DEF m
  <2>3. /\ \A p \in Renumbered' : p \in Renumbered \/ p = m
        /\ \A p \in Renumbered : p \in Renumbered' /\ p < m /\ p \in Nat
        /\ m \in Renumbered'
    BY <1>1, <2>1
  <2> QED
    BY <2>1, <2>2, <2>3
<1> HIDE DEF m
<1>3. /\ \A p : KeyAt(p)' = KeyAt(p)
      /\ \A p : Mapped(p)' = Mapped(p)
  BY <1>1, KeyStays DEF Mapped
<1>4. GivenOK' /\ BeforeOK'
  <2>1. GivenOK'
    BY <1>0, <1>1 DEF GivenOK
  <2>2. Coarser'
    BY <1>0, <1>1, <1>3 DEF BeforeOK, Coarser
  <2> QED
    BY <1>0, <1>1, <2>1, <2>2 DEF BeforeOK, InOrder
<1>5. DiscrsOK'
  <2>1. ASSUME NEW p \in Renumbered'
        PROVE  discrs'[p + 1] + 1 \in 1..Len(keys') /\ keys'[discrs'[p + 1] + 1] = KeyAt(p)
    <3>1. CASE p \in Renumbered
      <4>1. /\ discrs[p + 1] + 1 \in 1..Len(keys)
            /\ keys[discrs[p + 1] + 1] = KeyAt(p)
        BY <1>0, <3>1 DEF DiscrsOK
      <4>2. discrs'[p + 1] = discrs[p + 1]
        BY <1>1, <3>1
      <4>3. discrs[p + 1] + 1 \in 1..Len(keys')
        <5>1. Len(keys') \in Nat /\ Len(keys) <= Len(keys')
          BY <1>1
        <5> QED
          BY <1>1, <4>1, <5>1
      <4>4. keys'[discrs[p + 1] + 1] = keys[discrs[p + 1] + 1]
        BY <1>1, <4>1
      <4> QED
        BY <4>1, <4>2, <4>3, <4>4
    <3>2. CASE p = m
      BY <1>1, <3>2
    <3> QED
      BY <1>2, <3>1, <3>2
  <2>2. Len(discrs') <= given'.ns
    BY <1>0, <1>1, StateFacts
  <2> QED
    BY <1>1, <1>3, <2>1, <2>2 DEF DiscrsOK
<1>6. BlocksOK'
  <2>1. ASSUME NEW n \in 0..Len(keys')-1
        PROVE  \E p \in Renumbered' :
                 /\ discrs'[p + 1] = n
                 /\ \A r \in Renumbered' : discrs'[r + 1] = n => r <= p
    <3>1. CASE n = x
      BY <1>1, <1>2, <3>1
    <3>2. CASE n # x
      <4>1. n \in 0..Len(keys)-1
        BY <1>1, <3>2
      <4>2. PICK p \in Renumbered :
              /\ discrs[p + 1] = n
              /\ \A r \in Renumbered : discrs[r + 1] = n => r <= p
        BY <1>0, <4>1 DEF BlocksOK
      <4>3. p \in Renumbered' /\ discrs'[p + 1] = n
        BY <1>1, <1>2, <4>2
      <4>4. \A r \in Renumbered' : discrs'[r + 1] = n => r <= p
        BY <1>1, <1>2, <3>2, <4>2
      <4> QED
        BY <4>3, <4>4
    <3> QED
      BY <3>1, <3>2
  <2>2. ASSUME NEW p \in Renumbered'
        PROVE  \/ discrs'[p + 1] = 0
               \/ \E r \in Renumbered' : r < p /\ discrs'[r + 1] + 1 = discrs'[p + 1]
    <3>1. ASSUME NEW o \in Renumbered, discrs[o + 1] # 0
          PROVE  \E r \in Renumbered' : r < o /\ discrs'[r + 1] + 1 = discrs[o + 1]
      <4>1. PICK r \in Renumbered : r < o /\ discrs[r + 1] + 1 = discrs[o + 1]
        BY <1>0, <3>1 DEF BlocksOK
      <4>2. r \in Renumbered' /\ discrs'[r + 1] = discrs[r + 1]
        BY <1>1, <1>2, <4>1
      <4> QED
        BY <4>1, <4>2
    <3>2. CASE p \in Renumbered
      BY <1>1, <3>1, <3>2
    <3>3. CASE p = m /\ keys' = keys
      <4>1. PICK o \in Renumbered : discrs[o + 1] = x
        BY <1>1, <3>3
      <4>2. o < m /\ o \in Nat /\ discrs'[p + 1] = x
        BY <1>1, <1>2, <3>3
      <4>3. CASE x = 0
        BY <4>2, <4>3
      <4>4. CASE x # 0
        <5>1. PICK r \in Renumbered' : r < o /\ discrs'[r + 1] + 1 = x
          BY <3>1, <4>1, <4>4
        <5>2. r < p
          BY <1>1, <1>2, <3>3, <4>2, <5>1
        <5> QED
          BY <4>2, <5>1, <5>2
      <4> QED
        BY <4>3, <4>4
    <3>4. CASE p = m /\ x = Len(keys)
      <4>1. CASE x = 0
        BY <1>1, <3>4, <4>1
      <4>2. CASE x # 0
        <5>1. Len(keys) - 1 \in 0..Len(keys)-1
          BY <1>1, <3>4, <4>2
        <5>2. PICK r \in Renumbered : discrs[r + 1] = Len(keys) - 1
          BY <1>0, <5>1 DEF BlocksOK
        <5>3. r \in Renumbered' /\ r < p /\ discrs'[r + 1] + 1 = discrs'[p + 1]
          BY <1>1, <1>2, <3>4, <5>2
        <5> QED
          BY <5>3
      <4> QED
        BY <4>1, <4>2
    <3> QED
      BY <1>1, <1>2, <3>2, <3>3, <3>4
  <2> QED
    BY <2>1, <2>2 DEF BlocksOK
<1>a. \A p \in Renumbered : p \in States(given)
  BY <1>0, <1>1, <1>2, BelowIsState
<1>7. Alongside'
  <2>0. before' = before /\ \A p \in States(given) : before[p] \in Nat
    BY <1>0, <1>1 DEF BeforeOK
  <2>1. CASE keys' = keys
    <3>1. PICK p \in Renumbered : discrs[p + 1] = x /\ KeyAt(p) = KeyAt(m)
      BY <1>1, <2>1
    <3>2. before[m] = before[p]
      <4>1. p \in States(given)
        BY <1>a
      <4> QED
        BY <1>0, <1>1, <3>1, <4>1 DEF BeforeOK, Coarser
    <3>3. Same => Same'
      BY <1>1, <1>2, <2>0, <3>1, <3>2 DEF Same
    <3>4. More => More'
      BY <1>1, <1>2, <2>0, <2>1, <3>2 DEF More
    <3> QED
      BY <1>0, <3>3, <3>4 DEF Alongside
  <2>2. CASE Len(keys') = Len(keys) + 1 /\ x = Len(keys)
    <3>1. before[m] = 0 \/ \E r \in Renumbered : before[r] + 1 = before[m]
      <4>1. \A r \in States(given) : r < m => r \in Renumbered
        BY <1>0, <1>1, <1>2, StateFacts
      <4> QED
        BY <1>0, <1>1, <4>1 DEF BeforeOK, InOrder
    <3>2. before[m] \in Nat /\ \A p \in Renumbered : before[p] \in Nat
      BY <1>1, <1>a, <2>0
    <3>3. CASE Same
      <4>1. \A p \in Renumbered : before[p] < Len(keys)
        BY <1>2, <3>3 DEF Same
      <4>2. before[m] <= Len(keys)
        BY <1>1, <3>1, <3>2, <4>1
      <4>3. CASE before[m] = Len(keys)
        BY <1>1, <1>2, <2>0, <2>2, <3>3, <4>3 DEF Same, Alongside
      <4>4. CASE before[m] < Len(keys)
        <5>1. ASSUME NEW p \in Renumbered'
              PROVE  before[p] + 1 < Len(keys')
          <6>1. p \in Renumbered \/ p = m
            BY <1>2
          <6>2. before[p] \in Nat /\ before[p] < Len(keys)
            BY <3>2, <4>1, <4>4, <6>1
          <6>3. Len(keys) \in Nat /\ Len(keys') = Len(keys) + 1
            BY <1>1, <2>2
          <6> QED
            BY <6>2, <6>3
        <5> QED
          BY <2>0, <5>1 DEF More, Alongside
      <4> QED
        BY <1>1, <3>2, <4>2, <4>3, <4>4
    <3>4. CASE More /\ m # 0
      <4>0. /\ Len(keys) \in Nat /\ Len(keys') = Len(keys) + 1
            /\ \A p \in Renumbered : before[p] \in Nat /\ before[p] + 1 < Len(keys)
        BY <1>1, <2>2, <3>2, <3>4 DEF More
      <4>1. before[m] + 1 < Len(keys')
        <5>1. CASE before[m] = 0
          <6>1. Len(keys) # 0
            <7>1. 0 \in Renumbered
              BY <1>1, <1>2, <3>4
            <7> QED
              BY <4>0, <7>1
          <6> QED
            BY <4>0, <5>1, <6>1
        <5>2. CASE \E r \in Renumbered : before[r] + 1 = before[m]
          <6>1. PICK r \in Renumbered : before[r] + 1 = before[m]
            BY <5>2
          <6> QED
            BY <3>2, <4>0, <6>1
        <5> QED
          BY <3>1, <5>1, <5>2
      <4>2. \A p \in Renumbered' : before[p] + 1 < Len(keys')
        <5> TAKE p \in Renumbered'
        <5>1. p \in Renumbered \/ p = m
          BY <1>2
        <5> QED
          BY <4>0, <4>1, <5>1
      <4> QED
        BY <2>0, <4>2 DEF More, Alongside
    <3>5. m = 0 => Same
      BY <1>2 DEF Same
    <3> QED
      BY <1>0, <3>3, <3>4, <3>5 DEF Alongside
  <2> QED
    BY <1>1, <2>1, <2>2
<1>8. OldOK'
  BY <1>0, <1>1 DEF OldOK
<1> QED
  BY <1>4, <1>5, <1>6, <1>7, <1>8 DEF MinimizeInv

\* The numbers of a round become those that transitions are mapped to.
LEMMA RefineInv == MinimizeInv /\ Refine => MinimizeInv'
<1> SUFFICES ASSUME MinimizeInv, Refine
             PROVE  MinimizeInv'
  OBVIOUS
<1>0. GivenOK /\ BeforeOK /\ DiscrsOK /\ BlocksOK /\ Alongside /\ OldOK
  BY DEF MinimizeInv
<1>1. /\ Len(discrs) = given.ns
      /\ before' = [p \in States(given) |-> discrs[p + 1]]
      /\ oldBlocks' = NewBlocks /\ again' = TRUE
      /\ discrs' = <<>> /\ keys' = <<>>
      /\ given' = given
  BY DEF Refine, Renamed
<1>2. /\ Renumbered = States(given) /\ given.ns \in Nat /\ given.ns >= 1
      /\ discrs \in Seq(Nat) /\ Len(keys) \in Nat
      /\ 0 \in Renumbered
  BY <1>0, <1>1, StateFacts DEF Renumbered, DiscrsOK
<1>3. GivenOK' /\ States(given)' = States(given)
  BY <1>0, <1>1 DEF GivenOK, States
<1>4. \A p \in States(given) : /\ before'[p] = discrs[p + 1]
                               /\ discrs[p + 1] \in Nat
                               /\ discrs[p + 1] < Len(keys)
  BY <1>0, <1>1, <1>2, NumberFacts
<1>5. Coarser'
  <2>1. ASSUME NEW p \in States(given), NEW r \in States(given),
               \A l \in Letters : before'[given.q[p][l]] = before'[given.q[r][l]],
               given.f[p] = given.f[r]
        PROVE  before'[p] = before'[r]
    <3>1. ASSUME NEW l \in Letters
          PROVE  before[given.q[p][l]] = before[given.q[r][l]]
      <4>1. given.q[p][l] \in States(given) /\ given.q[r][l] \in States(given)
        BY <1>0, StateFacts
      <4>2. discrs[given.q[p][l] + 1] = discrs[given.q[r][l] + 1]
        BY <1>4, <2>1, <4>1
      <4>3. KeyAt(given.q[p][l]) = KeyAt(given.q[r][l])
        BY <1>0, <1>2, <4>1, <4>2, OneNumber
      <4> QED
        BY <1>0, <4>1, <4>3 DEF BeforeOK, Coarser
    <3>2. KeyAt(p) = KeyAt(r)
      BY <2>1, <3>1, SameKey
    <3>3. discrs[p + 1] = discrs[r + 1]
      BY <1>0, <1>2, <3>2, OneNumber
    <3> QED
      BY <1>4, <3>3
  <2>2. \A p, r : (KeyAt(p) = KeyAt(r))' =>
                    /\ \A l \in Letters : before'[given.q[p][l]] = before'[given.q[r][l]]
                    /\ given.f[p] = given.f[r]
    <3>1. ASSUME NEW p, NEW r, (KeyAt(p) = KeyAt(r))'
          PROVE  /\ \A l \in Letters : before'[given.q[p][l]] = before'[given.q[r][l]]
                 /\ given.f[p] = given.f[r]
      <4>1. (KeyAt(p) = KeyAt(r) <=>
               /\ \A l \in Letters : before[given.q[p][l]] = before[given.q[r][l]]
               /\ given.f[p] = given.f[r])'
        BY SameKey, PTL
      <4> QED
        BY <1>1, <3>1, <4>1
    <3> QED
      BY <3>1
  <2> QED
    BY <1>3, <2>1, <2>2 DEF Coarser
<1>6. InOrder'
  <2>1. ASSUME NEW p \in States(given)
        PROVE  \/ before'[p] = 0
               \/ \E r \in States(given) : r < p /\ before'[r] + 1 = before'[p]
    <3>1. \/ discrs[p + 1] = 0
          \/ \E r \in States(given) : r < p /\ discrs[r + 1] + 1 = discrs[p + 1]
      BY <1>0, <1>2 DEF BlocksOK
    <3> QED
      BY <1>4, <3>1
  <2> QED
    BY <1>3, <2>1 DEF InOrder
<1>7. BeforeOK'
  <2>1. before' \in [States(given) -> Nat]
    BY <1>1, <1>4
  <2> QED
    BY <1>3, <1>5, <1>6, <2>1 DEF BeforeOK
<1>8. Renumbered' = {} /\ 0..Len(keys')-1 = {}
  BY <1>1 DEF Renumbered
<1>9. DiscrsOK' /\ BlocksOK' /\ Alongside'
  BY <1>1, <1>2, <1>8 DEF DiscrsOK, BlocksOK, Alongside, Same
<1>10. OldOK'
  <2>1. Len(keys) >= 1
    BY <1>2, <1>4
  <2>2. CASE again \/ Len(keys) >= 2
    <3>1. Len(keys) - 1 \in 0..Len(keys)-1
      BY <1>2, <2>1
    <3>2. PICK p \in States(given) : discrs[p + 1] = Len(keys) - 1
      BY <1>0, <1>2, <3>1 DEF BlocksOK
    <3>3. NewBlocks <= Len(keys) /\ NewBlocks \in Nat
      BY <1>2, <2>2 DEF NewBlocks
    <3>4. before'[p] + 1 >= oldBlocks'
      BY <1>1, <1>2, <1>4, <3>2, <3>3
    <3> QED
      BY <1>1, <1>3, <3>3, <3>4 DEF OldOK
  <2>3. CASE ~again /\ Len(keys) = 1
    <3>1. ASSUME NEW p \in States(given)
          PROVE  before'[p] = 0 /\ given.f[p] = given.f[0]
      <4>1. discrs[p + 1] = 0 /\ discrs[0 + 1] = 0
        BY <1>2, <1>4, <2>3
      <4>2. KeyAt(p) = KeyAt(0)
        BY <1>0, <1>2, <4>1, OneNumber
      <4> QED
        BY <1>4, <4>1, <4>2, SameKey
    <3>2. oldBlocks' = 2
      BY <1>1, <2>3 DEF NewBlocks
    <3> QED
      BY <1>1, <1>3, <3>1, <3>2 DEF OldOK
  <2> QED
    <3>0. Len(keys) \in Nat
      BY <1>2
    <3>1. Len(keys) = 1 \/ Len(keys) >= 2
      BY <2>1, <3>0
    <3> QED
      BY <2>2, <2>3, <3>1
<1> QED
  BY <1>3, <1>7, <1>9, <1>10 DEF MinimizeInv

LEMMA MinimizeStutter == MinimizeInv /\ UNCHANGED minimizeVars => MinimizeInv'
<1> SUFFICES ASSUME MinimizeInv, UNCHANGED minimizeVars
             PROVE  MinimizeInv'
  OBVIOUS
<1>1. UNCHANGED <<given, discrs, before, keys, oldBlocks, again>>
  BY DEF minimizeVars
<1>2. \A p : KeyAt(p)' = KeyAt(p)
  BY <1>1, KeyStays
<1>3. GivenOK' /\ OldOK'
  BY <1>1 DEF MinimizeInv, GivenOK, OldOK
<1>4. BeforeOK'
  BY <1>1, <1>2 DEF MinimizeInv, BeforeOK, Coarser, InOrder
<1>5. DiscrsOK' /\ BlocksOK'
  BY <1>1, <1>2 DEF MinimizeInv, DiscrsOK, BlocksOK, Renumbered
<1>6. Alongside'
  BY <1>1 DEF MinimizeInv, Alongside, Same, More, Renumbered
<1> QED
  BY <1>3, <1>4, <1>5, <1>6 DEF MinimizeInv

\* The invariant holds of every call of dfaMinimize on an automaton that is
\* well formed.
THEOREM MinimizeInvariant == MinimizeSpec => []MinimizeInv
<1>1. MinimizeInv /\ [MinimizeStep]_minimizeVars => MinimizeInv'
  BY RenameInv, RefineInv, MinimizeStutter DEF MinimizeStep
<1> QED
  BY InitInv, <1>1, PTL DEF MinimizeSpec

\* The types of the refinement.
THEOREM MinimizeTypes == MinimizeSpec => []MinimizeTypeOK
<1>1. MinimizeInv => MinimizeTypeOK
  BY DEF MinimizeInv, GivenOK, BeforeOK, DiscrsOK, OldOK, MinimizeTypeOK
<1> QED
  BY MinimizeInvariant, <1>1, PTL

-----------------------------------------------------------------------------
(* When the number of blocks has not grown, the numbers have not changed.  *)

LEMMA DoneMeansSame ==
    ASSUME MinimizeInv, MinimizeDone
    PROVE  /\ Renumbered = States(given)
           /\ \A p \in States(given) : discrs[p + 1] = before[p]
<1>0. GivenOK /\ BeforeOK /\ DiscrsOK /\ Alongside /\ OldOK
  BY DEF MinimizeInv
<1>1. /\ Len(discrs) = given.ns /\ again
      /\ Len(keys) <= oldBlocks
  BY DEF MinimizeDone, Renamed, NewBlocks
<1>2. Renumbered = States(given) /\ given.ns \in Nat /\ given.ns >= 1
  BY <1>0, <1>1, StateFacts DEF Renumbered
<1>3. Len(keys) \in Nat /\ oldBlocks \in Nat
  BY <1>0 DEF DiscrsOK, OldOK
<1>4. \A p \in States(given) : before[p] \in Nat
  BY <1>0 DEF BeforeOK
<1>5. CASE More
  <2>1. \A p \in States(given) : before[p] + 1 < oldBlocks
    BY <1>1, <1>2, <1>3, <1>4, <1>5 DEF More
  <2>2. \A p \in States(given) : before[p] = 0 /\ given.f[p] = given.f[0]
    <3>1. ~\E p \in States(given) : before[p] + 1 >= oldBlocks
      BY <1>3, <1>4, <2>1
    <3> QED
      BY <1>0, <1>1, <3>1 DEF OldOK
  <2>3. 0 \in States(given)
    BY <1>0, <1>2, StateFacts
  <2>4. ASSUME NEW p \in States(given)
        PROVE  discrs[p + 1] = discrs[0 + 1]
    <3>1. \A l \in Letters : before[given.q[p][l]] = before[given.q[0][l]]
      BY <1>0, <2>2, <2>3, StateFacts
    <3>2. KeyAt(p) = KeyAt(0)
      BY <2>2, <3>1, SameKey
    <3> QED
      BY <1>0, <1>2, <2>3, <3>2, OneNumber
  <2>5. 1 \in 0..Len(keys)-1 /\ 0 \in 0..Len(keys)-1
    <3>1. before[0] + 1 < Len(keys) /\ before[0] = 0
      BY <1>2, <1>5, <2>2, <2>3 DEF More
    <3> QED
      BY <1>3, <3>1
  <2>6. /\ \E p \in States(given) : discrs[p + 1] = 1
        /\ \E p \in States(given) : discrs[p + 1] = 0
    BY <1>2, <2>5 DEF MinimizeInv, BlocksOK
  <2> QED
    BY <2>4, <2>6
<1> QED
  BY <1>0, <1>2, <1>5 DEF Alongside, Same

\* dfaMinimize returns a quotient of the automaton it is given.
THEOREM MinimizeGivesQuotient == MinimizeSpec => []Quotient
<1>1. ASSUME MinimizeInv, MinimizeDone, NEW p \in States(given)
      PROVE  /\ \A l \in Letters : MinimizeResult.q[discrs[p+1]][l]
                                     = discrs[given.q[p][l] + 1]
             /\ MinimizeResult.f[discrs[p+1]] = given.f[p]
  <2>0. GivenOK /\ BeforeOK /\ DiscrsOK /\ BlocksOK
    BY <1>1 DEF MinimizeInv
  <2>1. /\ Renumbered = States(given)
        /\ \A r \in States(given) : discrs[r + 1] = before[r]
    BY <1>1, DoneMeansSame
  <2> DEFINE n == discrs[p + 1]
             last == LastIn(n)
  <2>2. n \in 0..Len(keys)-1
    <3>1. n \in Nat /\ n < Len(keys) /\ Len(keys) \in Nat
      BY <2>0, <2>1, NumberFacts DEF DiscrsOK
    <3> QED
      BY <3>1
  <2>3. last \in States(given) /\ discrs[last + 1] = n
    <3> HIDE DEF n
    <3>1. \E r \in States(given) :
            /\ discrs[r + 1] = n
            /\ \A o \in States(given) : discrs[o + 1] = n => o <= r
      BY <2>0, <2>1, <2>2 DEF BlocksOK
    <3> QED
      BY <3>1 DEF LastIn
  <2>4. KeyAt(last) = KeyAt(p)
    <3> HIDE DEF last
    <3> QED
      BY <2>0, <2>1, <2>3, OneNumber
  <2>5. /\ MinimizeResult.q[n] = Mapped(last)
        /\ MinimizeResult.f[n] = given.f[last]
    <3> HIDE DEF n
    <3> QED
      BY <2>2 DEF MinimizeResult
  <2>6. Mapped(last) = Mapped(p) /\ given.f[last] = given.f[p]
    BY <2>4 DEF KeyAt
  <2>7. ASSUME NEW l \in Letters
        PROVE  Mapped(p)[l] = discrs[given.q[p][l] + 1]
    <3>1. given.q[p][l] \in States(given)
      BY <2>0, StateFacts
    <3> QED
      BY <2>1, <3>1 DEF Mapped
  <2> QED
    BY <2>5, <2>6, <2>7
<1>2. MinimizeInv => Quotient
  BY <1>1 DEF Quotient
<1> QED
  BY MinimizeInvariant, <1>2, PTL

-----------------------------------------------------------------------------
(* Nothing that a bisimulation relates is told apart. *)

Related(R) ==
    /\ R \subseteq States(given) \X States(given)
    /\ Bisimulation(R)
    /\ \A pq \in R : before[pq[1]] = before[pq[2]]

LEMMA RelatedKeys ==
    ASSUME MinimizeInv, NEW R, Related(R), NEW pq \in R
    PROVE  /\ KeyAt(pq[1]) = KeyAt(pq[2])
           /\ pq[1] \in States(given) /\ pq[2] \in States(given)
<1>1. pq[1] \in States(given) /\ pq[2] \in States(given)
  BY DEF Related
<1>2. ASSUME NEW l \in Letters
      PROVE  before[given.q[pq[1]][l]] = before[given.q[pq[2]][l]]
  <2> DEFINE next == <<given.q[pq[1]][l], given.q[pq[2]][l]>>
  <2>1. next \in R
    BY DEF Related, Bisimulation
  <2>2. before[next[1]] = before[next[2]]
    BY <2>1 DEF Related
  <2> QED
    BY <2>2
<1>3. given.f[pq[1]] = given.f[pq[2]]
  BY DEF Related, Bisimulation
<1> QED
  BY <1>1, <1>2, <1>3, SameKey

\* The pairs of a bisimulation have one number, once both have one.
LEMMA RelatedTogether ==
    ASSUME MinimizeInv, NEW R, Related(R)
    PROVE  KeepsTogether(R)
<1> SUFFICES ASSUME NEW pq \in R
             PROVE  /\ before[pq[1]] = before[pq[2]]
                    /\ pq[1] < Len(discrs) /\ pq[2] < Len(discrs)
                         => discrs[pq[1] + 1] = discrs[pq[2] + 1]
  BY DEF KeepsTogether
<1>1. /\ KeyAt(pq[1]) = KeyAt(pq[2])
      /\ pq[1] \in States(given) /\ pq[2] \in States(given)
  BY RelatedKeys
<1>2. ASSUME pq[1] < Len(discrs), pq[2] < Len(discrs)
      PROVE  discrs[pq[1] + 1] = discrs[pq[2] + 1]
  <2>1. DiscrsOK /\ Len(discrs) \in Nat
    BY DEF MinimizeInv, DiscrsOK
  <2>2. pq[1] \in Renumbered /\ pq[2] \in Renumbered
    BY <1>1, <1>2, <2>1, StateFacts DEF MinimizeInv, Renumbered
  <2> QED
    BY <1>1, <2>1, <2>2, OneNumber
<1>3. before[pq[1]] = before[pq[2]]
  BY DEF Related
<1> QED
  BY <1>2, <1>3

\* Equivalent states are in one block whenever both have a number: nothing is
\* split that could stay together, so that the result is minimal.
THEOREM BisimilarStaysTogether ==
    ASSUME NEW CONSTANT R
    PROVE  MinimizeSpec /\ R \subseteq States(given) \X States(given) /\ Bisimulation(R)
             => []KeepsTogether(R)
<1>1. MinimizeInit /\ R \subseteq States(given) \X States(given) /\ Bisimulation(R)
        => Related(R)
  BY DEF MinimizeInit, Related
<1>2. ASSUME MinimizeInv, Related(R), [MinimizeStep]_minimizeVars
      PROVE  Related(R)'
  <2>1. CASE Refine
    <3>1. /\ Len(discrs) = given.ns /\ given' = given
          /\ before' = [p \in States(given) |-> discrs[p + 1]]
      BY <2>1 DEF Refine, Renamed
    <3>2. Renumbered = States(given) /\ DiscrsOK
      BY <1>2, <3>1, StateFacts DEF MinimizeInv, Renumbered
    <3>3. ASSUME NEW pq \in R
          PROVE  before'[pq[1]] = before'[pq[2]]
      <4>1. /\ KeyAt(pq[1]) = KeyAt(pq[2])
            /\ pq[1] \in States(given) /\ pq[2] \in States(given)
        BY <1>2, RelatedKeys
      <4>2. discrs[pq[1] + 1] = discrs[pq[2] + 1]
        BY <3>2, <4>1, OneNumber
      <4> QED
        BY <3>1, <4>1, <4>2
    <3> QED
      BY <1>2, <3>1, <3>3 DEF Related, Bisimulation, States
  <2>2. CASE UNCHANGED <<given, before>>
    BY <1>2, <2>2 DEF Related, Bisimulation, States
  <2> QED
    BY <1>2, <2>1, <2>2 DEF MinimizeStep, Rename, minimizeVars
<1>3. MinimizeInv /\ Related(R) => KeepsTogether(R)
  BY RelatedTogether
<1> QED
  BY MinimizeInvariant, <1>1, <1>2, <1>3, PTL DEF MinimizeSpec

-----------------------------------------------------------------------------
(* Induction, and definition by recursion on a number. *)

\* A set of numbers has a least one.
LEMMA LeastNumber ==
  ASSUME NEW S \in SUBSET Nat, S # {}
  PROVE  \E n \in S : \A m \in S : n <= m
<1> DEFINE R == OpToRel(<, Nat)
<1>1. IsWellFoundedOn(R, Nat) BY NatLessThanWellFounded
<1> HIDE DEF R
<1>2. \E n \in S : \A m \in S : ~ (<<m, n>> \in R) BY <1>1, WFMin
<1>3. \A m, n \in Nat : m < n => <<m, n>> \in R BY DEF R, OpToRel
<1>4. PICK n \in S : \A m \in S : ~ (<<m, n>> \in R) BY <1>2
<1>5. ASSUME NEW m \in S PROVE n <= m
  <2>1. m \in Nat /\ n \in Nat OBVIOUS
  <2>2. ~ (m < n) BY <1>3, <1>4, <2>1
  <2> QED BY <2>1, <2>2
<1> QED BY <1>5

\* A set of numbers with 0 and the successor of each of its numbers.
LEMMA Induction ==
  ASSUME NEW S \in SUBSET Nat, 0 \in S, \A n \in S : n + 1 \in S
  PROVE  \A n \in Nat : n \in S
<1> SUFFICES ASSUME Nat \ S # {} PROVE FALSE OBVIOUS
<1>1. PICK n \in Nat \ S : \A m \in Nat \ S : n <= m
  BY LeastNumber
<1>2. n # 0 /\ n - 1 \in Nat OBVIOUS
<1>3. n - 1 \in S BY <1>1, <1>2
<1> QED BY <1>1, <1>2, <1>3

\* f is s, g[s], g[g[s]], ..., up to N applications of g.
Iterates(f, N, s, g) == f[0] = s /\ \A n \in 1..N : f[n] = g[f[n - 1]]

\* A function may be defined by recursion on a number.
LEMMA Iteration ==
  ASSUME NEW S, NEW s \in S, NEW g \in [S -> S], NEW N \in Nat
  PROVE  \E f \in [0..N -> S] : Iterates(f, N, s, g)
<1> DEFINE T == {M \in Nat : \E f \in [0..M -> S] : Iterates(f, M, s, g)}
<1>1. 0 \in T
  <2>1. [n \in 0..0 |-> s] \in [0..0 -> S] /\ Iterates([n \in 0..0 |-> s], 0, s, g)
    BY DEF Iterates
  <2> QED
    BY <2>1
<1>2. ASSUME NEW M \in T
      PROVE  M + 1 \in T
  <2>1. PICK f \in [0..M -> S] : Iterates(f, M, s, g)
    OBVIOUS
  <2> DEFINE h == [n \in 0..M+1 |-> IF n = M + 1 THEN g[f[M]] ELSE f[n]]
  <2>2. M \in Nat /\ f[M] \in S
    OBVIOUS
  <2>3. h \in [0..M+1 -> S]
    BY <2>2
  <2>4. h[0] = s
    BY <2>1, <2>2 DEF Iterates
  <2>5. ASSUME NEW n \in 1..M+1
        PROVE  h[n] = g[h[n - 1]]
    <3>1. CASE n = M + 1
      BY <2>2, <3>1
    <3>2. CASE n # M + 1
      <4>1. n \in 1..M /\ n - 1 \in 0..M
        BY <2>2, <3>2
      <4>2. h[n] = f[n] /\ h[n - 1] = f[n - 1]
        BY <2>2, <3>2, <4>1
      <4> QED
        BY <2>1, <4>1, <4>2 DEF Iterates
    <3> QED
      BY <3>1, <3>2
  <2> HIDE DEF h
  <2>6. Iterates(h, M + 1, s, g)
    BY <2>4, <2>5 DEF Iterates
  <2> QED
    BY <2>2, <2>3, <2>6
<1> HIDE DEF T
<1>3. T \in SUBSET Nat
  BY DEF T
<1>4. N \in T
  BY <1>1, <1>2, <1>3, Induction
<1> QED
  BY <1>4 DEF T

-----------------------------------------------------------------------------
(* No word tells apart the pairs that the words of up to ns letters do not. *)

\* Where the pairs of W lead, W included.
Led(W) ==
    UNION {{pq} \cup {<<given.q[pq[1]][l], given.q[pq[2]][l]>> : l \in Letters} : pq \in W}

Pairs == States(given) \X States(given)

\* The pairs that stay in D.
Staying(D) ==
    {pr \in D : \A l \in Letters : <<given.q[pr[1]][l], given.q[pr[2]][l]>> \in D}

SameStatus == {pr \in Pairs : given.f[pr[1]] = given.f[pr[2]]}

LEMMA LedType ==
    ASSUME GivenOK, NEW W \in SUBSET Pairs
    PROVE  Led(W) \in SUBSET Pairs
<1> SUFFICES ASSUME NEW pq \in W, NEW l \in Letters
             PROVE  <<given.q[pq[1]][l], given.q[pq[2]][l]>> \in Pairs
  BY DEF Led
<1> QED
  BY StateFacts DEF Pairs

\* LedTo, step by step.
LEMMA LedSteps ==
    ASSUME GivenOK, NEW p \in States(given), NEW r \in States(given)
    PROVE  \E W \in [0..given.ns -> SUBSET Pairs] :
             /\ W[0] = {<<p, r>>}
             /\ \A n \in 1..given.ns : W[n] = Led(W[n - 1])
             /\ LedTo(p, r) = W[given.ns]
<1> DEFINE N == given.ns
           g == [W \in SUBSET Pairs |-> Led(W)]
           Is(W) == W = [n \in 0..N |-> IF n = 0 THEN {<<p, r>>} ELSE Led(W[n - 1])]
           within == CHOOSE W : Is(W)
<1>1. N \in Nat
  BY StateFacts DEF N
<1>2. g \in [SUBSET Pairs -> SUBSET Pairs] /\ {<<p, r>>} \in SUBSET Pairs
  BY LedType DEF Pairs
<1> HIDE DEF g, N
<1>3. PICK W \in [0..N -> SUBSET Pairs] : Iterates(W, N, {<<p, r>>}, g)
  BY <1>1, <1>2, Iteration
<1>4. Is(W)
  <2>1. ASSUME NEW n \in 0..N
        PROVE  W[n] = IF n = 0 THEN {<<p, r>>} ELSE Led(W[n - 1])
    <3>1. CASE n = 0
      BY <1>3, <3>1 DEF Iterates
    <3>2. CASE n # 0
      <4>1. n \in 1..N /\ n - 1 \in 0..N
        BY <1>1, <3>2
      <4>2. W[n] = g[W[n - 1]] /\ W[n - 1] \in SUBSET Pairs
        BY <1>3, <4>1 DEF Iterates
      <4> QED
        BY <3>2, <4>2 DEF g
    <3> QED
      BY <3>1, <3>2
  <2> QED
    BY <2>1
<1>5. Is(within)
  <2> HIDE DEF Is
  <2> QED
    BY <1>4
<1> HIDE DEF within
<1>6. within[0] = {<<p, r>>}
  BY <1>1, <1>5
<1>7. ASSUME NEW n \in 1..N
      PROVE  within[n] = Led(within[n - 1])
  <2>1. n \in 0..N /\ n # 0
    BY <1>1
  <2> QED
    BY <1>5, <2>1
<1>8. LedTo(p, r) = within[N]
  BY DEF LedTo, Led, within, N
<1>9. within \in [0..N -> SUBSET Pairs]
  <2> DEFINE T == {n \in Nat : n \in 0..N => within[n] \in SUBSET Pairs}
  <2>1. 0 \in T
    BY <1>2, <1>6
  <2>2. ASSUME NEW n \in T
        PROVE  n + 1 \in T
    <3> SUFFICES ASSUME n + 1 \in 0..N
                 PROVE  within[n + 1] \in SUBSET Pairs
      OBVIOUS
    <3>1. n + 1 \in 1..N /\ n \in 0..N /\ (n + 1) - 1 = n
      BY <1>1
    <3>2. within[n] \in SUBSET Pairs
      BY <3>1
    <3>3. within[n + 1] = Led(within[n])
      BY <1>7, <3>1
    <3> QED
      BY <3>2, <3>3, LedType
  <2> HIDE DEF T
  <2>3. \A n \in Nat : n \in T
    BY <2>1, <2>2, Induction DEF T
  <2>4. \A n \in 0..N : within[n] \in SUBSET Pairs
    BY <1>1, <2>3 DEF T
  <2>5. within = [n \in 0..N |-> within[n]]
    BY <1>5
  <2> QED
    BY <2>4, <2>5
<1> QED
  BY <1>6, <1>7, <1>8, <1>9 DEF N

\* Pairs lead into D if and only if they stay in it.
LEMMA LeadsInto ==
    ASSUME NEW W \in SUBSET Pairs, NEW D \in SUBSET Pairs
    PROVE  Led(W) \subseteq D <=> W \subseteq Staying(D)
<1>1. ASSUME Led(W) \subseteq D, NEW pq \in W
      PROVE  pq \in Staying(D)
  <2>1. pq \in Led(W) /\ \A l \in Letters : <<given.q[pq[1]][l], given.q[pq[2]][l]>> \in Led(W)
    BY DEF Led
  <2> QED
    BY <1>1, <2>1 DEF Staying
<1>2. ASSUME W \subseteq Staying(D), NEW pr \in Led(W)
      PROVE  pr \in D
  <2>1. PICK pq \in W : pr \in {pq} \cup {<<given.q[pq[1]][l], given.q[pq[2]][l]>> : l \in Letters}
    BY DEF Led
  <2>2. pq \in Staying(D)
    BY <1>2
  <2> QED
    BY <2>1, <2>2 DEF Staying
<1> QED
  BY <1>1, <1>2

\* The pairs with equal status that stay so for n steps.
IsStays(stay, N) == Iterates(stay, N, SameStatus, [D \in SUBSET Pairs |-> Staying(D)])

LEMMA StaysSteps ==
    ASSUME NEW N \in Nat, NEW stay \in [0..N -> SUBSET Pairs], IsStays(stay, N)
    PROVE  stay[0] = SameStatus /\ \A n \in 0..N-1 : stay[n + 1] = Staying(stay[n])
<1> SUFFICES ASSUME NEW n \in 0..N-1
             PROVE  stay[n + 1] = Staying(stay[n])
  BY DEF IsStays, Iterates
<1>1. n + 1 \in 1..N /\ n \in 0..N /\ (n + 1) - 1 = n
  OBVIOUS
<1> QED
  BY <1>1 DEF IsStays, Iterates

LEMMA StaysExists ==
    ASSUME GivenOK, NEW N \in Nat
    PROVE  \E stay \in [0..N -> SUBSET Pairs] : IsStays(stay, N)
<1> DEFINE g == [D \in SUBSET Pairs |-> Staying(D)]
<1>1. SameStatus \in SUBSET Pairs /\ g \in [SUBSET Pairs -> SUBSET Pairs]
  BY DEF SameStatus, Staying
<1> HIDE DEF g
<1>2. \E stay \in [0..N -> SUBSET Pairs] : Iterates(stay, N, SameStatus, g)
  BY <1>1, Iteration
<1> QED
  BY <1>2 DEF g, IsStays

\* Alike are the pairs that stay equal in status for ns steps.
LEMMA AlikeIsStaying ==
    ASSUME GivenOK, NEW N \in Nat, N >= given.ns,
           NEW stay \in [0..N -> SUBSET Pairs], IsStays(stay, N)
    PROVE  Alike = stay[given.ns]
<1> DEFINE S == given.ns
<1>1. S \in Nat /\ S \in 0..N
  BY StateFacts
<1> SUFFICES ASSUME NEW p \in States(given), NEW r \in States(given)
             PROVE  (\A pq \in LedTo(p, r) : given.f[pq[1]] = given.f[pq[2]])
                      <=> <<p, r>> \in stay[S]
  BY <1>1 DEF Alike, Pairs
<1>2. PICK W \in [0..S -> SUBSET Pairs] :
        /\ W[0] = {<<p, r>>}
        /\ \A n \in 1..S : W[n] = Led(W[n - 1])
        /\ LedTo(p, r) = W[S]
  BY LedSteps
<1> DEFINE T == {n \in Nat : n <= S => (W[S] \subseteq stay[0] <=> W[S - n] \subseteq stay[n])}
<1>3. 0 \in T
  BY <1>1
<1>4. ASSUME NEW n \in T
      PROVE  n + 1 \in T
  <2> SUFFICES ASSUME n + 1 <= S
               PROVE  W[S] \subseteq stay[0] <=> W[S - (n + 1)] \subseteq stay[n + 1]
    OBVIOUS
  <2>1. /\ n \in 0..N-1 /\ n \in 0..N /\ n <= S
        /\ S - n \in 1..S /\ (S - n) - 1 = S - (n + 1) /\ S - (n + 1) \in 0..S
    BY <1>1
  <2>2. W[S] \subseteq stay[0] <=> W[S - n] \subseteq stay[n]
    BY <2>1
  <2>3. W[S - n] = Led(W[S - (n + 1)])
    BY <1>2, <2>1
  <2>4. stay[n + 1] = Staying(stay[n])
    BY <2>1, StaysSteps
  <2>5. W[S - (n + 1)] \in SUBSET Pairs /\ stay[n] \in SUBSET Pairs
    BY <2>1
  <2> QED
    BY <2>2, <2>3, <2>4, <2>5, LeadsInto
<1> HIDE DEF T
<1>5. S \in T
  BY <1>1, <1>3, <1>4, Induction DEF T
<1>6. W[S] \subseteq stay[0] <=> W[0] \subseteq stay[S]
  BY <1>1, <1>5 DEF T
<1>7. W[S] \subseteq SameStatus <=> \A pq \in W[S] : given.f[pq[1]] = given.f[pq[2]]
  BY <1>1 DEF SameStatus
<1>8. stay[0] = SameStatus
  BY StaysSteps
<1>9. W[0] \subseteq stay[S] <=> <<p, r>> \in stay[S]
  BY <1>2
<1>10. (\A pq \in LedTo(p, r) : given.f[pq[1]] = given.f[pq[2]]) <=> W[S] \subseteq SameStatus
  BY <1>2, <1>7
<1> QED
  BY <1>6, <1>8, <1>9, <1>10

\* No two states of one kind, and each the first of its kind.
Firsts(D) == {p \in States(given) : \A r \in States(given) : r < p => <<p, r>> \notin D}

IsEquivalence(D) ==
    /\ D \in SUBSET Pairs
    /\ \A p \in States(given) : <<p, p>> \in D
    /\ \A p, r \in States(given) : <<p, r>> \in D => <<r, p>> \in D
    /\ \A p, r, t \in States(given) : <<p, r>> \in D /\ <<r, t>> \in D => <<p, t>> \in D

LEMMA SameStatusEquivalence == GivenOK => IsEquivalence(SameStatus)
  BY DEF IsEquivalence, SameStatus, Pairs

LEMMA StayingEquivalence ==
    ASSUME GivenOK, NEW D, IsEquivalence(D)
    PROVE  IsEquivalence(Staying(D))
<1>1. \A p \in States(given), l \in Letters : given.q[p][l] \in States(given)
  BY StateFacts
<1>2. \A p, r \in States(given) :
        <<p, r>> \in Staying(D) <=>
          <<p, r>> \in D /\ \A l \in Letters : <<given.q[p][l], given.q[r][l]>> \in D
  BY DEF Staying
<1>3. Staying(D) \in SUBSET Pairs
  BY DEF Staying, IsEquivalence
<1>4. \A p \in States(given) : <<p, p>> \in Staying(D)
  BY <1>1, <1>2 DEF IsEquivalence
<1>5. ASSUME NEW p \in States(given), NEW r \in States(given), <<p, r>> \in Staying(D)
      PROVE  <<r, p>> \in Staying(D)
  BY <1>1, <1>2, <1>5 DEF IsEquivalence
<1>6. ASSUME NEW p \in States(given), NEW r \in States(given), NEW t \in States(given),
             <<p, r>> \in Staying(D), <<r, t>> \in Staying(D)
      PROVE  <<p, t>> \in Staying(D)
  <2>1. <<p, r>> \in D /\ <<r, t>> \in D
    BY <1>2, <1>6
  <2>2. <<p, t>> \in D
    BY <2>1 DEF IsEquivalence
  <2>3. ASSUME NEW l \in Letters
        PROVE  <<given.q[p][l], given.q[t][l]>> \in D
    <3>1. <<given.q[p][l], given.q[r][l]>> \in D /\ <<given.q[r][l], given.q[t][l]>> \in D
      BY <1>2, <1>6
    <3> QED
      BY <1>1, <3>1 DEF IsEquivalence
  <2> QED
    BY <1>2, <2>2, <2>3
<1> QED
  BY <1>3, <1>4, <1>5, <1>6 DEF IsEquivalence

\* The first state of a kind.
LEMMA FirstExists ==
    ASSUME GivenOK, NEW D, IsEquivalence(D), NEW p \in States(given)
    PROVE  \E r \in Firsts(D) : <<p, r>> \in D
<1> DEFINE S == {r \in States(given) : <<p, r>> \in D}
<1>1. S \in SUBSET Nat /\ S # {}
  BY StateFacts DEF IsEquivalence
<1>2. PICK r \in S : \A m \in S : r <= m
  BY <1>1, LeastNumber
<1>3. ASSUME NEW t \in States(given), t < r
      PROVE  <<r, t>> \notin D
  <2> SUFFICES ASSUME <<r, t>> \in D
               PROVE  FALSE
    OBVIOUS
  <2>1. t \in S
    BY DEF IsEquivalence
  <2>2. t \in Nat /\ r \in Nat
    BY StateFacts
  <2> QED
    BY <1>2, <1>3, <2>1, <2>2
<1> QED
  BY <1>3 DEF Firsts

\* A split makes one more kind.
LEMMA SplitAdds ==
    ASSUME GivenOK, NEW D, IsEquivalence(D), Staying(D) # D
    PROVE  /\ IsFiniteSet(Firsts(D)) /\ IsFiniteSet(Firsts(Staying(D)))
           /\ Cardinality(Firsts(D)) < Cardinality(Firsts(Staying(D)))
<1> DEFINE E == Staying(D)
<1>1. IsEquivalence(E) /\ E \subseteq D
  BY StayingEquivalence DEF Staying
<1>2. Firsts(D) \subseteq Firsts(E)
  BY <1>1 DEF Firsts
<1>3. PICK pr \in D : pr \notin E
  BY <1>1
<1>4. /\ pr = <<pr[1], pr[2]>> /\ pr[1] \in States(given) /\ pr[2] \in States(given)
  BY DEF IsEquivalence, Pairs
<1>5. PICK p \in Firsts(E) : <<pr[1], p>> \in E
  BY <1>1, <1>4, FirstExists
<1>6. PICK r \in Firsts(E) : <<pr[2], r>> \in E
  BY <1>1, <1>4, FirstExists
<1>7. p # r
  <2> SUFFICES ASSUME p = r
               PROVE  FALSE
    OBVIOUS
  <2>1. p \in States(given)
    BY DEF Firsts
  <2>2. <<p, pr[2]>> \in E
    BY <1>1, <1>4, <1>6, <2>1 DEF IsEquivalence
  <2>3. <<pr[1], pr[2]>> \in E
    BY <1>1, <1>4, <1>5, <2>1, <2>2 DEF IsEquivalence
  <2> QED
    BY <1>3, <1>4, <2>3
<1>8. <<p, r>> \in D /\ <<r, p>> \in D
  <2>1. p \in States(given) /\ r \in States(given)
    BY DEF Firsts
  <2>2. <<pr[1], p>> \in D /\ <<pr[2], r>> \in D /\ <<pr[1], pr[2]>> \in D
    BY <1>1, <1>4, <1>5, <1>6
  <2>3. <<p, pr[1]>> \in D
    BY <1>4, <2>1, <2>2 DEF IsEquivalence
  <2>4. <<p, pr[2]>> \in D
    BY <1>4, <2>1, <2>2, <2>3 DEF IsEquivalence
  <2>5. <<p, r>> \in D
    BY <1>4, <2>1, <2>2, <2>4 DEF IsEquivalence
  <2> QED
    BY <2>1, <2>5 DEF IsEquivalence
<1>9. Firsts(D) # Firsts(E)
  <2>1. p \in Nat /\ r \in Nat /\ p \in States(given) /\ r \in States(given)
    BY StateFacts DEF Firsts
  <2>2. p < r \/ r < p
    BY <1>7, <2>1
  <2> QED
    BY <1>8, <2>1, <2>2 DEF Firsts
<1>10. IsFiniteSet(States(given))
  BY StateFacts, FS_Interval
<1>11. Firsts(D) \in SUBSET States(given) /\ Firsts(E) \in SUBSET States(given)
  BY DEF Firsts
<1>12. IsFiniteSet(Firsts(D)) /\ IsFiniteSet(Firsts(E))
  BY <1>10, <1>11, FS_Subset
<1>13. Cardinality(Firsts(D)) <= Cardinality(Firsts(E)) /\ Cardinality(Firsts(D)) # Cardinality(Firsts(E))
  BY <1>2, <1>9, <1>12, FS_Subset
<1>14. Cardinality(Firsts(D)) \in Nat /\ Cardinality(Firsts(E)) \in Nat
  BY <1>12, FS_CardinalityType
<1> HIDE DEF E
<1>15. Cardinality(Firsts(D)) < Cardinality(Firsts(E))
  BY <1>13, <1>14
<1> QED
  BY <1>12, <1>15 DEF E

\* After ns steps nothing more is split: what words tell apart, short words do.
LEMMA AlikeStays ==
    ASSUME GivenOK
    PROVE  Alike \in SUBSET Pairs /\ Alike \subseteq SameStatus /\ Staying(Alike) = Alike
<1> DEFINE N == given.ns
<1>1. N \in Nat /\ N >= 1 /\ N + 1 \in Nat /\ States(given) = 0..N-1
  BY StateFacts
<1>2. PICK stay \in [0..N+1 -> SUBSET Pairs] : IsStays(stay, N + 1)
  BY <1>1, StaysExists
<1>3. Alike = stay[N]
  BY <1>1, <1>2, AlikeIsStaying
<1>4. stay[0] = SameStatus /\ \A n \in 0..N : stay[n + 1] = Staying(stay[n])
  <2>1. stay[0] = SameStatus /\ \A n \in 0..(N + 1)-1 : stay[n + 1] = Staying(stay[n])
    BY <1>1, <1>2, StaysSteps
  <2> QED
    BY <1>1, <2>1
<1> DEFINE Q(n) == /\ IsEquivalence(stay[n]) /\ stay[n] \subseteq SameStatus
                   /\ Staying(stay[n]) = stay[n]
                        \/ /\ IsFiniteSet(Firsts(stay[n]))
                           /\ Cardinality(Firsts(stay[n])) >= n + 1
           T == {n \in Nat : n <= N => Q(n)}
<1>5. IsFiniteSet(States(given)) /\ Cardinality(States(given)) = N
  BY <1>1, FS_Interval
<1>6. 0 \in T
  <2>1. IsEquivalence(stay[0]) /\ stay[0] \subseteq SameStatus
    BY <1>4, SameStatusEquivalence
  <2>2. 0 \in Firsts(stay[0])
    BY <1>1 DEF Firsts
  <2>3. Firsts(stay[0]) \in SUBSET States(given)
    BY DEF Firsts
  <2>4. IsFiniteSet(Firsts(stay[0]))
    BY <1>5, <2>3, FS_Subset
  <2>5. Cardinality(Firsts(stay[0])) \in Nat /\ Cardinality(Firsts(stay[0])) # 0
    BY <2>2, <2>4, FS_CardinalityType, FS_EmptySet
  <2> QED
    BY <2>1, <2>4, <2>5
<1>7. ASSUME NEW n \in T
      PROVE  n + 1 \in T
  <2> SUFFICES ASSUME n + 1 <= N
               PROVE  Q(n + 1)
    OBVIOUS
  <2>1. n \in 0..N /\ n + 1 \in 0..N /\ Q(n)
    BY <1>1
  <2>2. stay[n + 1] = Staying(stay[n])
    BY <1>4, <2>1
  <2>3. IsEquivalence(stay[n + 1]) /\ stay[n + 1] \subseteq SameStatus
    BY <2>1, <2>2, StayingEquivalence DEF Staying
  <2>4. CASE Staying(stay[n]) = stay[n]
    BY <2>2, <2>3, <2>4
  <2>5. CASE Staying(stay[n]) # stay[n]
    <3>1. /\ IsFiniteSet(Firsts(stay[n])) /\ IsFiniteSet(Firsts(stay[n + 1]))
          /\ Cardinality(Firsts(stay[n])) < Cardinality(Firsts(stay[n + 1]))
      BY <2>1, <2>2, <2>5, SplitAdds
    <3>2. Cardinality(Firsts(stay[n])) \in Nat /\ Cardinality(Firsts(stay[n + 1])) \in Nat
      BY <3>1, FS_CardinalityType
    <3>3. Cardinality(Firsts(stay[n])) >= n + 1
      BY <2>1, <2>5
    <3>4. Cardinality(Firsts(stay[n + 1])) >= (n + 1) + 1
      BY <2>1, <3>1, <3>2, <3>3
    <3> QED
      BY <2>3, <3>1, <3>4
  <2> QED
    BY <2>4, <2>5
<1> HIDE DEF Q, T
<1>8. Q(N)
  <2>1. T \in SUBSET Nat
    BY DEF T
  <2>2. N \in T
    BY <1>1, <1>6, <1>7, <2>1, Induction
  <2> QED
    BY <1>1, <2>2 DEF T
<1> USE DEF Q
<1>9. Staying(stay[N]) = stay[N]
  <2> SUFFICES ASSUME IsFiniteSet(Firsts(stay[N])), Cardinality(Firsts(stay[N])) >= N + 1
               PROVE  FALSE
    BY <1>8
  <2>1. Firsts(stay[N]) \in SUBSET States(given)
    BY DEF Firsts
  <2>2. Cardinality(Firsts(stay[N])) <= N /\ Cardinality(Firsts(stay[N])) \in Nat
    BY <1>5, <2>1, FS_Subset, FS_CardinalityType
  <2> QED
    BY <1>1, <2>2
<1> QED
  BY <1>3, <1>8, <1>9 DEF IsEquivalence

\* Related(R), for a set of pairs that given determines.
LEMMA AlikeStep ==
    ASSUME MinimizeInv, Related(Alike), [MinimizeStep]_minimizeVars
    PROVE  Related(Alike)'
<1>1. given' = given
  BY DEF MinimizeStep, Rename, Refine, minimizeVars
<1>2. Alike' = Alike /\ Bisimulation(Alike)' = Bisimulation(Alike)
  BY <1>1 DEF Alike, LedTo, Bisimulation, States
<1>3. CASE Refine
  <2>1. /\ Len(discrs) = given.ns
        /\ before' = [p \in States(given) |-> discrs[p + 1]]
    BY <1>3 DEF Refine, Renamed
  <2>2. Renumbered = States(given) /\ DiscrsOK
    BY <2>1, StateFacts DEF MinimizeInv, Renumbered
  <2>3. ASSUME NEW pq \in Alike
        PROVE  before'[pq[1]] = before'[pq[2]]
    <3>1. /\ KeyAt(pq[1]) = KeyAt(pq[2])
          /\ pq[1] \in States(given) /\ pq[2] \in States(given)
      BY RelatedKeys
    <3>2. discrs[pq[1] + 1] = discrs[pq[2] + 1]
      BY <2>2, <3>1, OneNumber
    <3> QED
      BY <2>1, <3>1, <3>2
  <2> QED
    BY <1>1, <1>2, <2>3 DEF Related, States
<1>4. CASE UNCHANGED <<given, before>>
  BY <1>2, <1>4 DEF Related, States
<1> QED
  BY <1>3, <1>4 DEF MinimizeStep, Rename, minimizeVars

\* For every automaton, states that no word tells apart are in one block to the
\* end, and the result is minimal.
THEOREM MinimizeNeverSplits == MinimizeSpec => []NeverSplits
<1>1. MinimizeInit => Related(Alike)
  <2> SUFFICES ASSUME MinimizeInit
               PROVE  Related(Alike)
    OBVIOUS
  <2>1. GivenOK
    BY DEF MinimizeInit, GivenOK
  <2>2. Alike \in SUBSET Pairs /\ Alike \subseteq SameStatus /\ Staying(Alike) = Alike
    BY <2>1, AlikeStays
  <2>3. Bisimulation(Alike)
    BY <2>2 DEF Bisimulation, SameStatus, Staying
  <2>4. \A pq \in Alike : before[pq[1]] = before[pq[2]]
    BY <2>2 DEF MinimizeInit, Pairs
  <2> QED
    BY <2>2, <2>3, <2>4 DEF Related, Pairs
<1>2. MinimizeInv /\ Related(Alike) => NeverSplits
  BY RelatedTogether DEF NeverSplits
<1> QED
  BY MinimizeInvariant, AlikeStep, <1>1, <1>2, PTL DEF MinimizeSpec
=============================================================================
