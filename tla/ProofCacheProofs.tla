-------------------------- MODULE ProofCacheProofs --------------------------
(***************************************************************************)
(* What holds of the proof cache for every set of provers and goals, every *)
(* length of the log and every nesting of wrap_prover.                     *)
(***************************************************************************)
EXTENDS ProofCache, SequenceTheorems, TLAPS

\* A generic slot holds nothing but a proof, and a right one; a prover's own
\* slot holds nothing but its weak answer.
Truthful(s) ==
  /\ cache[s] = "strong" =>
       /\ s[3] = Generic
       /\ \A g \in Goals : KindOf[g] = s[1] /\ KeyOf[g] = s[2] => g \in Proved
  /\ cache[s] = "weak" => s[3] # Generic

\* An answer in the log is that of a query; if strong, the goal is proved and
\* the proof is in the cache, which is c.
Recorded(e, c) ==
  /\ e.res \in Answers => e.goal \in Goals /\ e.kind = KindOf[e.goal]
  /\ e.kind \in Kinds => e.goal \in Goals /\ e.kind = KindOf[e.goal]
  /\ e.res = "strong" =>
       /\ e.goal \in Proved
       /\ ~NoCache => c[GenericSlot(e.goal)] = "strong"

\* A log that is right, given the cache c: TypeOK and NeverWeakens for it.
LogRight(log, c) ==
  /\ log \in Seq(Entry)
  /\ \A i \in DOMAIN log : Recorded(log[i], c)
  /\ ~NoCache =>
       \A i, j \in DOMAIN log :
         i < j /\ SameQuery(log[i], log[j]) /\ log[i].res = "strong" /\ Answered(log[j])
           => log[j].res = "strong"

\* A prover runs only on a goal that the cache has no answer to.
Needed == pc = "proving" /\ ~NoCache => FindCache(goal, pure_tp) = "none"

CacheInv ==
  /\ TypeOK
  /\ \A s \in Slots : Truthful(s)
  /\ LogRight(proof_log, cache)
  /\ Needed

-----------------------------------------------------------------------------
\* Appending an element to a sequence.
LEMMA Appended ==
  ASSUME NEW S, NEW s \in Seq(S), NEW e \in S
  PROVE  /\ Append(s, e) \in Seq(S)
         /\ Len(s) \in Nat
         /\ DOMAIN s = 1 .. Len(s)
         /\ Len(Append(s, e)) = Len(s) + 1
         /\ DOMAIN Append(s, e) = 1 .. Len(s) + 1
         /\ \A i \in 1 .. Len(s) : Append(s, e)[i] = s[i]
         /\ Append(s, e)[Len(s) + 1] = e
  BY AppendProperties, LenProperties

\* A nonempty sequence without its last element, and that element.
LEMMA AllButLast ==
  ASSUME NEW S, NEW s \in Seq(S), s # <<>>
  PROVE  /\ SubSeq(s, 1, Len(s) - 1) \in Seq(S)
         /\ s[Len(s)] \in S
<1>1. Len(s) \in Nat /\ Len(s) >= 1
  BY EmptySeq, LenProperties
<1>2. QED
  BY <1>1, ElementOfSeq

\* The slots of a goal are slots, and the generic one is nobody's own.
LEMMA SlotTypes ==
  ASSUME NEW g \in Goals, NEW p \in Provers
  PROVE  /\ GenericSlot(g) \in Slots /\ OwnSlot(g, p) \in Slots
         /\ GenericSlot(g)[1] = KindOf[g] /\ GenericSlot(g)[2] = KeyOf[g]
         /\ GenericSlot(g)[3] = Generic
         /\ OwnSlot(g, p)[3] = p
         /\ p # Generic
         /\ \A h \in Goals : GenericSlot(h) # OwnSlot(g, p)
  BY CacheAssumption DEF GenericSlot, OwnSlot, Slots

\* The wrapper puts a prover back.
LEMMA PutBackType ==
  ASSUME TypeOK, PutBack
  PROVE  pure_tp' \in Provers /\ saved' \in Seq(Provers)
  BY AllButLast DEF TypeOK, PutBack

LEMMA CacheInit ==
  ASSUME Init
  PROVE  CacheInv
<1>1. TypeOK
  <2>1. saved \in Seq(Provers) /\ proof_log \in Seq(Entry)
    BY EmptySeq DEF Init
  <2>2. cache \in [Slots -> Answers \cup {"none"}]
    BY DEF Init
  <2>3. QED
    BY <2>1, <2>2 DEF Init, TypeOK
<1>2. \A s \in Slots : cache[s] = "none"
  BY DEF Init
<1>3. LogRight(proof_log, cache)
  <2>1. DOMAIN proof_log = {}
    BY DEF Init
  <2>2. QED
    BY <1>1, <2>1 DEF LogRight, TypeOK
<1>4. QED
  BY <1>1, <1>2, <1>3 DEF CacheInv, Truthful, Needed, Init

-----------------------------------------------------------------------------
\* An entry appended to a right log, while the cache goes from c to d, leaves
\* the log right: the entry is recorded in d, no proof is lost from c to d, and
\* the entry does not answer weakly a goal whose proof is in c.
LEMMA LogExtends ==
  ASSUME NEW log, NEW c, NEW d, NEW e \in Entry,
         LogRight(log, c),
         \A g \in Goals : c[GenericSlot(g)] = "strong" => d[GenericSlot(g)] = "strong",
         Recorded(e, d),
         ~NoCache /\ e.res = "weak" => c[GenericSlot(e.goal)] # "strong"
  PROVE  LogRight(Append(log, e), d)
<1> DEFINE n == Len(log)
           new == Append(log, e)
<1>1. /\ new \in Seq(Entry)
      /\ n \in Nat
      /\ DOMAIN log = 1 .. n
      /\ DOMAIN new = 1 .. n + 1
      /\ \A i \in 1 .. n : new[i] = log[i]
      /\ new[n + 1] = e
  BY Appended DEF LogRight
<1> HIDE DEF n, new
<1>2. \A i \in 1 .. n : Recorded(new[i], d)
  <2> TAKE i \in 1 .. n
  <2>1. Recorded(log[i], c) /\ new[i] = log[i]
    BY <1>1 DEF LogRight
  <2>2. QED
    BY <2>1 DEF Recorded, Answers
<1>3. \A i \in DOMAIN new : Recorded(new[i], d)
  BY <1>1, <1>2
<1>4. ASSUME ~NoCache, NEW i \in 1 .. n + 1, NEW j \in 1 .. n + 1, i < j,
             SameQuery(new[i], new[j]), new[i].res = "strong", Answered(new[j])
      PROVE  new[j].res = "strong"
  <2>1. i \in 1 .. n /\ new[i] = log[i]
    BY <1>1, <1>4
  <2>2. CASE j \in 1 .. n
    BY <1>1, <1>4, <2>1, <2>2 DEF LogRight
  <2>3. CASE j = n + 1
    <3>1. Recorded(log[i], c) /\ new[j] = e
      BY <1>1, <2>1, <2>3 DEF LogRight
    <3>2. GenericSlot(log[i].goal) = GenericSlot(e.goal)
      BY <3>1, <2>1, <1>4 DEF Recorded, SameQuery, Answered, GenericSlot, Answers
    <3>3. c[GenericSlot(e.goal)] = "strong"
      BY <3>1, <3>2, <2>1, <1>4 DEF Recorded
    <3>4. QED
      BY <3>1, <3>3, <1>4 DEF Answered, Answers
  <2>4. QED
    BY <1>1, <2>2, <2>3
<1>5. LogRight(new, d)
  BY <1>1, <1>3, <1>4 DEF LogRight
<1>6. QED
  BY <1>5 DEF new

\* The entry of a simplification answers no query.
LEMMA FormulaLogged ==
  ASSUME TypeOK, NEW r \in {"formula", "exception"}, NEW log, LogRight(log, cache)
  PROVE  LogRight(Append(log, FormulaEntry(r)), cache)
<1>1. FormulaEntry(r) \in Entry
  BY DEF FormulaEntry, Logged, Entry, TypeOK
<1>2. Recorded(FormulaEntry(r), cache) /\ FormulaEntry(r).res # "weak"
  BY DEF FormulaEntry, Logged, Recorded, Answers, Kinds
<1>3. QED
  BY <1>1, <1>2, LogExtends

\* The entry of a query says what was told, if that is what the cache says.
LEMMA QueryLogged ==
  ASSUME TypeOK, LogRight(proof_log, cache),
         NEW g \in Goals, NEW b \in BOOLEAN, NEW r \in Answers \cup {"exception"}, NEW d,
         \A h \in Goals :
           cache[GenericSlot(h)] = "strong" => d[GenericSlot(h)] = "strong",
         r = "strong" => g \in Proved /\ (~NoCache => d[GenericSlot(g)] = "strong"),
         ~NoCache /\ r = "weak" => cache[GenericSlot(g)] # "strong"
  PROVE  LogRight(Append(proof_log, Logged(KindOf[g], g, b, r)), d)
<1> DEFINE e == Logged(KindOf[g], g, b, r)
<1>1. e.kind = KindOf[g] /\ e.goal = g /\ e.res = r
  BY DEF Logged
<1>2. e \in Entry
  BY CacheAssumption DEF Logged, Entry, TypeOK, Answers
<1> HIDE DEF e
<1>3. Recorded(e, d)
  BY <1>1 DEF Recorded
<1>4. LogRight(Append(proof_log, e), d)
  BY <1>1, <1>2, <1>3, LogExtends
<1>5. QED
  BY <1>4 DEF e

-----------------------------------------------------------------------------
\* What a hit finds.
LEMMA Found ==
  ASSUME CacheInv, NEW g \in Goals, NEW p \in Provers, FindCache(g, p) # "none"
  PROVE  /\ FindCache(g, p) \in Answers
         /\ FindCache(g, p) = "strong" =>
              g \in Proved /\ cache[GenericSlot(g)] = "strong"
         /\ FindCache(g, p) = "weak" => cache[GenericSlot(g)] # "strong"
<1> DEFINE s == GenericSlot(g)
           t == OwnSlot(g, p)
<1>1. s \in Slots /\ t \in Slots /\ s[3] = Generic /\ t[3] # Generic
  BY SlotTypes
<1>2. KindOf[g] = s[1] /\ KeyOf[g] = s[2]
  BY SlotTypes
<1>3. cache[s] \in Answers \cup {"none"} /\ cache[t] \in Answers \cup {"none"}
  BY <1>1 DEF CacheInv, TypeOK
<1>4. cache[s] # "weak" /\ cache[t] # "strong" /\ (cache[s] = "strong" => g \in Proved)
  BY <1>1, <1>2 DEF CacheInv, Truthful
<1>5. QED
  BY <1>3, <1>4 DEF FindCache, Answers

\* Storing an answer: the tables stay truthful and lose no proof.
LEMMA Stored ==
  ASSUME CacheInv, KeyFaithful, NEW r \in Answers, pc = "proving", Store(r),
         r = "strong" => goal \in Proved
  PROVE  /\ cache' \in [Slots -> Answers \cup {"none"}]
         /\ \A s \in Slots : Truthful(s)'
         /\ \A h \in Goals :
              cache[GenericSlot(h)] = "strong" => cache'[GenericSlot(h)] = "strong"
         /\ r = "strong" /\ ~NoCache => cache'[GenericSlot(goal)] = "strong"
<1>1. goal \in Goals /\ pure_tp \in Provers
  BY DEF CacheInv, TypeOK
<1> DEFINE w == Slot(goal, pure_tp, r)
<1>2. w \in Slots
  BY <1>1, SlotTypes DEF Slot
<1>3. CASE NoCache
  BY <1>3 DEF Store, CacheInv, TypeOK, Truthful
<1>4. CASE ~NoCache
  <2>1. /\ cache' = [cache EXCEPT ![w] = r]
        /\ cache \in [Slots -> Answers \cup {"none"}]
    BY <1>4 DEF Store, CacheInv, TypeOK
  <2> HIDE DEF w
  <2>2. cache' \in [Slots -> Answers \cup {"none"}]
    BY <2>1
  <2>3. /\ cache'[w] = r
        /\ \A s \in Slots : s # w => cache'[s] = cache[s]
    BY <1>2, <2>1
  <2>4. ASSUME NEW s \in Slots
        PROVE  Truthful(s)'
    <3>1. CASE s # w
      BY <2>3, <2>4, <3>1 DEF CacheInv, Truthful
    <3>2. CASE s = w /\ r = "strong"
      <4>1. s[1] = KindOf[goal] /\ s[2] = KeyOf[goal] /\ s[3] = Generic
        BY <1>1, <3>2, SlotTypes DEF w, Slot
      <4>2. goal \in Proved
        BY <3>2
      <4>3. QED
        BY <1>1, <2>3, <3>2, <4>1, <4>2 DEF Truthful, KeyFaithful
    <3>3. CASE s = w /\ r = "weak"
      <4>1. s[3] # Generic
        BY <1>1, <3>3, SlotTypes DEF w, Slot
      <4>2. QED
        BY <2>3, <3>3, <4>1 DEF Truthful
    <3>4. QED
      BY <3>1, <3>2, <3>3 DEF Answers
  <2>5. ASSUME NEW h \in Goals, cache[GenericSlot(h)] = "strong"
        PROVE  cache'[GenericSlot(h)] = "strong"
    <3>1. GenericSlot(h) \in Slots
      BY <1>1, SlotTypes
    <3>2. CASE r = "strong"
      BY <2>3, <2>5, <3>1, <3>2
    <3>3. CASE r = "weak"
      <4>1. GenericSlot(h) # w
        BY <1>1, <3>3, SlotTypes DEF w, Slot
      <4>2. QED
        BY <2>3, <2>5, <3>1, <4>1
    <3>4. QED
      BY <3>2, <3>3 DEF Answers
  <2>6. r = "strong" => cache'[GenericSlot(goal)] = "strong"
    BY <2>3 DEF w, Slot
  <2>7. QED
    BY <2>2, <2>4, <2>5, <2>6
<1>5. QED
  BY <1>3, <1>4

LEMMA CacheStep ==
  ASSUME KeyFaithful, CacheInv, [Next]_vars
  PROVE  CacheInv'
<1> USE DEF CacheInv
<1>1. ASSUME NEW g \in Goals, Ask(g)
      PROVE  CacheInv'
  <2>1. TypeOK'
    BY <1>1 DEF Ask, TypeOK
  <2>2. QED
    BY <1>1, <2>1 DEF Ask, Truthful, Needed
<1>2. CASE Hit
  <2>1. goal \in Goals /\ pure_tp \in Provers /\ cache_status \in BOOLEAN
    BY <1>2 DEF Hit, TypeOK
  <2>2. LogRight(proof_log', cache')
    <3>1. /\ FindCache(goal, pure_tp) \in Answers
          /\ FindCache(goal, pure_tp) = "strong" =>
               goal \in Proved /\ cache[GenericSlot(goal)] = "strong"
          /\ FindCache(goal, pure_tp) = "weak" => cache[GenericSlot(goal)] # "strong"
      BY <1>2, <2>1, Found DEF Hit
    <3>2. QED
      BY <1>2, <2>1, <3>1, QueryLogged DEF Hit, LogProof
  <2>3. TypeOK'
    BY <1>2, <2>2 DEF Hit, TypeOK, LogRight
  <2>4. QED
    BY <1>2, <2>2, <2>3 DEF Hit, Truthful, Needed
<1>3. CASE LookUp \/ Miss
  <2>1. TypeOK'
    BY <1>3 DEF LookUp, Miss, TypeOK
  <2>2. Needed'
    BY <1>3 DEF LookUp, Miss, Needed, FindCache
  <2>3. QED
    BY <1>3, <2>1, <2>2 DEF LookUp, Miss, Truthful
<1>4. ASSUME NEW r \in Answers, ProverAnswers(r) \/ AnswerLost(r)
      PROVE  CacheInv'
  <2>1. /\ pc = "proving" /\ Store(r) /\ (r = "strong" => goal \in Proved)
        /\ goal \in Goals /\ cache_status \in BOOLEAN
    BY <1>4 DEF ProverAnswers, AnswerLost, TypeOK
  <2>2. /\ cache' \in [Slots -> Answers \cup {"none"}]
        /\ \A s \in Slots : Truthful(s)'
        /\ \A h \in Goals :
             cache[GenericSlot(h)] = "strong" => cache'[GenericSlot(h)] = "strong"
        /\ r = "strong" /\ ~NoCache => cache'[GenericSlot(goal)] = "strong"
    BY <2>1, Stored
  <2>3. LogRight(proof_log', cache')
    <3>1. ~NoCache => cache[GenericSlot(goal)] # "strong"
      BY <2>1 DEF Needed, FindCache
    <3>2. /\ LogRight(Append(proof_log, Logged(KindOf[goal], goal, cache_status, r)),
                      cache')
          /\ LogRight(Append(proof_log,
                            Logged(KindOf[goal], goal, cache_status, "exception")),
                      cache')
      BY <2>1, <2>2, <3>1, QueryLogged
    <3>3. QED
      BY <1>4, <3>2 DEF ProverAnswers, AnswerLost, LogProof
  <2>4. TypeOK'
    BY <1>4, <2>2, <2>3 DEF ProverAnswers, AnswerLost, TypeOK, LogRight
  <2>5. QED
    BY <1>4, <2>2, <2>3, <2>4 DEF ProverAnswers, AnswerLost, Needed
<1>5. CASE QueryRaises
  <2>1. LogRight(proof_log', cache')
    <3>1. goal \in Goals /\ cache_status \in BOOLEAN
      BY <1>5 DEF QueryRaises, TypeOK
    <3>2. LogRight(Append(proof_log, Logged(KindOf[goal], goal, cache_status, "exception")),
                   cache)
      BY <3>1, QueryLogged
    <3>3. QED
      BY <1>5, <3>2 DEF QueryRaises, LogProof
  <2>2. TypeOK'
    BY <1>5, <2>1 DEF QueryRaises, TypeOK, LogRight
  <2>3. QED
    BY <1>5, <2>1, <2>2 DEF QueryRaises, Truthful, Needed
<1>6. ASSUME Computes \/ SimplifyFails \/ HullRaises
      PROVE  CacheInv'
  <2>1. LogRight(proof_log', cache)
    <3>1. CASE Computes
      BY <3>1, FormulaLogged DEF Computes
    <3>2. CASE SimplifyFails
      BY <3>2, FormulaLogged DEF SimplifyFails
    <3>3. CASE HullRaises
      BY <3>3, FormulaLogged DEF HullRaises
    <3>4. QED
      BY <1>6, <3>1, <3>2, <3>3
  <2>2. cache' = cache /\ pc' \in {"idle", "raising"}
    BY <1>6 DEF Computes, SimplifyFails, HullRaises
  <2>3. TypeOK'
    BY <1>6, <2>1, <2>2 DEF Computes, SimplifyFails, HullRaises, TypeOK, LogRight
  <2>4. QED
    BY <2>1, <2>2, <2>3 DEF Truthful, Needed
<1>7. ASSUME NEW prv \in Provers, WrapProver(prv)
      PROVE  CacheInv'
  <2>1. saved' \in Seq(Provers)
    BY <1>7, Appended DEF WrapProver, TypeOK
  <2>2. TypeOK'
    BY <1>7, <2>1 DEF WrapProver, TypeOK
  <2>3. QED
    BY <1>7, <2>2 DEF WrapProver, Truthful, Needed
<1>8. ASSUME WrapReturns \/ WrapRaises
      PROVE  CacheInv'
  <2>1. pure_tp' \in Provers /\ saved' \in Seq(Provers)
    BY <1>8, PutBackType DEF WrapReturns, WrapRaises
  <2>2. TypeOK'
    BY <1>8, <2>1 DEF WrapReturns, WrapRaises, TypeOK
  <2>3. QED
    BY <1>8, <2>2 DEF WrapReturns, WrapRaises, Truthful, Needed
<1>9. CASE Catch
  <2>1. TypeOK'
    BY <1>9 DEF Catch, TypeOK
  <2>2. QED
    BY <1>9, <2>1 DEF Catch, Truthful, Needed
<1>10. CASE UNCHANGED vars
  <2>1. TypeOK'
    BY <1>10 DEF vars, TypeOK
  <2>2. QED
    BY <1>10, <2>1 DEF vars, Truthful, Needed, FindCache
<1>11. QED
  BY <1>1, <1>2, <1>3, <1>4, <1>5, <1>6, <1>7, <1>8, <1>9, <1>10
     DEF Next

\* The strengthened invariant, if goals with one normal form have one answer.
LEMMA CacheInvariant ==
  ASSUME KeyFaithful
  PROVE  Spec => []CacheInv
<1>1. Init => CacheInv
  BY CacheInit
<1>2. CacheInv /\ [Next]_vars => CacheInv'
  BY CacheStep
<1>3. QED
  BY <1>1, <1>2, PTL DEF Spec

\* The cache never turns a wrong answer into a right one: if the normal form of
\* a goal determines its answer, "unsatisfiable" and "valid" are only ever said
\* of goals of which they hold (find_cache, sat_cache, imply_cache).
THEOREM CacheSound ==
  ASSUME KeyFaithful
  PROVE  Spec => []StrongIsTrue
<1>1. CacheInv => StrongIsTrue
  BY DEF CacheInv, LogRight, Recorded, StrongIsTrue, ToldStrong
<1>2. QED
  BY <1>1, CacheInvariant, PTL

\* Under the same assumption a goal once proved is never again reported as not
\* proved, under any prover (the order of the two lookups in find_cache).
THEOREM CacheNeverWeakens ==
  ASSUME KeyFaithful
  PROVE  Spec => []NeverWeakens
<1>1. CacheInv => NeverWeakens
  BY DEF CacheInv, LogRight, NeverWeakens, ToldStrong
<1>2. QED
  BY <1>1, CacheInvariant, PTL

-----------------------------------------------------------------------------
\* What follows does not depend on KeyFaithful.

\* The entry of a query has the type of an entry.
LEMMA EntryType ==
  ASSUME TypeOK, NEW g \in Goals, NEW b \in BOOLEAN, NEW r \in Answers \cup {"exception"}
  PROVE  Logged(KindOf[g], g, b, r) \in Entry
  BY CacheAssumption DEF Logged, Entry, TypeOK, Answers

LEMMA TypeStep ==
  ASSUME TypeOK, [Next]_vars
  PROVE  TypeOK'
<1>1. ASSUME NEW g \in Goals, Ask(g)
      PROVE  TypeOK'
  BY <1>1 DEF Ask, TypeOK
<1>2. CASE Hit
  <2>1. FindCache(goal, pure_tp) \in Answers /\ goal \in Goals
    BY <1>2, SlotTypes DEF Hit, FindCache, TypeOK
  <2>2. proof_log' \in Seq(Entry)
    BY <1>2, <2>1, EntryType, Appended DEF Hit, LogProof, TypeOK
  <2>3. QED
    BY <1>2, <2>2 DEF Hit, TypeOK
<1>3. CASE LookUp \/ Miss
  BY <1>3 DEF LookUp, Miss, TypeOK
<1>4. ASSUME NEW r \in Answers, ProverAnswers(r) \/ AnswerLost(r)
      PROVE  TypeOK'
  <2>1. goal \in Goals
    BY <1>4 DEF ProverAnswers, AnswerLost, TypeOK
  <2>2. proof_log' \in Seq(Entry)
    <3>1. PICK q \in {r, "exception"} :
            proof_log' = Append(proof_log, Logged(KindOf[goal], goal, cache_status, q))
      BY <1>4 DEF ProverAnswers, AnswerLost, LogProof
    <3>2. Logged(KindOf[goal], goal, cache_status, q) \in Entry
      BY <2>1, EntryType DEF TypeOK
    <3>3. QED
      BY <3>1, <3>2, Appended DEF TypeOK
  <2>3. cache' \in [Slots -> Answers \cup {"none"}]
    BY <1>4 DEF ProverAnswers, AnswerLost, Store, TypeOK
  <2>4. QED
    BY <1>4, <2>2, <2>3 DEF ProverAnswers, AnswerLost, TypeOK
<1>5. CASE QueryRaises
  <2>1. goal \in Goals
    BY <1>5 DEF QueryRaises, TypeOK
  <2>2. proof_log' \in Seq(Entry)
    BY <1>5, <2>1, EntryType, Appended DEF QueryRaises, LogProof, TypeOK
  <2>3. QED
    BY <1>5, <2>2 DEF QueryRaises, TypeOK
<1>6. CASE Computes \/ SimplifyFails \/ HullRaises
  <2>1. \A r \in {"formula", "exception"} : FormulaEntry(r) \in Entry
    BY DEF FormulaEntry, Logged, Entry, TypeOK
  <2>2. \A r \in {"formula", "exception"}, log \in Seq(Entry) :
          Append(log, FormulaEntry(r)) \in Seq(Entry)
    BY <2>1, Appended
  <2>3. proof_log' \in Seq(Entry)
    <3>1. proof_log \in Seq(Entry)
      BY DEF TypeOK
    <3>2. CASE Computes
      BY <2>2, <3>1, <3>2 DEF Computes
    <3>3. CASE SimplifyFails
      BY <2>2, <3>1, <3>3 DEF SimplifyFails
    <3>4. CASE HullRaises
      BY <2>2, <3>1, <3>4 DEF HullRaises
    <3>5. QED
      BY <1>6, <3>2, <3>3, <3>4
  <2>4. QED
    BY <1>6, <2>3 DEF Computes, SimplifyFails, HullRaises, TypeOK
<1>7. ASSUME NEW prv \in Provers, WrapProver(prv)
      PROVE  TypeOK'
  <2>1. saved' \in Seq(Provers)
    BY <1>7, Appended DEF WrapProver, TypeOK
  <2>2. QED
    BY <1>7, <2>1 DEF WrapProver, TypeOK
<1>8. CASE WrapReturns \/ WrapRaises
  <2>1. pure_tp' \in Provers /\ saved' \in Seq(Provers)
    BY <1>8, PutBackType DEF WrapReturns, WrapRaises
  <2>2. QED
    BY <1>8, <2>1 DEF WrapReturns, WrapRaises, TypeOK
<1>9. CASE Catch
  BY <1>9 DEF Catch, TypeOK
<1>10. CASE UNCHANGED vars
  BY <1>10 DEF vars, TypeOK
<1>11. QED
  BY <1>1, <1>2, <1>3, <1>4, <1>5, <1>6, <1>7, <1>8, <1>9, <1>10
     DEF Next

LEMMA TypeInit == Init => TypeOK
  BY CacheInit DEF CacheInv

\* Every variable keeps its type.
THEOREM TypeCorrect == Spec => []TypeOK
<1>1. TypeOK /\ [Next]_vars => TypeOK'
  BY TypeStep
<1>2. QED
  BY <1>1, TypeInit, PTL DEF Spec

-----------------------------------------------------------------------------
\* wrap_prover and its two ways out leave the outermost prover alone.
LEMMA OutermostStep ==
  ASSUME TypeOK, Next
  PROVE  Outermost' = Outermost
<1>1. ASSUME NEW prv \in Provers, WrapProver(prv)
      PROVE  Outermost' = Outermost
  <2>1. /\ Len(saved) \in Nat
        /\ Len(saved') = Len(saved) + 1
        /\ \A i \in 1 .. Len(saved) : saved'[i] = saved[i]
        /\ saved'[Len(saved) + 1] = pure_tp
    BY <1>1, Appended DEF WrapProver, TypeOK
  <2>2. saved' # <<>>
    BY <2>1, LenProperties
  <2>3. CASE saved = <<>>
    BY <2>1, <2>2, <2>3 DEF Outermost
  <2>4. CASE saved # <<>>
    <3>1. 1 \in 1 .. Len(saved)
      BY <2>1, <2>4, EmptySeq DEF TypeOK
    <3>2. QED
      BY <2>1, <2>2, <2>4, <3>1 DEF Outermost
  <2>5. QED
    BY <2>3, <2>4
<1>2. CASE WrapReturns \/ WrapRaises
  <2> DEFINE n == Len(saved)
  <2>1. /\ saved # <<>> /\ n \in Nat /\ n >= 1
        /\ pure_tp' = saved[n] /\ saved' = SubSeq(saved, 1, n - 1)
    BY <1>2, EmptySeq, LenProperties DEF WrapReturns, WrapRaises, PutBack, TypeOK
  <2> HIDE DEF n
  <2>2. CASE n = 1
    <3>1. saved' = <<>>
      BY <2>1, <2>2 DEF TypeOK, n
    <3>2. QED
      BY <2>1, <2>2, <3>1 DEF Outermost
  <2>3. CASE n > 1
    <3>1. Len(saved') = n - 1 /\ saved'[1] = saved[1]
      BY <2>1, <2>3 DEF TypeOK, n
    <3>2. n \in Nat /\ n > 1
      BY <2>1, <2>3
    <3>3. saved' # <<>>
      BY <3>1, <3>2
    <3>4. QED
      BY <2>1, <3>1, <3>3 DEF Outermost
  <2>4. QED
    BY <2>1, <2>2, <2>3
<1>3. CASE UNCHANGED <<pure_tp, saved>>
  BY <1>3 DEF Outermost
<1>4. QED
  BY <1>1, <1>2, <1>3
     DEF Next, Ask, LookUp, Hit, Miss, ProverAnswers, AnswerLost, QueryRaises, Computes,
         SimplifyFails, HullRaises, Catch

\* The prover the program was started with is the one to come back to, whatever
\* is raised inside wrap_prover.
THEOREM ProverAlwaysKept == Spec => ProverKept
<1>1. TypeOK /\ [Next]_vars => [Outermost' = Outermost]_vars
  BY OutermostStep
<1>2. QED
  BY <1>1, TypeCorrect, PTL DEF Spec, ProverKept

-----------------------------------------------------------------------------
\* Entry d is a run of a prover that gave answer a, stored in slot s.
Backs(d, s, a) ==
  /\ ~d.cached /\ d.res \in {a, "exception"}
  /\ d.kind = s[1] /\ KeyOf[d.goal] = s[2]
  /\ a = "strong" => s[3] = Generic
  /\ a = "weak" => d.tp = s[3]

\* The entry of an answer is that of a goal of its kind.
OfGoal(e) == Answered(e) => e.goal \in Goals /\ e.kind = KindOf[e.goal]

\* Every answer in the cache c was given by a run in the log, every answer in
\* the log is in the cache, and the log is as LogTellsRuns says.
LogBacked(log, c) ==
  /\ log \in Seq(Entry)
  /\ \A i \in DOMAIN log : OfGoal(log[i])
  /\ \A s \in Slots : c[s] # "none" => \E i \in DOMAIN log : Backs(log[i], s, c[s])
  /\ \A j \in DOMAIN log :
       Answered(log[j]) /\ log[j].cached => \E i \in 1 .. j - 1 : StandsOn(log[j], log[i])
  /\ ~NoCache =>
       /\ \A i \in DOMAIN log :
            Answered(log[i]) =>
              \/ c[GenericSlot(log[i].goal)] # "none"
              \/ log[i].res = "weak" /\ c[OwnSlot(log[i].goal, log[i].tp)] # "none"
       /\ \A i, j \in DOMAIN log :
            i < j /\ Settles(log[i], log[j]) /\ Answered(log[j]) => log[j].cached

\* The flag is up while the cache is looked through, and down while a prover
\* runs and when there is no cache.
Flagged ==
  /\ pc = "looking" => cache_status
  /\ pc = "proving" \/ NoCache => ~cache_status
  /\ NoCache => pc \notin {"asked", "looking"}

RunsInv == TypeOK /\ Needed /\ Flagged /\ LogBacked(proof_log, cache)

\* An entry appended to a backed log while the cache goes from c to d leaves the
\* log backed: no answer is lost, a new one is backed by the entry, the entry
\* is in the cache if it answers, and it is a hit exactly when c has the answer.
LEMMA BackedExtends ==
  ASSUME NEW log, NEW c, NEW d, NEW e \in Entry,
         LogBacked(log, c), OfGoal(e),
         \A s \in Slots :
           /\ c[s] # "none" => d[s] # "none"
           /\ d[s] # "none" => d[s] = c[s] \/ Backs(e, s, d[s]),
         Answered(e) /\ e.cached =>
           \E s \in Slots : /\ c[s] = e.res /\ e.res # "none"
                            /\ s[1] = e.kind /\ s[2] = KeyOf[e.goal]
                            /\ s[3] \in {Generic, e.tp},
         ~NoCache /\ Answered(e) =>
           \/ d[GenericSlot(e.goal)] # "none"
           \/ e.res = "weak" /\ d[OwnSlot(e.goal, e.tp)] # "none",
         ~NoCache /\ Answered(e) /\ ~e.cached =>
           c[GenericSlot(e.goal)] = "none" /\ c[OwnSlot(e.goal, e.tp)] = "none"
  PROVE  LogBacked(Append(log, e), d)
<1> DEFINE n == Len(log)
           new == Append(log, e)
<1>1. /\ new \in Seq(Entry)
      /\ n \in Nat
      /\ DOMAIN log = 1 .. n
      /\ DOMAIN new = 1 .. n + 1
      /\ \A i \in 1 .. n : new[i] = log[i]
      /\ new[n + 1] = e
  BY Appended DEF LogBacked
<1>2. \A i \in 1 .. n : log[i] \in Entry
  BY <1>1 DEF LogBacked
<1> HIDE DEF n, new
<1>3. \A i \in DOMAIN new : OfGoal(new[i])
  BY <1>1 DEF LogBacked
<1>4. ASSUME NEW s \in Slots, d[s] # "none"
      PROVE  \E i \in DOMAIN new : Backs(new[i], s, d[s])
  <2>1. CASE Backs(e, s, d[s])
    BY <1>1, <2>1
  <2>2. CASE d[s] = c[s]
    <3>1. PICK i \in 1 .. n : Backs(log[i], s, c[s])
      BY <1>1, <1>4, <2>2 DEF LogBacked
    <3>2. QED
      BY <1>1, <2>2, <3>1
  <2>3. QED
    BY <1>4, <2>1, <2>2
<1>5. ASSUME NEW j \in 1 .. n + 1, Answered(new[j]), new[j].cached
      PROVE  \E i \in 1 .. j - 1 : StandsOn(new[j], new[i])
  <2>1. CASE j \in 1 .. n
    <3>1. PICK i \in 1 .. j - 1 : StandsOn(log[j], log[i])
      BY <1>1, <1>5, <2>1 DEF LogBacked
    <3>2. i \in 1 .. n
      BY <1>1, <2>1
    <3>3. QED
      BY <1>1, <2>1, <3>1, <3>2
  <2>2. CASE j = n + 1
    <3>1. PICK s \in Slots : /\ c[s] = e.res /\ e.res # "none"
                             /\ s[1] = e.kind /\ s[2] = KeyOf[e.goal]
                             /\ s[3] \in {Generic, e.tp}
      BY <1>1, <1>5, <2>2
    <3>2. PICK i \in 1 .. n : Backs(log[i], s, c[s])
      BY <1>1, <3>1 DEF LogBacked
    <3>3. log[i].tp \in Provers /\ log[i].tp # Generic
      BY <1>2, CacheAssumption DEF Entry
    <3>4. e.kind \in Kinds
      BY <3>1 DEF Slots
    <3>5. SameQuery(log[i], e)
      BY <3>1, <3>2, <3>4 DEF Backs, SameQuery
    <3>6. StandsOn(e, log[i])
      BY <1>1, <1>5, <2>2, <3>1, <3>2, <3>3, <3>5 DEF Backs, StandsOn
    <3>7. QED
      BY <1>1, <2>2, <3>6
  <2>3. QED
    BY <1>1, <2>1, <2>2
<1>6. ASSUME ~NoCache, NEW i \in 1 .. n + 1, Answered(new[i])
      PROVE  \/ d[GenericSlot(new[i].goal)] # "none"
             \/ new[i].res = "weak" /\ d[OwnSlot(new[i].goal, new[i].tp)] # "none"
  <2>1. CASE i \in 1 .. n
    <3>1. /\ log[i].goal \in Goals /\ log[i].tp \in Provers
          /\ \/ c[GenericSlot(log[i].goal)] # "none"
             \/ log[i].res = "weak" /\ c[OwnSlot(log[i].goal, log[i].tp)] # "none"
      BY <1>1, <1>2, <1>6, <2>1 DEF LogBacked, OfGoal, Entry
    <3>2. QED
      BY <1>1, <2>1, <3>1, SlotTypes
  <2>2. CASE i = n + 1
    BY <1>1, <1>6, <2>2
  <2>3. QED
    BY <1>1, <2>1, <2>2
<1>7. ASSUME ~NoCache, NEW i \in 1 .. n + 1, NEW j \in 1 .. n + 1, i < j,
             Settles(new[i], new[j]), Answered(new[j])
      PROVE  new[j].cached
  <2>1. i \in 1 .. n /\ new[i] = log[i]
    BY <1>1, <1>7
  <2>2. CASE j \in 1 .. n
    BY <1>1, <1>7, <2>1, <2>2 DEF LogBacked
  <2>3. CASE j = n + 1
    <3>1. new[j] = e /\ e.kind = KindOf[e.goal]
      BY <1>1, <1>7, <2>3 DEF OfGoal
    <3>2. Answered(log[i]) /\ log[i].kind = KindOf[log[i].goal]
      BY <1>1, <1>7, <2>1 DEF LogBacked, OfGoal, Settles
    <3>3. /\ GenericSlot(log[i].goal) = GenericSlot(e.goal)
          /\ log[i].res = "strong" \/ log[i].tp = e.tp
          /\ \A p \in Provers : OwnSlot(log[i].goal, p) = OwnSlot(e.goal, p)
      BY <1>7, <2>1, <3>1, <3>2 DEF Settles, SameQuery, GenericSlot, OwnSlot
    <3>4. \/ c[GenericSlot(log[i].goal)] # "none"
          \/ log[i].res = "weak" /\ c[OwnSlot(log[i].goal, log[i].tp)] # "none"
      BY <1>1, <1>7, <2>1, <3>2 DEF LogBacked
    <3>5. e.tp \in Provers
      BY DEF Entry
    <3>6. c[GenericSlot(e.goal)] # "none" \/ c[OwnSlot(e.goal, e.tp)] # "none"
      BY <3>3, <3>4, <3>5
    <3>7. QED
      BY <1>7, <3>1, <3>6
  <2>4. QED
    BY <1>1, <2>2, <2>3
<1>8. LogBacked(new, d)
  BY <1>1, <1>3, <1>4, <1>5, <1>6, <1>7 DEF LogBacked
<1>9. QED
  BY <1>8 DEF new

-----------------------------------------------------------------------------
\* The entry of a simplification leaves the log backed.
LEMMA FormulaBacked ==
  ASSUME TypeOK, NEW r \in {"formula", "exception"}, NEW log, LogBacked(log, cache)
  PROVE  LogBacked(Append(log, FormulaEntry(r)), cache)
<1> DEFINE e == FormulaEntry(r)
<1>1. e \in Entry
  BY DEF FormulaEntry, Logged, Entry, TypeOK
<1>2. e.kind \notin Kinds /\ ~Answered(e)
  BY DEF FormulaEntry, Logged, Answered, Answers, Kinds
<1> HIDE DEF e
<1>3. LogBacked(Append(log, e), cache)
  BY <1>1, <1>2, BackedExtends DEF OfGoal
<1>4. QED
  BY <1>3 DEF e

\* A hit, a run and an exception, each with its entry.
LEMMA HitBacked ==
  ASSUME RunsInv, Hit
  PROVE  LogBacked(proof_log', cache')
<1> DEFINE e == Logged(KindOf[goal], goal, TRUE, FindCache(goal, pure_tp))
<1>1. TypeOK /\ LogBacked(proof_log, cache) /\ goal \in Goals /\ pure_tp \in Provers
  BY DEF RunsInv, Hit, TypeOK
<1>2. FindCache(goal, pure_tp) \in Answers
  BY SlotTypes, <1>1 DEF Hit, FindCache, TypeOK
<1>3. /\ e \in Entry /\ e.kind = KindOf[goal] /\ e.goal = goal /\ e.cached
      /\ e.tp = pure_tp /\ e.res = FindCache(goal, pure_tp)
  BY <1>1, <1>2, EntryType DEF Logged
<1>4. proof_log' = Append(proof_log, e) /\ cache' = cache
  <2>1. cache_status = TRUE
    BY <1>1 DEF Hit, RunsInv, Flagged, TypeOK
  <2>2. QED
    BY <2>1 DEF Hit, LogProof
<1> HIDE DEF e
<1>5. OfGoal(e)
  BY <1>1, <1>3 DEF OfGoal
<1>6. PICK s \in {GenericSlot(goal), OwnSlot(goal, pure_tp)} : cache[s] = e.res
  BY <1>3 DEF FindCache
<1>7. /\ s \in Slots /\ s[1] = KindOf[goal] /\ s[2] = KeyOf[goal]
      /\ s[3] \in {Generic, pure_tp}
  <2>1. CASE s = GenericSlot(goal)
    BY <1>1, <2>1, SlotTypes
  <2>2. CASE s = OwnSlot(goal, pure_tp)
    <3>1. s \in Slots /\ s[3] = pure_tp
      BY <1>1, <2>2, SlotTypes
    <3>2. s[1] = KindOf[goal] /\ s[2] = KeyOf[goal]
      BY <2>2 DEF OwnSlot
    <3>3. QED
      BY <3>1, <3>2
  <2>3. QED
    BY <2>1, <2>2
<1>8. e.res # "none"
  BY <1>2, <1>3 DEF Answers
<1>9. cache[GenericSlot(goal)] # "none" \/ (e.res = "weak" /\ cache[s] # "none")
  <2>1. CASE s = GenericSlot(goal)
    BY <1>6, <1>8, <2>1
  <2>2. CASE s = OwnSlot(goal, pure_tp)
    <3>1. s[3] # Generic
      BY <1>1, <2>2, SlotTypes
    <3>2. PICK i \in DOMAIN proof_log : Backs(proof_log[i], s, cache[s])
      BY <1>1, <1>6, <1>7, <1>8 DEF LogBacked
    <3>3. cache[s] # "strong"
      BY <3>1, <3>2 DEF Backs
    <3>4. QED
      BY <1>2, <1>3, <1>6, <1>8, <3>3 DEF Answers
  <2>3. QED
    BY <2>1, <2>2
<1>10. LogBacked(Append(proof_log, e), cache)
  <2>1. \E t \in Slots : /\ cache[t] = e.res /\ e.res # "none"
                         /\ t[1] = e.kind /\ t[2] = KeyOf[e.goal]
                         /\ t[3] \in {Generic, e.tp}
    BY <1>3, <1>6, <1>7, <1>8
  <2>2. \/ cache[GenericSlot(e.goal)] # "none"
        \/ e.res = "weak" /\ cache[OwnSlot(e.goal, e.tp)] # "none"
    BY <1>3, <1>6, <1>9
  <2>3. QED
    BY <1>1, <1>3, <1>5, <2>1, <2>2, BackedExtends
<1>11. QED
  BY <1>4, <1>10

\* A run, whether its answer is logged or an exception comes before.
LEMMA RunBacked ==
  ASSUME RunsInv, NEW r \in Answers, pc = "proving", Store(r),
         NEW q \in {r, "exception"}
  PROVE  LogBacked(Append(proof_log, Logged(KindOf[goal], goal, cache_status, q)), cache')
<1> DEFINE e == Logged(KindOf[goal], goal, cache_status, q)
           w == Slot(goal, pure_tp, r)
<1>1. /\ TypeOK /\ LogBacked(proof_log, cache) /\ ~cache_status
      /\ goal \in Goals /\ pure_tp \in Provers
      /\ ~NoCache => FindCache(goal, pure_tp) = "none"
  BY DEF RunsInv, Flagged, Needed, TypeOK
<1>2. /\ e \in Entry /\ e.kind = KindOf[goal] /\ e.goal = goal /\ ~e.cached
      /\ e.tp = pure_tp /\ e.res = q
  BY <1>1, EntryType DEF Logged, TypeOK
<1> HIDE DEF e
<1>3. OfGoal(e) /\ r # "none" /\ (Answered(e) => q = r)
  BY <1>1, <1>2 DEF OfGoal, Answered, Answers
<1>4. /\ w \in Slots
      /\ r = "strong" => w = GenericSlot(goal)
      /\ r = "weak" => w = OwnSlot(goal, pure_tp)
  BY <1>1, SlotTypes DEF Slot
<1>5. Backs(e, w, r)
  BY <1>1, <1>2 DEF Backs, Slot, GenericSlot, OwnSlot
<1>6. cache' = (IF NoCache THEN cache ELSE [cache EXCEPT ![w] = r])
  BY DEF Store
<1> HIDE DEF w
<1>7. \A s \in Slots : cache'[s] = IF ~NoCache /\ s = w THEN r ELSE cache[s]
  BY <1>1, <1>6 DEF TypeOK
<1>8. \A s \in Slots :
        /\ cache[s] # "none" => cache'[s] # "none"
        /\ cache'[s] # "none" => cache'[s] = cache[s] \/ Backs(e, s, cache'[s])
  BY <1>3, <1>5, <1>7
<1>9. ~NoCache /\ Answered(e) =>
        \/ cache'[GenericSlot(e.goal)] # "none"
        \/ e.res = "weak" /\ cache'[OwnSlot(e.goal, e.tp)] # "none"
  BY <1>2, <1>3, <1>4, <1>7 DEF Answers
<1>10. ~NoCache =>
         cache[GenericSlot(e.goal)] = "none" /\ cache[OwnSlot(e.goal, e.tp)] = "none"
  BY <1>1, <1>2 DEF FindCache
<1>11. LogBacked(Append(proof_log, e), cache')
  BY <1>1, <1>2, <1>3, <1>8, <1>9, <1>10, BackedExtends
<1>12. QED
  BY <1>11 DEF e

LEMMA ExceptionBacked ==
  ASSUME RunsInv, QueryRaises
  PROVE  LogBacked(proof_log', cache')
<1> DEFINE e == Logged(KindOf[goal], goal, cache_status, "exception")
<1>1. TypeOK /\ LogBacked(proof_log, cache) /\ goal \in Goals /\ cache_status \in BOOLEAN
  BY DEF RunsInv, QueryRaises, TypeOK
<1>2. e \in Entry /\ ~Answered(e)
  BY <1>1, EntryType DEF Logged, Answered, Answers
<1>3. proof_log' = Append(proof_log, e) /\ cache' = cache
  BY DEF QueryRaises, LogProof
<1> HIDE DEF e
<1>4. LogBacked(Append(proof_log, e), cache)
  BY <1>1, <1>2, BackedExtends DEF OfGoal
<1>5. QED
  BY <1>3, <1>4

LEMMA RunsInit ==
  ASSUME Init
  PROVE  RunsInv
<1>1. TypeOK /\ DOMAIN proof_log = {} /\ \A s \in Slots : cache[s] = "none"
  BY TypeInit DEF Init
<1>2. LogBacked(proof_log, cache)
  BY <1>1 DEF LogBacked, TypeOK
<1>3. QED
  BY <1>1, <1>2 DEF RunsInv, Needed, Flagged, Init

LEMMA RunsStep ==
  ASSUME RunsInv, [Next]_vars
  PROVE  RunsInv'
<1>1. TypeOK'
  BY TypeStep DEF RunsInv
<1>2. LogBacked(proof_log', cache')
  <2>1. CASE Hit
    BY <2>1, HitBacked
  <2>2. ASSUME NEW r \in Answers, ProverAnswers(r) \/ AnswerLost(r)
        PROVE  LogBacked(proof_log', cache')
    <3>1. pc = "proving" /\ Store(r)
      BY <2>2 DEF ProverAnswers, AnswerLost
    <3>2. PICK q \in {r, "exception"} :
            proof_log' = Append(proof_log, Logged(KindOf[goal], goal, cache_status, q))
      BY <2>2 DEF ProverAnswers, AnswerLost, LogProof
    <3>3. QED
      BY <3>1, <3>2, RunBacked
  <2>3. CASE QueryRaises
    BY <2>3, ExceptionBacked
  <2>4. CASE Computes \/ SimplifyFails \/ HullRaises
    <3>1. TypeOK /\ LogBacked(proof_log, cache)
      BY DEF RunsInv
    <3>2. CASE Computes
      BY <3>1, <3>2, FormulaBacked DEF Computes
    <3>3. CASE SimplifyFails
      BY <3>1, <3>3, FormulaBacked DEF SimplifyFails
    <3>4. CASE HullRaises
      BY <3>1, <3>4, FormulaBacked DEF HullRaises
    <3>5. QED
      BY <2>4, <3>2, <3>3, <3>4
  <2>5. CASE UNCHANGED <<proof_log, cache>>
    BY <2>5 DEF RunsInv
  <2>6. QED
    BY <2>1, <2>2, <2>3, <2>4, <2>5
       DEF Next, Ask, LookUp, Miss, WrapProver, WrapReturns, WrapRaises, Catch, vars
<1>3. Needed' /\ Flagged'
  <2>1. ASSUME NEW g \in Goals, Ask(g)
        PROVE  Needed' /\ Flagged'
    BY <2>1 DEF Ask, Needed, Flagged, RunsInv
  <2>2. CASE LookUp \/ Miss
    BY <2>2 DEF LookUp, Miss, Needed, Flagged, FindCache, RunsInv
  <2>3. pc' \in {"idle", "raising"} /\ UNCHANGED cache_status => Needed' /\ Flagged'
    BY DEF Needed, Flagged, RunsInv
  <2>4. CASE UNCHANGED vars
    BY <2>4 DEF vars, Needed, Flagged, FindCache, RunsInv
  <2>5. QED
    BY <2>1, <2>2, <2>3, <2>4
       DEF Next, Hit, ProverAnswers, AnswerLost, QueryRaises, Computes, SimplifyFails,
           HullRaises, WrapProver, WrapReturns, WrapRaises, Catch
<1>4. QED
  BY <1>1, <1>2, <1>3 DEF RunsInv

LEMMA RunsInvariant == Spec => []RunsInv
<1>1. Init => RunsInv
  BY RunsInit
<1>2. RunsInv /\ [Next]_vars => RunsInv'
  BY RunsStep
<1>3. QED
  BY <1>1, <1>2, PTL DEF Spec

\* The log tells which answers a prover was run for: an answer marked as cached
\* stands on a run before it, one not marked had none in the cache.  Also when
\* keys of different goals collide, and whatever was raised or wrapped in between,
\* before, while or after the cache was asked.
THEOREM LogAlwaysTellsRuns == Spec => []LogTellsRuns
<1>1. RunsInv => LogTellsRuns
  <2> SUFFICES ASSUME RunsInv, NEW j \in DOMAIN proof_log, Answered(proof_log[j])
               PROVE  IF proof_log[j].cached
                      THEN \E i \in 1 .. j - 1 : StandsOn(proof_log[j], proof_log[i])
                      ELSE ~NoCache =>
                             \A i \in 1 .. j - 1 : ~Settles(proof_log[i], proof_log[j])
    BY DEF LogTellsRuns
  <2>1. DOMAIN proof_log = 1 .. Len(proof_log) /\ Len(proof_log) \in Nat
    BY LenProperties DEF RunsInv, TypeOK
  <2>2. \A i \in 1 .. j - 1 : i \in DOMAIN proof_log /\ i < j
    BY <2>1
  <2>3. QED
    BY <2>2 DEF RunsInv, LogBacked
<1>2. QED
  BY <1>1, RunsInvariant, PTL

\* With the cache on no prover is run on a query it has answered or that has been
\* proved.
THEOREM NeverRunsTwice == Spec => []NoSecondRun
<1>1. RunsInv => NoSecondRun
  <2> SUFFICES ASSUME RunsInv, ~NoCache, pc = "proving", NEW i \in DOMAIN proof_log,
                      Answered(proof_log[i]), proof_log[i].kind = KindOf[goal],
                      KeyOf[proof_log[i].goal] = KeyOf[goal]
               PROVE  proof_log[i].res = "weak" /\ proof_log[i].tp # pure_tp
    BY DEF NoSecondRun
  <2>1. cache[GenericSlot(goal)] = "none" /\ cache[OwnSlot(goal, pure_tp)] = "none"
    BY DEF RunsInv, Needed, FindCache
  <2>2. proof_log[i].kind = KindOf[proof_log[i].goal]
    BY DEF RunsInv, LogBacked, OfGoal
  <2>3. /\ GenericSlot(proof_log[i].goal) = GenericSlot(goal)
        /\ OwnSlot(proof_log[i].goal, pure_tp) = OwnSlot(goal, pure_tp)
    BY <2>2 DEF GenericSlot, OwnSlot
  <2>4. \/ cache[GenericSlot(proof_log[i].goal)] # "none"
        \/ /\ proof_log[i].res = "weak"
           /\ cache[OwnSlot(proof_log[i].goal, proof_log[i].tp)] # "none"
    BY DEF RunsInv, LogBacked
  <2>5. QED
    BY <2>1, <2>3, <2>4
<1>2. QED
  BY <1>1, RunsInvariant, PTL
=============================================================================
