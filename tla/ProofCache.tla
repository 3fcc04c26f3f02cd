----------------------------- MODULE ProofCache -----------------------------
(***************************************************************************)
(* The proof cache of src/tpdispatcher.ml: tp_is_sat and tp_imply in front *)
(* of whatever prover pure_tp names, with the proof log both of them write *)
(* and the temporary change of prover made by wrap_prover (src/fixUtil.ml).*)
(*                                                                         *)
(* A goal is a query of one of two kinds, "sat" or "imply".  Its strong    *)
(* answer (unsatisfiable; valid) is a proof.  Its weak answer is what a    *)
(* prover also gives when it runs out of time or is too weak.  There is    *)
(* one table per kind.  A strong answer is stored under the normal form of *)
(* the goal alone, for any prover to use; a weak one under the normal form *)
(* and the name of the prover.                                             *)
(*                                                                         *)
(* The provers are taken to be sound (what module OmegaSession is about):  *)
(* they never prove a goal that is not in Proved.                          *)
(***************************************************************************)
EXTENDS Integers, Sequences

CONSTANTS
  Provers,    \* the values of pure_tp the run uses
  Generic,    \* no prover: the tag of what any of them may use
  Goals,      \* the queries
  NoGoal,
  KindOf,     \* "sat" or "imply"
  Keys,
  KeyOf,      \* norm_var_name, then string_of_pure_formula
  Proved,     \* the goals whose strong answer is right
  NoCache,    \* no_cache_formula
  MaxProofs,  \* bound on the length of the log
  MaxWraps    \* bound on the nesting of wrap_prover

Kinds == {"sat", "imply"}

ASSUME CacheAssumption ==
  /\ Generic \notin Provers
  /\ NoGoal \notin Goals
  /\ KindOf \in [Goals -> Kinds]
  /\ KeyOf \in [Goals -> Keys]
  /\ Proved \subseteq Goals
  /\ NoCache \in BOOLEAN
  /\ MaxProofs \in Nat
  /\ MaxWraps \in Nat

\* Goals with one key are meant to have one answer.
KeyFaithful ==
  \A g, h \in Goals :
    KindOf[g] = KindOf[h] /\ KeyOf[g] = KeyOf[h] => (g \in Proved <=> h \in Proved)

Slots == Kinds \X Keys \X (Provers \cup {Generic})
Answers == {"strong", "weak"}

VARIABLES
  pure_tp,       \* the prover in use
  saved,         \* the provers wrap_prover will put back, innermost last
  cache,         \* sat_cache and imply_cache; "none" is Not_found
  cache_status,  \* was the last query answered by the cache?
  pc,            \* "idle", "asked", "looking", "proving", "raising"
  goal,          \* of the query in progress
  proof_log      \* proof_log_stk, oldest entry first

vars == <<pure_tp, saved, cache, cache_status, pc, goal, proof_log>>

Entry ==
  [kind : Kinds \cup {"formula"}, goal : Goals \cup {NoGoal}, tp : Provers,
   cached : BOOLEAN, res : Answers \cup {"formula", "exception"}]

Init ==
  /\ pure_tp \in Provers
  /\ saved = <<>>
  /\ cache = [s \in Slots |-> "none"]
  /\ cache_status = FALSE
  /\ pc = "idle" /\ goal = NoGoal
  /\ proof_log = <<>>

-----------------------------------------------------------------------------
(* The tables.                                                              *)

\* Faulty variant (see "mutants" in PROJECT.json): one table for both kinds.
OneTable(g) == <<"imply", KeyOf[g], Generic>>

GenericSlot(g) == <<KindOf[g], KeyOf[g], Generic>>
OwnSlot(g, p) == <<KindOf[g], KeyOf[g], p>>

\* Faulty variant: the prover's own answer first.
FindOwnFirst(g, p) ==
  IF cache[OwnSlot(g, p)] # "none" THEN cache[OwnSlot(g, p)] ELSE cache[GenericSlot(g)]

\* find_cache: the sound generic answer, else the one of this very prover.
FindCache(g, p) ==
  IF cache[GenericSlot(g)] # "none" THEN cache[GenericSlot(g)] ELSE cache[OwnSlot(g, p)]

\* Faulty variant: outcomes that are not sound are stored for all provers.
SlotWithoutProver(g, p, r) == GenericSlot(g)

\* "cache only sound outcomes : unless we add prover name to it"
Slot(g, p, r) == IF r = "strong" THEN GenericSlot(g) ELSE OwnSlot(g, p)

\* add_proof_logging, called by every logger with !pure_tp and !cache_status.
\* tp is the prover the query was made under, not last_tp_used, which the entry
\* prints.
Logged(k, g, c, r) ==
  [kind |-> k, goal |-> g, tp |-> pure_tp, cached |-> c, res |-> r]

LogProof(g, c, r) == proof_log' = Append(proof_log, Logged(KindOf[g], g, c, r))

Room(n) == Len(proof_log) + n <= MaxProofs

-----------------------------------------------------------------------------
(* tp_is_sat and tp_imply.  cache_status is a global that is set on the way:  *)
(* TRUE before the lookup, FALSE when nothing was found.                      *)

\* Faulty variant: the goal of the query before is asked again.
AskStale(g) ==
  /\ pc = "idle" /\ Room(1)
  /\ pc' = IF NoCache THEN "proving" ELSE "asked"
  /\ UNCHANGED <<pure_tp, saved, cache, cache_status, goal, proof_log>>

\* log_wrapper calls sat_cache or imply_cache, which make the normal form; or
\* the prover itself when the cache is bypassed.
Ask(g) ==
  /\ pc = "idle" /\ Room(1)
  /\ pc' = IF NoCache THEN "proving" ELSE "asked"
  /\ goal' = g
  /\ UNCHANGED <<pure_tp, saved, cache, cache_status, proof_log>>

LookUp ==
  /\ pc = "asked"
  /\ pc' = "looking"
  /\ cache_status' = TRUE
  /\ UNCHANGED <<pure_tp, saved, cache, goal, proof_log>>

Hit ==
  /\ pc = "looking" /\ FindCache(goal, pure_tp) # "none"
  /\ pc' = "idle"
  /\ LogProof(goal, cache_status, FindCache(goal, pure_tp))
  /\ goal' = NoGoal
  /\ UNCHANGED <<pure_tp, saved, cache, cache_status>>

\* Not found.
Miss ==
  /\ pc = "looking" /\ FindCache(goal, pure_tp) = "none"
  /\ pc' = "proving"
  /\ cache_status' = FALSE
  /\ UNCHANGED <<pure_tp, saved, cache, goal, proof_log>>

\* Faulty variant: only sound outcomes are stored.
StoreStrongOnly(r) ==
  cache' = IF NoCache \/ r = "weak" THEN cache
           ELSE [cache EXCEPT ![Slot(goal, pure_tp, r)] = r]

Store(r) ==
  cache' = IF NoCache THEN cache ELSE [cache EXCEPT ![Slot(goal, pure_tp, r)] = r]

\* The prover answers, weakly whenever it likes.
ProverAnswers(r) ==
  /\ pc = "proving"
  /\ r = "strong" => goal \in Proved
  /\ pc' = "idle"
  /\ Store(r)
  /\ LogProof(goal, cache_status, r)
  /\ goal' = NoGoal
  /\ UNCHANGED <<pure_tp, saved, cache_status>>

(***************************************************************************)
(* Exceptions: the prover's own, and the Timeout of a guarded call around  *)
(* the query or of a timer left running, which comes at any point of it.   *)
(* log_wrapper logs it with the cache_status of the moment: before LookUp  *)
(* that of an earlier query, and TRUE from there until Miss.  A Timeout in *)
(* log_wrapper itself, after the entry is made, adds the same entry as one *)
(* at the start of the query asked again.                                  *)
(***************************************************************************)
QueryRaises ==
  /\ pc \in {"asked", "looking", "proving"}
  /\ pc' = "raising"
  /\ LogProof(goal, cache_status, "exception")
  /\ goal' = NoGoal
  /\ UNCHANGED <<pure_tp, saved, cache, cache_status>>

\* The answer is stored, and an exception comes before it is logged.
AnswerLost(r) ==
  /\ pc = "proving"
  /\ r = "strong" => goal \in Proved
  /\ pc' = "raising"
  /\ Store(r)
  /\ LogProof(goal, cache_status, "exception")
  /\ goal' = NoGoal
  /\ UNCHANGED <<pure_tp, saved, cache_status>>

-----------------------------------------------------------------------------
(* simplify, hull, pairwisecheck: no cache, but the same log, with whatever   *)
(* cache_status the last query has left.                                      *)

FormulaEntry(r) == Logged("formula", NoGoal, cache_status, r)

\* The formula computed, by any of them.
Computes ==
  /\ pc = "idle" /\ Room(1)
  /\ proof_log' = Append(proof_log, FormulaEntry("formula"))
  /\ UNCHANGED <<pure_tp, saved, cache, cache_status, pc, goal>>

\* simplify logs the exception too, after log_wrapper if it was called at all,
\* and returns the formula it was given.
SimplifyFails ==
  /\ pc = "idle"
  /\ \/ /\ Room(1)
        /\ proof_log' = Append(proof_log, FormulaEntry("exception"))
     \/ /\ Room(2)
        /\ proof_log' = Append(Append(proof_log, FormulaEntry("exception")),
                               FormulaEntry("exception"))
  /\ UNCHANGED <<pure_tp, saved, cache, cache_status, pc, goal>>

\* hull and pairwisecheck let it out.
HullRaises ==
  /\ pc = "idle" /\ Room(1)
  /\ pc' = "raising"
  /\ proof_log' = Append(proof_log, FormulaEntry("exception"))
  /\ UNCHANGED <<pure_tp, saved, cache, cache_status, goal>>

-----------------------------------------------------------------------------
(* wrap_prover prv f a: f a with pure_tp set to prv.                        *)

WrapProver(prv) ==
  /\ pc = "idle" /\ Len(saved) < MaxWraps
  /\ saved' = Append(saved, pure_tp)
  /\ pure_tp' = prv
  /\ UNCHANGED <<cache, cache_status, pc, goal, proof_log>>

\* old_prv is put back on both ways out.
PutBack ==
  /\ saved # <<>>
  /\ pure_tp' = saved[Len(saved)]
  /\ saved' = SubSeq(saved, 1, Len(saved) - 1)

WrapReturns ==
  /\ pc = "idle"
  /\ PutBack
  /\ UNCHANGED <<cache, cache_status, pc, goal, proof_log>>

\* Faulty variant: the exception leaves wrap_prover without putting it back.
WrapForgets ==
  /\ pc = "raising" /\ saved # <<>>
  /\ saved' = SubSeq(saved, 1, Len(saved) - 1)
  /\ UNCHANGED <<pure_tp, cache, cache_status, pc, goal, proof_log>>

WrapRaises ==
  /\ pc = "raising"
  /\ PutBack
  /\ UNCHANGED <<cache, cache_status, pc, goal, proof_log>>

\* Whoever made the query, inside or outside the wrapper, handles the exception.
Catch ==
  /\ pc = "raising"
  /\ pc' = "idle"
  /\ UNCHANGED <<pure_tp, saved, cache, cache_status, goal, proof_log>>

Next ==
  \/ \E g \in Goals : Ask(g)
  \/ LookUp \/ Hit \/ Miss
  \/ \E r \in Answers : ProverAnswers(r) \/ AnswerLost(r)
  \/ QueryRaises
  \/ Computes \/ SimplifyFails \/ HullRaises
  \/ \E prv \in Provers : WrapProver(prv)
  \/ WrapReturns \/ WrapRaises
  \/ Catch

Spec == Init /\ [][Next]_vars

-----------------------------------------------------------------------------
\* Every variable has its type.
TypeOK ==
  /\ pure_tp \in Provers
  /\ saved \in Seq(Provers)
  /\ cache \in [Slots -> Answers \cup {"none"}]
  /\ cache_status \in BOOLEAN
  /\ pc \in {"idle", "asked", "looking", "proving", "raising"}
  /\ goal \in IF pc \in {"asked", "looking", "proving"} THEN Goals ELSE {NoGoal}
  /\ proof_log \in Seq(Entry)

ToldStrong(i) == proof_log[i].res = "strong"

\* No query is ever told "unsatisfiable" or "valid" wrongly, whichever prover
\* it goes to, whichever prover filled the tables and whatever failed on the
\* way (sat_cache, imply_cache).
StrongIsTrue == \A i \in DOMAIN proof_log : ToldStrong(i) => proof_log[i].goal \in Proved

\* Entries for the same query: one kind, one normal form.
SameQuery(e, f) ==
  /\ e.kind = f.kind /\ e.kind \in Kinds
  /\ KeyOf[e.goal] = KeyOf[f.goal]

Answered(e) == e.res \in Answers

\* A goal proved once stays proved: no later query for it, under whatever
\* prover, is told the weak answer ("sound generic answer" first, find_cache).
NeverWeakens ==
  ~NoCache =>
    \A i, j \in DOMAIN proof_log :
      i < j /\ SameQuery(proof_log[i], proof_log[j])
        /\ ToldStrong(i) /\ Answered(proof_log[j]) => ToldStrong(j)

\* Entry d is that of a run of a prover, which gave the answer of e or was
\* logged as an exception because one came after the answer was stored.
StandsOn(e, d) ==
  /\ ~d.cached /\ d.res \in {e.res, "exception"}
  /\ SameQuery(d, e)
  /\ e.res = "weak" => d.tp = e.tp

\* Entry d already answered query e for the prover of e.
Settles(d, e) ==
  /\ Answered(d) /\ SameQuery(d, e)
  /\ d.res = "strong" \/ d.tp = e.tp

\* The log tells which answers a prover was run for.  An answer marked as cached
\* stands on an earlier entry of the same query where a prover was run on it; the
\* same prover, if the answer is weak.  An answer not marked had none in the
\* cache.  It is about answers: an exception may be logged with the cache_status
\* an earlier query has left (log_wrapper).
LogTellsRuns ==
  \A j \in DOMAIN proof_log :
    Answered(proof_log[j]) =>
      IF proof_log[j].cached THEN \E i \in 1 .. j - 1 : StandsOn(proof_log[j], proof_log[i])
      ELSE ~NoCache => \A i \in 1 .. j - 1 : ~Settles(proof_log[i], proof_log[j])

\* With the cache on no prover is run on a query it has answered, or that any
\* prover has proved: the answer may have come under another name, from the
\* cache, or before exceptions and changes of prover.
NoSecondRun ==
  ~NoCache /\ pc = "proving" =>
    \A i \in DOMAIN proof_log :
      /\ Answered(proof_log[i])
      /\ proof_log[i].kind = KindOf[goal] /\ KeyOf[proof_log[i].goal] = KeyOf[goal]
      => proof_log[i].res = "weak" /\ proof_log[i].tp # pure_tp

Outermost == IF saved = <<>> THEN pure_tp ELSE saved[1]

\* wrap_prover changes the prover for its own call only: the prover the program
\* was started with is still the one to come back to, also after exceptions.
ProverKept == [][Outermost' = Outermost]_vars
=============================================================================
