# TLA+ models of HIP/SLEEK

HIP verifies annotated programs, SLEEK checks entailments between
separation-logic formulas. Both are one sequential OCaml program (239,000
lines) that leans on external provers: every entailment ends as a set of pure
(arithmetic) queries, and `src/tpdispatcher.ml` sends these to Z3, Omega, Mona,
Redlog and others over pipes, under timers, through a cache. A wrong "valid" or
"unsatisfiable" at that boundary makes the verifier unsound whatever the rest
of it does. It is also where the program is hardest to test: the provers die,
hang and answer late, timers fire anywhere, exceptions leave functions half
done, and global variables carry state from one query to the next. That is
where this project starts. The repository also holds the source of two of these
provers: MONA, which decides queries about sets and numbers, and the Omega
library, which decides linear integer arithmetic. Their decision procedures are
the other half of the project, since the verifier is no more sound than the
procedures it asks.

Line numbers are those of the source tree; `PROJECT.json` ("map") gives the
lines each definition stands for.

## Inventory

| Component | State | Operations | Hard behaviour | What makes it correct |
|---|---|---|---|---|
| Timed calls, `common/procutils.ml` | the interval timer, the SIGALRM handler, `sleek_cnt_timeout_limit` | `maybe_raise_timeout` and its catching wrappers | nesting, exceptions, one timer for all | Timeout only when due, and always when due; the process never dies of SIGALRM |
| Prover processes, `common/procutils.ml` | pids, pipes | `start`, `stop`, `restart` | children that die, timeouts in the middle of a stop | only own children are signalled, none in use is lost |
| Omega session, `common/omega.ml` | `is_omega_running`, `process`, `omega_call_count` | `is_sat`, `is_valid`, `simplify`, `hull`, `gist`, `pairwisecheck` | late answers, end of file, failing restarts | an answer is the answer to the query in progress; every query ends |
| Z3 session, `common/smtsolver.ml` | `is_z3_running`, `prover_process` | `smt_is_sat`, `smt_imply`, `get_model`, `get_unsat_core` | two readers of one channel, replies read in part | the same |
| Other sessions: `z3.ml`, `cvc4.ml`, `redlog.ml`, `mona.ml` | the same per prover | the same | one-shot processes killed after they were reaped, nested timers | the same |
| Dispatcher, `src/tpdispatcher.ml` | `pure_tp`, `tp_batch_mode` | `set_tp`, `start_prover`, `stop_prover`, `tp_is_sat`, `tp_imply`, `simplify`, `hull` | a prover started under one `pure_tp` and stopped under another | what was started is stopped |
| Proof cache, `src/tpdispatcher.ml` | `sat_cache`, `imply_cache`, `cache_status` | `find_cache`, `sat_cache`, `imply_cache` | provers of different strength, switching provers, exceptions | no wrong proof, no proof forgotten |
| Proof log, `common/timelog.ml`, `src/log.ml` | `proof_log_stk`, timers | `log_wrapper`, `add_proof_logging` | exceptions, stale globals | the log says what was done |
| Change of prover, `src/fixUtil.ml` | `pure_tp` | `wrap_prover` | nesting, exceptions | the prover is put back |
| Lemma store, `common/lem_store.ml`, `src/lemma.ml` | stacks of coercions | add, push, pop around a lemma proof | exceptions between push and pop | the lemmas in force are those in scope |
| Scoped flags, `common/wrapper.ml`, `common/others.ml` | dozens of global flags, `proving_kind` | set, run, put back | exceptions, nesting | a flag has its old value after the call |
| Exception types, `common/exc.ml`, `common/excore.ml` | the hierarchy and its intervals | add, number, `exc_sub_type` | numbering of a forest | interval inclusion is subtyping |
| Permissions, `common/tree_shares.ml`, `common/perm.ml` | none | split, join, compare | normal forms | an algebra of shares |
| Labels, `common/label_only.ml` | none | compatibility, intersection | empty and unlabelled cases | reflexive, symmetric |
| Contexts, `common/cformula.ml` | none | or/and of contexts, failure reasons | mixed failing branches | failure is neither lost nor invented |
| Immutability, `common/immutils.ml` | none | order, merge, subtraction | partial annotations | a lattice |
| Verifier, `src/typechecker.ml` | verified procedures, errors | `check_proc`, by groups of the call graph | exceptions between procedures | callees are verified first |
| SLEEK engine, `src/sleekengine.ml` | predicates, residues, lemmas | one function per command | commands that fail half way | a failed command leaves no trace |
| Entailment prover, inference, shape analysis, termination, front ends, formulas, printing | symbolic data | recursive functions on formulas | size, not control | semantic, out of TLC's reach |
| MONA: BDD package, `mona-1.4/BDD` | hashed node tables, result caches, marks, activation frames | `bdd_apply1`, `bdd_apply2`, `bdd_project`, `makepath` | a table is doubled, and every address changes, in the middle of an operation | the result is the BDD of the right function, and reduced |
| MONA: automata, `mona-1.4/DFA` | automata, a worklist per loop | the atomic automata, product, projection, minimization, quotient, prefix closure, examples | numbers given to states while transitions to them are being built; recursion over sets not made yet | each loop makes the automaton it should |
| MONA: formula code, `mona-1.4/Front/code*.cpp`, `st_dfa.cpp` | the code table: nodes shared up to renaming, with reference counts | `insert`, `remove`, `DFATranslate` | the last of several references takes the automaton away, the others get copies; renaming in place | the automaton of a formula accepts what the formula means; nothing is freed twice or kept |
| MONA: reduction, `reduce.cpp`, `codesubst.cpp` | the same graph, rewritten in place | `reduce1`, `reduce2` | shared nodes whose variables change | the meaning is kept |
| MONA: tree mode, parser, allocator | | | | not used by HIP, or syntax, or third party |
| Omega library: integer satisfiability, `omega_modified/omega_lib/src/omega_core` | a problem: equalities, inequalities, variables; copies of it on the call stack; the problem being verified | `reduceProblem`, `verifyProblem`, `expensiveKill`, all through `solve` | shadows and splinters; copies that tell the original what they found; numbers rounded in four places | TRUE and FALSE are right; what is added to the problem follows from it; `solve` ends |
| Omega library: relations and calculator, `omega_modified/` | Presburger formulas | normal forms, the calculator's commands | symbolic data | its process is modelled, its formulas are not |
| CIL, `cil/` | | | | third party |

How they interact: all of it happens by calls in one thread. The SLEEK engine
guards an entailment with a timer and calls the solver, which calls the
dispatcher. The dispatcher consults the cache, and on a miss calls the session
of the prover in `pure_tp`. The session guards the query with the same timer
and talks to the child process. Answers come back by return, failures by
exception through all of these layers. The only concurrent actors are the child
processes and SIGALRM.

## Modules

| Module | Models | Code |
|---|---|---|
| `PrvTimer` | the nesting of guarded calls over one timer and one handler | `common/procutils.ml` 53-128 |
| `OmegaSession` | one Omega Calculator behind its pipes, with all the handlers | `common/omega.ml`, `common/procutils.ml` 10-201 |
| `SmtSession` | one Z3, checks and models | `common/smtsolver.ml` 584-925, 1273-1623, `common/z3mparser.mly` |
| `ProverOracle` | what any session promises its client (abstract) | |
| `ProofCache` | cache, log and change of prover | `src/tpdispatcher.ml`, `src/fixUtil.ml`, `common/timelog.ml` |
| `Automaton` | automata over tracks, words, status | `mona-1.4/DFA/dfa.c`, `dfa.h` |
| `BasicAutomata` | the tables of the atomic relations | `mona-1.4/DFA/basic.c`, `makebasic.c` |
| `AtomMeaning` | what these relations mean (reference definition) | |
| `DfaProduct`, `DfaMinimize`, `DfaProject` | the three loops | `product.c`, `minimize.c`, `project.c` |
| `DfaGraph` | right quotient and prefix closure | `quotient.c`, `prefix.c` |
| `CodeDag` | the graph of formula code | `mona-1.4/Front/code.cpp`, `codetable.cpp`, `signature.cpp`, `ast.cpp` |
| `DagReduction` | its reduction | `mona-1.4/Front/reduce.cpp`, `codesubst.cpp` |
| `MonaDecision` | from code to verdict; composes all of the above | `code.cpp`, `st_dfa.cpp`, `mona.cpp`, `analyze.c` |
| `MonaCorrect` | the meaning of formulas, and what must hold | |
| `BddTable` | the BDD package | `mona-1.4/BDD` |
| `OmegaTest` | the Omega test, asked for a verdict | `omega_core/oc_solve.c`, `oc_eq.c`, `oc_simple.c`, `oc.c`, `oc_exp_kill.c` |
| `MC...` | the instances TLC runs | |
| `...Proofs` | the theorems | |

**PrvTimer.** `calls` is the OCaml call stack restricted to guarded calls,
`phase` the program point of the innermost one in the body of
`maybe_raise_timeout`: one action per statement that touches the timer or the
handler, because SIGALRM may fall between any two. `Tick` is one second; it
raises `Timeout` when the timer runs out. `Unwind` is the `with e -> raise e`
of the innermost call and the handler of its wrapper, `Catch` the code in
between. The age of a call, which the program does not keep, is there to say
what "due" means; it starts when the call has armed its timer. Neither does it keep
`stray`, which remembers that the running timer was left by a call whose `fn`
raised something else than Timeout.

**OmegaSession.** `pc` is what the program is doing: waiting for an answer,
starting or stopping a calculator and on whose behalf (`why`), or handling an
exception. A query is its number, and an answer the number of its query. The
pipe is the queue of queries written, `ready` how many of them the calculator
has answered. Guarded calls are reduced to `armed`, since PrvTimer shows what a
timer may do: it fires wherever the program waits, and a query's own timer may
outlive it. Every handler is an action: `CheckTimeout`, `CheckEof`,
`CheckGivesUp` and `CheckRecoveryFails` (check_formula, is_sat_ops_x,
is_valid_ops and their wrapper), `Simplify`, `Pairwise`, and `Unhandled` for
hull, gist and pairwisecheck2, which have none. Only these three can leave a
query in the pipe and go on. A write to a dead calculator raises SIGPIPE, which
nothing handles, and the program ends (`pc = "killed"`).

**SmtSession.** The session behind the default prover. What matters here is the
channel: `check_formula` skips lines longer than seven characters and takes the
next one for its result (`Message`, `Verdict`), while `get_model` and
`get_unsat_core` hand the channel to a parser (`ModelRead`) whose lexer reads
ahead and whose failures all mean "no model". So `output` is a queue of lines,
each with the query it belongs to. `Written` ends the guarded part of a model
query. `parsed` is not in the code: it remembers that the parser has read from
this Z3, which is when answers may get out of step. `EndOfFile` keeps what the
code does when Z3 dies: a message already read counts as unknown, otherwise the
exception gets out with the timer running and `is_z3_running` set, and the next
write ends the program.

**ProverOracle** is the abstract specification: ask, then reply once, with the
answer to that question, with a fallback, or with an exception unless the
operation is one that lets none out. OmegaSession implements it for `is_sat`,
`is_valid` and `simplify`: the refinement mapping is its last INSTANCE, and the
property `ImplementsOracle` includes that every reply comes in the end.

**ProofCache.** Goals are opaque; `KeyOf` is the printed normal form, `Proved`
what is true. The tables are a function from (kind, key, prover or generic) to
strong, weak or none. The log doubles as the history the properties speak of.
A prover answers weakly whenever it likes, and strongly only if that is true:
sessions are the subject of OmegaSession. Queries do not nest.

A query goes through the points at which it changes or reads a global: `Ask`,
`LookUp` (`cache_status` becomes true), `Hit` or `Miss` (it becomes false), and
`ProverAnswers`, which stores and logs. An exception, be it the prover's or a
Timeout, comes at any of these points (`QueryRaises`), and also between the store
and the log (`AnswerLost`); log_wrapper logs it with the `cache_status` of that
moment. There is one such exception in a query: SIGALRM comes once for each time the
timer is set, and nothing sets it while log_wrapper handles the first.

**The automata of MONA.** A letter is a number with one bit per track, in the
order in which a BDD is walked, and the transitions of a state are the function
its BDD denotes. So the order in which the three loops meet leaves, on which
their numbering of states rests, is the order of letters, and one leaf is one
step: `Leaf` of DfaProduct and DfaProject is `prod_term_fn` and
`proj_term1..3`, called back while a BDD is being built. DfaProject keeps the
stack of `eval_bdd` calls and the table `ssets` with the two sets each set was
first composed of. DfaMinimize keeps the array of numbers that is overwritten
while it is being read.

**CodeDag and MonaDecision.** The makeCode functions of the syntax tree are a
stack machine over the code table (`Insert...`): each inserts a node
or finds an equivalent one, whose reference is then counted once more.
`calls` is the stack of DFATranslate; `MakeProduct` and its like start one of
the loops, `Multiplied`, `Projected` and `Minimized` collect its result,
`ReturnPart` hands the automaton to the reference that asked for it and removes
that reference. Addresses of nodes decide the order of the parts of symmetric
connectives; they are numbers that grow or shrink. `Analyse` is dfaAnalyze,
where the distance of a state that the search does not reach is anything,
because the source does not initialize it.

**DagReduction.** The reduction is one action (`ReduceFormulas` of
MonaDecision), since nothing interrupts it, and a function on records that hold
the code table, the copies made by substitution and the lists of conjuncts.
`Reduce` is `VarCode::reduce`, called for a reference: it visits the node once
(`Node1`, `Conjuncts2`), looks for an equal one (`EquivTo`), and redirects the
reference. What a node was found by when it was made, `sign`, `varpos` and
`bucket`, is not touched, as in the source.

**MonaCorrect** gives formulas a meaning by recursion over their syntax, three
valued, since a restriction makes some words not matter, and says that the
automaton made of the graph agrees with it.

**BddTable.** Nodes have addresses; the client makes BDDs in one table
(`makepath`, `bdd_apply2_hashed`) and then others from them in a second one
(`bdd_apply1`, `bdd_project`, `bdd_apply2_sequential`). The recursion is the
explicit one of the source: `acts` are its activation records. `Doubled` is
done inside the search for a node: what the roots, the finished results and the
node looked for can reach gets new addresses, the frames are corrected, and the
result cache, keyed by old addresses, is emptied or kept as the code does.

**OmegaTest.** `solve` eliminates the equalities (`SolveEquality`, and `DoMod`
where no coefficient is 1) and hands the inequalities to `solveGEQ`, which
normalizes them, chooses a variable by `Score`, and eliminates it: exactly
(`Eliminate`, `EliminateToOne`), or by asking for the real shadow (`TryReal`),
the dark shadow (`AfterReal`) and, one lower bound after the other, the values
close above it (`NextLower`, `TrySplinter`, `LowerExhausted`). Each of these asks
is a call on a copy; `stack` holds the calls with the copy each works on, and
`ret` what the innermost returned. `timid` is the counter `conservative`, per
call: set in the calls whose answer speaks of a part of the problem only, it
forbids `Outer` (addingEqualityConstraint) to tell the problem that is being
verified. A constraint is a record of its constant and its nonzero coefficients,
so that two have opposite keys when their coefficients are opposite. The order
of constraints and of variables, on which ties between equalities, scores and
lower bounds depend, is left open, so TLC tries every elimination order the
scores allow. The three values of `op` are the callers: `reduceProblem` without
protected variables, `verifyProblem` on a problem in reduced form
(`IsReduced`), and `expensiveKill`, which negates one constraint of such a problem
(`OneNegated`) and only wants to hear FALSE.

## Runs

The four large runs (`MonaDecides`, 307,000 states, `BddTables`, 633,000,
`OmegaSessions`, 1,333,000, and `CacheAnswers`, 5,505,000 up to symmetry) take up
to two minutes each with two workers, the others less. `PrvTimer` and `OmegaSessions` hold two settings of one module
side by side: the second is an INSTANCE with constants and variables of its own,
and each moves only while the other is in its initial state, so that the states
are the sum of the two, and a property of one is not weakened by the other.

| Run | Question | Bounds, and why they are enough |
|---|---|---|
| `PrvTimer` | is a call cut off exactly at its limit, does it end, and does SIGALRM find a handler? (nested setting) is Timeout ever early? | limits 0 (off), 2, 5; no nesting, every exception; a short and a longer timer and the disabled one. Nested: three levels, every exception, limits 0, 1, 3: an inner limit shorter, equal and longer than the outer one |
| `OmegaSessions` | does the session implement the oracle, for the operations with handlers? (second setting) are processes handled properly by all operations? | three queries: one times out, one recovers, one meets what is left; interval 2, so that the regular restart falls among them; two starts by the client. Second: two queries, interval 1, every kind of failure, timeouts disabled for checks |
| `OmegaStaleAnswer` (violation) | do checks get their own answers when hull is used too? | hull, then sat |
| `SmtSessions` | do checks end, and what keeps answers in step? | both operations, four queries: two that put the channel out of step and two that could read what they left; a Z3 that dies, hangs, reports errors, and a client with its own timer |
| `SmtStaleAnswer` (violation) | do checks get their own answers when models are asked for too? | a model, then checks |
| `CacheAnswers` | are answers sound, kept, and logged right? | two provers, two implications with one key and one sat query with that key too, four log entries: a weak answer, a change of prover, a proof, a hit, or an exception in place of one of them; two nested `wrap_prover`. The two provers are symmetric, and so are the two implications |
| `MonaDecides` | does every formula get the automaton and the verdict it should, with exact counts on the way? | three tracks, meaning checked on words of up to three letters (two positions) and one letter more under a quantifier; thirteen families. Not reduced: every atom with every coincidence of its variables; every connective over two parts; conjunctions and quantifiers over five insertions, where parts are shared under other names; disjunctions of the same; restrictions under conjunctions and implications, also of what is false, where the product meets states that don't care for ever; first-order variables; two formulas at once. Reduced: constants under every connective; an equation next to another atom under negations, conjunctions and disjunctions; first-order equations; Boolean variables, whose equations are equivalences; six insertions of conjunctions, for conjuncts that occur twice; chains of equations in two formulas |
| `MonaStale` (violation) | is the reduction safe for quantifiers whose variable does not occur and conjuncts that are true? | seven insertions, one quantifier per formula |
| `MonaSetminus` (violation) | does the table of `P = Q \ P` do what its tree-mode twin says? | the atom alone |
| `BddTables` | do the BDD operations survive the doubling of their tables? | two variables, leaves with sets over {1, 2}, tables of two nodes, so that nearly every operation doubles one at every node it may; three roots in the first table, two in the second |
| `OmegaVerdicts` | are TRUE and FALSE right, in every order of elimination, do the equalities told to the outer problem hold, and does `solve` end? | six families, each a few shapes with moving constants: three constraints on two boxed variables, chosen so that real and dark shadow disagree and splinters are needed; two inequalities, or one and an equality without unit coefficient, on three; unboxed problems with opposite constraints and free variables; two independent pairs; equalities alone. Points are looked for in -5 .. 5: the boxes are smaller, and in the unboxed families a problem with a solution has one there (else `AffirmRight` would fail) |
| `OmegaDarkShadow` (violation) | is TRUE right when the coefficients of a variable have a common factor? | two triangles with coefficients 2 and 4 |

`CHECK_DEADLOCK FALSE` is used where the program really ends (SIGPIPE, no more
queries) and in ProofCache, where the bound on the log ends a behaviour. In the
MONA runs deadlock is checked: `Stopped` allows a behaviour to end only before
the formula is complete, or with a verdict, so that a loop that cannot go on
is an error.

### What the violations show

* **A stale answer.** `hull`, `gist` and `pairwisecheck2` (omega.ml:1108-1241)
  let Timeout out without a restart; the answer that arrives later is read by
  the next query. SLEEK catches the exception of a command and goes on
  (sleekengine.ml:2998-3020).
* **A model left in the channel.** When the parser of `get_model` gives up
  (smtsolver.ml:1529), part of the reply may stay in the channel. The next check
  takes its first short line for a result (unknown, or worse a verdict), and
  every later check gets the verdict of the one before.
* **A set difference.** `dfaSetminus(i, j, k)` with `i == k` and `i != j`
  (mona-1.4/DFA/basic.c:340) returns the automaton of "P is empty" and leaves Q
  free, although `P = Q \ P` holds only if both are empty, as the tree-mode
  counterpart says (GTA/basic.c:1513). MONA built from this source calls
  `(ex2 R: R = P & P = Q \ R) & (ex1 z: z in Q)` satisfiable with `-o1` (its
  default), where the reduction replaces R by P, and unsatisfiable with `-o0`.

* **A stale signature.** The reduction rewrites nodes in place. A node whose
  parts have changed keeps the signature and the place of its bound variable that
  it was made with (code.cpp:898-922 are run in the constructor only), and
  `findEquiv` (reduce.cpp:76) compares these. So a quantifier whose body was
  `c(X, V) & Y = Y` has the signature of two free variables when its body has
  become `c(X, V)`, and is taken for `ex W: c(X, Y)`. TLC finds it with seven
  insertions and no more than a minute. MONA built from this source says
  "unsatisfiable" of
  `var2 X, Y; ~(ex2 W: X sub Y) & (ex2 V: (X sub V & Y = Y));`, and satisfiable
  with `-o0`. The reduced families of `MonaDecides` bind variables that occur
  only, and there the reduction is safe.

* **A dark shadow too large.** Where a lower bound `L v >= l` and an upper bound
  `U v <= u` have different coefficients with a common factor `g`, solveGEQ
  divides the real shadow by `g` and makes it dark by subtracting
  `(U/g - 1)(L/g - 1)` (omega_core/oc_solve.c:1141). The grey area is
  `(L - 1)(U - 1)` before the division, as in `analyzeElimination` (oc_solve.c:213),
  so `ceil((L - 1)(U - 1) / g)` after it. With L = 2 and U = 4 nothing is
  subtracted. `OmegaDarkShadow` finds a triangle without an integer point of
  which solve says TRUE: `3x - y - 1 >= 0`, `-4x - 5y - 3 >= 0`,
  `2x + 5y + 4 >= 0`, with x and y between -4 and 4; the library built from this
  source says so too. For HIP this errs on the safe side where it asks for
  satisfiability (a contradiction is missed), and is otherwise a wrong answer.
  In the problems given in `OmegaVerdicts` the coefficients of a variable are equal
  in size or have no common factor, and there TRUE is right.

Other disagreements, which the models contain or which were met on the way, and
on which no run is spent:

* **A stray timer.** When `fn` raises anything but Timeout,
  `maybe_raise_timeout` re-raises it (procutils.ml:77-83) with the timer still
  running. Timeout is then raised in code that asked for no limit, while the
  comment at line 59 promises a Timeout "if fnc runs for more than tsec seconds"
  and otherwise the result. `TimeoutIsDue` excepts such a timer (`stray`) and no other.
* **Restricted variables.** The reduction puts `y` for `x` in
  `ex1 x where x < 3: x = y` (reduce.cpp:145-172). The restriction is then one on
  `y`, and where it fails the formula does not matter any more, while it was false
  there before, since some other `x` satisfies the restriction: `var1 y; ~(ex1 x where x < 3: x = y);` is satisfiable
  with `-o0` and unsatisfiable with `-o1`. Restrictions written by the user are
  not in the model; those of first-order variables are.
* **A lost timer.** An inner guarded call overwrites and then clears the timer
  of an outer one (procutils.ml:65, 74), so with `--sleek-timeout` an entailment
  that makes one prover query has no limit any more.
* **A model waited for without a timer.** `push_smt_input` guards only the
  writing (smtsolver.ml:1479-1496); the reply is read after the timer has been
  cleared, so a Z3 that does not answer hangs the program.
* **Types and the cache.** `string_of_pure_formula` prints no types, so `int` and
  `float` queries of one shape share an entry; one is unsatisfiable, the other
  not, for instance when it says that there is nothing between two numbers.
* **Smaller ones.** `omega_call_count` survives the calculator it counted for
  and, being compared with `=`, may pass the interval for good (omega.ml:385);
  `cache_status` is set by queries and read by everyone (tpdispatcher.ml:1966),
  so a simplification after a cache hit is logged as cached, and so is a query
  that an exception ends before its lookup or in it (timelog.ml:150-153), although
  the cache has not answered it: `LogTellsRuns` is about answers; `send_and_receive`
  sets the timer even when `--ds-provers-timeout` disables timeouts
  (omega.ml:466), and `simplify` swallows the Timeout that `simplify_ops_x`
  re-raises for "a higher-level function" (omega.ml:957, 1006).

## Fairness

* PrvTimer: time passes (`Tick`), and the statements of `maybe_raise_timeout`
  and the unwinding are executed. `FnReturns` has no fairness: fn may hang.
* OmegaSession: the program runs (`Program`) and a running timer fires when the
  program waits long enough (`Alarm`). The calculator need not answer or die.
  `Program` includes `Banner`: a new calculator that neither prints its banner
  nor dies would hang the program, for start is not guarded by a timer
  (omega.ml:282-299); that is assumed not to happen.
* SmtSession: the same two. Starting a Z3 does not wait for anything.
* ProofCache: no liveness.
* OmegaTest: the program runs (`Progress`). Which variable or constraint is taken
  is never forced, so `SolveEnds` is about every order.
* MONA and the BDD package: none. They are sequential, so that all there is to say
  is that every loop ends and that nothing gets stuck. The loops end because the
  sets and pairs they number are finite and get one number each
  (`NumbersUnique`, `SetsUnique`), a round of the minimization that goes on has
  split something, and `eval_bdd` descends (`EvalDescends`); that nothing gets
  stuck is what the check for deadlock says.

## Proofs

The theorems hold for every value of the constants that satisfies the module's
ASSUME. They are checked by TLAPS with Z3, Zenon and LS4.

**PrvTimerProofs.** `AlarmAlwaysHandled` is not inductive by itself: when a call
returns, the old handler comes back, and this is safe only because the timer is
off by then (phase "disarmed") and because all calls but the outermost one
remember the raising handler. `HandledInv` says so, with `TypeOK`.
`TimeoutAlwaysDue` assumes nothing: `DueInv` says that a running timer that is not
`stray` belongs to the innermost call that has armed it, and that this call will have
reached its limit when the timer runs out: age + timer >= limit. A stray timer
does make Timeout early (see "a stray timer" above), and `OnlyOthersStray` says
where it comes from: an exception other than Timeout that leaves a guarded call
whose timer runs, and nothing else.
`FlatWithinLimit` assumes that calls do not nest and that fn catches nothing
(the first setting of `PrvTimer`, for every limit). A stray timer can still run when a
call starts; `OnTime` says that while fn runs under a limit the timer is set and
age + timer = limit, and that the stray one is replaced at `SetTimer`.

**OmegaSessionProofs.** `ProcessesKept` rests on `Children` (while
`is_omega_running` holds, `process` is a child that has not been waited for, and
no other calculator in use is alive) and `Control` (which program points go with
which `why` and with that flag). `AnswersMatch` assumes
that only the recovering operations are used; its invariant `Sync` says that
the pipe of a running calculator is empty between queries and holds just the
query in progress during one, and that an exception that leaves a query there is
one the operation answers with a restart or a stop. `OmegaStaleAnswer` shows that the assumption
is needed. `SessionIsOracle`, under the same assumption, is the safety half of
the refinement `ImplementsOracle`: initial states map to the oracle's, and each
step to a reply, to a new query or to a stutter. It needs, besides `Sync`,
`Errand`: which operation and which outcome each program point stands for, so
that a query is replied to once and by something the oracle allows.

**SmtSessionProofs.** `StayInStep` assumes nothing of the constants. Its
invariant `InStep` says, for a running Z3 the parser has not read from, what is
in the two pipes at every program point: nothing between operations (`Quiet`);
the query or lines of its reply while the program waits (`Own`); and that the
reply to a check ends with its first short line (`VerdictLast`), so that
`Verdict` leaves nothing behind. A dead Z3 has no query to answer, which is why
an operation that ends at the end of file leaves the pipes empty too.

**ProofCacheProofs.** `CacheSound` and `CacheNeverWeakens` assume `KeyFaithful`:
goals with one key have one answer. Its invariant: generic slots hold true
proofs and only these, a prover's own slot only its weak answer (`Truthful`); every
strong answer in the log is true and still in its generic slot (`Recorded`); and a
prover runs only on a goal the cache has no answer to (`Needed`). `KeyFaithful`
fails for the real key when types are mixed: see "types and the cache".
`TypeCorrect`, `ProverAlwaysKept`, `LogAlwaysTellsRuns` and `NeverRunsTwice` assume
nothing of the keys. The last two rest on `RunsInv`: whoever waits for a prover
waits for a goal the cache has no answer to (`Needed`), a query the log says was
answered has its slot filled, and every slot is filled by a run in the log
(`LogBacked`, `Backs`), be it logged as an exception that came after the store. `Flagged`
says what `cache_status` is where an answer is logged: true after the lookup, false after
a miss. Before the lookup it is anything, which only exceptions are logged with.

**DfaLoopsProofs**, the product. The loop is proved for any two automata and any operation.
`ProductInv` says of the list of pairs that each pair stands in it once, that
those before `head` have their row of transitions and the others none, and that
the row under construction covers the letters dealt with so far (`RowFollows`):
each leads to the number of the pair of successors. From it follow
`RootsInStep`, `NumbersUnique`, `ProductFollows`, and that the result is a
complete automaton.

**DfaLoopsProofs**, the projection. The difficulty is that a set may be found under another
decomposition than the one `eval_bdd` uses, and that the table grows while it
is being read. `ProjectInv` is, for the table (`TableOK`): the two sets a set was
composed of come before it and their union is the set; for the stack of calls:
each call is for a set made before the calls below it; and for the leaves
(`LeavesFollow`): whatever has been computed for a set leads, under each of the
two guesses, to the set of successors.

**DfaMinimizeProofs.** `MinimizeInv` compares the partition being made with the
one before: blocks are numbered without gaps in the order in which they are met
(`InOrder`), the new partition is finer (`Coarser`), and while keys are
renamed the two are kept apart (`Alongside`) although one array holds both.
At the end the two have as many blocks, so they are the same, and the partition
respects the transitions. That it is the coarsest such partition is
`BisimilarStaysTogether`: what a bisimulation relates is never separated. From it
`MinimizeNeverSplits` follows. The property calls two states alike when no word as long as there are states tells them
apart. Words of that length are enough: as long as longer words tell more pairs
apart, each letter more makes one more kind of states (`SplitAdds`), and there are
no more kinds than states. So what is alike is a bisimulation (`AlikeStays`,
`AlikeStep`).

**BddTableProofs.** The four properties of the run `BddTables`, `RootsMean`,
`Canonical`, `MemoRight` and `FramesKeepUp`, for any number of variables, leaf
function, set of paths, size of the tables, and way to lay out a doubled table.
None of them is inductive; all follow from `BddInv` (`InvAlways`). It is about
what must be so in the middle of an operation, when most results are not there yet.

* *Calls* (`CallsRight`). Each call under way, be it the one at work, one that has
  its left result or one that waits for it, is to return a certain function of
  letters: the first the goal of the operation, every other what the successors
  denote that its caller has gone to (`GoalAt`). That the two calls a caller makes
  together give what it was asked for is `ResultSplits`: the result for two nodes, with the
  letter at the smaller index fixed, is the result for the successors. For
  `bdd_project` this needs that two nodes are met only where indices are larger than
  the one that is taken away, and no single node at it (`KeyOK`, `Proper`).
* *Order.* A result is above the index of the caller (`FloorAt`), so that the node
  made of two results is ordered; since equal results make no node and nodes are looked for
  before they are made, the tables stay reduced, and in such a table two addresses
  that denote the same are the same (`ReducedSame`), by induction from the leaves.
* *Doubling* (`DoubledRight`, `FindRight`). All that is kept goes to its new
  address in one map, which is one-to-one, and denotes there what it did
  (`Carries`). What has to be kept is more than the roots: the operands a call may
  still read. They are never passed to `bdd_find_node_hashed`, and are kept
  only because the calls walk down from roots, so the invariant says that every
  key names what roots can reach (`Operands`).
* *Memory* (`CacheRight`, `MarksRight`). An entry is right for the tables as they
  are, or the doubled table has an empty cache. The marks of `bdd_apply1` are in one table and
  lead to the other, so each of the two doublings has to clear them.
* *Open nodes* (`NodesRight`). `bdd_apply2_sequential` takes the node and enters it
  in the cache before it goes down. Until it is written the entry is wrong.
  It is never read: an entry that leads to an open node has the key of that
  call, and a call below has a larger index, so another key (`KnownClosed`).

The layout of a doubled table is `Moved` (packed, and turned by some number
of places); the proof uses only that it is one-to-one onto `1..n`. The bins, and that the
doubled table has room for all that is kept, are not in the model.

**OmegaTestProofs.** For all problems, whatever their number of variables and
constraints, and for every order of elimination: FALSE is said only of a problem
without an integer solution (`DenialAlwaysRight`), and the equalities that
`verifyProblem` adds to the problem hold at all its integer solutions
(`EqualitiesAlwaysImplied`). Both are consequences of one invariant, `IInv`
(`OmegaKeepsSolutions`).

* *Points.* The proofs never name a point by its coordinates. A point gives each
  constraint the number it evaluates to, and all they use is that this function
  respects sums and multiples (`Linear`). So eliminating a variable leaves the
  point as it is, and a wildcard, or a variable that is moved
  to another value, is a new function that agrees with the old one on all
  constraints without that variable. A solution in the sense of the property as TLC
  checks it, a function from variables to numbers, is such a point (`SolutionPoint`).
* *Steps* (`Becomes`). Tightening a constraint, combining two, solving an
  equality, `doMod`'s new variable, dropping a variable without bounds, and
  each elimination that is exact turn a solution of the call's problem into one of the
  problem it goes on with. For `doMod` this needs that the name of the new variable is in
  no constraint of the problem (`WildcardFacts`). The same lemmas show that
  doMod's two assertions never fail (`DoModNeverAsserts`).
* *Splinters* (`Open`, `Sound`). Here a step drops solutions: the dark shadow is
  smaller than the problem's, and each splinter a slice of it. What the call says in the
  end rests on the solutions it has seen before, so the invariant says where it
  has still to look: the copy in progress, above the value `lower` being tried
  with `left` values to go, or above a lower bound in `todo`. For every call on
  the stack, if the problem its caller asked about has a solution, some solution of
  the call's problem lies there.
* *The dark shadow* (`DarkTried`). A solution whose projection is not in the dark
  shadow is less than `MaxIncr + 1` above one of the lower bounds, with
  the division `MaxIncr` rounds by. It holds for the dark shadow of
  `solveGEQ` with equal coefficients and with different ones, common factors
  included: the mistake of `OmegaDarkShadow` makes the shadow too large, which
  loses no solution.
* *Equalities.* `timid` is why they hold: the calls that may tell the outer
  problem are those of which every solution of the given problem is still a
  solution (`Tracked`, `Follows`): real shadows, but no dark shadow and no splinter.

`IInv` quantifies over all linear functions, so TLC cannot evaluate it; it checks
the two properties. That TRUE is right (`AffirmRight`) cannot be proved, for it is
false in general: see the finding. It remains a property of the six families.

Only model-checked, not proved: the properties of MonaCorrect (`AutomatonMeans`,
`ReductionSafe`, `VerdictRight`, `RefsExact`, `InMemoryExact` and the like),
because formulas and graphs are recursive and the module has RECURSIVE operators;
`AffirmRight` of OmegaTest; `EveryOpKeepsProcesses`, which is the
proved `ProcessesKept` for the second instance of OmegaSession; `CallEnds`,
`ChecksEnd`, `SolveEnds` and the fairness of the oracle in `ImplementsOracle`
(liveness is out of the prover's reach).

Induction: the library's induction rule for numbers takes an operator and cannot be used.
Where a proof needs it, as for sums over the variables (`At`), for the bound of a
finite set and for the fixed point of DfaMinimizeProofs, it is the lemma `Induction`
about a *set* of numbers, which follows from the well-foundedness of `<`.

## Abstractions and limits

* MONA's variables are identified with their offsets, the tracks, so symbols that
  share an offset do not occur. Universes, types, predicates, terms and separate
  compilation are left out of the graph and its reduction, and with them
  `checkExport`, which is then always true.
* Hash keys of the code table and of the BDD tables are taken not to collide; bins
  and overflow areas of the BDD tables are left out, and when a table is full is
  a choice, bounded by `Turns`.
* Where the order in which C++ evaluates arguments is not specified, the model
  takes the order of the source, which is what the compilers used here do.
* OmegaTest leaves out overflow, the colours of constraints, and what happens when
  there are too many of them (`quickKill`, the depth limit, `smoothWeirdEquations`
  for more than 50 splinters of one bound, the first good variable taken when there
  are more than four); its instances stay below these limits. When `normalize`
  finds a contradiction after an equality, the equality has been told to the
  outer problem; the model does not tell it, for the verdict is FALSE then, and
  nothing reads the problem any more.
* The text of queries and answers, their translation and parsing are left out;
  that the parser may reject an answer is kept (`Misparse`).
* A write to the pipe is atomic. Formulas large enough to fill the pipe could
  block the program inside the timer; the model has no such state, the timer
  would end it like any wait.
* SIGALRM is delivered at the step boundaries where OCaml waits or allocates;
  in OmegaSession these are the waits.
* Statistics, messages and debug output are left out.
* `Queries do not nest` in ProofCache: is_sat and imply do not call the cached
  entry points while a prover runs.

## Not modelled

* **HIP and SLEEK above the dispatcher** (entailment, inference, shape analysis,
  termination, front ends): recursive functions over symbolic heap formulas. What
  could go wrong there is in the data.
* **Omega library above its core** (relations, code generation) **and its
  simplification mode**: `solve(SIMPLIFY)` keeps protected variables and records
  substitutions; gist and colours are on top of it. What it returns is a problem,
  not a verdict. **CIL**: a vendored front end for C.
* **MONA's tree mode**: HIP prints WS1S formulas only. It repeats the automata of
  the linear mode for guided trees.
* **MONA's parser and allocator**: generated, and third party.
* **Other sessions, lemmas, scoped flags, labels, permissions**: smaller parts of
  HIP, in the plan below.

The models cover about 8 % of the C and C++ lines of the repository. Of the
others, more than half are the Omega library with its code generator; tree mode,
generated parsers and the allocator are another fifth.

## Plan

1. Done: timed calls, the Omega session and its abstract oracle, the Z3
   session, the proof cache; MONA from formula code through its reduction to the
   verdict, and its BDD package; proofs of each loop; the Omega test as a decision
   procedure.
2. Sessions and dispatcher. `SmtRun` (`smtsolver.ml` 817-844: one-shot Z3, kill
   after reap), `NestedSession` (`redlog.ml` 119-269 and `mona.ml` 1191-1328,
   sessions that guard calls inside guarded calls) and `Dispatcher` (start and stop
   by `pure_tp`; it composes two sessions and shows which processes are left when
   the prover changes between them).
3. State carried between queries. `LemmaStore` (stacks of coercions with
   exceptions), `ScopedFlags` (`wrapper.ml`, `proving_kind`), `SleekEngine`
   (commands that fail half way), `Verifier` (order of the call graph's groups).
4. Pure algorithms, checked against a reference definition: exception intervals,
   tree shares, labels, failure and context algebra, immutability.
5. The Omega library's simplification: `solve(SIMPLIFY)` with protected variables,
   substitutions and gist, over OmegaTest's constraints; a problem and its simplified
   form have the same integer solutions.
6. More proofs: the invariants of 2 and 3, and for OmegaTest the other half of its eliminations: an exact one adds no solution, so TRUE is right for problems in which
   the two coefficients of a pair are equal or have no common factor.
