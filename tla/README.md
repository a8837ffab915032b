# A TLA+ model of GreatGramma

GreatGramma constrains the output of a language model to a grammar. It compiles
a lexer and an LALR grammar to tables, prepares from them what a mask needs, and
then, for a batch of rows, answers which tokens may come next and advances by
those that were chosen. This directory holds a TLA+ model of it, the TLC runs
that check the model, and proofs checked by TLAPS. Paths below are relative to
`src/`; `core`, `compile` and `python` stand for the crates
`crates/greatgramma-core`, `-compile` and `-python`.

## The system

| part | source | state it keeps | operations | what is hard |
| --- | --- | --- | --- | --- |
| tokenizer import | `python/greatgramma/compiler.py`, compile: `tokenizer_json.rs`, `tokenizer.rs` | none across calls | a `tokenizer.json` to a manifest of byte strings | two formats, added tokens in any order, one budget of work and one of bytes |
| compile pipeline | `compiler.py`, python: `lib.rs`, compile: `compile.rs`, `grammar.rs`, `regex.rs` | none across calls | source, terminals and manifest to tables | three layers that each measure the same input; fuel shared by all patterns |
| lowering and export | compile: `dfa.rs`, `lr.rs` | none across calls | automata and parser tables to the core's | a lexer that would need rollback must be refused; ranks that prove reductions end |
| validation | core: `validate.rs`, `normalized.rs` | none | tables to `ValidatedGrammar` | products and sums of 32-bit sizes, limits tested before the tables are read |
| LALR executor | core: `lalr.rs`, `lalr_reference.rs` | a stack, the last reduction, work | run terminals on a stack | one loop under two underflow modes; termination by ranks |
| lexer | core: `lexer.rs`, `token_step.rs` | a DFA state | step by a byte, by the end, by a token | logical start is not the DFA start; a boundary byte is read again |
| preparation | core: `sequence.rs`, `spanner.rs`, `preprocess.rs`, `token_step.rs` | token table, worklist, heads, buckets, classification | five loops | one work budget and one item limit across all of them; a worklist that grows while it is read |
| matcher | core: `engine.rs`, `mask.rs` | `states`, `staging`, the caller's buffer | `mask`, `masks`, `advance`, `advance_batch`, `advance_active`, `advance_active_and_masks`, `..._no_result` | a batch is all or nothing, whichever row fails |
| native grammar | python: `lib.rs`, `compiler.py` | the prepared grammar, taken once | `new_batch` | several threads want it; every check before the take |
| native batch | python: `lib.rs` | matcher, token copy, poison | `initial_masks`, `advance_and_masks` | panics and failures on either side of the commit; padding |
| processor | `python/greatgramma/transformers.py`, `_mask.py` | history, width, poison, lock | `__call__` | threads, repeated and wrong texts, asynchronous exceptions between the batch's step and the history's |
| generate wrapper | `transformers.py` | none | `generate` | takes the grammar before all of its arguments are read; its processor trusts its caller |

The compiler's tables are validated, then prepared, then owned by a compiled
grammar, and from there by a matcher; ownership passes on and none of them is
shared. A processor owns a native batch, which owns a matcher. Everything below
the native grammar and the processor is sequential: concurrency is that of Python
threads that ask one grammar for a session or call one processor, and failure is
that of memory, of a panic, of the score mask or of an exception Python delivers
between two instructions. `PROJECT.json` lists the hazards line by line.

What makes each part correct:

* executor and classification: a decision made for one state, without the stack below
  it, is right for every stack with that state on top;
* preparation: what is finished is exactly the tables the matcher assumes, within the
  limits, and it finishes;
* matcher: a call is atomic, and its masks and outcomes are those of a semantics stated
  without any table;
* import and compilation: what reaches the tables is what was written, however it was
  ordered; the layers measure alike, and a stage that refuses for its size what they let
  through does so only in the gap between their limit and its own;
* native grammar: one session per grammar, and a refused request costs nothing (a
  request that fails in other ways may, see below);
* native batch and processor: the masks a caller gets are those of the text it passed,
  whatever was refused, failed or interrupted before.

## The modules

| module | built on | checked by | proved in |
| --- | --- | --- | --- |
| Lalr | | Classification, Engine | EngineProofs, PreparedProofs |
| Classification | Lalr | MCClassification | EngineProofs |
| Lexer | | Engine, MaximalMunch | PreparedProofs |
| Prepared | Lalr, Lexer | Preparation, Engine | PreparedProofs |
| Preparation | Prepared | MCPreparation | PreparationProofs |
| MatcherContract | MatcherCalls | refined by Engine | EngineProofs |
| Engine | Prepared, MatcherCalls | EngineChecks (with Reference), MCEngine | EngineProofs |
| Reference, EngineChecks | Prepared, Engine | MCEngine | EngineProofs |
| NativeBatch | (the contract's calls) | Processor | SessionProofs |
| Processor | NativeBatch | MCProcessor, Session | SessionProofs |
| Session | Processor | MCSession | SessionProofs |
| Checks | | Compile, TokenizerImport | ToolchainProofs |
| TokenizerImport | Checks | Toolchain | ToolchainProofs |
| Compile | Checks | Toolchain | ToolchainProofs |
| Toolchain | TokenizerImport, Compile | MCToolchain | ToolchainProofs |
| Lowering | Lalr | MCRanks, MCClassification | EngineProofs, RanksProofs |
| Ranks | | MCRanks | RanksProofs |
| Validation | | MCValidation | ValidationProofs |
| DfaExport | | MaximalMunch (with Lexer) | DfaExportProofs |
| MaximalMunch | DfaExport, Lexer | MCDfaExport | DfaExportProofs |

`MCListGrammar` and `MCLexicon` are the table and the lexer of the runs.

* **Lalr** is the stack machine. A configuration holds the stack, the index of
  the terminal, the last reduction and the work done; `Step` is one iteration of
  the loops of `run_initialized` and `run_terminal`, with its unit charges summed.
  The underflow mode is a field: the symbolic run ends in `Dependent` where the
  concrete run fails with `StackUnderflow`. `Run` iterates `Step` up to the first
  configuration that has a decision, as a recursive function.
* **Classification** runs a head symbolically from the top of a stack and
  concretely on the whole of it, side by side, and compares the two answers.
* **Lexer** is the byte DFA and `execute_entry`. **Prepared** states the tables of
  `PreparedGrammar` as functions of the lexer and the parser (the singleton
  terminals as a least fixed point, the buckets as the inverse of the heads), and
  the queries of the engine: `NextStatus` is `next_status_into`, `MaskOf` and
  `MaskError` are `fill_mask_with_scratch`.
* **Preparation** is how the code comes to those tables: an action for the entry of
  each stage and one per iteration of its innermost loop, with every charge and every
  limit. The stages are the token table, the scan, the propagation, the collection,
  the inversion and the classification; `row`, `column` and `inner` are the indexes of
  the loop that runs.
* **MatcherCalls** gives the calls of a matcher with their arguments and early
  returns. **MatcherContract** is the abstract specification: a call is one step,
  over a grammar of which nothing is known but what a token makes of a status and
  what a status allows. **Engine** is the implementation: rows are staged one by
  one, masks are filled one by one, memory may fail at any of them, a failed row
  leaves anything in `staging`, and the commit swaps the batches.
  **Reference** gives the contract's parameters without a table: what a lexer
  state may emit is found by trying byte strings, and whether a token is viable
  by single runs on the whole stack. **EngineChecks** instantiates the contract
  with it.
* **NativeBatch** puts `NativeBatch` over the contract: by then a row is the word
  of its tokens and a grammar the set of its words. A call is a set of possible
  results, for an internal error may come before or after the commit.
* **Processor** cuts `__call__` where Python may switch threads or deliver an
  exception: the lock, the checks, the native call, the masker, and the two
  assignments of the history.
* **Session** is how a thread comes to a processor: by its constructor, by
  `logits_processor` or by `generate`, each with its checks in their order, then
  `new_batch`, which borrows the native grammar, checks, takes the prepared grammar
  and may still fail. The first thread that succeeds has the processor, and the
  calls of Processor follow; under `generate` the texts are those of its loop.
* **TokenizerImport** is `from_transformers` and `extract`: one action per stage or
  per iteration of a stage's loop, every charge to the two budgets included.
* **Compile** is `compile`, `_compile_yacc` and `normalize` with `parse_source` and
  `compile_regexes`: sizes, names in both directions, fuel, and the choice among
  terminals that share a lexeme. **Toolchain** joins the two as a user does, or enters
  at a lower layer. **Checks** holds what they share: an ordered list of tests, of
  which the first that fails gives the error.
* **Lowering** says which reduction may follow which, as the compiler reads it off
  a table, and **Ranks** finds the ranks on such a graph: two depth-first searches
  for the components, the refusal of loops, the topological order and the longest
  paths, one action per loop iteration.
* **Validation** is the check that makes tables trusted: a list of tests for each of
  its stages, the first that fails giving the error, the token loop entry by entry,
  and the lookups of `normalized.rs` that rely on it. `AcceptedTablesRun` is what
  `LexerAssumption` and `LalrAssumption` take for granted.
* **DfaExport** copies the lexer out of an automaton of the regex library, state by
  state and byte by byte, labels each state with the best terminal it accepts, and
  refuses what the core could not run. **MaximalMunch** runs the result with the
  core's `Lexer` and compares it with the longest match on the automaton.

Definitions keep the names of the code where they stand for one function.
Definitions marked *Mutant* are not part of the model: each is the definition
after it with a plausible mistake, and shows that a property notices it.

### Abstractions

* Packed bits are sets of tokens; byte classes are folded into `Delta`.
* The `required` and `actual` numbers in errors, and row numbers but for the
  distinction of `BatchConstraintViolation`, are left out.
* `allows` and `is_completed` change nothing and are not actions. The results
  vector of an advance is determined by the new statuses; only the failure to
  reserve it is kept. The scratch stack is never read before it is written.
* When a token's heads are searched, a bucket that fails is taken to fail the
  search wherever it stands, as no bucket does.
* The shape of the scores is not modelled: `RefuseScores` may happen or not.
* In Preparation allocation does not fail, and the charge of a row of singletons is
  made with its first terminal.
* In Ranks the work limit is a failure that may come after any iteration. The nodes
  that wait on the second search's stack are taken in any order, and the links of a
  component are passed over in any order: the properties and the proof hold for all
  of them, the code's included. Ranks do not overflow: they are less than the number
  of cells, which `max_parser_cells` bounds.
* In Validation integers have scaled widths, with the largest `u64` one less than the
  square of the number of `u32`s as in the code, and the byte table is short. Sums of
  natural numbers overflow at some addition just when the total is too large, so
  one test stands for a chain of `checked_add`.
* In DfaExport a byte is a byte class, and the library is an automaton (any of a
  set) that may give up or outgrow its memory at any transition.
* In Processor the batch's words are a set given by a constant.
* In Session a request names what its checks look at: the way in, the rows, the pad,
  the prompt, one flag for the settings `generate` refuses and one for a list of
  processors that cannot be read. A buffer that cannot be reserved, a matcher that
  fails and a panic are one failure, before or after the take.
* Parsers are libraries (external): of JSON, of Yacc and of regular expressions. A
  document or a source is what they make of it; a pattern has a flaw or a lexeme, and
  lexemes have costs. What the stages after the resolution do is the subject of other
  modules; in Compile they pass or fail. The scaled limits of a run keep the order
  that `LimitsAssumption` states of the real ones.

## The runs

The table of `MCListGrammar` is `value -> "[" list "]" | "x"`,
`list -> (empty) | list value` with an ignored blank: it pops 0, 1, 2 and 3
states, reduces twice on one lookahead (once at equal rank, which only the
shrinking pop justifies), and needs the stack below for `]` and for the end of
input. `MCLexicon` lexes it from bytes with a two-byte atom, a token of two
lexemes and a dead end.

| run | states | what it shows |
| --- | --- | --- |
| classification | 14 282 | `ExactClassification`, `Aligned`, `NeverFails`, `Answers`, for heads of up to three terminals (and those that end the input) on every stack of up to five states |
| engine_row | 18 764 | one row, the whole vocabulary: the engine refines `MatcherContract` with the reference semantics (`AtomicAndExact`); `MasksMeanAdvances`; rows are paths of the table |
| engine_batch | 63 611 | two rows and every batch call: the same refinement |
| preparation | 4 753 | forty pairs of limits: the worklist, the tables, the limits and the end |
| session | 97 715 | two threads ask for a grammar in its three ways, well and badly, and call the processor, one that checks its texts or the one of `generate`: one session, no refusal that costs the grammar, masks that fit the text, a batch in step with the history, poison for ever, and calls that end |
| toolchain | 21 275 | documents and sources that vary a good one, imported and compiled through every layer: `ImportIsExact`, `CompileIsExact`, `StagesAgree` (six sizes measured alike, four late refusals for size, each only in its gap), and the limits of an import |
| ranks | 180 975 | every graph of three cells, and the table of the other runs: exact components, just the looping graphs refused, ranks that fall along every edge, and an end; `TableIsLowered` ties the ranks in `MCListGrammar` to what the compiler would give |
| dfa_export | 158 400 | 2 880 automata under four limits: `MunchIsExact` for all inputs of up to four bytes; the limits hold throughout |
| validation | 51 847 | a small grammar with one or two of fifty faults, each limit reached exactly or missed by one |
| priority_ties | violation | a tie between two terminals that a third one beats is not refused |
| completion | violation | the call that completes the last row commits, and fails |
| interrupt | violation | an interrupt between the batch's step and the history's is not noticed |

**Bounds.** `MaxStack` stops rows from advancing beyond stacks of four states for one
row and two for a batch: four is the first depth at which every reduction of the
grammar, the one that pops three included, happens above a pushed state. A batch of two
is enough for one row to fail while another was staged, filled or is accepted.
`Leftovers` are the stacks a failed evaluation may leave: an empty one and one that is
no status's. Byte strings of three bytes (`MCContinuations`) are longer than any path of
the DFA to an emission. The work limits of the preparation lie in each of its stages,
one is never reached. The texts of a processor are the prefixes of six pairs of texts of
up to four tokens after the prompt, one more than the longest word, so that padding and
calls after the end occur; the pairs follow each other, diverge, or end in different
calls. A batch may have four rows and the packed masks of two, so that a request fails
for either reason. Two threads suffice for one to ask while the other borrows, or to
call while the other is inside. The limits of `toolchain` are such that the good
documents and sources just meet them and some variant passes each; those of the terminal
specifications and of the parser's terminals are equal (four), as they are by default,
and the tokens of the large manifest are within their own limits and beyond those of the
validation. Three cells are the
fewest on which two loops join and a component of several nodes lies before or behind
another. An automaton of three states is the smallest that reads on from a complete
lexeme into an incomplete one, and four bytes let it lose a lexeme and lex on. The
widths of `validation` (15 and 255) are small enough for every product and sum to
overflow in some faulty grammar. Of the limits of the export one is never reached, the
others are passed in states, in cells, in work and at the start.

**Fairness.** `Classification` and `Preparation` are sequential programs that
run: weak fairness of `Next`. So is `Ranks`, of `Work` alone, as its failures
(`Exhaust`) need not come. In `Session` every thread inside a request or a call is
scheduled (weak fairness of its own `Proceed` and `Continue`), as Python threads are
and as the native calls, which hold no Python lock, return; nobody is obliged to ask
or to call. Safety runs and the refinement use no fairness.

**Deadlock** is checked but in `classification`, `preparation`, `toolchain`, `ranks`,
`validation`, `dfa_export` and `priority_ties`, which end.

**The three violations.** `priority_ties`: `docs/compatibility/v1.md:72` says that
equal-priority terminals which accept in one reachable state are rejected.
`resolve_label` compares each with the best so far only (`dfa.rs:148`), so two losers
that tie are noticed or not depending on the order of the declarations. The exported
lexer is right all the same (`MunchIsExact`). `completion`: `docs/errors.md:38` says a
completion error rejects the operation. `advance_and_masks_inner` commits the batch
before it finds that no row is left (`lib.rs:459`, `:494`). `interrupt`:
`tests/python/test_processor.py:376` asks that a base exception after the native advance
poison the processor. The code does so inside the masker; an exception delivered just
before it or just after it escapes, with the batch one token ahead of the history.
`completion` and `interrupt` check `MCProcessor`, the processor without the requests
that lead to it. The passing runs let exceptions arrive only where the code handles them
(`Handled`), and there show that masks always fit the text.

## The proofs

The first part of `EngineProofs` is about what the matcher trusts, the classifications,
and proves for every table, head, stack and limit (`Spec` is `ClassificationSpec`):

* `TypeCorrect`: `Spec => []ClassificationTypeOK`;
* `AlignedRuns`: `Spec => []Aligned`;
* `TableIsExact`: `Spec => []ExactClassification`.

The inductive invariant is `IInv == ClassificationTypeOK /\ Aligned /\ Decided`.
`Aligned` says what the two runs share while the symbolic one goes on; `Decided` says
what the concrete run is bound to do once the symbolic one has stopped, which
`ExactClassification` alone does not: between the two decisions there are states in
which the concrete run is still to make the last step, to start the probe, or to be
answered. The argument is one lemma per case of `Step`: on a stack that is another with
something below it, a step does the same, unless it would pop the other's base, and then
the symbolic run is `Dependent`. It rests on `LalrAssumption` and
`ClassificationAssumption` only, not on the ranks.

It also proves what the ranks are for: `RanksSuffice`, that on every table
whose ranks fall along the edges of `Lowering` (`RanksJustified`), no run is ever
ended by `check_reduction_progress`. The invariant adds `Earned` to type
correctness: the last reduction of a run that goes on was that of some cell, on the
present terminal, one of whose destinations is the state now on top; so the next
reduction is of a successor of that cell.

`PreparedProofs` is about `Run`, a recursive function over configurations, and the
tables that are filled with it. Whatever the table, every iteration of a run reads a
terminal, lowers the rank of the last reduction, or keeps it and takes from the stack;
a set of configurations that is closed under the iteration and never decides is
therefore empty (`NoEndlessRun`), by taking the least of its values one after the
other, and so every run has an end that keeps what its iterations keep (`RunEnds`).
That is the induction of the module; from it follow:

* `ClassIsTheAnswer`: a stored Rejected or AlwaysReadable is what
  `sequence_head_allowed_with_scratch` answers on every stack with that state on top
  (two runs side by side, and the split of the head into prefix and probe);
* `BudgetsDecideNothing`: a run that decides within its budget decides what it would
  without one;
* `RunsKeepPaths` and `AdvancesKeepPaths`: stacks stay paths of the table;
* `TableIsTheStack` and `MasksAreAdvances`: the mask, filled through the inverse
  buckets, grants just the tokens that an advance lets through, and every other token
  is a constraint violation, never corrupt data. Both ask that every state and head has
  been classified (`Classified`), and the second that filling the mask did not fail.

`PreparationProofs` proves the properties of the run `preparation` for every grammar,
lexer, vocabulary, order and pair of limits, but for its end:

* `PreparationIsTyped` from `TypeInv`, which adds to the types that the indexes are
  within their loop (`Position`) and that the cells behind them are what the tokens do
  (`TableFilled`);
* `WorklistStaysSound` from `FactsInv`: predecessors are only those that move, and what
  every cell scanned so far emits, accepts or leads to has been noted;
* `WorklistCollectsSingletons`, from there: the facts at the end are a fixed point, and
  each of them is true, so they are the least one, which `CollectInv` copies out;
* `FinishedTablesAreExact` from `InvertInv` and `ClassInv`. `Filed` is the set of
  (source, token, head) that the inversion is past; the heads have distinct numbers and
  are those of `Filed`, and each source's buckets hold just its part of `Filed`, one
  bucket to a head and in the order of the tokens. A stored class was found under what
  was left of the budget: that it is the class found without one is
  `BudgetsDecideNothing`;
* `FinishedIsClassified`: a finished preparation satisfies `Classified`, the hypothesis
  of `MasksAreAdvances` and `MasksGrant`;
* `LimitsAreKept` from `LimitsInv`: the counters of the code are the totals of what is
  there (`HeadsCounted`), or run ahead of it by the continuations of the present token
  that are still to be appended (`MembersCounted`).

`RanksProofs` proves that the compiler's ranks fall on any graph
(`RanksAlwaysFall`), and so that a table with the ranks found for its own graph
satisfies the hypothesis of `RanksSuffice` (`CompiledRanksAreJustified`). The
invariant is `Falling`, a conjunct per loop: the first search has left what it met
(`Searched`), the second gives every node a component (`Assigning`), the counter of a
component is the number of its links not yet passed over, and the queue is the
components whose counter is zero (`Queued`), so that a link's source stands before its
destination (`Sorted`); from the cursor on every rank is above those it links to
(`Ranked`). It needs no more of the searches than that every node is numbered: were
the components too large or too small, a grammar would be refused wrongly, but the
ranks that are given would fall.

That no grammar is refused wrongly takes `Deep`. What can come after a node is first
shown to be the least set that holds it and that no edge leaves (`ReachedIsLeast`; the
definition counts steps, and a chain of sets that grows at each would outgrow the
nodes). Then: what leads out of a node that the first search has left has been met
(`Met`); so a node left that still reaches one not left has one of its own component
on the stack (`Waits`), and if it reaches a node left later, then one of its own was
left later still (`Postorder`). So a new node that the second search comes upon, going
backwards from the end of the order, is of the component it is numbering
(`NewIsMutual`), and when nothing is pending none was forgotten (`NowComplete`): the
components are exact (`ComponentsAlwaysExact`). With exact components a loop shows as
a strict edge within one, and none is left over by the sort, since a node of those
left over would be reached from another that reaches more (`NoneLeftOver`): refusals
are right (`RefusalsAreRight`). `RanksAreTyped` adds that a node is met once
(`Distinct`) and components are no more than nodes of the order looked at (`Few`).

The second part of `EngineProofs` proves that the engine refines its contract
(`MatcherIsAtomic`) for every grammar, number of rows, set of calls and leftover stacks:
what is staged and filled so far is what the contract's step would commit (`Progress`),
so the commit is that step and every other action is a stutter. Of a grammar it uses
only that a row has an outcome and a mask. From `Sound`, the types of rows, staged rows
and buffers with the paths that `AdvancesKeepPaths` keeps, it proves `MatcherIsTyped`,
`RowsKeepPaths` and `MasksGrant`: on every row that is reached, mask and advance agree.

That these masks and outcomes are the right ones, those of `Reference`, takes three
more steps:

* the lexer: the singletons of a source, a least fixed point, are what some byte string
  makes the lexer emit first (`SingletonsAreFirsts`). Along the bytes the first emission
  stays a singleton of where the lexer is (`BytesGiveFirsts`); the other way round, the
  sources from which it is reached by some bytes are closed under the moves
  (`FirstIsASingleton`, `BytesReach`). `EnoughContinuations(Seq(Bytes))` asks that the
  byte strings tried by `Reference` leave out no emission; with `Seq(Bytes)` itself for
  `Continuations` it is true of every lexer;
* the parser: prefix and probe, two runs, are one run of the whole head
  (`TwoRunsAreOne`), and so is the end of the input after what was being read. With this
  `TablesAreTheReference` says that the mask and every outcome are the reference's,
  unless the executor finds the table inconsistent;
* the table: it does not, if the table is such as an automaton of items has
  (`AutomatonTable`). Its ranks fall along the edges, it accepts on the end of the input
  alone, every state is on top of some path, and every path to a reduction holds its
  right-hand side above a state with a goto for it. The symbolic run is then kept on the
  upper part of a path of the table (`Fits`, `StepFits`), so that all it can come to is
  a decision (`Settled`): `AutomatonNeverFails`, for every path and every head that has
  the end of the input nowhere but at its end, `AutomatonIsClassified` and
  `AutomatonNeverCorrupt`.

So for every such table, every lexer and every vocabulary, `MasksAreTheReference` is
`Spec => []MasksMeanAdvances`, and `MatcherIsExact` is `Spec => AtomicAndExact`: the
second adds to the refinement that the two contracts make the same of every row that can
be (`RowsGood`, `SameAnswers`). The library that makes the tables is external and the
core does not test for handles, which is why `AutomatonTable` is a hypothesis; that the
ranks fall is `CompiledRanksAreJustified`. TLC evaluates the hypotheses on the table and
the lexer of the runs, on its paths of up to five states, more than the longest
right-hand side, and on byte strings one longer than those of `Continuations`
(`ListIsAnAutomaton` in `MCClassification`, `LongerAddsNothing` in `MCEngine`).

`ToolchainProofs` proves the five properties of the run `toolchain`, for every document,
grammar, list of ends of sentence, manifest and limit, and `DfaExportProofs` the three of
the export.

* The import: `ImportNeverOverruns` and `ImportIsAlwaysExact`, from `ImportInv`. It says
  what each phase has come to: of the vocabulary and of the added tokens those before the
  cursor are read, and the table that is being built holds the pieces of just those and
  gaps where none has one (`Filled`, in `VocabularyFacts` and `AddedFacts`); of the
  tokens those before the cursor are what their entries decode to, and `singleton` is the
  bytes that are tokens of their own (`TokenFacts`). A refusal for anything but a limit
  comes with the reason why the document is not compatible (`RefusalFacts`): each test is
  shown to fail on no compatible document, in the place where it stands. The table ends at
  the largest id, so a compatible document leaves no gap in it (`CompatibleHasNoGap`).
* The layers: `StagesAlwaysAgree`, from `LayersInv` and `PaidFor`. `Measured` says that
  the counters of a layer are the sums of what is before its cursor (`SourceAt`,
  `RegexAt`, `TokensAt`), which never exceed the totals, so that a layer refuses for size
  only what exceeds a limit, and lets through only what fits. `Admitted` carries that to
  the layers called next, which measure again; `PaidFor`, that the bytes decoded by an
  import are those of the tokens it hands on, carries the limits of the import to them.
  That the refusals for size after the layers stay in their gaps is part of
  `ResolutionInv` (`Justified`): what the layers admit fits, the names of a grammar that
  each have a terminal are no more than its terminals (`MatchedAreFew`), and the load of
  the tokens is at most the sum of their two limits (`LoadFits`).
* The terminals: `CompileIsAlwaysExact`, from `ResolutionInv`. `SpecFacts` and
  `IgnoredFacts` say that the names before the cursor are resolved without repetition;
  `RegexFacts`, that the lexemes registered are those of the names so far, each once, that
  the cost of looking for them is the sum of one scan per name, and that the bindings are
  one per name, in order; `BuiltFacts`, that the terminal answering for a lexeme is the
  one of strictly least priority; `Justified`, that a reason for refusal is true of the
  grammar. Since the fuel is tested along the way, that only a grammar beyond the limit
  is refused rests on the cost growing with each registration (`ScanGrows`).
  `ToolchainIsTyped` follows from the three invariants.
* The export: `ExportFits` and `ExportIsTyped`, on any automaton, from `ExportSound`,
  which adds that the states are distinct and that there is a label and a row for each of
  those before the cursor. `ExportedLexerMunches` is the meaning of the export: run by the
  core, the exported lexer reads every byte string of any length as the longest match with
  unlimited backing up on the library's automaton does (`MunchIsExact`), whatever the
  automaton and the priorities. The invariant is `TablesRight`: a label is the winner of a
  list without ties, a row says for each byte copied where the automaton leads, or 0 where
  it dies, and an export that is done has passed the check for fallbacks. From the tables
  the argument goes along the bytes. A list without ties has one best terminal
  (`OneIsBest`), so labels are readings; a path is complete from its first complete state
  until it dies (`CompleteUntilDead`, the check for fallbacks), so the longest lexeme ends
  where the automaton dies, which is where the core ends it; and from there the core runs
  as it would from the logical start, with one terminal emitted before (`RemainderRuns`),
  so that induction over the length of what is left ends the proof (`AllAgree`). That the
  two recursive functions, `Munch` and the one in `ExecuteBytes`, are what their equations
  say is proved first (`MunchRecurs`, `RunEnds`): each is a choice among the solutions of
  its equation, so a solution must exist.

The totals of the model are folds (`FoldLeft`, `FlattenSeq`), of which the library
states no fact that the provers can use: `FoldExists` (in `DfaExportProofs`) and the
first part of `ToolchainProofs` show that the fold of a list of numbers is the last of
its running sums (`AddingSums`), from the definition of the fold as a function on sets
of indices. Five assumptions on constants are used. Three of them say what the types of
the program say of its inputs: `ImportAssumption` (a JSON document), `InputsAssumption`
(a grammar names each of its tokens once; a manifest holds any tokens) and
`CompileAssumption` (names have sizes; of two patterns that the library registers as one
lexeme, neither or both match nothing). `ExportAssumption` describes an automaton of the
library, which accepts no empty lexeme; `SuffixesAreTried` says that the inputs tried
are byte strings, with all that they end with, as every set of all byte strings is. The
assumption of `Lexer` is not used: that the exported tables fit the core is part of the
proof.

`SessionProofs` proves what a native call returns (`AdvanceReturns`), from the
definitions of the call alone; for any threads and requests, `SessionIsOne` and
`RefusalsLeaveTheGrammar` from `Owned` (a prepared grammar, a borrowed one, a session and
a spoilt grammar exclude each other), and `TheHolderIsAlone` and `PoisonIsForEver` from
`Calling` (who holds the lock is the one thread whose call is under way); and
`SessionIsTyped`, `BatchIsInStep` and `MasksFit`, for texts of any length, from
`History`: what the batch has read is what the history says, or in the phases after the
native call what it is about to say. The last two assume `ExceptionsHandled`, that
exceptions arrive only in the phases where the code handles them: the run `interrupt`
is what happens without it.

`ValidationProofs` proves the four properties of the run `validation`, for every table,
lexer, tokenizer and limit: `ValidationIsTyped`, `SizesComeFirst`, `CountingIsExact`
(what is counted is what the tokens visited so far add up to) and `AcceptedCanRun`: if
no test refused, every lookup of `normalized.rs` is in range. An accepted table is thus
one that `LexerAssumption` and `LalrAssumption` describe.

**Late refusals for size.** The facade, the native layer and `normalize` measure the
text, the patterns, the terminals, the ignored names, the tokens and their bytes alike:
for these only the layer that is called refuses (`LayersAgree`). The stages behind them
have limits of their own, and `LateRefusals` says where these refuse what the layers let
through. `parse_source` counts the names in the grammar (`grammar.rs:81`) with the limit
and the error of the terminal specifications, which reaches only a grammar one of whose
names has no terminal, and which would be refused for that. `check_grammar_dimensions`
counts the end of input (`lr.rs:143`): with the default limits, which
`docs/compatibility/v1.md` lists as 65,536 for specifications and for terminals, exactly
65,536 specifications pass every layer and are then too many. Rules and productions are
seen there first. The validation charges tokens, their bytes and the tables to one limit
of work, 1,000,000,000, while the layers allow 1 GiB of token bytes (`v1.md` lists both),
and to one of logical bytes. No document promises that limits are consistent, so these
are no disagreements; they are sizes for which an error comes late. Limits on what is
built (parser states and cells, the DFA, the storage of the regex library, the
preparation) are no part of this: in `Compile` such a stage may fail with `delegated`,
and `DfaExport`, `Validation`, `Preparation` and, for its work, `Ranks` say when.

**A grammar that is lost.** `generate` lists the other processors after it has taken the
grammar (`transformers.py:360`), and the constructor stores a batch after `new_batch`
returned it (`transformers.py:136`): an exception in between leaves neither the grammar
nor a session. The model takes both steps (`spoilt`). `OneSession` and `RefusalsAreFree`
excuse them: they say which errors never cost a grammar and that a spoilt one is never
handed out, and nothing here says that none is lost.

**Only model-checked**: liveness (`Answers`, `CallsEnd`, both `Ends`), although that
every run of the parser has an end is proved without it, and `TableIsLowered`, which is
about the table of the runs.

## Not modelled

`PROJECT.json` gives the reason for each part. The parsing libraries are external.
Tests of Python types and the translation of native errors to exceptions
(`errors.py`) are functions of one value without state. (Reading them showed that an
allocation failure during a compilation is reported as `compile_error`, `lib.rs:665`,
while `docs/errors.md` lists allocation failures under `internal_error`; no model is
needed to see it.) Of the lowering, the copy of the tables out of the parser library
is left out, and failures to allocate in the compiler are. Scripts, benchmarks and
fuzz targets are tools around the program, and the Lean files are generated from the
core.

## What is left

The copy of the parser tables in `lower_lalr`, with the tests of their states and cells,
between `Compile` and `Ranks`.
