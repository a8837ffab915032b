------------------------------ MODULE Compile -------------------------------
(* From a grammar, its terminals and a manifest to a prepared grammar:       *)
(* compile of python/greatgramma/compiler.py, _compile_yacc of               *)
(* greatgramma-python, and normalize of greatgramma-compile with             *)
(* parse_source and compile_regexes.  The three may each be the one that is  *)
(* called, and each measures what it is given before the next one sees it.   *)
(*                                                                           *)
(* An action is one stage, or one iteration of the loop of a stage.  What is *)
(* built from the resolved terminals is the subject of other modules; here   *)
(* those stages measure what they are given, and then pass or fail.          *)
EXTENDS Checks

CONSTANTS
    SizeOf,         \* bytes of a name or of a pattern
    Identifiers,    \* the names that Python's Terminal accepts
    Flaw,           \* what a pattern cannot be compiled for, or "none"
    Lexeme,         \* patterns that llguidance registers as one lexeme
    Skip,           \* the lexeme that it registers itself
    BaseCost, LexemeCost, RelevanceCost,    \* its fuel, alone and per lexeme
    PrefixBytes,    \* "%start rule" put before a grammar that has none
    MaxSourceBytes, MaxRegexBytes, MaxTerminalSpecs, MaxIgnoredTerminals,
    MaxTokens, MaxTokenBytes, MaxRegexFuel,
    MaxTerminals, MaxNonterminals, MaxProductions, MaxParserCells,  \* of the parser
    MaxWork, MaxLogicalBytes        \* of the validation

(* A lexeme is one of the patterns that are registered as it, which match    *)
(* the same texts, and never the lexeme that the library keeps for itself.   *)
ASSUME CompileAssumption ==
    /\ {PrefixBytes, MaxSourceBytes, MaxRegexBytes, MaxTerminalSpecs, MaxIgnoredTerminals, MaxTokens,
        MaxTokenBytes, MaxRegexFuel, MaxTerminals, MaxNonterminals, MaxProductions, MaxParserCells,
        MaxWork, MaxLogicalBytes, BaseCost, LexemeCost, RelevanceCost} \subseteq Nat
    /\ \A x \in DOMAIN SizeOf : SizeOf[x] \in Nat
    /\ \A p \in DOMAIN Flaw :
         /\ Flaw[p] \in {"none", "unsupported", "invalid", "nullable", "unmatchable"}
         /\ Lexeme[p] \in DOMAIN Flaw /\ Lexeme[p] # Skip
         /\ Flaw[Lexeme[p]] = "unmatchable" <=> Flaw[p] = "unmatchable"

VARIABLES
    entry,          \* the layer that was called
    source,         \* the grammar and its terminals
    manifest,       \* token_bytes and eos_token_ids
    layer,          \* the one that is at work
    step, index,    \* its stage, and the index of the stage's loop
    verdict,        \* why it refused
    counted,        \* bytes of source, patterns and tokens so far
    specs,          \* TerminalLookup.spec by name
    ignored,        \* TerminalLookup.ignored
    lexemes,        \* LexerSpec.lexemes
    scan_cost,      \* registration_scan_cost
    bindings,       \* which terminal has which lexeme
    aliases         \* the terminal that answers for each lexeme

compileVars == <<entry, source, manifest, layer, step, index, verdict, counted, specs, ignored,
                 lexemes, scan_cost, bindings, aliases>>

Nothing == [source |-> 0, regex |-> 0, tokens |-> 0]
NoSpecs == [name \in {} |-> 0]

CompileStarts(way) ==
    /\ entry = way /\ layer = way
    /\ step = IF way = "facade" THEN "inputs" ELSE IF way = "native" THEN "grammar" ELSE "limits"
    /\ index = 1 /\ verdict = "none"
    /\ counted = Nothing
    /\ specs = NoSpecs /\ ignored = {}
    /\ lexemes = <<Skip>> /\ scan_cost = 0
    /\ bindings = <<>> /\ aliases = {}
-----------------------------------------------------------------------------
(* What the layers hand on: the text with its start rule, the tokens with    *)
(* None, which is Eos, for the ends of sentence.                             *)
TextBytes ==
    source.text + (IF entry = "facade" /\ source.start = "absent" THEN PrefixBytes ELSE 0)
TokensOf(m) ==
    [i \in 1..Len(m.token_bytes) |-> IF i - 1 \in m.eos_token_ids THEN Eos ELSE m.token_bytes[i]]
Given == TokensOf(manifest)
Weight(token) == IF token = Eos THEN 0 ELSE Len(token)
TotalOf(s, Size(_)) == FoldLeft(LAMBDA total, x : total + Size(x), 0, s)
TokenBytes == TotalOf(Given, Weight)
NameBytes(t) == SizeOf[t.name] + SizeOf[t.pattern]
PatternBytes(t) == SizeOf[t.pattern]
IgnoredBytes(name) == SizeOf[name]

Passes(tests, next, i) ==
    /\ Holds(tests)
    /\ step' = next /\ index' = i
    /\ UNCHANGED <<entry, source, manifest, verdict>>

Fails(tests) ==
    /\ ~Holds(tests)
    /\ step' = "refused" /\ verdict' = FirstFailure(tests)
    /\ UNCHANGED <<entry, source, manifest, layer, index, counted, specs, ignored, lexemes,
                   scan_cost, bindings, aliases>>

Resolution == <<specs, ignored, lexemes, scan_cost, bindings, aliases>>
Counting(tests, next, i, count) ==
    \/ Passes(tests, next, i) /\ counted' = count /\ UNCHANGED <<layer, Resolution>>
    \/ Fails(tests)
HandsOver(to, next) ==
    Passes(<<>>, next, 1) /\ layer' = to /\ counted' = Nothing /\ UNCHANGED Resolution
-----------------------------------------------------------------------------
(* The facade.                                                               *)

(* TokenizerManifest.__post_init__, and Terminal's: the caller makes them.   *)
MakeInputs ==
    LET size == Len(manifest.token_bytes)
    IN /\ step = "inputs" /\ layer = "facade"
       /\ Counting(<< Test(size > 0, "tokenizer"), Test(size <= MaxTokens, "too_large"),
                      Test(manifest.eos_token_ids # {}, "tokenizer"),
                      Test(manifest.eos_token_ids \subseteq 0..(size - 1), "tokenizer"),
                      Test(Cardinality(manifest.eos_token_ids) # size, "tokenizer"),
                      Test(<<>> \notin Elements(Given), "tokenizer"),
                      Test(TokenBytes <= MaxTokenBytes, "too_large"),
                      Test(\A t \in Elements(source.terminals) : t.name \in Identifiers, "configuration") >>,
                   "grammar", 1, counted)

(* Mutant: the start rule that is put before the grammar is not counted.     *)
ReadGrammarUncounted ==
    /\ step = "grammar" /\ layer = "facade"
    /\ Counting(<< Test(source.utf8, "not_utf8"), Test(source.text <= MaxSourceBytes, "too_large"),
                   Test(source.start \in {"absent", "declared"}, "start_rule") >>,
                "terminals", 1, [Nothing EXCEPT !.source = source.text])

(* _grammar_text and _with_start_rule                                        *)
ReadGrammar ==
    /\ step = "grammar" /\ layer = "facade"
    /\ Counting(<< Test(source.utf8, "not_utf8"), Test(source.text <= MaxSourceBytes, "too_large"),
                   Test(source.start \in {"absent", "declared"}, "start_rule"),
                   Test(TextBytes <= MaxSourceBytes, "too_large") >>,
                "terminals", 1, [Nothing EXCEPT !.source = TextBytes])

(* A name and its pattern are measured against what is left of the budgets.  *)
MeasureTerminal ==
    LET t == source.terminals[index]
        source_left == MaxSourceBytes - counted.source - SizeOf[t.name]
        regex_left == MaxRegexBytes - counted.regex
    IN /\ step = "terminals" /\ layer = "facade" /\ index <= Len(source.terminals)
       /\ Counting(<< Test(index <= MaxTerminalSpecs, "too_large"),
                      Test(source_left >= 0, "too_large"),
                      Test(PatternBytes(t) <= source_left /\ PatternBytes(t) <= regex_left, "too_large") >>,
                   step, index + 1, [counted EXCEPT !.source = @ + NameBytes(t),
                                                    !.regex = @ + PatternBytes(t)])

MeasureIgnored ==
    LET i == index - Len(source.terminals)
        name == source.ignored[i]
    IN /\ step = "terminals" /\ layer = "facade"
       /\ i \in 1..Len(source.ignored)
       /\ Counting(<< Test(i <= MaxIgnoredTerminals, "too_large"),
                      Test(name \in Identifiers, "configuration"),
                      Test(counted.source + SizeOf[name] <= MaxSourceBytes, "too_large") >>,
                   step, index + 1, [counted EXCEPT !.source = @ + SizeOf[name]])

CallNativeCompile ==
    /\ step = "terminals" /\ layer = "facade" /\ index > Len(source.terminals) + Len(source.ignored)
    /\ HandsOver("native", "grammar")
-----------------------------------------------------------------------------
(* preflight_compile_inputs, which measures Python's objects before anything *)
(* is copied out of them, and compile_inner, which measures the vocabulary   *)
(* again.                                                                    *)
Within(count) ==
    << Test(count.source <= MaxSourceBytes, "too_large"),
       Test(Len(source.terminals) <= MaxTerminalSpecs, "too_large"),
       Test(Len(source.ignored) <= MaxIgnoredTerminals, "too_large"),
       Test(count.regex <= MaxRegexBytes, "too_large"),
       Test(Len(Given) <= MaxTokens, "too_large"),
       Test(count.tokens <= MaxTokenBytes, "too_large") >>

PreflightGrammar ==
    LET count == [Nothing EXCEPT !.source = TextBytes]
    IN /\ step = "grammar" /\ layer = "native"
       /\ Counting(Within(Nothing) \o <<Test(source.utf8, "not_utf8")>> \o Within(count),
                   "terminals", 1, count)

PreflightItem ==
    LET terminals == Len(source.terminals)
        names == terminals + Len(source.ignored)
        count == IF index <= terminals
                 THEN [counted EXCEPT !.source = @ + NameBytes(source.terminals[index]),
                                      !.regex = @ + PatternBytes(source.terminals[index])]
                 ELSE IF index <= names
                 THEN [counted EXCEPT !.source = @ + SizeOf[source.ignored[index - terminals]]]
                 ELSE [counted EXCEPT !.tokens = @ + Weight(Given[index - names])]
    IN /\ step = "terminals" /\ layer = "native" /\ index <= names + Len(Given)
       /\ Counting(Within(count), step, index + 1, count)

CallCompile ==
    /\ step = "terminals" /\ layer = "native"
    /\ index > Len(source.terminals) + Len(source.ignored) + Len(Given)
    /\ HandsOver("rust", "limits")
-----------------------------------------------------------------------------
(* normalize: check_source_limits and normalize_manifest.                    *)
CheckLimits ==
    LET names == TotalOf(source.ignored, IgnoredBytes)
        count == [source |-> TextBytes + TotalOf(source.terminals, NameBytes) + names,
                  regex |-> TotalOf(source.terminals, PatternBytes), tokens |-> TokenBytes]
    IN /\ step = "limits"
       /\ Counting(<< Test(Len(source.terminals) <= MaxTerminalSpecs, "too_large"),
                      Test(Len(source.ignored) <= MaxIgnoredTerminals, "too_large"),
                      Test(count.source <= MaxSourceBytes, "too_large"),
                      Test(count.regex <= MaxRegexBytes, "too_large"),
                      Test(Given # <<>>, "tokenizer"), Test(Len(Given) <= MaxTokens, "too_large"),
                      Test(count.tokens <= MaxTokenBytes, "too_large"),
                      Test(<<>> \notin Elements(Given), "tokenizer"),
                      Test(Elements(Given) # {Eos}, "tokenizer"),
                      Test(Eos \in Elements(Given), "tokenizer") >>,
                   "yacc", 1, count)

Resolving(tests, next, i, more) ==
    \/ Passes(tests, next, i) /\ more /\ UNCHANGED <<layer, counted>>
    \/ Fails(tests)

(* parse_source, of a grammar that the yacc library (external) can read.  It *)
(* refuses too many names with the error for too many terminals.             *)
ReadYacc ==
    /\ step = "yacc"
    /\ Resolving(<< Test(source.directives = {}, "unsupported"), Test(source.syntax, "syntax"),
                    Test(Len(source.named) <= MaxTerminalSpecs, "too_many_names") >>,
                 "specs", 1, UNCHANGED Resolution)

Named(name) == name \in Elements(source.named)

MatchSpec ==
    LET name == source.terminals[index].name
    IN /\ step = "specs" /\ index <= Len(source.terminals)
       /\ Resolving(<< Test(Named(name), "unknown"), Test(name \notin DOMAIN specs, "duplicate") >>,
                    step, index + 1,
                    /\ specs' = [n \in DOMAIN specs \cup {name} |-> IF n = name THEN index ELSE specs[n]]
                    /\ UNCHANGED <<ignored, lexemes, scan_cost, bindings, aliases>>)

MatchNames ==
    /\ step = "specs" /\ index > Len(source.terminals)
    /\ Resolving(<<Test(Elements(source.named) \subseteq DOMAIN specs, "missing")>>,
                 "ignored", 1, UNCHANGED Resolution)

(* Mutant: a name that no terminal has is ignored.                           *)
IgnoreUnknown ==
    LET name == source.ignored[index]
    IN /\ step = "ignored" /\ index <= Len(source.ignored)
       /\ Resolving(<< Test(name \notin ignored, "duplicate_ignored"),
                       Test(name \notin source.used, "ignored_used") >>,
                    step, index + 1,
                    /\ ignored' = ignored \cup {name}
                    /\ UNCHANGED <<specs, lexemes, scan_cost, bindings, aliases>>)

(* resolve_ignored                                                           *)
Ignore ==
    LET name == source.ignored[index]
    IN /\ step = "ignored" /\ index <= Len(source.ignored)
       /\ Resolving(<< Test(Named(name), "unknown_ignored"),
                       Test(name \notin ignored, "duplicate_ignored"),
                       Test(name \notin source.used, "ignored_used") >>,
                    step, index + 1,
                    /\ ignored' = ignored \cup {name}
                    /\ UNCHANGED <<specs, lexemes, scan_cost, bindings, aliases>>)

(* What the stages build from here on is the subject of other modules: a     *)
(* stage may fail, for limits on what it builds or for faults found there.   *)
Delegates == Fails(<<Test(FALSE, "delegated")>>)
Proceeds(tests, next) == Resolving(tests, next, 1, UNCHANGED Resolution)

(* lower_lalr: check_grammar_dimensions, which counts the end of input among *)
(* the terminals, and what Ranks and Lowering model.                         *)
Columns == Len(source.named) + 1
Lower ==
    LET tests == << Test(/\ Columns <= MaxTerminals /\ source.rules <= MaxNonterminals
                         /\ source.productions <= MaxProductions, "grammar_too_large"),
                    Test(Columns + source.rules <= MaxParserCells, "grammar_too_large") >>
    IN /\ step = "ignored" /\ index > Len(source.ignored)
       /\ Proceeds(tests, "regexes") \/ (Holds(tests) /\ Delegates)

(* build_lexer_dfa, the validation and the preparation.  The validation adds *)
(* the tokens and their bytes to what its tables take, in work and in bytes. *)
Export == step = "export" /\ (Proceeds(<<>>, "validate") \/ Delegates)

TokenLoad == Len(Given) + TokenBytes
Validate ==
    /\ step = "validate"
    /\ \/ Proceeds(<< Test(source.work + TokenLoad <= MaxWork, "work"),
                      Test(source.bytes + TokenLoad <= MaxLogicalBytes, "bytes") >>, "prepare")
       \/ Delegates

Prepare == step = "prepare" /\ (Proceeds(<<>>, "compiled") \/ Delegates)
-----------------------------------------------------------------------------
(* compile_regexes: the terminals in the order of the grammar, with one      *)
(* budget of fuel for all of them.                                           *)
SpecCost(ls) == BaseCost + LexemeCost * Len(ls)
WithLexeme(ls, lexeme) == IF lexeme \in Elements(ls) THEN ls ELSE Append(ls, lexeme)

Register ==
    LET name == source.named[index]
        spec == source.terminals[specs[name]]
        scanned == scan_cost + Len(lexemes)
        added == WithLexeme(lexemes, Lexeme[spec.pattern])
    IN /\ step = "regexes" /\ index <= Len(source.named)
       /\ Resolving(<< Test(scan_cost + SpecCost(lexemes) <= MaxRegexFuel, "fuel"),
                       Test(Flaw[spec.pattern] # "unsupported", "regex"),
                       Test(scanned + SpecCost(lexemes) <= MaxRegexFuel, "fuel"),
                       Test(Flaw[spec.pattern] # "invalid", "regex"),
                       Test(scanned + SpecCost(added) <= MaxRegexFuel, "fuel"),
                       Test(Flaw[spec.pattern] # "nullable", "regex") >>,
                    step, index + 1,
                    /\ scan_cost' = scanned /\ lexemes' = added
                    /\ bindings' = Append(bindings, [lexeme |-> Lexeme[spec.pattern], terminal |-> index,
                                                     priority |-> spec.priority])
                    /\ UNCHANGED <<specs, ignored, aliases>>)

(* to_regex_vec spends what is left of the fuel, and a state that wants all  *)
(* the lexemes shows which cannot match.                                     *)
Unmatchable == {l \in Elements(lexemes) \ {Skip} : Flaw[l] = "unmatchable"}
BuildRegexes ==
    /\ step = "regexes" /\ index > Len(source.named)
    /\ Resolving(<< Test(scan_cost + SpecCost(lexemes) + RelevanceCost * Len(lexemes) <= MaxRegexFuel,
                         "fuel"),
                    Test(Unmatchable = {}, "regex") >>,
                 "aliases", 1, UNCHANGED Resolution)

(* collapse_aliases: the terminals of a lexeme, of which the first with the  *)
(* least priority is chosen, unless another has the same.                    *)
Group(lexeme) == {b \in Elements(bindings) : b.lexeme = lexeme}
Least(group) == {b \in group : \A c \in group : b.priority <= c.priority}

(* Mutant: the first of the terminals that share a lexeme answers for it.    *)
ChosenFirst(group) == CHOOSE b \in group : \A c \in group : b.terminal <= c.terminal
Chosen(group) == CHOOSE b \in Least(group) : \A c \in Least(group) : b.terminal <= c.terminal

CollapseAliases ==
    LET groups == {Group(l) : l \in Elements(lexemes)} \ {{}}
    IN /\ step = "aliases"
       /\ Resolving(<<Test(\A g \in groups : Cardinality(Least(g)) = 1, "tied")>>, "export", 1,
                    /\ aliases' = {<<Chosen(g).lexeme, Chosen(g).terminal>> : g \in groups}
                    /\ UNCHANGED <<specs, ignored, lexemes, scan_cost, bindings>>)

CompileNext ==
    \/ MakeInputs \/ ReadGrammar \/ MeasureTerminal \/ MeasureIgnored \/ CallNativeCompile
    \/ PreflightGrammar \/ PreflightItem \/ CallCompile
    \/ CheckLimits \/ ReadYacc \/ MatchSpec \/ MatchNames \/ Ignore \/ Lower
    \/ Register \/ BuildRegexes \/ CollapseAliases
    \/ Export \/ Validate \/ Prepare
-----------------------------------------------------------------------------
(* What is given fits if all of it does, whoever measures it.                *)
Fits ==
    /\ TextBytes + TotalOf(source.terminals, NameBytes) + TotalOf(source.ignored, IgnoredBytes)
         <= MaxSourceBytes
    /\ TotalOf(source.terminals, PatternBytes) <= MaxRegexBytes
    /\ Len(source.terminals) <= MaxTerminalSpecs /\ Len(source.ignored) <= MaxIgnoredTerminals
    /\ Len(Given) <= MaxTokens /\ TokenBytes <= MaxTokenBytes

(* The layers measure six sizes alike.  For these only the layer that is     *)
(* called refuses an input, before it hands anything on, and just if it does *)
(* not fit; what it lets through, every later layer, with limits and sums of *)
(* its own, finds to fit too.  The facade's word on a manifest is the last   *)
(* one, as well.                                                             *)
LayersAgree ==
    /\ layer # entry => verdict # "too_large" /\ (entry = "facade" => verdict # "tokenizer")
    /\ verdict = "too_large" => ~Fits
    /\ (layer # entry \/ step \in {"yacc", "specs", "ignored", "regexes"}) => Fits

(* Inputs that every layer let through are still refused for their size by   *)
(* the stages, but only where no layer could have: for names of which one    *)
(* has no terminal, so that the grammar had to be refused; for terminals     *)
(* that are within the layers' limit and, with the end of input, not within  *)
(* the parser's; for rules and productions, which the layers do not see; and *)
(* for tokens whose number and bytes are within theirs, the sum of them with *)
(* the tables not within that of the validation.                             *)
LateRefusals ==
    /\ verdict = "too_many_names" =>
         \E name \in Elements(source.named) : \A t \in Elements(source.terminals) : t.name # name
    /\ verdict = "grammar_too_large" =>
         \/ Len(source.terminals) \in MaxTerminals..MaxTerminalSpecs
         \/ source.rules > MaxNonterminals \/ source.productions > MaxProductions
         \/ Len(source.terminals) + source.rules >= MaxParserCells
    /\ verdict = "work" => TokenLoad \in (MaxWork - source.work + 1)..(MaxTokens + MaxTokenBytes)
    /\ verdict = "bytes" => TokenLoad \in (MaxLogicalBytes - source.bytes + 1)..(MaxTokens + MaxTokenBytes)

(* Each name has one spec and each spec a name, and what is ignored is named *)
(* once and used nowhere.                                                    *)
NamesFit ==
    /\ \A i \in 1..Len(source.terminals) : Named(source.terminals[i].name)
    /\ \A name \in Elements(source.named) :
         Cardinality({i \in 1..Len(source.terminals) : source.terminals[i].name = name}) = 1
    /\ Elements(source.ignored) \subseteq Elements(source.named) \ source.used
    /\ Cardinality(Elements(source.ignored)) = Len(source.ignored)

SpecOf(name) == CHOOSE t \in Elements(source.terminals) : t.name = name
PatternsOf(names) == {SpecOf(name).pattern : name \in names}
LexemesOf(names) == {Lexeme[p] : p \in PatternsOf(names)}
FuelNeeded ==
    LET all == 1 + Cardinality(LexemesOf(Elements(source.named)))
        before(i) == 1 + Cardinality(LexemesOf(Elements(SubSeq(source.named, 1, i - 1))))
    IN BaseCost + (LexemeCost + RelevanceCost) * all
         + FoldLeft(LAMBDA total, i : total + before(i), 0, [i \in 1..Len(source.named) |-> i])
Sharing(name) ==
    {other \in Elements(source.named) : Lexeme[SpecOf(other).pattern] = Lexeme[SpecOf(name).pattern]}
Wins(name) ==
    \A other \in Sharing(name) \ {name} : SpecOf(name).priority < SpecOf(other).priority

(* Whatever the order of the terminals and however often their patterns      *)
(* coincide: a grammar gets to its tables just if its names fit, its         *)
(* patterns can be compiled within the fuel that all of them together need,  *)
(* and each lexeme has one terminal of least priority, which is then the one *)
(* that answers for it.                                                      *)
CompileIsExact ==
    /\ verdict \in {"unknown", "duplicate", "missing", "unknown_ignored", "duplicate_ignored",
                    "ignored_used"} => ~NamesFit
    /\ verdict = "regex" => \E p \in PatternsOf(Elements(source.named)) : Flaw[p] # "none"
    /\ verdict = "fuel" => FuelNeeded > MaxRegexFuel
    /\ verdict = "tied" => \E name \in Elements(source.named) : \A n \in Sharing(name) : ~Wins(n)
    /\ step \in {"export", "validate", "prepare", "compiled"} =>
         /\ NamesFit /\ source.syntax /\ source.directives = {} /\ source.utf8
         /\ \A p \in PatternsOf(Elements(source.named)) : Flaw[p] = "none"
         /\ FuelNeeded <= MaxRegexFuel
         /\ aliases = {<<Lexeme[SpecOf(source.named[i]).pattern], i>> :
                         i \in {j \in 1..Len(source.named) : Wins(source.named[j])}}
         /\ LexemesOf(Elements(source.named)) = {pair[1] : pair \in aliases}
=============================================================================
