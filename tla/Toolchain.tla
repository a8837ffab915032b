----------------------------- MODULE Toolchain ------------------------------
(* The way to a prepared grammar as a user goes it: a manifest imported from *)
(* a tokenizer and then compiled with a grammar, or a manifest made by hand, *)
(* or a layer below the facade called on its own.                            *)
EXTENDS TokenizerImport, Compile

CONSTANTS
    Sources, Manifests,     \* what is compiled without an import
    UserSources,            \* what is compiled after one
    NoDocument, NoSource, NoManifest

VARIABLE origin             \* where the manifest comes from

toolVars == <<importVars, compileVars, origin>>

(* A grammar names each of its tokens once; a manifest may be any at all.    *)
ASSUME InputsAssumption ==
    /\ Bytes # {}
    /\ \A s \in Sources \cup UserSources :
         /\ {s.text, s.rules, s.productions, s.work, s.bytes} \subseteq Nat
         /\ {s.utf8, s.syntax} \subseteq BOOLEAN
         /\ s.named \in Seq(DOMAIN SizeOf) /\ Cardinality(Elements(s.named)) = Len(s.named)
         /\ s.terminals \in Seq([name : DOMAIN SizeOf, pattern : DOMAIN SizeOf \cap DOMAIN Flaw, priority : Nat])
         /\ s.ignored \in Seq(DOMAIN SizeOf)
    /\ \A m \in Manifests : m.token_bytes \in Seq(Seq(Bytes)) /\ IsFiniteSet(m.eos_token_ids)

(* TokenizerJsonLimits and ValidationLimits: an import may not be larger     *)
(* than a manifest may.                                                      *)
ASSUME LimitsAssumption == MaxVocabulary <= MaxTokens /\ MaxDecoded <= MaxTokenBytes

NoImport ==
    /\ document = NoDocument /\ eos_ids = <<>>
    /\ phase = "none" /\ reason = "none" /\ item = 1
    /\ work = 0 /\ decoded = 0
    /\ pairs = <<>> /\ entries = <<>> /\ membership = 0
    /\ tokens = <<>> /\ singleton = {}

ToolchainInit ==
    \/ /\ origin \in {"transformers", "json"}
       /\ ImportInit
       /\ phase = (IF origin = "json" THEN "read" ELSE "called")
       /\ CompileStarts("facade") /\ source = NoSource /\ manifest = NoManifest
    \/ /\ origin = "given"
       /\ NoImport
       /\ \E way \in {"facade", "native", "rust"} : CompileStarts(way)
       /\ source \in Sources /\ manifest \in Manifests
       /\ entry = "rust" => source.utf8

Import == origin # "given" /\ source = NoSource /\ ImportNext /\ UNCHANGED <<compileVars, origin>>

(* from_transformers returns, with no bytes for an end of sentence, and the  *)
(* user compiles.                                                            *)
UseManifest ==
    /\ phase = "imported" /\ origin = "transformers"
    /\ source' \in UserSources
    /\ manifest' = [token_bytes |-> [i \in 1..Len(tokens) |-> IF tokens[i] = Eos THEN <<>> ELSE tokens[i]],
                    eos_token_ids |-> Elements(eos_ids)]
    /\ document' = NoDocument /\ eos_ids' = <<>>
    /\ phase' = "none" /\ reason' = "none" /\ item' = 1
    /\ work' = 0 /\ decoded' = 0
    /\ pairs' = <<>> /\ entries' = <<>> /\ membership' = 0
    /\ tokens' = <<>> /\ singleton' = {}
    /\ UNCHANGED <<entry, layer, step, index, verdict, counted, specs, ignored, lexemes, scan_cost,
                   bindings, aliases, origin>>

Compile == source # NoSource /\ CompileNext /\ UNCHANGED <<importVars, origin>>

ToolchainNext == Import \/ UseManifest \/ Compile
ToolchainSpec == ToolchainInit /\ [][ToolchainNext]_toolVars
-----------------------------------------------------------------------------
ToolchainTypeOK ==
    /\ ImportTypeOK
    /\ origin \in {"transformers", "json", "given"}
    /\ entry \in {"facade", "native", "rust"} /\ layer \in {"facade", "native", "rust"}
    /\ index \in Nat /\ counted \in [{"source", "regex", "tokens"} -> Nat]
    /\ \A name \in DOMAIN specs : specs[name] \in 1..Len(source.terminals)
    /\ ignored \subseteq DOMAIN specs
    /\ \A b \in Elements(bindings) : b.lexeme \in Elements(lexemes)
    /\ \A pair \in aliases : \E b \in Elements(bindings) : pair = <<b.lexeme, b.terminal>>

(* A manifest that the importer made is one that the layers take: its ends   *)
(* of sentence and its ordinary tokens are what each of them asks for, and   *)
(* no larger.  What one layer lets through the others do, and the sizes that *)
(* the stages refuse after them lie in the gaps between two limits.          *)
StagesAgree ==
    /\ LayersAgree /\ LateRefusals
    /\ origin = "transformers" =>
         /\ verdict # "tokenizer"
         /\ source # NoSource => Len(Given) <= MaxTokens /\ TokenBytes <= MaxTokenBytes
=============================================================================
