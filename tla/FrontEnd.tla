------------------------------- MODULE FrontEnd -------------------------------
(***************************************************************************)
(* The language server beside the command line that compiles programs from *)
(* disk, and what must hold of the two.                                    *)
(***************************************************************************)
EXTENDS LanguageServer

CONSTANTS RustModules, \* the modules the command line's engine has in Rust
          Build(_, _)  \* what compiling a text gives, see BuildOf

VARIABLE built         \* the text compiled last and what came of it

frontVars == <<vars, built>>

CommandWorld(onDisk) == LET w == World(onDisk) IN [w EXCEPT !.modules = RustModules @@ @]

\* The text compiled as module M.
BuildOf(t, onDisk) ==
    LET p == Source[t][1] w == CommandWorld(onDisk)
    IN CHOOSE r \in {[text |-> t, err |-> b.compiled.err, names |-> BuiltNamesRight("M", p, w, b),
                      types |-> BuiltTypesRight(p, b), loaded |-> LoadedRight(Engine, w, "M", p, b.compiled)] :
                         b \in {Compiled(Engine, "M", p, w)}} : TRUE

ASSUME BuildAssumption ==
    \A c \in Clients, onDisk \in Disks : \A t \in c.programs : Build(t, onDisk) = BuildOf(t, onDisk)

FrontInit == Init /\ built = <<>>

\* The command line shares nothing with the server but the disk: it compiles while the
\* server has nothing open.
Compile(t) ==
    /\ edits = 0 /\ built = <<>>
    /\ built' = <<Build(t, disk)>>
    /\ UNCHANGED vars

FrontNext ==
    \/ Next /\ UNCHANGED built
    \/ \E t \in client.programs : Compile(t)

FrontSpec == FrontInit /\ [][FrontNext]_frontVars

(***************************************************************************)
(* Properties.                                                             *)
(***************************************************************************)
\* The results that are about to be returned.
Returned == {ResultFor(jobs[j], jobs[j].prog) : j \in {i \in Jobs : jobs[i].pc = "answered"}} \cup ToSet(built)

\* Qualifying and rewriting (qualify.rs, rewrite.rs) leave every use of a name with the
\* binding, the declaration or the imported declaration its author meant, also where a
\* local name hides a module's alias or a declaration; go-to-definition and references
\* (completion.rs, navigation.rs) find exactly the same binding; what the server finds
\* wrong with an import, the compiler's diagnostics report (imports.rs, diagnostics.rs).
NamesResolved == \A r \in Returned : r.names

\* The two inferences (inference.rs: infer, infer_typed) accept the same programs with the
\* same type, the typed tree is a derivation in which only variables that no enclosing
\* binding mentions are generalized, what is compiled has an instance of that type, and
\* the type shown at a use is an instance of the type shown at its binding.
TypesAgree == \A r \in Returned : r.types

\* A module enters the engine once and after the modules it imports; only in an import
\* cycle may it come before one of them, whose interface is then published, so that no
\* order of loading makes a name unknown (rewrite.rs, load_module_types_via_scc).
LoadedInOrder == \A r \in Returned : r.loaded

\* An answer is about the text the request met and, for a request, the documents open at
\* that moment, however edits, other requests and their insertions into the parse cache
\* interleave (shared.rs, tokenize_and_parse_cached).
AnswersOfText ==
    \A j \in Jobs : jobs[j].pc = "answered" =>
        /\ jobs[j].prog = jobs[j].text
        /\ jobs[j].k # "diagnose" => jobs[j].open[jobs[j].id] = <<jobs[j].text>>

\* A quick fix that is found ready replaces a hole of the text the server holds then, and
\* its edit carries that document's version, also when the document was closed and opened
\* again in between (queries.rs, execute_semantic_loop_apply_quick_fix).
EditsFit ==
    \A r \in ToSet(ready) :
        /\ r.fix.edit.at \in r.holes
        /\ r.fix.edit.v = <<r.v>>
===============================================================================
