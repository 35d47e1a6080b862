---------------------------- MODULE LanguageServer ----------------------------
(***************************************************************************)
(* The language server (rex-lsp tower.rs, shared.rs and the quick fixes of *)
(* queries.rs): the open documents, the parse cache they share, analyses   *)
(* that run on other threads while the documents change, and quick fixes   *)
(* that are proposed at one time and applied at another.                   *)
(*                                                                         *)
(* A document is named by the module it holds.  A text is its own hash.    *)
(* Notifications change the documents in the order they arrive (tower-lsp  *)
(* polls a handler before it takes the next message, and the documents'    *)
(* lock is never held across a suspension).                                *)
(***************************************************************************)
EXTENDS Analyses

CONSTANTS Engine,       \* the engine with the prelude
          Defaults,     \* the default imports: the prelude
          ModuleOrder,  \* all modules in the order of their names
          Source,       \* a text's program: <<unit>>, or <<>> when it does not parse
          Clients,      \* the texts a client gives each document in one session
          Disks,        \* what may be on disk: the text of each module
          Result(_),    \* what an analysis gives, see ResultOf
          Jobs,         \* the analyses that can run at once
          MaxEdits      \* how often the client opens, changes or closes a document

VARIABLES disk,      \* the text of each module on disk
          client,    \* the texts this session's client writes
          docs,      \* <<[text, v]>> for an open document, else <<>>
          cache,     \* the text whose parse is cached, per document, as <<text>> or <<>>
          jobs,      \* the running analyses
          proposals, \* the quick fixes clients were given
          ready,     \* the fix just found ready to apply, with the document it met
          edits,
          results    \* the results of the analyses, by document, text and what it sees

vars == <<disk, client, docs, cache, jobs, proposals, ready, edits, results>>

Uris == DOMAIN (CHOOSE c \in Clients : TRUE).texts

(***************************************************************************)
(* What an analysis of program p of module id sees: the open documents     *)
(* before the files on disk (LspModuleService), and the prelude.           *)
(***************************************************************************)
ModuleOf(text) ==
    IF Source[text] = <<>> THEN [k |-> "broken", unit |-> Unit(<<>>, <<>>), natives |-> <<>>]
    ELSE [k |-> "source", unit |-> Source[text][1], natives |-> <<>>]

Package == [k |-> "package", unit |-> Unit(<<>>, <<>>), natives |-> <<>>]

World(texts) ==
    [modules |-> [id \in DOMAIN texts |-> ModuleOf(texts[id])] @@ [id \in ToSet(Defaults) |-> Package],
     defaults |-> Defaults, order |-> ModuleOrder]

TextsSeen(open, onDisk) == [id \in DOMAIN onDisk |-> IF id \in DOMAIN open /\ open[id] # <<>> THEN open[id][1] ELSE onDisk[id]]

(***************************************************************************)
(* The results of the analyses a session can ask for: of each text of each *)
(* document, with each state of the other documents.  They are computed in *)
(* the initial state, so that TLC computes each of them once.              *)
(***************************************************************************)
KeyOf(id, text, seen) == [id |-> id, text |-> text, seen |-> seen]

Seeable(texts, onDisk) ==
    LET all == UNION {texts[u] : u \in Uris} \cup {onDisk[m] : m \in DOMAIN onDisk}
    IN {s \in [DOMAIN onDisk -> all] : \A m \in DOMAIN onDisk : s[m] = onDisk[m] \/ (m \in Uris /\ s[m] \in texts[m])}
KeysOf(texts, onDisk) == UNION {{KeyOf(u, t, s) : t \in texts[u], s \in Seeable(texts, onDisk)} : u \in Uris}

NotParsed == [parses |-> FALSE, fills |-> <<>>, names |-> TRUE, types |-> TRUE, loaded |-> TRUE]

ResultOf(k) ==
    IF Source[k.text] = <<>> THEN NotParsed
    ELSE LET p == Source[k.text][1] w == World(k.seen)
         IN CHOOSE r \in {[parses |-> TRUE, fills |-> [t \in HoleTokens(p) |-> a.at[t].fills],
                           names |-> NamesRight(k.id, p, w, a), types |-> TypesRight(p, a),
                           loaded |-> LoadedRight(Engine, w, k.id, p, a.snippet)] : a \in {Analyse(Engine, k.id, p, w)}} : TRUE

ASSUME ResultAssumption ==
    \A c \in Clients, onDisk \in Disks : \A k \in KeysOf(c.texts, onDisk) : Result(k) = ResultOf(k)

(***************************************************************************)
(* Jobs.                                                                   *)
(***************************************************************************)
Idle == [pc |-> "idle", k |-> "", id |-> "", text |-> "", v |-> 0, open |-> <<>>, prog |-> ""]
OpenTexts == [u \in Uris |-> IF docs[u] = <<>> THEN <<>> ELSE <<docs[u][1].text>>]
Job(k, u, doc, pc, open) == [pc |-> pc, k |-> k, id |-> u, text |-> doc.text, v |-> doc.v, open |-> open, prog |-> doc.text]
IdleJobs == {j \in Jobs : jobs[j].pc = "idle"}

\* The result of a job that has the parse of a text.
ResultFor(job, text) == results[KeyOf(job.id, text, TextsSeen(job.open, disk))]

Init ==
    /\ disk \in Disks
    /\ client \in Clients
    /\ docs = [u \in Uris |-> <<>>]
    /\ cache = [u \in Uris |-> <<>>]
    /\ jobs = [j \in Jobs |-> Idle]
    /\ proposals = {}
    /\ ready = <<>>
    /\ edits = 0
    /\ results = [k \in KeysOf(client.texts, disk) |-> Result(k)]

\* did_open and did_change up to the session of publish_diagnostics.
Edited(j, u, doc) ==
    /\ docs' = [docs EXCEPT ![u] = <<doc>>]
    /\ cache' = [cache EXCEPT ![u] = <<>>]
    /\ jobs' = [jobs EXCEPT ![j] = Job("diagnose", u, doc, "session", <<>>)]
    /\ edits' = edits + 1
    /\ ready' = <<>>
    /\ UNCHANGED <<results, disk, client, proposals>>

\* A client numbers a document from 1 again when it opens it again.
DidOpen(j, u, t) ==
    /\ edits < MaxEdits /\ docs[u] = <<>>
    /\ Edited(j, u, [text |-> t, v |-> 1])

DidChange(j, u, t) ==
    /\ edits < MaxEdits /\ docs[u] # <<>> /\ t # docs[u][1].text
    /\ Edited(j, u, [text |-> t, v |-> docs[u][1].v + 1])

DidClose(u) ==
    /\ edits < MaxEdits /\ docs[u] # <<>>
    /\ docs' = [docs EXCEPT ![u] = <<>>]
    /\ cache' = [cache EXCEPT ![u] = <<>>]
    /\ edits' = edits + 1
    /\ ready' = <<>>
    /\ UNCHANGED <<results, disk, client, jobs, proposals>>

\* publish_diagnostics: the open documents as they are now, with the text of the edit.
Session(j) ==
    /\ jobs[j].pc = "session"
    /\ jobs' = [jobs EXCEPT ![j].open = OpenTexts, ![j].pc = "parse"]
    /\ ready' = <<>>
    /\ UNCHANGED <<results, disk, client, docs, cache, proposals, edits>>

\* A request: document_with_session takes the text and the open documents together.
Ask(j, u) ==
    /\ docs[u] # <<>>
    /\ jobs' = [jobs EXCEPT ![j] = Job("request", u, docs[u][1], "parse", OpenTexts)]
    /\ ready' = <<>>
    /\ UNCHANGED <<results, disk, client, docs, cache, proposals, edits>>

\* tokenize_and_parse_cached: the lookup ...
CacheHitOfDocument(cached, text) == cached # <<>>

CacheHit(cached, text) == cached = <<text>>

LookUpParse(j) ==
    LET job == jobs[j]
        hit == CacheHit(cache[job.id], job.text)
    IN /\ job.pc = "parse"
       /\ jobs' = [jobs EXCEPT ![j].prog = IF hit THEN cache[job.id][1] ELSE @,
                               ![j].pc = IF hit \/ ~ResultFor(job, job.text).parses THEN "answered" ELSE "insert"]
       /\ ready' = <<>>
       /\ UNCHANGED <<results, disk, client, docs, cache, proposals, edits>>

\* ... and, after the text was parsed without the lock, the insertion.
InsertParse(j) ==
    /\ jobs[j].pc = "insert"
    /\ cache' = [cache EXCEPT ![jobs[j].id] = <<jobs[j].prog>>]
    /\ jobs' = [jobs EXCEPT ![j].pc = "answered"]
    /\ ready' = <<>>
    /\ UNCHANGED <<results, disk, client, docs, proposals, edits>>

(***************************************************************************)
(* Quick fixes.  A proposal names the document, the content it was made    *)
(* from and the version, and its edit is bound to that version.            *)
(***************************************************************************)
VersionEdit(edit, v) == [edit EXCEPT !.v = <<v>>]

QuickFixes(job) ==
    LET fills == ResultFor(job, job.prog).fills
    IN UNION {{[uri |-> job.id, hash |-> job.text, v |-> job.v,
                edit |-> VersionEdit([uri |-> job.id, at |-> t, new |-> f, v |-> <<>>], job.v)] : f \in fills[t]} : t \in DOMAIN fills}

\* The answer is returned or published.
Reply(j) ==
    /\ jobs[j].pc = "answered"
    /\ proposals' = IF jobs[j].k = "request" THEN QuickFixes(jobs[j]) ELSE proposals
    /\ jobs' = [jobs EXCEPT ![j] = Idle]
    /\ ready' = <<>>
    /\ UNCHANGED <<results, disk, client, docs, cache, edits>>

\* execute_semantic_loop_apply_quick_fix.
StatusByVersion(fix, u, doc) ==
    CASE fix.uri # u -> "uriMismatch"
      [] fix.uri = u /\ fix.v # doc.v -> "documentVersionChanged"
      [] fix.uri = u /\ fix.v = doc.v /\ fix.edit.uri # u -> "unsupportedEditScope"
      [] fix.uri = u /\ fix.v = doc.v /\ fix.edit.uri = u /\ fix.edit.v # <<fix.v>> -> "unversionedEdit"
      [] OTHER -> "ready"

QuickFixStatus(fix, u, doc) ==
    CASE fix.uri = u /\ fix.hash # doc.text -> "documentContentChanged"
      [] OTHER -> StatusByVersion(fix, u, doc)

\* The command that applies a fix: once it is ready the client is asked to apply its edit.
ApplyQuickFix(u, fix) ==
    /\ docs[u] # <<>>
    /\ QuickFixStatus(fix, u, docs[u][1]) = "ready"
    /\ ready' = <<[fix |-> fix, v |-> docs[u][1].v, holes |-> DOMAIN ResultFor(Job("request", u, docs[u][1], "", OpenTexts), docs[u][1].text).fills]>>
    /\ UNCHANGED <<results, disk, client, docs, cache, jobs, proposals, edits>>

Start(j) ==
    \/ \E u \in Uris : \E t \in client.texts[u] : DidOpen(j, u, t) \/ DidChange(j, u, t)
    \/ \E u \in Uris : Ask(j, u)

Next ==
    \/ \E j \in IdleJobs : Start(j)
    \/ \E u \in Uris : DidClose(u)
    \/ \E j \in Jobs : Session(j) \/ LookUpParse(j) \/ InsertParse(j) \/ Reply(j)
    \/ \E u \in Uris, fix \in proposals : ApplyQuickFix(u, fix)

Spec == Init /\ [][Next]_vars
===============================================================================
