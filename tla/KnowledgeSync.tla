--------------------------- MODULE KnowledgeSync ---------------------------
(***************************************************************************)
(* The assistant's corpus and its copy in the provider's vector store      *)
(* (features/assistant/knowledge-*.ts, infrastructure/openai): the command *)
(* that reads the manifest, compares it with the rows of                   *)
(* AssistantKnowledgeDocument and the files of the store, and uploads,     *)
(* replaces and removes documents one call at a time.                      *)
(*                                                                         *)
(* Every call to the provider and every statement on the database is a     *)
(* step.  Any of them may fail and the command may die between two of      *)
(* them; the operator runs it again.  A text stands for everything that is *)
(* compared of a document: checksum, version, title, path, requirements.   *)
(***************************************************************************)
EXTENDS Naturals, FiniteSets

CONSTANTS
    Docs,          \* source keys
    Texts,
    Syncs,         \* commands that may run at the same time (the instances run one)
    MaxFiles,      \* bound on the files the provider holds at once
    MaxEdits,      \* bound on the edits of the corpus
    MaxFaults,     \* bound on failed calls and crashes
    MaxSwaps       \* bound on replacements of the vector store

ASSUME KnowledgeAssumption ==
    /\ MaxFiles \in Nat \ {0} /\ MaxEdits \in Nat /\ MaxFaults \in Nat /\ MaxSwaps \in Nat

VARIABLES
    corpus,     \* the manifest and its files: what each document is listed as
    row,        \* AssistantKnowledgeDocument
    file,       \* the provider's files and how they are attached to the store
    sync,       \* where each command is
    sealed,     \* history: the <<document, text>> pairs ever approved in a manifest
    spent       \* the bounded events that have happened

knowledgeVars == <<corpus, row, file, sync, sealed, spent>>

Files == 1 .. MaxFiles
NoFile == 0
Unlisted == [as |-> "unlisted", text |-> 0, seal |-> 0]
NoRow == [status |-> "absent", file |-> NoFile, text |-> 0]
Absent == [state |-> "absent", doc |-> "none", text |-> 0]
NoAction == [type |-> "none", doc |-> "none", previous |-> NoFile]
Idle == [step |-> "idle", manifest |-> [d \in Docs |-> Unlisted], present |-> {},
         todo |-> {}, doing |-> NoAction, uploaded |-> NoFile, failed |-> FALSE,
         remote |-> {}, referenced |-> {}, toRead |-> {}]

KnowledgeInit ==
    /\ corpus = [d \in Docs |-> Unlisted]
    /\ row = [d \in Docs |-> NoRow]
    /\ file = [f \in Files |-> Absent]
    /\ sync = [s \in Syncs |-> Idle]
    /\ sealed = {}
    /\ spent = [edits |-> 0, faults |-> 0, swaps |-> 0]

-----------------------------------------------------------------------------
(* The environment *)

\* A reviewed commit changes one entry of the manifest or its Markdown file.
EditCorpus(d, entry) ==
    /\ spent.edits < MaxEdits
    /\ entry # corpus[d]
    /\ corpus' = [corpus EXCEPT ![d] = entry]
    /\ sealed' = IF entry.as = "approved" THEN sealed \cup {<<d, entry.seal>>} ELSE sealed
    /\ spent' = [spent EXCEPT !.edits = @ + 1]
    /\ UNCHANGED <<row, file, sync>>

\* OPENAI_VECTOR_STORE_ID, which a command reads when it starts, names another, empty
\* store: no file is attached to it.
SwapStore ==
    /\ spent.swaps < MaxSwaps
    /\ \A s \in Syncs : sync[s].step = "idle"
    /\ file' = [f \in Files |-> IF file[f] = Absent THEN Absent
                                                   ELSE [file[f] EXCEPT !.state = "stored"]]
    /\ spent' = [spent EXCEPT !.swaps = @ + 1]
    /\ UNCHANGED <<corpus, row, sync, sealed>>

Fault == spent.faults < MaxFaults /\ spent' = [spent EXCEPT !.faults = @ + 1]

\* The provider ends the indexing of a file nobody waits for any more.
ProviderIndexes(f) ==
    /\ file[f].state = "pending"
    /\ \A s \in Syncs : sync[s].uploaded # f
    /\ file' = [file EXCEPT ![f].state = "completed"]
    /\ UNCHANGED <<corpus, row, sync, sealed, spent>>

\* The command dies, or a statement outside its try blocks fails and ends it.
CommandStops(s) ==
    /\ sync[s].step # "idle"
    /\ Fault
    /\ sync' = [sync EXCEPT ![s] = Idle]
    /\ UNCHANGED <<corpus, row, file, sealed>>

-----------------------------------------------------------------------------
(* Plan *)

Attached == {f \in Files : file[f].state \in {"pending", "completed"}}

Referenced == {row[d].file : d \in Docs} \ {NoFile}

\* evaluateDocument: an approved entry whose file still has the text that was approved.
Approved(entry) == entry.as = "approved" /\ entry.text = entry.seal

\* Listed, but not as it was approved: nothing is done about it.
Protected(entry) == entry.as = "approved" /\ ~Approved(entry)

\* The checksum of the row is trusted, wherever its file is.
ToUploadByRow(manifest, present, d) ==
    /\ Approved(manifest[d])
    /\ row[d].status # "READY" \/ row[d].file = NoFile

ToUpload(manifest, present, d) ==
    /\ Approved(manifest[d])
    /\ row[d].status # "READY" \/ row[d].file \notin present

ToReplace(manifest, present, d) ==
    /\ Approved(manifest[d])
    /\ ~ToUpload(manifest, present, d)
    /\ row[d].text # manifest[d].text

\* A row that says REMOVED is taken for done.
ToRemoveOnce(manifest, d) ==
    /\ ~Approved(manifest[d]) /\ ~Protected(manifest[d])
    /\ row[d].status \notin {"absent", "REMOVED"}

ToRemove(manifest, d) ==
    /\ ~Approved(manifest[d]) /\ ~Protected(manifest[d])
    /\ row[d].status # "absent"
    /\ row[d].status # "REMOVED" \/ row[d].file # NoFile

Action(type, d) == [type |-> type, doc |-> d, previous |-> row[d].file]

\* planKnowledgeSync, without the documents that need nothing.
PlanOf(manifest, present) ==
    {Action("upload", d) : d \in {x \in Docs : ToUpload(manifest, present, x)}}
    \cup {Action("replace", d) : d \in {x \in Docs : ToReplace(manifest, present, x)}}
    \cup {Action("remove", d) : d \in {x \in Docs : ToRemove(manifest, x)}}

StartSync(s) ==
    /\ sync[s].step = "idle"
    /\ sync' = [sync EXCEPT ![s] = [Idle EXCEPT !.step = "list", !.manifest = corpus]]
    /\ UNCHANGED <<corpus, row, file, sealed, spent>>

ListStore(s) ==
    /\ sync[s].step = "list"
    /\ sync' = [sync EXCEPT ![s].step = "plan", ![s].present = Attached]
    /\ UNCHANGED <<corpus, row, file, sealed, spent>>

Plan(s) ==
    /\ sync[s].step = "plan"
    /\ sync' = [sync EXCEPT ![s].step = "next",
                            ![s].todo = PlanOf(sync[s].manifest, sync[s].present)]
    /\ UNCHANGED <<corpus, row, file, sealed, spent>>

\* The approved documents come before the rows to be removed.
FirstStep == [upload |-> "markIndexing", replace |-> "create", remove |-> "markRemoved"]

NextAction(s, action) ==
    /\ sync[s].step = "next"
    /\ action \in sync[s].todo
    /\ action.type = "remove" => \A a \in sync[s].todo : a.type = "remove"
    /\ sync' = [sync EXCEPT ![s].step = FirstStep[action.type], ![s].doing = action,
                            ![s].todo = @ \ {action}]
    /\ UNCHANGED <<corpus, row, file, sealed, spent>>

\* The action in hand ends; `failed` is what the outcome says.
EndAction(s, failed) ==
    sync' = [sync EXCEPT ![s].step = "next", ![s].doing = NoAction, ![s].uploaded = NoFile,
                         ![s].failed = @ \/ failed]

-----------------------------------------------------------------------------
(* indexDocument *)

GoTo(s, step) == sync' = [sync EXCEPT ![s].step = step]

\* The name of a file nobody holds or refers to any more is used again.
Fresh(f) ==
    /\ file[f] = Absent
    /\ f \notin Referenced
    /\ \A s \in Syncs : f \notin {sync[s].uploaded, sync[s].doing.previous}
                                 \cup sync[s].remote \cup sync[s].present

CreateFile(s) ==
    LET d == sync[s].doing.doc
        f == CHOOSE g \in Files : Fresh(g)
    IN
    /\ sync[s].step = "create"
    /\ \E g \in Files : Fresh(g)
    /\ file' = [file EXCEPT ![f] = [state |-> "stored", doc |-> d,
                                   text |-> sync[s].manifest[d].text]]
    /\ sync' = [sync EXCEPT ![s].step = "attach", ![s].uploaded = f]
    /\ UNCHANGED <<corpus, row, sealed, spent>>

CreateFileFails(s) ==
    /\ sync[s].step = "create"
    /\ Fault
    /\ GoTo(s, "indexFailed")
    /\ UNCHANGED <<corpus, row, file, sealed>>

\* createAndPoll, answered "completed": the file is still there.
Attach(s) ==
    /\ sync[s].step = "attach"
    /\ file[sync[s].uploaded] # Absent
    /\ file' = [file EXCEPT ![sync[s].uploaded].state = "completed"]
    /\ GoTo(s, "markReady")
    /\ UNCHANGED <<corpus, row, sealed, spent>>

\* Any other answer, or none; discardQuietly then removes what it can: the attachment
\* and the file, the attachment only, or nothing.
AttachFails(s) ==
    LET f == sync[s].uploaded IN
    /\ sync[s].step = "attach"
    /\ \/ file[f] = Absent /\ UNCHANGED <<file, spent>>
       \/ /\ file[f] # Absent
          /\ Fault
          /\ \E left \in {"absent", "stored", "pending", "completed"} :
               file' = [file EXCEPT ![f] = IF left = "absent" THEN Absent
                                           ELSE [@ EXCEPT !.state = left]]
    /\ sync' = [sync EXCEPT ![s].step = "indexFailed", ![s].uploaded = NoFile]
    /\ UNCHANGED <<corpus, row, sealed>>

-----------------------------------------------------------------------------
(* uploadDocument, replaceDocument *)

MarkIndexing(s) ==
    LET d == sync[s].doing.doc IN
    /\ sync[s].step = "markIndexing"
    /\ row' = [row EXCEPT ![d] = [status |-> "INDEXING", file |-> NoFile,
                                  text |-> sync[s].manifest[d].text]]
    /\ GoTo(s, "create")
    /\ UNCHANGED <<corpus, file, sealed, spent>>

MarkReady(s) ==
    LET d == sync[s].doing.doc IN
    /\ sync[s].step = "markReady"
    /\ row' = [row EXCEPT ![d] = [status |-> "READY", file |-> sync[s].uploaded,
                                  text |-> sync[s].manifest[d].text]]
    /\ IF sync[s].doing.type = "replace" THEN GoTo(s, "removePrevious")
                                         ELSE EndAction(s, FALSE)
    /\ UNCHANGED <<corpus, file, sealed, spent>>

\* The statement fails: an upload is FAILED, a replacement leaves the row as it is.
MarkReadyFails(s) ==
    /\ sync[s].step = "markReady"
    /\ Fault
    /\ IF sync[s].doing.type = "upload"
       THEN sync' = [sync EXCEPT ![s].step = "indexFailed", ![s].uploaded = NoFile]
       ELSE EndAction(s, TRUE)
    /\ UNCHANGED <<corpus, row, file, sealed>>

\* updateStatus: FAILED for an upload, READY for a replacement, which keeps serving
\* the version approved before.  The rest of the row stays.
RecordIndexFailure(s) ==
    LET d == sync[s].doing.doc IN
    /\ sync[s].step = "indexFailed"
    /\ row' = [row EXCEPT ![d].status =
                 IF sync[s].doing.type = "upload" THEN "FAILED" ELSE "READY"]
    /\ EndAction(s, TRUE)
    /\ UNCHANGED <<corpus, file, sealed, spent>>

\* removeDocument of the writer: detached and deleted; what is not there is fine.
WriterRemoves(f) == file' = [file EXCEPT ![f] = Absent]

\* Or one of its two calls fails: attached as before, or detached but still stored.
WriterFailsToRemove(f) ==
    /\ Fault
    /\ file[f] # Absent
    /\ \/ file' = file
       \/ file' = [file EXCEPT ![f].state = "stored"]

\* The previous file of a replacement: whatever happens is not told.
RemovePrevious(s) ==
    LET f == sync[s].doing.previous IN
    /\ sync[s].step = "removePrevious"
    /\ \/ WriterRemoves(f) /\ UNCHANGED spent
       \/ WriterFailsToRemove(f)
    /\ EndAction(s, FALSE)
    /\ UNCHANGED <<corpus, row, sealed>>

-----------------------------------------------------------------------------
(* removeDocument of the sync *)

MarkRemoved(s) ==
    /\ sync[s].step = "markRemoved"
    /\ row' = [row EXCEPT ![sync[s].doing.doc].status = "REMOVED"]
    /\ IF sync[s].doing.previous = NoFile THEN EndAction(s, FALSE) ELSE GoTo(s, "removeRemote")
    /\ UNCHANGED <<corpus, file, sealed, spent>>

RemoveRemote(s) ==
    LET f == sync[s].doing.previous IN
    /\ sync[s].step = "removeRemote"
    /\ \/ WriterRemoves(f) /\ GoTo(s, "forgetFile") /\ UNCHANGED spent
       \/ WriterFailsToRemove(f) /\ EndAction(s, TRUE)
    /\ UNCHANGED <<corpus, row, sealed>>

\* The file is gone: the row names it no more, unless that statement fails too.
ForgetFile(s) ==
    /\ sync[s].step = "forgetFile"
    /\ \/ row' = [row EXCEPT ![sync[s].doing.doc].status = "REMOVED",
                             ![sync[s].doing.doc].file = NoFile]
          /\ EndAction(s, FALSE) /\ UNCHANGED spent
       \/ Fault /\ EndAction(s, TRUE) /\ UNCHANGED row
    /\ UNCHANGED <<corpus, file, sealed>>

-----------------------------------------------------------------------------
(* cleanupOrphans *)

BeginCleanup(s) ==
    /\ sync[s].step = "next"
    /\ sync[s].todo = {}
    /\ sync' = [sync EXCEPT ![s].step = "cleanup", ![s].toRead = {"remote", "referenced"}]
    /\ UNCHANGED <<corpus, row, file, sealed, spent>>

\* Promise.all: the store and the rows are read in either order.
ReadForCleanup(s, what) ==
    /\ sync[s].step = "cleanup"
    /\ what \in sync[s].toRead
    /\ sync' = [sync EXCEPT ![s].toRead = @ \ {what},
                            ![s].remote = IF what = "remote" THEN Attached ELSE @,
                            ![s].referenced = IF what = "referenced" THEN Referenced ELSE @]
    /\ UNCHANGED <<corpus, row, file, sealed, spent>>

Orphans(s) == sync[s].remote \ sync[s].referenced

RemoveOrphan(s, f) ==
    /\ sync[s].step = "cleanup"
    /\ sync[s].toRead = {}
    /\ f \in Orphans(s)
    /\ \/ WriterRemoves(f) /\ UNCHANGED spent
          /\ sync' = [sync EXCEPT ![s].remote = @ \ {f}]
       \/ WriterFailsToRemove(f)
          /\ sync' = [sync EXCEPT ![s].remote = @ \ {f}, ![s].failed = TRUE]
    /\ UNCHANGED <<corpus, row, sealed>>

FinishSync(s) ==
    /\ sync[s].step = "cleanup"
    /\ sync[s].toRead = {}
    /\ Orphans(s) = {}
    /\ sync' = [sync EXCEPT ![s] = Idle]
    /\ UNCHANGED <<corpus, row, file, sealed, spent>>

-----------------------------------------------------------------------------
Work(s) ==
    \/ ListStore(s) \/ Plan(s) \/ (\E a \in sync[s].todo : NextAction(s, a))
    \/ MarkIndexing(s) \/ CreateFile(s) \/ CreateFileFails(s) \/ Attach(s) \/ AttachFails(s)
    \/ MarkReady(s) \/ MarkReadyFails(s) \/ RecordIndexFailure(s) \/ RemovePrevious(s)
    \/ MarkRemoved(s) \/ RemoveRemote(s) \/ ForgetFile(s)
    \/ BeginCleanup(s) \/ (\E what \in {"remote", "referenced"} : ReadForCleanup(s, what))
    \/ (\E f \in Files : RemoveOrphan(s, f)) \/ FinishSync(s)

Entries == {Unlisted} \cup [as : {"draft"}, text : Texts, seal : {0}]
                      \cup [as : {"approved"}, text : Texts, seal : Texts]

KnowledgeNext ==
    \/ \E d \in Docs, e \in Entries : EditCorpus(d, e)
    \/ SwapStore
    \/ \E f \in Files : ProviderIndexes(f)
    \/ \E s \in Syncs : StartSync(s) \/ Work(s) \/ CommandStops(s)

\* A command that has begun goes on, and the operator runs it again
\* (docs/assistant-ops/RUNBOOK.md:161).
KnowledgeFairness == \A s \in Syncs : WF_knowledgeVars(Work(s)) /\ WF_knowledgeVars(StartSync(s))

KnowledgeSpec == KnowledgeInit /\ [][KnowledgeNext]_knowledgeVars /\ KnowledgeFairness

-----------------------------------------------------------------------------
(* Properties *)

\* Every row, file and command has its shape; only a READY or a REMOVED document names
\* a file, and two documents never name the same one.
KnowledgeTypeOK ==
    /\ \A d \in Docs :
         /\ row[d].status \in {"absent", "INDEXING", "READY", "FAILED", "REMOVED"}
         /\ row[d].file # NoFile => row[d].status \in {"READY", "REMOVED"}
         /\ row[d].status = "READY" => row[d].file # NoFile
         /\ \A e \in Docs : d # e /\ row[d].file = row[e].file => row[d].file = NoFile
    /\ \A f \in Files : file[f].state \in {"absent", "stored", "pending", "completed"}

\* The files a retrieval may quote: the store finds them, PostgreSQL says READY
\* (ready-knowledge-retriever.ts).
Servable == {f \in Files : /\ file[f].state = "completed"
                           /\ \E d \in Docs : row[d].status = "READY" /\ row[d].file = f}

\* Whatever is edited, swapped or interrupted, the assistant quotes only texts
\* that a manifest has approved (AI-009: only the approved corpus is indexed).
ServableIsApproved == \A f \in Servable : <<file[f].doc, file[f].text>> \in sealed

\* "a document becomes READY only after the provider finished indexing it"
\* (knowledge-sync.ts:62), it is its own text, and no failure takes the file away from
\* under the row, unless the store itself is replaced.
ReadyIsIndexed ==
    \A d \in Docs : row[d].status = "READY" =>
        LET f == file[row[d].file] IN
        /\ f.doc = d
        /\ f.text = row[d].text
        /\ f.state = "completed" \/ (f.state = "stored" /\ spent.swaps > 0)

Ends(s) == sync[s].step = "cleanup" /\ sync'[s].step = "idle" /\ spent' = spent

\* A sync that comes to its end, whatever has failed on the way, leaves nothing READY
\* that its manifest does not list (knowledge-sync.ts:64: a failed deletion can never
\* keep unapproved content retrievable).
RemovedIsHidden ==
    [][\A s \in Syncs : Ends(s) =>
         \A d \in Docs : row[d].status = "READY" => sync[s].manifest[d].as = "approved"]_knowledgeVars

\* A manifest is served: every approved document READY with its text, everything else
\* gone from the rows and from the store.
Serves(manifest) ==
    /\ \A d \in Docs :
         /\ Approved(manifest[d]) => /\ row[d].status = "READY"
                                     /\ row[d].text = manifest[d].text
                                     /\ row[d].file \in Servable
         /\ manifest[d].as \in {"unlisted", "draft"} => row[d].file = NoFile
    /\ Attached \subseteq Referenced

\* A sync that reports no failure has made the store serve its manifest, whatever the
\* failures, crashes and replacements before it left behind.
CleanSyncServes ==
    [][\A s \in Syncs : Ends(s) /\ ~sync[s].failed => Serves(sync[s].manifest)]_knowledgeVars

\* Run again after each failure, the command converges: nothing an interrupted sync left
\* behind keeps the corpus from being served in the end.
RetriesConverge == <>[]Serves(corpus)

\* What the assistant may quote is what was approved, at every moment of a sync and of the
\* failures between its steps, and a sync that says it succeeded has made it so.
CorpusIsApproved ==
    /\ [](KnowledgeTypeOK /\ ServableIsApproved /\ ReadyIsIndexed)
    /\ RemovedIsHidden /\ CleanSyncServes
=============================================================================
