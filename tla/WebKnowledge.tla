---------------------------- MODULE WebKnowledge ----------------------------
(***************************************************************************)
(* The knowledge page: batches of files uploaded one after the other, each *)
(* after a listing and a question about duplicates; the library of         *)
(* documents; the search.  Batches, listings and searches overlap, and the *)
(* user goes to other pages and workspaces meanwhile.                      *)
(*                                                                         *)
(* Abstracted: contents and formats; a file is a name and becomes Chunks   *)
(* chunks.  A request on memory is served in one step, since the memory    *)
(* file is read and written synchronously; an upload takes two, for the    *)
(* text is extracted asynchronously in between.                            *)
(***************************************************************************)
EXTENDS WebWorkspaces, Sequences, Functions

CONSTANTS
  Files,          \* names of files
  Folders,        \* folders of documents, the default one among them
  Batches,        \* the batches of files chosen by the user, numbered in order
  MaxFiles,       \* bound on the files of a batch
  Chunks,         \* the chunks of a document
  MaxEvents       \* bound on failures (of requests, writes and extractions) and on
                  \* changes of workspace, page and folder and searches, together

ASSUME KnowledgeBounds == Chunks \in Nat \ {0} /\ MaxFiles \in Nat \ {0} /\ MaxEvents \in Nat
ASSUME BatchesNumbered == Batches \subseteq Nat /\ None \notin Batches

VARIABLES
  library,     \* libraryState, with the active workspace and the route
  search,      \* pageState
  uploading,   \* uploadInProgress
  dialog,      \* the batch whose question about duplicates is shown
  batches,     \* batches[b]: what the closure of its handleUploadFiles holds
  pending,     \* the listings and searches whose answer has not been handled
  documents,   \* the documents stored, whole or not
  folders,     \* folders[w]: knowledge-folders.json
  faults,
  moves,
  overlapped   \* history: a listing or search was asked for, or the workspace
               \* changed, while another was awaited

knowledgeVars == <<library, search, uploading, dialog, batches, pending, documents, folders,
                   faults, moves, overlapped>>
server == <<documents, folders>>

Idle == [pc |-> "idle", of |-> None, folder |-> None, left |-> <<>>, matches |-> {},
         asked |-> FALSE, blind |-> FALSE, alone |-> TRUE, answer |-> None, succeeded |-> {}]
Running == {"listing", "asking", "uploading", "searching"}
NoSearch == [view |-> "idle", of |-> None]

-----------------------------------------------------------------------------
\* Mutant: a listing by folder ignores the folder.
Listing_EveryFolder(w, folder) == {d \in documents : d.of = w /\ d.chunks > 0}

\* listKnowledgeDocuments: the documents that have a chunk.
Listing(w, folder) ==
  {d \in documents : d.of = w /\ d.chunks > 0 /\ folder \in {"all", d.folder}}

\* findKnowledgeDuplicateMatch
Matches(files, docs, folder) == {f \in files : \E d \in docs : d.file = f /\ d.folder = folder}

Overlaps(kind) == overlapped' = (overlapped \/ \E c \in pending : c.kind = kind)

Ask(kind, w, folder, batch) ==
  [kind |-> kind, of |-> w, folder |-> folder, batch |-> batch, found |-> {},
   answer |-> IF kind = "list" THEN "awaited" ELSE "ok"]

Listed(lib) == {Ask("list", lib.active, lib.folder, None)}

\* The page as it is opened.
KnowledgeInit ==
  /\ \E w \in Workspaces :
       library = [route |-> "knowledge", active |-> w, of |-> w, folder |-> "all",
                  loading |-> TRUE, shown |-> {}]
  /\ pending = Listed(library)
  /\ search = NoSearch
  /\ uploading = FALSE
  /\ dialog = None
  /\ batches = [b \in Batches |-> Idle]
  /\ documents = {}
  /\ folders = [w \in Workspaces |-> {}]
  /\ faults = 0
  /\ moves = 0
  /\ overlapped = FALSE

\* renderKnowledge: the library of another workspace is forgotten.
ResetLibrary(lib) ==
  IF lib.of # lib.active
  THEN [lib EXCEPT !.of = lib.active, !.folder = "all", !.shown = {}]
  ELSE lib

\* loadKnowledgeLibrary up to its await
Loading(lib) == [lib EXCEPT !.loading = TRUE, !.of = lib.active]

Show(lib) ==
  IF lib.route = "knowledge"
  THEN /\ library' = Loading(ResetLibrary(lib))
       /\ pending' = pending \cup Listed(ResetLibrary(lib))
       /\ search' = IF search.view # "idle" /\ search.of # lib.active
                    THEN NoSearch ELSE [search EXCEPT !.of = lib.active]
  ELSE library' = lib /\ UNCHANGED <<pending, search>>

Move == moves + faults < MaxEvents /\ moves' = moves + 1

GoTo ==
  /\ Move
  /\ \E r \in {"knowledge", "other"} \ {library.route} : Show([library EXCEPT !.route = r])
  /\ Overlaps("list")
  /\ UNCHANGED <<uploading, dialog, batches, server, faults>>

\* A question hides the rest of the page.
SwitchTo ==
  /\ Move
  /\ dialog = None
  /\ \E w \in Workspaces \ {library.active} : Show([library EXCEPT !.active = w])
  /\ overlapped' = (overlapped \/ pending # {})
  /\ UNCHANGED <<uploading, dialog, batches, server, faults>>

\* setLibraryFolder: the chips are painted when nothing is loading.
SetFolder ==
  /\ Move
  /\ dialog = None /\ library.route = "knowledge" /\ ~library.loading
  /\ \E f \in (Folders \cup {"all"}) \ {library.folder} :
       LET lib == [library EXCEPT !.folder = f]
       IN  library' = Loading(lib) /\ pending' = pending \cup Listed(lib)
  /\ Overlaps("list")
  /\ UNCHANGED <<search, uploading, dialog, batches, server, faults>>

\* handleCreateFolder, whose request is served at once.
CreateFolder ==
  /\ Move
  /\ dialog = None /\ library.route = "knowledge"
  /\ \E f \in Folders \ folders[library.active] :
       /\ folders' = [folders EXCEPT ![library.active] = @ \cup {f}]
       /\ LET lib == [library EXCEPT !.folder = f]
          IN  library' = Loading(lib) /\ pending' = pending \cup Listed(lib)
  /\ Overlaps("list")
  /\ UNCHANGED <<search, uploading, dialog, batches, documents, faults>>

\* runSearch up to its await
Searching(batch) ==
  /\ search' = [view |-> "loading", of |-> library.active]
  /\ pending' = pending \cup {Ask("search", library.active, "all", batch)}

Search ==
  /\ Move
  /\ dialog = None /\ library.route = "knowledge"
  /\ Searching(None)
  /\ Overlaps("search")
  /\ UNCHANGED <<library, uploading, dialog, batches, server, faults>>

-----------------------------------------------------------------------------
Set(b, batch) == batches' = [batches EXCEPT ![b] = batch]

\* The loop of handleUploadFiles, which sends the first file.
Uploads(b, batch) ==
  /\ uploading' = TRUE
  /\ Set(b, [batch EXCEPT !.pc = "uploading", !.answer = "sent"])

\* handleUploadFiles up to its first await; the flag is not set yet.
Choose(b) ==
  /\ batches[b].pc = "idle"
  /\ \A a \in Batches : a < b => batches[a].pc # "idle"
  /\ ~uploading /\ dialog = None /\ library.route = "knowledge"
  /\ \E n \in 1 .. MaxFiles : \E files \in [1 .. n -> Files], folder \in Folders :
       /\ IsInjective(files)
       /\ Set(b, [Idle EXCEPT !.pc = "listing", !.of = library.active, !.folder = folder, !.left = files,
                              !.alone = \A a \in Batches : batches[a].pc \notin Running])
  /\ UNCHANGED <<library, search, uploading, dialog, pending, server, faults, moves, overlapped>>

\* Mutant: the documents in the library stand for those of the folder.
Existing_Library(batch) == library.shown

\* The listing of the folder that the batch goes to.
Existing(batch) == Listing(batch.of, batch.folder)

\* confirmDuplicateUploadDialog: closes the dialog of another batch, whose
\* promise nobody will settle any more.
AskDuplicates(b, batch) ==
  /\ dialog' = b
  /\ batches' = [x \in Batches |->
       CASE x = b -> [batch EXCEPT !.pc = "asking"]
         [] x = dialog /\ x # b -> [batches[x] EXCEPT !.pc = "abandoned"]
         [] OTHER -> batches[x]]
  /\ UNCHANGED uploading

\* The listing is answered, or fails and the library's documents are used.
Compare(b) ==
  LET batch == batches[b]
      files == {batch.left[i] : i \in DOMAIN batch.left}
  IN  /\ batch.pc = "listing"
      /\ \E blind \in BOOLEAN :
           LET docs == IF blind THEN library.shown ELSE Existing(batch)
               known == [batch EXCEPT !.matches = Matches(files, docs, batch.folder), !.blind = blind]
           IN  /\ blind => moves + faults < MaxEvents
               /\ faults' = IF blind THEN faults + 1 ELSE faults
               /\ IF known.matches # {}
                  THEN AskDuplicates(b, known)
                  ELSE Uploads(b, known) /\ UNCHANGED dialog
      /\ UNCHANGED <<library, search, pending, server, moves, overlapped>>

Confirm(b) ==
  /\ dialog = b
  /\ dialog' = None
  /\ Uploads(b, [batches[b] EXCEPT !.asked = TRUE])
  /\ UNCHANGED <<library, search, pending, server, faults, moves, overlapped>>

Decline(b) ==
  /\ dialog = b
  /\ dialog' = None
  /\ Set(b, [batches[b] EXCEPT !.pc = "done"])
  /\ UNCHANGED <<library, search, uploading, pending, server, faults, moves, overlapped>>

-----------------------------------------------------------------------------
Settle(b, answer) ==
  /\ Set(b, [batches[b] EXCEPT !.answer = answer])
  /\ faults' = IF answer = "failed" THEN faults + 1 ELSE faults

MayFail(answer) == answer = "failed" => moves + faults < MaxEvents

File(b) == Head(batches[b].left)
Document(b, chunks) ==
  [batch |-> b, file |-> File(b), of |-> batches[b].of, folder |-> batches[b].folder, chunks |-> chunks]

\* uploadKnowledgeDocument up to the extraction: the folder is registered and
\* the KnowledgeObject stored, unless the request is lost or the write fails.
Receive(b) ==
  /\ batches[b].pc = "uploading" /\ batches[b].answer = "sent"
  /\ \E answer \in {"extracting", "failed"}, registered \in BOOLEAN :
       /\ answer = "extracting" => registered
       /\ MayFail(answer)
       /\ Settle(b, answer)
       /\ folders' = IF registered
                     THEN [folders EXCEPT ![batches[b].of] = @ \cup {batches[b].folder}] ELSE folders
  /\ UNCHANGED <<library, search, uploading, dialog, pending, documents, moves, overlapped>>

\* Mutant: a chunk that cannot be stored is left out.
ChunksStored_Some(n) == n > 0

\* The answer of an upload: each chunk stored, or the error of the one that failed.
ChunksStored(n) == n = Chunks

\* The extraction (which finds no text when nothing is stored) and the chunks,
\* stored one after the other; the answer may be lost.
Store(b) ==
  /\ batches[b].pc = "uploading" /\ batches[b].answer = "extracting"
  /\ \E n \in 0 .. Chunks, answer \in {"ok", "failed"} :
       /\ answer = "ok" => ChunksStored(n)
       /\ n < Chunks => moves + faults < MaxEvents
       /\ MayFail(answer)
       /\ Settle(b, answer)
       /\ documents' = documents \cup (IF n > 0 THEN {Document(b, n)} ELSE {})
  /\ UNCHANGED <<library, search, uploading, dialog, pending, folders, moves, overlapped>>

Finished(b, batch) == Set(b, [batch EXCEPT !.pc = "done"]) /\ uploading' = FALSE

\* The library is loaded, of the workspace that is active now.
Reload(folder) == Loading([library EXCEPT !.folder = folder])

\* The end of handleUploadFiles: the library, and the search if there is one,
\* which throws when its page is gone.
Finish(b, batch) ==
  IF batch.succeeded = {}
  THEN Finished(b, batch) /\ UNCHANGED <<library, pending, search, overlapped>>
  ELSE LET lib == Reload(batch.folder)
       IN  /\ library' = lib
           /\ IF search.view = "idle"
              THEN /\ Finished(b, batch)
                   /\ pending' = pending \cup Listed(lib)
                   /\ Overlaps("list")
                   /\ UNCHANGED search
              ELSE /\ search' = [view |-> "loading", of |-> lib.active]
                   /\ UNCHANGED uploading
                   /\ overlapped' = (overlapped \/ pending # {})
                   /\ IF lib.route = "knowledge"
                      THEN /\ Set(b, [batch EXCEPT !.pc = "searching"])
                           /\ pending' = pending \cup Listed(lib) \cup {Ask("search", lib.active, "all", b)}
                      ELSE /\ Set(b, [batch EXCEPT !.pc = "stuck"])
                           /\ pending' = pending \cup Listed(lib)

\* The upload of a file is answered; another is sent, or the batch ends.
FileAnswered(b) ==
  LET batch == batches[b]
      told == [batch EXCEPT !.left = Tail(@), !.answer = None,
                            !.succeeded = IF batch.answer = "ok" THEN @ \cup {File(b)} ELSE @]
  IN  /\ batch.pc = "uploading" /\ batch.answer \in {"ok", "failed"}
      /\ IF told.left # <<>>
         THEN /\ Set(b, [told EXCEPT !.answer = "sent"])
              /\ UNCHANGED <<library, pending, search, uploading, overlapped>>
         ELSE Finish(b, told)
      /\ UNCHANGED <<dialog, server, faults, moves>>

-----------------------------------------------------------------------------
\* A listing on the server, which may fail (of a search only its answer counts).
ServeLibrary(c) ==
  /\ c.answer = "awaited"
  /\ \E answer \in {"ok", "failed"} :
       /\ MayFail(answer)
       /\ faults' = IF answer = "failed" THEN faults + 1 ELSE faults
       /\ pending' = (pending \ {c}) \cup
            {[c EXCEPT !.answer = answer, !.found = IF answer = "ok" THEN Listing(c.of, c.folder) ELSE {}]}
  /\ UNCHANGED <<library, search, uploading, dialog, batches, server, moves, overlapped>>

\* loadKnowledgeLibrary after its await: the folder is the one chosen by now.
ListAnswered(c) ==
  /\ c.kind = "list"
  /\ library' = [library EXCEPT !.loading = FALSE, !.of = c.of, !.shown = c.found]
  /\ UNCHANGED <<search, batches, uploading>>

\* runSearch after its await, in which the page may be gone; a batch that
\* searched goes on.
SearchAnswered(c) ==
  /\ c.kind = "search"
  /\ search' = [view |-> "shown", of |-> c.of]
  /\ IF c.batch = None THEN UNCHANGED <<batches, uploading>>
     ELSE IF library.route = "knowledge" THEN Finished(c.batch, batches[c.batch])
     ELSE Set(c.batch, [batches[c.batch] EXCEPT !.pc = "stuck"]) /\ UNCHANGED uploading
  /\ UNCHANGED library

HandleLibrary(c) ==
  /\ c.answer # "awaited"
  /\ ListAnswered(c) \/ SearchAnswered(c)
  /\ pending' = pending \ {c}
  /\ UNCHANGED <<dialog, server, faults, moves, overlapped>>

KnowledgeNext ==
  \/ GoTo \/ SwitchTo \/ SetFolder \/ CreateFolder \/ Search
  \/ \E b \in Batches :
       \/ Choose(b) \/ Compare(b) \/ Confirm(b) \/ Decline(b)
       \/ Receive(b) \/ Store(b) \/ FileAnswered(b)
  \/ \E c \in pending : ServeLibrary(c) \/ HandleLibrary(c)

-----------------------------------------------------------------------------
\* A file that the page counts as uploaded is a document with all its chunks,
\* in the workspace and the folder it was sent to though the user may have
\* gone elsewhere, and the folder is known to the workspace.
UploadedIsWhole ==
  \A b \in Batches : \A f \in batches[b].succeeded :
    /\ \E d \in documents : d.batch = b /\ d.file = f /\ d.chunks = Chunks
                            /\ d.of = batches[b].of /\ d.folder = batches[b].folder
    /\ batches[b].folder \in folders[batches[b].of]

\* A batch chosen when no other was running puts a file into a folder that
\* has it already only if the user was asked, or the listing failed.
DuplicatesAsked ==
  \A d, e \in documents :
    /\ d.batch < e.batch /\ d.file = e.file /\ d.of = e.of /\ d.folder = e.folder
    /\ batches[e.batch].alone
    => batches[e.batch].asked \/ batches[e.batch].blind

\* When no listing or search has overlapped another and none has failed, a
\* page on which nothing is awaited shows the library and the search of the
\* active workspace, and all the documents of the chosen folder.
LibraryIsCurrent ==
  ~overlapped /\ faults = 0 /\ library.route = "knowledge" /\ pending = {}
  /\ (\A b \in Batches : batches[b].pc # "uploading") =>
    /\ library.of = library.active
    /\ library.shown = {d \in documents : d.of = library.active /\ d.chunks > 0
                                           /\ (library.folder = "all" \/ d.folder = library.folder)}
    /\ search.view # "idle" => search.of = library.active
=============================================================================
