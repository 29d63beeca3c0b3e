------------------------ MODULE MemoryRepositories ------------------------
(***************************************************************************)
(* The entity repositories of the memory engine: records with their        *)
(* versions, and the namespaces, collections and relationships around      *)
(* them, stored side by side in one storage provider.  They write past     *)
(* the engine's sessions and its index.                                    *)
(*                                                                         *)
(* Everything is validated against the entities that the caller hands      *)
(* over, never against what is stored.  A caller holds the entities that   *)
(* it created or read earlier, so that what it hands over may be stale; an *)
(* operation awaits between its reads and writes, and a write may fail.    *)
(*                                                                         *)
(* Abstracted: one namespace and its collections; a version's id is its    *)
(* record, revision and content, so that a retried append stores the same  *)
(* version again; owners, timestamps and metadata are left out.            *)
(***************************************************************************)
EXTENDS Naturals

CONSTANTS
  Callers,      \* callers of the repositories, each with what it holds
  Records,      \* ids of records
  Collections,  \* ids of collections
  Contents,     \* contents of versions
  None,         \* nothing held, nothing stored
  MaxRevision,  \* bound on revisions
  MaxFaults     \* bound on the writes that fail

ASSUME RepositoryBounds == MaxRevision \in Nat /\ MaxFaults \in Nat

VARIABLES
  records,      \* records[r]: the stored record with its current content, or None
  versions,     \* the stored versions
  collections,  \* the stored collections
  links,        \* the records with a stored relationship
  held,         \* held[c][r]: the record and the versions that caller c holds of r
  job,          \* job[c]: the operation that c awaits
  faults,       \* writes that failed
  strayed       \* history: an operation began beside another one on its record,
                \* or with a copy that is not the stored record

repositoryVars == <<records, versions, collections, links, held, job, faults, strayed>>

\* A version, a stored record, what a caller holds of it.
Versions == [record : Records, revision : Nat, content : Contents]
Stored == [revision : Nat, content : Contents, collection : Collections]
Holdings == [revision : Nat, collection : Collections, versions : SUBSET Versions]

ASSUME RepositoryNone == None \notin Records \cup Versions \cup Stored \cup Holdings

Idle == [step |-> "idle", record |-> None, write |-> None, version |-> None]

RepositoryInit ==
  /\ records = [r \in Records |-> None]
  /\ versions = {}
  /\ collections = {}
  /\ links = {}
  /\ held = [c \in Callers |-> [r \in Records |-> None]]
  /\ job = [c \in Callers |-> Idle]
  /\ faults = 0
  /\ strayed = FALSE

-----------------------------------------------------------------------------
\* memoryRecordToRecord
Read(x, known) == [revision |-> x.revision, collection |-> x.collection, versions |-> known]

Revisions(vs) == {v.revision : v \in vs}

\* validateRecordPersistence, for a record whose parents match: its revision
\* is among the versions, and no revision is there twice.
Persistent(r, revision, vs) ==
  /\ revision \in Revisions(vs)
  /\ \A v, w \in vs : v.revision = w.revision => v = w
  /\ \A v \in vs : v.record = r

\* validateRevisionMonotonicity, evolveRecord
Follows(revision, next) == next = revision + 1

\* Nobody has heard of this id.
Fresh(r) == \A d \in Callers : held[d][r] = None /\ job[d].record # r

Current(c, r) ==
  /\ held[c][r] # None /\ records[r] # None
  /\ held[c][r].revision = records[r].revision
  /\ \A d \in Callers \ {c} : job[d].record # r

Start(c, r, step, write, version) ==
  /\ job[c] = Idle
  /\ job' = [job EXCEPT ![c] = [step |-> step, record |-> r, write |-> write, version |-> version]]
  /\ strayed' = (strayed \/ ~(Fresh(r) \/ Current(c, r)))

End(c) == job' = [job EXCEPT ![c] = Idle]
Hold(c, r, x) == held' = [held EXCEPT ![c][r] = x]

-----------------------------------------------------------------------------
\* createRecord of a new record of the factory: validateRecordPersistence, then
\* one write; the first version is held by the caller and not stored by itself.
CreateRecord(c) ==
  /\ \E r \in Records, k \in Collections, x \in Contents :
       LET first == [record |-> r, revision |-> 1, content |-> x]
       IN  /\ Fresh(r)
           /\ Persistent(r, 1, {first})
           /\ Start(c, r, "record", [revision |-> 1, content |-> x, collection |-> k], first)
           /\ Hold(c, r, [revision |-> 1, collection |-> k, versions |-> {first}])
  /\ UNCHANGED <<records, versions, collections, links, faults>>

\* getRecord: the caller holds what is stored, with the versions it knew.
GetRecord(c) ==
  /\ job[c] = Idle
  /\ \E r \in Records :
       /\ records[r] # None
       /\ Hold(c, r, Read(records[r], IF held[c][r] = None THEN {} ELSE held[c][r].versions))
  /\ UNCHANGED <<records, versions, collections, links, job, faults, strayed>>

\* A caller learns the versions of a record by reading those that are stored
\* beside the first one, which only who created the record holds.
LearnVersions(c) ==
  /\ job[c] = Idle
  /\ \E r \in Records :
       /\ held[c][r] # None
       /\ held' = [held EXCEPT ![c][r].versions = @ \cup {v \in versions : v.record = r}]
  /\ UNCHANGED <<records, versions, collections, links, job, faults, strayed>>

\* Mutant: only the record is written.
FirstWrite_Record == "record"

FirstWrite == "version"

\* appendVersion up to its first write.
AppendVersion(c) ==
  /\ \E r \in Records, x \in Contents, n \in 1 .. MaxRevision :
       LET h == held[c][r]
           version == [record |-> r, revision |-> n, content |-> x]
       IN  /\ h # None
           /\ Follows(h.revision, n)
           /\ Persistent(r, n, h.versions \cup {version})
           /\ Start(c, r, FirstWrite, [revision |-> n, content |-> x, collection |-> h.collection], version)
  /\ UNCHANGED <<records, versions, collections, links, held, faults>>

\* The version is stored, then the record that points to it.
StoreVersion(c) ==
  /\ job[c].step = "version"
  /\ versions' = versions \cup {job[c].version}
  /\ job' = [job EXCEPT ![c].step = "record"]
  /\ UNCHANGED <<records, collections, links, held, faults, strayed>>

StoreRecord(c) ==
  /\ job[c].step = "record"
  /\ LET r == job[c].record
         w == job[c].write
         known == IF held[c][r] = None THEN {} ELSE held[c][r].versions
     IN  /\ records' = [records EXCEPT ![r] = w]
         /\ Hold(c, r, Read(w, IF job[c].version = None THEN known ELSE known \cup {job[c].version}))
  /\ End(c)
  /\ UNCHANGED <<versions, collections, links, faults, strayed>>

\* moveRecord reads the stored record ...
MoveRecord(c) ==
  /\ \E r \in Records, k \in Collections :
       /\ held[c][r] # None
       /\ records[r] # None
       /\ Start(c, r, "record", [records[r] EXCEPT !.collection = k], None)
  /\ UNCHANGED <<records, versions, collections, links, held, faults>>

\* deleteRecord, which leaves the versions and the relationships.
DeleteRecord(c) ==
  /\ \E r \in Records : held[c][r] # None /\ Start(c, r, "delete", None, None)
  /\ UNCHANGED <<records, versions, collections, links, held, faults>>

RemoveRecord(c) ==
  /\ job[c].step = "delete"
  /\ records' = [records EXCEPT ![job[c].record] = None]
  /\ End(c)
  /\ UNCHANGED <<versions, collections, links, held, faults, strayed>>

\* The storage provider throws: the repository returns its error.
WriteFails(c) ==
  /\ job[c] # Idle
  /\ faults < MaxFaults
  /\ faults' = faults + 1
  /\ End(c)
  /\ UNCHANGED <<records, versions, collections, links, held, strayed>>

-----------------------------------------------------------------------------
\* createNamespace, createCollection, deleteCollection, deleteNamespace: what
\* is in a collection stays where it is.
ChangeCollection(c) ==
  /\ job[c] = Idle
  /\ \E k \in Collections :
       collections' = IF k \in collections THEN collections \ {k} ELSE collections \cup {k}
  /\ UNCHANGED <<records, versions, links, held, job, faults, strayed>>

\* link, of a record that the caller knows, stored or not; unlink.
Link(c) ==
  /\ job[c] = Idle
  /\ \E r \in Records : \/ held[c][r] # None /\ links' = links \cup {r}
                        \/ r \in links /\ links' = links \ {r}
  /\ UNCHANGED <<records, versions, collections, held, job, faults, strayed>>

RepositoryNext ==
  \E c \in Callers :
    \/ CreateRecord(c) \/ GetRecord(c) \/ LearnVersions(c) \/ AppendVersion(c)
    \/ StoreVersion(c) \/ StoreRecord(c) \/ MoveRecord(c) \/ DeleteRecord(c) \/ RemoveRecord(c)
    \/ WriteFails(c) \/ ChangeCollection(c) \/ Link(c)

-----------------------------------------------------------------------------
\* A stored record past its first revision has its version stored, with its
\* content.
RecordsHaveVersions ==
  \A r \in Records : records[r] # None /\ records[r].revision > 1 =>
    [record |-> r, revision |-> records[r].revision, content |-> records[r].content] \in versions

\* The stored versions of a record are one for each revision from the second
\* to the current one.
VersionsInSequence ==
  \A r \in Records : records[r] # None =>
    LET stored == {v \in versions : v.record = r}
        underWay == {job[c].version.revision : c \in {d \in Callers : job[d].record = r /\ job[d].version # None}}
    IN  /\ Revisions(stored) \ underWay = (2 .. records[r].revision) \ underWay
        /\ \A v, w \in stored : v.revision = w.revision => v = w

\* Whatever callers overlap, hold stale copies or have writes fail, no record
\* is ahead of its versions; and while every operation begins with the stored
\* record and alone, and no write fails, the versions are a gapless sequence,
\* whoever of the callers appends and moves.
VersionHistory ==
  /\ RecordsHaveVersions
  /\ ~strayed /\ faults = 0 => VersionsInSequence
=============================================================================
