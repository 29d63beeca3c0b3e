---------------------------- MODULE MemoryEngine ----------------------------
(***************************************************************************)
(* The memory engine of packages/memory over its JSON file: store, update, *)
(* delete and the two reads, the storage provider that rewrites the whole  *)
(* file at each write, the index that search goes through, and the         *)
(* sessions that admit one operation of an engine at a time.               *)
(*                                                                         *)
(* A client is one MemoryEngine opened on the file: a CLI command, or the  *)
(* AtlasClient of a web session.  An operation is cut at its awaits, the   *)
(* consistency provider, the storage provider and the index provider, so   *)
(* an action is what runs between two of them.                             *)
(*                                                                         *)
(* Abstracted: of a record only the revision is kept, 0 standing for no    *)
(* record; query filters and ranking; operation counters, diagnostics and  *)
(* latencies of a session, whose life is the life of the operation.  An    *)
(* operation called while another runs on the same engine is turned away   *)
(* by beginExecution before it touches anything: it is no step here.       *)
(* promised and doubt are history variables.                               *)
(***************************************************************************)
EXTENDS Naturals

CONSTANTS
  Clients,      \* the engines that may be opened on the file
  Ids,          \* record ids
  MaxRevision,  \* bound on the revision an update writes
  MaxFaults     \* bound on failed disk writes and on crashes together

ASSUME MaxRevisionAssumption == MaxRevision \in Nat \ {0}
ASSUME MaxFaultsAssumption == MaxFaults \in Nat

Absent == 0
Revisions == Absent .. MaxRevision
Maps == [Ids -> Revisions]
Empty == [id \in Ids |-> Absent]
Stored(map) == {id \in Ids : map[id] # Absent}

Phases == {"validating",  \* awaiting consistencyProvider.validateRecord
           "stored",      \* awaiting storageProvider.store, update or delete
           "indexed",     \* awaiting indexProvider
           "answering",   \* awaiting retrievalProvider
           "failing"}     \* an error result or an exception is on its way
Op == [id : Ids, revision : Revisions, phase : Phases]

VARIABLES
  file,      \* the records of the JSON file
  open,      \* the clients whose engine is up
  records,   \* records[c]: the Map of c's JsonFileStorageProvider
  index,     \* index[c]: the record ids of c's InMemoryIndexProvider
  op,        \* op[c]: the operations of c's active session, one at most
  promised,  \* promised[c]: what the last successful write through c left of each record
  doubt,     \* doubt[c]: the ids whose last write through c was not acknowledged
  faults     \* failed writes and crashes so far

vars == <<file, open, records, index, op, promised, doubt, faults>>

Init ==
  /\ file = Empty
  /\ open = {}
  /\ records = [c \in Clients |-> Empty]
  /\ index = [c \in Clients |-> {}]
  /\ op = [c \in Clients |-> {}]
  /\ promised = [c \in Clients |-> Empty]
  /\ doubt = [c \in Clients |-> {}]
  /\ faults = 0

-----------------------------------------------------------------------------
(* createJsonFileMemoryEngine loads the file and indexes what it holds.    *)

\* Mutant: the index is not rebuilt from the file.
LoadedIndex_NotRebuilt(map) == {}

LoadedIndex(map) == Stored(map)

Open(c) ==
  /\ c \notin open
  /\ open' = open \cup {c}
  /\ records' = [records EXCEPT ![c] = file]
  /\ index' = [index EXCEPT ![c] = LoadedIndex(file)]
  /\ UNCHANGED <<file, op, promised, doubt, faults>>

\* The process of the client ends, whatever it was doing.
Close(c) ==
  /\ c \in open
  /\ faults < MaxFaults
  /\ faults' = faults + 1
  /\ open' = open \ {c}
  /\ doubt' = [doubt EXCEPT ![c] = @ \cup {o.id : o \in {x \in op[c] : x.phase \in {"stored", "indexed"}}}]
  /\ records' = [records EXCEPT ![c] = Empty]
  /\ index' = [index EXCEPT ![c] = {}]
  /\ op' = [op EXCEPT ![c] = {}]
  /\ UNCHANGED <<file, promised>>

-----------------------------------------------------------------------------
\* beginExecution throws while another session is active.
Free(c) == c \in open /\ op[c] = {}

Enter(c, id, revision, phase) ==
  /\ Free(c)
  /\ op' = [op EXCEPT ![c] = @ \cup {[id |-> id, revision |-> revision, phase |-> phase]}]
  /\ UNCHANGED <<file, open, records, index, promised, doubt, faults>>

\* buildUpdatedMemoryRecord: one more than the revision of the caller's copy,
\* which is not compared with the revision stored.
NextRevision(copy) == copy + 1

\* store(), update() and delete() of a valid record.
BeginStore(c, id) == Enter(c, id, 1, "validating")
BeginUpdate(c, id, copy) == Enter(c, id, NextRevision(copy), "validating")
BeginDelete(c, id) == Enter(c, id, Absent, "validating")

\* retrieve() and search(): the provider reads the map before its await.
BeginRead(c, id) == Enter(c, id, records[c][id], "answering")

\* Domain, identity or query validation refuses the input.
BeginInvalid(c, id) == Enter(c, id, Absent, "failing")

-----------------------------------------------------------------------------
Moved(o, phase) == [id |-> o.id, revision |-> o.revision, phase |-> phase]
MoveTo(c, o, phase) == op' = [op EXCEPT ![c] = (@ \ {o}) \cup {Moved(o, phase)}]

\* The consistency provider finds issues, or throws.
Refuse(c) ==
  /\ \E o \in op[c] : o.phase = "validating" /\ MoveTo(c, o, "failing")
  /\ UNCHANGED <<file, open, records, index, promised, doubt, faults>>

\* Mutant: the file is written from the map as it was.
Snapshot_BeforeWrite(before, after) == before

\* persistSync writes the whole map, with the write in it.
Snapshot(before, after) == after

\* The map is changed first, then the file is replaced by rename.
Persist(c) ==
  /\ \E o \in op[c] :
       LET after == [records[c] EXCEPT ![o.id] = o.revision] IN
       /\ o.phase = "validating"
       /\ records' = [records EXCEPT ![c] = after]
       /\ file' = Snapshot(records[c], after)
       /\ MoveTo(c, o, "stored")
  /\ UNCHANGED <<open, index, promised, doubt, faults>>

\* The disk refuses: the map keeps the change, the file does not have it.
PersistFails(c) ==
  /\ faults < MaxFaults
  /\ faults' = faults + 1
  /\ \E o \in op[c] :
       /\ o.phase = "validating"
       /\ records' = [records EXCEPT ![c][o.id] = o.revision]
       /\ doubt' = [doubt EXCEPT ![c] = @ \cup {o.id}]
       /\ MoveTo(c, o, "failing")
  /\ UNCHANGED <<file, open, index, promised>>

Reindexed(entries, o) ==
  IF o.revision = Absent THEN entries \ {o.id} ELSE entries \cup {o.id}

UpdateIndex(c) ==
  /\ \E o \in op[c] :
       /\ o.phase = "stored"
       /\ index' = [index EXCEPT ![c] = Reindexed(@, o)]
       /\ MoveTo(c, o, "indexed")
  /\ UNCHANGED <<file, open, records, promised, doubt, faults>>

\* Mutant: the failure path does not dispose of the session.
Leave_NotOnFailure(c, o) == o.phase # "failing" /\ op' = [op EXCEPT ![c] = {}]

\* finalizeSuccess or finalizeFailure disposes of the session; the caller is answered.
Leave(c, o) == op' = [op EXCEPT ![c] = @ \ {o}]

Acknowledge(c) ==
  /\ \E o \in op[c] :
       /\ o.phase = "indexed"
       /\ promised' = [promised EXCEPT ![c][o.id] = o.revision]
       /\ doubt' = [doubt EXCEPT ![c] = @ \ {o.id}]
       /\ Leave(c, o)
  /\ UNCHANGED <<file, open, records, index, faults>>

Answer(c) ==
  /\ \E o \in op[c] : o.phase \in {"answering", "failing"} /\ Leave(c, o)
  /\ UNCHANGED <<file, open, records, index, promised, doubt, faults>>

Next ==
  \E c \in Clients :
    \/ Open(c) \/ Close(c)
    \/ \E id \in Ids :
         \/ BeginStore(c, id) \/ BeginDelete(c, id)
         \/ \E copy \in 1 .. (MaxRevision - 1) : BeginUpdate(c, id, copy)
         \/ BeginRead(c, id) \/ BeginInvalid(c, id)
    \/ Refuse(c) \/ Persist(c) \/ PersistFails(c)
    \/ UpdateIndex(c)
    \/ Acknowledge(c) \/ Answer(c)

Spec == Init /\ [][Next]_vars

\* The promises of the providers settle.
Fairness ==
  \A c \in Clients :
    /\ WF_vars(Refuse(c) \/ Persist(c) \/ PersistFails(c))
    /\ WF_vars(UpdateIndex(c))
    /\ WF_vars(Acknowledge(c) \/ Answer(c))

FairSpec == Spec /\ Fairness

-----------------------------------------------------------------------------
\* What InMemoryRetrievalProvider.search hands to the query: the indexed
\* records, or all of them when nothing is indexed.
Found(c) == IF index[c] # {} THEN index[c] \cap Stored(records[c]) ELSE Stored(records[c])

\* A write of id has reached the map and is not acknowledged yet.
InFlight(c, id) == \E o \in op[c] : o.id = id /\ o.phase \in {"stored", "indexed"}

(* The type invariant: each variable holds what its declaration says, and  *)
(* a session admits one operation.                                         *)
TypeOK ==
  /\ file \in Maps
  /\ open \in SUBSET Clients
  /\ records \in [Clients -> Maps]
  /\ index \in [Clients -> SUBSET Ids]
  /\ op \in [Clients -> SUBSET Op]
  /\ \A c \in Clients : \A o, x \in op[c] : o = x
  /\ promised \in [Clients -> Maps]
  /\ doubt \in [Clients -> SUBSET Ids]
  /\ faults \in Nat

(* Of a file with one client (two overwrite each other's records): what    *)
(* the client was told is stored or deleted stays so, on the disk and      *)
(* in the engine, across other operations, failed writes, crashes in the   *)
(* middle of an operation and reopenings of the file; only a record whose  *)
(* last write was not acknowledged may be anything else.                   *)
AcknowledgedStays ==
  \A c \in Clients : \A id \in Ids \ doubt[c] :
    ~InFlight(c, id) =>
      /\ file[id] = promised[c][id]
      /\ c \in open => records[c][id] = promised[c][id]

(* Search misses no record: between operations, whatever the engine holds, *)
(* from the file or from its own writes, is found, unless its write was    *)
(* reported as failed.                                                     *)
SearchMissesNothing ==
  \A c \in open : op[c] = {} => Stored(records[c]) \ doubt[c] \subseteq Found(c)

(* An engine is never locked for good: each operation it admits, failing   *)
(* or not, ends and lets the next one in.                                  *)
EngineUnlocks == \A c \in Clients : op[c] # {} ~> op[c] = {}

-----------------------------------------------------------------------------
=============================================================================
