------------------------- MODULE MemoryEngine_proofs -------------------------
(***************************************************************************)
(* Proofs about MemoryEngine: for any number of clients on the file that   *)
(* search misses nothing, and for a file with one client that what was     *)
(* acknowledged stays.                                                     *)
(*                                                                         *)
(* Neither is inductive: both rest on how far the operation of the active  *)
(* session has come.                                                       *)
(***************************************************************************)
EXTENDS MemoryEngine, TLAPS

(* The operation of a session is one of an open engine; once past the      *)
(* storage provider its write is in the map, once past the index provider  *)
(* in the index.                                                           *)
WritesAreInTheMap ==
  \A c \in Clients : \A o \in op[c] :
    /\ c \in open
    /\ o.phase \in {"stored", "indexed"} => records[c][o.id] = o.revision
    /\ o.phase = "indexed" /\ o.revision # Absent => o.id \in index[c]

(* The index lacks the record that is being written, at most.              *)
IndexCovers ==
  \A c \in open : \A id \in Stored(records[c]) \ doubt[c] :
    id \in index[c] \/ \E o \in op[c] : o.id = id /\ o.phase = "stored"

MemInv == TypeOK /\ WritesAreInTheMap /\ IndexCovers

-----------------------------------------------------------------------------
LEMMA Constants ==
  /\ Absent \in Revisions
  /\ 1 \in Revisions
  /\ Empty \in Maps
  /\ \A copy \in 1 .. (MaxRevision - 1) : NextRevision(copy) \in Revisions
BY MaxRevisionAssumption DEF Absent, Revisions, Empty, Maps, NextRevision

(* beginExecution admits one operation and touches nothing else.           *)
LEMMA EnterKeeps ==
  ASSUME MemInv, NEW c \in Clients, NEW id \in Ids, NEW r \in Revisions,
         NEW phase \in {"validating", "answering", "failing"},
         Enter(c, id, r, phase)
  PROVE  MemInv'
<1>1. /\ op[c] = {} /\ c \in open
      /\ op' = [op EXCEPT ![c] = {[id |-> id, revision |-> r, phase |-> phase]}]
      /\ UNCHANGED <<file, open, records, index, promised, doubt, faults>>
  BY DEF Enter, Free
<1>2. TypeOK'
  BY <1>1 DEF MemInv, TypeOK, Op, Phases
<1>3. WritesAreInTheMap'
  BY <1>1 DEF MemInv, TypeOK, WritesAreInTheMap
<1>4. IndexCovers'
  BY <1>1 DEF MemInv, TypeOK, IndexCovers
<1> QED BY <1>2, <1>3, <1>4 DEF MemInv

(* What a phase leaves in op: the one operation, moved on.                 *)
LEMMA MoveFacts ==
  ASSUME MemInv, NEW c \in Clients, NEW o \in op[c], NEW phase \in Phases,
         MoveTo(c, o, phase)
  PROVE  /\ o \in Op
         /\ op[c] = {o}
         /\ op'[c] = {Moved(o, phase)}
         /\ \A b \in Clients \ {c} : op'[b] = op[b]
         /\ Moved(o, phase).id = o.id
         /\ Moved(o, phase).revision = o.revision
         /\ Moved(o, phase).phase = phase
         /\ op' \in [Clients -> SUBSET Op]
         /\ \A b \in Clients : \A x, y \in op'[b] : x = y
<1>1. o \in Op /\ op[c] = {o}
  BY DEF MemInv, TypeOK
<1>2. op' = [op EXCEPT ![c] = {Moved(o, phase)}]
  BY <1>1 DEF MoveTo
<1>3. /\ Moved(o, phase) \in Op
      /\ Moved(o, phase).id = o.id
      /\ Moved(o, phase).revision = o.revision
      /\ Moved(o, phase).phase = phase
  BY <1>1 DEF Op, Moved
<1> QED BY <1>1, <1>2, <1>3 DEF MemInv, TypeOK

LEMMA LeaveFacts ==
  ASSUME MemInv, NEW c \in Clients, NEW o \in op[c], Leave(c, o)
  PROVE  /\ o \in Op
         /\ op[c] = {o}
         /\ op'[c] = {}
         /\ \A b \in Clients \ {c} : op'[b] = op[b]
         /\ op' \in [Clients -> SUBSET Op]
         /\ \A b \in Clients : \A x, y \in op'[b] : x = y
<1>1. o \in Op /\ op[c] = {o}
  BY DEF MemInv, TypeOK
<1>2. op' = [op EXCEPT ![c] = {}]
  BY <1>1 DEF Leave
<1> QED BY <1>1, <1>2 DEF MemInv, TypeOK

LEMMA MemInit == Init => MemInv
BY Constants, MaxFaultsAssumption
DEF Init, MemInv, TypeOK, WritesAreInTheMap, IndexCovers

LEMMA MemStep == MemInv /\ [Next]_vars => MemInv'
<1> SUFFICES ASSUME MemInv, [Next]_vars PROVE MemInv'
  OBVIOUS
<1> USE MaxRevisionAssumption
<1>1. ASSUME NEW c \in Clients, Open(c) PROVE MemInv'
  <2>1. TypeOK'
    BY <1>1 DEF Open, MemInv, TypeOK, LoadedIndex, Stored
  <2>2. WritesAreInTheMap'
    BY <1>1 DEF Open, MemInv, TypeOK, WritesAreInTheMap
  <2>3. IndexCovers'
    BY <1>1 DEF Open, MemInv, TypeOK, IndexCovers, LoadedIndex
  <2> QED BY <2>1, <2>2, <2>3 DEF MemInv
<1>2. ASSUME NEW c \in Clients, Close(c) PROVE MemInv'
  <2>1. TypeOK'
    <3>1. doubt' \in [Clients -> SUBSET Ids]
      BY <1>2 DEF Close, MemInv, TypeOK, Op
    <3> QED BY <1>2, <3>1, Constants DEF Close, MemInv, TypeOK
  <2>2. WritesAreInTheMap'
    BY <1>2 DEF Close, MemInv, TypeOK, WritesAreInTheMap
  <2>3. IndexCovers'
    BY <1>2 DEF Close, MemInv, TypeOK, IndexCovers
  <2> QED BY <2>1, <2>2, <2>3 DEF MemInv
<1>3. ASSUME NEW c \in Clients, NEW id \in Ids,
             \/ BeginStore(c, id) \/ BeginDelete(c, id)
             \/ \E copy \in 1 .. (MaxRevision - 1) : BeginUpdate(c, id, copy)
             \/ BeginRead(c, id) \/ BeginInvalid(c, id)
      PROVE  MemInv'
  <2>1. records[c][id] \in Revisions
    BY DEF MemInv, TypeOK, Maps
  <2> QED BY <1>3, <2>1, Constants, EnterKeeps
          DEF BeginStore, BeginDelete, BeginUpdate, BeginRead, BeginInvalid
<1>4. ASSUME NEW c \in Clients, Refuse(c) PROVE MemInv'
  <2>1. PICK o \in op[c] : o.phase = "validating" /\ MoveTo(c, o, "failing")
    BY <1>4 DEF Refuse
  <2> DEFINE m == Moved(o, "failing")
  <2>2. /\ op[c] = {o} /\ op'[c] = {m} /\ \A b \in Clients \ {c} : op'[b] = op[b]
        /\ m.id = o.id /\ m.phase = "failing"
        /\ op' \in [Clients -> SUBSET Op]
        /\ \A b \in Clients : \A x, y \in op'[b] : x = y
    BY <2>1, MoveFacts DEF Phases
  <2> HIDE DEF m
  <2>3. UNCHANGED <<file, open, records, index, promised, doubt, faults>>
    BY <1>4 DEF Refuse
  <2>4. TypeOK'
    BY <2>2, <2>3 DEF MemInv, TypeOK
  <2>5. WritesAreInTheMap'
    BY <2>2, <2>3 DEF MemInv, WritesAreInTheMap
  <2>6. IndexCovers'
    BY <2>1, <2>2, <2>3 DEF MemInv, TypeOK, IndexCovers
  <2> QED BY <2>4, <2>5, <2>6 DEF MemInv
<1>5. ASSUME NEW c \in Clients, Persist(c) PROVE MemInv'
  <2> DEFINE after(o) == [records[c] EXCEPT ![o.id] = o.revision]
  <2>1. PICK o \in op[c] : /\ o.phase = "validating"
                          /\ records' = [records EXCEPT ![c] = after(o)]
                          /\ file' = after(o)
                          /\ MoveTo(c, o, "stored")
    BY <1>5 DEF Persist, Snapshot
  <2> DEFINE m == Moved(o, "stored")
  <2>2. /\ op[c] = {o} /\ op'[c] = {m} /\ \A b \in Clients \ {c} : op'[b] = op[b]
        /\ m.id = o.id /\ m.revision = o.revision /\ m.phase = "stored"
        /\ op' \in [Clients -> SUBSET Op]
        /\ \A b \in Clients : \A x, y \in op'[b] : x = y
        /\ o.id \in Ids /\ o.revision \in Revisions
    BY <2>1, MoveFacts DEF Phases, Op
  <2> HIDE DEF m
  <2>3. UNCHANGED <<open, index, promised, doubt, faults>>
    BY <1>5 DEF Persist
  <2>4. after(o) \in Maps /\ after(o)[o.id] = o.revision
        /\ \A id \in Ids \ {o.id} : after(o)[id] = records[c][id]
    BY <2>2 DEF MemInv, TypeOK, Maps
  <2>5. records' \in [Clients -> Maps] /\ records'[c] = after(o)
        /\ \A b \in Clients \ {c} : records'[b] = records[b]
    BY <2>1, <2>4 DEF MemInv, TypeOK
  <2>6. TypeOK'
    BY <2>1, <2>2, <2>3, <2>4, <2>5 DEF MemInv, TypeOK
  <2> HIDE DEF after
  <2>7. WritesAreInTheMap'
    BY <2>2, <2>3, <2>4, <2>5 DEF MemInv, WritesAreInTheMap
  <2>8. IndexCovers'
    <3>1. ASSUME NEW b \in open', NEW id \in Stored(records'[b]) \ doubt'[b]
          PROVE  id \in index'[b] \/ \E x \in op'[b] : x.id = id /\ x.phase = "stored"
      <4>1. CASE b = c /\ id = o.id
        BY <2>2, <4>1
      <4>2. CASE b = c /\ id # o.id
        BY <2>1, <2>2, <2>3, <2>4, <2>5, <3>1, <4>2 DEF MemInv, IndexCovers, Stored
      <4>3. CASE b # c
        BY <2>2, <2>3, <2>5, <3>1, <4>3 DEF MemInv, TypeOK, IndexCovers
      <4> QED BY <4>1, <4>2, <4>3
    <3> QED BY <3>1 DEF IndexCovers
  <2> QED BY <2>6, <2>7, <2>8 DEF MemInv
<1>6. ASSUME NEW c \in Clients, PersistFails(c) PROVE MemInv'
  <2>1. PICK o \in op[c] : /\ o.phase = "validating"
                          /\ records' = [records EXCEPT ![c][o.id] = o.revision]
                          /\ doubt' = [doubt EXCEPT ![c] = @ \cup {o.id}]
                          /\ MoveTo(c, o, "failing")
    BY <1>6 DEF PersistFails
  <2> DEFINE m == Moved(o, "failing")
  <2>2. /\ op[c] = {o} /\ op'[c] = {m} /\ \A b \in Clients \ {c} : op'[b] = op[b]
        /\ m.id = o.id /\ m.phase = "failing"
        /\ op' \in [Clients -> SUBSET Op]
        /\ \A b \in Clients : \A x, y \in op'[b] : x = y
        /\ o.id \in Ids /\ o.revision \in Revisions
    BY <2>1, MoveFacts DEF Phases, Op
  <2> HIDE DEF m
  <2>3. UNCHANGED <<file, open, index, promised>> /\ faults' \in Nat
    BY <1>6 DEF PersistFails, MemInv, TypeOK
  <2>4. /\ records' \in [Clients -> Maps]
        /\ \A id \in Ids \ {o.id} : records'[c][id] = records[c][id]
        /\ \A b \in Clients \ {c} : records'[b] = records[b]
    BY <2>1, <2>2 DEF MemInv, TypeOK, Maps
  <2>5. /\ doubt' \in [Clients -> SUBSET Ids]
        /\ doubt'[c] = doubt[c] \cup {o.id}
        /\ \A b \in Clients \ {c} : doubt'[b] = doubt[b]
    BY <2>1, <2>2 DEF MemInv, TypeOK
  <2>6. TypeOK'
    BY <2>2, <2>3, <2>4, <2>5 DEF MemInv, TypeOK
  <2>7. WritesAreInTheMap'
    BY <2>2, <2>3, <2>4 DEF MemInv, WritesAreInTheMap
  <2>8. IndexCovers'
    <3>1. ASSUME NEW b \in open', NEW id \in Stored(records'[b]) \ doubt'[b]
          PROVE  id \in index'[b] \/ \E x \in op'[b] : x.id = id /\ x.phase = "stored"
      <4>1. CASE b = c
        BY <2>1, <2>2, <2>3, <2>4, <2>5, <3>1, <4>1 DEF MemInv, IndexCovers, Stored
      <4>2. CASE b # c
        BY <2>2, <2>3, <2>4, <2>5, <3>1, <4>2 DEF MemInv, TypeOK, IndexCovers
      <4> QED BY <4>1, <4>2
    <3> QED BY <3>1 DEF IndexCovers
  <2> QED BY <2>6, <2>7, <2>8 DEF MemInv
<1>7. ASSUME NEW c \in Clients, UpdateIndex(c) PROVE MemInv'
  <2>1. PICK o \in op[c] : /\ o.phase = "stored"
                          /\ index' = [index EXCEPT ![c] = Reindexed(@, o)]
                          /\ MoveTo(c, o, "indexed")
    BY <1>7 DEF UpdateIndex
  <2> DEFINE m == Moved(o, "indexed")
  <2>2. /\ op[c] = {o} /\ op'[c] = {m} /\ \A b \in Clients \ {c} : op'[b] = op[b]
        /\ m.id = o.id /\ m.revision = o.revision
        /\ op' \in [Clients -> SUBSET Op]
        /\ \A b \in Clients : \A x, y \in op'[b] : x = y
        /\ o.id \in Ids
    BY <2>1, MoveFacts DEF Phases, Op
  <2> HIDE DEF m
  <2>3. UNCHANGED <<file, open, records, promised, doubt, faults>>
    BY <1>7 DEF UpdateIndex
  <2>4. c \in open /\ records[c][o.id] = o.revision
    BY <2>1 DEF MemInv, WritesAreInTheMap
  <2>5. /\ index' \in [Clients -> SUBSET Ids]
        /\ \A id \in Ids \ {o.id} : id \in index'[c] <=> id \in index[c]
        /\ o.revision # Absent => o.id \in index'[c]
        /\ \A b \in Clients \ {c} : index'[b] = index[b]
    BY <2>1, <2>2 DEF MemInv, TypeOK, Reindexed
  <2>6. TypeOK'
    BY <2>2, <2>3, <2>5 DEF MemInv, TypeOK
  <2>7. WritesAreInTheMap'
    BY <2>2, <2>3, <2>4, <2>5 DEF MemInv, WritesAreInTheMap
  <2>8. IndexCovers'
    <3>1. ASSUME NEW b \in open', NEW id \in Stored(records'[b]) \ doubt'[b]
          PROVE  id \in index'[b] \/ \E x \in op'[b] : x.id = id /\ x.phase = "stored"
      <4>1. CASE b = c /\ id = o.id
        BY <2>3, <2>4, <2>5, <3>1, <4>1 DEF Stored
      <4>2. CASE b = c /\ id # o.id
        BY <2>2, <2>3, <2>5, <3>1, <4>2 DEF MemInv, IndexCovers, Stored
      <4>3. CASE b # c
        BY <2>2, <2>3, <2>5, <3>1, <4>3 DEF MemInv, TypeOK, IndexCovers
      <4> QED BY <4>1, <4>2, <4>3
    <3> QED BY <3>1 DEF IndexCovers
  <2> QED BY <2>6, <2>7, <2>8 DEF MemInv
<1>8. ASSUME NEW c \in Clients, Acknowledge(c) PROVE MemInv'
  <2>1. PICK o \in op[c] : /\ o.phase = "indexed"
                          /\ promised' = [promised EXCEPT ![c][o.id] = o.revision]
                          /\ doubt' = [doubt EXCEPT ![c] = @ \ {o.id}]
                          /\ Leave(c, o)
    BY <1>8 DEF Acknowledge
  <2>2. /\ op[c] = {o} /\ op'[c] = {} /\ \A b \in Clients \ {c} : op'[b] = op[b]
        /\ op' \in [Clients -> SUBSET Op]
        /\ \A b \in Clients : \A x, y \in op'[b] : x = y
        /\ o.id \in Ids /\ o.revision \in Revisions
    BY <2>1, LeaveFacts DEF Op
  <2>3. UNCHANGED <<file, open, records, index, faults>>
    BY <1>8 DEF Acknowledge
  <2>4. TypeOK'
    BY <2>1, <2>2, <2>3 DEF MemInv, TypeOK, Maps
  <2>5. WritesAreInTheMap'
    BY <2>2, <2>3 DEF MemInv, WritesAreInTheMap
  <2>6. IndexCovers'
    <3>1. ASSUME NEW b \in open', NEW id \in Stored(records'[b]) \ doubt'[b]
          PROVE  id \in index'[b] \/ \E x \in op'[b] : x.id = id /\ x.phase = "stored"
      <4>1. CASE b = c /\ id = o.id
        BY <2>1, <2>2, <2>3, <3>1, <4>1 DEF MemInv, WritesAreInTheMap, Stored
      <4>2. CASE b = c /\ id # o.id
        BY <2>1, <2>2, <2>3, <3>1, <4>2 DEF MemInv, TypeOK, IndexCovers
      <4>3. CASE b # c
        BY <2>1, <2>2, <2>3, <3>1, <4>3 DEF MemInv, TypeOK, IndexCovers
      <4> QED BY <4>1, <4>2, <4>3
    <3> QED BY <3>1 DEF IndexCovers
  <2> QED BY <2>4, <2>5, <2>6 DEF MemInv
<1>9. ASSUME NEW c \in Clients, Answer(c) PROVE MemInv'
  <2>1. PICK o \in op[c] : o.phase \in {"answering", "failing"} /\ Leave(c, o)
    BY <1>9 DEF Answer
  <2>2. /\ op[c] = {o} /\ op'[c] = {} /\ \A b \in Clients \ {c} : op'[b] = op[b]
        /\ op' \in [Clients -> SUBSET Op]
        /\ \A b \in Clients : \A x, y \in op'[b] : x = y
    BY <2>1, LeaveFacts
  <2>3. UNCHANGED <<file, open, records, index, promised, doubt, faults>>
    BY <1>9 DEF Answer
  <2>4. TypeOK'
    BY <2>2, <2>3 DEF MemInv, TypeOK
  <2>5. WritesAreInTheMap'
    BY <2>2, <2>3 DEF MemInv, WritesAreInTheMap
  <2>6. IndexCovers'
    BY <2>1, <2>2, <2>3 DEF MemInv, TypeOK, IndexCovers
  <2> QED BY <2>4, <2>5, <2>6 DEF MemInv
<1>10. CASE UNCHANGED vars
  BY <1>10 DEF vars, MemInv, TypeOK, WritesAreInTheMap, IndexCovers
<1> QED BY <1>1, <1>2, <1>3, <1>4, <1>5, <1>6, <1>7, <1>8, <1>9, <1>10 DEF Next

LEMMA MemInvariance == Spec => []MemInv
BY MemInit, MemStep, PTL DEF Spec

(* The variables keep their types; a session admits one operation.         *)
THEOREM MemoryTypes == Spec => []TypeOK
<1>1. MemInv => TypeOK
  BY DEF MemInv
<1> QED BY <1>1, MemInvariance, PTL

(* Between operations search misses no record whose write was acknowledged *)
(* or that the file held, however many clients share the file.             *)
THEOREM NothingIsMissed == Spec => []SearchMissesNothing
<1>1. MemInv => SearchMissesNothing
  <2>1. SUFFICES ASSUME MemInv, NEW c \in open, op[c] = {},
                        NEW id \in Stored(records[c]) \ doubt[c]
                 PROVE  id \in Found(c)
    BY DEF SearchMissesNothing
  <2>2. id \in index[c]
    BY <2>1 DEF MemInv, IndexCovers
  <2> QED BY <2>2 DEF Found
<1> QED BY <1>1, MemInvariance, PTL

-----------------------------------------------------------------------------
(* A file with one client. *)

OneClient == \A a, b \in Clients : a = b

(* The file is the map of the engine, and both are as promised, except for *)
(* records in doubt and for the write on its way.                          *)
FileFollowsMap ==
  \A c \in open : \A id \in Ids :
    id \notin doubt[c] \/ InFlight(c, id) => file[id] = records[c][id]

PromiseKept ==
  \A c \in Clients : \A id \in Ids \ doubt[c] :
    ~InFlight(c, id) => file[id] = promised[c][id]

FileInv == FileFollowsMap /\ PromiseKept

LEMMA FileInit == Init => FileInv
BY DEF Init, FileInv, FileFollowsMap, PromiseKept, InFlight

(* A step that leaves the file, the maps and the promises alone, and the   *)
(* writes in flight as they are.                                           *)
LEMMA FileQuiet ==
  ASSUME FileInv, UNCHANGED <<file, open, records, promised, doubt>>,
         \A c \in Clients, id \in Ids : InFlight(c, id)' <=> InFlight(c, id),
         open \in SUBSET Clients
  PROVE  FileInv'
BY DEF FileInv, FileFollowsMap, PromiseKept

LEMMA FileStep == OneClient /\ MemInv /\ FileInv /\ [Next]_vars => FileInv'
<1> SUFFICES ASSUME OneClient, MemInv, FileInv, [Next]_vars PROVE FileInv'
  OBVIOUS
<1>o. open \in SUBSET Clients
  BY DEF MemInv, TypeOK
<1>1. ASSUME NEW c \in Clients, Open(c) PROVE FileInv'
  <2>1. /\ open' = open \cup {c} /\ c \notin open
        /\ records'[c] = file
        /\ UNCHANGED <<file, op, promised, doubt>>
    BY <1>1 DEF Open, MemInv, TypeOK
  <2>2. \A b \in Clients, id \in Ids : InFlight(b, id)' <=> InFlight(b, id)
    BY <2>1 DEF InFlight
  <2>3. FileFollowsMap'
    BY <2>1, <1>o DEF OneClient, FileFollowsMap
  <2>4. PromiseKept'
    BY <2>1, <2>2 DEF FileInv, PromiseKept
  <2> QED BY <2>3, <2>4 DEF FileInv
<1>2. ASSUME NEW c \in Clients, Close(c) PROVE FileInv'
  <2>1. /\ open' = open \ {c}
        /\ \A id \in Ids : id \in doubt[c] \/ InFlight(c, id) => id \in doubt'[c]
        /\ UNCHANGED <<file, promised>>
    BY <1>2 DEF Close, MemInv, TypeOK, InFlight
  <2>2. FileFollowsMap'
    BY <2>1, <1>o DEF OneClient, FileFollowsMap
  <2>3. PromiseKept'
    BY <2>1 DEF OneClient, FileInv, PromiseKept
  <2> QED BY <2>2, <2>3 DEF FileInv
<1>3. ASSUME NEW c \in Clients, NEW id \in Ids, NEW r,
             NEW phase \in {"validating", "answering", "failing"}, Enter(c, id, r, phase)
      PROVE  FileInv'
  <2>1. \A b \in Clients, x \in Ids : InFlight(b, x)' <=> InFlight(b, x)
    BY <1>3 DEF Enter, Free, InFlight, MemInv, TypeOK
  <2> QED BY <1>3, <1>o, <2>1, FileQuiet DEF Enter
<1>4. ASSUME NEW c \in Clients, Refuse(c) PROVE FileInv'
  <2>1. PICK o \in op[c] : o.phase = "validating" /\ MoveTo(c, o, "failing")
    BY <1>4 DEF Refuse
  <2>2. \A b \in Clients, x \in Ids : InFlight(b, x)' <=> InFlight(b, x)
    BY <2>1, MoveFacts DEF Phases, InFlight
  <2> QED BY <1>4, <1>o, <2>2, FileQuiet DEF Refuse
<1>5. ASSUME NEW c \in Clients, Persist(c) PROVE FileInv'
  <2> DEFINE after(o) == [records[c] EXCEPT ![o.id] = o.revision]
  <2>1. PICK o \in op[c] : /\ o.phase = "validating"
                          /\ records' = [records EXCEPT ![c] = after(o)]
                          /\ file' = after(o)
                          /\ MoveTo(c, o, "stored")
    BY <1>5 DEF Persist, Snapshot
  <2>2. c \in open /\ UNCHANGED <<open, promised, doubt>>
    BY <1>5, <2>1 DEF Persist, MemInv, WritesAreInTheMap
  <2>3. /\ records'[c] = after(o)
        /\ \A id \in Ids \ {o.id} : after(o)[id] = records[c][id]
    BY <2>1 DEF MemInv, TypeOK, Maps
  <2>4. InFlight(c, o.id)' /\ \A id \in Ids : ~InFlight(c, id)
    BY <2>1, MoveFacts DEF Phases, InFlight
  <2>5. FileFollowsMap'
    BY <2>1, <2>3, <1>o, <2>2 DEF OneClient, FileFollowsMap
  <2>6. ASSUME NEW id \in Ids \ doubt[c], id # o.id PROVE file'[id] = promised[c][id]
    <3>1. file'[id] = records[c][id]
      BY <2>1, <2>3, <2>6
    <3>2. file[id] = records[c][id] /\ file[id] = promised[c][id]
      BY <2>2, <2>4, <2>6 DEF FileInv, FileFollowsMap, PromiseKept
    <3> QED BY <3>1, <3>2
  <2>7. PromiseKept'
    BY <2>2, <2>4, <2>6 DEF OneClient, PromiseKept
  <2> QED BY <2>5, <2>7 DEF FileInv
<1>6. ASSUME NEW c \in Clients, PersistFails(c) PROVE FileInv'
  <2>1. PICK o \in op[c] : /\ o.phase = "validating"
                          /\ records' = [records EXCEPT ![c][o.id] = o.revision]
                          /\ doubt' = [doubt EXCEPT ![c] = @ \cup {o.id}]
                          /\ MoveTo(c, o, "failing")
    BY <1>6 DEF PersistFails
  <2>2. UNCHANGED <<file, open, promised>>
    BY <1>6 DEF PersistFails
  <2>3. /\ doubt'[c] = doubt[c] \cup {o.id}
        /\ \A id \in Ids \ {o.id} : records'[c][id] = records[c][id]
    BY <2>1 DEF MemInv, TypeOK, Maps
  <2>4. \A id \in Ids : ~InFlight(c, id) /\ ~InFlight(c, id)'
    BY <2>1, MoveFacts DEF Phases, InFlight
  <2>5. FileFollowsMap'
    BY <1>o, <2>2, <2>3, <2>4 DEF OneClient, FileInv, FileFollowsMap
  <2>6. PromiseKept'
    BY <2>2, <2>3, <2>4 DEF OneClient, FileInv, PromiseKept
  <2> QED BY <2>5, <2>6 DEF FileInv
<1>7. ASSUME NEW c \in Clients, UpdateIndex(c) PROVE FileInv'
  <2>1. PICK o \in op[c] : o.phase = "stored" /\ MoveTo(c, o, "indexed")
    BY <1>7 DEF UpdateIndex
  <2>2. \A b \in Clients, x \in Ids : InFlight(b, x)' <=> InFlight(b, x)
    BY <2>1, MoveFacts DEF Phases, InFlight
  <2> QED BY <1>7, <1>o, <2>2, FileQuiet DEF UpdateIndex
<1>8. ASSUME NEW c \in Clients, Acknowledge(c) PROVE FileInv'
  <2>1. PICK o \in op[c] : /\ o.phase = "indexed"
                          /\ promised' = [promised EXCEPT ![c][o.id] = o.revision]
                          /\ doubt' = [doubt EXCEPT ![c] = @ \ {o.id}]
                          /\ Leave(c, o)
    BY <1>8 DEF Acknowledge
  <2>2. UNCHANGED <<file, open, records>>
    BY <1>8 DEF Acknowledge
  <2>3. /\ op[c] = {o} /\ op'[c] = {} /\ o.id \in Ids
    BY <2>1, LeaveFacts DEF Op
  <2>4. /\ doubt'[c] = doubt[c] \ {o.id}
        /\ promised'[c][o.id] = o.revision
        /\ \A id \in Ids \ {o.id} : promised'[c][id] = promised[c][id]
    BY <2>1, <2>3 DEF MemInv, TypeOK, Maps
  <2>5. \A id \in Ids : (InFlight(c, id) <=> id = o.id) /\ ~InFlight(c, id)'
    BY <2>1, <2>3 DEF InFlight
  <2>6. c \in open /\ file[o.id] = o.revision
    BY <2>1, <2>3, <2>5 DEF MemInv, WritesAreInTheMap, FileInv, FileFollowsMap
  <2>7. FileFollowsMap'
    BY <1>o, <2>2, <2>4, <2>5 DEF OneClient, FileInv, FileFollowsMap
  <2>8. PromiseKept'
    BY <2>2, <2>4, <2>5, <2>6 DEF OneClient, FileInv, PromiseKept
  <2> QED BY <2>7, <2>8 DEF FileInv
<1>9. ASSUME NEW c \in Clients, Answer(c) PROVE FileInv'
  <2>1. PICK o \in op[c] : o.phase \in {"answering", "failing"} /\ Leave(c, o)
    BY <1>9 DEF Answer
  <2>2. \A b \in Clients, x \in Ids : InFlight(b, x)' <=> InFlight(b, x)
    BY <2>1, LeaveFacts DEF InFlight
  <2> QED BY <1>9, <1>o, <2>2, FileQuiet DEF Answer
<1>10. CASE UNCHANGED vars
  BY <1>10 DEF vars, FileInv, FileFollowsMap, PromiseKept, InFlight
<1> QED BY <1>1, <1>2, <1>3, <1>4, <1>5, <1>6, <1>7, <1>8, <1>9, <1>10
        DEF Next, BeginStore, BeginDelete, BeginUpdate, BeginRead, BeginInvalid

(* With one client on the file, what was acknowledged stays, on the disk   *)
(* and in the engine, through failed writes, crashes and reopenings.       *)
THEOREM WhatIsAcknowledgedStays ==
  ASSUME OneClient
  PROVE  Spec => []AcknowledgedStays
<1>1. MemInv /\ FileInv /\ [Next]_vars => FileInv'
  BY FileStep
<1>2. MemInv /\ FileInv => AcknowledgedStays
  BY DEF FileInv, FileFollowsMap, PromiseKept, AcknowledgedStays
<1> QED BY <1>1, <1>2, FileInit, MemInvariance, PTL DEF Spec
=============================================================================
