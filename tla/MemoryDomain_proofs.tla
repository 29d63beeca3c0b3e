-------------------------- MODULE MemoryDomain_proofs --------------------------
(***************************************************************************)
(* Proofs about MemoryRepositories, for any number of callers, records and *)
(* failed writes: no record is ahead of its versions, and undisturbed      *)
(* versions are a gapless sequence.  And about MemorySession, for any      *)
(* number of sessions: the engine's validation finds nothing wrong with    *)
(* them, and each tells all that its operation did.  And about             *)
(* TurnContext, for any records, words, goals and limits: the context that *)
(* the LLM is told is the ground truth.                                    *)
(***************************************************************************)
EXTENDS MemoryRepositories, MemorySession, TurnContext, ListLemmas, SequenceTheorems

RepositorySpec == RepositoryInit /\ [][RepositoryNext]_repositoryVars

Jobs ==
  [step : {"idle", "version", "record", "delete"}, record : Records \cup {None},
   write : Stored \cup {None}, version : Versions \cup {None}]

RepositoryTypes ==
  /\ records \in [Records -> Stored \cup {None}]
  /\ versions \in SUBSET Versions
  /\ held \in [Callers -> [Records -> Holdings \cup {None}]]
  /\ job \in [Callers -> Jobs]
  /\ faults \in Nat

VersionOf(r, x) == [record |-> r, revision |-> x.revision, content |-> x.content]

(* What an operation has under way: first the version, then the record that *)
(* points to it.                                                            *)
WellFormed(j) ==
  /\ j.step = "idle" <=> j.record = None
  /\ j.step \in {"version", "record"} => j.write # None
  /\ j.step = "version" => j.version = VersionOf(j.record, j.write)
  /\ j.version # None => j.version = VersionOf(j.record, j.write)

(* Whoever works on a record holds it, and what was stored was held.       *)
Known ==
  /\ \A c \in Callers, r \in Records : job[c].record = r => held[c][r] # None
  /\ \A r \in Records : records[r] # None => \E d \in Callers : held[d][r] # None
  /\ \A v \in versions : \E d \in Callers : held[d][v.record] # None

(* What is about to be written points to a version that is there.          *)
PointsBack ==
  \A c \in Callers : job[c].step = "record" /\ job[c].write.revision > 1 =>
    VersionOf(job[c].record, job[c].write) \in versions

(* One record, what is stored of it and what is under way for it, while    *)
(* nothing disturbs it.                                                    *)
UnderWay(r, x, vs, j) ==
  /\ j.step = "version" => x # None /\ j.write.revision = x.revision + 1
  /\ j.step = "record" /\ x # None =>
       IF j.version = None THEN j.write.revision = x.revision
       ELSE j.write.revision = x.revision + 1 /\ j.version \in vs
  /\ j.step = "record" /\ x = None => j.write.revision = 1 /\ j.version # None /\ \A v \in vs : v.record # r
  /\ j.step = "delete" => x # None

Gapless(r, x, vs, jobs) ==
  /\ \A c, d \in Callers : jobs[c].record = r /\ jobs[d].record = r => c = d
  /\ \A c \in Callers : jobs[c].record = r => UnderWay(r, x, vs, jobs[c])
  /\ \A v, w \in vs : v.record = r /\ w.record = r /\ v.revision = w.revision => v = w
  /\ x # None =>
       /\ x.revision >= 1
       /\ \A k \in 2 .. x.revision : \E v \in vs : v.record = r /\ v.revision = k
       /\ \A v \in vs : v.record = r =>
            v.revision \in 2 .. x.revision \/ \E c \in Callers : jobs[c].record = r /\ jobs[c].step = "record" /\ jobs[c].version = v

Calm == ~strayed /\ faults = 0

RepositoryInv ==
  /\ RepositoryTypes
  /\ \A c \in Callers : WellFormed(job[c])
  /\ Known
  /\ RecordsHaveVersions
  /\ PointsBack
  /\ Calm => \A r \in Records : Gapless(r, records[r], versions, job)

LEMMA RepositoryNoneFacts ==
  /\ None \notin Records /\ None \notin Versions /\ None \notin Stored /\ None \notin Holdings
  /\ Idle \in Jobs /\ Idle.step = "idle" /\ Idle.record = None /\ Idle.write = None /\ Idle.version = None
  /\ WellFormed(Idle)
BY RepositoryNone DEF Idle, Jobs, WellFormed

LEMMA RepositoryInitHolds == RepositoryInit => RepositoryInv
<1> SUFFICES ASSUME RepositoryInit PROVE RepositoryInv
  OBVIOUS
<1>1. RepositoryTypes
  BY RepositoryNoneFacts DEF RepositoryInit, RepositoryTypes
<1>2. \A c \in Callers : job[c] = Idle
  BY DEF RepositoryInit
<1>3. \A r \in Records : Gapless(r, records[r], versions, job)
  BY <1>2, RepositoryNoneFacts DEF RepositoryInit, Gapless
<1>4. Known /\ RecordsHaveVersions /\ PointsBack
  BY <1>2, RepositoryNoneFacts DEF RepositoryInit, Known, RecordsHaveVersions, PointsBack
<1> QED BY <1>1, <1>2, <1>3, <1>4, RepositoryNoneFacts DEF RepositoryInv

(* The property follows.                                                   *)
LEMMA RepositoryProperty == RepositoryInv => VersionHistory
<1> SUFFICES ASSUME RepositoryInv, Calm PROVE VersionsInSequence
  BY DEF RepositoryInv, VersionHistory, Calm
<1> SUFFICES ASSUME NEW r \in Records, records[r] # None
             PROVE  LET stored == {v \in versions : v.record = r}
                        underWay == {job[c].version.revision : c \in {d \in Callers : job[d].record = r /\ job[d].version # None}}
                    IN  /\ Revisions(stored) \ underWay = (2 .. records[r].revision) \ underWay
                        /\ \A v, w \in stored : v.revision = w.revision => v = w
  BY DEF VersionsInSequence
<1> DEFINE stored == {v \in versions : v.record = r}
           underWay == {job[c].version.revision : c \in {d \in Callers : job[d].record = r /\ job[d].version # None}}
<1>1. PICK n : n = records[r].revision
  OBVIOUS
<1>2. Gapless(r, records[r], versions, job)
  BY DEF RepositoryInv
<1>3. /\ \A k \in 2 .. n : \E v \in versions : v.record = r /\ v.revision = k
      /\ \A v \in versions : v.record = r =>
            v.revision \in 2 .. n \/ \E c \in Callers : job[c].record = r /\ job[c].step = "record" /\ job[c].version = v
      /\ \A v, w \in stored : v.revision = w.revision => v = w
  BY <1>1, <1>2 DEF Gapless
<1>4. \A v \in versions : v # None
  BY RepositoryNoneFacts DEF RepositoryInv, RepositoryTypes
<1>5. ASSUME NEW k \in Revisions(stored), k \notin underWay PROVE k \in 2 .. n
  <2>1. PICK v \in stored : v.revision = k
    BY <1>5 DEF Revisions
  <2>2. ASSUME NEW c \in Callers, job[c].record = r, job[c].version = v PROVE FALSE
    BY <1>4, <1>5, <2>1, <2>2
  <2> QED BY <1>3, <2>1, <2>2
<1>6. ASSUME NEW k \in 2 .. n PROVE k \in Revisions(stored)
  BY <1>3, <1>6 DEF Revisions
<1>7. Revisions(stored) \ underWay = (2 .. n) \ underWay
  <2> HIDE DEF stored, underWay
  <2> QED BY <1>5, <1>6
<1> QED BY <1>1, <1>3, <1>7
-----------------------------------------------------------------------------
(* A record that the step leaves alone: nothing is stored of it, and       *)
(* nothing begins or ends for it.                                          *)
LEMMA GaplessElsewhere ==
  ASSUME NEW r, NEW x, NEW vs, NEW jobs, Gapless(r, x, vs, jobs), NEW us, NEW next,
         \A v \in us \ vs : v.record # r, vs \subseteq us,
         \A c \in Callers : next[c] = jobs[c] \/ (next[c].record # r /\ jobs[c].record # r)
  PROVE  Gapless(r, x, us, next)
<1>1. \A v \in us : v.record = r => v \in vs
  OBVIOUS
<1>2. \A c \in Callers : next[c].record = r => jobs[c].record = r /\ next[c] = jobs[c]
  OBVIOUS
<1>3. \A c \in Callers : jobs[c].record = r => next[c].record = r /\ next[c] = jobs[c]
  OBVIOUS
<1>4. \A c, d \in Callers : next[c].record = r /\ next[d].record = r => c = d
  BY <1>2 DEF Gapless
<1>5. ASSUME NEW c \in Callers, next[c].record = r PROVE UnderWay(r, x, us, next[c])
  <2>1. UnderWay(r, x, vs, jobs[c]) /\ next[c] = jobs[c]
    BY <1>2, <1>5 DEF Gapless
  <2> QED BY <1>1, <2>1 DEF UnderWay
<1>6. \A v, w \in us : v.record = r /\ w.record = r /\ v.revision = w.revision => v = w
  BY <1>1 DEF Gapless
<1>7. ASSUME x # None
      PROVE  /\ x.revision >= 1
             /\ \A k \in 2 .. x.revision : \E v \in us : v.record = r /\ v.revision = k
             /\ \A v \in us : v.record = r =>
                  v.revision \in 2 .. x.revision \/ \E c \in Callers : next[c].record = r /\ next[c].step = "record" /\ next[c].version = v
  <2>1. x.revision >= 1 /\ \A k \in 2 .. x.revision : \E v \in us : v.record = r /\ v.revision = k
    BY <1>7 DEF Gapless
  <2>2. ASSUME NEW v \in us, v.record = r, v.revision \notin 2 .. x.revision
        PROVE  \E c \in Callers : next[c].record = r /\ next[c].step = "record" /\ next[c].version = v
    <3>1. PICK c \in Callers : jobs[c].record = r /\ jobs[c].step = "record" /\ jobs[c].version = v
      BY <1>1, <1>7, <2>2 DEF Gapless
    <3> QED BY <1>3, <3>1
  <2> QED BY <2>1, <2>2
<1> QED BY <1>4, <1>5, <1>6, <1>7 DEF Gapless

(* One caller's operation begins.                                          *)
Begins(c, r, j) ==
  /\ job[c] = Idle /\ j.record = r
  /\ job' = [job EXCEPT ![c] = j]
  /\ strayed' = (strayed \/ ~(Fresh(r) \/ Current(c, r)))
  /\ UNCHANGED <<records, versions, faults>>

LEMMA BeginsKeeps ==
  ASSUME RepositoryInv, NEW c \in Callers, NEW r \in Records, NEW j \in Jobs, WellFormed(j), Begins(c, r, j),
         RepositoryTypes', held'[c][r] # None,
         \A d \in Callers, p \in Records : held[d][p] # None => held'[d][p] # None,
         j.step = "record" /\ j.write.revision > 1 => VersionOf(r, j.write) \in versions,
         (Fresh(r) \/ Current(c, r)) => UnderWay(r, records[r], versions, j)
  PROVE  RepositoryInv'
<1>1. /\ job'[c] = j /\ \A d \in Callers : d # c => job'[d] = job[d]
      /\ job[c].record = None /\ records' = records /\ versions' = versions /\ faults' = faults
  BY RepositoryNoneFacts DEF Begins, RepositoryInv, RepositoryTypes
<1>2. j.record = r
  BY DEF Begins
<1>3. \A d \in Callers : WellFormed(job'[d])
  BY <1>1 DEF RepositoryInv
<1>4. Known'
  <2>1. \A d \in Callers, p \in Records : job'[d].record = p => held'[d][p] # None
    BY <1>1, <1>2 DEF RepositoryInv, Known
  <2>2. \A p \in Records : records'[p] # None => \E d \in Callers : held'[d][p] # None
    BY <1>1 DEF RepositoryInv, Known
  <2>3. \A v \in versions : v.record \in Records
    BY DEF RepositoryInv, RepositoryTypes, Versions
  <2>4. \A v \in versions' : \E d \in Callers : held'[d][v.record] # None
    BY <1>1, <2>3 DEF RepositoryInv, Known
  <2> QED BY <2>1, <2>2, <2>4 DEF Known
<1>5. RecordsHaveVersions' /\ PointsBack'
  BY <1>1, <1>2 DEF RepositoryInv, RecordsHaveVersions, PointsBack
<1>6. ASSUME Calm', NEW p \in Records PROVE Gapless(p, records[p], versions, job')
  <2>1. Gapless(p, records[p], versions, job) /\ (Fresh(r) \/ Current(c, r))
    BY <1>1, <1>6 DEF Calm, Begins, RepositoryInv
  <2>2. CASE p # r
    <3>1. \A d \in Callers : job'[d] = job[d] \/ (job'[d].record # p /\ job[d].record # p)
      BY <1>1, <1>2, <2>2, RepositoryNoneFacts
    <3> QED BY <2>1, <3>1, GaplessElsewhere
  <2>3. CASE p = r
    <3>1. \A d \in Callers : d # c => job'[d].record # r
      BY <1>1, <2>1 DEF Fresh, Current
    <3>2. \A d \in Callers : job[d].record # r
      BY <1>1, <3>1, RepositoryNoneFacts
    <3>3. UnderWay(r, records[r], versions, j)
      BY <2>1
    <3>4. \A d \in Callers : job'[d].record = r => d = c /\ UnderWay(r, records[r], versions, job'[d])
      BY <1>1, <3>1, <3>3
    <3> QED BY <2>1, <2>3, <3>2, <3>4 DEF Gapless
  <2> QED BY <2>2, <2>3
<1> QED BY <1>1, <1>3, <1>4, <1>5, <1>6 DEF RepositoryInv

LEMMA CreateKeeps == ASSUME RepositoryInv, NEW c \in Callers, CreateRecord(c) PROVE RepositoryInv'
<1>1. PICK r, k, x, first, write, j :
        /\ r \in Records /\ k \in Collections /\ x \in Contents
        /\ first = [record |-> r, revision |-> 1, content |-> x]
        /\ write = [revision |-> 1, content |-> x, collection |-> k]
        /\ j = [step |-> "record", record |-> r, write |-> write, version |-> first]
        /\ Fresh(r) /\ Start(c, r, "record", write, first)
        /\ Hold(c, r, [revision |-> 1, collection |-> k, versions |-> {first}])
  BY DEF CreateRecord
<1>2. first \in Versions /\ write \in Stored /\ [revision |-> 1, collection |-> k, versions |-> {first}] \in Holdings
  BY <1>1 DEF Versions, Stored, Holdings
<1>3. j \in Jobs /\ WellFormed(j)
  BY <1>1, <1>2, RepositoryNoneFacts DEF Jobs, WellFormed, VersionOf
<1>4. Begins(c, r, j)
  BY <1>1 DEF Begins, Start, CreateRecord
<1>5. PICK h \in Holdings : held' = [held EXCEPT ![c][r] = h]
  BY <1>1, <1>2 DEF Hold
<1>6. RepositoryTypes'
  BY <1>3, <1>4, <1>5 DEF Begins, RepositoryInv, RepositoryTypes
<1>7. held'[c][r] # None /\ \A d \in Callers, p \in Records : held[d][p] # None => held'[d][p] # None
  BY <1>1, <1>5, RepositoryNoneFacts DEF RepositoryInv, RepositoryTypes
<1>8. records[r] = None /\ \A v \in versions : v.record # r
  BY <1>1 DEF Fresh, RepositoryInv, Known
<1>9. UnderWay(r, records[r], versions, j)
  BY <1>1, <1>2, <1>8, RepositoryNoneFacts DEF UnderWay
<1> QED BY <1>1, <1>3, <1>4, <1>6, <1>7, <1>9, BeginsKeeps

(* What is not Fresh but calm is current.                                  *)
LEMMA HeldIsCurrent ==
  ASSUME RepositoryInv, NEW c \in Callers, NEW r \in Records, held[c][r] # None, Fresh(r) \/ Current(c, r)
  PROVE  records[r] # None /\ held[c][r].revision = records[r].revision
BY DEF Fresh, Current

LEMMA AppendKeeps == ASSUME RepositoryInv, NEW c \in Callers, AppendVersion(c) PROVE RepositoryInv'
<1>1. PICK r, x, n, version, write, j :
        /\ r \in Records /\ x \in Contents /\ n \in 1 .. MaxRevision
        /\ version = [record |-> r, revision |-> n, content |-> x]
        /\ write = [revision |-> n, content |-> x, collection |-> held[c][r].collection]
        /\ j = [step |-> "version", record |-> r, write |-> write, version |-> version]
        /\ held[c][r] # None /\ n = held[c][r].revision + 1
        /\ Start(c, r, "version", write, version)
  BY DEF AppendVersion, Follows, FirstWrite
<1>2. held[c][r] \in Holdings
  BY <1>1 DEF RepositoryInv, RepositoryTypes
<1>3. version \in Versions /\ write \in Stored
  BY <1>1, <1>2, RepositoryBounds DEF Versions, Stored, Holdings
<1>4. j \in Jobs /\ WellFormed(j)
  BY <1>1, <1>3, RepositoryNoneFacts DEF Jobs, WellFormed, VersionOf
<1>5. Begins(c, r, j) /\ held' = held
  BY <1>1 DEF Begins, Start, AppendVersion
<1>6. RepositoryTypes'
  BY <1>4, <1>5 DEF Begins, RepositoryInv, RepositoryTypes
<1>7. (Fresh(r) \/ Current(c, r)) => UnderWay(r, records[r], versions, j)
  BY <1>1, HeldIsCurrent DEF UnderWay
<1> QED BY <1>1, <1>4, <1>5, <1>6, <1>7, BeginsKeeps

LEMMA MoveKeeps == ASSUME RepositoryInv, NEW c \in Callers, MoveRecord(c) PROVE RepositoryInv'
<1>1. PICK r, k, write, j :
        /\ r \in Records /\ k \in Collections
        /\ write = [records[r] EXCEPT !.collection = k]
        /\ j = [step |-> "record", record |-> r, write |-> write, version |-> None]
        /\ held[c][r] # None /\ records[r] # None
        /\ Start(c, r, "record", write, None)
  BY DEF MoveRecord
<1>2. records[r] \in Stored
  BY <1>1 DEF RepositoryInv, RepositoryTypes
<1>3. write \in Stored /\ write.revision = records[r].revision /\ write.content = records[r].content
  BY <1>1, <1>2 DEF Stored
<1>4. j \in Jobs /\ WellFormed(j)
  BY <1>1, <1>3, RepositoryNoneFacts DEF Jobs, WellFormed
<1>5. Begins(c, r, j) /\ held' = held
  BY <1>1 DEF Begins, Start, MoveRecord
<1>6. RepositoryTypes'
  BY <1>4, <1>5 DEF Begins, RepositoryInv, RepositoryTypes
<1>7. write.revision > 1 => VersionOf(r, write) \in versions
  BY <1>1, <1>3 DEF RepositoryInv, RecordsHaveVersions, VersionOf
<1>8. UnderWay(r, records[r], versions, j)
  BY <1>1, <1>3 DEF UnderWay
<1> QED BY <1>1, <1>4, <1>5, <1>6, <1>7, <1>8, BeginsKeeps

LEMMA DeleteKeeps == ASSUME RepositoryInv, NEW c \in Callers, DeleteRecord(c) PROVE RepositoryInv'
<1>1. PICK r, j :
        /\ r \in Records
        /\ j = [step |-> "delete", record |-> r, write |-> None, version |-> None]
        /\ held[c][r] # None /\ Start(c, r, "delete", None, None)
  BY DEF DeleteRecord
<1>2. j \in Jobs /\ WellFormed(j)
  BY <1>1, RepositoryNoneFacts DEF Jobs, WellFormed
<1>3. Begins(c, r, j) /\ held' = held
  BY <1>1 DEF Begins, Start, DeleteRecord
<1>4. RepositoryTypes'
  BY <1>2, <1>3 DEF Begins, RepositoryInv, RepositoryTypes
<1>5. (Fresh(r) \/ Current(c, r)) => UnderWay(r, records[r], versions, j)
  BY <1>1, HeldIsCurrent DEF UnderWay
<1> QED BY <1>1, <1>2, <1>3, <1>4, <1>5, BeginsKeeps

LEMMA StoreVersionKeeps == ASSUME RepositoryInv, NEW c \in Callers, StoreVersion(c) PROVE RepositoryInv'
<1>1. PICK r, x, v, j : r = job[c].record /\ x = records[r] /\ v = job[c].version /\ j = [job[c] EXCEPT !.step = "record"]
  OBVIOUS
<1>2. /\ job[c] \in Jobs /\ WellFormed(job[c]) /\ job[c].step = "version"
      /\ versions' = versions \cup {v} /\ job' = [job EXCEPT ![c] = j]
      /\ UNCHANGED <<records, collections, links, held, faults, strayed>>
  BY <1>1 DEF StoreVersion, RepositoryInv, RepositoryTypes
<1>3. r \in Records /\ v = VersionOf(r, job[c].write) /\ job[c].write \in Stored /\ v \in Versions
  <2>1. r \in Records \cup {None} /\ r # None /\ job[c].write \in Stored \cup {None} /\ job[c].write # None
    BY <1>1, <1>2 DEF WellFormed, Jobs
  <2>2. v = VersionOf(r, job[c].write)
    BY <1>1, <1>2 DEF WellFormed
  <2>3. v \in Versions
    BY <2>1, <2>2 DEF VersionOf, Stored, Versions
  <2> QED BY <2>1, <2>2, <2>3
<1>4. /\ j \in Jobs /\ j.step = "record" /\ j.record = r /\ j.version = v /\ j.write = job[c].write
      /\ WellFormed(j)
  <2>1. j \in Jobs /\ j.step = "record" /\ j.record = r /\ j.version = v /\ j.write = job[c].write
    BY <1>1, <1>2 DEF Jobs
  <2> QED BY <1>2, <1>3, <2>1, RepositoryNoneFacts DEF WellFormed
<1>5. job'[c] = j /\ \A d \in Callers : d # c => job'[d] = job[d]
  BY <1>2 DEF RepositoryInv, RepositoryTypes
<1>6. RepositoryTypes'
  BY <1>2, <1>3, <1>4 DEF RepositoryInv, RepositoryTypes
<1>7. \A d \in Callers : WellFormed(job'[d])
  BY <1>4, <1>5 DEF RepositoryInv
<1>8. held[c][r] # None /\ v.record = r
  BY <1>1, <1>3 DEF RepositoryInv, Known, VersionOf
<1>9. Known'
  <2>1. \A d \in Callers, p \in Records : job'[d].record = p => held[d][p] # None
    BY <1>4, <1>5, <1>8 DEF RepositoryInv, Known
  <2>2. \A w \in versions' : \E d \in Callers : held[d][w.record] # None
    BY <1>2, <1>8 DEF RepositoryInv, Known
  <2> QED BY <1>2, <2>1, <2>2 DEF RepositoryInv, Known
<1>10. RecordsHaveVersions' /\ PointsBack'
  <2>1. RecordsHaveVersions'
    BY <1>2 DEF RepositoryInv, RecordsHaveVersions
  <2>2. ASSUME NEW d \in Callers, job'[d].step = "record", job'[d].write.revision > 1
        PROVE  VersionOf(job'[d].record, job'[d].write) \in versions'
    <3>1. CASE d = c
      BY <1>2, <1>3, <1>4, <1>5, <3>1
    <3>2. CASE d # c
      BY <1>2, <1>5, <2>2, <3>2 DEF RepositoryInv, PointsBack
    <3> QED BY <3>1, <3>2
  <2> QED BY <2>1, <2>2 DEF PointsBack
<1>11. ASSUME Calm', NEW p \in Records PROVE Gapless(p, records[p], versions', job')
  <2>1. Gapless(p, records[p], versions, job)
    BY <1>2, <1>11 DEF Calm, RepositoryInv
  <2>2. CASE p # r
    <3>1. \A d \in Callers : job'[d] = job[d] \/ (job'[d].record # p /\ job[d].record # p)
      BY <1>1, <1>4, <1>5, <2>2
    <3>2. (\A w \in versions' \ versions : w.record # p) /\ versions \subseteq versions'
      BY <1>2, <1>8, <2>2
    <3> QED BY <2>1, <3>1, <3>2, GaplessElsewhere
  <2>3. CASE p = r
    <3>1. PICK n : n = x.revision
      OBVIOUS
    <3>2. x # None /\ v.revision = n + 1 /\ n >= 1 /\ x = records[r] /\ n \in Nat
      <4>1. UnderWay(r, records[r], versions, job[c])
        BY <1>1, <2>1, <2>3 DEF Gapless
      <4>2. x # None /\ job[c].write.revision = n + 1
        BY <1>1, <1>2, <3>1, <4>1 DEF UnderWay
      <4>3. v.revision = job[c].write.revision
        BY <1>3 DEF VersionOf
      <4>4. records[r] \in Stored
        BY <1>1, <1>3, <4>2 DEF RepositoryInv, RepositoryTypes
      <4> QED BY <1>1, <2>1, <2>3, <3>1, <4>2, <4>3, <4>4 DEF Gapless, Stored
    <3>3. \A d \in Callers : job[d].record = r => d = c
      BY <1>1, <2>1, <2>3 DEF Gapless
    <3>4. \A d \in Callers : job'[d].record = r => d = c
      BY <1>5, <3>3
    <3>5. \A w \in versions : w.record = r => w.revision \in 2 .. n
      <4>1. ASSUME NEW w \in versions, w.record = r, w.revision \notin 2 .. n PROVE FALSE
        <5>1. \E d \in Callers : job[d].record = r /\ job[d].step = "record"
          BY <2>1, <2>3, <3>1, <3>2, <4>1 DEF Gapless
        <5> QED BY <1>2, <3>3, <5>1
      <4> QED BY <4>1
    <3>6. UnderWay(r, x, versions', j)
      BY <1>2, <1>3, <1>4, <3>1, <3>2, RepositoryNoneFacts DEF UnderWay, VersionOf
    <3>7. \A w, u \in versions' : w.record = r /\ u.record = r /\ w.revision = u.revision => w = u
      <4>1. \A w \in versions : w.record = r => w.revision # v.revision
        BY <3>2, <3>5
      <4>2. \A w, u \in versions : w.record = r /\ u.record = r /\ w.revision = u.revision => w = u
        BY <2>1, <2>3 DEF Gapless
      <4> QED BY <1>2, <4>1, <4>2
    <3>8. \A k \in 2 .. n : \E w \in versions' : w.record = r /\ w.revision = k
      BY <1>2, <2>1, <2>3, <3>1, <3>2 DEF Gapless
    <3>9. ASSUME NEW w \in versions', w.record = r
          PROVE  w.revision \in 2 .. n \/ \E d \in Callers : job'[d].record = r /\ job'[d].step = "record" /\ job'[d].version = w
      BY <1>2, <1>4, <1>5, <3>5, <3>9
    <3> QED BY <1>4, <1>5, <2>3, <3>1, <3>2, <3>4, <3>6, <3>7, <3>8, <3>9 DEF Gapless
  <2> QED BY <2>2, <2>3
<1> QED BY <1>2, <1>6, <1>7, <1>9, <1>10, <1>11 DEF RepositoryInv

(* One caller's operation ends, with its record written, removed, or not.  *)
Ends(c, y) ==
  /\ records' = [records EXCEPT ![job[c].record] = y]
  /\ job' = [job EXCEPT ![c] = Idle]
  /\ UNCHANGED <<versions, strayed, faults>>

LEMMA EndsKeeps ==
  ASSUME RepositoryInv, NEW c \in Callers, job[c].step # "idle", NEW y \in Stored \cup {None}, Ends(c, y),
         RepositoryTypes', \A d \in Callers, p \in Records : held[d][p] # None => held'[d][p] # None,
         y # None /\ y.revision > 1 => VersionOf(job[c].record, y) \in versions,
         Calm => \/ y = None
                 \/ /\ job[c].step = "record" /\ y = job[c].write
  PROVE  RepositoryInv'
<1>1. PICK r, x : r = job[c].record /\ x = records[r]
  OBVIOUS
<1>2. /\ job[c] \in Jobs /\ WellFormed(job[c]) /\ r \in Records
      /\ job'[c] = Idle /\ \A d \in Callers : d # c => job'[d] = job[d]
  BY <1>1 DEF Ends, RepositoryInv, RepositoryTypes, Jobs, WellFormed
<1>3. records'[r] = y /\ \A p \in Records : p # r => records'[p] = records[p]
  BY <1>1, <1>2 DEF Ends, RepositoryInv, RepositoryTypes
<1>4. versions' = versions /\ (Calm' => Calm)
  BY DEF Ends, Calm
<1>5. \A d \in Callers : WellFormed(job'[d])
  BY <1>2, RepositoryNoneFacts DEF RepositoryInv
<1>6. held[c][r] # None
  BY <1>1, <1>2 DEF RepositoryInv, Known
<1>7. Known'
  <2>1. \A d \in Callers, p \in Records : job'[d].record = p => held'[d][p] # None
    BY <1>2, RepositoryNoneFacts DEF RepositoryInv, Known
  <2>2. \A p \in Records : records'[p] # None => \E d \in Callers : held'[d][p] # None
    BY <1>2, <1>3, <1>6 DEF RepositoryInv, Known
  <2>3. \A v \in versions : v.record \in Records
    BY DEF RepositoryInv, RepositoryTypes, Versions
  <2>4. \A v \in versions : \E d \in Callers : held'[d][v.record] # None
    BY <2>3 DEF RepositoryInv, Known
  <2> QED BY <1>4, <2>1, <2>2, <2>4 DEF Known
<1>8. RecordsHaveVersions'
  <2>1. ASSUME NEW p \in Records, records'[p] # None, records'[p].revision > 1
        PROVE  [record |-> p, revision |-> records'[p].revision, content |-> records'[p].content] \in versions
    <3>1. CASE p = r
      BY <1>1, <1>3, <2>1, <3>1 DEF VersionOf
    <3>2. CASE p # r
      BY <1>3, <2>1, <3>2 DEF RepositoryInv, RecordsHaveVersions
    <3> QED BY <3>1, <3>2
  <2> QED BY <1>4, <2>1 DEF RecordsHaveVersions
<1>9. PointsBack'
  BY <1>2, <1>4, RepositoryNoneFacts DEF RepositoryInv, PointsBack
<1>10. ASSUME Calm', NEW p \in Records PROVE Gapless(p, records'[p], versions, job')
  <2>1. Gapless(p, records[p], versions, job)
    BY <1>4, <1>10 DEF RepositoryInv
  <2>2. CASE p # r
    <3>1. \A d \in Callers : job'[d] = job[d] \/ (job'[d].record # p /\ job[d].record # p)
      BY <1>1, <1>2, <2>2, RepositoryNoneFacts
    <3> QED BY <1>3, <2>1, <2>2, <3>1, GaplessElsewhere
  <2>3. CASE p = r
    <3>1. \A d \in Callers : job[d].record = r => d = c
      BY <1>1, <2>1, <2>3 DEF Gapless
    <3>2. \A d \in Callers : job'[d].record # r
      BY <1>2, <3>1, RepositoryNoneFacts
    <3>3. \A v, w \in versions : v.record = r /\ w.record = r /\ v.revision = w.revision => v = w
      BY <2>1, <2>3 DEF Gapless
    <3>4. CASE y = None
      BY <1>3, <2>3, <3>2, <3>3, <3>4 DEF Gapless
    <3>5. CASE y # None
      <4>1. job[c].step = "record" /\ y = job[c].write /\ y \in Stored
        BY <1>4, <1>10, <3>5
      <4>2. UnderWay(r, x, versions, job[c])
        BY <1>1, <2>1, <2>3 DEF Gapless
      <4>3. PICK m : m = y.revision
        OBVIOUS
      <4>4. m \in Nat
        BY <4>1, <4>3 DEF Stored
      <4>5. CASE x = None
        <5>1. m = 1 /\ \A v \in versions : v.record # r
          BY <4>1, <4>2, <4>3, <4>5 DEF UnderWay
        <5>2. m >= 1 /\ \A k \in 2 .. m : FALSE
          BY <5>1
        <5> QED BY <1>3, <2>3, <3>2, <3>3, <3>5, <4>3, <5>1, <5>2 DEF Gapless
      <4>6. CASE x # None
        <5>1. PICK n : n = x.revision
          OBVIOUS
        <5>2. /\ n >= 1 /\ \A k \in 2 .. n : \E v \in versions : v.record = r /\ v.revision = k
              /\ \A v \in versions : v.record = r => v.revision \in 2 .. n \/ job[c].version = v
          BY <1>1, <2>1, <2>3, <3>1, <4>6, <5>1 DEF Gapless
        <5>3. n \in Nat
          BY <1>1, <1>2, <4>6, <5>1 DEF RepositoryInv, RepositoryTypes, Stored
        <5>4. CASE job[c].version = None
          <6>1. m = n
            BY <4>1, <4>2, <4>3, <4>6, <5>1, <5>4 DEF UnderWay
          <6>2. \A v \in versions : v # None
            BY RepositoryNoneFacts DEF RepositoryInv, RepositoryTypes
          <6> QED BY <1>3, <2>3, <3>2, <3>3, <3>5, <4>3, <5>2, <5>4, <6>1, <6>2 DEF Gapless
        <5>5. CASE job[c].version # None
          <6>1. m = n + 1 /\ job[c].version \in versions
            BY <4>1, <4>2, <4>3, <4>6, <5>1, <5>5 DEF UnderWay
          <6>2. job[c].version = VersionOf(r, y)
            BY <1>1, <1>2, <4>1, <5>5 DEF WellFormed
          <6>3. job[c].version.record = r /\ job[c].version.revision = m
            BY <4>3, <6>2 DEF VersionOf
          <6>4. \A v \in versions : v.record = r => v.revision \in 2 .. m
            BY <5>2, <5>3, <6>1, <6>3
          <6>5. ASSUME NEW k \in 2 .. m PROVE \E v \in versions : v.record = r /\ v.revision = k
            <7>1. k \in 2 .. n \/ k = m
              BY <5>3, <6>1
            <7> QED BY <5>2, <6>1, <6>3, <7>1
          <6>6. m >= 1
            BY <5>3, <6>1
          <6> QED BY <1>3, <2>3, <3>2, <3>3, <3>5, <4>3, <6>4, <6>5, <6>6 DEF Gapless
        <5> QED BY <5>4, <5>5
      <4> QED BY <4>5, <4>6
    <3> QED BY <3>4, <3>5
  <2> QED BY <2>2, <2>3
<1> QED BY <1>4, <1>5, <1>7, <1>8, <1>9, <1>10 DEF RepositoryInv

LEMMA StoreRecordKeeps == ASSUME RepositoryInv, NEW c \in Callers, StoreRecord(c) PROVE RepositoryInv'
<1>1. PICK r, w, known : /\ r = job[c].record /\ w = job[c].write
                         /\ known = (IF held[c][r] = None THEN {} ELSE held[c][r].versions)
  OBVIOUS
<1>2. /\ job[c] \in Jobs /\ WellFormed(job[c]) /\ job[c].step = "record"
      /\ records' = [records EXCEPT ![r] = w] /\ job' = [job EXCEPT ![c] = Idle]
      /\ UNCHANGED <<versions, collections, links, faults, strayed>>
      /\ Hold(c, r, Read(w, IF job[c].version = None THEN known ELSE known \cup {job[c].version}))
  BY <1>1 DEF StoreRecord, End, RepositoryInv, RepositoryTypes
<1>3. r \in Records /\ w \in Stored /\ job[c].version \in Versions \cup {None}
  BY <1>1, <1>2 DEF WellFormed, Jobs
<1>4. PICK h : h = Read(w, IF job[c].version = None THEN known ELSE known \cup {job[c].version})
  OBVIOUS
<1>5. known \in SUBSET Versions
  <2>1. held[c][r] \in Holdings \cup {None}
    BY <1>3 DEF RepositoryInv, RepositoryTypes
  <2> QED BY <1>1, <2>1 DEF Holdings
<1>6. h \in Holdings
  BY <1>3, <1>4, <1>5 DEF Read, Holdings, Stored
<1>7. held' = [held EXCEPT ![c][r] = h]
  BY <1>2, <1>4 DEF Hold
<1>8. RepositoryTypes'
  BY <1>2, <1>3, <1>6, <1>7, RepositoryNoneFacts DEF RepositoryInv, RepositoryTypes
<1>9. \A d \in Callers, p \in Records : held[d][p] # None => held'[d][p] # None
  BY <1>6, <1>7, RepositoryNoneFacts DEF RepositoryInv, RepositoryTypes
<1>10. w.revision > 1 => VersionOf(r, w) \in versions
  BY <1>1, <1>2 DEF RepositoryInv, PointsBack
<1>11. Ends(c, w)
  BY <1>1, <1>2 DEF Ends
<1> QED BY <1>1, <1>2, <1>3, <1>8, <1>9, <1>10, <1>11, EndsKeeps

LEMMA RemoveKeeps == ASSUME RepositoryInv, NEW c \in Callers, RemoveRecord(c) PROVE RepositoryInv'
<1>1. job[c].step = "delete" /\ Ends(c, None) /\ held' = held
  BY DEF RemoveRecord, End, Ends
<1>2. RepositoryTypes'
  BY <1>1, RepositoryNoneFacts DEF Ends, RepositoryInv, RepositoryTypes
<1> QED BY <1>1, <1>2, EndsKeeps

(* Nothing but the caller's own copy, or what no version depends on.       *)
LEMMA QuietKeeps ==
  ASSUME RepositoryInv, RepositoryTypes', UNCHANGED <<records, versions, job, strayed, faults>>,
         \A d \in Callers, p \in Records : held[d][p] # None => held'[d][p] # None
  PROVE  RepositoryInv'
<1>1. Known'
  <2>1. \A v \in versions : v.record \in Records
    BY DEF RepositoryInv, RepositoryTypes, Versions
  <2> QED BY <2>1 DEF RepositoryInv, Known
<1>2. RecordsHaveVersions' /\ PointsBack' /\ Calm' = Calm
  BY DEF RepositoryInv, RecordsHaveVersions, PointsBack, Calm
<1> QED BY <1>1, <1>2 DEF RepositoryInv

LEMMA GetKeeps == ASSUME RepositoryInv, NEW c \in Callers, GetRecord(c) \/ LearnVersions(c) PROVE RepositoryInv'
<1>1. PICK r \in Records, h \in Holdings : held' = [held EXCEPT ![c][r] = h]
  <2>1. CASE GetRecord(c)
    <3>1. PICK r, known : /\ r \in Records /\ known = (IF held[c][r] = None THEN {} ELSE held[c][r].versions)
                          /\ records[r] # None /\ Hold(c, r, Read(records[r], known))
      BY <2>1 DEF GetRecord
    <3>2. records[r] \in Stored /\ held[c][r] \in Holdings \cup {None}
      BY <3>1 DEF RepositoryInv, RepositoryTypes
    <3>3. known \in SUBSET Versions
      BY <3>1, <3>2 DEF Holdings
    <3>4. Read(records[r], known) \in Holdings
      BY <3>2, <3>3 DEF Read, Holdings, Stored
    <3> QED BY <3>1, <3>4 DEF Hold
  <2>2. CASE LearnVersions(c)
    <3>1. PICK r \in Records : /\ held[c][r] # None
                               /\ held' = [held EXCEPT ![c][r].versions = @ \cup {v \in versions : v.record = r}]
      BY <2>2 DEF LearnVersions
    <3>2. held[c][r] \in Holdings /\ {v \in versions : v.record = r} \in SUBSET Versions
      BY <3>1 DEF RepositoryInv, RepositoryTypes
    <3>3. PICK h : h = [held[c][r] EXCEPT !.versions = @ \cup {v \in versions : v.record = r}]
      OBVIOUS
    <3>4. h \in Holdings
      BY <3>2, <3>3 DEF Holdings
    <3>5. held' = [held EXCEPT ![c][r] = h]
      BY <3>1, <3>3 DEF RepositoryInv, RepositoryTypes
    <3> QED BY <3>4, <3>5
  <2> QED BY <2>1, <2>2
<1>2. UNCHANGED <<records, versions, job, strayed, faults>>
  BY DEF GetRecord, LearnVersions
<1>3. RepositoryTypes'
  BY <1>1, <1>2 DEF RepositoryInv, RepositoryTypes
<1>4. \A d \in Callers, p \in Records : held[d][p] # None => held'[d][p] # None
  BY <1>1, RepositoryNoneFacts DEF RepositoryInv, RepositoryTypes
<1> QED BY <1>2, <1>3, <1>4, QuietKeeps

LEMMA WriteFailsKeeps == ASSUME RepositoryInv, NEW c \in Callers, WriteFails(c) PROVE RepositoryInv'
<1>1. /\ job' = [job EXCEPT ![c] = Idle] /\ faults' = faults + 1
      /\ UNCHANGED <<records, versions, collections, links, held, strayed>>
  BY DEF WriteFails, End
<1>2. job'[c] = Idle /\ \A d \in Callers : d # c => job'[d] = job[d]
  BY <1>1 DEF RepositoryInv, RepositoryTypes
<1>3. RepositoryTypes' /\ ~Calm'
  BY <1>1, RepositoryNoneFacts DEF RepositoryInv, RepositoryTypes, Calm
<1>4. \A d \in Callers : WellFormed(job'[d])
  BY <1>2, RepositoryNoneFacts DEF RepositoryInv
<1>5. Known' /\ RecordsHaveVersions' /\ PointsBack'
  BY <1>1, <1>2, RepositoryNoneFacts DEF RepositoryInv, Known, RecordsHaveVersions, PointsBack
<1> QED BY <1>3, <1>4, <1>5 DEF RepositoryInv

LEMMA RepositoryStep == RepositoryInv /\ [RepositoryNext]_repositoryVars => RepositoryInv'
<1> SUFFICES ASSUME RepositoryInv, [RepositoryNext]_repositoryVars PROVE RepositoryInv'
  OBVIOUS
<1>1. ASSUME NEW c \in Callers, ChangeCollection(c) \/ Link(c) PROVE RepositoryInv'
  <2>1. UNCHANGED <<records, versions, held, job, faults, strayed>>
    BY <1>1 DEF ChangeCollection, Link
  <2> QED BY <2>1, QuietKeeps DEF RepositoryInv, RepositoryTypes
<1>2. CASE UNCHANGED repositoryVars
  BY <1>2, QuietKeeps DEF repositoryVars, RepositoryInv, RepositoryTypes
<1> QED BY <1>1, <1>2, CreateKeeps, AppendKeeps, MoveKeeps, DeleteKeeps, StoreVersionKeeps, StoreRecordKeeps,
           RemoveKeeps, GetKeeps, WriteFailsKeeps DEF RepositoryNext

(* However callers overlap and writes fail, a record is not ahead of its   *)
(* versions; undisturbed, they are a sequence without a gap.               *)
THEOREM VersionsStayInSequence == RepositorySpec => []VersionHistory
BY RepositoryInitHolds, RepositoryStep, RepositoryProperty, PTL DEF RepositorySpec
-----------------------------------------------------------------------------
(***************************************************************************)
(* MemorySession, for any number of sessions, however the operations fail  *)
(* and whatever is begun beside them.                                      *)
(***************************************************************************)
SessionSpec == SessionInit /\ [][SessionNext]_sessionVars

Steps == [from : Statuses, to : Statuses, at : Nat]
Noted == [kind : Counters, at : Nat]
Notes == [at : Nat]
SessionType ==
  [status : Statuses, revision : Nat, createdAt : Nat, errors : Nat, operations : Seq(Noted),
   diagnostics : Seq(Notes), lifecycle : Seq(Steps), counters : [Counters -> Nat]]

(* A history that has been written up to now.                              *)
Upto(history, now) == InOrder(history) /\ \A i \in DOMAIN history : history[i].at <= now

(* What holds of a session at any time.                                    *)
Sound(s, now) ==
  /\ s \in SessionType
  /\ Upto(s.operations, now) /\ Upto(s.diagnostics, now) /\ Upto(s.lifecycle, now)
  /\ LifecycleConnected(s) /\ TransitionsAllowed(s) /\ RevisionMonotonic(s) /\ CountersCount(s)

Ended(s) == s.lifecycle[Len(s.lifecycle)].to

(* A session under way has been started and has not ended.                 *)
Running(s, now) ==
  /\ Sound(s, now)
  /\ s.status = "running" /\ s.errors = 0
  /\ s.lifecycle # <<>> /\ Ended(s) = "running"
  /\ \A i \in DOMAIN s.lifecycle : s.lifecycle[i].to # "completed"

(* What its operation has recorded when it awaits.                         *)
Midway(s, name, next) ==
  /\ s.counters["index"] = 0
  /\ IF name \in {"retrieve", "search"}
     THEN next = 1 /\ s.counters["storage"] = 0 /\ s.counters["retrieval"] = 1
     ELSE next \in 1 .. 3 /\ s.counters["storage"] = next - 1

Finished(s, now) ==
  /\ Sound(s, now) /\ FinalState(s) /\ OperationsByState(s) /\ StepsAreTold(s)

SessionInv ==
  /\ clock \in Nat
  /\ operation \in [name : Operations, next : Nat]
  /\ \A s, t \in active : s = t
  /\ \A s \in active : Running(s, clock) /\ Midway(s, operation.name, operation.next)
  /\ completed \in Seq(SessionType)
  /\ \A i \in DOMAIN completed : Finished(completed[i], clock)

LEMMA UptoAppended ==
  ASSUME NEW S, NEW h \in Seq(S), NEW x \in S, NEW now \in Nat, Upto(h, now), x.at = now,
         \A y \in S : y.at \in Nat
  PROVE  Append(h, x) \in Seq(S) /\ Upto(Append(h, x), now)
<1>1. PICK g, n : g = Append(h, x) /\ n = Len(h)
  OBVIOUS
<1>2. n \in Nat /\ g \in Seq(S) /\ DOMAIN g = 1 .. n + 1 /\ DOMAIN h = 1 .. n /\ Len(g) = n + 1
  BY <1>1, AppendProperties
<1>3. g[n + 1] = x /\ \A i \in 1 .. n : g[i] = h[i]
  BY <1>1, AppendProperties
<1>4. \A i \in 1 .. n : h[i].at <= now
  BY <1>2 DEF Upto
<1>5. \A i \in 2 .. n : h[i - 1].at <= h[i].at
  BY <1>1 DEF Upto, InOrder
<1>6. ASSUME NEW i \in 1 .. n + 1 PROVE g[i].at <= now
  <2>1. i \in 1 .. n \/ i = n + 1
    BY <1>2
  <2> QED BY <1>3, <1>4, <2>1
<1>7. ASSUME NEW i \in 2 .. n + 1 PROVE g[i - 1].at <= g[i].at
  <2>1. CASE i \in 2 .. n
    <3>1. i - 1 \in 1 .. n /\ i \in 1 .. n
      BY <1>2, <2>1
    <3> QED BY <1>3, <1>5, <2>1, <3>1
  <2>2. CASE i = n + 1
    <3>1. i - 1 = n /\ n \in 1 .. n
      BY <1>2, <2>2
    <3> QED BY <1>3, <1>4, <2>2, <3>1
  <2> QED BY <1>2, <2>1, <2>2
<1> QED BY <1>1, <1>2, <1>6, <1>7 DEF Upto, InOrder

LEMMA SoundFacts ==
  ASSUME NEW s, NEW now, Sound(s, now)
  PROVE  /\ s \in SessionType /\ s.operations \in Seq(Noted) /\ s.diagnostics \in Seq(Notes) /\ s.lifecycle \in Seq(Steps)
         /\ s.revision \in Nat /\ s.counters \in [Counters -> Nat] /\ s.errors \in Nat /\ s.status \in Statuses
         /\ Len(s.lifecycle) \in Nat /\ DOMAIN s.lifecycle = 1 .. Len(s.lifecycle)
         /\ s.revision >= 1 + Len(s.lifecycle)
<1>1. s \in SessionType
  BY DEF Sound
<1>2. s.lifecycle \in Seq(Steps)
  BY <1>1 DEF SessionType
<1>3. Len(s.lifecycle) \in Nat /\ DOMAIN s.lifecycle = 1 .. Len(s.lifecycle)
  BY <1>2
<1> QED BY <1>1, <1>2, <1>3 DEF Sound, SessionType, RevisionMonotonic

LEMMA SoundLater ==
  ASSUME NEW s, NEW now \in Nat, NEW later \in Nat, now <= later, Sound(s, now)
  PROVE  Sound(s, later)
<1>1. \A h : (\A i \in DOMAIN h : h[i].at \in Nat) /\ Upto(h, now) => Upto(h, later)
  BY DEF Upto
<1>2. /\ s.operations \in Seq(Noted) /\ s.diagnostics \in Seq(Notes) /\ s.lifecycle \in Seq(Steps)
  BY SoundFacts
<1>3. /\ \A i \in DOMAIN s.operations : s.operations[i] \in Noted
      /\ \A i \in DOMAIN s.diagnostics : s.diagnostics[i] \in Notes
      /\ \A i \in DOMAIN s.lifecycle : s.lifecycle[i] \in Steps
  BY <1>2
<1>4. /\ \A i \in DOMAIN s.operations : s.operations[i].at \in Nat
      /\ \A i \in DOMAIN s.diagnostics : s.diagnostics[i].at \in Nat
      /\ \A i \in DOMAIN s.lifecycle : s.lifecycle[i].at \in Nat
  BY <1>3 DEF Noted, Notes, Steps
<1> QED BY <1>1, <1>4 DEF Sound

(* Only the revision has changed.                                          *)
LEMMA EvolvedKeeps ==
  ASSUME NEW s, NEW now \in Nat, Sound(s, now)
  PROVE  /\ Sound(Evolved(s), now)
         /\ Evolved(s).status = s.status /\ Evolved(s).errors = s.errors /\ Evolved(s).operations = s.operations
         /\ Evolved(s).diagnostics = s.diagnostics /\ Evolved(s).lifecycle = s.lifecycle
         /\ Evolved(s).counters = s.counters /\ Evolved(s).revision = s.revision + 1
<1>1. PICK t : t = Evolved(s)
  OBVIOUS
<1>2. /\ t \in SessionType /\ t.status = s.status /\ t.errors = s.errors /\ t.operations = s.operations
      /\ t.diagnostics = s.diagnostics /\ t.lifecycle = s.lifecycle /\ t.counters = s.counters
      /\ t.revision = s.revision + 1
  BY <1>1, SoundFacts DEF Evolved, SessionType
<1>3. RevisionMonotonic(t)
  BY <1>2, SoundFacts DEF RevisionMonotonic
<1>4. LifecycleConnected(t) /\ TransitionsAllowed(t) /\ CountersCount(t)
  BY <1>2 DEF Sound, LifecycleConnected, TransitionsAllowed, CountersCount
<1> QED BY <1>1, <1>2, <1>3, <1>4 DEF Sound

LEMMA DiagnosedKeeps ==
  ASSUME NEW s, NEW now \in Nat, Sound(s, now)
  PROVE  /\ Sound(Diagnosed(s, now), now)
         /\ Diagnosed(s, now).status = s.status /\ Diagnosed(s, now).errors = s.errors
         /\ Diagnosed(s, now).lifecycle = s.lifecycle /\ Diagnosed(s, now).counters = s.counters
<1>1. PICK r, t, d : r = Evolved(s) /\ t = Diagnosed(s, now) /\ d = Append(r.diagnostics, [at |-> now])
  OBVIOUS
<1>2. Sound(r, now) /\ r.status = s.status /\ r.errors = s.errors /\ r.lifecycle = s.lifecycle /\ r.counters = s.counters
  BY <1>1, EvolvedKeeps
<1>3. r.diagnostics \in Seq(Notes) /\ [at |-> now] \in Notes /\ \A y \in Notes : y.at \in Nat
  BY <1>2, SoundFacts DEF Notes
<1>4. Upto(r.diagnostics, now) /\ [at |-> now].at = now
  BY <1>2 DEF Sound
<1>5. d \in Seq(Notes) /\ Upto(d, now)
  BY <1>1, <1>3, <1>4, UptoAppended
<1>6. /\ t \in SessionType /\ t.status = r.status /\ t.errors = r.errors /\ t.operations = r.operations
      /\ t.diagnostics = d /\ t.lifecycle = r.lifecycle /\ t.counters = r.counters /\ t.revision = r.revision
  <2>1. t = [r EXCEPT !.diagnostics = d]
    BY <1>1 DEF Diagnosed
  <2>2. r \in SessionType
    BY <1>2, SoundFacts
  <2> QED BY <1>5, <2>1, <2>2 DEF SessionType
<1>7. LifecycleConnected(t) /\ TransitionsAllowed(t) /\ CountersCount(t) /\ RevisionMonotonic(t)
  BY <1>2, <1>6 DEF Sound, LifecycleConnected, TransitionsAllowed, CountersCount, RevisionMonotonic
<1>8. Sound(t, now)
  BY <1>2, <1>5, <1>6, <1>7 DEF Sound
<1> QED BY <1>1, <1>2, <1>6, <1>8

Number(h, k) == Cardinality({i \in DOMAIN h : h[i].kind = k})

LEMMA CountedKeeps ==
  ASSUME NEW h \in Seq(Noted), NEW x \in Noted, NEW k \in Counters
  PROVE  Number(Append(h, x), k) = IF x.kind = k THEN Number(h, k) + 1 ELSE Number(h, k)
<1>1. PICK g, n : g = Append(h, x) /\ n = Len(h)
  OBVIOUS
<1>2. n \in Nat /\ DOMAIN g = 1 .. n + 1 /\ DOMAIN h = 1 .. n
  BY <1>1, AppendProperties
<1>3. g[n + 1] = x /\ \A i \in 1 .. n : g[i] = h[i]
  BY <1>1, AppendProperties
<1>4. PICK I, J : I = {i \in 1 .. n : h[i].kind = k} /\ J = {i \in 1 .. n + 1 : g[i].kind = k}
  OBVIOUS
<1>5. IsFiniteSet(I) /\ Cardinality(I) \in Nat
  <2>1. IsFiniteSet(1 .. n)
    BY <1>2, FS_Interval
  <2>2. I \subseteq 1 .. n
    BY <1>4
  <2> QED BY <2>1, <2>2, FS_Subset, FS_CardinalityType
<1>9. Number(h, k) = Cardinality(I) /\ Number(g, k) = Cardinality(J)
  BY <1>2, <1>4 DEF Number
<1>6. n + 1 \notin I
  BY <1>2, <1>4
<1>7. CASE x.kind = k
  <2>1. J = I \cup {n + 1}
    BY <1>2, <1>3, <1>4, <1>7
  <2>2. Cardinality(J) = Cardinality(I) + 1
    BY <1>5, <1>6, <2>1, FS_AddElement
  <2> QED BY <1>1, <1>7, <1>9, <2>2
<1>8. CASE x.kind # k
  <2>1. J = I
    BY <1>2, <1>3, <1>4, <1>8
  <2> QED BY <1>1, <1>8, <1>9, <2>1
<1> QED BY <1>7, <1>8

LEMMA OperatedKeeps ==
  ASSUME NEW s, NEW now \in Nat, Sound(s, now), NEW kind \in Counters
  PROVE  /\ Sound(Operated(s, kind, now), now)
         /\ Operated(s, kind, now).status = s.status /\ Operated(s, kind, now).errors = s.errors
         /\ Operated(s, kind, now).lifecycle = s.lifecycle
         /\ Operated(s, kind, now).counters[kind] = s.counters[kind] + 1
         /\ \A k \in Counters \ {kind} : Operated(s, kind, now).counters[k] = s.counters[k]
<1>1. PICK r, t, x, h, c : /\ r = Evolved(s) /\ t = Operated(s, kind, now) /\ x = [kind |-> kind, at |-> now]
                           /\ h = Append(r.operations, x) /\ c = Counted(s, kind)
  OBVIOUS
<1>2. /\ Sound(r, now) /\ r.status = s.status /\ r.errors = s.errors /\ r.lifecycle = s.lifecycle
      /\ r.counters = s.counters /\ r.operations = s.operations
  BY <1>1, EvolvedKeeps
<1>3. r.operations \in Seq(Noted) /\ x \in Noted /\ x.at = now /\ x.kind = kind /\ \A y \in Noted : y.at \in Nat
  BY <1>1, <1>2, SoundFacts DEF Noted
<1>4. Upto(r.operations, now)
  BY <1>2 DEF Sound
<1>5. h \in Seq(Noted) /\ Upto(h, now)
  BY <1>1, <1>3, <1>4, UptoAppended
<1>6. /\ c \in [Counters -> Nat] /\ c[kind] = s.counters[kind] + 1
      /\ \A k \in Counters \ {kind} : c[k] = s.counters[k]
  <2>1. s.counters \in [Counters -> Nat]
    BY SoundFacts
  <2>2. PICK f : f = s.counters
    OBVIOUS
  <2>3. f \in [Counters -> Nat] /\ c = [f EXCEPT ![kind] = @ + 1]
    BY <1>1, <2>1, <2>2 DEF Counted
  <2> QED BY <2>2, <2>3
<1>11. t = [r EXCEPT !.operations = h, !.counters = c]
  BY <1>1 DEF Operated
<1>7. /\ t \in SessionType /\ t.status = r.status /\ t.errors = r.errors /\ t.operations = h
      /\ t.diagnostics = r.diagnostics /\ t.lifecycle = r.lifecycle /\ t.counters = c /\ t.revision = r.revision
  <2>1. r \in SessionType
    BY <1>2, SoundFacts
  <2>2. h \in Seq(Noted) /\ c \in [Counters -> Nat]
    BY <1>5, <1>6
  <2> QED BY <1>11, <2>1, <2>2 DEF SessionType
<1>8. LifecycleConnected(t) /\ TransitionsAllowed(t) /\ RevisionMonotonic(t)
  BY <1>2, <1>7 DEF Sound, LifecycleConnected, TransitionsAllowed, RevisionMonotonic
<1>9. CountersCount(t)
  <2>1. ASSUME NEW k \in Counters PROVE t.counters[k] = Number(h, k)
    <3>1. s.counters[k] = Number(r.operations, k)
      BY <1>2 DEF Sound, CountersCount, Number
    <3>2. Number(h, k) = IF kind = k THEN Number(r.operations, k) + 1 ELSE Number(r.operations, k)
      BY <1>1, <1>3, CountedKeeps
    <3>3. CASE k = kind
      BY <1>6, <1>7, <3>1, <3>2, <3>3
    <3>4. CASE k # kind
      BY <1>6, <1>7, <3>1, <3>2, <3>4
    <3> QED BY <3>3, <3>4
  <2> QED BY <1>7, <2>1 DEF CountersCount, Number
<1>10. Sound(t, now)
  BY <1>2, <1>5, <1>7, <1>8, <1>9 DEF Sound
<1> QED BY <1>1, <1>2, <1>6, <1>7, <1>10

(* The status is where the last transition led.                            *)
Led(s) == IF s.lifecycle = <<>> THEN s.status = "created" ELSE Ended(s) = s.status

LEMMA MovedKeeps ==
  ASSUME NEW s, NEW now \in Nat, Sound(s, now), Led(s), NEW to, to \in Allowed[s.status], NEW t, t = Moved(s, to, now)
  PROVE  /\ Sound(t, now) /\ Led(t) /\ t.status = to /\ t.counters = s.counters
         /\ to = "failed" => t.errors = s.errors + 1
         /\ to # "failed" => t.errors = s.errors
         /\ t.lifecycle # <<>> /\ Ended(t) = to
         /\ Len(t.lifecycle) = Len(s.lifecycle) + 1
         /\ \A i \in 1 .. Len(s.lifecycle) : t.lifecycle[i] = s.lifecycle[i]
         /\ t.lifecycle[Len(s.lifecycle) + 1].to = to
<1>1. PICK r, x, h, n : /\ r = Evolved(s) /\ x = [from |-> s.status, to |-> to, at |-> now]
                        /\ h = Append(r.lifecycle, x) /\ n = Len(s.lifecycle)
  OBVIOUS
<1>2. /\ Sound(r, now) /\ r.errors = s.errors /\ r.lifecycle = s.lifecycle /\ r.operations = s.operations
      /\ r.counters = s.counters /\ r.revision = s.revision + 1
  BY <1>1, EvolvedKeeps
<1>3. s.status \in Statuses /\ to \in Statuses
  <2>1. s.status \in Statuses
    BY SoundFacts
  <2> QED BY <2>1 DEF Statuses, Allowed
<1>4. r.lifecycle \in Seq(Steps) /\ x \in Steps /\ x.at = now /\ x.from = s.status /\ x.to = to /\ \A y \in Steps : y.at \in Nat
  BY <1>1, <1>2, <1>3, SoundFacts DEF Steps
<1>5. Upto(r.lifecycle, now)
  BY <1>2 DEF Sound
<1>6. h \in Seq(Steps) /\ Upto(h, now)
  BY <1>1, <1>4, <1>5, UptoAppended
<1>7. n \in Nat /\ DOMAIN h = 1 .. n + 1 /\ Len(h) = n + 1 /\ h[n + 1] = x /\ \A i \in 1 .. n : h[i] = s.lifecycle[i]
  BY <1>1, <1>2, <1>4, AppendProperties
<1>17. PICK e : e = (IF to = "failed" THEN s.errors + 1 ELSE s.errors)
  OBVIOUS
<1>18. t = [r EXCEPT !.status = to, !.errors = e, !.lifecycle = h]
  BY <1>1, <1>2, <1>17 DEF Moved
<1>19. e \in Nat
  BY <1>17, SoundFacts
<1>8. /\ t \in SessionType /\ t.status = to /\ t.errors = (IF to = "failed" THEN s.errors + 1 ELSE s.errors)
      /\ t.operations = r.operations /\ t.diagnostics = r.diagnostics /\ t.lifecycle = h
      /\ t.counters = r.counters /\ t.revision = r.revision
  <2>1. r \in SessionType /\ to \in Statuses
    BY <1>2, <1>3, SoundFacts
  <2>2. t \in SessionType /\ t.status = to /\ t.errors = e /\ t.operations = r.operations
        /\ t.diagnostics = r.diagnostics /\ t.lifecycle = h /\ t.counters = r.counters /\ t.revision = r.revision
    BY <1>6, <1>18, <1>19, <2>1 DEF SessionType
  <2> QED BY <1>17, <2>2
<1>9. RevisionMonotonic(t)
  BY <1>1, <1>2, <1>7, <1>8, SoundFacts DEF RevisionMonotonic
<1>10. CountersCount(t)
  BY <1>2, <1>8 DEF Sound, CountersCount
<1>11. n = 0 \/ s.lifecycle[n].to = s.status
  BY <1>1, <1>7, SoundFacts, EmptySeq DEF Led, Ended
<1>12. LifecycleConnected(t)
  <2>1. ASSUME NEW i \in 2 .. n + 1 PROVE h[i - 1].to = h[i].from
    <3>1. CASE i \in 2 .. n
      <4>1. i - 1 \in 1 .. n /\ i \in 1 .. n
        BY <1>7, <3>1
      <4>2. s.lifecycle[i - 1].to = s.lifecycle[i].from
        BY <1>1, <3>1 DEF Sound, LifecycleConnected
      <4> QED BY <1>7, <4>1, <4>2
    <3>2. CASE i = n + 1
      <4>1. i - 1 = n /\ n \in 1 .. n /\ n # 0
        BY <1>7, <3>2
      <4> QED BY <1>4, <1>7, <1>11, <3>2, <4>1
    <3> QED BY <1>7, <3>1, <3>2
  <2> QED BY <1>7, <1>8, <2>1 DEF LifecycleConnected
<1>13. TransitionsAllowed(t)
  <2>1. ASSUME NEW i \in 1 .. n + 1 PROVE h[i].to \in Allowed[h[i].from]
    <3>1. i \in 1 .. n \/ i = n + 1
      BY <1>7
    <3>2. DOMAIN s.lifecycle = 1 .. n
      BY <1>1, SoundFacts
    <3>3. CASE i \in 1 .. n
      BY <1>7, <3>2, <3>3 DEF Sound, TransitionsAllowed
    <3> QED BY <1>4, <1>7, <3>1, <3>3
  <2> QED BY <1>7, <1>8, <2>1 DEF TransitionsAllowed
<1>14. Sound(t, now)
  BY <1>2, <1>6, <1>8, <1>9, <1>10, <1>12, <1>13 DEF Sound
<1>15. h # <<>> /\ h[Len(h)].to = to
  BY <1>4, <1>7
<1>16. Led(t) /\ t.lifecycle # <<>> /\ Ended(t) = to
  BY <1>8, <1>15 DEF Led, Ended
<1> QED BY <1>1, <1>2, <1>4, <1>7, <1>8, <1>14, <1>16
(* A session is under way once it is initialized and started.              *)
Started(now) == Moved(Moved(NewSession(now), "initialized", now), "running", now)

LEMMA NewIsSound ==
  ASSUME NEW now \in Nat
  PROVE  /\ Sound(NewSession(now), now) /\ Led(NewSession(now)) /\ NewSession(now).errors = 0
         /\ Len(NewSession(now).lifecycle) = 0 /\ NewSession(now).status = "created"
         /\ \A k \in Counters : NewSession(now).counters[k] = 0
<1>1. PICK s : s = NewSession(now)
  OBVIOUS
<1>2. /\ s.status = "created" /\ s.revision = 1 /\ s.errors = 0 /\ s.operations = <<>> /\ s.diagnostics = <<>>
      /\ s.lifecycle = <<>> /\ s.counters = [k \in Counters |-> 0]
  BY <1>1 DEF NewSession
<1>3. s \in SessionType
  BY <1>1 DEF NewSession, SessionType, Statuses
<1>4. Upto(<<>>, now)
  BY DEF Upto, InOrder
<1>5. LifecycleConnected(s) /\ TransitionsAllowed(s) /\ RevisionMonotonic(s)
  BY <1>2 DEF LifecycleConnected, TransitionsAllowed, RevisionMonotonic
<1>6. CountersCount(s)
  <2>1. \A k \in Counters : {i \in DOMAIN s.operations : s.operations[i].kind = k} = {}
    BY <1>2
  <2>2. Cardinality({}) = 0
    BY FS_EmptySet
  <2> QED BY <1>2, <2>1, <2>2 DEF CountersCount
<1>7. Sound(s, now) /\ Led(s)
  BY <1>2, <1>3, <1>4, <1>5, <1>6 DEF Sound, Led
<1> QED BY <1>1, <1>2, <1>7

LEMMA StartedRuns ==
  ASSUME NEW now \in Nat
  PROVE  Running(Started(now), now) /\ \A k \in Counters : Started(now).counters[k] = 0
<1>1. PICK s, t, u : s = NewSession(now) /\ t = Moved(s, "initialized", now) /\ u = Moved(t, "running", now)
  OBVIOUS
<1>2. /\ Sound(s, now) /\ Led(s) /\ s.errors = 0 /\ Len(s.lifecycle) = 0 /\ s.status = "created"
      /\ \A k \in Counters : s.counters[k] = 0
  BY <1>1, NewIsSound
<1>3. /\ Sound(t, now) /\ Led(t) /\ t.status = "initialized" /\ t.counters = s.counters /\ t.errors = 0
      /\ Len(t.lifecycle) = 1 /\ t.lifecycle[1].to = "initialized"
  <2>1. "initialized" \in Allowed[s.status]
    BY <1>2 DEF Allowed
  <2>3. PICK to : to = "initialized" /\ to # "failed"
    OBVIOUS
  <2>4. t = Moved(s, to, now) /\ Sound(s, now) /\ Led(s) /\ to \in Allowed[s.status]
    BY <1>1, <1>2, <2>1, <2>3
  <2>2. /\ Sound(t, now) /\ Led(t) /\ t.status = to /\ t.counters = s.counters /\ t.errors = s.errors
        /\ t.lifecycle # <<>> /\ Ended(t) = to
        /\ Len(t.lifecycle) = Len(s.lifecycle) + 1
        /\ \A i \in 1 .. Len(s.lifecycle) : t.lifecycle[i] = s.lifecycle[i]
        /\ t.lifecycle[Len(s.lifecycle) + 1].to = to
    BY <2>3, <2>4, MovedKeeps
  <2> QED BY <1>2, <2>2, <2>3
<1>4. /\ Sound(u, now) /\ Led(u) /\ u.status = "running" /\ u.counters = t.counters /\ u.errors = 0
      /\ u.lifecycle # <<>> /\ Ended(u) = "running"
      /\ Len(u.lifecycle) = 2 /\ u.lifecycle[1] = t.lifecycle[1] /\ u.lifecycle[2].to = "running"
  <2>1. "running" \in Allowed[t.status]
    BY <1>3 DEF Allowed
  <2>3. PICK to : to = "running" /\ to # "failed"
    OBVIOUS
  <2>4. u = Moved(t, to, now) /\ Sound(t, now) /\ Led(t) /\ to \in Allowed[t.status]
    BY <1>1, <1>3, <2>1, <2>3
  <2>2. /\ Sound(u, now) /\ Led(u) /\ u.status = to /\ u.counters = t.counters /\ u.errors = t.errors
        /\ u.lifecycle # <<>> /\ Ended(u) = to
        /\ Len(u.lifecycle) = Len(t.lifecycle) + 1
        /\ \A i \in 1 .. Len(t.lifecycle) : u.lifecycle[i] = t.lifecycle[i]
        /\ u.lifecycle[Len(t.lifecycle) + 1].to = to
    BY <2>3, <2>4, MovedKeeps
  <2> QED BY <1>3, <2>2, <2>3
<1>5. ASSUME NEW i \in DOMAIN u.lifecycle PROVE u.lifecycle[i].to # "completed"
  <2>1. i \in 1 .. 2
    BY <1>4, SoundFacts
  <2>2. i = 1 \/ i = 2
    BY <2>1
  <2> QED BY <1>3, <1>4, <2>2
<1>6. Running(u, now)
  BY <1>4, <1>5 DEF Running
<1> QED BY <1>1, <1>2, <1>3, <1>4, <1>6 DEF Started

(* What is recorded or noted leaves the session running.                   *)
LEMMA RunningOn ==
  ASSUME NEW s, NEW t, NEW now, Running(s, now), Sound(t, now),
         t.status = s.status, t.errors = s.errors, t.lifecycle = s.lifecycle
  PROVE  Running(t, now)
BY DEF Running, Ended

LEMMA OperatedRuns ==
  ASSUME NEW s, NEW now \in Nat, NEW kind, kind \in Counters, Running(s, now), NEW t, t = Operated(s, kind, now)
  PROVE  /\ Running(t, now) /\ t.counters[kind] = s.counters[kind] + 1
         /\ \A k \in Counters \ {kind} : t.counters[k] = s.counters[k]
<1>1. Sound(s, now)
  BY DEF Running
<1>2. /\ Sound(t, now) /\ t.status = s.status /\ t.errors = s.errors /\ t.lifecycle = s.lifecycle
      /\ t.counters[kind] = s.counters[kind] + 1
      /\ \A k \in Counters \ {kind} : t.counters[k] = s.counters[k]
  BY <1>1, OperatedKeeps
<1>3. Running(t, now)
  BY <1>2, RunningOn
<1> QED BY <1>2, <1>3

LEMMA OperatedLeaves ==
  ASSUME NEW s, NEW now \in Nat, NEW kind, kind \in Counters, Running(s, now), NEW t, t = Operated(s, kind, now),
         NEW k, k \in Counters, k # kind
  PROVE  t.counters[k] = s.counters[k]
<1>1. \A m \in Counters \ {kind} : t.counters[m] = s.counters[m]
  BY OperatedRuns
<1> QED BY <1>1

LEMMA DiagnosedRuns ==
  ASSUME NEW s, NEW now \in Nat, Running(s, now)
  PROVE  Running(Diagnosed(s, now), now) /\ Diagnosed(s, now).counters = s.counters
<1>1. Sound(s, now)
  BY DEF Running
<1> QED BY <1>1, DiagnosedKeeps, RunningOn

LEMMA TimedRuns ==
  ASSUME NEW s, NEW now \in Nat, Running(s, now)
  PROVE  Running(Timed(s, now), now) /\ Timed(s, now).counters = s.counters
<1>1. Sound(s, now)
  BY DEF Running
<1>2. Running(Evolved(s), now) /\ Evolved(s).counters = s.counters
  BY <1>1, EvolvedKeeps, RunningOn
<1> QED BY <1>2, DiagnosedRuns DEF Timed

LEMMA RecordedOne ==
  ASSUME NEW s, NEW now \in Nat, NEW a, a \in Counters, Running(s, now), NEW t, t = Recorded(s, <<a>>, now)
  PROVE  /\ Running(t, now) /\ t.counters[a] = s.counters[a] + 1
         /\ \A k \in Counters \ {a} : t.counters[k] = s.counters[k]
<1>1. t = Operated(s, a, now)
  BY DEF Recorded
<1>2. Running(t, now)
  BY <1>1, OperatedRuns
<1>3. t.counters[a] = s.counters[a] + 1
  BY <1>1, OperatedRuns
<1>4. \A k \in Counters \ {a} : t.counters[k] = s.counters[k]
  BY <1>1, OperatedRuns
<1> QED BY <1>2, <1>3, <1>4

LEMMA RecordedTwo ==
  ASSUME NEW s, NEW now \in Nat, NEW a, NEW b, a \in Counters, b \in Counters, a # b, Running(s, now),
         NEW t, t = Recorded(s, <<a, b>>, now)
  PROVE  /\ Running(t, now) /\ t.counters[a] = s.counters[a] + 1 /\ t.counters[b] = s.counters[b] + 1
         /\ \A k \in Counters \ {a, b} : t.counters[k] = s.counters[k]
<1>1. PICK u : u = Operated(s, a, now)
  OBVIOUS
<1>2. t = Operated(u, b, now)
  BY <1>1 DEF Recorded
<1>3. Running(u, now) /\ u.counters[a] = s.counters[a] + 1 /\ \A k \in Counters \ {a} : u.counters[k] = s.counters[k]
  <2>1. Running(u, now)
    BY <1>1, OperatedRuns
  <2>2. u.counters[a] = s.counters[a] + 1
    BY <1>1, OperatedRuns
  <2>3. ASSUME NEW k \in Counters \ {a} PROVE u.counters[k] = s.counters[k]
    <3>1. k \in Counters /\ k # a
      OBVIOUS
    <3> QED BY <1>1, <3>1, OperatedLeaves
  <2> QED BY <2>1, <2>2, <2>3
<1>13. Running(u, now)
  BY <1>3
<1>4. Running(t, now)
  BY <1>2, <1>13, OperatedRuns
<1>5. t.counters[b] = u.counters[b] + 1
  BY <1>2, <1>13, OperatedRuns
<1>6. ASSUME NEW k \in Counters \ {b} PROVE t.counters[k] = u.counters[k]
  <2>1. k \in Counters /\ k # b
    OBVIOUS
  <2> QED BY <1>2, <1>13, <2>1, OperatedLeaves
<1>12. a \in Counters \ {b}
  OBVIOUS
<1>7. t.counters[a] = s.counters[a] + 1
  <2>1. t.counters[a] = u.counters[a]
    BY <1>6, <1>12
  <2> QED BY <1>3, <2>1
<1>10. b \in Counters \ {a}
  OBVIOUS
<1>8. t.counters[b] = s.counters[b] + 1
  BY <1>3, <1>5, <1>10
<1>11. \A k \in Counters \ {a, b} : k \in Counters \ {a} /\ k \in Counters \ {b}
  OBVIOUS
<1>9. \A k \in Counters \ {a, b} : t.counters[k] = s.counters[k]
  BY <1>3, <1>6, <1>11
<1> QED BY <1>4, <1>7, <1>8, <1>9

(* What ended tells how, and whether it did what it was to do.             *)
LEMMA ClosedIsFinished ==
  ASSUME NEW s, NEW now \in Nat, Running(s, now), NEW how \in {"completed", "failed"},
         how = "completed" => s.counters["storage"] = 2 * s.counters["index"]
                              /\ s.counters["index"] + s.counters["retrieval"] > 0
  PROVE  Finished(Closed(s, how, now), now)
<1>1. PICK t, u, n : t = Moved(s, how, now) /\ u = Moved(t, "disposed", now) /\ n = Len(s.lifecycle)
  OBVIOUS
<1>2. /\ Sound(s, now) /\ Led(s) /\ s.status = "running" /\ s.errors = 0 /\ Ended(s) = "running"
      /\ n \in Nat /\ n > 0 /\ DOMAIN s.lifecycle = 1 .. n
      /\ \A i \in 1 .. n : s.lifecycle[i].to # "completed"
  <2>1. Sound(s, now) /\ s.lifecycle # <<>> /\ n \in Nat /\ DOMAIN s.lifecycle = 1 .. n /\ s.lifecycle \in Seq(Steps)
    BY <1>1, SoundFacts DEF Running
  <2>2. n # 0
    BY <1>1, <2>1, EmptySeq
  <2> QED BY <2>1, <2>2 DEF Running, Led
<1>3. /\ Sound(t, now) /\ Led(t) /\ t.status = how /\ t.counters = s.counters
      /\ t.errors = IF how = "failed" THEN 1 ELSE 0
      /\ Len(t.lifecycle) = n + 1 /\ t.lifecycle[n + 1].to = how
      /\ \A i \in 1 .. n : t.lifecycle[i] = s.lifecycle[i]
  <2>1. how \in Allowed[s.status]
    BY <1>2 DEF Allowed
  <2> QED BY <1>1, <1>2, <2>1, MovedKeeps
<1>4. /\ Sound(u, now) /\ Led(u) /\ u.status = "disposed" /\ u.counters = s.counters /\ u.errors = t.errors
      /\ u.lifecycle # <<>> /\ Ended(u) = "disposed"
      /\ Len(u.lifecycle) = n + 2 /\ u.lifecycle[n + 2].to = "disposed"
      /\ \A i \in 1 .. n + 1 : u.lifecycle[i] = t.lifecycle[i]
  <2>1. "disposed" \in Allowed[t.status]
    BY <1>3 DEF Allowed
  <2>3. PICK to : to = "disposed" /\ to # "failed"
    OBVIOUS
  <2>4. u = Moved(t, to, now) /\ Sound(t, now) /\ Led(t) /\ to \in Allowed[t.status]
    BY <1>1, <1>3, <2>1, <2>3
  <2>2. /\ Sound(u, now) /\ Led(u) /\ u.status = to /\ u.counters = t.counters /\ u.errors = t.errors
        /\ u.lifecycle # <<>> /\ Ended(u) = to
        /\ Len(u.lifecycle) = Len(t.lifecycle) + 1
        /\ \A i \in 1 .. Len(t.lifecycle) : u.lifecycle[i] = t.lifecycle[i]
        /\ u.lifecycle[Len(t.lifecycle) + 1].to = to
    BY <2>3, <2>4, MovedKeeps
  <2> QED BY <1>2, <1>3, <2>2, <2>3
<1>5. DOMAIN u.lifecycle = 1 .. n + 2
  BY <1>4, SoundFacts
<1>6. u.lifecycle[n + 1].to = how /\ \A i \in 1 .. n : u.lifecycle[i] = s.lifecycle[i]
  <2>1. n + 1 \in 1 .. n + 1 /\ \A i \in 1 .. n : i \in 1 .. n + 1
    BY <1>2
  <2>2. u.lifecycle[n + 1] = t.lifecycle[n + 1]
    BY <1>4, <2>1
  <2>3. \A i \in 1 .. n : u.lifecycle[i] = t.lifecycle[i]
    BY <1>4, <2>1
  <2> QED BY <1>3, <2>2, <2>3
<1>7. OperationsByState(u)
  <2>1. s.lifecycle[n].to = "running"
    BY <1>1, <1>2 DEF Ended
  <2>2. n \in 1 .. n /\ n \in DOMAIN u.lifecycle
    BY <1>2, <1>5
  <2> QED BY <1>6, <2>1, <2>2 DEF OperationsByState
<1>8. FinalState(u)
  BY <1>4 DEF FinalState, Ended
<1>9. (\E k \in DOMAIN u.lifecycle : u.lifecycle[k].to = "completed") <=> how = "completed"
  <2>1. ASSUME NEW k \in DOMAIN u.lifecycle, u.lifecycle[k].to = "completed" PROVE how = "completed"
    <3>1. k \in 1 .. n \/ k = n + 1 \/ k = n + 2
      BY <1>2, <1>5
    <3> QED BY <1>2, <1>4, <1>6, <2>1, <3>1
  <2>2. n + 1 \in DOMAIN u.lifecycle
    BY <1>2, <1>5
  <2> QED BY <1>6, <2>1, <2>2
<1>10. u.errors = 0 <=> how = "completed"
  BY <1>3, <1>4
<1>11. StepsAreTold(u)
  BY <1>4, <1>9, <1>10 DEF StepsAreTold
<1> QED BY <1>1, <1>4, <1>7, <1>8, <1>11 DEF Closed, Finished

LEMMA FinishKeeps ==
  ASSUME SessionInv, NEW s, Running(s, clock), NEW how \in {"completed", "failed"},
         how = "completed" => s.counters["storage"] = 2 * s.counters["index"]
                              /\ s.counters["index"] + s.counters["retrieval"] > 0,
         Finish(s, how), UNCHANGED clock
  PROVE  SessionInv'
<1>1. PICK x, g, n : x = Closed(s, how, clock) /\ g = Append(completed, x) /\ n = Len(completed)
  OBVIOUS
<1>2. Finished(x, clock)
  BY <1>1, ClosedIsFinished DEF SessionInv
<1>3. x \in SessionType /\ completed \in Seq(SessionType)
  BY <1>2 DEF SessionInv, Finished, Sound
<1>4. g \in Seq(SessionType) /\ n \in Nat /\ DOMAIN g = 1 .. n + 1 /\ DOMAIN completed = 1 .. n
  BY <1>1, <1>3, AppendProperties
<1>5. g[n + 1] = x /\ \A i \in 1 .. n : g[i] = completed[i]
  BY <1>1, <1>3, AppendProperties
<1>6. \A i \in 1 .. n + 1 : i \in 1 .. n \/ i = n + 1
  BY <1>4
<1>7. \A i \in DOMAIN g : Finished(g[i], clock)
  BY <1>2, <1>4, <1>5, <1>6 DEF SessionInv
<1>8. completed' = g /\ active' = {} /\ operation' = operation /\ clock' = clock
  BY <1>1 DEF Finish
<1> QED BY <1>4, <1>7, <1>8 DEF SessionInv
(***************************************************************************)
(* Every step of the engine keeps its sessions true.                       *)
(***************************************************************************)
LEMMA SessionInitHolds == SessionInit => SessionInv
<1> SUFFICES ASSUME SessionInit PROVE SessionInv
  OBVIOUS
<1>1. /\ active = {} /\ completed = <<>> /\ clock = 0 /\ operation = [name |-> "store", next |-> 0]
  BY DEF SessionInit
<1>2. completed \in Seq(SessionType) /\ DOMAIN completed = {}
  BY <1>1
<1>3. operation \in [name : Operations, next : Nat] /\ clock \in Nat
  BY <1>1 DEF Operations
<1> QED BY <1>1, <1>2, <1>3 DEF SessionInv

LEMMA TheSession ==
  ASSUME SessionInv, active # {}
  PROVE  /\ Session \in active /\ Running(Session, clock) /\ Midway(Session, operation.name, operation.next)
         /\ clock \in Nat /\ operation.name \in Operations
BY DEF Session, SessionInv

(* The session goes on to the next stretch.                                *)
LEMMA OnwardKeeps ==
  ASSUME SessionInv, NEW s, active' = {s}, UNCHANGED <<completed, clock>>, Running(s, clock),
         operation' \in [name : Operations, next : Nat], Midway(s, operation'.name, operation'.next)
  PROVE  SessionInv'
BY DEF SessionInv

LEMMA BeginKeeps == ASSUME SessionInv, Begin PROVE SessionInv'
<1>1. PICK name \in Operations, valid \in BOOLEAN :
        IF valid
        THEN /\ active' = active \cup {Recorded(Started(clock), Opening(name), clock)}
             /\ operation' = [name |-> name, next |-> 1]
             /\ UNCHANGED completed
        ELSE Finish(Diagnosed(Recorded(Started(clock), <<"validation">>, clock), clock), "failed")
  BY DEF Begin, Started
<1>2. clock \in Nat /\ clock' = clock /\ active = {}
  BY DEF SessionInv, Begin, MayBegin
<1>3. Running(Started(clock), clock) /\ \A k \in Counters : Started(clock).counters[k] = 0
  BY <1>2, StartedRuns
<1>4. "validation" \in Counters /\ "retrieval" \in Counters /\ "storage" \in Counters /\ "index" \in Counters
  BY DEF Counters
<1>5. CASE valid
  <2>1. PICK s : s = Recorded(Started(clock), Opening(name), clock)
    OBVIOUS
  <2>2. active' = {s} /\ operation' = [name |-> name, next |-> 1] /\ UNCHANGED <<completed, clock>>
    BY <1>1, <1>2, <1>5, <2>1
  <2>3. Running(s, clock) /\ Midway(s, name, 1)
    <3>1. CASE name \in {"retrieve", "search"}
      <4>1. s = Recorded(Started(clock), <<"validation", "retrieval">>, clock)
        BY <2>1, <3>1 DEF Opening
      <4>2. /\ Running(s, clock)
            /\ s.counters["retrieval"] = Started(clock).counters["retrieval"] + 1
            /\ \A k \in Counters \ {"validation", "retrieval"} : s.counters[k] = Started(clock).counters[k]
        BY <1>2, <1>3, <1>4, <4>1, RecordedTwo
      <4>3. s.counters["retrieval"] = 1 /\ s.counters["storage"] = 0 /\ s.counters["index"] = 0
        BY <1>3, <1>4, <4>2
      <4> QED BY <3>1, <4>2, <4>3 DEF Midway
    <3>2. CASE name \notin {"retrieve", "search"}
      <4>1. s = Recorded(Started(clock), <<"validation">>, clock)
        BY <2>1, <3>2 DEF Opening
      <4>2. /\ Running(s, clock)
            /\ \A k \in Counters \ {"validation"} : s.counters[k] = Started(clock).counters[k]
        BY <1>2, <1>3, <1>4, <4>1, RecordedOne
      <4>3. s.counters["storage"] = 0 /\ s.counters["index"] = 0
        BY <1>3, <1>4, <4>2
      <4> QED BY <3>2, <4>2, <4>3 DEF Midway
    <3> QED BY <3>1, <3>2
  <2>4. operation' \in [name : Operations, next : Nat] /\ operation'.name = name /\ operation'.next = 1
    BY <2>2
  <2> QED BY <2>2, <2>3, <2>4, OnwardKeeps
<1>6. CASE ~valid
  <2>1. PICK r, s : r = Recorded(Started(clock), <<"validation">>, clock) /\ s = Diagnosed(r, clock)
    OBVIOUS
  <2>2. Running(r, clock)
    BY <1>2, <1>3, <1>4, <2>1, RecordedOne
  <2>3. Running(s, clock)
    BY <1>2, <2>1, <2>2, DiagnosedRuns
  <2>4. Finish(s, "failed")
    BY <1>1, <1>6, <2>1
  <2> QED BY <1>2, <2>3, <2>4, FinishKeeps
<1> QED BY <1>5, <1>6

LEMMA AnsweredKeeps == ASSUME SessionInv, Answered PROVE SessionInv'
<1>1. PICK kinds, r, s : /\ kinds = Stretches(operation.name)
                         /\ r = Recorded(Session, kinds[operation.next], clock) /\ s = Timed(r, clock)
  OBVIOUS
<1>2. /\ Running(Session, clock) /\ Midway(Session, operation.name, operation.next)
      /\ clock \in Nat /\ operation.name \in Operations /\ clock' = clock
  BY TheSession DEF Answered
<1>3. /\ operation.next = Len(kinds) => Finish(s, "completed")
      /\ operation.next # Len(kinds) => /\ active' = {s} /\ operation' = [operation EXCEPT !.next = @ + 1]
                                        /\ UNCHANGED completed
  BY <1>1 DEF Answered
<1>4. "validation" \in Counters /\ "retrieval" \in Counters /\ "storage" \in Counters /\ "index" \in Counters
  BY DEF Counters
<1>5. Running(r, clock) => Running(s, clock) /\ s.counters = r.counters
  BY <1>1, <1>2, TimedRuns
<1>6. Session.counters \in [Counters -> Nat]
  BY <1>2, SoundFacts DEF Running
<1>7. CASE operation.name \in {"retrieve", "search"}
  <2>1. /\ operation.next = 1 /\ Session.counters["storage"] = 0 /\ Session.counters["index"] = 0
        /\ Session.counters["retrieval"] = 1
    BY <1>2, <1>7 DEF Midway
  <2>2. Len(kinds) = 1 /\ r = Recorded(Session, <<"retrieval">>, clock)
    BY <1>1, <1>7, <2>1 DEF Stretches, Reading
  <2>3. /\ Running(r, clock) /\ r.counters["retrieval"] = Session.counters["retrieval"] + 1
        /\ \A k \in Counters \ {"retrieval"} : r.counters[k] = Session.counters[k]
    BY <1>2, <1>4, <2>2, RecordedOne
  <2>4. s.counters["retrieval"] = 2 /\ s.counters["storage"] = 0 /\ s.counters["index"] = 0
    BY <1>4, <1>5, <2>1, <2>3
  <2> QED BY <1>2, <1>3, <1>5, <2>1, <2>2, <2>3, <2>4, FinishKeeps
<1>8. CASE operation.name \notin {"retrieve", "search"}
  <2>1. /\ operation.next \in 1 .. 3 /\ Session.counters["storage"] = operation.next - 1
        /\ Session.counters["index"] = 0
    BY <1>2, <1>8 DEF Midway
  <2>2. Len(kinds) = 3 /\ kinds = << <<"validation", "storage">>, <<"storage">>, <<"index">> >>
    BY <1>1, <1>8 DEF Stretches, Writing
  <2>3. PICK x : x = operation.next
    OBVIOUS
  <2>4. CASE x = 3
    <3>1. r = Recorded(Session, <<"index">>, clock)
      BY <1>1, <2>2, <2>3, <2>4
    <3>2. /\ Running(r, clock) /\ r.counters["index"] = Session.counters["index"] + 1
          /\ \A k \in Counters \ {"index"} : r.counters[k] = Session.counters[k]
      BY <1>2, <1>4, <3>1, RecordedOne
    <3>3. s.counters["index"] = 1 /\ s.counters["storage"] = 2 /\ s.counters["retrieval"] \in Nat
      BY <1>4, <1>5, <1>6, <2>1, <2>3, <2>4, <3>2
    <3>4. Finish(s, "completed")
      BY <1>3, <2>2, <2>3, <2>4
    <3> QED BY <1>2, <1>5, <3>2, <3>3, <3>4, FinishKeeps
  <2>5. CASE x \in 1 .. 2
    <3>1. /\ Running(r, clock) /\ r.counters["storage"] = Session.counters["storage"] + 1
          /\ r.counters["index"] = Session.counters["index"]
      <4>1. CASE x = 1
        <5>1. r = Recorded(Session, <<"validation", "storage">>, clock)
          BY <1>1, <2>2, <2>3, <4>1
        <5> QED BY <1>2, <1>4, <5>1, RecordedTwo
      <4>2. CASE x = 2
        <5>1. r = Recorded(Session, <<"storage">>, clock)
          BY <1>1, <2>2, <2>3, <4>2
        <5> QED BY <1>2, <1>4, <5>1, RecordedOne
      <4> QED BY <2>5, <4>1, <4>2
    <3>2. s.counters["storage"] = x /\ s.counters["index"] = 0
      BY <1>5, <2>1, <2>3, <2>5, <3>1
    <3>3. active' = {s} /\ operation' = [operation EXCEPT !.next = x + 1] /\ UNCHANGED completed
      BY <1>3, <2>2, <2>3, <2>5
    <3>4. /\ operation' \in [name : Operations, next : Nat] /\ operation'.name = operation.name
          /\ operation'.next = x + 1
      BY <2>5, <3>3 DEF SessionInv
    <3>5. Midway(s, operation'.name, operation'.next)
      BY <1>8, <2>5, <3>2, <3>4 DEF Midway
    <3> QED BY <1>2, <1>5, <3>1, <3>3, <3>4, <3>5, OnwardKeeps
  <2> QED BY <2>1, <2>3, <2>4, <2>5
<1> QED BY <1>7, <1>8

LEMMA FailsKeeps == ASSUME SessionInv, ProviderFails \/ CheckFails PROVE SessionInv'
<1>1. active # {} /\ clock' = clock
  BY DEF ProviderFails, CheckFails
<1>2. Running(Session, clock) /\ clock \in Nat /\ "validation" \in Counters
  BY <1>1, TheSession DEF Counters
<1>3. PICK d, e, o, p, q, r : /\ d = Diagnosed(Session, clock) /\ e = Diagnosed(d, clock)
                              /\ o = Operated(Session, "validation", clock) /\ p = Timed(o, clock)
                              /\ q = Diagnosed(p, clock) /\ r = Diagnosed(q, clock)
  OBVIOUS
<1>4. Running(d, clock) /\ Running(e, clock)
  BY <1>2, <1>3, DiagnosedRuns
<1>5. Running(o, clock)
  BY <1>2, <1>3, OperatedRuns
<1>6. Running(p, clock)
  BY <1>2, <1>3, <1>5, TimedRuns
<1>7. Running(q, clock) /\ Running(r, clock)
  BY <1>2, <1>3, <1>6, DiagnosedRuns
<1>8. Finish(e, "failed") \/ Finish(r, "failed") \/ Finish(d, "failed")
  BY <1>3 DEF ProviderFails, CheckFails
<1> QED BY <1>1, <1>4, <1>7, <1>8, FinishKeeps

LEMMA TickKeeps == ASSUME SessionInv, Tick PROVE SessionInv'
<1>1. PICK now : now = clock + 1
  OBVIOUS
<1>2. clock' = now /\ UNCHANGED <<active, completed, operation>> /\ clock \in Nat /\ now \in Nat /\ clock <= now
  BY <1>1 DEF Tick, SessionInv
<1>3. \A s : Sound(s, clock) => Sound(s, now)
  BY <1>2, SoundLater
<1>4. \A s : Running(s, clock) => Running(s, now)
  BY <1>3 DEF Running
<1>5. \A s : Finished(s, clock) => Finished(s, now)
  BY <1>3 DEF Finished
<1> QED BY <1>2, <1>4, <1>5 DEF SessionInv

LEMMA SessionStep == SessionInv /\ [SessionNext]_sessionVars => SessionInv'
<1> SUFFICES ASSUME SessionInv, [SessionNext]_sessionVars PROVE SessionInv'
  OBVIOUS
<1>1. CASE BeginRefused \/ UNCHANGED sessionVars
  <2>1. UNCHANGED <<active, completed, operation, clock>>
    BY <1>1 DEF BeginRefused, sessionVars
  <2> QED BY <2>1 DEF SessionInv
<1> QED BY <1>1, BeginKeeps, AnsweredKeeps, FailsKeeps, TickKeeps DEF SessionNext

LEMMA SessionProperty == SessionInv => SessionsAreTrue
<1> SUFFICES ASSUME SessionInv PROVE SessionsAreTrue
  OBVIOUS
<1>1. ASSUME NEW s \in Sessions PROVE Sound(s, clock) /\ FinalState(s) /\ OperationsByState(s)
  <2>1. CASE s \in active
    <3>1. Running(s, clock)
      BY <2>1 DEF SessionInv
    <3>2. FinalState(s)
      BY <3>1 DEF Running, FinalState, Ended
    <3>3. Len(s.lifecycle) \in DOMAIN s.lifecycle
      <4>1. s.lifecycle \in Seq(Steps) /\ s.lifecycle # <<>>
        BY <3>1, SoundFacts DEF Running
      <4> QED BY <4>1, EmptySeq
    <3>4. OperationsByState(s)
      BY <3>1, <3>3 DEF Running, OperationsByState, Ended
    <3> QED BY <3>1, <3>2, <3>4 DEF Running
  <2>2. CASE \E i \in DOMAIN completed : s = completed[i]
    BY <2>2 DEF SessionInv, Finished
  <2> QED BY <2>1, <2>2 DEF Sessions
<1>2. RegisteredSessionsValid
  <2>1. ASSUME NEW s \in Sessions PROVE HistoriesAppendOnly(s) /\ LifecycleConnected(s) /\ RevisionMonotonic(s)
    BY <1>1 DEF HistoriesAppendOnly, Sound, Upto
  <2> QED BY <1>1, <2>1 DEF RegisteredSessionsValid, StatisticsCoherent, Statistics
<1>3. \A s \in Sessions : TransitionsAllowed(s) /\ CountersCount(s)
  BY <1>1 DEF Sound
<1>4. \A i \in DOMAIN completed : StepsAreTold(completed[i])
  BY DEF SessionInv, Finished
<1>5. \A s, t \in active : s = t
  BY DEF SessionInv
<1> QED BY <1>2, <1>3, <1>4, <1>5 DEF SessionsAreTrue

(* Whatever fails, the engine's validation finds nothing wrong with its    *)
(* sessions, and each tells all that its operation did and nothing else.   *)
THEOREM SessionsStayTrue == SessionSpec => []SessionsAreTrue
BY SessionInitHolds, SessionStep, SessionProperty, PTL DEF SessionSpec

-----------------------------------------------------------------------------
(***************************************************************************)
(* TurnContext.                                                            *)
(*                                                                         *)
(* A search is told first for any memory, so that the invariant can say it *)
(* of the memory as it is and the steps of what it becomes.                *)
(***************************************************************************)
ContextSpec == ContextInit /\ [][ContextNext]_contextVars

(* What a search finds in a given memory.                                  *)
Memories == [RecordIds -> [words : SUBSET Words, at : Nat]]
There(mem) == {r \in RecordIds : mem[r].at > 0}
Dated(mem) == IsFiniteSet(There(mem)) /\ \A r, s \in There(mem) : mem[r].at = mem[s].at => r = s
Hits(mem, r, q) == Cardinality({i \in DOMAIN q : q[i] \in mem[r].words})
Above(mem, q, r, s) ==
  \/ Hits(mem, r, q) > Hits(mem, s, q)
  \/ Hits(mem, r, q) = Hits(mem, s, q) /\ mem[r].at > mem[s].at
Row(mem, q) == Arranged(There(mem), {p \in There(mem) \X There(mem) : Above(mem, q, p[1], p[2])})
Hitting(mem, q, s) == Picked(s, {i \in DOMAIN s : Hits(mem, s[i], q) > 0})
Chosen(mem, q) ==
  Limited(IF Hitting(mem, q, Row(mem, q)) = <<>> THEN Row(mem, q) ELSE Hitting(mem, q, Row(mem, q)))
Hit(mem, q) == Hitting(mem, q, Chosen(mem, q))

LEMMA SearchIs ==
  /\ Present = There(memory)
  /\ \A r, q : Score(r, q) = Hits(memory, r, q)
  /\ \A q : Matched(q) = Hit(memory, q)
<1>1. Present = There(memory)
  BY DEF Present, There
<1>2. \A r, q : Score(r, q) = Hits(memory, r, q)
  BY DEF Score, Hits
<1>3. \A q, r, s : Outranks(q, r, s) <=> Above(memory, q, r, s)
  BY <1>2 DEF Outranks, Above
<1>4. \A q : Ranked(q) = Row(memory, q)
  <2> TAKE q
  <2>1. {p \in Present \X Present : Outranks(q, p[1], p[2])} = {p \in There(memory) \X There(memory) : Above(memory, q, p[1], p[2])}
    BY <1>1, <1>3
  <2>2. QED BY <1>1, <2>1 DEF Ranked, Row
<1>5. \A q, s : Relevant(q, s) = Hitting(memory, q, s)
  <2> TAKE q, s
  <2>1. {i \in DOMAIN s : Score(s[i], q) > 0} = {i \in DOMAIN s : Hits(memory, s[i], q) > 0}
    BY <1>2
  <2>2. QED BY <2>1 DEF Relevant, Hitting
<1>6. \A q : Selected_Items(q) = Chosen(memory, q)
  BY <1>4, <1>5 DEF Selected_Items, Chosen
<1>7. QED BY <1>1, <1>2, <1>5, <1>6 DEF Matched, Hit

LEMMA HitsAreNumbers ==
  ASSUME NEW mem, NEW q \in Seq(Words), NEW r
  PROVE  /\ Hits(mem, r, q) \in Nat
         /\ Hits(mem, r, q) > 0 <=> \E i \in DOMAIN q : q[i] \in mem[r].words
<1> DEFINE S == {i \in DOMAIN q : q[i] \in mem[r].words}
<1>1. DOMAIN q = 1 .. Len(q) /\ Len(q) \in Nat
  BY LenProperties
<1>2. IsFiniteSet(S)
  <2>1. IsFiniteSet(1 .. Len(q))
    BY <1>1, FS_Interval
  <2>2. S \subseteq 1 .. Len(q)
    BY <1>1
  <2>3. QED BY <2>1, <2>2, FS_Subset
<1> HIDE DEF S
<1>3. Cardinality(S) \in Nat /\ (Cardinality(S) = 0 <=> S = {})
  BY <1>2, FS_CardinalityType, FS_EmptySet
<1>4. Cardinality(S) > 0 <=> S # {}
  BY <1>3
<1>5. Hits(mem, r, q) = Cardinality(S)
  BY DEF Hits, S
<1>6. QED BY <1>3, <1>4, <1>5 DEF S

(* The records are in a row, the ones that are above before the others.    *)
LEMMA RowIs ==
  ASSUME NEW mem \in Memories, Dated(mem), NEW q \in Seq(Words)
  PROVE  LET n == Cardinality(There(mem))
             K == Row(mem, q)
         IN  /\ n \in Nat /\ K \in [1 .. n -> There(mem)]
             /\ \A r \in There(mem) : \E i \in 1 .. n : K[i] = r
             /\ \A i, j \in 1 .. n : i < j <=> Above(mem, q, K[i], K[j])
             /\ \A i, j \in 1 .. n : K[i] = K[j] => i = j
<1> DEFINE S == There(mem)
           R == {p \in S \X S : Above(mem, q, p[1], p[2])}
<1>1. \A r \in S : Hits(mem, r, q) \in Nat /\ mem[r].at \in Nat
  BY HitsAreNumbers DEF Memories, There
<1>2. \A r, s \in S : <<r, s>> \in R <=> Above(mem, q, r, s)
  OBVIOUS
<1>3. \A r \in S : ~Above(mem, q, r, r)
  BY <1>1 DEF Above
<1>4. \A r, s, t \in S : Above(mem, q, r, s) /\ Above(mem, q, s, t) => Above(mem, q, r, t)
  BY <1>1 DEF Above
<1>5. \A r, s \in S : r # s => Above(mem, q, r, s) \/ Above(mem, q, s, r)
  BY <1>1 DEF Above, Dated
<1>6. IsFiniteSet(S)
  BY DEF Dated
<1> HIDE DEF S, R
<1>7. StrictOrder(S, R)
  BY <1>2, <1>3, <1>4, <1>5 DEF StrictOrder
<1> DEFINE n == Cardinality(S)
           K == Arranged(S, R)
<1>8. /\ n \in Nat /\ K \in [1 .. n -> S]
      /\ \A e \in S : \E i \in 1 .. n : K[i] = e
      /\ \A i, j \in 1 .. n : i < j <=> <<K[i], K[j]>> \in R
      /\ \A i, j \in 1 .. n : K[i] = K[j] => i = j
  BY <1>6, <1>7, ArrangedInOrder
<1> HIDE DEF n, K
<1>9. \A i, j \in 1 .. n : i < j <=> Above(mem, q, K[i], K[j])
  BY <1>2, <1>8
<1>10. Row(mem, q) = K
  BY DEF Row, K, R, S
<1>11. QED BY <1>8, <1>9, <1>10 DEF n, S

LEMMA LimitedIs ==
  ASSUME NEW S, NEW n \in Nat, NEW s \in [1 .. n -> S]
  PROVE  \E l \in 0 .. n :
           /\ Limited(s) = [i \in 1 .. l |-> s[i]]
           /\ l <= ContextLimit /\ (l = n \/ l = ContextLimit)
<1>1. Len(s) = n /\ s \in Seq(S)
  OBVIOUS
<1>2. ContextLimit \in Nat
  BY ContextBounds
<1>3. CASE n > ContextLimit
  <2>1. Limited(s) = SubSeq(s, 1, ContextLimit)
    BY <1>1, <1>3 DEF Limited
  <2>2. SubSeq(s, 1, ContextLimit) = [i \in 1 .. ContextLimit |-> s[i]]
    BY <1>1, <1>2, <1>3
  <2>3. ContextLimit \in 0 .. n
    BY <1>2, <1>3
  <2>4. QED BY <1>2, <2>1, <2>2, <2>3
<1>4. CASE n <= ContextLimit
  <2>1. Limited(s) = s
    BY <1>1, <1>2, <1>4 DEF Limited
  <2>2. s = [i \in 1 .. n |-> s[i]]
    OBVIOUS
  <2>3. QED BY <1>4, <2>1, <2>2
<1>5. QED BY <1>2, <1>3, <1>4

(* A search finds the first of the row, the ones that match.               *)
LEMMA HitBegins ==
  ASSUME NEW mem \in Memories, Dated(mem), NEW q \in Seq(Words)
  PROVE  \E n \in 0 .. Cardinality(There(mem)) : \E l \in 0 .. n :
           /\ \A i \in 1 .. Cardinality(There(mem)) : Hits(mem, Row(mem, q)[i], q) > 0 <=> i <= n
           /\ l <= ContextLimit /\ (l = n \/ l = ContextLimit)
           /\ Hit(mem, q) = [i \in 1 .. l |-> Row(mem, q)[i]]
<1> DEFINE S == There(mem)
           c == Cardinality(S)
           K == Row(mem, q)
           P == {i \in 1 .. c : Hits(mem, K[i], q) > 0}
<1>1. /\ c \in Nat /\ K \in [1 .. c -> S]
      /\ \A i, j \in 1 .. c : i < j <=> Above(mem, q, K[i], K[j])
  BY RowIs
<1>2. \A r : Hits(mem, r, q) \in Nat
  BY HitsAreNumbers
<1> HIDE DEF S, c, K
<1>3. \A i \in P : \A j \in 1 .. i : j \in P
  <2> TAKE i \in P
  <2> TAKE j \in 1 .. i
  <2>1. j \in 1 .. c /\ (j = i \/ j < i)
    BY <1>1
  <2>2. CASE j < i
    <3>1. Above(mem, q, K[j], K[i])
      BY <1>1, <2>1, <2>2
    <3>2. Hits(mem, K[j], q) >= Hits(mem, K[i], q)
      BY <1>2, <3>1 DEF Above
    <3>3. QED BY <1>2, <2>1, <3>2
  <2>3. QED BY <2>1, <2>2
<1>4. PICK n \in 0 .. c : P = 1 .. n
  <2>1. P \in SUBSET (1 .. c)
    OBVIOUS
  <2> HIDE DEF P
  <2>2. QED BY <1>1, <1>3, <2>1, Beginnings
<1>5. \A i \in 1 .. c : Hits(mem, K[i], q) > 0 <=> i <= n
  <2> TAKE i \in 1 .. c
  <2>1. Hits(mem, K[i], q) > 0 <=> i \in P
    OBVIOUS
  <2> HIDE DEF P
  <2>2. QED BY <1>1, <1>4, <2>1
<1>6. Hitting(mem, q, K) = [i \in 1 .. n |-> K[i]]
  <2>1. DOMAIN K = 1 .. c
    BY <1>1
  <2>2. Hitting(mem, q, K) = Picked(K, 1 .. n)
    BY <1>4, <2>1 DEF Hitting
  <2>3. n \in 0 .. n /\ n \in Nat
    BY <1>1, <1>4
  <2>4. QED BY <2>2, <2>3, PickedBeginning
<1> HIDE DEF P
<1>7. \A l \in 0 .. c : \A k \in 0 .. l :
        (\A i \in 1 .. l : i <= n <=> i <= k) =>
          Hitting(mem, q, [i \in 1 .. l |-> K[i]]) = [i \in 1 .. k |-> K[i]]
  <2> SUFFICES ASSUME NEW l \in 0 .. c, NEW k \in 0 .. l, \A i \in 1 .. l : i <= n <=> i <= k
               PROVE  Hitting(mem, q, [i \in 1 .. l |-> K[i]]) = [i \in 1 .. k |-> K[i]]
    OBVIOUS
  <2> DEFINE s == [i \in 1 .. l |-> K[i]]
  <2>1. {i \in DOMAIN s : Hits(mem, s[i], q) > 0} = 1 .. k
    <3>1. \A i \in 1 .. l : i \in 1 .. c /\ s[i] = K[i] /\ (Hits(mem, s[i], q) > 0 <=> i <= k)
      BY <1>1, <1>5
    <3>2. DOMAIN s = 1 .. l
      OBVIOUS
    <3> HIDE DEF s
    <3>3. QED BY <1>1, <3>1, <3>2
  <2>2. \A i \in 1 .. k : s[i] = K[i]
    BY <1>1
  <2> HIDE DEF s
  <2>3. Hitting(mem, q, s) = Picked(s, 1 .. k)
    BY <2>1 DEF Hitting
  <2>4. l \in Nat
    BY <1>1
  <2>5. Picked(s, 1 .. k) = [i \in 1 .. k |-> s[i]]
    BY <2>4, PickedBeginning
  <2>6. QED BY <2>2, <2>3, <2>5 DEF s
<1>8. CASE n = 0
  <2>1. Hitting(mem, q, K) = <<>>
    BY <1>6, <1>8
  <2>2. Chosen(mem, q) = Limited(K)
    BY <2>1 DEF Chosen, K
  <2>3. PICK l \in 0 .. c : /\ Limited(K) = [i \in 1 .. l |-> K[i]]
                            /\ l <= ContextLimit /\ (l = c \/ l = ContextLimit)
    <3>1. c \in Nat
      BY <1>1
    <3>2. K \in [1 .. c -> S]
      BY <1>1
    <3>3. QED BY <3>1, <3>2, LimitedIs
  <2>4. 0 \in 0 .. l /\ \A i \in 1 .. l : i <= n <=> i <= 0
    BY <1>1, <1>8
  <2>5. Hit(mem, q) = [i \in 1 .. 0 |-> K[i]]
    BY <1>7, <2>2, <2>3, <2>4 DEF Hit
  <2>6. 0 \in 0 .. n /\ 0 <= ContextLimit
    BY <1>8, ContextBounds
  <2>7. QED BY <1>5, <1>8, <2>5, <2>6 DEF c, K, S
<1>9. CASE n # 0
  <2> DEFINE s == [i \in 1 .. n |-> K[i]]
  <2>1. n \in Nat /\ s \in [1 .. n -> S]
    BY <1>1
  <2>2. s # <<>>
    <3>1. 1 \in DOMAIN s
      BY <1>1, <1>9
    <3> HIDE DEF s
    <3>2. QED BY <3>1
  <2>3. Chosen(mem, q) = Limited(s)
    BY <1>6, <2>2 DEF Chosen, K
  <2> HIDE DEF s
  <2>4. PICK l \in 0 .. n : /\ Limited(s) = [i \in 1 .. l |-> s[i]]
                            /\ l <= ContextLimit /\ (l = n \/ l = ContextLimit)
    BY <2>1, LimitedIs
  <2>5. [i \in 1 .. l |-> s[i]] = [i \in 1 .. l |-> K[i]]
    BY <1>1 DEF s
  <2>6. l \in 0 .. c /\ l \in 0 .. l /\ \A i \in 1 .. l : i <= n <=> i <= l
    BY <1>1, <2>4
  <2>7. Hit(mem, q) = [i \in 1 .. l |-> K[i]]
    BY <1>7, <2>3, <2>4, <2>5, <2>6 DEF Hit
  <2>8. QED BY <1>5, <2>4, <2>7 DEF c, K, S
<1>10. QED BY <1>8, <1>9

(* What a search finds: the records that match, or the first ContextLimit  *)
(* of them, each before the records that it is above.                      *)
Finds(mem, q, M) ==
  /\ M \in Seq(There(mem)) /\ Len(M) <= ContextLimit
  /\ \A i \in 1 .. Len(M) : Hits(mem, M[i], q) > 0
  /\ \A i, j \in 1 .. Len(M) : M[i] = M[j] => i = j
  /\ \A r \in There(mem) : Hits(mem, r, q) > 0 /\ Len(M) # ContextLimit => \E i \in 1 .. Len(M) : M[i] = r
  /\ \A i \in 1 .. Len(M) : \A r \in There(mem) :
       (\A j \in 1 .. i : M[j] # r) => Above(mem, q, M[i], r)

LEMMA HitFinds ==
  ASSUME NEW mem \in Memories, Dated(mem), NEW q \in Seq(Words)
  PROVE  Finds(mem, q, Hit(mem, q))
<1> DEFINE S == There(mem)
           c == Cardinality(S)
           K == Row(mem, q)
<1>1. /\ c \in Nat /\ K \in [1 .. c -> S]
      /\ \A r \in S : \E i \in 1 .. c : K[i] = r
      /\ \A i, j \in 1 .. c : i < j <=> Above(mem, q, K[i], K[j])
      /\ \A i, j \in 1 .. c : K[i] = K[j] => i = j
  BY RowIs
<1>2. PICK n \in 0 .. c : \E l \in 0 .. n :
           /\ \A i \in 1 .. c : Hits(mem, K[i], q) > 0 <=> i <= n
           /\ l <= ContextLimit /\ (l = n \/ l = ContextLimit)
           /\ Hit(mem, q) = [i \in 1 .. l |-> K[i]]
  BY HitBegins
<1>3. PICK l \in 0 .. n :
           /\ \A i \in 1 .. c : Hits(mem, K[i], q) > 0 <=> i <= n
           /\ l <= ContextLimit /\ (l = n \/ l = ContextLimit)
           /\ Hit(mem, q) = [i \in 1 .. l |-> K[i]]
  BY <1>2
<1> HIDE DEF S, c, K
<1> DEFINE M == Hit(mem, q)
<1>4. /\ l \in Nat /\ \A i \in 1 .. l : i \in 1 .. c /\ M[i] = K[i]
      /\ l <= n /\ n <= c
  BY <1>1, <1>2, <1>3
<1>5. M \in Seq(S) /\ Len(M) = l
  <2>1. M \in [1 .. l -> S]
    BY <1>1, <1>3, <1>4
  <2> HIDE DEF M
  <2>2. QED BY <1>4, <2>1
<1> HIDE DEF M
<1>6. \A i \in 1 .. l : Hits(mem, M[i], q) > 0
  BY <1>1, <1>2, <1>3, <1>4
<1>7. \A i, j \in 1 .. l : M[i] = M[j] => i = j
  BY <1>1, <1>4
<1>8. \A r \in S : Hits(mem, r, q) > 0 /\ l # ContextLimit => \E i \in 1 .. l : M[i] = r
  <2> SUFFICES ASSUME NEW r \in S, Hits(mem, r, q) > 0, l # ContextLimit PROVE \E i \in 1 .. l : M[i] = r
    OBVIOUS
  <2>1. PICK i \in 1 .. c : K[i] = r
    BY <1>1
  <2>2. i <= n /\ l = n
    BY <1>3, <2>1
  <2>3. i \in 1 .. l
    BY <1>1, <2>2
  <2>4. QED BY <1>4, <2>1, <2>3
<1>9. \A i \in 1 .. l : \A r \in S : (\A j \in 1 .. i : M[j] # r) => Above(mem, q, M[i], r)
  <2> SUFFICES ASSUME NEW i \in 1 .. l, NEW r \in S, \A j \in 1 .. i : M[j] # r PROVE Above(mem, q, M[i], r)
    OBVIOUS
  <2>1. PICK k \in 1 .. c : K[k] = r
    BY <1>1
  <2>2. k \notin 1 .. i
    <3>1. \A j \in 1 .. i : j \in 1 .. l
      BY <1>4
    <3>2. QED BY <1>4, <2>1, <3>1
  <2>3. i \in 1 .. c /\ i < k
    BY <1>1, <1>4, <2>2
  <2>4. QED BY <1>1, <1>4, <2>1, <2>3
<1>10. QED BY <1>3, <1>5, <1>6, <1>7, <1>8, <1>9 DEF Finds, S, M

(* The first query is the goal; each other is a word of it.                *)
OneWord(ws, qs) == \A i \in 1 .. Len(qs) : \E w \in Words : qs[i] = <<w>> /\ \E j \in 1 .. Len(ws) : ws[j] = w

LEMMA PrefetchAsks ==
  ASSUME NEW ws \in Seq(Words)
  PROVE  /\ PrefetchQueries(ws) \in Seq(Seq(Words)) /\ PrefetchQueries(ws) # <<>>
         /\ Head(PrefetchQueries(ws)) = ws
         /\ OneWord(ws, Tail(PrefetchQueries(ws)))
<1> DEFINE n == Len(ws)
           P == {i \in DOMAIN ws : ws[i] \in LongWords /\ \A j \in 1 .. i - 1 : ws[j] # ws[i]}
           t == Tokens(ws)
           single == [i \in DOMAIN t |-> <<t[i]>>]
<1>1. n \in Nat /\ DOMAIN ws = 1 .. n /\ \A i \in 1 .. n : ws[i] \in Words
  BY LenProperties, ElementOfSeq
<1>2. \E m \in 0 .. n : t \in [1 .. m -> Words] /\ \A i \in 1 .. m : \E j \in 1 .. n : ws[j] = t[i]
  <2>1. P \in SUBSET (1 .. n)
    BY <1>1
  <2>2. t = Picked(ws, P)
    BY DEF Tokens
  <2> HIDE DEF n, P, t
  <2>3. Cardinality(P) \in 0 .. n /\ \E f : PicksAt(ws, P, f)
    BY <1>1, <2>1, PickedInOrder
  <2>4. PICK f : PicksAt(ws, P, f)
    BY <2>3
  <2>5. \A i \in 1 .. Cardinality(P) : f[i] \in 1 .. n
    BY <2>1, <2>4 DEF PicksAt
  <2>6. t = [i \in 1 .. Cardinality(P) |-> ws[f[i]]]
    BY <2>2, <2>4 DEF PicksAt
  <2>7. QED BY <1>1, <2>3, <2>5, <2>6
<1>3. PICK m \in 0 .. n : t \in [1 .. m -> Words] /\ \A i \in 1 .. m : \E j \in 1 .. n : ws[j] = t[i]
  BY <1>2
<1> HIDE DEF n, P, t
<1>4. m \in Nat /\ single \in [1 .. m -> Seq(Words)] /\ \A i \in 1 .. m : single[i] = <<t[i]>>
  BY <1>1, <1>3
<1> HIDE DEF single
<1>5. single \in Seq(Seq(Words)) /\ Len(single) = m
  BY <1>4
<1>6. CASE PrefetchQueries(ws) = <<ws>>
  BY <1>6 DEF OneWord
<1>7. CASE PrefetchQueries(ws) = <<ws>> \o single
  <2>1. <<ws>> \o single \in Seq(Seq(Words)) /\ <<ws>> \o single # <<>> /\ Head(<<ws>> \o single) = ws
    BY <1>5
  <2>2. Tail(<<ws>> \o single) = single
    <3>1. Tail(<<ws>> \o single) \in Seq(Seq(Words)) /\ Len(Tail(<<ws>> \o single)) = Len(single)
      BY <1>5
    <3>2. \A i \in 1 .. Len(single) : Tail(<<ws>> \o single)[i] = single[i]
      BY <1>5
    <3>3. QED BY <1>5, <3>1, <3>2, SeqEqual
  <2>3. OneWord(ws, single)
    BY <1>3, <1>4, <1>5 DEF OneWord, n
  <2>4. QED BY <1>7, <2>1, <2>2, <2>3
<1>8. QED BY <1>6, <1>7 DEF PrefetchQueries, single, t
-----------------------------------------------------------------------------
(***************************************************************************)
(* The inductive invariant.                                                *)
(***************************************************************************)
Entries == [id : RecordIds, words : SUBSET Words]
Builds ==
  [pc : {"new", "searching", "resolving", "built"}, queries : Seq(Seq(Words)), items : Seq(RecordIds),
   found : Seq(Entries), named : SUBSET Clients, sources : SUBSET Clients]

Ids(found) == {found[i].id : i \in 1 .. Len(found)}
Coming(items) == {items[i] : i \in 1 .. Len(items)}
Once(found) == \A i, j \in 1 .. Len(found) : found[i].id = found[j].id => i = j

ContextTypes ==
  /\ memory \in Memories /\ Dated(memory)
  /\ changes \in Nat /\ \A r \in RecordIds : memory[r].at <= changes
  /\ goal \in Seq(Words) /\ building \in Builds

(* The records that match and were left alone are found or to come, or a   *)
(* full block of others is.                                                *)
Complete(mem, g, changed, H) ==
  \/ Cardinality(H) >= ContextLimit
  \/ \A r \in There(mem) \ changed : Hits(mem, r, g) > 0 => r \in H

(* What the goal found is found first, in its order, or still to come.     *)
Orderly(M, found, items) ==
  /\ \A i \in 1 .. Len(found) : i <= Len(M) => found[i].id = M[i]
  /\ Len(found) < Len(M) =>
       /\ Len(items) = Len(M) - Len(found)
       /\ \A j \in 1 .. Len(items) : items[j] = M[Len(found) + j]
Matching(mem, g) == {r \in There(mem) : Hits(mem, r, g) > 0}

NotBegun == building = NoBuild /\ touched = {} /\ ~lost /\ ~gone
NotAsked ==
  /\ building.pc = "searching" /\ building.queries = PrefetchQueries(goal)
  /\ building.found = <<>> /\ building.items = <<>>
Asked ==
  /\ building.pc \in {"searching", "resolving", "built"}
  /\ building.pc # "resolving" => building.items = <<>>
  /\ OneWord(goal, building.queries)
  /\ ~lost /\ ~gone => Complete(memory, goal, touched, Ids(building.found) \cup Coming(building.items))
  /\ ~lost /\ touched = {} =>
       /\ Orderly(Hit(memory, goal), building.found, building.items)
       /\ Ids(building.found) \cup Coming(building.items) \subseteq Matching(memory, goal)

ContextInv ==
  /\ ContextTypes
  /\ NotBegun \/ NotAsked \/ Asked
  /\ Once(building.found)
  /\ building.pc = "built" /\ building.named # {} => building.sources # {}
-----------------------------------------------------------------------------
(* A record that is found again keeps its place; another goes to the end.  *)
LEMMA PutIs ==
  ASSUME NEW found \in Seq(Entries), Once(found), NEW e \in Entries
  PROVE  /\ Put(found, e) \in Seq(Entries) /\ Once(Put(found, e))
         /\ Ids(Put(found, e)) = Ids(found) \cup {e.id}
         /\ \/ /\ e.id \in Ids(found) /\ Len(Put(found, e)) = Len(found)
               /\ \A i \in 1 .. Len(found) : Put(found, e)[i].id = found[i].id
            \/ /\ e.id \notin Ids(found) /\ Len(Put(found, e)) = Len(found) + 1
               /\ Put(found, e)[Len(found) + 1].id = e.id
               /\ \A i \in 1 .. Len(found) : Put(found, e)[i].id = found[i].id
<1> DEFINE n == Len(found)
<1>1. n \in Nat /\ DOMAIN found = 1 .. n /\ \A i \in 1 .. n : found[i] \in Entries
  BY LenProperties, ElementOfSeq
<1>2. CASE \E i \in 1 .. n : found[i].id = e.id
  <2> DEFINE p == [i \in 1 .. n |-> IF found[i].id = e.id THEN e ELSE found[i]]
  <2>1. Put(found, e) = p
    BY <1>1, <1>2 DEF Put
  <2>2. \A i \in 1 .. n : p[i] \in Entries /\ p[i].id = found[i].id
    BY <1>1
  <2>3. p \in Seq(Entries) /\ Len(p) = n
    <3>1. p \in [1 .. n -> Entries]
      BY <1>1
    <3> HIDE DEF p
    <3>2. QED BY <1>1, <3>1
  <2> HIDE DEF p
  <2>4. Once(p) /\ Ids(p) = Ids(found)
    BY <2>2, <2>3 DEF Once, Ids
  <2>5. e.id \in Ids(found)
    BY <1>2 DEF Ids
  <2>6. QED BY <2>1, <2>2, <2>3, <2>4, <2>5
<1>3. CASE ~ \E i \in 1 .. n : found[i].id = e.id
  <2> DEFINE p == Append(found, e)
  <2>1. Put(found, e) = p
    BY <1>1, <1>3 DEF Put
  <2>2. /\ p \in Seq(Entries) /\ Len(p) = n + 1 /\ p[n + 1] = e
        /\ \A i \in 1 .. n : p[i] = found[i]
    BY <1>1
  <2> HIDE DEF p
  <2>3. \A i \in 1 .. n + 1 : i \in 1 .. n \/ i = n + 1
    BY <1>1
  <2>4. Once(p)
    BY <1>1, <1>3, <2>2, <2>3 DEF Once
  <2>5. Ids(p) = Ids(found) \cup {e.id}
    <3>1. 1 .. n + 1 = (1 .. n) \cup {n + 1}
      BY <1>1
    <3>2. QED BY <2>2, <3>1 DEF Ids
  <2>6. e.id \notin Ids(found)
    BY <1>3 DEF Ids
  <2>7. QED BY <2>1, <2>2, <2>4, <2>5, <2>6
<1>4. QED BY <1>2, <1>3

(* What is found and to come are finitely many.                            *)
LEMMA HeardIsFinite ==
  ASSUME NEW found \in Seq(Entries), NEW items \in Seq(RecordIds)
  PROVE  /\ IsFiniteSet(Ids(found) \cup Coming(items))
         /\ Cardinality(Ids(found) \cup Coming(items)) \in Nat
         /\ IsFiniteSet(Ids(found)) /\ Cardinality(Ids(found)) <= Len(found)
         /\ Cardinality(Ids(found)) \in Nat
<1> DEFINE f == [i \in 1 .. Len(found) |-> found[i].id]
<1>1. Len(found) \in Nat /\ \A i \in 1 .. Len(found) : found[i] \in Entries
  BY LenProperties, ElementOfSeq
<1>2. Len(items) \in Nat /\ items \in [1 .. Len(items) -> RecordIds]
  BY LenProperties, SeqDef
<1>3. IsFiniteSet(Coming(items))
  <2>1. IsFiniteSet(ValuesOf(items, Len(items)))
    BY <1>2, Values
  <2>2. QED BY <2>1 DEF Coming, ValuesOf
<1>4. Ids(found) = ValuesOf(f, Len(found))
  BY DEF Ids, ValuesOf
<1>5. f \in [1 .. Len(found) -> RecordIds]
  BY <1>1 DEF Entries
<1> HIDE DEF f
<1>6. IsFiniteSet(Ids(found)) /\ Cardinality(Ids(found)) <= Len(found) /\ Cardinality(Ids(found)) \in Nat
  <2>1. Len(found) \in Nat
    BY <1>1
  <2>2. QED BY <1>4, <1>5, <2>1, Values
<1>7. IsFiniteSet(Ids(found) \cup Coming(items))
  BY <1>3, <1>6, FS_Union
<1>8. QED BY <1>6, <1>7, FS_CardinalityType

(* More records are as complete.                                           *)
LEMMA StaysComplete ==
  ASSUME NEW mem, NEW g, NEW T, NEW H, NEW G, Complete(mem, g, T, H), H \subseteq G,
         IsFiniteSet(G)
  PROVE  Complete(mem, g, T, G)
<1>1. Cardinality(H) <= Cardinality(G) /\ IsFiniteSet(H)
  BY FS_Subset
<1>2. Cardinality(H) \in Nat /\ Cardinality(G) \in Nat /\ ContextLimit \in Nat
  BY <1>1, FS_CardinalityType, ContextBounds
<1>3. QED BY <1>1, <1>2 DEF Complete

(* The goal's search.                                                      *)
LEMMA FirstIsComplete ==
  ASSUME NEW mem \in Memories, Dated(mem), NEW g \in Seq(Words), NEW T
  PROVE  /\ Hit(mem, g) \in Seq(RecordIds)
         /\ Complete(mem, g, T, Coming(Hit(mem, g)))
         /\ Coming(Hit(mem, g)) \subseteq Matching(mem, g)
<1> DEFINE M == Hit(mem, g)
<1>1. Finds(mem, g, M)
  BY HitFinds
<1> HIDE DEF M
<1>2. /\ M \in Seq(There(mem))
      /\ \A i \in 1 .. Len(M) : Hits(mem, M[i], g) > 0
      /\ \A i, j \in 1 .. Len(M) : M[i] = M[j] => i = j
      /\ \A r \in There(mem) : Hits(mem, r, g) > 0 /\ Len(M) # ContextLimit => \E i \in 1 .. Len(M) : M[i] = r
  BY <1>1 DEF Finds
<1>3. Len(M) \in Nat /\ M \in [1 .. Len(M) -> There(mem)]
  BY <1>2, LenProperties, SeqDef
<1>4. Cardinality(Coming(M)) = Len(M)
  <2>1. Cardinality(ValuesOf(M, Len(M))) = Len(M)
    BY <1>2, <1>3, Values
  <2>2. QED BY <2>1 DEF Coming, ValuesOf
<1>5. ContextLimit \in Nat
  BY ContextBounds
<1>6. Complete(mem, g, T, Coming(M))
  <2>1. CASE Len(M) = ContextLimit
    BY <1>4, <1>5, <2>1 DEF Complete
  <2>2. CASE Len(M) # ContextLimit
    BY <1>2, <2>2 DEF Complete, Coming
  <2>3. QED BY <2>1, <2>2
<1>7. Coming(M) \subseteq Matching(mem, g)
  BY <1>2, <1>3 DEF Coming, Matching
<1>8. M \in Seq(RecordIds)
  BY <1>3 DEF There
<1>9. QED BY <1>6, <1>7, <1>8 DEF M

(* What the search for a word of the goal finds matches the goal.          *)
LEMMA WordMatches ==
  ASSUME NEW mem \in Memories, Dated(mem), NEW g \in Seq(Words), NEW w \in Words,
         \E j \in 1 .. Len(g) : g[j] = w
  PROVE  Hit(mem, <<w>>) \in Seq(RecordIds) /\ Coming(Hit(mem, <<w>>)) \subseteq Matching(mem, g)
<1>1. <<w>> \in Seq(Words)
  OBVIOUS
<1>2. Hit(mem, <<w>>) \in Seq(RecordIds) /\ Coming(Hit(mem, <<w>>)) \subseteq Matching(mem, <<w>>)
  BY <1>1, FirstIsComplete
<1>3. \A r : Hits(mem, r, <<w>>) > 0 => Hits(mem, r, g) > 0
  <2> SUFFICES ASSUME NEW r, Hits(mem, r, <<w>>) > 0 PROVE Hits(mem, r, g) > 0
    OBVIOUS
  <2>1. PICK i \in DOMAIN <<w>> : <<w>>[i] \in mem[r].words
    BY <1>1, HitsAreNumbers
  <2>2. w \in mem[r].words
    BY <2>1
  <2>3. \E j \in DOMAIN g : g[j] \in mem[r].words
    BY <2>2, LenProperties
  <2>4. QED BY <2>3, HitsAreNumbers
<1>4. QED BY <1>2, <1>3 DEF Matching
-----------------------------------------------------------------------------
LEMMA ContextStarts == ContextInit => ContextInv
<1> SUFFICES ASSUME ContextInit PROVE ContextInv
  OBVIOUS
<1> USE DEF ContextInit
<1>1. memory \in Memories /\ changes \in Nat /\ \A r \in RecordIds : memory[r].at <= changes
  BY DEF NoRecord, Memories
<1>2. Dated(memory)
  <2>1. There(memory) = {}
    BY DEF There, NoRecord
  <2>2. QED BY <2>1, FS_EmptySet DEF Dated
<1>3. goal \in Seq(Words)
  <2>1. PICK n \in 1 .. GoalLength : goal \in [1 .. n -> Words]
    OBVIOUS
  <2>2. n \in Nat
    BY ContextBounds
  <2>3. QED BY <2>1, <2>2
<1>4. building \in Builds
  BY DEF NoBuild, Builds
<1>5. Once(building.found)
  BY DEF NoBuild, Once
<1>6. building.pc = "built" /\ building.named # {} => building.sources # {}
  BY DEF NoBuild
<1>7. QED BY <1>1, <1>2, <1>3, <1>4, <1>5, <1>6 DEF ContextInv, ContextTypes, NotBegun

(* What a change of a record leaves true of the others.                    *)
LEMMA ChangedMemory ==
  ASSUME NEW mem \in Memories, Dated(mem), NEW c \in Nat, \A s \in RecordIds : mem[s].at <= c,
         NEW r \in RecordIds, NEW e \in [words : SUBSET Words, at : Nat], e.at \in {0, c + 1}
  PROVE  LET new == [mem EXCEPT ![r] = e]
         IN  /\ new \in Memories /\ Dated(new) /\ \A s \in RecordIds : new[s].at <= c + 1
             /\ \A g, T, H : Complete(mem, g, T, H) => Complete(new, g, T \cup {r}, H)
<1> DEFINE new == [mem EXCEPT ![r] = e]
<1>1. new \in Memories
  BY DEF Memories
<1>2. new[r] = e /\ \A s \in RecordIds : s # r => new[s] = mem[s]
  BY DEF Memories
<1>3. \A s \in RecordIds : mem[s].at \in Nat
  BY DEF Memories
<1>4. e.at \in Nat
  OBVIOUS
<1> HIDE DEF new
<1>5. \A s \in RecordIds : new[s].at <= c + 1
  BY <1>2, <1>3, <1>4
<1>6. There(new) \subseteq There(mem) \cup {r}
  BY <1>2 DEF There
<1>7. IsFiniteSet(There(new))
  <2>1. IsFiniteSet(There(mem) \cup {r})
    BY FS_AddElement DEF Dated
  <2>2. QED BY <1>6, <2>1, FS_Subset
<1>8. \A s, t \in There(new) : new[s].at = new[t].at => s = t
  <2> SUFFICES ASSUME NEW s \in There(new), NEW t \in There(new), new[s].at = new[t].at, s # t PROVE FALSE
    OBVIOUS
  <2>1. s \in RecordIds /\ t \in RecordIds /\ new[s].at > 0 /\ new[t].at > 0
    BY DEF There
  <2>2. s # r /\ t # r
    BY <1>2, <1>3, <1>4, <2>1
  <2>3. s \in There(mem) /\ t \in There(mem) /\ mem[s].at = mem[t].at
    BY <1>2, <2>1, <2>2 DEF There
  <2>4. QED BY <2>3 DEF Dated
<1>9. \A g, T, H : Complete(mem, g, T, H) => Complete(new, g, T \cup {r}, H)
  <2> TAKE g, T, H
  <2>1. ASSUME NEW s \in There(new) \ (T \cup {r})
        PROVE  s \in There(mem) \ T /\ Hits(new, s, g) = Hits(mem, s, g)
    <3>1. s \in RecordIds /\ s # r /\ s \notin T /\ new[s].at > 0
      BY DEF There
    <3>2. new[s] = mem[s]
      BY <1>2, <3>1
    <3>3. QED BY <3>1, <3>2 DEF There, Hits
  <2>2. QED BY <2>1 DEF Complete
<1>10. QED BY <1>1, <1>5, <1>7, <1>8, <1>9 DEF Dated, new

(* A change or a deletion of a record by another.                          *)
LEMMA ChangeKeepsContext ==
  ASSUME ContextInv, NEW r \in RecordIds, NEW e \in [words : SUBSET Words, at : Nat],
         e.at \in {0, changes + 1}, changes' = changes + 1, memory' = [memory EXCEPT ![r] = e],
         touched' = IF building.pc = "new" THEN touched ELSE touched \cup {r},
         UNCHANGED <<goal, building, lost, gone>>
  PROVE  ContextInv'
<1>1. ContextTypes
  BY DEF ContextInv
<1>2. memory \in Memories /\ Dated(memory) /\ changes \in Nat /\ \A s \in RecordIds : memory[s].at <= changes
  BY <1>1 DEF ContextTypes
<1>3. /\ memory' \in Memories /\ Dated(memory') /\ \A s \in RecordIds : memory'[s].at <= changes'
      /\ \A g, T, H : Complete(memory, g, T, H) => Complete(memory', g, T \cup {r}, H)
  <2> DEFINE new == [memory EXCEPT ![r] = e]
  <2>1. /\ new \in Memories /\ Dated(new) /\ \A s \in RecordIds : new[s].at <= changes + 1
        /\ \A g, T, H : Complete(memory, g, T, H) => Complete(new, g, T \cup {r}, H)
    BY <1>2, ChangedMemory
  <2>2. QED BY <2>1
<1>4. ContextTypes'
  BY <1>1, <1>2, <1>3 DEF ContextTypes
<1>5. (NotBegun \/ NotAsked \/ Asked)'
  <2>1. CASE NotBegun
    BY <2>1 DEF NotBegun, NoBuild
  <2>2. CASE NotAsked
    BY <2>2 DEF NotAsked
  <2>3. CASE Asked
    <3>1. touched' = touched \cup {r}
      BY <2>3 DEF Asked
    <3>2. touched' # {}
      BY <3>1
    <3>3. ~lost /\ ~gone => Complete(memory', goal, touched', Ids(building.found) \cup Coming(building.items))
      <4> DEFINE H == Ids(building.found) \cup Coming(building.items)
      <4>1. ~lost /\ ~gone => Complete(memory, goal, touched, H)
        BY <2>3 DEF Asked
      <4> HIDE DEF H
      <4>2. Complete(memory, goal, touched, H) => Complete(memory', goal, touched \cup {r}, H)
        BY <1>3
      <4>3. QED BY <3>1, <4>1, <4>2 DEF H
    <3>4. Asked'
      BY <2>3, <3>2, <3>3 DEF Asked
    <3>5. QED BY <3>4
  <2>4. QED BY <2>1, <2>2, <2>3 DEF ContextInv
<1>6. QED BY <1>4, <1>5 DEF ContextInv

LEMMA StartKeepsContext ==
  ASSUME ContextInv, Start_Build
  PROVE  ContextInv'
<1>1. /\ building' = [NoBuild EXCEPT !.pc = "searching", !.queries = PrefetchQueries(goal)]
      /\ UNCHANGED <<memory, changes, goal, touched, lost, gone>>
  BY DEF Start_Build
<1>2. goal \in Seq(Words)
  BY DEF ContextInv, ContextTypes
<1>3. PrefetchQueries(goal) \in Seq(Seq(Words))
  BY <1>2, PrefetchAsks
<1>4. /\ building'.pc = "searching" /\ building'.queries = PrefetchQueries(goal)
      /\ building'.found = <<>> /\ building'.items = <<>>
  BY <1>1 DEF NoBuild
<1>5. building' \in Builds
  <2>1. building' = [pc |-> "searching", queries |-> PrefetchQueries(goal), items |-> <<>>, found |-> <<>>,
                     named |-> {}, sources |-> {}]
    BY <1>1 DEF NoBuild
  <2>2. <<>> \in Seq(RecordIds) /\ <<>> \in Seq(Entries)
    OBVIOUS
  <2>3. QED BY <1>3, <2>1, <2>2 DEF Builds
<1>6. ContextTypes'
  BY <1>1, <1>5 DEF ContextInv, ContextTypes
<1>7. NotAsked'
  BY <1>1, <1>4 DEF NotAsked
<1>8. Once(building'.found)
  BY <1>4 DEF Once
<1>9. QED BY <1>4, <1>6, <1>7, <1>8 DEF ContextInv

LEMMA OneWordTail ==
  ASSUME NEW g, NEW qs \in Seq(Seq(Words)), qs # <<>>, OneWord(g, qs)
  PROVE  /\ OneWord(g, Tail(qs))
         /\ \E w \in Words : Head(qs) = <<w>> /\ \E j \in 1 .. Len(g) : g[j] = w
<1>1. Len(qs) \in Nat /\ Len(qs) > 0 /\ Head(qs) = qs[1]
  BY EmptySeq, LenProperties
<1>2. Len(Tail(qs)) = Len(qs) - 1 /\ \A i \in 1 .. Len(qs) - 1 : Tail(qs)[i] = qs[i + 1]
  BY <1>1
<1>3. \A i \in 1 .. Len(qs) - 1 : i + 1 \in 1 .. Len(qs)
  BY <1>1
<1>4. 1 \in 1 .. Len(qs)
  BY <1>1
<1>5. OneWord(g, Tail(qs))
  <2> SUFFICES ASSUME NEW i \in 1 .. Len(qs) - 1
               PROVE  \E w \in Words : Tail(qs)[i] = <<w>> /\ \E j \in 1 .. Len(g) : g[j] = w
    BY <1>2 DEF OneWord
  <2>1. i + 1 \in 1 .. Len(qs) /\ Tail(qs)[i] = qs[i + 1]
    BY <1>2, <1>3
  <2>2. QED BY <2>1 DEF OneWord
<1>6. \E w \in Words : qs[1] = <<w>> /\ \E j \in 1 .. Len(g) : g[j] = w
  BY <1>4 DEF OneWord
<1>7. QED BY <1>1, <1>5, <1>6

LEMMA SearchKeepsContext ==
  ASSUME ContextInv, SearchNext
  PROVE  ContextInv'
<1> DEFINE qs == building.queries
           M == Hit(memory, goal)
<1>1. /\ building.pc = "searching" /\ qs # <<>>
      /\ UNCHANGED <<memory, changes, goal, touched, gone>>
  BY DEF SearchNext
<1>2. /\ memory \in Memories /\ Dated(memory) /\ goal \in Seq(Words) /\ building \in Builds
      /\ qs \in Seq(Seq(Words)) /\ building.found \in Seq(Entries)
  BY DEF ContextInv, ContextTypes, Builds
<1>3. Tail(qs) \in Seq(Seq(Words))
  BY <1>1, <1>2
<1>4. NotAsked \/ (Asked /\ building.items = <<>>)
  BY <1>1 DEF ContextInv, NotBegun, NoBuild, Asked
<1>5. OneWord(goal, Tail(qs))
  <2>1. CASE NotAsked
    BY <1>2, <2>1, PrefetchAsks DEF NotAsked
  <2>2. CASE Asked
    BY <1>1, <1>2, <2>2, OneWordTail DEF Asked
  <2>3. QED BY <1>4, <2>1, <2>2
<1>6. CASE /\ building' = [building EXCEPT !.queries = Tail(@)]
           /\ lost' = TRUE
  <2>1. /\ building'.pc = "searching" /\ building'.queries = Tail(qs)
        /\ building'.found = building.found /\ building'.items = building.items
    BY <1>1, <1>2, <1>6 DEF Builds
  <2>2. building' \in Builds
    BY <1>2, <1>3, <1>6 DEF Builds
  <2>3. building.items = <<>>
    BY <1>4 DEF NotAsked
  <2>4. Asked'
    BY <1>1, <1>5, <1>6, <2>1, <2>3 DEF Asked
  <2>5. ContextTypes'
    BY <1>1, <2>2 DEF ContextInv, ContextTypes
  <2>6. QED BY <2>1, <2>4, <2>5 DEF ContextInv
<1>7. CASE /\ building' = [building EXCEPT !.pc = "resolving", !.queries = Tail(@),
                             !.items = Matched(Head(building.queries))]
           /\ UNCHANGED lost
  <2> DEFINE new == Hit(memory, Head(qs))
  <2>1. Matched(Head(building.queries)) = new
    BY SearchIs
  <2>2. new \in Seq(RecordIds) /\ Coming(new) \subseteq Matching(memory, goal)
    <3>1. CASE NotAsked
      <4>1. Head(qs) = goal
        BY <1>2, <3>1, PrefetchAsks DEF NotAsked
      <4>2. QED BY <1>2, <4>1, FirstIsComplete
    <3>2. CASE Asked
      <4>1. PICK w \in Words : Head(qs) = <<w>> /\ \E j \in 1 .. Len(goal) : goal[j] = w
        BY <1>1, <1>2, <3>2, OneWordTail DEF Asked
      <4>2. \E j \in 1 .. Len(goal) : goal[j] = w
        BY <4>1
      <4>3. Hit(memory, <<w>>) \in Seq(RecordIds) /\ Coming(Hit(memory, <<w>>)) \subseteq Matching(memory, goal)
        BY <1>2, <4>2, WordMatches
      <4>4. QED BY <4>1, <4>3
    <3>3. QED BY <1>4, <3>1, <3>2
  <2> HIDE DEF new
  <2>3. /\ building'.pc = "resolving" /\ building'.queries = Tail(qs)
        /\ building'.found = building.found /\ building'.items = new
    BY <1>1, <1>2, <1>7, <2>1 DEF Builds
  <2>4. building' \in Builds
    BY <1>2, <1>3, <1>7, <2>1, <2>2 DEF Builds
  <2>5. ContextTypes'
    BY <1>1, <2>4 DEF ContextInv, ContextTypes
  <2>6. ~lost /\ ~gone => Complete(memory, goal, touched, Ids(building.found) \cup Coming(new))
    <3>1. CASE NotAsked
      <4>1. new = Hit(memory, goal) /\ Ids(building.found) = {}
        BY <1>2, <3>1, PrefetchAsks DEF NotAsked, new, Ids
      <4>2. QED BY <1>2, <4>1, FirstIsComplete
    <3>2. CASE Asked /\ building.items = <<>>
      <4> SUFFICES ASSUME ~lost, ~gone PROVE Complete(memory, goal, touched, Ids(building.found) \cup Coming(new))
        OBVIOUS
      <4>1. Coming(building.items) = {}
        BY <3>2 DEF Coming
      <4>2. Complete(memory, goal, touched, Ids(building.found))
        BY <3>2, <4>1 DEF Asked
      <4>3. IsFiniteSet(Ids(building.found) \cup Coming(new))
        BY <1>2, <2>2, HeardIsFinite
      <4>4. QED BY <4>2, <4>3, StaysComplete
    <3>3. QED BY <1>4, <3>1, <3>2
  <2>7. ~lost /\ touched = {} =>
          /\ Orderly(M, building.found, new)
          /\ Ids(building.found) \cup Coming(new) \subseteq Matching(memory, goal)
    <3>1. CASE NotAsked
      <4>1. new = M /\ building.found = <<>>
        BY <1>2, <3>1, PrefetchAsks DEF NotAsked, new
      <4>2. M \in Seq(RecordIds)
        BY <2>2, <4>1
      <4> HIDE DEF M
      <4>3. Orderly(M, <<>>, M)
        BY <4>2 DEF Orderly
      <4>4. Ids(<<>>) = {}
        BY DEF Ids
      <4>5. QED BY <2>2, <4>1, <4>3, <4>4
    <3>2. CASE Asked /\ building.items = <<>>
      <4> SUFFICES ASSUME ~lost, touched = {}
                   PROVE  /\ Orderly(M, building.found, new)
                          /\ Ids(building.found) \cup Coming(new) \subseteq Matching(memory, goal)
        OBVIOUS
      <4>1. Orderly(M, building.found, <<>>) /\ Ids(building.found) \subseteq Matching(memory, goal)
        BY <3>2 DEF Asked
      <4>2. Len(building.found) \in Nat /\ Len(M) \in Nat
        <5>1. M \in Seq(RecordIds)
          BY <1>2, FirstIsComplete
        <5> HIDE DEF M
        <5>2. QED BY <1>2, <5>1
      <4> HIDE DEF M
      <4>3. Orderly(M, building.found, new)
        BY <4>1, <4>2 DEF Orderly
      <4>4. QED BY <2>2, <4>1, <4>3
    <3>3. QED BY <1>4, <3>1, <3>2
  <2>8. Asked'
    BY <1>1, <1>5, <1>7, <2>3, <2>6, <2>7 DEF Asked
  <2>9. QED BY <2>3, <2>5, <2>8 DEF ContextInv
<1>8. QED BY <1>6, <1>7 DEF SearchNext
LEMMA ComingNext ==
  ASSUME NEW items \in Seq(RecordIds), items # <<>>
  PROVE  /\ Head(items) \in RecordIds /\ Tail(items) \in Seq(RecordIds)
         /\ Coming(items) = {Head(items)} \cup Coming(Tail(items))
<1>1. Len(items) \in Nat /\ Len(items) > 0 /\ Head(items) = items[1]
  BY EmptySeq, LenProperties
<1>2. /\ Tail(items) \in Seq(RecordIds)
      /\ Len(Tail(items)) = Len(items) - 1 /\ \A i \in 1 .. Len(items) - 1 : Tail(items)[i] = items[i + 1]
  BY <1>1
<1>3. Head(items) \in RecordIds
  BY <1>1, ElementOfSeq
<1>4. \A i \in 1 .. Len(items) : i = 1 \/ (i - 1 \in 1 .. Len(items) - 1 /\ (i - 1) + 1 = i)
  BY <1>1
<1>5. \A i \in 1 .. Len(items) - 1 : i + 1 \in 1 .. Len(items)
  BY <1>1
<1>6. 1 \in 1 .. Len(items)
  BY <1>1
<1>7. Coming(items) \subseteq {Head(items)} \cup Coming(Tail(items))
  <2> SUFFICES ASSUME NEW i \in 1 .. Len(items) PROVE items[i] \in {Head(items)} \cup Coming(Tail(items))
    BY DEF Coming
  <2>1. CASE i = 1
    BY <1>1, <2>1
  <2>2. CASE i # 1
    <3>1. i - 1 \in 1 .. Len(Tail(items)) /\ Tail(items)[i - 1] = items[i]
      BY <1>1, <1>2, <1>4, <2>2
    <3>2. QED BY <3>1 DEF Coming
  <2>3. QED BY <2>1, <2>2
<1>8. {Head(items)} \cup Coming(Tail(items)) \subseteq Coming(items)
  BY <1>1, <1>2, <1>5, <1>6 DEF Coming
<1>9. QED BY <1>2, <1>3, <1>7, <1>8

(* The next of the goal's records goes to the end, a later one after them. *)
LEMMA OrderKept ==
  ASSUME NEW M \in Seq(RecordIds), \A i, j \in 1 .. Len(M) : M[i] = M[j] => i = j,
         NEW found \in Seq(Entries), Once(found),
         NEW items \in Seq(RecordIds), items # <<>>, Orderly(M, found, items),
         NEW e \in Entries, e.id = Head(items)
  PROVE  Orderly(M, Put(found, e), Tail(items))
<1> DEFINE p == Put(found, e)
           f == Len(found)
           m == Len(M)
<1>1. f \in Nat /\ m \in Nat /\ Len(items) \in Nat /\ Len(items) > 0 /\ Head(items) = items[1]
  BY EmptySeq, LenProperties
<1>2. /\ Tail(items) \in Seq(RecordIds)
      /\ Len(Tail(items)) = Len(items) - 1 /\ \A i \in 1 .. Len(items) - 1 : Tail(items)[i] = items[i + 1]
  BY <1>1
<1>3. \/ /\ e.id \in Ids(found) /\ Len(p) = f
         /\ \A i \in 1 .. f : p[i].id = found[i].id
      \/ /\ e.id \notin Ids(found) /\ Len(p) = f + 1
         /\ p[f + 1].id = e.id
         /\ \A i \in 1 .. f : p[i].id = found[i].id
  BY PutIs
<1> HIDE DEF p, f, m
<1>4. /\ \A i \in 1 .. f : i <= m => found[i].id = M[i]
      /\ f < m => /\ Len(items) = m - f
                  /\ \A j \in 1 .. Len(items) : items[j] = M[f + j]
  BY DEF Orderly, f, m
<1>5. CASE f < m
  <2>1. e.id = M[f + 1] /\ f + 1 \in 1 .. m
    <3>1. Len(items) = m - f /\ items[1] = M[f + 1]
      <4>1. 1 \in 1 .. Len(items)
        BY <1>1
      <4>2. QED BY <1>4, <1>5, <4>1
    <3>2. f + 1 \in 1 .. m
      BY <1>1, <1>5
    <3>3. QED BY <1>1, <3>1, <3>2
  <2>2. \A i \in 1 .. f : i \in 1 .. m /\ i # f + 1
    BY <1>1, <1>5
  <2>3. \A i \in 1 .. f : found[i].id # e.id
    BY <1>4, <2>1, <2>2 DEF m
  <2>4. e.id \notin Ids(found)
    BY <2>3 DEF Ids, f
  <2>5. /\ Len(p) = f + 1 /\ p[f + 1].id = e.id
        /\ \A i \in 1 .. f : p[i].id = found[i].id
    BY <1>3, <2>4
  <2>6. \A i \in 1 .. f + 1 : i \in 1 .. f \/ i = f + 1
    BY <1>1
  <2>7. \A i \in 1 .. Len(p) : p[i].id = M[i]
    BY <1>4, <2>1, <2>2, <2>5, <2>6
  <2>8. Len(Tail(items)) = m - Len(p)
    BY <1>1, <1>2, <1>4, <1>5, <2>5
  <2>9. \A j \in 1 .. Len(Tail(items)) : Tail(items)[j] = M[Len(p) + j]
    <3> TAKE j \in 1 .. Len(Tail(items))
    <3>1. j \in 1 .. Len(items) - 1 /\ j + 1 \in 1 .. Len(items) /\ f + (j + 1) = (f + 1) + j
      BY <1>1, <1>2
    <3>2. Tail(items)[j] = items[j + 1] /\ items[j + 1] = M[f + (j + 1)]
      BY <1>2, <1>4, <1>5, <3>1
    <3>3. QED BY <2>5, <3>1, <3>2
  <2>10. QED BY <2>7, <2>8, <2>9 DEF Orderly, p, m
<1>6. CASE ~ (f < m)
  <2>1. \A i \in 1 .. Len(p) : i <= m => i \in 1 .. f
    BY <1>1, <1>3, <1>6
  <2>2. \A i \in 1 .. Len(p) : i <= m => p[i].id = M[i]
    BY <1>3, <1>4, <2>1
  <2>3. ~ (Len(p) < m)
    BY <1>1, <1>3, <1>6
  <2>4. QED BY <2>2, <2>3 DEF Orderly, p, m
<1>7. QED BY <1>5, <1>6

LEMMA ResolveKeepsContext ==
  ASSUME ContextInv, ResolveNext
  PROVE  ContextInv'
<1> DEFINE items == building.items
           found == building.found
           r == Head(items)
           e == [id |-> r, words |-> memory[r].words]
           M == Hit(memory, goal)
<1>1. building.pc = "resolving" /\ UNCHANGED <<memory, changes, goal, touched, lost>>
  BY DEF ResolveNext
<1>2. /\ memory \in Memories /\ Dated(memory) /\ goal \in Seq(Words) /\ building \in Builds
      /\ items \in Seq(RecordIds) /\ found \in Seq(Entries)
  BY DEF ContextInv, ContextTypes, Builds
<1>3. Asked /\ Once(found)
  BY <1>1 DEF ContextInv, NotBegun, NoBuild, NotAsked
<1>4. CASE items = <<>>
  <2>1. building' = [building EXCEPT !.pc = "searching"] /\ UNCHANGED gone
    BY <1>4 DEF ResolveNext
  <2>2. /\ building'.pc = "searching" /\ building'.queries = building.queries
        /\ building'.found = found /\ building'.items = items
    BY <1>2, <2>1 DEF Builds
  <2>3. building' \in Builds
    BY <1>2, <2>1 DEF Builds
  <2>4. ContextTypes'
    BY <1>1, <2>3 DEF ContextInv, ContextTypes
  <2>5. Asked'
    BY <1>1, <1>3, <1>4, <2>1, <2>2 DEF Asked
  <2>6. QED BY <1>3, <2>2, <2>4, <2>5 DEF ContextInv
<1>5. CASE items # <<>>
  <2>1. /\ building' = [building EXCEPT !.items = Tail(@),
                          !.found = IF r \in Present THEN Put(@, e) ELSE @]
        /\ gone' = (gone \/ r \notin Present)
    BY <1>5 DEF ResolveNext
  <2>2. /\ r \in RecordIds /\ Tail(items) \in Seq(RecordIds)
        /\ Coming(items) = {r} \cup Coming(Tail(items))
    BY <1>2, <1>5, ComingNext
  <2>3. e \in Entries /\ e.id = r
    BY <1>2, <2>2 DEF Entries, Memories
  <2>4. Put(found, e) \in Seq(Entries) /\ Once(Put(found, e)) /\ Ids(Put(found, e)) = Ids(found) \cup {r}
    <3>1. Put(found, e) \in Seq(Entries) /\ Once(Put(found, e)) /\ Ids(Put(found, e)) = Ids(found) \cup {e.id}
      <4> HIDE DEF e, found
      <4>1. QED BY <1>2, <1>3, <2>3, PutIs
    <3>2. QED BY <2>3, <3>1
  <2>5. ~lost /\ touched = {} =>
          /\ Orderly(M, found, items)
          /\ Ids(found) \cup Coming(items) \subseteq Matching(memory, goal)
    BY <1>3 DEF Asked
  <2>6. ~lost /\ ~gone => Complete(memory, goal, touched, Ids(found) \cup Coming(items))
    BY <1>3 DEF Asked
  <2> HIDE DEF e
  <2>7. CASE r \in Present
    <3>1. building' = [building EXCEPT !.items = Tail(@), !.found = Put(found, e)] /\ (~gone' => ~gone)
      BY <2>1, <2>7
    <3>2. /\ building'.pc = "resolving" /\ building'.queries = building.queries
          /\ building'.found = Put(found, e) /\ building'.items = Tail(items)
      BY <1>1, <1>2, <3>1 DEF Builds
    <3>3. building' \in Builds
      BY <1>2, <2>2, <2>4, <3>1 DEF Builds
    <3>4. ContextTypes'
      BY <1>1, <3>3 DEF ContextInv, ContextTypes
    <3>5. Ids(Put(found, e)) \cup Coming(Tail(items)) = Ids(found) \cup Coming(items)
      BY <2>2, <2>4
    <3>6. ~lost /\ touched = {} => Orderly(M, Put(found, e), Tail(items))
      <4> SUFFICES ASSUME ~lost, touched = {} PROVE Orderly(M, Put(found, e), Tail(items))
        OBVIOUS
      <4>1. M \in Seq(RecordIds)
        BY <1>2, FirstIsComplete
      <4>2. \A i, j \in 1 .. Len(M) : M[i] = M[j] => i = j
        <5>1. Finds(memory, goal, M)
          BY <1>2, HitFinds
        <5> HIDE DEF M
        <5>2. QED BY <5>1 DEF Finds
      <4>3. Orderly(M, found, items)
        BY <2>5
      <4>4. e.id = Head(items) /\ e \in Entries
        BY <2>3
      <4> HIDE DEF M, found, items
      <4>5. QED BY <1>2, <1>3, <1>5, <4>1, <4>2, <4>3, <4>4, OrderKept
    <3> HIDE DEF M
    <3>7. Asked'
      <4>1. ~lost' /\ ~gone' => Complete(memory, goal, touched, Ids(building'.found) \cup Coming(building'.items))
        BY <1>1, <2>6, <3>1, <3>2, <3>5
      <4>2. ~lost' /\ touched' = {} =>
              /\ Orderly(Hit(memory, goal), building'.found, building'.items)
              /\ Ids(building'.found) \cup Coming(building'.items) \subseteq Matching(memory, goal)
        BY <1>1, <2>5, <3>2, <3>5, <3>6 DEF M
      <4>3. QED BY <1>1, <1>3, <3>2, <4>1, <4>2 DEF Asked
    <3>8. QED BY <2>4, <3>2, <3>4, <3>7 DEF ContextInv
  <2>8. CASE r \notin Present
    <3>1. building' = [building EXCEPT !.items = Tail(@), !.found = found] /\ gone'
      BY <2>1, <2>8
    <3>2. /\ building'.pc = "resolving" /\ building'.queries = building.queries
          /\ building'.found = found /\ building'.items = Tail(items)
      BY <1>1, <1>2, <3>1 DEF Builds
    <3>3. building' \in Builds
      BY <1>2, <2>2, <3>1 DEF Builds
    <3>4. ContextTypes'
      BY <1>1, <3>3 DEF ContextInv, ContextTypes
    <3>5. ~ (~lost /\ touched = {})
      <4>1. Present = There(memory)
        BY SearchIs
      <4>2. QED BY <2>2, <2>5, <2>8, <4>1 DEF Matching
    <3>6. Asked'
      BY <1>1, <1>3, <3>1, <3>2, <3>5 DEF Asked
    <3>7. QED BY <1>3, <3>2, <3>4, <3>6 DEF ContextInv
  <2>9. QED BY <2>7, <2>8
<1>6. QED BY <1>4, <1>5

LEMMA FinishKeepsContext ==
  ASSUME ContextInv, Finish_Build
  PROVE  ContextInv'
<1>1. /\ building.pc = "searching" /\ building.queries = <<>>
      /\ UNCHANGED <<memory, changes, goal, touched, lost, gone>>
  BY DEF Finish_Build
<1>2. PICK named \in SUBSET Clients : \E evaluated \in SUBSET named :
       building' = [building EXCEPT !.pc = "built", !.named = named,
                      !.sources = OrganizationalSources(named, evaluated)]
  BY DEF Finish_Build
<1>3. PICK evaluated \in SUBSET named :
       building' = [building EXCEPT !.pc = "built", !.named = named,
                      !.sources = OrganizationalSources(named, evaluated)]
  BY <1>2
<1>4. /\ OrganizationalSources(named, evaluated) \in SUBSET Clients
      /\ named # {} => OrganizationalSources(named, evaluated) # {}
  BY DEF OrganizationalSources
<1>5. building \in Builds /\ goal \in Seq(Words)
  BY DEF ContextInv, ContextTypes
<1>6. /\ building'.pc = "built" /\ building'.queries = building.queries
      /\ building'.found = building.found /\ building'.items = building.items
      /\ building'.named = named /\ building'.sources = OrganizationalSources(named, evaluated)
  BY <1>3, <1>5 DEF Builds
<1>7. building' \in Builds
  BY <1>3, <1>4, <1>5 DEF Builds
<1>8. ContextTypes'
  BY <1>1, <1>7 DEF ContextInv, ContextTypes
<1>9. Asked
  BY <1>1, <1>5, PrefetchAsks DEF ContextInv, NotBegun, NoBuild, NotAsked
<1>10. Asked'
  BY <1>1, <1>6, <1>9 DEF Asked
<1>11. QED BY <1>4, <1>6, <1>8, <1>10 DEF ContextInv

LEMMA ContextKept == ContextInv /\ [ContextNext]_contextVars => ContextInv'
<1> SUFFICES ASSUME ContextInv, [ContextNext]_contextVars PROVE ContextInv'
  OBVIOUS
<1>1. changes \in Nat
  BY DEF ContextInv, ContextTypes
<1>2. ASSUME NEW r \in RecordIds, Change(r) PROVE ContextInv'
  <2>1. PICK ws \in SUBSET Words : memory' = [memory EXCEPT ![r] = [words |-> ws, at |-> changes + 1]]
    BY <1>2 DEF Change
  <2> DEFINE e == [words |-> ws, at |-> changes + 1]
  <2>2. e \in [words : SUBSET Words, at : Nat] /\ e.at \in {0, changes + 1} /\ memory' = [memory EXCEPT ![r] = e]
    BY <1>1, <2>1
  <2> HIDE DEF e
  <2>3. /\ changes' = changes + 1 /\ touched' = IF building.pc = "new" THEN touched ELSE touched \cup {r}
        /\ UNCHANGED <<goal, building, lost, gone>>
    BY <1>2 DEF Change
  <2>4. QED BY <2>2, <2>3, ChangeKeepsContext
<1>3. ASSUME NEW r \in RecordIds, Delete_Record(r) PROVE ContextInv'
  <2>1. NoRecord \in [words : SUBSET Words, at : Nat] /\ NoRecord.at \in {0, changes + 1}
    BY DEF NoRecord
  <2>2. /\ changes' = changes + 1 /\ touched' = IF building.pc = "new" THEN touched ELSE touched \cup {r}
        /\ UNCHANGED <<goal, building, lost, gone>> /\ memory' = [memory EXCEPT ![r] = NoRecord]
    BY <1>3 DEF Delete_Record
  <2>3. QED BY <2>1, <2>2, ChangeKeepsContext
<1>4. CASE UNCHANGED contextVars
  BY <1>4 DEF contextVars, ContextInv, ContextTypes, NotBegun, NotAsked, Asked
<1>5. QED BY <1>2, <1>3, <1>4, StartKeepsContext, SearchKeepsContext, ResolveKeepsContext, FinishKeepsContext
         DEF ContextNext

LEMMA ContextInvariant == ContextSpec => []ContextInv
BY ContextStarts, ContextKept, PTL DEF ContextSpec

-----------------------------------------------------------------------------
LEMMA GroundTruthHolds == ContextInv => ContextIsGroundTruth
<1> SUFFICES ASSUME ContextInv, building.pc = "built" PROVE ContextIsGroundTruth
  BY DEF ContextIsGroundTruth
<1> DEFINE found == building.found
           n == Len(found)
           M == Hit(memory, goal)
<1>1. /\ memory \in Memories /\ Dated(memory) /\ goal \in Seq(Words) /\ found \in Seq(Entries)
  BY DEF ContextInv, ContextTypes, Builds
<1>2. Asked /\ Once(found) /\ building.items = <<>> /\ (building.named # {} => building.sources # {})
  BY DEF ContextInv, NotBegun, NoBuild, NotAsked, Asked
<1>3. Coming(building.items) = {}
  BY <1>2 DEF Coming
<1>4. /\ ~lost /\ ~gone => Complete(memory, goal, touched, Ids(found))
      /\ ~lost /\ touched = {} => Orderly(M, found, <<>>) /\ Ids(found) \subseteq Matching(memory, goal)
  BY <1>2, <1>3 DEF Asked
<1>5. n \in Nat /\ found \in [1 .. n -> Entries]
  BY <1>1, LenProperties, SeqDef
<1>6. Finds(memory, goal, M)
  BY <1>1, HitFinds
<1>7. Present = There(memory) /\ \A r : Score(r, goal) = Hits(memory, r, goal)
  BY SearchIs
<1>8. \A r : Hits(memory, r, goal) \in Nat
  BY <1>1, HitsAreNumbers
<1>9. Cardinality(Ids(found)) <= n /\ Cardinality(Ids(found)) \in Nat
  <2>1. building.items \in Seq(RecordIds)
    BY DEF ContextInv, ContextTypes, Builds
  <2> HIDE DEF found
  <2>2. Cardinality(Ids(found)) <= Len(found) /\ Cardinality(Ids(found)) \in Nat
    BY <1>1, <2>1, HeardIsFinite
  <2>3. QED BY <2>2
<1> HIDE DEF found, n, M
<1>10. PICK l \in 0 .. n : /\ Limited(found) = [i \in 1 .. l |-> found[i]]
                           /\ l <= ContextLimit /\ (l = n \/ l = ContextLimit)
  BY <1>5, LimitedIs
<1>11. ContextLimit \in Nat
  BY ContextBounds
<1>12. /\ DOMAIN Block = 1 .. l /\ Len(Block) = l
       /\ \A i \in 1 .. l : i \in 1 .. n /\ Block[i] = found[i]
  <2> DEFINE b == [i \in 1 .. l |-> found[i]]
  <2>1. l \in Nat /\ DOMAIN b = 1 .. l /\ Len(b) = l
    BY <1>5, <1>10
  <2>2. \A i \in 1 .. l : i \in 1 .. n /\ b[i] = found[i]
    BY <1>5, <1>10
  <2> HIDE DEF b
  <2>3. Block = b
    BY <1>10 DEF Block, b, found
  <2>4. QED BY <2>1, <2>2, <2>3
<1>13. \A i, j \in DOMAIN Block : Block[i].id = Block[j].id => i = j
  BY <1>2, <1>12 DEF Once, n
<1>14. \A r \in Present \ (touched \cup Listed_Ids) :
         \/ Score(r, goal) = 0
         \/ Len(Block) = ContextLimit \/ lost \/ gone
  <2> SUFFICES ASSUME NEW r \in Present \ (touched \cup Listed_Ids), Score(r, goal) # 0, ~lost, ~gone,
                      l # ContextLimit
               PROVE  FALSE
    BY <1>12
  <2>1. l = n /\ n < ContextLimit
    BY <1>5, <1>10, <1>11
  <2>2. \A s \in There(memory) \ touched : Hits(memory, s, goal) > 0 => s \in Ids(found)
    BY <1>4, <1>9, <1>5, <1>11, <2>1 DEF Complete
  <2>3. r \in Ids(found)
    BY <1>7, <1>8, <2>2
  <2>4. Ids(found) = Listed_Ids
    <3>1. \A i \in 1 .. n : Block[i].id = found[i].id
      BY <1>12, <2>1
    <3>2. DOMAIN Block = 1 .. n
      BY <1>12, <2>1
    <3>3. QED BY <3>1, <3>2 DEF Ids, Listed_Ids, n
  <2>5. QED BY <2>3, <2>4
<1>15. touched = {} /\ ~lost =>
         /\ \A i \in DOMAIN Block : Score(Block[i].id, goal) > 0
         /\ \A i \in DOMAIN Block : \A r \in Present \ {Block[j].id : j \in 1 .. i} :
              Score(r, goal) < Score(Block[i].id, goal)
              \/ /\ Score(r, goal) = Score(Block[i].id, goal)
                 /\ memory[r].at < memory[Block[i].id].at
  <2> SUFFICES ASSUME touched = {}, ~lost
               PROVE  /\ \A i \in 1 .. l : Hits(memory, Block[i].id, goal) > 0
                      /\ \A i \in 1 .. l : \A r \in There(memory) \ {Block[j].id : j \in 1 .. i} :
                           Hits(memory, r, goal) < Hits(memory, Block[i].id, goal)
                           \/ /\ Hits(memory, r, goal) = Hits(memory, Block[i].id, goal)
                              /\ memory[r].at < memory[Block[i].id].at
    BY <1>7, <1>12
  <2>1. Orderly(M, found, <<>>) /\ Ids(found) \subseteq Matching(memory, goal)
    BY <1>4
  <2>2. \A i \in 1 .. l : found[i].id \in There(memory) /\ Hits(memory, found[i].id, goal) > 0
    BY <1>12, <2>1 DEF Matching, Ids, n
  <2>3. M \in Seq(There(memory)) /\ Len(M) \in Nat /\ Len(M) <= ContextLimit
    BY <1>6, LenProperties DEF Finds
  <2>4. Len(M) <= n /\ \A i \in 1 .. n : i <= Len(M) => found[i].id = M[i]
    BY <1>5, <2>1, <2>3 DEF Orderly, n
  <2>5. \A i \in 1 .. l : i <= Len(M)
    <3> SUFFICES ASSUME NEW i \in 1 .. l, i > Len(M) PROVE FALSE
      BY <1>5, <1>10, <2>3
    <3>1. Len(M) # ContextLimit
      BY <1>5, <1>10, <1>11, <2>3
    <3>2. PICK j \in 1 .. Len(M) : M[j] = found[i].id
      BY <1>6, <2>2, <3>1 DEF Finds
    <3>3. j \in 1 .. n /\ j <= Len(M) /\ j # i
      BY <1>5, <2>3, <2>4
    <3>4. found[j].id = found[i].id
      BY <2>4, <3>2, <3>3
    <3>5. QED BY <1>2, <1>12, <3>3, <3>4 DEF Once, n
  <2>6. \A i \in 1 .. l : Block[i].id = M[i] /\ i \in 1 .. Len(M)
    BY <1>5, <1>10, <1>12, <2>3, <2>4, <2>5
  <2>7. ASSUME NEW i \in 1 .. l, NEW r \in There(memory) \ {Block[j].id : j \in 1 .. i}
        PROVE  \/ Hits(memory, r, goal) < Hits(memory, Block[i].id, goal)
               \/ /\ Hits(memory, r, goal) = Hits(memory, Block[i].id, goal)
                  /\ memory[r].at < memory[Block[i].id].at
    <3>1. \A j \in 1 .. i : j \in 1 .. l
      BY <1>5, <1>10
    <3>2. \A j \in 1 .. i : M[j] # r
      BY <2>6, <2>7, <3>1
    <3>3. Above(memory, goal, M[i], r)
      BY <1>6, <2>6, <2>7, <3>2 DEF Finds
    <3>4. r \in RecordIds /\ M[i] \in RecordIds /\ memory[r].at \in Nat /\ memory[M[i]].at \in Nat
      BY <1>1, <2>2, <2>6, <1>12, <2>7 DEF There, Memories
    <3>5. QED BY <1>8, <2>6, <3>3, <3>4 DEF Above
  <2>8. QED BY <1>12, <2>2, <2>7
<1>16. QED BY <1>2, <1>13, <1>14, <1>15 DEF ContextIsGroundTruth

(* The ground truth that the LLM is told.                                  *)
THEOREM ContextStaysTrue == ContextSpec => []ContextIsGroundTruth
BY ContextInvariant, GroundTruthHolds, PTL
=============================================================================
