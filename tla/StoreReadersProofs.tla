-------------------------- MODULE StoreReadersProofs --------------------------
(***************************************************************************)
(* What is read back from the memory store: the final gate's rules about   *)
(* increments, and the lineage that packaging reports.                     *)
(***************************************************************************)
EXTENDS DesignClaims, SessionRecordsProofs, WellFoundedInduction

-----------------------------------------------------------------------------
(* The last of several rows. Both readers let it win.                      *)

\* A non-empty set of positions has a greatest one.
LEMMA HasGreatest ==
  ASSUME NEW n \in Nat, NEW I \in SUBSET (1..n), I # {}
  PROVE  \E i \in I : \A j \in I : j <= i
<1> DEFINE R == OpToRel(<, Nat)
           FromEnd == {n - i : i \in I}
<1>1. \A x, y \in Nat : <<x, y>> \in R <=> x < y
  BY DEF OpToRel
<1>2. \A i \in I : n - i \in Nat
  OBVIOUS
<1>3. FromEnd \subseteq Nat
  BY <1>2
<1>4. FromEnd # {}
  OBVIOUS
<1> HIDE DEF FromEnd
<1>5. \E x \in FromEnd : \A y \in FromEnd : ~(<<y, x>> \in R)
  <2>1. IsWellFoundedOn(R, Nat)
    BY NatLessThanWellFounded
  <2> HIDE DEF R
  <2> QED
    BY <2>1, <1>3, <1>4, WFMin
<1>6. PICK x \in FromEnd : \A y \in FromEnd : ~(y < x)
  BY <1>1, <1>3, <1>5
<1> USE DEF FromEnd
<1>7. PICK i \in I : x = n - i
  BY <1>6
<1> QED
  BY <1>6, <1>7

LEMMA MaxIsGreatest ==
  ASSUME NEW n \in Nat, NEW I \in SUBSET (1..n), I # {}
  PROVE  Max(I) \in I /\ \A j \in I : j <= Max(I)
<1>1. PICK i \in I : \A j \in I : j <= i
  BY HasGreatest
<1>2. \A j \in I : i >= j
  BY <1>1
<1>3. Max(I) \in I /\ \A j \in I : Max(I) >= j
  BY <1>2 DEF Max
<1> QED
  BY <1>3

-----------------------------------------------------------------------------
(* The gate.                                                               *)

\* The gate reads a row of the table or none.
LEMMA PatchIsRow ==
  ASSUME TypeInv, NEW v, NEW p \in PatchOf(code_patch_records, v)
  PROVE  p \in PatchRecords
<1> DEFINE rows == {k \in DOMAIN code_patch_records : code_patch_records[k].new = v}
           n == Len(code_patch_records)
<1>1. code_patch_records \in Seq(PatchRecords) /\ n \in Nat
  BY DEF TypeInv, TypeOK
<1>2. rows # {} /\ rows \in SUBSET (1..n)
  <2>1. rows # {}
    BY DEF PatchOf
  <2>2. DOMAIN code_patch_records = 1..n
    BY <1>1
  <2> QED
    BY <2>1, <2>2
<1>3. \E k \in rows : \A l \in rows : l <= k
  <2> HIDE DEF rows, n
  <2> QED
    BY <1>1, <1>2, HasGreatest
<1>4. \E k \in rows : p = code_patch_records[k]
  <2> DEFINE newest == CHOOSE k \in rows : \A l \in rows : l <= k
  <2>1. p = code_patch_records[newest]
    BY <1>2 DEF PatchOf
  <2>2. newest \in rows
    <3> HIDE DEF rows
    <3> QED
      BY <1>3
  <2> QED
    BY <2>1, <2>2
<1> QED
  BY <1>1, <1>4

\* No verdict of the loop has the key the gate reads.
LEMMA NothingConfirms ==
  ASSUME NEW p \in PatchRecords, NEW tasks
  PROVE  ~ConfirmsTasks(p, tasks)
<1>1. p.validation \in Verdicts
  BY DEF PatchRecords
<1>2. "task_compatibility" \notin DOMAIN p.validation
  BY <1>1 DEF Verdicts
<1> QED
  BY <1>2 DEF ConfirmsTasks

\* The gate passes no history the loop can write while there is code to submit:
\* a patch it reads confirms nothing, and without one the files are not covered
\* (validation/submission.py, _validate_incremental_patch_records).
THEOREM GateNeverPasses == Spec => []NothingPassesTheGate
<1>1. ASSUME TypeInv, Present # {}, NEW t \in Tasks, StoredFailures({t}) = {}
      PROVE  FALSE
  <2> DEFINE used == UNION {PatchOf(code_patch_records, code_snapshots[i].version) :
                             i \in 2..Len(code_snapshots)}
  <2>1. \A f \in GateFailures :
          ~FailureHolds(f, code_snapshots, code_patch_records, Present, {t})
    BY <1>1 DEF StoredFailures, IncrementalFailures
  <2>2. code_snapshots # <<>>
    <3>1. ~FailureHolds("code snapshots missing",
                        code_snapshots, code_patch_records, Present, {t})
      BY <2>1 DEF GateFailures
    <3> QED
      BY <3>1 DEF FailureHolds
  <2>3. \A p \in used : ConfirmsTasks(p, {t})
    BY <2>1, <2>2 DEF GateFailures, FailureHolds
  <2>4. \A p \in used : p \in PatchRecords
    BY <1>1, PatchIsRow
  <2>5. used = {}
    BY <2>3, <2>4, NothingConfirms
  <2>6. Present \subseteq {p.file : p \in used}
    BY <2>1, <2>2 DEF GateFailures, FailureHolds
  <2> QED
    BY <1>1, <2>5, <2>6
<1>2. TypeInv => NothingPassesTheGate
  BY <1>1 DEF NothingPassesTheGate
<1>3. Spec => []TypeInv
  BY TypeInvInit, TypeInvStep, PTL DEF Spec
<1> QED
  BY <1>2, <1>3, PTL

-----------------------------------------------------------------------------
(* The lineage.                                                            *)

\* A patch was made by a logged call from a version on record ...
PatchesAreBased ==
  \A k \in DOMAIN code_patch_records :
    /\ code_patch_records[k].call_id \in llm_log
    /\ \E i \in DOMAIN code_snapshots :
         code_snapshots[i].version = code_patch_records[k].base

\* ... and of the patches that make the newest version, the last one started
\* from its parent: a patch of the newest version makes another one.
NewestIsPatched ==
  code_snapshots # <<>> /\ Last(code_snapshots).parent # NoVersion =>
    \E k \in DOMAIN code_patch_records :
      /\ code_patch_records[k].base = Last(code_snapshots).parent
      /\ code_patch_records[k].new = Last(code_snapshots).version
      /\ \A l \in DOMAIN code_patch_records :
           code_patch_records[l].new = Last(code_snapshots).version => l <= k

LineageInv == PatchesAreBased /\ NewestIsPatched

\* A step that adds no patch keeps what patches were based on.
LEMMA BasesStay ==
  ASSUME TypeInv, HistoryInv, PatchesAreBased, [Next]_vars, UNCHANGED code_patch_records
  PROVE  PatchesAreBased'
<1>1. ASSUME NEW k \in DOMAIN code_patch_records
      PROVE  /\ code_patch_records[k].call_id \in llm_log'
             /\ \E i \in DOMAIN code_snapshots' :
                  code_snapshots'[i].version = code_patch_records[k].base
  <2>1. PICK i \in DOMAIN code_snapshots :
          code_snapshots[i].version = code_patch_records[k].base
    BY DEF PatchesAreBased
  <2>2. i \in DOMAIN code_snapshots' /\ code_snapshots'[i] = code_snapshots[i]
    BY RecordsStay
  <2>3. code_patch_records[k].call_id \in llm_log'
    BY RecordsStay DEF PatchesAreBased
  <2> QED
    BY <2>1, <2>2, <2>3
<1> QED
  BY <1>1 DEF PatchesAreBased

LEMMA LineageStep ==
  ASSUME TypeInv, HistoryInv, ManifestInv, LineageInv, [Next]_vars
  PROVE  LineageInv'
<1> DEFINE m == Len(code_patch_records)
<1>1. code_patch_records \in Seq(PatchRecords) /\ code_snapshots \in Seq(Snapshots)
  BY DEF TypeInv, TypeOK
<1>2. CASE BaselineGuard
  <2>1. /\ shared_code_version = NoVersion
        /\ TakeSnapshot
        /\ UNCHANGED code_patch_records
    BY <1>2 DEF BaselineGuard, Iterate, NextPhase, Choose, RequestedPhases
  <2>2. Last(code_snapshots').parent = NoVersion
    BY <2>1, AppendedSnapshot DEF TypeInv, CodeSnapshot
  <2> QED
    BY <2>1, <2>2, BasesStay DEF LineageInv, NewestIsPatched
<1>3. CASE RecordPatch
  <2>1. /\ code_patch_records' = Append(code_patch_records, NewPatch)
        /\ UNCHANGED <<code_snapshots, llm_log>>
    BY <1>3 DEF RecordPatch, PatchRows
  <2>2. /\ DOMAIN code_patch_records' = 1..(m + 1)
        /\ \A k \in DOMAIN code_patch_records :
             k \in 1..(m + 1) /\ code_patch_records'[k] = code_patch_records[k]
        /\ \A k \in 1..(m + 1) : k \in DOMAIN code_patch_records \/ k = m + 1
        /\ code_patch_records'[m + 1] = NewPatch
        /\ m \in Nat /\ DOMAIN code_patch_records = 1..m
    BY <1>1, <2>1
  <2>3. /\ code_snapshots # <<>>
        /\ shared_code_version = Last(code_snapshots).version
        /\ Last(code_snapshots) = code_snapshots[Len(code_snapshots)]
        /\ Len(code_snapshots) \in DOMAIN code_snapshots
    BY <1>1, <1>3 DEF RecordPatch, TypeInv, VersionExists, HistoryInv, WorksFromNewest,
                      Running, Last
  <2>4. /\ NewPatch.base = shared_code_version
        /\ NewPatch.new # shared_code_version
        /\ NewPatch.call_id \in llm_log
    BY <1>3 DEF NewPatch, RecordPatch, ManifestInv, CallIsLogged
  <2>5. PatchesAreBased'
    BY <2>1, <2>2, <2>3, <2>4 DEF LineageInv, PatchesAreBased
  <2>6. NewestIsPatched'
    BY <2>1, <2>2, <2>3, <2>4 DEF LineageInv, NewestIsPatched
  <2> QED
    BY <2>5, <2>6 DEF LineageInv
<1>4. CASE RecordSnapshot
  <2>1. pc = "snapshot" /\ TakeSnapshot /\ UNCHANGED code_patch_records
    BY <1>4 DEF RecordSnapshot
  <2>2. /\ Last(code_snapshots').parent = shared_code_version
        /\ Last(code_snapshots').version = CodeVersion(code, task)
    BY <2>1, AppendedSnapshot DEF TypeInv, CodeSnapshot
  <2>3. /\ m \in DOMAIN code_patch_records
        /\ code_patch_records[m].base = shared_code_version
        /\ code_patch_records[m].new = CodeVersion(code, task)
    BY <2>1, PendingPatch DEF PatchFor
  <2>4. \A l \in DOMAIN code_patch_records : l <= m
    BY <1>1
  <2> QED
    BY <2>1, <2>2, <2>3, <2>4, BasesStay DEF LineageInv, NewestIsPatched
<1>5. CASE StoreUnchanged
  BY <1>5, BasesStay DEF StoreUnchanged, LineageInv, NewestIsPatched
<1> QED
  BY <1>2, <1>3, <1>4, <1>5, StoreSteps

-----------------------------------------------------------------------------
(* The records that are joined.                                            *)

Joined == UnionRecords(code_snapshots, code_patch_records)

LEMMA JoinedRows ==
  ASSUME TypeInv
  PROVE  LET n == Len(code_snapshots)
             m == Len(code_patch_records)
         IN /\ n \in Nat /\ DOMAIN code_snapshots = 1..n
            /\ m \in Nat /\ DOMAIN code_patch_records = 1..m
            /\ DOMAIN Joined = 1..(n + m) /\ Len(Joined) = n + m
            /\ \A i \in 1..n : Joined[i] = SnapshotRecord(code_snapshots[i])
            /\ \A k \in 1..m :
                 Joined[n + k] = PatchRecord(code_patch_records[k], code_snapshots)
<1> DEFINE n == Len(code_snapshots)
           m == Len(code_patch_records)
           Rows1 == [i \in 1..n |-> SnapshotRecord(code_snapshots[i])]
           Rows2 == [k \in 1..m |-> PatchRecord(code_patch_records[k], code_snapshots)]
           All == {Rows1[i] : i \in 1..n} \cup {Rows2[k] : k \in 1..m}
<1>1. /\ n \in Nat /\ DOMAIN code_snapshots = 1..n
      /\ m \in Nat /\ DOMAIN code_patch_records = 1..m
  BY DEF TypeInv, TypeOK
<1>2. Joined = Rows1 \o Rows2
  BY <1>1 DEF Joined, UnionRecords
<1>3. /\ Rows1 \in Seq(All) /\ Len(Rows1) = n
      /\ Rows2 \in Seq(All) /\ Len(Rows2) = m
  BY <1>1
<1>4. /\ \A i \in 1..n : Rows1[i] = SnapshotRecord(code_snapshots[i])
      /\ \A k \in 1..m : Rows2[k] = PatchRecord(code_patch_records[k], code_snapshots)
  OBVIOUS
<1> HIDE DEF Rows1, Rows2, All
<1>5. /\ DOMAIN (Rows1 \o Rows2) = 1..(n + m) /\ Len(Rows1 \o Rows2) = n + m
      /\ \A i \in 1..n : (Rows1 \o Rows2)[i] = Rows1[i]
      /\ \A k \in 1..m : (Rows1 \o Rows2)[n + k] = Rows2[k]
  BY <1>1, <1>3
<1> QED
  BY <1>1, <1>2, <1>4, <1>5

\* The tasks a patch record is joined with are those of a snapshot, or none.
LEMMA SupportedByRow ==
  ASSUME TypeInv, NEW v, SupportedBy(code_snapshots, v) # {}
  PROVE  \E i \in DOMAIN code_snapshots :
           SupportedBy(code_snapshots, v) = code_snapshots[i].tasks
<1> DEFINE n == Len(code_snapshots)
           rows == {i \in 1..n : code_snapshots[i].version = v}
           last == SelectLastInSeq(code_snapshots, LAMBDA s : s.version = v)
<1>1. n \in Nat /\ DOMAIN code_snapshots = 1..n
  BY DEF TypeInv, TypeOK
<1>2. last = IF rows # {} THEN Max(rows) ELSE 0
  BY DEF SelectLastInSeq
<1>3. SupportedBy(code_snapshots, v) =
        IF last = 0 THEN {} ELSE code_snapshots[last].tasks
  BY DEF SupportedBy
<1>4. rows # {} => Max(rows) \in rows
  <2>1. rows \in SUBSET (1..n)
    OBVIOUS
  <2> HIDE DEF rows, n
  <2> QED
    BY <1>1, <2>1, MaxIsGreatest
<1> QED
  BY <1>1, <1>2, <1>3, <1>4

\* The parent of a version is that of the last record that names one.
LEMMA ParentOfLast ==
  ASSUME TypeInv, NEW v
  PROVE  LET named == {i \in 1..Len(Joined) :
                         Joined[i].version = v /\ Joined[i].parent # NoVersion}
         IN /\ named = {} => UnionParent(Joined, v) = NoVersion
            /\ named # {} =>
                 \E i \in named : /\ UnionParent(Joined, v) = Joined[i].parent
                                  /\ \A j \in named : j <= i
<1> DEFINE n == Len(Joined)
           named == {i \in 1..n : Joined[i].version = v /\ Joined[i].parent # NoVersion}
           last == SelectLastInSeq(Joined, LAMBDA r : r.version = v /\ r.parent # NoVersion)
<1>1. n \in Nat
  BY JoinedRows
<1>2. last = IF named # {} THEN Max(named) ELSE 0
  BY DEF SelectLastInSeq
<1>3. UnionParent(Joined, v) = IF last = 0 THEN NoVersion ELSE Joined[last].parent
  BY DEF UnionParent
<1>4. named # {} => Max(named) \in named /\ \A j \in named : j <= Max(named)
  <2>1. named \in SUBSET (1..n)
    OBVIOUS
  <2> HIDE DEF named, n
  <2> QED
    BY <1>1, <2>1, MaxIsGreatest
<1>5. \A i \in named : i # 0
  BY <1>1
<1> QED
  BY <1>2, <1>3, <1>4, <1>5

\* A record is that of a snapshot or of a patch.
LEMMA JoinedCases ==
  ASSUME TypeInv, NEW j \in DOMAIN Joined
  PROVE  \/ \E i \in DOMAIN code_snapshots : Joined[j] = SnapshotRecord(code_snapshots[i])
         \/ \E k \in DOMAIN code_patch_records :
              Joined[j] = PatchRecord(code_patch_records[k], code_snapshots)
<1> DEFINE n == Len(code_snapshots)
           m == Len(code_patch_records)
<1>1. n \in Nat /\ m \in Nat /\ j \in 1..(n + m)
  BY JoinedRows
<1>2. CASE j \in 1..n
  BY <1>2, JoinedRows
<1>3. CASE j \in (n + 1)..(n + m)
  <2>1. j - n \in 1..m /\ n + (j - n) = j
    BY <1>1, <1>3
  <2> QED
    BY <2>1, JoinedRows
<1> QED
  BY <1>1, <1>2, <1>3

\* Every snapshot and every patch has its record.
LEMMA JoinedAll ==
  ASSUME TypeInv
  PROVE  /\ \A i \in DOMAIN code_snapshots :
              SnapshotRecord(code_snapshots[i]) \in ToSet(Joined)
         /\ \A k \in DOMAIN code_patch_records :
              PatchRecord(code_patch_records[k], code_snapshots) \in ToSet(Joined)
<1> DEFINE n == Len(code_snapshots)
           m == Len(code_patch_records)
<1>1. /\ n \in Nat /\ m \in Nat /\ DOMAIN Joined = 1..(n + m)
      /\ DOMAIN code_snapshots = 1..n /\ DOMAIN code_patch_records = 1..m
      /\ \A i \in 1..n : Joined[i] = SnapshotRecord(code_snapshots[i])
      /\ \A k \in 1..m : Joined[n + k] = PatchRecord(code_patch_records[k], code_snapshots)
  BY JoinedRows
<1>2. \A j \in DOMAIN Joined : Joined[j] \in ToSet(Joined)
  BY DEF ToSet
<1>3. \A i \in 1..n : i \in DOMAIN Joined
  BY <1>1
<1>4. \A k \in 1..m : n + k \in DOMAIN Joined
  BY <1>1
<1> QED
  BY <1>1, <1>2, <1>3, <1>4

\* What the records say: logged calls, tasks that the newest version has.
LEMMA RecordsSay ==
  ASSUME TypeInv, LineageInv, SupportNeverShrinks, NEW r \in ToSet(Joined)
  PROVE  /\ r.llm_call_ids \subseteq llm_log
         /\ r.validated_tasks # {} =>
              code_snapshots # <<>> /\ r.validated_tasks \subseteq Last(code_snapshots).tasks
<1>1. PICK j \in DOMAIN Joined : r = Joined[j]
  BY DEF ToSet
<1>2. \A i \in DOMAIN code_snapshots :
        code_snapshots # <<>> /\ code_snapshots[i].tasks \subseteq Last(code_snapshots).tasks
  <2>1. code_snapshots \in Seq(Snapshots)
    BY DEF TypeInv, TypeOK
  <2>2. \A i \in DOMAIN code_snapshots :
          /\ code_snapshots # <<>>
          /\ Len(code_snapshots) \in DOMAIN code_snapshots
          /\ i = Len(code_snapshots) \/ i < Len(code_snapshots)
    BY <2>1
  <2> QED
    BY <2>2 DEF SupportNeverShrinks, Last
<1>3. CASE \E i \in DOMAIN code_snapshots : r = SnapshotRecord(code_snapshots[i])
  BY <1>2, <1>3 DEF SnapshotRecord
<1>4. CASE \E k \in DOMAIN code_patch_records :
             r = PatchRecord(code_patch_records[k], code_snapshots)
  <2>1. PICK k \in DOMAIN code_patch_records :
          r = PatchRecord(code_patch_records[k], code_snapshots)
    BY <1>4
  <2>2. /\ r.llm_call_ids = {code_patch_records[k].call_id}
        /\ r.validated_tasks = SupportedBy(code_snapshots, code_patch_records[k].new)
    BY <2>1 DEF PatchRecord
  <2>3. code_patch_records[k].call_id \in llm_log
    BY DEF LineageInv, PatchesAreBased
  <2> QED
    BY <1>2, <2>2, <2>3, SupportedByRow
<1> QED
  BY <1>1, <1>3, <1>4, JoinedCases

\* A version with a parent was made by a patch, and the parent is on record.
LEMMA NamedParent ==
  ASSUME TypeInv, LineageInv, LineageIsLogged,
         NEW j \in DOMAIN Joined, Joined[j].parent # NoVersion
  PROVE  /\ \E k \in DOMAIN code_patch_records : code_patch_records[k].new = Joined[j].version
         /\ \E i \in DOMAIN code_snapshots : code_snapshots[i].version = Joined[j].parent
<1>1. CASE \E i \in DOMAIN code_snapshots : Joined[j] = SnapshotRecord(code_snapshots[i])
  <2>1. PICK i \in DOMAIN code_snapshots : Joined[j] = SnapshotRecord(code_snapshots[i])
    BY <1>1
  <2>2. /\ Joined[j].parent = code_snapshots[i].parent
        /\ Joined[j].version = code_snapshots[i].version
    BY <2>1 DEF SnapshotRecord
  <2>3. /\ i > 1
        /\ code_snapshots[i].parent = code_snapshots[i - 1].version
        /\ PatchFor(code_snapshots[i].parent, code_snapshots[i].version) # {}
    BY <2>2 DEF LineageIsLogged
  <2>4. i - 1 \in DOMAIN code_snapshots
    BY <2>3 DEF TypeInv, TypeOK
  <2> QED
    BY <2>2, <2>3, <2>4 DEF PatchFor
<1>2. CASE \E k \in DOMAIN code_patch_records :
             Joined[j] = PatchRecord(code_patch_records[k], code_snapshots)
  <2>1. PICK k \in DOMAIN code_patch_records :
          Joined[j] = PatchRecord(code_patch_records[k], code_snapshots)
    BY <1>2
  <2>2. /\ Joined[j].parent = code_patch_records[k].base
        /\ Joined[j].version = code_patch_records[k].new
    BY <2>1 DEF PatchRecord
  <2> QED
    BY <2>2 DEF LineageInv, PatchesAreBased
<1> QED
  BY <1>1, <1>2, JoinedCases

\* Of the records of the newest version the last one that names a parent is its
\* snapshot or the last of its patches; both name the same.
LEMMA NewestParent ==
  ASSUME TypeInv, LineageInv, code_snapshots # <<>>,
         Last(code_snapshots).parent # NoVersion
  PROVE  UnionParent(Joined, Last(code_snapshots).version) = Last(code_snapshots).parent
<1> DEFINE newest == Last(code_snapshots)
           n == Len(code_snapshots)
           m == Len(code_patch_records)
           named == {i \in 1..Len(Joined) :
                       Joined[i].version = newest.version /\ Joined[i].parent # NoVersion}
<1>1. PICK k \in DOMAIN code_patch_records :
        /\ code_patch_records[k].base = newest.parent
        /\ code_patch_records[k].new = newest.version
        /\ \A l \in DOMAIN code_patch_records :
             code_patch_records[l].new = newest.version => l <= k
  BY DEF LineageInv, NewestIsPatched
<1>2. /\ n \in Nat /\ m \in Nat /\ Len(Joined) = n + m
      /\ DOMAIN code_patch_records = 1..m
      /\ \A l \in 1..m :
           /\ Joined[n + l].version = code_patch_records[l].new
           /\ Joined[n + l].parent = code_patch_records[l].base
  <2>1. \A p : /\ PatchRecord(p, code_snapshots).version = p.new
               /\ PatchRecord(p, code_snapshots).parent = p.base
    BY DEF PatchRecord
  <2> QED
    BY <2>1, JoinedRows
<1>3. n + k \in named
  BY <1>1, <1>2
<1>4. PICK i \in named : /\ UnionParent(Joined, newest.version) = Joined[i].parent
                         /\ \A j \in named : j <= i
  BY <1>3, ParentOfLast
<1>5. n + k <= i /\ i \in 1..(n + m) /\ Joined[i].version = newest.version
  BY <1>2, <1>3, <1>4
<1>6. i - n \in 1..m /\ n + (i - n) = i /\ k <= i - n
  BY <1>1, <1>2, <1>5
<1>7. i - n <= k
  BY <1>1, <1>2, <1>5, <1>6
<1>8. i = n + k
  BY <1>1, <1>2, <1>6, <1>7
<1> QED
  BY <1>1, <1>2, <1>4, <1>8

\* The lineage that packaging reports is the one the sessions made, whatever was
\* killed in between (cozy_pde_v3/package.py, build_shared_code_union_for_workspace).
THEOREM LineageTold == Spec => []UnionTellsLineage
<1> DEFINE union == SharedCodeUnion(Joined)
           newest == Last(code_snapshots)
<1>1. ASSUME TypeInv, LineageInv, LineageIsLogged, SupportNeverShrinks
      PROVE  UnionTellsLineage
  <2> DEFINE Of(v) == {r \in ToSet(Joined) : r.version = v}
  <2>1. /\ DOMAIN union = {r.version : r \in ToSet(Joined)}
        /\ \A v \in DOMAIN union :
             /\ union[v].parent = UnionParent(Joined, v)
             /\ union[v].validated_tasks = UNION {r.validated_tasks : r \in Of(v)}
             /\ union[v].changed_files = UNION {r.changed_files : r \in Of(v)}
             /\ union[v].llm_call_ids = UNION {r.llm_call_ids : r \in Of(v)}
    BY DEF SharedCodeUnion
  <2>2. \A v \in DOMAIN union : union[v].llm_call_ids \subseteq llm_log
    BY <1>1, <2>1, RecordsSay
  <2>3. ASSUME NEW v \in DOMAIN union, union[v].parent # NoVersion
        PROVE  /\ union[v].parent \in DOMAIN union
               /\ union[v].changed_files # {} /\ union[v].llm_call_ids # {}
    <3>1. PICK j \in 1..Len(Joined) :
            /\ Joined[j].version = v /\ Joined[j].parent # NoVersion
            /\ union[v].parent = Joined[j].parent
      BY <1>1, <2>1, <2>3, ParentOfLast
    <3>2. j \in DOMAIN Joined
      BY <1>1, <3>1, JoinedRows
    <3>3. PICK i \in DOMAIN code_snapshots : code_snapshots[i].version = union[v].parent
      BY <1>1, <3>1, <3>2, NamedParent
    <3>4. PICK k \in DOMAIN code_patch_records : code_patch_records[k].new = v
      BY <1>1, <3>1, <3>2, NamedParent
    <3>5. /\ SnapshotRecord(code_snapshots[i]) \in ToSet(Joined)
          /\ SnapshotRecord(code_snapshots[i]).version = union[v].parent
      BY <1>1, <3>3, JoinedAll DEF SnapshotRecord
    <3>6. LET r == PatchRecord(code_patch_records[k], code_snapshots)
          IN /\ r \in Of(v)
             /\ r.changed_files = {code_patch_records[k].file}
             /\ r.llm_call_ids = {code_patch_records[k].call_id}
      BY <1>1, <3>4, JoinedAll DEF PatchRecord
    <3>7. union[v].parent \in DOMAIN union
      BY <2>1, <3>5
    <3>8. /\ code_patch_records[k].file \in union[v].changed_files
          /\ code_patch_records[k].call_id \in union[v].llm_call_ids
      BY <2>1, <3>6
    <3> QED
      BY <3>7, <3>8
  <2>4. ASSUME code_snapshots # <<>>
        PROVE  /\ \A v \in DOMAIN union :
                    union[v].validated_tasks \subseteq union[newest.version].validated_tasks
               /\ newest.parent # NoVersion =>
                    union[newest.version].parent = newest.parent
    <3>1. /\ SnapshotRecord(newest) \in Of(newest.version)
          /\ SnapshotRecord(newest).validated_tasks = newest.tasks
      <4>1. Len(code_snapshots) \in DOMAIN code_snapshots
        BY <1>1, <2>4 DEF TypeInv, TypeOK
      <4> QED
        BY <1>1, <4>1, JoinedAll DEF SnapshotRecord, Last
    <3>2. newest.version \in DOMAIN union
      BY <2>1, <3>1
    <3>3. newest.tasks \subseteq union[newest.version].validated_tasks
      BY <2>1, <3>1, <3>2
    <3>4. \A v \in DOMAIN union : union[v].validated_tasks \subseteq newest.tasks
      BY <1>1, <2>1, RecordsSay
    <3> QED
      BY <1>1, <2>1, <2>4, <3>2, <3>3, <3>4, NewestParent
  <2> QED
    BY <2>2, <2>3, <2>4 DEF UnionTellsLineage, Joined
<1>2. Init => LineageInv
  BY DEF Init, LineageInv, PatchesAreBased, NewestIsPatched
<1>3. Init => ManifestInv
  BY DEF Init, ManifestInv, ListedIsBacked, Listed, NoManifest, CallIsLogged, VersionIsTaken
<1>4. Spec => [](TypeInv /\ HistoryInv)
  BY TypeInvInit, TypeInvStep, HistoryInvInit, HistoryInvStep, PTL DEF Spec
<1>5. Spec => []ManifestInv
  BY <1>3, <1>4, ManifestStep, PTL DEF Spec
<1>6. Spec => []LineageInv
  BY <1>2, <1>4, <1>5, LineageStep, PTL DEF Spec
<1> QED
  BY <1>1, <1>4, <1>6, RowsAlways, PTL

=============================================================================
