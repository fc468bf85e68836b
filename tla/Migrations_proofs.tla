-------------------------- MODULE Migrations_proofs --------------------------
(***************************************************************************)
(* Proofs about Migrations for any number of migrators and any releases,   *)
(* as long as every release keeps the versions of the ones before it.      *)
(***************************************************************************)
EXTENDS Migrations, TLAPS

USE ReleaseAssumption DEF Loaded

(* The file a migrator is at.                                              *)
LEMMA CurrentFile ==
  ASSUME TypeOK, NEW m \in Migrators, AtFile(m)
  PROVE  /\ run[m].next \in 1..Len(Release[m])
         /\ Current(m) \in File
         /\ Current(m).version \in Versions /\ Current(m).checksum \in Checksums
         /\ Current(m) = [version |-> Current(m).version, checksum |-> Current(m).checksum]
<1>1. run[m].next \in 1..Len(Release[m])
  BY DEF TypeOK, AtFile
<1>2. Current(m) \in File
  BY <1>1 DEF Current
<1> QED
  BY <1>1, <1>2 DEF File

(* What a step leaves of a run: each other migrator's is as it was.        *)
LEMMA RunEffect ==
  ASSUME TypeOK, NEW m \in Migrators, Start(m) \/ Statement(m) \/ Failure(m)
  PROVE  /\ \A o \in Migrators \ {m} : run'[o] = run[o]
         /\ run'[m].next \in {1, run[m].next, run[m].next + 1}
         /\ run' \in [Migrators -> [pc : {"stopped", "select", "exec", "insert", "commit", "done"},
                                    next : Nat \ {0}]]
<1> DEFINE R == [pc : {"stopped", "select", "exec", "insert", "commit", "done"}, next : Nat \ {0}]
<1>1. run \in [Migrators -> R]
  BY DEF TypeOK
<1>2. PICK new \in R : /\ run' = [run EXCEPT ![m] = new]
                       /\ new.next \in {1, run[m].next, run[m].next + 1}
  <2>1. /\ run[m].next \in Nat \ {0} /\ run[m].next + 1 \in Nat \ {0}
        /\ run[m] = [pc |-> run[m].pc, next |-> run[m].next]
        /\ run[m].pc \in {"stopped", "select", "exec", "insert", "commit", "done"}
    BY <1>1
  <2>2. \/ \E pc \in {"exec", "insert", "commit", "done"} : run' = [run EXCEPT ![m].pc = pc]
        \/ run' = [run EXCEPT ![m].next = @ + 1]
        \/ run' = [run EXCEPT ![m] = [pc |-> "select", next |-> run[m].next + 1]]
        \/ run' = [run EXCEPT ![m] = [pc |-> "select", next |-> 1]]
        \/ run' = [run EXCEPT ![m] = [pc |-> "stopped", next |-> 1]]
    BY DEF Start, Statement, Failure, SelectChecksum, SelectFails, ExecSQL, InsertVersion,
           Commit, CommitUnheard, Finish, Fail, Return, Stopped
  <2>3. CASE \E pc \in {"exec", "insert", "commit", "done"} : run' = [run EXCEPT ![m].pc = pc]
    <3>1. PICK pc \in {"exec", "insert", "commit", "done"} : run' = [run EXCEPT ![m].pc = pc]
      BY <2>3, Zenon
    <3>2. run' = [run EXCEPT ![m] = [pc |-> pc, next |-> run[m].next]]
      <4>1. [run[m] EXCEPT !.pc = pc] = [pc |-> pc, next |-> run[m].next]
        BY <2>1
      <4> QED
        BY <1>1, <3>1, <4>1, Zenon
    <3>3. /\ [pc |-> pc, next |-> run[m].next] \in R
          /\ [pc |-> pc, next |-> run[m].next].next = run[m].next
      BY <2>1
    <3> HIDE DEF R
    <3> QED
      BY <3>2, <3>3, Zenon
  <2>4. CASE run' = [run EXCEPT ![m].next = @ + 1]
    <3>1. run' = [run EXCEPT ![m] = [pc |-> run[m].pc, next |-> run[m].next + 1]]
      <4>1. [run[m] EXCEPT !.next = @ + 1] = [pc |-> run[m].pc, next |-> run[m].next + 1]
        BY <2>1, SMTT(30)
      <4> QED
        BY <1>1, <2>4, <4>1, Zenon
    <3>2. /\ [pc |-> run[m].pc, next |-> run[m].next + 1] \in R
          /\ [pc |-> run[m].pc, next |-> run[m].next + 1].next = run[m].next + 1
      BY <2>1
    <3> HIDE DEF R
    <3> QED
      BY <3>1, <3>2, Zenon
  <2> QED
    BY <2>1, <2>2, <2>3, <2>4, SMTT(30)
<1> QED
  BY <1>1, <1>2

(* What a step commits: nothing, or the file its migrator is at.           *)
LEMMA CommitEffect ==
  ASSUME TypeOK, NEW m \in Migrators, Start(m) \/ Statement(m) \/ Failure(m)
  PROVE  \/ UNCHANGED <<recorded, schema>>
         \/ /\ run[m].pc = "commit" /\ AtFile(m)
            /\ recorded' = [recorded EXCEPT ![Current(m).version] = Current(m).checksum]
            /\ schema' = Append(schema, Current(m))
  BY DEF Start, Statement, Failure, SelectChecksum, SelectFails, ExecSQL, InsertVersion,
         Commit, CommitUnheard, Finish, Fail, Committed, TypeOK

(* Every state is well typed: no statement is sent past the last file.     *)
THEOREM TypeCorrect == Spec => []TypeOK
<1>1. Init => TypeOK
  BY DEF Init, TypeOK, Stopped
<1>2. TypeOK /\ [Next]_vars => TypeOK'
  <2> SUFFICES ASSUME TypeOK, [Next]_vars PROVE TypeOK'
    OBVIOUS
  <2>1. ASSUME NEW m \in Migrators, Start(m) \/ Statement(m) \/ Failure(m) PROVE TypeOK'
    <3>1. /\ recorded' \in [Versions -> Checksums \cup {None}]
          /\ schema' \in Seq(File)
      <4>1. CASE UNCHANGED <<recorded, schema>>
        BY <4>1 DEF TypeOK
      <4>2. CASE /\ AtFile(m)
                 /\ recorded' = [recorded EXCEPT ![Current(m).version] = Current(m).checksum]
                 /\ schema' = Append(schema, Current(m))
        BY <4>2, CurrentFile DEF TypeOK
      <4> QED
        BY <2>1, <4>1, <4>2, CommitEffect
    <3>2. /\ run' \in [Migrators -> [pc : {"stopped", "select", "exec", "insert", "commit", "done"},
                                     next : Nat \ {0}]]
          /\ \A o \in Migrators \ {m} : run'[o] = run[o]
      BY <2>1, RunEffect
    <3>3. Len(Release[m]) \in Nat /\ run[m].next \in Nat \ {0}
      BY DEF TypeOK
    <3>4. /\ run'[m].next <= Len(Release[m]) + 1
          /\ run'[m].pc \in {"exec", "insert", "commit"} => AtFile(m)'
      BY <2>1, <3>3 DEF TypeOK, AtFile, Start, Statement, Failure, SelectChecksum, SelectFails,
         ExecSQL, InsertVersion, Commit, CommitUnheard, Finish, Fail, Return, Stopped
    <3> QED
      BY <3>1, <3>2, <3>4, Zenon DEF TypeOK, AtFile
  <2>2. CASE UNCHANGED vars
    BY <2>2 DEF vars, TypeOK, AtFile
  <2> QED
    BY <2>1, <2>2 DEF Next
<1> QED
  BY <1>1, <1>2, PTL DEF Spec

(* Every file of a release has a version and a checksum.                   *)
LEMMA ReleaseFiles ==
  ASSUME NEW o \in Migrators, NEW k \in 1..Len(Release[o])
  PROVE  /\ Release[o][k].version \in Versions /\ Release[o][k].version \in Nat
         /\ Release[o][k].checksum \in Checksums /\ Release[o][k].checksum # None
<1>1. Release[o] \in Seq(File)
  OBVIOUS
<1>2. Release[o][k] \in File
  BY <1>1
<1> QED
  BY <1>2, Zenon DEF File

(* Where a step takes its migrator, with what it found.                    *)
LEMMA Moves ==
  ASSUME TypeOK, NEW m \in Migrators, Start(m) \/ Statement(m) \/ Failure(m)
  PROVE  \/ run'[m].pc \in {"select", "stopped"} /\ run'[m].next = 1
         \/ run'[m].pc \in {"exec", "insert"} /\ run'[m].next = run[m].next
         \/ /\ run'[m].pc = "select" /\ run'[m].next = run[m].next + 1
            /\ \/ Skips(m) /\ UNCHANGED <<recorded, schema>>
               \/ run[m].pc = "commit" /\ Committed(Current(m))
         \/ /\ run'[m].pc = "commit" /\ run'[m].next = run[m].next
            /\ KeyFree(m) /\ ~KeyLocked(m) /\ UNCHANGED <<recorded, schema>>
         \/ run'[m].pc = "done" /\ run'[m].next = run[m].next /\ ~AtFile(m)
<1>1. CASE Start(m) \/ Fail(m) \/ CommitUnheard(m)
  BY <1>1 DEF TypeOK, Start, Fail, CommitUnheard, Return, Stopped
<1>2. CASE SelectChecksum(m) \/ SelectFails(m)
  BY <1>2 DEF TypeOK, SelectChecksum, SelectFails, Return, Stopped
<1>3. CASE ExecSQL(m) \/ InsertVersion(m)
  BY <1>3 DEF TypeOK, ExecSQL, InsertVersion, Return, Stopped
<1>4. CASE Commit(m) \/ Finish(m)
  BY <1>4 DEF TypeOK, Commit, Finish
<1> QED
  BY <1>1, <1>2, <1>3, <1>4 DEF Statement, Failure

(* A row once written is never changed: what is committed had none.        *)
LEMMA RowsStay ==
  ASSUME TypeOK, MigratorFacts, NEW m \in Migrators, Start(m) \/ Statement(m) \/ Failure(m)
  PROVE  /\ \A v \in Versions : recorded[v] # None => recorded'[v] = recorded[v]
         /\ \A v \in Versions :
              recorded[v] = None /\ recorded'[v] # None =>
                run[m].pc = "commit" /\ v = Current(m).version
<1>1. CASE UNCHANGED <<recorded, schema>>
  BY <1>1
<1>2. CASE /\ run[m].pc = "commit" /\ AtFile(m)
           /\ recorded' = [recorded EXCEPT ![Current(m).version] = Current(m).checksum]
  <2>1. recorded[Current(m).version] = None
    BY <1>2 DEF MigratorFacts
  <2>2. Current(m).version \in Versions
    BY <1>2, CurrentFile
  <2> QED
    BY <1>2, <2>1, <2>2 DEF TypeOK
<1> QED
  BY <1>1, <1>2, CommitEffect, Zenon

(* A migrator's passed files stay recorded, and what it is about to commit *)
(* stays unrecorded until it does.                                         *)
LEMMA FactsStep ==
  ASSUME TypeOK, TypeOK', MigratorFacts,
         NEW m \in Migrators, Start(m) \/ Statement(m) \/ Failure(m)
  PROVE  MigratorFacts'
<1>1. \A o \in Migrators \ {m} : run'[o] = run[o]
  BY RunEffect
<1>2. \A o \in Migrators : run[o].next \in Nat \ {0} /\ run'[o].next \in Nat \ {0}
  BY DEF TypeOK
<1>3. ASSUME NEW o \in Migrators, NEW k \in 1..(run[o].next - 1)
      PROVE  recorded'[Release[o][k].version] = Release[o][k].checksum
  <2>1. k \in 1..Len(Release[o])
    BY <1>2, SMTT(30) DEF TypeOK
  <2>2. recorded[Release[o][k].version] = Release[o][k].checksum
    BY DEF MigratorFacts
  <2> QED
    BY <2>1, <2>2, ReleaseFiles, RowsStay
<1>4. \A k \in 1..(run'[m].next - 1) : recorded'[Release[m][k].version] = Release[m][k].checksum
  <2>1. CASE run'[m].next = 1 \/ run'[m].next = run[m].next
    BY <1>2, <1>3, <2>1
  <2>2. CASE run'[m].next = run[m].next + 1
    <3>1. recorded'[Current(m).version] = Current(m).checksum
      <4>1. CASE Skips(m) /\ UNCHANGED <<recorded, schema>>
        BY <4>1 DEF Skips
      <4>2. CASE run[m].pc = "commit" /\ Committed(Current(m))
        <5>1. Current(m).version \in Versions
          BY <4>2, CurrentFile DEF TypeOK
        <5> QED
          BY <4>2, <5>1 DEF Committed, TypeOK
      <4> QED
        BY <1>2, <2>2, <4>1, <4>2, Moves
    <3> QED
      BY <1>2, <1>3, <2>2, <3>1, SMTT(30) DEF Current
  <2> QED
    BY <2>1, <2>2, Moves
<1>5. run'[m].pc = "done" => ~AtFile(m)'
  BY Moves DEF AtFile
<1>6. ASSUME run'[m].pc = "commit"
      PROVE  /\ Current(m)' = Current(m) /\ recorded'[Current(m).version] = None
             /\ \A o \in Migrators : run[o].pc = "commit" => Current(o).version # Current(m).version
  BY <1>6, Moves DEF Current, KeyFree, KeyLocked
<1>7. ASSUME NEW o \in Migrators \ {m}, run[o].pc = "commit"
      PROVE  /\ Current(o)' = Current(o)
             /\ recorded'[Current(o).version] = None
             /\ run'[m].pc = "commit" => Current(m)'.version # Current(o).version
  <2>1. Current(o)' = Current(o)
    BY <1>1 DEF Current
  <2>2. Current(o).version \in Versions
    BY <1>7, CurrentFile, SMTT(30) DEF TypeOK
  <2>3. /\ recorded[Current(o).version] = None
        /\ run[m].pc = "commit" => Current(o).version # Current(m).version
    BY <1>7 DEF MigratorFacts
  <2>4. recorded'[Current(o).version] = None
    BY <2>2, <2>3, RowsStay
  <2> QED
    BY <1>6, <1>7, <2>1, <2>4
<1>8. ASSUME NEW p \in Migrators PROVE
        /\ run'[p].pc = "done" => ~AtFile(p)'
        /\ \A k \in 1..(run'[p].next - 1) : recorded'[Release[p][k].version] = Release[p][k].checksum
        /\ run'[p].pc = "commit" =>
             /\ recorded'[Current(p)'.version] = None
             /\ \A o \in Migrators \ {p} :
                  run'[o].pc = "commit" => Current(o)'.version # Current(p)'.version
  <2>1. CASE p = m
    BY <1>1, <1>4, <1>5, <1>6, <1>7, <2>1
  <2>2. CASE p # m
    <3>1. run'[p].pc = "done" => ~AtFile(p)'
      BY <1>1, <2>2 DEF MigratorFacts, AtFile
    <3>2. \A k \in 1..(run'[p].next - 1) : recorded'[Release[p][k].version] = Release[p][k].checksum
      BY <1>1, <1>3, <2>2
    <3>3. ASSUME run'[p].pc = "commit", NEW o \in Migrators \ {p}, run'[o].pc = "commit"
          PROVE  Current(o)'.version # Current(p)'.version
      <4>1. run[p].pc = "commit" /\ Current(p)' = Current(p)
        BY <1>1, <1>7, <2>2, <3>3
      <4>2. CASE o = m
        BY <1>7, <2>2, <3>3, <4>1, <4>2
      <4>3. CASE o # m
        <5>1. run[o].pc = "commit" /\ Current(o)' = Current(o)
          BY <1>1, <1>7, <3>3, <4>3
        <5> QED
          BY <4>1, <5>1 DEF MigratorFacts
      <4> QED
        BY <4>2, <4>3
    <3> QED
      BY <1>1, <1>7, <2>2, <3>1, <3>2, <3>3
  <2> QED
    BY <2>1, <2>2
<1> QED
  BY <1>8 DEF MigratorFacts

(* MigratorFacts for any releases: a migrator that succeeds has its whole  *)
(* release recorded, and a version is committed by one migrator at a time. *)
THEOREM MigratorsCorrect == Spec => []MigratorFacts
<1>1. Init => MigratorFacts
  BY DEF Init, MigratorFacts, Stopped
<1>2. TypeOK /\ TypeOK' /\ MigratorFacts /\ [Next]_vars => MigratorFacts'
  <2>1. ASSUME MigratorFacts, UNCHANGED vars PROVE MigratorFacts'
    BY <2>1 DEF MigratorFacts, vars, AtFile, Current
  <2> QED
    BY <2>1, FactsStep DEF Next
<1> QED
  BY <1>1, <1>2, TypeCorrect, PTL DEF Spec

(* So has every file committed.                                            *)
LEMMA SchemaFiles ==
  ASSUME TypeOK, NEW i \in 1..Len(schema)
  PROVE  /\ schema[i].version \in Versions /\ schema[i].version \in Nat
         /\ schema[i].checksum \in Checksums /\ schema[i].checksum # None
<1>1. schema[i] \in File
  BY DEF TypeOK
<1> QED
  BY <1>1, Zenon DEF File

(* What a committed file finds: its version has no row yet.                *)
LEMMA CommitFindsNoRow ==
  ASSUME TypeOK, MigratorFacts, NEW m \in Migrators, Start(m) \/ Statement(m) \/ Failure(m)
  PROVE  \/ UNCHANGED <<recorded, schema>>
         \/ /\ run[m].pc = "commit" /\ AtFile(m)
            /\ Current(m) \in File /\ recorded[Current(m).version] = None
            /\ recorded' = [recorded EXCEPT ![Current(m).version] = Current(m).checksum]
            /\ schema' = Append(schema, Current(m))
            /\ Len(schema') = Len(schema) + 1
            /\ schema'[Len(schema) + 1] = Current(m)
            /\ \A i \in 1..Len(schema) : schema'[i] = schema[i]
  BY CommitEffect, CurrentFile DEF MigratorFacts, TypeOK

(* AppliedOnce for any releases: schema_migrations records exactly the     *)
(* versions whose SQL is committed, each once and from the recorded file.  *)
THEOREM RowsTellTheTruth == Spec => []AppliedOnce
<1>1. Init => AppliedOnce
  BY DEF Init, AppliedOnce
<1>2. TypeOK /\ MigratorFacts /\ AppliedOnce /\ [Next]_vars => AppliedOnce'
  <2>1. ASSUME AppliedOnce, UNCHANGED <<recorded, schema>> PROVE AppliedOnce'
    BY <2>1 DEF AppliedOnce
  <2>2. ASSUME TypeOK, MigratorFacts, AppliedOnce,
               NEW m \in Migrators, Start(m) \/ Statement(m) \/ Failure(m)
        PROVE  AppliedOnce'
    <3> DEFINE f == Current(m)
               n == Len(schema)
    <3> SUFFICES ASSUME f \in File, recorded[f.version] = None,
                        recorded' = [recorded EXCEPT ![f.version] = f.checksum],
                        Len(schema') = n + 1, schema'[n + 1] = f,
                        \A i \in 1..n : schema'[i] = schema[i]
                 PROVE  AppliedOnce'
      BY <2>1, <2>2, CommitFindsNoRow
    <3>1. /\ n \in Nat /\ f.version \in Versions /\ f.checksum \in Checksums
          /\ f = [version |-> f.version, checksum |-> f.checksum]
      BY <2>2 DEF File, TypeOK
    <3> DEFINE Typed(i) == schema[i].version \in Versions /\ schema[i].checksum # None
    <3>0. \A i \in 1..n : Typed(i)
      BY <2>2, SchemaFiles
    <3> HIDE DEF f
    <3>2. /\ recorded'[f.version] = f.checksum
          /\ \A v \in Versions : v # f.version => recorded'[v] = recorded[v]
      BY <2>2, <3>1 DEF TypeOK
    <3>3. \A i \in 1..n : schema[i].version # f.version
      BY <2>2, <3>0 DEF AppliedOnce
    <3> HIDE DEF n
    <3>4. ASSUME NEW v \in Versions, recorded'[v] # None
          PROVE  \E i \in 1..(n + 1) : schema'[i] = [version |-> v, checksum |-> recorded'[v]]
      <4>1. CASE v = f.version
        BY <3>1, <3>2, <4>1
      <4>2. CASE v # f.version
        <5>1. PICK i \in 1..n : schema[i] = [version |-> v, checksum |-> recorded[v]]
          BY <2>2, <3>2, <3>4, <4>2 DEF AppliedOnce, n
        <5> QED
          BY <3>1, <3>2, <4>2, <5>1
      <4> QED
        BY <4>1, <4>2
    <3>5. \A i \in 1..(n + 1) : recorded'[schema'[i].version] = schema'[i].checksum
      <4>1. \A i \in 1..n : recorded[schema[i].version] = schema[i].checksum
        BY <2>2 DEF AppliedOnce, n
      <4> QED
        BY <3>0, <3>1, <3>2, <3>3, <4>1
    <3>6. \A i, j \in 1..(n + 1) : schema'[i].version = schema'[j].version => i = j
      <4>1. \A i, j \in 1..n : schema[i].version = schema[j].version => i = j
        BY <2>2 DEF AppliedOnce, n
      <4> QED
        BY <3>1, <3>3, <4>1, SMTT(30)
    <3> QED
      BY <3>4, <3>5, <3>6 DEF AppliedOnce
  <2> QED
    BY <2>1, <2>2 DEF Next, vars
<1> QED
  BY <1>1, <1>2, TypeCorrect, MigratorsCorrect, PTL DEF Spec

(* InVersionOrder, for releases that grow only at the end: when a file is  *)
(* committed its migrator has passed every lower version of its release,   *)
(* and a higher version could not have been committed before.              *)
THEOREM VersionsInOrder == Spec => []InVersionOrder
<1>1. Init => InVersionOrder
  BY DEF Init, InVersionOrder
<1>2. TypeOK /\ MigratorFacts /\ AppliedOnce /\ InVersionOrder /\ [Next]_vars => InVersionOrder'
  <2>1. ASSUME InVersionOrder, UNCHANGED <<recorded, schema>> PROVE InVersionOrder'
    BY <2>1 DEF InVersionOrder
  <2>2. ASSUME TypeOK, MigratorFacts, AppliedOnce, InVersionOrder,
               NEW m \in Migrators, Start(m) \/ Statement(m) \/ Failure(m)
        PROVE  InVersionOrder'
    <3> DEFINE f == Current(m)
               n == Len(schema)
    <3> SUFFICES ASSUME run[m].pc = "commit", AtFile(m), f \in File, recorded[f.version] = None,
                        recorded' = [recorded EXCEPT ![f.version] = f.checksum],
                        Len(schema') = n + 1, schema'[n + 1] = f,
                        \A i \in 1..n : schema'[i] = schema[i]
                 PROVE  InVersionOrder'
      BY <2>1, <2>2, CommitFindsNoRow
    <3>1. /\ n \in Nat /\ f.version \in Nat
          /\ f.version \in Versions /\ f.checksum \in Checksums
      <4>1. n \in Nat
        BY <2>2 DEF TypeOK
      <4>2. f.version \in Versions /\ f.checksum \in Checksums
        BY DEF File
      <4> QED
        BY <4>1, <4>2, Zenon
    <3>0. \A i \in 1..n : schema[i].version \in Nat /\ schema[i].checksum # None
      BY <2>2, SchemaFiles
    <3>2. run[m].next \in 1..Len(Release[m]) /\ f = Release[m][run[m].next]
      BY <2>2, CurrentFile, Zenon DEF Current
    <3>3. \A o \in Migrators : \A k \in 1..Len(Release[o]) :
            Release[o][k].version \in Nat /\ Release[o][k].version \in Versions
      BY ReleaseFiles
    <3> HIDE DEF f
    <3>4. /\ recorded'[f.version] = f.checksum
          /\ \A v \in Versions : v # f.version => recorded'[v] = recorded[v]
          /\ \A v \in Versions : recorded[v] # None => recorded'[v] # None
      BY <2>2, <3>1 DEF TypeOK
    <3>5. \A i \in 1..n : schema[i].version < f.version
      <4> SUFFICES ASSUME NEW i \in 1..n PROVE schema[i].version < f.version
        OBVIOUS
      <4>1. schema[i].version # f.version
        BY <2>2, <3>0, SMTT(30) DEF AppliedOnce
      <4>2. ~(f.version < schema[i].version)
        BY <2>2, <3>2, SMTT(30) DEF InVersionOrder
      <4> QED
        BY <3>0, <3>1, <4>1, <4>2
    <3>6. ASSUME NEW o \in Migrators, NEW k \in 1..Len(Release[o]),
                 Release[o][k].version < f.version
          PROVE  recorded[Release[o][k].version] # None
      <4>1. PICK l \in 1..Len(Release[m]) : Release[m][l].version = Release[o][k].version
        BY <3>2, <3>6, ReleasesGrow, SMTT(30)
      <4>2. l < run[m].next
        <5>1. CASE run[m].next < l
          <6>1. Release[m][run[m].next].version <= Release[m][l].version
            BY <3>2, <5>1
          <6> QED
            BY <3>2, <3>3, <3>6, <4>1, <6>1, SMTT(30)
        <5>2. l # run[m].next
          BY <3>2, <3>3, <3>6, <4>1, SMTT(30)
        <5> QED
          BY <3>2, <5>1, <5>2
      <4>3. recorded[Release[m][l].version] = Release[m][l].checksum
        BY <2>2, <3>2, <4>2, SMTT(30) DEF MigratorFacts
      <4>4. Release[m][l].checksum # None
        BY ReleaseFiles
      <4> QED
        BY <4>1, <4>3, <4>4, SMTT(30)
    <3> HIDE DEF n
    <3>7. ASSUME NEW i \in 1..(n + 1), NEW o \in Migrators, NEW k \in 1..Len(Release[o]),
                 Release[o][k].version < schema'[i].version
          PROVE  recorded'[Release[o][k].version] # None
      <4>1. CASE i = n + 1
        BY <3>3, <3>4, <3>6, <3>7, <4>1
      <4>2. CASE i \in 1..n
        <5>1. recorded[Release[o][k].version] # None
          BY <2>2, <3>7, <4>2 DEF InVersionOrder, n
        <5> QED
          BY <3>3, <3>4, <5>1
      <4> QED
        BY <3>1, <4>1, <4>2
    <3>8. \A i, j \in 1..(n + 1) : i < j => schema'[i].version < schema'[j].version
      <4>1. \A i, j \in 1..n : i < j => schema[i].version < schema[j].version
        BY <2>2 DEF InVersionOrder, n
      <4>2. ASSUME NEW i \in 1..(n + 1), NEW j \in 1..(n + 1), i < j
            PROVE  schema'[i].version < schema'[j].version
        <5>1. i \in 1..n
          BY <3>1, <4>2
        <5>2. CASE j = n + 1
          BY <3>5, <5>1, <5>2
        <5>3. CASE j \in 1..n
          BY <4>1, <4>2, <5>1, <5>3
        <5> QED
          BY <3>1, <5>2, <5>3
      <4> QED
        BY <4>2
    <3> QED
      BY <3>7, <3>8 DEF InVersionOrder
  <2> QED
    BY <2>1, <2>2 DEF Next, vars
<1> QED
  BY <1>1, <1>2, TypeCorrect, MigratorsCorrect, RowsTellTheTruth, PTL DEF Spec
=============================================================================
