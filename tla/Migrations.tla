----------------------------- MODULE Migrations -----------------------------
(***************************************************************************)
(* The migration runner (cmd/pixrail-migrate over ApplyMigrations of       *)
(* internal/postgres/migrations.go).  Several migrators may run at once,   *)
(* of the same release or of different ones, and any of them may be run    *)
(* again.  Nothing in the repository does that: compose.yaml starts one    *)
(* migrator, once, so liveness is about an operator who does.              *)
(*                                                                         *)
(* Every statement is a step.  A migration's SQL and its schema_migrations *)
(* row are one transaction, which any error rolls back.  A version's row   *)
(* is its primary key: an insert waits for another transaction that has    *)
(* inserted the same key, and fails once a row with it is committed.       *)
(*                                                                         *)
(* A file is its version and its checksum; Release[m] are the files of     *)
(* migrator m in the order of their names.                                 *)
(***************************************************************************)
EXTENDS Naturals, Sequences

CONSTANTS None, Migrators, Versions, Checksums, Release

File == [version : Versions, checksum : Checksums]

(* LoadMigrations: sorted by name, hence by the version that begins it.    *)
(* Two files may begin with the same version.                              *)
Loaded(files) ==
  \A i, j \in 1..Len(files) : i < j => files[i].version <= files[j].version

ASSUME ReleaseAssumption ==
  /\ Versions \subseteq Nat
  /\ None \notin Checksums
  /\ Release \in [Migrators -> Seq(File)]
  /\ \A m \in Migrators : Loaded(Release[m])

(* A release keeps the versions of the releases before it: it adds files   *)
(* at the end only.                                                        *)
ASSUME ReleasesGrow ==
  \A m, o \in Migrators :
    \A i \in 1..Len(Release[m]), j \in 1..Len(Release[o]) :
      Release[o][j].version < Release[m][i].version =>
        \E k \in 1..Len(Release[m]) : Release[m][k].version = Release[o][j].version

VARIABLES recorded,     \* the checksum in the schema_migrations row of a version
          schema,       \* the files whose SQL has been committed, in that order
          run           \* run[m], where ApplyMigrations is

vars == <<recorded, schema, run>>

Stopped == [pc |-> "stopped", next |-> 1]

Init ==
  /\ recorded = [v \in Versions |-> None]
  /\ schema = <<>>
  /\ run = [m \in Migrators |-> Stopped]

(* The file the loop is at.                                                *)
Current(m) == Release[m][run[m].next]
AtFile(m) == run[m].next <= Len(Release[m])

-----------------------------------------------------------------------------
(* Deliberately wrong forms of the operators below.                        *)
NoKey(m) == TRUE
ContinueOnMismatch(m) == AtFile(m) /\ recorded[Current(m).version] # None
RecordOnly(file) ==
  recorded' = [recorded EXCEPT ![file.version] = file.checksum] /\ UNCHANGED schema
SkipOnError(m) ==
  run' = [run EXCEPT ![m] = [pc |-> "select", next |-> run[m].next + 1]]
SkipsNothing(m) == FALSE

-----------------------------------------------------------------------------
(* main up to the first statement, `create table if not exists'.           *)
Start(m) ==
  /\ run[m].pc \in {"stopped", "done"}
  /\ run' = [run EXCEPT ![m] = [pc |-> "select", next |-> 1]]
  /\ UNCHANGED <<recorded, schema>>

(* Error, deadline or crash: the open transaction is rolled back and the   *)
(* process exits.                                                          *)
Return(m) == run' = [run EXCEPT ![m] = Stopped]

Skips(m) == AtFile(m) /\ recorded[Current(m).version] = Current(m).checksum

SelectChecksum(m) ==
  /\ run[m].pc = "select" /\ AtFile(m)
  /\ \/ /\ Skips(m)
        /\ run' = [run EXCEPT ![m].next = @ + 1]
     \/ /\ ~Skips(m) /\ recorded[Current(m).version] # None
        /\ Return(m)
     \/ /\ recorded[Current(m).version] = None
        /\ run' = [run EXCEPT ![m].pc = "exec"]
  /\ UNCHANGED <<recorded, schema>>

(* Any error of the query is taken for a missing row.                      *)
SelectFails(m) ==
  /\ run[m].pc = "select" /\ AtFile(m)
  /\ run' = [run EXCEPT ![m].pc = "exec"]
  /\ UNCHANGED <<recorded, schema>>

(* Begin and the migration's SQL.                                          *)
ExecSQL(m) ==
  /\ run[m].pc = "exec"
  /\ run' = [run EXCEPT ![m].pc = "insert"]
  /\ UNCHANGED <<recorded, schema>>

(* The primary key: no transaction under way and no committed row has it.  *)
KeyLocked(m) ==
  \E o \in Migrators : run[o].pc = "commit" /\ Current(o).version = Current(m).version
KeyFree(m) == recorded[Current(m).version] = None

InsertVersion(m) ==
  /\ run[m].pc = "insert"
  /\ ~KeyLocked(m)
  /\ IF KeyFree(m) THEN run' = [run EXCEPT ![m].pc = "commit"] ELSE Return(m)
  /\ UNCHANGED <<recorded, schema>>

Committed(file) ==
  /\ recorded' = [recorded EXCEPT ![file.version] = file.checksum]
  /\ schema' = Append(schema, file)

Commit(m) ==
  /\ run[m].pc = "commit"
  /\ Committed(Current(m))
  /\ run' = [run EXCEPT ![m] = [pc |-> "select", next |-> run[m].next + 1]]

(* The commit goes through and its answer is lost.                         *)
CommitUnheard(m) ==
  /\ run[m].pc = "commit"
  /\ Committed(Current(m))
  /\ Return(m)

Finish(m) ==
  /\ run[m].pc = "select" /\ ~AtFile(m)
  /\ run' = [run EXCEPT ![m].pc = "done"]
  /\ UNCHANGED <<recorded, schema>>

Fail(m) ==
  /\ run[m].pc \in {"select", "exec", "insert", "commit"}
  /\ Return(m)
  /\ UNCHANGED <<recorded, schema>>

Statement(m) ==
  \/ SelectChecksum(m) \/ ExecSQL(m) \/ InsertVersion(m) \/ Commit(m) \/ Finish(m)
Failure(m) == SelectFails(m) \/ CommitUnheard(m) \/ Fail(m)

Next == \E m \in Migrators : Start(m) \/ Statement(m) \/ Failure(m)

Spec == Init /\ [][Next]_vars

(* Assumed of an operator: a migrator that failed is started again.  And   *)
(* of the database: statements return and failures come to an end some     *)
(* time, since one more could always end a one-shot process.  A lost       *)
(* race for a version and a checksum that differs end a run like a         *)
(* failure, but are what a statement does and never cease.                 *)
Fairness ==
  /\ \A m \in Migrators :
       /\ WF_vars(Start(m) /\ run[m].pc = "stopped")
       /\ WF_vars(Statement(m))
  /\ <>[][\A m \in Migrators : Failure(m) => Statement(m)]_vars

LiveSpec == Spec /\ Fairness

-----------------------------------------------------------------------------
(* The rows and each runner's place in its release have the types of the   *)
(* code, and the statements of a migration are sent for a file of the      *)
(* release only.                                                           *)
TypeOK ==
  /\ recorded \in [Versions -> Checksums \cup {None}]
  /\ schema \in Seq(File)
  /\ run \in [Migrators -> [pc : {"stopped", "select", "exec", "insert", "commit", "done"},
                            next : Nat \ {0}]]
  /\ \A m \in Migrators :
       /\ run[m].next <= Len(Release[m]) + 1
       /\ run[m].pc \in {"exec", "insert", "commit"} => AtFile(m)

(* schema_migrations tells the truth: a row stands for a version exactly   *)
(* when that version's SQL has been committed, once, from the file with    *)
(* the row's checksum, whichever of the migrators racing for it won.       *)
AppliedOnce ==
  /\ \A v \in Versions :
       recorded[v] # None =>
         \E i \in 1..Len(schema) : schema[i] = [version |-> v, checksum |-> recorded[v]]
  /\ \A i \in 1..Len(schema) : recorded[schema[i].version] = schema[i].checksum
  /\ \A i, j \in 1..Len(schema) : schema[i].version = schema[j].version => i = j

(* Whatever releases run side by side, the SQL of a version is committed   *)
(* only after that of every lower version any of them has.                 *)
InVersionOrder ==
  \A i \in 1..Len(schema) :
    /\ \A j \in 1..Len(schema) : i < j => schema[i].version < schema[j].version
    /\ \A m \in Migrators : \A k \in 1..Len(Release[m]) :
         Release[m][k].version < schema[i].version =>
           recorded[Release[m][k].version] # None

(* Everything a migrator has passed in its loop stands recorded with the   *)
(* checksum of its own file; so a migrator that exits with success has     *)
(* found or applied all of its release and nothing edited since, even if   *)
(* its queries failed or others did the work.  Only one migrator at a time *)
(* is between a version's insert and its commit.                           *)
MigratorFacts ==
  \A m \in Migrators :
    /\ run[m].pc = "done" => ~AtFile(m)
    /\ \A k \in 1..(run[m].next - 1) :
         recorded[Release[m][k].version] = Release[m][k].checksum
    /\ run[m].pc = "commit" =>
         /\ recorded[Current(m).version] = None
         /\ \A o \in Migrators \ {m} :
              run[o].pc = "commit" => Current(o).version # Current(m).version

Agrees(m) ==
  \A k \in 1..Len(Release[m]) :
    recorded[Release[m][k].version] \in {None, Release[m][k].checksum}

(* A migrator whose files never disagree with what is recorded gets        *)
(* through if it is run often enough, however many races and statements it *)
(* loses on the way.                                                       *)
EventuallyMigrated ==
  \A m \in Migrators : []Agrees(m) => <>(run[m].pc = "done")
=============================================================================
