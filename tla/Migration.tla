----------------------------- MODULE Migration -----------------------------
(***************************************************************************)
(* Bringing the database up to date, in every process that starts: the     *)
(* embedded files of db.Migrate and River's own tables, each behind an     *)
(* advisory lock that a session holds, on connections of the process's     *)
(* pool.                                                                   *)
(*                                                                         *)
(* A thread is <<process, what>>: "main", or the mode whose goroutine      *)
(* calls queue.Migrate.  A file is a name with a checksum; its statements  *)
(* create what the next start would find already there.                    *)
(***************************************************************************)
EXTENDS Naturals, Sequences, FiniteSets

CONSTANTS
  Processes,
  Embedded,     \* the migration files each process's binary carries, in order
  MaxConns,     \* connections of one process's pool
  NoOne

Modes == {"smtpd", "worker", "api"}
Main(p) == <<p, "main">>
Threads == Processes \X ({"main"} \cup Modes)

ASSUME EmbeddedAssumption ==
  /\ MaxConns \in Nat \ {0}
  /\ NoOne \notin Threads
  /\ DOMAIN Embedded = Processes
  /\ \A p \in Processes :
       /\ Embedded[p] \in Seq([name : STRING, sum : STRING])
       /\ \A i, j \in DOMAIN Embedded[p] :
            Embedded[p][i].name = Embedded[p][j].name => i = j

VARIABLES
  applied,      \* schema_migrations: <<name, checksum>> of what was applied
  riverTables,  \* whether River's tables exist
  lock,         \* the two advisory locks: the thread whose session holds each
  main,         \* of each process: where main is, the rows it read, its file
  mode,         \* of each process and mode: where its goroutine is
  hub           \* of each process: the goroutine with the LISTEN connection

databaseVars == <<applied, riverTables, lock>>

Named(rows, name) == {r \in rows : r.name = name}

-----------------------------------------------------------------------------
(* The pool.  Who holds a connection follows from where everybody is:      *)
(* queue.Migrate keeps its own while River's migrator takes another.       *)
Migrating == {"lock", "migrator", "create"}

Held(p) ==
  (IF main[p].pc \in {"lock", "read", "files"} THEN 1 ELSE 0)
    + (IF hub[p] = "listening" THEN 1 ELSE 0)
    + Cardinality({m \in Modes : mode[p][m].pc \in Migrating})
    + Cardinality({m \in Modes : mode[p][m].pc = "create"})

FreeConn(p) == Held(p) < MaxConns /\ main[p].pc # "closing"

Unlocked(l, t) == IF lock[l] = t THEN [lock EXCEPT ![l] = NoOne] ELSE lock

-----------------------------------------------------------------------------
(* db.Migrate, before any mode runs.                                       *)
MainAcquires(p) ==
  /\ main[p].pc = "acquire" /\ FreeConn(p)
  /\ main' = [main EXCEPT ![p].pc = "lock"]
  /\ UNCHANGED <<databaseVars, mode, hub>>

MainLocks(p) ==
  /\ main[p].pc = "lock" /\ lock["phenk"] = NoOne
  /\ lock' = [lock EXCEPT !["phenk"] = Main(p)]
  /\ main' = [main EXCEPT ![p].pc = "read"]
  /\ UNCHANGED <<applied, riverTables, mode, hub>>

ReadApplied(p) ==
  /\ main[p].pc = "read"
  /\ main' = [main EXCEPT ![p].pc = "files", ![p].known = applied, ![p].at = 1]
  /\ UNCHANGED <<databaseVars, mode, hub>>

AtFile(p) == main[p].pc = "files" /\ main[p].at <= Len(Embedded[p])
File(p) == Embedded[p][main[p].at]

\* Deviation: a file is taken for applied because its name is there.
SkipByName(p) ==
  /\ AtFile(p) /\ Named(main[p].known, File(p).name) # {}
  /\ main' = [main EXCEPT ![p].at = @ + 1]
  /\ UNCHANGED <<databaseVars, mode, hub>>

SkipFile(p) ==
  /\ AtFile(p) /\ File(p) \in main[p].known
  /\ main' = [main EXCEPT ![p].at = @ + 1]
  /\ UNCHANGED <<databaseVars, mode, hub>>

\* Its statements and its row are one transaction.
ApplyFile(p) ==
  /\ AtFile(p) /\ Named(main[p].known, File(p).name) = {}
  /\ Named(applied, File(p).name) = {}
  /\ applied' = applied \cup {File(p)}
  /\ main' = [main EXCEPT ![p].at = @ + 1]
  /\ UNCHANGED <<riverTables, lock, mode, hub>>

Migrated(p) ==
  /\ main[p].pc = "files" /\ main[p].at > Len(Embedded[p])
  /\ lock' = Unlocked("phenk", Main(p))
  /\ main' = [main EXCEPT ![p].pc = "migrated"]
  /\ UNCHANGED <<applied, riverTables, mode, hub>>

\* Any error: the lock and the connection go back, and run returns.
MainReturns(p, how) ==
  /\ lock' = Unlocked("phenk", Main(p))
  /\ main' = [main EXCEPT ![p].pc = "closing", ![p].outcome = how]
  /\ UNCHANGED <<applied, riverTables, mode, hub>>

\* A file edited since it was applied, or one that was applied behind the
\* rows that were read: its statements find what they create.
FileRefused(p) ==
  /\ AtFile(p)
  /\ \/ \E r \in Named(main[p].known, File(p).name) : r # File(p)
     \/ Named(main[p].known, File(p).name) = {} /\ Named(applied, File(p).name) # {}
  /\ MainReturns(p, "failed")

-----------------------------------------------------------------------------
(* queue.Migrate, in the goroutine of a mode.                              *)
RiverAcquires(p, m) ==
  /\ mode[p][m].pc = "acquire" /\ FreeConn(p)
  /\ mode' = [mode EXCEPT ![p][m].pc = "lock"]
  /\ UNCHANGED <<databaseVars, main, hub>>

\* Deviation: no advisory lock around River's migrator.
RiverLocksNothing(p, m) ==
  /\ mode[p][m].pc = "lock"
  /\ mode' = [mode EXCEPT ![p][m].pc = "migrator"]
  /\ UNCHANGED <<databaseVars, main, hub>>

RiverLocks(p, m) ==
  /\ mode[p][m].pc = "lock" /\ lock["river"] = NoOne
  /\ lock' = [lock EXCEPT !["river"] = <<p, m>>]
  /\ mode' = [mode EXCEPT ![p][m].pc = "migrator"]
  /\ UNCHANGED <<applied, riverTables, main, hub>>

ReadVersions(p, m) ==
  /\ mode[p][m].pc = "migrator" /\ FreeConn(p)
  /\ mode' = [mode EXCEPT ![p][m] = [pc |-> "create", found |-> riverTables]]
  /\ UNCHANGED <<databaseVars, main, hub>>

CreateTables(p, m) ==
  /\ mode[p][m].pc = "create"
  /\ mode[p][m].found \/ ~riverTables
  /\ riverTables' = TRUE
  /\ lock' = Unlocked("river", <<p, m>>)
  /\ mode' = [mode EXCEPT ![p][m].pc = "ready"]
  /\ UNCHANGED <<applied, main, hub>>

\* A mode that returns an error gives up its lock and its connections.
ModeFails(p, m) ==
  /\ lock' = Unlocked("river", <<p, m>>)
  /\ mode' = [mode EXCEPT ![p][m].pc = "failed"]
  /\ UNCHANGED <<applied, riverTables, main, hub>>

TablesRefused(p, m) ==
  /\ mode[p][m].pc = "create" /\ ~mode[p][m].found /\ riverTables
  /\ ModeFails(p, m)

MigrationStep(p) ==
  \/ MainAcquires(p) \/ MainLocks(p) \/ ReadApplied(p)
  \/ SkipFile(p) \/ ApplyFile(p) \/ Migrated(p) \/ FileRefused(p)

RiverStep(p, m) ==
  \/ RiverAcquires(p, m) \/ RiverLocks(p, m)
  \/ ReadVersions(p, m) \/ CreateTables(p, m) \/ TablesRefused(p, m)

=============================================================================
