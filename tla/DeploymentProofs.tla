-------------------------- MODULE DeploymentProofs --------------------------
(***************************************************************************)
(* Proofs that a process serves only on a database that has what its       *)
(* binary carries, and that processes that start together do not make each *)
(* other fail: for any number of processes, whatever their binaries carry, *)
(* any number of connections and of failures.                              *)
(*                                                                         *)
(* The argument: what is read under an advisory lock stays true until the  *)
(* lock is given up, because whoever changes it needs the same lock        *)
(* (LocksHeld).  So a file that was not applied when the rows were read is *)
(* not applied by anybody else (FilesKnown), and River's tables are there  *)
(* in the end exactly if they were found (TablesKnown).                    *)
(***************************************************************************)
EXTENDS Deployment, TLAPS

Rows == [name : STRING, sum : STRING]

MainState ==
  [pc : {"off", "acquire", "lock", "read", "files", "migrated", "running", "closing"},
   known : SUBSET Rows, at : Nat \ {0}, outcome : {"none", "done", "failed", "killed"}]

ModeState ==
  [pc : {"off", "acquire", "lock", "migrator", "create", "ready", "serving", "done", "failed"},
   found : BOOLEAN]

StartupTypeOK ==
  /\ applied \subseteq Rows /\ riverTables \in BOOLEAN
  /\ lock \in [{"phenk", "river"} -> Threads \cup {NoOne}]
  /\ main \in [Processes -> MainState]
  /\ mode \in [Processes -> [Modes -> ModeState]]
  /\ hub \in [Processes -> {"off", "waiting", "listening"}]
  /\ disturbed \in [Processes -> SUBSET {"signal", "fault"}]

\* Whoever has read what a lock protects holds it.
LocksHeld ==
  \A p \in Processes :
    /\ main[p].pc \in {"read", "files"} => lock["phenk"] = Main(p)
    /\ \A m \in Modes : mode[p][m].pc \in {"migrator", "create"} => lock["river"] = <<p, m>>

\* The rows that were read and the files applied since are all there are.
FilesKnown ==
  \A p \in Processes :
    /\ main[p].pc = "files" =>
         /\ main[p].known \subseteq applied
         /\ \A i \in DOMAIN Embedded[p] : i < main[p].at => Embedded[p][i] \in applied
         /\ \A r \in applied : r \notin main[p].known =>
              \E i \in DOMAIN Embedded[p] : i < main[p].at /\ r = Embedded[p][i]
    /\ main[p].pc \in {"migrated", "running"} =>
         \A i \in DOMAIN Embedded[p] : Embedded[p][i] \in applied

ModesRun ==
  \A p \in Processes : \A m \in Modes :
    /\ mode[p][m].pc # "off" => m \in Runs(p)
    /\ mode[p][m].pc \notin {"off"} \cup Ended => main[p].pc = "running"

TablesKnown ==
  \A p \in Processes : \A m \in Modes :
    /\ mode[p][m].pc = "create" => mode[p][m].found = riverTables
    /\ mode[p][m].pc \in {"ready", "serving"} /\ m # "api" => riverTables

ModesFailForCause ==
  \A p \in Processes : \A m \in Modes : mode[p][m].pc = "failed" => disturbed[p] # {}

StartupInv ==
  /\ StartupTypeOK /\ LocksHeld /\ FilesKnown /\ ModesRun /\ TablesKnown
  /\ ModesFailForCause /\ FailsOnlyForCause

-----------------------------------------------------------------------------
(* At first no process runs and nobody holds a lock.                       *)
LEMMA StartupInitInv == Init => StartupInv
<1> SUFFICES ASSUME Init  PROVE StartupInv
  OBVIOUS
<1> USE DEF Init, AtRest
<1>1. StartupTypeOK
  <2>1. applied \subseteq Rows
    BY InstalledAssumption DEF Rows
  <2> QED
    BY <2>1 DEF StartupTypeOK, MainState, ModeState
<1>2. LocksHeld /\ FilesKnown /\ ModesRun
  BY DEF LocksHeld, FilesKnown, ModesRun
<1>3. TablesKnown /\ ModesFailForCause /\ FailsOnlyForCause
  BY DEF TablesKnown, ModesFailForCause, FailsOnlyForCause
<1> QED
  BY <1>1, <1>2, <1>3 DEF StartupInv

(* A lock is held by one thread.                                           *)
LEMMA OneHolder ==
  ASSUME StartupInv, NEW p \in Processes
  PROVE  /\ lock["phenk"] = NoOne => main[p].pc \notin {"read", "files"}
         /\ \A m \in Modes : lock["river"] = NoOne => mode[p][m].pc \notin {"migrator", "create"}
         /\ \A q \in Processes :
              main[p].pc \in {"read", "files"} /\ main[q].pc \in {"read", "files"} => p = q
         /\ \A q \in Processes : \A m, n \in Modes :
              /\ mode[p][m].pc \in {"migrator", "create"}
              /\ mode[q][n].pc \in {"migrator", "create"}
              => p = q /\ m = n
<1>1. Main(p) \in Threads /\ \A m \in Modes : <<p, m>> \in Threads
  BY DEF Main, Threads
<1>2. NoOne \notin Threads
  BY EmbeddedAssumption
<1>3. \A q \in Processes : Main(p) = Main(q) => p = q
  BY DEF Main
<1>4. lock["phenk"] = NoOne => main[p].pc \notin {"read", "files"}
  BY <1>1, <1>2 DEF StartupInv, LocksHeld
<1>5. \A m \in Modes : lock["river"] = NoOne => mode[p][m].pc \notin {"migrator", "create"}
  BY <1>1, <1>2 DEF StartupInv, LocksHeld
<1>6. ASSUME NEW q \in Processes,
             main[p].pc \in {"read", "files"}, main[q].pc \in {"read", "files"}
      PROVE  p = q
  BY <1>3, <1>6 DEF StartupInv, LocksHeld
<1>7. ASSUME NEW q \in Processes, NEW m \in Modes, NEW n \in Modes,
             mode[p][m].pc \in {"migrator", "create"}, mode[q][n].pc \in {"migrator", "create"}
      PROVE  p = q /\ m = n
  <2>1. lock["river"] = <<p, m>> /\ lock["river"] = <<q, n>>
    BY <1>7 DEF StartupInv, LocksHeld
  <2> QED  BY <2>1
<1> QED
  BY <1>4, <1>5, <1>6, <1>7

(* What others applied earlier stays applied.                              *)
LEMMA ConflictsRemain ==
  ASSUME NEW p \in Processes, applied \subseteq applied', Conflicts(p)
  PROVE  Conflicts(p)'
BY DEF Conflicts, Named

-----------------------------------------------------------------------------
(* A step of main: it takes a free lock, gives up its own or leaves both   *)
(* alone, and applies files only while it holds the lock.                  *)
MainMove(p, r) ==
  /\ main' = [main EXCEPT ![p] = r] /\ UNCHANGED <<riverTables, mode, hub>>
  /\ disturbed' \in [Processes -> SUBSET {"signal", "fault"}]
  /\ \A q \in Processes : disturbed[q] \subseteq disturbed'[q]
  /\ applied \subseteq applied' /\ applied' \subseteq Rows
  /\ applied' # applied => main[p].pc = "files"
  /\ \/ lock' = lock
     \/ lock["phenk"] = NoOne /\ lock' = [lock EXCEPT !["phenk"] = Main(p)]
     \/ lock' = Unlocked("phenk", Main(p))

\* Where it may go.
MainArrives(p, r) ==
  /\ main[p].pc = "running" => \A m \in Modes : mode[p][m].pc \in {"off"} \cup Ended
  /\ r.pc \in {"read", "files"} => lock'["phenk"] = Main(p)
  /\ r.pc = "files" =>
       /\ r.known \subseteq applied'
       /\ \A i \in DOMAIN Embedded[p] : i < r.at => Embedded[p][i] \in applied'
       /\ \A row \in applied' : row \notin r.known =>
            \E i \in DOMAIN Embedded[p] : i < r.at /\ row = Embedded[p][i]
  /\ r.pc \in {"migrated", "running"} =>
       \A i \in DOMAIN Embedded[p] : Embedded[p][i] \in applied'
  /\ r.outcome = "failed" => disturbed'[p] # {} \/ Conflicts(p)'

(* The main thread of a process may move to any place it has a right to be *)
(* in.                                                                     *)
LEMMA MainMoves ==
  ASSUME StartupInv, NEW p \in Processes, NEW r \in MainState,
         MainMove(p, r), MainArrives(p, r)
  PROVE  StartupInv'
<1> USE DEF MainMove, MainArrives
<1>1. main'[p] = r /\ \A q \in Processes : q # p => main'[q] = main[q]
  BY DEF StartupInv, StartupTypeOK
<1>2. Main(p) \in Threads /\ Main(p) # NoOne
      /\ \A q \in Processes : q # p => Main(q) # Main(p)
  BY EmbeddedAssumption DEF Main, Threads
<1>3. /\ lock' \in [{"phenk", "river"} -> Threads \cup {NoOne}]
      /\ lock'["river"] = lock["river"]
      /\ lock["phenk"] \notin {NoOne, Main(p)} => lock'["phenk"] = lock["phenk"]
  BY <1>2 DEF StartupInv, StartupTypeOK, Unlocked
<1>4. StartupTypeOK'
  BY <1>3 DEF StartupInv, StartupTypeOK
<1>5. ASSUME NEW q \in Processes, q # p, main[q].pc \in {"read", "files"}
      PROVE  lock'["phenk"] = Main(q)
  <2>1. lock["phenk"] = Main(q) /\ Main(q) # NoOne
    BY <1>5, EmbeddedAssumption DEF StartupInv, LocksHeld, Main, Threads
  <2> QED  BY <1>2, <1>3, <1>5, <2>1
<1>6. LocksHeld'
  <2>1. ASSUME NEW q \in Processes, main'[q].pc \in {"read", "files"}
        PROVE  lock'["phenk"] = Main(q)
    BY <1>1, <1>5, <2>1
  <2>2. ASSUME NEW q \in Processes, NEW m \in Modes, mode'[q][m].pc \in {"migrator", "create"}
        PROVE  lock'["river"] = <<q, m>>
    BY <1>3, <2>2 DEF StartupInv, LocksHeld
  <2> QED  BY <2>1, <2>2 DEF LocksHeld
<1>7. FilesKnown'
  <2>1. ASSUME NEW q \in Processes, q # p, main[q].pc = "files"
        PROVE  applied' = applied
    BY <2>1, OneHolder
  <2>2. ASSUME NEW q \in Processes, main'[q].pc = "files"
        PROVE  /\ main'[q].known \subseteq applied'
               /\ \A i \in DOMAIN Embedded[q] : i < main'[q].at => Embedded[q][i] \in applied'
               /\ \A row \in applied' : row \notin main'[q].known =>
                    \E i \in DOMAIN Embedded[q] : i < main'[q].at /\ row = Embedded[q][i]
    <3>1. CASE q = p
      BY <1>1, <2>2, <3>1
    <3>2. CASE q # p
      BY <1>1, <2>1, <2>2, <3>2 DEF StartupInv, FilesKnown
    <3> QED  BY <3>1, <3>2
  <2>3. ASSUME NEW q \in Processes, main'[q].pc \in {"migrated", "running"},
               NEW i \in DOMAIN Embedded[q]
        PROVE  Embedded[q][i] \in applied'
    <3>1. CASE q = p
      BY <1>1, <2>3, <3>1
    <3>2. CASE q # p
      BY <1>1, <2>3, <3>2 DEF StartupInv, FilesKnown
    <3> QED  BY <3>1, <3>2
  <2> QED  BY <2>2, <2>3 DEF FilesKnown
<1>8. ModesRun'
  BY <1>1 DEF StartupInv, ModesRun
<1>9. TablesKnown'
  BY DEF StartupInv, TablesKnown
<1>10. ModesFailForCause'
  BY DEF StartupInv, ModesFailForCause
<1>11. FailsOnlyForCause'
  <2>1. ASSUME NEW q \in Processes, main'[q].outcome = "failed"
        PROVE  disturbed'[q] # {} \/ Conflicts(q)'
    BY <1>1, <2>1, ConflictsRemain DEF StartupInv, FailsOnlyForCause
  <2> QED  BY <2>1 DEF FailsOnlyForCause
<1> QED
  BY <1>4, <1>6, <1>7, <1>8, <1>9, <1>10, <1>11 DEF StartupInv

(* A step of a mode, likewise: it creates River's tables only while it     *)
(* holds the lock.                                                         *)
ModeMove(p, m, r) ==
  /\ mode[p][m].pc # "off"
  /\ mode' = [mode EXCEPT ![p][m] = r] /\ UNCHANGED <<applied, main, hub>>
  /\ disturbed' \in [Processes -> SUBSET {"signal", "fault"}]
  /\ \A q \in Processes : disturbed[q] \subseteq disturbed'[q]
  /\ riverTables' \in BOOLEAN /\ (riverTables => riverTables')
  /\ riverTables' # riverTables => mode[p][m].pc = "create"
  /\ \/ lock' = lock
     \/ lock["river"] = NoOne /\ lock' = [lock EXCEPT !["river"] = <<p, m>>]
     \/ lock' = Unlocked("river", <<p, m>>)

ModeArrives(p, m, r) ==
  /\ r.pc \notin {"off"} \cup Ended => main[p].pc = "running"
  /\ r.pc \in {"migrator", "create"} => lock'["river"] = <<p, m>>
  /\ r.pc = "create" => r.found = riverTables'
  /\ r.pc \in {"ready", "serving"} /\ m # "api" => riverTables'
  /\ r.pc = "failed" => disturbed'[p] # {}

(* A mode may move to any place it has a right to be in.                   *)
LEMMA ModeMoves ==
  ASSUME StartupInv, NEW p \in Processes, NEW m \in Modes, NEW r \in ModeState,
         ModeMove(p, m, r), ModeArrives(p, m, r)
  PROVE  StartupInv'
<1> USE DEF ModeMove, ModeArrives
<1>1. /\ mode'[p][m] = r
      /\ \A q \in Processes : \A n \in Modes : q # p \/ n # m => mode'[q][n] = mode[q][n]
  BY DEF StartupInv, StartupTypeOK
<1>2. <<p, m>> \in Threads /\ \A q \in Processes : \A n \in Modes :
        <<q, n>> # NoOne /\ (q # p \/ n # m => <<q, n>> # <<p, m>>)
  BY EmbeddedAssumption DEF Threads
<1>3. /\ lock' \in [{"phenk", "river"} -> Threads \cup {NoOne}]
      /\ lock'["phenk"] = lock["phenk"]
      /\ lock["river"] \notin {NoOne, <<p, m>>} => lock'["river"] = lock["river"]
  <2> DEFINE t == <<p, m>>
  <2>1. t \in Threads /\ lock \in [{"phenk", "river"} -> Threads \cup {NoOne}]
    BY <1>2 DEF StartupInv, StartupTypeOK
  <2>2. \/ lock' = lock
        \/ lock["river"] = NoOne /\ lock' = [lock EXCEPT !["river"] = t]
        \/ lock["river"] = t /\ lock' = [lock EXCEPT !["river"] = NoOne]
    BY DEF Unlocked
  <2> HIDE DEF t
  <2>3. /\ lock' \in [{"phenk", "river"} -> Threads \cup {NoOne}]
        /\ lock'["phenk"] = lock["phenk"]
        /\ lock["river"] \notin {NoOne, t} => lock'["river"] = lock["river"]
    BY <2>1, <2>2
  <2> QED  BY <2>3 DEF t
<1>4. StartupTypeOK'
  BY <1>3 DEF StartupInv, StartupTypeOK
<1>5. ASSUME NEW q \in Processes, NEW n \in Modes, mode'[q][n].pc \in {"migrator", "create"}
      PROVE  lock'["river"] = <<q, n>>
  <2>1. CASE q = p /\ n = m
    BY <1>1, <1>5, <2>1
  <2>2. CASE q # p \/ n # m
    <3>1. lock["river"] = <<q, n>>
      BY <1>1, <1>5, <2>2 DEF StartupInv, LocksHeld
    <3> QED  BY <1>2, <1>3, <2>2, <3>1
  <2> QED  BY <2>1, <2>2
<1>6. LocksHeld'
  BY <1>3, <1>5 DEF StartupInv, LocksHeld
<1>7. ASSUME NEW q \in Processes, NEW n \in Modes
      PROVE  /\ mode'[q][n].pc # "off" => n \in Runs(q)
             /\ mode'[q][n].pc \notin {"off"} \cup Ended => main'[q].pc = "running"
             /\ mode'[q][n].pc = "create" => mode'[q][n].found = riverTables'
             /\ mode'[q][n].pc \in {"ready", "serving"} /\ n # "api" => riverTables'
             /\ mode'[q][n].pc = "failed" => disturbed'[q] # {}
  <2>1. CASE q = p /\ n = m
    BY <1>1, <2>1 DEF StartupInv, ModesRun
  <2>2. CASE q # p \/ n # m
    <3>1. mode'[q][n] = mode[q][n]
      BY <1>1, <2>2
    <3>2. mode[q][n].pc = "create" => riverTables' = riverTables
      BY <2>2, OneHolder DEF StartupInv, StartupTypeOK
    <3> QED
      BY <3>1, <3>2 DEF StartupInv, ModesRun, TablesKnown, ModesFailForCause
  <2> QED  BY <2>1, <2>2
<1>8. ModesRun' /\ TablesKnown' /\ ModesFailForCause'
  BY <1>7 DEF ModesRun, TablesKnown, ModesFailForCause
<1>9. FilesKnown'
  BY DEF StartupInv, FilesKnown
<1>10. FailsOnlyForCause'
  BY DEF StartupInv, FailsOnlyForCause, Conflicts, Named
<1> QED
  BY <1>4, <1>6, <1>8, <1>9, <1>10 DEF StartupInv

-----------------------------------------------------------------------------
(* Steps of main that touch neither the files nor the rows it read: what   *)
(* is left to show of each is where it goes.                               *)
MainWalk(p, pc, outcome) ==
  /\ main' = [main EXCEPT ![p].pc = pc, ![p].outcome = outcome]
  /\ UNCHANGED <<applied, riverTables, mode, hub>>
  /\ disturbed' \in [Processes -> SUBSET {"signal", "fault"}]
  /\ \A q \in Processes : disturbed[q] \subseteq disturbed'[q]
  /\ \/ lock' = lock
     \/ lock["phenk"] = NoOne /\ lock' = [lock EXCEPT !["phenk"] = Main(p)]
     \/ lock' = Unlocked("phenk", Main(p))

(* The main thread may go on to a place it has a right to, leaving the     *)
(* database and its modes alone.                                           *)
LEMMA MainWalks ==
  ASSUME StartupInv, NEW p \in Processes, NEW pc \in {"lock", "read", "migrated", "closing"},
         NEW outcome \in {"none", "done", "failed", "killed"},
         MainWalk(p, pc, outcome),
         main[p].pc = "running" => \A m \in Modes : mode[p][m].pc \in {"off"} \cup Ended,
         pc = "read" => lock'["phenk"] = Main(p),
         pc = "migrated" => \A i \in DOMAIN Embedded[p] : Embedded[p][i] \in applied,
         outcome = "failed" => disturbed'[p] # {} \/ Conflicts(p)
  PROVE  StartupInv'
<1> DEFINE r == [main[p] EXCEPT !.pc = pc, !.outcome = outcome]
<1>1. main \in [Processes -> MainState] /\ applied \subseteq Rows /\ main[p] \in MainState
  BY DEF StartupInv, StartupTypeOK
<1>2. r \in MainState /\ r.pc = pc /\ r.outcome = outcome
  BY <1>1 DEF MainState
<1>3. main' = [main EXCEPT ![p] = r]
  BY <1>1 DEF MainWalk
<1> HIDE DEF r
<1>4. MainMove(p, r)
  BY <1>1, <1>3 DEF MainWalk, MainMove
<1>5. MainArrives(p, r)
  BY <1>2, ConflictsRemain DEF MainWalk, MainArrives
<1> QED
  BY <1>2, <1>4, <1>5, MainMoves

-----------------------------------------------------------------------------
(* Migrating, file by file under the lock, keeps the invariant.            *)
LEMMA MigrationStepInv ==
  ASSUME StartupInv, NEW p \in Processes, MigrationStep(p), UNCHANGED supervisionVars
  PROVE  StartupInv'
<1>1. /\ main \in [Processes -> MainState] /\ main[p] \in MainState /\ applied \subseteq Rows
      /\ disturbed' = disturbed /\ disturbed \in [Processes -> SUBSET {"signal", "fault"}]
      /\ lock \in [{"phenk", "river"} -> Threads \cup {NoOne}]
  BY DEF StartupInv, StartupTypeOK, supervisionVars
<1>2. main[p].outcome = "failed" => disturbed'[p] # {} \/ Conflicts(p)
  BY <1>1 DEF StartupInv, FailsOnlyForCause
<1> DEFINE carried == Embedded[p]
<1>3. carried \in Seq(Rows)
  BY EmbeddedAssumption DEF Rows
<1>4. DOMAIN carried = 1..Len(carried) /\ \A i \in DOMAIN carried : carried[i] \in Rows
  <2> HIDE DEF carried
  <2> QED  BY <1>3
<1>5. /\ main[p].outcome \in {"none", "done", "failed", "killed"}
      /\ main[p].at \in Nat \ {0} /\ main[p].known \subseteq Rows
  BY <1>1 DEF MainState
<1>6. ASSUME MainAcquires(p)  PROVE StartupInv'
  <2>1. main[p].pc = "acquire" /\ MainWalk(p, "lock", main[p].outcome)
    <3>1. main' = [main EXCEPT ![p].pc = "lock", ![p].outcome = main[p].outcome]
      BY <1>1, <1>6 DEF MainAcquires, MainState
    <3> QED  BY <1>1, <1>6, <3>1 DEF MainAcquires, databaseVars, MainWalk
  <2> QED
    BY <1>2, <1>5, <2>1, MainWalks
<1>7. ASSUME MainLocks(p)  PROVE StartupInv'
  <2>1. main[p].pc = "lock" /\ MainWalk(p, "read", main[p].outcome)
    <3>1. main' = [main EXCEPT ![p].pc = "read", ![p].outcome = main[p].outcome]
      BY <1>1, <1>7 DEF MainLocks, MainState
    <3> QED  BY <1>1, <1>7, <3>1 DEF MainLocks, MainWalk
  <2>2. lock'["phenk"] = Main(p)
    BY <1>1, <1>7 DEF MainLocks
  <2> QED
    BY <1>2, <1>5, <2>1, <2>2, MainWalks
<1>8. ASSUME Migrated(p)  PROVE StartupInv'
  <2>1. main[p].pc = "files" /\ MainWalk(p, "migrated", main[p].outcome)
    <3>1. main' = [main EXCEPT ![p].pc = "migrated", ![p].outcome = main[p].outcome]
      BY <1>1, <1>8 DEF Migrated, MainState
    <3> QED  BY <1>1, <1>8, <3>1 DEF Migrated, MainWalk
  <2>2. main[p].at > Len(Embedded[p])
    BY <1>8 DEF Migrated
  <2>3. \A i \in DOMAIN Embedded[p] : Embedded[p][i] \in applied
    BY <1>4, <1>5, <2>1, <2>2 DEF StartupInv, FilesKnown
  <2> QED
    BY <1>2, <1>5, <2>1, <2>3, MainWalks
<1>9. ASSUME ReadApplied(p)  PROVE StartupInv'
  <2> DEFINE r == [main[p] EXCEPT !.pc = "files", !.known = applied, !.at = 1]
  <2>1. main[p].pc = "read" /\ UNCHANGED <<applied, riverTables, mode, hub, lock>>
    BY <1>9 DEF ReadApplied, databaseVars
  <2>2. /\ r \in MainState /\ r.pc = "files" /\ r.known = applied
        /\ r.outcome = main[p].outcome /\ r.at = 1
    <3> DEFINE s == [main[p] EXCEPT !.known = applied]
    <3>1. applied \in SUBSET Rows
      BY <1>1
    <3>2. s \in MainState /\ s.known = applied /\ s.outcome = main[p].outcome
      BY <1>1, <3>1 DEF MainState
    <3> DEFINE t == [s EXCEPT !.pc = "files"]
    <3> HIDE DEF s
    <3>3. /\ t \in MainState /\ t.pc = "files" /\ t.known = applied
          /\ t.outcome = main[p].outcome
      BY <3>2 DEF MainState
    <3>4. r = [t EXCEPT !.at = 1]
      BY <1>1 DEF s, MainState
    <3> HIDE DEF t, r
    <3> QED  BY <3>3, <3>4 DEF MainState
  <2>3. main' = [main EXCEPT ![p] = r]
    BY <1>1, <1>9 DEF ReadApplied
  <2> HIDE DEF r
  <2>4. MainMove(p, r)
    BY <1>1, <2>1, <2>3 DEF MainMove
  <2>5. MainArrives(p, r)
    <3>1. \A i \in DOMAIN Embedded[p] : ~(i < r.at)
      BY <1>4, <2>2
    <3> QED
      BY <1>2, <2>1, <2>2, <3>1, ConflictsRemain DEF StartupInv, LocksHeld, MainArrives
  <2> QED
    BY <2>2, <2>4, <2>5, MainMoves
<1>10. ASSUME SkipFile(p)  PROVE StartupInv'
  <2> DEFINE r == [main[p] EXCEPT !.at = @ + 1]
  <2>1. /\ main[p].pc = "files" /\ Embedded[p][main[p].at] \in main[p].known
        /\ UNCHANGED <<applied, riverTables, mode, hub, lock>>
    BY <1>10 DEF SkipFile, AtFile, File, databaseVars
  <2>2. /\ r \in MainState /\ r.pc = "files" /\ r.known = main[p].known
        /\ r.at = main[p].at + 1 /\ r.outcome = main[p].outcome
    BY <1>1, <1>5, <2>1 DEF MainState
  <2>3. main' = [main EXCEPT ![p] = r]
    BY <1>1, <1>10 DEF SkipFile
  <2> HIDE DEF r
  <2>4. MainMove(p, r)
    BY <1>1, <2>1, <2>3 DEF MainMove
  <2>5. MainArrives(p, r)
    <3>1. /\ r.known \subseteq applied
          /\ \A i \in DOMAIN Embedded[p] : i < r.at => Embedded[p][i] \in applied
          /\ \A row \in applied : row \notin r.known =>
               \E i \in DOMAIN Embedded[p] : i < r.at /\ row = Embedded[p][i]
      BY <1>4, <1>5, <2>1, <2>2 DEF StartupInv, FilesKnown
    <3> QED
      BY <1>2, <2>1, <2>2, <3>1, ConflictsRemain DEF StartupInv, LocksHeld, MainArrives
  <2> QED
    BY <2>2, <2>4, <2>5, MainMoves
<1>11. ASSUME ApplyFile(p)  PROVE StartupInv'
  <2> DEFINE r == [main[p] EXCEPT !.at = @ + 1]
  <2>1. /\ main[p].pc = "files" /\ main[p].at \in DOMAIN carried
        /\ applied' = applied \cup {Embedded[p][main[p].at]}
        /\ UNCHANGED <<riverTables, mode, hub, lock>>
    BY <1>4, <1>5, <1>11 DEF ApplyFile, AtFile, File
  <2>2. /\ r \in MainState /\ r.pc = "files" /\ r.known = main[p].known
        /\ r.at = main[p].at + 1 /\ r.outcome = main[p].outcome
    BY <1>1, <1>5, <2>1 DEF MainState
  <2>3. main' = [main EXCEPT ![p] = r]
    BY <1>1, <1>11 DEF ApplyFile
  <2> HIDE DEF r
  <2>4. MainMove(p, r)
    BY <1>1, <1>4, <2>1, <2>3 DEF MainMove
  <2>5. MainArrives(p, r)
    <3>1. /\ r.known \subseteq applied'
          /\ \A i \in DOMAIN Embedded[p] : i < r.at => Embedded[p][i] \in applied'
          /\ \A row \in applied' : row \notin r.known =>
               \E i \in DOMAIN Embedded[p] : i < r.at /\ row = Embedded[p][i]
      <4>1. /\ main[p].known \subseteq applied
            /\ \A i \in DOMAIN Embedded[p] : i < main[p].at => Embedded[p][i] \in applied
            /\ \A row \in applied : row \notin main[p].known =>
                 \E i \in DOMAIN Embedded[p] : i < main[p].at /\ row = Embedded[p][i]
        BY <2>1 DEF StartupInv, FilesKnown
      <4>2. main[p].at \in Nat /\ main[p].at \in DOMAIN Embedded[p] /\ DOMAIN Embedded[p] \subseteq Nat
        BY <1>4, <1>5, <2>1 DEF MainState
      <4> QED
        BY <2>1, <2>2, <4>1, <4>2
    <3> QED
      BY <1>2, <2>1, <2>2, <3>1, ConflictsRemain DEF StartupInv, LocksHeld, MainArrives
  <2> QED
    BY <2>2, <2>4, <2>5, MainMoves
<1>12. ASSUME FileRefused(p)  PROVE StartupInv'
  <2>1. main[p].pc = "files" /\ main[p].at \in DOMAIN carried /\ MainWalk(p, "closing", "failed")
    BY <1>1, <1>4, <1>5, <1>12 DEF FileRefused, AtFile, MainReturns, MainWalk
  <2>2. Conflicts(p)
    <3> DEFINE file == Embedded[p][main[p].at]
    <3>1. CASE \E row \in Named(main[p].known, file.name) : row # file
      BY <2>1, <3>1 DEF StartupInv, FilesKnown, Conflicts, Named
    \* Applied behind the rows that were read: then by this process, from
    \* another file of the same name, and it has no two.
    <3>2. CASE Named(main[p].known, file.name) = {} /\ Named(applied, file.name) # {}
      <4>1. PICK row \in applied : row.name = file.name /\ row \notin main[p].known
        BY <3>2 DEF Named
      <4>2. PICK i \in DOMAIN carried : i < main[p].at /\ row = Embedded[p][i]
        BY <2>1, <4>1 DEF StartupInv, FilesKnown
      <4>3. i = main[p].at
        BY <2>1, <4>1, <4>2, EmbeddedAssumption
      <4> QED  BY <1>4, <1>5, <4>2, <4>3
    <3> QED  BY <1>12, <3>1, <3>2 DEF FileRefused, File
  <2> QED
    BY <2>1, <2>2, MainWalks
<1> HIDE DEF carried
<1> QED
  BY <1>6, <1>7, <1>8, <1>9, <1>10, <1>11, <1>12 DEF MigrationStep

-----------------------------------------------------------------------------
(* Steps of a mode that touch neither the tables nor the versions it read. *)
ModeWalk(p, m, pc) ==
  /\ mode[p][m].pc # "off"
  /\ mode' = [mode EXCEPT ![p][m].pc = pc]
  /\ UNCHANGED <<applied, riverTables, main, hub>>
  /\ disturbed' \in [Processes -> SUBSET {"signal", "fault"}]
  /\ \A q \in Processes : disturbed[q] \subseteq disturbed'[q]
  /\ \/ lock' = lock
     \/ lock["river"] = NoOne /\ lock' = [lock EXCEPT !["river"] = <<p, m>>]
     \/ lock' = Unlocked("river", <<p, m>>)

(* A mode may go on to a place it has a right to, leaving the database and *)
(* the main thread alone.                                                  *)
LEMMA ModeWalks ==
  ASSUME StartupInv, NEW p \in Processes, NEW m \in Modes,
         NEW pc \in {"lock", "migrator", "serving", "done", "failed"},
         ModeWalk(p, m, pc),
         pc \notin Ended => main[p].pc = "running",
         pc = "migrator" => lock'["river"] = <<p, m>>,
         pc = "serving" /\ m # "api" => riverTables,
         pc = "failed" => disturbed'[p] # {}
  PROVE  StartupInv'
<1> DEFINE r == [mode[p][m] EXCEPT !.pc = pc]
<1>1. mode \in [Processes -> [Modes -> ModeState]] /\ mode[p][m] \in ModeState
      /\ riverTables \in BOOLEAN
  BY DEF StartupInv, StartupTypeOK
<1>2. r \in ModeState /\ r.pc = pc
  BY <1>1 DEF ModeState
<1>3. mode' = [mode EXCEPT ![p][m] = r]
  BY <1>1 DEF ModeWalk
<1> HIDE DEF r
<1>4. ModeMove(p, m, r)
  BY <1>1, <1>3 DEF ModeWalk, ModeMove
<1>5. ModeArrives(p, m, r)
  BY <1>2 DEF ModeWalk, ModeArrives
<1> QED
  BY <1>2, <1>4, <1>5, ModeMoves

(* The context of the modes ends for a cause.                              *)
LEMMA CancelledForCause ==
  ASSUME StartupInv, NEW p \in Processes, Cancelled(p)
  PROVE  disturbed[p] # {}
BY DEF StartupInv, ModesFailForCause, Cancelled, Signalled, Runs

(* A mode that starts, serves, fails or is disturbed keeps the invariant.  *)
LEMMA ModeStepInv ==
  ASSUME StartupInv, NEW p \in Processes, NEW m \in Modes,
         ModeStep(p, m) \/ ModeFaulty(p, m)
  PROVE  StartupInv'
<1>1. /\ mode \in [Processes -> [Modes -> ModeState]] /\ mode[p][m] \in ModeState
      /\ riverTables \in BOOLEAN /\ disturbed \in [Processes -> SUBSET {"signal", "fault"}]
      /\ lock \in [{"phenk", "river"} -> Threads \cup {NoOne}]
  BY DEF StartupInv, StartupTypeOK
<1>2. mode[p][m].pc \notin {"off"} \cup Ended => main[p].pc = "running"
  BY DEF StartupInv, ModesRun
<1> DEFINE quiet == disturbed' = disturbed
<1>3. ASSUME RiverAcquires(p, m), quiet  PROVE StartupInv'
  <2>1. ModeWalk(p, m, "lock") /\ mode[p][m].pc = "acquire"
    BY <1>1, <1>3 DEF RiverAcquires, databaseVars, ModeWalk
  <2> QED  BY <1>2, <2>1, ModeWalks DEF Ended
<1>4. ASSUME RiverLocks(p, m), quiet  PROVE StartupInv'
  <2>1. ModeWalk(p, m, "migrator") /\ mode[p][m].pc = "lock"
    BY <1>1, <1>4 DEF RiverLocks, ModeWalk
  <2>2. lock'["river"] = <<p, m>>
    BY <1>1, <1>4 DEF RiverLocks
  <2> QED  BY <1>2, <2>1, <2>2, ModeWalks DEF Ended
<1>5. ASSUME ReadVersions(p, m), quiet  PROVE StartupInv'
  <2> DEFINE r == [pc |-> "create", found |-> riverTables]
  <2>1. mode[p][m].pc = "migrator" /\ ModeMove(p, m, r)
    BY <1>1, <1>5 DEF ReadVersions, databaseVars, ModeMove
  <2>2. r \in ModeState /\ r.pc = "create" /\ r.found = riverTables
    BY <1>1 DEF ModeState
  <2>3. lock' = lock /\ lock["river"] = <<p, m>> /\ riverTables' = riverTables
    BY <1>5, <2>1 DEF StartupInv, LocksHeld, ReadVersions, databaseVars
  <2> HIDE DEF r
  <2>4. ModeArrives(p, m, r)
    BY <1>2, <2>1, <2>2, <2>3 DEF ModeArrives, Ended
  <2> QED  BY <2>1, <2>2, <2>4, ModeMoves
<1>6. ASSUME CreateTables(p, m), quiet  PROVE StartupInv'
  <2> DEFINE r == [mode[p][m] EXCEPT !.pc = "ready"]
  <2>1. mode[p][m].pc = "create" /\ riverTables' = TRUE
    BY <1>6 DEF CreateTables
  <2>2. r \in ModeState /\ r.pc = "ready"
    BY <1>1 DEF ModeState
  <2>3. mode' = [mode EXCEPT ![p][m] = r]
    BY <1>1, <1>6 DEF CreateTables
  <2> HIDE DEF r
  <2>4. ModeMove(p, m, r)
    BY <1>1, <1>6, <2>1, <2>3 DEF CreateTables, ModeMove
  <2>5. ModeArrives(p, m, r)
    BY <1>2, <2>1, <2>2 DEF ModeArrives, Ended
  <2> QED  BY <2>2, <2>4, <2>5, ModeMoves
<1>7. ASSUME TablesRefused(p, m)  PROVE FALSE
  BY <1>7 DEF TablesRefused, StartupInv, TablesKnown
<1>8. ASSUME Serve(p, m)  PROVE StartupInv'
  <2>1. ModeWalk(p, m, "serving") /\ mode[p][m].pc = "ready"
    BY <1>1, <1>8 DEF Serve, databaseVars, supervisionVars, ModeWalk
  <2>2. m # "api" => riverTables
    BY <2>1 DEF StartupInv, TablesKnown
  <2> QED  BY <1>2, <2>1, <2>2, ModeWalks DEF Ended
<1>9. ASSUME ModeCancelled(p, m)  PROVE StartupInv'
  <2>1. ModeWalk(p, m, "failed") /\ disturbed' = disturbed
    BY <1>1, <1>9 DEF ModeCancelled, ModeFails, supervisionVars, Migrating, ModeWalk
  <2>2. disturbed[p] # {}
    BY <1>9, CancelledForCause DEF ModeCancelled
  <2> QED  BY <2>1, <2>2, ModeWalks DEF Ended
<1>10. ASSUME Stop(p, m)  PROVE StartupInv'
  <2>1. ModeWalk(p, m, "done")
    BY <1>1, <1>10 DEF Stop, databaseVars, supervisionVars, ModeWalk
  <2> QED  BY <2>1, ModeWalks DEF Ended
<1>11. ASSUME ModeFaulty(p, m)  PROVE StartupInv'
  <2>1. disturbed' = [disturbed EXCEPT ![p] = @ \cup {"fault"}]
    BY <1>11 DEF ModeFaulty, Fault, Disturb
  <2>2. ModeWalk(p, m, "failed") /\ disturbed'[p] # {}
    BY <1>1, <1>11, <2>1 DEF ModeFaulty, ModeFails, Migrating, ModeWalk
  <2> QED  BY <2>2, ModeWalks DEF Ended
<1> QED
  BY <1>3, <1>4, <1>5, <1>6, <1>7, <1>8, <1>9, <1>10, <1>11
     DEF ModeStep, RiverStep, supervisionVars

-----------------------------------------------------------------------------
(* A process that starts, launches its modes, exits or is killed: its      *)
(* modes are put at once where they begin.                                 *)
ProcessMove(p, r, f) ==
  /\ main' = [main EXCEPT ![p] = r] /\ mode' = [mode EXCEPT ![p] = f]
  /\ UNCHANGED <<applied, riverTables>>
  /\ lock' \in [{"phenk", "river"} -> Threads \cup {NoOne}]
  /\ \A q \in Processes \ {p} :
       /\ lock["phenk"] = Main(q) => lock'["phenk"] = Main(q)
       /\ \A m \in Modes : lock["river"] = <<q, m>> => lock'["river"] = <<q, m>>
  /\ hub' \in [Processes -> {"off", "waiting", "listening"}]
  /\ disturbed' \in [Processes -> SUBSET {"signal", "fault"}]
  /\ \A q \in Processes \ {p} : disturbed'[q] = disturbed[q]

(* A whole process may move at once, its modes with it.                    *)
LEMMA ProcessMoves ==
  ASSUME StartupInv, NEW p \in Processes, NEW r \in MainState, NEW f \in [Modes -> ModeState],
         ProcessMove(p, r, f),
         r.pc \in {"off", "acquire", "running", "closing"},
         r.pc = "running" => \A i \in DOMAIN Embedded[p] : Embedded[p][i] \in applied,
         \A m \in Modes :
           /\ f[m].pc \in {"off", "acquire", "ready"}
           /\ f[m].pc # "off" => r.pc = "running" /\ m \in Runs(p)
           /\ f[m].pc = "ready" => m = "api",
         r.outcome = "failed" => disturbed'[p] # {} \/ Conflicts(p)
  PROVE  StartupInv'
<1> USE DEF ProcessMove
<1>1. /\ main'[p] = r /\ mode'[p] = f
      /\ \A q \in Processes : q # p => main'[q] = main[q] /\ mode'[q] = mode[q]
  BY DEF StartupInv, StartupTypeOK
<1>2. StartupTypeOK'
  BY DEF StartupInv, StartupTypeOK
<1>3. LocksHeld'
  BY <1>1 DEF StartupInv, LocksHeld
<1>4. FilesKnown'
  BY <1>1 DEF StartupInv, FilesKnown
<1>5. ModesRun'
  BY <1>1 DEF StartupInv, ModesRun, Ended
<1>6. TablesKnown'
  BY <1>1 DEF StartupInv, TablesKnown
<1>7. ModesFailForCause'
  BY <1>1 DEF StartupInv, ModesFailForCause
<1>8. FailsOnlyForCause'
  <2>1. ASSUME NEW q \in Processes, main'[q].outcome = "failed"
        PROVE  disturbed'[q] # {} \/ Conflicts(q)'
    BY <1>1, <2>1, ConflictsRemain DEF StartupInv, FailsOnlyForCause
  <2> QED  BY <2>1 DEF FailsOnlyForCause
<1> QED
  BY <1>2, <1>3, <1>4, <1>5, <1>6, <1>7, <1>8 DEF StartupInv

(* Starting, crashing, exiting and launching the modes keep the invariant. *)
LEMMA ProcessStepInv ==
  ASSUME StartupInv, NEW p \in Processes, Start(p) \/ Crash(p) \/ Exit(p) \/ Launch(p)
  PROVE  StartupInv'
<1> DEFINE rest == [m \in Modes |-> AtRest]
<1>1. /\ main \in [Processes -> MainState] /\ main[p] \in MainState
      /\ mode \in [Processes -> [Modes -> ModeState]]
      /\ lock \in [{"phenk", "river"} -> Threads \cup {NoOne}]
      /\ hub \in [Processes -> {"off", "waiting", "listening"}]
      /\ disturbed \in [Processes -> SUBSET {"signal", "fault"}]
  BY DEF StartupInv, StartupTypeOK
<1>2. main[p].outcome = "failed" => disturbed[p] # {} \/ Conflicts(p)
  BY DEF StartupInv, FailsOnlyForCause
<1>3. AtRest \in ModeState /\ AtRest.pc = "off"
  BY DEF AtRest, ModeState
<1>4. rest \in [Modes -> ModeState] /\ \A m \in Modes : rest[m].pc = "off"
  BY <1>3
<1>5. ASSUME Start(p)  PROVE StartupInv'
  <2> DEFINE r == [pc |-> "acquire", known |-> {}, at |-> 1, outcome |-> "none"]
  <2>1. r \in MainState /\ r.pc = "acquire" /\ r.outcome = "none"
    BY DEF MainState
  <2>2. ProcessMove(p, r, rest)
    BY <1>1, <1>5 DEF Start, databaseVars, ProcessMove
  <2> HIDE DEF r, rest
  <2> QED  BY <1>4, <2>1, <2>2, ProcessMoves
<1>6. ASSUME Crash(p)  PROVE StartupInv'
  <2> DEFINE r == [main[p] EXCEPT !.pc = "off", !.outcome = "killed"]
  <2>1. r \in MainState /\ r.pc = "off" /\ r.outcome = "killed"
    BY <1>1 DEF MainState
  <2>2. main' = [main EXCEPT ![p] = r] /\ mode' = [mode EXCEPT ![p] = rest]
    BY <1>1, <1>6 DEF Crash
  <2> DEFINE ended(l) == \E t \in {"main"} \cup Modes : lock[l] = <<p, t>>
  <2>3. lock' = [l \in {"phenk", "river"} |-> IF ended(l) THEN NoOne ELSE lock[l]]
    BY <1>1, <1>6 DEF Crash
  <2>4. \A q \in Processes \ {p} :
          /\ lock["phenk"] = Main(q) => ~ended("phenk")
          /\ \A m \in Modes : lock["river"] = <<q, m>> => ~ended("river")
    BY DEF Main
  <2> HIDE DEF r, rest, ended
  <2>5. /\ lock' \in [{"phenk", "river"} -> Threads \cup {NoOne}]
        /\ \A q \in Processes \ {p} :
             /\ lock["phenk"] = Main(q) => lock'["phenk"] = Main(q)
             /\ \A m \in Modes : lock["river"] = <<q, m>> => lock'["river"] = <<q, m>>
    BY <1>1, <2>3, <2>4
  <2>6. disturbed' = [disturbed EXCEPT ![p] = @ \cup {"fault"}]
        /\ hub' = [hub EXCEPT ![p] = "off"] /\ UNCHANGED <<applied, riverTables>>
    BY <1>6 DEF Crash, Fault, Disturb
  <2>7. ProcessMove(p, r, rest)
    BY <1>1, <2>2, <2>5, <2>6 DEF ProcessMove
  <2> QED  BY <1>4, <2>1, <2>7, ProcessMoves
<1>7. ASSUME Exit(p)  PROVE StartupInv'
  <2> DEFINE r == [main[p] EXCEPT !.pc = "off"]
  <2>1. r \in MainState /\ r.pc = "off" /\ r.outcome = main[p].outcome
    BY <1>1 DEF MainState
  <2>2. main' = [main EXCEPT ![p] = r] /\ mode' = [mode EXCEPT ![p] = rest]
    BY <1>1, <1>7 DEF Exit
  <2> HIDE DEF r, rest
  <2>3. ProcessMove(p, r, rest) /\ disturbed' = disturbed
    BY <1>1, <1>7, <2>2 DEF Exit, databaseVars, supervisionVars, ProcessMove
  <2> QED  BY <1>2, <1>4, <2>1, <2>3, ProcessMoves
<1>8. ASSUME Launch(p)  PROVE StartupInv'
  <2> DEFINE pc == IF Runs(p) = {} THEN "closing" ELSE "running"
             outcome == IF Runs(p) = {} THEN "done" ELSE main[p].outcome
             r == [main[p] EXCEPT !.pc = pc, !.outcome = outcome]
             begun == [m \in Modes |->
               IF m \in Runs(p) THEN [AtRest EXCEPT !.pc = IF m = "api" THEN "ready" ELSE "acquire"]
               ELSE AtRest]
  <2>1. main[p].pc = "migrated" /\ \A i \in DOMAIN Embedded[p] : Embedded[p][i] \in applied
    BY <1>8 DEF Launch, StartupInv, FilesKnown
  <2>2. r \in MainState /\ r.pc = pc /\ r.outcome = outcome
    BY <1>1 DEF MainState
  <2>3. begun \in [Modes -> ModeState] /\ \A m \in Modes :
          /\ begun[m].pc \in {"off", "acquire", "ready"}
          /\ begun[m].pc # "off" => m \in Runs(p)
          /\ begun[m].pc = "ready" => m = "api"
    BY DEF AtRest, ModeState
  <2>4. main' = [main EXCEPT ![p] = r] /\ mode' = [mode EXCEPT ![p] = begun]
    BY <1>1, <1>8 DEF Launch
  <2>5. hub' \in [Processes -> {"off", "waiting", "listening"}] /\ disturbed' = disturbed
        /\ UNCHANGED <<applied, riverTables, lock>>
    BY <1>1, <1>8 DEF Launch, databaseVars, supervisionVars
  <2>6. /\ pc \in {"running", "closing"}
        /\ \A m \in Modes : m \in Runs(p) => pc = "running"
        /\ outcome = "failed" => disturbed[p] # {} \/ Conflicts(p)
    BY <1>2
  <2> HIDE DEF r, begun, pc, outcome
  <2>7. ProcessMove(p, r, begun)
    BY <1>1, <2>4, <2>5 DEF ProcessMove
  <2> QED  BY <2>1, <2>2, <2>3, <2>5, <2>6, <2>7, ProcessMoves
<1> QED
  BY <1>5, <1>6, <1>7, <1>8

-----------------------------------------------------------------------------
(* What is left: main failing or returning, signals, and the hub.          *)
LEMMA OtherStepInv ==
  ASSUME StartupInv, NEW p \in Processes,
         \/ MainFails(p) \/ MainCancelled(p) \/ Return(p) \/ Signal(p)
         \/ HubListens(p) \/ HubDrops(p) \/ HubReturns(p)
  PROVE  StartupInv'
<1>1. /\ main \in [Processes -> MainState] /\ main[p] \in MainState
      /\ mode \in [Processes -> [Modes -> ModeState]]
      /\ hub \in [Processes -> {"off", "waiting", "listening"}]
      /\ disturbed \in [Processes -> SUBSET {"signal", "fault"}]
  BY DEF StartupInv, StartupTypeOK
<1>2. ASSUME MainFails(p)  PROVE StartupInv'
  <2>1. disturbed' = [disturbed EXCEPT ![p] = @ \cup {"fault"}]
    BY <1>2 DEF MainFails, Fault, Disturb
  <2>2. MainWalk(p, "closing", "failed") /\ disturbed'[p] # {} /\ main[p].pc # "running"
    BY <1>1, <1>2, <2>1 DEF MainFails, BeforeModes, MainReturns, MainWalk
  <2> QED  BY <2>2, MainWalks
<1>3. ASSUME MainCancelled(p)  PROVE StartupInv'
  <2>1. MainWalk(p, "closing", "failed") /\ main[p].pc # "running" /\ disturbed' = disturbed
    BY <1>1, <1>3 DEF MainCancelled, BeforeModes, MainReturns, supervisionVars, MainWalk
  <2>2. disturbed[p] # {}
    BY <1>3 DEF MainCancelled, Signalled
  <2> QED  BY <2>1, <2>2, MainWalks
<1>4. ASSUME Return(p)  PROVE StartupInv'
  <2> DEFINE outcome == IF \E m \in Runs(p) : mode[p][m].pc = "failed" THEN "failed" ELSE "done"
  <2>1. MainWalk(p, "closing", outcome) /\ disturbed' = disturbed
    BY <1>1, <1>4 DEF Return, databaseVars, supervisionVars, MainWalk
  <2>2. \A m \in Modes : mode[p][m].pc \in {"off"} \cup Ended
    BY <1>4 DEF Return, StartupInv, ModesRun
  <2>3. outcome = "failed" => disturbed[p] # {}
    BY DEF StartupInv, ModesFailForCause, Runs
  <2>4. outcome \in {"failed", "done"}
    OBVIOUS
  <2> HIDE DEF outcome
  <2> QED  BY <2>1, <2>2, <2>3, <2>4, MainWalks
<1>5. ASSUME Signal(p) \/ HubListens(p) \/ HubDrops(p) \/ HubReturns(p)  PROVE StartupInv'
  <2>1. /\ UNCHANGED <<applied, riverTables, lock, main, mode>>
        /\ hub' \in [Processes -> {"off", "waiting", "listening"}]
        /\ disturbed' \in [Processes -> SUBSET {"signal", "fault"}]
        /\ \A q \in Processes : disturbed[q] \subseteq disturbed'[q]
    <3>1. /\ UNCHANGED <<applied, riverTables, lock, main, mode>>
          /\ hub' = hub \/ \E h \in {"off", "waiting", "listening"} : hub' = [hub EXCEPT ![p] = h]
          /\ disturbed' = disturbed \/ \E what \in {"signal", "fault"} : Disturb(p, what)
      BY <1>5 DEF Signal, HubListens, HubDrops, HubReturns, Fault, databaseVars, supervisionVars
    <3>2. hub' \in [Processes -> {"off", "waiting", "listening"}]
      BY <1>1, <3>1
    <3>3. ASSUME NEW what \in {"signal", "fault"}, Disturb(p, what)
          PROVE  /\ disturbed' \in [Processes -> SUBSET {"signal", "fault"}]
                 /\ \A q \in Processes : disturbed[q] \subseteq disturbed'[q]
      BY <1>1, <3>3 DEF Disturb
    <3> QED  BY <1>1, <3>1, <3>2, <3>3
  <2>2. StartupTypeOK' /\ LocksHeld' /\ FilesKnown' /\ ModesRun' /\ TablesKnown'
    BY <2>1 DEF StartupInv, StartupTypeOK, LocksHeld, FilesKnown, ModesRun, TablesKnown
  <2>3. ModesFailForCause' /\ FailsOnlyForCause'
    BY <2>1 DEF StartupInv, ModesFailForCause, FailsOnlyForCause, Conflicts, Named
  <2> QED  BY <2>2, <2>3 DEF StartupInv
<1> QED
  BY <1>2, <1>3, <1>4, <1>5

(* The invariant of the deployment is inductive.                           *)
LEMMA StartupNextInv == StartupInv /\ [Next]_vars => StartupInv'
<1> SUFFICES ASSUME StartupInv, [Next]_vars  PROVE StartupInv'
  OBVIOUS
<1>1. ASSUME NEW p \in Processes, MainStep(p) \/ HubListens(p) \/ HubReturns(p)
      PROVE  StartupInv'
  BY <1>1, MigrationStepInv, ProcessStepInv, OtherStepInv DEF MainStep
<1>2. ASSUME NEW p \in Processes, Environment(p)
      PROVE  StartupInv'
  BY <1>2, ModeStepInv, ProcessStepInv, OtherStepInv DEF Environment
<1>3. ASSUME NEW p \in Processes, NEW m \in Modes, ModeStep(p, m)
      PROVE  StartupInv'
  BY <1>3, ModeStepInv
<1>4. CASE UNCHANGED vars
  <2>1. UNCHANGED <<applied, riverTables, lock, main, mode, hub, disturbed, faults>>
    BY <1>4 DEF vars, databaseVars, supervisionVars
  <2>2. StartupTypeOK' /\ LocksHeld' /\ FilesKnown' /\ ModesRun' /\ TablesKnown'
    BY <2>1 DEF StartupInv, StartupTypeOK, LocksHeld, FilesKnown, ModesRun, TablesKnown
  <2>3. ModesFailForCause' /\ FailsOnlyForCause'
    BY <2>1 DEF StartupInv, ModesFailForCause, FailsOnlyForCause, Conflicts, Named
  <2> QED  BY <2>2, <2>3 DEF StartupInv
<1> QED
  BY <1>1, <1>2, <1>3, <1>4 DEF Next

(* The invariant of the deployment holds in every reachable state.         *)
LEMMA StartupInvAlways == Spec => []StartupInv
BY StartupInitInv, StartupNextInv, PTL DEF Spec

-----------------------------------------------------------------------------
(* A process serves only on a database that has every file its binary      *)
(* carries, and takes or runs jobs only where River's tables are (main.go  *)
(* run, db.Migrate, queue.Migrate): for any processes, whatever their      *)
(* binaries carry and whatever the database held, with any failures.       *)
THEOREM ServesOnlyMigrated == Spec => []ServesMigrated
<1>1. StartupInv => ServesMigrated
  <2> SUFFICES ASSUME StartupInv, NEW p \in Processes, NEW m \in Modes, mode[p][m].pc = "serving"
               PROVE  /\ \A i \in DOMAIN Embedded[p] : Embedded[p][i] \in applied
                      /\ m # "api" => riverTables
    BY DEF ServesMigrated
  <2>1. main[p].pc = "running"
    BY DEF StartupInv, ModesRun, Ended
  <2> QED  BY <2>1 DEF StartupInv, FilesKnown, TablesKnown
<1> QED
  BY <1>1, StartupInvAlways, PTL

(* Starting at the same time costs nobody its start: a process gives up    *)
(* only when something outside happened to it or a file it carries was     *)
(* applied with other contents (the advisory locks of db.Migrate and       *)
(* queue.Migrate, the context of runAll).                                  *)
THEOREM NobodyFailsForNothing == Spec => []FailsOnlyForCause
<1>1. StartupInv => FailsOnlyForCause
  BY DEF StartupInv
<1> QED
  BY <1>1, StartupInvAlways, PTL
=============================================================================
