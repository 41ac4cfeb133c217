---------------------------- MODULE Deployment -----------------------------
(***************************************************************************)
(* The processes of one installation starting, running and stopping on one *)
(* database.                                                               *)
(***************************************************************************)
EXTENDS Supervision

CONSTANT Installed    \* what the database may hold of earlier releases

ASSUME InstalledAssumption == Installed \subseteq SUBSET [name : STRING, sum : STRING]

vars == <<databaseVars, main, mode, hub, supervisionVars>>

Init ==
  /\ applied \in Installed /\ riverTables = (applied # {})
  /\ lock = [l \in {"phenk", "river"} |-> NoOne]
  /\ main = [p \in Processes |-> [pc |-> "off", known |-> {}, at |-> 1, outcome |-> "none"]]
  /\ mode = [p \in Processes |-> [m \in Modes |-> AtRest]]
  /\ hub = [p \in Processes |-> "off"]
  /\ disturbed = [p \in Processes |-> {}]
  /\ faults = 0

MainStep(p) ==
  \/ MigrationStep(p) /\ UNCHANGED supervisionVars
  \/ MainCancelled(p) \/ Launch(p) \/ Return(p) \/ Exit(p)

ModeStep(p, m) ==
  \/ RiverStep(p, m) /\ UNCHANGED supervisionVars
  \/ Serve(p, m) \/ ModeCancelled(p, m) \/ Stop(p, m)

Environment(p) ==
  Start(p) \/ Signal(p) \/ Crash(p) \/ HubDrops(p) \/ MainFails(p) \/ \E m \in Modes : ModeFaulty(p, m)

Next ==
  \E p \in Processes :
    \/ MainStep(p) \/ HubListens(p) \/ HubReturns(p) \/ Environment(p)
    \/ \E m \in Modes : ModeStep(p, m)

Spec == Init /\ [][Next]_vars

(* Go runs every goroutine, the database answers, and a context that has   *)
(* ended is noticed.                                                       *)
Fairness ==
  \A p \in Processes :
    /\ WF_vars(MainStep(p))
    /\ WF_vars(HubListens(p)) /\ WF_vars(HubReturns(p))
    /\ \A m \in Runs(p) : WF_vars(ModeStep(p, m))

FairSpec == Spec /\ Fairness

-----------------------------------------------------------------------------
(* A process serves only on a database that has every file its binary      *)
(* carries, as that binary has it, and takes or runs jobs only where       *)
(* River's tables are: whoever applied them, and whatever was killed       *)
(* between two files.                                                      *)
ServesMigrated ==
  \A p \in Processes : \A m \in Modes :
    mode[p][m].pc = "serving" =>
      /\ \A i \in DOMAIN Embedded[p] : Embedded[p][i] \in applied
      /\ m # "api" => riverTables

(* Starting at the same time costs nobody its start: a process gives up    *)
(* only when something outside happened to it, or when a file it carries   *)
(* was applied with other contents.                                        *)
Conflicts(p) ==
  \E i \in DOMAIN Embedded[p] : \E r \in Named(applied, Embedded[p][i].name) : r # Embedded[p][i]

FailsOnlyForCause ==
  \A p \in Processes :
    main[p].outcome = "failed" => disturbed[p] # {} \/ Conflicts(p)

(* No process stays half up: one that is up ends up serving with all its   *)
(* modes, or leaves.  A failed start, a mode that fails while the others   *)
(* serve, a signal at any moment: each brings the whole process down.      *)
Whole(p) == ~Cancelled(p) /\ \A m \in Runs(p) : mode[p][m].pc = "serving"

WholeOrGone == \A p \in Processes : Up(p) ~> (~Up(p) \/ (main[p].pc = "running" /\ Whole(p)))
=============================================================================
