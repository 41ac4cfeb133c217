---------------------------- MODULE Supervision ----------------------------
(***************************************************************************)
(* A process from its start to its exit: run opens the pool, migrates and  *)
(* runs one mode, or all three in one process; a signal, or in that case a *)
(* mode that fails, cancels the context; and when the modes have returned  *)
(* the pool is closed, which waits for every connection to come back.      *)
(***************************************************************************)
EXTENDS Migration

CONSTANTS
  Command,      \* what each process is started with
  Restarted,    \* the outcomes after which a process is started again
  MaxFaults     \* failures of statements, listeners and processes

VARIABLES
  disturbed,    \* what the outside did to the current run of each process
  faults

supervisionVars == <<disturbed, faults>>

Runs(p) == IF Command[p] = "all" THEN Modes ELSE {Command[p]} \cap Modes

ASSUME SupervisionAssumption ==
  /\ Command \in [Processes -> Modes \cup {"all", "migrate"}]
  /\ MaxFaults \in Nat

AtRest == [pc |-> "off", found |-> FALSE]
Ended == {"done", "failed"}

Up(p) == main[p].pc # "off"
Signalled(p) == "signal" \in disturbed[p]

\* The context of the modes: runAll cancels its own when one of them fails.
Cancelled(p) ==
  \/ Signalled(p)
  \/ Command[p] = "all" /\ \E m \in Runs(p) : mode[p][m].pc = "failed"

Disturb(p, what) == disturbed' = [disturbed EXCEPT ![p] = @ \cup {what}]

\* One failure of the environment, charged to the run it hits.
Fault(p) ==
  /\ faults < MaxFaults /\ faults' = faults + 1
  /\ Disturb(p, "fault")

-----------------------------------------------------------------------------
Start(p) ==
  /\ ~Up(p) /\ main[p].outcome \in {"none"} \cup Restarted
  /\ disturbed' = [disturbed EXCEPT ![p] = {}]
  /\ main' = [main EXCEPT ![p] = [pc |-> "acquire", known |-> {}, at |-> 1, outcome |-> "none"]]
  /\ mode' = [mode EXCEPT ![p] = [m \in Modes |-> AtRest]]
  /\ UNCHANGED <<databaseVars, hub, faults>>

Signal(p) ==
  /\ Up(p) /\ ~Signalled(p)
  /\ Disturb(p, "signal")
  /\ UNCHANGED <<databaseVars, main, mode, hub, faults>>

\* Killed: its sessions end, and their locks with them.
Crash(p) ==
  /\ Up(p) /\ Fault(p)
  /\ lock' = [l \in DOMAIN lock |->
       IF \E t \in {"main"} \cup Modes : lock[l] = <<p, t>> THEN NoOne ELSE lock[l]]
  /\ main' = [main EXCEPT ![p].pc = "off", ![p].outcome = "killed"]
  /\ mode' = [mode EXCEPT ![p] = [m \in Modes |-> AtRest]]
  /\ hub' = [hub EXCEPT ![p] = "off"]
  /\ UNCHANGED <<applied, riverTables>>

BeforeModes == {"acquire", "lock", "read", "files"}

MainFails(p) ==
  /\ main[p].pc \in BeforeModes \cup {"migrated"} /\ Fault(p)
  /\ MainReturns(p, "failed")

MainCancelled(p) ==
  /\ main[p].pc \in BeforeModes /\ Signalled(p)
  /\ MainReturns(p, "failed") /\ UNCHANGED supervisionVars

\* runAPI starts the hub beside the server; the other two migrate first.
Launch(p) ==
  /\ main[p].pc = "migrated"
  /\ main' = [main EXCEPT ![p].pc = IF Runs(p) = {} THEN "closing" ELSE "running",
                          ![p].outcome = IF Runs(p) = {} THEN "done" ELSE @]
  /\ mode' = [mode EXCEPT ![p] = [m \in Modes |->
       IF m \in Runs(p) THEN [AtRest EXCEPT !.pc = IF m = "api" THEN "ready" ELSE "acquire"]
       ELSE AtRest]]
  /\ hub' = [hub EXCEPT ![p] = IF "api" \in Runs(p) THEN "waiting" ELSE @]
  /\ UNCHANGED <<databaseVars, supervisionVars>>

-----------------------------------------------------------------------------
(* A mode: the listener opens or the River client starts, and it serves    *)
(* until the context ends.                                                 *)
Serve(p, m) ==
  /\ mode[p][m].pc = "ready"
  /\ mode' = [mode EXCEPT ![p][m].pc = "serving"]
  /\ UNCHANGED <<databaseVars, main, hub, supervisionVars>>

\* A statement or the listener fails; a server gives up; a shutdown takes
\* longer than it is given, as an open event stream makes it.
ModeFaulty(p, m) ==
  /\ \/ mode[p][m].pc \in {"acquire", "ready"} \cup Migrating
     \/ mode[p][m].pc = "serving" /\ m # "worker" /\ ~Cancelled(p)
     \/ mode[p][m].pc = "serving" /\ m # "smtpd" /\ Cancelled(p)
  /\ Fault(p) /\ ModeFails(p, m)

ModeCancelled(p, m) ==
  /\ \/ mode[p][m].pc \in {"acquire"} \cup Migrating
     \/ mode[p][m].pc = "ready" /\ m = "worker"
  /\ Cancelled(p)
  /\ ModeFails(p, m) /\ UNCHANGED supervisionVars

Stop(p, m) ==
  /\ mode[p][m].pc = "serving" /\ Cancelled(p)
  /\ mode' = [mode EXCEPT ![p][m].pc = "done"]
  /\ UNCHANGED <<databaseVars, main, hub, supervisionVars>>

(* Hub.Run: a connection for as long as it lives, and another after it;    *)
(* it returns only when the context ends.                                  *)
HubListens(p) ==
  /\ hub[p] = "waiting" /\ ~Cancelled(p) /\ FreeConn(p)
  /\ hub' = [hub EXCEPT ![p] = "listening"]
  /\ UNCHANGED <<databaseVars, main, mode, supervisionVars>>

HubDrops(p) ==
  /\ hub[p] = "listening" /\ Fault(p)
  /\ hub' = [hub EXCEPT ![p] = "waiting"]
  /\ UNCHANGED <<databaseVars, main, mode>>

\* Deviation: the hub looks at the context between connections only.
HubReturnsIdle(p) ==
  /\ hub[p] = "waiting" /\ Cancelled(p)
  /\ hub' = [hub EXCEPT ![p] = "off"]
  /\ UNCHANGED <<databaseVars, main, mode, supervisionVars>>

HubReturns(p) ==
  /\ hub[p] # "off" /\ Cancelled(p)
  /\ hub' = [hub EXCEPT ![p] = "off"]
  /\ UNCHANGED <<databaseVars, main, mode, supervisionVars>>

-----------------------------------------------------------------------------
(* The modes have returned; closing the pool waits for what is held.       *)
Return(p) ==
  /\ main[p].pc = "running" /\ \A m \in Runs(p) : mode[p][m].pc \in Ended
  /\ main' = [main EXCEPT ![p].pc = "closing",
       ![p].outcome = IF \E m \in Runs(p) : mode[p][m].pc = "failed" THEN "failed" ELSE "done"]
  /\ UNCHANGED <<databaseVars, mode, hub, supervisionVars>>

Exit(p) ==
  /\ main[p].pc = "closing" /\ Held(p) = 0
  /\ main' = [main EXCEPT ![p].pc = "off"]
  /\ mode' = [mode EXCEPT ![p] = [m \in Modes |-> AtRest]]
  /\ hub' = [hub EXCEPT ![p] = "off"]
  /\ UNCHANGED <<databaseVars, supervisionVars>>

=============================================================================
