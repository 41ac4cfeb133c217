------------------------------- MODULE MCPurge -------------------------------
(* Bounded instance of MailSystem with overlapping lifecycle jobs.         *)
EXTENDS MCMailSystem

VARIABLE apart   \* no two jobs have worked on one identity at once, so far

\* Bound: there are random inboxes, with small messages, or a named one.
OneKind ==
  \/ \A i \in Random : state[i] = "absent"
  \/ /\ \A i \in Named : state[i] = "absent"
     /\ \A s \in Sessions : session[s].pc = "commit" => session[s].size = 1

PurgeSpec ==
  /\ Init /\ apart = TRUE
  /\ [][Next /\ OneKind' /\ apart' = (apart /\ TargetsApart')]_<<vars, apart>>

(***************************************************************************)
(* While no two jobs have worked on one identity at once, the counts are   *)
(* exact: a message that recipients share is counted once for each copy    *)
(* that is left, whoever swept or purged the others, and a named inbox is  *)
(* charged for the messages and the bytes it holds.                        *)
(***************************************************************************)
CountsWhileApart == apart => BodiesCounted /\ UsageIsMail
=============================================================================
