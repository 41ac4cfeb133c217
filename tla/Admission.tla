------------------------------ MODULE Admission ------------------------------
(***************************************************************************)
(* SMTP at the door: who may connect, which recipients are taken and which *)
(* names are made for them.                                                *)
(*                                                                         *)
(* Source: internal/smtpd/limits.go, server.go, cache.go, session.go       *)
(* (Rcpt), receiver.go (Resolve, and the part of Commit that makes names). *)
(*                                                                         *)
(* What Commit does with a recipient whose row it holds is Ingest's; here  *)
(* a message has one recipient, on the public pool.                        *)
(***************************************************************************)
EXTENDS Names

CONSTANT ConnectionLimit    \* config: MaxConnectionsPerIP

ASSUME LimitAssumption == ConnectionLimit \in Nat \ {0}

VARIABLES
  slots,        \* connectionLimiter.perIP
  conn,         \* each session's connection; its first Close leaves it closing
  cachedDomain, \* the receiver's domain cache
  smtp,         \* each session's transaction
  accepted      \* addresses that took a message (history)

doorVars == <<slots, conn, cachedDomain, smtp, accepted>>

SourceOf(s) == s[1]

\* provision: the recipient was resolved as a name to make.
Transaction ==
  [pc : {"idle", "named", "begun", "placed"}, to : Addresses, provision : BOOLEAN,
   born : 0..MaxTransactions]

NoTransaction ==
  [pc |-> "idle", to |-> CHOOSE a \in Addresses : TRUE, provision |-> FALSE, born |-> 0]

AdmissionTypeOK ==
  /\ slots \in [Sources -> 0..ConnectionLimit]
  /\ conn \in [Senders -> {"closed", "open", "closing"}]
  /\ cachedDomain \in [Domains -> BOOLEAN]
  /\ smtp \in [Senders -> Transaction]
  /\ accepted \subseteq Addresses

AdmissionInit ==
  /\ slots = [i \in Sources |-> 0]
  /\ conn = [s \in Senders |-> "closed"]
  /\ cachedDomain = [d \in Domains |-> FALSE]
  /\ smtp = [s \in Senders |-> NoTransaction]
  /\ accepted = {}

-----------------------------------------------------------------------------
(* Connections.                                                            *)

\* Deviation: a connection more than the limit.
AcceptOneMore(s) ==
  /\ conn[s] = "closed" /\ smtp[s].pc = "idle"
  /\ slots[SourceOf(s)] <= ConnectionLimit
  /\ slots' = [slots EXCEPT ![SourceOf(s)] = @ + 1]
  /\ conn' = [conn EXCEPT ![s] = "open"]
  /\ UNCHANGED <<rowVars, bucketVars, openVars, cachedDomain, smtp, accepted>>

Accept(s) ==
  /\ conn[s] = "closed" /\ smtp[s].pc = "idle"
  /\ slots[SourceOf(s)] < ConnectionLimit
  /\ slots' = [slots EXCEPT ![SourceOf(s)] = @ + 1]
  /\ conn' = [conn EXCEPT ![s] = "open"]
  /\ UNCHANGED <<rowVars, bucketVars, openVars, cachedDomain, smtp, accepted>>

Release(i) ==
  slots' = [slots EXCEPT ![i] = IF @ <= 1 THEN 0 ELSE @ - 1]

\* Deviation: every Close gives a slot back.
CloseReleasing(s) ==
  /\ conn[s] # "closed"
  /\ conn' = [conn EXCEPT ![s] = IF @ = "open" THEN "closing" ELSE "closed"]
  /\ Release(SourceOf(s))
  /\ UNCHANGED <<rowVars, bucketVars, openVars, cachedDomain, smtp, accepted>>

\* The server and the session's handler both close a connection; the first
\* of them gives the slot back, and a transaction that runs goes on.
Close(s) ==
  /\ conn[s] # "closed"
  /\ IF conn[s] = "open"
     THEN conn' = [conn EXCEPT ![s] = "closing"] /\ Release(SourceOf(s))
     ELSE conn' = [conn EXCEPT ![s] = "closed"] /\ UNCHANGED slots
  /\ UNCHANGED <<rowVars, bucketVars, openVars, cachedDomain, smtp, accepted>>

-----------------------------------------------------------------------------
(* Recipients.                                                             *)

\* Only a retired domain is refused, and only when the cache does not know it.
Relays(d) == cachedDomain[d] \/ domain[d] # "retired"

\* A second RCPT of a transaction names the same address here.
MayName(s, a) ==
  /\ conn[s] = "open"
  /\ \/ smtp[s].pc = "idle"
     \/ smtp[s].pc = "named" /\ smtp[s].to = a
  /\ Relays(a[2])
  /\ cachedDomain' = [cachedDomain EXCEPT ![a[2]] = TRUE]

\* A repeated recipient keeps what the first RCPT found.
Name(s, a, provision) ==
  smtp' = IF smtp[s].pc = "named" THEN smtp
          ELSE [smtp EXCEPT ![s] = [NoTransaction EXCEPT !.pc = "named", !.to = a,
                                                         !.provision = provision]]

RcptKnown(s, a) ==
  /\ MayName(s, a)
  /\ inbox[a].state = "live"
  /\ Name(s, a, FALSE)
  /\ UNCHANGED <<rowVars, bucketVars, openVars, slots, conn, accepted>>

\* Deviation: the global budget is looked at and not spent.
RcptNewUnspent(s, a) ==
  /\ MayName(s, a)
  /\ inbox[a].state # "live"
  /\ Tokens(SourceOf(s)) >= 1 /\ Tokens(Global) >= 1
  /\ spent' = [spent EXCEPT ![SourceOf(s)] = @ + 1]
  /\ Name(s, a, TRUE)
  /\ UNCHANGED <<rowVars, refilled, openVars, slots, conn, accepted>>

\* A name to make is paid for at RCPT, repeated or not.
RcptNew(s, a) ==
  /\ MayName(s, a)
  /\ inbox[a].state # "live"
  /\ Tokens(SourceOf(s)) >= 1 /\ Tokens(Global) >= 1
  /\ spent' = [spent EXCEPT ![SourceOf(s)] = @ + 1, ![Global] = @ + 1]
  /\ Name(s, a, TRUE)
  /\ UNCHANGED <<rowVars, refilled, openVars, slots, conn, accepted>>

\* The source's token is gone even when the global budget refuses.
RcptThrottled(s, a) ==
  /\ MayName(s, a)
  /\ inbox[a].state # "live"
  /\ Tokens(SourceOf(s)) < 1 \/ Tokens(Global) < 1
  /\ spent' = IF Tokens(SourceOf(s)) < 1 THEN spent
              ELSE [spent EXCEPT ![SourceOf(s)] = @ + 1]
  /\ UNCHANGED <<rowVars, refilled, openVars, slots, conn, smtp, accepted>>

\* An entry expires, or another one takes its place.
CacheExpires(d) ==
  /\ cachedDomain[d]
  /\ cachedDomain' = [cachedDomain EXCEPT ![d] = FALSE]
  /\ UNCHANGED <<rowVars, bucketVars, openVars, slots, conn, smtp, accepted>>

\* RSET, a new MAIL, or the end of the connection.
Reset(s) ==
  /\ smtp[s].pc = "named"
  /\ smtp' = [smtp EXCEPT ![s] = NoTransaction]
  /\ UNCHANGED <<rowVars, bucketVars, openVars, slots, conn, cachedDomain, accepted>>

-----------------------------------------------------------------------------
(* Commit, as far as names go.                                             *)

CommitBegin(s) ==
  /\ smtp[s].pc = "named" /\ conn[s] = "open"
  /\ Begin
  /\ smtp' = [smtp EXCEPT ![s].pc = "begun", ![s].born = clock']
  /\ UNCHANGED <<domain, inbox, announced, changes, faults, bucketVars, openVars,
                 slots, conn, cachedDomain, accepted>>

\* ProvisionNamed, or the row of an inbox that was there at RCPT.
Place(s) ==
  /\ smtp[s].pc = "begun"
  /\ IF smtp[s].provision
     THEN CreateIdentityIfAbsent(smtp[s].to, s, smtp[s].born)
     ELSE UNCHANGED inbox
  /\ smtp' = [smtp EXCEPT ![s].pc = "placed"]
  /\ UNCHANGED <<domain, announced, clock, changes, faults, bucketVars, openVars,
                 slots, conn, cachedDomain, accepted>>

Commit(s) ==
  /\ smtp[s].pc = "placed"
  /\ CommitRow(smtp[s].to, s)
  /\ accepted' = accepted \cup {smtp[s].to}
  /\ smtp' = [smtp EXCEPT ![s] = NoTransaction]
  /\ UNCHANGED <<domain, clock, changes, faults, bucketVars, openVars,
                 slots, conn, cachedDomain>>

CommitFails(s) ==
  /\ smtp[s].pc \in {"begun", "placed"}
  /\ Fault
  /\ RollbackRow(smtp[s].to, s)
  /\ smtp' = [smtp EXCEPT ![s] = NoTransaction]
  /\ UNCHANGED <<domain, announced, clock, changes, bucketVars, openVars,
                 slots, conn, cachedDomain, accepted>>

SenderStep(s) ==
  \/ Accept(s) \/ Close(s) \/ Reset(s)
  \/ \E a \in Addresses : RcptKnown(s, a) \/ RcptNew(s, a) \/ RcptThrottled(s, a)
  \/ CommitBegin(s) \/ Place(s) \/ Commit(s) \/ CommitFails(s)

AdmissionStep ==
  \/ \E s \in Senders : SenderStep(s)
  \/ \E d \in Domains : CacheExpires(d)
=============================================================================
