----------------------------- MODULE ImageProxy -----------------------------
(***************************************************************************)
(* Remote images of a message, fetched by the server on the reader's       *)
(* behalf.                                                                 *)
(*                                                                         *)
(* Source: internal/api/imageproxy.go, internal/sanitize/sanitize.go.      *)
(*                                                                         *)
(* What a host name means is decided by its sender's name server each time *)
(* it is asked, so every resolution here may give any address.             *)
(***************************************************************************)
EXTENDS Integers

CONSTANTS
  Addresses,      \* what a name may resolve to
  Public,         \* those isPublicAddress lets through
  MaxRedirects    \* proxyMaxRedirect

ASSUME ProxyAssumption == Public \subseteq Addresses /\ MaxRedirects \in Nat \ {0}

VARIABLE proxy

Schemes == {"http", "other"}

\* asked: requests made for this image, the first included (via).  address is
\* the one the socket is about to connect to, and left are the name's others;
\* dialed, all it has connected to.
ProxyTypeOK ==
  /\ proxy.pc \in {"idle", "resolve", "control", "connect", "answer", "served", "failed"}
  /\ proxy.asked \in 0..MaxRedirects
  /\ proxy.address \subseteq Addresses /\ proxy.left \subseteq Addresses
  /\ proxy.dialed \subseteq Addresses

ProxyInit ==
  proxy = [pc |-> "idle", asked |-> 0, address |-> {}, left |-> {}, dialed |-> {}]

\* checkScheme.
checkScheme(scheme) == scheme = "http"

\* A signature is made only where the sanitizer rewrites an image, so it
\* verifies for the images of the message and for nothing else.
ProxyImage(scheme) ==
  /\ proxy.pc = "idle"
  /\ proxy' = [proxy EXCEPT
       !.pc    = IF checkScheme(scheme) THEN "resolve" ELSE "failed",
       !.asked = 1]

\* The dialer makes a socket for one of a name's addresses at a time, and the
\* fetch fails when there are none left.
TryOne(S) ==
  \/ S = {} /\ proxy' = [proxy EXCEPT !.pc = "failed"]
  \/ \E a \in S :
       proxy' = [proxy EXCEPT !.pc = "control", !.address = {a}, !.left = S \ {a}]

Resolve ==
  /\ proxy.pc = "resolve"
  /\ \E S \in SUBSET Addresses : TryOne(S)

\* ControlContext sees the address that was resolved, before the socket
\* connects to it; after one it blocks, the dialer goes on to the next.
ControlContext ==
  /\ proxy.pc = "control"
  /\ IF proxy.address \subseteq Public
     THEN proxy' = [proxy EXCEPT !.pc = "connect"]
     ELSE TryOne(proxy.left)

\* Nobody answers at this address.
Unreachable ==
  /\ proxy.pc = "connect"
  /\ TryOne(proxy.left)

\* Deviation: the name is resolved once to check it and again to connect.
ConnectByName ==
  /\ proxy.pc = "connect"
  /\ \E a \in Addresses :
       proxy' = [proxy EXCEPT !.pc = "answer", !.dialed = @ \cup {a}]

Connect ==
  /\ proxy.pc = "connect"
  /\ proxy' = [proxy EXCEPT !.pc = "answer", !.dialed = @ \cup proxy.address]

\* Deviation: nobody counts.
RedirectForever(scheme) ==
  /\ proxy.pc = "answer"
  /\ proxy' = IF checkScheme(scheme)
              THEN [proxy EXCEPT !.pc = "resolve", !.asked = @ + 1]
              ELSE [proxy EXCEPT !.pc = "failed"]

\* CheckRedirect: the next URL is the sender's choice too.
Redirect(scheme) ==
  /\ proxy.pc = "answer"
  /\ proxy' = IF proxy.asked < MaxRedirects /\ checkScheme(scheme)
              THEN [proxy EXCEPT !.pc = "resolve", !.asked = @ + 1]
              ELSE [proxy EXCEPT !.pc = "failed"]

\* A small enough image, or anything else.
Served  == proxy.pc = "answer" /\ proxy' = [proxy EXCEPT !.pc = "served"]
Refused == proxy.pc = "answer" /\ proxy' = [proxy EXCEPT !.pc = "failed"]

\* The deadline passes, wherever the fetch is.
Timeout ==
  /\ proxy.pc \in {"resolve", "connect", "answer"}
  /\ proxy' = [proxy EXCEPT !.pc = "failed"]

ProxyStep ==
  \/ Resolve
  \/ ControlContext
  \/ Unreachable
  \/ Connect
  \/ \E scheme \in Schemes : Redirect(scheme)
  \/ Served
  \/ Refused
  \/ Timeout
=============================================================================
