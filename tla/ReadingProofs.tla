--------------------------- MODULE ReadingProofs ---------------------------
(***************************************************************************)
(* Proofs that no reader of an inbox misses mail, for every number of      *)
(* readers, messages and faults, every page size and every buffer.         *)
(*                                                                         *)
(* Cursors: a transaction holds the inbox's row from the moment it takes a *)
(* number until it ends, so numbers become visible in order                *)
(* (NumbersInOrder); a page is a prefix of what follows a cursor, and the  *)
(* cursor moves to its last number (PageIsPrefix, PageCursorIsLast); a     *)
(* page that is held stays a prefix, because what commits meanwhile has a  *)
(* higher number than anything on it (HeldPages).                          *)
(*                                                                         *)
(* Wake-ups and streams: whoever subscribed before it looked, and has      *)
(* missed no notification, either knows of every message or has news of    *)
(* one coming or in its channel (NewsInv).                                 *)
(*                                                                         *)
(* Tabs: what a stream has sent, its tab knows or is about to, however the  *)
(* answers to its fetches overtake each other (KnowledgeInv).              *)
(***************************************************************************)
EXTENDS Reading, FiniteSetTheorems, SequenceTheorems, WellFoundedInduction, TLAPS

(* The cursor a page answers with is the number of its last message.        *)
LEMMA PageCursorIsLast ==
  ASSUME NEW since, NEW page, page \subseteq Numbers, page # {}
  PROVE  /\ PageCursor(since, page) \in page
         /\ \A m \in page : m <= PageCursor(since, page)
<1> DEFINE below == {MaxMessages - n : n \in page}
<1>1. MaxMessages \in Nat /\ \A n \in page : n \in Nat /\ n <= MaxMessages
  BY HubAssumption DEF Numbers
<1>2. below \subseteq Nat /\ below # {}
  <2>1. \A n \in page : MaxMessages - n \in Nat
    BY <1>1
  <2>2. PICK n \in page : TRUE
    OBVIOUS
  <2>3. MaxMessages - n \in below
    BY <2>2
  <2> QED  BY <2>1, <2>3
<1>3. PICK b \in below : \A c \in below : ~ (<<c, b>> \in OpToRel(<, Nat))
  <2> HIDE DEF below
  <2> QED  BY <1>2, NatLessThanWellFounded, WFMin
<1>4. ASSUME NEW c \in below  PROVE b <= c
  <2>1. b \in Nat /\ c \in Nat
    BY <1>2, <1>3
  <2>2. ~ (c < b)
    BY <1>3, <2>1 DEF OpToRel
  <2> QED  BY <2>1, <2>2
<1>5. PICK n \in page : b = MaxMessages - n
  OBVIOUS
<1>6. ASSUME NEW m \in page  PROVE m <= n
  <2>1. b <= MaxMessages - m
    BY <1>4
  <2> QED  BY <1>1, <1>5, <2>1
<1> QED
  BY <1>6 DEF PageCursor

(* A page leaves out no message that comes before one of its own.           *)
LEMMA PageIsPrefix ==
  ASSUME NEW since, NEW n \in DeliveriesSince(since), NEW m \in After(since), m < n
  PROVE  m \in DeliveriesSince(since)
<1> DEFINE before(k) == {j \in After(since) : j < k}
<1>1. MaxMessages \in Nat
  BY HubAssumption
<1>2. IsFiniteSet(Numbers)
  BY <1>1, FS_Interval DEF Numbers
<1>3. After(since) \subseteq Numbers
  BY DEF After
<1>4. IsFiniteSet(After(since))
  BY <1>2, <1>3, FS_Subset
<1>5. IsFiniteSet(before(n)) /\ before(m) \subseteq before(n)
  <2>1. before(n) \subseteq After(since)
    OBVIOUS
  <2>2. ASSUME NEW j \in before(m)  PROVE j < n
    BY <1>3, n \in Numbers DEF Numbers, DeliveriesSince
  <2> QED  BY <1>4, <2>1, <2>2, FS_Subset
<1>6. Cardinality(before(m)) <= Cardinality(before(n))
  BY <1>5, FS_Subset
<1>7. Cardinality(before(m)) \in Nat /\ Cardinality(before(n)) \in Nat
  BY <1>5, FS_Subset, FS_CardinalityType
<1>8. Cardinality(before(n)) < PageSize
  BY DEF DeliveriesSince
<1>9. Cardinality(before(m)) < PageSize
  BY <1>6, <1>7, <1>8, HubAssumption
<1> QED
  BY <1>9 DEF DeliveriesSince

-----------------------------------------------------------------------------
(* What the invariant talks about.                                          *)
observed == <<message, reserved, pollVars>>

(* At first nothing is written and every cursor stands at zero.            *)
LEMMA InitCursorInv == Init => CursorInv
<1> SUFFICES ASSUME Init  PROVE CursorInv
  OBVIOUS
<1> USE DEF Init, HubInit, PollInit, TabInit
<1>1. MaxMessages \in Nat
  BY HubAssumption
<1>2. InboxTypeOK
  BY DEF InboxTypeOK
<1>3. PollTypeOK
  BY <1>1 DEF PollTypeOK, NoRequest
<1>4. NumbersInOrder
  BY DEF NumbersInOrder, Written
<1>5. CursorsBehind /\ HeldPages /\ CursorNeverSkips
  BY DEF CursorsBehind, HeldPages, CursorNeverSkips, NoRequest
<1> QED
  BY <1>2, <1>3, <1>4, <1>5 DEF CursorInv

(* A step that touches neither the messages nor the requests keeps it.      *)
LEMMA UnobservedKeepsCursorInv ==
  ASSUME CursorInv, UNCHANGED observed
  PROVE  CursorInv'
BY DEF CursorInv, observed, pollVars, InboxTypeOK, PollTypeOK, NumbersInOrder,
       CursorsBehind, HeldPages, CursorNeverSkips, Written, Listed, After

(* A step that writes no new number and brings no message back keeps it.    *)
LEMMA SettlingKeepsCursorInv ==
  ASSUME CursorInv, UNCHANGED pollVars, InboxTypeOK', reserved' \subseteq reserved,
         \A n \in Numbers : message'[n] = "none" <=> message[n] = "none",
         \A n \in Numbers : Listed(n)' => Listed(n)
  PROVE  CursorInv'
<1>1. Written' = Written
  BY DEF Written
<1>2. ASSUME NEW w \in Waiters  PROVE After(cursor[w])' \subseteq After(cursor[w])
  BY DEF After, pollVars
<1>3. PollTypeOK'
  BY DEF CursorInv, PollTypeOK, pollVars
<1>4. NumbersInOrder'
  BY <1>1 DEF CursorInv, NumbersInOrder
<1>5. CursorsBehind'
  BY <1>1 DEF CursorInv, CursorsBehind, pollVars
<1>6. HeldPages'
  BY <1>1, <1>2 DEF CursorInv, HeldPages, pollVars
<1>7. CursorNeverSkips'
  BY DEF CursorInv, CursorNeverSkips, CursorsBehind, Written, pollVars
<1> QED
  BY <1>3, <1>4, <1>5, <1>6, <1>7 DEF CursorInv

(* A reserved number is higher than any that was written.                  *)
LEMMA ReserveKeepsCursorInv ==
  ASSUME CursorInv, UNCHANGED pollVars, NEW n \in Numbers, Reserve(n)
  PROVE  CursorInv'
<1> USE DEF CursorInv, Reserve
<1>1. InboxTypeOK' /\ PollTypeOK'
  BY DEF InboxTypeOK, PollTypeOK, pollVars
<1>2. Written' = Written /\ \A w \in Waiters : After(cursor[w])' = After(cursor[w])
  BY DEF Written, After, Listed, pollVars
<1>3. \A m \in 1..(n - 1) : m \in Written
  BY DEF NumbersInOrder, Numbers
<1>4. NumbersInOrder'
  BY <1>2, <1>3 DEF NumbersInOrder
<1>5. CursorsBehind' /\ HeldPages' /\ CursorNeverSkips'
  BY <1>2 DEF CursorsBehind, HeldPages, CursorNeverSkips, Listed, pollVars
<1> QED
  BY <1>1, <1>4, <1>5

(* The number that commits is above every number written before it.         *)
LEMMA CommitKeepsCursorInv ==
  ASSUME CursorInv, UNCHANGED pollVars, NEW n \in Numbers, Commit(n)
  PROVE  CursorInv'
<1> USE DEF CursorInv, Commit
<1>1. InboxTypeOK' /\ PollTypeOK'
  BY DEF InboxTypeOK, PollTypeOK, pollVars
<1>2. Written' = Written \cup {n}
  BY DEF InboxTypeOK, Written
<1>3. \A k \in Numbers : k # n => (Listed(k)' <=> Listed(k))
  BY DEF InboxTypeOK, Listed
<1>4. ASSUME NEW k \in Written  PROVE k < n
  <2>1. k \in Nat /\ n \in Nat /\ n >= 1 /\ n \notin Written
    BY HubAssumption DEF NumbersInOrder, Written, Numbers
  <2>2. CASE k >= n
    BY <2>1, <2>2 DEF NumbersInOrder
  <2> QED  BY <2>1, <2>2
<1>5. NumbersInOrder'
  <2>1. ASSUME NEW k \in Written', NEW m \in 1..k  PROVE m \in Written'
    <3>1. CASE k \in Written
      BY <1>2, <3>1 DEF NumbersInOrder
    <3>2. CASE k = n
      <4>1. m = n \/ m \in 1..(n - 1)
        BY <3>2 DEF Numbers
      <4> QED  BY <1>2, <4>1 DEF NumbersInOrder
    <3> QED  BY <1>2, <3>1, <3>2
  <2>2. ASSUME NEW k \in reserved'
        PROVE  k \notin Written' /\ \A m \in 1..(k - 1) : m \in Written'
    BY <1>2 DEF NumbersInOrder
  <2> QED  BY <2>1, <2>2 DEF NumbersInOrder
<1>6. CursorsBehind'
  BY <1>2 DEF CursorsBehind, pollVars
<1>7. HeldPages'
  <2>1. ASSUME NEW w \in Waiters, NEW k \in wait[w].page,
               NEW m \in After(cursor[w])', m < k
        PROVE  m \in wait[w].page
    <3>1. k < n /\ k \in Numbers /\ MaxMessages \in Nat
      BY <1>4, HubAssumption DEF HeldPages, Written
    <3>2. m \in Numbers /\ m # n /\ Listed(m)' /\ m > cursor[w]
      <4>1. m \in Numbers /\ Listed(m)' /\ m > cursor[w]
        BY DEF After, pollVars
      <4> QED  BY <2>1, <3>1, <4>1 DEF Numbers
    <3>3. m \in After(cursor[w])
      BY <1>3, <3>2 DEF After
    <3> QED  BY <2>1, <3>3 DEF HeldPages
  <2> QED  BY <1>2, <2>1 DEF HeldPages, pollVars
<1>8. CursorNeverSkips'
  <2>1. ASSUME NEW w \in Waiters, NEW k \in 1..cursor[w], Listed(k)'  PROVE k \in seen[w]
    <3>1. k \in Written
      BY DEF CursorsBehind
    <3>2. k # n /\ k \in Numbers
      BY <1>4, <3>1 DEF Written, Numbers
    <3> QED  BY <1>3, <2>1, <3>2 DEF CursorNeverSkips
  <2> QED  BY <2>1 DEF CursorNeverSkips, pollVars
<1> QED
  BY <1>1, <1>5, <1>6, <1>7, <1>8

(* Numbers are written in order, so no cursor is overtaken.                *)
LEMMA InboxKeepsCursorInv ==
  ASSUME CursorInv, UNCHANGED pollVars, InboxStep
  PROVE  CursorInv'
<1>1. CASE \E n \in Numbers : Reserve(n)
  BY <1>1, ReserveKeepsCursorInv
<1>2. CASE \E n \in Numbers : Commit(n)
  BY <1>2, CommitKeepsCursorInv
<1>3. CASE \E n \in Numbers : Rollback(n)
  BY <1>3, SettlingKeepsCursorInv DEF Rollback, CursorInv, InboxTypeOK, Listed
<1>4. CASE \E n \in Numbers : Parsed(n) \/ Unparsable(n) \/ LetGo(n)
  BY <1>4, SettlingKeepsCursorInv
     DEF Parsed, Unparsable, LetGo, CursorInv, InboxTypeOK, Listed
<1>5. CASE Remind
  BY <1>5, UnobservedKeepsCursorInv DEF Remind, observed
<1> QED
  BY <1>1, <1>2, <1>3, <1>4, <1>5 DEF InboxStep

-----------------------------------------------------------------------------
(* Requests.                                                                *)

(* A page just read, or held: a prefix of what follows the cursor.          *)
Prefix(w, page) ==
  /\ page \subseteq Numbers
  /\ \A n \in page :
       /\ n \in Written /\ n > cursor[w]
       /\ \A m \in After(cursor[w]) : m < n => m \in page

(* A page that was just read leaves out no message between the cursor and  *)
(* its own end.                                                            *)
LEMMA FreshPageIsPrefix ==
  ASSUME NEW w \in Waiters
  PROVE  Prefix(w, DeliveriesSince(cursor[w]))
<1> DEFINE page == DeliveriesSince(cursor[w])
<1>1. ASSUME NEW n \in page  PROVE n \in Numbers /\ n \in Written /\ n > cursor[w]
  BY DEF DeliveriesSince, After, Written, Listed
<1>2. ASSUME NEW n \in page, NEW m \in After(cursor[w]), m < n  PROVE m \in page
  BY <1>2, PageIsPrefix
<1> QED
  BY <1>1, <1>2 DEF Prefix

(* Steps of a request that leave cursors and what clients have alone, and   *)
(* hold a prefix.                                                           *)
LEMMA MovingKeepsCursorInv ==
  ASSUME CursorInv, UNCHANGED <<message, reserved, cursor, seen>>, NEW w \in Waiters,
         NEW pc \in {"idle", "first", "waiting", "reread", "holding", "refresh"},
         NEW page, Prefix(w, page), wait' = [wait EXCEPT ![w] = [pc |-> pc, page |-> page]]
  PROVE  CursorInv'
<1> USE DEF CursorInv
<1>1. InboxTypeOK' /\ PollTypeOK'
  BY DEF InboxTypeOK, PollTypeOK, Prefix
<1>2. Written' = Written /\ \A v \in Waiters : After(cursor[v])' = After(cursor[v])
  BY DEF Written, After, Listed
<1>3. NumbersInOrder' /\ CursorsBehind' /\ CursorNeverSkips'
  BY <1>2 DEF NumbersInOrder, CursorsBehind, CursorNeverSkips, Listed
<1>4. \A v \in Waiters : wait'[v].page = IF v = w THEN page ELSE wait[v].page
  BY DEF PollTypeOK
<1>5. HeldPages'
  BY <1>2, <1>4 DEF HeldPages, Prefix
<1> QED
  BY <1>1, <1>3, <1>5

(* An answer with a prefix moves the cursor to the end of what it gives.    *)
LEMMA AnswerKeepsCursorInv ==
  ASSUME CursorInv, NEW w \in Waiters, NEW page, Prefix(w, page), Answer(w, page)
  PROVE  CursorInv'
<1> DEFINE end == PageCursor(cursor[w], page)
<1> USE DEF CursorInv
<1>1. UNCHANGED <<message, reserved>> /\ page \subseteq Numbers /\ MaxMessages \in Nat
  BY HubAssumption DEF Answer, inboxVars, Prefix
<1>2. /\ wait' = [wait EXCEPT ![w] = NoRequest]
      /\ cursor' = [cursor EXCEPT ![w] = end]
      /\ seen' = [seen EXCEPT ![w] = @ \cup page]
  BY DEF Answer
<1>3. end \in 0..MaxMessages /\ (page = {} => end = cursor[w])
  <2>1. CASE page = {}
    BY <2>1 DEF PageCursor, PollTypeOK
  <2>2. CASE page # {}
    <3>1. end \in page
      BY <1>1, <2>2, PageCursorIsLast
    <3> HIDE DEF end
    <3> QED  BY <1>1, <2>2, <3>1 DEF Numbers
  <2> QED  BY <2>1, <2>2
<1>4. page # {} => end \in page /\ \A m \in page : m <= end
  BY <1>1, PageCursorIsLast
<1>5. InboxTypeOK' /\ PollTypeOK'
  <2> HIDE DEF end
  <2> QED  BY <1>1, <1>2, <1>3 DEF InboxTypeOK, PollTypeOK, NoRequest
<1>6. Written' = Written /\ \A s : After(s)' = After(s)
  BY <1>1 DEF Written, After, Listed
<1>7. NumbersInOrder'
  BY <1>1, <1>6 DEF NumbersInOrder
<1>8. CursorsBehind'
  <2> HIDE DEF end
  <2>1. ASSUME NEW n \in 1..end  PROVE n \in Written
    <3>1. CASE page = {}
      BY <1>3, <3>1 DEF CursorsBehind
    <3>2. CASE page # {}
      BY <1>4, <3>2 DEF Prefix, NumbersInOrder
    <3> QED  BY <3>1, <3>2
  <2> QED  BY <1>2, <1>6, <2>1 DEF CursorsBehind, PollTypeOK
<1>9. HeldPages'
  <2> HIDE DEF end
  <2>1. wait'[w].page = {} /\ \A v \in Waiters : v # w => wait'[v] = wait[v] /\ cursor'[v] = cursor[v]
    BY <1>2 DEF PollTypeOK, NoRequest
  <2> QED  BY <1>6, <2>1 DEF HeldPages
<1>10. CursorNeverSkips'
  <2> HIDE DEF end
  <2>1. ASSUME NEW n \in 1..end, Listed(n)  PROVE n \in seen[w] \cup page
    <3>1. CASE n \in 1..cursor[w]
      BY <2>1, <3>1 DEF CursorNeverSkips
    <3>2. CASE n \notin 1..cursor[w]
      <4>1. page # {} /\ n > cursor[w] /\ n \in Numbers
        BY <1>1, <1>3, <3>2 DEF PollTypeOK, Numbers
      <4>2. n \in After(cursor[w])
        BY <2>1, <4>1 DEF After
      <4>3. CASE n = end
        BY <1>4, <4>1, <4>3
      <4>4. CASE n # end
        BY <1>3, <1>4, <4>1, <4>2, <4>4 DEF Prefix
      <4> QED  BY <4>3, <4>4
    <3> QED  BY <3>1, <3>2
  <2>2. ASSUME NEW v \in Waiters, NEW n \in 1..cursor'[v], Listed(n)'  PROVE n \in seen'[v]
    <3>1. Listed(n)
      BY <1>1, <2>2 DEF Listed
    <3>2. CASE v = w
      BY <1>2, <2>1, <3>1, <3>2 DEF PollTypeOK
    <3>3. CASE v # w
      BY <1>2, <3>1, <3>3 DEF PollTypeOK, CursorNeverSkips
    <3> QED  BY <3>2, <3>3
  <2> QED  BY <2>2 DEF CursorNeverSkips
<1> QED
  BY <1>5, <1>7, <1>8, <1>9, <1>10

(* A client moves its cursor over a page it was given, and no further.     *)
LEMMA PollKeepsCursorInv ==
  ASSUME CursorInv, NEW w \in Waiters, PollStep(w)
  PROVE  CursorInv'
<1>1. Prefix(w, wait[w].page) /\ Prefix(w, {})
  BY DEF CursorInv, PollTypeOK, HeldPages, Prefix
<1>2. Prefix(w, DeliveriesSince(cursor[w]))
  BY FreshPageIsPrefix
<1>3. CASE Request(w) \/ NothingYet(w)
  BY <1>1, <1>3, MovingKeepsCursorInv DEF Request, NothingYet, GoTo, inboxVars
<1>4. CASE Hold(w)
  BY <1>2, <1>4, MovingKeepsCursorInv DEF Hold, GoTo, inboxVars
<1>5. CASE AnswerParsed(w)
  BY <1>2, <1>5, AnswerKeepsCursorInv DEF AnswerParsed
<1>6. CASE Wake(w)
  <2>1. CASE UNCHANGED wait
    BY <1>6, <2>1, UnobservedKeepsCursorInv DEF Wake, observed, pollVars, inboxVars
  <2>2. CASE \E pc \in {"reread", "refresh"} : GoTo(w, pc, wait[w].page)
    BY <1>1, <1>6, <2>2, MovingKeepsCursorInv DEF Wake, GoTo, inboxVars
  <2> QED  BY <1>6, <2>1, <2>2 DEF Wake
<1>7. CASE Poll(w)
  BY <1>1, <1>7, MovingKeepsCursorInv DEF Poll, GoTo, inboxVars
<1>8. CASE GiveUp(w) \/ TimeOut(w)
  BY <1>1, <1>8, AnswerKeepsCursorInv DEF GiveUp, TimeOut
<1>9. CASE HangUp(w)
  BY <1>1, <1>9, MovingKeepsCursorInv DEF HangUp, NoRequest, inboxVars
<1> QED
  BY <1>3, <1>4, <1>5, <1>6, <1>7, <1>8, <1>9 DEF PollStep

(* A browser tab does nothing to the inbox it shows.                       *)
LEMMA TabsLeaveInbox ==
  ASSUME NEW t \in Tabs, TabStep(t)
  PROVE  UNCHANGED inboxVars
<1>1. CASE Connect(t) \/ CatchUp(t) \/ CatchUpFails(t)
  BY <1>1 DEF Connect, CatchUp, CatchUpFails
<1>2. CASE Relay(t) \/ Break(t) \/ Hear(t)
  BY <1>2 DEF Relay, Break, Hear
<1>3. ASSUME NEW k \in DOMAIN tab[t].fetches, Serve(t, k) \/ Arrive(t, k) \/ Lose(t, k)
      PROVE  UNCHANGED inboxVars
  BY <1>3 DEF Serve, Arrive, Lose
<1> QED  BY <1>1, <1>2, <1>3 DEF TabStep

(* The hub and the tabs touch neither the messages nor the requests.        *)
LEMMA OthersAreUnobserved ==
  ASSUME UNCHANGED pollVars, HubStep \/ \E t \in Tabs : TabStep(t)
  PROVE  UNCHANGED observed
<1>1. ASSUME HubStep PROVE UNCHANGED inboxVars
  BY <1>1 DEF HubStep, Listen, Drop, Dispatch
<1>2. ASSUME NEW t \in Tabs, TabStep(t) PROVE UNCHANGED inboxVars
  BY <1>2, TabsLeaveInbox
<1> QED  BY <1>1, <1>2 DEF observed, inboxVars

-----------------------------------------------------------------------------
(***************************************************************************)
(* Messages are written in order and no cursor or held page leaves one     *)
(* out, whatever the readers, the hub and the faults do.                   *)
(***************************************************************************)
THEOREM CursorInvHolds == Spec => []CursorInv
<1>1. Init => CursorInv
  BY InitCursorInv
<1>2. CursorInv /\ [Next]_vars => CursorInv'
  <2> SUFFICES ASSUME CursorInv, [Next]_vars  PROVE CursorInv'
    OBVIOUS
  <2>1. CASE InboxStep /\ UNCHANGED <<pollVars, tabVars>>
    BY <2>1, InboxKeepsCursorInv
  <2>2. CASE UNCHANGED pollVars /\ (HubStep \/ \E t \in Tabs : TabStep(t))
    BY <2>2, OthersAreUnobserved, UnobservedKeepsCursorInv
  <2>3. CASE \E w \in Waiters : PollStep(w)
    BY <2>3, PollKeepsCursorInv
  <2>4. CASE UNCHANGED vars
    BY <2>4, UnobservedKeepsCursorInv DEF vars, observed, inboxVars
  <2> QED
    BY <2>1, <2>2, <2>3, <2>4 DEF Next
<1> QED
  BY <1>1, <1>2, PTL DEF Spec

(***************************************************************************)
(* A cursor a long poll answers with never passes a message its client was *)
(* not given.                                                              *)
(***************************************************************************)
THEOREM CursorSafety == Spec => []CursorNeverSkips
<1>1. CursorInv => CursorNeverSkips
  BY DEF CursorInv
<1> QED
  BY <1>1, CursorInvHolds, PTL

-----------------------------------------------------------------------------
(* Pages.                                                                   *)

(* A message after a cursor is missing from the page only when the page is  *)
(* full, so a reader with news to come never gets an empty page, and a page *)
(* that has room for every message gets them all.                           *)
LEMMA PageIsNotEmpty ==
  ASSUME NEW since, After(since) # {}
  PROVE  DeliveriesSince(since) # {}
<1>1. After(since) \subseteq Nat
  BY HubAssumption DEF After, Numbers
<1> DEFINE news == After(since)
<1>2. PICK n \in news : \A c \in news : ~ (<<c, n>> \in OpToRel(<, Nat))
  <2> HIDE DEF news
  <2> QED  BY <1>1, NatLessThanWellFounded, WFMin DEF news
<1>3. {m \in After(since) : m < n} = {}
  <2>1. ASSUME NEW m \in news, m < n PROVE FALSE
    BY <1>1, <1>2, <2>1 DEF OpToRel
  <2> QED  BY <2>1
<1>4. Cardinality({m \in After(since) : m < n}) = 0
  BY <1>3, FS_EmptySet
<1>5. 0 < PageSize
  BY HubAssumption
<1>6. n \in DeliveriesSince(since)
  BY <1>4, <1>5 DEF DeliveriesSince
<1> QED
  BY <1>6

(* What a page and its cursor are worth to a reader that has every listed   *)
(* message up to the cursor it asked with.                                  *)
LEMMA PageFacts ==
  ASSUME InboxTypeOK, NumbersInOrder, NEW since \in 0..MaxMessages,
         1..since \subseteq Written
  PROVE  LET page == DeliveriesSince(since)
             end  == PageCursor(since, page)
         IN  /\ page \subseteq Written /\ page \subseteq Numbers
             /\ Cardinality(page) \in Nat /\ (page # {} => Cardinality(page) > 0)
             /\ end \in 0..MaxMessages /\ 1..end \subseteq Written
             /\ \A n \in 1..end : Listed(n) => n <= since \/ n \in page
<1> DEFINE page == DeliveriesSince(since)
           end  == PageCursor(since, page)
<1>1. MaxMessages \in Nat
  BY HubAssumption
<1>2. page \subseteq Written /\ page \subseteq Numbers /\ page \subseteq After(since)
  BY DEF DeliveriesSince, After, Written, Listed
<1>3. IsFiniteSet(page)
  <2>1. IsFiniteSet(Numbers)
    BY <1>1, FS_Interval DEF Numbers
  <2> HIDE DEF page
  <2> QED  BY <1>2, <2>1, FS_Subset
<1>4. Cardinality(page) \in Nat /\ (page # {} => Cardinality(page) > 0)
  BY <1>3, FS_CardinalityType, FS_EmptySet
<1>5. CASE page = {}
  <2>1. end = since
    BY <1>5 DEF PageCursor
  <2> QED
    BY <1>1, <1>2, <1>4, <2>1
<1>6. CASE page # {}
  <2>1. end \in page /\ \A m \in page : m <= end
    BY <1>2, <1>6, PageCursorIsLast
  <2>2. \A m \in After(since) : m < end => m \in page
    BY <2>1, PageIsPrefix
  <2>3. page \subseteq Numbers /\ page \subseteq Written
    BY <1>2
  <2> HIDE DEF page, end
  <2>4. end \in Numbers /\ \A m \in 1..end : m \in Written
    BY <2>1, <2>3 DEF NumbersInOrder
  <2>5. ASSUME NEW n \in 1..end, Listed(n), ~(n <= since) PROVE n \in page
    <3>1. n \in After(since)
      BY <1>1, <2>4, <2>5 DEF After, Numbers
    <3> QED
      BY <1>1, <2>1, <2>2, <2>4, <3>1 DEF Numbers
  <2> QED
    BY <1>1, <1>2, <1>4, <2>4, <2>5 DEF Numbers, page, end
<1> QED
  BY <1>5, <1>6

(* What the operations on channels, events and requests under way keep.     *)
LEMMA SequenceFacts ==
  ASSUME NEW S, NEW s \in Seq(S)
  PROVE  /\ << >> \in Seq(S) /\ DOMAIN s = 1..Len(s) /\ Len(s) \in Nat
         /\ \A e \in S : <<e>> \in Seq(S)
         /\ \A u \in Seq(S) : s \o u \in Seq(S)
         /\ s # << >> => /\ Head(s) \in S /\ Head(s) = s[1] /\ Len(s) >= 1
                         /\ Tail(s) \in Seq(S) /\ Len(Tail(s)) = Len(s) - 1
                         /\ \A k \in 1..(Len(s) - 1) : Tail(s)[k] = s[k + 1]
         /\ \A e \in S : /\ Append(s, e) \in Seq(S) /\ Len(Append(s, e)) = Len(s) + 1
                         /\ DOMAIN Append(s, e) = 1..(Len(s) + 1)
                         /\ Append(s, e)[Len(s) + 1] = e
                         /\ \A k \in DOMAIN s : Append(s, e)[k] = s[k]
         /\ \A k \in DOMAIN s, e \in S :
              /\ [s EXCEPT ![k] = e] \in Seq(S) /\ DOMAIN [s EXCEPT ![k] = e] = DOMAIN s
<1>1. \A e \in S : <<e>> \in Seq(S)
  OBVIOUS
<1>2. \A u \in Seq(S) : s \o u \in Seq(S)
  BY ConcatProperties
<1>3. s # << >> => Head(s) \in S /\ Tail(s) \in Seq(S) /\ Head(s) = s[1]
  BY HeadTailProperties
<1>4. s # << >> => Len(Tail(s)) = Len(s) - 1 /\ Len(s) >= 1
  BY HeadTailProperties, EmptySeq
<1>5. s # << >> => \A k \in 1..(Len(s) - 1) : Tail(s)[k] = s[k + 1]
  BY <1>4, HeadTailProperties
<1>6. \A e \in S : /\ Append(s, e) \in Seq(S) /\ Len(Append(s, e)) = Len(s) + 1
                   /\ DOMAIN Append(s, e) = 1..(Len(s) + 1)
                   /\ Append(s, e)[Len(s) + 1] = e
                   /\ \A k \in DOMAIN s : Append(s, e)[k] = s[k]
  BY AppendProperties
<1>7. \A k \in DOMAIN s, e \in S :
        /\ [s EXCEPT ![k] = e] \in Seq(S) /\ DOMAIN [s EXCEPT ![k] = e] = DOMAIN s
  BY ExceptSeq
<1>8. << >> \in Seq(S) /\ DOMAIN s = 1..Len(s) /\ Len(s) \in Nat
  OBVIOUS
<1> QED
  BY <1>1, <1>2, <1>3, <1>4, <1>5, <1>6, <1>7, <1>8

(* Where an element stands once one before it is gone.                      *)
LEMMA PlaceAfter ==
  ASSUME NEW n \in Nat, NEW k \in 1..n, NEW i \in 1..n, i # k, ~(i < k)
  PROVE  /\ i - k \in 1..(n - k) /\ k + (i - k) = i
         /\ i - 1 \in 1..(n - 1)
         /\ ~(i - 1 <= k - 1) /\ (i - 1) - (k - 1) = i - k
OBVIOUS

(* Taking one element out of a sequence leaves the others.                  *)
LEMMA RemovedAt ==
  ASSUME NEW S, NEW s \in Seq(S), NEW k \in DOMAIN s
  PROVE  /\ RemoveAt(s, k) \in Seq(S)
         /\ Len(RemoveAt(s, k)) = Len(s) - 1
         /\ \A j \in DOMAIN RemoveAt(s, k) :
              \E i \in DOMAIN s : i # k /\ RemoveAt(s, k)[j] = s[i]
         /\ \A i \in DOMAIN s \ {k} :
              \E j \in DOMAIN RemoveAt(s, k) : RemoveAt(s, k)[j] = s[i]
<1> DEFINE a == SubSeq(s, 1, k - 1)
           b == SubSeq(s, k + 1, Len(s))
<1>1. k \in 1..Len(s) /\ Len(s) \in Nat /\ \A i \in 1..Len(s) : s[i] \in S
  OBVIOUS
<1>2. /\ a \in Seq(S) /\ Len(a) = k - 1
      /\ \A i \in 1..(k - 1) : a[i] = s[i]
  BY <1>1, SubSeqProperties
<1>3. /\ b \in Seq(S) /\ Len(b) = Len(s) - k
      /\ \A i \in 1..(Len(s) - k) : b[i] = s[k + i]
  <2>1. /\ k + 1 \in Int /\ Len(s) \in Int /\ \A i \in (k + 1)..Len(s) : s[i] \in S
    BY <1>1
  <2>2. /\ b \in Seq(S)
        /\ Len(b) = IF k + 1 <= Len(s) THEN Len(s) - (k + 1) + 1 ELSE 0
        /\ \A i \in 1 .. Len(s) - (k + 1) + 1 : b[i] = s[(k + 1) + i - 1]
    BY <2>1, SubSeqProperties
  <2> HIDE DEF b
  <2>3. Len(b) = Len(s) - k
    BY <1>1, <2>2
  <2>4. ASSUME NEW i \in 1..(Len(s) - k) PROVE b[i] = s[k + i]
    <3>1. i \in 1 .. Len(s) - (k + 1) + 1 /\ (k + 1) + i - 1 = k + i
      BY <1>1
    <3>2. b[i] = s[(k + 1) + i - 1]
      BY <2>2, <3>1
    <3> QED  BY <3>1, <3>2
  <2> QED
    BY <2>2, <2>3, <2>4
<1> HIDE DEF a, b
<1>4. /\ a \o b \in Seq(S) /\ Len(a \o b) = Len(s) - 1
      /\ \A i \in 1..(Len(s) - 1) : (a \o b)[i] = IF i <= k - 1 THEN a[i] ELSE b[i - (k - 1)]
  <2>1. /\ a \o b \in Seq(S) /\ Len(a \o b) = Len(a) + Len(b)
        /\ \A i \in 1 .. Len(a) + Len(b) :
             (a \o b)[i] = IF i <= Len(a) THEN a[i] ELSE b[i - Len(a)]
    BY <1>2, <1>3, ConcatProperties
  <2>2. Len(a) + Len(b) = Len(s) - 1
    BY <1>1, <1>2, <1>3
  <2> QED  BY <1>2, <2>1, <2>2
<1>5. RemoveAt(s, k) = a \o b
  BY DEF RemoveAt, a, b
<1>6. ASSUME NEW j \in 1..(Len(s) - 1)
      PROVE  \E i \in DOMAIN s : i # k /\ (a \o b)[j] = s[i]
  <2>0. DOMAIN s = 1..Len(s)
    OBVIOUS
  <2>1. CASE j <= k - 1
    <3>1. j \in 1..(k - 1) /\ j \in DOMAIN s /\ j # k
      BY <1>1, <2>0, <2>1
    <3>2. (a \o b)[j] = a[j]
      BY <1>4, <2>1
    <3>3. (a \o b)[j] = s[j]
      BY <1>2, <3>1, <3>2
    <3> QED  BY <3>1, <3>3
  <2>2. CASE ~(j <= k - 1)
    <3>1. PICK m \in 1..(Len(s) - k) : m = j - (k - 1)
      BY <1>1, <2>2
    <3>2. k + m \in DOMAIN s /\ k + m # k
      BY <1>1, <2>0, <3>1
    <3>3. (a \o b)[j] = b[m]
      BY <1>4, <2>2, <3>1
    <3>4. (a \o b)[j] = s[k + m]
      BY <1>3, <3>3
    <3> QED  BY <3>2, <3>4
  <2> QED
    BY <2>1, <2>2
<1>7. DOMAIN (a \o b) = 1..(Len(s) - 1)
  BY <1>4
<1>8. ASSUME NEW i \in DOMAIN s \ {k}
      PROVE  \E j \in 1..(Len(s) - 1) : (a \o b)[j] = s[i]
  <2>1. i \in 1..Len(s) /\ i # k
    OBVIOUS
  <2>2. CASE i < k
    <3>1. i \in 1..(k - 1) /\ i \in 1..(Len(s) - 1) /\ i <= k - 1
      BY <1>1, <2>1, <2>2
    <3>2. (a \o b)[i] = s[i]
      BY <1>2, <1>4, <3>1
    <3> QED  BY <3>1, <3>2
  <2>3. CASE ~(i < k)
    <3>1. /\ i - k \in 1..(Len(s) - k) /\ k + (i - k) = i
          /\ i - 1 \in 1..(Len(s) - 1)
          /\ ~(i - 1 <= k - 1) /\ (i - 1) - (k - 1) = i - k
      BY <1>1, <2>1, <2>3, PlaceAfter
    <3>2. (a \o b)[i - 1] = b[i - k]
      BY <1>4, <3>1
    <3>3. b[i - k] = s[i]
      BY <1>3, <3>1
    <3> QED  BY <3>1, <3>2, <3>3
  <2> QED
    BY <2>2, <2>3
<1> QED
  BY <1>4, <1>5, <1>6, <1>7, <1>8

-----------------------------------------------------------------------------
(* Tabs.                                                                    *)

(* One tab: every number it counts from is written, and its stream has sent *)
(* every listed message up to where it stands.                              *)
TabGood(x) ==
  /\ x \in Tab
  /\ 1..x.position \subseteq Written /\ 1..x.last \subseteq Written
  /\ \A k \in DOMAIN x.fetches :
       /\ 1..x.fetches[k].since \subseteq Written
       /\ x.fetches[k].page \subseteq Written
  /\ \A n \in 1..x.position : Listed(n) => n \in x.sent

(* What is written stays written, and no message comes back.                *)
LEMMA TabStaysGood ==
  ASSUME NEW x, TabGood(x), Written \subseteq Written',
         \A n \in Written : Listed(n)' => Listed(n)
  PROVE  TabGood(x)'
<1>1. \A n \in 1..x.position : Listed(n)' => n \in x.sent
  BY DEF TabGood
<1> QED
  BY <1>1 DEF TabGood

Events == {"open", "message.received", "message.parsed"}

(* Sending a page: when it had room for every message, nothing is left.     *)
LEMMA SendGood ==
  ASSUME InboxTypeOK, NumbersInOrder, tab \in [Tabs -> Tab], NEW t \in Tabs,
         TabGood(tab[t]),
         NEW type \in {"message.received", "message.parsed"}, Send(t, type)
  PROVE  \E new : /\ tab' = [tab EXCEPT ![t] = new] /\ TabGood(new)
                  /\ new.stream = "live"
                  /\ ~new.behind => \A n \in Numbers : Listed(n) => n \in new.sent
<1>0. PICK x \in Tab : x = tab[t]
  OBVIOUS
<1> DEFINE page == DeliveriesSince(x.position)
           end == PageCursor(x.position, page)
           copies == IF page = {} /\ type = "message.parsed" THEN 1 ELSE Cardinality(page)
           news == [k \in 1..copies |-> type]
           full == page # After(x.position)
<1>1. x \in Tab /\ x.position \in 0..MaxMessages /\ 1..x.position \subseteq Written
      /\ MaxMessages \in Nat
  BY <1>0, HubAssumption DEF TabGood, Tab
<1>2. /\ page \subseteq Written /\ page \subseteq Numbers /\ Cardinality(page) \in Nat
      /\ end \in 0..MaxMessages /\ 1..end \subseteq Written
      /\ \A n \in 1..end : Listed(n) => n <= x.position \/ n \in page
  BY <1>1, PageFacts
<1>3. tab' = [tab EXCEPT ![t].stream = "live", ![t].position = end,
                        ![t].sent = @ \cup page, ![t].behind = full,
                        ![t].sse = @ \o news]
  BY <1>0 DEF Send
<1>4. news \in Seq(Events) /\ x.sse \in Seq(Events)
  <2>1. copies \in Nat
    BY <1>2
  <2> HIDE DEF copies
  <2> QED  BY <2>1 DEF Tab, Events
<1>5. PICK behind \in BOOLEAN : behind = full
  OBVIOUS
<1>10. TabGood(x) /\ (~behind => page = After(x.position))
  BY <1>0, <1>5
<1> HIDE DEF page, end, news, copies, full
<1>11. PICK sent \in SUBSET Numbers : sent = x.sent \cup page
  BY <1>2 DEF Tab
<1>12. PICK sse \in Seq(Events) : sse = x.sse \o news
  <2> HIDE DEF news
  <2> QED  BY <1>4, SequenceFacts
<1>13. PICK position \in 0..MaxMessages : position = end
  BY <1>2
<1> DEFINE new == [x EXCEPT !.stream = "live", !.position = position,
                            !.sent = sent, !.behind = behind, !.sse = sse]
<1>14. tab' = [tab EXCEPT ![t] = new]
  BY <1>0, <1>3, <1>5, <1>11, <1>12, <1>13
<1>6. /\ new \in Tab /\ new.position = end /\ new.sent = x.sent \cup page
      /\ new.last = x.last /\ new.fetches = x.fetches /\ new.stream = "live"
      /\ new.behind = behind
  BY <1>11, <1>13 DEF Tab, Events
<1>7. \A n \in 1..new.position : Listed(n) => n \in new.sent
  <2> SUFFICES ASSUME NEW n \in 1..end, Listed(n) PROVE n \in x.sent \cup page
    BY <1>6
  <2>1. n <= x.position => n \in 1..x.position
    BY <1>1, <1>2
  <2> QED  BY <1>2, <1>10, <2>1 DEF TabGood
<1>8. TabGood(new)
  <2> HIDE DEF new
  <2> QED  BY <1>2, <1>6, <1>7, <1>10 DEF TabGood
<1>9. ASSUME ~new.behind, NEW n \in Numbers, Listed(n) PROVE n \in new.sent
  <2>1. CASE n \in 1..x.position
    BY <1>6, <1>9, <1>10, <2>1 DEF TabGood
  <2>2. CASE n \notin 1..x.position
    <3>1. n \in After(x.position)
      BY <1>1, <1>9, <2>2 DEF After, Numbers
    <3> QED  BY <1>6, <1>9, <1>10, <3>1
  <2> QED  BY <2>1, <2>2
<1> HIDE DEF new
<1> QED
  BY <1>6, <1>8, <1>9, <1>14

(* What an answer changes, and what it leaves alone.                        *)
LEMMA ArriveChanges ==
  ASSUME tab \in [Tabs -> Tab], NEW t \in Tabs, NEW k \in DOMAIN tab[t].fetches,
         Arrive(t, k)
  PROVE  LET x == tab[t]
             y == tab'[t]
             old == x.fetches[k]
         IN  /\ y.stream = x.stream /\ y.position = x.position /\ y.sse = x.sse
             /\ y.sent = x.sent /\ y.behind = x.behind /\ y.cut = x.cut
             /\ y.fetches = RemoveAt(x.fetches, k)
             /\ y.last = IF old.replace \/ old.page # {}
                         THEN PageCursor(old.since, old.page) ELSE x.last
             /\ y.list = IF old.replace THEN old.page ELSE x.list \cup old.page
             /\ y.known = x.known \cup old.known
             /\ y.forgot = IF old.replace THEN ~(x.known \subseteq old.known) ELSE x.forgot
             /\ missed' = missed
<1>0. PICK x \in Tab : x = tab[t]
  OBVIOUS
<1> DEFINE old == x.fetches[k]
           last == IF old.replace \/ old.page # {}
                   THEN PageCursor(old.since, old.page) ELSE x.last
           list == IF old.replace THEN old.page ELSE x.list \cup old.page
           known == x.known \cup old.known
           forgot == IF old.replace THEN ~(x.known \subseteq old.known) ELSE x.forgot
           rest == RemoveAt(x.fetches, k)
<1>1. /\ tab'[t] = [x EXCEPT !.fetches = rest, !.last = last, !.list = list,
                            !.known = known, !.forgot = forgot]
      /\ missed' = missed
  BY <1>0 DEF Arrive, Forgets, hubVars
<1> HIDE DEF old, last, list, known, forgot, rest
<1>2. PICK y : y = tab'[t]
  OBVIOUS
<1>3. /\ y.stream = x.stream /\ y.position = x.position /\ y.sse = x.sse
      /\ y.sent = x.sent /\ y.behind = x.behind /\ y.cut = x.cut
      /\ y.fetches = rest /\ y.last = last /\ y.list = list
      /\ y.known = known /\ y.forgot = forgot
  BY <1>1, <1>2 DEF Tab
<1> QED
  BY <1>0, <1>1, <1>2, <1>3 DEF old, last, list, known, forgot, rest

(* What serving a fetch changes of a tab.                                   *)
LEMMA ServeChanges ==
  ASSUME tab \in [Tabs -> Tab], NEW t \in Tabs, NEW k \in DOMAIN tab[t].fetches,
         Serve(t, k)
  PROVE  LET x == tab[t]
             y == tab'[t]
             old == x.fetches[k]
             page == DeliveriesSince(old.since)
             served == [old EXCEPT !.served = TRUE, !.page = page,
                                   !.known = AccountedFor(old.since, page)]
             new == [x EXCEPT !.fetches = [@ EXCEPT ![k] = served],
                              !.cut = page # After(old.since)]
         IN  /\ tab' = [tab EXCEPT ![t] = y] /\ y = new
             /\ y.stream = x.stream /\ y.sent = x.sent /\ y.behind = x.behind
<1>0. PICK x \in Tab : x = tab[t]
  OBVIOUS
<1> DEFINE old == x.fetches[k]
           page == DeliveriesSince(old.since)
           served == [old EXCEPT !.served = TRUE, !.page = page,
                                 !.known = AccountedFor(old.since, page)]
           full == page # After(old.since)
           fetches == [x.fetches EXCEPT ![k] = served]
           new == [x EXCEPT !.fetches = fetches, !.cut = full]
<1>1. tab' = [tab EXCEPT ![t].fetches[k] = served, ![t].cut = full]
  BY <1>0 DEF Serve
<1> HIDE DEF served, full
<1>2. tab' = [tab EXCEPT ![t] = new]
  BY <1>0, <1>1
<1> HIDE DEF fetches
<1>3. new.stream = x.stream /\ new.sent = x.sent /\ new.behind = x.behind
  BY DEF Tab
<1> HIDE DEF new
<1>4. tab'[t] = new
  BY <1>2
<1>5. tab' = [tab EXCEPT ![t] = tab'[t]]
  BY <1>2, <1>4
<1> QED
  BY <1>0, <1>3, <1>4, <1>5 DEF served, full, fetches, new

(* Every step of a tab or of its stream keeps it good.                      *)
LEMMA TabStepGood ==
  ASSUME InboxTypeOK, NumbersInOrder, buffer \in [Readers -> Seq(Types)],
         tab \in [Tabs -> Tab], NEW t \in Tabs, TabGood(tab[t]), TabStep(t)
  PROVE  \E new : tab' = [tab EXCEPT ![t] = new] /\ TabGood(new)
<1>0. PICK x \in Tab : x = tab[t] /\ TabGood(x)
  OBVIOUS
<1>1. /\ x \in Tab /\ MaxMessages \in Nat /\ x.position \in 0..MaxMessages
      /\ x.last \in 0..MaxMessages /\ x.sse \in Seq(Events)
      /\ x.fetches \in Seq(Fetches) /\ x.list \subseteq Numbers /\ x.sent \subseteq Numbers
      /\ x.known \subseteq Numbers /\ x.forgot \in BOOLEAN
  BY <1>0, HubAssumption DEF TabGood, Tab, Events
<1>2. CASE Connect(t)
  <2>2. PICK sent \in SUBSET Numbers : sent = 1..x.last
    BY <1>1 DEF Numbers
  <2>4. PICK sse \in Seq(Events) : sse = <<"open">>
    <3>1. "open" \in Events
      BY DEF Events
    <3> QED  BY <1>1, <3>1, SequenceFacts
  <2>5. PICK position \in 0..MaxMessages : position = x.last
    BY <1>1
  <2> DEFINE new == [x EXCEPT !.stream = "catchup", !.position = position,
                              !.sent = sent, !.sse = sse]
  <2>1. tab' = [tab EXCEPT ![t] = new]
    BY <1>0, <1>2, <2>2, <2>4, <2>5 DEF Connect
  <2>3. /\ new \in Tab /\ new.position = x.last /\ new.sent = 1..x.last
        /\ new.last = x.last /\ new.fetches = x.fetches
    BY <2>2, <2>5 DEF Tab, Events
  <2> HIDE DEF new
  <2> QED  BY <1>0, <2>1, <2>3 DEF TabGood
<1>3. CASE CatchUp(t)
  BY <1>3, SendGood DEF CatchUp
<1>4. CASE Relay(t)
  <2>1. CASE Head(buffer[t]) = "lifecycle"
    <3>1. tab' = [tab EXCEPT ![t] = x]
      BY <1>0, <1>4, <2>1 DEF Relay
    <3> QED  BY <1>0, <3>1
  <2>2. CASE Head(buffer[t]) # "lifecycle"
    <3>1. buffer[t] \in Seq(Types) /\ buffer[t] # << >>
      BY <1>4 DEF Relay, Receive, Readers
    <3>2. Head(buffer[t]) \in {"message.received", "message.parsed"}
      BY <2>2, <3>1 DEF Types
    <3> QED  BY <1>4, <2>2, <3>2, SendGood DEF Relay
  <2> QED  BY <2>1, <2>2
<1>5. ASSUME NEW new, tab' = [tab EXCEPT ![t] = new], new \in Tab,
             new.position = x.position, new.sent = x.sent, new.last = x.last,
             new.fetches = x.fetches
      PROVE  TabGood(new)
  BY <1>0, <1>5 DEF TabGood
<1>6. CASE CatchUpFails(t)
  <2> DEFINE new == [x EXCEPT !.stream = "live"]
  <2>1. tab' = [tab EXCEPT ![t] = new]
    BY <1>0, <1>6 DEF CatchUpFails
  <2>2. /\ new \in Tab /\ new.position = x.position /\ new.sent = x.sent
        /\ new.last = x.last /\ new.fetches = x.fetches
    BY <1>1 DEF Tab, Events
  <2> HIDE DEF new
  <2> QED  BY <1>5, <2>1, <2>2
<1>7. CASE Break(t)
  <2>3. PICK sse \in Seq(Events) : sse = << >>
    BY <1>1, SequenceFacts
  <2> DEFINE new == [x EXCEPT !.stream = "closed", !.sse = sse]
  <2>1. tab' = [tab EXCEPT ![t] = new]
    BY <1>0, <1>7, <2>3 DEF Break
  <2>2. /\ new \in Tab /\ new.position = x.position /\ new.sent = x.sent
        /\ new.last = x.last /\ new.fetches = x.fetches
    BY <1>1 DEF Tab, Events
  <2> HIDE DEF new
  <2> QED  BY <1>5, <2>1, <2>2
<1>8. CASE Hear(t)
  <2> DEFINE fetch == IF Head(x.sse) = "message.parsed"
                      THEN Fetch(TRUE, 0) ELSE Fetch(FALSE, x.last)
  <2>1. /\ tab' = [tab EXCEPT ![t].sse = Tail(@), ![t].fetches = Append(@, fetch)]
        /\ x.sse # << >>
    BY <1>0, <1>8 DEF Hear
  <2>2. fetch \in Fetches /\ fetch.page = {} /\ fetch.since \in {0, x.last}
    BY <1>1 DEF Fetch, Fetches
  <2> HIDE DEF fetch
  <2>7. PICK sse \in Seq(Events) : sse = Tail(x.sse)
    BY <1>1, <2>1, SequenceFacts
  <2>8. PICK fetches \in Seq(Fetches) : fetches = Append(x.fetches, fetch)
    BY <1>1, <2>2, SequenceFacts
  <2> DEFINE new == [x EXCEPT !.sse = sse, !.fetches = fetches]
  <2>9. tab' = [tab EXCEPT ![t] = new]
    BY <1>0, <2>1, <2>7, <2>8
  <2>3. /\ new \in Tab /\ new.position = x.position /\ new.sent = x.sent
        /\ new.last = x.last /\ new.fetches = Append(x.fetches, fetch)
    BY <2>7, <2>8 DEF Tab, Events
  <2>4. \A k \in DOMAIN new.fetches :
          new.fetches[k] = fetch \/ (k \in DOMAIN x.fetches /\ new.fetches[k] = x.fetches[k])
    <3>1. \A k \in 1..(Len(x.fetches) + 1) :
            k = Len(x.fetches) + 1 \/ k \in DOMAIN x.fetches
      BY <1>1, SequenceFacts
    <3> QED  BY <1>1, <2>2, <2>3, <3>1, SequenceFacts
  <2> HIDE DEF new
  <2>5. 1..fetch.since \subseteq Written
    BY <1>0, <2>2 DEF TabGood
  <2>6. \A k \in DOMAIN new.fetches :
          1..new.fetches[k].since \subseteq Written /\ new.fetches[k].page \subseteq Written
    BY <1>0, <2>2, <2>4, <2>5 DEF TabGood
  <2> QED  BY <1>0, <2>3, <2>6, <2>9 DEF TabGood
<1>9. ASSUME NEW k \in DOMAIN x.fetches, Serve(t, k)
      PROVE  \E new : tab' = [tab EXCEPT ![t] = new] /\ TabGood(new)
  <2> DEFINE since == x.fetches[k].since
             page == DeliveriesSince(since)
             known == AccountedFor(since, page)
             served == [x.fetches[k] EXCEPT !.served = TRUE, !.page = page, !.known = known]
             full == page # After(since)
  <2>1. x.fetches[k] \in Fetches /\ since \in 0..MaxMessages /\ 1..since \subseteq Written
    <3>1. x.fetches[k] \in Fetches
      BY <1>1
    <3> QED  BY <1>0, <3>1 DEF Fetches, TabGood
  <2>10. page \subseteq Numbers /\ page \subseteq Written /\ known \subseteq Numbers
    <3>1. page \subseteq Numbers /\ page \subseteq Written
          /\ PageCursor(since, page) \in 0..MaxMessages
      BY <2>1, PageFacts
    <3> HIDE DEF page
    <3>2. Written \subseteq Numbers /\ 1..PageCursor(since, page) \subseteq Numbers
      BY <1>1, <3>1 DEF Written, Numbers
    <3> QED  BY <3>1, <3>2 DEF AccountedFor
  <2>2. /\ tab' = [tab EXCEPT ![t] = tab'[t]]
        /\ tab'[t] = [x EXCEPT !.fetches = [@ EXCEPT ![k] = served], !.cut = full]
    <3>1. tab' = [tab EXCEPT ![t] = tab'[t]]
      BY <1>0, <1>9, ServeChanges
    <3>2. tab'[t] = [x EXCEPT !.fetches = [@ EXCEPT ![k] = served], !.cut = full]
      BY <1>0, <1>9, ServeChanges
    <3> QED  BY <3>1, <3>2
  <2> HIDE DEF page, known
  <2>3. served \in Fetches /\ served.since = x.fetches[k].since /\ served.page = page
    BY <2>1, <2>10 DEF Fetches
  <2>11. PICK cut \in BOOLEAN : cut = full
    OBVIOUS
  <2> HIDE DEF served, full, since
  <2>6. PICK fetches \in Seq(Fetches) : fetches = [x.fetches EXCEPT ![k] = served]
    BY <1>1, <2>3, SequenceFacts
  <2> DEFINE new == [x EXCEPT !.fetches = fetches, !.cut = cut]
  <2>7. tab' = [tab EXCEPT ![t] = new]
    BY <1>0, <2>2, <2>6, <2>11
  <2>4. /\ new \in Tab /\ new.position = x.position /\ new.sent = x.sent
        /\ new.last = x.last /\ new.fetches = [x.fetches EXCEPT ![k] = served]
    BY <2>6 DEF Tab, Events
  <2> HIDE DEF new
  <2>5. \A j \in DOMAIN new.fetches :
          1..new.fetches[j].since \subseteq Written /\ new.fetches[j].page \subseteq Written
    BY <1>0, <2>10, <2>3, <2>4 DEF TabGood
  <2> QED  BY <1>0, <2>4, <2>5, <2>7 DEF TabGood
<1>10. ASSUME NEW k \in DOMAIN x.fetches, Arrive(t, k) \/ Lose(t, k)
       PROVE  \E new : tab' = [tab EXCEPT ![t] = new] /\ TabGood(new)
  <2> DEFINE fetch == x.fetches[k]
             page == fetch.page
             rest == RemoveAt(x.fetches, k)
             last == IF fetch.replace \/ page # {}
                     THEN PageCursor(fetch.since, page) ELSE x.last
             list == IF fetch.replace THEN page ELSE x.list \cup page
             known == x.known \cup fetch.known
             forgot == IF fetch.replace THEN ~(x.known \subseteq fetch.known) ELSE x.forgot
  <2>1. fetch \in Fetches /\ page \subseteq Numbers /\ page \subseteq Written
        /\ fetch.since \in 0..MaxMessages /\ 1..fetch.since \subseteq Written
        /\ fetch.known \subseteq Numbers
    <3>1. fetch \in Fetches
      BY <1>1
    <3>2. 1..fetch.since \subseteq Written /\ page \subseteq Written
      BY <1>0 DEF TabGood
    <3> QED  BY <3>1, <3>2 DEF Fetches
  <2>2. /\ rest \in Seq(Fetches)
        /\ \A j \in DOMAIN rest : \E i \in DOMAIN x.fetches : rest[j] = x.fetches[i]
    BY <1>1, RemovedAt
  <2> HIDE DEF rest
  <2>3. \A j \in DOMAIN rest :
          1..rest[j].since \subseteq Written /\ rest[j].page \subseteq Written
    BY <1>0, <2>2 DEF TabGood
  <2>4. PageCursor(fetch.since, page) \in 0..MaxMessages
        /\ 1..PageCursor(fetch.since, page) \subseteq Written
    <3>1. CASE page = {}
      BY <2>1, <3>1 DEF PageCursor
    <3>2. CASE page # {}
      <4>1. PageCursor(fetch.since, page) \in page
        BY <2>1, <3>2, PageCursorIsLast
      <4>2. PICK end \in page : PageCursor(fetch.since, page) = end
        BY <4>1
      <4>3. end \in 0..MaxMessages /\ \A m \in 1..end : m \in Written
        BY <1>1, <2>1 DEF NumbersInOrder, Numbers
      <4> QED  BY <4>2, <4>3
    <3> QED  BY <3>1, <3>2
  <2>5. last \in 0..MaxMessages /\ 1..last \subseteq Written /\ list \subseteq Numbers
    BY <1>0, <1>1, <2>1, <2>4 DEF TabGood
  <2>8. known \subseteq Numbers /\ forgot \in BOOLEAN
    BY <1>1, <2>1
  <2>6. CASE Arrive(t, k)
    <3> DEFINE new == [x EXCEPT !.fetches = rest, !.last = last, !.list = list,
                                !.known = known, !.forgot = forgot]
    <3>1. tab' = [tab EXCEPT ![t] = new]
      BY <1>0, <2>6 DEF Arrive, Forgets, rest
    <3> HIDE DEF last, list, fetch, known, forgot
    <3>2. /\ new \in Tab /\ new.position = x.position /\ new.sent = x.sent
          /\ new.last = last /\ new.fetches = rest
      BY <1>1, <2>2, <2>5, <2>8 DEF Tab
    <3> HIDE DEF new
    <3> QED  BY <1>0, <2>3, <2>5, <3>1, <3>2 DEF TabGood
  <2>7. CASE Lose(t, k)
    <3> DEFINE new == [x EXCEPT !.fetches = rest]
    <3>1. tab' = [tab EXCEPT ![t] = new]
      BY <1>0, <2>7 DEF Lose, rest
    <3>2. /\ new \in Tab /\ new.position = x.position /\ new.sent = x.sent
          /\ new.last = x.last /\ new.fetches = rest
      BY <1>1, <2>2 DEF Tab
    <3> HIDE DEF new
    <3> QED  BY <1>0, <2>3, <3>1, <3>2 DEF TabGood
  <2> QED  BY <1>10, <2>6, <2>7
<1> QED
  BY <1>0, <1>2, <1>3, <1>4, <1>6, <1>7, <1>8, <1>9, <1>10 DEF TabStep

-----------------------------------------------------------------------------
(* What a step does to the hub.                                             *)
HubChannels ==
  /\ wire \in Seq(Types) /\ listening \in BOOLEAN
  /\ subscribed \subseteq Readers /\ missed \subseteq Readers
  /\ buffer \in [Readers -> Seq(Types)]
  /\ \A r \in Readers : Len(buffer[r]) <= SubscriberBuffer

Misses(r) == missed' = missed \cup {r} /\ UNCHANGED <<wire, listening, subscribed, buffer>>

HubItself == UNCHANGED hubVars \/ (\E type \in Types : Notify(type)) \/ HubStep

ReadersMove(q) == Subscribe(q) \/ Unsubscribe(q) \/ Receive(q) \/ Misses(q)

(* A step that takes no news from this reader.                              *)
LeavesNews(r) ==
  \/ HubItself
  \/ \E q \in Readers \ {r} : ReadersMove(q)
  \/ Misses(r)
  \/ Receive(r) /\ Head(buffer[r]) # "message.received"

(* The channels keep their types, and no channel is filled beyond its       *)
(* buffer.                                                                  *)
LEMMA ChannelsTyped ==
  ASSUME HubChannels, HubItself \/ \E q \in Readers : ReadersMove(q)
  PROVE  HubChannels'
<1> USE DEF HubChannels
<1>0. SubscriberBuffer \in Nat /\ SubscriberBuffer >= 1
  BY HubAssumption
<1>1. CASE UNCHANGED hubVars
  BY <1>1 DEF hubVars
<1>2. ASSUME NEW type \in Types, Notify(type) PROVE HubChannels'
  <2>1. wire' \in Seq(Types)
    BY <1>2, SequenceFacts DEF Notify
  <2> QED  BY <1>2, <2>1 DEF Notify
<1>3. CASE Listen
  BY <1>3 DEF Listen
<1>4. CASE Drop
  <2>1. wire' \in Seq(Types)
    BY <1>4, SequenceFacts DEF Drop
  <2> QED  BY <1>4, <2>1 DEF Drop
<1>5. CASE Dispatch
  <2>1. wire' \in Seq(Types) /\ Head(wire) \in Types
    BY <1>5, SequenceFacts DEF Dispatch
  <2>2. ASSUME NEW r \in Readers
        PROVE  buffer'[r] \in Seq(Types) /\ Len(buffer'[r]) <= SubscriberBuffer
    <3>1. buffer[r] \in Seq(Types) /\ Len(buffer[r]) \in Nat /\ Len(buffer[r]) <= SubscriberBuffer
      BY SequenceFacts
    <3>2. /\ Append(buffer[r], Head(wire)) \in Seq(Types)
          /\ Len(Append(buffer[r], Head(wire))) = Len(buffer[r]) + 1
      BY <2>1, <3>1, SequenceFacts
    <3>3. buffer'[r] = IF r \in subscribed /\ HasRoom(r)
                       THEN Append(buffer[r], Head(wire)) ELSE buffer[r]
      BY <1>5 DEF Dispatch
    <3> QED  BY <1>0, <3>1, <3>2, <3>3 DEF HasRoom
  <2>3. buffer' \in [Readers -> Seq(Types)]
    BY <1>5, <2>2 DEF Dispatch
  <2> QED  BY <1>5, <2>1, <2>2, <2>3 DEF Dispatch
<1>6. ASSUME NEW q \in Readers, ReadersMove(q) PROVE HubChannels'
  <2>1. CASE Subscribe(q) \/ Misses(q)
    BY <2>1 DEF Subscribe, Misses
  <2>2. CASE Unsubscribe(q)
    <3>1. << >> \in Seq(Types) /\ Len(<< >>) = 0
      BY SequenceFacts
    <3> QED  BY <1>0, <2>2, <3>1 DEF Unsubscribe
  <2>3. CASE Receive(q)
    <3>1. buffer[q] \in Seq(Types) /\ buffer[q] # << >>
      BY <2>3 DEF Receive
    <3>2. /\ Tail(buffer[q]) \in Seq(Types) /\ Len(buffer[q]) \in Nat
          /\ Len(Tail(buffer[q])) = Len(buffer[q]) - 1
      BY <3>1, SequenceFacts
    <3> QED  BY <1>0, <2>3, <3>2 DEF Receive
  <2> QED  BY <1>6, <2>1, <2>2, <2>3 DEF ReadersMove
<1> QED
  BY <1>1, <1>2, <1>3, <1>4, <1>5, <1>6 DEF HubItself, HubStep

(* News on its way to a subscriber stays on its way, or is known to be      *)
(* lost, until the subscriber takes it.                                     *)
LEMMA NewsStays ==
  ASSUME HubChannels, NEW r \in subscribed, LeavesNews(r)
  PROVE  /\ r \in subscribed'
         /\ r \in missed => r \in missed'
         /\ OnItsWay(r) => OnItsWay(r)' \/ r \in missed'
<1>0. r \in Readers /\ buffer[r] \in Seq(Types) /\ wire \in Seq(Types)
  BY DEF HubChannels
<1>1. CASE UNCHANGED hubVars \/ Listen \/ Misses(r)
  BY <1>1 DEF hubVars, Listen, Misses, OnItsWay
<1>2. ASSUME NEW type \in Types, Notify(type)
      PROVE  r \in subscribed' /\ (r \in missed => r \in missed') /\ (OnItsWay(r) => OnItsWay(r)')
  <2>1. \A k \in DOMAIN wire : k \in DOMAIN wire' /\ wire'[k] = wire[k]
    <3>1. \A k \in DOMAIN wire : k \in DOMAIN Append(wire, type) /\ Append(wire, type)[k] = wire[k]
      BY <1>0, SequenceFacts
    <3> QED  BY <1>2, <3>1 DEF Notify
  <2> QED  BY <1>2, <2>1 DEF Notify, OnItsWay
<1>3. CASE Drop
  BY <1>3 DEF Drop, OnItsWay
<1>4. CASE Dispatch
  <2>1. r \in subscribed' /\ (r \in missed => r \in missed')
    BY <1>4 DEF Dispatch
  <2>2. /\ wire # << >> /\ Head(wire) \in Types /\ Head(wire) = wire[1]
        /\ \A k \in 1..(Len(wire) - 1) : Tail(wire)[k] = wire[k + 1]
        /\ DOMAIN Tail(wire) = 1..(Len(wire) - 1) /\ wire' = Tail(wire)
        /\ DOMAIN wire = 1..Len(wire) /\ Len(wire) \in Nat
    BY <1>0, <1>4, SequenceFacts DEF Dispatch
  <2>3. buffer'[r] = IF HasRoom(r) THEN Append(buffer[r], Head(wire)) ELSE buffer[r]
    BY <1>0, <1>4 DEF Dispatch
  <2>4. /\ \A k \in DOMAIN buffer[r] : k \in DOMAIN buffer'[r] /\ buffer'[r][k] = buffer[r][k]
        /\ HasRoom(r) => /\ Len(buffer[r]) + 1 \in DOMAIN buffer'[r]
                         /\ buffer'[r][Len(buffer[r]) + 1] = Head(wire)
    <3>1. /\ \A k \in DOMAIN buffer[r] : /\ k \in DOMAIN Append(buffer[r], Head(wire))
                                         /\ Append(buffer[r], Head(wire))[k] = buffer[r][k]
          /\ Len(buffer[r]) + 1 \in DOMAIN Append(buffer[r], Head(wire))
          /\ Append(buffer[r], Head(wire))[Len(buffer[r]) + 1] = Head(wire)
      BY <1>0, <2>2, SequenceFacts
    <3> QED  BY <2>3, <3>1
  <2>5. ASSUME NEW k \in DOMAIN buffer[r], buffer[r][k] = "message.received"
        PROVE  OnItsWay(r)'
    BY <2>4, <2>5 DEF OnItsWay
  <2>6. ASSUME NEW k \in DOMAIN wire, wire[k] = "message.received"
        PROVE  OnItsWay(r)' \/ r \in missed'
    <3>1. CASE k = 1
      <4>1. CASE HasRoom(r)
        BY <2>2, <2>4, <2>6, <3>1, <4>1 DEF OnItsWay
      <4>2. CASE ~HasRoom(r)
        BY <1>4, <2>2, <2>6, <3>1, <4>2 DEF Dispatch
      <4> QED  BY <4>1, <4>2
    <3>2. CASE k # 1
      <4>1. PICK j \in 1..(Len(wire) - 1) : k = j + 1
        <5>1. k - 1 \in 1..(Len(wire) - 1) /\ k = (k - 1) + 1
          BY <2>2, <3>2
        <5> QED  BY <5>1
      <4>2. j \in DOMAIN wire' /\ wire'[j] = "message.received"
        BY <2>2, <2>6, <4>1
      <4> QED  BY <4>2 DEF OnItsWay
    <3> QED  BY <3>1, <3>2
  <2> QED  BY <2>1, <2>5, <2>6 DEF OnItsWay
<1>5. ASSUME NEW q \in Readers \ {r}, ReadersMove(q)
      PROVE  r \in subscribed' /\ (r \in missed => r \in missed') /\ (OnItsWay(r) => OnItsWay(r)')
  <2>1. /\ wire' = wire /\ r \in subscribed' /\ (r \in missed => r \in missed')
    BY <1>5 DEF ReadersMove, Subscribe, Unsubscribe, Receive, Misses
  <2>2. buffer'[r] = buffer[r]
    BY <1>0, <1>5 DEF ReadersMove, Subscribe, Unsubscribe, Receive, Misses, HubChannels
  <2> QED  BY <2>1, <2>2 DEF OnItsWay
<1>6. CASE Receive(r) /\ Head(buffer[r]) # "message.received"
  <2>1. wire' = wire /\ r \in subscribed' /\ missed' = missed /\ buffer'[r] = Tail(buffer[r])
    BY <1>0, <1>6 DEF Receive, HubChannels
  <2>2. /\ Head(buffer[r]) = buffer[r][1]
        /\ \A k \in 1..(Len(buffer[r]) - 1) : Tail(buffer[r])[k] = buffer[r][k + 1]
        /\ DOMAIN Tail(buffer[r]) = 1..(Len(buffer[r]) - 1)
        /\ DOMAIN buffer[r] = 1..Len(buffer[r]) /\ Len(buffer[r]) \in Nat
    BY <1>0, <1>6, SequenceFacts DEF Receive
  <2>3. ASSUME NEW k \in DOMAIN buffer[r], buffer[r][k] = "message.received"
        PROVE  OnItsWay(r)'
    <3>1. k # 1
      BY <1>6, <2>2, <2>3
    <3>2. PICK j \in 1..(Len(buffer[r]) - 1) : k = j + 1
      <4>1. k - 1 \in 1..(Len(buffer[r]) - 1) /\ k = (k - 1) + 1
        BY <2>2, <3>1
      <4> QED  BY <4>1
    <3>3. j \in DOMAIN buffer'[r] /\ buffer'[r][j] = "message.received"
      BY <2>1, <2>2, <2>3, <3>2
    <3> QED  BY <3>3 DEF OnItsWay
  <2> QED  BY <2>1, <2>3 DEF OnItsWay
<1> QED
  BY <1>1, <1>2, <1>3, <1>4, <1>5, <1>6 DEF LeavesNews, HubItself, HubStep

(* The commit of a message is news on its way to every subscriber, or lost. *)
LEMMA CommitIsNews ==
  ASSUME HubChannels, Notify("message.received"), NEW r \in subscribed
  PROVE  r \in subscribed' /\ (OnItsWay(r)' \/ r \in missed')
<1>1. wire \in Seq(Types) /\ "message.received" \in Types
  BY DEF HubChannels, Types
<1>2. CASE listening
  <2>1. /\ Len(wire) + 1 \in DOMAIN Append(wire, "message.received")
        /\ Append(wire, "message.received")[Len(wire) + 1] = "message.received"
    BY <1>1, SequenceFacts
  <2> QED  BY <1>2, <2>1 DEF Notify, OnItsWay
<1>3. CASE ~listening
  BY <1>3 DEF Notify
<1> QED
  BY <1>2, <1>3

-----------------------------------------------------------------------------
(* Whose step it is.  A request's step touches the hub on its own behalf,   *)
(* and nothing of the inbox or of another request.                          *)
LEMMA PollStepIsOwn ==
  ASSUME PollTypeOK, NEW v \in Waiters, PollStep(v)
  PROVE  /\ HubItself \/ ReadersMove(v)
         /\ UNCHANGED <<message, reserved, reminders>>
         /\ \A w \in Waiters \ {v} : wait'[w] = wait[w] /\ cursor'[w] = cursor[w]
<1>1. CASE Request(v)
  BY <1>1 DEF Request, ReadersMove, GoTo, inboxVars, PollTypeOK
<1>2. CASE NothingYet(v) \/ Hold(v) \/ Poll(v)
  BY <1>2 DEF NothingYet, Hold, Poll, HubItself, GoTo, inboxVars, PollTypeOK
<1>3. ASSUME NEW page, Answer(v, page)
      PROVE  /\ HubItself \/ ReadersMove(v)
             /\ UNCHANGED <<message, reserved, reminders>>
             /\ \A w \in Waiters \ {v} : wait'[w] = wait[w] /\ cursor'[w] = cursor[w]
  BY <1>3 DEF Answer, ReadersMove, inboxVars, PollTypeOK
<1>4. CASE AnswerParsed(v) \/ GiveUp(v) \/ TimeOut(v)
  BY <1>3, <1>4 DEF AnswerParsed, GiveUp, TimeOut
<1>5. CASE Wake(v)
  BY <1>5 DEF Wake, ReadersMove, GoTo, inboxVars, PollTypeOK
<1>6. CASE HangUp(v)
  BY <1>6 DEF HangUp, ReadersMove, inboxVars, PollTypeOK
<1> QED
  BY <1>1, <1>2, <1>4, <1>5, <1>6 DEF PollStep

(* The same of a tab.                                                       *)
LEMMA TabStepIsOwn ==
  ASSUME TabTypeOK, NEW v \in Tabs, TabStep(v)
  PROVE  /\ HubItself \/ ReadersMove(v)
         /\ UNCHANGED <<message, reserved, reminders>>
         /\ \A t \in Tabs \ {v} : tab'[t] = tab[t]
<1>1. CASE Connect(v)
  BY <1>1 DEF Connect, ReadersMove, inboxVars, TabTypeOK
<1>2. CASE CatchUp(v) \/ Hear(v)
  BY <1>2 DEF CatchUp, Hear, Send, HubItself, inboxVars, TabTypeOK
<1>3. CASE Relay(v)
  BY <1>3 DEF Relay, Send, ReadersMove, inboxVars, TabTypeOK
<1>4. CASE CatchUpFails(v)
  BY <1>4 DEF CatchUpFails, ReadersMove, Misses, inboxVars, TabTypeOK
<1>5. CASE Break(v)
  BY <1>5 DEF Break, ReadersMove, inboxVars, TabTypeOK
<1>6. ASSUME NEW k \in DOMAIN tab[v].fetches, Serve(v, k)
      PROVE  /\ HubItself /\ UNCHANGED <<message, reserved, reminders>>
             /\ \A t \in Tabs \ {v} : tab'[t] = tab[t]
  BY <1>6 DEF Serve, HubItself, inboxVars, TabTypeOK
<1>7. ASSUME NEW k \in DOMAIN tab[v].fetches, Arrive(v, k)
      PROVE  /\ HubItself /\ UNCHANGED <<message, reserved, reminders>>
             /\ \A t \in Tabs \ {v} : tab'[t] = tab[t]
  BY <1>7 DEF Arrive, HubItself, inboxVars, TabTypeOK
<1>8. ASSUME NEW k \in DOMAIN tab[v].fetches, Lose(v, k)
      PROVE  /\ ReadersMove(v) /\ UNCHANGED <<message, reserved, reminders>>
             /\ \A t \in Tabs \ {v} : tab'[t] = tab[t]
  BY <1>8 DEF Lose, ReadersMove, Misses, inboxVars, TabTypeOK
<1> QED
  BY <1>1, <1>2, <1>3, <1>4, <1>5, <1>6, <1>7, <1>8 DEF TabStep

(* The inbox tells the hub and nobody else.                                 *)
LEMMA InboxStepIsOwn ==
  ASSUME InboxStep
  PROVE  HubItself
<1>1. "message.received" \in Types /\ "message.parsed" \in Types /\ "lifecycle" \in Types
  BY DEF Types
<1>2. CASE \E n \in Numbers : Reserve(n) \/ Rollback(n) \/ Unparsable(n)
  BY <1>2 DEF Reserve, Rollback, Unparsable, HubItself
<1>3. CASE \E n \in Numbers : Commit(n) \/ Parsed(n) \/ LetGo(n)
  BY <1>1, <1>3 DEF Commit, Parsed, LetGo, HubItself
<1>4. CASE Remind
  BY <1>1, <1>4 DEF Remind, HubItself
<1> QED
  BY <1>2, <1>3, <1>4 DEF InboxStep

(* Whoever does not move keeps its request or its tab, and its news.        *)
Bystander(r) ==
  /\ LeavesNews(r)
  /\ r \in Waiters => wait'[r] = wait[r] /\ cursor'[r] = cursor[r]
  /\ r \in Tabs => tab'[r] = tab[r]

(* A step is that of one reader or of none.                                *)
LEMMA OneMoves ==
  ASSUME PollTypeOK, TabTypeOK, [Next]_vars, NEW r \in Readers
  PROVE  \/ r \in Waiters /\ PollStep(r)
         \/ r \in Tabs /\ TabStep(r)
         \/ Bystander(r)
<1>1. CASE InboxStep /\ UNCHANGED <<pollVars, tabVars>>
  BY <1>1, InboxStepIsOwn DEF Bystander, LeavesNews, pollVars, tabVars
<1>2. CASE HubStep /\ UNCHANGED <<pollVars, tabVars>>
  BY <1>2 DEF Bystander, LeavesNews, HubItself, pollVars, tabVars
<1>3. ASSUME NEW w \in Waiters, PollStep(w), UNCHANGED tabVars, w # r
      PROVE  Bystander(r)
  BY <1>3, PollStepIsOwn DEF Bystander, LeavesNews, Readers, tabVars
<1>4. ASSUME NEW t \in Tabs, TabStep(t), UNCHANGED pollVars, t # r
      PROVE  Bystander(r)
  BY <1>4, TabStepIsOwn DEF Bystander, LeavesNews, Readers, pollVars
<1>5. CASE UNCHANGED vars
  BY <1>5 DEF vars, pollVars, tabVars, Bystander, LeavesNews, HubItself
<1> QED
  BY <1>1, <1>2, <1>3, <1>4, <1>5 DEF Next

(* What is written stays written; a message comes onto the list only when   *)
(* it commits, and that is announced.                                       *)
LEMMA ListGrowsByCommit ==
  ASSUME InboxTypeOK, NumbersInOrder, PollTypeOK, TabTypeOK, [Next]_vars
  PROVE  /\ Written \subseteq Written'
         /\ \A n \in Written : Listed(n)' => Listed(n)
         /\ \/ \A n \in Numbers : Listed(n)' => Listed(n)
            \/ Notify("message.received") /\ UNCHANGED <<pollVars, tabVars>>
<1>1. ASSUME UNCHANGED message
      PROVE  Written' = Written /\ \A n \in Numbers : Listed(n)' => Listed(n)
  BY <1>1 DEF Written, Listed
<1>2. Written \subseteq Numbers
  BY DEF Written
<1>3. CASE InboxStep /\ UNCHANGED <<pollVars, tabVars>>
  <2>1. ASSUME NEW n \in Numbers, Commit(n)
        PROVE  /\ Written \subseteq Written' /\ Notify("message.received")
               /\ \A m \in Written : Listed(m)' => Listed(m)
    <3>1. n \notin Written
      BY <2>1 DEF Commit, NumbersInOrder
    <3> QED  BY <2>1, <3>1 DEF Commit, InboxTypeOK, Written, Listed
  <2>2. ASSUME NEW n \in Numbers, Parsed(n) \/ Unparsable(n) \/ LetGo(n)
        PROVE  /\ Written \subseteq Written'
               /\ \A m \in Numbers : Listed(m)' => Listed(m)
    BY <2>2 DEF Parsed, Unparsable, LetGo, InboxTypeOK, Written, Listed
  <2>3. CASE (\E n \in Numbers : Reserve(n) \/ Rollback(n)) \/ Remind
    BY <1>1, <1>2, <2>3 DEF Reserve, Rollback, Remind
  <2> QED  BY <1>2, <1>3, <2>1, <2>2, <2>3 DEF InboxStep
<1>4. CASE HubStep
  BY <1>1, <1>2, <1>4 DEF HubStep, Listen, Drop, Dispatch, inboxVars
<1>5. CASE \E w \in Waiters : PollStep(w)
  BY <1>1, <1>2, <1>5, PollStepIsOwn
<1>6. CASE \E t \in Tabs : TabStep(t)
  BY <1>1, <1>2, <1>6, TabStepIsOwn
<1>7. CASE UNCHANGED vars
  BY <1>1, <1>2, <1>7 DEF vars, inboxVars
<1> QED
  BY <1>3, <1>4, <1>5, <1>6, <1>7 DEF Next

(* Faults and reminders stay within their bounds.                           *)
Counters == reminders \in 0..MaxReminders /\ faults \in 0..MaxFaults

(* The counters of notifications and broken connections stay within their  *)
(* bounds.                                                                 *)
LEMMA CountersTyped ==
  ASSUME Counters, [Next]_vars
  PROVE  Counters'
<1>0. MaxReminders \in Nat /\ MaxFaults \in Nat
  BY HubAssumption
<1>1. reminders' = reminders \/ (reminders < MaxReminders /\ reminders' = reminders + 1)
  <2>1. CASE InboxStep
    BY <2>1 DEF InboxStep, Reserve, Commit, Rollback, Parsed, Unparsable, LetGo, Remind
  <2>2. CASE HubStep
    BY <2>2 DEF HubStep, Listen, Drop, Dispatch, inboxVars
  <2>3. CASE \E w \in Waiters : PollStep(w)
    BY <2>3 DEF PollStep, Request, NothingYet, Hold, AnswerParsed, Wake, Poll, GiveUp,
                TimeOut, HangUp, Answer, inboxVars
  <2>4. CASE \E t \in Tabs : TabStep(t)
    BY <2>4, TabsLeaveInbox DEF inboxVars
  <2> QED  BY <2>1, <2>2, <2>3, <2>4 DEF Next, vars, inboxVars
<1>2. faults' = faults \/ Fault
  <2>1. CASE InboxStep
    BY <2>1 DEF InboxStep, Reserve, Commit, Rollback, Parsed, Unparsable, LetGo, Remind
  <2>2. CASE HubStep
    BY <2>2 DEF HubStep, Listen, Drop, Dispatch
  <2>3. CASE \E w \in Waiters : PollStep(w)
    BY <2>3 DEF PollStep, Request, NothingYet, Hold, AnswerParsed, Wake, Poll, GiveUp,
                TimeOut, HangUp, Answer
  <2>4. ASSUME NEW t \in Tabs, TabStep(t) PROVE faults' = faults \/ Fault
    <3>1. CASE Connect(t) \/ CatchUp(t) \/ CatchUpFails(t)
      BY <3>1 DEF Connect, CatchUp, CatchUpFails
    <3>2. CASE Relay(t) \/ Break(t) \/ Hear(t)
      BY <3>2 DEF Relay, Break, Hear
    <3>3. ASSUME NEW k \in DOMAIN tab[t].fetches, Serve(t, k) \/ Arrive(t, k) \/ Lose(t, k)
          PROVE  faults' = faults \/ Fault
      BY <3>3 DEF Serve, Arrive, Lose
    <3> QED  BY <2>4, <3>1, <3>2, <3>3 DEF TabStep
  <2> QED  BY <2>1, <2>2, <2>3, <2>4 DEF Next, vars
<1> QED
  BY <1>0, <1>1, <1>2 DEF Counters, Fault

(* The channels of the hub keep their form, whoever subscribes, receives   *)
(* or leaves.                                                              *)
LEMMA StepHubTyped ==
  ASSUME PollTypeOK, TabTypeOK, HubChannels, [Next]_vars
  PROVE  HubChannels'
<1>1. CASE InboxStep \/ HubStep
  BY <1>1, InboxStepIsOwn, ChannelsTyped DEF HubItself
<1>2. CASE \E w \in Waiters : PollStep(w)
  BY <1>2, PollStepIsOwn, ChannelsTyped DEF Readers
<1>3. CASE \E t \in Tabs : TabStep(t)
  BY <1>3, TabStepIsOwn, ChannelsTyped DEF Readers
<1>4. CASE UNCHANGED vars
  BY <1>4, ChannelsTyped DEF vars, HubItself
<1> QED
  BY <1>1, <1>2, <1>3, <1>4 DEF Next

(* A tab and its stream stay good whatever happens.                         *)
LEMMA StepTabsGood ==
  ASSUME InboxTypeOK, NumbersInOrder, PollTypeOK, tab \in [Tabs -> Tab], HubChannels,
         \A t \in Tabs : TabGood(tab[t]), [Next]_vars
  PROVE  tab' \in [Tabs -> Tab] /\ \A t \in Tabs : TabGood(tab[t])'
<1>1. /\ Written \subseteq Written'
      /\ \A n \in Written : Listed(n)' => Listed(n)
  BY ListGrowsByCommit DEF TabTypeOK
<1>2. CASE UNCHANGED tab
  BY <1>1, <1>2, TabStaysGood
<1>3. ASSUME NEW t \in Tabs, TabStep(t)
      PROVE  tab' \in [Tabs -> Tab] /\ \A s \in Tabs : TabGood(tab[s])'
  <2>1. PICK new : tab' = [tab EXCEPT ![t] = new] /\ TabGood(new)
    BY <1>3, TabStepGood DEF HubChannels
  <2>2. TabGood(new)' /\ \A s \in Tabs : s # t => tab'[s] = tab[s] /\ TabGood(tab[s])'
    BY <1>1, <2>1, TabStaysGood
  <2>3. tab'[t] = new /\ new \in Tab
    BY <2>1 DEF TabGood
  <2> QED  BY <2>1, <2>2, <2>3 DEF TabGood
<1>4. UNCHANGED tab \/ \E t \in Tabs : TabStep(t)
  BY DEF Next, vars, tabVars
<1> QED
  BY <1>2, <1>3, <1>4

-----------------------------------------------------------------------------
(* The invariant of the readers.                                            *)
LEMMA TabsAreGood ==
  ASSUME TabTypeOK, TabsBehind, StreamIsComplete
  PROVE  tab \in [Tabs -> Tab] /\ \A t \in Tabs : TabGood(tab[t])
<1> SUFFICES ASSUME NEW t \in Tabs PROVE TabGood(tab[t])
  BY DEF TabTypeOK
<1>1. tab[t] \in Tab /\ tab[t].position \in 0..MaxMessages /\ MaxMessages \in Nat
  BY HubAssumption DEF TabTypeOK, Tab
<1>2. ASSUME NEW n \in 1..tab[t].position, Listed(n) PROVE n \in tab[t].sent
  <2>1. n \in Numbers /\ n <= tab[t].position
    BY <1>1 DEF Numbers
  <2> QED  BY <1>2, <2>1 DEF StreamIsComplete
<1> QED
  BY <1>1, <1>2 DEF TabsBehind, TabGood

(* The type of the hub, taken apart.                                       *)
LEMMA HubTypes == HubTypeOK <=> InboxTypeOK /\ HubChannels /\ Counters
BY DEF HubTypeOK, HubChannels, Counters

(* Whoever waits or streams stays registered with the hub.                  *)
LEMMA StepRegistered ==
  ASSUME PollTypeOK, TabTypeOK, HubChannels, Registered, [Next]_vars
  PROVE  Registered'
<1>1. ASSUME NEW w \in Waiters, wait'[w].pc # "idle" PROVE w \in subscribed'
  <2>0. w \in Readers
    BY DEF Readers
  <2>1. CASE PollStep(w)
    <3>1. CASE Request(w)
      BY <3>1 DEF Request, Subscribe
    <3>2. CASE NothingYet(w) \/ Hold(w) \/ Poll(w)
      BY <3>2 DEF NothingYet, Hold, Poll, Reading, hubVars, Registered
    <3>3. CASE Wake(w)
      BY <3>3 DEF Wake, Receive, Registered
    <3>4. ASSUME NEW page, Answer(w, page) PROVE FALSE
      BY <1>1, <3>4 DEF Answer, NoRequest, PollTypeOK
    <3>5. CASE AnswerParsed(w) \/ GiveUp(w) \/ TimeOut(w)
      BY <3>4, <3>5 DEF AnswerParsed, GiveUp, TimeOut
    <3>6. CASE HangUp(w)
      BY <1>1, <3>6 DEF HangUp, NoRequest, PollTypeOK
    <3> QED  BY <2>1, <3>1, <3>2, <3>3, <3>5, <3>6 DEF PollStep
  <2>2. CASE Bystander(w)
    BY <1>1, <2>2, NewsStays DEF Bystander, Registered
  <2>3. ~(w \in Tabs)
    BY ReadersAssumption
  <2> QED  BY <2>0, <2>1, <2>2, <2>3, OneMoves
<1>2. ASSUME NEW t \in Tabs, tab'[t].stream # "closed" PROVE t \in subscribed'
  <2>0. t \in Readers /\ ~(t \in Waiters)
    BY ReadersAssumption DEF Readers
  <2>1. CASE TabStep(t)
    <3>1. CASE Connect(t)
      BY <3>1 DEF Connect, Subscribe
    <3>2. CASE CatchUp(t) \/ CatchUpFails(t)
      BY <3>2 DEF CatchUp, CatchUpFails, hubVars, Registered
    <3>3. CASE Relay(t)
      BY <3>3 DEF Relay, Receive, Registered
    <3>4. CASE Break(t)
      BY <1>2, <3>4 DEF Break, TabTypeOK, Tab
    <3>5. CASE Hear(t)
      BY <1>2, <3>5 DEF Hear, hubVars, Registered, TabTypeOK, Tab
    <3>6. ASSUME NEW k \in DOMAIN tab[t].fetches, Serve(t, k) \/ Arrive(t, k) \/ Lose(t, k)
          PROVE  t \in subscribed'
      <4>1. subscribed' = subscribed
        BY <3>6 DEF Serve, Arrive, Lose, hubVars
      <4>2. tab \in [Tabs -> Tab] /\ DOMAIN tab = Tabs
        BY DEF TabTypeOK
      <4>3. ASSUME Serve(t, k) PROVE tab'[t].stream = tab[t].stream
        BY <4>3, ServeChanges DEF TabTypeOK
      <4>4. ASSUME Arrive(t, k) PROVE tab'[t].stream = tab[t].stream
        BY <4>4, ArriveChanges DEF TabTypeOK
      <4>5. ASSUME Lose(t, k) PROVE tab'[t].stream = tab[t].stream
        BY <4>2, <4>5 DEF Lose, Tab
      <4> QED  BY <1>2, <3>6, <4>1, <4>3, <4>4, <4>5 DEF Registered
    <3> QED  BY <2>1, <3>1, <3>2, <3>3, <3>4, <3>5, <3>6 DEF TabStep
  <2>2. CASE Bystander(t)
    BY <1>2, <2>2, NewsStays DEF Bystander, Registered
  <2> QED  BY <2>0, <2>1, <2>2, OneMoves
<1> QED
  BY <1>1, <1>2 DEF Registered

(* A request that waits has read that there was nothing after its cursor,   *)
(* so what there is now was announced to it since.                          *)
LEMMA StepNewsPending ==
  ASSUME PollTypeOK, TabTypeOK, HubChannels, Registered, NewsPending, InboxTypeOK,
         NumbersInOrder, [Next]_vars
  PROVE  NewsPending'
<1> SUFFICES ASSUME NEW w \in Waiters, wait'[w].pc = "waiting",
                    After(cursor[w])' # {}, w \notin missed'
             PROVE  OnItsWay(w)'
  BY DEF NewsPending
<1>0. w \in Readers /\ ~(w \in Tabs)
  BY ReadersAssumption DEF Readers
<1>1. CASE PollStep(w)
  <2>1. UNCHANGED message
    BY <1>1, PollStepIsOwn
  <2>2. \A since : After(since)' = After(since)
    BY <2>1 DEF After, Listed
  <2>3. CASE NothingYet(w)
    <3>1. cursor' = cursor /\ DeliveriesSince(cursor[w]) = {}
      BY <2>3 DEF NothingYet
    <3> QED  BY <2>2, <3>1, PageIsNotEmpty
  <2>4. CASE Wake(w)
    <3>1. wait[w].pc = "waiting" /\ UNCHANGED wait
      BY <2>4 DEF Wake, GoTo, PollTypeOK
    <3>2. Receive(w) /\ Head(buffer[w]) # "message.received" /\ cursor' = cursor
      BY <2>4, <3>1 DEF Wake, Wakes, GoTo, PollTypeOK
    <3>3. LeavesNews(w) /\ w \in subscribed
      BY <3>1, <3>2 DEF LeavesNews, Registered
    <3>4. w \notin missed /\ (OnItsWay(w) => OnItsWay(w)')
      BY <3>3, NewsStays
    <3> QED  BY <2>2, <3>1, <3>2, <3>4 DEF NewsPending
  <2>5. CASE Request(w) \/ Hold(w) \/ Poll(w) \/ HangUp(w)
    BY <2>5 DEF Request, Hold, Poll, HangUp, GoTo, NoRequest, PollTypeOK
  <2>6. ASSUME NEW page, Answer(w, page) PROVE FALSE
    BY <2>6 DEF Answer, NoRequest, PollTypeOK
  <2>7. CASE AnswerParsed(w) \/ GiveUp(w) \/ TimeOut(w)
    BY <2>6, <2>7 DEF AnswerParsed, GiveUp, TimeOut
  <2> QED  BY <1>1, <2>3, <2>4, <2>5, <2>7 DEF PollStep
<1>2. CASE Bystander(w)
  <2>1. wait[w].pc = "waiting" /\ w \in subscribed /\ cursor'[w] = cursor[w]
    BY <1>2 DEF Bystander, Registered
  <2>2. w \notin missed /\ (OnItsWay(w) => OnItsWay(w)')
    BY <1>2, <2>1, NewsStays DEF Bystander
  <2>3. CASE \A n \in Numbers : Listed(n)' => Listed(n)
    <3>1. After(cursor[w]) # {}
      BY <2>1, <2>3 DEF After
    <3> QED  BY <2>1, <2>2, <3>1 DEF NewsPending
  <2>4. CASE Notify("message.received")
    BY <2>1, <2>4, CommitIsNews
  <2> QED  BY <2>3, <2>4, ListGrowsByCommit
<1> QED
  BY <1>0, <1>1, <1>2, OneMoves

(* A live stream has sent every message whose news is not on its way.       *)
LEMMA StepStreamComplete ==
  ASSUME PollTypeOK, TabTypeOK, HubChannels, Registered, StreamIsComplete, InboxTypeOK,
         NumbersInOrder, \A t \in Tabs : TabGood(tab[t]), [Next]_vars
  PROVE  StreamIsComplete'
<1>4. ASSUME NEW t \in Tabs, NEW n \in Numbers, Listed(n)', n <= tab'[t].position
      PROVE  n \in tab'[t].sent
  <2>1. TabGood(tab[t])' /\ MaxMessages \in Nat
    BY StepTabsGood, HubAssumption DEF TabTypeOK
  <2>2. tab'[t].position \in 0..MaxMessages
    BY <2>1 DEF TabGood, Tab
  <2>3. n \in 1..tab'[t].position
    BY <1>4, <2>1, <2>2 DEF Numbers
  <2> QED  BY <1>4, <2>1, <2>3 DEF TabGood
<1> SUFFICES ASSUME NEW t \in Tabs, NEW n \in Numbers, ~tab'[t].behind,
                    tab'[t].stream = "live", t \notin missed', Listed(n)'
             PROVE  n \in tab'[t].sent \/ OnItsWay(t)'
  BY <1>4 DEF StreamIsComplete
<1>0. t \in Readers /\ ~(t \in Waiters)
  BY ReadersAssumption DEF Readers
<1>1. CASE TabStep(t)
  <2>1. UNCHANGED message
    BY <1>1, TabStepIsOwn
  <2>2. Listed(n)
    BY <2>1 DEF Listed
  <2>3. ASSUME NEW type \in {"message.received", "message.parsed"}, Send(t, type)
        PROVE  n \in tab'[t].sent
    <3>1. PICK new : /\ tab' = [tab EXCEPT ![t] = new]
                     /\ ~new.behind => \A m \in Numbers : Listed(m) => m \in new.sent
      BY <2>3, SendGood DEF TabTypeOK
    <3> QED  BY <2>2, <3>1 DEF TabTypeOK
  <2>4. CASE CatchUp(t)
    BY <2>3, <2>4 DEF CatchUp
  <2>5. CASE Relay(t)
    <3>1. CASE Head(buffer[t]) = "lifecycle"
      <4>1. UNCHANGED tab /\ LeavesNews(t) /\ t \in subscribed
        BY <2>5, <3>1 DEF Relay, LeavesNews, Registered
      <4>2. t \notin missed /\ (OnItsWay(t) => OnItsWay(t)')
        BY <4>1, NewsStays
      <4> QED  BY <2>2, <4>1, <4>2 DEF StreamIsComplete
    <3>2. CASE Head(buffer[t]) # "lifecycle"
      <4>1. Head(buffer[t]) \in Types
        BY <1>0, <2>5, SequenceFacts DEF Relay, Receive, HubChannels
      <4>2. Head(buffer[t]) \in {"message.received", "message.parsed"}
        BY <3>2, <4>1 DEF Types
      <4>3. Send(t, Head(buffer[t]))
        BY <2>5, <3>2 DEF Relay
      <4> QED  BY <2>3, <4>2, <4>3
    <3> QED  BY <3>1, <3>2
  <2>6. CASE Connect(t) \/ Break(t) \/ CatchUpFails(t)
    BY <2>6 DEF Connect, Break, CatchUpFails, TabTypeOK, Tab
  <2>7. ASSUME UNCHANGED hubVars, tab'[t].stream = tab[t].stream,
               tab'[t].sent = tab[t].sent, tab'[t].behind = tab[t].behind
        PROVE  n \in tab'[t].sent \/ OnItsWay(t)'
    BY <2>2, <2>7 DEF StreamIsComplete, OnItsWay, hubVars
  <2>8. CASE Hear(t)
    BY <2>7, <2>8 DEF Hear, TabTypeOK, Tab
  <2>9. ASSUME NEW k \in DOMAIN tab[t].fetches, Serve(t, k)
        PROVE  n \in tab'[t].sent \/ OnItsWay(t)'
    <3>1. /\ tab'[t].stream = tab[t].stream /\ tab'[t].sent = tab[t].sent
          /\ tab'[t].behind = tab[t].behind
      BY <2>9, ServeChanges DEF TabTypeOK
    <3>2. UNCHANGED hubVars
      BY <2>9 DEF Serve
    <3> QED
      BY <2>7, <3>1, <3>2
  <2>10. ASSUME NEW k \in DOMAIN tab[t].fetches, Arrive(t, k)
         PROVE  n \in tab'[t].sent \/ OnItsWay(t)'
    <3>1. /\ tab'[t].stream = tab[t].stream /\ tab'[t].sent = tab[t].sent
          /\ tab'[t].behind = tab[t].behind
      BY <2>10, ArriveChanges DEF TabTypeOK
    <3>2. UNCHANGED hubVars
      BY <2>10 DEF Arrive
    <3> QED
      BY <2>7, <3>1, <3>2
  <2>11. ASSUME NEW k \in DOMAIN tab[t].fetches, Lose(t, k) PROVE FALSE
    BY <2>11 DEF Lose
  <2> QED  BY <1>1, <2>4, <2>5, <2>6, <2>8, <2>9, <2>10, <2>11 DEF TabStep
<1>2. CASE Bystander(t)
  <2>1. tab'[t] = tab[t] /\ t \in subscribed
    BY <1>2 DEF Bystander, Registered
  <2>2. t \notin missed /\ (OnItsWay(t) => OnItsWay(t)')
    BY <1>2, <2>1, NewsStays DEF Bystander
  <2>3. CASE \A m \in Numbers : Listed(m)' => Listed(m)
    BY <2>1, <2>2, <2>3 DEF StreamIsComplete
  <2>4. CASE Notify("message.received")
    BY <2>1, <2>4, CommitIsNews
  <2> QED  BY <2>3, <2>4, ListGrowsByCommit
<1> QED
  BY <1>0, <1>1, <1>2, OneMoves

(* At first nobody is registered and nothing is awaited.                   *)
LEMMA InitNewsInv == Init => NewsInv
<1> SUFFICES ASSUME Init PROVE NewsInv
  OBVIOUS
<1> USE DEF Init, HubInit, PollInit, TabInit
<1>0. MaxMessages \in Nat /\ SubscriberBuffer \in Nat /\ MaxReminders \in Nat /\ MaxFaults \in Nat
  BY HubAssumption
<1>1. CursorInv
  BY InitCursorInv
<1>2. HubChannels /\ Counters
  <2>1. << >> \in Seq(Types) /\ Len(<< >>) = 0
    BY EmptySeq
  <2>2. buffer \in [Readers -> Seq(Types)] /\ \A r \in Readers : Len(buffer[r]) = 0
    BY <2>1
  <2>3. wire \in Seq(Types)
    BY <2>1
  <2>4. listening \in BOOLEAN /\ subscribed \subseteq Readers /\ missed \subseteq Readers
    OBVIOUS
  <2>5. Counters
    BY <1>0 DEF Counters
  <2>6. \A r \in Readers : Len(buffer[r]) <= SubscriberBuffer
    BY <1>0, <2>2
  <2> HIDE DEF Init, HubInit, PollInit, TabInit
  <2> QED  BY <2>2, <2>3, <2>4, <2>5, <2>6 DEF HubChannels
<1>3. tab \in [Tabs -> Tab] /\ \A t \in Tabs : TabGood(tab[t])
  <2> DEFINE fetch == Fetch(TRUE, 0)
             blank == [stream |-> "closed", position |-> 0, sse |-> << >>, last |-> 0,
                       list |-> {}, fetches |-> <<fetch>>, sent |-> {}, known |-> {},
                       behind |-> FALSE, cut |-> FALSE, forgot |-> FALSE]
  <2>1. fetch \in Fetches /\ fetch.since = 0 /\ fetch.page = {}
    BY <1>0 DEF Fetch, Fetches
  <2>2. tab = [t \in Tabs |-> blank]
    OBVIOUS
  <2> HIDE DEF fetch
  <2>3. <<fetch>> \in Seq(Fetches) /\ DOMAIN <<fetch>> = {1} /\ <<fetch>>[1] = fetch
    BY <2>1
  <2>4. PICK fetches \in Seq(Fetches) : fetches = <<fetch>>
    BY <2>3
  <2>5. << >> \in Seq(Events)
    BY EmptySeq
  <2>6. PICK sse \in Seq(Events) : sse = << >>
    BY <2>5
  <2>7. [stream |-> "closed", position |-> 0, sse |-> sse, last |-> 0,
         list |-> {}, fetches |-> fetches, sent |-> {}, known |-> {},
         behind |-> FALSE, cut |-> FALSE, forgot |-> FALSE] \in Tab
    BY <1>0 DEF Tab, Events
  <2>8. blank \in Tab
    BY <2>4, <2>6, <2>7
  <2>9. TabGood(blank)
    BY <1>0, <2>1, <2>3, <2>8 DEF TabGood
  <2> HIDE DEF blank
  <2> QED  BY <2>2, <2>8, <2>9
<1>4. Registered
  BY <1>3 DEF Registered, NoRequest
<1>5. NewsPending
  BY DEF NewsPending, NoRequest
<1>6. StreamIsComplete
  BY DEF StreamIsComplete, Listed
<1>7. TabTypeOK /\ TabsBehind
  BY <1>3 DEF TabTypeOK, TabsBehind, TabGood
<1> QED
  BY <1>1, <1>2, <1>4, <1>5, <1>6, <1>7, HubTypes DEF NewsInv, TypeOK, CursorInv

(* Every step keeps the promise that a reader behind the mail has news     *)
(* pending, is about to look or has missed something it may miss.          *)
LEMMA StepNewsInv == CursorInv' /\ NewsInv /\ [Next]_vars => NewsInv'
<1> SUFFICES ASSUME CursorInv', NewsInv, [Next]_vars PROVE NewsInv'
  OBVIOUS
<1>1. /\ InboxTypeOK /\ PollTypeOK /\ TabTypeOK /\ NumbersInOrder
      /\ Registered /\ NewsPending /\ StreamIsComplete
  BY DEF NewsInv, TypeOK, CursorInv
<1>2. HubChannels /\ Counters
  BY HubTypes DEF NewsInv, TypeOK
<1>3. tab \in [Tabs -> Tab] /\ \A t \in Tabs : TabGood(tab[t])
  BY <1>1, TabsAreGood DEF NewsInv
<1>4. HubChannels' /\ Counters'
  BY <1>1, <1>2, StepHubTyped, CountersTyped
<1>5. tab' \in [Tabs -> Tab] /\ \A t \in Tabs : TabGood(tab[t])'
  BY <1>1, <1>2, <1>3, StepTabsGood
<1>6. Registered' /\ NewsPending' /\ StreamIsComplete'
  BY <1>1, <1>2, <1>3, StepRegistered, StepNewsPending, StepStreamComplete
<1>7. TabTypeOK' /\ TabsBehind'
  BY <1>5 DEF TabTypeOK, TabsBehind, TabGood
<1>8. InboxTypeOK' /\ PollTypeOK'
  BY DEF CursorInv
<1>9. HubTypeOK'
  BY <1>4, <1>8, HubTypes, PTL
<1> QED
  BY <1>6, <1>7, <1>8, <1>9 DEF NewsInv, TypeOK

(***************************************************************************)
(* What waiting requests and live streams rest on, for every number of     *)
(* readers, messages and faults, every page size and every buffer.         *)
(***************************************************************************)
THEOREM NewsHolds == Spec => []NewsInv
<1> QED
  BY InitNewsInv, StepNewsInv, CursorInvHolds, PTL DEF Spec

(* The inbox, the hub, the requests and the tabs keep their types, and no   *)
(* subscriber's channel ever holds more than its buffer.                    *)
THEOREM ReadersTyped == Spec => []TypeOK
<1>1. NewsInv => TypeOK
  BY DEF NewsInv
<1> QED
  BY <1>1, NewsHolds, PTL

(* No lost wake-up: a request that waits although there is a message for it *)
(* has a notification on its way, unless the hub lost one.                  *)
THEOREM NoLostWakeup == Spec => []WakeupPending
<1>1. NewsInv => WakeupPending
  <2>1. ASSUME NEW w \in Waiters, DeliveriesSince(cursor[w]) # {}
        PROVE  After(cursor[w]) # {}
    BY <2>1 DEF DeliveriesSince
  <2> QED  BY <2>1 DEF NewsInv, NewsPending, WakeupPending
<1> QED
  BY <1>1, NewsHolds, PTL

(* A stream has sent every message up to its cursor; a live one has sent    *)
(* all there is, or has news on its way, unless news was lost or its newest *)
(* page was too full.                                                       *)
THEOREM StreamComplete == Spec => []StreamIsComplete
<1>1. NewsInv => StreamIsComplete
  BY DEF NewsInv
<1> QED
  BY <1>1, NewsHolds, PTL

-----------------------------------------------------------------------------
(* What tabs know.                                                          *)

(* What is written stays written and no message comes back, so a tab goes   *)
(* on knowing what it knew.                                                 *)
LEMMA KnowledgeStays ==
  ASSUME NEW x, Knows(x), Written \subseteq Written',
         \A n \in Written : Listed(n)' => Listed(n)
  PROVE  Knows(x)' /\ (Learns(x, x.sent) => Learns(x, x.sent)')
<1>1. /\ x.sent \subseteq Written /\ x.known \subseteq Written
      /\ \A k \in DOMAIN x.fetches : x.fetches[k].known \subseteq Written
  BY DEF Knows
<1>2. Knows(x)'
  BY <1>1 DEF Knows
<1>3. Learns(x, x.sent) => Learns(x, x.sent)'
  BY <1>1 DEF Learns
<1> QED
  BY <1>2, <1>3

(* A step that leaves alone what the tab knows and fetches.                 *)
LEMMA SameKnowledge ==
  ASSUME NEW x, NEW y, NEW news, Knows(x), y.sent \subseteq Written, y.known = x.known,
         y.fetches = x.fetches, y.last = x.last, y.list = x.list, y.forgot = x.forgot
  PROVE  /\ Knows(y)
         /\ y.sse = x.sse /\ y.cut = x.cut /\ Learns(x, news) => Learns(y, news)
BY DEF Knows, Learns

(* Sending a page puts an event on its way, unless there was nothing left   *)
(* to send.                                                                 *)
LEMMA SendTells ==
  ASSUME InboxTypeOK, NumbersInOrder, tab \in [Tabs -> Tab], NEW t \in Tabs,
         TabGood(tab[t]), Knows(tab[t]), NEW type \in {"message.received", "message.parsed"},
         Send(t, type)
  PROVE  /\ Knows(tab'[t]) /\ tab'[t].sent \subseteq Numbers
         /\ Learns(tab[t], tab[t].sent) => Learns(tab'[t], Numbers)
<1>0. PICK x \in Tab : x = tab[t]
  OBVIOUS
<1>1. PICK y : y = tab'[t]
  OBVIOUS
<1> DEFINE page == DeliveriesSince(x.position)
           copies == IF page = {} /\ type = "message.parsed" THEN 1 ELSE Cardinality(page)
           news == [k \in 1..copies |-> type]
           full == page # After(x.position)
<1>2. /\ page \subseteq Written /\ page \subseteq Numbers
      /\ Cardinality(page) \in Nat /\ (page # {} => Cardinality(page) > 0)
  <2>1. x.position \in 0..MaxMessages /\ 1..x.position \subseteq Written
    BY <1>0 DEF TabGood, Tab
  <2> QED  BY <2>1, PageFacts
<1>3. /\ y.sent = x.sent \cup page /\ y.sse = x.sse \o news /\ y.cut = x.cut
      /\ y.fetches = x.fetches /\ y.last = x.last /\ y.list = x.list
      /\ y.known = x.known /\ y.forgot = x.forgot
  <2>1. tab'[t] = [x EXCEPT !.stream = "live", !.position = PageCursor(@, page),
                            !.sent = @ \cup page, !.behind = full, !.sse = @ \o news]
    BY <1>0 DEF Send
  <2> HIDE DEF page, news, full
  <2> QED  BY <1>1, <2>1 DEF Tab
<1> HIDE DEF full
<1>4. y.sent \subseteq Written
  BY <1>0, <1>2, <1>3 DEF Knows
<1>5. Knows(x)
  BY <1>0
<1>6. Knows(y) /\ y.sent \subseteq Numbers
  <2>1. Knows(y)
    BY <1>3, <1>4, <1>5, SameKnowledge
  <2> QED  BY <1>4, <2>1 DEF Written
<1>7. CASE page = {}
  <2>1. ASSUME y.sse = << >> PROVE x.sse = << >>
    <3>1. copies \in Nat /\ x.sse \in Seq(Events)
      BY <1>0, <1>2 DEF Tab, Events
    <3> HIDE DEF copies
    <3>2. news \in Seq(Events)
      BY <3>1 DEF Events
    <3> HIDE DEF news
    <3>3. x.sse \o news = << >>
      BY <1>3, <2>1
    <3>4. \A s, u \in Seq(Events) : s \o u = << >> => s = << >>
      BY ConcatEqualIffEmpty
    <3> QED  BY <3>1, <3>2, <3>3, <3>4
  <2>2. ASSUME NEW n \in Numbers, Listed(n) PROVE n \in x.sent
    <3>1. After(x.position) = {}
      BY <1>7, PageIsNotEmpty
    <3>2. x.position \in 0..MaxMessages /\ MaxMessages \in Nat
      BY HubAssumption DEF Tab
    <3>3. n \in 1..x.position
      BY <2>2, <3>1, <3>2 DEF After, Numbers
    <3> QED  BY <1>0, <2>2, <3>3 DEF TabGood
  <2>3. ASSUME Learns(x, x.sent) PROVE Learns(y, Numbers)
    BY <1>3, <2>1, <2>2, <2>3 DEF Learns
  <2> QED  BY <1>0, <1>1, <1>6, <2>3
<1>8. CASE page # {}
  <2>1. copies \in Nat /\ copies # 0 /\ x.sse \in Seq(Events)
    BY <1>0, <1>2, <1>8 DEF Tab, Events
  <2> HIDE DEF copies
  <2>2. news \in Seq(Events) /\ news # << >>
    BY <2>1 DEF Events
  <2> HIDE DEF news
  <2>3. y.sse # << >>
    BY <1>3, <2>1, <2>2, ConcatEqualIffEmpty
  <2> QED  BY <1>1, <1>6, <2>3 DEF Learns
<1> QED
  BY <1>7, <1>8

(* A fetch, and what it means for a tab that knows these numbers.           *)
Answers(fetch, known) ==
  /\ 1..fetch.since \subseteq known /\ fetch.known \subseteq Written
  /\ fetch.replace => fetch.since = 0
  /\ fetch.page \subseteq fetch.known
  /\ fetch.page # {} => 1..PageCursor(fetch.since, fetch.page) \subseteq fetch.known
  /\ \A n \in fetch.known : Listed(n) => n <= fetch.since \/ n \in fetch.page

(* The knowledge of a tab, with its fetches apart.                          *)
LEMMA KnowsApart ==
  ASSUME NEW x
  PROVE  Knows(x) <=>
           /\ x.sent \subseteq Written /\ x.known \subseteq Written
           /\ 1..x.last \subseteq x.known
           /\ ~x.forgot => \A n \in x.known : Listed(n) => n \in x.list
           /\ \A k \in DOMAIN x.fetches : Answers(x.fetches[k], x.known)
BY DEF Knows, Answers

(* An answer has what it accounts for: all there is when the page had room  *)
(* for it, and what is up to the end of the page in any case.               *)
LEMMA AnswerAccounts ==
  ASSUME InboxTypeOK, NumbersInOrder, NEW since \in 0..MaxMessages,
         1..since \subseteq Written
  PROVE  LET page  == DeliveriesSince(since)
             known == AccountedFor(since, page)
         IN  /\ known \subseteq Written /\ page \subseteq known
             /\ 1..PageCursor(since, page) \subseteq known
             /\ \A n \in known : Listed(n) => n <= since \/ n \in page
             /\ page = After(since) => known = Written
<1> DEFINE page == DeliveriesSince(since)
           end  == PageCursor(since, page)
<1>1. /\ page \subseteq Written /\ page \subseteq Numbers
      /\ end \in 0..MaxMessages /\ 1..end \subseteq Written
      /\ \A n \in 1..end : Listed(n) => n <= since \/ n \in page
  BY PageFacts
<1>2. MaxMessages \in Nat /\ Written \subseteq Numbers
  BY HubAssumption DEF Written
<1>3. page \subseteq 1..end
  <2>1. ASSUME NEW n \in page PROVE n \in 1..end
    <3>1. n <= end
      BY <1>1, PageCursorIsLast
    <3> QED  BY <1>1, <1>2, <3>1 DEF Numbers
  <2> QED  BY <2>1
<1>4. CASE page = After(since)
  <2>1. AccountedFor(since, page) = Written
    BY <1>4 DEF AccountedFor
  <2>2. ASSUME NEW n \in Written, Listed(n), ~(n <= since) PROVE n \in page
    <3>1. n > since
      BY <1>2, <2>2 DEF Numbers
    <3> QED  BY <1>2, <1>4, <2>2, <3>1 DEF After
  <2> QED  BY <1>1, <2>1, <2>2
<1>5. CASE page # After(since)
  <2>1. AccountedFor(since, page) = 1..end
    BY <1>5 DEF AccountedFor
  <2> QED  BY <1>1, <1>3, <1>5, <2>1
<1> QED
  BY <1>4, <1>5

(* A step of a tab and its stream adds to what the tab knows, and what its  *)
(* stream sends it comes to know.                                           *)
LEMMA TabStepLearns ==
  ASSUME InboxTypeOK, NumbersInOrder, tab \in [Tabs -> Tab], HubChannels, Registered,
         NEW t \in Tabs, TabGood(tab[t]), Knows(tab[t]),
         t \notin missed /\ tab[t].stream # "closed" => Learns(tab[t], tab[t].sent),
         t \notin missed /\ tab[t].stream = "live"
           => Learns(tab[t], Numbers) \/ OnItsWay(t),
         TabStep(t)
  PROVE  LET y == tab'[t]
         IN  /\ Knows(y)
             /\ t \notin missed' /\ y.stream # "closed" => Learns(y, y.sent)
             /\ t \notin missed' /\ y.stream = "live" => Learns(y, Numbers) \/ OnItsWay(t)'
<1>0. PICK x \in Tab : x = tab[t]
  OBVIOUS
<1>1. PICK y : y = tab'[t]
  OBVIOUS
<1>2. /\ MaxMessages \in Nat /\ x.last \in 0..MaxMessages /\ x.sse \in Seq(Events)
      /\ x.fetches \in Seq(Fetches) /\ x.list \subseteq Numbers /\ x.sent \subseteq Numbers
      /\ x.sent \subseteq Written /\ x.known \subseteq Written
      /\ 1..x.last \subseteq x.known /\ TabGood(x) /\ Knows(x)
      /\ Written \subseteq Numbers
  BY <1>0, HubAssumption DEF Tab, Events, TabGood, Knows, Written
<1>13. ASSUME Knows(y), Learns(y, Numbers) PROVE Learns(y, y.sent)
  BY <1>2, <1>13 DEF Knows, Learns
<1>3. CASE Connect(t)
  <2>1. PICK sse : sse = <<"open">>
    OBVIOUS
  <2>2. y = [x EXCEPT !.stream = "catchup", !.position = x.last, !.sent = 1..x.last, !.sse = sse]
    BY <1>0, <1>1, <1>3, <2>1 DEF Connect
  <2>3. /\ y.sent = 1..x.last /\ y.sse = sse /\ y.known = x.known /\ y.forgot = x.forgot
        /\ y.fetches = x.fetches /\ y.last = x.last /\ y.list = x.list
    BY <2>2 DEF Tab
  <2>4. sse # << >> /\ y.sent \subseteq Written
    BY <1>2, <2>1, <2>3
  <2> QED  BY <1>1, <1>2, <2>3, <2>4, SameKnowledge DEF Learns
<1>4. CASE CatchUp(t)
  <2>1. Send(t, "message.received") /\ tab[t].stream # "closed" /\ missed' = missed
    BY <1>4 DEF CatchUp, hubVars
  <2> QED  BY <1>0, <1>1, <1>13, <2>1, SendTells
<1>5. CASE CatchUpFails(t)
  <2>1. y = [x EXCEPT !.stream = "live"] /\ t \in missed'
    BY <1>0, <1>1, <1>5 DEF CatchUpFails
  <2>2. /\ y.sent = x.sent /\ y.known = x.known /\ y.forgot = x.forgot
        /\ y.fetches = x.fetches /\ y.last = x.last /\ y.list = x.list
    BY <2>1 DEF Tab
  <2> QED  BY <1>1, <1>2, <2>1, <2>2, SameKnowledge
<1>6. CASE Relay(t)
  <2>1. tab[t].stream # "closed" /\ missed' = missed
    BY <1>6 DEF Relay, Receive
  <2>2. CASE Head(buffer[t]) = "lifecycle"
    <3>1. UNCHANGED tab /\ LeavesNews(t) /\ t \in subscribed
      BY <1>6, <2>1, <2>2 DEF Relay, LeavesNews, Registered
    <3>2. OnItsWay(t) => OnItsWay(t)' \/ t \in missed'
      BY <3>1, NewsStays
    <3> QED  BY <2>1, <3>1, <3>2
  <2>3. CASE Head(buffer[t]) # "lifecycle"
    <3>1. Head(buffer[t]) \in Types
      BY <1>6, SequenceFacts DEF Relay, Receive, Readers, HubChannels
    <3>2. Head(buffer[t]) \in {"message.received", "message.parsed"}
      BY <2>3, <3>1 DEF Types
    <3>3. Send(t, Head(buffer[t]))
      BY <1>6, <2>3 DEF Relay
    <3> QED  BY <1>0, <1>1, <1>13, <2>1, <3>2, <3>3, SendTells
  <2> QED  BY <2>2, <2>3
<1>7. CASE Break(t)
  <2>1. PICK sse : sse = << >>
    OBVIOUS
  <2>2. y = [x EXCEPT !.stream = "closed", !.sse = sse]
    BY <1>0, <1>1, <1>7, <2>1 DEF Break
  <2>3. /\ y.stream = "closed" /\ y.sent = x.sent /\ y.known = x.known /\ y.forgot = x.forgot
        /\ y.fetches = x.fetches /\ y.last = x.last /\ y.list = x.list
    BY <2>2 DEF Tab
  <2> QED  BY <1>1, <1>2, <2>3, SameKnowledge
<1>8. CASE Hear(t)
  <2> DEFINE fetch == IF Head(x.sse) = "message.parsed"
                      THEN Fetch(TRUE, 0) ELSE Fetch(FALSE, x.last)
  <2>1. /\ fetch.since \in {0, x.last} /\ (fetch.replace => fetch.since = 0)
        /\ fetch.page = {} /\ fetch.known = {} /\ ~fetch.served /\ fetch \in Fetches
    BY <1>2 DEF Fetch, Fetches
  <2>2. tab'[t] = [x EXCEPT !.sse = Tail(@), !.fetches = Append(@, fetch)]
    BY <1>0, <1>8 DEF Hear
  <2> HIDE DEF fetch
  <2>3. PICK fetches : fetches = Append(x.fetches, fetch)
    OBVIOUS
  <2>4. /\ \A k \in DOMAIN fetches :
             fetches[k] = fetch \/ (k \in DOMAIN x.fetches /\ fetches[k] = x.fetches[k])
        /\ \E k \in DOMAIN fetches : fetches[k] = fetch
    <3>1. /\ Len(x.fetches) \in Nat /\ DOMAIN x.fetches = 1..Len(x.fetches)
          /\ DOMAIN fetches = 1..(Len(x.fetches) + 1)
          /\ fetches[Len(x.fetches) + 1] = fetch
          /\ \A k \in DOMAIN x.fetches : fetches[k] = x.fetches[k]
      BY <1>2, <2>1, <2>3, SequenceFacts
    <3>2. \A k \in 1..(Len(x.fetches) + 1) : k = Len(x.fetches) + 1 \/ k \in 1..Len(x.fetches)
      BY <3>1
    <3>3. Len(x.fetches) + 1 \in 1..(Len(x.fetches) + 1)
      BY <3>1
    <3> QED  BY <3>1, <3>2, <3>3
  <2>5. PICK sse : sse = Tail(x.sse)
    OBVIOUS
  <2>6. y = [x EXCEPT !.sse = sse, !.fetches = fetches]
    BY <1>1, <2>2, <2>3, <2>5
  <2>7. /\ y.sent = x.sent /\ y.fetches = fetches /\ y.last = x.last /\ y.list = x.list
        /\ y.known = x.known /\ y.forgot = x.forgot
    BY <2>6 DEF Tab
  <2>8. Answers(fetch, x.known)
    BY <1>2, <2>1 DEF Answers
  <2>9. Knows(y)
    BY <1>2, <2>4, <2>7, <2>8, KnowsApart
  <2>10. Learns(y, Numbers)
    BY <2>1, <2>4, <2>7 DEF Learns
  <2> QED  BY <1>1, <1>13, <2>9, <2>10
<1>9. ASSUME NEW k \in DOMAIN x.fetches, Serve(t, k)
      PROVE  Knows(y) /\ Learns(y, Numbers)
  <2> DEFINE since == x.fetches[k].since
             page == DeliveriesSince(since)
             known == AccountedFor(since, page)
             full == page # After(since)
             served == [x.fetches[k] EXCEPT !.served = TRUE, !.page = page, !.known = known]
  <2>1. /\ x.fetches[k] \in Fetches /\ since \in 0..MaxMessages /\ 1..since \subseteq Written
        /\ Answers(x.fetches[k], x.known)
    <3>1. x.fetches[k] \in Fetches /\ Answers(x.fetches[k], x.known)
      BY <1>2, KnowsApart
    <3> QED  BY <1>2, <3>1 DEF Fetches, TabGood
  <2>2. /\ known \subseteq Written /\ page \subseteq known
        /\ 1..PageCursor(since, page) \subseteq known
        /\ \A n \in known : Listed(n) => n <= since \/ n \in page
        /\ ~full => known = Written
    BY <2>1, AnswerAccounts
  <2>3. tab'[t] = [x EXCEPT !.fetches = [@ EXCEPT ![k] = served], !.cut = full]
    BY <1>0, <1>9, ServeChanges
  <2> HIDE DEF page, known, full
  <2>4. /\ served.page = page /\ served.known = known
        /\ served.since = since /\ served.replace = x.fetches[k].replace
    BY <2>1 DEF Fetches
  <2>5. Answers(served, x.known)
    BY <2>1, <2>2, <2>4 DEF Answers
  <2> HIDE DEF served, since
  <2>6. PICK fetches : fetches = [x.fetches EXCEPT ![k] = served]
    OBVIOUS
  <2>7. /\ DOMAIN fetches = DOMAIN x.fetches /\ fetches[k] = served
        /\ \A j \in DOMAIN fetches : fetches[j] = served \/ fetches[j] = x.fetches[j]
    BY <2>6
  <2>8. y = [x EXCEPT !.fetches = fetches, !.cut = full]
    BY <1>1, <2>3, <2>6
  <2>9. /\ y.sent = x.sent /\ y.fetches = fetches /\ y.last = x.last /\ y.list = x.list
        /\ y.known = x.known /\ y.forgot = x.forgot /\ y.cut = full
    BY <2>8 DEF Tab
  <2>10. Knows(y)
    BY <1>2, <2>5, <2>7, <2>9, KnowsApart
  <2>11. Learns(y, Numbers)
    <3> SUFFICES ASSUME ~y.cut, NEW n \in Numbers, Listed(n)
                 PROVE  \E j \in DOMAIN y.fetches : n \in y.fetches[j].known
      BY DEF Learns
    <3>1. n \in served.known
      BY <2>2, <2>4, <2>9 DEF Written, Listed
    <3> QED  BY <2>7, <2>9, <3>1
  <2> QED  BY <2>10, <2>11
<1>10. ASSUME NEW k \in DOMAIN x.fetches, Arrive(t, k)
       PROVE  /\ Knows(y) /\ y.sent = x.sent
              /\ \A news : Learns(x, news) => Learns(y, news)
  <2> DEFINE old == x.fetches[k]
             page == old.page
             last == IF old.replace \/ page # {} THEN PageCursor(old.since, page) ELSE x.last
             list == IF old.replace THEN page ELSE x.list \cup page
             known == x.known \cup old.known
             forgot == IF old.replace THEN ~(x.known \subseteq old.known) ELSE x.forgot
             rest == RemoveAt(x.fetches, k)
  <2>1. old \in Fetches /\ old.served /\ Answers(old, x.known)
    <3>1. old \in Fetches
      BY <1>2
    <3>2. old.served
      BY <1>0, <1>10 DEF Arrive
    <3>3. Answers(old, x.known)
      BY <1>2, KnowsApart
    <3> QED  BY <3>1, <3>2, <3>3
  <2>2. /\ y.sent = x.sent /\ y.sse = x.sse /\ y.cut = x.cut /\ y.fetches = rest
        /\ y.last = last /\ y.list = list /\ y.known = known /\ y.forgot = forgot
    BY <1>0, <1>1, <1>10, ArriveChanges
  <2>3. /\ \A j \in DOMAIN rest : \E i \in DOMAIN x.fetches : rest[j] = x.fetches[i]
        /\ \A i \in DOMAIN x.fetches \ {k} : \E j \in DOMAIN rest : rest[j] = x.fetches[i]
    <3>1. PICK s \in Seq(Fetches) : s = x.fetches
      BY <1>2
    <3>2. k \in DOMAIN s /\ rest = RemoveAt(s, k)
      BY <3>1
    <3> HIDE DEF rest
    <3>3. \A j \in DOMAIN RemoveAt(s, k) : \E i \in DOMAIN s : RemoveAt(s, k)[j] = s[i]
      BY <3>2, RemovedAt
    <3>4. \A i \in DOMAIN s \ {k} :
             \E j \in DOMAIN RemoveAt(s, k) : RemoveAt(s, k)[j] = s[i]
      BY <3>2, RemovedAt
    <3> QED  BY <3>1, <3>2, <3>3, <3>4
  <2> HIDE DEF rest
  <2>4. known \subseteq Written /\ x.known \subseteq known /\ old.known \subseteq known
    BY <1>2, <2>1 DEF Answers
  <2>5. 1..last \subseteq known
    <3>1. CASE page # {}
      BY <2>1, <3>1 DEF Answers
    <3>2. CASE page = {}
      BY <1>2, <2>1, <3>2 DEF Answers, PageCursor
    <3> QED  BY <3>1, <3>2
  <2>6. ASSUME ~forgot, NEW n \in known, Listed(n) PROVE n \in list
    <3>1. n \in Nat /\ n >= 1 /\ old.since \in Nat
      <4>1. n \in Numbers /\ old.since \in 0..MaxMessages
        BY <2>1, <2>4, <2>6 DEF Written, Fetches
      <4> QED  BY <1>2, <4>1 DEF Numbers
    <3>2. CASE old.replace
      <4>1. n \in old.known /\ old.since = 0
        BY <2>1, <2>6, <3>2 DEF Answers
      <4>2. n \in page
        BY <2>1, <2>6, <3>1, <4>1 DEF Answers
      <4> QED  BY <3>2, <4>2
    <3>3. CASE ~old.replace
      <4>1. CASE n \in x.known
        BY <1>2, <2>6, <3>3, <4>1 DEF Knows
      <4>2. CASE n \in old.known /\ n \notin x.known
        <5>1. ~(n <= old.since)
          BY <2>1, <3>1, <4>2 DEF Answers
        <5> QED  BY <2>1, <2>6, <3>3, <4>2, <5>1 DEF Answers
      <4> QED  BY <2>6, <4>1, <4>2
    <3> QED  BY <3>2, <3>3
  <2>7. \A i \in DOMAIN x.fetches : Answers(x.fetches[i], known)
    BY <1>2, <2>4, KnowsApart DEF Answers
  <2> HIDE DEF last, list, known, forgot
  <2>10. Knows(y)
    <3>1. \A j \in DOMAIN y.fetches : Answers(y.fetches[j], y.known)
      BY <2>2, <2>3, <2>7
    <3> QED  BY <1>2, <2>2, <2>4, <2>5, <2>6, <3>1, KnowsApart
  <2>11. ASSUME NEW news, Learns(x, news) PROVE Learns(y, news)
    <3> SUFFICES ASSUME x.sse = << >>, ~x.cut, NEW n \in news, Listed(n), n \notin known
                 PROVE  \E j \in DOMAIN rest : ~rest[j].served \/ n \in rest[j].known
      BY <2>2 DEF Learns
    <3>1. PICK i \in DOMAIN x.fetches : ~x.fetches[i].served \/ n \in x.fetches[i].known
      BY <2>4, <2>11 DEF Learns
    <3>2. i # k
      BY <2>1, <2>4, <3>1
    <3> QED  BY <2>3, <3>1, <3>2
  <2> QED  BY <2>2, <2>10, <2>11
<1>11. ASSUME NEW k \in DOMAIN x.fetches, Lose(t, k)
       PROVE  Knows(y) /\ t \in missed'
  <2>1. tab'[t] = [x EXCEPT !.fetches = RemoveAt(@, k)] /\ t \in missed'
    BY <1>0, <1>11 DEF Lose
  <2>2. PICK rest : rest = RemoveAt(x.fetches, k)
    OBVIOUS
  <2>3. \A j \in DOMAIN rest : \E i \in DOMAIN x.fetches : rest[j] = x.fetches[i]
    BY <1>2, <2>2, RemovedAt
  <2>4. y = [x EXCEPT !.fetches = rest]
    BY <1>1, <2>1, <2>2
  <2>5. /\ y.sent = x.sent /\ y.fetches = rest /\ y.last = x.last /\ y.list = x.list
        /\ y.known = x.known /\ y.forgot = x.forgot
    BY <2>4 DEF Tab
  <2> QED  BY <1>2, <2>1, <2>3, <2>5, KnowsApart
<1>12. ASSUME NEW k \in DOMAIN x.fetches, Arrive(t, k)
       PROVE  y.stream = x.stream /\ missed' = missed /\ (OnItsWay(t)' <=> OnItsWay(t))
  <2>1. y.stream = x.stream /\ missed' = missed
    BY <1>0, <1>1, <1>12, ArriveChanges
  <2>2. UNCHANGED hubVars
    BY <1>12 DEF Arrive
  <2> QED  BY <2>1, <2>2 DEF OnItsWay, hubVars
<1>14. ASSUME NEW k \in DOMAIN x.fetches, Arrive(t, k)
       PROVE  /\ t \notin missed' /\ y.stream # "closed" => Learns(y, y.sent)
              /\ t \notin missed' /\ y.stream = "live" => Learns(y, Numbers) \/ OnItsWay(t)'
  BY <1>0, <1>10, <1>12, <1>14
<1> QED
  BY <1>0, <1>1, <1>13, <1>14, <1>3, <1>4, <1>5, <1>6, <1>7, <1>8, <1>9, <1>10, <1>11, <1>12 DEF TabStep

(* At first no tab knows anything, and no stream has sent it anything.      *)
LEMMA InitKnowledge == Init => KnowledgeInv
<1> SUFFICES ASSUME Init, NEW t \in Tabs
             PROVE  /\ Knows(tab[t]) /\ tab[t].stream = "closed"
  BY DEF KnowledgeInv
<1>1. PICK x : x = tab[t]
  OBVIOUS
<1>2. /\ x.stream = "closed" /\ x.sent = {} /\ x.known = {} /\ x.last = 0
      /\ x.fetches = <<Fetch(TRUE, 0)>>
  BY <1>1 DEF Init, TabInit
<1>3. DOMAIN x.fetches = {1} /\ x.fetches[1] = Fetch(TRUE, 0)
  BY <1>2
<1>4. Knows(x)
  BY <1>2, <1>3 DEF Knows, Fetch
<1> QED
  BY <1>1, <1>2, <1>4

(* Every step leaves every tab with what it knew, and about to know what    *)
(* its stream has sent it.                                                  *)
LEMMA StepKnowledge == NewsInv /\ KnowledgeInv /\ [Next]_vars => KnowledgeInv'
<1> SUFFICES ASSUME NewsInv, KnowledgeInv, [Next]_vars, NEW t \in Tabs
             PROVE  /\ Knows(tab[t])'
                    /\ t \notin missed' /\ tab'[t].stream # "closed"
                         => Learns(tab[t], tab[t].sent)'
                    /\ t \notin missed' /\ tab'[t].stream = "live"
                         => Learns(tab[t], Numbers)' \/ OnItsWay(t)'
  BY DEF KnowledgeInv
<1>1. /\ InboxTypeOK /\ PollTypeOK /\ TabTypeOK /\ NumbersInOrder
      /\ Registered /\ HubChannels
  BY HubTypes DEF NewsInv, TypeOK, CursorInv
<1>2. tab \in [Tabs -> Tab] /\ TabGood(tab[t])
  BY <1>1, TabsAreGood DEF NewsInv
<1>3. /\ Knows(tab[t])
      /\ t \notin missed /\ tab[t].stream # "closed" => Learns(tab[t], tab[t].sent)
      /\ t \notin missed /\ tab[t].stream = "live"
           => Learns(tab[t], Numbers) \/ OnItsWay(t)
  BY DEF KnowledgeInv
<1>4. /\ Written \subseteq Written'
      /\ \A n \in Written : Listed(n)' => Listed(n)
      /\ \/ \A n \in Numbers : Listed(n)' => Listed(n)
         \/ Notify("message.received") /\ UNCHANGED <<pollVars, tabVars>>
  BY <1>1, ListGrowsByCommit
<1>5. PICK y : y = tab'[t]
  OBVIOUS
<1>6. /\ Knows(y)
      /\ t \notin missed' /\ y.stream # "closed" => Learns(y, y.sent)
      /\ t \notin missed' /\ y.stream = "live" => Learns(y, Numbers) \/ OnItsWay(t)'
  <2>1. CASE TabStep(t)
    BY <1>1, <1>2, <1>3, <1>5, <2>1, TabStepLearns
  <2>2. CASE Bystander(t)
    <3>1. y = tab[t] /\ (y.stream # "closed" => t \in subscribed)
      BY <1>1, <1>5, <2>2 DEF Bystander, Registered
    <3>2. ASSUME y.stream # "closed", t \notin missed'
          PROVE  t \notin missed /\ (OnItsWay(t) => OnItsWay(t)')
      BY <1>1, <2>2, <3>1, <3>2, NewsStays DEF Bystander
    <3> QED  BY <1>3, <3>1, <3>2
  <2>3. t \in Readers /\ ~(t \in Waiters)
    BY ReadersAssumption DEF Readers
  <2> QED  BY <1>1, <2>1, <2>2, <2>3, OneMoves
<1>7. Knows(y)' /\ (Learns(y, y.sent) => Learns(y, y.sent)')
  BY <1>4, <1>6, KnowledgeStays
<1>8. ASSUME \A n \in Numbers : Listed(n)' => Listed(n)
      PROVE  t \notin missed' /\ y.stream = "live" => Learns(y, Numbers)' \/ OnItsWay(t)'
  <2>1. Learns(y, Numbers) => Learns(y, Numbers)'
    BY <1>8 DEF Learns, Numbers
  <2> QED  BY <1>6, <2>1
<1>9. ASSUME Notify("message.received"), UNCHANGED <<pollVars, tabVars>>
      PROVE  t \notin missed' /\ y.stream = "live" => Learns(y, Numbers)' \/ OnItsWay(t)'
  <2>1. ASSUME y.stream = "live" PROVE OnItsWay(t)' \/ t \in missed'
    <3>1. t \in subscribed
      BY <1>1, <1>5, <1>9, <2>1 DEF Registered, tabVars
    <3> QED  BY <1>1, <1>9, <3>1, CommitIsNews
  <2> QED  BY <1>6, <2>1
<1>10. /\ Knows(y)'
       /\ t \notin missed' /\ y.stream # "closed" => Learns(y, y.sent)'
       /\ t \notin missed' /\ y.stream = "live" => Learns(y, Numbers)' \/ OnItsWay(t)'
  BY <1>4, <1>6, <1>7, <1>8, <1>9
<1> QED
  BY <1>5, <1>10 DEF Knows, Learns

(***************************************************************************)
(* A tab that has heard everything and waits for no answer lists every     *)
(* message of the inbox, however many fetches it had under way and in      *)
(* whatever order their answers came; unless news was lost, the newest     *)
(* page it was served had no room for all, or the newest whole list it     *)
(* took was older than what it knew.  Without any one of the exceptions    *)
(* the promise does not hold.                                              *)
(***************************************************************************)
THEOREM QuietTab == Spec => []QuietTabShowsAll
<1>1. NewsInv /\ KnowledgeInv => QuietTabShowsAll
  <2> SUFFICES ASSUME NewsInv, KnowledgeInv, NEW t \in Tabs, Quiet(t), t \notin missed,
                      ~tab[t].cut, ~tab[t].forgot, NEW n \in Numbers, Listed(n)
               PROVE  n \in tab[t].list
    BY DEF QuietTabShowsAll
  <2>1. buffer[t] = << >> /\ wire = << >> /\ tab[t].stream = "live"
    BY DEF Quiet
  <2>2. ~OnItsWay(t)
    BY <2>1 DEF OnItsWay
  <2>4. Learns(tab[t], Numbers) /\ Knows(tab[t])
    BY <2>1, <2>2 DEF KnowledgeInv
  <2>5. tab[t].sse = << >> /\ DOMAIN tab[t].fetches = {}
    BY DEF Quiet
  <2>6. n \in tab[t].known
    BY <2>4, <2>5 DEF Learns
  <2> QED  BY <2>4, <2>6 DEF Knows
<1> QED
  BY <1>1, InitKnowledge, StepKnowledge, NewsHolds, PTL DEF Spec

-----------------------------------------------------------------------------
(* The mailbox.                                                             *)

MailboxStep == [Abstract!Next]_(Abstract!boxVars)

(* The numbers that were written run from one without a gap, so that the    *)
(* number after n of them is the one that a transaction holds.              *)
LEMMA WrittenBelow ==
  ASSUME CursorInv, NEW n \in reserved
  PROVE  /\ n \in Numbers /\ n \notin Written
         /\ IsFiniteSet(Written) /\ Cardinality(Written) = n - 1
<1>1. n \in Numbers /\ n \notin Written /\ MaxMessages \in Nat
  BY HubAssumption DEF CursorInv, InboxTypeOK, NumbersInOrder
<1>2. n \in Nat /\ n >= 1
  BY <1>1 DEF Numbers
<1>3. ASSUME NEW k \in Written  PROVE k \in 1..(n - 1)
  <2>1. k \in Nat /\ k >= 1
    BY <1>1 DEF Written, Numbers
  <2>2. ~(k >= n)
    BY <1>1, <1>2, <2>1 DEF CursorInv, NumbersInOrder
  <2> QED  BY <1>2, <2>1, <2>2
<1>4. \A k \in 1..(n - 1) : k \in Written
  BY DEF CursorInv, NumbersInOrder
<1>5. Written = 1..(n - 1)
  BY <1>3, <1>4
<1>6. IsFiniteSet(1..(n - 1)) /\ Cardinality(1..(n - 1)) = n - 1
  BY <1>2, FS_Interval
<1> QED
  BY <1>1, <1>5, <1>6

(* A step after which the same messages are written and listed is none of   *)
(* the mailbox's.                                                           *)
LEMMA MailboxUnmoved ==
  ASSUME Written' = Written, \A n \in Numbers : Listed(n)' <=> Listed(n)
  PROVE  MailboxStep
<1>1. boxBar' = boxBar /\ nextBar' = nextBar
  BY DEF boxBar, nextBar
<1>2. {n \in Numbers : Listed(n)}' = {n \in Numbers : Listed(n)}
  OBVIOUS
<1>3. mailBar' = mailBar
  BY <1>2 DEF mailBar
<1> QED
  BY <1>1, <1>3 DEF MailboxStep, Abstract!boxVars

(* What commits is delivered under the next number, and opens the address   *)
(* if it is the first.                                                      *)
LEMMA CommitDelivers ==
  ASSUME CursorInv, NEW n \in Numbers, Commit(n)
  PROVE  MailboxStep
<1>1. n \in reserved /\ message' = [message EXCEPT ![n] = "received"]
  BY DEF Commit
<1>2. /\ n \notin Written /\ IsFiniteSet(Written) /\ n \in Nat
      /\ Cardinality(Written) = n - 1
  BY <1>1, WrittenBelow, HubAssumption DEF Numbers
<1>3. message \in [Numbers -> {"none", "received", "parsed", "failed", "gone"}]
  BY DEF CursorInv, InboxTypeOK
<1>4. Written' = Written \cup {n}
  BY <1>1, <1>3 DEF Written
<1>5. Cardinality(Written \cup {n}) = Cardinality(Written) + 1
  BY <1>2, FS_AddElement
<1>6. Cardinality(Written') = n
  BY <1>2, <1>4, <1>5
<1>7. {k \in Numbers : Listed(k)}' = {k \in Numbers : Listed(k)} \cup {n}
  BY <1>1, <1>3 DEF Listed
<1>8. \A a \in {"inbox"} : boxBar[a] = "open" \/ (boxBar[a] = "absent" /\ a \in {"inbox"})
  BY DEF boxBar
<1>9. boxBar' = [a \in {"inbox"} |-> IF a \in {"inbox"} THEN "open" ELSE boxBar[a]]
  BY <1>4 DEF boxBar
<1>10. nextBar' = [a \in {"inbox"} |-> IF a \in {"inbox"} THEN nextBar[a] + 1 ELSE nextBar[a]]
  BY <1>2, <1>6 DEF nextBar
<1>11. mailBar' = [a \in {"inbox"} |->
                     IF a \in {"inbox"} THEN mailBar[a] \cup {nextBar[a] + 1}
                     ELSE mailBar[a]]
  BY <1>2, <1>7 DEF mailBar, nextBar
<1>12. Abstract!Addresses = {"inbox"}
  BY DEF Abstract!Addresses
<1>13. Abstract!Deliver({"inbox"})
  BY <1>8, <1>9, <1>10, <1>11, <1>12 DEF Abstract!Deliver
<1> QED
  BY <1>12, <1>13 DEF MailboxStep, Abstract!Next

(* What a sweep takes from the inbox is let go of, and its number stays     *)
(* spent.                                                                   *)
LEMMA LettingGo ==
  ASSUME CursorInv, NEW n \in Numbers, LetGo(n)
  PROVE  MailboxStep
<1>1. Listed(n) /\ message' = [message EXCEPT ![n] = "gone"]
  BY DEF LetGo
<1>2. message \in [Numbers -> {"none", "received", "parsed", "failed", "gone"}]
  BY DEF CursorInv, InboxTypeOK
<1>3. Written' = Written
  BY <1>1, <1>2 DEF Written, Listed
<1>4. {k \in Numbers : Listed(k)}' = {k \in Numbers : Listed(k)} \ {n}
  BY <1>1, <1>2 DEF Listed
<1>5. boxBar' = boxBar /\ nextBar' = nextBar
  BY <1>3 DEF boxBar, nextBar
<1>6. mailBar' = [mailBar EXCEPT !["inbox"] = @ \ {n}]
  BY <1>4 DEF mailBar
<1>7. {n} \in SUBSET mailBar["inbox"]
  BY <1>1 DEF mailBar
<1>8. Abstract!LetGo("inbox", {n})
  BY <1>5, <1>6 DEF Abstract!LetGo
<1> QED
  BY <1>7, <1>8 DEF MailboxStep, Abstract!Next, Abstract!Addresses

(* Every step of the readers, and every other step of the inbox, leaves the *)
(* mailbox as it is.                                                        *)
LEMMA ReadingRefines ==
  ASSUME CursorInv, [Next]_vars
  PROVE  MailboxStep
<1>1. ASSUME UNCHANGED message  PROVE MailboxStep
  BY <1>1, MailboxUnmoved DEF Written, Listed
<1>2. CASE UNCHANGED vars
  BY <1>1, <1>2 DEF vars, inboxVars
<1>3. CASE InboxStep
  <2>1. ASSUME NEW n \in Numbers, Parsed(n) \/ Unparsable(n)  PROVE MailboxStep
    <3>1. message \in [Numbers -> {"none", "received", "parsed", "failed", "gone"}]
      BY DEF CursorInv, InboxTypeOK
    <3>2. Written' = Written /\ \A k \in Numbers : Listed(k)' <=> Listed(k)
      BY <2>1, <3>1 DEF Parsed, Unparsable, Written, Listed
    <3> QED  BY <3>2, MailboxUnmoved
  <2>2. ASSUME NEW n \in Numbers, Reserve(n) \/ Rollback(n)  PROVE MailboxStep
    BY <1>1, <2>2 DEF Reserve, Rollback
  <2>3. CASE Remind
    BY <1>1, <2>3 DEF Remind
  <2> QED
    BY <1>3, <2>1, <2>2, <2>3, CommitDelivers, LettingGo DEF InboxStep
<1>4. CASE HubStep
  BY <1>1, <1>4 DEF HubStep, Listen, Drop, Dispatch, inboxVars
<1>5. ASSUME NEW w \in Waiters, PollStep(w)  PROVE MailboxStep
  <2>1. UNCHANGED message
    BY <1>5 DEF PollStep, Request, NothingYet, Hold, AnswerParsed, Wake, Poll, GiveUp,
                TimeOut, HangUp, Answer, inboxVars
  <2> QED  BY <1>1, <2>1
<1>6. ASSUME NEW t \in Tabs, TabStep(t)  PROVE MailboxStep
  <2>1. UNCHANGED message
    BY <1>6 DEF TabStep, Connect, CatchUp, CatchUpFails, Relay, Break, Hear, Serve,
                Arrive, Lose, inboxVars
  <2> QED  BY <1>1, <2>1
<1> QED
  BY <1>2, <1>3, <1>4, <1>5, <1>6 DEF Next

(***************************************************************************)
(* The inbox that the readers list is the mailbox that the pipeline fills, *)
(* for every number of messages, readers and faults: a message is there    *)
(* under the number after the last one from the moment it commits until    *)
(* its inbox lets go of it, parsed or not, and a number is never used      *)
(* twice.  It holds because transactions on one inbox queue for its row.   *)
(***************************************************************************)
THEOREM InboxIsAMailbox == Spec => ImplementsMailbox
<1>1. Init => Abstract!Init
  <2> SUFFICES ASSUME Init PROVE Abstract!Init
    OBVIOUS
  <2>1. Written = {} /\ {n \in Numbers : Listed(n)} = {}
    BY DEF Init, HubInit, Written, Listed
  <2>2. Cardinality({}) = 0
    BY FS_EmptySet
  <2>3. Abstract!Addresses = {"inbox"}
    BY DEF Abstract!Addresses
  <2> QED
    BY <2>1, <2>2, <2>3 DEF Abstract!Init, boxBar, nextBar, mailBar
<1>2. CursorInv /\ [Next]_vars => [Abstract!Next]_(Abstract!boxVars)
  BY ReadingRefines DEF MailboxStep
<1> QED
  BY <1>1, <1>2, CursorInvHolds, PTL DEF Spec, ImplementsMailbox, Abstract!Spec
=============================================================================
