---------------------------- MODULE SealedStream ----------------------------
(***************************************************************************)
(* One message on its way into the blob store and out of it again: sealed  *)
(* in frames by one goroutine, written by another, and opened frame by     *)
(* frame by whoever reads it.                                              *)
(*                                                                         *)
(* Source: internal/smtpd/receiver.go (storeBody and the start of Commit), *)
(* internal/crypto/stream.go, internal/store/blob/fs.go (Put).             *)
(*                                                                         *)
(* A plaintext is a sequence; what its elements are does not matter here.  *)
(* The cipher is external: a frame opens under the nonce and the trailer   *)
(* it was sealed with, and not at all once a bit of it has changed.        *)
(***************************************************************************)
EXTENDS Integers, Sequences, SequencesExt

CONSTANTS
  Plaintexts,   \* messages a session may have spooled
  ChunkSize,    \* streamChunkSize
  MaxFaults,    \* bound: failed reads and writes
  MaxDamage     \* bound: changes to the stored bytes

ASSUME StreamAssumption ==
  /\ ChunkSize \in Nat \ {0}
  /\ MaxFaults \in Nat /\ MaxDamage \in Nat
  /\ \A t \in Plaintexts : t \in Seq(ToSet(t))

Continues == "continues"   \* frameContinues
Final     == "final"       \* frameFinal

VARIABLES
  text,      \* the spooled message
  sealer,    \* the goroutine of storeBody
  pipe,      \* what the writing end was closed with
  written,   \* frames that went through the pipe
  commit,    \* the session that called Commit
  file,      \* the stored blob
  opener,    \* a reader of the blob
  faults,
  damage

sealVars   == <<text, sealer, pipe, written, commit, faults>>
streamVars == <<sealVars, file, opener, damage>>

\* The plaintext consumed is text[1..upto]; the chunk read ahead is the part
\* of it after from.  total and failed are plaintextSize and sealErr, which
\* storeBody shares with the goroutine.
SealerState ==
  [pc : {"read", "seal", "write", "report", "close", "done", "gone"},
   from : Nat, upto : Nat, counter : Nat, finished : BOOLEAN,
   total : Nat, failed : BOOLEAN]

\* The nonce of a frame is the stream's prefix and its counter.
Frame == [counter : Nat, trailer : {Continues, Final}, from : Nat, upto : Nat,
          whole : BOOLEAN]

\* size is plaintextSize as storeBody returned it.
CommitState == [pc : {"storing", "stored", "refused"}, size : Nat]

OpenerState ==
  [pc : {"idle", "opening", "opened", "failed"}, at : Nat, counter : Nat]

Header == {"ours", "altered", "unknown"}

StreamInit ==
  /\ text    \in Plaintexts
  /\ sealer  = [pc |-> "read", from |-> 0, upto |-> 0, counter |-> 0,
                finished |-> FALSE, total |-> 0, failed |-> FALSE]
  /\ pipe    = "open"
  /\ written = << >>
  /\ commit  = [pc |-> "storing", size |-> 0]
  /\ file    = [header |-> "ours", frames |-> << >>]
  /\ opener  = [pc |-> "idle", at |-> 0, counter |-> 0, out |-> << >>]
  /\ faults  = 0
  /\ damage  = 0

StreamTypeOK ==
  /\ sealer  \in SealerState
  /\ pipe    \in {"open", "eof", "error"}
  /\ written \in Seq(Frame)
  /\ commit  \in CommitState
  /\ file.header \in Header /\ file.frames \in Seq(Frame)
  /\ [pc |-> opener.pc, at |-> opener.at, counter |-> opener.counter]
       \in OpenerState
  /\ faults \in 0..MaxFaults /\ damage \in 0..MaxDamage

-----------------------------------------------------------------------------
(* SealStream.  Every write blocks until Put has read it, so a frame sent  *)
(* is a frame that Put has.                                                *)

Fails == faults < MaxFaults /\ faults' = faults + 1

Unread == Len(text) - sealer.upto

\* readChunk, one frame ahead: a chunk that is not full is the last one.
ReadChunk ==
  /\ sealer.pc = "read"
  /\ sealer' = [sealer EXCEPT
       !.pc = "seal", !.from = sealer.upto,
       !.upto = sealer.upto + (IF Unread < ChunkSize THEN Unread ELSE ChunkSize),
       !.finished = Unread < ChunkSize]
  /\ UNCHANGED <<text, pipe, written, commit, faults>>

\* Sealing needs the key, which Commit destroys on its way out: what happens
\* after that is a race, and a nil dereference takes the process with it.
SealFrame ==
  /\ sealer.pc = "seal"
  /\ \/ sealer' = [sealer EXCEPT !.pc = "write"]
     \/ commit.pc = "refused" /\ sealer' = [sealer EXCEPT !.pc = "gone"]
  /\ UNCHANGED <<text, pipe, written, commit, faults>>

FrameOf(s) ==
  [counter |-> s.counter, trailer |-> IF s.finished THEN Final ELSE Continues,
   from |-> s.from, upto |-> s.upto, whole |-> TRUE]

WriteFrame ==
  /\ sealer.pc = "write"
  /\ commit.pc = "storing"
  /\ written' = Append(written, FrameOf(sealer))
  /\ sealer'  = [sealer EXCEPT !.counter = @ + 1,
                               !.pc = IF sealer.finished THEN "report" ELSE "read"]
  /\ UNCHANGED <<text, pipe, commit, faults>>

\* The spool cannot be read, or was closed by the session that gave up.
ReadFails ==
  /\ sealer.pc = "read"
  /\ \/ Fails
     \/ commit.pc = "refused" /\ UNCHANGED faults
  /\ sealer' = [sealer EXCEPT !.pc = "report", !.failed = TRUE]
  /\ UNCHANGED <<text, pipe, written, commit>>

PipeEnd == IF sealer.failed THEN "error" ELSE "eof"

\* Deviation: the pipe is closed before the size is there.
ReportClosed ==
  /\ sealer.pc = "report"
  /\ IF pipe = "open"
     THEN pipe' = PipeEnd /\ UNCHANGED sealer
     ELSE UNCHANGED pipe /\ sealer' = [sealer EXCEPT !.pc = "done",
                                                 !.total = sealer.upto]
  /\ UNCHANGED <<text, written, commit, faults>>

\* The size and the error are there before the pipe is closed, and only the
\* close lets Put return.
Report ==
  /\ sealer.pc = "report"
  /\ sealer' = [sealer EXCEPT !.pc = "close", !.total = sealer.upto]
  /\ UNCHANGED <<text, pipe, written, commit, faults>>

ClosePipe ==
  /\ sealer.pc = "close"
  /\ sealer' = [sealer EXCEPT !.pc = "done"]
  /\ pipe'   = PipeEnd
  /\ UNCHANGED <<text, written, commit, faults>>

-----------------------------------------------------------------------------
(* Put, in the goroutine of the session.  The blob has its name only when  *)
(* all of it is on disk.                                                   *)

PutSucceeds ==
  /\ commit.pc = "storing"
  /\ pipe = "eof"
  /\ file'   = [file EXCEPT !.frames = written]
  /\ commit' = [pc   |-> IF sealer.failed THEN "refused" ELSE "stored",
                size |-> sealer.total]
  /\ UNCHANGED <<text, sealer, pipe, written, faults>>

\* The sealer's error comes through the pipe, or writing, syncing or renaming
\* the file fails.
PutFails ==
  /\ commit.pc = "storing"
  /\ \/ pipe = "error" /\ UNCHANGED faults
     \/ pipe # "error" /\ Fails
  /\ commit' = [commit EXCEPT !.pc = "refused"]
  /\ UNCHANGED <<text, sealer, pipe, written>>

-----------------------------------------------------------------------------
(* What may happen to stored bytes: a cut, a frame lost, repeated or moved, *)
(* bits flipped, here or in the header.                                    *)

Swapped(F, k, l) == [F EXCEPT ![k] = F[l], ![l] = F[k]]

Damaged(F) ==
  LET n == Len(F) IN
  {SubSeq(F, 1, k) : k \in 0..(n - 1)}
    \cup {RemoveAt(F, k) : k \in 1..n}
    \cup {InsertAt(F, k, F[k]) : k \in 1..n}
    \cup {Swapped(F, k, l) : k \in 1..n, l \in 1..n}
    \cup {[F EXCEPT ![k].whole = FALSE] : k \in 1..n}

Damage ==
  /\ commit.pc = "stored" /\ opener.pc = "idle"
  /\ damage < MaxDamage
  /\ damage' = damage + 1
  /\ \/ \E F \in Damaged(file.frames) : file' = [file EXCEPT !.frames = F]
     \/ \E h \in Header : file' = [file EXCEPT !.header = h]
  /\ UNCHANGED <<sealVars, opener>>

-----------------------------------------------------------------------------
(* OpenStream.                                                             *)

\* An unknown version is refused; a changed prefix is not noticed yet.
OpenHeader ==
  /\ commit.pc = "stored" /\ opener.pc = "idle"
  /\ opener' = [opener EXCEPT
       !.pc = IF file.header = "unknown" THEN "failed" ELSE "opening"]
  /\ UNCHANGED <<sealVars, file, damage>>

NextFrame == file.frames[opener.at + 1]

\* Both trailers are tried; the cipher says which one it was.
Authentic(f) ==
  f.whole /\ file.header = "ours" /\ f.counter = opener.counter

Take(f) == opener.out \o SubSeq(text, f.from + 1, f.upto)

Taken(f) ==
  [pc  |-> IF f.trailer = Final THEN "opened" ELSE "opening",
   at  |-> opener.at + 1, counter |-> opener.counter + 1, out |-> Take(f)]

\* Deviation: running out of frames is the end of the stream.
OpenFrameOrEnd ==
  /\ opener.pc = "opening"
  /\ opener' = IF opener.at = Len(file.frames)
               THEN [opener EXCEPT !.pc = "opened"]
               ELSE IF Authentic(NextFrame) THEN Taken(NextFrame)
                    ELSE [opener EXCEPT !.pc = "failed"]
  /\ UNCHANGED <<sealVars, file, damage>>

\* Without a final frame the stream was cut short.
OpenFrame ==
  /\ opener.pc = "opening"
  /\ opener' = IF opener.at < Len(file.frames) /\ Authentic(NextFrame)
               THEN Taken(NextFrame)
               ELSE [opener EXCEPT !.pc = "failed"]
  /\ UNCHANGED <<sealVars, file, damage>>

-----------------------------------------------------------------------------
StoreStep ==
  \/ /\ \/ ReadChunk \/ SealFrame \/ WriteFrame \/ ReadFails
        \/ Report \/ ClosePipe \/ PutFails
     /\ UNCHANGED <<file, opener, damage>>
  \/ PutSucceeds /\ UNCHANGED <<opener, damage>>

StreamStep == StoreStep \/ Damage \/ OpenHeader \/ OpenFrame
=============================================================================
