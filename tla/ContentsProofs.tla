--------------------------- MODULE ContentsProofs ---------------------------
(***************************************************************************)
(* Proofs that a message comes out of the store whole or not at all, that  *)
(* its walk loses no part in silence and that the image proxy dials only   *)
(* what it checked: for every message, every chunk size, every number of   *)
(* failures and damages, and all limits.                                   *)
(*                                                                         *)
(* The argument: the frames in the pipe follow each other without a gap,   *)
(* are numbered, and the final one ends the message (FramesInOrder); what  *)
(* lies on disk is made of such frames and of ones that do not open        *)
(* (Genuine), however it was damaged; so the frame that opens under a      *)
(* reader's counter is the one that was written with it, and its text      *)
(* continues what the reader has (Opening).                                *)
(***************************************************************************)
EXTENDS Contents, SequenceTheorems, FiniteSetTheorems, TLAPS

-----------------------------------------------------------------------------
(* The invariant of the stream.                                            *)

\* How much of the message the first c frames hold.
Reached(c) == IF c = 0 THEN 0 ELSE written[c].upto

Finished == {"report", "close", "done"}

Sealed == sealer.pc \in Finished /\ sealer.finished

FramesInOrder ==
  /\ written \in Seq(Frame)
  /\ \A k \in DOMAIN written :
       /\ written[k].counter = k - 1
       /\ written[k].from = Reached(k - 1)
       /\ written[k].from <= written[k].upto
       /\ written[k].upto <= Len(text)
       /\ written[k].trailer = Final <=> (k = Len(written) /\ Sealed)

Sealing ==
  /\ sealer \in SealerState
  /\ sealer.counter = Len(written)
  /\ sealer.from <= sealer.upto /\ sealer.upto <= Len(text)
  /\ sealer.pc = "read" => ~sealer.finished /\ sealer.upto = Reached(Len(written))
  /\ sealer.pc \in {"seal", "write"} =>
       /\ sealer.from = Reached(Len(written))
       /\ sealer.finished => sealer.upto = Len(text)
  /\ sealer.failed <=> sealer.pc \in Finished /\ ~sealer.finished
  /\ Sealed => /\ sealer.upto = Len(text)
               /\ written # << >> /\ Reached(Len(written)) = Len(text)
  /\ sealer.pc \in {"close", "done"} => sealer.total = sealer.upto
  /\ pipe \in {"open", "eof", "error"}
  /\ pipe = "eof" => sealer.pc = "done" /\ ~sealer.failed

\* What stored bytes can be made of.
Genuine == {f \in Frame : f.whole => \E k \in DOMAIN written : f = written[k]}

Storing ==
  /\ commit \in CommitState
  /\ commit.pc = "stored" => pipe = "eof" /\ commit.size = Len(text)
  /\ file \in [header : Header, frames : Seq(Genuine)]

Opening ==
  /\ opener \in [pc : {"idle", "opening", "opened", "failed"},
                 at : Nat, counter : Nat, out : Seq(Part)]
  /\ opener.counter <= Len(written)
  /\ opener.out = SubSeq(text, 1, Reached(opener.counter))
  /\ opener.pc = "opened" => Reached(opener.counter) = Len(text)

StreamInv == text \in Seq(Part) /\ FramesInOrder /\ Sealing /\ Storing /\ Opening

-----------------------------------------------------------------------------
(* Pieces of a message fit together.                                       *)
LEMMA SubSeqContinues ==
  ASSUME NEW t \in Seq(Part), NEW m \in Nat, NEW n \in Nat, m <= n, n <= Len(t)
  PROVE  SubSeq(t, 1, m) \o SubSeq(t, m + 1, n) = SubSeq(t, 1, n)
<1>1. Len(t) \in Nat
  OBVIOUS
<1>2. 1 \in 1..(Len(t) + 1) /\ m \in (1 - 1)..Len(t) /\ n \in m..Len(t)
  BY <1>1
<1> QED
  BY <1>2, ConcatAdjacentSubSeq

(* A beginning of a message is a prefix, and the whole is the message.     *)
LEMMA BeginningIsPrefix ==
  ASSUME NEW t \in Seq(Part), NEW n \in Nat, n <= Len(t)
  PROVE  /\ SubSeq(t, 1, n) \in Seq(Part)
         /\ IsPrefix(SubSeq(t, 1, n), t)
         /\ n = Len(t) => SubSeq(t, 1, n) = t
<1>1. Len(t) \in Nat /\ \A i \in 1..n : t[i] \in Part
  OBVIOUS
<1>2. SubSeq(t, 1, n) \in Seq(Part) /\ Len(SubSeq(t, 1, n)) = n
  BY <1>1, SubSeqProperties
<1>3. SubSeq(SubSeq(t, 1, n), 1, n) = SubSeq(t, 1, n)
  BY <1>2, SubSeqFull
<1>4. SubSeq(t, 1, Len(t)) = t
  BY SubSeqFull
<1> QED
  BY <1>2, <1>3, <1>4 DEF IsPrefix

(* At first nothing is read, sealed or stored.                             *)
LEMMA StreamInitInv == Init => StreamInv
<1> SUFFICES ASSUME Init  PROVE StreamInv
  OBVIOUS
<1> USE DEF Init, StreamInit
<1>1. text \in Seq(Part) /\ Len(text) \in Nat
  BY ContentsAssumption
<1>2. FramesInOrder /\ Sealing
  BY <1>1 DEF FramesInOrder, Sealing, SealerState, Sealed, Finished, Reached
<1>3. Storing
  BY DEF Storing, CommitState, Header
<1>4. SubSeq(text, 1, 0) = << >>
  BY SubSeqEmpty
<1>5. Opening
  BY <1>4 DEF Opening, Reached
<1> QED
  BY <1>1, <1>2, <1>3, <1>5 DEF StreamInv

-----------------------------------------------------------------------------
(* What the steps leave alone.                                             *)
LEMMA UntouchedKeepsStream ==
  ASSUME StreamInv, UNCHANGED streamVars
  PROVE  StreamInv'
BY DEF StreamInv, streamVars, sealVars, FramesInOrder, Sealing, Storing, Opening,
       Sealed, Reached, Genuine

(* What was opened stays opened while the frames are the same.             *)
LEMMA SameFramesKeepReaders ==
  ASSUME StreamInv, UNCHANGED <<text, written, opener>>
  PROVE  Opening' /\ Genuine' = Genuine
BY DEF StreamInv, Opening, Genuine, Reached

(* A step of the sealer that writes nothing.                               *)
LEMMA SameFramesKeepOrder ==
  ASSUME StreamInv, UNCHANGED <<text, written>>, Sealed' = Sealed
  PROVE  FramesInOrder'
BY DEF StreamInv, FramesInOrder, Reached

(* Reading, sealing and reporting write no frame.                          *)
LEMMA SealerStepKeepsStream ==
  ASSUME StreamInv, UNCHANGED <<file, opener, damage>>,
         ReadChunk \/ SealFrame \/ ReadFails \/ Report \/ ClosePipe
  PROVE  StreamInv'
<1> USE DEF StreamInv
<1>1. Len(text) \in Nat /\ ChunkSize \in Nat \ {0} /\ Len(written) \in Nat
  BY StreamAssumption DEF FramesInOrder
<1>2. UNCHANGED <<text, written, opener, file, commit>>
  BY DEF ReadChunk, SealFrame, ReadFails, Report, ClosePipe
<1>3. Reached(Len(written))' = Reached(Len(written))
  BY <1>2 DEF Reached
<1>4. Sealing' /\ Sealed' = Sealed
  <2> USE <1>1, <1>2, <1>3 DEF Sealing, SealerState, Sealed, Finished
  <2>1. CASE ReadChunk
    <3> DEFINE step == IF Unread < ChunkSize THEN Unread ELSE ChunkSize
    <3>1. step \in Nat /\ step <= Len(text) - sealer.upto
      BY DEF Unread
    <3>2. (Unread < ChunkSize) \in BOOLEAN
          /\ (Unread < ChunkSize => step = Len(text) - sealer.upto)
      BY DEF Unread
    <3>3. /\ sealer.pc = "read" /\ UNCHANGED pipe
          /\ sealer' = [sealer EXCEPT !.pc = "seal", !.from = sealer.upto,
                          !.upto = sealer.upto + step, !.finished = Unread < ChunkSize]
      BY <2>1 DEF ReadChunk
    <3> DEFINE last == Unread < ChunkSize
    <3> HIDE DEF step, Unread, last
    <3>4. sealer' = [pc |-> "seal", from |-> sealer.upto, upto |-> sealer.upto + step,
                     counter |-> sealer.counter, finished |-> last,
                     total |-> sealer.total, failed |-> sealer.failed]
      BY <3>3 DEF last
    <3>5. last \in BOOLEAN /\ (last => step = Len(text) - sealer.upto)
      BY <3>2 DEF last
    <3>6. sealer' \in SealerState
      BY <3>1, <3>4, <3>5
    <3>7. sealer.failed = FALSE /\ pipe # "eof" /\ sealer.upto = Reached(Len(written))
          /\ sealer.upto \in Nat
      BY <3>3
    <3>8. Sealed = FALSE /\ Sealed' = FALSE
      BY <3>3, <3>4
    <3>9. Sealing'
      <4>1. sealer'.finished => sealer'.upto = Len(text)
        BY <3>1, <3>4, <3>5, <3>7
      <4>2. sealer'.from <= sealer'.upto /\ sealer'.upto <= Len(text)
        BY <3>1, <3>4, <3>7
      <4>3. sealer'.pc = "seal" /\ sealer'.from = sealer.upto
            /\ sealer'.counter = Len(written) /\ sealer'.failed = FALSE
        BY <3>4, <3>7
      <4> QED
        BY <3>3, <3>6, <3>7, <3>8, <4>1, <4>2, <4>3
    <3> QED  BY <3>8, <3>9
  <2>2. CASE SealFrame
    BY <2>2 DEF SealFrame
  <2>3. CASE ReadFails
    BY <2>3 DEF ReadFails
  <2>4. CASE Report
    BY <2>4 DEF Report
  <2>5. CASE ClosePipe
    BY <2>5 DEF ClosePipe, PipeEnd
  <2> QED  BY <2>1, <2>2, <2>3, <2>4, <2>5
<1>5. pipe = "eof" => pipe' = "eof"
  BY DEF ReadChunk, SealFrame, ReadFails, Report, ClosePipe, Sealing, Finished
<1>6. Storing'
  BY <1>2, <1>5, SameFramesKeepReaders DEF Storing
<1> QED
  BY <1>2, <1>4, <1>6, SameFramesKeepReaders, SameFramesKeepOrder

(* The next frame continues the last one, and readers do not notice it.    *)
LEMMA WriteFrameKeepsStream ==
  ASSUME StreamInv, WriteFrame, UNCHANGED <<file, opener, damage>>
  PROVE  StreamInv'
<1> USE DEF StreamInv, WriteFrame
<1> DEFINE f == FrameOf(sealer)
<1>1. f \in Frame
  BY DEF FrameOf, Sealing, SealerState, Frame
<1>2. /\ written' \in Seq(Frame) /\ Len(written') = Len(written) + 1
      /\ \A k \in DOMAIN written : written'[k] = written[k]
      /\ written'[Len(written) + 1] = f
      /\ Len(written) \in Nat /\ DOMAIN written = 1..Len(written)
      /\ DOMAIN written' = 1..(Len(written) + 1)
  BY <1>1, AppendProperties DEF FramesInOrder
<1>3. ~Sealed /\ sealer \in SealerState /\ Len(text) \in Nat
  BY DEF Sealed, Finished, Sealing
<1>4. \A c \in 0..Len(written) : Reached(c)' = Reached(c)
  BY <1>2 DEF Reached
<1>5. Reached(Len(written))' = sealer.upto
  BY <1>2 DEF Reached, FrameOf
<1>6. /\ sealer' \in SealerState
      /\ sealer'.counter = sealer.counter + 1
      /\ sealer'.from = sealer.from /\ sealer'.upto = sealer.upto
      /\ sealer'.total = sealer.total /\ sealer'.failed = sealer.failed
      /\ sealer'.finished = sealer.finished
      /\ sealer'.pc = (IF sealer.finished THEN "report" ELSE "read")
  <2> DEFINE next == IF sealer.finished THEN "report" ELSE "read"
  <2>1. sealer' = [sealer EXCEPT !.counter = @ + 1, !.pc = next]
    OBVIOUS
  <2>2. next \in {"report", "read"}
    OBVIOUS
  <2> HIDE DEF next
  <2>3. sealer' = [pc |-> next, from |-> sealer.from, upto |-> sealer.upto,
                   counter |-> sealer.counter + 1, finished |-> sealer.finished,
                   total |-> sealer.total, failed |-> sealer.failed]
    BY <1>3, <2>1 DEF SealerState
  <2>4. sealer' \in SealerState
    BY <1>3, <2>2, <2>3 DEF SealerState
  <2> QED  BY <2>3, <2>4 DEF next
<1>7. Sealed' = sealer.finished
  <2>1. CASE sealer.finished = TRUE
    BY <1>6, <2>1 DEF Sealed, Finished
  <2>2. CASE sealer.finished = FALSE
    BY <1>6, <2>2 DEF Sealed, Finished
  <2> QED  BY <1>3, <2>1, <2>2 DEF SealerState
<1>8. FramesInOrder'
  <2> SUFFICES ASSUME NEW k \in DOMAIN written'
               PROVE  /\ written'[k].counter = k - 1
                      /\ written'[k].from = Reached(k - 1)'
                      /\ written'[k].from <= written'[k].upto
                      /\ written'[k].upto <= Len(text)
                      /\ written'[k].trailer = Final <=> (k = Len(written') /\ Sealed')
    BY <1>2 DEF FramesInOrder
  <2>1. CASE k \in DOMAIN written
    BY <2>1, <1>2, <1>3, <1>4 DEF FramesInOrder
  <2>2. CASE k = Len(written) + 1
    BY <2>2, <1>2, <1>3, <1>4, <1>7 DEF FrameOf, Sealing, Final, Continues
  <2> QED  BY <2>1, <2>2, <1>2
<1>9. Sealing'
  <2>1. CASE sealer.finished = TRUE
    <3>1. sealer'.pc = "report" /\ sealer'.finished = TRUE
      BY <1>6, <2>1
    <3>2. sealer.failed = FALSE /\ pipe # "eof" /\ sealer.upto = Len(text)
          /\ sealer.from <= sealer.upto /\ sealer.counter = Len(written)
          /\ pipe \in {"open", "eof", "error"}
      BY <1>3, <2>1 DEF Sealing, Finished, SealerState
    <3>3. written' # << >> /\ Reached(Len(written))' = Len(text)
      BY <1>2, <1>5, <3>2
    <3> QED
      BY <1>2, <1>3, <1>6, <3>1, <3>2, <3>3 DEF Sealing, Sealed, Finished
  <2>2. CASE sealer.finished = FALSE
    <3>1. sealer'.pc = "read" /\ sealer'.finished = FALSE
      BY <1>6, <2>2
    <3>2. sealer.failed = FALSE /\ pipe # "eof" /\ sealer.upto <= Len(text)
          /\ sealer.from <= sealer.upto /\ sealer.counter = Len(written)
          /\ pipe \in {"open", "eof", "error"}
      BY <1>3, <2>2 DEF Sealing, Finished, SealerState
    <3>3. Reached(Len(written))' = sealer.upto
      BY <1>2, <1>5
    <3> QED
      BY <1>2, <1>3, <1>6, <3>1, <3>2, <3>3 DEF Sealing, Sealed, Finished
  <2> QED  BY <1>3, <2>1, <2>2 DEF SealerState
<1>10. Genuine \subseteq Genuine'
  BY <1>2 DEF Genuine
<1>11. Storing'
  BY <1>10 DEF Storing
<1>12. Opening'
  BY <1>2, <1>4 DEF Opening
<1> QED
  BY <1>8, <1>9, <1>11, <1>12

(* Put takes the frames as they came, and only when the last has come.     *)
LEMMA PutKeepsStream ==
  ASSUME StreamInv, UNCHANGED <<opener, damage>>,
         PutSucceeds \/ (PutFails /\ UNCHANGED file)
  PROVE  StreamInv'
<1> USE DEF StreamInv
<1>1. UNCHANGED <<text, sealer, pipe, written, opener>>
  BY DEF PutSucceeds, PutFails
<1>2. written \in Seq(Genuine)
  BY DEF FramesInOrder, Genuine
<1>3. FramesInOrder' /\ Sealing'
  BY <1>1 DEF FramesInOrder, Sealing, Sealed, Reached
<1>4. Storing'
  <2>1. CASE PutSucceeds
    <3>1. sealer.total = Len(text) /\ sealer.total \in Nat /\ ~sealer.failed
      BY <2>1 DEF PutSucceeds, Sealing, Sealed, Finished, SealerState
    <3> QED
      BY <2>1, <3>1, <1>1, <1>2, SameFramesKeepReaders DEF PutSucceeds, Storing, CommitState
  <2>2. CASE PutFails /\ UNCHANGED file
    BY <2>2, <1>1, SameFramesKeepReaders DEF PutFails, Storing, CommitState
  <2> QED  BY <2>1, <2>2
<1> QED
  BY <1>1, <1>3, <1>4, SameFramesKeepReaders

-----------------------------------------------------------------------------
(* Damage, however it falls, makes nothing that would open.                *)
LEMMA DamagedIsGenuine ==
  ASSUME NEW F \in Seq(Genuine), NEW G \in Damaged(F)
  PROVE  G \in Seq(Genuine)
<1> DEFINE n == Len(F)
<1>1. n \in Nat /\ F \in [1..n -> Genuine]
  OBVIOUS
<1>2. \A i, j \in Int : 1 <= i /\ j <= n => SubSeq(F, i, j) \in Seq(Genuine)
  BY <1>1, SubSeqProperties
<1>3. CASE \E k \in 0..(n - 1) : G = SubSeq(F, 1, k)
  BY <1>2, <1>3
<1>4. CASE \E k \in 1..n : G = RemoveAt(F, k)
  <2>1. PICK k \in 1..n : G = SubSeq(F, 1, k - 1) \o SubSeq(F, k + 1, n)
    BY <1>4 DEF RemoveAt
  <2>2. SubSeq(F, 1, k - 1) \in Seq(Genuine) /\ SubSeq(F, k + 1, n) \in Seq(Genuine)
    BY <1>1, <1>2
  <2> QED  BY <2>1, <2>2, ConcatProperties
<1>5. CASE \E k \in 1..n : G = InsertAt(F, k, F[k])
  <2>1. PICK k \in 1..n : G = SubSeq(F, 1, k - 1) \o <<F[k]>> \o SubSeq(F, k, n)
    BY <1>5 DEF InsertAt
  <2>2. /\ SubSeq(F, 1, k - 1) \in Seq(Genuine) /\ SubSeq(F, k, n) \in Seq(Genuine)
        /\ <<F[k]>> \in Seq(Genuine)
    BY <1>1, <1>2
  <2>3. SubSeq(F, 1, k - 1) \o <<F[k]>> \in Seq(Genuine)
    BY <2>2, ConcatProperties
  <2> QED  BY <2>1, <2>2, <2>3, ConcatProperties
<1>6. CASE \E k \in 1..n, l \in 1..n : G = Swapped(F, k, l)
  BY <1>1, <1>6 DEF Swapped
<1>7. CASE \E k \in 1..n : G = [F EXCEPT ![k].whole = FALSE]
  <2>1. PICK k \in 1..n : G = [F EXCEPT ![k].whole = FALSE]
    BY <1>7
  <2>2. [F[k] EXCEPT !.whole = FALSE] \in Genuine
    BY <1>1 DEF Genuine, Frame
  <2> QED  BY <1>1, <2>1, <2>2
<1> QED
  BY <1>3, <1>4, <1>5, <1>6, <1>7 DEF Damaged

(* Damage leaves frames that were written and frames that do not open.     *)
LEMMA DamageKeepsStream ==
  ASSUME StreamInv, Damage
  PROVE  StreamInv'
<1> USE DEF StreamInv
<1>1. UNCHANGED <<text, sealer, pipe, written, commit, opener>>
  BY DEF Damage, sealVars
<1>2. FramesInOrder' /\ Sealing'
  BY <1>1 DEF FramesInOrder, Sealing, Sealed, Reached
<1>3. file' \in [header : Header, frames : Seq(Genuine)]
  <2>1. CASE \E F \in Damaged(file.frames) : file' = [file EXCEPT !.frames = F]
    BY <2>1, DamagedIsGenuine DEF Storing
  <2>2. CASE \E h \in Header : file' = [file EXCEPT !.header = h]
    BY <2>2 DEF Storing
  <2> QED  BY <2>1, <2>2 DEF Damage
<1>4. Storing'
  BY <1>1, <1>3, SameFramesKeepReaders DEF Storing
<1> QED
  BY <1>1, <1>2, <1>4, SameFramesKeepReaders

-----------------------------------------------------------------------------
(* A frame that opens under the reader's counter is the one that was       *)
(* written with it: its text starts where the reader is.                   *)
LEMMA OpenerKeepsStream ==
  ASSUME StreamInv, OpenHeader \/ OpenFrame
  PROVE  StreamInv'
<1> USE DEF StreamInv
<1>1. UNCHANGED <<text, sealer, pipe, written, commit, file>>
  BY DEF OpenHeader, OpenFrame, sealVars
<1>2. FramesInOrder' /\ Sealing' /\ Storing'
  BY <1>1 DEF FramesInOrder, Sealing, Storing, Sealed, Reached, Genuine
<1>3. \A c \in Nat : Reached(c)' = Reached(c)
  BY <1>1 DEF Reached
<1>4. ASSUME \/ opener' = [opener EXCEPT !.pc = "failed"]
             \/ opener' = [opener EXCEPT !.pc = "opening"]
      PROVE  Opening'
  <2>1. /\ opener' \in [pc : {"idle", "opening", "opened", "failed"},
                         at : Nat, counter : Nat, out : Seq(Part)]
        /\ opener'.counter = opener.counter /\ opener'.out = opener.out
        /\ opener'.pc # "opened"
    BY <1>4 DEF Opening
  <2>2. Reached(opener.counter)' = Reached(opener.counter)
    BY <1>1, <2>1 DEF Reached
  <2>3. /\ opener.counter <= Len(written)
        /\ opener.out = SubSeq(text, 1, Reached(opener.counter))
    BY DEF Opening
  <2> QED
    BY <1>1, <2>1, <2>2, <2>3 DEF Opening
<1>5. ASSUME opener' = Taken(NextFrame), opener.at < Len(file.frames), Authentic(NextFrame)
      PROVE  Opening'
  <2> DEFINE f == NextFrame
             c == opener.counter
  <2>1. f \in Genuine
    BY <1>5 DEF Storing, Opening, NextFrame
  <2>2. PICK k \in DOMAIN written : f = written[k]
    BY <1>5, <2>1 DEF Genuine, Authentic
  <2>3. k = c + 1 /\ c \in Nat /\ k \in 1..Len(written) /\ Len(written) \in Nat
    BY <1>5, <2>2 DEF FramesInOrder, Authentic, Opening
  <2>4. opener.out = SubSeq(text, 1, Reached(c)) /\ opener.at \in Nat
    BY DEF Opening
  <2>5. Take(f) = opener.out \o SubSeq(text, f.from + 1, f.upto)
    BY DEF Take
  <2>6. opener' = [pc |-> IF f.trailer = Final THEN "opened" ELSE "opening",
                    at |-> opener.at + 1, counter |-> c + 1, out |-> Take(f)]
    BY <1>5 DEF Taken
  <2>7. f \in Frame
    BY <2>1 DEF Genuine
  <2> HIDE DEF f, c
  <2>8. written[k].from = Reached(k - 1) /\ k - 1 = c
    BY <2>3 DEF FramesInOrder
  <2>9. /\ f.from = Reached(c) /\ f.upto = Reached(c + 1)
        /\ f.from \in Nat /\ f.upto \in Nat /\ f.from <= f.upto /\ f.upto <= Len(text)
    <3>1. f.from \in Nat /\ f.upto \in Nat
      BY <2>7 DEF Frame
    <3>2. f.from <= f.upto /\ f.upto <= Len(text)
      BY <2>2 DEF FramesInOrder
    <3>3. f.upto = Reached(c + 1)
      BY <2>2, <2>3 DEF Reached
    <3> QED  BY <2>2, <2>8, <3>1, <3>2, <3>3
  <2>10. f.trailer = Final => f.upto = Len(text)
    <3> SUFFICES ASSUME f.trailer = Final  PROVE f.upto = Len(text)
      OBVIOUS
    <3>1. k = Len(written) /\ Sealed
      BY <2>2 DEF FramesInOrder
    <3> QED  BY <2>3, <2>9, <3>1 DEF Sealing
  <2>11. Take(f) = SubSeq(text, 1, f.upto) /\ Take(f) \in Seq(Part)
    <3>1. Take(f) = SubSeq(text, 1, f.from) \o SubSeq(text, f.from + 1, f.upto)
      BY <2>4, <2>5, <2>9
    <3>2. Take(f) = SubSeq(text, 1, f.upto)
      BY <2>9, <3>1, SubSeqContinues
    <3> QED
      BY <2>9, <3>2, BeginningIsPrefix
  <2>12. opener' \in [pc : {"idle", "opening", "opened", "failed"},
                     at : Nat, counter : Nat, out : Seq(Part)]
    BY <2>3, <2>11, <2>4, <2>6
  <2>13. opener'.counter = c + 1 /\ opener'.out = Take(f)
        /\ (opener'.pc = "opened" => f.trailer = Final)
    BY <2>6
  <2>14. Reached(opener.counter)' = Reached(c + 1)
    BY <1>1, <2>13 DEF Reached
  <2> QED
    <3>1. opener'.counter <= Len(written')
      BY <1>1, <2>3, <2>13
    <3>2. opener'.out = SubSeq(text', 1, Reached(opener.counter)')
      BY <1>1, <2>9, <2>11, <2>13, <2>14
    <3>3. opener'.pc = "opened" => Reached(opener.counter)' = Len(text')
      BY <1>1, <2>9, <2>10, <2>13, <2>14
    <3> QED
      BY <2>12, <3>1, <3>2, <3>3 DEF Opening
<1>6. \/ opener' = [opener EXCEPT !.pc = "failed"] \/ opener' = [opener EXCEPT !.pc = "opening"]
      \/ opener' = Taken(NextFrame) /\ opener.at < Len(file.frames) /\ Authentic(NextFrame)
  BY DEF OpenHeader, OpenFrame
<1>7. Opening'
  BY <1>4, <1>5, <1>6 DEF Opening
<1> QED
  BY <1>1, <1>2, <1>7

(* The invariant of the stream is inductive.                               *)
LEMMA StreamNextInv == StreamInv /\ [Next]_vars => StreamInv'
<1> SUFFICES ASSUME StreamInv, [Next]_vars  PROVE StreamInv'
  OBVIOUS
<1>1. CASE StreamStep
  BY <1>1, SealerStepKeepsStream, WriteFrameKeepsStream, PutKeepsStream,
     DamageKeepsStream, OpenerKeepsStream DEF StreamStep, StoreStep
<1>2. CASE UNCHANGED streamVars
  BY <1>2, UntouchedKeepsStream
<1> QED
  BY <1>1, <1>2 DEF Next, vars, ParseBlob, GetMessage, ShowImages

(* The invariant of the stream holds in every reachable state.             *)
LEMMA StreamInvAlways == Spec => []StreamInv
BY StreamInitInv, StreamNextInv, PTL DEF Spec

(* What a reader gives away is a beginning of the message, and all of it   *)
(* when it says so: no cut, lost, repeated, moved or altered frame makes   *)
(* OpenStream take anything else for a message.                            *)
THEOREM ReadersGetTheMessage == Spec => []OpenedIsWhole
<1>1. StreamInv => OpenedIsWhole
  <2> SUFFICES ASSUME StreamInv  PROVE OpenedIsWhole
    OBVIOUS
  <2> DEFINE n == Reached(opener.counter)
  <2>1. n \in Nat /\ n <= Len(text)
    <3>1. text \in Seq(Part) /\ opener.counter \in Nat /\ opener.counter <= Len(written)
          /\ written \in Seq(Frame)
      BY DEF StreamInv, Opening, FramesInOrder
    <3>2. CASE opener.counter = 0
      BY <3>1, <3>2 DEF Reached
    <3>3. CASE opener.counter # 0
      <4>1. opener.counter \in DOMAIN written
        BY <3>1, <3>3
      <4>2. written[opener.counter] \in Frame
        BY <3>1, <4>1
      <4> QED
        BY <3>3, <4>1, <4>2 DEF StreamInv, FramesInOrder, Reached, Frame
    <3> QED  BY <3>2, <3>3
  <2>2. opener.out = SubSeq(text, 1, n) /\ (opener.pc = "opened" => n = Len(text))
    BY DEF StreamInv, Opening
  <2>3. text \in Seq(Part)
    BY DEF StreamInv
  <2> HIDE DEF n
  <2> QED
    BY <2>1, <2>2, <2>3, BeginningIsPrefix DEF OpenedIsWhole
<1> QED
  BY <1>1, StreamInvAlways, PTL

(* What is acknowledged is stored whole, and charged with its size.        *)
THEOREM StoredMessagesAreWhole == Spec => []StoredIsWhole
<1>1. StreamInv => StoredIsWhole
  <2> SUFFICES ASSUME StreamInv, commit.pc = "stored"
               PROVE  commit.size = Len(text) /\ Covers(written, Len(text))
    BY DEF StoredIsWhole
  <2>1. commit.size = Len(text) /\ Sealed
    BY DEF StreamInv, Storing, Sealing, Sealed, Finished
  <2>2. /\ written # << >> /\ written \in Seq(Frame)
        /\ Reached(Len(written)) = Len(text)
    BY <2>1 DEF StreamInv, Sealing, FramesInOrder
  <2>3. written[1].from = 0 /\ written[Len(written)].upto = Len(text)
    BY <2>2 DEF StreamInv, FramesInOrder, Reached
  <2>4. ASSUME NEW k \in DOMAIN written
        PROVE  /\ written[k].counter = k - 1
               /\ written[k].trailer = (IF k = Len(written) THEN Final ELSE Continues)
               /\ k > 1 => written[k].from = written[k - 1].upto
    <3>1. written[k] \in Frame /\ k \in 1..Len(written)
      BY <2>2
    <3>2. written[k].trailer \in {Continues, Final}
      BY <3>1 DEF Frame
    <3>3. written[k].counter = k - 1 /\ written[k].from = Reached(k - 1)
          /\ (written[k].trailer = Final <=> k = Len(written))
      BY <2>1 DEF StreamInv, FramesInOrder
    <3>4. k > 1 => Reached(k - 1) = written[k - 1].upto
      BY <3>1 DEF Reached
    <3> QED
      BY <3>2, <3>3, <3>4
  <2> QED
    BY <2>1, <2>2, <2>3, <2>4 DEF Covers, Last
<1> QED
  BY <1>1, StreamInvAlways, PTL

-----------------------------------------------------------------------------
(* The invariant of the walk: each part it has passed is shown or warned   *)
(* about, and of a part that is a file nothing is missing.                 *)
WalkRecord ==
  [pc : {"idle", "walking", "parsed", "failed"}, raw : Seq(Part), at : Nat, parts : Nat,
   Text : {walk.Text}, HTML : {walk.HTML}, shown : SUBSET Nat,
   Attachments : Seq(Stored), Warnings : SUBSET Nat]

KeptWhole(a) == text[a.part].kind = "file" /\ a.blob => a.kept = Len(text[a.part].body)

Walking ==
  /\ walk \in WalkRecord
  /\ walk.pc # "idle" => walk.raw = text
  /\ walk.at <= Len(walk.raw)
  /\ walk.pc \in {"walking", "parsed"} => 1..walk.at = walk.shown \cup walk.Warnings
  /\ walk.pc = "parsed" /\ walk.at < Len(text) => walk.at \in walk.Warnings
  /\ \A k \in DOMAIN walk.Attachments : KeptWhole(walk.Attachments[k])

(* The walk is as it was while neither it nor the message changes.         *)
LEMMA WalkingUntouched ==
  ASSUME Walking, UNCHANGED <<walk, text>>
  PROVE  Walking'
BY DEF Walking, WalkRecord, KeptWhole

\* What a step of the walk makes of it.
Passed(pc, n, t, h, s, as, w) ==
  [pc |-> pc, raw |-> walk.raw, at |-> Here, parts |-> n, Text |-> t, HTML |-> h,
   shown |-> s, Attachments |-> as, Warnings |-> w]

(* The walk takes the next part, and accounts for it.                      *)
LEMMA WalkingAdvances ==
  ASSUME StreamInv, Walking, UNCHANGED text, walk.pc = "walking", walk.at < Len(walk.raw),
         NEW pc \in {"walking", "parsed", "failed"}, NEW n \in Nat, NEW t, NEW h,
         NEW s \in SUBSET Nat, NEW as, NEW w \in SUBSET Nat,
         walk' = Passed(pc, n, t, h, s, as, w),
         pc # "failed" => s \cup w = (walk.shown \cup walk.Warnings) \cup {Here},
         pc = "parsed" => Here \in w,
         \/ as = walk.Attachments
         \/ \E a \in Stored : KeptWhole(a) /\ as = Append(walk.Attachments, a)
  PROVE  Walking'
<1>1. /\ walk'.pc = pc /\ walk'.raw = walk.raw /\ walk'.at = Here /\ walk'.shown = s
      /\ walk'.Attachments = as /\ walk'.Warnings = w
  BY DEF Passed
<1>2. walk.at \in Nat /\ walk.raw = text /\ Len(text) \in Nat
      /\ walk.Attachments \in Seq(Stored)
  BY DEF Walking, WalkRecord, StreamInv
<1>3. walk'.at <= Len(walk'.raw)
  BY <1>1, <1>2 DEF Here
<1>4. 1..Here = (1..walk.at) \cup {Here}
  BY <1>2 DEF Here
<1>5. pc # "failed" => 1..walk'.at = walk'.shown \cup walk'.Warnings
  BY <1>1, <1>4 DEF Walking
<1>6. ASSUME NEW k \in DOMAIN as  PROVE KeptWhole(as[k])
  <2>1. CASE as = walk.Attachments
    BY <2>1 DEF Walking
  <2>2. ASSUME NEW a \in Stored, KeptWhole(a), as = Append(walk.Attachments, a)
        PROVE  KeptWhole(as[k])
    <3>1. k = Len(walk.Attachments) + 1 \/ k \in DOMAIN walk.Attachments
      BY <1>2, <2>2, AppendProperties
    <3>2. CASE k = Len(walk.Attachments) + 1
      BY <1>2, <2>2, <3>2, AppendProperties
    <3>3. CASE k \in DOMAIN walk.Attachments
      <4>1. as[k] = walk.Attachments[k]
        BY <1>2, <2>2, <3>3, AppendProperties
      <4> QED  BY <3>3, <4>1 DEF Walking
    <3> QED  BY <3>1, <3>2, <3>3
  <2> QED  BY <2>1, <2>2
<1>7. ASSUME NEW k \in DOMAIN walk'.Attachments  PROVE KeptWhole(walk.Attachments[k])'
  <2>1. KeptWhole(as[k]) /\ walk'.Attachments[k] = as[k]
    BY <1>1, <1>6
  <2> QED  BY <2>1 DEF KeptWhole
<1>8. as \in Seq(Stored)
  <2>1. ASSUME NEW a \in Stored  PROVE Append(walk.Attachments, a) \in Seq(Stored)
    BY <1>2, AppendProperties
  <2> QED  BY <1>2, <2>1
<1>9. walk' \in WalkRecord'
  <2>1. Here \in Nat /\ walk.raw \in Seq(Part)
    BY <1>2 DEF Here, Walking, WalkRecord
  <2>2. walk'.Text = t /\ walk'.HTML = h
    BY DEF Passed
  <2> QED  BY <1>8, <2>1, <2>2 DEF Passed, WalkRecord
<1> QED
  BY <1>1, <1>2, <1>3, <1>5, <1>7, <1>9 DEF Walking

(* What storeAttachment makes of a part is a record, and a file it keeps   *)
(* is kept whole.                                                          *)
LEMMA AttachmentIsStored ==
  ASSUME NEW b \in Seq(Line), NEW left \in Nat, left <= Len(b), walk.at \in Nat
  PROVE  /\ storeAttachment(left) \in Stored
         /\ storeAttachment(left).part = Here
         /\ left = Len(b) /\ storeAttachment(left).blob => storeAttachment(left).kept = Len(b)
<1>1. Min2(left, MaxAttachmentBytes) \in Nat
      /\ (left <= MaxAttachmentBytes => Min2(left, MaxAttachmentBytes) = left)
  BY WalkAssumption DEF Min2
<1>2. Here \in Nat
  BY DEF Here
<1> DEFINE kept == Min2(left, MaxAttachmentBytes)
           small == left <= MaxAttachmentBytes
<1>3. storeAttachment(left) = [part |-> Here, blob |-> small, kept |-> kept]
  BY DEF storeAttachment
<1>4. small \in BOOLEAN /\ kept \in Nat /\ (small => kept = left)
  BY <1>1
<1> HIDE DEF small, kept
<1> QED
  BY <1>2, <1>3, <1>4 DEF Stored

(* Every step of the walk accounts for the part it passes.                 *)
LEMMA WalkStepKeepsWalking ==
  ASSUME StreamInv, Walking, WalkStep, UNCHANGED text
  PROVE  Walking'
<1>1. walk \in WalkRecord /\ text \in Seq(Part) /\ MaxParts \in Nat
      /\ walk.at \in Nat /\ walk.parts \in Nat
  BY WalkAssumption DEF Walking, StreamInv, WalkRecord
<1>2. Here \in Nat /\ Here = walk.at + 1
  BY <1>1 DEF Here
<1>3. ASSUME walk.pc = "walking", walk.at < Len(walk.raw)
      PROVE  /\ Current = text[Here] /\ Current \in Part
             /\ Current.body \in Seq(Line) /\ Len(Current.body) \in Nat
             /\ Len(Current.body) - Len(Cut(Current.body)) \in 0..Len(Current.body)
  <2>1. Current = text[Here] /\ Current \in Part
    BY <1>1, <1>2, <1>3 DEF Current, Walking
  <2>2. Current.body \in Seq(Line) /\ Len(Current.body) \in Nat
    BY <2>1 DEF Part
  <2>3. Min2(Len(Current.body), MaxBodyBytes) \in 0..Len(Current.body)
    BY <2>2, WalkAssumption DEF Min2
  <2>4. \A i \in 1..Min2(Len(Current.body), MaxBodyBytes) : Current.body[i] \in Line
    BY <2>2, <2>3
  <2>5. Len(Cut(Current.body)) = Min2(Len(Current.body), MaxBodyBytes)
    BY <2>3, <2>4, SubSeqProperties DEF Cut
  <2> QED  BY <2>1, <2>2, <2>3, <2>5
<1>4. CASE EndOfParts
  <2>1. /\ walk.pc = "walking" /\ walk.at = Len(walk.raw)
        /\ walk' = [walk EXCEPT !.pc = "parsed"]
    BY <1>4 DEF EndOfParts
  <2>2. /\ walk' \in WalkRecord' /\ walk'.pc = "parsed" /\ walk'.raw = walk.raw
        /\ walk'.at = walk.at /\ walk'.shown = walk.shown
        /\ walk'.Attachments = walk.Attachments /\ walk'.Warnings = walk.Warnings
    BY <1>1, <2>1 DEF WalkRecord
  <2> QED
    BY <1>1, <2>1, <2>2 DEF Walking, KeptWhole
<1>5. CASE Undecodable \/ Unreadable \/ TooManyParts \/ BodyUnreadable
  <2> DEFINE w == walk.Warnings \cup {Here}
             Warned(pc, n) ==
               walk' = Passed(pc, n, walk.Text, walk.HTML, walk.shown, walk.Attachments, w)
  <2>1. walk.pc = "walking" /\ walk.at < Len(walk.raw)
    BY <1>5 DEF Undecodable, Unreadable, TooManyParts, BodyUnreadable, ReadPart, Yields
  <2>2. \E pc \in {"walking", "parsed"}, n \in Nat : Warned(pc, n)
    <3>1. CASE Undecodable
      <4>1. Warned("walking", walk.parts)
        BY <1>1, <2>1, <3>1 DEF Undecodable, WalkRecord, Passed
      <4> QED  BY <1>1, <4>1
    <3>2. CASE Unreadable
      <4>1. Warned("parsed", walk.parts)
        BY <1>1, <2>1, <3>2 DEF Unreadable, WalkRecord, Passed
      <4> QED  BY <1>1, <4>1
    <3>3. CASE TooManyParts
      <4>1. Warned("parsed", walk.parts + 1)
        BY <1>1, <2>1, <3>3 DEF TooManyParts, WalkRecord, Passed
      <4> QED  BY <1>1, <4>1
    <3>4. CASE BodyUnreadable
      <4>1. Warned("walking", walk.parts + 1)
        BY <1>1, <2>1, <3>4 DEF BodyUnreadable, Counted, WalkRecord, Passed
      <4> QED  BY <1>1, <4>1
    <3> QED  BY <1>5, <3>1, <3>2, <3>3, <3>4
  <2>3. w \in SUBSET Nat /\ walk.shown \in SUBSET Nat
        /\ walk.shown \cup w = (walk.shown \cup walk.Warnings) \cup {Here} /\ Here \in w
    BY <1>1, <1>2 DEF WalkRecord
  <2> HIDE DEF w
  <2> QED
    BY <2>1, <2>2, <2>3, WalkingAdvances
<1>6. CASE ReadText \/ ReadHTML
  <2> DEFINE s == walk.shown \cup {Here}
             Shown(t, h) == walk' = Passed("walking", walk.parts + 1, t, h, s,
                                           walk.Attachments, walk.Warnings)
  <2>1. walk.pc = "walking" /\ walk.at < Len(walk.raw)
    BY <1>6 DEF ReadText, ReadHTML, ReadPart, Yields
  <2>2. \E t, h : Shown(t, h)
    <3>1. CASE ReadText
      <4>1. Shown(Appended(walk.Text, Cut(Current.body)), walk.HTML)
        BY <1>1, <2>1, <3>1 DEF ReadText, Counted, WalkRecord, Passed
      <4> QED  BY <4>1
    <3>2. CASE ReadHTML
      <4>1. Shown(walk.Text, Appended(walk.HTML, Cut(Current.body)))
        BY <1>1, <2>1, <3>2 DEF ReadHTML, Counted, WalkRecord, Passed
      <4> QED  BY <4>1
    <3> QED  BY <1>6, <3>1, <3>2
  <2>3. /\ s \in SUBSET Nat /\ walk.Warnings \in SUBSET Nat /\ walk.parts + 1 \in Nat
        /\ s \cup walk.Warnings = (walk.shown \cup walk.Warnings) \cup {Here}
    BY <1>1, <1>2 DEF WalkRecord
  <2> HIDE DEF s
  <2> QED
    BY <2>1, <2>2, <2>3, WalkingAdvances
<1>7. CASE ReadFile \/ ReadInline
  <2>1. walk.pc = "walking" /\ walk.at < Len(walk.raw)
    BY <1>7 DEF ReadFile, ReadInline, ReadPart, Yields
  <2>2. PICK left \in Nat : /\ AttachmentOf(left) /\ left <= Len(Current.body)
                            /\ Current.kind = "file" => left = Len(Current.body)
    <3>1. CASE ReadFile
      BY <1>3, <2>1, <3>1 DEF ReadFile
    <3>2. CASE ReadInline
      <4>1. Current.kind # "file" /\ AttachmentOf(Len(Current.body) - Len(Cut(Current.body)))
        BY <3>2 DEF ReadInline, ReadPart
      <4> DEFINE n == Len(Current.body)
                 l == n - Len(Cut(Current.body))
      <4>2. n \in Nat /\ l \in 0..n
        BY <1>3, <2>1
      <4> HIDE DEF n, l
      <4>3. l \in Nat /\ l <= n
        BY <4>2
      <4> QED  BY <4>1, <4>3 DEF n, l
    <3> QED  BY <1>7, <3>1, <3>2
  <2> DEFINE a  == storeAttachment(left)
             as == Append(walk.Attachments, a)
             s  == walk.shown \cup {Here}
  <2>3. a \in Stored /\ KeptWhole(a)
    BY <1>1, <1>3, <2>1, <2>2, AttachmentIsStored DEF KeptWhole
  <2>4. walk' = Passed("walking", walk.parts + 1, walk.Text, walk.HTML, s, as, walk.Warnings)
    BY <1>1, <2>1, <2>2 DEF AttachmentOf, Counted, WalkRecord, Passed
  <2>5. /\ s \in SUBSET Nat /\ walk.Warnings \in SUBSET Nat /\ walk.parts + 1 \in Nat
        /\ s \cup walk.Warnings = (walk.shown \cup walk.Warnings) \cup {Here}
    BY <1>1, <1>2 DEF WalkRecord
  <2> HIDE DEF a, s
  <2> QED
    BY <2>1, <2>3, <2>4, <2>5, WalkingAdvances
<1>8. CASE FileUnreadable
  <2>1. walk.pc = "walking" /\ walk.at < Len(walk.raw)
    BY <1>8 DEF FileUnreadable, ReadPart, Yields
  <2>2. walk' = Passed("failed", walk.parts + 1, walk.Text, walk.HTML, walk.shown,
                       walk.Attachments, walk.Warnings)
    BY <1>1, <1>8, <2>1 DEF FileUnreadable, Counted, WalkRecord, Passed
  <2>3. /\ walk.shown \in SUBSET Nat /\ walk.Warnings \in SUBSET Nat
        /\ walk.parts + 1 \in Nat
    BY <1>1 DEF WalkRecord
  <2> QED
    BY <2>1, <2>2, <2>3, WalkingAdvances
<1> QED
  BY <1>4, <1>5, <1>6, <1>7, <1>8 DEF WalkStep

WalkInv == StreamInv /\ Walking

(* At first no part is walked.                                             *)
LEMMA WalkInitInv == Init => WalkInv
<1> SUFFICES ASSUME Init  PROVE Walking
  BY StreamInitInv DEF WalkInv
<1>1. walk = NotWalked
  BY DEF Init, WalkInit
<1>2. walk \in WalkRecord
  BY <1>1 DEF NotWalked, WalkRecord
<1>3. Len(<< >>) = 0 /\ DOMAIN << >> = {}
  OBVIOUS
<1> QED
  BY <1>1, <1>2, <1>3 DEF NotWalked, Walking

(* The parser is given a message that was opened to its end, so what it    *)
(* walks is what was sent.                                                 *)
LEMMA ParseBlobKeepsWalking ==
  ASSUME WalkInv, OpenedIsWhole, ParseBlob
  PROVE  Walking'
<1>1. opener.out = text /\ text \in Seq(Part) /\ UNCHANGED text
  BY DEF ParseBlob, OpenedIsWhole, WalkInv, StreamInv, streamVars, sealVars
<1> DEFINE pc == IF text = << >> THEN "failed" ELSE "walking"
<1>2. walk' = [pc |-> pc, raw |-> text, at |-> 0, parts |-> 0, Text |-> << >>,
               HTML |-> << >>, shown |-> {}, Attachments |-> << >>, Warnings |-> {}]
  BY <1>1 DEF ParseBlob, Parse, NotWalked
<1>3. pc \in {"failed", "walking"}
  OBVIOUS
<1> HIDE DEF pc
<1>4. walk' \in WalkRecord'
  BY <1>1, <1>2, <1>3 DEF WalkRecord
<1> QED
  BY <1>1, <1>2, <1>3, <1>4 DEF Walking

(* The invariant of the walk is inductive, given that what a reader takes  *)
(* for the message is the message.                                         *)
LEMMA WalkNextInv == WalkInv /\ OpenedIsWhole /\ [Next]_vars => WalkInv'
<1> SUFFICES ASSUME WalkInv, OpenedIsWhole, [Next]_vars  PROVE Walking'
  BY StreamNextInv DEF WalkInv
<1> USE DEF WalkInv
<1>1. CASE ParseBlob
  BY <1>1, ParseBlobKeepsWalking
<1>2. CASE WalkStep /\ UNCHANGED <<streamVars, answer, proxy>>
  BY <1>2, WalkStepKeepsWalking DEF streamVars, sealVars
<1>3. CASE UNCHANGED walk
  <2>1. UNCHANGED text
    BY <1>3 DEF Next, vars, ParseBlob, GetMessage, ShowImages, streamVars, sealVars, StreamStep,
                StoreStep, ReadChunk, SealFrame, WriteFrame, ReadFails, Report, ClosePipe,
                PutSucceeds, PutFails, Damage, OpenHeader, OpenFrame
  <2> QED  BY <1>3, <2>1, WalkingUntouched
<1> QED
  BY <1>1, <1>2, <1>3 DEF Next, vars, GetMessage, ShowImages

(* From the session that acknowledged a message to the parsed message a    *)
(* client reads, no part is lost in silence and no file is cut.            *)
THEOREM NoPartIsLost == Spec => []PartsAccounted
<1>1. WalkInv => PartsAccounted
  <2> SUFFICES ASSUME WalkInv, walk.pc = "parsed"
               PROVE  /\ 1..walk.at = walk.shown \cup walk.Warnings
                      /\ walk.at < Len(text) => walk.at \in walk.Warnings
                      /\ \A k \in DOMAIN walk.Attachments : KeptWhole(walk.Attachments[k])
    BY DEF PartsAccounted, KeptWhole
  <2> QED
    BY DEF WalkInv, Walking
<1> QED
  BY <1>1, WalkInitInv, WalkNextInv, ReadersGetTheMessage, PTL DEF Spec

-----------------------------------------------------------------------------
(* The address of a socket is the one that was looked at.                  *)
Dialing ==
  /\ proxy \in [pc : {"idle", "resolve", "control", "connect", "answer", "served", "failed"},
               asked : Nat, address : SUBSET Addresses, left : SUBSET Addresses,
               dialed : SUBSET Public]
  /\ proxy.pc = "connect" => proxy.address \subseteq Public

(* The proxy reaches its connect only through the control that saw the     *)
(* address.                                                                *)
LEMMA ProxyStepKeepsDialing ==
  ASSUME Dialing, ProxyStep \/ \E scheme \in Schemes : ProxyImage(scheme)
  PROVE  Dialing'
<1> USE DEF Dialing
<1>0. ASSUME NEW S \in SUBSET Addresses, TryOne(S)  PROVE Dialing'
  <2>1. CASE proxy' = [proxy EXCEPT !.pc = "failed"]
    BY <2>1
  <2>2. ASSUME NEW a \in S,
               proxy' = [proxy EXCEPT !.pc = "control", !.address = {a}, !.left = S \ {a}]
        PROVE  Dialing'
    <3>1. {a} \in SUBSET Addresses /\ S \ {a} \in SUBSET Addresses
      OBVIOUS
    <3> QED  BY <2>2, <3>1
  <2> QED  BY <1>0, <2>1, <2>2 DEF TryOne
<1>1. CASE ProxyStep
  <2>1. CASE Resolve
    BY <1>0, <2>1 DEF Resolve
  <2>2. CASE ControlContext \/ Unreachable
    <3>1. CASE proxy' = [proxy EXCEPT !.pc = "connect"] /\ proxy.address \subseteq Public
      BY <3>1
    <3>2. CASE TryOne(proxy.left)
      BY <1>0, <3>2
    <3> QED  BY <2>2, <3>1, <3>2 DEF ControlContext, Unreachable
  <2>3. CASE Connect
    <3>1. proxy.dialed \cup proxy.address \in SUBSET Public
      BY <2>3 DEF Connect
    <3>2. proxy' = [pc |-> "answer", asked |-> proxy.asked, address |-> proxy.address,
                    left |-> proxy.left, dialed |-> proxy.dialed \cup proxy.address]
      BY <2>3 DEF Connect
    <3> QED  BY <3>1, <3>2
  <2>4. CASE \E scheme \in Schemes : Redirect(scheme)
    <3>1. \/ proxy' = [proxy EXCEPT !.pc = "resolve", !.asked = proxy.asked + 1]
          \/ proxy' = [proxy EXCEPT !.pc = "failed"]
      BY <2>4 DEF Redirect
    <3>2. proxy.asked + 1 \in Nat
      OBVIOUS
    <3>3. CASE proxy' = [proxy EXCEPT !.pc = "resolve", !.asked = proxy.asked + 1]
      <4>1. proxy' = [pc |-> "resolve", asked |-> proxy.asked + 1, address |-> proxy.address,
                      left |-> proxy.left, dialed |-> proxy.dialed]
        BY <3>3
      <4> QED  BY <3>2, <4>1
    <3>4. CASE proxy' = [proxy EXCEPT !.pc = "failed"]
      BY <3>4
    <3> QED  BY <3>1, <3>3, <3>4
  <2>5. CASE Served \/ Refused \/ Timeout
    BY <2>5 DEF Served, Refused, Timeout
  <2> QED
    BY <1>1, <2>1, <2>2, <2>3, <2>4, <2>5 DEF ProxyStep
<1>2. CASE \E scheme \in Schemes : ProxyImage(scheme)
  <2>1. PICK pc \in {"resolve", "failed"} :
          proxy' = [pc |-> pc, asked |-> 1, address |-> proxy.address, left |-> proxy.left,
                    dialed |-> proxy.dialed]
    BY <1>2 DEF ProxyImage
  <2> QED  BY <2>1
<1> QED
  BY <1>1, <1>2

(* The invariant of the proxy holds in every reachable state.              *)
LEMMA DialingAlways == Spec => []Dialing
<1>1. Init => Dialing
  BY DEF Init, ProxyInit, Dialing
<1>2. Dialing /\ [Next]_vars => Dialing'
  <2> SUFFICES ASSUME Dialing, [Next]_vars  PROVE Dialing'
    OBVIOUS
  <2>1. CASE UNCHANGED proxy
    BY <2>1 DEF Dialing
  <2>2. CASE ShowImages \/ ProxyStep
    BY <2>2, ProxyStepKeepsDialing DEF ShowImages
  <2> QED
    BY <2>1, <2>2 DEF Next, vars, ParseBlob, GetMessage
<1> QED
  BY <1>1, <1>2, PTL DEF Spec

(* The proxy never connects to an address it has not found public, however *)
(* names change their meaning and wherever images redirect.                *)
THEOREM ProxyDialsPublic == Spec => []DialsWhatItChecked
<1>1. Dialing => DialsWhatItChecked
  BY DEF Dialing, DialsWhatItChecked
<1> QED
  BY <1>1, DialingAlways, PTL

-----------------------------------------------------------------------------
(* The limits: the walk counts no part beyond the one that ends it, warns   *)
(* only of parts it has reached, and the proxy follows no redirect beyond   *)
(* its limit.                                                               *)
Counts ==
  /\ faults \in 0..MaxFaults /\ damage \in 0..MaxDamage
  /\ walk.parts <= MaxParts + 1
  /\ walk.pc = "walking" => walk.parts <= MaxParts
  /\ walk.shown \subseteq 1..walk.at /\ walk.Warnings \subseteq 1..walk.at
  /\ proxy.asked <= MaxRedirects

(* At first every count is zero.                                           *)
LEMMA InitCounts == Init => Counts
BY StreamAssumption, WalkAssumption, ProxyAssumption
   DEF Init, StreamInit, WalkInit, ProxyInit, NotWalked, Counts

(* A part that is read or warned about is the next one.                     *)
LEMMA WalkCounts ==
  ASSUME WalkInv, Counts, WalkStep
  PROVE  /\ walk'.parts <= MaxParts + 1
         /\ walk'.pc = "walking" => walk'.parts <= MaxParts
         /\ walk'.shown \subseteq 1..walk'.at /\ walk'.Warnings \subseteq 1..walk'.at
<1>0. /\ walk \in WalkRecord /\ walk.at \in Nat /\ walk.parts \in Nat /\ MaxParts \in Nat
      /\ walk.parts <= MaxParts + 1 /\ Here = walk.at + 1
      /\ walk.shown \subseteq 1..walk.at /\ walk.Warnings \subseteq 1..walk.at
      /\ walk.pc = "walking" => walk.parts <= MaxParts
  BY WalkAssumption DEF WalkInv, Walking, WalkRecord, Counts, Here
<1>1. 1..Here = (1..walk.at) \cup {Here}
  BY <1>0
<1>2. CASE EndOfParts
  BY <1>0, <1>2 DEF EndOfParts, WalkRecord
<1>3. CASE Undecodable \/ Unreadable
  <2>1. /\ walk'.parts = walk.parts /\ walk'.at = Here /\ walk'.shown = walk.shown
        /\ walk'.Warnings = walk.Warnings \cup {Here} /\ walk.pc = "walking"
    BY <1>0, <1>3 DEF Undecodable, Unreadable, Yields, WalkRecord
  <2> QED  BY <1>0, <1>1, <2>1
<1>4. CASE TooManyParts
  <2>1. /\ walk'.parts = walk.parts + 1 /\ walk'.at = Here /\ walk'.shown = walk.shown
        /\ walk'.Warnings = walk.Warnings \cup {Here} /\ walk'.pc = "parsed"
        /\ walk.parts = MaxParts
    BY <1>0, <1>4 DEF TooManyParts, WalkRecord
  <2> QED  BY <1>0, <1>1, <2>1
<1>5. CASE ReadText \/ ReadHTML \/ BodyUnreadable \/ ReadFile \/ ReadInline \/ FileUnreadable
  <2>1. walk.parts < MaxParts
    BY <1>5 DEF ReadText, ReadHTML, BodyUnreadable, ReadFile, ReadInline, FileUnreadable, ReadPart
  <2>2. /\ walk'.parts = walk.parts + 1 /\ walk'.at = Here
        /\ walk'.shown \subseteq walk.shown \cup {Here}
        /\ walk'.Warnings \subseteq walk.Warnings \cup {Here}
    <3>1. CASE ReadText
      BY <1>0, <3>1 DEF ReadText, Counted, WalkRecord
    <3>2. CASE ReadHTML
      BY <1>0, <3>2 DEF ReadHTML, Counted, WalkRecord
    <3>3. CASE BodyUnreadable \/ FileUnreadable
      BY <1>0, <3>3 DEF BodyUnreadable, FileUnreadable, Counted, WalkRecord
    <3>4. CASE ReadFile
      BY <1>0, <3>4 DEF ReadFile, AttachmentOf, Counted, WalkRecord
    <3>5. CASE ReadInline
      BY <1>0, <3>5 DEF ReadInline, AttachmentOf, Counted, WalkRecord
    <3> QED  BY <1>5, <3>1, <3>2, <3>3, <3>4, <3>5
  <2> QED  BY <1>0, <1>1, <2>1, <2>2
<1> QED
  BY <1>2, <1>3, <1>4, <1>5 DEF WalkStep

(* Every count stays within its limit.                                     *)
LEMMA StepCounts == WalkInv /\ Dialing /\ Counts /\ [Next]_vars => Counts'
<1> SUFFICES ASSUME WalkInv, Dialing, Counts, [Next]_vars  PROVE Counts'
  OBVIOUS
<1>1. faults' \in 0..MaxFaults /\ damage' \in 0..MaxDamage
  <2>0. faults \in 0..MaxFaults /\ damage \in 0..MaxDamage /\ MaxFaults \in Nat /\ MaxDamage \in Nat
    BY StreamAssumption DEF Counts
  <2>1. CASE UNCHANGED <<faults, damage>>
    BY <2>0, <2>1
  <2>2. CASE Damage
    BY <2>0, <2>2 DEF Damage, sealVars
  <2>3. CASE (ReadFails \/ PutFails) /\ UNCHANGED damage
    BY <2>0, <2>3 DEF ReadFails, PutFails, Fails
  <2> QED
    BY <2>1, <2>2, <2>3 DEF Next, vars, ParseBlob, GetMessage, ShowImages, streamVars, sealVars,
       StreamStep, StoreStep, ReadChunk, SealFrame, WriteFrame, Report, ClosePipe,
       PutSucceeds, OpenHeader, OpenFrame
<1>2. /\ walk'.parts <= MaxParts + 1
      /\ walk'.pc = "walking" => walk'.parts <= MaxParts
      /\ walk'.shown \subseteq 1..walk'.at /\ walk'.Warnings \subseteq 1..walk'.at
  <2>1. CASE UNCHANGED walk
    BY <2>1 DEF Counts
  <2>2. CASE ParseBlob
    <3>1. walk'.parts = 0 /\ walk'.shown = {} /\ walk'.Warnings = {}
      BY <2>2 DEF ParseBlob, Parse, NotWalked
    <3> QED  BY <3>1, WalkAssumption
  <2> QED
    BY <2>1, <2>2, WalkCounts DEF Next, vars, GetMessage, ShowImages
<1>3. proxy'.asked <= MaxRedirects
  <2>0. proxy.asked \in Nat /\ proxy.asked <= MaxRedirects /\ MaxRedirects \in Nat \ {0}
    BY ProxyAssumption DEF Dialing, Counts
  <2>1. CASE UNCHANGED proxy
    BY <2>0, <2>1
  <2>2. CASE ShowImages
    BY <2>0, <2>2 DEF ShowImages, ProxyImage, Dialing
  <2>3. ASSUME NEW scheme \in Schemes, Redirect(scheme) PROVE proxy'.asked <= MaxRedirects
    BY <2>0, <2>3 DEF Redirect, Dialing
  <2>4. CASE Connect \/ Served \/ Refused \/ Timeout
    BY <2>0, <2>4 DEF Connect, Served, Refused, Timeout, Dialing
  <2>5. CASE Resolve \/ ControlContext \/ Unreachable
    <3>1. proxy'.asked = proxy.asked
      BY <2>5 DEF Resolve, ControlContext, Unreachable, TryOne, Dialing
    <3> QED  BY <2>0, <3>1
  <2> QED
    BY <2>1, <2>2, <2>3, <2>4, <2>5 DEF Next, vars, ParseBlob, GetMessage, ProxyStep
<1> QED
  BY <1>1, <1>2, <1>3 DEF Counts

(***************************************************************************)
(* The stream, the walk and the proxy keep the form of what they handle,   *)
(* and their limits.                                                       *)
(***************************************************************************)
THEOREM ContentsTyped == Spec => []TypeOK
<1>1. WalkInv /\ Dialing /\ Counts => TypeOK
  <2> SUFFICES ASSUME WalkInv, Dialing, Counts  PROVE TypeOK
    OBVIOUS
  <2>1. StreamTypeOK
    <3>1. file.header \in Header /\ file.frames \in Seq(Genuine)
      BY DEF WalkInv, StreamInv, Storing
    <3>2. Genuine \subseteq Frame
      BY DEF Genuine
    <3>3. file.frames \in Seq(Frame)
      BY <3>1, <3>2
    <3>4. [pc |-> opener.pc, at |-> opener.at, counter |-> opener.counter] \in OpenerState
      BY DEF WalkInv, StreamInv, Opening, OpenerState
    <3> QED
      BY <3>1, <3>3, <3>4
         DEF StreamTypeOK, WalkInv, StreamInv, Sealing, FramesInOrder, Storing, Counts
  <2>2. WalkTypeOK
    <3>1. walk \in WalkRecord /\ walk.at \in Nat /\ walk.parts \in Nat /\ walk.at <= Len(walk.raw)
          /\ Len(walk.raw) \in Nat /\ MaxParts \in Nat
      BY WalkAssumption DEF WalkInv, Walking, WalkRecord
    <3>2. walk.Attachments \in Seq(Stored)
      BY <3>1 DEF WalkRecord
    <3>3. \A k \in DOMAIN walk.Attachments : walk.Attachments[k] \in Stored
      BY <3>2
    <3> QED  BY <3>1, <3>3 DEF WalkTypeOK, Counts, WalkRecord
  <2>3. ProxyTypeOK
    BY ProxyAssumption DEF ProxyTypeOK, Dialing, Counts
  <2> QED  BY <2>1, <2>2, <2>3 DEF TypeOK
<1>2. Spec => []WalkInv
  BY WalkInitInv, WalkNextInv, ReadersGetTheMessage, PTL DEF Spec
<1> QED
  BY <1>1, <1>2, DialingAlways, InitCounts, StepCounts, PTL DEF Spec

-----------------------------------------------------------------------------
(* Codes and links.  What lists a set in order is found without counting   *)
(* up the list: how many members stand before each one tells its place, no *)
(* two members share a place, and there are as many places as members.     *)

StrictOrder(S, R) ==
  /\ \A p, q, r \in S : <<p, q>> \in R /\ <<q, r>> \in R => <<p, r>> \in R
  /\ \A p \in S : <<p, p>> \notin R
  /\ \A p, q \in S : p = q \/ <<p, q>> \in R \/ <<q, p>> \in R

(* A finite set in an order is listed from first to last, each member once. *)
LEMMA InOrderLists ==
  ASSUME NEW S, IsFiniteSet(S), NEW R, StrictOrder(S, R)
  PROVE  /\ Cardinality(S) \in Nat
         /\ InOrder(S, R) \in [1..Cardinality(S) -> S]
         /\ \A p \in S : \E k \in 1..Cardinality(S) : InOrder(S, R)[k] = p
         /\ \A k, l \in 1..Cardinality(S) :
              k < l <=> <<InOrder(S, R)[k], InOrder(S, R)[l]>> \in R
<1> DEFINE n == Cardinality(S)
           Ahead(p) == {q \in S : <<q, p>> \in R}
           rank == [p \in S |-> Cardinality(Ahead(p)) + 1]
<1>1. n \in Nat
  BY FS_CardinalityType
<1>2. ASSUME NEW p \in S PROVE /\ IsFiniteSet(Ahead(p)) /\ Cardinality(Ahead(p)) \in Nat
                               /\ rank[p] \in 1..n
  <2>1. Ahead(p) \in SUBSET (S \ {p})
    BY DEF StrictOrder
  <2>2. IsFiniteSet(S \ {p}) /\ Cardinality(S \ {p}) = n - 1
    BY FS_RemoveElement
  <2>3. IsFiniteSet(Ahead(p)) /\ Cardinality(Ahead(p)) <= n - 1
    <3> HIDE DEF Ahead, n
    <3>1. IsFiniteSet(Ahead(p)) /\ Cardinality(Ahead(p)) <= Cardinality(S \ {p})
      BY <2>1, <2>2, FS_Subset
    <3> QED
      BY <2>2, <3>1
  <2>4. Cardinality(Ahead(p)) \in Nat
    BY <2>3, FS_CardinalityType
  <2>5. rank[p] = Cardinality(Ahead(p)) + 1
    OBVIOUS
  <2> HIDE DEF Ahead, rank, n
  <2> QED
    BY <1>1, <2>3, <2>4, <2>5
<1>3. ASSUME NEW p \in S, NEW q \in S, <<p, q>> \in R PROVE rank[p] < rank[q]
  <2>1. Ahead(p) \cup {p} \in SUBSET Ahead(q) /\ p \notin Ahead(p)
    BY <1>3 DEF StrictOrder
  <2>2. Cardinality(Ahead(p) \cup {p}) = Cardinality(Ahead(p)) + 1
    BY <1>2, <2>1, FS_AddElement
  <2>3. Cardinality(Ahead(p) \cup {p}) <= Cardinality(Ahead(q))
    BY <1>2, <2>1, FS_Subset
  <2>4. rank[p] = Cardinality(Ahead(p)) + 1 /\ rank[q] = Cardinality(Ahead(q)) + 1
    OBVIOUS
  <2>5. Cardinality(Ahead(p)) \in Nat /\ Cardinality(Ahead(q)) \in Nat
    BY <1>2
  <2> HIDE DEF Ahead, rank
  <2> QED
    BY <2>2, <2>3, <2>4, <2>5
<1>4. rank \in [S -> 1..n]
  BY <1>2
<1>5. InOrder(S, R) = [k \in 1..n |-> CHOOSE p \in S : rank[p] = k]
  <2>1. ASSUME NEW k \in 1..n, NEW p \in S
        PROVE  Cardinality({q \in S : <<q, p>> \in R}) = k - 1 <=> rank[p] = k
    <3>1. rank[p] = Cardinality({q \in S : <<q, p>> \in R}) + 1
      OBVIOUS
    <3>2. Cardinality({q \in S : <<q, p>> \in R}) \in Nat
      BY <1>2
    <3> DEFINE c == Cardinality({q \in S : <<q, p>> \in R})
    <3> HIDE DEF rank, n, c
    <3>3. k \in Nat /\ c \in Nat /\ rank[p] = c + 1
      BY <1>1, <3>1, <3>2 DEF c
    <3>4. c = k - 1 <=> rank[p] = k
      BY <3>3
    <3> QED
      BY <3>4 DEF c
  <2> HIDE DEF rank
  <2>2. ASSUME NEW k \in 1..n
        PROVE  (CHOOSE p \in S : Cardinality({q \in S : <<q, p>> \in R}) = k - 1)
                 = (CHOOSE p \in S : rank[p] = k)
    BY <2>1
  <2>3. InOrder(S, R) = [k \in 1..n |->
          CHOOSE p \in S : Cardinality({q \in S : <<q, p>> \in R}) = k - 1]
    BY DEF InOrder
  <2> HIDE DEF n
  <2> QED
    BY <2>2, <2>3, Zenon
<1> HIDE DEF rank, n
<1>6. \A p, q \in S : rank[p] = rank[q] => p = q
  <2>1. \A p, q \in S : <<p, q>> \in R => rank[p] # rank[q]
    <3>1. \A p \in S : rank[p] \in Nat
      BY <1>1, <1>4
    <3> QED
      BY <1>3, <3>1
  <2> QED
    BY <2>1 DEF StrictOrder
<1>7. rank \in Injection(S, 1..n)
  BY <1>4, <1>6 DEF Injection, IsInjective
<1>8. IsFiniteSet(1..n) /\ Cardinality(1..n) = n
  BY <1>1, FS_Interval
<1>9. rank \in Surjection(S, 1..n)
  BY <1>7, <1>8, FS_Injection DEF n
<1>10. \A k \in 1..n : \E p \in S : rank[p] = k
  BY <1>9 DEF Surjection
<1> DEFINE s == InOrder(S, R)
<1>11. \A k \in 1..n : s[k] \in S /\ rank[s[k]] = k
  BY <1>5, <1>10
<1>12. s \in [1..n -> S]
  BY <1>5, <1>11
<1>13. \A p \in S : rank[p] \in 1..n /\ s[rank[p]] = p
  BY <1>4, <1>6, <1>11
<1> HIDE DEF s
<1>14. ASSUME NEW k \in 1..n, NEW l \in 1..n
       PROVE  k < l <=> <<s[k], s[l]>> \in R
  <2>1. /\ s[k] \in S /\ s[l] \in S /\ rank[s[k]] = k /\ rank[s[l]] = l
        /\ k \in Nat /\ l \in Nat
    BY <1>1, <1>11
  <2>2. <<s[k], s[l]>> \in R => k < l
    BY <1>3, <2>1
  <2>3. <<s[l], s[k]>> \in R => l < k
    BY <1>3, <2>1
  <2>4. s[k] = s[l] => k = l
    BY <2>1
  <2> QED
    BY <2>1, <2>2, <2>3, <2>4 DEF StrictOrder
<1> QED
  BY <1>1, <1>12, <1>13, <1>14 DEF s, n

(* Positions of a sequence, picked, give a sequence of what stands there.  *)
LEMMA PickedLists ==
  ASSUME NEW V, NEW s \in Seq(V), NEW J \in SUBSET DOMAIN s
  PROVE  /\ Picked(s, J) \in Seq(V)
         /\ \A j \in J : \E k \in DOMAIN Picked(s, J) : Picked(s, J)[k] = s[j]
         /\ \A k \in DOMAIN Picked(s, J) : \E j \in J : Picked(s, J)[k] = s[j]
<1> DEFINE R == {jk \in J \X J : jk[1] < jk[2]}
           n == Cardinality(J)
           order == InOrder(J, R)
<1>1. J \subseteq 1..Len(s) /\ Len(s) \in Nat
  OBVIOUS
<1>2. IsFiniteSet(J)
  <2>1. IsFiniteSet(1..Len(s))
    BY <1>1, FS_Interval
  <2> QED
    BY <1>1, <2>1, FS_Subset
<1>3. StrictOrder(J, R)
  BY <1>1 DEF StrictOrder
<1> HIDE DEF R
<1>4. n \in Nat /\ order \in [1..n -> J] /\ \A j \in J : \E k \in 1..n : order[k] = j
  BY <1>2, <1>3, InOrderLists
<1>5. Picked(s, J) = [k \in 1..n |-> s[order[k]]]
  <2>1. DOMAIN order = 1..n
    BY <1>4
  <2>2. Picked(s, J) = [k \in DOMAIN order |-> s[order[k]]]
    BY DEF Picked, R
  <2> QED
    BY <2>1, <2>2
<1> HIDE DEF order, n
<1>6. \A k \in 1..n : order[k] \in J /\ s[order[k]] \in V
  BY <1>1, <1>4
<1>7. /\ Picked(s, J) \in Seq(V) /\ DOMAIN Picked(s, J) = 1..n
      /\ \A k \in 1..n : Picked(s, J)[k] = s[order[k]]
  BY <1>4, <1>5, <1>6
<1>8. ASSUME NEW j \in J  PROVE \E k \in DOMAIN Picked(s, J) : Picked(s, J)[k] = s[j]
  <2>1. PICK k \in 1..n : order[k] = j
    BY <1>4
  <2> QED
    BY <1>7, <2>1
<1>9. ASSUME NEW k \in DOMAIN Picked(s, J)  PROVE \E j \in J : Picked(s, J)[k] = s[j]
  <2>1. k \in 1..n
    BY <1>7
  <2> QED
    BY <1>6, <1>7, <2>1
<1> QED
  BY <1>7, <1>8, <1>9

(* A body has finitely many places, told by two numbers each.              *)
LEMMA PlacesAreFinite ==
  ASSUME NEW V, NEW lines \in Seq(Seq(V))
  PROVE  /\ IsFiniteSet(Places(lines)) /\ Places(lines) \subseteq Nat \X Nat
         /\ \A p \in Places(lines) : /\ p[1] \in DOMAIN lines /\ p[2] \in DOMAIN lines[p[1]]
                                     /\ lines[p[1]] \in Seq(V) /\ At(lines, p) \in V
<1> DEFINE Row(i) == {<<i, j>> : j \in DOMAIN lines[i]}
           rows == {Row(i) : i \in DOMAIN lines}
<1>1. DOMAIN lines = 1..Len(lines) /\ Len(lines) \in Nat
      /\ \A i \in DOMAIN lines : lines[i] \in Seq(V)
  OBVIOUS
<1>2. ASSUME NEW i \in DOMAIN lines  PROVE IsFiniteSet(Row(i))
  <2> DEFINE f == [j \in DOMAIN lines[i] |-> <<i, j>>]
  <2>1. DOMAIN lines[i] = 1..Len(lines[i]) /\ Len(lines[i]) \in Nat
    BY <1>1
  <2>2. IsFiniteSet(DOMAIN lines[i])
    BY <2>1, FS_Interval
  <2>3. f \in Surjection(DOMAIN lines[i], Row(i))
    BY DEF Surjection
  <2> QED
    BY <2>2, <2>3, FS_Surjection
<1>3. IsFiniteSet(rows)
  <2> DEFINE f == [i \in DOMAIN lines |-> Row(i)]
  <2>1. IsFiniteSet(DOMAIN lines)
    BY <1>1, FS_Interval
  <2>2. f \in Surjection(DOMAIN lines, rows)
    BY DEF Surjection
  <2> QED
    BY <2>1, <2>2, FS_Surjection
<1>4. IsFiniteSet(UNION rows)
  BY <1>2, <1>3, FS_UNION
<1>5. Places(lines) = UNION rows
  BY DEF Places
<1>6. ASSUME NEW p \in Places(lines)
      PROVE  /\ p \in Nat \X Nat /\ p[1] \in DOMAIN lines /\ p[2] \in DOMAIN lines[p[1]]
             /\ lines[p[1]] \in Seq(V) /\ At(lines, p) \in V
  <2>0. PICK i \in DOMAIN lines : \E j \in DOMAIN lines[i] : p = <<i, j>>
    BY DEF Places
  <2>1. PICK j \in DOMAIN lines[i] : p = <<i, j>>
    BY <2>0
  <2>2. lines[i] \in Seq(V) /\ lines[i][j] \in V /\ i \in Nat /\ j \in Nat
    BY <1>1, <2>1
  <2> QED
    BY <2>1, <2>2 DEF At
<1> QED
  BY <1>4, <1>5, <1>6

(* Reading runs through every place once.                                  *)
LEMMA ReadingIsOrder ==
  ASSUME NEW S, S \subseteq Nat \X Nat
  PROVE  /\ \A p, q, r \in S : Before(p, q) /\ Before(q, r) => Before(p, r)
         /\ \A p, q \in S : p = q \/ Before(p, q) \/ Before(q, p)
         /\ \A p \in S : ~Before(p, p)
<1>1. \A p \in S : p \in Nat \X Nat
  OBVIOUS
<1>2. \A p, q, r \in S : Before(p, q) /\ Before(q, r) => Before(p, r)
  BY <1>1 DEF Before
<1>3. ASSUME NEW p \in S, NEW q \in S  PROVE p = q \/ Before(p, q) \/ Before(q, p)
  <2>1. p \in Nat \X Nat /\ q \in Nat \X Nat
    BY <1>1
  <2>2. PICK i \in Nat, j \in Nat, k \in Nat, l \in Nat : p = <<i, j>> /\ q = <<k, l>>
    BY <2>1
  <2> QED
    BY <2>2 DEF Before
<1>4. \A p \in S : ~Before(p, p)
  BY <1>1 DEF Before
<1> QED
  BY <1>2, <1>3, <1>4

(* The words of a kind are words of the body.                              *)
LEMMA WordsListed ==
  ASSUME NEW V, NEW lines \in Seq(Seq(V)), NEW kind
  PROVE  WordsOfKind(lines, kind) \in Seq(V)
<1> DEFINE P == {p \in Places(lines) : At(lines, p).kind = kind}
           R == {pq \in P \X P : Before(pq[1], pq[2])}
<1>1. IsFiniteSet(P) /\ \A p \in P : p \in Nat \X Nat /\ At(lines, p) \in V
  <2>1. P \subseteq Places(lines)
    OBVIOUS
  <2> QED
    BY <2>1, PlacesAreFinite, FS_Subset
<1> HIDE DEF P
<1>2. StrictOrder(P, R)
  BY <1>1, ReadingIsOrder DEF StrictOrder
<1> HIDE DEF R
<1>3. Cardinality(P) \in Nat /\ InOrder(P, R) \in [1..Cardinality(P) -> P]
  BY <1>1, <1>2, InOrderLists
<1>4. InReadingOrder(P) = InOrder(P, R)
  BY DEF InReadingOrder, R
<1>5. WordsOfKind(lines, kind)
        = [k \in DOMAIN InReadingOrder(P) |-> At(lines, InReadingOrder(P)[k])]
  BY DEF WordsOfKind, P
<1> QED
  BY <1>1, <1>3, <1>4, <1>5

(* A beginning of a list.                                                  *)
LEMMA FirstOfLists ==
  ASSUME NEW V, NEW s \in Seq(V), NEW n \in Nat
  PROVE  /\ FirstOf(s, n) \in Seq(V)
         /\ Len(FirstOf(s, n)) = IF Len(s) < n THEN Len(s) ELSE n
         /\ \A k \in DOMAIN FirstOf(s, n) : k \in DOMAIN s /\ FirstOf(s, n)[k] = s[k]
<1> DEFINE m == IF Len(s) < n THEN Len(s) ELSE n
<1>1. m \in Nat /\ m <= Len(s) /\ \A i \in 1..m : s[i] \in V
  OBVIOUS
<1>2. FirstOf(s, n) = SubSeq(s, 1, m)
  BY DEF FirstOf
<1> HIDE DEF m
<1>3. /\ SubSeq(s, 1, m) \in Seq(V) /\ Len(SubSeq(s, 1, m)) = m
      /\ \A i \in 1..m : SubSeq(s, 1, m)[i] = s[i]
  BY <1>1, SubSeqProperties
<1>4. DOMAIN SubSeq(s, 1, m) = 1..m /\ 1..m \subseteq DOMAIN s
  BY <1>1, <1>3
<1> QED
  BY <1>2, <1>3, <1>4 DEF m

(* What a page shows of its words are words.                               *)
LEMMA ReadHTMLLists ==
  ASSUME NEW lines \in Seq(Seq(Word))
  PROVE  readHTML(lines) \in Seq(Seq({Visible(word) : word \in Word}))
<1> DEFINE Said(i) == Picked(lines[i], {j \in DOMAIN lines[i] : ~LinkSaying(lines[i][j], "nothing")})
           Row(i)  == [k \in DOMAIN Said(i) |-> Visible(Said(i)[k])]
<1>1. ASSUME NEW i \in DOMAIN lines  PROVE Row(i) \in Seq({Visible(word) : word \in Word})
  <2>1. lines[i] \in Seq(Word)
    OBVIOUS
  <2>2. Said(i) \in Seq(Word)
    BY <2>1, PickedLists
  <2> HIDE DEF Said
  <2>3. DOMAIN Said(i) = 1..Len(Said(i)) /\ Len(Said(i)) \in Nat
        /\ \A k \in DOMAIN Said(i) : Said(i)[k] \in Word
    BY <2>2
  <2> QED
    BY <2>3
<1>2. readHTML(lines) = [i \in DOMAIN lines |-> Row(i)]
  BY DEF readHTML
<1> HIDE DEF Row
<1>3. DOMAIN lines = 1..Len(lines) /\ Len(lines) \in Nat
  OBVIOUS
<1> QED
  BY <1>1, <1>2, <1>3

Shown == Word \cup {Visible(word) : word \in Word}

(* What is searched is a text, and so is what its links are read from.     *)
LEMMA SearchedIsText ==
  ASSUME NEW text0 \in Seq(Line), NEW html \in Seq(Line)
  PROVE  /\ clip(html) \in Seq(Seq(Shown)) /\ TextFor(text0, html) \in Seq(Seq(Shown))
         /\ <<Subject>> \o TextFor(text0, html) \in Seq(Seq(Shown))
<1>1. clip(html) \in Seq(Line) /\ clip(text0) \in Seq(Line)
  BY FirstOfLists, ExtractAssumption DEF clip
<1>2. readHTML(clip(html)) \in Seq(Seq({Visible(word) : word \in Word}))
  BY <1>1, ReadHTMLLists DEF Line
<1>3. /\ Line \subseteq Seq(Shown)
      /\ Seq({Visible(word) : word \in Word}) \subseteq Seq(Shown)
  BY DEF Line, Shown
<1>4. /\ clip(html) \in Seq(Seq(Shown)) /\ clip(text0) \in Seq(Seq(Shown))
      /\ readHTML(clip(html)) \in Seq(Seq(Shown))
  <2>1. ASSUME NEW A, NEW B, A \subseteq B  PROVE Seq(A) \subseteq Seq(B)
    BY <2>1
  <2>2. /\ Seq(Line) \subseteq Seq(Seq(Shown))
        /\ Seq(Seq({Visible(word) : word \in Word})) \subseteq Seq(Seq(Shown))
    BY <1>3, <2>1
  <2> QED
    BY <1>1, <1>2, <2>2
<1>5. TextFor(text0, html) \in Seq(Seq(Shown))
  BY <1>4 DEF TextFor
<1>6. <<Subject>> \in Seq(Seq(Shown))
  BY <1>3, ContentsAssumption
<1> QED
  BY <1>4, <1>5, <1>6, ConcatProperties

-----------------------------------------------------------------------------
(* Codes.                                                                  *)

(* Each mention of a code is a place of a word, and no other has its value. *)
LEMMA MentionsAreDistinct ==
  ASSUME NEW V, NEW lines \in Seq(Seq(V))
  PROVE  /\ IsFiniteSet(Mentions(lines)) /\ Mentions(lines) \subseteq Places(lines)
         /\ \A p, q \in Mentions(lines) : At(lines, p).value = At(lines, q).value => p = q
<1>1. IsFiniteSet(Places(lines)) /\ Places(lines) \subseteq Nat \X Nat
  BY PlacesAreFinite
<1>2. Mentions(lines) \subseteq Places(lines)
  BY DEF Mentions
<1>3. IsFiniteSet(Mentions(lines))
  BY <1>1, <1>2, FS_Subset
<1>4. ASSUME NEW p \in Mentions(lines), NEW q \in Mentions(lines), Before(p, q)
      PROVE  At(lines, p).value # At(lines, q).value
  BY <1>4 DEF Mentions
<1>5. \A p, q \in Places(lines) : p = q \/ Before(p, q) \/ Before(q, p)
  BY <1>1, ReadingIsOrder
<1>6. ASSUME NEW p \in Mentions(lines), NEW q \in Mentions(lines),
             At(lines, p).value = At(lines, q).value
      PROVE  p = q
  BY <1>2, <1>4, <1>5, <1>6
<1> QED
  BY <1>2, <1>3, <1>6

(* The best comes first, and what is better is listed before.              *)
LEMMA BestFirstLists ==
  ASSUME NEW V, NEW lines \in Seq(Seq(V)), NEW found, IsFiniteSet(found),
         found \subseteq Places(lines)
  PROVE  LET s == BestFirst(lines, found)
             n == Cardinality(found)
         IN  /\ n \in Nat /\ s \in [1..n -> found]
             /\ \A p \in found : \E k \in 1..n : s[k] = p
             /\ \A k, l \in 1..n : k < l => /\ Score(lines, s[l]) <= Score(lines, s[k])
                                            /\ s[k] # s[l]
<1> DEFINE R == {pq \in found \X found : Better(lines, pq[1], pq[2])}
           s == BestFirst(lines, found)
           n == Cardinality(found)
<1>1. found \subseteq Nat \X Nat
  BY PlacesAreFinite
<1>2. \A p \in found : Score(lines, p) \in Int
  BY DEF Score
<1>3. \A p, q \in found : <<p, q>> \in R <=>
        \/ Score(lines, p) > Score(lines, q)
        \/ (Score(lines, p) = Score(lines, q) /\ Before(p, q))
  BY DEF Better
<1>4. StrictOrder(found, R)
  <2>1. /\ \A p, q, r \in found : Before(p, q) /\ Before(q, r) => Before(p, r)
        /\ \A p, q \in found : p = q \/ Before(p, q) \/ Before(q, p)
        /\ \A p \in found : ~Before(p, p)
    BY <1>1, ReadingIsOrder
  <2> HIDE DEF R
  <2>2. ASSUME NEW p \in found, NEW q \in found, NEW r \in found,
               <<p, q>> \in R, <<q, r>> \in R
        PROVE  <<p, r>> \in R
    <3>1. Score(lines, p) \in Int /\ Score(lines, q) \in Int /\ Score(lines, r) \in Int
      BY <1>2
    <3>2. /\ Score(lines, p) > Score(lines, q)
             \/ (Score(lines, p) = Score(lines, q) /\ Before(p, q))
          /\ Score(lines, q) > Score(lines, r)
             \/ (Score(lines, q) = Score(lines, r) /\ Before(q, r))
      BY <1>3, <2>2
    <3>3. \/ Score(lines, p) > Score(lines, r)
          \/ (Score(lines, p) = Score(lines, r) /\ Before(p, q) /\ Before(q, r))
      BY <3>1, <3>2
    <3> QED
      BY <1>3, <2>1, <3>3
  <2>3. \A p \in found : <<p, p>> \notin R
    BY <1>2, <1>3, <2>1
  <2>4. ASSUME NEW p \in found, NEW q \in found
        PROVE  p = q \/ <<p, q>> \in R \/ <<q, p>> \in R
    <3>1. Score(lines, p) \in Int /\ Score(lines, q) \in Int
      BY <1>2
    <3> QED
      BY <1>3, <2>1, <3>1
  <2> QED
    BY <2>2, <2>3, <2>4 DEF StrictOrder
<1>5. s = InOrder(found, R)
  BY DEF BestFirst
<1> HIDE DEF R, s, n
<1>6. /\ n \in Nat /\ s \in [1..n -> found]
      /\ \A p \in found : \E k \in 1..n : s[k] = p
      /\ \A k, l \in 1..n : k < l <=> <<s[k], s[l]>> \in R
  BY <1>4, <1>5, InOrderLists DEF n
<1>7. ASSUME NEW k \in 1..n, NEW l \in 1..n, k < l
      PROVE  Score(lines, s[l]) <= Score(lines, s[k]) /\ s[k] # s[l]
  <2>1. s[k] \in found /\ s[l] \in found /\ <<s[k], s[l]>> \in R
    BY <1>6, <1>7
  <2>2. s[k] # s[l]
    BY <1>4, <2>1 DEF StrictOrder
  <2>3. Score(lines, s[k]) \in Int /\ Score(lines, s[l]) \in Int
    BY <1>2, <2>1
  <2>4. Score(lines, s[k]) > Score(lines, s[l]) \/ Score(lines, s[k]) = Score(lines, s[l])
    BY <1>3, <2>1
  <2> QED
    BY <2>2, <2>3, <2>4
<1> QED
  BY <1>6, <1>7 DEF s, n

(* A code that is stated outright scores more than any without a lead.     *)
LEMMA StatedScoresMore ==
  ASSUME NEW V, NEW lines \in Seq(Seq(V)), NEW p \in Places(lines)
  PROVE  /\ Score(lines, p) \in Int
         /\ StatedOutright(lines, p) => Score(lines, p) > 4
         /\ Score(lines, p) > 4 => strongLead(lines, p)
<1> DEFINE kw == IF keywords(lines[p[1]]) THEN 2 ELSE 1
           strong == IF strongLead(lines, p) THEN 3 ELSE 0
           digits == IF At(lines, p).value \in AllDigits THEN 1 ELSE 0
           six == IF At(lines, p).value \in SixLong THEN 1 ELSE 0
<1>1. Score(lines, p) = kw + strong + digits + six
  BY DEF Score
<1>2. /\ digits \in {0, 1} /\ six \in {0, 1} /\ kw \in {1, 2} /\ strong \in {0, 3}
      /\ StatedOutright(lines, p) => kw = 2 /\ strong = 3
      /\ ~strongLead(lines, p) => strong = 0
  BY DEF StatedOutright
<1> HIDE DEF kw, strong, digits, six
<1> QED
  BY <1>1, <1>2

\* CodesBestFirst, of any text and any list of codes.
TheBestOf(lines, codes) ==
  LET places == Mentions(lines)
      Of(k)  == CHOOSE p \in places : At(lines, p).value = codes[k]
      listed == {Of(k) : k \in DOMAIN codes}
  IN  /\ Cardinality(listed) = Len(codes)
      /\ \A k, l \in DOMAIN codes :
           k < l /\ StatedOutright(lines, Of(l)) => strongLead(lines, Of(k))
      /\ \A p \in places \ listed, q \in listed :
           Score(lines, p) <= Score(lines, q)

(* The codes of a text: what is listed of the mentions, and what is not.   *)
LEMMA BestCodes ==
  ASSUME NEW V, NEW lines \in Seq(Seq(V))
  PROVE  TheBestOf(lines, Codes(lines))
<1> DEFINE places == Mentions(lines)
           codes  == Codes(lines)
           Of(k)  == CHOOSE p \in places : At(lines, p).value = codes[k]
           listed == {Of(k) : k \in DOMAIN codes}
           s == BestFirst(lines, places)
           n == Cardinality(places)
           first == FirstOf(s, MaxCodes)
           m == Len(first)
<1>1. /\ IsFiniteSet(places) /\ places \subseteq Places(lines)
      /\ \A p, q \in places : At(lines, p).value = At(lines, q).value => p = q
  BY MentionsAreDistinct
<1>2. /\ n \in Nat /\ s \in [1..n -> places] /\ \A p \in places : \E k \in 1..n : s[k] = p
      /\ \A k, l \in 1..n : k < l => Score(lines, s[l]) <= Score(lines, s[k]) /\ s[k] # s[l]
  BY <1>1, BestFirstLists
<1>3. \A p \in places : /\ Score(lines, p) \in Int
                        /\ StatedOutright(lines, p) => Score(lines, p) > 4
                        /\ Score(lines, p) > 4 => strongLead(lines, p)
  BY <1>1, StatedScoresMore
<1> HIDE DEF s, n, places
<1>4. s \in Seq(places) /\ Len(s) = n
  BY <1>2
<1>5. /\ first \in Seq(places) /\ m = (IF n < MaxCodes THEN n ELSE MaxCodes)
      /\ \A k \in DOMAIN first : first[k] = s[k]
  BY <1>4, FirstOfLists, ExtractAssumption
<1>6. codes = ValuesAt(lines, first)
  BY DEF Codes, s, places
<1> HIDE DEF first, codes
<1>7. /\ m \in Nat /\ m <= n /\ DOMAIN first = 1..m
      /\ \A k \in 1..m : first[k] = s[k] /\ s[k] \in places /\ k \in 1..n
  <2>1. m \in Nat /\ DOMAIN first = 1..m
    BY <1>5
  <2>2. n \in Nat /\ MaxCodes \in Nat
    BY <1>2, ExtractAssumption
  <2> HIDE DEF m
  <2>3. m <= n
    BY <1>5, <2>1, <2>2
  <2>4. 1..m \subseteq 1..n
    BY <2>1, <2>2, <2>3
  <2> QED
    BY <1>2, <1>5, <2>1, <2>3, <2>4
<1> HIDE DEF m
<1>8. DOMAIN codes = 1..m /\ Len(codes) = m
      /\ \A k \in 1..m : codes[k] = At(lines, s[k]).value
  BY <1>6, <1>7 DEF ValuesAt
<1>9. \A k \in 1..m : Of(k) = s[k]
  BY <1>1, <1>7, <1>8
<1> HIDE DEF Of
<1>10. listed = {s[k] : k \in 1..m}
  BY <1>8, <1>9
<1> HIDE DEF listed
<1>11. Cardinality(listed) = m
  <2> DEFINE f == [k \in 1..m |-> s[k]]
  <2>1. \A k, l \in 1..m : f[k] = f[l] => k = l
    BY <1>2, <1>7
  <2>2. f \in [1..m -> listed] /\ \A p \in listed : \E k \in 1..m : f[k] = p
    BY <1>10
  <2> HIDE DEF f
  <2>3. f \in Surjection(1..m, listed) /\ f \in Injection(1..m, listed)
    BY <2>1, <2>2 DEF Surjection, Injection, IsInjective
  <2>4. IsFiniteSet(1..m) /\ Cardinality(1..m) = m
    BY <1>7, FS_Interval
  <2> QED
    BY <2>3, <2>4, FS_Surjection
<1>12. ASSUME NEW k \in 1..m, NEW l \in 1..m, k < l,
              StatedOutright(lines, Of(l))
       PROVE  strongLead(lines, Of(k))
  <2>1. Score(lines, s[l]) <= Score(lines, s[k]) /\ s[k] \in places /\ s[l] \in places
    BY <1>2, <1>7, <1>12
  <2>2. Score(lines, s[l]) \in Int /\ Score(lines, s[k]) \in Int /\ Score(lines, s[l]) > 4
    BY <1>3, <1>9, <1>12, <2>1
  <2> QED
    BY <1>3, <1>9, <2>1, <2>2
<1>13. ASSUME NEW p \in places \ listed, NEW q \in listed
       PROVE  Score(lines, p) <= Score(lines, q)
  <2>1. PICK k \in 1..n : p = s[k]
    BY <1>2
  <2>2. PICK l \in 1..m : q = s[l]
    BY <1>10
  <2>3. k \notin 1..m
    BY <1>10, <2>1
  <2>4. l < k /\ l \in 1..n
    BY <1>2, <1>7, <2>3
  <2> QED
    BY <1>2, <2>1, <2>2, <2>4
<1> QED
  BY <1>8, <1>11, <1>12, <1>13 DEF listed, Of, codes, places, TheBestOf

-----------------------------------------------------------------------------
(* Links.                                                                  *)

\* The links in the order in which they are listed.
Arranged(found) ==
  OfKind(found, "verify") \o OfKind(found, "other") \o OfKind(found, "unsubscribe")

(* The links of one kind are among those found, and have its rank.         *)
LEMMA KindsListed ==
  ASSUME NEW V, NEW found \in Seq(V), NEW kind \in {"verify", "other", "unsubscribe"}
  PROVE  /\ OfKind(found, kind) \in Seq(V)
         /\ \A k \in DOMAIN OfKind(found, kind) : classify(OfKind(found, kind)[k]) = kind
         /\ \A j \in DOMAIN found : classify(found[j]) = kind =>
              \E k \in DOMAIN OfKind(found, kind) : OfKind(found, kind)[k] = found[j]
<1> DEFINE J == {k \in DOMAIN found : classify(found[k]) = kind}
<1>1. OfKind(found, kind) = Picked(found, J)
  BY DEF OfKind
<1>2. J \in SUBSET DOMAIN found
  OBVIOUS
<1>3. \A j \in DOMAIN found : j \in J <=> classify(found[j]) = kind
  OBVIOUS
<1> HIDE DEF J
<1> QED
  BY <1>1, <1>2, <1>3, PickedLists

(* Every link that was found is listed, and the ranks of the list ascend.  *)
LEMMA ArrangedByRank ==
  ASSUME NEW V, NEW found \in Seq(V)
  PROVE  /\ Arranged(found) \in Seq(V)
         /\ \A j \in DOMAIN found : \E k \in DOMAIN Arranged(found) : Arranged(found)[k] = found[j]
         /\ \A k, l \in DOMAIN Arranged(found) :
              k < l => Rank(Arranged(found)[k]) <= Rank(Arranged(found)[l])
<1> DEFINE a == OfKind(found, "verify")
           b == OfKind(found, "other")
           c == OfKind(found, "unsubscribe")
           s == Arranged(found)
<1>1. /\ a \in Seq(V) /\ b \in Seq(V) /\ c \in Seq(V)
      /\ \A k \in DOMAIN a : classify(a[k]) = "verify"
      /\ \A k \in DOMAIN b : classify(b[k]) = "other"
      /\ \A k \in DOMAIN c : classify(c[k]) = "unsubscribe"
  BY KindsListed
<1>2. ASSUME NEW j \in DOMAIN found
      PROVE  \/ \E k \in DOMAIN a : a[k] = found[j]
             \/ \E k \in DOMAIN b : b[k] = found[j]
             \/ \E k \in DOMAIN c : c[k] = found[j]
  <2>1. classify(found[j]) \in {"verify", "other", "unsubscribe"}
    BY DEF classify
  <2> QED
    BY <2>1, KindsListed
<1>3. s = (a \o b) \o c
  BY DEF Arranged
<1> HIDE DEF a, b, c, s
<1>4. /\ Len(a) \in Nat /\ Len(b) \in Nat /\ Len(c) \in Nat
      /\ DOMAIN a = 1..Len(a) /\ DOMAIN b = 1..Len(b) /\ DOMAIN c = 1..Len(c)
  BY <1>1
<1>5. /\ a \o b \in Seq(V) /\ Len(a \o b) = Len(a) + Len(b)
      /\ \A i \in 1..(Len(a) + Len(b)) :
           (a \o b)[i] = IF i <= Len(a) THEN a[i] ELSE b[i - Len(a)]
  BY <1>1, ConcatProperties
<1>6. /\ s \in Seq(V) /\ Len(s) = Len(a) + Len(b) + Len(c)
      /\ \A i \in 1..(Len(a) + Len(b) + Len(c)) :
           s[i] = IF i <= Len(a) + Len(b) THEN (a \o b)[i] ELSE c[i - (Len(a) + Len(b))]
  BY <1>1, <1>3, <1>5, ConcatProperties
<1>7. DOMAIN s = 1..(Len(a) + Len(b) + Len(c))
  BY <1>6
<1>8. /\ \A k \in 1..Len(a) : k \in DOMAIN s /\ s[k] = a[k]
      /\ \A k \in 1..Len(b) : Len(a) + k \in DOMAIN s /\ s[Len(a) + k] = b[k]
      /\ \A k \in 1..Len(c) : Len(a) + Len(b) + k \in DOMAIN s /\ s[Len(a) + Len(b) + k] = c[k]
  <2>1. ASSUME NEW k \in 1..Len(a)  PROVE k \in DOMAIN s /\ s[k] = a[k]
    <3>1. k \in 1..(Len(a) + Len(b)) /\ k \in DOMAIN s /\ k <= Len(a)
      BY <1>4, <1>7
    <3> QED
      BY <1>4, <1>5, <1>6, <1>7, <3>1
  <2>2. ASSUME NEW k \in 1..Len(b)
        PROVE  Len(a) + k \in DOMAIN s /\ s[Len(a) + k] = b[k]
    <3>1. /\ Len(a) + k \in 1..(Len(a) + Len(b)) /\ Len(a) + k \in DOMAIN s
          /\ ~(Len(a) + k <= Len(a)) /\ (Len(a) + k) - Len(a) = k
      BY <1>4, <1>7
    <3>2. s[Len(a) + k] = (a \o b)[Len(a) + k]
      BY <1>4, <1>6, <1>7, <3>1
    <3> QED
      BY <1>5, <3>1, <3>2
  <2>3. ASSUME NEW k \in 1..Len(c)
        PROVE  Len(a) + Len(b) + k \in DOMAIN s /\ s[Len(a) + Len(b) + k] = c[k]
    <3>1. /\ Len(a) + Len(b) + k \in DOMAIN s /\ ~(Len(a) + Len(b) + k <= Len(a) + Len(b))
          /\ (Len(a) + Len(b) + k) - (Len(a) + Len(b)) = k
      BY <1>4, <1>7
    <3> QED
      BY <1>6, <1>7, <3>1
  <2> QED
    BY <2>1, <2>2, <2>3
<1>9. ASSUME NEW j \in DOMAIN found  PROVE \E k \in DOMAIN s : s[k] = found[j]
  BY <1>2, <1>4, <1>8
<1>10. ASSUME NEW k \in DOMAIN s
       PROVE  Rank(s[k]) = (IF k <= Len(a) THEN 0 ELSE IF k <= Len(a) + Len(b) THEN 1 ELSE 2)
  <2>1. CASE k \in 1..Len(a)
    <3>1. s[k] = a[k] /\ classify(a[k]) = "verify"
      BY <1>1, <1>4, <1>8, <2>1
    <3> QED
      BY <2>1, <3>1 DEF Rank
  <2>2. CASE k - Len(a) \in 1..Len(b)
    <3>1. s[k] = b[k - Len(a)] /\ classify(b[k - Len(a)]) = "other"
      BY <1>1, <1>4, <1>7, <1>8, <2>2
    <3>2. Rank(s[k]) = 1
      BY <3>1 DEF Rank
    <3> QED
      BY <1>4, <1>7, <2>2, <3>2
  <2>3. CASE k - (Len(a) + Len(b)) \in 1..Len(c)
    <3>1. s[k] = c[k - (Len(a) + Len(b))] /\ classify(c[k - (Len(a) + Len(b))]) = "unsubscribe"
      BY <1>1, <1>4, <1>7, <1>8, <2>3
    <3>2. Rank(s[k]) = 2
      BY <3>1 DEF Rank
    <3> QED
      BY <1>4, <1>7, <2>3, <3>2
  <2> QED
    BY <1>4, <1>7, <2>1, <2>2, <2>3
<1>11. ASSUME NEW k \in DOMAIN s, NEW l \in DOMAIN s, k < l  PROVE Rank(s[k]) <= Rank(s[l])
  BY <1>4, <1>7, <1>10, <1>11
<1> QED
  BY <1>6, <1>9, <1>11 DEF s

(* The links of a text: what is listed of what was found, and what is not. *)
LEMMA FollowedFirst ==
  ASSUME NEW V, NEW html \in Seq(Seq(V)), NEW lines \in Seq(Seq(V))
  PROVE  LET shown  == FirstOfTheirUrl(AllLinks(html, lines))
             those  == links(html, lines)
             listed == ToSet(those)
         IN  /\ listed \subseteq shown
             /\ \A k, l \in DOMAIN those : k < l => Rank(those[k]) <= Rank(those[l])
             /\ \A one \in shown \ listed, other \in listed :
                  UrlSays(one.url) = "unusable" \/ Rank(other) <= Rank(one)
<1> DEFINE bare == WordsOfKind(lines, "url")
           W == V \cup {Anchor(word.url, "nothing") : word \in V}
           all == AllLinks(html, lines)
           shown == FirstOfTheirUrl(all)
           found == DistinctLinks(all)
           s == Arranged(found)
           those == links(html, lines)
<1>1. WordsOfKind(html, "anchor") \in Seq(V) /\ bare \in Seq(V)
  BY WordsListed
<1>2. [k \in DOMAIN bare |-> Anchor(bare[k].url, "nothing")] \in Seq(W)
  <2>1. /\ DOMAIN bare = 1..Len(bare) /\ Len(bare) \in Nat
        /\ \A k \in DOMAIN bare : bare[k] \in V
    BY <1>1
  <2>2. \A k \in DOMAIN bare : Anchor(bare[k].url, "nothing") \in W
    BY <2>1
  <2> HIDE DEF W, bare
  <2> QED
    BY <2>1, <2>2
<1>3. WordsOfKind(html, "anchor") \in Seq(W)
  BY <1>1
<1>4. all \in Seq(W)
  BY <1>2, <1>3, ConcatProperties DEF AllLinks
<1> HIDE DEF W, all
<1>5. /\ found \in Seq(shown)
      /\ \A one \in shown :
           UrlSays(one.url) # "unusable" => \E j \in DOMAIN found : found[j] = one
  <2> DEFINE J == {k \in DOMAIN all : /\ UrlSays(all[k].url) # "unusable"
                                     /\ \A j \in 1..(k - 1) : all[j].url # all[k].url}
  <2>1. J \in SUBSET DOMAIN all /\ found = Picked(all, J)
    BY DEF DistinctLinks
  <2>2. /\ \A j \in J : all[j] \in shown
        /\ \A one \in shown : UrlSays(one.url) # "unusable" => \E j \in J : all[j] = one
    BY DEF FirstOfTheirUrl
  <2> HIDE DEF J, found, shown
  <2>3. /\ found \in Seq(W)
        /\ \A j \in J : \E k \in DOMAIN found : found[k] = all[j]
        /\ \A k \in DOMAIN found : \E j \in J : found[k] = all[j]
    BY <1>4, <2>1, PickedLists
  <2>4. \A k \in DOMAIN found : found[k] \in shown
    BY <2>2, <2>3
  <2>5. found \in Seq(shown)
    BY <2>3, <2>4
  <2> QED
    BY <2>2, <2>3, <2>5
<1>6. those = FirstOf(s, MaxLinks)
  BY DEF links, Arranged, all
<1> HIDE DEF found, shown
<1>7. /\ s \in Seq(shown) /\ \A j \in DOMAIN found : \E k \in DOMAIN s : s[k] = found[j]
      /\ \A k, l \in DOMAIN s : k < l => Rank(s[k]) <= Rank(s[l])
  BY <1>5, ArrangedByRank
<1> HIDE DEF s, those
<1>8. /\ those \in Seq(shown) /\ Len(those) = (IF Len(s) < MaxLinks THEN Len(s) ELSE MaxLinks)
      /\ \A k \in DOMAIN those : k \in DOMAIN s /\ those[k] = s[k]
  BY <1>6, <1>7, FirstOfLists, ExtractAssumption
<1>9. /\ DOMAIN s = 1..Len(s) /\ DOMAIN those = 1..Len(those) /\ Len(s) \in Nat
      /\ Len(those) \in Nat
  BY <1>7, <1>8
<1>10. ASSUME NEW k \in DOMAIN those, NEW l \in DOMAIN those, k < l
       PROVE  Rank(those[k]) <= Rank(those[l])
  BY <1>7, <1>8, <1>10
<1>11. ASSUME NEW one \in shown \ ToSet(those), NEW other \in ToSet(those),
              UrlSays(one.url) # "unusable"
       PROVE  Rank(other) <= Rank(one)
  <2>1. PICK j \in DOMAIN found : one = found[j]
    BY <1>5, <1>11
  <2>2. PICK k \in DOMAIN s : one = s[k]
    BY <1>7, <2>1
  <2>3. PICK l \in DOMAIN those : other = those[l]
    BY DEF ToSet
  <2>4. k \notin DOMAIN those
    BY <1>8, <2>2 DEF ToSet
  <2>5. l < k
    BY <1>9, <2>2, <2>3, <2>4
  <2> QED
    BY <1>7, <1>8, <2>2, <2>3, <2>5
<1>12. ToSet(those) \subseteq shown
  BY <1>8 DEF ToSet
<1> QED
  BY <1>10, <1>11, <1>12 DEF shown, all, those

-----------------------------------------------------------------------------
(* The answer is that of the text that was walked, and the walk is over.   *)
Answering ==
  /\ walk.Text \in Seq(Line) /\ walk.HTML \in Seq(Line)
  /\ answer.given =>
       /\ walk.pc = "parsed"
       /\ answer.codes = Codes(Searched)
       /\ answer.links = links(clip(walk.HTML), TextFor(walk.Text, walk.HTML))

(* Bodies that run into each other are lines.                              *)
LEMMA AppendedIsText ==
  ASSUME NEW t \in Seq(Line), NEW b \in Seq(Line)
  PROVE  Appended(t, b) \in Seq(Line)
<1>1. CASE t = << >> \/ b = << >>
  BY <1>1, ConcatProperties DEF Appended
<1>2. CASE t # << >> /\ b # << >>
  <2>1. /\ Len(t) \in Nat \ {0} /\ Last(t) \in Line
        /\ \A i \in 1..(Len(t) - 1) : t[i] \in Line
    BY <1>2 DEF Last
  <2>2. Front(t) \in Seq(Line)
    BY <2>1, SubSeqProperties DEF Front
  <2>3. Head(b) \in Line /\ Tail(b) \in Seq(Line)
    BY <1>2, HeadTailProperties
  <2>4. Last(t) \o Head(b) \in Line
    BY <2>1, <2>3, ConcatProperties DEF Line
  <2>5. <<Last(t) \o Head(b)>> \in Seq(Line)
    BY <2>4
  <2>6. Front(t) \o <<Last(t) \o Head(b)>> \in Seq(Line)
    BY <2>2, <2>5, ConcatProperties
  <2>7. (Front(t) \o <<Last(t) \o Head(b)>>) \o Tail(b) \in Seq(Line)
    BY <2>3, <2>6, ConcatProperties
  <2> QED
    BY <1>2, <2>7 DEF Appended
<1> QED
  BY <1>1, <1>2

(* The walk adds lines to the bodies, and nothing once it is over.         *)
LEMMA WalkStepKeepsAnswering ==
  ASSUME WalkInv, Answering, WalkStep, UNCHANGED answer
  PROVE  Answering'
<1>1. walk \in WalkRecord /\ walk.pc = "walking" /\ ~answer.given
  BY DEF WalkInv, Walking, Answering, WalkStep, EndOfParts, Undecodable, Unreadable,
         TooManyParts, ReadText, ReadHTML, BodyUnreadable, ReadFile, ReadInline,
         FileUnreadable, ReadPart, Yields
<1>2. ASSUME walk.at < Len(walk.raw)  PROVE Cut(Current.body) \in Seq(Line)
  <2>1. walk.raw \in Seq(Part) /\ Here \in DOMAIN walk.raw
    BY <1>1, <1>2 DEF WalkRecord, Here
  <2>2. Current.body \in Seq(Line)
    <3>1. Current \in Part
      BY <2>1 DEF Current
    <3> QED
      BY <3>1 DEF Part
  <2>3. Min2(Len(Current.body), MaxBodyBytes) \in 0..Len(Current.body)
    BY <2>2, WalkAssumption DEF Min2
  <2>4. \A i \in 1..Min2(Len(Current.body), MaxBodyBytes) : Current.body[i] \in Line
    BY <2>2, <2>3
  <2> QED
    BY <2>3, <2>4, SubSeqProperties DEF Cut
<1>3. walk'.Text \in Seq(Line) /\ walk'.HTML \in Seq(Line)
  <2>1. CASE ReadText
    <3>1. walk.at < Len(walk.raw)
      BY <2>1 DEF ReadText, ReadPart, Yields
    <3>2. walk'.Text = Appended(walk.Text, Cut(Current.body)) /\ walk'.HTML = walk.HTML
      BY <1>1, <2>1 DEF ReadText, Counted, WalkRecord
    <3> QED
      BY <1>2, <3>1, <3>2, AppendedIsText DEF Answering
  <2>2. CASE ReadHTML
    <3>1. walk.at < Len(walk.raw)
      BY <2>2 DEF ReadHTML, ReadPart, Yields
    <3>2. walk'.HTML = Appended(walk.HTML, Cut(Current.body)) /\ walk'.Text = walk.Text
      BY <1>1, <2>2 DEF ReadHTML, Counted, WalkRecord
    <3> QED
      BY <1>2, <3>1, <3>2, AppendedIsText DEF Answering
  <2>3. CASE EndOfParts \/ Undecodable \/ Unreadable \/ TooManyParts
    <3>1. walk'.Text = walk.Text /\ walk'.HTML = walk.HTML
      BY <1>1, <2>3 DEF EndOfParts, Undecodable, Unreadable, TooManyParts, WalkRecord
    <3> QED  BY <3>1 DEF Answering
  <2>4. CASE BodyUnreadable \/ ReadFile \/ ReadInline \/ FileUnreadable
    <3>1. walk'.Text = walk.Text /\ walk'.HTML = walk.HTML
      BY <1>1, <2>4 DEF BodyUnreadable, ReadFile, ReadInline, FileUnreadable,
                        AttachmentOf, Counted, WalkRecord
    <3> QED  BY <3>1 DEF Answering
  <2> QED  BY <2>1, <2>2, <2>3, <2>4 DEF WalkStep
<1> QED
  BY <1>1, <1>3 DEF Answering

(* The answer is given once, of a message that is parsed.                  *)
LEMMA AnsweringNext == WalkInv /\ Answering /\ [Next]_vars => Answering'
<1> SUFFICES ASSUME WalkInv, Answering, [Next]_vars  PROVE Answering'
  OBVIOUS
<1>1. CASE UNCHANGED <<walk, answer>>
  BY <1>1 DEF Answering, Searched
<1>2. CASE ParseBlob
  <2>1. walk.pc = "idle" /\ UNCHANGED answer
    BY <1>2 DEF ParseBlob, Parse
  <2>2. walk'.Text = << >> /\ walk'.HTML = << >>
    BY <1>2 DEF ParseBlob, Parse, NotWalked
  <2>3. ~answer'.given
    BY <2>1 DEF Answering
  <2> QED
    BY <2>2, <2>3 DEF Answering
<1>3. CASE WalkStep /\ UNCHANGED answer
  BY <1>3, WalkStepKeepsAnswering
<1>4. CASE GetMessage
  <2>1. walk.pc = "parsed" /\ UNCHANGED walk
    BY <1>4 DEF GetMessage
  <2>2. /\ answer'.codes = Codes(Searched)
        /\ answer'.links = links(clip(walk.HTML), TextFor(walk.Text, walk.HTML))
    BY <1>4 DEF GetMessage, Message, Searched
  <2>3. Searched' = Searched
    BY <2>1 DEF Searched
  <2> QED
    BY <2>1, <2>2, <2>3 DEF Answering
<1> QED
  BY <1>1, <1>2, <1>3, <1>4 DEF Next, vars, ShowImages

(* The answer is that of the whole text in every reachable state.          *)
LEMMA AnsweringAlways == Spec => []Answering
<1>1. Init => Answering
  BY DEF Init, WalkInit, NotWalked, NoAnswer, Answering
<1>2. Spec => []WalkInv
  BY WalkInitInv, WalkNextInv, ReadersGetTheMessage, PTL DEF Spec
<1> QED
  BY <1>1, <1>2, AnsweringNext, PTL DEF Spec

(* In every message the codes whose first mention states them outright are *)
(* listed before those whose first mention has no lead, none is listed     *)
(* twice, and none that is left out beats one that is.                     *)
THEOREM BestCodesListed == Spec => []CodesBestFirst
<1>1. Answering => CodesBestFirst
  <2> SUFFICES ASSUME Answering, answer.given  PROVE CodesBestFirst
    BY DEF CodesBestFirst
  <2>1. Searched \in Seq(Seq(Shown)) /\ answer.codes = Codes(Searched)
    BY SearchedIsText DEF Answering, Searched
  <2>2. TheBestOf(Searched, answer.codes)
    BY <2>1, BestCodes
  <2> QED
    BY <2>2 DEF TheBestOf, CodesBestFirst
<1> QED
  BY <1>1, AnsweringAlways, PTL

(* In every message a URL is listed as the first anchor to it shows it,    *)
(* none so judged to act on the account is left out for one that is not,   *)
(* and those so judged to unsubscribe stand last.                          *)
THEOREM FollowedLinksListed == Spec => []LinksToFollowFirst
<1>1. Answering => LinksToFollowFirst
  <2> SUFFICES ASSUME Answering, answer.given  PROVE LinksToFollowFirst
    BY DEF LinksToFollowFirst
  <2>1. /\ clip(walk.HTML) \in Seq(Seq(Shown))
        /\ TextFor(walk.Text, walk.HTML) \in Seq(Seq(Shown))
        /\ answer.links = links(clip(walk.HTML), TextFor(walk.Text, walk.HTML))
    BY SearchedIsText DEF Answering
  <2> QED
    BY <2>1, FollowedFirst DEF LinksToFollowFirst
<1> QED
  BY <1>1, AnsweringAlways, PTL
=============================================================================
