---------------------------- MODULE AudioProofs -----------------------------
(***************************************************************************)
(* Proofs about the path of a sample.  First the ring of AudioBuffer, for  *)
(* every capacity, set of readers, window, hop and backlog; then the       *)
(* capture loop of MicArbitrator, which fills it, for every catalogue,     *)
(* every hardware, every threshold and every number of environment         *)
(* changes.  The two share no variable.                                    *)
(***************************************************************************)
EXTENDS AudioBuffer, MicArbitrator, WellFoundedInduction, TLAPS

----------------------------------------------------------------------------
\* The ring.

\* The margin cut off a ring of at least four cells is at least one cell, and
\* margin and safe window add up to the ring.
LEMMA MarginFacts ==
    /\ SafetyMargin \in Nat
    /\ SafetyMargin >= 1
    /\ SafetyMargin <= Capacity
    /\ CapacityMinusMargin \in Nat
    /\ CapacityMinusMargin + SafetyMargin = Capacity
    /\ CapacityMinusMargin < Capacity
  BY CapacityAssumption DEF SafetyMargin, CapacityMinusMargin

\* Multiples of a positive number do not lie strictly between 0 and it.
LEMMA NoSmallMultiple ==
  ASSUME NEW c \in Nat, NEW k \in Int, c >= 1, 0 < c * k, c * k < c
  PROVE  FALSE
  <1>1. CASE k <= 0
    BY <1>1
  <1>2. CASE k >= 1
    BY <1>2
  <1> QED
    BY <1>1, <1>2

\* An index names a cell of the ring.
LEMMA IndexInRing ==
  ASSUME NEW p \in Nat
  PROVE  IndexOf(p) \in Slots
  BY CapacityAssumption DEF IndexOf, Slots

\* Two positions less than a ring apart never share a cell.
LEMMA IndexInjective ==
  ASSUME NEW p \in Nat, NEW q \in Nat, p < q, q - p < Capacity
  PROVE  IndexOf(p) # IndexOf(q)
  <1> DEFINE dp == p \div Capacity
             dq == q \div Capacity
  <1>0. Capacity \in Nat /\ Capacity >= 4
    BY CapacityAssumption
  <1>1. /\ dp \in Int /\ dq \in Int
        /\ p = Capacity * dp + (p % Capacity)
        /\ q = Capacity * dq + (q % Capacity)
    BY <1>0
  <1>2. p % Capacity \in Int /\ q % Capacity \in Int
    BY <1>0
  <1>3. SUFFICES ASSUME p % Capacity = q % Capacity
                 PROVE  FALSE
    BY DEF IndexOf
  <1>4. q - p = Capacity * (dq - dp)
    BY <1>0, <1>1, <1>2, <1>3
  <1> HIDE DEF dp, dq
  <1> QED
    BY <1>0, <1>1, <1>4, NoSmallMultiple

\* Saturating subtraction stays below its first argument and is exact when
\* it does not saturate.
LEMMA SaturatingSubFacts ==
  ASSUME NEW a \in Nat, NEW b \in Nat
  PROVE  /\ SaturatingSub(a, b) \in Nat
         /\ SaturatingSub(a, b) <= a
         /\ b <= a => SaturatingSub(a, b) = a - b
         /\ SaturatingSub(a, b) > 0 => b <= a
  BY DEF SaturatingSub

----------------------------------------------------------------------------
\* Every step keeps the type invariant (variables of audio_buffer.rs Inner,
\* Writer and Reader, and the caller's scratch).
LEMMA RingTypeStep == RingTypeOK /\ [RingNext]_ringVars => RingTypeOK'
  <1> SUFFICES ASSUME RingTypeOK, [RingNext]_ringVars
               PROVE  RingTypeOK'
    OBVIOUS
  <1> USE MarginFacts, CapacityAssumption, ConsumerAssumption, BoundAssumption
  <1>1. CASE TakeWriter
    BY <1>1 DEF TakeWriter, RingTypeOK, readerVars
  <1>2. CASE DropWriter
    BY <1>2 DEF DropWriter, RingTypeOK, readerVars
  <1>3. ASSUME NEW n \in 0..Capacity, PushBegin(n)
        PROVE  RingTypeOK'
    BY <1>3 DEF PushBegin, RingTypeOK, readerVars
  <1>4. CASE PushCell
    <2>1. head + written \in Nat
      BY DEF RingTypeOK
    <2>2. IndexOf(head + written) \in Slots
      BY <2>1, IndexInRing
    <2>3. cells' \in [Slots -> Sample]
      BY <1>4, <2>1, <2>2 DEF PushCell, RingTypeOK, Sample
    <2> QED
      BY <1>4, <2>3 DEF PushCell, RingTypeOK, readerVars
  <1>5. CASE PushPublish
    <2>1. head' \in 0..MaxHead
      BY <1>5 DEF PushPublish, RingTypeOK
    <2> QED
      BY <1>5, <2>1 DEF PushPublish, RingTypeOK, readerVars
  <1>6. ASSUME NEW r \in Readers, NEW behind \in {0, Backlog[r]}, Open(r, behind)
        PROVE  RingTypeOK'
    <2>0. head \in Nat /\ behind \in Nat
      BY DEF RingTypeOK
    <2>1. SaturatingSub(head, behind) \in Nat
      BY <2>0, SaturatingSubFacts
    <2> QED
      BY <1>6, <2>1 DEF Open, RingTypeOK, writerVars, Control
  <1>7. ASSUME NEW r \in Readers, PeekBegin(r)
        PROVE  RingTypeOK'
    BY <1>7 DEF PeekBegin, RingTypeOK, writerVars, Control
  <1>8. ASSUME NEW r \in Readers, PeekCell(r)
        PROVE  RingTypeOK'
    <2>1. tail[r] + copied[r] \in Nat
      BY DEF RingTypeOK
    <2>2. cells[IndexOf(tail[r] + copied[r])] \in Sample
      BY <2>1, IndexInRing DEF RingTypeOK
    <2>3. out' \in [Readers -> [Slots -> Sample]]
      BY <1>8, <2>2 DEF PeekCell, RingTypeOK
    <2>4. /\ copied' \in [Readers -> Nat]
          /\ \A q \in Readers : copied'[q] <= Window[q]
      BY <1>8 DEF PeekCell, RingTypeOK
    <2> QED
      BY <1>8, <2>3, <2>4 DEF PeekCell, RingTypeOK, writerVars
  <1>9. ASSUME NEW r \in Readers, PeekRecheck(r)
        PROVE  RingTypeOK'
    BY <1>9 DEF PeekRecheck, RingTypeOK, writerVars, Control
  <1>10. ASSUME NEW r \in Readers, Advance(r)
         PROVE  RingTypeOK'
    BY <1>10 DEF Advance, RingTypeOK, writerVars, Control
  <1>11. ASSUME NEW r \in Readers, SeekLatest(r)
         PROVE  RingTypeOK'
    <2>0. head \in Nat /\ Backlog[r] \in Nat
      BY DEF RingTypeOK
    <2>1. SaturatingSub(head, Backlog[r]) \in Nat
      BY <2>0, SaturatingSubFacts
    <2> QED
      BY <1>11, <2>1 DEF SeekLatest, RingTypeOK, writerVars, Control
  <1>12. ASSUME NEW r \in Readers, Pause(r)
         PROVE  RingTypeOK'
    BY <1>12 DEF Pause, RingTypeOK, writerVars, Control
  <1>13. ASSUME NEW r \in Readers, Resume(r)
         PROVE  RingTypeOK'
    <2>0. head \in Nat /\ Backlog[r] \in Nat
      BY DEF RingTypeOK
    <2>1. SaturatingSub(head, Backlog[r]) \in Nat
      BY <2>0, SaturatingSubFacts
    <2> QED
      BY <1>13, <2>1 DEF Resume, RingTypeOK, writerVars, Control
  <1>14. CASE UNCHANGED ringVars
    BY <1>14 DEF ringVars, writerVars, readerVars, RingTypeOK
  <1> QED
    BY <1>1, <1>2, <1>3, <1>4, <1>5, <1>6, <1>7, <1>8, <1>9, <1>10, <1>11,
       <1>12, <1>13, <1>14
       DEF RingNext, WriterNext, ReaderStep, Attach

----------------------------------------------------------------------------
\* What the peek in progress has read so far: the window was published when
\* the copy began, and a loaded cell is either right or belongs to a position
\* that the writer has lapped since.
CopySound(r) ==
    readerPc[r] = "copy" =>
        /\ tail[r] + Window[r] <= head
        /\ \A i \in 0..(copied[r] - 1) :
              \/ out[r][i] = tail[r] + i
              \/ tail[r] + i < head + written - Capacity

\* The inductive invariant.  ReadyIsUntorn alone is not inductive: it needs
\* to know what the copy loop had loaded before the recheck, and for that
\* where the recent samples are.
RingInv ==
    /\ RingTypeOK
    /\ TailNeverPastHead
    /\ RecentSamplesIntact
    /\ \A r \in Readers : CopySound(r)
    /\ ReadyIsUntorn

\* The empty ring with no reader satisfies the invariant.
LEMMA RingInitInv == RingInit => RingInv
  <1> SUFFICES ASSUME RingInit
               PROVE  RingInv
    OBVIOUS
  <1> USE MarginFacts, CapacityAssumption, ConsumerAssumption, BoundAssumption
  <1>1. RingTypeOK
    <2>1. /\ head = 0 /\ pushLen = 0 /\ written = 0
          /\ writerTaken \in BOOLEAN
          /\ cells \in [Slots -> Sample]
          /\ out \in [Readers -> [Slots -> Sample]]
      BY DEF RingInit, Sample
    <2>2. /\ readerPc \in [Readers -> Control]
          /\ tail \in [Readers -> Nat]
          /\ copied \in [Readers -> Nat]
          /\ \A r \in Readers : copied[r] <= Window[r]
      BY DEF RingInit, Control
    <2> QED
      BY <2>1, <2>2 DEF RingTypeOK
  <1>2. TailNeverPastHead
    BY DEF RingInit, TailNeverPastHead
  <1>3. RecentSamplesIntact
    BY DEF RingInit, RecentSamplesIntact
  <1>4. ReadyIsUntorn /\ \A r \in Readers : CopySound(r)
    BY DEF RingInit, ReadyIsUntorn, CopySound
  <1> QED
    BY <1>1, <1>2, <1>3, <1>4 DEF RingInv

\* The writer only ever overwrites the position one ring behind the one it
\* stores (Writer::push).
LEMMA WindowStep == RingInv /\ [RingNext]_ringVars => RecentSamplesIntact'
  <1> SUFFICES ASSUME RingInv, [RingNext]_ringVars
               PROVE  RecentSamplesIntact'
    OBVIOUS
  <1> USE MarginFacts, CapacityAssumption, BoundAssumption
  <1>1. CASE PushCell
    <2> SUFFICES ASSUME NEW p \in 0..(head + written),
                        p >= head + written + 1 - Capacity
                 PROVE  cells'[IndexOf(p)] = p
      BY <1>1 DEF PushCell, RecentSamplesIntact, RingInv, RingTypeOK
    <2>0. head + written \in Nat /\ p \in Nat
      BY DEF RingInv, RingTypeOK
    <2>1. IndexOf(p) \in Slots /\ IndexOf(head + written) \in Slots
      BY <2>0, IndexInRing
    <2>2. CASE p = head + written
      BY <1>1, <2>1, <2>2 DEF PushCell, RingInv, RingTypeOK
    <2>3. CASE p < head + written
      <3>1. IndexOf(p) # IndexOf(head + written)
        BY <2>0, <2>3, IndexInjective
      <3>2. cells[IndexOf(p)] = p
        BY <2>0, <2>3 DEF RingInv, RecentSamplesIntact, RingTypeOK
      <3> QED
        BY <1>1, <2>1, <3>1, <3>2 DEF PushCell, RingInv, RingTypeOK
    <2> QED
      BY <2>0, <2>2, <2>3
  <1>2. CASE PushPublish
    <2>1. /\ head' = head + written /\ written' = 0 /\ cells' = cells
          /\ head \in Nat /\ written \in Nat
      BY <1>2 DEF PushPublish, RingInv, RingTypeOK
    <2> SUFFICES ASSUME NEW p \in 0..(head + written - 1),
                        p >= head + written - Capacity
                 PROVE  cells[IndexOf(p)] = p
      BY <2>1 DEF RecentSamplesIntact
    <2> QED
      BY DEF RingInv, RecentSamplesIntact
  <1>3. ASSUME NEW n \in 0..Capacity, PushBegin(n)
        PROVE  RecentSamplesIntact'
    <2>1. written = 0 /\ written' = 0 /\ head' = head /\ cells' = cells
      BY <1>3 DEF PushBegin, RingInv, RingTypeOK
    <2> QED
      BY <2>1 DEF RingInv, RecentSamplesIntact
  <1>4. CASE UNCHANGED <<cells, head, written>>
    BY <1>4 DEF RingInv, RecentSamplesIntact
  <1>5. ASSUME NEW r \in Readers,
               ReaderStep(r) \/ Attach(r)
        PROVE  UNCHANGED <<cells, head, written>>
    BY <1>5 DEF ReaderStep, PeekBegin, PeekCell, PeekRecheck, Advance,
                SeekLatest, Attach, Open, Pause, Resume, writerVars
  <1> QED
    BY <1>1, <1>2, <1>3, <1>4, <1>5
       DEF RingNext, WriterNext, TakeWriter, DropWriter, ringVars, writerVars, readerVars

\* A position that has been lapped stays lapped while the writer advances.
LEMMA StaysLapped ==
  ASSUME NEW h \in Nat, NEW w \in Nat, NEW h2 \in Nat, NEW w2 \in Nat,
         h2 + w2 >= h + w, NEW p \in Int, p < h + w - Capacity
  PROVE  p < h2 + w2 - Capacity
  BY CapacityAssumption

\* Both loops of peek_into and push only add to what CopySound excuses: once
\* a position is lapped it stays lapped.
LEMMA CopyStep ==
  RingInv /\ [RingNext]_ringVars => \A r \in Readers : CopySound(r)'
  <1> SUFFICES ASSUME RingInv, [RingNext]_ringVars, NEW r \in Readers, readerPc'[r] = "copy"
               PROVE  CopySound(r)'
    BY DEF CopySound
  <1> USE MarginFacts, CapacityAssumption, ConsumerAssumption, BoundAssumption
  <1>0. /\ head \in Nat /\ written \in Nat /\ tail[r] \in Nat
        /\ copied[r] \in Nat /\ Window[r] \in Nat /\ tail[r] <= head
    BY DEF RingInv, RingTypeOK, TailNeverPastHead
  <1>1. ASSUME readerPc'[r] = readerPc[r], tail'[r] = tail[r], out'[r] = out[r],
               copied'[r] = copied[r], head' \in Nat, written' \in Nat,
               head' >= head, head' + written' >= head + written
        PROVE  CopySound(r)'
    <2>1. CopySound(r) /\ readerPc[r] = "copy"
      BY <1>1 DEF RingInv
    <2>2. tail[r] + Window[r] <= head'
      BY <1>0, <1>1, <2>1 DEF CopySound
    <2>3. ASSUME NEW i \in 0..(copied[r] - 1)
          PROVE  out[r][i] = tail[r] + i \/ tail[r] + i < head' + written' - Capacity
      <3>1. out[r][i] = tail[r] + i \/ tail[r] + i < head + written - Capacity
        BY <2>1 DEF CopySound
      <3>2. tail[r] + i \in Int
        BY <1>0
      <3>3. head' + written' >= head + written
        BY <1>1
      <3>4. head' \in Nat
        BY <1>1
      <3>5. written' \in Nat
        BY <1>1
      <3>6. head \in Nat /\ written \in Nat
        BY <1>0
      <3>7. CASE out[r][i] = tail[r] + i
        BY <3>7
      <3>8. CASE tail[r] + i < head + written - Capacity
        BY <3>8, <3>2, <3>3, <3>4, <3>5, <3>6, StaysLapped
      <3> QED
        BY <3>1, <3>7, <3>8
    <2> QED
      BY <1>1, <2>2, <2>3 DEF CopySound
  <1>2. CASE WriterNext
    <2>1. readerPc' = readerPc /\ tail' = tail /\ out' = out /\ copied' = copied
      BY <1>2 DEF WriterNext, TakeWriter, DropWriter, PushBegin, PushCell,
                  PushPublish, readerVars
    <2>2. /\ head' \in Nat /\ written' \in Nat
          /\ head' >= head /\ head' + written' >= head + written
      BY <1>2 DEF WriterNext, TakeWriter, DropWriter, PushBegin, PushCell,
                  PushPublish, RingInv, RingTypeOK
    <2> QED
      BY <1>1, <2>1, <2>2
  <1>3. CASE PeekBegin(r)
    BY <1>0, <1>3 DEF PeekBegin, CopySound, SaturatingSub, writerVars, RingInv, RingTypeOK
  <1>4. CASE PeekCell(r)
    <2>1. /\ CopySound(r) /\ readerPc[r] = "copy" /\ copied[r] < Window[r]
          /\ tail' = tail /\ head' = head /\ written' = written
          /\ copied'[r] = copied[r] + 1
      BY <1>4 DEF RingInv, PeekCell, RingTypeOK, writerVars
    <2>2. copied[r] \in Slots
      BY <1>0, <2>1 DEF Slots
    <2>3. /\ out'[r][copied[r]] = cells[IndexOf(tail[r] + copied[r])]
          /\ \A i \in Slots : i # copied[r] => out'[r][i] = out[r][i]
      BY <1>4, <2>2 DEF PeekCell, RingInv, RingTypeOK
    <2>4. \/ out'[r][copied[r]] = tail[r] + copied[r]
          \/ tail[r] + copied[r] < head + written - Capacity
      BY <1>0, <2>1, <2>3 DEF CopySound, RingInv, RecentSamplesIntact
    <2>5. ASSUME NEW i \in 0..(copied[r] - 1)
          PROVE  \/ out'[r][i] = tail[r] + i
                 \/ tail[r] + i < head + written - Capacity
      BY <1>0, <2>1, <2>2, <2>3 DEF CopySound, Slots
    <2>6. ASSUME NEW i \in 0..copied[r]
          PROVE  \/ out'[r][i] = tail[r] + i
                 \/ tail[r] + i < head + written - Capacity
      BY <1>0, <2>4, <2>5
    <2> QED
      BY <1>0, <2>1, <2>6 DEF CopySound
  <1>5. ASSUME NEW q \in Readers, q # r,
               ReaderStep(q) \/ Attach(q)
        PROVE  CopySound(r)'
    <2>1. /\ readerPc'[r] = readerPc[r] /\ tail'[r] = tail[r] /\ out'[r] = out[r]
          /\ copied'[r] = copied[r] /\ head' = head /\ written' = written
      BY <1>5 DEF ReaderStep, PeekBegin, PeekCell, PeekRecheck, Advance,
                  SeekLatest, Attach, Open, Pause, Resume, writerVars, RingInv, RingTypeOK
    <2> QED
      BY <1>0, <1>1, <2>1
  <1>6. ASSUME PeekRecheck(r) \/ Advance(r) \/ SeekLatest(r)
               \/ Attach(r)
        PROVE  FALSE
    BY <1>6 DEF PeekRecheck, Advance, SeekLatest, Attach, Open, Pause, Resume, RingInv, RingTypeOK
  <1>7. CASE UNCHANGED ringVars
    BY <1>0, <1>1, <1>7 DEF ringVars, writerVars, readerVars
  <1> QED
    BY <1>2, <1>3, <1>4, <1>5, <1>6, <1>7 DEF RingNext, ReaderStep

\* The recheck accepts a copy only while the writer, push in progress
\* included, has not lapped the window.
LEMMA ReadyStep == RingInv /\ [RingNext]_ringVars => ReadyIsUntorn'
  <1> SUFFICES ASSUME RingInv, [RingNext]_ringVars, NEW r \in Readers, readerPc'[r] = "ready",
                      NEW i \in 0..(Window[r] - 1)
               PROVE  out'[r][i] = tail'[r] + i
    BY DEF ReadyIsUntorn
  <1> USE MarginFacts, CapacityAssumption, ConsumerAssumption, BoundAssumption
  <1>1. ASSUME readerPc'[r] = readerPc[r], tail'[r] = tail[r], out'[r] = out[r]
        PROVE  out'[r][i] = tail'[r] + i
    BY <1>1 DEF RingInv, ReadyIsUntorn
  <1>2. CASE PeekRecheck(r)
    <2>1. /\ head \in Nat /\ written \in Nat /\ written <= SafetyMargin
          /\ tail[r] \in Nat /\ Window[r] \in Nat /\ tail[r] <= head
      BY DEF RingInv, RingTypeOK, TailNeverPastHead
    <2>2. /\ copied[r] = Window[r] /\ readerPc[r] = "copy"
          /\ out' = out /\ tail' = tail
          /\ head - tail[r] <= CapacityMinusMargin
      BY <1>2, <2>1 DEF PeekRecheck, SaturatingSub, RingInv, RingTypeOK
    <2>3. ~(tail[r] + i < head + written - Capacity)
      BY <2>1, <2>2
    <2> QED
      BY <2>1, <2>2, <2>3 DEF RingInv, CopySound
  <1>3. CASE WriterNext
    BY <1>1, <1>3 DEF WriterNext, TakeWriter, DropWriter, PushBegin, PushCell,
                      PushPublish, readerVars
  <1>4. ASSUME NEW q \in Readers, q # r,
               ReaderStep(q) \/ Attach(q)
        PROVE  out'[r][i] = tail'[r] + i
    BY <1>1, <1>4 DEF ReaderStep, PeekBegin, PeekCell, PeekRecheck, Advance,
                      SeekLatest, Attach, Open, Pause, Resume, writerVars, RingInv, RingTypeOK
  <1>5. ASSUME PeekBegin(r) \/ PeekCell(r) \/ Advance(r) \/ SeekLatest(r)
               \/ Attach(r)
        PROVE  FALSE
    BY <1>5 DEF PeekBegin, PeekCell, Advance, SeekLatest, Attach, Open, Pause, Resume, RingInv, RingTypeOK
  <1>6. CASE UNCHANGED ringVars
    BY <1>1, <1>6 DEF ringVars, writerVars, readerVars
  <1> QED
    BY <1>2, <1>3, <1>4, <1>5, <1>6 DEF RingNext, ReaderStep

\* head only grows, and every way a tail moves is bounded by head.
LEMMA TailStep == RingInv /\ [RingNext]_ringVars => TailNeverPastHead'
  <1> SUFFICES ASSUME RingInv, [RingNext]_ringVars, NEW r \in Readers
               PROVE  tail'[r] <= head'
    BY DEF TailNeverPastHead
  <1> USE MarginFacts, CapacityAssumption, ConsumerAssumption, BoundAssumption
  <1>0. /\ head \in Nat /\ tail[r] \in Nat /\ tail[r] <= head
        /\ Hop[r] \in Nat /\ Backlog[r] \in Nat
    BY DEF RingInv, RingTypeOK, TailNeverPastHead
  <1>1. CASE WriterNext
    BY <1>0, <1>1 DEF WriterNext, TakeWriter, DropWriter, PushBegin, PushCell,
                      PushPublish, readerVars, RingInv, RingTypeOK
  <1>2. CASE Advance(r)
    BY <1>0, <1>2 DEF Advance, SaturatingSub, writerVars, RingInv, RingTypeOK
  <1>3. CASE SeekLatest(r)
    BY <1>0, <1>3 DEF SeekLatest, SaturatingSub, writerVars, RingInv, RingTypeOK
  <1>4. CASE Attach(r)
    BY <1>0, <1>4 DEF Attach, Open, Pause, Resume, SaturatingSub, writerVars,
       RingInv, RingTypeOK
  <1>5. CASE PeekBegin(r) \/ PeekCell(r) \/ PeekRecheck(r)
    BY <1>0, <1>5 DEF PeekBegin, PeekCell, PeekRecheck, writerVars
  <1>6. ASSUME NEW q \in Readers, q # r,
               ReaderStep(q) \/ Attach(q)
        PROVE  tail'[r] <= head'
    BY <1>0, <1>6 DEF ReaderStep, PeekBegin, PeekCell, PeekRecheck, Advance,
                      SeekLatest, Attach, Open, Pause, Resume, writerVars, RingInv, RingTypeOK
  <1>7. CASE UNCHANGED ringVars
    BY <1>0, <1>7 DEF ringVars, writerVars, readerVars
  <1> QED
    BY <1>1, <1>2, <1>3, <1>4, <1>5, <1>6, <1>7 DEF RingNext, ReaderStep

\* The inductive invariant holds in every state of every behaviour.
THEOREM RingInvariance == RingSpec => []RingInv
  <1>1. RingInv /\ [RingNext]_ringVars => RingInv'
    BY RingTypeStep, WindowStep, CopyStep, ReadyStep, TailStep DEF RingInv
  <1> QED
    BY RingInitInv, <1>1, PTL DEF RingSpec

\* Type correctness of the ring, for every capacity and every set of readers.
THEOREM RingTypeCorrect == RingSpec => []RingTypeOK
  <1>1. RingInv => RingTypeOK
    BY DEF RingInv
  <1> QED
    BY RingInvariance, <1>1, PTL

\* A Ready peek is never torn, for every capacity, window and hop: the safety
\* argument in the documentation of Writer::push and Reader::peek_into.
THEOREM ReadyUntorn == RingSpec => []ReadyIsUntorn
  <1>1. RingInv => ReadyIsUntorn
    BY DEF RingInv
  <1> QED
    BY RingInvariance, <1>1, PTL

\* The assertion in Reader::advance never fires in the consumer loop.
THEOREM NoOverAdvance == RingSpec => []TailNeverPastHead
  <1>1. RingInv => TailNeverPastHead
    BY DEF RingInv
  <1> QED
    BY RingInvariance, <1>1, PTL

----------------------------------------------------------------------------
\* A lagged reader is more than the safe window behind, and stays so until it
\* seeks.
LaggedIsFarBehind ==
    \A r \in Readers : readerPc[r] = "lagged" => head - tail[r] > CapacityMinusMargin

\* A reader that was told Lagged stays further behind than the safe window
\* until it seeks.
LEMMA LaggedStep ==
  RingInv /\ LaggedIsFarBehind /\ [RingNext]_ringVars => LaggedIsFarBehind'
  <1> SUFFICES ASSUME RingInv, LaggedIsFarBehind, [RingNext]_ringVars,
                      NEW r \in Readers, readerPc'[r] = "lagged"
               PROVE  head' - tail'[r] > CapacityMinusMargin
    BY DEF LaggedIsFarBehind
  <1> USE MarginFacts, CapacityAssumption, ConsumerAssumption, BoundAssumption
  <1>0. head \in Nat /\ tail[r] \in Nat /\ tail[r] <= head
    BY DEF RingInv, RingTypeOK, TailNeverPastHead
  <1>1. ASSUME readerPc'[r] = readerPc[r], tail'[r] = tail[r], head' \in Nat, head' >= head
        PROVE  head' - tail'[r] > CapacityMinusMargin
    BY <1>0, <1>1 DEF LaggedIsFarBehind
  <1>2. CASE WriterNext
    <2>1. readerPc' = readerPc /\ tail' = tail
      BY <1>2 DEF WriterNext, TakeWriter, DropWriter, PushBegin, PushCell,
                  PushPublish, readerVars
    <2>2. head' \in Nat /\ head' >= head
      BY <1>2 DEF WriterNext, TakeWriter, DropWriter, PushBegin, PushCell,
                  PushPublish, RingInv, RingTypeOK
    <2> QED
      BY <1>1, <2>1, <2>2
  <1>3. CASE PeekBegin(r) \/ PeekRecheck(r)
    BY <1>0, <1>3 DEF PeekBegin, PeekRecheck, SaturatingSub, writerVars, RingInv, RingTypeOK
  <1>4. ASSUME PeekCell(r) \/ Advance(r) \/ SeekLatest(r)
               \/ Attach(r)
        PROVE  FALSE
    BY <1>4 DEF PeekCell, Advance, SeekLatest, Attach, Open, Pause, Resume, RingInv, RingTypeOK
  <1>5. ASSUME NEW q \in Readers, q # r,
               ReaderStep(q) \/ Attach(q)
        PROVE  head' - tail'[r] > CapacityMinusMargin
    <2>1. readerPc'[r] = readerPc[r] /\ tail'[r] = tail[r] /\ head' = head
      BY <1>5 DEF ReaderStep, PeekBegin, PeekCell, PeekRecheck, Advance,
                  SeekLatest, Attach, Open, Pause, Resume, writerVars, RingInv, RingTypeOK
    <2> QED
      BY <1>0, <1>1, <2>1
  <1>6. CASE UNCHANGED ringVars
    BY <1>0, <1>1, <1>6 DEF ringVars, writerVars, readerVars
  <1> QED
    BY <1>2, <1>3, <1>4, <1>5, <1>6 DEF RingNext, ReaderStep

\* Resynchronisation after Lagged strictly skips forward, whatever backlog
\* within the safe window the consumer asks for.
THEOREM ResyncForward == RingSpec => ResyncSkipsForward
  <1> DEFINE Resync ==
        \A r \in Readers :
            readerPc[r] = "lagged" /\ readerPc'[r] = "idle" => tail'[r] > tail[r]
  <1>1. RingInit => LaggedIsFarBehind
    BY DEF RingInit, LaggedIsFarBehind
  <1>2. RingInv /\ LaggedIsFarBehind /\ [RingNext]_ringVars => [Resync]_ringVars
    <2> SUFFICES ASSUME RingInv, LaggedIsFarBehind, RingNext, NEW r \in Readers,
                        readerPc[r] = "lagged", readerPc'[r] = "idle"
                 PROVE  tail'[r] > tail[r]
      BY DEF ringVars, writerVars, readerVars
    <2> USE MarginFacts, ConsumerAssumption
    <2>0. /\ head \in Nat /\ tail[r] \in Nat /\ Backlog[r] \in Nat
          /\ Backlog[r] <= CapacityMinusMargin
          /\ head - tail[r] > CapacityMinusMargin
      BY BoundAssumption DEF RingInv, RingTypeOK, LaggedIsFarBehind
    <2>1. SeekLatest(r)
      BY DEF RingNext, WriterNext, TakeWriter, DropWriter, PushBegin, PushCell,
             PushPublish, ReaderStep, PeekBegin, PeekCell, PeekRecheck,
             Advance, SeekLatest, Attach, Open, Pause, Resume, readerVars, RingInv, RingTypeOK
    <2> QED
      BY <2>0, <2>1 DEF SeekLatest, SaturatingSub, RingInv, RingTypeOK
  <1>3. RingInv /\ LaggedIsFarBehind /\ [RingNext]_ringVars => LaggedIsFarBehind'
    BY LaggedStep
  <1> QED
    BY RingInvariance, <1>1, <1>2, <1>3, PTL DEF RingSpec, ResyncSkipsForward

----------------------------------------------------------------------------
\* The arbitrator.

\* A set of natural numbers that is not empty has a least element.
LEMMA LeastElement ==
  ASSUME NEW T, T \subseteq Nat, T # {}
  PROVE  \E x \in T : \A y \in T : x <= y
  <1>1. PICK x \in T : \A y \in T : ~ (<<y, x>> \in OpToRel(<, Nat))
    BY NatLessThanWellFounded, WFMin
  <1>2. \A y \in T : ~ (y < x)
    BY <1>1 DEF OpToRel
  <1> QED
    BY <1>2

\* The loudest channel of a source exists: max_by over a whitelist that is
\* not empty returns one of its channels.
LEMMA LoudestIn ==
  ASSUME NEW r \in [Channels -> Levels], wl \subseteq Channels, wl # {}
  PROVE  Loudest(r) \in wl
  <1> DEFINE Softness == {MaxLevel - r[c] : c \in wl}
  <1>0. \A c \in wl : /\ r[c] \in Int /\ r[c] <= MaxLevel /\ MaxLevel \in Int
                      /\ c \in Int /\ c <= MAX_CHANNEL_INDEX
    BY MicAssumption DEF Levels
  <1>1. PICK v \in Softness : \A y \in Softness : v <= y
    <2>1. Softness \subseteq Nat /\ Softness # {}
      BY <1>0
    <2> QED
      BY <2>1, LeastElement
  <1>2. PICK a \in wl : v = MaxLevel - r[a]
    BY <1>1
  <1>3. \A d \in wl : r[d] <= r[a]
    <2> TAKE d \in wl
    <2>1. MaxLevel - r[a] <= MaxLevel - r[d]
      BY <1>1, <1>2
    <2> QED
      BY <1>0, <2>1
  <1> DEFINE Top == {d \in wl : r[d] = r[a]}
             Backward == {MAX_CHANNEL_INDEX - d : d \in Top}
  <1>4. PICK w \in Backward : \A y \in Backward : w <= y
    <2>1. Backward \subseteq Nat /\ Backward # {}
      BY <1>0, <1>2 DEF MAX_CHANNEL_INDEX
    <2> QED
      BY <2>1, LeastElement
  <1>5. PICK c \in Top : w = MAX_CHANNEL_INDEX - c
    BY <1>4
  <1>6. \A d \in Top : d <= c
    <2> TAKE d \in Top
    <2>1. MAX_CHANNEL_INDEX - c <= MAX_CHANNEL_INDEX - d
      BY <1>4, <1>5
    <2> QED
      BY <1>0, <1>5, <2>1 DEF MAX_CHANNEL_INDEX
  <1>7. \A d \in wl : r[d] < r[c] \/ (r[d] = r[c] /\ d <= c)
    BY <1>0, <1>3, <1>5, <1>6
  <1> QED
    BY <1>5, <1>7 DEF Loudest
----------------------------------------------------------------------------
\* The inductive invariant.

\* Between the top of the loop and the read: a source is opened only when
\* none is open, the candidate tried first is the one the policy names, and
\* the read has a source.
LoopFacts ==
    /\ pc = "open" => /\ active = NoMic
                      /\ snap.mic # FirstAvailable => idx = snap.mic
    /\ pc = "read" => active # NoMic

\* A resampler holds samples from before a gap only until the loop has dealt
\* with the gap.
NeverStale == lost \/ \A c \in Channels : hist[c] # "stale"

\* The flag goes up before the token, and the token is consumed only on the
\* way to the top of the loop, where the flag is read.
StopFacts ==
    /\ stop <=> signal # "idle"
    /\ signal = "done" /\ pc \notin {"top", "exited"} => token

\* A late period is followed by the top of the loop and the exit.
LateFacts ==
    /\ late \in {0, 1}
    /\ late = 1 => stop /\ pc \in {"top", "exited"}

IInv ==
    /\ TypeOK /\ DemuxInBounds /\ FixedNeverFailsOver
    /\ LoopFacts /\ NeverStale /\ ~glued /\ StopFacts /\ LateFacts

----------------------------------------------------------------------------
\* Facts about the operators.

\* intersect_whitelist keeps channels of the catalogue that the device has.
LEMMA EffectiveFacts ==
  ASSUME TypeOK, NEW m \in Mics
  PROVE  /\ Effective(m) \in SUBSET Channels
         /\ \A c \in Effective(m) : c < dev[m].width
         /\ dev[m].width \in Widths /\ dev[m].native \in BOOLEAN
  BY MicAssumption DEF TypeOK, Effective, Device, Mics

\* resolve_desired_idx names a candidate, the pinned one when there is one.
LEMMA ResolveFacts ==
  ASSUME TypeOK
  PROVE  /\ ResolveDesired(policy, active) \in Mics
         /\ policy.mic # FirstAvailable => ResolveDesired(policy, active) = policy.mic
  <1>1. 1 \in Mics /\ NoMic \notin Mics
    BY MicAssumption DEF Mics, NoMic
  <1>2. policy.mic \in {FirstAvailable} \cup Mics
    BY DEF TypeOK, Policies
  <1>3. active \in Mics \cup {NoMic}
    BY DEF TypeOK
  <1> QED
    BY <1>1, <1>2, <1>3 DEF ResolveDesired

\* The EMA keeps an RMS level within range.
LEMMA HeardFacts ==
  ASSUME TypeOK
  PROVE  HeardRms \in [Channels -> Levels]
  <1>1. ASSUME NEW c \in Channels
        PROVE  Ema(rms[c], loud[c]) \in Levels /\ 0 \in Levels
    BY MicAssumption DEF Ema, Levels, TypeOK
  <1> QED
    BY <1>1 DEF HeardRms

\* pick_slot returns a slot of the open source.
LEMMA PickFacts ==
  ASSUME TypeOK, DemuxInBounds, active # NoMic, NEW held
  PROVE  PickSlot(snap.channel, HeardRms, held) \in wl
  <1>1. wl \subseteq Channels /\ wl # {} /\ slot \in wl \cup {NoSlot}
    BY DEF TypeOK, DemuxInBounds
  <1>2. Loudest(HeardRms) \in wl
    BY <1>1, HeardFacts, LoudestIn
  <1> QED
    BY <1>1, <1>2 DEF PickSlot

\* The functions a source starts with.
LEMMA BlankFacts ==
  /\ [c \in Channels |-> 0] \in [Channels -> Levels]
  /\ [c \in Channels |-> "clean"] \in [Channels -> {"clean", "current", "stale"}]
  /\ Dwell \in 0..Dwell
  <1>1. 0 \in Levels /\ Dwell \in 0..Dwell
    BY MicAssumption DEF Levels
  <1> QED
    BY <1>1

\* tear_down leaves a well-typed empty source.
LEMMA TearDownFacts ==
  ASSUME TearDown
  PROVE  /\ active' = NoMic /\ dead' \in BOOLEAN /\ lost' \in BOOLEAN
         /\ width' \in Widths \cup {0} /\ native' \in BOOLEAN
         /\ wl' \in SUBSET Channels
         /\ rms' \in [Channels -> Levels]
         /\ hist' \in [Channels -> {"clean", "current", "stale"}]
         /\ \A c \in Channels : hist'[c] # "stale"
         /\ slot' \in Channels \cup {NoSlot}
         /\ since' \in 0..Dwell
  <1>1. rms' = [c \in Channels |-> 0] /\ hist' = [c \in Channels |-> "clean"]
    BY DEF TearDown
  <1>2. \A c \in Channels : hist'[c] # "stale"
    BY <1>1
  <1>3. /\ rms' \in [Channels -> Levels]
        /\ hist' \in [Channels -> {"clean", "current", "stale"}]
    BY <1>1, BlankFacts
  <1> QED
    BY <1>2, <1>3, BlankFacts DEF TearDown

----------------------------------------------------------------------------

\* The first state satisfies the invariant.
LEMMA InitInv == Init => IInv
  <1> SUFFICES ASSUME Init PROVE IInv
    OBVIOUS
  <1>1. DefaultPolicy \in Policies
    BY DEF DefaultPolicy, Policies, FirstAvailable, AutoChannel
  <1>2. TypeOK
    <2>1. /\ rms \in [Channels -> Levels] /\ loud \in [Channels -> Levels]
          /\ hist \in [Channels -> {"clean", "current", "stale"}]
          /\ since \in 0..Dwell
      BY BlankFacts DEF Init
    <2>2. quiet \in 0..(FailoverAfter + 1) /\ env \in 0..MaxEnv /\ idx \in Mics
      BY MicAssumption DEF Init, Mics
    <2> QED
      BY <1>1, <2>1, <2>2 DEF Init, TypeOK
  <1>3. DemuxInBounds /\ FixedNeverFailsOver
    BY DEF Init, DemuxInBounds, FixedNeverFailsOver
  <1>4. LoopFacts /\ NeverStale /\ ~glued /\ StopFacts /\ LateFacts
    BY DEF Init, LoopFacts, NeverStale, StopFacts, LateFacts
  <1> QED
    BY <1>2, <1>3, <1>4 DEF IInv

\* Steps of the loop that give up the source, or stay without one.
LEMMA TearDownSteps ==
  ASSUME IInv, LoopExit \/ LoopSwitch \/ Failover \/ ReadEnds
  PROVE  IInv'
  <1> USE DEF IInv
  <1>1. CASE LoopExit
    <2>1. TypeOK'
      BY <1>1, TearDownFacts DEF LoopExit, TypeOK, outside, shutdown
    <2>2. (DemuxInBounds /\ FixedNeverFailsOver)'
      BY <1>1, TearDownFacts DEF LoopExit, DemuxInBounds, FixedNeverFailsOver
    <2>3. (LoopFacts /\ NeverStale /\ ~glued /\ StopFacts /\ LateFacts)'
      BY <1>1, TearDownFacts DEF LoopExit, LoopFacts, NeverStale, StopFacts,
         LateFacts, shutdown, Stopping
    <2> QED
      BY <2>1, <2>2, <2>3
  <1>2. CASE LoopSwitch
    <2>1. TypeOK'
      BY <1>2, TearDownFacts, ResolveFacts DEF LoopSwitch, TypeOK, outside, shutdown
    <2>2. (DemuxInBounds /\ FixedNeverFailsOver)'
      BY <1>2, TearDownFacts DEF LoopSwitch, DemuxInBounds, FixedNeverFailsOver
    <2>3. (LoopFacts /\ NeverStale /\ ~glued /\ StopFacts /\ LateFacts)'
      BY <1>2, TearDownFacts, ResolveFacts DEF LoopSwitch, LoopFacts, NeverStale,
         StopFacts, LateFacts, shutdown, Stopping
    <2> QED
      BY <2>1, <2>2, <2>3
  <1>3. CASE Failover
    <2>1. TypeOK'
      BY <1>3, TearDownFacts DEF Failover, TypeOK, outside, shutdown
    <2>2. (DemuxInBounds /\ FixedNeverFailsOver)'
      BY <1>3, TearDownFacts DEF Failover, DemuxInBounds, FixedNeverFailsOver
    <2>3. (LoopFacts /\ NeverStale /\ ~glued /\ StopFacts /\ LateFacts)'
      BY <1>3, TearDownFacts DEF Failover, LoopFacts, NeverStale, StopFacts,
         LateFacts, shutdown
    <2> QED
      BY <2>1, <2>2, <2>3
  <1>4. CASE ReadEnds
    <2>1. TypeOK'
      BY <1>4, TearDownFacts DEF ReadEnds, TypeOK, outside, shutdown
    <2>2. (DemuxInBounds /\ FixedNeverFailsOver)'
      BY <1>4, TearDownFacts DEF ReadEnds, DemuxInBounds, FixedNeverFailsOver
    <2>3. (LoopFacts /\ NeverStale /\ ~glued /\ StopFacts /\ LateFacts)'
      BY <1>4, TearDownFacts DEF ReadEnds, LoopFacts, NeverStale, StopFacts,
         LateFacts, shutdown
    <2> QED
      BY <2>1, <2>2, <2>3
  <1> QED
    BY <1>1, <1>2, <1>3, <1>4

\* Opening a candidate, or failing to.
LEMMA OpenSteps ==
  ASSUME IInv, OpenSource \/ OpenFails
  PROVE  IInv'
  <1> USE DEF IInv
  <1>0. idx \in Mics
    BY DEF TypeOK
  <1>1. CASE OpenSource
    <2>1. TypeOK'
      <3>1. /\ rms' \in [Channels -> Levels]
            /\ hist' \in [Channels -> {"clean", "current", "stale"}]
            /\ since' \in 0..Dwell
        BY <1>1, BlankFacts DEF OpenSource, BootOpened, Boot
      <3>2. quiet' \in 0..(FailoverAfter + 1)
        BY <1>1, MicAssumption DEF OpenSource, BootOpened, Boot
      <3>3. /\ active' \in Mics /\ dead' \in BOOLEAN /\ lost' \in BOOLEAN
            /\ width' \in Widths /\ native' \in BOOLEAN
            /\ wl' \in SUBSET Channels
        BY <1>0, <1>1, EffectiveFacts DEF OpenSource, BootOpened, Boot
      <3> QED
        BY <1>1, <3>1, <3>2, <3>3 DEF OpenSource, BootOpened, Boot, TypeOK, outside, shutdown
    <2>2. DemuxInBounds'
      BY <1>0, <1>1, EffectiveFacts DEF OpenSource, BootOpened, Boot, Opens, DemuxInBounds
    <2>3. FixedNeverFailsOver'
      BY <1>1 DEF OpenSource, BootOpened, Boot, LoopFacts, FixedNeverFailsOver
    <2>4. (LoopFacts /\ NeverStale /\ ~glued /\ StopFacts /\ LateFacts)'
      BY <1>1 DEF OpenSource, BootOpened, Boot, LoopFacts, NeverStale, StopFacts, LateFacts,
         shutdown
    <2> QED
      BY <2>1, <2>2, <2>3, <2>4
  <1>2. CASE OpenFails
    <2>1. idx' \in Mics
      BY <1>0, <1>2, MicAssumption DEF OpenFails, MayWalk, Mics
    <2>2. TypeOK'
      BY <1>2, <2>1 DEF OpenFails, TypeOK, outside, source, shutdown
    <2>3. (DemuxInBounds /\ FixedNeverFailsOver)'
      BY <1>2 DEF OpenFails, DemuxInBounds, FixedNeverFailsOver, LoopFacts, source
    <2>4. (LoopFacts /\ NeverStale /\ ~glued /\ StopFacts /\ LateFacts)'
      BY <1>2 DEF OpenFails, MayWalk, LoopFacts, NeverStale, StopFacts, LateFacts,
         source, shutdown
    <2> QED
      BY <2>2, <2>3, <2>4
  <1> QED
    BY <1>1, <1>2

\* Steps that only move the loop on.
LEMMA MoveSteps ==
  ASSUME IInv, LoopKeep \/ Park \/ ToRead \/ Unparked
  PROVE  IInv'
  <1> USE DEF IInv
  <1>1. CASE LoopKeep
    <2>1. TypeOK'
      BY <1>1 DEF LoopKeep, TypeOK, outside, source, shutdown
    <2>2. (DemuxInBounds /\ FixedNeverFailsOver)'
      BY <1>1, ResolveFacts DEF LoopKeep, DemuxInBounds, FixedNeverFailsOver, source
    <2>3. (LoopFacts /\ NeverStale /\ ~glued /\ StopFacts /\ LateFacts)'
      BY <1>1 DEF LoopKeep, LoopFacts, NeverStale, StopFacts, LateFacts, source,
         shutdown, Stopping
    <2> QED
      BY <2>1, <2>2, <2>3
  <1>2. CASE Park \/ ToRead
    <2>1. TypeOK'
      BY <1>2 DEF Park, ToRead, TypeOK, outside, source, shutdown
    <2>2. (DemuxInBounds /\ FixedNeverFailsOver)'
      BY <1>2 DEF Park, ToRead, DemuxInBounds, FixedNeverFailsOver, source
    <2>3. (LoopFacts /\ NeverStale /\ ~glued /\ StopFacts /\ LateFacts)'
      BY <1>2 DEF Park, ToRead, LoopFacts, NeverStale, StopFacts, LateFacts, source,
         shutdown
    <2> QED
      BY <2>1, <2>2, <2>3
  <1>3. CASE Unparked
    <2>1. TypeOK'
      BY <1>3 DEF Unparked, TypeOK, outside, source
    <2>2. (DemuxInBounds /\ FixedNeverFailsOver)'
      BY <1>3 DEF Unparked, DemuxInBounds, FixedNeverFailsOver, source
    <2>3. (LoopFacts /\ NeverStale /\ ~glued /\ StopFacts /\ LateFacts)'
      BY <1>3 DEF Unparked, LoopFacts, NeverStale, StopFacts, LateFacts, source
    <2> QED
      BY <2>1, <2>2, <2>3
  <1> QED
    BY <1>1, <1>2, <1>3

\* A period, a timeout, a recovery.
LEMMA ReadSteps ==
  ASSUME IInv, ReadFrames \/ ReadTimeout \/ ReadRecovers
  PROVE  IInv'
  <1> USE DEF IInv
  <1>0. /\ \A n \in 0..Dwell : Tick(n, Dwell) \in 0..Dwell
        /\ \A n \in 0..(FailoverAfter + 1) :
              Tick(n, FailoverAfter + 1) \in 0..(FailoverAfter + 1)
        /\ 0 \in 0..Dwell /\ 0 \in 0..(FailoverAfter + 1)
    BY MicAssumption DEF Tick
  <1>1. CASE ReadFrames
    <2> DEFINE n == PickSlot(snap.channel, HeardRms, Tick(since, Dwell))
    <2>1. n \in wl /\ wl \subseteq Channels
      BY <1>1, PickFacts DEF ReadFrames, LoopFacts, TypeOK
    <2>2. slot' = n /\ since' = Held(n) /\ Resample(n) /\ rms' = HeardRms
      BY <1>1 DEF ReadFrames
    <2> HIDE DEF n
    <2>3. since' \in 0..Dwell
      BY <1>0, <2>2 DEF Held, TypeOK
    <2>4. /\ hist' \in [Channels -> {"clean", "current", "stale"}]
          /\ NeverStale' /\ glued' = FALSE
      <3>1. Fed(n) \subseteq Channels
        BY <2>1 DEF Fed
      <3>2. CASE native
        BY <1>1, <2>2, <3>2 DEF ReadFrames, Resample, NeverStale, TypeOK
      <3>3. CASE ~native
        BY <1>1, <2>2, <3>1, <3>3 DEF ReadFrames, Resample, NeverStale, Skipped
      <3> QED
        BY <3>2, <3>3
    <2>5. late = 0 /\ late' \in {0, 1} /\ (late' = 1 => stop)
      BY <1>1 DEF ReadFrames, LateFacts
    <2>6. TypeOK'
      <3>1. /\ slot' \in Channels /\ rms' \in [Channels -> Levels]
            /\ late' \in Nat /\ glued' \in BOOLEAN
        <4>1. HeardRms \in [Channels -> Levels]
          BY HeardFacts
        <4>2. slot' \in Channels
          BY <2>1, <2>2
        <4>3. rms' \in [Channels -> Levels]
          BY <2>2, <4>1
        <4>4. late' \in Nat
          BY <2>5
        <4>5. glued' \in BOOLEAN
          BY <2>4
        <4> QED
          BY <4>2, <4>3, <4>4, <4>5
      <3>2. quiet' \in 0..(FailoverAfter + 1) /\ pc' = "top"
        BY <1>0, <1>1 DEF ReadFrames
      <3>3. UNCHANGED <<policy, dev, loud, env, snap, idx, active, dead, lost, width,
                        native, wl, stop, token, signal>>
        BY <1>1 DEF ReadFrames, outside, shutdown
      <3> QED
        BY <2>3, <2>4, <3>1, <3>2, <3>3 DEF TypeOK
    <2>7. (DemuxInBounds /\ FixedNeverFailsOver)'
      BY <1>1, <2>1, <2>2 DEF ReadFrames, DemuxInBounds, FixedNeverFailsOver
    <2>8. (LoopFacts /\ StopFacts /\ LateFacts)'
      BY <1>1, <2>5 DEF ReadFrames, LoopFacts, StopFacts, LateFacts, shutdown
    <2> QED
      BY <2>4, <2>6, <2>7, <2>8
  <1>2. CASE ReadTimeout
    <2>1. env' \in 0..MaxEnv
      BY <1>2, MicAssumption DEF ReadTimeout, TypeOK
    <2>2. TypeOK'
      BY <1>0, <1>2, <2>1 DEF ReadTimeout, TypeOK, shutdown
    <2>3. (DemuxInBounds /\ FixedNeverFailsOver)'
      BY <1>2 DEF ReadTimeout, DemuxInBounds, FixedNeverFailsOver
    <2>4. (LoopFacts /\ NeverStale /\ ~glued /\ StopFacts /\ LateFacts)'
      BY <1>2 DEF ReadTimeout, LoopFacts, NeverStale, StopFacts, LateFacts, shutdown
    <2> QED
      BY <2>2, <2>3, <2>4
  <1>3. CASE ReadRecovers
    <2>1. /\ hist' \in [Channels -> {"clean", "current", "stale"}]
          /\ NeverStale'
      BY <1>3 DEF ReadRecovers, ResetFir, NeverStale
    <2>2. TypeOK'
      BY <1>3, <2>1 DEF ReadRecovers, TypeOK, outside, shutdown
    <2>3. (DemuxInBounds /\ FixedNeverFailsOver)'
      BY <1>3 DEF ReadRecovers, DemuxInBounds, FixedNeverFailsOver
    <2>4. (LoopFacts /\ ~glued /\ StopFacts /\ LateFacts)'
      BY <1>3 DEF ReadRecovers, LoopFacts, StopFacts, LateFacts, shutdown
    <2> QED
      BY <2>1, <2>2, <2>3, <2>4
  <1> QED
    BY <1>1, <1>2, <1>3

\* Operators, devices, the room and the caller of signal_stop.
LEMMA OutsideSteps ==
  ASSUME IInv,
         \/ \E p \in Policies : SetPolicy(p)
         \/ \E m \in Mics, d \in Device : DeviceChanges(m, d)
         \/ \E l \in [Channels -> Levels] : RoomChanges(l)
         \/ Overrun \/ SignalStore \/ SignalUnpark
  PROVE  IInv'
  <1> USE DEF IInv
  <1>1. ASSUME NEW p \in Policies, SetPolicy(p) PROVE IInv'
    <2>1. TypeOK'
      BY <1>1, MicAssumption DEF SetPolicy, TypeOK, source, Arbitrator, shutdown
    <2>2. (DemuxInBounds /\ FixedNeverFailsOver /\ LoopFacts)'
      BY <1>1 DEF SetPolicy, DemuxInBounds, FixedNeverFailsOver, LoopFacts, source,
         Arbitrator
    <2>3. (NeverStale /\ ~glued /\ StopFacts /\ LateFacts)'
      BY <1>1 DEF SetPolicy, NeverStale, StopFacts, LateFacts, source, Arbitrator,
         shutdown
    <2> QED
      BY <2>1, <2>2, <2>3
  <1>2. ASSUME NEW m \in Mics, NEW d \in Device, DeviceChanges(m, d) PROVE IInv'
    <2>1. TypeOK'
      BY <1>2, MicAssumption DEF DeviceChanges, TypeOK, Arbitrator, shutdown
    <2>2. (DemuxInBounds /\ FixedNeverFailsOver /\ LoopFacts)'
      BY <1>2 DEF DeviceChanges, DemuxInBounds, FixedNeverFailsOver, LoopFacts,
         Arbitrator
    <2>3. (NeverStale /\ ~glued /\ StopFacts /\ LateFacts)'
      BY <1>2 DEF DeviceChanges, NeverStale, StopFacts, LateFacts, Arbitrator,
         shutdown
    <2> QED
      BY <2>1, <2>2, <2>3
  <1>3. ASSUME NEW l \in [Channels -> Levels], RoomChanges(l) PROVE IInv'
    <2>1. TypeOK'
      BY <1>3, MicAssumption DEF RoomChanges, TypeOK, source, Arbitrator, shutdown
    <2>2. (DemuxInBounds /\ FixedNeverFailsOver /\ LoopFacts)'
      BY <1>3 DEF RoomChanges, DemuxInBounds, FixedNeverFailsOver, LoopFacts, source,
         Arbitrator
    <2>3. (NeverStale /\ ~glued /\ StopFacts /\ LateFacts)'
      BY <1>3 DEF RoomChanges, NeverStale, StopFacts, LateFacts, source, Arbitrator,
         shutdown
    <2> QED
      BY <2>1, <2>2, <2>3
  <1>4. CASE SignalStore \/ SignalUnpark
    <2>1. TypeOK'
      BY <1>4, ZenonT(60) DEF SignalStore, SignalUnpark, TypeOK, outside, source, Arbitrator
    <2>2. (DemuxInBounds /\ FixedNeverFailsOver /\ LoopFacts)'
      BY <1>4 DEF SignalStore, SignalUnpark, DemuxInBounds, FixedNeverFailsOver,
         LoopFacts, source, Arbitrator
    <2>3. (NeverStale /\ ~glued /\ StopFacts /\ LateFacts)'
      BY <1>4 DEF SignalStore, SignalUnpark, NeverStale, StopFacts, LateFacts, source,
         Arbitrator
    <2> QED
      BY <2>1, <2>2, <2>3
  <1>5. CASE Overrun
    <2>1. hist' \in [Channels -> {"clean", "current", "stale"}]
      <3>1. \A c \in Channels : Missed(hist[c]) \in {"clean", "current", "stale"}
        BY DEF TypeOK, Missed
      <3> QED
        BY <1>5, <3>1 DEF Overrun
    <2>2. TypeOK'
      BY <1>5, <2>1, MicAssumption DEF Overrun, TypeOK, Arbitrator, shutdown
    <2>3. (DemuxInBounds /\ FixedNeverFailsOver /\ LoopFacts)'
      BY <1>5 DEF Overrun, DemuxInBounds, FixedNeverFailsOver, LoopFacts, Arbitrator
    <2>4. (NeverStale /\ ~glued /\ StopFacts /\ LateFacts)'
      BY <1>5 DEF Overrun, NeverStale, StopFacts, LateFacts, Arbitrator, shutdown
    <2> QED
      BY <2>2, <2>3, <2>4
  <1> QED
    BY <1>1, <1>2, <1>3, <1>4, <1>5

\* Steps that change nothing here.
LEMMA StutterInv ==
  ASSUME IInv, UNCHANGED vars
  PROVE  IInv'
  <1>1. TypeOK'
    BY DEF IInv, vars, outside, source, shutdown, TypeOK
  <1>2. (DemuxInBounds /\ FixedNeverFailsOver /\ LoopFacts)'
    BY DEF IInv, vars, outside, source, shutdown, DemuxInBounds, FixedNeverFailsOver,
       LoopFacts
  <1>3. (NeverStale /\ ~glued /\ StopFacts /\ LateFacts)'
    BY DEF IInv, vars, outside, source, shutdown, NeverStale, StopFacts, LateFacts
  <1> QED
    BY <1>1, <1>2, <1>3 DEF IInv

\* The inductive invariant holds of every behaviour of the arbitrator.
THEOREM Invariance == Spec => []IInv
  <1>1. Init => IInv
    BY InitInv
  <1>2. IInv /\ [Next]_vars => IInv'
    BY TearDownSteps, OpenSteps, MoveSteps, ReadSteps, OutsideSteps, StutterInv
    DEF Next, RunLoop
  <1> QED
    BY <1>1, <1>2, PTL DEF Spec

\* The variables keep their types: in particular the walk over the candidates
\* stays inside the catalogue.
THEOREM TypeCorrect == Spec => []TypeOK
  BY Invariance, PTL DEF IInv

\* Demultiplexing never indexes past a frame, for any whitelist and hardware.
THEOREM DemuxSafe == Spec => []DemuxInBounds
  BY Invariance, PTL DEF IInv

\* Under a Fixed policy no other mic is ever captured from.
THEOREM FixedStays == Spec => []FixedNeverFailsOver
  BY Invariance, PTL DEF IInv

\* No resampler output mixes audio from both sides of a gap: what an overrun
\* leaves in a resampler is gone before a sample is read again, and what a
\* passed-over resampler holds is gone at once.
THEOREM NoGluedAudio == Spec => []ResamplerNeverGlues
  <1>1. IInv => ResamplerNeverGlues
    BY DEF IInv, ResamplerNeverGlues
  <1> QED
    BY <1>1, Invariance, PTL

\* At most one period is published after the stop flag is set.
THEOREM PromptStop == Spec => []AtMostOneLatePeriod
  <1>1. IInv => AtMostOneLatePeriod
    BY DEF IInv, LateFacts, AtMostOneLatePeriod
  <1> QED
    BY <1>1, Invariance, PTL

\* Once signal_only has returned, a park of the thread ends at once.
THEOREM WakesOnStop == Spec => []StopNeverSleeps
  <1>1. IInv => StopNeverSleeps
    BY DEF IInv, StopFacts, StopNeverSleeps
  <1> QED
    BY <1>1, Invariance, PTL

\* FirstAvailable keeps its mic unless the mic, the operator or the daemon
\* gives a reason.
THEOREM Sticky == Spec => StickyMic
  <1> DEFINE Reason == active # NoMic /\ active' # active =>
                 dead \/ lost \/ quiet > FailoverAfter \/ stop
                      \/ policy.mic \notin {FirstAvailable, active}
  <1>1. IInv /\ [Next]_vars => [Reason]_vars
    <2> SUFFICES ASSUME IInv, Next, active # NoMic, active' # active
                 PROVE  Reason
      OBVIOUS
    <2>1. CASE LoopExit
      BY <2>1 DEF LoopExit, Stopping
    <2>2. CASE LoopSwitch
      BY <2>2 DEF LoopSwitch, ResolveDesired
    <2>3. CASE Failover
      BY <2>3 DEF Failover, TimedOut
    <2>4. CASE ReadEnds
      BY <2>4 DEF ReadEnds
    <2>5. CASE OpenSource
      BY <2>5 DEF OpenSource, BootOpened, IInv, LoopFacts
    <2>6. CASE \/ LoopKeep \/ OpenFails \/ Park \/ ToRead \/ Unparked
               \/ ReadFrames \/ ReadTimeout \/ ReadRecovers
      BY <2>6 DEF LoopKeep, OpenFails, Park, ToRead, Unparked, ReadFrames, ReadTimeout,
         ReadRecovers, source
    <2>7. CASE \/ \E p \in Policies : SetPolicy(p)
               \/ \E m \in Mics, d \in Device : DeviceChanges(m, d)
               \/ \E l \in [Channels -> Levels] : RoomChanges(l)
               \/ Overrun \/ SignalStore \/ SignalUnpark
      BY <2>7 DEF SetPolicy, DeviceChanges, RoomChanges, Overrun, SignalStore, SignalUnpark,
         source
    <2> QED
      BY <2>1, <2>2, <2>3, <2>4, <2>5, <2>6, <2>7 DEF Next, RunLoop
  <1> QED
    BY <1>1, Invariance, PTL DEF Spec, StickyMic
============================================================================
