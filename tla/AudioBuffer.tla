---------------------------- MODULE AudioBuffer ----------------------------
(***************************************************************************)
(* The single-writer / multi-reader sample ring of modules/audio_buffer.rs *)
(* together with the consumer loop both of its readers run (the inference  *)
(* engine and the Opus encoder).  A sample is represented by its absolute  *)
(* position in the stream, so a read is correct exactly when slot i holds  *)
(* tail + i.  Cell stores, cell loads, the two loads of head and the       *)
(* Release store of head are separate steps.                               *)
(*                                                                         *)
(* Memory order: steps interleave sequentially.  The Release store of head *)
(* orders it after the cell stores of its push, and the fence in peek_into *)
(* orders the recheck after the cell loads; both orders are program order  *)
(* here.                                                                   *)
(***************************************************************************)
EXTENDS Integers

CONSTANTS
    Capacity,   \* ring size
    Readers,    \* consumers, each with a tail of its own
    Window,     \* [Readers -> Nat]: samples per peek
    Hop,        \* [Readers -> Nat]: samples consumed after a Ready peek
    Backlog,    \* [Readers -> Nat]: argument of reader_at and seek_latest
    Pausing,    \* readers that stop while nobody listens (the Opus encoder)
    MaxHead     \* bound: the writer stops once head would pass it

SafetyMargin == Capacity \div 4
CapacityMinusMargin == Capacity - SafetyMargin

\* AudioBuffer::new panics unless the capacity is a power of two >= 4; that
\* is what makes `pos & (capacity - 1)` the remainder used below.
ASSUME CapacityAssumption ==
    /\ Capacity \in Nat
    /\ Capacity >= 4
    /\ \E k \in 2..Capacity : Capacity = 2^k

\* peek_into panics on windows larger than safe_peek_window(); seek_latest
\* is called with WaveformLen or BACKLOG_SAMPLES, both below it.
ASSUME ConsumerAssumption ==
    /\ Window \in [Readers -> 1..CapacityMinusMargin]
    /\ Hop \in [Readers -> Nat \ {0}]
    /\ Backlog \in [Readers -> 1..CapacityMinusMargin]
    /\ Pausing \subseteq Readers

ASSUME BoundAssumption == MaxHead \in Nat

VARIABLES
    cells,        \* ring contents: position last stored in each cell
    head,         \* published sample count
    writerTaken,  \* a Writer handle exists
    pushLen,      \* length of the push in progress, 0 when none
    written,      \* cells of that push already stored
    readerPc,     \* [Readers -> control point of the consumer loop]
    tail,         \* [Readers -> first unconsumed position]
    out,          \* [Readers -> scratch buffer of the caller]
    copied        \* [Readers -> cells loaded by the peek in progress]

writerVars == <<cells, head, writerTaken, pushLen, written>>
readerVars == <<readerPc, tail, out, copied>>
ringVars == <<writerVars, readerVars>>

NoSample == -1
Slots == 0..(Capacity - 1)
Sample == Nat \cup {NoSample}

IndexOf(pos) == pos % Capacity
SaturatingSub(a, b) == IF a >= b THEN a - b ELSE 0

\* "copy" is inside peek_into between its two loads of head; "ready" and
\* "lagged" are its two outcomes that the caller still has to act on.
Control == {"closed", "paused", "idle", "copy", "ready", "lagged"}

RingInit ==
    /\ cells = [c \in Slots |-> NoSample]
    /\ head = 0
    /\ writerTaken = FALSE
    /\ pushLen = 0
    /\ written = 0
    /\ readerPc = [r \in Readers |-> "closed"]
    /\ tail = [r \in Readers |-> 0]
    /\ out = [r \in Readers |-> [i \in Slots |-> NoSample]]
    /\ copied = [r \in Readers |-> 0]

----------------------------------------------------------------------------
\* The writer.

\* take_writer: a second handle panics, so the step needs a clear flag.
TakeWriter ==
    /\ ~writerTaken
    /\ writerTaken' = TRUE
    /\ UNCHANGED <<cells, head, pushLen, written, readerVars>>

\* Writer::drop, between pushes (push itself cannot unwind half way).
DropWriter ==
    /\ writerTaken
    /\ pushLen = 0
    /\ writerTaken' = FALSE
    /\ UNCHANGED <<cells, head, pushLen, written, readerVars>>

\* Writer::push up to the first store: empty batches return, batches above
\* the safety margin panic before touching the ring.
PushBegin(n) ==
    /\ writerTaken
    /\ pushLen = 0
    /\ n # 0
    /\ n <= SafetyMargin
    /\ head + n <= MaxHead
    /\ pushLen' = n
    /\ written' = 0
    /\ UNCHANGED <<cells, head, writerTaken, readerVars>>

\* One Relaxed store of the two store loops; the second loop continues at
\* cell 0, which is what the remainder does.
PushCell ==
    /\ written < pushLen
    /\ cells' = [cells EXCEPT ![IndexOf(head + written)] = head + written]
    /\ written' = written + 1
    /\ UNCHANGED <<head, writerTaken, pushLen, readerVars>>

\* The Release store of head.
PushPublish ==
    /\ pushLen > 0
    /\ written = pushLen
    /\ head' = head + pushLen
    /\ pushLen' = 0
    /\ written' = 0
    /\ UNCHANGED <<cells, writerTaken, readerVars>>

----------------------------------------------------------------------------
\* The readers.

\* reader() (behind = 0) and reader_at(behind).
Open(r, behind) ==
    /\ readerPc[r] = "closed"
    /\ tail' = [tail EXCEPT ![r] = SaturatingSub(head, behind)]
    /\ readerPc' = [readerPc EXCEPT ![r] =
                       IF r \in Pausing THEN "paused" ELSE "idle"]
    /\ UNCHANGED <<writerVars, out, copied>>

\* opus_stream::run between chunks: the last subscriber left; the reader is
\* held but not read while the writer goes on.
Pause(r) ==
    /\ r \in Pausing
    /\ readerPc[r] = "idle"
    /\ readerPc' = [readerPc EXCEPT ![r] = "paused"]
    /\ UNCHANGED <<writerVars, tail, out, copied>>

\* A subscriber arrived: seek_latest(BACKLOG_SAMPLES), then the active loop.
Resume(r) ==
    /\ readerPc[r] = "paused"
    /\ tail' = [tail EXCEPT ![r] = SaturatingSub(head, Backlog[r])]
    /\ readerPc' = [readerPc EXCEPT ![r] = "idle"]
    /\ UNCHANGED <<writerVars, out, copied>>

\* peek_into up to the copy loop.  Wait leaves no trace: the caller polls.
PeekBegin(r) ==
    LET avail == SaturatingSub(head, tail[r]) IN
    /\ readerPc[r] = "idle"
    /\ avail >= Window[r]
    /\ readerPc' = [readerPc EXCEPT ![r] =
                IF avail > CapacityMinusMargin THEN "lagged" ELSE "copy"]
    /\ copied' = [copied EXCEPT ![r] = 0]
    /\ UNCHANGED <<writerVars, tail, out>>

\* One Relaxed load of the two copy loops.
PeekCell(r) ==
    /\ readerPc[r] = "copy"
    /\ copied[r] < Window[r]
    /\ out' = [out EXCEPT ![r][copied[r]] = cells[IndexOf(tail[r] + copied[r])]]
    /\ copied' = [copied EXCEPT ![r] = copied[r] + 1]
    /\ UNCHANGED <<writerVars, readerPc, tail>>

\* Mutant of PeekRecheck: the result of the first bounds check is trusted.
PeekNoRecheck(r) ==
    /\ readerPc[r] = "copy"
    /\ copied[r] = Window[r]
    /\ readerPc' = [readerPc EXCEPT ![r] = "ready"]
    /\ UNCHANGED <<writerVars, tail, out, copied>>

\* The recheck of head after the acquire fence.
PeekRecheck(r) ==
    /\ readerPc[r] = "copy"
    /\ copied[r] = Window[r]
    /\ readerPc' = [readerPc EXCEPT ![r] =
                IF SaturatingSub(head, tail[r]) <= CapacityMinusMargin
                THEN "ready" ELSE "lagged"]
    /\ UNCHANGED <<writerVars, tail, out, copied>>

\* The consumer uses the window, waits until available() covers the hop and
\* advances.
Advance(r) ==
    /\ readerPc[r] = "ready"
    /\ SaturatingSub(head, tail[r]) >= Hop[r]
    /\ tail' = [tail EXCEPT ![r] = tail[r] + Hop[r]]
    /\ readerPc' = [readerPc EXCEPT ![r] = "idle"]
    /\ UNCHANGED <<writerVars, out, copied>>

\* Mutant of SeekLatest: seek to the oldest sample the ring still holds.
SeekOldest(r) ==
    /\ readerPc[r] = "lagged"
    /\ tail' = [tail EXCEPT ![r] = SaturatingSub(head, Capacity)]
    /\ readerPc' = [readerPc EXCEPT ![r] = "idle"]
    /\ UNCHANGED <<writerVars, out, copied>>

\* The consumer drops its backlog after Lagged.
SeekLatest(r) ==
    /\ readerPc[r] = "lagged"
    /\ tail' = [tail EXCEPT ![r] = SaturatingSub(head, Backlog[r])]
    /\ readerPc' = [readerPc EXCEPT ![r] = "idle"]
    /\ UNCHANGED <<writerVars, out, copied>>

----------------------------------------------------------------------------

WriterNext ==
    \/ TakeWriter
    \/ DropWriter
    \/ \E n \in 0..Capacity : PushBegin(n)
    \/ PushCell
    \/ PushPublish

Attach(r) ==
    \/ \E behind \in {0, Backlog[r]} : Open(r, behind)
    \/ Pause(r)
    \/ Resume(r)

ReaderStep(r) ==
    \/ PeekBegin(r)
    \/ PeekCell(r)
    \/ PeekRecheck(r)
    \/ Advance(r)
    \/ SeekLatest(r)

RingNext ==
    \/ WriterNext
    \/ \E r \in Readers : ReaderStep(r) \/ Attach(r)

RingSpec == RingInit /\ [][RingNext]_ringVars

\* The engine loop runs on its own thread and the encoder on the runtime:
\* an enabled step of either is eventually taken, and a push once started
\* is finished.  Nothing obliges the microphone to produce samples.
Fairness ==
    /\ \A r \in Readers : WF_ringVars(ReaderStep(r))
    /\ WF_ringVars(PushCell \/ PushPublish)

FairSpec == RingSpec /\ Fairness

----------------------------------------------------------------------------
\* Properties.

\* Every variable stays in its type; positions never pass the bound.
RingTypeOK ==
    /\ cells \in [Slots -> Sample]
    /\ head \in 0..MaxHead
    /\ writerTaken \in BOOLEAN
    /\ pushLen \in 0..SafetyMargin
    /\ written \in 0..pushLen
    /\ head + pushLen <= MaxHead
    /\ readerPc \in [Readers -> Control]
    /\ tail \in [Readers -> Nat]
    /\ out \in [Readers -> [Slots -> Sample]]
    /\ copied \in [Readers -> Nat]
    /\ \A r \in Readers : copied[r] <= Window[r]

\* peek_into returning Ready means the caller's buffer holds exactly the
\* window [tail, tail + n): no sample of a later lap of the ring is mixed in,
\* however the push in progress and the copy loop interleave ("false-negative
\* Ready is not" possible, module documentation of audio_buffer.rs).
ReadyIsUntorn ==
    \A r \in Readers :
        readerPc[r] = "ready" =>
            \A i \in 0..(Window[r] - 1) : out[r][i] = tail[r] + i

\* The assertion of Reader::advance: no reader's tail is ever past the
\* published head, although the hop may exceed the window that was peeked.
TailNeverPastHead == \A r \in Readers : tail[r] <= head

\* The last Capacity positions stored, the unpublished ones included, are in
\* the cells their positions name ("samples that fall outside
\* [head - capacity, head) are overwritten", Writer::push).
RecentSamplesIntact ==
    \A p \in 0..(head + written - 1) :
        p >= head + written - Capacity => cells[IndexOf(p)] = p

\* Resynchronising after Lagged skips forward: the consumer never sees again
\* a sample it has already consumed.
ResyncSkipsForward ==
    [][\A r \in Readers :
          readerPc[r] = "lagged" /\ readerPc'[r] = "idle"
            => tail'[r] > tail[r]]_ringVars

\* When the microphone goes quiet, each consumer that is not paused works its
\* way to the live edge: the Lagged / seek_latest / peek loop does not spin
\* for ever.
ReadersReachLiveEdge ==
    \A r \in Readers :
        [](readerPc[r] # "closed" =>
             <>(\/ readerPc[r] = "paused"
                \/ head - tail[r] < Window[r]
                \/ head - tail[r] < Hop[r]))

============================================================================
