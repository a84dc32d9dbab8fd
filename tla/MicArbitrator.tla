--------------------------- MODULE MicArbitrator ---------------------------
(***************************************************************************)
(* The mic-arbitrator thread (modules/audio_io/mic_arbitrator.rs): it      *)
(* opens one capture source at a time, picks the channel to publish, and   *)
(* pushes it into the audio buffer, while the API changes the policy,      *)
(* devices come and go, and the daemon asks it to stop.                    *)
(*                                                                         *)
(* A candidate is its position in the launch catalogue.  An effective      *)
(* whitelist is sorted and has no duplicates (intersect_whitelist), so a   *)
(* slot is named by its channel.  Loudness is a small integer; the EMA     *)
(* moves a slot's RMS one level per period towards what the channel hears. *)
(* Time is counted in periods, up to the two thresholds it is compared     *)
(* with: since (dwell) and quiet (mic_failover_after).                     *)
(***************************************************************************)
EXTENDS Integers

CONSTANTS
    NMics,          \* candidates of the catalogue
    Channels,       \* channel indices a whitelist may name
    Whitelist,      \* [1..NMics -> SUBSET Channels]: MicCandidate.channels
    Widths,         \* channel counts a device may negotiate
    MaxLevel,       \* loudest RMS level
    HNum, HDen,     \* hysteresis_linear = HNum / HDen
    Dwell,          \* periods a channel holds before the next switch
    FailoverAfter,  \* periods without data before FirstAvailable fails over
    MaxEnv          \* bound: changes made by devices, operators and the room

MAX_CHANNEL_INDEX == 1023   \* MicCandidate::validate refuses more

ASSUME MicAssumption ==
    /\ NMics \in Nat \ {0} /\ MaxLevel \in Nat /\ MaxEnv \in Nat
    /\ Channels \subseteq 0..MAX_CHANNEL_INDEX /\ Widths \subseteq Nat
    /\ Whitelist \in [1..NMics -> SUBSET Channels]
    /\ HDen \in Nat \ {0} /\ HNum \in Nat /\ HNum >= HDen
    /\ Dwell \in Nat /\ FailoverAfter \in Nat

Mics == 1..NMics
NoMic == 0
NoSlot == -1
FirstAvailable == 0         \* MicSelection; Fixed { id } is the candidate
AutoChannel == -1           \* ChannelSelection; Fixed { channel } is its index
Levels == 0..MaxLevel

\* What a candidate's hardware does: opens and delivers, opens and stays
\* silent, or is not there; and what it negotiates at open.
Device == [state : {"live", "silent", "gone"}, width : Widths, native : BOOLEAN]

\* MicPolicy::validate_against: only such policies reach the settings cell.
Policies ==
    {p \in [mic : {FirstAvailable} \cup Mics, channel : {AutoChannel} \cup Channels] :
        p.mic # FirstAvailable => p.channel \in {AutoChannel} \cup Whitelist[p.mic]}

VARIABLES
    policy,    \* the live MicSettings cell
    dev,       \* [Mics -> Device]
    loud,      \* [Channels -> Levels]: what the room sounds like
    pc,        \* where the run loop is
    snap,      \* the policy this iteration works with
    idx,       \* candidate being opened
    active,    \* open source, NoMic if none
    dead,      \* its device was unplugged since it was opened
    lost,      \* its driver dropped audio (overrun, suspend); the next read fails
    width, native, wl,  \* cached_n_channels, no resampler, cached_whitelist
    rms,       \* [Channels -> Levels]: per_slot
    hist,      \* [Channels -> history]: what a slot's resampler holds
    slot,      \* active_slot
    since,     \* periods since last_switch_at, Dwell when None
    quiet,     \* periods since last_data_at
    stop, token, signal,  \* stop flag, unpark token, progress of signal_only
    late,      \* periods published after stop was set
    glued,     \* a resampler joined samples from both sides of a gap
    env        \* changes of the environment so far

source == <<active, dead, lost, width, native, wl, rms, hist, slot, since>>
outside == <<policy, dev, loud, env>>
shutdown == <<stop, token, signal>>
vars == <<outside, pc, snap, idx, source, quiet, shutdown, late, glued>>

DefaultPolicy == [mic |-> FirstAvailable, channel |-> AutoChannel]

\* Start-up: the hardware is present, in any of its shapes.
Init ==
    /\ policy = DefaultPolicy /\ snap = DefaultPolicy
    /\ dev \in {d \in [Mics -> Device] : \A m \in Mics : d[m].state = "live"}
    /\ loud = [c \in Channels |-> 0]
    /\ pc = "top" /\ idx = 1
    /\ active = NoMic /\ dead = FALSE /\ lost = FALSE /\ width = 0 /\ native = TRUE /\ wl = {}
    /\ rms = [c \in Channels |-> 0] /\ hist = [c \in Channels |-> "clean"]
    /\ slot = NoSlot /\ since = Dwell /\ quiet = 0
    /\ stop = FALSE /\ token = FALSE /\ signal = "idle"
    /\ late = 0 /\ glued = FALSE /\ env = 0

----------------------------------------------------------------------------
\* Lifecycle of the source.

TearDown ==
    /\ active' = NoMic /\ dead' = FALSE /\ lost' = FALSE
    /\ width' = 0 /\ native' = TRUE /\ wl' = {}
    /\ rms' = [c \in Channels |-> 0]
    /\ hist' = [c \in Channels |-> "clean"]
    /\ slot' = NoSlot /\ since' = Dwell

\* A fresh source: new resamplers, no slot, no switch yet, data "now".
Boot(m, w, isNative, list) ==
    /\ active' = m /\ dead' = FALSE /\ lost' = FALSE
    /\ width' = w /\ native' = isNative /\ wl' = list
    /\ rms' = [c \in Channels |-> 0]
    /\ hist' = [c \in Channels |-> "clean"]
    /\ slot' = NoSlot /\ since' = Dwell
    /\ quiet' = 0

\* resolve_desired_idx.  An active source is always in the catalogue, which
\* never changes; with an empty catalogue the loop would only park.
ResolveDesired(p, cur) ==
    IF p.mic # FirstAvailable THEN p.mic
    ELSE IF cur # NoMic THEN cur ELSE 1

Stopping == stop

LoopExit ==
    /\ pc = "top" /\ Stopping
    /\ pc' = "exited"
    /\ TearDown
    /\ UNCHANGED <<outside, snap, idx, quiet, shutdown, late, glued>>

\* Top of the loop: one settings snapshot, then keep the source ...
LoopKeep ==
    /\ pc = "top" /\ ~Stopping
    /\ ResolveDesired(policy, active) = active
    /\ snap' = policy
    /\ pc' = "timer"
    /\ UNCHANGED <<outside, idx, source, quiet, shutdown, late, glued>>

\* ... or drop it and open the desired candidate.
LoopSwitch ==
    /\ pc = "top" /\ ~Stopping
    /\ ResolveDesired(policy, active) # active
    /\ snap' = policy
    /\ idx' = ResolveDesired(policy, active)
    /\ TearDown
    /\ pc' = "open"
    /\ UNCHANGED <<outside, quiet, shutdown, late, glued>>

\* Mutant of Effective: the whitelist is taken as the operator wrote it.
EffectiveUnchecked(m) == Whitelist[m]

\* intersect_whitelist; an empty result refuses the open.
Effective(m) == {c \in Whitelist[m] : c < dev[m].width}

Opens(m) == dev[m].state # "gone" /\ Effective(m) # {}

\* The end of AlsaSource::open: the source has the channels and the rate the
\* driver granted, whatever was asked for.
BootOpened(m) == Boot(m, dev[m].width, dev[m].native, Effective(m))

OpenSource ==
    /\ pc = "open" /\ Opens(idx)
    /\ BootOpened(idx)
    /\ pc' = "timer"
    /\ UNCHANGED <<outside, snap, idx, shutdown, late, glued>>

\* Mutant of MayWalk: only the preferred candidate is ever tried.
MayWalkNever == FALSE

MayWalk == snap.mic = FirstAvailable /\ idx < NMics

\* A failed open: open_starting_from tries the next candidate under
\* FirstAvailable, and otherwise no source is open this iteration.
OpenFails ==
    /\ pc = "open" /\ ~Opens(idx)
    /\ IF MayWalk THEN idx' = idx + 1 /\ pc' = "open"
                  ELSE idx' = idx /\ pc' = "timer"
    /\ UNCHANGED <<outside, snap, source, quiet, shutdown, late, glued>>

----------------------------------------------------------------------------
\* After the open: the failover timer, the park, the read.

TimedOut == active # NoMic /\ snap.mic = FirstAvailable /\ quiet > FailoverAfter

Failover ==
    /\ pc = "timer" /\ TimedOut
    /\ TearDown
    /\ pc' = "top"
    /\ UNCHANGED <<outside, snap, idx, quiet, shutdown, late, glued>>

Park ==
    /\ pc = "timer" /\ active = NoMic
    /\ pc' = "parked"
    /\ UNCHANGED <<outside, snap, idx, source, quiet, shutdown, late, glued>>

ToRead ==
    /\ pc = "timer" /\ active # NoMic /\ ~TimedOut
    /\ pc' = "read"
    /\ UNCHANGED <<outside, snap, idx, source, quiet, shutdown, late, glued>>

\* park_timeout returns on the token, after the retry interval, or for no
\* reason; each of them consumes the token.
Unparked ==
    /\ pc = "parked"
    /\ token' = FALSE
    /\ pc' = "top"
    /\ UNCHANGED <<outside, snap, idx, source, quiet, stop, signal, late, glued>>

----------------------------------------------------------------------------
\* Reads.  Each is bounded by the poll timeout of two periods.

\* The room moved: an EMA step brings an RMS closer to what is heard.
Ema(r, heard) ==
    IF r < heard THEN r + 1 ELSE IF r > heard THEN r - 1 ELSE r

HeardRms == [c \in Channels |-> IF c \in wl THEN Ema(rms[c], loud[c]) ELSE 0]

\* max_by keeps the last of equal maxima.
Loudest(r) ==
    CHOOSE c \in wl : \A d \in wl : r[d] < r[c] \/ (r[d] = r[c] /\ d <= c)

Beats(r, c, d) == r[c] * HDen > r[d] * HNum

\* pick_slot, with held periods since the last switch.
PickSlot(chan, r, held) ==
    IF chan \in wl THEN chan
    ELSE IF slot = NoSlot THEN Loudest(r)
    ELSE IF Beats(r, Loudest(r), slot) /\ held >= Dwell THEN Loudest(r)
    ELSE slot

Tick(n, cap) == IF n < cap THEN n + 1 ELSE n

\* Mutant of Held: the switch time is renewed in every period.
HeldSince(n) == 0

\* last_switch_at moves only when the slot changes.
Held(n) == IF n = slot THEN Tick(since, Dwell) ELSE 0

\* Resamplers fed this period: all of them, unless the channel is pinned.
Fed(n) == IF snap.channel \in wl THEN {n} ELSE wl

\* What a resampler holds once its channel went on without it: the samples
\* from before the gap.
Missed(h) == IF h = "current" THEN "stale" ELSE h

\* A resampler that is not fed is reset.
Skipped(h) == "clean"

Resample(n) ==
    IF native THEN UNCHANGED <<hist, glued>>
    ELSE /\ glued' = (glued \/ \E c \in Fed(n) : hist[c] = "stale")
         /\ hist' = [c \in Channels |->
                        IF c \in Fed(n) THEN "current" ELSE Skipped(Missed(hist[c]))]

\* A period arrives: process_period, from demux to the push.
ReadFrames ==
    /\ pc = "read" /\ ~dead /\ ~lost /\ dev[active].state = "live"
    /\ LET n == PickSlot(snap.channel, HeardRms, Tick(since, Dwell))
       IN /\ slot' = n
          /\ since' = Held(n)
          /\ Resample(n)
    /\ rms' = HeardRms
    /\ quiet' = 0
    /\ late' = IF stop THEN late + 1 ELSE late
    /\ pc' = "top"
    /\ UNCHANGED <<outside, snap, idx, active, dead, lost, width, native, wl, shutdown>>

\* The poll times out, on a wedged device, or once in a while on a live one
\* (a signal, or nothing to read after all).  What a stalled device delivers
\* later follows what it delivered before, so this is no gap.
ReadTimeout ==
    /\ pc = "read" /\ ~dead
    /\ \/ dev[active].state = "silent" /\ UNCHANGED env
       \/ dev[active].state = "live" /\ env < MaxEnv /\ env' = env + 1
    /\ since' = Tick(since, Dwell)
    /\ quiet' = Tick(quiet, FailoverAfter + 1)
    /\ pc' = "top"
    /\ UNCHANGED <<policy, dev, loud, snap, idx, active, dead, lost, width, native,
                   wl, rms, hist, slot, shutdown, late, glued>>

\* Mutant of ResetFir: the resamplers go on with what they hold.
ResetFirSkipped(h) == h

\* reset_per_channel_fir.
ResetFir(h) == [c \in Channels |-> "clean"]

\* The read reports the overrun or suspend, try_recover restarts the capture,
\* and every resampler is reset; levels, slot and dwell are kept.
ReadRecovers ==
    /\ pc = "read" /\ ~dead /\ lost
    /\ lost' = FALSE
    /\ hist' = ResetFir(hist)
    /\ pc' = "top"
    /\ UNCHANGED <<outside, snap, idx, active, dead, width, native, wl, rms, slot,
                   since, quiet, shutdown, late, glued>>

\* EndOfStream, or an error try_recover cannot repair.
ReadEnds ==
    /\ pc = "read" /\ (dead \/ lost)
    /\ TearDown
    /\ pc' = "top"
    /\ UNCHANGED <<outside, snap, idx, quiet, shutdown, late, glued>>

----------------------------------------------------------------------------
\* Everyone else.

Arbitrator == <<pc, snap, idx, quiet, late, glued>>

\* try_set_policy or a config reload publishes a valid policy.
SetPolicy(p) ==
    /\ env < MaxEnv /\ env' = env + 1
    /\ policy' = p
    /\ UNCHANGED <<dev, loud, source, Arbitrator, shutdown>>

\* Hot-plug: a device appears, maybe another model, wedges or comes back to
\* life, or goes away; a source open on it then is dead for good.
DeviceChanges(m, d) ==
    /\ env < MaxEnv /\ env' = env + 1
    /\ d # dev[m]
    /\ dev[m].state # "gone" => d.width = dev[m].width /\ d.native = dev[m].native
    /\ dev' = [dev EXCEPT ![m] = d]
    /\ dead' = (dead \/ (m = active /\ d.state = "gone"))
    /\ UNCHANGED <<policy, loud, active, lost, width, native, wl, rms, hist, slot,
                   since, Arbitrator, shutdown>>

\* The driver's buffer overruns, or the device is suspended: audio is lost
\* from here until a recovery, and the resamplers hold what came before.
Overrun ==
    /\ env < MaxEnv /\ env' = env + 1
    /\ active # NoMic /\ ~dead /\ ~lost /\ dev[active].state = "live"
    /\ lost' = TRUE
    /\ hist' = [c \in Channels |-> Missed(hist[c])]
    /\ UNCHANGED <<policy, dev, loud, active, dead, width, native, wl, rms, slot,
                   since, Arbitrator, shutdown>>

RoomChanges(l) ==
    /\ env < MaxEnv /\ env' = env + 1
    /\ loud' = l
    /\ UNCHANGED <<policy, dev, source, Arbitrator, shutdown>>

\* signal_only / signal_and_join: store the flag ...
SignalStore ==
    /\ signal = "idle"
    /\ stop' = TRUE /\ signal' = "stored"
    /\ UNCHANGED <<outside, source, Arbitrator, token>>

\* ... then wake a park, or leave the token for the next one.
SignalUnpark ==
    /\ signal = "stored"
    /\ token' = TRUE /\ signal' = "done"
    /\ UNCHANGED <<outside, source, Arbitrator, stop>>

----------------------------------------------------------------------------
RunLoop ==
    \/ LoopExit \/ LoopKeep \/ LoopSwitch \/ OpenSource \/ OpenFails
    \/ Failover \/ Park \/ ToRead \/ Unparked
    \/ ReadFrames \/ ReadTimeout \/ ReadRecovers \/ ReadEnds

Next ==
    \/ RunLoop
    \/ \E p \in Policies : SetPolicy(p)
    \/ \E m \in Mics, d \in Device : DeviceChanges(m, d)
    \/ \E l \in [Channels -> Levels] : RoomChanges(l)
    \/ Overrun \/ SignalStore \/ SignalUnpark

\* The thread is scheduled (SCHED_FIFO or not), every read is bounded by its
\* poll timeout and every park by the retry interval.
Spec == Init /\ [][Next]_vars /\ WF_vars(RunLoop)

----------------------------------------------------------------------------
\* Every variable stays in its type: the walk over the candidates stays in the
\* catalogue and the time counters at their thresholds.
TypeOK ==
    /\ policy \in Policies /\ snap \in Policies
    /\ dev \in [Mics -> Device] /\ loud \in [Channels -> Levels]
    /\ pc \in {"top", "open", "timer", "read", "parked", "exited"}
    /\ idx \in Mics /\ active \in Mics \cup {NoMic} /\ dead \in BOOLEAN /\ lost \in BOOLEAN
    /\ width \in Widths \cup {0} /\ native \in BOOLEAN
    /\ wl \in SUBSET Channels
    /\ rms \in [Channels -> Levels]
    /\ hist \in [Channels -> {"clean", "current", "stale"}]
    /\ slot \in Channels \cup {NoSlot}
    /\ since \in 0..Dwell /\ quiet \in 0..(FailoverAfter + 1)
    /\ stop \in BOOLEAN /\ token \in BOOLEAN
    /\ signal \in {"idle", "stored", "done"}
    /\ late \in Nat /\ glued \in BOOLEAN /\ env \in 0..MaxEnv

\* What single_pass_demux_and_rms marks SAFETY-BY-CONSTRUCTION: across every
\* reopen, on hardware of any width, each slot's channel is below the width
\* of the interleaved frame, there is a slot to publish, and the active one
\* belongs to the source that is open now.
DemuxInBounds ==
    active # NoMic =>
        /\ wl # {} /\ \A c \in wl : c < width
        /\ slot \in wl \cup {NoSlot}

\* MicSelection::Fixed "does not fail over to another candidate": while the
\* loop works under a Fixed policy, the open source is the named one.
FixedNeverFailsOver ==
    pc \in {"timer", "read"} /\ snap.mic # FirstAvailable
        => active \in {NoMic, snap.mic}

\* FirstAvailable is sticky: a source is given up only because its device
\* left it or lost audio beyond repair, it stayed silent past mic_failover_after, the operator pinned
\* another mic, or the thread is stopping.
StickyMic ==
    [][active # NoMic /\ active' # active =>
        dead \/ lost \/ quiet > FailoverAfter \/ stop
             \/ policy.mic \notin {FirstAvailable, active}]_vars

\* The reason for reset_per_channel_fir and for resetting skipped resamplers:
\* no published sample is filtered from audio on both sides of a gap, wherever
\* the driver loses audio and a resampler sits out a pinned channel, and
\* however recoveries, timeouts, policy changes and reopens come in between.
ResamplerNeverGlues == ~glued

\* signal_stop: "once this call returns, the run loop exits within ~one
\* capture period": at most one period is published after the flag is set.
AtMostOneLatePeriod == late <= 1

\* The unpark "token is held until consumed": when signal_only has returned,
\* the thread is not left asleep for the rest of the retry interval.
StopNeverSleeps == pc = "parked" /\ signal = "done" => token

\* Loudest channel wins: in Auto on a live mic, no channel keeps beating the
\* published one by the hysteresis margin.
AutoTracksLoudest ==
    []<>(\/ active = NoMic \/ slot = NoSlot \/ snap.channel \in wl
         \/ dev[active].state # "live" \/ dead
         \/ ~ \E c \in wl : Beats(rms, c, slot))

Usable(m) == dev[m].state = "live" /\ Effective(m) # {}

Capturing == active # NoMic /\ ~dead /\ dev[active].state = "live"

\* FirstAvailable finds a working mic when the others are absent or refuse
\* to open.
FindsWorkingMic ==
    []<>(\/ stop \/ policy.mic # FirstAvailable \/ Capturing
         \/ \A m \in Mics : ~Usable(m)
         \/ \E m \in Mics : dev[m].state = "silent")

============================================================================
