# TLA+ verification of AL

AL is a daemon for an edge board (Rust, one process): it captures audio from a
microphone array, streams it as Opus, runs a sound classifier on it, lets users
collect datasets and fine-tune small classifier heads, and switches the running
head without a restart. This directory holds its formal development: TLA+
modules translated from the source under `src/modules/`, TLC configurations,
and TLAPS proofs. `PROJECT.json` maps every definition that models code to the
lines it models and lists runs, mutants, hazards, findings and theorems.

    tlc -workers 2 -config AudioBuffer.cfg MCAudioBuffer     # any run
    tlapm AudioProofs.tla                                    # any proof module

Paths below are relative to `src/modules/`.

## 1. Inventory

### Audio path

| component | state | operations | talks to |
|---|---|---|---|
| `audio_buffer.rs` | ring of atomic cells, `head`, writer-taken flag; a `tail` per reader | `take_writer`, `push`, `reader`, `reader_at`, `peek_into`, `advance`, `seek_latest` | written by the arbitrator, read by the encoder and the engine, without locks |
| `audio_io/mic_arbitrator.rs` | open source, cached whitelist and width, per-slot RMS, resamplers, active slot, switch and data times; stop flag and unpark token | `run_loop` (resolve, open, walk, failover, park, read, demux, pick, resample, push), `signal_stop`, `stop` | reads the mic-settings cell each period, writes the ring, driven by hardware |
| `audio_io/source*.rs` | ALSA handle, negotiated width, rate, effective whitelist | `open`, `read_interleaved`, `try_recover` | the arbitrator |
| `opus_stream.rs` | reader, encoder, resampler, subscriber count | `run`: wait for subscribers, peek, encode, broadcast | ring, `stream_io` |
| `inference/engine.rs`, `inference/head.rs` | reader, filters; `HotHead` (ArcSwap) | `run`: peek, infer, advance, emit; `install_prevalidated` | ring, `/active`, stream |
| `stream_io.rs` | listeners, subscriber count, broadcast channels | upgrade checks, cap, guard, handler loop with lag and close, socket takeover and accept errors | encoder and engine, clients over TCP and UDS |
| `common/time.rs` | timing anchor | sample position to capture time | arbitrator, engine, encoder |

Hard here: the ring is lock-free, so a reader copies cells the writer is
replacing; sources appear, wedge and vanish; the policy changes under the loop;
shutdown counts on the producer falling silent quickly; the encoder sleeps
while nobody listens, so a subscriber may come just as it looks away; a slow
client must not hold up the others. Correct means: what a
reader accepts is exactly what was pushed, a laggard gets back to the live
edge, the demux never leaves the frame, the chosen mic and channel follow the
policy, no audio is glued across a gap, a client sees consecutive packets or a
close, the encoder runs whenever somebody listens, and stop is prompt.

### Workspaces and files

| component | state | operations | talks to |
|---|---|---|---|
| `file_mgr/job_registry.rs` | entries, order, leases, per-job event ring, broadcast channel | `try_acquire`, `try_acquire_lease`, progress and logs, `terminate`, drop, prune, `subscribe_events` | every worker, `api/routes/jobs.rs` |
| `file_mgr/head_rotation.rs`, `cache.rs`, `fs_atomic.rs` | `heads/*.json`, `*.mpk`, `heads.json`, `workspace.json`, cached index and core | `publish_trained_head`, `delete_head`, `put_atomic` | training, recovery |
| `file_mgr/active_head_writer.rs`, `api/routes/active.rs` | `active/generations/*`, `active/current.json`, `HotHead` | stage, publish, install, prune, GET | recovery, engine |
| `file_mgr/recovery.rs` | the whole tree, once, at boot | sweep orphans, repair counts, choose the active head, walk staging | all of the above |
| `file_mgr/registry.rs`, `staging.rs`, `storage_reaper.rs` | workspace directories, `workspace.json`, tombstones, staging directories, cached cores, locks | create, patch, lazy load, delete (tombstone, stage, drain, finalize), reap | jobs, recovery |
| `file_mgr/dataset.rs`, `uploader.rs` | dataset files, the workspace revision, upload permits | upload (tempfile, lease, revision, rename), delete of a tree or a log | jobs, leases, training |
| `training.rs`, `training/finetune.rs` | training permit, run entries with cancel flags, tempdir, log | admission, scan, extract, quality gates, split, train, publish, cancel, reap | head rotation, dataset files without a lease |
| `converter.rs`, `converter/source.rs` | convert permit, Convert job, staging directory, head file | manifest, shard staging, tensor assembly, labels, publish | job registry, head rotation |
| `common/head_header.rs`, `model.rs`, `inference/head.rs` | `head.mpk`, `labels.txt` | write, stage, load and check | activation, boot |

Hard here: every operation is several disk steps, any of which may fail, and
power may go between two of them; the cache is updated after the disk; jobs
that exclude each other are admitted concurrently; SSE clients resume anywhere
in a bounded history; jobs read a dataset file by file while it is being
replaced. Correct means: an index or pointer never names something
that a power loss could have removed, an acknowledged operation survives,
a deleted thing stays deleted, boot converges, exclusion and caps hold, an
event stream has no silent hole, a head shown as current was made from the data
of now, a cancelled job publishes nothing, and what a job publishes can be
loaded and means what its labels say.

### Configuration and daemon

| component | state | operations | talks to |
|---|---|---|---|
| `config.rs`, `config/watcher.rs` | `config.toml`, snapshot, `mutate_lock`, kick channel | `mutate_then`, `open_mutation`/`commit`, watch, debounce, `try_reload` | API, operators |
| `config/mic_settings.rs`, `api/routes/{mic,inference}.rs` | live mic cell, live inference cell | set policy with and without persist, POST | arbitrator, engine |
| `config/launch.rs`, `config/domain.rs`, `inference/backbone.rs`, `rknn_runtime/` | launch file, socket path and its directory, backbone candidates | first-boot defaults, validate, bind, choose and load a backbone | daemon |
| `daemon/main_body.rs`, `drain_registry.rs` | boot and shutdown order, drain slots, token, heartbeat pump | boot, reload callback, watchdog, shutdown, runtime drop | everything |
| `status*.rs` | counters, heartbeats | staleness rule, sample, report | everything |

Hard here: one setting lives in a file, a snapshot and a live cell; operators
write the file without any lock; the engine is a blocking worker nobody can
interrupt, watched through heartbeats; every boot step may end the process.
Correct means: acknowledged updates are neither lost nor forgotten, a usable
file is picked up in the end if its save was noticed, health means frames, the watchdog kills
only the dead, one life never blocks the next, and a stop ends.

What is left out, and why, is in section 7.

## 2. Plan

Done, in this order: the ring (`AudioBuffer`), jobs (`JobRegistry`), heads on
disk (`HeadRotation`), activation (`ActiveHead`), the arbitrator
(`MicArbitrator`), configuration (`ConfigReload`), with first proofs for four
of them; then workspaces (`WorkspaceTree`), the jobs that make heads (`HeadJobs`),
the live stream (`StreamFanout`), the process (`Launch`, `Daemon`), the data
path of a head (`HeadPipeline`), and the abstract head store (`HeadStore`) that
`HeadRotation` implements.

Proved since: the safety invariants of `HeadJobs`, `ActiveHead`,
`ConfigReload` and `StreamFanout`, the event streams of `JobRegistry`, the
refinement of `HeadStore` by `HeadRotation`, and then those of `WorkspaceTree`,
`Daemon` and `HeadPipeline` (section 5). Every invariant a run checks is now
stated by a theorem, and so are the action properties.

Left, most important first:

1. Abstract specifications of `ActiveHead` (one register of the active head)
   and `ConfigReload` (one register of settings), with their refinements.
2. The timing-anchor arithmetic of `common/time.rs` as pure operators.
3. What the boot of `Daemon` and the boot recovery of `ActiveHead` and
   `WorkspaceTree` promise each other, as one composition.

How the modules fit together: `Daemon` extends `Launch`. The others meet at
narrow points and each says what it takes from its neighbour: `HeadJobs`
publishes a head in one step and `WorkspaceTree` in two (the head, then
`workspace.json`), whose steps are `HeadRotation`; `HeadJobs` uploads in three,
each of which may fail, whose steps are `WorkspaceTree`; `Daemon` takes
boot recovery as "usable head or not", which `ActiveHead` establishes;
`StreamFanout` reads the ring by `peek_into`'s three answers, which
`AudioBuffer` has cell by cell; `HeadPipeline` follows the bytes and leaves
control to `HeadJobs`.

## 3. Modules

### AudioBuffer (`audio_buffer.rs`, loops of `opus_stream.rs` and `inference/engine.rs`)

A sample is its stream position, so cell `p % Capacity` is right for position
`p` exactly when it holds `p`. Cell stores of `push`, the store of `head`, cell
loads of `peek_into` and both loads of `head` are separate actions. A reader
is a consumer loop: attach, peek, recheck, then advance or resynchronise, and
pause while nobody listens. `MaxHead` bounds the stream.

The model interleaves sequentially. `push` stores `head` with Release after its
cells and `peek_into` fences before the recheck; both orders are program order
here. The repository's loom test explores the weak memory orders.

### JobRegistry (`file_mgr/job_registry.rs`, `common/workspace.rs`, `api/routes/jobs.rs`)

One mutex section is one action; `JobHandle::fail` and the SSE handler's gate
and subscription span two sections and are two actions. A job id is its
admission number. Events keep their job, sequence number and terminal flag;
text, progress values, timestamps and which terminal state a job reached are
left out, since no rule of the registry looks at them. The replay of a new
subscription is stated as the suffix of the ring behind the cursor
(`ReplayAfter`); `MCJobRegistry` compares that with the filter the code runs,
on rings and cursors of every shape (`ReplayIsFilter`).

### HeadRotation and HeadStore (`file_mgr/head_rotation.rs`, `cache.rs`, `fs_atomic.rs`, `recovery.rs`)

The workspace mutex gives one program counter; each disk step and each cache
swap is an action. Disk assumption, here and in the other disk modules: a rename
or unlink is visible at once and durable after a successful fsync of its
directory; before that a power loss keeps or loses it independently of others.
fsync of `heads/` is taken to cover the entry of `heads/` itself, which is
created lazily. `MaxFaults` bounds I/O errors, `MaxCrashes` power losses.

`HeadStore` says what callers may rely on: an atomic window of heads, attempts
that may surface after a power loss until they are decided, commits that
survive, removals that are final. The refinement mapping takes the cached index
(the file while nothing is cached) for the committed window and every other
index a power loss may leave for the pending ones.

### ActiveHead (`file_mgr/active_head_writer.rs`, `api/routes/active.rs`, `inference/head.rs`, `recovery.rs`)

Activations and boot share `active_mutex`; GET runs beside them. A generation
is absent, intact or damaged; staging yields an intact one or fails. Bit rot
(`MaxRot`) damages generations between boots.

### WorkspaceTree (`file_mgr/{registry,dataset,staging,cache,recovery,storage_reaper}.rs` and their routes)

A request is a client with a program counter; a step ends where another
request, an error or a power loss may come in: a lock, a rename, an fsync, a
cache update. `tree` is what `workspaces/<id>` shows now (`workspace.json` as
name and revision, the dataset as the number of the change that made it),
`treeMay` what a power loss may leave. Tombstones and stage directories are
entries of `tmp`, in the root's or a workspace's staging directory. Requests
that are refused take no step. The cache is loaded lazily and evicted by a
delete, as in the code: `GetRead` and `GetInsert` are two steps because the read
of `workspace.json` holds no lock. A delete takes neither lock, so PATCH,
upload and head publish can overlap it; a publish has read `workspace.json`
(`TrainPublish`) when it writes it back (`TrainCore`). Ghost variables remember
what was answered.

An upload fsyncs the folder its file is in and no folder above it, although it
may just have created both. `FsyncFolder` therefore has a reach: nothing, when
the folder's own entry is not on disk (the workspace is then `loose` and a power
loss may take the change); the change; or the change and every folder entry,
after a delete, which fsyncs the directory above. `Variants` are the datasets
with and without the loose folders.

### HeadJobs (`training.rs`, `training/finetune.rs`, `converter.rs`, `api/routes/{training,converter}.rs`)

Each job walks its task: admission, log, inputs read one by one without a lock,
publish, cleanup, terminal log line, terminal state, permit. Both permits, the
training registry with its cancel flags, the Convert jobs of the file manager's
registry, temporary files and logs are state. Uploads, log deletes, the log
reaper, a workspace delete, cancels and the shutdown hook come between any two
steps; `MaxFaults` bounds I/O errors and panics. An upload may fail at each of
its steps, and after the rename that leaves new bytes under the old revision
(`behind`). A conversion takes its permit first and is then registered as a job
or refused, which gives the permit back. Inputs are the number of the
upload that wrote them, a head is the revision it records and the inputs seen.

### HeadPipeline (`converter*.rs`, `training/finetune.rs`, `preproc/wav_io.rs`, `common/head_header.rs`, `model.rs`, `inference/head.rs`)

The algorithms on the way from an upload to a served head. Bytes carry their
origin, so that an assembled tensor can be compared with the slice the manifest
declares; trained columns carry the class they were trained for. Shards are
staged by link or copy and read one at a time; datasets are scanned, clips
dropped, classes counted, the split drawn; the loader applies its checks.
Training itself may produce any weights, finite or not. Only the converter
checks the number of classes against the loader's limit; for the trainer the cap
on buffered examples stands in for it, since every class has a clip
(`MaxExamples <= MaxLoadable`: 33554 and 100000 in the code).

Offsets and sizes are running sums and products (`Sums`, `Products`), which are
functions and not folds so that they can be reasoned about. `InputsAssumption`
says what a source is: finitely many files, folders and clips, natural file
sizes, tensors with a shape, a staging directory whose names are not those of
uploads (it is a fresh directory of its own), and a file for the entry point
that reads one shard. It bounds nothing: a manifest may be wrong in every way
the parser looks for.

### StreamFanout (`opus_stream.rs`, `stream_io.rs`)

The Opus loop (pause on the subscriber watch, resume, tick, peek, encode,
broadcast), the channel as the packets it still holds and the number ever sent,
and one handler per connection (origin and subprotocol, cap, guard, upgrade,
receive, send, close). The watch is its value and "changed since last seen",
which is where a wake-up could be lost. `StreamAssumption` has `Pull < 2 *
Frame`: a pull of 1024 samples resamples to about 1115, a frame has 960. Clients
stall, hang up and come back at any time, the capture thread publishes whenever
it likes.

### MicArbitrator (`audio_io/mic_arbitrator.rs`, `types.rs`, `source/alsa.rs`)

`pc` walks the run loop: top, open, timer, read, parked. A candidate is its
position in the catalogue, a slot its channel, an RMS a small integer that
moves one level per period towards what the channel hears, and time a count of
periods up to the thresholds it is compared with. A resampler holds nothing,
current samples, or samples from before a gap. An overrun or a suspend of the
open device (`Overrun`) loses audio: every resampler that held samples is then
stale, and `lost` says that the next read fails and goes through `try_recover`,
after which `ResetFir` must have emptied them. Devices, the room, operators and
the caller of `signal_stop` act between any two steps; `MaxEnv` bounds the
first three. Sources are ALSA ones: `MockSource` differs only in returning
early on stop. The catalogue is not empty; with an empty one the loop parks.

### ConfigReload (`config.rs`, `config/watcher.rs`, `config/mic_settings.rs`, `api/routes/{mic,inference}.rs`, `daemon/main_body.rs`)

The file, what a power loss may leave of it, the snapshot and the two live
cells; clients walk lock, write, sync, store, after; the worker walks settle,
lock, callback, inference, store. An operator's save needs no lock. A file that
cannot be parsed or validated is `Broken`; a read that fails is an action of its
own, and so is an event that notify reports as an error. Boot loads the file
and installs the watcher in two steps. `missed` remembers that a save went by
unread in one of these three ways. The queue of kicks is whether
it is empty, since the worker drains it. `acked` remembers, per field, the last
acknowledged value nothing has overwritten. `UsableAssumption` says that a
valid configuration naming a catalogue microphone exists, as the built-in
default does, and that `Broken` is not one.

### Launch and Daemon (`config/{launch,domain}.rs`, `inference/{backbone,engine}.rs`, `rknn_runtime/`, `stream_io.rs`, `daemon/*.rs`, `status.rs`)

`Launch` holds what outlives the process: the launch file, the directory of the
socket and the entry at its path, with every validator, the choice and loading
of a backbone and the takeover of a stale socket. `Daemon` boots in the order of
`async_main` with each early return, then lives in seconds: an engine turn
summarises what its loop did in a second (frames, starved, failures, wedged),
the pump listens, stalls or decides to abort, `/status` applies its staleness
rule. Decision and abort are two steps, since the pump sleeps 50 ms in between
for the log; `hush` counts the seconds since the engine last spoke.
Shutdown cancels the token, joins every drain slot under its own budget and
drops the runtime, which waits for blocking workers. A kill or a reboot may come
at any step, and the next life finds the disk as it was left.

## 4. Runs

| run | shows |
|---|---|
| `AudioBuffer` | an accepted window is exactly what was pushed, resynchronising moves forward, and a consumer that keeps running comes back to the live edge |
| `Jobs` | a workspace delete is alone in its workspace, against other jobs and leases; a stream has no hole over the replay/live seam and over ring and channel overflow; a clean close means everything was delivered; streams of known jobs end |
| `HeadRotation` | the index never names a file a power loss could remove, acknowledged operations are durable, a clean boot leaves no orphan, and the protocol implements `HeadStore` |
| `ActiveHead` | the pointer never names a generation that could be missing, a GET overlapping one activation succeeds, and what is served is what was acknowledged or recovered |
| `MicArbitrator` | demux in bounds, no audio glued over a gap (reopening, skipped periods, overruns), the loudest channel and a working mic are found |
| `ConfigReload` | no acknowledged update is lost or forgotten, a usable file is reloaded unless its save went by unread |
| `WorkspaceTree` | acknowledged creates, deletes and uploads into durable folders survive power loss, a deleted workspace does not return except by a PATCH or head publish it overtook, a head shown as current was trained on the data on disk, staging leftovers go in the end |
| `HeadJobs` | a cancel in time prevents the publish, outcome and log tell whether the head exists, a current head read one version of its inputs unless an upload failed half-way, permits come back |
| `StreamFanout` | subscribers are counted exactly, a client sees no silent gap, packets hold consecutive samples with a stamp within a frame, the encoder follows demand and stops |
| `Daemon` | `/status` never calls a silent engine healthy for long, the watchdog decides to abort only while an engine has been silent for 5 s and no shutdown is on, no life blocks the next one's socket or file, a stop ends except behind a worker nobody can stop |
| `HeadPipeline` | tensors streamed over shard boundaries equal the manifest's slices, the split is disjoint, complete and covers every class, a published head loads and its names fit its columns |
| `ShutdownBounded` (violation) | the finding of section 6 |

Bounds. The ring has 8 cells and a margin of 2, the smallest where window, hop,
margin and wrap are all different, and `MaxHead = 17` gives more than two laps;
readers do not share state, so one is enough, and its hop (5) is larger than
its window (4), the engine's slowest cadence. Three jobs with two delete slots,
a history of two and a lease reach every kind of conflict and a prune under an
open stream; a two-event ring and a two-message channel overflow with four
events; a delete beside a Train or Convert job, which `Jobs` has no slot for,
is covered by the theorem `DeleteExclusive`. A window of two heads with four
publishes displaces twice; two errors and two power losses reach a failure
during the recovery from a failure. Four activations exercise the
two-generation keep list and a prune. Two mics with different whitelists on
hardware of width 1 or 2, native or not, with two environment changes (an
overrun is one) reach narrowing hot-plugs, switches under a walk and recoveries; `MaxLevel = 3` with
hysteresis 3/2 separates beating from exceeding. Two requests, one edit, one
error and one power loss interleave every pair of writers of the configuration.
In `WorkspaceTree` three requests of two clients over two workspaces and two
names, with one training run, one error and one power loss, reach a create
beside a patch to the same name, an upload, a patch or a head publish overlapping
a delete, a
crash inside any of them and a request after the boot. `HeadJobs` has two jobs
of either kind (so both wait for one permit, or hold one each), one upload and
one error or panic. `StreamFanout` has one client on each listener, a cap of
one on TCP and two on UDS, a channel of two packets, a frame of two samples cut
from pulls of three, so that frames straddle pulls, and nine samples, enough for
a lag and a resync after a pause. `Daemon` uses the thresholds of the code in
seconds, more than two dozen launch files (one for each validator to refuse,
and good ones) and every socket state. `HeadPipeline` has tensors of two rows
and two-byte floats; three classes and three shards cross every shard
boundary, empty shards included; the limits on classes and on examples are both
10, and a dataset or bundled head goes over each; a drop limit of 20 % instead of 10 % lets
datasets of a few clips fall on both sides of it.

Deadlock is checked for `AudioBuffer`, `HeadJobs`, `HeadPipeline`, `Daemon` and
`ShutdownBounded`. Elsewhere a behaviour may end: bounded environments are used
up, the arbitrator thread exits, the daemon stays down with a broken file.

Fairness. Ring: consumers run on a thread or task that is always rescheduled,
and a push that has begun finishes; nothing obliges a microphone to produce.
Jobs: the runtime polls a connected client's handler; no fairness for workers,
so `KnownStreamsEnd` speaks of jobs that have ended. Arbitrator: the loop runs;
reads are bounded by the poll timeout and parks by the retry interval.
Configuration: handlers and the worker run, notify delivers an event, and a
quiet window comes, which holds unless someone saves the file every 100 ms for
ever. Workspaces: a started request, a drain, a boot or an hourly reaper sweep
goes on; no client is obliged to send one. Head jobs: tasks and an upload in
progress are polled. Stream: the encoder and the handlers are polled, and a send
to a peer that has hung up returns; a send to a peer that merely stopped reading
need not. Daemon: boot, shutdown, the pump, the clock and a drain budget go on,
the engine has its turn, and a cancelled training run ends, since it reads the
flag before every batch; nothing makes `infer()` return or a signal come.

Every property of a passing run has a mutant in `PROJECT.json`: a plausible
slip in one definition (a dropped fsync, an early unlock, a missing recheck)
under which TLC finds the property violated. The mutated forms stand beside the
originals in the modules, marked as such.

## 5. Proofs

All for every value of the constants, from the assumptions named in the
modules; none mentions a bound's value.

`AudioProofs`, first part: `AudioBuffer` (whose specification is `RingSpec`;
from `CapacityAssumption`: a power of two, at least 4;
`ConsumerAssumption`: windows within the safe window). `ReadyIsUntorn` is not
inductive: it needs what the copy loop had read before the recheck. `CopySound`
says that a loaded cell is right or its position has been lapped since, and
`RecentSamplesIntact` where recent samples are. The arithmetic core is
`IndexInjective`: positions less than `Capacity` apart have different cells.
Theorems `RingTypeCorrect`, `ReadyUntorn`, `NoOverAdvance`, `ResyncForward`.

Second part: `MicArbitrator` (from `MicAssumption`). `LoopFacts` ties the candidate
being opened to the policy snapshot, `StopFacts` says the token is consumed
only on the way to the flag, `LateFacts` that a late period is followed by the
top of the loop, `NeverStale` that a resampler holds pre-gap samples only
between the loss and the read that notices it. That the
loudest channel exists (`LoudestIn`) is proved from well-foundedness of the
naturals. Theorems `TypeCorrect`, `DemuxSafe`, `FixedStays`, `NoGluedAudio`,
`PromptStop`, `WakesOnStop`, `Sticky`.

`JobRegistryProofs` (from `CapsAssumption`: the caps fit in the history, and
`BoundsAssumption`: ring and channel hold at least one event). The invariant
`Inv` adds that a job whose handle lives has a running entry
(`LiveJobsRetained`), which is why a prune cannot free a slot in use. Theorems
`TypeCorrect`, `DeleteExclusive`, `CapsHold`, `LiveJobsKept`. The streams need
a second invariant, `SInv`, on top of `Inv`. `RingOk`: a ring holds the last
events of its job, numbered without a gap, the terminal one only at the end.
`StreamOk`: what a client was sent is consecutive, its replay continues it up
to `Upto`, and a receiver that has not lagged still holds every later event of
its job, in order, among events of other jobs; `terminalSeen` means that
nothing is beyond the replay; a stream whose entry was pruned before it
subscribed has only events of other jobs to come. Lemmas say how `PushEvent`,
`ReplayAfter` and `Enqueue` (with overflow) move these.
Theorems `StreamInvariance`, `NoStreamGap`, `CleanClose`.

`HeadRotationProofs` (from `HeadsAssumption`). The invariant states, per stage
of the protocol, what is already durable: `Staged` for the files, `Committing`
for index, count and cache, `Booting` for the sweep, and `Shapes` for every
index a power loss may leave. Theorems `TypeCorrect`, `NoDangling`,
`AckDurable`, `GoneStaysGone`, `BootLeavesNoOrphan`. `RefinesHeadStore` then
shows `Spec => ImplementsHeadStore`: the initial state maps to one of
`HeadStore`, and under the invariant each action maps to one of its steps (an
index rename to an attempt, a sync to a ruling out, the cache swap to a commit,
a power loss to a choice among the pending windows) or to a stutter.

`HeadJobsProofs` (from `HeadJobsAssumption`). The properties speak of jobs that
have ended; the invariant follows them there. `JobReads`: a job read no upload
older than the revision it captured first, and (`UploadInStep`) the bytes are
ahead of the cached revision only while an upload is finishing, or after one
that failed there. `JobOutcome`:
until its last steps a job has neither head nor terminal state nor terminal log
line, and then the result it carries tells whether the head is there.
`JobCancelled`: a run cancelled in time still has its flag, or has already been
told. Theorems `CancelIsHonoured`, `OutcomeIsTrue`, `HeadIsOfOneVersion`.

`WorkspaceTreeProofs` (from `WorkspaceAssumption` and `NoneAssumption`: the
placeholder is none of the things it stands in for). The invariant has one
part per workspace, `Sound(w)`, and a few about all: at most one delete of a
workspace at a time, requests name real workspaces, nothing runs during boot,
and what a head publish that holds the metadata lock may write back
(`Publishing`).
`Sound(w)` says for the files that whatever is on disk is in what a power loss
may leave (`InMay`) and which of it is settled at which step (`Born`,
`Durable`, `Gone`), for the locks who is where (`Leased`, `Locked`,
`Patching`, `Inserting`), and for the revisions that cache, dataset and heads
stay in step: the dataset is one for all outcomes unless something is
moving (`DataOne`), the cached revision is not ahead of it (`CellBelow`),
a bump is under way whenever they differ (`Bumping`), and a head that equals
the cached revision was trained on that dataset (`HeadsBelow`, `HeadsCell`,
`Training`). A step of one workspace leaves the parts of the others alone by
one frame lemma (`FrameStep`); boot re-establishes all of them
(`RestartSound`). Theorems `TypeCorrect`, `AcknowledgedIsDurable`,
`DeletedIsGone`, `CurrentHeadIsRight`.

`HeadProofs`, first part: `ActiveHead` (from `ActiveAssumption`). `PublishOk`:
an activation works on a generation nothing refers to, and makes it durable
before the pointer names it. `BootOk`: what boot promotes or rebuilds was
verified, and no request is served before it hands over. `ReadersOk`: a GET
that no pointer write has overtaken holds the current generation, one overtaken
once the generation the prune keeps. Theorems `PointerIsWhole`, `GetIsSafe`,
`ServesTheNamed`.

Second part: `HeadPipeline` (`PipeSpec`; from `PipelineAssumption` and
`InputsAssumption`). The library's induction theorems cannot be used, but
induction on a set of numbers can be had from the well-foundedness of the
naturals (`SetInduction`), and with it that a recursive definition has a value
and satisfies its equations (`IterationExists`, `IterationUnique`). From there:
`SumsFacts` and `ProductsFacts` (offsets and sizes), `FlattenJoins` and
`JoinsPrefix` (joining sequences one by one is flattening them, and what was
joined first stays in front). On these rest the three arguments:

- `StreamingIsExact`. The invariant `ReadingOk` says that what has been read is
  the first `step` uploads joined, and that every byte of a tensor that lies in
  them is in its place; `OverlayFills` is the arithmetic of one shard, with the
  entry before, across or behind it and an empty shard. `StagingOk` says that a
  staged name is a link to its upload or a copy of it and that no upload has
  been touched, which needs that shard names do not collide. That the declared
  total was read then makes a filled buffer the declared slice
  (`EntriesFit`, `FilledIsSlice`).
- `SplitIsSound`, from the bounds of the rounded and clamped size of a
  validation side (`ValidationSizeBounds`) and cardinalities.
- `PublishedHeadsServe`. A job's head file holds its weights (`FileOk`), whose
  sizes follow from the tensors' shapes (`ConvertedOk`) or the labels
  (`TrainedOk`); clean labels are read back as they were
  (`CleanLabelsReadBack`), and folder names are clean (`ClassesOk`) and no more
than the loader takes (`ClassesUnderCap`).

`DaemonProofs`, first part: `ConfigReload` (from `ConfigAssumption`,
`UsableAssumption`). `LockOk` says who holds `mutate_lock` at which step,
`Shape` that whatever is written or stored is a whole configuration.
`ClientOk`: a request in its critical section writes the snapshot with its own
fields on top, and the fields it leaves out stay as acknowledged in every file
a power loss may leave. `QuietOk` and `WorkerOk`: outside of it snapshot, files
and what the worker has read agree with `acked`; `SavedOk`: an operator's save
ends what was acknowledged before. Theorems `TypeCorrect`, `UpdatesAreKept`,
`AcksAreDurable`.

Second part: `Daemon` (`DaemonSpec`; from `DaemonAssumption`: thresholds and
budgets are positive, and `LaunchAssumption`: the default launch file is
neither absent nor garbled). `BindInv` says from which stage of a boot on the
launch file is good, the socket directory there and the socket entry ours, and
that after the first service no end of a life, at any step, spoils that:
`RestartsBind`. `LifeInv` follows one life: what the boot has started
(`BootFacts`), how engine, pump and the heartbeat cell stand to each other
(`LifeFacts`), and how long ago a frame must have come for the cell to say
healthy, in each state of the pump (`HealthFacts`). `HushInv` says that what the
pump takes for silence is at most what the engine's silence is (a heartbeat it
has not received counts as none of it), and what still holds in the 50 ms after
the decision. Theorems
`HealthyHasFrames` and, as an action property, `WatchdogIsFair`.

`StreamFanoutProofs` (from `StreamAssumption`). `CarryOk`: the carried samples
are those just before the reader, fewer than a frame, so a pull completes at
most two. `Follows`: while a handler listens, `audio_seq` and the channel
position advance together (a send without receivers loses both the packet and
this tie, and there is then no listener), so the packet a receiver stands at is
the successor of the last one it sent. Theorems `CountIsExact`, `NoSilentGap`,
`WholePackets`.

What a theorem states for every instance need not be a property of a run too:
type invariants, the caps, the retention of live jobs, the finality of
removals, the sticky choice, the single late period and the wake-up on stop are
proved and not run.

Each inductive invariant was checked by TLC on the run's instance before it was
proved.

Only model-checked: everything temporal under fairness
(`ReadersReachLiveEdge`, `KnownStreamsEnd`, `AutoTracksLoudest`,
`FindsWorkingMic`, `ReloadConverges`, `LeftoversGo`, `PermitsComeBack`,
`EncoderFollowsDemand`, `StopEnds`), which the proof system does not reach.

## 6. Findings and observations

Finding (`ShutdownBounded`), `daemon/drain_registry.rs:337`: every task is joined
under its own budget, and a handle whose budget runs out is aborted and
forgotten, so the outer timeout never expires and the drain reports success
even when the inference worker is stuck in `infer()` or a training job was
admitted after the cancel hook. `async_main` returns, and the drop of the
runtime waits for that blocking worker without a bound. The module's comment
promises a stop in bounded time and `false` when the budget is exceeded.

Where the code and its comments disagree, or a promise has an exception that a
property above has to name, without a run of its own:

Jobs and heads

- `api/routes/jobs.rs:108`: the SSE handler checks that a job exists and then
  subscribes, in two lock sections. If the entry is pruned in between, the
  stream stays open with nothing left to end it (`KnownStreamsEnd` says
  "known").
- `subscribe_events` with `after_seq = 0` on an overflowed ring starts at the
  oldest event without an `event_gap`; the stream property counts from there.
- `file_mgr/head_rotation.rs:370`: `delete_head` publishes the shorter index
  before the smaller count, so `head_count <= heads.len()`, which a comment
  promises to readers, fails for a moment.
- `file_mgr/active_head_writer.rs:516`: an fsync error after the rename of
  `current.json` returns before the install, so the pointer and the running
  head differ until the next activation or boot. Boot may also promote a
  generation whose activation had not flipped the pointer, and does not sweep
  what a half-failed prune leaves.
- `docs/API.md:231` says that deleting a workspace conflicts with any running
  job that references it, and a comment at `training.rs:523` that the run holds
  a lease. A training run holds neither lease nor job in that registry: a delete
  under it goes through and the run fails later.
- `put_atomic` documents that the final path is unchanged on any failure; a
  failing parent fsync comes after the rename. The disk modules model that
  failure.

Workspaces

- `file_mgr/dataset.rs:680`: an upload creates its folder with `create_dir_all`
  and fsyncs only the folder itself, while `staging.rs:350` and
  `registry.rs:216` say that the parent of a new directory must be synced too.
  An acknowledged upload into a new folder may vanish with a power loss, and
  the revision that was written for it stays (`loose`; `AckedDurable` speaks of
  changes in folders whose entries are on disk).
- A PATCH that passed its existence check writes `workspace.json` again if
  something re-created the directory after a delete: the workspace is back.
  The same for a head publish, which reads the file at
  `head_rotation.rs:230` and writes it at 232 without a lease, when a delete and
  then the `create_dir_all` of an upload come in between (`raced` in
  `DeletedStaysDeleted`).
- An I/O error after the bytes of an upload or delete moved leaves the old
  revision in the cache, and a head of that revision looks current (`suspect`
  in `CurrentHeadMatchesData`, `behind` in `CurrentHeadOneVersion`). The same for
  a PATCH whose fsync fails, for a power loss that takes an unsynced folder, and
  for a request that finds a workspace before its create has been answered: the
  create then overwrites its cache entry.
- A workspace delete cut off by a power loss may be undone by it, although its
  name was given away in the meantime (`doomed` in `AckedDurable`).
- An upload to a workspace deleted after the route's check creates an empty
  directory again, which the next boot removes; a reader racing a delete leaves
  a cache entry for a workspace that is gone; a listing fails when one of its
  workspaces is deleted under it.

Audio, stream, process

- `audio_io/mic_arbitrator.rs:1131`: after the failover timer the loop resolves
  FirstAvailable to the first candidate again, so a mic that opens but stays
  silent is reopened for ever and the alternates are not tried.
- A client that stops reading but stays connected keeps its slot for ever. TCP
  and UDS clients share one count, against different caps. The subprotocol is
  `acoustics`, where comments say `acoustics.v1`. A packet's capture stamp may
  be a frame away from its first sample (`PacketsUnbroken`).
- `daemon/main_body.rs:672`: a reload with a misfit mic policy is rejected as a
  whole, although the comment above says that inference settings still
  propagate. An API mutation writes the whole file from the snapshot and so
  silently replaces an operator's edit that has not been reloaded yet.
  A save is not picked up until the next one when it falls between the load of
  the file (`main_body.rs:327`) and the install of the watcher (649), when notify
  reports an error in its place (`config.rs:595`), or when the read after its
  event fails (`config/watcher.rs:87`): none is retried, and an API write
  in the meantime replaces it (`missed` in `ReloadConverges`).
  `mic_settings.rs` says "`Err` iff neither disk nor mem changed"; after a
  failed fsync the disk has changed, and the watcher reloads it
  (`ReloadConverges`).
- `daemon/main_body.rs:1523`: a TCP bind failure returns with the engine
  running, and the runtime drop waits for it; a sweep of the storage reaper is
  awaited in the same way.
- `daemon/main_body.rs:2360`: between the watchdog's decision and the abort the
  pump sleeps 50 ms and looks at no gate again, although the comment at 2269 has
  the shutdown checked "immediately before abort to avoid racing the drain". A
  shutdown or a heartbeat that comes in then is overtaken by the abort
  (`WatchdogSparesTheLiving` speaks of the decision). A turn of the pump is one
  step of the model; in the code a heartbeat from the engine's thread may fall
  in the moment between the floor tick and `borrow_and_update` (2303), is then
  seen without being counted, and on the turn at which 5 s are complete does
  not prevent the abort.
- An `infer()` that fails slowly sends no heartbeat until it has failed often
  enough, so the watchdog may abort a process whose engine would have reported
  its failure. The boot's "engine spawned" heartbeat may overwrite the pump's
  verdict.
- `localhost:8787` passes `config/domain.rs:139` and ends the boot at
  `main_body.rs:946`, which wants a socket address. A first boot does not
  validate the defaults it writes: with a world-writable socket directory it
  serves TCP only and the next boot refuses the file. Only the first runtime
  library found is tried.

Head data

- `converter.rs:1339`: a manifest that names a shard twice, or names it
  `model.json`, makes staging copy over a link to an upload (`NamesDistinct` in
  `StreamedIsSlice`).
- `active_head_writer.rs:597` relies on labels validated upstream, where only
  their number is checked; a label with a line break, or blank, makes the loader
  refuse the head. Trained weights are not checked for being finite before they
  are published. Both are the exceptions in `PublishedHeadServes`.
- `training/finetune.rs:494` makes a head of any number of classes; that a
  trained head stays under the loader's limit follows only from the cap on
  examples at 1070.
- Staging a default head trims carriage returns only, the loader trims all
  white space. Clips that are too short are dropped silently up to the limit.

## 7. Not modelled

- `dsp`, the forward pass and gradient descent, spectrogram values, RMS values:
  floating-point numerics. `HeadPipeline` lets training return any weights.
- `rknn_runtime` beyond loading: FFI. An `infer()` call returns, fails or hangs.
- `common/time.rs`: a stateless projection with floating-point rates.
- `proto`: generated types and stateless framing.
- Reads without state: asset byte ranges, log paging, listings of a workspace's
  children, the host sampler and counters of `status`, its stall verdict on
  the encoder, GET handlers of settings.
- Validation of tags, names and most request bodies, field by field and without
  state; the launch, training and converter validators are modelled.
- `MockSource` and its waveforms; PCM parameters.
- `uploader`'s `upload` and `install_from_path` and `with_metadata`, which have
  no caller outside tests.
- A `current.json` that cannot be parsed (`recovery.rs:327`): `ActiveHead` has
  damaged generations, not damaged pointers.
- A panic of the inference worker: its heartbeat channel closes, the pump ends
  (`main_body.rs:2286`) and the status entry goes stale after its time.
- The instants at which an upload has moved its bytes and not yet published its
  revision (`dataset.rs:682` to 689): `CurrentHeadMatchesData` looks when the
  metadata lock is free.
- The trainer's re-sort of classes and their clips in lockstep
  (`finetune.rs:748`): the model's classes carry their clips with them.
- Weak memory orders (the repository's loom test explores them for the ring).
