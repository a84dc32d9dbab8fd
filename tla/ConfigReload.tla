---------------------------- MODULE ConfigReload ----------------------------
(***************************************************************************)
(* The user configuration (modules/config.rs, config/watcher.rs,           *)
(* config/mic_settings.rs): one TOML file, the ConfigCell's snapshot of    *)
(* it, and the two live cells the arbitrator and the inference engine      *)
(* read.  API requests (POST /mic/policy, POST /inference) change all of   *)
(* them under mutate_lock; operators edit the file whenever they like, and *)
(* a debounced watcher reloads it.                                         *)
(*                                                                         *)
(* A configuration maps its three fields to values.  A file that cannot be *)
(* read, parsed or validated is Broken.  As in HeadRotation, a rename is   *)
(* visible at once and durable after the fsync of the directory: may holds *)
(* the contents a power loss may leave.                                    *)
(***************************************************************************)
EXTENDS Naturals

CONSTANTS
    Clients,      \* API requests in flight
    CatalogueMics,  \* mic policies that fit the launch catalogue
    MockMic,      \* the policy of the --mock-audio catalogue
    Hops, TopKs,  \* inference settings a client or an operator may ask for
    Keep,         \* a field the request leaves out
    Broken,       \* unusable file contents
    Nobody, Worker,  \* holders of mutate_lock besides the clients
    MaxPosts, MaxEdits, MaxFaults, MaxCrashes   \* bounds

ASSUME ConfigAssumption ==
    /\ MaxPosts \in Nat /\ MaxEdits \in Nat
    /\ MaxFaults \in Nat /\ MaxCrashes \in Nat
    /\ MockMic \notin CatalogueMics
    /\ Worker \notin Clients /\ Nobody \notin Clients /\ Worker # Nobody

Mics == CatalogueMics \cup {MockMic}

MIN_HOP_SAMPLES == 11025
MAX_HOP_SAMPLES == 44100
MAX_TOP_K == 64

\* InferenceCfg::validate: POST /inference and every load of the file.
InferenceOk(hop, topk) ==
    /\ hop \in MIN_HOP_SAMPLES .. MAX_HOP_SAMPLES
    /\ topk \in 1 .. MAX_TOP_K

Config == {c \in [mic : Mics, hop : Hops, topk : TopKs] : InferenceOk(c.hop, c.topk)}

\* Some usable file exists, and an unusable one is none of them.
ASSUME UsableAssumption ==
    /\ \E c \in Config : c.mic \in CatalogueMics
    /\ Broken \notin Config

Inference(cfg) == [hop |-> cfg.hop, topk |-> cfg.topk]
Fields == {"mic", "hop", "topk"}

\* POST /mic/policy and POST /inference (hop_samples, top_k or both).
Requests ==
    [mic : Mics, hop : {Keep}, topk : {Keep}]
        \cup {r \in [mic : {Keep}, hop : Hops \cup {Keep}, topk : TopKs \cup {Keep}] :
                r.hop # Keep \/ r.topk # Keep}
NoRequest == [f \in Fields |-> Keep]

VARIABLES
    mock,     \* the daemon runs with --mock-audio
    up,       \* the daemon runs, with its watcher
    loaded,   \* the daemon boots: the file is loaded, the watcher not installed
    disk,     \* contents of the user TOML
    may,      \* what a power loss may leave of it
    inner,    \* ConfigCell.inner
    liveMic, liveInf,  \* MicSettingsCell, the inference ArcSwap
    lock,     \* mutate_lock
    pc,       \* [Clients -> step]
    req,      \* [Clients -> request]
    work,     \* [Clients -> configuration about to be installed]
    saved,    \* an operator saved the file after the last client wrote it
    event,    \* a file event notify has not delivered yet
    kicked,   \* the debounce channel is not empty
    wpc,      \* step of the reload worker
    found,    \* the configuration it read
    missed,   \* a save went by unread: see ReloadConverges
    acked,    \* [Fields -> value]: last acknowledged update not overwritten since
    posts, edits, faults, crashes

clientVars == <<pc, req, work, saved>>
live == <<liveMic, liveInf>>
watcher == <<event, kicked, wpc, found, missed>>
life == <<mock, up, loaded>>
bounds == <<posts, edits, faults, crashes>>
vars == <<life, disk, may, inner, live, lock, clientVars, watcher, acked,
          bounds>>

Catalogue == IF mock THEN {MockMic} ELSE CatalogueMics

\* What the daemon runs with: its mock catalogue overrides the file's policy.
BootMic(cfg) == IF mock THEN MockMic ELSE cfg.mic

\* A booting daemon has loaded its file; which values it holds makes no
\* difference.
Init ==
    /\ mock \in BOOLEAN /\ up = FALSE /\ loaded = TRUE
    /\ disk = CHOOSE c \in Config : c.mic \in CatalogueMics
    /\ may = {disk}
    /\ inner = disk /\ liveMic = BootMic(disk) /\ liveInf = Inference(disk)
    /\ lock = Nobody
    /\ pc = [c \in Clients |-> "idle"] /\ req = [c \in Clients |-> NoRequest]
    /\ work = [c \in Clients |-> NoRequest] /\ saved = FALSE
    /\ event = FALSE /\ kicked = FALSE /\ wpc = "idle" /\ found = NoRequest
    /\ missed = FALSE
    /\ acked = NoRequest
    /\ posts = 0 /\ edits = 0 /\ faults = 0 /\ crashes = 0

----------------------------------------------------------------------------
\* API requests.

\* A mic policy that does not fit the catalogue is refused before anything
\* happens, and so are inference settings that would be out of bounds
\* together with the live ones.
Post(c, r) ==
    /\ up /\ pc[c] = "idle" /\ posts < MaxPosts
    /\ r.mic \in Catalogue \cup {Keep}
    /\ InferenceOk(IF r.hop = Keep THEN liveInf.hop ELSE r.hop,
                   IF r.topk = Keep THEN liveInf.topk ELSE r.topk)
    /\ posts' = posts + 1
    /\ pc' = [pc EXCEPT ![c] = "lock"]
    /\ req' = [req EXCEPT ![c] = r]
    /\ UNCHANGED <<life, disk, may, inner, live, lock, work, saved, watcher, acked,
                   edits, faults, crashes>>

\* The mutator: fields of the request over a clone of the snapshot.
Merge(r, cfg) ==
    [mic  |-> IF r.mic = Keep THEN cfg.mic ELSE r.mic,
     hop  |-> IF r.hop = Keep THEN cfg.hop ELSE r.hop,
     topk |-> IF r.topk = Keep THEN cfg.topk ELSE r.topk]

\* open_mutation: the guard holds mutate_lock until it is committed or
\* dropped, and a clone of the snapshot.
OpenMutation(c) == pc[c] = "lock" /\ lock = Nobody /\ lock' = c

\* mutate_then: mutate the clone.
Mutate(c) ==
    /\ up /\ OpenMutation(c)
    /\ work' = [work EXCEPT ![c] = Merge(req[c], inner)]
    /\ pc' = [pc EXCEPT ![c] = "write"]
    /\ UNCHANGED <<life, disk, may, inner, live, req, saved, watcher, acked, bounds>>

\* write_toml_atomically: tempfile, fsync, rename ...
WriteToml(c) ==
    /\ up /\ pc[c] = "write"
    /\ disk' = work[c]
    /\ may' = may \cup {work[c]}
    /\ saved' = FALSE
    /\ event' = TRUE
    /\ pc' = [pc EXCEPT ![c] = "sync"]
    /\ UNCHANGED <<life, inner, live, lock, req, work, kicked, wpc, found,
                   acked, bounds, missed>>

\* Mutant of SyncToml: the directory is not synced.
SyncTomlSkipped(c) ==
    /\ up /\ pc[c] = "sync"
    /\ pc' = [pc EXCEPT ![c] = "store"]
    /\ UNCHANGED <<life, disk, may, inner, live, lock, req, work, saved, watcher,
                   acked, bounds>>

\* ... fsync of the directory.
SyncToml(c) ==
    /\ up /\ pc[c] = "sync"
    /\ may' = {disk}
    /\ pc' = [pc EXCEPT ![c] = "store"]
    /\ UNCHANGED <<life, disk, inner, live, lock, req, work, saved, watcher,
                   acked, bounds>>

\* Fields an unacknowledged write may have changed are no longer known.
Forget(r) == [f \in Fields |-> IF r[f] = Keep THEN acked[f] ELSE Keep]

\* The guard is dropped and the handler returns.
Answer(c) ==
    /\ lock' = Nobody
    /\ pc' = [pc EXCEPT ![c] = "idle"]
    /\ req' = [req EXCEPT ![c] = NoRequest]
    /\ work' = [work EXCEPT ![c] = NoRequest]

\* Either half of the write fails: the error returns through the guard, which
\* unlocks; neither the snapshot nor the live cells are touched.
WriteFails(c) ==
    /\ up /\ pc[c] \in {"write", "sync"}
    /\ faults < MaxFaults /\ faults' = faults + 1
    /\ acked' = IF pc[c] = "sync" THEN Forget(req[c]) ELSE acked
    /\ Answer(c)
    /\ UNCHANGED <<life, disk, may, inner, live, saved, watcher, posts, edits,
                   crashes>>

StoreInner(c) ==
    /\ up /\ pc[c] = "store"
    /\ inner' = work[c]
    /\ pc' = [pc EXCEPT ![c] = "after"]
    /\ UNCHANGED <<life, disk, may, live, lock, req, work, saved, watcher, acked,
                   bounds>>

\* The after hook stores the live cell of its section; then the lock is
\* released and the request answered.
AfterHook(c) ==
    /\ up /\ pc[c] = "after"
    /\ IF req[c].mic # Keep
       THEN liveMic' = req[c].mic /\ UNCHANGED liveInf
       ELSE liveInf' = Inference(work[c]) /\ UNCHANGED liveMic
    /\ acked' = [f \in Fields |->
                    IF saved \/ req[c][f] = Keep THEN acked[f] ELSE req[c][f]]
    /\ Answer(c)
    /\ UNCHANGED <<life, disk, may, inner, saved, watcher, bounds>>

----------------------------------------------------------------------------
\* The watcher: notify callback and debounce worker.

\* An operator saves the file, without any lock.  Before the watcher is
\* installed nobody hears of it.
OperatorEdit(x) ==
    /\ edits < MaxEdits /\ edits' = edits + 1
    /\ x # disk
    /\ disk' = x /\ may' = may \cup {x}
    /\ event' = up /\ saved' = TRUE /\ missed' = (missed \/ loaded)
    /\ acked' = NoRequest
    /\ UNCHANGED <<life, inner, live, lock, pc, req, work, kicked, wpc, found,
                   posts, faults, crashes>>

\* Mutant of Notify: a kick is dropped while the worker is busy.
NotifyIfIdle ==
    /\ up /\ event
    /\ event' = FALSE
    /\ kicked' = (kicked \/ wpc = "idle")
    /\ UNCHANGED <<life, disk, may, inner, live, lock, clientVars, wpc, found,
                   acked, bounds, missed>>

Notify ==
    /\ up /\ event
    /\ event' = FALSE /\ kicked' = TRUE
    /\ UNCHANGED <<life, disk, may, inner, live, lock, clientVars, wpc, found,
                   acked, bounds, missed>>

\* The backend reports an error instead of the event: logged, no kick.
NotifyLost ==
    /\ up /\ event
    /\ faults < MaxFaults /\ faults' = faults + 1
    /\ event' = FALSE /\ missed' = TRUE
    /\ UNCHANGED <<life, disk, may, inner, live, lock, clientVars, kicked, wpc, found,
                   acked, posts, edits, crashes>>

\* recv, then recv_timeout until a quiet window: every queued kick is taken.
Debounce ==
    /\ up /\ wpc \in {"idle", "settle"} /\ kicked
    /\ kicked' = FALSE
    /\ wpc' = "settle"
    /\ UNCHANGED <<life, disk, may, inner, live, lock, clientVars, event,
                   found, acked, bounds, missed>>

Settled ==
    /\ up /\ wpc = "settle" /\ ~kicked
    /\ wpc' = "lock"
    /\ UNCHANGED <<life, disk, may, inner, live, lock, clientVars, event,
                   kicked, found, acked, bounds, missed>>

\* Mutant of ReloadRead: the file is read before the lock is taken.
ReloadReadUnlocked ==
    /\ up /\ wpc = "lock"
    /\ missed' = FALSE
    /\ IF disk = Broken \/ disk = inner
       THEN wpc' = "idle" /\ UNCHANGED found
       ELSE wpc' = "callback" /\ found' = disk
    /\ UNCHANGED <<life, disk, may, inner, live, lock, clientVars, event, kicked,
                   acked, bounds>>

\* try_reload: lock, read, parse, validate, compare with the snapshot.
ReloadRead ==
    /\ up /\ wpc = "lock" /\ lock = Nobody
    /\ missed' = FALSE
    /\ IF disk = Broken \/ disk = inner
       THEN wpc' = "idle" /\ UNCHANGED <<lock, found>>
       ELSE wpc' = "callback" /\ lock' = Worker /\ found' = disk
    /\ UNCHANGED <<life, disk, may, inner, live, clientVars, event, kicked,
                   acked, bounds>>

\* The file is there but the read fails: the worker keeps the snapshot and
\* waits for the next kick.
ReloadReadFails ==
    /\ up /\ wpc = "lock" /\ lock = Nobody
    /\ faults < MaxFaults /\ faults' = faults + 1
    /\ missed' = TRUE
    /\ wpc' = "idle"
    /\ UNCHANGED <<life, disk, may, inner, live, lock, clientVars, event, kicked,
                   found, acked, posts, edits, crashes>>

\* The callback's try_set_policy_no_persist; skipped with --mock-audio.
Accepts(cfg) == mock \/ cfg.mic \in Catalogue

\* The daemon's callback rejects the reload as a whole ...
CallbackRejects ==
    /\ up /\ wpc = "callback" /\ ~Accepts(found)
    /\ wpc' = "idle" /\ lock' = Nobody /\ found' = NoRequest
    /\ UNCHANGED <<life, disk, may, inner, live, clientVars, event, kicked,
                   acked, bounds, missed>>

\* ... or stores the mic settings, then the inference settings ...
CallbackMic ==
    /\ up /\ wpc = "callback" /\ Accepts(found)
    /\ liveMic' = IF mock THEN liveMic ELSE found.mic
    /\ wpc' = "inference"
    /\ UNCHANGED <<life, disk, may, inner, liveInf, lock, clientVars, found,
                   event, kicked, acked, bounds, missed>>

CallbackInference ==
    /\ up /\ wpc = "inference"
    /\ liveInf' = Inference(found)
    /\ wpc' = "store"
    /\ UNCHANGED <<life, disk, may, inner, liveMic, lock, clientVars, found,
                   event, kicked, acked, bounds, missed>>

\* ... and the worker commits to the snapshot.
ReloadStore ==
    /\ up /\ wpc = "store"
    /\ inner' = found
    /\ wpc' = "idle" /\ lock' = Nobody /\ found' = NoRequest
    /\ UNCHANGED <<life, disk, may, live, clientVars, event, kicked,
                   acked, bounds, missed>>

----------------------------------------------------------------------------
\* Power loss and boot.

InFlight == {c \in Clients : pc[c] \in {"sync", "store", "after"}}

Crash ==
    /\ (up \/ loaded) /\ crashes < MaxCrashes /\ crashes' = crashes + 1
    /\ up' = FALSE /\ loaded' = FALSE
    /\ disk' \in may /\ may' = {disk'}
    /\ acked' = [f \in Fields |->
                    IF \A c \in InFlight : req[c][f] = Keep THEN acked[f] ELSE Keep]
    /\ lock' = Nobody
    /\ pc' = [c \in Clients |-> "idle"] /\ req' = [c \in Clients |-> NoRequest]
    /\ work' = [c \in Clients |-> NoRequest] /\ saved' = FALSE
    /\ event' = FALSE /\ kicked' = FALSE /\ wpc' = "idle" /\ found' = NoRequest
    /\ missed' = FALSE
    /\ UNCHANGED <<mock, inner, live, posts, edits, faults>>

\* Boot loads the file early, and refuses one it cannot use; the operator has
\* to repair it.
BootLoad ==
    /\ ~up /\ ~loaded /\ disk # Broken /\ Accepts(disk)
    /\ loaded' = TRUE
    /\ inner' = disk /\ liveMic' = BootMic(disk) /\ liveInf' = Inference(disk)
    /\ UNCHANGED <<mock, up, disk, may, lock, clientVars, watcher, acked, bounds>>

\* Later in the boot it installs the watcher; the API comes up after that.
BootWatch ==
    /\ loaded
    /\ up' = TRUE /\ loaded' = FALSE
    /\ UNCHANGED <<mock, disk, may, inner, live, lock, clientVars, watcher, acked,
                   bounds>>

Client(c) ==
    \/ Mutate(c) \/ WriteToml(c) \/ SyncToml(c) \/ WriteFails(c)
    \/ StoreInner(c) \/ AfterHook(c)

Reload ==
    \/ Debounce \/ Settled \/ ReloadRead \/ ReloadReadFails \/ CallbackRejects
    \/ CallbackMic \/ CallbackInference \/ ReloadStore

Next ==
    \/ \E c \in Clients : (\E r \in Requests : Post(c, r)) \/ Client(c)
    \/ \E x \in Config \cup {Broken} : OperatorEdit(x)
    \/ Notify \/ NotifyLost \/ Reload \/ Crash \/ BootLoad \/ BootWatch

\* Threads run, notify delivers, a quiet window comes: edits are bounded, and
\* an operator's saves do not follow each other within 100 ms forever.
Spec ==
    /\ Init /\ [][Next]_vars
    /\ \A c \in Clients : WF_vars(Client(c))
    /\ WF_vars(Notify) /\ WF_vars(Reload)

----------------------------------------------------------------------------
\* Every variable stays in its type: what is written is always a whole
\* configuration.
TypeOK ==
    /\ mock \in BOOLEAN /\ up \in BOOLEAN /\ loaded \in BOOLEAN
    /\ disk \in Config \cup {Broken} /\ may \in SUBSET (Config \cup {Broken})
    /\ inner \in Config /\ found \in Config \cup {NoRequest}
    /\ work \in [Clients -> Config \cup {NoRequest}] /\ saved \in BOOLEAN
    /\ liveMic \in Mics /\ liveInf \in [hop : Hops, topk : TopKs]
    /\ lock \in Clients \cup {Nobody, Worker}
    /\ pc \in [Clients -> {"idle", "lock", "write", "sync", "store", "after"}]
    /\ req \in [Clients -> Requests \cup {NoRequest}]
    /\ event \in BOOLEAN /\ kicked \in BOOLEAN /\ missed \in BOOLEAN
    /\ wpc \in {"idle", "settle", "lock", "callback", "inference", "store"}
    /\ acked \in [Fields -> Mics \cup Hops \cup TopKs \cup {Keep}]
    /\ posts \in 0..MaxPosts /\ edits \in 0..MaxEdits
    /\ faults \in 0..MaxFaults /\ crashes \in 0..MaxCrashes

\* watch_with: holding mutate_lock keeps a reload from losing an API write, and
\* a partial update from undoing another: until an operator saves the file,
\* every acknowledged field keeps its value, across power losses too.
NoLostUpdate ==
    up /\ lock = Nobody =>
        \A f \in Fields : acked[f] # Keep => inner[f] = acked[f]

\* An acknowledged update is on stable storage.
AckedIsDurable ==
    lock \in {Nobody, Worker} =>
        \A f \in Fields : acked[f] # Keep =>
            \A x \in may : x # Broken /\ x[f] = acked[f]

\* A usable file is picked up in the end, whatever the debounce worker was
\* doing when it was saved.  Three kinds of save go by unread until the next
\* kick or boot: one that falls between the load of the file and the install
\* of the watcher, one whose event notify reports as an error, and one whose
\* read fails.  None of them is retried.
ReloadConverges ==
    []<>(~up \/ disk = Broken \/ ~Accepts(disk) \/ inner = disk \/ missed)

============================================================================
