---------------------------- MODULE HeadRotation ----------------------------
(***************************************************************************)
(* The trained heads of one workspace: publish_trained_head and            *)
(* delete_head (modules/file_mgr/head_rotation.rs), the cached index       *)
(* (cache.rs), put_atomic (fs_atomic.rs) and the boot sweep of the         *)
(* workspace (recover_one_workspace, recovery.rs).  Both operations run    *)
(* under the workspace's mutex, so one program counter is enough; each     *)
(* step that touches the disk or the cache is an action, any of them may   *)
(* fail, and the machine may lose power between two of them.               *)
(*                                                                         *)
(* Disk: a rename or an unlink is visible at once and durable after the    *)
(* next successful fsync of its directory.  Until then a power loss keeps  *)
(* or loses it, independently of the others.  fsync of a directory is      *)
(* taken to cover the directory's own entry (heads/ is created lazily).    *)
(*                                                                         *)
(* A head id is the number of the publish that created it.                 *)
(***************************************************************************)
EXTENDS Naturals, Sequences

CONSTANTS
    MaxHeads,       \* MAX_HEADS_PER_WORKSPACE
    MaxPublishes,   \* bound: publishes started
    MaxFaults,      \* bound: I/O errors
    MaxCrashes      \* bound: power losses

ASSUME HeadsAssumption ==
    /\ MaxHeads \in Nat \ {0}
    /\ MaxPublishes \in Nat /\ MaxFaults \in Nat /\ MaxCrashes \in Nat

VARIABLES
    pc,           \* the step about to run; "idle" when the mutex is free
    files,        \* entries of heads/: pairs of a head id and an extension
    durable,      \* entries of heads/ on stable storage
    index,        \* heads.json, newest first
    indexMay,     \* contents of heads.json that a power loss may leave
    count,        \* workspace.json.head_count
    countMay,     \* values of it that a power loss may leave
    loaded,       \* the cache cell exists
    cachedHeads,  \* its head index
    cachedCount,  \* head_count of its core
    next,         \* next_index of the operation in progress
    head,         \* head_id of the operation in progress
    victim,       \* head whose files the operation unlinks, or NoHead
    published,    \* publishes started
    outcome,      \* how the last operation, or the boot, ended
    gone,         \* heads whose removal was acknowledged
    faults, crashes

diskVars == <<files, durable, index, indexMay, count, countMay>>
cacheVars == <<loaded, cachedHeads, cachedCount>>
opVars == <<next, head, victim, published>>
ghostVars == <<outcome, gone>>
bounds == <<faults, crashes>>
vars == <<pc, diskVars, cacheVars, opVars, ghostVars, bounds>>

NoHead == 0
Mpk(h) == <<h, "mpk">>
Json(h) == <<h, "json">>
Members(s) == {s[i] : i \in 1..Len(s)}

\* create_workspace leaves an empty index and a zero count, both durable.
Init ==
    /\ pc = "idle"
    /\ files = {} /\ durable = {}
    /\ index = <<>> /\ indexMay = {<<>>}
    /\ count = 0 /\ countMay = {0}
    /\ loaded = FALSE /\ cachedHeads = <<>> /\ cachedCount = 0
    /\ next = <<>> /\ head = NoHead /\ victim = NoHead /\ published = 0
    /\ outcome = "none" /\ gone = {}
    /\ faults = 0 /\ crashes = 0

----------------------------------------------------------------------------
\* The cache cell, and the first steps of a publish.

\* load_from_disk, by whichever request touches the workspace first.
LoadCell ==
    /\ pc = "idle" /\ ~loaded
    /\ loaded' = TRUE /\ cachedHeads' = index /\ cachedCount' = count
    /\ UNCHANGED <<pc, diskVars, opVars, ghostVars, bounds>>

PublishBegin ==
    /\ pc = "idle" /\ loaded
    /\ published < MaxPublishes
    /\ published' = published + 1
    /\ head' = published + 1
    /\ pc' = "json"
    /\ outcome' = "none"
    /\ UNCHANGED <<diskVars, cacheVars, next, victim, gone, bounds>>

\* put_atomic of the per-head manifest: rename, then fsync of heads/.
RenameManifest ==
    /\ pc = "json"
    /\ files' = files \cup {Json(head)}
    /\ pc' = "jsonSync"
    /\ UNCHANGED <<durable, index, indexMay, count, countMay,
                   cacheVars, opVars, ghostVars, bounds>>

FsyncManifest ==
    /\ pc = "jsonSync"
    /\ durable' = files
    /\ pc' = "mpk"
    /\ UNCHANGED <<files, index, indexMay, count, countMay,
                   cacheVars, opVars, ghostVars, bounds>>

RenameMpk ==
    /\ pc = "mpk"
    /\ files' = files \cup {Mpk(head)}
    /\ pc' = "mpkSync"
    /\ UNCHANGED <<durable, index, indexMay, count, countMay,
                   cacheVars, opVars, ghostVars, bounds>>

\* Mutant of FsyncHeads: the index is committed without waiting.
FsyncHeadsSkipped ==
    /\ pc = "mpkSync"
    /\ pc' = "index"
    /\ UNCHANGED <<diskVars, cacheVars, opVars, ghostVars, bounds>>

\* Step 6: fsync of heads/ before the index commit.
FsyncHeads ==
    /\ pc = "mpkSync"
    /\ durable' = files
    /\ pc' = "index"
    /\ UNCHANGED <<files, index, indexMay, count, countMay,
                   cacheVars, opVars, ghostVars, bounds>>

----------------------------------------------------------------------------
\* The commit both operations share.

\* Prepend h and drop the tail beyond MaxHeads.
Prepend(h, s) ==
    [i \in 1..(IF Len(s) < MaxHeads THEN Len(s) + 1 ELSE MaxHeads) |->
        IF i = 1 THEN h ELSE s[i - 1]]

Displaced(s) == IF Len(s) < MaxHeads THEN NoHead ELSE s[MaxHeads]

WithoutPosition(s, k) ==
    [i \in 1..(Len(s) - 1) |-> IF i < k THEN s[i] ELSE s[i + 1]]

\* put_atomic of heads.json up to its rename.
RenameIndex(s) ==
    /\ next' = s
    /\ index' = s
    /\ indexMay' = indexMay \cup {s}
    /\ pc' = "indexSync"
    /\ UNCHANGED <<files, durable, count, countMay, cacheVars, bounds>>

\* Mutant of PublishIndex: the base is heads.json on disk, which after an
\* error may hold an update that was never committed.
PublishIndexFromDisk ==
    /\ pc = "index"
    /\ victim' = Displaced(index)
    /\ RenameIndex(Prepend(head, index))
    /\ UNCHANGED <<head, published, ghostVars>>

PublishIndex ==
    /\ pc = "index"
    /\ victim' = Displaced(cachedHeads)
    /\ RenameIndex(Prepend(head, cachedHeads))
    /\ UNCHANGED <<head, published, ghostVars>>

\* delete_head: the entry is looked up in the cached index.
DeleteIndex(k) ==
    /\ pc = "idle" /\ loaded
    /\ head' = cachedHeads[k]
    /\ victim' = cachedHeads[k]
    /\ RenameIndex(WithoutPosition(cachedHeads, k))
    /\ outcome' = "none"
    /\ UNCHANGED <<published, gone>>

\* fsync of the workspace directory, which holds both JSON files.
FsyncIndex ==
    /\ pc = "indexSync"
    /\ indexMay' = {index} /\ countMay' = {count}
    /\ pc' = "core"
    /\ UNCHANGED <<files, durable, index, count,
                   cacheVars, opVars, ghostVars, bounds>>

RenameCore ==
    /\ pc = "core"
    /\ count' = Len(next)
    /\ countMay' = countMay \cup {Len(next)}
    /\ pc' = "coreSync"
    /\ UNCHANGED <<files, durable, index, indexMay,
                   cacheVars, opVars, ghostVars, bounds>>

\* Mutant of FsyncCore: put_atomic returns after its rename.
FsyncCoreSkipped ==
    /\ pc = "coreSync"
    /\ pc' = "cacheHeads"
    /\ UNCHANGED <<diskVars, cacheVars, opVars, ghostVars, bounds>>

FsyncCore ==
    /\ pc = "coreSync"
    /\ indexMay' = {index} /\ countMay' = {count}
    /\ pc' = "cacheHeads"
    /\ UNCHANGED <<files, durable, index, count,
                   cacheVars, opVars, ghostVars, bounds>>

\* The two ArcSwap stores: readers may run between them.
CacheHeads ==
    /\ pc = "cacheHeads"
    /\ cachedHeads' = next
    /\ pc' = "cacheCore"
    /\ UNCHANGED <<diskVars, loaded, cachedCount, opVars, ghostVars, bounds>>

\* Ok(()), or on to the unlinks.
Acknowledge ==
    /\ pc' = "idle"
    /\ outcome' = "ok"
    /\ gone' = IF victim = NoHead THEN gone ELSE gone \cup {victim}

CacheCore ==
    /\ pc = "cacheCore"
    /\ cachedCount' = Len(next)
    /\ IF victim = NoHead THEN Acknowledge
       ELSE pc' = "unlinkMpk" /\ UNCHANGED ghostVars
    /\ UNCHANGED <<diskVars, loaded, cachedHeads, opVars, bounds>>

UnlinkMpk ==
    /\ pc = "unlinkMpk"
    /\ files' = files \ {Mpk(victim)}
    /\ pc' = "unlinkJson"
    /\ UNCHANGED <<durable, index, indexMay, count, countMay,
                   cacheVars, opVars, ghostVars, bounds>>

UnlinkJson ==
    /\ pc = "unlinkJson"
    /\ files' = files \ {Json(victim)}
    /\ pc' = "unlinkSync"
    /\ UNCHANGED <<durable, index, indexMay, count, countMay,
                   cacheVars, opVars, ghostVars, bounds>>

FsyncUnlinks ==
    /\ pc = "unlinkSync"
    /\ durable' = files
    /\ Acknowledge
    /\ UNCHANGED <<files, index, indexMay, count, countMay,
                   cacheVars, opVars, bounds>>

----------------------------------------------------------------------------
\* Faults.

\* `?` on any step up to the cache: the operation returns its error at once.
Fail ==
    /\ faults < MaxFaults
    /\ pc \in {"json", "jsonSync", "mpk", "mpkSync", "index", "indexSync",
               "core", "coreSync"}
    /\ pc' = "idle"
    /\ outcome' = "err"
    /\ faults' = faults + 1
    /\ UNCHANGED <<diskVars, cacheVars, opVars, gone, crashes>>

\* The unlinks and their fsync are best-effort.
SkipUnlink ==
    /\ faults < MaxFaults
    /\ \/ pc = "unlinkMpk" /\ pc' = "unlinkJson" /\ UNCHANGED ghostVars
       \/ pc = "unlinkJson" /\ pc' = "unlinkSync" /\ UNCHANGED ghostVars
       \/ pc = "unlinkSync" /\ Acknowledge
    /\ faults' = faults + 1
    /\ UNCHANGED <<diskVars, cacheVars, opVars, crashes>>

\* Power loss: memory is lost, and with it any update that was not yet
\* durable and did not happen to reach the disk.
Crash ==
    /\ crashes < MaxCrashes
    /\ crashes' = crashes + 1
    /\ pc' = "sweep"
    /\ outcome' = "booted"
    /\ \E lost \in SUBSET (files \ durable), back \in SUBSET (durable \ files) :
          files' = (files \ lost) \cup back
    /\ durable' = files'
    /\ index' \in indexMay /\ indexMay' = {index'}
    /\ count' \in countMay /\ countMay' = {count'}
    /\ loaded' = FALSE /\ cachedHeads' = <<>> /\ cachedCount' = 0
    /\ next' = <<>> /\ head' = NoHead /\ victim' = NoHead
    /\ UNCHANGED <<published, gone, faults>>

----------------------------------------------------------------------------
\* Boot: recover_one_workspace.

Orphans == {f \in files : f[1] \notin Members(index)}

\* Mutant of Sweep: manifests are not recognised as head files.
SweepOnlyMpk ==
    /\ pc = "sweep"
    /\ files' = files \ {f \in Orphans : f[2] = "mpk"}
    /\ pc' = IF Orphans = {} THEN "repair" ELSE "sweepSync"
    /\ UNCHANGED <<durable, index, indexMay, count, countMay,
                   cacheVars, opVars, ghostVars, bounds>>

\* sweep_head_orphans
Sweep ==
    /\ pc = "sweep"
    /\ files' = files \ Orphans
    /\ pc' = IF Orphans = {} THEN "repair" ELSE "sweepSync"
    /\ UNCHANGED <<durable, index, indexMay, count, countMay,
                   cacheVars, opVars, ghostVars, bounds>>

FsyncSweep ==
    /\ pc = "sweepSync"
    /\ durable' = files
    /\ pc' = "repair"
    /\ UNCHANGED <<files, index, indexMay, count, countMay,
                   cacheVars, opVars, ghostVars, bounds>>

\* repair_head_count
Repair ==
    /\ pc = "repair"
    /\ IF count = Len(index)
       THEN pc' = "idle" /\ UNCHANGED <<count, countMay>>
       ELSE /\ count' = Len(index)
            /\ countMay' = countMay \cup {Len(index)}
            /\ pc' = "repairSync"
    /\ UNCHANGED <<files, durable, index, indexMay,
                   cacheVars, opVars, ghostVars, bounds>>

FsyncRepair ==
    /\ pc = "repairSync"
    /\ indexMay' = {index} /\ countMay' = {count}
    /\ pc' = "idle"
    /\ UNCHANGED <<files, durable, index, count,
                   cacheVars, opVars, ghostVars, bounds>>

\* An orphan that cannot be unlinked, or an fsync of heads/ that fails, is
\* left for the next boot; any other error ends this workspace's sweep.
BootFault ==
    /\ faults < MaxFaults
    /\ \/ /\ pc = "sweep"
          /\ \E kept \in SUBSET Orphans : files' = files \ (Orphans \ kept)
          /\ \/ pc' = "idle"
             \/ pc' = IF files' = files THEN "repair" ELSE "sweepSync"
       \/ pc = "sweepSync" /\ pc' = "repair" /\ UNCHANGED files
       \/ pc \in {"repair", "repairSync"} /\ pc' = "idle" /\ UNCHANGED files
    /\ outcome' = "err"
    /\ faults' = faults + 1
    /\ UNCHANGED <<durable, index, indexMay, count, countMay,
                   cacheVars, opVars, gone, crashes>>

----------------------------------------------------------------------------

Commit ==
    \/ FsyncIndex \/ RenameCore \/ FsyncCore \/ CacheHeads \/ CacheCore
    \/ UnlinkMpk \/ UnlinkJson \/ FsyncUnlinks

Boot == Sweep \/ FsyncSweep \/ Repair \/ FsyncRepair \/ BootFault

Next ==
    \/ LoadCell
    \/ PublishBegin
    \/ RenameManifest \/ FsyncManifest \/ RenameMpk \/ FsyncHeads
    \/ PublishIndex
    \/ \E k \in 1..Len(cachedHeads) : DeleteIndex(k)
    \/ Commit
    \/ Fail
    \/ SkipUnlink
    \/ Crash
    \/ Boot

Spec == Init /\ [][Next]_vars

----------------------------------------------------------------------------
\* Properties.

Steps ==
    {"idle", "json", "jsonSync", "mpk", "mpkSync", "index", "indexSync",
     "core", "coreSync", "cacheHeads", "cacheCore", "unlinkMpk",
     "unlinkJson", "unlinkSync", "sweep", "sweepSync", "repair",
     "repairSync"}

HeadIds == 1..MaxPublishes

\* Every variable stays in its type; no index exceeds the window.
TypeOK ==
    /\ pc \in Steps
    /\ files \subseteq HeadIds \X {"mpk", "json"}
    /\ durable \subseteq HeadIds \X {"mpk", "json"}
    /\ index \in indexMay
    /\ \A s \in indexMay : s \in Seq(HeadIds) /\ Len(s) <= MaxHeads
    /\ count \in countMay /\ countMay \subseteq 0..MaxHeads
    /\ loaded \in BOOLEAN
    /\ cachedHeads \in Seq(HeadIds) /\ Len(cachedHeads) <= MaxHeads
    /\ cachedCount \in 0..MaxHeads
    /\ next \in Seq(HeadIds) /\ Len(next) <= MaxHeads
    /\ head \in 0..published /\ victim \in 0..published
    /\ published \in 0..MaxPublishes
    /\ outcome \in {"none", "ok", "err", "booted"}
    /\ gone \subseteq 1..published
    /\ faults \in 0..MaxFaults /\ crashes \in 0..MaxCrashes

\* Both files of h are there and survive a power loss.
Kept(h) ==
    /\ Mpk(h) \in files \cap durable
    /\ Json(h) \in files \cap durable

\* "heads.json referencing a missing head file is corruption": no heads.json
\* that a power loss may leave, and no index the cache serves, names a head
\* one of whose files is missing or could be lost.
IndexNeverDangles ==
    /\ \A s \in indexMay : \A h \in Members(s) : Kept(h)
    /\ \A h \in Members(cachedHeads) : Kept(h)

\* An operation that returned Ok is durable, and the cache agrees with the
\* disk, whatever failed before it.
AckedIsDurable ==
    pc = "idle" /\ outcome = "ok" =>
        /\ indexMay = {cachedHeads}
        /\ countMay = {Len(cachedHeads)}
        /\ cachedCount = Len(cachedHeads)

\* A head whose deletion or displacement was acknowledged is in no index
\* again, neither after a power loss nor through the cache that the next
\* publish starts from.
GoneForGood ==
    \A h \in gone :
        /\ \A s \in indexMay : h \notin Members(s)
        /\ h \notin Members(cachedHeads)

\* A boot sweep without I/O errors leaves no orphan file and the derived
\* count equal to the length of the index.
BootConverges ==
    pc = "idle" /\ outcome = "booted" =>
        Orphans = {} /\ countMay = {Len(index)}

\* The id of a publish that has not yet reached heads.json.
Reserved ==
    IF pc \in {"json", "jsonSync", "mpk", "mpkSync", "index"} THEN {head} ELSE {}

\* What callers see: the cached index, or the file before it is cached.
Visible == IF loaded THEN cachedHeads ELSE index

Store == INSTANCE HeadStore WITH
    committed <- Visible,
    pending <- indexMay \ {Visible},
    issued <- 1..published,
    reserved <- Reserved,
    retired <- gone

\* The two operations, their failures, the power losses and the boot sweep
\* implement HeadStore: an atomic window of heads whose commits survive.  A
\* publish that returned an error may surface after a power loss but never
\* mixes with a later one, no other outcome is left when the cache is
\* updated, and an acknowledged removal is final.
ImplementsHeadStore == Store!Spec

============================================================================
