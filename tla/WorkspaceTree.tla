--------------------------- MODULE WorkspaceTree ----------------------------
(***************************************************************************)
(* The workspaces on disk and in the cache: create, patch, upload, dataset *)
(* delete and whole-workspace delete (modules/file_mgr/registry.rs,        *)
(* dataset.rs, staging.rs, cache.rs and the routes that call them), the    *)
(* boot sweep of the staging directories (recovery.rs), the storage reaper *)
(* and the runs that turn a dataset into a head.                           *)
(*                                                                         *)
(* One action is one step of one request between two points where another  *)
(* request, an I/O error or a power loss may come: a lock taken, a rename, *)
(* an fsync, a cache update.  A rename is visible at once and durable      *)
(* after the next fsync of its directory; until then a power loss keeps or *)
(* loses it.  The fsync of a dataset folder does not reach the folder's    *)
(* own entry in the directory above: a folder that create_dir_all has just *)
(* made may go with all it holds.                                          *)
(*                                                                         *)
(* A dataset is abstracted to the number v of the change that made it; the *)
(* same dataset without its unsynced folders is v + 1, and a refused       *)
(* request (a name in use, a conflict) is no step.                         *)
(***************************************************************************)
EXTENDS Naturals, FiniteSets, FiniteSetsExt

CONSTANTS
    Workspaces,   \* workspace ids
    Names,        \* workspace names, folded to lower case
    Clients,      \* requests in flight, and their detached drains
    None,         \* no workspace, no owner, no file
    Trainer,      \* the thread that publishes a trained head
    First,        \* the workspace that exists at the start
    FirstName,    \* its name
    MaxUploads,   \* max_concurrent_uploads
    MaxOps,       \* bound: requests started
    MaxTrains,    \* bound: training runs started
    MaxFaults,    \* bound: I/O errors
    MaxCrashes    \* bound: power losses

ASSUME WorkspaceAssumption ==
    /\ First \in Workspaces /\ FirstName \in Names
    /\ None \notin Workspaces \cup Clients
    /\ Trainer \notin Clients \cup {None}
    /\ MaxUploads \in Nat \ {0} /\ MaxOps \in Nat /\ MaxTrains \in Nat
    /\ MaxFaults \in Nat /\ MaxCrashes \in Nat

\* workspace.json, and a workspace directory.
Cores == [name : Names, rev : Nat]
Dirs == [core : Cores \cup {None}, data : Nat]

\* "Nothing there" is neither.
ASSUME NoneAssumption == None \notin Cores /\ None \notin Dirs

VARIABLES
    phase,      \* "up", or the boot step about to run
    tree,       \* workspaces/<id>: its workspace.json and its dataset
    treeMay,    \* what a power loss may leave of it
    tmp,        \* tombstones and stage directories
    tmpDurable, \* those on stable storage
    cell,       \* the cache: workspace_core of each loaded workspace
    regLock,    \* owner of registry_lock
    metaLock,   \* owner of the workspace's metadata lock
    op,         \* the request each client runs
    ops,        \* requests started
    minted,     \* workspace ids handed out
    heads,      \* published heads: captured revision, dataset trained on
    train,      \* the training run
    trains,     \* training runs started
    kept,       \* workspaces whose creation was acknowledged
    acked,      \* dataset of the last acknowledged change
    deleted,    \* workspaces whose delete was acknowledged
    doomed,     \* workspaces a delete has moved away
    raced,      \* of those, the ones a PATCH had already checked or whose
                \* workspace.json a head publish had already read
    suspect,    \* workspaces whose core or dataset the other left behind
    loose,      \* workspaces with a dataset folder whose own entry has not
                \* reached the disk
    faults, crashes

diskVars == <<tree, treeMay, tmp, tmpDurable>>
lockVars == <<regLock, metaLock>>
reqVars == <<op, ops, minted>>
trainVars == <<heads, train, trains>>
ghostVars == <<kept, acked, deleted, doomed, raced, suspect, loose>>
bounds == <<faults, crashes>>
vars == <<phase, diskVars, cell, lockVars, reqVars, trainVars, ghostVars,
          bounds>>

Idle == [pc |-> "idle", ws |-> None, core |-> None, job |-> 0]
NoTrain == [pc |-> "idle", ws |-> None, rev |-> 0, data |-> 0, core |-> None]
Core(n, r) == [name |-> n, rev |-> r]
EmptyDir == [core |-> None, data |-> 0]

Init ==
    /\ phase = "up"
    /\ tree = [w \in Workspaces |->
                 IF w = First THEN [core |-> Core(FirstName, 0), data |-> 0]
                 ELSE None]
    /\ treeMay = [w \in Workspaces |-> {tree[w]}]
    /\ tmp = {} /\ tmpDurable = {}
    /\ cell = [w \in Workspaces |-> None]
    /\ regLock = None /\ metaLock = [w \in Workspaces |-> None]
    /\ op = [c \in Clients |-> Idle] /\ ops = 0
    /\ heads = [w \in Workspaces |-> {}] /\ train = NoTrain /\ trains = 0
    /\ minted = {First} /\ kept = {First}
    /\ acked = [w \in Workspaces |-> 0]
    /\ deleted = {} /\ doomed = {} /\ raced = {}
    /\ suspect = {} /\ loose = {}
    /\ faults = 0 /\ crashes = 0

----------------------------------------------------------------------------
\* Files and directories.

\* workspace_core_path(..).exists()
Exists(w) == tree[w] # None /\ tree[w].core # None

\* put_atomic of workspace.json: the rename, and the fsync of the workspace
\* directory.  What a power loss between the two may leave is what one
\* before or after both leaves; an error between the two is in Fault.
PutCore(w, k) ==
    /\ tree' = [tree EXCEPT ![w].core = k]
    /\ treeMay' = [treeMay EXCEPT ![w] =
          {IF m = None THEN None ELSE [m EXCEPT !.core = k] : m \in @}]

PutCoreNoFsync(w, k) ==
    /\ tree' = [tree EXCEPT ![w].core = k]
    /\ treeMay' = [treeMay EXCEPT ![w] =
          @ \cup {[m EXCEPT !.core = k] : m \in @ \ {None}}]

\* Dataset v, with the unsynced folders and without them.
Variants(w, v) == IF w \in loose THEN {v, v + 1} ELSE {v}

\* A rename that changes the dataset, and the fsync of its directory.
RenameData(w, v) ==
    /\ tree' = [tree EXCEPT ![w].data = v]
    /\ treeMay' = [treeMay EXCEPT ![w] =
          @ \cup {[m EXCEPT !.data = d] : m \in @ \ {None},
                                         d \in Variants(w, v)}]

\* A number above every dataset there was or may be again.
NextData(w) ==
    1 + Max({0, acked[w]} \cup {m.data : m \in treeMay[w] \ {None}}
            \cup {h.data : h \in heads[w]}
            \cup IF train.ws = w THEN {train.data} ELSE {})

FsyncData(w, datas) ==
    treeMay' = [treeMay EXCEPT ![w] =
      (@ \cap {None})
      \cup {[m EXCEPT !.data = d] : m \in @ \ {None}, d \in datas}]

\* What the fsync of a changed dataset folder makes durable: nothing, when
\* the folder's own entry is not on disk ("none"); the change ("folder");
\* the change and every folder entry, when the fsynced directory is the one
\* above them, as after the delete of a folder or of the tree ("above").
FsyncFolder(w, reach) ==
    \/ /\ reach = "none"
       /\ loose' = loose \cup {w}
       /\ UNCHANGED <<treeMay, acked>>
    \/ /\ reach = "folder"
       /\ FsyncData(w, Variants(w, tree[w].data))
       /\ acked' = [acked EXCEPT ![w] = tree[w].data]
       /\ UNCHANGED loose
    \/ /\ reach = "above"
       /\ FsyncData(w, {tree[w].data})
       /\ acked' = [acked EXCEPT ![w] = tree[w].data]
       /\ loose' = loose \ {w}

\* create_dir_all below a workspace directory that may be gone.
Mkdir(w) ==
    IF tree[w] # None THEN UNCHANGED <<tree, treeMay>>
    ELSE /\ tree' = [tree EXCEPT ![w] = EmptyDir]
         /\ treeMay' = [treeMay EXCEPT ![w] = @ \cup {EmptyDir}]

Entry(part, scope, w, j) ==
    [part |-> part, scope |-> scope, ws |-> w, job |-> j]
EntriesOf(j) == {e \in tmp : e.job = j}

\* fsync of one staging directory, the root's or a workspace's.
FsyncTmp(scope, w, now) ==
    LET here(e) == e.scope = scope /\ (scope = "root" \/ e.ws = w)
    IN  tmpDurable' = {e \in tmpDurable : ~here(e)} \cup {e \in now : here(e)}

\* cache_cell: the cached core, else workspace.json.
CellOf(w) == IF cell[w] # None THEN cell[w] ELSE tree[w].core
CanLoad(w) == cell[w] # None \/ Exists(w)
Load(w) == cell' = [cell EXCEPT ![w] = CellOf(w)]

----------------------------------------------------------------------------
\* Requests.

UploadLeased == {"upCell", "upCore", "upBytes", "upBytesSync"}
TreeDeletePcs == {"tdCell", "tdTomb", "tdCore", "tdStage",
                  "tdSync", "tdDrain"}
WsDeletePcs == {"wdTomb", "wdStage", "wdSync", "wdEvict", "wdDrain"}
PatchPcs == {"patchCell", "patchCore"}
CreatePcs == {"mkdir", "core", "dirSync"}

Start(c, pc, w, k, ids) ==
    /\ phase = "up" /\ op[c] = Idle /\ ops < MaxOps
    /\ minted' = ids
    /\ ops' = ops + 1
    /\ op' = [op EXCEPT ![c] =
                [pc |-> pc, ws |-> w, core |-> k, job |-> ops + 1]]

At(c, pc) == phase = "up" /\ op[c].pc = pc
Goto(c, pc) == op' = [op EXCEPT ![c].pc = pc] /\ UNCHANGED <<ops, minted>>
GotoWith(c, pc, k) ==
    op' = [op EXCEPT ![c].pc = pc, ![c].core = k] /\ UNCHANGED <<ops, minted>>

\* The request returns and its guards drop.
Finish(c) ==
    /\ op' = [op EXCEPT ![c] = Idle]
    /\ regLock' = IF regLock = c THEN None ELSE regLock
    /\ metaLock' = [w \in Workspaces |->
                      IF metaLock[w] = c THEN None ELSE metaLock[w]]
    /\ UNCHANGED <<ops, minted>>

Running(pcs, w) == \E c \in Clients : op[c].pc \in pcs /\ op[c].ws = w
DeleteRunning ==
    \E c \in Clients : op[c].pc \in TreeDeletePcs \cup WsDeletePcs

\* try_acquire_lease and try_acquire for a delete: one delete at a time,
\* and a workspace delete excludes everything else on its workspace.
LeaseFree(w) == ~Running(WsDeletePcs, w)
WsDeleteFree(w) ==
    ~DeleteRunning /\ ~Running(UploadLeased, w)

\* ensure_workspace_name_available
NameFree(n, except) ==
    \A w \in Workspaces : Exists(w) /\ w # except => CellOf(w).name # n

\* Every workspace the check looks at is in the cache afterwards.
LoadListed(except) ==
    cell' = [w \in Workspaces |->
               IF Exists(w) /\ w # except THEN CellOf(w) ELSE cell[w]]

----------------------------------------------------------------------------
\* create_with_tags

CreateCheck(c, w, n) ==
    /\ regLock = None /\ NameFree(n, None)
    /\ w \notin minted
    /\ Start(c, "mkdir", w, Core(n, 0), minted \cup {w})
    /\ regLock' = c
    /\ LoadListed(None)
    /\ UNCHANGED <<phase, diskVars, metaLock, trainVars, ghostVars, bounds>>

\* The directory and an empty heads.json.
CreateDir(c) ==
    /\ At(c, "mkdir")
    /\ Mkdir(op[c].ws)
    /\ Goto(c, "core")
    /\ UNCHANGED <<phase, tmp, tmpDurable, cell, lockVars, trainVars,
                   ghostVars, bounds>>

CreateCore(c) ==
    /\ At(c, "core")
    /\ PutCore(op[c].ws, op[c].core)
    /\ Goto(c, "dirSync")
    /\ UNCHANGED <<phase, tmp, tmpDurable, cell, lockVars, trainVars,
                   ghostVars, bounds>>

\* fsync of workspaces/, then the cache entry and the answer.  A request
\* may have found the workspace in a listing: it may be deleted already,
\* and the entry replaces the one of that request.
CreateDirSync(c) ==
    LET w == op[c].ws IN
    /\ At(c, "dirSync")
    /\ treeMay' = [treeMay EXCEPT ![w] =
                     IF tree[w] = None THEN {None} ELSE @ \ {None}]
    /\ cell' = [cell EXCEPT ![w] = op[c].core]
    /\ kept' = kept \cup {w}
    /\ suspect' = IF cell[w] = None THEN suspect ELSE suspect \cup {w}
    /\ Finish(c)
    /\ UNCHANGED <<phase, tree, tmp, tmpDurable, trainVars, acked,
                   deleted, doomed, raced, loose, bounds>>

----------------------------------------------------------------------------
\* patch_workspace, with a name other than the present one.  It takes no
\* lease.

PatchCheck(c, w, n) ==
    /\ regLock = None /\ NameFree(n, w) /\ Exists(w) /\ CellOf(w).name # n
    /\ Start(c, "patchCell", w, Core(n, 0), minted)
    /\ regLock' = c
    /\ LoadListed(w)
    /\ UNCHANGED <<phase, diskVars, metaLock, trainVars, ghostVars, bounds>>

\* The lock, then cache_cell_for_patch: NotFound when the workspace went.
PatchCell(c) ==
    LET w == op[c].ws IN
    /\ At(c, "patchCell") /\ metaLock[w] = None
    /\ IF CanLoad(w)
       THEN /\ metaLock' = [metaLock EXCEPT ![w] = c]
            /\ Load(w)
            /\ GotoWith(c, "patchCore", Core(op[c].core.name, CellOf(w).rev))
            /\ UNCHANGED regLock
       ELSE Finish(c) /\ UNCHANGED cell
    /\ UNCHANGED <<phase, diskVars, trainVars, ghostVars, bounds>>

\* put_atomic needs the directory, not the old workspace.json.  The cell
\* that PatchCell found is updated even if the delete has evicted it.
PatchCore(c) ==
    LET w == op[c].ws IN
    /\ At(c, "patchCore")
    /\ IF tree[w] # None
       THEN PutCore(w, op[c].core)
            /\ cell' = IF cell[w] # None
                       THEN [cell EXCEPT ![w] = op[c].core] ELSE cell
       ELSE UNCHANGED <<tree, treeMay, cell>>
    /\ Finish(c)
    /\ UNCHANGED <<phase, tmp, tmpDurable, trainVars, ghostVars, bounds>>

----------------------------------------------------------------------------
\* upload_asset and upload_workspace_file

\* try_acquire_upload: the semaphore has a permit left.
PermitFree ==
    Cardinality({d \in Clients :
        op[d].pc \in UploadLeased \cup {"upTmp", "upLease"}}) < MaxUploads

\* The route: summary, an upload permit.
UploadAdmit(c, w) ==
    /\ CanLoad(w) /\ PermitFree
    /\ Start(c, "upTmp", w, None, minted)
    /\ Load(w)
    /\ UNCHANGED <<phase, diskVars, lockVars, trainVars, ghostVars, bounds>>

\* create_dir_all(<ws>/.tmp) and the body streamed into a tempfile there;
\* a body that breaks off or is too large ends the request.
UploadTmp(c) ==
    /\ At(c, "upTmp")
    /\ Mkdir(op[c].ws)
    /\ \/ Goto(c, "upLease") /\ UNCHANGED lockVars
       \/ Finish(c)
    /\ UNCHANGED <<phase, tmp, tmpDurable, cell, trainVars, ghostVars, bounds>>

UploadLease(c) ==
    /\ At(c, "upLease")
    /\ IF LeaseFree(op[c].ws) /\ Exists(op[c].ws)
       THEN Goto(c, "upCell") /\ UNCHANGED lockVars
       ELSE Finish(c)
    /\ UNCHANGED <<phase, diskVars, cell, trainVars, ghostVars, bounds>>

\* bump_workspace_revision of the cached core.
Bumped(w) == Core(CellOf(w).name, CellOf(w).rev + 1)

\* The lock, then either a sibling that differs only in case (refused) or
\* the cell and the next core.
UploadCell(c) ==
    LET w == op[c].ws IN
    /\ At(c, "upCell") /\ metaLock[w] = None
    /\ \/ Finish(c) /\ UNCHANGED cell
       \/ /\ metaLock' = [metaLock EXCEPT ![w] = c]
          /\ Load(w)
          /\ GotoWith(c, "upCore", Bumped(w))
          /\ UNCHANGED regLock
    /\ UNCHANGED <<phase, diskVars, trainVars, ghostVars, bounds>>

\* Mutant of UploadCore: the bytes move before the revision.
UploadCoreLate(c) ==
    /\ At(c, "upCore")
    /\ RenameData(op[c].ws, NextData(op[c].ws))
    /\ Goto(c, "upBytes")
    /\ UNCHANGED <<phase, tmp, tmpDurable, cell, lockVars, trainVars,
                   ghostVars, bounds>>

\* Revision before bytes.
UploadCore(c) ==
    /\ At(c, "upCore")
    /\ PutCore(op[c].ws, op[c].core)
    /\ Goto(c, "upBytes")
    /\ UNCHANGED <<phase, tmp, tmpDurable, cell, lockVars, trainVars,
                   ghostVars, bounds>>

UploadBytes(c) ==
    /\ At(c, "upBytes")
    /\ RenameData(op[c].ws, NextData(op[c].ws))
    /\ Goto(c, "upBytesSync")
    /\ UNCHANGED <<phase, tmp, tmpDurable, cell, lockVars, trainVars,
                   ghostVars, bounds>>

\* publish_core and the receipt.
Acknowledge(c) ==
    LET w == op[c].ws IN
    /\ cell' = IF cell[w] # None THEN [cell EXCEPT ![w] = op[c].core] ELSE cell
    /\ UNCHANGED <<kept, deleted, doomed, raced, suspect>>

\* Mutant of UploadBytesSync: the receipt does not wait for the fsync.
UploadBytesNoSync(c, reach) ==
    /\ At(c, "upBytesSync") /\ reach = "folder"
    /\ acked' = [acked EXCEPT ![op[c].ws] = tree[op[c].ws].data]
    /\ Acknowledge(c)
    /\ Finish(c)
    /\ UNCHANGED <<phase, diskVars, trainVars, loose, bounds>>

\* fsync_dir of the file's parent, and of no directory above it.
UploadBytesSync(c, reach) ==
    /\ At(c, "upBytesSync") /\ reach \in {"none", "folder"}
    /\ FsyncFolder(op[c].ws, reach)
    /\ Acknowledge(c)
    /\ Finish(c)
    /\ UNCHANGED <<phase, tree, tmp, tmpDurable, trainVars, bounds>>

----------------------------------------------------------------------------
\* start_async_tree_delete (datasets/ or converters/), and its drain

TreeDeleteAdmit(c, w) ==
    /\ Exists(w) /\ tree[w].data # 0
    /\ ~DeleteRunning
    /\ Start(c, "tdCell", w, None, minted)
    /\ UNCHANGED <<phase, diskVars, cell, lockVars, trainVars, ghostVars,
                   bounds>>

TreeDeleteCell(c) ==
    LET w == op[c].ws IN
    /\ At(c, "tdCell") /\ metaLock[w] = None
    /\ metaLock' = [metaLock EXCEPT ![w] = c]
    /\ Load(w)
    /\ GotoWith(c, "tdTomb", Bumped(w))
    /\ UNCHANGED <<phase, diskVars, regLock, trainVars, ghostVars, bounds>>

\* write_tombstone: rename and fsync.
WriteTombstone(c, scope) ==
    LET now == tmp \cup {Entry("tombstone", scope, op[c].ws, op[c].job)}
    IN  tmp' = now /\ FsyncTmp(scope, op[c].ws, now)

TreeDeleteTomb(c) ==
    /\ At(c, "tdTomb")
    /\ WriteTombstone(c, "tree")
    /\ Goto(c, "tdCore")
    /\ UNCHANGED <<phase, tree, treeMay, cell, lockVars, trainVars,
                   ghostVars, bounds>>

TreeDeleteCore(c) ==
    /\ At(c, "tdCore")
    /\ PutCore(op[c].ws, op[c].core)
    /\ Goto(c, "tdStage")
    /\ UNCHANGED <<phase, tmp, tmpDurable, cell, lockVars, trainVars,
                   ghostVars, bounds>>

\* stage_payload: the stage directory and its fsync come before the rename.
MkStage(c, scope) ==
    LET now == tmp \cup {Entry("stage", scope, op[c].ws, op[c].job)}
    IN  tmp' = now /\ FsyncTmp(scope, op[c].ws, now)

TreeDeleteStage(c) ==
    /\ At(c, "tdStage")
    /\ MkStage(c, "tree")
    /\ RenameData(op[c].ws, NextData(op[c].ws))
    /\ Goto(c, "tdSync")
    /\ UNCHANGED <<phase, cell, lockVars, trainVars, ghostVars, bounds>>

\* Both fsyncs, the re-created directory, publish_core, unlock, the answer.
\* A sub-path may lie in a folder whose own entry is not on disk.
TreeDeleteSync(c, reach) ==
    LET w == op[c].ws IN
    /\ At(c, "tdSync") /\ (reach = "none" => w \in loose)
    /\ FsyncFolder(w, reach)
    /\ Acknowledge(c)
    /\ metaLock' = [metaLock EXCEPT ![w] = None]
    /\ Goto(c, "tdDrain")
    /\ UNCHANGED <<phase, tree, tmp, tmpDurable, regLock, trainVars, bounds>>

\* drain_staged_payload to the end, then finalize_staged_delete: payload,
\* stage directory, tombstone, fsync.
Drain(c, scope) ==
    LET now == tmp \ EntriesOf(op[c].job)
    IN  tmp' = now /\ FsyncTmp(scope, op[c].ws, now)

TreeDeleteDrain(c) ==
    /\ At(c, "tdDrain")
    /\ Drain(c, "tree")
    /\ Finish(c)
    /\ UNCHANGED <<phase, tree, treeMay, cell, trainVars, ghostVars, bounds>>

----------------------------------------------------------------------------
\* start_delete_workspace, and its drain.  It takes neither lock.

WsDeleteAdmit(c, w) ==
    /\ Exists(w) /\ WsDeleteFree(w)
    /\ Start(c, "wdTomb", w, None, minted)
    /\ UNCHANGED <<phase, diskVars, cell, lockVars, trainVars, ghostVars,
                   bounds>>

WsDeleteTomb(c) ==
    /\ At(c, "wdTomb")
    /\ WriteTombstone(c, "root")
    /\ Goto(c, "wdStage")
    /\ UNCHANGED <<phase, tree, treeMay, cell, lockVars, trainVars,
                   ghostVars, bounds>>

WsDeleteStage(c) ==
    LET w == op[c].ws IN
    /\ At(c, "wdStage")
    /\ MkStage(c, "root")
    /\ tree' = [tree EXCEPT ![w] = None]
    /\ treeMay' = [treeMay EXCEPT ![w] = @ \cup {None}]
    /\ doomed' = doomed \cup {w}
    /\ raced' = IF Running(PatchPcs, w) \/ (train.pc = "core" /\ train.ws = w)
                THEN raced \cup {w} ELSE raced
    /\ Goto(c, "wdSync")
    /\ UNCHANGED <<phase, cell, lockVars, trainVars, kept, acked,
                   deleted, suspect, loose, bounds>>

\* Mutant of WsDeleteSync: workspaces/ is not fsynced.
WsDeleteSyncSkipped(c) ==
    /\ At(c, "wdSync")
    /\ Goto(c, "wdEvict")
    /\ UNCHANGED <<phase, diskVars, cell, lockVars, trainVars, ghostVars,
                   bounds>>

\* fsync of workspaces/: what a power loss leaves is the directory of now.
WsDeleteSync(c) ==
    LET w == op[c].ws IN
    /\ At(c, "wdSync")
    /\ treeMay' = [treeMay EXCEPT ![w] = {tree[w]}]
    /\ tmp' = {e \in tmp : e.scope = "root" \/ e.ws # w}
    /\ tmpDurable' = {e \in tmpDurable : e.scope = "root" \/ e.ws # w}
    /\ Goto(c, "wdEvict")
    /\ UNCHANGED <<phase, tree, cell, lockVars, trainVars, ghostVars, bounds>>

\* caches.remove, metadata_locks.remove, the answer.
WsDeleteEvict(c) ==
    LET w == op[c].ws IN
    /\ At(c, "wdEvict")
    /\ cell' = [cell EXCEPT ![w] = None]
    /\ metaLock' = [metaLock EXCEPT ![w] = None]
    /\ deleted' = deleted \cup {w}
    /\ Goto(c, "wdDrain")
    /\ UNCHANGED <<phase, diskVars, regLock, trainVars, kept, acked,
                   doomed, raced, suspect, loose, bounds>>

WsDeleteDrain(c) ==
    /\ At(c, "wdDrain")
    /\ Drain(c, "root")
    /\ Finish(c)
    /\ UNCHANGED <<phase, tree, treeMay, cell, trainVars, ghostVars, bounds>>

----------------------------------------------------------------------------
\* summary on a workspace that is not cached: the read of workspace.json
\* and the insertion are two steps.

GetRead(c, w) ==
    /\ cell[w] = None /\ Exists(w)
    /\ Start(c, "getInsert", w, tree[w].core, minted)
    /\ UNCHANGED <<phase, diskVars, cell, lockVars, trainVars, ghostVars,
                   bounds>>

GetInsert(c) ==
    LET w == op[c].ws IN
    /\ At(c, "getInsert")
    /\ cell' = IF cell[w] = None THEN [cell EXCEPT ![w] = op[c].core] ELSE cell
    /\ Finish(c)
    /\ UNCHANGED <<phase, diskVars, trainVars, ghostVars, bounds>>

----------------------------------------------------------------------------
\* A training run, as far as heads and revisions go.  It holds no lease and
\* no job of the file manager's registry.

\* start_training captures the revision before the run starts.
TrainStart(w) ==
    /\ phase = "up" /\ train.pc = "idle" /\ trains < MaxTrains
    /\ CanLoad(w)
    /\ Load(w)
    /\ train' = [pc |-> "scan", ws |-> w, rev |-> CellOf(w).rev, data |-> 0,
                 core |-> None]
    /\ trains' = trains + 1
    /\ UNCHANGED <<phase, diskVars, lockVars, reqVars, heads, ghostVars,
                   bounds>>

\* TrainJobLog::open creates the log directory; then the dataset is read.
TrainScan ==
    LET w == train.ws IN
    /\ phase = "up" /\ train.pc = "scan"
    /\ Mkdir(w)
    /\ train' = IF Exists(w) /\ tree[w].data # 0
                THEN [train EXCEPT !.pc = "publish", !.data = tree[w].data]
                ELSE NoTrain
    /\ UNCHANGED <<phase, tmp, tmpDurable, cell, lockVars, reqVars, heads,
                   trains, ghostVars, bounds>>

\* publish_trained_head under the lock: the head and its index, whose steps
\* and errors are those of HeadRotation, then the read of workspace.json.
\* The publish holds no lease; when a delete comes after its existence check
\* it fails, and may have created heads/ anew.
TrainPublish ==
    LET w == train.ws IN
    /\ phase = "up" /\ train.pc = "publish" /\ metaLock[w] = None
    /\ IF Exists(w)
       THEN /\ heads' = [heads EXCEPT ![w] =
                           @ \cup {[rev |-> train.rev, data |-> train.data]}]
            /\ metaLock' = [metaLock EXCEPT ![w] = Trainer]
            /\ Load(w)
            /\ train' = [train EXCEPT !.pc = "core", !.core = tree[w].core]
            /\ UNCHANGED <<tree, treeMay>>
       ELSE /\ train' = NoTrain
            /\ UNCHANGED <<tree, treeMay>> \/ Mkdir(w)
            /\ UNCHANGED <<heads, metaLock, cell>>
    /\ UNCHANGED <<phase, tmp, tmpDurable, regLock, reqVars, trains,
                   ghostVars, bounds>>

\* workspace.json written back with the head count, if the directory is
\* still there or there again; then publish_core and the unlock.
TrainCore ==
    LET w == train.ws IN
    /\ phase = "up" /\ train.pc = "core"
    /\ IF tree[w] # None
       THEN PutCore(w, train.core)
            /\ cell' = IF cell[w] # None
                       THEN [cell EXCEPT ![w] = train.core] ELSE cell
       ELSE UNCHANGED <<tree, treeMay, cell>>
    /\ metaLock' = [metaLock EXCEPT ![w] = IF @ = Trainer THEN None ELSE @]
    /\ train' = NoTrain
    /\ UNCHANGED <<phase, tmp, tmpDurable, regLock, reqVars, heads, trains,
                   ghostVars, bounds>>

----------------------------------------------------------------------------
\* I/O errors, the storage reaper, power loss and boot.

FaultPcs ==
    CreatePcs \cup {"patchCore", "upTmp"}
    \cup (UploadLeased \ {"upCell"})
    \cup (TreeDeletePcs \ {"tdCell"}) \cup (WsDeletePcs \ {"wdEvict"})

\* What a failed staging step may leave behind.
FaultTmp(c) ==
    LET j == op[c].job
        e(part) == Entry(part, IF op[c].pc \in WsDeletePcs THEN "root" ELSE "tree",
                         op[c].ws, j)
    IN  CASE op[c].pc \in {"tdTomb", "wdTomb"} -> {tmp, tmp \cup {e("tombstone")}}
          [] op[c].pc \in {"tdStage", "wdStage"} -> {tmp, tmp \cup {e("stage")}}
          [] op[c].pc \in {"tdDrain", "wdDrain"} ->
               {tmp, tmp \ {e("stage")}, tmp \ EntriesOf(j)}
          [] OTHER -> {tmp}

\* The step about to run fails and the request returns its error; a failed
\* put_atomic may have renamed already.
Fault(c) ==
    LET w == op[c].ws IN
    /\ phase = "up" /\ op[c].pc \in FaultPcs /\ faults < MaxFaults
    /\ faults' = faults + 1
    /\ tmp' \in FaultTmp(c)
    /\ \/ UNCHANGED <<tree, treeMay>>
       \/ /\ op[c].pc \in {"core", "patchCore", "upCore", "tdCore"}
          /\ tree[w] # None /\ PutCoreNoFsync(w, op[c].core)
    /\ suspect' = IF op[c].pc \in {"upBytesSync", "tdSync"}
                  THEN suspect \cup {w} ELSE suspect
    /\ Finish(c)
    /\ UNCHANGED <<phase, tmpDurable, cell, trainVars, kept, acked,
                   deleted, doomed, raced, loose, crashes>>

\* sweep_dir_entries: entries older than tmp_age (24 h) are removed, files and
\* directories alike.  None is that old while a request works on it.
SweepEntry(e) ==
    /\ \A c \in Clients : op[c].job # e.job
    /\ tmp' = tmp \ {e}

\* Mutant of Reap: only the root staging directory is swept.
ReapRootOnly(e) ==
    /\ phase = "up" /\ e.scope = "root"
    /\ SweepEntry(e)
    /\ UNCHANGED <<phase, tree, treeMay, tmpDurable, cell, lockVars, reqVars,
                   trainVars, ghostVars, bounds>>

\* sweep_once: the root's staging directory and that of every workspace.
Reap(e) ==
    /\ phase = "up"
    /\ SweepEntry(e)
    /\ UNCHANGED <<phase, tree, treeMay, tmpDurable, cell, lockVars, reqVars,
                   trainVars, ghostVars, bounds>>

Crash ==
    /\ crashes < MaxCrashes
    /\ crashes' = crashes + 1
    /\ tree' \in {f \in [Workspaces -> UNION {treeMay[w] : w \in Workspaces}] :
                    \A w \in Workspaces : f[w] \in treeMay[w]}
    /\ treeMay' = [w \in Workspaces |-> {tree'[w]}]
    /\ \E lost \in SUBSET ((tmp \cup tmpDurable) \ (tmp \cap tmpDurable)) :
          tmp' = {e \in (tmp \cup tmpDurable) \ lost :
                    e.scope = "root" \/ tree'[e.ws] # None}
    /\ tmpDurable' = tmp'
    /\ phase' = "bootRoot"
    /\ cell' = [w \in Workspaces |-> None]
    /\ regLock' = None /\ metaLock' = [w \in Workspaces |-> None]
    /\ op' = [c \in Clients |-> Idle] /\ train' = NoTrain
    /\ loose' = {}
    /\ suspect' = suspect \cup {w \in loose : tree'[w] # tree[w]}
    /\ UNCHANGED <<ops, minted, heads, trains, kept, acked, deleted, doomed,
                   raced, faults>>

\* recover_root_staging, then recover_workspaces.  What fails is left for
\* the next boot.
Left(S) == \/ S = {} /\ UNCHANGED faults
           \/ S # {} /\ faults < MaxFaults /\ faults' = faults + 1

BootRoot(fails) ==
    /\ phase = "bootRoot" /\ Left(fails)
    /\ tmp' = {e \in tmp : e.scope = "tree"} \cup fails
    /\ tmpDurable' = tmp'
    /\ phase' = "bootDirs"
    /\ UNCHANGED <<tree, treeMay, cell, lockVars, reqVars, trainVars,
                   ghostVars, crashes>>

BootDirs(fails) ==
    /\ phase = "bootDirs" /\ Left(fails)
    /\ tree' = [w \in Workspaces |->
                  IF Exists(w) \/ w \in fails THEN tree[w] ELSE None]
    /\ treeMay' = [w \in Workspaces |-> {tree'[w]}]
    /\ tmp' = {e \in tmp : e.scope = "root" \/ e.ws \in fails}
    /\ tmpDurable' = tmp'
    /\ phase' = "up"
    /\ UNCHANGED <<cell, lockVars, reqVars, trainVars, ghostVars, crashes>>

----------------------------------------------------------------------------
\* The specification.

Begin(c) ==
    \E w \in Workspaces :
        \/ \E n \in Names : CreateCheck(c, w, n) \/ PatchCheck(c, w, n)
        \/ UploadAdmit(c, w) \/ TreeDeleteAdmit(c, w) \/ WsDeleteAdmit(c, w)
        \/ GetRead(c, w)

Continue(c) ==
    \/ CreateDir(c) \/ CreateCore(c) \/ CreateDirSync(c)
    \/ PatchCell(c) \/ PatchCore(c) 
    \/ UploadTmp(c) \/ UploadLease(c) \/ UploadCell(c) \/ UploadCore(c)
    \/ UploadBytes(c)
    \/ \E reach \in {"none", "folder", "above"} :
          UploadBytesSync(c, reach) \/ TreeDeleteSync(c, reach)
    \/ TreeDeleteCell(c) \/ TreeDeleteTomb(c) \/ TreeDeleteCore(c)
    \/ TreeDeleteStage(c) \/ TreeDeleteDrain(c)
    \/ WsDeleteTomb(c) \/ WsDeleteStage(c) \/ WsDeleteSync(c)
    \/ WsDeleteEvict(c) \/ WsDeleteDrain(c)
    \/ GetInsert(c)

Train == (\E w \in Workspaces : TrainStart(w)) \/ TrainScan \/ TrainPublish
         \/ TrainCore

Boot == \/ \E fails \in SUBSET {e \in tmp : e.scope = "root"} : BootRoot(fails)
        \/ \E fails \in SUBSET {w \in Workspaces : tree[w] # None} : BootDirs(fails)

\* Clients differ in nothing but the request they run, so a new request
\* takes the first one that is free.
FreeClient == CHOOSE c \in Clients : op[c] = Idle

Next ==
    \/ (\E c \in Clients : op[c] = Idle) /\ Begin(FreeClient)
    \/ \E c \in Clients : Continue(c) \/ Fault(c)
    \/ Train \/ Crash \/ Boot
    \/ \E e \in tmp : Reap(e)

\* Requests run to their end, the reaper ticks every hour, a boot goes on.
Progress == (\E c \in Clients : Continue(c)) \/ Boot \/ (\E e \in tmp : Reap(e))

Spec == Init /\ [][Next]_vars /\ WF_vars(Progress)

----------------------------------------------------------------------------
\* Properties.

\* Where a request is.
Pcs == {"idle", "upTmp", "upLease", "getInsert"} \cup CreatePcs \cup PatchPcs
       \cup UploadLeased \cup TreeDeletePcs \cup WsDeletePcs

Requests == [pc : Pcs, ws : Workspaces \cup {None}, core : Cores \cup {None},
             job : Nat]
Entries == [part : {"tombstone", "stage"}, scope : {"root", "tree"},
            ws : Workspaces, job : Nat]
Runs == [pc : {"idle", "scan", "publish", "core"},
         ws : Workspaces \cup {None}, rev : Nat, data : Nat,
         core : Cores \cup {None}]

\* The type of the state.
TypeOK ==
    /\ phase \in {"up", "bootRoot", "bootDirs"}
    /\ tree \in [Workspaces -> Dirs \cup {None}]
    /\ treeMay \in [Workspaces -> SUBSET (Dirs \cup {None})]
    /\ tmp \in SUBSET Entries /\ tmpDurable \in SUBSET Entries
    /\ cell \in [Workspaces -> Cores \cup {None}]
    /\ regLock \in Clients \cup {None}
    /\ metaLock \in [Workspaces -> Clients \cup {None, Trainer}]
    /\ op \in [Clients -> Requests] /\ ops \in 0..MaxOps
    /\ minted \in SUBSET Workspaces
    /\ heads \in [Workspaces -> SUBSET [rev : Nat, data : Nat]]
    /\ train \in Runs /\ trains \in 0..MaxTrains
    /\ kept \in SUBSET Workspaces /\ acked \in [Workspaces -> Nat]
    /\ deleted \in SUBSET Workspaces /\ doomed \in SUBSET Workspaces
    /\ raced \in SUBSET Workspaces /\ suspect \in SUBSET Workspaces
    /\ loose \in SUBSET Workspaces
    /\ faults \in 0..MaxFaults /\ crashes \in 0..MaxCrashes

\* Once a create is answered, no power loss takes the workspace away, and
\* once an upload or a dataset delete is answered, none brings the older
\* dataset back (create_with_tags, upload_workspace_file,
\* start_async_tree_delete), unless a delete has moved the workspace.  The
\* code gives this only for a change in a folder whose own entry is on disk:
\* an upload that had to create its folder fsyncs the folder and not the
\* directory above it, so its answer promises nothing and leaves acked alone.
AckedDurable ==
    \A w \in kept \ doomed : \A m \in treeMay[w] :
        m # None /\ m.core # None /\ m.data >= acked[w]

\* Once a workspace delete is answered, neither a later request nor a power
\* loss brings workspace.json back (start_delete_workspace), unless a PATCH
\* had passed its existence check, or a head publish had read workspace.json
\* to write it back, before the workspace was moved away.
DeletedStaysDeleted ==
    \A w \in deleted \ raced : \A m \in treeMay[w] \cup {tree[w]} :
        m = None \/ m.core = None

\* A head reported current was trained on the dataset on disk: the revision
\* moves before the bytes do, and a run records the revision it captured
\* before it read them (HeadStatus::from_revisions, upload_workspace_file,
\* start_async_tree_delete, start_training).  The code does not repair four
\* cases: a request that failed after its bytes moved, a create whose cache
\* entry replaced a newer one, a power loss that took an unsynced folder (all
\* in suspect), and a PATCH or a head publish that wrote workspace.json anew
\* after a delete (raced).
CurrentHeadMatchesData ==
    \A w \in Workspaces \ (suspect \cup raced) :
        phase = "up" /\ Exists(w) /\ metaLock[w] = None
          => \A h \in heads[w] :
               h.rev = CellOf(w).rev => h.data = tree[w].data

\* Whatever a failed or interrupted delete leaves in a staging directory is
\* gone in the end: its drain, the next boot or the reaper removes it.
LeftoversGo == []<>(tmp = {})
=============================================================================
