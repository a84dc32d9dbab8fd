----------------------------- MODULE ActiveHead -----------------------------
(***************************************************************************)
(* Activation of a head: POST and GET /active (modules/api/routes/         *)
(* active.rs), the generation writer (file_mgr/active_head_writer.rs), the *)
(* runtime install, and the boot-time choice of a head (recover_active_    *)
(* head, file_mgr/recovery.rs).                                            *)
(*                                                                         *)
(* Activations and the boot run one at a time (active_mutex), so they have *)
(* one program counter; GET runs beside them without the mutex.  Staging   *)
(* copies and verifies bytes in a private directory: here it either yields *)
(* an intact generation or fails.  The disk is as in HeadRotation: a       *)
(* change is visible at once and durable after an fsync; genMay and        *)
(* pointerMay hold what a power loss may leave.  An activation id is the   *)
(* number of the activation, which is also the order of activated_at.      *)
(***************************************************************************)
EXTENDS Naturals, FiniteSets

CONSTANTS
    Readers,          \* GET /active requests
    MaxActivations,   \* bound: activations started, boot's included
    MaxFaults,        \* bound: I/O errors
    MaxCrashes,       \* bound: power losses
    MaxRot            \* bound: generations damaged by bit rot

ASSUME ActiveAssumption ==
    /\ MaxActivations \in Nat /\ MaxFaults \in Nat
    /\ MaxCrashes \in Nat /\ MaxRot \in Nat

Ids == 1..MaxActivations
None == 0
Dir == {"absent", "intact", "damaged"}

VARIABLES
    pc,          \* step about to run; "idle" when the mutex is free
    booting,     \* the activation in progress is the boot's default
    cur,         \* its activation id
    prev,        \* previous_activation_id, for the prune's keep list
    started,     \* activations started
    pointer,     \* current.json, None when absent
    pointerMay,  \* what a power loss may leave of it
    gen,         \* [Ids -> Dir]: generations/<id>
    genMay,      \* [Ids -> SUBSET Dir]: what a power loss may leave
    runtime,     \* generation the HotHead serves, None for the placeholder
    got,         \* [Readers -> activation id read from current.json]
    since,       \* [Readers -> pointer writes since that read]
    outcome,     \* how the last activation, or the boot, ended
    rotted,      \* ghost: generations damaged by bit rot
    lately,      \* ghost: those damaged since the boot verified them
    faults, crashes

opVars == <<booting, cur, prev, started>>
readVars == <<got, since>>
rotVars == <<rotted, lately>>
bounds == <<faults, crashes>>
vars == <<pc, opVars, pointer, pointerMay, gen, genMay, runtime, readVars,
          outcome, rotVars, bounds>>

\* A first boot: nothing was ever activated.
Init ==
    /\ pc = "boot"
    /\ booting = FALSE /\ cur = None /\ prev = None /\ started = 0
    /\ pointer = None /\ pointerMay = {None}
    /\ gen = [g \in Ids |-> "absent"]
    /\ genMay = [g \in Ids |-> {"absent"}]
    /\ runtime = None
    /\ got = [r \in Readers |-> None] /\ since = [r \in Readers |-> 0]
    /\ outcome = "booted"
    /\ rotted = {} /\ lately = {}
    /\ faults = 0 /\ crashes = 0

----------------------------------------------------------------------------
\* POST /active, under active_mutex.

Start(atBoot) ==
    /\ started < MaxActivations
    /\ started' = started + 1
    /\ cur' = started + 1
    /\ booting' = atBoot
    /\ pc' = "rename"
    /\ UNCHANGED <<pointer, pointerMay, gen, genMay, runtime, readVars,
                   rotVars, bounds>>

\* Snapshot current.json, then stage.
PostActive ==
    /\ pc = "idle"
    /\ prev' = pointer
    /\ outcome' = "none"
    /\ Start(FALSE)

\* publish_active_generation: rename the staging directory ...
RenameGeneration ==
    /\ pc = "rename"
    /\ gen' = [gen EXCEPT ![cur] = "intact"]
    /\ genMay' = [genMay EXCEPT ![cur] = @ \cup {"intact"}]
    /\ pc' = "gensSync"
    /\ UNCHANGED <<opVars, pointer, pointerMay, runtime, readVars, outcome,
                   rotVars, bounds>>

\* fsync of generations/ settles which directories exist, not what was
\* unlinked inside a directory that is still there.
Settled == [g \in Ids |-> IF gen[g] = "damaged" THEN genMay[g] ELSE {gen[g]}]

\* Mutant of FsyncGenerations: the pointer is flipped without waiting.
FsyncGenerationsSkipped ==
    /\ pc = "gensSync"
    /\ pc' = "pointer"
    /\ UNCHANGED <<opVars, pointer, pointerMay, gen, genMay, runtime,
                   readVars, outcome, rotVars, bounds>>

\* ... fsync its parent ...
FsyncGenerations ==
    /\ pc = "gensSync"
    /\ genMay' = Settled
    /\ pc' = "pointer"
    /\ UNCHANGED <<opVars, pointer, pointerMay, gen, runtime, readVars,
                   outcome, rotVars, bounds>>

WritePointer(g) ==
    /\ pointer' = g
    /\ pointerMay' = pointerMay \cup {g}
    /\ since' = [r \in Readers |-> IF got[r] = None THEN 0 ELSE since[r] + 1]

\* ... put_atomic current.json, whose fsync of active/ is its last step ...
FlipPointer ==
    /\ pc = "pointer"
    /\ WritePointer(cur)
    /\ pc' = "pointerSync"
    /\ UNCHANGED <<opVars, gen, genMay, runtime, got, outcome, rotVars, bounds>>

FsyncPointer ==
    /\ pc = "pointerSync"
    /\ pointerMay' = {pointer}
    /\ pc' = "activeSync"
    /\ UNCHANGED <<opVars, pointer, gen, genMay, runtime, readVars, outcome,
                   rotVars, bounds>>

\* ... and fsync active/ once more.
FsyncActive ==
    /\ pc = "activeSync"
    /\ pointerMay' = {pointer}
    /\ pc' = IF booting THEN "resolve" ELSE "install"
    /\ UNCHANGED <<opVars, pointer, gen, genMay, runtime, readVars, outcome,
                   rotVars, bounds>>

\* install_prevalidated.
Install ==
    /\ pc = "install"
    /\ runtime' = cur
    /\ pc' = "prune"
    /\ UNCHANGED <<opVars, pointer, pointerMay, gen, genMay, readVars,
                   outcome, rotVars, bounds>>

\* Mutant of Keep: only the new generation is kept.
KeepNewest == {cur}

Keep == {cur, prev}

Prunable == {g \in Ids \ Keep : gen[g] # "absent"}

\* remove_dir_all empties a directory before it removes it.
PruneContents(g) ==
    /\ pc = "prune"
    /\ g \in Prunable /\ gen[g] = "intact"
    /\ gen' = [gen EXCEPT ![g] = "damaged"]
    /\ genMay' = [genMay EXCEPT ![g] = @ \cup {"damaged"}]
    /\ UNCHANGED <<pc, opVars, pointer, pointerMay, runtime, readVars,
                   outcome, rotVars, bounds>>

PruneDirectory(g) ==
    /\ pc = "prune"
    /\ g \in Prunable /\ gen[g] = "damaged"
    /\ gen' = [gen EXCEPT ![g] = "absent"]
    /\ genMay' = [genMay EXCEPT ![g] = @ \cup {"absent"}]
    /\ UNCHANGED <<pc, opVars, pointer, pointerMay, runtime, readVars,
                   outcome, rotVars, bounds>>

\* The closing fsync of generations/ and the answer to the client.
PruneDone ==
    /\ pc = "prune"
    /\ Prunable = {}
    /\ genMay' = Settled
    /\ pc' = "idle"
    /\ outcome' = "ok"
    /\ UNCHANGED <<opVars, pointer, pointerMay, gen, runtime, readVars,
                   rotVars, bounds>>

----------------------------------------------------------------------------
\* Faults.

\* An error before the install ends the activation; at boot it leaves the
\* daemon without a head ("Unhealthy").
Fail ==
    /\ faults < MaxFaults
    /\ pc \in {"rename", "gensSync", "pointer", "pointerSync", "activeSync"}
    /\ pc' = "idle"
    /\ outcome' = "err"
    /\ faults' = faults + 1
    /\ UNCHANGED <<opVars, pointer, pointerMay, gen, genMay, runtime,
                   readVars, rotVars, crashes>>

\* A prune that fails is logged; the activation has succeeded.
PruneFails ==
    /\ faults < MaxFaults
    /\ pc = "prune"
    /\ pc' = "idle"
    /\ outcome' = "ok"
    /\ faults' = faults + 1
    /\ UNCHANGED <<opVars, pointer, pointerMay, gen, genMay, runtime,
                   readVars, rotVars, crashes>>

\* Bit rot: head.mpk of a generation no longer matches its manifest.
Rot(g) ==
    /\ Cardinality(rotted) < MaxRot
    /\ gen[g] = "intact"
    /\ gen' = [gen EXCEPT ![g] = "damaged"]
    /\ genMay' = [genMay EXCEPT ![g] = (@ \ {"intact"}) \cup {"damaged"}]
    /\ rotted' = rotted \cup {g}
    /\ lately' = IF pc = "boot" THEN lately ELSE lately \cup {g}
    /\ UNCHANGED <<pc, opVars, pointer, pointerMay, runtime, readVars,
                   outcome, bounds>>

\* Power loss.
Crash ==
    /\ crashes < MaxCrashes
    /\ crashes' = crashes + 1
    /\ pc' = "boot"
    /\ outcome' = "booted"
    /\ gen' \in {f \in [Ids -> Dir] : \A g \in Ids : f[g] \in genMay[g]}
    /\ genMay' = [g \in Ids |-> {gen'[g]}]
    /\ pointer' \in pointerMay /\ pointerMay' = {pointer'}
    /\ runtime' = None /\ lately' = {}
    /\ got' = [r \in Readers |-> None] /\ since' = [r \in Readers |-> 0]
    /\ booting' = FALSE /\ cur' = None /\ prev' = None
    /\ UNCHANGED <<started, rotted, faults>>

----------------------------------------------------------------------------
\* Boot: recover_active_head.

Intact(g) == g # None /\ gen[g] = "intact"

\* promote_or_default considers every generation but the current one.
Candidates == {g \in Ids \ {pointer} : gen[g] = "intact"}

\* Mutant of BootPromote: the pointer is left at the damaged generation.
BootPromoteInMemory(g) ==
    /\ pc = "boot"
    /\ pointer # None /\ ~Intact(pointer)
    /\ g \in Candidates /\ \A h \in Candidates : h <= g
    /\ pc' = "resolve"
    /\ UNCHANGED <<opVars, pointer, pointerMay, gen, genMay, runtime, readVars,
                   outcome, rotVars, bounds>>

BootCurrent ==
    /\ pc = "boot"
    /\ Intact(pointer)
    /\ pc' = "resolve"
    /\ UNCHANGED <<opVars, pointer, pointerMay, gen, genMay, runtime, readVars,
                   outcome, rotVars, bounds>>

\* The newest candidate becomes current; an absent pointer goes straight to
\* the default.
BootPromote(g) ==
    /\ pc = "boot"
    /\ pointer # None /\ ~Intact(pointer)
    /\ g \in Candidates /\ \A h \in Candidates : h <= g
    /\ WritePointer(g)
    /\ pc' = "promoteSync"
    /\ UNCHANGED <<opVars, gen, genMay, runtime, got, outcome, rotVars, bounds>>

FsyncPromoted ==
    /\ pc = "promoteSync"
    /\ pointerMay' = {pointer}
    /\ pc' = "resolve"
    /\ UNCHANGED <<opVars, pointer, gen, genMay, runtime, readVars, outcome,
                   rotVars, bounds>>

NothingToPromote == pointer = None \/ (~Intact(pointer) /\ Candidates = {})

BootDefault ==
    /\ pc = "boot"
    /\ NothingToPromote
    /\ Start(TRUE)
    /\ UNCHANGED <<prev, outcome>>

\* The launch config names no default, or staging it failed: "Unhealthy".
BootWithoutHead ==
    /\ pc = "boot"
    /\ NothingToPromote
    /\ pc' = "idle"
    /\ outcome' = "unhealthy"
    /\ UNCHANGED <<opVars, pointer, pointerMay, gen, genMay, runtime,
                   readVars, rotVars, bounds>>

\* resolve_active_head_paths verifies once more what recovery left, since
\* the disk may have changed meanwhile, and takes another generation when the
\* current one fails: the one whose directory was changed last, which need
\* not be the youngest (regenerated labels touch it too).
Resolved ==
    IF pointer = None THEN {}
    ELSE IF Intact(pointer) THEN {pointer} ELSE Candidates

\* boot_inference loads the resolved head; the pointer is left as it is.
BootResolve(g) ==
    /\ pc = "resolve"
    /\ g \in Resolved
    /\ runtime' = g
    /\ pc' = "idle"
    /\ UNCHANGED <<opVars, pointer, pointerMay, gen, genMay, readVars,
                   outcome, rotVars, bounds>>

\* Nothing verifies any more: no inference.
BootUnresolved ==
    /\ pc = "resolve"
    /\ Resolved = {}
    /\ pc' = "idle"
    /\ outcome' = "unhealthy"
    /\ UNCHANGED <<opVars, pointer, pointerMay, gen, genMay, runtime,
                   readVars, rotVars, bounds>>

\* recover_all, or loading what it left, returns an error: the daemon runs
\* without inference.
BootFault ==
    /\ faults < MaxFaults
    /\ pc \in {"boot", "promoteSync", "resolve"}
    /\ pc' = "idle"
    /\ outcome' = "err"
    /\ faults' = faults + 1
    /\ UNCHANGED <<opVars, pointer, pointerMay, gen, genMay, runtime,
                   readVars, rotVars, crashes>>

----------------------------------------------------------------------------
\* GET /active: read the pointer, then the manifest it names.  The server
\* listens once the boot is over.

ReadPointer(r) ==
    /\ pc \notin {"boot", "promoteSync", "resolve"} /\ ~(booting /\ pc # "idle")
    /\ got[r] = None /\ pointer # None
    /\ got' = [got EXCEPT ![r] = pointer]
    /\ since' = [since EXCEPT ![r] = 0]
    /\ UNCHANGED <<pc, opVars, pointer, pointerMay, gen, genMay, runtime,
                   outcome, rotVars, bounds>>

\* The manifest was read, or was missing and the request fails.
ReadManifest(r) ==
    /\ got[r] # None
    /\ got' = [got EXCEPT ![r] = None]
    /\ UNCHANGED <<pc, opVars, pointer, pointerMay, gen, genMay, runtime,
                   since, outcome, rotVars, bounds>>

----------------------------------------------------------------------------

Publish ==
    \/ RenameGeneration \/ FsyncGenerations \/ FlipPointer \/ FsyncPointer
    \/ FsyncActive \/ Install

Prune ==
    \/ \E g \in Ids : PruneContents(g) \/ PruneDirectory(g)
    \/ PruneDone

Boot ==
    \/ BootCurrent
    \/ \E g \in Ids : BootPromote(g)
    \/ FsyncPromoted
    \/ BootDefault
    \/ BootWithoutHead
    \/ \E g \in Ids : BootResolve(g)
    \/ BootUnresolved
    \/ BootFault

Next ==
    \/ PostActive
    \/ Publish
    \/ Prune
    \/ Fail
    \/ PruneFails
    \/ \E g \in Ids : Rot(g)
    \/ Crash
    \/ Boot
    \/ \E r \in Readers : ReadPointer(r) \/ ReadManifest(r)

Spec == Init /\ [][Next]_vars

----------------------------------------------------------------------------
\* Properties.

Steps ==
    {"idle", "rename", "gensSync", "pointer", "pointerSync", "activeSync",
     "install", "prune", "boot", "promoteSync", "resolve"}

\* Every variable stays in its type, and what is visible may survive.
TypeOK ==
    /\ pc \in Steps
    /\ booting \in BOOLEAN
    /\ cur \in 0..started /\ prev \in 0..started
    /\ started \in 0..MaxActivations
    /\ pointer \in pointerMay /\ pointerMay \subseteq 0..started
    /\ gen \in [Ids -> Dir]
    /\ genMay \in [Ids -> SUBSET Dir]
    /\ \A g \in Ids : gen[g] \in genMay[g]
    /\ runtime \in 0..started
    /\ got \in [Readers -> 0..started]
    /\ since \in [Readers -> Nat]
    /\ outcome \in {"none", "ok", "err", "booted", "unhealthy"}
    /\ lately \subseteq rotted /\ rotted \subseteq Ids
    /\ faults \in 0..MaxFaults /\ crashes \in 0..MaxCrashes

\* current.json is "only published AFTER the pointed generation is fsynced"
\* (docs/LAYOUT.md) and the prune spares it: whatever pointer a power loss
\* leaves, the generation it names is whole, bit rot aside.
PointerNeverDangles ==
    \A p \in pointerMay \ ({None} \cup rotted) : genMay[p] = {"intact"}

\* The prune keeps the previous generation, so a GET that read the pointer
\* still finds the manifest if at most one activation overtakes it.
GetSurvivesOneActivation ==
    \A r \in Readers :
        got[r] \notin {None} \cup rotted /\ since[r] <= 1
            => gen[got[r]] = "intact"

\* The engine serves the generation that current.json durably names: once an
\* activation was answered Ok, and after every boot without I/O errors,
\* whatever was damaged and wherever the power was lost; only one that rots
\* between the two verifications of the boot is served from another.  The
\* engine has none only when no generation was left and the default is
\* missing too.
ServesWhatIsNamed ==
    pc = "idle" =>
        /\ outcome = "ok" => pointerMay = {pointer} /\ runtime = pointer
        /\ outcome = "booted" =>
              runtime # None /\ (pointerMay = {runtime} \/ pointer \in lately)
        /\ outcome = "unhealthy" =>
              \A g \in Ids : pointer # None => gen[g] # "intact"

============================================================================
