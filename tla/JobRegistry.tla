---------------------------- MODULE JobRegistry ----------------------------
(***************************************************************************)
(* modules/file_mgr/job_registry.rs: admission of jobs and of bare leases, *)
(* the bounded in-memory history, the per-job event ring and the broadcast *)
(* channel; and the SSE handler of modules/api/routes/jobs.rs that reads   *)
(* them.  Every registry method is one critical section of one mutex, so   *)
(* one action; what spans two sections (JobHandle::fail, the handler's     *)
(* existence gate followed by the subscription) is two actions.            *)
(*                                                                         *)
(* A job id is the job's admission number, so "newest first" in `order` is *)
(* descending id.  Progress values, log text, counters and timestamps are  *)
(* left out; a throttled progress update changes nothing that is kept.     *)
(***************************************************************************)
EXTENDS Naturals, Sequences, FiniteSets

CONSTANTS
    Workspaces,     \* workspaces that requests name
    MaxTrain,       \* cfg.max_train_jobs
    MaxConvert,     \* cfg.max_convert_jobs
    MaxDelete,      \* cfg.max_delete_jobs
    MaxRecent,      \* cfg.max_recent_jobs
    MaxRing,        \* cfg.max_job_event_ring
    BroadcastCap,   \* BROADCAST_CAPACITY
    Clients,        \* SSE connections
    MaxJobs,        \* bound: jobs admitted in a behaviour
    MaxLeases,      \* bound: leases held at once in a workspace
    MaxEvents       \* bound: non-terminal events of a job

ASSUME CapsAssumption ==
    /\ MaxTrain \in Nat /\ MaxConvert \in Nat /\ MaxDelete \in Nat
    /\ MaxRecent \in Nat
    /\ MaxTrain + MaxConvert + MaxDelete <= MaxRecent

ASSUME BoundsAssumption ==
    /\ MaxRing \in Nat \ {0}
    /\ BroadcastCap \in Nat \ {0}
    /\ MaxJobs \in Nat /\ MaxLeases \in Nat /\ MaxEvents \in Nat

JobIds == 1..MaxJobs

\* The four asset-scoped delete types share every rule of the registry.
JobTypes == {"Train", "Convert", "AssetDelete", "WorkspaceDelete"}
IsDeleteSubtype(t) == t \in {"AssetDelete", "WorkspaceDelete"}
\* JobState.  No rule of the registry tells Succeeded, Failed and Cancelled
\* apart, so they are one state.
JobStates == {"none", "Running", "Terminal"}

VARIABLES
    admitted,   \* number of jobs admitted so far
    retained,   \* ids with an entry
    jobType,    \* [JobIds -> JobTypes], of admitted jobs
    refs,       \* [JobIds -> SUBSET Workspaces], cleared at termination
    state,      \* [JobIds -> JobStates]
    handle,     \* [JobIds -> "none", "held", "failing", "gone"]
    lastSeq,    \* [JobIds -> seq of the newest event]
    ring,       \* [JobIds -> events kept for replay, oldest first]
    leases,     \* [Workspaces -> number of live LeaseGuards]
    stream      \* [Clients -> SSE connection]

jobVars == <<admitted, retained, jobType, refs, state, handle, lastSeq, ring>>
vars == <<admitted, retained, jobType, refs, state, handle, lastSeq, ring,
          leases, stream>>

NoStream ==
    [pc |-> "off", job |-> 0, after |-> 0, known |-> FALSE, replay |-> <<>>,
     live |-> <<>>, lagged |-> FALSE, terminalSeen |-> FALSE, got |-> <<>>]

Init ==
    /\ admitted = 0
    /\ retained = {}
    /\ jobType = [j \in JobIds |-> "Train"]
    /\ refs = [j \in JobIds |-> {}]
    /\ state = [j \in JobIds |-> "none"]
    /\ handle = [j \in JobIds |-> "none"]
    /\ lastSeq = [j \in JobIds |-> 0]
    /\ ring = [j \in JobIds |-> <<>>]
    /\ leases = [w \in Workspaces |-> 0]
    /\ stream = [c \in Clients |-> NoStream]

----------------------------------------------------------------------------
\* Admission.

Active(j) == j \in retained /\ state[j] = "Running"
ActiveJobs == {j \in JobIds : Active(j)}

SlotCap(t) ==
    IF t = "Train" THEN MaxTrain
    ELSE IF t = "Convert" THEN MaxConvert ELSE MaxDelete

SameSlot(t, u) == t = u \/ (IsDeleteSubtype(t) /\ IsDeleteSubtype(u))

SlotJobs(t) == {j \in ActiveJobs : SameSlot(t, jobType[j])}

SlotFree(t) == Cardinality(SlotJobs(t)) < SlotCap(t)

\* job_conflicts_with_existing_job
JobConflict(t, w, j) ==
    w \in refs[j] /\ (t = "WorkspaceDelete" \/ jobType[j] = "WorkspaceDelete")

\* job_conflicts_with_existing_lease
LeaseBlocks(t, w) == t = "WorkspaceDelete" /\ leases[w] > 0

\* Mutant of LeaseConflict: a lease is granted while the delete runs.
LeaseConflictNever(w, j) == FALSE

\* lease_conflicts_with_existing_job
LeaseConflict(w, j) == jobType[j] = "WorkspaceDelete" /\ w \in refs[j]

\* prune_recent: while more than MaxRecent entries are kept, drop the oldest
\* terminal one.
Prune(entries, running) ==
    LET terminal == entries \ running
        Older(j) == {k \in terminal : k < j}
    IN  running \cup
        {j \in terminal :
            Cardinality(entries) <= MaxRecent + Cardinality(Older(j))}

TryAcquire(t, w) ==
    /\ admitted < MaxJobs
    /\ SlotFree(t)
    /\ \A j \in ActiveJobs : ~JobConflict(t, w, j)
    /\ ~LeaseBlocks(t, w)
    /\ LET id == admitted + 1 IN
       /\ admitted' = id
       /\ jobType' = [jobType EXCEPT ![id] = t]
       /\ refs' = [refs EXCEPT ![id] = {w}]
       /\ state' = [state EXCEPT ![id] = "Running"]
       /\ handle' = [handle EXCEPT ![id] = "held"]
       /\ retained' = Prune(retained \cup {id}, ActiveJobs \cup {id})
    /\ UNCHANGED <<lastSeq, ring, leases, stream>>

TryAcquireLease(w) ==
    /\ leases[w] < MaxLeases
    /\ \A j \in ActiveJobs : ~LeaseConflict(w, j)
    /\ leases' = [leases EXCEPT ![w] = @ + 1]
    /\ UNCHANGED <<jobVars, stream>>

\* LeaseGuard::drop
ReleaseLease(w) ==
    /\ leases[w] > 0
    /\ leases' = [leases EXCEPT ![w] = @ - 1]
    /\ UNCHANGED <<jobVars, stream>>

----------------------------------------------------------------------------
\* Events and termination.

\* push_event: a full ring evicts its oldest event.
PushEvent(events, e) ==
    IF Len(events) >= MaxRing THEN Append(Tail(events), e) ELSE Append(events, e)

\* To a receiver an event of another job is a message it will skip.
OtherJob == [job |-> 0, seq |-> 0, terminal |-> FALSE]

\* broadcast::Sender::send to one receiver: a full receiver loses its oldest
\* message and learns so at its next recv.
Enqueue(s, e) ==
    LET message == IF e.job = s.job THEN e ELSE OtherJob IN
    IF s.pc # "open" THEN s
    ELSE IF Len(s.live) < BroadcastCap
         THEN [s EXCEPT !.live = Append(@, message)]
         ELSE [s EXCEPT !.live = Append(Tail(@), message), !.lagged = TRUE]

Broadcast(e) == stream' = [c \in Clients |-> Enqueue(stream[c], e)]

\* The shared tail of update_progress, append_log and terminate: next seq,
\* ring, broadcast.
Emit(j, terminal) ==
    LET e == [job |-> j, seq |-> lastSeq[j] + 1, terminal |-> terminal] IN
    /\ lastSeq' = [lastSeq EXCEPT ![j] = @ + 1]
    /\ ring' = [ring EXCEPT ![j] = PushEvent(@, e)]
    /\ Broadcast(e)

\* JobHandle::update_progress (not throttled) and JobHandle::append_log.
Report(j) ==
    /\ handle[j] = "held"
    /\ j \in retained
    /\ lastSeq[j] < MaxEvents
    /\ Emit(j, FALSE)
    /\ UNCHANGED <<admitted, retained, jobType, refs, state, handle, leases>>

\* First half of JobHandle::fail: the reason is logged.
FailLog(j) ==
    /\ handle[j] = "held"
    /\ j \in retained
    /\ handle' = [handle EXCEPT ![j] = "failing"]
    /\ Emit(j, FALSE)
    /\ UNCHANGED <<admitted, retained, jobType, refs, state, leases>>

\* terminate, called with the handle being consumed or dropped.
Terminate(j) ==
    /\ Active(j)
    /\ state' = [state EXCEPT ![j] = "Terminal"]
    /\ refs' = [refs EXCEPT ![j] = {}]
    /\ handle' = [handle EXCEPT ![j] = "gone"]
    /\ Emit(j, TRUE)
    /\ retained' = Prune(retained, ActiveJobs \ {j})
    /\ UNCHANGED <<admitted, jobType, leases>>

\* JobHandle::succeed, JobHandle::cancel, the second half of
\* JobHandle::fail, or a handle dropped by an early return or an unwinding
\* worker.
Finish(j) ==
    /\ handle[j] \in {"held", "failing"}
    /\ Terminate(j)

----------------------------------------------------------------------------
\* The SSE handler.

\* job_events: 404 unless snapshot() finds the entry.
Gate(c, j, after) ==
    /\ stream[c].pc = "off"
    /\ stream' = [stream EXCEPT ![c] =
         IF j \in retained
         THEN [NoStream EXCEPT !.pc = "gated", !.job = j, !.after = after]
         ELSE [NoStream EXCEPT !.pc = "missing"]]
    /\ UNCHANGED <<jobVars, leases>>

Oldest(j) == IF ring[j] = <<>> THEN 0 ELSE Head(ring[j]).seq

\* Mutant of Gap: the comparison forgets that `after` itself was delivered.
GapOffByOne(j, after) ==
    after > 0 /\ (after + 2 < Oldest(j) \/ after > lastSeq[j])

\* The two shapes of EventGap.
Gap(j, after) ==
    after > 0 /\ (after + 1 < Oldest(j) \/ after > lastSeq[j])

\* The events of a ring whose seq is beyond a cursor.  The seqs of a ring are
\* consecutive, so the filter of subscribe_events keeps a suffix.
ReplayAfter(events, after) ==
    IF events = <<>> \/ after < Head(events).seq THEN events
    ELSE SubSeq(events, after - Head(events).seq + 2, Len(events))

\* Mutant of SubscribedTo: a terminated job is not noticed at subscription.
SubscribedToBlind(s) ==
    IF s.job \notin retained
    THEN [s EXCEPT !.pc = "open"]
    ELSE IF Gap(s.job, s.after) THEN [NoStream EXCEPT !.pc = "gap"]
    ELSE [s EXCEPT !.pc = "open", !.known = TRUE,
                   !.replay = ReplayAfter(ring[s.job], s.after)]

\* subscribe_events: an entry pruned since the gate yields an empty live
\* subscription that believes the job is running.
SubscribedTo(s) ==
    IF s.job \notin retained
    THEN [s EXCEPT !.pc = "open"]
    ELSE IF Gap(s.job, s.after) THEN [NoStream EXCEPT !.pc = "gap"]
    ELSE [s EXCEPT !.pc = "open", !.known = TRUE,
                   !.replay = ReplayAfter(ring[s.job], s.after),
                   !.terminalSeen = state[s.job] # "Running"]

Subscribe(c) ==
    /\ stream[c].pc = "gated"
    /\ stream' = [stream EXCEPT ![c] = SubscribedTo(@)]
    /\ UNCHANGED <<jobVars, leases>>

\* One poll of the unfold: replay first, then close if the terminal event is
\* known, then the live channel.
StreamReplay(c) ==
    /\ stream[c].pc = "open"
    /\ stream[c].replay # <<>>
    /\ stream' = [stream EXCEPT
         ![c].got = Append(@, Head(stream[c].replay).seq),
         ![c].replay = Tail(@),
         ![c].terminalSeen = @ \/ Head(stream[c].replay).terminal]
    /\ UNCHANGED <<jobVars, leases>>

\* Mutant of StreamClose: the terminal flag is looked at before the replay.
StreamCloseEarly(c) ==
    /\ stream[c].pc = "open"
    /\ stream[c].terminalSeen
    /\ stream' = [stream EXCEPT ![c].pc = "closed", ![c].live = <<>>]
    /\ UNCHANGED <<jobVars, leases>>

StreamClose(c) ==
    /\ stream[c].pc = "open"
    /\ stream[c].replay = <<>>
    /\ stream[c].terminalSeen
    /\ stream' = [stream EXCEPT ![c].pc = "closed", ![c].live = <<>>]
    /\ UNCHANGED <<jobVars, leases>>

\* EventStream::recv: other jobs' events are skipped, a lag ends the stream.
StreamRecv(c) ==
    LET s == stream[c] IN
    /\ s.pc = "open" /\ s.replay = <<>> /\ ~s.terminalSeen
    /\ s.lagged \/ s.live # <<>>
    /\ stream' = [stream EXCEPT ![c] =
         IF s.lagged THEN [s EXCEPT !.pc = "lagged", !.live = <<>>]
         ELSE IF Head(s.live).job # s.job THEN [s EXCEPT !.live = Tail(@)]
         ELSE [s EXCEPT !.live = Tail(@),
                        !.got = Append(@, Head(s.live).seq),
                        !.terminalSeen = Head(s.live).terminal]]
    /\ UNCHANGED <<jobVars, leases>>

\* The client goes away and the connection state is dropped.
Disconnect(c) ==
    /\ stream[c].pc \in {"gated", "open"}
    /\ stream' = [stream EXCEPT ![c] = [NoStream EXCEPT !.pc = "gone"]]
    /\ UNCHANGED <<jobVars, leases>>

----------------------------------------------------------------------------

JobNext(j) ==
    \/ Report(j)
    \/ FailLog(j)
    \/ Finish(j)

StreamStep(c) ==
    \/ Subscribe(c)
    \/ StreamReplay(c)
    \/ StreamClose(c)
    \/ StreamRecv(c)

\* Requests stop at the bounds and every stream ends: a behaviour may stop.
Next ==
    \/ \E w \in Workspaces :
          \/ \E t \in JobTypes : TryAcquire(t, w)
          \/ TryAcquireLease(w)
          \/ ReleaseLease(w)
    \/ \E j \in JobIds : JobNext(j)
    \/ \E c \in Clients :
          \/ \E j \in JobIds, after \in 0..(MaxEvents + 3) : Gate(c, j, after)
          \/ StreamStep(c)
          \/ Disconnect(c)

Spec == Init /\ [][Next]_vars

\* The runtime keeps polling the handler of a client that keeps reading.
Fairness == \A c \in Clients : WF_vars(StreamStep(c))

FairSpec == Spec /\ Fairness

----------------------------------------------------------------------------
\* Properties.

EventType == [job : JobIds, seq : Nat, terminal : BOOLEAN]

\* Every variable stays in its type, and only admitted jobs have entries.
TypeOK ==
    /\ admitted \in 0..MaxJobs
    /\ retained \subseteq 1..admitted
    /\ jobType \in [JobIds -> JobTypes]
    /\ refs \in [JobIds -> SUBSET Workspaces]
    /\ state \in [JobIds -> JobStates]
    /\ handle \in [JobIds -> {"none", "held", "failing", "gone"}]
    /\ lastSeq \in [JobIds -> Nat]
    /\ ring \in [JobIds -> Seq(EventType)]
    /\ \A j \in JobIds : Len(ring[j]) <= MaxRing
    /\ leases \in [Workspaces -> Nat]
    /\ DOMAIN stream = Clients

\* An active WorkspaceDelete is alone in its workspace: no other active job
\* and no lease refers to it, whichever of the two was admitted first.
WorkspaceDeleteExclusive ==
    \A j \in ActiveJobs : jobType[j] = "WorkspaceDelete" =>
        \A w \in refs[j] :
            /\ leases[w] = 0
            /\ \A k \in ActiveJobs : k # j => w \notin refs[k]

\* The per-type caps hold over the active jobs; the delete types share one.
SlotCaps == \A t \in JobTypes : Cardinality(SlotJobs(t)) <= SlotCap(t)

\* A job whose worker still holds its handle has an entry and is running.
LiveJobsRetained ==
    \A j \in JobIds : handle[j] \in {"held", "failing"} => Active(j)

\* A stream resumed after a cursor delivers the following seqs with neither a
\* hole nor a repetition, across the seam between replay and live events.
StreamContiguous ==
    \A c \in Clients :
        LET s == stream[c] IN
        /\ \A i \in 1..(Len(s.got) - 1) : s.got[i + 1] = s.got[i] + 1
        /\ s.after > 0 /\ s.known /\ s.got # <<>> => s.got[1] = s.after + 1

\* A stream that closes by itself has told its client everything: the job is
\* over and its last event, the terminal one, was delivered now or before the
\* cursor.
CleanCloseIsComplete ==
    \A c \in Clients :
        LET s == stream[c] IN
        s.pc = "closed" =>
            /\ state[s.job] = "Terminal"
            /\ IF s.got = <<>> THEN s.after = lastSeq[s.job]
               ELSE s.got[Len(s.got)] = lastSeq[s.job]

Ended(c) == stream[c].pc \notin {"gated", "open"}

\* A stream that found its job's entry ends once the job has ended.
KnownStreamsEnd ==
    \A c \in Clients :
        (stream[c].pc = "open" /\ stream[c].known
            /\ state[stream[c].job] = "Terminal") ~> Ended(c)

============================================================================
