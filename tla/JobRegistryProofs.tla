------------------------- MODULE JobRegistryProofs -------------------------
(***************************************************************************)
(* Proofs about JobRegistry for every set of workspaces and clients, every *)
(* cap and every bound.                                                    *)
(***************************************************************************)
EXTENDS JobRegistry, Integers, FiniteSetTheorems, SequenceTheorems, TLAPS

\* prune_recent keeps every running entry and invents none.
LEMMA PruneFacts ==
  ASSUME NEW entries, NEW running, running \subseteq entries
  PROVE  /\ running \subseteq Prune(entries, running)
         /\ Prune(entries, running) \subseteq entries
  BY DEF Prune

\* push_event keeps the ring an event sequence no longer than max_job_event_ring.
LEMMA PushEventFacts ==
  ASSUME NEW events \in Seq(EventType), Len(events) <= MaxRing,
         NEW e \in EventType
  PROVE  /\ PushEvent(events, e) \in Seq(EventType)
         /\ Len(PushEvent(events, e)) <= MaxRing
  <1>1. CASE Len(events) >= MaxRing
    <2>1. Len(events) >= 1 /\ events # <<>>
      BY <1>1, BoundsAssumption
    <2>2. Tail(events) \in Seq(EventType) /\ Len(Tail(events)) = Len(events) - 1
      BY <2>1
    <2>3. /\ Append(Tail(events), e) \in Seq(EventType)
          /\ Len(Append(Tail(events), e)) = Len(events)
      BY <2>1, <2>2
    <2> QED
      BY <1>1, <2>3 DEF PushEvent
  <1>2. CASE ~(Len(events) >= MaxRing)
    <2>1. /\ Append(events, e) \in Seq(EventType)
          /\ Len(Append(events, e)) = Len(events) + 1
      OBVIOUS
    <2> QED
      BY <1>2, <2>1, BoundsAssumption DEF PushEvent
  <1> QED
    BY <1>1, <1>2

\* Emit changes the ring, the seq and the streams of the job it is for, and
\* keeps their types.
LEMMA EmitFacts ==
  ASSUME TypeOK, NEW j \in JobIds, NEW b \in BOOLEAN, Emit(j, b)
  PROVE  /\ lastSeq' \in [JobIds -> Nat]
         /\ ring' \in [JobIds -> Seq(EventType)]
         /\ \A k \in JobIds : Len(ring'[k]) <= MaxRing
         /\ DOMAIN stream' = Clients
  <1> DEFINE e == [job |-> j, seq |-> lastSeq[j] + 1, terminal |-> b]
  <1>1. e \in EventType
    BY DEF EventType, TypeOK
  <1>2. lastSeq' \in [JobIds -> Nat]
    BY DEF Emit, TypeOK
  <1>3. DOMAIN stream' = Clients
    BY DEF Emit, Broadcast
  <1>4. ring' = [ring EXCEPT ![j] = PushEvent(ring[j], e)]
    BY DEF Emit
  <1>5. /\ PushEvent(ring[j], e) \in Seq(EventType)
        /\ Len(PushEvent(ring[j], e)) <= MaxRing
    BY <1>1, PushEventFacts, SMTT(30) DEF TypeOK
  <1> HIDE DEF e
  <1> QED
    BY <1>2, <1>3, <1>4, <1>5 DEF TypeOK

----------------------------------------------------------------------------
\* The inductive invariant: the types; no entry survives for an id not yet
\* admitted (part of TypeOK), so an admission never overwrites a job; what
\* holds a handle is running; and the two admission rules.
Inv ==
    /\ TypeOK
    /\ LiveJobsRetained
    /\ WorkspaceDeleteExclusive
    /\ SlotCaps

\* Streams, subscriptions and disconnects touch nothing but the streams.
StreamOnly ==
    \E c \in Clients :
        \/ \E j \in JobIds, after \in 0..(MaxEvents + 3) : Gate(c, j, after)
        \/ StreamStep(c)
        \/ Disconnect(c)

\* A step of the SSE handler leaves the registry alone.
LEMMA StreamFrame ==
  StreamOnly => UNCHANGED jobVars /\ UNCHANGED leases /\ DOMAIN stream' = DOMAIN stream
  BY DEF StreamOnly, Gate, StreamStep, Subscribe, StreamReplay, StreamClose,
         StreamRecv, Disconnect

\* An admission adds at most its own id to the active jobs; the pruning it
\* ends with takes none out.
LEMMA AcquireActive ==
  ASSUME TypeOK, NEW t \in JobTypes, NEW w \in Workspaces, TryAcquire(t, w)
  PROVE  /\ admitted + 1 \in JobIds
         /\ admitted + 1 \notin retained
         /\ retained' \subseteq 1..(admitted + 1)
         /\ ActiveJobs' = ActiveJobs \cup {admitted + 1}
  <1> DEFINE id == admitted + 1
  <1>1. id \in JobIds /\ id \notin retained /\ id \in 1..id
    BY BoundsAssumption DEF TypeOK, TryAcquire, JobIds
  <1>2. ActiveJobs \cup {id} \subseteq retained \cup {id}
    BY DEF ActiveJobs, Active
  <1>3. /\ ActiveJobs \cup {id} \subseteq retained'
        /\ retained' \subseteq retained \cup {id}
    BY <1>2, PruneFacts DEF TryAcquire
  <1>4. retained' \subseteq 1..id
    BY <1>1, <1>3 DEF TypeOK
  <1>5. \A j \in JobIds : state'[j] = IF j = id THEN "Running" ELSE state[j]
    BY <1>1 DEF TryAcquire, TypeOK
  <1>6. ActiveJobs' = ActiveJobs \cup {id}
    BY <1>1, <1>3, <1>5 DEF ActiveJobs, Active
  <1> QED
    BY <1>1, <1>4, <1>6

\* terminate takes its job, and no other, out of the active jobs.
LEMMA TerminateActive ==
  ASSUME TypeOK, NEW j \in JobIds, Terminate(j)
  PROVE  /\ retained' \subseteq retained
         /\ ActiveJobs' = ActiveJobs \ {j}
  <1>1. ActiveJobs \ {j} \subseteq retained
    BY DEF ActiveJobs, Active
  <1>2. ActiveJobs \ {j} \subseteq retained' /\ retained' \subseteq retained
    BY <1>1, PruneFacts DEF Terminate
  <1>3. /\ state'[j] # "Running"
        /\ \A k \in JobIds : k # j => state'[k] = state[k]
    BY DEF Terminate, TypeOK, JobStates
  <1> QED
    BY <1>2, <1>3 DEF ActiveJobs, Active

\* The empty registry satisfies the invariant.
LEMMA InitInv == Init => Inv
  <1> SUFFICES ASSUME Init
               PROVE  Inv
    OBVIOUS
  <1>1. TypeOK
    BY BoundsAssumption DEF Init, TypeOK, JobTypes, JobIds, JobStates
  <1>2. ActiveJobs = {}
    BY DEF Init, ActiveJobs, Active
  <1>3. LiveJobsRetained /\ WorkspaceDeleteExclusive
    BY <1>2 DEF Init, LiveJobsRetained, WorkspaceDeleteExclusive
  <1>4. SlotCaps
    <2> SUFFICES ASSUME NEW t \in JobTypes
                 PROVE  Cardinality(SlotJobs(t)) <= SlotCap(t)
      BY DEF SlotCaps
    <2>1. SlotJobs(t) = {}
      BY <1>2 DEF SlotJobs
    <2> QED
      BY <2>1, FS_EmptySet, CapsAssumption DEF SlotCap
  <1> QED
    BY <1>1, <1>3, <1>4 DEF Inv

\* Every step keeps the types.
LEMMA TypeStep == TypeOK /\ [Next]_vars => TypeOK'
  <1> SUFFICES ASSUME TypeOK, [Next]_vars
               PROVE  TypeOK'
    OBVIOUS
  <1>1. ASSUME NEW t \in JobTypes, NEW w \in Workspaces, TryAcquire(t, w)
        PROVE  TypeOK'
    <2>1. /\ admitted + 1 \in JobIds
          /\ retained' \subseteq 1..(admitted + 1)
          /\ admitted' = admitted + 1
      BY <1>1, AcquireActive DEF TryAcquire
    <2>2. /\ jobType' \in [JobIds -> JobTypes]
          /\ refs' \in [JobIds -> SUBSET Workspaces]
          /\ state' \in [JobIds -> JobStates]
          /\ handle' \in [JobIds -> {"none", "held", "failing", "gone"}]
      BY <1>1, <2>1 DEF TryAcquire, TypeOK, JobStates
    <2>3. admitted' \in 0..MaxJobs /\ retained' \subseteq 1..admitted'
      BY <2>1, BoundsAssumption DEF JobIds
    <2>4. UNCHANGED <<lastSeq, ring, leases, stream>>
      BY <1>1 DEF TryAcquire
    <2> QED
      BY <2>2, <2>3, <2>4 DEF TypeOK
  <1>2. ASSUME NEW w \in Workspaces, TryAcquireLease(w) \/ ReleaseLease(w)
        PROVE  TypeOK'
    <2>1. leases' \in [Workspaces -> Nat]
      <3>1. leases[w] \in Nat
        BY DEF TypeOK
      <3>2. leases[w] + 1 \in Nat /\ (leases[w] > 0 => leases[w] - 1 \in Nat)
        BY <3>1
      <3> QED
        BY <1>2, <3>2 DEF TryAcquireLease, ReleaseLease, TypeOK
    <2>2. UNCHANGED <<jobVars, stream>>
      BY <1>2 DEF TryAcquireLease, ReleaseLease
    <2> QED
      BY <2>1, <2>2 DEF TypeOK, jobVars
  <1>3. ASSUME NEW j \in JobIds, Report(j) \/ FailLog(j)
        PROVE  TypeOK'
    <2>1. Emit(j, FALSE) /\ UNCHANGED <<admitted, retained, jobType, refs, state, leases>>
      BY <1>3 DEF Report, FailLog
    <2>2. handle' \in [JobIds -> {"none", "held", "failing", "gone"}]
      BY <1>3 DEF Report, FailLog, TypeOK
    <2>3. /\ lastSeq' \in [JobIds -> Nat]
          /\ ring' \in [JobIds -> Seq(EventType)]
          /\ \A k \in JobIds : Len(ring'[k]) <= MaxRing
          /\ DOMAIN stream' = Clients
      BY <2>1, EmitFacts
    <2> QED
      BY <2>1, <2>2, <2>3 DEF TypeOK
  <1>4. ASSUME NEW j \in JobIds, Terminate(j)
        PROVE  TypeOK'
    <2>1. Emit(j, TRUE) /\ UNCHANGED <<admitted, jobType, leases>>
      BY <1>4 DEF Terminate
    <2>2. retained' \subseteq retained
      BY <1>4, TerminateActive
    <2>3. /\ refs' \in [JobIds -> SUBSET Workspaces]
          /\ state' \in [JobIds -> JobStates]
          /\ handle' \in [JobIds -> {"none", "held", "failing", "gone"}]
      BY <1>4 DEF Terminate, TypeOK, JobStates
    <2>4. /\ lastSeq' \in [JobIds -> Nat]
          /\ ring' \in [JobIds -> Seq(EventType)]
          /\ \A k \in JobIds : Len(ring'[k]) <= MaxRing
          /\ DOMAIN stream' = Clients
      BY <2>1, EmitFacts
    <2> QED
      BY <2>1, <2>2, <2>3, <2>4 DEF TypeOK
  <1>5. CASE StreamOnly
    BY <1>5, StreamFrame DEF TypeOK, jobVars
  <1>6. CASE UNCHANGED vars
    BY <1>6 DEF vars, TypeOK
  <1> QED
    BY <1>1, <1>2, <1>3, <1>4, <1>5, <1>6
       DEF Next, JobNext, Finish, StreamOnly

\* Pruning and termination leave no handle without a running entry.
LEMMA LiveStep == Inv /\ [Next]_vars => LiveJobsRetained'
  <1> SUFFICES ASSUME Inv, [Next]_vars, NEW k \in JobIds,
                      handle'[k] \in {"held", "failing"}
               PROVE  k \in ActiveJobs'
    BY DEF LiveJobsRetained, ActiveJobs
  <1>0. TypeOK /\ (handle[k] \in {"held", "failing"} => k \in ActiveJobs)
    BY DEF Inv, LiveJobsRetained, ActiveJobs
  <1>1. ASSUME NEW t \in JobTypes, NEW w \in Workspaces, TryAcquire(t, w)
        PROVE  k \in ActiveJobs'
    <2>1. ActiveJobs' = ActiveJobs \cup {admitted + 1}
      BY <1>0, <1>1, AcquireActive
    <2>2. k = admitted + 1 \/ handle'[k] = handle[k]
      BY <1>0, <1>1 DEF TryAcquire, TypeOK
    <2> QED
      BY <1>0, <2>1, <2>2
  <1>2. ASSUME NEW j \in JobIds, Terminate(j)
        PROVE  k \in ActiveJobs'
    <2>1. ActiveJobs' = ActiveJobs \ {j}
      BY <1>0, <1>2, TerminateActive
    <2>2. k # j /\ handle'[k] = handle[k]
      BY <1>0, <1>2 DEF Terminate, TypeOK
    <2> QED
      BY <1>0, <2>1, <2>2
  <1>3. ASSUME UNCHANGED <<retained, state>>,
               handle[k] \in {"held", "failing"}
        PROVE  k \in ActiveJobs'
    BY <1>0, <1>3 DEF ActiveJobs, Active
  <1>4. ASSUME NEW j \in JobIds, Report(j) \/ FailLog(j)
        PROVE  k \in ActiveJobs'
    <2>1. UNCHANGED <<retained, state>>
      BY <1>4 DEF Report, FailLog
    <2>2. handle[k] \in {"held", "failing"}
      BY <1>0, <1>4 DEF Report, FailLog, TypeOK
    <2> QED
      BY <1>3, <2>1, <2>2
  <1>5. ASSUME NEW w \in Workspaces, TryAcquireLease(w) \/ ReleaseLease(w)
        PROVE  k \in ActiveJobs'
    BY <1>3, <1>5 DEF TryAcquireLease, ReleaseLease, jobVars
  <1>6. CASE StreamOnly
    BY <1>3, <1>6, StreamFrame DEF jobVars
  <1>7. CASE UNCHANGED vars
    BY <1>3, <1>7 DEF vars
  <1> QED
    BY <1>1, <1>2, <1>4, <1>5, <1>6, <1>7
       DEF Next, JobNext, Finish, StreamOnly

\* Both orders of arrival are refused: a delete after a job or lease, and a
\* job or lease after a delete.
LEMMA ExclusiveStep == Inv /\ [Next]_vars => WorkspaceDeleteExclusive'
  <1> SUFFICES ASSUME Inv, [Next]_vars, NEW j \in ActiveJobs',
                      jobType'[j] = "WorkspaceDelete", NEW w \in refs'[j]
               PROVE  /\ leases'[w] = 0
                      /\ \A k \in ActiveJobs' : k # j => w \notin refs'[k]
    BY DEF WorkspaceDeleteExclusive
  <1> DEFINE Goal == /\ leases'[w] = 0
                     /\ \A k \in ActiveJobs' : k # j => w \notin refs'[k]
  <1>0. TypeOK /\ WorkspaceDeleteExclusive /\ j \in JobIds
    BY DEF Inv, ActiveJobs
  <1>1. ASSUME NEW t \in JobTypes, NEW v \in Workspaces, TryAcquire(t, v)
        PROVE  Goal
    <2> DEFINE id == admitted + 1
    <2>1. /\ ActiveJobs' = ActiveJobs \cup {id}
          /\ id \in JobIds /\ id \notin ActiveJobs
      BY <1>0, <1>1, AcquireActive DEF ActiveJobs, Active
    <2>2. /\ leases' = leases
          /\ refs'[id] = {v} /\ jobType'[id] = t
          /\ \A k \in ActiveJobs : refs'[k] = refs[k] /\ jobType'[k] = jobType[k]
      BY <1>0, <1>1, <2>1 DEF TryAcquire, TypeOK, ActiveJobs
    <2>3. \A k \in ActiveJobs : ~JobConflict(t, v, k)
      BY <1>1 DEF TryAcquire
    <2>4. CASE j = id
      <3>1. w = v /\ t = "WorkspaceDelete"
        BY <2>2, <2>4
      <3>2. leases[w] = 0
        BY <1>0, <1>1, <3>1 DEF TryAcquire, LeaseBlocks, TypeOK
      <3> QED
        BY <2>1, <2>2, <2>3, <2>4, <3>1, <3>2 DEF JobConflict
    <2>5. CASE j # id
      <3>1. j \in ActiveJobs /\ w \in refs[j] /\ jobType[j] = "WorkspaceDelete"
        BY <2>1, <2>2, <2>5
      <3>2. w # v
        BY <2>3, <3>1 DEF JobConflict
      <3> QED
        BY <1>0, <2>1, <2>2, <3>1, <3>2 DEF WorkspaceDeleteExclusive
    <2> QED
      BY <2>4, <2>5
  <1>2. ASSUME NEW i \in JobIds, Terminate(i)
        PROVE  Goal
    <2>1. ActiveJobs' = ActiveJobs \ {i}
      BY <1>0, <1>2, TerminateActive
    <2>2. /\ leases' = leases /\ jobType' = jobType
          /\ \A k \in JobIds : k # i => refs'[k] = refs[k]
      BY <1>0, <1>2 DEF Terminate, TypeOK
    <2> QED
      BY <1>0, <2>1, <2>2 DEF WorkspaceDeleteExclusive, ActiveJobs
  <1>3. ASSUME UNCHANGED <<retained, state, jobType, refs>>,
               leases[w] = 0 => leases'[w] = 0
        PROVE  Goal
    <2>1. ActiveJobs' = ActiveJobs
      BY <1>3 DEF ActiveJobs, Active
    <2> QED
      BY <1>0, <1>3, <2>1 DEF WorkspaceDeleteExclusive
  <1>4. ASSUME NEW v \in Workspaces, TryAcquireLease(v)
        PROVE  Goal
    <2>1. UNCHANGED <<retained, state, jobType, refs>> /\ ActiveJobs' = ActiveJobs
      BY <1>4 DEF TryAcquireLease, jobVars, ActiveJobs, Active
    <2>2. v # w
      BY <1>4, <2>1 DEF TryAcquireLease, LeaseConflict
    <2>3. leases[w] = 0 => leases'[w] = 0
      BY <1>0, <1>4, <2>2 DEF TryAcquireLease, TypeOK
    <2> QED
      BY <1>3, <2>1, <2>3
  <1>5. ASSUME NEW v \in Workspaces, ReleaseLease(v)
        PROVE  Goal
    <2>1. UNCHANGED <<retained, state, jobType, refs>>
      BY <1>5 DEF ReleaseLease, jobVars
    <2>2. leases[w] = 0 => v # w
      BY <1>5 DEF ReleaseLease
    <2>3. leases[w] = 0 => leases'[w] = 0
      BY <1>0, <1>5, <2>2 DEF ReleaseLease, TypeOK
    <2> QED
      BY <1>3, <2>1, <2>3
  <1>6. ASSUME NEW i \in JobIds, Report(i) \/ FailLog(i)
        PROVE  Goal
    BY <1>3, <1>6 DEF Report, FailLog
  <1>7. CASE StreamOnly
    BY <1>3, <1>7, StreamFrame DEF jobVars
  <1>8. CASE UNCHANGED vars
    BY <1>3, <1>8 DEF vars
  <1> QED
    BY <1>1, <1>2, <1>4, <1>5, <1>6, <1>7, <1>8
       DEF Next, JobNext, Finish, StreamOnly

\* Job sets are finite, and a smaller slot population stays within its cap.
LEMMA SlotFinite ==
  ASSUME NEW t
  PROVE  IsFiniteSet(SlotJobs(t)) /\ Cardinality(SlotJobs(t)) \in Nat
  <1>1. IsFiniteSet(JobIds)
    BY FS_Interval, BoundsAssumption DEF JobIds
  <1>2. SlotJobs(t) \subseteq JobIds
    BY DEF SlotJobs, ActiveJobs
  <1> QED
    BY <1>1, <1>2, FS_Subset, FS_CardinalityType

\* An admission is the only step that adds to a slot, and it checks the cap.
LEMMA SlotStep == Inv /\ [Next]_vars => SlotCaps'
  <1> SUFFICES ASSUME Inv, [Next]_vars, NEW u \in JobTypes
               PROVE  Cardinality(SlotJobs(u)') <= SlotCap(u)
    BY DEF SlotCaps, SlotCap
  <1>0. TypeOK /\ Cardinality(SlotJobs(u)) <= SlotCap(u) /\ SlotCap(u) \in Nat
    BY CapsAssumption DEF Inv, SlotCaps, SlotCap
  <1>1. ASSUME SlotJobs(u)' \subseteq SlotJobs(u)
        PROVE  Cardinality(SlotJobs(u)') <= SlotCap(u)
    <2>1. /\ Cardinality(SlotJobs(u)') <= Cardinality(SlotJobs(u))
          /\ Cardinality(SlotJobs(u)') \in Nat
      BY <1>1, SlotFinite, FS_Subset, FS_CardinalityType
    <2> QED
      BY <1>0, <2>1, SlotFinite
  <1>2. ASSUME NEW t \in JobTypes, NEW w \in Workspaces, TryAcquire(t, w)
        PROVE  Cardinality(SlotJobs(u)') <= SlotCap(u)
    <2> DEFINE id == admitted + 1
    <2>1. ActiveJobs' = ActiveJobs \cup {id} /\ id \in JobIds /\ id \notin ActiveJobs
      BY <1>0, <1>2, AcquireActive DEF ActiveJobs, Active
    <2>2. /\ jobType'[id] = t
          /\ \A k \in ActiveJobs : jobType'[k] = jobType[k]
      BY <1>0, <1>2, <2>1 DEF TryAcquire, TypeOK, ActiveJobs
    <2>3. CASE SameSlot(u, t)
      <3>1. SlotJobs(u)' = SlotJobs(u) \cup {id} /\ id \notin SlotJobs(u)
        BY <2>1, <2>2, <2>3 DEF SlotJobs
      <3>2. Cardinality(SlotJobs(u)') = Cardinality(SlotJobs(u)) + 1
        BY <3>1, SlotFinite, FS_AddElement
      <3>3. SlotJobs(u) = SlotJobs(t) /\ SlotCap(u) = SlotCap(t)
        BY <2>3 DEF SlotJobs, SlotCap, SameSlot, IsDeleteSubtype, JobTypes
      <3>4. Cardinality(SlotJobs(u)) < SlotCap(u)
        BY <1>2, <3>3 DEF TryAcquire, SlotFree
      <3> QED
        BY <1>0, <3>2, <3>4, SlotFinite
    <2>4. CASE ~SameSlot(u, t)
      <3>1. SlotJobs(u)' \subseteq SlotJobs(u)
        BY <2>1, <2>2, <2>4 DEF SlotJobs
      <3> QED
        BY <1>1, <3>1
    <2> QED
      BY <2>3, <2>4
  <1>3. ASSUME NEW j \in JobIds, Terminate(j)
        PROVE  Cardinality(SlotJobs(u)') <= SlotCap(u)
    <2>1. ActiveJobs' \subseteq ActiveJobs /\ jobType' = jobType
      BY <1>0, <1>3, TerminateActive DEF Terminate
    <2>2. SlotJobs(u)' \subseteq SlotJobs(u)
      BY <2>1 DEF SlotJobs
    <2> QED
      BY <1>1, <2>2
  <1>4. ASSUME UNCHANGED <<retained, state, jobType>>
        PROVE  Cardinality(SlotJobs(u)') <= SlotCap(u)
    <2>1. SlotJobs(u)' \subseteq SlotJobs(u)
      BY <1>4 DEF SlotJobs, ActiveJobs, Active
    <2> QED
      BY <1>1, <2>1
  <1>5. ASSUME NEW w \in Workspaces, TryAcquireLease(w) \/ ReleaseLease(w)
        PROVE  UNCHANGED <<retained, state, jobType>>
    BY <1>5 DEF TryAcquireLease, ReleaseLease, jobVars
  <1>6. ASSUME NEW j \in JobIds, Report(j) \/ FailLog(j)
        PROVE  UNCHANGED <<retained, state, jobType>>
    BY <1>6 DEF Report, FailLog
  <1>7. ASSUME StreamOnly \/ UNCHANGED vars
        PROVE  UNCHANGED <<retained, state, jobType>>
    BY <1>7, StreamFrame DEF jobVars, vars
  <1> QED
    BY <1>2, <1>3, <1>4, <1>5, <1>6, <1>7
       DEF Next, JobNext, Finish, StreamOnly

\* The inductive invariant holds in every state of every behaviour.
THEOREM Invariance == Spec => []Inv
  <1>1. Inv /\ [Next]_vars => Inv'
    BY TypeStep, LiveStep, ExclusiveStep, SlotStep DEF Inv
  <1> QED
    BY InitInv, <1>1, PTL DEF Spec

\* Type correctness of the registry.
THEOREM TypeCorrect == Spec => []TypeOK
  <1>1. Inv => TypeOK
    BY DEF Inv
  <1> QED
    BY Invariance, <1>1, PTL

\* WorkspaceDelete is exclusive for any number of workspaces, jobs and
\* leases: the conflict rules of try_acquire and try_acquire_lease suffice.
THEOREM DeleteExclusive == Spec => []WorkspaceDeleteExclusive
  <1>1. Inv => WorkspaceDeleteExclusive
    BY DEF Inv
  <1> QED
    BY Invariance, <1>1, PTL

\* The concurrency caps of try_acquire hold for every cap.
THEOREM CapsHold == Spec => []SlotCaps
  <1>1. Inv => SlotCaps
    BY DEF Inv
  <1> QED
    BY Invariance, <1>1, PTL

\* prune_recent never evicts a job whose handle is alive, so the early
\* returns of terminate and append_log for a missing entry are not taken.
THEOREM LiveJobsKept == Spec => []LiveJobsRetained
  <1>1. Inv => LiveJobsRetained
    BY DEF Inv
  <1> QED
    BY Invariance, <1>1, PTL

----------------------------------------------------------------------------
\* The invariant of the event streams.

\* The ring of a job ends with its newest event, its seqs are consecutive,
\* and only the last event of a job that is over is terminal.
RingOk(j) ==
    /\ j > admitted => state[j] = "none" /\ lastSeq[j] = 0
    /\ j <= admitted => state[j] # "none"
    /\ state[j] = "Terminal" => lastSeq[j] > 0
    /\ Len(ring[j]) <= lastSeq[j]
    /\ lastSeq[j] > 0 => Len(ring[j]) > 0
    /\ \A i \in 1..Len(ring[j]) :
          /\ ring[j][i].job = j
          /\ ring[j][i].seq = lastSeq[j] - Len(ring[j]) + i
          /\ ring[j][i].terminal <=> state[j] = "Terminal" /\ i = Len(ring[j])

StreamPcs == {"off", "missing", "gated", "gap", "open", "closed", "lagged", "gone"}
Messages == [job : Nat, seq : Nat, terminal : BOOLEAN]

StreamType ==
    [pc : StreamPcs, job : Nat, after : Nat, known : BOOLEAN,
     replay : Seq(EventType), live : Seq(Messages), lagged : BOOLEAN,
     terminalSeen : BOOLEAN, got : Seq(Nat)]

\* An event that j emitted.
Genuine(e, j) ==
    /\ e.seq <= lastSeq[j]
    /\ e.terminal => state[j] = "Terminal" /\ e.seq = lastSeq[j]

\* The seq after which the live events of a stream begin.
Upto(s) ==
    IF s.replay # <<>> THEN s.replay[Len(s.replay)].seq
    ELSE IF s.got # <<>> THEN s.got[Len(s.got)] ELSE s.after

\* What waits in a receiver that has not lagged is every event beyond that
\* seq, in order, among events of other jobs.
LiveOk(s) ==
    /\ \A i \in 1..Len(s.live) : s.live[i].job = s.job =>
          Upto(s) < s.live[i].seq /\ Genuine(s.live[i], s.job)
    /\ \A i, k \in 1..Len(s.live) :
          i < k /\ s.live[i].job = s.job /\ s.live[k].job = s.job =>
              s.live[i].seq < s.live[k].seq
    /\ \A n \in 1..lastSeq[s.job] : Upto(s) < n =>
          \E i \in 1..Len(s.live) : s.live[i].job = s.job /\ s.live[i].seq = n

\* A stream that found its job's entry.
KnownOk(s) ==
    /\ \A i \in 1..Len(s.replay) :
          /\ s.replay[i].seq = Upto(s) - Len(s.replay) + i
          /\ Genuine(s.replay[i], s.job)
    /\ s.replay # <<>> /\ s.got # <<>> =>
          s.replay[1].seq = s.got[Len(s.got)] + 1
    /\ s.replay # <<>> /\ s.got = <<>> /\ s.after > 0 =>
          s.replay[1].seq = s.after + 1
    /\ Upto(s) <= lastSeq[s.job]
    /\ s.terminalSeen => state[s.job] = "Terminal" /\ Upto(s) = lastSeq[s.job]
    /\ ~s.lagged => LiveOk(s)

\* A stream whose entry was pruned between the gate and the subscription.
UnknownOk(s) ==
    /\ s.job \notin retained
    /\ s.got = <<>> /\ s.replay = <<>> /\ ~s.terminalSeen
    /\ \A i \in 1..Len(s.live) : s.live[i].job # s.job

Contiguous(s) ==
    /\ \A i \in 1..(Len(s.got) - 1) : s.got[i + 1] = s.got[i] + 1
    /\ s.after > 0 /\ s.known /\ s.got # <<>> => s.got[1] = s.after + 1

Complete(s) ==
    /\ state[s.job] = "Terminal"
    /\ IF s.got = <<>> THEN s.after = lastSeq[s.job]
       ELSE s.got[Len(s.got)] = lastSeq[s.job]

StreamOk(s) ==
    /\ s \in StreamType
    /\ s.pc \in {"gated", "open", "closed"} => s.job \in 1..admitted
    /\ s.pc = "gated" =>
          /\ s.got = <<>> /\ s.replay = <<>> /\ s.live = <<>>
          /\ ~s.known /\ ~s.lagged /\ ~s.terminalSeen
    /\ s.pc = "open" /\ s.known => KnownOk(s)
    /\ s.pc = "open" /\ ~s.known => UnknownOk(s)
    /\ s.pc = "closed" => Complete(s)
    /\ Contiguous(s)

SInv ==
    /\ \A j \in JobIds : RingOk(j)
    /\ \A c \in Clients : StreamOk(stream[c])

\* Appending, by positions.
LEMMA AppendFacts ==
  ASSUME NEW S, NEW q \in Seq(S), NEW m \in S
  PROVE  /\ Append(q, m) \in Seq(S)
         /\ Len(Append(q, m)) = Len(q) + 1
         /\ \A i \in 1..Len(q) : Append(q, m)[i] = q[i]
         /\ Append(q, m)[Len(q) + 1] = m
         /\ Append(q, m) # <<>>
  OBVIOUS

\* The tail, by positions.
LEMMA TailFacts ==
  ASSUME NEW S, NEW q \in Seq(S), q # <<>>
  PROVE  /\ Tail(q) \in Seq(S)
         /\ Len(q) \in Nat \ {0} /\ Len(Tail(q)) = Len(q) - 1
         /\ \A i \in 1..(Len(q) - 1) : Tail(q)[i] = q[i + 1]
         /\ Head(q) = q[1] /\ q[1] \in S
         /\ Tail(q) = <<>> <=> Len(q) = 1
  <1>1. Len(q) \in Nat \ {0} /\ Head(q) = q[1] /\ q[1] \in S
    BY EmptySeq, ElementOfSeq
  <1>2. /\ Tail(q) \in Seq(S) /\ Len(Tail(q)) = Len(q) - 1
        /\ \A i \in 1..Len(Tail(q)) : Tail(q)[i] = q[i + 1]
    BY HeadTailProperties
  <1>3. Tail(q) = <<>> <=> Len(Tail(q)) = 0
    BY <1>2, EmptySeq
  <1> QED
    BY <1>1, <1>2, <1>3

\* A running job emits: its ring keeps consecutive seqs that end with the new
\* event, and only a terminal event ends it.
LEMMA RingStep ==
  ASSUME TypeOK, NEW j \in JobIds, NEW b \in BOOLEAN, Emit(j, b), RingOk(j),
         j <= admitted, admitted' = admitted, state[j] = "Running",
         state'[j] = IF b THEN "Terminal" ELSE "Running"
  PROVE  RingOk(j)'
  <1> DEFINE e == [job |-> j, seq |-> lastSeq[j] + 1, terminal |-> b]
             q == ring[j]
  <1>1. /\ lastSeq[j] \in Nat /\ q \in Seq(EventType) /\ Len(q) <= MaxRing
        /\ e \in EventType /\ e.job = j /\ e.seq = lastSeq[j] + 1
        /\ e.terminal = b /\ Len(q) \in Nat /\ MaxRing \in Nat \ {0}
        /\ admitted \in Nat
    <2>1. /\ lastSeq[j] \in Nat /\ q \in Seq(EventType) /\ Len(q) <= MaxRing
          /\ MaxRing \in Nat \ {0} /\ admitted \in Nat
      BY BoundsAssumption DEF TypeOK
    <2>2. Len(q) \in Nat
      BY <2>1, LenProperties
    <2>3. /\ e \in EventType /\ e.job = j /\ e.seq = lastSeq[j] + 1
          /\ e.terminal = b
      BY <2>1 DEF EventType
    <2> QED
      BY <2>1, <2>2, <2>3
  <1>2. lastSeq'[j] = lastSeq[j] + 1 /\ ring'[j] = PushEvent(q, e)
    BY DEF Emit, TypeOK
  <1>3. /\ Len(q) <= lastSeq[j]
        /\ \A i \in 1..Len(q) : /\ q[i].job = j
                                /\ q[i].seq = lastSeq[j] - Len(q) + i
                                /\ ~q[i].terminal
    BY DEF RingOk
  <1> HIDE DEF e, q
  <1>4. PICK n \in 0..Len(q) :
          /\ ring'[j] \in Seq(EventType) /\ Len(ring'[j]) = n + 1
          /\ \A i \in 1..n : ring'[j][i] = q[Len(q) - n + i]
          /\ ring'[j][n + 1] = e
    <2>1. CASE Len(q) >= MaxRing
      <3>1. q # <<>>
        BY <1>1, <2>1
      <3> DEFINE u == Tail(q)
      <3>2. /\ u \in Seq(EventType) /\ Len(u) = Len(q) - 1
            /\ \A i \in 1..(Len(q) - 1) : u[i] = q[i + 1]
        BY <1>1, <3>1, TailFacts
      <3>3. ring'[j] = Append(u, e)
        BY <1>2, <2>1 DEF PushEvent
      <3> HIDE DEF u
      <3>4. Len(q) - 1 \in 0..Len(q)
        BY <1>1, <2>1
      <3>5. /\ ring'[j] \in Seq(EventType) /\ Len(ring'[j]) = Len(q) - 1 + 1
            /\ \A i \in 1..(Len(q) - 1) : ring'[j][i] = u[i]
            /\ ring'[j][Len(q) - 1 + 1] = e
        BY <1>1, <3>2, <3>3, AppendFacts
      <3>6. \A i \in 1..(Len(q) - 1) : ring'[j][i] = q[Len(q) - (Len(q) - 1) + i]
        <4> TAKE i \in 1..(Len(q) - 1)
        <4>1. Len(q) - (Len(q) - 1) + i = i + 1
          BY <1>1
        <4> QED
          BY <3>2, <3>5, <4>1
      <3> QED
        BY <3>4, <3>5, <3>6
    <2>2. CASE ~(Len(q) >= MaxRing)
      <3>1. ring'[j] = Append(q, e) /\ Len(q) \in 0..Len(q)
        BY <1>1, <1>2, <2>2 DEF PushEvent
      <3>2. /\ ring'[j] \in Seq(EventType) /\ Len(ring'[j]) = Len(q) + 1
            /\ \A i \in 1..Len(q) : ring'[j][i] = q[i]
            /\ ring'[j][Len(q) + 1] = e
        BY <1>1, <3>1, AppendFacts
      <3>3. \A i \in 1..Len(q) : Len(q) - Len(q) + i = i
        BY <1>1
      <3> QED
        BY <3>1, <3>2, <3>3
    <2> QED
      BY <2>1, <2>2
  <1>5. \A i \in 1..(n + 1) :
          /\ ring'[j][i].job = j
          /\ ring'[j][i].seq = lastSeq'[j] - (n + 1) + i
          /\ ring'[j][i].terminal <=> b /\ i = n + 1
    <2> TAKE i \in 1..(n + 1)
    <2>1. CASE i = n + 1
      BY <1>1, <1>2, <1>4, <2>1
    <2>2. CASE i # n + 1
      <3>1. i \in 1..n /\ Len(q) - n + i \in 1..Len(q)
        BY <1>1, <2>2
      <3>2. ring'[j][i] = q[Len(q) - n + i]
        BY <1>4, <3>1
      <3>3. /\ ring'[j][i].job = j /\ ~ring'[j][i].terminal
            /\ ring'[j][i].seq = lastSeq[j] - Len(q) + (Len(q) - n + i)
        BY <1>3, <3>1, <3>2, Zenon
      <3>4. lastSeq[j] - Len(q) + (Len(q) - n + i) = (lastSeq[j] + 1) - (n + 1) + i
        <4>1. lastSeq[j] \in Int /\ Len(q) \in Int /\ n \in Int /\ i \in Int
          BY <1>1
        <4>2. \A a, m, x, y \in Int :
                a - m + (m - x + y) = (a + 1) - (x + 1) + y
          OBVIOUS
        <4> QED
          BY <4>1, <4>2, SMTT(30)
      <3>5. ring'[j][i].seq = lastSeq'[j] - (n + 1) + i
        <4>1. lastSeq'[j] = lastSeq[j] + 1
          BY <1>2
        <4>2. ring'[j][i].seq = (lastSeq[j] + 1) - (n + 1) + i
          BY <3>3, <3>4, Zenon
        <4> QED
          BY <4>1, <4>2
      <3> QED
        BY <2>2, <3>3, <3>5, Zenon
    <2> QED
      BY <2>1, <2>2
  <1>6. /\ state'[j] = "Terminal" <=> b
        /\ state'[j] # "none"
        /\ lastSeq'[j] > 0 /\ Len(ring'[j]) > 0 /\ Len(ring'[j]) <= lastSeq'[j]
        /\ ~(j > admitted)
    BY <1>1, <1>2, <1>3, <1>4 DEF JobIds
  <1> QED
    BY <1>4, <1>5, <1>6 DEF RingOk

\* A stream that a step does not touch stays as it was, if the step leaves the
\* admitted jobs alone and retains none of them anew.
LEMMA StreamQuiet ==
  ASSUME NEW c \in Clients, StreamOk(stream[c]), stream'[c] = stream[c],
         admitted \in Nat, admitted' \in Nat, admitted <= admitted',
         \A k \in 1..admitted : /\ state'[k] = state[k]
                                /\ lastSeq'[k] = lastSeq[k]
                                /\ k \in retained' => k \in retained
  PROVE  StreamOk(stream[c])'
  <1> DEFINE s == stream[c]
  <1>1. s \in StreamType /\ Contiguous(s)
    BY DEF StreamOk
  <1>2. CASE s.pc \in {"gated", "open", "closed"}
    <2>1. /\ s.job \in 1..admitted /\ s.job \in 1..admitted'
          /\ state'[s.job] = state[s.job] /\ lastSeq'[s.job] = lastSeq[s.job]
          /\ s.job \in retained' => s.job \in retained
      BY <1>2, SMTT(30) DEF StreamOk
    <2>2. KnownOk(s) => KnownOk(stream[c])'
      BY <2>1 DEF KnownOk, LiveOk, Genuine, Upto
    <2>3. UnknownOk(s) => UnknownOk(stream[c])'
      BY <2>1 DEF UnknownOk
    <2>4. Complete(s) => Complete(stream[c])'
      BY <2>1 DEF Complete
    <2> QED
      BY <2>1, <2>2, <2>3, <2>4 DEF StreamOk, Contiguous
  <1>3. CASE s.pc \notin {"gated", "open", "closed"}
    BY <1>3 DEF StreamOk, Contiguous
  <1> QED
    BY <1>2, <1>3

\* The field by field effect of a send on an open receiver.
LEMMA EnqueueFacts ==
  ASSUME NEW s \in StreamType, s.pc = "open", NEW e \in EventType
  PROVE  LET t == Enqueue(s, e)
             m == IF e.job = s.job THEN e ELSE OtherJob
         IN  /\ m \in Messages
             /\ t \in StreamType
             /\ t.pc = s.pc /\ t.job = s.job /\ t.after = s.after
             /\ t.known = s.known /\ t.replay = s.replay /\ t.got = s.got
             /\ t.terminalSeen = s.terminalSeen
             /\ ~t.lagged => ~s.lagged /\ t.live = Append(s.live, m)
             /\ \/ t.live = Append(s.live, m)
                \/ s.live # <<>> /\ t.live = Append(Tail(s.live), m)
  <1> DEFINE m == IF e.job = s.job THEN e ELSE OtherJob
             t == Enqueue(s, e)
  <1>1. m \in Messages
    BY DEF EventType, OtherJob, Messages, JobIds
  <1>2. s.live \in Seq(Messages) /\ Len(s.live) \in Nat /\ s.lagged \in BOOLEAN
    BY DEF StreamType
  <1>3. CASE Len(s.live) < BroadcastCap
    <2>1. t = [s EXCEPT !.live = Append(s.live, m)]
      BY <1>3 DEF Enqueue
    <2>2. Append(s.live, m) \in Seq(Messages)
      BY <1>1, <1>2, AppendFacts
    <2> QED
      BY <1>1, <2>1, <2>2 DEF StreamType
  <1>4. CASE ~(Len(s.live) < BroadcastCap)
    <2>1. s.live # <<>>
      BY <1>2, <1>4, BoundsAssumption
    <2>2. t = [s EXCEPT !.live = Append(Tail(s.live), m), !.lagged = TRUE]
      BY <1>4 DEF Enqueue
    <2>3. Append(Tail(s.live), m) \in Seq(Messages)
      BY <1>1, <1>2, <2>1, AppendFacts, TailFacts
    <2> QED
      BY <1>1, <2>1, <2>2, <2>3 DEF StreamType
  <1> QED
    BY <1>3, <1>4

\* A running job emits: every receiver keeps what StreamOk promises.
LEMMA EmitStream ==
  ASSUME TypeOK, SInv, NEW j \in JobIds, NEW b \in BOOLEAN, Emit(j, b), Active(j),
         admitted' = admitted, retained' \subseteq retained,
         state' = IF b THEN [state EXCEPT ![j] = "Terminal"] ELSE state,
         NEW c \in Clients
  PROVE  StreamOk(stream[c])'
  <1> DEFINE s == stream[c]
             e == [job |-> j, seq |-> lastSeq[j] + 1, terminal |-> b]
             m == IF e.job = s.job THEN e ELSE OtherJob
             G(x, k) == /\ x.seq <= lastSeq'[k]
                        /\ x.terminal => state'[k] = "Terminal" /\ x.seq = lastSeq'[k]
  <1>1. /\ e \in EventType /\ e.job = j /\ e.seq = lastSeq[j] + 1 /\ e.terminal = b
        /\ lastSeq \in [JobIds -> Nat] /\ state \in [JobIds -> JobStates]
        /\ admitted \in Nat /\ 1..admitted \subseteq JobIds /\ JobIds \subseteq Nat
    <2>1. /\ lastSeq \in [JobIds -> Nat] /\ state \in [JobIds -> JobStates]
          /\ admitted \in 0..MaxJobs
      BY DEF TypeOK
    <2>2. admitted \in Nat /\ 1..admitted \subseteq JobIds /\ JobIds \subseteq Nat
      BY <2>1, BoundsAssumption DEF JobIds
    <2>3. lastSeq[j] + 1 \in Nat
      BY <2>1
    <2> QED
      BY <2>1, <2>2, <2>3 DEF EventType
  <1>2. StreamOk(s)
    BY DEF SInv
  <1>3. s \in StreamType /\ Contiguous(s)
    BY <1>2 DEF StreamOk
  <1>4. stream'[c] = Enqueue(s, e)
    BY DEF Emit, Broadcast
  <1>5. \A k \in JobIds :
          /\ lastSeq'[k] = IF k = j THEN lastSeq[k] + 1 ELSE lastSeq[k]
          /\ state[k] = "Terminal" =>
                k # j /\ state'[k] = "Terminal" /\ lastSeq'[k] = lastSeq[k]
    BY <1>1 DEF Emit, Active
  <1>6. \A k \in JobIds : \A x \in Messages : Genuine(x, k) => G(x, k)
    BY <1>1, <1>5 DEF Genuine, Messages
  <1> HIDE DEF s, e, G
  <1>7. CASE s.pc # "open"
    <2>1. stream'[c] = s
      BY <1>4, <1>7 DEF Enqueue
    <2>2. s.pc = "closed" => Complete(stream[c])'
      <3> SUFFICES ASSUME s.pc = "closed" PROVE Complete(stream[c])'
        OBVIOUS
      <3>1. Complete(s) /\ s.job \in JobIds
        BY <1>1, <1>2 DEF StreamOk
      <3> QED
        BY <1>5, <2>1, <3>1 DEF Complete
    <2> QED
      BY <1>2, <1>7, <2>1, <2>2 DEF StreamOk, Contiguous
  <1>8. CASE s.pc = "open"
    <2>0. s.job \in 1..admitted /\ s.job \in JobIds /\ s.job # 0
      BY <1>1, <1>2, <1>8 DEF StreamOk
    <2> DEFINE t == stream'[c]
    <2>1. /\ m \in Messages
          /\ t \in StreamType
          /\ t.pc = s.pc /\ t.job = s.job /\ t.after = s.after
          /\ t.known = s.known /\ t.replay = s.replay /\ t.got = s.got
          /\ t.terminalSeen = s.terminalSeen
          /\ ~t.lagged => ~s.lagged /\ t.live = Append(s.live, m)
          /\ \/ t.live = Append(s.live, m)
             \/ s.live # <<>> /\ t.live = Append(Tail(s.live), m)
      BY <1>1, <1>3, <1>4, <1>8, EnqueueFacts
    <2>2. Contiguous(stream[c])'
      BY <1>3, <2>1 DEF Contiguous
    <2>3. s.live \in Seq(Messages) /\ Len(s.live) \in Nat
      BY <1>3 DEF StreamType
    <2>4. Upto(stream[c])' = Upto(s)
      BY <2>1 DEF Upto
    <2>5. ASSUME s.known PROVE KnownOk(stream[c])'
      <3>1. KnownOk(s)
        BY <1>2, <1>8, <2>5 DEF StreamOk
      <3>2. s.replay \in Seq(EventType) /\ Len(s.replay) \in Nat /\ s.got \in Seq(Nat)
        BY <1>3 DEF StreamType
      <3>3. Upto(s) \in Nat
        <4>1. s.replay # <<>> => s.replay[Len(s.replay)] \in EventType
          BY <3>2, EmptySeq, ElementOfSeq
        <4>2. s.got # <<>> => s.got[Len(s.got)] \in Nat
          BY <3>2, EmptySeq, ElementOfSeq
        <4>3. s.after \in Nat
          BY <1>3 DEF StreamType
        <4> QED
          BY <4>1, <4>2, <4>3 DEF Upto, EventType
      <3>4. \A i \in 1..Len(s.replay) :
              /\ s.replay[i].seq = Upto(s) - Len(s.replay) + i
              /\ G(s.replay[i], s.job)
        <4> TAKE i \in 1..Len(s.replay)
        <4>1. s.replay[i] \in EventType
          BY <3>2, ElementOfSeq
        <4>2. s.replay[i] \in Messages
          BY <1>1, <4>1 DEF EventType, Messages
        <4> QED
          BY <1>6, <2>0, <3>1, <4>2, Zenon DEF KnownOk
      <3>5. \A i \in 1..Len(stream'[c].replay) :
              /\ stream'[c].replay[i].seq = Upto(stream[c])' - Len(stream'[c].replay) + i
              /\ G(stream'[c].replay[i], stream'[c].job)
        BY <2>1, <2>4, <3>4
      <3>6. Upto(s) <= lastSeq[s.job] /\ Upto(s) <= lastSeq'[s.job]
        BY <1>1, <1>5, <2>0, <3>1, <3>3, SMTT(30) DEF KnownOk
      <3>7. s.terminalSeen =>
              state'[s.job] = "Terminal" /\ Upto(s) = lastSeq'[s.job]
        BY <1>5, <2>0, <3>1 DEF KnownOk
      <3>8. ASSUME ~t.lagged PROVE LiveOk(stream[c])'
        <4> DEFINE q == s.live
                   n == Len(q)
        <4>1. LiveOk(s) /\ t.live = Append(q, m)
          BY <2>1, <3>1, <3>8 DEF KnownOk
        <4>2. /\ Len(t.live) = n + 1 /\ n \in Nat
              /\ \A i \in 1..n : t.live[i] = q[i] /\ q[i] \in Messages
              /\ t.live[n + 1] = m
          BY <2>1, <2>3, <4>1, AppendFacts, ElementOfSeq
        <4>3. m.job = s.job => /\ s.job = j /\ m = e
                               /\ m.seq = lastSeq[s.job] + 1
                               /\ m.seq = lastSeq'[s.job]
          BY <1>1, <1>5, <2>0 DEF OtherJob
        <4>4. m.job = s.job => G(m, s.job)
          BY <1>1, <1>5, <4>3 DEF G, Active
        <4> HIDE DEF m, t, q, n
        <4>5. \A i \in 1..n : q[i].job = s.job =>
                /\ Upto(s) < q[i].seq /\ G(q[i], s.job)
                /\ q[i].seq <= lastSeq[s.job]
          BY <1>6, <2>0, <4>1, <4>2 DEF LiveOk, q, n, Genuine
        <4>6. \A i \in 1..(n + 1) : t.live[i].job = s.job =>
                Upto(s) < t.live[i].seq /\ G(t.live[i], s.job)
          <5> SUFFICES ASSUME NEW i \in 1..(n + 1), t.live[i].job = s.job
                       PROVE  Upto(s) < t.live[i].seq /\ G(t.live[i], s.job)
            OBVIOUS
          <5>1. CASE i = n + 1
            <6>1. Upto(s) < m.seq
              BY <1>1, <2>0, <3>3, <3>6, <4>2, <4>3, <5>1
            <6> QED
              BY <4>2, <4>4, <5>1, <6>1
          <5>2. CASE i # n + 1
            <6>1. i \in 1..n
              BY <4>2, <5>2
            <6> QED
              BY <4>2, <4>5, <6>1
          <5> QED
            BY <5>1, <5>2
        <4>7. \A i, k \in 1..(n + 1) :
                i < k /\ t.live[i].job = s.job /\ t.live[k].job = s.job =>
                    t.live[i].seq < t.live[k].seq
          <5> SUFFICES ASSUME NEW i \in 1..(n + 1), NEW k \in 1..(n + 1), i < k,
                              t.live[i].job = s.job, t.live[k].job = s.job
                       PROVE  t.live[i].seq < t.live[k].seq
            OBVIOUS
          <5>0. i \in 1..n
            BY <4>2
          <5>1. CASE k = n + 1
            <6>1. q[i].seq <= lastSeq[s.job] /\ m.seq = lastSeq[s.job] + 1
              BY <4>2, <4>3, <4>5, <5>0, <5>1
            <6>2. q[i].seq \in Nat /\ lastSeq[s.job] \in Nat
              BY <1>1, <2>0, <4>2, <5>0 DEF Messages
            <6> QED
              BY <4>2, <5>0, <5>1, <6>1, <6>2, SMTT(30)
          <5>2. CASE k # n + 1
            <6>1. k \in 1..n
              BY <4>2, <5>2
            <6> QED
              BY <4>1, <4>2, <5>0, <6>1 DEF LiveOk, q, n
          <5> QED
            BY <5>1, <5>2
        <4>8. \A x \in 1..lastSeq'[s.job] : Upto(s) < x =>
                \E i \in 1..(n + 1) : t.live[i].job = s.job /\ t.live[i].seq = x
          <5> SUFFICES ASSUME NEW x \in 1..lastSeq'[s.job], Upto(s) < x
                       PROVE  \E i \in 1..(n + 1) :
                                t.live[i].job = s.job /\ t.live[i].seq = x
            OBVIOUS
          <5>1. CASE x \in 1..lastSeq[s.job]
            <6>1. PICK i \in 1..n : q[i].job = s.job /\ q[i].seq = x
              BY <4>1, <5>1 DEF LiveOk, q, n
            <6>2. i \in 1..(n + 1) /\ t.live[i] = q[i]
              BY <4>2
            <6> QED
              BY <6>1, <6>2
          <5>2. CASE x \notin 1..lastSeq[s.job]
            <6>1. s.job = j /\ x = lastSeq[s.job] + 1
              BY <1>1, <1>5, <2>0, <5>2
            <6>2. m.job = s.job /\ m.seq = x
              BY <1>1, <6>1 DEF m
            <6>3. n + 1 \in 1..(n + 1)
              BY <4>2
            <6> QED
              BY <4>2, <6>2, <6>3
          <5> QED
            BY <5>1, <5>2
        <4> QED
          BY <2>1, <2>4, <4>2, <4>6, <4>7, <4>8 DEF LiveOk, Genuine, t, G
      <3> QED
        BY <2>1, <2>4, <3>1, <3>5, <3>6, <3>7, <3>8 DEF KnownOk, Genuine, G
    <2>6. ASSUME ~s.known PROVE UnknownOk(stream[c])'
      <3>1. UnknownOk(s)
        BY <1>2, <1>8, <2>6 DEF StreamOk
      <3>2. m.job # s.job
        BY <1>1, <2>0, <3>1 DEF UnknownOk, OtherJob, Active
      <3> DEFINE q == s.live
      <3>3. \A i \in 1..Len(q) : q[i].job # s.job
        BY <3>1 DEF UnknownOk
      <3> HIDE DEF m, q
      <3>4. ASSUME NEW S, NEW u \in Seq(S), m \in S, NEW i \in 1..Len(Append(u, m)),
                   \A k \in 1..Len(u) : u[k].job # s.job
            PROVE  Append(u, m)[i].job # s.job
        BY <3>2, <3>4, AppendFacts
      <3>5. q # <<>> => /\ Tail(q) \in Seq(Messages)
                        /\ \A k \in 1..Len(Tail(q)) : Tail(q)[k].job # s.job
        <4> SUFFICES ASSUME q # <<>>
                     PROVE  /\ Tail(q) \in Seq(Messages)
                            /\ \A k \in 1..Len(Tail(q)) : Tail(q)[k].job # s.job
          OBVIOUS
        <4>1. /\ Tail(q) \in Seq(Messages) /\ Len(q) \in Nat \ {0}
              /\ Len(Tail(q)) = Len(q) - 1
              /\ \A i \in 1..(Len(q) - 1) : Tail(q)[i] = q[i + 1]
          BY <2>3, TailFacts DEF q
        <4> QED
          BY <3>3, <4>1
      <3>6. \A i \in 1..Len(t.live) : t.live[i].job # s.job
        <4>1. CASE t.live = Append(q, m)
          BY <2>1, <2>3, <3>3, <3>4, <4>1 DEF q
        <4>2. CASE q # <<>> /\ t.live = Append(Tail(q), m)
          BY <2>1, <3>4, <3>5, <4>2
        <4> QED
          BY <2>1, <4>1, <4>2 DEF q
      <3> QED
        BY <2>1, <3>1, <3>6 DEF UnknownOk
    <2> QED
      BY <1>8, <2>0, <2>1, <2>2, <2>5, <2>6 DEF StreamOk, StreamType
  <1> QED
    BY <1>7, <1>8

\* The seq after which the live events begin is a number.
LEMMA UptoType ==
  ASSUME NEW s \in StreamType
  PROVE  Upto(s) \in Nat
  <1>1. /\ s.replay \in Seq(EventType) /\ s.got \in Seq(Nat) /\ s.after \in Nat
    BY DEF StreamType
  <1>2. s.replay # <<>> => s.replay[Len(s.replay)] \in EventType
    BY <1>1, EmptySeq, ElementOfSeq
  <1>3. s.got # <<>> => s.got[Len(s.got)] \in Nat
    BY <1>1, EmptySeq, ElementOfSeq
  <1> QED
    BY <1>1, <1>2, <1>3 DEF Upto, EventType

\* What subscribe_events replays when it reports no gap: the newest events of
\* the job, consecutive, and after a cursor exactly those beyond it.
LEMMA ReplayFacts ==
  ASSUME TypeOK, NEW j \in JobIds, RingOk(j), NEW a \in Nat, ~Gap(j, a)
  PROVE  LET r == ReplayAfter(ring[j], a)
         IN  /\ r \in Seq(EventType)
             /\ \A i \in 1..Len(r) :
                   /\ r[i].seq = lastSeq[j] - Len(r) + i
                   /\ r[i].terminal => state[j] = "Terminal" /\ i = Len(r)
             /\ a > 0 => Len(r) = lastSeq[j] - a
             /\ r = <<>> => lastSeq[j] = a
  <1> DEFINE q == ring[j]
             L == lastSeq[j]
             n == Len(q)
             r == ReplayAfter(q, a)
  <1>1. /\ q \in Seq(EventType) /\ n \in Nat /\ L \in Nat
        /\ n <= L /\ (L > 0 => n > 0)
        /\ \A i \in 1..n : /\ q[i].seq = L - n + i
                           /\ q[i].terminal => state[j] = "Terminal" /\ i = n
    BY DEF TypeOK, RingOk
  <1>2. a = 0 \/ (~(a + 1 < Oldest(j)) /\ ~(a > L))
    BY DEF Gap
  <1>3. q # <<>> => n \in Nat \ {0} /\ Head(q) = q[1] /\ Head(q).seq = L - n + 1
    BY <1>1, TailFacts
  <1>4. Oldest(j) = IF q = <<>> THEN 0 ELSE Head(q).seq
    BY DEF Oldest
  <1>5. q = <<>> <=> n = 0
    BY <1>1, EmptySeq
  <1>6. r = IF q = <<>> \/ a < Head(q).seq THEN q
            ELSE SubSeq(q, a - Head(q).seq + 2, n)
    BY DEF ReplayAfter
  <1> HIDE DEF q, L, n, r
  <1>7. CASE q = <<>>
    BY <1>1, <1>2, <1>5, <1>6, <1>7 DEF n, r, q, L
  <1>8. CASE q # <<>> /\ a < L - n + 1
    <2>1. r = q
      BY <1>3, <1>6, <1>8
    <2>2. a > 0 => n = L - a
      BY <1>1, <1>2, <1>3, <1>4, <1>8
    <2>3. \A i \in 1..Len(r) :
             /\ r[i].seq = L - Len(r) + i
             /\ r[i].terminal => state[j] = "Terminal" /\ i = Len(r)
      BY <1>1, <2>1 DEF n
    <2> QED
      BY <1>1, <1>8, <2>1, <2>2, <2>3 DEF n, r, q, L
  <1>9. CASE q # <<>> /\ ~(a < L - n + 1)
    <2>1. a <= L /\ a > 0 /\ n \in Nat \ {0}
      BY <1>1, <1>2, <1>3, <1>9
    <2> DEFINE m == a - (L - n + 1) + 2
    <2>2. m \in 1..(n + 1) /\ n - m + 1 = L - a
      BY <1>1, <1>9, <2>1
    <2>3. r = SubSeq(q, m, n)
      BY <1>3, <1>6, <1>9
    <2>4. /\ r \in Seq(EventType) /\ Len(r) = L - a
          /\ \A i \in 1..(L - a) : r[i] = q[m + i - 1]
      <3>1. \A i \in m..n : q[i] \in EventType
        BY <1>1, <2>2, ElementOfSeq, SMTT(30) DEF n
      <3>2. m \in Int /\ n \in Int
        BY <1>1, <2>2
      <3>3. r \in Seq(EventType)
        BY <2>3, <3>1, <3>2, <1>1, <2>2, SubSeqProperties DEF n
      <3>4. /\ Len(r) = IF m <= n THEN n - m + 1 ELSE 0
            /\ \A i \in 1..(n - m + 1) : r[i] = q[m + i - 1]
        BY <2>3, <3>2, <1>1, <2>2, SubSeqProperties DEF n
      <3> QED
        BY <1>1, <2>1, <2>2, <3>3, <3>4
    <2>5. ASSUME NEW i \in 1..(L - a)
          PROVE  /\ r[i].seq = L - (L - a) + i
                 /\ r[i].terminal => state[j] = "Terminal" /\ i = L - a
      <3>1. m + i - 1 \in 1..n /\ L - n + (m + i - 1) = L - (L - a) + i
            /\ (m + i - 1 = n => i = L - a)
        BY <1>1, <2>1, <2>2
      <3>2. r[i] = q[m + i - 1]
        BY <2>4
      <3> QED
        BY <1>1, <3>1, <3>2, Zenon
    <2>6. r = <<>> => L = a
      BY <1>1, <2>1, <2>4, EmptySeq
    <2> QED
      BY <2>1, <2>4, <2>5, <2>6 DEF r, q, L
  <1> QED
    BY <1>1, <1>3, <1>7, <1>8, <1>9

\* A connection without a subscription, in any phase, is well formed.
LEMMA NoStreamFacts ==
  ASSUME NEW p \in StreamPcs
  PROVE  LET t == [NoStream EXCEPT !.pc = p]
         IN  t \in StreamType /\ t.pc = p /\ t.got = <<>>
  <1>1. <<>> \in Seq(EventType) /\ <<>> \in Seq(Messages) /\ <<>> \in Seq(Nat)
    BY EmptySeq
  <1> QED
    BY <1>1 DEF NoStream, StreamType

\* So is one that has passed the gate.
LEMMA GatedFacts ==
  ASSUME NEW j \in Nat, NEW a \in Nat
  PROVE  LET t == [NoStream EXCEPT !.pc = "gated", !.job = j, !.after = a]
         IN  /\ t \in StreamType /\ t.pc = "gated" /\ t.job = j
             /\ t.got = <<>> /\ t.replay = <<>> /\ t.live = <<>>
             /\ ~t.known /\ ~t.lagged /\ ~t.terminalSeen
  <1>1. <<>> \in Seq(EventType) /\ <<>> \in Seq(Messages) /\ <<>> \in Seq(Nat)
    BY EmptySeq
  <1> QED
    BY <1>1 DEF NoStream, StreamType, StreamPcs

\* A new subscription starts where its cursor is and misses nothing.
LEMMA SubscribeStep ==
  ASSUME TypeOK, SInv, NEW c \in Clients, Subscribe(c)
  PROVE  StreamOk(stream[c])'
  <1> DEFINE s == stream[c]
             t == stream'[c]
             j == s.job
             r == ReplayAfter(ring[j], s.after)
  <1>1. StreamOk(s) /\ s.pc = "gated" /\ t = SubscribedTo(s)
        /\ admitted' = admitted /\ state' = state /\ lastSeq' = lastSeq
        /\ retained' = retained
    BY DEF SInv, Subscribe, TypeOK, jobVars
  <1>2. /\ s \in StreamType /\ j \in 1..admitted /\ j \in JobIds
        /\ s.got = <<>> /\ s.replay = <<>> /\ s.live = <<>>
        /\ s.known = FALSE /\ s.lagged = FALSE /\ s.terminalSeen = FALSE
        /\ s.after \in Nat
    BY <1>1, BoundsAssumption DEF StreamOk, StreamType, TypeOK, JobIds
  <1>3. RingOk(j) /\ state[j] \in {"Running", "Terminal"} /\ lastSeq[j] \in Nat
    BY <1>2 DEF SInv, RingOk, TypeOK, JobStates, JobIds
  <1> HIDE DEF s
  <1>4. CASE j \notin retained
    <2>1. t = [s EXCEPT !.pc = "open"]
      BY <1>1, <1>4 DEF SubscribedTo
    <2>2. /\ t \in StreamType /\ t.pc = "open" /\ t.job = s.job /\ t.known = FALSE
          /\ t.got = <<>> /\ t.replay = <<>> /\ t.live = <<>>
          /\ t.terminalSeen = FALSE
      BY <1>2, <2>1 DEF StreamType, StreamPcs
    <2>3. UnknownOk(stream[c])'
      BY <1>1, <1>4, <2>2 DEF UnknownOk
    <2>4. Contiguous(stream[c])'
      BY <2>2 DEF Contiguous
    <2> QED
      BY <1>1, <1>2, <2>2, <2>3, <2>4 DEF StreamOk
  <1>5. CASE j \in retained /\ Gap(j, s.after)
    <2>1. t = [NoStream EXCEPT !.pc = "gap"]
      BY <1>1, <1>5 DEF SubscribedTo
    <2>2. t \in StreamType /\ t.pc = "gap" /\ t.got = <<>>
      <3>1. "gap" \in StreamPcs
        BY DEF StreamPcs
      <3> QED
        BY <2>1, <3>1, NoStreamFacts
    <2> QED
      BY <2>2 DEF StreamOk, Contiguous
  <1>6. CASE j \in retained /\ ~Gap(j, s.after)
    <2>1. t = [s EXCEPT !.pc = "open", !.known = TRUE, !.replay = r,
                        !.terminalSeen = state[j] # "Running"]
      BY <1>1, <1>6 DEF SubscribedTo
    <2>2. /\ r \in Seq(EventType)
          /\ \A i \in 1..Len(r) :
                /\ r[i].seq = lastSeq[j] - Len(r) + i
                /\ r[i].terminal => state[j] = "Terminal" /\ i = Len(r)
          /\ s.after > 0 => Len(r) = lastSeq[j] - s.after
          /\ r = <<>> => lastSeq[j] = s.after
      BY <1>2, <1>3, <1>6, ReplayFacts
    <2> HIDE DEF r
    <2>3. Len(r) \in Nat /\ (r = <<>> <=> Len(r) = 0)
      BY <2>2, EmptySeq
    <2>4. /\ t \in StreamType /\ t.pc = "open" /\ t.job = j /\ t.known = TRUE
          /\ t.after = s.after
          /\ t.got = <<>> /\ t.replay = r /\ t.live = <<>> /\ t.lagged = FALSE
          /\ t.terminalSeen = (state[j] # "Running")
      BY <1>2, <2>1, <2>2, ZenonT(60) DEF StreamType, StreamPcs
    <2>5. Upto(stream[c])' = lastSeq[j]
      <3>1. r # <<>> => r[Len(r)].seq = lastSeq[j]
        BY <1>3, <2>2, <2>3
      <3> QED
        BY <2>2, <2>4, <3>1 DEF Upto
    <2>6. LiveOk(stream[c])'
      <3>1. Len(t.live) = 0
        BY <2>4
      <3>2. ~\E n \in 1..lastSeq[j] : lastSeq[j] < n
        BY <1>3
      <3> QED
        BY <1>1, <2>4, <2>5, <3>1, <3>2 DEF LiveOk
    <2>7. \A i \in 1..Len(r) :
            /\ r[i].seq <= lastSeq[j]
            /\ r[i].terminal => state[j] = "Terminal" /\ r[i].seq = lastSeq[j]
      BY <1>3, <2>2, <2>3
    <2>8. r # <<>> /\ s.after > 0 => r[1].seq = s.after + 1
      BY <1>2, <1>3, <2>2, <2>3
    <2>9. KnownOk(stream[c])'
      <3>1. /\ lastSeq[j] <= lastSeq[j]
            /\ state[j] # "Running" => state[j] = "Terminal"
        BY <1>3
      <3> HIDE DEF j, t
      <3>2. \A i \in 1..Len(t.replay) :
              /\ t.replay[i].seq = lastSeq[j] - Len(t.replay) + i
              /\ t.replay[i].seq <= lastSeq'[t.job]
              /\ t.replay[i].terminal =>
                    state'[t.job] = "Terminal" /\ t.replay[i].seq = lastSeq'[t.job]
        BY <1>1, <2>2, <2>4, <2>7
      <3> QED
        BY <1>1, <2>4, <2>5, <2>6, <2>8, <3>1, <3>2 DEF KnownOk, Genuine, t
    <2>10. Contiguous(stream[c])'
      BY <2>4 DEF Contiguous
    <2> QED
      BY <1>1, <1>2, <2>4, <2>9, <2>10 DEF StreamOk
  <1> QED
    BY <1>4, <1>5, <1>6

\* A replayed event continues what the client has and leaves the seam to the
\* live events where it was.
LEMMA ReplayStep ==
  ASSUME TypeOK, SInv, NEW c \in Clients, StreamReplay(c)
  PROVE  StreamOk(stream[c])'
  <1> DEFINE s == stream[c]
             t == stream'[c]
             q == s.replay
             g == s.got
             u == Upto(s)
             L == lastSeq[s.job]
  <1>1. /\ StreamOk(s) /\ s.pc = "open" /\ q # <<>>
        /\ admitted' = admitted /\ state' = state /\ lastSeq' = lastSeq
        /\ retained' = retained
        /\ t = [s EXCEPT !.got = Append(g, Head(q).seq), !.replay = Tail(q),
                         !.terminalSeen = s.terminalSeen \/ Head(q).terminal]
    BY DEF SInv, StreamReplay, TypeOK, jobVars, StreamOk, StreamType
  <1>2. /\ s \in StreamType /\ s.job \in 1..admitted /\ s.job \in JobIds
        /\ Contiguous(s) /\ q \in Seq(EventType) /\ g \in Seq(Nat)
        /\ s.after \in Nat /\ s.terminalSeen \in BOOLEAN /\ s.known \in BOOLEAN
    BY <1>1, BoundsAssumption DEF StreamOk, StreamType, TypeOK, JobIds
  <1>3. s.known /\ KnownOk(s)
    BY <1>1, <1>2 DEF StreamOk, UnknownOk
  <1>4. /\ Tail(q) \in Seq(EventType) /\ Len(q) \in Nat \ {0}
        /\ Len(Tail(q)) = Len(q) - 1
        /\ \A i \in 1..(Len(q) - 1) : Tail(q)[i] = q[i + 1]
        /\ Head(q) = q[1] /\ q[1] \in EventType
        /\ Tail(q) = <<>> <=> Len(q) = 1
    BY <1>1, <1>2, TailFacts, SMTT(30)
  <1>5. q[1].seq \in Nat /\ q[1].terminal \in BOOLEAN /\ L \in Nat /\ u \in Nat
    BY <1>2, <1>4, UptoType DEF EventType, TypeOK
  <1> DEFINE h == Append(g, q[1].seq)
             n == Len(g)
  <1> HIDE DEF s, q, g, u, L
  <1>6. /\ h \in Seq(Nat) /\ Len(h) = n + 1 /\ n \in Nat
        /\ \A i \in 1..n : h[i] = g[i]
        /\ h[n + 1] = q[1].seq /\ h # <<>>
    BY <1>2, <1>5, AppendFacts, LenProperties
  <1> HIDE DEF h, n
  <1>7. /\ t \in StreamType /\ t.pc = "open" /\ t.job = s.job /\ t.known = s.known
        /\ t.after = s.after /\ t.got = h /\ t.replay = Tail(q) /\ t.live = s.live
        /\ t.lagged = s.lagged /\ t.terminalSeen = (s.terminalSeen \/ q[1].terminal)
    <2> DEFINE b == s.terminalSeen \/ q[1].terminal
    <2>1. b \in BOOLEAN
      OBVIOUS
    <2>2. t = [s EXCEPT !.got = h, !.replay = Tail(q), !.terminalSeen = b]
      BY <1>1, <1>4 DEF h
    <2> HIDE DEF b
    <2>3. /\ t \in StreamType /\ t.pc = "open" /\ t.job = s.job /\ t.known = s.known
          /\ t.after = s.after /\ t.got = h /\ t.replay = Tail(q) /\ t.live = s.live
          /\ t.lagged = s.lagged /\ t.terminalSeen = b
      BY <1>1, <1>2, <1>4, <1>6, <2>1, <2>2, ZenonT(60) DEF StreamType
    <2> QED
      BY <2>3 DEF b
  <1>8. \A i \in 1..Len(q) : /\ q[i].seq = u - Len(q) + i
                             /\ Genuine(q[i], s.job)
    BY <1>3 DEF KnownOk, q, u
  <1>9. /\ u <= L
        /\ s.terminalSeen => state[s.job] = "Terminal" /\ u = L
        /\ ~s.lagged => LiveOk(s)
        /\ g # <<>> => q[1].seq = g[n] + 1
        /\ g = <<>> /\ s.after > 0 => q[1].seq = s.after + 1
    BY <1>1, <1>3 DEF KnownOk, q, g, u, L, n
  <1>10. 1 \in 1..Len(q) /\ q[1].seq = u - Len(q) + 1
         /\ q[1].seq <= L /\ (q[1].terminal => state[s.job] = "Terminal" /\ q[1].seq = L)
    BY <1>4, <1>8 DEF Genuine, L
  <1>11. Contiguous(s) /\ (g = <<>> <=> n = 0)
    BY <1>2, EmptySeq DEF n
  <1>12. Upto(stream[c])' = u
    <2>1. CASE Len(q) = 1
      BY <1>4, <1>5, <1>6, <1>7, <1>10, <2>1 DEF Upto
    <2>2. CASE Len(q) # 1
      <3>1. /\ Tail(q) # <<>> /\ Len(q) - 1 \in 1..(Len(q) - 1)
            /\ Tail(q)[Len(q) - 1] = q[Len(q) - 1 + 1] /\ Len(q) - 1 + 1 = Len(q)
        BY <1>4, <2>2
      <3>2. q[Len(q)].seq = u
        BY <1>4, <1>5, <1>8, SMTT(30)
      <3> QED
        BY <1>4, <1>7, <3>1, <3>2 DEF Upto
    <2> QED
      BY <2>1, <2>2
  <1>13. \A i \in 1..Len(Tail(q)) :
            /\ Tail(q)[i].seq = u - Len(Tail(q)) + i
            /\ Genuine(Tail(q)[i], s.job)
    <2> TAKE i \in 1..Len(Tail(q))
    <2>1. i + 1 \in 1..Len(q) /\ Tail(q)[i] = q[i + 1]
          /\ u - Len(q) + (i + 1) = u - Len(Tail(q)) + i
      BY <1>4, <1>5
    <2> QED
      BY <1>8, <2>1, Zenon
  <1>14. Tail(q) # <<>> => Tail(q)[1].seq = q[1].seq + 1
    BY <1>4, <1>5, <1>8, <1>10
  <1>15. t.terminalSeen => state[s.job] = "Terminal" /\ u = L
    BY <1>4, <1>5, <1>7, <1>9, <1>10
  <1>16. ~t.lagged => LiveOk(stream[c])'
    BY <1>1, <1>7, <1>9, <1>12 DEF LiveOk, Genuine, u, L
  <1>17. KnownOk(stream[c])'
    BY <1>1, <1>6, <1>7, <1>9, <1>12, <1>13, <1>14, <1>15, <1>16, SMTT(30)
       DEF KnownOk, Genuine, L
  <1>18. Contiguous(stream[c])'
    <2>1. \A i \in 1..(Len(h) - 1) : h[i + 1] = h[i] + 1
      <3> TAKE i \in 1..(Len(h) - 1)
      <3>1. CASE i = n
        BY <1>6, <1>9, <1>11, <3>1
      <3>2. CASE i # n
        <4>1. i \in 1..(n - 1) /\ i \in 1..n /\ i + 1 \in 1..n
          BY <1>6, <3>2
        <4>2. g[i + 1] = g[i] + 1
          BY <1>11, <4>1 DEF Contiguous, g, n
        <4> QED
          BY <1>6, <4>1, <4>2
      <3> QED
        BY <3>1, <3>2
    <2>2. s.after > 0 => h[1] = s.after + 1
      <3>1. CASE n = 0
        BY <1>6, <1>9, <1>11, <3>1
      <3>2. CASE n # 0
        <4>1. 1 \in 1..n /\ g # <<>>
          BY <1>6, <1>11, <3>2
        <4> QED
          BY <1>3, <1>6, <1>11, <4>1 DEF Contiguous, g
      <3> QED
        BY <3>1, <3>2
    <2> QED
      BY <1>7, <2>1, <2>2 DEF Contiguous
  <1> QED
    BY <1>1, <1>2, <1>3, <1>7, <1>17, <1>18 DEF StreamOk

\* A stream closes by itself only when its client has everything.
LEMMA CloseStep ==
  ASSUME TypeOK, SInv, NEW c \in Clients, StreamClose(c)
  PROVE  StreamOk(stream[c])'
  <1> DEFINE s == stream[c]
             t == stream'[c]
  <1>1. /\ StreamOk(s) /\ s.pc = "open" /\ s.replay = <<>> /\ s.terminalSeen
        /\ admitted' = admitted /\ state' = state /\ lastSeq' = lastSeq
        /\ retained' = retained
        /\ t = [s EXCEPT !.pc = "closed", !.live = <<>>]
    BY DEF SInv, StreamClose, TypeOK, jobVars, StreamOk, StreamType
  <1>2. s \in StreamType /\ s.job \in 1..admitted /\ s.known \in BOOLEAN
    BY <1>1 DEF StreamOk, StreamType
  <1>3. s.known /\ KnownOk(s) /\ Contiguous(s)
    BY <1>1, <1>2 DEF StreamOk, UnknownOk
  <1>4. Complete(s)
    BY <1>1, <1>3 DEF KnownOk, Upto, Complete
  <1> HIDE DEF s
  <1>5. <<>> \in Seq(Messages)
    BY EmptySeq
  <1>6. /\ t \in StreamType /\ t.pc = "closed" /\ t.job = s.job /\ t.known = s.known
        /\ t.after = s.after /\ t.got = s.got
    BY <1>1, <1>2, <1>5, ZenonT(60) DEF StreamType, StreamPcs
  <1>7. Complete(stream[c])' /\ Contiguous(stream[c])'
    BY <1>1, <1>3, <1>4, <1>6 DEF Complete, Contiguous
  <1> QED
    BY <1>1, <1>2, <1>6, <1>7 DEF StreamOk

\* A receiver delivers, of what waits, the event that comes next.
LEMMA RecvStep ==
  ASSUME TypeOK, SInv, NEW c \in Clients, StreamRecv(c)
  PROVE  StreamOk(stream[c])'
  <1> DEFINE s == stream[c]
             t == stream'[c]
             q == s.live
             n == Len(q)
             g == s.got
             u == Upto(s)
             L == lastSeq[s.job]
  <1>1. /\ StreamOk(s) /\ s.pc = "open" /\ s.replay = <<>> /\ ~s.terminalSeen
        /\ s.lagged \/ q # <<>>
        /\ admitted' = admitted /\ state' = state /\ lastSeq' = lastSeq
        /\ retained' = retained
        /\ t = IF s.lagged THEN [s EXCEPT !.pc = "lagged", !.live = <<>>]
               ELSE IF Head(q).job # s.job THEN [s EXCEPT !.live = Tail(q)]
               ELSE [s EXCEPT !.live = Tail(q),
                              !.got = Append(g, Head(q).seq),
                              !.terminalSeen = Head(q).terminal]
    BY DEF SInv, StreamRecv, TypeOK, jobVars
  <1>2. /\ s \in StreamType /\ s.job \in 1..admitted /\ s.job \in JobIds
        /\ Contiguous(s) /\ q \in Seq(Messages) /\ g \in Seq(Nat)
        /\ s.replay \in Seq(EventType)
        /\ s.after \in Nat /\ s.lagged \in BOOLEAN /\ s.known \in BOOLEAN
    BY <1>1, BoundsAssumption DEF StreamOk, StreamType, TypeOK, JobIds
  <1>3. /\ s.known => KnownOk(s)
        /\ ~s.known => UnknownOk(s)
    BY <1>1 DEF StreamOk
  <1>4. L \in Nat /\ u \in Nat
    BY <1>2, UptoType DEF TypeOK
  <1> HIDE DEF s, q, n, g, u, L
  <1>5. CASE s.lagged
    <2>1. t = [s EXCEPT !.pc = "lagged", !.live = <<>>]
      BY <1>1, <1>5
    <2>2. <<>> \in Seq(Messages)
      BY EmptySeq
    <2>3. /\ t \in StreamType /\ t.pc = "lagged" /\ t.known = s.known
          /\ t.after = s.after /\ t.got = s.got
      BY <1>1, <1>2, <2>1, <2>2 DEF StreamType, StreamPcs
    <2> QED
      BY <1>2, <2>3 DEF StreamOk, Contiguous
  <1>6. CASE ~s.lagged
    <2> DEFINE w == Tail(q)
    <2>1. /\ w \in Seq(Messages) /\ n \in Nat \ {0} /\ Len(w) = n - 1
          /\ \A i \in 1..(n - 1) : w[i] = q[i + 1]
          /\ Head(q) = q[1] /\ q[1] \in Messages
      BY <1>1, <1>2, <1>6, TailFacts DEF n
    <2>2. q[1].seq \in Nat /\ q[1].terminal \in BOOLEAN /\ q[1].job \in Nat
      BY <2>1 DEF Messages
    <2>3. ASSUME NEW i \in 1..Len(w)
          PROVE  i + 1 \in 1..n /\ w[i] = q[i + 1] /\ 1 < i + 1
      BY <2>1
    <2> HIDE DEF w
    <2>4. CASE q[1].job # s.job
      <3>1. t = [s EXCEPT !.live = w]
        BY <1>1, <1>6, <2>1, <2>4 DEF w
      <3>2. /\ t \in StreamType /\ t.pc = s.pc /\ t.job = s.job /\ t.known = s.known
            /\ t.after = s.after /\ t.got = s.got /\ t.replay = s.replay
            /\ t.live = w /\ t.lagged = s.lagged /\ t.terminalSeen = s.terminalSeen
        BY <1>2, <2>1, <3>1 DEF StreamType
      <3>3. Upto(stream[c])' = u
        BY <3>2 DEF Upto, u
      <3>4. ASSUME s.known PROVE KnownOk(stream[c])'
        <4>1. KnownOk(s) /\ LiveOk(s)
          BY <1>3, <1>6, <3>4 DEF KnownOk
        <4>2. \A i \in 1..Len(w) : w[i].job = s.job =>
                u < w[i].seq /\ Genuine(w[i], s.job)
          BY <2>3, <4>1 DEF LiveOk, q, n, u
        <4>3. \A i, k \in 1..Len(w) :
                i < k /\ w[i].job = s.job /\ w[k].job = s.job => w[i].seq < w[k].seq
          <5> SUFFICES ASSUME NEW i \in 1..Len(w), NEW k \in 1..Len(w), i < k,
                              w[i].job = s.job, w[k].job = s.job
                       PROVE  w[i].seq < w[k].seq
            OBVIOUS
          <5>1. i + 1 \in 1..n /\ w[i] = q[i + 1] /\ k + 1 \in 1..n /\ w[k] = q[k + 1]
            BY <2>3
          <5>2. i + 1 < k + 1
            BY <2>1
          <5> QED
            BY <4>1, <5>1, <5>2 DEF LiveOk, q, n
        <4>4. \A x \in 1..L : u < x => \E i \in 1..Len(w) : w[i].job = s.job /\ w[i].seq = x
          <5> SUFFICES ASSUME NEW x \in 1..L, u < x
                       PROVE  \E i \in 1..Len(w) : w[i].job = s.job /\ w[i].seq = x
            OBVIOUS
          <5>1. PICK i \in 1..n : q[i].job = s.job /\ q[i].seq = x
            BY <4>1 DEF LiveOk, q, n, u, L
          <5>2. i # 1
            BY <2>4, <5>1
          <5>3. i - 1 \in 1..Len(w) /\ w[i - 1] = q[i]
            BY <2>1, <5>2
          <5> QED
            BY <5>1, <5>3
        <4>5. LiveOk(stream[c])'
          <5>1. lastSeq' = lastSeq /\ state' = state
            BY <1>1
          <5>2. t.live = w /\ t.job = s.job
            BY <3>2
          <5> QED
            BY <3>3, <4>2, <4>3, <4>4, <5>1, <5>2 DEF LiveOk, Genuine, L
        <4> QED
          BY <1>1, <3>2, <3>3, <4>1, <4>5 DEF KnownOk, Genuine, u
      <3>5. ASSUME ~s.known PROVE UnknownOk(stream[c])'
        <4>1. UnknownOk(s)
          BY <1>3, <3>5
        <4>2. \A i \in 1..Len(w) : w[i].job # s.job
          BY <2>3, <4>1 DEF UnknownOk, q, n
        <4> QED
          BY <1>1, <3>2, <4>1, <4>2 DEF UnknownOk
      <3>6. Contiguous(stream[c])'
        BY <1>2, <3>2 DEF Contiguous
      <3> QED
        BY <1>1, <1>2, <3>2, <3>4, <3>5, <3>6 DEF StreamOk
    <2>5. CASE q[1].job = s.job
      <3> DEFINE h == Append(g, q[1].seq)
                 p == Len(g)
      <3>1. /\ h \in Seq(Nat) /\ Len(h) = p + 1 /\ p \in Nat
            /\ \A i \in 1..p : h[i] = g[i]
            /\ h[p + 1] = q[1].seq /\ h # <<>>
        <4>1. g \in Seq(Nat) /\ q[1].seq \in Nat
          BY <1>2, <2>2
        <4>2. p \in Nat
          BY <4>1, LenProperties
        <4>3. \A x \in Nat : /\ Append(g, x) \in Seq(Nat)
                             /\ Len(Append(g, x)) = Len(g) + 1
                             /\ \A i \in 1..Len(g) : Append(g, x)[i] = g[i]
                             /\ Append(g, x)[Len(g) + 1] = x
                             /\ Append(g, x) # <<>>
          BY <4>1, AppendFacts
        <4> QED
          BY <4>1, <4>2, <4>3, Zenon
      <3>2. t = [s EXCEPT !.live = w, !.got = h, !.terminalSeen = q[1].terminal]
        BY <1>1, <1>6, <2>1, <2>5 DEF w
      <3> HIDE DEF h, p
      <3>3. /\ t \in StreamType /\ t.pc = s.pc /\ t.job = s.job /\ t.known = s.known
            /\ t.after = s.after /\ t.got = h /\ t.replay = s.replay
            /\ t.live = w /\ t.lagged = s.lagged /\ t.terminalSeen = q[1].terminal
        BY <1>2, <2>1, <2>2, <3>1, <3>2 DEF StreamType
      <3>4. 1 \in 1..n
        BY <2>1
      <3>5. s.known
        BY <1>2, <1>3, <2>5, <3>4 DEF UnknownOk, q, n
      <3>6. KnownOk(s) /\ LiveOk(s)
        BY <1>3, <1>6, <3>5 DEF KnownOk
      <3>7. u < q[1].seq /\ Genuine(q[1], s.job)
        BY <2>5, <3>4, <3>6 DEF LiveOk, q, n, u
      <3>8. q[1].seq = u + 1
        <4>1. q[1].seq <= L
          BY <3>7 DEF Genuine, L
        <4>2. u + 1 \in 1..L /\ u < u + 1
          BY <1>4, <2>2, <3>7, <4>1
        <4>3. PICK i \in 1..n : q[i].job = s.job /\ q[i].seq = u + 1
          BY <3>6, <4>2 DEF LiveOk, q, n, u, L
        <4>4. i # 1 => q[1].seq < q[i].seq
          BY <2>1, <2>5, <3>4, <3>6, <4>3 DEF LiveOk, q, n
        <4> QED
          BY <1>4, <2>2, <3>7, <4>3, <4>4
      <3>9. u = IF p = 0 THEN s.after ELSE g[p]
        BY <1>1, <1>2, EmptySeq DEF Upto, u, p, g
      <3>10. Upto(stream[c])' = u + 1
        BY <1>1, <3>1, <3>3, <3>8 DEF Upto
      <3>11. \A i \in 1..Len(w) : w[i].job = s.job =>
               u + 1 < w[i].seq /\ Genuine(w[i], s.job)
        <4> SUFFICES ASSUME NEW i \in 1..Len(w), w[i].job = s.job
                     PROVE  u + 1 < w[i].seq /\ Genuine(w[i], s.job)
          OBVIOUS
        <4>1. i + 1 \in 1..n /\ w[i] = q[i + 1] /\ 1 < i + 1
          BY <2>3
        <4>2. q[1].seq < q[i + 1].seq /\ Genuine(q[i + 1], s.job)
          BY <2>5, <3>4, <3>6, <4>1 DEF LiveOk, q, n
        <4> QED
          BY <3>8, <4>1, <4>2
      <3>12. \A i, k \in 1..Len(w) :
               i < k /\ w[i].job = s.job /\ w[k].job = s.job => w[i].seq < w[k].seq
        <4> SUFFICES ASSUME NEW i \in 1..Len(w), NEW k \in 1..Len(w), i < k,
                            w[i].job = s.job, w[k].job = s.job
                     PROVE  w[i].seq < w[k].seq
          OBVIOUS
        <4>1. i + 1 \in 1..n /\ w[i] = q[i + 1] /\ k + 1 \in 1..n /\ w[k] = q[k + 1]
          BY <2>3
        <4>2. i + 1 < k + 1
          BY <2>1
        <4> QED
          BY <3>6, <4>1, <4>2 DEF LiveOk, q, n
      <3>13. \A x \in 1..L : u + 1 < x =>
               \E i \in 1..Len(w) : w[i].job = s.job /\ w[i].seq = x
        <4> SUFFICES ASSUME NEW x \in 1..L, u + 1 < x
                     PROVE  \E i \in 1..Len(w) : w[i].job = s.job /\ w[i].seq = x
          OBVIOUS
        <4>1. u < x
          BY <1>4
        <4>2. PICK i \in 1..n : q[i].job = s.job /\ q[i].seq = x
          BY <3>6, <4>1 DEF LiveOk, q, n, u, L
        <4>3. i # 1
          BY <1>4, <3>8, <4>2
        <4>4. i - 1 \in 1..Len(w) /\ w[i - 1] = q[i]
          BY <2>1, <4>3
        <4> QED
          BY <4>2, <4>4
      <3>14. LiveOk(stream[c])'
        <4>1. lastSeq' = lastSeq /\ state' = state
          BY <1>1
        <4>2. t.live = w /\ t.job = s.job
          BY <3>3
        <4> QED
          BY <3>10, <3>11, <3>12, <3>13, <4>1, <4>2 DEF LiveOk, Genuine, L
      <3>15. /\ u + 1 <= L
             /\ q[1].terminal => state[s.job] = "Terminal" /\ u + 1 = L
        BY <3>7, <3>8 DEF Genuine, L
      <3>16. KnownOk(stream[c])'
        <4>1. t.replay = <<>> /\ Len(t.replay) = 0
          BY <1>1, <3>3
        <4> QED
          BY <1>1, <3>3, <3>10, <3>14, <3>15, <4>1 DEF KnownOk, L
      <3>17. Contiguous(stream[c])'
        <4>1. \A i \in 1..(Len(h) - 1) : h[i + 1] = h[i] + 1
          <5> TAKE i \in 1..(Len(h) - 1)
          <5>1. CASE i = p
            BY <3>1, <3>8, <3>9, <5>1
          <5>2. CASE i # p
            <6>1. i \in 1..(p - 1) /\ i \in 1..p /\ i + 1 \in 1..p
              BY <3>1, <5>2
            <6>2. g[i + 1] = g[i] + 1
              BY <1>2, <6>1 DEF Contiguous, g, p
            <6> QED
              BY <3>1, <6>1, <6>2
          <5> QED
            BY <5>1, <5>2
        <4>2. s.after > 0 => h[1] = s.after + 1
          <5>1. CASE p = 0
            BY <3>1, <3>8, <3>9, <5>1
          <5>2. CASE p # 0
            <6>1. 1 \in 1..p
              BY <3>1, <5>2
            <6>2. g # <<>>
              BY <1>2, <5>2, EmptySeq DEF p
            <6> QED
              BY <1>2, <3>1, <3>5, <6>1, <6>2 DEF Contiguous, g
          <5> QED
            BY <5>1, <5>2
        <4> QED
          BY <3>3, <4>1, <4>2 DEF Contiguous
      <3> QED
        BY <1>1, <1>2, <3>3, <3>5, <3>16, <3>17 DEF StreamOk
    <2> QED
      BY <2>4, <2>5
  <1> QED
    BY <1>5, <1>6

\* The streams start well formed.
LEMMA InitStreams == Init => SInv
  <1> SUFFICES ASSUME Init PROVE SInv
    OBVIOUS
  <1>1. ASSUME NEW j \in JobIds PROVE RingOk(j)
    <2>1. admitted = 0 /\ state[j] = "none" /\ lastSeq[j] = 0 /\ ring[j] = <<>>
      BY DEF Init
    <2>2. j > 0 /\ ~(j <= 0) /\ Len(ring[j]) = 0
      BY <2>1 DEF JobIds
    <2> QED
      BY <2>1, <2>2 DEF RingOk
  <1>2. ASSUME NEW c \in Clients PROVE StreamOk(stream[c])
    <2>1. stream[c] = NoStream
      BY DEF Init
    <2>2. <<>> \in Seq(EventType) /\ <<>> \in Seq(Messages) /\ <<>> \in Seq(Nat)
      BY EmptySeq
    <2>3. NoStream \in StreamType /\ NoStream.pc = "off" /\ NoStream.got = <<>>
      BY <2>2 DEF NoStream, StreamType, StreamPcs
    <2> QED
      BY <2>1, <2>3 DEF StreamOk, Contiguous
  <1> QED
    BY <1>1, <1>2 DEF SInv

\* The steps that emit an event of a running job.
LEMMA EmitKeepsStreams ==
  ASSUME TypeOK, SInv, NEW j \in JobIds, NEW b \in BOOLEAN, Emit(j, b), Active(j),
         admitted' = admitted, retained' \subseteq retained,
         state' = IF b THEN [state EXCEPT ![j] = "Terminal"] ELSE state
  PROVE  SInv'
  <1>1. ASSUME NEW k \in JobIds PROVE RingOk(k)'
    <2>1. CASE k = j
      <3>1. /\ RingOk(j) /\ j <= admitted /\ state[j] = "Running"
            /\ state'[j] = IF b THEN "Terminal" ELSE "Running"
        BY DEF SInv, TypeOK, Active, JobIds
      <3> QED
        BY <2>1, <3>1, RingStep
    <2>2. CASE k # j
      <3>1. /\ ring'[k] = ring[k] /\ lastSeq'[k] = lastSeq[k]
            /\ state'[k] = state[k]
        BY <2>2 DEF Emit, TypeOK
      <3> QED
        BY <3>1 DEF SInv, RingOk
    <2> QED
      BY <2>1, <2>2
  <1>2. ASSUME NEW c \in Clients PROVE StreamOk(stream[c])'
    BY <1>2, EmitStream
  <1> QED
    BY <1>1, <1>2 DEF SInv

\* The steps of the SSE handler, of which only one connection takes part.
LEMMA OneStream ==
  ASSUME TypeOK, SInv, NEW c \in Clients, StreamOk(stream[c])', UNCHANGED jobVars,
         \A d \in Clients : d # c => stream'[d] = stream[d]
  PROVE  SInv'
  <1>1. /\ admitted' = admitted /\ state' = state /\ lastSeq' = lastSeq
        /\ retained' = retained /\ ring' = ring /\ admitted \in Nat
    BY BoundsAssumption DEF jobVars, TypeOK
  <1>2. ASSUME NEW k \in JobIds PROVE RingOk(k)'
    BY <1>1 DEF SInv, RingOk
  <1>3. ASSUME NEW d \in Clients, d # c PROVE StreamOk(stream[d])'
    <2>1. StreamOk(stream[d]) /\ stream'[d] = stream[d]
      BY <1>3 DEF SInv
    <2> QED
      BY <1>1, <2>1, StreamQuiet
  <1> QED
    BY <1>2, <1>3 DEF SInv

\* Every step of the registry keeps the rings and the streams.
LEMMA StreamsStep == Inv /\ SInv /\ [Next]_vars => SInv'
  <1> SUFFICES ASSUME Inv, SInv, [Next]_vars PROVE SInv'
    OBVIOUS
  <1>0. TypeOK /\ LiveJobsRetained /\ admitted \in Nat /\ JobIds \subseteq Nat
    BY BoundsAssumption DEF Inv, TypeOK, JobIds
  <1>1. ASSUME NEW t \in JobTypes, NEW w \in Workspaces, TryAcquire(t, w)
        PROVE  SInv'
    <2> DEFINE id == admitted + 1
    <2>1. /\ admitted' = id /\ id \in JobIds /\ admitted <= id /\ id \in Nat
          /\ lastSeq' = lastSeq /\ ring' = ring /\ stream' = stream
          /\ state' = [state EXCEPT ![id] = "Running"]
          /\ retained' \subseteq retained \cup {id}
      <3>1. admitted < MaxJobs
        BY <1>1 DEF TryAcquire
      <3>2. id \in JobIds
        BY <1>0, <3>1, BoundsAssumption DEF JobIds
      <3>3. ActiveJobs \cup {id} \subseteq retained \cup {id}
        BY DEF ActiveJobs, Active
      <3>4. Prune(retained \cup {id}, ActiveJobs \cup {id}) \subseteq retained \cup {id}
        BY <3>3, PruneFacts
      <3>5. /\ admitted' = id /\ lastSeq' = lastSeq /\ ring' = ring
            /\ stream' = stream /\ state' = [state EXCEPT ![id] = "Running"]
            /\ retained' = Prune(retained \cup {id}, ActiveJobs \cup {id})
        BY <1>1 DEF TryAcquire
      <3>6. admitted <= id /\ id \in Nat
        BY <1>0
      <3> QED
        BY <3>2, <3>4, <3>5, <3>6
    <2>2. state'[id] = "Running" /\ \A k \in JobIds : k # id => state'[k] = state[k]
      BY <1>0, <2>1 DEF TypeOK
    <2>3. ASSUME NEW k \in JobIds PROVE RingOk(k)'
      <3>1. CASE k = id
        <4>1. lastSeq[k] = 0 /\ RingOk(k) /\ k \in Nat /\ k \in JobIds /\ k > admitted
          BY <1>0, <2>1, <3>1 DEF SInv, RingOk
        <4>2. ring[k] \in Seq(EventType) /\ Len(ring[k]) \in Nat /\ Len(ring[k]) <= 0
          BY <1>0, <4>1, LenProperties DEF RingOk, TypeOK
        <4>3. /\ state'[k] = "Running" /\ lastSeq'[k] = 0 /\ Len(ring'[k]) = 0
              /\ ~(k > admitted')
          BY <1>0, <2>1, <2>2, <3>1, <4>1, <4>2
        <4> QED
          BY <4>3 DEF RingOk
      <3>2. CASE k # id
        <4>1. /\ state'[k] = state[k] /\ lastSeq' = lastSeq /\ ring' = ring
          BY <2>1, <2>2, <3>2
        <4>2. /\ k > admitted' => k > admitted
              /\ k <= admitted' => k <= admitted
          BY <1>0, <2>1, <3>2
        <4> QED
          BY <4>1, <4>2 DEF SInv, RingOk
      <3> QED
        BY <3>1, <3>2
    <2>4. ASSUME NEW c \in Clients PROVE StreamOk(stream[c])'
      <3>1. \A k \in 1..admitted : k \in JobIds /\ k # id
        <4>1. admitted \in Nat /\ MaxJobs \in Nat /\ admitted <= MaxJobs
          BY <1>0, BoundsAssumption DEF TypeOK
        <4> QED
          BY <4>1 DEF JobIds
      <3>2. \A k \in 1..admitted : /\ state'[k] = state[k]
                                   /\ lastSeq'[k] = lastSeq[k]
                                   /\ k \in retained' => k \in retained
        BY <2>1, <2>2, <3>1
      <3>3. StreamOk(stream[c]) /\ stream'[c] = stream[c]
        BY <2>1 DEF SInv
      <3> QED
        BY <1>0, <2>1, <3>2, <3>3, StreamQuiet
    <2> QED
      BY <2>3, <2>4 DEF SInv
  <1>2. ASSUME UNCHANGED <<jobVars, stream>> PROVE SInv'
    <2>1. /\ admitted' = admitted /\ state' = state /\ lastSeq' = lastSeq
          /\ retained' = retained /\ ring' = ring /\ stream' = stream
      BY <1>2 DEF jobVars
    <2>2. ASSUME NEW k \in JobIds PROVE RingOk(k)'
      BY <2>1 DEF SInv, RingOk
    <2>3. ASSUME NEW c \in Clients PROVE StreamOk(stream[c])'
      <3>1. StreamOk(stream[c]) /\ stream'[c] = stream[c]
        BY <2>1 DEF SInv
      <3> QED
        BY <1>0, <2>1, <3>1, StreamQuiet
    <2> QED
      BY <2>2, <2>3 DEF SInv
  <1>3. ASSUME NEW j \in JobIds, JobNext(j) PROVE SInv'
    <2>1. Active(j)
      BY <1>0, <1>3 DEF JobNext, Report, FailLog, Finish, LiveJobsRetained
    <2>2. CASE Report(j) \/ FailLog(j)
      <3>1. /\ Emit(j, FALSE) /\ admitted' = admitted /\ retained' = retained
            /\ state' = state
        BY <2>2 DEF Report, FailLog
      <3> QED
        BY <1>0, <2>1, <3>1, EmitKeepsStreams
    <2>3. CASE Finish(j)
      <3>1. /\ Emit(j, TRUE) /\ admitted' = admitted
            /\ state' = [state EXCEPT ![j] = "Terminal"]
            /\ retained' = Prune(retained, ActiveJobs \ {j})
        BY <2>3 DEF Finish, Terminate
      <3>2. ActiveJobs \ {j} \subseteq retained
        BY DEF ActiveJobs, Active
      <3>3. retained' \subseteq retained
        BY <3>1, <3>2, PruneFacts
      <3> QED
        BY <1>0, <2>1, <3>1, <3>3, EmitKeepsStreams
    <2> QED
      BY <1>3, <2>2, <2>3 DEF JobNext
  <1>4. ASSUME NEW c \in Clients,
               \/ \E j \in JobIds, after \in 0..(MaxEvents + 3) : Gate(c, j, after)
               \/ StreamStep(c)
               \/ Disconnect(c)
        PROVE  SInv'
    <2>1. /\ UNCHANGED jobVars
          /\ \A d \in Clients : d # c => stream'[d] = stream[d]
      BY <1>0, <1>4 DEF Gate, StreamStep, Disconnect, Subscribe, StreamReplay,
                        StreamClose, StreamRecv, TypeOK
    <2>2. StreamOk(stream[c])'
      <3>1. ASSUME NEW j \in JobIds, NEW after \in 0..(MaxEvents + 3),
                   Gate(c, j, after)
            PROVE  StreamOk(stream[c])'
        <4>1. CASE j \in retained
          <5>1. /\ stream'[c] = [NoStream EXCEPT !.pc = "gated", !.job = j,
                                                 !.after = after]
                /\ j \in 1..admitted' /\ j \in Nat /\ after \in Nat
            <6>1. stream'[c] = [NoStream EXCEPT !.pc = "gated", !.job = j,
                                                !.after = after]
              BY <1>0, <3>1, <4>1 DEF Gate, TypeOK
            <6>2. j \in 1..admitted' /\ j \in Nat
              BY <1>0, <2>1, <4>1 DEF TypeOK, jobVars
            <6>3. after \in Nat
              BY BoundsAssumption
            <6> QED
              BY <6>1, <6>2, <6>3
          <5>2. LET t == stream'[c]
                IN  /\ t \in StreamType /\ t.pc = "gated" /\ t.job = j
                    /\ t.got = <<>> /\ t.replay = <<>> /\ t.live = <<>>
                    /\ ~t.known /\ ~t.lagged /\ ~t.terminalSeen
            <6> DEFINE v == [NoStream EXCEPT !.pc = "gated", !.job = j, !.after = after]
            <6>1. /\ v \in StreamType /\ v.pc = "gated" /\ v.job = j
                  /\ v.got = <<>> /\ v.replay = <<>> /\ v.live = <<>>
                  /\ ~v.known /\ ~v.lagged /\ ~v.terminalSeen
              BY <5>1, GatedFacts, Zenon
            <6>2. stream'[c] = v
              BY <5>1
            <6> HIDE DEF v
            <6> QED
              BY <6>1, <6>2
          <5> QED
            BY <5>1, <5>2 DEF StreamOk, Contiguous
        <4>2. CASE j \notin retained
          <5>1. stream'[c] = [NoStream EXCEPT !.pc = "missing"]
            BY <1>0, <3>1, <4>2 DEF Gate, TypeOK
          <5>2. "missing" \in StreamPcs
            BY DEF StreamPcs
          <5>3. stream'[c] \in StreamType /\ stream'[c].pc = "missing"
                /\ stream'[c].got = <<>>
            BY <5>1, <5>2, NoStreamFacts
          <5> QED
            BY <5>3 DEF StreamOk, Contiguous
        <4> QED
          BY <4>1, <4>2
      <3>2. ASSUME Disconnect(c) PROVE StreamOk(stream[c])'
        <4>1. stream'[c] = [NoStream EXCEPT !.pc = "gone"]
          BY <1>0, <3>2 DEF Disconnect, TypeOK
        <4>2. "gone" \in StreamPcs
          BY DEF StreamPcs
        <4>3. stream'[c] \in StreamType /\ stream'[c].pc = "gone"
              /\ stream'[c].got = <<>>
          BY <4>1, <4>2, NoStreamFacts
        <4> QED
          BY <4>3 DEF StreamOk, Contiguous
      <3>3. ASSUME StreamStep(c) PROVE StreamOk(stream[c])'
        BY <1>0, <3>3, SubscribeStep, ReplayStep, CloseStep, RecvStep DEF StreamStep
      <3> QED
        BY <1>4, <3>1, <3>2, <3>3
    <2> QED
      BY <1>0, <2>1, <2>2, OneStream
  <1> QED
    <2>1. CASE UNCHANGED vars
      BY <1>2, <2>1 DEF vars, jobVars
    <2>2. CASE \E w \in Workspaces : TryAcquireLease(w) \/ ReleaseLease(w)
      BY <1>2, <2>2 DEF TryAcquireLease, ReleaseLease
    <2> QED
      BY <1>1, <1>3, <1>4, <2>1, <2>2 DEF Next

\* The rings and streams stay well formed in every behaviour.
THEOREM StreamInvariance == Spec => [](Inv /\ SInv)
  <1>1. Init => Inv /\ SInv
    BY InitInv, InitStreams
  <1>2. Inv /\ SInv /\ [Next]_vars => Inv' /\ SInv'
    BY StreamsStep, TypeStep, LiveStep, ExclusiveStep, SlotStep DEF Inv
  <1> QED
    BY <1>1, <1>2, PTL DEF Spec

\* For every ring size, channel capacity and number of clients, a stream has
\* neither a hole nor a repetition across the seam between the ring that
\* subscribe_events replays and the broadcast channel that recv reads.
THEOREM NoStreamGap == Spec => []StreamContiguous
  <1>1. Inv /\ SInv => StreamContiguous
    BY DEF SInv, StreamOk, Contiguous, StreamContiguous
  <1> QED
    BY StreamInvariance, <1>1, PTL

\* A stream that the handler closes by itself has delivered the terminal event
\* of its job, now or before the cursor.
THEOREM CleanClose == Spec => []CleanCloseIsComplete
  <1>1. Inv /\ SInv => CleanCloseIsComplete
    BY DEF SInv, StreamOk, Complete, CleanCloseIsComplete
  <1> QED
    BY StreamInvariance, <1>1, PTL

============================================================================
