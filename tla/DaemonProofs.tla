---------------------------- MODULE DaemonProofs ----------------------------
(***************************************************************************)
(* Proofs about the process: the user configuration of ConfigReload, for   *)
(* any set of clients, catalogues, settings and bounds, then the boot, the *)
(* watchdog and the health entry of Daemon, for any launch files,          *)
(* thresholds and budgets.  The two share no variable.                     *)
(***************************************************************************)
EXTENDS ConfigReload, Daemon, FiniteSetTheorems, TLAPS

----------------------------------------------------------------------------
\* The user configuration.

Writing == {"write", "sync", "store", "after"}
Reloading == {"callback", "inference", "store"}

\* A request that passed the checks of Post.
RequestOk(r) ==
    /\ r.mic # Keep => r.mic \in Mics
    /\ r.hop # Keep => r.hop \in Hops /\ r.hop \in MIN_HOP_SAMPLES .. MAX_HOP_SAMPLES
    /\ r.topk # Keep => r.topk \in TopKs /\ r.topk \in 1 .. MAX_TOP_K

\* What is about to be written or stored is a whole configuration.
Shape ==
    /\ disk \in may
    /\ \A c \in Clients : pc[c] # "idle" => RequestOk(req[c])
    /\ \A c \in Clients : pc[c] \in Writing => work[c] \in Config
    /\ wpc \in Reloading => found \in Config

\* mutate_lock: a guard is held from open_mutation to the answer, and by the
\* worker from the read to the store.
LockOk ==
    /\ \A c \in Clients : pc[c] \in Writing <=> lock = c
    /\ wpc \in Reloading <=> lock = Worker
    /\ ~up => lock = Nobody
    /\ loaded => ~up

\* An acknowledged update of field f is on record.
Known(f) == acked[f] # Keep

\* Whatever a power loss leaves has it.
Durable(f) == \A x \in may : x # Broken /\ x[f] = acked[f]

AllDurable == \A f \in Fields : Known(f) => Durable(f)
InnerOk == up \/ loaded => \A f \in Fields : Known(f) => inner[f] = acked[f]

\* A request in its critical section writes the snapshot with its own fields
\* on top; the fields it leaves out stay as acknowledged, everywhere.
ClientOk(c) ==
    /\ pc[c] \in {"write", "sync", "store"} =>
          work[c] = Merge(req[c], inner) /\ InnerOk
    /\ pc[c] = "write" => AllDurable
    /\ pc[c] \in {"sync", "store", "after"} =>
          \A f \in Fields : Known(f) /\ req[c][f] = Keep => Durable(f)
    /\ pc[c] = "sync" /\ ~saved => disk = work[c]
    /\ pc[c] \in {"store", "after"} /\ ~saved => may = {work[c]}
    /\ pc[c] = "after" =>
          /\ inner = work[c]
          /\ \A f \in Fields : req[c][f] # Keep => work[c][f] = req[c][f]
          /\ \A f \in Fields : Known(f) /\ req[c][f] = Keep => inner[f] = acked[f]

\* With no request in its critical section, snapshot and file agree with
\* what was acknowledged.
QuietOk == lock \in {Nobody, Worker} => InnerOk /\ AllDurable

\* What the worker has read agrees with it too.
WorkerOk ==
    wpc \in Reloading => \A f \in Fields : Known(f) => found[f] = acked[f]

\* An operator's save is the end of what was acknowledged before.
SavedOk == saved => \A f \in Fields : ~Known(f)

\* The inductive invariant.
Inv ==
    /\ TypeOK
    /\ Shape
    /\ LockOk
    /\ \A c \in Clients : ClientOk(c)
    /\ QuietOk
    /\ WorkerOk
    /\ SavedOk

\* The mutator, field by field.
LEMMA MergeFacts ==
  ASSUME NEW r, NEW cfg, NEW f \in Fields
  PROVE  Merge(r, cfg)[f] = IF r[f] = Keep THEN cfg[f] ELSE r[f]
  BY DEF Merge, Fields

\* The fields of a valid request over a configuration are a configuration.
LEMMA MergeType ==
  ASSUME NEW r, RequestOk(r), NEW cfg \in Config
  PROVE  Merge(r, cfg) \in Config
  BY DEF Merge, RequestOk, Config, InferenceOk

\* What a request carries, field by field.
LEMMA RequestFields ==
  ASSUME NEW r \in Requests \cup {NoRequest}, NEW f \in Fields
  PROVE  r[f] \in Mics \cup Hops \cup TopKs \cup {Keep}
  BY DEF Requests, NoRequest, Fields

\* A booting daemon with nothing acknowledged yet satisfies the invariant.
LEMMA InitInv == Init => Inv
  <1> SUFFICES ASSUME Init PROVE Inv
    OBVIOUS
  <1>1. /\ \A f \in Fields : ~Known(f)
        /\ \A c \in Clients : pc[c] = "idle"
    BY DEF Init, Known, NoRequest
  <1>0. disk \in Config
    BY UsableAssumption DEF Init
  <1>2. TypeOK
    <2>1. BootMic(disk) \in Mics /\ Inference(disk) \in [hop : Hops, topk : TopKs]
      BY <1>0 DEF Config, BootMic, Inference, Mics
    <2>2. 0 \in 0..MaxPosts /\ 0 \in 0..MaxEdits /\ 0 \in 0..MaxFaults /\ 0 \in 0..MaxCrashes
      BY ConfigAssumption
    <2>3. NoRequest \in [Fields -> Mics \cup Hops \cup TopKs \cup {Keep}]
      BY DEF NoRequest
    <2>4. /\ pc \in [Clients -> {"idle", "lock", "write", "sync", "store", "after"}]
          /\ req \in [Clients -> Requests \cup {NoRequest}]
          /\ work \in [Clients -> Config \cup {NoRequest}]
      BY DEF Init
    <2> QED
      BY <1>0, <2>1, <2>2, <2>3, <2>4 DEF Init, TypeOK
  <1>4. Shape
    BY <1>1 DEF Init, Shape, Writing, Reloading
  <1>3. LockOk
    BY <1>1, ConfigAssumption DEF Init, LockOk, Writing, Reloading
  <1> QED
    BY <1>1, <1>2, <1>3, <1>4
       DEF Inv, ClientOk, QuietOk, WorkerOk, SavedOk, InnerOk, AllDurable

\* Every step keeps the types.
LEMMA TypeStep == Inv /\ [Next]_vars => TypeOK'
  <1> SUFFICES ASSUME Inv, [Next]_vars PROVE TypeOK'
    OBVIOUS
  <1> USE ConfigAssumption
      DEF Inv, TypeOK, Shape, LockOk, Writing, Reloading, clientVars, live,
          watcher, life, bounds
  <1>1. ASSUME NEW c \in Clients, \E r \in Requests : Post(c, r) PROVE TypeOK'
    BY <1>1 DEF Post
  <1>2. ASSUME NEW c \in Clients, Mutate(c) PROVE TypeOK'
    <2>1. RequestOk(req[c])
      BY <1>2 DEF Mutate, OpenMutation
    <2>2. Merge(req[c], inner) \in Config
      BY <2>1, MergeType
    <2> QED
      BY <1>2, <2>2 DEF Mutate, OpenMutation
  <1>3. ASSUME NEW c \in Clients, WriteToml(c) PROVE TypeOK'
    BY <1>3, ZenonT(60) DEF WriteToml
  <1>4. ASSUME NEW c \in Clients, SyncToml(c) PROVE TypeOK'
    BY <1>4 DEF SyncToml
  <1>5. ASSUME NEW c \in Clients, WriteFails(c) PROVE TypeOK'
    BY <1>5 DEF WriteFails, Answer, Forget
  <1>6. ASSUME NEW c \in Clients, StoreInner(c) PROVE TypeOK'
    BY <1>6 DEF StoreInner
  <1>7. ASSUME NEW c \in Clients, AfterHook(c) PROVE TypeOK'
    <2>1. /\ pc' = [pc EXCEPT ![c] = "idle"] /\ req' = [req EXCEPT ![c] = NoRequest]
          /\ work' = [work EXCEPT ![c] = NoRequest] /\ lock' = Nobody
          /\ UNCHANGED <<life, disk, may, inner, saved, watcher, bounds>>
          /\ pc[c] = "after"
      BY <1>7 DEF AfterHook, Answer
    <2>2. RequestOk(req[c]) /\ work[c] \in Config
      BY <2>1
    <2>3. liveMic' \in Mics /\ liveInf' \in [hop : Hops, topk : TopKs]
      BY <1>7, <2>2 DEF AfterHook, RequestOk, Inference, Config
    <2>4. acked' \in [Fields -> Mics \cup Hops \cup TopKs \cup {Keep}]
      <3>1. acked' = [f \in Fields |->
                        IF saved \/ req[c][f] = Keep THEN acked[f] ELSE req[c][f]]
        BY <1>7 DEF AfterHook
      <3>2. \A f \in Fields : req[c][f] \in Mics \cup Hops \cup TopKs \cup {Keep}
        BY RequestFields
      <3> QED
        BY <3>1, <3>2
    <2> QED
      BY <2>1, <2>3, <2>4
  <1>8. ASSUME NEW x \in Config \cup {Broken}, OperatorEdit(x) PROVE TypeOK'
    BY <1>8 DEF OperatorEdit, NoRequest
  <1>9. CASE Notify
    BY <1>9, ZenonT(60) DEF Notify
  <1>18. CASE NotifyLost \/ ReloadReadFails
    <2>1. faults' \in 0..MaxFaults /\ missed' = TRUE
      BY <1>18 DEF NotifyLost, ReloadReadFails
    <2>2. event' \in BOOLEAN /\ wpc' \in {wpc, "idle"}
      BY <1>18 DEF NotifyLost, ReloadReadFails
    <2>3. UNCHANGED <<life, disk, may, inner, live, lock, clientVars, kicked, found,
                      acked, posts, edits, crashes>>
      BY <1>18 DEF NotifyLost, ReloadReadFails
    <2> QED
      BY <2>1, <2>2, <2>3
  <1>10. CASE Debounce \/ Settled
    BY <1>10, ZenonT(60) DEF Debounce, Settled
  <1>11. CASE ReloadRead
    BY <1>11 DEF ReloadRead
  <1>12. CASE CallbackRejects
    BY <1>12 DEF CallbackRejects
  <1>13. CASE CallbackMic \/ CallbackInference
    <2>1. found \in Config
      BY <1>13 DEF CallbackMic, CallbackInference
    <2>2. liveMic' \in Mics /\ liveInf' \in [hop : Hops, topk : TopKs]
      BY <1>13, <2>1 DEF CallbackMic, CallbackInference, Inference, Config
    <2>3. wpc' \in {"inference", "store"}
      BY <1>13 DEF CallbackMic, CallbackInference
    <2>4. UNCHANGED <<life, disk, may, inner, lock, clientVars, found, event, kicked,
                      missed, acked, bounds>>
      BY <1>13 DEF CallbackMic, CallbackInference
    <2> QED
      BY <2>2, <2>3, <2>4
  <1>14. CASE ReloadStore
    BY <1>14 DEF ReloadStore
  <1>15. CASE Crash
    <2>1. /\ crashes' \in 0..MaxCrashes /\ up' = FALSE /\ loaded' = FALSE /\ lock' = Nobody
          /\ saved' = FALSE /\ missed' = FALSE
          /\ event' = FALSE /\ kicked' = FALSE /\ wpc' = "idle" /\ found' = NoRequest
          /\ UNCHANGED <<mock, inner, live, posts, edits, faults>>
      BY <1>15 DEF Crash
    <2>2. /\ pc' \in [Clients -> {"idle", "lock", "write", "sync", "store", "after"}]
          /\ req' \in [Clients -> Requests \cup {NoRequest}]
          /\ work' \in [Clients -> Config \cup {NoRequest}]
      BY <1>15 DEF Crash
    <2>3. disk' \in Config \cup {Broken} /\ may' \in SUBSET (Config \cup {Broken})
      BY <1>15 DEF Crash
    <2>4. acked' \in [Fields -> Mics \cup Hops \cup TopKs \cup {Keep}]
      BY <1>15 DEF Crash
    <2> QED
      BY <2>1, <2>2, <2>3, <2>4
  <1>19. CASE BootWatch
    BY <1>19, ZenonT(60) DEF BootWatch
  <1>16. CASE BootLoad
    <2>1. disk \in Config
      BY <1>16 DEF BootLoad
    <2>2. BootMic(disk) \in Mics /\ Inference(disk) \in [hop : Hops, topk : TopKs]
      BY <2>1 DEF BootMic, Inference, Config, Mics
    <2> QED
      BY <1>16, <2>1, <2>2 DEF BootLoad
  <1>17. CASE UNCHANGED vars
    BY <1>17 DEF vars
  <1> QED
    BY <1>1, <1>2, <1>3, <1>4, <1>5, <1>6, <1>7, <1>8, <1>9, <1>10, <1>11,
       <1>12, <1>13, <1>14, <1>15, <1>16, <1>17, <1>18,
       <1>19 DEF Next, Client, Reload

\* Every step reads and writes whole configurations.
LEMMA ShapeStep == Inv /\ [Next]_vars => Shape'
  <1> SUFFICES ASSUME Inv, [Next]_vars PROVE Shape'
    OBVIOUS
  <1> USE ConfigAssumption
      DEF Inv, TypeOK, Shape, LockOk, Writing, Reloading, clientVars, live,
          watcher, life, bounds
  <1>1. ASSUME NEW c \in Clients, \E r \in Requests : Post(c, r) PROVE Shape'
    <2>1. PICK r \in Requests : Post(c, r)
      BY <1>1
    <2>2. RequestOk(r)
      BY <2>1 DEF Post, Requests, InferenceOk, RequestOk, Mics, Catalogue
    <2>3. /\ pc' = [pc EXCEPT ![c] = "lock"] /\ req' = [req EXCEPT ![c] = r]
          /\ UNCHANGED <<disk, may, work, wpc, found>>
      BY <2>1 DEF Post
    <2> QED
      BY <2>2, <2>3
  <1>2. ASSUME NEW c \in Clients, Mutate(c) PROVE Shape'
    <2>1. RequestOk(req[c])
      BY <1>2 DEF Mutate, OpenMutation
    <2>2. Merge(req[c], inner) \in Config
      BY <2>1, MergeType
    <2> QED
      BY <1>2, <2>2 DEF Mutate, OpenMutation
  <1>3. ASSUME NEW c \in Clients, WriteToml(c) PROVE Shape'
    BY <1>3 DEF WriteToml
  <1>4. ASSUME NEW c \in Clients, SyncToml(c) PROVE Shape'
    BY <1>4 DEF SyncToml
  <1>5. ASSUME NEW c \in Clients, WriteFails(c) PROVE Shape'
    BY <1>5 DEF WriteFails, Answer, Forget
  <1>6. ASSUME NEW c \in Clients, StoreInner(c) PROVE Shape'
    BY <1>6 DEF StoreInner
  <1>7. ASSUME NEW c \in Clients, AfterHook(c) PROVE Shape'
    BY <1>7 DEF AfterHook, Answer
  <1>8. ASSUME NEW x \in Config \cup {Broken}, OperatorEdit(x) PROVE Shape'
    BY <1>8 DEF OperatorEdit, NoRequest
  <1>9. CASE Notify \/ NotifyLost
    BY <1>9 DEF Notify, NotifyLost
  <1>10. CASE Debounce \/ Settled
    BY <1>10 DEF Debounce, Settled
  <1>11. CASE ReloadRead \/ ReloadReadFails
    BY <1>11 DEF ReloadRead, ReloadReadFails
  <1>12. CASE CallbackRejects
    BY <1>12 DEF CallbackRejects
  <1>13. CASE CallbackMic \/ CallbackInference
    BY <1>13 DEF CallbackMic, CallbackInference
  <1>14. CASE ReloadStore
    BY <1>14 DEF ReloadStore
  <1>15. CASE Crash
    BY <1>15 DEF Crash
  <1>16. CASE BootLoad \/ BootWatch
    BY <1>16 DEF BootLoad, BootWatch
  <1>17. CASE UNCHANGED vars
    BY <1>17 DEF vars
  <1> QED
    BY <1>1, <1>2, <1>3, <1>4, <1>5, <1>6, <1>7, <1>8, <1>9, <1>10, <1>11,
       <1>12, <1>13, <1>14, <1>15, <1>16, <1>17
       DEF Next, Client, Reload

\* Every step keeps the lock discipline.
LEMMA LockStep == Inv /\ [Next]_vars => LockOk'
  <1> SUFFICES ASSUME Inv, [Next]_vars PROVE LockOk'
    OBVIOUS
  <1> USE ConfigAssumption
      DEF Inv, TypeOK, Shape, LockOk, Writing, Reloading, clientVars, live,
          watcher, life, bounds
  <1>1. ASSUME NEW c \in Clients, \E r \in Requests : Post(c, r) PROVE LockOk'
    BY <1>1 DEF Post
  <1>2. ASSUME NEW c \in Clients, Mutate(c) PROVE LockOk'
    BY <1>2 DEF Mutate, OpenMutation
  <1>3. ASSUME NEW c \in Clients, WriteToml(c) PROVE LockOk'
    BY <1>3 DEF WriteToml
  <1>4. ASSUME NEW c \in Clients, SyncToml(c) PROVE LockOk'
    BY <1>4 DEF SyncToml
  <1>5. ASSUME NEW c \in Clients, WriteFails(c) PROVE LockOk'
    BY <1>5 DEF WriteFails, Answer, Forget
  <1>6. ASSUME NEW c \in Clients, StoreInner(c) PROVE LockOk'
    BY <1>6 DEF StoreInner
  <1>7. ASSUME NEW c \in Clients, AfterHook(c) PROVE LockOk'
    BY <1>7 DEF AfterHook, Answer
  <1>8. ASSUME NEW x \in Config \cup {Broken}, OperatorEdit(x) PROVE LockOk'
    BY <1>8 DEF OperatorEdit, NoRequest
  <1>9. CASE Notify \/ NotifyLost
    BY <1>9 DEF Notify, NotifyLost
  <1>10. CASE Debounce \/ Settled
    BY <1>10 DEF Debounce, Settled
  <1>11. CASE ReloadRead \/ ReloadReadFails
    BY <1>11 DEF ReloadRead, ReloadReadFails
  <1>12. CASE CallbackRejects
    BY <1>12 DEF CallbackRejects
  <1>13. CASE CallbackMic \/ CallbackInference
    BY <1>13 DEF CallbackMic, CallbackInference
  <1>14. CASE ReloadStore
    BY <1>14 DEF ReloadStore
  <1>15. CASE Crash
    BY <1>15 DEF Crash
  <1>16. CASE BootLoad \/ BootWatch
    BY <1>16 DEF BootLoad, BootWatch
  <1>17. CASE UNCHANGED vars
    BY <1>17 DEF vars
  <1> QED
    BY <1>1, <1>2, <1>3, <1>4, <1>5, <1>6, <1>7, <1>8, <1>9, <1>10, <1>11,
       <1>12, <1>13, <1>14, <1>15, <1>16, <1>17
       DEF Next, Client, Reload

\* Every step keeps what a request in its critical section relies on.
LEMMA ClientStep == Inv /\ [Next]_vars => (\A d \in Clients : ClientOk(d)')
  <1> SUFFICES ASSUME Inv, [Next]_vars, NEW d \in Clients PROVE ClientOk(d)'
    OBVIOUS
  <1> USE ConfigAssumption
      DEF Inv, TypeOK, Shape, LockOk, ClientOk, QuietOk, SavedOk, Known,
          Durable, AllDurable, InnerOk, Writing, Reloading,
          clientVars, live, watcher, life, bounds
  <1>1. ASSUME NEW c \in Clients, \E r \in Requests : Post(c, r) PROVE ClientOk(d)'
    BY <1>1 DEF Post
  <1>2. ASSUME NEW c \in Clients, Mutate(c) PROVE ClientOk(d)'
    BY <1>2 DEF Mutate, OpenMutation
  <1>3. ASSUME NEW c \in Clients, WriteToml(c) PROVE ClientOk(d)'
    <2>1. /\ pc[c] = "write" /\ up /\ lock = c
          /\ may' = may \cup {work[c]} /\ disk' = work[c] /\ saved' = FALSE
          /\ pc' = [pc EXCEPT ![c] = "sync"]
          /\ UNCHANGED <<up, inner, req, work, acked>>
      BY <1>3 DEF WriteToml
    <2>2. ASSUME d # c PROVE ClientOk(d)'
      BY <2>1, <2>2
    <2>3. \A f \in Fields : Known(f) /\ req[c][f] = Keep => work[c][f] = acked[f]
      BY <2>1, MergeFacts
    <2>4. work[c] # Broken
      BY <2>1, UsableAssumption
    <2>5. \A f \in Fields : Known(f) /\ req[c][f] = Keep =>
            \A x \in may' : x # Broken /\ x[f] = acked[f]
      BY <2>1, <2>3, <2>4
    <2>6. ClientOk(c)'
      BY <2>1, <2>5
    <2> QED
      BY <2>2, <2>6
  <1>4. ASSUME NEW c \in Clients, SyncToml(c) PROVE ClientOk(d)'
    BY <1>4 DEF SyncToml
  <1>5. ASSUME NEW c \in Clients, WriteFails(c) PROVE ClientOk(d)'
    BY <1>5 DEF WriteFails, Answer, Forget
  <1>6. ASSUME NEW c \in Clients, StoreInner(c) PROVE ClientOk(d)'
    <2>1. /\ pc[c] = "store" /\ up /\ lock = c /\ inner' = work[c]
          /\ pc' = [pc EXCEPT ![c] = "after"]
          /\ UNCHANGED <<up, disk, may, req, work, saved, acked>>
      BY <1>6 DEF StoreInner
    <2>2. ASSUME d # c PROVE ClientOk(d)'
      BY <2>1, <2>2
    <2>3. \A f \in Fields :
            /\ req[c][f] # Keep => work[c][f] = req[c][f]
            /\ Known(f) /\ req[c][f] = Keep => work[c][f] = acked[f]
      BY <2>1, MergeFacts
    <2>4. ClientOk(c)'
      BY <2>1, <2>3
    <2> QED
      BY <2>2, <2>4
  <1>7. ASSUME NEW c \in Clients, AfterHook(c) PROVE ClientOk(d)'
    BY <1>7 DEF AfterHook, Answer
  <1>8. ASSUME NEW x \in Config \cup {Broken}, OperatorEdit(x) PROVE ClientOk(d)'
    BY <1>8 DEF OperatorEdit, NoRequest
  <1>9. CASE Notify \/ NotifyLost
    BY <1>9 DEF Notify, NotifyLost
  <1>10. CASE Debounce \/ Settled
    BY <1>10 DEF Debounce, Settled
  <1>11. CASE ReloadRead \/ ReloadReadFails
    BY <1>11 DEF ReloadRead, ReloadReadFails
  <1>12. CASE CallbackRejects
    BY <1>12 DEF CallbackRejects
  <1>13. CASE CallbackMic \/ CallbackInference
    BY <1>13 DEF CallbackMic, CallbackInference
  <1>14. CASE ReloadStore
    BY <1>14 DEF ReloadStore
  <1>15. CASE Crash
    BY <1>15 DEF Crash
  <1>16. CASE BootLoad \/ BootWatch
    BY <1>16 DEF BootLoad, BootWatch
  <1>17. CASE UNCHANGED vars
    BY <1>17 DEF vars
  <1> QED
    BY <1>1, <1>2, <1>3, <1>4, <1>5, <1>6, <1>7, <1>8, <1>9, <1>10, <1>11,
       <1>12, <1>13, <1>14, <1>15, <1>16, <1>17
       DEF Next, Client, Reload

\* Every step leaves the acknowledged fields where they are when it unlocks.
LEMMA QuietStep == Inv /\ [Next]_vars => QuietOk'
  <1> SUFFICES ASSUME Inv, [Next]_vars PROVE QuietOk'
    OBVIOUS
  <1> USE ConfigAssumption
      DEF Inv, TypeOK, Shape, LockOk, ClientOk, QuietOk, WorkerOk, SavedOk,
          Known, Durable, AllDurable, InnerOk, Writing, Reloading,
          clientVars, live, watcher, life, bounds
  <1>1. ASSUME NEW c \in Clients, \E r \in Requests : Post(c, r) PROVE QuietOk'
    BY <1>1 DEF Post
  <1>2. ASSUME NEW c \in Clients, Mutate(c) PROVE QuietOk'
    BY <1>2 DEF Mutate, OpenMutation
  <1>3. ASSUME NEW c \in Clients, WriteToml(c) PROVE QuietOk'
    BY <1>3 DEF WriteToml
  <1>4. ASSUME NEW c \in Clients, SyncToml(c) PROVE QuietOk'
    BY <1>4 DEF SyncToml
  <1>5. ASSUME NEW c \in Clients, WriteFails(c) PROVE QuietOk'
    BY <1>5 DEF WriteFails, Answer, Forget
  <1>6. ASSUME NEW c \in Clients, StoreInner(c) PROVE QuietOk'
    BY <1>6 DEF StoreInner
  <1>7. ASSUME NEW c \in Clients, AfterHook(c) PROVE QuietOk'
    <2>1. /\ pc[c] = "after" /\ up
          /\ acked' = [f \in Fields |->
                         IF saved \/ req[c][f] = Keep THEN acked[f] ELSE req[c][f]]
          /\ UNCHANGED <<up, disk, may, inner, saved>>
      BY <1>7 DEF AfterHook
    <2>2. CASE saved
      BY <2>1, <2>2
    <2>3. CASE ~saved
      <3>1. inner = work[c] /\ may = {work[c]} /\ work[c] # Broken
        BY <2>1, <2>3, UsableAssumption
      <3>2. ASSUME NEW f \in Fields, acked'[f] # Keep
            PROVE  inner[f] = acked'[f]
        BY <2>1, <2>3, <3>2
      <3> QED
        BY <2>1, <3>1, <3>2
    <2> QED
      BY <2>2, <2>3
  <1>8. ASSUME NEW x \in Config \cup {Broken}, OperatorEdit(x) PROVE QuietOk'
    BY <1>8 DEF OperatorEdit, NoRequest
  <1>9. CASE Notify \/ NotifyLost
    BY <1>9 DEF Notify, NotifyLost
  <1>10. CASE Debounce \/ Settled
    BY <1>10 DEF Debounce, Settled
  <1>11. CASE ReloadRead \/ ReloadReadFails
    BY <1>11 DEF ReloadRead, ReloadReadFails
  <1>12. CASE CallbackRejects
    BY <1>12 DEF CallbackRejects
  <1>13. CASE CallbackMic \/ CallbackInference
    BY <1>13 DEF CallbackMic, CallbackInference
  <1>14. CASE ReloadStore
    BY <1>14 DEF ReloadStore
  <1>15. CASE Crash
    <2>1. up' = FALSE /\ loaded' = FALSE /\ disk' \in may /\ may' = {disk'}
      BY <1>15 DEF Crash
    <2>2. ASSUME NEW f \in Fields, acked'[f] # Keep
          PROVE  disk' # Broken /\ disk'[f] = acked'[f]
      <3>1. /\ acked'[f] = acked[f]
            /\ \A c \in Clients : pc[c] \in {"sync", "store", "after"} => req[c][f] = Keep
        BY <1>15, <2>2 DEF Crash, InFlight
      <3>2. CASE lock \in {Nobody, Worker}
        BY <2>1, <2>2, <3>1, <3>2
      <3>3. CASE lock \in Clients
        <4>1. pc[lock] \in Writing
          BY <3>3
        <4> QED
          BY <2>1, <2>2, <3>1, <3>3, <4>1
      <3> QED
        BY <3>2, <3>3
    <2> QED
      BY <2>1, <2>2
  <1>16. CASE BootLoad \/ BootWatch
    BY <1>16 DEF BootLoad, BootWatch
  <1>17. CASE UNCHANGED vars
    BY <1>17 DEF vars
  <1> QED
    BY <1>1, <1>2, <1>3, <1>4, <1>5, <1>6, <1>7, <1>8, <1>9, <1>10, <1>11,
       <1>12, <1>13, <1>14, <1>15, <1>16, <1>17
       DEF Next, Client, Reload

\* Every step keeps what the worker has read in agreement.
LEMMA WorkerStep == Inv /\ [Next]_vars => WorkerOk'
  <1> SUFFICES ASSUME Inv, [Next]_vars PROVE WorkerOk'
    OBVIOUS
  <1> USE ConfigAssumption
      DEF Inv, TypeOK, Shape, LockOk, QuietOk, WorkerOk, Known, Durable,
          AllDurable, Writing, Reloading, clientVars, live, watcher,
          life, bounds
  <1>1. ASSUME NEW c \in Clients, \E r \in Requests : Post(c, r) PROVE WorkerOk'
    BY <1>1 DEF Post
  <1>2. ASSUME NEW c \in Clients, Mutate(c) PROVE WorkerOk'
    BY <1>2 DEF Mutate, OpenMutation
  <1>3. ASSUME NEW c \in Clients, WriteToml(c) PROVE WorkerOk'
    BY <1>3 DEF WriteToml
  <1>4. ASSUME NEW c \in Clients, SyncToml(c) PROVE WorkerOk'
    BY <1>4 DEF SyncToml
  <1>5. ASSUME NEW c \in Clients, WriteFails(c) PROVE WorkerOk'
    BY <1>5 DEF WriteFails, Answer, Forget
  <1>6. ASSUME NEW c \in Clients, StoreInner(c) PROVE WorkerOk'
    BY <1>6 DEF StoreInner
  <1>7. ASSUME NEW c \in Clients, AfterHook(c) PROVE WorkerOk'
    BY <1>7 DEF AfterHook, Answer
  <1>8. ASSUME NEW x \in Config \cup {Broken}, OperatorEdit(x) PROVE WorkerOk'
    BY <1>8 DEF OperatorEdit, NoRequest
  <1>9. CASE Notify \/ NotifyLost
    BY <1>9 DEF Notify, NotifyLost
  <1>10. CASE Debounce \/ Settled
    BY <1>10 DEF Debounce, Settled
  <1>11. CASE ReloadRead \/ ReloadReadFails
    BY <1>11 DEF ReloadRead, ReloadReadFails
  <1>12. CASE CallbackRejects
    BY <1>12 DEF CallbackRejects
  <1>13. CASE CallbackMic \/ CallbackInference
    BY <1>13 DEF CallbackMic, CallbackInference
  <1>14. CASE ReloadStore
    BY <1>14 DEF ReloadStore
  <1>15. CASE Crash
    BY <1>15 DEF Crash
  <1>16. CASE BootLoad \/ BootWatch
    BY <1>16 DEF BootLoad, BootWatch
  <1>17. CASE UNCHANGED vars
    BY <1>17 DEF vars
  <1> QED
    BY <1>1, <1>2, <1>3, <1>4, <1>5, <1>6, <1>7, <1>8, <1>9, <1>10, <1>11,
       <1>12, <1>13, <1>14, <1>15, <1>16, <1>17
       DEF Next, Client, Reload

\* Every step keeps an operator's save from being credited to a client.
LEMMA SavedStep == Inv /\ [Next]_vars => SavedOk'
  <1> SUFFICES ASSUME Inv, [Next]_vars PROVE SavedOk'
    OBVIOUS
  <1> USE ConfigAssumption
      DEF Inv, TypeOK, SavedOk, Known, clientVars, live, watcher, life, bounds
  <1>1. ASSUME NEW c \in Clients, \E r \in Requests : Post(c, r) PROVE SavedOk'
    BY <1>1 DEF Post
  <1>2. ASSUME NEW c \in Clients, Mutate(c) PROVE SavedOk'
    BY <1>2 DEF Mutate, OpenMutation
  <1>3. ASSUME NEW c \in Clients, WriteToml(c) PROVE SavedOk'
    BY <1>3 DEF WriteToml
  <1>4. ASSUME NEW c \in Clients, SyncToml(c) PROVE SavedOk'
    BY <1>4 DEF SyncToml
  <1>5. ASSUME NEW c \in Clients, WriteFails(c) PROVE SavedOk'
    BY <1>5 DEF WriteFails, Answer, Forget
  <1>6. ASSUME NEW c \in Clients, StoreInner(c) PROVE SavedOk'
    BY <1>6 DEF StoreInner
  <1>7. ASSUME NEW c \in Clients, AfterHook(c) PROVE SavedOk'
    BY <1>7 DEF AfterHook, Answer
  <1>8. ASSUME NEW x \in Config \cup {Broken}, OperatorEdit(x) PROVE SavedOk'
    BY <1>8 DEF OperatorEdit, NoRequest
  <1>9. CASE Notify \/ NotifyLost
    BY <1>9 DEF Notify, NotifyLost
  <1>10. CASE Debounce \/ Settled
    BY <1>10 DEF Debounce, Settled
  <1>11. CASE ReloadRead \/ ReloadReadFails
    BY <1>11 DEF ReloadRead, ReloadReadFails
  <1>12. CASE CallbackRejects
    BY <1>12 DEF CallbackRejects
  <1>13. CASE CallbackMic \/ CallbackInference
    BY <1>13 DEF CallbackMic, CallbackInference
  <1>14. CASE ReloadStore
    BY <1>14 DEF ReloadStore
  <1>15. CASE Crash
    BY <1>15 DEF Crash
  <1>16. CASE BootLoad \/ BootWatch
    BY <1>16 DEF BootLoad, BootWatch
  <1>17. CASE UNCHANGED vars
    BY <1>17 DEF vars
  <1> QED
    BY <1>1, <1>2, <1>3, <1>4, <1>5, <1>6, <1>7, <1>8, <1>9, <1>10, <1>11,
       <1>12, <1>13, <1>14, <1>15, <1>16, <1>17
       DEF Next, Client, Reload

\* The invariant holds in every state of every behaviour.
THEOREM Invariance == Spec => []Inv
  <1>1. Inv /\ [Next]_vars => Inv'
    BY TypeStep, ShapeStep, LockStep, ClientStep, QuietStep,
       WorkerStep, SavedStep
       DEF Inv
  <1> QED
    BY InitInv, <1>1, PTL DEF Spec

\* Type correctness: the file, the snapshot and the live cells only ever hold
\* whole, valid configurations.
THEOREM TypeCorrect == Spec => []TypeOK
  <1>1. Inv => TypeOK
    BY DEF Inv
  <1> QED
    BY Invariance, <1>1, PTL

\* mutate_lock is enough: whatever requests, reloads and power losses
\* interleave, an acknowledged field keeps its value in the snapshot until an
\* operator saves the file.
THEOREM UpdatesAreKept == Spec => []NoLostUpdate
  <1>1. Inv => NoLostUpdate
    BY DEF Inv, QuietOk, InnerOk, Known, NoLostUpdate
  <1> QED
    BY Invariance, <1>1, PTL

\* write_toml_atomically makes an acknowledged field survive any power loss.
THEOREM AcksAreDurable == Spec => []AckedIsDurable
  <1>1. Inv => AckedIsDurable
    BY DEF Inv, QuietOk, AllDurable, Durable, Known, AckedIsDurable
  <1> QED
    BY Invariance, <1>1, PTL

----------------------------------------------------------------------------
\* The daemon: the launch file and the socket.

\* What LaunchConfig::load asks of the file itself, the socket's directory
\* apart.
FileGood(f) ==
    /\ f # Absent /\ f # Garbled
    /\ CatalogueOk(f.mic) /\ BackbonesOk(f.backbone)
    /\ TcpShapeOk(f.stream.tcp) /\ f.stream.uds = "full"
    /\ f.stream.capacity > 0 /\ f.stream.mode <= 4095
    /\ HeadOk(f.head) /\ TrainingOk(f.training) /\ FileOk(f.file)

BoundStages == {"bound", "registered", "streaming", "services"}
LaunchedStages == {"launched", "loaded", "capturing", "recovered", "unlinked"}
                  \cup BoundStages
BootStages == {"prepared"} \cup LaunchedStages

\* The inductive invariant of RestartBinds: a boot past the loader has an
\* accepted file, a listener has its directory, and once the daemon has
\* served, the file stays good and the directory is there from
\* ensure_uds_parent_dir to the bind.
BindInv ==
    /\ main \in LaunchedStages => FileGood(file) /\ ~refused
    /\ main \in BoundStages => uds \in {"up", "chmod", "refused"}
    /\ main \in BoundStages /\ uds # "refused" => parent = "dir" /\ entry # "foreign"
    /\ served => /\ FileGood(file) /\ parent \in {"dir", "absent"}
                 /\ entry # "foreign" /\ ~refused /\ uds # "refused"
    /\ served /\ main \in BootStages => parent = "dir"
    /\ served /\ main = "unlinked" => entry = "none"

\* LaunchConfig::default_for passes its own validators.
LEMMA DefaultsGood == FileGood(Defaults)
  <1>1. /\ Defaults.mic = <<[id |-> "default-mock", channels |-> <<0>>,
                             source |-> [kind |-> "mock", waveforms |-> 1,
                                         period |-> 512, rate |-> 44100]]>>
    BY SMT DEF Defaults
  <1>10. Defaults.backbone = <<>>
    BY SMT DEF Defaults
  <1>11. /\ Defaults.stream.uds = "full" /\ Defaults.stream.mode = 438
         /\ Defaults.stream.capacity = 64 /\ Defaults.stream.tcp.colon
         /\ Defaults.stream.tcp.port = 8787 /\ Defaults.stream.tcp.host = "ip"
    BY SMT DEF Defaults
  <1>12. ~Defaults.head.present
    BY SMT DEF Defaults
  <1>13. /\ Defaults.training.epochs = 32 /\ Defaults.training.batch = 16
         /\ Defaults.training.lr = 100
    BY SMT DEF Defaults
  <1>14. Defaults.file.bytes > 0 /\ Defaults.file.uploads > 0
    BY SMT DEF Defaults
  <1>2. \A x : Members(<<x>>) = {x} /\ Distinct(<<x>>)
    <2> TAKE x
    <2>1. Members(<<x>>) = {x} /\ Len(<<x>>) = 1
      BY DEF Members
    <2>2. Cardinality({x}) = 1
      BY FS_Singleton
    <2> QED
      BY <2>1, <2>2 DEF Distinct
  <1>3. CatalogueOk(Defaults.mic)
    <2> DEFINE c == [id |-> "default-mock", channels |-> <<0>>,
                     source |-> [kind |-> "mock", waveforms |-> 1,
                                 period |-> 512, rate |-> 44100]]
    <2>1. /\ c.channels = <<0>> /\ c.source.kind = "mock" /\ c.source.waveforms = 1
          /\ c.source.period = 512 /\ c.source.rate = 44100
      OBVIOUS
    <2>2. Members(c.channels) = {0} /\ Distinct(c.channels) /\ Len(c.channels) = 1
      BY <1>2, <2>1
    <2> HIDE DEF c
    <2>3. MockOk(c.source, Members(c.channels))
      BY <2>1, <2>2, SMT DEF MockOk, MAX_CHANNELS, MAX_PERIOD_FRAMES, MIN_SAMPLE_RATE,
         MAX_SAMPLE_RATE
    <2>4. Defaults.mic = <<c>>
      BY <1>1 DEF c
    <2>5. [i \in DOMAIN <<c>> |-> <<c>>[i].id] = <<c.id>>
      OBVIOUS
    <2>6. CandidateOk(c)
      BY <2>1, <2>2, <2>3 DEF CandidateOk, MAX_CHANNELS, MAX_CHANNEL_INDEX
    <2> QED
      BY <1>2, <2>4, <2>5, <2>6 DEF CatalogueOk
  <1>4. BackbonesOk(Defaults.backbone)
    BY <1>10 DEF BackbonesOk, Members
  <1>5. TcpShapeOk(Defaults.stream.tcp)
    BY <1>11, SMT DEF TcpShapeOk
  <1>6. HeadOk(Defaults.head)
    BY <1>12 DEF HeadOk
  <1>7. TrainingOk(Defaults.training)
    <2>1. MAX_LR_E6 \in Nat /\ MAX_LR_E6 >= 100
      BY SMT DEF MAX_LR_E6
    <2> QED
      BY <1>13, <2>1, SMT DEF TrainingOk
  <1>8. FileOk(Defaults.file)
    BY <1>14 DEF FileOk
  <1> QED
    BY <1>3, <1>4, <1>5, <1>6, <1>7, <1>8, <1>11, LaunchAssumption, SMT DEF FileGood

\* The loader accepts a good file whose directory is in order, and only a
\* good one.
LEMMA LaunchFacts ==
  ASSUME NEW f
  PROVE  /\ f # Absent /\ f # Garbled /\ LaunchOk(f) => FileGood(f)
         /\ FileGood(f) /\ parent = "dir" /\ entry # "foreign" => LaunchOk(f)
  BY DEF LaunchOk, StreamOk, UdsOk, FileGood

\* Steps that leave the launch layer alone and do not go on with the boot.
LEMMA BindQuiet ==
  ASSUME BindInv, UNCHANGED <<file, parent, entry, uds, served, refused>>,
         main' = main \/ main' \notin BootStages
  PROVE  BindInv'
  BY DEF BindInv, BootStages, LaunchedStages

\* The steps of the boot keep what binding needs.
LEMMA BindBoot ==
  ASSUME BindInv, BootStep
  PROVE  BindInv'
  <1> USE DEF BootStages, LaunchedStages, BoundStages
  <1>1. ASSUME NEW ok \in BOOLEAN, Prepare(ok)
        PROVE  BindInv'
    <2>1. /\ main = "start" /\ main' \in {"prepared", "returned"}
          /\ UNCHANGED <<file, entry, uds, served, refused>>
          /\ parent' # parent => parent' = "dir"
      BY <1>1 DEF Prepare, Goto, Prepared, diskVars, NoThreads
    <2>2. served /\ main' = "prepared" => parent' = "dir"
      BY <1>1, <2>1 DEF Prepare, Goto, Prepared, PrepareFails, BindInv, FileGood
    <2> QED
      BY <2>1, <2>2 DEF BindInv
  <1>2. CASE LoadLaunch
    <2>1. /\ main = "prepared" /\ main' = IF Accepted THEN "launched" ELSE "returned"
          /\ refused' = ~Accepted /\ file' = IF file = Absent THEN Defaults ELSE file
          /\ UNCHANGED <<parent, entry, uds, served>>
      BY <1>2 DEF LoadLaunch, Goto, Persisted, NoThreads
    <2>2. Accepted => FileGood(file')
      BY <2>1, DefaultsGood, LaunchFacts DEF Accepted
    <2>3. served => Accepted /\ file' = file
      BY <2>1, LaunchFacts DEF Accepted, BindInv, FileGood
    <2> QED
      BY <2>1, <2>2, <2>3 DEF BindInv
  <1>3. ASSUME NEW ok \in BOOLEAN, NEW mocked \in BOOLEAN, NEW policy \in Policies,
               LoadUser(ok, mocked, policy)
        PROVE  BindInv'
    <2>1. /\ main = "launched" /\ main' \in {"loaded", "returned"}
          /\ UNCHANGED <<file, parent, entry, uds, served, refused>>
      BY <1>3 DEF LoadUser, Goto, diskVars, NoThreads
    <2> QED
      BY <2>1 DEF BindInv
  <1>4. CASE StartCapture \/ \E r \in RecoveryResults : Recover(r)
    <2>1. /\ main \in {"loaded", "capturing"} /\ main' \in {"capturing", "recovered"}
          /\ UNCHANGED <<file, parent, entry, uds, served, refused>>
      BY <1>4 DEF StartCapture, Recover, Goto, bootVars, diskVars
    <2> QED
      BY <2>1 DEF BindInv
  <1>5. ASSUME NEW cli \in BOOLEAN, ParseTcp(cli)
        PROVE  BindInv'
    <2>1. /\ main = "recovered" /\ main' \in {"unlinked", "returned"}
          /\ UNCHANGED <<file, parent, uds, served, refused>>
          /\ entry' \in {entry, "none"}
          /\ main' = "unlinked" /\ MayBind => entry' = "none"
      BY <1>5 DEF ParseTcp, Goto, Unlinked, diskVars
    <2> QED
      BY <2>1 DEF BindInv, MayBind
  <1>6. ASSUME NEW wanted \in BOOLEAN, NEW head \in BOOLEAN, NEW loads \in BOOLEAN,
               NEW tcpFree \in BOOLEAN, NEW chmod \in BOOLEAN, NEW library \in Libraries,
               BootInference(wanted, head, loads, library, tcpFree, chmod)
        PROVE  BindInv'
    <2>1. /\ main = "unlinked" /\ main' = "bound" /\ uds' = Listening(chmod)
          /\ entry' = IF BindsFree THEN "socket" ELSE entry
          /\ UNCHANGED <<file, parent, served, refused>>
      BY <1>6 DEF BootInference, Goto, Bound
    <2> QED
      BY <2>1 DEF BindInv, Listening, BindsFree
  <1>7. CASE Register \/ StartOpus \/ StartServices
    <2>1. /\ main \in {"bound", "registered", "streaming"} /\ main' \in BoundStages
          /\ UNCHANGED <<file, parent, entry, uds, served, refused>>
      BY <1>7 DEF Register, StartOpus, StartServices, Goto, bootVars, diskVars
    <2> QED
      BY <2>1 DEF BindInv
  <1>8. CASE Listen
    <2>1. /\ main = "services" /\ main' \in {"serving", "returned"}
          /\ served' = (served \/ (tcp /\ uds # "refused")) /\ uds' = "none"
          /\ UNCHANGED <<file, parent, entry, refused>>
      BY <1>8 DEF Listen, Goto, diskVars
    <2> QED
      BY <2>1 DEF BindInv
  <1> QED
    BY <1>1, <1>2, <1>3, <1>4, <1>5, <1>6, <1>7, <1>8 DEF BootStep


\* Everything after the boot: the engine, the pump, the clock, the jobs and
\* the shutdown.
LifeStep ==
    \/ EngineTurn \/ EngineWedge \/ EngineUnwedge
    \/ PumpTurn \/ PumpEnds \/ PumpAborts
    \/ Tick
    \/ TrainStart \/ TrainEnd
    \/ \E check, others \in BOOLEAN : Signal(check, others)
    \/ ShutdownStep
    \/ \E s \in Slots : TaskEnds(s) \/ TaskTimeout(s)
    \/ DrainTick \/ DropTick

\* The running daemon leaves the files of the disk alone.
LEMMA LifeLeavesDisk ==
  ASSUME LifeStep
  PROVE  /\ UNCHANGED <<file, parent, entry, uds, served, refused>>
         /\ main' = main \/ main' \notin BootStages
  <1> USE DEF BootStages, LaunchedStages, BoundStages, bootVars, diskVars
  <1>1. CASE EngineTurn \/ EngineWedge \/ EngineUnwedge
    BY <1>1 DEF EngineTurn, EngineStart, EngineIdle, EngineEmit, EngineFail,
       EngineStop, EngineWedge, EngineUnwedge, EngineOnly
  <1>2. CASE PumpTurn \/ PumpEnds \/ PumpAborts
    BY <1>2 DEF PumpTurn, PumpEnds, PumpAborts, PumpOnly
  <1>3. CASE Tick \/ TrainStart \/ TrainEnd \/ DrainTick \/ DropTick
    BY <1>3 DEF Tick, TrainStart, TrainEnd, DrainTick, DropTick
  <1>4. CASE \E check, others \in BOOLEAN : Signal(check, others)
    BY <1>4 DEF Signal, Goto
  <1>5. CASE ShutdownStep
    BY <1>5 DEF ShutdownStep, Cancel, DrainBegin, Drained, Finish, RuntimeDrop,
       MicStops, Goto
  <1>6. CASE \E s \in Slots : TaskEnds(s) \/ TaskTimeout(s)
    BY <1>6 DEF TaskEnds, TaskTimeout
  <1> QED
    BY <1>1, <1>2, <1>3, <1>4, <1>5, <1>6 DEF LifeStep

\* What a life leaves on disk, and what a reboot takes away.
LEMMA BindLives ==
  ASSUME BindInv, Kill \/ \E reboot \in BOOLEAN : Restart(reboot)
  PROVE  BindInv'
  <1>1. /\ main' \in {"killed", "start"} /\ uds' = "none" /\ refused' = FALSE
        /\ UNCHANGED <<file, served>>
        /\ UNCHANGED <<parent, entry>> \/ Swept
    BY DEF Kill, Restart, Reset, Swept, diskVars
  <1>2. /\ parent' \in {parent, "absent"} /\ entry' \in {entry, "none"}
    BY <1>1 DEF Swept
  <1> QED
    BY <1>1, <1>2 DEF BindInv, BootStages, LaunchedStages, BoundStages

\* The next-state relation, by what its steps are about.
LEMMA DaemonSteps ==
  ASSUME DaemonNext
  PROVE  \/ ~Gone /\ BootStep
         \/ ~Gone /\ LifeStep
         \/ Kill
         \/ \E reboot \in BOOLEAN : Restart(reboot)
  BY DEF DaemonNext, LifeStep

\* Whatever the last life left behind, the next one binds: once the daemon
\* has served, no kill at any step, no stale socket and no swept directory
\* makes it refuse the same launch file or the socket
\* (load_or_init_launch_config, ensure_uds_parent_dir, bind_uds).
THEOREM RestartsBind == DaemonSpec => []RestartBinds
  <1>1. DaemonInit => BindInv
    BY DEF DaemonInit, Fresh, BindInv, BootStages, LaunchedStages, BoundStages
  <1>2. BindInv /\ [DaemonNext]_daemonVars => BindInv'
    <2> SUFFICES ASSUME BindInv, [DaemonNext]_daemonVars PROVE BindInv'
      OBVIOUS
    <2>1. CASE UNCHANGED daemonVars
      BY <2>1, BindQuiet DEF daemonVars, bootVars, diskVars
    <2> QED
      BY <2>1, DaemonSteps, BindBoot, LifeLeavesDisk, BindQuiet, BindLives
  <1>3. BindInv => RestartBinds
    BY DEF BindInv, RestartBinds
  <1> QED
    BY <1>1, <1>2, <1>3, PTL DEF DaemonSpec

----------------------------------------------------------------------------
\* The daemon: the engine, the pump and the health entry.

EarlyStages == {"start", "prepared", "launched", "loaded", "capturing",
                "recovered", "unlinked"}
PreStages == EarlyStages \cup BoundStages
EngineStates == {"starting", "running", "waiting", "lagged", "failed", "stopped"}

LifeTypes ==
    /\ token \in BOOLEAN /\ heard \in BOOLEAN
    /\ engine \in {"none", "starting", "running", "wedged", "failed", "stopped"}
    /\ beat \in [state : EngineStates, unseen : BOOLEAN, frames : BOOLEAN]
    /\ pump \in {"none", "run", "aborting", "ended"}
    /\ silence \in Nat /\ stall \in Nat /\ quiet \in Nat
    /\ hb \in [healthy : BOOLEAN, age : Nat]

\* Engine and pump start together, the token comes with the shutdown,
\* and the pump hears nothing of an engine that has not started.
LifeFacts ==
    /\ main \in PreStages \cup {"serving"} => (engine = "none" <=> pump = "none")
    /\ token => main \in {"cancelled", "draining", "drained", "returned", "exited",
                       "aborted"}
    /\ engine = "stopped" => token
    /\ engine = "failed" <=> beat.state = "failed"
    /\ engine \in {"none", "starting"} => ~heard /\ ~beat.unseen
    /\ engine = "none" => silence = 0

\* Before the daemon serves no second has passed: a started engine has had
\* its turn, so none has failed and the pump goes on.
BootFacts ==
    /\ main \in EarlyStages => engine = "none"
    /\ main \in PreStages =>
         /\ quiet = 0 /\ silence = 0 /\ pump \in {"none", "run"}
         /\ \/ engine \in {"none", "starting"}
            \/ engine \in {"running", "wedged"} /\ "engine" \in did

\* How far the pump's count of frameless seconds lags behind the engine's,
\* what its last verdict promises, and what it said last of a failed engine.
HealthFacts ==
    main = "serving" =>
      /\ pump = "run" =>
           /\ beat.frames => quiet = 0 \/ (quiet = 1 /\ "pump" \notin did)
           /\ ~beat.frames /\ stall < StaleAfter => quiet <= stall + 1
           /\ hb.healthy => /\ quiet <= StaleAfter + 1
                            /\ "pump" \in did => quiet <= StaleAfter
           /\ beat.state = "failed" /\ ~beat.unseen => ~hb.healthy
      /\ pump \in {"ended", "aborting"} => ~hb.healthy

LifeInv == LifeTypes /\ LifeFacts /\ BootFacts /\ HealthFacts

\* Steps of the boot up to the engine, of the jobs and of the drain: the
\* engine, the pump and what they say stay as they are.
LEMMA LifeQuiet ==
  ASSUME LifeInv,
         UNCHANGED <<token, engine, beat, did, pump, heard, silence, stall, hb, quiet>>,
         \/ main' = main
         \/ main \in EarlyStages /\ main' \in EarlyStages
         \/ main \in BoundStages /\ main' \in BoundStages
         \/ main' \in {"returned", "stopping"} /\ ~token
         \/ main' \in {"draining", "drained", "returned", "exited"}
  PROVE  LifeInv'
  <1> USE DEF PreStages, EarlyStages, BoundStages
  <1>1. LifeTypes'
    BY DEF LifeInv, LifeTypes
  <1>2. LifeFacts'
    BY DEF LifeInv, LifeFacts
  <1>3. BootFacts'
    BY DEF LifeInv, BootFacts
  <1>4. HealthFacts'
    BY DEF LifeInv, HealthFacts
  <1> QED
    BY <1>1, <1>2, <1>3, <1>4 DEF LifeInv

\* A step of the boot starts before the daemon serves.
LEMMA BootIsEarly == BootStep => main \in PreStages
  BY ZenonT(60) DEF BootStep, Prepare, LoadLaunch, LoadUser, StartCapture, Recover, ParseTcp,
     BootInference, Register, StartOpus, StartServices, Listen, Goto, PreStages,
     EarlyStages, BoundStages

\* The steps of the boot start threads and timers afresh.
LEMMA LifeBoot ==
  ASSUME LifeInv, BootStep
  PROVE  LifeInv'
  <1> USE DEF PreStages, EarlyStages, BoundStages
  <1>0. main \in PreStages
    BY BootIsEarly
  <1>1. ~token
    BY <1>0 DEF LifeInv, LifeFacts
  <1>2. ASSUME \/ \E ok \in BOOLEAN : Prepare(ok)
               \/ LoadLaunch
               \/ \E ok, mocked \in BOOLEAN, policy \in Policies : LoadUser(ok, mocked, policy)
               \/ StartCapture
               \/ \E r \in RecoveryResults : Recover(r)
               \/ \E cli \in BOOLEAN : ParseTcp(cli)
               \/ StartOpus \/ StartServices
        PROVE  LifeInv'
    <2>1. /\ UNCHANGED <<token, engine, beat, did, pump, heard, silence, stall, hb, quiet>>
          /\ \/ main \in EarlyStages /\ main' \in EarlyStages
             \/ main \in BoundStages /\ main' \in BoundStages
             \/ main' = "returned"
      BY <1>2 DEF Prepare, LoadLaunch, LoadUser, StartCapture, Recover, ParseTcp,
         StartOpus, StartServices, Goto, NoThreads, engineVars, pumpVars
    <2> QED
      BY <1>1, <2>1, LifeQuiet
  <1>3. ASSUME NEW wanted \in BOOLEAN, NEW head \in BOOLEAN, NEW loads \in BOOLEAN,
               NEW tcpFree \in BOOLEAN, NEW chmod \in BOOLEAN, NEW library \in Libraries,
               BootInference(wanted, head, loads, library, tcpFree, chmod)
        PROVE  LifeInv'
    <2>1. /\ main = "unlinked" /\ main' = "bound"
          /\ \/ engine' = "none" /\ pump' = "none"
             \/ engine' = "starting" /\ pump' = "run"
          /\ UNCHANGED <<token, beat, did, heard, silence, stall, quiet>>
      BY <1>3 DEF BootInference, Goto, SpawnPump, SpawnEngine
    <2>2. hb' \in [healthy : BOOLEAN, age : Nat]
      <3>1. \E b \in BOOLEAN : hb' = [healthy |-> b, age |-> 0]
        BY <1>3 DEF BootInference, WantsInference, SkippedInOrder
      <3> QED
        BY <3>1
    <2>3. LifeTypes'
      BY <2>1, <2>2 DEF LifeInv, LifeTypes
    <2>4. LifeFacts' /\ BootFacts'
      BY <2>1 DEF LifeInv, LifeFacts, BootFacts
    <2> QED
      BY <2>1, <2>3, <2>4 DEF LifeInv, HealthFacts
  <1>4. CASE Register
    <2>1. /\ main = "bound" /\ main' = "registered"
          /\ hb' = hb \/ hb' = [healthy |-> TRUE, age |-> 0]
          /\ UNCHANGED <<token, engine, beat, did, pump, heard, silence, stall, quiet>>
      BY <1>4 DEF Register, Goto, engineVars
    <2>2. hb' \in [healthy : BOOLEAN, age : Nat]
      <3>1. [healthy |-> TRUE, age |-> 0] \in [healthy : BOOLEAN, age : Nat]
        OBVIOUS
      <3> QED
        BY <2>1, <3>1 DEF LifeInv, LifeTypes
    <2>3. LifeTypes'
      BY <2>1, <2>2 DEF LifeInv, LifeTypes
    <2>4. LifeFacts' /\ BootFacts'
      BY <2>1 DEF LifeInv, LifeFacts, BootFacts
    <2> QED
      BY <2>1, <2>3, <2>4 DEF LifeInv, HealthFacts
  <1>5. CASE Listen
    <2>1. /\ main = "services" /\ main' \in {"serving", "returned"}
          /\ UNCHANGED <<token, engine, beat, did, pump, heard, silence, stall, hb, quiet>>
      BY <1>5 DEF Listen, Goto, engineVars, pumpVars
    <2>2. LifeTypes' /\ LifeFacts' /\ BootFacts'
      BY <2>1 DEF LifeInv, LifeTypes, LifeFacts, BootFacts
    <2>3. quiet = 0 /\ pump \in {"none", "run"} /\ beat.state # "failed"
      BY <2>1 DEF LifeInv, BootFacts, LifeFacts
    <2>4. HealthFacts'
      BY <2>1, <2>3, DaemonAssumption DEF LifeInv, LifeTypes, HealthFacts
    <2> QED
      BY <2>2, <2>4 DEF LifeInv
  <1> QED
    BY <1>2, <1>3, <1>4, <1>5 DEF BootStep

\* The engine's turns.
LEMMA LifeEngine ==
  ASSUME LifeInv, ~Gone, EngineTurn \/ EngineWedge \/ EngineUnwedge
  PROVE  LifeInv'
  <1> USE DEF PreStages, EarlyStages, BoundStages
  <1>0. /\ UNCHANGED <<main, token, pump, heard, silence, stall, hb>>
        /\ beat.unseen \in BOOLEAN /\ beat.frames \in BOOLEAN
        /\ beat \in [state : EngineStates, unseen : BOOLEAN, frames : BOOLEAN]
    BY DEF LifeInv, LifeTypes, EngineTurn, EngineStart, EngineIdle, EngineEmit,
       EngineFail, EngineStop, EngineWedge, EngineUnwedge, EngineOnly, pumpVars
  <1>1. \A st : /\ Says(st).state = st /\ Says(st).unseen = TRUE
                /\ Says(st).frames = beat.frames
    BY DEF Says
  <1>2. \A st \in EngineStates :
          Says(st) \in [state : EngineStates, unseen : BOOLEAN, frames : BOOLEAN]
    BY <1>0 DEF Says
  <1>3. CASE EngineStart
    <2>1. /\ engine = "starting" /\ engine' = "running" /\ beat' = Says("running")
          /\ did' = did \cup {"engine"} /\ quiet' = quiet
      BY <1>3 DEF EngineStart, Sends
    <2>2. LifeTypes'
      BY <1>0, <1>2, <2>1 DEF LifeInv, LifeTypes, EngineStates
    <2>3. LifeFacts' /\ BootFacts'
      BY <1>0, <1>1, <2>1 DEF LifeInv, LifeFacts, BootFacts
    <2>4. HealthFacts'
      BY <1>0, <1>1, <2>1 DEF LifeInv, HealthFacts
    <2> QED
      BY <2>2, <2>3, <2>4 DEF LifeInv
  <1>4. ASSUME NEW st \in {"running", "waiting", "lagged"}, EngineIdle(st)
        PROVE  LifeInv'
    <2>1. /\ engine = "running" /\ engine' = "running" /\ beat' = Says(st)
          /\ did' = did \cup {"engine"} /\ quiet' = quiet
      BY <1>4 DEF EngineIdle, Sends
    <2>2. LifeTypes'
      BY <1>0, <1>2, <2>1 DEF LifeInv, LifeTypes, EngineStates
    <2>3. LifeFacts' /\ BootFacts'
      BY <1>0, <1>1, <2>1 DEF LifeInv, LifeFacts, BootFacts
    <2>4. HealthFacts'
      BY <1>0, <1>1, <2>1 DEF LifeInv, HealthFacts
    <2> QED
      BY <2>2, <2>3, <2>4 DEF LifeInv
  <1>5. CASE EngineEmit
    <2>1. /\ engine = "running" /\ engine' = "running" /\ "engine" \notin did
          /\ beat' = [Says("running") EXCEPT !.frames = TRUE]
          /\ did' = did \cup {"engine"} /\ quiet' = 0
      BY <1>5 DEF EngineEmit, Sends
    <2>2. /\ beat'.state = "running" /\ beat'.unseen = TRUE /\ beat'.frames = TRUE
          /\ beat' \in [state : EngineStates, unseen : BOOLEAN, frames : BOOLEAN]
      BY <1>0, <2>1 DEF Says, EngineStates
    <2>3. LifeTypes'
      BY <1>0, <2>1, <2>2 DEF LifeInv, LifeTypes
    <2>4. LifeFacts' /\ BootFacts'
      BY <1>0, <2>1, <2>2 DEF LifeInv, LifeFacts, BootFacts
    <2>5. HealthFacts'
      BY <1>0, <2>1, <2>2, DaemonAssumption DEF LifeInv, LifeTypes, HealthFacts
    <2> QED
      BY <2>3, <2>4, <2>5 DEF LifeInv
  <1>6. ASSUME NEW quick \in BOOLEAN, EngineFail(quick)
        PROVE  LifeInv'
    <2>1. /\ engine = "running" /\ "engine" \notin did
          /\ \/ engine' = "failed" /\ beat' = Says("failed")
             \/ engine' = "running" /\ beat' \in {Says("waiting"), beat}
          /\ did' = did \cup {"engine"} /\ quiet' = quiet
      BY <1>6 DEF EngineFail, Sends
    <2>2. main \notin PreStages
      BY <2>1 DEF LifeInv, BootFacts
    <2>3. LifeTypes'
      BY <1>0, <1>2, <2>1 DEF LifeInv, LifeTypes, EngineStates
    <2>4. LifeFacts' /\ BootFacts'
      BY <1>0, <1>1, <2>1, <2>2 DEF LifeInv, LifeFacts, BootFacts
    <2>5. HealthFacts'
      BY <1>0, <1>1, <2>1 DEF LifeInv, HealthFacts
    <2> QED
      BY <2>3, <2>4, <2>5 DEF LifeInv
  <1>7. CASE EngineWedge \/ EngineUnwedge
    <2>1. /\ engine \in {"running", "wedged"} /\ engine' \in {"running", "wedged"}
          /\ UNCHANGED <<beat, did, quiet>>
      BY <1>7 DEF EngineWedge, EngineUnwedge
    <2>2. LifeTypes' /\ LifeFacts' /\ BootFacts'
      BY <1>0, <2>1 DEF LifeInv, LifeTypes, LifeFacts, BootFacts
    <2>3. HealthFacts'
      BY <1>0, <2>1 DEF LifeInv, HealthFacts
    <2> QED
      BY <2>2, <2>3 DEF LifeInv
  <1>8. CASE EngineStop
    <2>1. /\ engine = "running" /\ engine' = "stopped" /\ token
          /\ beat' = Says("stopped") /\ did' = did /\ quiet' = quiet
      BY <1>8 DEF EngineStop, Sends
    <2>2. main \notin PreStages /\ main # "serving"
      BY <2>1 DEF LifeInv, LifeFacts
    <2>3. LifeTypes'
      BY <1>0, <1>2, <2>1 DEF LifeInv, LifeTypes, EngineStates
    <2>4. LifeFacts' /\ BootFacts' /\ HealthFacts'
      BY <1>0, <1>1, <2>1, <2>2 DEF LifeInv, LifeFacts, BootFacts, HealthFacts
    <2> QED
      BY <2>3, <2>4 DEF LifeInv
  <1> QED
    BY <1>3, <1>4, <1>5, <1>6, <1>7, <1>8 DEF EngineTurn

\* A turn of the pump: the verdict and the watchdog.
LEMMA LifePump ==
  ASSUME LifeInv, ~Gone, PumpTurn
  PROVE  /\ LifeInv'
         /\ pump' # pump => /\ ~token /\ engine \in {"running", "wedged"}
                            /\ silence >= AbortAfter /\ ~beat.unseen
  <1> USE DEF PreStages, EarlyStages, BoundStages
  <1> DEFINE received == heard \/ beat.unseen
             silent == IF beat.unseen THEN 0 ELSE silence
             stalled == IF beat.frames THEN 0 ELSE stall
             lively == beat.state \in {"running", "waiting"} /\ ~(stalled >= StaleAfter)
  <1>1. /\ pump = "run" /\ ~token
        /\ engine \in {"running", "wedged", "starting"} \/ beat.unseen
        /\ did' = did \cup {"pump"} /\ heard' = received /\ silence' = silent
        /\ stall' = stalled /\ beat' = [beat EXCEPT !.unseen = FALSE, !.frames = FALSE]
        /\ UNCHANGED <<main, token, engine, quiet>>
    BY DEF PumpTurn, PumpAlive, Alive, PumpOnly
  <1>2. \/ Wedged(received, silent, stalled) /\ pump' = "aborting"
           /\ hb' = [healthy |-> FALSE, age |-> 0]
        \/ pump' = pump /\ hb' = [healthy |-> lively, age |-> 0]
    BY DEF PumpTurn, Verdict
  <1>3. /\ stall \in Nat /\ silence \in Nat /\ quiet \in Nat /\ StaleAfter \in Nat
        /\ StaleAfter > 0 /\ AbortAfter \in Nat /\ AbortAfter > 0
        /\ beat \in [state : EngineStates, unseen : BOOLEAN, frames : BOOLEAN]
        /\ heard \in BOOLEAN
    BY DaemonAssumption DEF LifeInv, LifeTypes
  <1>4. /\ beat'.state = beat.state /\ beat'.unseen = FALSE /\ beat'.frames = FALSE
        /\ beat' \in [state : EngineStates, unseen : BOOLEAN, frames : BOOLEAN]
    BY <1>1, <1>3
  <1>5. LifeTypes'
    <2>1. received \in BOOLEAN /\ silent \in Nat /\ stalled \in Nat
      BY <1>3
    <2>2. hb' \in [healthy : BOOLEAN, age : Nat]
      <3>1. \E b \in BOOLEAN : hb' = [healthy |-> b, age |-> 0]
        BY <1>2
      <3> QED
        BY <3>1
    <2> QED
      BY <1>1, <1>2, <1>4, <2>1, <2>2 DEF LifeInv, LifeTypes
  <1>6. engine \in {"none", "starting"} => ~received
    BY DEF LifeInv, LifeFacts
  <1>7. LifeFacts'
    BY <1>1, <1>2, <1>4, <1>6 DEF LifeInv, LifeFacts
  <1>8. BootFacts'
    <2>1. main \in PreStages => silent = 0 /\ pump' = "run"
      BY <1>1, <1>2, <1>3 DEF LifeInv, BootFacts, Wedged
    <2> QED
      BY <1>1, <2>1 DEF LifeInv, BootFacts
  <1>9. HealthFacts'
    <2>0. CASE pump' = "aborting"
      BY <1>1, <1>2, <2>0 DEF HealthFacts
    <2> SUFFICES ASSUME main' = "serving", pump' = "run" PROVE HealthFacts'
      BY <1>1, <1>2, <2>0 DEF HealthFacts
    <2>1. main = "serving" /\ hb' = [healthy |-> lively, age |-> 0]
      BY <1>1, <1>2
    <2>2. hb'.healthy <=> lively
      BY <2>1
    <2>3. stalled < StaleAfter => quiet <= stalled + 1
      BY <1>1, <1>3, <2>1 DEF LifeInv, HealthFacts
    <2>4. stalled \in Nat
      BY <1>3
    <2>5. lively => quiet <= StaleAfter
      BY <1>3, <2>3, <2>4
    <2>6. beat.state = "failed" => ~lively
      OBVIOUS
    <2> HIDE DEF stalled, lively, received, silent
    <2> QED
      BY <1>1, <1>3, <1>4, <2>2, <2>3, <2>5, <2>6 DEF HealthFacts
  <1>10. ASSUME pump' # pump
         PROVE  /\ ~token /\ engine \in {"running", "wedged"}
                /\ silence >= AbortAfter /\ ~beat.unseen
    <2>1. received /\ silent >= AbortAfter
      BY <1>2, <1>10 DEF Wedged
    <2>2. ~beat.unseen /\ silence >= AbortAfter
      BY <1>3, <2>1
    <2> QED
      BY <1>1, <1>6, <2>1, <2>2
  <1> QED
    BY <1>5, <1>7, <1>8, <1>9, <1>10 DEF LifeInv

\* The pump ends, a second passes, a signal arrives, the shutdown goes on.
LEMMA LifeRest ==
  ASSUME LifeInv, ~Gone,
         \/ PumpEnds \/ PumpAborts
         \/ Tick
         \/ TrainStart \/ TrainEnd
         \/ \E check, others \in BOOLEAN : Signal(check, others)
         \/ ShutdownStep
         \/ \E s \in Slots : TaskEnds(s) \/ TaskTimeout(s)
         \/ DrainTick \/ DropTick
  PROVE  LifeInv'
  <1> USE DEF PreStages, EarlyStages, BoundStages
  <1>1. CASE PumpEnds
    <2>1. /\ pump = "run" /\ main # "returned" /\ pump' = "ended"
          /\ token \/ (engine \in {"failed", "stopped"} /\ ~beat.unseen)
          /\ heard' = FALSE /\ silence' = 0 /\ stall' = 0
          /\ UNCHANGED <<main, hb, beat, token, engine, quiet>>
      BY <1>1 DEF PumpEnds, PumpAlive, PumpOnly
    <2>2. main \notin PreStages
      BY <2>1 DEF LifeInv, LifeFacts, BootFacts
    <2>3. main = "serving" => ~hb.healthy
      BY <2>1 DEF LifeInv, LifeFacts, HealthFacts
    <2>4. LifeTypes' /\ LifeFacts'
      BY <2>1 DEF LifeInv, LifeTypes, LifeFacts
    <2> QED
      BY <2>1, <2>2, <2>3, <2>4 DEF LifeInv, BootFacts, HealthFacts
  <1>8. CASE PumpAborts
    <2>1. /\ main' = "aborted"
          /\ UNCHANGED <<token, engine, beat, did, pump, heard, silence, stall, hb, quiet>>
      BY <1>8 DEF PumpAborts, PumpOnly, pumpVars
    <2> QED
      BY <2>1 DEF LifeInv, LifeTypes, LifeFacts, BootFacts, HealthFacts
  <1>2. CASE Tick
    <2>1. /\ main = "serving" /\ main' = "serving" /\ did' = {}
          /\ pump = "run" => "pump" \in did
          /\ pump # "aborting"
          /\ UNCHANGED <<token, engine, beat, pump, heard>>
          /\ silence' = IF pump = "run" THEN Up(silence, AbortAfter) ELSE silence
          /\ stall' = IF pump = "run" THEN Up(stall, StaleAfter) ELSE stall
          /\ hb' = [hb EXCEPT !.age = IF pump = "none" THEN 0
                                      ELSE Up(@, HealthStale + 1)]
          /\ quiet' = IF engine = "none" THEN 0 ELSE Up(quiet, QuietCap)
      BY <1>2 DEF Tick, PumpAlive, engineVars
    <2>2. /\ silence \in Nat /\ stall \in Nat /\ quiet \in Nat
          /\ hb \in [healthy : BOOLEAN, age : Nat]
          /\ StaleAfter \in Nat /\ StaleAfter > 0 /\ AbortAfter \in Nat
          /\ HealthStale \in Nat
      BY DaemonAssumption DEF LifeInv, LifeTypes
    <2>3. /\ silence' \in Nat /\ stall' \in Nat /\ quiet' \in Nat
          /\ quiet' <= quiet + 1
      BY <2>1, <2>2 DEF Up, QuietCap
    <2>4. /\ hb' \in [healthy : BOOLEAN, age : Nat] /\ hb'.healthy = hb.healthy
      <3>1. (IF pump = "none" THEN 0 ELSE Up(hb.age, HealthStale + 1)) \in Nat
        BY <2>2 DEF Up
      <3> QED
        BY <2>1, <2>2, <3>1
    <2>5. pump = "run" /\ stall' < StaleAfter => stall < StaleAfter /\ stall' = stall + 1
      BY <2>1, <2>2 DEF Up
    <2>6. LifeTypes' /\ LifeFacts' /\ BootFacts'
      BY <2>1, <2>3, <2>4 DEF LifeInv, LifeTypes, LifeFacts, BootFacts
    <2>7. HealthFacts'
      BY <2>1, <2>2, <2>3, <2>4, <2>5 DEF LifeInv, HealthFacts
    <2> QED
      BY <2>6, <2>7 DEF LifeInv
  <1>3. CASE TrainStart \/ TrainEnd \/ DrainTick \/ DropTick
             \/ \E s \in Slots : TaskEnds(s)
    <2>1. UNCHANGED <<main, token, engine, beat, did, pump, heard, silence, stall, hb,
                      quiet>>
      BY <1>3 DEF TrainStart, TrainEnd, DrainTick, DropTick, TaskEnds, engineVars,
         pumpVars
    <2> QED
      BY <2>1, LifeQuiet
  <1>4. CASE \E check, others \in BOOLEAN : Signal(check, others)
    <2>1. /\ main = "serving" /\ main' = "stopping" /\ quiet' = 0
          /\ UNCHANGED <<token, engine, beat, did, pump, heard, silence, stall, hb>>
      BY <1>4 DEF Signal, Goto, engineVars, pumpVars
    <2> QED
      BY <2>1 DEF LifeInv, LifeTypes, LifeFacts, BootFacts, HealthFacts
  <1>5. CASE Cancel
    <2>1. /\ main = "stopping" /\ main' = "cancelled" /\ token' = TRUE
          /\ silence' = 0 /\ stall' = 0 /\ did' = {}
          /\ hb' = [hb EXCEPT !.age = 0]
          /\ UNCHANGED <<engine, beat, pump, heard, quiet>>
      BY <1>5 DEF Cancel, Goto
    <2> QED
      BY <2>1 DEF LifeInv, LifeTypes, LifeFacts, BootFacts, HealthFacts
  <1>6. CASE DrainBegin \/ Drained \/ Finish \/ RuntimeDrop \/ MicStops
    <2>1. /\ UNCHANGED <<token, engine, beat, did, pump, heard, silence, stall, hb, quiet>>
          /\ main' = main \/ main' \in {"draining", "drained", "returned", "exited"}
      BY <1>6 DEF DrainBegin, Drained, Finish, RuntimeDrop, MicStops, Goto, engineVars,
         pumpVars
    <2> QED
      BY <2>1, LifeQuiet
  <1>7. ASSUME NEW s \in Slots, TaskTimeout(s)
        PROVE  LifeInv'
    <2>1. /\ main = "draining" /\ main' = "draining" /\ slots[s] = "run"
          /\ pump' = IF s = "pump" THEN "ended" ELSE pump
          /\ UNCHANGED <<token, engine, beat, did, heard, silence, stall, hb, quiet>>
      BY <1>7 DEF TaskTimeout, engineVars
    <2> QED
      BY <2>1 DEF LifeInv, LifeTypes, LifeFacts, BootFacts, HealthFacts
  <1> QED
    BY <1>1, <1>2, <1>3, <1>4, <1>5, <1>6, <1>7, <1>8 DEF ShutdownStep

\* Every step of the daemon keeps LifeInv.
LEMMA LifeNext == LifeInv /\ [DaemonNext]_daemonVars => LifeInv'
  <1> SUFFICES ASSUME LifeInv, [DaemonNext]_daemonVars PROVE LifeInv'
    OBVIOUS
  <1>1. CASE UNCHANGED daemonVars
    BY <1>1, LifeQuiet DEF daemonVars, engineVars, pumpVars
  <1>2. CASE Kill \/ \E reboot \in BOOLEAN : Restart(reboot)
    <2>1. /\ main' \in {"killed", "start"} /\ Reset
      BY <1>2 DEF Kill, Restart
    <2> QED
      BY <2>1 DEF Reset, LifeInv, LifeTypes, LifeFacts, BootFacts, HealthFacts,
         PreStages, EarlyStages, BoundStages, EngineStates
  <1>3. CASE ~Gone /\ LifeStep
    BY <1>3, LifeEngine, LifePump, LifeRest DEF LifeStep
  <1> QED
    BY <1>1, <1>2, <1>3, DaemonSteps, LifeBoot

\* The inductive invariant of the engine, the pump and the health entry.
LEMMA LifeInvariance == DaemonSpec => []LifeInv
  <1>1. DaemonInit => LifeInv
    <2> SUFFICES ASSUME DaemonInit PROVE LifeInv
      OBVIOUS
    <2>1. LifeTypes
      BY DEF DaemonInit, Fresh, LifeTypes, EngineStates
    <2>2. LifeFacts /\ BootFacts /\ HealthFacts
      BY DEF DaemonInit, Fresh, LifeFacts, BootFacts, HealthFacts, PreStages,
         EarlyStages, BoundStages
    <2> QED
      BY <2>1, <2>2 DEF LifeInv
  <1> QED
    BY <1>1, LifeNext, PTL DEF DaemonSpec

\* /status calls inference healthy only while frames come: at most the stall
\* threshold and one turn of the pump after the last one, however the engine
\* failed, wedged or starved (inference_hb_pump, StatusMonitor::snapshot),
\* for every threshold.
THEOREM HealthyHasFrames == DaemonSpec => []HealthyMeansFrames
  <1>1. LifeInv => HealthyMeansFrames
    <2> SUFFICES ASSUME LifeInv, main = "serving", engine # "none", View
                 PROVE  quiet <= StaleAfter + 1
      BY DEF HealthyMeansFrames
    <2>1. hb.healthy
      BY DEF View
    <2>2. pump = "run"
      BY <2>1 DEF LifeInv, LifeTypes, LifeFacts, HealthFacts
    <2> QED
      BY <2>1, <2>2 DEF LifeInv, HealthFacts
  <1> QED
    BY <1>1, LifeInvariance, PTL

\* What the watchdog's measure is worth: seconds since a heartbeat was
\* received are never more than seconds since one was sent, unless one is
\* waiting to be received; and a decided abort stands on real silence, until
\* the engine speaks again.
HushInv ==
    /\ hush \in Nat /\ silence <= AbortAfter
    /\ ~beat.unseen => silence <= hush
    /\ pump = "aborting" => beat.unseen \/ (Alive /\ hush >= AbortAfter)

\* The engine speaks, or leaves its heartbeat alone.
LEMMA HushEngine ==
  ASSUME HushInv, EngineTurn \/ EngineWedge \/ EngineUnwedge
  PROVE  HushInv'
  <1>1. UNCHANGED <<pump, silence>>
    BY DEF EngineTurn, EngineStart, EngineIdle, EngineEmit, EngineFail, EngineStop,
       EngineWedge, EngineUnwedge, EngineOnly, pumpVars
  <1>2. \/ hush' = 0 /\ beat'.unseen
        \/ UNCHANGED <<beat, hush>> /\ Alive'
    BY DEF EngineTurn, EngineStart, EngineIdle, EngineEmit, EngineFail, EngineStop,
       EngineWedge, EngineUnwedge, Sends, Says, Alive
  <1> QED
    BY <1>1, <1>2 DEF HushInv

\* Every step of the daemon keeps HushInv.
LEMMA HushNext == LifeInv /\ HushInv /\ [DaemonNext]_daemonVars => HushInv'
  <1> SUFFICES ASSUME LifeInv, HushInv, [DaemonNext]_daemonVars PROVE HushInv'
    OBVIOUS
  <1>0. /\ silence \in Nat /\ hush \in Nat /\ AbortAfter \in Nat /\ AbortAfter > 0
        /\ beat \in [state : EngineStates, unseen : BOOLEAN, frames : BOOLEAN]
    BY DaemonAssumption DEF LifeInv, LifeTypes, HushInv
  <1>1. CASE UNCHANGED daemonVars
    BY <1>1 DEF daemonVars, engineVars, pumpVars, HushInv, Alive
  <1>2. CASE Kill \/ \E reboot \in BOOLEAN : Restart(reboot)
    <2>1. Reset
      BY <1>2 DEF Kill, Restart
    <2> QED
      BY <1>0, <2>1 DEF Reset, HushInv
  <1>3. CASE BootStep
    <2>1. UNCHANGED <<silence, beat, hush>> /\ pump' \in {pump, "none", "run"}
      BY <1>3, ZenonT(60) DEF BootStep, Prepare, LoadLaunch, LoadUser, StartCapture, Recover,
         ParseTcp, BootInference, Register, StartOpus, StartServices, Listen, NoThreads,
         engineVars, pumpVars, SpawnPump
    <2>2. pump # "aborting" /\ pump' # "aborting"
      BY <1>3, <2>1, BootIsEarly DEF LifeInv, BootFacts
    <2> QED
      BY <2>1, <2>2 DEF HushInv
  <1>4. CASE ~Gone /\ (EngineTurn \/ EngineWedge \/ EngineUnwedge)
    BY <1>4, HushEngine
  <1>5. CASE ~Gone /\ PumpTurn
    <2>1. /\ UNCHANGED <<engine, hush>> /\ pump = "run"
          /\ beat' = [beat EXCEPT !.unseen = FALSE, !.frames = FALSE]
          /\ silence' = IF beat.unseen THEN 0 ELSE silence
      BY <1>5 DEF PumpTurn, PumpAlive, PumpOnly
    <2>2. pump' # pump => /\ engine \in {"running", "wedged"}
                          /\ silence >= AbortAfter /\ ~beat.unseen
      BY <1>5, LifePump
    <2> QED
      BY <1>0, <2>1, <2>2 DEF HushInv, Alive
  <1>6. CASE Tick
    <2>1. /\ UNCHANGED <<beat, pump>> /\ pump # "aborting"
          /\ silence' = IF pump = "run" THEN Up(silence, AbortAfter) ELSE silence
          /\ hush' = IF engine = "none" THEN 0 ELSE Up(hush, AbortAfter)
          /\ main = "serving"
      BY <1>6 DEF Tick
    <2>2. engine = "none" => silence' = silence /\ silence = 0
      BY <2>1 DEF LifeInv, LifeFacts
    <2>3. hush' \in Nat /\ (silence <= hush => silence' <= hush')
      <3>1. CASE engine = "none"
        BY <2>1, <2>2, <3>1
      <3>2. CASE engine # "none"
        <4>1. hush' = Up(hush, AbortAfter) /\ silence' \in {silence, Up(silence, AbortAfter)}
          BY <2>1, <3>2
        <4>2. /\ Up(hush, AbortAfter) \in Nat
              /\ silence <= hush /\ silence <= AbortAfter =>
                   /\ silence <= Up(hush, AbortAfter)
                   /\ Up(silence, AbortAfter) <= Up(hush, AbortAfter)
          BY <1>0 DEF Up
        <4>3. silence <= AbortAfter
          BY DEF HushInv
        <4> QED
          BY <4>1, <4>2, <4>3
      <3> QED
        BY <3>1, <3>2
    <2>4. silence' <= AbortAfter
      BY <1>0, <2>1 DEF HushInv, Up
    <2> QED
      BY <2>1, <2>3, <2>4 DEF HushInv
  <1>7. CASE Cancel
    BY <1>0, <1>7 DEF Cancel, HushInv, Alive
  <1>8. CASE PumpEnds
    BY <1>0, <1>8 DEF PumpEnds, PumpOnly, HushInv
  <1>9. CASE \E s \in Slots : TaskTimeout(s)
    <2>1. UNCHANGED <<beat, silence, engine, hush>> /\ pump' \in {pump, "ended"}
      BY <1>9 DEF TaskTimeout, engineVars
    <2> QED
      BY <2>1 DEF HushInv, Alive
  <1>10. CASE \/ PumpAborts \/ TrainStart \/ TrainEnd \/ DrainTick \/ DropTick
              \/ \E check, others \in BOOLEAN : Signal(check, others)
              \/ DrainBegin \/ Drained \/ Finish \/ RuntimeDrop \/ MicStops
              \/ \E s \in Slots : TaskEnds(s)
    <2>1. UNCHANGED <<beat, silence, engine, hush, pump>>
      BY <1>10 DEF PumpAborts, PumpOnly, TrainStart, TrainEnd, DrainTick, DropTick,
         Signal, DrainBegin, Drained, Finish, RuntimeDrop, MicStops, TaskEnds,
         engineVars, pumpVars
    <2> QED
      BY <2>1 DEF HushInv, Alive
  <1> QED
    BY <1>1, <1>2, <1>3, <1>4, <1>5, <1>6, <1>7, <1>8, <1>9, <1>10, DaemonSteps
       DEF LifeStep, ShutdownStep

\* The watchdog of inference_hb_pump decides on real silence of a running or
\* hanging engine outside a shutdown, and nothing else brings the process to
\* abort: at the abort the engine is silent still, or spoke in the 50 ms
\* after the decision; for every threshold.
THEOREM WatchdogIsFair == DaemonSpec => WatchdogSparesTheLiving
  <1> DEFINE Spared ==
        /\ pump' = "aborting" /\ pump # "aborting" =>
             ~token /\ Alive /\ hush >= AbortAfter
        /\ main' = "aborted" /\ main # "aborted" =>
             beat.unseen \/ (Alive /\ hush >= AbortAfter)
  <1>1. LifeInv /\ HushInv /\ [DaemonNext]_daemonVars => [Spared]_daemonVars
    <2> SUFFICES ASSUME LifeInv, HushInv, DaemonNext PROVE Spared
      OBVIOUS
    <2>1. ASSUME pump' = "aborting", pump # "aborting"
          PROVE  ~token /\ Alive /\ hush >= AbortAfter
      <3>1. ~BootStep /\ ~Kill /\ ~\E reboot \in BOOLEAN : Restart(reboot)
        BY <2>1, ZenonT(60) DEF BootStep, Prepare, LoadLaunch, LoadUser, StartCapture, Recover,
           ParseTcp, BootInference, Register, StartOpus, StartServices, Listen, Kill,
           Restart, Reset, NoThreads, pumpVars, SpawnPump
      <3>2. ~Gone /\ LifeStep
        BY <3>1, DaemonSteps
      <3>3. PumpTurn
        BY <2>1, <3>2 DEF LifeStep, EngineTurn, EngineStart, EngineIdle, EngineEmit,
           EngineFail, EngineStop, EngineWedge, EngineUnwedge, EngineOnly, PumpEnds,
           PumpAborts, Tick, TrainStart, TrainEnd, Signal, ShutdownStep, Cancel,
           DrainBegin, Drained, Finish, RuntimeDrop, MicStops, TaskEnds, TaskTimeout,
           DrainTick, DropTick, pumpVars
      <3>4. /\ ~token /\ engine \in {"running", "wedged"}
            /\ silence >= AbortAfter /\ ~beat.unseen
        BY <2>1, <3>2, <3>3, LifePump
      <3>5. silence \in Nat /\ hush \in Nat /\ AbortAfter \in Nat /\ silence <= hush
        BY <3>4, DaemonAssumption DEF LifeInv, LifeTypes, HushInv
      <3> QED
        BY <3>4, <3>5 DEF Alive
    <2>2. ASSUME main' = "aborted", main # "aborted"
          PROVE  beat.unseen \/ (Alive /\ hush >= AbortAfter)
      <3>1. ~BootStep /\ ~Kill /\ ~\E reboot \in BOOLEAN : Restart(reboot)
        BY <2>2 DEF BootStep, Prepare, LoadLaunch, LoadUser, StartCapture, Recover, ParseTcp,
           BootInference, Register, StartOpus, StartServices, Listen, Goto, Kill, Restart
      <3>2. ~Gone /\ LifeStep
        BY <3>1, DaemonSteps
      <3>3. PumpAborts
        BY <2>2, <3>2 DEF LifeStep, EngineTurn, EngineStart, EngineIdle, EngineEmit,
           EngineFail, EngineStop, EngineWedge, EngineUnwedge, EngineOnly, PumpTurn,
           PumpEnds, PumpOnly, Tick, TrainStart, TrainEnd, Signal, ShutdownStep, Cancel,
           DrainBegin, Drained, Finish, RuntimeDrop, MicStops, TaskEnds, TaskTimeout,
           DrainTick, DropTick, Goto
      <3> QED
        BY <3>3 DEF PumpAborts, HushInv
    <2> QED
      BY <2>1, <2>2
  <1>2. DaemonInit => HushInv
    BY DaemonAssumption DEF DaemonInit, Fresh, HushInv
  <1>3. DaemonSpec => [](LifeInv /\ HushInv)
    BY <1>2, HushNext, LifeInvariance, PTL DEF DaemonSpec
  <1> QED
    BY <1>1, <1>3, PTL DEF DaemonSpec, WatchdogSparesTheLiving

============================================================================
