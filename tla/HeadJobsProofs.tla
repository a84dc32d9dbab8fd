--------------------------- MODULE HeadJobsProofs ---------------------------
(***************************************************************************)
(* Proofs about HeadJobs for every number of jobs, uploads and faults.     *)
(***************************************************************************)
EXTENDS HeadJobs, TLAPS

----------------------------------------------------------------------------
\* The inductive invariant.

TrainSteps == {"spawn", "log", "prepare", "scan", "extract", "train", "recheck"}
ConvertSteps == {"admit", "register", "log", "read", "stage", "labels", "mpk"}
Ending == {"clean", "logEnd", "setState"}
PcSet ==
    {"idle", "refused", "publish", "release", "done"}
        \cup TrainSteps \cup ConvertSteps \cup Ending
\* The job has not reached the end of its publish.
Unpublished == {"idle", "refused", "publish"} \cup TrainSteps \cup ConvertSteps
\* The job has read an input.
HasRead == {"extract", "train", "recheck", "stage", "labels", "mpk", "publish"}

Outs == {"none", "ok", "cancelled", "ftCancelled", "error"}
States == {"none", "running", "completed", "cancelled", "failed"}
Lines == {"none", "started", "gone", "completed", "cancelled", "failed"}

JobType ==
    [kind : {"none", "train", "convert"}, pc : PcSet, rev : Nat,
     seen : SUBSET Nat, out : Outs]

TypeOK ==
    /\ rev \in Nat /\ data \in Nat
    /\ upload \in {"no", "bytes", "publish"} /\ behind \in BOOLEAN
    /\ entry \in [Jobs -> [state : States, cancel : BOOLEAN]]
    /\ regJob \in [Jobs -> States]
    /\ job \in [Jobs -> JobType]
    /\ log \in [Jobs -> Lines]
    /\ heads \subseteq [job : Jobs, rev : Nat, seen : SUBSET Nat]
    /\ early \subseteq Jobs /\ uncertain \subseteq Jobs

\* The number of the upload is ahead of the cached revision only between the
\* move of the bytes and the end of the upload, or of the next one that
\* succeeds.
UploadInStep ==
    /\ rev <= data
    /\ upload # "publish" /\ ~behind => data = rev

\* What was read is not older than the revision captured before.
ReadsFrom(r) ==
    /\ r.rev <= rev
    /\ \A d \in r.seen : r.rev <= d /\ d <= data

JobReads(j) ==
    /\ ReadsFrom(job[j])
    /\ job[j].pc \in HasRead => job[j].seen # {}

HeadReads(h) == ReadsFrom(h) /\ h.seen # {}

Published(j) == \E h \in heads : h.job = j

\* The result that the task carries tells whether the head is there.
OutTells(j) ==
    /\ job[j].out = "ok" => Published(j)
    /\ job[j].out # "ok" => ~Published(j) \/ j \in uncertain

StateTells(j, state) ==
    /\ state = "completed" => Published(j)
    /\ state \in {"cancelled", "failed"} => ~Published(j) \/ j \in uncertain

\* Until its last steps a job has neither head nor terminal state nor
\* terminal log line.
JobOutcome(j) ==
    /\ job[j].pc \in Unpublished => ~Published(j)
    /\ job[j].pc \in Unpublished \cup {"clean", "logEnd"} =>
          log[j] \in {"none", "started", "gone"}
    /\ job[j].pc \in Unpublished \cup Ending =>
          entry[j].state \in {"none", "running"}
    /\ job[j].kind # "convert" \/ job[j].pc \in Unpublished \cup Ending =>
          regJob[j] \in {"none", "running"}
    /\ job[j].pc \in Ending => job[j].out # "none" /\ OutTells(j)
    /\ job[j].kind = "none" => job[j].pc = "idle"
    /\ StateTells(j, entry[j].state)
    /\ StateTells(j, regJob[j])
    /\ StateTells(j, log[j])

\* Only a training run has an entry, and only with it a cancel flag.
JobKind(j) ==
    /\ job[j].kind = "train" =>
          job[j].pc \in TrainSteps \cup Ending
                          \cup {"refused", "publish", "release", "done"}
    /\ entry[j].state # "none" => job[j].kind = "train" /\ job[j].pc # "spawn"

\* A run cancelled in time still has its flag, or has already been told.
JobCancelled(j) ==
    j \in early =>
        /\ job[j].kind = "train" /\ ~Published(j)
        /\ job[j].pc \in BeforeLastCheck \cup Ending \cup {"release", "done"}
        /\ job[j].pc \in BeforeLastCheck => entry[j].cancel
        /\ job[j].pc \in Ending => job[j].out # "ok"
        /\ entry[j].state # "completed"

JobInv(j) == JobReads(j) /\ JobOutcome(j) /\ JobKind(j) /\ JobCancelled(j)

Inv ==
    /\ TypeOK
    /\ UploadInStep
    /\ \A h \in heads : HeadReads(h)
    /\ \A j \in Jobs : JobInv(j)

----------------------------------------------------------------------------
\* Steps of one job.

\* How a step changes the record of its job.
Moves(j, pc, r, seen, out) ==
    /\ job' \in [Jobs -> JobType]
    /\ \A i \in Jobs \ {j} : job'[i] = job[i]
    /\ job'[j].kind = job[j].kind /\ job'[j].pc = pc /\ job'[j].rev = r
    /\ job'[j].seen = seen /\ job'[j].out = out

\* Going on to another step changes nothing else.
LEMMA GotoMoves ==
  ASSUME TypeOK, NEW j \in Jobs, NEW p \in PcSet, Goto(j, p)
  PROVE  Moves(j, p, job[j].rev, job[j].seen, job[j].out)
  BY DEF TypeOK, JobType, Moves, Goto

\* Reading an input adds the upload of now.
LEMMA ReadMoves ==
  ASSUME TypeOK, NEW j \in Jobs, NEW p \in PcSet, ReadThen(j, p)
  PROVE  Moves(j, p, job[j].rev, job[j].seen \cup {data}, job[j].out)
  BY ZenonT(60) DEF TypeOK, JobType, Moves, ReadThen

\* A run that could not open its log ends with an error.
LEMMA FailMoves ==
  ASSUME TypeOK, NEW j \in Jobs,
         job' = [job EXCEPT ![j].pc = "setState", ![j].out = "error"]
  PROVE  Moves(j, "setState", job[j].rev, job[j].seen, "error")
  BY ZenonT(60) DEF TypeOK, JobType, Moves, PcSet, Ending, Outs

\* Returning keeps the kind of the job and its result.
LEMMA ReturnMoves ==
  ASSUME TypeOK, NEW j \in Jobs, NEW o \in Outs, Return(j, o)
  PROVE  Moves(j, "clean", 0, {}, o)
  <1> DEFINE r == [NoJob EXCEPT !.kind = job[j].kind, !.pc = "clean", !.out = o]
  <1>1. job[j] \in JobType
    BY DEF TypeOK
  <1>2. /\ r \in JobType /\ r.kind = job[j].kind /\ r.pc = "clean" /\ r.rev = 0
        /\ r.seen = {} /\ r.out = o
    BY <1>1 DEF JobType, NoJob, PcSet, Ending
  <1>3. job' = [job EXCEPT ![j] = r]
    BY DEF Return
  <1> HIDE DEF r
  <1> QED
    BY <1>2, <1>3 DEF TypeOK, Moves

\* A task that is over keeps only its kind.
LEMMA EndMoves ==
  ASSUME TypeOK, NEW j \in Jobs, End(j)
  PROVE  Moves(j, "done", 0, {}, "none")
  <1> DEFINE r == [NoJob EXCEPT !.kind = job[j].kind, !.pc = "done"]
  <1>1. job[j] \in JobType
    BY DEF TypeOK
  <1>2. /\ r \in JobType /\ r.kind = job[j].kind /\ r.pc = "done" /\ r.rev = 0
        /\ r.seen = {} /\ r.out = "none"
    BY <1>1 DEF JobType, NoJob, PcSet, Outs
  <1>3. job' = [job EXCEPT ![j] = r]
    BY DEF End
  <1> HIDE DEF r
  <1> QED
    BY <1>2, <1>3 DEF TypeOK, Moves

----------------------------------------------------------------------------
\* The forms of a step.

NoOutcome ==
    UNCHANGED <<rev, data, upload, behind, entry, regJob, log, heads, early, uncertain>>

\* The inner function returns without having published.
Gives(j) ==
    /\ job[j].kind # "none" /\ job[j].pc \in Unpublished
    /\ \E o \in {"cancelled", "ftCancelled", "error"} : Return(j, o)
    /\ NoOutcome

\* The job reads an input.
Reads(j) ==
    /\ \E p \in HasRead :
          /\ ReadThen(j, p)
          /\ \/ /\ job[j].kind = "train" /\ job[j].pc \in {"scan", "extract"}
                /\ p \in {"extract", "train"}
             \/ /\ job[j].kind = "convert"
                /\ job[j].pc \in {"read", "stage", "labels"}
                /\ p \in {"stage", "labels", "mpk"}
    /\ NoOutcome

\* The job goes on without reading, or is refused; a training run goes to
\* its publish only when it has not been cancelled.
Goes(j) ==
    /\ \E p \in Unpublished :
          /\ Goto(j, p)
          /\ \/ /\ job[j].kind = "train"
                /\ \/ job[j].pc = "spawn" /\ p = "refused"
                   \/ job[j].pc = "prepare" /\ p = "scan"
                   \/ job[j].pc = "train" /\ p = "recheck"
                   \/ job[j].pc = "recheck" /\ p = "publish" /\ ~Cancelled(j)
             \/ /\ job[j].kind = "convert"
                /\ \/ job[j].pc = "admit" /\ p \in {"register", "refused"}
                   \/ job[j].pc = "register" /\ p = "refused"
                   \/ job[j].pc = "mpk" /\ p = "publish"
    /\ NoOutcome

\* The slot is taken.
Admitted(j) ==
    /\ Goto(j, "log")
    /\ \/ /\ At(j, "train", "spawn") /\ UNCHANGED regJob
          /\ entry' = [entry EXCEPT ![j] = [state |-> "running", cancel |-> FALSE]]
       \/ /\ At(j, "convert", "register") /\ UNCHANGED entry
          /\ regJob' = [regJob EXCEPT ![j] = "running"]
    /\ UNCHANGED <<rev, data, upload, behind, log, heads, early, uncertain>>

\* The log is opened, or the job fails.
Opens(j) ==
    /\ job[j].pc = "log" /\ job[j].kind # "none"
    /\ \/ /\ log' = [log EXCEPT ![j] = "started"]
          /\ Goto(j, IF job[j].kind = "train" THEN "prepare" ELSE "read")
       \/ /\ job' = [job EXCEPT ![j].pc = "setState", ![j].out = "error"]
          /\ UNCHANGED log
    /\ UNCHANGED <<rev, data, upload, behind, entry, regJob, heads, early, uncertain>>

\* Every step before the publish has one of these forms.
LEMMA StepForms ==
  ASSUME NEW j \in Jobs, Step(j)
  PROVE  \/ Gives(j) \/ Reads(j) \/ Goes(j) \/ Admitted(j) \/ Opens(j)
         \/ Publish(j) \/ Clean(j) \/ LogEnd(j) \/ SetState(j) \/ Release(j)
  <1> USE DEF Unpublished, TrainSteps, ConvertSteps, HasRead
  <1>1. CASE TrainSpawn(j)
    BY <1>1 DEF TrainSpawn, At, Goes, Admitted, NoOutcome, wsVars, ghostVars
  <1>2. CASE ConvertAdmit(j)
    BY <1>2 DEF ConvertAdmit, At, Goes, NoOutcome, wsVars, regVars, ghostVars
  <1>14. CASE ConvertRegister(j)
    BY <1>14 DEF ConvertRegister, At, Goes, Admitted, NoOutcome, wsVars, ghostVars
  <1>3. CASE TrainLog(j)
    BY <1>3 DEF TrainLog, At, Opens, wsVars, regVars, ghostVars
  <1>4. CASE ConvertLog(j)
    BY <1>4 DEF ConvertLog, At, Opens, wsVars, regVars, ghostVars
  <1>5. CASE TrainPrepare(j)
    BY <1>5 DEF TrainPrepare, At, Gives, Goes, NoOutcome, wsVars, regVars, ghostVars
  <1>6. CASE TrainScan(j)
    BY <1>6 DEF TrainScan, FinetuneStep, At, Gives, Reads, NoOutcome, wsVars,
       regVars, ghostVars
  <1>7. CASE TrainExtract(j)
    BY <1>7 DEF TrainExtract, FinetuneStep, At, Gives, Reads, NoOutcome, wsVars,
       regVars, ghostVars
  <1>8. CASE TrainHead(j)
    BY <1>8 DEF TrainHead, FinetuneStep, At, Gives, Goes, NoOutcome, wsVars,
       regVars, ghostVars
  <1>9. CASE TrainRecheck(j)
    BY <1>9 DEF TrainRecheck, At, Gives, Goes, NoOutcome, wsVars, regVars, ghostVars
  <1>10. CASE ConvertRead(j)
    BY <1>10 DEF ConvertRead, At, Gives, Reads, NoOutcome, wsVars, regVars, ghostVars
  <1>11. CASE ConvertStage(j)
    BY <1>11 DEF ConvertStage, At, Gives, Reads, NoOutcome, wsVars, regVars, ghostVars
  <1>12. CASE ConvertLabels(j)
    BY <1>12 DEF ConvertLabels, At, Gives, Reads, NoOutcome, wsVars, regVars, ghostVars
  <1>13. CASE ConvertMpk(j)
    BY <1>13 DEF ConvertMpk, At, Gives, Goes, NoOutcome, wsVars, regVars, ghostVars
  <1> QED
    BY <1>1, <1>2, <1>3, <1>4, <1>5, <1>6, <1>7, <1>8, <1>9, <1>10, <1>11,
       <1>12, <1>13, <1>14 DEF Step

----------------------------------------------------------------------------
\* Induction.

\* Nothing that the invariant says of job i depends on another job.
Untouched(i) ==
    /\ job'[i] = job[i] /\ entry'[i] = entry[i]
    /\ regJob'[i] = regJob[i] /\ log'[i] = log[i]
    /\ Published(i)' <=> Published(i)
    /\ i \in uncertain' <=> i \in uncertain
    /\ i \in early' <=> i \in early

\* The revision and the uploads only grow.
Later == rev' \in Nat /\ data' \in Nat /\ rev <= rev' /\ data <= data'

\* What was read stays in range.
LEMMA ReadsStay ==
  ASSUME TypeOK, Later, NEW r, r.rev \in Nat, r.seen \in SUBSET Nat, ReadsFrom(r),
         NEW t, t.rev = r.rev, t.seen = r.seen
  PROVE  /\ t.rev <= rev'
         /\ \A d \in t.seen : t.rev <= d /\ d <= data'
  BY DEF TypeOK, Later, ReadsFrom

\* A job that a step does not touch keeps its part of the invariant.
LEMMA UntouchedKeeps ==
  ASSUME TypeOK, Later, NEW i \in Jobs, JobInv(i), Untouched(i)
  PROVE  JobInv(i)'
  <1>1. job[i].rev \in Nat /\ job[i].seen \in SUBSET Nat
    BY DEF TypeOK, JobType
  <1>2. JobReads(i)'
    <2>1. ReadsFrom(job[i])'
      BY <1>1, ReadsStay DEF JobInv, JobReads, Untouched, ReadsFrom
    <2> QED
      BY <2>1 DEF JobInv, JobReads, Untouched
  <1>3. JobOutcome(i)'
    BY DEF JobInv, JobOutcome, Untouched, OutTells, StateTells
  <1>4. JobKind(i)' /\ JobCancelled(i)'
    BY DEF JobInv, JobKind, JobCancelled, Untouched
  <1> QED
    BY <1>2, <1>3, <1>4 DEF JobInv

\* Returning without a head.
LEMMA GivesStep ==
  ASSUME Inv, NEW j \in Jobs, Gives(j)
  PROVE  TypeOK' /\ JobInv(j)' /\ \A i \in Jobs \ {j} : Untouched(i)
  <1>0. TypeOK /\ JobInv(j)
    BY DEF Inv
  <1>1. PICK o \in {"cancelled", "ftCancelled", "error"} : Return(j, o)
    BY DEF Gives
  <1>2. Moves(j, "clean", 0, {}, o)
    BY <1>0, <1>1, ReturnMoves DEF Outs
  <1>3. TypeOK' /\ \A i \in Jobs \ {j} : Untouched(i)
    BY <1>0, <1>2 DEF Moves, Gives, NoOutcome, TypeOK, Untouched, Published
  <1>4. /\ job[j].kind # "none" /\ job[j].pc \in Unpublished
        /\ job'[j].kind = job[j].kind /\ job'[j].pc = "clean"
        /\ job'[j].rev = 0 /\ job'[j].seen = {} /\ job'[j].out = o
        /\ Published(j)' = Published(j) /\ rev' \in Nat
        /\ UNCHANGED <<entry, regJob, log, early, uncertain>>
    BY <1>0, <1>2 DEF Moves, Gives, NoOutcome, Published, TypeOK
  <1>5. JobReads(j)'
    BY <1>4 DEF JobReads, ReadsFrom, HasRead
  <1>6. JobOutcome(j)'
    BY <1>0, <1>4 DEF JobInv, JobOutcome, OutTells, StateTells, Unpublished,
       TrainSteps, ConvertSteps, Ending
  <1>7. JobKind(j)' /\ JobCancelled(j)'
    BY <1>0, <1>4 DEF JobInv, JobKind, JobCancelled, TrainSteps, Ending,
       BeforeLastCheck
  <1> QED
    BY <1>3, <1>5, <1>6, <1>7 DEF JobInv

\* Reading an input after the revision was captured.
LEMMA ReadsStep ==
  ASSUME Inv, NEW j \in Jobs, Reads(j)
  PROVE  TypeOK' /\ JobInv(j)' /\ \A i \in Jobs \ {j} : Untouched(i)
  <1>0. TypeOK /\ JobInv(j) /\ UploadInStep
    BY DEF Inv
  <1>1. PICK p \in HasRead :
          /\ ReadThen(j, p)
          /\ \/ /\ job[j].kind = "train" /\ job[j].pc \in {"scan", "extract"}
                /\ p \in {"extract", "train"}
             \/ /\ job[j].kind = "convert"
                /\ job[j].pc \in {"read", "stage", "labels"}
                /\ p \in {"stage", "labels", "mpk"}
    BY DEF Reads
  <1>2. Moves(j, p, job[j].rev, job[j].seen \cup {data}, job[j].out)
    <2>1. p \in PcSet
      BY <1>1 DEF PcSet, TrainSteps, ConvertSteps
    <2> QED
      BY <1>0, <1>1, <2>1, ReadMoves
  <1>3. TypeOK' /\ \A i \in Jobs \ {j} : Untouched(i)
    BY <1>0, <1>2 DEF Moves, Reads, NoOutcome, TypeOK, Untouched, Published
  <1>4. /\ job'[j].kind = job[j].kind /\ job'[j].pc = p
        /\ job'[j].rev = job[j].rev /\ job'[j].seen = job[j].seen \cup {data}
        /\ job'[j].out = job[j].out
        /\ Published(j)' = Published(j)
        /\ UNCHANGED <<entry, regJob, log, early, uncertain, rev, data>>
    BY <1>0, <1>2 DEF Moves, Reads, NoOutcome, Published
  <1>5. JobReads(j)'
    <2>1. job[j].rev \in Nat /\ job[j].seen \in SUBSET Nat
          /\ rev \in Nat /\ data \in Nat
      BY <1>0 DEF TypeOK, JobType
    <2>2. rev <= data
      BY <1>0, <2>1 DEF UploadInStep
    <2>3. job[j].rev <= data
      BY <1>0, <2>1, <2>2 DEF JobInv, JobReads, ReadsFrom
    <2> QED
      BY <1>0, <1>4, <2>1, <2>3 DEF JobInv, JobReads, ReadsFrom
  <1>6. JobOutcome(j)'
    BY <1>0, <1>1, <1>4 DEF JobInv, JobOutcome, OutTells, StateTells, Unpublished,
       TrainSteps, ConvertSteps, Ending
  <1>7. JobKind(j)' /\ JobCancelled(j)'
    BY <1>0, <1>1, <1>4 DEF JobInv, JobKind, JobCancelled, TrainSteps, Ending,
       BeforeLastCheck
  <1> QED
    BY <1>3, <1>5, <1>6, <1>7 DEF JobInv

\* Going on without reading.
LEMMA GoesStep ==
  ASSUME Inv, NEW j \in Jobs, Goes(j)
  PROVE  TypeOK' /\ JobInv(j)' /\ \A i \in Jobs \ {j} : Untouched(i)
  <1>0. TypeOK /\ JobInv(j)
    BY DEF Inv
  <1>1. PICK p \in Unpublished :
          /\ Goto(j, p)
          /\ \/ /\ job[j].kind = "train"
                /\ \/ job[j].pc = "spawn" /\ p = "refused"
                   \/ job[j].pc = "prepare" /\ p = "scan"
                   \/ job[j].pc = "train" /\ p = "recheck"
                   \/ job[j].pc = "recheck" /\ p = "publish" /\ ~Cancelled(j)
             \/ /\ job[j].kind = "convert"
                /\ \/ job[j].pc = "admit" /\ p \in {"register", "refused"}
                   \/ job[j].pc = "register" /\ p = "refused"
                   \/ job[j].pc = "mpk" /\ p = "publish"
    BY DEF Goes
  <1>2. Moves(j, p, job[j].rev, job[j].seen, job[j].out)
    BY <1>0, <1>1, GotoMoves DEF PcSet, Unpublished
  <1>3. TypeOK' /\ \A i \in Jobs \ {j} : Untouched(i)
    BY <1>0, <1>2 DEF Moves, Goes, NoOutcome, TypeOK, Untouched, Published
  <1>4. /\ job'[j].kind = job[j].kind /\ job'[j].pc = p
        /\ job'[j].rev = job[j].rev /\ job'[j].seen = job[j].seen
        /\ job'[j].out = job[j].out
        /\ Published(j)' = Published(j)
        /\ UNCHANGED <<entry, regJob, log, early, uncertain, rev, data>>
    BY <1>0, <1>2 DEF Moves, Goes, NoOutcome, Published
  <1>5. JobReads(j)'
    BY <1>0, <1>1, <1>4 DEF JobInv, JobReads, ReadsFrom, HasRead
  <1>6. JobOutcome(j)'
    BY <1>0, <1>1, <1>4 DEF JobInv, JobOutcome, OutTells, StateTells, Unpublished,
       TrainSteps, ConvertSteps, Ending
  <1>7. JobKind(j)' /\ JobCancelled(j)'
    BY <1>0, <1>1, <1>4 DEF JobInv, JobKind, JobCancelled, TrainSteps, Ending,
       BeforeLastCheck, Cancelled
  <1> QED
    BY <1>3, <1>5, <1>6, <1>7 DEF JobInv

\* Taking the slot.
LEMMA AdmittedStep ==
  ASSUME Inv, NEW j \in Jobs, Admitted(j)
  PROVE  TypeOK' /\ JobInv(j)' /\ \A i \in Jobs \ {j} : Untouched(i)
  <1>0. TypeOK /\ JobInv(j)
    BY DEF Inv
  <1>1. Moves(j, "log", job[j].rev, job[j].seen, job[j].out)
    BY <1>0, GotoMoves DEF Admitted, PcSet, TrainSteps
  <1>2. /\ entry' \in [Jobs -> [state : States, cancel : BOOLEAN]]
        /\ regJob' \in [Jobs -> States]
        /\ \A i \in Jobs \ {j} : entry'[i] = entry[i] /\ regJob'[i] = regJob[i]
        /\ \/ /\ job[j].kind = "train" /\ job[j].pc = "spawn"
              /\ entry'[j].state = "running" /\ regJob'[j] = regJob[j]
           \/ /\ job[j].kind = "convert" /\ job[j].pc = "register"
              /\ entry'[j] = entry[j] /\ regJob'[j] = "running"
    <2>1. CASE At(j, "train", "spawn") /\ UNCHANGED regJob
               /\ entry' = [entry EXCEPT ![j] = [state |-> "running",
                                                 cancel |-> FALSE]]
      <3> DEFINE e == [state |-> "running", cancel |-> FALSE]
      <3>1. e \in [state : States, cancel : BOOLEAN] /\ e.state = "running"
        BY DEF States
      <3>2. entry' = [entry EXCEPT ![j] = e]
        BY <2>1
      <3> HIDE DEF e
      <3> QED
        BY <1>0, <2>1, <3>1, <3>2 DEF At, TypeOK
    <2>2. CASE At(j, "convert", "register") /\ UNCHANGED entry
               /\ regJob' = [regJob EXCEPT ![j] = "running"]
      BY <1>0, <2>2 DEF At, TypeOK, States
    <2> QED
      BY <2>1, <2>2 DEF Admitted
  <1>3. TypeOK' /\ \A i \in Jobs \ {j} : Untouched(i)
    BY <1>0, <1>1, <1>2 DEF Moves, Admitted, TypeOK, Untouched, Published
  <1>4. /\ job'[j].kind = job[j].kind /\ job'[j].pc = "log"
        /\ job'[j].rev = job[j].rev /\ job'[j].seen = job[j].seen
        /\ job'[j].out = job[j].out
        /\ Published(j)' = Published(j)
        /\ UNCHANGED <<log, early, uncertain, rev, data>>
    BY <1>0, <1>1 DEF Moves, Admitted, Published
  <1>5. JobReads(j)'
    BY <1>0, <1>4 DEF JobInv, JobReads, ReadsFrom, HasRead
  <1>6. JobOutcome(j)'
    BY <1>0, <1>2, <1>4 DEF JobInv, JobOutcome, OutTells, StateTells, Unpublished,
       TrainSteps, ConvertSteps, Ending
  <1>7. JobKind(j)' /\ JobCancelled(j)'
    BY <1>0, <1>2, <1>4 DEF JobInv, JobKind, JobCancelled, TrainSteps, Ending,
       BeforeLastCheck
  <1> QED
    BY <1>3, <1>5, <1>6, <1>7 DEF JobInv

\* Opening the log, or failing to.
LEMMA OpensStep ==
  ASSUME Inv, NEW j \in Jobs, Opens(j)
  PROVE  TypeOK' /\ JobInv(j)' /\ \A i \in Jobs \ {j} : Untouched(i)
  <1>0. TypeOK /\ JobInv(j)
    BY DEF Inv
  <1>1. PICK p \in {"prepare", "read", "setState"} :
          /\ \/ /\ p = (IF job[j].kind = "train" THEN "prepare" ELSE "read")
                /\ log' = [log EXCEPT ![j] = "started"]
                /\ Moves(j, p, job[j].rev, job[j].seen, job[j].out)
             \/ /\ p = "setState" /\ log' = log
                /\ Moves(j, p, job[j].rev, job[j].seen, "error")
    <2>1. CASE Goto(j, IF job[j].kind = "train" THEN "prepare" ELSE "read")
               /\ log' = [log EXCEPT ![j] = "started"]
      <3> DEFINE q == IF job[j].kind = "train" THEN "prepare" ELSE "read"
      <3>1. q \in PcSet /\ q \in {"prepare", "read", "setState"}
        BY DEF PcSet, TrainSteps, ConvertSteps
      <3>2. Goto(j, q)
        BY <2>1
      <3>3. q = IF job[j].kind = "train" THEN "prepare" ELSE "read"
        OBVIOUS
      <3> HIDE DEF q
      <3>4. Moves(j, q, job[j].rev, job[j].seen, job[j].out)
        BY <1>0, <3>1, <3>2, GotoMoves
      <3> QED
        BY <2>1, <3>1, <3>3, <3>4
    <2>2. CASE job' = [job EXCEPT ![j].pc = "setState", ![j].out = "error"]
               /\ log' = log
      BY <1>0, <2>2, FailMoves
    <2> QED
      BY <2>1, <2>2 DEF Opens
  <1>2. /\ job' \in [Jobs -> JobType] /\ \A i \in Jobs \ {j} : job'[i] = job[i]
        /\ job'[j].kind = job[j].kind /\ job'[j].pc = p
        /\ job'[j].rev = job[j].rev /\ job'[j].seen = job[j].seen
        /\ p = "setState" => job'[j].out = "error"
    BY <1>1 DEF Moves
  <1>3. /\ log' \in [Jobs -> Lines]
        /\ \A i \in Jobs \ {j} : log'[i] = log[i]
        /\ log'[j] \in {log[j], "started"}
    BY <1>0, <1>1 DEF TypeOK, Lines
  <1>4. /\ job[j].kind # "none" /\ job[j].pc = "log"
        /\ Published(j)' = Published(j)
        /\ UNCHANGED <<rev, data, upload, behind, entry, regJob, heads, early, uncertain>>
    BY DEF Opens, Published
  <1>5. TypeOK' /\ \A i \in Jobs \ {j} : Untouched(i)
    BY <1>0, <1>2, <1>3, <1>4 DEF TypeOK, Untouched, Published
  <1>6. JobReads(j)'
    BY <1>0, <1>1, <1>2, <1>4 DEF JobInv, JobReads, ReadsFrom, HasRead
  <1>7. JobOutcome(j)'
    BY <1>0, <1>1, <1>2, <1>3, <1>4 DEF JobInv, JobOutcome, OutTells, StateTells,
       Unpublished, TrainSteps, ConvertSteps, Ending
  <1>8. JobKind(j)' /\ JobCancelled(j)'
    BY <1>0, <1>1, <1>2, <1>4 DEF JobInv, JobKind, JobCancelled, TrainSteps,
       Ending, BeforeLastCheck
  <1> QED
    BY <1>5, <1>6, <1>7, <1>8 DEF JobInv

\* The publish: the head, if one is left, is the job's, records the captured
\* revision, and its result is Ok unless it failed after its commit.
LEMMA PublishStep ==
  ASSUME Inv, NEW j \in Jobs, Publish(j)
  PROVE  /\ TypeOK' /\ JobInv(j)' /\ \A i \in Jobs \ {j} : Untouched(i)
         /\ \A h \in heads' : HeadReads(h)
  <1>0. TypeOK /\ JobInv(j) /\ \A h \in heads : HeadReads(h)
    BY DEF Inv
  <1>1. /\ job[j].pc = "publish" /\ j \notin early /\ ~Published(j)
        /\ job[j].kind # "none"
    BY <1>0 DEF Publish, JobInv, JobOutcome, JobCancelled, Unpublished,
       BeforeLastCheck, Ending
  <1>2. PICK o \in {"ok", "error"} :
          /\ Return(j, o)
          /\ \/ o = "ok" /\ heads' = heads \cup {HeadOf(j)} /\ uncertain' = uncertain
             \/ o = "error" /\ heads' = heads /\ uncertain' = uncertain
             \/ /\ o = "error" /\ heads' = heads \cup {HeadOf(j)}
                /\ uncertain' = uncertain \cup {j}
    BY DEF Publish
  <1>3. Moves(j, "clean", 0, {}, o)
    BY <1>0, <1>2, ReturnMoves DEF Outs
  <1>4. /\ HeadOf(j) \in [job : Jobs, rev : Nat, seen : SUBSET Nat]
        /\ HeadOf(j).job = j /\ HeadReads(HeadOf(j))
    <2>1. job[j].rev \in Nat /\ job[j].seen \in SUBSET Nat
      BY <1>0 DEF TypeOK, JobType
    <2>2. ReadsFrom(job[j]) /\ job[j].seen # {}
      BY <1>0, <1>1 DEF JobInv, JobReads, HasRead
    <2> QED
      BY <2>1, <2>2 DEF HeadOf, HeadReads, ReadsFrom
  <1>5. UNCHANGED <<rev, data, upload, behind, entry, regJob, log, early>>
    BY DEF Publish, wsVars, regVars
  <1>6. /\ \A i \in Jobs \ {j} : Published(i)' <=> Published(i)
        /\ heads' # heads => Published(j)'
        /\ heads' = heads => ~Published(j)'
    BY <1>1, <1>2, <1>4 DEF Published
  <1>7. TypeOK'
    BY <1>0, <1>2, <1>3, <1>4, <1>5 DEF Moves, TypeOK
  <1>8. \A i \in Jobs \ {j} : Untouched(i)
    BY <1>0, <1>2, <1>3, <1>5, <1>6 DEF Moves, Untouched
  <1>9. \A h \in heads' : HeadReads(h)
    BY <1>0, <1>2, <1>4
  <1>10. /\ job'[j].kind = job[j].kind /\ job'[j].pc = "clean"
         /\ job'[j].rev = 0 /\ job'[j].seen = {} /\ job'[j].out = o
         /\ rev' \in Nat
    BY <1>0, <1>3, <1>5 DEF Moves, TypeOK
  <1>11. JobReads(j)'
    BY <1>10 DEF JobReads, ReadsFrom, HasRead
  <1>12. OutTells(j)'
    <2>1. HeadOf(j) \notin heads
      BY <1>1, <1>4 DEF Published
    <2> QED
      BY <1>2, <1>6, <1>10, <2>1 DEF OutTells
  <1>13. JobOutcome(j)'
    BY <1>0, <1>1, <1>2, <1>5, <1>10, <1>12 DEF JobInv, JobOutcome, StateTells,
       Unpublished, TrainSteps, ConvertSteps, Ending
  <1>14. JobKind(j)' /\ JobCancelled(j)'
    BY <1>0, <1>1, <1>5, <1>10 DEF JobInv, JobKind, JobCancelled, TrainSteps,
       Ending
  <1> QED
    BY <1>7, <1>8, <1>9, <1>11, <1>13, <1>14 DEF JobInv

\* The end of a task: its temporary files, its log, its state, its permit.
LEMMA EndingStep ==
  ASSUME Inv, NEW j \in Jobs, Clean(j) \/ LogEnd(j) \/ Release(j)
  PROVE  TypeOK' /\ JobInv(j)' /\ \A i \in Jobs \ {j} : Untouched(i)
  <1>0. TypeOK /\ JobInv(j)
    BY DEF Inv
  <1>1. PICK p \in {"logEnd", "setState", "done"} :
          /\ p = "logEnd" => job[j].pc = "clean" /\ log' = log
          /\ p = "setState" =>
                /\ job[j].pc = "logEnd"
                /\ \/ log' = log
                   \/ log' = [log EXCEPT ![j] =
                                IF @ = "gone" THEN @ ELSE TerminalLine(job[j].out)]
          /\ p = "done" => job[j].pc = "release" /\ log' = log
          /\ p # "done" => Moves(j, p, job[j].rev, job[j].seen, job[j].out)
          /\ p = "done" => Moves(j, p, 0, {}, "none")
    <2>1. CASE Clean(j)
      <3>1. Moves(j, "logEnd", job[j].rev, job[j].seen, job[j].out)
        BY <1>0, <2>1, GotoMoves DEF Clean, PcSet, Ending
      <3> QED
        BY <2>1, <3>1 DEF Clean
    <2>2. CASE LogEnd(j)
      <3>1. Moves(j, "setState", job[j].rev, job[j].seen, job[j].out)
        BY <1>0, <2>2, GotoMoves DEF LogEnd, PcSet, Ending
      <3> QED
        BY <2>2, <3>1 DEF LogEnd
    <2>3. CASE Release(j)
      <3>1. Moves(j, "done", 0, {}, "none")
        BY <1>0, <2>3, EndMoves DEF Release
      <3> QED
        BY <2>3, <3>1 DEF Release
    <2> QED
      BY <2>1, <2>2, <2>3
  <1>2. /\ Published(j)' = Published(j)
        /\ UNCHANGED <<rev, data, upload, behind, entry, regJob, heads, early, uncertain>>
    BY DEF Clean, LogEnd, Release, wsVars, regVars, ghostVars, Published
  <1>3. /\ job' \in [Jobs -> JobType] /\ \A i \in Jobs \ {j} : job'[i] = job[i]
        /\ job'[j].kind = job[j].kind /\ job'[j].pc = p
        /\ p # "done" => /\ job'[j].rev = job[j].rev
                         /\ job'[j].seen = job[j].seen
                         /\ job'[j].out = job[j].out
        /\ p = "done" => job'[j].rev = 0 /\ job'[j].seen = {}
    BY <1>1 DEF Moves
  <1>4. p \in {"logEnd", "setState"} =>
          job[j].out \in Outs \ {"none"} /\ OutTells(j)
    BY <1>0, <1>1 DEF JobInv, JobOutcome, Ending, TypeOK, JobType
  <1>5. /\ log' \in [Jobs -> Lines]
        /\ \A i \in Jobs \ {j} : log'[i] = log[i]
        /\ \/ log'[j] = log[j]
           \/ p = "setState" /\ log'[j] = TerminalLine(job[j].out)
    <2>1. p = "setState" => TerminalLine(job[j].out) \in Lines
      BY <1>4 DEF TerminalLine, Lines, Outs
    <2>2. log \in [Jobs -> Lines]
      BY <1>0 DEF TypeOK
    <2>3. CASE log' = log
      BY <2>2, <2>3
    <2>4. CASE p = "setState"
               /\ log' = [log EXCEPT ![j] =
                            IF @ = "gone" THEN @ ELSE TerminalLine(job[j].out)]
      BY <2>1, <2>2, <2>4
    <2> QED
      BY <1>1, <2>3, <2>4
  <1>6. TypeOK' /\ \A i \in Jobs \ {j} : Untouched(i)
    BY <1>0, <1>2, <1>3, <1>5 DEF TypeOK, Untouched, Published
  <1>7. JobReads(j)'
    <2>1. rev \in Nat
      BY <1>0 DEF TypeOK
    <2> QED
      BY <1>0, <1>1, <1>2, <1>3, <2>1 DEF JobInv, JobReads, ReadsFrom, HasRead
  <1>8. StateTells(j, log[j])'
    <2>1. CASE log'[j] = log[j]
      BY <1>0, <1>2, <2>1 DEF JobInv, JobOutcome, StateTells
    <2>2. CASE p = "setState" /\ log'[j] = TerminalLine(job[j].out)
      BY <1>2, <1>4, <2>2 DEF StateTells, OutTells, TerminalLine, Outs
    <2> QED
      BY <1>5, <2>1, <2>2
  <1>9. JobOutcome(j)'
    BY <1>0, <1>1, <1>2, <1>3, <1>5, <1>8 DEF JobInv, JobOutcome, OutTells,
       StateTells, Unpublished, TrainSteps, ConvertSteps, Ending
  <1>10. JobKind(j)' /\ JobCancelled(j)'
    BY <1>0, <1>1, <1>2, <1>3 DEF JobInv, JobKind, JobCancelled, TrainSteps,
       Ending, BeforeLastCheck
  <1> QED
    BY <1>6, <1>7, <1>9, <1>10 DEF JobInv

\* The terminal state says what the task's result says.
LEMMA SetStateStep ==
  ASSUME Inv, NEW j \in Jobs, SetState(j)
  PROVE  TypeOK' /\ JobInv(j)' /\ \A i \in Jobs \ {j} : Untouched(i)
  <1>0. TypeOK /\ JobInv(j)
    BY DEF Inv
  <1>1. Moves(j, "release", job[j].rev, job[j].seen, job[j].out)
    BY <1>0, GotoMoves DEF SetState, PcSet
  <1> DEFINE st == TerminalState(job[j].out)
  <1>2. job[j].pc = "setState" /\ job[j].out \in Outs \ {"none"} /\ OutTells(j)
    BY <1>0 DEF SetState, JobInv, JobOutcome, Ending, TypeOK, JobType
  <1>3. st \in States \ {"none", "running"} /\ StateTells(j, st)
        /\ (st = "completed" <=> job[j].out = "ok")
    BY <1>2 DEF StateTells, OutTells, TerminalState, Outs, States
  <1> HIDE DEF st
  <1>4. /\ entry' \in [Jobs -> [state : States, cancel : BOOLEAN]]
        /\ regJob' \in [Jobs -> States]
        /\ \A i \in Jobs \ {j} : entry'[i] = entry[i] /\ regJob'[i] = regJob[i]
        /\ \/ /\ job[j].kind = "train"
              /\ entry'[j].state = st /\ regJob'[j] = regJob[j]
           \/ /\ job[j].kind # "train"
              /\ entry'[j] = entry[j] /\ regJob'[j] = st
    <2>1. CASE job[j].kind = "train"
      <3>1. entry' = [entry EXCEPT ![j].state = st] /\ regJob' = regJob
        BY <2>1 DEF SetState, st
      <3> QED
        BY <1>0, <1>3, <2>1, <3>1 DEF TypeOK
    <2>2. CASE job[j].kind # "train"
      <3>1. regJob' = [regJob EXCEPT ![j] = st] /\ entry' = entry
        BY <2>2 DEF SetState, st
      <3> QED
        BY <1>0, <1>3, <2>2, <3>1 DEF TypeOK
    <2> QED
      BY <2>1, <2>2
  <1>5. /\ Published(j)' = Published(j)
        /\ UNCHANGED <<rev, data, upload, behind, log, heads, early, uncertain>>
    BY DEF SetState, wsVars, ghostVars, Published
  <1>6. /\ job'[j].kind = job[j].kind /\ job'[j].pc = "release"
        /\ job'[j].rev = job[j].rev /\ job'[j].seen = job[j].seen
    BY <1>1 DEF Moves
  <1>7. TypeOK' /\ \A i \in Jobs \ {j} : Untouched(i)
    BY <1>0, <1>1, <1>4, <1>5 DEF Moves, TypeOK, Untouched, Published
  <1>8. JobReads(j)'
    BY <1>0, <1>5, <1>6 DEF JobInv, JobReads, ReadsFrom, HasRead
  <1>9. StateTells(j, entry[j].state)' /\ StateTells(j, regJob[j])'
        /\ StateTells(j, log[j])'
    BY <1>0, <1>3, <1>4, <1>5 DEF JobInv, JobOutcome, StateTells
  <1>10. JobOutcome(j)'
    <2>1. "release" \notin Unpublished \cup Ending \cup {"clean", "logEnd"}
      BY DEF Unpublished, TrainSteps, ConvertSteps, Ending
    <2>2. JobOutcome(j) /\ job[j].kind # "none"
      BY <1>0, <1>2 DEF JobInv, JobOutcome
    <2>3. job[j].kind # "convert" => regJob'[j] \in {"none", "running"}
      <3>1. job[j].kind \in {"none", "train", "convert"}
        BY <1>0 DEF TypeOK, JobType
      <3>2. job[j].kind = "train" => regJob'[j] = regJob[j]
        BY <1>4
      <3> QED
        BY <2>2, <3>1, <3>2 DEF JobOutcome
    <2> QED
      BY <1>6, <1>9, <2>1, <2>2, <2>3 DEF JobOutcome
  <1>11. JobKind(j)' /\ JobCancelled(j)'
    <2>1. job[j].kind # "train" => entry'[j].state = entry[j].state
      BY <1>4
    <2> QED
      BY <1>0, <1>2, <1>3, <1>4, <1>5, <1>6, <2>1 DEF JobInv, JobKind,
         JobCancelled, TrainSteps, Ending, BeforeLastCheck
  <1> QED
    BY <1>7, <1>8, <1>10, <1>11 DEF JobInv

\* A request captures the revision before anything is read.
LEMMA CaptureStep ==
  ASSUME Inv, NEW j \in Jobs, TrainCapture(j) \/ ConvertCapture(j)
  PROVE  TypeOK' /\ JobInv(j)' /\ \A i \in Jobs \ {j} : Untouched(i)
  <1>0. TypeOK /\ JobInv(j) /\ rev \in Nat
    BY DEF Inv, TypeOK
  <1>1. job[j].kind = "none" /\ job[j].pc = "idle"
    BY DEF TrainCapture, ConvertCapture, NoJob
  <1>2. PICK r \in JobType :
          /\ job' = [job EXCEPT ![j] = r]
          /\ \/ r.kind = "train" /\ r.pc = "spawn"
             \/ r.kind = "convert" /\ r.pc = "admit"
          /\ r.rev = rev /\ r.seen = {} /\ r.out = "none"
    <2>1. CASE TrainCapture(j)
      <3> DEFINE r == [NoJob EXCEPT !.kind = "train", !.pc = "spawn", !.rev = rev]
      <3>1. /\ r \in JobType /\ r.kind = "train" /\ r.pc = "spawn" /\ r.rev = rev
            /\ r.seen = {} /\ r.out = "none"
        BY <1>0 DEF JobType, NoJob, PcSet, TrainSteps, Outs
      <3>2. job' = [job EXCEPT ![j] = r]
        BY <2>1 DEF TrainCapture
      <3> HIDE DEF r
      <3> QED
        BY <3>1, <3>2
    <2>2. CASE ConvertCapture(j)
      <3> DEFINE r == [NoJob EXCEPT !.kind = "convert", !.pc = "admit", !.rev = rev]
      <3>1. /\ r \in JobType /\ r.kind = "convert" /\ r.pc = "admit"
            /\ r.rev = rev /\ r.seen = {} /\ r.out = "none"
        BY <1>0 DEF JobType, NoJob, PcSet, ConvertSteps, Outs
      <3>2. job' = [job EXCEPT ![j] = r]
        BY <2>2 DEF ConvertCapture
      <3> HIDE DEF r
      <3> QED
        BY <3>1, <3>2
    <2> QED
      BY <2>1, <2>2
  <1>3. /\ job' \in [Jobs -> JobType] /\ job'[j] = r
        /\ \A i \in Jobs \ {j} : job'[i] = job[i]
    BY <1>0, <1>2 DEF TypeOK
  <1>4. UNCHANGED <<rev, data, upload, behind, entry, regJob, log, heads, early, uncertain>>
        /\ Published(j)' = Published(j)
    BY DEF TrainCapture, ConvertCapture, wsVars, regVars, ghostVars, Published
  <1>5. TypeOK' /\ \A i \in Jobs \ {j} : Untouched(i)
    BY <1>0, <1>3, <1>4 DEF TypeOK, Untouched, Published
  <1>6. JobReads(j)'
    BY <1>0, <1>2, <1>3, <1>4 DEF JobReads, ReadsFrom, HasRead
  <1>7. JobOutcome(j)'
    BY <1>0, <1>1, <1>2, <1>3, <1>4 DEF JobInv, JobOutcome, OutTells, StateTells,
       Unpublished, TrainSteps, ConvertSteps, Ending
  <1>8. JobKind(j)' /\ JobCancelled(j)'
    BY <1>0, <1>1, <1>2, <1>3, <1>4 DEF JobInv, JobKind, JobCancelled, TrainSteps
  <1> QED
    BY <1>5, <1>6, <1>7, <1>8 DEF JobInv

\* The requests and the reaper may forget an entry, and logs of jobs.
Forgets ==
    /\ UNCHANGED <<regJob, job, heads, early, uncertain>>
    /\ UNCHANGED <<rev, data, upload, behind>>
    /\ \/ /\ \E j \in Jobs : job[j].pc = "done"
                             /\ entry' = [entry EXCEPT ![j] = NoEntry]
          /\ log' = log
       \/ /\ entry' = entry
          /\ log' \in [Jobs -> Lines]
          /\ \A i \in Jobs : log'[i] \in {log[i], "gone"}

\* Reaping an entry, pruning or deleting logs and deleting the workspace.
LEMMA ForgetsForms ==
  ASSUME TypeOK,
         \/ \E j \in Jobs : ReapFinished(j) \/ LogPrune(j)
         \/ \E kind \in {"train", "convert"} : LogDelete(kind)
         \/ WorkspaceDelete
  PROVE  Forgets
  <1>0. log \in [Jobs -> Lines]
    BY DEF TypeOK
  <1>1. ASSUME NEW j \in Jobs, ReapFinished(j) PROVE Forgets
    BY <1>1 DEF ReapFinished, Forgets, wsVars, ghostVars
  <1>2. ASSUME NEW j \in Jobs, LogPrune(j) PROVE Forgets
    BY <1>0, <1>2 DEF LogPrune, Forgets, wsVars, regVars, ghostVars, Lines
  <1>3. ASSUME NEW kind \in {"train", "convert"}, LogDelete(kind) PROVE Forgets
    <2>1. /\ log' \in [Jobs -> Lines]
          /\ \A i \in Jobs : log'[i] \in {log[i], "gone"}
      BY <1>0, <1>3 DEF LogDelete, Lines
    <2> QED
      BY <1>3, <2>1 DEF LogDelete, Forgets, wsVars, regVars, ghostVars
  <1>4. CASE WorkspaceDelete
    <2>1. /\ log' \in [Jobs -> Lines]
          /\ \A i \in Jobs : log'[i] \in {log[i], "gone"}
      BY <1>0, <1>4 DEF WorkspaceDelete, Lines
    <2> QED
      BY <1>4, <2>1 DEF WorkspaceDelete, Forgets, regVars, ghostVars
  <1> QED
    BY <1>1, <1>2, <1>3, <1>4

\* Forgetting contradicts nothing.
LEMMA ForgetsStep == ASSUME Inv, Forgets PROVE Inv'
  <1>0. TypeOK /\ UploadInStep /\ \A h \in heads : HeadReads(h)
    BY DEF Inv
  <1>1. /\ entry' \in [Jobs -> [state : States, cancel : BOOLEAN]]
        /\ log' \in [Jobs -> Lines]
        /\ \A i \in Jobs :
              /\ log'[i] \in {log[i], "gone"}
              /\ \/ entry'[i] = entry[i]
                 \/ entry'[i].state = "none" /\ job[i].pc = "done"
    <2>1. CASE entry' = entry
      BY <1>0, <2>1 DEF Forgets, TypeOK
    <2>2. ASSUME NEW j \in Jobs, job[j].pc = "done", log' = log,
                 entry' = [entry EXCEPT ![j] = NoEntry]
          PROVE  <1>1!:
      <3>1. NoEntry \in [state : States, cancel : BOOLEAN] /\ NoEntry.state = "none"
        BY DEF NoEntry, States
      <3> QED
        BY <1>0, <2>2, <3>1 DEF TypeOK
    <2> QED
      BY <2>1, <2>2 DEF Forgets
  <1>2. TypeOK'
    BY <1>0, <1>1 DEF TypeOK, Forgets
  <1>3. UploadInStep' /\ \A h \in heads' : HeadReads(h)'
    BY <1>0 DEF UploadInStep, Forgets, HeadReads, ReadsFrom
  <1>4. ASSUME NEW i \in Jobs PROVE JobInv(i)'
    <2>0. JobInv(i) /\ (Published(i)' <=> Published(i))
          /\ UNCHANGED <<regJob, job, early, uncertain, rev, data>>
      BY DEF Inv, Forgets, Published
    <2>1. JobReads(i)'
      BY <2>0 DEF JobInv, JobReads, ReadsFrom
    <2>2. JobOutcome(i)'
      <3>1. StateTells(i, log[i])' /\ StateTells(i, entry[i].state)'
            /\ StateTells(i, regJob[i])'
        BY <1>1, <2>0 DEF JobInv, JobOutcome, StateTells
      <3>2. /\ log[i] \in {"none", "started", "gone"} =>
                 log'[i] \in {"none", "started", "gone"}
            /\ entry[i].state \in {"none", "running"} =>
                 entry'[i].state \in {"none", "running"}
        BY <1>1
      <3>3. job[i].pc \in Ending => job[i].out # "none" /\ OutTells(i)'
        BY <2>0 DEF JobInv, JobOutcome, OutTells
      <3> QED
        BY <2>0, <3>1, <3>2, <3>3 DEF JobInv, JobOutcome
    <2>3. JobKind(i)' /\ JobCancelled(i)'
      BY <1>1, <2>0 DEF JobInv, JobKind, JobCancelled, BeforeLastCheck
    <2> QED
      BY <2>1, <2>2, <2>3 DEF JobInv
  <1> QED
    BY <1>2, <1>3, <1>4 DEF Inv

\* A cancellation, of one run or of all of them.
LEMMA CancelStep ==
  ASSUME Inv, NEW J, J \subseteq {j \in Jobs : entry[j].state = "running"},
         CancelSet(J)
  PROVE  Inv'
  <1>0. TypeOK /\ UploadInStep /\ \A h \in heads : HeadReads(h)
    BY DEF Inv
  <1>1. UNCHANGED <<rev, data, upload, behind, regJob, job, log, heads, uncertain>>
    BY DEF CancelSet, wsVars
  <1>2. /\ entry' \in [Jobs -> [state : States, cancel : BOOLEAN]]
        /\ \A i \in Jobs : /\ entry'[i].state = entry[i].state
                           /\ entry[i].cancel \/ i \in J => entry'[i].cancel
    <2>1. ASSUME NEW i \in Jobs
          PROVE  /\ entry'[i] \in [state : States, cancel : BOOLEAN]
                 /\ entry'[i].state = entry[i].state
                 /\ entry[i].cancel \/ i \in J => entry'[i].cancel
      <3>1. entry[i] \in [state : States, cancel : BOOLEAN]
        BY <1>0 DEF TypeOK
      <3>2. CASE i \in J
        <4>1. entry'[i] = [entry[i] EXCEPT !.cancel = TRUE]
          BY <3>2 DEF CancelSet
        <4> QED
          BY <3>1, <4>1
      <3>3. CASE i \notin J
        <4>1. entry'[i] = entry[i]
          BY <3>3 DEF CancelSet
        <4> QED
          BY <3>1, <3>3, <4>1
      <3> QED
        BY <3>2, <3>3
    <2> QED
      BY <2>1 DEF CancelSet
  <1>3. early' = early \cup {j \in J : job[j].pc \in BeforeLastCheck}
    BY DEF CancelSet
  <1>4. TypeOK'
    BY <1>0, <1>1, <1>2, <1>3 DEF TypeOK
  <1>5. UploadInStep' /\ \A h \in heads' : HeadReads(h)'
    BY <1>0, <1>1 DEF UploadInStep, HeadReads, ReadsFrom
  <1>6. ASSUME NEW i \in Jobs PROVE JobInv(i)'
    <2>0. JobInv(i) /\ (Published(i)' <=> Published(i))
      BY <1>1 DEF Inv, Published
    <2>1. JobReads(i)' /\ JobKind(i)'
      BY <1>1, <1>2, <2>0 DEF JobInv, JobReads, JobKind, ReadsFrom
    <2>2. JobOutcome(i)'
      BY <1>1, <1>2, <2>0 DEF JobInv, JobOutcome, OutTells, StateTells
    <2>3. JobCancelled(i)'
      <3>1. CASE i \in early
        BY <1>1, <1>2, <2>0, <3>1 DEF JobInv, JobCancelled
      <3>2. CASE i \in J /\ job[i].pc \in BeforeLastCheck
        <4>1. entry[i].state = "running" /\ job[i].kind = "train"
          BY <2>0, <3>2 DEF JobInv, JobKind
        <4>2. ~Published(i)
          BY <2>0, <3>2 DEF JobInv, JobOutcome, BeforeLastCheck, Unpublished,
             TrainSteps
        <4>3. job[i].pc \notin Ending
          BY <3>2 DEF BeforeLastCheck, Ending
        <4> QED
          BY <1>1, <1>2, <2>0, <3>2, <4>1, <4>2, <4>3 DEF JobCancelled
      <3>3. CASE i \notin early'
        BY <3>3 DEF JobCancelled
      <3> QED
        BY <1>3, <3>1, <3>2, <3>3
    <2> QED
      BY <2>1, <2>2, <2>3 DEF JobInv
  <1> QED
    BY <1>4, <1>5, <1>6 DEF Inv

\* An upload moves the data ahead and then the revision after it, or fails
\* in between.
LEMMA UploadStep ==
  ASSUME Inv, UploadBegin \/ UploadBytes \/ UploadEnd \/ UploadFails
  PROVE  Inv'
  <1>0. TypeOK /\ UploadInStep /\ \A h \in heads : HeadReads(h)
    BY DEF Inv
  <1>1. UNCHANGED <<entry, regJob, job, log, heads, early, uncertain>>
    BY DEF UploadBegin, UploadBytes, UploadEnd, UploadFails, regVars, ghostVars
  <1>2. /\ Later /\ UploadInStep' /\ upload' \in {"no", "bytes", "publish"}
        /\ behind' \in BOOLEAN
    <2> USE <1>0 DEF Later, UploadInStep, TypeOK
    <2>1. CASE UploadBegin
      BY <2>1 DEF UploadBegin
    <2>2. CASE UploadBytes
      BY <2>2 DEF UploadBytes
    <2>3. CASE UploadEnd
      <3>1. rev' = data /\ data' = data /\ upload' = "no" /\ behind' = FALSE
        BY <2>3 DEF UploadEnd
      <3>2. rev \in Nat /\ data \in Nat /\ rev <= data
        OBVIOUS
      <3>3. Later /\ rev' <= data' /\ data' = rev'
        BY <3>1, <3>2
      <3> QED
        BY <3>1, <3>3
    <2>4. CASE UploadFails
      <3>1. upload' = "no" /\ rev' = rev /\ data' = data
        BY <2>4 DEF UploadFails
      <3>2. behind' \in BOOLEAN /\ (behind \/ upload = "publish" => behind')
        BY <2>4 DEF UploadFails
      <3> QED
        BY <3>1, <3>2
    <2> QED
      BY <2>1, <2>2, <2>3, <2>4
  <1>3. TypeOK'
    BY <1>0, <1>1, <1>2 DEF TypeOK, Later
  <1>4. \A h \in heads' : HeadReads(h)'
    <2> SUFFICES ASSUME NEW h \in heads PROVE HeadReads(h)'
      BY <1>1
    <2>1. h.rev \in Nat /\ h.seen \in SUBSET Nat
      BY <1>0 DEF TypeOK
    <2> QED
      BY <1>0, <1>2, <2>1, ReadsStay DEF HeadReads, ReadsFrom
  <1>5. \A i \in Jobs : JobInv(i)'
    <2> TAKE i \in Jobs
    <2>1. Untouched(i)
      BY <1>1 DEF Untouched, Published
    <2> QED
      BY <1>0, <1>2, <2>1, UntouchedKeeps DEF Inv
  <1> QED
    BY <1>2, <1>3, <1>4, <1>5 DEF Inv

\* A step of one job.
LEMMA OneJobStep ==
  ASSUME Inv, NEW j \in Jobs, TrainCapture(j) \/ ConvertCapture(j) \/ Step(j)
  PROVE  Inv'
  <1>0. TypeOK /\ UploadInStep /\ \A h \in heads : HeadReads(h)
    BY DEF Inv
  <1>1. UNCHANGED <<rev, data, upload, behind>>
    <2>1. CASE TrainCapture(j) \/ ConvertCapture(j)
      BY <2>1 DEF TrainCapture, ConvertCapture, wsVars
    <2>2. CASE Step(j)
      BY <2>2, StepForms DEF Gives, Reads, Goes, NoOutcome, Admitted, Opens,
         Publish, Clean, LogEnd, SetState, Release, wsVars
    <2> QED
      BY <2>1, <2>2
  <1>2. /\ TypeOK' /\ JobInv(j)' /\ \A i \in Jobs \ {j} : Untouched(i)
        /\ \A h \in heads' : HeadReads(h)
    <2>1. CASE Publish(j)
      BY <2>1, PublishStep
    <2>2. CASE TrainCapture(j) \/ ConvertCapture(j)
      BY <1>0, <2>2, CaptureStep DEF TrainCapture, ConvertCapture
    <2>3. CASE Gives(j) \/ Reads(j) \/ Goes(j)
      BY <1>0, <2>3, GivesStep, ReadsStep, GoesStep DEF Gives, Reads, Goes, NoOutcome
    <2>4. CASE Admitted(j) \/ Opens(j)
      BY <1>0, <2>4, AdmittedStep, OpensStep DEF Admitted, Opens
    <2>5. CASE Clean(j) \/ LogEnd(j) \/ Release(j) \/ SetState(j)
      BY <1>0, <2>5, EndingStep, SetStateStep DEF Clean, LogEnd, Release, SetState
    <2> QED
      BY <2>1, <2>2, <2>3, <2>4, <2>5, StepForms
  <1>3. Later
    BY <1>0, <1>1 DEF Later, TypeOK
  <1>4. \A i \in Jobs : JobInv(i)'
    BY <1>0, <1>2, <1>3, UntouchedKeeps DEF Inv
  <1>5. UploadInStep' /\ \A h \in heads' : HeadReads(h)'
    BY <1>0, <1>1, <1>2 DEF UploadInStep, HeadReads, ReadsFrom
  <1> QED
    BY <1>2, <1>4, <1>5 DEF Inv

\* The invariant holds initially.
LEMMA InitInv == Init => Inv
  <1> SUFFICES ASSUME Init PROVE Inv
    OBVIOUS
  <1>1. /\ NoJob \in JobType /\ NoEntry \in [state : States, cancel : BOOLEAN]
        /\ NoJob.kind = "none" /\ NoJob.pc = "idle" /\ NoJob.rev = 0
        /\ NoJob.seen = {} /\ NoEntry.state = "none"
    BY DEF NoJob, NoEntry, JobType, PcSet, Outs, States
  <1>2. TypeOK
    BY <1>1 DEF Init, TypeOK, States, Lines
  <1>3. UploadInStep /\ \A h \in heads : HeadReads(h)
    BY DEF Init, UploadInStep
  <1>4. ASSUME NEW j \in Jobs PROVE JobInv(j)
    <2>1. /\ job[j] = NoJob /\ entry[j] = NoEntry /\ regJob[j] = "none"
          /\ log[j] = "none" /\ ~Published(j) /\ j \notin early /\ rev = 1
      BY DEF Init, Published
    <2>2. JobReads(j)
      BY <1>1, <2>1 DEF JobReads, ReadsFrom, HasRead
    <2>3. JobOutcome(j)
      BY <1>1, <2>1 DEF JobOutcome, StateTells, Ending
    <2>4. JobKind(j) /\ JobCancelled(j)
      BY <1>1, <2>1 DEF JobKind, JobCancelled
    <2> QED
      BY <2>2, <2>3, <2>4 DEF JobInv
  <1> QED
    BY <1>2, <1>3, <1>4 DEF Inv

\* Nothing changes.
LEMMA StutterStep == ASSUME Inv, UNCHANGED vars PROVE Inv'
  <1>1. UNCHANGED <<rev, data, upload, behind, entry, regJob, job, log, heads, early,
                    uncertain>>
    BY DEF vars, wsVars, regVars, ghostVars
  <1>2. TypeOK /\ UploadInStep /\ (\A h \in heads : HeadReads(h))
        /\ (\A i \in Jobs : JobInv(i))
    BY DEF Inv
  <1>3. TypeOK' /\ UploadInStep' /\ \A h \in heads' : HeadReads(h)'
    BY <1>1, <1>2 DEF TypeOK, UploadInStep, HeadReads, ReadsFrom
  <1>4. ASSUME NEW i \in Jobs PROVE JobInv(i)'
    BY <1>1, <1>2, <1>3, UntouchedKeeps DEF Untouched, Published, Later, TypeOK
  <1> QED
    BY <1>3, <1>4 DEF Inv

----------------------------------------------------------------------------
\* Theorems.

\* The invariant is inductive: every step of a training run, a conversion or
\* a request that interferes with them preserves it.
THEOREM Invariance == Spec => []Inv
  <1>1. ASSUME Inv, [Next]_vars PROVE Inv'
    <2>1. CASE \E j \in Jobs : TrainCapture(j) \/ ConvertCapture(j) \/ Step(j)
      BY <1>1, <2>1, OneJobStep
    <2>2. CASE \/ \E j \in Jobs : ReapFinished(j) \/ LogPrune(j)
               \/ \E kind \in {"train", "convert"} : LogDelete(kind)
               \/ WorkspaceDelete
      BY <1>1, <2>2, ForgetsForms, ForgetsStep DEF Inv
    <2>3. ASSUME NEW j \in Jobs, Cancel(j) PROVE Inv'
      BY <1>1, <2>3, CancelStep DEF Cancel
    <2>4. CASE CancelAll
      BY <1>1, <2>4, CancelStep DEF CancelAll
    <2>5. CASE UploadBegin \/ UploadBytes \/ UploadEnd \/ UploadFails
      BY <1>1, <2>5, UploadStep
    <2>6. CASE UNCHANGED vars
      BY <1>1, <2>6, StutterStep
    <2> QED
      BY <1>1, <2>1, <2>2, <2>3, <2>4, <2>5, <2>6 DEF Next
  <1> QED
    BY InitInv, <1>1, PTL DEF Spec

\* A training run cancelled before its last check of the flag publishes no
\* head and is never reported Completed.
THEOREM CancelIsHonoured == Spec => []CancelledNeverPublishes
  <1>1. Inv => CancelledNeverPublishes
    BY DEF Inv, TypeOK, JobInv, JobCancelled, Published, CancelledNeverPublishes
  <1> QED
    BY <1>1, Invariance, PTL

\* A terminal state or log line tells truly whether the head was published.
THEOREM OutcomeIsTrue == Spec => []OutcomeTellsHead
  <1>1. ASSUME Inv, NEW j \in Jobs
        PROVE  /\ StateTells(j, entry[j].state) /\ StateTells(j, regJob[j])
               /\ StateTells(j, log[j])
    BY <1>1 DEF Inv, JobInv, JobOutcome
  <1>2. Inv => OutcomeTellsHead
    BY <1>1 DEF OutcomeTellsHead, StateTells, Published
  <1> QED
    BY <1>2, Invariance, PTL

\* A head that records the current revision was made from the current inputs,
\* however uploads interleave with the job's reads, and wherever they fail
\* but between the rename and the publish of the revision.
THEOREM HeadIsOfOneVersion == Spec => []CurrentHeadOneVersion
  <1>1. ASSUME Inv, NEW h \in heads, upload = "no", ~behind, h.rev = rev
        PROVE  h.seen = {data}
    <2>1. /\ rev \in Nat /\ data \in Nat /\ data = rev
          /\ h.seen \in SUBSET Nat /\ h.seen # {}
          /\ \A d \in h.seen : h.rev <= d /\ d <= data
      BY <1>1 DEF Inv, TypeOK, UploadInStep, HeadReads, ReadsFrom
    <2>2. \A d \in h.seen : d = data
      BY <1>1, <2>1
    <2> QED
      BY <2>1, <2>2
  <1>2. Inv => CurrentHeadOneVersion
    BY <1>1 DEF CurrentHeadOneVersion
  <1> QED
    BY <1>2, Invariance, PTL

============================================================================
