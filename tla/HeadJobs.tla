------------------------------ MODULE HeadJobs ------------------------------
(***************************************************************************)
(* The jobs that make heads on one workspace: training runs                *)
(* (api/routes/training.rs, training.rs, training/finetune.rs) and         *)
(* conversions (api/routes/converter.rs, converter.rs), with the requests  *)
(* that interfere with them: cancel, upload, log delete and workspace      *)
(* delete.                                                                 *)
(*                                                                         *)
(* A training run holds the one permit of its own registry and no job of   *)
(* the file manager's registry; a conversion holds the one convert permit  *)
(* and a Convert job of that registry.  The inputs are abstracted to the   *)
(* number of the upload that wrote them, a head to the revision it records *)
(* and the inputs its job read.  What the numbers of a dataset may refuse  *)
(* is a choice; HeadPipeline has the arithmetic.                             *)
(***************************************************************************)
EXTENDS Naturals, FiniteSets

CONSTANTS
    Jobs,        \* job ids
    None,        \* no job
    MaxUploads,  \* bound: uploads
    MaxFaults    \* bound: I/O errors and panics

ASSUME HeadJobsAssumption ==
    None \notin Jobs /\ MaxUploads \in Nat /\ MaxFaults \in Nat

VARIABLES
    there,     \* workspace.json exists
    rev,       \* cached workspace revision, named by the upload it stands for
    data,      \* number of the upload that wrote the inputs
    upload,    \* "no", "bytes" (lock held) or "publish" (bytes are moved)
    behind,    \* an upload failed after its bytes were moved, and none since
    permit,    \* holder of the training semaphore
    convert,   \* holder of CONVERT_SEMAPHORE
    entry,     \* training registry: state and cancel flag of each run
    regJob,    \* file manager registry: state of each Convert job
    job,       \* what each job's task is doing
    temp,      \* files and directories under .tmp
    log,       \* last line of each job's log
    heads,     \* published heads
    early,     \* runs cancelled before their last check
    uncertain, \* jobs whose publish failed after its commit
    faults

wsVars == <<there, rev, data, upload, behind>>
slotVars == <<permit, convert>>
regVars == <<entry, regJob>>
ghostVars == <<early, uncertain>>
vars == <<wsVars, slotVars, regVars, job, temp, log, heads,
          ghostVars, faults>>

NoJob == [kind |-> "none", pc |-> "idle", rev |-> 0, seen |-> {}, out |-> "none"]
NoEntry == [state |-> "none", cancel |-> FALSE]

Init ==
    /\ there = TRUE /\ rev = 1 /\ data = 1 /\ upload = "no" /\ behind = FALSE
    /\ permit = None /\ convert = None
    /\ entry = [j \in Jobs |-> NoEntry] /\ regJob = [j \in Jobs |-> "none"]
    /\ job = [j \in Jobs |-> NoJob]
    /\ temp = {} /\ log = [j \in Jobs |-> "none"]
    /\ heads = {} /\ early = {} /\ uncertain = {} /\ faults = 0

----------------------------------------------------------------------------
\* Steps of a task.

At(j, kind, pc) == job[j].kind = kind /\ job[j].pc = pc
Goto(j, pc) == job' = [job EXCEPT ![j].pc = pc]
\* An input file is opened and read.
ReadThen(j, pc) ==
    job' = [job EXCEPT ![j].pc = pc, ![j].seen = @ \cup {data}]
\* The inner function returns, and what it had read goes with it.
Return(j, out) ==
    job' = [job EXCEPT ![j] = [NoJob EXCEPT !.kind = job[j].kind,
                                            !.pc = "clean", !.out = out]]
\* The task is over.
End(j) == job' = [job EXCEPT ![j] = [NoJob EXCEPT !.kind = job[j].kind,
                                                 !.pc = "done"]]

NoFault == UNCHANGED faults
Fault == faults < MaxFaults /\ faults' = faults + 1
Cancelled(j) == entry[j].cancel

----------------------------------------------------------------------------
\* start_training and JobRegistry::spawn

\* The route's summary: the revision the head will record.
TrainCapture(j) ==
    /\ job[j] = NoJob /\ there
    /\ job' = [job EXCEPT ![j] = [NoJob EXCEPT !.kind = "train",
                                               !.pc = "spawn", !.rev = rev]]
    /\ UNCHANGED <<wsVars, slotVars, regVars, temp, log, heads,
                   ghostVars, faults>>

\* try_acquire_owned, or AnotherTrainRunning.
TrainSpawn(j) ==
    /\ At(j, "train", "spawn")
    /\ IF permit = None
       THEN /\ permit' = j
            /\ entry' = [entry EXCEPT ![j] = [state |-> "running", cancel |-> FALSE]]
            /\ Goto(j, "log")
       ELSE Goto(j, "refused") /\ UNCHANGED <<permit, entry>>
    /\ UNCHANGED <<wsVars, convert, regJob, temp, log, heads,
                   ghostVars, faults>>

\* TrainJobLog::open and "started": a failure fails the run.
TrainLog(j) ==
    /\ At(j, "train", "log")
    /\ \/ /\ log' = [log EXCEPT ![j] = "started"]
          /\ Goto(j, "prepare") /\ NoFault
       \/ /\ job' = [job EXCEPT ![j].pc = "setState", ![j].out = "error"]
          /\ Fault /\ UNCHANGED log
    /\ UNCHANGED <<wsVars, slotVars, regVars, temp, heads, ghostVars>>

\* summary, the datasets directory, the tempdir, the first cancel check.
TrainPrepare(j) ==
    /\ At(j, "train", "prepare")
    /\ IF ~there
       THEN Return(j, "error") /\ NoFault /\ UNCHANGED temp
       ELSE \/ Return(j, "error") /\ Fault /\ UNCHANGED temp
            \/ /\ temp' = temp \cup {<<j, "dir">>} /\ NoFault
               /\ IF Cancelled(j) THEN Return(j, "cancelled") ELSE Goto(j, "scan")
    /\ UNCHANGED <<wsVars, slotVars, regVars, log, heads, ghostVars>>

\* A step of finetune::run, which looks at the cancel flag before it and
\* may refuse the dataset.  A panic becomes an error (catch_unwind).
FinetuneStep(j, pc) ==
    /\ At(j, "train", pc)
    /\ UNCHANGED <<wsVars, slotVars, regVars, temp, log, heads,
                   ghostVars>>

\* scan_dataset, the class counts.
TrainScan(j) ==
    /\ FinetuneStep(j, "scan") /\ NoFault
    /\ IF Cancelled(j) THEN Return(j, "ftCancelled")
       ELSE \/ Return(j, "error")
            \/ there /\ ReadThen(j, "extract")

\* extract_features, chunk by chunk, then validate_post_extract_quality and
\* stratified_split_indices.  A file that has gone is dropped.
TrainExtract(j) ==
    /\ FinetuneStep(j, "extract") /\ NoFault
    /\ IF Cancelled(j) THEN Return(j, "ftCancelled")
       ELSE \/ Return(j, "error")
            \/ there /\ ReadThen(j, "extract")
            \/ there /\ ReadThen(j, "train")

\* train_head, where the flag is read before every epoch and every batch,
\* once more, then the labels and the head file in the tempdir.
TrainHead(j) ==
    /\ FinetuneStep(j, "train")
    /\ IF Cancelled(j) THEN Return(j, "ftCancelled") /\ NoFault
       ELSE \/ Goto(j, "recheck") /\ NoFault
            \/ Return(j, "error") /\ Fault

\* Mutant of TrainRecheck: the flag is not looked at again.
TrainRecheckSkipped(j) ==
    /\ At(j, "train", "recheck")
    /\ IF <<j, "dir">> \in temp THEN Goto(j, "publish") ELSE Return(j, "error")
    /\ UNCHANGED <<wsVars, slotVars, regVars, temp, log, heads,
                   ghostVars, faults>>

\* The last cancel check, then the hash and the size of the head file.
TrainRecheck(j) ==
    /\ At(j, "train", "recheck")
    /\ IF Cancelled(j) THEN Return(j, "cancelled")
       ELSE IF <<j, "dir">> \in temp THEN Goto(j, "publish")
       ELSE Return(j, "error")
    /\ UNCHANGED <<wsVars, slotVars, regVars, temp, log, heads,
                   ghostVars, faults>>

----------------------------------------------------------------------------
\* publish_trained_head, for both kinds of job.  HeadRotation has its steps.

\* Mutant of HeadOf: the revision is read when the head is published.
HeadOfLate(j) == [job |-> j, rev |-> rev, seen |-> job[j].seen]

\* The manifest: the captured revision, and what the job read.
HeadOf(j) == [job |-> j, rev |-> job[j].rev, seen |-> job[j].seen]

\* Mutant of Publish: the cancel flag is looked at after the commit.
PublishThenCheck(j) ==
    /\ job[j].pc = "publish" /\ upload = "no"
    /\ IF there /\ \E part \in {"dir", "mpk"} : <<j, part>> \in temp
       THEN /\ heads' = heads \cup {HeadOf(j)}
            /\ temp' = temp \ {<<j, "mpk">>}
            /\ Return(j, IF Cancelled(j) THEN "cancelled" ELSE "ok")
       ELSE Return(j, "error") /\ UNCHANGED <<heads, temp>>
    /\ UNCHANGED <<wsVars, slotVars, regVars, log, ghostVars, faults>>

\* It waits for the metadata lock, and fails when workspace.json or the
\* head file has gone.  An I/O error may come before or after the commit.
Publish(j) ==
    /\ job[j].pc = "publish" /\ upload = "no"
    /\ IF there /\ \E part \in {"dir", "mpk"} : <<j, part>> \in temp
       THEN \/ /\ heads' = heads \cup {HeadOf(j)}
               /\ temp' = temp \ {<<j, "mpk">>}
               /\ Return(j, "ok") /\ NoFault /\ UNCHANGED uncertain
            \/ /\ Fault /\ Return(j, "error")
               /\ \/ UNCHANGED <<heads, uncertain>>
                  \/ /\ heads' = heads \cup {HeadOf(j)}
                     /\ uncertain' = uncertain \cup {j}
               /\ UNCHANGED temp
       ELSE /\ Return(j, "error") /\ NoFault
            /\ UNCHANGED <<heads, temp, uncertain>>
    /\ UNCHANGED <<wsVars, slotVars, regVars, log, early>>

----------------------------------------------------------------------------
\* start_convert and run_convert_job

\* The route's summary and the resolved input paths.
ConvertCapture(j) ==
    /\ job[j] = NoJob /\ there
    /\ job' = [job EXCEPT ![j] = [NoJob EXCEPT !.kind = "convert",
                                               !.pc = "admit", !.rev = rev]]
    /\ UNCHANGED <<wsVars, slotVars, regVars, temp, log, heads,
                   ghostVars, faults>>

\* acquire_convert_permit, or Busy ...
ConvertAdmit(j) ==
    /\ At(j, "convert", "admit")
    /\ IF convert = None THEN convert' = j /\ Goto(j, "register")
                         ELSE Goto(j, "refused") /\ UNCHANGED convert
    /\ UNCHANGED <<wsVars, permit, regVars, temp, log, heads, ghostVars, faults>>

\* ... then try_acquire of a Convert job.  A delete of the workspace may hold
\* it already; the permit then drops with the request.
ConvertRegister(j) ==
    /\ At(j, "convert", "register")
    /\ \/ /\ regJob' = [regJob EXCEPT ![j] = "running"]
          /\ Goto(j, "log") /\ UNCHANGED convert
       \/ convert' = None /\ Goto(j, "refused") /\ UNCHANGED regJob
    /\ UNCHANGED <<wsVars, permit, entry, temp, log, heads, ghostVars, faults>>

ConvertLog(j) ==
    /\ At(j, "convert", "log")
    /\ \/ /\ log' = [log EXCEPT ![j] = "started"]
          /\ Goto(j, "read") /\ NoFault
       \/ /\ job' = [job EXCEPT ![j].pc = "setState", ![j].out = "error"]
          /\ Fault /\ UNCHANGED log
    /\ UNCHANGED <<wsVars, slotVars, regVars, temp, heads, ghostVars>>

\* model.json, parse_tfjs_manifest_with_limits, the number of shards.
ConvertRead(j) ==
    /\ At(j, "convert", "read")
    /\ \/ Return(j, "error")
       \/ there /\ ReadThen(j, "stage")
    /\ UNCHANGED <<wsVars, slotVars, regVars, temp, log, heads,
                   ghostVars, faults>>

\* The staging directory, and the shards linked or copied into it.
ConvertStage(j) ==
    /\ At(j, "convert", "stage")
    /\ temp' = temp \cup {<<j, "stage">>}
    /\ \/ Return(j, "error") /\ Fault
       \/ there /\ ReadThen(j, "labels") /\ NoFault
       \/ ~there /\ Return(j, "error") /\ NoFault
    /\ UNCHANGED <<wsVars, slotVars, regVars, log, heads, ghostVars>>

\* The weights from the staged shards, then the labels from their own path.
ConvertLabels(j) ==
    /\ At(j, "convert", "labels")
    /\ \/ Return(j, "error")
       \/ there /\ ReadThen(j, "mpk")
    /\ UNCHANGED <<wsVars, slotVars, regVars, temp, log, heads,
                   ghostVars, faults>>

\* put_atomic of the head next to the staging directory.
ConvertMpk(j) ==
    /\ At(j, "convert", "mpk")
    /\ \/ /\ there /\ temp' = temp \cup {<<j, "mpk">>}
          /\ Goto(j, "publish") /\ NoFault
       \/ ~there /\ Return(j, "error") /\ NoFault /\ UNCHANGED temp
       \/ /\ Fault /\ Return(j, "error")
          /\ temp' \in {temp, temp \cup {<<j, "mpk">>}}
    /\ UNCHANGED <<wsVars, slotVars, regVars, log, heads, ghostVars>>

----------------------------------------------------------------------------
\* The end of a job.

\* The tempdir is dropped; run_convert_job removes its directory and file,
\* and only warns when it cannot.
Clean(j) ==
    /\ job[j].pc = "clean"
    /\ \/ temp' = {t \in temp : t[1] # j} /\ NoFault
       \/ Fault /\ UNCHANGED temp
    /\ Goto(j, "logEnd")
    /\ UNCHANGED <<wsVars, slotVars, regVars, log, heads, ghostVars>>

TerminalLine(out) ==
    CASE out = "ok" -> "completed"
      [] out = "cancelled" -> "cancelled"
      [] out \in {"ftCancelled", "error"} -> "failed"

\* The terminal line is best-effort, and goes nowhere when the log has been
\* deleted.
LogEnd(j) ==
    /\ job[j].pc = "logEnd"
    /\ \/ /\ log' = [log EXCEPT ![j] =
                       IF @ = "gone" THEN @ ELSE TerminalLine(job[j].out)]
          /\ NoFault
       \/ Fault /\ UNCHANGED log
    /\ Goto(j, "setState")
    /\ UNCHANGED <<wsVars, slotVars, regVars, temp, heads, ghostVars>>

TerminalState(out) ==
    CASE out = "ok" -> "completed"
      [] out \in {"cancelled", "ftCancelled"} -> "cancelled"
      [] out = "error" -> "failed"

\* core.state, or JobHandle::succeed and fail.
SetState(j) ==
    /\ job[j].pc = "setState"
    /\ IF job[j].kind = "train"
       THEN /\ entry' = [entry EXCEPT ![j].state = TerminalState(job[j].out)]
            /\ UNCHANGED regJob
       ELSE /\ regJob' = [regJob EXCEPT ![j] = TerminalState(job[j].out)]
            /\ UNCHANGED entry
    /\ Goto(j, "release")
    /\ UNCHANGED <<wsVars, slotVars, temp, log, heads, ghostVars,
                   faults>>

\* Mutant of Release: only a job that succeeded gives its permit back.
ReleaseLeaks(j) ==
    /\ job[j].pc = "release"
    /\ permit' = IF permit = j /\ job[j].out = "ok" THEN None ELSE permit
    /\ convert' = IF convert = j THEN None ELSE convert
    /\ End(j)
    /\ UNCHANGED <<wsVars, regVars, temp, log, heads, ghostVars, faults>>

\* The permit drops with the task.
Release(j) ==
    /\ job[j].pc = "release"
    /\ permit' = IF permit = j THEN None ELSE permit
    /\ convert' = IF convert = j THEN None ELSE convert
    /\ End(j)
    /\ UNCHANGED <<wsVars, regVars, temp, log, heads, ghostVars, faults>>

----------------------------------------------------------------------------
\* Requests that interfere.

\* The run reads its cancel flag at least once more.
BeforeLastCheck ==
    {"log", "prepare", "scan", "extract", "train", "recheck"}

\* The flag; nobody reads it once the run has ended.
CancelSet(J) ==
    /\ entry' = [j \in Jobs |->
                   IF j \in J THEN [entry[j] EXCEPT !.cancel = TRUE] ELSE entry[j]]
    /\ early' = early \cup {j \in J : job[j].pc \in BeforeLastCheck}
    /\ UNCHANGED <<wsVars, slotVars, regJob, job, temp, log, heads,
                   uncertain, faults>>

\* JobRegistry::cancel
Cancel(j) == entry[j].state = "running" /\ ~Cancelled(j) /\ CancelSet({j})

\* cancel_all_for_shutdown
CancelAll ==
    LET running == {j \in Jobs : entry[j].state = "running" /\ ~Cancelled(j)}
    IN  running # {} /\ CancelSet(running)

\* reap_finished, an hour after the end.
ReapFinished(j) ==
    /\ entry[j].state \in {"completed", "cancelled", "failed"} /\ job[j].pc = "done"
    /\ entry' = [entry EXCEPT ![j] = NoEntry]
    /\ UNCHANGED <<wsVars, slotVars, regJob, job, temp, log, heads,
                   ghostVars, faults>>

\* An upload of an input: the lock and the revision on disk, the bytes, the
\* cached revision.  WorkspaceTree has its other steps.
UploadBegin ==
    /\ there /\ upload = "no" /\ data <= MaxUploads
    /\ upload' = "bytes"
    /\ UNCHANGED <<there, rev, data, behind, slotVars, regVars, job, temp, log,
                   heads, ghostVars, faults>>

UploadBytes ==
    /\ upload = "bytes" /\ data' = data + 1 /\ upload' = "publish"
    /\ UNCHANGED <<there, rev, behind, slotVars, regVars, job, temp, log, heads,
                   ghostVars, faults>>

UploadEnd ==
    /\ upload = "publish" /\ rev' = data /\ upload' = "no" /\ behind' = FALSE
    /\ UNCHANGED <<there, data, slotVars, regVars, job, temp, log, heads,
                   ghostVars, faults>>

\* workspace.json or the rename fails; or the fsync after the rename does, and
\* the upload returns with the new bytes in place under the old cached revision.
UploadFails ==
    /\ upload # "no" /\ Fault
    /\ upload' = "no" /\ behind' = (behind \/ upload = "publish")
    /\ UNCHANGED <<there, rev, data, slotVars, regVars, job, temp, log, heads,
                   ghostVars>>

ConvertRunning == \E j \in Jobs : regJob[j] = "running"

\* start_async_log_delete looks for a Train or Convert job in the file
\* manager's registry before it takes its slot and the lock.  No Train job
\* is ever entered there, and a Convert job may start after the look: no
\* state of a job keeps its log from being moved away.
LogDelete(kind) ==
    /\ there /\ upload = "no"
    /\ \E j \in Jobs : job[j].kind = kind /\ log[j] \notin {"none", "gone"}
    /\ log' = [j \in Jobs |->
                 IF job[j].kind = kind /\ log[j] # "none" THEN "gone" ELSE log[j]]
    /\ UNCHANGED <<wsVars, slotVars, regVars, job, temp, heads, ghostVars,
                   faults>>

\* prune_old_files: the reaper removes logs older than log_age (30 days),
\* which none is while its job still writes to it.
LogPrune(j) ==
    /\ there
    /\ job[j].pc = "done" /\ log[j] \notin {"none", "gone"}
    /\ log' = [log EXCEPT ![j] = "gone"]
    /\ UNCHANGED <<wsVars, slotVars, regVars, job, temp, heads, ghostVars,
                   faults>>

\* start_delete_workspace: refused while a job of the file manager's
\* registry names the workspace, or an upload holds its lease.
WorkspaceDelete ==
    /\ there /\ ~ConvertRunning /\ upload = "no"
    /\ there' = FALSE
    /\ temp' = {}
    /\ log' = [j \in Jobs |-> IF log[j] = "none" THEN "none" ELSE "gone"]
    /\ UNCHANGED <<rev, data, upload, behind, slotVars, regVars, job, heads,
                   ghostVars, faults>>

----------------------------------------------------------------------------
\* The specification.

Step(j) ==
    \/ TrainSpawn(j) \/ TrainLog(j) \/ TrainPrepare(j) \/ TrainScan(j)
    \/ TrainExtract(j) \/ TrainHead(j) \/ TrainRecheck(j)
    \/ ConvertAdmit(j) \/ ConvertRegister(j) \/ ConvertLog(j) \/ ConvertRead(j)
    \/ ConvertStage(j) \/ ConvertLabels(j) \/ ConvertMpk(j)
    \/ Publish(j) \/ Clean(j) \/ LogEnd(j) \/ SetState(j) \/ Release(j)

\* No task is left in the middle: nothing has to happen any more.
Quiet == \A j \in Jobs : job[j].pc \in {"idle", "done", "refused"}

Next ==
    \/ \E j \in Jobs : TrainCapture(j) \/ ConvertCapture(j) \/ Step(j)
                       \/ Cancel(j) \/ ReapFinished(j) \/ LogPrune(j)
    \/ CancelAll \/ UploadBegin \/ UploadBytes \/ UploadEnd \/ UploadFails
    \/ (\E kind \in {"train", "convert"} : LogDelete(kind))
    \/ WorkspaceDelete
    \/ Quiet /\ UNCHANGED vars

\* The runtime polls every task, and an upload goes on.
Progress == (\E j \in Jobs : Step(j)) \/ UploadBytes \/ UploadEnd

Spec == Init /\ [][Next]_vars /\ WF_vars(Progress)

----------------------------------------------------------------------------
\* Properties.

\* A run that was cancelled before its last check never publishes a head and
\* never completes (run_job_inner, check_cancel).
CancelledNeverPublishes ==
    \A j \in early : /\ \A h \in heads : h.job # j
                     /\ entry[j].state # "completed"

\* The reported outcome tells whether the head is there: Completed (or
\* succeeded) exactly when it was published, unless the publish failed after
\* its commit; and a terminal log line that survives tells the same.
OutcomeTellsHead ==
    \A j \in Jobs :
        LET published == \E h \in heads : h.job = j
            state == IF job[j].kind = "train" THEN entry[j].state ELSE regJob[j]
        IN  /\ state = "completed" => published
            /\ state \in {"cancelled", "failed"} => ~published \/ j \in uncertain
            /\ log[j] = "completed" => published
            /\ log[j] \in {"cancelled", "failed"} => ~published \/ j \in uncertain

\* A head whose revision is the workspace's was made from the inputs of now,
\* although its job read them one after the other without a lock: the
\* revision is the one captured before the first read.  The exception is an
\* upload that fails at the fsync after its rename: its bytes are in place and
\* the cached revision is the old one until the next upload succeeds.
CurrentHeadOneVersion ==
    \A h \in heads :
        upload = "no" /\ ~behind /\ h.rev = rev => h.seen = {data}

\* Both permits come back again and again: no job, cancelled or not, its
\* workspace deleted or not, keeps its permit for ever.
PermitsComeBack == []<>(permit = None /\ convert = None)
=============================================================================
