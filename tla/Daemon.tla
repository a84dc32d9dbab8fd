------------------------------- MODULE Daemon -------------------------------
(***************************************************************************)
(* The life of the process: the boot sequence of async_main in              *)
(* modules/daemon/main_body.rs, the inference engine of                     *)
(* modules/inference/engine.rs with the heartbeat pump that watches it, the *)
(* health view of modules/status.rs, and the bounded shutdown of            *)
(* modules/daemon/drain_registry.rs up to the drop of the runtime.          *)
(*                                                                         *)
(* Time is counted in seconds.  One engine step summarises what its loop    *)
(* did in a second; the loop's effect on the sample ring is in AudioBuffer. *)
(* Log output, thread placement and texts are left out.                     *)
(***************************************************************************)
EXTENDS Launch

CONSTANTS
    StaleAfter,      \* STALE_AFTER: seconds without frames until "stalled"
    AbortAfter,      \* STALE_ABORT_AFTER: seconds of heartbeat silence
    HealthStale,     \* HEALTH_STALE_AFTER
    MajorBudget,     \* drain budgets, seconds
    BgBudget,
    OuterBudget,
    MaxFailures,     \* MAX_CONSECUTIVE_BACKBONE_FAILURES
    FastFailures,    \* failures a second when infer() fails at once
    SlowFailures,    \* failures a second when each takes longer than a hop
    Policies         \* microphone policies of the user configuration

ASSUME DaemonAssumption ==
    /\ {StaleAfter, AbortAfter, HealthStale, MajorBudget, BgBudget,
        OuterBudget, MaxFailures, FastFailures, SlowFailures}
         \subseteq Nat \ {0}
    /\ BgBudget <= MajorBudget

VARIABLES
    main,      \* control point of async_main
    code,      \* exit status main is heading for
    clean,     \* what shutdown_and_drain returned
    clock,     \* seconds since the drain began
    token,     \* the shutdown token
    mic,       \* the arbitrator thread
    healthy,   \* boot recovery left a usable active head
    tcp,       \* the TCP address could be bound
    engine,    \* the engine's blocking worker
    failures,  \* consecutive_failures
    beat,      \* the engine's heartbeat watch: [state, unseen, frames]
    did,       \* who has had its turn this second
    pump,      \* inference_hb_pump
    heard,     \* pump: a heartbeat was received (boot grace over)
    silence,   \* pump: seconds since the last one was received
    stall,     \* pump: seconds since frames_emitted last moved
    hb,        \* the "inference" entry of the status monitor
    hush,      \* ghost: seconds since the engine last sent a heartbeat
    quiet,     \* ghost: seconds since the engine last published a frame
    slots,     \* [drain slots -> "none" | "run" | "done"]
    training,  \* a training job's blocking worker
    late,      \* ghost: that job was admitted after the cancel hook ran
    uds,       \* uds_bind_res: "none", "up", "refused", or "chmod" (bound, given up)
    served,    \* ghost: some life has bound the socket and gone on to serve
    refused    \* ghost: the launch file was not accepted

bootVars == <<diskVars, uds, served, refused>>
engineVars == <<engine, failures, beat, hush>>
pumpVars == <<pump, heard, silence, stall, hb>>
daemonVars == <<main, code, clean, clock, token, mic, healthy, tcp, engineVars,
                did, pumpVars, quiet, slots, training, late, bootVars>>

\* inference is the blocking engine; the others are asynchronous tasks.  tcp
\* stands for both listeners (the UDS one is skipped when its bind fails),
\* refresh for the periodic loops (heartbeats, reapers).
Major == {"inference", "opus", "tcp"}
Background == {"pump", "refresh"}
Slots == Major \cup Background
Budget(s) == IF s \in Major THEN MajorBudget ELSE BgBudget
QuietCap == StaleAfter + 2
Up(n, cap) == IF n < cap THEN n + 1 ELSE cap

\* Nothing of a process that has not started yet.
Fresh ==
    /\ code = 0 /\ clean = TRUE /\ clock = 0
    /\ token = FALSE /\ mic = "off" /\ healthy = FALSE /\ tcp = TRUE
    /\ engine = "none" /\ failures = 0
    /\ beat = [state |-> "starting", unseen |-> FALSE, frames |-> FALSE]
    /\ did = {}
    /\ pump = "none" /\ heard = FALSE /\ silence = 0 /\ stall = 0
    /\ hb = [healthy |-> FALSE, age |-> 0]
    /\ quiet = 0 /\ hush = 0
    /\ slots = [s \in Slots |-> "none"]
    /\ training = "none" /\ late = FALSE
    /\ uds = "none" /\ refused = FALSE

DaemonInit == main = "start" /\ Fresh /\ DiskInit /\ served = FALSE

----------------------------------------------------------------------------
\* Boot.

Goto(from, to) == main = from /\ main' = to

NoThreads == UNCHANGED <<clean, clock, token, mic, healthy, tcp, engineVars,
                         did, pumpVars, quiet, slots, training, late, uds, served>>

\* The workspace directory can be made and the two TOML files are not the
\* same one; then the socket's directory is prepared.
Prepare(ok) ==
    /\ Goto("start", IF ok /\ ~PrepareFails THEN "prepared" ELSE "returned")
    /\ code' = IF ok /\ ~PrepareFails THEN 0 ELSE 1
    /\ IF ok THEN Prepared ELSE UNCHANGED diskVars
    /\ UNCHANGED refused
    /\ NoThreads

\* load_or_init_launch_config: load and validate, or write the defaults.
LoadLaunch ==
    /\ Goto("prepared", IF Accepted THEN "launched" ELSE "returned")
    /\ code' = IF Accepted THEN 0 ELSE 1
    /\ refused' = ~Accepted
    /\ Persisted
    /\ NoThreads

\* The user configuration loads and its microphone policy fits the launch
\* catalogue (unless --mock-audio brings its own).
LoadUser(ok, mock, policy) ==
    LET fits == ok /\ (mock \/ PolicyFits(policy, file.mic)) IN
    /\ Goto("launched", IF fits THEN "loaded" ELSE "returned")
    /\ code' = IF fits THEN 0 ELSE 1
    /\ UNCHANGED <<diskVars, refused>>
    /\ NoThreads

\* Settings cell, watcher, monitor, metrics; then the arbitrator thread and
\* the first heartbeat loop.
StartCapture ==
    /\ Goto("loaded", "capturing")
    /\ mic' = "run"
    /\ slots' = [slots EXCEPT !["refresh"] = "run"]
    /\ UNCHANGED <<code, clean, clock, token, healthy, tcp, engineVars, did,
                   pumpVars, quiet, training, late, bootVars>>

\* run_boot_recovery: a failing root layout, a failing pass or an Unhealthy
\* active head all mean "boot without inference".
Recover(result) ==
    /\ Goto("capturing", "recovered")
    /\ healthy' = (result \in {"current", "previous", "default"})
    /\ UNCHANGED <<code, clean, clock, token, mic, tcp, engineVars, did,
                   pumpVars, quiet, slots, training, late, bootVars>>

\* The TCP address, from the command line or the launch file, has to parse;
\* a host name does not, and ends the boot with the arbitrator running.
\* Beside the other futures bind_uds looks at the socket's path and removes
\* a stale socket.
ParseTcp(cli) ==
    LET ok == cli \/ TcpParses(file.stream.tcp) IN
    /\ Goto("recovered", IF ok THEN "unlinked" ELSE "returned")
    /\ code' = IF ok THEN 0 ELSE 1
    /\ mic' = IF ok THEN mic ELSE "stop"
    /\ IF ok THEN Unlinked ELSE UNCHANGED diskVars
    /\ UNCHANGED <<clean, clock, token, healthy, tcp, engineVars, did, pumpVars,
                   quiet, slots, training, late, uds, served, refused>>

\* want_inference: not switched off, healthy, a head that verifies on disk
\* (resolve_active_head_paths) and a backbone candidate.
WantsInference(wanted, head) ==
    wanted /\ healthy /\ head /\ file.backbone # <<>>

SpawnPump(starts) == pump' = IF starts THEN "run" ELSE "none"
SpawnEngine(starts) == engine' = IF starts THEN "starting" ELSE "none"

\* What the entry says before anything runs.  Skipping inference for want of
\* a head or a backbone is "degraded", which counts as healthy; a failed
\* recovery or load does not.
SkippedInOrder(wanted, head) ==
    ~wanted \/ file.backbone = <<>> \/ (healthy /\ ~head)

\* boot_inference loads backbone and head and starts pump and engine; the
\* binds run beside it.
BootInference(wanted, head, loads, library, tcpFree, chmod) ==
    LET starts == /\ WantsInference(wanted, head)
                  /\ FirstLoading(file.backbone, library) # 0
                  /\ loads
    IN
    /\ Goto("unlinked", "bound")
    /\ SpawnPump(starts)
    /\ SpawnEngine(starts)
    /\ hb' = [healthy |-> starts \/ SkippedInOrder(wanted, head), age |-> 0]
    /\ tcp' = tcpFree
    /\ Bound
    /\ uds' = Listening(chmod)
    /\ UNCHANGED <<code, clean, clock, token, mic, healthy, failures, beat,
                   hush, did, heard, silence, stall, quiet, slots, training, late,
                   served, refused>>

\* Registration of what was started; a skipped or failed inference gets a
\* refresh loop instead.  "engine spawned" overwrites what the pump may
\* already have said.
Register ==
    /\ Goto("bound", "registered")
    /\ slots' = IF pump = "none" THEN slots
                ELSE [slots EXCEPT !["inference"] = "run", !["pump"] = "run"]
    /\ hb' = IF pump = "none" THEN hb ELSE [healthy |-> TRUE, age |-> 0]
    /\ UNCHANGED <<code, clean, clock, token, mic, healthy, tcp, engineVars,
                   did, pump, heard, silence, stall, quiet, training, late, bootVars>>

\* The encoder's task and the refresh loop of its status entry.
StartOpus ==
    /\ Goto("registered", "streaming")
    /\ slots' = [slots EXCEPT !["opus"] = "run"]
    /\ UNCHANGED <<code, clean, clock, token, mic, healthy, tcp, engineVars,
                   did, pumpVars, quiet, training, late, bootVars>>

\* Registries, the cancel hook, reapers, application state: nothing that can
\* fail, and nothing a slot of its own is kept for here.
StartServices ==
    /\ Goto("streaming", "services")
    /\ UNCHANGED <<code, clean, clock, token, mic, healthy, tcp, engineVars, did,
                   pumpVars, quiet, slots, training, late, bootVars>>

\* A failed unix bind means TCP only.  The TCP bind error is looked at only
\* now, and returns from async_main
\* with everything above running and the token untouched.  Leaving drops,
\* and so stops, the arbitrator.
Listen ==
    /\ Goto("services", IF tcp THEN "serving" ELSE "returned")
    /\ code' = IF tcp THEN 0 ELSE 1
    /\ mic' = IF tcp THEN mic ELSE "stop"
    /\ slots' = [slots EXCEPT !["tcp"] = IF tcp THEN "run" ELSE @]
    /\ served' = (served \/ (tcp /\ uds # "refused"))
    /\ uds' = "none"
    /\ UNCHANGED <<clean, clock, token, healthy, tcp, engineVars, did,
                   pumpVars, quiet, training, late, diskVars, refused>>

----------------------------------------------------------------------------
\* The inference engine.

Alive == engine \in {"running", "wedged"}
Says(state) == [state |-> state, unseen |-> TRUE, frames |-> beat.frames]
Sends(b) == beat' = b /\ hush' = 0

EngineOnly == UNCHANGED <<main, code, clean, clock, token, mic, healthy, tcp,
                          pumpVars, slots, training, late, bootVars>>

\* The worker starts and reports Running before its first read.
EngineStart ==
    /\ engine = "starting"
    /\ engine' = "running"
    /\ Sends(Says("running"))
    /\ did' = did \cup {"engine"}
    /\ UNCHANGED <<failures, quiet>>
    /\ EngineOnly

\* A second in which the loop only waited for samples, resynchronised after
\* a lag, or dropped every window as not finite.  A window whose features
\* are not finite is dropped after infer() succeeded: the streak is over.
EngineIdle(state) ==
    /\ engine = "running" /\ ~token
    /\ "engine" \notin did
    /\ Sends(Says(state))
    /\ failures' \in {failures, 0}
    /\ did' = did \cup {"engine"}
    /\ UNCHANGED <<engine, quiet>>
    /\ EngineOnly

\* A second with at least one published frame.
EngineEmit ==
    /\ engine = "running" /\ ~token
    /\ "engine" \notin did
    /\ failures' = 0
    /\ Sends([Says("running") EXCEPT !.frames = TRUE])
    /\ quiet' = 0
    /\ did' = did \cup {"engine"}
    /\ UNCHANGED engine
    /\ EngineOnly

\* A second of failing infer() calls.  After quick failures the loop has to
\* wait for its next window and says so; when a failure takes longer than a
\* hop the next window is already there and no heartbeat is sent.  The last
\* allowed failure ends the engine.
EngineFail(quick) ==
    LET n == failures + (IF quick THEN FastFailures ELSE SlowFailures) IN
    /\ engine = "running" /\ ~token
    /\ "engine" \notin did
    /\ failures' = IF n >= MaxFailures THEN 0 ELSE n
    /\ engine' = IF n >= MaxFailures THEN "failed" ELSE "running"
    /\ IF n >= MaxFailures THEN Sends(Says("failed"))
       ELSE IF quick THEN Sends(Says("waiting")) ELSE UNCHANGED <<beat, hush>>
    /\ did' = did \cup {"engine"}
    /\ UNCHANGED quiet
    /\ EngineOnly

\* infer() does not return.
EngineWedge ==
    /\ engine = "running"
    /\ engine' = "wedged"
    /\ UNCHANGED <<failures, beat, hush, did, quiet>>
    /\ EngineOnly

\* It returns after all.
EngineUnwedge ==
    /\ engine = "wedged"
    /\ engine' = "running"
    /\ UNCHANGED <<failures, beat, hush, did, quiet>>
    /\ EngineOnly

\* The loop sees the token and the worker reports Stopped.
EngineStop ==
    /\ engine = "running" /\ token
    /\ engine' = "stopped"
    /\ failures' = 0
    /\ Sends(Says("stopped"))
    /\ UNCHANGED <<did, quiet>>
    /\ EngineOnly

----------------------------------------------------------------------------
\* The heartbeat pump.

PumpAlive == pump = "run" /\ main # "returned"

PumpOnly == UNCHANGED <<code, clean, clock, token, mic, healthy, tcp, engine,
                        failures, hush, quiet, training, late, bootVars>>

\* Mutant of Verdict: an engine that says Waiting is healthy, frames or not.
VerdictIgnoresStall(received, stalled) == beat.state \in {"running", "waiting"}

\* What the pump reports for the snapshot it just took.
Verdict(received, stalled) ==
    /\ beat.state \in {"running", "waiting"}
    /\ ~stalled

\* Mutant of Wedged: silence is measured in frames, not in heartbeats.
WedgedByFrames(received, silent, stalled) ==
    /\ received
    /\ stalled >= AbortAfter \/ (stalled >= StaleAfter /\ beat.state = "waiting")
    /\ beat.state \notin {"failed", "stopped"}
    /\ ~token

\* The four gates of the abort.
Wedged(received, silent, stalled) ==
    /\ received
    /\ silent >= AbortAfter
    /\ beat.state \notin {"failed", "stopped"}
    /\ ~token

\* One turn of the pump: a changed heartbeat or the one-second floor.  With
\* all four gates open the abort is decided, the entry is marked, and the
\* log gets 50 ms to flush.  The turn is one instant: there is no await
\* between the wake-up and the decision.
PumpTurn ==
    LET received == heard \/ beat.unseen
        silent == IF beat.unseen THEN 0 ELSE silence
        stalled == IF beat.frames THEN 0 ELSE stall
    IN
    /\ PumpAlive /\ ~token
    /\ beat.unseen \/ "pump" \notin did
    /\ Alive \/ engine = "starting" \/ beat.unseen
    /\ did' = did \cup {"pump"}
    /\ heard' = received /\ silence' = silent /\ stall' = stalled
    /\ beat' = [beat EXCEPT !.unseen = FALSE, !.frames = FALSE]
    /\ IF Wedged(received, silent, stalled)
       THEN pump' = "aborting" /\ hb' = [healthy |-> FALSE, age |-> 0]
       ELSE /\ hb' = [healthy |-> Verdict(received, stalled >= StaleAfter), age |-> 0]
            /\ UNCHANGED pump
    /\ UNCHANGED <<main, slots>>
    /\ PumpOnly

\* The sleep is over and the process aborts: no gate is looked at again, so
\* a heartbeat or a shutdown that came in meanwhile changes nothing.
PumpAborts ==
    /\ pump = "aborting" /\ main # "returned"
    /\ main' = "aborted"
    /\ UNCHANGED <<slots, did, beat, pumpVars>>
    /\ PumpOnly

\* changed() fails once the engine is gone and its last word was seen, or
\* the token arrives.
PumpEnds ==
    /\ PumpAlive
    /\ token \/ (engine \in {"failed", "stopped"} /\ ~beat.unseen)
    /\ pump' = "ended"
    /\ slots' = [slots EXCEPT !["pump"] = IF @ = "run" THEN "done" ELSE @]
    /\ heard' = FALSE /\ silence' = 0 /\ stall' = 0
    /\ did' = did \cup {"pump"}
    /\ UNCHANGED <<main, hb, beat>>
    /\ PumpOnly

----------------------------------------------------------------------------
\* Serving.

\* StatusMonitor::snapshot for the inference entry.
View == hb.healthy /\ hb.age <= HealthStale

\* A second passes once everybody who runs at least once a second has run,
\* and not within the 50 ms before an abort.
\* The refresh loops of a skipped engine keep its entry young.
Tick ==
    /\ main = "serving"
    /\ engine = "running" => "engine" \in did
    /\ engine # "starting"
    /\ PumpAlive => "pump" \in did
    /\ pump # "aborting"
    /\ did' = {}
    /\ silence' = IF pump = "run" THEN Up(silence, AbortAfter) ELSE silence
    /\ stall' = IF pump = "run" THEN Up(stall, StaleAfter) ELSE stall
    /\ hb' = [hb EXCEPT !.age = IF pump = "none" THEN 0 ELSE Up(@, HealthStale + 1)]
    /\ quiet' = IF engine = "none" THEN 0 ELSE Up(quiet, QuietCap)
    /\ hush' = IF engine = "none" THEN 0 ELSE Up(hush, AbortAfter)
    /\ UNCHANGED <<main, code, clean, clock, token, mic, healthy, tcp, engine,
                   failures, beat, pump, heard, slots, training, late, bootVars>>

\* A training request is admitted; its epochs run on a blocking worker.  A
\* request in flight is still served while the listener drains.
TrainStart ==
    /\ main \in {"serving", "cancelled", "draining"}
    /\ slots["tcp"] = "run"
    /\ training = "none"
    /\ training' = "run"
    /\ late' = (main = "draining")
    /\ UNCHANGED <<main, code, clean, clock, token, mic, healthy, tcp,
                   engineVars, did, pumpVars, quiet, slots, bootVars>>

\* It finishes, or sees its cancel flag.
TrainEnd ==
    /\ training \in {"run", "cancelled"}
    /\ training' = "none"
    /\ late' = FALSE
    /\ UNCHANGED <<main, code, clean, clock, token, mic, healthy, tcp,
                   engineVars, did, pumpVars, quiet, slots, bootVars>>

----------------------------------------------------------------------------
\* Shutdown.

\* SIGTERM, SIGINT, or the end of --check with its verdict over every
\* subsystem (the others: the entries not modelled here); --check-seconds may
\* be any time.
Signal(check, others) ==
    /\ Goto("serving", "stopping")
    /\ code' = IF check /\ ~(View /\ others) THEN 1 ELSE 0
    /\ quiet' = 0
    /\ UNCHANGED <<clean, clock, token, mic, healthy, tcp, engineVars, did,
                   pumpVars, slots, training, late, bootVars>>

\* arb_handle.signal_stop(), shutdown.cancel().  From here on the engine and
\* the pump only end: what they counted is not read again.
Cancel ==
    /\ Goto("stopping", "cancelled")
    /\ mic' = "stop"
    /\ token' = TRUE
    /\ failures' = 0 /\ silence' = 0 /\ stall' = 0 /\ did' = {}
    /\ hb' = [hb EXCEPT !.age = 0]
    /\ UNCHANGED <<code, clean, clock, healthy, tcp, engine, beat, hush,
                   heard, pump, quiet, slots, training, late, bootVars>>

\* Mutant of DrainBegin: the pre-drain hooks are not run.
DrainBeginWithoutHooks ==
    /\ Goto("cancelled", "draining")
    /\ UNCHANGED <<code, clean, clock, token, mic, healthy, tcp, engineVars,
                   did, pumpVars, quiet, slots, training, late, bootVars>>

\* shutdown_and_drain up to the joins: tokens, then the hook that sets the
\* cancel flag of every running training job.
DrainBegin ==
    /\ Goto("cancelled", "draining")
    /\ training' = IF training = "run" THEN "cancelled" ELSE training
    /\ UNCHANGED <<code, clean, clock, token, mic, healthy, tcp, engineVars,
                   did, pumpVars, quiet, slots, late, bootVars>>

\* A handle is joined because its task ended by itself: the listeners when the requests they serve are
\* done, the engine's handle when its worker returned.
TaskEnds(s) ==
    /\ main = "draining"
    /\ s # "pump"
    /\ slots[s] = "run"
    /\ s = "inference" => engine \in {"failed", "stopped"}
    /\ slots' = [slots EXCEPT ![s] = "done"]
    /\ UNCHANGED <<main, code, clean, clock, token, mic, healthy, tcp,
                   engineVars, did, pumpVars, quiet, training, late, bootVars>>

\* A task's budget is used up: its handle is aborted and given up.  That
\* stops an asynchronous task, not the engine's worker.
TaskTimeout(s) ==
    /\ main = "draining"
    /\ slots[s] = "run"
    /\ clock >= Budget(s)
    /\ slots' = [slots EXCEPT ![s] = "done"]
    /\ pump' = IF s = "pump" THEN "ended" ELSE pump
    /\ UNCHANGED <<main, code, clean, clock, token, mic, healthy, tcp,
                   engineVars, did, heard, silence, stall, hb, quiet,
                   training, late, bootVars>>

\* Time in the drain: a timer that is due fires first.
DrainTick ==
    /\ main = "draining" /\ pump # "aborting"
    /\ \E s \in Slots : slots[s] = "run"
    /\ \A s \in Slots : slots[s] = "run" => clock < Budget(s)
    /\ clock' = clock + 1
    /\ UNCHANGED <<main, code, clean, token, mic, healthy, tcp, engineVars,
                   did, pumpVars, quiet, slots, training, late, bootVars>>

\* Every handle was joined or given up: true, unless the outer budget was
\* used up as well.
Drained ==
    /\ \A s \in Slots : slots[s] # "run"
    /\ Goto("draining", "drained")
    /\ clean' = (clock < OuterBudget)
    /\ UNCHANGED <<code, clock, token, mic, healthy, tcp, engineVars, did,
                   pumpVars, quiet, slots, training, late, bootVars>>

\* The arbitrator's loop sees its flag.
MicStops ==
    /\ mic = "stop"
    /\ mic' = "off"
    /\ UNCHANGED <<main, code, clean, clock, token, healthy, tcp, engineVars,
                   did, pumpVars, quiet, slots, training, late, bootVars>>

\* arb_handle.stop() joined: hard exit after an unclean drain or a failed
\* check, a plain return otherwise.
Finish ==
    /\ mic = "off"
    /\ Goto("drained", IF clean /\ code = 0 THEN "returned" ELSE "exited")
    /\ code' = IF clean THEN code ELSE 1
    /\ UNCHANGED <<clean, clock, token, mic, healthy, tcp, engineVars, did,
                   pumpVars, quiet, slots, training, late, bootVars>>

\* run() drops the runtime, which waits for every blocking worker.
RuntimeDrop ==
    /\ mic = "off"
    /\ engine \in {"none", "failed", "stopped"}
    /\ training = "none"
    /\ Goto("returned", "exited")
    /\ UNCHANGED <<code, clean, clock, token, mic, healthy, tcp, engineVars,
                   did, pumpVars, quiet, slots, training, late, bootVars>>

\* Seconds pass in that wait.
DropTick ==
    /\ main = "returned" /\ token
    /\ engine \in {"running", "wedged"} \/ training # "none"
    /\ clock <= OuterBudget
    /\ clock' = clock + 1
    /\ UNCHANGED <<main, code, clean, token, mic, healthy, tcp, engineVars,
                   did, pumpVars, quiet, slots, training, late, bootVars>>

----------------------------------------------------------------------------

Gone == main \in {"exited", "aborted", "killed"}

\* All that is lost with the process.
Reset ==
    /\ code' = 0 /\ clean' = TRUE /\ clock' = 0
    /\ token' = FALSE /\ mic' = "off" /\ healthy' = FALSE /\ tcp' = TRUE
    /\ engine' = "none" /\ failures' = 0
    /\ beat' = [state |-> "starting", unseen |-> FALSE, frames |-> FALSE]
    /\ did' = {}
    /\ pump' = "none" /\ heard' = FALSE /\ silence' = 0 /\ stall' = 0
    /\ hb' = [healthy |-> FALSE, age |-> 0]
    /\ quiet' = 0 /\ hush' = 0
    /\ slots' = [s \in Slots |-> "none"]
    /\ training' = "none" /\ late' = FALSE
    /\ uds' = "none" /\ refused' = FALSE

\* SIGKILL or loss of power, at any moment.
Kill ==
    /\ ~Gone
    /\ main' = "killed"
    /\ Reset
    /\ UNCHANGED <<diskVars, served>>

\* The supervisor starts the next process, perhaps after a reboot.
Restart(reboot) ==
    /\ Gone
    /\ main' = "start"
    /\ Reset
    /\ IF reboot THEN Swept ELSE UNCHANGED diskVars
    /\ UNCHANGED served

RecoveryResults == {"current", "previous", "default", "unhealthy", "failed"}

BootStep ==
    \/ \E ok \in BOOLEAN : Prepare(ok)
    \/ LoadLaunch
    \/ \E ok, mock \in BOOLEAN, policy \in Policies : LoadUser(ok, mock, policy)
    \/ StartCapture
    \/ \E r \in RecoveryResults : Recover(r)
    \/ \E cli \in BOOLEAN : ParseTcp(cli)
    \/ \E wanted, head, loads, tcpFree, chmod \in BOOLEAN, library \in Libraries :
         BootInference(wanted, head, loads, library, tcpFree, chmod)
    \/ Register
    \/ StartOpus
    \/ StartServices
    \/ Listen

ShutdownStep == Cancel \/ DrainBegin \/ Drained \/ Finish \/ RuntimeDrop \/ MicStops

EngineTurn ==
    \/ EngineStart
    \/ \E state \in {"running", "waiting", "lagged"} : EngineIdle(state)
    \/ EngineEmit
    \/ \E quick \in BOOLEAN : EngineFail(quick)
    \/ EngineStop

DaemonNext ==
    \/ /\ ~Gone
       /\ \/ BootStep
          \/ EngineTurn \/ EngineWedge \/ EngineUnwedge
          \/ PumpTurn \/ PumpEnds \/ PumpAborts
          \/ Tick
          \/ TrainStart \/ TrainEnd
          \/ \E check, others \in BOOLEAN : Signal(check, others)
          \/ ShutdownStep
          \/ \E s \in Slots : TaskEnds(s) \/ TaskTimeout(s)
          \/ DrainTick \/ DropTick
    \/ Kill
    \/ \E reboot \in BOOLEAN : Restart(reboot)

\* Boot and shutdown run to their end, the engine loop and the pump get the
\* processor, seconds pass, and a job that was told to stop stops.  Nothing
\* makes infer() return, a training job finish by itself or a signal arrive.
Fairness ==
    /\ WF_daemonVars(BootStep)
    /\ WF_daemonVars(ShutdownStep)
    /\ WF_daemonVars(~Gone /\ EngineTurn)
    /\ WF_daemonVars(~Gone /\ (PumpTurn \/ PumpEnds \/ PumpAborts))
    /\ WF_daemonVars(Tick \/ DrainTick)
    /\ \A s \in Slots : WF_daemonVars(TaskTimeout(s))
    /\ WF_daemonVars(training = "cancelled" /\ TrainEnd)

DaemonSpec == DaemonInit /\ [][DaemonNext]_daemonVars /\ Fairness

----------------------------------------------------------------------------
\* Properties.

\* /status never calls a dead or silent engine healthy for longer than the
\* stall threshold and one turn of the pump, whichever way the engine came
\* to its end (failed, stopped, wedged, starved of samples).
HealthyMeansFrames ==
    main = "serving" /\ engine # "none" /\ View => quiet <= StaleAfter + 1

\* The watchdog decides to abort only while nothing is being shut down and
\* an engine that runs or hangs has really sent no heartbeat for
\* STALE_ABORT_AFTER: what the pump received late, or has not yet received,
\* is not held against the engine.  And only such a decision kills: when the
\* process aborts, the engine has been silent since, or has spoken in the 50
\* ms after the decision.  In those 50 ms a heartbeat or a shutdown comes
\* too late, although the comment on the fourth gate has the token checked
\* "immediately before abort".
WatchdogSparesTheLiving ==
    [][/\ pump' = "aborting" /\ pump # "aborting" =>
            ~token /\ Alive /\ hush >= AbortAfter
       /\ main' = "aborted" /\ main # "aborted" =>
            beat.unseen \/ (Alive /\ hush >= AbortAfter)]_daemonVars

\* Once told to stop, the process ends, whatever the listeners' clients, the
\* running training job and the microphone do; except that the drop of the
\* runtime waits for a worker that cannot be stopped: a wedged infer(), or a
\* job admitted after the hook.
StopEnds ==
    (main = "stopping")
        ~> (Gone \/ (main = "returned" /\ (engine = "wedged" \/ late)))

\* What one life leaves behind never stands in the way of the next: once
\* the daemon has bound its socket and served, the same launch file is accepted
\* again and the socket is taken over, after a crash at any step (with the
\* old socket in place, or removed and not yet bound) and after a reboot
\* that swept the directory.
RestartBinds ==
    served => ~refused /\ uds # "refused"

\* What drain_registry.rs promises of SIGTERM: the process is gone, cleanly
\* or with status 1, once the outer budget is used up.
ShutdownIsBounded == token /\ ~Gone => clock <= OuterBudget

============================================================================
