--------------------------- MODULE SftpController ---------------------------
(***************************************************************************)
(* The transfer controller of the remote file panels (nebula_app,          *)
(* ssh_sftp.rs): jobs started from the UI thread and from the upload       *)
(* debounce, the generation that retires them, the control word through    *)
(* which cancel races with begin_publish, the workers of run_bounded and   *)
(* the snapshot the panel draws.                                           *)
(*                                                                         *)
(* A job is the generation it was given.  What a worker transfers is       *)
(* SftpTransaction's concern; here a file is "copying", then it passes     *)
(* through begin_publish, then it is "publishing" until its guard drops.   *)
(***************************************************************************)
EXTENDS Integers, FiniteSets

CONSTANTS
    Workers,     \* DIRECTORY_FILE_CONCURRENCY
    MaxFiles,    \* files of an upload's plan
    MaxStarts,   \* bound: jobs the user starts
    MaxDrops,    \* bound: paths dropped on the panel
    MaxCancels   \* bound: presses of the cancel button

ASSUME ControllerConstants ==
    /\ IsFiniteSet(Workers) /\ Workers # {}
    /\ MaxFiles \in Nat \ {0}
    /\ MaxStarts \in Nat /\ MaxDrops \in Nat /\ MaxCancels \in Nat

VARIABLES
    generation,  \* SftpController.generation
    current,     \* the token SftpController.task_control holds
    token,       \* the token each job was given
    control,     \* each token's AtomicUsize: its cancel bit and publishers
    snapshot,    \* SftpController.state
    starter,     \* the threads inside start_job, and what they start
    job,         \* the spawned jobs
    worker,      \* the workers of each job
    pending,     \* pending_uploads
    debounce,    \* upload_debounce_active
    sleeper,     \* where each debounce task is
    starts, drops, cancels,  \* what the user did so far
    quiet,       \* history: tokens cancelled while nothing was publishing
    overlap      \* history: two threads were in start_job at once

vars == <<generation, current, token, control, snapshot, starter, job, worker,
          pending, debounce, sleeper, starts, drops, cancels, quiet>>

allVars == <<vars, overlap>>
panel == <<pending, debounce, sleeper, starts, drops>>

\* Every drop and every start of the user makes at most one job, after the
\* constructor's; a debounce task is named after the drop that spawned it.
MaxJobs == 1 + MaxStarts + MaxDrops
Jobs == 1..MaxJobs
Ui == 0
Sleepers == 1..MaxDrops
Threads == {Ui} \union Sleepers
Word == [cancel : BOOLEAN, publishers : 0..Cardinality(Workers) * MaxJobs]
NewWord == [cancel |-> FALSE, publishers |-> 0]
Phases == {"Connecting", "Loading", "Ready", "Working", "Error", "Cancelled"}
Notices == {"none", "cancelling", "finishing", "failure"}
Busy == snapshot.phase \in {"Connecting", "Loading", "Working"}

JobSteps == {"none", "run", "listing", "finish", "write", "done"}
WorkerSteps == {"off", "take", "copy", "load", "cas", "confirm", "publish", "end"}

\* What a thread in start_job is about to spawn; kind "none" outside of it.
NoStart == [kind |-> "none", job |-> 0]
NoJob == [pc |-> "none", kind |-> "list", ok |-> TRUE, cursor |-> 0, failed |-> FALSE]
Done == [NoJob EXCEPT !.pc = "done"]
Off == [pc |-> "off", seen |-> NewWord]

\* new_at: the constructor's refresh has taken the first generation.
Init ==
    /\ generation = 1
    /\ current = 1
    /\ token = [j \in Jobs |-> j]
    /\ control = [j \in Jobs |-> NewWord]
    /\ snapshot = [phase |-> "Connecting", notice |-> "none", listing |-> 0]
    /\ starter = [t \in Threads |-> IF t = Ui THEN [kind |-> "list", job |-> 1]
                                                ELSE NoStart]
    /\ job = [j \in Jobs |-> NoJob]
    /\ worker = [j \in Jobs |-> [w \in Workers |-> Off]]
    /\ pending = {}
    /\ debounce = FALSE
    /\ sleeper = [s \in Sleepers |-> "none"]
    /\ starts = 0 /\ drops = 0 /\ cancels = 0
    /\ quiet = {}
    /\ overlap = FALSE

-----------------------------------------------------------------------------
(* start_job, on the UI thread or on a debounce task's.                     *)

SharedToken == current            \* mutant
NewToken == generation + 1

\* Under the task_control lock: the next generation and its own token.
Register(t, kind) ==
    /\ starter[t].kind = "none"
    /\ generation' = generation + 1
    /\ current' = NewToken
    /\ token' = [token EXCEPT ![generation + 1] = NewToken]
    /\ starter' = [starter EXCEPT ![t] = [kind |-> kind, job |-> generation + 1]]

\* Under the state lock: the phase; then the job is spawned.
Spawn(t) ==
    /\ starter[t].kind \in {"list", "upload"}
    /\ snapshot' = [snapshot EXCEPT
                      !.phase = IF starter[t].kind = "list" THEN "Loading" ELSE "Working",
                      !.notice = "none"]
    /\ job' = [job EXCEPT ![starter[t].job] =
                 [NoJob EXCEPT !.pc = "run", !.kind = starter[t].kind]]
    /\ worker' = [worker EXCEPT ![starter[t].job] =
                    [w \in Workers |->
                       [Off EXCEPT !.pc = IF starter[t].kind = "upload" THEN "take" ELSE "off"]]]
    /\ starter' = [starter EXCEPT ![t] = NoStart]
    /\ UNCHANGED <<generation, current, token, control, panel, cancels, quiet>>

\* The user asks for a listing, or for a transfer of files already chosen
\* (upload, download, copy_from; create, rename and delete run like a list).
Start(kind) ==
    /\ starts < MaxStarts
    /\ starts' = starts + 1
    /\ Register(Ui, kind)
    /\ UNCHANGED <<control, snapshot, job, worker, pending, debounce, sleeper,
                   drops, cancels, quiet>>

\* cancel: the token is read under its lock; fetch_or; then the notice.
Cancel ==
    /\ starter[Ui].kind = "none"
    /\ cancels < MaxCancels
    /\ cancels' = cancels + 1
    /\ control' = [control EXCEPT ![current].cancel = TRUE]
    /\ LET publishing == control[current].publishers # 0 IN
         /\ quiet' = IF publishing THEN quiet ELSE quiet \union {current}
         /\ snapshot' = IF snapshot.phase = "Working"
                          THEN [snapshot EXCEPT !.notice =
                                  IF publishing THEN "finishing" ELSE "cancelling"]
                          ELSE snapshot
    /\ UNCHANGED <<generation, current, token, starter, job, worker, panel>>

-----------------------------------------------------------------------------
(* upload_paths and its debounce.                                           *)

\* The path joins the pending ones ...
Drop ==
    /\ starter[Ui].kind = "none"
    /\ drops < MaxDrops
    /\ drops' = drops + 1
    /\ pending' = pending \union {drops + 1}
    /\ starter' = [starter EXCEPT ![Ui].kind = "swap"]
    /\ UNCHANGED <<generation, current, token, control, snapshot, job, worker,
                   debounce, sleeper, starts, cancels, quiet>>

\* ... and the first of a burst spawns the task that sleeps.
Swap ==
    /\ starter[Ui].kind = "swap"
    /\ starter' = [starter EXCEPT ![Ui] = NoStart]
    /\ debounce' = TRUE
    /\ sleeper' = IF debounce THEN sleeper
                               ELSE [sleeper EXCEPT ![drops] = "sleeping"]
    /\ UNCHANGED <<generation, current, token, control, snapshot, job, worker,
                   pending, starts, drops, cancels, quiet>>

\* 75 ms later the task takes what was dropped ...
TakeDropped(s) ==
    /\ sleeper[s] = "sleeping"
    /\ sleeper' = [sleeper EXCEPT ![s] = IF pending = {} THEN "empty" ELSE "taken"]
    /\ pending' = {}
    /\ UNCHANGED <<generation, current, token, control, snapshot, starter, job,
                   worker, debounce, starts, drops, cancels, quiet>>

\* ... and then opens the debounce again.
Reopen(s) ==
    /\ sleeper[s] \in {"taken", "empty"}
    /\ debounce' = FALSE
    /\ sleeper' = [sleeper EXCEPT ![s] = IF @ = "taken" THEN "starting" ELSE "none"]
    /\ UNCHANGED <<generation, current, token, control, snapshot, starter, job,
                   worker, pending, starts, drops, cancels, quiet>>

\* start_upload_paths.
StartDropped(s) ==
    /\ sleeper[s] = "starting"
    /\ Register(s, "upload")
    /\ sleeper' = [sleeper EXCEPT ![s] = "none"]
    /\ UNCHANGED <<control, snapshot, job, worker, pending, debounce, starts,
                   drops, cancels, quiet>>

-----------------------------------------------------------------------------
(* run_bounded: workers take files from a shared cursor.                    *)

IsCurrent(j) == generation = j
TaskCancelled(j) == control[token[j]].cancel \/ ~IsCurrent(j)

rest == <<generation, current, token, snapshot, starter, panel, cancels, quiet>>

WorkerGoes(j, w, pc) == worker' = [worker EXCEPT ![j][w] = [Off EXCEPT !.pc = pc]]

\* task(item) returned an error: failed.store, and this worker returns.
Fails(j, w) ==
    /\ WorkerGoes(j, w, "end")
    /\ job' = [job EXCEPT ![j].failed = TRUE]

Take(j, w) ==
    /\ worker[j][w].pc = "take"
    /\ IF job[j].failed \/ job[j].cursor >= MaxFiles
         THEN WorkerGoes(j, w, "end") /\ UNCHANGED job
         ELSE /\ WorkerGoes(j, w, "copy")
              /\ job' = [job EXCEPT ![j].cursor = @ + 1]
    /\ UNCHANGED <<rest, control>>

\* The staging copy: done, failed, or stopped at a chunk boundary.
Copy(j, w) ==
    /\ worker[j][w].pc = "copy"
    /\ \/ WorkerGoes(j, w, "load") /\ UNCHANGED job
       \/ Fails(j, w)
    /\ UNCHANGED <<rest, control>>

\* begin_publish: check_cancelled and the first load.
LoadWord(j, w) ==
    /\ worker[j][w].pc = "load"
    /\ IF TaskCancelled(j)
         THEN Fails(j, w)
         ELSE /\ worker' = [worker EXCEPT ![j][w] =
                              [pc |-> "cas", seen |-> control[token[j]]]]
              /\ UNCHANGED job
    /\ UNCHANGED <<rest, control>>

Unchanged(j, w) == control[token[j]] = worker[j][w].seen
AlwaysUnchanged(j, w) == TRUE     \* mutant: a store instead of the exchange
Exchanges(j, w) == Unchanged(j, w)

\* One turn of its loop.
CompareExchange(j, w) ==
    /\ worker[j][w].pc = "cas"
    /\ \/ /\ worker[j][w].seen.cancel \/ ~IsCurrent(j)
          /\ Fails(j, w)
          /\ UNCHANGED control
       \/ /\ ~worker[j][w].seen.cancel /\ IsCurrent(j)
          /\ Exchanges(j, w)
          /\ control' = [control EXCEPT ![token[j]].publishers = @ + 1]
          /\ WorkerGoes(j, w, "confirm")
          /\ UNCHANGED job
       \/ /\ ~worker[j][w].seen.cancel /\ IsCurrent(j)
          /\ ~Exchanges(j, w)
          /\ worker' = [worker EXCEPT ![j][w].seen = control[token[j]]]
          /\ UNCHANGED <<control, job>>
    /\ UNCHANGED rest

\* Drop for PublishGuard, and the fetch_sub of a publication that is given up.
Uncount(j) == control' = [control EXCEPT ![token[j]].publishers = @ - 1]
UncountTwice(j) == control' = [control EXCEPT ![token[j]].publishers = @ - 2]   \* mutant
Release(j) == Uncount(j)

\* A newer job may have started between the exchange and here.
Confirm(j, w) ==
    /\ worker[j][w].pc = "confirm"
    /\ IF IsCurrent(j)
         THEN WorkerGoes(j, w, "publish") /\ UNCHANGED <<control, job>>
         ELSE Release(j) /\ Fails(j, w)
    /\ UNCHANGED rest

\* The transaction ends, well or badly; the guard drops.
Publish(j, w) ==
    /\ worker[j][w].pc = "publish"
    /\ Release(j)
    /\ \/ WorkerGoes(j, w, "take") /\ UNCHANGED job
       \/ Fails(j, w)
    /\ UNCHANGED rest

-----------------------------------------------------------------------------
(* The end of a job.                                                        *)

Ended(j) == \A w \in Workers : worker[j][w].pc \in {"off", "end"}

\* join_all has every worker's result, or the listing's job just begins.
Joined(j) ==
    /\ job[j].pc = "run" /\ Ended(j)
    /\ job' = [job EXCEPT ![j].pc = IF job[j].failed THEN "finish" ELSE "listing",
                          ![j].ok = ~job[j].failed, ![j].cursor = 0]
    /\ UNCHANGED <<rest, control, worker>>

List(j) ==
    /\ job[j].pc = "listing"
    /\ \E ok \in BOOLEAN : job' = [job EXCEPT ![j].pc = "finish", ![j].ok = ok]
    /\ UNCHANGED <<rest, control, worker>>

ReportsPrevious(j) == generation = j + 1   \* mutant: fetch_add without its + 1
Reports(j) == IsCurrent(j)

\* finish looks at the generation, and locks the state afterwards.
FinishCheck(j) ==
    /\ job[j].pc = "finish"
    /\ job' = [job EXCEPT ![j] = IF Reports(j) THEN [@ EXCEPT !.pc = "write"] ELSE Done]
    /\ UNCHANGED <<rest, control, worker>>

FinishWrite(j) ==
    /\ job[j].pc = "write"
    /\ job' = [job EXCEPT ![j] = Done]
    /\ snapshot' =
         IF job[j].ok
           THEN [phase |-> "Ready", notice |-> "none", listing |-> j]
           ELSE IF TaskCancelled(j)
             THEN [snapshot EXCEPT !.phase = "Cancelled", !.notice = "none"]
             ELSE [snapshot EXCEPT !.phase = "Error", !.notice = "failure"]
    /\ UNCHANGED <<generation, current, token, control, starter, worker, panel,
                   cancels, quiet>>

-----------------------------------------------------------------------------
WorkerStep(j, w) ==
    \/ Take(j, w) \/ Copy(j, w) \/ LoadWord(j, w) \/ CompareExchange(j, w)
    \/ Confirm(j, w) \/ Publish(j, w)
JobStep(j) == Joined(j) \/ List(j) \/ FinishCheck(j) \/ FinishWrite(j)
SleeperStep(s) == TakeDropped(s) \/ Reopen(s) \/ StartDropped(s)

\* The threads between start_job's two locks.
InStartJob == {t \in Threads : starter[t].kind \in {"list", "upload"}}

System ==
    \/ Swap
    \/ \E t \in Threads : Spawn(t)
    \/ \E s \in Sleepers : SleeperStep(s)
    \/ \E j \in Jobs : JobStep(j) \/ \E w \in Workers : WorkerStep(j, w)

Next ==
    /\ \/ \E kind \in {"list", "upload"} : Start(kind)
       \/ Cancel \/ Drop
       \/ System
    /\ overlap' = (overlap \/ Cardinality(InStartJob') > 1)

Spec == Init /\ [][Next]_allVars

-----------------------------------------------------------------------------
(* Properties.                                                              *)

\* Every variable keeps its type; in particular no counter goes below zero.
TypeOK ==
    /\ generation \in Jobs
    /\ current \in Jobs
    /\ token \in [Jobs -> Jobs]
    /\ control \in [Jobs -> Word]
    /\ snapshot \in [phase : Phases, notice : Notices, listing : 0..MaxJobs]
    /\ starter \in [Threads -> [kind : {"none", "swap", "list", "upload"}, job : 0..MaxJobs]]
    /\ job \in [Jobs -> [pc : JobSteps, kind : {"list", "upload"}, ok : BOOLEAN,
                         cursor : 0..MaxFiles, failed : BOOLEAN]]
    /\ worker \in [Jobs -> [Workers -> [pc : WorkerSteps, seen : Word]]]
    /\ pending \subseteq Sleepers
    /\ debounce \in BOOLEAN
    /\ sleeper \in [Sleepers -> {"none", "sleeping", "taken", "empty", "starting"}]
    /\ starts \in 0..MaxStarts /\ drops \in 0..MaxDrops /\ cancels \in 0..MaxCancels
    /\ quiet \subseteq Jobs
    /\ overlap \in BOOLEAN

\* A cancel that found nothing publishing is final: no file of that job is
\* published afterwards (the compare-exchange of begin_publish).
CancelHonoured ==
    \A j \in Jobs, w \in Workers : token[j] \in quiet => worker[j][w].pc # "publish"

Publishing(j) == {w \in Workers : worker[j][w].pc \in {"confirm", "publish"}}

\* A job's control word counts that job's publishers and no other's: a guard
\* that drops after a newer job started must not be taken off the newer one.
PublishersCounted ==
    \A j \in Jobs : job[j].pc # "none" =>
        control[token[j]].publishers = Cardinality(Publishing(j))

\* What holds TypeOK, PublishersCounted and CancelHonoured up.  Each job has
\* the token of its own generation; a job that is not spawned yet has no
\* workers, and the threads in start_job hold different ones; the word counts
\* the publishers of every job, and is cancelled for good.
Launched == {s \in Sleepers : sleeper[s] # "none"}

Budget ==
    generation + Cardinality(Launched) + (IF starter[Ui].kind = "swap" THEN 1 ELSE 0)
        <= 1 + starts + drops

OwnTokens ==
    /\ current = generation
    /\ \A j \in Jobs : token[j] = j

Unspawned ==
    /\ \A j \in Jobs : j > generation => job[j].pc = "none"
    /\ \A j \in Jobs, w \in Workers : job[j].pc = "none" => worker[j][w].pc = "off"
    /\ \A t \in InStartJob :
          starter[t].job \in 1..generation /\ job[starter[t].job].pc = "none"
    /\ \A t, u \in InStartJob : starter[t].job = starter[u].job => t = u

Counted == \A j \in Jobs : control[j].publishers = Cardinality(Publishing(j))

QuietForGood == \A j \in quiet : control[j].cancel /\ Publishing(j) = {}

ControllerInv == Budget /\ OwnTokens /\ Unspawned /\ Counted /\ QuietForGood

\* Unless two threads were in start_job at once, a thread in there carries the
\* newest generation: the one that took it is the one that writes the phase.
NewestStarts == ~overlap => \A t \in InStartJob : starter[t].job = generation

\* The newest job is about to be spawned, or it has not reported yet.  Such a
\* job can move whatever the others do: a thread between the two locks spawns,
\* and the guards of the steps of a spawned job and of its workers cover every
\* position up to "done".
NewestUnderway ==
    \/ \E t \in InStartJob : starter[t].job = generation
    \/ job[generation].pc \in {"run", "listing", "finish", "write"}

\* Unless two threads were in start_job at once, the panel does not stay busy:
\* while it shows a busy phase the newest job is still going to report,
\* whatever older jobs were doing when it started (ssh_sftp.rs, start_job and
\* finish).
PanelSettles == Busy /\ ~overlap => NewestUnderway
=============================================================================
