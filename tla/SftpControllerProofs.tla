------------------------ MODULE SftpControllerProofs ------------------------
(***************************************************************************)
(* The transfer controller for any number of workers, files, jobs and      *)
(* presses of the cancel button: its types, the publishers its control     *)
(* words count, the finality of a cancel that found nothing publishing,    *)
(* and the report a busy panel can wait for.                               *)
(***************************************************************************)
EXTENDS SftpController, FiniteSetTheorems, TLAPS

JobsInv == TypeOK /\ ControllerInv

(* The publishers of a job are some of the workers, so a control word has   *)
(* room for their number.                                                   *)
LEMMA WorkerSets ==
    ASSUME NEW S, S \subseteq Workers
    PROVE  /\ IsFiniteSet(S)
           /\ Cardinality(S) \in Nat
           /\ Cardinality(S) \in 0..Cardinality(Workers) * MaxJobs
           /\ Cardinality(S) = 0 <=> S = {}
           /\ \A w \in Workers \ S : Cardinality(S \union {w}) = Cardinality(S) + 1
           /\ \A w \in S : Cardinality(S \ {w}) = Cardinality(S) - 1
<1>1. IsFiniteSet(Workers) /\ Cardinality(Workers) \in Nat
  BY ControllerConstants, FS_CardinalityType
<1>2. /\ IsFiniteSet(S) /\ Cardinality(S) \in Nat
      /\ Cardinality(S) <= Cardinality(Workers)
  BY <1>1, FS_Subset, FS_CardinalityType
<1>3. Cardinality(S) = 0 <=> S = {}
  BY <1>2, FS_EmptySet
<1>4. \A w \in Workers \ S : Cardinality(S \union {w}) = Cardinality(S) + 1
  BY <1>2, FS_AddElement
<1>5. \A w \in S : Cardinality(S \ {w}) = Cardinality(S) - 1
  BY <1>2, FS_RemoveElement
<1>6. Cardinality(S) <= Cardinality(Workers) * MaxJobs
  <2>1. MaxJobs \in Nat /\ MaxJobs >= 1
    BY ControllerConstants DEF MaxJobs
  <2> QED
    BY <1>1, <1>2, <2>1
<1> QED
  BY <1>1, <1>2, <1>3, <1>4, <1>5, <1>6

LEMMA JobFacts ==
    /\ MaxJobs \in Nat /\ MaxJobs >= 1
    /\ Jobs \subseteq Nat /\ 1 \in Jobs
    /\ Ui \in Threads /\ Sleepers \subseteq Threads /\ Ui \notin Sleepers
    /\ IsFiniteSet(Sleepers)
<1>1. MaxJobs \in Nat /\ MaxJobs >= 1
  BY ControllerConstants DEF MaxJobs
<1>2. IsFiniteSet(Sleepers)
  BY ControllerConstants, FS_Interval DEF Sleepers
<1> QED
  BY <1>1, <1>2, ControllerConstants DEF Jobs, Threads, Ui, Sleepers

LEMMA GenerationFacts ==
    ASSUME JobsInv
    PROVE  /\ generation \in Nat /\ generation <= MaxJobs
           /\ \A j \in 1..generation : j \in Jobs /\ ~(j > generation)
<1>1. generation \in Nat /\ generation <= MaxJobs
  BY JobFacts DEF JobsInv, TypeOK, Jobs
<1> QED
  BY <1>1, JobFacts DEF Jobs

LEMMA ControllerInit ==
    ASSUME Init
    PROVE  JobsInv
<1> USE JobFacts DEF Init
<1>1. NewWord \in Word /\ Off \in [pc : WorkerSteps, seen : Word]
  BY WorkerSets DEF NewWord, Word, Off, WorkerSteps
<1>2. NoJob \in [pc : JobSteps, kind : {"list", "upload"}, ok : BOOLEAN,
                 cursor : 0..MaxFiles, failed : BOOLEAN]
  BY ControllerConstants DEF NoJob, JobSteps
<1>3. /\ control \in [Jobs -> Word]
      /\ job \in [Jobs -> [pc : JobSteps, kind : {"list", "upload"}, ok : BOOLEAN,
                           cursor : 0..MaxFiles, failed : BOOLEAN]]
      /\ worker \in [Jobs -> [Workers -> [pc : WorkerSteps, seen : Word]]]
  BY <1>1, <1>2
<1>4. starter \in [Threads -> [kind : {"none", "swap", "list", "upload"}, job : 0..MaxJobs]]
  BY DEF NoStart
<1>5. snapshot \in [phase : Phases, notice : Notices, listing : 0..MaxJobs]
  BY DEF Phases, Notices
<1>6. /\ token \in [Jobs -> Jobs]
      /\ sleeper \in [Sleepers -> {"none", "sleeping", "taken", "empty", "starting"}]
      /\ debounce \in BOOLEAN /\ overlap \in BOOLEAN
      /\ starts \in 0..MaxStarts /\ drops \in 0..MaxDrops /\ cancels \in 0..MaxCancels
  <2>1. debounce \in BOOLEAN /\ overlap \in BOOLEAN
    OBVIOUS
  <2>2. starts \in 0..MaxStarts /\ drops \in 0..MaxDrops /\ cancels \in 0..MaxCancels
    BY ControllerConstants
  <2>3. /\ token \in [Jobs -> Jobs]
        /\ sleeper \in [Sleepers -> {"none", "sleeping", "taken", "empty", "starting"}]
    OBVIOUS
  <2> QED
    BY <2>1, <2>2, <2>3
<1>7. TypeOK
  BY <1>3, <1>4, <1>5, <1>6 DEF TypeOK
<1>8. Budget
  <2>1. Launched = {}
    BY DEF Launched
  <2>2. Cardinality(Launched) = 0
    BY <2>1, FS_EmptySet
  <2> QED
    BY <2>2 DEF Budget, NoStart, Ui, Threads
<1>9. \A j \in Jobs : Publishing(j) = {} /\ control[j].publishers = 0
  BY DEF Publishing, Off, NewWord
<1>10. Counted /\ QuietForGood
  BY <1>9, FS_EmptySet DEF Counted, QuietForGood
<1>11. Unspawned
  BY DEF Unspawned, InStartJob, NoJob, Off, NoStart, Jobs
<1> QED
  BY <1>7, <1>8, <1>10, <1>11 DEF JobsInv, ControllerInv, OwnTokens

-----------------------------------------------------------------------------
(* The debounce: no job, word or worker moves.                              *)

LEMMA PanelStep ==
    ASSUME JobsInv, overlap' \in BOOLEAN,
           \/ Drop \/ Swap
           \/ \E s \in Sleepers : TakeDropped(s) \/ Reopen(s)
    PROVE  JobsInv'
<1> USE JobFacts
<1>1. UNCHANGED <<generation, current, token, control, snapshot, job, worker,
                  starts, cancels, quiet>>
  BY DEF Drop, Swap, TakeDropped, Reopen
<1>2. /\ starter' \in [Threads -> [kind : {"none", "swap", "list", "upload"}, job : 0..MaxJobs]]
      /\ \A t \in Threads : t # Ui => starter'[t] = starter[t]
      /\ \/ starter'[Ui] = starter[Ui]
         \/ starter[Ui].kind \in {"none", "swap"} /\ starter'[Ui].kind \in {"none", "swap"}
  <2>1. starter \in [Threads -> [kind : {"none", "swap", "list", "upload"}, job : 0..MaxJobs]]
    BY DEF JobsInv, TypeOK
  <2>2. CASE Drop
    BY <2>1, <2>2 DEF Drop
  <2>3. CASE Swap
    BY <2>1, <2>3 DEF Swap, NoStart
  <2>4. CASE \E s \in Sleepers : TakeDropped(s) \/ Reopen(s)
    BY <2>1, <2>4 DEF TakeDropped, Reopen
  <2> QED
    BY <2>2, <2>3, <2>4
<1>3. InStartJob' = InStartJob /\ \A t \in InStartJob : starter'[t] = starter[t]
  BY <1>2 DEF InStartJob
<1>4. /\ drops' \in 0..MaxDrops /\ pending' \subseteq Sleepers
      /\ debounce' \in BOOLEAN
      /\ sleeper' \in [Sleepers -> {"none", "sleeping", "taken", "empty", "starting"}]
  <2>1. /\ drops \in 0..MaxDrops /\ pending \subseteq Sleepers /\ debounce \in BOOLEAN
        /\ sleeper \in [Sleepers -> {"none", "sleeping", "taken", "empty", "starting"}]
    BY DEF JobsInv, TypeOK
  <2>2. CASE Drop
    <3>1. drops + 1 \in Sleepers /\ drops + 1 \in 0..MaxDrops
      BY <2>1, <2>2, ControllerConstants DEF Drop, Sleepers
    <3> QED
      BY <2>1, <2>2, <3>1 DEF Drop
  <2>3. CASE Swap
    BY <2>1, <2>3 DEF Swap
  <2>4. CASE \E s \in Sleepers : TakeDropped(s)
    BY <2>1, <2>4 DEF TakeDropped
  <2>5. CASE \E s \in Sleepers : Reopen(s)
    BY <2>1, <2>5 DEF Reopen
  <2> QED
    BY <2>2, <2>3, <2>4, <2>5
<1>5. TypeOK'
  BY <1>1, <1>2, <1>4 DEF JobsInv, TypeOK
<1>6. IsFiniteSet(Launched) /\ Cardinality(Launched) \in Nat
  BY FS_Subset, FS_CardinalityType DEF Launched
<1>7. /\ generation \in Nat /\ starts \in Nat /\ drops \in Nat /\ drops' \in Nat
      /\ Budget
  BY <1>4, ControllerConstants DEF JobsInv, TypeOK, ControllerInv
<1>8. Budget'
  <2>1. CASE Drop
    <3>1. Launched' = Launched /\ drops' = drops + 1 /\ starter[Ui].kind # "swap"
      BY <2>1 DEF Drop, Launched
    <3> QED
      BY <3>1, <1>1, <1>6, <1>7 DEF Budget
  <2>2. CASE Swap
    <3>1. drops' = drops /\ starter[Ui].kind = "swap" /\ starter'[Ui].kind = "none"
      BY <2>2 DEF Swap, NoStart, JobsInv, TypeOK
    <3>2. Launched' \subseteq Launched \union {drops}
      BY <2>2 DEF Swap, Launched, JobsInv, TypeOK
    <3>3. Cardinality(Launched') \in Nat /\ Cardinality(Launched') <= Cardinality(Launched) + 1
      <4> DEFINE U == Launched \union {drops}
      <4>0. IsFiniteSet(U) /\ Cardinality(U) \in {Cardinality(Launched), Cardinality(Launched) + 1}
        BY <1>6, FS_AddElement
      <4> HIDE DEF U
      <4>1. IsFiniteSet(U) /\ Cardinality(U) <= Cardinality(Launched) + 1
        BY <4>0, <1>6
      <4> QED
        BY <3>2, <4>1, <1>6, FS_Subset, FS_CardinalityType DEF U
    <3> QED
      BY <3>1, <3>3, <1>1, <1>6, <1>7 DEF Budget
  <2>3. CASE \E s \in Sleepers : TakeDropped(s) \/ Reopen(s)
    <3>1. Launched' \subseteq Launched /\ UNCHANGED <<drops, starter>>
      BY <2>3 DEF TakeDropped, Reopen, Launched, JobsInv, TypeOK
    <3>2. Cardinality(Launched') \in Nat /\ Cardinality(Launched') <= Cardinality(Launched)
      BY <3>1, <1>6, FS_Subset, FS_CardinalityType
    <3> QED
      BY <3>1, <3>2, <1>1, <1>6, <1>7 DEF Budget
  <2> QED
    BY <2>1, <2>2, <2>3
<1>9. (OwnTokens /\ Counted /\ QuietForGood)'
  BY <1>1 DEF JobsInv, ControllerInv, OwnTokens, Counted, QuietForGood, Publishing
<1>10. Unspawned'
  BY <1>1, <1>3 DEF JobsInv, ControllerInv, Unspawned
<1> QED
  BY <1>5, <1>8, <1>9, <1>10 DEF JobsInv, ControllerInv

-----------------------------------------------------------------------------
(* start_job: the next generation, which no thread and no job has yet.      *)

LEMMA RegisterStep ==
    ASSUME JobsInv, overlap' \in BOOLEAN,
           \/ \E kind \in {"list", "upload"} : Start(kind)
           \/ \E s \in Sleepers : StartDropped(s)
    PROVE  JobsInv'
<1> USE JobFacts
<1>1. PICK t \in Threads, kind \in {"list", "upload"} :
        /\ Register(t, kind)
        /\ \/ t = Ui /\ starts' = starts + 1 /\ starts < MaxStarts /\ UNCHANGED sleeper
           \/ /\ t # Ui /\ t \in Sleepers /\ UNCHANGED starts /\ sleeper[t] = "starting"
              /\ sleeper' = [sleeper EXCEPT ![t] = "none"]
        /\ UNCHANGED <<control, snapshot, job, worker, pending, debounce, drops,
                       cancels, quiet>>
  BY DEF Start, StartDropped
<1>2. IsFiniteSet(Launched) /\ Cardinality(Launched) \in Nat
  BY FS_Subset, FS_CardinalityType DEF Launched
<1>3. /\ generation \in Nat /\ starts \in Nat /\ drops \in Nat
      /\ starts <= MaxStarts /\ drops <= MaxDrops
      /\ Budget
  BY ControllerConstants DEF JobsInv, TypeOK, ControllerInv
<1>4. /\ generation' = generation + 1 /\ current' = generation + 1
      /\ token' = [token EXCEPT ![generation + 1] = generation + 1]
      /\ starter[t].kind = "none"
      /\ starter' = [starter EXCEPT ![t] = [kind |-> kind, job |-> generation + 1]]
  BY <1>1 DEF Register, NewToken
<1>5. Budget' /\ starts' \in 0..MaxStarts
  <2>1. CASE t = Ui /\ starts' = starts + 1 /\ starts < MaxStarts /\ UNCHANGED sleeper
    <3>1. Launched' = Launched
      BY <2>1 DEF Launched
    <3>2. starter'[Ui].kind # "swap" /\ starter[Ui].kind # "swap"
      BY <2>1, <1>4 DEF JobsInv, TypeOK
    <3> QED
      BY <2>1, <3>1, <3>2, <1>1, <1>2, <1>3, <1>4, ControllerConstants DEF Budget
  <2>2. CASE /\ t # Ui /\ t \in Sleepers /\ UNCHANGED starts /\ sleeper[t] = "starting"
             /\ sleeper' = [sleeper EXCEPT ![t] = "none"]
    <3>1. Launched' = Launched \ {t} /\ t \in Launched
      BY <2>2 DEF Launched, JobsInv, TypeOK
    <3>2. Cardinality(Launched') = Cardinality(Launched) - 1
      BY <3>1, <1>2, FS_RemoveElement
    <3>3. starter'[Ui] = starter[Ui]
      BY <2>2, <1>4 DEF JobsInv, TypeOK
    <3> QED
      BY <2>2, <3>2, <3>3, <1>1, <1>2, <1>3, <1>4, ControllerConstants DEF Budget
  <2> QED
    BY <1>1, <2>1, <2>2
<1>6. generation + 1 \in Jobs
  <2>1. generation + 1 <= MaxJobs
    <3>1. IsFiniteSet(Launched') /\ Cardinality(Launched') \in Nat
      BY FS_Subset, FS_CardinalityType DEF Launched
    <3>2. PICK n \in Nat : n = starts' /\ n <= MaxStarts
      BY <1>5, ControllerConstants
    <3>3. PICK c \in Nat, i \in {0, 1} :
             /\ c = Cardinality(Launched')
             /\ i = IF starter'[Ui].kind = "swap" THEN 1 ELSE 0
      BY <3>1
    <3>4. generation + 1 + c + i <= 1 + n + drops
      BY <3>2, <3>3, <1>1, <1>4, <1>5 DEF Budget
    <3>5. /\ generation \in Nat /\ drops \in Nat /\ drops <= MaxDrops
          /\ MaxStarts \in Nat /\ MaxDrops \in Nat
      BY <1>3, ControllerConstants
    <3> QED
      BY <3>2, <3>3, <3>4, <3>5 DEF MaxJobs
  <2> QED
    BY <2>1, <1>3 DEF Jobs
<1>7. token' = token /\ OwnTokens'
  BY <1>4, <1>6 DEF JobsInv, ControllerInv, OwnTokens, TypeOK
<1>8. TypeOK'
  <2>1. starter' \in [Threads -> [kind : {"none", "swap", "list", "upload"}, job : 0..MaxJobs]]
    <3>1. generation + 1 \in 0..MaxJobs
      BY <1>3, <1>6 DEF Jobs
    <3>2. [kind |-> kind, job |-> generation + 1]
             \in [kind : {"none", "swap", "list", "upload"}, job : 0..MaxJobs]
      BY <3>1
    <3> QED
      BY <3>2, <1>4 DEF JobsInv, TypeOK
  <2>2. sleeper' \in [Sleepers -> {"none", "sleeping", "taken", "empty", "starting"}]
    BY <1>1 DEF JobsInv, TypeOK
  <2> QED
    BY <1>1, <1>4, <1>5, <1>6, <1>7, <2>1, <2>2 DEF JobsInv, TypeOK
<1>9. (Counted /\ QuietForGood)'
  BY <1>1 DEF JobsInv, ControllerInv, Counted, QuietForGood, Publishing
<1>10. Unspawned'
  <2>1. /\ starter'[t] = [kind |-> kind, job |-> generation + 1]
        /\ \A u \in Threads : u # t => starter'[u] = starter[u]
    BY <1>4 DEF JobsInv, TypeOK
  <2>2. \A u \in InStartJob' : u # t => u \in InStartJob /\ starter'[u] = starter[u]
    BY <2>1 DEF InStartJob
  <2>3. /\ \A j \in Jobs : j > generation => job[j].pc = "none"
        /\ \A u \in InStartJob :
              starter[u].job \in 1..generation /\ job[starter[u].job].pc = "none"
        /\ \A u, v \in InStartJob : starter[u].job = starter[v].job => u = v
        /\ \A j \in Jobs, w \in Workers : job[j].pc = "none" => worker[j][w].pc = "off"
    BY DEF JobsInv, ControllerInv, Unspawned
  <2>4. \A j \in Jobs : j > generation' => job'[j].pc = "none"
    BY <2>3, <1>1, <1>3, <1>4
  <2>5. \A u \in InStartJob' :
           starter'[u].job \in 1..generation' /\ job'[starter'[u].job].pc = "none"
    BY <2>1, <2>2, <2>3, <1>1, <1>3, <1>4, <1>6
  <2>6. \A u, v \in InStartJob' : starter'[u].job = starter'[v].job => u = v
    BY <2>1, <2>2, <2>3, <1>3
  <2> QED
    BY <2>3, <2>4, <2>5, <2>6, <1>1 DEF Unspawned
<1> QED
  BY <1>5, <1>7, <1>8, <1>9, <1>10 DEF JobsInv, ControllerInv

JobType == [pc : JobSteps, kind : {"list", "upload"}, ok : BOOLEAN,
            cursor : 0..MaxFiles, failed : BOOLEAN]
WorkerType == [pc : WorkerSteps, seen : Word]

(* The second half of start_job: the job it spawns had no worker before.    *)
LEMMA SpawnStep ==
    ASSUME JobsInv, overlap' \in BOOLEAN, NEW t \in Threads, Spawn(t)
    PROVE  JobsInv'
<1> USE JobFacts
<1>1. /\ starter[t].kind \in {"list", "upload"} /\ t \in InStartJob
      /\ starter' = [starter EXCEPT ![t] = NoStart]
      /\ UNCHANGED <<generation, current, token, control, panel, cancels, quiet>>
  BY DEF Spawn, InStartJob
<1>2. UNCHANGED <<pending, debounce, sleeper, starts, drops>>
  BY <1>1 DEF panel
<1>3. PICK j \in Jobs : /\ j = starter[t].job /\ j \in 1..generation
                        /\ job[j].pc = "none"
                        /\ \A w \in Workers : worker[j][w].pc = "off"
  <2>1. starter[t].job \in 1..generation /\ job[starter[t].job].pc = "none"
    BY <1>1 DEF JobsInv, ControllerInv, Unspawned
  <2>2. starter[t].job \in Jobs
    BY <2>1, GenerationFacts
  <2>3. \A w \in Workers : worker[starter[t].job][w].pc = "off"
    BY <2>1, <2>2 DEF JobsInv, ControllerInv, Unspawned
  <2> QED
    BY <2>1, <2>2, <2>3
<1>4. PICK v \in JobType : v.pc = "run" /\ job' = [job EXCEPT ![j] = v]
  <2> DEFINE v == [NoJob EXCEPT !.pc = "run", !.kind = starter[t].kind]
  <2>1. v \in JobType /\ v.pc = "run"
    <3>1. 0 \in 0..MaxFiles
      BY ControllerConstants
    <3> QED
      BY <1>1, <3>1 DEF NoJob, JobType, JobSteps
  <2> QED
    BY <2>1, <1>3 DEF Spawn
<1>5. PICK p \in {"take", "off"} :
         worker' = [worker EXCEPT ![j] = [w \in Workers |-> [Off EXCEPT !.pc = p]]]
  BY <1>3 DEF Spawn
<1>6. [Off EXCEPT !.pc = p] \in WorkerType /\ [Off EXCEPT !.pc = p].pc = p
  BY WorkerSets DEF Off, NewWord, WorkerType, WorkerSteps, Word
<1>7. /\ job' \in [Jobs -> JobType] /\ job'[j].pc = "run"
      /\ \A l \in Jobs : l # j => job'[l] = job[l]
  BY <1>4 DEF JobsInv, TypeOK, JobType
<1>8. /\ worker' \in [Jobs -> [Workers -> WorkerType]]
      /\ \A w \in Workers : worker'[j][w].pc = p
      /\ \A l \in Jobs : l # j => worker'[l] = worker[l]
  BY <1>5, <1>6 DEF JobsInv, TypeOK, WorkerType
<1>9. /\ starter' \in [Threads -> [kind : {"none", "swap", "list", "upload"}, job : 0..MaxJobs]]
      /\ starter'[t].kind = "none"
      /\ \A u \in Threads : u # t => starter'[u] = starter[u]
  BY <1>1 DEF JobsInv, TypeOK, NoStart
<1>10. snapshot' \in [phase : Phases, notice : Notices, listing : 0..MaxJobs]
  BY DEF Spawn, JobsInv, TypeOK, Phases, Notices
<1>11. TypeOK'
  BY <1>1, <1>2, <1>7, <1>8, <1>9, <1>10 DEF JobsInv, TypeOK, JobType, WorkerType
<1>12. Budget'
  <2>1. Launched' = Launched /\ starter'[Ui].kind = "swap" <=> starter[Ui].kind = "swap"
    BY <1>1, <1>2, <1>9 DEF Launched
  <2> QED
    BY <2>1, <1>1, <1>2, <1>9 DEF Budget, JobsInv, ControllerInv, Launched
<1>13. \A l \in Jobs : Publishing(l)' = Publishing(l)
  <2>1. Publishing(j)' = {} /\ Publishing(j) = {}
    BY <1>3, <1>8 DEF Publishing
  <2> QED
    BY <2>1, <1>8 DEF Publishing
<1>14. (OwnTokens /\ Counted /\ QuietForGood)'
  BY <1>1, <1>13 DEF JobsInv, TypeOK, ControllerInv, OwnTokens, Counted, QuietForGood
<1>15. Unspawned'
  <2>1. \A u \in InStartJob' : u \in InStartJob /\ u # t /\ starter'[u] = starter[u]
    BY <1>9 DEF InStartJob
  <2>2. \A u \in InStartJob' : starter[u].job # j
    BY <2>1, <1>1, <1>3 DEF JobsInv, ControllerInv, Unspawned
  <2>3. \A u \in InStartJob' :
           starter'[u].job \in 1..generation /\ job'[starter'[u].job].pc = "none"
    <3> SUFFICES ASSUME NEW u \in InStartJob'
                 PROVE  starter'[u].job \in 1..generation /\ job'[starter'[u].job].pc = "none"
      OBVIOUS
    <3>1. starter[u].job \in 1..generation /\ job[starter[u].job].pc = "none"
      BY <2>1 DEF JobsInv, ControllerInv, Unspawned
    <3>2. starter[u].job \in Jobs
      BY <3>1, GenerationFacts
    <3> QED
      BY <2>1, <2>2, <3>1, <3>2, <1>7
  <2>4. \A l \in Jobs : l > generation => job'[l].pc = "none"
    <3>1. ~(j > generation)
      BY <1>3, GenerationFacts
    <3> QED
      BY <3>1, <1>7 DEF JobsInv, ControllerInv, Unspawned
  <2>5. \A l \in Jobs, w \in Workers : job'[l].pc = "none" => worker'[l][w].pc = "off"
    BY <1>7, <1>8 DEF JobsInv, ControllerInv, Unspawned
  <2>6. \A u, x \in InStartJob' : starter'[u].job = starter'[x].job => u = x
    BY <2>1 DEF JobsInv, ControllerInv, Unspawned
  <2> QED
    BY <2>3, <2>4, <2>5, <2>6, <1>1 DEF Unspawned
<1> QED
  BY <1>11, <1>12, <1>14, <1>15 DEF JobsInv, ControllerInv

-----------------------------------------------------------------------------
(* cancel: the word of the current token.  When it counts no publisher,     *)
(* there is none, and the token may join the quiet ones.                    *)
LEMMA CancelStep ==
    ASSUME JobsInv, overlap' \in BOOLEAN, Cancel
    PROVE  JobsInv'
<1> USE JobFacts
<1>1. /\ control' = [control EXCEPT ![current].cancel = TRUE]
      /\ quiet' = IF control[current].publishers # 0 THEN quiet ELSE quiet \union {current}
      /\ UNCHANGED <<generation, current, token, starter, job, worker, panel>>
      /\ current \in Jobs
  BY DEF Cancel, JobsInv, TypeOK
<1>2. UNCHANGED <<pending, debounce, sleeper, starts, drops>>
  BY <1>1 DEF panel
<1>3. /\ control' \in [Jobs -> Word]
      /\ \A l \in Jobs : /\ control'[l].publishers = control[l].publishers
                         /\ control[l].cancel => control'[l].cancel
      /\ control'[current].cancel
  <2>1. control \in [Jobs -> Word]
    BY DEF JobsInv, TypeOK
  <2>2. /\ control'[current] = [control[current] EXCEPT !.cancel = TRUE]
        /\ \A l \in Jobs : l # current => control'[l] = control[l]
    BY <1>1, <2>1
  <2>3. /\ control'[current] \in Word /\ control'[current].cancel
        /\ control'[current].publishers = control[current].publishers
    BY <1>1, <2>1, <2>2 DEF Word
  <2>4. control' \in [Jobs -> Word]
    BY <1>1, <2>1, <2>3
  <2> QED
    BY <2>2, <2>3, <2>4
<1>4. snapshot' \in [phase : Phases, notice : Notices, listing : 0..MaxJobs]
  BY DEF Cancel, JobsInv, TypeOK, Notices
<1>5. cancels' \in 0..MaxCancels
  BY ControllerConstants DEF Cancel, JobsInv, TypeOK
<1>6. TypeOK'
  BY <1>1, <1>2, <1>3, <1>4, <1>5 DEF JobsInv, TypeOK
<1>7. \A l \in Jobs : Publishing(l)' = Publishing(l)
  BY <1>1 DEF Publishing
<1>8. QuietForGood'
  <2>1. control[current].publishers = 0 => Publishing(current) = {}
    BY <1>1, WorkerSets DEF JobsInv, ControllerInv, Counted, Publishing
  <2>2. \A l \in quiet : l \in Jobs /\ control[l].cancel /\ Publishing(l) = {}
    BY DEF JobsInv, TypeOK, ControllerInv, QuietForGood
  <2> QED
    BY <2>1, <2>2, <1>1, <1>3, <1>7 DEF QuietForGood
<1>9. Counted'
  <2> SUFFICES ASSUME NEW l \in Jobs
               PROVE  control'[l].publishers = Cardinality(Publishing(l)')
    BY DEF Counted
  <2>1. control[l].publishers = Cardinality(Publishing(l))
    BY DEF JobsInv, ControllerInv, Counted
  <2>2. control'[l].publishers = control[l].publishers
    BY <1>3
  <2>3. Publishing(l)' = Publishing(l)
    BY <1>7
  <2> QED
    BY <2>1, <2>2, <2>3
<1>10. (Budget /\ OwnTokens /\ Unspawned)'
  BY <1>1, <1>2
     DEF JobsInv, ControllerInv, Budget, Launched, OwnTokens, Unspawned, InStartJob
<1> QED
  BY <1>6, <1>8, <1>9, <1>10 DEF JobsInv, ControllerInv

-----------------------------------------------------------------------------
(* The workers.  A step of worker w of job j takes it to v; it enters or    *)
(* leaves the publishers of j together with the count in j's word, and it   *)
(* enters them only while the word is not cancelled.                        *)

LEMMA WorkerFrame ==
    ASSUME JobsInv, overlap' \in BOOLEAN, UNCHANGED rest,
           NEW j \in Jobs, NEW w \in Workers, NEW v \in WorkerType,
           worker[j][w].pc # "off",
           worker' = [worker EXCEPT ![j][w] = v],
           job' \in [Jobs -> JobType],
           \A l \in Jobs : job'[l].pc = job[l].pc,
           LET was == worker[j][w].pc \in {"confirm", "publish"}
               is == v.pc \in {"confirm", "publish"}
           IN \/ (was <=> is) /\ control' = control
              \/ /\ ~was /\ is /\ ~control[j].cancel
                 /\ control' = [control EXCEPT ![j].publishers = @ + 1]
              \/ /\ was /\ ~is
                 /\ control' = [control EXCEPT ![j].publishers = @ - 1]
    PROVE  JobsInv'
<1> USE JobFacts
<1>1. UNCHANGED <<generation, current, token, snapshot, starter, pending, debounce,
                  sleeper, starts, drops, cancels, quiet>>
  BY DEF rest, panel
<1>2. /\ worker \in [Jobs -> [Workers -> WorkerType]]
      /\ control \in [Jobs -> Word]
  BY DEF JobsInv, TypeOK, WorkerType
<1>3. /\ worker' \in [Jobs -> [Workers -> WorkerType]]
      /\ worker'[j][w] = v
      /\ \A x \in Workers : x # w => worker'[j][x] = worker[j][x]
      /\ \A l \in Jobs : l # j => worker'[l] = worker[l]
  BY <1>2
<1>4. \A l \in Jobs : l # j => Publishing(l)' = Publishing(l)
  BY <1>3 DEF Publishing
<1>5. Publishing(j)' = IF v.pc \in {"confirm", "publish"} THEN Publishing(j) \union {w}
                                                          ELSE Publishing(j) \ {w}
  BY <1>3 DEF Publishing
<1>6. w \in Publishing(j) <=> worker[j][w].pc \in {"confirm", "publish"}
  BY DEF Publishing
<1>7. /\ Publishing(j) \subseteq Workers
      /\ control[j].publishers = Cardinality(Publishing(j))
      /\ Cardinality(Publishing(j)) \in Nat
  BY WorkerSets DEF JobsInv, ControllerInv, Counted, Publishing
<1>8. /\ control'[j].publishers = Cardinality(Publishing(j)')
      /\ control'[j].cancel = control[j].cancel
      /\ \A l \in Jobs : l # j => control'[l] = control[l]
  <2>1. CASE (worker[j][w].pc \in {"confirm", "publish"} <=> v.pc \in {"confirm", "publish"})
             /\ control' = control
    <3>1. Publishing(j)' = Publishing(j)
      BY <2>1, <1>5, <1>6
    <3> QED
      BY <2>1, <3>1, <1>7
  <2>2. CASE /\ worker[j][w].pc \notin {"confirm", "publish"}
             /\ v.pc \in {"confirm", "publish"}
             /\ control' = [control EXCEPT ![j].publishers = @ + 1]
    <3>1. Publishing(j)' = Publishing(j) \union {w} /\ w \in Workers \ Publishing(j)
      BY <2>2, <1>5, <1>6
    <3>2. Cardinality(Publishing(j)') = Cardinality(Publishing(j)) + 1
      BY <3>1, <1>7, WorkerSets
    <3>3. control'[j].publishers = control[j].publishers + 1
      BY <2>2, <1>2 DEF Word
    <3>4. control'[j].cancel = control[j].cancel /\ \A l \in Jobs : l # j => control'[l] = control[l]
      BY <2>2, <1>2 DEF Word
    <3> QED
      BY <3>2, <3>3, <3>4, <1>7
  <2>3. CASE /\ worker[j][w].pc \in {"confirm", "publish"}
             /\ v.pc \notin {"confirm", "publish"}
             /\ control' = [control EXCEPT ![j].publishers = @ - 1]
    <3>1. Publishing(j)' = Publishing(j) \ {w} /\ w \in Publishing(j)
      BY <2>3, <1>5, <1>6
    <3>2. Cardinality(Publishing(j)') = Cardinality(Publishing(j)) - 1
      BY <3>1, <1>7, WorkerSets
    <3>3. control'[j].publishers = control[j].publishers - 1
      BY <2>3, <1>2 DEF Word
    <3>4. control'[j].cancel = control[j].cancel /\ \A l \in Jobs : l # j => control'[l] = control[l]
      BY <2>3, <1>2 DEF Word
    <3> QED
      BY <3>2, <3>3, <3>4, <1>7
  <2> QED
    BY <2>1, <2>2, <2>3
<1>9. control' \in [Jobs -> Word]
  <2>1. Cardinality(Publishing(j)') \in 0..Cardinality(Workers) * MaxJobs
    <3>1. Publishing(j)' \subseteq Workers
      BY DEF Publishing
    <3> QED
      BY <3>1, WorkerSets
  <2>2. control[j].cancel \in BOOLEAN
    BY <1>2 DEF Word
  <2>3. control' = control \/ \E n : control' = [control EXCEPT ![j].publishers = n]
    OBVIOUS
  <2>4. CASE control' = control
    BY <2>4, <1>2
  <2>5. CASE \E n : control' = [control EXCEPT ![j].publishers = n]
    <3>1. PICK n : control' = [control EXCEPT ![j].publishers = n]
      BY <2>5
    <3>2. control'[j].publishers = n
      BY <3>1, <1>2 DEF Word
    <3>3. n \in 0..Cardinality(Workers) * MaxJobs
      BY <3>2, <2>1, <1>8
    <3>4. [control[j] EXCEPT !.publishers = n] \in Word
      BY <3>3, <1>2 DEF Word
    <3> QED
      BY <3>1, <3>4, <1>2
  <2> QED
    BY <2>3, <2>4, <2>5
<1>10. TypeOK'
  BY <1>1, <1>3, <1>9 DEF JobsInv, TypeOK, JobType, WorkerType
<1>11. Counted'
  <2> SUFFICES ASSUME NEW l \in Jobs
               PROVE  control'[l].publishers = Cardinality(Publishing(l)')
    BY DEF Counted
  <2>1. control[l].publishers = Cardinality(Publishing(l))
    BY DEF JobsInv, ControllerInv, Counted
  <2> QED
    BY <2>1, <1>4, <1>8
<1>12. QuietForGood'
  <2> SUFFICES ASSUME NEW l \in quiet
               PROVE  control'[l].cancel /\ Publishing(l)' = {}
    BY <1>1 DEF QuietForGood
  <2>1. l \in Jobs /\ control[l].cancel /\ Publishing(l) = {}
    BY DEF JobsInv, TypeOK, ControllerInv, QuietForGood
  <2>2. CASE l # j
    BY <2>1, <2>2, <1>4, <1>8
  <2>3. CASE l = j
    <3>1. v.pc \notin {"confirm", "publish"}
      BY <2>1, <2>3, <1>6
    <3> QED
      BY <2>1, <2>3, <3>1, <1>5, <1>8
  <2> QED
    BY <2>2, <2>3
<1>13. (Budget /\ OwnTokens)'
  BY <1>1 DEF JobsInv, ControllerInv, Budget, Launched, OwnTokens
<1>14. Unspawned'
  <2>1. InStartJob' = InStartJob
    BY <1>1 DEF InStartJob
  <2>2. \A u \in InStartJob : starter[u].job \in Jobs
    BY GenerationFacts DEF JobsInv, ControllerInv, Unspawned
  <2>3. job[j].pc # "none"
    BY DEF JobsInv, ControllerInv, Unspawned
  <2>4. \A l \in Jobs, x \in Workers : job'[l].pc = "none" => worker'[l][x].pc = "off"
    BY <2>3, <1>3 DEF JobsInv, ControllerInv, Unspawned
  <2> QED
    BY <2>1, <2>2, <2>4, <1>1 DEF JobsInv, ControllerInv, Unspawned
<1> QED
  BY <1>10, <1>11, <1>12, <1>13, <1>14 DEF JobsInv, ControllerInv

(* What the workers write is a worker's state.                              *)
LEMMA WorkerValues ==
    /\ \A pc \in WorkerSteps : /\ [Off EXCEPT !.pc = pc] \in WorkerType
                               /\ [Off EXCEPT !.pc = pc].pc = pc
    /\ \A x \in Word : [pc |-> "cas", seen |-> x] \in WorkerType
<1>1. NewWord \in Word
  BY WorkerSets DEF NewWord, Word
<1> QED
  BY <1>1 DEF Off, WorkerType, WorkerSteps

LEMMA JobRecords ==
    ASSUME NEW x \in JobType
    PROVE  /\ \A b \in BOOLEAN : /\ [x EXCEPT !.failed = b] \in JobType
                                 /\ [x EXCEPT !.failed = b].pc = x.pc
           /\ \A c \in 0..MaxFiles : /\ [x EXCEPT !.cursor = c] \in JobType
                                     /\ [x EXCEPT !.cursor = c].pc = x.pc
           /\ \A p \in JobSteps : /\ [x EXCEPT !.pc = p] \in JobType
                                  /\ [x EXCEPT !.pc = p].pc = p
           /\ \A p \in JobSteps, b \in BOOLEAN :
                  /\ [x EXCEPT !.pc = p, !.ok = b] \in JobType
                  /\ [x EXCEPT !.pc = p, !.ok = b].pc = p
           /\ \A p \in JobSteps, b \in BOOLEAN, c \in 0..MaxFiles :
                  /\ [x EXCEPT !.pc = p, !.ok = b, !.cursor = c] \in JobType
                  /\ [x EXCEPT !.pc = p, !.ok = b, !.cursor = c].pc = p
           /\ x.cursor \in 0..MaxFiles /\ x.failed \in BOOLEAN
<1> USE DEF JobType
<1>1. \A b \in BOOLEAN : [x EXCEPT !.failed = b] \in JobType
                          /\ [x EXCEPT !.failed = b].pc = x.pc
  OBVIOUS
<1>2. \A c \in 0..MaxFiles : [x EXCEPT !.cursor = c] \in JobType
                             /\ [x EXCEPT !.cursor = c].pc = x.pc
  OBVIOUS
<1>3. \A p \in JobSteps : [x EXCEPT !.pc = p] \in JobType /\ [x EXCEPT !.pc = p].pc = p
  OBVIOUS
<1>4. \A p \in JobSteps, b \in BOOLEAN :
         [x EXCEPT !.pc = p, !.ok = b] \in JobType /\ [x EXCEPT !.pc = p, !.ok = b].pc = p
  OBVIOUS
<1>5. \A p \in JobSteps, b \in BOOLEAN, c \in 0..MaxFiles :
         /\ [x EXCEPT !.pc = p, !.ok = b, !.cursor = c] \in JobType
         /\ [x EXCEPT !.pc = p, !.ok = b, !.cursor = c].pc = p
  OBVIOUS
<1> QED
  BY <1>1, <1>2, <1>3, <1>4, <1>5

LEMMA JobValues ==
    ASSUME JobsInv, NEW j \in Jobs
    PROVE  /\ job \in [Jobs -> JobType]
           /\ [job EXCEPT ![j].failed = TRUE] \in [Jobs -> JobType]
           /\ \A l \in Jobs : [job EXCEPT ![j].failed = TRUE][l].pc = job[l].pc
<1> DEFINE x == [job[j] EXCEPT !.failed = TRUE]
<1>1. job \in [Jobs -> JobType]
  BY DEF JobsInv, TypeOK, JobType
<1>2. x \in JobType /\ x.pc = job[j].pc
  BY <1>1, JobRecords
<1>3. [job EXCEPT ![j].failed = TRUE] = [job EXCEPT ![j] = x]
  OBVIOUS
<1> HIDE DEF x
<1> QED
  BY <1>1, <1>2, <1>3

LEMMA WorkerSteps1 ==
    ASSUME JobsInv, overlap' \in BOOLEAN, NEW j \in Jobs, NEW w \in Workers,
           Take(j, w) \/ Copy(j, w) \/ LoadWord(j, w)
    PROVE  JobsInv'
<1> USE JobValues, WorkerValues
<1>1. /\ UNCHANGED rest /\ control' = control
      /\ worker[j][w].pc \notin {"off", "confirm", "publish"}
  BY DEF Take, Copy, LoadWord
<1>2. /\ job' \in [Jobs -> JobType]
      /\ \A l \in Jobs : job'[l].pc = job[l].pc
  <2>1. CASE job' = job \/ job' = [job EXCEPT ![j].failed = TRUE]
    BY <2>1
  <2>2. CASE job' = [job EXCEPT ![j].cursor = @ + 1] /\ ~(job[j].cursor >= MaxFiles)
    <3>1. PICK c \in 0..MaxFiles : c = job[j].cursor + 1
      <4>1. job[j].cursor \in 0..MaxFiles
        BY JobRecords
      <4> QED
        BY <2>2, <4>1, ControllerConstants
    <3> DEFINE x == [job[j] EXCEPT !.cursor = c]
    <3>2. x \in JobType /\ x.pc = job[j].pc
      BY JobRecords
    <3>3. job' = [job EXCEPT ![j] = x]
      BY <2>2, <3>1
    <3> HIDE DEF x
    <3> QED
      BY <3>2, <3>3
  <2> QED
    BY <2>1, <2>2 DEF Take, Copy, LoadWord, Fails
<1>3. PICK v \in WorkerType : /\ worker' = [worker EXCEPT ![j][w] = v]
                              /\ v.pc \notin {"confirm", "publish"}
  <2>1. CASE \E pc \in {"end", "copy", "load"} : WorkerGoes(j, w, pc)
    <3>1. PICK pc \in {"end", "copy", "load"} :
                worker' = [worker EXCEPT ![j][w] = [Off EXCEPT !.pc = pc]]
      BY <2>1 DEF WorkerGoes
    <3> DEFINE v == [Off EXCEPT !.pc = pc]
    <3>2. v \in WorkerType /\ v.pc = pc
      BY <3>1 DEF WorkerSteps
    <3> HIDE DEF v
    <3> QED
      BY <3>1, <3>2 DEF v
  <2>2. CASE worker' = [worker EXCEPT ![j][w] = [pc |-> "cas", seen |-> control[token[j]]]]
    <3>1. control[token[j]] \in Word
      BY DEF JobsInv, TypeOK
    <3> QED
      BY <2>2, <3>1
  <2> QED
    BY <2>1, <2>2 DEF Take, Copy, LoadWord, Fails
<1> QED
  BY <1>1, <1>2, <1>3, WorkerFrame

(* begin_publish: the exchange succeeds only on a word that was not         *)
(* cancelled when it was read and has not changed since.                    *)
LEMMA ExchangeStep ==
    ASSUME JobsInv, overlap' \in BOOLEAN, NEW j \in Jobs, NEW w \in Workers,
           CompareExchange(j, w)
    PROVE  JobsInv'
<1> USE JobValues, WorkerValues
<1>1. /\ UNCHANGED rest /\ worker[j][w].pc = "cas" /\ token[j] = j
  BY DEF CompareExchange, JobsInv, ControllerInv, OwnTokens
<1>2. control \in [Jobs -> Word] /\ worker \in [Jobs -> [Workers -> WorkerType]]
  BY DEF JobsInv, TypeOK, WorkerType
<1>3. CASE Fails(j, w) /\ UNCHANGED control
  <2>1. /\ worker' = [worker EXCEPT ![j][w] = [Off EXCEPT !.pc = "end"]]
        /\ job' = [job EXCEPT ![j].failed = TRUE]
    BY <1>3 DEF Fails, WorkerGoes
  <2>2. "end" \in WorkerSteps
    BY DEF WorkerSteps
  <2> QED
    BY <1>1, <1>3, <2>1, <2>2, WorkerFrame
<1>4. CASE /\ ~worker[j][w].seen.cancel /\ Exchanges(j, w)
           /\ control' = [control EXCEPT ![token[j]].publishers = @ + 1]
           /\ WorkerGoes(j, w, "confirm") /\ UNCHANGED job
  <2>1. ~control[j].cancel
    BY <1>1, <1>4 DEF Exchanges, Unchanged
  <2>2. /\ control' = [control EXCEPT ![j].publishers = @ + 1]
        /\ worker' = [worker EXCEPT ![j][w] = [Off EXCEPT !.pc = "confirm"]]
    BY <1>1, <1>4 DEF WorkerGoes
  <2>3. "confirm" \in WorkerSteps
    BY DEF WorkerSteps
  <2> QED
    BY <1>1, <1>4, <2>1, <2>2, <2>3, WorkerFrame
<1>5. CASE /\ worker' = [worker EXCEPT ![j][w].seen = control[token[j]]]
           /\ UNCHANGED <<control, job>>
  <2>1. worker[j][w] \in WorkerType /\ control[j] \in Word
    BY <1>2
  <2>2. /\ [worker[j][w] EXCEPT !.seen = control[j]] = [pc |-> "cas", seen |-> control[j]]
    BY <2>1, <1>1 DEF WorkerType
  <2>3. worker' = [worker EXCEPT ![j][w] = [pc |-> "cas", seen |-> control[j]]]
    BY <1>1, <1>2, <1>5, <2>2
  <2> DEFINE v == [pc |-> "cas", seen |-> control[j]]
  <2>4. v \in WorkerType /\ v.pc = "cas"
    BY <2>1
  <2> HIDE DEF v
  <2>5. worker' = [worker EXCEPT ![j][w] = v] /\ worker[j][w].pc # "off"
    BY <2>3, <1>1 DEF v
  <2>6. job' \in [Jobs -> JobType] /\ \A l \in Jobs : job'[l].pc = job[l].pc
    BY <1>5
  <2> QED
    BY <1>1, <1>5, <2>4, <2>5, <2>6, WorkerFrame
<1> QED
  BY <1>3, <1>4, <1>5 DEF CompareExchange

(* The guard: kept when the generation still is the job's, dropped once.    *)
LEMMA GuardStep ==
    ASSUME JobsInv, overlap' \in BOOLEAN, NEW j \in Jobs, NEW w \in Workers,
           Confirm(j, w) \/ Publish(j, w)
    PROVE  JobsInv'
<1> USE JobValues, WorkerValues
<1>1. /\ UNCHANGED rest /\ worker[j][w].pc \in {"confirm", "publish"} /\ token[j] = j
  BY DEF Confirm, Publish, JobsInv, ControllerInv, OwnTokens
<1>2. {"publish", "take", "end"} \subseteq WorkerSteps
  BY DEF WorkerSteps
<1>3. CASE WorkerGoes(j, w, "publish") /\ UNCHANGED <<control, job>>
  <2>1. worker' = [worker EXCEPT ![j][w] = [Off EXCEPT !.pc = "publish"]]
    BY <1>3 DEF WorkerGoes
  <2> QED
    BY <1>1, <1>2, <1>3, <2>1, WorkerFrame
<1>4. CASE Release(j) /\ WorkerGoes(j, w, "take") /\ UNCHANGED job
  <2>1. /\ worker' = [worker EXCEPT ![j][w] = [Off EXCEPT !.pc = "take"]]
        /\ control' = [control EXCEPT ![j].publishers = @ - 1]
    BY <1>1, <1>4 DEF WorkerGoes, Release, Uncount
  <2> QED
    BY <1>1, <1>2, <1>4, <2>1, WorkerFrame
<1>5. CASE Release(j) /\ Fails(j, w)
  <2>1. /\ worker' = [worker EXCEPT ![j][w] = [Off EXCEPT !.pc = "end"]]
        /\ job' = [job EXCEPT ![j].failed = TRUE]
        /\ control' = [control EXCEPT ![j].publishers = @ - 1]
    BY <1>1, <1>5 DEF Fails, WorkerGoes, Release, Uncount
  <2> QED
    BY <1>1, <1>2, <2>1, WorkerFrame
<1> QED
  BY <1>3, <1>4, <1>5 DEF Confirm, Publish

-----------------------------------------------------------------------------
(* The end of a job moves its own record and the snapshot.                  *)
LEMMA JobEndStep ==
    ASSUME JobsInv, overlap' \in BOOLEAN, NEW j \in Jobs, JobStep(j)
    PROVE  JobsInv'
<1> USE JobFacts
<1>1. UNCHANGED <<generation, current, token, control, starter, worker, panel,
                  cancels, quiet>>
  BY DEF JobStep, Joined, List, FinishCheck, FinishWrite, rest
<1>2. UNCHANGED <<pending, debounce, sleeper, starts, drops>>
  BY <1>1 DEF panel
<1>3. job \in [Jobs -> JobType]
  BY DEF JobsInv, TypeOK, JobType
<1>4. Done \in JobType /\ Done.pc # "none"
  <2>1. 0 \in 0..MaxFiles
    BY ControllerConstants
  <2> QED
    BY <2>1 DEF Done, NoJob, JobType, JobSteps
<1>5. job[j].pc # "none"
  BY DEF JobStep, Joined, List, FinishCheck, FinishWrite
<1>6. PICK v \in JobType : v.pc # "none" /\ job' = [job EXCEPT ![j] = v]
  <2>0. /\ \A p \in JobSteps, b \in BOOLEAN :
              /\ [job[j] EXCEPT !.pc = p, !.ok = b] \in JobType
              /\ [job[j] EXCEPT !.pc = p, !.ok = b].pc = p
        /\ \A p \in JobSteps, b \in BOOLEAN, c \in 0..MaxFiles :
              /\ [job[j] EXCEPT !.pc = p, !.ok = b, !.cursor = c] \in JobType
              /\ [job[j] EXCEPT !.pc = p, !.ok = b, !.cursor = c].pc = p
    <3>1. job[j] \in JobType
      BY <1>3
    <3> QED
      BY <3>1, JobRecords, Zenon
  <2>1. CASE Joined(j)
    <3> DEFINE v == [job[j] EXCEPT !.pc = IF job[j].failed THEN "finish" ELSE "listing",
                                   !.ok = ~job[j].failed, !.cursor = 0]
    <3>1. 0 \in 0..MaxFiles
      BY ControllerConstants
    <3>2. v \in JobType /\ v.pc # "none"
      <4>1. job[j].failed \in BOOLEAN
        BY <1>3, JobRecords
      <4>2. "finish" \in JobSteps /\ "listing" \in JobSteps /\ (~job[j].failed) \in BOOLEAN
        BY DEF JobSteps
      <4> QED
        BY <3>1, <4>1, <4>2, <2>0, Zenon
    <3>3. job' = [job EXCEPT ![j] = v]
      BY <2>1, <1>3 DEF Joined
    <3> QED
      BY <3>2, <3>3
  <2>2. CASE List(j)
    <3>1. PICK ok \in BOOLEAN : job' = [job EXCEPT ![j].pc = "finish", ![j].ok = ok]
      BY <2>2 DEF List
    <3> DEFINE v == [job[j] EXCEPT !.pc = "finish", !.ok = ok]
    <3>2. v \in JobType /\ v.pc # "none"
      <4>1. "finish" \in JobSteps
        BY DEF JobSteps
      <4> QED
        BY <4>1, <1>3, <2>0, Zenon
    <3>3. job' = [job EXCEPT ![j] = v]
      BY <3>1, <1>3
    <3> QED
      BY <3>2, <3>3
  <2>3. CASE FinishCheck(j)
    <3> DEFINE v == IF Reports(j) THEN [job[j] EXCEPT !.pc = "write"] ELSE Done
    <3>1. v \in JobType /\ v.pc # "none"
      BY <1>3, <1>4 DEF JobType, JobSteps
    <3>2. job' = [job EXCEPT ![j] = v]
      BY <2>3, <1>3 DEF FinishCheck
    <3> QED
      BY <3>1, <3>2
  <2>4. CASE FinishWrite(j)
    BY <2>4, <1>4 DEF FinishWrite
  <2> QED
    BY <2>1, <2>2, <2>3, <2>4 DEF JobStep
<1>7. /\ job' \in [Jobs -> JobType] /\ job'[j].pc # "none"
      /\ \A l \in Jobs : l # j => job'[l] = job[l]
  BY <1>3, <1>6
<1>8. snapshot' \in [phase : Phases, notice : Notices, listing : 0..MaxJobs]
  <2>1. snapshot \in [phase : Phases, notice : Notices, listing : 0..MaxJobs]
    BY DEF JobsInv, TypeOK
  <2>2. j \in 0..MaxJobs
    BY DEF Jobs
  <2>3. CASE FinishWrite(j)
    BY <2>1, <2>2, <2>3 DEF FinishWrite, Phases, Notices
  <2>4. CASE snapshot' = snapshot
    BY <2>1, <2>4
  <2> QED
    BY <2>3, <2>4 DEF JobStep, Joined, List, FinishCheck, rest
<1>9. TypeOK'
  BY <1>1, <1>2, <1>7, <1>8 DEF JobsInv, TypeOK, JobType
<1>10. (Budget /\ OwnTokens /\ Counted /\ QuietForGood)'
  BY <1>1, <1>2 DEF JobsInv, ControllerInv, Budget, Launched, OwnTokens, Counted,
                    QuietForGood, Publishing
<1>11. Unspawned'
  <2>1. InStartJob' = InStartJob
    BY <1>1 DEF InStartJob
  <2>2. \A u \in InStartJob : starter[u].job \in Jobs /\ starter[u].job # j
    BY <1>5, GenerationFacts DEF JobsInv, ControllerInv, Unspawned
  <2>3. /\ \A l \in Jobs : l > generation => job[l].pc = "none"
        /\ \A l \in Jobs, w \in Workers : job[l].pc = "none" => worker[l][w].pc = "off"
        /\ \A u \in InStartJob :
              starter[u].job \in 1..generation /\ job[starter[u].job].pc = "none"
        /\ \A u, x \in InStartJob : starter[u].job = starter[x].job => u = x
    BY DEF JobsInv, ControllerInv, Unspawned
  <2>4. \A l \in Jobs : l > generation => job'[l].pc = "none"
    BY <2>3, <1>5, <1>7
  <2>5. \A l \in Jobs, w \in Workers : job'[l].pc = "none" => worker[l][w].pc = "off"
    BY <2>3, <1>5, <1>7
  <2>6. \A u \in InStartJob :
           starter[u].job \in 1..generation /\ job'[starter[u].job].pc = "none"
    BY <2>2, <2>3, <1>7
  <2> QED
    BY <2>1, <2>3, <2>4, <2>5, <2>6, <1>1 DEF Unspawned
<1> QED
  BY <1>9, <1>10, <1>11 DEF JobsInv, ControllerInv

-----------------------------------------------------------------------------
LEMMA ControllerStep ==
    ASSUME JobsInv, [Next]_allVars
    PROVE  JobsInv'
<1>1. CASE UNCHANGED allVars
  BY <1>1 DEF allVars, vars, JobsInv, TypeOK, ControllerInv, Budget, Launched,
              OwnTokens, Unspawned, InStartJob, Counted, QuietForGood, Publishing
<1>2. CASE Next
  <2>1. overlap' \in BOOLEAN
    BY <1>2 DEF Next
  <2> QED
    BY <1>2, <2>1, PanelStep, RegisterStep, SpawnStep, CancelStep, WorkerSteps1,
       ExchangeStep, GuardStep, JobEndStep
       DEF Next, System, SleeperStep, WorkerStep
<1> QED
  BY <1>1, <1>2

(* The controller's inductive invariant, for any number of workers, files,  *)
(* jobs, drops and presses of the cancel button.                            *)
THEOREM Invariance == Spec => []JobsInv
<1>1. Init => JobsInv
  BY ControllerInit
<1>2. JobsInv /\ [Next]_allVars => JobsInv'
  BY ControllerStep
<1> QED
  BY <1>1, <1>2, PTL DEF Spec

(* Every variable keeps its type: the generation stays within the jobs the  *)
(* user's actions account for, and no count of publishers goes below zero.  *)
THEOREM TypeCorrect == Spec => []TypeOK
<1>1. JobsInv => TypeOK
  BY DEF JobsInv
<1> QED
  BY <1>1, Invariance, PTL

(* A control word counts the publishers of its own job and no other's.      *)
THEOREM Publishers == Spec => []PublishersCounted
<1>1. JobsInv => PublishersCounted
  <2> SUFFICES ASSUME JobsInv, NEW j \in Jobs
               PROVE  control[token[j]].publishers = Cardinality(Publishing(j))
    BY DEF PublishersCounted
  <2>1. token[j] = j /\ control[j].publishers = Cardinality(Publishing(j))
    BY DEF JobsInv, ControllerInv, OwnTokens, Counted
  <2> QED
    BY <2>1
<1> QED
  BY <1>1, Invariance, PTL

(* A cancel that found nothing publishing is final: begin_publish lets no   *)
(* file of that job through afterwards.                                     *)
THEOREM CancelIsFinal == Spec => []CancelHonoured
<1>1. JobsInv => CancelHonoured
  <2> SUFFICES ASSUME JobsInv, NEW j \in Jobs, NEW w \in Workers, token[j] \in quiet
               PROVE  worker[j][w].pc # "publish"
    BY DEF CancelHonoured
  <2>1. token[j] = j
    BY DEF JobsInv, ControllerInv, OwnTokens
  <2>2. Publishing(j) = {}
    BY <2>1 DEF JobsInv, ControllerInv, QuietForGood
  <2> QED
    BY <2>2 DEF Publishing
<1> QED
  BY <1>1, Invariance, PTL

-----------------------------------------------------------------------------
(* The panel: who takes a generation, who writes the phase, who reports.    *)

SettlesInv == JobsInv /\ NewestStarts /\ PanelSettles

(* A thread that enters start_job while another one is there is counted.    *)
LEMMA Alone ==
    ASSUME NEW S \in SUBSET Threads, NEW t \in S, ~(Cardinality(S) > 1)
    PROVE  S = {t}
<1>1. IsFiniteSet(S)
  <2>1. IsFiniteSet({Ui}) /\ IsFiniteSet(Sleepers)
    BY FS_Singleton, JobFacts
  <2>2. IsFiniteSet(Threads)
    BY <2>1, FS_Union DEF Threads
  <2> QED
    BY <2>2, FS_Subset
<1>2. SUFFICES ASSUME NEW u \in S, u # t
               PROVE  FALSE
  OBVIOUS
<1>3. /\ IsFiniteSet({t}) /\ Cardinality({t}) = 1
      /\ IsFiniteSet({t} \union {u}) /\ Cardinality({t} \union {u}) = 2
  <2>1. IsFiniteSet({t}) /\ Cardinality({t}) = 1 /\ u \notin {t}
    BY <1>2, FS_Singleton
  <2>2. IsFiniteSet({t} \union {u}) /\ Cardinality({t} \union {u}) = Cardinality({t}) + 1
    BY <2>1, FS_AddElement
  <2> QED
    BY <2>1, <2>2
<1>4. Cardinality({t} \union {u}) <= Cardinality(S) /\ Cardinality(S) \in Nat
  BY <1>1, <1>2, <1>3, FS_Subset, FS_CardinalityType
<1> QED
  BY <1>3, <1>4

LEMMA SettlesInit ==
    ASSUME Init
    PROVE  SettlesInv
<1>1. JobsInv
  BY ControllerInit
<1>2. /\ \A t \in InStartJob : t = Ui
      /\ Ui \in InStartJob /\ starter[Ui].job = 1 /\ generation = 1
  BY JobFacts DEF Init, InStartJob, NoStart
<1> QED
  BY <1>1, <1>2 DEF SettlesInv, NewestStarts, PanelSettles, NewestUnderway

(* The steps that neither enter start_job nor end the newest job.           *)
LEMMA SettlesFrame ==
    ASSUME SettlesInv, JobsInv', overlap' \in BOOLEAN, ~overlap' => ~overlap,
           generation' = generation, snapshot'.phase = snapshot.phase,
           InStartJob' = InStartJob,
           \A t \in InStartJob : starter'[t] = starter[t],
           \A j \in Jobs : job'[j].pc = job[j].pc
    PROVE  SettlesInv'
<1>1. generation \in Jobs
  BY DEF SettlesInv, JobsInv, TypeOK
<1>2. NewestStarts'
  BY DEF SettlesInv, NewestStarts
<1>3. NewestUnderway => NewestUnderway'
  BY <1>1 DEF NewestUnderway
<1> QED
  BY <1>2, <1>3 DEF SettlesInv, PanelSettles, Busy

LEMMA SettlesStep ==
    ASSUME SettlesInv, [Next]_allVars
    PROVE  SettlesInv'
<1>0. JobsInv /\ JobsInv'
  BY ControllerStep DEF SettlesInv
<1>1. CASE UNCHANGED allVars
  BY <1>1, <1>0 DEF allVars, vars, SettlesInv, NewestStarts, InStartJob, PanelSettles,
                    NewestUnderway, Busy
<1>2. CASE Next
  <2>0. /\ overlap' \in BOOLEAN /\ (~overlap' => ~overlap)
        /\ ~overlap' => ~(Cardinality(InStartJob') > 1)
    BY <1>2 DEF Next
  <2>types. /\ generation \in Jobs
            /\ starter \in [Threads -> [kind : {"none", "swap", "list", "upload"}, job : 0..MaxJobs]]
            /\ snapshot \in [phase : Phases, notice : Notices, listing : 0..MaxJobs]
            /\ job \in [Jobs -> JobType]
    BY <1>0 DEF JobsInv, TypeOK, JobType
  <2>1. CASE (\E kind \in {"list", "upload"} : Start(kind)) \/ \E s \in Sleepers : StartDropped(s)
    <3>1. PICK t \in Threads, kind \in {"list", "upload"} : Register(t, kind)
      BY <2>1, JobFacts DEF Start, StartDropped
    <3>2. generation' = generation + 1
          /\ starter' = [starter EXCEPT ![t] = [kind |-> kind, job |-> generation + 1]]
      BY <3>1 DEF Register
    <3>3. starter'[t].kind \in {"list", "upload"} /\ starter'[t].job = generation'
      BY <2>types, <3>2
    <3>4. t \in InStartJob' /\ InStartJob' \subseteq Threads
      BY <3>3 DEF InStartJob
    <3>5. ~overlap' => InStartJob' = {t}
      BY <3>4, <2>0, Alone
    <3>6. NewestStarts' /\ NewestUnderway'
      BY <3>3, <3>4, <3>5 DEF NewestStarts, NewestUnderway
    <3> QED
      BY <1>0, <3>6 DEF SettlesInv, PanelSettles
  <2>2. CASE \E t \in Threads : Spawn(t)
    <3>1. PICK t \in Threads : Spawn(t)
      BY <2>2
    <3>2. /\ t \in InStartJob /\ generation' = generation
          /\ starter' = [starter EXCEPT ![t] = NoStart]
          /\ job' = [job EXCEPT ![starter[t].job] =
                       [NoJob EXCEPT !.pc = "run", !.kind = starter[t].kind]]
      BY <3>1 DEF Spawn, InStartJob
    <3>3. InStartJob' \subseteq InStartJob /\ \A u \in InStartJob' : starter'[u] = starter[u]
      BY <3>2, <2>types DEF InStartJob, NoStart
    <3>4. NewestStarts'
      BY <3>2, <3>3, <2>0 DEF SettlesInv, NewestStarts
    <3>5. ~overlap' => starter[t].job = generation
      BY <3>2, <2>0 DEF SettlesInv, NewestStarts
    <3>6. ~overlap' => job'[generation].pc = "run"
      BY <3>2, <3>5, <2>types DEF NoJob
    <3> QED
      BY <1>0, <3>2, <3>4, <3>6 DEF SettlesInv, PanelSettles, NewestUnderway
  <2>3. CASE Cancel \/ Drop \/ Swap \/ \E s \in Sleepers : TakeDropped(s) \/ Reopen(s)
    <3>1. generation' = generation /\ job' = job
      BY <2>3 DEF Cancel, Drop, Swap, TakeDropped, Reopen
    <3>2. snapshot'.phase = snapshot.phase
      BY <2>3, <2>types DEF Cancel, Drop, Swap, TakeDropped, Reopen
    <3>3. InStartJob' = InStartJob /\ \A t \in InStartJob : starter'[t] = starter[t]
      <4>1. CASE Cancel \/ \E s \in Sleepers : TakeDropped(s) \/ Reopen(s)
        BY <4>1 DEF Cancel, TakeDropped, Reopen, InStartJob
      <4>2. CASE Drop
        BY <4>2, <2>types, JobFacts DEF Drop, InStartJob
      <4>3. CASE Swap
        BY <4>3, <2>types, JobFacts DEF Swap, InStartJob, NoStart
      <4> QED
        BY <2>3, <4>1, <4>2, <4>3
    <3> QED
      BY <1>0, <2>0, <3>1, <3>2, <3>3, SettlesFrame
  <2>4. CASE \E j \in Jobs, w \in Workers : WorkerStep(j, w)
    <3>1. PICK j \in Jobs, w \in Workers : WorkerStep(j, w)
      BY <2>4
    <3>2. UNCHANGED <<generation, snapshot, starter>>
      BY <3>1 DEF WorkerStep, Take, Copy, LoadWord, CompareExchange, Confirm, Publish, rest
    <3>3. \/ job' = job \/ job' = [job EXCEPT ![j].failed = TRUE]
          \/ job' = [job EXCEPT ![j].cursor = @ + 1]
      BY <3>1 DEF WorkerStep, Take, Copy, LoadWord, CompareExchange, Confirm, Publish, Fails
    <3>4. \A l \in Jobs : job'[l].pc = job[l].pc
      BY <3>3, <2>types DEF JobType
    <3> QED
      BY <1>0, <2>0, <3>2, <3>4, SettlesFrame DEF InStartJob
  <2>5. CASE \E j \in Jobs : JobStep(j)
    <3>1. PICK j \in Jobs : JobStep(j)
      BY <2>5
    <3>2. generation' = generation /\ starter' = starter /\ InStartJob' = InStartJob
      BY <3>1 DEF JobStep, Joined, List, FinishCheck, FinishWrite, rest, InStartJob
    <3>3. NewestStarts'
      BY <3>2, <2>0 DEF SettlesInv, NewestStarts
    <3>4. CASE FinishWrite(j)
      <4>1. snapshot'.phase \in {"Ready", "Cancelled", "Error"}
        BY <3>4, <2>types DEF FinishWrite
      <4> QED
        BY <4>1, <1>0, <3>3 DEF SettlesInv, PanelSettles, Busy
    <3>5. CASE Joined(j) \/ List(j) \/ FinishCheck(j)
      <4>1. snapshot' = snapshot
        BY <3>5 DEF Joined, List, FinishCheck, rest
      <4>2. \A l \in Jobs : l # j => job'[l] = job[l]
        BY <3>5, <2>types DEF Joined, List, FinishCheck
      <4>3. j = generation => job'[j].pc \in {"run", "listing", "finish", "write"}
        <5>1. CASE Joined(j)
          BY <5>1, <2>types DEF Joined, JobType
        <5>2. CASE List(j)
          BY <5>2, <2>types DEF List, JobType
        <5>3. CASE FinishCheck(j)
          BY <5>3, <2>types DEF FinishCheck, Reports, IsCurrent, JobType
        <5> QED
          BY <3>5, <5>1, <5>2, <5>3
      <4>4. NewestUnderway => NewestUnderway'
        BY <3>2, <4>2, <4>3, <2>types DEF NewestUnderway
      <4> QED
        BY <4>1, <4>4, <1>0, <2>0, <3>3 DEF SettlesInv, PanelSettles, Busy
    <3> QED
      BY <3>1, <3>4, <3>5 DEF JobStep
  <2> QED
    BY <1>2, <2>1, <2>2, <2>3, <2>4, <2>5 DEF Next, System, SleeperStep
<1> QED
  BY <1>1, <1>2

(* The panel does not stay busy: unless two threads were in start_job at    *)
(* once, the newest job is still going to report while a busy phase shows,  *)
(* for any number of jobs, files, workers and presses of the cancel button. *)
THEOREM PanelIsReported == Spec => []PanelSettles
<1>1. Init => SettlesInv
  BY SettlesInit
<1>2. SettlesInv /\ [Next]_allVars => SettlesInv'
  BY SettlesStep
<1>3. SettlesInv => PanelSettles
  BY DEF SettlesInv
<1> QED
  BY <1>1, <1>2, <1>3, PTL DEF Spec
=============================================================================
