----------------------------- MODULE Recording ------------------------------
(***************************************************************************)
(* The walkthrough video of one pitch: requestRecording and                *)
(* onRecordingFinished (pipeline.service.ts), the recorder worker          *)
(* (recorder-worker/src/process-recording.ts), and reconcileRecordings of  *)
(* the maintenance job.                                                    *)
(*                                                                         *)
(* A recording row has one job.  The queue hands a stalled job to a second *)
(* execution while the first goes on.  A finished recording is announced   *)
(* by a callback that may be lost or repeated, and by the maintenance job, *)
(* which also fails recordings that took too long.                         *)
(***************************************************************************)
EXTENDS Integers, FiniteSets

CONSTANTS
  Exec,             \* executions of the recorder
  Announce,         \* calls of onRecordingFinished in the API
  Sweep,            \* the one the maintenance job makes
  MaxVideos,        \* bound on recordings requested
  VideoAttempts,    \* attempts of a job (RECORDER_MAX_ATTEMPTS)
  MaxVideoStalls,   \* bound on stalled jobs
  MaxVideoDeaths    \* bound on API threads that die

ASSUME RecordingAssumption ==
  /\ {MaxVideos, MaxVideoStalls, MaxVideoDeaths} \subseteq Nat
  /\ VideoAttempts \in Nat \ {0}
  /\ Sweep \in Announce
  /\ {"none", "waiting", "done"} \cap Exec = {}

Video == 1..MaxVideos

VARIABLES
  pitchStage,    \* LeadPipeline.stage
  failedAt,      \* LeadPipeline.failureStage
  current,       \* LeadPipeline.recordingId; 0 is null
  asking,        \* requestRecording: idle, or how far it is
  video,         \* DemoRecording.status per recording
  job,           \* its job: none, waiting, done or the execution that holds it
  attemptsMade,  \* of the job
  exec,          \* per execution: where it is and in which recording
  announce,      \* per call: where it is, its recording, the status it read
  claims,        \* how often a recording has moved the pitch on to delivery
  stalls, videoDeaths
recVars == <<pitchStage, failedAt, current, asking, video, job, attemptsMade, exec, announce,
             claims, stalls, videoDeaths>>

IdleExec == [pc |-> "idle", of |-> 0, last |-> FALSE]
IdleCall == [pc |-> "idle", of |-> 0, status |-> "NONE"]

RecInit ==
  /\ pitchStage = "SITE_PUBLISHED" /\ failedAt = "NONE" /\ current = 0 /\ asking = "idle"
  /\ video = [r \in Video |-> "NONE"] /\ job = [r \in Video |-> "none"]
  /\ attemptsMade = [r \in Video |-> 0]
  /\ exec = [x \in Exec |-> IdleExec] /\ announce = [c \in Announce |-> IdleCall]
  /\ claims = [r \in Video |-> 0]
  /\ stalls = 0 /\ videoDeaths = 0

pitchVars == <<pitchStage, failedAt, current, claims>>
jobVars == <<job, attemptsMade, stalls>>

Requested == {r \in Video : video[r] # "NONE"}

\* The pitch has a recording, and it can be delivered.
VideoReady == current # 0 /\ video[current] = "READY"

-----------------------------------------------------------------------------
(* requestRecording: the row, the stage, the job.                           *)

\* The first time after the preview was published; later for a retry, by the
\* user or requeueFailedPipelines, of a pitch that failed for its recording.
AskingCreates ==
  /\ asking = "idle" /\ Requested # Video
  /\ \/ pitchStage = "SITE_PUBLISHED" /\ Requested = {}
     \/ pitchStage = "FAILED" /\ (failedAt # "RECORDING" => ~VideoReady)
  /\ video' = [video EXCEPT ![Cardinality(Requested) + 1] = "QUEUED"]
  /\ asking' = "staging"
  /\ UNCHANGED <<pitchVars, jobVars, exec, announce, videoDeaths>>

AskingStages ==
  /\ asking = "staging" /\ asking' = "queueing"
  /\ pitchStage' = "RECORDING" /\ failedAt' = "NONE" /\ current' = Cardinality(Requested)
  /\ UNCHANGED <<claims, video, jobVars, exec, announce, videoDeaths>>

AskingQueues ==
  /\ asking = "queueing" /\ asking' = "idle"
  /\ job' = [job EXCEPT ![current] = "waiting"]
  /\ UNCHANGED <<pitchVars, attemptsMade, stalls, video, exec, announce, videoDeaths>>

\* Died before it had queued the job, or before the pitch knew of the recording.
AskingDies ==
  /\ asking \in {"staging", "queueing"} /\ videoDeaths < MaxVideoDeaths
  /\ asking' = "idle" /\ videoDeaths' = videoDeaths + 1
  /\ UNCHANGED <<pitchVars, video, jobVars, exec, announce>>

\* A write or the queue refused: failPipeline.
AskingFails ==
  /\ asking \in {"staging", "queueing"} /\ asking' = "idle"
  /\ pitchStage' = "FAILED" /\ failedAt' = "RECORDING"
  /\ UNCHANGED <<current, claims, video, jobVars, exec, announce, videoDeaths>>

-----------------------------------------------------------------------------
(* processRecording.                                                        *)

ExecGoes(x, pc) == exec' = [exec EXCEPT ![x].pc = pc]

ExecStarts(x, r) ==
  /\ exec[x].pc = "idle" /\ job[r] = "waiting"
  /\ job' = [job EXCEPT ![r] = x]
  /\ exec' = [exec EXCEPT ![x] = [pc |-> "load", of |-> r, last |-> attemptsMade[r] + 1 >= VideoAttempts]]
  /\ UNCHANGED <<pitchVars, asking, video, attemptsMade, stalls, announce, videoDeaths>>

JobStalls(r) ==
  /\ job[r] \in Exec /\ stalls < MaxVideoStalls
  /\ job' = [job EXCEPT ![r] = "waiting"] /\ stalls' = stalls + 1
  /\ UNCHANGED <<pitchVars, asking, video, attemptsMade, exec, announce, videoDeaths>>

\* A recording already resolved is only announced again.
ExecLoads(x) ==
  /\ exec[x].pc = "load"
  /\ ExecGoes(x, IF video[exec[x].of] \in {"READY", "FAILED"} THEN "notify" ELSE "begin")
  /\ UNCHANGED <<pitchVars, jobVars, asking, video, announce, videoDeaths>>

ExecBegins(x) ==
  /\ exec[x].pc = "begin" /\ ExecGoes(x, "record")
  /\ video' = [video EXCEPT ![exec[x].of] = "RECORDING"]
  /\ UNCHANGED <<pitchVars, jobVars, asking, announce, videoDeaths>>

\* Recorded, transcoded and uploaded.
ExecStores(x) ==
  /\ exec[x].pc = "record" /\ ExecGoes(x, "notify")
  /\ video' = [video EXCEPT ![exec[x].of] = "READY"]
  /\ UNCHANGED <<pitchVars, jobVars, asking, announce, videoDeaths>>

\* An error before READY was written: FAILED on the last attempt, or when the
\* preview has no address to record; otherwise QUEUED, and the job is retried.
ExecFails(x) ==
  LET r == exec[x].of IN
  /\ \/ /\ exec[x].pc = "begin" \/ (exec[x].pc = "record" /\ exec[x].last)
        /\ video' = [video EXCEPT ![r] = "FAILED"]
        /\ ExecGoes(x, "notify")
        /\ UNCHANGED jobVars
     \/ /\ exec[x].pc = "record" /\ ~exec[x].last
        /\ video' = [video EXCEPT ![r] = "QUEUED"]
        /\ exec' = [exec EXCEPT ![x] = IdleExec]
        /\ IF job[r] = x
             THEN job' = [job EXCEPT ![r] = "waiting"] /\ attemptsMade' = [attemptsMade EXCEPT ![r] = @ + 1]
             ELSE UNCHANGED <<job, attemptsMade>>
        /\ UNCHANGED stalls
  /\ UNCHANGED <<pitchVars, asking, announce, videoDeaths>>

\* apiNotifier: up to three calls; the API may go on with one it gave up on.
ExecNotifies(x, c) ==
  /\ exec[x].pc = "notify" /\ announce[c].pc = "idle" /\ c # Sweep
  /\ announce' = [announce EXCEPT ![c] = [pc |-> "row", of |-> exec[x].of, status |-> "NONE"]]
  /\ UNCHANGED <<pitchVars, jobVars, asking, video, exec, videoDeaths>>

\* Answered or given up: a callback that failed is only logged.
ExecEnds(x) ==
  /\ exec[x].pc = "notify"
  /\ job' = IF job[exec[x].of] = x THEN [job EXCEPT ![exec[x].of] = "done"] ELSE job
  /\ exec' = [exec EXCEPT ![x] = IdleExec]
  /\ UNCHANGED <<pitchVars, attemptsMade, stalls, asking, video, announce, videoDeaths>>

\* The recorder is killed: its job stalls.
ExecDies(x) ==
  /\ exec[x].pc # "idle" /\ stalls < MaxVideoStalls /\ job[exec[x].of] = x
  /\ job' = [job EXCEPT ![exec[x].of] = "waiting"] /\ stalls' = stalls + 1
  /\ exec' = [exec EXCEPT ![x] = IdleExec]
  /\ UNCHANGED <<pitchVars, attemptsMade, asking, video, announce, videoDeaths>>

-----------------------------------------------------------------------------
(* onRecordingFinished.                                                     *)

CallGoes(c, pc) == announce' = [announce EXCEPT ![c].pc = pc]
CallOver(c) == announce' = [announce EXCEPT ![c] = IdleCall]

CallReadsRow(c) ==
  /\ announce[c].pc = "row"
  /\ announce' = [announce EXCEPT ![c].pc = "pitch", ![c].status = video[announce[c].of]]
  /\ UNCHANGED <<pitchVars, jobVars, asking, video, exec, videoDeaths>>

CallReadsPitch(c) ==
  /\ announce[c].pc = "pitch"
  /\ IF pitchStage = "RECORDING" /\ current = announce[c].of /\ announce[c].status \in {"READY", "FAILED"}
       THEN CallGoes(c, IF announce[c].status = "READY" THEN "claim" ELSE "fail")
       ELSE CallOver(c)
  /\ UNCHANGED <<pitchVars, jobVars, asking, video, exec, videoDeaths>>

\* What the call read before trusted.
Faulty_CallClaims(c) ==
  /\ announce[c].pc = "claim"
  /\ pitchStage' = "VIDEO_UPLOADED" /\ claims' = [claims EXCEPT ![announce[c].of] = @ + 1]
  /\ CallGoes(c, "deliver")
  /\ UNCHANGED <<failedAt, current, jobVars, asking, video, exec, videoDeaths>>

\* The update that names the stage and the recording it moves on from.
CallClaims(c) ==
  /\ announce[c].pc = "claim"
  /\ IF pitchStage = "RECORDING" /\ current = announce[c].of
       THEN /\ pitchStage' = "VIDEO_UPLOADED" /\ claims' = [claims EXCEPT ![current] = @ + 1]
            /\ CallGoes(c, "deliver")
       ELSE CallOver(c) /\ UNCHANGED <<pitchStage, claims>>
  /\ UNCHANGED <<failedAt, current, jobVars, asking, video, exec, videoDeaths>>

\* prepareDelivery reads the recording again; PitchPipeline goes on from here.
CallDelivers(c) ==
  /\ announce[c].pc = "deliver"
  /\ \/ VideoReady /\ pitchStage' = "DELIVERY_QUEUED" /\ failedAt' = "NONE"
     \/ pitchStage' = "FAILED" /\ failedAt' = "DELIVERY_QUEUED"
  /\ CallOver(c)
  /\ UNCHANGED <<current, claims, jobVars, asking, video, exec, videoDeaths>>

\* failPipeline does not look at the stage again.
CallFails(c) ==
  /\ announce[c].pc = "fail" /\ CallOver(c)
  /\ pitchStage' = "FAILED" /\ failedAt' = "RECORDING"
  /\ UNCHANGED <<current, claims, jobVars, asking, video, exec, videoDeaths>>

CallDies(c) ==
  /\ announce[c].pc # "idle" /\ videoDeaths < MaxVideoDeaths
  /\ CallOver(c) /\ videoDeaths' = videoDeaths + 1
  /\ UNCHANGED <<pitchVars, jobVars, asking, video, exec>>

\* retryPipeline of a pitch whose delivery failed and whose video is there.
DeliveryRetried(c) ==
  /\ pitchStage = "FAILED" /\ failedAt = "DELIVERY_QUEUED" /\ VideoReady
  /\ announce[c].pc = "idle" /\ c # Sweep
  /\ announce' = [announce EXCEPT ![c] = [pc |-> "deliver", of |-> current, status |-> "READY"]]
  /\ UNCHANGED <<pitchVars, jobVars, asking, video, exec, videoDeaths>>

-----------------------------------------------------------------------------
(* reconcileRecordings.                                                     *)

\* Only what is resolved is announced: the stuck ones are left alone.
Faulty_Reconcile ==
  /\ pitchStage = "RECORDING" /\ announce[Sweep].pc = "idle" /\ video[current] \in {"READY", "FAILED"}
  /\ announce' = [announce EXCEPT ![Sweep] = [pc |-> "row", of |-> current, status |-> "NONE"]]
  /\ UNCHANGED <<pitchVars, jobVars, asking, video, exec, videoDeaths>>

\* A waiting pitch's recording is read; one unresolved for RECORDING_STUCK_MS
\* is going to be failed, one resolved is announced.
Reconcile ==
  /\ pitchStage = "RECORDING" /\ announce[Sweep].pc = "idle"
  /\ announce' = [announce EXCEPT ![Sweep] =
       [pc |-> IF video[current] \in {"READY", "FAILED"} THEN "row" ELSE "timeout", of |-> current, status |-> "NONE"]]
  /\ UNCHANGED <<pitchVars, jobVars, asking, video, exec, videoDeaths>>

VideoTimesOut(c) ==
  /\ announce[c].pc = "timeout" /\ CallGoes(c, "row")
  /\ video' = [video EXCEPT ![announce[c].of] = "FAILED"]
  /\ UNCHANGED <<pitchVars, jobVars, asking, exec, videoDeaths>>

CallStep(c) ==
  \/ CallReadsRow(c) \/ CallReadsPitch(c) \/ CallClaims(c) \/ CallDelivers(c) \/ CallFails(c)
  \/ VideoTimesOut(c)

RecNext ==
  \/ AskingCreates \/ AskingStages \/ AskingQueues \/ AskingDies \/ AskingFails \/ Reconcile
  \/ \E x \in Exec, r \in Video : ExecStarts(x, r)
  \/ \E r \in Video : JobStalls(r)
  \/ \E x \in Exec : ExecLoads(x) \/ ExecBegins(x) \/ ExecStores(x) \/ ExecFails(x) \/ ExecEnds(x) \/ ExecDies(x)
  \/ \E x \in Exec, c \in Announce : ExecNotifies(x, c)
  \/ \E c \in Announce : CallStep(c) \/ CallDies(c) \/ DeliveryRetried(c)

RecSpec == RecInit /\ [][RecNext]_recVars

\* The maintenance job runs every few minutes and threads of the API go on
\* until they die; nothing is asked of the recorder, its queue or its callback.
RecFairness ==
  /\ WF_recVars(Reconcile)
  /\ \A c \in Announce : WF_recVars(CallStep(c))

FairRecSpec == RecSpec /\ RecFairness

-----------------------------------------------------------------------------
(* Properties.                                                              *)

RecTypeOK ==
  /\ pitchStage \in {"SITE_PUBLISHED", "RECORDING", "VIDEO_UPLOADED", "DELIVERY_QUEUED", "FAILED"}
  /\ failedAt \in {"NONE", "RECORDING", "DELIVERY_QUEUED"}
  /\ current \in 0..MaxVideos
  /\ asking \in {"idle", "staging", "queueing"}
  /\ video \in [Video -> {"NONE", "QUEUED", "RECORDING", "READY", "FAILED"}]
  /\ job \in [Video -> {"none", "waiting", "done"} \cup Exec]
  /\ attemptsMade \in [Video -> Nat]
  /\ exec \in [Exec -> [pc : {"idle", "load", "begin", "record", "notify"}, of : 0..MaxVideos, last : BOOLEAN]]
  /\ announce \in [Announce -> [pc : {"idle", "row", "pitch", "claim", "deliver", "fail", "timeout"},
                                of : 0..MaxVideos,
                                status : {"NONE", "QUEUED", "RECORDING", "READY", "FAILED"}]]
  /\ claims \in [Video -> Nat]
  /\ stalls \in 0..MaxVideoStalls /\ videoDeaths \in 0..MaxVideoDeaths

\* However often a recording is announced, and by whom, it moves its pitch on
\* to delivery at most once: no second message is prepared from it.
DeliveredOnce == \A r \in Video : claims[r] <= 1

\* A pitch that waits for a recording does not wait forever, though the job is
\* never queued, the recorder dies or every callback is lost.
RecordingEnds == (pitchStage = "RECORDING") ~> (pitchStage # "RECORDING")
=============================================================================
