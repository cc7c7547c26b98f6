-------------------------- MODULE RecordingProofs --------------------------
(***************************************************************************)
(* The walkthrough video of a pitch, for any number of recordings,         *)
(* executions of the recorder, callbacks and faults.                       *)
(*                                                                         *)
(* DeliveredOnce is about the past of every recording; a step sees only    *)
(* the present.  What connects them is that recordings are requested in    *)
(* order: the pitch waits for the newest one that was ever given to it,    *)
(* none newer has been claimed (PitchInv), and whatever a job, a callback  *)
(* or the maintenance job still works on was requested (WorkInv), so a     *)
(* late write of theirs adds no recording.                                 *)
(***************************************************************************)
EXTENDS Recording, FiniteSetTheorems, TLAPS

Newest == Cardinality(Requested)

WorkInv ==
  /\ \A r \in Video : job[r] # "none" => r \in Requested
  /\ \A x \in Exec : exec[x].pc # "idle" => exec[x].of \in Requested
  /\ \A c \in Announce : announce[c].pc # "idle" => announce[c].of \in Requested

PitchInv ==
  /\ Newest \in 0..MaxVideos /\ Requested = 1..Newest
  /\ current <= Newest
  /\ asking = "staging" => current < Newest
  /\ asking = "queueing" => current \in Requested
  /\ pitchStage = "RECORDING" => current \in Requested /\ claims[current] = 0
  /\ \A r \in Video : claims[r] <= 1 /\ (r > current => claims[r] = 0)

VideoInv == RecTypeOK /\ WorkInv /\ PitchInv

VideoStatus == {"NONE", "QUEUED", "RECORDING", "READY", "FAILED"}
ExecRecord == [pc : {"idle", "load", "begin", "record", "notify"}, of : 0..MaxVideos, last : BOOLEAN]
CallRecord == [pc : {"idle", "row", "pitch", "claim", "deliver", "fail", "timeout"},
               of : 0..MaxVideos, status : VideoStatus]

LEMMA RecStarts == RecInit => VideoInv
<1> SUFFICES ASSUME RecInit PROVE VideoInv
  OBVIOUS
<1>1. MaxVideos \in Nat /\ MaxVideoStalls \in Nat /\ MaxVideoDeaths \in Nat
  BY RecordingAssumption
<1>2. Requested = {} /\ Newest = 0
  BY FS_EmptySet DEF RecInit, Requested, Newest
<1>3. PitchInv
  BY <1>1, <1>2 DEF RecInit, PitchInv
<1>4. WorkInv
  BY DEF RecInit, WorkInv, IdleExec, IdleCall
<1>5. /\ exec \in [Exec -> ExecRecord]
      /\ announce \in [Announce -> CallRecord]
  BY <1>1 DEF RecInit, IdleExec, IdleCall, ExecRecord, CallRecord, VideoStatus
<1>6. RecTypeOK
  BY <1>1, <1>5 DEF RecInit, RecTypeOK, ExecRecord, CallRecord, VideoStatus
<1> QED  BY <1>3, <1>4, <1>6 DEF VideoInv

-----------------------------------------------------------------------------
(* What most steps have in common.                                          *)

\* A status written to a recording that was requested requests no other.
LEMMA RewrittenVideo ==
  ASSUME VideoInv, NEW r \in Requested, NEW s \in VideoStatus \ {"NONE"},
         video' = [video EXCEPT ![r] = s]
  PROVE  Requested' = Requested /\ video' \in [Video -> VideoStatus]
  BY DEF VideoInv, RecTypeOK, Requested, VideoStatus

LEMMA SameVideo ==
  ASSUME VideoInv, UNCHANGED video
  PROVE  Requested' = Requested /\ video' \in [Video -> VideoStatus]
  BY DEF VideoInv, RecTypeOK, Requested, VideoStatus

\* Steps that leave the pitch and the order of its recordings alone.
LEMMA PitchKept ==
  ASSUME VideoInv, Requested' = Requested, UNCHANGED <<pitchStage, current, claims, asking>>
  PROVE  PitchInv'
<1>1. Newest' = Newest
  BY DEF Newest
<1> QED  BY <1>1 DEF VideoInv, PitchInv

\* Writes of the stage that do not make the pitch wait for a recording.
LEMMA PitchLeaves ==
  ASSUME VideoInv, Requested' = Requested, UNCHANGED <<current, claims>>,
         asking' \in {asking, "idle"}, pitchStage' # "RECORDING"
  PROVE  PitchInv'
<1>1. Newest' = Newest
  BY DEF Newest
<1> QED  BY <1>1 DEF VideoInv, PitchInv

\* Steps that give nobody new work.
LEMMA WorkKept ==
  ASSUME VideoInv, Requested' = Requested, UNCHANGED <<job, exec, announce>>
  PROVE  WorkInv'
  BY DEF VideoInv, WorkInv

\* A step of one call, at whatever recording it is about.
LEMMA CallKeeps ==
  ASSUME VideoInv, Requested' = Requested, UNCHANGED <<job, exec>>,
         NEW c \in Announce, NEW a \in CallRecord,
         announce' = [announce EXCEPT ![c] = a],
         a.pc # "idle" => a.of \in Requested
  PROVE  WorkInv' /\ announce' \in [Announce -> CallRecord]
<1>1. announce \in [Announce -> CallRecord]
  BY DEF VideoInv, RecTypeOK, CallRecord, VideoStatus
<1> QED  BY <1>1 DEF VideoInv, WorkInv

\* A step of one execution and of the job it holds.
LEMMA ExecKeeps ==
  ASSUME VideoInv, Requested' = Requested, UNCHANGED announce,
         NEW x \in Exec, NEW e \in ExecRecord,
         exec' = [exec EXCEPT ![x] = e],
         e.pc # "idle" => e.of \in Requested,
         \A r \in Video : job'[r] = job[r] \/ r \in Requested
  PROVE  WorkInv' /\ exec' \in [Exec -> ExecRecord]
<1>1. exec \in [Exec -> ExecRecord]
  BY DEF VideoInv, RecTypeOK, ExecRecord
<1> QED  BY <1>1 DEF VideoInv, WorkInv

\* Only a recording that was requested has a number.
LEMMA RequestedRange ==
  ASSUME VideoInv
  PROVE  Requested \subseteq Video /\ Video \subseteq Nat /\ MaxVideos \in Nat
  BY RecordingAssumption DEF Requested, Video

-----------------------------------------------------------------------------
(* requestRecording.                                                        *)

LEMMA CreateKeeps ==
  ASSUME VideoInv, AskingCreates
  PROVE  VideoInv'
<1>1. /\ Requested # Video /\ asking' = "staging"
      /\ video' = [video EXCEPT ![Newest + 1] = "QUEUED"]
      /\ UNCHANGED <<pitchVars, jobVars, exec, announce, videoDeaths>>
  BY DEF AskingCreates, Newest
<1>2. Newest \in Nat /\ Newest + 1 \in Video
  BY <1>1, RequestedRange DEF VideoInv, PitchInv, Video
<1>3. Requested' = 1..(Newest + 1)
  <2>1. Requested' = Requested \cup {Newest + 1}
    BY <1>1, <1>2 DEF Requested, VideoInv, RecTypeOK
  <2> QED  BY <1>2, <2>1 DEF VideoInv, PitchInv
<1>4. Newest' = Newest + 1
  BY <1>2, <1>3, FS_Interval DEF Newest
<1>5. PitchInv'
  <2>1. UNCHANGED <<pitchStage, current, claims>>
    BY <1>1 DEF pitchVars
  <2>2. Requested \subseteq Requested' /\ current \in Nat
    BY <1>2, <1>3, RequestedRange DEF VideoInv, PitchInv, RecTypeOK
  <2> QED  BY <1>1, <1>2, <1>3, <1>4, <2>1, <2>2, RequestedRange DEF VideoInv, PitchInv, Video
<1>6. WorkInv'
  <2>1. Requested \subseteq Requested'
    BY <1>2, <1>3 DEF VideoInv, PitchInv
  <2> QED  BY <1>1, <2>1 DEF VideoInv, WorkInv, jobVars
<1>7. RecTypeOK'
  BY <1>1 DEF VideoInv, RecTypeOK, pitchVars, jobVars
<1> QED  BY <1>5, <1>6, <1>7 DEF VideoInv

LEMMA StageKeeps ==
  ASSUME VideoInv, AskingStages
  PROVE  VideoInv'
<1>1. /\ asking = "staging" /\ asking' = "queueing"
      /\ pitchStage' = "RECORDING" /\ failedAt' = "NONE" /\ current' = Newest
      /\ UNCHANGED <<claims, video, jobVars, exec, announce, videoDeaths>>
  BY DEF AskingStages, Newest
<1>2. Requested' = Requested /\ Newest' = Newest
  BY <1>1, SameVideo DEF Newest
<1>3. Newest \in Requested /\ current < Newest /\ current \in Nat /\ claims[Newest] = 0
  BY <1>1, RequestedRange DEF VideoInv, PitchInv, RecTypeOK
<1>4. PitchInv'
  BY <1>1, <1>2, <1>3, RequestedRange DEF VideoInv, PitchInv
<1>5. WorkInv'
  BY <1>1, <1>2, WorkKept DEF jobVars
<1>6. RecTypeOK'
  BY <1>1 DEF VideoInv, RecTypeOK, PitchInv, jobVars
<1> QED  BY <1>4, <1>5, <1>6 DEF VideoInv

LEMMA QueueKeeps ==
  ASSUME VideoInv, AskingQueues
  PROVE  VideoInv'
<1>1. /\ asking = "queueing" /\ asking' = "idle"
      /\ job' = [job EXCEPT ![current] = "waiting"]
      /\ UNCHANGED <<pitchVars, attemptsMade, stalls, video, exec, announce, videoDeaths>>
  BY DEF AskingQueues
<1>2. Requested' = Requested /\ current \in Requested
  BY <1>1, SameVideo DEF VideoInv, PitchInv
<1>3. PitchInv'
  <2>1. Newest' = Newest
    BY <1>2 DEF Newest
  <2> QED  BY <1>1, <1>2, <2>1 DEF VideoInv, PitchInv, pitchVars
<1>4. WorkInv'
  BY <1>1, <1>2, RequestedRange DEF VideoInv, WorkInv, RecTypeOK
<1>5. RecTypeOK'
  BY <1>1 DEF VideoInv, RecTypeOK, pitchVars
<1> QED  BY <1>3, <1>4, <1>5 DEF VideoInv

LEMMA AskingEnds ==
  ASSUME VideoInv, AskingDies \/ AskingFails
  PROVE  VideoInv'
<1>1. UNCHANGED <<current, claims, video, jobVars, exec, announce>> /\ asking' = "idle"
  BY DEF AskingDies, AskingFails, pitchVars
<1>2. Requested' = Requested
  BY <1>1, SameVideo
<1>3. WorkInv'
  BY <1>1, <1>2, WorkKept DEF jobVars
<1>4. PitchInv'
  <2>1. Newest' = Newest
    BY <1>2 DEF Newest
  <2>2. UNCHANGED pitchStage \/ pitchStage' = "FAILED"
    BY DEF AskingDies, AskingFails, pitchVars
  <2> QED  BY <1>1, <1>2, <2>1, <2>2 DEF VideoInv, PitchInv
<1>5. RecTypeOK'
  BY <1>1, RecordingAssumption
  DEF AskingDies, AskingFails, VideoInv, RecTypeOK, pitchVars, jobVars
<1> QED  BY <1>3, <1>4, <1>5 DEF VideoInv

-----------------------------------------------------------------------------
(* The recorder.                                                            *)

\* What is common to its executions: a status of a requested recording is
\* written or none, and the pitch is left alone.
LEMMA RecorderKeeps ==
  ASSUME VideoInv, NEW x \in Exec, NEW e \in ExecRecord,
         exec' = [exec EXCEPT ![x] = e],
         e.pc # "idle" => e.of \in Requested,
         \/ UNCHANGED video
         \/ \E r \in Requested, s \in VideoStatus \ {"NONE"} : video' = [video EXCEPT ![r] = s],
         \A r \in Video : job'[r] = job[r] \/ r \in Requested,
         job' \in [Video -> {"none", "waiting", "done"} \cup Exec],
         attemptsMade' \in [Video -> Nat], stalls' \in 0..MaxVideoStalls,
         UNCHANGED <<pitchVars, asking, announce, videoDeaths>>
  PROVE  VideoInv'
<1>1. Requested' = Requested /\ video' \in [Video -> VideoStatus]
  BY RewrittenVideo, SameVideo
<1>2. WorkInv' /\ exec' \in [Exec -> ExecRecord]
  BY <1>1, ExecKeeps
<1>3. PitchInv'
  BY <1>1, PitchKept DEF pitchVars
<1>4. RecTypeOK'
  BY <1>1, <1>2 DEF VideoInv, RecTypeOK, ExecRecord, VideoStatus, pitchVars
<1> QED  BY <1>2, <1>3, <1>4 DEF VideoInv

LEMMA IdleExecType == IdleExec \in ExecRecord /\ IdleExec.pc = "idle"
  BY RecordingAssumption DEF IdleExec, ExecRecord

LEMMA ExecStepKeeps ==
  ASSUME VideoInv, NEW x \in Exec,
         \/ \E r \in Video : ExecStarts(x, r)
         \/ ExecLoads(x) \/ ExecBegins(x) \/ ExecStores(x) \/ ExecFails(x)
         \/ ExecEnds(x) \/ ExecDies(x)
  PROVE  VideoInv'
<1>1. /\ exec \in [Exec -> ExecRecord]
      /\ job \in [Video -> {"none", "waiting", "done"} \cup Exec]
      /\ attemptsMade \in [Video -> Nat] /\ stalls \in 0..MaxVideoStalls
      /\ MaxVideoStalls \in Nat
  BY RecordingAssumption DEF VideoInv, RecTypeOK, ExecRecord
<1>2. exec[x].pc # "idle" => exec[x].of \in Requested
  BY DEF VideoInv, WorkInv
<1>3. ASSUME NEW r \in Video, ExecStarts(x, r)
      PROVE  VideoInv'
  <2> DEFINE e == [pc |-> "load", of |-> r, last |-> attemptsMade[r] + 1 >= VideoAttempts]
  <2>1. r \in Requested
    BY <1>3 DEF ExecStarts, VideoInv, WorkInv
  <2>2. (attemptsMade[r] + 1 >= VideoAttempts) \in BOOLEAN /\ r \in 0..MaxVideos
    BY RecordingAssumption DEF Video
  <2>3. e \in ExecRecord
    BY <2>2 DEF ExecRecord
  <2>4. /\ job' = [job EXCEPT ![r] = x] /\ exec' = [exec EXCEPT ![x] = e]
        /\ UNCHANGED <<pitchVars, asking, video, attemptsMade, stalls, announce, videoDeaths>>
    BY <1>3 DEF ExecStarts
  <2>5. /\ job' \in [Video -> {"none", "waiting", "done"} \cup Exec]
        /\ \A q \in Video : job'[q] = job[q] \/ q \in Requested
    BY <1>1, <2>1, <2>4
  <2>6. e.of = r
    OBVIOUS
  <2> HIDE DEF e
  <2> QED  BY <1>1, <2>1, <2>3, <2>4, <2>5, <2>6, RecorderKeeps
<1>4. ASSUME NEW pc \in {"begin", "record", "notify"}, exec[x].pc # "idle", ExecGoes(x, pc),
             \/ UNCHANGED video
             \/ \E s \in VideoStatus \ {"NONE"} : video' = [video EXCEPT ![exec[x].of] = s],
             UNCHANGED <<pitchVars, jobVars, asking, announce, videoDeaths>>
      PROVE  VideoInv'
  <2> DEFINE e == [exec[x] EXCEPT !.pc = pc]
  <2>1. e \in ExecRecord /\ e.of = exec[x].of
    BY <1>1 DEF ExecRecord
  <2>2. exec' = [exec EXCEPT ![x] = e]
    BY <1>1, <1>4 DEF ExecGoes
  <2>3. UNCHANGED <<job, attemptsMade, stalls>>
    BY <1>4 DEF jobVars
  <2> HIDE DEF e
  <2> QED  BY <1>1, <1>2, <1>4, <2>1, <2>2, <2>3, RecorderKeeps
<1>5. CASE ExecLoads(x)
  BY <1>4, <1>5 DEF ExecLoads
<1>6. CASE ExecBegins(x) \/ ExecStores(x)
  BY <1>4, <1>6 DEF ExecBegins, ExecStores, VideoStatus
<1>7. CASE ExecFails(x)
  <2>1. UNCHANGED <<pitchVars, asking, announce, videoDeaths>> /\ exec[x].pc # "idle"
    BY <1>7 DEF ExecFails
  <2>2. CASE /\ video' = [video EXCEPT ![exec[x].of] = "FAILED"]
             /\ ExecGoes(x, "notify") /\ UNCHANGED jobVars
    BY <1>4, <2>1, <2>2 DEF VideoStatus
  <2>3. CASE /\ video' = [video EXCEPT ![exec[x].of] = "QUEUED"]
             /\ exec' = [exec EXCEPT ![x] = IdleExec]
             /\ IF job[exec[x].of] = x
                  THEN /\ job' = [job EXCEPT ![exec[x].of] = "waiting"]
                       /\ attemptsMade' = [attemptsMade EXCEPT ![exec[x].of] = @ + 1]
                  ELSE UNCHANGED <<job, attemptsMade>>
             /\ UNCHANGED stalls
    <3>1. exec[x].of \in Requested /\ exec[x].of \in Video
      BY <1>2, <2>1, RequestedRange
    <3>2. /\ job' \in [Video -> {"none", "waiting", "done"} \cup Exec]
          /\ \A q \in Video : job'[q] = job[q] \/ q \in Requested
      BY <1>1, <2>3, <3>1
    <3>3. attemptsMade' \in [Video -> Nat] /\ stalls' \in 0..MaxVideoStalls
      BY <1>1, <2>3, <3>1
    <3>4. \E r \in Requested, s \in VideoStatus \ {"NONE"} : video' = [video EXCEPT ![r] = s]
      BY <2>3, <3>1 DEF VideoStatus
    <3> QED  BY <2>1, <2>3, <3>2, <3>3, <3>4, IdleExecType, RecorderKeeps
  <2> QED  BY <1>7, <2>2, <2>3 DEF ExecFails
<1>8. CASE ExecEnds(x) \/ ExecDies(x)
  <2>1. /\ exec[x].pc # "idle" /\ exec' = [exec EXCEPT ![x] = IdleExec]
        /\ UNCHANGED <<pitchVars, attemptsMade, asking, video, announce, videoDeaths>>
    BY <1>8 DEF ExecEnds, ExecDies
  <2>2. exec[x].of \in Requested /\ exec[x].of \in Video
    BY <1>2, <2>1, RequestedRange
  <2>3. /\ job' \in [Video -> {"none", "waiting", "done"} \cup Exec]
        /\ \A q \in Video : job'[q] = job[q] \/ q \in Requested
    BY <1>1, <1>8, <2>2 DEF ExecEnds, ExecDies
  <2>4. attemptsMade' \in [Video -> Nat] /\ stalls' \in 0..MaxVideoStalls
    BY <1>1, <1>8, <2>1 DEF ExecEnds, ExecDies
  <2> QED  BY <2>1, <2>3, <2>4, IdleExecType, RecorderKeeps
<1> QED  BY <1>3, <1>5, <1>6, <1>7, <1>8

LEMMA StallKeeps ==
  ASSUME VideoInv, NEW r \in Video, JobStalls(r)
  PROVE  VideoInv'
<1>1. /\ job[r] \in Exec /\ stalls < MaxVideoStalls
      /\ job' = [job EXCEPT ![r] = "waiting"] /\ stalls' = stalls + 1
      /\ UNCHANGED <<pitchVars, asking, video, attemptsMade, exec, announce, videoDeaths>>
  BY DEF JobStalls
<1>2. Requested' = Requested
  BY <1>1, SameVideo
<1>3. PitchInv'
  BY <1>1, <1>2, PitchKept DEF pitchVars
<1>4. WorkInv'
  <2>1. job[r] # "none"
    BY <1>1, RecordingAssumption
  <2> QED  BY <1>1, <1>2, <2>1 DEF VideoInv, WorkInv, RecTypeOK
<1>5. RecTypeOK'
  BY <1>1, RecordingAssumption DEF VideoInv, RecTypeOK, pitchVars
<1> QED  BY <1>3, <1>4, <1>5 DEF VideoInv

-----------------------------------------------------------------------------
(* The callback and the maintenance job.                                    *)

LEMMA IdleCallType == IdleCall \in CallRecord /\ IdleCall.pc = "idle"
  BY RecordingAssumption DEF IdleCall, CallRecord, VideoStatus

\* A call that changes nothing but itself and, at most, the recording it is
\* about.
LEMMA CallOnly ==
  ASSUME VideoInv, NEW c \in Announce, NEW a \in CallRecord,
         announce' = [announce EXCEPT ![c] = a],
         a.pc # "idle" => a.of \in Requested,
         \/ UNCHANGED video
         \/ \E r \in Requested, s \in VideoStatus \ {"NONE"} : video' = [video EXCEPT ![r] = s],
         UNCHANGED <<pitchVars, jobVars, asking, exec>>,
         videoDeaths' \in 0..MaxVideoDeaths
  PROVE  VideoInv'
<1>1. Requested' = Requested /\ video' \in [Video -> VideoStatus]
  BY RewrittenVideo, SameVideo
<1>2. WorkInv' /\ announce' \in [Announce -> CallRecord]
  BY <1>1, CallKeeps DEF jobVars
<1>3. PitchInv'
  BY <1>1, PitchKept DEF pitchVars
<1>4. RecTypeOK'
  BY <1>1, <1>2 DEF VideoInv, RecTypeOK, CallRecord, VideoStatus, pitchVars, jobVars
<1> QED  BY <1>2, <1>3, <1>4 DEF VideoInv

\* A call that also moves the pitch, away from its wait for a recording.
LEMMA CallMoves ==
  ASSUME VideoInv, NEW c \in Announce, NEW a \in CallRecord,
         announce' = [announce EXCEPT ![c] = a],
         a.pc # "idle" => a.of \in Requested,
         UNCHANGED <<current, jobVars, asking, video, exec, videoDeaths>>,
         pitchStage' \in {"VIDEO_UPLOADED", "DELIVERY_QUEUED", "FAILED"},
         failedAt' \in {"NONE", "RECORDING", "DELIVERY_QUEUED"},
         \/ UNCHANGED claims
         \/ pitchStage = "RECORDING" /\ claims' = [claims EXCEPT ![current] = @ + 1]
  PROVE  VideoInv'
<1>1. Requested' = Requested
  BY SameVideo
<1>2. WorkInv' /\ announce' \in [Announce -> CallRecord]
  BY <1>1, CallKeeps DEF jobVars
<1>3. CASE UNCHANGED claims
  <2>1. PitchInv'
    BY <1>1, <1>3, PitchLeaves
  <2>2. RecTypeOK'
    BY <1>2, <1>3 DEF VideoInv, RecTypeOK, CallRecord, VideoStatus, jobVars
  <2> QED  BY <1>2, <2>1, <2>2 DEF VideoInv
<1>4. CASE pitchStage = "RECORDING" /\ claims' = [claims EXCEPT ![current] = @ + 1]
  <2>1. /\ current \in Requested /\ current \in Video /\ current \in Nat
        /\ claims[current] = 0 /\ claims \in [Video -> Nat]
    BY <1>4, RequestedRange DEF VideoInv, PitchInv, RecTypeOK
  <2>2. /\ claims' \in [Video -> Nat] /\ claims'[current] = 1
        /\ \A r \in Video \ {current} : claims'[r] = claims[r]
    BY <1>4, <2>1
  <2>3. \A r \in Video : claims'[r] <= 1 /\ (r > current => claims'[r] = 0)
    BY <2>1, <2>2 DEF VideoInv, PitchInv, Video
  <2>4. Newest' = Newest /\ pitchStage' # "RECORDING"
    BY <1>1 DEF Newest
  <2>5. PitchInv'
    BY <1>1, <2>3, <2>4 DEF VideoInv, PitchInv
  <2>6. RecTypeOK'
    BY <1>2, <2>2 DEF VideoInv, RecTypeOK, CallRecord, VideoStatus, jobVars
  <2> QED  BY <1>2, <2>5, <2>6 DEF VideoInv
<1> QED  BY <1>3, <1>4

LEMMA CallStepKeeps ==
  ASSUME VideoInv, NEW c \in Announce,
         CallStep(c) \/ CallDies(c) \/ DeliveryRetried(c)
  PROVE  VideoInv'
<1> DEFINE At(pc) == [announce[c] EXCEPT !.pc = pc]
<1>1. /\ announce \in [Announce -> CallRecord] /\ announce[c] \in CallRecord
      /\ video \in [Video -> VideoStatus] /\ videoDeaths \in 0..MaxVideoDeaths
      /\ failedAt \in {"NONE", "RECORDING", "DELIVERY_QUEUED"}
  BY DEF VideoInv, RecTypeOK, CallRecord, VideoStatus
<1>2. announce[c].pc # "idle" => announce[c].of \in Requested
  BY DEF VideoInv, WorkInv
<1>3. ASSUME NEW pc \in {"row", "pitch", "claim", "deliver", "fail", "timeout"}
      PROVE  At(pc) \in CallRecord /\ At(pc).of = announce[c].of
  BY <1>1 DEF CallRecord
<1>4. ASSUME NEW pc \in {"row", "pitch", "claim", "deliver", "fail", "timeout"}, CallGoes(c, pc)
      PROVE  announce' = [announce EXCEPT ![c] = At(pc)]
  BY <1>1, <1>4 DEF CallGoes
<1>5. CASE CallReadsRow(c)
  <2> DEFINE a == [announce[c] EXCEPT !.pc = "pitch", !.status = video[announce[c].of]]
  <2>1. announce[c].of \in Requested /\ video[announce[c].of] \in VideoStatus
    BY <1>1, <1>2, <1>5, RequestedRange DEF CallReadsRow
  <2>2. a \in CallRecord /\ a.of = announce[c].of
    BY <1>1, <2>1 DEF CallRecord
  <2>3. announce' = [announce EXCEPT ![c] = a]
    BY <1>1, <1>5 DEF CallReadsRow
  <2>4. UNCHANGED <<pitchVars, jobVars, asking, video, exec, videoDeaths>>
    BY <1>5 DEF CallReadsRow
  <2> HIDE DEF a
  <2> QED  BY <1>1, <2>1, <2>2, <2>3, <2>4, CallOnly
<1>6. CASE CallReadsPitch(c)
  <2>1. announce[c].of \in Requested
    BY <1>2, <1>6 DEF CallReadsPitch
  <2>2. UNCHANGED <<pitchVars, jobVars, asking, video, exec, videoDeaths>>
    BY <1>6 DEF CallReadsPitch
  <2>3. CallGoes(c, "claim") \/ CallGoes(c, "fail") \/ CallOver(c)
    BY <1>6 DEF CallReadsPitch
  <2>4. \E a \in CallRecord : /\ announce' = [announce EXCEPT ![c] = a]
                              /\ a.pc # "idle" => a.of \in Requested
    BY <1>3, <1>4, <2>1, <2>3, IdleCallType DEF CallOver
  <2> QED  BY <1>1, <2>2, <2>4, CallOnly
<1>7. CASE CallClaims(c)
  <2>1. announce[c].of \in Requested
    BY <1>2, <1>7 DEF CallClaims
  <2>2. UNCHANGED <<failedAt, current, jobVars, asking, video, exec, videoDeaths>>
    BY <1>7 DEF CallClaims
  <2>3. CASE pitchStage = "RECORDING" /\ current = announce[c].of
    <3>1. /\ pitchStage' = "VIDEO_UPLOADED" /\ claims' = [claims EXCEPT ![current] = @ + 1]
          /\ CallGoes(c, "deliver")
      BY <1>7, <2>3 DEF CallClaims
    <3>2. announce' = [announce EXCEPT ![c] = At("deliver")]
      BY <1>4, <3>1
    <3>3. At("deliver") \in CallRecord /\ At("deliver").of = announce[c].of
      BY <1>3
    <3> HIDE DEF At
    <3> QED  BY <1>1, <2>1, <2>2, <2>3, <3>1, <3>2, <3>3, CallMoves
  <2>4. CASE ~(pitchStage = "RECORDING" /\ current = announce[c].of)
    <3>1. announce' = [announce EXCEPT ![c] = IdleCall] /\ UNCHANGED <<pitchStage, claims>>
      BY <1>7, <2>4 DEF CallClaims, CallOver
    <3> QED  BY <1>1, <2>2, <3>1, IdleCallType, CallOnly DEF pitchVars
  <2> QED  BY <2>3, <2>4
<1>8. CASE CallDelivers(c) \/ CallFails(c)
  <2>1. announce' = [announce EXCEPT ![c] = IdleCall]
    BY <1>8 DEF CallDelivers, CallFails, CallOver
  <2>2. /\ pitchStage' \in {"VIDEO_UPLOADED", "DELIVERY_QUEUED", "FAILED"}
        /\ failedAt' \in {"NONE", "RECORDING", "DELIVERY_QUEUED"}
        /\ UNCHANGED <<current, claims, jobVars, asking, video, exec, videoDeaths>>
    BY <1>8 DEF CallDelivers, CallFails
  <2> QED  BY <2>1, <2>2, IdleCallType, CallMoves
<1>9. CASE VideoTimesOut(c)
  <2>1. announce[c].of \in Requested
    BY <1>2, <1>9 DEF VideoTimesOut
  <2>2. /\ announce' = [announce EXCEPT ![c] = At("row")]
        /\ At("row") \in CallRecord /\ At("row").of = announce[c].of
    BY <1>3, <1>4, <1>9 DEF VideoTimesOut
  <2>3. /\ video' = [video EXCEPT ![announce[c].of] = "FAILED"]
        /\ UNCHANGED <<pitchVars, jobVars, asking, exec, videoDeaths>>
    BY <1>9 DEF VideoTimesOut
  <2>4. \E r \in Requested, s \in VideoStatus \ {"NONE"} : video' = [video EXCEPT ![r] = s]
    BY <2>1, <2>3 DEF VideoStatus
  <2> HIDE DEF At
  <2> QED  BY <1>1, <2>1, <2>2, <2>3, <2>4, CallOnly
<1>10. CASE CallDies(c)
  <2>1. /\ announce' = [announce EXCEPT ![c] = IdleCall]
        /\ UNCHANGED <<pitchVars, jobVars, asking, video, exec>>
    BY <1>10 DEF CallDies, CallOver
  <2>2. videoDeaths' \in 0..MaxVideoDeaths
    BY <1>1, <1>10, RecordingAssumption DEF CallDies
  <2> QED  BY <2>1, <2>2, IdleCallType, CallOnly
<1>11. CASE DeliveryRetried(c)
  <2> DEFINE a == [pc |-> "deliver", of |-> current, status |-> "READY"]
  <2>1. /\ announce' = [announce EXCEPT ![c] = a]
        /\ VideoReady /\ pitchStage = "FAILED"
        /\ UNCHANGED <<pitchVars, jobVars, asking, video, exec, videoDeaths>>
    BY <1>11 DEF DeliveryRetried
  <2>2. current \in Requested
    BY <2>1, RecordingAssumption DEF VideoReady, Requested, Video, VideoInv, RecTypeOK
  <2>3. a \in CallRecord /\ a.of = current
    BY DEF CallRecord, VideoStatus, VideoInv, RecTypeOK
  <2> HIDE DEF a
  <2> QED  BY <1>1, <2>1, <2>2, <2>3, CallOnly
<1> QED  BY <1>5, <1>6, <1>7, <1>8, <1>9, <1>10, <1>11 DEF CallStep

LEMMA ReconcileKeeps ==
  ASSUME VideoInv, Reconcile
  PROVE  VideoInv'
<1> DEFINE a == [pc |-> IF video[current] \in {"READY", "FAILED"} THEN "row" ELSE "timeout",
                 of |-> current, status |-> "NONE"]
<1>1. /\ pitchStage = "RECORDING" /\ announce' = [announce EXCEPT ![Sweep] = a]
      /\ UNCHANGED <<pitchVars, jobVars, asking, video, exec, videoDeaths>>
  BY DEF Reconcile
<1>2. current \in Requested /\ a.of = current /\ videoDeaths \in 0..MaxVideoDeaths
  BY <1>1 DEF VideoInv, PitchInv, RecTypeOK
<1>3. a \in CallRecord
  BY DEF CallRecord, VideoStatus, VideoInv, RecTypeOK
<1>4. Sweep \in Announce
  BY RecordingAssumption
<1> HIDE DEF a
<1> QED  BY <1>1, <1>2, <1>3, <1>4, CallOnly

LEMMA NotifyKeeps ==
  ASSUME VideoInv, NEW x \in Exec, NEW c \in Announce, ExecNotifies(x, c)
  PROVE  VideoInv'
<1> DEFINE a == [pc |-> "row", of |-> exec[x].of, status |-> "NONE"]
<1>1. /\ exec[x].pc = "notify" /\ announce' = [announce EXCEPT ![c] = a]
      /\ UNCHANGED <<pitchVars, jobVars, asking, video, exec, videoDeaths>>
  BY DEF ExecNotifies
<1>2. exec[x].of \in Requested /\ exec[x].of \in 0..MaxVideos /\ videoDeaths \in 0..MaxVideoDeaths
  BY <1>1 DEF VideoInv, WorkInv, RecTypeOK
<1>3. a \in CallRecord /\ a.of = exec[x].of
  BY <1>2 DEF CallRecord, VideoStatus
<1> HIDE DEF a
<1> QED  BY <1>1, <1>2, <1>3, CallOnly

-----------------------------------------------------------------------------

LEMMA VideoKept == VideoInv /\ [RecNext]_recVars => VideoInv'
<1> SUFFICES ASSUME VideoInv, [RecNext]_recVars
             PROVE  VideoInv'
  OBVIOUS
<1>1. CASE AskingCreates \/ AskingStages \/ AskingQueues \/ AskingDies \/ AskingFails
  BY <1>1, CreateKeeps, StageKeeps, QueueKeeps, AskingEnds
<1>2. CASE Reconcile
  BY <1>2, ReconcileKeeps
<1>3. CASE \E x \in Exec, r \in Video : ExecStarts(x, r)
  BY <1>3, ExecStepKeeps
<1>4. CASE \E r \in Video : JobStalls(r)
  BY <1>4, StallKeeps
<1>5. CASE \E x \in Exec : ExecLoads(x) \/ ExecBegins(x) \/ ExecStores(x) \/ ExecFails(x)
                             \/ ExecEnds(x) \/ ExecDies(x)
  BY <1>5, ExecStepKeeps
<1>6. CASE \E x \in Exec, c \in Announce : ExecNotifies(x, c)
  BY <1>6, NotifyKeeps
<1>7. CASE \E c \in Announce : CallStep(c) \/ CallDies(c) \/ DeliveryRetried(c)
  BY <1>7, CallStepKeeps
<1>8. CASE UNCHANGED recVars
  <2>1. UNCHANGED <<pitchStage, failedAt, current, asking, video, job, attemptsMade, exec,
                    announce, claims, stalls, videoDeaths>>
    BY <1>8 DEF recVars
  <2>2. Requested' = Requested
    BY <2>1 DEF Requested
  <2>3. WorkInv' /\ PitchInv'
    BY <2>1, <2>2, WorkKept, PitchKept
  <2> QED  BY <2>1, <2>3 DEF VideoInv, RecTypeOK
<1> QED  BY <1>1, <1>2, <1>3, <1>4, <1>5, <1>6, <1>7, <1>8 DEF RecNext

\* Types: the pitch, its recordings, their jobs and callbacks stay what the
\* handlers expect (pipeline.service.ts, process-recording.ts).
THEOREM RecordingTypesCorrect == RecSpec => []RecTypeOK
<1>1. VideoInv => RecTypeOK
  BY DEF VideoInv
<1> HIDE DEF VideoInv
<1> QED  BY <1>1, RecStarts, VideoKept, PTL DEF RecSpec

\* A recording moves its pitch on to delivery at most once, however many
\* callbacks, sweeps and executions announce it (onRecordingFinished).
THEOREM ClaimedOnce == RecSpec => []DeliveredOnce
<1>1. VideoInv => DeliveredOnce
  BY DEF VideoInv, PitchInv, DeliveredOnce
<1> HIDE DEF VideoInv
<1> QED  BY <1>1, RecStarts, VideoKept, PTL DEF RecSpec
=============================================================================
