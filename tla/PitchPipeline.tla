--------------------------- MODULE PitchPipeline ---------------------------
(***************************************************************************)
(* The way of a pitch from its selection to its lead's phone               *)
(* (pipeline.service.ts and pipeline-maintenance.job.ts).                  *)
(*                                                                         *)
(* A LeadPipeline row is moved by requests that run at the same time: the  *)
(* request that started it, the recorder's callback, the user's retry,     *)
(* pause, resume and confirmation, dashboards that sync receipts, and the  *)
(* maintenance job.  Each reads rows, works, and writes later; some writes *)
(* are conditional on what was read, some are not, and only the credit     *)
(* itself is settled by a compare-and-set.  A thread is one such request:  *)
(* what it is about to do (pc), for which pitch, and what it remembers of  *)
(* its reads (memo).  One action is one transaction or read.               *)
(*                                                                         *)
(* Messages behave as MessageLife says, which SendWorker implements.  The  *)
(* pitches belong to one campaign.  Batches, wallets and business claims   *)
(* are left out: a settled credit is one write of creditOutcome, whose     *)
(* effect on them is PitchBatch's subject.                                 *)
(***************************************************************************)
EXTENDS MessageLife

CONSTANTS
  Pipeline,     \* leads of the campaign, and their pitches
  Recording,    \* ids of DemoRecording rows: enough for all pitches and threads
  Thread,
  MaxAttempts,  \* AUTO_RETRY_MAX_ATTEMPTS
  MaxCrashes,   \* bound: how many requests die
  Null

VARIABLES
  stage,              \* of each LeadPipeline row; NONE before it exists
  failure,            \* failureStage and failureReason
  attempts,
  published,          \* pitches with a websiteProjectId
  recordingId,
  whatsappMessageId,
  creditOutcome,
  leadOf,             \* the lead a WhatsAppMessage row is for
  heldMessages,       \* messages a pause cancelled: their failureReason says so
  sendingPaused,      \* of the campaign
  deliveryMode,       \* of the campaign, chosen when it is created
  thread,
  crashes

stageVars == <<stage, failure, attempts>>
linkVars == <<published, recordingId, whatsappMessageId>>
outsideVars == <<leadOf, heldMessages, lifeVars>>
campaignVars == <<sendingPaused, deliveryMode>>
rowVars == <<stageVars, linkVars, creditOutcome>>
vars == <<rowVars, outsideVars, campaignVars, thread, crashes>>

-----------------------------------------------------------------------------
(* Rows and threads *)

Stage == {"NONE", "SELECTED", "BUILDING_SITE", "SITE_PUBLISHED", "RECORDING",
          "VIDEO_UPLOADED", "DELIVERY_QUEUED", "LINK_READY", "SENT", "FAILED"}

\* Reasons by what failPipeline does about them: tried again, refunded at
\* once (pausing is one of them), or replaced by another lead, which is final
\* once it is in the row.
Cause == [stage: {"SELECTED", "BUILDING_SITE", "RECORDING", "DELIVERY_QUEUED"},
          reason: {"retry", "replace", "final", "paused"}]

Outcome == {"CONSUMED", "REFUNDED", "REPLACED"}

ASSUME PipelineAssumption ==
  /\ MaxAttempts \in Nat \ {0} /\ MaxCrashes \in Nat
  /\ Null \notin Pipeline \cup Recording \cup Message \cup Outcome \cup Cause

Recorded(cause) ==
  [cause EXCEPT !.reason = IF @ = "replace" THEN "final" ELSE @]

Dead == {"FAILED", "BLOCKED", "CANCELLED"}

\* What prepareDelivery uses of its copy of row and campaign: the row's message,
\* whether sending was paused, and whether the row was already at the stage
\* this delivery would put it at (VIDEO_UPLOADED if paused, DELIVERY_QUEUED).
Snapshot == [message: Message \cup {Null}, paused: BOOLEAN, inPlace: BOOLEAN]

Idle == [pc |-> "idle", pitch |-> Null, memo |-> Null]

ThreadState ==
  {Idle}
  \cup [pc: {"build", "publish", "request", "load", "complete", "retry"},
        pitch: Pipeline, memo: {Null}]
  \cup [pc: {"claim"}, pitch: Pipeline, memo: Recording]
  \cup [pc: {"deliver"}, pitch: Pipeline, memo: Snapshot]
  \cup [pc: {"queue", "sync", "cancel", "hold"}, pitch: Pipeline, memo: Message]
  \cup [pc: {"fail"}, pitch: Pipeline, memo: Cause]

Init ==
  /\ LifeInit
  /\ stage = [p \in Pipeline |-> "NONE"]
  /\ failure = [p \in Pipeline |-> Null]
  /\ attempts = [p \in Pipeline |-> 0]
  /\ published = {}
  /\ recordingId = [p \in Pipeline |-> Null]
  /\ whatsappMessageId = [p \in Pipeline |-> Null]
  /\ creditOutcome = [p \in Pipeline |-> Null]
  /\ leadOf = [m \in Message |-> Null]
  /\ heldMessages = {}
  /\ sendingPaused = FALSE
  /\ deliveryMode \in {"AUTO", "DIRECT"}
  /\ thread = [t \in Thread |-> Idle]
  /\ crashes = 0

At(t, p, pc) == thread[t].pc = pc /\ thread[t].pitch = p

Goto(t, p, pc, memo) ==
  thread' = [thread EXCEPT ![t] = [pc |-> pc, pitch |-> p, memo |-> memo]]

Return(t) == thread' = [thread EXCEPT ![t] = Idle]

FailWith(t, p, s, reason) == Goto(t, p, "fail", [stage |-> s, reason |-> reason])

\* setStage: whatever the stage is by now, and it forgets the failure.
SetStage(p, s) ==
  /\ stage' = [stage EXCEPT ![p] = s]
  /\ failure' = [failure EXCEPT ![p] = Null]

\* attempts is only ever compared with its limit, so it stops there.
OneMore(n) == IF n < MaxAttempts THEN n + 1 ELSE n

Counted(p) == attempts' = [attempts EXCEPT ![p] = OneMore(attempts[p])]

\* Ids mean nothing: they are handed out in a fixed order, and that of a
\* recording nobody refers to is handed out again.
Unused(r, p) ==
  /\ \A q \in Pipeline \ {p} : recordingId[q] # r
  /\ \A t \in Thread : thread[t].memo # r

NextRecording(p) == CHOOSE r \in Recording : Unused(r, p)

NextMessage == CHOOSE m \in Message : status[m] = "NONE"

-----------------------------------------------------------------------------
(* Building the site and requesting its recording *)

\* startPipelines: the row, and the run of it.
Start(t, p) ==
  /\ thread[t] = Idle
  /\ stage[p] = "NONE"
  /\ SetStage(p, "SELECTED")
  /\ Goto(t, p, "build", Null)
  /\ UNCHANGED <<attempts, linkVars, creditOutcome, outsideVars, campaignVars, crashes>>

\* buildAndPublish, its first and its last write.
Build(t, p) ==
  /\ At(t, p, "build")
  /\ SetStage(p, "BUILDING_SITE")
  /\ Counted(p)
  /\ Goto(t, p, "publish", Null)
  /\ UNCHANGED <<linkVars, creditOutcome, outsideVars, campaignVars, crashes>>

Publish(t, p) ==
  /\ At(t, p, "publish")
  /\ SetStage(p, "SITE_PUBLISHED")
  /\ published' = published \cup {p}
  /\ Goto(t, p, "request", Null)
  /\ UNCHANGED <<attempts, recordingId, whatsappMessageId, creditOutcome, outsideVars,
                 campaignVars, crashes>>

\* no_valid_phone, or anything that goes wrong while building.
BuildFails(t, p) ==
  /\ At(t, p, "publish")
  /\ \E reason \in {"retry", "replace"} : FailWith(t, p, "BUILDING_SITE", reason)
  /\ UNCHANGED <<rowVars, outsideVars, campaignVars, crashes>>

\* requestRecording: a new recording's id in the row, then its job, which the
\* queue may refuse.
RequestRecording(t, p) ==
  /\ At(t, p, "request")
  /\ p \in published
  /\ SetStage(p, "RECORDING")
  /\ \E r \in Recording :
       /\ Unused(r, p) /\ r = NextRecording(p)
       /\ recordingId' = [recordingId EXCEPT ![p] = r]
  /\ Return(t) \/ FailWith(t, p, "RECORDING", "retry")
  /\ UNCHANGED <<attempts, published, whatsappMessageId, creditOutcome, outsideVars,
                 campaignVars, crashes>>

\* There is no preview, or the recording's row cannot be written.
NothingToRecord(t, p) ==
  /\ At(t, p, "request")
  /\ FailWith(t, p, "RECORDING", "retry")
  /\ UNCHANGED <<rowVars, outsideVars, campaignVars, crashes>>

-----------------------------------------------------------------------------
(* onRecordingFinished, called by the recorder or by reconcileRecordings.   *)
(* A recording's status is written by id alone, by the recorder (which     *)
(* also writes QUEUED or FAILED over READY if it cannot notify the API),   *)
(* by reconcileRecordings once it took too long, and when the video        *)
(* expires.  So whoever reads it may find anything.                        *)

Finished(t, p) ==
  /\ thread[t] = Idle
  /\ stage[p] = "RECORDING"
  /\ \/ Goto(t, p, "claim", recordingId[p])
     \/ FailWith(t, p, "RECORDING", "retry")
  /\ UNCHANGED <<rowVars, outsideVars, campaignVars, crashes>>

ClaimVideo(t, p) ==
  /\ At(t, p, "claim")
  /\ IF stage[p] = "RECORDING" /\ recordingId[p] = thread[t].memo
     THEN /\ stage' = [stage EXCEPT ![p] = "VIDEO_UPLOADED"]
          /\ Goto(t, p, "load", Null)
     ELSE Return(t) /\ UNCHANGED stage
  /\ UNCHANGED <<failure, attempts, linkVars, creditOutcome, outsideVars, campaignVars,
                 crashes>>

-----------------------------------------------------------------------------
(* prepareDelivery: what it does was decided by the copy it loaded *)

Load(t, p) ==
  /\ At(t, p, "load")
  /\ Goto(t, p, "deliver",
       [message |-> IF sendingPaused THEN Null ELSE whatsappMessageId[p],
        paused |-> sendingPaused,
        inPlace |-> stage[p] = IF sendingPaused THEN "VIDEO_UPLOADED" ELSE "DELIVERY_QUEUED"])
  /\ UNCHANGED <<rowVars, outsideVars, campaignVars, crashes>>

Hold(t, p) ==
  /\ At(t, p, "deliver")
  /\ thread[t].memo.paused
  /\ IF thread[t].memo.inPlace
     THEN UNCHANGED <<stage, failure>> ELSE SetStage(p, "VIDEO_UPLOADED")
  /\ Return(t)
  /\ UNCHANGED <<attempts, linkVars, creditOutcome, outsideVars, campaignVars, crashes>>

LinkReady(t, p) ==
  /\ At(t, p, "deliver")
  /\ ~ thread[t].memo.paused
  /\ deliveryMode = "DIRECT"
  /\ SetStage(p, "LINK_READY")
  /\ Return(t)
  /\ UNCHANGED <<attempts, linkVars, creditOutcome, outsideVars, campaignVars, crashes>>

Sending(t, p) ==
  /\ At(t, p, "deliver")
  /\ ~ thread[t].memo.paused
  /\ deliveryMode = "AUTO"

\* "Never queue a second message for a pipeline that already has one".
HasMessage(t) ==
  /\ thread[t].memo.message # Null
  /\ status[thread[t].memo.message] \notin Dead

Reassert(t, p) ==
  /\ Sending(t, p)
  /\ HasMessage(t)
  /\ IF thread[t].memo.inPlace
     THEN UNCHANGED <<stage, failure, whatsappMessageId>>
     ELSE /\ SetStage(p, "DELIVERY_QUEUED")
          /\ whatsappMessageId' = [whatsappMessageId EXCEPT ![p] = thread[t].memo.message]
  /\ Return(t)
  /\ UNCHANGED <<attempts, published, recordingId, creditOutcome, outsideVars,
                 campaignVars, crashes>>

\* enqueueMessage: the row, and perhaps an error from the queue.
EnqueueMessage(t, p, m) ==
  /\ Sending(t, p)
  /\ ~ HasMessage(t)
  /\ Queued(m) /\ m = NextMessage
  /\ leadOf' = [leadOf EXCEPT ![m] = p]
  /\ \/ Goto(t, p, "queue", m)
     \/ FailWith(t, p, "DELIVERY_QUEUED", "retry")
  /\ UNCHANGED <<rowVars, heldMessages, campaignVars, crashes>>

DeliveryQueued(t, p) ==
  /\ At(t, p, "queue")
  /\ SetStage(p, "DELIVERY_QUEUED")
  /\ whatsappMessageId' = [whatsappMessageId EXCEPT ![p] = thread[t].memo]
  /\ Return(t)
  /\ UNCHANGED <<attempts, published, recordingId, creditOutcome, outsideVars,
                 campaignVars, crashes>>

\* The video or the preview is not there, or no number is linked.
NotDeliverable(t, p) ==
  /\ At(t, p, "deliver")
  /\ FailWith(t, p, "DELIVERY_QUEUED", "retry")
  /\ UNCHANGED <<rowVars, outsideVars, campaignVars, crashes>>

\* OutreachBlockedError: opted_out, recent_duplicate; claimed_elsewhere.
PolicyDenies(t, p) ==
  /\ Sending(t, p)
  /\ ~ HasMessage(t)
  /\ \E reason \in {"retry", "final", "replace"} : FailWith(t, p, "DELIVERY_QUEUED", reason)
  /\ UNCHANGED <<rowVars, outsideVars, campaignVars, crashes>>

-----------------------------------------------------------------------------
(* syncDeliveries *)

SyncReads(t, p) ==
  /\ thread[t] = Idle
  /\ stage[p] = "DELIVERY_QUEUED"
  /\ Goto(t, p, "sync", whatsappMessageId[p])
  /\ UNCHANGED <<rowVars, outsideVars, campaignVars, crashes>>

\* Takes every message that is not dead for a delivered one.
Faulty_SyncDelivered(t, p) ==
  /\ At(t, p, "sync")
  /\ status[thread[t].memo] \notin Dead
  /\ Goto(t, p, "complete", Null)
  /\ UNCHANGED <<rowVars, outsideVars, campaignVars, crashes>>

SyncDelivered(t, p) ==
  /\ At(t, p, "sync")
  /\ status[thread[t].memo] \in {"DELIVERED", "READ"}
  /\ Goto(t, p, "complete", Null)
  /\ UNCHANGED <<rowVars, outsideVars, campaignVars, crashes>>

\* The message's own reason, which a message cancelled by a sign-out has not.
SyncDead(t, p) ==
  /\ At(t, p, "sync")
  /\ \/ /\ status[thread[t].memo] = "CANCELLED"
        /\ FailWith(t, p, "DELIVERY_QUEUED",
             IF thread[t].memo \in heldMessages THEN "paused" ELSE "retry")
     \/ /\ status[thread[t].memo] = "FAILED"
        /\ FailWith(t, p, "DELIVERY_QUEUED", "retry")
     \/ /\ status[thread[t].memo] = "BLOCKED"
        /\ \E reason \in {"retry", "final", "replace"} :
             FailWith(t, p, "DELIVERY_QUEUED", reason)
  /\ UNCHANGED <<rowVars, outsideVars, campaignVars, crashes>>

\* not_delivered: no receipt for a day.
SyncExpired(t, p) ==
  /\ At(t, p, "sync")
  /\ status[thread[t].memo] = "SENT"
  /\ FailWith(t, p, "DELIVERY_QUEUED", "final")
  /\ UNCHANGED <<rowVars, outsideVars, campaignVars, crashes>>

SyncWaits(t, p) ==
  /\ At(t, p, "sync")
  /\ status[thread[t].memo] \in {"QUEUED", "SENDING", "SENT"}
  /\ Return(t)
  /\ UNCHANGED <<rowVars, outsideVars, campaignVars, crashes>>

\* Not conditional on the credit.
Faulty_Complete(t, p) ==
  /\ At(t, p, "complete")
  /\ IF stage[p] = "DELIVERY_QUEUED"
     THEN /\ stage' = [stage EXCEPT ![p] = "SENT"]
          /\ creditOutcome' = [creditOutcome EXCEPT ![p] =
               IF creditOutcome[p] = Null THEN "CONSUMED" ELSE creditOutcome[p]]
     ELSE UNCHANGED <<stage, creditOutcome>>
  /\ Return(t)
  /\ UNCHANGED <<failure, attempts, linkVars, outsideVars, campaignVars, crashes>>

Complete(t, p) ==
  /\ At(t, p, "complete")
  /\ IF stage[p] = "DELIVERY_QUEUED" /\ creditOutcome[p] = Null
     THEN /\ stage' = [stage EXCEPT ![p] = "SENT"]
          /\ creditOutcome' = [creditOutcome EXCEPT ![p] = "CONSUMED"]
     ELSE UNCHANGED <<stage, creditOutcome>>
  /\ Return(t)
  /\ UNCHANGED <<failure, attempts, linkVars, outsideVars, campaignVars, crashes>>

\* The user says the prepared message was sent.
MarkDirectSent(p) ==
  /\ stage[p] = "LINK_READY"
  /\ creditOutcome[p] = Null
  /\ stage' = [stage EXCEPT ![p] = "SENT"]
  /\ creditOutcome' = [creditOutcome EXCEPT ![p] = "CONSUMED"]
  /\ UNCHANGED <<failure, attempts, linkVars, outsideVars, campaignVars, thread, crashes>>

-----------------------------------------------------------------------------
(* failPipeline: FAILED whatever the stage is by now, and the settlement if *)
(* the failure is final, decided on the attempts that this write returns    *)

\* One attempt too late.
Faulty_IsFinal(p, reason) == attempts[p] > MaxAttempts \/ reason # "retry"

IsFinal(p, reason) == attempts[p] >= MaxAttempts \/ reason # "retry"

\* Settles what was settled.
Faulty_Refund(p) == creditOutcome' = [creditOutcome EXCEPT ![p] = "REFUNDED"]

Refund(p) ==
  creditOutcome' = [creditOutcome EXCEPT ![p] =
    IF creditOutcome[p] = Null THEN "REFUNDED" ELSE creditOutcome[p]]

Fail(t, p) ==
  /\ At(t, p, "fail")
  /\ stage' = [stage EXCEPT ![p] = "FAILED"]
  /\ failure' = [failure EXCEPT ![p] = Recorded(thread[t].memo)]
  /\ IF IsFinal(p, thread[t].memo.reason) THEN Refund(p) ELSE UNCHANGED creditOutcome
  /\ Return(t)
  /\ UNCHANGED <<attempts, linkVars, outsideVars, campaignVars, crashes>>

\* claimReplacementLead found one: it takes over the credit, and this thread.
FailReplaced(t, p, q) ==
  /\ At(t, p, "fail")
  /\ thread[t].memo.reason = "replace"
  /\ creditOutcome[p] = Null
  /\ stage[q] = "NONE"
  /\ stage' = [stage EXCEPT ![p] = "FAILED", ![q] = "SELECTED"]
  /\ failure' = [failure EXCEPT ![p] = Recorded(thread[t].memo)]
  /\ creditOutcome' = [creditOutcome EXCEPT ![p] = "REPLACED"]
  /\ Goto(t, q, "build", Null)
  /\ UNCHANGED <<attempts, linkVars, outsideVars, campaignVars, crashes>>

-----------------------------------------------------------------------------
(* Retries and recovery *)

\* retryPipeline, by where the pitch failed.
Resume(t, p) ==
  CASE failure[p].stage \in {"SELECTED", "BUILDING_SITE"} ->
         Goto(t, p, IF p \in published THEN "request" ELSE "build", Null)
    [] failure[p].stage = "RECORDING" -> Goto(t, p, "request", Null)
    [] failure[p].stage = "DELIVERY_QUEUED" ->
         \/ Goto(t, p, "request", Null)
         \/ recordingId[p] # Null /\ Goto(t, p, "load", Null)

Retry(t, p) ==
  /\ thread[t] = Idle
  /\ stage[p] = "FAILED"
  /\ Resume(t, p)
  /\ UNCHANGED <<rowVars, outsideVars, campaignVars, crashes>>

\* Stops one attempt early.
Faulty_Requeue(t, p) ==
  /\ thread[t] = Idle
  /\ stage[p] = "FAILED"
  /\ failure[p].reason = "retry"
  /\ attempts[p] < MaxAttempts - 1
  /\ Counted(p)
  /\ Goto(t, p, "retry", Null)
  /\ UNCHANGED <<stage, failure, linkVars, creditOutcome, outsideVars, campaignVars, crashes>>

\* requeueFailedPipelines: count the attempt, then retry.
Requeue(t, p) ==
  /\ thread[t] = Idle
  /\ stage[p] = "FAILED"
  /\ failure[p].reason = "retry"
  /\ attempts[p] < MaxAttempts
  /\ Counted(p)
  /\ Goto(t, p, "retry", Null)
  /\ UNCHANGED <<stage, failure, linkVars, creditOutcome, outsideVars, campaignVars, crashes>>

RetryRequeued(t, p) ==
  /\ At(t, p, "retry")
  /\ IF stage[p] = "FAILED" THEN Resume(t, p) ELSE Return(t)
  /\ UNCHANGED <<rowVars, outsideVars, campaignVars, crashes>>

\* recoverStalePipelines: a pitch nobody built, or not soon enough.
Recover(t, p) ==
  /\ thread[t] = Idle
  /\ stage[p] = "SELECTED"
  /\ creditOutcome[p] = Null
  /\ Counted(p)
  /\ IF attempts[p] + 1 >= MaxAttempts
     THEN FailWith(t, p, "SELECTED", "retry") ELSE Goto(t, p, "build", Null)
  /\ UNCHANGED <<stage, failure, linkVars, creditOutcome, outsideVars, campaignVars, crashes>>

\* releaseHeldPipelines, on resume or from the maintenance job.
Release(t, p) ==
  /\ thread[t] = Idle
  /\ stage[p] = "VIDEO_UPLOADED"
  /\ ~ sendingPaused
  /\ Goto(t, p, "load", Null)
  /\ UNCHANGED <<rowVars, outsideVars, campaignVars, crashes>>

-----------------------------------------------------------------------------
(* Pausing *)

SetPaused(paused) ==
  /\ sendingPaused # paused
  /\ sendingPaused' = paused
  /\ UNCHANGED <<rowVars, outsideVars, deliveryMode, thread, crashes>>

\* pauseCampaignSending, for one of the pitches it found queued.  Its first
\* write is SetPaused, which a resume may have undone by now.
PauseReads(t, p) ==
  /\ thread[t] = Idle
  /\ stage[p] = "DELIVERY_QUEUED"
  /\ Goto(t, p, "cancel", whatsappMessageId[p])
  /\ UNCHANGED <<rowVars, outsideVars, campaignVars, crashes>>

PauseCancels(t, p) ==
  /\ At(t, p, "cancel")
  /\ Cancelled(thread[t].memo)
  /\ heldMessages' = heldMessages \cup {thread[t].memo}
  /\ Goto(t, p, "hold", thread[t].memo)
  /\ UNCHANGED <<rowVars, leadOf, campaignVars, crashes>>

PauseTooLate(t, p) ==
  /\ At(t, p, "cancel")
  /\ status[thread[t].memo] # "QUEUED"
  /\ Return(t)
  /\ UNCHANGED <<rowVars, outsideVars, campaignVars, crashes>>

\* Forgets the message of a pitch that it leaves where it is.
Faulty_PauseHolds(t, p) ==
  /\ At(t, p, "hold")
  /\ stage' = [stage EXCEPT ![p] =
       IF whatsappMessageId[p] = thread[t].memo THEN "VIDEO_UPLOADED" ELSE stage[p]]
  /\ whatsappMessageId' = [whatsappMessageId EXCEPT ![p] = Null]
  /\ Return(t)
  /\ UNCHANGED <<failure, attempts, published, recordingId, creditOutcome, outsideVars,
                 campaignVars, crashes>>

PauseHolds(t, p) ==
  /\ At(t, p, "hold")
  /\ IF stage[p] = "DELIVERY_QUEUED" /\ whatsappMessageId[p] = thread[t].memo
     THEN /\ stage' = [stage EXCEPT ![p] = "VIDEO_UPLOADED"]
          /\ whatsappMessageId' = [whatsappMessageId EXCEPT ![p] = Null]
     ELSE UNCHANGED <<stage, whatsappMessageId>>
  /\ Return(t)
  /\ UNCHANGED <<failure, attempts, published, recordingId, creditOutcome, outsideVars,
                 campaignVars, crashes>>

-----------------------------------------------------------------------------
Crash(t) ==
  /\ thread[t] # Idle
  /\ crashes < MaxCrashes
  /\ crashes' = crashes + 1
  /\ Return(t)
  /\ UNCHANGED <<rowVars, outsideVars, campaignVars>>

\* The send worker, WhatsApp, receipts, sign-outs.
MessageMoves(m) ==
  /\ \/ Cancelled(m) \/ Attempted(m) \/ Reached(m)
     \/ Sent(m) \/ Failed(m) \/ Blocked(m) \/ Acknowledged(m)
  /\ UNCHANGED <<rowVars, leadOf, heldMessages, campaignVars, thread, crashes>>

Producing(t, p) ==
  \/ Build(t, p) \/ Publish(t, p) \/ BuildFails(t, p)
  \/ RequestRecording(t, p) \/ NothingToRecord(t, p)
  \/ ClaimVideo(t, p)

Delivery(t, p) ==
  \/ Load(t, p) \/ Hold(t, p) \/ LinkReady(t, p) \/ Reassert(t, p)
  \/ \E m \in Message : EnqueueMessage(t, p, m)
  \/ DeliveryQueued(t, p)
  \/ NotDeliverable(t, p) \/ PolicyDenies(t, p)

Syncing(t, p) ==
  \/ SyncDelivered(t, p) \/ SyncDead(t, p) \/ SyncExpired(t, p) \/ SyncWaits(t, p)
  \/ Complete(t, p)

Settling(t, p) ==
  \/ Fail(t, p) \/ \E q \in Pipeline : FailReplaced(t, p, q)
  \/ RetryRequeued(t, p)

Pausing(t, p) == PauseCancels(t, p) \/ PauseTooLate(t, p) \/ PauseHolds(t, p)

\* What a thread does next, and what a new one may be for.
Step(t, p) ==
  /\ thread[t].pitch = p
  /\ \/ thread[t].pc \in {"build", "publish", "request", "claim"} /\ Producing(t, p)
     \/ thread[t].pc \in {"load", "deliver", "queue"} /\ Delivery(t, p)
     \/ thread[t].pc \in {"sync", "complete"} /\ Syncing(t, p)
     \/ thread[t].pc \in {"fail", "retry"} /\ Settling(t, p)
     \/ thread[t].pc \in {"cancel", "hold"} /\ Pausing(t, p)

Begin(t, p) ==
  /\ thread[t] = Idle
  /\ \/ Start(t, p) \/ Finished(t, p) \/ SyncReads(t, p) \/ Retry(t, p)
     \/ Requeue(t, p) \/ Recover(t, p) \/ Release(t, p) \/ PauseReads(t, p)

Next ==
  \/ \E t \in Thread, p \in Pipeline : Begin(t, p) \/ Step(t, p)
  \/ \E t \in Thread : Crash(t)
  \/ \E p \in Pipeline : MarkDirectSent(p)
  \/ \E m \in Message : MessageMoves(m)
  \/ \E paused \in BOOLEAN : SetPaused(paused)

Spec == Init /\ [][Next]_vars

\* A request goes on until it ends, and the maintenance job comes back to every
\* row it is for, however busy the threads are; recordings end and receipts are
\* overdue.  Two conditions do, and ask less than one for each of the actions.
\* Messages, leads and users may be idle.
Maintained(p) ==
  /\ SF_vars(\E t \in Thread :
       Finished(t, p) \/ Recover(t, p) \/ Release(t, p) \/ SyncReads(t, p))
  /\ SF_vars(\E t \in Thread : Requeue(t, p) \/ SyncExpired(t, p))

Fairness ==
  /\ \A t \in Thread : WF_vars(\E p \in Pipeline : Step(t, p))
  /\ \A p \in Pipeline : Maintained(p)

FairSpec == Spec /\ Fairness

-----------------------------------------------------------------------------
(* Properties *)

\* The columns that are read at a stage are there.
RowsComplete ==
  \A p \in Pipeline :
    /\ stage[p] = "RECORDING" => recordingId[p] # Null
    /\ stage[p] = "DELIVERY_QUEUED" => whatsappMessageId[p] # Null
    /\ (stage[p] = "FAILED") = (failure[p] # Null)

\* Every variable has its type, and every row the columns its stage is read with.
TypeOK ==
  /\ RowsComplete
  /\ status \in [Message -> Status]
  /\ attempted \subseteq Message /\ landed \in [Message -> {0, 1}]
  /\ stage \in [Pipeline -> Stage]
  /\ failure \in [Pipeline -> Cause \cup {Null}]
  /\ attempts \in [Pipeline -> 0..MaxAttempts]
  /\ published \subseteq Pipeline
  /\ recordingId \in [Pipeline -> Recording \cup {Null}]
  /\ whatsappMessageId \in [Pipeline -> Message \cup {Null}]
  /\ creditOutcome \in [Pipeline -> {Null} \cup Outcome]
  /\ leadOf \in [Message -> Pipeline \cup {Null}]
  /\ heldMessages \subseteq Message
  /\ sendingPaused \in BOOLEAN
  /\ deliveryMode \in {"AUTO", "DIRECT"}
  /\ thread \in [Thread -> ThreadState]
  /\ crashes \in 0..MaxCrashes

\* A pitch is shown as sent only if it was paid for: whatever was retried,
\* failed or refunded meanwhile, the two conditional updates that write SENT
\* take a pitch whose credit nobody had settled, and consume it.
SentIsConsumed == \A p \in Pipeline : stage[p] = "SENT" => creditOutcome[p] = "CONSUMED"

\* Nobody pays for an automatic pitch its lead did not get.  The receipt is read
\* for one message and the credit consumed later, perhaps with another message
\* in the row, which a second delivery queued, and that one dead.
ConsumedReachedLead ==
  \A p \in Pipeline :
    (deliveryMode = "AUTO" /\ creditOutcome[p] = "CONSUMED") =>
      \E m \in Message : leadOf[m] = p /\ landed[m] = 1

\* A failure that leaves the credit open is one the maintenance job takes up: it
\* and failPipeline agree on reasons and attempts, although the job counts the
\* attempt before it retries.  Whoever dies, the reason is always one it retries;
\* only a request that died after the count (pipeline-maintenance.job.ts:162) can
\* leave such a failure with no attempt left and nobody at work on it.
OpenFailureIsRetried ==
  \A p \in Pipeline :
    (stage[p] = "FAILED" /\ creditOutcome[p] = Null) =>
      /\ failure[p].reason = "retry"
      /\ \/ attempts[p] < MaxAttempts
         \/ \E t \in Thread : thread[t].pitch = p
         \/ crashes > 0

\* Waiting for a user, or for a message the worker has yet to send.
Waits(p) ==
  \/ stage[p] \in {"NONE", "LINK_READY"} \/ sendingPaused
  \/ /\ stage[p] = "DELIVERY_QUEUED"
     /\ status[whatsappMessageId[p]] \in {"QUEUED", "SENDING"}

\* What the maintenance job has no query for, once a request died: a site half
\* built or not yet recorded (recoverStalePipelines looks for SELECTED only), and
\* a failure whose last attempt was counted and not made.
LostToCrash(p) ==
  /\ crashes > 0
  /\ \/ stage[p] \in {"BUILDING_SITE", "SITE_PUBLISHED"}
     \/ stage[p] = "FAILED" /\ attempts[p] = MaxAttempts

\* No credit stays reserved because everyone lost sight of its pitch: each pitch
\* is settled or comes back, again and again, to where it waits for a user or
\* the worker.  After a death it may also be lost, but nowhere else than where
\* LostToCrash says: from every other stage the job brings it back.
NoCreditForgotten ==
  \A p \in Pipeline : []<>(creditOutcome[p] # Null \/ Waits(p) \/ LostToCrash(p))

Credit ==
  [p \in Pipeline |->
    IF stage[p] = "NONE" THEN "unstarted"
    ELSE IF creditOutcome[p] = Null THEN "open" ELSE creditOutcome[p]]

ThisCredit == INSTANCE PitchCredit WITH credit <- Credit

\* The credit of a pitch is settled once and for good, however many requests
\* complete, fail, retry or replace it, and moves to one other lead at most.
ImplementsPitchCredit == ThisCredit!CreditSpec

\* pauseCampaignSending: "Nothing is failed and no credit moves".
PauseFailsNothing ==
  \A p \in Pipeline : failure[p] # Null => failure[p].reason # "paused"

\* prepareDelivery: "Never queue a second message for a pipeline that already
\* has one in flight".
OneMessageInFlight ==
  \A m, n \in Message :
    (m # n /\ leadOf[m] # Null /\ leadOf[m] = leadOf[n]) =>
      status[m] \in Dead \/ status[n] \in Dead

=============================================================================
