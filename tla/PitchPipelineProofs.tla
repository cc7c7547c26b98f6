------------------------ MODULE PitchPipelineProofs ------------------------
(***************************************************************************)
(* Theorems about PitchPipeline, for any pitches, requests, messages and    *)
(* limits.                                                                 *)
(*                                                                         *)
(* Four invariants carry them.  RowInv: types, and that nothing refers to *)
(* a pitch that was not started.  LeadInv: whatever message a row or a     *)
(* request holds is one for the lead of its pitch, so a receipt read for   *)
(* it proves what is concluded from it later.  RetryInv: a failure that    *)
(* left the credit open can be retried, or a request is past the point     *)
(* where it could leave the row as it is, unless one died.  ReasonInv: its *)
(* reason is one that is retried, whoever died.  Each step is one action.  *)
(***************************************************************************)
EXTENDS PitchPipeline, TLAPS

-----------------------------------------------------------------------------
(* Types *)

\* What does not exist has no credit to settle and no request at work on it.
Unborn ==
  \A p \in Pipeline : stage[p] = "NONE" =>
    creditOutcome[p] = Null /\ \A t \in Thread : thread[t].pitch # p

RowInv == TypeOK /\ Unborn

\* A retry goes on at one of three places.
LEMMA ResumeGoes ==
  ASSUME TypeOK, NEW t \in Thread, NEW p \in Pipeline, stage[p] = "FAILED", Resume(t, p)
  PROVE  \E pc \in {"build", "request", "load"} : Goto(t, p, pc, Null)
<1>1. failure[p] \in Cause
  BY DEF TypeOK, RowsComplete
<1>2. CASE failure[p].stage \in {"SELECTED", "BUILDING_SITE"}
  BY <1>2 DEF Resume
<1>3. CASE failure[p].stage = "RECORDING"
  BY <1>3 DEF Resume
<1>4. CASE failure[p].stage = "DELIVERY_QUEUED"
  BY <1>4 DEF Resume
<1>5. QED
  BY <1>1, <1>2, <1>3, <1>4 DEF Cause

\* RowInv is kept by every step.
LEMMA RowInvStep == RowInv /\ [Next]_vars => RowInv'
<1> SUFFICES ASSUME RowInv, [Next]_vars PROVE RowInv'
  OBVIOUS
<1> USE PipelineAssumption DEF RowInv, Unborn, TypeOK, RowsComplete, ThreadState, Idle,
      Snapshot, Cause, Stage, Outcome, Status, At, Goto, Return, FailWith, SetStage, Counted, OneMore,
      stageVars, linkVars, outsideVars, campaignVars, rowVars, lifeVars
<1>1. ASSUME NEW t \in Thread, NEW p \in Pipeline, Start(t, p) PROVE RowInv'
  BY <1>1 DEF Start
<1>2. ASSUME NEW t \in Thread, NEW p \in Pipeline, Build(t, p) PROVE RowInv'
  BY <1>2 DEF Build
<1>3. ASSUME NEW t \in Thread, NEW p \in Pipeline, Publish(t, p) PROVE RowInv'
  BY <1>3 DEF Publish
<1>4. ASSUME NEW t \in Thread, NEW p \in Pipeline, BuildFails(t, p) PROVE RowInv'
  BY <1>4 DEF BuildFails
<1>5. ASSUME NEW t \in Thread, NEW p \in Pipeline, RequestRecording(t, p) PROVE RowInv'
  <2>1. PICK r \in Recording :
          /\ Unused(r, p)
          /\ recordingId' = [recordingId EXCEPT ![p] = r]
    BY <1>5 DEF RequestRecording
  <2>2. CASE Return(t)
    BY <1>5, <2>1, <2>2 DEF RequestRecording
  <2>3. CASE FailWith(t, p, "RECORDING", "retry")
    BY <1>5, <2>1, <2>3 DEF RequestRecording
  <2>4. QED
    BY <1>5, <2>2, <2>3 DEF RequestRecording
<1>6. ASSUME NEW t \in Thread, NEW p \in Pipeline, NothingToRecord(t, p) PROVE RowInv'
  BY <1>6 DEF NothingToRecord
<1>7. ASSUME NEW t \in Thread, NEW p \in Pipeline, Finished(t, p) PROVE RowInv'
  BY <1>7 DEF Finished
<1>8. ASSUME NEW t \in Thread, NEW p \in Pipeline, ClaimVideo(t, p) PROVE RowInv'
  <2>1. CASE stage[p] = "RECORDING" /\ recordingId[p] = thread[t].memo
    <3>1. /\ stage' = [stage EXCEPT ![p] = "VIDEO_UPLOADED"]
          /\ Goto(t, p, "load", Null)
          /\ UNCHANGED <<failure, attempts, linkVars, creditOutcome, outsideVars, campaignVars,
                         crashes>>
      BY <1>8, <2>1 DEF ClaimVideo
    <3>2. failure[p] = Null
      BY <2>1
    <3>3. QED
      BY <2>1, <3>1, <3>2
  <2>2. CASE ~ (stage[p] = "RECORDING" /\ recordingId[p] = thread[t].memo)
    BY <1>8, <2>2 DEF ClaimVideo
  <2>3. QED
    BY ONLY <2>1, <2>2
<1>9. ASSUME NEW t \in Thread, NEW p \in Pipeline, Load(t, p) PROVE RowInv'
  BY <1>9 DEF Load
<1>10. ASSUME NEW t \in Thread, NEW p \in Pipeline, Hold(t, p) PROVE RowInv'
  BY <1>10 DEF Hold
<1>11. ASSUME NEW t \in Thread, NEW p \in Pipeline, LinkReady(t, p) PROVE RowInv'
  BY <1>11 DEF LinkReady
<1>12. ASSUME NEW t \in Thread, NEW p \in Pipeline, Reassert(t, p) PROVE RowInv'
  <2>1. thread[t].memo \in Snapshot /\ thread[t].memo.message \in Message
    BY <1>12 DEF Reassert, Sending, HasMessage
  <2>2. CASE UNCHANGED <<stage, failure, whatsappMessageId>>
    BY <1>12, <2>2 DEF Reassert
  <2>3. CASE /\ SetStage(p, "DELIVERY_QUEUED")
             /\ whatsappMessageId' = [whatsappMessageId EXCEPT ![p] = thread[t].memo.message]
    BY <1>12, <2>1, <2>3 DEF Reassert, Sending
  <2>4. QED
    BY <1>12, <2>2, <2>3 DEF Reassert
<1>13. ASSUME NEW t \in Thread, NEW p \in Pipeline, DeliveryQueued(t, p) PROVE RowInv'
  BY <1>13 DEF DeliveryQueued
<1>14. ASSUME NEW t \in Thread, NEW p \in Pipeline, NotDeliverable(t, p) PROVE RowInv'
  BY <1>14 DEF NotDeliverable
<1>15. ASSUME NEW t \in Thread, NEW p \in Pipeline, PolicyDenies(t, p) PROVE RowInv'
  BY <1>15 DEF PolicyDenies, Sending, HasMessage
<1>16. ASSUME NEW t \in Thread, NEW p \in Pipeline, SyncReads(t, p) PROVE RowInv'
  BY <1>16 DEF SyncReads
<1>17. ASSUME NEW t \in Thread, NEW p \in Pipeline, SyncDelivered(t, p) PROVE RowInv'
  BY <1>17 DEF SyncDelivered
<1>18. ASSUME NEW t \in Thread, NEW p \in Pipeline, SyncDead(t, p) PROVE RowInv'
  <2>1. \E c \in Cause : thread' = [thread EXCEPT ![t] = [pc |-> "fail", pitch |-> p, memo |-> c]]
    BY <1>18 DEF SyncDead
  <2>2. thread[t].pitch = p /\ UNCHANGED <<rowVars, outsideVars, campaignVars, crashes>>
    BY <1>18 DEF SyncDead
  <2>3. QED
    BY <2>1, <2>2
<1>19. ASSUME NEW t \in Thread, NEW p \in Pipeline, SyncExpired(t, p) PROVE RowInv'
  BY <1>19 DEF SyncExpired
<1>20. ASSUME NEW t \in Thread, NEW p \in Pipeline, SyncWaits(t, p) PROVE RowInv'
  BY <1>20 DEF SyncWaits
<1>21. ASSUME NEW t \in Thread, NEW p \in Pipeline, Complete(t, p) PROVE RowInv'
  <2>1. CASE stage[p] = "DELIVERY_QUEUED" /\ creditOutcome[p] = Null
    <3>1. /\ stage' = [stage EXCEPT ![p] = "SENT"]
          /\ creditOutcome' = [creditOutcome EXCEPT ![p] = "CONSUMED"]
          /\ Return(t)
          /\ UNCHANGED <<failure, attempts, linkVars, outsideVars, campaignVars, crashes>>
      BY <1>21, <2>1 DEF Complete
    <3>2. failure[p] = Null
      BY <2>1
    <3>3. stage' \in [Pipeline -> Stage] /\ creditOutcome' \in [Pipeline -> {Null} \cup Outcome]
      BY <3>1
    <3>4. thread' \in [Thread -> ThreadState]
      BY <3>1
    <3>5. RowsComplete'
      BY <2>1, <3>1, <3>2
    <3>6. Unborn'
      BY <2>1, <3>1
    <3>7. QED
      BY <3>1, <3>3, <3>4, <3>5, <3>6
  <2>2. CASE UNCHANGED <<stage, creditOutcome>>
    BY <1>21, <2>2 DEF Complete
  <2>3. QED
    BY <1>21, <2>1, <2>2 DEF Complete
<1>22. ASSUME NEW t \in Thread, NEW p \in Pipeline, Fail(t, p) PROVE RowInv'
  <2>1. /\ stage' = [stage EXCEPT ![p] = "FAILED"]
        /\ failure' = [failure EXCEPT ![p] = Recorded(thread[t].memo)]
        /\ thread' = [thread EXCEPT ![t] = Idle]
        /\ UNCHANGED <<attempts, linkVars, outsideVars, campaignVars, crashes>>
    BY <1>22 DEF Fail
  <2>2. thread[t].pitch = p /\ thread[t].memo \in Cause
    BY <1>22 DEF Fail
  <2>3. Recorded(thread[t].memo) \in Cause
    BY <2>2 DEF Recorded
  <2>4. creditOutcome' \in [Pipeline -> {Null} \cup Outcome]
        /\ \A q \in Pipeline \ {p} : creditOutcome'[q] = creditOutcome[q]
    BY <1>22 DEF Fail, IsFinal, Refund
  <2>5. stage' \in [Pipeline -> Stage] /\ failure' \in [Pipeline -> Cause \cup {Null}]
    BY <2>1, <2>3
  <2>6. thread' \in [Thread -> ThreadState]
    BY <2>1
  <2>7. RowsComplete'
    BY <2>1, <2>3
  <2>8. Unborn'
    BY <2>1, <2>4
  <2>9. QED
    BY <2>1, <2>4, <2>5, <2>6, <2>7, <2>8
<1>23. ASSUME NEW t \in Thread, NEW p \in Pipeline, Retry(t, p) PROVE RowInv'
  <2>1. PICK pc \in {"build", "request", "load"} : Goto(t, p, pc, Null)
    BY <1>23, ResumeGoes DEF Retry
  <2>2. QED
    BY <1>23, <2>1 DEF Retry
<1>24. ASSUME NEW t \in Thread, NEW p \in Pipeline, Requeue(t, p) PROVE RowInv'
  BY <1>24 DEF Requeue
<1>25. ASSUME NEW t \in Thread, NEW p \in Pipeline, RetryRequeued(t, p) PROVE RowInv'
  <2>1. CASE stage[p] = "FAILED"
    <3>1. PICK pc \in {"build", "request", "load"} : Goto(t, p, pc, Null)
      BY <1>25, <2>1, ResumeGoes DEF RetryRequeued
    <3>2. QED
      BY <1>25, <2>1, <3>1 DEF RetryRequeued
  <2>2. CASE stage[p] # "FAILED"
    BY <1>25, <2>2 DEF RetryRequeued
  <2>3. QED
    BY <2>1, <2>2
<1>26. ASSUME NEW t \in Thread, NEW p \in Pipeline, Recover(t, p) PROVE RowInv'
  <2>1. CASE FailWith(t, p, "SELECTED", "retry")
    BY <1>26, <2>1 DEF Recover
  <2>2. CASE Goto(t, p, "build", Null)
    BY <1>26, <2>2 DEF Recover
  <2>3. QED
    BY <1>26, <2>1, <2>2 DEF Recover
<1>27. ASSUME NEW t \in Thread, NEW p \in Pipeline, Release(t, p) PROVE RowInv'
  BY <1>27 DEF Release
<1>28. ASSUME NEW t \in Thread, NEW p \in Pipeline, PauseReads(t, p) PROVE RowInv'
  BY <1>28 DEF PauseReads
<1>29. ASSUME NEW t \in Thread, NEW p \in Pipeline, PauseCancels(t, p) PROVE RowInv'
  BY <1>29 DEF PauseCancels, Cancelled, Becomes
<1>30. ASSUME NEW t \in Thread, NEW p \in Pipeline, PauseTooLate(t, p) PROVE RowInv'
  BY <1>30 DEF PauseTooLate
<1>31. ASSUME NEW t \in Thread, NEW p \in Pipeline, PauseHolds(t, p) PROVE RowInv'
  BY <1>31 DEF PauseHolds
<1>32. ASSUME NEW t \in Thread, NEW p \in Pipeline, NEW m \in Message, EnqueueMessage(t, p, m)
       PROVE  RowInv'
  <2>1. CASE Goto(t, p, "queue", m)
    BY <1>32, <2>1 DEF EnqueueMessage, Sending, Queued, Becomes
  <2>2. CASE FailWith(t, p, "DELIVERY_QUEUED", "retry")
    BY <1>32, <2>2 DEF EnqueueMessage, Sending, Queued, Becomes
  <2>3. QED
    BY <1>32, <2>1, <2>2 DEF EnqueueMessage
<1>33. ASSUME NEW t \in Thread, NEW p \in Pipeline, NEW q \in Pipeline, FailReplaced(t, p, q)
       PROVE  RowInv'
  <2>1. p # q
    BY <1>33 DEF FailReplaced
  <2>2. Recorded(thread[t].memo) \in Cause
    BY <1>33 DEF FailReplaced, Recorded
  <2>3. Recorded(thread[t].memo) # Null
    BY <2>2
  <2>4. QED
    BY <1>33, <2>1, <2>2, <2>3 DEF FailReplaced
<1>34. ASSUME NEW t \in Thread, Crash(t) PROVE RowInv'
  BY <1>34 DEF Crash
<1>35. ASSUME NEW p \in Pipeline, MarkDirectSent(p) PROVE RowInv'
  BY <1>35 DEF MarkDirectSent
<1>36. ASSUME NEW m \in Message, MessageMoves(m) PROVE RowInv'
  BY <1>36 DEF MessageMoves, Cancelled, Attempted, Reached, Sent, Failed, Blocked,
       Acknowledged, Becomes, Status
<1>37. ASSUME NEW paused \in BOOLEAN, SetPaused(paused) PROVE RowInv'
  BY <1>37 DEF SetPaused
<1>38. CASE UNCHANGED vars
  BY <1>38 DEF vars
<1> HIDE DEF RowInv
<1>39. QED
  BY <1>1, <1>2, <1>3, <1>4, <1>5, <1>6, <1>7, <1>8, <1>9, <1>10, <1>11, <1>12, <1>13, <1>14,
       <1>15, <1>16, <1>17, <1>18, <1>19, <1>20, <1>21, <1>22, <1>23, <1>24, <1>25, <1>26,
       <1>27, <1>28, <1>29, <1>30, <1>31, <1>32, <1>33, <1>34, <1>35, <1>36, <1>37, <1>38 DEF
       Next, Begin, Step, Producing, Delivery, Syncing, Settling, Pausing

LEMMA RowInvInit == Init => RowInv
<1> SUFFICES ASSUME Init PROVE RowInv
  OBVIOUS
<1> USE PipelineAssumption DEF Init, LifeInit
<1>1. RowsComplete /\ Unborn
  BY DEF RowsComplete, Unborn, Idle
<1>2. thread \in [Thread -> ThreadState]
  BY DEF ThreadState
<1>3. /\ status \in [Message -> Status] /\ attempted \subseteq Message
      /\ landed \in [Message -> {0, 1}] /\ leadOf \in [Message -> Pipeline \cup {Null}]
  BY DEF Status
<1>4. stage \in [Pipeline -> Stage] /\ attempts \in [Pipeline -> 0..MaxAttempts]
  BY DEF Stage
<1>5. /\ failure \in [Pipeline -> Cause \cup {Null}] /\ published \subseteq Pipeline
      /\ recordingId \in [Pipeline -> Recording \cup {Null}]
      /\ whatsappMessageId \in [Pipeline -> Message \cup {Null}]
      /\ creditOutcome \in [Pipeline -> {Null} \cup Outcome]
  OBVIOUS
<1>6. crashes \in 0..MaxCrashes
  OBVIOUS
<1>7. heldMessages \subseteq Message /\ deliveryMode \in {"AUTO", "DIRECT"}
  OBVIOUS
<1>8. sendingPaused \in BOOLEAN
  OBVIOUS
<1> HIDE DEF Init, LifeInit
<1>9. TypeOK
  BY <1>1, <1>2, <1>3, <1>4, <1>5, <1>6, <1>7, <1>8 DEF TypeOK
<1>10. QED
  BY <1>1, <1>9 DEF RowInv

LEMMA RowInvHolds == Spec => []RowInv
<1>1. Init => RowInv
  BY RowInvInit
<1>2. RowInv /\ [Next]_vars => RowInv'
  BY RowInvStep
<1>3. QED
  BY <1>1, <1>2, PTL DEF Spec

\* Types, and the columns a stage is read with, in every state.
THEOREM TypeCorrect == Spec => []TypeOK
<1>1. RowInv => TypeOK
  BY DEF RowInv
<1>2. QED
  BY <1>1, RowInvHolds, PTL

-----------------------------------------------------------------------------
(* Messages, leads and what was paid for *)

Landed(p) == \E m \in Message : leadOf[m] = p /\ landed[m] = 1

LeadInv ==
  /\ \A m \in Message : status[m] = "NONE" => leadOf[m] = Null
  /\ \A m \in Message : status[m] \in Accepted => landed[m] = 1
  /\ \A p \in Pipeline :
       whatsappMessageId[p] # Null => leadOf[whatsappMessageId[p]] = p
  /\ \A t \in Thread :
       /\ thread[t].pc \in {"queue", "sync"} => leadOf[thread[t].memo] = thread[t].pitch
       /\ (thread[t].pc = "deliver" /\ thread[t].memo.message # Null) =>
            leadOf[thread[t].memo.message] = thread[t].pitch
       /\ thread[t].pc = "complete" => Landed(thread[t].pitch)
  /\ \A p \in Pipeline : stage[p] = "LINK_READY" => deliveryMode = "DIRECT"
  /\ ConsumedReachedLead
  /\ SentIsConsumed

\* LeadInv is kept by every step.
LEMMA LeadInvStep == RowInv /\ LeadInv /\ [Next]_vars => LeadInv'
<1> SUFFICES ASSUME RowInv, LeadInv, [Next]_vars PROVE LeadInv'
  OBVIOUS
<1> USE PipelineAssumption DEF RowInv, LeadInv, Landed, ConsumedReachedLead, SentIsConsumed,
      TypeOK, RowsComplete, ThreadState, Idle, Snapshot, Cause, Stage, Outcome, Status,
      Accepted, At, Goto, Return, FailWith, SetStage, Counted, OneMore, stageVars, linkVars, outsideVars, campaignVars, rowVars, lifeVars
<1>1. ASSUME NEW t \in Thread, NEW p \in Pipeline, Start(t, p) PROVE LeadInv'
  BY <1>1 DEF Start
<1>2. ASSUME NEW t \in Thread, NEW p \in Pipeline, Build(t, p) PROVE LeadInv'
  BY <1>2 DEF Build
<1>3. ASSUME NEW t \in Thread, NEW p \in Pipeline, Publish(t, p) PROVE LeadInv'
  BY <1>3 DEF Publish
<1>4. ASSUME NEW t \in Thread, NEW p \in Pipeline, BuildFails(t, p) PROVE LeadInv'
  BY <1>4 DEF BuildFails
<1>5. ASSUME NEW t \in Thread, NEW p \in Pipeline, RequestRecording(t, p) PROVE LeadInv'
  BY <1>5 DEF RequestRecording, Unused
<1>6. ASSUME NEW t \in Thread, NEW p \in Pipeline, NothingToRecord(t, p) PROVE LeadInv'
  BY <1>6 DEF NothingToRecord
<1>7. ASSUME NEW t \in Thread, NEW p \in Pipeline, Finished(t, p) PROVE LeadInv'
  BY <1>7 DEF Finished
<1>8. ASSUME NEW t \in Thread, NEW p \in Pipeline, ClaimVideo(t, p) PROVE LeadInv'
  BY <1>8 DEF ClaimVideo
<1>9. ASSUME NEW t \in Thread, NEW p \in Pipeline, Load(t, p) PROVE LeadInv'
  BY <1>9 DEF Load
<1>10. ASSUME NEW t \in Thread, NEW p \in Pipeline, Hold(t, p) PROVE LeadInv'
  BY <1>10 DEF Hold
<1>11. ASSUME NEW t \in Thread, NEW p \in Pipeline, LinkReady(t, p) PROVE LeadInv'
  BY <1>11 DEF LinkReady
<1>12. ASSUME NEW t \in Thread, NEW p \in Pipeline, Reassert(t, p) PROVE LeadInv'
  <2>1. /\ thread[t].pc = "deliver" /\ thread[t].pitch = p
        /\ thread[t].memo.message \in Message
    BY <1>12 DEF Reassert, Sending, HasMessage
  <2>2. leadOf[thread[t].memo.message] = p
    BY <2>1
  <2>3. /\ thread' = [thread EXCEPT ![t] = Idle]
        /\ UNCHANGED <<attempts, published, recordingId, creditOutcome, outsideVars,
                       campaignVars, crashes>>
    BY <1>12 DEF Reassert
  <2>4. CASE UNCHANGED <<stage, failure, whatsappMessageId>>
    BY <2>3, <2>4
  <2>5. CASE /\ stage' = [stage EXCEPT ![p] = "DELIVERY_QUEUED"]
             /\ whatsappMessageId' = [whatsappMessageId EXCEPT ![p] = thread[t].memo.message]
    BY <2>1, <2>2, <2>3, <2>5
  <2>6. QED
    BY <1>12, <2>4, <2>5 DEF Reassert
<1>13. ASSUME NEW t \in Thread, NEW p \in Pipeline, DeliveryQueued(t, p) PROVE LeadInv'
  BY <1>13 DEF DeliveryQueued
<1>14. ASSUME NEW t \in Thread, NEW p \in Pipeline, NotDeliverable(t, p) PROVE LeadInv'
  BY <1>14 DEF NotDeliverable
<1>15. ASSUME NEW t \in Thread, NEW p \in Pipeline, PolicyDenies(t, p) PROVE LeadInv'
  BY <1>15 DEF PolicyDenies, Sending, HasMessage
<1>16. ASSUME NEW t \in Thread, NEW p \in Pipeline, SyncReads(t, p) PROVE LeadInv'
  BY <1>16 DEF SyncReads
<1>17. ASSUME NEW t \in Thread, NEW p \in Pipeline, SyncDelivered(t, p) PROVE LeadInv'
  BY <1>17 DEF SyncDelivered
<1>18. ASSUME NEW t \in Thread, NEW p \in Pipeline, SyncDead(t, p) PROVE LeadInv'
  <2>1. \E c \in Cause : thread' = [thread EXCEPT ![t] = [pc |-> "fail", pitch |-> p, memo |-> c]]
    BY <1>18 DEF SyncDead
  <2>2. UNCHANGED <<rowVars, outsideVars, campaignVars, crashes>>
    BY <1>18 DEF SyncDead
  <2>3. QED
    BY <2>1, <2>2
<1>19. ASSUME NEW t \in Thread, NEW p \in Pipeline, SyncExpired(t, p) PROVE LeadInv'
  BY <1>19 DEF SyncExpired
<1>20. ASSUME NEW t \in Thread, NEW p \in Pipeline, SyncWaits(t, p) PROVE LeadInv'
  BY <1>20 DEF SyncWaits
<1>21. ASSUME NEW t \in Thread, NEW p \in Pipeline, Complete(t, p) PROVE LeadInv'
  BY <1>21 DEF Complete
<1>22. ASSUME NEW t \in Thread, NEW p \in Pipeline, Fail(t, p) PROVE LeadInv'
  BY <1>22 DEF Fail, IsFinal, Refund, Recorded
<1>23. ASSUME NEW t \in Thread, NEW p \in Pipeline, Retry(t, p) PROVE LeadInv'
  <2>1. PICK pc \in {"build", "request", "load"} : Goto(t, p, pc, Null)
    BY <1>23, ResumeGoes DEF Retry
  <2>2. QED
    BY <1>23, <2>1 DEF Retry
<1>24. ASSUME NEW t \in Thread, NEW p \in Pipeline, Requeue(t, p) PROVE LeadInv'
  BY <1>24 DEF Requeue
<1>25. ASSUME NEW t \in Thread, NEW p \in Pipeline, RetryRequeued(t, p) PROVE LeadInv'
  <2>1. CASE stage[p] = "FAILED"
    <3>1. PICK pc \in {"build", "request", "load"} : Goto(t, p, pc, Null)
      BY <1>25, <2>1, ResumeGoes DEF RetryRequeued
    <3>2. QED
      BY <1>25, <2>1, <3>1 DEF RetryRequeued
  <2>2. CASE stage[p] # "FAILED"
    BY <1>25, <2>2 DEF RetryRequeued
  <2>3. QED
    BY <2>1, <2>2
<1>26. ASSUME NEW t \in Thread, NEW p \in Pipeline, Recover(t, p) PROVE LeadInv'
  BY <1>26 DEF Recover
<1>27. ASSUME NEW t \in Thread, NEW p \in Pipeline, Release(t, p) PROVE LeadInv'
  BY <1>27 DEF Release
<1>28. ASSUME NEW t \in Thread, NEW p \in Pipeline, PauseReads(t, p) PROVE LeadInv'
  BY <1>28 DEF PauseReads
<1>29. ASSUME NEW t \in Thread, NEW p \in Pipeline, PauseCancels(t, p) PROVE LeadInv'
  BY <1>29 DEF PauseCancels, Cancelled, Becomes
<1>30. ASSUME NEW t \in Thread, NEW p \in Pipeline, PauseTooLate(t, p) PROVE LeadInv'
  BY <1>30 DEF PauseTooLate
<1>31. ASSUME NEW t \in Thread, NEW p \in Pipeline, PauseHolds(t, p) PROVE LeadInv'
  BY <1>31 DEF PauseHolds
<1>32. ASSUME NEW t \in Thread, NEW p \in Pipeline, NEW m \in Message, EnqueueMessage(t, p, m)
       PROVE  LeadInv'
  BY <1>32 DEF EnqueueMessage, Sending, HasMessage, Queued, Becomes
<1>33. ASSUME NEW t \in Thread, NEW p \in Pipeline, NEW q \in Pipeline, FailReplaced(t, p, q)
       PROVE  LeadInv'
  BY <1>33 DEF FailReplaced, Recorded
<1>34. ASSUME NEW t \in Thread, Crash(t) PROVE LeadInv'
  BY <1>34 DEF Crash
<1>35. ASSUME NEW p \in Pipeline, MarkDirectSent(p) PROVE LeadInv'
  BY <1>35 DEF MarkDirectSent
<1>36. ASSUME NEW m \in Message, MessageMoves(m) PROVE LeadInv'
  BY <1>36 DEF MessageMoves, Cancelled, Attempted, Reached, Sent, Failed, Blocked,
       Acknowledged, Becomes, Status
<1>37. ASSUME NEW paused \in BOOLEAN, SetPaused(paused) PROVE LeadInv'
  BY <1>37 DEF SetPaused
<1>38. CASE UNCHANGED vars
  BY <1>38 DEF vars
<1> HIDE DEF RowInv, LeadInv
<1>39. QED
  BY <1>1, <1>2, <1>3, <1>4, <1>5, <1>6, <1>7, <1>8, <1>9, <1>10, <1>11, <1>12, <1>13, <1>14,
       <1>15, <1>16, <1>17, <1>18, <1>19, <1>20, <1>21, <1>22, <1>23, <1>24, <1>25, <1>26,
       <1>27, <1>28, <1>29, <1>30, <1>31, <1>32, <1>33, <1>34, <1>35, <1>36, <1>37, <1>38 DEF
       Next, Begin, Step, Producing, Delivery, Syncing, Settling, Pausing

LEMMA LeadInvHolds == Spec => []LeadInv
<1>1. Init => LeadInv
  <2>1. ASSUME Init PROVE \A t \in Thread : thread[t].pc = "idle"
    BY <2>1 DEF Init, Idle
  <2>2. QED
    BY <2>1, PipelineAssumption DEF Init, LifeInit, LeadInv, ConsumedReachedLead, SentIsConsumed,
       Accepted, Outcome
<1>2. RowInv /\ LeadInv /\ [Next]_vars => LeadInv'
  BY LeadInvStep
<1>3. QED
  BY <1>1, <1>2, RowInvHolds, PTL DEF Spec

\* A pitch is shown as sent only if its credit was consumed.
THEOREM SentOnlyConsumed == Spec => []SentIsConsumed
<1>1. LeadInv => SentIsConsumed
  BY DEF LeadInv
<1>2. QED
  BY <1>1, LeadInvHolds, PTL

\* The credit of an automatic pitch is consumed only if its lead got a message.
THEOREM ConsumedOnlyReached == Spec => []ConsumedReachedLead
<1>1. LeadInv => ConsumedReachedLead
  BY DEF LeadInv
<1>2. QED
  BY <1>1, LeadInvHolds, PTL

-----------------------------------------------------------------------------
(* Failures and retries *)

\* Requests that will not return before they moved the row on, or failed it.
Committed(t) ==
  \/ thread[t].pc \in {"build", "publish", "request", "load", "queue", "retry", "fail"}
  \/ thread[t].pc = "deliver" /\ ~ thread[t].memo.inPlace

OpenFailure(p) == stage[p] = "FAILED" /\ creditOutcome[p] = Null /\ crashes = 0

Retriable(p) == failure[p].reason = "retry" /\ attempts[p] < MaxAttempts

Attended(p) == \E t \in Thread : thread[t].pitch = p /\ Committed(t)

RetryInv == \A p \in Pipeline : OpenFailure(p) => Retriable(p) \/ Attended(p)

\* A pitch that a step leaves alone keeps who attends to it.
LEMMA RetryInvKept ==
  ASSUME RetryInv, NEW p \in Pipeline,
         OpenFailure(p)' => OpenFailure(p),
         Retriable(p) => Retriable(p)',
         \A t \in Thread : (thread[t].pitch = p /\ Committed(t)) =>
                             (thread[t].pitch = p /\ Committed(t))'
  PROVE  OpenFailure(p)' => Retriable(p)' \/ Attended(p)'
<1>1. SUFFICES ASSUME OpenFailure(p)', ~ Retriable(p)'  PROVE Attended(p)'
  OBVIOUS
<1>2. PICK t \in Thread : thread[t].pitch = p /\ Committed(t)
  BY <1>1 DEF RetryInv, Attended
<1>3. QED
  BY <1>2 DEF Attended

\* As much of the types as the rest of this section needs.
Types ==
  /\ stage \in [Pipeline -> Stage] /\ failure \in [Pipeline -> Cause \cup {Null}]
  /\ attempts \in [Pipeline -> Nat] /\ creditOutcome \in [Pipeline -> {Null} \cup Outcome]
  /\ crashes \in Nat /\ DOMAIN thread = Thread
  /\ \A t \in Thread :
       /\ thread[t].pc = "fail" => thread[t].memo \in Cause
       /\ thread[t].pc = "deliver" => thread[t].memo \in Snapshot

LEMMA TypesHold == RowInv => Types
  BY PipelineAssumption DEF RowInv, TypeOK, Types, ThreadState, Idle

\* RetryInv is kept by every step.
LEMMA RetryInvStep == RowInv /\ RetryInv /\ [Next]_vars => RetryInv'
<1> SUFFICES ASSUME RowInv, RetryInv, [Next]_vars PROVE RetryInv'
  OBVIOUS
<1> Types /\ TypeOK
  BY TypesHold DEF RowInv
<1> USE PipelineAssumption DEF Types, RetryInv, Committed, OpenFailure, Retriable, Attended,
     Idle, Cause, Snapshot, Stage, Outcome,
      At, Goto, Return, FailWith, SetStage, Counted, OneMore,
      stageVars, linkVars, outsideVars, campaignVars, rowVars, lifeVars
<1>1. ASSUME NEW t \in Thread, NEW p \in Pipeline, Start(t, p) PROVE RetryInv'
  BY <1>1 DEF Start
<1>2. ASSUME NEW t \in Thread, NEW p \in Pipeline, Build(t, p) PROVE RetryInv'
  BY <1>2 DEF Build
<1>3. ASSUME NEW t \in Thread, NEW p \in Pipeline, Publish(t, p) PROVE RetryInv'
  BY <1>3 DEF Publish
<1>4. ASSUME NEW t \in Thread, NEW p \in Pipeline, BuildFails(t, p) PROVE RetryInv'
  BY <1>4 DEF BuildFails
<1>5. ASSUME NEW t \in Thread, NEW p \in Pipeline, RequestRecording(t, p) PROVE RetryInv'
  BY <1>5 DEF RequestRecording, Unused
<1>6. ASSUME NEW t \in Thread, NEW p \in Pipeline, NothingToRecord(t, p) PROVE RetryInv'
  BY <1>6 DEF NothingToRecord
<1>7. ASSUME NEW t \in Thread, NEW p \in Pipeline, Finished(t, p) PROVE RetryInv'
  <2> SUFFICES ASSUME NEW x \in Pipeline PROVE OpenFailure(x)' => Retriable(x)' \/ Attended(x)'
    BY DEF RetryInv
  <2>1. OpenFailure(x)' => OpenFailure(x)
    BY <1>7 DEF Finished
  <2>2. Retriable(x) => Retriable(x)'
    BY <1>7 DEF Finished
  <2>3. ASSUME NEW u \in Thread, thread[u].pitch = x, Committed(u)
        PROVE  (thread[u].pitch = x /\ Committed(u))'
    <3>1. u # t
      BY <1>7, <2>3 DEF Finished
    <3>2. thread'[u] = thread[u]
      BY <1>7, <3>1 DEF Finished
    <3>3. QED
      BY <2>3, <3>2
  <2> HIDE DEF RetryInv, OpenFailure, Retriable, Attended, Committed
  <2>4. QED
    BY <2>1, <2>2, <2>3, RetryInvKept
<1>8. ASSUME NEW t \in Thread, NEW p \in Pipeline, ClaimVideo(t, p) PROVE RetryInv'
  <2> SUFFICES ASSUME NEW x \in Pipeline, OpenFailure(x)' PROVE Retriable(x)' \/ Attended(x)'
    BY DEF RetryInv
  <2>1. stage[p] = "RECORDING" => x # p
    BY <1>8 DEF ClaimVideo
  <2>2. OpenFailure(x)
    BY <1>8, <2>1 DEF ClaimVideo
  <2>3. Retriable(x) => Retriable(x)'
    BY <1>8, <2>1 DEF ClaimVideo
  <2>4. ASSUME NEW u \in Thread, thread[u].pitch = x, Committed(u)
        PROVE  (thread[u].pitch = x /\ Committed(u))'
    BY <1>8, <2>1, <2>4 DEF ClaimVideo
  <2> HIDE DEF RetryInv, OpenFailure, Retriable, Attended, Committed
  <2>5. QED
    BY <2>2, <2>3, <2>4, RetryInvKept
<1>9. ASSUME NEW t \in Thread, NEW p \in Pipeline, Load(t, p) PROVE RetryInv'
  <2> SUFFICES ASSUME NEW x \in Pipeline, OpenFailure(x)' PROVE Retriable(x)' \/ Attended(x)'
    BY DEF RetryInv
  <2>1. stage[x] = "FAILED"
    BY <1>9 DEF Load
  <2>2. OpenFailure(x)
    BY <1>9, <2>1 DEF Load
  <2>3. Retriable(x) => Retriable(x)'
    BY <1>9, <2>1 DEF Load
  <2>4. ASSUME NEW u \in Thread, thread[u].pitch = x, Committed(u)
        PROVE  (thread[u].pitch = x /\ Committed(u))'
    <3>1. CASE u = t
      <4>1. x = p
        BY <1>9, <2>4, <3>1 DEF Load
      <4>2. thread'[u].pitch = p /\ thread'[u].pc = "deliver"
        BY <1>9, <3>1 DEF Load
      <4>22. ~ thread'[u].memo.inPlace
        BY <1>9, <2>1, <3>1, <4>1 DEF Load
      <4>3. QED
        BY <4>1, <4>2, <4>22
    <3>2. CASE u # t
      <4>1. thread'[u] = thread[u]
        BY <1>9, <3>2 DEF Load
      <4>2. QED
        BY <2>4, <4>1
    <3>3. QED
      BY ONLY <3>1, <3>2
  <2> HIDE DEF RetryInv, OpenFailure, Retriable, Attended, Committed
  <2>5. QED
    BY <2>2, <2>3, <2>4, RetryInvKept
<1>10. ASSUME NEW t \in Thread, NEW p \in Pipeline, Hold(t, p) PROVE RetryInv'
  BY <1>10 DEF Hold
<1>11. ASSUME NEW t \in Thread, NEW p \in Pipeline, LinkReady(t, p) PROVE RetryInv'
  BY <1>11 DEF LinkReady
<1>12. ASSUME NEW t \in Thread, NEW p \in Pipeline, Reassert(t, p) PROVE RetryInv'
  BY <1>12 DEF Reassert, Sending, HasMessage
<1>13. ASSUME NEW t \in Thread, NEW p \in Pipeline, DeliveryQueued(t, p) PROVE RetryInv'
  BY <1>13 DEF DeliveryQueued
<1>14. ASSUME NEW t \in Thread, NEW p \in Pipeline, NotDeliverable(t, p) PROVE RetryInv'
  BY <1>14 DEF NotDeliverable
<1>15. ASSUME NEW t \in Thread, NEW p \in Pipeline, PolicyDenies(t, p) PROVE RetryInv'
  BY <1>15 DEF PolicyDenies, Sending, HasMessage
<1>16. ASSUME NEW t \in Thread, NEW p \in Pipeline, SyncReads(t, p) PROVE RetryInv'
  BY <1>16 DEF SyncReads
<1>17. ASSUME NEW t \in Thread, NEW p \in Pipeline, SyncDelivered(t, p) PROVE RetryInv'
  BY <1>17 DEF SyncDelivered
<1>18. ASSUME NEW t \in Thread, NEW p \in Pipeline, SyncDead(t, p) PROVE RetryInv'
  BY <1>18 DEF SyncDead
<1>19. ASSUME NEW t \in Thread, NEW p \in Pipeline, SyncExpired(t, p) PROVE RetryInv'
  BY <1>19 DEF SyncExpired
<1>20. ASSUME NEW t \in Thread, NEW p \in Pipeline, SyncWaits(t, p) PROVE RetryInv'
  BY <1>20 DEF SyncWaits
<1>21. ASSUME NEW t \in Thread, NEW p \in Pipeline, Complete(t, p) PROVE RetryInv'
  BY <1>21 DEF Complete
<1>22. ASSUME NEW t \in Thread, NEW p \in Pipeline, Fail(t, p) PROVE RetryInv'
  <2> SUFFICES ASSUME NEW x \in Pipeline, OpenFailure(x)' PROVE Retriable(x)' \/ Attended(x)'
    BY DEF RetryInv
  <2>1. CASE x = p
    <3>1. ~ IsFinal(p, thread[t].memo.reason)
      BY <1>22, <2>1 DEF Fail, Refund
    <3>2. QED
      BY <1>22, <2>1, <3>1 DEF Fail, IsFinal, Recorded
  <2>2. CASE x # p
    <3>1. OpenFailure(x)
      BY <1>22, <2>2 DEF Fail, Refund
    <3>2. Retriable(x) => Retriable(x)'
      BY <1>22, <2>2 DEF Fail
    <3>3. ASSUME NEW u \in Thread, thread[u].pitch = x, Committed(u)
          PROVE  (thread[u].pitch = x /\ Committed(u))'
      BY <1>22, <2>2, <3>3 DEF Fail
    <3> HIDE DEF RetryInv, OpenFailure, Retriable, Attended, Committed
    <3>4. QED
      BY <3>1, <3>2, <3>3, RetryInvKept
  <2>3. QED
    BY ONLY <2>1, <2>2
<1>23. ASSUME NEW t \in Thread, NEW p \in Pipeline, Retry(t, p) PROVE RetryInv'
  <2>1. PICK pc \in {"build", "request", "load"} : Goto(t, p, pc, Null)
    BY <1>23, ResumeGoes DEF Retry
  <2>2. QED
    BY <1>23, <2>1 DEF Retry
<1>24. ASSUME NEW t \in Thread, NEW p \in Pipeline, Requeue(t, p) PROVE RetryInv'
  BY <1>24 DEF Requeue
<1>25. ASSUME NEW t \in Thread, NEW p \in Pipeline, RetryRequeued(t, p) PROVE RetryInv'
  <2>1. CASE stage[p] = "FAILED"
    <3>1. PICK pc \in {"build", "request", "load"} : Goto(t, p, pc, Null)
      BY <1>25, <2>1, ResumeGoes DEF RetryRequeued
    <3>2. QED
      BY <1>25, <2>1, <3>1 DEF RetryRequeued
  <2>2. CASE stage[p] # "FAILED"
    BY <1>25, <2>2 DEF RetryRequeued
  <2>3. QED
    BY <2>1, <2>2
<1>26. ASSUME NEW t \in Thread, NEW p \in Pipeline, Recover(t, p) PROVE RetryInv'
  <2> SUFFICES ASSUME NEW x \in Pipeline, OpenFailure(x)' PROVE Retriable(x)' \/ Attended(x)'
    BY DEF RetryInv
  <2>1. x # p
    BY <1>26 DEF Recover
  <2>2. OpenFailure(x)
    BY <1>26, <2>1 DEF Recover
  <2>3. Retriable(x) => Retriable(x)'
    BY <1>26, <2>1 DEF Recover
  <2>4. ASSUME NEW u \in Thread, thread[u].pitch = x, Committed(u)
        PROVE  (thread[u].pitch = x /\ Committed(u))'
    <3>1. u # t
      BY <1>26, <2>4 DEF Recover
    <3>2. thread'[u] = thread[u]
      BY <1>26, <3>1 DEF Recover
    <3>3. QED
      BY <2>4, <3>2
  <2> HIDE DEF RetryInv, OpenFailure, Retriable, Attended, Committed
  <2>5. QED
    BY <2>2, <2>3, <2>4, RetryInvKept
<1>27. ASSUME NEW t \in Thread, NEW p \in Pipeline, Release(t, p) PROVE RetryInv'
  BY <1>27 DEF Release
<1>28. ASSUME NEW t \in Thread, NEW p \in Pipeline, PauseReads(t, p) PROVE RetryInv'
  BY <1>28 DEF PauseReads
<1>29. ASSUME NEW t \in Thread, NEW p \in Pipeline, PauseCancels(t, p) PROVE RetryInv'
  BY <1>29 DEF PauseCancels, Cancelled, Becomes
<1>30. ASSUME NEW t \in Thread, NEW p \in Pipeline, PauseTooLate(t, p) PROVE RetryInv'
  BY <1>30 DEF PauseTooLate
<1>31. ASSUME NEW t \in Thread, NEW p \in Pipeline, PauseHolds(t, p) PROVE RetryInv'
  BY <1>31 DEF PauseHolds
<1>32. ASSUME NEW t \in Thread, NEW p \in Pipeline, NEW m \in Message, EnqueueMessage(t, p, m)
       PROVE  RetryInv'
  BY <1>32 DEF EnqueueMessage, Sending, HasMessage, Queued, Becomes
<1>33. ASSUME NEW t \in Thread, NEW p \in Pipeline, NEW q \in Pipeline, FailReplaced(t, p, q)
       PROVE  RetryInv'
  <2> SUFFICES ASSUME NEW x \in Pipeline, OpenFailure(x)' PROVE Retriable(x)' \/ Attended(x)'
    BY DEF RetryInv
  <2>1. x # p /\ x # q
    BY <1>33 DEF FailReplaced
  <2>2. OpenFailure(x)
    BY <1>33, <2>1 DEF FailReplaced
  <2>3. Retriable(x) => Retriable(x)'
    BY <1>33, <2>1 DEF FailReplaced
  <2>4. ASSUME NEW u \in Thread, thread[u].pitch = x, Committed(u)
        PROVE  (thread[u].pitch = x /\ Committed(u))'
    BY <1>33, <2>1, <2>4 DEF FailReplaced
  <2> HIDE DEF RetryInv, OpenFailure, Retriable, Attended, Committed
  <2>5. QED
    BY <2>2, <2>3, <2>4, RetryInvKept
<1>34. ASSUME NEW t \in Thread, Crash(t) PROVE RetryInv'
  BY <1>34 DEF Crash
<1>35. ASSUME NEW p \in Pipeline, MarkDirectSent(p) PROVE RetryInv'
  BY <1>35 DEF MarkDirectSent
<1>36. ASSUME NEW m \in Message, MessageMoves(m) PROVE RetryInv'
  BY <1>36 DEF MessageMoves, Cancelled, Attempted, Reached, Sent, Failed, Blocked,
       Acknowledged, Becomes, Status
<1>37. ASSUME NEW paused \in BOOLEAN, SetPaused(paused) PROVE RetryInv'
  BY <1>37 DEF SetPaused
<1>38. CASE UNCHANGED vars
  BY <1>38 DEF vars
<1> HIDE DEF RowInv, RetryInv
<1>39. QED
  BY <1>1, <1>2, <1>3, <1>4, <1>5, <1>6, <1>7, <1>8, <1>9, <1>10, <1>11, <1>12, <1>13, <1>14,
       <1>15, <1>16, <1>17, <1>18, <1>19, <1>20, <1>21, <1>22, <1>23, <1>24, <1>25, <1>26,
       <1>27, <1>28, <1>29, <1>30, <1>31, <1>32, <1>33, <1>34, <1>35, <1>36, <1>37, <1>38 DEF
       Next, Begin, Step, Producing, Delivery, Syncing, Settling, Pausing

LEMMA RetryInvHolds == Spec => []RetryInv
<1>1. Init => RetryInv
  BY DEF Init, RetryInv, OpenFailure
<1>2. RowInv /\ RetryInv /\ [Next]_vars => RetryInv'
  BY RetryInvStep
<1>3. QED
  BY <1>1, <1>2, RowInvHolds, PTL DEF Spec

\* What failPipeline leaves open, whoever dies, is a failure it means to retry.
ReasonInv ==
  \A p \in Pipeline :
    stage[p] = "FAILED" /\ creditOutcome[p] = Null => failure[p].reason = "retry"

\* ReasonInv is kept by every step: only failPipeline writes FAILED.
LEMMA ReasonInvStep == RowInv /\ ReasonInv /\ [Next]_vars => ReasonInv'
<1> SUFFICES ASSUME RowInv, ReasonInv, [Next]_vars PROVE ReasonInv'
  OBVIOUS
<1> Types
  BY TypesHold
<1> USE PipelineAssumption DEF Types, ReasonInv, SetStage, stageVars, linkVars, rowVars, Outcome
<1>1. ASSUME NEW t \in Thread, NEW p \in Pipeline, Start(t, p) \/ Finished(t, p)
             \/ SyncReads(t, p) \/ Retry(t, p) \/ Requeue(t, p) \/ Recover(t, p)
             \/ Release(t, p) \/ PauseReads(t, p)
      PROVE  ReasonInv'
  BY <1>1 DEF Start, Finished, SyncReads, Retry, Requeue, Recover, Release, PauseReads
<1>2. ASSUME NEW t \in Thread, NEW p \in Pipeline, Producing(t, p) PROVE ReasonInv'
  BY <1>2 DEF Producing, Build, Publish, BuildFails, RequestRecording, NothingToRecord, ClaimVideo
<1>3. ASSUME NEW t \in Thread, NEW p \in Pipeline, Delivery(t, p) PROVE ReasonInv'
  BY <1>3 DEF Delivery, Load, Hold, LinkReady, Reassert, EnqueueMessage, DeliveryQueued,
       NotDeliverable, PolicyDenies
<1>4. ASSUME NEW t \in Thread, NEW p \in Pipeline, Syncing(t, p) PROVE ReasonInv'
  BY <1>4 DEF Syncing, SyncDelivered, SyncDead, SyncExpired, SyncWaits, Complete
<1>5. ASSUME NEW t \in Thread, NEW p \in Pipeline, Fail(t, p) PROVE ReasonInv'
  <2>1. thread[t].memo \in Cause
    BY <1>5 DEF Fail, At
  <2>2. thread[t].memo.reason # "retry" => creditOutcome'[p] # Null
    BY <1>5 DEF Fail, IsFinal, Refund
  <2>3. thread[t].memo.reason = "retry" => failure'[p].reason = "retry"
    BY <1>5, <2>1 DEF Fail, Recorded, Cause
  <2>4. ASSUME NEW x \in Pipeline \ {p}
        PROVE  /\ stage'[x] = stage[x] /\ failure'[x] = failure[x]
               /\ creditOutcome'[x] = creditOutcome[x]
    BY <1>5 DEF Fail, Refund
  <2>5. QED
    BY <2>2, <2>3, <2>4
<1>6. ASSUME NEW t \in Thread, NEW p \in Pipeline, NEW q \in Pipeline, FailReplaced(t, p, q)
      PROVE  ReasonInv'
  BY <1>6 DEF FailReplaced
<1>7. ASSUME NEW t \in Thread, NEW p \in Pipeline, RetryRequeued(t, p) PROVE ReasonInv'
  BY <1>7 DEF RetryRequeued
<1>8. ASSUME NEW t \in Thread, NEW p \in Pipeline, Pausing(t, p) PROVE ReasonInv'
  BY <1>8 DEF Pausing, PauseCancels, PauseTooLate, PauseHolds
<1>9. ASSUME NEW t \in Thread, Crash(t) PROVE ReasonInv'
  BY <1>9 DEF Crash
<1>10. ASSUME NEW p \in Pipeline, MarkDirectSent(p) PROVE ReasonInv'
  BY <1>10 DEF MarkDirectSent
<1>11. ASSUME NEW m \in Message, MessageMoves(m) PROVE ReasonInv'
  BY <1>11 DEF MessageMoves
<1>12. ASSUME NEW paused \in BOOLEAN, SetPaused(paused) PROVE ReasonInv'
  BY <1>12 DEF SetPaused
<1>13. CASE UNCHANGED vars
  BY <1>13 DEF vars
<1> HIDE DEF RowInv, ReasonInv
<1>14. QED
  BY <1>1, <1>2, <1>3, <1>4, <1>5, <1>6, <1>7, <1>8, <1>9, <1>10, <1>11, <1>12, <1>13
     DEF Next, Begin, Step, Settling

\* A failure with its credit open has a reason that is retried; while no request
\* died, it has attempts left or somebody at work on it.
THEOREM OpenFailuresRetried == Spec => []OpenFailureIsRetried
<1>1. Init => ReasonInv
  BY DEF Init, ReasonInv
<1>2. RowInv /\ ReasonInv /\ [Next]_vars => ReasonInv'
  BY ReasonInvStep
<1>3. RowInv /\ RetryInv /\ ReasonInv => OpenFailureIsRetried
  BY PipelineAssumption DEF RowInv, TypeOK, RetryInv, ReasonInv, OpenFailure, Retriable, Attended,
       OpenFailureIsRetried
<1>4. QED
  BY <1>1, <1>2, <1>3, RowInvHolds, RetryInvHolds, PTL DEF Spec

-----------------------------------------------------------------------------
(* The credit *)

LEMMA CreditUnmoved ==
  ASSUME creditOutcome' = creditOutcome,
         \A p \in Pipeline : (stage'[p] = "NONE") <=> (stage[p] = "NONE")
  PROVE  Credit' = Credit
  BY DEF Credit

Moved == ThisCredit!CreditNext \/ Credit' = Credit

\* Every step settles or starts one credit as PitchCredit allows, or none.
LEMMA CreditStep == RowInv /\ [Next]_vars => Moved
<1> SUFFICES ASSUME RowInv, [Next]_vars PROVE Moved
  OBVIOUS
<1> USE PipelineAssumption DEF RowInv, Unborn, TypeOK, ThreadState, Idle,
      Cause, Stage, Outcome, At, Goto, Return, FailWith, SetStage, Counted,
      stageVars, linkVars, outsideVars, campaignVars, rowVars, lifeVars
<1>1. ASSUME NEW t \in Thread, NEW p \in Pipeline, Start(t, p) PROVE Moved
  <2>1. Credit' = [x \in Pipeline |-> IF x \in {p} THEN "open" ELSE Credit[x]]
    BY <1>1 DEF Start, Credit
  <2>2. Credit[p] = "unstarted"
    BY <1>1 DEF Start, Credit
  <2>3. ThisCredit!Started({p})
    BY <2>1, <2>2 DEF ThisCredit!Started
  <2>4. QED
    BY <2>3 DEF ThisCredit!CreditNext, Moved
<1>2. ASSUME NEW t \in Thread, NEW p \in Pipeline, Build(t, p) PROVE Credit' = Credit
  BY <1>2, CreditUnmoved DEF Build
<1>3. ASSUME NEW t \in Thread, NEW p \in Pipeline, Publish(t, p) PROVE Credit' = Credit
  BY <1>3, CreditUnmoved DEF Publish
<1>4. ASSUME NEW t \in Thread, NEW p \in Pipeline, BuildFails(t, p) PROVE Credit' = Credit
  BY <1>4, CreditUnmoved DEF BuildFails
<1>5. ASSUME NEW t \in Thread, NEW p \in Pipeline, RequestRecording(t, p) PROVE Credit' = Credit
  BY <1>5, CreditUnmoved DEF RequestRecording, Unused
<1>6. ASSUME NEW t \in Thread, NEW p \in Pipeline, NothingToRecord(t, p) PROVE Credit' = Credit
  BY <1>6, CreditUnmoved DEF NothingToRecord
<1>7. ASSUME NEW t \in Thread, NEW p \in Pipeline, Finished(t, p) PROVE Credit' = Credit
  BY <1>7, CreditUnmoved DEF Finished
<1>8. ASSUME NEW t \in Thread, NEW p \in Pipeline, ClaimVideo(t, p) PROVE Credit' = Credit
  BY <1>8, CreditUnmoved DEF ClaimVideo
<1>9. ASSUME NEW t \in Thread, NEW p \in Pipeline, Load(t, p) PROVE Credit' = Credit
  BY <1>9, CreditUnmoved DEF Load
<1>10. ASSUME NEW t \in Thread, NEW p \in Pipeline, Hold(t, p) PROVE Credit' = Credit
  BY <1>10, CreditUnmoved DEF Hold
<1>11. ASSUME NEW t \in Thread, NEW p \in Pipeline, LinkReady(t, p) PROVE Credit' = Credit
  BY <1>11, CreditUnmoved DEF LinkReady
<1>12. ASSUME NEW t \in Thread, NEW p \in Pipeline, Reassert(t, p) PROVE Credit' = Credit
  BY <1>12, CreditUnmoved DEF Reassert, Sending, HasMessage
<1>13. ASSUME NEW t \in Thread, NEW p \in Pipeline, DeliveryQueued(t, p) PROVE Credit' = Credit
  BY <1>13, CreditUnmoved DEF DeliveryQueued
<1>14. ASSUME NEW t \in Thread, NEW p \in Pipeline, NotDeliverable(t, p) PROVE Credit' = Credit
  BY <1>14, CreditUnmoved DEF NotDeliverable
<1>15. ASSUME NEW t \in Thread, NEW p \in Pipeline, PolicyDenies(t, p) PROVE Credit' = Credit
  BY <1>15, CreditUnmoved DEF PolicyDenies, Sending, HasMessage
<1>16. ASSUME NEW t \in Thread, NEW p \in Pipeline, SyncReads(t, p) PROVE Credit' = Credit
  BY <1>16, CreditUnmoved DEF SyncReads
<1>17. ASSUME NEW t \in Thread, NEW p \in Pipeline, SyncDelivered(t, p) PROVE Credit' = Credit
  BY <1>17, CreditUnmoved DEF SyncDelivered
<1>18. ASSUME NEW t \in Thread, NEW p \in Pipeline, SyncDead(t, p) PROVE Credit' = Credit
  BY <1>18, CreditUnmoved DEF SyncDead
<1>19. ASSUME NEW t \in Thread, NEW p \in Pipeline, SyncExpired(t, p) PROVE Credit' = Credit
  BY <1>19, CreditUnmoved DEF SyncExpired
<1>20. ASSUME NEW t \in Thread, NEW p \in Pipeline, SyncWaits(t, p) PROVE Credit' = Credit
  BY <1>20, CreditUnmoved DEF SyncWaits
<1>21. ASSUME NEW t \in Thread, NEW p \in Pipeline, Complete(t, p) PROVE Moved
  <2>1. CASE creditOutcome'[p] = "CONSUMED" /\ creditOutcome[p] = Null
    <3>1. /\ stage[p] = "DELIVERY_QUEUED" /\ stage' = [stage EXCEPT ![p] = "SENT"]
          /\ creditOutcome' = [creditOutcome EXCEPT ![p] = "CONSUMED"]
      BY <1>21, <2>1 DEF Complete
    <3>2. Credit[p] = "open" /\ Credit' = [Credit EXCEPT ![p] = "CONSUMED"]
      BY <2>1, <3>1 DEF Credit
    <3>3. QED
      BY <3>2 DEF ThisCredit!Consumed, ThisCredit!CreditNext, Moved
  <2>2. CASE UNCHANGED <<stage, creditOutcome>>
    BY <2>2, CreditUnmoved DEF Moved
  <2>3. QED
    BY <1>21, <2>1, <2>2 DEF Complete
<1>22. ASSUME NEW t \in Thread, NEW p \in Pipeline, Fail(t, p) PROVE Moved
  <2>1. CASE creditOutcome[p] = Null /\ creditOutcome' = [creditOutcome EXCEPT ![p] =
       "REFUNDED"]
    <3>1. Credit[p] = "open" /\ Credit' = [Credit EXCEPT ![p] = "REFUNDED"]
      BY <1>22, <2>1 DEF Fail, Credit
    <3>2. QED
      BY <3>1 DEF ThisCredit!Refunded, ThisCredit!CreditNext, Moved
  <2>2. CASE creditOutcome' = creditOutcome
    BY <1>22, <2>2, CreditUnmoved DEF Fail, Moved
  <2>3. QED
    BY <1>22, <2>1, <2>2 DEF Fail, Refund
<1>23. ASSUME NEW t \in Thread, NEW p \in Pipeline, Retry(t, p) PROVE Credit' = Credit
  BY <1>23, CreditUnmoved DEF Retry, Resume
<1>24. ASSUME NEW t \in Thread, NEW p \in Pipeline, Requeue(t, p) PROVE Credit' = Credit
  BY <1>24, CreditUnmoved DEF Requeue
<1>25. ASSUME NEW t \in Thread, NEW p \in Pipeline, RetryRequeued(t, p) PROVE Credit' = Credit
  BY <1>25, CreditUnmoved DEF RetryRequeued, Resume
<1>26. ASSUME NEW t \in Thread, NEW p \in Pipeline, Recover(t, p) PROVE Credit' = Credit
  BY <1>26, CreditUnmoved DEF Recover
<1>27. ASSUME NEW t \in Thread, NEW p \in Pipeline, Release(t, p) PROVE Credit' = Credit
  BY <1>27, CreditUnmoved DEF Release
<1>28. ASSUME NEW t \in Thread, NEW p \in Pipeline, PauseReads(t, p) PROVE Credit' = Credit
  BY <1>28, CreditUnmoved DEF PauseReads
<1>29. ASSUME NEW t \in Thread, NEW p \in Pipeline, PauseCancels(t, p) PROVE Credit' = Credit
  BY <1>29, CreditUnmoved DEF PauseCancels, Cancelled, Becomes
<1>30. ASSUME NEW t \in Thread, NEW p \in Pipeline, PauseTooLate(t, p) PROVE Credit' = Credit
  BY <1>30, CreditUnmoved DEF PauseTooLate
<1>31. ASSUME NEW t \in Thread, NEW p \in Pipeline, PauseHolds(t, p) PROVE Credit' = Credit
  BY <1>31, CreditUnmoved DEF PauseHolds
<1>32. ASSUME NEW t \in Thread, NEW p \in Pipeline, NEW m \in Message, EnqueueMessage(t, p, m)
       PROVE  Credit' = Credit
  BY <1>32, CreditUnmoved DEF EnqueueMessage, Sending, HasMessage, Queued, Becomes
<1>33. ASSUME NEW t \in Thread, NEW p \in Pipeline, NEW q \in Pipeline, FailReplaced(t, p, q)
       PROVE  Moved
  <2>1. p # q
    BY <1>33 DEF FailReplaced
  <2>2. Credit[p] = "open" /\ Credit[q] = "unstarted"
    BY <1>33, <2>1 DEF FailReplaced, Credit
  <2>3. Credit' = [Credit EXCEPT ![p] = "REPLACED", ![q] = "open"]
    BY <1>33, <2>1 DEF FailReplaced, Credit
  <2>4. QED
    BY <2>2, <2>3 DEF ThisCredit!Replaced, ThisCredit!CreditNext, Moved
<1>34. ASSUME NEW t \in Thread, Crash(t) PROVE Credit' = Credit
  BY <1>34, CreditUnmoved DEF Crash
<1>35. ASSUME NEW p \in Pipeline, MarkDirectSent(p) PROVE Moved
  <2>1. CASE creditOutcome'[p] = "CONSUMED" /\ creditOutcome[p] = Null
    <3>1. Credit[p] = "open" /\ Credit' = [Credit EXCEPT ![p] = "CONSUMED"]
      BY <1>35, <2>1 DEF MarkDirectSent, Credit
    <3>2. QED
      BY <3>1 DEF ThisCredit!Consumed, ThisCredit!CreditNext, Moved
  <2>2. CASE UNCHANGED <<stage, creditOutcome>>
    BY <2>2, CreditUnmoved DEF Moved
  <2>3. QED
    BY <1>35, <2>1, <2>2 DEF MarkDirectSent
<1>36. ASSUME NEW m \in Message, MessageMoves(m) PROVE Credit' = Credit
  BY <1>36, CreditUnmoved DEF MessageMoves, Cancelled, Attempted, Reached, Sent, Failed,
       Blocked, Acknowledged, Becomes, Status
<1>37. ASSUME NEW paused \in BOOLEAN, SetPaused(paused) PROVE Credit' = Credit
  BY <1>37, CreditUnmoved DEF SetPaused
<1>38. ASSUME UNCHANGED vars PROVE Credit' = Credit
  <2>1. UNCHANGED <<stage, creditOutcome>>
    BY <1>38 DEF vars
  <2>2. QED
    BY <2>1, CreditUnmoved
<1> HIDE DEF RowInv, Credit
<1>39. QED
  BY <1>1, <1>2, <1>3, <1>4, <1>5, <1>6, <1>7, <1>8, <1>9, <1>10, <1>11, <1>12, <1>13, <1>14,
       <1>15, <1>16, <1>17, <1>18, <1>19, <1>20, <1>21, <1>22, <1>23, <1>24, <1>25, <1>26,
       <1>27, <1>28, <1>29, <1>30, <1>31, <1>32, <1>33, <1>34, <1>35, <1>36, <1>37, <1>38 DEF
       Moved, Next, Begin, Step, Producing, Delivery, Syncing, Settling, Pausing

\* The pipeline settles every credit once and for good.
THEOREM PipelineImplementsCredit == Spec => ImplementsPitchCredit
<1>1. Init => ThisCredit!CreditInit
  BY DEF Init, ThisCredit!CreditInit, Credit
<1>2. RowInv /\ [Next]_vars => [ThisCredit!CreditNext]_Credit
  BY CreditStep DEF Moved
<1>3. QED
  BY <1>1, <1>2, RowInvHolds, PTL DEF Spec, ImplementsPitchCredit, ThisCredit!CreditSpec

=============================================================================
