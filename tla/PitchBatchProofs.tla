-------------------------- MODULE PitchBatchProofs --------------------------
(* Proofs about batches and their pitches: the selection and resolution of  *)
(* pitches is a correct use of the credit engine (it implements             *)
(* PitchWallet), an outcome is final and agrees with the ledger, and every  *)
(* open pitch is backed by a reserved credit of its batch.                  *)
EXTENDS PitchBatch, PitchWalletProofs, FiniteSetTheorems

-----------------------------------------------------------------------------
(* The rows refer to each other properly *)

RowsTypeOK ==
  /\ batch \in [Batch -> BatchRow]
  /\ pipeline \in [Pipeline -> PipelineRow]
  /\ call \in [Batch -> Call]

\* Requests whose first transaction committed: exactly those have a batch row.
Committed == {"reserved", "started", "done", "dead"}

RowsLinked ==
  /\ \A b \in Batch :
       /\ call[b].pc # "idle" => /\ call[b].campaign \in Campaign
                                 /\ call[b].requested \in 1..MaxRequest
                                 /\ Cardinality(call[b].candidates) <= call[b].requested
       /\ call[b].started \subseteq call[b].candidates
       /\ call[b].pc \in Committed => /\ batch[b].status # "NONE"
                                      /\ batch[b].campaign = call[b].campaign
                                      /\ batch[b].requested = call[b].requested
       /\ batch[b].status # "NONE" => call[b].pc \in Committed
  /\ \A p \in Pipeline :
       /\ pipeline[p].batch # Null => call[pipeline[p].batch].pc \in Committed
       /\ pipeline[p].batch = Null => pipeline[p].outcome = "none"

RowInv == RowsTypeOK /\ RowsLinked

\* Sets of leads are finite, so they can be counted.
LEMMA LeadsFinite ==
  ASSUME NEW S \in SUBSET Pipeline
  PROVE  IsFiniteSet(S) /\ Cardinality(S) \in Nat
  BY BatchAssumption, FS_Subset, FS_CardinalityType

\* A campaign never has more slots than the largest request.
LEMMA SlotsBounded ==
  ASSUME NEW c \in Campaign
  PROVE  RemainingSlots(c) \in 0..MaxRequest
<1>1. TargetCount[c] \in 0..MaxRequest /\ MaxRequest \in Nat
  BY BatchAssumption, WalletAssumption
<1>2. Cardinality(Selected(c)) \in Nat
  BY LeadsFinite DEF Selected
<1> QED  BY <1>1, <1>2 DEF RemainingSlots

LEMMA RowInit == Init => RowInv
  BY LeadsFinite DEF Init, RowInv, RowsTypeOK, RowsLinked, BatchRow, PipelineRow, Call,
                     Outcome, Committed

\* The reads of a request pick what RowsLinked says of a call.
LEMMA PickedStep ==
  ASSUME RowInv, NEW b \in Batch, NEW c \in Campaign,
         SelectLeads(b, c) \/ AutoSelectLeads(b, c)
  PROVE  RowInv'
<1>1. PICK requested \in 1..MaxRequest, leads \in SUBSET Pipeline :
        /\ Cardinality(leads) <= requested
        /\ Picked(b, c, requested, leads)
  <2>1. CASE SelectLeads(b, c)
    <3>1. PICK leads \in (SUBSET Selectable(c)) \ {{}} :
            /\ Cardinality(leads) <= RemainingSlots(c)
            /\ Picked(b, c, Cardinality(leads), leads)
      BY <2>1 DEF SelectLeads
    <3>2. leads \in SUBSET Pipeline /\ leads # {}
      BY DEF Selectable
    <3>3. Cardinality(leads) \in Nat /\ Cardinality(leads) # 0
      BY <3>2, LeadsFinite, FS_EmptySet
    <3>4. Cardinality(leads) \in 1..MaxRequest
      BY <3>1, <3>3, SlotsBounded, WalletAssumption
    <3> QED  BY <3>1, <3>2, <3>3, <3>4
  <2>2. CASE AutoSelectLeads(b, c)
    <3>1. PICK requested \in 1..RemainingSlots(c), leads \in SUBSET Selectable(c) :
            /\ Cardinality(leads) <= requested
            /\ Picked(b, c, requested, leads)
      BY <2>2 DEF AutoSelectLeads
    <3>2. requested \in 1..MaxRequest /\ leads \in SUBSET Pipeline
      BY <3>1, SlotsBounded, WalletAssumption DEF Selectable
    <3> QED  BY <3>1, <3>2
  <2> QED  BY <2>1, <2>2
<1>2. requested \in Nat
  BY WalletAssumption
<1>3. UNCHANGED <<batch, pipeline>> /\ call[b].pc = "idle"
        /\ call' = [call EXCEPT ![b] =
             [pc |-> "selected", campaign |-> c, requested |-> requested,
              candidates |-> leads, started |-> {}]]
  BY <1>1 DEF Picked
<1>4. call' \in [Batch -> Call]
  BY <1>1, <1>2, <1>3 DEF RowInv, RowsTypeOK, Call
<1>5. RowsTypeOK'
  BY <1>3, <1>4 DEF RowInv, RowsTypeOK
<1>6. \A x \in Batch : call'[x] = IF x = b
        THEN [pc |-> "selected", campaign |-> c, requested |-> requested,
              candidates |-> leads, started |-> {}] ELSE call[x]
  BY <1>3 DEF RowInv, RowsTypeOK
<1>7. batch[b].status = "NONE" /\ \A p \in Pipeline : pipeline[p].batch # b
  BY <1>3, BatchAssumption DEF RowInv, RowsLinked, Committed
<1>8. \A p \in Pipeline : pipeline[p].batch \in Batch \cup {Null}
  BY DEF RowInv, RowsTypeOK, PipelineRow
<1>9. RowsLinked'
  BY <1>1, <1>2, <1>3, <1>6, <1>7, <1>8 DEF RowInv, RowsLinked, Committed
<1> QED  BY <1>5, <1>9 DEF RowInv

\* The commits of a request keep its row and its call in step.
LEMMA ReserveStep ==
  ASSUME RowInv, NEW b \in Batch, ReserveBatch(b) \/ InsufficientCredits(b)
  PROVE  RowInv'
<1>0. /\ batch \in [Batch -> BatchRow] /\ pipeline \in [Pipeline -> PipelineRow]
      /\ call \in [Batch -> Call] /\ RowsLinked
  BY DEF RowInv, RowsTypeOK
<1>1. CASE ReserveBatch(b)
  <2>1. /\ call[b].pc = "selected" /\ UNCHANGED pipeline
        /\ call' = [call EXCEPT ![b].pc = "reserved"]
        /\ batch' = [batch EXCEPT ![b] =
             [status |-> "PROCESSING", campaign |-> call[b].campaign,
              requested |-> call[b].requested, reserved |-> 0,
              sent |-> 0, failed |-> 0, replaced |-> 0]]
    BY <1>1 DEF ReserveBatch
  <2>2. RowsTypeOK'
    <3>1. batch' \in [Batch -> BatchRow]
      BY <1>0, <2>1 DEF BatchRow, Call
    <3>2. call' \in [Batch -> Call]
      BY <1>0, <2>1 DEF Call
    <3> QED  BY <1>0, <2>1, <3>1, <3>2 DEF RowsTypeOK
  <2>3. RowsLinked'
    <3>1. /\ call'[b].pc = "reserved" /\ call'[b].campaign = call[b].campaign
          /\ call'[b].requested = call[b].requested /\ call'[b].candidates = call[b].candidates
          /\ call'[b].started = call[b].started
      BY <1>0, <2>1 DEF Call
    <3>2. /\ batch'[b].status = "PROCESSING" /\ batch'[b].campaign = call[b].campaign
          /\ batch'[b].requested = call[b].requested
      BY <1>0, <2>1
    <3>3. \A c \in Batch : c # b => call'[c] = call[c] /\ batch'[c] = batch[c]
      BY <1>0, <2>1
    <3>4. \A c \in Batch : call[c].pc \in Committed => call'[c].pc \in Committed
      BY <3>1, <3>3 DEF Committed
    <3>5. \A p \in Pipeline : pipeline[p].batch \in Batch \cup {Null}
      BY <1>0 DEF PipelineRow
    <3> QED  BY <1>0, <2>1, <3>1, <3>2, <3>3, <3>4, <3>5 DEF RowsLinked, Committed
  <2> QED  BY <2>2, <2>3 DEF RowInv
<1>2. CASE InsufficientCredits(b)
  <2>1. /\ call[b].pc = "selected" /\ UNCHANGED <<batch, pipeline>>
        /\ call' = [call EXCEPT ![b].pc = "rejected"]
    BY <1>2 DEF InsufficientCredits
  <2>2. RowsTypeOK'
    BY <1>0, <2>1 DEF RowsTypeOK, Call
  <2>3. RowsLinked'
    BY <1>0, <2>1 DEF RowsLinked, Committed, Call, PipelineRow
  <2> QED  BY <2>2, <2>3 DEF RowInv
<1> QED  BY <1>1, <1>2

LEMMA StartStep ==
  ASSUME RowInv, NEW b \in Batch, StartPipelines(b)
  PROVE  RowInv'
<1>0. /\ batch \in [Batch -> BatchRow] /\ pipeline \in [Pipeline -> PipelineRow]
      /\ call \in [Batch -> Call] /\ RowsLinked
  BY DEF RowInv, RowsTypeOK
<1>1. PICK claimable \in SUBSET call[b].candidates :
        LET started == {p \in claimable : pipeline[p].batch = Null} IN
        /\ call[b].pc = "reserved"
        /\ pipeline' = [p \in Pipeline |->
             IF p \in started THEN [pipeline[p] EXCEPT !.batch = b] ELSE pipeline[p]]
        /\ call' = [call EXCEPT ![b] = [call[b] EXCEPT !.pc = "started", !.started = started]]
        /\ UNCHANGED <<walletVars, batch>>
  BY DEF StartPipelines
<1> DEFINE started == {p \in claimable : pipeline[p].batch = Null}
<1>2. started \subseteq call[b].candidates /\ started \in SUBSET Pipeline
  BY <1>0 DEF Call
<1>3. call' \in [Batch -> Call]
  <2>1. call[b] \in Call
    BY <1>0
  <2>2. [call[b] EXCEPT !.pc = "started", !.started = started] \in Call
    BY <1>2, <2>1 DEF Call
  <2> QED  BY <1>0, <1>1, <2>2
<1>4. pipeline' \in [Pipeline -> PipelineRow]
  <2>1. \A p \in Pipeline : [pipeline[p] EXCEPT !.batch = b] \in PipelineRow
    BY <1>0 DEF PipelineRow
  <2> QED  BY <1>0, <1>1, <2>1
<1>5. RowsTypeOK'
  BY <1>0, <1>1, <1>3, <1>4 DEF RowsTypeOK
<1>6. \A x \in Batch : /\ call'[x].campaign = call[x].campaign
                       /\ call'[x].requested = call[x].requested
                       /\ call'[x].candidates = call[x].candidates
                       /\ call'[x].pc = IF x = b THEN "started" ELSE call[x].pc
                       /\ call'[x].started = IF x = b THEN started ELSE call[x].started
  BY <1>0, <1>1 DEF Call
<1>7. \A p \in Pipeline : /\ pipeline'[p].batch = IF p \in started THEN b ELSE pipeline[p].batch
                          /\ pipeline'[p].outcome = pipeline[p].outcome
                          /\ pipeline[p].batch \in Batch \cup {Null}
  BY <1>0, <1>1 DEF PipelineRow
<1>8. RowsLinked'
  BY <1>0, <1>1, <1>2, <1>6, <1>7, BatchAssumption DEF RowsLinked, Committed
<1> QED  BY <1>5, <1>8 DEF RowInv

LEMMA FinishStep ==
  ASSUME RowInv, NEW b \in Batch,
         RecordStarted(b) \/ CallCrashed(b) \/ RecoverStaleBatch(b)
  PROVE  RowInv'
<1>0. /\ batch \in [Batch -> BatchRow] /\ pipeline \in [Pipeline -> PipelineRow]
      /\ call \in [Batch -> Call] /\ RowsLinked
  BY DEF RowInv, RowsTypeOK
<1>1. CASE RecordStarted(b)
  <2> DEFINE actual == Cardinality(call[b].started)
  <2>1. /\ call[b].pc = "started" /\ UNCHANGED pipeline
        /\ call' = [call EXCEPT ![b].pc = "done"]
        /\ batch' = [batch EXCEPT ![b] =
             [batch[b] EXCEPT !.reserved = actual,
                              !.status = IF actual = 0 THEN "COMPLETED" ELSE batch[b].status]]
    BY <1>1 DEF RecordStarted
  <2>2. actual \in Nat
    BY <1>0, LeadsFinite DEF Call
  <2> HIDE DEF actual
  <2>3. RowsTypeOK'
    <3>1. PICK s \in {"COMPLETED", batch[b].status} :
            batch' = [batch EXCEPT ![b] = [batch[b] EXCEPT !.reserved = actual, !.status = s]]
      BY <2>1
    <3>2. [batch[b] EXCEPT !.reserved = actual, !.status = s] \in BatchRow
      BY <1>0, <2>2 DEF BatchRow
    <3>3. call' \in [Batch -> Call]
      BY <1>0, <2>1 DEF Call
    <3> QED  BY <1>0, <2>1, <3>1, <3>2, <3>3 DEF RowsTypeOK
  <2>4. RowsLinked'
    BY <1>0, <2>1 DEF RowsLinked, Committed, Call, PipelineRow, BatchRow
  <2> QED  BY <2>3, <2>4 DEF RowInv
<1>2. CASE CallCrashed(b)
  <2>1. /\ call[b].pc \in {"reserved", "started"} /\ UNCHANGED <<batch, pipeline>>
        /\ call' = [call EXCEPT ![b].pc = "dead"]
    BY <1>2 DEF CallCrashed
  <2>2. RowsTypeOK'
    BY <1>0, <2>1 DEF RowsTypeOK, Call
  <2>3. RowsLinked'
    BY <1>0, <2>1 DEF RowsLinked, Committed, Call, PipelineRow
  <2> QED  BY <2>2, <2>3 DEF RowInv
<1>3. CASE RecoverStaleBatch(b)
  <2>1. /\ batch' = [batch EXCEPT ![b].status = "COMPLETED"] /\ call[b].pc = "dead"
        /\ UNCHANGED <<pipeline, call>>
    BY <1>3 DEF RecoverStaleBatch
  <2>2. RowsTypeOK'
    BY <1>0, <2>1 DEF RowsTypeOK, BatchRow
  <2>3. RowsLinked'
    BY <1>0, <2>1 DEF RowsLinked, Committed, BatchRow
  <2> QED  BY <2>2, <2>3 DEF RowInv
<1> QED  BY <1>1, <1>2, <1>3

\* A pitch that resolves was started, so its batch has a row.
LEMMA UnresolvedBatch ==
  ASSUME RowInv, NEW p \in Pipeline, Unresolved(p)
  PROVE  /\ pipeline[p].batch \in Batch
         /\ batch[pipeline[p].batch].status # "NONE"
         /\ batch[pipeline[p].batch].campaign \in Campaign
         /\ Owner(pipeline[p].batch) \in User
<1>1. pipeline[p].batch \in Batch /\ call[pipeline[p].batch].pc \in Committed
  BY DEF RowInv, RowsTypeOK, RowsLinked, PipelineRow, Unresolved
<1>2. /\ batch[pipeline[p].batch].status # "NONE"
      /\ batch[pipeline[p].batch].campaign \in Campaign
  BY <1>1 DEF RowInv, RowsLinked, Committed
<1> QED  BY <1>1, <1>2, BatchAssumption DEF Owner

\* Counting an outcome changes counters and a status that was PROCESSING.
LEMMA CountOutcomeStep ==
  ASSUME RowInv, NEW b \in Batch, NEW sent \in Nat, NEW failed \in Nat,
         batch[b].status # "NONE", CountOutcome(b, sent, failed)
  PROVE  /\ batch' \in [Batch -> BatchRow]
         /\ \A x \in Batch : /\ batch'[x].campaign = batch[x].campaign
                             /\ batch'[x].requested = batch[x].requested
                             /\ batch'[x].reserved = batch[x].reserved
                             /\ batch'[x].status = "NONE" <=> batch[x].status = "NONE"
                             /\ x # b => batch'[x] = batch[x]
                             /\ batch'[x].status = "PROCESSING" =>
                                  batch[x].status = "PROCESSING"
<1>0. batch \in [Batch -> BatchRow]
  BY DEF RowInv, RowsTypeOK
<1>1. CASE batch[b].status # "PROCESSING"
  BY <1>0, <1>1 DEF CountOutcome
<1>2. CASE batch[b].status = "PROCESSING"
  <2>1. PICK s \in {"COMPLETED", "PROCESSING"} :
          batch' = [batch EXCEPT ![b] =
            [batch[b] EXCEPT !.sent = batch[b].sent + sent,
                             !.failed = batch[b].failed + failed, !.status = s]]
    BY <1>2 DEF CountOutcome
  <2>2. [batch[b] EXCEPT !.sent = batch[b].sent + sent,
                         !.failed = batch[b].failed + failed, !.status = s] \in BatchRow
    <3>1. batch[b].sent + sent \in Nat /\ batch[b].failed + failed \in Nat
      BY <1>0 DEF BatchRow
    <3> QED  BY <1>0, <3>1 DEF BatchRow
  <2>3. batch' \in [Batch -> BatchRow]
    BY <1>0, <2>1, <2>2
  <2>4. \A x \in Batch \ {b} : batch'[x] = batch[x]
    BY <1>0, <2>1
  <2>5. /\ batch'[b].campaign = batch[b].campaign
        /\ batch'[b].requested = batch[b].requested
        /\ batch'[b].reserved = batch[b].reserved
        /\ batch'[b].status = s
    BY <1>0, <2>1 DEF BatchRow
  <2> QED  BY <1>2, <2>3, <2>4, <2>5
<1> QED  BY <1>1, <1>2

LEMMA ResolveStep ==
  ASSUME RowInv, NEW p \in Pipeline, ConsumeCredit(p) \/ RefundCredit(p)
  PROVE  RowInv'
<1> DEFINE b == pipeline[p].batch
<1>0. /\ batch \in [Batch -> BatchRow] /\ pipeline \in [Pipeline -> PipelineRow]
      /\ call \in [Batch -> Call] /\ RowsLinked
  BY DEF RowInv, RowsTypeOK
<1>1. PICK o \in {"CONSUMED", "REFUNDED"} :
        /\ Unresolved(p) /\ UNCHANGED call
        /\ pipeline' = [pipeline EXCEPT ![p].outcome = o]
        /\ CountOutcome(b, 1, 0) \/ CountOutcome(b, 0, 1)
  BY DEF ConsumeCredit, RefundCredit
<1>2. b \in Batch /\ batch[b].status # "NONE"
  BY <1>1, UnresolvedBatch
<1>3. /\ batch' \in [Batch -> BatchRow]
      /\ \A x \in Batch : /\ batch'[x].campaign = batch[x].campaign
                          /\ batch'[x].requested = batch[x].requested
                          /\ batch'[x].status = "NONE" <=> batch[x].status = "NONE"
  <2>1. CASE CountOutcome(b, 1, 0)
    BY <1>2, <2>1, CountOutcomeStep
  <2>2. CASE CountOutcome(b, 0, 1)
    BY <1>2, <2>2, CountOutcomeStep
  <2> QED  BY <1>1, <2>1, <2>2
<1>4. pipeline' \in [Pipeline -> PipelineRow]
  BY <1>0, <1>1 DEF PipelineRow, Outcome
<1>5. \A r \in Pipeline : /\ pipeline'[r].batch = pipeline[r].batch
                          /\ pipeline'[r].outcome = IF r = p THEN o ELSE pipeline[r].outcome
  BY <1>0, <1>1 DEF PipelineRow
<1>6. RowsLinked'
  BY <1>0, <1>1, <1>3, <1>5 DEF RowsLinked, Unresolved
<1> QED  BY <1>0, <1>1, <1>3, <1>4, <1>6 DEF RowInv, RowsTypeOK

LEMMA ReplaceStep ==
  ASSUME RowInv, NEW p \in Pipeline, NEW q \in Pipeline, ReplaceCredit(p, q)
  PROVE  RowInv'
<1> DEFINE b == pipeline[p].batch
<1>0. /\ batch \in [Batch -> BatchRow] /\ pipeline \in [Pipeline -> PipelineRow]
      /\ call \in [Batch -> Call] /\ RowsLinked
  BY DEF RowInv, RowsTypeOK
<1>1. /\ Unresolved(p) /\ pipeline[q].batch = Null /\ p # q /\ UNCHANGED call
      /\ pipeline' = [pipeline EXCEPT
           ![p] = [pipeline[p] EXCEPT !.outcome = "REPLACED", !.replacedBy = q],
           ![q] = [pipeline[q] EXCEPT !.batch = b]]
      /\ batch' = IF batch[b].status # "PROCESSING" THEN batch
                  ELSE [batch EXCEPT ![b].replaced = batch[b].replaced + 1]
  BY DEF ReplaceCredit, Selectable, Unresolved
<1>2. b \in Batch /\ batch[b].status # "NONE"
  BY <1>1, UnresolvedBatch
<1>3. /\ batch' \in [Batch -> BatchRow]
      /\ \A x \in Batch : /\ batch'[x].campaign = batch[x].campaign
                          /\ batch'[x].requested = batch[x].requested
                          /\ batch'[x].status = batch[x].status
  BY <1>0, <1>1, <1>2 DEF BatchRow
<1>4. pipeline' \in [Pipeline -> PipelineRow]
  <2>1. /\ [pipeline[p] EXCEPT !.outcome = "REPLACED", !.replacedBy = q] \in PipelineRow
        /\ [pipeline[q] EXCEPT !.batch = b] \in PipelineRow
    BY <1>0, <1>2 DEF PipelineRow, Outcome
  <2> QED  BY <1>0, <1>1, <2>1
<1>5. \A r \in Pipeline : /\ pipeline'[r].batch = IF r = q THEN b ELSE pipeline[r].batch
                          /\ pipeline'[r].outcome = IF r = p THEN "REPLACED"
                                                    ELSE pipeline[r].outcome
  BY <1>0, <1>1 DEF PipelineRow
<1>6. RowsLinked'
  BY <1>0, <1>1, <1>2, <1>3, <1>5, BatchAssumption DEF RowsLinked, Unresolved
<1> QED  BY <1>0, <1>1, <1>3, <1>4, <1>6 DEF RowInv, RowsTypeOK

LEMMA RowStep == RowInv /\ [Next]_batchVars => RowInv'
<1> SUFFICES ASSUME RowInv, [Next]_batchVars PROVE RowInv'
  OBVIOUS
<1>1. CASE Granting
  BY <1>1 DEF Granting, RowInv, RowsTypeOK, RowsLinked
<1>2. ASSUME NEW b \in Batch, Selecting(b) PROVE RowInv'
  BY <1>2, PickedStep, ReserveStep, StartStep, FinishStep DEF Selecting
<1>3. ASSUME NEW p \in Pipeline, Resolving(p) PROVE RowInv'
  BY <1>3, ResolveStep, ReplaceStep DEF Resolving
<1>4. CASE UNCHANGED batchVars
  BY <1>4 DEF batchVars, RowInv, RowsTypeOK, RowsLinked
<1> QED  BY <1>1, <1>2, <1>3, <1>4 DEF Next

-----------------------------------------------------------------------------
(* A correct client of the credit engine *)

\* Every step of the batches is a step of the wallet service or leaves it be.
LEMMA StepIsWalletStep ==
  ASSUME RowInv, [Next]_batchVars
  PROVE  [WalletNext]_walletVars
<1>0. /\ call \in [Batch -> Call] /\ RowsLinked
  BY DEF RowInv, RowsTypeOK
<1>1. ASSUME NEW b \in Batch, ReserveBatch(b) PROVE WalletNext
  <2>1. call[b].campaign \in Campaign /\ call[b].requested \in 1..MaxRequest
    BY <1>0, <1>1 DEF ReserveBatch, RowsLinked
  <2>2. CampaignUser[call[b].campaign] \in User
    BY <2>1, BatchAssumption
  <2> QED  BY <1>1, <2>1, <2>2 DEF ReserveBatch, WalletNext
<1>2. ASSUME NEW b \in Batch, RecordStarted(b) PROVE [WalletNext]_walletVars
  <2> DEFINE shortfall == call[b].requested - Cardinality(call[b].started)
  <2>1. /\ call[b].pc = "started"
        /\ IF shortfall > 0 THEN ReleasePitchCredits(Owner(b), b, shortfall, "release")
                            ELSE UNCHANGED walletVars
    BY <1>2 DEF RecordStarted
  <2>2. call[b].requested \in 1..MaxRequest /\ Owner(b) \in User
    BY <1>0, <2>1, BatchAssumption DEF RowsLinked, Committed, Owner
  <2>3. Cardinality(call[b].started) \in Nat
    BY <1>0, LeadsFinite DEF Call
  <2>4. shortfall > 0 => shortfall \in 1..MaxRequest
    BY <2>2, <2>3, WalletAssumption
  <2> HIDE DEF shortfall
  <2> QED  BY <2>1, <2>2, <2>4 DEF WalletNext
<1>3. ASSUME NEW b \in Batch, RecoverStaleBatch(b) PROVE WalletNext
  <2>1. batch[b].requested \in 1..MaxRequest /\ Owner(b) \in User
    BY <1>0, <1>3, BatchAssumption DEF RecoverStaleBatch, RowsLinked, Committed, Owner
  <2> QED  BY <1>3, <2>1 DEF RecoverStaleBatch, WalletNext
<1>4. ASSUME NEW p \in Pipeline, ConsumeCredit(p) \/ RefundCredit(p) PROVE WalletNext
  <2>1. pipeline[p].batch \in Batch /\ Owner(pipeline[p].batch) \in User
    BY <1>4, UnresolvedBatch DEF ConsumeCredit, RefundCredit
  <2>2. \E type \in Resolution :
          ResolveReservedCredit(Owner(pipeline[p].batch), pipeline[p].batch, p, type)
    BY <1>4 DEF ConsumeCredit, RefundCredit, Resolution
  <2> QED  BY <2>1, <2>2 DEF WalletNext
<1>5. CASE Granting
  BY <1>5 DEF Granting, WalletNext
<1>6. ASSUME NEW b \in Batch, Selecting(b) PROVE [WalletNext]_walletVars
  BY <1>1, <1>2, <1>3, <1>6 DEF Selecting, SelectLeads, AutoSelectLeads, Picked,
       InsufficientCredits, StartPipelines, CallCrashed, walletVars
<1>7. ASSUME NEW p \in Pipeline, Resolving(p) PROVE [WalletNext]_walletVars
  BY <1>4, <1>7 DEF Resolving, ReplaceCredit
<1>8. CASE UNCHANGED batchVars
  BY <1>8 DEF batchVars
<1> QED  BY <1>5, <1>6, <1>7, <1>8 DEF Next

\* Selection, recovery and resolution use the credit engine only through its
\* operations: what is proved of the engine holds of the whole.
THEOREM BatchImplementsWallet == Spec => WalletSpec
<1>1. Init => WalletInit
  BY DEF Init
<1>2. RowInv /\ [Next]_batchVars => [WalletNext]_walletVars
  BY StepIsWalletStep
<1> QED  BY <1>1, <1>2, RowInit, RowStep, PTL DEF Spec, WalletSpec

\* The type invariant of the batches, with spendable credits never negative
\* whatever requests race for them.
THEOREM TypeCorrect == Spec => []TypeOK
<1>1. RowInv /\ WalletTypeOK => TypeOK
  BY DEF RowInv, RowsTypeOK, TypeOK
<1> QED  BY <1>1, RowInit, RowStep, BatchImplementsWallet, WalletTypeCorrect, PTL DEF Spec

\* No credit is created or destroyed by selection, crash recovery or resolution.
THEOREM BatchConservesCredits == Spec => []CreditsConserved
  BY BatchImplementsWallet, TotalConserved, PTL

-----------------------------------------------------------------------------
(* Outcomes *)

\* No step changes the outcome of a pitch that has one.
LEMMA OutcomeStep ==
  ASSUME RowInv, [Next]_batchVars, NEW p \in Pipeline, pipeline[p].outcome # "none"
  PROVE  pipeline'[p].outcome = pipeline[p].outcome
<1>0. pipeline \in [Pipeline -> PipelineRow]
  BY DEF RowInv, RowsTypeOK
<1>1. ASSUME NEW b \in Batch, StartPipelines(b)
      PROVE  pipeline'[p].outcome = pipeline[p].outcome
  BY <1>0, <1>1 DEF StartPipelines, PipelineRow
<1>2. ASSUME NEW q \in Pipeline, ConsumeCredit(q) \/ RefundCredit(q)
      PROVE  pipeline'[p].outcome = pipeline[p].outcome
  BY <1>0, <1>2 DEF ConsumeCredit, RefundCredit, Unresolved
<1>3. ASSUME NEW q \in Pipeline, NEW r \in Pipeline, ReplaceCredit(q, r)
      PROVE  pipeline'[p].outcome = pipeline[p].outcome
  <2>1. q # p /\ pipeline' = [pipeline EXCEPT
             ![q] = [pipeline[q] EXCEPT !.outcome = "REPLACED", !.replacedBy = r],
             ![r] = [pipeline[r] EXCEPT !.batch = pipeline[q].batch]]
    BY <1>3 DEF ReplaceCredit, Unresolved
  <2> QED  BY <1>0, <2>1 DEF PipelineRow
<1>4. ASSUME UNCHANGED pipeline PROVE pipeline'[p].outcome = pipeline[p].outcome
  BY <1>4
<1>5. ASSUME NEW b \in Batch, Selecting(b)
      PROVE  UNCHANGED pipeline \/ StartPipelines(b)
  BY <1>5 DEF Selecting, SelectLeads, AutoSelectLeads, Picked, ReserveBatch,
       InsufficientCredits, RecordStarted, CallCrashed, RecoverStaleBatch
<1> QED  BY <1>1, <1>2, <1>3, <1>4, <1>5 DEF Next, Granting, Resolving, batchVars

\* A pitch is settled once, whoever races to settle it.
THEOREM OutcomesFinal == Spec => OutcomeFinal
<1>1. RowInv /\ [Next]_batchVars =>
        [\A p \in Pipeline : pipeline[p].outcome # "none" =>
            pipeline'[p].outcome = pipeline[p].outcome]_batchVars
  BY OutcomeStep
<1> QED  BY <1>1, RowInit, RowStep, PTL DEF Spec, OutcomeFinal

\* No step of a pitch or a request but the resolution of p records a CONSUME
\* or a REFUND of p, and that one sets the outcome too.
LEMMA OutcomeLedgerStep ==
  ASSUME RowInv, OutcomeMatchesLedger, [Next]_batchVars
  PROVE  OutcomeMatchesLedger'
<1>0. pipeline \in [Pipeline -> PipelineRow]
  BY DEF RowInv, RowsTypeOK
<1> DEFINE SameOutcomes == \A p \in Pipeline : pipeline'[p].outcome = pipeline[p].outcome
           SameResolutions == \A type \in Resolution, p \in Pipeline :
                                <<type, p>> \in references' <=> <<type, p>> \in references
<1>1. ASSUME SameOutcomes, SameResolutions PROVE OutcomeMatchesLedger'
  BY <1>1 DEF OutcomeMatchesLedger, Resolution
<1>2. ASSUME NEW u, NEW t, NEW n, NEW kind \in {"grant", "reserve", "release", "release-stale"},
             NEW id, Record(u, t, n, <<kind, id>>)
      PROVE  SameResolutions
  BY <1>2 DEF Record, Resolution
<1>3. ASSUME Granting PROVE OutcomeMatchesLedger'
  <2>1. SameOutcomes
    BY <1>3 DEF Granting
  <2>2. SameResolutions
    BY <1>2, <1>3 DEF Granting, GrantRecorded, GrantApplied, GrantCrashed
  <2> QED  BY <1>1, <2>1, <2>2
<1>4. ASSUME NEW b \in Batch, Selecting(b) PROVE OutcomeMatchesLedger'
  <2>1. CASE StartPipelines(b)
    <3>1. SameOutcomes
      BY <1>0, <2>1 DEF StartPipelines, PipelineRow
    <3>2. SameResolutions
      BY <2>1 DEF StartPipelines, walletVars
    <3> QED  BY <1>1, <3>1, <3>2
  <2>2. CASE ReserveBatch(b)
    <3>1. SameResolutions
      BY <1>2, <2>2 DEF ReserveBatch, ReservePitchCredits
    <3> QED  BY <1>1, <2>2, <3>1 DEF ReserveBatch
  <2>3. CASE RecordStarted(b) \/ RecoverStaleBatch(b)
    <3>1. SameResolutions
      BY <1>2, <2>3 DEF RecordStarted, RecoverStaleBatch, ReleasePitchCredits, walletVars
    <3> QED  BY <1>1, <2>3, <3>1 DEF RecordStarted, RecoverStaleBatch
  <2>4. CASE UNCHANGED <<walletVars, pipeline>>
    BY <1>1, <2>4 DEF walletVars
  <2> QED  BY <1>4, <2>1, <2>2, <2>3, <2>4 DEF Selecting, SelectLeads, AutoSelectLeads,
             Picked, InsufficientCredits, CallCrashed
<1>5. ASSUME NEW p \in Pipeline, NEW type \in Resolution, NEW o,
             pipeline' = [pipeline EXCEPT ![p].outcome = o],
             \/ type = "CONSUME" /\ o = "CONSUMED"
             \/ type = "REFUND" /\ o = "REFUNDED",
             Unresolved(p),
             ResolveReservedCredit(Owner(pipeline[p].batch), pipeline[p].batch, p, type)
      PROVE  OutcomeMatchesLedger'
  <2>1. references' = references \cup {<<type, p>>}
    BY <1>5 DEF ResolveReservedCredit, Record
  <2>2. \A q \in Pipeline : pipeline'[q].outcome = IF q = p THEN o ELSE pipeline[q].outcome
    BY <1>0, <1>5 DEF PipelineRow
  <2>3. pipeline[p].outcome = "none"
    BY <1>5 DEF Unresolved
  <2> QED  BY <1>5, <2>1, <2>2, <2>3 DEF OutcomeMatchesLedger
<1>6. ASSUME NEW p \in Pipeline, Resolving(p) PROVE OutcomeMatchesLedger'
  <2>1. CASE ConsumeCredit(p)
    BY <1>5, <2>1 DEF ConsumeCredit, Resolution
  <2>2. CASE RefundCredit(p)
    BY <1>5, <2>2 DEF RefundCredit, Resolution
  <2>3. ASSUME NEW q \in Pipeline, ReplaceCredit(p, q) PROVE OutcomeMatchesLedger'
    <3>1. \A r \in Pipeline : pipeline'[r].outcome = IF r = p THEN "REPLACED"
                                                      ELSE pipeline[r].outcome
      BY <1>0, <2>3 DEF ReplaceCredit, Selectable, Unresolved, PipelineRow
    <3>2. pipeline[p].outcome = "none" /\ references' = references
      BY <2>3 DEF ReplaceCredit, Unresolved, walletVars
    <3> QED  BY <3>1, <3>2 DEF OutcomeMatchesLedger
  <2> QED  BY <1>6, <2>1, <2>2, <2>3 DEF Resolving
<1>7. ASSUME UNCHANGED batchVars PROVE OutcomeMatchesLedger'
  BY <1>7 DEF batchVars, walletVars, OutcomeMatchesLedger
<1> QED  BY <1>3, <1>4, <1>6, <1>7 DEF Next

\* The row's creditOutcome and the ledger's unique referenceId never disagree
\* on whether, and how, a pitch was paid for.
THEOREM OutcomesMatchLedger == Spec => []OutcomeMatchesLedger
<1>1. Init => OutcomeMatchesLedger
  BY DEF Init, WalletInit, OutcomeMatchesLedger
<1>2. RowInv /\ OutcomeMatchesLedger /\ [Next]_batchVars => OutcomeMatchesLedger'
  BY OutcomeLedgerStep
<1> QED  BY <1>1, <1>2, RowInit, RowStep, PTL DEF Spec

-----------------------------------------------------------------------------
(* Every open pitch is backed by a credit *)

\* OpenPitchesBacked for one batch, with what it needs to be inductive: the
\* pitches a request just started are in its batch, and a batch that died
\* before it had any still holds what recoverStaleBatches will give back.
Backed(b) ==
  /\ call[b].pc # "dead" => held[b] = Cardinality(Open(b)) + Unstarted(b)
  /\ held[b] >= Cardinality(Open(b))
  /\ call[b].pc = "started" => call[b].started \subseteq PipelinesOf(b)
  /\ call[b].pc = "dead" /\ batch[b].status = "PROCESSING" /\ PipelinesOf(b) = {}
       => held[b] >= batch[b].requested

BackedInv == \A b \in Batch : Backed(b)

\* What a step that starts and resolves nothing in b leaves of it.
LEMMA SamePitches ==
  ASSUME NEW b \in Batch,
         \A p \in Pipeline : pipeline'[p].batch = b <=> pipeline[p].batch = b,
         \A p \in Pipeline : pipeline[p].batch = b =>
            (pipeline'[p].outcome = "none" <=> pipeline[p].outcome = "none")
  PROVE  Open(b)' = Open(b) /\ PipelinesOf(b)' = PipelinesOf(b)
  BY DEF Open, PipelinesOf

\* What a member more or less makes of a finite set.
LEMMA OneMore ==
  ASSUME NEW S, NEW x, IsFiniteSet(S), x \notin S
  PROVE  IsFiniteSet(S \cup {x}) /\ Cardinality(S \cup {x}) = Cardinality(S) + 1
  BY FS_AddElement

LEMMA OneLess ==
  ASSUME NEW S, NEW x, IsFiniteSet(S), x \in S
  PROVE  IsFiniteSet(S \ {x}) /\ Cardinality(S \ {x}) = Cardinality(S) - 1
  BY FS_RemoveElement

\* Open pitches are counted by natural numbers, what a request has yet to
\* start by a natural number too.
LEMMA Counts ==
  ASSUME TypeOK, RowInv, NEW b \in Batch
  PROVE  /\ IsFiniteSet(Open(b)) /\ Cardinality(Open(b)) \in Nat
         /\ held[b] \in Int /\ Unstarted(b) \in Nat
         /\ call[b].requested \in Nat
         /\ IsFiniteSet(call[b].started) /\ Cardinality(call[b].started) \in Nat
<1>1. Open(b) \in SUBSET Pipeline /\ call[b].started \in SUBSET Pipeline
        /\ call[b].candidates \in SUBSET Pipeline
        /\ call[b].started \in SUBSET call[b].candidates /\ call[b].requested \in Nat
  BY DEF Open, PipelinesOf, TypeOK, RowInv, RowsLinked, Call
<1>2. /\ Cardinality(call[b].started) <= Cardinality(call[b].candidates)
      /\ Cardinality(call[b].started) \in Nat /\ Cardinality(call[b].candidates) \in Nat
  BY <1>1, LeadsFinite, FS_Subset
<1>3. call[b].pc # "idle" => Cardinality(call[b].candidates) <= call[b].requested
  BY DEF RowInv, RowsLinked
<1>4. Unstarted(b) \in Nat
  BY <1>1, <1>2, <1>3 DEF Unstarted
<1> QED  BY <1>1, <1>2, <1>4, LeadsFinite DEF TypeOK, WalletTypeOK

\* A batch whose pitches, credits and request a step leaves alone stays backed.
LEMMA UntouchedBatch ==
  ASSUME NEW b \in Batch, Backed(b),
         call'[b] = call[b], held'[b] = held[b],
         batch'[b].status = "PROCESSING" => batch[b].status = "PROCESSING",
         batch'[b].requested = batch[b].requested,
         Open(b)' = Open(b), PipelinesOf(b)' = PipelinesOf(b)
  PROVE  Backed(b)'
  BY DEF Backed, Unstarted

\* The commits of a request that create no pitch.
LEMMA RequestBacked ==
  ASSUME TypeOK, RowInv, BackedInv, NEW x \in Batch, NEW b \in Batch,
         \/ ReserveBatch(b) \/ RecordStarted(b) \/ CallCrashed(b) \/ RecoverStaleBatch(b)
  PROVE  Backed(x)'
<1>0. /\ batch \in [Batch -> BatchRow] /\ call \in [Batch -> Call]
      /\ held \in [Batch -> Int] /\ RowsLinked /\ Backed(x)
  BY DEF TypeOK, RowInv, WalletTypeOK, BackedInv
<1>1. UNCHANGED pipeline
  BY DEF ReserveBatch, RecordStarted, CallCrashed, RecoverStaleBatch
<1>2. Open(x)' = Open(x) /\ PipelinesOf(x)' = PipelinesOf(x)
  BY <1>1, SamePitches
<1>3. CASE x # b
  <2>1. call'[x] = call[x] /\ batch'[x] = batch[x]
    BY <1>0, <1>3 DEF ReserveBatch, RecordStarted, CallCrashed, RecoverStaleBatch
  <2>2. held'[x] = held[x]
    BY <1>0, <1>3 DEF ReserveBatch, RecordStarted, CallCrashed, RecoverStaleBatch,
         ReservePitchCredits, ReleasePitchCredits, walletVars
  <2> QED  BY <1>0, <1>2, <2>1, <2>2, UntouchedBatch
<1>4. CASE x = b /\ ReserveBatch(b)
  <2>1. /\ call[b].pc = "selected" /\ call'[b] = [call[b] EXCEPT !.pc = "reserved"]
        /\ held'[b] = held[b] + call[b].requested
    BY <1>0, <1>4 DEF ReserveBatch, ReservePitchCredits
  <2>2. Unstarted(b) = 0 /\ Unstarted(b)' = call[b].requested
    BY <1>0, <2>1 DEF Unstarted, Call
  <2>3. call'[b].pc = "reserved"
    BY <1>0, <2>1 DEF Call
  <2> QED  BY <1>0, <1>2, <1>4, <2>1, <2>2, <2>3, Counts DEF Backed
<1>5. CASE x = b /\ RecordStarted(b)
  <2> DEFINE shortfall == call[b].requested - Cardinality(call[b].started)
  <2>1. /\ call[b].pc = "started" /\ call'[b] = [call[b] EXCEPT !.pc = "done"]
        /\ IF shortfall > 0 THEN ReleasePitchCredits(Owner(b), b, shortfall, "release")
                            ELSE UNCHANGED walletVars
    BY <1>0, <1>5 DEF RecordStarted
  <2>2. held'[b] = IF shortfall > 0 THEN held[b] - shortfall ELSE held[b]
    BY <1>0, <2>1 DEF ReleasePitchCredits, walletVars
  <2>3. call'[b].pc = "done"
    BY <1>0, <2>1 DEF Call
  <2>4. Unstarted(b) = shortfall /\ Unstarted(b)' = 0
    BY <2>1, <2>3 DEF Unstarted
  <2> QED  BY <1>0, <1>2, <1>5, <2>1, <2>2, <2>3, <2>4, Counts DEF Backed
<1>6. CASE x = b /\ CallCrashed(b)
  <2>1. /\ call[b].pc \in {"reserved", "started"}
        /\ call'[b] = [call[b] EXCEPT !.pc = "dead"] /\ held' = held /\ batch' = batch
    BY <1>0, <1>6 DEF CallCrashed, walletVars
  <2>2. call'[b].pc = "dead" /\ batch[b].requested = call[b].requested
    BY <1>0, <2>1 DEF Call, RowsLinked, Committed
  <2>3. PipelinesOf(b) = {} => held[b] >= call[b].requested
    <3>1. CASE call[b].pc = "reserved"
      BY <1>0, <1>6, <3>1, Counts DEF Backed, Unstarted
    <3>2. CASE call[b].pc = "started"
      <4>1. PipelinesOf(b) = {} => Cardinality(call[b].started) = 0
        BY <1>0, <1>6, <3>2, FS_EmptySet DEF Backed
      <4> QED  BY <1>0, <1>6, <3>2, <4>1, Counts DEF Backed, Unstarted
    <3> QED  BY <2>1, <3>1, <3>2
  <2> QED  BY <1>0, <1>2, <1>6, <2>1, <2>2, <2>3 DEF Backed
<1>7. CASE x = b /\ RecoverStaleBatch(b)
  <2>1. /\ call[b].pc = "dead" /\ call' = call /\ batch[b].status = "PROCESSING"
        /\ PipelinesOf(b) = {} /\ held'[b] = held[b] - batch[b].requested
        /\ batch'[b].status = "COMPLETED"
    BY <1>0, <1>7 DEF RecoverStaleBatch, ReleasePitchCredits, BatchRow
  <2>2. batch[b].requested \in Nat
    BY <1>0 DEF BatchRow
  <2>3. Open(b) = {} /\ Cardinality(Open(b)) = 0
    BY <2>1, FS_EmptySet DEF Open
  <2> QED  BY <1>0, <1>2, <1>7, <2>1, <2>2, <2>3 DEF Backed
<1> QED  BY <1>3, <1>4, <1>5, <1>6, <1>7

\* Starting pitches opens exactly those of the leads that had no pipeline.
LEMMA StartBacked ==
  ASSUME TypeOK, RowInv, BackedInv, NEW x \in Batch, NEW b \in Batch, StartPipelines(b)
  PROVE  Backed(x)'
<1>0. /\ call \in [Batch -> Call] /\ held \in [Batch -> Int] /\ RowsLinked /\ Backed(x)
      /\ pipeline \in [Pipeline -> PipelineRow]
  BY DEF TypeOK, RowInv, WalletTypeOK, BackedInv
<1>1. PICK claimable \in SUBSET call[b].candidates :
        LET started == {p \in claimable : pipeline[p].batch = Null} IN
        /\ call[b].pc = "reserved"
        /\ pipeline' = [p \in Pipeline |->
             IF p \in started THEN [pipeline[p] EXCEPT !.batch = b] ELSE pipeline[p]]
        /\ call' = [call EXCEPT ![b] = [call[b] EXCEPT !.pc = "started", !.started = started]]
        /\ UNCHANGED <<walletVars, batch>>
  BY DEF StartPipelines
<1> DEFINE started == {p \in claimable : pipeline[p].batch = Null}
<1>2. started \in SUBSET Pipeline
  BY <1>0 DEF Call
<1>3. \A p \in Pipeline : /\ pipeline'[p].batch = IF p \in started THEN b ELSE pipeline[p].batch
                          /\ pipeline'[p].outcome = pipeline[p].outcome
                          /\ p \in started => /\ pipeline[p].batch = Null
                                              /\ pipeline[p].outcome = "none"
  BY <1>0, <1>1, <1>2 DEF PipelineRow, RowsLinked
<1>4. held' = held /\ batch' = batch
  BY <1>1 DEF walletVars
<1>5. CASE x # b
  <2>1. Open(x)' = Open(x) /\ PipelinesOf(x)' = PipelinesOf(x)
    BY <1>3, <1>5, SamePitches, BatchAssumption
  <2>2. call'[x] = call[x]
    BY <1>0, <1>1, <1>5
  <2> QED  BY <1>0, <1>4, <2>1, <2>2, UntouchedBatch
<1>6. CASE x = b
  <2>1. Open(b)' = Open(b) \cup started /\ Open(b) \cap started = {}
    BY <1>2, <1>3, BatchAssumption DEF Open, PipelinesOf
  <2>2. Cardinality(Open(b)') = Cardinality(Open(b)) + Cardinality(started)
    <3>1. IsFiniteSet(Open(b)) /\ IsFiniteSet(started)
      BY <1>2, Counts, LeadsFinite
    <3>2. Cardinality(Open(b) \cup started)
            = Cardinality(Open(b)) + Cardinality(started) - Cardinality(Open(b) \cap started)
      BY <3>1, FS_Union
    <3>3. Cardinality(Open(b) \cap started) = 0
      BY <2>1, FS_EmptySet
    <3> HIDE DEF started
    <3> QED  BY <2>1, <3>1, <3>2, <3>3, FS_CardinalityType
  <2>3. call'[b].pc = "started" /\ call'[b].started = started
          /\ call'[b].requested = call[b].requested
    BY <1>0, <1>1 DEF Call
  <2>4. Unstarted(b) = call[b].requested
          /\ Unstarted(b)' = call[b].requested - Cardinality(started)
    BY <1>1, <2>3 DEF Unstarted
  <2>5. started \subseteq PipelinesOf(b)'
    BY <1>2, <1>3 DEF PipelinesOf
  <2>6. Unstarted(b)' \in Nat
    <3>1. Cardinality(started) <= Cardinality(call[b].candidates)
            /\ Cardinality(started) \in Nat /\ Cardinality(call[b].candidates) \in Nat
      <4>1. started \in SUBSET call[b].candidates /\ call[b].candidates \in SUBSET Pipeline
        BY <1>0 DEF Call
      <4> QED  BY <1>2, <4>1, LeadsFinite, FS_Subset
    <3>2. Cardinality(call[b].candidates) <= call[b].requested /\ call[b].requested \in Nat
      BY <1>0, <1>1, Counts DEF RowsLinked
    <3> QED  BY <2>4, <3>1, <3>2
  <2> HIDE DEF started
  <2>7. Cardinality(started) \in Nat
    BY <1>2, LeadsFinite
  <2> QED  BY <1>0, <1>1, <1>4, <1>6, <2>2, <2>3, <2>4, <2>5, <2>6, <2>7, Counts DEF Backed
<1> QED  BY <1>5, <1>6

\* A pitch that resolves takes one open pitch and one held credit from its batch.
LEMMA ResolveBacked ==
  ASSUME TypeOK, RowInv, BackedInv, NEW x \in Batch, NEW p \in Pipeline,
         ConsumeCredit(p) \/ RefundCredit(p)
  PROVE  Backed(x)'
<1> PICK b \in Batch : b = pipeline[p].batch
  BY UnresolvedBatch DEF ConsumeCredit, RefundCredit, ReplaceCredit
<1>0. /\ call \in [Batch -> Call] /\ held \in [Batch -> Int] /\ Backed(x)
      /\ pipeline \in [Pipeline -> PipelineRow]
  BY DEF TypeOK, RowInv, WalletTypeOK, BackedInv
<1>1. PICK o \in {"CONSUMED", "REFUNDED"} :
        /\ Unresolved(p) /\ UNCHANGED call
        /\ pipeline' = [pipeline EXCEPT ![p].outcome = o]
        /\ CountOutcome(b, 1, 0) \/ CountOutcome(b, 0, 1)
        /\ held' = [held EXCEPT ![b] = @ - 1]
  BY DEF ConsumeCredit, RefundCredit, ResolveReservedCredit
<1>2. b \in Batch /\ b = pipeline[p].batch /\ batch[b].status # "NONE"
  BY <1>1, UnresolvedBatch
<1>3. /\ batch'[x].requested = batch[x].requested
      /\ batch'[x].status = "PROCESSING" => batch[x].status = "PROCESSING"
  <2>1. CASE CountOutcome(b, 1, 0)
    BY <1>2, <2>1, CountOutcomeStep
  <2>2. CASE CountOutcome(b, 0, 1)
    BY <1>2, <2>2, CountOutcomeStep
  <2> QED  BY <1>1, <2>1, <2>2
<1>4. \A r \in Pipeline : /\ pipeline'[r].batch = pipeline[r].batch
                          /\ pipeline'[r].outcome = IF r = p THEN o ELSE pipeline[r].outcome
  BY <1>0, <1>1 DEF PipelineRow
<1>5. CASE x # b
  <2>1. Open(x)' = Open(x) /\ PipelinesOf(x)' = PipelinesOf(x)
    BY <1>4, <1>5, SamePitches
  <2>2. held'[x] = held[x] /\ call'[x] = call[x]
    BY <1>0, <1>1, <1>5
  <2> QED  BY <1>0, <1>3, <2>1, <2>2, UntouchedBatch
<1>6. CASE x = b
  <2>1. /\ p \in Open(b) /\ Open(b)' = Open(b) \ {p} /\ PipelinesOf(b)' = PipelinesOf(b)
        /\ p \in PipelinesOf(b)
    BY <1>1, <1>4 DEF Open, PipelinesOf, Unresolved
  <2>2. Cardinality(Open(b)') = Cardinality(Open(b)) - 1
    BY <1>2, <2>1, Counts, OneLess
  <2>3. held'[b] = held[b] - 1 /\ Unstarted(b)' = Unstarted(b) /\ call'[b] = call[b]
    BY <1>0, <1>1, <1>2 DEF Unstarted
  <2>4. /\ held[b] \in Int /\ Cardinality(Open(b)) \in Nat /\ Unstarted(b) \in Nat
        /\ Backed(b) /\ PipelinesOf(b) # {}
    BY <1>0, <1>6, <2>1, Counts
  <2>5. Backed(b)'
    BY <2>1, <2>2, <2>3, <2>4 DEF Backed
  <2> QED  BY <1>6, <2>5
<1> QED  BY <1>5, <1>6

\* A replacement swaps one open pitch of the batch for another.
LEMMA ReplaceBacked ==
  ASSUME TypeOK, RowInv, BackedInv, NEW x \in Batch, NEW p \in Pipeline, NEW q \in Pipeline,
         ReplaceCredit(p, q)
  PROVE  Backed(x)'
<1> PICK b \in Batch : b = pipeline[p].batch
  BY UnresolvedBatch DEF ConsumeCredit, RefundCredit, ReplaceCredit
<1>0. /\ batch \in [Batch -> BatchRow] /\ held \in [Batch -> Int] /\ Backed(x)
      /\ pipeline \in [Pipeline -> PipelineRow] /\ RowsLinked
  BY DEF TypeOK, RowInv, WalletTypeOK, BackedInv
<1>1. /\ Unresolved(p) /\ pipeline[q].batch = Null /\ p # q /\ call' = call /\ held' = held
      /\ pipeline' = [pipeline EXCEPT
           ![p] = [pipeline[p] EXCEPT !.outcome = "REPLACED", !.replacedBy = q],
           ![q] = [pipeline[q] EXCEPT !.batch = b]]
      /\ batch' = IF batch[b].status # "PROCESSING" THEN batch
                  ELSE [batch EXCEPT ![b].replaced = batch[b].replaced + 1]
  BY DEF ReplaceCredit, Selectable, Unresolved, walletVars
<1>2. b \in Batch /\ b = pipeline[p].batch
  BY <1>1, UnresolvedBatch
<1>3. batch'[x].requested = batch[x].requested /\ batch'[x].status = batch[x].status
  BY <1>0, <1>1, <1>2 DEF BatchRow
<1>4. \A r \in Pipeline : /\ pipeline'[r].batch = IF r = q THEN b ELSE pipeline[r].batch
                          /\ pipeline'[r].outcome = IF r = p THEN "REPLACED"
                                                    ELSE pipeline[r].outcome
  <2>1. \A r \in Pipeline :
          pipeline'[r] = IF r = q THEN [pipeline[q] EXCEPT !.batch = b]
                         ELSE IF r = p THEN [pipeline[p] EXCEPT !.outcome = "REPLACED", !.replacedBy = q]
                         ELSE pipeline[r]
    BY <1>0, <1>1
  <2>2. \A r \in Pipeline : pipeline[r] \in PipelineRow
    BY <1>0
  <2>3. ASSUME NEW r \in Pipeline
        PROVE  /\ pipeline'[r].batch = IF r = q THEN b ELSE pipeline[r].batch
               /\ pipeline'[r].outcome = IF r = p THEN "REPLACED" ELSE pipeline[r].outcome
    <3>1. CASE r = q
      <4>1. PICK m \in PipelineRow : m = pipeline[q]
        BY <2>2
      <4>2. pipeline'[r] = [m EXCEPT !.batch = b]
        BY <2>1, <3>1, <4>1
      <4> QED  BY <1>1, <3>1, <4>1, <4>2 DEF PipelineRow
    <3>2. CASE r = p
      <4>1. PICK m \in PipelineRow : m = pipeline[p]
        BY <2>2
      <4>2. pipeline'[r] = [m EXCEPT !.outcome = "REPLACED", !.replacedBy = q]
        BY <1>1, <2>1, <3>2, <4>1
      <4>3. r # q
        BY <1>1, <3>2
      <4> QED  BY <3>2, <4>1, <4>2, <4>3 DEF PipelineRow
    <3>3. CASE r # p /\ r # q
      BY <2>1, <3>3
    <3> QED  BY <3>1, <3>2, <3>3
  <2> QED  BY <2>3
<1>5. CASE x # b
  <2>1. Open(x)' = Open(x) /\ PipelinesOf(x)' = PipelinesOf(x)
    <3>1. b # Null /\ x # Null
      BY <1>2, BatchAssumption
    <3>2. \A r \in Pipeline : pipeline'[r].batch = x <=> pipeline[r].batch = x
      BY <1>1, <1>4, <1>5, <3>1
    <3>3. \A r \in Pipeline : pipeline[r].batch = x =>
            (pipeline'[r].outcome = "none" <=> pipeline[r].outcome = "none")
      BY <1>2, <1>4, <1>5
    <3> QED  BY <3>2, <3>3, SamePitches
  <2> QED  BY <1>0, <1>1, <1>3, <2>1, UntouchedBatch
<1>6. CASE x = b
  <2>1. /\ p \in Open(b) /\ q \notin Open(b) \ {p} /\ Open(b)' = (Open(b) \ {p}) \cup {q}
        /\ p \in PipelinesOf(b) /\ PipelinesOf(b)' = PipelinesOf(b) \cup {q}
    BY <1>0, <1>1, <1>4, BatchAssumption DEF Open, PipelinesOf, Unresolved, RowsLinked
  <2>2. Cardinality(Open(b)') = Cardinality(Open(b))
    <3>1. /\ IsFiniteSet(Open(b) \ {p})
          /\ Cardinality(Open(b) \ {p}) = Cardinality(Open(b)) - 1
      BY <1>2, <2>1, Counts, OneLess
    <3>2. Cardinality((Open(b) \ {p}) \cup {q}) = Cardinality(Open(b) \ {p}) + 1
      BY <2>1, <3>1, OneMore
    <3> QED  BY <1>2, <2>1, <3>1, <3>2, Counts
  <2>3. Unstarted(b)' = Unstarted(b)
    BY <1>1 DEF Unstarted
  <2> QED  BY <1>0, <1>1, <1>2, <1>6, <2>1, <2>2, <2>3, Counts DEF Backed
<1> QED  BY <1>5, <1>6

LEMMA BackedStep ==
  ASSUME TypeOK, RowInv, BackedInv, [Next]_batchVars, NEW x \in Batch
  PROVE  Backed(x)'
<1>0. Backed(x) /\ batch \in [Batch -> BatchRow] /\ call \in [Batch -> Call]
  BY DEF BackedInv, TypeOK
<1>1. ASSUME UNCHANGED <<held, batch, pipeline, call>> PROVE Backed(x)'
  <2>1. Open(x)' = Open(x) /\ PipelinesOf(x)' = PipelinesOf(x)
    BY <1>1, SamePitches
  <2> QED  BY <1>0, <1>1, <2>1, UntouchedBatch
<1>2. ASSUME NEW b \in Batch, NEW c \in Campaign, SelectLeads(b, c) \/ AutoSelectLeads(b, c)
      PROVE  Backed(x)'
  <2>1. PICK requested, leads : Picked(b, c, requested, leads)
    BY <1>2 DEF SelectLeads, AutoSelectLeads
  <2>2. /\ call[b].pc = "idle" /\ held' = held /\ batch' = batch /\ pipeline' = pipeline
        /\ call' = [call EXCEPT ![b] =
             [pc |-> "selected", campaign |-> c, requested |-> requested,
              candidates |-> leads, started |-> {}]]
    BY <2>1 DEF Picked, walletVars
  <2>3. Open(x)' = Open(x) /\ PipelinesOf(x)' = PipelinesOf(x)
    BY <2>2, SamePitches
  <2>4. CASE x = b
    <3>1. call'[b].pc = "selected" /\ Unstarted(b) = 0 /\ Unstarted(b)' = 0
      BY <1>0, <2>2 DEF Unstarted
    <3> QED  BY <1>0, <2>2, <2>3, <2>4, <3>1 DEF Backed
  <2>5. CASE x # b
    BY <1>0, <2>2, <2>3, <2>5, UntouchedBatch
  <2> QED  BY <2>4, <2>5
<1>3. ASSUME NEW b \in Batch, InsufficientCredits(b) PROVE Backed(x)'
  <2>1. /\ call[b].pc = "selected" /\ held' = held /\ batch' = batch /\ pipeline' = pipeline
        /\ call' = [call EXCEPT ![b].pc = "rejected"]
    BY <1>3 DEF InsufficientCredits, walletVars
  <2>2. Open(x)' = Open(x) /\ PipelinesOf(x)' = PipelinesOf(x)
    BY <2>1, SamePitches
  <2>3. CASE x = b
    <3>1. call'[b].pc = "rejected"
      BY <1>0, <2>1 DEF Call
    <3>2. Unstarted(b) = 0 /\ Unstarted(b)' = 0
      BY <2>1, <3>1 DEF Unstarted
    <3> QED  BY <1>0, <2>1, <2>2, <2>3, <3>1, <3>2 DEF Backed
  <2>4. CASE x # b
    BY <1>0, <2>1, <2>2, <2>4, UntouchedBatch
  <2> QED  BY <2>3, <2>4
<1>4. ASSUME NEW b \in Batch, Selecting(b) PROVE Backed(x)'
  BY <1>2, <1>3, <1>4, RequestBacked, StartBacked DEF Selecting
<1>5. ASSUME NEW p \in Pipeline, Resolving(p) PROVE Backed(x)'
  BY <1>5, ResolveBacked, ReplaceBacked DEF Resolving
<1>6. CASE Granting
  BY <1>1, <1>6 DEF Granting, GrantRecorded, GrantApplied, GrantCrashed
<1>7. CASE UNCHANGED batchVars
  BY <1>1, <1>7 DEF batchVars, walletVars
<1> QED  BY <1>4, <1>5, <1>6, <1>7 DEF Next

LEMMA BackedInvariant == Spec => [](TypeOK /\ RowInv /\ BackedInv)
<1>1. Init => BackedInv
  <2> SUFFICES ASSUME Init, NEW b \in Batch PROVE Backed(b)
    BY DEF BackedInv
  <2>1. Open(b) = {} /\ call[b].pc = "idle" /\ held[b] = 0
    BY BatchAssumption DEF Init, WalletInit, Open, PipelinesOf
  <2> QED  BY <2>1, FS_EmptySet DEF Backed, Unstarted
<1>2. TypeOK /\ RowInv /\ BackedInv /\ [Next]_batchVars => BackedInv'
  BY BackedStep DEF BackedInv
<1> QED  BY <1>1, <1>2, RowInit, RowStep, TypeCorrect, PTL DEF Spec

\* However requests race, crash and are recovered, and whatever becomes of
\* their pitches: each open pitch has a credit its batch still holds, and a
\* request that finished left not one credit reserved beyond them.
THEOREM OpenPitchesAreBacked == Spec => []OpenPitchesBacked
<1>1. BackedInv => OpenPitchesBacked
  BY DEF BackedInv, Backed, OpenPitchesBacked
<1> QED  BY <1>1, BackedInvariant, PTL

-----------------------------------------------------------------------------
(* No resolution finds the reservation gone.                               *)
(*                                                                         *)
(* A wallet's reservedCredits is the sum of what its user's batches hold.  *)
(* The sum is counted instead of added up: batch b, holding h credits,     *)
(* contributes the tokens <<b, 1>> .. <<b, h>>.                            *)

Tokens(h, B) == {t \in Batch \X (Nat \ {0}) : t[1] \in B /\ t[2] <= h[t[1]]}

BatchesOf(u) == {b \in Batch : batch[b].status # "NONE" /\ Owner(b) = u}

\* What wallet and alerts of a user have to do with the batches.
Accounted(u) ==
  /\ alerts[u] = [t \in Resolution |-> 0]
  /\ IsFiniteSet(Tokens(held, BatchesOf(u)))
  /\ wallet[u].reserved = Cardinality(Tokens(held, BatchesOf(u)))

Accounts == \A u \in User : Accounted(u)

\* A batch that holds k credits more adds k tokens, read in either direction.
LEMMA TokensAdded ==
  ASSUME NEW h \in [Batch -> Nat], NEW h2 \in [Batch -> Nat], NEW b \in Batch, NEW k \in Nat,
         NEW B, NEW B2, b \in B2, b \in B \/ h[b] = 0,
         h2[b] = h[b] + k,
         \A x \in Batch \ {b} : h2[x] = h[x] /\ (x \in B2 <=> x \in B),
         IsFiniteSet(Tokens(h, B)) \/ IsFiniteSet(Tokens(h2, B2))
  PROVE  /\ IsFiniteSet(Tokens(h, B)) /\ IsFiniteSet(Tokens(h2, B2))
         /\ Cardinality(Tokens(h2, B2)) = Cardinality(Tokens(h, B)) + k
<1> DEFINE Range2 == (h[b] + 1)..(h[b] + k)
           New == {b} \X Range2
<1>1. h[b] \in Nat
  OBVIOUS
<1>2. Tokens(h2, B2) = Tokens(h, B) \cup New
  <2>1. ASSUME NEW x \in Batch, NEW n \in Nat \ {0}
        PROVE  <<x, n>> \in Tokens(h2, B2) <=> <<x, n>> \in Tokens(h, B) \cup New
    <3>1. CASE x # b
      BY <3>1 DEF Tokens
    <3>2. CASE x = b
      <4>1. <<x, n>> \in Tokens(h2, B2) <=> n <= h[b] + k
        BY <3>2 DEF Tokens
      <4>2. <<x, n>> \in Tokens(h, B) <=> b \in B /\ n <= h[b]
        BY <3>2 DEF Tokens
      <4>3. <<x, n>> \in New <=> h[b] + 1 <= n /\ n <= h[b] + k
        BY <1>1, <3>2
      <4> QED  BY <1>1, <4>1, <4>2, <4>3
    <3> QED  BY <3>1, <3>2
  <2>2. New \subseteq Batch \X (Nat \ {0})
    BY <1>1
  <2>3. Tokens(h, B) \subseteq Batch \X (Nat \ {0}) /\ Tokens(h2, B2) \subseteq Batch \X (Nat \ {0})
    BY DEF Tokens
  <2> QED  BY <2>1, <2>2, <2>3
<1>3. Tokens(h, B) \cap New = {}
  BY <1>1 DEF Tokens
<1>4. IsFiniteSet(New) /\ Cardinality(New) = k
  <2>1. IsFiniteSet(Range2) /\ Cardinality(Range2) = k
    <3>1. h[b] + 1 \in Int /\ h[b] + k \in Int
      BY <1>1
    <3>2. /\ IsFiniteSet(Range2)
          /\ Cardinality(Range2) = IF h[b] + 1 > h[b] + k THEN 0 ELSE (h[b] + k) - (h[b] + 1) + 1
      BY <3>1, FS_Interval
    <3> QED  BY <1>1, <3>2
  <2>2. IsFiniteSet({b}) /\ Cardinality({b}) = 1
    BY FS_Singleton
  <2>3. IsFiniteSet(New) /\ Cardinality(New) = Cardinality({b}) * Cardinality(Range2)
    BY <2>1, <2>2, FS_Product
  <2> QED  BY <2>1, <2>2, <2>3
<1>5. IsFiniteSet(Tokens(h, B))
  BY <1>2, FS_Subset
<1> HIDE DEF New
<1>6. /\ IsFiniteSet(Tokens(h, B) \cup New)
      /\ Cardinality(Tokens(h, B) \cup New)
           = Cardinality(Tokens(h, B)) + Cardinality(New) - Cardinality(Tokens(h, B) \cap New)
  BY <1>4, <1>5, FS_Union
<1>7. Cardinality(Tokens(h, B) \cap New) = 0
  BY <1>3, FS_EmptySet
<1>8. Cardinality(Tokens(h, B)) \in Nat
  BY <1>5, FS_CardinalityType
<1> QED  BY <1>2, <1>4, <1>5, <1>6, <1>7, <1>8

\* A batch holds a natural number of credits, and none before it has a row.
LEMMA HeldIsNatural ==
  ASSUME TypeOK, RowInv, BackedInv
  PROVE  /\ held \in [Batch -> Nat]
         /\ \A b \in Batch : batch[b].status = "NONE" => held[b] = 0
<1>1. ASSUME NEW b \in Batch PROVE held[b] \in Nat
  BY Counts DEF BackedInv, Backed
<1>2. ASSUME NEW b \in Batch, batch[b].status = "NONE" PROVE held[b] = 0
  <2>1. call[b].pc \notin Committed
    BY <1>2 DEF RowInv, RowsLinked
  <2>2. Open(b) = {}
    BY <2>1, BatchAssumption DEF Open, PipelinesOf, RowInv, RowsLinked
  <2>3. Unstarted(b) = 0
    BY <2>1 DEF Unstarted, Committed
  <2>4. held[b] = Cardinality(Open(b)) + Unstarted(b)
    BY <2>1 DEF BackedInv, Backed, Committed
  <2> QED  BY <2>2, <2>3, <2>4, FS_EmptySet
<1> QED  BY <1>1, <1>2 DEF TypeOK, WalletTypeOK

\* The general step: what the wallet of one batch's owner gains in reserved
\* credits (k, or minus k) is what the batch holds more.
LEMMA OwnerAccounted ==
  ASSUME TypeOK, RowInv, BackedInv, TypeOK', RowInv', BackedInv', Accounts,
         NEW b \in Batch, NEW k \in Nat, alerts' = alerts,
         batch'[b].status # "NONE",
         \A x \in Batch : batch[x].status # "NONE" \/ x # b =>
           /\ batch'[x].campaign = batch[x].campaign
           /\ batch'[x].status = "NONE" <=> batch[x].status = "NONE",
         \A x \in Batch \ {b} : held'[x] = held[x],
         \A v \in User : v # Owner(b)' => wallet'[v] = wallet[v],
         \/ /\ held'[b] = held[b] + k
            /\ wallet'[Owner(b)'].reserved = wallet[Owner(b)'].reserved + k
         \/ /\ held'[b] = held[b] - k /\ batch[b].status # "NONE"
            /\ wallet'[Owner(b)'].reserved = wallet[Owner(b)'].reserved - k
  PROVE  Accounts'
<1>1. /\ held \in [Batch -> Nat] /\ held' \in [Batch -> Nat]
      /\ batch[b].status = "NONE" => held[b] = 0
  <2>1. (held \in [Batch -> Nat])'
    BY HeldIsNatural, PTL
  <2> QED  BY <2>1, HeldIsNatural
<1> SUFFICES ASSUME NEW v \in User PROVE Accounted(v)'
  BY DEF Accounts
<1>2. Accounted(v) /\ wallet[v].reserved \in Int
  BY DEF Accounts, TypeOK, WalletTypeOK, Wallet
<1> DEFINE B == BatchesOf(v)
           B2 == BatchesOf(v)'
<1>3. \A x \in Batch \ {b} : x \in B2 <=> x \in B
  BY DEF BatchesOf, Owner
<1>4. batch[b].status # "NONE" => (b \in B2 <=> b \in B)
  BY DEF BatchesOf, Owner
<1>5. CASE v # Owner(b)'
  <2>1. b \notin B2 /\ b \notin B
    BY <1>4, <1>5 DEF BatchesOf
  <2>2. Tokens(held', B2) = Tokens(held, B)
    BY <1>3, <2>1 DEF Tokens
  <2> QED  BY <1>2, <1>5, <2>2 DEF Accounted
<1>6. CASE v = Owner(b)'
  <2>1. b \in B2
    BY <1>6 DEF BatchesOf
  <2>2. b \in B \/ held[b] = 0
    BY <1>1, <1>4, <2>1
  <2> HIDE DEF B, B2
  <2>3. CASE held'[b] = held[b] + k /\ wallet'[v].reserved = wallet[v].reserved + k
    <3>1. /\ IsFiniteSet(Tokens(held', B2))
          /\ Cardinality(Tokens(held', B2)) = Cardinality(Tokens(held, B)) + k
      <4>1. IsFiniteSet(Tokens(held, B))
        BY <1>2 DEF Accounted, B
      <4> QED  BY <1>1, <1>3, <2>1, <2>2, <2>3, <4>1, TokensAdded
    <3> QED  BY <1>2, <2>3, <3>1 DEF Accounted, B, B2
  <2>4. CASE held'[b] = held[b] - k /\ batch[b].status # "NONE"
               /\ wallet'[v].reserved = wallet[v].reserved - k
    <3>1. b \in B
      BY <1>4, <2>1, <2>4 DEF B, B2
    <3>2. held[b] = held'[b] + k
      BY <1>1, <2>4
    <3>3. IsFiniteSet(Tokens(held, B))
      BY <1>2 DEF Accounted, B
    <3>4. /\ IsFiniteSet(Tokens(held', B2))
          /\ Cardinality(Tokens(held, B)) = Cardinality(Tokens(held', B2)) + k
      BY <1>1, <1>3, <2>1, <3>1, <3>2, <3>3, TokensAdded
    <3>5. Cardinality(Tokens(held', B2)) \in Nat
      BY <3>4, FS_CardinalityType
    <3>6. wallet'[v].reserved = Cardinality(Tokens(held', B2))
      BY <1>2, <2>4, <3>4, <3>5 DEF Accounted, B
    <3> QED  BY <1>2, <3>4, <3>6 DEF Accounted, B2
  <2> QED  BY <1>6, <2>3, <2>4
<1> QED  BY <1>5, <1>6

\* A step that moves no reserved credit and writes no new batch row.
LEMMA SameAccounts ==
  ASSUME Accounts, held' = held, alerts' = alerts,
         \A v \in User : wallet'[v].reserved = wallet[v].reserved,
         \A x \in Batch : /\ batch'[x].campaign = batch[x].campaign
                          /\ batch'[x].status = "NONE" <=> batch[x].status = "NONE"
  PROVE  Accounts'
<1> SUFFICES ASSUME NEW v \in User PROVE Accounted(v)'
  BY DEF Accounts
<1>1. BatchesOf(v)' = BatchesOf(v)
  BY DEF BatchesOf, Owner
<1> QED  BY <1>1 DEF Accounts, Accounted

LEMMA AccountsStep ==
  ASSUME TypeOK, RowInv, BackedInv, TypeOK', RowInv', BackedInv', Accounts,
         [Next]_batchVars
  PROVE  Accounts'
<1>0. /\ batch \in [Batch -> BatchRow] /\ call \in [Batch -> Call] /\ RowsLinked
      /\ held \in [Batch -> Int] /\ pipeline \in [Pipeline -> PipelineRow]
  BY DEF RowInv, RowsTypeOK, TypeOK, WalletTypeOK
<1>a. WalletTypeOK
  BY DEF TypeOK
<1>1. ASSUME NEW b \in Batch, ReserveBatch(b) PROVE Accounts'
  <2> DEFINE n == call[b].requested
             u == CampaignUser[call[b].campaign]
  <2>1. n \in Nat /\ u \in User /\ batch[b].status = "NONE"
    BY <1>0, <1>1, BatchAssumption DEF ReserveBatch, RowsLinked, Committed, Call, BatchRow
  <2>2. /\ MoveCredits(u, -n, n, 0) /\ alerts' = alerts
        /\ held' = [held EXCEPT ![b] = @ + n]
        /\ batch' = [batch EXCEPT ![b] =
             [status |-> "PROCESSING", campaign |-> call[b].campaign,
              requested |-> n, reserved |-> 0, sent |-> 0, failed |-> 0, replaced |-> 0]]
    BY <1>1 DEF ReserveBatch, ReservePitchCredits
  <2>3. batch'[b].status = "PROCESSING" /\ Owner(b)' = u
    BY <1>0, <2>2 DEF Owner
  <2> HIDE DEF n, u
  <2>4. /\ wallet'[u].reserved = wallet[u].reserved + n
        /\ \A v \in User : v # u => wallet'[v] = wallet[v]
    BY <1>a, <2>1, <2>2, MoveCreditsValues
  <2>5. /\ \A x \in Batch \ {b} : batch'[x] = batch[x] /\ held'[x] = held[x]
        /\ held'[b] = held[b] + n
    BY <1>0, <2>2
  <2> QED  BY <2>1, <2>2, <2>3, <2>4, <2>5, OwnerAccounted
<1>2. ASSUME NEW b \in Batch, NEW k \in Nat, NEW reason, batch[b].status # "NONE",
             ReleasePitchCredits(Owner(b), b, k, reason),
             \A x \in Batch : /\ batch'[x].campaign = batch[x].campaign
                              /\ batch'[x].status = "NONE" <=> batch[x].status = "NONE"
      PROVE  Accounts'
  <2>1. Owner(b) \in User /\ Owner(b)' = Owner(b)
    BY <1>0, <1>2, BatchAssumption DEF RowsLinked, Committed, Owner
  <2>2. /\ MoveCredits(Owner(b), k, -k, 0) /\ alerts' = alerts
        /\ held' = [held EXCEPT ![b] = @ - k]
    BY <1>2 DEF ReleasePitchCredits
  <2>3. /\ wallet'[Owner(b)].reserved = wallet[Owner(b)].reserved + (-k)
        /\ \A v \in User : v # Owner(b) => wallet'[v] = wallet[v]
    BY <1>a, <2>1, <2>2, MoveCreditsValues
  <2>4. wallet'[Owner(b)].reserved = wallet[Owner(b)].reserved - k
    BY <1>a, <2>1, <2>3, Balances
  <2>5. (\A x \in Batch \ {b} : held'[x] = held[x]) /\ held'[b] = held[b] - k
    BY <1>0, <2>2
  <2> QED  BY <1>2, <2>1, <2>2, <2>3, <2>4, <2>5, OwnerAccounted
<1>3. ASSUME NEW b \in Batch, RecordStarted(b) PROVE Accounts'
  <2> DEFINE shortfall == call[b].requested - Cardinality(call[b].started)
  <2>1. /\ call[b].pc = "started" /\ shortfall \in Int
        /\ IF shortfall > 0 THEN ReleasePitchCredits(Owner(b), b, shortfall, "release")
                            ELSE UNCHANGED walletVars
    BY <1>3, Counts DEF RecordStarted
  <2> HIDE DEF shortfall
  <2>2. batch[b].status # "NONE"
    BY <1>0, <2>1 DEF RowsLinked, Committed
  <2>3. \A x \in Batch : /\ batch'[x].campaign = batch[x].campaign
                         /\ batch'[x].status = "NONE" <=> batch[x].status = "NONE"
    BY <1>0, <1>3, <2>2 DEF RecordStarted, BatchRow
  <2>4. CASE shortfall > 0
    BY <1>2, <2>1, <2>2, <2>3, <2>4
  <2>5. CASE UNCHANGED walletVars
    BY <2>3, <2>5, SameAccounts DEF walletVars
  <2> QED  BY <2>1, <2>4, <2>5
<1>4. ASSUME NEW b \in Batch, RecoverStaleBatch(b) PROVE Accounts'
  <2>1. /\ batch[b].status = "PROCESSING" /\ batch[b].requested \in Nat
        /\ ReleasePitchCredits(Owner(b), b, batch[b].requested, "release-stale")
        /\ batch' = [batch EXCEPT ![b].status = "COMPLETED"]
    BY <1>0, <1>4 DEF RecoverStaleBatch, BatchRow
  <2>2. \A x \in Batch : /\ batch'[x].campaign = batch[x].campaign
                         /\ batch'[x].status = "NONE" <=> batch[x].status = "NONE"
    BY <1>0, <2>1 DEF BatchRow
  <2> QED  BY <1>2, <2>1, <2>2
<1>5. ASSUME NEW p \in Pipeline, ConsumeCredit(p) \/ RefundCredit(p) PROVE Accounts'
  <2> PICK b \in Batch : b = pipeline[p].batch
    BY <1>5, UnresolvedBatch DEF ConsumeCredit, RefundCredit
  <2> PICK u \in User : u = Owner(b)
    BY <1>5, UnresolvedBatch DEF ConsumeCredit, RefundCredit
  <2>1. PICK type \in Resolution :
          /\ Unresolved(p) /\ ResolveReservedCredit(u, b, p, type)
          /\ CountOutcome(b, 1, 0) \/ CountOutcome(b, 0, 1)
    BY <1>5 DEF ConsumeCredit, RefundCredit, Resolution
  <2>2. batch[b].status # "NONE"
    BY <2>1, UnresolvedBatch
  <2>3. \A x \in Batch : /\ batch'[x].campaign = batch[x].campaign
                         /\ batch'[x].status = "NONE" <=> batch[x].status = "NONE"
    <3>1. CASE CountOutcome(b, 1, 0)
      BY <2>2, <3>1, CountOutcomeStep
    <3>2. CASE CountOutcome(b, 0, 1)
      BY <2>2, <3>2, CountOutcomeStep
    <3> QED  BY <2>1, <3>1, <3>2
  \* The pitch is open, so its batch holds a credit, which the wallet counts.
  <2>4. wallet[u].reserved >= 1
    <3>1. p \in Open(b)
      BY <2>1 DEF Open, PipelinesOf, Unresolved
    <3>2. Cardinality(Open(b)) \in Nat /\ Cardinality(Open(b)) # 0
      BY <2>2, <3>1, Counts, FS_EmptySet
    <3>3. held[b] >= 1
      <4>1. held[b] >= Cardinality(Open(b))
        BY DEF BackedInv, Backed
      <4> QED  BY <1>0, <3>2, <4>1
    <3>4. <<b, 1>> \in Tokens(held, BatchesOf(u))
      BY <2>2, <3>3 DEF Tokens, BatchesOf
    <3>5. IsFiniteSet(Tokens(held, BatchesOf(u)))
      BY <2>2 DEF Accounts, Accounted
    <3>6. Cardinality(Tokens(held, BatchesOf(u))) # 0
      BY <3>4, <3>5, FS_EmptySet
    <3>7. Cardinality(Tokens(held, BatchesOf(u))) \in Nat
      BY <3>5, FS_CardinalityType
    <3>8. wallet[u].reserved = Cardinality(Tokens(held, BatchesOf(u)))
      BY <2>2 DEF Accounts, Accounted
    <3> QED  BY <3>6, <3>7, <3>8
  <2>5. wallet[u].reserved \in Int
    BY <1>a, <2>2, Balances
  <2>6. ResolveOne(u, type) /\ alerts' = alerts /\ held' = [held EXCEPT ![b] = @ - 1]
    BY <2>1, <2>4, <2>5 DEF ResolveReservedCredit
  <2>7. /\ wallet'[u].reserved = wallet[u].reserved - 1
        /\ \A v \in User : v # u => wallet'[v] = wallet[v]
    <3>1. PICK a, s : MoveCredits(u, a, -1, s)
      BY <2>6 DEF ResolveOne
    <3>2. /\ wallet'[u].reserved = wallet[u].reserved + (-1)
          /\ \A v \in User \ {u} : wallet'[v] = wallet[v]
      BY <1>a, <2>2, <3>1, MoveCreditsValues
    <3> QED  BY <2>5, <3>2
  <2>8. Owner(b)' = u
    BY <2>3 DEF Owner
  <2>9. (\A x \in Batch \ {b} : held'[x] = held[x]) /\ held'[b] = held[b] - 1
    BY <1>0, <2>6
  <2> QED  BY <2>2, <2>3, <2>6, <2>7, <2>8, <2>9, OwnerAccounted
<1>6. ASSUME UNCHANGED <<walletVars, batch>> PROVE Accounts'
  BY <1>6, SameAccounts DEF walletVars
<1>7. ASSUME NEW p \in Pipeline, NEW q \in Pipeline, ReplaceCredit(p, q) PROVE Accounts'
  <2>1. UNCHANGED walletVars
    BY <1>7 DEF ReplaceCredit
  <2>2. \A x \in Batch : /\ batch'[x].campaign = batch[x].campaign
                         /\ batch'[x].status = batch[x].status
    BY <1>0, <1>7 DEF ReplaceCredit, BatchRow
  <2> QED  BY <2>1, <2>2, SameAccounts DEF walletVars
<1>8. CASE Granting
  <2>1. UNCHANGED <<held, alerts, batch>>
    BY <1>8 DEF Granting, GrantRecorded, GrantApplied, GrantCrashed
  <2>2. \A v \in User : wallet'[v].reserved = wallet[v].reserved
    <3>1. CASE UNCHANGED wallet
      BY <3>1
    <3>2. ASSUME NEW g \in Grant, MoveCredits(GrantUser[g], GrantAmount[g], 0, 0)
          PROVE  \A v \in User : wallet'[v].reserved = wallet[v].reserved
      BY <1>a, <3>2, GrantFacts, MoveCreditsValues, Balances
    <3> QED  BY <1>8, <3>1, <3>2 DEF Granting, GrantRecorded, GrantApplied, GrantCrashed
  <2> QED  BY <2>1, <2>2, SameAccounts
<1>9. ASSUME NEW b \in Batch, Selecting(b) PROVE Accounts'
  BY <1>1, <1>3, <1>4, <1>6, <1>9 DEF Selecting, SelectLeads, AutoSelectLeads, Picked,
       InsufficientCredits, StartPipelines, CallCrashed
<1>10. ASSUME NEW p \in Pipeline, Resolving(p) PROVE Accounts'
  BY <1>5, <1>7, <1>10 DEF Resolving
<1>11. CASE UNCHANGED batchVars
  BY <1>6, <1>11 DEF batchVars
<1> QED  BY <1>8, <1>9, <1>10, <1>11 DEF Next

\* "A wallet with nothing reserved should be impossible here": the alert of
\* resolveReservedCredit is dead code, and no release drives reservedCredits
\* below zero, whatever requests race, die or are recovered.
THEOREM NoMismatch == Spec => []NoLedgerMismatch
<1>1. Init => Accounts
  <2> SUFFICES ASSUME Init, NEW u \in User PROVE Accounted(u)
    BY DEF Accounts
  <2>1. Tokens(held, BatchesOf(u)) = {}
    BY DEF Init, Tokens, BatchesOf
  <2>2. alerts[u] = [t \in Resolution |-> 0] /\ wallet[u].reserved = 0
    BY DEF Init, WalletInit
  <2> QED  BY <2>1, <2>2, FS_EmptySet DEF Accounted
<1>2. /\ TypeOK /\ RowInv /\ BackedInv /\ (TypeOK /\ RowInv /\ BackedInv)' /\ Accounts
      /\ [Next]_batchVars
      => Accounts'
  BY AccountsStep
<1>3. Accounts => NoLedgerMismatch
  <2> SUFFICES ASSUME Accounts, NEW u \in User
               PROVE  alerts[u] = [t \in Resolution |-> 0] /\ wallet[u].reserved >= 0
    BY DEF NoLedgerMismatch
  <2>1. Cardinality(Tokens(held, BatchesOf(u))) \in Nat
    BY FS_CardinalityType DEF Accounts, Accounted
  <2> QED  BY <2>1 DEF Accounts, Accounted
<1> QED  BY <1>1, <1>2, <1>3, BackedInvariant, PTL DEF Spec

-----------------------------------------------------------------------------
(* The denormalised counters of a batch *)

\* CountersAgree for one batch, with what keeps it true: no pitch before
\* startPipelines; from then on, the pitches still open and those that were
\* sent or failed are as many as were started, replacements included; and
\* reservedCount is written once, with that number.  A completed batch counts
\* no more, so its counters stay behind.
Counted(b) ==
  /\ batch[b].status = "PROCESSING" =>
       /\ batch[b].sent = Cardinality(Resolved(b, "CONSUMED"))
       /\ batch[b].failed = Cardinality(Resolved(b, "REFUNDED"))
       /\ batch[b].replaced = Cardinality(Resolved(b, "REPLACED"))
  /\ batch[b].sent <= Cardinality(Resolved(b, "CONSUMED"))
  /\ batch[b].failed <= Cardinality(Resolved(b, "REFUNDED"))
  /\ call[b].pc \in {"idle", "selected", "reserved"} => PipelinesOf(b) = {}
  /\ call[b].pc \in {"started", "done"} =>
       Cardinality(Open(b)) + Cardinality(Resolved(b, "CONSUMED"))
         + Cardinality(Resolved(b, "REFUNDED")) = Cardinality(call[b].started)
  /\ batch[b].reserved > 0 =>
       call[b].pc = "done" /\ batch[b].reserved = Cardinality(call[b].started)

CountedInv == \A b \in Batch : Counted(b)

LEMMA ResolvedCounts ==
  ASSUME NEW b \in Batch, NEW o
  PROVE  /\ IsFiniteSet(Resolved(b, o)) /\ Cardinality(Resolved(b, o)) \in Nat
  BY LeadsFinite DEF Resolved, PipelinesOf

\* The counters of a row are natural numbers.
LEMMA RowCounters ==
  ASSUME RowInv, NEW b \in Batch
  PROVE  /\ batch[b].sent \in Nat /\ batch[b].failed \in Nat
         /\ batch[b].replaced \in Nat /\ batch[b].reserved \in Nat
  BY DEF RowInv, RowsTypeOK, BatchRow

\* A batch whose row, request and pitches a step leaves alone stays counted.
LEMMA UntouchedCounters ==
  ASSUME NEW b \in Batch, Counted(b), batch'[b] = batch[b], call'[b] = call[b],
         \A p \in Pipeline : pipeline'[p].batch = b <=> pipeline[p].batch = b,
         \A p \in Pipeline : pipeline[p].batch = b =>
            pipeline'[p].outcome = pipeline[p].outcome
  PROVE  Counted(b)'
<1>1. /\ Open(b)' = Open(b) /\ PipelinesOf(b)' = PipelinesOf(b)
      /\ Resolved(b, "CONSUMED")' = Resolved(b, "CONSUMED")
      /\ Resolved(b, "REFUNDED")' = Resolved(b, "REFUNDED")
      /\ Resolved(b, "REPLACED")' = Resolved(b, "REPLACED")
  BY DEF Open, PipelinesOf, Resolved
<1> QED  BY <1>1 DEF Counted

\* The commits of a request that create no pitch.
LEMMA RequestCounted ==
  ASSUME TypeOK, RowInv, CountedInv, NEW x \in Batch, NEW b \in Batch,
         \/ ReserveBatch(b) \/ RecordStarted(b) \/ CallCrashed(b) \/ RecoverStaleBatch(b)
  PROVE  Counted(x)'
<1>0. /\ batch \in [Batch -> BatchRow] /\ call \in [Batch -> Call] /\ Counted(x)
      /\ RowsLinked /\ Counted(b) /\ UNCHANGED pipeline
  BY DEF TypeOK, RowInv, CountedInv, ReserveBatch, RecordStarted, CallCrashed,
         RecoverStaleBatch
<1>1. CASE x # b
  <2>1. call'[x] = call[x] /\ batch'[x] = batch[x]
    BY <1>0, <1>1 DEF ReserveBatch, RecordStarted, CallCrashed, RecoverStaleBatch
  <2> QED  BY <1>0, <2>1, UntouchedCounters
<1>2. /\ Open(b)' = Open(b) /\ PipelinesOf(b)' = PipelinesOf(b)
      /\ Resolved(b, "CONSUMED")' = Resolved(b, "CONSUMED")
      /\ Resolved(b, "REFUNDED")' = Resolved(b, "REFUNDED")
      /\ Resolved(b, "REPLACED")' = Resolved(b, "REPLACED")
  BY <1>0 DEF Open, PipelinesOf, Resolved
<1>3. CASE x = b /\ ReserveBatch(b)
  <2>1. /\ call[b].pc = "selected" /\ call'[b] = [call[b] EXCEPT !.pc = "reserved"]
        /\ batch'[b] = [status |-> "PROCESSING", campaign |-> call[b].campaign,
              requested |-> call[b].requested, reserved |-> 0,
              sent |-> 0, failed |-> 0, replaced |-> 0]
    BY <1>0, <1>3 DEF ReserveBatch
  <2>2. call'[b].pc = "reserved" /\ PipelinesOf(b) = {}
    BY <1>0, <2>1 DEF Counted, Call
  <2>3. \A o \in Outcome : Cardinality(Resolved(b, o)) = 0
    BY <2>2, FS_EmptySet DEF Resolved
  <2> QED  BY <1>2, <1>3, <2>1, <2>2, <2>3 DEF Counted, Outcome
<1>4. CASE x = b /\ RecordStarted(b)
  <2> DEFINE actual == Cardinality(call[b].started)
  <2>1. actual \in Nat
    BY Counts
  <2>2. /\ call[b].pc = "started" /\ call'[b] = [call[b] EXCEPT !.pc = "done"]
        /\ batch'[b] = [batch[b] EXCEPT !.reserved = actual,
                          !.status = IF actual = 0 THEN "COMPLETED" ELSE batch[b].status]
    BY <1>0, <1>4 DEF RecordStarted
  <2>3. /\ call'[b].pc = "done" /\ call'[b].started = call[b].started
        /\ batch'[b].reserved = actual /\ batch'[b].sent = batch[b].sent
        /\ batch'[b].failed = batch[b].failed /\ batch'[b].replaced = batch[b].replaced
        /\ batch'[b].status = "PROCESSING" => batch[b].status = "PROCESSING"
    BY <1>0, <2>2 DEF Call, BatchRow
  <2> QED  BY <1>0, <1>2, <1>4, <2>1, <2>2, <2>3 DEF Counted
<1>5. CASE x = b /\ CallCrashed(b)
  <2>1. /\ call[b].pc \in {"reserved", "started"}
        /\ call'[b] = [call[b] EXCEPT !.pc = "dead"] /\ batch' = batch
    BY <1>0, <1>5 DEF CallCrashed
  <2>2. call'[b].pc = "dead"
    BY <1>0, <2>1 DEF Call
  <2> QED  BY <1>0, <1>2, <1>5, <2>1, <2>2 DEF Counted
<1>6. CASE x = b /\ RecoverStaleBatch(b)
  <2>1. call' = call /\ batch'[b] = [batch[b] EXCEPT !.status = "COMPLETED"]
    BY <1>0, <1>6 DEF RecoverStaleBatch
  <2>2. /\ batch'[b].status = "COMPLETED" /\ batch'[b].reserved = batch[b].reserved
        /\ batch'[b].sent = batch[b].sent /\ batch'[b].failed = batch[b].failed
    BY <1>0, <2>1 DEF BatchRow
  <2> QED  BY <1>0, <1>2, <1>6, <2>1, <2>2 DEF Counted
<1> QED  BY <1>1, <1>3, <1>4, <1>5, <1>6

\* A batch's first pitches are all open.
LEMMA StartCounted ==
  ASSUME TypeOK, RowInv, CountedInv, NEW x \in Batch, NEW b \in Batch, StartPipelines(b)
  PROVE  Counted(x)'
<1>0. /\ call \in [Batch -> Call] /\ RowsLinked /\ Counted(x)
      /\ pipeline \in [Pipeline -> PipelineRow]
  BY DEF TypeOK, RowInv, CountedInv
<1>1. PICK claimable \in SUBSET call[b].candidates :
        LET started == {p \in claimable : pipeline[p].batch = Null} IN
        /\ call[b].pc = "reserved"
        /\ pipeline' = [p \in Pipeline |->
             IF p \in started THEN [pipeline[p] EXCEPT !.batch = b] ELSE pipeline[p]]
        /\ call' = [call EXCEPT ![b] = [call[b] EXCEPT !.pc = "started", !.started = started]]
        /\ UNCHANGED <<walletVars, batch>>
  BY DEF StartPipelines
<1> DEFINE started == {p \in claimable : pipeline[p].batch = Null}
<1>2. started \in SUBSET Pipeline
  BY <1>0 DEF Call
<1>3. \A p \in Pipeline : /\ pipeline'[p].batch = IF p \in started THEN b ELSE pipeline[p].batch
                          /\ pipeline'[p].outcome = pipeline[p].outcome
                          /\ p \in started => /\ pipeline[p].batch = Null
                                              /\ pipeline[p].outcome = "none"
  BY <1>0, <1>1, <1>2 DEF PipelineRow, RowsLinked
<1>4. CASE x # b
  <2>1. call'[x] = call[x] /\ batch' = batch
    BY <1>0, <1>1, <1>4
  <2> QED  BY <1>0, <1>3, <1>4, <2>1, UntouchedCounters, BatchAssumption
<1>5. CASE x = b
  <2>1. PipelinesOf(b) = {} /\ PipelinesOf(b)' = started /\ Open(b)' = started
    BY <1>0, <1>1, <1>2, <1>3, <1>5 DEF Counted, Open, PipelinesOf
  <2>2. \A o \in {"CONSUMED", "REFUNDED", "REPLACED"} :
          Resolved(b, o) = {} /\ Resolved(b, o)' = {}
    BY <1>2, <1>3, <2>1 DEF Resolved
  <2>3. call'[b].pc = "started" /\ call'[b].started = started /\ batch' = batch
    BY <1>0, <1>1 DEF Call
  <2>4. Cardinality(started) \in Nat
    BY <1>2, LeadsFinite
  <2> HIDE DEF started
  <2>5. \A o \in {"CONSUMED", "REFUNDED", "REPLACED"} :
          Cardinality(Resolved(b, o)) = 0 /\ Resolved(b, o)' = Resolved(b, o)
    BY <2>2, FS_EmptySet
  <2>6. ~ (batch[b].reserved > 0)
    BY <1>0, <1>1, <1>5 DEF Counted
  <2> QED  BY <1>0, <1>5, <2>1, <2>3, <2>4, <2>5, <2>6 DEF Counted
<1> QED  BY <1>4, <1>5

\* What counting an outcome does to the counters.
LEMMA CountOutcomeValues ==
  ASSUME RowInv, NEW b \in Batch, NEW sent \in Nat, NEW failed \in Nat,
         CountOutcome(b, sent, failed)
  PROVE  /\ batch'[b].reserved = batch[b].reserved /\ batch'[b].replaced = batch[b].replaced
         /\ batch'[b].status = "PROCESSING" => batch[b].status = "PROCESSING"
         /\ batch[b].status = "PROCESSING" =>
              batch'[b].sent = batch[b].sent + sent /\ batch'[b].failed = batch[b].failed + failed
         /\ batch[b].status # "PROCESSING" =>
              batch'[b].sent = batch[b].sent /\ batch'[b].failed = batch[b].failed
<1>0. batch \in [Batch -> BatchRow]
  BY DEF RowInv, RowsTypeOK
<1>1. CASE batch[b].status # "PROCESSING"
  BY <1>0, <1>1 DEF CountOutcome
<1>2. CASE batch[b].status = "PROCESSING"
  <2>1. PICK s \in {"COMPLETED", "PROCESSING"} :
          batch' = [batch EXCEPT ![b] =
            [batch[b] EXCEPT !.sent = batch[b].sent + sent,
                             !.failed = batch[b].failed + failed, !.status = s]]
    BY <1>2 DEF CountOutcome
  <2> QED  BY <1>0, <1>2, <2>1 DEF BatchRow
<1> QED  BY <1>1, <1>2

\* A pitch that resolves moves from the open ones to those of its outcome, and
\* one counter moves with it while the batch is processing.
LEMMA ResolveCounted ==
  ASSUME TypeOK, RowInv, CountedInv, NEW x \in Batch, NEW p \in Pipeline,
         ConsumeCredit(p) \/ RefundCredit(p)
  PROVE  Counted(x)'
<1> PICK b \in Batch : b = pipeline[p].batch
  BY UnresolvedBatch DEF ConsumeCredit, RefundCredit
<1>0. /\ batch \in [Batch -> BatchRow] /\ Counted(x) /\ Counted(b)
      /\ pipeline \in [Pipeline -> PipelineRow]
  BY DEF TypeOK, RowInv, CountedInv
<1>1. PICK o \in {"CONSUMED", "REFUNDED"} :
        /\ Unresolved(p) /\ UNCHANGED call
        /\ pipeline' = [pipeline EXCEPT ![p].outcome = o]
        /\ IF o = "CONSUMED" THEN CountOutcome(b, 1, 0) ELSE CountOutcome(b, 0, 1)
  BY DEF ConsumeCredit, RefundCredit
<1>2. \A r \in Pipeline : /\ pipeline'[r].batch = pipeline[r].batch
                          /\ pipeline'[r].outcome = IF r = p THEN o ELSE pipeline[r].outcome
  BY <1>0, <1>1 DEF PipelineRow
<1>3. CASE x # b
  <2>1. batch'[x] = batch[x]
    BY <1>0, <1>1, <1>3 DEF CountOutcome
  <2> QED  BY <1>0, <1>1, <1>2, <1>3, <2>1, UntouchedCounters
<1>4. CASE x = b
  <2>0. pipeline[p].outcome = "none" /\ pipeline[p].batch = b
    BY <1>1 DEF Unresolved
  <2>a. Open(b)' = Open(b) \ {p} /\ PipelinesOf(b)' = PipelinesOf(b)
    BY <1>1, <1>2, <2>0 DEF Open, PipelinesOf, Unresolved
  <2>b. /\ p \in Open(b) /\ p \in PipelinesOf(b)
        /\ \A t \in Outcome \ {"none"} : p \notin Resolved(b, t)
    BY <1>1, <2>0 DEF Open, PipelinesOf, Resolved, Unresolved
  <2>c. Resolved(b, o)' = Resolved(b, o) \cup {p}
    BY <1>2, <2>0 DEF PipelinesOf, Resolved
  <2>d. \A t \in Outcome \ {"none", o} : Resolved(b, t)' = Resolved(b, t)
    BY <1>2, <2>0 DEF PipelinesOf, Resolved
  <2>1. /\ p \in Open(b) /\ Open(b)' = Open(b) \ {p} /\ PipelinesOf(b)' = PipelinesOf(b)
        /\ p \in PipelinesOf(b) /\ \A t \in Outcome \ {"none"} : p \notin Resolved(b, t)
        /\ Resolved(b, o)' = Resolved(b, o) \cup {p}
        /\ \A t \in Outcome \ {"none", o} : Resolved(b, t)' = Resolved(b, t)
    BY <2>a, <2>b, <2>c, <2>d
  <2>2. Cardinality(Open(b)') = Cardinality(Open(b)) - 1
    <3>1. IsFiniteSet(Open(b))
      BY Counts
    <3> QED  BY <2>1, <3>1, OneLess
  <2>3. o \in Outcome \ {"none"}
    BY DEF Outcome
  <2>4. Cardinality(Resolved(b, o)') = Cardinality(Resolved(b, o)) + 1
    <3>1. IsFiniteSet(Resolved(b, o)) /\ p \notin Resolved(b, o)
      BY <2>1, <2>3, ResolvedCounts
    <3> QED  BY <2>1, <3>1, OneMore
  <2>5. /\ Cardinality(Resolved(b, "CONSUMED")) \in Nat
        /\ Cardinality(Resolved(b, "REFUNDED")) \in Nat
        /\ Cardinality(Resolved(b, "REPLACED")) \in Nat
        /\ Cardinality(Open(b)) \in Nat
    BY ResolvedCounts, Counts
  <2>6. Resolved(b, "REPLACED")' = Resolved(b, "REPLACED")
    BY <2>1 DEF Outcome
  <2>7. call'[b] = call[b] /\ call[b].pc \notin {"idle", "selected", "reserved"}
    BY <1>0, <1>1, <2>1 DEF Counted
  <2>8. CASE o = "CONSUMED"
    <3>1. Resolved(b, "REFUNDED")' = Resolved(b, "REFUNDED")
      BY <2>1, <2>8 DEF Outcome
    <3>2. CountOutcome(b, 1, 0)
      BY <1>1, <2>8
    <3>3. /\ batch'[b].reserved = batch[b].reserved /\ batch'[b].replaced = batch[b].replaced
          /\ batch'[b].status = "PROCESSING" => batch[b].status = "PROCESSING"
          /\ batch[b].status = "PROCESSING" =>
               batch'[b].sent = batch[b].sent + 1 /\ batch'[b].failed = batch[b].failed
          /\ batch[b].status # "PROCESSING" =>
               batch'[b].sent = batch[b].sent /\ batch'[b].failed = batch[b].failed
      BY <3>2, CountOutcomeValues, RowCounters
    <3> QED  BY <1>0, <1>4, <2>2, <2>4, <2>5, <2>6, <2>7, <2>8, <3>1, <3>3, RowCounters
             DEF Counted
  <2>9. CASE o = "REFUNDED"
    <3>1. Resolved(b, "CONSUMED")' = Resolved(b, "CONSUMED")
      BY <2>1, <2>9 DEF Outcome
    <3>2. CountOutcome(b, 0, 1)
      BY <1>1, <2>9
    <3>3. /\ batch'[b].reserved = batch[b].reserved /\ batch'[b].replaced = batch[b].replaced
          /\ batch'[b].status = "PROCESSING" => batch[b].status = "PROCESSING"
          /\ batch[b].status = "PROCESSING" =>
               batch'[b].sent = batch[b].sent /\ batch'[b].failed = batch[b].failed + 1
          /\ batch[b].status # "PROCESSING" =>
               batch'[b].sent = batch[b].sent /\ batch'[b].failed = batch[b].failed
      BY <3>2, CountOutcomeValues, RowCounters
    <3> QED  BY <1>0, <1>4, <2>2, <2>4, <2>5, <2>6, <2>7, <2>9, <3>1, <3>3, RowCounters
             DEF Counted
  <2> QED  BY <2>8, <2>9
<1> QED  BY <1>3, <1>4

\* A replacement leaves as many pitches open, and counts as neither outcome.
LEMMA ReplaceCounted ==
  ASSUME TypeOK, RowInv, CountedInv, NEW x \in Batch, NEW p \in Pipeline, NEW q \in Pipeline,
         ReplaceCredit(p, q)
  PROVE  Counted(x)'
<1> PICK b \in Batch : b = pipeline[p].batch
  BY UnresolvedBatch DEF ReplaceCredit
<1>0. /\ batch \in [Batch -> BatchRow] /\ Counted(x) /\ Counted(b)
      /\ pipeline \in [Pipeline -> PipelineRow] /\ RowsLinked
  BY DEF TypeOK, RowInv, CountedInv
<1>1. /\ Unresolved(p) /\ pipeline[q].batch = Null /\ p # q /\ call' = call
      /\ pipeline' = [pipeline EXCEPT
           ![p] = [pipeline[p] EXCEPT !.outcome = "REPLACED", !.replacedBy = q],
           ![q] = [pipeline[q] EXCEPT !.batch = b]]
      /\ batch' = IF batch[b].status # "PROCESSING" THEN batch
                  ELSE [batch EXCEPT ![b].replaced = batch[b].replaced + 1]
  BY DEF ReplaceCredit, Selectable, Unresolved
<1>2. \A r \in Pipeline : /\ pipeline'[r].batch = IF r = q THEN b ELSE pipeline[r].batch
                          /\ pipeline'[r].outcome = IF r = p THEN "REPLACED"
                                                    ELSE pipeline[r].outcome
  BY <1>0, <1>1 DEF PipelineRow
<1>3. CASE x # b
  <2>1. batch'[x] = batch[x]
    BY <1>0, <1>1, <1>3
  <2>2. \A r \in Pipeline : pipeline[r].batch = x => pipeline'[r].outcome = pipeline[r].outcome
    BY <1>2, <1>3
  <2>3. \A r \in Pipeline : pipeline'[r].batch = x <=> pipeline[r].batch = x
    BY <1>1, <1>2, <1>3, BatchAssumption
  <2> QED  BY <1>0, <1>1, <2>1, <2>2, <2>3, UntouchedCounters
<1>4. CASE x = b
  <2>1. /\ p \in Open(b) /\ q \notin Open(b) \ {p} /\ Open(b)' = (Open(b) \ {p}) \cup {q}
        /\ p \in PipelinesOf(b) /\ p \notin Resolved(b, "REPLACED")
        /\ Resolved(b, "REPLACED")' = Resolved(b, "REPLACED") \cup {p}
        /\ Resolved(b, "CONSUMED")' = Resolved(b, "CONSUMED")
        /\ Resolved(b, "REFUNDED")' = Resolved(b, "REFUNDED")
    BY <1>0, <1>1, <1>2, BatchAssumption DEF Open, PipelinesOf, Unresolved, RowsLinked, Resolved
  <2>2. Cardinality(Open(b)') = Cardinality(Open(b))
    <3>1. /\ IsFiniteSet(Open(b) \ {p})
          /\ Cardinality(Open(b) \ {p}) = Cardinality(Open(b)) - 1
      BY <2>1, Counts, OneLess
    <3>2. Cardinality((Open(b) \ {p}) \cup {q}) = Cardinality(Open(b) \ {p}) + 1
      BY <2>1, <3>1, OneMore
    <3> QED  BY <2>1, <3>1, <3>2, Counts
  <2>3. Cardinality(Resolved(b, "REPLACED")') = Cardinality(Resolved(b, "REPLACED")) + 1
    BY <2>1, ResolvedCounts, OneMore
  <2>4. call[b].pc \notin {"idle", "selected", "reserved"}
    BY <1>0, <2>1 DEF Counted
  <2>5. /\ batch'[b].status = batch[b].status /\ batch'[b].sent = batch[b].sent
        /\ batch'[b].failed = batch[b].failed /\ batch'[b].reserved = batch[b].reserved
        /\ batch[b].status = "PROCESSING" => batch'[b].replaced = batch[b].replaced + 1
    BY <1>0, <1>1 DEF BatchRow
  <2> QED  BY <1>0, <1>1, <1>4, <2>1, <2>2, <2>3, <2>4, <2>5 DEF Counted
<1> QED  BY <1>3, <1>4

LEMMA CountedStep ==
  ASSUME TypeOK, RowInv, CountedInv, [Next]_batchVars, NEW x \in Batch
  PROVE  Counted(x)'
<1>0. Counted(x) /\ call \in [Batch -> Call]
  BY DEF CountedInv, TypeOK
<1>1. ASSUME UNCHANGED <<batch, pipeline, call>> PROVE Counted(x)'
  BY <1>0, <1>1, UntouchedCounters
<1>2. ASSUME NEW b \in Batch,
             \/ \E c \in Campaign : SelectLeads(b, c) \/ AutoSelectLeads(b, c)
             \/ InsufficientCredits(b)
      PROVE  Counted(x)'
  <2>1. /\ UNCHANGED <<batch, pipeline>> /\ call[b].pc \in {"idle", "selected"}
        /\ \E y : call' = [call EXCEPT ![b] = y] /\ y.pc \in {"selected", "rejected"}
    <3>1. CASE InsufficientCredits(b)
      <4>1. [call[b] EXCEPT !.pc = "rejected"].pc = "rejected"
        BY <1>0 DEF Call
      <4> QED  BY <1>0, <3>1, <4>1 DEF InsufficientCredits
    <3>2. CASE \E c \in Campaign : SelectLeads(b, c) \/ AutoSelectLeads(b, c)
      <4>1. PICK c, requested, leads : Picked(b, c, requested, leads)
        BY <3>2 DEF SelectLeads, AutoSelectLeads
      <4> DEFINE y == [pc |-> "selected", campaign |-> c, requested |-> requested,
                       candidates |-> leads, started |-> {}]
      <4>2. y.pc = "selected" /\ call' = [call EXCEPT ![b] = y]
        BY <4>1 DEF Picked
      <4>3. UNCHANGED <<batch, pipeline>> /\ call[b].pc = "idle"
        BY <4>1 DEF Picked
      <4> QED  BY <4>2, <4>3
    <3> QED  BY <1>2, <3>1, <3>2
  <2>2. CASE x # b
    BY <1>0, <2>1, <2>2, UntouchedCounters
  <2>3. CASE x = b
    <3>1. call'[b].pc \in {"selected", "rejected"}
      BY <1>0, <2>1
    <3>2. /\ Open(b)' = Open(b) /\ PipelinesOf(b)' = PipelinesOf(b)
          /\ Resolved(b, "CONSUMED")' = Resolved(b, "CONSUMED")
          /\ Resolved(b, "REFUNDED")' = Resolved(b, "REFUNDED")
          /\ Resolved(b, "REPLACED")' = Resolved(b, "REPLACED")
      BY <2>1 DEF Open, PipelinesOf, Resolved
    <3> QED  BY <1>0, <2>1, <2>3, <3>1, <3>2 DEF Counted
  <2> QED  BY <2>2, <2>3
<1>3. ASSUME NEW b \in Batch, Selecting(b) PROVE Counted(x)'
  BY <1>2, <1>3, RequestCounted, StartCounted DEF Selecting
<1>4. ASSUME NEW p \in Pipeline, Resolving(p) PROVE Counted(x)'
  BY <1>4, ResolveCounted, ReplaceCounted DEF Resolving
<1> QED  BY <1>1, <1>3, <1>4 DEF Next, Granting, batchVars

LEMMA CountedInvariant == Spec => []CountedInv
<1>1. Init => CountedInv
  <2> SUFFICES ASSUME Init, NEW b \in Batch PROVE Counted(b)
    BY DEF CountedInv
  <2>1. PipelinesOf(b) = {} /\ call[b].pc = "idle"
    BY BatchAssumption DEF Init, PipelinesOf
  <2>2. \A o \in Outcome : Cardinality(Resolved(b, o)) = 0
    BY <2>1, FS_EmptySet DEF Resolved
  <2> QED  BY <2>1, <2>2 DEF Init, Counted, Outcome
<1>2. TypeOK /\ RowInv /\ CountedInv /\ [Next]_batchVars => CountedInv'
  BY CountedStep DEF CountedInv
<1> QED  BY <1>1, <1>2, BackedInvariant, PTL DEF Spec

\* Whatever resolves while startPipelines and recordStarted run, a processing
\* batch's sent, failed and replaced counters are what its pitches say.
THEOREM CountersAreExact == Spec => []CountersAgree
<1>1. CountedInv => CountersAgree
  BY DEF CountedInv, Counted, CountersAgree
<1> QED  BY <1>1, CountedInvariant, PTL

\* The completion rule never counts a batch out too early once its request has
\* recorded how many it started.
THEOREM CountedOutBatches == Spec => []CountedOutIsResolved
<1>1. TypeOK /\ RowInv /\ CountedInv => CountedOutIsResolved
  <2> SUFFICES ASSUME TypeOK, RowInv, CountedInv, NEW b \in Batch, batch[b].reserved > 0,
                      batch[b].sent + batch[b].failed >= batch[b].reserved
               PROVE  Open(b) = {}
    BY DEF CountedOutIsResolved
  <2>1. /\ batch[b].sent <= Cardinality(Resolved(b, "CONSUMED"))
        /\ batch[b].failed <= Cardinality(Resolved(b, "REFUNDED"))
        /\ Cardinality(Open(b)) + Cardinality(Resolved(b, "CONSUMED"))
             + Cardinality(Resolved(b, "REFUNDED")) = batch[b].reserved
    BY DEF CountedInv, Counted
  <2>2. Cardinality(Open(b)) = 0
    BY <2>1, Counts, ResolvedCounts, RowCounters
  <2> QED  BY <2>2, Counts, FS_EmptySet
<1> QED  BY <1>1, BackedInvariant, CountedInvariant, PTL

-----------------------------------------------------------------------------
(* Replacements *)

\* A pitch names the one that replaced it exactly when its outcome says so.
ReplacementInv ==
  /\ ReplacementCarriesCredit
  /\ \A p \in Pipeline : pipeline[p].replacedBy # Null => pipeline[p].outcome = "REPLACED"

LEMMA ReplacementStep ==
  ASSUME RowInv, ReplacementInv, [Next]_batchVars
  PROVE  ReplacementInv'
<1>0. /\ pipeline \in [Pipeline -> PipelineRow] /\ RowsLinked /\ Null \notin Pipeline
  BY BatchAssumption DEF RowInv, RowsTypeOK
<1>1. ASSUME \A p \in Pipeline : /\ pipeline'[p].outcome = "REPLACED" <=>
                                      pipeline[p].outcome = "REPLACED"
                                 /\ pipeline'[p].replacedBy = pipeline[p].replacedBy
                                 /\ pipeline[p].batch # Null =>
                                      pipeline'[p].batch = pipeline[p].batch
      PROVE  ReplacementInv'
  <2>1. \A p \in Pipeline : pipeline[p].replacedBy # Null => pipeline[p].batch # Null
    BY <1>0 DEF ReplacementInv, RowsLinked
  <2> QED  BY <1>0, <1>1, <2>1 DEF ReplacementInv, ReplacementCarriesCredit
<1>2. ASSUME NEW b \in Batch, Selecting(b) PROVE ReplacementInv'
  <2>1. CASE StartPipelines(b)
    BY <1>0, <1>1, <2>1 DEF StartPipelines, PipelineRow
  <2>2. CASE UNCHANGED pipeline
    BY <1>1, <2>2
  <2> QED  BY <1>2, <2>1, <2>2 DEF Selecting, SelectLeads, AutoSelectLeads, Picked,
             ReserveBatch, InsufficientCredits, RecordStarted, CallCrashed, RecoverStaleBatch
<1>3. ASSUME NEW p \in Pipeline, ConsumeCredit(p) \/ RefundCredit(p) PROVE ReplacementInv'
  <2>1. PICK o \in {"CONSUMED", "REFUNDED"} :
          Unresolved(p) /\ pipeline' = [pipeline EXCEPT ![p].outcome = o]
    BY <1>3 DEF ConsumeCredit, RefundCredit
  <2> QED  BY <1>0, <1>1, <2>1 DEF PipelineRow, Unresolved
<1>4. ASSUME NEW p \in Pipeline, NEW q \in Pipeline, ReplaceCredit(p, q)
      PROVE  ReplacementInv'
  <2>1. /\ Unresolved(p) /\ pipeline[q].batch = Null /\ p # q
        /\ pipeline' = [pipeline EXCEPT
             ![p] = [pipeline[p] EXCEPT !.outcome = "REPLACED", !.replacedBy = q],
             ![q] = [pipeline[q] EXCEPT !.batch = pipeline[p].batch]]
    BY <1>4 DEF ReplaceCredit, Selectable, Unresolved
  <2>2. \A r \in Pipeline :
          /\ pipeline'[r].batch = IF r = q THEN pipeline[p].batch ELSE pipeline[r].batch
          /\ pipeline'[r].outcome = IF r = p THEN "REPLACED" ELSE pipeline[r].outcome
          /\ pipeline'[r].replacedBy = IF r = p THEN q ELSE pipeline[r].replacedBy
    BY <1>0, <2>1 DEF PipelineRow
  \* Nobody was replaced by q, which had no pipeline, and neither p, whose
  \* outcome was open, nor q was replaced.
  <2>3. \A r \in Pipeline : pipeline[r].replacedBy # q
    <3>1. ASSUME NEW r \in Pipeline, pipeline[r].replacedBy = q PROVE FALSE
      <4>1. pipeline[r].outcome = "REPLACED" /\ pipeline[r].batch = Null
        BY <1>0, <2>1, <3>1 DEF ReplacementInv, ReplacementCarriesCredit
      <4> QED  BY <1>0, <4>1 DEF RowsLinked
    <3> QED  BY <3>1
  <2>4. pipeline[p].replacedBy = Null /\ pipeline[q].replacedBy = Null
    BY <1>0, <2>1 DEF ReplacementInv, Unresolved, RowsLinked
  <2>5. ReplacementCarriesCredit'
    <3> SUFFICES ASSUME NEW x \in Pipeline, NEW y \in Pipeline
                 PROVE  /\ pipeline'[x].outcome = "REPLACED" => pipeline'[x].replacedBy # Null
                        /\ pipeline'[x].replacedBy = y =>
                             /\ pipeline'[y].batch = pipeline'[x].batch
                             /\ pipeline'[y].replacedBy # x
                             /\ \A r \in Pipeline \ {x} : pipeline'[r].replacedBy # y
      BY DEF ReplacementCarriesCredit
    <3>1. pipeline'[x].outcome = "REPLACED" => pipeline'[x].replacedBy # Null
      BY <1>0, <2>2 DEF ReplacementInv, ReplacementCarriesCredit
    <3>2. CASE pipeline'[x].replacedBy = y /\ x = p
      BY <1>0, <2>1, <2>2, <2>3, <2>4, <3>2
    <3>3. CASE pipeline'[x].replacedBy = y /\ x # p
      <4>1. pipeline[x].replacedBy = y /\ y # q
        BY <2>2, <2>3, <3>3
      <4>2. /\ pipeline[y].batch = pipeline[x].batch /\ pipeline[y].replacedBy # x
            /\ \A r \in Pipeline \ {x} : pipeline[r].replacedBy # y
        BY <4>1 DEF ReplacementInv, ReplacementCarriesCredit
      <4>3. x # q
        BY <1>0, <2>4, <4>1
      <4>4. pipeline'[y].batch = pipeline'[x].batch
        BY <2>2, <4>1, <4>2, <4>3
      <4>5. pipeline'[y].replacedBy # x
        BY <2>2, <4>2, <4>3
      <4>6. \A r \in Pipeline \ {x} : pipeline'[r].replacedBy # y
        BY <2>2, <4>1, <4>2
      <4> QED  BY <3>1, <4>4, <4>5, <4>6
    <3> QED  BY <3>1, <3>2, <3>3
  <2> QED  BY <2>2, <2>5 DEF ReplacementInv
<1>5. CASE UNCHANGED pipeline
  BY <1>1, <1>5
<1> QED  BY <1>2, <1>3, <1>4, <1>5 DEF Next, Granting, Resolving, batchVars

\* A chain of replacements carries one credit: each replaced pitch names one
\* successor, in its own batch, which no other pitch names.
THEOREM ReplacementsCarryCredit == Spec => []ReplacementCarriesCredit
<1>1. Init => ReplacementInv
  BY BatchAssumption DEF Init, ReplacementInv, ReplacementCarriesCredit
<1>2. RowInv /\ ReplacementInv /\ [Next]_batchVars => ReplacementInv'
  BY ReplacementStep
<1>3. ReplacementInv => ReplacementCarriesCredit
  BY DEF ReplacementInv
<1> QED  BY <1>1, <1>2, <1>3, RowInit, RowStep, PTL DEF Spec

-----------------------------------------------------------------------------
(* The life of one credit *)

\* Every step starts the credits of some leads, settles one, or moves none.
LEMMA CreditStep ==
  ASSUME RowInv, [Next]_batchVars
  PROVE  [EachCredit!CreditNext]_Credit
<1>0. /\ pipeline \in [Pipeline -> PipelineRow] /\ call \in [Batch -> Call] /\ RowsLinked
  BY DEF RowInv, RowsTypeOK
<1>1. ASSUME UNCHANGED pipeline PROVE UNCHANGED Credit
  BY <1>1 DEF Credit
<1>2. ASSUME NEW b \in Batch, StartPipelines(b) PROVE [EachCredit!CreditNext]_Credit
  <2>1. PICK S \in SUBSET Pipeline :
          /\ \A p \in S : pipeline[p].batch = Null
          /\ pipeline' = [p \in Pipeline |->
               IF p \in S THEN [pipeline[p] EXCEPT !.batch = b] ELSE pipeline[p]]
    <3>1. PICK claimable \in SUBSET call[b].candidates :
            pipeline' = [p \in Pipeline |->
              IF p \in {q \in claimable : pipeline[q].batch = Null}
              THEN [pipeline[p] EXCEPT !.batch = b] ELSE pipeline[p]]
      BY <1>2 DEF StartPipelines
    <3>2. {q \in claimable : pipeline[q].batch = Null} \in SUBSET Pipeline
      BY <1>0 DEF Call
    <3> QED  BY <3>1, <3>2
  <2>2. \A p \in S : Credit[p] = "unstarted"
    BY <2>1 DEF Credit
  <2>3. \A p \in Pipeline : /\ pipeline'[p].batch = IF p \in S THEN b ELSE pipeline[p].batch
                            /\ pipeline'[p].outcome = pipeline[p].outcome
                            /\ p \in S => pipeline[p].outcome = "none"
    BY <1>0, <2>1 DEF PipelineRow, RowsLinked
  <2>4. Credit' = [p \in Pipeline |-> IF p \in S THEN "open" ELSE Credit[p]]
    BY <2>3, BatchAssumption DEF Credit
  <2>5. CASE S = {}
    BY <2>4, <2>5 DEF Credit
  <2>6. CASE S # {}
    <3>1. EachCredit!Started(S)
      BY <2>2, <2>4, <2>6 DEF EachCredit!Started
    <3> QED  BY <3>1 DEF EachCredit!CreditNext
  <2> QED  BY <2>5, <2>6
<1>3. ASSUME NEW b \in Batch, Selecting(b) PROVE [EachCredit!CreditNext]_Credit
  <2>1. StartPipelines(b) \/ UNCHANGED pipeline
    BY <1>3 DEF Selecting, SelectLeads, AutoSelectLeads, Picked,
         ReserveBatch, InsufficientCredits, RecordStarted, CallCrashed, RecoverStaleBatch
  <2> QED  BY <1>1, <1>2, <2>1
<1>4. ASSUME NEW p \in Pipeline, NEW o \in {"CONSUMED", "REFUNDED"}, Unresolved(p),
             pipeline' = [pipeline EXCEPT ![p].outcome = o]
      PROVE  Credit[p] = "open" /\ Credit' = [Credit EXCEPT ![p] = o]
  <2>1. \A r \in Pipeline : /\ pipeline'[r].batch = pipeline[r].batch
                            /\ pipeline'[r].outcome = IF r = p THEN o ELSE pipeline[r].outcome
    BY <1>0, <1>4 DEF PipelineRow
  <2> QED  BY <1>4, <2>1 DEF Credit, Unresolved
<1>5. ASSUME NEW p \in Pipeline, ConsumeCredit(p) PROVE EachCredit!CreditNext
  <2>1. EachCredit!Consumed(p)
    BY <1>4, <1>5 DEF ConsumeCredit, EachCredit!Consumed
  <2> QED  BY <2>1 DEF EachCredit!CreditNext
<1>6. ASSUME NEW p \in Pipeline, RefundCredit(p) PROVE EachCredit!CreditNext
  <2>1. EachCredit!Refunded(p)
    BY <1>4, <1>6 DEF RefundCredit, EachCredit!Refunded
  <2> QED  BY <2>1 DEF EachCredit!CreditNext
<1>7. ASSUME NEW p \in Pipeline, NEW q \in Pipeline, ReplaceCredit(p, q)
      PROVE  EachCredit!CreditNext
  <2>1. /\ Unresolved(p) /\ pipeline[q].batch = Null /\ p # q
        /\ pipeline' = [pipeline EXCEPT
             ![p] = [pipeline[p] EXCEPT !.outcome = "REPLACED", !.replacedBy = q],
             ![q] = [pipeline[q] EXCEPT !.batch = pipeline[p].batch]]
    BY <1>7 DEF ReplaceCredit, Selectable, Unresolved
  <2>2. \A r \in Pipeline :
          /\ pipeline'[r].batch = IF r = q THEN pipeline[p].batch ELSE pipeline[r].batch
          /\ pipeline'[r].outcome = IF r = p THEN "REPLACED" ELSE pipeline[r].outcome
    BY <1>0, <2>1 DEF PipelineRow
  <2>3. pipeline[p].outcome = "none" /\ pipeline[p].batch # Null /\ pipeline[q].outcome = "none"
    BY <1>0, <2>1 DEF Unresolved, RowsLinked
  <2>4. Credit[p] = "open" /\ Credit[q] = "unstarted"
    BY <2>1, <2>3 DEF Credit
  <2>5. Credit' = [Credit EXCEPT ![p] = "REPLACED", ![q] = "open"]
    <3>1. Credit'[q] = "open"
      BY <2>1, <2>2, <2>3 DEF Credit
    <3>2. Credit'[p] = "REPLACED"
      <4>1. pipeline'[p].batch # Null /\ pipeline'[p].outcome = "REPLACED"
        BY <2>1, <2>2, <2>3
      <4> QED  BY <4>1 DEF Credit
    <3>3. \A r \in Pipeline \ {p, q} : Credit'[r] = Credit[r]
      BY <2>2 DEF Credit
    <3>4. /\ Credit = [r \in Pipeline |-> Credit[r]]
          /\ Credit' = [r \in Pipeline |-> Credit'[r]]
      BY DEF Credit
    <3> HIDE DEF Credit
    <3> QED  BY <2>1, <3>1, <3>2, <3>3, <3>4
  <2>6. EachCredit!Replaced(p, q)
    BY <2>4, <2>5 DEF EachCredit!Replaced
  <2> QED  BY <2>6 DEF EachCredit!CreditNext
<1> QED  BY <1>1, <1>3, <1>5, <1>6, <1>7 DEF Next, Granting, Resolving, batchVars

\* Batches implement the life of a credit that the delivery pipeline implements
\* too: the two models agree on what may become of it.
THEOREM BatchImplementsCredit == Spec => ImplementsPitchCredit
<1>1. Init => EachCredit!CreditInit
  BY DEF Init, EachCredit!CreditInit, Credit
<1>2. RowInv /\ [Next]_batchVars => [EachCredit!CreditNext]_Credit
  BY CreditStep
<1> QED  BY <1>1, <1>2, RowInit, RowStep, PTL DEF Spec, ImplementsPitchCredit,
         EachCredit!CreditSpec

=============================================================================
