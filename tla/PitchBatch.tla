----------------------------- MODULE PitchBatch -----------------------------
(***************************************************************************)
(* Who owns a reserved credit: selection batches and the pitches they      *)
(* start.                                                                  *)
(*                                                                         *)
(* A selection request (selection.service.ts, reservePitchBatch) commits a *)
(* reservation, then creates one LeadPipeline per lead it can claim, then  *)
(* records how many it started and releases the rest.  Between those       *)
(* commits other requests run, pitches resolve, and the process may die.   *)
(* Each pitch resolves its credit once (pipeline.service.ts,               *)
(* resolvePipelineCredit): sent, refunded, or handed to another lead.      *)
(* What makes a pitch succeed or fail is PitchPipeline's subject; both      *)
(* implement PitchCredit.  Here a pitch may resolve at any time.              *)
(*                                                                         *)
(* A LeadPipeline is unique per campaign and lead, and a lead belongs to   *)
(* one campaign, so a lead and its pipeline share one identity.            *)
(***************************************************************************)
EXTENDS PitchWallet, FiniteSets

CONSTANTS
  Campaign,
  CampaignUser,      \* the owner of a campaign
  PipelineCampaign,  \* the campaign of a lead
  TargetCount,       \* how many leads a campaign may pitch
  Null

ASSUME BatchAssumption ==
  /\ CampaignUser \in [Campaign -> User]
  /\ PipelineCampaign \in [Pipeline -> Campaign]
  /\ TargetCount \in [Campaign -> 0..MaxRequest]
  /\ Null \notin Batch \cup Pipeline \cup Campaign
  /\ IsFiniteSet(Pipeline)

VARIABLES
  batch,     \* PitchBatch rows
  pipeline,  \* the credit columns of LeadPipeline rows
  call       \* the request behind each batch: what its process remembers

batchVars == <<walletVars, batch, pipeline, call>>

Outcome == {"none", "CONSUMED", "REFUNDED", "REPLACED"}

BatchRow ==
  [status: {"NONE", "PROCESSING", "COMPLETED"}, campaign: Campaign \cup {Null},
   requested: Nat, reserved: Nat, sent: Nat, failed: Nat, replaced: Nat]

PipelineRow ==
  [batch: Batch \cup {Null}, outcome: Outcome, replacedBy: Pipeline \cup {Null}]

Call ==
  [pc: {"idle", "selected", "reserved", "started", "done", "rejected", "dead"},
   campaign: Campaign \cup {Null}, requested: Nat,
   candidates: SUBSET Pipeline, started: SUBSET Pipeline]

Init ==
  /\ WalletInit
  /\ batch = [b \in Batch |->
       [status |-> "NONE", campaign |-> Null, requested |-> 0, reserved |-> 0,
        sent |-> 0, failed |-> 0, replaced |-> 0]]
  /\ pipeline = [p \in Pipeline |->
       [batch |-> Null, outcome |-> "none", replacedBy |-> Null]]
  /\ call = [b \in Batch |->
       [pc |-> "idle", campaign |-> Null, requested |-> 0,
        candidates |-> {}, started |-> {}]]

-----------------------------------------------------------------------------
(* The rows as the code reads them *)

Owner(b) == CampaignUser[batch[b].campaign]

PipelinesOf(b) == {p \in Pipeline : pipeline[p].batch = b}

\* Pitches whose credit is still reserved.
Open(b) == {p \in PipelinesOf(b) : pipeline[p].outcome = "none"}

Resolved(b, outcome) == {p \in PipelinesOf(b) : pipeline[p].outcome = outcome}

\* Leads of a campaign with no pipeline yet.  (Its other conditions, a valid
\* phone, the lead's status, the business not taken, only make it smaller.)
Selectable(c) == {p \in Pipeline : PipelineCampaign[p] = c /\ pipeline[p].batch = Null}

Selected(c) == {p \in Pipeline : PipelineCampaign[p] = c /\ pipeline[p].batch # Null}

RemainingSlots(c) ==
  IF Cardinality(Selected(c)) < TargetCount[c]
  THEN TargetCount[c] - Cardinality(Selected(c)) ELSE 0

-----------------------------------------------------------------------------
(* Selection.  The reads come first and hold no lock. *)

Picked(b, c, requested, candidates) ==
  /\ call[b].pc = "idle"
  /\ call' = [call EXCEPT ![b] =
       [pc |-> "selected", campaign |-> c, requested |-> requested,
        candidates |-> candidates, started |-> {}]]
  /\ UNCHANGED <<walletVars, batch, pipeline>>

\* Manual: the candidates are the request.
SelectLeads(b, c) ==
  \E leads \in (SUBSET Selectable(c)) \ {{}} :
    /\ Cardinality(leads) <= RemainingSlots(c)
    /\ Picked(b, c, Cardinality(leads), leads)

\* Auto: a count of slots, and as many eligible leads as there are.
AutoSelectLeads(b, c) ==
  \E requested \in 1..RemainingSlots(c), leads \in SUBSET Selectable(c) :
    /\ Cardinality(leads) <= requested
    /\ Picked(b, c, requested, leads)

\* reservePitchBatch, first transaction: the batch row and its reservation.
ReserveBatch(b) ==
  /\ call[b].pc = "selected"
  /\ ReservePitchCredits(CampaignUser[call[b].campaign], b, call[b].requested)
  /\ batch' = [batch EXCEPT ![b] =
       [status |-> "PROCESSING", campaign |-> call[b].campaign,
        requested |-> call[b].requested, reserved |-> 0,
        sent |-> 0, failed |-> 0, replaced |-> 0]]
  /\ call' = [call EXCEPT ![b].pc = "reserved"]
  /\ UNCHANGED pipeline

\* The same transaction rolled back: InsufficientPitchCreditsError.
InsufficientCredits(b) ==
  /\ call[b].pc = "selected"
  /\ wallet[CampaignUser[call[b].campaign]].available < call[b].requested
  /\ call' = [call EXCEPT ![b].pc = "rejected"]
  /\ UNCHANGED <<walletVars, batch, pipeline>>

\* startPipelines: claim each lead's business (another user may hold it),
\* insert the rows skipping leads that have one by now, and read back by
\* batchId which of them this call created.
StartPipelines(b) ==
  \E claimable \in SUBSET call[b].candidates :
    LET started == {p \in claimable : pipeline[p].batch = Null} IN
    /\ call[b].pc = "reserved"
    /\ pipeline' = [p \in Pipeline |->
         IF p \in started THEN [pipeline[p] EXCEPT !.batch = b] ELSE pipeline[p]]
    /\ call' = [call EXCEPT ![b] = [call[b] EXCEPT !.pc = "started", !.started = started]]
    /\ UNCHANGED <<walletVars, batch>>

\* The shortfall counted against the candidates instead of the rows created.
Faulty_RecordStarted(b) ==
  LET actual == Cardinality(call[b].candidates)
      shortfall == call[b].requested - actual IN
  /\ call[b].pc = "started"
  /\ IF shortfall > 0
     THEN ReleasePitchCredits(Owner(b), b, shortfall, "release")
     ELSE UNCHANGED walletVars
  /\ batch' = [batch EXCEPT ![b] =
       [batch[b] EXCEPT !.reserved = actual,
                        !.status = IF actual = 0 THEN "COMPLETED" ELSE batch[b].status]]
  /\ call' = [call EXCEPT ![b].pc = "done"]
  /\ UNCHANGED pipeline

\* The row written back as it was read, over what pitches counted meanwhile.
Faulty_StaleRecordStarted(b) ==
  LET actual == Cardinality(call[b].started)
      shortfall == call[b].requested - actual IN
  /\ call[b].pc = "started"
  /\ IF shortfall > 0
     THEN ReleasePitchCredits(Owner(b), b, shortfall, "release")
     ELSE UNCHANGED walletVars
  /\ batch' = [batch EXCEPT ![b] =
       [batch[b] EXCEPT !.reserved = actual, !.sent = 0, !.failed = 0, !.replaced = 0,
                        !.status = IF actual = 0 THEN "COMPLETED" ELSE batch[b].status]]
  /\ call' = [call EXCEPT ![b].pc = "done"]
  /\ UNCHANGED pipeline

\* reservePitchBatch, last transaction: the true count, and the shortfall back.
RecordStarted(b) ==
  LET actual == Cardinality(call[b].started)
      shortfall == call[b].requested - actual IN
  /\ call[b].pc = "started"
  /\ IF shortfall > 0
     THEN ReleasePitchCredits(Owner(b), b, shortfall, "release")
     ELSE UNCHANGED walletVars
  /\ batch' = [batch EXCEPT ![b] =
       [batch[b] EXCEPT !.reserved = actual,
                        !.status = IF actual = 0 THEN "COMPLETED" ELSE batch[b].status]]
  /\ call' = [call EXCEPT ![b].pc = "done"]
  /\ UNCHANGED pipeline

\* The process running the request dies between two of its commits.
CallCrashed(b) ==
  /\ call[b].pc \in {"reserved", "started"}
  /\ call' = [call EXCEPT ![b].pc = "dead"]
  /\ UNCHANGED <<walletVars, batch, pipeline>>

\* Without the check that the batch has no pipelines.
Faulty_RecoverStaleBatch(b) ==
  /\ call[b].pc = "dead"
  /\ batch[b].status = "PROCESSING" /\ batch[b].reserved = 0
  /\ ReleasePitchCredits(Owner(b), b, batch[b].requested, "release-stale")
  /\ batch' = [batch EXCEPT ![b].status = "COMPLETED"]
  /\ UNCHANGED <<pipeline, call>>

\* The batch closed without its credits given back.
Faulty_CloseStaleBatch(b) ==
  /\ call[b].pc = "dead"
  /\ batch[b].status = "PROCESSING" /\ batch[b].reserved = 0
  /\ PipelinesOf(b) = {}
  /\ batch' = [batch EXCEPT ![b].status = "COMPLETED"]
  /\ UNCHANGED <<walletVars, pipeline, call>>

\* recoverStaleBatches: only a batch older than STALE_BATCH_MS, which no live
\* request can still be working on.
RecoverStaleBatch(b) ==
  /\ call[b].pc = "dead"
  /\ batch[b].status = "PROCESSING" /\ batch[b].reserved = 0
  /\ PipelinesOf(b) = {}
  /\ ReleasePitchCredits(Owner(b), b, batch[b].requested, "release-stale")
  /\ batch' = [batch EXCEPT ![b].status = "COMPLETED"]
  /\ UNCHANGED <<pipeline, call>>

-----------------------------------------------------------------------------
(* resolvePipelineCredit.  The batch counters move only while PROCESSING,  *)
(* and the batch completes when they reach reservedCount.                  *)

CountOutcome(b, sent, failed) ==
  batch' = IF batch[b].status # "PROCESSING" THEN batch ELSE
    [batch EXCEPT ![b] =
      [batch[b] EXCEPT
        !.sent = batch[b].sent + sent,
        !.failed = batch[b].failed + failed,
        !.status = IF batch[b].sent + sent + batch[b].failed + failed >= batch[b].reserved
                   THEN "COMPLETED" ELSE "PROCESSING"]]

Unresolved(p) == pipeline[p].batch # Null /\ pipeline[p].outcome = "none"

\* The pitch was sent.
ConsumeCredit(p) ==
  LET b == pipeline[p].batch IN
  /\ Unresolved(p)
  /\ pipeline' = [pipeline EXCEPT ![p].outcome = "CONSUMED"]
  /\ ResolveReservedCredit(Owner(b), b, p, "CONSUME")
  /\ CountOutcome(b, 1, 0)
  /\ UNCHANGED call

\* Without the WHERE creditOutcome IS NULL of the claim.
Faulty_RefundCredit(p) ==
  LET b == pipeline[p].batch IN
  /\ pipeline[p].batch # Null
  /\ pipeline' = [pipeline EXCEPT ![p].outcome = "REFUNDED"]
  /\ ResolveReservedCredit(Owner(b), b, p, "REFUND")
  /\ CountOutcome(b, 0, 1)
  /\ UNCHANGED call

\* The pitch failed for good.
RefundCredit(p) ==
  LET b == pipeline[p].batch IN
  /\ Unresolved(p)
  /\ pipeline' = [pipeline EXCEPT ![p].outcome = "REFUNDED"]
  /\ ResolveReservedCredit(Owner(b), b, p, "REFUND")
  /\ CountOutcome(b, 0, 1)
  /\ UNCHANGED call

\* Without the unique (campaign, lead): any lead of the campaign will do.
Faulty_ReplaceCredit(p, q) ==
  LET b == pipeline[p].batch IN
  /\ Unresolved(p)
  /\ p # q /\ PipelineCampaign[q] = PipelineCampaign[p]
  /\ pipeline' = [pipeline EXCEPT
       ![p] = [pipeline[p] EXCEPT !.outcome = "REPLACED", !.replacedBy = q],
       ![q] = [pipeline[q] EXCEPT !.batch = b]]
  /\ batch' = IF batch[b].status # "PROCESSING" THEN batch
              ELSE [batch EXCEPT ![b].replaced = batch[b].replaced + 1]
  /\ UNCHANGED <<walletVars, call>>

\* The replaced pitch counted as a failed one as well.
Faulty_CountReplaced(p, q) ==
  LET b == pipeline[p].batch IN
  /\ Unresolved(p)
  /\ q \in Selectable(PipelineCampaign[p])
  /\ pipeline' = [pipeline EXCEPT
       ![p] = [pipeline[p] EXCEPT !.outcome = "REPLACED", !.replacedBy = q],
       ![q] = [pipeline[q] EXCEPT !.batch = b]]
  /\ CountOutcome(b, 0, 1)
  /\ UNCHANGED <<walletVars, call>>

\* The lead cannot be reached: claimReplacementLead gives its credit, still
\* reserved, to another lead of the campaign, in the same batch.
ReplaceCredit(p, q) ==
  LET b == pipeline[p].batch IN
  /\ Unresolved(p)
  /\ q \in Selectable(PipelineCampaign[p])
  /\ pipeline' = [pipeline EXCEPT
       ![p] = [pipeline[p] EXCEPT !.outcome = "REPLACED", !.replacedBy = q],
       ![q] = [pipeline[q] EXCEPT !.batch = b]]
  /\ batch' = IF batch[b].status # "PROCESSING" THEN batch
              ELSE [batch EXCEPT ![b].replaced = batch[b].replaced + 1]
  /\ UNCHANGED <<walletVars, call>>

-----------------------------------------------------------------------------
Granting ==
  /\ \E g \in Grant : GrantRecorded(g) \/ GrantApplied(g) \/ GrantCrashed(g)
  /\ UNCHANGED <<batch, pipeline, call>>

Selecting(b) ==
  \/ \E c \in Campaign : SelectLeads(b, c) \/ AutoSelectLeads(b, c)
  \/ ReserveBatch(b) \/ InsufficientCredits(b)
  \/ StartPipelines(b) \/ RecordStarted(b)
  \/ CallCrashed(b) \/ RecoverStaleBatch(b)

Resolving(p) ==
  ConsumeCredit(p) \/ RefundCredit(p) \/ \E q \in Pipeline : ReplaceCredit(p, q)

Next ==
  \/ Granting
  \/ \E b \in Batch : Selecting(b)
  \/ \E p \in Pipeline : Resolving(p)

Spec == Init /\ [][Next]_batchVars

\* A request that does not crash finishes, and the maintenance job keeps
\* running.  (Nothing promises here that a pitch ever gets its answer.)
Fairness ==
  \A b \in Batch :
    /\ WF_batchVars(StartPipelines(b)) /\ WF_batchVars(RecordStarted(b))
    /\ WF_batchVars(RecoverStaleBatch(b))

FairSpec == Spec /\ Fairness

-----------------------------------------------------------------------------
(* Properties *)

TypeOK ==
  /\ WalletTypeOK
  /\ batch \in [Batch -> BatchRow]
  /\ pipeline \in [Pipeline -> PipelineRow]
  /\ call \in [Batch -> Call]

\* Credits a batch still has to give back: asked for, never started.
Unstarted(b) ==
  CASE call[b].pc = "reserved" -> call[b].requested
    [] call[b].pc = "started" -> call[b].requested - Cardinality(call[b].started)
    [] OTHER -> 0

\* Every pitch whose outcome is open is backed by a reserved credit of its own
\* batch, and a batch whose request finished or was recovered holds not one
\* credit more: what the two commits of reservePitchBatch, the unique lead, the
\* replacements and recoverStaleBatches have to get right together.
OpenPitchesBacked ==
  \A b \in Batch :
    /\ call[b].pc # "dead" => held[b] = Cardinality(Open(b)) + Unstarted(b)
    /\ held[b] >= Cardinality(Open(b))

\* "A wallet with nothing reserved should be impossible here"
\* (resolveReservedCredit): no resolution ever finds the reservation gone, and
\* no release takes more than is reserved.
NoLedgerMismatch ==
  \A u \in User :
    alerts[u] = [t \in Resolution |-> 0] /\ wallet[u].reserved >= 0

\* The two guards against resolving a credit twice agree: the row's
\* creditOutcome and the ledger's referenceId tell the same story.
OutcomeMatchesLedger ==
  \A p \in Pipeline :
    /\ <<"CONSUME", p>> \in references <=> pipeline[p].outcome = "CONSUMED"
    /\ <<"REFUND", p>> \in references <=> pipeline[p].outcome = "REFUNDED"

\* The denormalised counters of a batch still PROCESSING are what its
\* pipelines say.
CountersAgree ==
  \A b \in Batch : batch[b].status = "PROCESSING" =>
    /\ batch[b].sent = Cardinality(Resolved(b, "CONSUMED"))
    /\ batch[b].failed = Cardinality(Resolved(b, "REFUNDED"))
    /\ batch[b].replaced = Cardinality(Resolved(b, "REPLACED"))

\* A batch whose counters reached its reservedCount has no pitch open.
CountedOutIsResolved ==
  \A b \in Batch :
    (batch[b].reserved > 0 /\ batch[b].sent + batch[b].failed >= batch[b].reserved)
      => Open(b) = {}

\* A replaced pitch handed its credit to exactly one lead, of the same batch,
\* which nobody else replaces: a chain of replacements carries one credit.
ReplacementCarriesCredit ==
  \A p, q \in Pipeline :
    /\ pipeline[p].outcome = "REPLACED" => pipeline[p].replacedBy # Null
    /\ (pipeline[p].replacedBy = q) =>
         /\ pipeline[q].batch = pipeline[p].batch
         /\ pipeline[q].replacedBy # p
         /\ \A r \in Pipeline \ {p} : pipeline[r].replacedBy # q

\* An outcome is written once: the claim WHERE creditOutcome IS NULL.  Of two
\* callers that settle a pitch at the same time one does nothing.
OutcomeFinal ==
  [][\A p \in Pipeline : pipeline[p].outcome # "none" =>
       pipeline'[p].outcome = pipeline[p].outcome]_batchVars

Credit ==
  [p \in Pipeline |->
    IF pipeline[p].batch = Null THEN "unstarted"
    ELSE IF pipeline[p].outcome = "none" THEN "open" ELSE pipeline[p].outcome]

EachCredit == INSTANCE PitchCredit WITH credit <- Credit

\* Seen from a pitch, selections that race and crash start its credit once, and
\* of two callers that settle it at the same time one does nothing: it is
\* consumed, refunded or handed to one lead without a pitch, for good.
ImplementsPitchCredit == EachCredit!CreditSpec

\* A request that died before it created a pitch gives all it reserved back.
EmptyBatchRecovered ==
  \A b \in Batch : (call[b].pc = "dead" /\ PipelinesOf(b) = {}) ~> held[b] = 0

(* A claim of the source the code does not keep *)

\* pipeline.service.ts:178: a batch completes when "every reserved slot has
\* now either sent or (finally) failed".
CompletedMeansResolved ==
  \A b \in Batch : batch[b].status = "COMPLETED" => Open(b) = {}

=============================================================================
