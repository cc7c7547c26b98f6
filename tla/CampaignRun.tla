----------------------------- MODULE CampaignRun -----------------------------
(***************************************************************************)
(* One campaign and its discovery run: the requests that start it, the job *)
(* of the discovery worker, the posts that bring its results back, and the *)
(* scheduled job that fails a run nobody reported on.                      *)
(*                                                                         *)
(* Each handler is a thread of the API that reads, works and writes in     *)
(* separate steps; others run between them.  What a delivery found is only *)
(* its outcome here: which leads it stored makes no difference to the run. *)
(*                                                                         *)
(* markCampaignReady writes READY whatever the status is by then           *)
(* (campaign.service.ts:148-154).  The code has nothing against two of     *)
(* them that overlap; the second can then take a campaign that runs back   *)
(* to READY.  The two properties below hold while no two overlap: runs     *)
(* have one Editor, the theorems (DiscoveryProofs) assume EditorsTakeTurns.*)
(***************************************************************************)
EXTENDS Integers, FiniteSets

CONSTANTS
  Editor,       \* requests that mark the campaign READY
  RunRequest,   \* requests that run it
  Delivery,     \* posts of the discovery worker that reach the API
  Scheduler,    \* schedulers that run the expiry job
  JobAttempts,  \* attempts of the discovery job
  MaxPosts,     \* posts of one report before the worker gives up
  MaxDeaths,    \* bound on handlers and workers that die
  Nobody

ASSUME RunAssumption ==
  /\ {JobAttempts, MaxPosts} \subseteq Nat \ {0} /\ MaxDeaths \in Nat
  /\ Nobody \notin RunRequest \cup Delivery \cup Scheduler
  /\ Scheduler \cap (RunRequest \cup Delivery) = {} /\ "lost" \notin Scheduler

VARIABLES
  campaignStatus,  \* Campaign.status
  execution,       \* its CampaignExecution: status, and whether triggeredAt is set
  lease,           \* the scheduler with the ingest lease, or "lost"
  edit,            \* what each editor's request is doing
  request,         \* what each run request is doing
  discovery,       \* the job of the execution
  delivery,        \* what the handler of each post is doing
  expiry,          \* what each scheduler is doing
  started,         \* requests that moved the campaign to RUNNING
  finalizedBy,     \* whose finalizeExecution committed
  deaths

runVars == <<campaignStatus, execution, lease, edit, request, discovery,
             delivery, expiry, started, finalizedBy, deaths>>
rowVars == <<campaignStatus, execution, lease, finalizedBy>>

CampaignStatus == {"DRAFT", "READY", "RUNNING", "PROCESSING", "COMPLETED", "FAILED"}

\* CAMPAIGN_STATUS_TRANSITIONS.
Transitions == [DRAFT      |-> {"READY"},
                READY      |-> {"DRAFT", "RUNNING"},
                RUNNING    |-> {"PROCESSING", "FAILED"},
                PROCESSING |-> {"COMPLETED", "FAILED"},
                COMPLETED  |-> {},
                FAILED     |-> {}]

RunInit ==
  /\ campaignStatus = "DRAFT"
  /\ execution = [status |-> "none", triggered |-> FALSE]
  /\ lease = Nobody
  /\ edit = [e \in Editor |-> "idle"]
  /\ request = [r \in RunRequest |-> "idle"]
  /\ discovery = [state |-> "none", attempt |-> 1, report |-> "results",
                  tries |-> 0, awaits |-> Nobody]
  /\ delivery = [d \in Delivery |-> [pc |-> "idle", report |-> "results", seen |-> "DRAFT"]]
  /\ expiry = [s \in Scheduler |-> [pc |-> "idle", seen |-> "DRAFT"]]
  /\ started = {} /\ finalizedBy = {} /\ deaths = 0

EditGoes(e, pc) == edit' = [edit EXCEPT ![e] = pc]
RequestGoes(r, pc) == request' = [request EXCEPT ![r] = pc]
DeliveryGoes(d, pc) == delivery' = [delivery EXCEPT ![d].pc = pc]
ExpiryGoes(s, pc) == expiry' = [expiry EXCEPT ![s].pc = pc]

\* The campaign written and the execution left to a later write.
Faulty_Finalize(who, seen, outcome) ==
  /\ outcome \in Transitions[seen]
  /\ campaignStatus' = outcome
  /\ lease' = Nobody
  /\ finalizedBy' = finalizedBy \cup {who}
  /\ UNCHANGED execution

\* finalizeExecution: both rows in one transaction, judged by the campaign
\* status the caller read, and whatever the rows say by now.
Finalize(who, seen, outcome) ==
  /\ outcome \in Transitions[seen]
  /\ campaignStatus' = outcome
  /\ execution' = [execution EXCEPT !.status = outcome]
  /\ lease' = Nobody
  /\ finalizedBy' = finalizedBy \cup {who}

-----------------------------------------------------------------------------
(* Preparing and starting a run.                                            *)

\* markCampaignReady checks what it read and writes unconditionally.
ReadForReady(e) ==
  /\ edit[e] = "idle" /\ "READY" \in Transitions[campaignStatus]
  /\ EditGoes(e, "read")
  /\ UNCHANGED <<rowVars, request, discovery, delivery, expiry, started, deaths>>

MarkCampaignReady(e) ==
  /\ edit[e] = "read"
  /\ campaignStatus' = "READY"
  /\ EditGoes(e, "done")
  /\ UNCHANGED <<execution, lease, finalizedBy, request, discovery, delivery, expiry, started, deaths>>

\* runCampaign: an earlier execution is replayed or reported as in progress,
\* and a campaign that may not run is refused.
RunCampaign(r) ==
  /\ request[r] = "idle"
  /\ RequestGoes(r, IF execution.status = "none" /\ "RUNNING" \in Transitions[campaignStatus]
                    THEN "checked" ELSE "done")
  /\ UNCHANGED <<rowVars, edit, discovery, delivery, expiry, started, deaths>>

\* prepareCampaignRun: one conditional update, the gate of concurrent requests.
PrepareCampaignRun(r) ==
  /\ request[r] = "checked"
  /\ \/ /\ "RUNNING" \in Transitions[campaignStatus]
        /\ campaignStatus' = "RUNNING"
        /\ started' = started \cup {r}
        /\ RequestGoes(r, "running")
     \/ /\ "RUNNING" \notin Transitions[campaignStatus]
        /\ RequestGoes(r, "done")
        /\ UNCHANGED <<campaignStatus, started>>
  /\ UNCHANGED <<execution, lease, finalizedBy, edit, discovery, delivery, expiry, deaths>>

CreateExecution(r) ==
  /\ request[r] = "running"
  /\ campaignStatus' = "PROCESSING"
  /\ execution' = [status |-> "RUNNING", triggered |-> FALSE]
  /\ RequestGoes(r, "created")
  /\ UNCHANGED <<lease, finalizedBy, edit, discovery, delivery, expiry, started, deaths>>

\* provider.trigger: the job is queued, or the run fails at once.
TriggerDiscovery(r) ==
  /\ request[r] = "created"
  /\ \/ /\ discovery' = [discovery EXCEPT !.state = "waiting"]
        /\ RequestGoes(r, "enqueued")
        /\ UNCHANGED rowVars
     \/ /\ Finalize(r, "PROCESSING", "FAILED")
        /\ RequestGoes(r, "done")
        /\ UNCHANGED discovery
  /\ UNCHANGED <<edit, delivery, expiry, started, deaths>>

\* A write that fails is taken for a trigger that failed, the job queued or not.
MarkTriggered(r) ==
  /\ request[r] = "enqueued"
  /\ \/ /\ execution' = [execution EXCEPT !.triggered = TRUE]
        /\ UNCHANGED <<campaignStatus, lease, finalizedBy>>
     \/ Finalize(r, "PROCESSING", "FAILED")
  /\ RequestGoes(r, "done")
  /\ UNCHANGED <<edit, discovery, delivery, expiry, started, deaths>>

\* The process dies between two of those writes.
RequestDies(r) ==
  /\ request[r] \in {"running", "created", "enqueued"} /\ deaths < MaxDeaths
  /\ deaths' = deaths + 1
  /\ RequestGoes(r, "done")
  /\ UNCHANGED <<rowVars, edit, discovery, delivery, expiry, started>>

-----------------------------------------------------------------------------
(* The job of the discovery worker.                                         *)

JobVars == <<rowVars, edit, request, expiry, started>>

\* jobParamsFetcher: a run that is over is skipped.
JobStarts ==
  /\ discovery.state = "waiting"
  /\ discovery' = [discovery EXCEPT !.state = IF execution.status = "RUNNING" THEN "searching" ELSE "gone"]
  /\ UNCHANGED <<JobVars, delivery, deaths>>

\* The attempt throws: BullMQ runs the job again while attempts are left.
Retried(job) == [job EXCEPT !.state = "waiting", !.attempt = @ + 1, !.report = "results", !.tries = 0]

Reports(job, outcome) == [job EXCEPT !.state = "posting", !.report = outcome, !.tries = 0]

SearchEnds ==
  /\ discovery.state = "searching"
  /\ \/ discovery' = Reports(discovery, "results")
     \/ discovery.attempt < JobAttempts /\ discovery' = Retried(discovery)
     \/ discovery' = Reports(discovery, "error")  \* permanent, or the last attempt
  /\ UNCHANGED <<JobVars, delivery, deaths>>

\* A post of the report reaches the API, or is lost on the way.
JobPosts(d) ==
  /\ discovery.state = "posting" /\ discovery.awaits = Nobody /\ discovery.tries < MaxPosts
  /\ delivery[d].pc = "idle"
  /\ discovery' = [discovery EXCEPT !.tries = @ + 1, !.awaits = d]
  /\ delivery' = [delivery EXCEPT ![d].pc = "arrived", ![d].report = discovery.report]
  /\ UNCHANGED <<JobVars, deaths>>

PostLost ==
  /\ discovery.state = "posting" /\ discovery.awaits = Nobody /\ discovery.tries < MaxPosts
  /\ discovery' = [discovery EXCEPT !.tries = @ + 1]
  /\ UNCHANGED <<JobVars, delivery, deaths>>

\* An answer, or none within 30 s, the handler at work or not.
JobAnswered ==
  /\ discovery.state = "posting" /\ discovery.awaits # Nobody
  /\ IF delivery[discovery.awaits].pc = "done"
       THEN discovery' = [discovery EXCEPT !.state = "gone", !.awaits = Nobody]
       ELSE discovery' = [discovery EXCEPT !.awaits = Nobody]
  /\ UNCHANGED <<JobVars, delivery, deaths>>

\* Results nobody took are a failed attempt; a failure nobody took ends the
\* job and leaves the run to its expiry.
ReporterGivesUp ==
  /\ discovery.state = "posting" /\ discovery.awaits = Nobody /\ discovery.tries = MaxPosts
  /\ discovery' = IF discovery.attempt < JobAttempts THEN Retried(discovery)
                  ELSE IF discovery.report = "results" THEN Reports(discovery, "error")
                  ELSE [discovery EXCEPT !.state = "gone"]
  /\ UNCHANGED <<JobVars, delivery, deaths>>

WorkerDies ==
  /\ discovery.state \in {"searching", "posting"} /\ deaths < MaxDeaths
  /\ deaths' = deaths + 1
  /\ discovery' = [discovery EXCEPT !.state = "waiting", !.report = "results",
                                    !.tries = 0, !.awaits = Nobody]
  /\ UNCHANGED <<JobVars, delivery>>

-----------------------------------------------------------------------------
(* handleDiscoveryResults.                                                  *)

HandlerVars == <<edit, request, discovery, expiry, started>>

\* A run already resolved is answered as a duplicate.
Receive(d) ==
  /\ delivery[d].pc = "arrived"
  /\ delivery' = [delivery EXCEPT ![d].pc = IF execution.status = "RUNNING" THEN "read" ELSE "done",
                                  ![d].seen = campaignStatus]
  /\ UNCHANGED <<rowVars, HandlerVars, deaths>>

\* ingestBusinesses goes through the records one by one: minutes may pass.
Ingest(d) ==
  /\ delivery[d].pc = "read" /\ delivery[d].report = "results"
  /\ DeliveryGoes(d, "ingested")
  /\ UNCHANGED <<rowVars, HandlerVars, deaths>>

\* FAILED too when every business found failed to ingest.  The answer is an
\* error when the status read does not allow the outcome.
DeliveryFinalizes(d) ==
  /\ delivery[d].pc = "ingested" \/ (delivery[d].pc = "read" /\ delivery[d].report = "error")
  /\ IF "FAILED" \in Transitions[delivery[d].seen]
       THEN /\ \E outcome \in {"COMPLETED", "FAILED"} :
                 /\ delivery[d].report = "error" => outcome = "FAILED"
                 /\ Finalize(d, delivery[d].seen, outcome)
            /\ DeliveryGoes(d, "done")
       ELSE DeliveryGoes(d, "dead") /\ UNCHANGED rowVars
  /\ UNCHANGED <<HandlerVars, deaths>>

HandlerDies(d) ==
  /\ delivery[d].pc \in {"read", "ingested"} /\ deaths < MaxDeaths
  /\ deaths' = deaths + 1
  /\ DeliveryGoes(d, "dead")
  /\ UNCHANGED <<rowVars, HandlerVars>>

-----------------------------------------------------------------------------
(* expireStaleExecutions.                                                   *)

ExpiryVars == <<edit, request, discovery, delivery, started>>

\* The runs triggered long ago and still RUNNING.
ScanStale(s) ==
  /\ expiry[s].pc = "idle" /\ execution = [status |-> "RUNNING", triggered |-> TRUE]
  /\ expiry' = [expiry EXCEPT ![s] = [pc |-> "scanned", seen |-> campaignStatus]]
  /\ UNCHANGED <<rowVars, ExpiryVars, deaths>>

\* The lease without the condition on the execution's status.
Faulty_AcquireIngestLease(s) ==
  /\ expiry[s].pc = "scanned"
  /\ IF lease = Nobody
       THEN lease' = s /\ ExpiryGoes(s, "leased")
       ELSE UNCHANGED lease /\ ExpiryGoes(s, "idle")
  /\ UNCHANGED <<campaignStatus, execution, finalizedBy, ExpiryVars, deaths>>

\* acquireIngestLease: one conditional update.
AcquireIngestLease(s) ==
  /\ expiry[s].pc = "scanned"
  /\ IF execution.status = "RUNNING" /\ lease = Nobody
       THEN lease' = s /\ ExpiryGoes(s, "leased")
       ELSE UNCHANGED lease /\ ExpiryGoes(s, "idle")
  /\ UNCHANGED <<campaignStatus, execution, finalizedBy, ExpiryVars, deaths>>

\* The run fails, or the lease is given back when finalizeExecution throws.
ExpireFinalizes(s) ==
  /\ expiry[s].pc = "leased"
  /\ IF "FAILED" \in Transitions[expiry[s].seen]
       THEN Finalize(s, expiry[s].seen, "FAILED")
       ELSE lease' = Nobody /\ UNCHANGED <<campaignStatus, execution, finalizedBy>>
  /\ ExpiryGoes(s, "idle")
  /\ UNCHANGED <<ExpiryVars, deaths>>

SchedulerDies(s) ==
  /\ expiry[s].pc = "leased" /\ deaths < MaxDeaths
  /\ deaths' = deaths + 1
  /\ lease' = IF lease = s THEN "lost" ELSE lease
  /\ ExpiryGoes(s, "idle")
  /\ UNCHANGED <<campaignStatus, execution, finalizedBy, ExpiryVars>>

\* A lease without an end: held until the run is over.
Faulty_LeaseExpires ==
  /\ lease = "lost" /\ execution.status # "RUNNING"
  /\ lease' = Nobody
  /\ UNCHANGED <<campaignStatus, execution, finalizedBy, ExpiryVars, expiry, deaths>>

LeaseExpires ==
  /\ lease = "lost"
  /\ lease' = Nobody
  /\ UNCHANGED <<campaignStatus, execution, finalizedBy, ExpiryVars, expiry, deaths>>

-----------------------------------------------------------------------------

RequestStep(r) == RunCampaign(r) \/ PrepareCampaignRun(r) \/ CreateExecution(r)
                    \/ TriggerDiscovery(r) \/ MarkTriggered(r)

JobStep == JobStarts \/ SearchEnds \/ (\E d \in Delivery : JobPosts(d)) \/ PostLost
             \/ JobAnswered \/ ReporterGivesUp

HandlerStep(d) == Receive(d) \/ Ingest(d) \/ DeliveryFinalizes(d)

ExpiryStep(s) == ScanStale(s) \/ AcquireIngestLease(s) \/ ExpireFinalizes(s)

RunNext ==
  \/ \E e \in Editor : ReadForReady(e) \/ MarkCampaignReady(e)
  \/ \E r \in RunRequest : RequestStep(r) \/ RequestDies(r)
  \/ JobStep \/ WorkerDies
  \/ \E d \in Delivery : HandlerStep(d) \/ HandlerDies(d)
  \/ \E s \in Scheduler : ExpiryStep(s) \/ SchedulerDies(s)
  \/ LeaseExpires

RunSpec == RunInit /\ [][RunNext]_runVars

\* The expiry job is scheduled again and again, and a lost lease runs out; of
\* the worker and the deliveries nothing is assumed.
RunFairness == WF_runVars(LeaseExpires) /\ \A s \in Scheduler : WF_runVars(ExpiryStep(s))

FairRunSpec == RunSpec /\ RunFairness

-----------------------------------------------------------------------------
(* Properties.                                                              *)

RunTypeOK ==
  /\ campaignStatus \in CampaignStatus
  /\ execution \in [status : {"none", "RUNNING", "COMPLETED", "FAILED"}, triggered : BOOLEAN]
  /\ lease \in Scheduler \cup {Nobody, "lost"}
  /\ edit \in [Editor -> {"idle", "read", "done"}]
  /\ request \in [RunRequest -> {"idle", "checked", "running", "created", "enqueued", "done"}]
  /\ discovery \in [state : {"none", "waiting", "searching", "posting", "gone"},
                    attempt : 1..JobAttempts, report : {"results", "error"},
                    tries : 0..MaxPosts, awaits : Delivery \cup {Nobody}]
  /\ delivery \in [Delivery -> [pc : {"idle", "arrived", "read", "ingested", "done", "dead"},
                                report : {"results", "error"}, seen : CampaignStatus]]
  /\ expiry \in [Scheduler -> [pc : {"idle", "scanned", "leased"}, seen : CampaignStatus]]
  /\ started \subseteq RunRequest
  /\ finalizedBy \subseteq RunRequest \cup Delivery \cup Scheduler
  /\ deaths \in 0..MaxDeaths

\* The campaign and its execution never tell different outcomes, whichever of
\* the concurrent handlers commits last ("so the two rows can never diverge
\* from a partial write", run.service.ts finalizeExecution).  Only while no two
\* markCampaignReady overlap, which the code does not see to: the unconditional
\* READY of the second may land on a campaign that is being run.
StatusPairAgrees ==
  /\ execution.status = "RUNNING" => campaignStatus = "PROCESSING"
  /\ execution.status \in {"COMPLETED", "FAILED"} => campaignStatus = execution.status
  /\ campaignStatus \in {"COMPLETED", "FAILED"} => execution.status = campaignStatus

\* Several schedulers expire a run at most once, also when one of them dies
\* holding the lease (expire-stale-runs.job.ts).  Only while no two
\* markCampaignReady overlap: a campaign put back to READY is started again, and
\* that start expires as well.
ExpiredOnce == Cardinality(finalizedBy \cap Scheduler) <= 1

\* A run whose trigger is recorded ends, whatever becomes of the worker.
TriggeredRunEnds == execution.triggered ~> execution.status # "RUNNING"
=============================================================================
