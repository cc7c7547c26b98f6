--------------------------- MODULE DiscoveryProofs ---------------------------
(***************************************************************************)
(* What discovery leads to, for any number of requests: campaign runs, the *)
(* businesses they find, the leads with their websites, and who may pitch  *)
(* a business.                                                             *)
(***************************************************************************)
EXTENDS CampaignRun, BusinessDirectory, LeadLife, Claims, FiniteSetTheorems, TLAPS

(***************************************************************************)
(* Campaign runs.  StatusPairAgrees and ExpiredOnce are about rows that    *)
(* five kinds of handlers write, judging by what they read long before.    *)
(* The induction needs what each of them may still rely on between its     *)
(* read and its write (StartersInv, EndersInv), and what a lease is worth  *)
(* (LeaseInv): a scheduler that lost its own finds the run over.           *)
(***************************************************************************)

Leased == {s \in Scheduler : expiry[s].pc = "leased"}
Expired == finalizedBy \cap Scheduler

RowsAgree ==
  /\ execution.status = "none" => campaignStatus \in {"DRAFT", "READY", "RUNNING"}
  /\ execution.status = "RUNNING" => campaignStatus = "PROCESSING"
  /\ execution.status \in {"COMPLETED", "FAILED"} => campaignStatus = execution.status

StartersInv ==
  /\ \A e \in Editor : edit[e] = "read" => campaignStatus = "DRAFT"
  /\ \A r \in RunRequest :
       /\ request[r] = "running" => campaignStatus = "RUNNING" /\ execution.status = "none"
       /\ request[r] \in {"created", "enqueued"} => execution.status # "none"
  /\ \A q, r \in RunRequest : request[q] = "running" /\ request[r] = "running" => q = r

EndersInv ==
  /\ \A d \in Delivery : delivery[d].pc \in {"read", "ingested"}
                           => execution.status # "none" /\ delivery[d].seen = "PROCESSING"
  /\ \A s \in Scheduler : expiry[s].pc # "idle"
                           => execution.status # "none" /\ expiry[s].seen = "PROCESSING"

LeaseInv ==
  /\ \A s \in Leased : lease = s \/ execution.status # "RUNNING"
  /\ \A s, t \in Leased : s = t
  /\ \A s \in Expired : execution.status \in {"COMPLETED", "FAILED"} /\ Leased = {}
  /\ \A s, t \in Expired : s = t

RunInv == RunTypeOK /\ RowsAgree /\ StartersInv /\ EndersInv /\ LeaseInv

\* No two requests mark the campaign READY at the same time.  The update of
\* markCampaignReady is not conditional on the status it judged by: of two
\* that overlap, the second can take a campaign that runs back to READY.
EditorsTakeTurns == \A g, h \in Editor : edit[g] = "read" /\ edit[h] = "read" => g = h

LEMMA RunStarts == RunInit => RunInv
<1> SUFFICES ASSUME RunInit PROVE RunInv
  OBVIOUS
<1>1. {JobAttempts, MaxPosts} \subseteq Nat \ {0} /\ MaxDeaths \in Nat
  BY RunAssumption
<1>2. RunTypeOK
  BY <1>1 DEF RunInit, RunTypeOK, CampaignStatus
<1>3. RowsAgree /\ StartersInv /\ EndersInv
  BY DEF RunInit, RowsAgree, StartersInv, EndersInv
<1>4. LeaseInv
  BY DEF RunInit, LeaseInv, Leased, Expired
<1> QED  BY <1>2, <1>3, <1>4 DEF RunInv

\* finalizeExecution ends both rows alike, for whoever read PROCESSING.
LEMMA FinalizeTypes ==
  ASSUME RunTypeOK, NEW w \in RunRequest \cup Delivery \cup Scheduler, NEW seen \in CampaignStatus,
         NEW o \in {"COMPLETED", "FAILED"}, Finalize(w, seen, o)
  PROVE  /\ campaignStatus' = o /\ execution' = [status |-> o, triggered |-> execution.triggered]
         /\ execution.triggered \in BOOLEAN
         /\ lease' = Nobody
         /\ finalizedBy' = finalizedBy \cup {w}
         /\ finalizedBy' \subseteq RunRequest \cup Delivery \cup Scheduler
  BY DEF RunTypeOK, Finalize

JobRecord == [state : {"none", "waiting", "searching", "posting", "gone"},
              attempt : 1..JobAttempts, report : {"results", "error"},
              tries : 0..MaxPosts, awaits : Delivery \cup {Nobody}]
PostRecord == [pc : {"idle", "arrived", "read", "ingested", "done", "dead"},
               report : {"results", "error"}, seen : CampaignStatus]
ExpiryRecord == [pc : {"idle", "scanned", "leased"}, seen : CampaignStatus]

\* The job of the discovery worker stays within its attempts and posts.
LEMMA JobKept ==
  ASSUME RunTypeOK,
         \/ JobStarts \/ PostLost \/ JobAnswered \/ SearchEnds \/ ReporterGivesUp \/ WorkerDies
         \/ \E d \in Delivery : JobPosts(d)
  PROVE  discovery' \in JobRecord
<1>1. /\ discovery \in JobRecord /\ discovery.attempt \in 1..JobAttempts /\ discovery.tries \in 0..MaxPosts
      /\ discovery.report \in {"results", "error"}
  BY DEF RunTypeOK, JobRecord
<1>2. JobAttempts \in Nat \ {0} /\ MaxPosts \in Nat \ {0}
  BY RunAssumption
<1>3. discovery.tries < MaxPosts => discovery.tries + 1 \in 0..MaxPosts
  BY <1>1, <1>2
<1>4. discovery.attempt < JobAttempts => discovery.attempt + 1 \in 1..JobAttempts
  BY <1>1, <1>2
<1>5. 0 \in 0..MaxPosts
  BY <1>2
<1>6. \A o \in {"results", "error"} : Reports(discovery, o) \in JobRecord
  BY <1>1, <1>5 DEF Reports, JobRecord
<1>7. discovery.attempt < JobAttempts => Retried(discovery) \in JobRecord
  BY <1>1, <1>4, <1>5 DEF Retried, JobRecord
<1>8. CASE JobStarts
  BY <1>1, <1>8 DEF JobStarts, JobRecord
<1>9. CASE PostLost
  BY <1>1, <1>3, <1>9 DEF PostLost, JobRecord
<1>10. CASE JobAnswered
  BY <1>1, <1>10 DEF JobAnswered, JobRecord
<1>11. CASE SearchEnds
  BY <1>6, <1>7, <1>11 DEF SearchEnds
<1>12. CASE ReporterGivesUp
  BY <1>1, <1>6, <1>7, <1>12 DEF ReporterGivesUp, JobRecord
<1>13. CASE WorkerDies
  BY <1>1, <1>5, <1>13 DEF WorkerDies, JobRecord
<1>14. ASSUME NEW d \in Delivery, JobPosts(d) PROVE discovery' \in JobRecord
  BY <1>1, <1>3, <1>14 DEF JobPosts, JobRecord
<1> QED  BY <1>8, <1>9, <1>10, <1>11, <1>12, <1>13, <1>14

LEMMA ArrivedPost ==
  ASSUME NEW m \in PostRecord, NEW o \in {"results", "error"}
  PROVE  [m EXCEPT !.pc = "arrived", !.report = o] \in PostRecord
<1>1. PICK n : n = [m EXCEPT !.pc = "arrived"]
  OBVIOUS
<1>2. n \in PostRecord
  BY <1>1 DEF PostRecord
<1>3. [n EXCEPT !.report = o] \in PostRecord
  BY <1>2 DEF PostRecord
<1> QED  BY <1>1, <1>3

\* Every step keeps the types, however many requests edit the campaign.
LEMMA RunTypeStep ==
  ASSUME RunTypeOK, [RunNext]_runVars
  PROVE  RunTypeOK'
<1> USE DEF RunTypeOK, EditGoes, RequestGoes, DeliveryGoes, ExpiryGoes, rowVars, JobVars, HandlerVars, ExpiryVars
<1>0. {JobAttempts, MaxPosts} \subseteq Nat \ {0} /\ MaxDeaths \in Nat
  BY RunAssumption
<1>a. deaths < MaxDeaths /\ deaths' = deaths + 1 => deaths' \in 0..MaxDeaths
  BY <1>0
<1>1. ASSUME NEW e \in Editor, ReadForReady(e) \/ MarkCampaignReady(e) PROVE RunTypeOK'
  BY <1>1 DEF ReadForReady, MarkCampaignReady, CampaignStatus
<1>2. ASSUME NEW r \in RunRequest, RunCampaign(r) PROVE RunTypeOK'
  BY <1>2 DEF RunCampaign
<1>3. ASSUME NEW r \in RunRequest, PrepareCampaignRun(r) PROVE RunTypeOK'
  BY <1>3 DEF PrepareCampaignRun, CampaignStatus
<1>4. ASSUME NEW r \in RunRequest, CreateExecution(r) PROVE RunTypeOK'
  BY <1>4 DEF CreateExecution, CampaignStatus
<1>5. ASSUME NEW r \in RunRequest, TriggerDiscovery(r) PROVE RunTypeOK'
  <2>1. CASE /\ discovery' = [discovery EXCEPT !.state = "waiting"]
             /\ RequestGoes(r, "enqueued") /\ UNCHANGED rowVars
    BY <1>5, <2>1 DEF TriggerDiscovery
  <2>2. CASE Finalize(r, "PROCESSING", "FAILED") /\ RequestGoes(r, "done") /\ UNCHANGED discovery
    BY <1>5, <2>2, FinalizeTypes DEF TriggerDiscovery, CampaignStatus
  <2> QED  BY <1>5, <2>1, <2>2 DEF TriggerDiscovery
<1>6. ASSUME NEW r \in RunRequest, MarkTriggered(r) PROVE RunTypeOK'
  <2>1. CASE execution' = [execution EXCEPT !.triggered = TRUE] /\ UNCHANGED <<campaignStatus, lease, finalizedBy>>
    BY <1>6, <2>1 DEF MarkTriggered
  <2>2. CASE Finalize(r, "PROCESSING", "FAILED")
    BY <1>6, <2>2, FinalizeTypes DEF MarkTriggered, CampaignStatus
  <2> QED  BY <1>6, <2>1, <2>2 DEF MarkTriggered
<1>7. ASSUME NEW r \in RunRequest, RequestDies(r) PROVE RunTypeOK'
  BY <1>7, <1>a DEF RequestDies
<1>8. CASE JobStarts \/ PostLost \/ JobAnswered \/ SearchEnds \/ ReporterGivesUp
  <2>1. discovery' \in JobRecord
    BY <1>8, JobKept
  <2> QED
    BY <1>8, <2>1 DEF JobStarts, PostLost, JobAnswered, SearchEnds, ReporterGivesUp, JobRecord
<1>10. ASSUME NEW d \in Delivery, JobPosts(d) PROVE RunTypeOK'
  <2>1. discovery' \in JobRecord
    BY <1>10, JobKept
  <2>2. PICK o \in {"results", "error"} : o = discovery.report
    OBVIOUS
  <2>3. delivery' \in [Delivery -> PostRecord]
    <3>1. delivery' = [delivery EXCEPT ![d] = [delivery[d] EXCEPT !.pc = "arrived", !.report = o]]
      BY <1>10, <2>2 DEF JobPosts
    <3>2. PICK m \in PostRecord : m = delivery[d]
      BY DEF PostRecord
    <3>3. [m EXCEPT !.pc = "arrived", !.report = o] \in PostRecord
      BY ArrivedPost
    <3> QED  BY <3>1, <3>2, <3>3 DEF PostRecord
  <2> QED  BY <1>10, <2>1, <2>3 DEF JobPosts, JobRecord, PostRecord
<1>11. CASE WorkerDies
  <2>1. discovery' \in JobRecord
    BY <1>11, JobKept
  <2> QED  BY <1>a, <1>11, <2>1 DEF WorkerDies, JobRecord
<1>12. ASSUME NEW d \in Delivery, Receive(d) \/ Ingest(d) PROVE RunTypeOK'
  BY <1>12 DEF Receive, Ingest
<1>13. ASSUME NEW d \in Delivery, DeliveryFinalizes(d) PROVE RunTypeOK'
  <2>1. ASSUME NEW o \in {"COMPLETED", "FAILED"}, Finalize(d, delivery[d].seen, o), DeliveryGoes(d, "done")
        PROVE RunTypeOK'
    <3>1. delivery[d].seen \in CampaignStatus
      OBVIOUS
    <3>2. /\ campaignStatus' = o /\ execution' = [status |-> o, triggered |-> execution.triggered]
          /\ execution.triggered \in BOOLEAN /\ lease' = Nobody
          /\ finalizedBy' \subseteq RunRequest \cup Delivery \cup Scheduler
      BY <2>1, <3>1, FinalizeTypes
    <3> QED  BY <1>13, <2>1, <3>2 DEF DeliveryFinalizes, CampaignStatus
  <2>2. CASE DeliveryGoes(d, "dead") /\ UNCHANGED rowVars
    BY <1>13, <2>2 DEF DeliveryFinalizes
  <2> QED  BY <1>13, <2>1, <2>2 DEF DeliveryFinalizes
<1>14. ASSUME NEW d \in Delivery, HandlerDies(d) PROVE RunTypeOK'
  BY <1>14, <1>a DEF HandlerDies
<1>15. ASSUME NEW s \in Scheduler, ScanStale(s) PROVE RunTypeOK'
  BY <1>15 DEF ScanStale
<1>16. ASSUME NEW s \in Scheduler, AcquireIngestLease(s) PROVE RunTypeOK'
  <2>1. lease' \in Scheduler \cup {Nobody, "lost"}
    BY <1>16 DEF AcquireIngestLease
  <2>2. expiry' \in [Scheduler -> ExpiryRecord]
    <3>1. CASE ExpiryGoes(s, "leased")
      BY <3>1 DEF ExpiryRecord
    <3>2. CASE ExpiryGoes(s, "idle")
      BY <3>2 DEF ExpiryRecord
    <3> QED  BY <1>16, <3>1, <3>2 DEF AcquireIngestLease
  <2> QED  BY <1>16, <2>1, <2>2 DEF AcquireIngestLease, ExpiryRecord
<1>17. ASSUME NEW s \in Scheduler, ExpireFinalizes(s) PROVE RunTypeOK'
  <2>1. CASE Finalize(s, expiry[s].seen, "FAILED")
    BY <1>17, <2>1, FinalizeTypes DEF ExpireFinalizes, CampaignStatus
  <2>2. CASE lease' = Nobody /\ UNCHANGED <<campaignStatus, execution, finalizedBy>>
    BY <1>17, <2>2 DEF ExpireFinalizes
  <2> QED  BY <1>17, <2>1, <2>2 DEF ExpireFinalizes
<1>18. ASSUME NEW s \in Scheduler, SchedulerDies(s) PROVE RunTypeOK'
  BY <1>18, <1>a DEF SchedulerDies
<1>19. CASE LeaseExpires
  BY <1>19 DEF LeaseExpires
<1>20. CASE UNCHANGED runVars
  BY <1>20 DEF runVars
<1> QED
  BY <1>1, <1>2, <1>3, <1>4, <1>5, <1>6, <1>7, <1>8, <1>10, <1>11, <1>12, <1>13, <1>14, <1>15, <1>16,
     <1>17, <1>18, <1>19, <1>20 DEF RunNext, RequestStep, JobStep, HandlerStep, ExpiryStep

\* READY is reached from DRAFT only.
LEMMA OnlyDraftsReadied ==
  ASSUME NEW from \in CampaignStatus, "READY" \in Transitions[from]
  PROVE  from = "DRAFT"
<1>1. CASE from \in {"READY", "RUNNING"}
  BY <1>1 DEF Transitions
<1>2. CASE from \in {"PROCESSING", "COMPLETED", "FAILED"}
  BY <1>2 DEF Transitions
<1> QED  BY <1>1, <1>2 DEF CampaignStatus

\* Once there is an execution nobody is about to start one or to edit.
LEMMA NobodyStarts ==
  ASSUME RunInv, execution.status # "none"
  PROVE  /\ \A e \in Editor : edit[e] # "read"
         /\ \A r \in RunRequest : request[r] # "running"
         /\ campaignStatus \in {"PROCESSING", "COMPLETED", "FAILED"}
<1>1. execution.status \in {"none", "RUNNING", "COMPLETED", "FAILED"}
  BY DEF RunInv, RunTypeOK
<1>2. campaignStatus \in {"PROCESSING", "COMPLETED", "FAILED"}
  BY <1>1 DEF RunInv, RowsAgree
<1> QED  BY <1>2 DEF RunInv, StartersInv

\* What finalizeExecution leaves, by whoever read PROCESSING of an execution
\* there is: rows that agree, and a run that is over.
LEMMA FinalizeKeeps ==
  ASSUME RunInv, execution.status # "none",
         NEW w \in RunRequest \cup Delivery \cup Scheduler,
         NEW o \in {"COMPLETED", "FAILED"}, Finalize(w, "PROCESSING", o)
  PROVE  /\ RowsAgree' /\ execution'.status = o /\ execution'.status # "none" /\ lease' = Nobody
         /\ finalizedBy' = finalizedBy \cup {w}
<1>1. RunTypeOK /\ "PROCESSING" \in CampaignStatus
  BY DEF RunInv, CampaignStatus
<1>2. /\ campaignStatus' = o /\ execution' = [status |-> o, triggered |-> execution.triggered]
      /\ lease' = Nobody /\ finalizedBy' = finalizedBy \cup {w}
  BY <1>1, FinalizeTypes
<1>3. execution'.status = o
  BY <1>2
<1> QED  BY <1>2, <1>3 DEF RowsAgree

\* A request or a delivery ends the run: no scheduler is concerned.
LEMMA FinalizeKeepsLease ==
  ASSUME RunInv, execution.status # "none", NEW w \in RunRequest \cup Delivery,
         NEW o \in {"COMPLETED", "FAILED"}, Finalize(w, "PROCESSING", o), expiry' = expiry
  PROVE  LeaseInv'
<1>1. execution'.status = o /\ finalizedBy' = finalizedBy \cup {w}
  BY FinalizeKeeps
<1>2. w \notin Scheduler
  BY RunAssumption
<1>3. Expired' = Expired
  BY <1>1, <1>2 DEF Expired
<1>4. Leased' = Leased
  BY DEF Leased
<1> QED  BY <1>1, <1>3, <1>4 DEF RunInv, LeaseInv

\* Steps that write none of the rows, and none of the schedulers.
LEMMA RunRowsKept ==
  ASSUME RunInv, UNCHANGED <<rowVars, expiry>>
  PROVE  RowsAgree' /\ LeaseInv'
  BY DEF RunInv, rowVars, RowsAgree, LeaseInv, Leased, Expired

\* Every step keeps the rows, the handlers and the lease in step.
LEMMA RunStep ==
  ASSUME EditorsTakeTurns, RunInv, [RunNext]_runVars
  PROVE  RunInv'
<1> USE DEF EditGoes, RequestGoes, DeliveryGoes, ExpiryGoes
<1>t. RunTypeOK /\ RunTypeOK'
  BY RunTypeStep DEF RunInv
<1>i. RowsAgree /\ StartersInv /\ EndersInv /\ LeaseInv
  BY DEF RunInv
<1>1. ASSUME NEW e \in Editor, ReadForReady(e) PROVE RunInv'
  <2>1. campaignStatus = "DRAFT"
    <3>1. campaignStatus \in CampaignStatus /\ "READY" \in Transitions[campaignStatus]
      BY <1>t, <1>1 DEF ReadForReady, RunTypeOK
    <3> QED  BY <3>1, OnlyDraftsReadied
  <2>2. UNCHANGED <<rowVars, expiry, request, delivery>>
    BY <1>1 DEF ReadForReady
  <2>3. StartersInv'
    BY <1>i, <1>1, <2>1, <2>2 DEF ReadForReady, StartersInv, rowVars
  <2>4. EndersInv'
    BY <1>i, <2>2 DEF EndersInv, rowVars
  <2> QED  BY <1>t, <2>2, <2>3, <2>4, RunRowsKept DEF RunInv
<1>2. ASSUME NEW e \in Editor, MarkCampaignReady(e) PROVE RunInv'
  <2>1. campaignStatus = "DRAFT" /\ campaignStatus' = "READY" /\ execution.status = "none"
    BY <1>t, <1>i, <1>2 DEF MarkCampaignReady, StartersInv, RowsAgree, RunTypeOK
  <2>2. UNCHANGED <<execution, lease, finalizedBy, expiry, request, delivery>>
    BY <1>2 DEF MarkCampaignReady
  <2>3. \A g \in Editor : edit'[g] # "read"
    BY <1>t, <1>2 DEF MarkCampaignReady, EditorsTakeTurns, RunTypeOK
  <2>4. StartersInv'
    BY <1>i, <2>1, <2>2, <2>3 DEF StartersInv
  <2>5. EndersInv' /\ LeaseInv'
    BY <1>i, <2>2 DEF EndersInv, LeaseInv, Leased, Expired
  <2>6. RowsAgree'
    BY <2>1, <2>2 DEF RowsAgree
  <2> QED  BY <1>t, <2>4, <2>5, <2>6 DEF RunInv
<1>3. ASSUME NEW r \in RunRequest, RunCampaign(r) PROVE RunInv'
  <2>1. UNCHANGED <<rowVars, expiry, edit, delivery>>
    BY <1>3 DEF RunCampaign
  <2>2. request'[r] \in {"checked", "done"} /\ \A q \in RunRequest : q # r => request'[q] = request[q]
    BY <1>t, <1>3 DEF RunCampaign, RunTypeOK
  <2>3. StartersInv'
    BY <1>i, <2>1, <2>2 DEF StartersInv, rowVars
  <2>4. EndersInv'
    BY <1>i, <2>1 DEF EndersInv, rowVars
  <2> QED  BY <1>t, <2>1, <2>3, <2>4, RunRowsKept DEF RunInv
<1>4. ASSUME NEW r \in RunRequest, PrepareCampaignRun(r) PROVE RunInv'
  <2>1. UNCHANGED <<execution, lease, finalizedBy, expiry, edit, delivery>>
    BY <1>4 DEF PrepareCampaignRun
  <2>2. EndersInv' /\ LeaseInv'
    BY <1>i, <2>1 DEF EndersInv, LeaseInv, Leased, Expired
  <2>3. CASE "RUNNING" \in Transitions[campaignStatus]
    <3>1. campaignStatus = "READY" /\ campaignStatus' = "RUNNING"
      BY <1>t, <1>4, <2>3 DEF PrepareCampaignRun, Transitions, RunTypeOK, CampaignStatus
    <3>2. execution.status = "none"
      BY <1>t, <1>i, <3>1 DEF RowsAgree, RunTypeOK
    <3>3. request' = [request EXCEPT ![r] = "running"]
      BY <1>4, <2>3 DEF PrepareCampaignRun
    <3>4. RowsAgree'
      BY <2>1, <3>1, <3>2 DEF RowsAgree
    <3>5. \A q \in RunRequest : request[q] # "running"
      BY <1>i, <3>1 DEF StartersInv
    <3>6. /\ \A q \in RunRequest : q # r => request'[q] = request[q]
          /\ request'[r] = "running"
      BY <1>t, <3>3 DEF RunTypeOK
    <3>7. \A g \in Editor : edit'[g] # "read"
      BY <1>i, <2>1, <3>1 DEF StartersInv
    <3>8. StartersInv'
      BY <1>i, <2>1, <3>1, <3>2, <3>5, <3>6, <3>7 DEF StartersInv
    <3> QED  BY <1>t, <2>2, <3>4, <3>8 DEF RunInv
  <2>4. CASE "RUNNING" \notin Transitions[campaignStatus]
    <3>1. UNCHANGED <<rowVars, expiry>> /\ request' = [request EXCEPT ![r] = "done"]
      BY <1>4, <2>4 DEF PrepareCampaignRun, rowVars
    <3>2. StartersInv'
      BY <1>t, <1>i, <2>1, <3>1 DEF StartersInv, rowVars, RunTypeOK
    <3> QED  BY <1>t, <2>2, <3>1, <3>2, RunRowsKept DEF RunInv
  <2> QED  BY <2>3, <2>4
<1>5. ASSUME NEW r \in RunRequest, CreateExecution(r) PROVE RunInv'
  <2>1. /\ request[r] = "running" /\ campaignStatus' = "PROCESSING"
        /\ execution' = [status |-> "RUNNING", triggered |-> FALSE]
        /\ request' = [request EXCEPT ![r] = "created"]
        /\ UNCHANGED <<lease, finalizedBy, expiry, edit, delivery>>
    BY <1>5 DEF CreateExecution
  <2>2. execution.status = "none" /\ campaignStatus = "RUNNING" /\ execution'.status = "RUNNING"
    BY <1>i, <2>1 DEF StartersInv
  <2>3. \A q \in RunRequest : q # r => request[q] # "running" /\ request'[q] = request[q]
    BY <1>t, <1>i, <2>1 DEF StartersInv, RunTypeOK
  <2>4. request'[r] = "created"
    BY <1>t, <2>1 DEF RunTypeOK
  <2>5. StartersInv'
    BY <1>i, <2>1, <2>2, <2>3, <2>4 DEF StartersInv
  <2>6. /\ \A d \in Delivery : delivery[d].pc \notin {"read", "ingested"}
        /\ \A s \in Scheduler : expiry[s].pc = "idle"
    BY <1>i, <2>2 DEF EndersInv
  <2>7. EndersInv'
    BY <2>1, <2>6 DEF EndersInv
  <2>8. Leased = {} /\ Leased' = {} /\ Expired = {} /\ Expired' = {}
    BY <1>i, <2>1, <2>2, <2>6 DEF LeaseInv, Leased, Expired
  <2>9. LeaseInv' /\ RowsAgree'
    BY <2>1, <2>2, <2>8 DEF LeaseInv, RowsAgree
  <2> QED  BY <1>t, <2>5, <2>7, <2>9 DEF RunInv
<1>6. ASSUME NEW r \in RunRequest, TriggerDiscovery(r) \/ MarkTriggered(r) PROVE RunInv'
  <2>1. request[r] \in {"created", "enqueued"} /\ UNCHANGED <<edit, delivery, expiry>>
    BY <1>6 DEF TriggerDiscovery, MarkTriggered
  <2>2. execution.status # "none"
    BY <1>i, <2>1 DEF StartersInv
  <2>3. \E pc \in {"enqueued", "done"} : request' = [request EXCEPT ![r] = pc]
    BY <1>6 DEF TriggerDiscovery, MarkTriggered
  <2>4. \A q \in RunRequest : request'[q] = request[q] \/ request'[q] \in {"enqueued", "done"}
    BY <1>t, <2>3 DEF RunTypeOK
  <2>5. ASSUME execution'.status # "none" PROVE StartersInv' /\ EndersInv'
    <3>1. \A q \in RunRequest : request'[q] # "running"
      BY <2>2, <2>4, NobodyStarts
    <3>2. StartersInv'
      BY <2>1, <2>2, <2>5, <3>1, NobodyStarts DEF StartersInv
    <3>3. EndersInv'
      BY <1>i, <2>1, <2>5 DEF EndersInv
    <3> QED  BY <3>2, <3>3
  <2>6. CASE UNCHANGED rowVars
    BY <1>t, <2>1, <2>2, <2>5, <2>6, RunRowsKept DEF RunInv, rowVars
  <2>7. CASE execution' = [execution EXCEPT !.triggered = TRUE] /\ UNCHANGED <<campaignStatus, lease, finalizedBy>>
    <3>1. execution'.status = execution.status
      BY <1>t, <2>7 DEF RunTypeOK
    <3>2. RowsAgree' /\ LeaseInv'
      BY <1>i, <2>1, <2>7, <3>1 DEF RowsAgree, LeaseInv, Leased, Expired
    <3> QED  BY <1>t, <2>2, <2>5, <3>1, <3>2 DEF RunInv
  <2>8. CASE Finalize(r, "PROCESSING", "FAILED")
    BY <1>t, <2>1, <2>2, <2>5, <2>8, FinalizeKeeps, FinalizeKeepsLease DEF RunInv
  <2> QED  BY <1>6, <2>6, <2>7, <2>8 DEF TriggerDiscovery, MarkTriggered
<1>7. ASSUME NEW r \in RunRequest, RequestDies(r) PROVE RunInv'
  <2>1. UNCHANGED <<rowVars, expiry, edit, delivery>> /\ request' = [request EXCEPT ![r] = "done"]
    BY <1>7 DEF RequestDies
  <2>2. StartersInv'
    BY <1>t, <1>i, <2>1 DEF StartersInv, rowVars, RunTypeOK
  <2>3. EndersInv'
    BY <1>i, <2>1 DEF EndersInv, rowVars
  <2> QED  BY <1>t, <2>1, <2>2, <2>3, RunRowsKept DEF RunInv
<1>8. CASE JobStarts \/ PostLost \/ JobAnswered \/ SearchEnds \/ ReporterGivesUp \/ WorkerDies
  <2>1. UNCHANGED <<rowVars, expiry, edit, request, delivery>>
    BY <1>8 DEF JobStarts, PostLost, JobAnswered, SearchEnds, ReporterGivesUp, WorkerDies, JobVars
  <2>2. StartersInv' /\ EndersInv'
    BY <1>i, <2>1 DEF StartersInv, EndersInv, rowVars
  <2> QED  BY <1>t, <2>1, <2>2, RunRowsKept DEF RunInv
<1>9. ASSUME NEW d \in Delivery, JobPosts(d) PROVE RunInv'
  <2>1. UNCHANGED <<rowVars, expiry, edit, request>>
    BY <1>9 DEF JobPosts, JobVars
  <2>2. \A x \in Delivery : delivery'[x].pc = "arrived" \/ delivery'[x] = delivery[x]
    BY <1>t, <1>9 DEF JobPosts, RunTypeOK
  <2>3. StartersInv' /\ EndersInv'
    BY <1>i, <2>1, <2>2 DEF StartersInv, EndersInv, rowVars
  <2> QED  BY <1>t, <2>1, <2>3, RunRowsKept DEF RunInv
<1>10. ASSUME NEW d \in Delivery, Receive(d) \/ Ingest(d) \/ HandlerDies(d) PROVE RunInv'
  <2>1. UNCHANGED <<rowVars, expiry, edit, request>>
    BY <1>10 DEF Receive, Ingest, HandlerDies, HandlerVars
  <2>2. \A x \in Delivery : x # d => delivery'[x] = delivery[x]
    BY <1>t, <1>10 DEF Receive, Ingest, HandlerDies, RunTypeOK
  <2>3. ASSUME delivery'[d].pc \in {"read", "ingested"}
        PROVE  execution.status # "none" /\ delivery'[d].seen = "PROCESSING"
    <3>1. CASE Receive(d)
      <4>1. execution.status = "RUNNING"
        BY <1>t, <2>3, <3>1 DEF Receive, RunTypeOK
      <4> QED  BY <1>t, <1>i, <3>1, <4>1 DEF Receive, RunTypeOK, RowsAgree
    <3>2. CASE Ingest(d)
      BY <1>t, <1>i, <3>2 DEF Ingest, RunTypeOK, EndersInv
    <3>3. CASE HandlerDies(d)
      BY <1>t, <2>3, <3>3 DEF HandlerDies, RunTypeOK
    <3> QED  BY <1>10, <3>1, <3>2, <3>3
  <2>4. StartersInv' /\ EndersInv'
    BY <1>i, <2>1, <2>2, <2>3 DEF StartersInv, EndersInv, rowVars
  <2> QED  BY <1>t, <2>1, <2>4, RunRowsKept DEF RunInv
<1>11. ASSUME NEW d \in Delivery, DeliveryFinalizes(d) PROVE RunInv'
  <2>1. /\ execution.status # "none" /\ delivery[d].seen = "PROCESSING"
        /\ UNCHANGED <<edit, request, expiry>>
    BY <1>i, <1>11 DEF DeliveryFinalizes, EndersInv, HandlerVars
  <2>2. PICK o \in {"COMPLETED", "FAILED"} : Finalize(d, "PROCESSING", o)
    BY <1>11, <2>1 DEF DeliveryFinalizes, Transitions
  <2>3. delivery' = [delivery EXCEPT ![d].pc = "done"]
    BY <1>11, <2>1 DEF DeliveryFinalizes, Transitions
  <2>4. RowsAgree' /\ execution'.status # "none" /\ LeaseInv'
    BY <2>1, <2>2, FinalizeKeeps, FinalizeKeepsLease
  <2>5. StartersInv'
    BY <2>1, <2>4, NobodyStarts DEF StartersInv
  <2>6. \A x \in Delivery : delivery'[x] = delivery[x] \/ delivery'[x].pc = "done"
    BY <1>t, <2>3 DEF RunTypeOK
  <2>7. EndersInv'
    BY <1>i, <2>1, <2>4, <2>6 DEF EndersInv
  <2> QED  BY <1>t, <2>4, <2>5, <2>7 DEF RunInv
<1>12. ASSUME NEW s \in Scheduler, ScanStale(s) PROVE RunInv'
  <2>1. /\ UNCHANGED <<rowVars, edit, request, delivery>> /\ execution.status = "RUNNING"
        /\ expiry[s].pc = "idle" /\ expiry' = [expiry EXCEPT ![s] = [pc |-> "scanned", seen |-> campaignStatus]]
    BY <1>12 DEF ScanStale, ExpiryVars
  <2>2. campaignStatus = "PROCESSING"
    BY <1>i, <2>1 DEF RowsAgree
  <2>3. /\ expiry'[s].pc = "scanned" /\ expiry'[s].seen = "PROCESSING"
        /\ \A t \in Scheduler : t # s => expiry'[t] = expiry[t]
    BY <1>t, <2>1, <2>2 DEF RunTypeOK
  <2>4. EndersInv' /\ StartersInv'
    BY <1>i, <2>1, <2>3 DEF EndersInv, StartersInv, rowVars
  <2>5. Leased' = Leased
    BY <2>1, <2>3 DEF Leased
  <2>6. LeaseInv' /\ RowsAgree'
    BY <1>i, <2>1, <2>5 DEF LeaseInv, RowsAgree, Expired, rowVars
  <2> QED  BY <1>t, <2>4, <2>6 DEF RunInv
<1>13. ASSUME NEW s \in Scheduler, AcquireIngestLease(s) PROVE RunInv'
  <2>1. /\ UNCHANGED <<campaignStatus, execution, finalizedBy, edit, request, delivery>>
        /\ expiry[s].pc = "scanned"
    BY <1>13 DEF AcquireIngestLease, ExpiryVars
  <2>2. \E pc \in {"idle", "leased"} : expiry' = [expiry EXCEPT ![s].pc = pc]
    BY <1>13 DEF AcquireIngestLease
  <2>3. /\ expiry'[s].seen = expiry[s].seen
        /\ \A t \in Scheduler : t # s => expiry'[t] = expiry[t]
    BY <1>t, <2>2 DEF RunTypeOK
  <2>4. EndersInv' /\ StartersInv' /\ RowsAgree'
    BY <1>i, <2>1, <2>3 DEF EndersInv, StartersInv, RowsAgree
  <2>5. CASE execution.status = "RUNNING" /\ lease = Nobody
    <3>1. lease' = s /\ expiry' = [expiry EXCEPT ![s].pc = "leased"]
      BY <1>13, <2>5 DEF AcquireIngestLease
    <3>2. Leased = {}
      BY <1>i, <2>5, RunAssumption DEF LeaseInv, Leased
    <3>3. Leased' = {s}
      BY <1>t, <2>3, <3>1, <3>2 DEF Leased, RunTypeOK
    <3>4. Expired = {} /\ Expired' = {}
      BY <1>i, <2>1, <2>5 DEF LeaseInv, Expired
    <3> QED  BY <1>t, <2>4, <3>1, <3>3, <3>4 DEF RunInv, LeaseInv
  <2>6. CASE ~(execution.status = "RUNNING" /\ lease = Nobody)
    <3>1. lease' = lease /\ expiry' = [expiry EXCEPT ![s].pc = "idle"]
      BY <1>13, <2>6 DEF AcquireIngestLease
    <3>2. Leased' = Leased
      BY <1>t, <2>1, <2>3, <3>1 DEF Leased, RunTypeOK
    <3>3. LeaseInv'
      BY <1>i, <2>1, <3>1, <3>2 DEF LeaseInv, Expired
    <3> QED  BY <1>t, <2>4, <3>3 DEF RunInv
  <2> QED  BY <2>5, <2>6
<1>14. ASSUME NEW s \in Scheduler, ExpireFinalizes(s) PROVE RunInv'
  <2>1. expiry[s].pc = "leased" /\ UNCHANGED <<edit, request, delivery>>
    BY <1>14 DEF ExpireFinalizes, ExpiryVars
  <2>2. execution.status # "none" /\ expiry[s].seen = "PROCESSING"
    BY <1>i, <2>1 DEF EndersInv
  <2>3. Finalize(s, "PROCESSING", "FAILED") /\ expiry' = [expiry EXCEPT ![s].pc = "idle"]
    BY <1>14, <2>2 DEF ExpireFinalizes, Transitions
  <2>4. /\ RowsAgree' /\ execution'.status = "FAILED" /\ finalizedBy' = finalizedBy \cup {s}
    BY <2>2, <2>3, FinalizeKeeps
  <2>5. StartersInv'
    BY <2>1, <2>2, <2>4, NobodyStarts DEF StartersInv
  <2>6. expiry'[s].pc = "idle" /\ \A t \in Scheduler : t # s => expiry'[t] = expiry[t]
    BY <1>t, <2>3 DEF RunTypeOK
  <2>7. EndersInv'
    BY <1>i, <2>1, <2>4, <2>6 DEF EndersInv
  <2>8. s \in Leased /\ Leased' = {}
    BY <1>i, <2>1, <2>6 DEF LeaseInv, Leased
  <2>9. Expired' = {s}
    BY <1>i, <2>4, <2>8 DEF LeaseInv, Expired
  <2> QED  BY <1>t, <2>4, <2>5, <2>7, <2>8, <2>9 DEF RunInv, LeaseInv
<1>15. ASSUME NEW s \in Scheduler, SchedulerDies(s) PROVE RunInv'
  <2>1. /\ UNCHANGED <<campaignStatus, execution, finalizedBy, edit, request, delivery>>
        /\ expiry' = [expiry EXCEPT ![s].pc = "idle"] /\ lease' = IF lease = s THEN "lost" ELSE lease
    BY <1>15 DEF SchedulerDies, ExpiryVars
  <2>2. expiry'[s].pc = "idle" /\ \A t \in Scheduler : t # s => expiry'[t] = expiry[t]
    BY <1>t, <2>1 DEF RunTypeOK
  <2>3. EndersInv' /\ StartersInv' /\ RowsAgree'
    BY <1>i, <2>1, <2>2 DEF EndersInv, StartersInv, RowsAgree
  <2>4. Leased' = Leased \ {s}
    BY <2>2 DEF Leased
  <2>5. LeaseInv'
    BY <1>i, <2>1, <2>4 DEF LeaseInv, Expired
  <2> QED  BY <1>t, <2>3, <2>5 DEF RunInv
<1>16. CASE LeaseExpires
  <2>1. /\ lease = "lost" /\ UNCHANGED <<campaignStatus, execution, finalizedBy, edit, request, delivery, expiry>>
    BY <1>16 DEF LeaseExpires, ExpiryVars
  <2>2. EndersInv' /\ StartersInv' /\ RowsAgree'
    BY <1>i, <2>1 DEF EndersInv, StartersInv, RowsAgree
  <2>3. \A s \in Leased : lease # s
    BY <2>1, RunAssumption DEF Leased
  <2>4. LeaseInv'
    BY <1>i, <2>1, <2>3 DEF LeaseInv, Leased, Expired
  <2> QED  BY <1>t, <2>2, <2>4 DEF RunInv
<1>17. CASE UNCHANGED runVars
  <2>1. UNCHANGED <<rowVars, expiry, edit, request, delivery>>
    BY <1>17 DEF runVars, rowVars
  <2>2. StartersInv' /\ EndersInv'
    BY <1>i, <2>1 DEF StartersInv, EndersInv, rowVars
  <2> QED  BY <1>t, <2>1, <2>2, RunRowsKept DEF RunInv
<1> QED
  BY <1>1, <1>2, <1>3, <1>4, <1>5, <1>6, <1>7, <1>8, <1>9, <1>10, <1>11, <1>12, <1>13, <1>14, <1>15, <1>16, <1>17
     DEF RunNext, RequestStep, JobStep, HandlerStep, ExpiryStep

LEMMA RunInvariant == RunSpec /\ []EditorsTakeTurns => []RunInv
<1>1. EditorsTakeTurns /\ RunInv /\ [RunNext]_runVars => RunInv'
  BY RunStep
<1> QED  BY RunStarts, <1>1, PTL DEF RunSpec

\* The rows of a campaign run and whatever works on them keep their types,
\* also when several requests mark the campaign READY at once.
THEOREM RunTypesCorrect == RunSpec => []RunTypeOK
<1>1. RunInit => RunTypeOK
  BY RunStarts DEF RunInv
<1>2. RunTypeOK /\ [RunNext]_runVars => RunTypeOK'
  BY RunTypeStep
<1> QED  BY <1>1, <1>2, PTL DEF RunSpec

\* The campaign and its execution never tell different outcomes, for any number
\* of run requests, deliveries and schedulers (finalizeExecution), unless two
\* requests mark the campaign READY at once.
THEOREM PairsAgree == RunSpec /\ []EditorsTakeTurns => []StatusPairAgrees
<1>1. RunInv => StatusPairAgrees
  <2> SUFFICES ASSUME RunInv PROVE StatusPairAgrees
    OBVIOUS
  <2>1. execution.status \in {"none", "RUNNING", "COMPLETED", "FAILED"}
    BY DEF RunInv, RunTypeOK
  <2> QED  BY <2>1 DEF RunInv, RowsAgree, StatusPairAgrees
<1> QED  BY RunInvariant, <1>1, PTL

\* However many schedulers run the expiry job, die holding the lease and lose
\* it, at most one of them fails a run (expire-stale-runs.job.ts), on the same
\* condition: a campaign put back to READY would run, and expire, again.
THEOREM RunsExpireOnce == RunSpec /\ []EditorsTakeTurns => []ExpiredOnce
<1>1. RunInv => ExpiredOnce
  <2> SUFFICES ASSUME RunInv PROVE Cardinality(Expired) <= 1
    BY DEF ExpiredOnce, Expired
  <2>1. CASE Expired = {}
    BY <2>1, FS_EmptySet
  <2>2. CASE Expired # {}
    <3>1. PICK s : s \in Expired
      BY <2>2
    <3>2. Expired = {s}
      BY <3>1 DEF RunInv, LeaseInv
    <3>3. Cardinality({s}) = 1
      BY FS_Singleton
    <3> QED  BY <3>2, <3>3
  <2> QED  BY <2>1, <2>2
<1> QED  BY RunInvariant, <1>1, PTL

-----------------------------------------------------------------------------
(***************************************************************************)
(* Businesses.  TwinsAreFlagged compares two rows that two transactions    *)
(* wrote; each of them looked for the other before it wrote.  The key they *)
(* lock makes one of them come second (LocksHeld), and whoever comes       *)
(* second knows the first (Alone).                                         *)
(***************************************************************************)

Working(i) == finding[i].pc \in {"match", "resolved", "new"}

LocksHeld ==
  \A i, j \in Finding :
    Working(i) /\ Working(j) /\ LockOf[i] # Unlisted /\ LockOf[i] = LockOf[j] => i = j

\* Rows are named after findings that are done, and findings name rows.
RowsNamed ==
  /\ \A i \in business : finding[i].pc = "done"
  /\ \A i \in Finding : finding[i].twin # Unlisted => finding[i].twin \in business
  /\ \A i \in Finding : finding[i].pc \in {"found", "resolved"} => finding[i].to \in business

FlagsKnown ==
  /\ \A p \in Pair : flagged[p] # "NONE" => p[1] \in business /\ p[2] \in business
  /\ \A v \in Review : review[v].pc # "idle" => review[v].pair \in Pair /\ flagged[review[v].pair] # "NONE"

\* A finding that is about to become a row without a review has no live row
\* with its key beside it.
Alone ==
  /\ \A i \in Finding : finding[i].pc \in {"idle", "lock", "match"} => finding[i].twin = Unlisted
  /\ \A i \in Finding : finding[i].pc = "new" /\ finding[i].twin = Unlisted /\ LockOf[i] # Unlisted
       => \A b \in Live : LockOf[b] # LockOf[i]

DirInv == DirTypeOK /\ LocksHeld /\ RowsNamed /\ FlagsKnown /\ Alone /\ TwinsAreFlagged

FindingRecord == [pc : {"idle", "lock", "match", "found", "resolved", "new", "done"},
                  to : Finding \cup {Unlisted}, twin : Finding \cup {Unlisted}]
RequestRecord == [pc : {"idle", "merge", "dismiss"}, pair : Pair \cup {Unlisted},
                  moving : SUBSET (Campaigned \X Finding)]
Verdict == {"NONE", "PENDING", "CONFIRMED_MERGED", "DISMISSED"}

LEMMA DirStarts == DirInit => DirInv
<1> SUFFICES ASSUME DirInit PROVE DirInv
  OBVIOUS
<1>1. DirTypeOK
  BY DEF DirInit, DirTypeOK, IdleReview
<1>2. LocksHeld /\ RowsNamed /\ Alone /\ TwinsAreFlagged
  BY DEF DirInit, LocksHeld, RowsNamed, Alone, TwinsAreFlagged, Working, Live
<1>3. FlagsKnown
  BY DEF DirInit, FlagsKnown, IdleReview
<1> QED  BY <1>1, <1>2, <1>3 DEF DirInv

\* A transaction that has written nothing yet: what it found is still true.
LEMMA FindingMoves ==
  ASSUME DirInv, NEW i \in Finding, i \notin business,
         NEW f \in FindingRecord, finding' = [finding EXCEPT ![i] = f],
         UNCHANGED <<business, mergedInto, leads, flagged, merges, review>>,
         f.pc # "done",
         f.pc \in {"match", "resolved", "new"} /\ LockOf[i] # Unlisted
           => \A j \in Finding : Working(j) /\ LockOf[j] = LockOf[i] => j = i,
         f.twin # Unlisted => f.twin \in business,
         f.pc \in {"found", "resolved"} => f.to \in business,
         f.pc \in {"idle", "lock", "match"} => f.twin = Unlisted,
         f.pc = "new" /\ f.twin = Unlisted /\ LockOf[i] # Unlisted
           => \A b \in Live : LockOf[b] # LockOf[i]
  PROVE  DirInv'
<1>t. DirTypeOK /\ LocksHeld /\ RowsNamed /\ FlagsKnown /\ Alone /\ TwinsAreFlagged
  BY DEF DirInv
<1>1. finding'[i] = f /\ \A j \in Finding : j # i => finding'[j] = finding[j]
  BY <1>t DEF DirTypeOK
<1>2. finding' \in [Finding -> FindingRecord]
  BY <1>t DEF DirTypeOK, FindingRecord
<1>3. DirTypeOK'
  BY <1>t, <1>2 DEF DirTypeOK, FindingRecord
<1>4. LocksHeld'
  BY <1>t, <1>1 DEF LocksHeld, Working
<1>5. RowsNamed'
  BY <1>t, <1>1 DEF RowsNamed
<1>6. FlagsKnown' /\ TwinsAreFlagged'
  BY <1>t DEF FlagsKnown, TwinsAreFlagged, Live
<1>7. Live' = Live
  BY DEF Live
<1>8. Alone'
  BY <1>t, <1>1, <1>7 DEF Alone
<1> QED  BY <1>3, <1>4, <1>5, <1>6, <1>8 DEF DirInv

\* A merge or a dismissal: businesses leave Live, and flags are never taken back.
LEMMA ReviewMoves ==
  ASSUME DirInv, DirTypeOK', UNCHANGED <<finding, business>>, Live' \subseteq Live,
         \A p \in Pair : flagged[p] # "NONE" <=> flagged'[p] # "NONE",
         \A v \in Review : review'[v].pc # "idle" => review'[v].pair \in Pair /\ flagged[review'[v].pair] # "NONE"
  PROVE  DirInv'
<1>t. DirTypeOK /\ LocksHeld /\ RowsNamed /\ FlagsKnown /\ Alone /\ TwinsAreFlagged
  BY DEF DirInv
<1>1. LocksHeld' /\ RowsNamed'
  BY <1>t DEF LocksHeld, RowsNamed, Working
<1>2. FlagsKnown'
  BY <1>t DEF FlagsKnown
<1>3. Alone'
  BY <1>t DEF Alone
<1>4. TwinsAreFlagged'
  <2> SUFFICES ASSUME NEW b \in Live', NEW c \in Live', b # c, LockOf[b] # Unlisted, LockOf[b] = LockOf[c]
               PROVE  \E d \in {b, c}, e \in business : flagged'[<<e, d>>] # "NONE"
    BY DEF TwinsAreFlagged
  <2>1. b \in Live /\ c \in Live /\ b \in Finding /\ c \in Finding
    BY <1>t DEF Live, DirTypeOK
  <2>2. PICK d \in {b, c}, e \in business : flagged[<<e, d>>] # "NONE"
    BY <1>t, <2>1 DEF TwinsAreFlagged
  <2>3. <<e, d>> \in Pair
    BY <1>t, <2>1 DEF Pair, DirTypeOK
  <2> QED  BY <2>2, <2>3
<1> QED  BY <1>1, <1>2, <1>3, <1>4 DEF DirInv

\* The transaction of a finding commits: a row that was there, or a new one
\* that is flagged, or that has no twin.
LEMMA CommitKeeps ==
  ASSUME DirInv, NEW i \in Finding, Commit(i)
  PROVE  DirInv'
<1>t. DirTypeOK /\ LocksHeld /\ RowsNamed /\ FlagsKnown /\ Alone /\ TwinsAreFlagged
  BY DEF DirInv
<1>1. PICK twin \in Finding \cup {Unlisted} : twin = finding[i].twin
  BY <1>t DEF DirTypeOK
<1>2. PICK b : b = IF finding[i].pc # "new" THEN finding[i].to
                   ELSE IF Listed(i) = {} THEN i ELSE CHOOSE x \in Listed(i) : TRUE
  OBVIOUS
<1>3. /\ finding[i].pc \in {"found", "resolved", "new"}
      /\ finding' = [finding EXCEPT ![i].pc = "done", ![i].to = b]
      /\ business' = business \cup {b}
      /\ leads' = leads \cup {<<FoundIn[i], b>>}
      /\ flagged' = IF twin # Unlisted /\ flagged[<<twin, b>>] = "NONE" /\ flagged[<<b, twin>>] = "NONE"
                      THEN [flagged EXCEPT ![<<twin, b>>] = "PENDING"] ELSE flagged
      /\ UNCHANGED <<mergedInto, merges, review>>
  BY <1>1, <1>2 DEF Commit
<1>4. twin # Unlisted => twin \in business
  BY <1>t, <1>1 DEF RowsNamed
<1>5. b \in business \/ (b = i /\ finding[i].pc = "new")
  <2>1. CASE finding[i].pc # "new"
    BY <1>t, <1>2, <1>3, <2>1 DEF RowsNamed
  <2>2. CASE finding[i].pc = "new" /\ Listed(i) = {}
    BY <1>2, <2>2
  <2>3. CASE finding[i].pc = "new" /\ Listed(i) # {}
    <3>1. b = CHOOSE x \in Listed(i) : TRUE
      BY <1>2, <2>3
    <3>2. b \in Listed(i)
      BY <2>3, <3>1
    <3> QED  BY <3>2 DEF Listed
  <2> QED  BY <2>1, <2>2, <2>3
<1>6. b \in Finding /\ business \subseteq Finding
  BY <1>t, <1>5 DEF DirTypeOK
<1>7. /\ finding' \in [Finding -> FindingRecord] /\ finding'[i].pc = "done" /\ finding'[i].twin = twin
      /\ \A j \in Finding : j # i => finding'[j] = finding[j]
  <2>1. PICK f : f = [finding[i] EXCEPT !.pc = "done", !.to = b]
    OBVIOUS
  <2>2. PICK g : g = [finding[i] EXCEPT !.pc = "done"]
    OBVIOUS
  <2>3. finding \in [Finding -> FindingRecord]
    BY <1>t DEF DirTypeOK, FindingRecord
  <2>4. g \in FindingRecord /\ g.pc = "done" /\ g.twin = twin
    BY <1>1, <2>2, <2>3 DEF FindingRecord
  <2>5. f \in FindingRecord /\ f.pc = "done" /\ f.twin = twin
    BY <1>6, <2>1, <2>2, <2>4 DEF FindingRecord
  <2>6. finding' = [finding EXCEPT ![i] = f]
    BY <1>3, <2>1
  <2> QED  BY <2>3, <2>5, <2>6
<1>8. /\ flagged' \in [Pair -> Verdict]
      /\ \A p \in Pair : flagged[p] # "NONE" => flagged'[p] # "NONE"
      /\ \A p \in Pair : flagged'[p] # "NONE" => flagged[p] # "NONE" \/ (twin \in business /\ p = <<twin, b>>)
  <2>0. flagged \in [Pair -> Verdict]
    BY <1>t DEF DirTypeOK, Verdict
  <2>1. CASE twin # Unlisted /\ flagged' = [flagged EXCEPT ![<<twin, b>>] = "PENDING"]
    BY <1>4, <2>0, <2>1 DEF Verdict
  <2>2. CASE flagged' = flagged
    BY <2>0, <2>2
  <2> QED  BY <1>3, <2>1, <2>2
<1>9. leads' \subseteq Campaigned \X Finding
  <2>1. FoundIn[i] \in Campaigned
    BY DirectoryAssumption
  <2> QED  BY <1>t, <1>3, <1>6, <2>1 DEF DirTypeOK
<1>10. DirTypeOK'
  BY <1>t, <1>3, <1>6, <1>7, <1>8, <1>9 DEF DirTypeOK, FindingRecord, Verdict
<1>11. LocksHeld'
  BY <1>t, <1>7 DEF LocksHeld, Working
<1>12. RowsNamed'
  <2>1. \A j \in business' : finding'[j].pc = "done"
    BY <1>t, <1>3, <1>5, <1>6, <1>7 DEF RowsNamed
  <2>2. \A j \in Finding : finding'[j].twin # Unlisted => finding'[j].twin \in business'
    BY <1>t, <1>3, <1>4, <1>7 DEF RowsNamed
  <2>3. \A j \in Finding : finding'[j].pc \in {"found", "resolved"} => finding'[j].to \in business'
    BY <1>t, <1>3, <1>7 DEF RowsNamed
  <2> QED  BY <2>1, <2>2, <2>3 DEF RowsNamed
<1>13. FlagsKnown'
  <2>1. \A p \in Pair : flagged'[p] # "NONE" => p[1] \in business' /\ p[2] \in business'
    BY <1>t, <1>3, <1>8 DEF FlagsKnown
  <2> QED  BY <1>t, <1>3, <1>8, <2>1 DEF FlagsKnown
<1>14. Live' \subseteq Live \cup {b} /\ (b \in business => Live' = Live)
  BY <1>3 DEF Live
<1>15. Alone'
  <2>1. ASSUME NEW j \in Finding, finding'[j].pc = "new", finding'[j].twin = Unlisted, LockOf[j] # Unlisted,
               NEW x \in Live'
        PROVE  LockOf[x] # LockOf[j]
    <3>1. j # i /\ finding[j].pc = "new" /\ finding[j].twin = Unlisted
      BY <1>7, <2>1
    <3>2. CASE x \in Live
      BY <1>t, <2>1, <3>1, <3>2 DEF Alone
    <3>3. CASE x \notin Live
      <4>1. x = i /\ Working(i) /\ Working(j)
        BY <1>5, <1>14, <3>1, <3>3 DEF Working
      <4> QED  BY <1>t, <2>1, <3>1, <4>1 DEF LocksHeld
    <3> QED  BY <3>2, <3>3
  <2>2. \A j \in Finding : finding'[j].pc \in {"idle", "lock", "match"} => finding'[j].twin = Unlisted
    BY <1>t, <1>7 DEF Alone
  <2> QED  BY <2>1, <2>2 DEF Alone
<1>16. ASSUME NEW x \in Live', NEW y \in Live', x # y, LockOf[x] # Unlisted, LockOf[x] = LockOf[y], x \in Live
       PROVE  \E d \in {x, y}, e \in business' : flagged'[<<e, d>>] # "NONE"
  <2>1. CASE y \in Live
    <3>1. PICK d \in {x, y}, e \in business : flagged[<<e, d>>] # "NONE"
      BY <1>t, <1>16, <2>1 DEF TwinsAreFlagged
    <3>2. <<e, d>> \in Pair
      BY <1>6, <1>16, <2>1 DEF Live, Pair
    <3> QED  BY <1>3, <1>8, <3>1, <3>2
  <2>2. CASE y \notin Live
    <3>1. y = i /\ b = i /\ finding[i].pc = "new" /\ i \notin business
      BY <1>5, <1>14, <1>t, <2>2 DEF RowsNamed
    <3>2. twin # Unlisted
      BY <1>t, <1>1, <1>16, <3>1 DEF Alone
    <3>3. twin \in business /\ <<twin, i>> \in Pair /\ <<i, twin>> \in Pair
      BY <1>4, <1>6, <3>1, <3>2 DEF Pair
    <3>4. flagged[<<twin, i>>] = "NONE" /\ flagged[<<i, twin>>] = "NONE"
      BY <1>t, <3>1, <3>3 DEF FlagsKnown
    <3>5. flagged'[<<twin, i>>] = "PENDING"
      BY <1>t, <1>3, <3>1, <3>2, <3>3, <3>4 DEF DirTypeOK
    <3> QED  BY <1>3, <3>1, <3>3, <3>5
  <2> QED  BY <2>1, <2>2
<1>17. TwinsAreFlagged'
  <2> SUFFICES ASSUME NEW x \in Live', NEW y \in Live', x # y, LockOf[x] # Unlisted, LockOf[x] = LockOf[y]
               PROVE  \E d \in {x, y}, e \in business' : flagged'[<<e, d>>] # "NONE"
    BY DEF TwinsAreFlagged
  <2>1. x \in Live \/ y \in Live
    BY <1>14
  <2>2. \E d \in {y, x}, e \in business' : flagged'[<<e, d>>] # "NONE"
    BY <1>16, <2>1
  <2> QED  BY <2>2
<1> QED  BY <1>10, <1>11, <1>12, <1>13, <1>15, <1>17 DEF DirInv

\* What a finding looks for, it finds; and it takes its key only when nobody
\* else has it.
LEMMA MatchKeeps ==
  ASSUME DirInv, NEW i \in Finding, LookUp(i) \/ LockKey(i) \/ Match(i)
  PROVE  DirInv'
<1>t. DirTypeOK /\ LocksHeld /\ RowsNamed /\ FlagsKnown /\ Alone /\ TwinsAreFlagged
  BY DEF DirInv
<1>1. finding \in [Finding -> FindingRecord] /\ Live \subseteq business /\ business \subseteq Finding
  BY <1>t DEF DirTypeOK, FindingRecord, Live
<1>2. PICK m \in FindingRecord : m = finding[i]
  BY <1>1
<1>3. m.pc \in {"idle", "lock", "match"} /\ m.twin = Unlisted
  BY <1>t, <1>2 DEF LookUp, LockKey, Match, Alone
<1>4. i \notin business /\ UNCHANGED <<business, mergedInto, leads, flagged, merges, review>>
  BY <1>t, <1>2, <1>3 DEF RowsNamed, LookUp, LockKey, Match
<1>5. \A b \in Live : b # Unlisted /\ b # i
  BY <1>1, <1>4, DirectoryAssumption
<1> DEFINE Becomes(f) == finding' = [finding EXCEPT ![i] = f]
<1>6. \A pc \in {"lock", "match", "new"}, b \in Finding :
        /\ [m EXCEPT !.pc = pc] \in FindingRecord
        /\ [m EXCEPT !.pc = pc].pc = pc /\ [m EXCEPT !.pc = pc].twin = Unlisted
  BY <1>2, <1>3 DEF FindingRecord
<1>7. \A pc \in {"found", "resolved"}, b \in Finding :
        /\ [m EXCEPT !.pc = pc, !.to = b] \in FindingRecord
        /\ [m EXCEPT !.pc = pc, !.to = b].pc = pc /\ [m EXCEPT !.pc = pc, !.to = b].to = b
        /\ [m EXCEPT !.pc = pc, !.to = b].twin = Unlisted
  BY <1>2, <1>3 DEF FindingRecord
<1>8. \A b \in Finding :
        /\ [m EXCEPT !.pc = "new", !.twin = b] \in FindingRecord
        /\ [m EXCEPT !.pc = "new", !.twin = b].pc = "new" /\ [m EXCEPT !.pc = "new", !.twin = b].twin = b
  BY <1>2, <1>3 DEF FindingRecord
<1>9. CASE LookUp(i)
  <2>1. ASSUME NEW b \in Listed(i), Becomes([m EXCEPT !.pc = "found", !.to = b]) PROVE DirInv'
    <3>1. b \in business /\ b \in Finding
      BY <1>1 DEF Listed
    <3>2. PICK f \in FindingRecord : f = [m EXCEPT !.pc = "found", !.to = b]
      BY <1>7, <3>1
    <3>3. f.pc = "found" /\ f.to = b /\ f.twin = Unlisted
      BY <1>7, <3>1, <3>2
    <3>4. finding' = [finding EXCEPT ![i] = f]
      BY <2>1, <3>2
    <3> QED  BY <1>4, <3>1, <3>3, <3>4, FindingMoves
  <2>2. ASSUME Becomes([m EXCEPT !.pc = "lock"]) PROVE DirInv'
    <3>1. PICK f \in FindingRecord : f = [m EXCEPT !.pc = "lock"]
      BY <1>2, <1>6
    <3>2. f.pc = "lock" /\ f.twin = Unlisted
      BY <1>2, <1>6, <3>1
    <3>3. finding' = [finding EXCEPT ![i] = f]
      BY <2>2, <3>1
    <3> QED  BY <1>4, <3>2, <3>3, FindingMoves
  <2> QED  BY <1>2, <1>9, <2>1, <2>2 DEF LookUp
<1>10. CASE LockKey(i)
  <2>1. PICK f \in FindingRecord : f = [m EXCEPT !.pc = "match"]
    BY <1>2, <1>6
  <2>2. f.pc = "match" /\ f.twin = Unlisted
    BY <1>2, <1>6, <2>1
  <2>3. finding' = [finding EXCEPT ![i] = f]
    BY <1>2, <1>10, <2>1 DEF LockKey
  <2>4. LockOf[i] # Unlisted => \A j \in Finding : ~(Working(j) /\ LockOf[j] = LockOf[i])
    BY <1>10 DEF LockKey, Working
  <2> QED  BY <1>4, <2>2, <2>3, <2>4, FindingMoves
<1>11. CASE Match(i)
  <2>0. LockOf[i] # Unlisted => \A j \in Finding : Working(j) /\ LockOf[j] = LockOf[i] => j = i
    BY <1>t, <1>11 DEF Match, Working, LocksHeld
  <2>1. ASSUME NEW b \in Live, Becomes([m EXCEPT !.pc = "resolved", !.to = b]) PROVE DirInv'
    <3>1. b \in business /\ b \in Finding
      BY <1>1
    <3>2. PICK f \in FindingRecord : f = [m EXCEPT !.pc = "resolved", !.to = b]
      BY <1>7, <3>1
    <3>3. f.pc = "resolved" /\ f.to = b /\ f.twin = Unlisted
      BY <1>7, <3>1, <3>2
    <3>4. finding' = [finding EXCEPT ![i] = f]
      BY <2>1, <3>2
    <3> QED  BY <1>4, <2>0, <3>1, <3>3, <3>4, FindingMoves
  <2>2. ASSUME NEW b \in Live, Becomes([m EXCEPT !.pc = "new", !.twin = b]) PROVE DirInv'
    <3>1. b \in business /\ b \in Finding /\ b # Unlisted
      BY <1>1, <1>5
    <3>2. PICK f \in FindingRecord : f = [m EXCEPT !.pc = "new", !.twin = b]
      BY <1>8, <3>1
    <3>3. f.pc = "new" /\ f.twin = b
      BY <1>8, <3>1, <3>2
    <3>4. finding' = [finding EXCEPT ![i] = f]
      BY <2>2, <3>2
    <3> QED  BY <1>4, <2>0, <3>1, <3>3, <3>4, FindingMoves
  <2>3. ASSUME Becomes([m EXCEPT !.pc = "new"]), \A b \in Live : <<i, b>> \notin Corroborated \cup Suspected
        PROVE  DirInv'
    <3>1. PICK f \in FindingRecord : f = [m EXCEPT !.pc = "new"]
      BY <1>2, <1>6
    <3>2. f.pc = "new" /\ f.twin = Unlisted
      BY <1>2, <1>6, <3>1
    <3>3. finding' = [finding EXCEPT ![i] = f]
      BY <2>3, <3>1
    <3>4. \A j \in Finding : i # j /\ LockOf[i] # Unlisted /\ LockOf[i] = LockOf[j]
                               => <<i, j>> \in Corroborated \cup Suspected
      BY DirectoryAssumption
    <3>5. LockOf[i] # Unlisted => \A b \in Live : LockOf[b] # LockOf[i]
      BY <1>1, <1>5, <2>3, <3>4
    <3> QED  BY <1>4, <2>0, <3>2, <3>3, <3>5, FindingMoves
  <2>4. \/ \E b \in Live : Becomes([m EXCEPT !.pc = "resolved", !.to = b])
        \/ \E b \in Live : Becomes([m EXCEPT !.pc = "new", !.twin = b])
        \/ Becomes([m EXCEPT !.pc = "new"]) /\ \A b \in Live : <<i, b>> \notin Corroborated \cup Suspected
    <3>1. PICK same : same = {b \in Live : <<i, b>> \in Corroborated}
      OBVIOUS
    <3>2. PICK suspects : suspects = {b \in Live : <<i, b>> \in Suspected}
      OBVIOUS
    <3>a. \/ \E b \in same : finding' = [finding EXCEPT ![i].pc = "resolved", ![i].to = b]
          \/ \E b \in suspects : finding' = [finding EXCEPT ![i].pc = "new", ![i].twin = b]
          \/ same \cup suspects = {} /\ finding' = [finding EXCEPT ![i].pc = "new"]
      BY <1>11, <3>1, <3>2 DEF Match
    <3>3. CASE \E b \in same : finding' = [finding EXCEPT ![i].pc = "resolved", ![i].to = b]
      <4>1. PICK b \in Live : finding' = [finding EXCEPT ![i].pc = "resolved", ![i].to = b]
        BY <3>1, <3>3
      <4>2. Becomes([m EXCEPT !.pc = "resolved", !.to = b])
        BY <1>1, <1>2, <4>1
      <4> QED  BY <4>2
    <3>4. CASE \E b \in suspects : finding' = [finding EXCEPT ![i].pc = "new", ![i].twin = b]
      <4>1. PICK b \in Live : finding' = [finding EXCEPT ![i].pc = "new", ![i].twin = b]
        BY <3>2, <3>4
      <4>2. Becomes([m EXCEPT !.pc = "new", !.twin = b])
        BY <1>1, <1>2, <4>1
      <4> QED  BY <4>2
    <3>5. CASE same \cup suspects = {} /\ finding' = [finding EXCEPT ![i].pc = "new"]
      BY <1>2, <3>1, <3>2, <3>5
    <3> QED  BY <3>a, <3>3, <3>4, <3>5
  <2> QED  BY <2>1, <2>2, <2>3, <2>4
<1> QED  BY <1>9, <1>10, <1>11

LEMMA DirStep ==
  ASSUME DirInv, [DirNext]_dirVars
  PROVE  DirInv'
<1>t. DirTypeOK /\ FlagsKnown
  BY DEF DirInv
<1>1. ASSUME NEW i \in Finding, LookUp(i) \/ LockKey(i) \/ Match(i) \/ Commit(i) PROVE DirInv'
  BY <1>1, MatchKeeps, CommitKeeps
<1>2. ASSUME NEW v \in Review, MergeReads(v) \/ DismissReads(v) PROVE DirInv'
  <2>1. UNCHANGED <<finding, business, mergedInto, leads, flagged, merges>>
    BY <1>2 DEF MergeReads, DismissReads
  <2>2. PICK r : review' = [review EXCEPT ![v] = r] /\ r.pc # "idle" /\ r.pair \in Pair /\ flagged[r.pair] = "PENDING"
                 /\ r \in RequestRecord
    <3>1. CASE MergeReads(v)
      <4>1. PICK p \in Pair :
              /\ flagged[p] = "PENDING"
              /\ review' = [review EXCEPT ![v] = [pc |-> "merge", pair |-> p, moving |-> {l \in leads : l[2] = p[2]}]]
        BY <3>1 DEF MergeReads
      <4>2. {l \in leads : l[2] = p[2]} \in SUBSET (Campaigned \X Finding)
        BY <1>t DEF DirTypeOK
      <4>3. PICK r : r = [pc |-> "merge", pair |-> p, moving |-> {l \in leads : l[2] = p[2]}]
        OBVIOUS
      <4>4. r.pc = "merge" /\ r.pair = p /\ r \in RequestRecord
        BY <4>2, <4>3 DEF RequestRecord
      <4> QED  BY <4>1, <4>3, <4>4
    <3>2. CASE DismissReads(v)
      <4>1. PICK p \in Pair : /\ flagged[p] = "PENDING"
                              /\ review' = [review EXCEPT ![v] = [pc |-> "dismiss", pair |-> p, moving |-> {}]]
        BY <3>2 DEF DismissReads
      <4>2. PICK r : r = [pc |-> "dismiss", pair |-> p, moving |-> {}]
        OBVIOUS
      <4>3. r.pc = "dismiss" /\ r.pair = p /\ r \in RequestRecord
        BY <4>2 DEF RequestRecord
      <4> QED  BY <4>1, <4>2, <4>3
    <3> QED  BY <1>2, <3>1, <3>2
  <2>3. DirTypeOK'
    BY <1>t, <2>1, <2>2 DEF DirTypeOK, RequestRecord
  <2>4. \A x \in Review : review'[x].pc # "idle" => review'[x].pair \in Pair /\ flagged[review'[x].pair] # "NONE"
    BY <1>t, <2>2 DEF DirTypeOK, FlagsKnown
  <2>5. Live' = Live
    BY <2>1 DEF Live
  <2> QED  BY <2>1, <2>3, <2>4, <2>5, ReviewMoves
<1>3. ASSUME NEW v \in Review, MergeCommits(v) \/ DismissWrites(v) PROVE DirInv'
  <2>1. PICK p \in Pair : p = review[v].pair /\ flagged[p] # "NONE"
    BY <1>t, <1>3 DEF MergeCommits, DismissWrites, FlagsKnown
  <2>2. p[1] \in Finding /\ p[2] \in Finding
    BY DEF Pair
  <2>3. review' = [review EXCEPT ![v] = IdleReview] /\ UNCHANGED <<finding, business>>
    BY <1>3 DEF MergeCommits, DismissWrites
  <2>4. flagged' = flagged \/ \E s \in Verdict \ {"NONE"} : flagged' = [flagged EXCEPT ![p] = s]
    BY <1>3, <2>1 DEF MergeCommits, DismissWrites, Verdict
  <2>5. flagged \in [Pair -> Verdict]
    BY <1>t DEF DirTypeOK, Verdict
  <2>6. flagged' \in [Pair -> Verdict] /\ \A q \in Pair : flagged[q] # "NONE" <=> flagged'[q] # "NONE"
    BY <2>1, <2>4, <2>5
  <2>7. mergedInto' = mergedInto \/ mergedInto' = [mergedInto EXCEPT ![p[2]] = p[1]]
    BY <1>3, <2>1 DEF MergeCommits, DismissWrites
  <2>8. merges' \subseteq Pair
    BY <1>t, <1>3, <2>1 DEF MergeCommits, DismissWrites, DirTypeOK
  <2>9. leads' \subseteq Campaigned \X Finding
    <3>1. CASE leads' = leads
      BY <1>t, <3>1 DEF DirTypeOK
    <3>2. CASE leads' # leads
      <4>1. PICK moved : /\ moved = {l \in review[v].moving : <<l[1], p[1]>> \notin leads}
                         /\ leads' = (leads \ moved) \cup {<<l[1], p[1]>> : l \in moved}
        <5>1. MergeCommits(v)
          BY <1>3, <3>2 DEF DismissWrites
        <5>2. PICK moved : moved = {l \in review[v].moving : <<l[1], review[v].pair[1]>> \notin leads}
          OBVIOUS
        <5>3. p \notin merges
          BY <2>1, <3>2, <5>1 DEF MergeCommits
        <5>4. leads' = (leads \ moved) \cup {<<l[1], review[v].pair[1]>> : l \in moved}
          BY <2>1, <5>1, <5>2, <5>3, Zenon DEF MergeCommits
        <5>5. p = review[v].pair
          BY <2>1
        <5>6. /\ moved = {l \in review[v].moving : <<l[1], p[1]>> \notin leads}
              /\ leads' = (leads \ moved) \cup {<<l[1], p[1]>> : l \in moved}
          BY <5>2, <5>4, <5>5, Zenon
        <5> QED  BY <5>6
      <4>2. moved \subseteq Campaigned \X Finding
        BY <1>t, <4>1 DEF DirTypeOK
      <4>3. {<<l[1], p[1]>> : l \in moved} \subseteq Campaigned \X Finding
        BY <2>2, <4>2
      <4> QED  BY <1>t, <4>1, <4>3 DEF DirTypeOK
    <3> QED  BY <3>1, <3>2
  <2>10. IdleReview \in RequestRecord
    BY DEF IdleReview, RequestRecord
  <2>11. DirTypeOK'
    BY <1>t, <2>2, <2>3, <2>6, <2>7, <2>8, <2>9, <2>10 DEF DirTypeOK, Verdict, RequestRecord
  <2>12. \A x \in Review : review'[x].pc # "idle" => review'[x].pair \in Pair /\ flagged[review'[x].pair] # "NONE"
    BY <1>t, <2>3 DEF DirTypeOK, FlagsKnown, IdleReview
  <2>13. Live' \subseteq Live
    BY <1>t, <2>2, <2>3, <2>7, DirectoryAssumption DEF Live, DirTypeOK
  <2> QED  BY <2>3, <2>6, <2>11, <2>12, <2>13, ReviewMoves
<1>4. CASE UNCHANGED dirVars
  <2>1. DirTypeOK' /\ Live' = Live
    BY <1>t, <1>4 DEF dirVars, DirTypeOK, Live
  <2> QED  BY <1>t, <1>4, <2>1, ReviewMoves DEF dirVars, FlagsKnown
<1> QED  BY <1>1, <1>2, <1>3, <1>4 DEF DirNext

LEMMA DirInvariant == DirSpec => []DirInv
<1>1. DirInv /\ [DirNext]_dirVars => DirInv'
  BY DirStep
<1> QED  BY DirStarts, <1>1, PTL DEF DirSpec

\* Businesses, leads, flags and reviews keep their types.
THEOREM DirectoryTypesCorrect == DirSpec => []DirTypeOK
<1>1. DirInv => DirTypeOK
  BY DEF DirInv
<1> QED  BY DirInvariant, <1>1, PTL

\* However many discovery runs find the same phone or domain at the same time,
\* and whatever operators merge and dismiss meanwhile, of two live businesses that
\* share it one was put before a reviewer as a possible duplicate of some business
\* (resolveBusiness).
THEOREM NoTwinUnreviewed == DirSpec => []TwinsAreFlagged
<1>1. DirInv => TwinsAreFlagged
  BY DEF DirInv
<1> QED  BY DirInvariant, <1>1, PTL

-----------------------------------------------------------------------------
(***************************************************************************)
(* Leads and their websites.  CurrentIsLatest speaks of the versions that  *)
(* are committed; the induction adds what an edit under way holds: the     *)
(* number it read may have been taken since, but once its insert is        *)
(* through it is the next one, and nobody else's (EditInv).                *)
(***************************************************************************)

Own(w) == {v \in versions : v[1] = w}
Count(w) == Cardinality(Own(w))

Numbered(w) ==
  /\ IsFiniteSet(Own(w)) /\ Count(w) \in Nat \ {0}
  /\ Numbers(w) = 1..Count(w)
  /\ <<w, Count(w), content[w]>> \in versions

SiteInv ==
  \A w \in Site : /\ site[w] \in {"DRAFT", "PUBLISHED"} => Numbered(w)
                  /\ site[w] \notin {"DRAFT", "PUBLISHED"} => Own(w) = {}

EditInv ==
  /\ \A e \in Edit :
       /\ editing[e].pc = "idle" => editing[e].tries = 0
       /\ editing[e].pc = "again" => editing[e].tries < MaxNumberTries
       /\ editing[e].pc \in {"read", "again", "inserted"}
            => editing[e].of \in Site /\ site[editing[e].of] \in {"DRAFT", "PUBLISHED"}
       /\ editing[e].pc = "read" => editing[e].number \in 1..(Count(editing[e].of) + 1)
       /\ editing[e].pc = "inserted" => editing[e].number = Count(editing[e].of) + 1
  /\ \A e, f \in Edit :
       editing[e].pc = "inserted" /\ editing[f].pc = "inserted" /\ editing[e].of = editing[f].of => e = f

LeadInv == LeadTypeOK /\ SiteInv /\ EditInv

SiteStatus == {"none", "moving", "moved", "adding", "DRAFT", "PUBLISHED"}
EditRecord == [pc : {"idle", "read", "again", "inserted", "failed", "done"},
               of : Site \cup {Unread}, number : Nat, tries : 0..MaxNumberTries]

LEMMA LeadStarts == LeadInit => LeadInv
<1> SUFFICES ASSUME LeadInit PROVE LeadInv
  OBVIOUS
<1>1. 0 \in 0..MaxNumberTries
  BY LeadAssumption
<1>2. "NEW" \in LeadStatus
  BY DEF LeadStatus, Active, Ahead
<1>3. IdleEdit \in EditRecord /\ IdleEdit.pc = "idle" /\ IdleEdit.tries = 0
  BY <1>1 DEF IdleEdit, EditRecord
<1>4. LeadTypeOK
  BY <1>2, <1>3 DEF LeadInit, LeadTypeOK, EditRecord
<1>5. SiteInv
  BY DEF LeadInit, SiteInv, Own
<1>6. EditInv
  BY <1>3 DEF LeadInit, EditInv
<1> QED  BY <1>4, <1>5, <1>6 DEF LeadInv

\* The latest number of versions that are numbered without a gap.
LEMMA LatestOfAll ==
  ASSUME NEW w, NEW n \in Nat \ {0}, Numbers(w) = 1..n
  PROVE  Latest(w) = n
<1>1. n \in Numbers(w) /\ \A m \in Numbers(w) : m <= n
  OBVIOUS
<1>2. PICK k : k = Latest(w)
  OBVIOUS
<1>3. k \in Numbers(w) /\ \A m \in Numbers(w) : m <= k
  BY <1>1, <1>2 DEF Latest
<1>4. k <= n /\ n <= k /\ k \in Nat
  BY <1>1, <1>3
<1> QED  BY <1>2, <1>4

\* The status of a lead and of its deal move within the graph.
LEMMA StatusMoves ==
  ASSUME LeadTypeOK, NEW to \in LeadStatus, SyncDeal(to)
  PROVE  deal' \in {"NONE", "NEGOTIATING", "WON", "LOST"}
<1>1. CASE to \in {"NEGOTIATING", "WON"}
  BY <1>1 DEF SyncDeal
<1>2. CASE to = "LOST"
  BY <1>2 DEF SyncDeal, LeadTypeOK
<1>3. CASE to \notin {"NEGOTIATING", "WON", "LOST"}
  BY <1>3 DEF SyncDeal, LeadTypeOK
<1> QED  BY <1>1, <1>2, <1>3

\* Steps that add no version and move no edit.
LEMMA SitesKept ==
  ASSUME LeadInv, LeadTypeOK', UNCHANGED <<versions, content, editing>>,
         \A w \in Site : site'[w] \in {"DRAFT", "PUBLISHED"} <=> site[w] \in {"DRAFT", "PUBLISHED"}
  PROVE  LeadInv'
<1>1. \A w \in Site : Own(w)' = Own(w) /\ Count(w)' = Count(w) /\ Numbers(w)' = Numbers(w)
  BY DEF Own, Count, Numbers
<1>2. SiteInv'
  BY <1>1 DEF LeadInv, SiteInv, Numbered
<1>3. EditInv'
  BY <1>1 DEF LeadInv, EditInv
<1> QED  BY <1>2, <1>3 DEF LeadInv

\* An edit that moves without a version: what it holds has to be right.
LEMMA EditMoves ==
  ASSUME LeadInv, NEW e \in Edit, NEW m \in EditRecord, editing' = [editing EXCEPT ![e] = m],
         UNCHANGED <<leadStatus, deal, change, site, versions, content>>,
         m.pc # "idle",
         m.pc = "again" => m.tries < MaxNumberTries,
         m.pc \in {"read", "again", "inserted"} => m.of \in Site /\ site[m.of] \in {"DRAFT", "PUBLISHED"},
         m.pc = "read" => m.number \in 1..(Count(m.of) + 1),
         m.pc = "inserted" => /\ m.number = Count(m.of) + 1
                              /\ \A x \in Edit : ~(editing[x].pc = "inserted" /\ editing[x].of = m.of)
  PROVE  LeadInv'
<1>t. LeadTypeOK /\ SiteInv /\ EditInv
  BY DEF LeadInv
<1>1. editing'[e] = m /\ \A x \in Edit : x # e => editing'[x] = editing[x]
  BY <1>t DEF LeadTypeOK
<1>2. LeadTypeOK'
  BY <1>t DEF LeadTypeOK, EditRecord
<1>3. \A w \in Site : Own(w)' = Own(w) /\ Count(w)' = Count(w) /\ Numbers(w)' = Numbers(w)
  BY DEF Own, Count, Numbers
<1>4. SiteInv'
  BY <1>t, <1>3 DEF SiteInv, Numbered
<1>5. ASSUME NEW x \in Edit
      PROVE  /\ editing'[x].pc = "idle" => editing'[x].tries = 0
             /\ editing'[x].pc = "again" => editing'[x].tries < MaxNumberTries
             /\ editing'[x].pc \in {"read", "again", "inserted"}
                  => editing'[x].of \in Site /\ site'[editing'[x].of] \in {"DRAFT", "PUBLISHED"}
             /\ editing'[x].pc = "read" => editing'[x].number \in 1..(Count(editing'[x].of) + 1)
             /\ editing'[x].pc = "inserted" => editing'[x].number = Count(editing'[x].of) + 1
  <2>1. CASE x = e
    BY <1>1, <2>1
  <2>2. CASE x # e
    BY <1>t, <1>1, <2>2 DEF EditInv
  <2> QED  BY <2>1, <2>2
<1>6. \A w : Count(w)' = Count(w)
  BY DEF Count, Own
<1>7. \A x, y \in Edit : editing'[x].pc = "inserted" /\ editing'[y].pc = "inserted" /\ editing'[x].of = editing'[y].of => x = y
  BY <1>t, <1>1 DEF EditInv
<1>8. EditInv'
  BY <1>5, <1>6, <1>7 DEF EditInv
<1> QED  BY <1>2, <1>4, <1>8 DEF LeadInv

\* A version with the next number leaves a project numbered as it was.
LEMMA VersionAdded ==
  ASSUME LeadInv, NEW w \in Site, NEW n \in Nat \ {0}, NEW by,
         \/ Own(w) = {} /\ n = 1
         \/ Numbered(w) /\ n = Count(w) + 1,
         versions' = versions \cup {<<w, n, by>>}, content' = [content EXCEPT ![w] = by]
  PROVE  /\ Numbered(w)' /\ Count(w)' = n
         /\ \A x \in Site : x # w => Own(x)' = Own(x) /\ Count(x)' = Count(x)
         /\ \A x \in Site : x # w /\ Numbered(x) => Numbered(x)'
<1>1. PICK c : c = Count(w)
  OBVIOUS
<1>2. IsFiniteSet(Own(w)) /\ c = Cardinality(Own(w)) /\ c \in Nat /\ n = c + 1 /\ Numbers(w) = 1..c
  <2>1. CASE Own(w) = {} /\ n = 1
    <3>1. IsFiniteSet({}) /\ Cardinality({}) = 0
      BY FS_EmptySet
    <3>2. c = 0
      BY <1>1, <2>1, <3>1 DEF Count
    <3>3. Numbers(w) = {}
      BY <2>1 DEF Numbers, Own
    <3>4. 1..c = {}
      BY <3>2
    <3>5. n = c + 1 /\ c \in Nat
      BY <2>1, <3>2
    <3> QED  BY <1>1, <2>1, <3>1, <3>3, <3>4, <3>5 DEF Count
  <2>2. CASE Numbered(w) /\ n = Count(w) + 1
    BY <1>1, <2>2 DEF Numbered, Count
  <2> QED  BY <2>1, <2>2
<1>3. <<w, n, by>> \notin Own(w)
  <2>1. \A v \in Own(w) : v[2] \in Numbers(w)
    BY DEF Own, Numbers
  <2>2. n \notin 1..c
    BY <1>2
  <2> QED  BY <1>2, <2>1, <2>2
<1>4. Own(w)' = Own(w) \cup {<<w, n, by>>}
  BY DEF Own
<1>5. PICK own : own = Own(w)
  OBVIOUS
<1>6. IsFiniteSet(own \cup {<<w, n, by>>}) /\ Cardinality(own \cup {<<w, n, by>>}) = Cardinality(own) + 1
  BY <1>2, <1>3, <1>5, FS_AddElement
<1>7. IsFiniteSet(Own(w)') /\ Count(w)' = n
  BY <1>2, <1>4, <1>5, <1>6 DEF Count
<1>8. Numbers(w)' = Numbers(w) \cup {n}
  <2>1. Numbers(w) = {v[2] : v \in Own(w)} /\ Numbers(w)' = {v[2] : v \in Own(w)'}
    BY DEF Numbers, Own
  <2>2. <<w, n, by>>[2] = n
    OBVIOUS
  <2> QED  BY <1>4, <2>1, <2>2
<1>9. Numbers(w)' = 1..n
  <2>1. (1..c) \cup {n} = 1..n
    BY <1>2
  <2> QED  BY <1>2, <1>8, <2>1
<1>10. content'[w] = by /\ \A x \in Site : x # w => content'[x] = content[x]
  BY DEF LeadInv, LeadTypeOK
<1>11. Numbered(w)'
  BY <1>7, <1>9, <1>10 DEF Numbered
<1>12. ASSUME NEW x \in Site, x # w
       PROVE  Own(x)' = Own(x) /\ Count(x)' = Count(x) /\ Numbers(x)' = Numbers(x)
  <2>1. Own(x)' = Own(x)
    BY <1>12 DEF Own
  <2>2. Numbers(x) = {v[2] : v \in Own(x)} /\ Numbers(x)' = {v[2] : v \in Own(x)'}
    BY DEF Numbers, Own
  <2> QED  BY <2>1, <2>2 DEF Count
<1>13. ASSUME NEW x \in Site, x # w, Numbered(x) PROVE Numbered(x)'
  BY <1>10, <1>12, <1>13 DEF Numbered
<1> QED  BY <1>7, <1>11, <1>12, <1>13

LEMMA LeadStep ==
  ASSUME LeadInv, [LeadNext]_leadVars
  PROVE  LeadInv'
<1>t. LeadTypeOK /\ SiteInv /\ EditInv
  BY DEF LeadInv
<1>n. MaxNumberTries \in Nat \ {0}
  BY LeadAssumption
<1>1. ASSUME NEW c \in Change, ChangeReads(c) PROVE LeadInv'
  <2>1. LeadTypeOK'
    BY <1>t, <1>1 DEF ChangeReads, LeadTypeOK
  <2> QED  BY <1>1, <2>1, SitesKept DEF ChangeReads
<1>2. ASSUME NEW c \in Change, ChangeCommits(c) PROVE LeadInv'
  <2>1. PICK to \in LeadStatus : to = change[c]
    BY <1>t, <1>2 DEF ChangeCommits, LeadTypeOK
  <2>2. leadStatus' \in LeadStatus /\ deal' \in {"NONE", "NEGOTIATING", "WON", "LOST"}
    BY <1>t, <1>2, <2>1, StatusMoves DEF ChangeCommits
  <2>3. LeadTypeOK'
    BY <1>t, <1>2, <2>2 DEF ChangeCommits, LeadTypeOK
  <2> QED  BY <1>2, <2>3, SitesKept DEF ChangeCommits
<1>3. ASSUME NEW w \in Site, SiteReads(w) \/ SiteReadsAgain(w) \/ SitePublished(w) PROVE LeadInv'
  <2>1. PICK s \in SiteStatus : site' = [site EXCEPT ![w] = s]
    BY <1>3 DEF SiteReads, SiteReadsAgain, SitePublished, SiteStatus
  <2>2. s \in {"DRAFT", "PUBLISHED"} <=> site[w] \in {"DRAFT", "PUBLISHED"}
    <3>1. site'[w] = s
      BY <1>t, <2>1 DEF LeadTypeOK
    <3> QED  BY <1>t, <1>3, <3>1 DEF SiteReads, SiteReadsAgain, SitePublished, LeadTypeOK
  <2>3. UNCHANGED <<leadStatus, deal, change, versions, content, editing>>
    BY <1>3 DEF SiteReads, SiteReadsAgain, SitePublished
  <2>4. LeadTypeOK'
    BY <1>t, <2>1, <2>3 DEF LeadTypeOK, SiteStatus
  <2>5. \A x \in Site : site'[x] \in {"DRAFT", "PUBLISHED"} <=> site[x] \in {"DRAFT", "PUBLISHED"}
    BY <1>t, <2>1, <2>2 DEF LeadTypeOK
  <2> QED  BY <2>3, <2>4, <2>5, SitesKept
<1>4. ASSUME NEW w \in Site, SiteCommits(w) PROVE LeadInv'
  <2>1. /\ site[w] \in {"moved", "adding"} /\ site' = [site EXCEPT ![w] = "DRAFT"]
        /\ versions' = versions \cup {<<w, 1, w>>} /\ content' = [content EXCEPT ![w] = w]
        /\ UNCHANGED <<deal, change, editing>> /\ leadStatus' \in {"SITE_READY", leadStatus}
    BY <1>4 DEF SiteCommits
  <2>2. Own(w) = {}
    BY <1>t, <2>1 DEF SiteInv
  <2>3. /\ Numbered(w)' /\ \A x \in Site : x # w => Own(x)' = Own(x) /\ Count(x)' = Count(x)
        /\ \A x \in Site : x # w /\ Numbered(x) => Numbered(x)'
    <3>1. PICK n \in Nat \ {0} : n = 1
      OBVIOUS
    <3>2. versions' = versions \cup {<<w, n, w>>}
      BY <2>1, <3>1
    <3> QED  BY <2>1, <2>2, <3>1, <3>2, VersionAdded
  <2>4. "SITE_READY" \in LeadStatus
    BY DEF LeadStatus, Active, Ahead
  <2>5. LeadTypeOK'
    BY <1>t, <2>1, <2>4 DEF LeadTypeOK
  <2>6. site'[w] = "DRAFT" /\ \A x \in Site : x # w => site'[x] = site[x]
    BY <1>t, <2>1 DEF LeadTypeOK
  <2>7. SiteInv'
    BY <1>t, <2>3, <2>6 DEF SiteInv
  <2>8. \A e \in Edit : editing[e].pc \in {"read", "again", "inserted"} => editing[e].of \in Site /\ editing[e].of # w
    BY <1>t, <2>1 DEF EditInv
  <2>9. \A e \in Edit : editing[e].pc \in {"read", "inserted"} => Count(editing[e].of)' = Count(editing[e].of)
    BY <2>1, <2>3, <2>8
  <2>10. EditInv'
    BY <1>t, <2>1, <2>6, <2>8, <2>9 DEF EditInv
  <2> QED  BY <2>5, <2>7, <2>10 DEF LeadInv
<1>5. ASSUME NEW e \in Edit, NEW w \in Site, EditReads(e, w) PROVE LeadInv'
  <2>1. /\ site[w] \in {"DRAFT", "PUBLISHED"} /\ editing[e].pc \in {"idle", "again"}
        /\ editing' = [editing EXCEPT ![e] = [pc |-> "read", of |-> w, number |-> Latest(w) + 1, tries |-> editing[e].tries + 1]]
        /\ UNCHANGED <<leadStatus, deal, change, site, versions, content>>
    BY <1>5 DEF EditReads
  <2>2. Numbered(w)
    BY <1>t, <2>1 DEF SiteInv
  <2>3. PICK n \in Nat \ {0} : n = Count(w)
    BY <2>2 DEF Numbered
  <2>4. Latest(w) = n
    BY <2>2, <2>3, LatestOfAll DEF Numbered
  <2>5. editing[e].tries \in 0..MaxNumberTries /\ editing[e].tries < MaxNumberTries
    BY <1>t, <1>n, <2>1 DEF LeadTypeOK, EditInv
  <2>6. editing[e].tries + 1 \in 0..MaxNumberTries
    BY <1>n, <2>5
  <2>7. n + 1 \in Nat /\ n + 1 \in 1..(n + 1)
    OBVIOUS
  <2>8. PICK m : m = [pc |-> "read", of |-> w, number |-> n + 1, tries |-> editing[e].tries + 1]
    OBVIOUS
  <2>9. m \in EditRecord /\ m.pc = "read" /\ m.of = w /\ m.number = n + 1
    BY <2>6, <2>7, <2>8 DEF EditRecord
  <2>10. m.number \in 1..(Count(m.of) + 1)
    BY <2>3, <2>7, <2>9
  <2>11. editing' = [editing EXCEPT ![e] = m]
    BY <2>1, <2>4, <2>8
  <2> QED  BY <2>1, <2>9, <2>10, <2>11, EditMoves
<1>6. ASSUME NEW e \in Edit, EditInserts(e) PROVE LeadInv'
  <2>1. PICK k \in EditRecord : k = editing[e]
    BY <1>t DEF LeadTypeOK, EditRecord
  <2>2. /\ k.pc = "read" /\ UNCHANGED <<leadStatus, deal, change, site, versions, content>>
        /\ \A x \in Edit : ~(editing[x].pc = "inserted" /\ editing[x].of = k.of /\ editing[x].number = k.number)
    BY <1>6, <2>1 DEF EditInserts
  <2>3. k.of \in Site /\ site[k.of] \in {"DRAFT", "PUBLISHED"} /\ k.number \in 1..(Count(k.of) + 1)
    BY <1>t, <2>1, <2>2 DEF EditInv
  <2>4. Numbered(k.of)
    BY <1>t, <2>3 DEF SiteInv
  <2>5. PICK pc \in {"inserted", "again", "failed"} :
          /\ editing' = [editing EXCEPT ![e].pc = pc]
          /\ pc = "inserted" => k.number \notin Numbers(k.of)
          /\ pc = "again" => k.tries < MaxNumberTries
    <3>1. CASE k.number \notin Numbers(k.of)
      BY <1>6, <2>1, <3>1 DEF EditInserts, EditingGoes
    <3>2. CASE k.number \in Numbers(k.of) /\ k.tries < MaxNumberTries
      BY <1>6, <2>1, <3>2 DEF EditInserts, EditingGoes
    <3>3. CASE k.number \in Numbers(k.of) /\ ~(k.tries < MaxNumberTries)
      BY <1>6, <2>1, <3>3 DEF EditInserts, EditingGoes
    <3> QED  BY <3>1, <3>2, <3>3
  <2>6. PICK m : m = [k EXCEPT !.pc = pc]
    OBVIOUS
  <2>7. m \in EditRecord /\ m.pc = pc /\ m.of = k.of /\ m.number = k.number /\ m.tries = k.tries
    BY <2>1, <2>5, <2>6 DEF EditRecord
  <2>8. editing' = [editing EXCEPT ![e] = m]
    BY <2>1, <2>5, <2>6
  <2>9. pc = "inserted" => k.number = Count(k.of) + 1
    BY <2>3, <2>4, <2>5 DEF Numbered
  <2>10. pc = "inserted" => \A x \in Edit : ~(editing[x].pc = "inserted" /\ editing[x].of = k.of)
    BY <1>t, <2>2, <2>9 DEF EditInv
  <2>11. m.pc # "idle" /\ m.pc # "read" /\ (m.pc = "again" => m.tries < MaxNumberTries)
    BY <2>5, <2>7
  <2>12. m.of \in Site /\ site[m.of] \in {"DRAFT", "PUBLISHED"}
    BY <2>3, <2>7
  <2>13. m.pc = "inserted" => /\ m.number = Count(m.of) + 1
                              /\ \A x \in Edit : ~(editing[x].pc = "inserted" /\ editing[x].of = m.of)
    BY <2>7, <2>9, <2>10
  <2> QED  BY <2>2, <2>7, <2>8, <2>11, <2>12, <2>13, EditMoves
<1>7. ASSUME NEW e \in Edit, EditCommits(e) PROVE LeadInv'
  <2>1. PICK k \in EditRecord : k = editing[e]
    BY <1>t DEF LeadTypeOK, EditRecord
  <2>2. /\ k.pc = "inserted" /\ versions' = versions \cup {<<k.of, k.number, e>>}
        /\ content' = [content EXCEPT ![k.of] = e] /\ editing' = [editing EXCEPT ![e].pc = "done"]
        /\ UNCHANGED <<leadStatus, deal, change, site>>
    BY <1>7, <2>1 DEF EditCommits, EditingGoes
  <2>3. k.of \in Site /\ site[k.of] \in {"DRAFT", "PUBLISHED"} /\ k.number = Count(k.of) + 1
    BY <1>t, <2>1, <2>2 DEF EditInv
  <2>4. PICK w \in Site : w = k.of
    BY <2>3
  <2>5. Numbered(w) /\ Count(w) \in Nat \ {0}
    BY <1>t, <2>3, <2>4 DEF SiteInv, Numbered
  <2>6. PICK n \in Nat \ {0} : n = k.number /\ n = Count(w) + 1
    BY <2>3, <2>4, <2>5
  <2>7. /\ Numbered(w)' /\ Count(w)' = n
        /\ \A x \in Site : x # w => Own(x)' = Own(x) /\ Count(x)' = Count(x)
        /\ \A x \in Site : x # w /\ Numbered(x) => Numbered(x)'
    BY <2>2, <2>4, <2>5, <2>6, VersionAdded
  <2>8. editing'[e].pc = "done" /\ \A x \in Edit : x # e => editing'[x] = editing[x]
    BY <1>t, <2>2 DEF LeadTypeOK
  <2>9. LeadTypeOK'
    <3>1. versions' \subseteq Site \X (Nat \ {0}) \X (Site \cup Edit)
      <4>1. <<w, n, e>> \in Site \X (Nat \ {0}) \X (Site \cup Edit) /\ versions' = versions \cup {<<w, n, e>>}
        BY <2>2, <2>4, <2>6
      <4>2. versions \subseteq Site \X (Nat \ {0}) \X (Site \cup Edit)
        BY <1>t DEF LeadTypeOK
      <4> QED  BY <4>1, <4>2, Zenon
    <3>2. content' \in [Site -> Site \cup Edit \cup {Unread}]
      BY <1>t, <2>2 DEF LeadTypeOK
    <3>3. editing' \in [Edit -> EditRecord]
      BY <1>t, <2>2 DEF LeadTypeOK, EditRecord
    <3> QED  BY <1>t, <2>2, <3>1, <3>2, <3>3 DEF LeadTypeOK, EditRecord
  <2>10. SiteInv'
    BY <1>t, <2>2, <2>3, <2>4, <2>7 DEF SiteInv
  <2>11. \A x \in Edit : x # e /\ editing[x].of = w => editing[x].pc # "inserted"
    BY <1>t, <2>1, <2>2, <2>4 DEF EditInv
  <2>12. ASSUME NEW x \in Edit, editing'[x].pc = "read"
         PROVE  (editing[x].number \in 1..(Count(editing[x].of) + 1))'
    <3>1. x # e /\ editing'[x] = editing[x]
      BY <2>8, <2>12
    <3>2. PICK o \in Site : o = editing[x].of /\ editing[x].number \in 1..(Count(o) + 1)
      BY <1>t, <2>12, <3>1 DEF EditInv
    <3>3. Count(o)' = Count(o) \/ (Count(o) + 1 = n /\ Count(o)' = n)
      BY <2>6, <2>7
    <3>4. editing[x].number \in 1..(Count(o)' + 1)
      <4>1. CASE Count(o)' = Count(o)
        BY <3>2, <4>1
      <4>2. CASE Count(o) + 1 = n /\ Count(o)' = n
        BY <3>2, <4>2
      <4> QED  BY <3>3, <4>1, <4>2
    <3> QED  BY <3>1, <3>2, <3>4
  <2>13. ASSUME NEW x \in Edit, editing'[x].pc = "inserted"
         PROVE  (editing[x].number = Count(editing[x].of) + 1)'
    <3>1. x # e /\ editing'[x] = editing[x]
      BY <2>8, <2>13
    <3>2. PICK o \in Site : o = editing[x].of /\ o # w /\ editing[x].number = Count(o) + 1
      BY <1>t, <2>11, <2>13, <3>1 DEF EditInv
    <3>3. Count(o)' = Count(o)
      BY <2>7, <3>2
    <3> QED  BY <3>1, <3>2, <3>3
  <2>14. ASSUME NEW x \in Edit
         PROVE  /\ editing'[x].pc = "idle" => editing'[x].tries = 0
                /\ editing'[x].pc = "again" => editing'[x].tries < MaxNumberTries
                /\ editing'[x].pc \in {"read", "again", "inserted"}
                     => editing'[x].of \in Site /\ site'[editing'[x].of] \in {"DRAFT", "PUBLISHED"}
    <3>1. CASE x = e
      BY <2>8, <3>1
    <3>2. CASE x # e
      BY <1>t, <2>2, <2>8, <3>2 DEF EditInv
    <3> QED  BY <3>1, <3>2
  <2>15. \A x, y \in Edit : editing'[x].pc = "inserted" /\ editing'[y].pc = "inserted" /\ editing'[x].of = editing'[y].of => x = y
    BY <1>t, <2>8 DEF EditInv
  <2>16. EditInv'
    BY <2>12, <2>13, <2>14, <2>15 DEF EditInv
  <2> QED  BY <2>9, <2>10, <2>16 DEF LeadInv
<1>8. CASE UNCHANGED leadVars
  <2>1. LeadTypeOK'
    BY <1>t, <1>8 DEF leadVars, LeadTypeOK
  <2> QED  BY <1>8, <2>1, SitesKept DEF leadVars
<1> QED  BY <1>1, <1>2, <1>3, <1>4, <1>5, <1>6, <1>7, <1>8 DEF LeadNext

LEMMA LeadInvariant == LeadSpec => []LeadInv
<1>1. LeadInv /\ [LeadNext]_leadVars => LeadInv'
  BY LeadStep
<1> QED  BY LeadStarts, <1>1, PTL DEF LeadSpec

\* A lead, its deal, its projects and the edits under way keep their types.
THEOREM LeadTypesCorrect == LeadSpec => []LeadTypeOK
<1>1. LeadInv => LeadTypeOK
  BY DEF LeadInv
<1> QED  BY LeadInvariant, <1>1, PTL

\* However many edits of a project overlap, its versions are numbered without
\* a gap or a repetition and it shows the latest (createNewWebsiteVersion).
THEOREM LatestIsShown == LeadSpec => []CurrentIsLatest
<1>1. LeadInv => CurrentIsLatest
  <2> SUFFICES ASSUME LeadInv, NEW w \in Site, Own(w) # {}
               PROVE  Numbers(w) = 1..Cardinality(Own(w)) /\ <<w, Latest(w), content[w]>> \in Own(w)
    BY DEF CurrentIsLatest, Own
  <2>1. Numbered(w)
    BY DEF LeadInv, SiteInv
  <2>2. PICK n \in Nat \ {0} : n = Count(w)
    BY <2>1 DEF Numbered
  <2>3. Latest(w) = n
    BY <2>1, <2>2, LatestOfAll DEF Numbered
  <2> QED  BY <2>1, <2>2, <2>3 DEF Numbered, Own, Count
<1> QED  BY LeadInvariant, <1>1, PTL

-----------------------------------------------------------------------------
(***************************************************************************)
(* Business exclusivity.  ExclusivePitch compares two users and is not     *)
(* inductive: nothing in it stops a second user from reserving what the    *)
(* first one pitches.  What does is that a pitch whose claim has not       *)
(* lapsed is backed by the one row there is, alive and in its user's name  *)
(* (ClaimHeld).                                                            *)
(***************************************************************************)

ClaimHeld ==
  \A u \in Pitcher :
    courted[u] \in Courting /\ u \notin lapsed
      => claim.user = u /\ claim.live = TRUE /\ claim.status \in {"RESERVED", "PITCHED"}

\* A claim that is live has an owner.
ClaimOwned == claim.live = TRUE => claim.user # Unclaimed

ClaimInv == ClaimTypeOK /\ ClaimHeld /\ ClaimOwned

LEMMA ClaimsStart == ClaimsInit => ClaimInv
  BY DEF ClaimsInit, ClaimInv, ClaimTypeOK, ClaimHeld, ClaimOwned, Courting, Revived

\* Every step keeps the types, and every pitch that has not lapsed its claim.
LEMMA ClaimStep ==
  ASSUME ClaimInv, [ClaimsNext]_claimVars
  PROVE  ClaimInv'
<1> USE ClaimAssumption DEF ClaimInv, ClaimTypeOK, ClaimHeld, ClaimOwned, Courting, Revived, messageVars
<1>1. ASSUME NEW u \in Pitcher, LeadCreated(u) PROVE ClaimInv'
  BY <1>1 DEF LeadCreated
<1>2. ASSUME NEW u \in Pitcher, LeadKeptOrUndone(u) PROVE ClaimInv'
  BY <1>2 DEF LeadKeptOrUndone
<1>3. ASSUME NEW u \in Pitcher, Select(u) PROVE ClaimInv'
  BY <1>3 DEF Select
<1>4. ASSUME NEW u \in Pitcher, ReserveBusiness(u) PROVE ClaimInv'
  <2>1. CASE /\ claim.status \in {"NONE", "RELEASED"} \/ ~claim.live
             /\ claim' = [status |-> "RESERVED", user |-> u, live |-> TRUE]
             /\ courted' = [courted EXCEPT ![u] = "reserved"]
    <3>1. \A v \in Pitcher : courted[v] \in Courting => v \in lapsed
      BY <2>1
    <3> QED  BY <1>4, <2>1, <3>1 DEF ReserveBusiness
  <2>2. CASE /\ claim.status \in {"RESERVED", "PITCHED"} /\ claim.live
             /\ courted' = [courted EXCEPT ![u] = IF claim.user = u THEN "reserved" ELSE "skipped"]
             /\ UNCHANGED claim
    BY <1>4, <2>2 DEF ReserveBusiness
  <2> QED  BY <1>4, <2>1, <2>2 DEF ReserveBusiness
<1>5. ASSUME NEW u \in Pitcher, StartPitch(u) PROVE ClaimInv'
  BY <1>5 DEF StartPitch
<1>6. ASSUME NEW u \in Pitcher, GuardAllows(u) PROVE ClaimInv'
  BY <1>6 DEF GuardAllows
<1>7. ASSUME NEW u \in Pitcher, MessageGoesOut(u) PROVE ClaimInv'
  BY <1>7 DEF MessageGoesOut
<1>8. ASSUME NEW u \in Pitcher, ContactEnds(u) PROVE ClaimInv'
  BY <1>8 DEF ContactEnds
<1>9. ASSUME NEW u \in Pitcher, PitchSent(u) PROVE ClaimInv'
  <2>1. CASE claim.user = u
    <3>1. /\ courted[u] = "open" /\ courted' = [courted EXCEPT ![u] = "sent"]
          /\ claim' = [claim EXCEPT !.status = "PITCHED", !.live = TRUE]
          /\ lapsed' = lapsed \ {u} /\ UNCHANGED <<found, cleared, contacted>>
      BY <1>9, <2>1 DEF PitchSent
    <3>2. claim' = [status |-> "PITCHED", user |-> u, live |-> TRUE]
      BY <2>1, <3>1
    <3>3. \A v \in Pitcher : v # u /\ courted[v] \in Courting => v \in lapsed
      BY <2>1
    <3>4. ClaimTypeOK'
      BY <3>1, <3>2
    <3>5. ASSUME NEW v \in Pitcher, courted'[v] \in Courting, v \notin lapsed'
          PROVE  v = u
      BY <3>1, <3>3, <3>5
    <3>6. claim'.user = u /\ claim'.live = TRUE /\ claim'.status = "PITCHED"
      BY <3>2
    <3>7. ClaimHeld'
      BY <3>5, <3>6
    <3>8. ClaimOwned'
      BY <3>6, ClaimAssumption
    <3> QED  BY <3>4, <3>7, <3>8
  <2>2. CASE claim.user # u
    BY <1>9, <2>2 DEF PitchSent
  <2> QED  BY <2>1, <2>2
<1>10. ASSUME NEW u \in Pitcher, PitchFailed(u) PROVE ClaimInv'
  <2>1. CASE claim.user = u /\ claim.status = "RESERVED"
    BY <1>10, <2>1 DEF PitchFailed
  <2>2. CASE ~(claim.user = u /\ claim.status = "RESERVED")
    BY <1>10, <2>2 DEF PitchFailed
  <2> QED  BY <2>1, <2>2
<1>11. ASSUME NEW u \in Pitcher, PitchRetried(u) PROVE ClaimInv'
  BY <1>11 DEF PitchRetried
<1>12. ASSUME NEW u \in Pitcher, RetriedPitchEnds(u) PROVE ClaimInv'
  BY <1>12 DEF RetriedPitchEnds
<1>13. CASE ClaimExpires
  <2>1. claim' \in [status : {"NONE", "RESERVED", "PITCHED", "RELEASED"},
                     user : Pitcher \cup {Unclaimed}, live : BOOLEAN]
    BY <1>13 DEF ClaimExpires
  <2>2. \A u \in Pitcher : courted[u] \in Courting => u \in lapsed'
    BY <1>13 DEF ClaimExpires
  <2>3. ClaimTypeOK'
    BY <1>13, <2>1 DEF ClaimExpires
  <2>4. ClaimHeld'
    <3>1. courted' = courted
      BY <1>13 DEF ClaimExpires
    <3>2. \A u \in Pitcher : courted'[u] \in Courting => u \in lapsed'
      BY <2>2, <3>1
    <3> QED  BY <3>2
  <2>5. ClaimOwned'
    BY <1>13 DEF ClaimExpires
  <2> QED  BY <2>3, <2>4, <2>5
<1>14. CASE UNCHANGED claimVars
  BY <1>14 DEF claimVars
<1> QED
  BY <1>1, <1>2, <1>3, <1>4, <1>5, <1>6, <1>7, <1>8, <1>9, <1>10, <1>11, <1>12, <1>13, <1>14
     DEF ClaimsNext, PitcherStep

LEMMA ClaimInvariant == ClaimsSpec => []ClaimInv
<1>1. ClaimInv /\ [ClaimsNext]_claimVars => ClaimInv'
  BY ClaimStep
<1> QED  BY ClaimsStart, <1>1, PTL DEF ClaimsSpec

\* Every row and every pitch keeps its type, whoever takes part.
THEOREM ClaimTypesCorrect == ClaimsSpec => []ClaimTypeOK
<1>1. ClaimInv => ClaimTypeOK
  BY DEF ClaimInv
<1> QED  BY ClaimInvariant, <1>1, PTL

\* However many users find a business, choose it at the same time and lose it
\* again, two of them pitch it only once a claim ran out (reserveBusiness).
THEOREM PitchesExclude == ClaimsSpec => []ExclusivePitch
<1>1. ClaimInv => ExclusivePitch
  BY DEF ClaimInv, ClaimHeld, ExclusivePitch
<1> QED  BY ClaimInvariant, <1>1, PTL
=============================================================================
