# PitchMyWeb: formal model

TLA+ specifications of PitchMyWeb, the TLC configurations that check them on small instances, and
theorems about them proved with TLAPS for every instance. Sources are cited relative to the
repository's root, `src/`.

PitchMyWeb finds businesses without a good website, builds each a preview site, records a walkthrough
video of it and sends it to the business over WhatsApp. A user pays with *pitch credits*: selecting
leads reserves one credit per lead, a pitch that is sent consumes it, one that fails for good gives it
back. What can go wrong is therefore money (a credit lost, spent twice, stuck) and reputation (a
business messaged twice, or after it should not be), and it goes wrong where requests, workers,
maintenance jobs and receipts act on the same rows without a common lock.

## The system

| Component | State | Operations | Interacts with | What makes it correct |
|---|---|---|---|---|
| **Pitch credit engine** `apps/api/src/lib/checkout/wallet.service.ts` | `PitchWallet` (available, reserved, used), `PitchCreditLedger` (append-only, unique `referenceId`) | grant, reserve, release, consume, refund, reconcile | called by selection, pipeline, checkout, sign-up, inside their transactions or not | balances never negative, wallet equals ledger, credits conserved, each resolution once |
| **Selection and batches** `campaigns/selection.service.ts` | `PitchBatch` (status, reserved/sent/failed/replaced counts) | manual and automatic selection, reserve, start, record, stale batch recovery | credit engine, pipeline | every open pitch backed by a reserved credit, nothing stranded, target respected |
| **Delivery pipeline** `pipeline/pipeline.service.ts` | `LeadPipeline` (stage, failure, attempts, credit outcome, ids of site, recording, message) | start, build, recording callback, prepare delivery, sync, retry, replace, pause/resume, direct send | websites, recorder, WhatsApp messages, credit engine, claims | settled once; sent iff consumed; one message in flight; pause moves no credit |
| **Pipeline maintenance** `jobs/pipeline-maintenance.job.ts` | none of its own | recover stuck pipelines, retry failed ones with backoff, time out recordings, recover batches | pipeline, selection | nothing stays reserved because a process died; bounded retries |
| **WhatsApp messages** `whatsapp/message.service.ts`, `apps/whatsapp-worker/src/workers/` | `WhatsAppMessage` (status, provider id, times), BullMQ send jobs | enqueue, guard, check number, claim, send, record, receipts, cancel | API, BullMQ, WhatsApp, pipeline sync | delivered at most once; status tells the truth and moves forward; caps respected |
| **WhatsApp sessions** `apps/whatsapp-worker/src/session/` | `WhatsAppAccount`, a Redis lock per account, live sockets, command and reconnect queues | connect, pair, disconnect, renew the lock, reconnect, restore, shut down | BullMQ, Redis, WhatsApp, session policy | a lock its holder can release, no registry entry without a socket, a dropped session comes back |
| **WhatsApp session policy** `whatsapp/session-policy.ts`, `account.service.ts` | `linkedAt`, `logoutReason` | decide and enqueue automatic sign-out | campaigns, messages, sessions | no sign-out with work outstanding, none of a newer login |
| **Outreach policy, opt-outs** `whatsapp/outreach-policy.ts`, `workers/send-guard.ts`, `opt-out.service.ts` | `OptOut` rows | evaluate before queueing and before sending, record STOP replies | messages | no message after an opt-out, inside the duplicate window, or over a cap |
| **Business claims** `leads/claims.service.ts` | one claim row per business | reserve, confirm, release, expire | ingestion, pipeline start and settlement | one user per business inside the exclusivity window |
| **Leads and lifecycle** `leads/` | `Lead.status`, the `Deal` that mirrors it | transitions, ingestion, listing | pipeline, campaigns, websites | only legal transitions, under requests that overlap |
| **Checkout** `checkout/checkout.service.ts` | `Order`, `Coupon` | create, verify, webhook, redeem, claim, grant | payment provider, sign-in, credit engine | credits of a paid order granted, to its owner only |
| **Campaign runs, discovery** `campaigns/run.service.ts`, internal routes, `jobs/expire-stale-runs.job.ts`, `apps/discovery-worker` | `Campaign.status`, `CampaignExecution`, ingest lease, discovery job | ready, run, trigger, search, deliver, finalize, expire | discovery worker, schedulers | campaign and execution tell one outcome; a run ends, and is expired once |
| **Businesses** `business/` | `Business`, `PossibleDuplicate`, `BusinessMerge` | resolve a found record, merge, dismiss | discovery ingestion, leads | of two twins one is put before a reviewer, a merge loses no lead |
| **Websites** `websites/` | `WebsiteProject`, numbered `WebsiteVersion`s | create, edit, publish | leads, pipeline | versions numbered without gap, the project shows the last |
| **Recorder, verification** `apps/recorder-worker`, `apps/verification-worker`, `apps/python-discovery` | `DemoRecording`, queue jobs | record, verify | pipeline callbacks, maintenance job | a recording moves its pitch on once, and is not waited for forever |
| **Authentication** `auth/` | sessions, reset codes | sign in, reset | all routes | request-scoped |
| **Web client, preview sites** `apps/web`, `apps/sites` | none shared | render | API | out of scope |

The behaviours that are hard, and that these modules are for: the several commits of one request with
others between them; a process dying between two commits; two workers running one job; a call to
WhatsApp whose outcome is unknown; decisions taken from rows read earlier. `PROJECT.json` lists each at
the line where it bites, with the properties that watch it.

## The modules

| Module | Models | Built on |
|---|---|---|
| `PitchWallet` | the credit engine, under any caller in any order | |
| `PitchBatch` | selection requests, batches, and the settlement of each pitch's credit | extends `PitchWallet`; implements its specification and `PitchCredit` |
| `MessageLife` | what the rest of the system may rely on about a WhatsApp message (abstract) | |
| `SendWorker` | message row, BullMQ job, worker slots, WhatsApp, receipts | implements `MessageLife` |
| `PitchCredit` | what may happen to the credit of a pitch (abstract) | |
| `PitchPipeline` | the stages of a pitch, and all the requests and jobs that move it | extends `MessageLife`, implements `PitchCredit` |
| `Recording` | the walkthrough video a pitch waits for: request, recorder, callbacks, reconciliation | |
| `Claims` | the claim of users on one business | |
| `Orders` | verification, webhook, coupon and claiming of paid orders | |
| `CampaignRun` | a campaign, its discovery run, the worker, the deliveries, the expiry job | |
| `BusinessDirectory` | resolving found records to businesses, merging and dismissing duplicates | |
| `LeadLife` | one lead's status and deal, its website projects and their versions | |
| `WaSession` | the session of one WhatsApp account over several worker processes | |
| `PitchBatchProofs`, `SendWorkerProofs`, `PitchPipelineProofs`, `RecordingProofs`, `WaSessionProofs` | theorems | extend the module in their name |
| `PitchWalletProofs` | theorems about credits and the orders that buy them | extends `PitchWallet`, `Orders` |
| `DiscoveryProofs` | theorems about campaign runs, the businesses they find, their leads and sites, and who may pitch them | extends `CampaignRun`, `BusinessDirectory`, `LeadLife`, `Claims` |
| `PlatformProofs` | theorems about the composition | extends `MCPlatform` and the proofs of its parts |
| `MCPitchBatch`, `MCSendWorker`, `MCPitchPipeline`, `MCPlatform` | instances for TLC | |

`MCPlatform` puts `PitchWallet`, `Orders`, `Claims`, `LeadLife`, `BusinessDirectory`, `CampaignRun`, `Recording`
and `WaSession` side by side. Between themselves they share no row that either reads, so their product
would only multiply states: a variable `part`, chosen at the start, says whose steps a behaviour takes, and
the states of the whole are those of eight runs added up. `ClaimsMessenger.cfg` runs `Claims` alone.

Operators named `Faulty_...` are never used by a specification. Each is one of the definitions with a
plausible bug (a dropped condition, a swapped bound), kept beside it to show that the property that
guards it would notice.

### PitchWallet

One action per operation of `wallet.service.ts`. An operation that runs in its caller's transaction is
one step. `grantCredits` is not run in one (its callers, sign-up and order claiming, pass a bare
client), so it is two steps, `GrantRecorded` and `GrantApplied`, and `GrantCrashed` is a process that
dies between them. The ledger is kept as the sums that `reconcileCreditLedger` groups it into, plus
`held`, what the rows of one batch leave reserved. A unique violation aborts the surrounding Postgres
transaction, so a taken `referenceId` disables `Record` and with it the whole operation; the early
returns on that error leave the state as it is, too. `owed` is a history variable (grants recorded and
not applied), and `alerts` counts the alerts that `resolveReservedCredit` emits when it finds nothing
reserved.

### PitchBatch

The request behind a batch is `call[b]`: what its process remembers between commits (`pc`, the
candidates it read, the pipelines it created). `SelectLeads` and `AutoSelectLeads` are the unlocked
reads, `ReserveBatch` the first transaction, `StartPipelines` the creation of rows, `RecordStarted` the
last transaction, `CallCrashed` a death between two of them, `RecoverStaleBatch` the maintenance job.
`RecoverStaleBatch` touches only batches older than ten minutes (`STALE_BATCH_MS`), which no request
still works on: its guard is that the request is dead. `ConsumeCredit`, `RefundCredit` and
`ReplaceCredit` are the three ways `resolvePipelineCredit` and `claimReplacementLead` settle a pitch;
here they may happen at any time after the row exists, because what drives them is the pipeline's
stages. Lead eligibility (status, valid phone, business taken) only shrinks the set of selectable
leads, and `StartPipelines` may drop any subset of the candidates, as the business claim may.

### MessageLife and SendWorker

`SendWorker` follows one account. A message is its row (`status`, `known`: its provider id is stored,
`recent`: its `sentAt` is inside the rate window), its job and whatever slot runs it. One action is one
read, write or provider call of `send.worker.ts`; the guard is two (policy, then rate), as in the code.
The guard's denials that depend on other components (opted out, not connected, claimed elsewhere) may
happen at any time; `recent_duplicate` and the caps are computed. The caps per hour and per day and the
minimum gap are all "no more than k messages in a window", so one window stands for them. All of a
behaviour happens inside the duplicate window.

BullMQ is outside `src/`; what is modelled of it is how the code uses it: a job is retried up to its
`attempts`, moved back without using one by `moveToDelayed`, and redelivered when its lock expires,
because its process died or because it was too busy to renew it and still runs it. A slot whose lock is
gone can no longer complete, fail or delay the job. WhatsApp is `landed`, how often the recipient got
the message, and `pending`, calls that lost the race against their timer and may still land.

`MessageLife` is the view the pipeline has: a status, whether the message was attempted, whether
it landed. It is deliberately weak where the code is: FAILED and BLOCKED can be written over a message
that was delivered.

### PitchCredit and PitchPipeline

A `LeadPipeline` row is moved by many requests at a time: the one that started it, the recorder's
callback, the user's retry, pause, resume and confirmation, dashboards that poll `syncDeliveries`, and
the maintenance job. A **thread** is one of them: `pc` is the next transaction or read it makes, `pitch`
the row it is about, `memo` what it remembers of its reads and acts upon later (the recording it was
called back for, `prepareDelivery`'s copy of row and campaign, the message a sync or a pause read, the
error `failPipeline` was called with). One action is one transaction or one read. Whether a write is
conditional is the code's: `setStage` and `failPipeline` write whatever the stage is by now, `ClaimVideo`,
`Complete`, `MarkDirectSent` and `PauseHolds` only if the row is still as they need it.

| Code | Actions |
|---|---|
| `startPipelines`, `buildAndPublish`, `requestRecording` | `Start`, `Build`, `Publish`, `BuildFails`, `RequestRecording`, `NothingToRecord` |
| `onRecordingFinished`, `reconcileRecordings` | `Finished`, `ClaimVideo` |
| `prepareDelivery`, `enqueueMessage` | `Load`, `Hold`, `LinkReady`, `Reassert`, `EnqueueMessage`, `DeliveryQueued`, `NotDeliverable`, `PolicyDenies` |
| `syncDeliveries`, `markDirectSent` | `SyncReads`, `SyncDelivered`, `SyncDead`, `SyncExpired`, `SyncWaits`, `Complete`, `MarkDirectSent` |
| `failPipeline`, `claimReplacementLead`, `abandonStalePipeline` | `Fail`, `FailReplaced` |
| `retryPipeline`, `requeueFailedPipelines`, `recoverStalePipelines`, `releaseHeldPipelines` | `Retry`, `Requeue`, `RetryRequeued`, `Recover`, `Release` |
| `pauseCampaignSending`, `resumeCampaignSending` | `SetPaused`, `PauseReads`, `PauseCancels`, `PauseTooLate`, `PauseHolds`, `Release` |

Abstractions, all of them towards more behaviours. The *status of a recording* is written by id from four
places (the recorder, which may also write QUEUED or FAILED over READY, the time-out, the expiry of the
video), so a reader may find anything. Failure *reasons* are the four classes that `failPipeline` and the
job tell apart; a dead message's reason is its own, `heldMessages` are those cancelled by a pause. *Time*
is left out: a back-off, a staleness limit or a receipt deadline may be over at any moment, so an
`updatedAt` condition, which only lets the job leave a row alone, does not restrict it. *Loops* over rows
are one thread per row, which allows every order. `attempts` is only compared with its limit and stops
there. *Ids* are handed out in a fixed order, and that of a recording nobody refers to is used again: they
are compared for equality only. The campaign stays in a status the job works on. Batch, wallet and business
claim are left out: `creditOutcome` is written by one conditional update, whose effect on batch and wallet
is `PitchBatch`'s subject.

`PitchCredit` says what all this may do to the credit of a pitch: it is open from the start, then consumed,
refunded, or handed to a pitch that has not started, once and for good.

### Recording

The stretch of the pipeline between `requestRecording` and `prepareDelivery`, with what `PitchPipeline` leaves
open: the job, its executions and the callbacks. `asking` is the one request that may be creating a recording (a
pitch's first, or a retry's); it may die at any of its awaits. An execution of `process-recording.ts` is
`exec[x]`; a job that stalls is handed to a second one while the first goes on, so two may write the status of
one row. A call of `onRecordingFinished` is `announce[c]`: it reads the row, reads the pitch, and then claims
the pitch with an update that names stage and recording. `Sweep` is the call that `reconcileRecordings` makes;
it also fails a recording that took too long. Several announcements of one recording, late and lost ones
included, race for the claim. Delivery itself is one step here and `PitchPipeline`'s subject.

### Claims

One business, since claims of different ones are different rows; a user stands for the campaign the
business was found in. A pitcher goes from `found` (discovery checks the claim before it creates the lead,
and undoes the lead if it lost it meanwhile) over *chosen* (a read of claims) to a reservation
(`reserveBusiness`, one upsert that takes a free, released, expired or own claim), an open pitch, and SENT or
FAILED, which confirm or release the claim in the transaction of the credit. `retryPipeline` brings a failed
pitch back without a reservation. The last defence is the send worker's `claimed_elsewhere` guard, which
looks for other users' messages: it is read (`GuardAllows`) before the message becomes visible to others
(`MessageGoesOut`), and the messages of users who send by hand (`Direct`) have no row to look for. `lapsed`
notes whose claim ended by time, which is allowed to let others in.

### Orders

Each handler of `checkout.service.ts` stops between its statements: a verification between read, decision,
coupon and claim, a webhook event between payment, coupon, claim and grant. `claiming` holds the grants that
are due because somebody's update of `Order.userId` succeeded. The row is read again after that update, and by
then it may say FAILED (`ClaimFindsFailed`): no grant follows. A handler may die anywhere; the provider
repeats an event that was not answered (`HookDies` makes it idle again), the browser does not. The event
always carries an email address, as the provider's do. A grant is its unique ledger row here, and the wallet
it moves is `PitchWallet`'s. The creation of an order, the dummy checkout and prices are left out.

### CampaignRun

`RunRequest`s pass the checks, move the campaign to PROCESSING, create the execution, enqueue the job and
mark it triggered, one commit each; an `Editor` is `markCampaignReady`, which writes READY whatever the
status is by then. The worker searches and posts its report, repeating a post that was lost or not answered;
each post that arrives is a `Delivery`, which reads, ingests for minutes, and finalizes. A `Scheduler` scans,
takes the ingest lease and finalizes. `Finalize` is `finalizeExecution`: its write of the campaign is
decided by the status the handler read earlier (`seen`). Workers, handlers and schedulers may die. Time is
left out: a run may be overdue, and a lost lease may have expired, at any moment; the lease of a live
scheduler is taken not to expire under it.

### BusinessDirectory

A finding is one provider record in one campaign. `resolveBusiness` looks the record up by its external id,
takes an advisory lock on phone or domain, matches again, and commits with the lead. Which of the six tiers
matched is abstracted to what they decide: surely the same (`Corroborated`), or perhaps (`Suspected`), given as
relations on findings. Transactions are read committed, so that what one writes is invisible until it
commits, and the lock is held until then. A review merges or dismisses a flagged pair, deciding on what it read.

### LeadLife

A lead moves along `LEAD_LIFECYCLE_TRANSITIONS` (`Ahead`, `Allowed`): a request reads the status, finds the
step allowed, and writes; the deal follows. A website project is created with the lead's step to
SITE_READY. `createNewWebsiteVersion` computes the next number from the rows it sees, inserts, and tries
again when the number was taken, up to `MAX_VERSION_NUMBER_ATTEMPTS`.

### WaSession

One account; others use other keys and rows. A process of the WhatsApp worker has a registry entry
(`registered`), a provider map with its `socket`, and `calls` of `provider.connect` in flight: it waits for
stored credentials before it opens the socket, and anything may happen meanwhile. A second call can
overwrite a socket, which stays open and unnamed (`orphans`) and whose close handler then acts on the newer
one. `waLock` is the Redis key: the process that holds it, `Stale` once that process is gone, or `Free`. The
queues hold `commands` and `retries` (a reconnect job is named after its attempt, so a second of that name is
swallowed). Crashes, orderly shutdowns, expiry under a busy holder, and sockets that never open are bounded
faults; `DropsForever` makes the last unbounded. The session policy queues a sign-out once the campaign
has finished and stamps it with the login it was decided for.

Abstractions: taking the lock in Redis and writing the live entry of it are one step (`Acquire`), so that a
disconnect between the two is left out; a pairing code that is shown is taken for a QR code; the credentials are
one Boolean; the policy's second reason to sign out (a link nobody used within its time) is left out; a Redis
error while a lock is released is not modelled; linking and unlinking are asked for only where the web client
offers them (`ConnectedCard`, `LinkPanel`).

## What is checked

Each passing property is shown to notice a plausible bug (`mutants` in `PROJECT.json`).

| Run | Shows | Instance |
|---|---|---|
| `platform` | types; wallets reconcile and conserve credits; credits go to the order's owner; one user pitches a business; versions are numbered and the last is shown; of twins that race one is flagged; campaign and execution agree; a run is expired once; a recording delivers once; a lock is releasable and a registry entry has a socket | two of nearly everything, see below |
| `platform_fair` | a paid order is credited; a triggered run ends; a pitch does not wait for a recording forever; a dropped session returns | one handler of each kind and crashes, with fairness |
| `batch` | every open pitch is backed by one reserved credit of its own batch; no resolution finds the reservation gone; row and ledger agree; outcome final; counters agree; replacement chains carry one credit; a request that dies before its first pitch gets everything back | two concurrent requests, three leads, one campaign, crashes and recovery, with fairness |
| `send` | a message is handed to WhatsApp once and received at most once; an unsent status means unattempted, a sent one means landed; a message still QUEUED keeps its job until its attempts or redeliveries are used up; rows of messages on their way move forward; `MessageLife` is implemented | two slots, two messages to one number, 2 attempts, 1 redelivery each |
| `send_jobs` | duplicate check and caps hold although read several steps early; every job that reached the queue ends | one slot, two messages to one number, cap 1, 2 attempts, with fairness |
| `pipeline` | types and columns; SENT only if consumed; consumed only if a message of this pitch arrived | one pitch, two threads, two messages, 1 attempt |
| `pipeline_replaced` | `PitchCredit` is implemented, with a credit that passes to another lead and requests that die anywhere | two pitches, one thread, one message, 1 attempt, 2 crashes |
| `pipeline_fair` | an open failure is one that the job retries; no reserved credit is forgotten, and what a death can strand | one pitch, two threads, one message, 2 attempts, one death, with fairness |

**Why these bounds are enough.** The parts of `platform`:

- *Wallet*: its guards compare one balance with one amount; two users with a grant each give every order of
  operations on a wallet, and a second one they must not leak into.
- *Orders*: two orders, one placed signed in and one not, two shoppers, a genuine and a mismatched
  verification, an event per order, a coupon with one redemption, one handler that dies: every two handlers
  that race for one row, with the loser's follow-up.
- *Claims*: two pitchers of one business, one of whom sends by hand. A claim has one holder, so a third
  pitcher is what the second was.
- *LeadLife*: two requests for one lead, one project with two edits and two tries for a number: the least
  for a stale read, and for a number taken twice.
- *BusinessDirectory*: four findings in two campaigns, of which one record is found twice, one is surely the
  same and one perhaps; two reviews. That is one business per tier and a merge of a pair another review has.
- *CampaignRun*: one editor, two requests, two deliveries, two schedulers, one death, one attempt and post.
- *Recording*: two executions (a stalled job and its second), two announcements of which one is the sweep,
  two recordings (a retry's beside the one it gave up).
- *WaSession*: two processes, one login, one attempt, one stop and one expiry, sockets that may never open.
  Two of each are the least for a race, and `PlatformSafe` below says the same of every safety invariant of
  this run for any number.

`platform_fair` has less of everything that competes and more of what fails, since what it asks is whether
something happens in the end: one order with two deaths; one run request and delivery with two schedulers, two
attempts, two posts and a death; one execution, two announcements, two attempts, a stall and two deaths; one
process with two logins and a stop.

In `batch`, two requests are the least for every race of selection, and three leads the least for a batch
of two with a third to replace into, so that a chain of replacements, a race for a lead and a shortfall
occur in one behaviour; credits are few enough that reservations compete. In `send`, two slots are the
least for two executions of one job, one redelivery suffices to get there, and a second attempt to
retry; a second message to the number exercises the duplicate check. In `send_jobs` the cap of one binds
although the duplicate check comes first: the row of a message that was sent may say FAILED, which the check
ignores. The theorems cover every number of messages, and every cap. Symmetry is used where
messages and slots are alike, in safety runs only. In `pipeline`, two threads are the least for a write
that acts on a read gone stale, and two messages for a retry beside a message still on its way: a receipt
is read for one, and by the time its thread consumes the credit another is in the row. Its one
attempt makes every failure final, and `pipeline_fair` has the two that separate a retried failure from a
final one. Replacement needs two pitches, which two threads would make too large; `pipeline_replaced` has
one thread, and dead requests leave rows behind for the next. Two recordings suffice: besides its own, a
request avoids only one that another pitch or a callback refers to, and there is one of these at most.
In `pipeline_fair` one request may die, at any point and beside any other. After the death one thread's
requests go on, one after the other, with the one it may be busy with first (`LoneDeaths`): that keeps the run
small, and what the dead one left behind is found by a pass of the maintenance job, which is one thread. Every
race of two requests before the death, or without one, is there. `OpenFailureIsRetried` is proved for any
number of deaths and threads.
Exchanging recordings, pitches or threads is sound: `CHOOSE` picks among ids that nothing refers to.

Three properties hold only within a bound that the code does not enforce. `StatusPairAgrees` and `ExpiredOnce`
are checked with one editor request, and proved for any number that do not overlap: the unconditional READY of a
second (`campaign.service.ts:148-154`), decided before the run started, can put a running campaign back, and TLC
finds both violated as soon as two overlap. `DroppedSessionReturns` is checked for one process, as the
deployment has it: with two, a second socket that a user's link attempt opened on one closes and writes
RECONNECTING over the CONNECTED of the other, whose socket is open and gives nobody a reason to write again.

Deadlock is not checked in the platform, batch and worker runs: each of these systems really ends (all leads
pitched, all jobs over). It is checked in the pipeline's, where a user can always pause or resume.

**Fairness.** `batch` assumes that a live request takes its next step (it is straight-line
code after its reads) and that the maintenance job, a scheduled one, runs again and again; it assumes
nothing of selections, grants or pitches. `send_jobs` assumes that a slot takes its next step except
when it waits for WhatsApp, where only the timer (`withTimeout`) is sure to fire; that the queue hands
out waiting jobs in order, so none is passed over for ever (strong fairness of taking a job, since a
slot is only free now and then); that the queue's stalled check redelivers jobs of dead processes; and
that time passes (`AgesOut`). It does not assume that WhatsApp ever answers. `pipeline_fair`
assumes that a thread takes its next step (weak fairness: straight-line code) unless its request
dies, and that the maintenance job comes back to every row its queries name although the threads are busy now
and then (strong fairness, per pitch and grouped in two conditions, which is weaker than one per pass):
recordings end or time out, and a receipt is overdue in the end. It assumes nothing of messages, users or
new leads; a pitch that waits for one of these may wait for ever, which is what `Waits` says.

In `platform_fair` each part has its own. Orders: the
provider delivers the event of a paid order until it is answered (deaths are bounded), handlers run, and a grant
that is due is made; nothing of browsers or sign-ins. Campaign runs: the lease of a scheduler that died expires and
the expiry job comes round; nothing of workers or deliveries, which may all be lost. Recordings: the
maintenance job reconciles, and a call that has begun goes on; nothing of recorders. Sessions: commands and
reconnect jobs are served, a connect call and a socket that is opening end one way or the other (not an open
one), a stopped process is started again, an unrenewed lock expires, a campaign finishes, a sign-out that was
decided is carried out. The user need do nothing. A socket that was open may drop at any time; one that is
opening does not fail in this run (`MaxDrops` 0): if none ever opened again, the account would stay RECONNECTING,
because every failed try plans attempt 1 anew, and that limit of the code is among the notes below.

**Where the code and what it says of itself part.** A violation run checks one claim that a comment,
doc or schema makes and that TLC refutes; `findings` in `PROJECT.json` quotes it.

| Run | Claim | What happens |
|---|---|---|
| `batch_completion` | a batch completes when every reserved slot has sent or failed | `reservedCount` is 0 until the request's last transaction, so the first pitch to resolve before it completes the batch, whose counters then stop |
| `pipeline_paused` | a pause fails nothing and moves no credit | the message is cancelled in one commit and the pitch moved back in another; a dashboard's sync in between finds a dead message and fails, and refunds, the pitch as `paused`, which nothing retries |
| `claims_messenger` | once one user pitches a business no other can message it while the claim lasts | a pitch that failed released its claim, and `retryPipeline` resumes it without reserving again; the worker's guard does not see a message sent by hand, or one not yet SENDING |
| `pipeline_double` | never a second message for a pipeline that has one in flight | two deliveries (a resume beside a recorder callback, two retries) both read that there is none, and queue one each |

Others met while modelling, on which no run is spent:

- `wallet.service.ts:96-116` (`GrantCrashed`): a process that dies inside `grantCredits` leaves credits in the
  ledger and not in the wallet, and every retry stops at the taken `referenceId`, against :260 "they must
  always match". `LedgerReconciles` accounts for the difference in `owed`.
- `selection.service.ts:371`: a request that dies after creating *some* of its pitches strands the credits
  of the others; `recoverStaleBatches` skips a batch that has any.
- `selection.service.ts:293`: two selections read the remaining slots before either reserves, so a campaign
  can exceed `targetCount`, against :23.
- `send.worker.ts:83`: with `WA_SEND_CONCURRENCY` above 1, a redelivered job can write BLOCKED over the
  message its first run is sending. With one slot, the default, the two cannot overlap; that a BLOCKED message
  was then never attempted (`BlockedNeverAttempted`) is proved, and no run is spent on it.
- `send.worker.ts:138`: a message whose call timed out may still arrive, and its pitch may be retried with a
  second one. The worker's properties are per message; that two of one pitch arrive is accepted (:138-142).
- `send.worker.ts:93`: when every attempt at the number check fails, the message stays QUEUED with no job, and
  with it its pitch. `QueuedKeepsJob` says that nothing but spent attempts or redeliveries does that.
- `send.worker.ts:129`: if the Outreach row cannot be written, an accepted message is marked FAILED.
- `pipeline-maintenance.job.ts:67`: only SELECTED pitches are recovered. A process that dies while a site is
  built, or before its recording is requested, leaves BUILDING_SITE or SITE_PUBLISHED and a reserved
  credit for good, against :246. A crash after `requeueFailedPipelines` (:162) counted the last attempt leaves a
  FAILED pitch with an open credit, too. `LostToCrash` is these three places; `NoCreditForgotten` says that a
  death loses a pitch in no other, and `OpenFailureIsRetried` that only the attempts can be what is missing.
- `pipeline.service.ts:543`: `sendingPaused` is read when a delivery begins, so a message may still be queued
  just after a pause.
- `pipeline.service.ts:724`: a pitch that failed for good can be retried by its user after the refund. It
  can then queue a message, which may arrive; its credit stays refunded (`SentIsConsumed` holds because
  such a pitch never becomes SENT).

- **Sessions**: with one process, too, two sockets can be open for one account for a while (`orphans`), against
  `session.manager.ts:20-23` and `session.lock.ts:5-9`. A process that has used up its attempts writes ERROR
  although another holds a CONNECTED session, against :421-424. A `connect` that finds a stale lock is dropped
  and the account stays CONNECTING, and one that finds a connected session leaves CONNECTING behind, too. A
  crash at QR_READY leaves that status for good. A reconnect job that failed for good is kept and swallows the
  next of its name. Every close plans attempt 1 again, so the back-off never gives up (`architecture.md:65`,
  `:234`). A sign-out decided before a campaign starts ends that campaign's session and messages.
- **Campaign runs**: a READY decided before a run started can start it a second time, against
  `run.service.ts:424-426` and `:436-437`. Expiry and a late delivery may both finalize, which turns FAILED into
  COMPLETED and notifies twice, against `expire-stale-runs.job.ts:6-9`. A run that was never triggered never
  expires.
- **Orders**: webhook and verification may each redeem one order's coupon, against
  `checkout.service.ts:182-190`; a mismatched verification may write FAILED over PAID.
- **Claims**: a live claim of the user's own is left as it is, with the campaign that made it, so when a pitch
  of that first campaign fails, its release frees the claim on which the user's open pitch in a second relies,
  and that of the second frees nothing; a pause of more than seven
  days lets a reservation lapse; one whose process died stays until it expires.
- **LeadLife**: an update decided on an old status can move a lead out of WON or LOST, against `lifecycle.ts:7-8`.
- **Recording**: a call or a sweep that saw a failure can fail a pitch which another has delivered, against
  `pipeline.service.ts:495-496`.
- **BusinessDirectory**: the first tier finds rows that were merged away, against `dedupe.ts:107-108` and
  `matching.ts:8-10`; twins with different keys are not serialised; a dismissal can overwrite
  CONFIRMED_MERGED; a lead created on the loser between a merge's read and its commit stays there.

## What is proved

For every value of the constants that satisfies the named assumptions, which TLC evaluates in every run:
`WalletAssumption`, `BatchAssumption`, `SendAssumption`, `PipelineAssumption`, `OrderAssumption`,
`ClaimAssumption`, `LeadAssumption`, `DirectoryAssumption`, `RunAssumption`, `SessionAssumption` and
`RecordingAssumption`. They give the types of the constants, finite sets of leads and messages where they are
counted, `TargetCount` within `MaxRequest`, and that `Null` and its like are no ids. Two say a little more.
`RunAssumption` keeps the names of schedulers apart from those of requests and deliveries, since `finalizedBy`
records who finalized. `DirectoryAssumption` has two findings with one lock key matched, surely or perhaps: the
key is the normalised phone or domain, and equal ones are what tiers 2 and 3 of `dedupe.ts` look for.

- **PitchWalletProofs**: types (with the non-negative balances), reconciliation with the ledger, and
  conservation of credits. Reconciliation is inductive together with the types; conservation follows
  from it. Of orders, `GrantsBound`, that a grant made or due has the order's owner as its receiver, is kept
  because an owner is never replaced; `GrantGoesToOwner` follows.
- **PitchBatchProofs**: every step of `PitchBatch` is an operation of `PitchWallet` or leaves it alone
  (`BatchImplementsWallet`), so its theorems hold of batches. `RowInv` (types, and that a request's
  memory, its batch row and its pipelines refer to each other properly) is inductive; from it follow
  `TypeCorrect` and `OutcomesFinal`. `OutcomesMatchLedger` adds the agreement of row and ledger.
  `OpenPitchesAreBacked` needs `BackedInv`: `OpenPitchesBacked` says nothing of how many credits a dead
  request had yet to start, so the strengthening keeps, for every `pc`, the relation between `held`,
  the open pitches and what is unstarted; the step lemmas are about the cardinality of the set of open
  pitches when one is added, removed or swapped. Three more invariants stand on it:
  - `NoMismatch`: a settlement finds its credit reserved because the user's other batches cannot have used it
    up: `Accounts` says that a user's reserved balance is the sum of what its batches hold. The sum
    would be an induction over a set; it is counted instead, batch `b` holding `h` credits contributing the
    tokens `<<b, 1>>` to `<<b, h>>`, and `TokensAdded` says what `k` credits more or less do to their number.
  - `CountersAreExact` and `CountedOutBatches`: in `CountedInv` the counters are exact while the batch is
    processing and never ahead of its pitches later, and the pitches a request started are open, consumed or
    refunded, a replacement keeping their number; so when those counted make up `reserved`, none is open.
  - `ReplacementsCarryCredit`: a pitch can be named as successor only when it has no batch yet, and never
    again.
  `BatchImplementsCredit` maps every step to one of `PitchCredit` or a stutter, as `PipelineImplementsCredit`
  does for the delivery pipeline: the two detailed views of a settlement meet in the abstract one. It is only
  proved (the `batch` run, near its limit, checks `OutcomeFinal`, which it implies).
- **SendWorkerProofs**: `JobInv` keeps a job's attempts inside its limit. `WorkInv` is the heart: at
  most one slot holds a message past its claim, what that slot is doing says whether the message can
  have landed, and the row follows behind. `LandedAtMostOnce` alone is not inductive, since nothing in
  it forbids a second slot at the call. `QueuedIsNotDropped` goes through what ends an execution: only the last
  attempt or the last redelivery takes the job of a message that is QUEUED, since an execution that was
  overtaken has lost the right to end it. From `WorkInv` follow at-most-once delivery, the meaning of the
  statuses, and that every step is a step of `MessageLife` (`WorkerImplementsLife`), from which the
  forward motion of the status follows.

- **PitchPipelineProofs**: `RowInv`, inductive, is `TypeOK` (every row has the columns its stage is read
  with) and that a pitch which has not started has no credit and no thread. `TypeCorrect` follows from it.
  `ConsumedReachedLead` is not inductive: what a thread about to consume has read is no longer in its
  memory. `LeadInv` adds it (the pitch of such a thread has a message that landed), and what makes it so:
  every message that a row or a thread refers to is that pitch's own, an accepted one landed, and only a
  direct campaign has pitches at LINK_READY. `SentOnlyConsumed` and `ConsumedOnlyReached` follow.
  `OpenFailureIsRetried` holds of a pitch while any thread is busy with it; `RetryInv` names the threads
  that really will do something about it, which is what survives the others' steps, and `ReasonInv` that its
  reason is a retryable one, whoever died.
  `PipelineImplementsCredit` maps every step to a step of `PitchCredit` or a stutter: the writes that settle
  are conditional on the credit being open, and a replacement starts a pitch that did not exist.

- **RecordingProofs**: `VideoInv` is the types, `PitchInv` (the recordings asked for are the numbers up to
  the newest, none newer than `current` has moved the pitch on, and neither has the one a RECORDING pitch
  waits for) and `WorkInv` (executions and calls are about recordings that were asked for). `DeliveredOnce` is
  not inductive alone: the claim is refused to a second announcement because the first moved the stage, and a
  retry that moves it back asks for a new recording.
- **DiscoveryProofs**
  - *Campaign runs*: five kinds of handlers write two rows, each judging by what it read long before. `RowsAgree`
    is the agreement of campaign and execution in every state of the run. `StartersInv` and `EndersInv` say
    what a handler between its read and its write may rely on: who is about to create the execution is alone in
    having moved the campaign, and whoever is about to end the run saw PROCESSING. `LeaseInv` is what a lease is
    worth: one scheduler at most acts on it, and once somebody expired the run nobody does. `PairsAgree` and
    `RunsExpireOnce` follow, for behaviours in which no two `markCampaignReady` overlap (`EditorsTakeTurns`): the
    write of the second would take a campaign that runs back to READY, and without the condition both are false.
    The types need no condition (`RunTypesCorrect`).
  - *Businesses*: `TwinsAreFlagged` compares rows that two transactions wrote. `LocksHeld`, that of the findings
    with one key one is at work, orders them; `Alone` says what the later learned of the earlier: if it is about
    to create a row without a review, no live row has its key. `RowsNamed` and `FlagsKnown` keep references whole.
  - *Leads and sites*: `Numbered` says that a project's versions are `1..n` with the `n`-th shown, and `EditInv`
    what the number held by an edit is worth: read, it may have been taken since; inserted, it is the next, and
    no other edit's. `LatestIsShown` follows.
  - *Claims*: `ClaimInv` adds to the types that an open pitch whose claim has not lapsed is backed by the one row
    there is, alive and in its user's name, and that a live row has an owner. `PitchesExclude` follows.
- **PlatformProofs**: a step of one part is a stutter of every other, so that a behaviour of `MCPlatform` is one
  of each component (`PlatformComposes`), and what is proved of them holds of the whole: its types
  (`PlatformTypesCorrect`) and all eleven safety invariants of the `platform` run (`PlatformSafe`).
- **WaSessionProofs**: types, the two properties of lock and registry, together inductive. The lemmas say what
  each piece of the handlers keeps; `OthersKeepTheirs` carries the other processes through a step of one.
- **SendWorkerProofs, one slot** (`Solo`, `WA_SEND_CONCURRENCY` 1): `SoloInv` says that what the slot has
  decided on still holds, since nobody else can have sent meanwhile, and `PacedInv` that from the rate check to
  the record the count is under the cap. With two slots all three properties fail, so the assumption is needed.
  `OneSlotBlockedUnattempted` is proved only; the other two are checked by `send_jobs` as well.

**Only model-checked.** Every safety invariant and every action property that a run checks is proved. What
stays with TLC is what holds under fairness only, for which the prover has no rules: `EmptyBatchRecovered`,
`EveryJobEnds`, `NoCreditForgotten`, and the four properties of `platform_fair`.

## Not modelled

- Authentication and accounts: cookies, passwords and OAuth redirects live in one request.
- The web client, the preview sites and their templates, the verification and Python discovery workers, the
  browser and the encoder of the recorder: rendering, scraping and input and output. They are most of the
  repository's lines, which is why the modules cover a small share of it: what several actors share is in
  `apps/api/src/lib` and the three workers.
- Within the modelled components: the synchronous demo provider of discovery, the creation of an order with the
  provider, the dummy checkout and prices, the expiry of previews, the automatic sign-out of a link nobody
  used, opt-out rows and STOP replies, Redis errors while a lock is released, listings, notes and the activity log.
- The lead's step to PITCHED, the claim and the sign-out after a settlement are steps of `LeadLife`, `Claims` and
  `WaSession`, not of `PitchPipeline`, whose state space has no room for them; `PitchBatch` and `PitchPipeline`
  meet in `PitchCredit`, which both implement.
