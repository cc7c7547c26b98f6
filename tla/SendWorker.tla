----------------------------- MODULE SendWorker -----------------------------
(***************************************************************************)
(* Outbound WhatsApp messages of one account: from the row the API queues, *)
(* through the job queue and the send worker, to the recipient's receipts. *)
(*                                                                         *)
(* A message is a database row and a BullMQ job that carries its id.  A    *)
(* worker slot runs a job in steps, each one read, write or call to        *)
(* WhatsApp of send.worker.ts; between two of them other slots run, the    *)
(* process may die, and the queue may give the job to another slot because *)
(* the first stopped renewing its lock.  All of it happens within the      *)
(* duplicate window (WA_DUPLICATE_WINDOW_HOURS); the caps per hour and per *)
(* day and the minimum gap are one cap on the messages sent recently.      *)
(***************************************************************************)
EXTENDS Integers, FiniteSets

CONSTANTS
  Message,
  Number,
  MessageNumber,  \* the number a message is for
  Worker,         \* slots that run jobs: WA_SEND_CONCURRENCY of each process
  MaxAttempts,    \* "attempts" of the job
  MaxStalls,      \* how often the queue redelivers a stalled job
  MaxRecent,      \* the cap on messages sent recently
  Null

ASSUME SendAssumption ==
  /\ MessageNumber \in [Message -> Number]
  /\ MaxAttempts \in Nat \ {0}
  /\ MaxStalls \in Nat
  /\ MaxRecent \in Nat \ {0}
  /\ Null \notin Message \cup Worker
  /\ IsFiniteSet(Message)

VARIABLES
  status,     \* WhatsAppMessage.status, NONE before the row exists
  known,      \* messages whose providerMessageId is stored
  recent,     \* messages whose sentAt is inside the rate window
  job,        \* the job of each message
  worker,     \* what each slot is doing
  attempted,  \* messages some slot has claimed
  pending,    \* calls that timed out and may still land
  landed      \* how many times the recipient received the message

vars == <<status, known, recent, job, worker, attempted, pending, landed>>
rowVars == <<status, known, recent>>
whatsappVars == <<attempted, pending, landed>>

Status == {"NONE", "QUEUED", "SENDING", "SENT", "DELIVERED", "READ",
           "FAILED", "BLOCKED", "CANCELLED"}

\* send-guard.ts: statuses that prove an attempt to contact the number.
ContactedStatuses == {"SENDING", "SENT", "DELIVERED", "READ"}

JobRow == [state: {"none", "adding", "lost", "waiting", "active", "gone"},
           owner: Worker \cup {Null}, attempts: 0..MaxAttempts, stalls: 0..MaxStalls]

Slot == [pc: {"idle", "guard", "rate", "check", "block", "claim", "call",
              "record", "outreach", "fail", "drop"},
         message: Message \cup {Null}]

\* Steps after the claim: the slot, and no other, may touch WhatsApp for it.
Claiming == {"call", "record", "outreach", "fail", "drop"}

Idle == [pc |-> "idle", message |-> Null]

Init ==
  /\ status = [m \in Message |-> "NONE"]
  /\ known = {} /\ recent = {}
  /\ job = [m \in Message |->
       [state |-> "none", owner |-> Null, attempts |-> 0, stalls |-> 0]]
  /\ worker = [w \in Worker |-> Idle]
  /\ attempted = {} /\ pending = {}
  /\ landed = [m \in Message |-> 0]

Becomes(m, s) == status' = [status EXCEPT ![m] = s]

Running(w, m, pc) == worker[w] = [pc |-> pc, message |-> m]

Goto(w, m, pc) == worker' = [worker EXCEPT ![w] = [pc |-> pc, message |-> m]]

Free(w) == worker' = [worker EXCEPT ![w] = Idle]

-----------------------------------------------------------------------------
(* The job queue.  A slot that lost the job's lock changes nothing.        *)

JobBecomes(m, state, owner) ==
  job' = [job EXCEPT ![m] = [state |-> state, owner |-> owner,
            attempts |-> job[m].attempts, stalls |-> job[m].stalls]]

Completed(w, m) ==
  IF job[m].owner = w THEN JobBecomes(m, "gone", Null) ELSE UNCHANGED job

\* The attempts counted and not compared with their limit.
Faulty_AttemptFailed(w, m) ==
  IF job[m].owner = w
  THEN job' = [job EXCEPT ![m] =
         [state |-> "waiting", owner |-> Null,
          attempts |-> job[m].attempts + 1, stalls |-> job[m].stalls]]
  ELSE UNCHANGED job

\* The job threw: tried again after a backoff, while attempts are left.
AttemptFailed(w, m) ==
  IF job[m].owner = w
  THEN job' = [job EXCEPT ![m] =
         [state |-> IF job[m].attempts + 1 < MaxAttempts THEN "waiting" ELSE "gone",
          owner |-> Null, attempts |-> job[m].attempts + 1, stalls |-> job[m].stalls]]
  ELSE UNCHANGED job

\* The lock of an active job expired: its process died, or was too busy to
\* renew it and still runs the job.
Redelivered(m) ==
  /\ job[m].state = "active"
  /\ \/ /\ job[m].stalls < MaxStalls
        /\ job' = [job EXCEPT ![m] = [state |-> "waiting", owner |-> Null,
                     attempts |-> job[m].attempts, stalls |-> job[m].stalls + 1]]
     \/ job[m].stalls >= MaxStalls /\ JobBecomes(m, "gone", Null)
  /\ UNCHANGED <<rowVars, worker, whatsappVars>>

-----------------------------------------------------------------------------
(* enqueueMessage: the row, then the job.  Its policy check is a read that *)
(* may be old by the time the row is written; the worker repeats it.       *)

MessageCreated(m) ==
  /\ status[m] = "NONE"
  /\ Becomes(m, "QUEUED")
  /\ JobBecomes(m, "adding", Null)
  /\ UNCHANGED <<known, recent, worker, whatsappVars>>

JobAdded(m) ==
  /\ job[m].state = "adding"
  /\ JobBecomes(m, "waiting", Null)
  /\ UNCHANGED <<rowVars, worker, whatsappVars>>

\* The API process died, or the queue could not be reached.
JobLost(m) ==
  /\ job[m].state = "adding"
  /\ JobBecomes(m, "lost", Null)
  /\ UNCHANGED <<rowVars, worker, whatsappVars>>

\* Cancelling whatever has not ended yet.
Faulty_CancelQueued(m) ==
  /\ status[m] \in {"QUEUED", "SENDING"}
  /\ Becomes(m, "CANCELLED")
  /\ UNCHANGED <<known, recent, job, worker, whatsappVars>>

\* cancelQueuedMessages, and pauseCampaignSending.
CancelQueued(m) ==
  /\ status[m] = "QUEUED"
  /\ Becomes(m, "CANCELLED")
  /\ UNCHANGED <<known, recent, job, worker, whatsappVars>>

-----------------------------------------------------------------------------
(* The send worker *)

TakeJob(w, m) ==
  /\ worker[w] = Idle
  /\ job[m].state = "waiting"
  /\ status[m] = "QUEUED"
  /\ JobBecomes(m, "active", w)
  /\ Goto(w, m, "guard")
  /\ UNCHANGED <<rowVars, whatsappVars>>

\* "Anything other than QUEUED means somebody already resolved this message".
SkipJob(w, m) ==
  /\ worker[w] = Idle
  /\ job[m].state = "waiting"
  /\ status[m] # "QUEUED"
  /\ JobBecomes(m, "gone", Null)
  /\ UNCHANGED <<rowVars, worker, whatsappVars>>

\* Only rows of a finished send count as a contact.
Faulty_RecentDuplicate(m) ==
  \E n \in Message :
    MessageNumber[n] = MessageNumber[m] /\ status[n] \in {"SENT", "DELIVERED", "READ"}

\* The query does not leave the message itself out.
RecentDuplicate(m) ==
  \E n \in Message :
    MessageNumber[n] = MessageNumber[m] /\ status[n] \in ContactedStatuses

\* opted_out, not_connected, claimed_elsewhere: decided outside this module.
\* recent_duplicate: see GuardAllows.
GuardDenies(w, m) ==
  /\ Running(w, m, "guard")
  /\ Goto(w, m, "block")
  /\ UNCHANGED <<rowVars, job, whatsappVars>>

GuardAllows(w, m) ==
  /\ Running(w, m, "guard")
  /\ ~ RecentDuplicate(m)
  /\ Goto(w, m, "rate")
  /\ UNCHANGED <<rowVars, job, whatsappVars>>

\* The cap compared after the send instead of before it.
Faulty_RateAllows == Cardinality(recent) <= MaxRecent

RateAllows == Cardinality(recent) < MaxRecent

RatePasses(w, m) ==
  /\ Running(w, m, "rate")
  /\ RateAllows
  /\ Goto(w, m, "check")
  /\ UNCHANGED <<rowVars, job, whatsappVars>>

\* Returns after job.moveToDelayed, without the DelayedError.
Faulty_RateLimited(w, m) ==
  /\ Running(w, m, "rate")
  /\ ~ RateAllows
  /\ Completed(w, m)
  /\ Free(w)
  /\ UNCHANGED <<rowVars, whatsappVars>>

\* job.moveToDelayed: the job waits, its attempts untouched.
RateLimited(w, m) ==
  /\ Running(w, m, "rate")
  /\ ~ RateAllows
  /\ IF job[m].owner = w THEN JobBecomes(m, "waiting", Null) ELSE UNCHANGED job
  /\ Free(w)
  /\ UNCHANGED <<rowVars, whatsappVars>>

NumberExists(w, m) ==
  /\ Running(w, m, "check")
  /\ Goto(w, m, "claim")
  /\ UNCHANGED <<rowVars, job, whatsappVars>>

NumberMissing(w, m) ==
  /\ Running(w, m, "check")
  /\ Goto(w, m, "block")
  /\ UNCHANGED <<rowVars, job, whatsappVars>>

\* checkNumber threw, or its timer fired.
CheckFailed(w, m) ==
  /\ Running(w, m, "check")
  /\ AttemptFailed(w, m)
  /\ Free(w)
  /\ UNCHANGED <<rowVars, whatsappVars>>

\* update, not updateMany: whatever the status is by now.
WriteBlocked(w, m) ==
  /\ Running(w, m, "block")
  /\ Becomes(m, "BLOCKED")
  /\ Completed(w, m)
  /\ Free(w)
  /\ UNCHANGED <<known, recent, whatsappVars>>

\* The claim without its WHERE status = QUEUED.
Faulty_Claim(w, m) ==
  /\ Running(w, m, "claim")
  /\ Becomes(m, "SENDING")
  /\ attempted' = attempted \cup {m}
  /\ Goto(w, m, "call")
  /\ UNCHANGED <<known, recent, job, pending, landed>>

Claim(w, m) ==
  /\ Running(w, m, "claim")
  /\ status[m] = "QUEUED"
  /\ Becomes(m, "SENDING")
  /\ attempted' = attempted \cup {m}
  /\ Goto(w, m, "call")
  /\ UNCHANGED <<known, recent, job, pending, landed>>

ClaimLost(w, m) ==
  /\ Running(w, m, "claim")
  /\ status[m] # "QUEUED"
  /\ Completed(w, m)
  /\ Free(w)
  /\ UNCHANGED <<rowVars, whatsappVars>>

Reaches(m) == landed' = [landed EXCEPT ![m] = landed[m] + 1]

\* The timer's rejection not told from an answer.
Faulty_CallRefused(w, m) ==
  /\ Running(w, m, "call")
  /\ Goto(w, m, "record")
  /\ UNCHANGED <<rowVars, job, whatsappVars>>

CallAccepted(w, m) ==
  /\ Running(w, m, "call")
  /\ Reaches(m)
  /\ Goto(w, m, "record")
  /\ UNCHANGED <<rowVars, job, attempted, pending>>

CallRefused(w, m) ==
  /\ Running(w, m, "call")
  /\ Goto(w, m, "fail")
  /\ UNCHANGED <<rowVars, job, whatsappVars>>

\* A call awaited without a timer: nothing happens until WhatsApp answers.
Faulty_CallTimedOut(w, m) == FALSE

\* withTimeout: the timer wins the race, the call goes on.
CallTimedOut(w, m) ==
  /\ Running(w, m, "call")
  /\ pending' = pending \cup {m}
  /\ Goto(w, m, "fail")
  /\ UNCHANGED <<rowVars, job, attempted, landed>>

LandsLate(m) ==
  /\ m \in pending
  /\ pending' = pending \ {m}
  /\ Reaches(m)
  /\ UNCHANGED <<rowVars, job, worker, attempted>>

\* MediaUnavailableError: the video cannot be read, nothing was sent.
MediaUnavailable(w, m) ==
  /\ Running(w, m, "call")
  /\ Goto(w, m, "drop")
  /\ UNCHANGED <<rowVars, job, whatsappVars>>

WriteSent(w, m) ==
  /\ Running(w, m, "record")
  /\ Becomes(m, "SENT")
  /\ known' = known \cup {m}
  /\ recent' = recent \cup {m}
  /\ Goto(w, m, "outreach")
  /\ UNCHANGED <<job, whatsappVars>>

\* A write in the send's try block fails: of SENT, or of the Outreach row.
WriteFailed(w, m) ==
  /\ Running(w, m, "record") \/ Running(w, m, "outreach")
  /\ Goto(w, m, "fail")
  /\ UNCHANGED <<rowVars, job, whatsappVars>>

OutreachRecorded(w, m) ==
  /\ Running(w, m, "outreach")
  /\ Completed(w, m)
  /\ Free(w)
  /\ UNCHANGED <<rowVars, whatsappVars>>

\* The catch block: FAILED, and throw for the queue to try again.
WriteFailedStatus(w, m) ==
  /\ Running(w, m, "fail")
  /\ Becomes(m, "FAILED")
  /\ AttemptFailed(w, m)
  /\ Free(w)
  /\ UNCHANGED <<known, recent, whatsappVars>>

WriteDropped(w, m) ==
  /\ Running(w, m, "drop")
  /\ Becomes(m, "FAILED")
  /\ Completed(w, m)
  /\ Free(w)
  /\ UNCHANGED <<known, recent, whatsappVars>>

\* The process dies.  A call under way may have reached WhatsApp.
Crash(w, m) ==
  /\ worker[w].message = m
  /\ Free(w)
  /\ \/ worker[w].pc = "call" /\ Reaches(m)
     \/ UNCHANGED landed
  /\ UNCHANGED <<rowVars, job, attempted, pending>>

-----------------------------------------------------------------------------
(* Receipts, matched by the provider's id: none before WriteSent stored it *)

\* The update without a condition on the status.
Faulty_ReceiptDelivered(m) ==
  /\ m \in known
  /\ Becomes(m, "DELIVERED")
  /\ UNCHANGED <<known, recent, job, worker, whatsappVars>>

ReceiptDelivered(m) ==
  /\ m \in known
  /\ status[m] \in {"SENDING", "SENT"}
  /\ Becomes(m, "DELIVERED")
  /\ UNCHANGED <<known, recent, job, worker, whatsappVars>>

ReceiptRead(m) ==
  /\ m \in known
  /\ status[m] \in {"SENDING", "SENT", "DELIVERED"}
  /\ Becomes(m, "READ")
  /\ UNCHANGED <<known, recent, job, worker, whatsappVars>>

\* sentAt leaves the rate window.
AgesOut(m) ==
  /\ m \in recent
  /\ recent' = recent \ {m}
  /\ UNCHANGED <<status, known, job, worker, whatsappVars>>

-----------------------------------------------------------------------------
Enqueueing(m) == MessageCreated(m) \/ JobAdded(m) \/ JobLost(m) \/ CancelQueued(m)

Guarding(w, m) ==
  \/ TakeJob(w, m) \/ SkipJob(w, m)
  \/ GuardDenies(w, m) \/ GuardAllows(w, m)
  \/ RatePasses(w, m) \/ RateLimited(w, m)
  \/ NumberExists(w, m) \/ NumberMissing(w, m) \/ CheckFailed(w, m)
  \/ WriteBlocked(w, m)

Sending(w, m) ==
  \/ Claim(w, m) \/ ClaimLost(w, m)
  \/ CallAccepted(w, m) \/ CallRefused(w, m) \/ CallTimedOut(w, m)
  \/ MediaUnavailable(w, m)
  \/ WriteSent(w, m) \/ WriteFailed(w, m) \/ OutreachRecorded(w, m)
  \/ WriteFailedStatus(w, m) \/ WriteDropped(w, m)

Happening(m) ==
  \/ LandsLate(m) \/ ReceiptDelivered(m) \/ ReceiptRead(m)
  \/ AgesOut(m) \/ Redelivered(m)

Next ==
  \E m \in Message :
    \/ Enqueueing(m)
    \/ Happening(m)
    \/ \E w \in Worker : Guarding(w, m) \/ Sending(w, m) \/ Crash(w, m)

Spec == Init /\ [][Next]_vars

\* A slot takes its next step, unless it waits for WhatsApp: then only the
\* timer is sure to fire.  Jobs wait in order, so none is passed over for
\* ever; a lock nobody renews expires; a sentAt grows old.
Fairness ==
  \A m \in Message :
    /\ WF_vars(JobAdded(m)) /\ WF_vars(AgesOut(m))
    /\ WF_vars(Redelivered(m) /\ worker[job[m].owner].message # m)
    /\ \A w \in Worker :
         /\ SF_vars(TakeJob(w, m)) /\ SF_vars(SkipJob(w, m))
         /\ WF_vars(GuardDenies(w, m) \/ GuardAllows(w, m))
         /\ WF_vars(RatePasses(w, m) \/ RateLimited(w, m))
         /\ WF_vars(CheckFailed(w, m)) /\ WF_vars(WriteBlocked(w, m))
         /\ WF_vars(Claim(w, m) \/ ClaimLost(w, m)) /\ WF_vars(CallTimedOut(w, m))
         /\ WF_vars(WriteSent(w, m) \/ WriteFailed(w, m))
         /\ WF_vars(OutreachRecorded(w, m) \/ WriteFailed(w, m))
         /\ WF_vars(WriteFailedStatus(w, m)) /\ WF_vars(WriteDropped(w, m))

FairSpec == Spec /\ Fairness

-----------------------------------------------------------------------------
(* Properties *)

TypeOK ==
  /\ status \in [Message -> Status]
  /\ known \subseteq Message /\ recent \subseteq Message
  /\ job \in [Message -> JobRow]
  /\ worker \in [Worker -> Slot]
  /\ attempted \subseteq Message /\ pending \subseteq Message
  /\ landed \in [Message -> Nat]

\* "A retry cannot send it a second time" (architecture.md:160): however
\* often a job is retried, redelivered, run by two slots at once or cut by a
\* crash, and however late a timed-out call lands, the recipient gets the
\* message at most once.
LandedAtMostOnce == \A m \in Message : landed[m] <= 1

\* A message still QUEUED, or CANCELLED, was never handed to WhatsApp: what
\* lets the queue run its job again, or the user call it off.
UnsentNeverAttempted ==
  \A m \in Message : status[m] \in {"QUEUED", "CANCELLED"} =>
    m \notin attempted /\ landed[m] = 0

\* A message still QUEUED keeps its job, or every attempt or every redelivery of
\* it was spent: no way an execution ends takes the job away from a message that
\* is still to be sent, neither a rate limit ("without it the job would be marked
\* completed and never run again", send.worker.ts:76) nor an execution that was
\* overtaken by another.  Checks that keep failing do spend it; then the row
\* says QUEUED with nobody to send it.
QueuedKeepsJob ==
  \A m \in Message : (status[m] = "QUEUED" /\ job[m].state = "gone") =>
    job[m].attempts = MaxAttempts \/ job[m].stalls = MaxStalls

\* A row that says the message was sent speaks of one the recipient got.
SentWasAccepted ==
  \A m \in Message :
    (m \in known \/ status[m] \in {"SENT", "DELIVERED", "READ"}) => landed[m] = 1

Progress == <<"QUEUED", "SENDING", "SENT", "DELIVERED", "READ">>

\* "Status only ever moves forward" (inbound.handler.ts:77): as long as a
\* message is on its way, late or repeated receipts and the sender's own
\* unconditional SENT never walk its row backwards.
StatusMovesForward ==
  [][\A m \in Message, i, j \in 1..5 :
       (status[m] = Progress[i] /\ status'[m] = Progress[j]) => i <= j]_vars

\* The implementation of MessageLife, the abstract view of a message.
Life == INSTANCE MessageLife
ImplementsMessageLife == Life!LifeSpec

(* With one slot, WA_SEND_CONCURRENCY's default, for the account *)

\* recent_duplicate: a number is not contacted again inside the window,
\* whatever becomes of the first message, unless its row says it failed.
OneContactPerNumber ==
  \A m, n \in Message :
    (/\ m # n /\ MessageNumber[m] = MessageNumber[n]
     /\ status[m] \in ContactedStatuses) => status[n] \notin ContactedStatuses

\* The caps are "exact" and "race-free" (send-guard.ts:7): the count that was
\* read several steps before the send still holds when it is recorded.
Paced == Cardinality(recent) <= MaxRecent

\* schema.prisma:862: BLOCKED is "rejected by the outreach policy before any
\* send was attempted".  With more slots a job redelivered while its first
\* execution still runs can write it over what that one sends.
BlockedNeverAttempted ==
  \A m \in Message : status[m] = "BLOCKED" => m \notin attempted

(* Under fairness *)

\* "A hung provider call must not pin a message at SENDING forever" and would
\* "block every other send in this process" (config.ts:61): every job that
\* reached the queue ends, through hung calls, rate limits, retries, crashes.
EveryJobEnds ==
  \A m \in Message : job[m].state \in {"waiting", "active"} ~> job[m].state = "gone"

=============================================================================
