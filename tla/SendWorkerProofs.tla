-------------------------- MODULE SendWorkerProofs --------------------------
(***************************************************************************)
(* What SendWorker guarantees for any number of messages and slots, any    *)
(* limits on retries and redeliveries.                                     *)
(*                                                                         *)
(* JobInv is what keeps the counters of a job inside its type.  WorkInv is *)
(* the inductive heart of the safety properties: a message is claimed by   *)
(* one slot at most, what that slot is doing tells whether the message can *)
(* have landed, and what the row says follows behind.                      *)
(***************************************************************************)
EXTENDS SendWorker, FiniteSetTheorems, TLAPS

JobInv ==
  \A m \in Message :
    /\ job[m].state \notin {"gone", "lost"} => job[m].attempts < MaxAttempts
    /\ job[m].owner # Null => job[m].state = "active"
    /\ status[m] = "NONE" => job[m].state = "none"

\* w has claimed m and not let go of it.
Holds(w, m) == worker[w].message = m /\ worker[w].pc \in Claiming

\* The row and the recipient.
RowOf(m) ==
  /\ status[m] \in {"NONE", "QUEUED", "CANCELLED"} => m \notin attempted
  /\ m \notin attempted => landed[m] = 0
  /\ m \in pending => m \in attempted /\ landed[m] = 0
  /\ landed[m] \in {0, 1}
  /\ m \in known => landed[m] = 1
  /\ status[m] \in {"SENT", "DELIVERED", "READ"} => m \in known
  /\ status[m] = "SENDING" => m \notin known

\* The slot and the row.
SlotOf(w, m) ==
  /\ Holds(w, m) => m \in attempted
  /\ Running(w, m, "call") => landed[m] = 0 /\ m \notin pending
  /\ (Running(w, m, "call") \/ Running(w, m, "record")) =>
       status[m] \in {"SENDING", "BLOCKED"} /\ m \notin known
  /\ (Running(w, m, "record") \/ Running(w, m, "outreach")) => landed[m] = 1
  /\ worker[w].message = m => status[m] # "NONE"

OneHolder ==
  \A m \in Message, v, w \in Worker : Holds(v, m) /\ Holds(w, m) => v = w

WorkInv ==
  /\ \A m \in Message : RowOf(m)
  /\ \A m \in Message, w \in Worker : SlotOf(w, m)
  /\ OneHolder

-----------------------------------------------------------------------------
(* Type correctness *)

LEMMA WorkerInit == Init => TypeOK /\ JobInv /\ WorkInv
  BY SendAssumption DEF Init, TypeOK, JobInv, WorkInv, RowOf, SlotOf, OneHolder, Holds,
     Claiming, Running, Idle, Status, JobRow, Slot


\* However a slot lets a job go, the job keeps within its limits.
LEMMA JobLetGo ==
  ASSUME TypeOK, JobInv, NEW m \in Message, NEW w \in Worker,
         Completed(w, m) \/ AttemptFailed(w, m) \/ (job[m].owner = w /\ JobBecomes(m,
         "waiting", Null)),
         \A n \in Message : status'[n] = "NONE" => status[n] = "NONE"
  PROVE  job' \in [Message -> JobRow] /\ JobInv'
<1>1. CASE job' = job
  BY <1>1 DEF TypeOK, JobInv
<1>2. CASE job' # job
  <2>1. job[m].owner = w
    BY <1>2 DEF Completed, AttemptFailed
  <2>2. /\ job[m].state = "active" /\ status[m] # "NONE" /\ job[m].attempts < MaxAttempts
        /\ job[m].attempts \in 0..MaxAttempts /\ job[m].stalls \in 0..MaxStalls
    BY <2>1, SendAssumption DEF JobInv, TypeOK, JobRow
  <2>3. PICK state \in {"waiting", "gone"}, attempts \in 0..MaxAttempts :
          /\ state = "waiting" => attempts < MaxAttempts
          /\ job' = [job EXCEPT ![m] = [state |-> state, owner |-> Null,
                       attempts |-> attempts, stalls |-> job[m].stalls]]
    <3>1. CASE AttemptFailed(w, m)
      <4>1. job[m].attempts + 1 \in 0..MaxAttempts
        BY <2>2, SendAssumption
      <4> QED  BY <2>1, <3>1, <4>1 DEF AttemptFailed
    <3>2. CASE Completed(w, m) \/ JobBecomes(m, "waiting", Null)
      BY <2>1, <2>2, <3>2 DEF Completed, JobBecomes
    <3> QED  BY <3>1, <3>2
  <2>4. [state |-> state, owner |-> Null, attempts |-> attempts, stalls |-> job[m].stalls]
          \in JobRow
    BY <2>2 DEF JobRow
  <2>5. job' \in [Message -> JobRow]
    BY <2>3, <2>4 DEF TypeOK
  <2>6. JobInv'
    BY <2>2, <2>3 DEF JobInv, TypeOK
  <2> QED  BY <2>5, <2>6
<1> QED  BY <1>1, <1>2

\* Every step keeps the types, and with them the counters of a job.
LEMMA TypeStep ==
  ASSUME TypeOK, JobInv, [Next]_vars
  PROVE  (TypeOK /\ JobInv)'
<1> USE SendAssumption DEF TypeOK, JobInv, Status, JobRow, Slot, Idle
<1>1. ASSUME NEW m \in Message, MessageCreated(m) PROVE (TypeOK /\ JobInv)'
  BY <1>1 DEF MessageCreated, Becomes, JobBecomes, whatsappVars
<1>2. ASSUME NEW m \in Message, JobAdded(m) PROVE (TypeOK /\ JobInv)'
  BY <1>2 DEF JobAdded, JobBecomes, rowVars, whatsappVars
<1>3. ASSUME NEW m \in Message, JobLost(m) PROVE (TypeOK /\ JobInv)'
  BY <1>3 DEF JobLost, JobBecomes, rowVars, whatsappVars
<1>4. ASSUME NEW m \in Message, CancelQueued(m) PROVE (TypeOK /\ JobInv)'
  BY <1>4 DEF CancelQueued, Becomes, whatsappVars
<1>5. ASSUME NEW m \in Message, LandsLate(m) PROVE (TypeOK /\ JobInv)'
  BY <1>5 DEF LandsLate, Reaches, rowVars, whatsappVars
<1>6. ASSUME NEW m \in Message, ReceiptDelivered(m) PROVE (TypeOK /\ JobInv)'
  BY <1>6 DEF ReceiptDelivered, Becomes, whatsappVars
<1>7. ASSUME NEW m \in Message, ReceiptRead(m) PROVE (TypeOK /\ JobInv)'
  BY <1>7 DEF ReceiptRead, Becomes, whatsappVars
<1>8. ASSUME NEW m \in Message, AgesOut(m) PROVE (TypeOK /\ JobInv)'
  BY <1>8 DEF AgesOut, whatsappVars
<1>9. ASSUME NEW m \in Message, Redelivered(m) PROVE (TypeOK /\ JobInv)'
  <2>1. /\ job[m].state = "active" /\ status[m] # "NONE" /\ job[m].attempts < MaxAttempts
        /\ job[m].attempts \in 0..MaxAttempts /\ job[m].stalls \in 0..MaxStalls
    BY <1>9 DEF Redelivered
  <2>2. PICK state \in {"waiting", "gone"}, stalls \in 0..MaxStalls :
          job' = [job EXCEPT ![m] = [state |-> state, owner |-> Null,
                    attempts |-> job[m].attempts, stalls |-> stalls]]
    <3>1. CASE job[m].stalls < MaxStalls
      <4>1. job[m].stalls + 1 \in 0..MaxStalls
        BY <2>1, <3>1
      <4> QED  BY <1>9, <3>1, <4>1 DEF Redelivered
    <3>2. CASE job[m].stalls >= MaxStalls
      BY <1>9, <2>1, <3>2 DEF Redelivered, JobBecomes
    <3> QED  BY <2>1, <3>1, <3>2
  <2>3. [state |-> state, owner |-> Null, attempts |-> job[m].attempts, stalls |-> stalls]
          \in JobRow
    BY <2>1
  <2> QED  BY <1>9, <2>1, <2>2, <2>3 DEF Redelivered, rowVars, whatsappVars
<1>10. ASSUME NEW m \in Message, NEW w \in Worker, TakeJob(w, m) PROVE (TypeOK /\ JobInv)'
  BY <1>10 DEF TakeJob, JobBecomes, Goto, rowVars, whatsappVars
<1>11. ASSUME NEW m \in Message, NEW w \in Worker, SkipJob(w, m) PROVE (TypeOK /\ JobInv)'
  BY <1>11 DEF SkipJob, JobBecomes, rowVars, whatsappVars
<1>12. ASSUME NEW m \in Message, NEW w \in Worker, GuardDenies(w, m) PROVE (TypeOK /\ JobInv)'
  BY <1>12 DEF GuardDenies, Goto, Running, rowVars, whatsappVars
<1>13. ASSUME NEW m \in Message, NEW w \in Worker, GuardAllows(w, m) PROVE (TypeOK /\ JobInv)'
  BY <1>13 DEF GuardAllows, Goto, Running, rowVars, whatsappVars
<1>14. ASSUME NEW m \in Message, NEW w \in Worker, RatePasses(w, m) PROVE (TypeOK /\ JobInv)'
  BY <1>14 DEF RatePasses, Goto, Running, rowVars, whatsappVars
<1>15. ASSUME NEW m \in Message, NEW w \in Worker, RateLimited(w, m) PROVE (TypeOK /\ JobInv)'
  <2>1. \A n \in Message : status'[n] = "NONE" => status[n] = "NONE"
    BY <1>15 DEF RateLimited, rowVars
  <2>2. job' \in [Message -> JobRow] /\ JobInv'
    <3>1. CASE job' = job
      BY <2>1, <3>1
    <3> QED  BY <1>15, <2>1, <3>1, JobLetGo DEF RateLimited
  <2> QED  BY <1>15, <2>2 DEF RateLimited, Free, rowVars, whatsappVars
<1>16. ASSUME NEW m \in Message, NEW w \in Worker, NumberExists(w, m) PROVE (TypeOK /\ JobInv)'
  BY <1>16 DEF NumberExists, Goto, Running, rowVars, whatsappVars
<1>17. ASSUME NEW m \in Message, NEW w \in Worker, NumberMissing(w, m) PROVE (TypeOK /\ JobInv)'
  BY <1>17 DEF NumberMissing, Goto, Running, rowVars, whatsappVars
<1>18. ASSUME NEW m \in Message, NEW w \in Worker, CheckFailed(w, m) PROVE (TypeOK /\ JobInv)'
  <2>1. \A n \in Message : status'[n] = "NONE" => status[n] = "NONE"
    BY <1>18 DEF CheckFailed, rowVars
  <2>2. job' \in [Message -> JobRow] /\ JobInv'
    <3>1. CASE job' = job
      BY <2>1, <3>1
    <3> QED  BY <1>18, <2>1, <3>1, JobLetGo DEF CheckFailed
  <2> QED  BY <1>18, <2>2 DEF CheckFailed, Free, rowVars, whatsappVars
<1>19. ASSUME NEW m \in Message, NEW w \in Worker, WriteBlocked(w, m) PROVE (TypeOK /\ JobInv)'
  <2>1. \A n \in Message : status'[n] = "NONE" => status[n] = "NONE"
    BY <1>19 DEF WriteBlocked, Becomes, rowVars
  <2>2. job' \in [Message -> JobRow] /\ JobInv'
    <3>1. CASE job' = job
      BY <2>1, <3>1
    <3> QED  BY <1>19, <2>1, <3>1, JobLetGo DEF WriteBlocked
  <2> QED  BY <1>19, <2>2 DEF WriteBlocked, Becomes, Free, rowVars, whatsappVars
<1>20. ASSUME NEW m \in Message, NEW w \in Worker, Claim(w, m) PROVE (TypeOK /\ JobInv)'
  BY <1>20 DEF Claim, Becomes, Goto, Running
<1>21. ASSUME NEW m \in Message, NEW w \in Worker, ClaimLost(w, m) PROVE (TypeOK /\ JobInv)'
  <2>1. \A n \in Message : status'[n] = "NONE" => status[n] = "NONE"
    BY <1>21 DEF ClaimLost, rowVars
  <2>2. job' \in [Message -> JobRow] /\ JobInv'
    <3>1. CASE job' = job
      BY <2>1, <3>1
    <3> QED  BY <1>21, <2>1, <3>1, JobLetGo DEF ClaimLost
  <2> QED  BY <1>21, <2>2 DEF ClaimLost, Free, rowVars, whatsappVars
<1>22. ASSUME NEW m \in Message, NEW w \in Worker, CallAccepted(w, m) PROVE (TypeOK /\ JobInv)'
  BY <1>22 DEF CallAccepted, Goto, Running, Reaches, rowVars, whatsappVars
<1>23. ASSUME NEW m \in Message, NEW w \in Worker, CallRefused(w, m) PROVE (TypeOK /\ JobInv)'
  BY <1>23 DEF CallRefused, Goto, Running, rowVars, whatsappVars
<1>24. ASSUME NEW m \in Message, NEW w \in Worker, CallTimedOut(w, m) PROVE (TypeOK /\ JobInv)'
  BY <1>24 DEF CallTimedOut, Goto, Running, rowVars, whatsappVars
<1>25. ASSUME NEW m \in Message, NEW w \in Worker, MediaUnavailable(w,
m) PROVE (TypeOK /\ JobInv)'
  BY <1>25 DEF MediaUnavailable, Goto, Running, rowVars, whatsappVars
<1>26. ASSUME NEW m \in Message, NEW w \in Worker, WriteSent(w, m) PROVE (TypeOK /\ JobInv)'
  BY <1>26 DEF WriteSent, Becomes, Goto, Running, whatsappVars
<1>27. ASSUME NEW m \in Message, NEW w \in Worker, WriteFailed(w, m) PROVE (TypeOK /\ JobInv)'
  BY <1>27 DEF WriteFailed, Goto, Running, rowVars, whatsappVars
<1>28. ASSUME NEW m \in Message, NEW w \in Worker, OutreachRecorded(w,
m) PROVE (TypeOK /\ JobInv)'
  <2>1. \A n \in Message : status'[n] = "NONE" => status[n] = "NONE"
    BY <1>28 DEF OutreachRecorded, rowVars
  <2>2. job' \in [Message -> JobRow] /\ JobInv'
    <3>1. CASE job' = job
      BY <2>1, <3>1
    <3> QED  BY <1>28, <2>1, <3>1, JobLetGo DEF OutreachRecorded
  <2> QED  BY <1>28, <2>2 DEF OutreachRecorded, Free, rowVars, whatsappVars
<1>29. ASSUME NEW m \in Message, NEW w \in Worker, WriteFailedStatus(w,
m) PROVE (TypeOK /\ JobInv)'
  <2>1. \A n \in Message : status'[n] = "NONE" => status[n] = "NONE"
    BY <1>29 DEF WriteFailedStatus, Becomes, rowVars
  <2>2. job' \in [Message -> JobRow] /\ JobInv'
    <3>1. CASE job' = job
      BY <2>1, <3>1
    <3> QED  BY <1>29, <2>1, <3>1, JobLetGo DEF WriteFailedStatus
  <2> QED  BY <1>29, <2>2 DEF WriteFailedStatus, Becomes, Free, rowVars, whatsappVars
<1>30. ASSUME NEW m \in Message, NEW w \in Worker, WriteDropped(w, m) PROVE (TypeOK /\ JobInv)'
  <2>1. \A n \in Message : status'[n] = "NONE" => status[n] = "NONE"
    BY <1>30 DEF WriteDropped, Becomes, rowVars
  <2>2. job' \in [Message -> JobRow] /\ JobInv'
    <3>1. CASE job' = job
      BY <2>1, <3>1
    <3> QED  BY <1>30, <2>1, <3>1, JobLetGo DEF WriteDropped
  <2> QED  BY <1>30, <2>2 DEF WriteDropped, Becomes, Free, rowVars, whatsappVars
<1>31. ASSUME NEW m \in Message, NEW w \in Worker, Crash(w, m) PROVE (TypeOK /\ JobInv)'
  BY <1>31 DEF Crash, Free, Reaches, rowVars, whatsappVars
<1>32. CASE UNCHANGED vars
  BY <1>32 DEF vars, rowVars, whatsappVars
<1> QED
  BY <1>1, <1>2, <1>3, <1>4, <1>5, <1>6, <1>7, <1>8, <1>9, <1>10, <1>11, <1>12, <1>13, <1>14,
       <1>15, <1>16, <1>17, <1>18, <1>19, <1>20, <1>21, <1>22, <1>23, <1>24, <1>25, <1>26,
       <1>27, <1>28, <1>29, <1>30, <1>31, <1>32
     DEF Next, Enqueueing, Happening, Guarding, Sending


\* Every step keeps WorkInv.
LEMMA WorkStep ==
  ASSUME TypeOK, WorkInv, [Next]_vars
  PROVE  WorkInv'
<1> USE SendAssumption DEF Running, TypeOK, WorkInv, RowOf, SlotOf, OneHolder, Holds, Claiming,
Status, Slot, Idle
<1>1. ASSUME NEW m \in Message, MessageCreated(m) PROVE WorkInv'
  BY <1>1 DEF MessageCreated, Becomes, JobBecomes, whatsappVars
<1>2. ASSUME NEW m \in Message, JobAdded(m) PROVE WorkInv'
  BY <1>2 DEF JobAdded, JobBecomes, rowVars, whatsappVars
<1>3. ASSUME NEW m \in Message, JobLost(m) PROVE WorkInv'
  BY <1>3 DEF JobLost, JobBecomes, rowVars, whatsappVars
<1>4. ASSUME NEW m \in Message, CancelQueued(m) PROVE WorkInv'
  BY <1>4 DEF CancelQueued, Becomes, whatsappVars
<1>5. ASSUME NEW m \in Message, LandsLate(m) PROVE WorkInv'
  BY <1>5 DEF LandsLate, Reaches, rowVars, whatsappVars
<1>6. ASSUME NEW m \in Message, ReceiptDelivered(m) PROVE WorkInv'
  BY <1>6 DEF ReceiptDelivered, Becomes, whatsappVars
<1>7. ASSUME NEW m \in Message, ReceiptRead(m) PROVE WorkInv'
  BY <1>7 DEF ReceiptRead, Becomes, whatsappVars
<1>8. ASSUME NEW m \in Message, AgesOut(m) PROVE WorkInv'
  BY <1>8 DEF AgesOut, whatsappVars
<1>9. ASSUME NEW m \in Message, Redelivered(m) PROVE WorkInv'
  BY <1>9 DEF Redelivered, JobBecomes, rowVars, whatsappVars
<1>10. ASSUME NEW m \in Message, NEW w \in Worker, TakeJob(w, m) PROVE WorkInv'
  BY <1>10 DEF TakeJob, JobBecomes, Goto, rowVars, whatsappVars
<1>11. ASSUME NEW m \in Message, NEW w \in Worker, SkipJob(w, m) PROVE WorkInv'
  BY <1>11 DEF SkipJob, JobBecomes, rowVars, whatsappVars
<1>12. ASSUME NEW m \in Message, NEW w \in Worker, GuardDenies(w, m) PROVE WorkInv'
  BY <1>12 DEF GuardDenies, Goto, Running, rowVars, whatsappVars
<1>13. ASSUME NEW m \in Message, NEW w \in Worker, GuardAllows(w, m) PROVE WorkInv'
  BY <1>13 DEF GuardAllows, Goto, Running, rowVars, whatsappVars
<1>14. ASSUME NEW m \in Message, NEW w \in Worker, RatePasses(w, m) PROVE WorkInv'
  BY <1>14 DEF RatePasses, Goto, Running, rowVars, whatsappVars
<1>15. ASSUME NEW m \in Message, NEW w \in Worker, RateLimited(w, m) PROVE WorkInv'
  BY <1>15 DEF RateLimited, JobBecomes, Free, Running, rowVars, whatsappVars
<1>16. ASSUME NEW m \in Message, NEW w \in Worker, NumberExists(w, m) PROVE WorkInv'
  BY <1>16 DEF NumberExists, Goto, Running, rowVars, whatsappVars
<1>17. ASSUME NEW m \in Message, NEW w \in Worker, NumberMissing(w, m) PROVE WorkInv'
  BY <1>17 DEF NumberMissing, Goto, Running, rowVars, whatsappVars
<1>18. ASSUME NEW m \in Message, NEW w \in Worker, CheckFailed(w, m) PROVE WorkInv'
  BY <1>18 DEF CheckFailed, AttemptFailed, Free, Running, rowVars, whatsappVars
<1>19. ASSUME NEW m \in Message, NEW w \in Worker, WriteBlocked(w, m) PROVE WorkInv'
  BY <1>19 DEF WriteBlocked, Becomes, Completed, JobBecomes, Free, Running, whatsappVars
<1>20. ASSUME NEW m \in Message, NEW w \in Worker, Claim(w, m) PROVE WorkInv'
  BY <1>20 DEF Claim, Becomes, Goto, Running
<1>21. ASSUME NEW m \in Message, NEW w \in Worker, ClaimLost(w, m) PROVE WorkInv'
  BY <1>21 DEF ClaimLost, Completed, JobBecomes, Free, Running, rowVars, whatsappVars
<1>22. ASSUME NEW m \in Message, NEW w \in Worker, CallAccepted(w, m) PROVE WorkInv'
  BY <1>22 DEF CallAccepted, Goto, Running, Reaches, rowVars, whatsappVars
<1>23. ASSUME NEW m \in Message, NEW w \in Worker, CallRefused(w, m) PROVE WorkInv'
  BY <1>23 DEF CallRefused, Goto, Running, rowVars, whatsappVars
<1>24. ASSUME NEW m \in Message, NEW w \in Worker, CallTimedOut(w, m) PROVE WorkInv'
  BY <1>24 DEF CallTimedOut, Goto, Running, rowVars, whatsappVars
<1>25. ASSUME NEW m \in Message, NEW w \in Worker, MediaUnavailable(w, m) PROVE WorkInv'
  BY <1>25 DEF MediaUnavailable, Goto, Running, rowVars, whatsappVars
<1>26. ASSUME NEW m \in Message, NEW w \in Worker, WriteSent(w, m) PROVE WorkInv'
  BY <1>26 DEF WriteSent, Becomes, Goto, Running, whatsappVars
<1>27. ASSUME NEW m \in Message, NEW w \in Worker, WriteFailed(w, m) PROVE WorkInv'
  BY <1>27 DEF WriteFailed, Goto, Running, rowVars, whatsappVars
<1>28. ASSUME NEW m \in Message, NEW w \in Worker, OutreachRecorded(w, m) PROVE WorkInv'
  BY <1>28 DEF OutreachRecorded, Completed, JobBecomes, Free, Running, rowVars, whatsappVars
<1>29. ASSUME NEW m \in Message, NEW w \in Worker, WriteFailedStatus(w, m) PROVE WorkInv'
  BY <1>29 DEF WriteFailedStatus, Becomes, AttemptFailed, Free, Running, whatsappVars
<1>30. ASSUME NEW m \in Message, NEW w \in Worker, WriteDropped(w, m) PROVE WorkInv'
  BY <1>30 DEF WriteDropped, Becomes, Completed, JobBecomes, Free, Running, whatsappVars
<1>31. ASSUME NEW m \in Message, NEW w \in Worker, Crash(w, m) PROVE WorkInv'
  BY <1>31 DEF Crash, Free, Reaches, rowVars, whatsappVars
<1>32. CASE UNCHANGED vars
  BY <1>32 DEF vars, rowVars, whatsappVars
<1> QED
  BY <1>1, <1>2, <1>3, <1>4, <1>5, <1>6, <1>7, <1>8, <1>9, <1>10, <1>11, <1>12, <1>13, <1>14,
       <1>15, <1>16, <1>17, <1>18, <1>19, <1>20, <1>21, <1>22, <1>23, <1>24, <1>25, <1>26,
       <1>27, <1>28, <1>29, <1>30, <1>31, <1>32
     DEF Next, Enqueueing, Happening, Guarding, Sending

-----------------------------------------------------------------------------
(* The invariants of every behaviour, and what they say *)

LEMMA WorkerInvariant == Spec => [](TypeOK /\ JobInv /\ WorkInv)
<1>1. (TypeOK /\ JobInv /\ WorkInv) /\ [Next]_vars => (TypeOK /\ JobInv /\ WorkInv)'
  BY TypeStep, WorkStep
<1> QED  BY <1>1, WorkerInit, PTL DEF Spec

\* Rows, jobs and slots have the values the code gives them; in particular a
\* job never counts more attempts or redeliveries than its limits.
THEOREM SendTypeCorrect == Spec => []TypeOK
  BY WorkerInvariant, PTL

\* No retry, redelivery, second slot, crash or late call delivers twice.
THEOREM SendsAtMostOnce == Spec => []LandedAtMostOnce
<1>1. TypeOK /\ WorkInv => LandedAtMostOnce
  BY DEF TypeOK, WorkInv, RowOf, LandedAtMostOnce
<1> QED  BY <1>1, WorkerInvariant, PTL

\* What is still QUEUED, or was CANCELLED, was never handed to WhatsApp.
THEOREM UnsentIsUnattempted == Spec => []UnsentNeverAttempted
<1>1. WorkInv => UnsentNeverAttempted
  BY DEF WorkInv, RowOf, UnsentNeverAttempted
<1> QED  BY <1>1, WorkerInvariant, PTL

\* A row that says SENT, DELIVERED or READ speaks of a message that landed.
THEOREM SentIsAccepted == Spec => []SentWasAccepted
<1>1. WorkInv => SentWasAccepted
  BY DEF WorkInv, RowOf, SentWasAccepted
<1> QED  BY <1>1, WorkerInvariant, PTL

\* Nothing that a slot or the queue does takes the job of a QUEUED message away
\* before its attempts or its redeliveries are spent.
LEMMA QueuedStep ==
  ASSUME TypeOK, JobInv, WorkInv, QueuedKeepsJob, [Next]_vars
  PROVE  QueuedKeepsJob'
<1> USE SendAssumption DEF QueuedKeepsJob, rowVars, whatsappVars
<1>1. ASSUME NEW m \in Message, Enqueueing(m) PROVE QueuedKeepsJob'
  BY <1>1 DEF Enqueueing, MessageCreated, JobAdded, JobLost, CancelQueued, Becomes, JobBecomes,
     TypeOK
<1>2. ASSUME NEW m \in Message, Redelivered(m) PROVE QueuedKeepsJob'
  <2>1. job[m].stalls \in 0..MaxStalls
    BY DEF TypeOK, JobRow
  <2> QED  BY <1>2, <2>1 DEF Redelivered, JobBecomes, TypeOK
<1>3. ASSUME NEW m \in Message,
             LandsLate(m) \/ ReceiptDelivered(m) \/ ReceiptRead(m) \/ AgesOut(m)
      PROVE  QueuedKeepsJob'
  BY <1>3 DEF LandsLate, ReceiptDelivered, ReceiptRead, AgesOut, Becomes, TypeOK
<1>4. ASSUME NEW m \in Message, NEW w \in Worker, Guarding(w, m) PROVE QueuedKeepsJob'
  <2>1. CASE CheckFailed(w, m)
    <3>1. job[m].owner = w => job[m].attempts < MaxAttempts /\ job[m].attempts \in 0..MaxAttempts
      BY DEF TypeOK, JobInv, JobRow
    <3> QED  BY <2>1, <3>1 DEF CheckFailed, AttemptFailed, TypeOK
  <2>2. CASE ~ CheckFailed(w, m)
    BY <1>4, <2>2 DEF Guarding, TakeJob, SkipJob, GuardDenies, GuardAllows, RatePasses,
       RateLimited, NumberExists, NumberMissing, WriteBlocked, Becomes, Completed, JobBecomes, TypeOK
  <2> QED  BY <2>1, <2>2
<1>5. ASSUME NEW m \in Message, NEW w \in Worker, Sending(w, m) PROVE QueuedKeepsJob'
  <2>1. CASE OutreachRecorded(w, m)
    <3>1. status[m] # "QUEUED"
      BY <2>1 DEF OutreachRecorded, Running, WorkInv, RowOf, SlotOf, TypeOK, Slot
    <3> QED  BY <2>1, <3>1 DEF OutreachRecorded, Completed, JobBecomes, TypeOK
  <2>2. CASE WriteFailedStatus(w, m)
    BY <2>2 DEF WriteFailedStatus, AttemptFailed, Becomes, TypeOK
  <2>3. CASE ~ OutreachRecorded(w, m) /\ ~ WriteFailedStatus(w, m)
    BY <1>5, <2>3 DEF Sending, Claim, ClaimLost, CallAccepted, CallRefused, CallTimedOut,
       MediaUnavailable, WriteSent, WriteFailed, WriteDropped, Becomes, Completed, JobBecomes, TypeOK
  <2> QED  BY <2>1, <2>2, <2>3
<1>6. ASSUME NEW m \in Message, NEW w \in Worker, Crash(w, m) PROVE QueuedKeepsJob'
  BY <1>6 DEF Crash
<1>7. CASE UNCHANGED vars
  BY <1>7 DEF vars
<1> QED
  BY <1>1, <1>2, <1>3, <1>4, <1>5, <1>6, <1>7 DEF Next, Happening

\* A QUEUED message whose job is gone has spent its attempts or its redeliveries,
\* whatever slots, retries and redeliveries there were.
THEOREM QueuedIsNotDropped == Spec => []QueuedKeepsJob
<1>1. Init => QueuedKeepsJob
  BY DEF Init, QueuedKeepsJob
<1>2. TypeOK /\ JobInv /\ WorkInv /\ QueuedKeepsJob /\ [Next]_vars => QueuedKeepsJob'
  BY QueuedStep
<1> QED  BY <1>1, <1>2, WorkerInvariant, PTL DEF Spec

-----------------------------------------------------------------------------
(* The implementation of MessageLife *)

LifeUnchanged == UNCHANGED <<status, attempted, landed>>

\* What WorkInv says of a slot that has claimed a message.
LEMMA SlotSays ==
  ASSUME WorkInv, NEW m \in Message, NEW w \in Worker, NEW pc, Running(w, m, pc)
  PROVE  /\ status[m] # "NONE"
         /\ pc \in Claiming => m \in attempted
         /\ pc = "call" => landed[m] = 0
<1>1. SlotOf(w, m)
  BY DEF WorkInv
<1>2. worker[w].pc = pc /\ worker[w].message = m
  BY DEF Running
<1>3. pc \in Claiming => Holds(w, m)
  BY <1>2 DEF Holds
<1>4. status[m] # "NONE"
  BY <1>1, <1>2 DEF SlotOf
<1>5. pc \in Claiming => m \in attempted
  BY <1>1, <1>3 DEF SlotOf
<1>6. pc = "call" => landed[m] = 0
  BY <1>1 DEF SlotOf
<1> QED  BY <1>4, <1>5, <1>6

\* Every step of a message's row, job and slot is one step of its life, or
\* none.
LEMMA LifeStep ==
  ASSUME TypeOK, WorkInv, [Next]_vars
  PROVE  LifeUnchanged \/ \E m \in Message :
           \/ Life!Queued(m) \/ Life!Cancelled(m) \/ Life!Attempted(m) \/ Life!Reached(m)
           \/ Life!Sent(m) \/ Life!Failed(m) \/ Life!Blocked(m) \/ Life!Acknowledged(m)
<1> DEFINE Steps == LifeUnchanged \/ \E m \in Message :
           \/ Life!Queued(m) \/ Life!Cancelled(m) \/ Life!Attempted(m) \/ Life!Reached(m)
           \/ Life!Sent(m) \/ Life!Failed(m) \/ Life!Blocked(m) \/ Life!Acknowledged(m)
<1>1. ASSUME NEW m \in Message, MessageCreated(m) PROVE Steps
  <2>1. Life!Queued(m)
    BY <1>1 DEF MessageCreated, Becomes, rowVars, whatsappVars, Life!Queued, Life!Becomes
  <2> QED  BY <2>1
<1>2. ASSUME NEW m \in Message, CancelQueued(m) PROVE Steps
  <2>1. Life!Cancelled(m)
    BY <1>2 DEF CancelQueued, Becomes, rowVars, whatsappVars, Life!Cancelled, Life!Becomes
  <2> QED  BY <2>1
<1>3. ASSUME NEW m \in Message, LandsLate(m) PROVE Steps
  <2>1. m \in attempted /\ landed[m] = 0
    BY <1>3 DEF LandsLate, WorkInv, RowOf
  <2>2. Life!Reached(m)
    BY <1>3, <2>1 DEF LandsLate, Reaches, rowVars, Life!Reached
  <2> QED  BY <2>2
<1>4. ASSUME NEW m \in Message, ReceiptDelivered(m) PROVE Steps
  <2>1. Life!Acknowledged(m)
    BY <1>4 DEF ReceiptDelivered, WorkInv, RowOf, Becomes, rowVars, whatsappVars,
         Life!Acknowledged, Life!Becomes
  <2> QED  BY <2>1
<1>5. ASSUME NEW m \in Message, ReceiptRead(m) PROVE Steps
  <2>1. Life!Acknowledged(m)
    BY <1>5 DEF ReceiptRead, WorkInv, RowOf, Becomes, rowVars, whatsappVars, Life!Acknowledged,
         Life!Becomes
  <2> QED  BY <2>1
<1>6. ASSUME NEW m \in Message, NEW w \in Worker, WriteBlocked(w, m) PROVE Steps
  <2>1. status[m] # "NONE"
    BY <1>6, SlotSays DEF WriteBlocked
  <2>2. Life!Blocked(m)
    BY <1>6, <2>1 DEF WriteBlocked, Becomes, whatsappVars, Life!Blocked, Life!Becomes
  <2> QED  BY <2>2
<1>7. ASSUME NEW m \in Message, NEW w \in Worker, Claim(w, m) PROVE Steps
  <2>1. Life!Attempted(m)
    BY <1>7 DEF Claim, Becomes, rowVars, whatsappVars, Life!Attempted, Life!Becomes
  <2> QED  BY <2>1
<1>8. ASSUME NEW m \in Message, NEW w \in Worker, CallAccepted(w, m) PROVE Steps
  <2>1. m \in attempted /\ landed[m] = 0
    BY <1>8, SlotSays DEF CallAccepted, Claiming
  <2>2. Life!Reached(m)
    BY <1>8, <2>1 DEF CallAccepted, Reaches, rowVars, Life!Reached
  <2> QED  BY <2>2
<1>9. ASSUME NEW m \in Message, NEW w \in Worker, WriteSent(w, m) PROVE Steps
  <2>1. Life!Sent(m)
    BY <1>9 DEF WriteSent, Running, WorkInv, SlotOf, Becomes, rowVars, whatsappVars, Life!Sent,
         Life!Becomes
  <2> QED  BY <2>1
<1>10. ASSUME NEW m \in Message, NEW w \in Worker, WriteFailedStatus(w, m) PROVE Steps
  <2>1. m \in attempted
    BY <1>10, SlotSays DEF WriteFailedStatus, Claiming
  <2>2. Life!Failed(m)
    BY <1>10, <2>1 DEF WriteFailedStatus, Becomes, whatsappVars, Life!Failed, Life!Becomes
  <2> QED  BY <2>2
<1>11. ASSUME NEW m \in Message, NEW w \in Worker, WriteDropped(w, m) PROVE Steps
  <2>1. m \in attempted
    BY <1>11, SlotSays DEF WriteDropped, Claiming
  <2>2. Life!Failed(m)
    BY <1>11, <2>1 DEF WriteDropped, Becomes, whatsappVars, Life!Failed, Life!Becomes
  <2> QED  BY <2>2
<1>12. ASSUME NEW m \in Message, NEW w \in Worker, Crash(w, m) PROVE Steps
  <2>1. CASE UNCHANGED landed
    BY <1>12, <2>1 DEF Crash, rowVars, LifeUnchanged
  <2>2. CASE worker[w].pc = "call" /\ Reaches(m)
    <3>1. Running(w, m, "call")
      BY <1>12, <2>2 DEF Crash, Running, TypeOK, Slot
    <3>2. m \in attempted /\ landed[m] = 0
      BY <3>1, SlotSays DEF Claiming
    <3>3. Life!Reached(m)
      BY <1>12, <2>2, <3>2 DEF Crash, Reaches, rowVars, Life!Reached
    <3> QED  BY <3>3
  <2> QED  BY <1>12, <2>1, <2>2 DEF Crash
<1>13. ASSUME NEW m \in Message,
            JobAdded(m) \/ JobLost(m) \/ AgesOut(m) \/ Redelivered(m)
     PROVE  Steps
  BY <1>13 DEF JobAdded, JobLost, AgesOut, Redelivered, rowVars, whatsappVars, LifeUnchanged
<1>14. ASSUME NEW m \in Message, NEW w \in Worker,
            \/ TakeJob(w, m) \/ SkipJob(w, m) \/ GuardDenies(w, m) \/ GuardAllows(w, m)
            \/ RatePasses(w, m) \/ RateLimited(w, m) \/ NumberExists(w, m) \/ NumberMissing(w, m)
            \/ CheckFailed(w, m) \/ ClaimLost(w, m) \/ CallRefused(w, m) \/ CallTimedOut(w, m)
            \/ MediaUnavailable(w, m) \/ WriteFailed(w, m) \/ OutreachRecorded(w, m)
     PROVE  Steps
  BY <1>14 DEF TakeJob, SkipJob, GuardDenies, GuardAllows, RatePasses, RateLimited,
       NumberExists, NumberMissing, CheckFailed, ClaimLost, CallRefused, CallTimedOut,
       MediaUnavailable, WriteFailed, OutreachRecorded, rowVars, whatsappVars, LifeUnchanged
<1>15. CASE UNCHANGED vars
  BY <1>15 DEF vars, LifeUnchanged
<1> HIDE DEF Steps
<1>16. ASSUME Next PROVE Steps
  <2>1. PICK m \in Message :
          \/ Enqueueing(m) \/ Happening(m)
          \/ \E w \in Worker : Guarding(w, m) \/ Sending(w, m) \/ Crash(w, m)
    BY <1>16 DEF Next
  <2>2. CASE Enqueueing(m)
    BY <2>1, <2>2, <1>1, <1>2, <1>13 DEF Enqueueing
  <2>3. CASE Happening(m)
    BY <2>1, <2>3, <1>3, <1>4, <1>5, <1>13 DEF Happening
  <2>4. ASSUME NEW w \in Worker, Guarding(w, m)
        PROVE  Steps
    BY <2>1, <2>4, <1>6, <1>14 DEF Guarding
  <2>5. ASSUME NEW w \in Worker, Sending(w, m)
        PROVE  Steps
    BY <2>1, <2>5, <1>7, <1>8, <1>9, <1>10, <1>11, <1>14 DEF Sending
  <2>6. ASSUME NEW w \in Worker, Crash(w, m)
        PROVE  Steps
    BY <2>1, <2>6, <1>12
  <2> QED  BY <2>1, <2>2, <2>3, <2>4, <2>5, <2>6
<1> QED  BY <1>15, <1>16 DEF Steps

\* SendWorker implements MessageLife: whatever the queue and the slots do, the
\* rest of the system sees a message attempted once and received at most once.
THEOREM WorkerImplementsLife == Spec => ImplementsMessageLife
<1>1. Init => Life!LifeInit
  BY DEF Init, Life!LifeInit
<1>2. TypeOK /\ WorkInv /\ [Next]_vars => [Life!LifeNext]_(Life!lifeVars)
  BY LifeStep DEF LifeUnchanged, Life!LifeNext, Life!lifeVars
<1> QED  BY <1>1, <1>2, WorkerInvariant, PTL DEF Spec, ImplementsMessageLife, Life!LifeSpec

-----------------------------------------------------------------------------
(* The row of a message on its way never walks backwards *)

\* A step of the life of a message moves its status forward, if at all.
LEMMA LifeMovesForward ==
  ASSUME TypeOK, WorkInv, TypeOK', NEW n \in Message, NEW i \in 1..5, NEW j \in 1..5,
         LifeUnchanged \/ \E m \in Message :
           \/ Life!Queued(m) \/ Life!Cancelled(m) \/ Life!Attempted(m) \/ Life!Reached(m)
           \/ Life!Sent(m) \/ Life!Failed(m) \/ Life!Blocked(m) \/ Life!Acknowledged(m),
         status[n] = Progress[i], status'[n] = Progress[j]
  PROVE  i <= j
<1>1. CASE status'[n] = status[n]
  BY <1>1 DEF Progress
<1>2. CASE status'[n] # status[n]
  <2>1. \/ status[n] = "QUEUED" /\ status'[n] = "SENDING"
        \/ status[n] = "SENDING" /\ status'[n] = "SENT"
        \/ status[n] = "SENT" /\ status'[n] \in {"DELIVERED", "READ"}
        \/ status[n] = "DELIVERED" /\ status'[n] = "READ"
        \/ status[n] \in {"NONE", "BLOCKED"}
        \/ status'[n] \in {"CANCELLED", "FAILED", "BLOCKED"}
    BY <1>2 DEF TypeOK, LifeUnchanged, Life!Queued, Life!Cancelled, Life!Attempted, Life!Reached,
                Life!Sent, Life!Failed, Life!Blocked, Life!Acknowledged, Life!Becomes
  <2> QED  BY <2>1 DEF Progress
<1> QED  BY <1>1, <1>2

\* Receipts that come late or twice, and the sender's SENT, which looks at no
\* condition, leave a message that is on its way no further back.
THEOREM StatusForward == Spec => StatusMovesForward
<1>1. /\ TypeOK /\ JobInv /\ WorkInv /\ (TypeOK /\ JobInv /\ WorkInv)' /\ [Next]_vars
      => [\A m \in Message, i, j \in 1..5 :
            (status[m] = Progress[i] /\ status'[m] = Progress[j]) => i <= j]_vars
  BY LifeStep, LifeMovesForward
<1> QED  BY <1>1, WorkerInvariant, PTL DEF Spec, StatusMovesForward

-----------------------------------------------------------------------------
(* One slot, WA_SEND_CONCURRENCY's default: the checks that are read        *)
(* several steps before the send still hold when it is made, because nobody *)
(* else adds a contact or a send meanwhile, and what the slot has not yet   *)
(* claimed was claimed by nobody.                                           *)

Solo == \A v, w \in Worker : v = w

SoloSlot(w, m) ==
  worker[w].message = m =>
    /\ worker[w].pc \in {"guard", "rate", "check", "block", "claim"} => m \notin attempted
    /\ worker[w].pc \in {"rate", "check", "claim"} => ~ RecentDuplicate(m)

SoloInv ==
  /\ \A w \in Worker, m \in Message : SoloSlot(w, m)
  /\ BlockedNeverAttempted
  /\ OneContactPerNumber

PacedInv ==
  /\ \A w \in Worker : worker[w].pc \in {"check", "claim", "call", "record"} => RateAllows
  /\ Paced

LEMMA SoloInit == Init => SoloInv /\ PacedInv
<1> SUFFICES ASSUME Init PROVE SoloInv /\ PacedInv
  OBVIOUS
<1>1. SoloInv
  BY SendAssumption DEF Init, SoloInv, SoloSlot, Idle, BlockedNeverAttempted, OneContactPerNumber,
     ContactedStatuses
<1>2. Cardinality(recent) = 0
  BY FS_EmptySet DEF Init
<1>3. PacedInv
  BY <1>2, SendAssumption DEF Init, PacedInv, Paced, RateAllows, Idle
<1> QED  BY <1>1, <1>3

\* A step of the slot that keeps the row of every message.
LEMMA SlotMoves ==
  ASSUME Solo, TypeOK, SoloInv, UNCHANGED <<status, attempted>>,
         NEW w \in Worker, NEW m \in Message, NEW pc, worker[w].message = m,
         Goto(w, m, pc),
         /\ pc \in {"guard", "rate", "check", "block", "claim"} =>
              worker[w].pc \in {"guard", "rate", "check", "block", "claim"}
         /\ pc \in {"rate", "check", "claim"} =>
              worker[w].pc \in {"rate", "check", "claim"} \/ ~ RecentDuplicate(m)
  PROVE  SoloInv'
<1>1. \A v \in Worker : v = w
  BY DEF Solo
<1>2. worker'[w] = [pc |-> pc, message |-> m]
  BY DEF Goto, TypeOK
<1>3. \A n \in Message : RecentDuplicate(n)' = RecentDuplicate(n)
  BY DEF RecentDuplicate
<1>4. \A n \in Message : SoloSlot(w, n)'
  BY <1>2, <1>3 DEF SoloInv, SoloSlot
<1>5. BlockedNeverAttempted' /\ OneContactPerNumber'
  BY DEF SoloInv, BlockedNeverAttempted, OneContactPerNumber
<1> QED  BY <1>1, <1>4, <1>5 DEF SoloInv

\* A step after which the slot is idle, or keeps its place, and which writes
\* at most one row: adding no attempt, and no contact to any number.
LEMMA RowMoves ==
  ASSUME Solo, TypeOK, SoloInv, UNCHANGED attempted,
         UNCHANGED worker \/ \E w \in Worker : Free(w),
         NEW m \in Message, NEW s \in Status,
         UNCHANGED status \/ Becomes(m, s),
         s \in ContactedStatuses => status[m] \in ContactedStatuses,
         s = "BLOCKED" => m \notin attempted
  PROVE  SoloInv'
<1>1. \A n \in Message : status'[n] \in ContactedStatuses => status[n] \in ContactedStatuses
  BY DEF Becomes, TypeOK
<1>2. \A n \in Message : status'[n] = "BLOCKED" => n \notin attempted
  BY DEF Becomes, TypeOK, SoloInv, BlockedNeverAttempted
<1>3. \A n \in Message : RecentDuplicate(n)' => RecentDuplicate(n)
  BY <1>1 DEF RecentDuplicate
<1>4. \A v \in Worker : worker'[v] = worker[v] \/ worker'[v] = Idle
  BY DEF Free, TypeOK
<1>5. \A v \in Worker, n \in Message : SoloSlot(v, n)'
  <2> SUFFICES ASSUME NEW v \in Worker, NEW n \in Message PROVE SoloSlot(v, n)'
    OBVIOUS
  <2>1. CASE worker'[v] = worker[v]
    BY <1>3, <2>1 DEF SoloInv, SoloSlot
  <2>2. CASE worker'[v] = Idle
    BY <2>2, SendAssumption DEF SoloSlot, Idle
  <2> QED  BY <1>4, <2>1, <2>2
<1>6. BlockedNeverAttempted' /\ OneContactPerNumber'
  BY <1>1, <1>2 DEF SoloInv, BlockedNeverAttempted, OneContactPerNumber
<1> QED  BY <1>5, <1>6 DEF SoloInv

LEMMA SoloStep ==
  ASSUME Solo, TypeOK, WorkInv, SoloInv, [Next]_vars
  PROVE  SoloInv'
<1> USE DEF TypeOK, Status
<1>1. ASSUME NEW m \in Message, Enqueueing(m)
      PROVE  SoloInv'
  <2>1. UNCHANGED <<attempted, worker>>
    BY <1>1 DEF Enqueueing, MessageCreated, JobAdded, JobLost, CancelQueued, whatsappVars
  <2>2. UNCHANGED status \/ Becomes(m, "QUEUED") \/ Becomes(m, "CANCELLED")
    BY <1>1 DEF Enqueueing, MessageCreated, JobAdded, JobLost, CancelQueued, rowVars
  <2> QED  BY <2>1, <2>2, RowMoves DEF ContactedStatuses
<1>2. ASSUME NEW m \in Message, Happening(m)
      PROVE  SoloInv'
  <2>1. UNCHANGED <<attempted, worker>>
    BY <1>2 DEF Happening, LandsLate, ReceiptDelivered, ReceiptRead, AgesOut, Redelivered, whatsappVars
  <2>2. \/ UNCHANGED status
        \/ status[m] \in ContactedStatuses /\ (Becomes(m, "DELIVERED") \/ Becomes(m, "READ"))
    BY <1>2 DEF Happening, LandsLate, ReceiptDelivered, ReceiptRead, AgesOut, Redelivered, rowVars,
                ContactedStatuses
  <2>3. CASE UNCHANGED status
    BY <2>1, <2>3, RowMoves DEF ContactedStatuses
  <2>4. CASE status[m] \in ContactedStatuses /\ (Becomes(m, "DELIVERED") \/ Becomes(m, "READ"))
    BY <2>1, <2>4, RowMoves
  <2> QED  BY <2>2, <2>3, <2>4
<1>3. ASSUME NEW m \in Message, NEW w \in Worker, TakeJob(w, m)
      PROVE  SoloInv'
  <2>1. m \notin attempted
    BY <1>3 DEF TakeJob, WorkInv, RowOf
  <2>2. /\ UNCHANGED <<status, attempted>>
        /\ worker'[w] = [pc |-> "guard", message |-> m]
    BY <1>3 DEF TakeJob, Goto, rowVars, whatsappVars
  <2>3. \A v \in Worker : v = w
    BY DEF Solo
  <2>4. \A n \in Message : SoloSlot(w, n)'
    BY <2>1, <2>2 DEF SoloSlot
  <2>5. BlockedNeverAttempted' /\ OneContactPerNumber'
    BY <2>2 DEF SoloInv, BlockedNeverAttempted, OneContactPerNumber
  <2> QED  BY <2>3, <2>4, <2>5 DEF SoloInv
<1>4. ASSUME NEW m \in Message, NEW w \in Worker,
             SkipJob(w, m) \/ RateLimited(w, m) \/ CheckFailed(w, m) \/ ClaimLost(w, m)
               \/ OutreachRecorded(w, m) \/ Crash(w, m)
      PROVE  SoloInv'
  <2>1. UNCHANGED <<status, attempted>> /\ (UNCHANGED worker \/ Free(w))
    BY <1>4 DEF SkipJob, RateLimited, CheckFailed, ClaimLost, OutreachRecorded, Crash,
                rowVars, whatsappVars
  <2> QED  BY <2>1, RowMoves DEF ContactedStatuses
<1>5. ASSUME NEW m \in Message, NEW w \in Worker, GuardAllows(w, m)
      PROVE  SoloInv'
  <2>1. /\ UNCHANGED <<status, attempted>> /\ Goto(w, m, "rate") /\ ~ RecentDuplicate(m)
        /\ worker[w].pc = "guard" /\ worker[w].message = m
    BY <1>5 DEF GuardAllows, Running, rowVars, whatsappVars
  <2> QED  BY <2>1, SlotMoves
<1>6. ASSUME NEW m \in Message, NEW w \in Worker,
             GuardDenies(w, m) \/ NumberMissing(w, m)
      PROVE  SoloInv'
  <2>1. /\ UNCHANGED <<status, attempted>> /\ Goto(w, m, "block")
        /\ worker[w].pc \in {"guard", "check"} /\ worker[w].message = m
    BY <1>6 DEF GuardDenies, NumberMissing, Running, rowVars, whatsappVars
  <2> QED  BY <2>1, SlotMoves
<1>7. ASSUME NEW m \in Message, NEW w \in Worker,
             RatePasses(w, m) \/ NumberExists(w, m)
      PROVE  SoloInv'
  <2>1. /\ UNCHANGED <<status, attempted>> /\ (Goto(w, m, "check") \/ Goto(w, m, "claim"))
        /\ worker[w].pc \in {"rate", "check"} /\ worker[w].message = m
    BY <1>7 DEF RatePasses, NumberExists, Running, rowVars, whatsappVars
  <2> QED  BY <2>1, SlotMoves
<1>8. ASSUME NEW m \in Message, NEW w \in Worker,
             CallAccepted(w, m) \/ CallRefused(w, m) \/ CallTimedOut(w, m)
               \/ MediaUnavailable(w, m) \/ WriteFailed(w, m)
      PROVE  SoloInv'
  <2>1. /\ UNCHANGED <<status, attempted>> /\ worker[w].message = m
        /\ \E pc \in {"record", "fail", "drop"} : Goto(w, m, pc)
    BY <1>8 DEF CallAccepted, CallRefused, CallTimedOut, MediaUnavailable, WriteFailed, Running,
                rowVars, whatsappVars
  <2> QED  BY <2>1, SlotMoves
<1>9. ASSUME NEW m \in Message, NEW w \in Worker, WriteBlocked(w, m)
      PROVE  SoloInv'
  <2>1. m \notin attempted
    BY <1>9 DEF WriteBlocked, Running, SoloInv, SoloSlot
  <2>2. UNCHANGED attempted /\ Free(w) /\ Becomes(m, "BLOCKED")
    BY <1>9 DEF WriteBlocked, whatsappVars
  <2> QED  BY <2>1, <2>2, RowMoves DEF ContactedStatuses
<1>10. ASSUME NEW m \in Message, NEW w \in Worker,
              WriteFailedStatus(w, m) \/ WriteDropped(w, m)
       PROVE  SoloInv'
  <2>1. UNCHANGED attempted /\ Free(w) /\ Becomes(m, "FAILED")
    BY <1>10 DEF WriteFailedStatus, WriteDropped, whatsappVars
  <2> QED  BY <2>1, RowMoves DEF ContactedStatuses
<1>11. ASSUME NEW m \in Message, NEW w \in Worker, Claim(w, m)
       PROVE  SoloInv'
  <2>1. ~ RecentDuplicate(m)
    BY <1>11 DEF Claim, Running, SoloInv, SoloSlot
  <2>2. /\ attempted' = attempted \cup {m}
        /\ status' = [status EXCEPT ![m] = "SENDING"]
        /\ worker'[w] = [pc |-> "call", message |-> m]
    BY <1>11 DEF Claim, Becomes, Goto
  <2>3. \A n \in Message : SoloSlot(w, n)'
    BY <2>2 DEF SoloSlot
  <2>4. BlockedNeverAttempted'
    BY <2>2 DEF SoloInv, BlockedNeverAttempted
  <2>5. OneContactPerNumber'
    BY <2>1, <2>2 DEF SoloInv, OneContactPerNumber, RecentDuplicate
  <2>6. \A v \in Worker : v = w
    BY DEF Solo
  <2> QED  BY <2>3, <2>4, <2>5, <2>6 DEF SoloInv
<1>12. ASSUME NEW m \in Message, NEW w \in Worker, WriteSent(w, m)
       PROVE  SoloInv'
  <2>1. Running(w, m, "record") /\ UNCHANGED attempted /\ Goto(w, m, "outreach") /\ Becomes(m, "SENT")
    BY <1>12 DEF WriteSent, whatsappVars
  <2>2. m \in attempted
    BY <2>1 DEF WorkInv, SlotOf, Holds, Claiming, Running
  <2>3. status[m] = "SENDING"
    BY <2>1, <2>2 DEF WorkInv, SlotOf, SoloInv, BlockedNeverAttempted
  <2>4. \A n \in Message : /\ (status'[n] \in ContactedStatuses) = (status[n] \in ContactedStatuses)
                           /\ status'[n] = "BLOCKED" => status[n] = "BLOCKED"
    BY <2>1, <2>3 DEF Becomes, ContactedStatuses
  <2>5. \A n \in Message : SoloSlot(w, n)'
    BY <2>1 DEF SoloSlot, Goto
  <2>6. BlockedNeverAttempted' /\ OneContactPerNumber'
    BY <2>1, <2>4 DEF SoloInv, BlockedNeverAttempted, OneContactPerNumber
  <2>7. \A v \in Worker : v = w
    BY DEF Solo
  <2> QED  BY <2>5, <2>6, <2>7 DEF SoloInv
<1>13. CASE UNCHANGED vars
  BY <1>13 DEF vars, SoloInv, SoloSlot, RecentDuplicate, BlockedNeverAttempted, OneContactPerNumber
<1> QED
  BY <1>1, <1>2, <1>3, <1>4, <1>5, <1>6, <1>7, <1>8, <1>9, <1>10, <1>11, <1>12, <1>13
  DEF Next, Guarding, Sending

\* The count of recent sends grows by one, and only after it was under the cap.
LEMMA PacedStep ==
  ASSUME Solo, TypeOK, PacedInv, [Next]_vars
  PROVE  PacedInv'
<1> DEFINE Counted == {"check", "claim", "call", "record"}
<1>1. IsFiniteSet(recent) /\ Cardinality(recent) \in Nat /\ MaxRecent \in Nat
  <2>1. recent \subseteq Message
    BY DEF TypeOK
  <2> QED  BY <2>1, FS_Subset, FS_CardinalityType, SendAssumption
<1>2. ASSUME recent' \subseteq recent,
             \A v \in Worker : worker'[v].pc \in Counted => worker[v].pc \in Counted \/ RateAllows
      PROVE  PacedInv'
  <2>1. Cardinality(recent') <= Cardinality(recent) /\ Cardinality(recent') \in Nat
    BY <1>1, <1>2, FS_Subset, FS_CardinalityType
  <2>2. RateAllows => RateAllows'
    BY <1>1, <2>1 DEF RateAllows
  <2>3. Paced'
    BY <1>1, <2>1 DEF PacedInv, Paced
  <2> QED  BY <1>2, <2>2, <2>3 DEF PacedInv
<1>3. ASSUME NEW m \in Message, NEW w \in Worker, WriteSent(w, m)
      PROVE  PacedInv'
  <2>1. /\ Running(w, m, "record") /\ recent' = recent \cup {m}
        /\ worker' = [worker EXCEPT ![w] = [pc |-> "outreach", message |-> m]]
    BY <1>3 DEF WriteSent, Goto
  <2>2. Cardinality(recent) < MaxRecent
    BY <2>1 DEF PacedInv, RateAllows, Running
  <2>3. Cardinality(recent') <= Cardinality(recent) + 1 /\ Cardinality(recent') \in Nat
    <3>1. /\ IsFiniteSet(recent')
          /\ \/ Cardinality(recent') = Cardinality(recent)
             \/ Cardinality(recent') = Cardinality(recent) + 1
      BY <1>1, <2>1, FS_AddElement
    <3>2. Cardinality(recent') \in Nat
      BY <3>1, FS_CardinalityType
    <3> QED  BY <1>1, <3>1, <3>2
  <2>4. Paced'
    BY <1>1, <2>2, <2>3 DEF Paced
  <2>5. \A v \in Worker : worker'[v].pc = "outreach"
    BY <2>1 DEF Solo, TypeOK
  <2> QED  BY <2>4, <2>5 DEF PacedInv
<1>4. ASSUME NEW m \in Message,
             \/ Enqueueing(m) \/ Happening(m)
             \/ \E w \in Worker : SkipJob(w, m)
      PROVE  PacedInv'
  <2>1. recent' \subseteq recent /\ UNCHANGED worker
    BY <1>4 DEF Enqueueing, MessageCreated, JobAdded, JobLost, CancelQueued, Happening, LandsLate,
                ReceiptDelivered, ReceiptRead, AgesOut, Redelivered, SkipJob, rowVars, whatsappVars
  <2> QED  BY <1>2, <2>1
<1>5. ASSUME NEW m \in Message, NEW w \in Worker,
             UNCHANGED recent, Free(w)
      PROVE  PacedInv'
  <2>1. \A v \in Worker : worker'[v] = worker[v] \/ worker'[v] = Idle
    BY <1>5 DEF Free, TypeOK
  <2> QED  BY <1>2, <1>5, <2>1 DEF Idle
<1>6. ASSUME NEW m \in Message, NEW w \in Worker, NEW pc, UNCHANGED recent, Goto(w, m, pc),
             pc \in Counted => worker[w].pc \in Counted \/ RateAllows
      PROVE  PacedInv'
  <2>1. \A v \in Worker : worker'[v] = worker[v] \/ (v = w /\ worker'[v].pc = pc)
    BY <1>6 DEF Goto, TypeOK
  <2> QED  BY <1>2, <1>6, <2>1
<1>7. ASSUME NEW m \in Message, NEW w \in Worker,
             \/ RateLimited(w, m) \/ CheckFailed(w, m) \/ WriteBlocked(w, m) \/ ClaimLost(w, m)
             \/ OutreachRecorded(w, m) \/ WriteFailedStatus(w, m) \/ WriteDropped(w, m)
             \/ Crash(w, m)
      PROVE  PacedInv'
  <2>1. UNCHANGED recent /\ Free(w)
    BY <1>7 DEF RateLimited, CheckFailed, WriteBlocked, ClaimLost, OutreachRecorded,
                WriteFailedStatus, WriteDropped, Crash, rowVars
  <2> QED  BY <1>5, <2>1
<1>8. ASSUME NEW m \in Message, NEW w \in Worker,
             \/ TakeJob(w, m) \/ GuardDenies(w, m) \/ GuardAllows(w, m) \/ RatePasses(w, m)
             \/ NumberExists(w, m) \/ NumberMissing(w, m)
      PROVE  PacedInv'
  <2>1. UNCHANGED recent
    BY <1>8 DEF TakeJob, GuardDenies, GuardAllows, RatePasses, NumberExists, NumberMissing, rowVars
  <2>2. \/ \E pc \in {"guard", "block", "rate"} : Goto(w, m, pc)
        \/ Goto(w, m, "check") /\ RateAllows
        \/ Goto(w, m, "claim") /\ worker[w].pc = "check"
    BY <1>8 DEF TakeJob, GuardDenies, GuardAllows, RatePasses, NumberExists, NumberMissing, Running
  <2> QED  BY <1>6, <2>1, <2>2
<1>9. ASSUME NEW m \in Message, NEW w \in Worker,
             \/ Claim(w, m) \/ CallAccepted(w, m) \/ CallRefused(w, m) \/ CallTimedOut(w, m)
             \/ MediaUnavailable(w, m) \/ WriteFailed(w, m)
      PROVE  PacedInv'
  <2>1. UNCHANGED recent
    BY <1>9 DEF Claim, CallAccepted, CallRefused, CallTimedOut, MediaUnavailable, WriteFailed, rowVars
  <2>2. \/ \E pc \in {"fail", "drop"} : Goto(w, m, pc)
        \/ \E pc \in {"call", "record"} : Goto(w, m, pc) /\ worker[w].pc \in Counted
    BY <1>9 DEF Claim, CallAccepted, CallRefused, CallTimedOut, MediaUnavailable, WriteFailed, Running
  <2> QED  BY <1>6, <2>1, <2>2
<1>10. CASE UNCHANGED vars
  BY <1>2, <1>10 DEF vars
<1> QED
  BY <1>3, <1>4, <1>7, <1>8, <1>9, <1>10 DEF Next, Guarding, Sending

LEMMA SoloInvariant == Solo /\ Spec => [](SoloInv /\ PacedInv)
<1> SUFFICES ASSUME Solo PROVE Spec => [](SoloInv /\ PacedInv)
  OBVIOUS
<1>1. (TypeOK /\ JobInv /\ WorkInv) /\ (SoloInv /\ PacedInv) /\ [Next]_vars => (SoloInv /\ PacedInv)'
  BY SoloStep, PacedStep
<1> QED  BY <1>1, SoloInit, WorkerInvariant, PTL DEF Spec

\* With one slot the duplicate check, read several steps before the claim,
\* still holds when the message is handed over (send-guard.ts).
THEOREM OneSlotOneContact == Solo /\ Spec => []OneContactPerNumber
<1>1. SoloInv => OneContactPerNumber
  BY DEF SoloInv
<1> QED  BY <1>1, SoloInvariant, PTL

\* With one slot the cap is exact: the count read before the send still holds
\* when sentAt is written (send-guard.ts:7).
THEOREM OneSlotPaced == Solo /\ Spec => []Paced
<1>1. PacedInv => Paced
  BY DEF PacedInv
<1> QED  BY <1>1, SoloInvariant, PTL

\* With one slot BLOCKED means that no attempt was made (schema.prisma:862).
THEOREM OneSlotBlockedUnattempted == Solo /\ Spec => []BlockedNeverAttempted
<1>1. SoloInv => BlockedNeverAttempted
  BY DEF SoloInv
<1> QED  BY <1>1, SoloInvariant, PTL

=============================================================================
