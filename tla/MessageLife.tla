---------------------------- MODULE MessageLife ----------------------------
(***************************************************************************)
(* What the rest of the system may rely on about an outbound WhatsApp      *)
(* message, whoever processes it and however often: its row's status, and  *)
(* whether its recipient got it.                                           *)
(*                                                                         *)
(* A message is attempted at most once, by whoever moves it from QUEUED to *)
(* SENDING, and reaches its recipient at most once, only after that.  The  *)
(* row then says what the sender believes, which is not always what        *)
(* happened: SENT is written only for a message WhatsApp accepted, but     *)
(* FAILED and BLOCKED are also written over messages that were delivered.  *)
(* SendWorker implements this module.                                      *)
(***************************************************************************)
EXTENDS Integers

CONSTANT Message

VARIABLES
  status,     \* WhatsAppMessage.status, NONE before the row exists
  attempted,  \* messages handed to WhatsApp, or about to be
  landed      \* how many times the recipient received the message

lifeVars == <<status, attempted, landed>>

Status == {"NONE", "QUEUED", "SENDING", "SENT", "DELIVERED", "READ",
           "FAILED", "BLOCKED", "CANCELLED"}

\* Statuses of a message that WhatsApp accepted.
Accepted == {"SENT", "DELIVERED", "READ"}

LifeInit ==
  /\ status = [m \in Message |-> "NONE"]
  /\ attempted = {}
  /\ landed = [m \in Message |-> 0]

Becomes(m, s) == status' = [status EXCEPT ![m] = s]

Queued(m) ==
  /\ status[m] = "NONE"
  /\ Becomes(m, "QUEUED")
  /\ UNCHANGED <<attempted, landed>>

\* The account was disconnected, or its user paused sending.
Cancelled(m) ==
  /\ status[m] = "QUEUED"
  /\ Becomes(m, "CANCELLED")
  /\ UNCHANGED <<attempted, landed>>

Attempted(m) ==
  /\ status[m] = "QUEUED"
  /\ Becomes(m, "SENDING")
  /\ attempted' = attempted \cup {m}
  /\ UNCHANGED landed

\* It reaches the recipient, perhaps after its row was settled.
Reached(m) ==
  /\ m \in attempted
  /\ landed[m] = 0
  /\ landed' = [landed EXCEPT ![m] = 1]
  /\ UNCHANGED <<status, attempted>>

Sent(m) ==
  /\ landed[m] = 1
  /\ status[m] \in {"SENDING", "BLOCKED"}
  /\ Becomes(m, "SENT")
  /\ UNCHANGED <<attempted, landed>>

Failed(m) ==
  /\ m \in attempted
  /\ Becomes(m, "FAILED")
  /\ UNCHANGED <<attempted, landed>>

Blocked(m) ==
  /\ status[m] # "NONE"
  /\ Becomes(m, "BLOCKED")
  /\ UNCHANGED <<attempted, landed>>

\* A delivery or read receipt.
Acknowledged(m) ==
  /\ landed[m] = 1
  /\ \/ status[m] = "SENT" /\ Becomes(m, "DELIVERED")
     \/ status[m] \in {"SENT", "DELIVERED"} /\ Becomes(m, "READ")
  /\ UNCHANGED <<attempted, landed>>

LifeNext ==
  \E m \in Message :
    \/ Queued(m) \/ Cancelled(m) \/ Attempted(m) \/ Reached(m)
    \/ Sent(m) \/ Failed(m) \/ Blocked(m) \/ Acknowledged(m)

LifeSpec == LifeInit /\ [][LifeNext]_lifeVars

=============================================================================
