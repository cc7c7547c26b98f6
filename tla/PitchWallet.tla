---------------------------- MODULE PitchWallet ----------------------------
(***************************************************************************)
(* The pitch credit engine, apps/api/src/lib/checkout/wallet.service.ts.   *)
(*                                                                         *)
(* A user owns one wallet (available, reserved, used credits) and an       *)
(* append-only ledger whose rows carry a unique referenceId.  Every        *)
(* operation of the service is one action here; an operation that runs     *)
(* inside a database transaction is one atomic step, and the one that does *)
(* not (grantCredits, given a bare client) is two, with a crash between.   *)
(*                                                                         *)
(* A ledger is kept as the sums reconcileCreditLedger groups it into: one  *)
(* total per user and type, plus, per batch, what its rows leave reserved. *)
(***************************************************************************)
EXTENDS Integers

CONSTANTS
  User,
  Batch,        \* ids of PitchBatch rows
  Pipeline,     \* ids of LeadPipeline rows
  Grant,        \* referenceIds of grants: free-grant:<user>, purchase:<order>
  GrantUser,    \* whose wallet a grant is for
  GrantType,    \* PURCHASE or FREE_GRANT
  GrantAmount,  \* how many credits it is worth
  MaxRequest    \* bound: the most credits one reservation asks for

ASSUME WalletAssumption ==
  /\ GrantUser \in [Grant -> User]
  /\ GrantType \in [Grant -> {"PURCHASE", "FREE_GRANT"}]
  /\ GrantAmount \in [Grant -> Nat]
  /\ MaxRequest \in Nat

VARIABLES
  wallet,      \* PitchWallet rows
  ledger,      \* sum of PitchCreditLedger.amount by user and type
  references,  \* the referenceIds recorded so far (unique column)
  held,        \* per batch: RESERVE - RELEASE - CONSUME - REFUND of its rows
  granting,    \* grants whose ledger row is written, wallet upsert not yet run
  owed,        \* per user: recorded grants never added to the wallet
  alerts       \* "no_reserved_credit" alerts emitted, by user and type

walletVars == <<wallet, ledger, references, held, granting, owed, alerts>>

LedgerType == {"PURCHASE", "FREE_GRANT", "RESERVE", "RELEASE", "CONSUME", "REFUND"}
Resolution == {"CONSUME", "REFUND"}

Reference ==
  ({"grant"} \X Grant)
    \cup ({"reserve", "release", "release-stale"} \X Batch)
    \cup ({"CONSUME", "REFUND"} \X Pipeline)

Wallet == [available: Nat, reserved: Int, used: Nat]

WalletInit ==
  /\ wallet = [u \in User |-> [available |-> 0, reserved |-> 0, used |-> 0]]
  /\ ledger = [u \in User |-> [t \in LedgerType |-> 0]]
  /\ references = {}
  /\ held = [b \in Batch |-> 0]
  /\ granting = {}
  /\ owed = [u \in User |-> 0]
  /\ alerts = [u \in User |-> [t \in Resolution |-> 0]]

-----------------------------------------------------------------------------
(* Ledger rows and wallet movements *)

\* Insert a row: a referenceId is recorded once, by whoever inserts it first.
Record(u, type, amount, reference) ==
  /\ reference \notin references
  /\ references' = references \cup {reference}
  /\ ledger' = [ledger EXCEPT ![u][type] = @ + amount]

\* Add (or, negative, take) credits in the three balances of u's wallet row.
MoveCredits(u, available, reserved, used) ==
  wallet' = [wallet EXCEPT ![u] =
               [available |-> wallet[u].available + available,
                reserved  |-> wallet[u].reserved + reserved,
                used      |-> wallet[u].used + used]]

-----------------------------------------------------------------------------
(* grantCredits.  No caller opens a transaction around it, so the ledger   *)
(* row and the wallet upsert commit separately.                            *)

GrantRecorded(g) ==
  /\ GrantAmount[g] > 0
  /\ Record(GrantUser[g], GrantType[g], GrantAmount[g], <<"grant", g>>)
  /\ granting' = granting \cup {g}
  /\ owed' = [owed EXCEPT ![GrantUser[g]] = @ + GrantAmount[g]]
  /\ UNCHANGED <<wallet, held, alerts>>

\* A wallet upsert that ran again for a repeated grant.
Faulty_GrantApplied(g) ==
  /\ g \in granting
  /\ MoveCredits(GrantUser[g], 2 * GrantAmount[g], 0, 0)
  /\ granting' = granting \ {g}
  /\ owed' = [owed EXCEPT ![GrantUser[g]] = @ - GrantAmount[g]]
  /\ UNCHANGED <<ledger, references, held, alerts>>

GrantApplied(g) ==
  /\ g \in granting
  /\ MoveCredits(GrantUser[g], GrantAmount[g], 0, 0)
  /\ granting' = granting \ {g}
  /\ owed' = [owed EXCEPT ![GrantUser[g]] = @ - GrantAmount[g]]
  /\ UNCHANGED <<ledger, references, held, alerts>>

\* The process dies after the insert.  Every later call finds the
\* referenceId taken and returns the wallet unchanged.
GrantCrashed(g) ==
  /\ g \in granting
  /\ granting' = granting \ {g}
  /\ UNCHANGED <<wallet, ledger, references, held, owed, alerts>>

-----------------------------------------------------------------------------
(* Batch movements, each inside its caller's transaction *)

\* Without the WHERE availableCredits >= amount of the update.
Faulty_ReservePitchCredits(u, b, amount) ==
  /\ MoveCredits(u, -amount, amount, 0)
  /\ Record(u, "RESERVE", amount, <<"reserve", b>>)
  /\ held' = [held EXCEPT ![b] = @ + amount]
  /\ UNCHANGED <<granting, owed, alerts>>

ReservePitchCredits(u, b, amount) ==
  /\ wallet[u].available >= amount
  /\ MoveCredits(u, -amount, amount, 0)
  /\ Record(u, "RESERVE", amount, <<"reserve", b>>)
  /\ held' = [held EXCEPT ![b] = @ + amount]
  /\ UNCHANGED <<granting, owed, alerts>>

\* The wallet update has no condition: the caller vouches for the amount.
ReleasePitchCredits(u, b, amount, reason) ==
  /\ amount > 0
  /\ MoveCredits(u, amount, -amount, 0)
  /\ Record(u, "RELEASE", amount, <<reason, b>>)
  /\ held' = [held EXCEPT ![b] = @ - amount]
  /\ UNCHANGED <<granting, owed, alerts>>

-----------------------------------------------------------------------------
(* resolveReservedCredit: the row first, then the wallet if a credit is    *)
(* reserved, else an alert.                                                *)

ResolveOne(u, type) ==
  IF type = "CONSUME" THEN MoveCredits(u, 0, -1, 1) ELSE MoveCredits(u, 1, -1, 0)

\* The wallet moved whether or not the ledger row was new.
Faulty_ResolveReservedCredit(u, b, p, type) ==
  /\ wallet[u].reserved >= 1
  /\ ResolveOne(u, type)
  /\ \/ Record(u, type, 1, <<type, p>>)
     \/ <<type, p>> \in references /\ UNCHANGED <<references, ledger>>
  /\ held' = [held EXCEPT ![b] = @ - 1]
  /\ UNCHANGED <<granting, owed, alerts>>

ResolveReservedCredit(u, b, p, type) ==
  /\ Record(u, type, 1, <<type, p>>)
  /\ held' = [held EXCEPT ![b] = @ - 1]
  /\ \/ /\ wallet[u].reserved >= 1
        /\ ResolveOne(u, type)
        /\ UNCHANGED alerts
     \/ /\ wallet[u].reserved < 1
        /\ alerts' = [alerts EXCEPT ![u][type] = @ + 1]
        /\ UNCHANGED wallet
  /\ UNCHANGED <<granting, owed>>

-----------------------------------------------------------------------------
\* Any caller, in any order: what the service promises whoever calls it.
WalletNext ==
  \/ \E g \in Grant : GrantRecorded(g) \/ GrantApplied(g) \/ GrantCrashed(g)
  \/ \E u \in User, b \in Batch, amount \in 1..MaxRequest :
       \/ ReservePitchCredits(u, b, amount)
       \/ \E reason \in {"release", "release-stale"} :
            ReleasePitchCredits(u, b, amount, reason)
  \/ \E u \in User, b \in Batch, p \in Pipeline, type \in Resolution :
       ResolveReservedCredit(u, b, p, type)

WalletSpec == WalletInit /\ [][WalletNext]_walletVars

-----------------------------------------------------------------------------
(* Properties *)

\* Types, with what the conditional updates guarantee: a balance a user can
\* spend from never goes below zero, however many requests race for it.
\* (reservedCredits has no such guard: releasePitchCredits trusts its caller.)
WalletTypeOK ==
  /\ wallet \in [User -> Wallet]
  /\ ledger \in [User -> [LedgerType -> Nat]]
  /\ references \subseteq Reference
  /\ held \in [Batch -> Int]
  /\ granting \subseteq Grant
  /\ owed \in [User -> Int]
  /\ alerts \in [User -> [Resolution -> Nat]]

\* What reconcileCreditLedger rebuilds from the ledger.
Expected(u) ==
  LET n(type) == ledger[u][type]
  IN  [available |-> n("PURCHASE") + n("FREE_GRANT") - n("RESERVE")
                       + n("RELEASE") + n("REFUND"),
       reserved  |-> n("RESERVE") - n("RELEASE") - n("CONSUME") - n("REFUND"),
       used      |-> n("CONSUME")]

\* The wallet equals its ledger, the formulas of reconcileCreditLedger, up to
\* the two ways the service lets them part: a recorded grant not yet added to
\* the wallet, and a resolution that found nothing reserved (alerted).
Reconciles(u) ==
  /\ wallet[u].available = Expected(u).available - owed[u] - alerts[u]["REFUND"]
  /\ wallet[u].reserved = Expected(u).reserved
                            + alerts[u]["CONSUME"] + alerts[u]["REFUND"]
  /\ wallet[u].used = Expected(u).used - alerts[u]["CONSUME"]

LedgerReconciles == \A u \in User : Reconciles(u)

\* "available + reserved + used always equals total granted": no operation
\* creates or destroys a credit, apart from a grant still owed to the wallet.
CreditsConserved ==
  \A u \in User :
    wallet[u].available + wallet[u].reserved + wallet[u].used
      = ledger[u]["PURCHASE"] + ledger[u]["FREE_GRANT"] - owed[u]

=============================================================================
