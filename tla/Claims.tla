------------------------------- MODULE Claims -------------------------------
(***************************************************************************)
(* Business exclusivity, apps/api/src/lib/leads/claims.service.ts, and the *)
(* three moments that use it: discovery ingests a business as a lead, a    *)
(* pitch to it starts, its credit is resolved.  Its last line is the guard *)
(* of the send worker, which looks for messages of other users.            *)
(*                                                                         *)
(* One business: claims of different businesses are different rows.  A     *)
(* user finds it in one campaign only (seenBusinessKeys), so a user here   *)
(* stands for that campaign, and pitches it at most once.  Time is one     *)
(* step, the end of the claim that stands.                                 *)
(***************************************************************************)

CONSTANTS
  Pitcher,
  Direct,     \* those who send by hand: their messages have no row
  Unclaimed

ASSUME ClaimAssumption == Direct \subseteq Pitcher /\ Unclaimed \notin Pitcher

VARIABLES
  claim,      \* the BusinessClaim row: status, user, and whether it is still live
  found,      \* the lead of each user
  courted,    \* the pitch of each user
  cleared,    \* users with a message that has passed the guard of its send
  contacted,  \* users with a WhatsAppMessage that counts as a contact
  lapsed      \* users whose claim or contact ran out while it still mattered
claimVars == <<claim, found, courted, cleared, contacted, lapsed>>
messageVars == <<cleared, contacted>>

\* A pitch that holds a claim, and one that goes on after it gave it back.
Courting == {"reserved", "open", "sent"}
Revived == {"retried", "messaged"}

ClaimTypeOK ==
  /\ claim \in [status : {"NONE", "RESERVED", "PITCHED", "RELEASED"},
                user : Pitcher \cup {Unclaimed}, live : BOOLEAN]
  /\ found \in [Pitcher -> {"no", "created", "lead", "deleted"}]
  /\ courted \in [Pitcher -> {"no", "chosen", "skipped", "failed"} \cup Courting \cup Revived]
  /\ cleared \subseteq Pitcher \ Direct
  /\ contacted \subseteq Pitcher \ Direct
  /\ lapsed \subseteq Pitcher

ClaimsInit ==
  /\ claim = [status |-> "NONE", user |-> Unclaimed, live |-> FALSE]
  /\ found = [u \in Pitcher |-> "no"]
  /\ courted = [u \in Pitcher |-> "no"]
  /\ cleared = {} /\ contacted = {} /\ lapsed = {}

\* businessesTakenByOthers.
TakenByOther(u) ==
  claim.status \in {"RESERVED", "PITCHED"} /\ claim.live /\ claim.user # u

-----------------------------------------------------------------------------
(* ingestBusinesses: the lead is created, then undone if the business is    *)
(* another user's.                                                          *)

LeadCreated(u) ==
  /\ found[u] = "no"
  /\ found' = [found EXCEPT ![u] = "created"]
  /\ UNCHANGED <<claim, courted, messageVars, lapsed>>

LeadKeptOrUndone(u) ==
  /\ found[u] = "created"
  /\ found' = [found EXCEPT ![u] = IF TakenByOther(u) THEN "deleted" ELSE "lead"]
  /\ UNCHANGED <<claim, courted, messageVars, lapsed>>

-----------------------------------------------------------------------------
(* Starting a pitch.                                                        *)

\* The selection leaves out what another user holds.
Select(u) ==
  /\ found[u] \in {"created", "lead"} /\ courted[u] = "no" /\ ~TakenByOther(u)
  /\ courted' = [courted EXCEPT ![u] = "chosen"]
  /\ UNCHANGED <<claim, found, messageVars, lapsed>>

\* The check of the selection trusted: whoever comes last holds the claim.
Faulty_ReserveBusiness(u) ==
  /\ courted[u] = "chosen"
  /\ claim' = [status |-> "RESERVED", user |-> u, live |-> TRUE]
  /\ courted' = [courted EXCEPT ![u] = "reserved"]
  /\ UNCHANGED <<found, messageVars, lapsed>>

\* reserveBusiness: one insert that takes over a released or expired claim,
\* and a claim of one's own that still stands counts.
ReserveBusiness(u) ==
  /\ courted[u] = "chosen"
  /\ \/ /\ claim.status \in {"NONE", "RELEASED"} \/ ~claim.live
        /\ claim' = [status |-> "RESERVED", user |-> u, live |-> TRUE]
        /\ courted' = [courted EXCEPT ![u] = "reserved"]
     \/ /\ claim.status \in {"RESERVED", "PITCHED"} /\ claim.live
        /\ courted' = [courted EXCEPT ![u] = IF claim.user = u THEN "reserved" ELSE "skipped"]
        /\ UNCHANGED claim
  /\ UNCHANGED <<found, messageVars, lapsed>>

\* startPipelines creates the pitch, or dies before it does.
StartPitch(u) ==
  /\ courted[u] = "reserved"
  /\ \E next \in {"open", "skipped"} : courted' = [courted EXCEPT ![u] = next]
  /\ UNCHANGED <<claim, found, messageVars, lapsed>>

-----------------------------------------------------------------------------
(* Sending.                                                                 *)

\* SendGuard.evaluate: nobody else has contacted the number.
GuardAllows(u) ==
  /\ courted[u] \in {"open", "retried"} /\ u \notin Direct /\ contacted \subseteq {u}
  /\ cleared' = cleared \cup {u}
  /\ UNCHANGED <<claim, found, courted, contacted, lapsed>>

\* The row becomes SENDING, awaits later: accounts share no lock.
MessageGoesOut(u) ==
  /\ u \in cleared
  /\ cleared' = cleared \ {u} /\ contacted' = contacted \cup {u}
  /\ UNCHANGED <<claim, found, courted, lapsed>>

\* The send failed, or the message is as old as the window of the guard.
ContactEnds(u) ==
  /\ u \in contacted
  /\ contacted' = contacted \ {u}
  /\ lapsed' = IF courted[u] \in {"sent", "messaged"} THEN lapsed \cup {u} ELSE lapsed
  /\ UNCHANGED <<claim, found, courted, cleared>>

Reached(u) == u \in Direct \cup contacted

-----------------------------------------------------------------------------
(* resolvePipelineCredit, and time.                                         *)

\* CONSUMED: confirmBusinessClaim renews the user's claim, whatever its
\* status, and nobody else's.
PitchSent(u) ==
  /\ courted[u] = "open" /\ Reached(u)
  /\ courted' = [courted EXCEPT ![u] = "sent"]
  /\ IF claim.user = u
       THEN claim' = [claim EXCEPT !.status = "PITCHED", !.live = TRUE] /\ lapsed' = lapsed \ {u}
       ELSE UNCHANGED <<claim, lapsed>>
  /\ UNCHANGED <<found, messageVars>>

\* REFUNDED or REPLACED: releaseBusinessClaim frees a reservation of its own.
PitchFailed(u) ==
  /\ courted[u] = "open"
  /\ courted' = [courted EXCEPT ![u] = "failed"]
  /\ claim' = IF claim.user = u /\ claim.status = "RESERVED" THEN [claim EXCEPT !.status = "RELEASED"] ELSE claim
  /\ UNCHANGED <<found, messageVars, lapsed>>

\* retryPipeline: a pitch that failed for good is resumed by its user from the
\* stage that failed, with no claim of its own; its credit is resolved already,
\* so that nothing is confirmed when its message arrives.
PitchRetried(u) ==
  /\ courted[u] = "failed"
  /\ courted' = [courted EXCEPT ![u] = "retried"]
  /\ UNCHANGED <<claim, found, messageVars, lapsed>>

RetriedPitchEnds(u) ==
  /\ courted[u] = "retried"
  /\ \/ Reached(u) /\ courted' = [courted EXCEPT ![u] = "messaged"]
     \/ courted' = [courted EXCEPT ![u] = "failed"]
  /\ UNCHANGED <<claim, found, messageVars, lapsed>>

\* Seven days after a reservation, ninety after a pitch.
ClaimExpires ==
  /\ claim.live
  /\ claim' = [claim EXCEPT !.live = FALSE]
  /\ lapsed' = lapsed \cup {u \in {claim.user} : courted[u] \in Courting}
  /\ UNCHANGED <<found, courted, messageVars>>

PitcherStep(u) ==
  \/ LeadCreated(u) \/ LeadKeptOrUndone(u) \/ Select(u) \/ ReserveBusiness(u)
  \/ StartPitch(u) \/ GuardAllows(u) \/ MessageGoesOut(u) \/ ContactEnds(u)
  \/ PitchSent(u) \/ PitchFailed(u) \/ PitchRetried(u) \/ RetriedPitchEnds(u)

ClaimsNext == ClaimExpires \/ \E u \in Pitcher : PitcherStep(u)

ClaimsSpec == ClaimsInit /\ [][ClaimsNext]_claimVars

-----------------------------------------------------------------------------
(* Properties.                                                              *)

\* While its claim has not run out, a business that one user is pitching or
\* has pitched is pitched by no other, whatever they read before they chose
\* it and whoever's pitch fails meanwhile, a retry after a failure excepted
\* (claims.service.ts reserveBusiness).
ExclusivePitch ==
  \A u, v \in Pitcher :
    courted[u] \in Courting /\ courted[v] \in Courting /\ u # v => {u, v} \cap lapsed # {}

\* No other user can message a business within the days of a claim, the guard
\* of the send worker included (claims.service.ts:3-4).
OneMessenger ==
  \A u, v \in Pitcher :
    u # v /\ courted[u] \in {"sent", "messaged"} /\ courted[v] \in {"sent", "messaged"}
      => {u, v} \cap lapsed # {}
=============================================================================
