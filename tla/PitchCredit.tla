---------------------------- MODULE PitchCredit ----------------------------
(***************************************************************************)
(* What happens to the credit a pitch was started with, whoever settles    *)
(* it: it is consumed when the pitch is sent, refunded when it failed for  *)
(* good, or handed to a pitch of another lead, once and for good.          *)
(***************************************************************************)
CONSTANT Pipeline

VARIABLE credit  \* unstarted, open, or how it was settled

Settled == {"CONSUMED", "REFUNDED", "REPLACED"}

CreditInit == credit = [p \in Pipeline |-> "unstarted"]

\* One selection starts the pitches of all the leads it could claim.
Started(S) ==
  /\ S # {} /\ \A p \in S : credit[p] = "unstarted"
  /\ credit' = [p \in Pipeline |-> IF p \in S THEN "open" ELSE credit[p]]

Consumed(p) ==
  /\ credit[p] = "open"
  /\ credit' = [credit EXCEPT ![p] = "CONSUMED"]

Refunded(p) ==
  /\ credit[p] = "open"
  /\ credit' = [credit EXCEPT ![p] = "REFUNDED"]

Replaced(p, q) ==
  /\ credit[p] = "open" /\ credit[q] = "unstarted"
  /\ credit' = [credit EXCEPT ![p] = "REPLACED", ![q] = "open"]

CreditNext ==
  \/ \E S \in SUBSET Pipeline : Started(S)
  \/ \E p \in Pipeline : Consumed(p) \/ Refunded(p)
  \/ \E p, q \in Pipeline : Replaced(p, q)

CreditSpec == CreditInit /\ [][CreditNext]_credit

=============================================================================
