------------------------- MODULE BusinessDirectory --------------------------
(***************************************************************************)
(* The businesses discovery finds: resolveBusiness (business/dedupe.ts)    *)
(* and the lead it is found for (leads/lead.service.ts), and the review of *)
(* possible duplicates (business/merge.ts).                                *)
(*                                                                         *)
(* A finding is one provider record in one campaign; a business is named   *)
(* after the finding that created it.  Findings and reviews are database   *)
(* transactions, read committed: what one writes appears when it commits.  *)
(***************************************************************************)
EXTENDS FiniteSets

CONSTANTS
  Finding, Catalogue, Campaigned,
  ExternalId,   \* of each finding's record: a member of Catalogue, or Unlisted
  LockOf,       \* the key it locks: its phone, else its domain, or Unlisted
  FoundIn,      \* its campaign
  Corroborated, \* pairs of findings that share a phone or a domain and agree
                \* on the name or the city: one business for sure
  Suspected,    \* pairs that share one without agreeing, or have names alike
  Review,       \* an operator's requests to merge or dismiss
  Unlisted

Symmetric(pairs) == \A p \in pairs : <<p[2], p[1]>> \in pairs

ASSUME DirectoryAssumption ==
  /\ Unlisted \notin Catalogue \cup Finding
  /\ Corroborated \cup Suspected \subseteq Finding \X Finding
  /\ Corroborated \cap Suspected = {}
  /\ Symmetric(Corroborated) /\ Symmetric(Suspected)
  /\ FoundIn \in [Finding -> Campaigned]
  \* a key is a whole phone or domain, which the exact tiers compare
  /\ \A i, j \in Finding :
       i # j /\ LockOf[i] # Unlisted /\ LockOf[i] = LockOf[j] => <<i, j>> \in Corroborated \cup Suspected

VARIABLES
  finding,     \* where each finding is, and the business it resolved to
  business,    \* rows, each named after the finding that created it
  mergedInto,  \* Business.mergedIntoId, or Unlisted
  leads,       \* Lead rows: <<campaign, business>>
  flagged,     \* PossibleDuplicate.status of <<existing, candidate>>
  merges,      \* BusinessMerge rows, one per review: <<winner, loser>>
  review       \* per request: what it does, to which pair, the leads it read
dirVars == <<finding, business, mergedInto, leads, flagged, merges, review>>

Pair == Finding \X Finding
IdleReview == [pc |-> "idle", pair |-> Unlisted, moving |-> {}]

DirInit ==
  /\ finding = [i \in Finding |-> [pc |-> "idle", to |-> Unlisted, twin |-> Unlisted]]
  /\ business = {} /\ mergedInto = [i \in Finding |-> Unlisted]
  /\ leads = {} /\ flagged = [p \in Pair |-> "NONE"] /\ merges = {}
  /\ review = [v \in Review |-> IdleReview]

SameRecord(i, j) == ExternalId[i] # Unlisted /\ ExternalId[i] = ExternalId[j]
Listed(i) == {b \in business : SameRecord(i, b)}
Live == {b \in business : mergedInto[b] = Unlisted}

-----------------------------------------------------------------------------
(* resolveBusiness.                                                         *)

\* Tier 1: the row with the record's own id, merged away or not.
LookUp(i) ==
  /\ finding[i].pc = "idle"
  /\ \/ \E b \in Listed(i) : finding' = [finding EXCEPT ![i].pc = "found", ![i].to = b]
     \/ /\ Listed(i) = {}
        /\ finding' = [finding EXCEPT ![i].pc = "lock"]
  /\ UNCHANGED <<business, mergedInto, leads, flagged, merges, review>>

Faulty_LockKey(i) ==
  /\ finding[i].pc = "lock"
  /\ finding' = [finding EXCEPT ![i].pc = "match"]
  /\ UNCHANGED <<business, mergedInto, leads, flagged, merges, review>>

\* Held until the transaction ends.
LockKey(i) ==
  /\ finding[i].pc = "lock"
  /\ LockOf[i] # Unlisted => \A j \in Finding : ~(finding[j].pc \in {"match", "resolved", "new"} /\ LockOf[j] = LockOf[i])
  /\ finding' = [finding EXCEPT ![i].pc = "match"]
  /\ UNCHANGED <<business, mergedInto, leads, flagged, merges, review>>

\* Tiers 2 to 6: a business known to be the same is taken, one suspected to be
\* is named beside the new row, among those that are not merged away.
Match(i) ==
  LET same == {b \in Live : <<i, b>> \in Corroborated}
      suspects == {b \in Live : <<i, b>> \in Suspected}
  IN  /\ finding[i].pc = "match"
      /\ \/ \E b \in same : finding' = [finding EXCEPT ![i].pc = "resolved", ![i].to = b]
         \/ /\ suspects # {}
            /\ \E b \in suspects : finding' = [finding EXCEPT ![i].pc = "new", ![i].twin = b]
         \/ /\ same \cup suspects = {}
            /\ finding' = [finding EXCEPT ![i].pc = "new"]
      /\ UNCHANGED <<business, mergedInto, leads, flagged, merges, review>>

\* The transaction commits.  A new row is an upsert on the record's id; a pair
\* is flagged once, in either order; a campaign has one lead per business.
Commit(i) ==
  LET b == IF finding[i].pc # "new" THEN finding[i].to
           ELSE IF Listed(i) = {} THEN i ELSE CHOOSE x \in Listed(i) : TRUE
      twin == finding[i].twin
  IN  /\ finding[i].pc \in {"found", "resolved", "new"}
      /\ finding' = [finding EXCEPT ![i].pc = "done", ![i].to = b]
      /\ business' = business \cup {b}
      /\ leads' = leads \cup {<<FoundIn[i], b>>}
      /\ flagged' = IF twin # Unlisted /\ flagged[<<twin, b>>] = "NONE" /\ flagged[<<b, twin>>] = "NONE"
                      THEN [flagged EXCEPT ![<<twin, b>>] = "PENDING"] ELSE flagged
      /\ UNCHANGED <<mergedInto, merges, review>>

-----------------------------------------------------------------------------
(* mergeBusinesses and dismissPossibleDuplicate.                            *)

MergeReads(v) ==
  /\ review[v].pc = "idle"
  /\ \E p \in Pair :
       /\ flagged[p] = "PENDING"
       /\ review' = [review EXCEPT ![v] = [pc |-> "merge", pair |-> p, moving |-> {l \in leads : l[2] = p[2]}]]
  /\ UNCHANGED <<finding, business, mergedInto, leads, flagged, merges>>

\* The loser's leads go to the winner, but for campaigns that have one there;
\* a review merged before fails on the unique index of its merge row.
MergeCommits(v) ==
  LET winner == review[v].pair[1]
      loser == review[v].pair[2]
      moved == {l \in review[v].moving : <<l[1], winner>> \notin leads}
  IN  /\ review[v].pc = "merge"
      /\ review' = [review EXCEPT ![v] = IdleReview]
      /\ IF review[v].pair \in merges THEN UNCHANGED <<leads, mergedInto, merges, flagged>>
         ELSE /\ leads' = (leads \ moved) \cup {<<l[1], winner>> : l \in moved}
              /\ mergedInto' = [mergedInto EXCEPT ![loser] = winner]
              /\ merges' = merges \cup {review[v].pair}
              /\ flagged' = [flagged EXCEPT ![review[v].pair] = "CONFIRMED_MERGED"]
      /\ UNCHANGED <<finding, business>>

DismissReads(v) ==
  /\ review[v].pc = "idle"
  /\ \E p \in Pair :
       /\ flagged[p] = "PENDING"
       /\ review' = [review EXCEPT ![v] = [pc |-> "dismiss", pair |-> p, moving |-> {}]]
  /\ UNCHANGED <<finding, business, mergedInto, leads, flagged, merges>>

\* Whatever has become of the review meanwhile.
DismissWrites(v) ==
  /\ review[v].pc = "dismiss"
  /\ flagged' = [flagged EXCEPT ![review[v].pair] = "DISMISSED"]
  /\ review' = [review EXCEPT ![v] = IdleReview]
  /\ UNCHANGED <<finding, business, mergedInto, leads, merges>>

DirNext ==
  \/ \E i \in Finding : LookUp(i) \/ LockKey(i) \/ Match(i) \/ Commit(i)
  \/ \E v \in Review : MergeReads(v) \/ MergeCommits(v) \/ DismissReads(v) \/ DismissWrites(v)

DirSpec == DirInit /\ [][DirNext]_dirVars

-----------------------------------------------------------------------------
(* Properties.                                                              *)

DirTypeOK ==
  /\ finding \in [Finding -> [pc : {"idle", "lock", "match", "found", "resolved", "new", "done"},
                              to : Finding \cup {Unlisted}, twin : Finding \cup {Unlisted}]]
  /\ business \subseteq Finding
  /\ mergedInto \in [Finding -> Finding \cup {Unlisted}]
  /\ leads \subseteq Campaigned \X Finding
  /\ flagged \in [Pair -> {"NONE", "PENDING", "CONFIRMED_MERGED", "DISMISSED"}]
  /\ merges \subseteq Pair
  /\ review \in [Review -> [pc : {"idle", "merge", "dismiss"}, pair : Pair \cup {Unlisted},
                            moving : SUBSET (Campaigned \X Finding)]]

\* Of two live businesses with one lock key (one phone, or one domain and no
\* phone), which discovery runs may have found at the same time, one was put
\* before a reviewer as a possible duplicate (dedupe.ts resolveBusiness).  Of
\* which business is left open: the matching takes the first it finds, which need
\* not be the other twin, and the reviewer may have dismissed it since.  Businesses
\* with different keys are not serialised, and nothing is said of them.
TwinsAreFlagged ==
  \A b, c \in Live :
    b # c /\ LockOf[b] # Unlisted /\ LockOf[b] = LockOf[c]
      => \E d \in {b, c}, e \in business : flagged[<<e, d>>] # "NONE"
=============================================================================
