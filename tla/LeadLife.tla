------------------------------ MODULE LeadLife ------------------------------
(***************************************************************************)
(* One lead: its lifecycle with the deal that mirrors it                   *)
(* (leads/lifecycle.ts), and its website projects with their versions      *)
(* (websites/website.service.ts).                                          *)
(*                                                                         *)
(* Requests run side by side.  A database transaction is read committed: a *)
(* request reads, other transactions commit, and it writes what it decided *)
(* on; a row it wrote stays locked until it commits, so that its writes    *)
(* are one step.                                                           *)
(***************************************************************************)
EXTENDS Integers, FiniteSets

CONSTANTS
  Change,           \* requests that move the lead to another status
  Site,             \* website projects that may be created
  Edit,             \* requests that edit a project
  MaxNumberTries,   \* MAX_VERSION_NUMBER_ATTEMPTS
  Unread

ASSUME LeadAssumption ==
  /\ MaxNumberTries \in Nat \ {0}
  /\ Unread \notin Site

\* LEAD_LIFECYCLE_TRANSITIONS; LOST can be reached from every active status.
Ahead == [NEW |-> "ANALYZED", ANALYZED |-> "SITE_READY", SITE_READY |-> "PITCHED", PITCHED |-> "REPLIED",
          REPLIED |-> "INTERESTED", INTERESTED |-> "NEGOTIATING", NEGOTIATING |-> "WON"]
Active == DOMAIN Ahead
LeadStatus == Active \cup {"WON", "LOST"}
Allowed(from, to) == from \in Active /\ to \in {Ahead[from], "LOST"}

VARIABLES
  leadStatus,   \* Lead.status
  deal,         \* Deal.status, or "NONE"
  change,       \* per request: the status it asks for, once it was found allowed
  site,         \* WebsiteProject.status, and how far a creation is
  versions,     \* WebsiteVersion rows: <<project, number, edit that wrote it>>
  content,      \* the edit whose content the project shows
  editing          \* per edit: its project, the version number it took, and tries
leadVars == <<leadStatus, deal, change, site, versions, content, editing>>

IdleEdit == [pc |-> "idle", of |-> Unread, number |-> 0, tries |-> 0]

LeadInit ==
  /\ leadStatus = "NEW" /\ deal = "NONE"
  /\ change = [c \in Change |-> "idle"]
  /\ site = [w \in Site |-> "none"]
  /\ versions = {} /\ content = [w \in Site |-> Unread]
  /\ editing = [e \in Edit |-> IdleEdit]

\* syncDealForTransition.
SyncDeal(to) ==
  deal' = CASE to \in {"NEGOTIATING", "WON"} -> to
            [] to = "LOST" /\ deal # "NONE" -> "LOST"
            [] OTHER -> deal

-----------------------------------------------------------------------------
(* transitionLeadStatus: the graph is checked against a row read before,    *)
(* and the update does not check it again.                                  *)

ChangeReads(c) ==
  /\ change[c] = "idle"
  /\ \E to \in LeadStatus : Allowed(leadStatus, to) /\ change' = [change EXCEPT ![c] = to]
  /\ UNCHANGED <<leadStatus, deal, site, versions, content, editing>>

ChangeCommits(c) ==
  /\ change[c] # "idle"
  /\ leadStatus' = change[c] /\ SyncDeal(change[c])
  /\ change' = [change EXCEPT ![c] = "idle"]
  /\ UNCHANGED <<site, versions, content, editing>>

-----------------------------------------------------------------------------
(* createWebsiteProject: the project, its version 1, and the lead's step to *)
(* SITE_READY in one transaction.                                           *)

\* The lead is read first, outside the transaction, then again by the
\* transition in it, which refuses, and undoes all, when the lead moved on.
SiteReads(w) ==
  /\ site[w] = "none"
  /\ site' = [site EXCEPT ![w] = IF Allowed(leadStatus, "SITE_READY") THEN "moving" ELSE "adding"]
  /\ UNCHANGED <<leadStatus, deal, change, versions, content, editing>>

SiteReadsAgain(w) ==
  /\ site[w] = "moving"
  /\ site' = [site EXCEPT ![w] = IF Allowed(leadStatus, "SITE_READY") THEN "moved" ELSE "none"]
  /\ UNCHANGED <<leadStatus, deal, change, versions, content, editing>>

SiteCommits(w) ==
  /\ site[w] \in {"moved", "adding"}
  /\ leadStatus' = IF site[w] = "moved" THEN "SITE_READY" ELSE leadStatus
  /\ site' = [site EXCEPT ![w] = "DRAFT"]
  /\ versions' = versions \cup {<<w, 1, w>>}
  /\ content' = [content EXCEPT ![w] = w]
  /\ UNCHANGED <<deal, change, editing>>

\* publishWebsiteProject refuses a project that is PUBLISHED when it reads it;
\* two that read a DRAFT both write the same.
SitePublished(w) ==
  /\ site[w] = "DRAFT"
  /\ site' = [site EXCEPT ![w] = "PUBLISHED"]
  /\ UNCHANGED <<leadStatus, deal, change, versions, content, editing>>

-----------------------------------------------------------------------------
(* createNewWebsiteVersion.                                                 *)

EditingGoes(e, pc) == editing' = [editing EXCEPT ![e].pc = pc]

Numbers(w) == {v[2] : v \in {x \in versions : x[1] = w}}
Latest(w) == CHOOSE n \in Numbers(w) : \A m \in Numbers(w) : m <= n

EditReads(e, w) ==
  /\ site[w] \in {"DRAFT", "PUBLISHED"}
  /\ \/ editing[e].pc = "idle"
     \/ editing[e].pc = "again" /\ editing[e].of = w
  /\ editing' = [editing EXCEPT ![e] = [pc |-> "read", of |-> w, number |-> Latest(w) + 1, tries |-> @.tries + 1]]
  /\ UNCHANGED <<leadStatus, deal, change, site, versions, content>>

\* No unique index: the number read before is taken.
Faulty_EditInserts(e) ==
  /\ editing[e].pc = "read"
  /\ EditingGoes(e, "inserted")
  /\ UNCHANGED <<leadStatus, deal, change, site, versions, content>>

\* The unique index: an insert waits for another transaction that inserted the
\* same number, and fails once that one has committed.
EditInserts(e) ==
  LET me == editing[e] IN
  /\ me.pc = "read"
  /\ \A x \in Edit : ~(editing[x].pc = "inserted" /\ editing[x].of = me.of /\ editing[x].number = me.number)
  /\ EditingGoes(e, CASE me.number \notin Numbers(me.of) -> "inserted"
                   [] me.number \in Numbers(me.of) /\ me.tries < MaxNumberTries -> "again"
                   [] OTHER -> "failed")
  /\ UNCHANGED <<leadStatus, deal, change, site, versions, content>>

EditCommits(e) ==
  LET me == editing[e] IN
  /\ me.pc = "inserted"
  /\ versions' = versions \cup {<<me.of, me.number, e>>}
  /\ content' = [content EXCEPT ![me.of] = e]
  /\ EditingGoes(e, "done")
  /\ UNCHANGED <<leadStatus, deal, change, site>>

LeadNext ==
  \/ \E c \in Change : ChangeReads(c) \/ ChangeCommits(c)
  \/ \E w \in Site : SiteReads(w) \/ SiteReadsAgain(w) \/ SiteCommits(w) \/ SitePublished(w)
  \/ \E e \in Edit, w \in Site : EditReads(e, w)
  \/ \E e \in Edit : EditInserts(e) \/ EditCommits(e)

LeadSpec == LeadInit /\ [][LeadNext]_leadVars

-----------------------------------------------------------------------------
(* Properties.                                                              *)

LeadTypeOK ==
  /\ leadStatus \in LeadStatus
  /\ deal \in {"NONE", "NEGOTIATING", "WON", "LOST"}
  /\ change \in [Change -> LeadStatus \cup {"idle"}]
  /\ site \in [Site -> {"none", "moving", "moved", "adding", "DRAFT", "PUBLISHED"}]
  /\ versions \subseteq Site \X (Nat \ {0}) \X (Site \cup Edit)
  /\ content \in [Site -> Site \cup Edit \cup {Unread}]
  /\ editing \in [Edit -> [pc : {"idle", "read", "again", "inserted", "failed", "done"},
                        of : Site \cup {Unread}, number : Nat, tries : 0..MaxNumberTries]]

\* Edits that overlap leave versions numbered from 1 without a gap and without
\* a number used twice, and the project shows what the last of them wrote
\* (website.service.ts createNewWebsiteVersion).
CurrentIsLatest ==
  \A w \in Site :
    LET own == {v \in versions : v[1] = w} IN
    own # {} =>
      /\ Numbers(w) = 1..Cardinality(own)
      /\ <<w, Latest(w), content[w]>> \in own
=============================================================================
