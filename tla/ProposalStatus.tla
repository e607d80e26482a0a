--------------------------- MODULE ProposalStatus ---------------------------
(***************************************************************************)
(* The status of a proposal (plugins/pi).  It combines the record status,   *)
(* the status of the ticket vote, whether the proposal is an RFP, and the   *)
(* billing status changes.  A read takes no lock: it looks the proposal up  *)
(* in a bounded memory cache, fetches what the cached status says may still *)
(* change, one piece after the other, and caches the result, while the      *)
(* proposal goes on.                                                        *)
(***************************************************************************)
EXTENDS ProposalReplies

CONSTANTS
  Tokens,
  BillingStatusChangesMax,
  BillingStatuses,     \* the billing statuses that the admin sets
  CacheLimit,          \* statusesCacheLimit
  Idle,                \* bound: the proposals to which nothing happens
  MaxEdits             \* bound: edits that change whether a proposal is an RFP

ASSUME ConstantsAssumption ==
  /\ BillingStatuses \subseteq {"active", "closed", "completed"}
  /\ Idle \subseteq Tokens /\ BillingStatusChangesMax \in Nat /\ CacheLimit \in Nat \ {0} /\ MaxEdits \in Nat

VARIABLES
  record,   \* of each proposal: its state, its status, and whether it is an RFP
  vote,     \* its ticket vote
  decided,  \* whether ticketvote has cached the summary of the ended vote
  billing,  \* its billing status changes
  data, entries,  \* the cache: the entries, and their tokens from new to old
  edits

proposals == <<record, vote, decided, billing>>
vars == <<proposals, data, entries, read, edits, seen, buried, raced>>

None == "none"
NoData == [status |-> None, record |-> [state |-> None, status |-> None, rfp |-> FALSE],
           vote |-> None, count |-> 0]
NoRead == [step |-> "idle", token |-> None, entry |-> NoData, billing |-> << >>, reply |-> None]

Init ==
  /\ record = [t \in Tokens |-> [state |-> "unvetted", status |-> "unreviewed", rfp |-> FALSE]]
  /\ vote = [t \in Tokens |-> "unauthorized"]
  /\ decided = {}
  /\ billing = [t \in Tokens |-> << >>]
  /\ data = [t \in {} |-> NoData] /\ entries = << >>
  /\ read = [r \in Readers |-> NoRead]
  /\ edits = 0
  /\ seen = [r \in Readers |-> {}]
  /\ buried = {} /\ raced = {}

-----------------------------------------------------------------------------
(* What the backend says. *)

\* The vote summary of ticketvote (see TicketVote).
Ended(t) == vote[t] \in {"approved", "rejected"}
voteSummary(t) ==
  IF t \in decided \/ record[t].status = "public" THEN vote[t] ELSE "ineligible"
Caches(t) == IF record[t].status = "public" /\ Ended(t) THEN {t} ELSE {}

\* What the status is by what the backend holds.
TrueStatus(t) == proposalStatus(record[t], voteSummary(t), billing[t])

-----------------------------------------------------------------------------
(* A read of the status, getProposalStatus. *)

Goto(r, step) == [read[r] EXCEPT !.step = step]
Entry(t) == IF t \in DOMAIN data THEN data[t] ELSE NoData

Begin(r, t) ==
  /\ read[r].step = "idle"
  /\ LET e == Entry(t) IN
     read' = [read EXCEPT ![r] =
       [step |-> IF statusIsFinal(e.status) THEN "reply"
                 ELSE IF statusRequiresRecord(e.status) THEN "record"
                 ELSE "vote",
        token |-> t, entry |-> e, billing |-> << >>, reply |-> e.status]]
  /\ seen' = [seen EXCEPT ![r] = {TrueStatus(t)}]
  /\ UNCHANGED <<proposals, data, entries, edits, buried, raced>>

ReadRest == UNCHANGED <<record, vote, billing, data, entries, edits, seen, buried, raced>>

GetRecord(r) ==
  /\ read[r].step = "record"
  /\ LET rec == record[read[r].token] IN
     read' = [read EXCEPT ![r] =
       [@ EXCEPT !.entry.record = rec,
                 !.step = IF rec.state = "unvetted" THEN "determine" ELSE "vote"]]
  /\ UNCHANGED decided /\ ReadRest

\* The number of billing status changes is at its maximum: nothing can change.
BillingIsFinalEarly(count) == count + 1 >= BillingStatusChangesMax
BillingIsFinal(count) == count >= BillingStatusChangesMax

GetVote(r) ==
  /\ read[r].step = "vote"
  /\ LET t == read[r].token
         e == read[r].entry
         vs == IF voteStatusIsFinal(e.vote) THEN e.vote ELSE voteSummary(t)
     IN
     /\ read' = [read EXCEPT ![r] =
          [@ EXCEPT !.entry.vote = vs,
                    !.step = IF ~statusRequiresBillingStatuses(vs) THEN "determine"
                             ELSE IF BillingIsFinal(e.count) THEN "reply"
                             ELSE "billing"]]
     /\ decided' = IF voteStatusIsFinal(e.vote) THEN decided ELSE decided \cup Caches(t)
  /\ ReadRest

GetBilling(r) ==
  /\ read[r].step = "billing"
  /\ read' = [read EXCEPT ![r] =
       [@ EXCEPT !.billing = billing[read[r].token], !.step = "determine"]]
  /\ UNCHANGED decided /\ ReadRest

set(t, e) ==
  IF t \in DOMAIN data
  THEN /\ data' = IF data[t].status = e.status THEN data ELSE [data EXCEPT ![t] = e]
       /\ UNCHANGED entries
  ELSE LET evicted == IF Len(entries) = CacheLimit THEN {Last(entries)} ELSE {}
           kept == IF evicted = {} THEN entries ELSE Front(entries)
       IN  /\ entries' = <<t>> \o kept
           /\ data' = [u \in (DOMAIN data \ evicted) \cup {t} |-> IF u = t THEN e ELSE data[u]]

\* An error is returned as an empty status.
Determine(r) ==
  /\ read[r].step = "determine"
  /\ LET e == read[r].entry
         s == proposalStatus(e.record, e.vote, read[r].billing)
     IN
     /\ IF s = "error" THEN UNCHANGED <<data, entries>>
        ELSE set(read[r].token, [e EXCEPT !.status = s, !.count = Len(read[r].billing)])
     /\ read' = [read EXCEPT ![r] = [@ EXCEPT !.step = "reply",
                                              !.reply = IF s = "error" THEN "" ELSE s]]
  /\ UNCHANGED <<proposals, edits, seen, buried, raced>>

Reply(r) ==
  /\ read[r].step = "reply"
  /\ read' = [read EXCEPT ![r] = NoRead]
  /\ seen' = [seen EXCEPT ![r] = {}]
  /\ UNCHANGED <<proposals, data, entries, edits, buried, raced>>

-----------------------------------------------------------------------------
(* The proposal goes on. *)

ReadsOf(t) == {r \in Readers : read[r].step # "idle" /\ read[r].token = t}
See(t) == seen' = [r \in Readers |-> seen[r] \cup (IF r \in ReadsOf(t) THEN {TrueStatus(t)'} ELSE {})]
CacheUnchanged == UNCHANGED <<data, entries, read>>

statusChangeIsAllowed(from, to) ==
  \/ from = "unreviewed" /\ to \in {"public", "censored"}
  \/ from = "public" /\ to \in {"censored", "archived"}

RecordSetStatus(t, s) ==
  /\ statusChangeIsAllowed(record[t].status, s)
  /\ record' = [record EXCEPT ![t].status = s,
                              ![t].state = IF s = "public" THEN "vetted" ELSE @]
  /\ buried' = IF vote[t] \in {"started", "approved", "rejected"} THEN buried \cup {t} ELSE buried
  /\ CacheUnchanged /\ UNCHANGED <<vote, decided, billing, edits, raced>>
  /\ See(t)

\* An edit is refused once the vote is authorized (hookEditRecordPre).
RecordEdit(t) ==
  /\ edits < MaxEdits /\ edits' = edits + 1
  /\ record[t].status \in {"unreviewed", "public"}
  /\ record[t].state = "vetted" => voteSummary(t) = "unauthorized"
  /\ record' = [record EXCEPT ![t].rfp = ~@]
  /\ raced' = IF ReadsOf(t) # {} THEN raced \cup {t} ELSE raced
  /\ CacheUnchanged /\ UNCHANGED <<vote, decided, billing, buried>>
  /\ See(t)

VoteChanges(t) ==
  /\ record[t].status = "public"
  /\ \/ vote[t] = "unauthorized" /\ vote' = [vote EXCEPT ![t] = "authorized"]
     \/ vote[t] = "authorized" /\ \E s \in {"unauthorized", "started"} : vote' = [vote EXCEPT ![t] = s]
     \/ vote[t] = "started" /\ \E s \in {"approved", "rejected"} : vote' = [vote EXCEPT ![t] = s]
  /\ CacheUnchanged /\ UNCHANGED <<record, decided, billing, edits, buried, raced>>
  /\ See(t)

cmdSetBillingStatus(t, s) ==
  /\ voteSummary(t) = "approved"
  /\ ~record[t].rfp
  /\ Len(billing[t]) + 1 <= BillingStatusChangesMax
  /\ s # proposalBillingStatus(billing[t])
  /\ billing' = [billing EXCEPT ![t] = Append(@, s)]
  /\ decided' = decided \cup Caches(t)
  /\ CacheUnchanged /\ UNCHANGED <<record, vote, edits, buried, raced>>
  /\ See(t)

Next ==
  \/ \E r \in Readers :
       \/ \E t \in Tokens : Begin(r, t)
       \/ GetRecord(r) \/ GetVote(r) \/ GetBilling(r) \/ Determine(r) \/ Reply(r)
  \/ \E t \in Tokens \ Idle :
       \/ \E s \in {"public", "archived", "censored"} : RecordSetStatus(t, s)
       \/ RecordEdit(t) \/ VoteChanges(t)
       \/ \E s \in BillingStatuses : cmdSetBillingStatus(t, s)

Spec == Init /\ [][Next]_vars

=============================================================================
