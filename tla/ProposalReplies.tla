-------------------------- MODULE ProposalReplies --------------------------
(***************************************************************************)
(* The statuses of proposals (plugins/pi/proposalstatus.go), and what a     *)
(* reply with a status promises.  How a status is read, while the proposal  *)
(* changes, is in module ProposalStatus.                                    *)
(***************************************************************************)
EXTENDS Integers, Sequences, FiniteSets, SequencesExt

CONSTANT Readers

VARIABLES
  read,     \* the reads in progress
  seen,     \* history: the statuses that the proposal has had during a read
  buried,   \* history: proposals that were archived or censored once the vote had started
  raced     \* history: proposals that were edited during a read

-----------------------------------------------------------------------------
(* The status. *)

proposalBillingStatus(bscs) == IF bscs = << >> THEN "active" ELSE Last(bscs)

\* Combinations that are not foreseen are an error.
proposalStatus(rec, vs, bscs) ==
  CASE rec.state = "unvetted" /\ rec.status = "unreviewed" -> "unvetted"
    [] rec.state = "unvetted" /\ rec.status = "censored"   -> "unvettedCensored"
    [] rec.state = "vetted" /\ rec.status = "archived"     -> "abandoned"
    [] rec.state = "vetted" /\ rec.status = "censored"     -> "censored"
    [] rec.state = "vetted" /\ rec.status = "public"       ->
         (CASE vs = "unauthorized" -> "underReview"
            [] vs = "authorized"   -> "voteAuthorized"
            [] vs = "started"      -> "voteStarted"
            [] vs = "rejected"     -> "rejected"
            [] vs = "approved"     -> IF rec.rfp THEN "approved" ELSE proposalBillingStatus(bscs)
            [] OTHER               -> "error")
    [] OTHER -> "error"

statusIsFinal(s) ==
  s \in {"unvettedCensored", "abandoned", "censored", "approved", "rejected"}

statusRequiresRecord(s) ==
  ~statusIsFinal(s) /\ s \notin {"voteStarted", "active", "completed", "closed"}

statusRequiresBillingStatuses(vs) ==
  vs \notin {"unauthorized", "authorized", "started", "finished", "rejected", "ineligible"}

voteStatusIsFinal(vs) == vs \in {"ineligible", "finished", "rejected", "approved"}

-----------------------------------------------------------------------------
(* Property *)

\* The status that cmdSummary replies is one that the proposal has had since the
\* request came, unless the record was archived or censored once the vote had
\* started, or edited during a read, which the cache does not see.
\* A status that could not be determined is replied as empty when the record
\* changed during the read.
RepliesWereTrue ==
  \A r \in Readers : read[r].step = "reply" /\ read[r].token \notin buried \cup raced =>
    \/ read[r].reply \in seen[r]
    \/ read[r].reply = "" /\ Cardinality(seen[r]) > 1

=============================================================================
