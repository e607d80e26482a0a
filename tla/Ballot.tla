------------------------------- MODULE Ballot -------------------------------
(***************************************************************************)
(* Casting ticket votes on one record whose vote has been started           *)
(* (plugins/ticketvote).  A ballot holds the record lock and casts its      *)
(* votes in batches, a goroutine per vote: the vote is saved to the tree of *)
(* the record, then a collider that only one vote of a ticket can save,     *)
(* then the vote is added to the active votes cache.  The vote that counts  *)
(* is the one that precedes the collider.  Summaries are read without the   *)
(* record lock; the first one after the end of the vote is cached for good. *)
(***************************************************************************)
EXTENDS Naturals, Sequences, FiniteSets

CONSTANTS
  Tickets,     \* the tickets that are eligible to vote
  Bits,        \* the vote options
  NoBit,       \* no vote
  Readers,     \* concurrent requests for the vote summary
  BatchSize,   \* the number of votes that are cast concurrently
  MaxBallots,  \* bound: the number of ballots
  MaxTime,     \* bound: the seconds that pass
  MaxFaults,   \* bound: failed saves, failed ballots and restarts of politeiad
  Timely,      \* TRUE: trillian integrates all queued leaves between two ballots
  Distinct     \* TRUE: a ballot names a ticket at most once

ASSUME ConstantsAssumption ==
  /\ NoBit \notin Bits
  /\ BatchSize \in Nat \ {0} /\ MaxBallots \in Nat /\ MaxTime \in Nat
  /\ MaxFaults \in Nat
  /\ Timely \in BOOLEAN /\ Distinct \in BOOLEAN

VARIABLES
  leaves,   \* the vote and collider leaves of the record's tree, in order
  queue,    \* leaves that trillian accepted but has not integrated
  ended,    \* whether the best block has reached the end of the vote
  active,   \* the entry of the record in the active votes cache
  summary,  \* the cached vote summary
  ballot,   \* the ballot that holds the record lock
  reader,   \* the summary requests
  clock,    \* the unix time, in seconds, that votes are stamped with
  ballots, faults,
  acked     \* history: the votes whose receipt was returned

vars == <<leaves, queue, ended, active, summary, ballot, reader, clock, ballots,
          faults, acked>>

-----------------------------------------------------------------------------
(* Data. *)

castVoteDetails(v) ==
  [desc |-> "vote", ticket |-> v.ticket, bit |-> v.bit, time |-> clock]

voteCollider(v) == [desc |-> "collider", ticket |-> v.ticket, bit |-> NoBit, time |-> 0]

Leaf == [desc : {"vote", "collider"}, ticket : Tickets, bit : Bits \cup {NoBit}, time : Nat]

\* The votes of a ballot with the step that their goroutine is at, and the replies.
BallotT ==
  [pc : {"idle", "validate", "addrs", "cast"},
   votes : Seq([ticket : Tickets, bit : Bits,
                pc : {"details", "collider", "cache", "done", "skipped"}]),
   replies : [Tickets -> Bits \cup {NoBit}]]

NoVotes == [t \in Tickets |-> NoBit]
NotActive == [present |-> FALSE, castVotes |-> NoVotes]
Tally == [Bits -> 0..Cardinality(Tickets)]
NoSummary == << >>
NoBallot == [pc |-> "idle", votes |-> << >>, replies |-> NoVotes]
NoRequest == [pc |-> "idle", tally |-> NoSummary]

\* The record has been made public and its vote started.
Init ==
  /\ leaves = << >> /\ queue = {}
  /\ ended = FALSE
  /\ active = [present |-> TRUE, castVotes |-> NoVotes]
  /\ summary = NoSummary
  /\ ballot = NoBallot
  /\ reader = [r \in Readers |-> NoRequest]
  /\ clock = 0 /\ ballots = 0 /\ faults = 0
  /\ acked = {}

-----------------------------------------------------------------------------
(* The votes in the tree. *)

InTree(l) == \E i \in DOMAIN leaves : leaves[i] = l

IsVote(ls, i, t) == ls[i].desc = "vote" /\ ls[i].ticket = t
IsCollider(ls, i, t) == ls[i].desc = "collider" /\ ls[i].ticket = t

\* Mutant: the last vote of a ticket that has a collider counts.
CountsLast(ls, i) ==
  /\ ls[i].desc = "vote"
  /\ \E c \in DOMAIN ls : IsCollider(ls, c, ls[i].ticket)
  /\ \A k \in DOMAIN ls : IsVote(ls, k, ls[i].ticket) => k <= i

\* Leaf i counts: the ticket has a collider, and the vote is its only one or the
\* last one before the collider.
Counts(ls, i) ==
  /\ ls[i].desc = "vote"
  /\ \E c \in DOMAIN ls :
       /\ IsCollider(ls, c, ls[i].ticket)
       /\ \/ \A k \in DOMAIN ls : IsVote(ls, k, ls[i].ticket) => k = i
          \/ /\ i < c
             /\ \A k \in DOMAIN ls : IsVote(ls, k, ls[i].ticket) /\ k < c => k <= i

voteResults(ls) ==
  {<<ls[i].ticket, ls[i].bit>> : i \in {k \in DOMAIN ls : Counts(ls, k)}}

\* The number of votes for each option: in the tree, and in the cache.
tallyResults == [b \in Bits |-> Cardinality({v \in voteResults(leaves) : v[2] = b})]
tallyCache == [b \in Bits |-> Cardinality({t \in Tickets : active.castVotes[t] = b})]

-----------------------------------------------------------------------------
(* cmdCastBallot. *)

\* The vote must be in the cache and not have ended; otherwise every vote of the
\* ballot gets an error.  Votes with an invalid token, vote bit, ticket, address or
\* signature get an error too: they are left out of the ballot.
cmdCastBallot(votes) ==
  /\ ballot.pc = "idle" /\ ballots < MaxBallots
  /\ Timely => queue = {}
  /\ active.present /\ ~ended
  /\ ballot' = [pc |-> "validate", replies |-> NoVotes,
                votes |-> [i \in DOMAIN votes |->
                             [ticket |-> votes[i][1], bit |-> votes[i][2], pc |-> "details"]]]
  /\ ballots' = ballots + 1
  /\ UNCHANGED <<leaves, queue, ended, active, summary, reader, clock, faults, acked>>

\* A vote is skipped, with an error, if the ticket has voted.  A summary request may
\* have removed the vote from the cache in the meantime: then all votes are.
VoteIsDuplicate(t) == ~active.present \/ active.castVotes[t] # NoBit

Validate ==
  /\ ballot.pc = "validate"
  /\ ballot' = [ballot EXCEPT !.pc = "addrs",
                  !.votes = [i \in DOMAIN @ |->
                               IF VoteIsDuplicate(@[i].ticket)
                                 THEN [@[i] EXCEPT !.pc = "skipped"] ELSE @[i]]]
  /\ UNCHANGED <<leaves, queue, ended, active, summary, reader, clock, ballots, faults, acked>>

\* The votes that have passed the validation.
Cast == {i \in DOMAIN ballot.votes : ballot.votes[i].pc # "skipped"}

\* The commitment addresses are taken from the cache or fetched.  If the vote is not
\* in the cache any more, the fetched addresses are assigned to a nil map: a panic.
CommitmentAddrs ==
  /\ ballot.pc = "addrs"
  /\ ballot' = IF active.present \/ Cast = {} THEN [ballot EXCEPT !.pc = "cast"] ELSE NoBallot
  /\ UNCHANGED <<leaves, queue, ended, active, summary, reader, clock, ballots, faults, acked>>

\* dcrdata does not answer, and the ballot as a whole fails.
BallotError ==
  /\ ballot.pc = "addrs" /\ faults < MaxFaults
  /\ ballot' = NoBallot
  /\ faults' = faults + 1
  /\ UNCHANGED <<leaves, queue, ended, active, summary, reader, clock, ballots, acked>>

-----------------------------------------------------------------------------
(* The goroutine that casts vote i of the ballot. *)

\* Batches are cast one after the other.
Batch(i) == Cardinality({k \in Cast : k < i}) \div BatchSize

At(i, step) ==
  /\ ballot.pc = "cast"
  /\ i \in DOMAIN ballot.votes /\ ballot.votes[i].pc = step
  /\ \A k \in Cast : Batch(k) < Batch(i) => ballot.votes[k].pc = "done"

Goto(i, step) == ballot' = [ballot EXCEPT !.votes[i].pc = step]
Reply(i, bit) == ballot' = [ballot EXCEPT !.votes[i].pc = "done",
                                          !.replies[ballot.votes[i].ticket] = bit]

\* The leaf is appended; a leaf that is in the tree is reported as a duplicate, and
\* one that is queued when it has been integrated.
BlobSave(l) ==
  /\ l \notin queue
  /\ leaves' = IF InTree(l) THEN leaves ELSE Append(leaves, l)

\* Mutant: an error is taken for an earlier attempt.
castVoteDetailsSaveIgnore(i) ==
  /\ At(i, "details")
  /\ Goto(i, "collider")
  /\ UNCHANGED <<leaves, queue, ended, active, summary, reader, clock, ballots, faults, acked>>

\* A duplicate is from an earlier attempt, which this one takes up.
castVoteDetailsSave(i) ==
  /\ At(i, "details")
  /\ BlobSave(castVoteDetails(ballot.votes[i]))
  /\ Goto(i, "collider")
  /\ UNCHANGED <<queue, ended, active, summary, reader, clock, ballots, faults, acked>>

\* Mutant: a duplicate collider is taken for that of an earlier attempt.
voteColliderSaveRetry(i) ==
  /\ At(i, "collider")
  /\ BlobSave(voteCollider(ballot.votes[i]))
  /\ Goto(i, "cache")
  /\ UNCHANGED <<queue, ended, active, summary, reader, clock, ballots, faults, acked>>

\* A duplicate means that another vote of the ticket has got the collider.
voteColliderSave(i) ==
  /\ At(i, "collider")
  /\ BlobSave(voteCollider(ballot.votes[i]))
  /\ IF InTree(voteCollider(ballot.votes[i])) THEN Reply(i, NoBit) ELSE Goto(i, "cache")
  /\ UNCHANGED <<queue, ended, active, summary, reader, clock, ballots, faults, acked>>

\* The vote may have been removed from the cache in the meantime.
AddCastVote(i) ==
  LET v == ballot.votes[i] IN
  /\ At(i, "cache")
  /\ active' = IF active.present THEN [active EXCEPT !.castVotes[v.ticket] = v.bit] ELSE active
  /\ Reply(i, v.bit)
  /\ UNCHANGED <<leaves, queue, ended, summary, reader, clock, ballots, faults, acked>>

\* The leaf that goroutine i may already have handed to trillian.
InFlight(i) ==
  {l \in {castVoteDetails(ballot.votes[i]), voteCollider(ballot.votes[i])} :
     /\ At(i, IF l.desc = "vote" THEN "details" ELSE "collider")
     /\ ~InTree(l)}

\* A save fails or times out; the leaf may be queued all the same.
CastError(i) ==
  /\ At(i, "details") \/ At(i, "collider")
  /\ faults < MaxFaults
  /\ \E q \in SUBSET InFlight(i) : queue' = queue \cup q
  /\ Reply(i, NoBit)
  /\ faults' = faults + 1
  /\ UNCHANGED <<leaves, ended, active, summary, reader, clock, ballots, acked>>

\* All votes are cast, and the receipts are returned.
BallotDone ==
  /\ ballot.pc = "cast"
  /\ \A i \in Cast : ballot.votes[i].pc = "done"
  /\ acked' = acked \cup {<<t, ballot.replies[t]>> :
                            t \in {u \in Tickets : ballot.replies[u] # NoBit}}
  /\ ballot' = NoBallot
  /\ UNCHANGED <<leaves, queue, ended, active, summary, reader, clock, ballots, faults>>

-----------------------------------------------------------------------------
(* summary. *)

\* Only the summary of a vote that has ended, and that is not cached, is saved.
SummaryGet(r) ==
  /\ reader[r].pc = "idle" /\ ended /\ summary = NoSummary
  /\ reader' = [reader EXCEPT ![r].pc = "tally"]
  /\ UNCHANGED <<leaves, queue, ended, active, summary, ballot, clock, ballots, faults, acked>>

\* The cached votes are used if there are any.
SummaryTally(r) ==
  /\ reader[r].pc = "tally"
  /\ reader' = [reader EXCEPT ![r] =
                  IF active.castVotes # NoVotes THEN [pc |-> "save", tally |-> tallyCache]
                                                ELSE [pc |-> "results", tally |-> NoSummary]]
  /\ UNCHANGED <<leaves, queue, ended, active, summary, ballot, clock, ballots, faults, acked>>

SummaryResults(r) ==
  /\ reader[r].pc = "results"
  /\ reader' = [reader EXCEPT ![r] = [pc |-> "save", tally |-> tallyResults]]
  /\ UNCHANGED <<leaves, queue, ended, active, summary, ballot, clock, ballots, faults, acked>>

SummarySave(r) ==
  /\ reader[r].pc = "save"
  /\ summary' = reader[r].tally
  /\ reader' = [reader EXCEPT ![r].pc = "del"]
  /\ UNCHANGED <<leaves, queue, ended, active, ballot, clock, ballots, faults, acked>>

SummaryDel(r) ==
  /\ reader[r].pc = "del"
  /\ active' = NotActive
  /\ reader' = [reader EXCEPT ![r] = NoRequest]
  /\ UNCHANGED <<leaves, queue, ended, summary, ballot, clock, ballots, faults, acked>>

-----------------------------------------------------------------------------
(* The environment. *)

\* The best block reaches the end height of the vote.
VoteEnds ==
  /\ ~ended /\ ended' = TRUE
  /\ UNCHANGED <<leaves, queue, active, summary, ballot, reader, clock, ballots, faults, acked>>

\* Votes carry the second in which they are cast.
Tick ==
  /\ clock < MaxTime /\ clock' = clock + 1
  /\ UNCHANGED <<leaves, queue, ended, active, summary, ballot, reader, ballots, faults, acked>>

\* The trillian signer integrates a queued leaf.
Integrate ==
  \E l \in queue :
    /\ leaves' = Append(leaves, l)
    /\ queue' = queue \ {l}
    /\ UNCHANGED <<ended, active, summary, ballot, reader, clock, ballots, faults, acked>>

\* Mutant: votes without a collider are put into the cache.
SetupAllVotes ==
  LET bits(t) == {leaves[i].bit : i \in {k \in DOMAIN leaves : IsVote(leaves, k, t)}} IN
  IF ended THEN NotActive ELSE
  [present |-> TRUE,
   castVotes |-> [t \in Tickets |-> IF bits(t) = {} THEN NoBit ELSE CHOOSE b \in bits(t) : TRUE]]

\* The cache is rebuilt from the results in the tree if the vote is still going on.
Setup ==
  IF ended THEN NotActive
  ELSE [present |-> TRUE,
        castVotes |-> [t \in Tickets |->
                         IF \E b \in Bits : <<t, b>> \in voteResults(leaves)
                           THEN CHOOSE b \in Bits : <<t, b>> \in voteResults(leaves)
                           ELSE NoBit]]

Restart ==
  /\ faults < MaxFaults
  /\ \E q \in SUBSET UNION {InFlight(i) : i \in DOMAIN ballot.votes} : queue' = queue \cup q
  /\ active' = Setup
  /\ ballot' = NoBallot
  /\ reader' = [r \in Readers |-> NoRequest]
  /\ faults' = faults + 1
  /\ UNCHANGED <<leaves, ended, summary, clock, ballots, acked>>

\* A read that changes nothing, such as cmdResults.
Read == UNCHANGED vars

\* The ballots of up to one vote per ticket, or of up to as many votes.
Ballots ==
  {b \in UNION {[1..n -> Tickets \X Bits] : n \in 1..Cardinality(Tickets)} :
     Distinct => \A i, k \in DOMAIN b : b[i][1] = b[k][1] => i = k}

Goroutine(i) ==
  castVoteDetailsSave(i) \/ voteColliderSave(i) \/ AddCastVote(i) \/ CastError(i)

Next ==
  \/ \E b \in Ballots : cmdCastBallot(b)
  \/ Validate \/ CommitmentAddrs \/ BallotError
  \/ \E i \in DOMAIN ballot.votes : Goroutine(i)
  \/ BallotDone
  \/ \E r \in Readers : \/ SummaryGet(r) \/ SummaryTally(r) \/ SummaryResults(r)
                        \/ SummarySave(r) \/ SummaryDel(r)
  \/ VoteEnds \/ Tick \/ Integrate \/ Restart
  \/ Read

Spec == Init /\ [][Next]_vars

-----------------------------------------------------------------------------
(* Properties. *)

\* Type correctness of the tree, the cache, the ballot and the summary requests.
TypeOK ==
  /\ leaves \in Seq(Leaf) /\ queue \subseteq Leaf
  /\ ended \in BOOLEAN
  /\ active \in [present : BOOLEAN, castVotes : [Tickets -> Bits \cup {NoBit}]]
  /\ summary \in Tally \cup {NoSummary}
  /\ ballot \in BallotT
  /\ reader \in [Readers -> [pc : {"idle", "tally", "results", "save", "del"},
                             tally : Tally \cup {NoSummary}]]
  /\ clock \in 0..MaxTime /\ ballots \in 0..MaxBallots /\ faults \in 0..MaxFaults

\* voteResults fails on two colliders of one ticket, and has no answer if several
\* votes of a ticket all follow its collider (cmds.go:2239-2243, 2283-2294): whatever
\* fails or comes late, a ticket has one collider, and a vote that precedes it.
CollidersAreSound ==
  \A c \in DOMAIN leaves : leaves[c].desc = "collider" =>
    /\ \A k \in DOMAIN leaves : IsCollider(leaves, k, leaves[c].ticket) => k = c
    /\ \E i \in DOMAIN leaves : i < c /\ IsVote(leaves, i, leaves[c].ticket)

\* A vote that counts keeps counting, also if the ticket votes again
\* (voteCollider, cmds.go:1164-1172).
ResultsAreFinal == [][voteResults(leaves) \subseteq voteResults(leaves')]_vars

\* The vote of ticket t for b was followed, within one second, by one for another option:
\* its blob is a duplicate when it is cast again, and is not appended once more.
Overtaken(ls, t, b) ==
  \E i, k \in DOMAIN ls :
    /\ IsVote(ls, i, t) /\ IsVote(ls, k, t) /\ i < k
    /\ ls[i].bit = b /\ ls[k].bit # b /\ ls[i].time = ls[k].time

Counted(ls, t, b) == <<t, b>> \in voteResults(ls) \/ Overtaken(ls, t, b)

\* A ticket for which a receipt was returned counts, with the vote bit it was returned
\* for, in the results in the tree, unless another attempt of that second overtook it.
ReceiptsCount == \A v \in acked : Counted(leaves, v[1], v[2])

\* A vote in the active votes cache, which the tally is taken from and which keeps
\* the ticket from voting again, is the vote that counts in the tree, unless another
\* attempt of that second overtook it.
CachedVotesCount ==
  \A t \in Tickets : active.castVotes[t] # NoBit => Counted(leaves, t, active.castVotes[t])

=============================================================================
