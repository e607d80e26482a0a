--------------------------- MODULE Ballot_proofs ---------------------------
(***************************************************************************)
(* Proofs about Ballot, for any tickets and vote options, any number of     *)
(* ballots, faults and summary requests, ballots that repeat a ticket, and  *)
(* leaves that are integrated arbitrarily late.                             *)
(***************************************************************************)
EXTENDS Ballot, WellFoundedInduction, TLAPS

-----------------------------------------------------------------------------
(* The inductive invariant. *)

HasVote(t) == \E i \in DOMAIN leaves : IsVote(leaves, i, t)

\* Trillian keeps no leaf twice, and a collider is determined by its ticket.
ColliderForm(l) == l.desc = "collider" => l.bit = NoBit /\ l.time = 0
TreeInv ==
  /\ leaves \in Seq(Leaf)
  /\ \A i, k \in DOMAIN leaves : leaves[i] = leaves[k] => i = k
  /\ \A i \in DOMAIN leaves : ColliderForm(leaves[i])

\* A collider follows a vote of its ticket.
OrderInv ==
  \A c \in DOMAIN leaves : leaves[c].desc = "collider" =>
    \E i \in DOMAIN leaves : i < c /\ IsVote(leaves, i, leaves[c].ticket)

\* What may still be integrated is new to the tree, and keeps the order.
MayFollow(l) ==
  /\ l \in Leaf /\ ColliderForm(l)
  /\ l.desc = "collider" => HasVote(l.ticket)
QueueInv == \A l \in queue : MayFollow(l) /\ ~InTree(l)

\* A goroutine saves the collider after its vote is in the tree.
BallotInv ==
  /\ ballot \in BallotT /\ clock \in Nat
  /\ \A i \in DOMAIN ballot.votes :
       ballot.votes[i].pc \in {"collider", "cache"} => HasVote(ballot.votes[i].ticket)

BInv == TreeInv /\ OrderInv /\ QueueInv /\ BallotInv

-----------------------------------------------------------------------------
(* The tree. *)

\* Votes stay votes when a leaf is appended.
LEMMA VotesStay ==
  ASSUME TreeInv, NEW l, leaves' = Append(leaves, l), NEW t
  PROVE  HasVote(t) => HasVote(t)'
<1>1. \A i \in DOMAIN leaves : i \in DOMAIN leaves' /\ leaves'[i] = leaves[i]
  BY DEF TreeInv
<1> QED
  BY <1>1 DEF HasVote, IsVote

\* A new leaf that may follow keeps the invariant of the tree.
LEMMA AppendKeepsTree ==
  ASSUME TreeInv, OrderInv, NEW l, MayFollow(l), ~InTree(l), leaves' = Append(leaves, l)
  PROVE  TreeInv' /\ OrderInv'
<1> DEFINE n == Len(leaves)
<1>1. n \in Nat /\ DOMAIN leaves = 1..n /\ DOMAIN leaves' = 1..(n + 1)
  BY DEF TreeInv
<1>2. /\ \A i \in 1..n : leaves'[i] = leaves[i]
      /\ leaves'[n + 1] = l
  BY DEF TreeInv
<1>3. leaves' \in Seq(Leaf)
  BY DEF TreeInv, MayFollow
<1>4. \A i, k \in DOMAIN leaves' : leaves'[i] = leaves'[k] => i = k
  BY <1>1, <1>2 DEF TreeInv, InTree
<1>5. \A i \in DOMAIN leaves' : ColliderForm(leaves'[i])
  BY <1>1, <1>2 DEF TreeInv, MayFollow
<1>6. OrderInv'
  <2> SUFFICES ASSUME NEW c \in 1..(n + 1), leaves'[c].desc = "collider"
               PROVE  \E i \in 1..(n + 1) : i < c /\ IsVote(leaves', i, leaves'[c].ticket)
    BY <1>1 DEF OrderInv, IsVote
  <2>1. CASE c \in 1..n
    <3>1. PICK i \in 1..n : i < c /\ IsVote(leaves, i, leaves[c].ticket)
      BY <2>1, <1>1, <1>2 DEF OrderInv
    <3> QED
      BY <3>1, <2>1, <1>1, <1>2 DEF IsVote
  <2>2. CASE c = n + 1
    <3>1. PICK i \in 1..n : IsVote(leaves, i, l.ticket)
      BY <2>2, <1>1, <1>2 DEF MayFollow, HasVote
    <3> QED
      BY <3>1, <2>2, <1>1, <1>2 DEF IsVote
  <2> QED
    BY <2>1, <2>2, <1>1
<1> QED
  BY <1>3, <1>4, <1>5, <1>6 DEF TreeInv

\* BlobSave keeps the invariants of tree and queue.
LEMMA BlobSaveKeeps ==
  ASSUME TreeInv, OrderInv, QueueInv, NEW l, MayFollow(l), BlobSave(l), queue' = queue
  PROVE  /\ TreeInv' /\ OrderInv' /\ QueueInv'
         /\ \A t : HasVote(t) => HasVote(t)'
         /\ l.desc = "vote" => HasVote(l.ticket)'
<1>1. CASE InTree(l)
  <2>1. leaves' = leaves
    BY <1>1 DEF BlobSave
  <2>2. l.desc = "vote" => HasVote(l.ticket)
    BY <1>1 DEF InTree, HasVote, IsVote
  <2> QED
    BY <2>1, <2>2 DEF TreeInv, OrderInv, QueueInv, MayFollow, HasVote, IsVote, InTree
<1>2. CASE ~InTree(l)
  <2>1. leaves' = Append(leaves, l) /\ l \notin queue
    BY <1>2 DEF BlobSave
  <2>2. TreeInv' /\ OrderInv'
    BY <1>2, <2>1, AppendKeepsTree
  <2>3. \A t : HasVote(t) => HasVote(t)'
    BY <2>1, VotesStay
  <2>4. /\ Len(leaves) \in Nat
        /\ DOMAIN leaves' = 1..(Len(leaves) + 1) /\ DOMAIN leaves = 1..Len(leaves)
        /\ leaves'[Len(leaves) + 1] = l
        /\ \A i \in DOMAIN leaves : leaves'[i] = leaves[i]
    BY <2>1 DEF TreeInv
  <2>5. l.desc = "vote" => HasVote(l.ticket)'
    BY <2>4 DEF HasVote, IsVote
  <2>6. QueueInv'
    BY <2>1, <2>3, <2>4 DEF QueueInv, MayFollow, InTree
  <2> QED
    BY <2>2, <2>3, <2>5, <2>6
<1> QED
  BY <1>1, <1>2

\* Nothing but the tree and the queue matters to the first three parts.
LEMMA TreeUnchanged ==
  ASSUME BInv, UNCHANGED leaves, queue' \subseteq queue
  PROVE  TreeInv' /\ OrderInv' /\ QueueInv' /\ \A t : HasVote(t) => HasVote(t)'
BY DEF BInv, TreeInv, OrderInv, QueueInv, MayFollow, HasVote, IsVote, InTree

-----------------------------------------------------------------------------
(* The steps. *)

\* The invariant holds initially.
LEMMA InitInv == Init => BInv
<1> SUFFICES ASSUME Init PROVE BInv
  OBVIOUS
<1>1. NoBallot \in BallotT
  BY DEF NoBallot, BallotT, NoVotes
<1>2. TreeInv /\ OrderInv /\ QueueInv
  BY DEF Init, TreeInv, OrderInv, QueueInv
<1>3. BallotInv
  BY <1>1 DEF Init, BallotInv, NoBallot
<1> QED
  BY <1>2, <1>3 DEF BInv

\* A ballot starts with all votes before their first step.
LEMMA BallotBeginStep ==
  ASSUME BInv, NEW b \in Ballots, cmdCastBallot(b) PROVE BInv'
<1>1. PICK n \in Nat : b \in [1..n -> Tickets \X Bits]
  BY DEF Ballots
<1>2. UNCHANGED <<leaves, queue>> /\ clock' \in Nat
  BY DEF cmdCastBallot, BInv, BallotInv
<1>3. ballot' \in BallotT
  <2> DEFINE vs == [i \in DOMAIN b |-> [ticket |-> b[i][1], bit |-> b[i][2], pc |-> "details"]]
  <2>1. vs \in Seq([ticket : Tickets, bit : Bits,
                    pc : {"details", "collider", "cache", "done", "skipped"}])
    BY <1>1
  <2>2. ballot' = [pc |-> "validate", replies |-> NoVotes, votes |-> vs]
    BY DEF cmdCastBallot
  <2>3. NoVotes \in [Tickets -> Bits \cup {NoBit}]
    BY DEF NoVotes
  <2> HIDE DEF vs
  <2> QED
    BY <2>1, <2>2, <2>3 DEF BallotT
<1>4. \A i \in DOMAIN ballot'.votes : ballot'.votes[i].pc = "details"
  BY DEF cmdCastBallot
<1> QED
  BY <1>2, <1>3, <1>4, TreeUnchanged DEF BInv, BallotInv

VoteT ==
  [ticket : Tickets, bit : Bits, pc : {"details", "collider", "cache", "done", "skipped"}]

\* A vote of a ballot whose goroutine takes a step keeps its ticket.
LEMMA VoteSteps ==
  ASSUME NEW v \in VoteT, NEW p \in {"details", "collider", "cache", "done", "skipped"}
  PROVE  /\ [v EXCEPT !.pc = p] \in VoteT
         /\ [v EXCEPT !.pc = p].ticket = v.ticket
         /\ [v EXCEPT !.pc = p].pc = p
BY DEF VoteT

\* The validation only makes goroutines skip.
LEMMA ValidateStep == BInv /\ Validate => BInv'
<1> SUFFICES ASSUME BInv, Validate PROVE BInv'
  OBVIOUS
<1>1. UNCHANGED <<leaves, queue, clock>>
  BY DEF Validate
<1>2. ballot.votes \in Seq(VoteT) /\ ballot \in BallotT
  BY DEF BInv, BallotInv, BallotT, VoteT
<1> DEFINE vs == [i \in DOMAIN ballot.votes |->
                    IF VoteIsDuplicate(ballot.votes[i].ticket)
                      THEN [ballot.votes[i] EXCEPT !.pc = "skipped"] ELSE ballot.votes[i]]
<1>3. ballot' = [ballot EXCEPT !.pc = "addrs", !.votes = vs]
  BY <1>2 DEF Validate, BallotT
<1>4. vs \in Seq(VoteT)
  <2>2. ASSUME NEW i \in DOMAIN ballot.votes PROVE vs[i] \in VoteT
    <3> DEFINE v == ballot.votes[i]
    <3>1. v \in VoteT
      BY <1>2
    <3>2. vs[i] = IF VoteIsDuplicate(v.ticket) THEN [v EXCEPT !.pc = "skipped"] ELSE v
      OBVIOUS
    <3>3. [v EXCEPT !.pc = "skipped"] \in VoteT
      BY <3>1, VoteSteps
    <3> QED
      BY <3>1, <3>2, <3>3
  <2>3. DOMAIN vs = 1..Len(ballot.votes) /\ Len(ballot.votes) \in Nat /\ DOMAIN vs = DOMAIN ballot.votes
    BY <1>2
  <2>4. vs = [i \in 1..Len(ballot.votes) |-> vs[i]]
    BY <2>3
  <2> HIDE DEF vs
  <2> QED
    BY <2>2, <2>3, <2>4
<1>5. \A i \in DOMAIN vs : /\ i \in DOMAIN ballot.votes
                           /\ vs[i].pc \in {"collider", "cache"} => vs[i] = ballot.votes[i]
  BY <1>2
<1> HIDE DEF vs
<1>6. ballot' \in BallotT /\ ballot'.votes = vs
  BY <1>2, <1>3, <1>4 DEF BallotT, VoteT
<1>7. BallotInv'
  BY <1>1, <1>5, <1>6, TreeUnchanged DEF BInv, BallotInv
<1> QED
  BY <1>1, <1>7, TreeUnchanged DEF BInv

\* A ballot that ends, or only goes on to the goroutines, promises nothing new.
LEMMA BallotEndStep ==
  ASSUME BInv, UNCHANGED <<leaves, queue>>, clock' \in Nat,
         ballot' \in {NoBallot, [ballot EXCEPT !.pc = "cast"], ballot}
  PROVE  BInv'
<1>1. NoBallot \in BallotT /\ NoBallot.votes = << >>
  BY DEF NoBallot, BallotT, NoVotes
<1>2. ballot' \in BallotT /\ ballot'.votes \in {<< >>, ballot.votes}
  BY <1>1 DEF BInv, BallotInv, BallotT
<1>3. BallotInv'
  BY <1>2, TreeUnchanged DEF BInv, BallotInv
<1> QED
  BY <1>3, TreeUnchanged DEF BInv

\* What a step of goroutine i leaves alone, and that it keeps the type of the ballot.
VoteMoves(i, p) ==
  /\ ballot' \in BallotT
  /\ DOMAIN ballot'.votes = DOMAIN ballot.votes
  /\ \A k \in DOMAIN ballot.votes :
       /\ ballot'.votes[k].ticket = ballot.votes[k].ticket
       /\ ballot'.votes[k].pc = IF k = i THEN p ELSE ballot.votes[k].pc

\* The votes of a ballot.
LEMMA BallotVotes == ASSUME ballot \in BallotT PROVE ballot.votes \in Seq(VoteT)
BY DEF BallotT, VoteT

\* The sequence of votes after a step of goroutine i.
LEMMA VotesAfter ==
  ASSUME NEW bs \in Seq(VoteT), NEW i \in DOMAIN bs, NEW w \in VoteT, w.ticket = bs[i].ticket
  PROVE  /\ [bs EXCEPT ![i] = w] \in Seq(VoteT)
         /\ DOMAIN [bs EXCEPT ![i] = w] = DOMAIN bs
         /\ \A k \in DOMAIN bs :
              /\ [bs EXCEPT ![i] = w][k].ticket = bs[k].ticket
              /\ [bs EXCEPT ![i] = w][k].pc = IF k = i THEN w.pc ELSE bs[k].pc
OBVIOUS

\* A goroutine that goes on.
LEMMA GotoMoves ==
  ASSUME ballot \in BallotT, NEW i \in DOMAIN ballot.votes,
         NEW p \in {"details", "collider", "cache", "done", "skipped"}, Goto(i, p)
  PROVE  VoteMoves(i, p)
<1> DEFINE vs == [ballot.votes EXCEPT ![i] = [ballot.votes[i] EXCEPT !.pc = p]]
<1>1. ballot' = [ballot EXCEPT !.votes = vs]
  BY DEF Goto
<1>2. /\ vs \in Seq(VoteT)
      /\ DOMAIN vs = DOMAIN ballot.votes
      /\ \A k \in DOMAIN ballot.votes :
           /\ vs[k].ticket = ballot.votes[k].ticket
           /\ vs[k].pc = IF k = i THEN p ELSE ballot.votes[k].pc
  <2> DEFINE bs == ballot.votes
             w == [bs[i] EXCEPT !.pc = p]
  <2>1. bs \in Seq(VoteT) /\ bs[i] \in VoteT
    BY BallotVotes
  <2>2. w \in VoteT /\ w.ticket = bs[i].ticket /\ w.pc = p
    BY <2>1, VoteSteps
  <2>3. vs = [bs EXCEPT ![i] = w]
    OBVIOUS
  <2> HIDE DEF w, vs
  <2> QED
    BY <2>1, <2>2, <2>3, VotesAfter
<1> HIDE DEF vs
<1>3. ballot' \in BallotT /\ ballot'.votes = vs
  BY <1>1, <1>2 DEF BallotT, VoteT
<1> QED
  BY <1>2, <1>3 DEF VoteMoves

\* A goroutine that ends.
LEMMA ReplyMoves ==
  ASSUME ballot \in BallotT, NEW i \in DOMAIN ballot.votes,
         NEW b \in Bits \cup {NoBit}, Reply(i, b)
  PROVE  VoteMoves(i, "done")
<1> DEFINE vs == [ballot.votes EXCEPT ![i] = [ballot.votes[i] EXCEPT !.pc = "done"]]
           rs == [ballot.replies EXCEPT ![ballot.votes[i].ticket] = b]
<1>1. ballot' = [ballot EXCEPT !.votes = vs, !.replies = rs]
  BY DEF Reply, BallotT
<1>2. /\ vs \in Seq(VoteT)
      /\ DOMAIN vs = DOMAIN ballot.votes
      /\ \A k \in DOMAIN ballot.votes :
           /\ vs[k].ticket = ballot.votes[k].ticket
           /\ vs[k].pc = IF k = i THEN "done" ELSE ballot.votes[k].pc
  <2> DEFINE bs == ballot.votes
             w == [bs[i] EXCEPT !.pc = "done"]
  <2>1. bs \in Seq(VoteT) /\ bs[i] \in VoteT
    BY BallotVotes
  <2>2. w \in VoteT /\ w.ticket = bs[i].ticket /\ w.pc = "done"
    BY <2>1, VoteSteps
  <2>3. vs = [bs EXCEPT ![i] = w]
    OBVIOUS
  <2> HIDE DEF w, vs
  <2> QED
    BY <2>1, <2>2, <2>3, VotesAfter
<1>3. rs \in [Tickets -> Bits \cup {NoBit}]
  BY DEF BallotT
<1> HIDE DEF vs, rs
<1>4. ballot' \in BallotT /\ ballot'.votes = vs
  BY <1>1, <1>2, <1>3 DEF BallotT, VoteT
<1> QED
  BY <1>2, <1>4 DEF VoteMoves

\* A goroutine may go on to the collider if the vote is in the tree, and to the cache
\* from the collider.
LEMMA MoveKeepsBallot ==
  ASSUME BallotInv, NEW i \in DOMAIN ballot.votes,
         NEW p \in {"details", "collider", "cache", "done", "skipped"}, VoteMoves(i, p),
         UNCHANGED clock, \A t : HasVote(t) => HasVote(t)',
         NEW t0, t0 = ballot.votes[i].ticket, p \in {"collider", "cache"} => HasVote(t0)'
  PROVE  BallotInv'
<1>1. ASSUME NEW k \in DOMAIN ballot.votes, ballot'.votes[k].pc \in {"collider", "cache"},
             NEW t, t = ballot.votes[k].ticket
      PROVE  HasVote(t)'
  <2>1. CASE k = i
    BY <1>1, <2>1 DEF VoteMoves
  <2>2. CASE k # i
    BY <1>1, <2>2 DEF VoteMoves, BallotInv
  <2> QED
    BY <2>1, <2>2
<1>2. ASSUME NEW k \in DOMAIN ballot'.votes, ballot'.votes[k].pc \in {"collider", "cache"}
      PROVE  HasVote(ballot.votes[k].ticket)'
  <2>1. k \in DOMAIN ballot.votes /\ ballot'.votes[k].ticket = ballot.votes[k].ticket
    BY <1>2 DEF VoteMoves
  <2>2. PICK t : t = ballot'.votes[k].ticket
    OBVIOUS
  <2>3. HasVote(t)'
    BY <1>1, <1>2, <2>1, <2>2
  <2> QED
    BY <2>2, <2>3 DEF HasVote
<1> QED
  BY <1>2 DEF BallotInv, VoteMoves

\* The leaves that a goroutine saves may follow what is in the tree.
LEMMA SavedLeaves ==
  ASSUME BInv, NEW i \in DOMAIN ballot.votes, NEW v, v = ballot.votes[i]
  PROVE  /\ castVoteDetails(v).desc = "vote" /\ castVoteDetails(v).ticket = v.ticket
         /\ MayFollow(castVoteDetails(v))
         /\ v.pc = "collider" => MayFollow(voteCollider(v)) /\ HasVote(v.ticket)
<1>1. v \in VoteT
  BY BallotVotes DEF BInv, BallotInv
<1>2. castVoteDetails(v) \in Leaf /\ voteCollider(v) \in Leaf
  BY <1>1 DEF castVoteDetails, voteCollider, Leaf, VoteT, BInv, BallotInv
<1>3. v.pc = "collider" => HasVote(v.ticket)
  BY DEF BInv, BallotInv
<1>4. ColliderForm(castVoteDetails(v)) /\ ColliderForm(voteCollider(v))
  BY DEF castVoteDetails, voteCollider, ColliderForm
<1>5. /\ castVoteDetails(v).desc = "vote" /\ castVoteDetails(v).ticket = v.ticket
      /\ voteCollider(v).desc = "collider" /\ voteCollider(v).ticket = v.ticket
  BY DEF castVoteDetails, voteCollider
<1> QED
  BY <1>2, <1>3, <1>4, <1>5 DEF MayFollow

\* The vote is saved.
LEMMA DetailsStep ==
  ASSUME BInv, NEW i \in DOMAIN ballot.votes, castVoteDetailsSave(i) PROVE BInv'
<1>1. PICK v : v = ballot.votes[i]
  OBVIOUS
<1>2. PICK l : l = castVoteDetails(v)
  OBVIOUS
<1>3. BlobSave(l) /\ Goto(i, "collider") /\ queue' = queue /\ UNCHANGED clock
  BY <1>1, <1>2 DEF castVoteDetailsSave
<1>4. MayFollow(l) /\ l.desc = "vote" /\ l.ticket = v.ticket
  BY <1>1, <1>2, SavedLeaves
<1>5. /\ TreeInv' /\ OrderInv' /\ QueueInv' /\ HasVote(v.ticket)'
      /\ \A t : HasVote(t) => HasVote(t)'
  BY <1>3, <1>4, BlobSaveKeeps DEF BInv
<1>6. VoteMoves(i, "collider")
  BY <1>3, GotoMoves DEF BInv, BallotInv
<1>7. PICK t0 : t0 = v.ticket
  OBVIOUS
<1>8. BallotInv'
  BY <1>1, <1>3, <1>5, <1>6, <1>7, MoveKeepsBallot DEF BInv
<1> QED
  BY <1>5, <1>8 DEF BInv

\* The collider is saved, or another vote of the ticket has got it.
LEMMA ColliderStep ==
  ASSUME BInv, NEW i \in DOMAIN ballot.votes, voteColliderSave(i) PROVE BInv'
<1>1. PICK v : v = ballot.votes[i]
  OBVIOUS
<1>2. PICK l : l = voteCollider(v)
  OBVIOUS
<1>3. BlobSave(l) /\ queue' = queue /\ UNCHANGED clock /\ v.pc = "collider"
  BY <1>1, <1>2 DEF voteColliderSave, At
<1>4. MayFollow(l) /\ HasVote(v.ticket)
  BY <1>1, <1>2, <1>3, SavedLeaves
<1>5. /\ TreeInv' /\ OrderInv' /\ QueueInv'
      /\ \A t : HasVote(t) => HasVote(t)'
  BY <1>3, <1>4, BlobSaveKeeps DEF BInv
<1>6. PICK p \in {"cache", "done"} : VoteMoves(i, p)
  <2>1. CASE Reply(i, NoBit)
    BY <2>1, ReplyMoves DEF BInv, BallotInv
  <2>2. CASE Goto(i, "cache")
    BY <2>2, GotoMoves DEF BInv, BallotInv
  <2> QED
    BY <2>1, <2>2 DEF voteColliderSave
<1>7. PICK t0 : t0 = v.ticket
  OBVIOUS
<1>8. HasVote(t0)'
  BY <1>4, <1>5, <1>7
<1>9. BallotInv'
  BY <1>1, <1>3, <1>5, <1>6, <1>7, <1>8, MoveKeepsBallot DEF BInv
<1> QED
  BY <1>5, <1>9 DEF BInv

\* A goroutine that ends without a save.
LEMMA ReplyStep ==
  ASSUME BInv, NEW i \in DOMAIN ballot.votes, NEW b \in Bits \cup {NoBit}, Reply(i, b),
         UNCHANGED <<leaves, clock>>, QueueInv'
  PROVE  BInv'
<1>1. TreeInv' /\ OrderInv' /\ \A t : HasVote(t) => HasVote(t)'
  BY DEF BInv, TreeInv, OrderInv, HasVote, IsVote
<1>2. VoteMoves(i, "done")
  BY ReplyMoves DEF BInv, BallotInv
<1>3. PICK t0 : t0 = ballot.votes[i].ticket
  OBVIOUS
<1>4. BallotInv'
  BY <1>1, <1>2, <1>3, MoveKeepsBallot DEF BInv
<1> QED
  BY <1>1, <1>4 DEF BInv

\* The vote is added to the cache.
LEMMA CacheStep ==
  ASSUME BInv, NEW i \in DOMAIN ballot.votes, AddCastVote(i) PROVE BInv'
<1>1. PICK b : b = ballot.votes[i].bit
  OBVIOUS
<1>2. Reply(i, b) /\ UNCHANGED <<leaves, queue, clock>>
  BY <1>1 DEF AddCastVote
<1>3. ballot.votes[i] \in VoteT
  BY BallotVotes DEF BInv, BallotInv
<1>4. b \in Bits
  BY <1>1, <1>3 DEF VoteT
<1>5. QueueInv'
  BY <1>2, TreeUnchanged
<1> QED
  BY <1>2, <1>4, <1>5, ReplyStep

\* What goroutines have in flight may be queued.
LEMMA InFlightQueued ==
  ASSUME BInv, UNCHANGED leaves,
         \A l \in queue' : l \in queue \/ \E i \in DOMAIN ballot.votes : l \in InFlight(i)
  PROVE  QueueInv'
<1>1. ASSUME NEW l \in queue' PROVE MayFollow(l) /\ ~InTree(l)
  <2>1. CASE l \in queue
    BY <2>1 DEF BInv, QueueInv
  <2>2. ASSUME NEW i \in DOMAIN ballot.votes, l \in InFlight(i)
        PROVE  MayFollow(l) /\ ~InTree(l)
    <3>1. PICK v : v = ballot.votes[i]
      OBVIOUS
    <3>2. /\ l \in {castVoteDetails(v), voteCollider(v)}
          /\ l.desc # "vote" => v.pc = "collider"
          /\ ~InTree(l)
      BY <2>2, <3>1 DEF InFlight, At
    <3>3. castVoteDetails(v).desc = "vote" /\ voteCollider(v).desc = "collider"
      BY DEF castVoteDetails, voteCollider
    <3>4. CASE l = castVoteDetails(v)
      BY <3>1, <3>2, <3>4, SavedLeaves
    <3>5. CASE l = voteCollider(v)
      BY <3>1, <3>2, <3>3, <3>5, SavedLeaves
    <3> QED
      BY <3>2, <3>4, <3>5
  <2> QED
    BY <1>1, <2>1, <2>2
<1> QED
  BY <1>1 DEF QueueInv, MayFollow, HasVote, IsVote, InTree

\* A save fails.
LEMMA ErrorStep ==
  ASSUME BInv, NEW i \in DOMAIN ballot.votes, CastError(i) PROVE BInv'
<1>1. Reply(i, NoBit) /\ UNCHANGED <<leaves, clock>>
  BY DEF CastError
<1>2. \A l \in queue' : l \in queue \/ l \in InFlight(i)
  BY DEF CastError
<1>3. QueueInv'
  BY <1>1, <1>2, InFlightQueued
<1> QED
  BY <1>1, <1>3, ReplyStep

\* politeiad restarts, and forgets the ballot.
LEMMA RestartStep == ASSUME BInv, Restart PROVE BInv'
<1>1. UNCHANGED <<leaves, clock>> /\ ballot' = NoBallot
  BY DEF Restart
<1>2. \A l \in queue' : l \in queue \/ \E i \in DOMAIN ballot.votes : l \in InFlight(i)
  BY DEF Restart
<1>3. QueueInv'
  BY <1>1, <1>2, InFlightQueued
<1>4. TreeInv' /\ OrderInv'
  BY <1>1 DEF BInv, TreeInv, OrderInv
<1>5. NoBallot \in BallotT /\ NoBallot.votes = << >>
  BY DEF NoBallot, BallotT, NoVotes
<1>6. BallotInv'
  BY <1>1, <1>5 DEF BInv, BallotInv
<1> QED
  BY <1>3, <1>4, <1>6 DEF BInv

\* A queued leaf is integrated, however late.
LEMMA IntegrateStep == ASSUME BInv, Integrate PROVE BInv'
<1>1. PICK l \in queue : leaves' = Append(leaves, l) /\ queue' = queue \ {l}
                        /\ UNCHANGED <<ballot, clock>>
  BY DEF Integrate
<1>2. MayFollow(l) /\ ~InTree(l)
  BY DEF BInv, QueueInv
<1>3. TreeInv' /\ OrderInv'
  BY <1>1, <1>2, AppendKeepsTree DEF BInv
<1>4. \A t : HasVote(t) => HasVote(t)'
  BY <1>1, VotesStay DEF BInv
<1>5. /\ Len(leaves) \in Nat
      /\ DOMAIN leaves' = 1..(Len(leaves) + 1) /\ DOMAIN leaves = 1..Len(leaves)
      /\ leaves'[Len(leaves) + 1] = l
      /\ \A i \in DOMAIN leaves : leaves'[i] = leaves[i]
  BY <1>1 DEF BInv, TreeInv
<1>6. QueueInv'
  BY <1>1, <1>4, <1>5 DEF BInv, QueueInv, MayFollow, InTree
<1>7. BallotInv'
  BY <1>1, <1>4 DEF BInv, BallotInv
<1> QED
  BY <1>3, <1>6, <1>7 DEF BInv

\* Every step keeps the invariant.
LEMMA NextInv == BInv /\ [Next]_vars => BInv'
<1> SUFFICES ASSUME BInv, [Next]_vars PROVE BInv'
  OBVIOUS
<1>1. ASSUME NEW b \in Ballots, cmdCastBallot(b) PROVE BInv'
  BY <1>1, BallotBeginStep
<1>2. CASE Validate
  BY <1>2, ValidateStep
<1>3. CASE CommitmentAddrs \/ BallotError \/ BallotDone
  <2>1. UNCHANGED <<leaves, queue, clock>>
    BY <1>3 DEF CommitmentAddrs, BallotError, BallotDone
  <2>2. ballot' \in {NoBallot, [ballot EXCEPT !.pc = "cast"], ballot}
    BY <1>3 DEF CommitmentAddrs, BallotError, BallotDone
  <2> QED
    BY <2>1, <2>2, BallotEndStep DEF BInv, BallotInv
<1>4. ASSUME NEW i \in DOMAIN ballot.votes, Goroutine(i) PROVE BInv'
  BY <1>4, DetailsStep, ColliderStep, CacheStep, ErrorStep DEF Goroutine
<1>5. ASSUME NEW r \in Readers, \/ SummaryGet(r) \/ SummaryTally(r) \/ SummaryResults(r)
                                \/ SummarySave(r) \/ SummaryDel(r)
      PROVE  BInv'
  <2>1. UNCHANGED <<leaves, queue, clock, ballot>>
    BY <1>5 DEF SummaryGet, SummaryTally, SummaryResults, SummarySave, SummaryDel
  <2> QED
    BY <2>1, BallotEndStep DEF BInv, BallotInv
<1>6. CASE VoteEnds \/ Tick \/ Read \/ UNCHANGED vars
  <2>1. UNCHANGED <<leaves, queue, ballot>> /\ clock' \in Nat
    BY <1>6 DEF VoteEnds, Tick, Read, vars, BInv, BallotInv
  <2> QED
    BY <2>1, BallotEndStep
<1>7. CASE Integrate
  BY <1>7, IntegrateStep
<1>8. CASE Restart
  BY <1>8, RestartStep
<1> QED
  BY <1>1, <1>2, <1>3, <1>4, <1>5, <1>6, <1>7, <1>8 DEF Next

\* The invariant holds in every reachable state.
THEOREM BallotInvariance == Spec => []BInv
BY InitInv, NextInv, PTL DEF Spec

-----------------------------------------------------------------------------
(* What the tree says about votes. *)

\* Whatever fails or is integrated late, and however ballots repeat a ticket, a ticket
\* has at most one collider and a vote before it (voteResults, cmds.go:2239-2294).
THEOREM CollidersSound == Spec => []CollidersAreSound
<1>1. BInv => CollidersAreSound
  <2> SUFFICES ASSUME BInv, NEW c \in DOMAIN leaves, leaves[c].desc = "collider"
               PROVE  /\ \A k \in DOMAIN leaves : IsCollider(leaves, k, leaves[c].ticket) => k = c
                      /\ \E i \in DOMAIN leaves : i < c /\ IsVote(leaves, i, leaves[c].ticket)
    BY DEF CollidersAreSound
  <2>1. ASSUME NEW k \in DOMAIN leaves, IsCollider(leaves, k, leaves[c].ticket) PROVE k = c
    <3>1. leaves[k] \in Leaf /\ leaves[c] \in Leaf
      BY DEF BInv, TreeInv
    <3>2. /\ leaves[k].desc = leaves[c].desc /\ leaves[k].ticket = leaves[c].ticket
          /\ leaves[k].bit = leaves[c].bit /\ leaves[k].time = leaves[c].time
      BY <2>1 DEF IsCollider, BInv, TreeInv, ColliderForm
    <3>3. leaves[k] = leaves[c]
      BY <3>1, <3>2 DEF Leaf
    <3> QED
      BY <3>3 DEF BInv, TreeInv
  <2> QED
    BY <2>1 DEF BInv, OrderInv
<1> QED
  BY <1>1, BallotInvariance, PTL

\* The tree is append-only.
LEMMA LeavesGrow ==
  ASSUME [Next]_vars PROVE leaves' = leaves \/ \E l : leaves' = Append(leaves, l)
BY DEF Next, vars, cmdCastBallot, Validate, CommitmentAddrs, BallotError, Goroutine,
       castVoteDetailsSave, voteColliderSave, BlobSave, AddCastVote, CastError, BallotDone,
       SummaryGet, SummaryTally, SummaryResults, SummarySave, SummaryDel, VoteEnds,
       Tick, Integrate, Restart, Read

\* A vote that counts precedes the collider, also if it is the only one of the ticket,
\* and so no later leaf can take its place.
LEMMA ResultsGrow ==
  ASSUME BInv, [Next]_vars PROVE voteResults(leaves) \subseteq voteResults(leaves')
<1>1. CASE leaves' = leaves
  BY <1>1
<1>2. ASSUME NEW l, leaves' = Append(leaves, l), NEW i \in DOMAIN leaves, Counts(leaves, i)
      PROVE  /\ i \in DOMAIN leaves' /\ Counts(leaves', i)
             /\ leaves'[i] = leaves[i]
  <2> DEFINE t == leaves[i].ticket
  <2>1. PICK c \in DOMAIN leaves :
          /\ IsCollider(leaves, c, t)
          /\ \/ \A k \in DOMAIN leaves : IsVote(leaves, k, t) => k = i
             \/ i < c /\ \A k \in DOMAIN leaves : IsVote(leaves, k, t) /\ k < c => k <= i
    BY <1>2 DEF Counts
  <2>2. PICK j \in DOMAIN leaves : j < c /\ IsVote(leaves, j, t)
    BY <2>1 DEF BInv, OrderInv, IsCollider
  <2>3. /\ Len(leaves) \in Nat /\ DOMAIN leaves = 1..Len(leaves)
        /\ DOMAIN leaves' = 1..(Len(leaves) + 1)
        /\ \A k \in DOMAIN leaves : leaves'[k] = leaves[k]
    BY <1>2 DEF BInv, TreeInv
  <2>4. i < c /\ \A k \in DOMAIN leaves : IsVote(leaves, k, t) /\ k < c => k <= i
    BY <2>1, <2>2, <2>3
  <2>5. IsCollider(leaves', c, t) /\ leaves'[i] = leaves[i] /\ leaves[i].desc = "vote"
    BY <1>2, <2>1, <2>3 DEF IsCollider, Counts
  <2>6. \A k \in DOMAIN leaves' : IsVote(leaves', k, t) /\ k < c => k <= i
    BY <2>3, <2>4 DEF IsVote
  <2> QED
    BY <2>3, <2>4, <2>5, <2>6 DEF Counts
<1>3. ASSUME NEW l, leaves' = Append(leaves, l)
      PROVE  voteResults(leaves) \subseteq voteResults(leaves')
  BY <1>2, <1>3 DEF voteResults
<1> QED
  BY <1>1, <1>3, LeavesGrow

\* A vote that counts keeps counting, whatever is cast or comes late.
THEOREM ResultsFinal == Spec => ResultsAreFinal
<1>1. BInv /\ [Next]_vars => voteResults(leaves) \subseteq voteResults(leaves')
  BY ResultsGrow
<1> QED
  BY <1>1, BallotInvariance, PTL DEF Spec, ResultsAreFinal

-----------------------------------------------------------------------------
(* Which vote counts, when trillian is timely and a ballot names a ticket once *)
(* (Timely and Distinct).                                                      *)

\* The last vote of ticket t in the tree is for b, so that a collider saved now makes it count.
LastVote(ls, t, b) ==
  \E j \in DOMAIN ls :
    /\ IsVote(ls, j, t) /\ ls[j].bit = b
    /\ \A k \in DOMAIN ls : IsVote(ls, k, t) => k <= j
Taken(ls, t, b) == LastVote(ls, t, b) \/ Overtaken(ls, t, b)

\* A ballot has one goroutine per ticket.
DistinctInv ==
  /\ ballot.pc = "idle" => ballot = NoBallot
  /\ \A i, k \in DOMAIN ballot.votes : ballot.votes[i].ticket = ballot.votes[k].ticket => i = k

\* The votes of a ticket are in the order of their times, and a queued one will be.
TimesInv ==
  /\ \A i, k \in DOMAIN leaves :
       /\ leaves[i].desc = "vote" /\ leaves[k].desc = "vote"
       /\ leaves[i].ticket = leaves[k].ticket /\ i < k
       => leaves[i].time <= leaves[k].time
  /\ \A i \in DOMAIN leaves : leaves[i].time <= clock
  /\ \A l \in queue :
       /\ l.time <= clock
       /\ l.desc = "vote" =>
            \A i \in DOMAIN leaves : IsVote(leaves, i, l.ticket) => leaves[i].time <= l.time

\* A ticket has one queued leaf, whose goroutine has given up.
LateInv ==
  /\ \A l, m \in queue : l.ticket = m.ticket => l = m
  /\ ballot.pc \in {"validate", "addrs"} => queue = {}
  /\ ballot.pc = "cast" => \A l \in queue : \E i \in DOMAIN ballot.votes :
       ballot.votes[i].ticket = l.ticket /\ ballot.votes[i].pc = "done"

\* The votes whose goroutine has saved the vote, or the collider too, and the replies.
VotesOk(ls, q) ==
  \A i \in DOMAIN q.votes :
    /\ q.votes[i].pc = "collider" => Taken(ls, q.votes[i].ticket, q.votes[i].bit)
    /\ q.votes[i].pc = "cache" => Counted(ls, q.votes[i].ticket, q.votes[i].bit)
RepliesOk(ls, q) ==
  \A t \in Tickets : q.replies[t] # NoBit => Counted(ls, t, q.replies[t])

ActiveT == [present : BOOLEAN, castVotes : [Tickets -> Bits \cup {NoBit}]]

CountInv ==
  /\ VotesOk(leaves, ballot)
  /\ RepliesOk(leaves, ballot)
  /\ active \in ActiveT
  /\ ReceiptsCount
  /\ CachedVotesCount

CInv == DistinctInv /\ TimesInv /\ LateInv /\ CountInv

-----------------------------------------------------------------------------
(* The tree grows. *)

\* What counts goes on counting.
LEMMA CountedStays ==
  ASSUME BInv, [Next]_vars, NEW t, NEW b, Counted(leaves, t, b)
  PROVE  Counted(leaves', t, b)
<1>1. CASE <<t, b>> \in voteResults(leaves)
  BY <1>1, ResultsGrow DEF Counted
<1>2. CASE Overtaken(leaves, t, b)
  <2>1. leaves' = leaves \/ \E l : leaves' = Append(leaves, l)
    BY LeavesGrow
  <2>2. \A i \in DOMAIN leaves : i \in DOMAIN leaves' /\ leaves'[i] = leaves[i]
    BY <2>1 DEF BInv, TreeInv
  <2> QED
    BY <1>2, <2>2 DEF Counted, Overtaken, IsVote
<1> QED
  BY <1>1, <1>2 DEF Counted

LEMMA Appended ==
  ASSUME TreeInv, NEW l, leaves' = Append(leaves, l)
  PROVE  /\ Len(leaves) \in Nat /\ DOMAIN leaves = 1..Len(leaves)
         /\ DOMAIN leaves' = 1..(Len(leaves) + 1)
         /\ leaves'[Len(leaves) + 1] = l
         /\ \A i \in DOMAIN leaves : leaves'[i] = leaves[i]
BY DEF TreeInv

\* A leaf of another ticket, or a collider, leaves the last vote of a ticket.
LEMMA TakenStays ==
  ASSUME TreeInv, NEW l, leaves' = Append(leaves, l), NEW t, NEW b, Taken(leaves, t, b),
         l.desc # "vote" \/ l.ticket # t
  PROVE  Taken(leaves', t, b)
<1>1. CASE Overtaken(leaves, t, b)
  BY <1>1, Appended DEF Overtaken, Taken, IsVote
<1>2. ASSUME NEW j \in DOMAIN leaves, IsVote(leaves, j, t), leaves[j].bit = b,
             \A k \in DOMAIN leaves : IsVote(leaves, k, t) => k <= j
      PROVE  LastVote(leaves', t, b)
  <2>1. \A k \in DOMAIN leaves' : IsVote(leaves', k, t) => k \in DOMAIN leaves /\ IsVote(leaves, k, t)
    BY Appended DEF IsVote
  <2>2. j \in DOMAIN leaves' /\ IsVote(leaves', j, t) /\ leaves'[j].bit = b
    BY <1>2, Appended DEF IsVote
  <2> QED
    BY <1>2, <2>1, <2>2 DEF LastVote
<1> QED
  BY <1>1, <1>2 DEF Taken, LastVote

\* A vote that is appended is the last one of its ticket.
LEMMA AppendedIsLast ==
  ASSUME TreeInv, NEW l, leaves' = Append(leaves, l), l.desc = "vote"
  PROVE  Taken(leaves', l.ticket, l.bit)
<1> DEFINE n == Len(leaves) + 1
<1>1. n \in DOMAIN leaves' /\ leaves'[n] = l /\ \A k \in DOMAIN leaves' : k <= n
  BY Appended
<1> HIDE DEF n
<1> QED
  BY <1>1 DEF Taken, LastVote, IsVote

\* The collider makes the last vote count.
LEMMA ColliderCounts ==
  ASSUME TreeInv, NEW l, leaves' = Append(leaves, l), l.desc = "collider", NEW b,
         Taken(leaves, l.ticket, b)
  PROVE  Counted(leaves', l.ticket, b)
<1> DEFINE t == l.ticket
           n == Len(leaves) + 1
<1>1. CASE Overtaken(leaves, t, b)
  BY <1>1, Appended DEF Overtaken, Counted, IsVote
<1>2. ASSUME NEW j \in DOMAIN leaves, IsVote(leaves, j, t), leaves[j].bit = b,
             \A k \in DOMAIN leaves : IsVote(leaves, k, t) => k <= j
      PROVE  <<t, b>> \in voteResults(leaves')
  <2>1. n \in DOMAIN leaves' /\ IsCollider(leaves', n, t) /\ j < n
    BY <1>2, Appended DEF IsCollider
  <2>2. \A k \in DOMAIN leaves' : IsVote(leaves', k, t) /\ k < n => k <= j
    BY <1>2, Appended DEF IsVote
  <2>3. j \in DOMAIN leaves' /\ leaves'[j].desc = "vote" /\ leaves'[j].ticket = t
        /\ leaves'[j].bit = b
    BY <1>2, Appended DEF IsVote
  <2>4. Counts(leaves', j)
    BY <2>1, <2>2, <2>3 DEF Counts
  <2>5. <<t, b>> = <<leaves'[j].ticket, leaves'[j].bit>>
    BY <2>3
  <2> QED
    BY <2>3, <2>4, <2>5 DEF voteResults
<1> QED
  BY <1>1, <1>2 DEF Taken, LastVote, Counted

\* A bounded set of numbers has a greatest element.
LEMMA Greatest ==
  ASSUME NEW k \in Nat, NEW S, S \subseteq 0..k, S # {}
  PROVE  \E n \in S : \A m \in S : m <= n
<1> DEFINE T == {k - n : n \in S}
<1>1. T \subseteq Nat /\ T # {}
  <2>1. \A n \in S : k - n \in Nat
    OBVIOUS
  <2> QED
    BY <2>1
<1>2. PICK x \in T : \A y \in T : ~ (<<y, x>> \in OpToRel(<, Nat))
  BY <1>1, NatLessThanWellFounded, WFMin
<1>3. \A y \in T : x <= y
  <2> TAKE y \in T
  <2>1. y \in Nat /\ x \in Nat
    BY <1>1
  <2>2. y < x => <<y, x>> \in OpToRel(<, Nat)
    BY <2>1, Zenon DEF OpToRel
  <2>3. <<y, x>> \notin OpToRel(<, Nat)
    BY <1>2
  <2>4. ~(y < x)
    BY <2>2, <2>3
  <2> QED
    BY <2>1, <2>4
<1>4. PICK n \in S : x = k - n
  OBVIOUS
<1>5. \A m \in S : k - m \in T
  OBVIOUS
<1> HIDE DEF T
<1>6. \A m \in S : m <= n
  BY <1>3, <1>4, <1>5
<1> QED
  BY <1>6

\* A vote that is in the tree already is the last one of its ticket, or was overtaken.
LEMMA DuplicateIsTaken ==
  ASSUME TreeInv, TimesInv, clock \in Nat, NEW l, InTree(l), l.desc = "vote", l.time = clock
  PROVE  Taken(leaves, l.ticket, l.bit)
<1> DEFINE t == l.ticket
           S == {k \in DOMAIN leaves : IsVote(leaves, k, t)}
<1>1. PICK i \in DOMAIN leaves : leaves[i] = l
  BY DEF InTree
<1>2. Len(leaves) \in Nat /\ DOMAIN leaves = 1..Len(leaves)
  BY DEF TreeInv
<1>3. i \in S /\ S \subseteq 0..Len(leaves)
  BY <1>1, <1>2 DEF IsVote
<1>4. PICK j \in S : \A k \in S : k <= j
  <2> HIDE DEF S
  <2> QED
    BY <1>2, <1>3, Greatest
<1>5. i <= j /\ j \in DOMAIN leaves /\ IsVote(leaves, i, t) /\ IsVote(leaves, j, t)
  BY <1>3, <1>4
<1>6. CASE leaves[j].bit = l.bit
  BY <1>4, <1>5, <1>6 DEF Taken, LastVote
<1>7. CASE leaves[j].bit # l.bit
  <2>1. i < j
    BY <1>1, <1>2, <1>5, <1>7
  <2>2. leaves[i].time <= leaves[j].time /\ leaves[j].time <= clock
    BY <1>5, <2>1 DEF TimesInv, IsVote
  <2>3. leaves[j].time \in Nat
    <3>1. leaves[j] \in Leaf
      BY <1>5 DEF TreeInv
    <3> QED
      BY <3>1 DEF Leaf
  <2>4. leaves[i].time = leaves[j].time
    BY <1>1, <2>2, <2>3
  <2> QED
    BY <1>1, <1>5, <1>7, <2>1, <2>4 DEF Taken, Overtaken
<1> QED
  BY <1>6, <1>7

-----------------------------------------------------------------------------
(* The steps keep count. *)

\* What a step of a goroutine leaves of the ballot.
LEMMA GotoRest ==
  ASSUME ballot \in BallotT, NEW i \in DOMAIN ballot.votes,
         NEW p \in {"details", "collider", "cache", "done", "skipped"}, Goto(i, p)
  PROVE  /\ ballot'.pc = ballot.pc /\ ballot'.replies = ballot.replies
         /\ \A k \in DOMAIN ballot.votes : ballot'.votes[k].bit = ballot.votes[k].bit
<1> DEFINE bs == ballot.votes
           w == [bs[i] EXCEPT !.pc = p]
           vs == [bs EXCEPT ![i] = w]
<1>1. ballot' = [ballot EXCEPT !.votes = vs]
  BY DEF Goto
<1>2. bs \in Seq(VoteT) /\ bs[i] \in VoteT
  BY BallotVotes
<1>3. w.bit = bs[i].bit
  BY <1>2 DEF VoteT
<1> HIDE DEF w
<1>4. \A k \in DOMAIN bs : vs[k].bit = bs[k].bit
  BY <1>2, <1>3
<1> HIDE DEF vs
<1>5. ballot'.votes = vs /\ ballot'.pc = ballot.pc /\ ballot'.replies = ballot.replies
  BY <1>1 DEF BallotT
<1> QED
  BY <1>4, <1>5

LEMMA ReplyRest ==
  ASSUME ballot \in BallotT, NEW i \in DOMAIN ballot.votes,
         NEW b \in Bits \cup {NoBit}, Reply(i, b)
  PROVE  /\ ballot'.pc = ballot.pc
         /\ \A t \in Tickets :
              ballot'.replies[t] = IF t = ballot.votes[i].ticket THEN b ELSE ballot.replies[t]
         /\ \A k \in DOMAIN ballot.votes : ballot'.votes[k].bit = ballot.votes[k].bit
<1> DEFINE bs == ballot.votes
           w == [bs[i] EXCEPT !.pc = "done"]
           vs == [bs EXCEPT ![i] = w]
           rs == [ballot.replies EXCEPT ![bs[i].ticket] = b]
<1>1. ballot' = [ballot EXCEPT !.votes = vs, !.replies = rs]
  BY DEF Reply, BallotT
<1>2. bs \in Seq(VoteT) /\ bs[i] \in VoteT
  BY BallotVotes
<1>3. w.bit = bs[i].bit
  BY <1>2 DEF VoteT
<1> HIDE DEF w
<1>4. \A k \in DOMAIN bs : vs[k].bit = bs[k].bit
  BY <1>2, <1>3
<1>5. ballot.replies \in [Tickets -> Bits \cup {NoBit}]
  BY DEF BallotT
<1>6. \A t \in Tickets : rs[t] = IF t = bs[i].ticket THEN b ELSE ballot.replies[t]
  BY <1>5
<1> HIDE DEF vs, rs
<1>7. ballot'.votes = vs /\ ballot'.pc = ballot.pc /\ ballot'.replies = rs
  BY <1>1 DEF BallotT
<1> QED
  BY <1>4, <1>6, <1>7

\* The receipts that were returned stay.
LEMMA ReceiptsStay ==
  ASSUME BInv, CInv, [Next]_vars
  PROVE  /\ acked' = acked => ReceiptsCount'
         /\ active' = active => active' \in ActiveT /\ CachedVotesCount'
<1>1. \A v \in acked : Counted(leaves', v[1], v[2])
  BY CountedStays DEF CInv, CountInv, ReceiptsCount
<1>2. \A t \in Tickets : active.castVotes[t] # NoBit => Counted(leaves', t, active.castVotes[t])
  BY CountedStays DEF CInv, CountInv, CachedVotesCount
<1> QED
  BY <1>1, <1>2 DEF ReceiptsCount, CachedVotesCount, CInv, CountInv

\* Time goes on.
LEMMA FrameTimes ==
  ASSUME BInv, CInv, UNCHANGED leaves, queue' \subseteq queue, clock' \in Nat, clock' >= clock
  PROVE  TimesInv'
<1>1. /\ \A i \in DOMAIN leaves : leaves[i].time \in Nat
      /\ \A l \in queue : l.time \in Nat
      /\ clock \in Nat
  <2>1. \A i \in DOMAIN leaves : leaves[i] \in Leaf
    BY DEF BInv, TreeInv
  <2>2. \A l \in queue : l \in Leaf
    BY DEF BInv, QueueInv, MayFollow
  <2>3. \A l \in Leaf : l.time \in Nat
    BY DEF Leaf
  <2> QED
    BY <2>1, <2>2, <2>3 DEF BInv, BallotInv
<1> QED
  BY <1>1 DEF CInv, TimesInv

\* Nothing is saved, and the ballot ends or makes no progress.
LEMMA CountFrame ==
  ASSUME BInv, CInv, [Next]_vars, UNCHANGED <<leaves, queue>>, clock' \in Nat, clock' >= clock,
         ballot' \in {NoBallot, [ballot EXCEPT !.pc = "cast"], ballot},
         ballot' # ballot => ballot.pc \in {"addrs", "cast"},
         ReceiptsCount', active' \in ActiveT, CachedVotesCount'
  PROVE  CInv'
<1>1. NoBallot.votes = << >> /\ NoBallot.pc = "idle" /\ \A t \in Tickets : NoBallot.replies[t] = NoBit
  BY DEF NoBallot, NoVotes
<1>2. CASE ballot' = NoBallot
  <2>1. DistinctInv'
    BY <1>1, <1>2 DEF DistinctInv
  <2>2. LateInv'
    BY <1>1, <1>2 DEF CInv, LateInv
  <2>3. VotesOk(leaves, ballot)' /\ RepliesOk(leaves, ballot)'
    BY <1>1, <1>2 DEF VotesOk, RepliesOk
  <2> QED
    BY <2>1, <2>2, <2>3, FrameTimes DEF CInv, CountInv
<1>3. CASE ballot' # NoBallot
  <2>1. /\ ballot'.votes = ballot.votes /\ ballot'.replies = ballot.replies
        /\ ballot' = ballot \/ (ballot'.pc = "cast" /\ ballot.pc \in {"addrs", "cast"})
    BY <1>3 DEF BInv, BallotInv, BallotT
  <2>2. DistinctInv'
    BY <2>1 DEF CInv, DistinctInv
  <2>3. LateInv'
    BY <2>1 DEF CInv, LateInv
  <2>4. VotesOk(leaves, ballot)' /\ RepliesOk(leaves, ballot)'
    BY <2>1 DEF CInv, CountInv, VotesOk, RepliesOk
  <2> QED
    BY <2>2, <2>3, <2>4, FrameTimes DEF CInv, CountInv
<1> QED
  BY <1>2, <1>3

\* The times of the leaves.
LEMMA LeafTimes ==
  ASSUME BInv
  PROVE  /\ \A i \in DOMAIN leaves : leaves[i] \in Leaf /\ leaves[i].time \in Nat
         /\ \A l \in queue : l.time \in Nat
         /\ clock \in Nat
<1>1. \A i \in DOMAIN leaves : leaves[i] \in Leaf
  BY DEF BInv, TreeInv
<1>2. \A l \in queue : l \in Leaf
  BY DEF BInv, QueueInv, MayFollow
<1>3. \A l \in Leaf : l.time \in Nat
  BY DEF Leaf
<1> QED
  BY <1>1, <1>2, <1>3 DEF BInv, BallotInv

\* A leaf that is appended is the latest one of its ticket.
LEMMA TimesAppend ==
  ASSUME BInv, CInv, NEW l \in Leaf, leaves' = Append(leaves, l), l.time <= clock,
         l.desc = "vote" => \A i \in DOMAIN leaves : IsVote(leaves, i, l.ticket) => leaves[i].time <= l.time,
         queue' \subseteq queue, \A m \in queue' : m.ticket # l.ticket, clock' = clock
  PROVE  TimesInv'
<1> DEFINE n == Len(leaves) + 1
<1>1. /\ n \in Nat /\ DOMAIN leaves = 1..(n - 1) /\ DOMAIN leaves' = 1..n
      /\ leaves'[n] = l /\ \A i \in DOMAIN leaves : leaves'[i] = leaves[i]
  BY Appended DEF BInv
<1> HIDE DEF n
<1>2. ASSUME NEW i \in DOMAIN leaves', NEW k \in DOMAIN leaves',
             leaves'[i].desc = "vote", leaves'[k].desc = "vote",
             leaves'[i].ticket = leaves'[k].ticket, i < k
      PROVE  leaves'[i].time <= leaves'[k].time
  <2>1. i \in DOMAIN leaves
    BY <1>1, <1>2
  <2>2. CASE k = n
    BY <1>1, <1>2, <2>1, <2>2 DEF IsVote
  <2>3. CASE k # n
    BY <1>1, <1>2, <2>1, <2>3 DEF CInv, TimesInv
  <2> QED
    BY <2>2, <2>3
<1>3. \A i \in DOMAIN leaves' : leaves'[i].time <= clock'
  BY <1>1 DEF CInv, TimesInv
<1>4. ASSUME NEW m \in queue', m.desc = "vote", NEW i \in DOMAIN leaves', IsVote(leaves', i, m.ticket)
      PROVE  leaves'[i].time <= m.time
  BY <1>1, <1>4 DEF CInv, TimesInv, IsVote
<1>5. \A m \in queue' : m.time <= clock'
  BY DEF CInv, TimesInv
<1> QED
  BY <1>2, <1>3, <1>4, <1>5 DEF TimesInv

\* A leaf of this second is queued.
LEMMA TimesQueue ==
  ASSUME BInv, CInv, leaves' = leaves, clock' = clock,
         \A l \in queue' : l \in queue \/ (l.time <= clock /\ (l.desc = "vote" => l.time = clock))
  PROVE  TimesInv'
BY LeafTimes DEF CInv, TimesInv, IsVote

\* A goroutine that is still saving has nothing queued, nor has another one of its ticket.
LEMMA NothingLate ==
  ASSUME BInv, CInv, NEW i \in DOMAIN ballot.votes, ballot.pc = "cast",
         ballot.votes[i].pc # "done"
  PROVE  \A l \in queue : l.ticket # ballot.votes[i].ticket
BY DEF CInv, DistinctInv, LateInv

\* A step of goroutine i, which casts a vote for b with ticket t.
LEMMA GoroutineCounts ==
  ASSUME BInv, CInv, [Next]_vars, NEW i \in DOMAIN ballot.votes,
         NEW p \in {"details", "collider", "cache", "done", "skipped"}, VoteMoves(i, p),
         NEW t, NEW b, t = ballot.votes[i].ticket, b = ballot.votes[i].bit,
         ballot.pc = "cast", ballot'.pc = "cast", ballot.votes[i].pc # "done",
         \A k \in DOMAIN ballot.votes : ballot'.votes[k].bit = ballot.votes[k].bit,
         p = "collider" => Taken(leaves', t, b),
         p = "cache" => Counted(leaves', t, b),
         \A u \in Tickets : \/ ballot'.replies[u] = ballot.replies[u]
                            \/ ballot'.replies[u] = NoBit
                            \/ Counted(leaves', u, ballot'.replies[u]),
         \/ leaves' = leaves
         \/ \E l : leaves' = Append(leaves, l) /\ (l.desc # "vote" \/ l.ticket = t),
         \A l \in queue' : l \in queue \/ (p = "done" /\ l.ticket = t),
         \A l, m \in queue' : l \in queue \/ m \in queue \/ l = m,
         TimesInv', ReceiptsCount', active' \in ActiveT, CachedVotesCount'
  PROVE  CInv'
<1>1. /\ DOMAIN ballot'.votes = DOMAIN ballot.votes
      /\ \A k \in DOMAIN ballot.votes :
           /\ ballot'.votes[k].ticket = ballot.votes[k].ticket
           /\ ballot'.votes[k].pc = IF k = i THEN p ELSE ballot.votes[k].pc
  BY DEF VoteMoves
<1>2. \A k \in DOMAIN ballot.votes : k # i => ballot.votes[k].ticket # t
  BY DEF CInv, DistinctInv
<1>3. DistinctInv'
  BY <1>1 DEF CInv, DistinctInv
<1>4. LateInv'
  <2>1. \A l, m \in queue' : l.ticket = m.ticket => l = m
    BY NothingLate DEF CInv, LateInv
  <2>2. ASSUME NEW l \in queue'
        PROVE  \E k \in DOMAIN ballot'.votes : ballot'.votes[k].ticket = l.ticket /\ ballot'.votes[k].pc = "done"
    <3>1. CASE l \in queue
      <4>1. PICK k \in DOMAIN ballot.votes : ballot.votes[k].ticket = l.ticket /\ ballot.votes[k].pc = "done"
        BY <3>1 DEF CInv, LateInv
      <4> QED
        BY <1>1, <4>1
    <3>2. CASE p = "done" /\ l.ticket = t
      BY <1>1, <3>2
    <3> QED
      BY <2>2, <3>1, <3>2
  <2> QED
    BY <2>1, <2>2 DEF LateInv
<1>5. ASSUME NEW k \in DOMAIN ballot.votes, k # i, NEW u, u = ballot.votes[k].ticket, NEW c,
             Taken(leaves, u, c)
      PROVE  Taken(leaves', u, c)
  <2>1. u # t
    BY <1>2, <1>5
  <2> QED
    BY <1>5, <2>1, TakenStays DEF BInv
<1>6. VotesOk(leaves', ballot')
  <2> SUFFICES ASSUME NEW k \in DOMAIN ballot.votes
               PROVE  /\ ballot'.votes[k].pc = "collider" => Taken(leaves', ballot.votes[k].ticket, ballot.votes[k].bit)
                      /\ ballot'.votes[k].pc = "cache" => Counted(leaves', ballot.votes[k].ticket, ballot.votes[k].bit)
    BY <1>1 DEF VotesOk
  <2>1. CASE k = i
    BY <1>1, <2>1
  <2>2. CASE k # i
    <3>1. ballot'.votes[k].pc = ballot.votes[k].pc
      BY <1>1, <2>2
    <3>2. ballot.votes[k].pc = "collider" => Taken(leaves', ballot.votes[k].ticket, ballot.votes[k].bit)
      BY <1>5, <2>2 DEF CInv, CountInv, VotesOk
    <3>3. ballot.votes[k].pc = "cache" => Counted(leaves', ballot.votes[k].ticket, ballot.votes[k].bit)
      BY CountedStays DEF CInv, CountInv, VotesOk
    <3> QED
      BY <3>1, <3>2, <3>3
  <2> QED
    BY <2>1, <2>2
<1>7. RepliesOk(leaves', ballot')
  BY CountedStays DEF CInv, CountInv, RepliesOk
<1> QED
  BY <1>3, <1>4, <1>6, <1>7 DEF CInv, CountInv

\* A ballot starts with no leaf of an earlier one queued.
LEMMA BeginCounts ==
  ASSUME Timely, Distinct, BInv, CInv, [Next]_vars, NEW b \in Ballots, cmdCastBallot(b)
  PROVE  CInv'
<1> DEFINE vs == [i \in DOMAIN b |-> [ticket |-> b[i][1], bit |-> b[i][2], pc |-> "details"]]
<1>1. /\ ballot' = [pc |-> "validate", replies |-> NoVotes, votes |-> vs]
      /\ UNCHANGED <<leaves, queue, clock>> /\ UNCHANGED active /\ UNCHANGED acked /\ queue = {}
  BY DEF cmdCastBallot
<1>2. /\ DOMAIN vs = DOMAIN b
      /\ \A i \in DOMAIN b : vs[i].ticket = b[i][1] /\ vs[i].pc = "details"
  OBVIOUS
<1>3. \A i, k \in DOMAIN b : b[i][1] = b[k][1] => i = k
  BY DEF Ballots
<1> HIDE DEF vs
<1>4. ballot'.pc = "validate" /\ ballot'.votes = vs /\ ballot'.replies = NoVotes
  BY <1>1
<1>5. DistinctInv' /\ LateInv'
  BY <1>1, <1>2, <1>3, <1>4 DEF DistinctInv, LateInv
<1>6. VotesOk(leaves, ballot)' /\ RepliesOk(leaves, ballot)'
  BY <1>2, <1>4 DEF VotesOk, RepliesOk, NoVotes
<1>7. TimesInv'
  BY <1>1, FrameTimes DEF BInv, BallotInv
<1> QED
  BY <1>1, <1>5, <1>6, <1>7, ReceiptsStay DEF CInv, CountInv

\* The validation only makes goroutines skip.
LEMMA ValidateCounts == BInv /\ CInv /\ [Next]_vars /\ Validate => CInv'
<1> SUFFICES ASSUME BInv, CInv, [Next]_vars, Validate PROVE CInv'
  OBVIOUS
<1> DEFINE vs == [i \in DOMAIN ballot.votes |->
                    IF VoteIsDuplicate(ballot.votes[i].ticket)
                      THEN [ballot.votes[i] EXCEPT !.pc = "skipped"] ELSE ballot.votes[i]]
<1>1. /\ UNCHANGED <<leaves, queue, clock>> /\ UNCHANGED active /\ UNCHANGED acked
      /\ ballot.pc = "validate" /\ queue = {}
  BY DEF Validate, CInv, LateInv
<1>2. ballot.votes \in Seq(VoteT) /\ ballot \in BallotT
  BY DEF BInv, BallotInv, BallotT, VoteT
<1>3. ballot' = [ballot EXCEPT !.pc = "addrs", !.votes = vs]
  BY <1>2 DEF Validate, BallotT
<1>4. /\ DOMAIN vs = DOMAIN ballot.votes
      /\ \A i \in DOMAIN ballot.votes :
           vs[i].ticket = ballot.votes[i].ticket
           /\ (vs[i] = ballot.votes[i] \/ vs[i].pc = "skipped")
  <2> SUFFICES ASSUME NEW i \in DOMAIN ballot.votes
               PROVE  vs[i].ticket = ballot.votes[i].ticket
                      /\ (vs[i] = ballot.votes[i] \/ vs[i].pc = "skipped")
    OBVIOUS
  <2> DEFINE v == ballot.votes[i]
  <2>1. v \in VoteT
    BY <1>2
  <2>2. vs[i] = IF VoteIsDuplicate(v.ticket) THEN [v EXCEPT !.pc = "skipped"] ELSE v
    OBVIOUS
  <2>3. [v EXCEPT !.pc = "skipped"].ticket = v.ticket /\ [v EXCEPT !.pc = "skipped"].pc = "skipped"
    BY <2>1, VoteSteps
  <2> QED
    BY <2>2, <2>3
<1> HIDE DEF vs
<1>5. ballot'.pc = "addrs" /\ ballot'.votes = vs /\ ballot'.replies = ballot.replies
  BY <1>2, <1>3 DEF BallotT
<1>6. DistinctInv' /\ LateInv'
  BY <1>1, <1>4, <1>5 DEF CInv, DistinctInv, LateInv
<1>7. VotesOk(leaves, ballot)' /\ RepliesOk(leaves, ballot)'
  <2>1. VotesOk(leaves', ballot')
    BY <1>1, <1>4, <1>5 DEF CInv, CountInv, VotesOk
  <2>2. RepliesOk(leaves', ballot')
    BY <1>1, <1>5 DEF CInv, CountInv, RepliesOk
  <2> QED
    BY <2>1, <2>2
<1>8. TimesInv'
  BY <1>1, FrameTimes DEF BInv, BallotInv
<1> QED
  BY <1>1, <1>6, <1>7, <1>8, ReceiptsStay DEF CInv, CountInv

\* What a goroutine saves carries this second.
LEMMA SavedForm ==
  ASSUME NEW v
  PROVE  /\ castVoteDetails(v).desc = "vote" /\ castVoteDetails(v).ticket = v.ticket
         /\ castVoteDetails(v).bit = v.bit /\ castVoteDetails(v).time = clock
         /\ voteCollider(v).desc = "collider" /\ voteCollider(v).ticket = v.ticket
         /\ voteCollider(v).time = 0
BY DEF castVoteDetails, voteCollider

\* The vote is saved, or has been by an attempt of this second.
LEMMA DetailsCounts ==
  ASSUME BInv, CInv, [Next]_vars, NEW i \in DOMAIN ballot.votes, castVoteDetailsSave(i)
  PROVE  CInv'
<1>1. PICK v : v = ballot.votes[i]
  OBVIOUS
<1>2. PICK l : l = castVoteDetails(v)
  OBVIOUS
<1>3. /\ BlobSave(l) /\ Goto(i, "collider") /\ ballot.pc = "cast" /\ ballot.votes[i].pc = "details"
      /\ queue' = queue /\ clock' = clock /\ active' = active /\ acked' = acked
  BY <1>1, <1>2 DEF castVoteDetailsSave, At
<1>4. /\ l.desc = "vote" /\ l.ticket = v.ticket /\ l.bit = v.bit /\ l.time = clock
      /\ l \in Leaf
  BY <1>1, <1>2, SavedForm, SavedLeaves DEF MayFollow
<1>5. VoteMoves(i, "collider")
  BY <1>3, GotoMoves DEF BInv, BallotInv
<1>6. /\ ballot'.pc = ballot.pc /\ ballot'.replies = ballot.replies
      /\ \A k \in DOMAIN ballot.votes : ballot'.votes[k].bit = ballot.votes[k].bit
  BY <1>3, GotoRest DEF BInv, BallotInv
<1>7. ReceiptsCount' /\ active' \in ActiveT /\ CachedVotesCount'
  BY <1>3, ReceiptsStay
<1>8. CASE InTree(l)
  <2>1. leaves' = leaves
    BY <1>3, <1>8 DEF BlobSave
  <2>2. Taken(leaves, l.ticket, l.bit)
    BY <1>4, <1>8, DuplicateIsTaken DEF BInv, CInv, BallotInv
  <2>3. Taken(leaves', v.ticket, v.bit)
    BY <1>4, <2>1, <2>2
  <2>4. TimesInv'
    BY <1>3, <2>1, FrameTimes, LeafTimes
  <2> QED
    BY <1>1, <1>3, <1>5, <1>6, <1>7, <2>1, <2>3, <2>4, GoroutineCounts
<1>9. CASE ~InTree(l)
  <2>1. leaves' = Append(leaves, l)
    BY <1>3, <1>9 DEF BlobSave
  <2>2. Taken(leaves', l.ticket, l.bit)
    BY <1>4, <2>1, AppendedIsLast DEF BInv
  <2>3. Taken(leaves', v.ticket, v.bit)
    BY <1>4, <2>2
  <2>4. TimesInv'
    <3>1. \A m \in queue' : m.ticket # l.ticket
      BY <1>1, <1>3, <1>4, NothingLate
    <3>2. l.time <= clock /\ \A k \in DOMAIN leaves : leaves[k].time <= l.time
      BY <1>4, LeafTimes DEF CInv, TimesInv
    <3> QED
      BY <1>3, <1>4, <2>1, <3>1, <3>2, TimesAppend
  <2> QED
    BY <1>1, <1>3, <1>4, <1>5, <1>6, <1>7, <2>1, <2>3, <2>4, GoroutineCounts
<1> QED
  BY <1>8, <1>9

\* The collider makes the vote count; a duplicate gets no receipt.
LEMMA ColliderStepCounts ==
  ASSUME BInv, CInv, [Next]_vars, NEW i \in DOMAIN ballot.votes, voteColliderSave(i)
  PROVE  CInv'
<1>1. PICK v : v = ballot.votes[i]
  OBVIOUS
<1>2. PICK l : l = voteCollider(v)
  OBVIOUS
<1>3. /\ BlobSave(l) /\ ballot.pc = "cast" /\ v.pc = "collider"
      /\ queue' = queue /\ clock' = clock /\ active' = active /\ acked' = acked
      /\ IF InTree(l) THEN Reply(i, NoBit) ELSE Goto(i, "cache")
  BY <1>1, <1>2 DEF voteColliderSave, At
<1>4. l.desc = "collider" /\ l.ticket = v.ticket /\ l.time = 0 /\ l \in Leaf
  BY <1>1, <1>2, <1>3, SavedForm, SavedLeaves DEF MayFollow
<1>5. ReceiptsCount' /\ active' \in ActiveT /\ CachedVotesCount'
  BY <1>3, ReceiptsStay
<1>6. CASE InTree(l)
  <2>1. leaves' = leaves /\ Reply(i, NoBit)
    BY <1>3, <1>6 DEF BlobSave
  <2>2. VoteMoves(i, "done")
    BY <2>1, ReplyMoves DEF BInv, BallotInv
  <2>3. /\ ballot'.pc = ballot.pc
        /\ \A u \in Tickets : ballot'.replies[u] = ballot.replies[u] \/ ballot'.replies[u] = NoBit
        /\ \A k \in DOMAIN ballot.votes : ballot'.votes[k].bit = ballot.votes[k].bit
    BY <2>1, ReplyRest DEF BInv, BallotInv
  <2>4. TimesInv'
    BY <1>3, <2>1, FrameTimes, LeafTimes
  <2>5. PICK t, b : t = ballot.votes[i].ticket /\ b = ballot.votes[i].bit
    OBVIOUS
  <2> QED
    BY <1>1, <1>3, <1>5, <2>1, <2>2, <2>3, <2>4, <2>5, GoroutineCounts
<1>7. CASE ~InTree(l)
  <2>1. leaves' = Append(leaves, l) /\ Goto(i, "cache")
    BY <1>3, <1>7 DEF BlobSave
  <2>2. VoteMoves(i, "cache")
    BY <2>1, GotoMoves DEF BInv, BallotInv
  <2>3. /\ ballot'.pc = ballot.pc /\ ballot'.replies = ballot.replies
        /\ \A k \in DOMAIN ballot.votes : ballot'.votes[k].bit = ballot.votes[k].bit
    BY <2>1, GotoRest DEF BInv, BallotInv
  <2>4. TimesInv'
    <3>1. \A m \in queue' : m.ticket # l.ticket
      BY <1>1, <1>3, <1>4, NothingLate
    <3>2. l.time <= clock
      BY <1>4, LeafTimes
    <3> QED
      BY <1>3, <1>4, <2>1, <3>1, <3>2, TimesAppend
  <2>5. PICK b : b = v.bit
    OBVIOUS
  <2>6. Taken(leaves, l.ticket, b)
    BY <1>1, <1>3, <1>4, <2>5 DEF CInv, CountInv, VotesOk
  <2>7. Counted(leaves', l.ticket, b)
    BY <1>4, <2>1, <2>6, ColliderCounts DEF BInv
  <2>8. PICK t : t = v.ticket
    OBVIOUS
  <2>9. Counted(leaves', t, b)
    BY <1>4, <2>7, <2>8
  <2> QED
    BY <1>1, <1>3, <1>4, <1>5, <2>1, <2>2, <2>3, <2>4, <2>5, <2>8, <2>9, GoroutineCounts
<1> QED
  BY <1>6, <1>7

\* The vote that is added to the cache counts.
LEMMA CacheCounts ==
  ASSUME BInv, CInv, [Next]_vars, NEW i \in DOMAIN ballot.votes, AddCastVote(i)
  PROVE  CInv'
<1>1. PICK t, b : t = ballot.votes[i].ticket /\ b = ballot.votes[i].bit
  OBVIOUS
<1>2. /\ ballot.pc = "cast" /\ ballot.votes[i].pc = "cache" /\ Reply(i, b)
      /\ UNCHANGED <<leaves, queue, clock>> /\ UNCHANGED acked
      /\ active' = IF active.present THEN [active EXCEPT !.castVotes[t] = b] ELSE active
  BY <1>1 DEF AddCastVote, At
<1>3. ballot.votes[i] \in VoteT
  BY BallotVotes DEF BInv, BallotInv
<1>4. t \in Tickets /\ b \in Bits
  BY <1>1, <1>3 DEF VoteT
<1>5. Counted(leaves, t, b)
  BY <1>1, <1>2 DEF CInv, CountInv, VotesOk
<1>6. Counted(leaves', t, b)
  BY <1>5, CountedStays
<1>7. VoteMoves(i, "done")
  BY <1>2, <1>4, ReplyMoves DEF BInv, BallotInv
<1>8. /\ ballot'.pc = ballot.pc
      /\ \A u \in Tickets : ballot'.replies[u] = IF u = t THEN b ELSE ballot.replies[u]
      /\ \A k \in DOMAIN ballot.votes : ballot'.votes[k].bit = ballot.votes[k].bit
  BY <1>1, <1>2, <1>4, ReplyRest DEF BInv, BallotInv
<1>9. TimesInv'
  BY <1>2, FrameTimes, LeafTimes
<1>10. /\ active' \in ActiveT
       /\ \A u \in Tickets : active'.castVotes[u] \in {active.castVotes[u], IF u = t THEN b ELSE NoBit}
  BY <1>2, <1>4 DEF CInv, CountInv, ActiveT
<1>11. CachedVotesCount'
  <2> SUFFICES ASSUME NEW u \in Tickets, active'.castVotes[u] # NoBit
               PROVE  Counted(leaves', u, active'.castVotes[u])
    BY DEF CachedVotesCount
  <2>1. CASE active'.castVotes[u] = active.castVotes[u]
    <3>1. Counted(leaves, u, active.castVotes[u])
      BY <2>1 DEF CInv, CountInv, CachedVotesCount
    <3> QED
      BY <2>1, <3>1, CountedStays
  <2>2. CASE active'.castVotes[u] # active.castVotes[u]
    BY <1>6, <1>10, <2>2
  <2> QED
    BY <2>1, <2>2
<1>12. ReceiptsCount'
  BY <1>2, ReceiptsStay
<1> QED
  BY <1>1, <1>2, <1>6, <1>7, <1>8, <1>9, <1>10, <1>11, <1>12, GoroutineCounts

\* What goroutine i has in flight is one leaf of its ticket.
LEMMA OneInFlight ==
  ASSUME NEW i \in DOMAIN ballot.votes, NEW l \in InFlight(i)
  PROVE  /\ ballot.pc = "cast" /\ ballot.votes[i].pc \in {"details", "collider"}
         /\ l.ticket = ballot.votes[i].ticket
         /\ l.desc = "vote" => l.time = clock
         /\ l.time \in {0, clock}
         /\ \A m \in InFlight(i) : m = l
<1>1. PICK v : v = ballot.votes[i]
  OBVIOUS
<1>2. InFlight(i) = {m \in {castVoteDetails(v), voteCollider(v)} :
                       At(i, IF m.desc = "vote" THEN "details" ELSE "collider") /\ ~InTree(m)}
  BY <1>1 DEF InFlight
<1>3. \A p : At(i, p) => ballot.pc = "cast" /\ v.pc = p
  BY <1>1 DEF At
<1>4. \/ v.pc = "details" /\ l = castVoteDetails(v)
      \/ v.pc = "collider" /\ l = voteCollider(v)
  BY <1>2, <1>3, SavedForm
<1>5. \A m \in InFlight(i) :
        \/ v.pc = "details" /\ m = castVoteDetails(v)
        \/ v.pc = "collider" /\ m = voteCollider(v)
  BY <1>2, <1>3, SavedForm
<1>6. ballot.pc = "cast"
  BY <1>2, <1>3
<1> QED
  BY <1>1, <1>4, <1>5, <1>6, SavedForm

\* A save fails, and its leaf may be queued.
LEMMA ErrorCounts ==
  ASSUME BInv, CInv, [Next]_vars, NEW i \in DOMAIN ballot.votes, CastError(i)
  PROVE  CInv'
<1>1. PICK t, b : t = ballot.votes[i].ticket /\ b = ballot.votes[i].bit
  OBVIOUS
<1>2. /\ ballot.pc = "cast" /\ ballot.votes[i].pc \in {"details", "collider"} /\ Reply(i, NoBit)
      /\ UNCHANGED <<leaves, clock>> /\ UNCHANGED acked /\ active' = active
      /\ \A l \in queue' : l \in queue \/ l \in InFlight(i)
  BY DEF CastError, At
<1>3. VoteMoves(i, "done")
  BY <1>2, ReplyMoves DEF BInv, BallotInv
<1>4. /\ ballot'.pc = ballot.pc
      /\ \A u \in Tickets : ballot'.replies[u] = ballot.replies[u] \/ ballot'.replies[u] = NoBit
      /\ \A k \in DOMAIN ballot.votes : ballot'.votes[k].bit = ballot.votes[k].bit
  BY <1>2, ReplyRest DEF BInv, BallotInv
<1>5. /\ \A l \in queue' : l \in queue \/ l.ticket = t
      /\ \A l, m \in queue' : l \in queue \/ m \in queue \/ l = m
      /\ \A l \in queue' : l \in queue \/ (l.time \in {0, clock} /\ (l.desc = "vote" => l.time = clock))
  BY <1>1, <1>2, OneInFlight
<1>6. \A l \in queue' : l \in queue \/ (l.time <= clock /\ (l.desc = "vote" => l.time = clock))
  BY <1>5, LeafTimes
<1>7. TimesInv'
  BY <1>2, <1>6, TimesQueue
<1>8. ReceiptsCount' /\ active' \in ActiveT /\ CachedVotesCount'
  BY <1>2, ReceiptsStay
<1> QED
  BY <1>1, <1>2, <1>3, <1>4, <1>5, <1>7, <1>8, GoroutineCounts

\* A queued leaf is one of a goroutine that has given up.
LEMMA IntegrateCounts ==
  ASSUME BInv, CInv, [Next]_vars, Integrate PROVE CInv'
<1>1. PICK l \in queue : /\ leaves' = Append(leaves, l) /\ queue' = queue \ {l}
                         /\ UNCHANGED <<ballot, clock>> /\ active' = active /\ acked' = acked
  BY DEF Integrate
<1>2. l \in Leaf /\ l.time <= clock
  BY DEF BInv, QueueInv, MayFollow, CInv, TimesInv
<1>3. \A m \in queue' : m.ticket # l.ticket
  BY <1>1 DEF CInv, LateInv
<1>4. TimesInv'
  <2>1. l.desc = "vote" => \A i \in DOMAIN leaves : IsVote(leaves, i, l.ticket) => leaves[i].time <= l.time
    BY DEF CInv, TimesInv
  <2> QED
    BY <1>1, <1>2, <1>3, <2>1, TimesAppend
<1>5. DistinctInv' /\ LateInv'
  BY <1>1 DEF CInv, DistinctInv, LateInv
<1>6. VotesOk(leaves', ballot)
  <2> SUFFICES ASSUME NEW k \in DOMAIN ballot.votes
               PROVE  /\ ballot.votes[k].pc = "collider" =>
                           Taken(leaves', ballot.votes[k].ticket, ballot.votes[k].bit)
                      /\ ballot.votes[k].pc = "cache" =>
                           Counted(leaves', ballot.votes[k].ticket, ballot.votes[k].bit)
    BY DEF VotesOk
  <2>1. ballot.votes[k].pc = "cache" => Counted(leaves', ballot.votes[k].ticket, ballot.votes[k].bit)
    BY CountedStays DEF CInv, CountInv, VotesOk
  <2>2. ASSUME ballot.votes[k].pc = "collider"
        PROVE  Taken(leaves', ballot.votes[k].ticket, ballot.votes[k].bit)
    <3>1. PICK u, c : u = ballot.votes[k].ticket /\ c = ballot.votes[k].bit
      OBVIOUS
    <3>2. Taken(leaves, u, c)
      BY <2>2, <3>1 DEF CInv, CountInv, VotesOk
    <3>3. ballot.pc = "cast"
      <4>1. ballot.pc \in {"idle", "validate", "addrs", "cast"}
        BY DEF BInv, BallotInv, BallotT
      <4>2. ballot.pc = "idle" => ballot.votes = << >>
        BY DEF CInv, DistinctInv, NoBallot
      <4> QED
        BY <4>1, <4>2 DEF CInv, LateInv
    <3>4. u # l.ticket
      BY <2>2, <3>1, <3>3, NothingLate
    <3>5. Taken(leaves', u, c)
      BY <1>1, <3>2, <3>4, TakenStays DEF BInv
    <3> QED
      BY <3>1, <3>5
  <2> QED
    BY <2>1, <2>2
<1>7. RepliesOk(leaves', ballot)
  BY CountedStays DEF CInv, CountInv, RepliesOk
<1>8. ReceiptsCount' /\ active' \in ActiveT /\ CachedVotesCount'
  BY <1>1, ReceiptsStay
<1> QED
  BY <1>1, <1>4, <1>5, <1>6, <1>7, <1>8 DEF CInv, CountInv

\* politeiad restarts: leaves of several goroutines may be queued, each of its own ticket,
\* and the cache is rebuilt from what counts.
LEMMA RestartCounts ==
  ASSUME BInv, CInv, [Next]_vars, Restart PROVE CInv'
<1>1. /\ UNCHANGED <<leaves, clock>> /\ UNCHANGED acked /\ ballot' = NoBallot /\ active' = Setup
      /\ \A l \in queue' : l \in queue \/ \E i \in DOMAIN ballot.votes : l \in InFlight(i)
  BY DEF Restart
<1>2. NoBallot.votes = << >> /\ NoBallot.pc = "idle" /\ \A t \in Tickets : NoBallot.replies[t] = NoBit
  BY DEF NoBallot, NoVotes
<1>3. DistinctInv' /\ VotesOk(leaves, ballot)' /\ RepliesOk(leaves, ballot)'
  BY <1>1, <1>2 DEF DistinctInv, VotesOk, RepliesOk
<1>4. ASSUME NEW i \in DOMAIN ballot.votes, NEW l \in InFlight(i)
      PROVE  /\ \A m \in queue : m.ticket # l.ticket
             /\ \A k \in DOMAIN ballot.votes : \A m \in InFlight(k) : m.ticket = l.ticket => m = l
             /\ l.time <= clock /\ (l.desc = "vote" => l.time = clock)
  <2>1. /\ ballot.pc = "cast" /\ ballot.votes[i].pc # "done"
        /\ l.ticket = ballot.votes[i].ticket
        /\ l.time \in {0, clock} /\ (l.desc = "vote" => l.time = clock)
    BY OneInFlight
  <2>2. \A m \in queue : m.ticket # l.ticket
    BY <2>1, NothingLate
  <2>3. ASSUME NEW k \in DOMAIN ballot.votes, NEW m \in InFlight(k), m.ticket = l.ticket
        PROVE  m = l
    <3>1. m.ticket = ballot.votes[k].ticket
      BY OneInFlight
    <3>2. k = i
      BY <2>1, <2>3, <3>1 DEF CInv, DistinctInv
    <3> QED
      BY <2>3, <3>2, OneInFlight
  <2> QED
    BY <2>1, <2>2, <2>3, LeafTimes
<1>5. LateInv'
  <2>1. ASSUME NEW l \in queue', NEW m \in queue', l.ticket = m.ticket PROVE l = m
    <3>1. CASE l \in queue /\ m \in queue
      BY <2>1, <3>1 DEF CInv, LateInv
    <3>2. ASSUME NEW i \in DOMAIN ballot.votes, l \in InFlight(i) PROVE l = m
      BY <1>1, <1>4, <2>1, <3>2
    <3>3. ASSUME NEW i \in DOMAIN ballot.votes, m \in InFlight(i) PROVE l = m
      BY <1>1, <1>4, <2>1, <3>3
    <3> QED
      BY <1>1, <2>1, <3>1, <3>2, <3>3
  <2> QED
    BY <1>1, <1>2, <2>1 DEF LateInv
<1>6. TimesInv'
  <2>1. \A l \in queue' : l \in queue \/ (l.time <= clock /\ (l.desc = "vote" => l.time = clock))
    BY <1>1, <1>4
  <2> QED
    BY <1>1, <2>1, TimesQueue
<1>7. /\ Setup \in ActiveT
      /\ \A t \in Tickets : Setup.castVotes[t] # NoBit => <<t, Setup.castVotes[t]>> \in voteResults(leaves)
  <2>1. NotActive \in ActiveT /\ \A t \in Tickets : NotActive.castVotes[t] = NoBit
    BY DEF NotActive, ActiveT, NoVotes
  <2> DEFINE f == [t \in Tickets |-> IF \E b \in Bits : <<t, b>> \in voteResults(leaves)
                                       THEN CHOOSE b \in Bits : <<t, b>> \in voteResults(leaves)
                                       ELSE NoBit]
  <2>2. ASSUME NEW t \in Tickets
        PROVE  f[t] = NoBit \/ (f[t] \in Bits /\ <<t, f[t]>> \in voteResults(leaves))
    OBVIOUS
  <2>3. Setup = NotActive \/ Setup = [present |-> TRUE, castVotes |-> f]
    BY DEF Setup
  <2>4. f \in [Tickets -> Bits \cup {NoBit}]
    BY <2>2
  <2> HIDE DEF f
  <2>5. /\ [present |-> TRUE, castVotes |-> f] \in ActiveT
        /\ [present |-> TRUE, castVotes |-> f].castVotes = f
    BY <2>4 DEF ActiveT
  <2> QED
    BY <2>1, <2>2, <2>3, <2>5
<1>8. active' \in ActiveT /\ CachedVotesCount'
  BY <1>1, <1>7 DEF CachedVotesCount, Counted
<1>9. ReceiptsCount'
  BY <1>1, ReceiptsStay
<1> QED
  BY <1>3, <1>5, <1>6, <1>8, <1>9 DEF CInv, CountInv

\* Initially nothing is cast.
LEMMA InitCounts == Init => CInv
<1> SUFFICES ASSUME Init PROVE CInv
  OBVIOUS
<1>1. NoBallot.votes = << >> /\ NoBallot.pc = "idle" /\ \A t \in Tickets : NoBallot.replies[t] = NoBit
  BY DEF NoBallot, NoVotes
<1>2. DistinctInv /\ TimesInv /\ LateInv
  BY <1>1 DEF Init, DistinctInv, TimesInv, LateInv
<1>3. VotesOk(leaves, ballot) /\ RepliesOk(leaves, ballot)
  BY <1>1 DEF Init, VotesOk, RepliesOk
<1>4. active \in ActiveT /\ CachedVotesCount /\ ReceiptsCount
  BY DEF Init, ActiveT, NoVotes, CachedVotesCount, ReceiptsCount
<1> QED
  BY <1>2, <1>3, <1>4 DEF CInv, CountInv

\* Every step keeps count.
LEMMA NextCounts == Timely /\ Distinct /\ BInv /\ CInv /\ [Next]_vars => CInv'
<1> SUFFICES ASSUME Timely, Distinct, BInv, CInv, [Next]_vars PROVE CInv'
  OBVIOUS
<1>1. ASSUME NEW b \in Ballots, cmdCastBallot(b) PROVE CInv'
  BY <1>1, BeginCounts
<1>2. CASE Validate
  BY <1>2, ValidateCounts
<1>3. CASE CommitmentAddrs \/ BallotError \/ BallotDone
  <2>1. /\ UNCHANGED <<leaves, queue, clock>> /\ active' = active
        /\ ballot' \in {NoBallot, [ballot EXCEPT !.pc = "cast"], ballot}
        /\ ballot.pc \in {"addrs", "cast"}
    BY <1>3 DEF CommitmentAddrs, BallotError, BallotDone
  <2>2. ReceiptsCount'
    <3>1. \A v \in acked' : v \in acked \/ \E t \in Tickets : ballot.replies[t] # NoBit /\ v = <<t, ballot.replies[t]>>
      BY <1>3 DEF CommitmentAddrs, BallotError, BallotDone
    <3>2. \A v \in acked : Counted(leaves', v[1], v[2])
      BY CountedStays DEF CInv, CountInv, ReceiptsCount
    <3>3. \A t \in Tickets : ballot.replies[t] # NoBit => Counted(leaves', t, ballot.replies[t])
      BY CountedStays DEF CInv, CountInv, RepliesOk
    <3> QED
      BY <3>1, <3>2, <3>3 DEF ReceiptsCount
  <2> QED
    BY <2>1, <2>2, ReceiptsStay, CountFrame, LeafTimes
<1>4. ASSUME NEW i \in DOMAIN ballot.votes, Goroutine(i) PROVE CInv'
  BY <1>4, DetailsCounts, ColliderStepCounts, CacheCounts, ErrorCounts DEF Goroutine
<1>5. ASSUME NEW r \in Readers, \/ SummaryGet(r) \/ SummaryTally(r) \/ SummaryResults(r)
                                \/ SummarySave(r) \/ SummaryDel(r)
      PROVE  CInv'
  <2>1. /\ UNCHANGED <<leaves, queue, clock>> /\ UNCHANGED acked /\ ballot' = ballot
        /\ active' = active \/ active' = NotActive
    BY <1>5 DEF SummaryGet, SummaryTally, SummaryResults, SummarySave, SummaryDel
  <2>2. NotActive \in ActiveT /\ \A t \in Tickets : NotActive.castVotes[t] = NoBit
    BY DEF NotActive, ActiveT, NoVotes
  <2>3. active' \in ActiveT /\ CachedVotesCount'
    BY <2>1, <2>2, ReceiptsStay DEF CachedVotesCount
  <2> QED
    BY <2>1, <2>3, ReceiptsStay, CountFrame, LeafTimes
<1>6. CASE VoteEnds \/ Tick \/ Read \/ UNCHANGED vars
  <2>1. /\ UNCHANGED <<leaves, queue>> /\ UNCHANGED acked /\ ballot' = ballot /\ active' = active
        /\ clock' = clock \/ clock' = clock + 1
    BY <1>6 DEF VoteEnds, Tick, Read, vars
  <2> QED
    BY <2>1, ReceiptsStay, CountFrame, LeafTimes
<1>7. CASE Integrate
  BY <1>7, IntegrateCounts
<1>8. CASE Restart
  BY <1>8, RestartCounts
<1> QED
  BY <1>1, <1>2, <1>3, <1>4, <1>5, <1>6, <1>7, <1>8 DEF Next

\* The invariant holds in every reachable state when trillian integrates the queued leaves
\* between two ballots and a ballot names a ticket once.
THEOREM CountInvariance == Timely /\ Distinct => (Spec => [](BInv /\ CInv))
<1> SUFFICES ASSUME Timely, Distinct PROVE Spec => [](BInv /\ CInv)
  OBVIOUS
<1>1. Init => BInv /\ CInv
  BY InitInv, InitCounts
<1>2. (BInv /\ CInv) /\ [Next]_vars => (BInv /\ CInv)'
  BY NextInv, NextCounts
<1> QED
  BY <1>1, <1>2, PTL DEF Spec

\* A vote whose receipt is returned counts in the tree, through failed saves, restarts and
\* leaves that come late, unless it was overtaken within its second (ballot,
\* cmds.go:1288-1390).
THEOREM ReceiptsAreCounted == Timely /\ Distinct => (Spec => []ReceiptsCount)
<1> SUFFICES ASSUME Timely, Distinct PROVE Spec => []ReceiptsCount
  OBVIOUS
<1>1. BInv /\ CInv => ReceiptsCount
  BY DEF CInv, CountInv
<1> QED
  BY <1>1, CountInvariance, PTL

\* The votes in the active votes cache, and after a restart too, are those that count in
\* the tree (activeVotes.AddCastVote, and setup's use of voteResults).
THEOREM CachedVotesAreCounted == Timely /\ Distinct => (Spec => []CachedVotesCount)
<1> SUFFICES ASSUME Timely, Distinct PROVE Spec => []CachedVotesCount
  OBVIOUS
<1>1. BInv /\ CInv => CachedVotesCount
  BY DEF CInv, CountInv
<1> QED
  BY <1>1, CountInvariance, PTL

=============================================================================
