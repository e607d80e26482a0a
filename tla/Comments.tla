------------------------------ MODULE Comments ------------------------------
(***************************************************************************)
(* The comments on one proposal (plugins/comments) and the rules that the   *)
(* pi plugin adds to them (plugins/pi).  A comment, an edit, a deletion and *)
(* a comment vote are leaves of the tree of the record; the record index, a *)
(* file per record state, finds them by comment ID.  A command appends its  *)
(* leaf and then saves the index; the save of the leaf may time out and be  *)
(* integrated later, and politeiad may stop in between, also while it       *)
(* writes the file of the index, which cannot be read from then on.  Write  *)
(* commands hold the lock of the record, so they do not interleave.  A      *)
(* digest is the position of the leaf in the tree; the time of a write is   *)
(* the number of writes before it.                                          *)
(***************************************************************************)
EXTENDS Integers, Sequences, FiniteSets, SequencesExt

CONSTANTS
  Users, Author,       \* the commenting users, and the author of the proposal
  Hints,               \* the extra data hints that users send
  BillingStatuses,     \* the billing statuses that the admin sets
  VoteChangesMax, BillingStatusChangesMax, VotesPageSize,
  MaxLeaves,           \* bound: leaves of the tree
  MaxComments,         \* bound: comments on the record
  MaxEvents            \* bound: writes on the unvetted record, anchors, saves that
                       \* fail after the leaf was queued, and failed deletions

ASSUME ConstantsAssumption ==
  /\ Author \in Users /\ Hints \subseteq {"none", "update"}
  /\ BillingStatuses \subseteq {"active", "closed", "completed"}
  /\ {VoteChangesMax, BillingStatusChangesMax} \subseteq Nat
  /\ {MaxLeaves, MaxComments, MaxEvents} \subseteq Nat
  /\ VotesPageSize \in Nat \ {0}

VARIABLES
  state,    \* the state of the record
  vote,     \* the status of its ticket vote: open until the vote has ended
  billing,  \* its billing status changes
  tree,     \* the comment leaves
  late,     \* leaves that trillian has queued and not integrated yet
  gone,     \* the leaves whose blob was deleted
  ridx,     \* the record index of each record state
  torn,     \* the record states whose index was not written to its end
  deleting, \* the digests that a running delete command has still to delete
  anchored, \* the number of leaves that are anchored
  stamps,   \* the cached final timestamps of each comment ID
  events,
  orphans,  \* history: leaves whose command did not get to save the index
  kept,     \* history: digests whose deletion failed
  bare      \* history: digests that were deleted before they were anchored

record == <<state, vote, billing>>
leaves == <<tree, late, gone>>
index == <<ridx, torn>>
history == <<orphans, kept, bare>>
vars == <<record, leaves, index, deleting, anchored, stamps, events, history>>

States == {"unvetted", "vetted"}
Put(f, k, x) == [j \in DOMAIN f \cup {k} |-> IF j = k THEN x ELSE f[j]]
NoIndex == [c \in {} |-> {}]
NoVotes == [u \in {} |-> << >>]
CommentIDs == 1..MaxComments
Leaf(n) == tree[n]

Init ==
  /\ state = "unvetted" /\ vote = "open" /\ billing = << >>
  /\ tree = << >> /\ late = << >> /\ gone = {}
  /\ ridx = [s \in States |-> NoIndex] /\ torn = {}
  /\ deleting = {}
  /\ anchored = 0 /\ stamps = [c \in CommentIDs |-> {}]
  /\ events = 0
  /\ orphans = {} /\ kept = {} /\ bare = {}

-----------------------------------------------------------------------------
(* Reading comments through the record index. *)

Max0(S) == IF S = {} THEN 0 ELSE CHOOSE m \in S : \A n \in S : n <= m

\* A file that is cut off cannot be decoded: what reads the index fails.
recordIndex == ridx[state]
IndexDecodes == state \notin torn
commentExists(c) == c \in DOMAIN recordIndex
commentIDLatest == Max0(DOMAIN recordIndex)
commentVersionLatest(cidx) == Max0(DOMAIN cidx.adds)
Deleted(c) == recordIndex[c].del # 0

\* Whether a blob is in the store.
Stored(n) == n \in DOMAIN tree /\ n \notin gone

\* The digest of the record that a read of the comment needs.
Needed(c) ==
  IF Deleted(c) THEN {recordIndex[c].del}
  ELSE LET adds == recordIndex[c].adds IN {adds[commentVersionLatest(recordIndex[c])], adds[1]}

\* A read fails when one of the blobs is missing.
CanRead(c) == \A n \in Needed(c) : Stored(n)
cmdGetAllSucceeds == IndexDecodes /\ \A c \in DOMAIN recordIndex : CanRead(c)

\* What is returned of a deleted comment is its author and its parent.
comment(c) ==
  IF Deleted(c)
  THEN [Leaf(recordIndex[c].del) EXCEPT !.ver = 0, !.hint = "none"]
  ELSE Leaf(recordIndex[c].adds[commentVersionLatest(recordIndex[c])])

CreatedAt(c) == Leaf(recordIndex[c].adds[1]).ts

-----------------------------------------------------------------------------
(* The score of a comment. *)

\* What the votes of one user add up to.
UserScore(votes) ==
  FoldLeft(LAMBDA score, v : IF score = v THEN 0 ELSE v, 0, votes)

VotesOf(cidx, u) ==
  IF u \in DOMAIN cidx.votes
  THEN [i \in DOMAIN cidx.votes[u] |-> Leaf(cidx.votes[u][i]).vote]
  ELSE << >>

\* All the votes, by comment ID and then by user.
UserSeq == SetToSeq(Users)
AllVotes(users) ==
  FlattenSeq([c \in 1..Cardinality(DOMAIN recordIndex) |->
    FlattenSeq([i \in DOMAIN users |->
      LET votes == recordIndex[c].votes
      IN  IF users[i] \in DOMAIN votes THEN votes[users[i]] ELSE << >>])])

\* The votes of one page: the range includes the first vote of the next page,
\* and a full page ends the walk.
Upto(s, n) == SubSeq(s, 1, IF n < Len(s) THEN n ELSE Len(s))
InPageRange(users, page) ==
  LET upto == Upto(AllVotes(users), page * VotesPageSize + 1)
  IN  SubSeq(upto, (page - 1) * VotesPageSize + 1, Len(upto))
collectVoteDigestsPageUnbounded(users, page) == InPageRange(users, page)
collectVoteDigestsPage(users, page) == Upto(InPageRange(users, page), VotesPageSize)

-----------------------------------------------------------------------------
(* The rules of the pi plugin. *)

latestAuthorUpdateAny ==
  LET updates == {c \in DOMAIN recordIndex : comment(c).hint = "update"}
  IN  IF updates = {} THEN 0 ELSE CHOOSE c \in updates : \A d \in updates : c <= d

\* The comment with the update hint that was created last, or none.
latestAuthorUpdate ==
  LET updates == {c \in DOMAIN recordIndex : comment(c).hint = "update"}
      newer(c, d) == CreatedAt(c) > CreatedAt(d) \/ (CreatedAt(c) = CreatedAt(d) /\ c >= d)
  IN  IF updates = {} THEN 0 ELSE CHOOSE c \in updates : \A d \in updates : newer(c, d)

\* The comments above a comment, itself included.
Thread(c) ==
  LET up[d \in 0..MaxComments] ==
        IF d = 0 \/ d \notin DOMAIN recordIndex THEN {d} ELSE {d} \cup up[comment(d).parent]
  IN  up[c]

isInCommentTree(root, c) == c = root \/ (root # 0 /\ root \in Thread(c))

proposalBillingStatus == IF billing = << >> THEN "active" ELSE Last(billing)

NewAllowedOnApproved(u, parent, hint) ==
  IF parent = 0 THEN u = Author /\ hint = "update"
  ELSE isInCommentTree(latestAuthorUpdate, parent)

\* commentWritesAllowed and writesAllowedOnApprovedProposal
WritesAllowed(onApproved) ==
  \/ state = "unvetted"
  \/ vote = "open"
  \/ /\ vote = "approved"
     /\ proposalBillingStatus \notin {"closed", "completed"}
     /\ cmdGetAllSucceeds
     /\ onApproved

-----------------------------------------------------------------------------
(* The write commands. *)

\* thread is history: the latest update when a comment or a vote was made on the
\* approved proposal.
NewLeaf(kind, c, ver, u, parent, hint, v) ==
  [kind |-> kind, id |-> c, ver |-> ver, user |-> u, parent |-> parent,
   hint |-> hint, vote |-> v, state |-> state, ts |-> Len(tree) + Len(late),
   thread |-> IF state = "vetted" /\ vote = "approved" /\ kind # "del"
              THEN latestAuthorUpdate ELSE -1]

Idle == deleting = {}

Event == events < MaxEvents /\ events' = events + 1
Ready == Idle /\ IndexDecodes /\ Len(tree) + Len(late) < MaxLeaves

\* Blobs are saved to the store and their leaf is appended to the tree.
BlobSave(l) == tree' = Append(tree, l) /\ UNCHANGED <<late, gone>>
digest == Len(tree) + 1

\* The command ends before the index is saved: the wait for the leaf timed out,
\* or politeiad stopped, possibly while it wrote the file.  The leaf is in the
\* tree, or will be.
recordIndexTorn == torn' \in {torn, torn \cup {state}}
CommandLost(l) ==
  /\ Event
  /\ late' = Append(late, l)
  /\ recordIndexTorn
  /\ UNCHANGED <<tree, gone, ridx, orphans, deleting>>

recordIndexSave(c, cidx) ==
  ridx' = [ridx EXCEPT ![state] = Put(recordIndex, c, cidx)] /\ UNCHANGED torn

Counted == IF state = "unvetted" THEN Event ELSE UNCHANGED events

Save(l, c, cidx) ==
  \/ BlobSave(l) /\ recordIndexSave(c, cidx) /\ Counted /\ UNCHANGED <<orphans, deleting>>
  \/ CommandLost(l)

Other == UNCHANGED <<record, anchored, stamps, kept, bare>>

NewCommentID == commentIDLatest + 1

cmdNew(u, parent, hint) ==
  /\ Ready
  /\ parent > 0 => commentExists(parent)
  /\ WritesAllowed(NewAllowedOnApproved(u, parent, hint))
  /\ LET c == NewCommentID
     IN  c \in CommentIDs /\ Save(NewLeaf("add", c, 1, u, parent, hint, 0), c,
              [adds |-> [v \in {1} |-> digest], del |-> 0, votes |-> NoVotes])
  /\ Other

\* pi has no hook on edits.  The first version of the comment is read for the
\* edit period, which may be of any length here, so a deleted comment is not
\* edited, unless its blobs are left.
cmdEdit(c) ==
  /\ Ready
  /\ commentExists(c)
  /\ Stored(recordIndex[c].adds[1])
  /\ CanRead(c)
  /\ LET old == comment(c)
         ver == old.ver + 1
         l == NewLeaf("add", c, ver, old.user, old.parent, old.hint, 0)
     IN  Save([l EXCEPT !.thread = -1], c,
              [recordIndex[c] EXCEPT !.adds = Put(@, ver, digest)])
  /\ Other

\* A deleted comment may be deleted again.  Its blobs are deleted once the
\* index is saved.
Deletes(c) == {recordIndex[c].adds[v] : v \in DOMAIN recordIndex[c].adds}

DelLeaf(c) == NewLeaf("del", c, 0, comment(c).user, comment(c).parent, "none", 0)

cmdDelBlobsFirst(c) ==
  /\ Ready /\ commentExists(c) /\ CanRead(c) /\ WritesAllowed(TRUE)
  /\ Event
  /\ gone' = gone \cup Deletes(c)
  /\ late' = Append(late, DelLeaf(c))
  /\ UNCHANGED <<tree, index, orphans, deleting>>
  /\ Other

cmdDel(c) ==
  /\ Ready
  /\ commentExists(c) /\ CanRead(c)
  /\ WritesAllowed(TRUE)
  /\ \/ /\ BlobSave(DelLeaf(c))
        /\ recordIndexSave(c, [recordIndex[c] EXCEPT !.del = digest])
        /\ deleting' = Deletes(c)
        /\ Counted /\ UNCHANGED orphans
     \/ CommandLost(DelLeaf(c))
  /\ Other

\* The blobs are deleted in one transaction of the store.
BlobsDel ==
  /\ ~Idle
  /\ gone' = gone \cup deleting
  /\ deleting' = {}
  /\ bare' = bare \cup {n \in deleting \ gone : n > anchored}
  /\ UNCHANGED <<record, tree, late, index, anchored, stamps, events, orphans, kept>>

\* The deletion fails and is logged, or politeiad stops before it.
BlobsDelError ==
  /\ ~Idle
  /\ Event
  /\ kept' = kept \cup (deleting \ gone)
  /\ deleting' = {}
  /\ UNCHANGED <<record, leaves, index, anchored, stamps, orphans, bare>>

TooManyVotes(c, u) == Len(VotesOf(recordIndex[c], u)) > VoteChangesMax
cmdVote(c, u, v) ==
  /\ Ready
  /\ commentExists(c)
  /\ WritesAllowed(isInCommentTree(latestAuthorUpdate, c))
  /\ ~TooManyVotes(c, u)
  /\ CanRead(c)
  /\ comment(c).user # u
  /\ LET old == recordIndex[c].votes
         mine == IF u \in DOMAIN old THEN old[u] ELSE << >>
     IN  Save(NewLeaf("vote", c, 0, u, 0, "none", v), c,
              [recordIndex[c] EXCEPT !.votes = Put(old, u, Append(mine, digest))])
  /\ Other

\* Trillian integrates a queued leaf.
Integrate ==
  /\ late # << >>
  /\ tree' = Append(tree, Head(late)) /\ late' = Tail(late)
  /\ orphans' = orphans \cup {digest}
  /\ UNCHANGED <<record, gone, index, deleting, anchored, stamps, events, kept, bare>>

-----------------------------------------------------------------------------
(* Timestamps: the ones that are final are cached, with their data. *)

Digests(c, includeVotes) ==
  LET cidx == recordIndex[c] IN
  Deletes(c) \cup ({cidx.del} \ {0})
  \cup (IF includeVotes THEN UNION {Range(cidx.votes[u]) : u \in DOMAIN cidx.votes} ELSE {})

timestamp(c, n) ==
  IF \E t \in stamps[c] : t.digest = n
  THEN CHOOSE t \in stamps[c] : t.digest = n
  ELSE [digest |-> n, data |-> Stored(n), final |-> n <= anchored]

commentTimestamps(c, includeVotes) == {timestamp(c, n) : n \in Digests(c, includeVotes)}
finalCommentTimestampsAny(c, includeVotes) == commentTimestamps(c, includeVotes)
finalCommentTimestamps(c, includeVotes) == {t \in commentTimestamps(c, includeVotes) : t.final}

\* The entry of a comment ID is replaced when one of its timestamps is final.
cmdTimestamps(c, includeVotes) ==
  /\ IndexDecodes /\ commentExists(c)
  /\ LET final == finalCommentTimestamps(c, includeVotes)
     IN  final # {} /\ stamps' = [stamps EXCEPT ![c] = final]
  /\ UNCHANGED <<record, leaves, index, deleting, anchored, events, history>>

\* The tree is anchored (see Anchor).
AnchorTree ==
  /\ Event
  /\ anchored' = Len(tree)
  /\ UNCHANGED <<record, leaves, index, deleting, stamps, history>>

-----------------------------------------------------------------------------
(* The file system check, which runs when politeiad starts. *)

\* The leaves of the state of the record, and their digests in tree order.
Current(kind) == {n \in DOMAIN tree : Leaf(n).kind = kind /\ Leaf(n).state = state}

Indexed ==
  UNION {Digests(c, TRUE) : c \in DOMAIN recordIndex}

recordIndexIsCoherent ==
  \A n \in DOMAIN tree : Leaf(n).state = state => n \in Indexed

\* The blob of every leaf is read, and a vote needs the index of its comment.
CanRebuild ==
  /\ \A n \in DOMAIN tree : Leaf(n).state = state => Stored(n)
  /\ \A n \in Current("vote") : \E m \in Current("add") \cup Current("del") : Leaf(m).id = Leaf(n).id

\* Of two leaves with the same key the last one is taken.
FirstLeaf(S) == IF S = {} THEN 0 ELSE CHOOSE n \in S : \A m \in S : n <= m
LastLeaf(S) == Max0(S)
InTreeOrder(S) ==
  [i \in 1..Cardinality(S) |-> CHOOSE n \in S : Cardinality({m \in S : m <= n}) = i]
Rebuilt(c) ==
  LET adds(v) == {n \in Current("add") : Leaf(n).id = c /\ Leaf(n).ver = v}
      votes(u) == {n \in Current("vote") : Leaf(n).id = c /\ Leaf(n).user = u}
      vers == {v \in 1..MaxLeaves : adds(v) # {}}
      voters == {u \in Users : votes(u) # {}}
  IN  [adds |-> [v \in vers |-> LastLeaf(adds(v))],
       del |-> LastLeaf({n \in Current("del") : Leaf(n).id = c}),
       votes |-> [u \in voters |-> InTreeOrder(votes(u))]]

\* The index is read before it is compared, so one that is torn is not rebuilt;
\* and politeiad may stop while it writes the new one.
fsckRecordIndex ==
  /\ Idle /\ IndexDecodes
  /\ ~recordIndexIsCoherent /\ CanRebuild
  /\ \/ /\ ridx' = [ridx EXCEPT ![state] =
             [c \in {Leaf(n).id : n \in Current("add") \cup Current("del")} |-> Rebuilt(c)]]
        /\ UNCHANGED <<torn, events>>
     \/ Event /\ recordIndexTorn /\ UNCHANGED ridx
  /\ UNCHANGED <<record, leaves, deleting, anchored, stamps, history>>

-----------------------------------------------------------------------------
(* The record and its vote (see RecordStore and TicketVote). *)

RestUnchanged == UNCHANGED <<leaves, index, deleting, anchored, stamps, events, history>>

MakePublic ==
  /\ Idle /\ state = "unvetted" /\ state' = "vetted"
  /\ UNCHANGED <<vote, billing>> /\ RestUnchanged

VoteEnds ==
  /\ Idle /\ state = "vetted"
  /\ vote = "open" /\ vote' \in {"approved", "rejected"}
  /\ UNCHANGED <<state, billing>> /\ RestUnchanged

cmdSetBillingStatus(s) ==
  /\ Idle
  /\ state = "vetted" /\ vote = "approved"
  /\ Len(billing) + 1 <= BillingStatusChangesMax
  /\ s # proposalBillingStatus
  /\ billing' = Append(billing, s)
  /\ UNCHANGED <<state, vote>> /\ RestUnchanged

\* A reply may have any hint too: the hook looks at the hint of base comments only.
NewInputs == ({0} \cup CommentIDs) \X Hints

Next ==
  \/ \E u \in Users, in \in NewInputs : cmdNew(u, in[1], in[2])
  \/ \E c \in CommentIDs :
       \/ cmdEdit(c) \/ cmdDel(c)
       \/ \E u \in Users, v \in {1, -1} : cmdVote(c, u, v)
       \/ \E b \in BOOLEAN : cmdTimestamps(c, b)
  \/ BlobsDel \/ BlobsDelError \/ Integrate \/ AnchorTree \/ fsckRecordIndex
  \/ MakePublic \/ VoteEnds
  \/ \E s \in BillingStatuses : cmdSetBillingStatus(s)

Spec == Init /\ [][Next]_vars

-----------------------------------------------------------------------------
(* Properties *)

\* A write that was acknowledged stays in the record index (cmdNew, cmdEdit,
\* cmdDel, cmdVote, rebuildRecordIndex), unless a later leaf has the same
\* comment ID and version or deletes the same comment, and as long as the file
\* of the index was never cut off.
WritesAreIndexed ==
  \A n \in DOMAIN tree : Leaf(n).state = state /\ n \notin orphans /\ IndexDecodes =>
    \/ n \in Indexed
    \/ /\ Leaf(n).kind # "vote"
       /\ \E m \in DOMAIN tree : /\ m > n /\ Leaf(m).kind = Leaf(n).kind
                                 /\ Leaf(m).state = state
                                 /\ Leaf(m).id = Leaf(n).id /\ Leaf(m).ver = Leaf(n).ver

\* Unless the file of the index was cut off: a comment that is not deleted can
\* be read, so that cmdGetAll, which pi calls before every write on an approved
\* proposal, succeeds; and the comment IDs have no gap, which
\* collectVoteDigestsPage takes for granted.
CommentsAreReadable ==
  IndexDecodes => cmdGetAllSucceeds /\ DOMAIN recordIndex = 1..Cardinality(DOMAIN recordIndex)

\* Where the text of a deleted comment can still be.  Once the delete command
\* has ended no version is left in the store (cmdDel), unless a deletion failed
\* or politeiad stopped before it, or the comment was deleted by fsck because
\* the delete command had not got to save the index.  And the timestamps that
\* are cached have the text of those versions alone that were anchored before
\* they were deleted (finalCommentTimestamps): those keep it.
DeletedTextIsGone ==
  /\ Idle => \A s \in States : \A c \in DOMAIN ridx[s] :
       ridx[s][c].del # 0 /\ ridx[s][c].del \notin orphans =>
         \A v \in DOMAIN ridx[s][c].adds :
           \/ ridx[s][c].adds[v] \in gone
           \/ \E n \in kept : Leaf(n).id = c /\ Leaf(n).state = s
  /\ \A c \in CommentIDs : \A t \in stamps[c] : t.digest \in bare => ~t.data

\* The pages of cmdVotes contain every vote once and in order, for all users
\* and for one of them.
PagesPartitionVotes ==
  \A users \in {UserSeq} \cup {<<u>> : u \in Users} :
    LET all == AllVotes(users)
    IN  FlattenSeq([p \in 1..(Len(all) + 1) |-> collectVoteDigestsPage(users, p)]) = all

\* A comment that carries the hint of an update on the vetted proposal.
IsHinted(n) ==
  Leaf(n).kind = "add" /\ Leaf(n).ver = 1 /\ Leaf(n).state = "vetted" /\ Leaf(n).hint = "update"

\* The author's update that the write n was made under: the last one before it
\* that was not deleted by then.
IsUpdateOf(m, n) ==
  /\ IsHinted(m) /\ Leaf(m).user = Author /\ Leaf(m).id = Leaf(n).thread
  /\ \A k \in (m + 1)..(n - 1) : IsHinted(k) =>
       \E d \in 1..(n - 1) : /\ Leaf(d).kind = "del" /\ Leaf(d).state = "vetted"
                             /\ Leaf(d).id = Leaf(k).id

\* If nobody has put the hint on a comment from before the end of the vote or on
\* a reply, which the hook does not look at: the author alone starts threads on
\* the approved proposal, with updates, and other comments and votes are in the
\* thread of the author's latest update at that time, all others being locked
\* (writesAllowedOnApprovedProposal).  A leaf that is integrated late may take
\* over a comment ID, and with it the place in the thread.
ApprovedWritesAreInUpdateThreads ==
  orphans = {} /\ (\A n \in DOMAIN tree : IsHinted(n) => Leaf(n).parent = 0 /\ Leaf(n).thread # -1)
    => \A n \in DOMAIN tree : Leaf(n).thread # -1 =>
         \/ IsHinted(n) /\ Leaf(n).parent = 0 /\ Leaf(n).user = Author
         \/ \E m \in 1..(n - 1), c \in CommentIDs :
              /\ IsUpdateOf(m, n)
              /\ c = IF Leaf(n).kind = "vote" THEN Leaf(n).id ELSE Leaf(n).parent
              /\ Leaf(n).thread \in Thread(c)

=============================================================================
