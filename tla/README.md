# Verification of politeia

TLA+ models of politeia: of politeiad, which keeps proposals ("records") and their
comments and votes in append-only trillian trees (`politeiad/backendv2/tstorebe`) or, for
the older API, in git repositories (`politeiad/backend/gitbe`), and of the parts of the web
server politeiawww that keep state of their own, paywalls and invoices. TLC checks the
models on small instances; TLAPS proves, for every instance, every safety and action property
that a passing run checks, and that the record store implements atomic updates. Only the
liveness properties are left to TLC.

## The system

| Part | State | Operations | Talks to | Module |
|---|---|---|---|---|
| tstore backend (`tstorebe.go`) | a mutex per record, the shutdown flag | RecordNew, RecordEdit, RecordEditMetadata, RecordSetStatus, PluginWrite, Fsck, reads | tstore, inventory, plugin hooks | RecordStore, Inventory |
| tstore records (`tstore/record.go`, `recordindex.go`, `extradata.go`) | none of its own: a trillian tree per record, blobs in the store | RecordSave, RecordFreeze, RecordDel, Record, RecordLatest | trillian client, key-value store | RecordStore |
| trillian client (`tlog/client.go`) | none; trillian queues leaves and integrates them later | TreeNew, LeavesAppend, TreeFreeze, LeavesAll | trillian | RecordStore, Anchor |
| key-value store (`store/mysql`, `store/localdb`) | blobs by key, encrypted for unvetted data | Put, Get, Del, each a transaction | MySQL, leveldb | RecordStore |
| anchoring, freezing (`tstore/anchor.go`, `dcrtime.go`, `freeze.go`) | `droppingAnchor`, tree states; a cron job and a goroutine per drop | anchorTrees, anchorWait, anchorSave, anchorForLeaf, freezeTrees | trillian client, dcrtime | Anchor |
| inventory (`inventory.go`) | two json files | invAdd, invUpdate, invMoveToVetted, invByStatus | file system | Inventory |
| tstore client (`tstore/tstoreclient.go`) | none | BlobSave, Blobs, BlobsDel, plugin cache | trillian client, key-value store | Ballot, Comments |
| ticketvote (`plugins/ticketvote`) | vote inventory, submissions and summaries in the key-value store, active votes in memory | authorize, start, cast ballot, summary, inventory, hooks, set up, fsck | tstore client, dcrdata, backend | TicketVote, Ballot |
| comments (`plugins/comments`) | a record index file per record, timestamps cache | new, edit, del, vote, reads, timestamps, fsck | tstore client | Comments |
| pi (`plugins/pi`) | a bounded cache of proposal statuses, billing statuses in the tree | hooks, setBillingStatus, summary | ticketvote, comments, backend | ProposalStatus, Comments |
| usermd, dcrdata plugins | caches | hooks; best block | tstore client, dcrdata | - |
| politeiad (`politeiad.go`, `v1.go`, `v2.go`) | HTTP sessions, configuration | handlers, start up, optional fsck | backend | Inventory (start up) |
| git backend (`backend/gitbe`) | two git repositories, staged files, the last and the unconfirmed anchors | New, Update..., Set...Status, rebasePR, anchorAllRepos, anchorChecker | git, dcrtime | GitBe |
| politeiawww paywalls (`legacy/paywall.go`, `piuser.go`, `records/pi.go`) | user records in a database, a pool of polled paywalls in memory | issue, pay, poll, rescan, spend a credit | user database, block explorers | Paywall |
| politeiawww invoices (`legacy/invoices.go`, `cmsaddresswatcher.go`) | the cms database, which mirrors records of politeiad | new, edit, set status, pay, watch addresses | politeiad, cockroachdb, dcrdata | Invoices |
| politeiawww dcrdata client (`wsdcrdata`) | subscriptions and pending events | Subscribe, Reconnect | dcrdata | Invoices |
| other politeiawww parts, politeiavoter, pictl and tools | users, sessions, mail; none | web API, trickled voting | politeiad over HTTP | - |

What is hard in it:

* An update is many steps on two stores with no transaction across them and no
  unwinding. It relies on the last step, the append of the record index, being the
  commit point.
* Trillian acknowledges a leaf when it is queued. When waiting for its integration
  times out the request fails, yet the leaf appears later.
* Content is identified by its digest: what is in the tree once is not saved again,
  although it may have been saved encrypted, under a key that readers of the public
  record do not use.
* Anchoring runs beside the requests and takes none of their locks; a drop waits for
  up to three hours for dcrtime.
* A ballot casts votes in concurrent goroutines of several steps, again without
  unwinding; which of several votes of a ticket counts is decided by the order of leaves.
* The caches are written after the data they cache, several of them one after the
  other, and are rebuilt only on request. Each looks for what it replaces where the last
  update should have left it, and panics otherwise.
* Reads take no record lock, and some of them write: the first summary after the end of
  a vote decides its outcome, a read of a proposal status caches it.
* A runoff vote is started on one record after the other, and a failed start is resumed
  by another request.
* The git backend brings a change to the vetted repository with a dozen git commands in
  two repositories, any of which may fail or be the last before a stop.
* politeiawww reads whole user records and database rows, changes them and writes them back;
  nothing serialises requests, polls and watchers.

## Modules

`RecordStore` — one record. `tree` is the set of integrated leaves, `queue` the leaves
trillian holds but has not integrated, `store` the keys in the key-value store. Every
write operation takes the record lock (`pc`), works out its new index (`cur`) and goes
through the steps of `recordSave` and `recordIndexSave`: SaveBlobs, AppendLeaves or
AppendDuplicate, ResavePlainText when the record is made public, PutIndex, AppendIndex,
and RecordDel when it is censored. `Fail` cuts the operation short before any step and
leaves any part of the leaves in flight queued; it stands for errors, time-outs and
stops of politeiad, which all leave the same state. `Integrate` is the trillian signer.
Reads are the operators recordIndexes, Sane (the sanity check), recordIndex and record.
Time is in seconds and need not advance between two operations, so that two attempts
can have equal record metadata. The tree is a set: the code uses the order of leaves
only to sort index iterations. `RecordNew` creates its tree in the same step; the tree
that is left when it fails is in `Inventory`. Plugin hooks can refuse an operation,
which then does not begin. Verification of files and tokens is left out; files and
stream payloads are model values. `exposed` and `acked` are history variables.
Two constants describe the environment. `Timely` says that queued leaves are integrated
between two operations; `ReAdd = FALSE` says that users do not submit, to a public
record, content which it lost before it became public.

`RecordHistory` — the abstract record: one atomic, legal step per update. RecordStore
implements it under the refinement `rec <- {Abstract(i) : i \in Latest(tree)}`.

`RecordStore_proofs` — theorems about RecordStore.

`Anchor` — trees as sequences of leaves (record data, the index that freezes the
record, anchors), the jobs that call anchorTrees (cron, fsck), the anchorWait
goroutines, dcrtime as the sets `submitted` and `confirmed`. anchorWait tests the flag
in WaitStart and sets it in WaitSet, as the code takes the lock twice. `PollError`
stands for a failed call and for the end of the retries. Roots are identified by tree
and size, since a trillian tree is append-only. Reading the leaves of a tree during a
scan is atomic over the trees: a record that changes between two reads of the scan is
the same as one that changes before or after it, as trees are independent.

`Inventory` — the two files, requests on several records that save the record and later
update the files, crashes that leave some of the writes (the last perhaps torn, since
`os.WriteFile` truncates), restarts with and without the fsck, which rebuilds the files
one record at a time. A failed update panics; the HTTP middleware recovers, the reply
is lost and the file stays as it was. A request whose save takes effect may also fail before it
gets to the files: RecordDel after the freeze, or an index leaf that times out and is integrated
all the same (`SaveUnlisted`). `dirty` is a history variable: an update was lost
since the last rebuild, by a crash or by such a request. Time stamps are save numbers. `tokensParse` is the page
calculation, with `Uint` in the place of 2^32, and `Collected` its loop. `FsckOrders` are the orders
in which the fsck may add the records: records of the same time stamp come in any order. What is read from
the files (`tokensParse`) and what the files promise is in `InventoryFiles`, which Inventory extends.

`Ballot` — ticket votes on one record with a started standard vote. `leaves` is the
sequence of vote and collider leaves of its tree, `queue` what trillian has not
integrated, `active` the entry in the active votes cache, `summary` the cached summary.
A ballot holds the record lock from cmdCastBallot to BallotDone and goes through Validate
and CommitmentAddrs; then each vote has a goroutine that takes castVoteDetailsSave,
voteColliderSave and AddCastVote, batch after batch. CastError is a failed save, which may
leave its leaf queued; BallotError a failure of dcrdata. A summary request is the steps
SummaryGet, SummaryTally, SummaryResults, SummarySave and SummaryDel, at any time after the
end of the vote. Restart is a stop of politeiad anywhere and the rebuild of the cache by
Setup. `Counts` is voteResults' choice of the valid vote; its error on two colliders and its
fallback to the first blob are excluded by CollidersAreSound. Votes that fail the validation
by themselves (vote bit, eligibility, signature) are left out of the ballots, and a ballot
that starts after the end of the vote changes nothing. A vote leaf carries its time stamp in
seconds: a retry within the second is a duplicate leaf, a later one a second vote. `Distinct` says
that a ballot names no ticket twice, `Timely` that queued leaves are integrated between two
ballots. Without them receipts and cache can name another vote of the ticket than the one that
counts: ReceiptsCount and CachedVotesCount need both, the other properties neither.

`TicketVote` — the life of the votes on several records, of which some are submissions to a
runoff vote on one parent. `status`, `auth`, `details`, `srr` and `votes` are what the trees
say (record status, vote authorization, vote details, start of the runoff, cast votes), `late` the
vote details and starts of runoffs that trillian has not integrated; `inv`
and `subs` are the vote inventory and the submissions list in the key-value store, `sums` the
cached summaries, `active` the active votes in memory. A write command appends to the tree in
one step and then updates its caches in others, in the order of the code, so that commands on
different records interleave; the lock of a record is held throughout. An update that does not
find its entry panics, which ends the request (the HTTP middleware recovers). `startRunoff`
saves the start on the parent, `startRunoffForSub` goes through the submissions, and both look
first for what an earlier attempt left. `summary` decides an ended vote, in a runoff all of its
submissions at once. `Block` is a new best block; `updateBlockHeight` moves ended votes in the
inventory. Crash, `Setup` (which may fail) and `fsck` are those of politeiad. `lost`, `reauth`,
`rebuilt` and `acked` are history variables. Vote options are two; the votes that are cast are a
tally of `Tallies` at any time while the vote is active.

`Comments` — the comments on one record. `tree` is the sequence of leaves (add, edit, delete,
vote), `late` the ones trillian holds back, `gone` the leaves whose text was deleted, `ridx` the
record index per state. A digest is the position of a leaf. The commands hold the record lock:
a command is one action, except that a deletion deletes its blobs in steps of their own and that
the save of the leaf or of the index may be the last thing it does (`CommandLost`,
`BlobsDelError`). A stop in the save of the index may cut the file off (`recordIndexTorn`, since
`os.WriteFile` truncates first); `torn` has the states whose index no longer decodes, in which every
command, every read and the fsck fails. `fsckRecordIndex` rebuilds the index from the leaves, if it can read the one
that is there. `stamps` are the timestamps in the cache, which keep the text they were saved with.
`collectVoteDigestsPage`
is the page calculation of cmdVotes. The hooks of pi (`WritesAllowed`, `Thread`) are part of the
commands; the ticket vote is the variable `vote`. `orphans` and `kept` record what a fault did, `bare` the
leaves whose text was deleted before they had a final timestamp.

`ProposalStatus` — pi's getProposalStatus for several proposals. A read goes through the cache
look up, the record, the vote summary, the billing statuses and the cache update as steps, while
`record`, `vote` and `billing` change under it in any legal order. `data` and `entries` are the
cache and its order of eviction. `seen`, `buried` and `raced` are history variables. The status
functions and what a reply promises are in `ProposalReplies`, which ProposalStatus extends.

`Paywall` — one user of politeiawww. `db` is the user record, `pool` his entry among the polled
paywalls, `chain` the transactions to his address. Each request has its copy of the record from
the look up (`Begin`) to its write; `checkForPayments` is the poll, which copies the pool, looks
the user up, asks a block explorer and removes the entry. `serial` is chosen at the start: in a
serial behaviour requests and polls of the user happen not to overlap. Restart rebuilds the pool.
A request may end with an error after politeiad accepted the proposal (`processNewError`), or be
stopped there; `unpaid` counts these, and `overwritten` says that some write replaced a user record whose
spent credits the writer had not read. Amounts are in units of the price of a credit.

`Invoices` — invoices of cmswww. `pd` are the records of politeiad with their status changes,
`rows` the database with a row per version, `ws` the dcrdata client with its subscriptions,
`queue` the address messages. Requests read the latest row, change politeiad, then write the row;
`checkPayments` and `invoiceStatusPaid` are the watcher. Restart rebuilds the database from
politeiad and subscribes again. `serial` is as in Paywall. Versions are compared as
text, as in the database: `Before` is the order of numerals of one and two digits in base `Radix`, and
`InvoiceByToken` the last version in that order. The connection to dcrdata drops at any
time. Reconnect is a loop: `Connect` sets a new client, `Resubscribe` and `Replay` subscribe to one
address after the other and skip what is marked as subscribed, and `ReconnectFails` starts over with
the marks as they are. `subs` are the marks, `live` the addresses that the present connection has, `lost` those that
were dropped on the way without a word. A subscription of a request is two steps, subscribe and mark
(`addWatchAddress`, `subAdd`), and a pending one the look at the status and the entry (`pendingAdd`).

`GitBe` — the two git repositories of the older backend. A repository is a sequence of commits on
master and on branches; a hash is a sequence of commit numbers. A request stages its files
(`Stage`), commits them (`gitCommit`), and what concerns vetted goes through rebasePR: rebase in
unvetted, push, replay in vetted, deletion of the branch, pull in unvetted. `GitFails` is a git
command that fails in any of these steps together with what the request does about it: it unwinds
(`Unwind`), the unwinding fails at one of its commands and is only logged (`NotUnwound`), or there is
none, as when an edit can not copy or add its new version (`EditLeaves`). Crash stops
politeiad there. `unvetted.index` are the files that are staged or, of kind "untracked", only in the
working tree; what a commit takes along besides its own is its `carried`. Requests read the record in the working
tree (`WorkingTree`), hence also what is only staged. `left` is a history variable: everything that a stop, a
failed unwinding or a missing one left behind. anchorRepo and anchorAllRepos drop anchors, `anchorChecker` reads and
verifies them without the lock, `afterAnchorVerify` commits the confirmations one by one; it gives up at one that is not
mined (`notEnoughConfirmations`) or fails (`ConfirmationFails`). `Rebased` keeps the
numbers of commits; conflicts do not occur, as records are directories of their own.

`Anchor_proofs`, `Ballot_proofs`, `TicketVote_proofs`, `Comments_proofs`, `Paywall_proofs`,
`Invoices_proofs`, `GitBe_proofs` — theorems about the modules of these names. `Anchor_proofs` also
has those about Inventory, which it instantiates as `INV`, and `TicketVote_proofs` those about
ProposalStatus, as `PS`; their properties are those of InventoryFiles and ProposalReplies, which they extend.

`MCRecordStore`, `MCAnchor`, `MCInventory`, `MCBallot`, `MCTicketVote`, `MCComments`,
`MCProposalStatus`, `MCPaywall`, `MCInvoices` and `MCGitBe` declare model values and symmetry.
Operators whose comment begins with "Mutant" are deliberate mistakes: substituted for the
definition that follows, each makes a named property fail.

## Runs

| Run | Configuration | What it shows |
|---|---|---|
| record_faults | 2 files, 1 stream, 4 operations, 1 fault, late leaves, any content | the invariants of tree and store that hold without any assumption on the environment |
| record_history | the same, timely leaves, no content comes back | updates are atomic and legal (refinement), reads are complete, acknowledged censoring removes the files |
| anchor_drop | 2 trees, cron job, 2 goroutines, 1 update, 1 fault | anchors are confirmed and found, leaves get anchored and trees frozen |
| inventory_cache | 3 records, 5 saves, 2 crashes or requests that fail after their save, restarts with and without fsck | the files follow the records until an update is lost and after a rebuild; pages are complete |
| ballot_cast | 2 tickets, 2 options, 2 ballots in batches of 2, 1 summary request, 1 second, 2 faults, timely leaves, distinct tickets | colliders are sound, receipts and cached votes are the votes that count, and these stay |
| vote_lifecycle | 1 standard record, 2 submissions, 2 concurrent commands, one tally, 2 blocks, 6 writes, 1 fault | inventory, active votes and summaries follow the trees, started votes can be read, a runoff has one winner, outcomes are final |
| vote_runoff | 2 submissions, 5 writes, no faults | violated: a runoff whose submission was not authorized is reported as started and cannot be voted on |
| comment_threads | 2 users, 4 leaves, 2 comments, 1 event (write on the unvetted record, late leaf, failed deletion, anchor), any number of lost or torn saves, page size 1 | writes are indexed and comments readable while the index decodes; deleted text is gone but for faults and final timestamps; pages partition the votes; threads of approved proposals |
| proposal_reads | 2 proposals, one of which is idle, 2 readers, a cache of 1 entry, 2 billing changes, 1 edit | what a read replies was the status of the proposal during the read |
| paywall_credits | 2 concurrent requests, 3 in all, 4 time units, 1 payment, 1 restart | one valid paywall; credits account for proposals up to failed and interrupted requests; valid paywalls are polled; polling stops |
| invoice_payments | 2 invoices, versions to 4 in base 3 (1, 2, 10, 11), 2 addresses, 4 requests, 1 transaction, 2 faults | rows follow records, approved invoices are watched, paid is final |
| git_repositories | 2 records, 4 commits, 2 anchors, 1 fault | vetted history is append-only and anchored once; a commit takes along only what a stop or a failed or missing unwinding left |

Why the bounds are enough. Four operations create a record, edit it or its metadata, publish and
then update, censor or archive it, or repeat any of these after a failure; one fault gives
every place at which an operation can end and every set of leaves it can leave behind,
with three operations after or before it. Two files give an edit that replaces, adds,
removes or brings back a file. Two trees are what it takes for a drop that mixes an old and a
new digest; two goroutines for an overlap. Two crashes give a crash during the rebuild that
follows a crash. Two ballots give a vote and its retry, with the same or the other option, in the
same or in another second; two faults a failed vote and a restart, or two tickets that fail in the
same batch. Six writes authorize, start and end a runoff with two submissions, or a standard vote
beside it; two commands at a time are the pairs of records whose caches they share. The tally
<1, 0> of 2 eligible tickets passes the quorum of 50 % exactly at the boundary. Four
comment leaves give a comment, its edit, its deletion and another write, or two comments with
votes; a page of one vote ends inside and between the lists of two users. A cache of one entry is
full when it is used at all. Two invoices of two versions give an address that one of them gave up
and the other has, and a payment of both in one request; the third version is the first with two digits, and an edit
after it finds the second; two faults give a reconnection that fails midway after a failed request; requests that overlap are outside the
properties of Invoices (`serial`), so there is one at a time beside the watcher. Four commits give a new record, its edit, its publication and an edit
of the published record, or two records that interleave.

Deadlock is checked in record_faults, record_history, anchor_drop, inventory_cache and
ballot_cast, where `Waiting` and `Read` are the idle server. The other configurations say
CHECK_DEADLOCK FALSE: their requests are bounded and the system may come to rest.

Fairness. `Anchor`: the cron job keeps running, goroutines are scheduled, and dcrtime
confirms what was submitted; failures are bounded in number. `AnchorTrees` lets the
cron job start only after the goroutine of its own last run has tested and set the flag,
which the hour between two runs justifies; the fsck and the cron job have no such
distance. `Inventory`: an operator restarts politeiad, and the fsck goes on (no property rests on
it). `Paywall`: the poll
is a loop that goes on as long as politeiawww runs, and a request that was taken is handled;
nothing else is fair, a user need not pay. The other modules need no fairness: all their
properties are safety properties.

## The violation

*vote_runoff.* The start of a vote looks for the record under Authorized in the vote inventory.
A submission to a runoff need not be authorized, so the entry is not found, the update
panics after the vote details were saved, and the repeated request, which finds the
details, goes on without putting the submission among the active votes. `PROJECT.json` quotes the comment that
says that authorization is not needed.

## Known deviations

What the models exclude or except, because the code does not guarantee it. Line numbers are of
`politeiad/backendv2/tstorebe`, `politeiad/backend/gitbe` and `politeiawww`.

Records. A file that is replaced before publication and comes back in an edit of the public
record is not saved again and stays encrypted under a key that readers do not ask for
(tstore/record.go:217; constant `ReAdd`). An index that is integrated late has the iteration
of the next one and makes the record unreadable (tlog/client.go:331, recordindex.go:240;
`Timely`). Censoring a vetted record leaves the files that only unvetted versions had
(record.go:499). When politeiad stops, or RecordDel fails, after a censored record was frozen (tstorebe.go:654), its files stay in the
store, since a retry is refused; CensoredFilesAreGone is about censoring that was acknowledged. A tree can be frozen when its last leaf is an anchor of an older root
(freeze.go:106), and the fsck's and the cron job's drops can overlap (anchor.go:281). One
RecordNew that fails after TreeNew leaves a tree without a record, for which every later fsck
fails (tstorebe.go:1035).

Inventory. A request that fails after its record was saved returns without updating the inventory: RecordDel
may fail after the freeze (tstorebe.go:662), and the index leaf whose inclusion timed out is integrated
later (tlog/client.go:331). The files are then wrong, without a stop of politeiad, until the next start
with --fsck, and an update that needs the entry panics. CacheIsCoherent excepts the time from such a loss to the rebuild
(`dirty`), and PagesAreComplete holds throughout. The late leaf is modelled as taking effect when no request works on that record.

Votes. A ballot that is validated before the end of the vote is saved after it, and a summary in
between caches a tally without it for good (ticketvote/cmds.go:2639, summaries.go:26). A vote that
was authorized, started and revoked lists under the wrong status, and when it ends the update
of the block height fails and politeiad does not start again, as set up runs before the fsck. An
authorization can be revoked after the start, and pi then lets the author edit. A started vote
whose start was lost in a crash is not among the active votes until the next set up; the fsck
rebuilds inventory and summaries, not the active votes. The winner of a runoff may be an archived
submission, and of two equal ones it is the first. InventoryIsCoherent and OutcomesAreFinal except
records with these histories.

Two attempts of a ticket within one second with the same option are one leaf, so a third attempt,
with another option in between, is not appended again: its receipt names a vote that another one
has followed (cmds.go:1335; `Overtaken` in ReceiptsCount and CachedVotesCount).

Comments. A comment whose index was not saved leaves its ID to the next one, and after a rebuild
either may have it. A leaf that is integrated late takes over an ID. Deleting a comment twice
makes the fsck fail. Deleting the latest update opens the thread of the one before. The properties
except comments in `orphans`.

The index is written with os.WriteFile, which truncates and then writes (recordindex.go:136). A stop in between leaves
a file that does not decode: every command and read of the comments on that record then returns an error
(recordindex.go:111), although the comment at line 144 says that the index can be rebuilt, since the fsck reads the
old index first (fsck.go:41) and fails too. The fsck runs at start alone, when politeiad is started with
--fsck (politeiad.go:372), and then politeiad does not start until the file is removed. WritesAreIndexed and
CommentsAreReadable hold as long as the index decodes (`IndexDecodes`). Any
error of a path in reading the index is taken for an index that is not there (recordindex.go:100); the models have none.

Deleted text. The docs promise that a deletion is permanent and that a timestamp of a deleted comment has no data
(plugins/comments/comments.go:222, 429, 564). A timestamp that was requested when it was final, before the deletion,
stays in the cache with its text and is served (timestamp.go:96, cmds.go:386). Of the text in the store cmds.go:1001
says that the fsck will delete it when the deletion failed; it does not, nor after a stop between the save of the
deletion and the blobs. DeletedTextIsGone says that there is no text but in these places: in the
store after a stop, a failed deletion or a deletion that the fsck recovered, and in a cached timestamp if it was
final before the deletion.

Threads. pi's doc says that on an approved proposal only the author opens threads, with updates, and that all other threads
are locked (hooks.go:627). The hook finds the latest update by its hint alone (hooks.go:742): a comment hinted as
an update before the vote, by anyone, or in a reply, counts as well, so that it keeps its old thread open, or
a thread of somebody else. With no update at all the author's first one is the only write possible.
ApprovedWritesAreInUpdateThreads states the doc, for records without such hints.

Proposal status. A final status stays in the cache when the record is archived or censored
afterwards, or edited during the read (`buried`, `raced`).

Paywalls. Overlapping requests and polls overwrite each other's user record, so a credit can be
spent twice or a spent one come back (`overwritten`); politeiawww may stop, or processNew return with an error
(records/process.go:64, 82), after politeiad accepted a proposal and
before the credit is spent, which leaves the proposal unpaid for (`unpaid`); the removal of an old entry can drop a paywall that was just issued; a
rescan reads only one page and also credits the payment of the registration; a user without
paywalls is polled for ever. Hence ProposalsCostACredit accounts for the unpaid proposals and holds until a write
undoes a spent credit, with any overlaps and restarts, and ValidPaywallIsPolled is about serial behaviours.

Invoices. An edit that races an approval has the old version paid. A payment is
only recognised when one transaction is enough for its check; a stop leaves an invoice Approved,
Watching and fully received for good; a fetch that fails at start sets the received amount to 0;
an address is compared with the latest version of each invoice only
(invoices.go:628, cmsdatabase/cockroachdb/cockroachdb.go:426), so an address that an invoice gave up
can be taken by another one, whose payment is then booked on, and whose address is unsubscribed for,
the older row (cockroachdb.go:958; `AddressesApart` in the properties). A failed Subscribe is only logged (`missed`).
Hence `serial` and `faults = 0`.

The version of an invoice is a column of text (cmsdatabase/cockroachdb/models.go:41), and the rows are ordered by it
(cockroachdb.go:136, 443): from the tenth version on, InvoiceByToken returns the ninth. The next edit gives its
row number ten again, which the database refuses after politeiad has accepted the edit (invoices.go:1611);
a status change is of the ninth version, and a rebuild from politeiad gives that one the status it had before.
Nothing has to fail or overlap for that. RowsFollowRecords, ApprovedIsWatched and PaidIsFinal hold while versions have
one digit (`SingleDigits`). In the run base 3 brings the second digit within its bounds, so all actions are also taken beyond it.

Reconnect starts over with a new client when one of its subscriptions fails, and skips what is marked as subscribed
(wsdcrdata.go:349, 371). Marks are made on the client that was given up, too: by the attempt before, or by a request
between its subscription and subAdd (line 212). pendingDel also deletes the events that came after pendingGet. Such an address is not
watched, and nothing says so, until the next disconnection or restart. ApprovedIsWatched excepts exactly these
addresses (`lost`).

git backend. An archived record can be updated and becomes iteration unvetted
(gitbe.go:1455), although the API says that it cannot. A stop between push and replay leaves a branch that
refuses later pushes, and a dirty audit trail blocks rebases until the next anchor; a confirmation that fails
midway leaves it dirty (gitbe.go:960).

A stop is not the only thing that leaves files in unvetted. updateRecord returns without unwinding when
it can not copy or add the new version (gitbe.go:1693), wouldChange keeps its
changes if its unwinding fails, and everywhere else an unwinding that fails is logged and no more (gitbe.go:1178, 1726, 1761,
1872, 2534, 2663). A dirty index makes requests fail until one of them unwinds it; but a change of the status of an
unvetted record neither pulls nor looks at the index, and its commit takes the files along. So a record that was staged and never
committed can be published (gitbe.go:2436), and a metadata update or an archiving writes into a version directory that an
edit left and commits its own file alone. FailuresAreUnwound says that a commit takes along nothing but what was left in these
ways (`left`). The model keeps the record metadata of such a version, though the commit does not; directories copied in part, which have
none, only make requests refuse and are not modelled. A rebase is atomic: none stops half-way or conflicts.
afterAnchorVerify stops at the first anchor that is not mined, and a confirmation hides older
unconfirmed anchors until the fsck of the next start.

## Proofs

Every theorem is about any value of the constants: any sets of records, users, tickets or requests,
any numbers of operations, faults and stops. The proofs assume the named assumptions on
the constants and, in three theorems, one condition more: `PagesFit` in InventoryPaging, finitely many
users in PagesArePartition, and a setting that is not 0 in ReplyTheorem; the sections below say why.
Where a theorem is of the form `Timely => (Spec => ...)` the constants choose the
environment that the property needs; the sections above say how. Each proof has one
lemma per action, which says that the action keeps the inductive invariant; TLC checked each
invariant on the runs' instances before it was proved.

Several operators of the models are recursive functions (`scan` of tokensParse, `Thread`, FlattenSeq).
That such a function exists and obeys its equation is proved where it is needed,
from a smallest index at which it would not (`PageScanExists`, `MatchExists`, `UpExists`, `FlatExists`); the
lemmas that follow (`ScanIs`, `ThreadIs`, `FlatIs`) are the only place where the definitions are opened.

### Records

`RecordStore_proofs`, for both values of `Timely` and `ReAdd`:

* `Invariance`: `Spec => []IInv`, the inductive invariant;
* `TypeCorrect`, `IndexesAreComplete`, `LeavesHaveBlobs`, `LeavesAreUnique`,
  `UnvettedStaysEncrypted`, `PublicationResaves`, `IndexLeavesAreNew`,
  `MetadataIsReadable`: the invariants of run record_faults, and two more, OneLeafPerContent and
  IndexLeafIsNew, that its argument needs.

None of the invariants is inductive alone. IInv adds

* `OperationInv`: how far the operation in progress got, e.g. that all content of its index
  has leaves once the batch is appended, and that no index leaf equals its own;
* `BatchInv`: the leaves of the batch are of the operation's content and state, unique,
  and their blobs are saved;
* `LeavesInv`: indexes are well formed, record metadata is saved in its own state, and
  file leaves are unvetted as long as no vetted index exists;
* `VettedInv`: an operation on a vetted record is the publication or comes after it;
* `PublishInv`: a publication has files, and their leaves are unvetted.

That index leaves are new rests on record metadata: an operation without new content is
refused, so its index names content that no earlier index, integrated or queued, can
name, as all content of those has leaves. That a publication finds content to save again
rests on LeavesInv: a failed publication appends vetted metadata and stream leaves, never
file leaves.

With `Timely` and without `ReAdd`:

* `HistoryIsSound`: `Spec => [](IInv /\ HInv)`;
* `RecordsAreComplete`: `Spec => []RecordIsComplete`;
* `CensoredFilesGone`: `Spec => []CensoredFilesAreGone`;
* `RefinesHistory`: `Spec => ImplementsHistory`, the refinement of RecordHistory.

`ChainInv` is the history of a record: one index per iteration, versions without a gap, only the last
one frozen, and an index that is queued or about to be appended is exactly the one that follows
(`IsNext`). Without `Timely` that is false: the next operation works out its index from a tree that lacks the queued
one. `PlainInv` says that what a vetted index names is in the store in plain text, which is
false with `ReAdd`; `CensorInv` that nothing is on its way to the tree of a censored record. The refinement
then has one case per action: an append of an index, by the operation or by the signer, is the step of RecordHistory that
`IsNext` allows, everything else a stutter.

### Anchors

`Anchor_proofs`:

* `DropsAreSound`: `Spec => []AInv`; `AnchorsConfirmed`: `Spec => []AnchorsAreConfirmed`;
* with one job that calls anchorTrees (`OneCaller`), `DropsAreOrdered`: `Spec => [](AInv /\ OInv)`;
  `AnchorsFound`: `Spec => []AnchorIsFound`.

AInv follows a drop from the scan to the goroutine that saves: it names sizes its trees have had,
which stay sizes of earlier leaves because trees only grow (`DropsStay`), and a goroutine saves
only roots that are all confirmed, which they remain. No step relies on the flag that keeps drops
apart, so AnchorsConfirmed also covers drops of the cron job and the fsck that overlap. AnchorIsFound needs that they do not. OInv says that with one caller one goroutine runs, none between the check of the flag and the
launch (`LoneInv`), that no anchor is beyond the sizes that a drop is about to anchor (`NewInv`), and that hence every
anchor includes the ones before it (`Ordered`): one of the first two anchors after a leaf includes it.

### The inventory

`Anchor_proofs`, in its second part, for any finite set of records and any page calculation width:

* `InventoryTheorem`: `Spec => []CacheIsCoherent`;
* `UpdatesFindEntries`: `Spec => [][\A t \in Tokens : CacheUpdate(t) /\ ~dirty => ~dirty']_vars`, an
  action property: no update of the files fails before one was lost, by a stop or by a request that failed
  after its save, so until then the wrappers of inventory.go (lines 262 to 289) do not panic;
* `InventoryPaging`: `Spec => []PagesAreComplete`.

CacheIsCoherent says nothing about a record that a request is working on. `InventoryInv` does: as long
as no update was lost, each record is listed exactly in the file `Shown` that the progress of its request
determines, once, and with its status if no request works on it (`ListingInv`). The fsck keeps the same
statement for the records it has added so far. Hence the entry that an update replaces is there.

Pages must be right also when updates were lost, and that is not a matter of the page calculation alone: if a
file could have two entries for a token, the tokens of a status could outnumber the records. `DistinctInv` says
that it never has, whatever a crash left: what is listed as unvetted has a record and is not waiting to be
added, and what is listed as vetted is vetted and not waiting to be moved (`DistinctTokens`), so every append is of a
token that its file does not list, and each part of an update that a crash lets through (`Kept`,
`InterruptedKept`) is the old file, the new one or a torn one, which reads as no
entries. Then the loop of tokensParse returns
the piece of the matches that belongs to its page (`ScanIs`), and the pieces make up the matches (`Pieces`).
`PagesFit` says that `(n - 1) * n < Uint` for n records: the product `(page - 1) * countPerPage` does not wrap, which
with 32 bits is fewer than 65 537 records.

### Ballots

`Ballot_proofs`, for any batch size and both values of `Timely` and `Distinct`:

* `BallotInvariance`: `Spec => []BInv`; `CollidersSound`: `Spec => []CollidersAreSound`;
* `ResultsFinal`: `Spec => ResultsAreFinal`, an action property;

and with both, where both are needed:

* `CountInvariance`: `Spec => [](BInv /\ CInv)`;
* `ReceiptsAreCounted`: `Spec => []ReceiptsCount`; `CachedVotesAreCounted`: `Spec => []CachedVotesCount`.

CollidersAreSound is not inductive: a collider that times out may be integrated at any later
time. BInv adds that a queued collider has a vote in the tree already (QueueInv), which holds
as a goroutine gets to the collider only with its vote in the tree (BallotInv); that a
collider is determined by its ticket, so that trillian, which keeps no leaf twice (TreeInv),
keeps one per ticket; and that every collider follows a vote (OrderInv). ResultsFinal rests on
OrderInv: a vote that counts because it is the only one of its ticket is also the last one
before the collider, and no leaf can be inserted there any more.

CInv says that a goroutine that is at the collider has the last vote of its ticket in the tree
(`VotesOk`), because votes of a ticket are in the order of their times (`TimesInv`) and what is queued for a
ticket is one leaf, of a goroutine that has given up (`LateInv`). The attempt to prove it showed the one
exception: three attempts within a second, where the third is a duplicate of the first
(`Overtaken`, see Known deviations).

### The life of votes

`TicketVote_proofs`, for any standard records, submissions, workers and tallies, none of whose
records is called "none" or "parent":

* `TreesAreSound`: `Spec => []TreeInv`; `StartedVotesReadable`: `Spec => []StartedVotesAreReadable`;
* `SummariesAreOutcomes`: `Spec => [](TreeInv /\ SumsInv)`; `OneRunoffWinner`: `Spec => []RunoffHasOneWinner`;

and with `Timely`:

* `OutcomesStay`: `Spec => OutcomesAreFinal`, an action property;
* `StartedVotesCanBeCast`: `Spec => []StartedVotesAreActive`;
* `InventoryIsKept`: `Spec => []InventoryIsCoherent`.

TreeInv says who works on what (`Requests`: a record is locked by one request, one runoff is started at a
time), that the submissions of a runoff have the end that its start names, as long as there is one
start (`RunoffEnds`), and that with timely leaves nothing is written twice (`OneOfEach`). SumsInv says
that a cached summary is the outcome of a finished vote: an outcome depends on trees that no longer change, so the
winner is one even if each submission is asked for at another time. Without `Timely` a second
start may come late and change it. ActiveInv and InvInv follow the
caches through each request: InvInv says of a locked record which entry its request still
has to replace (`Pending`), and of the others that the entry is the one of the tree.

### Proposal statuses

`TicketVote_proofs`, in its second part, for any proposals, readers, cache size and legal changes:

* `ReplyTheorem`: `Spec => []RepliesWereTrue`, if BillingStatusChangesMax is not 0.

A read takes the record, the vote and the billing statuses at different times, so the property relates
its reply to states that have passed; the history variable `seen` has them. `ReadInv` says of each step of a read
what the fields that it has fetched still have in common with the proposal: a fetched record is the current one, or it
was public and the proposal has been in another status since (`Fetched`); once the vote has ended the approved
vote and its record stay; and what is worked out from them is in `seen`, or more than one status is
(`ReplyOK`). `CacheInv` says that a cached entry whose status tells that the vote has started has the
proposal's own record and vote, and that a final status is the proposal's. A record that was
archived, censored or edited behind an entry is one of the exceptions of the property. The hypothesis is
what the attempt to prove it without showed: with 0, which the settings allow (pi.go:322), the test for the last
billing status change (proposalstatus.go:103) takes every approved proposal for a cached
one and replies with the empty status.

### Comments

`Comments_proofs`, for any users, commands, late and failed saves, stops and file system checks:

* `CommentsAreSound`: `Spec => []CInv`;
* `WritesStayIndexed`: `Spec => []WritesAreIndexed`;
* `CommentsCanBeRead`: `Spec => []CommentsAreReadable`;
* `DeletedTextGone`: `Spec => []DeletedTextIsGone`;
* `ThreadsAreKept`: `Spec => []ApprovedWritesAreInUpdateThreads`;
* `PagesArePartition`: `Spec => []PagesPartitionVotes`, for finitely many users (they are in a sequence).

`TreeInv` says of every leaf, in the tree or queued, that the first versions of its comment and of all comments with
smaller IDs are in the tree (`Grounded`): an ID is taken from the index, and what is in the index is
in the tree. This is what makes a rebuilt index one without gaps. An index that is torn is never written again, so all
statements about it simply stop there. `StampInv` says that a cached timestamp is of a leaf that was
anchored, and so cannot have the text of one that was deleted before. `IndexInv` says that an index names leaves of its
own state, comment and version, `GoneInv` that only versions of comments whose index says deleted
are gone, `WriteInv` that a leaf of an acknowledged command is named or superseded, and `DelInv` that for every
acknowledged deletion a version is gone or is about to be, or its deletion failed. A
rebuild reads every blob of the state, so it runs only when nothing of the state is gone; with DelInv a
deletion that it finds has failed or was not acknowledged. All commands that append a leaf and save the
index go through the lemma `SavedKeeps`, whose hypotheses `Fits` and `FitsDel` say what a command sees to.

The hook of pi looks up the thread of a comment in the index at that time, and the index may be rebuilt
later. `LinksInv` says that the parent of a comment has a smaller ID, in the tree and in the index, so that going up
ends; `ThreadInv` that as long as no leaf came late all leaves of a comment name the same parent
(`SameParents`), so a rebuilt index has the same threads, and that what was written on the approved proposal
is in its thread (`Threaded`). Threads only grow (`ThreadsGrow`), so it stays there. That this thread is the one of
the latest update is `UpdatesInv`: times order the leaves as the tree does (`TimesInv`), all versions of a
comment have one hint (`HintsInv`) and the index knows every deletion (`ShownInv`), so what the hook takes for
the latest update was the last hinted leaf not deleted by then (`UnderInv`). Its
hypothesis, that hints are on the author's comments on the approved proposal alone, is that of the property. The pages of votes need
of CInv only that the votes of the index are lists of digests (`AllVotesAreLog`): a page is the piece from the end of the
page before it (`PageIs`), and one page more than there are votes reaches the end of all.

### Paywalls

`Paywall_proofs`, for any number of requests, payments, restarts and any expiry time:

* `CopiesAreSound`: `Spec => []PInv`; `OnlyLastPaywallValid`: `Spec => []OnlyLastPaywallIsValid`;
* `SerialUserIsSound`: `Spec => [](PInv /\ SInv)`; `ProposalsArePaidFor`: `Spec => []ProposalsCostACredit`;
  `ValidPaywallPolled`: `Spec => []ValidPaywallIsPolled`.

Whatever a request or the poll writes back may undo a write of another, so the invariant
cannot be about the database alone. PInv says of every copy in flight what the property says of the
database; that a request for a new paywall holds a copy whose last paywall is not valid,
which was checked when it was let through; and that time does not make a paywall valid again
(`TimePasses`). A stale write then replaces one sound record by another. The account of proposals holds in all
behaviours, with overlaps, restarts and failing requests: CInv says that no copy in flight has more spent credits than
there are proposals, one less if its request has yet to spend one, and that proposals are the credits spent plus the
unpaid ones plus the requests that are about to spend, until a write undoes a spent credit. SInv is about serial
behaviours: there is one request and no poll, or no request, and the copy in flight is the user in
the database but for what the request has yet to write (`RequestState`, `PollState`).

### Invoices

`Invoices_proofs`, for any finite set of invoices (tokens have a fixed length) and any addresses,
versions, transactions, requests, failures and restarts:

* `InvoicesSerialInv`: `Spec => []SInv`;
* `InvoiceRowsFollowRecords`: `Spec => []RowsFollowRecords`; `InvoiceApprovedIsWatched`:
  `Spec => []ApprovedIsWatched`; `InvoicePaidIsFinal`: `Spec => PaidIsFinal`, an action property.

SInv is about the behaviours in which requests and checks do not overlap and, from its second part on, about versions
with one digit: then the order of text is that of numbers. It says for
each request how far it is (`Creating`, `Editing`, `Setting`, `Paying`, `Watching`), above all
that the row it is going to write back is still the one in the database, and the same for the check of the watcher
(`WatcherOk`). PaidIsFinal rests on the order of the two writes: politeiad is
told before a row becomes paid (`PaidInv`), so that a database rebuilt from it has the
invoice as paid. ApprovedIsWatched needs that a check of the monitor is booked on the latest row
with that address (`BookedInv`): PaymentsByAddress gives the row with the greatest key, which is of the right invoice
if addresses are apart (`FiniteGreatest`, for which the invoices are finite), so that giving up an address
gives up no other; and that what is marked as subscribed is on the present connection or was lost, whatever
Reconnect has started over (`ClientInv`). RowsFollowRecords needs that without failures only addresses of approved or paid latest rows
are subscribed to (`PayableInv`), hence that only the latest row is ever checked
(`LatestChecked`), and that the two copies agree unless the request or the check in progress has
one of the two writes ahead (`FollowsInv`).

### The git backend

`GitBe_proofs`:

* `RepositoriesAreSound`: `Spec => []GInv`; `VettedHistoryGrows`: `Spec => VettedIsAppendOnly`, an
  action property; `FailuresUnwound`: `Spec => []FailuresAreUnwound`;
* `CommitsAreAnchoredOnce`: `Spec => []AnchorsCoverHistory`.

GInv says that the branch of the request in progress follows on the vetted master from its rebase
to its replay, which holds because nothing else commits to vetted under the lock; `ReplayExtends`
then makes the rebase of master onto the branch a fast-forward (`CommonPrefix` of the two is all of
master, `CommonPrefixType`). For what is carried, GInv adds that the index holds, besides the change of the
request that is about to commit, only what was left (`WorkOk`), and that every commit of any
branch of either repository carries only such files (`CarriesLeft`), which a rebase cannot change
(`RebasedOk`). For the anchors, DInv adds that a commit number is in the vetted master once, that a branch has
beyond a part of master only records that master does not have (`Follows`) and no other branch has
(`Apart`), so that a replay brings over new records and never an anchored one, and that the digests of an anchor being
committed are still the commits since the last one.

### Only model-checked

Liveness: LeavesGetAnchored, RecordsGetFrozen and PollingStops, which rest on fairness and ENABLED and are
beyond the prover. That the violation of vote_runoff is one is shown by TLC's counterexample.

## Plan

1. politeiavoter's trickle against Ballot: its work queue, retries and the time the vote ends.
2. The journals of the plugins of the git backend and their replay.
3. DCCs of the contractor management system, which share the pattern of Invoices.

## Not modelled

Cryptography (hashes are identities, encryption is the key prefix, signatures and
inclusion proofs hold), HTTP handling and encoding, configuration, the API types and command line
tools, which are most of the repository's lines: the models cover the parts that keep state and
can go wrong in an order of events, and the share of all lines that they stand for stays
small. Accounts, sessions, mail and the other request handling of politeiawww read and write one
database row per request, with the overwriting that Paywall shows. Left out of modelled
parts: in TicketVote the checks of vote metadata, the job that fetches commitment addresses and
leaves that come late between commands (`Timely`); in Invoices the deactivation of contractors,
the treasury filter and errors of the database; in GitBe the journals of plugins, README updates,
metadata updates of several records at once and reads. Token generation: tokens are model values,
so collisions of their prefixes do not occur. The usermd plugin's cache has the protocol of the
inventory, the dcrdata plugin is network I/O.
`PROJECT.json` lists every component with the reason.
