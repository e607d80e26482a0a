----------------------------- MODULE TicketVote -----------------------------
(***************************************************************************)
(* The life of the votes on several records (plugins/ticketvote): a record  *)
(* is made public, its vote is authorised and started, or it is a           *)
(* submission to a runoff vote that is started on the parent record; the    *)
(* vote ends with a block, and the first summary after that is cached.  A   *)
(* command first appends to the tree of the record and then updates three   *)
(* caches: the vote inventory and the list of runoff submissions, which are *)
(* in the key-value store, and the active votes, which are in memory.  An   *)
(* update that does not find the entry of the record panics, which ends the *)
(* request; politeiad may stop anywhere.  Casting the votes is in Ballot.   *)
(***************************************************************************)
EXTENDS Integers, Sequences, FiniteSets

CONSTANTS
  Standard,   \* records that are voted on by themselves
  Subs,       \* submissions to the runoff vote of the (approved, public) parent
  Workers,    \* concurrent write requests
  Tallies,    \* bound: the votes that get cast, as <<approve, reject>>
  Options,    \* the order of the vote options in the vote details
  Eligible, QuorumPercentage, PassPercentage,
  Duration,   \* of a vote, in blocks
  MaxBlock,   \* bound: the best block
  MaxWrites,  \* bound: write requests
  MaxFaults,  \* bound: failed saves and stops of politeiad
  Timely      \* TRUE: trillian integrates the queued leaves between two commands

Records == Standard \cup Subs

ASSUME ConstantsAssumption ==
  /\ Standard \cap Subs = {}
  /\ Records \cap {"none", "parent"} = {}
  /\ Tallies \subseteq Nat \X Nat
  /\ Options \in {<<1, 2>>, <<2, 1>>}
  /\ Eligible \in Nat /\ QuorumPercentage \in Nat /\ PassPercentage \in Nat
  /\ Duration \in Nat \ {0} /\ MaxBlock \in Nat /\ MaxWrites \in Nat /\ MaxFaults \in Nat
  /\ Timely \in BOOLEAN

VARIABLES
  status,   \* the status of each record
  auth,     \* the action of its last vote authorization
  details,  \* its vote details: the end heights
  srr,      \* the start runoff records of the parent
  late,     \* vote details and start runoff records that are queued by trillian
  votes,    \* the votes cast on each record
  best,     \* the best block
  expired,  \* whether the linkby deadline of the parent has passed
  inv, subs, sums,  \* the caches: vote inventory, submissions, vote summaries
  active,   \* the active votes cache
  up,       \* politeiad runs
  req,      \* the write requests in progress
  writes, faults,
  acked,    \* history: the runoff vote was reported as started
  lost,     \* history: why the last inventory update of a record did not happen
  reauth,   \* history: records whose authorization changed after the start of the vote
  rebuilt   \* history: votes that fsck has added to the inventory as started

tree == <<status, auth, details, srr, late, votes>>
caches == <<inv, subs, sums, active>>
vars == <<tree, best, expired, caches, up, req, writes, faults, acked, lost, reauth, rebuilt>>

NoReq == [op |-> "none", token |-> "none", todo |-> {}]
Heights == 0..(MaxBlock + Duration)
Undecided == "none"
VoteStatuses == {"absent", "unauthorized", "authorized", "started", "approved",
                 "rejected", "ineligible"}

Init ==
  /\ status = [r \in Records |-> "unreviewed"]
  /\ auth = [r \in Records |-> "none"]
  /\ details = [r \in Records |-> {}]
  /\ srr = {} /\ late = {}
  /\ votes = [r \in Records |-> <<0, 0>>]
  /\ best = 0 /\ expired = FALSE
  /\ inv = [r \in Records |-> "absent"]
  /\ subs = {}
  /\ sums = [r \in Records |-> Undecided]
  /\ active = {}
  /\ up = TRUE
  /\ req = [w \in Workers |-> NoReq]
  /\ writes = 0 /\ faults = 0 /\ acked = FALSE
  /\ lost = [r \in Records |-> "no"]
  /\ reauth = {} /\ rebuilt = {}

-----------------------------------------------------------------------------
(* What the tree says. *)

\* More than one vote details, or start runoff record, cannot be read.
Readable(blobs) == Cardinality(blobs) <= 1
The(blobs) == CHOOSE b \in blobs : TRUE
EndBlockHeight(r) == The(details[r])

voteHasEnded(r) == best >= EndBlockHeight(r)

\* The thresholds are truncated.
voteIsApproved(r) ==
  LET total == votes[r][1] + votes[r][2] IN
  /\ total >= (QuorumPercentage * Eligible) \div 100
  /\ votes[r][1] >= (PassPercentage * total) \div 100

\* The net approve votes when the first k options have been counted.
NetApprove(r, k) ==
  LET counted(o) == IF \E i \in 1..k : Options[i] = o THEN votes[r][o] ELSE 0
  IN  counted(1) - counted(2)

\* A submission is compared with the winner so far after each option.
Score(r) == LET net == {NetApprove(r, k) : k \in 1..Len(Options)}
            IN  CHOOSE n \in net : \A m \in net : m <= n

Submissions == {The(srr).subs[i] : i \in DOMAIN The(srr).subs}

\* The first submission with the highest score.
IsWinner(s) ==
  LET seq == The(srr).subs
      beats(i, j) == Score(seq[i]) > Score(seq[j]) \/ (Score(seq[i]) = Score(seq[j]) /\ i <= j)
  IN  /\ voteIsApproved(s) /\ Score(s) > 0
      /\ \E i \in DOMAIN seq :
           /\ seq[i] = s
           /\ \A j \in DOMAIN seq : voteIsApproved(seq[j]) => beats(i, j)

\* The summaries of a runoff vote need the vote details of every submission.
RunoffIsReadable ==
  Cardinality(srr) = 1 /\ \A s \in Submissions : Cardinality(details[s]) = 1

\* Mutant: every submission that meets the requirements is approved.
summariesForRunoffAll(s) == IF voteIsApproved(s) THEN "approved" ELSE "rejected"

summariesForRunoff(s) == IF IsWinner(s) THEN "approved" ELSE "rejected"

Outcome(r) ==
  IF r \in Subs THEN summariesForRunoff(r)
  ELSE IF voteIsApproved(r) THEN "approved" ELSE "rejected"

\* The summary that is built from the tree.
summaryScratch(r) ==
  CASE status[r] # "public"       -> "ineligible"
    [] status[r] = "public" /\ auth[r] = "revoke" -> "unauthorized"
    [] status[r] = "public" /\ auth[r] # "revoke" ->
         IF ~Readable(details[r]) THEN "error"
         ELSE IF details[r] = {} THEN (IF auth[r] = "authorize" THEN "authorized" ELSE "unauthorized")
         ELSE IF ~voteHasEnded(r) THEN "started"
         ELSE IF r \in Subs /\ ~RunoffIsReadable THEN "error"
         ELSE Outcome(r)

summary(r) == IF sums[r] # Undecided THEN sums[r] ELSE summaryScratch(r)

Decided == {"approved", "rejected"}

\* The summaries that summary(r) caches.
Caches(r) ==
  IF sums[r] # Undecided \/ summaryScratch(r) \notin Decided THEN {}
  ELSE IF r \in Subs THEN Submissions ELSE {r}
SaveSummaries(rs) ==
  LET saved == UNION {Caches(r) : r \in rs} IN
  /\ sums' = [r \in Records |-> IF r \in saved THEN Outcome(r) ELSE sums[r]]
  /\ active' = active \ saved

-----------------------------------------------------------------------------
(* The vote inventory. *)

\* Mutant: an authorized record cannot become ineligible.
StatusesToScanStrict(new) ==
  CASE new = "unauthorized" -> {"authorized"}
    [] new = "authorized"   -> {"unauthorized"}
    [] new = "started"      -> {"authorized"}
    [] new = "ineligible"   -> {"unauthorized"}

\* The statuses that the entry of a record is looked for in.
StatusesToScan(new) ==
  CASE new = "unauthorized" -> {"authorized"}
    [] new = "authorized"   -> {"unauthorized"}
    [] new = "started"      -> {"authorized"}
    [] new = "ineligible"   -> {"authorized", "unauthorized"}

\* The entry is added or replaced.  If it is not found, the update panics.
InvFinds(r, new, isNew) == isNew \/ inv[r] \in StatusesToScan(new)
InvUpdate(r, new, isNew) ==
  /\ inv' = IF InvFinds(r, new, isNew) THEN [inv EXCEPT ![r] = new] ELSE inv
  /\ lost' = IF InvFinds(r, new, isNew) \/ lost[r] = "crash" THEN lost
             ELSE [lost EXCEPT ![r] = "panic"]

-----------------------------------------------------------------------------
(* Write requests.  Each holds the lock of its record. *)

Locked(r) == \E w \in Workers : req[w].token = r
Free(w, r) ==
  /\ up /\ req[w] = NoReq /\ ~Locked(r) /\ (Timely => late = {})
  /\ writes < MaxWrites /\ writes' = writes + 1

End(w) == req' = [req EXCEPT ![w] = NoReq]
Begin(w, op, r, arg) == req' = [req EXCEPT ![w] = [op |-> op, token |-> r, todo |-> arg]]

\* RecordSetStatus: the new status is saved, and then the hook is called unless the
\* record is unvetted (a censored unvetted record is "discarded").  A submission has to be made public before the deadline.
RecordSetStatus(w, r, s) ==
  /\ Free(w, r)
  /\ <<status[r], s>> \in {<<"unreviewed", "public">>, <<"unreviewed", "discarded">>,
                           <<"public", "censored">>, <<"public", "archived">>}
  /\ r \in Subs /\ s = "public" => ~expired
  /\ status' = [status EXCEPT ![r] = s]
  /\ IF s = "discarded" THEN UNCHANGED req ELSE Begin(w, "status", r, {})
  /\ UNCHANGED <<auth, details, srr, late, votes, best, expired, caches, up, faults,
                 acked, lost, reauth, rebuilt>>

\* The list of submissions is not updated when a submission is archived.
hookSetRecordStatusPost(w) ==
  LET r == req[w].token
      isNew == status[r] = "public"
      new == IF isNew THEN "unauthorized" ELSE "ineligible" IN
  /\ req[w].op = "status"
  /\ InvUpdate(r, new, isNew)
  /\ subs' = IF ~InvFinds(r, new, isNew) \/ r \notin Subs THEN subs
             ELSE IF isNew THEN subs \cup {r}
             ELSE IF status[r] = "censored" THEN subs \ {r} ELSE subs
  /\ End(w)
  /\ UNCHANGED <<tree, best, expired, sums, active, up, faults, acked, writes, reauth, rebuilt>>

Authorized(r, action) ==
  /\ auth' = [auth EXCEPT ![r] = action]
  /\ reauth' = IF details[r] = {} THEN reauth ELSE reauth \cup {r}

\* Whether the vote has been started is not looked at.
cmdAuthorize(w, r, action) ==
  /\ Free(w, r)
  /\ status[r] = "public"
  /\ action = IF auth[r] = "authorize" THEN "revoke" ELSE "authorize"
  /\ Authorized(r, action)
  /\ Begin(w, "auth", r, {})
  /\ UNCHANGED <<status, details, srr, late, votes, best, expired, caches, up, faults,
                 acked, lost, rebuilt>>

AuthorizeCache(w) ==
  LET r == req[w].token IN
  /\ req[w].op = "auth"
  /\ InvUpdate(r, IF auth[r] = "authorize" THEN "authorized" ELSE "unauthorized", FALSE)
  /\ End(w)
  /\ UNCHANGED <<tree, best, expired, subs, sums, active, up, faults, acked, writes, reauth, rebuilt>>

\* Mutant: it is not verified that the vote has not been started.
startStandardAgain(w, r) ==
  /\ Free(w, r)
  /\ status[r] = "public" /\ auth[r] = "authorize"
  /\ details' = [details EXCEPT ![r] = @ \cup {best + Duration}]
  /\ Begin(w, "start", r, {})
  /\ UNCHANGED <<status, auth, srr, late, votes, best, expired, caches, up, faults,
                 acked, lost, reauth, rebuilt>>

startStandard(w, r) ==
  /\ Free(w, r)
  /\ status[r] = "public" /\ auth[r] = "authorize" /\ details[r] = {}
  /\ details' = [details EXCEPT ![r] = {best + Duration}]
  /\ Begin(w, "start", r, {})
  /\ UNCHANGED <<status, auth, srr, late, votes, best, expired, caches, up, faults,
                 acked, lost, reauth, rebuilt>>

\* Mutant: the active votes get no submissions.
StartCacheStandard(w) ==
  LET r == req[w].token IN
  /\ req[w].op \in {"start", "sub"}
  /\ InvUpdate(r, "started", FALSE)
  /\ active' = IF InvFinds(r, "started", FALSE) /\ r \in Standard THEN active \cup {r} ELSE active
  /\ IF req[w].op = "sub" /\ InvFinds(r, "started", FALSE)
       THEN Begin(w, "runoff", "parent", req[w].todo \ {r}) ELSE End(w)
  /\ UNCHANGED <<tree, best, expired, subs, sums, up, faults, acked, writes, reauth, rebuilt>>

\* The inventory, then the active votes.  A panic ends the request: a runoff vote is
\* not started on the submissions that are left.
StartCache(w) ==
  LET r == req[w].token IN
  /\ req[w].op \in {"start", "sub"}
  /\ InvUpdate(r, "started", FALSE)
  /\ active' = IF InvFinds(r, "started", FALSE) THEN active \cup {r} ELSE active
  /\ IF req[w].op = "sub" /\ InvFinds(r, "started", FALSE)
       THEN Begin(w, "runoff", "parent", req[w].todo \ {r}) ELSE End(w)
  /\ UNCHANGED <<tree, best, expired, subs, sums, up, faults, acked, writes, reauth, rebuilt>>

\* The submissions that have to be in a runoff vote.
Expected == {s \in subs : status[s] = "public"}

Orders(S) == {q \in [1..Cardinality(S) -> S] : \A i, j \in DOMAIN q : q[i] = q[j] => i = j}

\* The first call saves the start runoff record; later ones take the one that is there
\* and may name any of its submissions.  Several records cannot be read.
startRunoff(w, starts) ==
  /\ Free(w, "parent") /\ ~\E v \in Workers : req[v].op = "sub"
  /\ starts # {} /\ Readable(srr)
  /\ \/ /\ srr = {} /\ expired /\ starts = Expected
        /\ \E q \in Orders(starts) : srr' = {[subs |-> q, end |-> best + Duration]}
     \/ /\ srr # {} /\ starts \subseteq Submissions
        /\ UNCHANGED srr
  /\ Begin(w, "runoff", "parent", starts)
  /\ UNCHANGED <<status, auth, details, late, votes, best, expired, caches, up, faults,
                 acked, lost, reauth, rebuilt>>

\* A submission whose vote has been started is skipped.  One that is not public any
\* more is frozen, and the save fails.
startRunoffForSub(w, s) ==
  /\ req[w].op = "runoff" /\ s \in req[w].todo /\ ~Locked(s)
  /\ \/ /\ Cardinality(details[s]) = 1
        /\ Begin(w, "runoff", "parent", req[w].todo \ {s})
        /\ UNCHANGED details
     \/ /\ ~Readable(details[s]) \/ (details[s] = {} /\ status[s] # "public")
        /\ End(w)
        /\ UNCHANGED details
     \/ /\ details[s] = {} /\ status[s] = "public"
        /\ details' = [details EXCEPT ![s] = {The(srr).end}]
        /\ Begin(w, "sub", s, req[w].todo)
  /\ UNCHANGED <<status, auth, srr, late, votes, best, expired, caches, up, faults,
                 acked, lost, writes, reauth, rebuilt>>

startRunoffDone(w) ==
  /\ req[w].op = "runoff" /\ req[w].todo = {}
  /\ acked' = TRUE
  /\ End(w)
  /\ UNCHANGED <<tree, best, expired, caches, up, faults, lost, writes, reauth, rebuilt>>

-----------------------------------------------------------------------------
(* Failures. *)

\* A save returns an error although the leaf is appended: at once for an
\* authorization (which is ordered by its timestamp), late for the others.  The
\* caches are not updated.
authSaveError(w, r) ==
  /\ Free(w, r) /\ status[r] = "public" /\ faults < MaxFaults
  /\ Authorized(r, IF auth[r] = "authorize" THEN "revoke" ELSE "authorize")
  /\ lost' = [lost EXCEPT ![r] = "crash"]
  /\ faults' = faults + 1
  /\ UNCHANGED <<status, details, srr, late, votes, best, expired, caches, up, req,
                 acked, rebuilt>>

voteDetailsSaveError(w) ==
  /\ faults < MaxFaults
  /\ \/ \E r \in Standard :
          /\ Free(w, r) /\ status[r] = "public" /\ auth[r] = "authorize" /\ details[r] = {}
          /\ late' = late \cup {[token |-> r, blob |-> best + Duration]}
     \/ \E s \in req[w].todo :
          /\ req[w].op = "runoff" /\ ~Locked(s) /\ status[s] = "public" /\ details[s] = {}
          /\ UNCHANGED writes
          /\ late' = late \cup {[token |-> s, blob |-> The(srr).end]}
     \/ /\ Free(w, "parent") /\ ~\E v \in Workers : req[v].op = "sub"
        /\ srr = {} /\ expired /\ Expected # {}
        /\ \E q \in Orders(Expected) :
             late' = late \cup {[token |-> "parent", blob |-> [subs |-> q, end |-> best + Duration]]}
  /\ faults' = faults + 1
  /\ End(w)
  /\ UNCHANGED <<status, auth, details, srr, votes, best, expired, caches, up, acked,
                 lost, reauth, rebuilt>>

Integrate(l) ==
  /\ late' = late \ {l}
  /\ IF l.token = "parent"
       THEN srr' = srr \cup {l.blob} /\ UNCHANGED <<details, lost>>
       ELSE /\ details' = [details EXCEPT ![l.token] = @ \cup {l.blob}]
            /\ lost' = [lost EXCEPT ![l.token] = "crash"]
            /\ UNCHANGED srr
  /\ UNCHANGED <<status, auth, votes, best, expired, caches, up, req, faults, acked, writes, reauth, rebuilt>>

\* politeiad stops.  The caches that a request has not updated yet stay as they are.
Crash ==
  /\ up /\ faults < MaxFaults
  /\ up' = FALSE /\ faults' = faults + 1
  /\ active' = {}
  /\ req' = [w \in Workers |-> NoReq]
  /\ lost' = [r \in Records |->
                IF \E w \in Workers : req[w].token = r THEN "crash" ELSE lost[r]]
  /\ UNCHANGED <<tree, best, expired, inv, subs, sums, acked, writes, reauth, rebuilt>>

-----------------------------------------------------------------------------
(* Blocks, votes and readers. *)

\* A request to start a vote takes less time than the vote.
Block ==
  /\ best < MaxBlock
  /\ \A w \in Workers : req[w].op = "start" => best + 1 < EndBlockHeight(req[w].token)
  /\ best' = best + 1
  /\ UNCHANGED <<tree, expired, caches, up, req, faults, acked, lost, writes, reauth, rebuilt>>

LinkByExpires ==
  /\ ~expired /\ expired' = TRUE
  /\ UNCHANGED <<tree, best, caches, up, req, faults, acked, lost, writes, reauth, rebuilt>>

\* Mutant: the end of the vote is not verified.
castVotesEver(r, t) ==
  /\ up /\ details[r] # {} /\ status[r] = "public"
  /\ t # votes[r] /\ votes[r][1] <= t[1] /\ votes[r][2] <= t[2]
  /\ votes' = [votes EXCEPT ![r] = t]
  /\ UNCHANGED <<status, auth, details, srr, late, best, expired, caches, up, req,
                 faults, acked, lost, writes, reauth, rebuilt>>

\* Votes are cast on a record of the active votes cache.
castVotes(r, t) ==
  /\ up /\ r \in active /\ status[r] = "public" /\ ~voteHasEnded(r)
  /\ t # votes[r] /\ votes[r][1] <= t[1] /\ votes[r][2] <= t[2]
  /\ votes' = [votes EXCEPT ![r] = t]
  /\ UNCHANGED <<status, auth, details, srr, late, best, expired, caches, up, req,
                 faults, acked, lost, writes, reauth, rebuilt>>

cmdSummary(r) ==
  /\ up /\ Caches(r) # {}
  /\ SaveSummaries({r})
  /\ UNCHANGED <<tree, best, expired, inv, subs, up, req, faults, acked, lost, writes, reauth, rebuilt>>

\* The started votes of the inventory that have ended, and the inventory with their
\* outcomes.  If a summary is missing or is not an outcome, the inventory cannot be read.
Ended == {r \in Records : inv[r] = "started" /\ voteHasEnded(r)}
CanUpdateBlockHeight == \A r \in Ended : summary(r) \in Decided
UpdatedInv == [r \in Records |-> IF r \in Ended THEN summary(r) ELSE inv[r]]

updateBlockHeight ==
  /\ up /\ Ended # {}
  /\ \/ CanUpdateBlockHeight /\ inv' = UpdatedInv /\ SaveSummaries(Ended)
     \/ /\ ~CanUpdateBlockHeight /\ inv' = inv
        /\ \E rs \in SUBSET Ended : SaveSummaries(rs)
  /\ UNCHANGED <<tree, best, expired, subs, up, req, faults, acked, lost, writes, reauth, rebuilt>>

-----------------------------------------------------------------------------
(* Start up. *)

\* The votes that the inventory has as started are the active votes.
StartedVotes == {r \in Records : UpdatedInv[r] = "started"}
CanSetup == CanUpdateBlockHeight /\ \A r \in StartedVotes : Cardinality(details[r]) = 1

Setup ==
  /\ ~up /\ CanSetup
  /\ up' = TRUE
  /\ inv' = UpdatedInv
  /\ sums' = [r \in Records |-> IF r \in UNION {Caches(e) : e \in Ended} THEN Outcome(r) ELSE sums[r]]
  /\ active' = StartedVotes
  /\ rebuilt' = {}
  /\ UNCHANGED <<tree, best, expired, subs, req, faults, acked, lost, writes, reauth>>

\* fsck runs after Setup.  It rebuilds the summary of each vetted record; a runoff vote
\* rebuilds those of all its submissions.  Then it rebuilds the inventory and the
\* submissions.  The active votes are not rebuilt.
Vetted == {r \in Records : status[r] \in {"public", "censored", "archived"}}

FsckSummaries(r, done) ==
  LET own == IF summaryScratch(r) \in Decided THEN Outcome(r) ELSE Undecided
      byOthers == \E s \in done \ {r} : s \in Subs /\ summaryScratch(s) \in Decided /\ r \in Submissions
  IN  {IF r \in done THEN own ELSE sums[r]} \cup (IF byOthers THEN {Outcome(r)} ELSE {})

fsck ==
  /\ ~up /\ CanSetup
  /\ \/ /\ \A r \in Vetted : summaryScratch(r) # "error"
        /\ up' = TRUE
        /\ \E f \in [Records -> Decided \cup {Undecided}] :
             (\A r \in Records : f[r] \in FsckSummaries(r, Vetted)) /\ sums' = f
        /\ inv' = [r \in Records |-> IF r \in Vetted THEN summaryScratch(r) ELSE "absent"]
        /\ subs' = {s \in Subs : status[s] = "public"}
        /\ active' = {r \in StartedVotes : inv'[r] \notin Decided}
        /\ lost' = [r \in Records |-> "no"]
        /\ rebuilt' = {r \in Records : inv'[r] = "started"} \ active'
     \/ /\ \E r \in Vetted : summaryScratch(r) = "error"
        /\ \E done \in SUBSET Vetted : \E f \in [Records -> Decided \cup {Undecided}] :
             (\A r \in Records : f[r] \in FsckSummaries(r, done)) /\ sums' = f
        /\ inv' = UpdatedInv
        /\ UNCHANGED <<up, subs, active, lost, writes, reauth, rebuilt>>
  /\ UNCHANGED <<tree, best, expired, req, faults, acked, writes, reauth>>

-----------------------------------------------------------------------------
Next ==
  \/ \E w \in Workers : \E r \in Records :
       \/ \E s \in {"public", "discarded", "censored", "archived"} : RecordSetStatus(w, r, s)
       \/ \E a \in {"authorize", "revoke"} : cmdAuthorize(w, r, a)
       \/ authSaveError(w, r)
  \/ \E w \in Workers : \E r \in Standard : startStandard(w, r)
  \/ \E w \in Workers : \E starts \in SUBSET Subs : startRunoff(w, starts)
  \/ \E w \in Workers : \E s \in Subs : startRunoffForSub(w, s)
  \/ \E w \in Workers :
       \/ hookSetRecordStatusPost(w)
       \/ AuthorizeCache(w)
       \/ StartCache(w)
       \/ startRunoffDone(w)
       \/ voteDetailsSaveError(w)
  \/ \E l \in late : Integrate(l)
  \/ \E r \in Records : \E t \in Tallies : castVotes(r, t)
  \/ \E r \in Records : cmdSummary(r)
  \/ updateBlockHeight
  \/ Block
  \/ LinkByExpires
  \/ Crash
  \/ Setup
  \/ fsck

Spec == Init /\ [][Next]_vars

-----------------------------------------------------------------------------
(* Properties. *)

\* Type correctness.
TypeOK ==
  /\ status \in [Records -> {"unreviewed", "discarded", "public", "censored", "archived"}]
  /\ auth \in [Records -> {"none", "authorize", "revoke"}]
  /\ details \in [Records -> SUBSET Heights]
  /\ \A x \in srr : x.end \in Heights
  /\ votes \in [Records -> Nat \X Nat]
  /\ best \in 0..MaxBlock /\ expired \in BOOLEAN
  /\ inv \in [Records -> VoteStatuses]
  /\ subs \subseteq Subs /\ active \subseteq Records
  /\ sums \in [Records -> Decided \cup {Undecided}]
  /\ up \in BOOLEAN /\ writes \in 0..MaxWrites /\ faults \in 0..MaxFaults /\ acked \in BOOLEAN
  /\ lost \in [Records -> {"no", "crash", "panic"}]
  /\ reauth \subseteq Records /\ rebuilt \subseteq Records

\* The authorization of a started vote was changed, or a submission was revoked.
Disordered(r) == r \in reauth \/ (auth[r] = "revoke" /\ details[r] # {})

\* The vote inventory lists each vetted record with the status that its tree says, or
\* as started when the vote has ended in the meantime, unless a crash, a failed save
\* or a panic has kept an update from it since the last fsck, or the authorization
\* and the start of the vote are in disorder.  An update panics (updateEntry in inv.go)
\* only on a record whose vote has been started.
InventoryIsCoherent ==
  /\ \A r \in Records : lost[r] = "panic" => details[r] # {}
  /\ \A r \in Records : lost[r] = "no" /\ ~Locked(r) /\ ~Disordered(r) =>
       CASE r \notin Vetted       -> inv[r] = "absent"
         [] status[r] = "public" -> inv[r] = summary(r) \/ (inv[r] = "started" /\ voteHasEnded(r))
         [] OTHER                -> inv[r] = "ineligible"

\* A vote that the inventory has as started, and that has not ended, can be cast: it
\* is in the active votes, or was put into the inventory by fsck since the start.
StartedVotesAreActive ==
  \A r \in Records :
    up /\ ~Locked(r) /\ inv[r] = "started" /\ ~voteHasEnded(r) => r \in active \cup rebuilt

\* A vote is started at most once, and the inventory has only votes with vote details as
\* started: otherwise the vote could never be read, and politeiad would not start again
\* ("vote details not found for record in started inventory").
StartedVotesAreReadable ==
  Timely => \A r \in Records : Readable(details[r]) /\ (inv[r] = "started" => details[r] # {})

\* The submissions of a runoff vote have one end, and at most one of them is approved.
RunoffHasOneWinner ==
  srr # {} /\ Readable(srr) =>
    /\ \A s \in Submissions : details[s] \subseteq {The(srr).end}
    /\ Cardinality({s \in Subs : sums[s] = "approved"}) <= 1

\* The outcome of a vote that has been decided never changes, not even when fsck
\* builds it again, unless the authorization was revoked or the record is not public.
OutcomesAreFinal ==
  [][\A r \in Records : sums[r] # Undecided /\ sums'[r] # sums[r] =>
       auth[r] = "revoke" \/ status[r] # "public"]_vars

\* "Runoff votes DO NOT require the votes to have been authorized by the submission
\* authors" (api/ticketvote/v1/v1.go:369): a runoff vote that was reported as started
\* can be cast on each of its public submissions until it ends.
RunoffVotesCanBeCast ==
  up /\ acked =>
    \A s \in Submissions : status[s] = "public" /\ ~voteHasEnded(s) => s \in active

=============================================================================
