------------------------- MODULE TicketVote_proofs -------------------------
(***************************************************************************)
(* Proofs about TicketVote, for any records, workers, tallies, thresholds   *)
(* and numbers of blocks, writes and faults; and, in the last part, about    *)
(* ProposalStatus, for any proposals, readers, cache limit and edits.        *)
(***************************************************************************)
EXTENDS TicketVote, ProposalReplies, FiniteSetTheorems, TLAPS

-----------------------------------------------------------------------------
(* The invariant of the tree and of the requests that write to it. *)

IsRunoff(x) ==
  /\ x.end \in Heights /\ DOMAIN x.subs \subseteq Int
  /\ \A i \in DOMAIN x.subs : x.subs[i] \in Subs

\* A leaf that is queued: vote details, or a start runoff record.
IsLate(l) ==
  \/ l.token \in Records /\ l.blob \in Heights
  \/ l.token = "parent" /\ IsRunoff(l.blob)

IsRequest(q) ==
  \/ q = NoReq
  \/ /\ q.todo \subseteq Subs
     /\ \/ q.op \in {"status", "auth"} /\ q.token \in Records
        \/ q.op = "start" /\ q.token \in Standard
        \/ q.op = "sub" /\ q.token \in Subs
        \/ q.op = "runoff" /\ q.token = "parent"

Types ==
  /\ TypeOK
  /\ IsFiniteSet(srr) /\ \A r \in Records : IsFiniteSet(details[r])
  /\ \A x \in srr : IsRunoff(x)
  /\ \A l \in late : IsLate(l)
  /\ req = [w \in Workers |-> req[w]]
  /\ \A w \in Workers : IsRequest(req[w])

InRunoff(q) == q.op \in {"runoff", "sub"}

\* A record is locked by one request, one runoff vote is started at a time, and a
\* process that is down has no requests.
Requests ==
  /\ \A v, w \in Workers : req[v].token = req[w].token /\ req[v] # NoReq => v = w
  /\ \A v, w \in Workers : InRunoff(req[v]) /\ InRunoff(req[w]) => v = w
  /\ ~up => \A w \in Workers : req[w] = NoReq

\* The submissions have the end of the start runoff record, while there is one.
RunoffEnds ==
  /\ \A w \in Workers : InRunoff(req[w]) => srr # {}
  /\ \A s \in Subs : details[s] # {} => srr # {}
  /\ \A l \in late : l.token \in Subs => srr # {}
  /\ \A x \in srr : srr = {x} =>
       /\ \A s \in Subs : details[s] \subseteq {x.end}
       /\ \A l \in late : l.token \in Subs => l.blob = x.end

\* What is called started has vote details.
Started ==
  /\ \A r \in active : details[r] # {}
  /\ \A r \in Records : inv[r] = "started" => details[r] # {}
  /\ \A w \in Workers : req[w].op \in {"start", "sub"} => details[req[w].token] # {}

\* With a timely trillian nothing is written twice: what is queued is not there yet, and
\* no runoff vote is being started while leaves of one are queued.
One(S) == \E x \in S : S = {x}
OneOfEach ==
  /\ \A r \in Records : details[r] = {} \/ One(details[r])
  /\ srr = {} \/ One(srr)
  /\ \A l \in late : IF l.token = "parent" THEN srr = {} ELSE details[l.token] = {}
  /\ \A l, m \in late : l.token = m.token => l = m
  /\ (\E l \in late : l.token \notin Standard) => \A w \in Workers : ~InRunoff(req[w])

TreeInv == Types /\ Requests /\ RunoffEnds /\ Started /\ (Timely => OneOfEach)

-----------------------------------------------------------------------------
(* Sets of at most one blob. *)

LEMMA OneBlob ==
  ASSUME NEW S, IsFiniteSet(S)
  PROVE  /\ Readable(S) <=> S = {} \/ One(S)
         /\ Cardinality(S) = 1 <=> One(S)
<1>1. Cardinality(S) \in Nat /\ (Cardinality(S) = 0 <=> S = {})
  BY FS_CardinalityType, FS_EmptySet
<1>2. ASSUME One(S) PROVE Cardinality(S) = 1
  <2>1. PICK x : S = {x}
    BY <1>2 DEF One
  <2> QED
    BY <2>1, FS_Singleton
<1>3. ASSUME Cardinality(S) = 1 PROVE One(S)
  BY <1>3, FS_Singleton DEF One
<1> QED
  BY <1>1, <1>2, <1>3 DEF Readable

LEMMA TheBlob ==
  /\ \A S : S # {} => The(S) \in S
  /\ \A x : The({x}) = x
BY DEF The

LEMMA OutcomeDecided == \A r : Outcome(r) \in Decided
BY DEF Outcome, summariesForRunoff, Decided

LEMMA TokensDiffer ==
  /\ "none" \notin Records /\ "parent" \notin Records
  /\ Standard \subseteq Records /\ Subs \subseteq Records /\ Standard \cap Subs = {}
BY ConstantsAssumption DEF Records

-----------------------------------------------------------------------------
(* Type correctness. *)

LEMMA ScratchType ==
  \A r \in Records : summaryScratch(r) \in VoteStatuses \cup {"error"}
BY OutcomeDecided DEF summaryScratch, VoteStatuses, Decided

LEMMA SaveTypes ==
  ASSUME TypeOK, NEW rs, SaveSummaries(rs)
  PROVE  sums' \in [Records -> Decided \cup {Undecided}] /\ active' \subseteq Records
BY OutcomeDecided DEF TypeOK, SaveSummaries

LEMMA InvTypes ==
  ASSUME TypeOK, NEW r, NEW new \in VoteStatuses, NEW isNew, InvUpdate(r, new, isNew)
  PROVE  inv' \in [Records -> VoteStatuses] /\ lost' \in [Records -> {"no", "crash", "panic"}]
BY DEF TypeOK, InvUpdate

LEMMA UpdatedInvType ==
  ASSUME TypeOK, CanUpdateBlockHeight
  PROVE  UpdatedInv \in [Records -> VoteStatuses]
BY DEF TypeOK, CanUpdateBlockHeight, UpdatedInv, Ended, Decided, VoteStatuses

\* The end of a runoff vote in progress.
LEMMA RunoffEndType ==
  ASSUME Types, RunoffEnds, NEW w \in Workers, InRunoff(req[w])
  PROVE  The(srr) \in srr /\ The(srr).end \in Heights
BY TheBlob DEF Types, RunoffEnds, IsRunoff

LEMMA NewEndType ==
  TypeOK => best + Duration \in Heights
BY ConstantsAssumption DEF TypeOK, Heights

LEMMA TypesOfRequests ==
  ASSUME TypeOK, NEW w \in Workers,
         \/ \E r \in Records : \/ \E s \in {"public", "discarded", "censored", "archived"} : RecordSetStatus(w, r, s)
                               \/ \E a \in {"authorize", "revoke"} : cmdAuthorize(w, r, a)
                               \/ authSaveError(w, r)
         \/ \E r \in Standard : startStandard(w, r)
         \/ startRunoffDone(w)
  PROVE  TypeOK'
<1>1. ASSUME NEW r \in Records, NEW s \in {"public", "discarded", "censored", "archived"},
             RecordSetStatus(w, r, s)
      PROVE  TypeOK'
  BY <1>1, ConstantsAssumption DEF TypeOK, RecordSetStatus, Free, caches
<1>2. ASSUME NEW r \in Records, NEW a \in {"authorize", "revoke"}, cmdAuthorize(w, r, a)
      PROVE  TypeOK'
  BY <1>2, ConstantsAssumption DEF TypeOK, cmdAuthorize, Authorized, Free, caches
<1>3. ASSUME NEW r \in Records, authSaveError(w, r)
      PROVE  TypeOK'
  BY <1>3, ConstantsAssumption DEF TypeOK, authSaveError, Authorized, Free, caches
<1>4. ASSUME NEW r \in Standard, startStandard(w, r)
      PROVE  TypeOK'
  <2>1. r \in Records /\ best + Duration \in Heights
    BY TokensDiffer, NewEndType
  <2> QED
    BY <1>4, <2>1, ConstantsAssumption DEF TypeOK, startStandard, Free, caches
<1>5. CASE startRunoffDone(w)
  BY <1>5 DEF TypeOK, startRunoffDone, tree, caches
<1> QED
  BY <1>1, <1>2, <1>3, <1>4, <1>5

LEMMA TypesOfCaches ==
  ASSUME TypeOK, Types, NEW w \in Workers,
         hookSetRecordStatusPost(w) \/ AuthorizeCache(w) \/ StartCache(w)
  PROVE  TypeOK'
<1>1. ASSUME req[w].op \in {"status", "auth", "start", "sub"}
      PROVE  req[w].token \in Records
  BY <1>1, TokensDiffer DEF Types, IsRequest, NoReq
<1>2. CASE hookSetRecordStatusPost(w)
  <2> DEFINE r == req[w].token
             isNew == status[r] = "public"
             new == IF isNew THEN "unauthorized" ELSE "ineligible"
  <2>1. inv' \in [Records -> VoteStatuses] /\ lost' \in [Records -> {"no", "crash", "panic"}]
    <3>1. InvUpdate(r, new, isNew) /\ new \in VoteStatuses
      BY <1>2 DEF hookSetRecordStatusPost, VoteStatuses
    <3> HIDE DEF r, new, isNew
    <3> QED
      BY <3>1, InvTypes
  <2>2. subs' \subseteq Subs
    BY <1>2 DEF hookSetRecordStatusPost, TypeOK
  <2> QED
    BY <1>2, <2>1, <2>2 DEF TypeOK, hookSetRecordStatusPost, tree
<1>3. CASE AuthorizeCache(w)
  <2> DEFINE r == req[w].token
             new == IF auth[r] = "authorize" THEN "authorized" ELSE "unauthorized"
  <2>1. inv' \in [Records -> VoteStatuses] /\ lost' \in [Records -> {"no", "crash", "panic"}]
    <3>1. InvUpdate(r, new, FALSE) /\ new \in VoteStatuses
      BY <1>3 DEF AuthorizeCache, VoteStatuses
    <3> HIDE DEF r, new
    <3> QED
      BY <3>1, InvTypes
  <2> QED
    BY <1>3, <2>1 DEF TypeOK, AuthorizeCache, tree
<1>4. CASE StartCache(w)
  <2> DEFINE r == req[w].token
  <2>1. inv' \in [Records -> VoteStatuses] /\ lost' \in [Records -> {"no", "crash", "panic"}]
    <3>1. InvUpdate(r, "started", FALSE) /\ "started" \in VoteStatuses
      BY <1>4 DEF StartCache, VoteStatuses
    <3> QED
      BY <3>1, InvTypes
  <2>2. active' \subseteq Records
    BY <1>1, <1>4 DEF StartCache, TypeOK
  <2> QED
    BY <1>4, <2>1, <2>2 DEF TypeOK, StartCache, tree
<1> QED
  BY <1>2, <1>3, <1>4

LEMMA TypesOfRunoffs ==
  ASSUME Types, RunoffEnds, NEW w \in Workers,
         \/ \E starts \in SUBSET Subs : startRunoff(w, starts)
         \/ \E s \in Subs : startRunoffForSub(w, s)
         \/ voteDetailsSaveError(w)
  PROVE  TypeOK'
<1>1. TypeOK /\ best + Duration \in Heights
  BY NewEndType DEF Types
<1>2. ASSUME NEW starts \in SUBSET Subs, startRunoff(w, starts)
      PROVE  TypeOK'
  <2>1. \A x \in srr' : x.end \in Heights
    BY <1>1, <1>2 DEF startRunoff, TypeOK
  <2> QED
    BY <1>1, <1>2, <2>1, ConstantsAssumption DEF TypeOK, startRunoff, Free, caches
<1>3. ASSUME NEW s \in Subs, startRunoffForSub(w, s)
      PROVE  TypeOK'
  <2>1. The(srr).end \in Heights /\ s \in Records
    BY <1>3, RunoffEndType, TokensDiffer DEF startRunoffForSub, InRunoff
  <2>2. details' \in [Records -> SUBSET Heights]
    BY <1>1, <1>3, <2>1 DEF startRunoffForSub, TypeOK
  <2> QED
    BY <1>1, <1>3, <2>2 DEF TypeOK, startRunoffForSub, caches
<1>4. CASE voteDetailsSaveError(w)
  <2>1. writes' \in 0..MaxWrites /\ faults' \in 0..MaxFaults
    BY <1>1, <1>4, ConstantsAssumption DEF voteDetailsSaveError, Free, TypeOK
  <2> QED
    BY <1>1, <1>4, <2>1 DEF TypeOK, voteDetailsSaveError, caches
<1> QED
  BY <1>2, <1>3, <1>4

LEMMA TypesOfSteps ==
  ASSUME Types, \/ \E l \in late : Integrate(l)
                \/ \E r \in Records : \E t \in Tallies : castVotes(r, t)
                \/ \E r \in Records : cmdSummary(r)
                \/ updateBlockHeight \/ Block \/ LinkByExpires \/ Crash
                \/ UNCHANGED vars
  PROVE  TypeOK'
<1>1. TypeOK
  BY DEF Types
<1>2. ASSUME NEW l \in late, Integrate(l)
      PROVE  TypeOK'
  <2>1. CASE l.token = "parent"
    <3>1. l.blob.end \in Heights
      BY <2>1, TokensDiffer DEF Types, IsLate, IsRunoff
    <3>2. \A x \in srr' : x.end \in Heights
      BY <1>1, <1>2, <2>1, <3>1 DEF Integrate, TypeOK
    <3> QED
      BY <1>1, <1>2, <2>1, <3>2 DEF TypeOK, Integrate, caches
  <2>2. CASE l.token # "parent"
    <3>1. l.token \in Records /\ l.blob \in Heights
      BY <2>2 DEF Types, IsLate
    <3>2. /\ details' \in [Records -> SUBSET Heights]
          /\ lost' \in [Records -> {"no", "crash", "panic"}]
      BY <1>1, <1>2, <2>2, <3>1 DEF Integrate, TypeOK
    <3> QED
      BY <1>1, <1>2, <2>2, <3>2 DEF TypeOK, Integrate, caches
  <2> QED
    BY <2>1, <2>2
<1>3. ASSUME NEW r \in Records, NEW t \in Tallies, castVotes(r, t)
      PROVE  TypeOK'
  <2>1. t \in Nat \X Nat
    BY ConstantsAssumption
  <2>2. votes' \in [Records -> Nat \X Nat]
    BY <1>1, <1>3, <2>1 DEF castVotes, TypeOK
  <2> QED
    BY <1>1, <1>3, <2>2 DEF TypeOK, castVotes, caches
<1>4. ASSUME NEW r \in Records, cmdSummary(r)
      PROVE  TypeOK'
  BY <1>1, <1>4, SaveTypes DEF TypeOK, cmdSummary, tree
<1>5. CASE updateBlockHeight
  <2>1. /\ sums' \in [Records -> Decided \cup {Undecided}] /\ active' \subseteq Records
        /\ inv' \in [Records -> VoteStatuses]
    <3>1. \E rs : SaveSummaries(rs)
      BY <1>5 DEF updateBlockHeight
    <3>2. inv' = inv \/ (CanUpdateBlockHeight /\ inv' = UpdatedInv)
      BY <1>5 DEF updateBlockHeight
    <3> QED
      BY <1>1, <3>1, <3>2, SaveTypes, UpdatedInvType DEF TypeOK
  <2> QED
    BY <1>1, <1>5, <2>1 DEF TypeOK, updateBlockHeight, tree
<1>6. CASE Block
  BY <1>1, <1>6, ConstantsAssumption DEF TypeOK, Block, tree, caches
<1>7. CASE LinkByExpires
  BY <1>1, <1>7 DEF TypeOK, LinkByExpires, tree, caches
<1>8. CASE Crash
  <2>1. lost' \in [Records -> {"no", "crash", "panic"}]
    <3>1. lost \in [Records -> {"no", "crash", "panic"}]
      BY <1>1 DEF TypeOK
    <3>2. lost' = [r \in Records |-> IF Locked(r) THEN "crash" ELSE lost[r]]
      BY <1>8 DEF Crash, Locked
    <3> QED
      BY <3>1, <3>2
  <2>2. faults' \in 0..MaxFaults /\ up' \in BOOLEAN /\ active' \subseteq Records
    <3>1. up' = FALSE /\ faults < MaxFaults /\ faults' = faults + 1 /\ active' = {}
      BY <1>8, Zenon DEF Crash
    <3>2. faults \in 0..MaxFaults /\ MaxFaults \in Nat
      BY <1>1, ConstantsAssumption DEF TypeOK
    <3>3. faults' \in 0..MaxFaults /\ active' \subseteq Records
      BY <3>1, <3>2
    <3>4. up' \in BOOLEAN
      BY <3>1, Zenon
    <3> QED
      BY <3>3, <3>4
  <2>3. UNCHANGED <<status, auth, details, srr, votes, best, expired, inv, subs, sums, acked,
                    writes, reauth, rebuilt>>
    BY <1>8 DEF Crash, tree
  <2> QED
    BY <1>1, <2>1, <2>2, <2>3 DEF TypeOK
<1>9. CASE UNCHANGED vars
  BY <1>1, <1>9 DEF TypeOK, vars, tree, caches
<1> QED
  BY <1>2, <1>3, <1>4, <1>5, <1>6, <1>7, <1>8, <1>9

LEMMA TypesOfStartUp ==
  ASSUME TypeOK, Setup \/ fsck
  PROVE  TypeOK'
<1>1. CanUpdateBlockHeight /\ UpdatedInv \in [Records -> VoteStatuses]
  BY UpdatedInvType DEF Setup, fsck, CanSetup
<1>2. StartedVotes \subseteq Records
  BY DEF StartedVotes
<1>3. CASE Setup
  <2>1. sums' \in [Records -> Decided \cup {Undecided}]
    BY <1>3, OutcomeDecided DEF Setup, TypeOK
  <2> QED
    BY <1>1, <1>2, <1>3, <2>1 DEF TypeOK, Setup, tree
<1>4. CASE fsck
  <2>1. sums' \in [Records -> Decided \cup {Undecided}]
    BY <1>4 DEF fsck
  <2>2. CASE \A r \in Vetted : summaryScratch(r) # "error"
    <3>1. inv' \in [Records -> VoteStatuses]
      BY <1>4, <2>2, ScratchType DEF fsck, VoteStatuses
    <3>2. /\ up' = TRUE /\ subs' \subseteq Subs /\ active' \subseteq Records
          /\ lost' = [r \in Records |-> "no"] /\ rebuilt' \subseteq Records
      BY <1>2, <1>4, <2>2 DEF fsck
    <3> QED
      BY <1>4, <2>1, <3>1, <3>2 DEF TypeOK, fsck, tree
  <2>3. CASE \E r \in Vetted : summaryScratch(r) = "error"
    <3>1. inv' = UpdatedInv /\ UNCHANGED <<up, subs, active, lost, rebuilt>>
      BY <1>4, <2>3 DEF fsck
    <3> QED
      BY <1>1, <1>4, <2>1, <3>1 DEF TypeOK, fsck, tree
  <2> QED
    BY <2>2, <2>3
<1> QED
  BY <1>3, <1>4

-----------------------------------------------------------------------------
(* Steps that leave the leaves of the trees alone. *)

LEMMA RequestChanges ==
  ASSUME Types, Requests, up, up' = up, NEW w \in Workers, NEW q,
         req' = [req EXCEPT ![w] = q], IsRequest(q),
         q # NoReq => \A v \in Workers : v # w => req[v].token # q.token,
         InRunoff(q) => \A v \in Workers : v # w => ~InRunoff(req[v])
  PROVE  /\ Requests'
         /\ req' = [v \in Workers |-> req'[v]] /\ \A v \in Workers : IsRequest(req'[v])
         /\ req'[w] = q /\ \A v \in Workers : v # w => req'[v] = req[v]
<1>1. req'[w] = q /\ \A v \in Workers : v # w => req'[v] = req[v]
  BY DEF Types
<1>2. req' = [v \in Workers |-> req'[v]]
  BY DEF Types
<1>3. \A v \in Workers : IsRequest(req'[v])
  BY <1>1 DEF Types
<1>4. \A v \in Workers : req[v] # NoReq => req[v].token # NoReq.token
  BY TokensDiffer DEF Types, IsRequest, NoReq
<1>5. \A u, v \in Workers : req'[u].token = req'[v].token /\ req'[u] # NoReq => u = v
  BY <1>1, <1>4 DEF Requests
<1>6. \A u, v \in Workers : InRunoff(req'[u]) /\ InRunoff(req'[v]) => u = v
  BY <1>1 DEF Requests
<1> QED
  BY <1>1, <1>2, <1>3, <1>5, <1>6 DEF Requests

\* What a step has to keep when it leaves the leaves alone.
LEMMA QuietConcludes ==
  ASSUME TreeInv, TypeOK', Requests', UNCHANGED <<details, srr, late>>,
         req' = [v \in Workers |-> req'[v]], \A v \in Workers : IsRequest(req'[v]),
         \A v \in Workers : InRunoff(req'[v]) => InRunoff(req[v]),
         \A r \in active' : r \in active \/ details[r] # {},
         \A r \in Records : inv'[r] = "started" => inv[r] = "started" \/ details[r] # {},
         \A v \in Workers : req'[v].op \in {"start", "sub"} =>
           req'[v] = req[v] \/ details[req'[v].token] # {}
  PROVE  TreeInv'
<1>1. details' = details /\ srr' = srr /\ late' = late
  OBVIOUS
<1>2. Types'
  BY <1>1 DEF TreeInv, Types
<1>3. RunoffEnds'
  BY <1>1 DEF TreeInv, RunoffEnds
<1>4. Started'
  BY <1>1 DEF TreeInv, Started
<1>5. Timely => OneOfEach'
  BY <1>1 DEF TreeInv, OneOfEach
<1> QED
  BY <1>2, <1>3, <1>4, <1>5 DEF TreeInv

LEMMA QuietRequest ==
  ASSUME TreeInv, TypeOK', UNCHANGED <<details, srr, late>>, up, up' = up,
         NEW w \in Workers, NEW q, req' = [req EXCEPT ![w] = q], IsRequest(q),
         q # NoReq => \A v \in Workers : v # w => req[v].token # q.token,
         InRunoff(q) => InRunoff(req[w]),
         \A r \in active' : r \in active \/ details[r] # {},
         \A r \in Records : inv'[r] = "started" => inv[r] = "started" \/ details[r] # {},
         q.op \in {"start", "sub"} => details[q.token] # {}
  PROVE  TreeInv'
<1>1. InRunoff(q) => \A v \in Workers : v # w => ~InRunoff(req[v])
  BY DEF TreeInv, Requests
<1>2. /\ Requests'
      /\ req' = [v \in Workers |-> req'[v]] /\ \A v \in Workers : IsRequest(req'[v])
      /\ req'[w] = q /\ \A v \in Workers : v # w => req'[v] = req[v]
  BY <1>1, RequestChanges DEF TreeInv
<1>3. \A v \in Workers : InRunoff(req'[v]) => InRunoff(req[v])
  BY <1>2
<1>4. \A v \in Workers : req'[v].op \in {"start", "sub"} =>
        req'[v] = req[v] \/ details[req'[v].token] # {}
  BY <1>2
<1> QED
  BY <1>2, <1>3, <1>4, QuietConcludes

LEMMA QuietStep ==
  ASSUME TreeInv, TypeOK', UNCHANGED <<details, srr, late>>, req' = req,
         up' = up \/ req = [v \in Workers |-> NoReq],
         \A r \in active' : r \in active \/ details[r] # {},
         \A r \in Records : inv'[r] = "started" => inv[r] = "started" \/ details[r] # {}
  PROVE  TreeInv'
<1>1. Requests'
  BY DEF TreeInv, Requests
<1> QED
  BY <1>1, QuietConcludes DEF TreeInv, Types

LEMMA RequestOfWorker ==
  ASSUME TreeInv, NEW w \in Workers, req[w] # NoReq
  PROVE  /\ up /\ req[w].todo \subseteq Subs
         /\ req[w].op \in {"status", "auth"} => req[w].token \in Records
         /\ req[w].op = "start" => req[w].token \in Standard
         /\ req[w].op = "sub" => req[w].token \in Subs
         /\ req[w].op = "runoff" => req[w].token = "parent"
         /\ \A v \in Workers : v # w => req[v].token # req[w].token
BY DEF TreeInv, Requests, Types, IsRequest

LEMMA NoRequest ==
  ~InRunoff(NoReq) /\ NoReq.op = "none" /\ NoReq.token = "none" /\ IsRequest(NoReq)
BY DEF NoReq, InRunoff, IsRequest

LEMMA FreeWorker ==
  ASSUME NEW w, NEW r, Free(w, r)
  PROVE  up /\ req[w] = NoReq /\ (\A v \in Workers : req[v].token # r) /\ (Timely => late = {})
BY DEF Free, Locked

LEMMA InvStarted ==
  ASSUME TypeOK, NEW r, NEW new, NEW isNew, InvUpdate(r, new, isNew), NEW x \in Records, inv'[x] = "started"
  PROVE  inv[x] = "started" \/ (x = r /\ new = "started" /\ InvFinds(r, new, isNew))
BY DEF InvUpdate, TypeOK

LEMMA TreeRequests ==
  ASSUME TreeInv, NEW w \in Workers, NEW r \in Records,
         \/ \E s \in {"public", "discarded", "censored", "archived"} : RecordSetStatus(w, r, s)
         \/ \E a \in {"authorize", "revoke"} : cmdAuthorize(w, r, a)
         \/ authSaveError(w, r)
  PROVE  TreeInv'
<1>1. TypeOK'
  BY TypesOfRequests DEF TreeInv, Types
<1>2. ASSUME NEW op \in {"status", "auth"}, Begin(w, op, r, {}), Free(w, r),
             UNCHANGED <<details, srr, late, up, active, inv>>
      PROVE  TreeInv'
  <2> DEFINE q == [op |-> op, token |-> r, todo |-> {}]
  <2>1. IsRequest(q) /\ ~InRunoff(q) /\ q.op \notin {"start", "sub"} /\ q.token = r
    BY DEF IsRequest, InRunoff
  <2>2. req' = [req EXCEPT ![w] = q]
    BY <1>2 DEF Begin
  <2>3. up /\ \A v \in Workers : req[v].token # r
    BY <1>2, FreeWorker
  <2> HIDE DEF q
  <2> QED
    BY <1>1, <1>2, <2>1, <2>2, <2>3, QuietRequest
<1>3. ASSUME NEW s \in {"public", "discarded", "censored", "archived"}, RecordSetStatus(w, r, s)
      PROVE  TreeInv'
  <2>1. /\ Free(w, r) /\ UNCHANGED <<details, srr, late, up, active, inv>>
        /\ req' = req \/ Begin(w, "status", r, {})
    BY <1>3 DEF RecordSetStatus, caches
  <2> QED
    BY <1>1, <1>2, <2>1, QuietStep
<1>4. ASSUME NEW a \in {"authorize", "revoke"}, cmdAuthorize(w, r, a)
      PROVE  TreeInv'
  <2>1. /\ Free(w, r) /\ UNCHANGED <<details, srr, late, up, active, inv>>
        /\ Begin(w, "auth", r, {})
    BY <1>4 DEF cmdAuthorize, caches
  <2> QED
    BY <1>2, <2>1
<1>5. CASE authSaveError(w, r)
  <2>1. UNCHANGED <<details, srr, late, up, active, inv, req>>
    BY <1>5 DEF authSaveError, caches
  <2> QED
    BY <1>1, <2>1, QuietStep
<1> QED
  BY <1>3, <1>4, <1>5

LEMMA TreeCaches ==
  ASSUME TreeInv, NEW w \in Workers,
         hookSetRecordStatusPost(w) \/ AuthorizeCache(w) \/ StartCache(w) \/ startRunoffDone(w)
  PROVE  TreeInv'
<1>1. TypeOK' /\ TypeOK
  BY TypesOfCaches, TypesOfRequests DEF TreeInv, Types
<1>2. /\ UNCHANGED <<details, srr, late, up>> /\ req[w] # NoReq
      /\ req[w].op \in {"status", "auth", "start", "sub", "runoff"}
  BY NoRequest DEF hookSetRecordStatusPost, AuthorizeCache, StartCache, startRunoffDone, tree
<1>3. /\ up
      /\ req[w].op \in {"start", "sub"} => details[req[w].token] # {}
  BY <1>2, RequestOfWorker DEF TreeInv, Started
<1>4. ASSUME End(w), \A r \in active' : r \in active \/ details[r] # {},
             \A r \in Records : inv'[r] = "started" => inv[r] = "started" \/ details[r] # {}
      PROVE  TreeInv'
  <2>1. req' = [req EXCEPT ![w] = NoReq]
    BY <1>4 DEF End
  <2> QED
    BY <1>1, <1>2, <1>3, <1>4, <2>1, NoRequest, QuietRequest
<1>5. CASE hookSetRecordStatusPost(w)
  <2> DEFINE new == IF status[req[w].token] = "public" THEN "unauthorized" ELSE "ineligible"
             isNew == status[req[w].token] = "public"
  <2>1. InvUpdate(req[w].token, new, isNew) /\ new # "started" /\ active' = active /\ End(w)
    BY <1>5 DEF hookSetRecordStatusPost
  <2> HIDE DEF new, isNew
  <2>2. \A r \in Records : inv'[r] = "started" => inv[r] = "started"
    BY <1>1, <2>1, InvStarted
  <2> QED
    BY <1>4, <2>1, <2>2
<1>6. CASE AuthorizeCache(w)
  <2> DEFINE new == IF auth[req[w].token] = "authorize" THEN "authorized" ELSE "unauthorized"
  <2>1. InvUpdate(req[w].token, new, FALSE) /\ new # "started" /\ active' = active /\ End(w)
    BY <1>6 DEF AuthorizeCache
  <2> HIDE DEF new
  <2>2. \A r \in Records : inv'[r] = "started" => inv[r] = "started"
    BY <1>1, <2>1, InvStarted
  <2> QED
    BY <1>4, <2>1, <2>2
<1>7. CASE StartCache(w)
  <2> DEFINE r == req[w].token
             q == [op |-> "runoff", token |-> "parent", todo |-> req[w].todo \ {r}]
  <2>1. /\ InvUpdate(r, "started", FALSE)
        /\ active' = active \/ active' = active \cup {r}
        /\ End(w) \/ (req[w].op = "sub" /\ req' = [req EXCEPT ![w] = q])
        /\ req[w].op \in {"start", "sub"}
    BY <1>7 DEF StartCache, Begin
  <2>2. \A x \in Records : inv'[x] = "started" => inv[x] = "started" \/ details[x] # {}
    <3>1. \A x \in Records : inv'[x] = "started" => inv[x] = "started" \/ x = r
      BY <1>1, <2>1, InvStarted
    <3> QED
      BY <1>3, <2>1, <3>1
  <2>3. \A x \in active' : x \in active \/ details[x] # {}
    BY <1>3, <2>1
  <2>4. CASE End(w)
    BY <1>4, <2>2, <2>3, <2>4
  <2>5. CASE req[w].op = "sub" /\ req' = [req EXCEPT ![w] = q]
    <3>1. /\ q.todo \subseteq Subs /\ IsRequest(q) /\ InRunoff(req[w])
          /\ q.op \notin {"start", "sub"} /\ q.token = "parent"
      BY <1>2, <2>5, RequestOfWorker DEF IsRequest, InRunoff
    <3>2. \A v \in Workers : v # w => req[v].token # "parent"
      <4> SUFFICES ASSUME NEW v \in Workers, v # w, req[v].token = "parent" PROVE FALSE
        OBVIOUS
      <4>1. InRunoff(req[v])
        BY TokensDiffer DEF TreeInv, Types, IsRequest, NoReq, InRunoff
      <4> QED
        BY <3>1, <4>1 DEF TreeInv, Requests
    <3> HIDE DEF q
    <3> QED
      BY <1>1, <1>2, <1>3, <2>2, <2>3, <2>5, <3>1, <3>2, QuietRequest
  <2> QED
    BY <2>1, <2>4, <2>5
<1>8. CASE startRunoffDone(w)
  BY <1>4, <1>8 DEF startRunoffDone, caches
<1> QED
  BY <1>5, <1>6, <1>7, <1>8

LEMMA TreeOthers ==
  ASSUME TreeInv, \/ \E r \in Records : \E t \in Tallies : castVotes(r, t)
                  \/ \E r \in Records : cmdSummary(r)
                  \/ updateBlockHeight \/ Block \/ LinkByExpires \/ Crash
                  \/ UNCHANGED vars
  PROVE  TreeInv'
<1>1. TypeOK' /\ TypeOK
  BY TypesOfSteps DEF TreeInv, Types
<1>2. CASE (\E r \in Records : \E t \in Tallies : castVotes(r, t)) \/ Block \/ LinkByExpires \/ UNCHANGED vars
  <2>1. UNCHANGED <<details, srr, late, up, req, inv, active>>
    BY <1>2 DEF castVotes, Block, LinkByExpires, vars, tree, caches
  <2> QED
    BY <1>1, <2>1, QuietStep
<1>3. CASE (\E r \in Records : cmdSummary(r)) \/ updateBlockHeight
  <2>1. UNCHANGED <<details, srr, late, up, req>> /\ (\E rs : SaveSummaries(rs))
        /\ (inv' = inv \/ (CanUpdateBlockHeight /\ inv' = UpdatedInv))
    BY <1>3 DEF cmdSummary, updateBlockHeight, tree
  <2>2. active' \subseteq active
    BY <2>1 DEF SaveSummaries
  <2>3. \A r \in Records : inv'[r] = "started" => inv[r] = "started"
    BY <2>1 DEF CanUpdateBlockHeight, UpdatedInv, Ended, Decided
  <2> QED
    BY <1>1, <2>1, <2>2, <2>3, QuietStep
<1>4. CASE Crash
  <2>1. UNCHANGED <<details, srr, late, inv>> /\ active' = {} /\ ~up'
        /\ req' = [w \in Workers |-> NoReq]
    BY <1>4 DEF Crash, tree
  <2>2. \A v \in Workers : req'[v] = NoReq
    BY <2>1
  <2>3. Requests'
    <3>1. \A u, v \in Workers : ~(req'[u] # NoReq) /\ ~InRunoff(req'[u])
      BY <2>2, NoRequest
    <3> QED
      BY <2>2, <3>1 DEF Requests
  <2>4. req' = [v \in Workers |-> req'[v]]
    BY <2>1
  <2>5. \A v \in Workers : req'[v].op \notin {"start", "sub"} /\ ~InRunoff(req'[v]) /\ IsRequest(req'[v])
    BY <2>2, NoRequest
  <2> QED
    BY <1>1, <2>1, <2>3, <2>4, <2>5, QuietConcludes
<1> QED
  BY <1>2, <1>3, <1>4

\* No request survives a stop.
LEMMA DownHasNoRequests ==
  ASSUME TreeInv, ~up
  PROVE  req = [v \in Workers |-> NoReq]
BY DEF TreeInv, Types, Requests

LEMMA TreeStartUp ==
  ASSUME TreeInv, Setup \/ fsck
  PROVE  TreeInv'
<1>1. TypeOK' /\ ~up
  BY TypesOfStartUp DEF TreeInv, Types, Setup, fsck
<1>2. UNCHANGED <<details, srr, late, req>> /\ CanUpdateBlockHeight
  BY DEF Setup, fsck, CanSetup, tree
<1>3. \A r \in Records : UpdatedInv[r] = "started" => details[r] # {}
  BY <1>2 DEF CanUpdateBlockHeight, UpdatedInv, Ended, Decided, TreeInv, Started
<1>4. \A r \in StartedVotes : details[r] # {}
  BY <1>3 DEF StartedVotes
<1>5. CASE Setup
  <2>1. inv' = UpdatedInv /\ active' = StartedVotes
    BY <1>5 DEF Setup
  <2> QED
    BY <1>1, <1>2, <1>3, <1>4, <2>1, DownHasNoRequests, QuietStep
<1>6. CASE fsck
  <2>1. CASE \A r \in Vetted : summaryScratch(r) # "error"
    <3>1. active' \subseteq StartedVotes
          /\ inv' = [r \in Records |-> IF r \in Vetted THEN summaryScratch(r) ELSE "absent"]
      BY <1>6, <2>1 DEF fsck
    <3>2. \A r \in Records : inv'[r] = "started" => details[r] # {}
      BY <3>1, OutcomeDecided DEF summaryScratch, Decided
    <3> QED
      BY <1>1, <1>2, <1>4, <3>1, <3>2, DownHasNoRequests, QuietStep
  <2>2. CASE \E r \in Vetted : summaryScratch(r) = "error"
    <3>1. inv' = UpdatedInv /\ active' = active
      BY <1>6, <2>2 DEF fsck
    <3> QED
      BY <1>1, <1>2, <1>3, <3>1, DownHasNoRequests, QuietStep
  <2> QED
    BY <2>1, <2>2
<1> QED
  BY <1>5, <1>6

-----------------------------------------------------------------------------
(* Steps that append leaves. *)

LEMMA StartedGrows ==
  ASSUME TreeInv, \A r \in Records : details[r] \subseteq details'[r],
         active' = active, inv' = inv,
         \A v \in Workers : req'[v].op \in {"start", "sub"} =>
           req'[v] = req[v] \/ details'[req'[v].token] # {}
  PROVE  Started'
<1>1. \A r \in active' : details'[r] # {}
  BY DEF TreeInv, Types, TypeOK, Started
<1>2. \A r \in Records : inv'[r] = "started" => details'[r] # {}
  BY DEF TreeInv, Started
<1>3. ASSUME NEW v \in Workers, req'[v].op \in {"start", "sub"}
      PROVE  details'[req'[v].token] # {}
  <2>1. CASE req'[v] = req[v]
    <3>1. req[v] # NoReq /\ details[req[v].token] # {}
      BY <1>3, <2>1, NoRequest DEF TreeInv, Started
    <3>2. req[v].token \in Records
      BY <1>3, <2>1, <3>1, RequestOfWorker, TokensDiffer
    <3> QED
      BY <2>1, <3>1, <3>2
  <2> QED
    BY <1>3, <2>1
<1> QED
  BY <1>1, <1>2, <1>3 DEF Started

LEMMA TreeStandard ==
  ASSUME TreeInv, NEW w \in Workers, NEW r \in Standard, startStandard(w, r)
  PROVE  TreeInv'
<1> DEFINE e == best + Duration
           q == [op |-> "start", token |-> r, todo |-> {}]
<1>1. TypeOK' /\ TypeOK
  BY TypesOfRequests DEF TreeInv, Types
<1>2. /\ Free(w, r) /\ details[r] = {} /\ details' = [details EXCEPT ![r] = {e}]
      /\ req' = [req EXCEPT ![w] = q] /\ UNCHANGED <<srr, late, up, active, inv>>
  BY DEF startStandard, Begin, caches
<1>3. IsRequest(q) /\ ~InRunoff(q) /\ q # NoReq /\ q.token = r
  BY DEF IsRequest, InRunoff, NoReq
<1>4. up /\ (\A v \in Workers : req[v].token # r) /\ (Timely => late = {})
  BY <1>2, FreeWorker
<1>5. r \in Records /\ r \notin Subs
  BY TokensDiffer
<1> HIDE DEF e, q
<1>6. /\ details'[r] = {e} /\ \A x \in Records : x # r => details'[x] = details[x]
  BY <1>1, <1>2, <1>5 DEF TypeOK
<1>7. /\ Requests'
      /\ req' = [v \in Workers |-> req'[v]] /\ \A v \in Workers : IsRequest(req'[v])
      /\ req'[w] = q /\ \A v \in Workers : v # w => req'[v] = req[v]
  BY <1>2, <1>3, <1>4, RequestChanges DEF TreeInv
<1>8. \A v \in Workers : InRunoff(req'[v]) => InRunoff(req[v])
  BY <1>3, <1>7
<1>9. Types'
  <2>1. \A x \in Records : IsFiniteSet(details'[x])
    <3>1. \A x \in Records : IsFiniteSet(details[x])
      BY DEF TreeInv, Types
    <3>2. IsFiniteSet({e})
      BY FS_Singleton
    <3> QED
      BY <1>6, <3>1, <3>2
  <2> QED
    BY <1>1, <1>2, <1>7, <2>1 DEF TreeInv, Types
<1>10. RunoffEnds'
  <2>1. \A s \in Subs : details'[s] = details[s]
    BY <1>5, <1>6, TokensDiffer
  <2> QED
    BY <1>2, <1>8, <2>1 DEF TreeInv, RunoffEnds
<1>11. Started'
  <2>1. \A x \in Records : details[x] \subseteq details'[x]
    BY <1>2, <1>6
  <2>2. \A v \in Workers : req'[v] = req[v] \/ details'[req'[v].token] # {}
    BY <1>3, <1>6, <1>7
  <2> QED
    BY <1>2, <2>1, <2>2, StartedGrows
<1>12. Timely => OneOfEach'
  <2> SUFFICES ASSUME Timely PROVE OneOfEach'
    OBVIOUS
  <2>1. \A x \in Records : details'[x] = {} \/ One(details'[x])
    BY <1>6 DEF TreeInv, OneOfEach, One
  <2>2. late' = {}
    BY <1>2, <1>4
  <2> QED
    BY <1>2, <2>1, <2>2 DEF TreeInv, OneOfEach
<1> QED
  BY <1>7, <1>9, <1>10, <1>11, <1>12 DEF TreeInv

\* The start of a runoff vote: the request of the parent.
LEMMA ParentRequest ==
  ASSUME TreeInv, NEW w, Free(w, "parent"), ~\E v \in Workers : req[v].op = "sub"
  PROVE  \A v \in Workers : ~InRunoff(req[v]) /\ req[v].token # "parent"
<1>1. \A v \in Workers : req[v].token # "parent"
  BY FreeWorker
<1>2. \A v \in Workers : req[v].op # "runoff"
  BY <1>1, NoRequest, RequestOfWorker
<1> QED
  BY <1>1, <1>2 DEF InRunoff

LEMMA NewRunoff ==
  ASSUME TypeOK, NEW S \in SUBSET Subs, NEW q \in Orders(S)
  PROVE  IsRunoff([subs |-> q, end |-> best + Duration])
BY NewEndType DEF Orders, IsRunoff

LEMMA TreeRunoff ==
  ASSUME TreeInv, NEW w \in Workers, NEW starts \in SUBSET Subs, startRunoff(w, starts)
  PROVE  TreeInv'
<1> DEFINE q == [op |-> "runoff", token |-> "parent", todo |-> starts]
<1>1. TypeOK' /\ TypeOK
  BY TypesOfRunoffs DEF TreeInv, Types
<1>2. /\ Free(w, "parent") /\ ~(\E v \in Workers : req[v].op = "sub")
      /\ req' = [req EXCEPT ![w] = q] /\ UNCHANGED <<details, late, up, active, inv>>
  BY DEF startRunoff, Begin, caches
<1>3. \/ srr # {} /\ srr' = srr
      \/ srr = {} /\ \E x : IsRunoff(x) /\ srr' = {x}
  <2>1. \/ srr # {} /\ srr' = srr
        \/ /\ srr = {}
           /\ \E p \in Orders(starts) : srr' = {[subs |-> p, end |-> best + Duration]}
    BY DEF startRunoff
  <2> QED
    BY <1>1, <2>1, NewRunoff
<1>4. IsRequest(q) /\ q.op \notin {"start", "sub"} /\ q # NoReq /\ q.token = "parent"
  BY DEF IsRequest, NoReq
<1>5. up /\ (Timely => late = {})
  BY <1>2, FreeWorker
<1>6. \A v \in Workers : ~InRunoff(req[v]) /\ req[v].token # "parent"
  BY <1>2, ParentRequest
<1> HIDE DEF q
<1>7. /\ Requests'
      /\ req' = [v \in Workers |-> req'[v]] /\ \A v \in Workers : IsRequest(req'[v])
      /\ req'[w] = q /\ \A v \in Workers : v # w => req'[v] = req[v]
  BY <1>2, <1>4, <1>5, <1>6, RequestChanges DEF TreeInv
<1>8. Types'
  <2>1. IsFiniteSet(srr') /\ \A x \in srr' : IsRunoff(x)
    BY <1>3, FS_Singleton, SMTT(30) DEF TreeInv, Types
  <2> QED
    BY <1>1, <1>2, <1>7, <2>1 DEF TreeInv, Types
<1>9. RunoffEnds'
  <2>1. srr' # {}
    BY <1>3
  <2>2. CASE srr' = srr
    BY <1>2, <2>1, <2>2 DEF TreeInv, RunoffEnds
  <2>3. CASE srr = {}
    <3>1. (\A s \in Subs : details[s] = {}) /\ (\A l \in late : l.token \notin Subs)
      BY <2>3 DEF TreeInv, RunoffEnds
    <3> QED
      BY <1>2, <2>1, <3>1 DEF RunoffEnds
  <2> QED
    BY <1>3, <2>2, <2>3
<1>10. Started'
  <2>1. \A v \in Workers : req'[v].op \in {"start", "sub"} => req'[v] = req[v]
    BY <1>4, <1>7
  <2> QED
    BY <1>2, <2>1, StartedGrows
<1>11. Timely => OneOfEach'
  <2> SUFFICES ASSUME Timely PROVE OneOfEach'
    OBVIOUS
  <2>1. srr' = {} \/ One(srr')
    BY <1>3 DEF TreeInv, OneOfEach, One
  <2>2. late' = {}
    BY <1>2, <1>5
  <2> QED
    BY <1>2, <2>1, <2>2 DEF TreeInv, OneOfEach
<1> QED
  BY <1>7, <1>8, <1>9, <1>10, <1>11 DEF TreeInv

LEMMA TreeForSub ==
  ASSUME TreeInv, NEW w \in Workers, NEW s \in Subs, startRunoffForSub(w, s)
  PROVE  TreeInv'
<1>1. TypeOK' /\ TypeOK
  BY TypesOfRunoffs DEF TreeInv, Types
<1>2. /\ req[w].op = "runoff" /\ s \in req[w].todo /\ ~Locked(s)
      /\ UNCHANGED <<srr, late, up, active, inv>>
  BY DEF startRunoffForSub, caches
<1>3. req[w] # NoReq /\ InRunoff(req[w]) /\ req[w].token = "parent"
  BY <1>2, NoRequest, RequestOfWorker DEF InRunoff
<1>4. up /\ req[w].todo \subseteq Subs /\ \A v \in Workers : v # w => req[v].token # "parent"
  BY <1>3, RequestOfWorker
\* The submission is skipped, or the request fails.
<1>5. CASE details' = details /\ (Begin(w, "runoff", "parent", req[w].todo \ {s}) \/ End(w))
  <2> DEFINE q == [op |-> "runoff", token |-> "parent", todo |-> req[w].todo \ {s}]
  <2>1. req' = [req EXCEPT ![w] = q] \/ req' = [req EXCEPT ![w] = NoReq]
    BY <1>5 DEF Begin, End
  <2>2. IsRequest(q) /\ q.op \notin {"start", "sub"} /\ q.token = "parent"
    BY <1>4 DEF IsRequest
  <2> HIDE DEF q
  <2>3. CASE req' = [req EXCEPT ![w] = q]
    BY <1>1, <1>2, <1>3, <1>4, <1>5, <2>2, <2>3, QuietRequest
  <2>4. CASE req' = [req EXCEPT ![w] = NoReq]
    BY <1>1, <1>2, <1>3, <1>4, <1>5, <2>4, NoRequest, QuietRequest
  <2> QED
    BY <2>1, <2>3, <2>4
\* The vote details are saved.
<1>6. CASE /\ details[s] = {} /\ details' = [details EXCEPT ![s] = {The(srr).end}]
           /\ Begin(w, "sub", s, req[w].todo)
  <2> DEFINE e == The(srr).end
             q == [op |-> "sub", token |-> s, todo |-> req[w].todo]
  <2>1. IsRequest(q) /\ InRunoff(q) /\ q.token = s /\ q # NoReq
    BY <1>4 DEF IsRequest, InRunoff, NoReq
  <2>2. req' = [req EXCEPT ![w] = q] /\ details' = [details EXCEPT ![s] = {e}]
    BY <1>6 DEF Begin
  <2>3. s \in Records
    BY TokensDiffer
  <2>4. srr # {} /\ \A x \in srr : srr = {x} => x.end = e
    BY <1>3, TheBlob DEF TreeInv, RunoffEnds
  <2> HIDE DEF e, q
  <2>5. details'[s] = {e} /\ \A x \in Records : x # s => details'[x] = details[x]
    BY <1>1, <2>2, <2>3 DEF TypeOK
  <2>6. \A v \in Workers : v # w => ~InRunoff(req[v]) /\ req[v].token # s
    BY <1>2, <1>3 DEF TreeInv, Requests, Locked
  <2>7. /\ Requests'
        /\ req' = [v \in Workers |-> req'[v]] /\ \A v \in Workers : IsRequest(req'[v])
        /\ req'[w] = q /\ \A v \in Workers : v # w => req'[v] = req[v]
    BY <1>2, <1>4, <2>1, <2>2, <2>6, RequestChanges DEF TreeInv
  <2>8. Types'
    <3>1. \A x \in Records : IsFiniteSet(details[x])
      BY DEF TreeInv, Types
    <3>2. IsFiniteSet({e})
      BY FS_Singleton
    <3>3. \A x \in Records : IsFiniteSet(details'[x])
      BY <2>5, <3>1, <3>2
    <3> QED
      BY <1>1, <1>2, <2>7, <3>3 DEF TreeInv, Types
  <2>9. RunoffEnds'
    <3>1. \A x \in srr : srr = {x} => \A t \in Subs : details'[t] \subseteq {x.end}
      BY <2>4, <2>5, TokensDiffer DEF TreeInv, RunoffEnds
    <3> QED
      BY <1>2, <2>4, <3>1 DEF TreeInv, RunoffEnds
  <2>10. Started'
    <3>1. \A x \in Records : details[x] \subseteq details'[x]
      BY <1>6, <2>5
    <3>2. \A v \in Workers : req'[v] = req[v] \/ details'[req'[v].token] # {}
      BY <2>1, <2>5, <2>7
    <3> QED
      BY <1>2, <3>1, <3>2, StartedGrows
  <2>11. Timely => OneOfEach'
    <3> SUFFICES ASSUME Timely PROVE OneOfEach'
      OBVIOUS
    <3>1. \A l \in late : l.token \in Standard /\ l.token # s /\ l.token # "parent"
      BY <1>3, TokensDiffer DEF TreeInv, OneOfEach
    <3>2. \A x \in Records : details'[x] = {} \/ One(details'[x])
      BY <2>5 DEF TreeInv, OneOfEach, One
    <3>3. \A l \in late : details'[l.token] = {}
      BY <2>5, <3>1, TokensDiffer DEF TreeInv, OneOfEach
    <3> QED
      BY <1>2, <3>1, <3>2, <3>3 DEF TreeInv, OneOfEach
  <2> QED
    BY <2>7, <2>8, <2>9, <2>10, <2>11 DEF TreeInv
<1> QED
  BY <1>5, <1>6 DEF startRunoffForSub

\* The leaf that the failed save of a request leaves in the queue.
Queued(w, n) ==
  /\ IsLate(n)
  /\ \/ n.token \in Standard /\ (Timely => late = {}) /\ details[n.token] = {}
     \/ /\ n.token \in Subs /\ details[n.token] = {} /\ InRunoff(req[w])
        /\ srr # {} /\ n.blob = The(srr).end
     \/ /\ n.token = "parent" /\ (Timely => late = {}) /\ srr = {}
        /\ \A v \in Workers : ~InRunoff(req[v])

LEMMA SaveErrorQueues ==
  ASSUME TreeInv, NEW w \in Workers, voteDetailsSaveError(w)
  PROVE  up /\ \E n : late' = late \cup {n} /\ Queued(w, n)
<1>1. TypeOK /\ best + Duration \in Heights
  BY NewEndType DEF TreeInv, Types
<1>2. ASSUME NEW r \in Standard, Free(w, r), details[r] = {},
             late' = late \cup {[token |-> r, blob |-> best + Duration]}
      PROVE  up /\ \E n : late' = late \cup {n} /\ Queued(w, n)
  <2> DEFINE n == [token |-> r, blob |-> best + Duration]
  <2>1. IsLate(n) /\ n.token = r
    BY <1>1, TokensDiffer DEF IsLate
  <2>2. late' = late \cup {n}
    BY <1>2
  <2> HIDE DEF n
  <2>3. up /\ Queued(w, n)
    BY <1>2, <2>1, FreeWorker DEF Queued
  <2> QED
    BY <2>2, <2>3
<1>3. ASSUME NEW s \in req[w].todo, req[w].op = "runoff", details[s] = {},
             late' = late \cup {[token |-> s, blob |-> The(srr).end]}
      PROVE  up /\ \E n : late' = late \cup {n} /\ Queued(w, n)
  <2> DEFINE n == [token |-> s, blob |-> The(srr).end]
  <2>1. req[w] # NoReq /\ InRunoff(req[w])
    BY <1>3, NoRequest DEF InRunoff
  <2>2. up /\ s \in Subs
    BY <2>1, RequestOfWorker
  <2>3. srr # {} /\ The(srr).end \in Heights
    BY <2>1, RunoffEndType DEF TreeInv
  <2>4. IsLate(n) /\ n.token = s /\ n.blob = The(srr).end
    BY <2>2, <2>3, TokensDiffer DEF IsLate
  <2>5. late' = late \cup {n}
    BY <1>3
  <2> HIDE DEF n
  <2>6. Queued(w, n)
    BY <1>3, <2>1, <2>2, <2>3, <2>4 DEF Queued
  <2> QED
    BY <2>2, <2>5, <2>6
<1>4. ASSUME Free(w, "parent"), ~\E v \in Workers : req[v].op = "sub", srr = {},
             NEW q \in Orders(Expected),
             late' = late \cup {[token |-> "parent", blob |-> [subs |-> q, end |-> best + Duration]]}
      PROVE  up /\ \E n : late' = late \cup {n} /\ Queued(w, n)
  <2> DEFINE x == [subs |-> q, end |-> best + Duration]
             n == [token |-> "parent", blob |-> x]
  <2>1. Expected \in SUBSET Subs
    BY <1>1 DEF Expected, TypeOK
  <2>2. IsRunoff(x)
    BY <1>1, <2>1, NewRunoff
  <2>3. late' = late \cup {n}
    BY <1>4
  <2> HIDE DEF x
  <2>4. IsLate(n) /\ n.token = "parent"
    BY <2>2 DEF IsLate
  <2> HIDE DEF n
  <2>5. \A v \in Workers : ~InRunoff(req[v])
    BY <1>4, ParentRequest
  <2>6. up /\ Queued(w, n)
    BY <1>4, <2>4, <2>5, FreeWorker DEF Queued
  <2> QED
    BY <2>3, <2>6
<1> QED
  BY <1>2, <1>3, <1>4 DEF voteDetailsSaveError

LEMMA TreeSaveError ==
  ASSUME TreeInv, NEW w \in Workers, voteDetailsSaveError(w)
  PROVE  TreeInv'
<1>1. TypeOK' /\ TypeOK
  BY TypesOfRunoffs DEF TreeInv, Types
<1>2. /\ req' = [req EXCEPT ![w] = NoReq]
      /\ UNCHANGED <<details, srr, up, active, inv>>
  BY DEF voteDetailsSaveError, End, caches
<1>3. PICK n : up /\ late' = late \cup {n} /\ Queued(w, n)
  BY SaveErrorQueues
<1>4. /\ Requests'
      /\ req' = [v \in Workers |-> req'[v]] /\ \A v \in Workers : IsRequest(req'[v])
      /\ req'[w] = NoReq /\ \A v \in Workers : v # w => req'[v] = req[v]
  BY <1>2, <1>3, NoRequest, RequestChanges DEF TreeInv
<1>5. Types'
  BY <1>1, <1>2, <1>3, <1>4 DEF TreeInv, Types, Queued
<1>6. \A v \in Workers : InRunoff(req'[v]) => v # w /\ InRunoff(req[v])
  BY <1>4, NoRequest
<1>7. RunoffEnds'
  <2>1. \A x \in srr : srr = {x} /\ n.token \in Subs => n.blob = x.end
    BY <1>3, TheBlob, TokensDiffer DEF Queued
  <2>2. n.token \in Subs => srr # {}
    BY <1>3, TokensDiffer DEF Queued
  <2> QED
    BY <1>2, <1>3, <1>6, <2>1, <2>2 DEF TreeInv, RunoffEnds
<1>8. Started'
  <2>1. \A v \in Workers : req'[v].op \in {"start", "sub"} => req'[v] = req[v]
    BY <1>4, NoRequest
  <2> QED
    BY <1>2, <2>1, StartedGrows
<1>9. Timely => OneOfEach'
  <2> SUFFICES ASSUME Timely PROVE OneOfEach'
    OBVIOUS
  <2>1. OneOfEach
    BY DEF TreeInv
  <2>2. IF n.token = "parent" THEN srr = {} ELSE details[n.token] = {}
    BY <1>3, TokensDiffer DEF Queued
  <2>3. \A l \in late : l.token # n.token
    BY <1>3, <2>1, TokensDiffer DEF Queued, OneOfEach
  <2>4. n.token \notin Standard => \A v \in Workers : ~InRunoff(req'[v])
    BY <1>3, <1>6, TokensDiffer DEF Queued, TreeInv, Requests
  <2>5. (\E l \in late : l.token \notin Standard) => \A v \in Workers : ~InRunoff(req'[v])
    BY <1>6, <2>1 DEF OneOfEach
  <2> QED
    BY <1>2, <1>3, <2>1, <2>2, <2>3, <2>4, <2>5 DEF OneOfEach
<1> QED
  BY <1>4, <1>5, <1>7, <1>8, <1>9 DEF TreeInv

LEMMA TreeIntegrate ==
  ASSUME TreeInv, NEW l \in late, Integrate(l)
  PROVE  TreeInv'
<1>1. TypeOK' /\ TypeOK /\ IsLate(l)
  BY TypesOfSteps DEF TreeInv, Types
<1>2. late' = late \ {l} /\ UNCHANGED <<req, up, active, inv>>
  BY DEF Integrate, caches
<1>3. Requests'
  BY <1>2 DEF TreeInv, Requests
<1>4. CASE l.token = "parent"
  <2> DEFINE x == l.blob
  <2>1. srr' = srr \cup {x} /\ details' = details
    BY <1>4 DEF Integrate
  <2>2. IsRunoff(x)
    BY <1>1, <1>4, TokensDiffer DEF IsLate
  <2> HIDE DEF x
  <2>3. Types'
    <3>1. IsFiniteSet(srr')
      BY <2>1, FS_AddElement DEF TreeInv, Types
    <3> QED
      BY <1>1, <1>2, <2>1, <2>2, <3>1 DEF TreeInv, Types
  <2>4. RunoffEnds'
    <3>1. CASE srr = {}
      <4>1. (\A s \in Subs : details[s] = {}) /\ (\A m \in late : m.token \notin Subs)
        BY <3>1 DEF TreeInv, RunoffEnds
      <4> QED
        BY <1>2, <2>1, <4>1 DEF TreeInv, RunoffEnds
    <3>2. CASE srr # {}
      <4>1. \A y \in srr' : srr' = {y} => srr = {y} /\ y \in srr
        BY <2>1, <3>2
      <4> QED
        BY <1>2, <2>1, <3>2, <4>1 DEF TreeInv, RunoffEnds
    <3> QED
      BY <3>1, <3>2
  <2>5. Started'
    BY <1>2, <2>1, StartedGrows
  <2>6. Timely => OneOfEach'
    <3> SUFFICES ASSUME Timely PROVE OneOfEach'
      OBVIOUS
    <3>1. OneOfEach
      BY DEF TreeInv
    <3>2. One(srr') /\ \A m \in late' : m.token # "parent"
      BY <1>2, <1>4, <2>1, <3>1 DEF OneOfEach, One
    <3> QED
      BY <1>2, <2>1, <3>1, <3>2 DEF OneOfEach
  <2> QED
    BY <1>3, <2>3, <2>4, <2>5, <2>6 DEF TreeInv
<1>5. CASE l.token # "parent"
  <2> DEFINE r == l.token
             b == l.blob
  <2>1. details' = [details EXCEPT ![r] = @ \cup {b}] /\ srr' = srr /\ r \in Records
    BY <1>1, <1>5 DEF Integrate, IsLate
  <2>2. details'[r] = details[r] \cup {b} /\ \A x \in Records : x # r => details'[x] = details[x]
    BY <1>1, <2>1 DEF TypeOK
  <2>3. Types'
    <3>1. \A x \in Records : IsFiniteSet(details[x])
      BY DEF TreeInv, Types
    <3>2. IsFiniteSet(details[r] \cup {b})
      BY <2>1, <3>1, FS_AddElement
    <3>3. \A x \in Records : IsFiniteSet(details'[x])
      BY <2>2, <3>1, <3>2
    <3> QED
      BY <1>1, <1>2, <2>1, <3>3 DEF TreeInv, Types
  <2>4. RunoffEnds'
    <3>1. r \in Subs => srr # {} /\ \A x \in srr : srr = {x} => b = x.end
      BY DEF TreeInv, RunoffEnds
    <3>2. \A s \in Subs : details'[s] = details[s] \/ (s = r /\ details'[s] = details[s] \cup {b})
      BY <2>2, TokensDiffer
    <3> QED
      BY <1>2, <2>1, <3>1, <3>2 DEF TreeInv, RunoffEnds
  <2>5. Started'
    <3>1. \A x \in Records : details[x] \subseteq details'[x]
      BY <2>2
    <3> QED
      BY <1>2, <3>1, StartedGrows
  <2>6. Timely => OneOfEach'
    <3> SUFFICES ASSUME Timely PROVE OneOfEach'
      OBVIOUS
    <3>1. OneOfEach
      BY DEF TreeInv
    <3>2. details[r] = {} /\ \A m \in late' : m.token # r
      BY <1>2, <1>5, <3>1 DEF OneOfEach
    <3>3. details'[r] = {b}
      BY <2>2, <3>2
    <3>4. \A x \in Records : details'[x] = {} \/ One(details'[x])
      BY <2>2, <3>1, <3>3 DEF OneOfEach, One
    <3>5. \A m \in late' : m.token # "parent" => details'[m.token] = {}
      <4> SUFFICES ASSUME NEW m \in late', m.token # "parent" PROVE details'[m.token] = {}
        OBVIOUS
      <4>1. m \in late /\ m.token # r
        BY <1>2, <3>2
      <4>2. m.token \in Records
        BY <4>1 DEF TreeInv, Types, IsLate
      <4> QED
        BY <2>2, <3>1, <4>1, <4>2 DEF OneOfEach
    <3> QED
      BY <1>2, <2>1, <3>1, <3>4, <3>5 DEF OneOfEach
  <2> QED
    BY <1>3, <2>3, <2>4, <2>5, <2>6 DEF TreeInv
<1> QED
  BY <1>4, <1>5

LEMMA TreeInit == Init => TreeInv
<1> SUFFICES ASSUME Init PROVE TreeInv
  OBVIOUS
<1>1. TypeOK
  <2>1. expired \in BOOLEAN /\ up \in BOOLEAN /\ acked \in BOOLEAN
    BY Zenon DEF Init
  <2> QED
    BY <2>1, ConstantsAssumption DEF Init, TypeOK, VoteStatuses
<1>2. \A w \in Workers : req[w] = NoReq
  BY DEF Init
<1>3. srr = {} /\ late = {} /\ active = {} /\ up /\ \A r \in Records : details[r] = {} /\ inv[r] # "started"
  BY DEF Init
<1>4. Types
  BY <1>1, <1>2, <1>3, NoRequest, FS_EmptySet DEF Init, Types
<1>5. Requests
  BY <1>2, <1>3, NoRequest DEF Requests
<1>6. RunoffEnds /\ Started /\ OneOfEach
  BY <1>2, <1>3, NoRequest, TokensDiffer DEF RunoffEnds, Started, OneOfEach
<1> QED
  BY <1>4, <1>5, <1>6 DEF TreeInv

LEMMA TreeStep == TreeInv /\ [Next]_vars => TreeInv'
<1> SUFFICES ASSUME TreeInv, [Next]_vars PROVE TreeInv'
  OBVIOUS
<1> QED
  BY TreeRequests, TreeStandard, TreeRunoff, TreeForSub, TreeCaches, TreeSaveError,
     TreeIntegrate, TreeOthers, TreeStartUp DEF Next

\* What the trees, the queue of trillian and the requests can be, for any records,
\* requests, faults and stops.
THEOREM TreesAreSound == Spec => []TreeInv
<1> QED
  BY TreeInit, TreeStep, PTL DEF Spec

\* startStandard and startRunoffForSub verify that the vote has not been started: with a
\* timely trillian it is started once, and the inventory has no vote as started that
\* Setup could not read.
THEOREM StartedVotesReadable == Spec => []StartedVotesAreReadable
<1>1. TreeInv => StartedVotesAreReadable
  BY OneBlob DEF TreeInv, Types, OneOfEach, Started, StartedVotesAreReadable
<1> QED
  BY <1>1, TreesAreSound, PTL

-----------------------------------------------------------------------------
(* The outcome of a vote is a function of its votes. *)

Approved(v) ==
  LET total == v[1] + v[2] IN
  /\ total >= (QuorumPercentage * Eligible) \div 100
  /\ v[1] >= (PassPercentage * total) \div 100
Counted(v, k, o) == IF \E i \in 1..k : Options[i] = o THEN v[o] ELSE 0
NetOf(v) == {Counted(v, k, 1) - Counted(v, k, 2) : k \in 1..Len(Options)}
Greatest(S) == CHOOSE n \in S : \A m \in S : m <= n
ScoreOf(v) == Greatest(NetOf(v))

LEMMA VotesDecide ==
  \A r : (voteIsApproved(r) <=> Approved(votes[r])) /\ Score(r) = ScoreOf(votes[r])
<1>1. \A r : voteIsApproved(r) <=> Approved(votes[r])
  BY DEF voteIsApproved, Approved
<1>2. \A r : Score(r) = ScoreOf(votes[r])
  BY DEF Score, ScoreOf, Greatest, NetOf, NetApprove, Counted
<1> QED
  BY <1>1, <1>2

LEMMA ScoreIsInt ==
  ASSUME NEW v \in Nat \X Nat
  PROVE  ScoreOf(v) \in Int
<1>1. Len(Options) = 2
  BY ConstantsAssumption
<1> DEFINE a == Counted(v, 1, 1) - Counted(v, 1, 2)
           b == Counted(v, 2, 1) - Counted(v, 2, 2)
<1>2. \A k, o : o \in {1, 2} => Counted(v, k, o) \in Int
  BY DEF Counted
<1>3. a \in Int /\ b \in Int
  BY <1>2
<1>4. NetOf(v) = {a, b}
  BY <1>1 DEF NetOf
<1> HIDE DEF a, b
<1>5. \E n \in NetOf(v) : \A m \in NetOf(v) : m <= n
  BY <1>3, <1>4
<1>6. ScoreOf(v) \in NetOf(v)
  BY <1>5 DEF ScoreOf, Greatest
<1> QED
  BY <1>3, <1>4, <1>6

\* A submission that wins the runoff vote seq with the votes vs.
WinnerOf(s, seq, vs) ==
  /\ Approved(vs[s]) /\ ScoreOf(vs[s]) > 0
  /\ \E i \in DOMAIN seq :
       /\ seq[i] = s
       /\ \A j \in DOMAIN seq : Approved(vs[seq[j]]) =>
            \/ ScoreOf(vs[seq[i]]) > ScoreOf(vs[seq[j]])
            \/ ScoreOf(vs[seq[i]]) = ScoreOf(vs[seq[j]]) /\ i <= j

LEMMA WinnerIsWinner ==
  \A s : IsWinner(s) <=> WinnerOf(s, The(srr).subs, votes)
BY VotesDecide DEF IsWinner, WinnerOf

LEMMA WinnerIsWinnerNext ==
  \A s : IsWinner(s)' <=> WinnerOf(s, The(srr').subs, votes')
<1>1. \A r : voteIsApproved(r)' <=> Approved(votes'[r])
  BY DEF voteIsApproved, Approved
<1>2. \A r : Score(r)' = ScoreOf(votes'[r])
  BY DEF Score, ScoreOf, Greatest, NetOf, NetApprove, Counted
<1> QED
  BY <1>1, <1>2 DEF IsWinner, WinnerOf, The

\* No two submissions win.
LEMMA OneWinner ==
  ASSUME NEW seq, NEW vs \in [Records -> Nat \X Nat],
         DOMAIN seq \subseteq Int, \A i \in DOMAIN seq : seq[i] \in Subs,
         NEW s, WinnerOf(s, seq, vs), NEW t, WinnerOf(t, seq, vs)
  PROVE  s = t
<1> DEFINE score(i) == ScoreOf(vs[seq[i]])
<1>1. PICK i \in DOMAIN seq :
        /\ seq[i] = s
        /\ \A j \in DOMAIN seq : Approved(vs[seq[j]]) =>
             score(i) > score(j) \/ (score(i) = score(j) /\ i <= j)
  BY DEF WinnerOf
<1>2. PICK j \in DOMAIN seq :
        /\ seq[j] = t
        /\ \A k \in DOMAIN seq : Approved(vs[seq[k]]) =>
             score(j) > score(k) \/ (score(j) = score(k) /\ j <= k)
  BY DEF WinnerOf
<1>3. score(i) \in Int /\ score(j) \in Int
  BY ScoreIsInt, TokensDiffer
<1>4. Approved(vs[seq[i]]) /\ Approved(vs[seq[j]])
  BY <1>1, <1>2 DEF WinnerOf
<1> HIDE DEF score
<1>5. score(i) > score(j) \/ (score(i) = score(j) /\ i <= j)
  BY <1>1, <1>4
<1>6. score(j) > score(i) \/ (score(j) = score(i) /\ j <= i)
  BY <1>2, <1>4
<1>7. i = j
  BY <1>3, <1>5, <1>6
<1> QED
  BY <1>1, <1>2, <1>7

-----------------------------------------------------------------------------
(* What a step may do to the trees: leaves are appended, the best block grows, and  *)
(* votes are cast on an active vote that has not ended.                              *)

Growth ==
  /\ \A r \in Records : details[r] \subseteq details'[r]
  /\ srr \subseteq srr' /\ best <= best'
  /\ \/ votes' = votes
     \/ /\ details' = details /\ srr' = srr /\ best' = best
        /\ \E r \in active : ~voteHasEnded(r) /\ \A x \in Records : x # r => votes'[x] = votes[x]

LEMMA GrowthStays ==
  ASSUME TypeOK, details' = details, srr' = srr, best' = best, votes' = votes
  PROVE  Growth
BY DEF Growth, TypeOK

LEMMA GrowthOfDetails ==
  ASSUME TypeOK, srr' = srr, best' = best, votes' = votes, NEW r, NEW S,
         details' = [details EXCEPT ![r] = S], r \in Records => details[r] \subseteq S
  PROVE  Growth
BY DEF Growth, TypeOK

LEMMA Grows == TreeInv /\ [Next]_vars => Growth
<1> SUFFICES ASSUME TreeInv, [Next]_vars PROVE Growth
  OBVIOUS
<1>1. TypeOK /\ best \in Nat
  BY DEF TreeInv, Types, TypeOK
<1>2. ASSUME NEW w \in Workers, NEW r \in Records,
             \/ \E s \in {"public", "discarded", "censored", "archived"} : RecordSetStatus(w, r, s)
             \/ \E a \in {"authorize", "revoke"} : cmdAuthorize(w, r, a)
             \/ authSaveError(w, r)
      PROVE  Growth
  <2>1. details' = details /\ srr' = srr /\ best' = best /\ votes' = votes
    BY <1>2 DEF RecordSetStatus, cmdAuthorize, authSaveError
  <2> QED
    BY <1>1, <2>1, GrowthStays
<1>3. ASSUME NEW w \in Workers, NEW r \in Standard, startStandard(w, r)
      PROVE  Growth
  <2>1. /\ details[r] = {} /\ srr' = srr /\ best' = best /\ votes' = votes
        /\ details' = [details EXCEPT ![r] = {best + Duration}]
    BY <1>3 DEF startStandard
  <2> QED
    BY <1>1, <2>1, GrowthOfDetails
<1>4. ASSUME NEW w \in Workers, NEW starts \in SUBSET Subs, startRunoff(w, starts)
      PROVE  Growth
  <2>1. /\ details' = details /\ best' = best /\ votes' = votes /\ srr \subseteq srr'
    BY <1>4 DEF startRunoff
  <2> QED
    BY <1>1, <2>1 DEF Growth
<1>5. ASSUME NEW w \in Workers, NEW s \in Subs, startRunoffForSub(w, s)
      PROVE  Growth
  <2>1. /\ srr' = srr /\ best' = best /\ votes' = votes
        /\ \/ details' = details
           \/ details[s] = {} /\ details' = [details EXCEPT ![s] = {The(srr).end}]
    BY <1>5 DEF startRunoffForSub
  <2> QED
    BY <1>1, <2>1, GrowthStays, GrowthOfDetails
<1>6. ASSUME NEW w \in Workers,
             \/ hookSetRecordStatusPost(w) \/ AuthorizeCache(w) \/ StartCache(w)
             \/ startRunoffDone(w) \/ voteDetailsSaveError(w)
      PROVE  Growth
  <2>1. details' = details /\ srr' = srr /\ best' = best /\ votes' = votes
    BY <1>6 DEF hookSetRecordStatusPost, AuthorizeCache, StartCache, startRunoffDone,
                voteDetailsSaveError, tree
  <2> QED
    BY <1>1, <2>1, GrowthStays
<1>7. ASSUME NEW l \in late, Integrate(l)
      PROVE  Growth
  <2>1. /\ best' = best /\ votes' = votes
        /\ \/ srr' = srr \cup {l.blob} /\ details' = details
           \/ srr' = srr /\ details' = [details EXCEPT ![l.token] = @ \cup {l.blob}]
    BY <1>7 DEF Integrate
  <2>2. CASE srr' = srr \cup {l.blob} /\ details' = details
    BY <1>1, <2>1, <2>2 DEF Growth
  <2>3. CASE srr' = srr /\ details' = [details EXCEPT ![l.token] = @ \cup {l.blob}]
    BY <1>1, <2>1, <2>3, GrowthOfDetails
  <2> QED
    BY <2>1, <2>2, <2>3
<1>8. ASSUME NEW r \in Records, NEW t \in Tallies, castVotes(r, t)
      PROVE  Growth
  <2>1. /\ details' = details /\ srr' = srr /\ best' = best
        /\ r \in active /\ ~voteHasEnded(r) /\ votes' = [votes EXCEPT ![r] = t]
    BY <1>8 DEF castVotes
  <2>2. \A x \in Records : x # r => votes'[x] = votes[x]
    BY <1>1, <2>1 DEF TypeOK
  <2> QED
    BY <1>1, <2>1, <2>2 DEF Growth
<1>9. CASE Block
  <2>1. details' = details /\ srr' = srr /\ votes' = votes /\ best' = best + 1
    BY <1>9 DEF Block, tree
  <2> QED
    BY <1>1, <2>1 DEF Growth
<1>10. CASE \/ \E r \in Records : cmdSummary(r)
            \/ updateBlockHeight \/ LinkByExpires \/ Crash \/ Setup \/ fsck \/ UNCHANGED vars
  <2>1. details' = details /\ srr' = srr /\ votes' = votes /\ best' = best
    BY <1>10 DEF cmdSummary, updateBlockHeight, LinkByExpires, Crash, Setup, fsck, vars, tree
  <2> QED
    BY <1>1, <2>1, GrowthStays
<1> QED
  BY <1>2, <1>3, <1>4, <1>5, <1>6, <1>7, <1>8, <1>9, <1>10 DEF Next

-----------------------------------------------------------------------------
(* A vote that is finished stays so, with its outcome. *)

Finished(r) == details[r] # {} /\ voteHasEnded(r) /\ (r \in Subs => RunoffIsReadable)

\* The end of each vote of a runoff vote.
LEMMA RunoffIsOver ==
  ASSUME TreeInv, NEW r \in Subs, Finished(r)
  PROVE  \E x \in srr : /\ srr = {x} /\ best >= x.end
                        /\ \A s \in Submissions : details[s] = {x.end}
                        /\ \A s \in Subs : details[s] # {} => details[s] = {x.end}
<1>1. One(srr) /\ \A s \in Submissions : Cardinality(details[s]) = 1
  BY OneBlob DEF Finished, RunoffIsReadable, TreeInv, Types
<1>2. PICK x \in srr : srr = {x}
  BY <1>1 DEF One
<1>3. \A s \in Subs : details[s] \subseteq {x.end}
  BY <1>2 DEF TreeInv, RunoffEnds
<1>4. The(srr) = x /\ IsRunoff(x)
  BY <1>2, TheBlob DEF TreeInv, Types
<1>5. Submissions \subseteq Subs
  BY <1>4 DEF Submissions, IsRunoff
<1>6. \A s \in Submissions : details[s] = {x.end}
  BY <1>1, <1>3, <1>5, OneBlob, TokensDiffer DEF One, TreeInv, Types
<1>7. details[r] = {x.end}
  BY <1>3 DEF Finished
<1>8. best >= x.end
  BY <1>7, TheBlob DEF Finished, voteHasEnded, EndBlockHeight
<1> QED
  BY <1>2, <1>3, <1>6, <1>8

LEMMA FinishedStays ==
  ASSUME TreeInv, TreeInv', Growth, NEW r \in Records, Finished(r),
         IF r \in Subs THEN One(srr') ELSE Timely
  PROVE  Finished(r)' /\ Outcome(r)' = Outcome(r)
<1>1. best \in Int /\ best' \in Int /\ best <= best'
  BY DEF TreeInv, Types, TypeOK, Growth
<1>2. CASE r \notin Subs
  <2>1. One(details'[r])
    BY <1>2, TokensDiffer DEF TreeInv, OneOfEach, Finished, Growth
  <2>2. PICK e : details'[r] = {e} /\ details[r] = {e}
    BY <2>1 DEF One, Finished, Growth
  <2>3. best >= e /\ e \in Int
    <3>1. e \in Heights
      BY <2>2 DEF TreeInv, Types, TypeOK
    <3>2. best >= e
      BY <2>2, TheBlob DEF Finished, voteHasEnded, EndBlockHeight
    <3> QED
      BY <3>1, <3>2 DEF Heights
  <2>4. Finished(r)'
    BY <1>1, <1>2, <2>2, <2>3, TheBlob DEF Finished, voteHasEnded, EndBlockHeight
  <2>5. votes'[r] = votes[r]
    BY DEF Finished, Growth
  <2> QED
    BY <1>2, <2>4, <2>5, VotesDecide DEF Outcome, voteIsApproved
<1>3. CASE r \in Subs
  <2>1. PICK x \in srr : /\ srr = {x} /\ best >= x.end
                         /\ \A s \in Submissions : details[s] = {x.end}
                         /\ \A s \in Subs : details[s] # {} => details[s] = {x.end}
    BY <1>3, RunoffIsOver
  <2>2. srr' = {x}
    BY <1>3, <2>1 DEF One, Growth
  <2>3. \A s \in Subs : details'[s] \subseteq {x.end}
    BY <2>2 DEF TreeInv, RunoffEnds
  <2>4. The(srr) = x /\ The(srr') = x /\ IsRunoff(x) /\ x.end \in Int
    BY <2>1, <2>2, TheBlob DEF TreeInv, Types, IsRunoff, Heights
  <2>5. Submissions \subseteq Subs /\ Submissions' = Submissions
    BY <2>1, <2>2, <2>4 DEF Submissions, IsRunoff
  <2>6. \A s \in Submissions : details'[s] = {x.end}
    BY <2>1, <2>3, <2>5, TokensDiffer DEF Growth
  <2>7. RunoffIsReadable'
    BY <2>2, <2>5, <2>6, FS_Singleton DEF RunoffIsReadable
  <2>8. details[r] = {x.end} /\ details'[r] = {x.end}
    BY <1>3, <2>1, <2>3 DEF Finished, Growth
  <2>9. Finished(r)'
    BY <1>1, <2>1, <2>4, <2>7, <2>8, TheBlob DEF Finished, voteHasEnded, EndBlockHeight
  <2>10. \A s \in Subs : votes'[s] = votes[s]
    <3>1. \A s \in active : s \in Subs => voteHasEnded(s)
      BY <2>1, <2>4, TheBlob DEF TreeInv, Started, voteHasEnded, EndBlockHeight
    <3> QED
      BY <3>1, TokensDiffer DEF Growth
  <2>11. IsWinner(r)' <=> IsWinner(r)
    <3> DEFINE seq == x.subs
               vs == votes
               vt == votes'
    <3>1. \A i \in DOMAIN seq : seq[i] \in Subs /\ vt[seq[i]] = vs[seq[i]]
      BY <2>4, <2>10 DEF IsRunoff
    <3>2. vt[r] = vs[r]
      BY <1>3, <2>10
    <3>3. (IsWinner(r) <=> WinnerOf(r, seq, vs)) /\ (IsWinner(r)' <=> WinnerOf(r, seq, vt))
      <4>1. IsWinner(r) <=> WinnerOf(r, The(srr).subs, votes)
        BY WinnerIsWinner
      <4>2. IsWinner(r)' <=> WinnerOf(r, The(srr').subs, votes')
        BY WinnerIsWinnerNext
      <4> QED
        BY <2>4, <4>1, <4>2
    <3> HIDE DEF seq, vs, vt
    <3>4. WinnerOf(r, seq, vs) <=> WinnerOf(r, seq, vt)
      BY <3>1, <3>2 DEF WinnerOf
    <3> QED
      BY <3>3, <3>4
  <2> QED
    BY <1>3, <2>9, <2>11 DEF Outcome, summariesForRunoff
<1> QED
  BY <1>2, <1>3

-----------------------------------------------------------------------------
(* The cached summaries. *)

SumOk(r) == sums[r] # Undecided => Finished(r) /\ sums[r] = Outcome(r)

\* A cached summary is the outcome of a finished vote.
SumsInv ==
  /\ One(srr) => \A s \in Subs : SumOk(s)
  /\ Timely => \A r \in Records : SumOk(r)
  /\ srr = {} => \A s \in Subs : sums[s] = Undecided

LEMMA ScratchDecided ==
  ASSUME NEW r \in Records, summaryScratch(r) \in Decided
  PROVE  /\ Finished(r) /\ summaryScratch(r) = Outcome(r)
         /\ status[r] = "public" /\ auth[r] # "revoke"
BY DEF summaryScratch, Decided, Finished

LEMMA ScratchFinished ==
  ASSUME TreeInv, NEW r \in Records, status[r] = "public", auth[r] # "revoke", Finished(r),
         One(details[r])
  PROVE  summaryScratch(r) = Outcome(r) /\ summaryScratch(r) \in Decided
<1>1. Readable(details[r])
  BY OneBlob DEF TreeInv, Types
<1> QED
  BY <1>1, OutcomeDecided DEF summaryScratch, Finished

LEMMA RunoffFinished ==
  ASSUME TreeInv, NEW e \in Subs, Finished(e), NEW s \in Submissions
  PROVE  s \in Subs /\ Finished(s)
<1>1. PICK x \in srr : /\ srr = {x} /\ best >= x.end
                       /\ \A t \in Submissions : details[t] = {x.end}
  BY RunoffIsOver
<1>2. The(srr) = x /\ IsRunoff(x)
  BY <1>1, TheBlob DEF TreeInv, Types
<1>3. s \in Subs
  BY <1>2 DEF Submissions, IsRunoff
<1>4. voteHasEnded(s) /\ details[s] # {}
  BY <1>1, TheBlob DEF voteHasEnded, EndBlockHeight
<1> QED
  BY <1>3, <1>4 DEF Finished

LEMMA CachedIsFinished ==
  ASSUME TreeInv, NEW e \in Records, NEW r \in Caches(e)
  PROVE  r \in Records /\ Finished(r)
<1>1. summaryScratch(e) \in Decided /\ (r = e \/ (e \in Subs /\ r \in Submissions))
  BY DEF Caches
<1> QED
  BY <1>1, ScratchDecided, RunoffFinished, TokensDiffer

SumsStep ==
  /\ UNCHANGED <<tree, best>>
  /\ \A r \in Records : \/ sums'[r] = sums[r]
                        \/ sums'[r] = Outcome(r) /\ Finished(r)
                        \/ sums'[r] = Undecided /\ summaryScratch(r) \notin Decided

LEMMA SumsChange == TreeInv /\ [Next]_vars => sums' = sums \/ SumsStep
<1> SUFFICES ASSUME TreeInv, [Next]_vars PROVE sums' = sums \/ SumsStep
  OBVIOUS
<1>1. CASE \/ \E r \in Records : cmdSummary(r)
           \/ updateBlockHeight
  <2>1. UNCHANGED <<tree, best>> /\ \E rs \in SUBSET Records : SaveSummaries(rs)
    BY <1>1 DEF cmdSummary, updateBlockHeight, Ended
  <2>2. PICK rs \in SUBSET Records : SaveSummaries(rs)
    BY <2>1
  <2>3. \A r \in Records : sums'[r] = sums[r] \/ (sums'[r] = Outcome(r) /\ Finished(r))
    BY <2>2, CachedIsFinished DEF SaveSummaries
  <2> QED
    BY <2>1, <2>3 DEF SumsStep
<1>2. CASE Setup
  <2>1. UNCHANGED <<tree, best>> /\ Ended \subseteq Records
    BY <1>2 DEF Setup, Ended
  <2>2. \A r \in Records : sums'[r] = sums[r] \/ (sums'[r] = Outcome(r) /\ Finished(r))
    BY <1>2, <2>1, CachedIsFinished DEF Setup
  <2> QED
    BY <2>1, <2>2 DEF SumsStep
<1>3. CASE fsck
  <2>1. UNCHANGED <<tree, best>>
    BY <1>3 DEF fsck
  <2>2. PICK done \in SUBSET Vetted : \A r \in Records : sums'[r] \in FsckSummaries(r, done)
    BY <1>3 DEF fsck
  <2>3. ASSUME NEW r \in Records
        PROVE  \/ sums'[r] = sums[r]
               \/ sums'[r] = Outcome(r) /\ Finished(r)
               \/ sums'[r] = Undecided /\ summaryScratch(r) \notin Decided
    <3>1. CASE sums'[r] = Outcome(r) /\ \E s \in done : s \in Subs /\ summaryScratch(s) \in Decided /\ r \in Submissions
      BY <3>1, ScratchDecided, RunoffFinished, TokensDiffer
    <3>2. CASE sums'[r] = IF r \in done THEN (IF summaryScratch(r) \in Decided THEN Outcome(r) ELSE Undecided)
                          ELSE sums[r]
      BY <3>2, ScratchDecided
    <3>3. sums'[r] \in FsckSummaries(r, done)
      BY <2>2
    <3> QED
      BY <3>1, <3>2, <3>3 DEF FsckSummaries
  <2> QED
    BY <2>1, <2>3 DEF SumsStep
<1>4. CASE ~((\E r \in Records : cmdSummary(r)) \/ updateBlockHeight \/ Setup \/ fsck)
  BY <1>4 DEF Next, vars, caches, tree, RecordSetStatus, cmdAuthorize, authSaveError, startStandard,
     startRunoff, startRunoffForSub, hookSetRecordStatusPost, AuthorizeCache, StartCache,
     startRunoffDone, voteDetailsSaveError, Integrate, castVotes, Block, LinkByExpires, Crash
<1> QED
  BY <1>1, <1>2, <1>3, <1>4

LEMMA SumsKeep == TreeInv /\ TreeInv' /\ SumsInv /\ [Next]_vars => SumsInv'
<1> SUFFICES ASSUME TreeInv, TreeInv', SumsInv, [Next]_vars PROVE SumsInv'
  OBVIOUS
<1>1. Growth /\ srr \subseteq srr'
  BY Grows DEF Growth
<1>2. CASE sums' = sums
  <2>1. One(srr') => \A s \in Subs : SumOk(s)'
    <3> SUFFICES ASSUME One(srr'), NEW s \in Subs, sums[s] # Undecided
                 PROVE  Finished(s)' /\ sums[s] = Outcome(s)'
      BY <1>2 DEF SumOk
    <3>1. srr # {}
      BY DEF SumsInv
    <3>2. One(srr)
      BY <1>1, <3>1 DEF One
    <3>3. Finished(s) /\ sums[s] = Outcome(s) /\ s \in Records
      BY <3>2, TokensDiffer DEF SumsInv, SumOk
    <3> QED
      BY <1>1, <3>3, FinishedStays
  <2>2. Timely => \A r \in Records : SumOk(r)'
    <3> SUFFICES ASSUME Timely, NEW r \in Records, sums[r] # Undecided
                 PROVE  Finished(r)' /\ sums[r] = Outcome(r)'
      BY <1>2 DEF SumOk
    <3>1. Finished(r) /\ sums[r] = Outcome(r)
      BY DEF SumsInv, SumOk
    <3>2. r \in Subs => One(srr')
      BY <1>1, <3>1, RunoffIsOver DEF TreeInv, OneOfEach
    <3> QED
      BY <1>1, <3>1, <3>2, FinishedStays
  <2>3. srr' = {} => \A s \in Subs : sums'[s] = Undecided
    BY <1>1, <1>2 DEF SumsInv
  <2> QED
    BY <2>1, <2>2, <2>3 DEF SumsInv
<1>3. CASE SumsStep
  <2>1. details' = details /\ srr' = srr /\ best' = best /\ votes' = votes
    BY <1>3 DEF SumsStep, tree
  <2>2. \A r : (Finished(r)' <=> Finished(r)) /\ Outcome(r)' = Outcome(r)
    <3>1. \A r : Finished(r)' <=> Finished(r)
      BY <2>1 DEF Finished, voteHasEnded, EndBlockHeight, RunoffIsReadable, Submissions
    <3>2. \A r : IsWinner(r)' <=> IsWinner(r)
      BY <2>1, WinnerIsWinner, WinnerIsWinnerNext
    <3>3. \A r : voteIsApproved(r)' <=> voteIsApproved(r)
      BY <2>1 DEF voteIsApproved
    <3> QED
      BY <3>1, <3>2, <3>3 DEF Outcome, summariesForRunoff
  <2>3. \A r \in Records : SumOk(r) => SumOk(r)'
    BY <1>3, <2>2 DEF SumsStep, SumOk
  <2>4. srr = {} => \A s \in Subs : sums'[s] = Undecided
    <3>1. \A s \in Subs : Finished(s) => srr # {}
      BY DEF Finished, TreeInv, RunoffEnds
    <3> QED
      BY <1>3, <3>1, TokensDiffer DEF SumsStep, SumsInv
  <2> QED
    BY <2>1, <2>3, <2>4, TokensDiffer DEF SumsInv
<1> QED
  BY <1>2, <1>3, SumsChange

LEMMA SumsInit == Init => SumsInv
<1> SUFFICES ASSUME Init PROVE SumsInv
  OBVIOUS
<1>1. \A r \in Records : sums[r] = Undecided
  BY DEF Init
<1> QED
  BY <1>1, TokensDiffer DEF SumsInv, SumOk

\* A summary is cached when the vote, and with a runoff vote every vote of it, has ended:
\* it is the outcome of the votes that are in the trees, for good.
THEOREM SummariesAreOutcomes == Spec => [](TreeInv /\ SumsInv)
<1> QED
  BY TreeInit, TreeStep, SumsInit, SumsKeep, PTL DEF Spec

\* summariesForRunoff approves one submission at most, whichever of the submissions was
\* asked for, when, and however the start of the runoff vote was interrupted.
THEOREM OneRunoffWinner == Spec => []RunoffHasOneWinner
<1>1. TreeInv /\ SumsInv => RunoffHasOneWinner
  <2> SUFFICES ASSUME TreeInv, SumsInv, srr # {}, Readable(srr)
               PROVE  /\ \A s \in Submissions : details[s] \subseteq {The(srr).end}
                      /\ Cardinality({s \in Subs : sums[s] = "approved"}) <= 1
    BY DEF RunoffHasOneWinner
  <2>1. One(srr)
    BY OneBlob DEF TreeInv, Types
  <2>2. PICK x \in srr : srr = {x}
    BY <2>1 DEF One
  <2>3. The(srr) = x /\ IsRunoff(x)
    BY <2>2, TheBlob DEF TreeInv, Types
  <2>4. \A s \in Submissions : details[s] \subseteq {The(srr).end}
    BY <2>2, <2>3 DEF TreeInv, RunoffEnds, Submissions, IsRunoff
  <2> DEFINE A == {s \in Subs : sums[s] = "approved"}
  <2>5. \A s \in A : WinnerOf(s, x.subs, votes)
    <3>1. \A s \in A : Outcome(s) = "approved"
      BY <2>1 DEF SumsInv, SumOk, Undecided
    <3> QED
      BY <2>3, <3>1, WinnerIsWinner DEF Outcome, summariesForRunoff
  <2>6. \A s, t \in A : s = t
    <3>1. votes \in [Records -> Nat \X Nat]
      BY DEF TreeInv, Types, TypeOK
    <3>2. DOMAIN x.subs \subseteq Int /\ \A i \in DOMAIN x.subs : x.subs[i] \in Subs
      BY <2>3 DEF IsRunoff
    <3> HIDE DEF A
    <3> QED
      BY <2>5, <3>1, <3>2, OneWinner
  <2> HIDE DEF A
  <2>7. A = {} \/ \E s : A = {s}
    BY <2>6
  <2>8. Cardinality(A) <= 1
    <3>1. CASE A = {}
      <4>1. Cardinality({}) = 0
        BY FS_EmptySet
      <4> QED
        BY <3>1, <4>1
    <3>2. ASSUME NEW s, A = {s} PROVE Cardinality(A) = 1
      BY <3>2, FS_Singleton
    <3> QED
      BY <2>7, <3>1, <3>2
  <2> QED
    BY <2>4, <2>8 DEF A
<1> QED
  BY <1>1, SummariesAreOutcomes, PTL

\* Neither a summary nor fsck changes the outcome of a vote that has been decided, while
\* the record is public and its authorization is not revoked.
THEOREM OutcomesStay == Timely => (Spec => OutcomesAreFinal)
<1> SUFFICES ASSUME Timely PROVE Spec => OutcomesAreFinal
  OBVIOUS
<1>1. TreeInv /\ SumsInv /\ [Next]_vars =>
        [\A r \in Records : sums[r] # Undecided /\ sums'[r] # sums[r] =>
           auth[r] = "revoke" \/ status[r] # "public"]_vars
  <2> SUFFICES ASSUME TreeInv, SumsInv, [Next]_vars, NEW r \in Records,
                      sums[r] # Undecided, sums'[r] # sums[r],
                      auth[r] # "revoke", status[r] = "public"
               PROVE  FALSE
    OBVIOUS
  <2>1. SumsStep
    BY SumsChange
  <2>2. Finished(r) /\ sums[r] = Outcome(r)
    BY DEF SumsInv, SumOk
  <2>3. One(details[r])
    BY <2>2 DEF TreeInv, OneOfEach, Finished
  <2>4. summaryScratch(r) \in Decided
    BY <2>2, <2>3, ScratchFinished
  <2> QED
    BY <2>1, <2>2, <2>4 DEF SumsStep
<1> QED
  BY <1>1, SummariesAreOutcomes, PTL DEF Spec, OutcomesAreFinal

-----------------------------------------------------------------------------
(* The votes that can be cast. *)

\* A vote that the inventory has as started is in the active votes, or fsck has put it
\* into the inventory.
IsActive(r) ==
  up /\ inv[r] = "started" /\ ~voteHasEnded(r) => r \in active \cup rebuilt
ActiveInv == Timely => \A r \in Records : IsActive(r)

\* A started vote keeps its end.
LEMMA NotEndedYet ==
  ASSUME TreeInv, TreeInv', Growth, Timely, NEW r \in Records, details[r] # {},
         ~voteHasEnded(r)'
  PROVE  ~voteHasEnded(r)
<1>1. PICK e : details'[r] = {e} /\ details[r] = {e}
  BY DEF TreeInv, OneOfEach, One, Growth
<1>2. e \in Int /\ best \in Int /\ best' \in Int /\ best <= best'
  BY <1>1 DEF TreeInv, Types, TypeOK, Heights, Growth
<1> QED
  BY <1>1, <1>2, TheBlob DEF voteHasEnded, EndBlockHeight

\* The steps of a process that runs: what gets started becomes active, and only votes
\* that have ended leave the active votes.
ActiveStep ==
  /\ up' => up
  /\ UNCHANGED rebuilt
  /\ up' => \A r \in active : r \in active' \/ Finished(r)
  /\ \A r \in Records : inv'[r] = "started" => inv[r] = "started" \/ r \in active'

LEMMA SavedAreFinished ==
  ASSUME TreeInv, NEW rs \in SUBSET Records, SaveSummaries(rs)
  PROVE  \A r \in active : r \in active' \/ Finished(r)
BY CachedIsFinished DEF SaveSummaries

LEMMA ActiveChange == TreeInv /\ [Next]_vars => ActiveStep \/ Setup \/ fsck
<1> SUFFICES ASSUME TreeInv, [Next]_vars, ~Setup, ~fsck PROVE ActiveStep
  OBVIOUS
<1>1. ASSUME NEW r \in Records, cmdSummary(r)
      PROVE  ActiveStep
  <2>1. SaveSummaries({r}) /\ {r} \in SUBSET Records /\ inv' = inv /\ up' = up /\ rebuilt' = rebuilt
    BY <1>1 DEF cmdSummary
  <2>2. \A s \in active : s \in active' \/ Finished(s)
    BY <2>1, SavedAreFinished
  <2> QED
    BY <2>1, <2>2 DEF ActiveStep
<1>2. CASE updateBlockHeight
  <2>1. up' = up /\ rebuilt' = rebuilt /\ \E rs \in SUBSET Records : SaveSummaries(rs)
    BY <1>2 DEF updateBlockHeight, Ended
  <2>2. \A r \in active : r \in active' \/ Finished(r)
    BY <2>1, SavedAreFinished
  <2>3. \A r \in Records : inv'[r] = "started" => inv[r] = "started"
    BY <1>2 DEF updateBlockHeight, UpdatedInv, Ended
  <2> QED
    BY <2>1, <2>2, <2>3 DEF ActiveStep
<1>3. ASSUME NEW w \in Workers, hookSetRecordStatusPost(w) \/ AuthorizeCache(w)
      PROVE  ActiveStep
  <2>1. /\ up' = up /\ rebuilt' = rebuilt /\ active' = active
        /\ \E r, isNew : \E new \in {"unauthorized", "authorized", "ineligible"} : InvUpdate(r, new, isNew)
    BY <1>3 DEF hookSetRecordStatusPost, AuthorizeCache
  <2>2. \A r \in Records : inv'[r] = "started" => inv[r] = "started"
    BY <2>1 DEF InvUpdate, TreeInv, Types, TypeOK
  <2> QED
    BY <2>1, <2>2 DEF ActiveStep
<1>4. ASSUME NEW w \in Workers, StartCache(w)
      PROVE  ActiveStep
  <2> DEFINE t == req[w].token
  <2>1. /\ up' = up /\ rebuilt' = rebuilt /\ InvUpdate(t, "started", FALSE)
        /\ active' = IF InvFinds(t, "started", FALSE) THEN active \cup {t} ELSE active
    BY <1>4 DEF StartCache
  <2> HIDE DEF t
  <2>2. \A r \in Records : inv'[r] = "started" => inv[r] = "started" \/ r \in active'
    BY <2>1 DEF InvUpdate, TreeInv, Types, TypeOK
  <2> QED
    BY <2>1, <2>2 DEF ActiveStep
<1>5. CASE Crash
  <2>1. up' = FALSE /\ rebuilt' = rebuilt /\ inv' = inv
    BY <1>5, Zenon DEF Crash
  <2> QED
    BY <2>1, Zenon DEF ActiveStep
<1>6. CASE ~(\/ \E r \in Records : cmdSummary(r)
             \/ updateBlockHeight \/ Crash
             \/ \E w \in Workers : hookSetRecordStatusPost(w) \/ AuthorizeCache(w) \/ StartCache(w))
  <2>1. up' = up /\ rebuilt' = rebuilt /\ inv' = inv /\ active' = active
    BY <1>6 DEF Next, vars, caches, RecordSetStatus, cmdAuthorize, authSaveError, startStandard,
       startRunoff, startRunoffForSub, startRunoffDone, voteDetailsSaveError, Integrate, castVotes,
       Block, LinkByExpires
  <2> QED
    BY <2>1 DEF ActiveStep
<1> QED
  BY <1>1, <1>2, <1>3, <1>4, <1>5, <1>6

LEMMA ActiveKeeps == TreeInv /\ TreeInv' /\ ActiveInv /\ [Next]_vars => ActiveInv'
<1> SUFFICES ASSUME TreeInv, TreeInv', ActiveInv, [Next]_vars, Timely, NEW r \in Records,
                    up', inv'[r] = "started", ~voteHasEnded(r)'
             PROVE  r \in active' \cup rebuilt'
  BY DEF ActiveInv, IsActive
<1>1. Growth
  BY Grows
<1>2. CASE ActiveStep
  <2> SUFFICES ASSUME inv[r] = "started" PROVE r \in active' \cup rebuilt'
    BY <1>2 DEF ActiveStep
  <2>1. details[r] # {}
    BY DEF TreeInv, Started
  <2>2. ~voteHasEnded(r)
    BY <1>1, <2>1, NotEndedYet
  <2>3. r \in active \cup rebuilt
    BY <1>2, <2>2 DEF ActiveInv, IsActive, ActiveStep
  <2> QED
    BY <1>2, <2>2, <2>3 DEF ActiveStep, Finished
<1>3. CASE Setup
  BY <1>3 DEF Setup, StartedVotes
<1>4. CASE fsck
  <2>1. CASE \A v \in Vetted : summaryScratch(v) # "error"
    <3>1. rebuilt' = {v \in Records : inv'[v] = "started"} \ active'
      BY <1>4, <2>1 DEF fsck
    <3> QED
      BY <3>1
  <2>2. CASE \E v \in Vetted : summaryScratch(v) = "error"
    <3>1. ~up /\ up' = up
      BY <1>4, <2>2 DEF fsck
    <3> QED
      BY <3>1
  <2> QED
    BY <2>1, <2>2
<1> QED
  BY <1>2, <1>3, <1>4, ActiveChange

LEMMA ActiveInit == Init => ActiveInv
BY DEF Init, ActiveInv, IsActive

\* A vote that is in the inventory as started can be cast until it ends, except for one
\* that was put there by fsck, which does not rebuild the active votes.
THEOREM StartedVotesCanBeCast == Timely => (Spec => []StartedVotesAreActive)
<1> SUFFICES ASSUME Timely PROVE Spec => []StartedVotesAreActive
  OBVIOUS
<1>1. ActiveInv => StartedVotesAreActive
  BY DEF ActiveInv, IsActive, StartedVotesAreActive
<1> QED
  BY <1>1, TreeInit, TreeStep, ActiveInit, ActiveKeeps, PTL DEF Spec

-----------------------------------------------------------------------------
(* The vote inventory.                                                        *)

Expecting(r) == IF auth[r] = "authorize" THEN "authorized" ELSE "unauthorized"
NotVetted(r) == status[r] \in {"unreviewed", "discarded"}
Retired(r) == status[r] \in {"censored", "archived"}

\* The entry of a record that no request is working on.
Coherent(r) ==
  \/ NotVetted(r) /\ inv[r] = "absent"
  \/ Retired(r) /\ inv[r] = "ineligible"
  \/ /\ status[r] = "public"
     /\ \/ details[r] = {} /\ inv[r] = Expecting(r)
        \/ details[r] # {} /\ inv[r] = "started"
        \/ Finished(r) /\ inv[r] = Outcome(r)

\* The entry of a record whose request op has written to the tree.
Pending(op, r) ==
  \/ op = "status" /\ status[r] = "public" /\ auth[r] = "none" /\ details[r] = {}
  \/ op = "status" /\ Retired(r) /\ (details[r] # {} \/ inv[r] \in {"authorized", "unauthorized"})
  \/ /\ op = "auth" /\ status[r] = "public" /\ details[r] = {}
     /\ inv[r] = IF auth[r] = "authorize" THEN "unauthorized" ELSE "authorized"
  \/ op \in {"start", "sub"} /\ status[r] = "public" /\ details[r] # {} /\ inv[r] = Expecting(r)

Holds(w, r) == req[w].token = r => Pending(req[w].op, r)

Fresh(r) == NotVetted(r) => auth[r] = "none" /\ details[r] = {} /\ \A l \in late : l.token # r

\* No update of the entry was lost, and the vote was authorized before it was started.
Orderly(r) == lost[r] = "no" /\ ~Disordered(r)

InvOk(r) ==
  /\ Fresh(r)
  /\ lost[r] = "panic" \/ r \in reauth => details[r] # {}
  /\ Orderly(r) => \/ ~Locked(r) /\ Coherent(r)
                   \/ Locked(r) /\ \A w \in Workers : Holds(w, r)

InvInv == Timely => \A r \in Records : InvOk(r)

\* The requests that hold the lock of r stay the same.
SameLock(r) ==
  \A w \in Workers : req[w].token = r \/ req'[w].token = r => req'[w] = req[w]

LEMMA OtherLock ==
  ASSUME Types, NEW w \in Workers, NEW q, req' = [req EXCEPT ![w] = q],
         NEW r, req[w].token # r, q.token # r
  PROVE  SameLock(r)
BY DEF Types, SameLock

LEMMA OtherBegins ==
  ASSUME Types, NEW w \in Workers, NEW op, NEW t, NEW arg, Begin(w, op, t, arg),
         NEW r, r # t, req[w].token # r
  PROVE  SameLock(r)
<1> DEFINE q == [op |-> op, token |-> t, todo |-> arg]
<1>1. q.token = t /\ req' = [req EXCEPT ![w] = q]
  BY DEF Begin
<1> HIDE DEF q
<1> QED
  BY <1>1, OtherLock

LEMMA CoherentStays ==
  ASSUME Timely, TreeInv, TreeInv', Growth, NEW r \in Records, Coherent(r),
         status'[r] = status[r], auth'[r] = auth[r], details'[r] = details[r], inv'[r] = inv[r]
  PROVE  Coherent(r)'
<1>1. CASE Finished(r)
  <2>1. r \in Subs => One(srr')
    <3>1. r \in Subs => srr # {}
      BY <1>1 DEF Finished, TreeInv, RunoffEnds
    <3> QED
      BY <3>1 DEF Growth, TreeInv, OneOfEach
  <2>2. Finished(r)' /\ Outcome(r)' = Outcome(r)
    BY <1>1, <2>1, FinishedStays
  <2> QED
    BY <2>2 DEF Coherent, NotVetted, Retired, Expecting
<1>2. CASE ~Finished(r)
  BY <1>2 DEF Coherent, NotVetted, Retired, Expecting
<1> QED
  BY <1>1, <1>2

\* A step that does nothing to r.
LEMMA RecordStays ==
  ASSUME Timely, TreeInv, TreeInv', Growth, NEW r \in Records, InvOk(r),
         status'[r] = status[r], auth'[r] = auth[r], details'[r] = details[r], inv'[r] = inv[r],
         lost'[r] = lost[r], r \in reauth' <=> r \in reauth, SameLock(r),
         NotVetted(r) => \A l \in late' : l \in late \/ l.token # r
  PROVE  InvOk(r)'
<1>1. Fresh(r)'
  BY DEF InvOk, Fresh, NotVetted
<1>2. lost'[r] = "panic" \/ r \in reauth' => details'[r] # {}
  BY DEF InvOk
<1>3. ASSUME Orderly(r)'
      PROVE  \/ ~Locked(r)' /\ Coherent(r)'
             \/ Locked(r)' /\ \A w \in Workers : Holds(w, r)'
  <2>1. Orderly(r)
    BY <1>3 DEF Orderly, Disordered
  <2>2. CASE ~Locked(r)
    <3>1. ~Locked(r)'
      BY <2>2 DEF SameLock, Locked
    <3> QED
      BY <2>1, <2>2, <3>1, CoherentStays DEF InvOk
  <2>3. CASE Locked(r)
    <3>1. Locked(r)' /\ \A w \in Workers : req'[w].token = r => req'[w] = req[w]
      BY <2>3 DEF SameLock, Locked
    <3>2. \A w \in Workers : Holds(w, r)
      BY <2>1, <2>3 DEF InvOk
    <3>3. ASSUME NEW w \in Workers PROVE Holds(w, r)'
      BY <3>1, <3>2 DEF Holds, Pending, Retired, Expecting
    <3> QED
      BY <3>1, <3>3
  <2> QED
    BY <2>2, <2>3
<1> QED
  BY <1>1, <1>2, <1>3 DEF InvOk

\* A step that begins a request for r, which is not locked.
LEMMA RecordBegins ==
  ASSUME Types, Requests, NEW w \in Workers, NEW r \in Records, ~Locked(r), NEW op, NEW arg,
         Begin(w, op, r, arg), Fresh(r)',
         lost'[r] = "panic" \/ r \in reauth' => details'[r] # {},
         Orderly(r)' => Pending(op, r)'
  PROVE  InvOk(r)'
<1> DEFINE q == [op |-> op, token |-> r, todo |-> arg]
<1>1. q.op = op /\ q.token = r
  OBVIOUS
<1>2. req' = [req EXCEPT ![w] = q]
  BY DEF Begin
<1> HIDE DEF q
<1>3. req'[w] = q /\ \A v \in Workers : v # w => req'[v] = req[v]
  BY <1>2 DEF Types
<1>4. \A v \in Workers : req'[v].token = r => v = w
  BY <1>3 DEF Locked
<1>5. Locked(r)'
  BY <1>1, <1>3 DEF Locked
<1>6. ASSUME Orderly(r)', NEW v \in Workers PROVE Holds(v, r)'
  BY <1>1, <1>3, <1>4, <1>6 DEF Holds, Pending, Retired, Expecting
<1> QED
  BY <1>5, <1>6 DEF InvOk

\* A step that ends the request of r.
LEMMA RecordEnds ==
  ASSUME Types, Requests, NEW w \in Workers, NEW r \in Records, req[w].token = r,
         NEW q, q.token \notin Records, req' = [req EXCEPT ![w] = q], Fresh(r)',
         lost'[r] = "panic" \/ r \in reauth' => details'[r] # {},
         Orderly(r)' => Coherent(r)'
  PROVE  InvOk(r)'
<1>1. req'[w] = q /\ \A v \in Workers : v # w => req'[v] = req[v]
  BY DEF Types
<1>2. req[w] # NoReq
  BY TokensDiffer DEF NoReq
<1>3. \A v \in Workers : req[v].token = r => v = w
  BY <1>2 DEF Requests
<1>4. ~Locked(r)'
  BY <1>1, <1>3 DEF Locked
<1> QED
  BY <1>4 DEF InvOk

\* What the steps below start from.
InvStep == Timely /\ TreeInv /\ TreeInv' /\ Growth /\ SumsInv /\ InvInv

LEMMA InvStepHas ==
  ASSUME InvStep
  PROVE  /\ Types /\ Requests /\ TypeOK
         /\ \A r \in Records : InvOk(r)
         /\ \A r \in Records : ~Locked(r) /\ Orderly(r) => Coherent(r)
         /\ \A w \in Workers : req[w].token \in Records /\ Orderly(req[w].token) =>
              Pending(req[w].op, req[w].token)
<1>1. \A r \in Records : InvOk(r)
  BY DEF InvStep, InvInv
<1>2. \A w \in Workers : req[w].token \in Records => Locked(req[w].token)
  BY DEF Locked
<1> QED
  BY <1>1, <1>2 DEF InvStep, TreeInv, Types, InvOk, Holds

LEMMA InvSetStatus ==
  ASSUME InvStep, NEW w \in Workers, NEW t \in Records,
         NEW s \in {"public", "discarded", "censored", "archived"}, RecordSetStatus(w, t, s)
  PROVE  InvInv'
<1> SUFFICES ASSUME NEW r \in Records PROVE InvOk(r)'
  BY DEF InvInv
<1>1. /\ <<status[t], s>> \in {<<"unreviewed", "public">>, <<"unreviewed", "discarded">>,
                               <<"public", "censored">>, <<"public", "archived">>}
      /\ status' = [status EXCEPT ![t] = s] /\ ~Locked(t) /\ req[w] = NoReq
      /\ UNCHANGED <<auth, details, late, inv, lost, reauth>>
      /\ IF s = "discarded" THEN req' = req ELSE Begin(w, "status", t, {})
  BY DEF RecordSetStatus, Free, caches
<1>2. status'[t] = s /\ \A x \in Records : x # t => status'[x] = status[x]
  BY <1>1, InvStepHas DEF TypeOK
<1>3. CASE r # t
  <2>1. SameLock(r)
    <3>1. req[w].token # r
      BY <1>1, NoRequest, TokensDiffer
    <3>2. CASE s = "discarded"
      BY <1>1, <3>2 DEF SameLock
    <3>3. CASE s # "discarded"
      BY <1>1, <1>3, <3>1, <3>3, OtherBegins, InvStepHas
    <3> QED
      BY <3>2, <3>3
  <2> QED
    BY <1>1, <1>2, <1>3, <2>1, RecordStays, InvStepHas DEF InvStep
<1>4. CASE r = t
  <2>1. InvOk(t) /\ (Orderly(t) => Coherent(t))
    BY <1>1, InvStepHas
  <2>2. Orderly(t)' => Orderly(t)
    BY <1>1 DEF Orderly, Disordered
  <2>3. Fresh(t)' /\ (lost'[t] = "panic" \/ t \in reauth' => details'[t] # {})
    BY <1>1, <1>2, <2>1 DEF InvOk, Fresh, NotVetted
  <2>4. CASE s = "discarded"
    <3>1. ~Locked(t)'
      BY <1>1, <2>4 DEF Locked
    <3>2. Orderly(t)' => Coherent(t)'
      BY <1>1, <1>2, <2>1, <2>2, <2>4 DEF Coherent, NotVetted, Retired
    <3> QED
      BY <1>4, <2>3, <3>1, <3>2 DEF InvOk
  <2>5. CASE s = "public"
    <3>1. Pending("status", t)'
      BY <1>1, <1>2, <2>1, <2>5 DEF Pending, InvOk, Fresh, NotVetted
    <3> QED
      BY <1>1, <1>4, <2>3, <2>5, <3>1, RecordBegins, InvStepHas
  <2>6. CASE s \in {"censored", "archived"}
    <3>1. Orderly(t)' => Pending("status", t)'
      BY <1>1, <1>2, <2>1, <2>2, <2>6 DEF Pending, Coherent, NotVetted, Retired, Expecting, Finished
    <3> QED
      BY <1>1, <1>4, <2>3, <2>6, <3>1, RecordBegins, InvStepHas
  <2> QED
    BY <2>4, <2>5, <2>6
<1> QED
  BY <1>3, <1>4

LEMMA InvAuthorize ==
  ASSUME InvStep, NEW w \in Workers, NEW t \in Records,
         (\E a \in {"authorize", "revoke"} : cmdAuthorize(w, t, a)) \/ authSaveError(w, t)
  PROVE  InvInv'
<1> SUFFICES ASSUME NEW r \in Records PROVE InvOk(r)'
  BY DEF InvInv
<1> DEFINE a == IF auth[t] = "authorize" THEN "revoke" ELSE "authorize"
<1>1. /\ status[t] = "public" /\ Authorized(t, a) /\ ~Locked(t) /\ req[w] = NoReq
      /\ UNCHANGED <<status, details, late, inv>>
      /\ \/ lost' = lost /\ Begin(w, "auth", t, {})
         \/ lost' = [lost EXCEPT ![t] = "crash"] /\ req' = req
  BY DEF cmdAuthorize, authSaveError, Free, caches
<1>2. /\ auth'[t] = a /\ \A x \in Records : x # t => auth'[x] = auth[x] /\ lost'[x] = lost[x]
      /\ t \in reauth' <=> t \in reauth \/ details[t] # {}
      /\ \A x \in Records : x # t => (x \in reauth' <=> x \in reauth)
  BY <1>1, InvStepHas DEF TypeOK, Authorized
<1> HIDE DEF a
<1>3. CASE r # t
  <2>1. SameLock(r)
    <3>1. req[w].token # r
      BY <1>1, NoRequest, TokensDiffer
    <3>2. CASE req' = req
      BY <3>2 DEF SameLock
    <3>3. CASE Begin(w, "auth", t, {})
      BY <1>3, <3>1, <3>3, OtherBegins, InvStepHas
    <3> QED
      BY <1>1, <3>2, <3>3
  <2> QED
    BY <1>1, <1>2, <1>3, <2>1, RecordStays, InvStepHas DEF InvStep
<1>4. CASE r = t
  <2>1. InvOk(t) /\ (Orderly(t) => Coherent(t))
    BY <1>1, InvStepHas
  <2>2. Fresh(t)'
    BY <1>1 DEF Fresh, NotVetted
  <2>3. CASE lost' = [lost EXCEPT ![t] = "crash"] /\ req' = req
    <3>1. lost'[t] = "crash"
      BY <2>3, InvStepHas DEF TypeOK
    <3>2. t \in reauth' => details'[t] # {}
      BY <1>1, <1>2, <2>1 DEF InvOk
    <3> QED
      BY <1>4, <2>2, <3>1, <3>2 DEF InvOk, Orderly
  <2>4. CASE lost' = lost /\ Begin(w, "auth", t, {})
    <3>1. lost'[t] = "panic" \/ t \in reauth' => details'[t] # {}
      BY <1>1, <1>2, <2>1, <2>4 DEF InvOk
    <3>2. Orderly(t)' => Orderly(t) /\ details[t] = {}
      BY <1>1, <1>2, <2>1, <2>4 DEF Orderly, Disordered
    <3>3. Orderly(t)' => Pending("auth", t)'
      BY <1>1, <1>2, <2>1, <2>4, <3>2 DEF Pending, Coherent, NotVetted, Retired, Expecting, Finished, a
    <3> QED
      BY <1>1, <1>4, <2>2, <2>4, <3>1, <3>3, RecordBegins, InvStepHas
  <2> QED
    BY <1>1, <2>3, <2>4
<1> QED
  BY <1>3, <1>4

\* The start of a vote: the vote details of t are saved.
LEMMA InvStarts ==
  ASSUME InvStep, NEW w \in Workers, NEW t \in Records, NEW e, NEW op \in {"start", "sub"}, NEW arg,
         status[t] = "public", details[t] = {}, ~Locked(t), req[w].token \notin Records,
         details' = [details EXCEPT ![t] = {e}], Begin(w, op, t, arg),
         UNCHANGED <<status, auth, late, inv, lost, reauth>>
  PROVE  InvInv'
<1> SUFFICES ASSUME NEW r \in Records PROVE InvOk(r)'
  BY DEF InvInv
<1>1. details'[t] = {e} /\ \A x \in Records : x # t => details'[x] = details[x]
  BY InvStepHas DEF TypeOK
<1>2. CASE r # t
  <2>1. SameLock(r)
    BY <1>2, OtherBegins, InvStepHas
  <2> QED
    BY <1>1, <1>2, <2>1, RecordStays, InvStepHas DEF InvStep
<1>3. CASE r = t
  <2>1. InvOk(t) /\ (Orderly(t) => Coherent(t))
    BY InvStepHas
  <2>2. Fresh(t)' /\ (lost'[t] = "panic" \/ t \in reauth' => details'[t] # {})
    BY <1>1 DEF Fresh, NotVetted
  <2>3. Orderly(t)' => Orderly(t)
    BY <2>1 DEF Orderly, Disordered, InvOk
  <2>4. Orderly(t)' => Pending(op, t)'
    BY <1>1, <2>1, <2>3 DEF Pending, Coherent, NotVetted, Retired, Expecting, Finished
  <2> QED
    BY <1>3, <2>2, <2>4, RecordBegins, InvStepHas
<1> QED
  BY <1>2, <1>3

\* The end of a request for a record: the entry of the record is updated.
LEMMA InvEnds ==
  ASSUME InvStep, NEW w \in Workers, NEW t \in Records, req[w].token = t,
         NEW q, q.token \notin Records, req' = [req EXCEPT ![w] = q],
         NEW new, NEW isNew, InvUpdate(t, new, isNew),
         UNCHANGED <<status, auth, details, late, reauth>>,
         Orderly(t) /\ ~InvFinds(t, new, isNew) => details[t] # {},
         Orderly(t) =>
           \/ Retired(t) /\ new = "ineligible"
           \/ status[t] = "public" /\ details[t] = {} /\ new = Expecting(t)
           \/ status[t] = "public" /\ details[t] # {} /\ new = "started"
  PROVE  InvInv'
<1> SUFFICES ASSUME NEW r \in Records PROVE InvOk(r)'
  BY DEF InvInv
<1>1. /\ \A x \in Records : x # t => inv'[x] = inv[x] /\ lost'[x] = lost[x]
      /\ InvFinds(t, new, isNew) => inv'[t] = new /\ lost' = lost
      /\ ~InvFinds(t, new, isNew) => lost'[t] = IF lost[t] = "crash" THEN "crash" ELSE "panic"
  BY InvStepHas DEF TypeOK, InvUpdate
<1>2. CASE r # t
  <2>1. SameLock(r)
    BY <1>2, OtherLock, InvStepHas
  <2> QED
    BY <1>1, <1>2, <2>1, RecordStays, InvStepHas DEF InvStep
<1>3. CASE r = t
  <2>1. InvOk(t) /\ lost[t] \in {"no", "crash", "panic"}
    BY InvStepHas DEF TypeOK
  <2>2. Fresh(t)'
    BY <2>1 DEF InvOk, Fresh, NotVetted
  <2>3. lost'[t] = "panic" \/ t \in reauth' => details'[t] # {}
    <3>1. Disordered(t) \/ lost[t] = "panic" => details[t] # {}
      BY <2>1 DEF Disordered, InvOk
    <3>2. t \in reauth => details[t] # {}
      BY <2>1 DEF InvOk
    <3>3. lost'[t] = "panic" => details[t] # {}
      BY <1>1, <2>1, <3>1 DEF Orderly
    <3> QED
      BY <3>2, <3>3
  <2>4. Orderly(t)' => Coherent(t)'
    <3> SUFFICES ASSUME Orderly(t)' PROVE Coherent(t)'
      OBVIOUS
    <3>1. InvFinds(t, new, isNew) /\ Orderly(t)
      BY <1>1 DEF Orderly, Disordered
    <3> QED
      BY <1>1, <3>1 DEF Coherent, Retired, Expecting
  <2> QED
    BY <1>3, <2>2, <2>3, <2>4, RecordEnds, InvStepHas
<1> QED
  BY <1>2, <1>3

LEMMA InvHook ==
  ASSUME InvStep, NEW w \in Workers, hookSetRecordStatusPost(w)
  PROVE  InvInv'
<1> DEFINE t == req[w].token
           isNew == status[t] = "public"
           new == IF isNew THEN "unauthorized" ELSE "ineligible"
<1>1. /\ req[w].op = "status" /\ InvUpdate(t, new, isNew) /\ End(w)
      /\ UNCHANGED <<status, auth, details, late, reauth>>
  BY DEF hookSetRecordStatusPost, tree
<1>2. t \in Records
  BY <1>1, RequestOfWorker, NoRequest DEF InvStep
<1>3. Orderly(t) => Pending("status", t)
  BY <1>1, <1>2, InvStepHas
<1>4. Orderly(t) /\ ~InvFinds(t, new, isNew) => details[t] # {}
  BY <1>3 DEF Pending, InvFinds, StatusesToScan, Retired
<1>5. Orderly(t) =>
        \/ Retired(t) /\ new = "ineligible"
        \/ status[t] = "public" /\ details[t] = {} /\ new = Expecting(t)
  BY <1>3 DEF Pending, Retired, Expecting
<1>6. NoReq.token \notin Records
  BY NoRequest, TokensDiffer
<1>7. req' = [req EXCEPT ![w] = NoReq] /\ req[w].token = t
  BY <1>1 DEF End
<1> HIDE DEF t, isNew, new
<1> QED
  BY <1>1, <1>2, <1>4, <1>5, <1>6, <1>7, InvEnds

LEMMA InvAuthorized ==
  ASSUME InvStep, NEW w \in Workers, AuthorizeCache(w)
  PROVE  InvInv'
<1> DEFINE t == req[w].token
<1>1. /\ req[w].op = "auth" /\ InvUpdate(t, Expecting(t), FALSE) /\ End(w)
      /\ UNCHANGED <<status, auth, details, late, reauth>>
  BY DEF AuthorizeCache, tree, Expecting
<1>2. t \in Records
  BY <1>1, RequestOfWorker, NoRequest DEF InvStep
<1>3. Orderly(t) => Pending("auth", t)
  BY <1>1, <1>2, InvStepHas
<1>4. Orderly(t) => InvFinds(t, Expecting(t), FALSE)
  BY <1>3 DEF Pending, InvFinds, StatusesToScan, Expecting
<1>5. Orderly(t) => status[t] = "public" /\ details[t] = {}
  BY <1>3 DEF Pending
<1>6. NoReq.token \notin Records
  BY NoRequest, TokensDiffer
<1>7. req' = [req EXCEPT ![w] = NoReq] /\ req[w].token = t
  BY <1>1 DEF End
<1> HIDE DEF t
<1> QED
  BY <1>1, <1>2, <1>4, <1>5, <1>6, <1>7, InvEnds

LEMMA InvStartCache ==
  ASSUME InvStep, NEW w \in Workers, StartCache(w)
  PROVE  InvInv'
<1> DEFINE t == req[w].token
<1>1. /\ req[w].op \in {"start", "sub"} /\ InvUpdate(t, "started", FALSE)
      /\ UNCHANGED <<status, auth, details, late, reauth>>
  BY DEF StartCache, tree
<1>2. t \in Records
  BY <1>1, RequestOfWorker, NoRequest, TokensDiffer DEF InvStep
<1>3. Orderly(t) => Pending("start", t)
  BY <1>1, <1>2, InvStepHas DEF Pending
<1>4. details[t] # {}
  BY <1>1 DEF InvStep, TreeInv, Started
<1>5. Orderly(t) => status[t] = "public"
  BY <1>3 DEF Pending
<1>6. \E q : q.token \notin Records /\ req' = [req EXCEPT ![w] = q]
  <2>1. CASE End(w)
    BY <2>1, NoRequest, TokensDiffer DEF End
  <2>2. CASE \E arg : Begin(w, "runoff", "parent", arg)
    <3>1. PICK arg : Begin(w, "runoff", "parent", arg)
      BY <2>2
    <3> DEFINE q == [op |-> "runoff", token |-> "parent", todo |-> arg]
    <3>2. q.token \notin Records /\ req' = [req EXCEPT ![w] = q]
      BY <3>1, TokensDiffer DEF Begin
    <3> HIDE DEF q
    <3> QED
      BY <3>2
  <2>3. End(w) \/ \E arg : Begin(w, "runoff", "parent", arg)
    BY DEF StartCache
  <2> QED
    BY <2>1, <2>2, <2>3
<1>7. req[w].token = t
  OBVIOUS
<1> HIDE DEF t
<1> QED
  BY <1>1, <1>2, <1>4, <1>5, <1>6, <1>7, InvEnds

\* A step that does nothing to any record.
LEMMA InvQuiet ==
  ASSUME InvStep, UNCHANGED <<status, auth, details, inv, lost, reauth>>,
         \A r \in Records : SameLock(r),
         \A r \in Records : NotVetted(r) => \A l \in late' : l \in late \/ l.token # r
  PROVE  InvInv'
BY RecordStays, InvStepHas DEF InvStep, InvInv

LEMMA InvRunoffs ==
  ASSUME InvStep, NEW w \in Workers,
         \/ \E starts \in SUBSET Subs : startRunoff(w, starts)
         \/ \E s \in Subs : startRunoffForSub(w, s)
         \/ startRunoffDone(w)
  PROVE  InvInv'
<1>1. ASSUME req[w].token \notin Records, late' = late, End(w) \/ \E arg : Begin(w, "runoff", "parent", arg),
             UNCHANGED <<status, auth, details, inv, lost, reauth>>
      PROVE  InvInv'
  <2>1. ASSUME NEW r \in Records PROVE SameLock(r)
    BY <1>1, OtherLock, OtherBegins, NoRequest, TokensDiffer, InvStepHas DEF End
  <2> QED
    BY <1>1, <2>1, InvQuiet
<1>2. ASSUME NEW starts \in SUBSET Subs, startRunoff(w, starts)
      PROVE  InvInv'
  <2>1. /\ req[w] = NoReq /\ late' = late /\ Begin(w, "runoff", "parent", starts)
        /\ UNCHANGED <<status, auth, details, inv, lost, reauth>>
    BY <1>2 DEF startRunoff, Free, caches
  <2> QED
    BY <1>1, <2>1, NoRequest, TokensDiffer
<1>3. ASSUME NEW s \in Subs, startRunoffForSub(w, s)
      PROVE  InvInv'
  <2>1. /\ req[w].op = "runoff" /\ ~Locked(s) /\ late' = late /\ s \in Records
        /\ UNCHANGED <<status, auth, inv, lost, reauth>>
    BY <1>3, TokensDiffer DEF startRunoffForSub, caches
  <2>2. req[w].token \notin Records
    BY <2>1, RequestOfWorker, NoRequest, TokensDiffer DEF InvStep
  <2>3. \/ details' = details /\ (End(w) \/ \E arg : Begin(w, "runoff", "parent", arg))
        \/ /\ status[s] = "public" /\ details[s] = {}
           /\ details' = [details EXCEPT ![s] = {The(srr).end}] /\ \E arg : Begin(w, "sub", s, arg)
    BY <1>3 DEF startRunoffForSub
  <2> QED
    BY <1>1, <2>1, <2>2, <2>3, InvStarts
<1>4. CASE startRunoffDone(w)
  <2>1. /\ req[w].op = "runoff" /\ late' = late /\ End(w)
        /\ UNCHANGED <<status, auth, details, inv, lost, reauth>>
    BY <1>4 DEF startRunoffDone, tree, caches
  <2>2. req[w].token \notin Records
    BY <2>1, RequestOfWorker, NoRequest, TokensDiffer DEF InvStep
  <2> QED
    BY <1>1, <2>1, <2>2
<1> QED
  BY <1>2, <1>3, <1>4

LEMMA InvSaveError ==
  ASSUME InvStep, NEW w \in Workers, voteDetailsSaveError(w)
  PROVE  InvInv'
<1>1. End(w) /\ UNCHANGED <<status, auth, details, inv, lost, reauth>>
  BY DEF voteDetailsSaveError, caches
<1>2. req[w].token \notin Records
  <2>1. req[w] = NoReq \/ req[w].op = "runoff"
    BY DEF voteDetailsSaveError, Free
  <2> QED
    BY <2>1, RequestOfWorker, NoRequest, TokensDiffer DEF InvStep
<1>3. \E l : late' = late \cup {l} /\ (l.token = "parent" \/ status[l.token] = "public")
  <2> DEFINE L(t, b) == [token |-> t, blob |-> b]
  <2>1. \A t, b : L(t, b).token = t
    OBVIOUS
  <2>2. \/ \E r \in Standard : status[r] = "public" /\ late' = late \cup {L(r, best + Duration)}
        \/ \E s \in req[w].todo : status[s] = "public" /\ late' = late \cup {L(s, The(srr).end)}
        \/ \E b : late' = late \cup {L("parent", b)}
    BY Zenon DEF voteDetailsSaveError
  <2> HIDE DEF L
  <2> QED
    BY <2>1, <2>2
<1>4. ASSUME NEW r \in Records PROVE SameLock(r)
  BY <1>1, <1>2, OtherLock, NoRequest, TokensDiffer, InvStepHas DEF End
<1>5. ASSUME NEW r \in Records, NotVetted(r) PROVE \A l \in late' : l \in late \/ l.token # r
  BY <1>3, <1>5, TokensDiffer DEF NotVetted
<1> QED
  BY <1>1, <1>4, <1>5, InvQuiet

LEMMA InvIntegrate ==
  ASSUME InvStep, NEW l \in late, Integrate(l)
  PROVE  InvInv'
<1>1. /\ late' = late \ {l} /\ req' = req
      /\ UNCHANGED <<status, auth, inv, reauth>>
  BY DEF Integrate, caches
<1>2. \A r \in Records : SameLock(r)
  BY <1>1 DEF SameLock
<1>3. CASE l.token = "parent"
  <2>1. details' = details /\ lost' = lost
    BY <1>3 DEF Integrate
  <2> QED
    BY <1>1, <1>2, <2>1, InvQuiet
<1>4. CASE l.token # "parent"
  <2> SUFFICES ASSUME NEW r \in Records PROVE InvOk(r)'
    BY DEF InvInv
  <2> DEFINE t == l.token
  <2>1. t \in Records /\ ~NotVetted(t)
    <3>1. t \in Records
      BY <1>4 DEF InvStep, TreeInv, Types, IsLate
    <3> QED
      BY <3>1, InvStepHas DEF InvOk, Fresh
  <2>2. /\ details' = [details EXCEPT ![t] = @ \cup {l.blob}]
        /\ lost' = [lost EXCEPT ![t] = "crash"]
    BY <1>4 DEF Integrate
  <2> HIDE DEF t
  <2>3. /\ details[t] \subseteq details'[t] /\ lost'[t] = "crash"
        /\ \A x \in Records : x # t => details'[x] = details[x] /\ lost'[x] = lost[x]
    BY <2>1, <2>2, InvStepHas DEF TypeOK
  <2>4. CASE r # t
    BY <1>1, <1>2, <2>3, <2>4, RecordStays, InvStepHas DEF InvStep
  <2>5. CASE r = t
    BY <1>1, <2>1, <2>3, <2>5, InvStepHas DEF InvOk, Fresh, NotVetted, Orderly
  <2> QED
    BY <2>4, <2>5
<1> QED
  BY <1>3, <1>4

LEMMA InvCrash ==
  ASSUME InvStep, Crash
  PROVE  InvInv'
<1> SUFFICES ASSUME NEW r \in Records PROVE InvOk(r)'
  BY DEF InvInv
<1>1. /\ req' = [w \in Workers |-> NoReq]
      /\ lost' = [x \in Records |-> IF Locked(x) THEN "crash" ELSE lost[x]]
      /\ UNCHANGED <<status, auth, details, late, inv, reauth>>
  BY DEF Crash, Locked, tree
<1>2. ~Locked(r)' /\ Fresh(r)'
  BY <1>1, InvStepHas, NoRequest, TokensDiffer DEF Locked, InvOk, Fresh, NotVetted
<1>3. lost'[r] = IF Locked(r) THEN "crash" ELSE lost[r]
  BY <1>1
<1>4. lost'[r] = "panic" \/ r \in reauth' => details'[r] # {}
  BY <1>1, <1>3, InvStepHas DEF InvOk
<1>5. Orderly(r)' => Coherent(r)'
  <2>1. Orderly(r)' => Orderly(r) /\ ~Locked(r)
    BY <1>1, <1>3 DEF Orderly, Disordered
  <2>2. Coherent(r) => Coherent(r)'
    BY <1>1, CoherentStays DEF InvStep
  <2> QED
    BY <2>1, <2>2, InvStepHas
<1> QED
  BY <1>2, <1>4, <1>5 DEF InvOk

\* The inventory is updated with the outcomes of the votes that have ended.
LEMMA InvUpdated ==
  ASSUME InvStep, CanUpdateBlockHeight, inv' = UpdatedInv, req' = req,
         UNCHANGED <<status, auth, details, late, lost, reauth>>
  PROVE  InvInv'
<1> SUFFICES ASSUME NEW r \in Records PROVE InvOk(r)'
  BY DEF InvInv
<1>1. SameLock(r)
  BY DEF SameLock
<1>2. CASE r \notin Ended
  <2>1. inv'[r] = inv[r]
    BY <1>2 DEF UpdatedInv
  <2> QED
    BY <1>1, <2>1, RecordStays, InvStepHas DEF InvStep
<1>3. CASE r \in Ended
  <2>1. /\ inv[r] = "started" /\ details[r] # {} /\ InvOk(r)
        /\ inv'[r] = summary(r) /\ summary(r) \in Decided
    BY <1>3, InvStepHas DEF Ended, UpdatedInv, CanUpdateBlockHeight, InvStep, TreeInv, Started
  <2>2. Finished(r) /\ summary(r) = Outcome(r)
    BY <2>1, ScratchDecided DEF summary, InvStep, SumsInv, SumOk
  <2>3. Fresh(r)' /\ (lost'[r] = "panic" \/ r \in reauth' => details'[r] # {})
    BY <2>1 DEF InvOk, Fresh, NotVetted
  <2>4. (Orderly(r)' => Orderly(r)) /\ (Locked(r)' <=> Locked(r))
    BY DEF Orderly, Disordered, Locked
  <2>5. CASE Locked(r)
    <3>1. ASSUME Orderly(r), NEW w \in Workers PROVE Holds(w, r)'
      BY <2>1, <2>4, <2>5, <3>1 DEF Holds, InvOk, Pending, Retired, Expecting
    <3> QED
      BY <2>3, <2>4, <2>5, <3>1 DEF InvOk
  <2>6. CASE ~Locked(r)
    <3>1. r \in Subs => One(srr')
      <4>1. r \in Subs => srr # {}
        BY <2>2 DEF Finished, InvStep, TreeInv, RunoffEnds
      <4> QED
        BY <4>1 DEF Growth, InvStep, TreeInv, OneOfEach
    <3>2. Finished(r)' /\ Outcome(r)' = Outcome(r)
      BY <2>2, <3>1, FinishedStays DEF InvStep
    <3>3. Orderly(r) => status[r] = "public"
      BY <2>1, <2>6, InvStepHas DEF Coherent
    <3>4. Orderly(r)' => Coherent(r)'
      BY <2>1, <2>2, <2>4, <3>2, <3>3 DEF Coherent
    <3> QED
      BY <2>3, <2>4, <2>6, <3>4 DEF InvOk
  <2> QED
    BY <2>5, <2>6
<1> QED
  BY <1>2, <1>3

\* fsck builds each entry from the tree, which is the summary of the record.
LEMMA InvRebuilt ==
  ASSUME InvStep, fsck, \A v \in Vetted : summaryScratch(v) # "error"
  PROVE  InvInv'
<1> SUFFICES ASSUME NEW r \in Records PROVE InvOk(r)'
  BY DEF InvInv
<1>1. /\ inv' = [x \in Records |-> IF x \in Vetted THEN summaryScratch(x) ELSE "absent"]
      /\ lost' = [x \in Records |-> "no"] /\ ~up /\ req' = req
      /\ UNCHANGED <<status, auth, details, srr, late, votes, best, reauth>>
  BY DEF fsck, tree
<1>2. /\ inv'[r] = (IF r \in Vetted THEN summaryScratch(r) ELSE "absent")
      /\ lost'[r] = "no" /\ InvOk(r)
  BY <1>1, InvStepHas
<1>3. ~Locked(r)'
  BY <1>1, DownHasNoRequests, NoRequest, TokensDiffer DEF Locked, InvStep
<1>4. Fresh(r)' /\ (r \in reauth' => details'[r] # {})
  BY <1>1, <1>2 DEF InvOk, Fresh, NotVetted
<1>5. ASSUME ~Disordered(r)
      PROVE  Coherent(r)'
  <2>1. CASE r \notin Vetted
    BY <1>1, <1>2, <2>1, InvStepHas DEF Coherent, NotVetted, Vetted, TypeOK
  <2>2. CASE Retired(r)
    BY <1>1, <1>2, <2>2 DEF Coherent, Retired, Vetted, summaryScratch
  <2>3. CASE status[r] = "public"
    <3>1. inv'[r] = summaryScratch(r) /\ summaryScratch(r) # "error"
      BY <1>2, <2>3 DEF Vetted
    <3>2. CASE details[r] = {}
      <4>1. Readable(details[r])
        BY <3>2, OneBlob DEF InvStep, TreeInv, Types
      <4> QED
        BY <1>1, <2>3, <3>1, <3>2, <4>1 DEF Coherent, Expecting, summaryScratch
    <3>3. CASE details[r] # {} /\ ~voteHasEnded(r)
      BY <1>1, <1>5, <2>3, <3>1, <3>3 DEF Coherent, Disordered, summaryScratch
    <3>4. CASE details[r] # {} /\ voteHasEnded(r)
      <4>1. Finished(r) /\ summaryScratch(r) = Outcome(r)
        BY <1>5, <2>3, <3>1, <3>4 DEF Disordered, summaryScratch, Finished
      <4>2. r \in Subs => One(srr')
        BY <1>1, <4>1, RunoffIsOver DEF InvStep, One
      <4>3. Finished(r)' /\ Outcome(r)' = Outcome(r)
        BY <4>1, <4>2, FinishedStays DEF InvStep
      <4> QED
        BY <1>1, <2>3, <3>1, <4>1, <4>3 DEF Coherent
    <3> QED
      BY <3>2, <3>3, <3>4
  <2> QED
    BY <2>1, <2>2, <2>3 DEF Vetted, Retired
<1> QED
  BY <1>1, <1>2, <1>3, <1>4, <1>5 DEF InvOk, Orderly, Disordered

LEMMA InvKeeps == TreeInv /\ TreeInv' /\ SumsInv /\ InvInv /\ [Next]_vars => InvInv'
<1> SUFFICES ASSUME TreeInv, TreeInv', SumsInv, InvInv, [Next]_vars, Timely PROVE InvInv'
  BY DEF InvInv
<1>1. InvStep
  BY Grows DEF InvStep
<1>2. ASSUME NEW w \in Workers, NEW r \in Records,
             \/ \E s \in {"public", "discarded", "censored", "archived"} : RecordSetStatus(w, r, s)
             \/ \E a \in {"authorize", "revoke"} : cmdAuthorize(w, r, a)
             \/ authSaveError(w, r)
      PROVE  InvInv'
  BY <1>1, <1>2, InvSetStatus, InvAuthorize
<1>3. ASSUME NEW w \in Workers, NEW r \in Standard, startStandard(w, r)
      PROVE  InvInv'
  <2>1. /\ r \in Records /\ status[r] = "public" /\ details[r] = {} /\ ~Locked(r) /\ req[w] = NoReq
        /\ details' = [details EXCEPT ![r] = {best + Duration}] /\ Begin(w, "start", r, {})
        /\ UNCHANGED <<status, auth, late, inv, lost, reauth>>
    BY <1>3, TokensDiffer DEF startStandard, Free, caches
  <2>2. req[w].token \notin Records
    BY <2>1, NoRequest, TokensDiffer
  <2> QED
    BY <1>1, <2>1, <2>2, InvStarts
<1>4. ASSUME NEW w \in Workers,
             \/ \E starts \in SUBSET Subs : startRunoff(w, starts)
             \/ \E s \in Subs : startRunoffForSub(w, s)
             \/ hookSetRecordStatusPost(w) \/ AuthorizeCache(w) \/ StartCache(w)
             \/ startRunoffDone(w) \/ voteDetailsSaveError(w)
      PROVE  InvInv'
  BY <1>1, <1>4, InvRunoffs, InvHook, InvAuthorized, InvStartCache, InvSaveError
<1>5. CASE (\E l \in late : Integrate(l)) \/ Crash
  BY <1>1, <1>5, InvIntegrate, InvCrash
<1>6. CASE (updateBlockHeight /\ inv' # inv) \/ Setup
  <2>1. /\ CanUpdateBlockHeight /\ inv' = UpdatedInv /\ req' = req
        /\ UNCHANGED <<status, auth, details, late, lost, reauth>>
    BY <1>6 DEF updateBlockHeight, Setup, CanSetup, tree
  <2> QED
    BY <1>1, <2>1, InvUpdated
<1>7. CASE fsck
  <2>1. CASE \A v \in Vetted : summaryScratch(v) # "error"
    BY <1>1, <1>7, <2>1, InvRebuilt
  <2>2. CASE \E v \in Vetted : summaryScratch(v) = "error"
    <3>1. /\ CanUpdateBlockHeight /\ inv' = UpdatedInv /\ req' = req
          /\ UNCHANGED <<status, auth, details, late, lost, reauth>>
      BY <1>7, <2>2 DEF fsck, CanSetup, tree
    <3> QED
      BY <1>1, <3>1, InvUpdated
  <2> QED
    BY <2>1, <2>2
<1>8. CASE \/ \E r \in Records : \E t \in Tallies : castVotes(r, t)
           \/ \E r \in Records : cmdSummary(r)
           \/ (updateBlockHeight /\ inv' = inv) \/ Block \/ LinkByExpires \/ UNCHANGED vars
  <2>1. req' = req /\ UNCHANGED <<status, auth, details, late, inv, lost, reauth>>
    BY <1>8 DEF castVotes, cmdSummary, updateBlockHeight, Block, LinkByExpires, vars, tree, caches
  <2>2. \A r \in Records : SameLock(r)
    BY <2>1 DEF SameLock
  <2> QED
    BY <1>1, <2>1, <2>2, InvQuiet
<1> QED
  BY <1>2, <1>3, <1>4, <1>5, <1>6, <1>7, <1>8 DEF Next

LEMMA InvInit == Init => InvInv
<1> SUFFICES ASSUME Init, NEW r \in Records PROVE InvOk(r)
  BY DEF InvInv
<1>1. ~Locked(r) /\ Fresh(r) /\ ~(lost[r] = "panic") /\ r \notin reauth
  BY NoRequest, TokensDiffer DEF Init, Locked, Fresh, NotVetted
<1>2. Coherent(r)
  BY DEF Init, Coherent, NotVetted
<1> QED
  BY <1>1, <1>2 DEF InvOk

\* The vote inventory has each record with the status that its tree says, unless an update
\* was lost to a fault or the authorization and the start of its vote are in disorder.
THEOREM InventoryIsKept == Timely => (Spec => []InventoryIsCoherent)
<1> SUFFICES ASSUME Timely PROVE Spec => []InventoryIsCoherent
  OBVIOUS
<1>1. TreeInv /\ SumsInv /\ InvInv => InventoryIsCoherent
  <2> SUFFICES ASSUME TreeInv, SumsInv, InvInv PROVE InventoryIsCoherent
    OBVIOUS
  <2>1. \A r \in Records : InvOk(r)
    BY DEF InvInv
  <2>2. \A r \in Records : lost[r] = "panic" => details[r] # {}
    BY <2>1 DEF InvOk
  <2>3. ASSUME NEW r \in Records, lost[r] = "no", ~Locked(r), ~Disordered(r)
        PROVE  Coherent(r)
    BY <2>1, <2>3 DEF InvOk, Orderly
  <2>4. ASSUME NEW r \in Records, ~Disordered(r), Coherent(r), status[r] = "public"
        PROVE  inv[r] = summary(r) \/ (inv[r] = "started" /\ voteHasEnded(r))
    <3>1. details[r] = {} \/ One(details[r])
      BY DEF TreeInv, OneOfEach
    <3>2. Readable(details[r])
      BY <3>1, OneBlob DEF TreeInv, Types
    <3>3. sums[r] # Undecided => Finished(r) /\ sums[r] = Outcome(r)
      BY DEF SumsInv, SumOk
    <3>4. CASE details[r] = {}
      BY <2>4, <3>2, <3>3, <3>4 DEF Coherent, NotVetted, Retired, Expecting, Finished, summary, summaryScratch
    <3>5. CASE details[r] # {} /\ inv[r] = "started"
      BY <2>4, <3>2, <3>3, <3>5 DEF Disordered, Finished, summary, summaryScratch
    <3>6. CASE Finished(r) /\ inv[r] = Outcome(r)
      <4>1. summaryScratch(r) = Outcome(r)
        BY <2>4, <3>1, <3>6, ScratchFinished DEF Disordered, Finished
      <4> QED
        BY <3>3, <3>6, <4>1 DEF summary
    <3> QED
      BY <2>4, <3>4, <3>5, <3>6 DEF Coherent, NotVetted, Retired
  <2>5. ASSUME NEW r \in Records, Coherent(r), status[r] # "public"
        PROVE  IF r \notin Vetted THEN inv[r] = "absent" ELSE inv[r] = "ineligible"
    BY <2>5 DEF Coherent, NotVetted, Retired, Vetted
  <2>6. \A r \in Records : status[r] = "public" => r \in Vetted
    BY DEF Vetted
  <2> QED
    BY <2>2, <2>3, <2>4, <2>5, <2>6 DEF InventoryIsCoherent
<1> QED
  BY <1>1, TreeInit, TreeStep, SumsInit, SumsKeep, InvInit, InvKeeps, PTL DEF Spec

-----------------------------------------------------------------------------
(***************************************************************************)
(* The status of a proposal is determined from the summary of its vote.     *)
(* What follows is about ProposalStatus, its operators named PS!...          *)
(***************************************************************************)

CONSTANTS Tokens, BillingStatusChangesMax, BillingStatuses, CacheLimit, Idle,
          MaxEdits
VARIABLES record, vote, decided, billing, data, entries, edits
PS == INSTANCE ProposalStatus


Billings == {"active", "closed", "completed"}
PropVoteStatuses == {"unauthorized", "authorized", "started", "approved", "rejected"}
StatusValues ==
  {"unvetted", "unvettedCensored", "abandoned", "censored", "underReview",
   "voteAuthorized", "voteStarted", "rejected", "approved"} \cup Billings
RecordT ==
  [state : {"unvetted", "vetted"},
   status : {"unreviewed", "public", "archived", "censored"}, rfp : BOOLEAN]
EntryT ==
  [status : StatusValues \cup {PS!None},
   record : RecordT \cup {PS!NoData.record},
   vote : PropVoteStatuses \cup {"ineligible", PS!None}, count : Nat]
ReadT ==
  [step : {"idle", "record", "vote", "billing", "determine", "reply"},
   token : Tokens \cup {PS!None}, entry : EntryT, billing : Seq(Billings),
   reply : StatusValues \cup {PS!None, ""}]

ProposalTypes ==
  /\ record \in [Tokens -> RecordT]
  /\ vote \in [Tokens -> PropVoteStatuses]
  /\ billing \in [Tokens -> Seq(Billings)]
ReadTypes ==
  /\ \A t \in DOMAIN data : t \in Tokens /\ data[t] \in EntryT
  /\ read \in [Readers -> ReadT]
  /\ seen \in [Readers -> SUBSET StatusValues]

\* The vote of a proposal is about a vetted record, and until the record is archived
\* or censored after the start of its vote, a proposal whose vote has started is public.
VoteHasStarted(t) == vote[t] \in {"started", "approved", "rejected"}
ProposalInv ==
  \A t \in Tokens :
    /\ record[t].state = "unvetted" =>
         record[t].status \in {"unreviewed", "censored"} /\ vote[t] = "unauthorized"
    /\ record[t].state = "vetted" => record[t].status \in {"public", "archived", "censored"}
    /\ t \in decided => PS!Ended(t)
    /\ t \notin buried /\ VoteHasStarted(t) => record[t].status = "public"
    /\ Len(billing[t]) <= BillingStatusChangesMax
    /\ billing[t] # << >> => vote[t] = "approved" /\ ~record[t].rfp

\* A cached entry.  Once the status says that the vote has started, the fields that are
\* not fetched again are the ones of the proposal, and a final status is its status.
Refetched == {"unvetted", "underReview", "voteAuthorized"}
EntryOK(t, e) ==
  /\ e.status \in StatusValues
  /\ e.status \in Refetched => ~PS!voteStatusIsFinal(e.vote) /\ e.count = 0
  /\ e.status = "voteStarted" =>
       VoteHasStarted(t) /\ e.vote = "started" /\ e.count = 0 /\ e.record = record[t]
  /\ e.status \in Billings =>
       /\ vote[t] = "approved" /\ e.vote = "approved"
       /\ e.record = record[t] /\ ~record[t].rfp
       /\ e.count <= Len(billing[t])
       /\ e.count = Len(billing[t]) => e.status = PS!proposalBillingStatus(billing[t])
  /\ PS!statusIsFinal(e.status) => e.status = PS!TrueStatus(t)

Clean(t) == t \notin buried \cup raced
CacheInv == \A t \in DOMAIN data : Clean(t) => EntryOK(t, data[t])

\* What a read may take from the cache when it fetches the record anew.
Stale(e) ==
  e.status \in Refetched \cup {PS!None} /\ ~PS!voteStatusIsFinal(e.vote) /\ e.count = 0

\* A read whose record has been fetched, or was cached with a status that needs none:
\* the record is current, or the proposal has left its public status meanwhile.
Fetched(r, t, e) ==
  /\ e.record \in RecordT
  /\ e.record.state = "vetted" /\ record[t].state = "vetted"
  /\ e.record.rfp = record[t].rfp
  /\ e.record.status \in {"public", "archived", "censored"}
  /\ \/ e.record.status = record[t].status
     \/ /\ e.record.status = "public"
        /\ \E s \in seen[r] : s \notin {"abandoned", "censored"}

ReplyOK(r, s) == s \in seen[r] \/ (s = "" /\ Cardinality(seen[r]) > 1)

Determined(r) == PS!proposalStatus(read[r].entry.record, read[r].entry.vote, read[r].billing)

\* A read, step by step.
AtRecord(r, t, e) ==
  read[r].step = "record" =>
    Stale(e) /\ read[r].reply = e.status /\ read[r].billing = << >>
AtVote(r, t, e) ==
  read[r].step = "vote" =>
    /\ Fetched(r, t, e)
    /\ Stale(e) \/ (EntryOK(t, e) /\ e.status \in Billings \cup {"voteStarted"})
    /\ read[r].reply = e.status
    /\ read[r].billing = << >>
AtBilling(r, t, e) ==
  read[r].step = "billing" =>
    e.vote = "approved" /\ vote[t] = "approved" /\ e.record = record[t]
AtDetermine(r, t, e) ==
  read[r].step = "determine" =>
    /\ ReplyOK(r, IF Determined(r) = "error" THEN "" ELSE Determined(r))
    /\ Determined(r) # "error" =>
         EntryOK(t, [status |-> Determined(r), record |-> e.record, vote |-> e.vote,
                     count |-> Len(read[r].billing)])
AtReply(r) == read[r].step = "reply" => ReplyOK(r, read[r].reply)

ReadOK(r, t, e) ==
  /\ AtRecord(r, t, e) /\ AtVote(r, t, e) /\ AtBilling(r, t, e)
  /\ AtDetermine(r, t, e) /\ AtReply(r)
ReadInv ==
  \A r \in Readers, t \in Tokens, e \in EntryT :
    read[r].step # "idle" /\ t = read[r].token /\ e = read[r].entry /\ Clean(t) =>
      ReadOK(r, t, e)

\* The history of a read holds the status that the proposal has now.
SeenInv ==
  \A r \in Readers :
    /\ IsFiniteSet(seen[r])
    /\ read[r].step # "idle" =>
         read[r].token \in Tokens /\ PS!TrueStatus(read[r].token) \in seen[r]

PSInv == ProposalTypes /\ ReadTypes /\ ProposalInv /\ CacheInv /\ ReadInv /\ SeenInv

-----------------------------------------------------------------------------
(* The status function. *)

LEMMA StatusCases ==
  ASSUME NEW rec, NEW vs, NEW b
  PROVE  /\ rec.state = "unvetted" /\ rec.status = "unreviewed" =>
              PS!proposalStatus(rec, vs, b) = "unvetted"
         /\ rec.state = "unvetted" /\ rec.status = "censored" =>
              PS!proposalStatus(rec, vs, b) = "unvettedCensored"
         /\ rec.state = "vetted" /\ rec.status = "archived" =>
              PS!proposalStatus(rec, vs, b) = "abandoned"
         /\ rec.state = "vetted" /\ rec.status = "censored" =>
              PS!proposalStatus(rec, vs, b) = "censored"
         /\ rec.state = "vetted" /\ rec.status = "public" =>
              /\ vs = "unauthorized" => PS!proposalStatus(rec, vs, b) = "underReview"
              /\ vs = "authorized" => PS!proposalStatus(rec, vs, b) = "voteAuthorized"
              /\ vs = "started" => PS!proposalStatus(rec, vs, b) = "voteStarted"
              /\ vs = "rejected" => PS!proposalStatus(rec, vs, b) = "rejected"
              /\ vs = "approved" /\ rec.rfp => PS!proposalStatus(rec, vs, b) = "approved"
              /\ vs = "approved" /\ ~rec.rfp =>
                   PS!proposalStatus(rec, vs, b) = PS!proposalBillingStatus(b)
              /\ vs \notin PropVoteStatuses => PS!proposalStatus(rec, vs, b) = "error"
BY DEF PS!proposalStatus, PropVoteStatuses

LEMMA BillingStatusIn ==
  ASSUME NEW b \in Seq(Billings)
  PROVE  PS!proposalBillingStatus(b) \in Billings
<1>1. CASE b = << >>
  BY <1>1 DEF PS!proposalBillingStatus, Billings
<1>2. CASE b # << >>
  <2>1. Len(b) \in DOMAIN b
    BY <1>2
  <2>2. b[Len(b)] \in Billings
    BY <2>1
  <2> QED
    BY <1>2, <2>2 DEF PS!proposalBillingStatus, PS!Last
<1> QED
  BY <1>1, <1>2

\* The summary of a proposal whose record was not buried under its vote.
LEMMA SummaryCases ==
  ASSUME ProposalTypes, ProposalInv, NEW t \in Tokens
  PROVE  /\ record[t].status = "public" => PS!voteSummary(t) = vote[t]
         /\ t \notin buried /\ record[t].status # "public" => PS!voteSummary(t) = "ineligible"
BY DEF ProposalTypes, ProposalInv, PS!voteSummary, PS!Ended, VoteHasStarted

StatusFacts(t) ==
  /\ PS!TrueStatus(t) \in StatusValues
  /\ record[t].status = "archived" => PS!TrueStatus(t) = "abandoned"
  /\ record[t].state = "vetted" /\ record[t].status = "censored" =>
       PS!TrueStatus(t) = "censored"
  /\ record[t].status = "public" =>
       /\ PS!TrueStatus(t) = PS!proposalStatus(record[t], vote[t], billing[t])
       /\ PS!TrueStatus(t) \notin {"abandoned", "censored"}
  /\ record[t].status = "unreviewed" => PS!TrueStatus(t) = "unvetted"
  /\ record[t].state = "unvetted" /\ record[t].status = "censored" =>
       PS!TrueStatus(t) = "unvettedCensored"

LEMMA TrueStatusCases ==
  ASSUME ProposalTypes, ProposalInv, NEW t \in Tokens
  PROVE  StatusFacts(t)
<1>1. /\ record[t].state \in {"unvetted", "vetted"} /\ record[t].rfp \in BOOLEAN
      /\ record[t].status \in {"unreviewed", "public", "archived", "censored"}
      /\ vote[t] \in PropVoteStatuses /\ billing[t] \in Seq(Billings)
  BY DEF ProposalTypes, RecordT
<1>2. /\ record[t].state = "unvetted" => record[t].status \in {"unreviewed", "censored"}
      /\ record[t].state = "vetted" => record[t].status \in {"public", "archived", "censored"}
  BY DEF ProposalInv
<1>3. PS!proposalBillingStatus(billing[t]) \in Billings
  BY <1>1, BillingStatusIn
<1>4. record[t].status = "public" => PS!voteSummary(t) = vote[t]
  BY SummaryCases
<1>5. PS!TrueStatus(t) = PS!proposalStatus(record[t], PS!voteSummary(t), billing[t])
  BY DEF PS!TrueStatus
<1>6. CASE record[t].status # "public"
  BY <1>1, <1>2, <1>5, <1>6, StatusCases DEF StatusValues, StatusFacts
<1>7. CASE record[t].status = "public"
  <2>1. PS!TrueStatus(t) = PS!proposalStatus(record[t], vote[t], billing[t])
    BY <1>4, <1>5, <1>7
  <2>2. record[t].state = "vetted"
    BY <1>1, <1>2, <1>7
  <2>3. PS!TrueStatus(t) \in (StatusValues \ {"abandoned", "censored"})
    <3>1. CASE vote[t] = "approved" /\ ~record[t].rfp
      <4>1. PS!TrueStatus(t) = PS!proposalBillingStatus(billing[t])
        BY <2>1, <2>2, <1>7, <3>1, StatusCases
      <4> QED
        BY <4>1, <1>3 DEF StatusValues, Billings
    <3>2. CASE vote[t] = "approved" /\ record[t].rfp
      <4>1. PS!TrueStatus(t) = "approved"
        BY <2>1, <2>2, <1>7, <3>2, StatusCases
      <4> QED
        BY <4>1 DEF StatusValues
    <3>3. CASE vote[t] # "approved"
      <4>1. PS!TrueStatus(t) \in {"underReview", "voteAuthorized", "voteStarted", "rejected"}
        BY <1>1, <2>1, <2>2, <1>7, <3>3, StatusCases DEF PropVoteStatuses
      <4> QED
        BY <4>1 DEF StatusValues
    <3> QED
      BY <1>1, <3>1, <3>2, <3>3
  <2> QED
    BY <1>7, <2>1, <2>3 DEF StatusFacts
<1> QED
  BY <1>6, <1>7

StatusInv == \A t \in Tokens : StatusFacts(t)

LEMMA StatusLemma == ProposalTypes /\ ProposalInv => StatusInv
BY TrueStatusCases DEF StatusInv

LEMMA StatusLemmaPrime == ProposalTypes' /\ ProposalInv' => StatusInv'
BY StatusLemma, PTL

-----------------------------------------------------------------------------
(* What a step of the proposals may change while a read is under way or an entry is *)
(* in the cache.                                                                    *)

Persists(t) ==
  /\ VoteHasStarted(t) => VoteHasStarted(t)' /\ record'[t] = record[t]
  /\ vote[t] = "approved" => vote'[t] = "approved"
  /\ record[t].state = "vetted" => record'[t].state = "vetted"
  /\ record[t].status \in {"archived", "censored"} => record'[t] = record[t]
  /\ Len(billing[t]) <= Len(billing'[t])
  /\ Len(billing[t]) = Len(billing'[t]) => billing'[t] = billing[t]
  /\ PS!statusIsFinal(PS!TrueStatus(t)) => PS!TrueStatus(t)' = PS!TrueStatus(t)
  /\ PS!ReadsOf(t) # {} => record'[t].rfp = record[t].rfp

SeenOnlyGrows == \A r \in Readers : seen[r] \subseteq seen'[r] /\ IsFiniteSet(seen'[r])

LEMMA EntryPersists ==
  ASSUME ProposalTypes, ProposalInv, ProposalTypes', ProposalInv', NEW t \in Tokens,
         Persists(t), NEW e, e.count \in Nat, EntryOK(t, e)
  PROVE  EntryOK(t, e)'
<1>1. VoteHasStarted(t) => VoteHasStarted(t)' /\ record'[t] = record[t]
  BY DEF Persists
<1>2. CASE e.status \in Refetched
  BY <1>2 DEF EntryOK, Refetched, Billings, PS!statusIsFinal
<1>3. CASE e.status = "voteStarted"
  BY <1>1, <1>3 DEF EntryOK, Refetched, Billings, PS!statusIsFinal
<1>4. CASE e.status \in Billings
  <2>1. /\ vote[t] = "approved" /\ e.vote = "approved" /\ e.record = record[t]
        /\ ~record[t].rfp /\ e.count <= Len(billing[t])
        /\ e.count = Len(billing[t]) => e.status = PS!proposalBillingStatus(billing[t])
    BY <1>4 DEF EntryOK
  <2>2. /\ vote'[t] = "approved" /\ record'[t] = record[t]
    BY <1>1, <2>1 DEF Persists, VoteHasStarted
  <2>3. /\ Len(billing[t]) <= Len(billing'[t])
        /\ Len(billing[t]) = Len(billing'[t]) => billing'[t] = billing[t]
        /\ Len(billing[t]) \in Nat /\ Len(billing'[t]) \in Nat
    BY DEF Persists, ProposalTypes
  <2>4. /\ e.count <= Len(billing'[t])
        /\ e.count = Len(billing'[t]) => e.count = Len(billing[t]) /\ billing'[t] = billing[t]
    <3>1. PICK m, n : m = Len(billing[t]) /\ n = Len(billing'[t])
      OBVIOUS
    <3> QED
      BY <2>1, <2>3, <3>1
  <2>5. e.count = Len(billing'[t]) => e.status = PS!proposalBillingStatus(billing'[t])
    BY <2>1, <2>4
  <2> QED
    BY <1>4, <2>1, <2>2, <2>4, <2>5
    DEF EntryOK, Refetched, Billings, PS!statusIsFinal
<1>5. CASE PS!statusIsFinal(e.status)
  <2>1. e.status = PS!TrueStatus(t) /\ PS!TrueStatus(t)' = PS!TrueStatus(t)
    BY <1>5 DEF EntryOK, Persists
  <2>2. e.status \notin Refetched \cup Billings \cup {"voteStarted"}
    BY <1>5 DEF Refetched, Billings, PS!statusIsFinal
  <2> QED
    BY <2>1, <2>2 DEF EntryOK
<1>6. e.status \in StatusValues
  BY DEF EntryOK
<1> QED
  BY <1>2, <1>3, <1>4, <1>5, <1>6 DEF StatusValues, Refetched, PS!statusIsFinal

\* A step of proposal u leaves the other proposals alone.
Others(u) ==
  \A t \in Tokens \ {u} :
    /\ record'[t] = record[t] /\ vote'[t] = vote[t] /\ billing'[t] = billing[t]
    /\ t \in decided' <=> t \in decided

LEMMA OthersPersist ==
  ASSUME NEW u \in Tokens, Others(u), NEW t \in Tokens, t # u
  PROVE  PS!TrueStatus(t)' = PS!TrueStatus(t) /\ Persists(t)
<1>1. /\ record'[t] = record[t] /\ vote'[t] = vote[t] /\ billing'[t] = billing[t]
      /\ t \in decided' <=> t \in decided
  BY DEF Others
<1>2. PS!voteSummary(t)' = PS!voteSummary(t)
  BY <1>1 DEF PS!voteSummary
<1>3. PS!TrueStatus(t)' = PS!TrueStatus(t)
  BY <1>1, <1>2 DEF PS!TrueStatus
<1>4. VoteHasStarted(t)' = VoteHasStarted(t)
  BY <1>1 DEF VoteHasStarted
<1>5. PICK n : n = Len(billing[t])
  OBVIOUS
<1> QED
  BY <1>1, <1>3, <1>4 DEF Persists


LEMMA SeenGrows ==
  ASSUME ReadTypes, SeenInv, NEW u \in Tokens, PS!See(u), PS!CacheUnchanged,
         PS!TrueStatus(u)' \in StatusValues,
         \A t \in Tokens \ {u} : PS!TrueStatus(t)' = PS!TrueStatus(t)
  PROVE  SeenOnlyGrows /\ SeenInv' /\ ReadTypes'
<1> DEFINE new(r) == IF r \in PS!ReadsOf(u) THEN {PS!TrueStatus(u)'} ELSE {}
<1>1. seen' = [r \in Readers |-> seen[r] \cup new(r)]
  BY DEF PS!See
<1>2. ASSUME NEW r \in Readers
      PROVE  /\ seen'[r] = seen[r] \cup new(r) /\ IsFiniteSet(seen'[r])
             /\ seen'[r] \subseteq StatusValues
  <2>1. seen'[r] = seen[r] \cup new(r)
    BY <1>1
  <2>2. IsFiniteSet(seen[r]) /\ seen[r] \subseteq StatusValues
    BY DEF SeenInv, ReadTypes
  <2>3. CASE r \in PS!ReadsOf(u)
    <3>1. seen'[r] = seen[r] \cup {PS!TrueStatus(u)'}
      BY <2>1, <2>3
    <3>2. IsFiniteSet(seen[r] \cup {PS!TrueStatus(u)'})
      BY <2>2, FS_AddElement
    <3> QED
      BY <2>1, <2>2, <3>1, <3>2
  <2>4. CASE r \notin PS!ReadsOf(u)
    <3>1. seen'[r] = seen[r]
      BY <2>1, <2>4
    <3> QED
      BY <2>1, <2>2, <3>1
  <2> QED
    BY <2>3, <2>4
<1>3. read' = read /\ data' = data
  BY DEF PS!CacheUnchanged
<1>4. SeenOnlyGrows
  BY <1>2 DEF SeenOnlyGrows
<1>5. ASSUME NEW r \in Readers, read'[r].step # "idle"
      PROVE  (read[r].token \in Tokens /\ PS!TrueStatus(read[r].token) \in seen[r])'
  <2>1. PICK t : t = read[r].token
    OBVIOUS
  <2>2. t \in Tokens /\ PS!TrueStatus(t) \in seen[r]
    BY <1>3, <1>5, <2>1 DEF SeenInv
  <2>6. read'[r].token = t /\ PS!TrueStatus(read[r].token)' = PS!TrueStatus(t)'
    BY <1>3, <2>1 DEF PS!TrueStatus, PS!voteSummary
  <2>3. CASE t = u
    <3>1. r \in PS!ReadsOf(u)
      BY <1>3, <1>5, <2>1, <2>3 DEF PS!ReadsOf
    <3> QED
      BY <1>2, <2>2, <2>3, <2>6, <3>1
  <2>4. CASE t # u
    BY <1>2, <2>2, <2>4, <2>6
  <2> QED
    BY <2>3, <2>4
<1>6. SeenInv'
  <2>1. \A r \in Readers : IsFiniteSet(seen'[r])
    BY <1>2
  <2> QED
    BY <1>5, <2>1 DEF SeenInv
<1>7. ReadTypes'
  <2>1. seen' \in [Readers -> SUBSET StatusValues]
    <3>1. \A r \in Readers : seen[r] \cup new(r) \in SUBSET StatusValues
      BY <1>2
    <3> HIDE DEF new
    <3> QED
      BY <1>1, <3>1
  <2> QED
    BY <1>3, <2>1 DEF ReadTypes
<1> QED
  BY <1>4, <1>6, <1>7

LEMMA MoreThanOne ==
  ASSUME NEW S, IsFiniteSet(S), NEW x \in S, NEW y \in S, x # y
  PROVE  Cardinality(S) > 1
<1>1. IsFiniteSet({x}) /\ Cardinality({x}) = 1
  BY FS_Singleton
<1>6. Cardinality({x} \cup {y}) = IF y \in {x} THEN Cardinality({x}) ELSE Cardinality({x}) + 1
  BY ONLY <1>1, FS_AddElement
<1>2. Cardinality({x} \cup {y}) = 2
  BY <1>1, <1>6
<1>3. {x} \cup {y} \in SUBSET S
  OBVIOUS
<1>4. Cardinality({x} \cup {y}) <= Cardinality(S)
  BY <1>3, FS_Subset
<1>5. Cardinality(S) \in Nat
  BY FS_CardinalityType
<1> QED
  BY <1>2, <1>4, <1>5

LEMMA ReplyPersists ==
  ASSUME SeenOnlyGrows, NEW r \in Readers, NEW s, ReplyOK(r, s), IsFiniteSet(seen[r])
  PROVE  ReplyOK(r, s)'
<1>1. seen[r] \in SUBSET seen'[r] /\ IsFiniteSet(seen'[r])
  BY DEF SeenOnlyGrows
<1>2. Cardinality(seen[r]) <= Cardinality(seen'[r])
  BY <1>1, FS_Subset
<1>3. Cardinality(seen[r]) \in Nat /\ Cardinality(seen'[r]) \in Nat
  BY <1>1, FS_CardinalityType
<1>4. Cardinality(seen[r]) > 1 => Cardinality(seen'[r]) > 1
  BY <1>2, <1>3
<1> QED
  BY <1>1, <1>4 DEF ReplyOK

\* A step of proposal u keeps the reads and the cache in order when what they rely on
\* persists.
LEMMA ProposalStep ==
  ASSUME PSInv, ProposalTypes', ProposalInv', NEW u \in Tokens, Others(u), PS!See(u),
         PS!CacheUnchanged,
         \A t \in Tokens : Clean(t)' => Clean(t),
         Clean(u)' => Persists(u)
  PROVE  PSInv'
<1> USE DEF PSInv
<1>1. read' = read /\ data' = data
  BY DEF PS!CacheUnchanged
<1>2. StatusInv /\ StatusInv'
  BY StatusLemma, StatusLemmaPrime
<1>3. \A t \in Tokens \ {u} : PS!TrueStatus(t)' = PS!TrueStatus(t)
  BY OthersPersist
<1>4. \A t \in Tokens : Clean(t)' => Persists(t)
  BY OthersPersist
<1>5. PS!TrueStatus(u)' \in StatusValues
  BY <1>2 DEF StatusInv, StatusFacts
<1>6. SeenOnlyGrows /\ SeenInv' /\ ReadTypes'
  BY <1>3, <1>5, SeenGrows
<1>7. \A t \in Tokens : StatusFacts(t)
  BY <1>2 DEF StatusInv
<1>8. CacheInv'
  <2> SUFFICES ASSUME NEW t \in DOMAIN data, Clean(t)'
               PROVE  EntryOK(t, data[t])'
    BY <1>1 DEF CacheInv
  <2>1. t \in Tokens /\ data[t].count \in Nat
    BY DEF ReadTypes, EntryT
  <2>2. PICK e : e = data[t]
    OBVIOUS
  <2>3. EntryOK(t, e)
    BY <2>1, <2>2 DEF CacheInv
  <2>4. EntryOK(t, e)'
    BY <1>4, <2>1, <2>2, <2>3, EntryPersists
  <2> QED
    BY <1>1, <2>2, <2>4 DEF EntryOK
<1>9. ReadInv'
  <2> SUFFICES ASSUME NEW r \in Readers, NEW t \in Tokens, NEW e \in EntryT,
                      read[r].step # "idle", t = read[r].token, e = read[r].entry, Clean(t)'
               PROVE  ReadOK(r, t, e)'
    BY <1>1 DEF ReadInv
  <2>1. PICK b : b = read[r].billing
    OBVIOUS
  <2>2. /\ t \in Tokens /\ PS!TrueStatus(t) \in seen[r] /\ IsFiniteSet(seen[r])
        /\ r \in PS!ReadsOf(t)
    BY DEF SeenInv, PS!ReadsOf
  <2>3. e \in EntryT /\ e.count \in Nat /\ b \in Seq(Billings)
    BY <2>1 DEF ReadTypes, EntryT, ReadT
  <2>4. Clean(t)' /\ Clean(t) /\ Persists(t)
    BY <1>4
  <2>5. ReadOK(r, t, e)
    BY <2>4 DEF ReadInv
  <2>6. \A d : d.count \in Nat /\ EntryOK(t, d) => EntryOK(t, d)'
    BY <2>2, <2>4, EntryPersists
  <2>7. \A s : ReplyOK(r, s) => ReplyOK(r, s)'
    BY <1>6, <2>2, ReplyPersists
  <2>8. AtRecord(r, t, e)'
    BY <1>1, <2>5 DEF ReadOK, AtRecord
  <2>9. AtVote(r, t, e)'
    <3>1. Fetched(r, t, e) => Fetched(r, t, e)'
      <4> SUFFICES ASSUME Fetched(r, t, e) PROVE Fetched(r, t, e)'
        OBVIOUS
      <4>1. /\ record'[t].state = "vetted" /\ record'[t].rfp = record[t].rfp
            /\ seen[r] \subseteq seen'[r]
        BY <1>6, <2>2, <2>4 DEF Fetched, Persists, SeenOnlyGrows
      <4>2. CASE e.record.status # record[t].status
        BY <4>1, <4>2 DEF Fetched
      <4>3. CASE e.record.status = record[t].status /\ record[t].status # "public"
        <5>1. record'[t] = record[t]
          BY <2>4, <4>3 DEF Fetched, Persists
        <5> QED
          BY <4>1, <4>3, <5>1 DEF Fetched
      <4>4. CASE e.record.status = record[t].status /\ record[t].status = "public"
        <5>1. PS!TrueStatus(t) \in seen'[r] /\ PS!TrueStatus(t) \notin {"abandoned", "censored"}
          BY <1>7, <2>2, <4>1, <4>4 DEF StatusFacts
        <5> QED
          BY <4>1, <4>4, <5>1 DEF Fetched
      <4> QED
        BY <4>2, <4>3, <4>4
    <3>2. EntryOK(t, e) => EntryOK(t, e)'
      BY <2>3, <2>6
    <3> QED
      BY <1>1, <2>5, <3>1, <3>2 DEF ReadOK, AtVote
  <2>10. AtBilling(r, t, e)'
    <3>1. vote[t] = "approved" => vote'[t] = "approved" /\ record'[t] = record[t]
      BY <2>4 DEF Persists, VoteHasStarted
    <3> QED
      BY <1>1, <2>5, <3>1 DEF ReadOK, AtBilling
  <2>11. AtDetermine(r, t, e)'
    <3>1. Determined(r)' = Determined(r)
      BY <1>1 DEF Determined
    <3>2. PICK d : d = [status |-> Determined(r), record |-> e.record, vote |-> e.vote,
                        count |-> Len(b)]
      OBVIOUS
    <3>3. d.count \in Nat
      BY <2>3, <3>2
    <3>4. EntryOK(t, d) => EntryOK(t, d)'
      BY <2>6, <3>3
    <3>5. CASE read[r].step = "determine"
      <4>1. /\ ReplyOK(r, IF Determined(r) = "error" THEN "" ELSE Determined(r))
            /\ Determined(r) # "error" => EntryOK(t, d)
        BY <2>1, <2>5, <3>2, <3>5 DEF ReadOK, AtDetermine
      <4>2. PICK s : s = IF Determined(r) = "error" THEN "" ELSE Determined(r)
        OBVIOUS
      <4>3. ReplyOK(r, s)'
        BY <2>7, <4>1, <4>2
      <4>4. d = [status |-> Determined(r)', record |-> e.record, vote |-> e.vote,
                 count |-> Len(read'[r].billing)]
        BY <1>1, <2>1, <3>1, <3>2
      <4> QED
        BY <1>1, <3>1, <3>4, <4>1, <4>2, <4>3, <4>4 DEF AtDetermine
    <3> QED
      BY <1>1, <3>5 DEF AtDetermine
  <2>12. AtReply(r)'
    <3>1. PICK s : s = read[r].reply
      OBVIOUS
    <3> QED
      BY <1>1, <2>5, <2>7, <3>1 DEF ReadOK, AtReply, ReplyOK
  <2> QED
    BY <2>8, <2>9, <2>10, <2>11, <2>12 DEF ReadOK
<1> QED
  BY <1>6, <1>8, <1>9

-----------------------------------------------------------------------------
(* The steps of the proposals. *)

LEMMA RecordSetStatusStep ==
  ASSUME PSInv, NEW u \in Tokens, NEW s \in {"public", "archived", "censored"},
         PS!RecordSetStatus(u, s)
  PROVE  PSInv'
<1> USE DEF PSInv
<1>1. /\ PS!statusChangeIsAllowed(record[u].status, s)
      /\ vote' = vote /\ decided' = decided /\ billing' = billing /\ raced' = raced
      /\ buried' = IF VoteHasStarted(u) THEN buried \cup {u} ELSE buried
      /\ PS!CacheUnchanged /\ PS!See(u)
  BY DEF PS!RecordSetStatus, VoteHasStarted
<1>2. PICK st : st = IF s = "public" THEN "vetted" ELSE record[u].state
  OBVIOUS
<1>3. record \in [Tokens -> RecordT] /\ record[u] \in RecordT
  BY DEF ProposalTypes
<1>4. PICK rec : rec = [state |-> st, status |-> s, rfp |-> record[u].rfp]
  OBVIOUS
<1>5. record' = [record EXCEPT ![u] = rec]
  <2>1. record' = [record EXCEPT ![u].status = s, ![u].state = st]
    BY <1>2, <1>3 DEF PS!RecordSetStatus
  <2>2. record[u] = [state |-> record[u].state, status |-> record[u].status, rfp |-> record[u].rfp]
    BY <1>3 DEF RecordT
  <2>3. PICK x : x = [state |-> record[u].state, status |-> s, rfp |-> record[u].rfp]
    OBVIOUS
  <2>4. [record[u] EXCEPT !.status = s] = x
    BY <2>2, <2>3
  <2>5. [x EXCEPT !.state = st] = rec
    BY <1>4, <2>3
  <2>6. PICK m : m = [record EXCEPT ![u] = x]
    OBVIOUS
  <2>7. record' = [m EXCEPT ![u].state = st]
    BY <2>1, <2>4, <2>6
  <2>8. m[u] = x /\ DOMAIN m = Tokens /\ \A t \in Tokens \ {u} : m[t] = record[t]
    BY <1>3, <2>6
  <2>9. record' = [m EXCEPT ![u] = rec]
    BY <2>5, <2>7, <2>8
  <2> QED
    BY <1>3, <2>6, <2>9
<1>6. rec \in RecordT
  BY <1>2, <1>3, <1>4 DEF RecordT
<1>7. record' \in [Tokens -> RecordT] /\ record'[u] = rec
      /\ \A t \in Tokens \ {u} : record'[t] = record[t]
  BY <1>3, <1>5, <1>6
<1>8. ProposalTypes'
  BY <1>1, <1>7 DEF ProposalTypes
<1>9. /\ rec.state = st /\ rec.status = s /\ rec.rfp = record[u].rfp
  BY <1>4
<1>10. /\ record[u].status = "unreviewed" \/ record[u].status = "public"
       /\ record[u].status = "unreviewed" => s \in {"public", "censored"}
       /\ record[u].status = "public" => s \in {"archived", "censored"}
  BY <1>1 DEF PS!statusChangeIsAllowed
<1>11. ProposalInv'
  <2>1. ASSUME NEW t \in Tokens, t # u
        PROVE  /\ record'[t] = record[t]
               /\ t \notin buried' => t \notin buried
    BY <1>1, <1>7, <2>1
  <2>2. /\ record[u].state = "unvetted" => record[u].status \in {"unreviewed", "censored"} /\ vote[u] = "unauthorized"
        /\ record[u].state = "vetted" => record[u].status \in {"public", "archived", "censored"}
        /\ record[u].state \in {"unvetted", "vetted"}
    BY <1>3 DEF ProposalInv, RecordT
  <2>3. /\ rec.state = "unvetted" => rec.status \in {"unreviewed", "censored"} /\ vote[u] = "unauthorized"
        /\ rec.state = "vetted" => rec.status \in {"public", "archived", "censored"}
    BY <1>2, <1>9, <1>10, <2>2
  <2>4. u \notin buried' => ~VoteHasStarted(u)
    BY <1>1
  <2>5. billing[u] # << >> => ~rec.rfp
    BY <1>9 DEF ProposalInv
  <2> QED
    BY <1>1, <1>7, <2>1, <2>3, <2>4, <2>5 DEF ProposalInv, VoteHasStarted, PS!Ended
<1>12. Others(u)
  BY <1>1, <1>7 DEF Others
<1>13. \A t \in Tokens : Clean(t)' => Clean(t)
  BY <1>1 DEF Clean
<1>14. ASSUME Clean(u)' PROVE Persists(u)
  <2>1. ~VoteHasStarted(u)
    BY <1>1, <1>14 DEF Clean
  <2>2. vote[u] # "approved" /\ billing'[u] = billing[u] /\ Len(billing[u]) \in Nat
    BY <1>1, <2>1 DEF VoteHasStarted, ProposalTypes
  <2>3. record[u].state = "vetted" => st = "vetted"
    BY <1>2
  <2>4. ~PS!statusIsFinal(PS!TrueStatus(u))
    <3>1. StatusFacts(u)
      BY TrueStatusCases
    <3>2. CASE record[u].status = "unreviewed"
      BY <3>1, <3>2 DEF StatusFacts, PS!statusIsFinal
    <3>3. CASE record[u].status = "public"
      <4>1. record[u].state = "vetted" /\ vote[u] \in {"unauthorized", "authorized"}
        BY <1>3, <2>1, <3>3 DEF ProposalInv, RecordT, VoteHasStarted, ProposalTypes, PropVoteStatuses
      <4>2. PS!TrueStatus(u) \in {"underReview", "voteAuthorized"}
        BY <3>1, <3>3, <4>1, StatusCases DEF StatusFacts
      <4> QED
        BY <4>2 DEF PS!statusIsFinal
    <3> QED
      BY <1>10, <3>2, <3>3
  <2> QED
    BY <1>7, <1>9, <1>10, <2>1, <2>2, <2>3, <2>4 DEF Persists
<1> QED
  BY <1>1, <1>8, <1>11, <1>12, <1>13, <1>14, ProposalStep

LEMMA RecordEditStep ==
  ASSUME PSInv, NEW u \in Tokens, PS!RecordEdit(u)
  PROVE  PSInv'
<1> USE DEF PSInv
<1>1. /\ record[u].status \in {"unreviewed", "public"}
      /\ record[u].state = "vetted" => PS!voteSummary(u) = "unauthorized"
      /\ vote' = vote /\ decided' = decided /\ billing' = billing /\ buried' = buried
      /\ raced' = IF PS!ReadsOf(u) # {} THEN raced \cup {u} ELSE raced
      /\ PS!CacheUnchanged /\ PS!See(u)
  BY DEF PS!RecordEdit
<1>2. record \in [Tokens -> RecordT] /\ record[u] \in RecordT
  BY DEF ProposalTypes
<1>3. PICK f : f \in BOOLEAN /\ f = ~record[u].rfp
  BY <1>2 DEF RecordT
<1>4. PICK rec : rec = [state |-> record[u].state, status |-> record[u].status, rfp |-> f]
  OBVIOUS
<1>5. record' = [record EXCEPT ![u] = rec]
  <2>1. record' = [record EXCEPT ![u].rfp = ~@]
    BY DEF PS!RecordEdit
  <2>2. record' = [record EXCEPT ![u].rfp = f]
    <3>1. (~record[u].rfp) = f
      BY <1>3
    <3> QED
      BY <2>1, <3>1, Zenon
  <2>3. record[u] = [state |-> record[u].state, status |-> record[u].status, rfp |-> record[u].rfp]
    BY <1>2 DEF RecordT
  <2>4. [record[u] EXCEPT !.rfp = f] = rec
    BY <1>4, <2>3
  <2> QED
    BY <2>2, <2>4
<1>6. rec \in RecordT
  BY <1>2, <1>3, <1>4 DEF RecordT
<1>7. record' \in [Tokens -> RecordT] /\ record'[u] = rec
      /\ \A t \in Tokens \ {u} : record'[t] = record[t]
  BY <1>2, <1>5, <1>6
<1>8. ProposalTypes'
  BY <1>1, <1>7 DEF ProposalTypes
<1>9. /\ rec.state = record[u].state /\ rec.status = record[u].status
  BY <1>4
<1>10. vote[u] = "unauthorized" /\ billing[u] = << >>
  <2>1. CASE record[u].state = "unvetted"
    BY <2>1 DEF ProposalInv
  <2>2. CASE record[u].state = "vetted"
    <3>1. record[u].status = "public"
      BY <1>1, <2>2 DEF ProposalInv
    <3>2. vote[u] = "unauthorized"
      BY <1>1, <2>2, <3>1, SummaryCases
    <3> QED
      BY <3>2 DEF ProposalInv
  <2> QED
    BY <1>2, <2>1, <2>2 DEF RecordT
<1>11. ProposalInv'
  <2>1. ASSUME NEW t \in Tokens, t # u PROVE record'[t] = record[t]
    BY <1>7, <2>1
  <2>2. /\ record[u].state = "unvetted" => record[u].status \in {"unreviewed", "censored"}
        /\ record[u].state = "vetted" => record[u].status \in {"public", "archived", "censored"}
    BY DEF ProposalInv
  <2> QED
    BY <1>1, <1>7, <1>9, <1>10, <2>1, <2>2 DEF ProposalInv, VoteHasStarted, PS!Ended
<1>12. Others(u)
  BY <1>1, <1>7 DEF Others
<1>13. \A t \in Tokens : Clean(t)' => Clean(t)
  BY <1>1 DEF Clean
<1>14. ASSUME Clean(u)' PROVE Persists(u)
  <2>1. PS!ReadsOf(u) = {}
    BY <1>1, <1>14 DEF Clean
  <2>2. vote[u] # "approved" /\ ~VoteHasStarted(u)
    BY <1>10 DEF VoteHasStarted
  <2>3. /\ billing'[u] = billing[u] /\ Len(billing[u]) \in Nat
    BY <1>1 DEF ProposalTypes
  <2>4. ~PS!statusIsFinal(PS!TrueStatus(u))
    <3>1. StatusFacts(u)
      BY TrueStatusCases
    <3>2. CASE record[u].status = "unreviewed"
      BY <3>1, <3>2 DEF StatusFacts, PS!statusIsFinal
    <3>3. CASE record[u].status = "public"
      <4>1. record[u].state = "vetted"
        BY <1>2, <3>3 DEF ProposalInv, RecordT
      <4>2. PS!TrueStatus(u) = "underReview"
        BY <1>10, <3>1, <3>3, <4>1, StatusCases DEF StatusFacts
      <4> QED
        BY <4>2 DEF PS!statusIsFinal
    <3> QED
      BY <1>1, <3>2, <3>3
  <2> QED
    BY <1>1, <1>7, <1>9, <2>1, <2>2, <2>3, <2>4 DEF Persists
<1> QED
  BY <1>1, <1>8, <1>11, <1>12, <1>13, <1>14, ProposalStep

LEMMA VoteChangesStep ==
  ASSUME PSInv, NEW u \in Tokens, PS!VoteChanges(u)
  PROVE  PSInv'
<1> USE DEF PSInv
<1>1. /\ record[u].status = "public"
      /\ vote[u] \in {"unauthorized", "authorized", "started"}
      /\ record' = record /\ decided' = decided /\ billing' = billing /\ buried' = buried
      /\ raced' = raced /\ PS!CacheUnchanged /\ PS!See(u)
  BY DEF PS!VoteChanges
<1>2. PICK v \in PropVoteStatuses :
        /\ vote' = [vote EXCEPT ![u] = v]
        /\ vote[u] = "started" => v \in {"approved", "rejected"}
  BY DEF PS!VoteChanges, PropVoteStatuses
<1>3. vote \in [Tokens -> PropVoteStatuses] /\ record \in [Tokens -> RecordT]
  BY DEF ProposalTypes
<1>4. vote' \in [Tokens -> PropVoteStatuses] /\ vote'[u] = v
      /\ \A t \in Tokens \ {u} : vote'[t] = vote[t]
  BY <1>2, <1>3
<1>5. ProposalTypes'
  BY <1>1, <1>4 DEF ProposalTypes
<1>6. record[u].state = "vetted" /\ billing[u] = << >> /\ u \notin decided
  BY <1>1, <1>3 DEF ProposalInv, RecordT, PS!Ended
<1>7. ProposalInv'
  <2>1. ASSUME NEW t \in Tokens, t # u PROVE vote'[t] = vote[t]
    BY <1>4, <2>1
  <2> QED
    BY <1>1, <1>4, <1>6, <2>1 DEF ProposalInv, VoteHasStarted, PS!Ended
<1>8. Others(u)
  BY <1>1, <1>4 DEF Others
<1>9. \A t \in Tokens : Clean(t)' => Clean(t)
  BY <1>1 DEF Clean
<1>10. Persists(u)
  <2>1. ~PS!statusIsFinal(PS!TrueStatus(u))
    <3>1. StatusFacts(u)
      BY TrueStatusCases
    <3>2. PS!TrueStatus(u) \in {"underReview", "voteAuthorized", "voteStarted"}
      BY <1>1, <1>6, <3>1, StatusCases DEF StatusFacts
    <3> QED
      BY <3>2 DEF PS!statusIsFinal
  <2>2. VoteHasStarted(u) => VoteHasStarted(u)'
    BY <1>1, <1>2, <1>4 DEF VoteHasStarted
  <2>3. Len(billing[u]) \in Nat
    BY DEF ProposalTypes
  <2> QED
    BY <1>1, <2>1, <2>2, <2>3 DEF Persists
<1> QED
  BY <1>1, <1>5, <1>7, <1>8, <1>9, <1>10, ProposalStep

LEMMA SetBillingStatusStep ==
  ASSUME PSInv, PS!ConstantsAssumption, NEW u \in Tokens, NEW s \in BillingStatuses,
         PS!cmdSetBillingStatus(u, s)
  PROVE  PSInv'
<1> USE DEF PSInv
<1>1. /\ PS!voteSummary(u) = "approved" /\ ~record[u].rfp
      /\ Len(billing[u]) + 1 <= BillingStatusChangesMax
      /\ billing' = [billing EXCEPT ![u] = Append(@, s)]
      /\ decided' = decided \cup PS!Caches(u)
      /\ record' = record /\ vote' = vote /\ buried' = buried
      /\ raced' = raced /\ PS!CacheUnchanged /\ PS!See(u)
  BY DEF PS!cmdSetBillingStatus
<1>2. s \in Billings
  BY DEF PS!ConstantsAssumption, Billings
<1>3. PICK b : b = Append(billing[u], s)
  OBVIOUS
<1>4. billing[u] \in Seq(Billings) /\ billing \in [Tokens -> Seq(Billings)]
  BY DEF ProposalTypes
<1>5. b \in Seq(Billings) /\ Len(b) = Len(billing[u]) + 1 /\ Len(billing[u]) \in Nat
  BY <1>2, <1>3, <1>4
<1>6. billing' \in [Tokens -> Seq(Billings)] /\ billing'[u] = b
      /\ \A t \in Tokens \ {u} : billing'[t] = billing[t]
  BY <1>1, <1>3, <1>4, <1>5
<1>7. ProposalTypes'
  BY <1>1, <1>6 DEF ProposalTypes
<1>8. vote[u] = "approved"
  BY <1>1 DEF PS!voteSummary
<1>9. /\ \A t \in Tokens : t \in decided' => t \in decided \/ PS!Ended(t)
      /\ \A t \in Tokens \ {u} : t \in decided' <=> t \in decided
  BY <1>1 DEF PS!Caches
<1>10. ProposalInv'
  <2>1. ASSUME NEW t \in Tokens, t # u PROVE billing'[t] = billing[t]
    BY <1>6, <2>1
  <2>2. Len(billing'[u]) <= BillingStatusChangesMax
    BY <1>1, <1>5, <1>6
  <2> QED
    BY <1>1, <1>6, <1>8, <1>9, <2>1, <2>2 DEF ProposalInv, VoteHasStarted, PS!Ended
<1>11. Others(u)
  BY <1>1, <1>6, <1>9 DEF Others
<1>12. \A t \in Tokens : Clean(t)' => Clean(t)
  BY <1>1 DEF Clean
<1>13. ASSUME Clean(u)' PROVE Persists(u)
  <2>1. record[u].status = "public" /\ record[u].state = "vetted"
    <3>1. record[u].status = "public"
      BY <1>8, <1>12, <1>13 DEF ProposalInv, VoteHasStarted, Clean
    <3> QED
      BY <3>1 DEF ProposalInv, RecordT, ProposalTypes
  <2>2. ~PS!statusIsFinal(PS!TrueStatus(u))
    <3>1. PS!TrueStatus(u) = PS!proposalBillingStatus(billing[u])
      BY <1>1, <1>8, <2>1, StatusCases, TrueStatusCases DEF StatusFacts
    <3>2. PS!proposalBillingStatus(billing[u]) \in Billings
      BY <1>4, BillingStatusIn
    <3> QED
      BY <3>1, <3>2 DEF PS!statusIsFinal, Billings
  <2>3. PICK m, n : m = Len(billing[u]) /\ n = Len(b)
    OBVIOUS
  <2>4. m <= n /\ m # n
    BY <1>5, <2>3
  <2> QED
    BY <1>1, <1>6, <2>2, <2>3, <2>4 DEF Persists, VoteHasStarted
<1> QED
  BY <1>1, <1>7, <1>10, <1>11, <1>12, <1>13, ProposalStep

-----------------------------------------------------------------------------
(* The steps of a read. *)

ProposalsSame ==
  /\ record' = record /\ vote' = vote /\ billing' = billing
  /\ buried' = buried /\ raced' = raced
  /\ decided' = decided \/ \E u \in Tokens : decided' = decided \cup PS!Caches(u)

LEMMA ProposalsSameStep ==
  ASSUME ProposalTypes, ProposalInv, ProposalsSame
  PROVE  /\ ProposalTypes' /\ ProposalInv'
         /\ \A t \in Tokens : PS!TrueStatus(t)' = PS!TrueStatus(t)
         /\ \A t \in Tokens : \A e : EntryOK(t, e)' <=> EntryOK(t, e)
         /\ \A t : Clean(t)' <=> Clean(t)
<1>1. /\ record' = record /\ vote' = vote /\ billing' = billing
      /\ buried' = buried /\ raced' = raced
  BY DEF ProposalsSame
<1>2. \A t \in Tokens : t \in decided' => t \in decided \/ (record[t].status = "public" /\ PS!Ended(t))
  BY DEF ProposalsSame, PS!Caches
<1>3. \A t \in Tokens : t \in decided => t \in decided'
  BY DEF ProposalsSame
<1>4. ASSUME NEW t \in Tokens PROVE PS!TrueStatus(t)' = PS!TrueStatus(t)
  <2>1. PS!voteSummary(t)' = PS!voteSummary(t)
    BY <1>1, <1>2, <1>3 DEF PS!voteSummary
  <2> QED
    BY <1>1, <2>1 DEF PS!TrueStatus
<1>5. ProposalInv'
  BY <1>1, <1>2 DEF ProposalInv, PS!Ended, VoteHasStarted
<1>6. ASSUME NEW t \in Tokens, NEW e PROVE EntryOK(t, e)' <=> EntryOK(t, e)
  <2>1. VoteHasStarted(t)' <=> VoteHasStarted(t)
    BY <1>1 DEF VoteHasStarted
  <2> QED
    BY <1>1, <1>4, <2>1 DEF EntryOK
<1> QED
  BY <1>1, <1>4, <1>5, <1>6 DEF ProposalTypes, Clean

LEMMA ReadStep ==
  ASSUME PSInv, ProposalsSame, NEW r \in Readers,
         read' \in [Readers -> ReadT], seen' \in [Readers -> SUBSET StatusValues],
         \A q \in Readers \ {r} : read'[q] = read[q] /\ seen'[q] = seen[q],
         IsFiniteSet(seen'[r]),
         read'[r].step # "idle" =>
           read'[r].token \in Tokens /\
           \A t \in Tokens : t = read'[r].token => PS!TrueStatus(t) \in seen'[r],
         \A t \in DOMAIN data' : t \in Tokens /\ data'[t] \in EntryT,
         \A t \in DOMAIN data' : Clean(t) => EntryOK(t, data'[t]),
         \A t \in Tokens, e \in EntryT :
           read'[r].step # "idle" /\ t = read'[r].token /\ e = read'[r].entry /\ Clean(t) =>
             ReadOK(r, t, e)'
  PROVE  PSInv'
<1> USE DEF PSInv
<1>1. /\ ProposalTypes' /\ ProposalInv'
      /\ \A t \in Tokens : PS!TrueStatus(t)' = PS!TrueStatus(t)
      /\ \A t \in Tokens : \A e : EntryOK(t, e)' <=> EntryOK(t, e)
      /\ \A t : Clean(t)' <=> Clean(t)
  BY ProposalsSameStep
<1>2. ReadTypes'
  BY DEF ReadTypes
<1>3. CacheInv'
  <2> SUFFICES ASSUME NEW t \in DOMAIN data', Clean(t)' PROVE EntryOK(t, data[t])'
    BY DEF CacheInv
  <2>1. PICK e : e = data'[t]
    OBVIOUS
  <2>2. EntryOK(t, e)'
    BY <1>1, <2>1
  <2> QED
    BY <2>1, <2>2 DEF EntryOK
<1>4. SeenInv'
  <2> SUFFICES ASSUME NEW q \in Readers
               PROVE  (/\ IsFiniteSet(seen[q])
                       /\ read[q].step # "idle" =>
                            read[q].token \in Tokens /\ PS!TrueStatus(read[q].token) \in seen[q])'
    BY DEF SeenInv
  <2>1. PICK t : t = read'[q].token
    OBVIOUS
  <2>2. PS!TrueStatus(read[q].token)' = PS!TrueStatus(t)'
    BY <2>1 DEF PS!TrueStatus, PS!voteSummary
  <2>3. CASE q = r
    BY <1>1, <2>1, <2>2, <2>3
  <2>4. CASE q # r
    <3>1. read'[q] = read[q] /\ seen'[q] = seen[q]
      BY <2>4
    <3>2. /\ IsFiniteSet(seen[q])
          /\ read[q].step # "idle" => t \in Tokens /\ PS!TrueStatus(t) \in seen[q]
      BY <2>1, <3>1 DEF SeenInv
    <3> QED
      BY <1>1, <2>1, <2>2, <3>1, <3>2
  <2> QED
    BY <2>3, <2>4
<1>5. ReadInv'
  <2> SUFFICES ASSUME NEW q \in Readers, NEW t \in Tokens, NEW e \in EntryT,
                      read'[q].step # "idle", t = read'[q].token, e = read'[q].entry, Clean(t)'
               PROVE  ReadOK(q, t, e)'
    BY DEF ReadInv
  <2>1. CASE q = r
    BY <1>1, <2>1
  <2>2. CASE q # r
    <3>1. read'[q] = read[q] /\ seen'[q] = seen[q] /\ record' = record /\ vote' = vote
      BY <2>2 DEF ProposalsSame
    <3>2. ReadOK(q, t, e)
      BY <1>1, <3>1 DEF ReadInv
    <3>3. /\ Fetched(q, t, e)' <=> Fetched(q, t, e)
          /\ Determined(q)' = Determined(q)
          /\ \A s : ReplyOK(q, s)' <=> ReplyOK(q, s)
      BY <3>1 DEF Fetched, Determined, ReplyOK
    <3>4. \A d : EntryOK(t, d)' <=> EntryOK(t, d)
      BY <1>1
    <3>5. AtRecord(q, t, e)' /\ AtVote(q, t, e)' /\ AtBilling(q, t, e)' /\ AtReply(q)'
      <4>1. AtRecord(q, t, e)'
        BY <3>1, <3>2 DEF ReadOK, AtRecord
      <4>2. AtVote(q, t, e)'
        BY <3>1, <3>2, <3>3, <3>4 DEF ReadOK, AtVote
      <4>3. AtBilling(q, t, e)'
        BY <3>1, <3>2 DEF ReadOK, AtBilling
      <4>4. AtReply(q)'
        BY <3>1, <3>2 DEF ReadOK, AtReply, ReplyOK
      <4> QED
        BY <4>1, <4>2, <4>3, <4>4
    <3>6. AtDetermine(q, t, e)'
      <4>1. AtDetermine(q, t, e)
        BY <3>2 DEF ReadOK
      <4>2. PICK s, d : /\ s = IF Determined(q) = "error" THEN "" ELSE Determined(q)
                        /\ d = [status |-> Determined(q), record |-> e.record,
                                vote |-> e.vote, count |-> Len(read[q].billing)]
        OBVIOUS
      <4>3. read[q].step = "determine" =>
              ReplyOK(q, s) /\ (Determined(q) # "error" => EntryOK(t, d))
        BY <4>1, <4>2 DEF AtDetermine
      <4>4. read[q].step = "determine" =>
              ReplyOK(q, s)' /\ (Determined(q) # "error" => EntryOK(t, d)')
        BY <3>3, <3>4, <4>3
      <4>5. /\ s = IF Determined(q)' = "error" THEN "" ELSE Determined(q)'
            /\ d = [status |-> Determined(q)', record |-> e.record,
                    vote |-> e.vote, count |-> Len(read'[q].billing)]
        BY <3>1, <3>3, <4>2
      <4> QED
        BY <3>1, <3>3, <4>4, <4>5 DEF AtDetermine
    <3> QED
      BY <3>5, <3>6 DEF ReadOK
  <2> QED
    BY <2>1, <2>2
<1> QED
  BY <1>1, <1>2, <1>3, <1>4, <1>5

LEMMA NoDataOK ==
  /\ PS!NoData \in EntryT /\ Stale(PS!NoData) /\ PS!NoData.status = PS!None
  /\ ~PS!statusIsFinal(PS!NoData.status) /\ PS!statusRequiresRecord(PS!NoData.status)
BY DEF PS!NoData, EntryT, Stale, PS!None, PS!voteStatusIsFinal, PS!statusIsFinal, PS!statusRequiresRecord

LEMMA BeginStep ==
  ASSUME PSInv, NEW r \in Readers, NEW u \in Tokens, PS!Begin(r, u)
  PROVE  PSInv'
<1> USE DEF PSInv
<1>1. PICK e : e = PS!Entry(u)
  OBVIOUS
<1>2. PICK st : st = IF PS!statusIsFinal(e.status) THEN "reply"
                     ELSE IF PS!statusRequiresRecord(e.status) THEN "record" ELSE "vote"
  OBVIOUS
<1>3. PICK new : new = [step |-> st, token |-> u, entry |-> e, billing |-> << >>,
                        reply |-> e.status]
  OBVIOUS
<1>4. /\ read' = [read EXCEPT ![r] = new]
      /\ seen' = [seen EXCEPT ![r] = {PS!TrueStatus(u)}]
      /\ data' = data /\ ProposalsSame
  BY <1>1, <1>2, <1>3 DEF PS!Begin, PS!proposals, ProposalsSame
<1>5. e \in EntryT /\ (e = PS!NoData \/ (u \in DOMAIN data /\ e = data[u]))
  BY <1>1, NoDataOK DEF PS!Entry, ReadTypes
<1>6. << >> \in Seq(Billings)
  OBVIOUS
<1>7. new \in ReadT
  BY <1>2, <1>3, <1>5, <1>6 DEF ReadT, EntryT
<1>8. PS!TrueStatus(u) \in StatusValues
  BY TrueStatusCases DEF StatusFacts
<1>9. read \in [Readers -> ReadT] /\ seen \in [Readers -> SUBSET StatusValues]
  BY DEF ReadTypes
<1>10. /\ read' \in [Readers -> ReadT] /\ seen' \in [Readers -> SUBSET StatusValues]
       /\ read'[r] = new /\ seen'[r] = {PS!TrueStatus(u)}
       /\ \A q \in Readers \ {r} : read'[q] = read[q] /\ seen'[q] = seen[q]
  BY <1>4, <1>7, <1>8, <1>9
<1>11. IsFiniteSet(seen'[r])
  BY <1>10, FS_Singleton
<1>12. /\ new.step = st /\ new.token = u /\ new.entry = e /\ new.billing = << >>
       /\ new.reply = e.status
  BY <1>3
<1>13. ASSUME Clean(u) PROVE ReadOK(r, u, e)'
  <2>1. e = PS!NoData \/ EntryOK(u, e)
    BY <1>5, <1>13 DEF CacheInv
  <2>2. CASE PS!statusIsFinal(e.status)
    <3>1. e.status = PS!TrueStatus(u)
      BY <2>1, <2>2, NoDataOK DEF EntryOK
    <3>2. ReplyOK(r, e.status)'
      BY <1>10, <3>1 DEF ReplyOK
    <3>3. st = "reply"
      BY <1>2, <2>2
    <3> QED
      BY <1>10, <1>12, <3>2, <3>3
      DEF ReadOK, AtRecord, AtVote, AtBilling, AtDetermine, AtReply, ReplyOK
  <2>3. CASE ~PS!statusIsFinal(e.status) /\ PS!statusRequiresRecord(e.status)
    <3>1. Stale(e)
      <4>1. CASE e = PS!NoData
        BY <4>1, NoDataOK
      <4>2. CASE EntryOK(u, e)
        BY <2>3, <4>2 DEF EntryOK, Stale, PS!statusRequiresRecord, StatusValues, Refetched,
           PS!statusIsFinal, Billings
      <4> QED
        BY <2>1, <4>1, <4>2
    <3>2. st = "record"
      BY <1>2, <2>3
    <3> QED
      BY <1>10, <1>12, <3>1, <3>2
      DEF ReadOK, AtRecord, AtVote, AtBilling, AtDetermine, AtReply
  <2>4. CASE ~PS!statusIsFinal(e.status) /\ ~PS!statusRequiresRecord(e.status)
    <3>1. EntryOK(u, e)
      BY <2>1, <2>4, NoDataOK
    <3>2. e.status \in Billings \cup {"voteStarted"}
      BY <2>4 DEF PS!statusRequiresRecord, Billings
    <3>3. VoteHasStarted(u) /\ e.record = record[u]
      BY <3>1, <3>2 DEF EntryOK, VoteHasStarted
    <3>4. record[u] \in RecordT /\ record[u].status = "public" /\ record[u].state = "vetted"
      BY <1>13, <3>3 DEF ProposalInv, Clean, ProposalTypes, RecordT
    <3>5. record' = record /\ EntryOK(u, e)'
      BY <1>4, <3>1, ProposalsSameStep DEF ProposalsSame
    <3>6. Fetched(r, u, e)'
      BY <3>3, <3>4, <3>5 DEF Fetched
    <3>7. st = "vote"
      BY <1>2, <2>4
    <3> QED
      BY <1>10, <1>12, <3>2, <3>5, <3>6, <3>7
      DEF ReadOK, AtRecord, AtVote, AtBilling, AtDetermine, AtReply
  <2> QED
    BY <2>2, <2>3, <2>4
<1>14. /\ \A t \in DOMAIN data : t \in Tokens /\ data[t] \in EntryT
       /\ \A t \in DOMAIN data : Clean(t) => EntryOK(t, data[t])
  BY DEF ReadTypes, CacheInv
<1>15. \A t \in Tokens, d \in EntryT :
         read'[r].step # "idle" /\ t = read'[r].token /\ d = read'[r].entry /\ Clean(t) =>
           ReadOK(r, t, d)'
  BY <1>10, <1>12, <1>13
<1>16. read'[r].token \in Tokens
       /\ \A t \in Tokens : t = read'[r].token => PS!TrueStatus(t) \in seen'[r]
  BY <1>10, <1>12
<1> QED
  BY <1>4, <1>10, <1>11, <1>14, <1>15, <1>16, ReadStep

LEMMA GetRecordStep ==
  ASSUME PSInv, NEW r \in Readers, PS!GetRecord(r)
  PROVE  PSInv'
<1> USE DEF PSInv
<1>1. PICK u, e, rec : u = read[r].token /\ e = read[r].entry /\ rec = record[u]
  OBVIOUS
<1>2. /\ read[r].step = "record" /\ data' = data /\ seen' = seen /\ ProposalsSame
      /\ u \in Tokens /\ PS!TrueStatus(u) \in seen[r] /\ IsFiniteSet(seen[r])
  BY <1>1 DEF PS!GetRecord, PS!ReadRest, ProposalsSame, SeenInv
<1>3. /\ read \in [Readers -> ReadT] /\ seen \in [Readers -> SUBSET StatusValues]
      /\ read[r] \in ReadT /\ e \in EntryT /\ rec \in RecordT
  BY <1>1, <1>2 DEF ReadTypes, ReadT, ProposalTypes
<1>4. PICK st : st = IF rec.state = "unvetted" THEN "determine" ELSE "vote"
  OBVIOUS
<1>5. PICK d : d = [status |-> e.status, record |-> rec, vote |-> e.vote, count |-> e.count]
  OBVIOUS
<1>6. PICK new : new = [step |-> st, token |-> u, entry |-> d, billing |-> read[r].billing,
                        reply |-> read[r].reply]
  OBVIOUS
<1>7. read' = [read EXCEPT ![r] = new]
  <2>1. read' = [read EXCEPT ![r] = [read[r] EXCEPT !.entry.record = rec, !.step = st]]
    BY <1>1, <1>4 DEF PS!GetRecord
  <2>2. [e EXCEPT !.record = rec] = d
    BY <1>3, <1>5 DEF EntryT
  <2>3. [read[r] EXCEPT !.entry.record = rec] = [read[r] EXCEPT !.entry = d]
    BY <1>1, <1>3, <2>2 DEF ReadT
  <2>4. PICK x : x = [step |-> "record", token |-> u, entry |-> d,
                      billing |-> read[r].billing, reply |-> read[r].reply]
    OBVIOUS
  <2>5. [read[r] EXCEPT !.entry = d] = x
    <3>1. read[r] = [step |-> read[r].step, token |-> read[r].token, entry |-> read[r].entry,
                     billing |-> read[r].billing, reply |-> read[r].reply]
      BY <1>3 DEF ReadT
    <3> QED
      BY <1>1, <1>2, <2>4, <3>1
  <2>6. [x EXCEPT !.step = st] = new
    BY <1>6, <2>4
  <2> QED
    BY <2>1, <2>3, <2>5, <2>6
<1>8. d \in EntryT /\ new \in ReadT
  BY <1>1, <1>3, <1>4, <1>5, <1>6 DEF EntryT, ReadT
<1>9. /\ read' \in [Readers -> ReadT] /\ read'[r] = new /\ seen'[r] = seen[r]
      /\ \A q \in Readers \ {r} : read'[q] = read[q] /\ seen'[q] = seen[q]
  BY <1>2, <1>3, <1>7, <1>8
<1>10. /\ new.step = st /\ new.token = u /\ new.entry = d /\ new.billing = read[r].billing
       /\ new.reply = read[r].reply
       /\ d.status = e.status /\ d.record = rec /\ d.vote = e.vote /\ d.count = e.count
  BY <1>5, <1>6
<1>11. ASSUME Clean(u) PROVE ReadOK(r, u, d)'
  <2>1. Stale(e) /\ read[r].billing = << >> /\ read[r].reply = e.status
    BY <1>1, <1>2, <1>3, <1>11 DEF ReadInv, ReadOK, AtRecord
  <2>2. StatusFacts(u)
    BY <1>2, TrueStatusCases
  <2>3. record' = record
    BY <1>2 DEF ProposalsSame
  <2>4. CASE rec.state = "unvetted"
    <3>1. st = "determine"
      BY <1>4, <2>4
    <3>2. rec.status \in {"unreviewed", "censored"}
      BY <1>1, <1>2, <2>4 DEF ProposalInv
    <3>3. PICK s : s = PS!proposalStatus(rec, e.vote, << >>)
      OBVIOUS
    <3>4. /\ s = PS!TrueStatus(u)
          /\ s \in {"unvetted", "unvettedCensored"}
      BY <1>1, <2>2, <2>4, <3>2, <3>3, StatusCases DEF StatusFacts
    <3>5. Determined(r)' = s
      BY <1>9, <1>10, <2>1, <3>3 DEF Determined
    <3>6. ReplyOK(r, s)'
      BY <1>2, <1>9, <3>4 DEF ReplyOK
    <3>7. PICK c : c = [status |-> s, record |-> rec, vote |-> e.vote, count |-> 0]
      OBVIOUS
    <3>8. EntryOK(u, c)
      BY <2>1, <3>4, <3>7 DEF EntryOK, Stale, StatusValues, Refetched, Billings, PS!statusIsFinal
    <3>9. EntryOK(u, c)'
      BY <1>2, <3>8, ProposalsSameStep
    <3>10. Len(read'[r].billing) = 0
      BY <1>9, <1>10, <2>1
    <3>11. AtDetermine(r, u, d)'
      BY <1>10, <3>4, <3>5, <3>6, <3>7, <3>9, <3>10 DEF AtDetermine
    <3> QED
      BY <1>9, <1>10, <3>1, <3>11 DEF ReadOK, AtRecord, AtVote, AtBilling, AtReply
  <2>5. CASE rec.state = "vetted"
    <3>1. st = "vote"
      BY <1>4, <2>5
    <3>2. rec.status \in {"public", "archived", "censored"}
      BY <1>1, <1>2, <2>5 DEF ProposalInv
    <3>3. Fetched(r, u, d)'
      BY <1>1, <1>3, <1>10, <2>3, <2>5, <3>2 DEF Fetched
    <3>4. Stale(d)
      BY <1>10, <2>1 DEF Stale
    <3> QED
      BY <1>9, <1>10, <2>1, <3>1, <3>3, <3>4
      DEF ReadOK, AtRecord, AtVote, AtBilling, AtDetermine, AtReply
  <2> QED
    BY <1>3, <2>4, <2>5 DEF RecordT
<1>12. /\ \A t \in DOMAIN data : t \in Tokens /\ data[t] \in EntryT
       /\ \A t \in DOMAIN data : Clean(t) => EntryOK(t, data[t])
  BY DEF ReadTypes, CacheInv
<1>13. \A t \in Tokens, x \in EntryT :
         read'[r].step # "idle" /\ t = read'[r].token /\ x = read'[r].entry /\ Clean(t) =>
           ReadOK(r, t, x)'
  BY <1>9, <1>10, <1>11
<1>14. read'[r].token \in Tokens
       /\ \A t \in Tokens : t = read'[r].token => PS!TrueStatus(t) \in seen'[r]
  BY <1>2, <1>9, <1>10
<1>15. seen' \in [Readers -> SUBSET StatusValues] /\ IsFiniteSet(seen'[r])
  BY <1>2, <1>3
<1> QED
  BY <1>2, <1>9, <1>12, <1>13, <1>14, <1>15, ReadStep

LEMMA GetVoteStep ==
  ASSUME PSInv, BillingStatusChangesMax \in Nat \ {0}, NEW r \in Readers, PS!GetVote(r)
  PROVE  PSInv'
<1> USE DEF PSInv
<1>1. PICK u, e : u = read[r].token /\ e = read[r].entry
  OBVIOUS
<1>2. PICK vs : vs = IF PS!voteStatusIsFinal(e.vote) THEN e.vote ELSE PS!voteSummary(u)
  OBVIOUS
<1>3. PICK st : st = IF ~PS!statusRequiresBillingStatuses(vs) THEN "determine"
                     ELSE IF PS!BillingIsFinal(e.count) THEN "reply" ELSE "billing"
  OBVIOUS
<1>4. /\ read[r].step = "vote" /\ data' = data /\ seen' = seen
      /\ u \in Tokens /\ PS!TrueStatus(u) \in seen[r] /\ IsFiniteSet(seen[r])
  BY <1>1 DEF PS!GetVote, PS!ReadRest, SeenInv
<1>5. ProposalsSame
  BY <1>1, <1>4 DEF PS!GetVote, PS!ReadRest, ProposalsSame
<1>6. /\ read \in [Readers -> ReadT] /\ seen \in [Readers -> SUBSET StatusValues]
      /\ read[r] \in ReadT /\ e \in EntryT /\ record[u] \in RecordT
      /\ vote[u] \in PropVoteStatuses
  BY <1>1, <1>4 DEF ReadTypes, ReadT, ProposalTypes
<1>7. PICK d : d = [status |-> e.status, record |-> e.record, vote |-> vs, count |-> e.count]
  OBVIOUS
<1>8. PICK new : new = [step |-> st, token |-> u, entry |-> d, billing |-> read[r].billing,
                        reply |-> read[r].reply]
  OBVIOUS
<1>9. read' = [read EXCEPT ![r] = new]
  <2>1. read' = [read EXCEPT ![r] = [read[r] EXCEPT !.entry.vote = vs, !.step = st]]
    BY <1>1, <1>2, <1>3 DEF PS!GetVote
  <2>2. [e EXCEPT !.vote = vs] = d
    BY <1>6, <1>7 DEF EntryT
  <2>3. [read[r] EXCEPT !.entry.vote = vs] = [read[r] EXCEPT !.entry = d]
    BY <1>1, <1>6, <2>2 DEF ReadT
  <2>4. PICK x : x = [step |-> "vote", token |-> u, entry |-> d,
                      billing |-> read[r].billing, reply |-> read[r].reply]
    OBVIOUS
  <2>5. [read[r] EXCEPT !.entry = d] = x
    <3>1. read[r] = [step |-> read[r].step, token |-> read[r].token, entry |-> read[r].entry,
                     billing |-> read[r].billing, reply |-> read[r].reply]
      BY <1>6 DEF ReadT
    <3> QED
      BY <1>1, <1>4, <2>4, <3>1
  <2>6. [x EXCEPT !.step = st] = new
    BY <1>8, <2>4
  <2> QED
    BY <2>1, <2>3, <2>5, <2>6
<1>10. vs \in PropVoteStatuses \cup {"ineligible"}
  BY <1>2, <1>6 DEF PS!voteSummary, PS!voteStatusIsFinal, PropVoteStatuses, EntryT, PS!None
<1>11. d \in EntryT /\ new \in ReadT
  BY <1>1, <1>3, <1>6, <1>7, <1>8, <1>10 DEF EntryT, ReadT
<1>12. /\ read' \in [Readers -> ReadT] /\ read'[r] = new /\ seen'[r] = seen[r]
       /\ \A q \in Readers \ {r} : read'[q] = read[q] /\ seen'[q] = seen[q]
  BY <1>4, <1>6, <1>9, <1>11
<1>13. /\ new.step = st /\ new.token = u /\ new.entry = d /\ new.billing = read[r].billing
       /\ new.reply = read[r].reply
       /\ d.status = e.status /\ d.record = e.record /\ d.vote = vs /\ d.count = e.count
  BY <1>7, <1>8
<1>14. ASSUME Clean(u) PROVE ReadOK(r, u, d)'
  <2>1. /\ Fetched(r, u, e)
        /\ Stale(e) \/ (EntryOK(u, e) /\ e.status \in Billings \cup {"voteStarted"})
        /\ read[r].reply = e.status
        /\ read[r].billing = << >>
    BY <1>1, <1>4, <1>6, <1>14 DEF ReadInv, ReadOK, AtVote
  <2>2. StatusFacts(u)
    BY <1>4, TrueStatusCases
  <2>3. record' = record /\ vote' = vote /\ seen' = seen
    BY <1>4, <1>5 DEF ProposalsSame
  <2>4. u \notin buried
    BY <1>14 DEF Clean
  <2>5. /\ record[u].status = "public" => PS!voteSummary(u) = vote[u]
        /\ record[u].status # "public" => PS!voteSummary(u) = "ineligible"
    BY <1>4, <2>4, SummaryCases
  \* The vote that was cached is final only when it is the vote of the proposal.
  <2>6. PS!voteStatusIsFinal(e.vote) =>
          /\ e.vote = "approved" /\ vote[u] = "approved"
          /\ e.record = record[u] /\ record[u].status = "public"
    <3> SUFFICES ASSUME PS!voteStatusIsFinal(e.vote)
                 PROVE  /\ e.vote = "approved" /\ vote[u] = "approved"
                        /\ e.record = record[u] /\ record[u].status = "public"
      OBVIOUS
    <3>1. EntryOK(u, e) /\ e.status \in Billings \cup {"voteStarted"}
      BY <2>1 DEF Stale
    <3>2. e.status # "voteStarted"
      BY <3>1 DEF EntryOK, PS!voteStatusIsFinal
    <3>3. /\ e.vote = "approved" /\ vote[u] = "approved" /\ e.record = record[u]
      BY <3>1, <3>2 DEF EntryOK
    <3> QED
      BY <1>4, <2>4, <3>3 DEF ProposalInv, VoteHasStarted
  \* Once the vote has started the record that was read is the one of the proposal.
  <2>7. record[u].status = "public" => vs = vote[u] /\ e.record = record[u]
    <3> SUFFICES ASSUME record[u].status = "public"
                 PROVE  vs = vote[u] /\ e.record = record[u]
      OBVIOUS
    <3>1. vs = vote[u]
      BY <1>2, <2>5, <2>6
    <3>2. /\ e.record.state = "vetted" /\ record[u].state = "vetted"
          /\ e.record.status = "public" /\ e.record.rfp = record[u].rfp
          /\ e.record \in RecordT
      BY <2>1 DEF Fetched
    <3>3. e.record = record[u]
      <4>1. /\ e.record = [state |-> e.record.state, status |-> e.record.status,
                           rfp |-> e.record.rfp]
            /\ record[u] = [state |-> record[u].state, status |-> record[u].status,
                            rfp |-> record[u].rfp]
        BY <1>6, <3>2 DEF RecordT
      <4> QED
        BY <3>2, <4>1
    <3> QED
      BY <3>1, <3>3
  <2>8. record[u].status # "public" => vs = "ineligible"
    BY <1>2, <2>5, <2>6
  <2>9. PS!statusRequiresBillingStatuses(vs) => vs = "approved"
    BY <1>10 DEF PS!statusRequiresBillingStatuses, PropVoteStatuses
  <2>10. CASE ~PS!statusRequiresBillingStatuses(vs)
    <3>1. st = "determine" /\ vs # "approved"
      BY <1>3, <2>10 DEF PS!statusRequiresBillingStatuses
    <3>2. PICK s : s = PS!proposalStatus(e.record, vs, << >>)
      OBVIOUS
    <3>3. Determined(r)' = s
      BY <1>12, <1>13, <2>1, <3>2 DEF Determined
    <3>4. PICK c : c = [status |-> s, record |-> e.record, vote |-> vs, count |-> 0]
      OBVIOUS
    <3>5. Len(read'[r].billing) = 0
      BY <1>12, <1>13, <2>1
    <3>6. CASE record[u].status = "public"
      <4>1. vs = vote[u] /\ e.record = record[u] /\ record[u].state = "vetted"
        BY <2>1, <2>7, <3>6 DEF Fetched
      <4>2. /\ vs = "unauthorized" => s = "underReview"
            /\ vs = "authorized" => s = "voteAuthorized"
            /\ vs = "started" => s = "voteStarted"
            /\ vs = "rejected" => s = "rejected"
            /\ vs \in {"unauthorized", "authorized", "started", "rejected"}
        BY <1>6, <3>1, <3>2, <3>6, <4>1, StatusCases DEF PropVoteStatuses
      <4>3. /\ vs = "unauthorized" => PS!TrueStatus(u) = "underReview"
            /\ vs = "authorized" => PS!TrueStatus(u) = "voteAuthorized"
            /\ vs = "started" => PS!TrueStatus(u) = "voteStarted"
            /\ vs = "rejected" => PS!TrueStatus(u) = "rejected"
        BY <2>2, <3>6, <4>1, StatusCases DEF StatusFacts
      <4>4. s = PS!TrueStatus(u) /\ s # "error"
        BY <4>2, <4>3
      <4>5. ReplyOK(r, s)'
        BY <1>4, <4>4 DEF ReplyOK
      <4>6. EntryOK(u, c)
        <5>1. /\ c.status = s /\ c.record = record[u] /\ c.vote = vs /\ c.count = 0
          BY <3>4, <4>1
        <5>2. CASE s \in {"underReview", "voteAuthorized"}
          <6>1. ~PS!voteStatusIsFinal(vs)
            BY <4>2, <5>2 DEF PS!voteStatusIsFinal
          <6> QED
            BY <4>4, <5>1, <5>2, <6>1
            DEF EntryOK, StatusValues, Refetched, Billings, PS!statusIsFinal
        <5>3. CASE s = "voteStarted"
          <6>1. vs = "started" /\ VoteHasStarted(u)
            BY <4>1, <4>2, <5>3 DEF VoteHasStarted
          <6> QED
            BY <5>1, <5>3, <6>1 DEF EntryOK, StatusValues, Refetched, Billings, PS!statusIsFinal
        <5>4. CASE s = "rejected"
          BY <4>4, <5>1, <5>4 DEF EntryOK, StatusValues, Refetched, Billings, PS!statusIsFinal
        <5> QED
          BY <4>2, <5>2, <5>3, <5>4
      <4>7. EntryOK(u, c)'
        BY <1>4, <1>5, <4>6, ProposalsSameStep
      <4>8. AtDetermine(r, u, d)'
        BY <1>13, <3>3, <3>4, <3>5, <4>4, <4>5, <4>7 DEF AtDetermine
      <4> QED
        BY <1>12, <1>13, <3>1, <4>8 DEF ReadOK, AtRecord, AtVote, AtBilling, AtReply
    <3>7. CASE record[u].status # "public"
      <4>1. vs = "ineligible"
        BY <2>8, <3>7
      <4>2. CASE e.record.status = record[u].status
        <5>1. /\ e.record.state = "vetted" /\ record[u].state = "vetted"
              /\ record[u].status \in {"archived", "censored"}
          BY <2>1, <3>7, <4>2 DEF Fetched
        <5>2. s = PS!TrueStatus(u) /\ s \in {"abandoned", "censored"}
          BY <2>2, <3>2, <4>2, <5>1, StatusCases DEF StatusFacts
        <5>3. ReplyOK(r, s)'
          BY <1>4, <5>2 DEF ReplyOK
        <5>4. EntryOK(u, c)
          <6>1. c.status = s
            BY <3>4
          <6> QED
            BY <5>2, <6>1 DEF EntryOK, StatusValues, Refetched, Billings, PS!statusIsFinal
        <5>5. EntryOK(u, c)'
          BY <1>4, <1>5, <5>4, ProposalsSameStep
        <5>6. AtDetermine(r, u, d)'
          BY <1>13, <3>3, <3>4, <3>5, <5>2, <5>3, <5>5 DEF AtDetermine
        <5> QED
          BY <1>12, <1>13, <3>1, <5>6 DEF ReadOK, AtRecord, AtVote, AtBilling, AtReply
      <4>3. CASE e.record.status # record[u].status
        <5>1. /\ e.record.state = "vetted" /\ e.record.status = "public"
              /\ record[u].state = "vetted"
          BY <2>1, <4>3 DEF Fetched
        <5>2. PICK x \in seen[r] : x \notin {"abandoned", "censored"}
          BY <2>1, <4>3 DEF Fetched
        <5>3. PS!TrueStatus(u) \in {"abandoned", "censored"}
          BY <1>4, <2>2, <3>7, <5>1 DEF StatusFacts, ProposalInv
        <5>4. Cardinality(seen[r]) > 1
          <6>1. x # PS!TrueStatus(u)
            BY <5>2, <5>3
          <6>2. PICK y : y = PS!TrueStatus(u)
            OBVIOUS
          <6> QED
            BY <1>4, <5>2, <6>1, <6>2, MoreThanOne
        <5>5. s = "error"
          BY <3>2, <4>1, <5>1, StatusCases DEF PropVoteStatuses
        <5>6. PICK a : a = ""
          OBVIOUS
        <5>7. ReplyOK(r, a)'
          BY <1>4, <5>4, <5>6 DEF ReplyOK
        <5>8. AtDetermine(r, u, d)'
          BY <3>3, <5>5, <5>6, <5>7 DEF AtDetermine
        <5> QED
          BY <1>12, <1>13, <3>1, <5>8 DEF ReadOK, AtRecord, AtVote, AtBilling, AtReply
      <4> QED
        BY <4>2, <4>3
    <3> QED
      BY <3>6, <3>7
  <2>11. CASE PS!statusRequiresBillingStatuses(vs)
    <3>1. vs = "approved" /\ record[u].status = "public"
      BY <2>8, <2>9, <2>11
    <3>2. vote[u] = "approved" /\ e.record = record[u]
      BY <2>7, <3>1
    <3>3. CASE PS!BillingIsFinal(e.count)
      <4>1. e.count # 0 /\ e.count >= BillingStatusChangesMax /\ e.count \in Nat
        BY <1>6, <3>3 DEF PS!BillingIsFinal, EntryT
      <4>2. EntryOK(u, e) /\ e.status \in Billings
        BY <2>1, <4>1 DEF Stale, EntryOK
      <4>3. e.count <= Len(billing[u]) /\ Len(billing[u]) <= BillingStatusChangesMax
        BY <1>4, <4>2 DEF EntryOK, ProposalInv
      <4>4. Len(billing[u]) \in Nat
        BY <1>4 DEF ProposalTypes
      <4>5. e.count = Len(billing[u])
        BY <4>1, <4>3, <4>4
      <4>6. e.status = PS!proposalBillingStatus(billing[u]) /\ ~record[u].rfp
        BY <4>2, <4>5 DEF EntryOK
      <4>7. record[u].state = "vetted"
        BY <2>1 DEF Fetched
      <4>8. e.status = PS!TrueStatus(u)
        BY <2>2, <3>1, <3>2, <4>6, <4>7, StatusCases DEF StatusFacts
      <4>9. ReplyOK(r, e.status)'
        BY <1>4, <4>8 DEF ReplyOK
      <4>10. st = "reply"
        BY <1>3, <2>11, <3>3
      <4>11. AtReply(r)'
        BY <1>12, <1>13, <2>1, <4>9 DEF AtReply, ReplyOK
      <4> QED
        BY <1>12, <1>13, <4>10, <4>11 DEF ReadOK, AtRecord, AtVote, AtBilling, AtDetermine
    <3>4. CASE ~PS!BillingIsFinal(e.count)
      <4>1. st = "billing"
        BY <1>3, <2>11, <3>4
      <4>2. AtBilling(r, u, d)'
        BY <1>13, <2>3, <3>1, <3>2 DEF AtBilling
      <4> QED
        BY <1>12, <1>13, <4>1, <4>2 DEF ReadOK, AtRecord, AtVote, AtDetermine, AtReply
    <3> QED
      BY <3>3, <3>4
  <2> QED
    BY <2>10, <2>11
<1>15. /\ \A t \in DOMAIN data : t \in Tokens /\ data[t] \in EntryT
       /\ \A t \in DOMAIN data : Clean(t) => EntryOK(t, data[t])
  BY DEF ReadTypes, CacheInv
<1>16. \A t \in Tokens, x \in EntryT :
         read'[r].step # "idle" /\ t = read'[r].token /\ x = read'[r].entry /\ Clean(t) =>
           ReadOK(r, t, x)'
  BY <1>12, <1>13, <1>14
<1>17. read'[r].token \in Tokens
       /\ \A t \in Tokens : t = read'[r].token => PS!TrueStatus(t) \in seen'[r]
  BY <1>4, <1>12, <1>13
<1>18. seen' \in [Readers -> SUBSET StatusValues] /\ IsFiniteSet(seen'[r])
  BY <1>4, <1>6
<1> QED
  BY <1>4, <1>5, <1>12, <1>15, <1>16, <1>17, <1>18, ReadStep

LEMMA GetBillingStep ==
  ASSUME PSInv, NEW r \in Readers, PS!GetBilling(r)
  PROVE  PSInv'
<1> USE DEF PSInv
<1>1. PICK u, e, b : u = read[r].token /\ e = read[r].entry /\ b = billing[u]
  OBVIOUS
<1>2. /\ read[r].step = "billing" /\ data' = data /\ seen' = seen /\ ProposalsSame
      /\ u \in Tokens /\ PS!TrueStatus(u) \in seen[r] /\ IsFiniteSet(seen[r])
  BY <1>1 DEF PS!GetBilling, PS!ReadRest, ProposalsSame, SeenInv
<1>3. /\ read \in [Readers -> ReadT] /\ seen \in [Readers -> SUBSET StatusValues]
      /\ read[r] \in ReadT /\ e \in EntryT /\ record[u] \in RecordT
      /\ b \in Seq(Billings)
  BY <1>1, <1>2 DEF ReadTypes, ReadT, ProposalTypes
<1>4. PICK new : new = [step |-> "determine", token |-> u, entry |-> e, billing |-> b,
                        reply |-> read[r].reply]
  OBVIOUS
<1>5. read' = [read EXCEPT ![r] = new]
  <2>1. read' = [read EXCEPT ![r] = [read[r] EXCEPT !.billing = b, !.step = "determine"]]
    BY <1>1 DEF PS!GetBilling
  <2>2. read[r] = [step |-> read[r].step, token |-> read[r].token, entry |-> read[r].entry,
                   billing |-> read[r].billing, reply |-> read[r].reply]
    BY <1>3 DEF ReadT
  <2>3. PICK x : x = [step |-> read[r].step, token |-> u, entry |-> e, billing |-> b,
                      reply |-> read[r].reply]
    OBVIOUS
  <2>4. [read[r] EXCEPT !.billing = b] = x
    BY <1>1, <2>2, <2>3
  <2>5. [x EXCEPT !.step = "determine"] = new
    BY <1>4, <2>3
  <2> QED
    BY <2>1, <2>4, <2>5
<1>6. new \in ReadT
  BY <1>1, <1>3, <1>4 DEF ReadT
<1>7. /\ read' \in [Readers -> ReadT] /\ read'[r] = new /\ seen'[r] = seen[r]
      /\ \A q \in Readers \ {r} : read'[q] = read[q] /\ seen'[q] = seen[q]
  BY <1>2, <1>3, <1>5, <1>6
<1>8. new.step = "determine" /\ new.token = u /\ new.entry = e /\ new.billing = b
  BY <1>4
<1>9. ASSUME Clean(u) PROVE ReadOK(r, u, e)'
  <2>1. e.vote = "approved" /\ vote[u] = "approved" /\ e.record = record[u]
    BY <1>1, <1>2, <1>3, <1>9 DEF ReadInv, ReadOK, AtBilling
  <2>2. record[u].status = "public" /\ record[u].state = "vetted"
    <3>1. record[u].status = "public"
      BY <1>2, <1>9, <2>1 DEF ProposalInv, VoteHasStarted, Clean
    <3> QED
      BY <1>2, <1>3, <3>1 DEF ProposalInv, RecordT
  <2>3. PICK s : s = PS!proposalStatus(e.record, "approved", b)
    OBVIOUS
  <2>4. s = PS!TrueStatus(u)
    BY <1>1, <1>2, <2>1, <2>2, <2>3, TrueStatusCases DEF StatusFacts
  <2>5. Determined(r)' = s
    BY <1>7, <1>8, <2>1, <2>3 DEF Determined
  <2>6. ReplyOK(r, s)'
    BY <1>2, <2>4 DEF ReplyOK
  <2>7. PS!proposalBillingStatus(b) \in Billings
    BY <1>3, BillingStatusIn
  <2>8. /\ record[u].rfp => s = "approved"
        /\ ~record[u].rfp => s = PS!proposalBillingStatus(b)
    BY <2>1, <2>2, <2>3, StatusCases
  <2>9. s # "error"
    BY <1>3, <2>7, <2>8 DEF RecordT, Billings
  <2>10. PICK c : c = [status |-> s, record |-> e.record, vote |-> e.vote, count |-> Len(b)]
    OBVIOUS
  <2>11. EntryOK(u, c)
    <3>1. c.status = s /\ c.record = record[u] /\ c.vote = "approved" /\ c.count = Len(b)
      BY <2>1, <2>10
    <3>2. CASE record[u].rfp
      BY <2>4, <2>8, <3>1, <3>2 DEF EntryOK, StatusValues, Refetched, Billings, PS!statusIsFinal
    <3>3. CASE ~record[u].rfp
      <4>1. c.status \in Billings
        BY <2>7, <2>8, <3>1, <3>3
      <4>2. c.count <= Len(billing[u]) /\ c.status = PS!proposalBillingStatus(billing[u])
        <5>1. Len(b) \in Nat
          BY <1>3
        <5>2. PICK n \in Nat : n = Len(b)
          BY <5>1
        <5> QED
          BY <1>1, <2>8, <3>1, <3>3, <5>2
      <4> QED
        BY <2>1, <3>1, <3>3, <4>1, <4>2
        DEF EntryOK, StatusValues, Refetched, Billings, PS!statusIsFinal
    <3> QED
      BY <3>2, <3>3
  <2>12. EntryOK(u, c)'
    BY <1>2, <2>11, ProposalsSameStep
  <2>13. AtDetermine(r, u, e)'
    BY <1>7, <1>8, <2>5, <2>6, <2>9, <2>10, <2>12 DEF AtDetermine
  <2> QED
    BY <1>7, <1>8, <2>13 DEF ReadOK, AtRecord, AtVote, AtBilling, AtReply
<1>10. /\ \A t \in DOMAIN data : t \in Tokens /\ data[t] \in EntryT
       /\ \A t \in DOMAIN data : Clean(t) => EntryOK(t, data[t])
  BY DEF ReadTypes, CacheInv
<1>11. \A t \in Tokens, x \in EntryT :
         read'[r].step # "idle" /\ t = read'[r].token /\ x = read'[r].entry /\ Clean(t) =>
           ReadOK(r, t, x)'
  BY <1>7, <1>8, <1>9
<1>12. read'[r].token \in Tokens
       /\ \A t \in Tokens : t = read'[r].token => PS!TrueStatus(t) \in seen'[r]
  BY <1>2, <1>7, <1>8
<1>13. seen' \in [Readers -> SUBSET StatusValues] /\ IsFiniteSet(seen'[r])
  BY <1>2, <1>3
<1> QED
  BY <1>2, <1>7, <1>10, <1>11, <1>12, <1>13, ReadStep

\* What the cache holds after an entry was set: the entry, or one with its status.
LEMMA SetEntry ==
  ASSUME ReadTypes, NEW u \in Tokens, NEW c \in EntryT, PS!set(u, c), NEW t \in DOMAIN data'
  PROVE  (t \in DOMAIN data /\ data'[t] = data[t]) \/ (t = u /\ data'[t] = c)
<1>1. CASE u \in DOMAIN data
  <2>1. data' = data \/ data' = [data EXCEPT ![u] = c]
    BY <1>1 DEF PS!set
  <2> QED
    BY <1>1, <2>1
<1>2. CASE u \notin DOMAIN data
  <2>1. PICK evicted :
          data' = [v \in (DOMAIN data \ evicted) \cup {u} |-> IF v = u THEN c ELSE data[v]]
    BY <1>2 DEF PS!set
  <2> QED
    BY <2>1
<1> QED
  BY <1>1, <1>2

LEMMA DetermineStep ==
  ASSUME PSInv, NEW r \in Readers, PS!Determine(r)
  PROVE  PSInv'
<1> USE DEF PSInv
<1>1. PICK u, e, s : /\ u = read[r].token /\ e = read[r].entry
                     /\ s = PS!proposalStatus(e.record, e.vote, read[r].billing)
  OBVIOUS
<1>2. PICK a : a = IF s = "error" THEN "" ELSE s
  OBVIOUS
<1>3. /\ read[r].step = "determine" /\ seen' = seen /\ ProposalsSame
      /\ u \in Tokens /\ PS!TrueStatus(u) \in seen[r] /\ IsFiniteSet(seen[r])
  BY <1>1 DEF PS!Determine, PS!proposals, ProposalsSame, SeenInv
<1>4. /\ read \in [Readers -> ReadT] /\ seen \in [Readers -> SUBSET StatusValues]
      /\ read[r] \in ReadT /\ e \in EntryT /\ read[r].billing \in Seq(Billings)
  BY <1>1, <1>3 DEF ReadTypes, ReadT
<1>5. PICK c : c = [status |-> s, record |-> e.record, vote |-> e.vote,
                    count |-> Len(read[r].billing)]
  OBVIOUS
<1>6. IF s = "error" THEN data' = data ELSE PS!set(u, c)
  <2>1. e = [status |-> e.status, record |-> e.record, vote |-> e.vote, count |-> e.count]
    BY <1>4 DEF EntryT
  <2>2. PICK x : x = [status |-> s, record |-> e.record, vote |-> e.vote, count |-> e.count]
    OBVIOUS
  <2>3. [e EXCEPT !.status = s] = x
    BY <2>1, <2>2
  <2>4. [x EXCEPT !.count = Len(read[r].billing)] = c
    BY <1>5, <2>2
  <2>5. [e EXCEPT !.status = s, !.count = Len(read[r].billing)] = c
    BY <2>3, <2>4
  <2> QED
    BY <1>1, <2>5 DEF PS!Determine
<1>7. s \in StatusValues \cup {"error"}
  <2>1. PS!proposalBillingStatus(read[r].billing) \in Billings
    BY <1>4, BillingStatusIn
  <2> QED
    BY <1>1, <2>1 DEF PS!proposalStatus, StatusValues
<1>8. s # "error" => c \in EntryT
  <2>1. Len(read[r].billing) \in Nat
    BY <1>4
  <2> QED
    BY <1>4, <1>5, <1>7, <2>1 DEF EntryT
<1>9. PICK new : new = [step |-> "reply", token |-> u, entry |-> e,
                        billing |-> read[r].billing, reply |-> a]
  OBVIOUS
<1>10. read' = [read EXCEPT ![r] = new]
  <2>1. read' = [read EXCEPT ![r] = [read[r] EXCEPT !.step = "reply", !.reply = a]]
    BY <1>1, <1>2 DEF PS!Determine
  <2>2. read[r] = [step |-> read[r].step, token |-> read[r].token, entry |-> read[r].entry,
                   billing |-> read[r].billing, reply |-> read[r].reply]
    BY <1>4 DEF ReadT
  <2>3. PICK x : x = [step |-> "reply", token |-> u, entry |-> e,
                      billing |-> read[r].billing, reply |-> read[r].reply]
    OBVIOUS
  <2>4. [read[r] EXCEPT !.step = "reply"] = x
    BY <1>1, <2>2, <2>3
  <2>5. [x EXCEPT !.reply = a] = new
    BY <1>9, <2>3
  <2> QED
    BY <2>1, <2>4, <2>5
<1>11. a \in StatusValues \cup {PS!None, ""}
  BY <1>2, <1>7
<1>12. new \in ReadT
  BY <1>1, <1>4, <1>9, <1>11 DEF ReadT
<1>13. /\ read' \in [Readers -> ReadT] /\ read'[r] = new /\ seen'[r] = seen[r]
       /\ \A q \in Readers \ {r} : read'[q] = read[q] /\ seen'[q] = seen[q]
  BY <1>3, <1>4, <1>10, <1>12
<1>14. new.step = "reply" /\ new.token = u /\ new.entry = e /\ new.reply = a
  BY <1>9
<1>15. ASSUME Clean(u)
       PROVE  ReplyOK(r, a) /\ (s # "error" => EntryOK(u, c))
  <2>1. AtDetermine(r, u, e)
    BY <1>1, <1>3, <1>4, <1>15 DEF ReadInv, ReadOK
  <2>2. Determined(r) = s
    BY <1>1 DEF Determined
  <2> QED
    BY <1>2, <1>3, <1>5, <2>1, <2>2 DEF AtDetermine
<1>16. ASSUME Clean(u) PROVE ReadOK(r, u, e)'
  <2>1. ReplyOK(r, a)'
    BY <1>3, <1>15, <1>16 DEF ReplyOK
  <2>2. AtReply(r)'
    BY <1>13, <1>14, <2>1 DEF AtReply, ReplyOK
  <2> QED
    BY <1>13, <1>14, <2>2 DEF ReadOK, AtRecord, AtVote, AtBilling, AtDetermine
<1>17. \A t \in DOMAIN data' :
         (t \in DOMAIN data /\ data'[t] = data[t]) \/ (s # "error" /\ t = u /\ data'[t] = c)
  BY <1>3, <1>6, <1>8, SetEntry
<1>18. /\ \A t \in DOMAIN data' : t \in Tokens /\ data'[t] \in EntryT
       /\ \A t \in DOMAIN data' : Clean(t) => EntryOK(t, data'[t])
  BY <1>3, <1>8, <1>15, <1>17 DEF ReadTypes, CacheInv
<1>19. \A t \in Tokens, x \in EntryT :
         read'[r].step # "idle" /\ t = read'[r].token /\ x = read'[r].entry /\ Clean(t) =>
           ReadOK(r, t, x)'
  BY <1>13, <1>14, <1>16
<1>20. read'[r].token \in Tokens
       /\ \A t \in Tokens : t = read'[r].token => PS!TrueStatus(t) \in seen'[r]
  BY <1>3, <1>13, <1>14
<1>21. seen' \in [Readers -> SUBSET StatusValues] /\ IsFiniteSet(seen'[r])
  BY <1>3, <1>4
<1> QED
  BY <1>3, <1>13, <1>18, <1>19, <1>20, <1>21, ReadStep

LEMMA ReplyStep ==
  ASSUME PSInv, NEW r \in Readers, PS!Reply(r)
  PROVE  PSInv'
<1> USE DEF PSInv
<1>1. /\ read' = [read EXCEPT ![r] = PS!NoRead] /\ seen' = [seen EXCEPT ![r] = {}]
      /\ data' = data /\ ProposalsSame
  BY DEF PS!Reply, PS!proposals, ProposalsSame
<1>2. PS!NoRead \in ReadT /\ PS!NoRead.step = "idle"
  <2>1. << >> \in Seq(Billings)
    OBVIOUS
  <2> QED
    BY <2>1, NoDataOK DEF PS!NoRead, ReadT
<1>3. read \in [Readers -> ReadT] /\ seen \in [Readers -> SUBSET StatusValues]
  BY DEF ReadTypes
<1>4. /\ read' \in [Readers -> ReadT] /\ seen' \in [Readers -> SUBSET StatusValues]
      /\ read'[r].step = "idle" /\ seen'[r] = {}
      /\ \A q \in Readers \ {r} : read'[q] = read[q] /\ seen'[q] = seen[q]
  BY <1>1, <1>2, <1>3
<1>5. IsFiniteSet(seen'[r])
  BY <1>4, FS_EmptySet
<1>6. /\ \A t \in DOMAIN data' : t \in Tokens /\ data'[t] \in EntryT
      /\ \A t \in DOMAIN data' : Clean(t) => EntryOK(t, data'[t])
  BY <1>1 DEF ReadTypes, CacheInv
<1> QED
  BY <1>1, <1>4, <1>5, <1>6, ReadStep

LEMMA PSInit ==
  ASSUME PS!ConstantsAssumption, PS!Init
  PROVE  PSInv
<1>1. << >> \in Seq(Billings)
  OBVIOUS
<1>2. ProposalTypes
  BY <1>1 DEF PS!Init, ProposalTypes, RecordT, PropVoteStatuses
<1>3. PS!NoRead \in ReadT /\ PS!NoRead.step = "idle"
  BY <1>1, NoDataOK DEF PS!NoRead, ReadT
<1>4. DOMAIN data = {} /\ \A r \in Readers : read[r] = PS!NoRead /\ seen[r] = {}
  BY DEF PS!Init
<1>5. ReadTypes
  BY <1>3, <1>4 DEF PS!Init, ReadTypes
<1>6. ProposalInv
  <2>1. PS!ConstantsAssumption => BillingStatusChangesMax \in Nat
    BY DEF PS!ConstantsAssumption
  <2> QED
    BY <2>1 DEF PS!Init, ProposalInv, PS!Ended, VoteHasStarted
<1>7. CacheInv
  BY <1>4 DEF CacheInv
<1>8. ReadInv
  BY <1>3, <1>4 DEF ReadInv
<1>9. SeenInv
  BY <1>3, <1>4, FS_EmptySet DEF SeenInv
<1> QED
  BY <1>2, <1>5, <1>6, <1>7, <1>8, <1>9 DEF PSInv

LEMMA PSStutter == PSInv /\ UNCHANGED PS!vars => PSInv'
<1> SUFFICES ASSUME PSInv, UNCHANGED PS!vars PROVE PSInv'
  OBVIOUS
<1>1. /\ record' = record /\ vote' = vote /\ decided' = decided /\ billing' = billing
      /\ data' = data /\ read' = read /\ seen' = seen /\ buried' = buried /\ raced' = raced
  BY DEF PS!vars, PS!proposals
<1>2. ProposalTypes' /\ ReadTypes' /\ ProposalInv' /\ SeenInv'
  <2>1. ProposalTypes' /\ ReadTypes'
    BY <1>1 DEF PSInv, ProposalTypes, ReadTypes
  <2>2. ProposalInv'
    BY <1>1 DEF PSInv, ProposalInv, VoteHasStarted, PS!Ended
  <2>3. SeenInv'
    BY <1>1 DEF PSInv, SeenInv, PS!TrueStatus, PS!voteSummary
  <2> QED
    BY <2>1, <2>2, <2>3
<1>3. \A t, e : EntryOK(t, e)' <=> EntryOK(t, e)
  BY <1>1 DEF EntryOK, PS!TrueStatus, PS!voteSummary, VoteHasStarted
<1>4. CacheInv'
  <2> SUFFICES ASSUME NEW t \in DOMAIN data', Clean(t)' PROVE EntryOK(t, data[t])'
    BY DEF CacheInv
  <2>1. EntryOK(t, data[t])
    BY <1>1 DEF PSInv, CacheInv, Clean
  <2> QED
    BY <1>1, <2>1 DEF EntryOK, PS!TrueStatus, PS!voteSummary, VoteHasStarted
<1>5. ReadInv'
  <2> SUFFICES ASSUME NEW r \in Readers, NEW t \in Tokens, NEW e \in EntryT,
                      read'[r].step # "idle", t = read'[r].token, e = read'[r].entry, Clean(t)'
               PROVE  ReadOK(r, t, e)'
    BY DEF ReadInv
  <2>1. ReadOK(r, t, e)
    BY <1>1 DEF PSInv, ReadInv, Clean
  <2>2. /\ AtRecord(r, t, e)' /\ AtBilling(r, t, e)' /\ AtReply(r)'
    BY <1>1, <2>1 DEF ReadOK, AtRecord, AtBilling, AtReply, ReplyOK
  <2>3. AtVote(r, t, e)'
    BY <1>1, <1>3, <2>1 DEF ReadOK, AtVote, Fetched
  <2>4. AtDetermine(r, t, e)'
    <3>1. /\ Determined(r)' = Determined(r) /\ read'[r] = read[r] /\ seen'[r] = seen[r]
      BY <1>1 DEF Determined
    <3>2. AtDetermine(r, t, e)
      BY <2>1 DEF ReadOK
    <3> QED
      BY <1>3, <3>1, <3>2 DEF AtDetermine, ReplyOK
  <2> QED
    BY <2>2, <2>3, <2>4 DEF ReadOK
<1> QED
  BY <1>2, <1>4, <1>5 DEF PSInv

LEMMA PSNext ==
  ASSUME PS!ConstantsAssumption, BillingStatusChangesMax > 0, PSInv, [PS!Next]_(PS!vars)
  PROVE  PSInv'
<1>1. BillingStatusChangesMax \in Nat \ {0} /\ Idle \subseteq Tokens
  BY DEF PS!ConstantsAssumption
<1>2. ASSUME NEW r \in Readers, NEW t \in Tokens, PS!Begin(r, t) PROVE PSInv'
  BY <1>2, BeginStep
<1>3. ASSUME NEW r \in Readers, PS!GetRecord(r) PROVE PSInv'
  BY <1>3, GetRecordStep
<1>4. ASSUME NEW r \in Readers, PS!GetVote(r) PROVE PSInv'
  BY <1>1, <1>4, GetVoteStep
<1>5. ASSUME NEW r \in Readers, PS!GetBilling(r) PROVE PSInv'
  BY <1>5, GetBillingStep
<1>6. ASSUME NEW r \in Readers, PS!Determine(r) PROVE PSInv'
  BY <1>6, DetermineStep
<1>7. ASSUME NEW r \in Readers, PS!Reply(r) PROVE PSInv'
  BY <1>7, ReplyStep
<1>8. ASSUME NEW t \in Tokens, NEW s \in {"public", "archived", "censored"},
             PS!RecordSetStatus(t, s)
      PROVE  PSInv'
  BY <1>8, RecordSetStatusStep
<1>9. ASSUME NEW t \in Tokens, PS!RecordEdit(t) PROVE PSInv'
  BY <1>9, RecordEditStep
<1>10. ASSUME NEW t \in Tokens, PS!VoteChanges(t) PROVE PSInv'
  BY <1>10, VoteChangesStep
<1>11. ASSUME NEW t \in Tokens, NEW s \in BillingStatuses, PS!cmdSetBillingStatus(t, s)
       PROVE  PSInv'
  BY <1>11, SetBillingStatusStep
<1>12. CASE UNCHANGED PS!vars
  BY <1>12, PSStutter
<1> QED
  BY <1>2, <1>3, <1>4, <1>5, <1>6, <1>7, <1>8, <1>9, <1>10, <1>11, <1>12 DEF PS!Next

LEMMA PSInvReplies == PSInv => RepliesWereTrue
<1> SUFFICES ASSUME PSInv, NEW r \in Readers, read[r].step = "reply",
                    read[r].token \notin buried \cup raced
             PROVE  \/ read[r].reply \in seen[r]
                    \/ (read[r].reply = "" /\ Cardinality(seen[r]) > 1)
  BY DEF RepliesWereTrue
<1>1. PICK t, e : t = read[r].token /\ e = read[r].entry
  OBVIOUS
<1>2. t \in Tokens /\ e \in EntryT /\ Clean(t)
  BY <1>1 DEF PSInv, SeenInv, ReadTypes, ReadT, Clean
<1>3. AtReply(r)
  BY <1>1, <1>2 DEF PSInv, ReadInv, ReadOK
<1> QED
  BY <1>3 DEF AtReply, ReplyOK

\* Whatever happens to the proposals while their statuses are read and cached, a reply of
\* cmdSummary is a status that the proposal has had since the request came, or empty when
\* the status changed meanwhile, as long as the record was not archived or censored once
\* the vote had started, nor edited during a read (getProposalStatus, statusescache.go).
\* The setting for the number of billing status changes is not 0: with 0 the code takes
\* every approved proposal for one whose last billing status is cached.
THEOREM ReplyTheorem ==
  ASSUME PS!ConstantsAssumption, BillingStatusChangesMax > 0
  PROVE  PS!Spec => []RepliesWereTrue
<1>1. PSInv /\ [PS!Next]_(PS!vars) => PSInv'
  BY PSNext
<1>2. PS!Init => PSInv
  BY PSInit
<1> QED
  BY <1>1, <1>2, PSInvReplies, PTL DEF PS!Spec
=============================================================================
