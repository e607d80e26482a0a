------------------------------- MODULE Anchor -------------------------------
(***************************************************************************)
(* Anchoring and freezing of trillian trees (tstore/anchor.go, freeze.go).  *)
(* The hourly cron job and the fsck at startup time stamp the current root  *)
(* of every tree with unanchored leaves.  A goroutine polls dcrtime until   *)
(* the time stamps are confirmed and then appends an anchor leaf to every   *)
(* tree; meanwhile records keep changing.  Right after starting a drop, the *)
(* same job freezes the trees whose record is frozen and whose last leaf is *)
(* an anchor.                                                               *)
(***************************************************************************)
EXTENDS Naturals, Sequences, FiniteSets

CONSTANTS
  Trees,       \* the trillian trees
  Jobs,        \* the callers of anchorTrees: "cron", "fsck"
  Goroutines,  \* the anchorWait goroutines, a bound on how many run at once
  MaxUpdates,  \* bound: record updates per tree
  MaxFaults    \* bound: failed calls and restarts of politeiad

ASSUME ConstantsAssumption ==
  /\ Jobs \subseteq {"cron", "fsck"}
  /\ IsFiniteSet(Goroutines)
  /\ MaxUpdates \in Nat /\ MaxFaults \in Nat

VARIABLES
  leaves,          \* the leaves of each tree, in order
  treeState,       \* the state of each tree in trillian
  droppingAnchor,  \* the flag that keeps anchor drops from overlapping
  job,             \* what each caller of anchorTrees is doing
  wait,            \* what each anchorWait goroutine is doing, and for which caller
  submitted,       \* the roots that dcrtime was asked to time stamp
  confirmed,       \* the roots whose time stamp has enough confirmations
  faults

vars == <<leaves, treeState, droppingAnchor, job, wait, submitted, confirmed, faults>>

\* A record update, the index that freezes the record, or an anchor with the tree
\* size that it time stamps.
Data == [desc |-> "data", size |-> 0]
FrozenIndex == [desc |-> "frozen", size |-> 0]
AnchorLeaf(n) == [desc |-> "anchor", size |-> n]

\* A drop maps each tree that takes part in it to the tree size to be anchored.
NoDrop == [t \in {} |-> 0]
Idle == [pc |-> "idle", drop |-> NoDrop]
NotRunning == [pc |-> "idle", drop |-> NoDrop, by |-> "none"]

Init ==
  /\ leaves = [t \in Trees |-> << >>]
  /\ treeState = [t \in Trees |-> "active"]
  /\ droppingAnchor = FALSE
  /\ job = [j \in Jobs |-> Idle]
  /\ wait = [g \in Goroutines |-> NotRunning]
  /\ submitted = {} /\ confirmed = {}
  /\ faults = 0

-----------------------------------------------------------------------------
(* Record updates, which hold the record lock but none that anchoring holds. *)

Count(t, d) == Cardinality({i \in DOMAIN leaves[t] : leaves[t][i].desc = d})
RecordFrozen(t) == Count(t, "frozen") > 0

LeavesAppend(t, l) ==
  /\ treeState[t] = "active"
  /\ leaves' = [leaves EXCEPT ![t] = Append(@, l)]

RecordUpdate(t) ==
  /\ ~RecordFrozen(t) /\ Count(t, "data") < MaxUpdates
  /\ LeavesAppend(t, Data)
  /\ UNCHANGED <<treeState, droppingAnchor, job, wait, submitted, confirmed, faults>>

RecordFreeze(t) ==
  /\ ~RecordFrozen(t) /\ Count(t, "data") > 0
  /\ LeavesAppend(t, FrozenIndex)
  /\ UNCHANGED <<treeState, droppingAnchor, job, wait, submitted, confirmed, faults>>

-----------------------------------------------------------------------------
(* anchorTrees. *)

Anchors(t) == {i \in DOMAIN leaves[t] : leaves[t][i].desc = "anchor"}

\* The anchor leaf that is closest to the end of the tree.
LastAnchor(t) == CHOOSE i \in Anchors(t) : \A k \in Anchors(t) : k <= i
anchorLatest(t) == leaves[t][LastAnchor(t)].size

\* Mutant: a tree that has an anchor is never anchored again.
NeedsAnchorOnce(t) == Anchors(t) = {} /\ leaves[t] # << >>

NeedsAnchor(t) ==
  IF Anchors(t) = {} THEN leaves[t] # << >>
                     ELSE anchorLatest(t) # Len(leaves[t]) - 1

\* anchorTrees skips this period if a drop is under way.  The cron job runs once
\* an hour: the goroutine of the run before has at least set the flag by then.
AnchorTrees(j) ==
  /\ job[j].pc = "idle"
  /\ \A g \in Goroutines : wait[g].by = j => wait[g].pc \notin {"start", "set"}
  /\ job' = [job EXCEPT ![j].pc = IF droppingAnchor THEN "freeze" ELSE "scan"]
  /\ UNCHANGED <<leaves, treeState, droppingAnchor, wait, submitted, confirmed, faults>>

\* The trees to anchor, frozen ones included, at their current size.
Scan(j) ==
  /\ job[j].pc = "scan"
  /\ LET todo == {t \in Trees : NeedsAnchor(t)} IN
     job' = [job EXCEPT ![j] =
               IF todo = {} THEN [pc |-> "freeze", drop |-> NoDrop]
               ELSE [pc |-> "submit", drop |-> [t \in todo |-> Len(leaves[t])]]]
  /\ UNCHANGED <<leaves, treeState, droppingAnchor, wait, submitted, confirmed, faults>>

Roots(drop) == {<<t, drop[t]>> : t \in DOMAIN drop}

\* timestampBatch succeeds, also for roots submitted before, and a goroutine is
\* launched.
Submit(j) ==
  /\ job[j].pc = "submit"
  /\ submitted' = submitted \cup Roots(job[j].drop)
  /\ \E g \in Goroutines :
       /\ wait[g] = NotRunning
       /\ wait' = [wait EXCEPT ![g] = [pc |-> "start", drop |-> job[j].drop, by |-> j]]
  /\ job' = [job EXCEPT ![j] = [pc |-> "freeze", drop |-> NoDrop]]
  /\ UNCHANGED <<leaves, treeState, droppingAnchor, confirmed, faults>>

\* timestampBatch fails for some digests or altogether; dcrtime may have taken any
\* of them.  A failed read of a tree ends the scan the same way.
AnchorTreesError(j) ==
  /\ job[j].pc \in {"scan", "submit"} /\ faults < MaxFaults
  /\ \E sent \in SUBSET Roots(job[j].drop) : submitted' = submitted \cup sent
  /\ job' = [job EXCEPT ![j] = [pc |-> "freeze", drop |-> NoDrop]]
  /\ faults' = faults + 1
  /\ UNCHANGED <<leaves, treeState, droppingAnchor, wait, confirmed>>

treeShouldBeFrozen(t) ==
  /\ treeState[t] = "active"
  /\ leaves[t] # << >>
  /\ RecordFrozen(t)
  /\ leaves[t][Len(leaves[t])].desc = "anchor"

\* The fsck runs once, when politeiad starts.
Finish(j) == job' = [job EXCEPT ![j] = IF j = "fsck" THEN [@ EXCEPT !.pc = "done"] ELSE Idle]

TreesFreeze(T) == treeState' = [t \in Trees |-> IF t \in T THEN "frozen" ELSE treeState[t]]

freezeTrees(j) ==
  /\ job[j].pc = "freeze"
  /\ TreesFreeze({t \in Trees : treeShouldBeFrozen(t)})
  /\ Finish(j)
  /\ UNCHANGED <<leaves, droppingAnchor, wait, submitted, confirmed, faults>>

\* A failed call skips a tree or ends the loop.
FreezeError(j) ==
  /\ job[j].pc = "freeze" /\ faults < MaxFaults
  /\ \E T \in SUBSET {t \in Trees : treeShouldBeFrozen(t)} : TreesFreeze(T)
  /\ Finish(j)
  /\ faults' = faults + 1
  /\ UNCHANGED <<leaves, droppingAnchor, wait, submitted, confirmed>>

-----------------------------------------------------------------------------
(* anchorWait. *)

\* The flag is checked and set under two separate locks.
WaitStart(g) ==
  /\ wait[g].pc = "start"
  /\ wait' = [wait EXCEPT ![g] = IF droppingAnchor THEN NotRunning
                                 ELSE [@ EXCEPT !.pc = "set"]]
  /\ UNCHANGED <<leaves, treeState, droppingAnchor, job, submitted, confirmed, faults>>

WaitSet(g) ==
  /\ wait[g].pc = "set"
  /\ droppingAnchor' = TRUE
  /\ wait' = [wait EXCEPT ![g].pc = "poll"]
  /\ UNCHANGED <<leaves, treeState, job, submitted, confirmed, faults>>

\* Mutant: one confirmed digest is taken for all of them.
PollAny(g) ==
  /\ wait[g].pc = "poll"
  /\ Roots(wait[g].drop) \cap confirmed # {}
  /\ wait' = [wait EXCEPT ![g].pc = "save"]
  /\ UNCHANGED <<leaves, treeState, droppingAnchor, job, submitted, confirmed, faults>>

\* verifyBatch has the chain time stamp of all digests of the drop.
Poll(g) ==
  /\ wait[g].pc = "poll"
  /\ Roots(wait[g].drop) \subseteq confirmed
  /\ wait' = [wait EXCEPT ![g].pc = "save"]
  /\ UNCHANGED <<leaves, treeState, droppingAnchor, job, submitted, confirmed, faults>>

\* Mutant: the flag is not cleared when the drop fails.
PollErrorKeepsFlag(g) ==
  /\ wait[g].pc = "poll" /\ faults < MaxFaults
  /\ wait' = [wait EXCEPT ![g] = NotRunning]
  /\ faults' = faults + 1
  /\ UNCHANGED <<leaves, treeState, droppingAnchor, job, submitted, confirmed>>

\* verifyBatch fails, or a time stamp is not confirmed within three hours.
PollError(g) ==
  /\ wait[g].pc = "poll" /\ faults < MaxFaults
  /\ droppingAnchor' = FALSE
  /\ wait' = [wait EXCEPT ![g] = NotRunning]
  /\ faults' = faults + 1
  /\ UNCHANGED <<leaves, treeState, job, submitted, confirmed>>

Without(drop, t) == [u \in DOMAIN drop \ {t} |-> drop[u]]

\* Trillian refuses a leaf that exists already and a frozen tree; the error is
\* logged and the drop goes on with the next tree.
anchorSave(g, t) ==
  /\ wait[g].pc = "save" /\ t \in DOMAIN wait[g].drop
  /\ LET l == AnchorLeaf(wait[g].drop[t]) IN
     IF treeState[t] = "active" /\ \A i \in DOMAIN leaves[t] : leaves[t][i] # l
       THEN LeavesAppend(t, l)
       ELSE UNCHANGED leaves
  /\ wait' = [wait EXCEPT ![g].drop = Without(@, t)]
  /\ UNCHANGED <<treeState, droppingAnchor, job, submitted, confirmed, faults>>

AnchorSaveError(g, t) ==
  /\ wait[g].pc = "save" /\ t \in DOMAIN wait[g].drop /\ faults < MaxFaults
  /\ wait' = [wait EXCEPT ![g].drop = Without(@, t)]
  /\ faults' = faults + 1
  /\ UNCHANGED <<leaves, treeState, droppingAnchor, job, submitted, confirmed>>

WaitDone(g) ==
  /\ wait[g].pc = "save" /\ wait[g].drop = NoDrop
  /\ droppingAnchor' = FALSE
  /\ wait' = [wait EXCEPT ![g] = NotRunning]
  /\ UNCHANGED <<leaves, treeState, job, submitted, confirmed, faults>>

-----------------------------------------------------------------------------
(* The environment. *)

\* The dcrtime transaction of a submitted root gets its confirmations.
Confirm ==
  /\ confirmed # submitted
  /\ \E r \in submitted \ confirmed : confirmed' = confirmed \cup {r}
  /\ UNCHANGED <<leaves, treeState, droppingAnchor, job, wait, submitted, faults>>

\* The flag and all goroutines are lost; the cron job and the fsck start over.
Restart ==
  /\ faults < MaxFaults
  /\ droppingAnchor' = FALSE
  /\ job' = [j \in Jobs |-> Idle]
  /\ wait' = [g \in Goroutines |-> NotRunning]
  /\ faults' = faults + 1
  /\ UNCHANGED <<leaves, treeState, submitted, confirmed>>

JobStep(j) == AnchorTrees(j) \/ Scan(j) \/ Submit(j) \/ freezeTrees(j)
WaitStep(g) ==
  \/ WaitStart(g) \/ WaitSet(g) \/ Poll(g) \/ WaitDone(g)
  \/ \E t \in Trees : anchorSave(g, t)

Next ==
  \/ \E t \in Trees : RecordUpdate(t) \/ RecordFreeze(t)
  \/ \E j \in Jobs : JobStep(j) \/ AnchorTreesError(j) \/ FreezeError(j)
  \/ \E g \in Goroutines : WaitStep(g) \/ PollError(g)
  \/ \E g \in Goroutines, t \in Trees : AnchorSaveError(g, t)
  \/ Confirm
  \/ Restart

\* The cron job never stops, goroutines run, and dcrtime confirms in the end.
Fairness ==
  /\ \A j \in Jobs : WF_vars(JobStep(j))
  /\ \A g \in Goroutines : WF_vars(WaitStep(g))
  /\ WF_vars(Confirm)

Spec == Init /\ [][Next]_vars /\ Fairness

-----------------------------------------------------------------------------
(* Reading time stamps. *)

\* Mutant: only the first anchor is looked at.
FirstOnly(t, i) ==
  {k \in Anchors(t) : k >= i /\ \A m \in Anchors(t) : i <= m => k <= m}

\* The first two anchors at or after leaf i; the first of them that includes it.
FirstTwo(t, i) ==
  {k \in Anchors(t) : k >= i /\ Cardinality({m \in Anchors(t) : i <= m /\ m < k}) < 2}
anchorForLeaf(t, i) == {k \in FirstTwo(t, i) : i <= leaves[t][k].size}

\* The leaves that clients ask time stamps for.
Content(t) == DOMAIN leaves[t] \ Anchors(t)

-----------------------------------------------------------------------------
(* Properties. *)

\* An anchor in a tree is a confirmed time stamp of an earlier size of that tree:
\* it is saved only once dcrtime has returned the chain time stamp.
AnchorsAreConfirmed ==
  \A t \in Trees : \A i \in Anchors(t) :
    leaves[t][i].size < i /\ <<t, leaves[t][i].size>> \in confirmed

\* "If the leaf was added in the middle of an anchor drop then it will not be part
\* of the first anchor. It will be part of the second anchor" (anchor.go:95-98):
\* content that some anchor includes is reported as anchored.
AnchorIsFound ==
  \A t \in Trees : \A i \in Content(t) :
    (\E k \in Anchors(t) : i < k /\ i <= leaves[t][k].size) => anchorForLeaf(t, i) # {}

\* Every record update is time stamped in the end, unless the tree is frozen.
LeavesGetAnchored ==
  \A t \in Trees : \A i \in 1..(2 * MaxUpdates + 1) :
    (i \in Content(t)) ~> (anchorForLeaf(t, i) # {} \/ treeState[t] = "frozen")

\* The tree of a frozen record is frozen in the end, so that the log signer stops
\* polling it (freeze.go:17-20).
RecordsGetFrozen ==
  \A t \in Trees : RecordFrozen(t) ~> treeState[t] = "frozen"

=============================================================================
