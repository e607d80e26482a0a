---------------------------- MODULE Anchor_proofs ----------------------------
(***************************************************************************)
(* Proofs about Anchor, for any trees, callers of anchorTrees, number of    *)
(* goroutines, updates and faults; and about Inventory, for any records,    *)
(* settings of the fsck option, saves and crashes.                          *)
(***************************************************************************)
EXTENDS Anchor, InventoryFiles, FiniteSetTheorems, SequenceTheorems, WellFoundedInduction, TLAPS

-----------------------------------------------------------------------------
(* The inductive invariant. *)

Leaf == [desc : {"data", "frozen", "anchor"}, size : Nat]
Logs == [Trees -> Seq(Leaf)]

\* A drop names sizes that the trees have had: they only grow.
DropOk(d, L) ==
    /\ DOMAIN d \subseteq Trees
    /\ \A t \in DOMAIN d : d[t] \in Nat /\ d[t] <= Len(L[t])

JobOk(x, L) == x = [pc |-> x.pc, drop |-> x.drop] /\ DropOk(x.drop, L)

\* A goroutine that saves anchors has the chain time stamp of each.
WaitOk(x, L, C) ==
    /\ x = [pc |-> x.pc, drop |-> x.drop, by |-> x.by]
    /\ DropOk(x.drop, L)
    /\ x.pc = "save" => Roots(x.drop) \subseteq C

\* AnchorsAreConfirmed of trees L.
AnchorsOk(L, C) ==
    \A t \in Trees : \A i \in 1..Len(L[t]) :
        L[t][i].desc = "anchor" => L[t][i].size < i /\ <<t, L[t][i].size>> \in C

JobsOk(jobs, L) == jobs = [j \in Jobs |-> jobs[j]] /\ \A j \in Jobs : JobOk(jobs[j], L)
WaitsOk(waits, L, C) ==
    /\ waits = [g \in Goroutines |-> waits[g]]
    /\ \A g \in Goroutines : WaitOk(waits[g], L, C)

AInv ==
    /\ leaves \in Logs
    /\ JobsOk(job, leaves)
    /\ WaitsOk(wait, leaves, confirmed)
    /\ AnchorsOk(leaves, confirmed)

-----------------------------------------------------------------------------
(* Trees. *)

Longer(L, M) == \A t \in Trees : Len(L[t]) \in Nat /\ Len(M[t]) \in Nat /\ Len(L[t]) <= Len(M[t])

LEMMA DropsStay ==
  ASSUME NEW L, NEW M, Longer(L, M), NEW C, NEW D, C \subseteq D
  PROVE  /\ \A jobs : JobsOk(jobs, L) => JobsOk(jobs, M)
         /\ \A waits : WaitsOk(waits, L, C) => WaitsOk(waits, M, D)
<1>1. ASSUME NEW d, DropOk(d, L)
      PROVE  DropOk(d, M)
  BY <1>1 DEF DropOk, Longer
<1>2. ASSUME NEW x, JobOk(x, L)
      PROVE  JobOk(x, M)
  BY <1>1, <1>2 DEF JobOk
<1>3. ASSUME NEW x, WaitOk(x, L, C)
      PROVE  WaitOk(x, M, D)
  BY <1>1, <1>3 DEF WaitOk
<1> QED
  BY <1>2, <1>3 DEF JobsOk, WaitsOk

LEMMA AppendLeaf ==
  ASSUME NEW L \in Logs, NEW C, AnchorsOk(L, C), NEW t \in Trees, NEW l \in Leaf,
         l.desc = "anchor" => l.size <= Len(L[t]) /\ <<t, l.size>> \in C
  PROVE  LET M == [L EXCEPT ![t] = Append(@, l)]
         IN  M \in Logs /\ AnchorsOk(M, C) /\ Longer(L, M)
<1> DEFINE s == Append(L[t], l)
           M == [L EXCEPT ![t] = s]
<1>1. \A u \in Trees : L[u] \in Seq(Leaf) /\ Len(L[u]) \in Nat
  BY DEF Logs
<1>2. /\ s \in Seq(Leaf) /\ Len(s) = Len(L[t]) + 1 /\ s[Len(s)] = l
      /\ \A i \in 1..Len(L[t]) : s[i] = L[t][i]
  BY <1>1
<1> HIDE DEF s
<1>3. M \in Logs
  BY <1>2 DEF Logs
<1>4. M[t] = s /\ \A u \in Trees \ {t} : M[u] = L[u]
  BY DEF Logs
<1> HIDE DEF M
<1>5. Longer(L, M)
  BY <1>1, <1>2, <1>4 DEF Longer
<1>6. AnchorsOk(M, C)
  <2> SUFFICES ASSUME NEW u \in Trees, NEW i \in 1..Len(M[u]), M[u][i].desc = "anchor"
               PROVE  M[u][i].size < i /\ <<u, M[u][i].size>> \in C
    BY DEF AnchorsOk
  <2>1. CASE u # t
    BY <2>1, <1>4 DEF AnchorsOk
  <2>2. CASE u = t /\ i \in 1..Len(L[t])
    BY <2>2, <1>2, <1>4 DEF AnchorsOk
  <2>3. CASE u = t /\ i = Len(L[t]) + 1
    <3>1. l.size \in Nat /\ Len(L[t]) \in Nat
      BY <1>1 DEF Leaf
    <3>2. M[u][i] = l
      BY <2>3, <1>2, <1>4
    <3> QED
      BY <2>3, <3>1, <3>2
  <2> QED
    BY <2>1, <2>2, <2>3, <1>1, <1>2, <1>4
<1> QED
  BY <1>3, <1>5, <1>6 DEF M, s

LEMMA Itself ==
  ASSUME AInv
  PROVE  Longer(leaves, leaves)
BY DEF AInv, Logs, Longer

-----------------------------------------------------------------------------
(* Steps. *)

\* A step that leaves trees and time stamps alone.
LEMMA Conclude ==
  ASSUME AInv, leaves' = leaves, confirmed' = confirmed, JobsOk(job', leaves),
         WaitsOk(wait', leaves, confirmed)
  PROVE  AInv'
BY DEF AInv

\* A leaf is appended.
LEMMA Appends ==
  ASSUME AInv, confirmed' = confirmed, NEW t \in Trees, NEW l \in Leaf, LeavesAppend(t, l),
         l.desc = "anchor" => l.size <= Len(leaves[t]) /\ <<t, l.size>> \in confirmed,
         JobsOk(job', leaves), WaitsOk(wait', leaves, confirmed)
  PROVE  AInv'
<1> DEFINE M == [leaves EXCEPT ![t] = Append(@, l)]
<1>1. leaves' = M
  BY DEF LeavesAppend
<1>2. M \in Logs /\ AnchorsOk(M, confirmed) /\ Longer(leaves, M)
  BY AppendLeaf DEF AInv
<1> HIDE DEF M
<1>3. JobsOk(job', M) /\ WaitsOk(wait', M, confirmed)
  BY <1>2, DropsStay
<1> QED
  BY <1>1, <1>2, <1>3 DEF AInv

LEMMA UpdateSteps ==
  ASSUME AInv, NEW t \in Trees, RecordUpdate(t) \/ RecordFreeze(t)
  PROVE  AInv'
<1>1. /\ LeavesAppend(t, Data) \/ LeavesAppend(t, FrozenIndex)
      /\ confirmed' = confirmed /\ job' = job /\ wait' = wait
  BY DEF RecordUpdate, RecordFreeze
<1>2. /\ Data \in Leaf /\ Data.desc # "anchor"
      /\ FrozenIndex \in Leaf /\ FrozenIndex.desc # "anchor"
  BY DEF Data, FrozenIndex, Leaf
<1> QED
  BY <1>1, <1>2, Appends DEF AInv

LEMMA OneJob ==
  ASSUME AInv, NEW j, NEW x, JobOk(x, leaves), NEW jobs, jobs = [job EXCEPT ![j] = x]
  PROVE  JobsOk(jobs, leaves)
BY DEF AInv, JobsOk

LEMMA OneWait ==
  ASSUME AInv, NEW g, NEW x, WaitOk(x, leaves, confirmed), NEW waits,
         waits = [wait EXCEPT ![g] = x]
  PROVE  WaitsOk(waits, leaves, confirmed)
BY DEF AInv, WaitsOk

LEMMA NothingToDrop ==
  ASSUME NEW pc
  PROVE  /\ JobOk([pc |-> pc, drop |-> NoDrop], leaves) /\ JobOk(Idle, leaves)
         /\ WaitOk(NotRunning, leaves, confirmed)
BY DEF JobOk, WaitOk, DropOk, NoDrop, Idle, NotRunning

LEMMA JobSteps ==
  ASSUME AInv, NEW j \in Jobs, JobStep(j) \/ AnchorTreesError(j) \/ FreezeError(j)
  PROVE  AInv'
<1>1. JobOk(job[j], leaves) /\ \A t \in Trees : Len(leaves[t]) \in Nat
  BY DEF AInv, JobsOk, Logs
<1>2. leaves' = leaves /\ confirmed' = confirmed
  BY DEF JobStep, AnchorTrees, Scan, Submit, freezeTrees, AnchorTreesError, FreezeError
<1>3. WaitsOk(wait, leaves, confirmed)
  BY DEF AInv
<1>4. CASE wait' = wait /\ \E x : JobOk(x, leaves) /\ job' = [job EXCEPT ![j] = x]
  <2>1. JobsOk(job', leaves)
    BY <1>4, OneJob
  <2> QED
    BY <1>2, <1>3, <1>4, <2>1, Conclude
<1>5. CASE AnchorTrees(j)
  <2>1. \E pc : job' = [job EXCEPT ![j].pc = pc] /\ wait' = wait
    BY <1>5 DEF AnchorTrees
  <2>2. PICK pc : job' = [job EXCEPT ![j].pc = pc] /\ wait' = wait
    BY <2>1
  <2> DEFINE x == [pc |-> pc, drop |-> job[j].drop]
  <2>3. [job[j] EXCEPT !.pc = pc] = x
    BY <1>1 DEF JobOk
  <2>4. JobOk(x, leaves)
    BY <1>1 DEF JobOk
  <2> QED
    BY <1>4, <2>2, <2>3, <2>4
<1>6. CASE Scan(j)
  <2> DEFINE todo == {t \in Trees : NeedsAnchor(t)}
             d == [t \in todo |-> Len(leaves[t])]
             x == [pc |-> "submit", drop |-> d]
             y == [pc |-> "freeze", drop |-> NoDrop]
  <2>1. wait' = wait /\ job' = [job EXCEPT ![j] = IF todo = {} THEN y ELSE x]
    BY <1>6 DEF Scan
  <2>2. DropOk(d, leaves)
    BY <1>1 DEF DropOk
  <2> HIDE DEF d
  <2>3. JobOk(x, leaves) /\ JobOk(y, leaves)
    BY <2>2, NothingToDrop DEF JobOk
  <2> QED
    BY <1>4, <2>1, <2>3
<1>7. CASE Submit(j)
  <2> DEFINE y == [pc |-> "freeze", drop |-> NoDrop]
             d == job[j].drop
             w == [pc |-> "start", drop |-> d, by |-> j]
  <2>1. /\ job' = [job EXCEPT ![j] = y]
        /\ \E g \in Goroutines : wait' = [wait EXCEPT ![g] = w]
    BY <1>7 DEF Submit
  <2>2. WaitOk(w, leaves, confirmed)
    BY <1>1 DEF JobOk, WaitOk
  <2>3. JobOk(y, leaves)
    BY NothingToDrop
  <2> HIDE DEF w, y
  <2>4. JobsOk(job', leaves) /\ WaitsOk(wait', leaves, confirmed)
    BY <2>1, <2>2, <2>3, OneJob, OneWait
  <2> QED
    BY <1>2, <2>4, Conclude
<1>8. CASE AnchorTreesError(j)
  BY <1>8, <1>4, NothingToDrop DEF AnchorTreesError
<1>9. CASE freezeTrees(j) \/ FreezeError(j)
  <2> DEFINE x == [pc |-> "done", drop |-> job[j].drop]
  <2>1. wait' = wait /\ Finish(j)
    BY <1>9 DEF freezeTrees, FreezeError
  <2>2. [job[j] EXCEPT !.pc = "done"] = x
    BY <1>1 DEF JobOk
  <2>3. JobOk(x, leaves) /\ JobOk(Idle, leaves)
    BY <1>1, NothingToDrop DEF JobOk
  <2>4. job' = [job EXCEPT ![j] = x] \/ job' = [job EXCEPT ![j] = Idle]
    BY <2>1, <2>2 DEF Finish
  <2> QED
    BY <1>4, <2>1, <2>3, <2>4
<1> QED
  BY <1>5, <1>6, <1>7, <1>8, <1>9 DEF JobStep

\* A goroutine takes a step that keeps its drop, or drops a tree from it.
LEMMA GoroutineSteps ==
  ASSUME AInv, NEW g \in Goroutines, leaves' = leaves, confirmed' = confirmed, job' = job,
         \/ wait' = [wait EXCEPT ![g] = NotRunning]
         \/ \E pc : /\ wait' = [wait EXCEPT ![g].pc = pc]
                    /\ pc = "save" => Roots(wait[g].drop) \subseteq confirmed
         \/ \E t : wait' = [wait EXCEPT ![g].drop = Without(@, t)]
  PROVE  AInv'
<1>1. WaitOk(wait[g], leaves, confirmed) /\ JobsOk(job, leaves)
  BY DEF AInv, WaitsOk
<1>2. \E x : WaitOk(x, leaves, confirmed) /\ wait' = [wait EXCEPT ![g] = x]
  <2>1. CASE wait' = [wait EXCEPT ![g] = NotRunning]
    BY <2>1, NothingToDrop
  <2>2. ASSUME NEW pc, wait' = [wait EXCEPT ![g].pc = pc],
               pc = "save" => Roots(wait[g].drop) \subseteq confirmed
        PROVE  \E x : WaitOk(x, leaves, confirmed) /\ wait' = [wait EXCEPT ![g] = x]
    <3> DEFINE x == [pc |-> pc, drop |-> wait[g].drop, by |-> wait[g].by]
    <3>1. [wait[g] EXCEPT !.pc = pc] = x
      BY <1>1 DEF WaitOk
    <3>2. WaitOk(x, leaves, confirmed)
      BY <1>1, <2>2 DEF WaitOk
    <3> QED
      BY <2>2, <3>1, <3>2
  <2>3. ASSUME NEW t, wait' = [wait EXCEPT ![g].drop = Without(@, t)]
        PROVE  \E x : WaitOk(x, leaves, confirmed) /\ wait' = [wait EXCEPT ![g] = x]
    <3> DEFINE d == Without(wait[g].drop, t)
               x == [pc |-> wait[g].pc, drop |-> d, by |-> wait[g].by]
    <3>1. [wait[g] EXCEPT !.drop = Without(@, t)] = x
      BY <1>1 DEF WaitOk
    <3>2. DropOk(d, leaves) /\ Roots(d) \subseteq Roots(wait[g].drop)
      BY <1>1 DEF WaitOk, DropOk, Without, Roots
    <3> HIDE DEF d
    <3>3. WaitOk(x, leaves, confirmed)
      BY <1>1, <3>2 DEF WaitOk
    <3> QED
      BY <2>3, <3>1, <3>3
  <2> QED
    BY <2>1, <2>2, <2>3
<1>3. WaitsOk(wait', leaves, confirmed)
  BY <1>2, OneWait
<1> QED
  BY <1>1, <1>3, Conclude

LEMMA SaveStep ==
  ASSUME AInv, NEW g \in Goroutines, NEW t \in Trees, anchorSave(g, t)
  PROVE  AInv'
<1> DEFINE n == wait[g].drop[t]
           l == AnchorLeaf(n)
<1>1. /\ wait[g].pc = "save" /\ t \in DOMAIN wait[g].drop
      /\ LeavesAppend(t, l) \/ leaves' = leaves
      /\ wait' = [wait EXCEPT ![g].drop = Without(@, t)]
      /\ confirmed' = confirmed /\ job' = job
  BY DEF anchorSave
<1>2. WaitOk(wait[g], leaves, confirmed) /\ JobsOk(job, leaves)
  BY DEF AInv, WaitsOk
<1>3. CASE leaves' = leaves
  BY <1>1, <1>3, GoroutineSteps
<1>4. CASE LeavesAppend(t, l)
  <2>1. n \in Nat /\ n <= Len(leaves[t]) /\ <<t, n>> \in confirmed
    BY <1>1, <1>2 DEF WaitOk, DropOk, Roots
  <2> DEFINE d == Without(wait[g].drop, t)
             x == [pc |-> wait[g].pc, drop |-> d, by |-> wait[g].by]
  <2>2. wait' = [wait EXCEPT ![g] = x]
    <3>1. [wait[g] EXCEPT !.drop = Without(@, t)] = x
      BY <1>2 DEF WaitOk
    <3> QED
      BY <1>1, <3>1
  <2>3. DropOk(d, leaves) /\ Roots(d) \subseteq Roots(wait[g].drop)
    BY <1>2 DEF WaitOk, DropOk, Without, Roots
  <2> HIDE DEF d, n
  <2>4. WaitOk(x, leaves, confirmed)
    BY <1>2, <2>3 DEF WaitOk
  <2> HIDE DEF x
  <2>5. WaitsOk(wait', leaves, confirmed)
    BY <2>2, <2>4, OneWait
  <2>6. l \in Leaf /\ l.size = n
    BY <2>1 DEF AnchorLeaf, Leaf
  <2> HIDE DEF l
  <2> QED
    BY <1>1, <1>2, <1>4, <2>1, <2>5, <2>6, Appends
<1> QED
  BY <1>1, <1>3, <1>4

LEMMA WaitSteps ==
  ASSUME AInv, NEW g \in Goroutines,
         WaitStep(g) \/ PollError(g) \/ \E t \in Trees : AnchorSaveError(g, t)
  PROVE  AInv'
<1>1. ASSUME NEW pc, pc # "save", wait' = [wait EXCEPT ![g].pc = pc],
             leaves' = leaves, confirmed' = confirmed, job' = job
      PROVE  AInv'
  <2>1. \E x : /\ wait' = [wait EXCEPT ![g].pc = x]
               /\ x = "save" => Roots(wait[g].drop) \subseteq confirmed
    BY <1>1
  <2> QED
    BY <1>1, <2>1, GoroutineSteps
<1>2. CASE WaitStart(g)
  <2>1. /\ \/ wait' = [wait EXCEPT ![g] = NotRunning]
           \/ wait' = [wait EXCEPT ![g].pc = "set"]
        /\ leaves' = leaves /\ confirmed' = confirmed /\ job' = job
    BY <1>2 DEF WaitStart
  <2> QED
    BY <2>1, <1>1, GoroutineSteps
<1>3. CASE WaitSet(g)
  <2>1. /\ wait' = [wait EXCEPT ![g].pc = "poll"]
        /\ leaves' = leaves /\ confirmed' = confirmed /\ job' = job
    BY <1>3 DEF WaitSet
  <2> QED
    BY <2>1, <1>1
<1>4. CASE Poll(g)
  BY <1>4, GoroutineSteps DEF Poll
<1>5. CASE WaitDone(g) \/ PollError(g)
  BY <1>5, GoroutineSteps DEF WaitDone, PollError
<1>6. CASE \E t \in Trees : AnchorSaveError(g, t)
  BY <1>6, GoroutineSteps DEF AnchorSaveError
<1>7. CASE \E t \in Trees : anchorSave(g, t)
  BY <1>7, SaveStep
<1> QED
  BY <1>2, <1>3, <1>4, <1>5, <1>6, <1>7 DEF WaitStep

\* A time stamp stays confirmed.
LEMMA ConfirmStep ==
  ASSUME AInv, Confirm
  PROVE  AInv'
<1>1. /\ confirmed \subseteq confirmed'
      /\ leaves' = leaves /\ job' = job /\ wait' = wait
  BY DEF Confirm
<1>2. WaitsOk(wait, leaves, confirmed')
  BY <1>1, Itself, DropsStay DEF AInv
<1>3. AnchorsOk(leaves, confirmed')
  BY <1>1 DEF AInv, AnchorsOk
<1> QED
  BY <1>1, <1>2, <1>3 DEF AInv

LEMMA RestartStep ==
  ASSUME AInv, Restart
  PROVE  AInv'
<1>1. /\ leaves' = leaves /\ confirmed' = confirmed
      /\ job' = [j \in Jobs |-> Idle] /\ wait' = [g \in Goroutines |-> NotRunning]
  BY DEF Restart
<1>2. JobsOk(job', leaves) /\ WaitsOk(wait', leaves, confirmed)
  BY <1>1, NothingToDrop DEF JobsOk, WaitsOk
<1> QED
  BY <1>1, <1>2, Conclude

LEMMA InitInv ==
  ASSUME Init
  PROVE  AInv
<1>1. leaves = [t \in Trees |-> <<>>] /\ leaves \in Logs
  BY DEF Init, Logs
<1>2. AnchorsOk(leaves, confirmed)
  BY <1>1 DEF AnchorsOk
<1>3. JobsOk(job, leaves) /\ WaitsOk(wait, leaves, confirmed)
  BY NothingToDrop DEF Init, JobsOk, WaitsOk
<1> QED
  BY <1>1, <1>2, <1>3 DEF AInv

LEMMA NextStep ==
  ASSUME AInv, [Next]_vars
  PROVE  AInv'
<1>1. CASE UNCHANGED vars
  BY <1>1 DEF vars, AInv
<1>2. CASE \E t \in Trees : RecordUpdate(t) \/ RecordFreeze(t)
  BY <1>2, UpdateSteps
<1>3. CASE \E j \in Jobs : JobStep(j) \/ AnchorTreesError(j) \/ FreezeError(j)
  BY <1>3, JobSteps
<1>4. CASE \/ \E g \in Goroutines : WaitStep(g) \/ PollError(g)
           \/ \E g \in Goroutines, t \in Trees : AnchorSaveError(g, t)
  BY <1>4, WaitSteps
<1>5. CASE Confirm \/ Restart
  BY <1>5, ConfirmStep, RestartStep
<1> QED
  BY <1>1, <1>2, <1>3, <1>4, <1>5 DEF Next

-----------------------------------------------------------------------------
(* Theorems. *)

\* The inductive invariant: a drop names sizes that its trees have had, and a
\* goroutine that saves has the confirmed time stamps of all of them, also when drops
\* overlap, records change during a drop, and politeiad restarts.
THEOREM DropsAreSound == Spec => []AInv
<1>1. Init => AInv
  BY InitInv
<1>2. AInv /\ [Next]_vars => AInv'
  BY NextStep
<1> QED
  BY <1>1, <1>2, PTL DEF Spec

\* An anchor in a tree is a confirmed time stamp of an earlier size of the tree,
\* for any number of overlapping drops.
THEOREM AnchorsConfirmed == Spec => []AnchorsAreConfirmed
<1>1. AInv => AnchorsAreConfirmed
  <2> SUFFICES ASSUME AInv, NEW t \in Trees, NEW i \in Anchors(t)
               PROVE  leaves[t][i].size < i /\ <<t, leaves[t][i].size>> \in confirmed
    BY DEF AnchorsAreConfirmed
  <2>1. leaves[t] \in Seq(Leaf)
    BY DEF AInv, Logs
  <2>2. i \in 1..Len(leaves[t]) /\ leaves[t][i].desc = "anchor"
    BY <2>1 DEF Anchors
  <2> QED
    BY <2>2 DEF AInv, AnchorsOk
<1> QED
  BY <1>1, DropsAreSound, PTL

-----------------------------------------------------------------------------
(* When one caller drops anchors, one drop is under way at a time, and every  *)
(* anchor includes all leaves up to the anchor before it.                     *)

OneCaller == \A i, j \in Jobs : i = j

\* One goroutine runs, and none while the caller is between its check of the flag and
\* the launch of the next one.
LoneInv ==
  /\ \A g \in Goroutines : \/ wait[g] = NotRunning
                           \/ wait[g].pc \in {"start", "set", "poll", "save"} /\ wait[g].by \in Jobs
  /\ \A g, h \in Goroutines : wait[g] # NotRunning /\ wait[h] # NotRunning => g = h
  /\ \A g \in Goroutines : wait[g].pc \in {"poll", "save"} => droppingAnchor
  /\ \A j \in Jobs :
       /\ job[j].pc \in {"scan", "submit"} => \A g \in Goroutines : wait[g] = NotRunning
       /\ job[j].pc # "submit" => job[j].drop = NoDrop

\* No anchor is beyond a size that a drop is about to anchor.
NewTo(d, L) ==
  \A t \in DOMAIN d : \A i \in 1..Len(L[t]) : L[t][i].desc = "anchor" => i <= d[t]
NewInv ==
  /\ \A j \in Jobs : NewTo(job[j].drop, leaves)
  /\ \A g \in Goroutines : NewTo(wait[g].drop, leaves)

\* An anchor includes the anchors before it.
Ordered(L) ==
  \A t \in Trees : \A i, k \in 1..Len(L[t]) :
    /\ L[t][i].desc = "anchor" /\ L[t][k].desc = "anchor" /\ i < k
    => i <= L[t][k].size

OInv == LoneInv /\ NewInv /\ Ordered(leaves)

\* A tree that is appended to.
LEMMA Appended ==
  ASSUME NEW L \in Logs, NEW t \in Trees, NEW l \in Leaf, NEW M,
         M = [L EXCEPT ![t] = Append(@, l)]
  PROVE  /\ Len(L[t]) \in Nat /\ Len(M[t]) = Len(L[t]) + 1
         /\ M[t][Len(L[t]) + 1] = l
         /\ \A i \in 1..Len(L[t]) : M[t][i] = L[t][i]
         /\ \A u \in Trees \ {t} : M[u] = L[u]
<1> DEFINE s == Append(L[t], l)
<1>1. L[t] \in Seq(Leaf) /\ M = [L EXCEPT ![t] = s]
  BY DEF Logs
<1>2. Len(s) = Len(L[t]) + 1 /\ s[Len(L[t]) + 1] = l /\ \A i \in 1..Len(L[t]) : s[i] = L[t][i]
  BY <1>1
<1> HIDE DEF s
<1>3. M[t] = s /\ \A u \in Trees \ {t} : M[u] = L[u]
  BY <1>1 DEF Logs
<1> QED
  BY <1>1, <1>2, <1>3

\* Trees M have the anchors that trees L have.
SameAnchors(L, M) ==
  \A u \in Trees : \A i \in 1..Len(M[u]) :
    M[u][i].desc = "anchor" => i \in 1..Len(L[u]) /\ L[u][i] = M[u][i]

\* What is not an anchor disturbs nothing.
LEMMA PlainAppend ==
  ASSUME NEW L, NEW M, SameAnchors(L, M)
  PROVE  /\ \A d : DropOk(d, L) /\ NewTo(d, L) => NewTo(d, M)
         /\ Ordered(L) => Ordered(M)
BY DEF SameAnchors, NewTo, Ordered, DropOk

\* An anchor may be appended to a tree with no anchor beyond its size.
LEMMA AnchorAppend ==
  ASSUME NEW L \in Logs, NEW t \in Trees, NEW l \in Leaf, NEW M,
         M = [L EXCEPT ![t] = Append(@, l)],
         \A i \in 1..Len(L[t]) : L[t][i].desc = "anchor" => i <= l.size
  PROVE  /\ \A d : DropOk(d, L) /\ NewTo(d, L) /\ t \notin DOMAIN d => NewTo(d, M)
         /\ Ordered(L) => Ordered(M)
<1>1. \A d : DropOk(d, L) /\ NewTo(d, L) /\ t \notin DOMAIN d => NewTo(d, M)
  BY Appended DEF NewTo, DropOk
<1>2. ASSUME Ordered(L) PROVE Ordered(M)
  <2> SUFFICES ASSUME NEW u \in Trees, NEW i \in 1..Len(M[u]), NEW k \in 1..Len(M[u]),
                      M[u][i].desc = "anchor", M[u][k].desc = "anchor", i < k
               PROVE  i <= M[u][k].size
    BY DEF Ordered
  <2>1. CASE u # t
    BY <1>2, <2>1, Appended DEF Ordered
  <2>2. CASE u = t /\ k \in 1..Len(L[t])
    BY <1>2, <2>2, Appended DEF Ordered
  <2>3. CASE u = t /\ k = Len(L[t]) + 1
    BY <2>3, Appended
  <2> QED
    BY <2>1, <2>2, <2>3, Appended
<1> QED
  BY <1>1, <1>2

\* A leaf of a record is appended.
LEMMA UpdatesOrdered ==
  ASSUME AInv, OInv, NEW t \in Trees, RecordUpdate(t) \/ RecordFreeze(t) PROVE OInv'
<1>1. PICK l \in {Data, FrozenIndex} :
        leaves' = [leaves EXCEPT ![t] = Append(@, l)]
        /\ droppingAnchor' = droppingAnchor /\ job' = job /\ wait' = wait
  BY DEF RecordUpdate, RecordFreeze, LeavesAppend
<1>2. l \in Leaf /\ l.desc # "anchor"
  BY DEF Data, FrozenIndex, Leaf
<1>3. /\ \A j \in Jobs : DropOk(job[j].drop, leaves)
      /\ \A g \in Goroutines : DropOk(wait[g].drop, leaves)
  BY DEF AInv, JobsOk, JobOk, WaitsOk, WaitOk
<1>4. NewInv' /\ Ordered(leaves')
  <2>1. PICK M : M = [leaves EXCEPT ![t] = Append(@, l)]
    OBVIOUS
  <2>2. leaves \in Logs
    BY DEF AInv
  <2>3. SameAnchors(leaves, M)
    BY <1>2, <2>1, <2>2, Appended DEF SameAnchors
  <2> QED
    BY <1>1, <1>3, <2>1, <2>3, PlainAppend DEF OInv, NewInv
<1>5. LoneInv'
  BY <1>1 DEF OInv, LoneInv
<1> QED
  BY <1>4, <1>5 DEF OInv

\* The components of jobs and goroutines after a step of one of them.
LEMMA Others ==
  ASSUME AInv
  PROVE  /\ \A j \in Jobs : \A x : job' = [job EXCEPT ![j] = x] =>
              job'[j] = x /\ \A i \in Jobs : i # j => job'[i] = job[i]
         /\ \A g \in Goroutines : \A x : wait' = [wait EXCEPT ![g] = x] =>
              wait'[g] = x /\ \A h \in Goroutines : h # g => wait'[h] = wait[h]
BY DEF AInv, JobsOk, WaitsOk

\* A drop of nothing.
LEMMA NoDropIsNew == \A L : NewTo(NoDrop, L)
BY DEF NewTo, NoDrop

\* A job goes on to x, and launches nothing.
LEMMA JobGoesOn ==
  ASSUME OneCaller, AInv, OInv, NEW j \in Jobs, NEW x, job' = [job EXCEPT ![j] = x],
         UNCHANGED <<leaves, droppingAnchor, wait>>,
         x.pc \in {"scan", "submit"} => \A g \in Goroutines : wait[g] = NotRunning,
         x.pc # "submit" => x.drop = NoDrop, NewTo(x.drop, leaves)
  PROVE  OInv'
<1>1. \A i \in Jobs : job'[i] = x
  BY Others, ZenonT(60) DEF OneCaller
<1>2. LoneInv'
  BY <1>1 DEF OInv, LoneInv
<1>3. NewInv' /\ Ordered(leaves')
  BY <1>1 DEF OInv, NewInv
<1> QED
  BY <1>2, <1>3 DEF OInv

\* A drop starts when none is under way.
LEMMA JobsOrdered ==
  ASSUME OneCaller, AInv, OInv, NEW j \in Jobs,
         JobStep(j) \/ AnchorTreesError(j) \/ FreezeError(j)
  PROVE  OInv'
<1>1. job[j] = [pc |-> job[j].pc, drop |-> job[j].drop] /\ \A t \in Trees : Len(leaves[t]) \in Nat
  BY DEF AInv, JobsOk, JobOk, Logs
<1>2. \A pc : /\ [pc |-> pc, drop |-> NoDrop].pc = pc
              /\ [pc |-> pc, drop |-> NoDrop].drop = NoDrop
  OBVIOUS
<1>3. CASE AnchorTrees(j)
  <2> DEFINE pc == IF droppingAnchor THEN "freeze" ELSE "scan"
             x == [pc |-> pc, drop |-> job[j].drop]
  <2>1. /\ job' = [job EXCEPT ![j].pc = pc] /\ UNCHANGED <<leaves, droppingAnchor, wait>>
        /\ job[j].pc = "idle"
        /\ \A g \in Goroutines : wait[g].by = j => wait[g].pc \notin {"start", "set"}
    BY <1>3 DEF AnchorTrees
  <2> HIDE DEF pc
  <2>2. [job[j] EXCEPT !.pc = pc] = x
    BY <1>1
  <2>3. job' = [job EXCEPT ![j] = x]
    BY <2>1, <2>2
  <2>4. x.pc = pc /\ x.drop = NoDrop
    BY <2>1 DEF OInv, LoneInv
  <2>5. ~droppingAnchor => \A g \in Goroutines : wait[g] = NotRunning
    BY <2>1 DEF OneCaller, OInv, LoneInv
  <2>6. pc \in {"scan", "submit"} => ~droppingAnchor
    BY DEF pc
  <2> HIDE DEF x
  <2> QED
    BY <2>1, <2>3, <2>4, <2>5, <2>6, JobGoesOn, NoDropIsNew
<1>4. CASE Scan(j)
  <2> DEFINE todo == {t \in Trees : NeedsAnchor(t)}
             d == [t \in todo |-> Len(leaves[t])]
             x == IF todo = {} THEN [pc |-> "freeze", drop |-> NoDrop] ELSE [pc |-> "submit", drop |-> d]
  <2>1. job' = [job EXCEPT ![j] = x] /\ UNCHANGED <<leaves, droppingAnchor, wait>> /\ job[j].pc = "scan"
    BY <1>4 DEF Scan
  <2>2. NewTo(d, leaves)
    BY <1>1 DEF NewTo
  <2> HIDE DEF d
  <2>3. (x.pc # "submit" => x.drop = NoDrop) /\ NewTo(x.drop, leaves)
    BY <2>2, NoDropIsNew
  <2>4. \A g \in Goroutines : wait[g] = NotRunning
    BY <2>1 DEF OInv, LoneInv
  <2> HIDE DEF x
  <2> QED
    BY <2>1, <2>3, <2>4, JobGoesOn
<1>5. CASE Submit(j)
  <2> DEFINE y == [pc |-> "freeze", drop |-> NoDrop]
             w == [pc |-> "start", drop |-> job[j].drop, by |-> j]
  <2>1. PICK g \in Goroutines : wait' = [wait EXCEPT ![g] = w]
    BY <1>5 DEF Submit
  <2>2. /\ job' = [job EXCEPT ![j] = y] /\ UNCHANGED <<leaves, droppingAnchor>>
        /\ job[j].pc = "submit"
    BY <1>5 DEF Submit
  <2>3. \A h \in Goroutines : wait[h] = NotRunning
    BY <2>2 DEF OInv, LoneInv
  <2>4. /\ w.pc = "start" /\ w.by = j /\ w.drop = job[j].drop
        /\ y.pc = "freeze" /\ y.drop = NoDrop
    OBVIOUS
  <2> HIDE DEF w, y
  <2>5. \A i \in Jobs : job'[i] = y
    BY <2>2, Others, ZenonT(60) DEF OneCaller
  <2>6. wait'[g] = w /\ \A h \in Goroutines : h # g => wait'[h] = NotRunning
    BY <2>1, <2>3, Others
  <2>7. NotRunning.pc = "idle"
    BY DEF NotRunning
  <2>8. LoneInv'
    BY <2>4, <2>5, <2>6, <2>7 DEF LoneInv
  <2>9. NotRunning.drop = NoDrop
    BY DEF NotRunning
  <2>10. NewInv' /\ Ordered(leaves')
    BY <2>2, <2>4, <2>5, <2>6, <2>9, NoDropIsNew DEF OInv, NewInv
  <2> QED
    BY <2>8, <2>10 DEF OInv
<1>6. CASE AnchorTreesError(j)
  <2> DEFINE y == [pc |-> "freeze", drop |-> NoDrop]
  <2>1. job' = [job EXCEPT ![j] = y] /\ UNCHANGED <<leaves, droppingAnchor, wait>>
    BY <1>6 DEF AnchorTreesError
  <2>2. y.pc = "freeze" /\ y.drop = NoDrop
    OBVIOUS
  <2> HIDE DEF y
  <2> QED
    BY <2>1, <2>2, JobGoesOn, NoDropIsNew
<1>7. CASE freezeTrees(j) \/ FreezeError(j)
  <2> DEFINE y == [pc |-> "done", drop |-> job[j].drop]
  <2>1. UNCHANGED <<leaves, droppingAnchor, wait>> /\ Finish(j) /\ job[j].pc = "freeze"
    BY <1>7 DEF freezeTrees, FreezeError
  <2>2. [job[j] EXCEPT !.pc = "done"] = y
    BY <1>1
  <2>3. job' = [job EXCEPT ![j] = y] \/ job' = [job EXCEPT ![j] = Idle]
    BY <2>1, <2>2 DEF Finish
  <2>4. y.pc = "done" /\ y.drop = NoDrop /\ Idle.pc = "idle" /\ Idle.drop = NoDrop
    BY <2>1 DEF OInv, LoneInv, Idle
  <2> HIDE DEF y
  <2> QED
    BY <2>1, <2>3, <2>4, JobGoesOn, NoDropIsNew
<1> QED
  BY <1>3, <1>4, <1>5, <1>6, <1>7 DEF JobStep

\* A goroutine goes on.
LEMMA WaitGoesOn ==
  ASSUME AInv, OInv, NEW g \in Goroutines, wait[g] # NotRunning, NEW x, wait' = [wait EXCEPT ![g] = x],
         UNCHANGED <<leaves, job>>,
         x = NotRunning \/ (x.pc \in {"start", "set", "poll", "save"} /\ x.by \in Jobs),
         x.pc \in {"poll", "save"} => droppingAnchor', NewTo(x.drop, leaves)
  PROVE  OInv'
<1>1. wait'[g] = x /\ \A h \in Goroutines : h # g => wait'[h] = wait[h] /\ wait[h] = NotRunning
  <2>1. wait'[g] = x /\ \A h \in Goroutines : h # g => wait'[h] = wait[h]
    BY Others
  <2>2. \A h \in Goroutines : h # g => wait[h] = NotRunning
    BY DEF OInv, LoneInv
  <2> QED
    BY <2>1, <2>2
<1>2. NotRunning.pc = "idle"
  BY DEF NotRunning
<1>3. LoneInv'
  BY <1>1, <1>2 DEF OInv, LoneInv
<1>4. NewInv' /\ Ordered(leaves')
  BY <1>1 DEF OInv, NewInv
<1> QED
  BY <1>3, <1>4 DEF OInv

\* A drop without a tree.
LEMMA SmallerDrop ==
  ASSUME NEW d, NEW t, NEW L
  PROVE  /\ t \notin DOMAIN Without(d, t)
         /\ NewTo(d, L) => NewTo(Without(d, t), L)
         /\ DropOk(d, L) => DropOk(Without(d, t), L)
BY DEF Without, NewTo, DropOk

\* The steps of a goroutine but for the save of an anchor.
LEMMA WaitsOrdered ==
  ASSUME AInv, OInv, NEW g \in Goroutines,
         \/ WaitStart(g) \/ WaitSet(g) \/ Poll(g) \/ WaitDone(g) \/ PollError(g)
         \/ \E t \in Trees : AnchorSaveError(g, t)
  PROVE  OInv'
<1>1. /\ wait[g] = [pc |-> wait[g].pc, drop |-> wait[g].drop, by |-> wait[g].by]
      /\ NewTo(wait[g].drop, leaves)
  BY DEF AInv, WaitsOk, WaitOk, OInv, NewInv
<1>2. NotRunning.pc = "idle" /\ NotRunning.drop = NoDrop
  BY DEF NotRunning
<1>3. wait[g] # NotRunning /\ UNCHANGED <<leaves, job>>
  BY <1>2 DEF WaitStart, WaitSet, Poll, WaitDone, PollError, AnchorSaveError
<1>4. wait[g].by \in Jobs /\ (wait[g].pc \in {"poll", "save"} => droppingAnchor)
  BY <1>3 DEF OInv, LoneInv
<1>5. CASE wait' = [wait EXCEPT ![g] = NotRunning]
  BY <1>2, <1>3, <1>5, NoDropIsNew, WaitGoesOn
<1>6. ASSUME NEW pc \in {"start", "set", "poll", "save"}, wait' = [wait EXCEPT ![g].pc = pc],
             pc \in {"poll", "save"} => droppingAnchor'
      PROVE  OInv'
  <2> DEFINE x == [pc |-> pc, drop |-> wait[g].drop, by |-> wait[g].by]
  <2>1. [wait[g] EXCEPT !.pc = pc] = x
    BY <1>1
  <2>2. wait' = [wait EXCEPT ![g] = x]
    BY <1>6, <2>1
  <2>3. x.pc = pc /\ x.drop = wait[g].drop /\ x.by = wait[g].by
    OBVIOUS
  <2> HIDE DEF x
  <2> QED
    BY <1>1, <1>3, <1>4, <1>6, <2>2, <2>3, WaitGoesOn
<1>7. CASE WaitStart(g)
  BY <1>5, <1>6, <1>7 DEF WaitStart
<1>8. CASE WaitSet(g)
  BY <1>6, <1>8 DEF WaitSet
<1>9. CASE Poll(g)
  BY <1>4, <1>6, <1>9 DEF Poll
<1>10. CASE WaitDone(g) \/ PollError(g)
  BY <1>5, <1>10 DEF WaitDone, PollError
<1>11. ASSUME NEW t \in Trees, AnchorSaveError(g, t) PROVE OInv'
  <2> DEFINE d == Without(wait[g].drop, t)
             x == [pc |-> wait[g].pc, drop |-> d, by |-> wait[g].by]
  <2>1. wait' = [wait EXCEPT ![g].drop = d] /\ wait[g].pc = "save" /\ droppingAnchor' = droppingAnchor
    BY <1>11 DEF AnchorSaveError
  <2>2. NewTo(d, leaves)
    BY <1>1, SmallerDrop
  <2> HIDE DEF d
  <2>3. [wait[g] EXCEPT !.drop = d] = x
    BY <1>1
  <2>4. wait' = [wait EXCEPT ![g] = x]
    BY <2>1, <2>3
  <2>5. x.pc = "save" /\ x.drop = d /\ x.by = wait[g].by
    BY <2>1
  <2> HIDE DEF x
  <2> QED
    BY <1>3, <1>4, <2>1, <2>2, <2>4, <2>5, WaitGoesOn
<1> QED
  BY <1>7, <1>8, <1>9, <1>10, <1>11

\* An anchor is saved: all anchors of the tree are at or before its size.
LEMMA SaveOrdered ==
  ASSUME AInv, OInv, NEW g \in Goroutines, NEW t \in Trees, anchorSave(g, t) PROVE OInv'
<1> DEFINE d == Without(wait[g].drop, t)
           n == wait[g].drop[t]
           l == AnchorLeaf(n)
           x == [pc |-> wait[g].pc, drop |-> d, by |-> wait[g].by]
           M == [leaves EXCEPT ![t] = Append(@, l)]
<1>1. /\ wait[g].pc = "save" /\ t \in DOMAIN wait[g].drop
      /\ leaves' = M \/ leaves' = leaves
      /\ wait' = [wait EXCEPT ![g].drop = d]
      /\ droppingAnchor' = droppingAnchor /\ job' = job
  BY DEF anchorSave, LeavesAppend
<1>2. /\ wait[g] = [pc |-> wait[g].pc, drop |-> wait[g].drop, by |-> wait[g].by]
      /\ DropOk(wait[g].drop, leaves) /\ NewTo(wait[g].drop, leaves)
  BY DEF AInv, WaitsOk, WaitOk, OInv, NewInv
<1>3. NotRunning.pc = "idle" /\ NotRunning.drop = NoDrop
  BY DEF NotRunning
<1>4. wait[g] # NotRunning
  BY <1>1, <1>3
<1>5. /\ wait[g].by \in Jobs
      /\ \A j \in Jobs : job[j].drop = NoDrop
      /\ \A h \in Goroutines : h # g => wait[h] = NotRunning
      /\ droppingAnchor
  BY <1>1, <1>4 DEF OInv, LoneInv
<1>6. DropOk(d, leaves) /\ NewTo(d, leaves) /\ t \notin DOMAIN d
  BY <1>2, SmallerDrop
<1>7. n \in Nat /\ \A i \in 1..Len(leaves[t]) : leaves[t][i].desc = "anchor" => i <= n
  BY <1>1, <1>2 DEF DropOk, NewTo
<1>8. l \in Leaf /\ l.size = n
  BY <1>7 DEF AnchorLeaf, Leaf
<1> HIDE DEF d
<1>9. wait' = [wait EXCEPT ![g] = x]
  <2>1. [wait[g] EXCEPT !.drop = d] = x
    BY <1>2
  <2> QED
    BY <1>1, <2>1
<1>10. x.pc = "save" /\ x.drop = d /\ x.by = wait[g].by
  BY <1>1
<1> HIDE DEF x
<1>11. CASE leaves' = leaves
  BY <1>1, <1>4, <1>5, <1>6, <1>9, <1>10, <1>11, WaitGoesOn
<1>12. CASE leaves' = M
  <2> HIDE DEF n, l
  <2>1. NewTo(d, M) /\ Ordered(M)
    <3>1. PICK N : N = M
      OBVIOUS
    <3>2. /\ \A e : DropOk(e, leaves) /\ NewTo(e, leaves) /\ t \notin DOMAIN e => NewTo(e, N)
          /\ Ordered(leaves) => Ordered(N)
      BY <1>7, <1>8, <3>1, AnchorAppend DEF AInv
    <3> QED
      BY <1>6, <3>1, <3>2 DEF OInv
  <2> HIDE DEF M
  <2>2. wait'[g] = x /\ \A h \in Goroutines : h # g => wait'[h] = NotRunning
    BY <1>5, <1>9, Others
  <2>3. LoneInv'
    BY <1>1, <1>3, <1>5, <1>10, <2>2 DEF OInv, LoneInv
  <2>4. NewInv'
    BY <1>1, <1>3, <1>5, <1>10, <1>12, <2>1, <2>2, NoDropIsNew DEF NewInv
  <2> QED
    BY <1>12, <2>1, <2>3, <2>4 DEF OInv
<1> QED
  BY <1>1, <1>11, <1>12

\* Every step keeps the anchors in order.
LEMMA NextOrdered == OneCaller /\ AInv /\ OInv /\ [Next]_vars => OInv'
<1> SUFFICES ASSUME OneCaller, AInv, OInv, [Next]_vars PROVE OInv'
  OBVIOUS
<1>1. CASE UNCHANGED vars
  BY <1>1 DEF vars, OInv, LoneInv, NewInv
<1>2. CASE \E t \in Trees : RecordUpdate(t) \/ RecordFreeze(t)
  BY <1>2, UpdatesOrdered
<1>3. CASE \E j \in Jobs : JobStep(j) \/ AnchorTreesError(j) \/ FreezeError(j)
  BY <1>3, JobsOrdered
<1>4. CASE \/ \E g \in Goroutines : WaitStep(g) \/ PollError(g)
           \/ \E g \in Goroutines, t \in Trees : AnchorSaveError(g, t)
  BY <1>4, WaitsOrdered, SaveOrdered DEF WaitStep
<1>5. CASE Confirm
  BY <1>5 DEF Confirm, OInv, LoneInv, NewInv
<1>6. CASE Restart
  <2>1. /\ leaves' = leaves /\ \A j \in Jobs : job'[j] = Idle
        /\ \A g \in Goroutines : wait'[g] = NotRunning
    BY <1>6 DEF Restart
  <2>2. NotRunning.pc = "idle" /\ NotRunning.drop = NoDrop /\ Idle.pc = "idle" /\ Idle.drop = NoDrop
    BY DEF NotRunning, Idle
  <2> QED
    BY <2>1, <2>2, NoDropIsNew DEF OInv, LoneInv, NewInv
<1> QED
  BY <1>1, <1>2, <1>3, <1>4, <1>5, <1>6 DEF Next

LEMMA InitOrdered == Init => OInv
<1> SUFFICES ASSUME Init PROVE OInv
  OBVIOUS
<1>1. /\ \A j \in Jobs : job[j] = Idle
      /\ \A g \in Goroutines : wait[g] = NotRunning
      /\ \A t \in Trees : leaves[t] = << >>
  BY DEF Init
<1>2. NotRunning.pc = "idle" /\ NotRunning.drop = NoDrop /\ Idle.pc = "idle" /\ Idle.drop = NoDrop
  BY DEF NotRunning, Idle
<1> QED
  BY <1>1, <1>2, NoDropIsNew DEF OInv, LoneInv, NewInv, Ordered

\* A set of numbers has a least element.
LEMMA Least ==
  ASSUME NEW S, S \subseteq Nat, S # {}
  PROVE  \E n \in S : \A m \in S : n <= m
<1>1. PICK x \in S : \A y \in S : ~ (<<y, x>> \in OpToRel(<, Nat))
  BY NatLessThanWellFounded, WFMin
<1>2. \A y \in S : x <= y
  <2> TAKE y \in S
  <2>1. y \in Nat /\ x \in Nat
    OBVIOUS
  <2>2. y < x => <<y, x>> \in OpToRel(<, Nat)
    BY <2>1, Zenon DEF OpToRel
  <2>3. <<y, x>> \notin OpToRel(<, Nat)
    BY <1>1
  <2>4. ~(y < x)
    BY <2>2, <2>3
  <2> QED
    BY <2>1, <2>4
<1> QED
  BY <1>2

\* With one caller one drop is under way at a time, and every anchor includes the anchors
\* before it, however many updates, faults and restarts there are.
THEOREM DropsAreOrdered == OneCaller => (Spec => [](AInv /\ OInv))
<1> SUFFICES ASSUME OneCaller PROVE Spec => [](AInv /\ OInv)
  OBVIOUS
<1>1. Init => AInv /\ OInv
  BY InitInv, InitOrdered
<1>2. (AInv /\ OInv) /\ [Next]_vars => (AInv /\ OInv)'
  BY NextStep, NextOrdered
<1> QED
  BY <1>1, <1>2, PTL DEF Spec

\* One of the first two anchors after a leaf includes it if any anchor does, as anchorForLeaf
\* relies on (anchor.go:95-98).
THEOREM AnchorsFound == OneCaller => (Spec => []AnchorIsFound)
<1> SUFFICES ASSUME OneCaller PROVE Spec => []AnchorIsFound
  OBVIOUS
<1>1. AInv /\ OInv => AnchorIsFound
  <2> SUFFICES ASSUME AInv, OInv, NEW t \in Trees, NEW i \in Content(t),
                      NEW k \in Anchors(t), i < k, i <= leaves[t][k].size
               PROVE  anchorForLeaf(t, i) # {}
    BY DEF AnchorIsFound
  <2>1. leaves[t] \in Seq(Leaf)
    BY DEF AInv, Logs
  <2>2. /\ Anchors(t) \subseteq 1..Len(leaves[t]) /\ i \in 1..Len(leaves[t])
        /\ Len(leaves[t]) \in Nat
        /\ \A m \in Anchors(t) : leaves[t][m].desc = "anchor" /\ leaves[t][m].size \in Nat
    <3>1. /\ Anchors(t) \subseteq 1..Len(leaves[t]) /\ i \in 1..Len(leaves[t])
          /\ Len(leaves[t]) \in Nat
          /\ \A m \in Anchors(t) : leaves[t][m].desc = "anchor"
      BY <2>1 DEF Anchors, Content
    <3>2. \A m \in Anchors(t) : leaves[t][m] \in Leaf
      BY <2>1, <3>1
    <3>3. \A l \in Leaf : l.size \in Nat
      BY DEF Leaf
    <3> QED
      BY <3>1, <3>2, <3>3
  <2>3. \A m, n \in Anchors(t) : m < n => m <= leaves[t][n].size
    BY <2>2 DEF OInv, Ordered
  <2> DEFINE After == {m \in Anchors(t) : i <= m}
             Before(n) == {m \in Anchors(t) : i <= m /\ m < n}
  <2>4. ASSUME NEW n \in After, i <= leaves[t][n].size, Cardinality(Before(n)) < 2
        PROVE  anchorForLeaf(t, i) # {}
    BY <2>2, <2>4 DEF anchorForLeaf, FirstTwo
  <2>5. After \subseteq Nat /\ k \in After
    BY <2>2
  <2>6. PICK a \in After : \A m \in After : a <= m
    BY <2>5, Least
  <2>7. CASE i <= leaves[t][a].size
    <3>1. Before(a) = {}
      BY <2>2, <2>6
    <3> QED
      BY <2>4, <2>7, <3>1, FS_EmptySet
  <2>8. CASE ~(i <= leaves[t][a].size)
    <3> DEFINE Later == After \ {a}
    <3>1. Later \subseteq Nat /\ k \in Later
      BY <2>5, <2>8
    <3>2. PICK b \in Later : \A m \in Later : b <= m
      BY <3>1, Least
    <3>3. a < b /\ Before(b) = {a}
      BY <2>2, <2>6, <3>2
    <3>4. i <= leaves[t][b].size
      BY <2>2, <2>3, <3>2, <3>3
    <3>5. Cardinality(Before(b)) = 1
      BY <3>3, FS_Singleton
    <3> QED
      BY <2>4, <3>4, <3>5
  <2> QED
    BY <2>7, <2>8
<1> QED
  BY <1>1, DropsAreOrdered, PTL

-----------------------------------------------------------------------------
(***************************************************************************)
(* The inventory cache of the backend.  What follows is about Inventory,     *)
(* its operators named INV!...                                               *)
(***************************************************************************)

CONSTANTS FsckOptions, MaxOps, MaxCrashes
VARIABLES todo, clock, crashes
INV == INSTANCE Inventory

-----------------------------------------------------------------------------
(* The writes of one update, unfolded. *)

WriteStep(acc, w, t) ==
  IF acc.ok /\ INV!CanWrite(acc.inv, w, t)
  THEN [inv |-> INV!invSave(acc.inv, w, t), ok |-> TRUE]
  ELSE [acc EXCEPT !.ok = FALSE]
NoWrite(i) == [inv |-> i, ok |-> TRUE]

\* The recursive function is the one that the steps define, when there is one.
LEMMA AfterWritesUnfold ==
  ASSUME NEW i, NEW ws, NEW t, NEW f, Len(ws) \in Nat,
         f = [n \in 0..Len(ws) |-> IF n = 0 THEN NoWrite(i)
                                   ELSE WriteStep(f[n - 1], ws[n], t)]
  PROVE  /\ INV!AfterWrites(i, ws, t)[0] = NoWrite(i)
         /\ \A n \in 1..Len(ws) :
              INV!AfterWrites(i, ws, t)[n] = WriteStep(INV!AfterWrites(i, ws, t)[n - 1], ws[n], t)
<1> DEFINE rec(g) == [n \in 0..Len(ws) |-> IF n = 0 THEN [inv |-> i, ok |-> TRUE]
                       ELSE IF g[n - 1].ok /\ INV!CanWrite(g[n - 1].inv, ws[n], t)
                       THEN [inv |-> INV!invSave(g[n - 1].inv, ws[n], t), ok |-> TRUE]
                       ELSE [g[n - 1] EXCEPT !.ok = FALSE]]
<1>1. f = rec(f)
  BY DEF NoWrite, WriteStep
<1>2. INV!AfterWrites(i, ws, t) = CHOOSE g : g = rec(g)
  BY DEF INV!AfterWrites
<1>3. PICK h : h = INV!AfterWrites(i, ws, t)
  OBVIOUS
<1>4. h = rec(h)
  BY <1>1, <1>2, <1>3
<1>5. h[0] = NoWrite(i)
  BY <1>4 DEF NoWrite
<1>6. ASSUME NEW n \in 1..Len(ws) PROVE h[n] = WriteStep(h[n - 1], ws[n], t)
  <2>1. n \in 0..Len(ws) /\ n # 0
    OBVIOUS
  <2>2. PICK a : a = h[n - 1]
    OBVIOUS
  <2>3. rec(h)[n] = IF h[n - 1].ok /\ INV!CanWrite(h[n - 1].inv, ws[n], t)
                    THEN [inv |-> INV!invSave(h[n - 1].inv, ws[n], t), ok |-> TRUE]
                    ELSE [h[n - 1] EXCEPT !.ok = FALSE]
    BY <2>1
  <2>4. h[n] = rec(h)[n]
    <3> HIDE DEF rec
    <3> QED
      BY <1>4
  <2> QED
    BY <2>3, <2>4 DEF WriteStep
<1> QED
  BY <1>3, <1>5, <1>6

LEMMA OneWrite ==
  ASSUME NEW i, NEW t, NEW w
  PROVE  Len(<<w>>) = 1
         /\ INV!AfterWrites(i, <<w>>, t)[1] = WriteStep(NoWrite(i), w, t)
<1>1. PICK ws : ws = <<w>>
  OBVIOUS
<1>2. Len(ws) = 1 /\ ws[1] = w
  BY <1>1
<1>3. PICK f : f = [n \in 0..1 |-> IF n = 0 THEN NoWrite(i) ELSE WriteStep(NoWrite(i), w, t)]
  OBVIOUS
<1>4. f = [n \in 0..Len(ws) |-> IF n = 0 THEN NoWrite(i) ELSE WriteStep(f[n - 1], ws[n], t)]
  BY <1>2, <1>3
<1>5. /\ INV!AfterWrites(i, ws, t)[0] = NoWrite(i)
      /\ \A n \in 1..Len(ws) :
           INV!AfterWrites(i, ws, t)[n] = WriteStep(INV!AfterWrites(i, ws, t)[n - 1], ws[n], t)
  <2>1. Len(ws) \in Nat
    BY <1>2
  <2> QED
    BY <2>1, <1>4, AfterWritesUnfold
<1>6. 1 \in 1..Len(ws) /\ 1 - 1 = 0
  BY <1>2
<1>7. INV!AfterWrites(i, ws, t)[1] = WriteStep(INV!AfterWrites(i, ws, t)[1 - 1], ws[1], t)
  BY <1>5, <1>6
<1> QED
  BY <1>1, <1>2, <1>5, <1>6, <1>7

LEMMA TwoWrites ==
  ASSUME NEW i, NEW t, NEW v, NEW w
  PROVE  Len(<<v, w>>) = 2
         /\ INV!AfterWrites(i, <<v, w>>, t)[2] = WriteStep(WriteStep(NoWrite(i), v, t), w, t)
<1>1. PICK ws : ws = <<v, w>>
  OBVIOUS
<1>2. Len(ws) = 2 /\ ws[1] = v /\ ws[2] = w
  BY <1>1
<1>3. PICK a, b : a = WriteStep(NoWrite(i), v, t) /\ b = WriteStep(a, w, t)
  OBVIOUS
<1>4. PICK f : f = [n \in 0..2 |-> IF n = 0 THEN NoWrite(i) ELSE IF n = 1 THEN a ELSE b]
  OBVIOUS
<1>5. f = [n \in 0..Len(ws) |-> IF n = 0 THEN NoWrite(i) ELSE WriteStep(f[n - 1], ws[n], t)]
  <2>1. f[0] = NoWrite(i) /\ f[1] = a /\ f[2] = b
    BY <1>4
  <2>2. ASSUME NEW n \in 0..2
        PROVE  f[n] = IF n = 0 THEN NoWrite(i) ELSE WriteStep(f[n - 1], ws[n], t)
    <3>1. n = 0 \/ n = 1 \/ n = 2
      OBVIOUS
    <3>2. 1 - 1 = 0 /\ 2 - 1 = 1
      OBVIOUS
    <3> QED
      BY <1>2, <1>3, <2>1, <3>1, <3>2
  <2> QED
    BY <1>2, <1>4, <2>2
<1>6. /\ INV!AfterWrites(i, ws, t)[0] = NoWrite(i)
      /\ \A n \in 1..Len(ws) :
           INV!AfterWrites(i, ws, t)[n] = WriteStep(INV!AfterWrites(i, ws, t)[n - 1], ws[n], t)
  <2>1. Len(ws) \in Nat
    BY <1>2
  <2> QED
    BY <2>1, <1>5, AfterWritesUnfold
<1>7. INV!AfterWrites(i, ws, t)[1] = WriteStep(INV!AfterWrites(i, ws, t)[0], v, t)
  <2>1. 1 \in 1..Len(ws) /\ 1 - 1 = 0
    BY <1>2
  <2>2. INV!AfterWrites(i, ws, t)[1] = WriteStep(INV!AfterWrites(i, ws, t)[1 - 1], ws[1], t)
    BY <1>6, <2>1
  <2> QED
    BY <1>2, <2>1, <2>2
<1>8. INV!AfterWrites(i, ws, t)[2] = WriteStep(INV!AfterWrites(i, ws, t)[1], w, t)
  <2>1. 2 \in 1..Len(ws) /\ 2 - 1 = 1
    BY <1>2
  <2>2. INV!AfterWrites(i, ws, t)[2] = WriteStep(INV!AfterWrites(i, ws, t)[2 - 1], ws[2], t)
    BY <1>6, <2>1
  <2> QED
    BY <1>2, <2>1, <2>2
<1> QED
  BY <1>1, <1>2, <1>6, <1>7, <1>8

LEMMA ThreeWrites ==
  ASSUME NEW i, NEW t, NEW v, NEW w, NEW x
  PROVE  Len(<<v, w, x>>) = 3
         /\ INV!AfterWrites(i, <<v, w, x>>, t)[3] =
              WriteStep(WriteStep(WriteStep(NoWrite(i), v, t), w, t), x, t)
<1>1. PICK ws : ws = <<v, w, x>>
  OBVIOUS
<1>2. Len(ws) = 3 /\ ws[1] = v /\ ws[2] = w /\ ws[3] = x
  BY <1>1
<1>3. PICK a, b, c : /\ a = WriteStep(NoWrite(i), v, t) /\ b = WriteStep(a, w, t)
                     /\ c = WriteStep(b, x, t)
  OBVIOUS
<1>4. PICK f : f = [n \in 0..3 |-> IF n = 0 THEN NoWrite(i) ELSE IF n = 1 THEN a
                                    ELSE IF n = 2 THEN b ELSE c]
  OBVIOUS
<1>5. f = [n \in 0..Len(ws) |-> IF n = 0 THEN NoWrite(i) ELSE WriteStep(f[n - 1], ws[n], t)]
  <2>1. f[0] = NoWrite(i) /\ f[1] = a /\ f[2] = b /\ f[3] = c
    BY <1>4
  <2>2. ASSUME NEW n \in 0..3
        PROVE  f[n] = IF n = 0 THEN NoWrite(i) ELSE WriteStep(f[n - 1], ws[n], t)
    <3>1. n = 0 \/ n = 1 \/ n = 2 \/ n = 3
      OBVIOUS
    <3>2. 1 - 1 = 0 /\ 2 - 1 = 1 /\ 3 - 1 = 2
      OBVIOUS
    <3> QED
      BY <1>2, <1>3, <2>1, <3>1, <3>2
  <2> QED
    BY <1>2, <1>4, <2>2
<1>6. /\ INV!AfterWrites(i, ws, t)[0] = NoWrite(i)
      /\ \A n \in 1..Len(ws) :
           INV!AfterWrites(i, ws, t)[n] = WriteStep(INV!AfterWrites(i, ws, t)[n - 1], ws[n], t)
  <2>1. Len(ws) \in Nat
    BY <1>2
  <2> QED
    BY <2>1, <1>5, AfterWritesUnfold
<1>7. INV!AfterWrites(i, ws, t)[1] = WriteStep(INV!AfterWrites(i, ws, t)[0], v, t)
  <2>1. 1 \in 1..Len(ws) /\ 1 - 1 = 0
    BY <1>2
  <2>2. INV!AfterWrites(i, ws, t)[1] = WriteStep(INV!AfterWrites(i, ws, t)[1 - 1], ws[1], t)
    BY <1>6, <2>1
  <2> QED
    BY <1>2, <2>1, <2>2
<1>8. INV!AfterWrites(i, ws, t)[2] = WriteStep(INV!AfterWrites(i, ws, t)[1], w, t)
  <2>1. 2 \in 1..Len(ws) /\ 2 - 1 = 1
    BY <1>2
  <2>2. INV!AfterWrites(i, ws, t)[2] = WriteStep(INV!AfterWrites(i, ws, t)[2 - 1], ws[2], t)
    BY <1>6, <2>1
  <2> QED
    BY <1>2, <2>1, <2>2
<1>9. INV!AfterWrites(i, ws, t)[3] = WriteStep(INV!AfterWrites(i, ws, t)[2], x, t)
  <2>1. 3 \in 1..Len(ws) /\ 3 - 1 = 2
    BY <1>2
  <2>2. INV!AfterWrites(i, ws, t)[3] = WriteStep(INV!AfterWrites(i, ws, t)[3 - 1], ws[3], t)
    BY <1>6, <2>1
  <2> QED
    BY <1>2, <2>1, <2>2
<1> QED
  BY <1>1, <1>2, <1>6, <1>7, <1>8, <1>9

-----------------------------------------------------------------------------
(* What the writes do to the entries that a file lists. *)

Rec == [token : Tokens, status : INV!Statuses]
Files == [INV!States -> [valid : BOOLEAN, entries : Seq(Rec)]]
RangeOf(e) == {e[n] : n \in DOMAIN e}
Listed(i, s) == RangeOf(i[s].entries)
OneEach(e) == \A n, k \in DOMAIN e : e[n].token = e[k].token => n = k
Good(i) == i \in Files /\ \A s \in INV!States : i[s].valid = TRUE /\ OneEach(i[s].entries)

LEMMA HasListed ==
  ASSUME NEW i, NEW s, NEW t
  PROVE  INV!Has(i[s].entries, t) <=> \E x \in Listed(i, s) : x.token = t
  BY DEF INV!Has, Listed, RangeOf

LEMMA FrontEntry ==
  ASSUME NEW e \in Seq(Rec), NEW x \in Rec
  PROVE  /\ <<x>> \o e \in Seq(Rec)
         /\ RangeOf(<<x>> \o e) = {x} \cup RangeOf(e)
         /\ OneEach(e) /\ ~INV!Has(e, x.token) => OneEach(<<x>> \o e)
<1>1. PICK f : f = <<x>> \o e
  OBVIOUS
<1>2. /\ f \in Seq(Rec) /\ Len(f) = Len(e) + 1 /\ f[1] = x
      /\ \A n \in 1..Len(e) : f[n + 1] = e[n]
  BY <1>1
<1>3. Len(e) \in Nat /\ DOMAIN f = 1..(Len(e) + 1) /\ DOMAIN e = 1..Len(e)
  BY <1>2
<1>4. ASSUME NEW n \in DOMAIN f PROVE n = 1 \/ (n - 1 \in DOMAIN e /\ f[n] = e[n - 1])
  <2>1. CASE n = 1
    BY <2>1
  <2>2. CASE n # 1
    <3>1. n - 1 \in 1..Len(e) /\ (n - 1) + 1 = n
      BY <1>3, <2>2
    <3> QED
      BY <1>2, <1>3, <3>1
  <2> QED
    BY <2>1, <2>2
<1>5. RangeOf(f) = {x} \cup RangeOf(e)
  <2>1. ASSUME NEW y \in RangeOf(f) PROVE y \in {x} \cup RangeOf(e)
    BY <1>2, <1>4 DEF RangeOf
  <2>2. x \in RangeOf(f)
    BY <1>2, <1>3 DEF RangeOf
  <2>3. ASSUME NEW n \in DOMAIN e PROVE e[n] \in RangeOf(f)
    <3>1. n + 1 \in DOMAIN f /\ f[n + 1] = e[n]
      BY <1>2, <1>3
    <3> QED
      BY <3>1 DEF RangeOf
  <2> QED
    BY <2>1, <2>2, <2>3 DEF RangeOf
<1>6. ASSUME OneEach(e), ~INV!Has(e, x.token) PROVE OneEach(f)
  <2> SUFFICES ASSUME NEW n \in DOMAIN f, NEW k \in DOMAIN f, f[n].token = f[k].token
               PROVE  n = k
    BY DEF OneEach
  <2>1. CASE n = 1 /\ k = 1
    BY <2>1
  <2>2. CASE n = 1 /\ k # 1
    BY <1>2, <1>4, <1>6, <2>2 DEF INV!Has
  <2>3. CASE n # 1 /\ k = 1
    BY <1>2, <1>4, <1>6, <2>3 DEF INV!Has
  <2>4. CASE n # 1 /\ k # 1
    <3>1. n - 1 = k - 1
      BY <1>4, <1>6, <2>4 DEF OneEach
    <3> QED
      BY <1>3, <3>1
  <2> QED
    BY <2>1, <2>2, <2>3, <2>4
<1> QED
  BY <1>1, <1>2, <1>5, <1>6

\* The second part of a concatenation.
LEMMA ConcatSecond ==
  ASSUME NEW S, NEW a \in Seq(S), NEW b \in Seq(S),
         NEW n \in (Len(a) + 1)..(Len(a) + Len(b))
  PROVE  (a \o b)[n] = b[n - Len(a)]
OBVIOUS

\* The entry without the element at one index: what RemoveAt returns.
LEMMA RemovedAt ==
  ASSUME NEW S, NEW e \in Seq(S), NEW j \in 1..Len(e)
  PROVE  /\ INV!RemoveAt(e, j) \in Seq(S)
         /\ Len(INV!RemoveAt(e, j)) = Len(e) - 1
         /\ \A n \in 1..(Len(e) - 1) : INV!RemoveAt(e, j)[n] = IF n < j THEN e[n] ELSE e[n + 1]
<1>1. PICK a, b, f : /\ a = SubSeq(e, 1, j - 1) /\ b = SubSeq(e, j + 1, Len(e))
                     /\ f = a \o b
  OBVIOUS
<1>2. f = INV!RemoveAt(e, j)
  BY <1>1 DEF INV!RemoveAt
<1>3. Len(e) \in Nat /\ j \in Nat /\ 1 <= j /\ j <= Len(e)
  OBVIOUS
<1>4. a \in Seq(S) /\ Len(a) = j - 1 /\ \A n \in 1..(j - 1) : a[n] = e[n]
  BY <1>1, <1>3
<1>5. b \in Seq(S) /\ Len(b) = Len(e) - j /\ \A n \in 1..(Len(e) - j) : b[n] = e[n + j]
  BY <1>1, <1>3
<1>6. f \in Seq(S) /\ Len(f) = Len(a) + Len(b)
  BY <1>1, <1>4, <1>5
<1>7. ASSUME NEW n \in 1..(Len(e) - 1) PROVE f[n] = IF n < j THEN e[n] ELSE e[n + 1]
  <2>1. CASE n < j
    <3>1. n \in 1..Len(a) /\ n \in 1..(j - 1)
      BY <1>3, <1>4, <2>1
    <3>2. f[n] = a[n]
      BY <1>1, <1>4, <1>5, <3>1
    <3> QED
      BY <1>4, <2>1, <3>1, <3>2
  <2>2. CASE ~(n < j)
    <3>1. n \in (Len(a) + 1)..(Len(a) + Len(b)) /\ n - Len(a) = n - (j - 1)
      BY <1>3, <1>4, <1>5, <2>2
    <3>2. f[n] = b[n - Len(a)]
      BY <1>1, <1>4, <1>5, <3>1, ConcatSecond
    <3>3. n - (j - 1) \in 1..(Len(e) - j) /\ (n - (j - 1)) + j = n + 1
      BY <1>3, <2>2
    <3> QED
      BY <1>5, <2>2, <3>1, <3>2, <3>3
  <2> QED
    BY <2>1, <2>2
<1> QED
  BY <1>2, <1>3, <1>4, <1>5, <1>6, <1>7

\* The file lists the other tokens as before and the token no more.
LEMMA Deleted ==
  ASSUME NEW e \in Seq(Rec), NEW t, OneEach(e), INV!Has(e, t)
  PROVE  /\ INV!entryDel(e, t) \in Seq(Rec)
         /\ OneEach(INV!entryDel(e, t))
         /\ RangeOf(INV!entryDel(e, t)) = {x \in RangeOf(e) : x.token # t}
<1>1. PICK i \in DOMAIN e : e[i].token = t
  BY DEF INV!Has
<1>2. ASSUME NEW k \in DOMAIN e, e[k].token = t PROVE k = i
  BY <1>1, <1>2 DEF OneEach
<1>3. DOMAIN e = 1..Len(e) /\ Len(e) \in Nat
  OBVIOUS
<1>4. PICK j : j = CHOOSE m \in DOMAIN e :
                     e[m].token = t /\ \A k \in 1..(m - 1) : e[k].token # t
  OBVIOUS
<1>5. j = i
  <2>1. \A k \in 1..(i - 1) : e[k].token # t
    <3> SUFFICES ASSUME NEW k \in 1..(i - 1), e[k].token = t PROVE FALSE
      OBVIOUS
    <3>1. k \in DOMAIN e /\ k # i
      BY <1>1, <1>3
    <3> QED
      BY <1>2, <3>1
  <2>2. j \in DOMAIN e /\ e[j].token = t
    BY <1>1, <1>4, <2>1
  <2> QED
    BY <1>2, <2>2
<1>6. PICK f : f = INV!RemoveAt(e, j)
  OBVIOUS
<1>7. INV!entryDel(e, t) = f
  BY <1>4, <1>6 DEF INV!entryDel
<1>8. /\ f \in Seq(Rec) /\ Len(f) = Len(e) - 1
      /\ \A n \in 1..(Len(e) - 1) : f[n] = IF n < j THEN e[n] ELSE e[n + 1]
  <2>1. j \in 1..Len(e)
    BY <1>1, <1>3, <1>5
  <2> QED
    BY <1>6, <2>1, RemovedAt
<1>9. DOMAIN f = 1..(Len(e) - 1) /\ j \in 1..Len(e)
  BY <1>1, <1>3, <1>5, <1>8
<1> DEFINE from(n) == IF n < j THEN n ELSE n + 1
<1>10. ASSUME NEW n \in DOMAIN f
       PROVE  from(n) \in DOMAIN e /\ from(n) # j /\ f[n] = e[from(n)]
  BY <1>3, <1>8, <1>9
<1>11. ASSUME NEW n \in DOMAIN f, NEW k \in DOMAIN f, from(n) = from(k) PROVE n = k
  BY <1>9, <1>11
<1>12. ASSUME NEW m \in DOMAIN e, m # j PROVE \E n \in DOMAIN f : from(n) = m
  <2>1. CASE m < j
    <3>1. m \in DOMAIN f /\ from(m) = m
      BY <1>3, <1>9, <2>1
    <3> QED
      BY <3>1
  <2>2. CASE ~(m < j)
    <3>1. m - 1 \in DOMAIN f /\ from(m - 1) = m
      BY <1>3, <1>9, <1>12, <2>2
    <3> QED
      BY <3>1
  <2> QED
    BY <2>1, <2>2
<1> HIDE DEF from
<1>13. OneEach(f)
  <2> SUFFICES ASSUME NEW n \in DOMAIN f, NEW k \in DOMAIN f, f[n].token = f[k].token
               PROVE  n = k
    BY DEF OneEach
  <2>1. from(n) = from(k)
    BY <1>10 DEF OneEach
  <2> QED
    BY <1>11, <2>1
<1>14. ASSUME NEW x \in RangeOf(f) PROVE x \in RangeOf(e) /\ x.token # t
  <2>1. PICK n \in DOMAIN f : x = f[n]
    BY DEF RangeOf
  <2> QED
    BY <1>2, <1>5, <1>10, <2>1 DEF RangeOf
<1>15. ASSUME NEW x \in RangeOf(e), x.token # t PROVE x \in RangeOf(f)
  <2>1. PICK m \in DOMAIN e : x = e[m]
    BY DEF RangeOf
  <2>2. m # j
    BY <1>1, <1>5, <1>15, <2>1
  <2>3. PICK n \in DOMAIN f : from(n) = m
    BY <1>12, <2>2
  <2> QED
    BY <1>10, <2>1, <2>3 DEF RangeOf
<1> QED
  BY <1>7, <1>8, <1>13, <1>14, <1>15

\* A write that finds a file it can decode, and the entry that it deletes.
LEMMA WriteDone ==
  ASSUME NEW i, Good(i), NEW t \in Tokens, NEW s \in INV!States, NEW del \in BOOLEAN,
         NEW st \in INV!Statuses \cup {"none"},
         del => INV!Has(i[s].entries, t),
         st # "none" => (del \/ ~INV!Has(i[s].entries, t))
  PROVE  \E j : /\ WriteStep(NoWrite(i), INV!Write(s, del, st), t) = NoWrite(j)
                /\ Good(j)
                /\ \A u \in INV!States \ {s} : Listed(j, u) = Listed(i, u)
                /\ Listed(j, s) =
                     {x \in Listed(i, s) : ~(del /\ x.token = t)}
                     \cup {x \in {[token |-> t, status |-> st]} : st # "none"}
<1>1. PICK e : e = i[s].entries
  OBVIOUS
<1>2. e \in Seq(Rec) /\ OneEach(e) /\ i[s].valid
  BY <1>1 DEF Good, Files
<1>3. PICK old : old = IF del THEN INV!entryDel(e, t) ELSE e
  OBVIOUS
<1>4. /\ old \in Seq(Rec) /\ OneEach(old)
      /\ RangeOf(old) = {x \in RangeOf(e) : ~(del /\ x.token = t)}
  <2>1. CASE del
    BY <1>1, <1>2, <1>3, <2>1, Deleted
  <2>2. CASE ~del
    BY <1>2, <1>3, <2>2
  <2> QED
    BY <2>1, <2>2
<1>5. PICK r : r = [token |-> t, status |-> st]
  OBVIOUS
<1>6. PICK new : new = IF st = "none" THEN old ELSE <<r>> \o old
  OBVIOUS
<1>7. /\ new \in Seq(Rec) /\ OneEach(new)
      /\ RangeOf(new) = RangeOf(old) \cup {x \in {r} : st # "none"}
  <2>1. CASE st = "none"
    BY <1>4, <1>6, <2>1
  <2>2. CASE st # "none"
    <3>1. r \in Rec /\ r.token = t
      BY <1>5, <2>2 DEF Rec
    <3>2. ~INV!Has(old, t)
      BY <1>1, <1>4, <2>2 DEF INV!Has, RangeOf
    <3>3. /\ <<r>> \o old \in Seq(Rec)
          /\ RangeOf(<<r>> \o old) = {r} \cup RangeOf(old)
          /\ OneEach(<<r>> \o old)
      BY <1>4, <3>1, <3>2, FrontEntry
    <3> QED
      BY <1>6, <2>2, <3>3
  <2> QED
    BY <2>1, <2>2
<1>8. PICK w : w = INV!Write(s, del, st)
  OBVIOUS
<1>9. w.file = s /\ w.del = del /\ w.status = st
  BY <1>8 DEF INV!Write
<1>10. PICK j : j = INV!invSave(i, w, t)
  OBVIOUS
<1>11. j = [i EXCEPT ![s].entries = new]
  BY <1>1, <1>3, <1>5, <1>6, <1>9, <1>10 DEF INV!invSave
<1>12. PICK file : file = [valid |-> TRUE, entries |-> new]
  OBVIOUS
<1>13. [i[s] EXCEPT !.entries = new] = file
  <2>1. PICK o : o = i[s]
    OBVIOUS
  <2>2. o \in [valid : BOOLEAN, entries : Seq(Rec)] /\ o.valid = TRUE
    BY <2>1 DEF Good, Files
  <2>3. [o EXCEPT !.entries = new] = [valid |-> o.valid, entries |-> new]
    BY <2>2
  <2> QED
    BY <1>12, <2>1, <2>2, <2>3
<1>14. j = [i EXCEPT ![s] = file]
  BY <1>11, <1>13
<1>15. /\ j[s] = file /\ \A u \in INV!States \ {s} : j[u] = i[u]
       /\ file \in [valid : BOOLEAN, entries : Seq(Rec)]
  BY <1>7, <1>12, <1>14 DEF Good, Files
<1>16. j \in Files
  BY <1>14, <1>15 DEF Good, Files
<1>17. Good(j)
  <2> SUFFICES ASSUME NEW u \in INV!States PROVE j[u].valid = TRUE /\ OneEach(j[u].entries)
    BY <1>16 DEF Good
  <2>1. CASE u = s
    BY <1>7, <1>12, <1>15, <2>1
  <2>2. CASE u # s
    BY <1>15, <2>2 DEF Good
  <2> QED
    BY <2>1, <2>2
<1>18. WriteStep(NoWrite(i), w, t) = NoWrite(j)
  <2>1. INV!CanWrite(i, w, t)
    BY <1>1, <1>2, <1>9 DEF INV!CanWrite
  <2>2. NoWrite(i).ok /\ NoWrite(i).inv = i
    BY DEF NoWrite
  <2> QED
    BY <1>10, <2>1, <2>2 DEF WriteStep, NoWrite
<1>19. Listed(j, s) = {x \in Listed(i, s) : ~(del /\ x.token = t)}
                      \cup {x \in {[token |-> t, status |-> st]} : st # "none"}
  BY <1>1, <1>4, <1>5, <1>7, <1>12, <1>15 DEF Listed
<1>20. \A u \in INV!States \ {s} : Listed(j, u) = Listed(i, u)
  BY <1>15 DEF Listed
<1> QED
  BY <1>8, <1>17, <1>18, <1>19, <1>20

-----------------------------------------------------------------------------
(* The updates of the cache: what they do to the entries of the token, and that *)
(* they do nothing to those of other tokens.                                    *)

TokenIn(i, s, t) == {x \in Listed(i, s) : x.token = t}
OtherEntries(i, s, t) == {x \in Listed(i, s) : x.token # t}
EntryOf(t, st) == [token |-> t, status |-> st]

\* In the files j, file s has the entries X of the token, and all else is as in i.
Changed(i, j, s, t, X) ==
  /\ Good(j)
  /\ \A u \in INV!States : OtherEntries(j, u, t) = OtherEntries(i, u, t)
  /\ \A u \in INV!States \ {s} : TokenIn(j, u, t) = TokenIn(i, u, t)
  /\ TokenIn(j, s, t) = X

\* In the files j the token is listed as vetted only, and all else is as in i.
Moved(i, j, t, X) ==
  /\ Good(j)
  /\ \A u \in INV!States : OtherEntries(j, u, t) = OtherEntries(i, u, t)
  /\ TokenIn(j, "unvetted", t) = {}
  /\ TokenIn(j, "vetted", t) = X

\* One write of file s, of which X is the outcome for the token.
Wrote(i, s, del, st, t, X) ==
  \E j : WriteStep(NoWrite(i), INV!Write(s, del, st), t) = NoWrite(j) /\ Changed(i, j, s, t, X)

LEMMA TokenListed ==
  ASSUME NEW i, NEW s, NEW t
  PROVE  INV!Has(i[s].entries, t) <=> TokenIn(i, s, t) # {}
BY HasListed DEF TokenIn

LEMMA OneWriteOnToken ==
  ASSUME NEW i, Good(i), NEW t \in Tokens, NEW s \in INV!States, NEW del \in BOOLEAN,
         NEW st \in INV!Statuses \cup {"none"},
         del => TokenIn(i, s, t) # {},
         st # "none" => (del \/ TokenIn(i, s, t) = {})
  PROVE  /\ st # "none" => Wrote(i, s, del, st, t, {EntryOf(t, st)})
         /\ st = "none" /\ del => Wrote(i, s, del, st, t, {})
<1>1. INV!Has(i[s].entries, t) <=> TokenIn(i, s, t) # {}
  BY TokenListed
<1>2. PICK j : /\ WriteStep(NoWrite(i), INV!Write(s, del, st), t) = NoWrite(j)
               /\ Good(j)
               /\ \A u \in INV!States \ {s} : Listed(j, u) = Listed(i, u)
               /\ Listed(j, s) =
                    {x \in Listed(i, s) : ~(del /\ x.token = t)}
                    \cup {x \in {[token |-> t, status |-> st]} : st # "none"}
  BY <1>1, WriteDone
<1>3. EntryOf(t, st).token = t /\ EntryOf(t, st) = [token |-> t, status |-> st]
  BY DEF EntryOf
<1>4. OtherEntries(j, s, t) = OtherEntries(i, s, t)
  BY <1>2, <1>3 DEF OtherEntries
<1>5. /\ st # "none" => TokenIn(j, s, t) = {EntryOf(t, st)}
      /\ st = "none" /\ del => TokenIn(j, s, t) = {}
  <2>1. ASSUME NEW x PROVE x \in TokenIn(j, s, t) <=>
            \/ x \in TokenIn(i, s, t) /\ ~del
            \/ x = EntryOf(t, st) /\ st # "none"
    BY <1>2, <1>3 DEF TokenIn
  <2>2. CASE st # "none"
    <3>1. ~del => TokenIn(i, s, t) = {}
      BY <2>2
    <3> QED
      BY <2>1, <2>2, <3>1
  <2>3. CASE st = "none"
    BY <2>1, <2>3
  <2> QED
    BY <2>2, <2>3
<1>6. \A u \in INV!States \ {s} : OtherEntries(j, u, t) = OtherEntries(i, u, t)
                              /\ TokenIn(j, u, t) = TokenIn(i, u, t)
  BY <1>2 DEF OtherEntries, TokenIn
<1>7. Good(j) /\ \A u \in INV!States : OtherEntries(j, u, t) = OtherEntries(i, u, t)
  BY <1>2, <1>4, <1>6
<1>8. /\ st # "none" => Changed(i, j, s, t, {EntryOf(t, st)})
      /\ st = "none" /\ del => Changed(i, j, s, t, {})
  BY <1>5, <1>6, <1>7 DEF Changed
<1> QED
  BY <1>2, <1>8 DEF Wrote

\* An entry is put in front of a file that does not list the token.
LEMMA PutOnToken ==
  ASSUME NEW i, Good(i), NEW t \in Tokens, NEW s \in INV!States, NEW st \in INV!Statuses,
         TokenIn(i, s, t) = {}
  PROVE  \E j : /\ WriteStep(NoWrite(i), INV!Write(s, FALSE, st), t) = NoWrite(j)
                /\ Changed(i, j, s, t, {EntryOf(t, st)})
<1>1. PICK del \in BOOLEAN : del = FALSE
  OBVIOUS
<1>2. PICK a \in INV!Statuses \cup {"none"} : a = st
  OBVIOUS
<1>3. a # "none"
  BY <1>2 DEF INV!Statuses
<1>4. /\ del => TokenIn(i, s, t) # {}
      /\ a # "none" => (del \/ TokenIn(i, s, t) = {})
  BY <1>1, <1>3
<1>5. Wrote(i, s, del, a, t, {EntryOf(t, a)})
  <2>1. /\ a # "none" => Wrote(i, s, del, a, t, {EntryOf(t, a)})
        /\ a = "none" /\ del => Wrote(i, s, del, a, t, {})
    BY <1>4, OneWriteOnToken
  <2> QED
    BY <1>1, <1>3, <2>1
<1> QED
  BY <1>1, <1>2, <1>5 DEF Wrote

\* The entry of the token is deleted and another put in front.
LEMMA ReplaceOnToken ==
  ASSUME NEW i, Good(i), NEW t \in Tokens, NEW s \in INV!States, NEW st \in INV!Statuses,
         TokenIn(i, s, t) # {}
  PROVE  \E j : /\ WriteStep(NoWrite(i), INV!Write(s, TRUE, st), t) = NoWrite(j)
                /\ Changed(i, j, s, t, {EntryOf(t, st)})
<1>1. PICK del \in BOOLEAN : del = TRUE
  OBVIOUS
<1>2. PICK a \in INV!Statuses \cup {"none"} : a = st
  OBVIOUS
<1>3. a # "none"
  BY <1>2 DEF INV!Statuses
<1>4. /\ del => TokenIn(i, s, t) # {}
      /\ a # "none" => (del \/ TokenIn(i, s, t) = {})
  BY <1>1, <1>3
<1>5. Wrote(i, s, del, a, t, {EntryOf(t, a)})
  <2>1. /\ a # "none" => Wrote(i, s, del, a, t, {EntryOf(t, a)})
        /\ a = "none" /\ del => Wrote(i, s, del, a, t, {})
    BY <1>4, OneWriteOnToken
  <2> QED
    BY <1>1, <1>3, <2>1
<1> QED
  BY <1>1, <1>2, <1>5 DEF Wrote

\* The entry of the token is deleted.
LEMMA DropOnToken ==
  ASSUME NEW i, Good(i), NEW t \in Tokens, NEW s \in INV!States,
         TokenIn(i, s, t) # {}
  PROVE  \E j : /\ WriteStep(NoWrite(i), INV!Write(s, TRUE, "none"), t) = NoWrite(j)
                /\ Changed(i, j, s, t, {})
<1>1. PICK del \in BOOLEAN : del = TRUE
  OBVIOUS
<1>2. PICK a \in INV!Statuses \cup {"none"} : a = "none"
  OBVIOUS
<1>3. a = "none"
  BY <1>2 DEF INV!Statuses
<1>4. /\ del => TokenIn(i, s, t) # {}
      /\ a # "none" => (del \/ TokenIn(i, s, t) = {})
  BY <1>1, <1>3
<1>5. Wrote(i, s, del, a, t, {})
  <2>1. /\ a # "none" => Wrote(i, s, del, a, t, {EntryOf(t, a)})
        /\ a = "none" /\ del => Wrote(i, s, del, a, t, {})
    BY <1>4, OneWriteOnToken
  <2> QED
    BY <1>1, <1>3, <2>1
<1> QED
  BY <1>1, <1>2, <1>5 DEF Wrote

LEMMA AddDone ==
  ASSUME NEW i, Good(i), NEW t \in Tokens, NEW s \in INV!States, NEW st \in INV!Statuses,
         TokenIn(i, s, t) = {}, NEW ws, ws = INV!invAdd(s, st)
  PROVE  \E j : /\ INV!AfterWrites(i, ws, t)[Len(ws)] = NoWrite(j)
                /\ Changed(i, j, s, t, {EntryOf(t, st)})
<1>1. PICK w : w = INV!Write(s, FALSE, st)
  OBVIOUS
<1>2. ws = <<w>>
  BY <1>1 DEF INV!invAdd
<1>3. Len(<<w>>) = 1 /\ INV!AfterWrites(i, <<w>>, t)[1] = WriteStep(NoWrite(i), w, t)
  BY OneWrite
<1>4. INV!AfterWrites(i, ws, t)[Len(ws)] = WriteStep(NoWrite(i), w, t)
  BY <1>2, <1>3
<1>5. PICK j : /\ WriteStep(NoWrite(i), INV!Write(s, FALSE, st), t) = NoWrite(j)
               /\ Changed(i, j, s, t, {EntryOf(t, st)})
  BY PutOnToken
<1>6. INV!AfterWrites(i, ws, t)[Len(ws)] = NoWrite(j)
  BY <1>1, <1>4, <1>5, Zenon
<1> QED
  BY <1>5, <1>6

LEMMA UpdateDone ==
  ASSUME NEW i, Good(i), NEW t \in Tokens, NEW s \in INV!States, NEW st \in INV!Statuses,
         TokenIn(i, s, t) # {}, NEW ws, ws = INV!invUpdate(s, st)
  PROVE  \E j : /\ INV!AfterWrites(i, ws, t)[Len(ws)] = NoWrite(j)
                /\ Changed(i, j, s, t, {EntryOf(t, st)})
<1>1. PICK w : w = INV!Write(s, TRUE, st)
  OBVIOUS
<1>2. ws = <<w>>
  BY <1>1 DEF INV!invUpdate
<1>3. Len(<<w>>) = 1 /\ INV!AfterWrites(i, <<w>>, t)[1] = WriteStep(NoWrite(i), w, t)
  BY OneWrite
<1>4. INV!AfterWrites(i, ws, t)[Len(ws)] = WriteStep(NoWrite(i), w, t)
  BY <1>2, <1>3
<1>5. PICK j : /\ WriteStep(NoWrite(i), INV!Write(s, TRUE, st), t) = NoWrite(j)
               /\ Changed(i, j, s, t, {EntryOf(t, st)})
  BY ReplaceOnToken
<1>6. INV!AfterWrites(i, ws, t)[Len(ws)] = NoWrite(j)
  BY <1>1, <1>4, <1>5, Zenon
<1> QED
  BY <1>5, <1>6

\* The two writes of a move, one after the other.
LEMMA MoveSteps ==
  ASSUME NEW i, Good(i), NEW t \in Tokens, NEW st \in INV!Statuses,
         TokenIn(i, "unvetted", t) # {}, TokenIn(i, "vetted", t) = {},
         NEW v, v = INV!Write("unvetted", TRUE, "none"),
         NEW w, w = INV!Write("vetted", FALSE, st)
  PROVE  \E j : /\ WriteStep(WriteStep(NoWrite(i), v, t), w, t) = NoWrite(j)
                /\ Moved(i, j, t, {EntryOf(t, st)})
<1>1. PICK a \in INV!States, b \in INV!States : a = "unvetted" /\ b = "vetted"
  BY DEF INV!States
<1>2. a # b /\ INV!States = {a, b}
  BY <1>1 DEF INV!States
<1>3. TokenIn(i, a, t) # {} /\ TokenIn(i, b, t) = {}
  BY <1>1
<1>4. PICK k : /\ WriteStep(NoWrite(i), INV!Write(a, TRUE, "none"), t) = NoWrite(k)
               /\ Changed(i, k, a, t, {})
  BY <1>3, DropOnToken
<1>5. Good(k) /\ TokenIn(k, b, t) = {}
  BY <1>2, <1>3, <1>4 DEF Changed
<1>6. PICK j : /\ WriteStep(NoWrite(k), INV!Write(b, FALSE, st), t) = NoWrite(j)
               /\ Changed(k, j, b, t, {EntryOf(t, st)})
  BY <1>5, PutOnToken
<1>7. TokenIn(j, a, t) = {} /\ TokenIn(j, b, t) = {EntryOf(t, st)} /\ Good(j)
  BY <1>2, <1>4, <1>6 DEF Changed
<1>8. v = INV!Write(a, TRUE, "none") /\ w = INV!Write(b, FALSE, st)
  BY <1>1
<1>9. WriteStep(WriteStep(NoWrite(i), v, t), w, t) = NoWrite(j)
  BY <1>4, <1>6, <1>8, Zenon
<1>10. \A u \in INV!States : OtherEntries(j, u, t) = OtherEntries(i, u, t)
  BY <1>4, <1>6 DEF Changed
<1>11. Moved(i, j, t, {EntryOf(t, st)})
  BY <1>1, <1>7, <1>10 DEF Moved
<1> QED
  BY <1>9, <1>11

LEMMA MoveDone ==
  ASSUME NEW i, Good(i), NEW t \in Tokens, NEW st \in INV!Statuses,
         TokenIn(i, "unvetted", t) # {}, TokenIn(i, "vetted", t) = {},
         NEW ws, ws = INV!invMoveToVetted(st)
  PROVE  \E j : /\ INV!AfterWrites(i, ws, t)[Len(ws)] = NoWrite(j)
                /\ Moved(i, j, t, {EntryOf(t, st)})
<1>1. PICK v, w : v = INV!Write("unvetted", TRUE, "none") /\ w = INV!Write("vetted", FALSE, st)
  OBVIOUS
<1>2. ws = <<v, w>>
  BY <1>1 DEF INV!invMoveToVetted
<1>3. /\ Len(<<v, w>>) = 2
      /\ INV!AfterWrites(i, <<v, w>>, t)[2] = WriteStep(WriteStep(NoWrite(i), v, t), w, t)
  BY TwoWrites
<1>4. INV!AfterWrites(i, ws, t)[Len(ws)] = WriteStep(WriteStep(NoWrite(i), v, t), w, t)
  BY <1>2, <1>3
<1>5. PICK j : /\ WriteStep(WriteStep(NoWrite(i), v, t), w, t) = NoWrite(j)
               /\ Moved(i, j, t, {EntryOf(t, st)})
  BY <1>1, MoveSteps
<1> QED
  BY <1>4, <1>5

LEMMA OneAndTwo == ASSUME NEW v, NEW w, NEW x PROVE <<v>> \o <<w, x>> = <<v, w, x>>
<1>1. PICK S : S = {v, w, x}
  OBVIOUS
<1>2. PICK a, b, f, g : a = <<v>> /\ b = <<w, x>> /\ f = a \o b /\ g = <<v, w, x>>
  OBVIOUS
<1>3. /\ a \in Seq(S) /\ Len(a) = 1 /\ a[1] = v
      /\ b \in Seq(S) /\ Len(b) = 2 /\ b[1] = w /\ b[2] = x
      /\ g \in Seq(S) /\ Len(g) = 3 /\ g[1] = v /\ g[2] = w /\ g[3] = x
  BY <1>1, <1>2
<1>4. f \in Seq(S) /\ Len(f) = 3 /\ f[1] = v /\ f[2] = w /\ f[3] = x
  BY <1>2, <1>3
<1>5. f = g
  <2>1. /\ DOMAIN f = 1..3 /\ DOMAIN g = 1..3
        /\ f = [n \in DOMAIN f |-> f[n]] /\ g = [n \in DOMAIN g |-> g[n]]
    BY <1>3, <1>4
  <2>2. ASSUME NEW n \in 1..3 PROVE f[n] = g[n]
    <3>1. n = 1 \/ n = 2 \/ n = 3
      OBVIOUS
    <3> QED
      BY <1>3, <1>4, <3>1
  <2> QED
    BY <2>1, <2>2
<1> QED
  BY <1>2, <1>5

\* The fsck adds a vetted record to the unvetted file and then moves it.
LEMMA FsckVettedDone ==
  ASSUME NEW i, Good(i), NEW t \in Tokens, NEW st \in INV!Statuses,
         TokenIn(i, "unvetted", t) = {}, TokenIn(i, "vetted", t) = {},
         NEW ws, ws = INV!invAdd("unvetted", "unreviewed") \o INV!invMoveToVetted(st)
  PROVE  \E j : /\ INV!AfterWrites(i, ws, t)[Len(ws)] = NoWrite(j)
                /\ Moved(i, j, t, {EntryOf(t, st)})
<1>1. PICK v, w, x : /\ v = INV!Write("unvetted", FALSE, "unreviewed")
                     /\ w = INV!Write("unvetted", TRUE, "none")
                     /\ x = INV!Write("vetted", FALSE, st)
  OBVIOUS
<1>2. ws = <<v, w, x>>
  <2>1. INV!invAdd("unvetted", "unreviewed") = <<v>>
    BY <1>1 DEF INV!invAdd
  <2>2. INV!invMoveToVetted(st) = <<w, x>>
    BY <1>1 DEF INV!invMoveToVetted
  <2> QED
    BY <2>1, <2>2, OneAndTwo
<1>3. /\ Len(<<v, w, x>>) = 3
      /\ INV!AfterWrites(i, <<v, w, x>>, t)[3] =
           WriteStep(WriteStep(WriteStep(NoWrite(i), v, t), w, t), x, t)
  BY ThreeWrites
<1>4. INV!AfterWrites(i, ws, t)[Len(ws)] =
        WriteStep(WriteStep(WriteStep(NoWrite(i), v, t), w, t), x, t)
  BY <1>2, <1>3
<1>5. PICK a \in INV!States, b \in INV!States : a = "unvetted" /\ b = "vetted"
  BY DEF INV!States
<1>6. PICK r \in INV!Statuses : r = "unreviewed"
  BY DEF INV!Statuses
<1>7. TokenIn(i, a, t) = {} /\ b \in INV!States \ {a}
  BY <1>5
<1>8. PICK k : /\ WriteStep(NoWrite(i), INV!Write(a, FALSE, r), t) = NoWrite(k)
               /\ Changed(i, k, a, t, {EntryOf(t, r)})
  BY <1>7, PutOnToken
<1>9. WriteStep(NoWrite(i), v, t) = NoWrite(k)
  BY <1>1, <1>5, <1>6, <1>8
<1>10. Good(k) /\ TokenIn(k, "unvetted", t) # {} /\ TokenIn(k, "vetted", t) = {}
  BY <1>5, <1>7, <1>8 DEF Changed
<1>11. PICK j : /\ WriteStep(WriteStep(NoWrite(k), w, t), x, t) = NoWrite(j)
                /\ Moved(k, j, t, {EntryOf(t, st)})
  BY <1>1, <1>10, MoveSteps
<1>12. Moved(i, j, t, {EntryOf(t, st)})
  BY <1>8, <1>11 DEF Changed, Moved
<1>13. INV!AfterWrites(i, ws, t)[Len(ws)] = NoWrite(j)
  BY <1>4, <1>9, <1>11, Zenon
<1> QED
  BY <1>11, <1>12, <1>13

-----------------------------------------------------------------------------
(* The inductive invariant. *)

Ops == {"idle", "new", "add", "move", "update"}
RecordTypes == [state : INV!States \cup {"none", "empty"},
                status : INV!Statuses \cup {"none"}, time : Nat]

InventoryTypes ==
  /\ records \in [Tokens -> RecordTypes]
  /\ op \in [Tokens -> Ops]
  /\ phase \in {"up", "down", "fsck"}
  /\ todo \in Seq(Tokens)
  /\ clock \in Nat
  /\ dirty \in BOOLEAN

\* A record has a status, and an unreviewed one is unvetted.
RecordsInv ==
  \A t \in Tokens :
    /\ INV!Exists(t) => records[t].status \in INV!Statuses
    /\ records[t].status = "unreviewed" => records[t].state = "unvetted"

\* What a request has done when it has still to update the cache.
OpsInv ==
  \A t \in Tokens :
    /\ op[t] = "new" => records[t].state = "empty" /\ records[t].status = "none"
    /\ op[t] = "add" => records[t].state = "unvetted" /\ records[t].status = "unreviewed"
    /\ op[t] = "move" => records[t].state = "vetted" /\ records[t].status = "public"
    /\ op[t] = "update" => INV!Exists(t)

\* The requests end with the process, and a stopped process is one that has crashed.
\* The fsck adds every record once.
PhaseInv ==
  /\ phase # "up" => \A t \in Tokens : op[t] = "idle"
  /\ phase = "down" => dirty
  /\ phase # "fsck" => todo = << >>
  /\ \A n \in DOMAIN todo : INV!Exists(todo[n])
  /\ \A n, k \in DOMAIN todo : todo[n] = todo[k] => n = k

BasicInv == InventoryTypes /\ RecordsInv /\ OpsInv /\ PhaseInv

\* The file that lists the record: none as long as the record has to be added, and
\* the unvetted one as long as it has to be moved.
Pending(t) == phase = "fsck" /\ \E n \in DOMAIN todo : todo[n] = t
Shown(t) ==
  IF ~INV!Exists(t) \/ op[t] = "add" \/ Pending(t) THEN "none"
  ELSE IF op[t] = "move" THEN "unvetted" ELSE records[t].state

TokenInv(t) ==
  \A s \in INV!States :
    /\ s # Shown(t) => TokenIn(inv, s, t) = {}
    /\ s = Shown(t) => TokenIn(inv, s, t) # {}
    /\ s = Shown(t) /\ op[t] = "idle" => INV!Entry(t) \in TokenIn(inv, s, t)

FilesInv == Good(inv) /\ \A t \in Tokens : TokenInv(t)
ListingInv == (phase = "up" /\ ~dirty) \/ phase = "fsck" => FilesInv

InventoryInv == BasicInv /\ ListingInv

LEMMA SavedBasics ==
  ASSUME BasicInv, NEW t \in Tokens, NEW state \in INV!States, NEW status \in INV!Statuses,
         phase # "fsck", INV!Save(t, state, status), UNCHANGED <<phase, todo>>,
         dirty' = dirty \/ dirty' = TRUE,
         status = "unreviewed" => state = "unvetted",
         NEW o \in Ops, op' = [op EXCEPT ![t] = o],
         o # "new",
         o = "add" => state = "unvetted" /\ status = "unreviewed",
         o = "move" => state = "vetted" /\ status = "public",
         phase = "down" => o = "idle"
  PROVE  BasicInv'
<1>1. PICK r : r = [state |-> state, status |-> status, time |-> clock + 1]
  OBVIOUS
<1>2. r.state = state /\ r.status = status /\ r \in RecordTypes
  BY <1>1 DEF BasicInv, InventoryTypes, RecordTypes
<1>3. records' = [records EXCEPT ![t] = r] /\ clock' = clock + 1
  BY <1>1 DEF INV!Save
<1>4. InventoryTypes'
  <2>1. dirty' \in BOOLEAN
    BY Zenon DEF BasicInv, InventoryTypes
  <2> QED
    BY <1>2, <1>3, <2>1 DEF BasicInv, InventoryTypes
<1>5. RecordsInv'
  BY <1>2, <1>3 DEF BasicInv, InventoryTypes, RecordsInv, INV!Exists
<1>6. OpsInv'
  BY <1>2, <1>3 DEF BasicInv, InventoryTypes, OpsInv, INV!Exists
<1>7. PhaseInv'
  <2>1. todo = << >> /\ DOMAIN todo = {}
    BY DEF BasicInv, PhaseInv
  <2>2. phase' # "up" => \A u \in Tokens : op'[u] = "idle"
    BY DEF BasicInv, InventoryTypes, PhaseInv
  <2>3. phase' = "down" => dirty'
    BY Zenon DEF BasicInv, PhaseInv
  <2> QED
    BY <2>1, <2>2, <2>3 DEF BasicInv, PhaseInv
<1> QED
  BY <1>4, <1>5, <1>6, <1>7 DEF BasicInv

LEMMA TreeNewBasics == ASSUME BasicInv, NEW t \in Tokens, INV!TreeNew(t) PROVE BasicInv'
<1>1. PICK r : r = INV!EmptyTree
  OBVIOUS
<1>2. r = [state |-> "empty", status |-> "none", time |-> 0]
  BY <1>1 DEF INV!EmptyTree, INV!NoTree
<1>3. r.state = "empty" /\ r.status = "none" /\ r \in RecordTypes
  BY <1>2 DEF RecordTypes
<1>4. /\ records' = [records EXCEPT ![t] = r] /\ op' = [op EXCEPT ![t] = "new"]
      /\ phase = "up" /\ UNCHANGED <<phase, todo, clock, dirty>>
  BY <1>1 DEF INV!TreeNew, INV!Free
<1>5. InventoryTypes'
  BY <1>3, <1>4 DEF BasicInv, InventoryTypes, Ops
<1>6. RecordsInv'
  BY <1>3, <1>4 DEF BasicInv, InventoryTypes, RecordsInv, INV!Exists, INV!States
<1>7. OpsInv'
  BY <1>3, <1>4 DEF BasicInv, InventoryTypes, OpsInv, INV!Exists
<1>8. PhaseInv'
  <2>1. todo = << >> /\ DOMAIN todo = {}
    BY <1>4 DEF BasicInv, PhaseInv
  <2> QED
    BY <1>4, <2>1 DEF BasicInv, PhaseInv
<1> QED
  BY <1>5, <1>6, <1>7, <1>8 DEF BasicInv

LEMMA RecordNewBasics == ASSUME BasicInv, NEW t \in Tokens, INV!RecordNew(t) PROVE BasicInv'
<1>1. PICK st \in INV!States, u \in INV!Statuses, o \in Ops :
        st = "unvetted" /\ u = "unreviewed" /\ o = "add"
  BY DEF INV!States, INV!Statuses, Ops
<1>2. /\ INV!Save(t, st, u) /\ op' = [op EXCEPT ![t] = o] /\ phase = "up"
      /\ UNCHANGED <<phase, todo, dirty>>
  BY <1>1 DEF INV!RecordNew
<1> QED
  BY <1>1, <1>2, SavedBasics

\* The record is saved, and nobody updates the files.
LEMMA SaveUnlistedBasics ==
  ASSUME BasicInv, NEW t \in Tokens, NEW st \in INV!States, NEW u \in INV!Statuses,
         u = "unreviewed" => st = "unvetted", INV!SaveUnlisted(t, st, u)
  PROVE  BasicInv'
<1>1. PICK o \in Ops : o = "idle"
  BY DEF Ops
<1>2. /\ INV!Save(t, st, u) /\ op' = [op EXCEPT ![t] = o] /\ phase # "fsck"
      /\ UNCHANGED <<phase, todo>> /\ dirty' = TRUE
  BY <1>1 DEF INV!SaveUnlisted
<1> QED
  BY <1>1, <1>2, SavedBasics

LEMMA UnlistedBasics ==
  ASSUME BasicInv, NEW t \in Tokens,
         \/ INV!RecordNewUnlisted(t)
         \/ \E status \in INV!Statuses : INV!RecordSetStatusUnlisted(t, status)
  PROVE  BasicInv'
<1>1. CASE INV!RecordNewUnlisted(t)
  <2>1. "unvetted" \in INV!States /\ "unreviewed" \in INV!Statuses
    BY DEF INV!States, INV!Statuses
  <2> QED
    BY <1>1, <2>1, SaveUnlistedBasics DEF INV!RecordNewUnlisted
<1>2. CASE \E status \in INV!Statuses : INV!RecordSetStatusUnlisted(t, status)
  <2>1. PICK status \in INV!Statuses : INV!RecordSetStatusUnlisted(t, status)
    BY <1>2
  <2>2. PICK st : st = IF status = "public" THEN "vetted" ELSE records[t].state
    OBVIOUS
  <2>3. st \in INV!States /\ status # "unreviewed"
    BY <2>1, <2>2 DEF INV!RecordSetStatusUnlisted, INV!Exists, INV!States,
       INV!statusChangeIsAllowed
  <2>4. INV!SaveUnlisted(t, st, status)
    BY <2>1, <2>2 DEF INV!RecordSetStatusUnlisted
  <2> QED
    BY <2>3, <2>4, SaveUnlistedBasics
<1> QED
  BY <1>1, <1>2

LEMMA RecordEditBasics == ASSUME BasicInv, NEW t \in Tokens, INV!RecordEdit(t) PROVE BasicInv'
<1>1. PICK st, u, o : st = records[t].state /\ u = records[t].status /\ o = op[t]
  OBVIOUS
<1>2. st \in INV!States /\ u \in INV!Statuses /\ o = "idle" /\ o \in Ops
  BY <1>1 DEF INV!RecordEdit, INV!Free, INV!Exists, BasicInv, RecordsInv, Ops
<1>3. u = "unreviewed" => st = "unvetted"
  BY <1>1 DEF BasicInv, RecordsInv
<1>4. op' = [op EXCEPT ![t] = o]
  BY <1>1 DEF INV!RecordEdit, BasicInv, InventoryTypes
<1>5. INV!Save(t, st, u) /\ phase = "up" /\ UNCHANGED <<phase, todo, dirty>>
  BY <1>1 DEF INV!RecordEdit, INV!Free
<1> QED
  BY <1>2, <1>3, <1>4, <1>5, SavedBasics

LEMMA RecordSetStatusBasics ==
  ASSUME BasicInv, NEW t \in Tokens, NEW status \in INV!Statuses, INV!RecordSetStatus(t, status)
  PROVE  BasicInv'
<1>1. PICK st, o : /\ st = IF status = "public" THEN "vetted" ELSE records[t].state
                   /\ o = IF status = "public" THEN "move" ELSE "update"
  OBVIOUS
<1>2. st \in INV!States /\ o \in Ops /\ status # "unreviewed" /\ o # "new" /\ o # "add"
  BY <1>1 DEF INV!RecordSetStatus, INV!Exists, INV!States, Ops, INV!statusChangeIsAllowed
<1>3. o = "move" => st = "vetted" /\ status = "public"
  BY <1>1
<1>4. /\ INV!Save(t, st, status) /\ phase = "up" /\ UNCHANGED <<phase, todo, dirty>>
      /\ op' = [op EXCEPT ![t] = o]
  BY <1>1 DEF INV!RecordSetStatus, INV!Free
<1> QED
  BY <1>2, <1>3, <1>4, SavedBasics

LEMMA OpEndsBasics ==
  ASSUME BasicInv, NEW t \in Tokens, phase = "up", op' = [op EXCEPT ![t] = "idle"],
         UNCHANGED <<records, phase, todo, clock>>, dirty' \in BOOLEAN
  PROVE  BasicInv'
<1>1. InventoryTypes'
  BY DEF BasicInv, InventoryTypes, Ops
<1>2. RecordsInv'
  BY DEF BasicInv, RecordsInv, INV!Exists
<1>3. OpsInv'
  BY DEF BasicInv, InventoryTypes, OpsInv, INV!Exists
<1>4. PhaseInv'
  BY DEF BasicInv, PhaseInv, INV!Exists
<1> QED
  BY <1>1, <1>2, <1>3, <1>4 DEF BasicInv

LEMMA CrashBasics == ASSUME BasicInv, INV!Crash PROVE BasicInv'
<1>1. /\ op' = [t \in Tokens |-> "idle"] /\ phase' = "down" /\ todo' = << >>
      /\ dirty' = TRUE /\ UNCHANGED <<records, clock>>
  BY DEF INV!Crash
<1>2. << >> \in Seq(Tokens) /\ DOMAIN << >> = {}
  OBVIOUS
<1>3. InventoryTypes'
  BY <1>1, <1>2 DEF BasicInv, InventoryTypes, Ops
<1>4. RecordsInv'
  BY <1>1 DEF BasicInv, RecordsInv, INV!Exists
<1>5. OpsInv'
  BY <1>1 DEF OpsInv
<1>6. PhaseInv'
  BY <1>1, <1>2 DEF PhaseInv
<1> QED
  BY <1>3, <1>4, <1>5, <1>6 DEF BasicInv

LEMMA FsckOrdersAre ==
  ASSUME NEW order \in INV!FsckOrders
  PROVE  /\ order \in Seq(Tokens)
         /\ \A n \in DOMAIN order : INV!Exists(order[n])
         /\ \A n, k \in DOMAIN order : order[n] = order[k] => n = k
         /\ \A t \in Tokens : INV!Exists(t) => \E n \in DOMAIN order : order[n] = t
<1>1. PICK m \in 0 .. INV!Cardinality(Tokens) : order \in [1..m -> {t \in Tokens : INV!Exists(t)}]
  BY DEF INV!FsckOrders
<1>2. m \in Nat
  OBVIOUS
<1>3. order \in Seq(Tokens) /\ DOMAIN order = 1..m
  BY <1>1, <1>2
<1>4. \A n \in DOMAIN order : INV!Exists(order[n])
  BY <1>1
<1>5. ASSUME NEW n \in DOMAIN order, NEW k \in DOMAIN order, order[n] = order[k] PROVE n = k
  <2>1. \A a, b \in DOMAIN order : a < b => order[a] # order[b]
    BY DEF INV!FsckOrders
  <2>2. ~(n < k) /\ ~(k < n)
    BY <1>5, <2>1
  <2> QED
    BY <1>2, <1>3, <2>2
<1>6. \A t \in Tokens : INV!Exists(t) => \E n \in DOMAIN order : order[n] = t
  BY DEF INV!FsckOrders
<1> QED
  BY <1>3, <1>4, <1>5, <1>6

LEMMA FsckStartBasics == ASSUME BasicInv, INV!FsckStart PROVE BasicInv'
<1>1. /\ phase = "down" /\ phase' = "fsck" /\ UNCHANGED <<records, op, clock, dirty>>
      /\ todo' \in INV!FsckOrders
  BY DEF INV!FsckStart
<1>2. PICK order \in INV!FsckOrders : todo' = order
  BY <1>1
<1>3. /\ todo' \in Seq(Tokens)
      /\ \A n \in DOMAIN todo' : INV!Exists(todo'[n])
      /\ \A n, k \in DOMAIN todo' : todo'[n] = todo'[k] => n = k
  BY <1>2, FsckOrdersAre
<1>4. InventoryTypes'
  BY <1>1, <1>3 DEF BasicInv, InventoryTypes
<1>5. RecordsInv' /\ OpsInv'
  BY <1>1 DEF BasicInv, RecordsInv, OpsInv, INV!Exists
<1>6. PhaseInv'
  BY <1>1, <1>3 DEF BasicInv, PhaseInv, INV!Exists
<1> QED
  BY <1>4, <1>5, <1>6 DEF BasicInv

LEMMA FsckAddBasics == ASSUME BasicInv, INV!FsckAdd PROVE BasicInv'
<1>1. /\ phase = "fsck" /\ todo # << >> /\ todo' = Tail(todo)
      /\ UNCHANGED <<records, op, phase, clock, dirty>>
  BY DEF INV!FsckAdd
<1>2. todo \in Seq(Tokens)
  BY DEF BasicInv, InventoryTypes
<1>3. /\ todo' \in Seq(Tokens) /\ Len(todo) \in Nat /\ DOMAIN todo = 1..Len(todo)
      /\ DOMAIN todo' = 1..(Len(todo) - 1)
      /\ \A n \in 1..(Len(todo) - 1) : todo'[n] = todo[n + 1]
  BY <1>1, <1>2
<1>4. InventoryTypes'
  BY <1>1, <1>3 DEF BasicInv, InventoryTypes
<1>5. RecordsInv' /\ OpsInv'
  BY <1>1 DEF BasicInv, RecordsInv, OpsInv, INV!Exists
<1>6. ASSUME NEW n \in DOMAIN todo' PROVE n + 1 \in DOMAIN todo /\ todo'[n] = todo[n + 1]
  BY <1>3
<1>7. ASSUME NEW n \in DOMAIN todo' PROVE records'[todo'[n]].state \in INV!States
  BY <1>1, <1>6 DEF BasicInv, PhaseInv, INV!Exists
<1>8. ASSUME NEW n \in DOMAIN todo', NEW k \in DOMAIN todo', todo'[n] = todo'[k] PROVE n = k
  <2>1. n + 1 = k + 1
    BY <1>6, <1>8 DEF BasicInv, PhaseInv
  <2> QED
    BY <1>3, <2>1
<1>9. PhaseInv'
  BY <1>1, <1>7, <1>8 DEF BasicInv, PhaseInv, INV!Exists
<1> QED
  BY <1>4, <1>5, <1>9 DEF BasicInv

\* The requests and the process do not disturb the basic invariant.
LEMMA BasicStep == ASSUME BasicInv, [INV!Next]_(INV!vars) PROVE BasicInv'
<1>1. CASE \E t \in Tokens :
           \/ INV!TreeNew(t) \/ INV!RecordNew(t)
           \/ INV!RecordNewError(t) \/ INV!RecordNewUnlisted(t) \/ INV!RecordEdit(t)
  <2>1. PICK t \in Tokens :
           \/ INV!TreeNew(t) \/ INV!RecordNew(t)
           \/ INV!RecordNewError(t) \/ INV!RecordNewUnlisted(t) \/ INV!RecordEdit(t)
    BY <1>1
  <2>2. CASE INV!RecordNewError(t)
    <3>1. /\ phase = "up" /\ op' = [op EXCEPT ![t] = "idle"]
          /\ UNCHANGED <<records, phase, todo, clock>> /\ dirty' \in BOOLEAN
      BY <2>2 DEF INV!RecordNewError, BasicInv, InventoryTypes
    <3> QED
      BY <3>1, OpEndsBasics
  <2> QED
    BY <2>1, <2>2, TreeNewBasics, RecordNewBasics, RecordEditBasics, UnlistedBasics
<1>2. CASE \E t \in Tokens, s \in INV!Statuses :
             INV!RecordSetStatus(t, s) \/ INV!RecordSetStatusUnlisted(t, s)
  BY <1>2, RecordSetStatusBasics, UnlistedBasics
<1>3. CASE \E t \in Tokens : INV!CacheUpdate(t)
  <2>1. PICK t \in Tokens : INV!CacheUpdate(t)
    BY <1>3
  <2>2. /\ phase = "up" /\ op' = [op EXCEPT ![t] = "idle"]
        /\ UNCHANGED <<records, phase, todo, clock>> /\ dirty' \in BOOLEAN
    BY <2>1 DEF INV!CacheUpdate
  <2> QED
    BY <2>2, OpEndsBasics
<1>4. CASE UNCHANGED INV!vars
  <2>1. UNCHANGED <<records, op, phase, todo, clock, dirty>>
    BY <1>4 DEF INV!vars
  <2> QED
    BY <2>1 DEF BasicInv, InventoryTypes, RecordsInv, OpsInv, PhaseInv, INV!Exists
<1>5. CASE INV!Crash
  BY <1>5, CrashBasics
<1>6. CASE INV!Start
  <2>1. /\ phase = "down" /\ phase' = "up"
        /\ UNCHANGED <<records, op, todo, clock, dirty>>
    BY <1>6 DEF INV!Start
  <2> QED
    BY <2>1 DEF BasicInv, InventoryTypes, RecordsInv, OpsInv, PhaseInv, INV!Exists
<1>7. CASE INV!FsckStart
  BY <1>7, FsckStartBasics
<1>8. CASE INV!FsckAdd
  BY <1>8, FsckAddBasics
<1>9. CASE INV!FsckDone
  <2>1. /\ phase = "fsck" /\ todo = << >> /\ phase' = "up" /\ dirty' = FALSE
        /\ UNCHANGED <<records, op, todo, clock>>
    BY <1>9 DEF INV!FsckDone
  <2> QED
    BY <2>1 DEF BasicInv, InventoryTypes, RecordsInv, OpsInv, PhaseInv, INV!Exists
<1> QED
  BY <1>1, <1>2, <1>3, <1>4, <1>5, <1>6, <1>7, <1>8, <1>9 DEF INV!Next, INV!Read,
     INV!FsckError

-----------------------------------------------------------------------------
(* The files. *)

\* A token of which nothing changes.
LEMMA TokenFrame ==
  ASSUME NEW u \in Tokens, TokenInv(u),
         records'[u] = records[u], op'[u] = op[u], Pending(u)' <=> Pending(u),
         \A s \in INV!States : TokenIn(inv, s, u)' = TokenIn(inv, s, u)
  PROVE  TokenInv(u)'
<1>1. Shown(u)' = Shown(u) /\ INV!Entry(u)' = INV!Entry(u)
  BY DEF Shown, INV!Exists, INV!Entry
<1> QED
  BY <1>1 DEF TokenInv

\* The files do not change.
LEMMA SameFiles ==
  ASSUME FilesInv, NEW t \in Tokens, inv' = inv,
         \A u \in Tokens \ {t} : /\ records'[u] = records[u] /\ op'[u] = op[u]
                                 /\ Pending(u)' <=> Pending(u),
         TokenInv(t)'
  PROVE  FilesInv'
<1>1. Good(inv)'
  BY DEF FilesInv
<1>2. ASSUME NEW u \in Tokens \ {t} PROVE TokenInv(u)'
  <2>1. \A s \in INV!States : TokenIn(inv, s, u)' = TokenIn(inv, s, u)
    OBVIOUS
  <2> QED
    BY <2>1, TokenFrame DEF FilesInv
<1> QED
  BY <1>1, <1>2 DEF FilesInv

LEMMA OthersAre ==
  ASSUME NEW i, NEW j, NEW s, NEW t, NEW u, u # t, OtherEntries(j, s, t) = OtherEntries(i, s, t)
  PROVE  TokenIn(j, s, u) = TokenIn(i, s, u)
<1>1. ASSUME NEW x PROVE x \in TokenIn(j, s, u) <=> x \in TokenIn(i, s, u)
  <2>1. x \in TokenIn(j, s, u) <=> x \in OtherEntries(j, s, t) /\ x.token = u
    BY DEF TokenIn, OtherEntries
  <2>2. x \in TokenIn(i, s, u) <=> x \in OtherEntries(i, s, t) /\ x.token = u
    BY DEF TokenIn, OtherEntries
  <2> QED
    BY <2>1, <2>2
<1> QED
  BY <1>1

\* The entries of one token change.
LEMMA OneToken ==
  ASSUME FilesInv, NEW t \in Tokens, Good(inv'),
         \A s \in INV!States : OtherEntries(inv', s, t) = OtherEntries(inv, s, t),
         \A u \in Tokens \ {t} : /\ records'[u] = records[u] /\ op'[u] = op[u]
                                 /\ Pending(u)' <=> Pending(u),
         TokenInv(t)'
  PROVE  FilesInv'
<1>1. Good(inv)'
  OBVIOUS
<1>2. ASSUME NEW u \in Tokens \ {t} PROVE TokenInv(u)'
  <2>1. \A s \in INV!States : TokenIn(inv', s, u) = TokenIn(inv, s, u)
    BY OthersAre
  <2>2. \A s \in INV!States : TokenIn(inv, s, u)' = TokenIn(inv, s, u)
    BY <2>1
  <2> QED
    BY <2>2, TokenFrame DEF FilesInv
<1> QED
  BY <1>1, <1>2 DEF FilesInv

\* A token that is in no file before and after.
LEMMA StaysUnlisted ==
  ASSUME NEW t \in Tokens, TokenInv(t), Shown(t) = "none", Shown(t)' = "none", inv' = inv
  PROVE  TokenInv(t)'
<1>1. \A s \in INV!States : s # "none"
  BY DEF INV!States
<1>2. \A s \in INV!States : TokenIn(inv, s, t)' = {}
  BY <1>1 DEF TokenInv
<1> QED
  BY <1>1, <1>2 DEF TokenInv

LEMMA NotPending == ASSUME phase # "fsck", phase' # "fsck", NEW u
                    PROVE  ~Pending(u) /\ ~Pending(u)'
BY DEF Pending

LEMMA TreeNewFiles ==
  ASSUME BasicInv, FilesInv, NEW t \in Tokens, INV!TreeNew(t) PROVE FilesInv'
<1>1. /\ phase = "up" /\ phase' = "up" /\ inv' = inv /\ records[t] = INV!NoTree
      /\ records' = [records EXCEPT ![t] = INV!EmptyTree] /\ op' = [op EXCEPT ![t] = "new"]
  BY DEF INV!TreeNew, INV!Free
<1>2. records[t].state = "none" /\ records'[t].state = "empty"
  BY <1>1 DEF INV!NoTree, INV!EmptyTree, BasicInv, InventoryTypes
<1>3. ~INV!Exists(t) /\ ~INV!Exists(t)'
  BY <1>2 DEF INV!Exists, INV!States
<1>4. Shown(t) = "none" /\ Shown(t)' = "none"
  BY <1>3 DEF Shown
<1>5. TokenInv(t)'
  BY <1>1, <1>4, StaysUnlisted DEF FilesInv
<1>6. \A u \in Tokens \ {t} : /\ records'[u] = records[u] /\ op'[u] = op[u]
                              /\ Pending(u)' <=> Pending(u)
  BY <1>1, NotPending DEF BasicInv, InventoryTypes
<1> QED
  BY <1>1, <1>5, <1>6, SameFiles

LEMMA RecordNewFiles ==
  ASSUME BasicInv, FilesInv, NEW t \in Tokens, INV!RecordNew(t) PROVE FilesInv'
<1>1. /\ phase = "up" /\ phase' = "up" /\ inv' = inv /\ op[t] = "new"
      /\ op' = [op EXCEPT ![t] = "add"] /\ INV!Save(t, "unvetted", "unreviewed")
  BY DEF INV!RecordNew
<1>2. PICK r : records' = [records EXCEPT ![t] = r]
  BY <1>1 DEF INV!Save
<1>3. records[t].state = "empty" /\ op'[t] = "add"
  BY <1>1 DEF BasicInv, OpsInv, InventoryTypes
<1>4. ~INV!Exists(t)
  BY <1>3 DEF INV!Exists, INV!States
<1>5. Shown(t) = "none" /\ Shown(t)' = "none"
  BY <1>3, <1>4 DEF Shown
<1>6. TokenInv(t)'
  BY <1>1, <1>5, StaysUnlisted DEF FilesInv
<1>7. \A u \in Tokens \ {t} : /\ records'[u] = records[u] /\ op'[u] = op[u]
                              /\ Pending(u)' <=> Pending(u)
  BY <1>1, <1>2, NotPending DEF BasicInv, InventoryTypes
<1> QED
  BY <1>1, <1>6, <1>7, SameFiles

LEMMA RecordNewErrorFiles ==
  ASSUME BasicInv, FilesInv, NEW t \in Tokens, INV!RecordNewError(t) PROVE FilesInv'
<1>1. /\ phase = "up" /\ phase' = "up" /\ inv' = inv /\ op[t] = "new"
      /\ op' = [op EXCEPT ![t] = "idle"] /\ records' = records
  BY DEF INV!RecordNewError
<1>2. records[t].state = "empty"
  BY <1>1 DEF BasicInv, OpsInv
<1>3. ~INV!Exists(t) /\ ~INV!Exists(t)'
  BY <1>1, <1>2 DEF INV!Exists, INV!States
<1>4. Shown(t) = "none" /\ Shown(t)' = "none"
  BY <1>3 DEF Shown
<1>5. TokenInv(t)'
  BY <1>1, <1>4, StaysUnlisted DEF FilesInv
<1>6. \A u \in Tokens \ {t} : /\ records'[u] = records[u] /\ op'[u] = op[u]
                              /\ Pending(u)' <=> Pending(u)
  BY <1>1, NotPending DEF BasicInv, InventoryTypes
<1> QED
  BY <1>1, <1>5, <1>6, SameFiles

LEMMA RecordEditFiles ==
  ASSUME BasicInv, FilesInv, NEW t \in Tokens, INV!RecordEdit(t) PROVE FilesInv'
<1>1. /\ phase = "up" /\ phase' = "up" /\ inv' = inv /\ op' = op
      /\ INV!Save(t, records[t].state, records[t].status)
  BY DEF INV!RecordEdit, INV!Free
<1>2. records' = [records EXCEPT ![t] = [state |-> records[t].state,
                    status |-> records[t].status, time |-> clock + 1]]
  BY <1>1 DEF INV!Save
<1>3. /\ records'[t].state = records[t].state /\ records'[t].status = records[t].status
      /\ \A u \in Tokens \ {t} : records'[u] = records[u]
  BY <1>2 DEF BasicInv, InventoryTypes
<1>4. ~Pending(t) /\ ~Pending(t)'
  BY <1>1, NotPending
<1>5. Shown(t)' = Shown(t) /\ INV!Entry(t)' = INV!Entry(t)
  BY <1>1, <1>3, <1>4 DEF Shown, INV!Exists, INV!Entry
<1>6. TokenInv(t)'
  BY <1>1, <1>5 DEF FilesInv, TokenInv
<1>7. \A u \in Tokens \ {t} : Pending(u)' <=> Pending(u)
  BY <1>1, NotPending
<1> QED
  BY <1>1, <1>3, <1>6, <1>7, SameFiles

LEMMA RecordSetStatusFiles ==
  ASSUME BasicInv, FilesInv, NEW t \in Tokens, NEW status \in INV!Statuses,
         INV!RecordSetStatus(t, status)
  PROVE  FilesInv'
<1>1. PICK st, o : /\ st = IF status = "public" THEN "vetted" ELSE records[t].state
                   /\ o = IF status = "public" THEN "move" ELSE "update"
  OBVIOUS
<1>2. /\ phase = "up" /\ phase' = "up" /\ inv' = inv /\ op[t] = "idle" /\ INV!Exists(t)
      /\ INV!statusChangeIsAllowed(records[t].status, status)
      /\ op' = [op EXCEPT ![t] = o] /\ INV!Save(t, st, status)
  BY <1>1 DEF INV!RecordSetStatus, INV!Free
<1>3. records' = [records EXCEPT ![t] =
                    [state |-> st, status |-> status, time |-> clock + 1]]
  BY <1>2 DEF INV!Save
<1>4. /\ records'[t].state = st /\ op'[t] = o
      /\ \A u \in Tokens \ {t} : records'[u] = records[u] /\ op'[u] = op[u]
  BY <1>2, <1>3 DEF BasicInv, InventoryTypes
<1>5. ~Pending(t) /\ ~Pending(t)'
  BY <1>2, NotPending
<1>6. Shown(t) = records[t].state
  BY <1>2, <1>5 DEF Shown
<1>7. Shown(t)' = records[t].state /\ o # "idle"
  <2>1. CASE status = "public"
    <3>1. o = "move" /\ st = "vetted" /\ records[t].status = "unreviewed"
      BY <1>1, <1>2, <2>1 DEF INV!statusChangeIsAllowed
    <3>2. records[t].state = "unvetted"
      BY <3>1 DEF BasicInv, RecordsInv
    <3>3. Shown(t)' = "unvetted"
      BY <1>4, <1>5, <3>1 DEF Shown, INV!Exists, INV!States
    <3> QED
      BY <3>1, <3>2, <3>3
  <2>2. CASE status # "public"
    <3>1. o = "update" /\ st = records[t].state
      BY <1>1, <2>2
    <3>2. Shown(t)' = st
      BY <1>2, <1>4, <1>5, <3>1 DEF Shown, INV!Exists
    <3> QED
      BY <3>1, <3>2
  <2> QED
    BY <2>1, <2>2
<1>8. TokenInv(t)'
  BY <1>2, <1>4, <1>6, <1>7 DEF FilesInv, TokenInv
<1>9. \A u \in Tokens \ {t} : Pending(u)' <=> Pending(u)
  BY <1>2, NotPending
<1> QED
  BY <1>2, <1>4, <1>8, <1>9, SameFiles

\* The token is listed in the file of its state with its status.
LEMMA NowListed ==
  ASSUME NEW t \in Tokens, NEW s \in INV!States, Shown(t)' = s,
         TokenIn(inv', s, t) = {INV!Entry(t)'},
         \A u \in INV!States \ {s} : TokenIn(inv', u, t) = {}
  PROVE  TokenInv(t)'
<1>1. \A u \in INV!States : TokenIn(inv, u, t)' = TokenIn(inv', u, t)
  OBVIOUS
<1> QED
  BY <1>1 DEF TokenInv

\* An update finds what it needs, so it does not fail, and the files then show the
\* record as it is.
LEMMA CacheUpdateFiles ==
  ASSUME BasicInv, FilesInv, NEW t \in Tokens, INV!CacheUpdate(t)
  PROVE  FilesInv' /\ dirty' = dirty
<1>1. PICK ws, result : ws = INV!CacheWrites(t) /\ result = INV!AfterWrites(inv, ws, t)[Len(ws)]
  OBVIOUS
<1>2. /\ phase = "up" /\ phase' = "up" /\ op[t] \in INV!Updating /\ inv' = result.inv
      /\ dirty' = (dirty \/ ~result.ok) /\ op' = [op EXCEPT ![t] = "idle"]
      /\ records' = records
  BY <1>1 DEF INV!CacheUpdate
<1>3. op'[t] = "idle" /\ \A u \in Tokens \ {t} : op'[u] = op[u]
  BY <1>2 DEF BasicInv, InventoryTypes
<1>4. Good(inv) /\ TokenInv(t)
  BY DEF FilesInv
<1>5. ~Pending(t) /\ ~Pending(t)'
  BY <1>2, NotPending
<1>6. PICK st : st = records[t].state
  OBVIOUS
<1>7. PICK r : r = records[t].status
  OBVIOUS
<1>8. st \in INV!States /\ r \in INV!Statuses
  BY <1>2, <1>6, <1>7 DEF INV!Updating, BasicInv, OpsInv, RecordsInv, INV!Exists,
     INV!States
<1>9. Shown(t)' = st /\ INV!Entry(t)' = EntryOf(t, r)
  BY <1>2, <1>3, <1>5, <1>6, <1>7, <1>8 DEF Shown, INV!Exists, INV!Entry, EntryOf
<1>10. \E j : /\ result = NoWrite(j) /\ Good(j)
              /\ \A s \in INV!States : OtherEntries(j, s, t) = OtherEntries(inv, s, t)
              /\ TokenIn(j, st, t) = {EntryOf(t, r)}
              /\ \A s \in INV!States \ {st} : TokenIn(j, s, t) = {}
  <2>1. CASE op[t] = "add"
    <3>1. st = "unvetted" /\ r = "unreviewed"
      BY <1>6, <1>7, <2>1 DEF BasicInv, OpsInv
    <3>2. ws = INV!invAdd(st, r)
      BY <1>1, <2>1, <3>1 DEF INV!CacheWrites
    <3>3. Shown(t) = "none" /\ \A s \in INV!States : s # "none"
      BY <2>1 DEF Shown, INV!States
    <3>4. \A s \in INV!States : TokenIn(inv, s, t) = {}
      BY <1>4, <3>3 DEF TokenInv
    <3>5. PICK j : result = NoWrite(j) /\ Changed(inv, j, st, t, {EntryOf(t, r)})
      BY <1>1, <1>4, <1>8, <3>2, <3>4, AddDone
    <3> QED
      BY <3>4, <3>5 DEF Changed
  <2>2. CASE op[t] = "move"
    <3>1. st = "vetted" /\ r = "public"
      BY <1>6, <1>7, <2>2 DEF BasicInv, OpsInv
    <3>2. ws = INV!invMoveToVetted(r)
      BY <1>1, <1>7, <2>2 DEF INV!CacheWrites
    <3>3. Shown(t) = "unvetted"
      BY <1>5, <1>6, <1>8, <2>2 DEF Shown, INV!Exists
    <3>4. TokenIn(inv, "unvetted", t) # {} /\ TokenIn(inv, "vetted", t) = {}
      BY <1>4, <3>3 DEF TokenInv, INV!States
    <3>5. PICK j : result = NoWrite(j) /\ Moved(inv, j, t, {EntryOf(t, r)})
      BY <1>1, <1>4, <1>8, <3>2, <3>4, MoveDone
    <3> QED
      BY <3>1, <3>5 DEF Moved, INV!States
  <2>3. CASE op[t] = "update"
    <3>1. ws = INV!invUpdate(st, r)
      BY <1>1, <1>6, <1>7, <2>3 DEF INV!CacheWrites
    <3>2. Shown(t) = st
      BY <1>5, <1>6, <1>8, <2>3 DEF Shown, INV!Exists
    <3>3. TokenIn(inv, st, t) # {} /\ \A s \in INV!States \ {st} : TokenIn(inv, s, t) = {}
      BY <1>4, <1>8, <3>2 DEF TokenInv
    <3>4. PICK j : result = NoWrite(j) /\ Changed(inv, j, st, t, {EntryOf(t, r)})
      BY <1>1, <1>4, <1>8, <3>1, <3>3, UpdateDone
    <3> QED
      BY <3>3, <3>4 DEF Changed
  <2> QED
    BY <1>2, <2>1, <2>2, <2>3 DEF INV!Updating
<1>11. PICK j : /\ result = NoWrite(j) /\ Good(j)
                /\ \A s \in INV!States : OtherEntries(j, s, t) = OtherEntries(inv, s, t)
                /\ TokenIn(j, st, t) = {EntryOf(t, r)}
                /\ \A s \in INV!States \ {st} : TokenIn(j, s, t) = {}
  BY <1>10
<1>12. result.inv = j /\ result.ok
  BY <1>11 DEF NoWrite
<1>13. inv' = j
  BY <1>2, <1>12
<1>14. TokenInv(t)'
  BY <1>8, <1>9, <1>11, <1>13, NowListed
<1>15. \A u \in Tokens \ {t} : Pending(u)' <=> Pending(u)
  BY <1>2, NotPending
<1>16. FilesInv'
  BY <1>2, <1>3, <1>11, <1>13, <1>14, <1>15, OneToken
<1>17. dirty' = dirty
  BY <1>2, <1>12 DEF BasicInv, InventoryTypes
<1> QED
  BY <1>16, <1>17

\* The fsck starts from no files, with every record still to be added.
LEMMA FsckStartFiles == ASSUME BasicInv, INV!FsckStart PROVE FilesInv'
<1>1. PICK order \in INV!FsckOrders : todo' = order
  BY DEF INV!FsckStart
<1>2. /\ phase' = "fsck" /\ UNCHANGED <<records, op>>
      /\ inv' = [s \in INV!States |-> INV!NoFile]
  BY DEF INV!FsckStart
<1>3. \A t \in Tokens : INV!Exists(t) => Pending(t)'
  BY <1>1, <1>2, FsckOrdersAre DEF Pending
<1>4. \A t \in Tokens : Shown(t)' = "none"
  BY <1>2, <1>3 DEF Shown, INV!Exists
<1>5. PICK e : e = << >>
  OBVIOUS
<1>6. e \in Seq(Rec) /\ DOMAIN e = {}
  BY <1>5
<1>7. PICK file : file = [valid |-> TRUE, entries |-> e]
  OBVIOUS
<1>8. /\ \A s \in INV!States : inv'[s] = file
      /\ file.entries = e /\ file.valid = TRUE
      /\ file \in [valid : BOOLEAN, entries : Seq(Rec)]
      /\ inv' = [s \in INV!States |-> file]
  BY <1>2, <1>5, <1>6, <1>7 DEF INV!NoFile
<1>9. inv' \in Files
  BY <1>8 DEF Files
<1>10. Good(inv')
  BY <1>6, <1>8, <1>9 DEF Good, OneEach
<1>11. \A s \in INV!States, t \in Tokens : TokenIn(inv', s, t) = {}
  BY <1>6, <1>8 DEF TokenIn, Listed, RangeOf
<1>12. \A t \in Tokens : TokenInv(t)'
  <2> SUFFICES ASSUME NEW t \in Tokens PROVE TokenInv(t)'
    OBVIOUS
  <2>1. \A s \in INV!States : TokenIn(inv, s, t)' = {} /\ s # "none"
    BY <1>11 DEF INV!States
  <2> QED
    BY <1>4, <2>1 DEF TokenInv
<1>13. Good(inv)'
  BY <1>10
<1> QED
  BY <1>12, <1>13 DEF FilesInv

\* The fsck adds the first of the records that it has still to add.
LEMMA FsckAddFiles == ASSUME BasicInv, FilesInv, INV!FsckAdd PROVE FilesInv'
<1>1. /\ phase = "fsck" /\ phase' = "fsck" /\ todo # << >> /\ todo' = Tail(todo)
      /\ UNCHANGED <<records, op>>
  BY DEF INV!FsckAdd
<1>2. PICK t : t = Head(todo)
  OBVIOUS
<1>3. /\ todo \in Seq(Tokens) /\ Len(todo) \in Nat /\ DOMAIN todo = 1..Len(todo)
      /\ 1 \in DOMAIN todo /\ todo[1] = t
      /\ DOMAIN todo' = 1..(Len(todo) - 1)
      /\ \A n \in 1..(Len(todo) - 1) : todo'[n] = todo[n + 1]
  BY <1>1, <1>2 DEF BasicInv, InventoryTypes
<1>4. t \in Tokens /\ INV!Exists(t) /\ op[t] = "idle"
  BY <1>1, <1>3 DEF BasicInv, PhaseInv
<1>5. Pending(t)
  BY <1>1, <1>3 DEF Pending
<1>6. ~Pending(t)'
  <2> SUFFICES ASSUME NEW n \in DOMAIN todo', todo'[n] = t PROVE FALSE
    BY DEF Pending
  <2>1. n + 1 \in DOMAIN todo /\ todo[n + 1] = t /\ n + 1 # 1
    BY <1>3
  <2> QED
    BY <1>3, <2>1 DEF BasicInv, PhaseInv
<1>7. ASSUME NEW u \in Tokens \ {t} PROVE Pending(u)' <=> Pending(u)
  <2>1. ASSUME NEW n \in DOMAIN todo', todo'[n] = u PROVE \E k \in DOMAIN todo : todo[k] = u
    <3>1. n + 1 \in DOMAIN todo /\ todo[n + 1] = u
      BY <1>3, <2>1
    <3> QED
      BY <3>1
  <2>2. ASSUME NEW k \in DOMAIN todo, todo[k] = u PROVE \E n \in DOMAIN todo' : todo'[n] = u
    <3>1. k # 1
      BY <1>3, <2>2
    <3>2. k - 1 \in DOMAIN todo' /\ (k - 1) + 1 = k
      BY <1>3, <3>1
    <3>3. todo'[k - 1] = u
      BY <1>3, <2>2, <3>2
    <3> QED
      BY <3>2, <3>3
  <2> QED
    BY <1>1, <2>1, <2>2 DEF Pending
<1>8. PICK st : st = records[t].state
  OBVIOUS
<1>9. PICK r : r = records[t].status
  OBVIOUS
<1>10. st \in INV!States /\ r \in INV!Statuses
  BY <1>4, <1>8, <1>9 DEF BasicInv, RecordsInv, INV!Exists
<1>11. Shown(t)' = st /\ INV!Entry(t)' = EntryOf(t, r)
  BY <1>1, <1>4, <1>6, <1>8, <1>9 DEF Shown, INV!Exists, INV!Entry, EntryOf
<1>12. Good(inv) /\ \A s \in INV!States : TokenIn(inv, s, t) = {}
  <2>1. Shown(t) = "none" /\ \A s \in INV!States : s # "none"
    BY <1>5 DEF Shown, INV!States
  <2> QED
    BY <1>4, <2>1 DEF FilesInv, TokenInv
<1>13. PICK ws, result : ws = INV!FsckWrites(t) /\ result = INV!AfterWrites(inv, ws, t)[Len(ws)]
  OBVIOUS
<1>14. inv' = result.inv
  BY <1>2, <1>13 DEF INV!FsckAdd
<1>15. \E j : /\ result = NoWrite(j) /\ Good(j)
              /\ \A s \in INV!States : OtherEntries(j, s, t) = OtherEntries(inv, s, t)
              /\ TokenIn(j, st, t) = {EntryOf(t, r)}
              /\ \A s \in INV!States \ {st} : TokenIn(j, s, t) = {}
  <2>1. CASE st = "vetted"
    <3>1. ws = INV!invAdd("unvetted", "unreviewed") \o INV!invMoveToVetted(r)
      BY <1>8, <1>9, <1>13, <2>1 DEF INV!FsckWrites
    <3>2. TokenIn(inv, "unvetted", t) = {} /\ TokenIn(inv, "vetted", t) = {}
      BY <1>12 DEF INV!States
    <3>3. PICK j : result = NoWrite(j) /\ Moved(inv, j, t, {EntryOf(t, r)})
      BY <1>4, <1>10, <1>12, <1>13, <3>1, <3>2, FsckVettedDone
    <3> QED
      BY <2>1, <3>3 DEF Moved, INV!States
  <2>2. CASE st = "unvetted"
    <3>1. ws = INV!invAdd(st, r)
      BY <1>8, <1>9, <1>13, <2>2 DEF INV!FsckWrites
    <3>2. PICK j : result = NoWrite(j) /\ Changed(inv, j, st, t, {EntryOf(t, r)})
      BY <1>4, <1>10, <1>12, <1>13, <3>1, AddDone
    <3> QED
      BY <1>12, <3>2 DEF Changed
  <2> QED
    BY <1>10, <2>1, <2>2 DEF INV!States
<1>16. PICK j : /\ result = NoWrite(j) /\ Good(j)
                /\ \A s \in INV!States : OtherEntries(j, s, t) = OtherEntries(inv, s, t)
                /\ TokenIn(j, st, t) = {EntryOf(t, r)}
                /\ \A s \in INV!States \ {st} : TokenIn(j, s, t) = {}
  BY <1>15
<1>17. inv' = j
  BY <1>14, <1>16 DEF NoWrite
<1>18. TokenInv(t)'
  BY <1>4, <1>10, <1>11, <1>16, <1>17, NowListed
<1> QED
  BY <1>1, <1>4, <1>7, <1>16, <1>17, <1>18, OneToken

\* With nothing left to add, the files are those of a process that is up.
LEMMA FsckDoneFiles == ASSUME BasicInv, FilesInv, INV!FsckDone PROVE FilesInv'
<1>1. /\ phase = "fsck" /\ phase' = "up" /\ todo = << >>
      /\ UNCHANGED <<records, inv, op, todo>>
  BY DEF INV!FsckDone
<1>2. DOMAIN todo = {}
  BY <1>1
<1>3. Good(inv)'
  BY <1>1 DEF FilesInv
<1>4. ASSUME NEW t \in Tokens PROVE TokenInv(t)'
  <2>1. Pending(t)' <=> Pending(t)
    BY <1>1, <1>2 DEF Pending
  <2>2. \A s \in INV!States : TokenIn(inv, s, t)' = TokenIn(inv, s, t)
    BY <1>1
  <2> QED
    BY <1>1, <2>1, <2>2, TokenFrame DEF FilesInv
<1> QED
  BY <1>3, <1>4 DEF FilesInv

LEMMA StutterFiles == ASSUME FilesInv, UNCHANGED INV!vars PROVE FilesInv'
<1>1. UNCHANGED <<records, inv, op, phase, todo>>
  BY DEF INV!vars
<1>2. Good(inv)'
  BY <1>1 DEF FilesInv
<1>3. ASSUME NEW t \in Tokens PROVE TokenInv(t)'
  <2>1. Pending(t)' <=> Pending(t)
    BY <1>1 DEF Pending
  <2>2. \A s \in INV!States : TokenIn(inv, s, t)' = TokenIn(inv, s, t)
    BY <1>1
  <2> QED
    BY <1>1, <2>1, <2>2, TokenFrame DEF FilesInv
<1> QED
  BY <1>2, <1>3 DEF FilesInv

\* Only a request that fails after its save loses an update as long as none was lost.
LEMMA UpStep ==
  ASSUME BasicInv, FilesInv, [INV!Next]_(INV!vars), phase = "up", phase' = "up"
  PROVE  dirty' = TRUE \/ (FilesInv' /\ dirty' = dirty)
<1>1. CASE \E t \in Tokens :
           \/ INV!TreeNew(t) \/ INV!RecordNew(t)
           \/ INV!RecordNewError(t) \/ INV!RecordEdit(t)
  <2>1. PICK t \in Tokens :
           \/ INV!TreeNew(t) \/ INV!RecordNew(t)
           \/ INV!RecordNewError(t) \/ INV!RecordEdit(t)
    BY <1>1
  <2>2. dirty' = dirty
    BY <2>1 DEF INV!TreeNew, INV!RecordNew, INV!RecordNewError, INV!RecordEdit
  <2> QED
    BY <2>1, <2>2, TreeNewFiles, RecordNewFiles, RecordNewErrorFiles, RecordEditFiles
<1>2. CASE \E t \in Tokens, s \in INV!Statuses : INV!RecordSetStatus(t, s)
  <2>1. PICK t \in Tokens, s \in INV!Statuses : INV!RecordSetStatus(t, s)
    BY <1>2
  <2>2. dirty' = dirty
    BY <2>1 DEF INV!RecordSetStatus
  <2> QED
    BY <2>1, <2>2, RecordSetStatusFiles
<1>3. CASE \E t \in Tokens : INV!CacheUpdate(t)
  BY <1>3, CacheUpdateFiles
<1>4. CASE UNCHANGED INV!vars
  BY <1>4, StutterFiles DEF INV!vars
<1>5. ~INV!Crash /\ ~INV!Start /\ ~INV!FsckStart /\ ~INV!FsckAdd /\ ~INV!FsckDone
  BY DEF INV!Crash, INV!Start, INV!FsckStart, INV!FsckAdd, INV!FsckDone
<1>6. CASE \E t \in Tokens : \/ INV!RecordNewUnlisted(t)
                            \/ \E s \in INV!Statuses : INV!RecordSetStatusUnlisted(t, s)
  BY <1>6 DEF INV!RecordNewUnlisted, INV!RecordSetStatusUnlisted, INV!SaveUnlisted
<1> QED
  BY <1>1, <1>2, <1>3, <1>4, <1>5, <1>6 DEF INV!Next, INV!Read, INV!FsckError

LEMMA InventoryStep == ASSUME InventoryInv, [INV!Next]_(INV!vars) PROVE InventoryInv'
<1>1. BasicInv /\ BasicInv' /\ ListingInv
  BY BasicStep DEF InventoryInv
<1>2. ListingInv'
  <2>1. CASE phase = "up" /\ phase' = "up"
    <3>1. CASE dirty
      <4>1. dirty'
        <5>1. ~INV!Crash /\ ~INV!Start /\ ~INV!FsckStart /\ ~INV!FsckAdd /\ ~INV!FsckDone
          BY <2>1 DEF INV!Crash, INV!Start, INV!FsckStart, INV!FsckAdd, INV!FsckDone
        <5> QED
          BY <3>1, <5>1 DEF INV!Next, INV!Read, INV!FsckError, INV!vars, INV!TreeNew,
             INV!RecordNew, INV!RecordNewError, INV!RecordEdit, INV!RecordSetStatus,
         INV!RecordNewUnlisted, INV!RecordSetStatusUnlisted, INV!SaveUnlisted,
             INV!RecordNewUnlisted, INV!RecordSetStatusUnlisted, INV!SaveUnlisted,
             INV!CacheUpdate
      <4> QED
        BY <2>1, <4>1 DEF ListingInv
    <3>2. CASE ~dirty
      <4>1. FilesInv
        BY <1>1, <2>1, <3>2 DEF ListingInv
      <4> QED
        BY <1>1, <2>1, <4>1, UpStep DEF ListingInv
    <3> QED
      BY <3>1, <3>2
  <2>2. CASE phase = "up" /\ phase' # "up"
    <3>1. phase' = "down"
      BY <2>2 DEF INV!Next, INV!Read, INV!FsckError, INV!vars, INV!TreeNew, INV!Free,
         INV!RecordNew, INV!RecordNewError, INV!RecordEdit, INV!RecordSetStatus,
         INV!RecordNewUnlisted, INV!RecordSetStatusUnlisted, INV!SaveUnlisted,
         INV!CacheUpdate, INV!Crash, INV!Start, INV!FsckStart, INV!FsckAdd,
         INV!FsckDone
    <3> QED
      BY <3>1 DEF ListingInv
  <2>3. CASE phase = "down"
    <3>1. \/ INV!Start \/ INV!FsckStart \/ UNCHANGED INV!vars
          \/ dirty' = TRUE /\ phase' = "down"
      BY <2>3 DEF INV!Next, INV!Read, INV!FsckError, INV!TreeNew, INV!Free,
         INV!RecordNew, INV!RecordNewError, INV!RecordEdit, INV!RecordSetStatus,
         INV!RecordNewUnlisted, INV!RecordSetStatusUnlisted, INV!SaveUnlisted,
         INV!CacheUpdate, INV!Crash, INV!FsckAdd, INV!FsckDone
    <3>2. CASE INV!FsckStart
      BY <1>1, <3>2, FsckStartFiles DEF ListingInv
    <3>3. CASE INV!Start
      <4>1. dirty /\ dirty' = dirty /\ phase' = "up"
        BY <1>1, <2>3, <3>3 DEF INV!Start, BasicInv, PhaseInv
      <4> QED
        BY <4>1 DEF ListingInv
    <3>4. CASE UNCHANGED INV!vars
      BY <2>3, <3>4 DEF INV!vars, ListingInv
    <3>5. CASE dirty' = TRUE /\ phase' = "down"
      BY <3>5 DEF ListingInv
    <3> QED
      BY <3>1, <3>2, <3>3, <3>4, <3>5
  <2>4. CASE phase = "fsck"
    <3>1. FilesInv
      BY <1>1, <2>4 DEF ListingInv
    <3>2. INV!Crash \/ INV!FsckAdd \/ INV!FsckDone \/ UNCHANGED INV!vars
      BY <2>4 DEF INV!Next, INV!Read, INV!FsckError, INV!TreeNew, INV!Free,
         INV!RecordNew, INV!RecordNewError, INV!RecordEdit, INV!RecordSetStatus,
         INV!RecordNewUnlisted, INV!RecordSetStatusUnlisted, INV!SaveUnlisted,
         INV!CacheUpdate, INV!Start, INV!FsckStart
    <3>3. CASE INV!Crash
      BY <3>3 DEF INV!Crash, ListingInv
    <3>4. CASE INV!FsckAdd
      BY <1>1, <3>1, <3>4, FsckAddFiles DEF ListingInv
    <3>5. CASE INV!FsckDone
      BY <1>1, <3>1, <3>5, FsckDoneFiles DEF ListingInv
    <3>6. CASE UNCHANGED INV!vars
      BY <3>1, <3>6, StutterFiles DEF ListingInv
    <3> QED
      BY <3>2, <3>3, <3>4, <3>5, <3>6
  <2> QED
    BY <1>1, <2>1, <2>2, <2>3, <2>4 DEF BasicInv, InventoryTypes
<1> QED
  BY <1>1, <1>2 DEF InventoryInv

LEMMA InventoryStart == ASSUME INV!ConstantsAssumption, INV!Init PROVE InventoryInv
<1>1. PICK r : r = INV!NoTree
  OBVIOUS
<1>2. r = [state |-> "none", status |-> "none", time |-> 0]
  BY <1>1 DEF INV!NoTree
<1>3. r.state = "none" /\ r.status = "none" /\ r \in RecordTypes
  BY <1>2 DEF RecordTypes
<1>4. /\ records = [t \in Tokens |-> r] /\ op = [t \in Tokens |-> "idle"]
      /\ phase = "up" /\ todo = << >> /\ clock = 0 /\ dirty = FALSE
      /\ inv = [s \in INV!States |-> INV!NoFile]
  BY <1>1 DEF INV!Init
<1>5. << >> \in Seq(Tokens) /\ DOMAIN << >> = {}
  OBVIOUS
<1>6. InventoryTypes
  BY <1>3, <1>4, <1>5 DEF InventoryTypes, Ops
<1>7. \A t \in Tokens : ~INV!Exists(t)
  BY <1>3, <1>4 DEF INV!Exists, INV!States
<1>8. RecordsInv /\ OpsInv
  BY <1>3, <1>4, <1>7 DEF RecordsInv, OpsInv
<1>9. PhaseInv
  BY <1>4, <1>5 DEF PhaseInv
<1>10. PICK e : e = << >>
  OBVIOUS
<1>11. e \in Seq(Rec) /\ DOMAIN e = {}
  BY <1>10
<1>12. PICK file : file = [valid |-> TRUE, entries |-> e]
  OBVIOUS
<1>13. /\ \A s \in INV!States : inv[s] = file
       /\ file.entries = e /\ file.valid = TRUE
       /\ file \in [valid : BOOLEAN, entries : Seq(Rec)]
       /\ inv = [s \in INV!States |-> file]
  BY <1>4, <1>10, <1>11, <1>12 DEF INV!NoFile
<1>14. inv \in Files
  BY <1>13 DEF Files
<1>15. Good(inv)
  BY <1>11, <1>13, <1>14 DEF Good, OneEach
<1>16. \A t \in Tokens : TokenInv(t)
  <2> SUFFICES ASSUME NEW t \in Tokens PROVE TokenInv(t)
    OBVIOUS
  <2>1. \A s \in INV!States : TokenIn(inv, s, t) = {} /\ s # "none"
    BY <1>11, <1>13 DEF TokenIn, Listed, RangeOf, INV!States
  <2>2. Shown(t) = "none"
    BY <1>7 DEF Shown
  <2> QED
    BY <2>1, <2>2 DEF TokenInv
<1> QED
  BY <1>6, <1>8, <1>9, <1>15, <1>16 DEF InventoryInv, BasicInv, ListingInv, FilesInv

LEMMA InventoryCoherent == InventoryInv => INV!CacheIsCoherent
<1> SUFFICES ASSUME InventoryInv, ~dirty, phase = "up", NEW t \in Tokens, op[t] = "idle",
                    NEW s \in INV!States
             PROVE  IF INV!Exists(t) /\ s = records[t].state THEN INV!In(INV!Entry(t), s)
                    ELSE ~INV!Has(inv[s].entries, t)
  BY DEF INV!CacheIsCoherent
<1>1. TokenInv(t)
  BY DEF InventoryInv, ListingInv, FilesInv
<1>2. Shown(t) = IF INV!Exists(t) THEN records[t].state ELSE "none"
  BY DEF Shown, Pending
<1>3. CASE INV!Exists(t) /\ s = records[t].state
  <2>1. INV!Entry(t) \in TokenIn(inv, s, t)
    BY <1>1, <1>2, <1>3 DEF TokenInv
  <2> QED
    BY <1>3, <2>1 DEF TokenIn, Listed, RangeOf, INV!In
<1>4. CASE ~(INV!Exists(t) /\ s = records[t].state)
  <2>1. s # Shown(t)
    BY <1>2, <1>4 DEF INV!States
  <2> QED
    BY <1>1, <1>4, <2>1, TokenListed DEF TokenInv
<1> QED
  BY <1>3, <1>4

\* Unless an update of the inventory was lost, in a stop of the process or with a request
\* that failed or timed out although its save took effect, a record that no request is
\* working on is listed with its status in the file of its state and in no other file,
\* for any number of records, saves, such failures and restarts, with and without the
\* fsck (the wrappers at inventory.go:262 to 289 panic because an error would break it).
THEOREM InventoryTheorem ==
  ASSUME INV!ConstantsAssumption PROVE INV!Spec => []CacheIsCoherent
<1>1. INV!Init => InventoryInv
  BY InventoryStart
<1>2. InventoryInv /\ [INV!Next]_(INV!vars) => InventoryInv'
  BY InventoryStep
<1>3. INV!CacheIsCoherent <=> CacheIsCoherent
  BY DEF INV!CacheIsCoherent, CacheIsCoherent, INV!States, States, INV!Exists, Exists,
         INV!In, In, INV!Entry, Entry, INV!Has, Has
<1> QED
  BY <1>1, <1>2, <1>3, InventoryCoherent, PTL DEF INV!Spec

\* A cache update finds the entries that it has to delete and succeeds, unless an update
\* was lost since the files were last rebuilt: the panics of the wrappers are reached
\* only after a stop of the process, or a request that failed or timed out although its
\* save took effect.
THEOREM UpdatesFindEntries ==
  ASSUME INV!ConstantsAssumption
  PROVE  INV!Spec => [][\A t \in Tokens : INV!CacheUpdate(t) /\ ~dirty => ~dirty']_(INV!vars)
<1>1. INV!Init => InventoryInv
  BY InventoryStart
<1>2. InventoryInv /\ [INV!Next]_(INV!vars) => InventoryInv'
  BY InventoryStep
<1>3. InventoryInv => [\A t \in Tokens : INV!CacheUpdate(t) /\ ~dirty => ~dirty']_(INV!vars)
  <2> SUFFICES ASSUME InventoryInv, NEW t \in Tokens, INV!CacheUpdate(t), ~dirty
               PROVE  ~dirty'
    OBVIOUS
  <2>1. phase = "up"
    BY DEF INV!CacheUpdate
  <2>2. BasicInv /\ FilesInv
    BY <2>1 DEF InventoryInv, ListingInv
  <2> QED
    BY <2>2, CacheUpdateFiles
<1> QED
  BY <1>1, <1>2, <1>3, PTL DEF INV!Spec

-----------------------------------------------------------------------------
(* Pages of the inventory.  FlattenSeq is defined by a recursive function, which exists. *)

Flat(q, g, i) == IF i = 1 THEN q[i] ELSE g[i - 1] \o q[i]

LEMMA FlatExists ==
  ASSUME NEW n \in Nat, NEW q
  PROVE  \E f : f = [i \in 1..n |-> Flat(q, f, i)]
<1> DEFINE Ok(g, k) == g = [i \in 1..k |-> Flat(q, g, i)]
           B == {k \in 0..n : ~ \E g : Ok(g, k)}
<1>1. B = {}
  <2> SUFFICES ASSUME B # {} PROVE FALSE
    OBVIOUS
  <2>1. PICK k \in B : \A m \in B : k <= m
    <3>1. B \subseteq Nat
      OBVIOUS
    <3> HIDE DEF B
    <3> QED
      BY <3>1, Least
  <2>2. k \in 0..n /\ ~ \E g : Ok(g, k)
    OBVIOUS
  <2>3. CASE k = 0
    <3>1. PICK g : g = [i \in 1..0 |-> 0]
      OBVIOUS
    <3>2. 1..0 = {}
      OBVIOUS
    <3>3. Ok(g, 0)
      BY <3>1, <3>2
    <3> QED
      BY <2>2, <2>3, <3>3
  <2>4. CASE k # 0
    <3>1. k \in Nat /\ k - 1 \in 0..n /\ ~(k <= k - 1)
      BY <2>2, <2>4
    <3>2. k - 1 \notin B
      BY <2>1, <3>1
    <3>3. PICK g : Ok(g, k - 1)
      BY <3>1, <3>2
    <3>4. PICK h : h = [i \in 1..k |-> IF i = k THEN Flat(q, g, k) ELSE g[i]]
      OBVIOUS
    <3>5. \A i \in 1..(k - 1) : g[i] = Flat(q, g, i)
      BY <3>3
    <3>6. \A i \in 1..(k - 1) : h[i] = g[i]
      BY <3>1, <3>4
    <3>7. ASSUME NEW i \in 1..k PROVE Flat(q, h, i) = Flat(q, g, i)
      <4>1. CASE i = 1
        BY <4>1 DEF Flat
      <4>2. CASE i # 1
        <5>1. i - 1 \in 1..(k - 1)
          BY <3>1, <4>2
        <5> QED
          BY <3>6, <4>2, <5>1 DEF Flat
      <4> QED
        BY <4>1, <4>2
    <3>8. ASSUME NEW i \in 1..k PROVE h[i] = Flat(q, h, i)
      <4>1. CASE i = k
        BY <3>4, <3>7, <4>1
      <4>2. CASE i # k
        <5>1. i \in 1..(k - 1)
          BY <3>1, <4>2
        <5> QED
          BY <3>5, <3>6, <3>7, <5>1
      <4> QED
        BY <4>1, <4>2
    <3>9. Ok(h, k)
      BY <3>4, <3>8
    <3> QED
      BY <2>2, <3>9
  <2> QED
    BY <2>3, <2>4
<1>2. n \in 0..n
  OBVIOUS
<1> QED
  BY <1>1, <1>2

\* f has the concatenations of the first elements of q.
Flattens(f, q, n) == f[1] = q[1] /\ \A i \in 2..n : f[i] = f[i - 1] \o q[i]

LEMMA FlatIs ==
  ASSUME NEW n \in Nat \ {0}, NEW q, Len(q) = n
  PROVE  \E f : INV!FlattenSeq(q) = f[n] /\ Flattens(f, q, n)
<1> DEFINE rec(g) == [i \in 1..n |-> IF i = 1 THEN q[i] ELSE g[i - 1] \o q[i]]
<1>1. PICK f : f = [i \in 1..n |-> Flat(q, f, i)]
  BY FlatExists
<1>2. f = rec(f)
  BY <1>1 DEF Flat
<1>3. PICK h : h = CHOOSE g : g = rec(g)
  OBVIOUS
<1>4. h = rec(h)
  BY <1>2, <1>3
<1>5. INV!FlattenSeq(q) = h[n]
  BY <1>3 DEF INV!FlattenSeq
<1>6. ASSUME NEW i \in 1..n PROVE h[i] = IF i = 1 THEN q[i] ELSE h[i - 1] \o q[i]
  <2>1. rec(h)[i] = IF i = 1 THEN q[i] ELSE h[i - 1] \o q[i]
    OBVIOUS
  <2>2. h[i] = rec(h)[i]
    <3> HIDE DEF rec
    <3> QED
      BY <1>4
  <2> QED
    BY <2>1, <2>2
<1> HIDE DEF rec
<1>7. h[1] = q[1]
  BY <1>6
<1>8. ASSUME NEW i \in 2..n PROVE h[i] = h[i - 1] \o q[i]
  <2>1. i \in 1..n /\ i # 1
    OBVIOUS
  <2> QED
    BY <1>6, <2>1
<1>9. Flattens(h, q, n)
  BY <1>7, <1>8 DEF Flattens
<1> QED
  BY <1>5, <1>9

\* A property of the prefixes that holds of the first one and goes from each to
\* the next one holds of the last one.
LEMMA Upward ==
  ASSUME NEW n \in Nat \ {0}, NEW G, 1 \in G, \A i \in 2..n : i - 1 \in G => i \in G
  PROVE  n \in G
<1> DEFINE B == {i \in 1..n : i \notin G}
<1>1. SUFFICES ASSUME n \notin G PROVE FALSE
  OBVIOUS
<1>2. PICK k \in B : \A m \in B : k <= m
  <2>1. B \subseteq Nat /\ B # {}
    BY <1>1
  <2> HIDE DEF B
  <2> QED
    BY <2>1, Least
<1>3. k \in 1..n /\ k \notin G /\ k \in Nat
  OBVIOUS
<1>4. k \in 2..n /\ k - 1 \in 1..n /\ ~(k <= k - 1)
  BY <1>3
<1>5. k - 1 \notin B
  BY <1>2, <1>4
<1>6. k - 1 \in G
  BY <1>4, <1>5
<1> QED
  BY <1>3, <1>4, <1>6

\* Consecutive pieces of a sequence make up the sequence.
LEMMA Pieces ==
  ASSUME NEW S, NEW s \in Seq(S), NEW m \in Nat \ {0}, NEW q, Len(q) = m,
         NEW c, \A i \in 0..m : c[i] \in 0..Len(s), c[0] = 0, c[m] = Len(s),
         \A i \in 1..m : c[i - 1] <= c[i] /\ q[i] = SubSeq(s, c[i - 1] + 1, c[i])
  PROVE  INV!FlattenSeq(q) = s
<1>1. PICK f : INV!FlattenSeq(q) = f[m] /\ Flattens(f, q, m)
  BY FlatIs
<1>2. PICK z \in Nat : z = Len(s)
  OBVIOUS
<1> DEFINE G == {i \in 1..m : f[i] = SubSeq(s, 1, c[i])}
<1>3. 1 \in G
  <2>1. 1 \in 1..m /\ 1 - 1 = 0 /\ 0 + 1 = 1
    OBVIOUS
  <2>2. q[1] = SubSeq(s, c[0] + 1, c[1])
    BY <2>1
  <2>3. f[1] = SubSeq(s, 1, c[1])
    BY <1>1, <2>2 DEF Flattens
  <2> QED
    BY <2>1, <2>3
<1>4. ASSUME NEW i \in 2..m, i - 1 \in G PROVE i \in G
  <2>1. i - 1 \in 0..m /\ i \in 1..m /\ i \in 0..m
    OBVIOUS
  <2>2. PICK k : k = c[i - 1]
    OBVIOUS
  <2>3. PICK n : n = c[i]
    OBVIOUS
  <2>4. k \in 0..z /\ n \in 0..z /\ k <= n /\ q[i] = SubSeq(s, k + 1, n)
    BY <1>2, <2>1, <2>2, <2>3
  <2>5. 1 \in 1..(Len(s) + 1) /\ k \in 0..Len(s) /\ n \in k..Len(s) /\ 1 - 1 = 0
    BY <1>2, <2>4
  <2>6. SubSeq(s, 1, k) \o SubSeq(s, k + 1, n) = SubSeq(s, 1, n)
    BY <2>5, ConcatAdjacentSubSeq
  <2>7. f[i - 1] = SubSeq(s, 1, k) /\ f[i] = f[i - 1] \o q[i]
    BY <1>1, <1>4, <2>2 DEF Flattens
  <2>8. f[i] = SubSeq(s, 1, n)
    BY <2>4, <2>6, <2>7
  <2> QED
    BY <2>1, <2>3, <2>8
<1>5. m \in G
  <2> HIDE DEF G
  <2> QED
    BY <1>3, <1>4, Upward
<1>6. SubSeq(s, 1, Len(s)) = s
  BY SubSeqFull
<1> QED
  BY <1>1, <1>5, <1>6
Lower(m, n) == IF m < n THEN m ELSE n
-----------------------------------------------------------------------------
(* The matches in a file and the scan for a page: the recursive functions exist. *)

MatchStep(acc, x, st) == IF x.status = st THEN Append(acc, x.token) ELSE acc
Match(e, st, g, i) == IF i = 0 THEN << >> ELSE MatchStep(g[i - 1], e[i], st)

LEMMA MatchExists ==
  ASSUME NEW n \in Nat, NEW e, NEW st
  PROVE  \E f : f = [i \in 0..n |-> Match(e, st, f, i)]
<1> DEFINE Ok(g, k) == g = [i \in 0..k |-> Match(e, st, g, i)]
           B == {k \in 0..n : ~ \E g : Ok(g, k)}
<1>1. B = {}
  <2> SUFFICES ASSUME B # {} PROVE FALSE
    OBVIOUS
  <2>1. PICK k \in B : \A m \in B : k <= m
    <3>1. B \subseteq Nat
      OBVIOUS
    <3> HIDE DEF B
    <3> QED
      BY <3>1, Least
  <2>2. k \in 0..n /\ ~ \E g : Ok(g, k)
    OBVIOUS
  <2>3. CASE k = 0
    <3>1. PICK g : g = [i \in 0..0 |-> Match(e, st, g, 0)]
      <4>1. PICK h : h = [i \in 0..0 |-> Match(e, st, << >>, 0)]
        OBVIOUS
      <4>2. Match(e, st, h, 0) = Match(e, st, << >>, 0)
        BY DEF Match
      <4> QED
        BY <4>1, <4>2
    <3>2. \A i \in 0..0 : i = 0
      OBVIOUS
    <3>3. Ok(g, 0)
      BY <3>1, <3>2
    <3> QED
      BY <2>2, <2>3, <3>3
  <2>4. CASE k # 0
    <3>1. k \in Nat /\ k - 1 \in 0..n /\ ~(k <= k - 1)
      BY <2>2, <2>4
    <3>2. k - 1 \notin B
      BY <2>1, <3>1
    <3>3. PICK g : Ok(g, k - 1)
      BY <3>1, <3>2
    <3>4. PICK h : h = [i \in 0..k |-> IF i = k THEN Match(e, st, g, k) ELSE g[i]]
      OBVIOUS
    <3>5. \A i \in 0..(k - 1) : g[i] = Match(e, st, g, i)
      BY <3>3
    <3>6. \A i \in 0..(k - 1) : h[i] = g[i]
      BY <3>1, <3>4
    <3>7. ASSUME NEW i \in 0..k PROVE Match(e, st, h, i) = Match(e, st, g, i)
      <4>1. CASE i = 0
        BY <4>1 DEF Match
      <4>2. CASE i # 0
        <5>1. i - 1 \in 0..(k - 1)
          BY <3>1, <4>2
        <5>2. h[i - 1] = g[i - 1]
          BY <3>6, <5>1
        <5> QED
          BY <4>2, <5>2 DEF Match
      <4> QED
        BY <4>1, <4>2
    <3>8. ASSUME NEW i \in 0..k PROVE h[i] = Match(e, st, h, i)
      <4>1. CASE i = k
        BY <3>4, <3>7, <4>1
      <4>2. CASE i # k
        <5>1. i \in 0..(k - 1)
          BY <3>1, <4>2
        <5> QED
          BY <3>5, <3>6, <3>7, <5>1
      <4> QED
        BY <4>1, <4>2
    <3>9. Ok(h, k)
      BY <3>4, <3>8
    <3> QED
      BY <2>2, <3>9
  <2> QED
    BY <2>3, <2>4
<1>2. n \in 0..n
  OBVIOUS
<1> QED
  BY <1>1, <1>2

\* f has the matches among the first entries.
Matches(f, e, st) ==
  f[0] = << >> /\ \A i \in 1..Len(e) : f[i] = MatchStep(f[i - 1], e[i], st)

LEMMA MatchingIs ==
  ASSUME NEW e, Len(e) \in Nat, NEW st
  PROVE  \E f : INV!Matching(e, st) = f[Len(e)] /\ Matches(f, e, st)
<1>1. PICK n \in Nat : n = Len(e)
  OBVIOUS
<1> DEFINE rec(g) == [i \in 0..Len(e) |-> IF i = 0 THEN << >>
                       ELSE IF e[i].status = st THEN Append(g[i - 1], e[i].token)
                       ELSE g[i - 1]]
<1>2. PICK f : f = [i \in 0..n |-> Match(e, st, f, i)]
  BY MatchExists
<1>3. f = rec(f)
  BY <1>1, <1>2 DEF Match, MatchStep
<1>4. PICK h : h = CHOOSE g : g = rec(g)
  OBVIOUS
<1>5. h = rec(h)
  BY <1>3, <1>4
<1>6. INV!Matching(e, st) = h[Len(e)]
  BY <1>4 DEF INV!Matching
<1>7. ASSUME NEW i \in 0..n
      PROVE  h[i] = IF i = 0 THEN << >> ELSE MatchStep(h[i - 1], e[i], st)
  <2>1. rec(h)[i] = IF i = 0 THEN << >> ELSE MatchStep(h[i - 1], e[i], st)
    BY <1>1 DEF MatchStep
  <2>2. h[i] = rec(h)[i]
    <3> HIDE DEF rec
    <3> QED
      BY <1>5
  <2> QED
    BY <2>1, <2>2
<1> HIDE DEF rec
<1>8. h[0] = << >>
  BY <1>7
<1>9. ASSUME NEW i \in 1..n PROVE h[i] = MatchStep(h[i - 1], e[i], st)
  <2>1. i \in 0..n /\ i # 0
    OBVIOUS
  <2> QED
    BY <1>7, <2>1
<1>10. Matches(h, e, st)
  BY <1>1, <1>8, <1>9 DEF Matches
<1> QED
  BY <1>6, <1>10

ScanStep(acc, x, st, K, at) ==
  IF x.status # st \/ Len(acc.tokens) = K THEN acc
  ELSE [found |-> acc.found + 1,
        tokens |-> IF acc.found < at THEN acc.tokens ELSE Append(acc.tokens, x.token)]
PageScan(e, st, K, at, g, i) ==
  IF i = 0 THEN [found |-> 0, tokens |-> << >>] ELSE ScanStep(g[i - 1], e[i], st, K, at)

IsPageScan(f, n, e, st, K, at) == f = [i \in 0..n |-> PageScan(e, st, K, at, f, i)]

LEMMA PageScanExists ==
  ASSUME NEW n \in Nat, NEW e, NEW st, NEW K, NEW at
  PROVE  \E f : IsPageScan(f, n, e, st, K, at)
<1> DEFINE Ok(g, k) == g = [i \in 0..k |-> PageScan(e, st, K, at, g, i)]
           B == {k \in 0..n : ~ \E g : Ok(g, k)}
<1>1. B = {}
  <2> SUFFICES ASSUME B # {} PROVE FALSE
    OBVIOUS
  <2>1. PICK k \in B : \A m \in B : k <= m
    <3>1. B \subseteq Nat
      OBVIOUS
    <3> HIDE DEF B
    <3> QED
      BY <3>1, Least
  <2>2. k \in 0..n /\ ~ \E g : Ok(g, k)
    OBVIOUS
  <2>3. CASE k = 0
    <3>1. PICK g : g = [i \in 0..0 |-> PageScan(e, st, K, at, g, 0)]
      <4>1. PICK h : h = [i \in 0..0 |-> PageScan(e, st, K, at, << >>, 0)]
        OBVIOUS
      <4>2. PageScan(e, st, K, at, h, 0) = PageScan(e, st, K, at, << >>, 0)
        BY DEF PageScan
      <4> QED
        BY <4>1, <4>2
    <3>2. \A i \in 0..0 : i = 0
      OBVIOUS
    <3>3. Ok(g, 0)
      BY <3>1, <3>2
    <3> QED
      BY <2>2, <2>3, <3>3
  <2>4. CASE k # 0
    <3>1. k \in Nat /\ k - 1 \in 0..n /\ ~(k <= k - 1)
      BY <2>2, <2>4
    <3>2. k - 1 \notin B
      BY <2>1, <3>1
    <3>3. PICK g : Ok(g, k - 1)
      BY <3>1, <3>2
    <3>4. PICK h : h = [i \in 0..k |-> IF i = k THEN PageScan(e, st, K, at, g, k) ELSE g[i]]
      OBVIOUS
    <3>5. \A i \in 0..(k - 1) : g[i] = PageScan(e, st, K, at, g, i)
      BY <3>3
    <3>6. \A i \in 0..(k - 1) : h[i] = g[i]
      BY <3>1, <3>4
    <3>7. ASSUME NEW i \in 0..k PROVE PageScan(e, st, K, at, h, i) = PageScan(e, st, K, at, g, i)
      <4>1. CASE i = 0
        BY <4>1 DEF PageScan
      <4>2. CASE i # 0
        <5>1. i - 1 \in 0..(k - 1)
          BY <3>1, <4>2
        <5>2. h[i - 1] = g[i - 1]
          BY <3>6, <5>1
        <5> QED
          BY <4>2, <5>2 DEF PageScan
      <4> QED
        BY <4>1, <4>2
    <3>8. ASSUME NEW i \in 0..k PROVE h[i] = PageScan(e, st, K, at, h, i)
      <4>1. CASE i = k
        BY <3>4, <3>7, <4>1
      <4>2. CASE i # k
        <5>1. i \in 0..(k - 1)
          BY <3>1, <4>2
        <5> QED
          BY <3>5, <3>6, <3>7, <5>1
      <4> QED
        BY <4>1, <4>2
    <3>9. Ok(h, k)
      BY <3>4, <3>8
    <3> QED
      BY <2>2, <3>9
  <2> QED
    BY <2>3, <2>4
<1>2. n \in 0..n
  OBVIOUS
<1> QED
  BY <1>1, <1>2 DEF IsPageScan

\* g has what the scan has found in the first entries.
Scans(g, e, st, K, at) ==
  /\ g[0] = [found |-> 0, tokens |-> << >>]
  /\ \A i \in 1..Len(e) : g[i] = ScanStep(g[i - 1], e[i], st, K, at)

LEMMA CollectedIs ==
  ASSUME NEW e, Len(e) \in Nat, NEW st, NEW K, NEW at
  PROVE  \E g : INV!Collected(e, st, K, at) = g[Len(e)].tokens /\ Scans(g, e, st, K, at)
<1>1. PICK n \in Nat : n = Len(e)
  OBVIOUS
<1>2. PICK f : IsPageScan(f, n, e, st, K, at)
  BY PageScanExists
<1> DEFINE rec(g) == [i \in 0..Len(e) |->
       IF i = 0 THEN [found |-> 0, tokens |-> << >>]
       ELSE IF e[i].status # st \/ Len(g[i - 1].tokens) = K THEN g[i - 1]
            ELSE [found |-> g[i - 1].found + 1,
                  tokens |-> IF g[i - 1].found < at THEN g[i - 1].tokens
                             ELSE Append(g[i - 1].tokens, e[i].token)]]
<1>3. f = rec(f)
  BY <1>1, <1>2 DEF IsPageScan, PageScan, ScanStep
<1>4. PICK h : h = CHOOSE g : g = rec(g)
  OBVIOUS
<1>5. h = rec(h)
  BY <1>3, <1>4
<1>6. INV!Collected(e, st, K, at) = h[Len(e)].tokens
  BY <1>4 DEF INV!Collected
<1>7. ASSUME NEW i \in 0..n
      PROVE  h[i] = IF i = 0 THEN [found |-> 0, tokens |-> << >>]
                    ELSE ScanStep(h[i - 1], e[i], st, K, at)
  <2>1. rec(h)[i] = IF i = 0 THEN [found |-> 0, tokens |-> << >>]
                    ELSE ScanStep(h[i - 1], e[i], st, K, at)
    BY <1>1 DEF ScanStep
  <2>2. h[i] = rec(h)[i]
    <3> HIDE DEF rec
    <3> QED
      BY <1>5
  <2> QED
    BY <2>1, <2>2
<1> HIDE DEF rec
<1>8. h[0] = [found |-> 0, tokens |-> << >>]
  BY <1>7
<1>9. ASSUME NEW i \in 1..n PROVE h[i] = ScanStep(h[i - 1], e[i], st, K, at)
  <2>1. i \in 0..n /\ i # 0
    OBVIOUS
  <2> QED
    BY <1>7, <2>1
<1>10. Scans(h, e, st, K, at)
  BY <1>1, <1>8, <1>9 DEF Scans
<1> QED
  BY <1>6, <1>10

IsAppend(z, y, x) == z = Append(y, x)

OneMore(z, y, x, a) ==
  /\ Len(z) = Len(y) + 1
  /\ \A b \in 0..Len(y) : SubSeq(z, a + 1, b) = SubSeq(y, a + 1, b)
  /\ a <= Len(y) => SubSeq(z, a + 1, Len(y) + 1) = Append(SubSeq(y, a + 1, Len(y)), x)

\* A piece of a sequence is one of the longer sequence, and grows with it at the end.
LEMMA AppendPiece ==
  ASSUME NEW S, NEW y \in Seq(S), NEW x \in S, NEW z, IsAppend(z, y, x), NEW a \in Nat
  PROVE  z \in Seq(S) /\ OneMore(z, y, x, a)
<1>1. PICK n \in Nat : n = Len(y)
  OBVIOUS
<1>2. z \in Seq(S) /\ Len(z) = n + 1 /\ z[n + 1] = x /\ \A i \in 1..n : z[i] = y[i]
  BY <1>1 DEF IsAppend
<1>3. PICK c \in Nat : c = a + 1
  OBVIOUS
<1>4. ASSUME NEW b \in 0..n PROVE SubSeq(z, c, b) = SubSeq(y, c, b)
  <2>1. \A i \in c..b : z[i] \in S /\ y[i] \in S /\ z[i] = y[i]
    BY <1>1, <1>2, <1>3
  <2>2. CASE c <= b
    <3>1. PICK m \in Nat : m = b - c + 1
      BY <2>2
    <3>2. SubSeq(z, c, b) = [i \in 1..m |-> z[c + i - 1]]
      BY <2>2, <3>1
    <3>3. SubSeq(y, c, b) = [i \in 1..m |-> y[c + i - 1]]
      BY <2>2, <3>1
    <3>4. \A i \in 1..m : z[c + i - 1] = y[c + i - 1]
      BY <2>1, <3>1
    <3> QED
      BY <3>2, <3>3, <3>4
  <2>3. CASE b < c
    <3>1. SubSeq(z, c, b) = << >> /\ SubSeq(y, c, b) = << >>
      BY <1>3, <2>3, SubSeqEmpty
    <3> QED
      BY <3>1
  <2> QED
    BY <2>2, <2>3
<1>5. ASSUME a <= n PROVE SubSeq(z, c, n + 1) = Append(SubSeq(y, c, n), x)
  <2>1. PICK m \in Nat : m = n - c + 1
    BY <1>3, <1>5
  <2>2. PICK u : u = SubSeq(y, c, n)
    OBVIOUS
  <2>3. u \in Seq(S) /\ Len(u) = m /\ \A i \in 1..m : u[i] = y[c + i - 1]
    BY <1>1, <1>3, <2>1, <2>2
  <2>4. PICK v : v = SubSeq(z, c, n + 1)
    OBVIOUS
  <2>5. v \in Seq(S) /\ Len(v) = m + 1 /\ \A i \in 1..(m + 1) : v[i] = z[c + i - 1]
    BY <1>2, <1>3, <2>1, <2>4
  <2>6. PICK w : w = Append(u, x)
    OBVIOUS
  <2>7. w \in Seq(S) /\ Len(w) = m + 1 /\ w[m + 1] = x /\ \A i \in 1..m : w[i] = u[i]
    BY <2>3, <2>6
  <2>8. ASSUME NEW i \in 1..(m + 1) PROVE v[i] = w[i]
    <3>1. CASE i = m + 1
      <4>1. c + i - 1 = n + 1
        BY <1>3, <2>1, <3>1
      <4> QED
        BY <1>2, <2>5, <2>7, <3>1, <4>1
    <3>2. CASE i # m + 1
      <4>1. i \in 1..m /\ c + i - 1 \in 1..n
        BY <1>3, <2>1, <3>2
      <4> QED
        BY <1>2, <2>3, <2>5, <2>7, <4>1
    <3> QED
      BY <3>1, <3>2
  <2>9. v = w
    BY <2>5, <2>7, <2>8, SeqEqual
  <2> QED
    BY <2>2, <2>4, <2>6, <2>9
<1> QED
  BY <1>1, <1>2, <1>3, <1>4, <1>5 DEF OneMore

\* The scan has counted the matches y up to the end of the page, and has the tokens
\* of the page from its first one on.
ScanOk(acc, y, K, at) ==
  acc.found = Lower(Len(y), at + K) /\ acc.tokens = SubSeq(y, at + 1, acc.found)

LEMMA ScanStepOk ==
  ASSUME NEW K \in Nat \ {0}, NEW at \in Nat, NEW y \in Seq(Tokens), NEW acc,
         ScanOk(acc, y, K, at), NEW x \in Rec, NEW st, NEW z, z = MatchStep(y, x, st)
  PROVE  /\ z \in Seq(Tokens) /\ Len(z) <= Len(y) + 1
         /\ ScanOk(ScanStep(acc, x, st, K, at), z, K, at)
<1>1. PICK n \in Nat : n = Len(y)
  OBVIOUS
<1>2. PICK p : p = acc.found
  OBVIOUS
<1>3. p = Lower(n, at + K) /\ p \in 0..n /\ acc.tokens = SubSeq(y, at + 1, p)
  BY <1>1, <1>2 DEF ScanOk, Lower
<1>4. CASE x.status # st
  <2>1. z = y
    BY <1>4 DEF MatchStep
  <2>2. ScanStep(acc, x, st, K, at) = acc
    BY <1>4 DEF ScanStep
  <2> QED
    BY <2>1, <2>2
<1>5. CASE x.status = st
  <2>1. PICK t \in Tokens : t = x.token
    BY DEF Rec
  <2>2. IsAppend(z, y, t)
    BY <1>5, <2>1 DEF MatchStep, IsAppend
  <2>3. /\ z \in Seq(Tokens) /\ Len(z) = n + 1
        /\ \A b \in 0..n : SubSeq(z, at + 1, b) = SubSeq(y, at + 1, b)
        /\ at <= n => SubSeq(z, at + 1, n + 1) = Append(SubSeq(y, at + 1, n), t)
    <3>1. z \in Seq(Tokens) /\ OneMore(z, y, t, at)
      BY <2>2, AppendPiece
    <3> QED
      BY <1>1, <3>1 DEF OneMore
  <2>4. PICK m : m = Len(acc.tokens)
    OBVIOUS
  <2>5. m = IF at + 1 <= p THEN p - at ELSE 0
    <3>1. \A i \in (at + 1)..p : y[i] \in Tokens
      BY <1>1, <1>3
    <3>2. PICK a \in Int, b \in Int : a = at + 1 /\ b = p
      BY <1>3
    <3>3. Len(SubSeq(y, a, b)) = IF a <= b THEN b - a + 1 ELSE 0
      BY <3>1, <3>2, SubSeqProperties
    <3> QED
      BY <1>3, <2>4, <3>2, <3>3
  <2>6. PICK d : d = ScanStep(acc, x, st, K, at)
    OBVIOUS
  <2>7. ScanOk(d, z, K, at)
    <3>1. CASE m = K
      <4>1. p = at + K
        BY <1>3, <2>5, <3>1 DEF Lower
      <4>2. d = acc
        BY <2>4, <2>6, <3>1 DEF ScanStep
      <4>3. p = Lower(n + 1, at + K)
        BY <1>3, <4>1 DEF Lower
      <4>4. SubSeq(z, at + 1, p) = SubSeq(y, at + 1, p)
        BY <1>3, <2>3
      <4> QED
        BY <1>2, <1>3, <2>3, <4>2, <4>3, <4>4 DEF ScanOk
    <3>2. CASE m # K
      <4>1. p = n /\ n + 1 = Lower(n + 1, at + K)
        BY <1>3, <2>5, <3>2 DEF Lower
      <4>2. d = [found |-> n + 1,
                 tokens |-> IF n < at THEN acc.tokens ELSE Append(acc.tokens, t)]
        BY <1>2, <1>5, <2>1, <2>4, <2>6, <3>2, <4>1 DEF ScanStep
      <4>3. d.found = n + 1 /\ d.tokens = IF n < at THEN acc.tokens ELSE Append(acc.tokens, t)
        BY <4>2
      <4>4. d.tokens = SubSeq(z, at + 1, n + 1)
        <5>1. CASE n < at
          <6>1. PICK a \in Int, b \in Int : a = at + 1 /\ b = n + 1
            OBVIOUS
          <6>2. b < a /\ n < a
            BY <5>1, <6>1
          <6>3. SubSeq(z, a, b) = << >> /\ SubSeq(y, a, n) = << >>
            BY <6>2, SubSeqEmpty
          <6> QED
            BY <1>3, <4>1, <4>3, <5>1, <6>1, <6>3
        <5>2. CASE ~(n < at)
          <6>1. at <= n
            BY <5>2
          <6> QED
            BY <1>3, <2>3, <4>1, <4>3, <5>2, <6>1
        <5> QED
          BY <5>1, <5>2
      <4> QED
        BY <2>3, <4>1, <4>3, <4>4 DEF ScanOk
    <3> QED
      BY <3>1, <3>2
  <2> QED
    BY <1>1, <2>3, <2>6, <2>7
<1> QED
  BY <1>4, <1>5

LEMMA ScanIs ==
  ASSUME NEW e \in Seq(Rec), NEW st, NEW K \in Nat \ {0}, NEW at \in Nat,
         NEW f, Matches(f, e, st), NEW g, Scans(g, e, st, K, at), NEW n, n = Len(e)
  PROVE  /\ f[n] \in Seq(Tokens) /\ Len(f[n]) <= n
         /\ ScanOk(g[n], f[n], K, at)
<1>1. n \in Nat /\ n \in 0..n
  OBVIOUS
<1> DEFINE Fine(i) == f[i] \in Seq(Tokens) /\ Len(f[i]) <= i /\ ScanOk(g[i], f[i], K, at)
           B == {i \in 0..n : ~Fine(i)}
<1>2. Fine(0)
  <2>1. f[0] = << >> /\ g[0] = [found |-> 0, tokens |-> << >>]
    BY DEF Matches, Scans
  <2>2. PICK y : y = << >>
    OBVIOUS
  <2>3. y \in Seq(Tokens) /\ Len(y) = 0
    BY <2>2
  <2>4. SubSeq(y, at + 1, 0) = << >>
    <3>1. PICK a \in Int, b \in Int : a = at + 1 /\ b = 0
      OBVIOUS
    <3>2. SubSeq(y, a, b) = << >>
      BY <3>1, SubSeqEmpty
    <3> QED
      BY <3>1, <3>2
  <2>5. PICK acc : acc = g[0]
    OBVIOUS
  <2>6. acc.found = 0 /\ acc.tokens = << >>
    BY <2>1, <2>5
  <2>7. ScanOk(acc, y, K, at)
    BY <2>3, <2>4, <2>6 DEF ScanOk, Lower
  <2> QED
    BY <2>1, <2>2, <2>3, <2>5, <2>7
<1>3. ASSUME NEW i \in 1..n, Fine(i - 1) PROVE Fine(i)
  <2>1. f[i] = MatchStep(f[i - 1], e[i], st) /\ g[i] = ScanStep(g[i - 1], e[i], st, K, at)
    BY DEF Matches, Scans
  <2>2. PICK y, acc, x, k : y = f[i - 1] /\ acc = g[i - 1] /\ x = e[i] /\ k = i - 1
    OBVIOUS
  <2>3. y \in Seq(Tokens) /\ Len(y) <= k /\ ScanOk(acc, y, K, at) /\ x \in Rec /\ k + 1 = i
    BY <1>3, <2>2
  <2>4. PICK z : z = MatchStep(y, x, st)
    OBVIOUS
  <2>5. /\ z \in Seq(Tokens) /\ Len(z) <= Len(y) + 1
        /\ ScanOk(ScanStep(acc, x, st, K, at), z, K, at)
    BY <2>3, <2>4, ScanStepOk
  <2>6. f[i] = z /\ g[i] = ScanStep(acc, x, st, K, at)
    BY <2>1, <2>2, <2>4
  <2>7. Len(z) <= i
    BY <2>2, <2>3, <2>5
  <2> QED
    BY <2>5, <2>6, <2>7
<1>4. B = {}
  <2> SUFFICES ASSUME B # {} PROVE FALSE
    OBVIOUS
  <2>1. PICK k \in B : \A m \in B : k <= m
    <3>1. B \subseteq Nat
      OBVIOUS
    <3> HIDE DEF B
    <3> QED
      BY <3>1, Least
  <2>2. k \in 0..n /\ ~Fine(k)
    OBVIOUS
  <2> HIDE DEF Fine
  <2>3. k \in 1..n /\ k - 1 \in 0..n /\ ~(k <= k - 1)
    BY <1>2, <2>2
  <2>4. Fine(k - 1)
    BY <2>1, <2>3
  <2> QED
    BY <1>3, <2>2, <2>3, <2>4
<1>5. Fine(n)
  <2> HIDE DEF Fine
  <2> QED
    BY <1>1, <1>4
<1> QED
  BY <1>5

LEMMA SameCardinality == INV!Cardinality(Tokens) = Cardinality(Tokens)
BY DEF INV!Cardinality, Cardinality

LEMMA SameFinite == INV!IsFiniteSet(Tokens) <=> IsFiniteSet(Tokens)
BY DEF INV!IsFiniteSet, IsFiniteSet

\* The matches of a file, and a page of them.
LEMMA MatchesAre ==
  ASSUME NEW e \in Seq(Rec), NEW st, NEW M, M = INV!Matching(e, st)
  PROVE  M \in Seq(Tokens) /\ Len(M) <= Len(e)
<1>1. PICK n \in Nat : n = Len(e)
  OBVIOUS
<1>2. PICK f : M = f[n] /\ Matches(f, e, st)
  BY <1>1, MatchingIs
<1>3. PICK g : Scans(g, e, st, 1, 0)
  BY <1>1, CollectedIs
<1>4. f[n] \in Seq(Tokens) /\ Len(f[n]) <= n
  BY <1>1, <1>2, <1>3, ScanIs
<1> QED
  BY <1>1, <1>2, <1>4

IsPage(t, M, at, K) == t = SubSeq(M, at + 1, Lower(Len(M), at + K))

LEMMA CollectedPage ==
  ASSUME NEW e \in Seq(Rec), NEW st, NEW M, M = INV!Matching(e, st),
         NEW K \in Nat \ {0}, NEW at \in Nat
  PROVE  IsPage(INV!Collected(e, st, K, at), M, at, K)
<1>1. PICK n \in Nat : n = Len(e)
  OBVIOUS
<1>2. PICK f : M = f[n] /\ Matches(f, e, st)
  BY <1>1, MatchingIs
<1>3. PICK g : INV!Collected(e, st, K, at) = g[n].tokens /\ Scans(g, e, st, K, at)
  BY <1>1, CollectedIs
<1>4. ScanOk(g[n], f[n], K, at)
  BY <1>1, <1>2, <1>3, ScanIs
<1> QED
  BY <1>2, <1>3, <1>4 DEF ScanOk, IsPage

\* A file with one entry for each token has at most as many entries as there are tokens.
LEMMA FewEntries ==
  ASSUME IsFiniteSet(Tokens), NEW e \in Seq(Rec), OneEach(e)
  PROVE  Len(e) <= Cardinality(Tokens) /\ Cardinality(Tokens) \in Nat
<1>1. PICK n \in Nat : n = Len(e)
  OBVIOUS
<1>2. PICK f : f = [i \in 1..n |-> e[i].token]
  OBVIOUS
<1>3. f \in [1..n -> Tokens]
  <2>1. ASSUME NEW i \in 1..n PROVE e[i].token \in Tokens
    <3>1. PICK r \in Rec : r = e[i]
      BY <1>1
    <3>2. r.token \in Tokens
      BY DEF Rec
    <3> QED
      BY <3>1, <3>2
  <2> QED
    BY <1>2, <2>1
<1>4. IsInjective(f)
  BY <1>1, <1>2 DEF IsInjective, OneEach
<1>5. f \in Injection(1..n, Tokens)
  BY <1>3, <1>4 DEF Injection
<1>6. Cardinality(1..n) <= Cardinality(Tokens)
  BY <1>5, FS_Injection
<1>7. Cardinality(1..n) = n
  BY FS_Interval
<1>8. Cardinality(Tokens) \in Nat
  BY FS_CardinalityType
<1> QED
  BY <1>1, <1>6, <1>7, <1>8

LEMMA ModBelow == ASSUME NEW a \in Nat, NEW u \in Nat \ {0}, a < u PROVE a % u = a
OBVIOUS

LEMMA Products ==
  ASSUME NEW x \in Nat, NEW y \in Nat, NEW u \in Nat, NEW v \in Nat, x <= u, y <= v
  PROVE  x * y <= u * v
<1>1. PICK d \in Nat : u = x + d
  <2>1. u - x \in Nat /\ u = x + (u - x)
    OBVIOUS
  <2> QED
    BY <2>1
<1>2. PICK b \in Nat : v = y + b
  <2>1. v - y \in Nat /\ v = y + (v - y)
    OBVIOUS
  <2> QED
    BY <2>1
<1>3. u * v = x * y + x * b + d * y + d * b
  BY <1>1, <1>2
<1>4. x * y \in Nat /\ x * b \in Nat /\ d * y \in Nat /\ d * b \in Nat
  OBVIOUS
<1> QED
  BY <1>3, <1>4

\* The positions of the last page fit in the counter.
PagesFit == (Cardinality(Tokens) - 1) * Cardinality(Tokens) < Uint

LEMMA InventoryPages ==
  ASSUME INV!ConstantsAssumption, PagesFit, NEW e \in Seq(Rec), OneEach(e), NEW st,
         NEW K \in 1..Cardinality(Tokens), NEW q, NEW m, m = Cardinality(Tokens),
         q = [n \in 1..m |-> INV!tokensParse(e, st, K, n)]
  PROVE  INV!FlattenSeq(q) = INV!Matching(e, st)
<1>1. IsFiniteSet(Tokens) /\ Uint \in Nat \ {0}
  BY SameFinite DEF INV!ConstantsAssumption
<1>2. m \in Nat \ {0} /\ Len(e) <= m /\ K \in Nat \ {0} /\ K <= m
  BY <1>1, FewEntries
<1>3. PICK M : M = INV!Matching(e, st)
  OBVIOUS
<1>4. PICK z \in Nat : z = Len(M) /\ z <= m /\ M \in Seq(Tokens)
  BY <1>2, <1>3, MatchesAre
<1>5. PICK c : c = [p \in 0..m |-> Lower(z, p * K)]
  OBVIOUS
<1>6. \A p \in 0..m : p * K \in Nat
  BY <1>2
<1>7. \A p \in 0..m : c[p] \in 0..z
  BY <1>5, <1>6 DEF Lower
<1>8. c[0] = 0
  <2>1. 0 * K = 0 /\ 0 \in 0..m
    BY <1>2
  <2> QED
    BY <1>5, <2>1 DEF Lower
<1>9. c[m] = z
  <2>1. z * 1 <= m * K /\ z * 1 = z
    BY <1>2, <1>4, Products
  <2>2. m * K \in Nat /\ z <= m * K /\ m \in 0..m
    BY <1>2, <2>1
  <2> QED
    BY <1>5, <2>2 DEF Lower
<1>10. ASSUME NEW p \in 1..m
       PROVE  c[p - 1] <= c[p] /\ q[p] = SubSeq(M, c[p - 1] + 1, c[p])
  <2>1. PICK a : a = (p - 1) * K
    OBVIOUS
  <2>2. a \in Nat /\ p * K = a + K
    BY <1>2, <2>1
  <2>3. a < Uint
    <3> DEFINE x == p - 1
               y == m - 1
    <3>1. x \in Nat /\ y \in Nat /\ x <= y
      BY <1>2
    <3>2. x * K <= y * m
      <4> HIDE DEF x, y
      <4> QED
        BY <1>2, <3>1, Products
    <3>3. y * m < Uint
      BY DEF PagesFit
    <3>4. a = x * K /\ y * m \in Nat
      BY <1>2, <2>1, <3>1
    <3> QED
      BY <1>1, <2>2, <3>2, <3>3, <3>4
  <2>4. a % Uint = a
    BY <1>1, <2>2, <2>3, ModBelow
  <2>5. q[p] = INV!Collected(e, st, K, a)
    <3>1. q[p] = INV!tokensParse(e, st, K, p)
      OBVIOUS
    <3>2. K # 0 /\ p # 0
      BY <1>2
    <3> QED
      BY <2>1, <2>4, <3>1, <3>2 DEF INV!tokensParse
  <2>6. PICK b : b = Lower(z, a)
    OBVIOUS
  <2>7. PICK d : d = Lower(z, a + K)
    OBVIOUS
  <2>8. c[p - 1] = b /\ c[p] = d
    <3>1. p - 1 \in 0..m /\ p \in 0..m
      BY <1>2
    <3> QED
      BY <1>5, <2>1, <2>2, <2>6, <2>7, <3>1
  <2>9. b \in 0..z /\ d \in b..z
    BY <1>2, <2>2, <2>6, <2>7 DEF Lower
  <2>10. q[p] = SubSeq(M, a + 1, d)
    <3>1. IsPage(INV!Collected(e, st, K, a), M, a, K)
      BY <1>2, <1>3, <2>2, CollectedPage
    <3> QED
      BY <1>4, <2>5, <2>7, <3>1 DEF IsPage
  <2>11. SubSeq(M, a + 1, d) = SubSeq(M, b + 1, d)
    <3>1. CASE a <= z
      <4>1. b = a
        BY <2>2, <2>6, <3>1 DEF Lower
      <4> QED
        BY <4>1
    <3>2. CASE z < a
      <4>1. b = z /\ d = z
        BY <1>2, <2>2, <2>6, <2>7, <3>2 DEF Lower
      <4>2. PICK i \in Int, j \in Int : i = a + 1 /\ j = b + 1
        BY <2>2, <2>9
      <4>3. d < i /\ d < j /\ d \in Int
        BY <2>2, <3>2, <4>1, <4>2
      <4>4. SubSeq(M, i, d) = << >> /\ SubSeq(M, j, d) = << >>
        BY <4>3, SubSeqEmpty
      <4> QED
        BY <4>2, <4>4
    <3>3. a <= z \/ z < a
      BY <2>2
    <3> QED
      BY <3>1, <3>2, <3>3, Zenon
  <2>12. b <= d
    BY <2>9
  <2> QED
    BY <2>8, <2>10, <2>11, <2>12
<1>11. Len(q) = m
  BY <1>2
<1>12. INV!FlattenSeq(q) = M
  <2>1. \A i \in 0..m : c[i] \in 0..Len(M)
    BY <1>4, <1>7
  <2>2. c[m] = Len(M)
    BY <1>4, <1>9
  <2>3. \A i \in 1..m : c[i - 1] <= c[i] /\ q[i] = SubSeq(M, c[i - 1] + 1, c[i])
    BY <1>10
  <2> QED
    BY <1>2, <1>4, <1>8, <1>11, <2>1, <2>2, <2>3, Pieces
<1> QED
  BY <1>3, <1>12

-----------------------------------------------------------------------------
(* Each file has at most one entry for a token at all times, even after updates *)
(* were lost: what the writes need for that, one after the other.              *)

AfterStep(ws, z, t, g, n) == IF n = 0 THEN NoWrite(z) ELSE WriteStep(g[n - 1], ws[n], t)
IsAfter(f, n, ws, z, t) == f = [i \in 0..n |-> AfterStep(ws, z, t, f, i)]

LEMMA AfterStepExists ==
  ASSUME NEW n \in Nat, NEW ws, NEW z, NEW t
  PROVE  \E f : IsAfter(f, n, ws, z, t)
<1> DEFINE Ok(g, k) == g = [i \in 0..k |-> AfterStep(ws, z, t, g, i)]
           B == {k \in 0..n : ~ \E g : Ok(g, k)}
<1>1. B = {}
  <2> SUFFICES ASSUME B # {} PROVE FALSE
    OBVIOUS
  <2>1. PICK k \in B : \A m \in B : k <= m
    <3>1. B \subseteq Nat
      OBVIOUS
    <3> HIDE DEF B
    <3> QED
      BY <3>1, Least
  <2>2. k \in 0..n /\ ~ \E g : Ok(g, k)
    OBVIOUS
  <2>3. CASE k = 0
    <3>1. PICK g : g = [i \in 0..0 |-> AfterStep(ws, z, t, g, 0)]
      <4>1. PICK h : h = [i \in 0..0 |-> AfterStep(ws, z, t, << >>, 0)]
        OBVIOUS
      <4>2. AfterStep(ws, z, t, h, 0) = AfterStep(ws, z, t, << >>, 0)
        BY DEF AfterStep
      <4> QED
        BY <4>1, <4>2
    <3>2. \A i \in 0..0 : i = 0
      OBVIOUS
    <3>3. Ok(g, 0)
      BY <3>1, <3>2
    <3> QED
      BY <2>2, <2>3, <3>3
  <2>4. CASE k # 0
    <3>1. k \in Nat /\ k - 1 \in 0..n /\ ~(k <= k - 1)
      BY <2>2, <2>4
    <3>2. k - 1 \notin B
      BY <2>1, <3>1
    <3>3. PICK g : Ok(g, k - 1)
      BY <3>1, <3>2
    <3>4. PICK h : h = [i \in 0..k |-> IF i = k THEN AfterStep(ws, z, t, g, k) ELSE g[i]]
      OBVIOUS
    <3>5. \A i \in 0..(k - 1) : g[i] = AfterStep(ws, z, t, g, i)
      BY <3>3
    <3>6. \A i \in 0..(k - 1) : h[i] = g[i]
      BY <3>1, <3>4
    <3>7. ASSUME NEW i \in 0..k PROVE AfterStep(ws, z, t, h, i) = AfterStep(ws, z, t, g, i)
      <4>1. CASE i = 0
        BY <4>1 DEF AfterStep
      <4>2. CASE i # 0
        <5>1. i - 1 \in 0..(k - 1)
          BY <3>1, <4>2
        <5>2. h[i - 1] = g[i - 1]
          BY <3>6, <5>1
        <5> QED
          BY <4>2, <5>2 DEF AfterStep
      <4> QED
        BY <4>1, <4>2
    <3>8. ASSUME NEW i \in 0..k PROVE h[i] = AfterStep(ws, z, t, h, i)
      <4>1. CASE i = k
        BY <3>4, <3>7, <4>1
      <4>2. CASE i # k
        <5>1. i \in 0..(k - 1)
          BY <3>1, <4>2
        <5> QED
          BY <3>5, <3>6, <3>7, <5>1
      <4> QED
        BY <4>1, <4>2
    <3>9. Ok(h, k)
      BY <3>4, <3>8
    <3> QED
      BY <2>2, <3>9
  <2> QED
    BY <2>3, <2>4
<1>2. n \in 0..n
  OBVIOUS
<1> QED
  BY <1>1, <1>2 DEF IsAfter

\* The files after each of the writes.
LEMMA AfterWritesSteps ==
  ASSUME NEW z, NEW ws, NEW t, Len(ws) \in Nat
  PROVE  /\ DOMAIN INV!AfterWrites(z, ws, t) = 0..Len(ws)
         /\ INV!AfterWrites(z, ws, t)[0] = NoWrite(z)
         /\ \A n \in 1..Len(ws) :
              INV!AfterWrites(z, ws, t)[n] = WriteStep(INV!AfterWrites(z, ws, t)[n - 1], ws[n], t)
<1>1. PICK m \in Nat : m = Len(ws)
  OBVIOUS
<1>2. PICK f : IsAfter(f, m, ws, z, t)
  BY AfterStepExists
<1>3. f = [n \in 0..Len(ws) |-> IF n = 0 THEN NoWrite(z) ELSE WriteStep(f[n - 1], ws[n], t)]
  BY <1>1, <1>2 DEF IsAfter, AfterStep
<1>4. DOMAIN INV!AfterWrites(z, ws, t) = 0..Len(ws)
  <2> DEFINE rec(g) == [n \in 0..Len(ws) |-> IF n = 0 THEN [inv |-> z, ok |-> TRUE]
                         ELSE IF g[n - 1].ok /\ INV!CanWrite(g[n - 1].inv, ws[n], t)
                         THEN [inv |-> INV!invSave(g[n - 1].inv, ws[n], t), ok |-> TRUE]
                         ELSE [g[n - 1] EXCEPT !.ok = FALSE]]
  <2>1. f = rec(f)
    BY <1>3 DEF NoWrite, WriteStep
  <2>2. INV!AfterWrites(z, ws, t) = CHOOSE g : g = rec(g)
    BY DEF INV!AfterWrites
  <2>3. PICK h : h = INV!AfterWrites(z, ws, t)
    OBVIOUS
  <2>4. h = rec(h)
    BY <2>1, <2>2, <2>3
  <2>5. DOMAIN h = 0..Len(ws)
    BY <2>4
  <2> QED
    BY <2>3, <2>5
<1> QED
  BY <1>3, <1>4, AfterWritesUnfold

Lists(i, s, t) == INV!Has(i[s].entries, t)
Loose(i) == i \in Files /\ \A s \in INV!States : OneEach(i[s].entries)

\* From the files i to the files j, only the token t and the files F have changed.
Kept(i, j, t, F) ==
  /\ Loose(j)
  /\ \A s \in INV!States, u \in Tokens :
       s \notin F \/ u # t => (Lists(j, s, u) <=> Lists(i, s, u))

IsWrite(w) ==
  w.file \in INV!States /\ w.del \in BOOLEAN /\ w.status \in INV!Statuses \cup {"none"}

LEMMA HasInRange ==
  ASSUME NEW e, NEW t PROVE INV!Has(e, t) <=> \E x \in RangeOf(e) : x.token = t
BY DEF INV!Has, RangeOf

\* A file with new entries.
LEMMA FileKept ==
  ASSUME NEW i, Loose(i), NEW s \in INV!States, NEW t, NEW new \in Seq(Rec), OneEach(new),
         \A u \in Tokens : u # t => (INV!Has(new, u) <=> Lists(i, s, u))
  PROVE  Kept(i, [i EXCEPT ![s].entries = new], t, {s})
<1>1. PICK j : j = [i EXCEPT ![s].entries = new]
  OBVIOUS
<1>2. i[s] \in [valid : BOOLEAN, entries : Seq(Rec)] /\ i = [u \in INV!States |-> i[u]]
  BY DEF Loose, Files
<1>3. PICK file : file = [i[s] EXCEPT !.entries = new]
  OBVIOUS
<1>4. file \in [valid : BOOLEAN, entries : Seq(Rec)] /\ file.entries = new
  BY <1>2, <1>3
<1>5. j = [i EXCEPT ![s] = file]
  BY <1>1, <1>3
<1>6. j[s] = file /\ \A u \in INV!States \ {s} : j[u] = i[u]
  BY <1>2, <1>5
<1>7. j \in Files
  BY <1>4, <1>5 DEF Loose, Files
<1>8. Loose(j)
  BY <1>4, <1>6, <1>7 DEF Loose
<1>9. ASSUME NEW r \in INV!States, NEW u \in Tokens, r \notin {s} \/ u # t
      PROVE  Lists(j, r, u) <=> Lists(i, r, u)
  <2>1. CASE r = s
    BY <1>4, <1>6, <1>9, <2>1 DEF Lists
  <2>2. CASE r # s
    BY <1>6, <2>2 DEF Lists
  <2> QED
    BY <2>1, <2>2
<1> QED
  BY <1>1, <1>8, <1>9 DEF Kept

\* A write that does not put a second entry for the token.
LEMMA WriteKeeps ==
  ASSUME NEW i, Loose(i), NEW t \in Tokens, NEW w, IsWrite(w), INV!CanWrite(i, w, t),
         w.status = "none" \/ w.del \/ ~Lists(i, w.file, t)
  PROVE  Kept(i, INV!invSave(i, w, t), t, {w.file})
<1>1. PICK s, e : s = w.file /\ e = i[s].entries /\ s \in INV!States
  BY DEF IsWrite
<1>2. e \in Seq(Rec) /\ OneEach(e)
  BY <1>1 DEF Loose, Files
<1>3. PICK old : old = IF w.del THEN INV!entryDel(e, t) ELSE e
  OBVIOUS
<1>4. /\ old \in Seq(Rec) /\ OneEach(old)
      /\ \A u \in Tokens : u # t => (INV!Has(old, u) <=> INV!Has(e, u))
      /\ w.status # "none" => ~INV!Has(old, t)
  <2>1. CASE w.del
    <3>1. INV!Has(e, t)
      BY <1>1, <2>1 DEF INV!CanWrite
    <3>2. /\ old \in Seq(Rec) /\ OneEach(old)
          /\ RangeOf(old) = {x \in RangeOf(e) : x.token # t}
      BY <1>2, <1>3, <2>1, <3>1, Deleted
    <3> QED
      BY <3>2, HasInRange
  <2>2. CASE ~w.del
    BY <1>1, <1>2, <1>3, <2>2 DEF Lists
  <2> QED
    BY <2>1, <2>2
<1>5. PICK r : r = [token |-> t, status |-> w.status]
  OBVIOUS
<1>6. PICK new : new = IF w.status = "none" THEN old ELSE <<r>> \o old
  OBVIOUS
<1>7. /\ new \in Seq(Rec) /\ OneEach(new)
      /\ \A u \in Tokens : u # t => (INV!Has(new, u) <=> INV!Has(e, u))
  <2>1. CASE w.status = "none"
    BY <1>4, <1>6, <2>1
  <2>2. CASE w.status # "none"
    <3>1. r \in Rec /\ r.token = t
      BY <1>5, <2>2 DEF Rec, IsWrite
    <3>2. /\ new \in Seq(Rec) /\ RangeOf(new) = {r} \cup RangeOf(old) /\ OneEach(new)
      BY <1>4, <1>6, <2>2, <3>1, FrontEntry
    <3>3. \A u \in Tokens : u # t => (INV!Has(new, u) <=> INV!Has(old, u))
      BY <3>1, <3>2, HasInRange
    <3> QED
      BY <1>4, <3>2, <3>3
  <2> QED
    BY <2>1, <2>2
<1>8. INV!invSave(i, w, t) = [i EXCEPT ![s].entries = new]
  BY <1>1, <1>3, <1>5, <1>6 DEF INV!invSave
<1>9. \A u \in Tokens : u # t => (INV!Has(new, u) <=> Lists(i, s, u))
  BY <1>1, <1>7 DEF Lists
<1>10. Kept(i, [i EXCEPT ![s].entries = new], t, {s})
  <2>1. s \in INV!States
    BY <1>1
  <2> QED
    BY <1>7, <1>9, <2>1, FileKept
<1> QED
  BY <1>1, <1>8, <1>10

\* The files that the first n writes are for.
Touched(ws, n) == {ws[m].file : m \in 1..n}

\* A new entry is put in a file that does not have one yet, or deleted it before.
Fits(i, ws, t) ==
  /\ Len(ws) \in Nat
  /\ \A n \in 1..Len(ws) :
       /\ IsWrite(ws[n])
       /\ \/ ws[n].status = "none" \/ ws[n].del
          \/ ~Lists(i, ws[n].file, t) /\ ws[n].file \notin Touched(ws, n - 1)

LEMMA KeptStep ==
  ASSUME NEW i, NEW t \in Tokens, NEW ws, Fits(i, ws, t), NEW n \in 1..Len(ws), NEW acc,
         Kept(i, acc.inv, t, Touched(ws, n - 1)), acc = [inv |-> acc.inv, ok |-> acc.ok]
  PROVE  LET d == WriteStep(acc, ws[n], t)
         IN  Kept(i, d.inv, t, Touched(ws, n)) /\ d = [inv |-> d.inv, ok |-> d.ok]
<1>1. PICK w, j : w = ws[n] /\ j = acc.inv
  OBVIOUS
<1>2. Len(ws) \in Nat /\ IsWrite(w)
  BY <1>1 DEF Fits
<1>3. PICK F : F = Touched(ws, n - 1)
  OBVIOUS
<1>4. PICK G : G = Touched(ws, n)
  OBVIOUS
<1>5. G = F \cup {w.file}
  <2>1. \A m \in 1..n : m \in 1..(n - 1) \/ m = n
    BY <1>2
  <2>2. \A m \in 1..(n - 1) : m \in 1..n
    BY <1>2
  <2>3. n \in 1..n
    BY <1>2
  <2> QED
    BY <1>1, <1>3, <1>4, <2>1, <2>2, <2>3 DEF Touched
<1>6. Kept(i, j, t, F)
  BY <1>1, <1>3
<1>7. PICK d : d = WriteStep(acc, w, t)
  OBVIOUS
<1>8. CASE acc.ok /\ INV!CanWrite(j, w, t)
  <2>1. d = [inv |-> INV!invSave(j, w, t), ok |-> TRUE]
    BY <1>1, <1>7, <1>8 DEF WriteStep
  <2>2. w.status = "none" \/ w.del \/ ~Lists(j, w.file, t)
    <3>1. w.status = "none" \/ w.del \/ (~Lists(i, w.file, t) /\ w.file \notin F)
      BY <1>1, <1>3 DEF Fits
    <3> QED
      BY <1>2, <1>6, <3>1 DEF Kept, IsWrite
  <2>3. Loose(j)
    BY <1>6 DEF Kept
  <2>4. PICK k : k = INV!invSave(j, w, t)
    OBVIOUS
  <2>5. Kept(j, k, t, {w.file})
    BY <1>2, <1>8, <2>2, <2>3, <2>4, WriteKeeps
  <2>6. Kept(i, k, t, G)
    BY <1>5, <1>6, <2>5 DEF Kept
  <2>7. d.inv = k /\ d = [inv |-> d.inv, ok |-> d.ok]
    BY <2>1, <2>4
  <2> QED
    BY <1>1, <1>4, <1>7, <2>6, <2>7
<1>9. CASE ~(acc.ok /\ INV!CanWrite(j, w, t))
  <2>1. d = [acc EXCEPT !.ok = FALSE]
    BY <1>1, <1>7, <1>9 DEF WriteStep
  <2>2. d.inv = j /\ d = [inv |-> d.inv, ok |-> d.ok]
    BY <1>1, <2>1
  <2>3. Kept(i, j, t, G)
    BY <1>5, <1>6 DEF Kept
  <2> QED
    BY <1>1, <1>4, <1>7, <2>2, <2>3
<1> QED
  BY <1>8, <1>9

LEMMA AllKept ==
  ASSUME NEW i, Loose(i), NEW t \in Tokens, NEW ws, Fits(i, ws, t)
  PROVE  \A n \in 0..Len(ws) : Kept(i, INV!AfterWrites(i, ws, t)[n].inv, t, Touched(ws, n))
<1>1. PICK m \in Nat : m = Len(ws)
  BY DEF Fits
<1>2. PICK f : f = INV!AfterWrites(i, ws, t)
  OBVIOUS
<1>3. f[0] = NoWrite(i) /\ \A n \in 1..m : f[n] = WriteStep(f[n - 1], ws[n], t)
  BY <1>1, <1>2, AfterWritesSteps
<1> DEFINE Fine(n) == /\ Kept(i, f[n].inv, t, Touched(ws, n))
                      /\ f[n] = [inv |-> f[n].inv, ok |-> f[n].ok]
           B == {n \in 0..m : ~Fine(n)}
<1>4. Fine(0)
  <2>1. f[0].inv = i /\ f[0] = [inv |-> f[0].inv, ok |-> f[0].ok]
    BY <1>3 DEF NoWrite
  <2> QED
    BY <2>1 DEF Kept
<1>5. ASSUME NEW n \in 1..m, Fine(n - 1) PROVE Fine(n)
  <2>1. PICK acc : acc = f[n - 1]
    OBVIOUS
  <2>2. /\ Kept(i, acc.inv, t, Touched(ws, n - 1))
        /\ acc = [inv |-> acc.inv, ok |-> acc.ok]
    BY <1>5, <2>1
  <2>3. PICK d : d = WriteStep(acc, ws[n], t)
    OBVIOUS
  <2>4. Kept(i, d.inv, t, Touched(ws, n)) /\ d = [inv |-> d.inv, ok |-> d.ok]
    BY <1>1, <2>2, <2>3, KeptStep
  <2>5. f[n] = d
    BY <1>3, <2>1, <2>3
  <2> QED
    BY <2>4, <2>5
<1>6. B = {}
  <2> SUFFICES ASSUME B # {} PROVE FALSE
    OBVIOUS
  <2>1. PICK k \in B : \A n \in B : k <= n
    <3>1. B \subseteq Nat
      OBVIOUS
    <3> HIDE DEF B
    <3> QED
      BY <3>1, Least
  <2>2. k \in 0..m /\ ~Fine(k)
    OBVIOUS
  <2> HIDE DEF Fine
  <2>3. k \in 1..m /\ k - 1 \in 0..m /\ ~(k <= k - 1)
    BY <1>4, <2>2
  <2>4. Fine(k - 1)
    BY <2>1, <2>3
  <2> QED
    BY <1>5, <2>2, <2>3, <2>4
<1> QED
  BY <1>1, <1>2, <1>6

\* What is left by a crash is torn at most, which the entries do not show.
LEMMA InterruptedKept ==
  ASSUME NEW i, Loose(i), NEW t \in Tokens, NEW ws, Fits(i, ws, t),
         NEW j \in INV!Interrupted(i, ws, t)
  PROVE  Kept(i, j, t, Touched(ws, Len(ws)))
<1>1. PICK m \in Nat : m = Len(ws)
  BY DEF Fits
<1>2. PICK f : f = INV!AfterWrites(i, ws, t)
  OBVIOUS
<1>3. DOMAIN f = 0..m
  BY <1>1, <1>2, AfterWritesSteps
<1>4. ASSUME NEW n \in 0..m PROVE Kept(i, f[n].inv, t, Touched(ws, m))
  <2>1. Kept(i, f[n].inv, t, Touched(ws, n))
    BY <1>1, <1>2, AllKept
  <2>2. Touched(ws, n) \subseteq Touched(ws, m)
    BY DEF Touched
  <2> QED
    BY <2>1, <2>2 DEF Kept
<1>5. ASSUME NEW n \in 1..m PROVE Kept(i, [f[n].inv EXCEPT ![ws[n].file].valid = FALSE], t, Touched(ws, m))
  <2>1. PICK a, s : a = f[n].inv /\ s = ws[n].file
    OBVIOUS
  <2>2. n \in 0..m
    OBVIOUS
  <2>3. Kept(i, a, t, Touched(ws, m)) /\ s \in INV!States
    BY <1>1, <1>4, <2>1, <2>2 DEF Fits, IsWrite
  <2>4. /\ a[s] \in [valid : BOOLEAN, entries : Seq(Rec)] /\ a = [u \in INV!States |-> a[u]]
        /\ Loose(a)
    BY <2>3 DEF Kept, Loose, Files
  <2>5. PICK file : file = [a[s] EXCEPT !.valid = FALSE]
    OBVIOUS
  <2>6. file \in [valid : BOOLEAN, entries : Seq(Rec)] /\ file.entries = a[s].entries
    BY <2>4, <2>5
  <2>7. PICK b : b = [a EXCEPT ![s].valid = FALSE]
    OBVIOUS
  <2>8. b = [a EXCEPT ![s] = file]
    BY <2>5, <2>7
  <2>9. b \in Files /\ \A u \in INV!States : b[u].entries = a[u].entries
    BY <2>4, <2>6, <2>8 DEF Loose, Files
  <2>10. Kept(i, b, t, Touched(ws, m))
    BY <2>3, <2>9 DEF Kept, Loose, Lists
  <2> QED
    BY <2>1, <2>7, <2>10
<1>6. \/ \E n \in 0..m : j = f[n].inv
      \/ \E n \in 1..m : j = [f[n].inv EXCEPT ![ws[n].file].valid = FALSE]
  <2>1. PICK done : done = {n \in DOMAIN f : f[n].ok}
    OBVIOUS
  <2>2. j \in {f[n].inv : n \in done}
              \cup {[f[n].inv EXCEPT ![ws[n].file].valid = FALSE] : n \in done \ {0}}
    BY <1>2, <2>1 DEF INV!Interrupted
  <2>3. done \subseteq 0..m /\ done \ {0} \subseteq 1..m
    BY <1>3, <2>1
  <2> QED
    BY <2>2, <2>3
<1> QED
  BY <1>1, <1>4, <1>5, <1>6

-----------------------------------------------------------------------------
(* What the files list, at all times: records that there are, as vetted only those *)
(* that are vetted, and not what has still to be added to a file.                  *)

DistinctTokens ==
  \A t \in Tokens :
    /\ Lists(inv, "unvetted", t) => INV!Exists(t) /\ op[t] # "add" /\ ~Pending(t)
    /\ Lists(inv, "vetted", t) =>
         records[t].state = "vetted" /\ op[t] # "move" /\ ~Pending(t)

DistinctInv == BasicInv /\ Loose(inv) /\ DistinctTokens

\* Writes that may be made for the token.
MayWrite(ws, t) ==
  /\ Fits(inv, ws, t) /\ INV!Exists(t)
  /\ "vetted" \in Touched(ws, Len(ws)) => records[t].state = "vetted"

\* The writes are made, in full or in part, or the process stops before.
LEMMA WritesDistinct ==
  ASSUME DistinctInv, NEW t \in Tokens, NEW ws, MayWrite(ws, t), NEW j,
         Kept(inv, j, t, Touched(ws, Len(ws))), inv' = j, records' = records,
         op'[t] = "idle", ~Pending(t)',
         \A u \in Tokens \ {t} : (op'[u] = op[u] \/ op'[u] = "idle") /\ (Pending(u)' => Pending(u))
  PROVE  Loose(inv)' /\ DistinctTokens'
<1>1. Loose(inv)'
  BY DEF Kept
<1>2. ASSUME NEW u \in Tokens
      PROVE  /\ Lists(inv, "unvetted", u)' =>
                  INV!Exists(u)' /\ op'[u] # "add" /\ ~Pending(u)'
             /\ Lists(inv, "vetted", u)' =>
                  records'[u].state = "vetted" /\ op'[u] # "move" /\ ~Pending(u)'
  <2>1. INV!Exists(u)' <=> INV!Exists(u)
    BY DEF INV!Exists
  <2>2. \A s \in INV!States : Lists(inv, s, u)' <=> Lists(j, s, u)
    BY DEF Lists
  <2>3. \A s \in INV!States : s \notin Touched(ws, Len(ws)) \/ u # t => (Lists(j, s, u) <=> Lists(inv, s, u))
    BY DEF Kept
  <2>4. "unvetted" \in INV!States /\ "vetted" \in INV!States
    BY DEF INV!States
  <2>5. CASE u = t
    <3>1. Lists(inv, "vetted", u)' => records[u].state = "vetted"
      BY <2>2, <2>3, <2>4, <2>5 DEF MayWrite, DistinctInv, DistinctTokens
    <3> QED
      BY <2>1, <2>5, <3>1 DEF MayWrite
  <2>6. CASE u # t
    <3>1. /\ Lists(inv, "unvetted", u)' => Lists(inv, "unvetted", u)
          /\ Lists(inv, "vetted", u)' => Lists(inv, "vetted", u)
      BY <2>2, <2>3, <2>4, <2>6
    <3> QED
      BY <2>1, <2>6, <3>1 DEF DistinctInv, DistinctTokens
  <2> QED
    BY <2>5, <2>6
<1> QED
  BY <1>1, <1>2 DEF DistinctTokens

\* The files stay, and so do the records and the updates of all tokens but one.
LEMMA SameDistinct ==
  ASSUME DistinctInv, NEW t \in Tokens, inv' = inv,
         \A u \in Tokens \ {t} : /\ records'[u] = records[u]
                                 /\ op'[u] = op[u] \/ op'[u] = "idle"
                                 /\ Pending(u)' => Pending(u),
         Lists(inv, "unvetted", t) => INV!Exists(t)' /\ op'[t] # "add" /\ ~Pending(t)',
         Lists(inv, "vetted", t) => records'[t].state = "vetted" /\ op'[t] # "move" /\ ~Pending(t)'
  PROVE  Loose(inv)' /\ DistinctTokens'
<1>1. Loose(inv)'
  BY DEF DistinctInv
<1>2. ASSUME NEW u \in Tokens
      PROVE  /\ Lists(inv, "unvetted", u)' =>
                  INV!Exists(u)' /\ op'[u] # "add" /\ ~Pending(u)'
             /\ Lists(inv, "vetted", u)' =>
                  records'[u].state = "vetted" /\ op'[u] # "move" /\ ~Pending(u)'
  <2>1. /\ Lists(inv, "unvetted", u)' <=> Lists(inv, "unvetted", u)
        /\ Lists(inv, "vetted", u)' <=> Lists(inv, "vetted", u)
    OBVIOUS
  <2>2. CASE u = t
    BY <2>1, <2>2
  <2>3. CASE u # t
    <3>1. INV!Exists(u)' <=> INV!Exists(u)
      BY <2>3 DEF INV!Exists
    <3> QED
      BY <2>1, <2>3, <3>1 DEF DistinctInv, DistinctTokens
  <2> QED
    BY <2>2, <2>3
<1> QED
  BY <1>1, <1>2 DEF DistinctTokens

LEMMA OneTouched == ASSUME NEW w, NEW ws, ws = <<w>> PROVE Touched(ws, Len(ws)) = {w.file}
<1>1. Len(ws) = 1 /\ ws[1] = w /\ \A m \in 1..1 : m = 1
  OBVIOUS
<1>2. Touched(ws, Len(ws)) = {ws[m].file : m \in 1..1}
  BY <1>1 DEF Touched
<1> QED
  BY <1>1, <1>2

LEMMA OneFits ==
  ASSUME NEW i, NEW t, NEW w, IsWrite(w), w.status = "none" \/ w.del \/ ~Lists(i, w.file, t),
         NEW ws, ws = <<w>>
  PROVE  Fits(i, ws, t)
<1>1. Len(ws) = 1 /\ ws[1] = w
  OBVIOUS
<1>2. ASSUME NEW n \in 1..Len(ws) PROVE ws[n] = w /\ Touched(ws, n - 1) = {}
  <2>1. n = 1 /\ n - 1 = 0
    BY <1>1
  <2>2. Touched(ws, 0) = {}
    BY DEF Touched
  <2> QED
    BY <1>1, <2>1, <2>2
<1>3. ASSUME NEW n \in 1..Len(ws)
      PROVE  /\ IsWrite(ws[n])
             /\ \/ ws[n].status = "none" \/ ws[n].del
                \/ ~Lists(i, ws[n].file, t) /\ ws[n].file \notin Touched(ws, n - 1)
  BY <1>2
<1>4. Len(ws) \in Nat
  BY <1>1
<1> QED
  BY <1>3, <1>4 DEF Fits

LEMMA AddMay ==
  ASSUME NEW t \in Tokens, NEW st \in INV!Statuses, INV!Exists(t), ~Lists(inv, "unvetted", t),
         NEW ws, ws = INV!invAdd("unvetted", st)
  PROVE  MayWrite(ws, t)
<1>1. PICK w : w = INV!Write("unvetted", FALSE, st)
  OBVIOUS
<1>2. w.file = "unvetted" /\ w.del = FALSE /\ w.status = st
  BY <1>1 DEF INV!Write
<1>3. IsWrite(w)
  BY <1>2 DEF IsWrite, INV!States
<1>4. ws = <<w>>
  BY <1>1 DEF INV!invAdd
<1>5. w.status = "none" \/ w.del \/ ~Lists(inv, w.file, t)
  BY <1>2
<1>6. Fits(inv, ws, t) /\ Touched(ws, Len(ws)) = {w.file}
  <2>1. Fits(inv, <<w>>, t) /\ Touched(<<w>>, Len(<<w>>)) = {w.file}
    BY <1>3, <1>5, OneFits, OneTouched
  <2> QED
    BY <1>4, <2>1
<1>7. "vetted" \notin Touched(ws, Len(ws))
  BY <1>2, <1>6
<1> QED
  BY <1>6, <1>7 DEF MayWrite

LEMMA UpdateMay ==
  ASSUME NEW t \in Tokens, NEW st \in INV!Statuses, INV!Exists(t), NEW s, s = records[t].state,
         NEW ws, ws = INV!invUpdate(s, st)
  PROVE  MayWrite(ws, t)
<1>1. PICK w : w = INV!Write(s, TRUE, st)
  OBVIOUS
<1>2. w.file = s /\ w.del = TRUE /\ w.status = st
  BY <1>1 DEF INV!Write
<1>3. IsWrite(w)
  BY <1>2 DEF IsWrite, INV!Exists
<1>4. ws = <<w>>
  BY <1>1 DEF INV!invUpdate
<1>5. w.status = "none" \/ w.del \/ ~Lists(inv, w.file, t)
  BY <1>2
<1>6. Fits(inv, ws, t) /\ Touched(ws, Len(ws)) = {w.file}
  <2>1. Fits(inv, <<w>>, t) /\ Touched(<<w>>, Len(<<w>>)) = {w.file}
    BY <1>3, <1>5, OneFits, OneTouched
  <2> QED
    BY <1>4, <2>1
<1>7. "vetted" \in Touched(ws, Len(ws)) => records[t].state = "vetted"
  BY <1>2, <1>6
<1> QED
  BY <1>6, <1>7 DEF MayWrite

LEMMA MoveMay ==
  ASSUME NEW t \in Tokens, NEW st \in INV!Statuses, records[t].state = "vetted",
         ~Lists(inv, "vetted", t), NEW ws, ws = INV!invMoveToVetted(st)
  PROVE  MayWrite(ws, t)
<1>1. PICK v, w : v = INV!Write("unvetted", TRUE, "none") /\ w = INV!Write("vetted", FALSE, st)
  OBVIOUS
<1>2. /\ v.file = "unvetted" /\ v.del = TRUE /\ v.status = "none"
      /\ w.file = "vetted" /\ w.del = FALSE /\ w.status = st
  BY <1>1 DEF INV!Write
<1>3. IsWrite(v) /\ IsWrite(w)
  BY <1>2 DEF IsWrite, INV!States
<1>4. ws = <<v, w>>
  BY <1>1 DEF INV!invMoveToVetted
<1>5. Len(ws) = 2 /\ ws[1] = v /\ ws[2] = w
  BY <1>4
<1>6. "vetted" \notin Touched(ws, 2 - 1)
  <2>1. \A m \in 1..(2 - 1) : ws[m].file = "unvetted"
    <3>1. \A m \in 1..(2 - 1) : m = 1
      OBVIOUS
    <3> QED
      BY <1>2, <1>5, <3>1
  <2> QED
    BY <2>1 DEF Touched
<1>7. ASSUME NEW n \in 1..Len(ws)
      PROVE  /\ IsWrite(ws[n])
             /\ \/ ws[n].status = "none" \/ ws[n].del
                \/ ~Lists(inv, ws[n].file, t) /\ ws[n].file \notin Touched(ws, n - 1)
  <2>1. CASE n = 1
    BY <1>2, <1>3, <1>5, <2>1
  <2>2. CASE n = 2
    <3>1. ws[n].file = "vetted" /\ IsWrite(ws[n])
      BY <1>2, <1>3, <1>5, <2>2
    <3> QED
      BY <1>6, <2>2, <3>1
  <2> QED
    BY <1>5, <2>1, <2>2
<1>8. Fits(inv, ws, t)
  <2>1. Len(ws) \in Nat
    BY <1>5
  <2> QED
    BY <1>7, <2>1 DEF Fits
<1>9. INV!Exists(t)
  BY DEF INV!Exists, INV!States
<1> QED
  BY <1>8, <1>9 DEF MayWrite

LEMMA FsckVettedMay ==
  ASSUME NEW t \in Tokens, NEW st \in INV!Statuses, records[t].state = "vetted",
         ~Lists(inv, "unvetted", t), ~Lists(inv, "vetted", t),
         NEW ws, ws = INV!invAdd("unvetted", "unreviewed") \o INV!invMoveToVetted(st)
  PROVE  MayWrite(ws, t)
<1>1. PICK u, v, w : /\ u = INV!Write("unvetted", FALSE, "unreviewed")
                     /\ v = INV!Write("unvetted", TRUE, "none")
                     /\ w = INV!Write("vetted", FALSE, st)
  OBVIOUS
<1>2. /\ u.file = "unvetted" /\ u.del = FALSE /\ u.status = "unreviewed"
      /\ v.file = "unvetted" /\ v.del = TRUE /\ v.status = "none"
      /\ w.file = "vetted" /\ w.del = FALSE /\ w.status = st
  BY <1>1 DEF INV!Write
<1>3. IsWrite(u) /\ IsWrite(v) /\ IsWrite(w)
  BY <1>2 DEF IsWrite, INV!States, INV!Statuses
<1>4. ws = <<u, v, w>>
  <2>1. INV!invAdd("unvetted", "unreviewed") = <<u>>
    BY <1>1 DEF INV!invAdd
  <2>2. INV!invMoveToVetted(st) = <<v, w>>
    BY <1>1 DEF INV!invMoveToVetted
  <2> QED
    BY <2>1, <2>2, OneAndTwo
<1>5. Len(ws) = 3 /\ ws[1] = u /\ ws[2] = v /\ ws[3] = w
  <2>1. PICK g : g = <<u, v, w>>
    OBVIOUS
  <2>2. Len(g) = 3 /\ g[1] = u /\ g[2] = v /\ g[3] = w
    BY <2>1
  <2>3. ws = g
    BY <1>4, <2>1
  <2> QED
    BY <2>2, <2>3
<1>6. "unvetted" \notin Touched(ws, 1 - 1)
  <2>1. 1..(1 - 1) = {}
    OBVIOUS
  <2> QED
    BY <2>1 DEF Touched
<1>7. "vetted" \notin Touched(ws, 3 - 1)
  <2>1. \A m \in 1..(3 - 1) : ws[m].file = "unvetted"
    <3>1. \A m \in 1..(3 - 1) : m = 1 \/ m = 2
      OBVIOUS
    <3> QED
      BY <1>2, <1>5, <3>1
  <2> QED
    BY <2>1 DEF Touched
<1>8. ASSUME NEW n \in 1..Len(ws)
      PROVE  /\ IsWrite(ws[n])
             /\ \/ ws[n].status = "none" \/ ws[n].del
                \/ ~Lists(inv, ws[n].file, t) /\ ws[n].file \notin Touched(ws, n - 1)
  <2>1. CASE n = 1
    <3>1. ws[n].file = "unvetted" /\ IsWrite(ws[n])
      BY <1>2, <1>3, <1>5, <2>1
    <3> QED
      BY <1>6, <2>1, <3>1
  <2>2. CASE n = 2
    BY <1>2, <1>3, <1>5, <2>2
  <2>3. CASE n = 3
    <3>1. ws[n].file = "vetted" /\ IsWrite(ws[n])
      BY <1>2, <1>3, <1>5, <2>3
    <3> QED
      BY <1>7, <2>3, <3>1
  <2> QED
    BY <1>5, <2>1, <2>2, <2>3
<1>9. Fits(inv, ws, t)
  <2>1. Len(ws) \in Nat
    BY <1>5
  <2> QED
    BY <1>8, <2>1 DEF Fits
<1>10. INV!Exists(t)
  BY DEF INV!Exists, INV!States
<1> QED
  BY <1>9, <1>10 DEF MayWrite

LEMMA CacheMay ==
  ASSUME DistinctInv, NEW t \in Tokens, op[t] \in INV!Updating
  PROVE  MayWrite(INV!CacheWrites(t), t)
<1>1. PICK ws : ws = INV!CacheWrites(t)
  OBVIOUS
<1>2. PICK st, s : st = records[t].status /\ s = records[t].state
  OBVIOUS
<1>3. INV!Exists(t) /\ st \in INV!Statuses
  <2>1. INV!Exists(t)
    BY DEF DistinctInv, BasicInv, OpsInv, INV!Updating, INV!Exists, INV!States
  <2> QED
    BY <1>2, <2>1 DEF DistinctInv, BasicInv, RecordsInv
<1>4. CASE op[t] = "add"
  <2>1. PICK r \in INV!Statuses : r = "unreviewed"
    BY DEF INV!Statuses
  <2>2. ws = INV!invAdd("unvetted", r)
    BY <1>1, <1>4, <2>1 DEF INV!CacheWrites
  <2>3. ~Lists(inv, "unvetted", t)
    BY <1>4 DEF DistinctInv, DistinctTokens
  <2> QED
    BY <1>1, <1>3, <2>2, <2>3, AddMay
<1>5. CASE op[t] = "move"
  <2>1. ws = INV!invMoveToVetted(st)
    BY <1>1, <1>2, <1>5 DEF INV!CacheWrites
  <2>2. ~Lists(inv, "vetted", t)
    BY <1>5 DEF DistinctInv, DistinctTokens
  <2>3. records[t].state = "vetted"
    BY <1>5 DEF DistinctInv, BasicInv, OpsInv
  <2> QED
    BY <1>1, <1>3, <2>1, <2>2, <2>3, MoveMay
<1>6. CASE op[t] = "update"
  <2>1. ws = INV!invUpdate(s, st)
    BY <1>1, <1>2, <1>6 DEF INV!CacheWrites
  <2> QED
    BY <1>1, <1>2, <1>3, <2>1, UpdateMay
<1> QED
  BY <1>4, <1>5, <1>6 DEF INV!Updating

LEMMA FsckMay ==
  ASSUME DistinctInv, NEW t \in Tokens, Pending(t)
  PROVE  MayWrite(INV!FsckWrites(t), t)
<1>1. PICK ws : ws = INV!FsckWrites(t)
  OBVIOUS
<1>2. PICK st : st = records[t].status
  OBVIOUS
<1>3. INV!Exists(t) /\ st \in INV!Statuses
  <2>1. INV!Exists(t)
    BY DEF DistinctInv, BasicInv, PhaseInv, Pending
  <2> QED
    BY <1>2, <2>1 DEF DistinctInv, BasicInv, RecordsInv
<1>4. ~Lists(inv, "unvetted", t) /\ ~Lists(inv, "vetted", t)
  BY DEF DistinctInv, DistinctTokens
<1>5. CASE records[t].state = "vetted"
  <2>1. ws = INV!invAdd("unvetted", "unreviewed") \o INV!invMoveToVetted(st)
    BY <1>1, <1>2, <1>5 DEF INV!FsckWrites
  <2> QED
    BY <1>1, <1>3, <1>4, <1>5, <2>1, FsckVettedMay
<1>6. CASE records[t].state # "vetted"
  <2>1. ws = INV!invAdd("unvetted", st)
    BY <1>1, <1>2, <1>6 DEF INV!FsckWrites
  <2> QED
    BY <1>1, <1>3, <1>4, <2>1, AddMay
<1> QED
  BY <1>5, <1>6

\* Every action keeps what the files list.
LEMMA NoneListed ==
  ASSUME DistinctInv, NEW t \in Tokens, ~INV!Exists(t)
  PROVE  ~Lists(inv, "unvetted", t) /\ ~Lists(inv, "vetted", t)
BY DEF DistinctInv, DistinctTokens, INV!Exists, INV!States

LEMMA RequestDistinct ==
  ASSUME DistinctInv, NEW t \in Tokens,
         \/ INV!TreeNew(t) \/ INV!RecordNew(t)
         \/ INV!RecordNewError(t) \/ INV!RecordNewUnlisted(t) \/ INV!RecordEdit(t)
         \/ \E s \in INV!Statuses :
              INV!RecordSetStatus(t, s) \/ INV!RecordSetStatusUnlisted(t, s)
  PROVE  Loose(inv)' /\ DistinctTokens'
<1>1. /\ phase' # "fsck" /\ inv' = inv
      /\ \A u \in Tokens \ {t} : records'[u] = records[u] /\ (op'[u] = op[u] \/ op'[u] = "idle")
  BY DEF DistinctInv, BasicInv, InventoryTypes, INV!TreeNew, INV!RecordNew, INV!RecordNewError,
     INV!RecordEdit, INV!RecordSetStatus, INV!Free, INV!Save, INV!RecordNewUnlisted,
     INV!RecordSetStatusUnlisted, INV!SaveUnlisted
<1>2. \A u \in Tokens : ~Pending(u)'
  BY <1>1 DEF Pending
<1>3. CASE \/ INV!TreeNew(t) \/ INV!RecordNew(t)
           \/ INV!RecordNewError(t) \/ INV!RecordNewUnlisted(t)
  <2>1. ~INV!Exists(t)
    <3>1. CASE INV!TreeNew(t)
      BY <3>1 DEF INV!TreeNew, INV!NoTree, INV!Exists, INV!States
    <3>2. CASE INV!RecordNew(t) \/ INV!RecordNewError(t)
      <4>1. op[t] = "new"
        BY <3>2 DEF INV!RecordNew, INV!RecordNewError
      <4> QED
        BY <4>1 DEF DistinctInv, BasicInv, OpsInv, INV!Exists, INV!States
    <3>3. CASE INV!RecordNewUnlisted(t)
      BY <3>3 DEF INV!RecordNewUnlisted, INV!EmptyTree, INV!NoTree, INV!Exists, INV!States
    <3> QED
      BY <1>3, <3>1, <3>2, <3>3
  <2>2. ~Lists(inv, "unvetted", t) /\ ~Lists(inv, "vetted", t)
    BY <2>1, NoneListed
  <2> QED
    BY <1>1, <1>2, <2>2, SameDistinct
<1>4. CASE INV!RecordEdit(t)
  <2>1. INV!Save(t, records[t].state, records[t].status) /\ op' = op /\ INV!Exists(t)
    BY <1>4 DEF INV!RecordEdit
  <2>2. records'[t].state = records[t].state
    <3>1. PICK r : r = [state |-> records[t].state, status |-> records[t].status,
                        time |-> clock + 1]
      OBVIOUS
    <3>2. records' = [records EXCEPT ![t] = r] /\ r.state = records[t].state
      BY <2>1, <3>1 DEF INV!Save
    <3> QED
      BY <3>2 DEF DistinctInv, BasicInv, InventoryTypes
  <2>3. /\ Lists(inv, "unvetted", t) => INV!Exists(t)' /\ op'[t] # "add" /\ ~Pending(t)'
        /\ Lists(inv, "vetted", t) =>
             records'[t].state = "vetted" /\ op'[t] # "move" /\ ~Pending(t)'
    BY <1>2, <2>1, <2>2 DEF DistinctInv, DistinctTokens, INV!Exists
  <2> QED
    BY <1>1, <1>2, <2>3, SameDistinct
<1>5. CASE \E s \in INV!Statuses : INV!RecordSetStatus(t, s) \/ INV!RecordSetStatusUnlisted(t, s)
  <2>1. PICK s \in INV!Statuses : INV!RecordSetStatus(t, s) \/ INV!RecordSetStatusUnlisted(t, s)
    BY <1>5
  <2>2. PICK st : st = IF s = "public" THEN "vetted" ELSE records[t].state
    OBVIOUS
  <2>3. PICK o : o = IF INV!RecordSetStatusUnlisted(t, s) THEN "idle"
                     ELSE IF s = "public" THEN "move" ELSE "update"
    OBVIOUS
  <2>4. /\ INV!Save(t, st, s) /\ op' = [op EXCEPT ![t] = o] /\ INV!Exists(t)
        /\ INV!statusChangeIsAllowed(records[t].status, s)
    BY <2>1, <2>2, <2>3 DEF INV!RecordSetStatus, INV!RecordSetStatusUnlisted, INV!SaveUnlisted
  <2>5. records'[t].state = st /\ op'[t] = o
    <3>1. PICK r : r = [state |-> st, status |-> s, time |-> clock + 1]
      OBVIOUS
    <3>2. records' = [records EXCEPT ![t] = r] /\ r.state = st
      BY <2>4, <3>1 DEF INV!Save
    <3> QED
      BY <2>4, <3>2 DEF DistinctInv, BasicInv, InventoryTypes
  <2>6. CASE s = "public"
    <3>1. records[t].status = "unreviewed"
      BY <2>4, <2>6 DEF INV!statusChangeIsAllowed
    <3>2. records[t].state = "unvetted"
      BY <3>1 DEF DistinctInv, BasicInv, RecordsInv
    <3>3. ~Lists(inv, "vetted", t)
      BY <3>2 DEF DistinctInv, DistinctTokens
    <3>4. INV!Exists(t)' /\ op'[t] # "add"
      BY <2>2, <2>3, <2>5, <2>6 DEF INV!Exists, INV!States
    <3> QED
      BY <1>1, <1>2, <3>3, <3>4, SameDistinct
  <2>7. CASE s # "public"
    <3>1. records'[t].state = records[t].state /\ op'[t] \in {"update", "idle"}
      BY <2>2, <2>3, <2>5, <2>7
    <3>2. /\ Lists(inv, "unvetted", t) => INV!Exists(t)' /\ op'[t] # "add" /\ ~Pending(t)'
          /\ Lists(inv, "vetted", t) =>
               records'[t].state = "vetted" /\ op'[t] # "move" /\ ~Pending(t)'
      BY <1>2, <2>4, <3>1 DEF DistinctInv, DistinctTokens, INV!Exists
    <3> QED
      BY <1>1, <1>2, <3>2, SameDistinct
  <2> QED
    BY <2>6, <2>7
<1> QED
  BY <1>3, <1>4, <1>5

LEMMA CacheUpdateDistinct ==
  ASSUME DistinctInv, NEW t \in Tokens, INV!CacheUpdate(t)
  PROVE  Loose(inv)' /\ DistinctTokens'
<1>1. PICK ws : ws = INV!CacheWrites(t)
  OBVIOUS
<1>2. MayWrite(ws, t)
  BY <1>1, CacheMay DEF INV!CacheUpdate
<1>3. PICK j : j = INV!AfterWrites(inv, ws, t)[Len(ws)].inv
  OBVIOUS
<1>4. Kept(inv, j, t, Touched(ws, Len(ws)))
  <2>1. Loose(inv) /\ Fits(inv, ws, t) /\ Len(ws) \in 0..Len(ws)
    BY <1>2 DEF DistinctInv, MayWrite, Fits
  <2> QED
    BY <1>3, <2>1, AllKept
<1>5. /\ inv' = j /\ records' = records /\ phase = "up" /\ phase' = "up"
      /\ op' = [op EXCEPT ![t] = "idle"]
  BY <1>1, <1>3 DEF INV!CacheUpdate
<1>6. op'[t] = "idle" /\ \A u \in Tokens \ {t} : op'[u] = op[u]
  BY <1>5 DEF DistinctInv, BasicInv, InventoryTypes
<1>7. \A u \in Tokens : ~Pending(u)'
  BY <1>5 DEF Pending
<1> QED
  BY <1>2, <1>4, <1>5, <1>6, <1>7, WritesDistinct

LEMMA FsckAddDistinct ==
  ASSUME DistinctInv, INV!FsckAdd PROVE Loose(inv)' /\ DistinctTokens'
<1>1. /\ phase = "fsck" /\ phase' = "fsck" /\ todo # << >> /\ todo' = Tail(todo)
      /\ UNCHANGED <<records, op>>
  BY DEF INV!FsckAdd
<1>2. PICK t : t = Head(todo)
  OBVIOUS
<1>3. /\ todo \in Seq(Tokens) /\ Len(todo) \in Nat /\ DOMAIN todo = 1..Len(todo)
      /\ 1 \in DOMAIN todo /\ todo[1] = t
      /\ DOMAIN todo' = 1..(Len(todo) - 1)
      /\ \A n \in 1..(Len(todo) - 1) : todo'[n] = todo[n + 1]
  BY <1>1, <1>2 DEF DistinctInv, BasicInv, InventoryTypes
<1>4. t \in Tokens /\ Pending(t) /\ op[t] = "idle"
  BY <1>1, <1>3 DEF DistinctInv, BasicInv, PhaseInv, Pending
<1>5. ~Pending(t)'
  <2> SUFFICES ASSUME NEW n \in DOMAIN todo', todo'[n] = t PROVE FALSE
    BY DEF Pending
  <2>1. n + 1 \in DOMAIN todo /\ todo[n + 1] = t /\ n + 1 # 1
    BY <1>3
  <2> QED
    BY <1>3, <2>1 DEF DistinctInv, BasicInv, PhaseInv
<1>6. ASSUME NEW u \in Tokens \ {t}, Pending(u)' PROVE Pending(u)
  <2>1. PICK n \in DOMAIN todo' : todo'[n] = u
    BY <1>6 DEF Pending
  <2>2. n + 1 \in DOMAIN todo /\ todo[n + 1] = u
    BY <1>3, <2>1
  <2> QED
    BY <1>1, <2>2 DEF Pending
<1>7. PICK ws : ws = INV!FsckWrites(t)
  OBVIOUS
<1>8. MayWrite(ws, t)
  BY <1>4, <1>7, FsckMay
<1>9. PICK j : j = INV!AfterWrites(inv, ws, t)[Len(ws)].inv
  OBVIOUS
<1>10. Kept(inv, j, t, Touched(ws, Len(ws)))
  <2>1. Loose(inv) /\ Fits(inv, ws, t) /\ Len(ws) \in 0..Len(ws)
    BY <1>8 DEF DistinctInv, MayWrite, Fits
  <2> QED
    BY <1>4, <1>9, <2>1, AllKept
<1>11. inv' = j
  BY <1>2, <1>7, <1>9 DEF INV!FsckAdd
<1>12. op'[t] = "idle" /\ \A u \in Tokens \ {t} : op'[u] = op[u]
  BY <1>1, <1>4
<1>13. records' = records
  BY <1>1
<1> QED
  BY <1>4, <1>5, <1>6, <1>8, <1>10, <1>11, <1>12, <1>13, WritesDistinct

LEMMA CrashDistinct ==
  ASSUME DistinctInv, INV!Crash PROVE Loose(inv)' /\ DistinctTokens'
<1>1. /\ op' = [u \in Tokens |-> "idle"] /\ phase' = "down" /\ records' = records
      /\ inv' \in {inv} \cup UNION {INV!Interrupted(inv, w[2], w[1]) : w \in INV!Interruptible}
  BY DEF INV!Crash
<1>2. \A u \in Tokens : op'[u] = "idle" /\ ~Pending(u)'
  BY <1>1 DEF Pending
<1>3. CASE inv' = inv
  <2>1. \A u \in Tokens :
          /\ Lists(inv, "unvetted", u)' => INV!Exists(u)'
          /\ Lists(inv, "vetted", u)' => records'[u].state = "vetted"
    BY <1>1, <1>3 DEF DistinctInv, DistinctTokens, INV!Exists
  <2>2. Loose(inv)'
    BY <1>3 DEF DistinctInv
  <2> QED
    BY <1>2, <2>1, <2>2 DEF DistinctTokens
<1>4. CASE inv' # inv
  <2>1. PICK w \in INV!Interruptible : inv' \in INV!Interrupted(inv, w[2], w[1])
    BY <1>1, <1>4
  <2>2. \E t \in Tokens : \E ws : w[1] = t /\ w[2] = ws /\ MayWrite(ws, t)
    <3>1. CASE phase = "up"
      <4>1. PICK t \in {u \in Tokens : op[u] \in INV!Updating} : w = <<t, INV!CacheWrites(t)>>
        BY <2>1, <3>1 DEF INV!Interruptible
      <4>2. w[1] = t /\ w[2] = INV!CacheWrites(t)
        BY <4>1
      <4>3. MayWrite(INV!CacheWrites(t), t)
        BY CacheMay
      <4> QED
        BY <4>2, <4>3
    <3>2. CASE phase = "fsck"
      <4>1. PICK t \in {todo[n] : n \in 1..Len(todo) \cap {1}} : w = <<t, INV!FsckWrites(t)>>
        BY <2>1, <3>2 DEF INV!Interruptible
      <4>2. w[1] = t /\ w[2] = INV!FsckWrites(t)
        BY <4>1
      <4>3. t \in Tokens /\ Pending(t)
        BY <3>2 DEF DistinctInv, BasicInv, InventoryTypes, Pending
      <4>4. MayWrite(INV!FsckWrites(t), t)
        BY <4>3, FsckMay
      <4> QED
        BY <4>2, <4>3, <4>4
    <3>3. CASE phase = "down"
      BY <3>3 DEF INV!Crash
    <3> QED
      BY <3>1, <3>2, <3>3 DEF DistinctInv, BasicInv, InventoryTypes
  <2>3. PICK t \in Tokens : \E ws : w[1] = t /\ w[2] = ws /\ MayWrite(ws, t)
    BY <2>2
  <2>4. PICK ws : w[1] = t /\ w[2] = ws /\ MayWrite(ws, t)
    BY <2>3
  <2>5. PICK j : j \in INV!Interrupted(inv, ws, t) /\ inv' = j
    BY <2>1, <2>4
  <2>6. Kept(inv, j, t, Touched(ws, Len(ws)))
    BY <2>4, <2>5, InterruptedKept DEF DistinctInv, MayWrite
  <2> QED
    BY <1>1, <1>2, <2>4, <2>5, <2>6, WritesDistinct
<1> QED
  BY <1>3, <1>4

LEMMA EmptyDistinct ==
  ASSUME NEW i, i = [s \in INV!States |-> INV!NoFile]
  PROVE  Loose(i) /\ \A s \in INV!States, t \in Tokens : ~Lists(i, s, t)
<1>1. PICK e : e = << >>
  OBVIOUS
<1>2. e \in Seq(Rec) /\ DOMAIN e = {}
  BY <1>1
<1>3. PICK file : file = [valid |-> TRUE, entries |-> e]
  OBVIOUS
<1>4. /\ \A s \in INV!States : i[s] = file
      /\ file.entries = e /\ file \in [valid : BOOLEAN, entries : Seq(Rec)]
      /\ i = [s \in INV!States |-> file]
  BY <1>1, <1>2, <1>3 DEF INV!NoFile
<1>5. i \in Files
  BY <1>4 DEF Files
<1> QED
  BY <1>2, <1>4, <1>5 DEF Loose, OneEach, Lists, INV!Has

LEMMA FsckStartDistinct ==
  ASSUME INV!FsckStart PROVE Loose(inv)' /\ DistinctTokens'
<1>1. PICK i : i = inv'
  OBVIOUS
<1>2. i = [s \in INV!States |-> INV!NoFile]
  BY <1>1 DEF INV!FsckStart
<1>3. Loose(i) /\ \A s \in INV!States, t \in Tokens : ~Lists(i, s, t)
  BY <1>2, EmptyDistinct
<1>4. Loose(inv)' /\ \A s \in INV!States, t \in Tokens : ~Lists(inv, s, t)'
  BY <1>1, <1>3
<1> QED
  BY <1>4 DEF DistinctTokens, INV!States

LEMMA QuietDistinct ==
  ASSUME DistinctInv, UNCHANGED <<records, inv, op>>, \A u \in Tokens : Pending(u)' => Pending(u)
  PROVE  Loose(inv)' /\ DistinctTokens'
<1>1. Loose(inv)'
  BY DEF DistinctInv
<1>2. \A u \in Tokens : /\ Lists(inv, "unvetted", u)' <=> Lists(inv, "unvetted", u)
                        /\ Lists(inv, "vetted", u)' <=> Lists(inv, "vetted", u)
                        /\ INV!Exists(u)' <=> INV!Exists(u)
  BY DEF INV!Exists
<1> QED
  BY <1>1, <1>2 DEF DistinctInv, DistinctTokens

LEMMA DistinctStep == ASSUME DistinctInv, [INV!Next]_(INV!vars) PROVE DistinctInv'
<1>1. BasicInv'
  BY BasicStep DEF DistinctInv
<1>2. Loose(inv)' /\ DistinctTokens'
  <2>1. CASE \E t \in Tokens :
              \/ INV!TreeNew(t) \/ INV!RecordNew(t)
              \/ INV!RecordNewError(t) \/ INV!RecordNewUnlisted(t) \/ INV!RecordEdit(t)
    BY <2>1, RequestDistinct
  <2>2. CASE \E t \in Tokens, s \in INV!Statuses :
                INV!RecordSetStatus(t, s) \/ INV!RecordSetStatusUnlisted(t, s)
    BY <2>2, RequestDistinct
  <2>3. CASE \E t \in Tokens : INV!CacheUpdate(t)
    BY <2>3, CacheUpdateDistinct
  <2>4. CASE INV!Crash
    BY <2>4, CrashDistinct
  <2>5. CASE INV!FsckStart
    BY <2>5, FsckStartDistinct
  <2>6. CASE INV!FsckAdd
    BY <2>6, FsckAddDistinct
  <2>7. CASE INV!Start \/ INV!FsckDone \/ UNCHANGED INV!vars
    <3>1. UNCHANGED <<records, inv, op, todo>>
      BY <2>7 DEF INV!Start, INV!FsckDone, INV!vars
    <3>2. phase' = "fsck" => phase = "fsck"
      BY <2>7 DEF INV!Start, INV!FsckDone, INV!vars
    <3>3. \A u \in Tokens : Pending(u)' => Pending(u)
      BY <3>1, <3>2 DEF Pending
    <3> QED
      BY <3>1, <3>3, QuietDistinct
  <2> QED
    BY <2>1, <2>2, <2>3, <2>4, <2>5, <2>6, <2>7 DEF INV!Next, INV!Read, INV!FsckError
<1> QED
  BY <1>1, <1>2 DEF DistinctInv

LEMMA DistinctStart == ASSUME INV!ConstantsAssumption, INV!Init PROVE DistinctInv
<1>1. BasicInv
  BY InventoryStart DEF InventoryInv
<1>2. inv = [s \in INV!States |-> INV!NoFile]
  BY DEF INV!Init
<1>3. Loose(inv) /\ \A s \in INV!States, t \in Tokens : ~Lists(inv, s, t)
  BY <1>2, EmptyDistinct
<1> QED
  BY <1>1, <1>3 DEF DistinctInv, DistinctTokens, INV!States

LEMMA DistinctPages ==
  ASSUME INV!ConstantsAssumption, PagesFit, DistinctInv PROVE INV!PagesAreComplete
<1> SUFFICES ASSUME NEW file \in INV!States, NEW s \in INV!Statuses,
                    NEW size \in 1 .. INV!Cardinality(Tokens)
             PROVE  INV!FlattenSeq([n \in 1 .. INV!Cardinality(Tokens) |->
                      INV!tokensParse(inv[file].entries, s, size, n)])
                    = INV!Matching(inv[file].entries, s)
  BY DEF INV!PagesAreComplete
<1>1. PICK m : m = Cardinality(Tokens)
  OBVIOUS
<1>2. INV!Cardinality(Tokens) = m
  BY <1>1, SameCardinality
<1>3. PICK e : e = inv[file].entries
  OBVIOUS
<1>4. e \in Seq(Rec) /\ OneEach(e)
  BY <1>3 DEF DistinctInv, Loose, Files
<1>5. PICK q : q = [n \in 1..m |-> INV!tokensParse(e, s, size, n)]
  OBVIOUS
<1>6. size \in 1..Cardinality(Tokens)
  BY <1>1, <1>2
<1>7. INV!FlattenSeq(q) = INV!Matching(e, s)
  BY <1>1, <1>4, <1>5, <1>6, InventoryPages
<1> QED
  BY <1>2, <1>3, <1>5, <1>7

\* Both names are of one definition.
LEMMA SamePages == INV!PagesAreComplete <=> PagesAreComplete
<1>1. \A q : INV!FlattenSeq(q) = FlattenSeq(q)
  BY DEF INV!FlattenSeq, FlattenSeq
<1>2. \A e, s : INV!Matching(e, s) = Matching(e, s)
  BY DEF INV!Matching, Matching
<1>3. \A e, s, K, n : INV!tokensParse(e, s, K, n) = tokensParse(e, s, K, n)
  BY DEF INV!tokensParse, tokensParse, INV!Collected, Collected
<1> QED
  BY <1>1, <1>2, <1>3, SameCardinality
  DEF INV!PagesAreComplete, PagesAreComplete, INV!States, States, INV!Statuses, Statuses

\* The pages of a status that invByStatus reads (tokensParse), one after the other, list
\* every token with that status once and in order, for every page size up to the number of
\* records and at all times: also after a crash has lost an update of the inventory,
\* because no file ever has two entries for a token.
THEOREM InventoryPaging ==
  ASSUME INV!ConstantsAssumption, PagesFit PROVE INV!Spec => []PagesAreComplete
<1>1. INV!Init => DistinctInv
  BY DistinctStart
<1>2. DistinctInv /\ [INV!Next]_(INV!vars) => DistinctInv'
  BY DistinctStep
<1>3. DistinctInv => PagesAreComplete
  BY DistinctPages, SamePages
<1> QED
  BY <1>1, <1>2, <1>3, PTL DEF INV!Spec

=============================================================================
