-------------------------------- MODULE GitBe --------------------------------
(***************************************************************************)
(* The git backend of politeiad (politeiad/backend/gitbe: gitbe.go, git.go *)
(* and anchors.go): records and their anchors, not the journals of its     *)
(* plugins.                                                                *)
(*                                                                         *)
(* There are two repositories.  Vetted records are the master branch of    *)
(* vetted; unvetted is a clone of it in which every unvetted record is a   *)
(* branch of its own.  Whatever changes vetted is committed to a branch of *)
(* unvetted and brought over by rebasePR, one git command after another    *)
(* under the lock of the backend: a command may fail, and politeiad may    *)
(* stop between two of them, which leaves both repositories, the branch    *)
(* that is checked out and the index as they are.                          *)
(*                                                                         *)
(* A repository is a sequence of commits.  Equal sequences are equal       *)
(* hashes; a commit keeps its number when it is rebased.                   *)
(***************************************************************************)
EXTENDS Integers, Sequences, SequencesExt, FiniteSets, Functions

CONSTANTS Tokens,                               \* tokens of records
          MaxCommits, MaxAnchors, MaxFaults    \* bounds

ASSUME GitBeAssumption ==
    {MaxCommits, MaxAnchors, MaxFaults} \subseteq Nat

Checkers == {"periodicAnchorChecker", "fsck"}
Idle == [pc |-> "idle"]
Master == <<"master", "">>
Tmp(t) == <<t, "_tmp">>     \* the temporary branch of a vetted record
Rec(t) == <<t, "">>         \* the branch of an unvetted record

VARIABLES
    vetted,    \* the vetted repository
    unvetted,  \* the unvetted repository
    op,        \* what the holder of the lock is doing
    checker,   \* checker -> the unconfirmed anchors it read, newest first
    mined,     \* anchors that dcrtime has in a block
    commits,   \* commits so far
    failures, crashes,
    left       \* what stops and failed requests have left in unvetted so far

vars == <<vetted, unvetted, op, checker, mined, commits, failures, crashes, left>>

(***************************************************************************)
(* Commits.  Those of a record give the status and the version that it has *)
(* from then on; carried are the files of other requests that the commit   *)
(* took along.                                                             *)
(***************************************************************************)
Entry(t, kind, status, version) ==
    [id |-> t, kind |-> kind, status |-> status, version |-> version]

RecordCommit(e, carried) ==
    [n |-> commits + 1, type |-> "record", entry |-> e, carried |-> carried]
AnchorCommit(digests) == [n |-> commits + 1, type |-> "anchor", digests |-> digests]
ConfirmCommit(a) == [n |-> commits + 1, type |-> "confirmation", anchor |-> a]

AnchorsOf(log) == {i \in 1..Len(log) : log[i].type = "anchor"}
ConfirmationsOf(log) == {i \in 1..Len(log) : log[i].type = "confirmation"}

EntriesOf(log, t) ==
    FlattenSeq([i \in 1..Len(log) |->
        IF log[i].type # "record" THEN <<>>
        ELSE IF log[i].entry.id = t THEN <<log[i].entry>>
        ELSE SetToSeq({e \in log[i].carried : e.id = t})])

\* The record directory exists, and what recordmetadata.json says.
Exists(log, t) == EntriesOf(log, t) # <<>>
loadMD(log, t) == Last(EntriesOf(log, t))

(***************************************************************************)
(* git.  The index of unvetted holds what no commit of its has: the files  *)
(* of a request that are staged, and those of a version that an edit       *)
(* copied and did not add.                                                 *)
(***************************************************************************)
Tip(b) == IF b = Master THEN unvetted.master ELSE unvetted.branches[b]
NewBranch(b, at) == [x \in DOMAIN unvetted.branches \cup {b} |->
                        IF x = b THEN at ELSE unvetted.branches[x]]
Without(branches, b) == Restrict(branches, DOMAIN branches \ {b})

\* The latest version that the directory of a record has, on a branch.
WorkingTree(log, t) ==
    LET own == {e \in unvetted.index : e.id = t}
    IN  IF own = {} /\ Exists(log, t) THEN {loadMD(log, t)} ELSE own

\* Staged changes follow a checkout unless it would overwrite them.  New
\* files follow anywhere; changed ones only to a commit that has them.
CanCheckout(b) ==
    \A e \in unvetted.index :
        \/ e.kind \in {"new", "untracked"}
        \/ EntriesOf(Tip(b), e.id) = EntriesOf(Tip(unvetted.head), e.id)

\* git checkout master; git pull --ff-only --rebase
Untracked == {e \in unvetted.index : e.kind = "untracked"}
Clean == unvetted.index \subseteq Untracked
Pulled == [unvetted EXCEPT !.head = Master, !.master = vetted.master]

CheckedOutMaster ==
    IF CanCheckout(Master) THEN [unvetted EXCEPT !.head = Master] ELSE unvetted

\* git checkout -f; git clean; git checkout master
Unwound == [unvetted EXCEPT !.head = Master, !.index = {}]
UnwoundBranch(b) == [Unwound EXCEPT !.branches = Without(@, b)]

CommonPrefix(s, t) ==
    CHOOSE n \in 0..Len(s) :
        /\ IsPrefix(SubSeq(s, 1, n), t)
        /\ \A m \in (n + 1)..Len(s) : ~IsPrefix(SubSeq(s, 1, m), t)

\* git rebase: the commits that are not in onto yet go on top of it.
Rebased(log, onto) == onto \o SubSeq(log, CommonPrefix(log, onto) + 1, Len(log))

-----------------------------------------------------------------------------
Init ==
    /\ vetted = [master |-> <<>>, branches |-> <<>>, dirty |-> FALSE]
    /\ unvetted = [master |-> <<>>, branches |-> <<>>, head |-> Master, index |-> {}]
    /\ op = Idle
    /\ checker = [c \in Checkers |-> <<>>]
    /\ mined = {}
    /\ commits = 0 /\ failures = 0 /\ crashes = 0 /\ left = {}

KeepAnchors == UNCHANGED <<checker, mined>>
KeepFaults == UNCHANGED <<failures, crashes, left>>

\* A git command, or an access to a file, fails.
CanFail == failures + crashes < MaxFaults
Fault == CanFail /\ failures' = failures + 1 /\ UNCHANGED crashes

\* A request takes the lock and stages its changes, e, on branch b.
Stage(kind, b, u, e) ==
    /\ op' = [pc |-> "commit", kind |-> kind, branch |-> b, entry |-> e]
    /\ unvetted' = [u EXCEPT !.head = b, !.index = @ \cup {e}]
    /\ UNCHANGED <<vetted, commits>> /\ KeepAnchors /\ KeepFaults

\* The bound is on the commits of records.
Ready ==
    /\ op = Idle
    /\ commits - Cardinality(AnchorsOf(vetted.master) \cup ConfirmationsOf(vetted.master))
         < MaxCommits

New(t) ==
    /\ Ready /\ Clean
    /\ Rec(t) \notin DOMAIN unvetted.branches /\ ~Exists(vetted.master, t)
    /\ Stage("new", Rec(t), [Pulled EXCEPT !.branches = NewBranch(Rec(t), vetted.master)],
             Entry(t, "new", "unvetted", 1))

UpdateUnvettedRecord(t) ==
    /\ Ready /\ Clean
    /\ ~Exists(vetted.master, t)
    /\ Rec(t) \in DOMAIN unvetted.branches /\ Exists(Tip(Rec(t)), t)
    /\ LET md == loadMD(Tip(Rec(t)), t) IN
       /\ md.status # "censored"
       /\ Stage("update", Rec(t), Pulled,
                Entry(t, "changed", IF md.status = "vetted" THEN "vetted" ELSE "iteration", 1))

\* Nothing is pulled here, nothing checks that the index is clean, and the
\* record is read from the files, whether they are committed or not.
SetUnvettedStatus(t) ==
    LET files == WorkingTree(Tip(Rec(t)), t)
    IN  /\ Ready
        /\ Rec(t) \in DOMAIN unvetted.branches /\ CanCheckout(Rec(t))
        /\ \A md \in files : md.status \in {"unvetted", "iteration"}
        /\ \E md \in files, status \in {"vetted", "censored"} :
                Stage(IF status = "vetted" THEN "publish" ELSE "censor", Rec(t), unvetted,
                      Entry(t, "changed", status, md.version))

\* The requests on vetted records pull first and work on a new _tmp branch.
\* An edit cleans the repository once it knows that it would change something.
StageVetted(kind, t, e) ==
    /\ Ready /\ Clean
    /\ Exists(vetted.master, t)
    /\ Stage(kind, Tmp(t),
             [Pulled EXCEPT !.branches = NewBranch(Tmp(t), vetted.master),
                            !.index = IF kind = "edit" THEN {} ELSE @], e)

\* A new version.  The status of a record that is not vetted, whichever it
\* is, becomes iteration unvetted.
UpdateVettedRecord(t) ==
    LET md == loadMD(vetted.master, t)
    IN  StageVetted("edit", t,
            Entry(t, "new", IF md.status = "vetted" THEN "vetted" ELSE "iteration",
                  md.version + 1))

\* These two take the latest version directory for that of the record, also
\* when no commit has it.
UpdateVettedMetadata(t) == \E md \in WorkingTree(vetted.master, t) :
    /\ md.status # "archived"
    /\ StageVetted("metadata", t, Entry(t, "changed", md.status, md.version))

SetVettedStatus(t) == \E md \in WorkingTree(vetted.master, t) :
    /\ md.status = "vetted"
    /\ StageVetted("archive", t, Entry(t, "changed", "archived", md.version))

\* The other requests check out master and pull, or fail to.
RefusedRequest ==
    /\ op = Idle
    /\ unvetted' = IF Clean THEN Pulled ELSE CheckedOutMaster
    /\ UNCHANGED <<vetted, op, commits>> /\ KeepAnchors /\ KeepFaults

\* A status change that is refused, or that finds the repository in a state
\* that git does not accept, unwinds whatever there is; so does an edit that
\* changes nothing.
RefusedStatusChange ==
    /\ op = Idle
    /\ unvetted' = Unwound
    /\ UNCHANGED <<vetted, op, commits>> /\ KeepAnchors /\ KeepFaults

(***************************************************************************)
(* The commit, and rebasePR.                                               *)
(***************************************************************************)
GoTo(pc) == op' = [op EXCEPT !.pc = pc]

\* What a commit takes along: all that is staged.  One to a version directory
\* that a failed edit left builds on the files that are there.
Carried(e) ==
    (unvetted.index \ (Untracked \cup {e}))
        \cup {x \in Untracked : x.id = e.id /\ x.version = e.version}

Local == {"new", "update", "censor"}     \* these end with a checkout of master

gitCommit ==
    LET b == op.branch IN
    /\ op.pc = "commit"
    /\ \E head \in {b} \cup (IF op.kind \in Local THEN {Master} ELSE {}) :
        /\ unvetted' = [unvetted EXCEPT
                !.branches[b] = Append(@, RecordCommit(op.entry, Carried(op.entry))),
                !.index = Untracked,
                !.head = head]
        /\ IF op.kind \in Local /\ head = b THEN Fault /\ left' = left ELSE KeepFaults
    /\ commits' = commits + 1
    /\ IF op.kind \in Local THEN op' = Idle ELSE GoTo("rebase")
    /\ UNCHANGED vetted /\ KeepAnchors

\* Mutant: the branch is rebased onto whatever master is, without the pull.
rebaseBranchNoPull ==
    LET b == op.branch IN
    /\ op.pc = "rebase"
    /\ unvetted' = [unvetted EXCEPT !.branches[b] = Rebased(@, unvetted.master), !.head = b]
    /\ GoTo("push")
    /\ UNCHANGED <<vetted, commits>> /\ KeepAnchors /\ KeepFaults

\* unvetted: checkout master, pull, checkout the branch, rebase it.
rebaseBranch ==
    LET b == op.branch IN
    /\ op.pc = "rebase"
    /\ unvetted' = [Pulled EXCEPT !.branches[b] = Rebased(@, vetted.master), !.head = b]
    /\ GoTo("push")
    /\ UNCHANGED <<vetted, commits>> /\ KeepAnchors /\ KeepFaults

\* git push, which is refused unless it is a fast forward.
CanPush(b) ==
    b \in DOMAIN vetted.branches => IsPrefix(vetted.branches[b], unvetted.branches[b])

gitPush ==
    LET b == op.branch IN
    /\ op.pc = "push" /\ CanPush(b)
    /\ vetted' = [vetted EXCEPT !.branches =
                    [x \in DOMAIN @ \cup {b} |-> IF x = b THEN unvetted.branches[b] ELSE @[x]]]
    /\ GoTo("replay")
    /\ UNCHANGED <<unvetted, commits>> /\ KeepAnchors /\ KeepFaults

\* vetted: rebase master onto the branch, ...
replayBranch ==
    /\ op.pc = "replay" /\ ~vetted.dirty
    /\ vetted' = [vetted EXCEPT !.master = Rebased(@, vetted.branches[op.branch])]
    /\ GoTo("delete")
    /\ UNCHANGED <<unvetted, commits>> /\ KeepAnchors /\ KeepFaults

\* ... then delete the branch.
deleteBranch ==
    /\ op.pc = "delete"
    /\ vetted' = [vetted EXCEPT !.branches = Without(@, op.branch)]
    /\ GoTo("sync")
    /\ UNCHANGED <<unvetted, commits>> /\ KeepAnchors /\ KeepFaults

\* unvetted: checkout master, pull, delete the branch.
syncUnvetted ==
    /\ op.pc = "sync"
    /\ unvetted' = [Pulled EXCEPT !.branches = Without(@, op.branch),
                                  !.index = {e \in @ : e.id # op.entry.id}]
    /\ op' = Idle
    /\ UNCHANGED <<vetted, commits>> /\ KeepAnchors /\ KeepFaults

(***************************************************************************)
(* A git command fails: what each request leaves behind.                   *)
(***************************************************************************)
\* Mutant: newRecord and the others leave what they staged.
UnwindNothing ==
    [unvetted EXCEPT !.head = Master]

Unwind ==
    CASE op.kind \in {"update", "publish", "censor", "archive"} -> Unwound
      [] op.kind \in {"new", "metadata"}                        -> UnwoundBranch(op.branch)
      [] op.kind = "anchor"                                     -> unvetted
      [] op.kind = "edit" -> IF op.pc = "commit" THEN UnwoundBranch(op.branch) ELSE unvetted

Keeps(index, head) == [unvetted EXCEPT !.index = index, !.head = head]

\* updateRecord does not unwind a version that it could not copy or add, nor
\* the changes that wouldChange could not.
EditLeaves ==
    LET md == loadMD(Tip(Master), op.entry.id)
    IN  {Keeps({[op.entry EXCEPT !.kind = "untracked"]}, op.branch),
         Keeps({[md EXCEPT !.kind = "changed"]}, op.branch)}

\* An unwinding that fails is logged and no more: git checkout -f leaves the
\* index as it was, git clean the files that are not tracked, and the commands
\* after them the branch.
NotUnwound ==
    {Keeps(unvetted.index, unvetted.head)}
    \cup {Keeps(index, head) : index \in {Untracked, {}}, head \in {unvetted.head, Master}}
    \cup (IF op.kind \in {"update", "publish", "censor", "archive"} THEN {CheckedOutMaster} ELSE {})
    \cup (IF op.kind = "edit" /\ op.pc = "commit" THEN EditLeaves ELSE {})

GitFails ==
    /\ op.pc \in {"commit", "rebase", "push", "replay", "delete", "sync", "anchor"}
    /\ \/ Fault /\ unvetted' \in {Unwind} \cup (IF op.kind = "anchor" THEN {} ELSE NotUnwound)
       \/ /\ \/ op.pc = "push" /\ ~CanPush(op.branch)
             \/ op.pc = "replay" /\ vetted.dirty
          /\ unvetted' = Unwind
          /\ UNCHANGED <<failures, crashes>>
    /\ left' = IF unvetted' = Unwind THEN left ELSE left \cup unvetted'.index
    /\ op' = Idle
    /\ UNCHANGED <<vetted, commits>> /\ KeepAnchors

(***************************************************************************)
(* Anchors.                                                                *)
(***************************************************************************)
Newest(s) == IF s = {} THEN 0 ELSE Max(s)

\* Mutant: the digests are those of the last commit alone.
deltaCommitsLast(log) ==
    {log[i].n : i \in {j \in {Len(log)} : j > 0 /\ log[j].type = "record"}}

\* The commits since the last anchor; confirmations are not anchored.
deltaCommits(log) ==
    {log[i].n : i \in {j \in (Newest(AnchorsOf(log)) + 1)..Len(log) : log[j].type = "record"}}

\* anchorRepo timestamps the digests, writes the audit trail, ...
anchorRepo ==
    /\ op = Idle
    /\ Cardinality(AnchorsOf(vetted.master)) < MaxAnchors
    /\ deltaCommits(vetted.master) # {}
    /\ vetted' = [vetted EXCEPT !.dirty = TRUE]
    /\ op' = [pc |-> "anchor", kind |-> "anchor", digests |-> deltaCommits(vetted.master)]
    /\ UNCHANGED <<unvetted, commits>> /\ KeepAnchors /\ KeepFaults

\* ... and commits; then unvetted pulls.
anchorAllRepos ==
    /\ op.pc = "anchor"
    /\ vetted' = [vetted EXCEPT !.dirty = FALSE,
                                !.master = Append(@, AnchorCommit(op.digests))]
    /\ \/ unvetted.head = Master /\ Clean
          /\ unvetted' = [unvetted EXCEPT !.master = vetted'.master]
          /\ KeepFaults
       \/ ~(unvetted.head = Master /\ Clean) /\ unvetted' = unvetted /\ KeepFaults
       \/ Fault /\ unvetted' = unvetted /\ left' = left
    /\ commits' = commits + 1
    /\ op' = Idle
    /\ KeepAnchors

Mine == \E i \in AnchorsOf(vetted.master) :
    /\ vetted.master[i].n \notin mined
    /\ mined' = mined \cup {vetted.master[i].n}
    /\ UNCHANGED <<vetted, unvetted, op, checker, commits>> /\ KeepFaults

\* The anchors of the log that are newer than the last confirmation.
readUnconfirmedAnchorRecord(log) ==
    Reverse(SelectSeq(SubSeq(log, Newest(ConfirmationsOf(log)) + 1, Len(log)),
                      LAMBDA c : c.type = "anchor"))

\* Every anchor of the log that has no confirmation above it.
unconfirmedAnchors(log) ==
    Reverse(SelectSeq(log, LAMBDA c :
        /\ c.type = "anchor"
        /\ \A i \in ConfirmationsOf(log) : log[i].anchor # c.n))

\* The log is read, and dcrtime asked, without the lock.  Anchors that could
\* not be verified are left out.
anchorChecker(c) ==
    LET log == vetted.master
        ua == IF c = "fsck" THEN unconfirmedAnchors(log) ELSE readUnconfirmedAnchorRecord(log)
        numbers == [i \in 1..Len(ua) |-> ua[i].n]
    IN  \E lost \in SUBSET Range(numbers) :
        /\ checker[c] = <<>>
        /\ c = "fsck" => crashes > 0
        /\ lost # Range(numbers)
        /\ checker' = [checker EXCEPT ![c] = SelectSeq(numbers, LAMBDA n : n \notin lost)]
        /\ UNCHANGED <<vetted, unvetted, op, mined, commits>> /\ KeepFaults

Verifying(c) == [pc |-> "verify", checker |-> c]
Confirms(c) ==
    op \in {Idle, Verifying(c)} /\ checker[c] # <<>> /\ Head(checker[c]) \in mined

\* afterAnchorVerify commits the confirmations one by one, under the lock, and
\* pulls in unvetted after the last.
afterAnchorVerify(c) ==
    /\ Confirms(c)
    /\ Cardinality(ConfirmationsOf(vetted.master)) <= MaxAnchors
    /\ vetted' = [vetted EXCEPT !.dirty = FALSE,
                                !.master = Append(@, ConfirmCommit(Head(checker[c])))]
    /\ commits' = commits + 1
    /\ checker' = [checker EXCEPT ![c] = Tail(@)]
    /\ IF Len(checker[c]) = 1
         THEN /\ op' = Idle
              /\ \/ /\ unvetted' = IF ~Clean THEN CheckedOutMaster
                                    ELSE [unvetted EXCEPT !.head = Master,
                                                          !.master = vetted'.master]
                    /\ KeepFaults
                 \/ Fault /\ unvetted' \in {unvetted, CheckedOutMaster} /\ left' = left
         ELSE unvetted' = unvetted /\ op' = Verifying(c) /\ KeepFaults
    /\ UNCHANGED mined

\* It gives up at the first anchor that is not mined yet, ...
notEnoughConfirmations(c) ==
    /\ op \in {Idle, Verifying(c)} /\ checker[c] # <<>>
    /\ Head(checker[c]) \notin mined
    /\ checker' = [checker EXCEPT ![c] = <<>>]
    /\ op' = Idle
    /\ UNCHANGED <<vetted, unvetted, mined, commits>> /\ KeepFaults

\* ... and at a confirmation that fails, which may have changed the audit trail.
ConfirmationFails(c) ==
    /\ Confirms(c)
    /\ Fault /\ left' = left
    /\ \E dirty \in {vetted.dirty, TRUE} : vetted' = [vetted EXCEPT !.dirty = dirty]
    /\ checker' = [checker EXCEPT ![c] = <<>>]
    /\ op' = Idle
    /\ UNCHANGED <<unvetted, mined, commits>>

\* politeiad stops; the repositories stay as they are.
Crash ==
    /\ CanFail
    /\ crashes' = crashes + 1
    /\ op' = Idle
    /\ checker' = [c \in Checkers |-> <<>>]
    /\ left' = left \cup unvetted.index
    /\ \E dirty \in {vetted.dirty} \cup (IF \E c \in Checkers : Confirms(c) THEN {TRUE} ELSE {}) :
            vetted' = [vetted EXCEPT !.dirty = dirty]
    /\ UNCHANGED <<unvetted, mined, commits, failures>>

Request(t) ==
    \/ New(t) \/ UpdateUnvettedRecord(t) \/ SetUnvettedStatus(t)
    \/ UpdateVettedRecord(t) \/ UpdateVettedMetadata(t) \/ SetVettedStatus(t)

rebasePR ==
    rebaseBranch \/ gitPush \/ replayBranch \/ deleteBranch \/ syncUnvetted

Next ==
    \/ \E t \in Tokens : Request(t)
    \/ RefusedRequest \/ RefusedStatusChange
    \/ gitCommit \/ rebasePR \/ GitFails
    \/ anchorRepo \/ anchorAllRepos \/ Mine
    \/ \E c \in Checkers : \/ anchorChecker(c) \/ afterAnchorVerify(c)
                          \/ notEnoughConfirmations(c) \/ ConfirmationFails(c)
    \/ Crash

Spec == Init /\ [][Next]_vars

-----------------------------------------------------------------------------
\* The vetted history is never rewritten: whatever fails or is cut short, a
\* step only adds commits to its master branch.  Anchors are of commit
\* hashes, and a rebase onto a stale branch would change those.
VettedIsAppendOnly == [][IsPrefix(vetted.master, vetted'.master)]_vars

\* Every commit of a record below the last anchor of the vetted repository
\* is in the digests of one anchor, and of one only, although drops and
\* confirmations interleave and may be cut short.
AnchorsCoverHistory ==
    \A i \in 1..Newest(AnchorsOf(vetted.master)) :
        vetted.master[i].type = "record" =>
            Cardinality({a \in AnchorsOf(vetted.master) :
                            vetted.master[i].n \in vetted.master[a].digests}) = 1

\* What a commit of the vetted repository takes along besides its own files was
\* left by a stop, by a failed unwinding, or by an edit that was not unwound:
\* every other failed request took its files back, from the index and from the
\* version directories, whatever failed or stopped before or after.
FailuresAreUnwound ==
    \A i \in 1..Len(vetted.master) :
        vetted.master[i].type = "record" => vetted.master[i].carried \subseteq left

=============================================================================
