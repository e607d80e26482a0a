----------------------------- MODULE GitBe_proofs -----------------------------
(***************************************************************************)
(* Proofs about GitBe, for any number of records, commits, anchors, failed  *)
(* git commands and stops.                                                  *)
(***************************************************************************)
EXTENDS GitBe, FiniteSetTheorems, WellFoundedInduction, TLAPS

-----------------------------------------------------------------------------
(* Commit logs. *)

IsLog(s) == \E S : s \in Seq(S)

\* What the commits of a log took along is of L, which was left.
CarriesLeft(s, L) ==
    \A i \in 1..Len(s) : s[i].type = "record" => s[i].carried \subseteq L

\* A branch of a repository, when L has been left so far.
LogOk(s, L) == IsLog(s) /\ CarriesLeft(s, L)

\* A set of naturals with a bound has a greatest element.
LEMMA Greatest ==
  ASSUME NEW k \in Nat, NEW S, S \subseteq 0..k, S # {}
  PROVE  \E n \in S : \A m \in S : m <= n
<1> DEFINE T == {k - n : n \in S}
<1>1. T \subseteq Nat /\ T # {}
  <2>1. \A n \in S : k - n \in Nat
    OBVIOUS
  <2> QED
    BY <2>1
<1>2. PICK x \in T : \A y \in T : ~ (<<y, x>> \in OpToRel(<, Nat))
  BY <1>1, NatLessThanWellFounded, WFMin
<1>3. \A y \in T : x <= y
  <2> TAKE y \in T
  <2>1. y \in Nat /\ x \in Nat
    BY <1>1
  <2>2. y < x => <<y, x>> \in OpToRel(<, Nat)
    BY <2>1, Zenon DEF OpToRel
  <2>3. <<y, x>> \notin OpToRel(<, Nat)
    BY <1>2
  <2>4. ~(y < x)
    BY <2>2, <2>3
  <2> QED
    BY <2>1, <2>4
<1>4. PICK n \in S : x = k - n
  OBVIOUS
<1>5. \A m \in S : k - m \in T
  OBVIOUS
<1> HIDE DEF T
<1>6. \A m \in S : m <= n
  BY <1>3, <1>4, <1>5
<1> QED
  BY <1>6

LEMMA CommonPrefixType ==
  ASSUME NEW s, NEW t, IsLog(s), IsLog(t)
  PROVE  /\ CommonPrefix(s, t) \in 0..Len(s)
         /\ IsPrefix(s, t) => CommonPrefix(s, t) = Len(s)
         /\ \A m \in (CommonPrefix(s, t) + 1)..Len(s) : ~IsPrefix(SubSeq(s, 1, m), t)
<1> DEFINE S == {n \in 0..Len(s) : IsPrefix(SubSeq(s, 1, n), t)}
           Longest(n) == /\ IsPrefix(SubSeq(s, 1, n), t)
                         /\ \A m \in (n + 1)..Len(s) : ~IsPrefix(SubSeq(s, 1, m), t)
<1>1. Len(s) \in Nat /\ Len(t) \in Nat /\ SubSeq(s, 1, Len(s)) = s
  BY DEF IsLog
<1>2. 0 \in S
  BY <1>1 DEF IsLog, IsPrefix
<1>3. PICK n \in S : \A m \in S : m <= n
  BY <1>1, <1>2, Greatest
<1>4. Longest(n)
  BY <1>1, <1>3
<1>5. CommonPrefix(s, t) = CHOOSE x \in 0..Len(s) : Longest(x)
  BY DEF CommonPrefix
<1>6. \E x \in 0..Len(s) : Longest(x)
  BY <1>4
<1>7. CommonPrefix(s, t) \in 0..Len(s) /\ Longest(CommonPrefix(s, t))
  <2> HIDE DEF Longest
  <2> QED
    BY <1>5, <1>6
<1>8. ASSUME IsPrefix(s, t)
      PROVE  CommonPrefix(s, t) = Len(s)
  <2> DEFINE p == CommonPrefix(s, t)
  <2>1. p \in 0..Len(s) /\ \A m \in (p + 1)..Len(s) : ~IsPrefix(SubSeq(s, 1, m), t)
    BY <1>7
  <2> HIDE DEF p
  <2>2. IsPrefix(SubSeq(s, 1, Len(s)), t)
    BY <1>1, <1>8
  <2>3. Len(s) \notin (p + 1)..Len(s)
    BY <2>1, <2>2
  <2>4. ASSUME NEW l \in Nat, NEW x \in 0..l, l \notin (x + 1)..l
        PROVE  x = l
    BY <2>4
  <2>5. p \in 0..Len(s) /\ Len(s) \in Nat
    BY <1>1, <2>1
  <2>6. p = Len(s)
    BY <2>3, <2>4, <2>5
  <2> QED
    BY <2>6 DEF p
<1> QED
  BY <1>7, <1>8

\* git rebase: the log goes on top of onto, and adds nothing of its own.
LEMMA RebasedOk ==
  ASSUME NEW s, NEW t, NEW c, LogOk(s, c), LogOk(t, c)
  PROVE  LogOk(Rebased(s, t), c) /\ IsPrefix(t, Rebased(s, t))
<1> DEFINE p == CommonPrefix(s, t)
           u == SubSeq(s, p + 1, Len(s))
<1>1. IsLog(s) /\ IsLog(t)
  BY DEF LogOk
<1>2. p \in 0..Len(s)
  BY <1>1, CommonPrefixType
<1>3. PICK S : s \in Seq(S)
  BY <1>1 DEF IsLog
<1>4. PICK T : t \in Seq(T)
  BY <1>1 DEF IsLog
<1> DEFINE R == S \cup T
<1>5. s \in Seq(R) /\ t \in Seq(R)
  BY <1>3, <1>4
<1> HIDE DEF R, p
<1>6. u \in Seq(R) /\ Len(u) = Len(s) - p /\ \A i \in 1..Len(u) : u[i] = s[i + p]
  BY <1>2, <1>5
<1> HIDE DEF u
<1>7. Rebased(s, t) = t \o u
  BY DEF Rebased, u, p
<1>8. /\ t \o u \in Seq(R) /\ Len(t \o u) = Len(t) + Len(u)
      /\ \A i \in 1..Len(t) : (t \o u)[i] = t[i]
      /\ \A i \in 1..Len(u) : (t \o u)[i + Len(t)] = u[i]
  BY <1>5, <1>6
<1>9. IsPrefix(t, t \o u)
  BY <1>5, <1>6, <1>8 DEF IsPrefix
<1>10. CarriesLeft(t \o u, c)
  <2> SUFFICES ASSUME NEW i \in 1..Len(t \o u)
               PROVE  (t \o u)[i].type = "record" => (t \o u)[i].carried \subseteq c
    BY DEF CarriesLeft
  <2>1. Len(s) \in Nat /\ Len(t) \in Nat /\ Len(u) \in Nat
    BY <1>5, <1>6
  <2>2. CASE i <= Len(t)
    BY <2>1, <2>2, <1>8 DEF LogOk, CarriesLeft
  <2>3. CASE i > Len(t)
    <3> DEFINE j == i - Len(t)
    <3>1. j \in 1..Len(u) /\ j + p \in 1..Len(s) /\ i = j + Len(t)
      BY <2>1, <2>3, <1>2, <1>6, <1>8
    <3>2. (t \o u)[i] = s[j + p]
      BY <3>1, <1>6, <1>8
    <3> QED
      BY <3>1, <3>2 DEF LogOk, CarriesLeft
  <2> QED
    BY <2>1, <2>2, <2>3
<1> QED
  BY <1>7, <1>8, <1>9, <1>10 DEF LogOk, IsLog

\* The replay of a branch that follows on master fast-forwards master.
LEMMA ReplayExtends ==
  ASSUME NEW s, NEW t, NEW c, LogOk(s, c), LogOk(t, c), IsPrefix(s, t)
  PROVE  IsPrefix(s, Rebased(s, t))
<1> DEFINE r == Rebased(s, t)
<1>1. IsLog(r) /\ IsPrefix(t, r)
  BY RebasedOk DEF LogOk
<1> HIDE DEF r
<1>2. ASSUME NEW u, NEW v, IsLog(u), IsLog(v), IsPrefix(u, v)
      PROVE  Len(u) \in Nat /\ Len(v) \in Nat /\ Len(u) <= Len(v)
             /\ \A i \in 1..Len(u) : v[i] = u[i]
  <2>1. Len(u) \in Nat /\ Len(v) \in Nat /\ Len(u) <= Len(v)
    BY <1>2 DEF IsLog, IsPrefix
  <2>2. SubSeq(u, 1, Len(u)) = SubSeq(v, 1, Len(u))
    BY <1>2 DEF IsPrefix
  <2>3. \A i \in 1..Len(u) : SubSeq(u, 1, Len(u))[i] = u[i] /\ SubSeq(v, 1, Len(u))[i] = v[i]
    BY <2>1, <1>2 DEF IsLog
  <2> QED
    BY <2>1, <2>2, <2>3
<1>3. /\ Len(s) \in Nat /\ Len(t) \in Nat /\ Len(r) \in Nat
      /\ Len(s) <= Len(t) /\ Len(t) <= Len(r)
      /\ \A i \in 1..Len(s) : r[i] = s[i]
  BY <1>1, <1>2 DEF LogOk
<1>4. SubSeq(s, 1, Len(s)) = SubSeq(r, 1, Len(s))
  BY <1>1, <1>3 DEF LogOk, IsLog
<1>5. IsPrefix(s, r)
  BY <1>3, <1>4 DEF IsPrefix
<1> QED
  BY <1>5 DEF r

LEMMA AppendOk ==
  ASSUME NEW s, NEW c, LogOk(s, c), NEW e,
         e.type = "record" => e.carried \subseteq c
  PROVE  LogOk(Append(s, e), c) /\ IsPrefix(s, Append(s, e))
<1>1. PICK S : s \in Seq(S)
  BY DEF LogOk, IsLog
<1> DEFINE R == S \cup {e}
<1>2. s \in Seq(R) /\ e \in R
  BY <1>1
<1> HIDE DEF R
<1>3. /\ Append(s, e) \in Seq(R) /\ Len(Append(s, e)) = Len(s) + 1 /\ Len(s) \in Nat
      /\ \A i \in 1..Len(s) : Append(s, e)[i] = s[i]
      /\ Append(s, e)[Len(s) + 1] = e
  BY <1>2
<1>4. IsPrefix(s, Append(s, e))
  BY <1>2, <1>3 DEF IsPrefix
<1>5. CarriesLeft(Append(s, e), c)
  BY <1>3 DEF LogOk, CarriesLeft
<1> QED
  BY <1>3, <1>4, <1>5 DEF LogOk, IsLog

LEMMA PrefixOfItself ==
  ASSUME NEW s, IsLog(s)
  PROVE  IsPrefix(s, s)
BY DEF IsLog, IsPrefix

-----------------------------------------------------------------------------
(* The inductive invariant. *)

Steps == {"commit", "rebase", "push", "replay", "delete", "sync"}
Kinds == {"new", "update", "publish", "censor", "edit", "metadata", "archive"}

\* What the holder of the lock can be doing.
Working(o) ==
    /\ o = [pc |-> o.pc, kind |-> o.kind, branch |-> o.branch, entry |-> o.entry]
    /\ o.pc \in Steps /\ o.kind \in Kinds
IsOp(o) ==
    \/ o = Idle
    \/ \E d : o = [pc |-> "anchor", kind |-> "anchor", digests |-> d]
    \/ \E k : o = [pc |-> "verify", checker |-> k]
    \/ Working(o)

\* The repositories, when c has been left.
VettedOk(v, c) ==
    /\ v = [master |-> v.master, branches |-> v.branches, dirty |-> v.dirty]
    /\ LogOk(v.master, c)
    /\ \A b \in DOMAIN v.branches : LogOk(v.branches[b], c)
UnvettedOk(u, c) ==
    /\ u = [master |-> u.master, branches |-> u.branches, head |-> u.head, index |-> u.index]
    /\ LogOk(u.master, c)
    /\ \A b \in DOMAIN u.branches : LogOk(u.branches[b], c)

\* The branch that is brought over follows on the vetted master from its rebase
\* to its replay, as all that happens under the lock.  The index has what was left
\* and, until its commit, what the request staged.
WorkOk(o, v, u, c) ==
    /\ IsOp(o)
    /\ o.pc \in {"commit", "rebase", "push"} => o.branch \in DOMAIN u.branches
    /\ o.pc = "commit" => o.entry.kind # "untracked"
    /\ o.pc = "push" => IsPrefix(v.master, u.branches[o.branch])
    /\ o.pc = "replay" => /\ o.branch \in DOMAIN v.branches
                          /\ IsPrefix(v.master, v.branches[o.branch])
    /\ u.index \subseteq c \cup (IF o.pc = "commit" THEN {o.entry} ELSE {})

GInv ==
    /\ VettedOk(vetted, left)
    /\ UnvettedOk(unvetted, left)
    /\ WorkOk(op, vetted, unvetted, left)

-----------------------------------------------------------------------------
(* git commands. *)

LEMMA Pull ==
  ASSUME NEW v, NEW u, NEW c, VettedOk(v, c), UnvettedOk(u, c),
         NEW w, w = [u EXCEPT !.head = Master, !.master = v.master]
  PROVE  UnvettedOk(w, c) /\ w.branches = u.branches /\ w.index = u.index
BY DEF VettedOk, UnvettedOk

LEMMA PulledOk ==
  ASSUME VettedOk(vetted, left), UnvettedOk(unvetted, left)
  PROVE  /\ UnvettedOk(Pulled, left)
         /\ Pulled.branches = unvetted.branches /\ Pulled.index = unvetted.index
BY Pull, ZenonT(60) DEF Pulled

WithHead(u, h, x) == [u EXCEPT !.head = h, !.index = x]
WithBranches(u, B) == [u EXCEPT !.branches = B]

LEMMA WithHeadIs ==
  ASSUME NEW u, NEW m, NEW B, NEW g, NEW y, NEW h, NEW x,
         u = [master |-> m, branches |-> B, head |-> g, index |-> y]
  PROVE  WithHead(u, h, x) = [master |-> m, branches |-> B, head |-> h, index |-> x]
<1>1. PICK w : w = [u EXCEPT !.head = h]
  OBVIOUS
<1>2. w = [master |-> m, branches |-> B, head |-> h, index |-> y]
  BY <1>1
<1>3. WithHead(u, h, x) = [w EXCEPT !.index = x]
  BY <1>1 DEF WithHead
<1> QED
  BY <1>2, <1>3

LEMMA CheckOut ==
  ASSUME NEW u, NEW c, UnvettedOk(u, c), NEW h, NEW x
  PROVE  /\ UnvettedOk(WithHead(u, h, x), c)
         /\ WithHead(u, h, x).branches = u.branches
         /\ WithHead(u, h, x).index = x
<1> DEFINE w == WithHead(u, h, x)
<1>1. w = [u EXCEPT !.head = h, !.index = x]
  BY DEF WithHead
<1> HIDE DEF w
<1>2. UnvettedOk(w, c) /\ w.branches = u.branches /\ w.index = x
  BY <1>1 DEF UnvettedOk
<1> QED
  BY <1>2 DEF w

LEMMA SetBranches ==
  ASSUME NEW u, NEW c, UnvettedOk(u, c), NEW B, \A b \in DOMAIN B : LogOk(B[b], c)
  PROVE  /\ UnvettedOk(WithBranches(u, B), c)
         /\ WithBranches(u, B).branches = B
         /\ WithBranches(u, B).index = u.index
<1> DEFINE w == WithBranches(u, B)
<1>1. w = [u EXCEPT !.branches = B]
  BY DEF WithBranches
<1> HIDE DEF w
<1>2. UnvettedOk(w, c) /\ w.branches = B /\ w.index = u.index
  BY <1>1 DEF UnvettedOk
<1> QED
  BY <1>2 DEF w

LEMMA DeleteBranch ==
  ASSUME NEW u, NEW c, UnvettedOk(u, c), NEW w, NEW b,
         w = [u EXCEPT !.branches = Without(@, b)]
  PROVE  UnvettedOk(w, c) /\ w.index = u.index
<1> DEFINE B == Without(u.branches, b)
<1>1. \A x \in DOMAIN B : LogOk(B[x], c)
  BY DEF UnvettedOk, Without, Restrict
<1>2. w = WithBranches(u, B)
  BY DEF WithBranches
<1> HIDE DEF B
<1> QED
  BY <1>1, <1>2, SetBranches

\* A request starts from a pull: the new branch is at the vetted master.
LEMMA BranchOff ==
  ASSUME GInv, NEW b
  PROVE  \E w : /\ w = [Pulled EXCEPT !.branches = NewBranch(b, vetted.master)]
                /\ UnvettedOk(w, left) /\ b \in DOMAIN w.branches
                /\ w.index = unvetted.index
                /\ w.branches = NewBranch(b, vetted.master)
<1> DEFINE p == Pulled
           B == NewBranch(b, vetted.master)
           w == WithBranches(p, B)
<1>1. UnvettedOk(p, left) /\ p.index = unvetted.index
  BY PulledOk DEF GInv
<1>2. b \in DOMAIN B /\ \A x \in DOMAIN B : LogOk(B[x], left)
  BY DEF NewBranch, GInv, UnvettedOk, VettedOk
<1>3. w = [Pulled EXCEPT !.branches = NewBranch(b, vetted.master)]
  BY DEF WithBranches
<1> HIDE DEF p, B
<1>4. /\ UnvettedOk(w, left) /\ b \in DOMAIN w.branches /\ w.index = unvetted.index
      /\ w.branches = B
  BY <1>1, <1>2, SetBranches
<1> HIDE DEF w
<1> QED
  BY <1>3, <1>4 DEF B

-----------------------------------------------------------------------------
(* Steps. *)

LEMMA Conclude ==
  ASSUME GInv, left' = left, VettedOk(vetted', left),
         UnvettedOk(unvetted', left), WorkOk(op', vetted', unvetted', left)
  PROVE  GInv'
BY DEF GInv

\* A request that ends, whatever it did to the repositories.
LEMMA Ends ==
  ASSUME GInv, left' = left, op' = Idle, VettedOk(vetted', left),
         UnvettedOk(unvetted', left), unvetted'.index \subseteq left
  PROVE  GInv'
<1>1. WorkOk(op', vetted', unvetted', left)
  BY DEF WorkOk, IsOp, Idle
<1> QED
  BY <1>1, Conclude

LEMMA StageStep ==
  ASSUME GInv, NEW kind \in Kinds, NEW b, NEW u, NEW e, Stage(kind, b, u, e),
         e.kind # "untracked",
         UnvettedOk(u, left), b \in DOMAIN u.branches, u.index \subseteq left
  PROVE  GInv'
<1> DEFINE o == [pc |-> "commit", kind |-> kind, branch |-> b, entry |-> e]
<1>1. op' = o /\ vetted' = vetted /\ left' = left
  BY DEF Stage, KeepFaults
<1>2. unvetted' = WithHead(u, b, u.index \cup {e})
  BY DEF Stage, WithHead
<1>3. /\ UnvettedOk(unvetted', left) /\ unvetted'.branches = u.branches
      /\ unvetted'.index = u.index \cup {e}
  BY <1>2, CheckOut
<1>4. WorkOk(op', vetted', unvetted', left)
  <2>1. Working(op') /\ op'.pc = "commit" /\ op'.branch = b /\ op'.entry = e
    BY <1>1 DEF Working, Steps
  <2> QED
    BY <1>3, <2>1 DEF WorkOk, IsOp
<1> QED
  BY <1>1, <1>3, <1>4, Conclude DEF GInv

\* Between requests the index has nothing but what was left.
LEMMA NothingStaged ==
  ASSUME GInv, op.pc # "commit"
  PROVE  unvetted.index \subseteq left
BY DEF GInv, WorkOk

\* Before it makes its branch, an edit cleans the repository.
LEMMA EditCleans ==
  ASSUME GInv, NEW kind, NEW B, NEW w, w = [Pulled EXCEPT !.branches = B],
         w.index = unvetted.index
  PROVE  [Pulled EXCEPT !.branches = B, !.index = IF kind = "edit" THEN {} ELSE @] =
            WithHead(w, Master, IF kind = "edit" THEN {} ELSE unvetted.index)
<1> DEFINE p == Pulled
           i == IF kind = "edit" THEN {} ELSE unvetted.index
<1>1. /\ p = [master |-> p.master, branches |-> p.branches, head |-> p.head, index |-> p.index]
      /\ p.index = unvetted.index
  BY PulledOk DEF GInv, UnvettedOk
<1>2. p.head = Master
  BY DEF Pulled, GInv, UnvettedOk
<1> HIDE DEF p
<1>3. w = [p EXCEPT !.branches = B]
  BY DEF p
<1>4. [p EXCEPT !.branches = B, !.index = IF kind = "edit" THEN {} ELSE @] =
          [p EXCEPT !.branches = B, !.index = i]
  BY <1>1
<1> HIDE DEF i
<1>5. [p EXCEPT !.branches = B, !.index = i] = WithHead(w, Master, i)
  BY <1>1, <1>2, <1>3 DEF WithHead
<1> QED
  BY <1>4, <1>5 DEF p, i

LEMMA StageVettedStep ==
  ASSUME GInv, NEW kind \in Kinds, NEW t, NEW e, StageVetted(kind, t, e),
         e.kind # "untracked"
  PROVE  GInv'
<1> DEFINE b == Tmp(t)
           B == NewBranch(b, vetted.master)
           i == IF kind = "edit" THEN {} ELSE unvetted.index
<1>1. /\ Stage(kind, b, [Pulled EXCEPT !.branches = B,
                              !.index = IF kind = "edit" THEN {} ELSE @], e)
      /\ op = Idle
  BY DEF StageVetted, Ready
<1>2. PICK w : /\ w = [Pulled EXCEPT !.branches = B]
               /\ UnvettedOk(w, left) /\ b \in DOMAIN w.branches
               /\ w.index = unvetted.index
  <2> HIDE DEF b
  <2> QED
    BY BranchOff, Zenon
<1> DEFINE u == WithHead(w, Master, i)
<1>3. UnvettedOk(u, left) /\ u.branches = w.branches /\ u.index = i
  <2>1. UnvettedOk(w, left)
    BY <1>2
  <2> HIDE DEF i
  <2> QED
    BY <2>1, CheckOut
<1>4. [Pulled EXCEPT !.branches = B, !.index = IF kind = "edit" THEN {} ELSE @] = u
  BY <1>2, EditCleans
<1>5. unvetted.index \subseteq left
  BY <1>1, NothingStaged DEF Idle
<1> HIDE DEF u, B, b
<1>6. Stage(kind, b, u, e) /\ u.index \subseteq left
  BY <1>1, <1>3, <1>4, <1>5
<1> QED
  BY <1>2, <1>3, <1>6, StageStep

LEMMA RequestSteps ==
  ASSUME GInv, NEW t \in Tokens, Request(t)
  PROVE  GInv'
<1>0. \A status, version : /\ Entry(t, "new", status, version).kind # "untracked"
                          /\ Entry(t, "changed", status, version).kind # "untracked"
  BY DEF Entry
<1>1. CASE New(t)
  <2> DEFINE w == [Pulled EXCEPT !.branches = NewBranch(Rec(t), vetted.master)]
             e == Entry(t, "new", "unvetted", 1)
  <2>1. Stage("new", Rec(t), w, e) /\ unvetted.index \subseteq left
    BY <1>1, NothingStaged DEF New, Ready, Idle
  <2>2. UnvettedOk(w, left) /\ Rec(t) \in DOMAIN w.branches /\ w.index = unvetted.index
    BY BranchOff
  <2>3. e.kind # "untracked"
    BY <1>0
  <2> HIDE DEF w, e
  <2> QED
    BY <2>1, <2>2, <2>3, StageStep DEF Kinds
<1>2. CASE UpdateUnvettedRecord(t)
  <2> DEFINE p == Pulled
  <2>1. /\ \E e : e.kind # "untracked" /\ Stage("update", Rec(t), p, e)
        /\ unvetted.index \subseteq left /\ Rec(t) \in DOMAIN unvetted.branches
    BY <1>0, <1>2, NothingStaged DEF UpdateUnvettedRecord, Ready, Idle
  <2>2. UnvettedOk(p, left) /\ p.branches = unvetted.branches /\ p.index = unvetted.index
    BY PulledOk DEF GInv
  <2> HIDE DEF p
  <2> QED
    BY <2>1, <2>2, StageStep DEF Kinds
<1>3. CASE SetUnvettedStatus(t)
  <2>1. /\ \E kind \in Kinds : \E e : e.kind # "untracked" /\ Stage(kind, Rec(t), unvetted, e)
        /\ op = Idle /\ Rec(t) \in DOMAIN unvetted.branches
    <3>1. PICK status \in {"vetted", "censored"} :
            /\ \E e : /\ e.kind # "untracked"
                       /\ Stage(IF status = "vetted" THEN "publish" ELSE "censor",
                                Rec(t), unvetted, e)
            /\ op = Idle /\ Rec(t) \in DOMAIN unvetted.branches
      BY <1>0, <1>3 DEF SetUnvettedStatus, Ready
    <3>2. (IF status = "vetted" THEN "publish" ELSE "censor") \in Kinds
      BY DEF Kinds
    <3> QED
      BY <3>1, <3>2
  <2>2. unvetted.index \subseteq left
    BY <2>1, NothingStaged DEF Idle
  <2> QED
    BY <2>1, <2>2, StageStep DEF GInv
<1>4. CASE UpdateVettedRecord(t)
  BY <1>0, <1>4, StageVettedStep DEF UpdateVettedRecord, Kinds
<1>5. CASE UpdateVettedMetadata(t)
  BY <1>0, <1>5, StageVettedStep DEF UpdateVettedMetadata, Kinds
<1>6. CASE SetVettedStatus(t)
  BY <1>0, <1>6, StageVettedStep DEF SetVettedStatus, Kinds
<1> QED
  BY <1>1, <1>2, <1>3, <1>4, <1>5, <1>6 DEF Request

LEMMA CheckedOutMasterOk ==
  ASSUME GInv
  PROVE  UnvettedOk(CheckedOutMaster, left) /\ CheckedOutMaster.index = unvetted.index
<1> DEFINE w == WithHead(unvetted, Master, unvetted.index)
<1>1. UnvettedOk(w, left) /\ w.index = unvetted.index
  BY CheckOut DEF GInv
<1>2. CheckedOutMaster = w \/ CheckedOutMaster = unvetted
  <2> DEFINE x == [unvetted EXCEPT !.head = Master]
  <2>1. x = w
    BY DEF WithHead, GInv, UnvettedOk
  <2> HIDE DEF w
  <2> QED
    BY <2>1 DEF CheckedOutMaster
<1> HIDE DEF w
<1> QED
  BY <1>1, <1>2 DEF GInv

LEMMA UnwoundOk ==
  ASSUME GInv
  PROVE  /\ UnvettedOk(Unwound, left) /\ Unwound.index = {}
         /\ \A b : UnvettedOk(UnwoundBranch(b), left) /\ UnwoundBranch(b).index = {}
<1> DEFINE w == Unwound
<1>1. UnvettedOk(w, left) /\ w.index = {}
  <2>1. w = WithHead(unvetted, Master, {})
    BY DEF Unwound, WithHead
  <2> HIDE DEF w
  <2> QED
    BY <2>1, CheckOut DEF GInv
<1>2. ASSUME NEW b
      PROVE  UnvettedOk(UnwoundBranch(b), left) /\ UnwoundBranch(b).index = {}
  <2> HIDE DEF w
  <2> DEFINE x == UnwoundBranch(b)
  <2>1. x = [w EXCEPT !.branches = Without(@, b)]
    BY DEF UnwoundBranch, w
  <2> HIDE DEF x
  <2>2. UnvettedOk(x, left) /\ x.index = {}
    BY <1>1, <2>1, DeleteBranch
  <2> QED
    BY <2>2 DEF x
<1> QED
  BY <1>1, <1>2

LEMMA RefusedSteps ==
  ASSUME GInv, RefusedRequest \/ RefusedStatusChange
  PROVE  GInv'
<1>1. op' = Idle /\ vetted' = vetted /\ left' = left /\ op = Idle
  BY DEF RefusedRequest, RefusedStatusChange, KeepFaults
<1>2. unvetted.index \subseteq left
  BY <1>1, NothingStaged DEF Idle
<1>3. unvetted' = CheckedOutMaster \/ unvetted' = Unwound \/ unvetted' = Pulled
  BY DEF RefusedRequest, RefusedStatusChange
<1>4. UnvettedOk(Pulled, left) /\ Pulled.index = unvetted.index
  BY PulledOk DEF GInv
<1>5. UnvettedOk(unvetted', left) /\ unvetted'.index \subseteq left
  BY <1>2, <1>3, <1>4, CheckedOutMasterOk, UnwoundOk
<1> QED
  BY <1>1, <1>5, Ends DEF GInv

-----------------------------------------------------------------------------
(* The commit, and rebasePR. *)

LEMMA AtWork ==
  ASSUME GInv, op.pc \in Steps
  PROVE  Working(op)
BY DEF GInv, WorkOk, IsOp, Idle, Steps

LEMMA GoesTo ==
  ASSUME GInv, op.pc \in Steps, NEW pc \in Steps, GoTo(pc)
  PROVE  IsOp(op') /\ op'.pc = pc /\ op'.branch = op.branch
<1>1. Working(op)
  BY AtWork
<1>2. op' = [op EXCEPT !.pc = pc]
  BY DEF GoTo
<1>3. /\ op' = [pc |-> pc, kind |-> op.kind, branch |-> op.branch, entry |-> op.entry]
      /\ op.kind \in Kinds
  BY <1>1, <1>2 DEF Working
<1>4. Working(op') /\ op'.pc = pc /\ op'.branch = op.branch
  BY <1>3 DEF Working
<1> QED
  BY <1>4 DEF IsOp

\* A changed branch.
LEMMA ChangeBranch ==
  ASSUME NEW u, NEW c, UnvettedOk(u, c), NEW b, NEW s, LogOk(s, c)
  PROVE  LET w == WithBranches(u, [u.branches EXCEPT ![b] = s])
         IN  /\ UnvettedOk(w, c) /\ w.index = u.index
             /\ DOMAIN w.branches = DOMAIN u.branches
             /\ b \in DOMAIN u.branches => w.branches[b] = s
<1> DEFINE B == [u.branches EXCEPT ![b] = s]
<1>1. /\ DOMAIN B = DOMAIN u.branches
      /\ b \in DOMAIN B => B[b] = s
      /\ \A x \in DOMAIN B : LogOk(B[x], c)
  BY DEF UnvettedOk
<1> HIDE DEF B
<1>2. /\ UnvettedOk(WithBranches(u, B), c)
      /\ WithBranches(u, B).branches = B
      /\ WithBranches(u, B).index = u.index
  BY <1>1, SetBranches
<1>3. LET w == WithBranches(u, B)
      IN  /\ UnvettedOk(w, c) /\ w.index = u.index
          /\ DOMAIN w.branches = DOMAIN u.branches
          /\ b \in DOMAIN u.branches => w.branches[b] = s
  BY <1>1, <1>2
<1> QED
  BY <1>3 DEF B

LEMMA CommitStep ==
  ASSUME GInv, gitCommit
  PROVE  GInv'
<1> DEFINE b == op.branch
           carried == Carried(op.entry)
           e == RecordCommit(op.entry, carried)
           s == Append(unvetted.branches[b], e)
           w == WithBranches(unvetted, [unvetted.branches EXCEPT ![b] = s])
           ends == op.kind \in Local
<1>1. PICK h :
        unvetted' = [unvetted EXCEPT !.branches[b] = Append(@, e), !.index = Untracked, !.head = h]
  BY DEF gitCommit
<1> DEFINE x == WithHead(w, h, Untracked)
<1>2. /\ op.pc = "commit" /\ vetted' = vetted /\ left' = left
      /\ IF ends THEN op' = Idle ELSE GoTo("rebase")
  BY DEF gitCommit, KeepFaults
<1>3. b \in DOMAIN unvetted.branches /\ unvetted.index \subseteq left \cup {op.entry}
  BY <1>2 DEF GInv, WorkOk
<1>4. carried \subseteq left /\ Untracked \subseteq left
  <2>1. op.entry \notin Untracked
    BY <1>2 DEF GInv, WorkOk, Untracked
  <2> QED
    BY <1>3, <2>1 DEF Carried, Untracked
<1>5. unvetted' = x
  <2> HIDE DEF e
  <2> QED
    BY <1>1 DEF WithHead, WithBranches, GInv, UnvettedOk
<1>6. LogOk(s, left)
  <2>1. e.carried = carried
    BY DEF RecordCommit
  <2>2. LogOk(unvetted.branches[b], left)
    BY <1>3 DEF GInv, UnvettedOk
  <2> HIDE DEF e, carried
  <2> QED
    BY <1>4, <2>1, <2>2, AppendOk
<1> HIDE DEF s, e
<1>7. UnvettedOk(w, left) /\ DOMAIN w.branches = DOMAIN unvetted.branches
  BY <1>6, ChangeBranch DEF GInv
<1> HIDE DEF w
<1>8. UnvettedOk(x, left) /\ x.branches = w.branches /\ x.index = Untracked
  BY <1>7, CheckOut
<1> HIDE DEF x
<1>9. CASE ends
  BY <1>2, <1>4, <1>5, <1>8, <1>9, Ends DEF GInv
<1>10. CASE ~ends
  <2>1. IsOp(op') /\ op'.pc = "rebase" /\ op'.branch = b
    BY <1>2, <1>10, GoesTo DEF Steps
  <2>2. WorkOk(op', vetted', unvetted', left)
    BY <1>3, <1>4, <1>5, <1>7, <1>8, <2>1 DEF WorkOk
  <2> QED
    BY <1>2, <1>5, <1>8, <2>2, Conclude DEF GInv
<1> QED
  BY <1>9, <1>10

LEMMA RebaseStep ==
  ASSUME GInv, rebaseBranch
  PROVE  GInv'
<1> DEFINE b == op.branch
           p == Pulled
           s == Rebased(unvetted.branches[b], vetted.master)
           w == WithBranches(p, [p.branches EXCEPT ![b] = s])
           x == WithHead(w, b, w.index)
<1>1. op.pc = "rebase" /\ vetted' = vetted /\ left' = left /\ GoTo("push")
  BY DEF rebaseBranch, KeepFaults
<1>2. b \in DOMAIN unvetted.branches /\ (unvetted.index \subseteq left)
  BY <1>1 DEF GInv, WorkOk
<1>3. UnvettedOk(p, left) /\ p.branches = unvetted.branches /\ p.index = unvetted.index
  BY PulledOk DEF GInv
<1>4. LogOk(s, left) /\ IsPrefix(vetted.master, s)
  <2>1. LogOk(unvetted.branches[b], left) /\ LogOk(vetted.master, left)
    BY <1>2 DEF GInv, UnvettedOk, VettedOk
  <2> QED
    BY <2>1, RebasedOk
<1>5. unvetted' = x
  <2>1. unvetted' = [p EXCEPT !.branches[b] = Rebased(@, vetted.master), !.head = b]
    BY DEF rebaseBranch
  <2> HIDE DEF p
  <2> QED
    BY <2>1, <1>3 DEF WithHead, WithBranches, UnvettedOk
<1> HIDE DEF s, p
<1>6. /\ UnvettedOk(w, left) /\ w.index = p.index
      /\ b \in DOMAIN w.branches /\ w.branches[b] = s
  BY <1>2, <1>3, <1>4, ChangeBranch
<1> HIDE DEF w
<1>7. UnvettedOk(x, left) /\ x.branches = w.branches /\ x.index = w.index
  BY <1>6, CheckOut
<1> HIDE DEF x
<1>8. IsOp(op') /\ op'.pc = "push" /\ op'.branch = b
  BY <1>1, GoesTo DEF Steps
<1>9. WorkOk(op', vetted', unvetted', left)
  BY <1>1, <1>2, <1>3, <1>4, <1>5, <1>6, <1>7, <1>8 DEF WorkOk
<1> QED
  BY <1>1, <1>5, <1>7, <1>9, Conclude DEF GInv

LEMMA PushStep ==
  ASSUME GInv, gitPush
  PROVE  GInv'
<1> DEFINE b == op.branch
           B == [x \in DOMAIN vetted.branches \cup {b} |->
                    IF x = b THEN unvetted.branches[b] ELSE vetted.branches[x]]
<1>1. /\ op.pc = "push" /\ unvetted' = unvetted /\ left' = left /\ GoTo("replay")
      /\ vetted' = [vetted EXCEPT !.branches = B]
  BY DEF gitPush, KeepFaults
<1>2. /\ b \in DOMAIN unvetted.branches /\ (unvetted.index \subseteq left)
      /\ IsPrefix(vetted.master, unvetted.branches[b])
  BY <1>1 DEF GInv, WorkOk
<1>3. /\ \A x \in DOMAIN B : LogOk(B[x], left)
      /\ b \in DOMAIN B /\ B[b] = unvetted.branches[b]
  BY <1>2 DEF GInv, UnvettedOk, VettedOk
<1> HIDE DEF B
<1>4. vetted' = [master |-> vetted.master, branches |-> B, dirty |-> vetted.dirty]
  BY <1>1 DEF GInv, VettedOk
<1>5. VettedOk(vetted', left) /\ vetted'.master = vetted.master /\ vetted'.branches = B
  <2>1. LogOk(vetted.master, left)
    BY DEF GInv, VettedOk
  <2> QED
    BY <1>3, <1>4, <2>1 DEF VettedOk
<1>6. IsOp(op') /\ op'.pc = "replay" /\ op'.branch = b
  BY <1>1, GoesTo DEF Steps
<1>7. WorkOk(op', vetted', unvetted', left)
  BY <1>1, <1>2, <1>3, <1>5, <1>6 DEF WorkOk
<1> QED
  BY <1>1, <1>5, <1>7, Conclude DEF GInv

\* A step of the holder of the lock that changes vetted alone, and where to it goes.
LEMMA VettedWork ==
  ASSUME GInv, op.pc \in Steps \ {"commit"}, NEW pc \in {"delete", "sync"}, GoTo(pc),
         VettedOk(vetted', left), unvetted' = unvetted, left' = left
  PROVE  GInv'
<1>1. IsOp(op') /\ op'.pc = pc
  BY GoesTo DEF Steps
<1>2. WorkOk(op', vetted', unvetted', left)
  BY <1>1 DEF GInv, WorkOk
<1> QED
  BY <1>2, Conclude DEF GInv

\* The branch that is replayed follows on the vetted master.
LEMMA ReplayFollows ==
  ASSUME GInv, op.pc = "replay"
  PROVE  LET s == Rebased(vetted.master, vetted.branches[op.branch])
         IN  LogOk(s, left) /\ IsPrefix(vetted.master, s)
<1>1. /\ op.branch \in DOMAIN vetted.branches
      /\ IsPrefix(vetted.master, vetted.branches[op.branch])
  BY DEF GInv, WorkOk
<1>2. LogOk(vetted.master, left) /\ LogOk(vetted.branches[op.branch], left)
  BY <1>1 DEF GInv, VettedOk
<1> QED
  BY <1>1, <1>2, RebasedOk, ReplayExtends

LEMMA ReplaySteps ==
  ASSUME GInv, replayBranch \/ deleteBranch
  PROVE  GInv'
<1>1. CASE replayBranch
  <2> DEFINE s == Rebased(vetted.master, vetted.branches[op.branch])
  <2>1. /\ op.pc = "replay" /\ unvetted' = unvetted /\ left' = left /\ GoTo("delete")
        /\ vetted' = [vetted EXCEPT !.master = s]
    BY <1>1 DEF replayBranch, KeepFaults
  <2>2. LogOk(s, left)
    BY <2>1, ReplayFollows
  <2> HIDE DEF s
  <2>3. VettedOk(vetted', left)
    BY <2>1, <2>2 DEF GInv, VettedOk
  <2> QED
    BY <2>1, <2>3, VettedWork DEF Steps
<1>2. CASE deleteBranch
  <2> DEFINE B == Without(vetted.branches, op.branch)
  <2>1. /\ op.pc = "delete" /\ unvetted' = unvetted /\ left' = left /\ GoTo("sync")
        /\ vetted' = [vetted EXCEPT !.branches = B]
    BY <1>2 DEF deleteBranch, KeepFaults
  <2>2. \A x \in DOMAIN B : LogOk(B[x], left)
    BY DEF Without, Restrict, GInv, VettedOk
  <2> HIDE DEF B
  <2>3. VettedOk(vetted', left)
    BY <2>1, <2>2 DEF GInv, VettedOk
  <2> QED
    BY <2>1, <2>3, VettedWork DEF Steps
<1> QED
  BY <1>1, <1>2

LEMMA SyncStep ==
  ASSUME GInv, syncUnvetted
  PROVE  GInv'
<1> DEFINE p == Pulled
           i == {e \in unvetted.index : e.id # op.entry.id}
           w == WithBranches(p, Without(p.branches, op.branch))
           x == WithHead(w, Master, i)
<1>1. /\ op.pc = "sync" /\ op' = Idle /\ vetted' = vetted /\ left' = left
      /\ unvetted' = [p EXCEPT !.branches = Without(@, op.branch),
                               !.index = {e \in @ : e.id # op.entry.id}]
  BY DEF syncUnvetted, KeepFaults
<1>2. /\ UnvettedOk(p, left) /\ p.index = unvetted.index
      /\ p = [master |-> p.master, branches |-> p.branches, head |-> Master,
              index |-> p.index]
  <2>1. p.head = Master
    BY DEF Pulled, GInv, UnvettedOk
  <2> HIDE DEF p
  <2>2. UnvettedOk(p, left) /\ p.index = unvetted.index
    BY PulledOk DEF GInv, p
  <2> QED
    BY <2>1, <2>2 DEF UnvettedOk
<1> HIDE DEF p
<1>3. UnvettedOk(w, left)
  <2>1. w = [p EXCEPT !.branches = Without(@, op.branch)]
    BY DEF WithBranches
  <2> HIDE DEF w
  <2> QED
    BY <1>2, <2>1, DeleteBranch
<1>4. unvetted' = x
  <2> DEFINE B == Without(p.branches, op.branch)
  <2>1. unvetted' = [p EXCEPT !.branches = B, !.index = {e \in @ : e.id # op.entry.id}]
    BY <1>1
  <2>2. {e \in p.index : e.id # op.entry.id} = i
    BY <1>2
  <2> HIDE DEF B, i
  <2>3. unvetted' = [p EXCEPT !.branches = B, !.index = i]
    BY <2>1, <2>2
  <2>4. w = [p EXCEPT !.branches = B]
    BY DEF WithBranches, B
  <2> HIDE DEF w
  <2>5. PICK m, c, y : p = [master |-> m, branches |-> c, head |-> Master, index |-> y]
    BY <1>2
  <2>6. w = [master |-> m, branches |-> B, head |-> Master, index |-> y]
    BY <2>4, <2>5
  <2>7. unvetted' = [master |-> m, branches |-> B, head |-> Master, index |-> i]
    BY <2>3, <2>5
  <2>8. WithHead(w, Master, i) = [master |-> m, branches |-> B, head |-> Master, index |-> i]
    BY <2>6, WithHeadIs
  <2> QED
    BY <2>7, <2>8
<1> HIDE DEF w
<1>5. UnvettedOk(x, left) /\ x.index = i
  BY <1>3, CheckOut
<1>6. i \subseteq left
  BY <1>1, NothingStaged
<1> QED
  BY <1>1, <1>4, <1>5, <1>6, Ends DEF GInv

\* What has been left stays left.
LEMMA MoreLeft ==
  ASSUME NEW c, NEW d, c \subseteq d
  PROVE  /\ \A s : LogOk(s, c) => LogOk(s, d)
         /\ \A v : VettedOk(v, c) => VettedOk(v, d)
         /\ \A u : UnvettedOk(u, c) => UnvettedOk(u, d)
<1>1. \A s : LogOk(s, c) => LogOk(s, d)
  BY DEF LogOk, CarriesLeft
<1>2. \A v : VettedOk(v, c) => VettedOk(v, d)
  BY <1>1 DEF VettedOk
<1>3. \A u : UnvettedOk(u, c) => UnvettedOk(u, d)
  BY <1>1 DEF UnvettedOk
<1> QED
  BY <1>1, <1>2, <1>3

\* A request ends and leaves files.
LEMMA EndsLeaving ==
  ASSUME GInv, op' = Idle, left' = left \cup unvetted'.index,
         VettedOk(vetted', left), UnvettedOk(unvetted', left)
  PROVE  GInv'
<1>1. VettedOk(vetted', left') /\ UnvettedOk(unvetted', left')
  BY MoreLeft
<1>2. WorkOk(op', vetted', unvetted', left')
  BY DEF WorkOk, IsOp, Idle
<1> QED
  BY <1>1, <1>2 DEF GInv

\* Whatever an unwinding leaves undone, the branches stay what they are.
LEMMA NotUnwoundOk ==
  ASSUME GInv, NEW u \in NotUnwound
  PROVE  UnvettedOk(u, left) /\ u.branches = unvetted.branches
<1>1. u = CheckedOutMaster \/ \E i, h : u = Keeps(i, h)
  <2>1. \/ u = Keeps(unvetted.index, unvetted.head)
        \/ \E index \in {Untracked, {}}, head \in {unvetted.head, Master} : u = Keeps(index, head)
        \/ u = CheckedOutMaster
        \/ u \in EditLeaves
    BY DEF NotUnwound
  <2>2. u \in EditLeaves => \E i, h : u = Keeps(i, h)
    BY Zenon DEF EditLeaves
  <2> QED
    BY <2>1, <2>2, Zenon
<1>2. CASE \E i, h : u = Keeps(i, h)
  <2>1. PICK i, h : u = Keeps(i, h)
    BY <1>2
  <2>2. u = WithHead(unvetted, h, i)
    BY <2>1 DEF Keeps, WithHead, GInv, UnvettedOk
  <2>3. UnvettedOk(WithHead(unvetted, h, i), left) /\ WithHead(unvetted, h, i).branches = unvetted.branches
    BY CheckOut DEF GInv
  <2> QED
    BY <2>2, <2>3
<1>3. CASE u = CheckedOutMaster
  <2>1. UnvettedOk(CheckedOutMaster, left)
    BY CheckedOutMasterOk
  <2>2. CheckedOutMaster.branches = unvetted.branches
    BY DEF CheckedOutMaster, GInv, UnvettedOk
  <2> QED
    BY <1>3, <2>1, <2>2
<1> QED
  BY <1>1, <1>2, <1>3

\* A git command fails: a request unwinds, or has nothing staged any more, or
\* what the index has is left from then on.
LEMMA FailStep ==
  ASSUME GInv, GitFails
  PROVE  GInv'
<1>1. /\ op.pc \in Steps \cup {"anchor"}
      /\ unvetted' = Unwind \/ unvetted' \in NotUnwound
      /\ op' = Idle /\ vetted' = vetted
      /\ left' = IF unvetted' = Unwind THEN left ELSE left \cup unvetted'.index
  BY DEF GitFails, Steps
<1>2. UnvettedOk(Unwind, left) /\ Unwind.index \subseteq left
  <2>1. CASE op.pc = "anchor"
    <3>1. op.kind = "anchor"
      BY <2>1 DEF GInv, WorkOk, IsOp, Idle, Working, Steps
    <3>2. Unwind = unvetted
      BY <3>1 DEF Unwind
    <3> QED
      BY <2>1, <3>2, NothingStaged DEF GInv
  <2>2. CASE op.pc \in Steps
    <3>1. op.kind \in Kinds
      BY <2>2, AtWork DEF Working
    <3>2. \/ Unwind = Unwound \/ Unwind = UnwoundBranch(op.branch)
          \/ op.pc # "commit" /\ Unwind = unvetted
      BY <3>1 DEF Unwind, Kinds
    <3> QED
      BY <3>2, NothingStaged, UnwoundOk DEF GInv
  <2> QED
    BY <1>1, <2>1, <2>2
<1>3. CASE unvetted' = Unwind
  BY <1>1, <1>2, <1>3, Ends DEF GInv
<1>4. CASE unvetted' # Unwind
  BY <1>1, <1>4, NotUnwoundOk, EndsLeaving DEF GInv
<1> QED
  BY <1>3, <1>4

-----------------------------------------------------------------------------
(* Anchors and stops. *)

\* An anchor or a confirmation is committed to the vetted repository.
LEMMA AppendVetted ==
  ASSUME GInv, NEW e, e.type # "record",
         vetted' = [vetted EXCEPT !.dirty = FALSE, !.master = Append(@, e)]
  PROVE  VettedOk(vetted', left) /\ IsPrefix(vetted.master, vetted'.master)
<1> DEFINE s == Append(vetted.master, e)
<1>1. LogOk(s, left) /\ IsPrefix(vetted.master, s)
  BY AppendOk DEF GInv, VettedOk
<1> HIDE DEF s
<1>2. vetted' = [vetted EXCEPT !.dirty = FALSE, !.master = s]
  BY DEF s
<1>3. vetted' = [master |-> s, branches |-> vetted.branches, dirty |-> FALSE]
  BY <1>2 DEF GInv, VettedOk
<1>4. /\ vetted'.master = s /\ vetted'.branches = vetted.branches
      /\ vetted' = [master |-> vetted'.master, branches |-> vetted'.branches,
                    dirty |-> vetted'.dirty]
  <2>1. ASSUME NEW v, NEW x, NEW y, v = [master |-> x, branches |-> y, dirty |-> FALSE]
        PROVE  /\ v.master = x /\ v.branches = y
               /\ v = [master |-> v.master, branches |-> v.branches, dirty |-> v.dirty]
    BY <2>1
  <2> QED
    BY <1>3, <2>1
<1>5. \A b \in DOMAIN vetted.branches : LogOk(vetted.branches[b], left)
  BY DEF GInv, VettedOk
<1>6. VettedOk(vetted', left)
  BY <1>1, <1>4, <1>5 DEF VettedOk
<1> QED
  BY <1>1, <1>4, <1>6

\* unvetted pulls what was committed.
LEMMA PullVetted ==
  ASSUME GInv, VettedOk(vetted', left), NEW w,
         \/ w = [unvetted EXCEPT !.master = vetted'.master]
         \/ w = [unvetted EXCEPT !.head = Master, !.master = vetted'.master]
  PROVE  UnvettedOk(w, left) /\ w.index = unvetted.index
<1> DEFINE m == vetted'.master
<1>1. LogOk(m, left)
  BY DEF VettedOk
<1> HIDE DEF m
<1>2. \/ w = [unvetted EXCEPT !.master = m]
      \/ w = [unvetted EXCEPT !.head = Master, !.master = m]
  BY DEF m
<1>3. /\ w.index = unvetted.index /\ w.master = m /\ w.branches = unvetted.branches
      /\ w = [master |-> w.master, branches |-> w.branches, head |-> w.head,
              index |-> w.index]
  BY <1>2 DEF GInv, UnvettedOk
<1> QED
  BY <1>1, <1>3 DEF GInv, UnvettedOk

LEMMA AnchorSteps ==
  ASSUME GInv, anchorRepo \/ anchorAllRepos
  PROVE  GInv'
<1>1. CASE anchorRepo
  <2> DEFINE d == deltaCommits(vetted.master)
             o == [pc |-> "anchor", kind |-> "anchor", digests |-> d]
  <2>1. /\ op = Idle /\ op' = o /\ vetted' = [vetted EXCEPT !.dirty = TRUE]
        /\ unvetted' = unvetted /\ left' = left
    BY <1>1 DEF anchorRepo, KeepFaults
  <2> HIDE DEF d
  <2>2. IsOp(op') /\ op'.pc = "anchor"
    BY <2>1 DEF IsOp
  <2>3. VettedOk(vetted', left)
    BY <2>1 DEF GInv, VettedOk
  <2>4. WorkOk(op', vetted', unvetted', left)
    BY <2>1, <2>2 DEF GInv, WorkOk, Idle
  <2> QED
    BY <2>1, <2>3, <2>4, Conclude DEF GInv
<1>2. CASE anchorAllRepos
  <2> DEFINE e == AnchorCommit(op.digests)
             w == [unvetted EXCEPT !.master = vetted'.master]
  <2>1. /\ op.pc = "anchor" /\ op' = Idle /\ left' = left
        /\ vetted' = [vetted EXCEPT !.dirty = FALSE, !.master = Append(@, e)]
        /\ unvetted' = w \/ unvetted' = unvetted
    BY <1>2, Zenon DEF anchorAllRepos, KeepFaults
  <2>2. e.type # "record"
    BY DEF AnchorCommit
  <2> HIDE DEF e
  <2>3. VettedOk(vetted', left)
    BY <2>1, <2>2, AppendVetted
  <2>4. UnvettedOk(w, left) /\ w.index = unvetted.index
    BY <2>3, PullVetted
  <2> HIDE DEF w
  <2>5. unvetted.index \subseteq left
    BY <2>1, NothingStaged
  <2>6. UnvettedOk(unvetted', left) /\ (unvetted'.index \subseteq left)
    BY <2>1, <2>4, <2>5 DEF GInv
  <2> QED
    BY <2>1, <2>3, <2>6, Ends
<1> QED
  BY <1>1, <1>2

LEMMA VerifyStep ==
  ASSUME GInv, NEW c \in Checkers, afterAnchorVerify(c)
  PROVE  GInv'
<1> DEFINE e == ConfirmCommit(Head(checker[c]))
           w == [unvetted EXCEPT !.head = Master, !.master = vetted'.master]
<1>1. /\ op \in {Idle, Verifying(c)} /\ left' = left
      /\ vetted' = [vetted EXCEPT !.dirty = FALSE, !.master = Append(@, e)]
      /\ \/ op' = Idle /\ unvetted' \in {unvetted, CheckedOutMaster, w}
         \/ op' = Verifying(c) /\ unvetted' = unvetted
  <2>1. op \in {Idle, Verifying(c)}
    BY DEF afterAnchorVerify, Confirms
  <2>2. vetted' = [vetted EXCEPT !.dirty = FALSE, !.master = Append(@, e)]
    BY DEF afterAnchorVerify
  <2>3. /\ left' = left
        /\ \/ op' = Idle /\ unvetted' \in {unvetted, CheckedOutMaster, w}
           \/ op' = Verifying(c) /\ unvetted' = unvetted
    <3>1. CASE Len(checker[c]) = 1
      BY <3>1 DEF afterAnchorVerify, KeepFaults
    <3>2. CASE Len(checker[c]) # 1
      BY <3>2 DEF afterAnchorVerify, KeepFaults
    <3> QED
      BY <3>1, <3>2
  <2> QED
    BY <2>1, <2>2, <2>3
<1>2. unvetted.index \subseteq left
  BY <1>1, NothingStaged DEF Idle, Verifying
<1>3. e.type # "record"
  BY DEF ConfirmCommit
<1> HIDE DEF e
<1>4. VettedOk(vetted', left)
  BY <1>1, <1>3, AppendVetted
<1>5. UnvettedOk(w, left) /\ w.index = unvetted.index
  BY <1>4, PullVetted
<1> HIDE DEF w
<1>6. UnvettedOk(unvetted', left) /\ unvetted'.index = unvetted.index
  BY <1>1, <1>5, CheckedOutMasterOk DEF GInv
<1>7. CASE op' = Idle
  BY <1>1, <1>2, <1>4, <1>6, <1>7, Ends
<1>8. CASE op' = Verifying(c)
  <2>1. IsOp(op') /\ op'.pc = "verify"
    BY <1>8 DEF IsOp, Verifying
  <2>2. WorkOk(op', vetted', unvetted', left)
    BY <1>2, <1>6, <2>1 DEF WorkOk
  <2> QED
    BY <1>1, <1>4, <1>6, <2>2, Conclude
<1> QED
  BY <1>1, <1>7, <1>8

\* The audit trail of vetted may change; its branches do not.
LEMMA DirtyOk ==
  ASSUME GInv, NEW d, NEW v, v = [vetted EXCEPT !.dirty = d]
  PROVE  /\ VettedOk(v, left)
         /\ v.master = vetted.master /\ v.branches = vetted.branches
BY DEF GInv, VettedOk

LEMMA GiveUpStep ==
  ASSUME GInv, NEW c \in Checkers, notEnoughConfirmations(c) \/ ConfirmationFails(c)
  PROVE  GInv'
<1>1. /\ op \in {Idle, Verifying(c)} /\ op' = Idle
      /\ unvetted' = unvetted /\ left' = left
  BY DEF notEnoughConfirmations, ConfirmationFails, Confirms, KeepFaults
<1>2. unvetted.index \subseteq left
  BY <1>1, NothingStaged DEF Idle, Verifying
<1>3. VettedOk(vetted', left)
  <2>1. vetted' = vetted \/ \E d : vetted' = [vetted EXCEPT !.dirty = d]
    BY DEF notEnoughConfirmations, ConfirmationFails
  <2> QED
    BY <2>1, DirtyOk DEF GInv
<1> QED
  BY <1>1, <1>2, <1>3, Ends DEF GInv

LEMMA CrashStep ==
  ASSUME GInv, Crash
  PROVE  GInv'
<1>1. /\ op' = Idle /\ unvetted' = unvetted /\ left' = left \cup unvetted'.index
      /\ \E d : vetted' = [vetted EXCEPT !.dirty = d]
  BY DEF Crash
<1> QED
  BY <1>1, DirtyOk, EndsLeaving DEF GInv

-----------------------------------------------------------------------------
(* Theorems. *)

LEMMA InitInv ==
  ASSUME Init
  PROVE  GInv
<1>1. LogOk(<<>>, left)
  BY DEF IsLog, CarriesLeft, LogOk
<1>2. VettedOk(vetted, left) /\ UnvettedOk(unvetted, left)
  BY <1>1 DEF Init, VettedOk, UnvettedOk
<1>3. WorkOk(op, vetted, unvetted, left)
  BY DEF Init, WorkOk, IsOp, Idle
<1> QED
  BY <1>2, <1>3 DEF GInv

LEMMA NextStep ==
  ASSUME GInv, [Next]_vars
  PROVE  GInv'
<1>1. CASE UNCHANGED vars
  BY <1>1 DEF vars, GInv
<1>2. CASE Mine \/ \E c \in Checkers : anchorChecker(c)
  <2>1. UNCHANGED <<vetted, unvetted, op, left>>
    BY <1>2 DEF Mine, anchorChecker, KeepFaults
  <2> QED
    BY <2>1 DEF GInv
<1>3. CASE \E t \in Tokens : Request(t)
  BY <1>3, RequestSteps
<1>4. CASE RefusedRequest \/ RefusedStatusChange
  BY <1>4, RefusedSteps
<1>5. CASE gitCommit
  BY <1>5, CommitStep
<1>6. CASE rebasePR
  BY <1>6, RebaseStep, PushStep, ReplaySteps, SyncStep DEF rebasePR
<1>7. CASE GitFails
  BY <1>7, FailStep
<1>8. CASE anchorRepo \/ anchorAllRepos
  BY <1>8, AnchorSteps
<1>9. CASE \E c \in Checkers : afterAnchorVerify(c)
  BY <1>9, VerifyStep
<1>11. CASE \E c \in Checkers : notEnoughConfirmations(c) \/ ConfirmationFails(c)
  BY <1>11, GiveUpStep
<1>10. CASE Crash
  BY <1>10, CrashStep
<1> QED
  BY <1>1, <1>2, <1>3, <1>4, <1>5, <1>6, <1>7, <1>8, <1>9, <1>10, <1>11 DEF Next

LEMMA VettedExtends ==
  ASSUME GInv, [Next]_vars
  PROVE  IsPrefix(vetted.master, vetted'.master)
<1>1. CASE replayBranch
  <2> DEFINE s == Rebased(vetted.master, vetted.branches[op.branch])
  <2>1. op.pc = "replay" /\ vetted' = [vetted EXCEPT !.master = s]
    BY <1>1 DEF replayBranch
  <2>2. IsPrefix(vetted.master, s)
    BY <2>1, ReplayFollows
  <2> HIDE DEF s
  <2>3. vetted'.master = s
    BY <2>1 DEF GInv, VettedOk
  <2> QED
    BY <2>2, <2>3
<1>2. CASE anchorAllRepos
  <2>1. AnchorCommit(op.digests).type # "record"
    BY DEF AnchorCommit
  <2> QED
    BY <1>2, <2>1, AppendVetted DEF anchorAllRepos
<1>3. CASE \E c \in Checkers : afterAnchorVerify(c)
  <2>1. PICK c \in Checkers : afterAnchorVerify(c)
    BY <1>3
  <2> DEFINE e == ConfirmCommit(Head(checker[c]))
  <2>2. vetted' = [vetted EXCEPT !.dirty = FALSE, !.master = Append(@, e)]
    BY <2>1 DEF afterAnchorVerify
  <2>3. e.type # "record"
    BY DEF ConfirmCommit
  <2> HIDE DEF e
  <2> QED
    BY <2>2, <2>3, AppendVetted
<1>4. CASE vetted'.master = vetted.master
  BY <1>4, PrefixOfItself DEF GInv, VettedOk, LogOk
<1>5. CASE \/ gitPush \/ deleteBranch \/ anchorRepo \/ Crash
           \/ \E c \in Checkers : ConfirmationFails(c)
  <2>1. \/ \E B : vetted' = [vetted EXCEPT !.branches = B]
        \/ \E d : vetted' = [vetted EXCEPT !.dirty = d]
    BY <1>5 DEF gitPush, deleteBranch, anchorRepo, Crash, ConfirmationFails
  <2> QED
    BY <2>1, <1>4 DEF GInv, VettedOk
<1>6. CASE \/ RefusedRequest \/ RefusedStatusChange \/ gitCommit \/ rebaseBranch
           \/ syncUnvetted \/ GitFails \/ Mine \/ UNCHANGED vars
           \/ \E c \in Checkers : anchorChecker(c) \/ notEnoughConfirmations(c)
  BY <1>6, <1>4 DEF RefusedRequest, RefusedStatusChange, gitCommit, rebaseBranch,
     syncUnvetted, GitFails, Mine, vars, anchorChecker, notEnoughConfirmations
<1>7. CASE \E t \in Tokens : Request(t)
  BY <1>7, <1>4 DEF Request, New, UpdateUnvettedRecord, SetUnvettedStatus,
     UpdateVettedRecord, UpdateVettedMetadata, SetVettedStatus, StageVetted, Stage
<1> QED
  BY <1>1, <1>2, <1>3, <1>4, <1>5, <1>6, <1>7 DEF Next, rebasePR

\* The inductive invariant: a branch that is brought over follows on the vetted
\* master until it is replayed; what a commit took along, and what the index has
\* between requests, was left by a stop, by an unwinding that failed, or by an
\* edit that was not unwound.
THEOREM RepositoriesAreSound == Spec => []GInv
<1>1. Init => GInv
  BY InitInv
<1>2. GInv /\ [Next]_vars => GInv'
  BY NextStep
<1> QED
  BY <1>1, <1>2, PTL DEF Spec

\* Whatever fails or is cut short, the history of the vetted repository is only
\* added to: rebasePR never rewrites what was published.
THEOREM VettedHistoryGrows == Spec => VettedIsAppendOnly
<1>1. GInv /\ [Next]_vars => [IsPrefix(vetted.master, vetted'.master)]_vars
  BY VettedExtends
<1> QED
  BY <1>1, RepositoriesAreSound, PTL DEF Spec, VettedIsAppendOnly

\* A commit takes along only what a stop, a failed unwinding or an edit that was
\* not unwound left: every other failed request takes its files back.
THEOREM FailuresUnwound == Spec => []FailuresAreUnwound
<1>1. GInv => FailuresAreUnwound
  BY DEF GInv, VettedOk, LogOk, CarriesLeft, FailuresAreUnwound
<1> QED
  BY <1>1, RepositoriesAreSound, PTL

-----------------------------------------------------------------------------
(* What the anchors cover.  A commit number is in the vetted master once: a  *)
(* branch has no commit of another one but those that are vetted, and only   *)
(* records on top of them.                                                   *)

Numbers(s) == {s[i].n : i \in 1..Len(s)}

Numbered(s, n) ==
    \A i \in 1..Len(s) :
        /\ s[i].n \in Nat /\ s[i].n <= n
        /\ \A k \in 1..Len(s) : s[k].n = s[i].n => k = i

Follows(s, m) ==
    \E p \in 0..Len(s) :
        /\ p <= Len(m) /\ \A i \in 1..p : s[i] = m[i]
        /\ \A i \in (p + 1)..Len(s) : s[i].type = "record" /\ s[i].n \notin Numbers(m)

Apart(s, t, m) == Numbers(s) \cap Numbers(t) \subseteq Numbers(m)

BranchesOk(B, m, n) ==
    \A b \in DOMAIN B :
        /\ IsLog(B[b]) /\ Numbered(B[b], n) /\ Follows(B[b], m)
        /\ \A c \in DOMAIN B : c # b => Apart(B[b], B[c], m)

\* Record commit i is in the digests of one anchor if there is an anchor above it, and
\* of none otherwise.
Covered(m, i) ==
    IF i <= Newest(AnchorsOf(m))
      THEN \E a \in AnchorsOf(m) : /\ m[i].n \in m[a].digests
                                   /\ \A c \in AnchorsOf(m) : m[i].n \in m[c].digests => c = a
      ELSE \A a \in AnchorsOf(m) : m[i].n \notin m[a].digests

HistoryOk(m, n) ==
    /\ IsLog(m) /\ Numbered(m, n)
    /\ \A i \in 1..Len(m) : m[i].type = "record" => Covered(m, i)
    /\ \A a \in AnchorsOf(m) : m[a].digests \subseteq Numbers(m)

DInv ==
    /\ commits \in Nat
    /\ HistoryOk(vetted.master, commits)
    /\ BranchesOk(unvetted.branches, vetted.master, commits)
    /\ op.pc = "anchor" => op.digests = deltaCommits(vetted.master)
    /\ op.pc = "replay" => /\ op.branch \in DOMAIN unvetted.branches
                           /\ vetted.branches[op.branch] = unvetted.branches[op.branch]

\* The newest of some positions of a log.
LEMMA NewestIs ==
  ASSUME NEW s, IsLog(s), NEW S, S \subseteq 1..Len(s)
  PROVE  /\ Newest(S) \in 0..Len(s)
         /\ \A a \in S : a <= Newest(S)
         /\ S # {} => Newest(S) \in S
<1>1. Len(s) \in Nat
  BY DEF IsLog
<1>2. CASE S = {}
  BY <1>1, <1>2 DEF Newest
<1>3. CASE S # {}
  <2>1. \E x \in S : \A y \in S : x >= y
    <3>1. S \subseteq 0..Len(s)
      BY <1>1
    <3>2. PICK x \in S : \A y \in S : y <= x
      BY <1>1, <1>3, <3>1, Greatest
    <3>3. \A y \in S : x >= y
      BY <1>1, <3>2
    <3> QED
      BY <3>3
  <2>2. Max(S) \in S /\ \A y \in S : Max(S) >= y
    BY <2>1 DEF Max
  <2>3. PICK x : x = Max(S)
    OBVIOUS
  <2>4. Newest(S) = x
    BY <1>3, <2>3 DEF Newest
  <2>5. x \in S /\ \A y \in S : x >= y
    BY <2>2, <2>3
  <2> QED
    BY <1>1, <2>4, <2>5
<1> QED
  BY <1>2, <1>3

\* Log t starts with log s.
Starts(s, t) == Len(s) <= Len(t) /\ \A i \in 1..Len(s) : t[i] = s[i]

LEMMA PrefixStarts ==
  ASSUME NEW s, NEW t, IsLog(s), IsLog(t), IsPrefix(s, t)
  PROVE  Starts(s, t)
<1>1. Len(s) \in Nat /\ Len(t) \in Nat /\ Len(s) <= Len(t)
  BY DEF IsLog, IsPrefix
<1>2. SubSeq(s, 1, Len(s)) = SubSeq(t, 1, Len(s))
  BY DEF IsPrefix
<1>3. \A i \in 1..Len(s) : SubSeq(s, 1, Len(s))[i] = s[i] /\ SubSeq(t, 1, Len(s))[i] = t[i]
  BY <1>1 DEF IsLog
<1> QED
  BY <1>1, <1>2, <1>3 DEF Starts

LEMMA Appended ==
  ASSUME NEW s, IsLog(s), NEW e
  PROVE  /\ IsLog(Append(s, e)) /\ Len(s) \in Nat /\ Len(Append(s, e)) = Len(s) + 1
         /\ Append(s, e)[Len(s) + 1] = e /\ Starts(s, Append(s, e))
         /\ Numbers(Append(s, e)) = Numbers(s) \cup {e.n}
<1>1. PICK S : s \in Seq(S)
  BY DEF IsLog
<1> DEFINE R == S \cup {e}
<1>2. s \in Seq(R) /\ e \in R
  BY <1>1
<1> HIDE DEF R
<1>3. /\ Append(s, e) \in Seq(R) /\ Len(Append(s, e)) = Len(s) + 1 /\ Len(s) \in Nat
      /\ \A i \in 1..Len(s) : Append(s, e)[i] = s[i]
      /\ Append(s, e)[Len(s) + 1] = e
  BY <1>2
<1>4. Numbers(Append(s, e)) = Numbers(s) \cup {e.n}
  BY <1>3 DEF Numbers
<1> QED
  BY <1>3, <1>4 DEF IsLog, Starts

\* A log with a new number.
LEMMA NumberedMore ==
  ASSUME NEW s, IsLog(s), NEW n \in Nat, Numbered(s, n), NEW e, e.n = n + 1
  PROVE  Numbered(s, n + 1) /\ Numbered(Append(s, e), n + 1) /\ e.n \notin Numbers(s)
<1> DEFINE t == Append(s, e)
<1>1. /\ Len(s) \in Nat /\ Len(t) = Len(s) + 1 /\ t[Len(s) + 1] = e
      /\ \A i \in 1..Len(s) : t[i] = s[i]
  BY Appended DEF Starts
<1> HIDE DEF t
<1>2. \A i \in 1..Len(s) : s[i].n \in Nat /\ s[i].n <= n /\ s[i].n # n + 1
  BY DEF Numbered
<1>3. Numbered(s, n + 1) /\ e.n \notin Numbers(s)
  BY <1>2 DEF Numbered, Numbers
<1>4. Numbered(t, n + 1)
  <2> SUFFICES ASSUME NEW i \in 1..Len(t)
               PROVE  /\ t[i].n \in Nat /\ t[i].n <= n + 1
                      /\ \A k \in 1..Len(t) : t[k].n = t[i].n => k = i
    BY DEF Numbered
  <2>1. CASE i = Len(s) + 1
    BY <1>1, <1>2, <2>1
  <2>2. CASE i \in 1..Len(s)
    <3>1. t[i] = s[i] /\ s[i].n \in Nat /\ s[i].n <= n
      BY <1>1, <1>2, <2>2
    <3>2. ASSUME NEW k \in 1..Len(t), t[k].n = t[i].n PROVE k = i
      <4>1. CASE k = Len(s) + 1
        BY <1>1, <3>1, <3>2, <4>1
      <4>2. CASE k \in 1..Len(s)
        BY <1>1, <2>2, <3>1, <3>2, <4>2 DEF Numbered
      <4> QED
        BY <1>1, <4>1, <4>2
    <3> QED
      BY <3>1, <3>2
  <2> QED
    BY <1>1, <2>1, <2>2
<1> QED
  BY <1>3, <1>4 DEF t

-----------------------------------------------------------------------------
(* The history. *)

\* A log that goes on without anchors covers its old commits as before, and no new ones.
LEMMA HistoryGoesOn ==
  ASSUME NEW m, NEW n, NEW k, HistoryOk(m, n), NEW s, IsLog(s), Numbered(s, k), Starts(m, s),
         \A i \in (Len(m) + 1)..Len(s) : s[i].type # "anchor" /\ s[i].n \notin Numbers(m)
  PROVE  HistoryOk(s, k)
<1>1. /\ Len(m) \in Nat /\ Len(s) \in Nat /\ Len(m) <= Len(s)
      /\ \A i \in 1..Len(m) : s[i] = m[i]
  BY DEF HistoryOk, IsLog, Starts
<1>2. AnchorsOf(s) = AnchorsOf(m) /\ \A a \in AnchorsOf(m) : s[a] = m[a]
  BY <1>1 DEF AnchorsOf
<1>3. Numbers(m) \subseteq Numbers(s)
  BY <1>1 DEF Numbers
<1>4. Newest(AnchorsOf(m)) \in 0..Len(m)
  BY NewestIs DEF HistoryOk, AnchorsOf
<1>5. ASSUME NEW i \in 1..Len(s), s[i].type = "record" PROVE Covered(s, i)
  <2>1. CASE i \in 1..Len(m)
    BY <1>1, <1>2, <1>5, <2>1 DEF HistoryOk, Covered
  <2>2. CASE i \in (Len(m) + 1)..Len(s)
    <3>1. ~(i <= Newest(AnchorsOf(m)))
      BY <1>1, <1>4, <2>2
    <3>2. \A a \in AnchorsOf(s) : s[i].n \notin s[a].digests
      BY <1>2, <2>2 DEF HistoryOk
    <3> QED
      BY <1>2, <3>1, <3>2 DEF Covered
  <2> QED
    BY <1>1, <2>1, <2>2
<1> QED
  BY <1>2, <1>3, <1>5 DEF HistoryOk

\* An anchor of all record commits since the last one.
LEMMA HistoryAnchored ==
  ASSUME NEW m, NEW n \in Nat, HistoryOk(m, n), NEW e,
         e.type = "anchor", e.n = n + 1, e.digests = deltaCommits(m)
  PROVE  HistoryOk(Append(m, e), n + 1)
<1> DEFINE s == Append(m, e)
           l == Newest(AnchorsOf(m))
           z == Len(m) + 1
<1>1. /\ IsLog(s) /\ Len(m) \in Nat /\ Len(s) = z /\ s[z] = e
      /\ \A i \in 1..Len(m) : s[i] = m[i]
      /\ Numbers(m) \subseteq Numbers(s)
  BY Appended DEF HistoryOk, Starts
<1>2. Numbered(s, n + 1)
  BY NumberedMore DEF HistoryOk
<1> HIDE DEF s
<1>3. AnchorsOf(s) = AnchorsOf(m) \cup {z} /\ \A a \in AnchorsOf(m) : s[a] = m[a] /\ a # z
  BY <1>1 DEF AnchorsOf
<1>4. l \in 0..Len(m) /\ Newest(AnchorsOf(s)) = z
  <2>1. Newest(AnchorsOf(m)) \in 0..Len(m)
    BY NewestIs DEF HistoryOk, AnchorsOf
  <2>2. AnchorsOf(s) \subseteq 1..Len(s)
    BY DEF AnchorsOf
  <2>3. /\ Newest(AnchorsOf(s)) \in 0..Len(s)
        /\ \A a \in AnchorsOf(s) : a <= Newest(AnchorsOf(s))
    BY <1>1, <2>2, NewestIs
  <2>4. PICK w : w = Newest(AnchorsOf(s))
    OBVIOUS
  <2>5. w \in 0..Len(s) /\ Len(s) = z /\ z \in Nat
    BY <1>1, <2>3, <2>4
  <2>6. z \in AnchorsOf(s)
    BY <1>3
  <2>7. z <= w
    BY <2>3, <2>4, <2>6
  <2>8. w = z
    BY <2>5, <2>7
  <2> QED
    BY <2>1, <2>4, <2>8
<1>5. e.digests = {m[j].n : j \in {i \in (l + 1)..Len(m) : m[i].type = "record"}}
  BY DEF deltaCommits
<1> HIDE DEF l, z
<1>6. e.digests \subseteq Numbers(m)
  BY <1>1, <1>4, <1>5 DEF Numbers
<1>7. ASSUME NEW i \in 1..Len(m), m[i].type = "record"
      PROVE  m[i].n \in e.digests <=> i > l
  <2>1. ASSUME NEW j \in 1..Len(m), m[j].n = m[i].n PROVE j = i
    BY <2>1 DEF HistoryOk, Numbered
  <2> QED
    BY <1>1, <1>4, <1>5, <1>7, <2>1
<1>8. ASSUME NEW i \in 1..Len(s), s[i].type = "record" PROVE Covered(s, i)
  <2>1. i \in 1..Len(m) /\ s[i] = m[i] /\ i <= z
    BY <1>1, <1>8 DEF z
  <2>2. CASE i <= l
    <3>1. PICK a \in AnchorsOf(m) : /\ m[i].n \in m[a].digests
                                    /\ \A c \in AnchorsOf(m) : m[i].n \in m[c].digests => c = a
      BY <1>8, <2>1, <2>2 DEF HistoryOk, Covered, l
    <3>2. m[i].n \notin e.digests
      BY <1>4, <1>7, <1>8, <2>1, <2>2
    <3> QED
      BY <1>1, <1>3, <1>4, <2>1, <3>1, <3>2 DEF Covered
  <2>3. CASE ~(i <= l)
    <3>1. \A a \in AnchorsOf(m) : m[i].n \notin m[a].digests
      BY <1>8, <2>1, <2>3 DEF HistoryOk, Covered, l
    <3>2. m[i].n \in e.digests
      BY <1>4, <1>7, <1>8, <2>1, <2>3
    <3> QED
      BY <1>1, <1>3, <1>4, <2>1, <3>1, <3>2 DEF Covered
  <2> QED
    BY <2>2, <2>3
<1>9. \A a \in AnchorsOf(s) : s[a].digests \subseteq Numbers(s)
  BY <1>1, <1>3, <1>6 DEF HistoryOk
<1>10. HistoryOk(s, n + 1)
  BY <1>1, <1>2, <1>8, <1>9 DEF HistoryOk
<1> QED
  BY <1>10 DEF s

\* A log with a commit that is no anchor.
LEMMA HistoryConfirmed ==
  ASSUME NEW m, NEW n \in Nat, HistoryOk(m, n), NEW e, e.type # "anchor", e.n = n + 1
  PROVE  HistoryOk(Append(m, e), n + 1)
<1> DEFINE s == Append(m, e)
<1>1. IsLog(m) /\ Numbered(m, n)
  BY DEF HistoryOk
<1>2. /\ IsLog(s) /\ Len(m) \in Nat /\ Len(s) = Len(m) + 1 /\ s[Len(m) + 1] = e /\ Starts(m, s)
  BY <1>1, Appended
<1>3. Numbered(s, n + 1) /\ e.n \notin Numbers(m)
  BY <1>1, NumberedMore
<1> HIDE DEF s
<1>4. \A i \in (Len(m) + 1)..Len(s) : s[i].type # "anchor" /\ s[i].n \notin Numbers(m)
  BY <1>2, <1>3
<1>5. HistoryOk(s, n + 1)
  BY <1>2, <1>3, <1>4, HistoryGoesOn
<1> QED
  BY <1>5 DEF s

\* The replay of a branch that follows on the history.
LEMMA HistoryReplayed ==
  ASSUME NEW m, NEW n, HistoryOk(m, n), NEW s, IsLog(s), Numbered(s, n), Follows(s, m), Starts(m, s)
  PROVE  HistoryOk(s, n)
<1>1. /\ Len(m) \in Nat /\ Len(s) \in Nat /\ Len(m) <= Len(s)
      /\ \A i \in 1..Len(m) : s[i] = m[i]
  BY DEF HistoryOk, IsLog, Starts
<1>2. PICK p \in 0..Len(s) :
        /\ p <= Len(m)
        /\ \A i \in (p + 1)..Len(s) : s[i].type = "record" /\ s[i].n \notin Numbers(m)
  BY DEF Follows
<1>3. \A i \in (Len(m) + 1)..Len(s) : s[i].type # "anchor" /\ s[i].n \notin Numbers(m)
  BY <1>1, <1>2
<1> QED
  BY <1>3, HistoryGoesOn

-----------------------------------------------------------------------------
(* The branches. *)

\* A new commit of the vetted master is on no branch.
LEMMA BranchesGrow ==
  ASSUME NEW m, IsLog(m), NEW n \in Nat, NEW B, BranchesOk(B, m, n), NEW e, e.n = n + 1
  PROVE  BranchesOk(B, Append(m, e), n + 1)
<1> DEFINE t == Append(m, e)
<1>1. Numbers(t) = Numbers(m) \cup {n + 1} /\ Starts(m, t)
  BY Appended
<1> HIDE DEF t
<1>2. ASSUME NEW b \in DOMAIN B
      PROVE  /\ IsLog(B[b]) /\ Numbered(B[b], n + 1) /\ Follows(B[b], t)
             /\ \A c \in DOMAIN B : c # b => Apart(B[b], B[c], t)
  <2>1. IsLog(B[b]) /\ Numbered(B[b], n) /\ Follows(B[b], m)
    BY DEF BranchesOk
  <2>2. Numbered(B[b], n + 1)
    BY <2>1, NumberedMore
  <2>3. Follows(B[b], t)
    <3>1. PICK p \in 0..Len(B[b]) :
            /\ p <= Len(m) /\ \A i \in 1..p : B[b][i] = m[i]
            /\ \A i \in (p + 1)..Len(B[b]) :
                    B[b][i].type = "record" /\ B[b][i].n \notin Numbers(m)
      BY <2>1 DEF Follows
    <3>2. Len(B[b]) \in Nat /\ Len(m) \in Nat /\ Len(t) \in Nat /\ Len(m) <= Len(t)
      BY <2>1, <1>1, Appended DEF IsLog, t
    <3>3. p <= Len(t) /\ \A i \in 1..p : B[b][i] = t[i]
      BY <1>1, <3>1, <3>2 DEF Starts
    <3>4. \A i \in (p + 1)..Len(B[b]) : B[b][i].n # n + 1
      BY <2>1, <3>1, <3>2 DEF Numbered
    <3> QED
      BY <1>1, <3>1, <3>3, <3>4 DEF Follows
  <2>4. \A c \in DOMAIN B : c # b => Apart(B[b], B[c], t)
    BY <1>1 DEF BranchesOk, Apart
  <2> QED
    BY <2>1, <2>2, <2>3, <2>4
<1>3. BranchesOk(B, t, n + 1)
  BY <1>2 DEF BranchesOk
<1> QED
  BY <1>3 DEF t

\* A branch that goes on from the vetted master becomes the vetted master.
LEMMA BranchesReplay ==
  ASSUME NEW m, IsLog(m), NEW n, NEW B, BranchesOk(B, m, n),
         NEW b \in DOMAIN B, Starts(m, B[b])
  PROVE  BranchesOk(B, B[b], n)
<1> DEFINE t == B[b]
<1>1. /\ IsLog(t) /\ Len(m) \in Nat /\ Len(t) \in Nat /\ Len(m) <= Len(t)
      /\ \A i \in 1..Len(m) : t[i] = m[i]
  BY DEF BranchesOk, Starts, IsLog
<1>2. Numbers(m) \subseteq Numbers(t)
  BY <1>1 DEF Numbers
<1>3. ASSUME NEW x \in DOMAIN B PROVE Follows(B[x], t)
  <2>1. IsLog(B[x]) /\ Len(B[x]) \in Nat
    BY DEF BranchesOk, IsLog
  <2>2. CASE x = b
    <3> SUFFICES Follows(t, t)
      BY <2>2
    <3> HIDE DEF t
    <3> QED
      BY <1>1, SMTT(30) DEF Follows
  <2>3. CASE x # b
    <3>1. PICK p \in 0..Len(B[x]) :
            /\ p <= Len(m) /\ \A i \in 1..p : B[x][i] = m[i]
            /\ \A i \in (p + 1)..Len(B[x]) :
                    B[x][i].type = "record" /\ B[x][i].n \notin Numbers(m)
      BY DEF BranchesOk, Follows
    <3>2. Apart(B[x], t, m)
      BY <2>3 DEF BranchesOk
    <3> HIDE DEF t
    <3>3. p <= Len(t) /\ \A i \in 1..p : B[x][i] = t[i]
      BY <1>1, <2>1, <3>1
    <3>4. \A i \in (p + 1)..Len(B[x]) : B[x][i].n \in Numbers(B[x])
      BY <2>1 DEF Numbers
    <3>5. \A i \in (p + 1)..Len(B[x]) : B[x][i].n \notin Numbers(t)
      BY <3>1, <3>2, <3>4 DEF Apart
    <3> QED
      BY <3>1, <3>3, <3>5 DEF Follows
  <2> QED
    BY <2>2, <2>3
<1>4. \A x, c \in DOMAIN B : c # x => Apart(B[x], B[c], t)
  BY <1>2 DEF BranchesOk, Apart
<1> HIDE DEF t
<1>5. BranchesOk(B, t, n)
  BY <1>3, <1>4 DEF BranchesOk
<1> QED
  BY <1>5 DEF t

\* Branch b is set to s; the others stay.
Updated(B, C, b, s) ==
    DOMAIN C = DOMAIN B \cup {b} /\ \A x \in DOMAIN C : C[x] = IF x = b THEN s ELSE B[x]

LEMMA BranchSet ==
  ASSUME NEW m, NEW n, NEW k \in Nat, NEW B, BranchesOk(B, m, n), NEW b, NEW s, NEW C,
         Updated(B, C, b, s), \A x \in DOMAIN B : Numbered(B[x], k),
         IsLog(s), Numbered(s, k), Follows(s, m),
         \A x \in DOMAIN B : x # b => Apart(s, B[x], m)
  PROVE  BranchesOk(C, m, k)
<1>1. \A x \in DOMAIN C : IsLog(C[x]) /\ Numbered(C[x], k) /\ Follows(C[x], m)
  BY DEF Updated, BranchesOk
<1>2. ASSUME NEW x \in DOMAIN C, NEW y \in DOMAIN C, y # x
      PROVE  Apart(C[x], C[y], m)
  <2>1. CASE x = b
    BY <1>2, <2>1 DEF Updated
  <2>2. CASE y = b
    <3>1. Apart(s, B[x], m)
      BY <1>2, <2>2 DEF Updated
    <3> QED
      BY <1>2, <2>2, <3>1 DEF Updated, Apart
  <2>3. CASE x # b /\ y # b
    BY <1>2, <2>3 DEF Updated, BranchesOk
  <2> QED
    BY <2>1, <2>2, <2>3
<1> QED
  BY <1>1, <1>2 DEF BranchesOk

\* A new branch at the vetted master.
LEMMA BranchesNew ==
  ASSUME NEW m, NEW n \in Nat, IsLog(m), Numbered(m, n), NEW B, BranchesOk(B, m, n),
         NEW b, NEW C, Updated(B, C, b, m)
  PROVE  BranchesOk(C, m, n)
<1>1. Follows(m, m)
  BY DEF IsLog, Follows
<1>2. \A x \in DOMAIN B : Numbered(B[x], n) /\ Apart(m, B[x], m)
  BY DEF BranchesOk, Apart
<1> QED
  BY <1>1, <1>2, BranchSet

\* A commit of a record on a branch.
LEMMA BranchesCommit ==
  ASSUME NEW m, NEW n \in Nat, IsLog(m), Numbered(m, n), NEW B, BranchesOk(B, m, n),
         NEW b \in DOMAIN B, NEW e, e.n = n + 1, e.type = "record",
         NEW C, Updated(B, C, b, Append(B[b], e))
  PROVE  BranchesOk(C, m, n + 1)
<1> DEFINE o == B[b]
           s == Append(o, e)
<1>1. IsLog(o) /\ Numbered(o, n) /\ Follows(o, m)
  BY DEF BranchesOk
<1>2. \A x \in DOMAIN B : Numbered(B[x], n + 1) /\ e.n \notin Numbers(B[x])
  BY NumberedMore DEF BranchesOk
<1>3. \A x \in DOMAIN B : x # b => Apart(o, B[x], m)
  BY DEF BranchesOk
<1>4. Updated(B, C, b, s)
  OBVIOUS
<1> HIDE DEF o
<1>5. /\ IsLog(s) /\ Numbered(s, n + 1) /\ Numbers(s) = Numbers(o) \cup {e.n}
      /\ Len(o) \in Nat /\ Len(s) = Len(o) + 1 /\ s[Len(o) + 1] = e
      /\ \A i \in 1..Len(o) : s[i] = o[i]
  BY <1>1, NumberedMore, Appended DEF Starts
<1>6. e.n \notin Numbers(m)
  BY NumberedMore
<1> HIDE DEF s
<1>7. Follows(s, m)
  <2>1. PICK p \in 0..Len(o) :
          /\ p <= Len(m) /\ \A i \in 1..p : o[i] = m[i]
          /\ \A i \in (p + 1)..Len(o) : o[i].type = "record" /\ o[i].n \notin Numbers(m)
    BY <1>1 DEF Follows
  <2>2. p \in 0..Len(s) /\ \A i \in 1..p : s[i] = m[i]
    BY <1>5, <2>1
  <2>3. ASSUME NEW i \in (p + 1)..Len(s)
        PROVE  s[i].type = "record" /\ s[i].n \notin Numbers(m)
    <3>1. CASE i = Len(o) + 1
      BY <1>5, <1>6, <3>1
    <3>2. CASE i \in (p + 1)..Len(o)
      BY <1>5, <2>1, <3>2
    <3> QED
      BY <1>5, <3>1, <3>2
  <2> QED
    BY <2>1, <2>2, <2>3 DEF Follows
<1>8. \A x \in DOMAIN B : x # b => Apart(s, B[x], m)
  BY <1>2, <1>3, <1>5 DEF Apart
<1>9. n + 1 \in Nat
  OBVIOUS
<1> QED
  BY <1>2, <1>4, <1>5, <1>7, <1>8, <1>9, BranchSet

\* A rebase takes only what the vetted master does not have.
LEMMA RebasedNumbers ==
  ASSUME NEW m, NEW n \in Nat, IsLog(m), Numbered(m, n), NEW o, IsLog(o), Numbered(o, n),
         Follows(o, m)
  PROVE  /\ IsLog(Rebased(o, m)) /\ Numbered(Rebased(o, m), n) /\ Follows(Rebased(o, m), m)
         /\ Numbers(Rebased(o, m)) \subseteq Numbers(o) \cup Numbers(m)
<1>1. PICK p \in 0..Len(o) :
        /\ p <= Len(m) /\ \A i \in 1..p : o[i] = m[i]
        /\ \A i \in (p + 1)..Len(o) : o[i].type = "record" /\ o[i].n \notin Numbers(m)
  BY DEF Follows
<1>2. Len(o) \in Nat /\ Len(m) \in Nat
  BY DEF IsLog
<1>3. IsPrefix(SubSeq(o, 1, p), m)
  <2>1. Len(SubSeq(o, 1, p)) = p /\ p \in Nat
    BY <1>1, <1>2 DEF IsLog
  <2>2. SubSeq(SubSeq(o, 1, p), 1, p) = SubSeq(m, 1, p)
    BY <1>1, <1>2 DEF IsLog
  <2> QED
    BY <1>1, <2>1, <2>2 DEF IsPrefix
<1>4. PICK q : q = CommonPrefix(o, m)
  OBVIOUS
<1>5. q \in 0..Len(o) /\ p <= q
  <2>1. q \in 0..Len(o) /\ p \notin (q + 1)..Len(o)
    BY <1>3, <1>4, CommonPrefixType
  <2> QED
    BY <1>1, <1>2, <2>1
<1>6. PICK S : o \in Seq(S) /\ m \in Seq(S)
  <2>1. PICK S : o \in Seq(S)
    BY DEF IsLog
  <2>2. PICK T : m \in Seq(T)
    BY DEF IsLog
  <2> DEFINE R == S \cup T
  <2>3. o \in Seq(R) /\ m \in Seq(R)
    BY <2>1, <2>2
  <2> HIDE DEF R
  <2> QED
    BY <2>3
<1> DEFINE u == SubSeq(o, q + 1, Len(o))
           s == m \o u
<1>7. u \in Seq(S) /\ Len(u) = Len(o) - q /\ \A i \in 1..Len(u) : u[i] = o[i + q]
  BY <1>2, <1>5, <1>6
<1>8. Rebased(o, m) = s
  BY <1>4 DEF Rebased
<1> HIDE DEF u
<1>9. /\ s \in Seq(S) /\ Len(s) = Len(m) + Len(u)
      /\ \A i \in 1..Len(m) : s[i] = m[i]
      /\ \A i \in 1..Len(u) : s[i + Len(m)] = u[i]
  BY <1>6, <1>7
<1> HIDE DEF s
<1>10. ASSUME NEW i \in (Len(m) + 1)..Len(s)
       PROVE  /\ i - Len(m) + q \in (q + 1)..Len(o) /\ s[i] = o[i - Len(m) + q]
              /\ s[i].type = "record" /\ s[i].n \notin Numbers(m)
  <2>1. /\ i - Len(m) \in 1..Len(u) /\ (i - Len(m)) + Len(m) = i
        /\ i - Len(m) + q \in (q + 1)..Len(o) /\ i - Len(m) + q \in (p + 1)..Len(o)
    <3>1. Len(u) = Len(o) - q /\ Len(s) = Len(m) + Len(u)
      BY <1>7, <1>9
    <3>2. PICK a : a = Len(m)
      OBVIOUS
    <3>3. PICK b : b = Len(o)
      OBVIOUS
    <3>4. a \in Nat /\ b \in Nat /\ q \in 0..b /\ p \in Nat /\ p <= q
      BY <1>2, <1>5, <3>2, <3>3
    <3>5. i \in (a + 1)..(a + (b - q))
      BY <3>1, <3>2, <3>3
    <3>6. /\ i - a \in 1..(b - q) /\ (i - a) + a = i
          /\ i - a + q \in (q + 1)..b /\ i - a + q \in (p + 1)..b
      BY <3>4, <3>5
    <3> QED
      BY <3>1, <3>2, <3>3, <3>6
  <2>2. s[i] = u[i - Len(m)]
    BY <1>9, <2>1
  <2> QED
    BY <1>1, <1>7, <2>1, <2>2
<1>11. IsLog(s)
  BY <1>9 DEF IsLog
<1>12. Follows(s, m)
  <2>1. Len(m) \in 0..Len(s) /\ Len(m) <= Len(m)
    BY <1>2, <1>5, <1>7, <1>9
  <2> QED
    BY <1>9, <1>10, <2>1 DEF Follows
<1>13. Numbers(s) \subseteq Numbers(o) \cup Numbers(m)
  <2>1. ASSUME NEW i \in 1..Len(s) PROVE s[i].n \in Numbers(o) \cup Numbers(m)
    <3>1. CASE i \in 1..Len(m)
      BY <1>9, <3>1 DEF Numbers
    <3>2. CASE i \in (Len(m) + 1)..Len(s)
      <4>1. i - Len(m) + q \in 1..Len(o) /\ s[i] = o[i - Len(m) + q]
        BY <1>2, <1>5, <1>10, <3>2
      <4> QED
        BY <4>1 DEF Numbers
    <3> QED
      BY <1>2, <1>5, <1>7, <1>9, <3>1, <3>2
  <2> QED
    BY <2>1 DEF Numbers
<1>14. Numbered(s, n)
  <2> SUFFICES ASSUME NEW i \in 1..Len(s)
               PROVE  /\ s[i].n \in Nat /\ s[i].n <= n
                      /\ \A k \in 1..Len(s) : s[k].n = s[i].n => k = i
    BY DEF Numbered
  <2>1. \A k \in 1..Len(m) : s[k] = m[k] /\ s[k].n \in Numbers(m)
    BY <1>9 DEF Numbers
  <2>2. CASE i \in 1..Len(m)
    <3>1. s[i].n \in Nat /\ s[i].n <= n /\ s[i].n \in Numbers(m)
      BY <2>1, <2>2 DEF Numbered
    <3>2. ASSUME NEW k \in 1..Len(s), s[k].n = s[i].n PROVE k = i
      <4>1. k \notin (Len(m) + 1)..Len(s)
        BY <1>10, <3>1, <3>2
      <4>2. k \in 1..Len(m)
        BY <1>2, <4>1
      <4> QED
        BY <2>1, <2>2, <3>2, <4>2 DEF Numbered
    <3> QED
      BY <3>1, <3>2
  <2>3. CASE i \in (Len(m) + 1)..Len(s)
    <3>1. i - Len(m) + q \in 1..Len(o) /\ s[i] = o[i - Len(m) + q] /\ s[i].n \notin Numbers(m)
      BY <1>2, <1>5, <1>10, <2>3
    <3>2. s[i].n \in Nat /\ s[i].n <= n
      BY <3>1 DEF Numbered
    <3>3. ASSUME NEW k \in 1..Len(s), s[k].n = s[i].n PROVE k = i
      <4>1. k \in (Len(m) + 1)..Len(s)
        BY <1>2, <2>1, <3>1, <3>3
      <4>2. k - Len(m) + q \in 1..Len(o) /\ s[k] = o[k - Len(m) + q]
        BY <1>2, <1>5, <1>10, <4>1
      <4>3. k - Len(m) + q = i - Len(m) + q
        BY <3>1, <3>3, <4>2 DEF Numbered
      <4>4. k \in Int /\ i \in Int
        OBVIOUS
      <4> QED
        BY <1>2, <1>5, <4>3, <4>4
    <3> QED
      BY <3>2, <3>3
  <2> QED
    BY <1>2, <2>2, <2>3
<1> QED
  BY <1>8, <1>11, <1>12, <1>13, <1>14

\* A branch is rebased onto the vetted master.
LEMMA BranchesRebase ==
  ASSUME NEW m, NEW n \in Nat, IsLog(m), Numbered(m, n), NEW B, BranchesOk(B, m, n),
         NEW b \in DOMAIN B, NEW C, Updated(B, C, b, Rebased(B[b], m))
  PROVE  BranchesOk(C, m, n)
<1> DEFINE s == Rebased(B[b], m)
<1>1. IsLog(B[b]) /\ Numbered(B[b], n) /\ Follows(B[b], m)
  BY DEF BranchesOk
<1>2. IsLog(s) /\ Numbered(s, n) /\ Follows(s, m) /\ Numbers(s) \subseteq Numbers(B[b]) \cup Numbers(m)
  BY <1>1, RebasedNumbers
<1>3. Updated(B, C, b, s)
  OBVIOUS
<1> HIDE DEF s
<1>4. \A x \in DOMAIN B : x # b => Apart(s, B[x], m)
  BY <1>2 DEF BranchesOk, Apart
<1>5. \A x \in DOMAIN B : Numbered(B[x], n)
  BY DEF BranchesOk
<1> QED
  BY <1>2, <1>3, <1>4, <1>5, BranchSet

LEMMA BranchesWithout ==
  ASSUME NEW m, NEW n, NEW B, BranchesOk(B, m, n), NEW b
  PROVE  BranchesOk(Without(B, b), m, n)
BY DEF BranchesOk, Without, Restrict

-----------------------------------------------------------------------------
(* Steps that leave the vetted master alone. *)

LEMMA DQuiet ==
  ASSUME DInv, vetted'.master = vetted.master, commits' = commits,
         op'.pc \notin {"anchor", "replay"},
         BranchesOk(unvetted'.branches, vetted.master, commits)
  PROVE  DInv'
BY DEF DInv

\* What the checkouts and the unwinding do to the branches.
LEMMA Branches ==
  ASSUME GInv
  PROVE  /\ UnvettedOk(Pulled, left) /\ Pulled.branches = unvetted.branches
         /\ CheckedOutMaster.branches = unvetted.branches
         /\ Unwound.branches = unvetted.branches
         /\ \A b : UnwoundBranch(b).branches = Without(unvetted.branches, b)
<1>1. UnvettedOk(Pulled, left) /\ Pulled.branches = unvetted.branches
  <2> DEFINE p == Pulled
  <2>1. UnvettedOk(p, left) /\ p.branches = unvetted.branches /\ p.index = unvetted.index
    BY PulledOk DEF GInv
  <2> QED
    BY <2>1
<1>2. CheckedOutMaster.branches = unvetted.branches
  BY DEF GInv, UnvettedOk, CheckedOutMaster
<1>3. Unwound.branches = unvetted.branches
  BY DEF GInv, UnvettedOk, Unwound
<1>4. ASSUME NEW b PROVE UnwoundBranch(b).branches = Without(unvetted.branches, b)
  <2> DEFINE w == Unwound
             x == UnwoundBranch(b)
  <2>1. x = [w EXCEPT !.branches = Without(@, b)] /\ w.branches = unvetted.branches
    BY <1>3 DEF UnwoundBranch
  <2>2. UnvettedOk(w, left)
    BY UnwoundOk
  <2> HIDE DEF w, x
  <2>3. x.branches = Without(unvetted.branches, b)
    BY <2>1, <2>2 DEF UnvettedOk
  <2> QED
    BY <2>3 DEF x
<1> QED
  BY <1>1, <1>2, <1>3, <1>4

LEMMA StagedD ==
  ASSUME GInv, DInv, NEW kind, NEW b, NEW u, NEW e, Stage(kind, b, u, e), UnvettedOk(u, left),
         u.branches = unvetted.branches \/ u.branches = NewBranch(b, vetted.master)
  PROVE  DInv'
<1>1. op'.pc = "commit" /\ vetted' = vetted /\ commits' = commits
  BY DEF Stage
<1>2. unvetted'.branches = u.branches
  <2>1. unvetted' = WithHead(u, b, u.index \cup {e})
    BY DEF Stage, WithHead
  <2> QED
    BY <2>1, CheckOut
<1>3. BranchesOk(NewBranch(b, vetted.master), vetted.master, commits)
  <2> DEFINE C == NewBranch(b, vetted.master)
  <2>1. Updated(unvetted.branches, C, b, vetted.master)
    BY DEF Updated, NewBranch
  <2> HIDE DEF C
  <2>2. BranchesOk(C, vetted.master, commits)
    BY <2>1, BranchesNew DEF DInv, HistoryOk
  <2> QED
    BY <2>2 DEF C
<1> QED
  BY <1>1, <1>2, <1>3, DQuiet DEF DInv

LEMMA StageVettedD ==
  ASSUME GInv, DInv, NEW kind, NEW t, NEW e, StageVetted(kind, t, e)
  PROVE  DInv'
<1> DEFINE b == Tmp(t)
           B == NewBranch(b, vetted.master)
           i == IF kind = "edit" THEN {} ELSE unvetted.index
<1>1. Stage(kind, b, [Pulled EXCEPT !.branches = B,
                              !.index = IF kind = "edit" THEN {} ELSE @], e)
  BY DEF StageVetted
<1>2. PICK w : /\ w = [Pulled EXCEPT !.branches = B]
               /\ UnvettedOk(w, left) /\ w.branches = B /\ w.index = unvetted.index
  <2> HIDE DEF b
  <2> QED
    BY BranchOff, Zenon
<1> DEFINE u == WithHead(w, Master, i)
<1>3. UnvettedOk(u, left) /\ u.branches = w.branches
  <2>1. UnvettedOk(w, left)
    BY <1>2
  <2> HIDE DEF i
  <2> QED
    BY <2>1, CheckOut
<1>4. [Pulled EXCEPT !.branches = B, !.index = IF kind = "edit" THEN {} ELSE @] = u
  BY <1>2, EditCleans
<1> HIDE DEF u
<1>5. Stage(kind, b, u, e) /\ u.branches = B
  BY <1>1, <1>2, <1>3, <1>4
<1> HIDE DEF B, b
<1>6. u.branches = NewBranch(b, vetted.master)
  BY <1>5 DEF B
<1> QED
  BY <1>3, <1>5, <1>6, StagedD

LEMMA RequestD ==
  ASSUME GInv, DInv, NEW t \in Tokens, Request(t)
  PROVE  DInv'
<1>1. CASE New(t)
  <2> DEFINE w == [Pulled EXCEPT !.branches = NewBranch(Rec(t), vetted.master)]
             e == Entry(t, "new", "unvetted", 1)
  <2>1. Stage("new", Rec(t), w, e)
    BY <1>1 DEF New
  <2>2. UnvettedOk(w, left) /\ w.branches = NewBranch(Rec(t), vetted.master)
    BY BranchOff
  <2> HIDE DEF w, e
  <2> QED
    BY <2>1, <2>2, StagedD
<1>2. CASE UpdateUnvettedRecord(t)
  <2> DEFINE p == Pulled
  <2>1. \E e : Stage("update", Rec(t), p, e)
    BY <1>2 DEF UpdateUnvettedRecord
  <2>2. UnvettedOk(p, left) /\ p.branches = unvetted.branches
    BY Branches
  <2> HIDE DEF p
  <2> QED
    BY <2>1, <2>2, StagedD
<1>3. CASE SetUnvettedStatus(t)
  <2>1. \E kind : \E e : Stage(kind, Rec(t), unvetted, e)
    BY <1>3 DEF SetUnvettedStatus
  <2> QED
    BY <2>1, StagedD DEF GInv
<1>4. CASE UpdateVettedRecord(t)
  BY <1>4, StageVettedD DEF UpdateVettedRecord
<1>5. CASE UpdateVettedMetadata(t)
  BY <1>5, StageVettedD DEF UpdateVettedMetadata
<1>6. CASE SetVettedStatus(t)
  BY <1>6, StageVettedD DEF SetVettedStatus
<1> QED
  BY <1>1, <1>2, <1>3, <1>4, <1>5, <1>6 DEF Request

LEMMA FailsD ==
  ASSUME GInv, DInv, RefusedRequest \/ RefusedStatusChange \/ GitFails
  PROVE  DInv'
<1>1. vetted' = vetted /\ commits' = commits /\ op'.pc = "idle"
  <2>1. vetted' = vetted /\ commits' = commits /\ op' = Idle
    BY DEF RefusedRequest, RefusedStatusChange, GitFails
  <2> QED
    BY <2>1 DEF Idle
<1>2. \/ unvetted'.branches = unvetted.branches
      \/ \E b : unvetted'.branches = Without(unvetted.branches, b)
  <2>1. CASE RefusedRequest \/ RefusedStatusChange
    BY <2>1, Branches DEF RefusedRequest, RefusedStatusChange
  <2>2. CASE GitFails
    <3>1. op.pc \in Steps \cup {"anchor"} /\ (unvetted' = Unwind \/ unvetted' \in NotUnwound)
      BY <2>2 DEF GitFails, Steps
    <3>2. op.kind \in Kinds \cup {"anchor"}
      BY <3>1 DEF GInv, WorkOk, IsOp, Idle, Working, Steps
    <3>3. \/ Unwind = Unwound \/ Unwind = UnwoundBranch(op.branch) \/ Unwind = unvetted
      BY <3>2 DEF Unwind, Kinds
    <3>4. unvetted' \in NotUnwound => unvetted'.branches = unvetted.branches
      BY NotUnwoundOk
    <3> QED
      BY <3>1, <3>3, <3>4, Branches
  <2> QED
    BY <2>1, <2>2
<1>3. BranchesOk(unvetted'.branches, vetted.master, commits)
  BY <1>2, BranchesWithout DEF DInv
<1> QED
  BY <1>1, <1>3, DQuiet

LEMMA CrashD ==
  ASSUME GInv, DInv, Crash \/ \E c \in Checkers : \/ notEnoughConfirmations(c)
                                                \/ ConfirmationFails(c)
  PROVE  DInv'
<1>1. /\ unvetted' = unvetted /\ commits' = commits /\ op' = Idle
      /\ vetted' = vetted \/ \E d : vetted' = [vetted EXCEPT !.dirty = d]
  BY DEF Crash, notEnoughConfirmations, ConfirmationFails
<1>2. vetted'.master = vetted.master
  BY <1>1, DirtyOk
<1>3. op'.pc = "idle"
  BY <1>1 DEF Idle
<1> QED
  BY <1>1, <1>2, <1>3, DQuiet DEF DInv

-----------------------------------------------------------------------------
(* Steps of the commit and rebasePR, of the anchors and of the checkers. *)

LEMMA CommitD ==
  ASSUME GInv, DInv, gitCommit
  PROVE  DInv'
<1> DEFINE b == op.branch
           e == RecordCommit(op.entry, Carried(op.entry))
           C == [unvetted.branches EXCEPT ![b] = Append(@, e)]
<1>1. /\ op.pc = "commit" /\ vetted' = vetted /\ commits' = commits + 1 /\ e.n = commits + 1
      /\ e.type = "record" /\ b \in DOMAIN unvetted.branches /\ commits \in Nat
  BY DEF gitCommit, RecordCommit, GInv, WorkOk, DInv
<1>2. op'.pc \in {"idle", "rebase"}
  <2>1. op' = Idle \/ GoTo("rebase")
    BY DEF gitCommit
  <2>2. GoTo("rebase") => op'.pc = "rebase"
    BY <1>1, GoesTo DEF Steps
  <2> QED
    BY <2>1, <2>2 DEF Idle
<1>3. unvetted'.branches = C
  <2>1. \E h : unvetted' = [unvetted EXCEPT !.branches[b] = Append(@, e), !.index = Untracked,
                                            !.head = h]
    BY DEF gitCommit
  <2> HIDE DEF e
  <2> QED
    BY <2>1 DEF GInv, UnvettedOk
<1> HIDE DEF e
<1>4. Updated(unvetted.branches, C, b, Append(unvetted.branches[b], e))
  BY <1>1 DEF Updated
<1> HIDE DEF C
<1>5. BranchesOk(C, vetted.master, commits + 1)
  BY <1>1, <1>4, BranchesCommit DEF DInv, HistoryOk
<1>6. HistoryOk(vetted.master, commits + 1)
  <2>1. HistoryOk(vetted.master, commits)
    BY DEF DInv
  <2>2. IsLog(vetted.master) /\ Len(vetted.master) \in Nat
    BY <2>1 DEF HistoryOk, IsLog
  <2>3. Numbered(vetted.master, commits + 1)
    BY <1>1, <2>1, <2>2, NumberedMore DEF HistoryOk
  <2>4. Starts(vetted.master, vetted.master)
    BY <2>2 DEF Starts
  <2>5. \A i \in (Len(vetted.master) + 1)..Len(vetted.master) : FALSE
    BY <2>2
  <2> QED
    BY <2>1, <2>2, <2>3, <2>4, <2>5, HistoryGoesOn
<1> QED
  BY <1>1, <1>2, <1>3, <1>5, <1>6 DEF DInv

LEMMA RebaseD ==
  ASSUME GInv, DInv, rebaseBranch
  PROVE  DInv'
<1> DEFINE b == op.branch
           p == Pulled
           s == Rebased(unvetted.branches[b], vetted.master)
           C == [unvetted.branches EXCEPT ![b] = s]
<1>1. /\ op.pc = "rebase" /\ vetted' = vetted /\ commits' = commits /\ GoTo("push")
      /\ b \in DOMAIN unvetted.branches
  BY DEF rebaseBranch, GInv, WorkOk
<1>2. op'.pc = "push"
  BY <1>1, GoesTo DEF Steps
<1>3. unvetted'.branches = C
  <2>1. unvetted' = [p EXCEPT !.branches[b] = Rebased(@, vetted.master), !.head = b]
    BY DEF rebaseBranch
  <2>2. UnvettedOk(p, left) /\ p.branches = unvetted.branches
    BY Branches
  <2> HIDE DEF p
  <2> QED
    BY <2>1, <2>2 DEF UnvettedOk
<1>4. Updated(unvetted.branches, C, b, s)
  BY <1>1 DEF Updated
<1> HIDE DEF C
<1>5. BranchesOk(C, vetted.master, commits)
  BY <1>1, <1>4, BranchesRebase DEF DInv, HistoryOk
<1> QED
  BY <1>1, <1>2, <1>3, <1>5, DQuiet

LEMMA PushD ==
  ASSUME GInv, DInv, gitPush
  PROVE  DInv'
<1> DEFINE b == op.branch
           B == [x \in DOMAIN vetted.branches \cup {b} |->
                    IF x = b THEN unvetted.branches[b] ELSE vetted.branches[x]]
<1>1. /\ op.pc = "push" /\ unvetted' = unvetted /\ commits' = commits /\ GoTo("replay")
      /\ vetted' = [vetted EXCEPT !.branches = B]
      /\ b \in DOMAIN unvetted.branches
  BY DEF gitPush, GInv, WorkOk
<1>2. B[b] = unvetted.branches[b]
  OBVIOUS
<1> HIDE DEF B
<1>3. vetted'.master = vetted.master /\ vetted'.branches = B
  BY <1>1 DEF GInv, VettedOk
<1>4. op'.pc = "replay" /\ op'.branch = b
  BY <1>1, GoesTo DEF Steps
<1> QED
  BY <1>1, <1>2, <1>3, <1>4 DEF DInv

\* A rebase onto what goes on from the log is a fast-forward.
LEMMA FastForward ==
  ASSUME NEW s, NEW t, IsLog(s), IsLog(t), IsPrefix(s, t)
  PROVE  Rebased(s, t) = t
<1>1. CommonPrefix(s, t) = Len(s)
  BY CommonPrefixType
<1>2. PICK S : s \in Seq(S)
  BY DEF IsLog
<1>3. PICK T : t \in Seq(T)
  BY DEF IsLog
<1>4. SubSeq(s, Len(s) + 1, Len(s)) = <<>>
  BY <1>2
<1>5. t \o <<>> = t
  BY <1>3
<1> QED
  BY <1>1, <1>4, <1>5 DEF Rebased

LEMMA ReplayD ==
  ASSUME GInv, DInv, replayBranch
  PROVE  DInv'
<1> DEFINE b == op.branch
           s == Rebased(vetted.master, vetted.branches[b])
<1>1. /\ op.pc = "replay" /\ unvetted' = unvetted /\ commits' = commits /\ GoTo("delete")
      /\ vetted' = [vetted EXCEPT !.master = s]
  BY DEF replayBranch
<1>2. /\ b \in DOMAIN unvetted.branches
      /\ vetted.branches[b] = unvetted.branches[b]
      /\ IsPrefix(vetted.master, vetted.branches[b])
  BY <1>1 DEF DInv, GInv, WorkOk
<1>3. IsLog(vetted.master) /\ IsLog(unvetted.branches[b])
  BY <1>2 DEF GInv, VettedOk, UnvettedOk, LogOk
<1>4. s = unvetted.branches[b]
  BY <1>2, <1>3, FastForward
<1> HIDE DEF s
<1>5. vetted'.master = s
  BY <1>1 DEF GInv, VettedOk
<1>6. op'.pc = "delete"
  BY <1>1, GoesTo DEF Steps
<1>7. Starts(vetted.master, s) /\ IsLog(s)
  BY <1>2, <1>3, <1>4, PrefixStarts
<1>8. BranchesOk(unvetted.branches, s, commits)
  BY <1>2, <1>3, <1>4, <1>7, BranchesReplay DEF DInv
<1>9. Numbered(s, commits) /\ Follows(s, vetted.master)
  BY <1>2, <1>4 DEF DInv, BranchesOk
<1>10. HistoryOk(s, commits)
  BY <1>7, <1>9, HistoryReplayed DEF DInv
<1> QED
  BY <1>1, <1>5, <1>6, <1>8, <1>10 DEF DInv

LEMMA DeleteD ==
  ASSUME GInv, DInv, deleteBranch \/ syncUnvetted
  PROVE  DInv'
<1>1. CASE deleteBranch
  <2> DEFINE B == Without(vetted.branches, op.branch)
  <2>1. /\ op.pc = "delete" /\ unvetted' = unvetted /\ commits' = commits /\ GoTo("sync")
        /\ vetted' = [vetted EXCEPT !.branches = B]
    BY <1>1 DEF deleteBranch
  <2> HIDE DEF B
  <2>2. vetted'.master = vetted.master
    BY <2>1 DEF GInv, VettedOk
  <2>3. op'.pc = "sync"
    BY <2>1, GoesTo DEF Steps
  <2> QED
    BY <2>1, <2>2, <2>3, DQuiet DEF DInv
<1>2. CASE syncUnvetted
  <2> DEFINE p == Pulled
             B == Without(p.branches, op.branch)
  <2>1. /\ op'.pc = "idle" /\ vetted' = vetted /\ commits' = commits
        /\ \E i : unvetted' = [p EXCEPT !.branches = B, !.index = i]
    BY <1>2 DEF syncUnvetted, Idle
  <2>2. UnvettedOk(p, left) /\ p.branches = unvetted.branches
    BY Branches
  <2>3. BranchesOk(B, vetted.master, commits)
    BY <2>2, BranchesWithout DEF DInv
  <2> HIDE DEF p, B
  <2>4. unvetted'.branches = B
    BY <2>1, <2>2 DEF UnvettedOk
  <2> QED
    BY <2>1, <2>3, <2>4, DQuiet
<1> QED
  BY <1>1, <1>2

\* A commit that is made to the vetted repository, without the lock being kept for more.
LEMMA VettedCommitD ==
  ASSUME GInv, DInv, NEW e, e.n = commits + 1, commits' = commits + 1,
         vetted' = [vetted EXCEPT !.dirty = FALSE, !.master = Append(@, e)],
         HistoryOk(Append(vetted.master, e), commits + 1),
         unvetted'.branches = unvetted.branches, op'.pc \notin {"anchor", "replay"}
  PROVE  DInv'
<1> DEFINE s == Append(vetted.master, e)
<1>1. BranchesOk(unvetted.branches, s, commits + 1)
  BY BranchesGrow DEF DInv, HistoryOk
<1> HIDE DEF s
<1>2. vetted'.master = s
  <2>1. vetted' = [vetted EXCEPT !.dirty = FALSE, !.master = s]
    BY DEF s
  <2> QED
    BY <2>1 DEF GInv, VettedOk
<1>3. HistoryOk(s, commits + 1) /\ commits + 1 \in Nat
  BY DEF s, DInv
<1> QED
  BY <1>1, <1>2, <1>3 DEF DInv

LEMMA AnchorD ==
  ASSUME GInv, DInv, anchorRepo \/ anchorAllRepos
  PROVE  DInv'
<1>1. CASE anchorRepo
  <2> DEFINE d == deltaCommits(vetted.master)
  <2>1. /\ op' = [pc |-> "anchor", kind |-> "anchor", digests |-> d]
        /\ vetted' = [vetted EXCEPT !.dirty = TRUE]
        /\ unvetted' = unvetted /\ commits' = commits
    BY <1>1 DEF anchorRepo
  <2> HIDE DEF d
  <2>2. op'.pc = "anchor" /\ op'.digests = d
    BY <2>1
  <2>3. vetted'.master = vetted.master
    BY <2>1 DEF GInv, VettedOk
  <2>4. op'.digests = deltaCommits(vetted'.master)
    BY <2>2, <2>3 DEF d
  <2> QED
    BY <2>1, <2>2, <2>3, <2>4 DEF DInv
<1>2. CASE anchorAllRepos
  <2> DEFINE e == AnchorCommit(op.digests)
  <2>1. /\ op.pc = "anchor" /\ op'.pc = "idle" /\ commits' = commits + 1
        /\ vetted' = [vetted EXCEPT !.dirty = FALSE, !.master = Append(@, e)]
    BY <1>2 DEF anchorAllRepos, Idle
  <2>2. unvetted'.branches = unvetted.branches
    <3>1. \E m : unvetted' \in {[unvetted EXCEPT !.master = m], unvetted}
      BY <1>2 DEF anchorAllRepos
    <3> QED
      BY <3>1 DEF GInv, UnvettedOk
  <2>3. e.type = "anchor" /\ e.n = commits + 1 /\ e.digests = deltaCommits(vetted.master)
    BY <2>1 DEF AnchorCommit, DInv
  <2> HIDE DEF e
  <2>4. HistoryOk(Append(vetted.master, e), commits + 1)
    BY <2>3, HistoryAnchored DEF DInv
  <2> QED
    BY <2>1, <2>2, <2>3, <2>4, VettedCommitD
<1> QED
  BY <1>1, <1>2

LEMMA VerifyD ==
  ASSUME GInv, DInv, NEW c \in Checkers, afterAnchorVerify(c)
  PROVE  DInv'
<1> DEFINE e == ConfirmCommit(Head(checker[c]))
<1>1. op'.pc \in {"idle", "verify"}
  <2>1. op' = Idle \/ op' = Verifying(c)
    BY DEF afterAnchorVerify
  <2> QED
    BY <2>1 DEF Idle, Verifying
<1>2. /\ vetted' = [vetted EXCEPT !.dirty = FALSE, !.master = Append(@, e)]
      /\ commits' = commits + 1
  BY DEF afterAnchorVerify
<1>3. unvetted'.branches = unvetted.branches
  <2>1. \E m : unvetted' \in {[unvetted EXCEPT !.head = Master, !.master = m],
                              CheckedOutMaster, unvetted}
    <3>1. CASE Len(checker[c]) = 1
      BY <3>1 DEF afterAnchorVerify
    <3>2. CASE Len(checker[c]) # 1
      BY <3>2 DEF afterAnchorVerify
    <3> QED
      BY <3>1, <3>2
  <2>2. PICK m : unvetted' \in {[unvetted EXCEPT !.head = Master, !.master = m],
                                CheckedOutMaster, unvetted}
    BY <2>1
  <2>3. CheckedOutMaster.branches = unvetted.branches
    BY Branches
  <2>4. [unvetted EXCEPT !.head = Master, !.master = m].branches = unvetted.branches
    BY DEF GInv, UnvettedOk
  <2> QED
    BY <2>2, <2>3, <2>4
<1>4. e.type # "anchor" /\ e.n = commits + 1
  BY DEF ConfirmCommit
<1> HIDE DEF e
<1>5. HistoryOk(Append(vetted.master, e), commits + 1)
  BY <1>4, HistoryConfirmed DEF DInv
<1> QED
  BY <1>1, <1>2, <1>3, <1>4, <1>5, VettedCommitD

-----------------------------------------------------------------------------
(* Theorems. *)

LEMMA InitD ==
  ASSUME Init
  PROVE  DInv
<1>1. /\ vetted.master = <<>> /\ unvetted.branches = <<>> /\ op.pc = "idle" /\ commits = 0
      /\ Len(<<>>) = 0 /\ DOMAIN <<>> = {} /\ IsLog(<<>>)
  BY DEF Init, Idle, IsLog
<1>2. HistoryOk(<<>>, 0)
  BY <1>1 DEF HistoryOk, Numbered, AnchorsOf
<1>3. BranchesOk(<<>>, <<>>, 0)
  BY <1>1 DEF BranchesOk
<1> QED
  BY <1>1, <1>2, <1>3 DEF DInv

LEMMA DStep ==
  ASSUME GInv, DInv, [Next]_vars
  PROVE  DInv'
<1>1. CASE UNCHANGED vars \/ Mine \/ \E c \in Checkers : anchorChecker(c)
  <2>1. UNCHANGED <<vetted, unvetted, op, commits>>
    BY <1>1 DEF vars, Mine, anchorChecker
  <2> QED
    BY <2>1 DEF DInv
<1>2. CASE \E t \in Tokens : Request(t)
  BY <1>2, RequestD
<1>3. CASE RefusedRequest \/ RefusedStatusChange \/ GitFails
  BY <1>3, FailsD
<1>4. CASE gitCommit
  BY <1>4, CommitD
<1>5. CASE rebasePR
  BY <1>5, RebaseD, PushD, ReplayD, DeleteD DEF rebasePR
<1>6. CASE anchorRepo \/ anchorAllRepos
  BY <1>6, AnchorD
<1>7. CASE \E c \in Checkers : afterAnchorVerify(c)
  BY <1>7, VerifyD
<1>8. CASE Crash \/ \E c \in Checkers : notEnoughConfirmations(c) \/ ConfirmationFails(c)
  BY <1>8, CrashD
<1> QED
  BY <1>1, <1>2, <1>3, <1>4, <1>5, <1>6, <1>7, <1>8 DEF Next

LEMMA OneAnchor ==
  ASSUME DInv
  PROVE  AnchorsCoverHistory
<1> DEFINE m == vetted.master
<1>1. HistoryOk(m, commits)
  BY DEF DInv
<1> HIDE DEF m
<1>2. /\ Newest(AnchorsOf(m)) \in 0..Len(m) /\ Len(m) \in Nat
  BY <1>1, NewestIs DEF HistoryOk, AnchorsOf, IsLog
<1>3. ASSUME NEW i \in 1..Newest(AnchorsOf(m)), m[i].type = "record"
      PROVE  Cardinality({a \in AnchorsOf(m) : m[i].n \in m[a].digests}) = 1
  <2>1. i \in 1..Len(m) /\ i <= Newest(AnchorsOf(m))
    BY <1>2
  <2>2. PICK a \in AnchorsOf(m) : /\ m[i].n \in m[a].digests
                                  /\ \A c \in AnchorsOf(m) : m[i].n \in m[c].digests => c = a
    BY <1>1, <1>3, <2>1 DEF HistoryOk, Covered
  <2>3. {c \in AnchorsOf(m) : m[i].n \in m[c].digests} = {a}
    BY <2>2
  <2> QED
    BY <2>3, FS_Singleton
<1> QED
  BY <1>3 DEF AnchorsCoverHistory, m

\* Each commit of a record below the last anchor of the vetted repository is in the
\* digests of exactly one anchor, whatever git commands fail and wherever politeiad
\* is stopped: a drop takes the record commits since the last anchor, and what is
\* rebased onto or replayed over the anchors is new.
THEOREM CommitsAreAnchoredOnce == Spec => []AnchorsCoverHistory
<1>1. Init => DInv
  BY InitD
<1>2. GInv /\ DInv /\ [Next]_vars => DInv'
  BY DStep
<1>3. DInv => AnchorsCoverHistory
  BY OneAnchor
<1> QED
  BY <1>1, <1>2, <1>3, RepositoriesAreSound, PTL DEF Spec

=============================================================================
