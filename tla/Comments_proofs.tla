---------------------------- MODULE Comments_proofs ----------------------------
(***************************************************************************)
(* Proofs about Comments, for any users, number of comments and leaves,    *)
(* failed saves and deletions, stops and file system checks.               *)
(***************************************************************************)
EXTENDS Comments, FiniteSetTheorems, SequenceTheorems, WellFoundedInduction, TLAPS

-----------------------------------------------------------------------------
(* The inductive invariant. *)

IsLog(s) == \E S : s \in Seq(S)

IsLeaf(l) ==
  l = [kind |-> l.kind, id |-> l.id, ver |-> l.ver, user |-> l.user, parent |-> l.parent,
       hint |-> l.hint, vote |-> l.vote, state |-> l.state, ts |-> l.ts, thread |-> l.thread]

\* A leaf at position k.
LeafOk(l, k) ==
  /\ IsLeaf(l)
  /\ l.kind \in {"add", "del", "vote"} /\ l.id \in Nat \ {0} /\ l.state \in States
  /\ l.kind = "add" => l.ver \in 1..k
  /\ l.kind = "del" => l.ver = 0
  /\ l.kind = "vote" => l.user \in Users

\* The first version of a comment is in the tree.
Written(t, s, c) ==
  \E n \in 1..Len(t) : t[n].kind = "add" /\ t[n].state = s /\ t[n].id = c /\ t[n].ver = 1

\* A leaf comes after the comment that it is about, and after those before it.
Grounded(l, t) ==
  /\ \A d \in 1..(l.id - 1) : Written(t, l.state, d)
  /\ l.kind # "add" \/ l.ver # 1 => Written(t, l.state, l.id)

TreeInv ==
  /\ IsLog(tree) /\ IsLog(late) /\ Len(tree) + Len(late) <= MaxLeaves
  /\ \A n \in 1..Len(tree) : LeafOk(tree[n], n) /\ Grounded(tree[n], tree)
  /\ \A i \in 1..Len(late) : LeafOk(late[i], Len(tree) + i) /\ Grounded(late[i], tree)
  /\ orphans \cup kept \subseteq 1..Len(tree)
  /\ state \in States

\* Leaf n is one of comment c in state s.
Is(t, n, kind, s, c) ==
  n \in 1..Len(t) /\ t[n].kind = kind /\ t[n].state = s /\ t[n].id = c

\* The index of a comment.
EntryOk(e, s, c, t) ==
  /\ e = [adds |-> e.adds, del |-> e.del, votes |-> e.votes]
  /\ 1 \in DOMAIN e.adds
  /\ \A v \in DOMAIN e.adds : Is(t, e.adds[v], "add", s, c) /\ t[e.adds[v]].ver = v
  /\ e.del = 0 \/ Is(t, e.del, "del", s, c)
  /\ \A u \in DOMAIN e.votes : IsLog(e.votes[u])

IndexInv ==
  /\ ridx = [s \in States |-> ridx[s]]
  /\ \A s \in States :
       /\ \E k \in Nat : DOMAIN ridx[s] = 1..k
       /\ \A c \in DOMAIN ridx[s] : EntryOk(ridx[s][c], s, c, tree)

\* Only versions of deleted comments are gone.
GoneInv ==
  \A n \in gone \cup deleting :
    /\ n \in 1..Len(tree) /\ tree[n].kind = "add"
    /\ tree[n].id \in DOMAIN ridx[tree[n].state]
    /\ ridx[tree[n].state][tree[n].id].del # 0

\* Every write is indexed, or a later one took its place.
HasDigest(e, n) ==
  \/ \E v \in DOMAIN e.adds : e.adds[v] = n
  \/ e.del = n
  \/ \E u \in DOMAIN e.votes : \E i \in 1..Len(e.votes[u]) : e.votes[u][i] = n
InIndex(x, n) == \E c \in DOMAIN x : HasDigest(x[c], n)
Superseded(t, n) ==
  /\ t[n].kind # "vote"
  /\ \E m \in 1..Len(t) : /\ m > n /\ t[m].kind = t[n].kind /\ t[m].state = t[n].state
                          /\ t[m].id = t[n].id /\ t[m].ver = t[n].ver
WriteInv ==
  \A n \in 1..Len(tree) :
    n \notin orphans => InIndex(ridx[tree[n].state], n) \/ Superseded(tree, n)

\* A delete command that saved the index has deleted the versions it found, is
\* about to, or has failed to.
KeptOf(s, c) == \E n \in kept : tree[n].id = c /\ tree[n].state = s
GoneOf(s, c) == \E n \in gone \cup deleting : tree[n].id = c /\ tree[n].state = s
DelInv ==
  /\ \A d \in 1..Len(tree) :
       tree[d].kind = "del" /\ d \notin orphans =>
         KeptOf(tree[d].state, tree[d].id) \/ GoneOf(tree[d].state, tree[d].id)
  /\ \A s \in States : \A c \in DOMAIN ridx[s] :
       ridx[s][c].del # 0 /\ ridx[s][c].del \notin orphans =>
         KeptOf(s, c) \/ \A v \in DOMAIN ridx[s][c].adds : ridx[s][c].adds[v] \in gone \cup deleting

CInv == TreeInv /\ IndexInv /\ GoneInv /\ WriteInv /\ DelInv

-----------------------------------------------------------------------------
(* Logs and functions. *)

Grows(t, u) == /\ Len(t) \in Nat /\ Len(u) \in Nat /\ Len(t) <= Len(u)
               /\ \A i \in 1..Len(t) : u[i] = t[i]

LEMMA Appended ==
  ASSUME NEW s, IsLog(s), NEW e
  PROVE  /\ IsLog(Append(s, e)) /\ Len(s) \in Nat /\ Len(Append(s, e)) = Len(s) + 1
         /\ Append(s, e)[Len(s) + 1] = e /\ Grows(s, Append(s, e))
<1>1. PICK S : s \in Seq(S)
  BY DEF IsLog
<1> DEFINE R == S \cup {e}
<1>2. s \in Seq(R) /\ e \in R
  BY <1>1
<1> HIDE DEF R
<1>3. /\ Append(s, e) \in Seq(R) /\ Len(Append(s, e)) = Len(s) + 1 /\ Len(s) \in Nat
      /\ \A i \in 1..Len(s) : Append(s, e)[i] = s[i]
      /\ Append(s, e)[Len(s) + 1] = e
  BY <1>2
<1> QED
  BY <1>3 DEF IsLog, Grows

LEMMA LogDomain ==
  ASSUME NEW s, IsLog(s)
  PROVE  Len(s) \in Nat /\ DOMAIN s = 1..Len(s)
BY DEF IsLog

\* What holds of the leaves of a tree holds when it has grown.
LEMMA WrittenGrows ==
  ASSUME NEW t, NEW u, Grows(t, u), NEW s, NEW c, Written(t, s, c)
  PROVE  Written(u, s, c)
BY DEF Grows, Written

LEMMA GroundedGrows ==
  ASSUME NEW t, NEW u, Grows(t, u), NEW l, Grounded(l, t)
  PROVE  Grounded(l, u)
BY WrittenGrows DEF Grounded

LEMMA EntryGrows ==
  ASSUME NEW t, NEW u, Grows(t, u), NEW e, NEW s, NEW c, EntryOk(e, s, c, t)
  PROVE  EntryOk(e, s, c, u)
<1>1. \A n, kind : Is(t, n, kind, s, c) => Is(u, n, kind, s, c) /\ u[n] = t[n]
  BY DEF Is, Grows
<1> QED
  BY <1>1 DEF EntryOk

\* A set of naturals with a bound has a greatest element, and Max0 returns it.
LEMMA Greatest ==
  ASSUME NEW k \in Nat, NEW S, S \subseteq 0..k, S # {}
  PROVE  \E n \in S : \A m \in S : m <= n
<1> DEFINE T == {k - n : n \in S}
<1>1. T \subseteq Nat /\ T # {}
  <2>1. \A n \in S : k - n \in Nat
    OBVIOUS
  <2> QED
    BY <2>1
<1>2. PICK x \in T : \A y \in T : ~ (<<y, x>> \in OpToRel(<, Nat))
  BY <1>1, NatLessThanWellFounded, WFMin
<1>3. \A y \in T : x <= y
  <2> TAKE y \in T
  <2>1. y \in Nat /\ x \in Nat
    BY <1>1
  <2>2. y < x => <<y, x>> \in OpToRel(<, Nat)
    BY <2>1, Zenon DEF OpToRel
  <2>3. <<y, x>> \notin OpToRel(<, Nat)
    BY <1>2
  <2>4. ~(y < x)
    BY <2>2, <2>3
  <2> QED
    BY <2>1, <2>4
<1>4. PICK n \in S : x = k - n
  OBVIOUS
<1>5. \A m \in S : k - m \in T
  OBVIOUS
<1> HIDE DEF T
<1>6. \A m \in S : m <= n
  BY <1>3, <1>4, <1>5
<1> QED
  BY <1>6

LEMMA Max0Is ==
  ASSUME NEW k \in Nat, NEW S, S \subseteq 0..k
  PROVE  /\ S # {} => Max0(S) \in S
         /\ \A m \in S : m <= Max0(S)
         /\ S = {} => Max0(S) = 0
<1>1. CASE S = {}
  BY <1>1 DEF Max0
<1>2. CASE S # {}
  <2>1. \E n \in S : \A m \in S : m <= n
    BY <1>2, Greatest
  <2>2. Max0(S) = CHOOSE n \in S : \A m \in S : m <= n
    BY <1>2 DEF Max0
  <2>3. Max0(S) \in S /\ \A m \in S : m <= Max0(S)
    BY <2>1, <2>2
  <2> QED
    BY <1>2, <2>3
<1> QED
  BY <1>1, <1>2

\* InTreeOrder has every element of a finite set of digests.
LEMMA InTreeOrderIs ==
  ASSUME NEW k \in Nat, NEW S, S \subseteq 1..k
  PROVE  /\ IsLog(InTreeOrder(S))
         /\ \A n \in S : \E i \in 1..Len(InTreeOrder(S)) : InTreeOrder(S)[i] = n
<1> DEFINE Below(n) == {m \in S : m <= n}
           rank(n) == Cardinality(Below(n))
           z == Cardinality(S)
           R == {rank(n) : n \in S}
<1>1. IsFiniteSet(S) /\ z \in Nat
  <2>1. IsFiniteSet(1..k)
    BY FS_Interval
  <2>2. IsFiniteSet(S)
    BY <2>1, FS_Subset
  <2> QED
    BY <2>2, FS_CardinalityType
<1>2. ASSUME NEW n \in S PROVE rank(n) \in 1..z
  <2>1. IsFiniteSet(Below(n)) /\ rank(n) \in Nat /\ rank(n) <= z
    <3>1. Below(n) \subseteq S
      OBVIOUS
    <3>2. IsFiniteSet(Below(n)) /\ rank(n) <= z
      BY <1>1, <3>1, FS_Subset
    <3> QED
      BY <3>2, FS_CardinalityType
  <2>2. Below(n) # {}
    <3>1. n \in Int
      OBVIOUS
    <3>2. n \in Below(n)
      BY <3>1
    <3> QED
      BY <3>2
  <2>3. rank(n) # 0
    BY <2>1, <2>2, FS_EmptySet
  <2> HIDE DEF rank, z
  <2> QED
    BY <1>1, <2>1, <2>3
<1>3. ASSUME NEW n \in S, NEW m \in S, rank(n) = rank(m) PROVE n = m
  <2>1. ASSUME NEW a \in S, NEW b \in S, a < b, rank(a) = rank(b) PROVE FALSE
    <3>1. Below(a) \subseteq Below(b) /\ b \in Below(b) /\ b \notin Below(a)
      <4>1. S \subseteq Int /\ a \in Int /\ b \in Int
        OBVIOUS
      <4>2. \A x \in S : x <= a => x <= b
        BY <2>1, <4>1
      <4>3. b <= b /\ ~(b <= a)
        BY <2>1, <4>1
      <4> QED
        BY <4>2, <4>3
    <3>2. IsFiniteSet(Below(b))
      <4>1. Below(b) \subseteq S
        OBVIOUS
      <4> QED
        BY <1>1, <4>1, FS_Subset
    <3>3. Cardinality(Below(a)) # Cardinality(Below(b))
      <4>1. Below(a) # Below(b)
        BY <3>1
      <4> HIDE DEF Below
      <4> QED
        BY <3>1, <3>2, <4>1, FS_Subset
    <3> QED
      BY <2>1, <3>3
  <2>2. n \in Int /\ m \in Int
    OBVIOUS
  <2> HIDE DEF rank
  <2> QED
    BY <1>3, <2>1, <2>2
<1>4. R = 1..z
  <2> DEFINE f == [n \in S |-> rank(n)]
  <2>1. f \in Bijection(S, R)
    <3>1. f \in [S -> R] /\ \A n, m \in S : f[n] = f[m] => n = m
      BY <1>3
    <3>2. \A r \in R : \E n \in S : f[n] = r
      OBVIOUS
    <3> HIDE DEF f, R
    <3> QED
      BY <3>1, <3>2 DEF Bijection, Injection, Surjection, IsInjective
  <2> HIDE DEF f
  <2>2. IsFiniteSet(R) /\ Cardinality(R) = z
    <3>1. ExistsBijection(S, R)
      BY <2>1 DEF ExistsBijection
    <3> HIDE DEF R
    <3> QED
      BY <1>1, <3>1, FS_Bijection
  <2>3. R \subseteq 1..z
    BY <1>2
  <2> HIDE DEF R, z
  <2>4. IsFiniteSet(1..z) /\ Cardinality(1..z) = z
    <3>1. IsFiniteSet(1..z) /\ Cardinality(1..z) = IF 1 > z THEN 0 ELSE z - 1 + 1
      BY <1>1, FS_Interval
    <3> QED
      BY <1>1, <3>1
  <2> QED
    BY <2>2, <2>3, <2>4, FS_Subset
<1> DEFINE t == InTreeOrder(S)
<1>5. t = [i \in 1..z |-> CHOOSE n \in S : rank(n) = i]
  BY DEF InTreeOrder
<1>6. ASSUME NEW n \in S PROVE rank(n) \in 1..z /\ t[rank(n)] = n
  <2>1. rank(n) \in 1..z
    BY <1>2
  <2>2. t[rank(n)] = CHOOSE m \in S : rank(m) = rank(n)
    BY <1>5, <2>1
  <2> HIDE DEF rank, t
  <2> QED
    BY <1>3, <2>1, <2>2
<1>7. t \in Seq(S)
  <2>1. \A i \in 1..z : \E n \in S : rank(n) = i
    BY <1>4
  <2>2. \A i \in 1..z : (CHOOSE n \in S : rank(n) = i) \in S
    <3> HIDE DEF rank, z
    <3> QED
      BY <2>1
  <2> HIDE DEF rank, z
  <2>3. t \in [1..z -> S]
    BY <1>5, <2>2
  <2> QED
    BY <1>1, <2>3
<1>8. Len(t) = z
  <2>1. DOMAIN t = 1..z
    BY <1>5
  <2> HIDE DEF t, z
  <2>2. DOMAIN t = 1..Len(t) /\ Len(t) \in Nat
    BY <1>7
  <2> QED
    BY <1>1, <2>1, <2>2
<1> HIDE DEF t, rank, z
<1>9. IsLog(t) /\ \A n \in S : \E i \in 1..Len(t) : t[i] = n
  BY <1>6, <1>7, <1>8 DEF IsLog
<1> QED
  BY <1>9 DEF t

-----------------------------------------------------------------------------
(* A command that appends a leaf and saves the index. *)

Saved(l, c, e) ==
  /\ tree' = Append(tree, l)
  /\ ridx' = [ridx EXCEPT ![state] = Put(ridx[state], c, e)]
  /\ UNCHANGED <<late, gone, state, orphans, kept>>

\* What the commands see to: l is the leaf, e the new index of comment c.
Fits(l, c, e) ==
  /\ Len(tree) + Len(late) < MaxLeaves
  /\ LeafOk(l, Len(tree) + 1) /\ Grounded(l, tree) /\ l.state = state /\ l.id = c
  /\ EntryOk(e, state, c, Append(tree, l)) /\ HasDigest(e, Len(tree) + 1)
  /\ c \in DOMAIN ridx[state] \/ DOMAIN ridx[state] = 1..(c - 1)
  /\ c \in DOMAIN ridx[state] =>
       \A n \in 1..Len(tree) :
         HasDigest(ridx[state][c], n) => HasDigest(e, n) \/ Superseded(Append(tree, l), n)

LEMMA LeafMore ==
  ASSUME NEW l, NEW k \in Nat, NEW m \in Nat, k <= m, LeafOk(l, k)
  PROVE  LeafOk(l, m)
BY DEF LeafOk

\* The tree grows by a leaf.
LEMMA TreeGrows ==
  ASSUME TreeInv, NEW l, tree' = Append(tree, l), LeafOk(l, Len(tree) + 1), Grounded(l, tree),
         IsLog(late'), Len(tree) + 1 + Len(late') <= MaxLeaves,
         \A i \in 1..Len(late') : \E j \in 1..Len(late) : j <= i + 1 /\ late'[i] = late[j],
         orphans' \subseteq orphans \cup {Len(tree) + 1}, kept' = kept, state' = state
  PROVE  TreeInv' /\ Grows(tree, tree')
<1>1. /\ IsLog(tree') /\ Len(tree) \in Nat /\ Len(tree') = Len(tree) + 1
      /\ tree'[Len(tree) + 1] = l /\ Grows(tree, tree')
  BY Appended DEF TreeInv
<1>2. ASSUME NEW n \in 1..Len(tree')
      PROVE  LeafOk(tree'[n], n) /\ Grounded(tree'[n], tree')
  <2>1. CASE n = Len(tree) + 1
    BY <1>1, <2>1, GroundedGrows
  <2>2. CASE n \in 1..Len(tree)
    <3>1. tree'[n] = tree[n] /\ LeafOk(tree[n], n) /\ Grounded(tree[n], tree)
      BY <1>1, <2>2 DEF Grows, TreeInv
    <3> QED
      BY <1>1, <3>1, GroundedGrows
  <2> QED
    BY <1>1, <2>1, <2>2
<1>3. ASSUME NEW i \in 1..Len(late')
      PROVE  LeafOk(late'[i], Len(tree') + i) /\ Grounded(late'[i], tree')
  <2>1. PICK j \in 1..Len(late) : j <= i + 1 /\ late'[i] = late[j]
    OBVIOUS
  <2>2. LeafOk(late[j], Len(tree) + j) /\ Grounded(late[j], tree)
    BY DEF TreeInv
  <2>3. Len(tree) + j \in Nat /\ Len(tree') + i \in Nat /\ Len(tree) + j <= Len(tree') + i
    <3>1. i \in Nat /\ j \in Nat
      OBVIOUS
    <3> QED
      BY <1>1, <2>1, <3>1
  <2> QED
    BY <1>1, <2>1, <2>2, <2>3, LeafMore, GroundedGrows
<1>4. orphans' \cup kept' \subseteq 1..Len(tree')
  BY <1>1 DEF TreeInv
<1>5. IsLog(late') /\ Len(tree') + Len(late') <= MaxLeaves
  BY <1>1
<1> QED
  BY <1>1, <1>2, <1>3, <1>4, <1>5 DEF TreeInv

LEMMA SavedTree ==
  ASSUME TreeInv, NEW l, NEW c, NEW e, Saved(l, c, e), Fits(l, c, e)
  PROVE  TreeInv' /\ Grows(tree, tree')
<1>1. /\ tree' = Append(tree, l) /\ late' = late /\ orphans' = orphans /\ kept' = kept
      /\ state' = state
  BY DEF Saved
<1>2. Len(tree) \in Nat /\ Len(late) \in Nat /\ MaxLeaves \in Nat
  BY LogDomain, ConstantsAssumption DEF TreeInv
<1>3. IsLog(late') /\ Len(tree) + 1 + Len(late') <= MaxLeaves
  BY <1>1, <1>2 DEF Fits, TreeInv
<1>4. \A i \in 1..Len(late') : \E j \in 1..Len(late) : j <= i + 1 /\ late'[i] = late[j]
  BY <1>1, <1>2
<1> QED
  BY <1>1, <1>3, <1>4, TreeGrows DEF Fits

LEMMA SavedIndexIs ==
  ASSUME TreeInv, IndexInv, NEW l, NEW c, NEW e, Saved(l, c, e)
  PROVE  /\ ridx' = [s \in States |-> ridx'[s]]
         /\ \A s \in States : s # state => ridx'[s] = ridx[s]
         /\ DOMAIN ridx'[state] = DOMAIN ridx[state] \cup {c}
         /\ ridx'[state][c] = e
         /\ \A d \in DOMAIN ridx[state] : d # c => ridx'[state][d] = ridx[state][d]
<1>0. PICK x : x = Put(ridx[state], c, e)
  OBVIOUS
<1>1. /\ DOMAIN x = DOMAIN ridx[state] \cup {c} /\ x[c] = e
      /\ \A d \in DOMAIN ridx[state] : d # c => x[d] = ridx[state][d]
  <2>1. /\ DOMAIN Put(ridx[state], c, e) = DOMAIN ridx[state] \cup {c}
        /\ Put(ridx[state], c, e)[c] = e
        /\ \A d \in DOMAIN ridx[state] : d # c => Put(ridx[state], c, e)[d] = ridx[state][d]
    BY DEF Put
  <2> QED
    BY <1>0, <2>1
<1>2. ridx' = [ridx EXCEPT ![state] = x] /\ state \in States
  BY <1>0 DEF Saved, TreeInv
<1>3. ridx = [s \in States |-> ridx[s]]
  BY DEF IndexInv
<1>4. ridx'[state] = x /\ \A s \in States : s # state => ridx'[s] = ridx[s]
  BY <1>2, <1>3
<1>5. ridx' = [s \in States |-> ridx'[s]]
  BY <1>2, <1>3
<1> QED
  BY <1>1, <1>4, <1>5

LEMMA SavedIndex ==
  ASSUME TreeInv, IndexInv, NEW l, NEW c, NEW e, Saved(l, c, e), Fits(l, c, e)
  PROVE  IndexInv'
<1>1. Grows(tree, tree') /\ tree' = Append(tree, l) /\ c \in Nat \ {0}
  BY SavedTree DEF Saved, Fits, LeafOk
<1>2. /\ ridx' = [s \in States |-> ridx'[s]]
      /\ \A s \in States : s # state => ridx'[s] = ridx[s]
      /\ DOMAIN ridx'[state] = DOMAIN ridx[state] \cup {c}
      /\ ridx'[state][c] = e
      /\ \A d \in DOMAIN ridx[state] : d # c => ridx'[state][d] = ridx[state][d]
  BY SavedIndexIs
<1>3. ASSUME NEW s \in States
      PROVE  \E k \in Nat : DOMAIN ridx'[s] = 1..k
  <2>1. PICK k \in Nat : DOMAIN ridx[s] = 1..k
    BY DEF IndexInv
  <2>2. CASE s = state
    <3>1. CASE c \in DOMAIN ridx[state]
      BY <1>2, <2>1, <2>2, <3>1
    <3>2. CASE DOMAIN ridx[state] = 1..(c - 1)
      <4>1. DOMAIN ridx'[state] = 1..c
        BY <1>1, <1>2, <3>2
      <4> QED
        BY <1>1, <2>2, <4>1
    <3> QED
      BY <3>1, <3>2 DEF Fits
  <2> QED
    BY <1>2, <2>1, <2>2
<1>4. ASSUME NEW s \in States, NEW d \in DOMAIN ridx'[s]
      PROVE  EntryOk(ridx'[s][d], s, d, tree')
  <2>1. CASE s = state /\ d = c
    BY <1>1, <1>2, <2>1 DEF Fits
  <2>2. CASE s # state \/ d # c
    <3>1. d \in DOMAIN ridx[s] /\ ridx'[s][d] = ridx[s][d]
      BY <1>2, <2>2
    <3>2. EntryOk(ridx[s][d], s, d, tree)
      BY <3>1 DEF IndexInv
    <3> QED
      BY <1>1, <3>1, <3>2, EntryGrows
  <2> QED
    BY <2>1, <2>2
<1> QED
  BY <1>2, <1>3, <1>4 DEF IndexInv

LEMMA SupersededGrows ==
  ASSUME NEW t, NEW u, Grows(t, u), NEW n \in 1..Len(t), Superseded(t, n)
  PROVE  Superseded(u, n)
BY DEF Grows, Superseded

LEMMA SavedWrite ==
  ASSUME TreeInv, IndexInv, WriteInv, NEW l, NEW c, NEW e, Saved(l, c, e), Fits(l, c, e)
  PROVE  WriteInv'
<1>1. /\ Grows(tree, tree') /\ tree' = Append(tree, l) /\ orphans' = orphans
      /\ Len(tree) \in Nat /\ Len(tree') = Len(tree) + 1 /\ tree'[Len(tree) + 1] = l
  BY SavedTree, Appended DEF Saved, TreeInv
<1>2. /\ \A s \in States : s # state => ridx'[s] = ridx[s]
      /\ DOMAIN ridx'[state] = DOMAIN ridx[state] \cup {c}
      /\ ridx'[state][c] = e
      /\ \A d \in DOMAIN ridx[state] : d # c => ridx'[state][d] = ridx[state][d]
  BY SavedIndexIs
<1> SUFFICES ASSUME NEW n \in 1..Len(tree'), n \notin orphans
             PROVE  InIndex(ridx'[tree'[n].state], n) \/ Superseded(tree', n)
  BY <1>1 DEF WriteInv
<1>3. CASE n = Len(tree) + 1
  <2>1. tree'[n].state = state /\ HasDigest(e, n)
    BY <1>1, <1>3 DEF Fits
  <2> QED
    BY <1>2, <2>1 DEF InIndex
<1>4. CASE n \in 1..Len(tree)
  <2>1. tree'[n] = tree[n] /\ tree[n].state \in States
    BY <1>1, <1>4 DEF Grows, TreeInv, LeafOk
  <2>2. CASE Superseded(tree, n)
    BY <1>1, <1>4, <2>2, SupersededGrows
  <2>3. CASE InIndex(ridx[tree[n].state], n)
    <3>1. PICK d \in DOMAIN ridx[tree[n].state] : HasDigest(ridx[tree[n].state][d], n)
      BY <2>3 DEF InIndex
    <3>2. CASE tree[n].state = state /\ d = c
      <4>1. HasDigest(e, n) \/ Superseded(Append(tree, l), n)
        BY <1>4, <3>1, <3>2 DEF Fits
      <4> QED
        BY <1>1, <1>2, <2>1, <3>2, <4>1 DEF InIndex
    <3>3. CASE tree[n].state # state \/ d # c
      <4>1. d \in DOMAIN ridx'[tree[n].state] /\ ridx'[tree[n].state][d] = ridx[tree[n].state][d]
        BY <1>2, <2>1, <3>1, <3>3
      <4> QED
        BY <2>1, <3>1, <4>1 DEF InIndex
    <3> QED
      BY <3>2, <3>3
  <2> QED
    BY <1>4, <2>2, <2>3 DEF WriteInv
<1> QED
  BY <1>1, <1>3, <1>4

\* What the commands see to of the deletions.
FitsDel(l, c, e) ==
  /\ deleting \subseteq deleting'
  /\ \A n \in deleting' : n \in deleting \/ (e.del # 0 /\ \E v \in DOMAIN e.adds : n = e.adds[v])
  /\ c \in DOMAIN ridx[state] /\ ridx[state][c].del # 0 => e.del # 0
  /\ l.kind = "del" => \E v \in DOMAIN e.adds : e.adds[v] \in deleting'
  /\ e.del # 0 /\ e.del \notin orphans =>
       KeptOf(state, c) \/ \A v \in DOMAIN e.adds : e.adds[v] \in gone \cup deleting'

LEMMA SavedGone ==
  ASSUME TreeInv, IndexInv, GoneInv, NEW l, NEW c, NEW e, Saved(l, c, e), Fits(l, c, e),
         FitsDel(l, c, e)
  PROVE  GoneInv'
<1>1. Grows(tree, tree') /\ tree' = Append(tree, l) /\ gone' = gone
  BY SavedTree DEF Saved
<1>2. /\ \A s \in States : s # state => ridx'[s] = ridx[s]
      /\ DOMAIN ridx'[state] = DOMAIN ridx[state] \cup {c}
      /\ ridx'[state][c] = e
      /\ \A d \in DOMAIN ridx[state] : d # c => ridx'[state][d] = ridx[state][d]
  BY SavedIndexIs
<1> SUFFICES ASSUME NEW n \in gone' \cup deleting'
             PROVE  /\ n \in 1..Len(tree') /\ tree'[n].kind = "add"
                    /\ tree'[n].id \in DOMAIN ridx'[tree'[n].state]
                    /\ ridx'[tree'[n].state][tree'[n].id].del # 0
  BY DEF GoneInv
<1>3. CASE n \in gone \cup deleting
  <2>1. /\ n \in 1..Len(tree) /\ tree[n].kind = "add"
        /\ tree[n].id \in DOMAIN ridx[tree[n].state]
        /\ ridx[tree[n].state][tree[n].id].del # 0
    BY <1>3 DEF GoneInv
  <2>2. tree'[n] = tree[n] /\ n \in 1..Len(tree') /\ tree[n].state \in States
    BY <1>1, <2>1 DEF Grows, TreeInv, LeafOk
  <2>3. CASE tree[n].state = state /\ tree[n].id = c
    BY <1>2, <2>1, <2>2, <2>3 DEF FitsDel
  <2>4. CASE tree[n].state # state \/ tree[n].id # c
    BY <1>2, <2>1, <2>2, <2>4
  <2> QED
    BY <2>3, <2>4
<1>4. CASE n \notin gone \cup deleting
  <2>1. PICK v \in DOMAIN e.adds : e.del # 0 /\ n = e.adds[v]
    BY <1>1, <1>4 DEF FitsDel
  <2>2. n \in 1..Len(tree') /\ tree'[n].kind = "add" /\ tree'[n].state = state /\ tree'[n].id = c
    BY <1>1, <2>1 DEF Fits, EntryOk, Is
  <2> QED
    BY <1>2, <2>1, <2>2
<1> QED
  BY <1>3, <1>4

LEMMA SavedDel ==
  ASSUME TreeInv, IndexInv, GoneInv, DelInv, NEW l, NEW c, NEW e, Saved(l, c, e), Fits(l, c, e),
         FitsDel(l, c, e)
  PROVE  DelInv'
<1>1. /\ Grows(tree, tree') /\ tree' = Append(tree, l) /\ gone' = gone
      /\ kept' = kept /\ orphans' = orphans /\ deleting \subseteq deleting'
      /\ Len(tree) \in Nat /\ Len(tree') = Len(tree) + 1 /\ tree'[Len(tree) + 1] = l
      /\ \A n \in kept : n \in 1..Len(tree)
  BY SavedTree, Appended DEF Saved, FitsDel, TreeInv
<1>2. /\ \A s \in States : s # state => ridx'[s] = ridx[s]
      /\ DOMAIN ridx'[state] = DOMAIN ridx[state] \cup {c}
      /\ ridx'[state][c] = e
      /\ \A d \in DOMAIN ridx[state] : d # c => ridx'[state][d] = ridx[state][d]
  BY SavedIndexIs
<1>3. \A n \in 1..Len(tree) : n \in 1..Len(tree') /\ tree'[n] = tree[n]
  BY <1>1 DEF Grows
<1>4. ASSUME NEW n \in 1..Len(tree'), tree'[n].kind = "del", n \notin orphans'
      PROVE  KeptOf(tree[n].state, tree[n].id)' \/ GoneOf(tree[n].state, tree[n].id)'
  <2>1. CASE n \in 1..Len(tree)
    <3>1. KeptOf(tree[n].state, tree[n].id) \/ GoneOf(tree[n].state, tree[n].id)
      BY <1>1, <1>3, <1>4, <2>1 DEF DelInv
    <3>2. CASE KeptOf(tree[n].state, tree[n].id)
      <4>1. PICK m \in kept : tree[m].id = tree[n].id /\ tree[m].state = tree[n].state
        BY <3>2 DEF KeptOf
      <4> QED
        BY <1>1, <1>3, <2>1, <4>1 DEF KeptOf
    <3>3. CASE GoneOf(tree[n].state, tree[n].id)
      <4>1. PICK m \in gone \cup deleting : tree[m].id = tree[n].id /\ tree[m].state = tree[n].state
        BY <3>3 DEF GoneOf
      <4>2. m \in gone' \cup deleting'
        BY <1>1
      <4>3. m \in 1..Len(tree)
        BY DEF GoneInv
      <4> QED
        BY <1>1, <1>3, <2>1, <4>1, <4>2, <4>3 DEF GoneOf
    <3> QED
      BY <3>1, <3>2, <3>3
  <2>2. CASE n = Len(tree) + 1
    <3>1. PICK v \in DOMAIN e.adds : e.adds[v] \in deleting'
      BY <1>1, <1>4, <2>2 DEF FitsDel
    <3>2. tree'[e.adds[v]].id = c /\ tree'[e.adds[v]].state = state
      BY <1>1 DEF Fits, EntryOk, Is
    <3>3. tree'[n].id = c /\ tree'[n].state = state
      BY <1>1, <2>2 DEF Fits
    <3> QED
      BY <3>1, <3>2, <3>3 DEF GoneOf
  <2> QED
    BY <1>1, <2>1, <2>2
<1>5. ASSUME NEW s \in States, NEW d \in DOMAIN ridx'[s],
             ridx'[s][d].del # 0, ridx'[s][d].del \notin orphans'
      PROVE  \/ KeptOf(s, d)'
             \/ \A v \in DOMAIN ridx'[s][d].adds : ridx'[s][d].adds[v] \in gone' \cup deleting'
  <2>1. KeptOf(s, d) => KeptOf(s, d)'
    BY <1>1, <1>3 DEF KeptOf
  <2>2. CASE s = state /\ d = c
    BY <1>1, <1>2, <1>5, <2>1, <2>2 DEF FitsDel
  <2>3. CASE s # state \/ d # c
    <3>1. d \in DOMAIN ridx[s] /\ ridx'[s][d] = ridx[s][d]
      BY <1>2, <2>3
    <3>2. KeptOf(s, d) \/ \A v \in DOMAIN ridx[s][d].adds : ridx[s][d].adds[v] \in gone \cup deleting
      BY <1>1, <1>5, <3>1 DEF DelInv
    <3> QED
      BY <1>1, <2>1, <3>1, <3>2
  <2> QED
    BY <2>2, <2>3
<1> QED
  BY <1>4, <1>5 DEF DelInv

LEMMA SavedKeeps ==
  ASSUME CInv, NEW l, NEW c, NEW e, Saved(l, c, e), Fits(l, c, e), FitsDel(l, c, e)
  PROVE  CInv'
BY SavedTree, SavedIndex, SavedWrite, SavedGone, SavedDel DEF CInv

\* A step that leaves the tree, the index and the deletions alone.
LEMMA RestKept ==
  ASSUME CInv, TreeInv', UNCHANGED <<tree, gone, ridx, deleting, orphans, kept>>
  PROVE  CInv'
<1>1. IndexInv'
  BY DEF CInv, IndexInv
<1>2. GoneInv' /\ WriteInv'
  BY DEF CInv, GoneInv, WriteInv
<1>3. DelInv'
  BY DEF CInv, DelInv, KeptOf, GoneOf
<1> QED
  BY <1>1, <1>2, <1>3 DEF CInv

\* A command that ends before the index is saved.
LEMMA LostKeeps ==
  ASSUME CInv, NEW l, CommandLost(l), UNCHANGED <<state, kept>>,
         Len(tree) + Len(late) < MaxLeaves, LeafOk(l, Len(tree) + 1), Grounded(l, tree)
  PROVE  CInv'
<1>1. /\ Len(tree) \in Nat /\ Len(late) \in Nat /\ IsLog(late') /\ Len(late') = Len(late) + 1
      /\ late'[Len(late) + 1] = l /\ \A i \in 1..Len(late) : late'[i] = late[i]
      /\ tree' = tree /\ MaxLeaves \in Nat
  BY Appended, LogDomain, ConstantsAssumption DEF CommandLost, CInv, TreeInv, Grows
<1>2. ASSUME NEW i \in 1..Len(late')
      PROVE  LeafOk(late'[i], Len(tree) + i) /\ Grounded(late'[i], tree)
  <2>1. CASE i = Len(late) + 1
    <3>1. Len(tree) + 1 \in Nat /\ Len(tree) + i \in Nat /\ Len(tree) + 1 <= Len(tree) + i
      BY <1>1, <2>1
    <3> QED
      BY <1>1, <2>1, <3>1, LeafMore
  <2>2. CASE i \in 1..Len(late)
    BY <1>1, <2>2 DEF CInv, TreeInv
  <2> QED
    BY <1>1, <2>1, <2>2
<1>3. IsLog(tree') /\ Len(tree') + Len(late') <= MaxLeaves
  BY <1>1 DEF CInv, TreeInv
<1>4. TreeInv'
  BY <1>1, <1>2, <1>3 DEF CInv, TreeInv, CommandLost
<1> QED
  BY <1>4, RestKept DEF CommandLost

LEMMA SaveKeeps ==
  ASSUME CInv, NEW l, NEW c, NEW e, Save(l, c, e), UNCHANGED <<state, kept>>, Fits(l, c, e),
         Idle, l.kind # "del", c \in DOMAIN ridx[state] /\ ridx[state][c].del # 0 => e.del # 0,
         e.del # 0 /\ e.del \notin orphans =>
           KeptOf(state, c) \/ \A v \in DOMAIN e.adds : e.adds[v] \in gone
  PROVE  CInv'
<1>1. CASE CommandLost(l)
  BY <1>1, LostKeeps DEF Fits
<1>2. CASE BlobSave(l) /\ recordIndexSave(c, e) /\ UNCHANGED <<orphans, deleting>>
  <2>1. Saved(l, c, e)
    BY <1>2 DEF Saved, BlobSave, recordIndexSave, recordIndex
  <2>2. FitsDel(l, c, e)
    BY <1>2 DEF FitsDel, Idle
  <2> QED
    BY <2>1, <2>2, SavedKeeps
<1> QED
  BY <1>1, <1>2 DEF Save

-----------------------------------------------------------------------------
(* The write commands. *)

LEMMA NewLeafIs ==
  ASSUME TreeInv, NEW kind, NEW c, NEW ver, NEW u, NEW parent, NEW hint, NEW v
  PROVE  LET l == NewLeaf(kind, c, ver, u, parent, hint, v)
         IN  /\ IsLeaf(l) /\ l.kind = kind /\ l.id = c /\ l.ver = ver /\ l.user = u
             /\ l.state = state
BY DEF NewLeaf, IsLeaf

\* What the index says of the comments.
LEMMA IndexSays ==
  ASSUME TreeInv, IndexInv
  PROVE  /\ state \in States
         /\ \E k \in Nat : DOMAIN ridx[state] = 1..k
         /\ \A c \in DOMAIN ridx[state] :
              EntryOk(ridx[state][c], state, c, tree) /\ Written(tree, state, c)
<1>1. state \in States
  BY DEF TreeInv
<1>2. ASSUME NEW c \in DOMAIN ridx[state]
      PROVE  EntryOk(ridx[state][c], state, c, tree) /\ Written(tree, state, c)
  BY <1>1 DEF IndexInv, EntryOk, Is, Written
<1> QED
  BY <1>1, <1>2 DEF IndexInv

LEMMA NewKeeps ==
  ASSUME CInv, NEW u, NEW parent, NEW hint, cmdNew(u, parent, hint)
  PROVE  CInv'
<1> DEFINE c == NewCommentID
           l == NewLeaf("add", c, 1, u, parent, hint, 0)
           e == [adds |-> [v \in {1} |-> digest], del |-> 0, votes |-> NoVotes]
<1>1. Save(l, c, e) /\ UNCHANGED <<state, kept>> /\ Idle /\ Len(tree) + Len(late) < MaxLeaves
  BY DEF cmdNew, Ready, Other, record
<1>2. PICK k \in Nat : DOMAIN ridx[state] = 1..k
  BY IndexSays DEF CInv
<1>3. c = k + 1
  <2>1. 1..k \subseteq 0..k
    OBVIOUS
  <2>2. /\ 1..k # {} => Max0(1..k) \in 1..k
        /\ \A m \in 1..k : m <= Max0(1..k)
        /\ 1..k = {} => Max0(1..k) = 0
    BY <2>1, Max0Is
  <2>3. CASE k = 0
    BY <1>2, <2>2, <2>3 DEF NewCommentID, commentIDLatest, recordIndex
  <2>4. CASE k # 0
    <3>1. k \in 1..k
      BY <2>4
    <3>2. Max0(1..k) = k
      BY <2>2, <3>1
    <3> QED
      BY <1>2, <3>2 DEF NewCommentID, commentIDLatest, recordIndex
  <2> QED
    BY <2>3, <2>4
<1>4. /\ IsLeaf(l) /\ l.kind = "add" /\ l.id = c /\ l.ver = 1 /\ l.user = u /\ l.state = state
  BY NewLeafIs DEF CInv
<1>5. e.adds = [v \in {1} |-> digest] /\ e.del = 0 /\ e.votes = NoVotes
      /\ e = [adds |-> e.adds, del |-> e.del, votes |-> e.votes]
  OBVIOUS
<1> HIDE DEF c, l, e
<1>6. Len(tree) \in Nat /\ digest = Len(tree) + 1 /\ Len(Append(tree, l)) = Len(tree) + 1
      /\ Append(tree, l)[Len(tree) + 1] = l
  BY Appended DEF CInv, TreeInv, digest
<1>7. Fits(l, c, e)
  <2>1. LeafOk(l, Len(tree) + 1) /\ state \in States
    BY <1>3, <1>4, <1>6, IndexSays DEF LeafOk, CInv
  <2>2. Grounded(l, tree)
    <3>1. \A d \in 1..k : Written(tree, state, d)
      BY <1>2, IndexSays DEF CInv
    <3> QED
      BY <1>3, <1>4, <3>1 DEF Grounded
  <2>3. EntryOk(e, state, c, Append(tree, l))
    <3>1. DOMAIN e.adds = {1} /\ e.adds[1] = Len(tree) + 1 /\ DOMAIN e.votes = {}
      BY <1>5, <1>6 DEF NoVotes
    <3> QED
      BY <1>4, <1>5, <1>6, <3>1 DEF EntryOk, Is
  <2>4. HasDigest(e, Len(tree) + 1)
    BY <1>5, <1>6 DEF HasDigest
  <2>5. c \notin DOMAIN ridx[state] /\ DOMAIN ridx[state] = 1..(c - 1)
    BY <1>2, <1>3
  <2> QED
    BY <1>1, <1>4, <2>1, <2>2, <2>3, <2>4, <2>5 DEF Fits
<1>8. c \notin DOMAIN ridx[state] /\ l.kind # "del"
  BY <1>2, <1>3, <1>4
<1> QED
  BY <1>1, <1>5, <1>7, <1>8, SaveKeeps

\* The latest version of a comment.
LEMMA LatestIs ==
  ASSUME TreeInv, NEW e, NEW s, NEW c, EntryOk(e, s, c, tree)
  PROVE  /\ DOMAIN e.adds \subseteq 1..Len(tree)
         /\ commentVersionLatest(e) \in DOMAIN e.adds
         /\ \A v \in DOMAIN e.adds : v <= commentVersionLatest(e)
<1>1. DOMAIN e.adds \subseteq 1..Len(tree) /\ Len(tree) \in Nat
  <2>1. ASSUME NEW v \in DOMAIN e.adds PROVE v \in 1..Len(tree)
    <3>1. Is(tree, e.adds[v], "add", s, c) /\ tree[e.adds[v]].ver = v
      BY DEF EntryOk
    <3>2. e.adds[v] \in 1..Len(tree) /\ LeafOk(tree[e.adds[v]], e.adds[v])
      BY <3>1 DEF Is, TreeInv
    <3>3. v \in 1..e.adds[v]
      BY <3>1, <3>2 DEF LeafOk, Is
    <3> QED
      BY <3>2, <3>3
  <2> QED
    BY <2>1, LogDomain DEF TreeInv
<1>2. PICK D : D = DOMAIN e.adds
  OBVIOUS
<1>3. PICK k \in Nat : k = Len(tree)
  BY <1>1
<1>4. D \subseteq 0..k /\ D # {}
  BY <1>1, <1>2, <1>3 DEF EntryOk
<1>5. Max0(D) \in D /\ \A v \in D : v <= Max0(D)
  BY <1>4, Max0Is
<1> QED
  BY <1>1, <1>2, <1>5 DEF commentVersionLatest

LEMMA EditKeeps ==
  ASSUME CInv, NEW c, cmdEdit(c)
  PROVE  CInv'
<1> DEFINE old == comment(c)
           ver == old.ver + 1
           l0 == NewLeaf("add", c, ver, old.user, old.parent, old.hint, 0)
           l == [l0 EXCEPT !.thread = -1]
           i == ridx[state][c]
           e == [i EXCEPT !.adds = Put(@, ver, digest)]
<1>1. /\ Save(l, c, e) /\ UNCHANGED <<state, kept>> /\ Idle /\ Len(tree) + Len(late) < MaxLeaves
      /\ c \in DOMAIN ridx[state] /\ Stored(i.adds[1])
  BY DEF cmdEdit, Ready, Other, record, commentExists, recordIndex
<1>2. /\ EntryOk(i, state, c, tree) /\ state \in States
      /\ \E k \in Nat : DOMAIN ridx[state] = 1..k
      /\ \A d \in DOMAIN ridx[state] : Written(tree, state, d)
  BY <1>1, IndexSays DEF CInv
<1>3. /\ DOMAIN i.adds \subseteq 1..Len(tree)
      /\ commentVersionLatest(i) \in DOMAIN i.adds
      /\ \A v \in DOMAIN i.adds : v <= commentVersionLatest(i)
  BY <1>2, LatestIs DEF CInv
<1>4. /\ Len(tree) \in Nat /\ digest = Len(tree) + 1 /\ Len(Append(tree, l)) = Len(tree) + 1
      /\ Append(tree, l)[Len(tree) + 1] = l /\ Grows(tree, Append(tree, l))
  BY Appended DEF CInv, TreeInv, digest
\* The version is new, or the comment is deleted and its first version is written again.
<1>5. ver \in 1..(Len(tree) + 1) /\ (ver \in DOMAIN i.adds => ver = 1 /\ i.del # 0)
  <2>1. CASE i.del # 0
    <3>1. IsLeaf(Leaf(i.del))
      BY <1>2, <2>1 DEF EntryOk, Is, CInv, TreeInv, LeafOk, Leaf
    <3>2. old.ver = 0
      BY <2>1, <3>1 DEF comment, Deleted, recordIndex, IsLeaf
    <3> QED
      BY <1>4, <2>1, <3>2
  <2>2. CASE i.del = 0
    <3>1. old.ver = commentVersionLatest(i)
      BY <1>2, <1>3, <2>2 DEF comment, Deleted, recordIndex, EntryOk, Leaf
    <3> HIDE DEF old
    <3>2. commentVersionLatest(i) \in 1..Len(tree)
      BY <1>3
    <3>3. PICK m \in 1..Len(tree) : m = commentVersionLatest(i)
      BY <3>2
    <3>4. ver = m + 1 /\ \A v \in DOMAIN i.adds : v <= m
      BY <1>3, <3>1, <3>3
    <3>5. \A v \in DOMAIN i.adds : v \in Nat
      BY <1>3, <1>4
    <3>6. m + 1 \notin DOMAIN i.adds
      BY <3>4, <3>5
    <3> QED
      BY <1>4, <3>4, <3>6
  <2> QED
    BY <2>1, <2>2
<1>6. /\ IsLeaf(l) /\ l.kind = "add" /\ l.id = c /\ l.ver = ver /\ l.state = state
  <2>1. /\ IsLeaf(l0) /\ l0.kind = "add" /\ l0.id = c /\ l0.ver = ver /\ l0.state = state
    BY NewLeafIs DEF CInv
  <2> HIDE DEF l0
  <2> QED
    BY <2>1 DEF IsLeaf
<1>7. /\ e = [adds |-> e.adds, del |-> e.del, votes |-> e.votes]
      /\ e.del = i.del /\ e.votes = i.votes
      /\ DOMAIN e.adds = DOMAIN i.adds \cup {ver} /\ e.adds[ver] = Len(tree) + 1
      /\ \A v \in DOMAIN i.adds : v # ver => e.adds[v] = i.adds[v]
  <2>1. i = [adds |-> i.adds, del |-> i.del, votes |-> i.votes]
    BY <1>2 DEF EntryOk
  <2>2. PICK p : p = Put(i.adds, ver, digest)
    OBVIOUS
  <2>3. /\ DOMAIN p = DOMAIN i.adds \cup {ver} /\ p[ver] = digest
        /\ \A v \in DOMAIN i.adds : v # ver => p[v] = i.adds[v]
    BY <2>2 DEF Put
  <2>4. e = [i EXCEPT !.adds = p]
    BY <2>2
  <2> HIDE DEF e, i, ver
  <2>5. e = [adds |-> p, del |-> i.del, votes |-> i.votes]
    BY <2>1, <2>4
  <2> QED
    BY <1>4, <2>3, <2>5
<1> HIDE DEF l, e, i, ver
<1>8. Fits(l, c, e)
  <2>1. LeafOk(l, Len(tree) + 1)
    <3>1. c \in Nat \ {0}
      BY <1>1, <1>2
    <3> QED
      BY <1>2, <1>5, <1>6, <3>1 DEF LeafOk
  <2>2. Grounded(l, tree)
    <3>1. Written(tree, state, c) /\ \A d \in 1..(c - 1) : Written(tree, state, d)
      BY <1>1, <1>2
    <3> QED
      BY <1>6, <3>1 DEF Grounded
  <2>3. EntryOk(e, state, c, Append(tree, l))
    <3>1. EntryOk(i, state, c, Append(tree, l))
      BY <1>2, <1>4, EntryGrows
    <3>2. Is(Append(tree, l), Len(tree) + 1, "add", state, c)
      BY <1>4, <1>6 DEF Is
    <3> QED
      BY <1>4, <1>6, <1>7, <3>1, <3>2 DEF EntryOk
  <2>4. HasDigest(e, Len(tree) + 1)
    BY <1>7 DEF HasDigest
  <2>5. ASSUME NEW n \in 1..Len(tree), HasDigest(i, n)
        PROVE  HasDigest(e, n) \/ Superseded(Append(tree, l), n)
    <3>1. CASE i.del = n \/ \E u \in DOMAIN i.votes : \E j \in 1..Len(i.votes[u]) : i.votes[u][j] = n
      BY <1>7, <3>1 DEF HasDigest
    <3>2. ASSUME NEW v \in DOMAIN i.adds, i.adds[v] = n
          PROVE  HasDigest(e, n) \/ Superseded(Append(tree, l), n)
      <4>1. CASE v = ver
        <5>1. tree[n].kind = "add" /\ tree[n].state = state /\ tree[n].id = c /\ tree[n].ver = ver
          BY <1>2, <3>2, <4>1 DEF EntryOk, Is
        <5>2. Append(tree, l)[n] = tree[n]
          BY <1>4 DEF Grows
        <5>3. Len(tree) + 1 \in 1..Len(Append(tree, l)) /\ Len(tree) + 1 > n
          BY <1>4
        <5> QED
          BY <1>4, <1>6, <5>1, <5>2, <5>3 DEF Superseded
      <4>2. CASE v # ver
        BY <1>7, <3>2, <4>2 DEF HasDigest
      <4> QED
        BY <4>1, <4>2
    <3> QED
      BY <2>5, <3>1, <3>2 DEF HasDigest
  <2> QED
    BY <1>1, <1>6, <2>1, <2>2, <2>3, <2>4, <2>5 DEF Fits, i
<1>9. e.del # 0 /\ e.del \notin orphans => KeptOf(state, c)
  <2>1. i.del # 0 /\ i.del \notin orphans =>
          KeptOf(state, c) \/ \A v \in DOMAIN i.adds : i.adds[v] \in gone \cup deleting
    BY <1>1, <1>2 DEF CInv, DelInv, i
  <2>2. 1 \in DOMAIN i.adds /\ i.adds[1] \notin gone /\ deleting = {}
    BY <1>1, <1>2 DEF EntryOk, Stored, Idle
  <2> QED
    BY <1>7, <2>1, <2>2
<1> QED
  BY <1>1, <1>6, <1>7, <1>8, <1>9, SaveKeeps DEF i

LEMMA VoteKeeps ==
  ASSUME CInv, NEW c, NEW u \in Users, NEW v, cmdVote(c, u, v)
  PROVE  CInv'
<1> DEFINE i == ridx[state][c]
           mine == IF u \in DOMAIN i.votes THEN i.votes[u] ELSE << >>
           log == Append(mine, digest)
           l == NewLeaf("vote", c, 0, u, 0, "none", v)
           e == [i EXCEPT !.votes = Put(i.votes, u, log)]
<1>1. /\ Save(l, c, e) /\ UNCHANGED <<state, kept>> /\ Idle /\ Len(tree) + Len(late) < MaxLeaves
      /\ c \in DOMAIN ridx[state] /\ CanRead(c)
  BY DEF cmdVote, Ready, Other, record, commentExists, recordIndex
<1>2. /\ EntryOk(i, state, c, tree) /\ state \in States
      /\ \E k \in Nat : DOMAIN ridx[state] = 1..k
      /\ \A d \in DOMAIN ridx[state] : Written(tree, state, d)
  BY <1>1, IndexSays DEF CInv
<1>3. /\ Len(tree) \in Nat /\ digest = Len(tree) + 1 /\ Len(Append(tree, l)) = Len(tree) + 1
      /\ Append(tree, l)[Len(tree) + 1] = l /\ Grows(tree, Append(tree, l))
  BY Appended DEF CInv, TreeInv, digest
<1>4. /\ IsLeaf(l) /\ l.kind = "vote" /\ l.id = c /\ l.user = u /\ l.state = state
  BY NewLeafIs DEF CInv
<1>5. /\ IsLog(log) /\ Len(mine) \in Nat /\ Len(log) = Len(mine) + 1
      /\ log[Len(mine) + 1] = digest /\ Grows(mine, log)
  <2>1. IsLog(mine)
    <3>1. CASE u \in DOMAIN i.votes
      BY <1>2, <3>1 DEF EntryOk
    <3>2. CASE u \notin DOMAIN i.votes
      <4>1. mine = << >>
        BY <3>2
      <4>2. << >> \in Seq({1})
        OBVIOUS
      <4> QED
        BY <4>1, <4>2 DEF IsLog
    <3> QED
      BY <3>1, <3>2
  <2> HIDE DEF mine
  <2> QED
    BY <2>1, Appended
<1>6. u \in DOMAIN i.votes => mine = i.votes[u]
  OBVIOUS
<1> HIDE DEF mine, log
<1>7. /\ e = [adds |-> e.adds, del |-> e.del, votes |-> e.votes]
      /\ e.del = i.del /\ e.adds = i.adds
      /\ DOMAIN e.votes = DOMAIN i.votes \cup {u} /\ e.votes[u] = log
      /\ \A w \in DOMAIN i.votes : w # u => e.votes[w] = i.votes[w]
  <2>1. i = [adds |-> i.adds, del |-> i.del, votes |-> i.votes]
    BY <1>2 DEF EntryOk
  <2>2. PICK p : p = Put(i.votes, u, log)
    OBVIOUS
  <2>3. /\ DOMAIN p = DOMAIN i.votes \cup {u} /\ p[u] = log
        /\ \A w \in DOMAIN i.votes : w # u => p[w] = i.votes[w]
    BY <2>2 DEF Put
  <2>4. e = [i EXCEPT !.votes = p]
    BY <2>2
  <2> HIDE DEF e, i
  <2>5. e = [adds |-> i.adds, del |-> i.del, votes |-> p]
    BY <2>1, <2>4
  <2> QED
    BY <2>3, <2>5
<1> HIDE DEF l, e, i
<1>8. Fits(l, c, e)
  <2>1. LeafOk(l, Len(tree) + 1)
    <3>1. c \in Nat \ {0}
      BY <1>1, <1>2
    <3> QED
      BY <1>2, <1>4, <3>1 DEF LeafOk
  <2>2. Grounded(l, tree)
    <3>1. Written(tree, state, c) /\ \A d \in 1..(c - 1) : Written(tree, state, d)
      BY <1>1, <1>2
    <3> QED
      BY <1>4, <3>1 DEF Grounded
  <2>3. EntryOk(e, state, c, Append(tree, l))
    <3>1. EntryOk(i, state, c, Append(tree, l))
      BY <1>2, <1>3, EntryGrows
    <3> QED
      BY <1>5, <1>7, <3>1 DEF EntryOk
  <2>4. HasDigest(e, Len(tree) + 1)
    <3>1. Len(mine) + 1 \in 1..Len(log)
      BY <1>5
    <3> QED
      BY <1>3, <1>5, <1>7, <3>1 DEF HasDigest
  <2>5. ASSUME NEW n \in 1..Len(tree), HasDigest(i, n)
        PROVE  HasDigest(e, n)
    <3>1. CASE i.del = n \/ \E w \in DOMAIN i.adds : i.adds[w] = n
      BY <1>7, <3>1 DEF HasDigest
    <3>2. ASSUME NEW w \in DOMAIN i.votes, NEW j \in 1..Len(i.votes[w]), i.votes[w][j] = n
          PROVE  HasDigest(e, n)
      <4>1. CASE w = u
        <5>1. j \in 1..Len(log) /\ log[j] = n
          BY <1>5, <1>6, <3>2, <4>1 DEF Grows
        <5> QED
          BY <1>7, <5>1 DEF HasDigest
      <4>2. CASE w # u
        BY <1>7, <3>2, <4>2 DEF HasDigest
      <4> QED
        BY <4>1, <4>2
    <3> QED
      BY <2>5, <3>1, <3>2 DEF HasDigest
  <2> QED
    BY <1>1, <1>4, <2>1, <2>2, <2>3, <2>4, <2>5 DEF Fits, i
<1>9. e.del # 0 /\ e.del \notin orphans =>
        KeptOf(state, c) \/ \A w \in DOMAIN e.adds : e.adds[w] \in gone
  BY <1>1, <1>2, <1>7 DEF CInv, DelInv, i, Idle
<1> QED
  BY <1>1, <1>4, <1>7, <1>8, <1>9, SaveKeeps DEF i

LEMMA DelKeeps ==
  ASSUME CInv, NEW c, cmdDel(c)
  PROVE  CInv'
<1> DEFINE i == ridx[state][c]
           l == DelLeaf(c)
           e == [i EXCEPT !.del = digest]
<1>1. /\ \/ Saved(l, c, e) /\ deleting' = Deletes(c)
         \/ CommandLost(l)
      /\ UNCHANGED <<state, kept>> /\ Idle /\ Len(tree) + Len(late) < MaxLeaves
      /\ c \in DOMAIN ridx[state]
  BY DEF cmdDel, Ready, Other, record, commentExists, recordIndex, Saved, BlobSave, recordIndexSave
<1>2. /\ EntryOk(i, state, c, tree) /\ state \in States
      /\ \E k \in Nat : DOMAIN ridx[state] = 1..k
      /\ \A d \in DOMAIN ridx[state] : Written(tree, state, d)
  BY <1>1, IndexSays DEF CInv
<1>3. /\ Len(tree) \in Nat /\ digest = Len(tree) + 1 /\ Len(Append(tree, l)) = Len(tree) + 1
      /\ Append(tree, l)[Len(tree) + 1] = l /\ Grows(tree, Append(tree, l))
  BY Appended DEF CInv, TreeInv, digest
<1>4. /\ IsLeaf(l) /\ l.kind = "del" /\ l.id = c /\ l.ver = 0 /\ l.state = state
  BY NewLeafIs DEF CInv, DelLeaf
<1>5. /\ e = [adds |-> e.adds, del |-> e.del, votes |-> e.votes]
      /\ e.del = Len(tree) + 1 /\ e.adds = i.adds /\ e.votes = i.votes
  <2>1. i = [adds |-> i.adds, del |-> i.del, votes |-> i.votes]
    BY <1>2 DEF EntryOk
  <2> HIDE DEF i
  <2>2. e = [adds |-> i.adds, del |-> digest, votes |-> i.votes]
    BY <2>1
  <2> QED
    BY <1>3, <2>2
<1>6. Deletes(c) = {i.adds[v] : v \in DOMAIN i.adds}
  BY DEF Deletes, recordIndex
<1> HIDE DEF l, e, i
<1>7. Fits(l, c, e)
  <2>1. LeafOk(l, Len(tree) + 1)
    <3>1. c \in Nat \ {0}
      BY <1>1, <1>2
    <3> QED
      BY <1>2, <1>4, <3>1 DEF LeafOk
  <2>2. Grounded(l, tree)
    <3>1. Written(tree, state, c) /\ \A d \in 1..(c - 1) : Written(tree, state, d)
      BY <1>1, <1>2
    <3> QED
      BY <1>4, <3>1 DEF Grounded
  <2>3. EntryOk(e, state, c, Append(tree, l))
    <3>1. EntryOk(i, state, c, Append(tree, l))
      BY <1>2, <1>3, EntryGrows
    <3>2. Is(Append(tree, l), Len(tree) + 1, "del", state, c)
      BY <1>3, <1>4 DEF Is
    <3> QED
      BY <1>5, <3>1, <3>2 DEF EntryOk
  <2>4. HasDigest(e, Len(tree) + 1)
    BY <1>5 DEF HasDigest
  <2>5. ASSUME NEW n \in 1..Len(tree), HasDigest(i, n)
        PROVE  HasDigest(e, n) \/ Superseded(Append(tree, l), n)
    <3>1. CASE i.del # n
      BY <1>5, <2>5, <3>1 DEF HasDigest
    <3>2. CASE i.del = n
      <4>1. tree[n].kind = "del" /\ tree[n].state = state /\ tree[n].id = c /\ tree[n].ver = 0
        <5>1. Is(tree, n, "del", state, c) /\ LeafOk(tree[n], n)
          BY <1>2, <1>3, <3>2 DEF EntryOk, CInv, TreeInv
        <5> QED
          BY <5>1 DEF Is, LeafOk
      <4>2. Append(tree, l)[n] = tree[n]
        BY <1>3 DEF Grows
      <4>3. Len(tree) + 1 \in 1..Len(Append(tree, l)) /\ Len(tree) + 1 > n
        BY <1>3
      <4> QED
        BY <1>3, <1>4, <4>1, <4>2, <4>3 DEF Superseded
    <3> QED
      BY <3>1, <3>2
  <2> QED
    BY <1>1, <1>4, <2>1, <2>2, <2>3, <2>4, <2>5 DEF Fits, i
<1>8. CASE Saved(l, c, e) /\ deleting' = Deletes(c)
  <2>1. deleting' = {e.adds[v] : v \in DOMAIN e.adds} /\ deleting = {} /\ e.del # 0
    BY <1>1, <1>3, <1>5, <1>6, <1>8 DEF Idle
  <2>2. 1 \in DOMAIN e.adds
    BY <1>2, <1>5 DEF EntryOk
  <2>3. FitsDel(l, c, e)
    BY <2>1, <2>2 DEF FitsDel
  <2> QED
    BY <1>7, <1>8, <2>3, SavedKeeps
<1>9. CASE CommandLost(l)
  BY <1>1, <1>7, <1>9, LostKeeps DEF Fits
<1> QED
  BY <1>1, <1>8, <1>9

-----------------------------------------------------------------------------
(* Deletions, late leaves, and the other steps. *)

LEMMA BlobsDelKeeps ==
  ASSUME CInv, BlobsDel
  PROVE  CInv'
<1>1. /\ gone' \cup deleting' = gone \cup deleting
      /\ UNCHANGED <<state, tree, late, ridx, orphans, kept>>
  BY DEF BlobsDel, record, index
<1>2. TreeInv' /\ IndexInv' /\ WriteInv'
  BY <1>1 DEF CInv, TreeInv, IndexInv, WriteInv
<1>3. GoneInv'
  BY <1>1 DEF CInv, GoneInv
<1>4. DelInv'
  BY <1>1 DEF CInv, DelInv, KeptOf, GoneOf
<1> QED
  BY <1>2, <1>3, <1>4 DEF CInv

LEMMA BlobsDelErrorKeeps ==
  ASSUME CInv, BlobsDelError
  PROVE  CInv'
<1>1. /\ kept' = kept \cup (deleting \ gone) /\ deleting' = {}
      /\ UNCHANGED <<state, tree, late, gone, ridx, orphans>>
  BY DEF BlobsDelError, record, leaves, index
<1>2. deleting \subseteq 1..Len(tree)
  BY DEF CInv, GoneInv
<1>3. TreeInv'
  BY <1>1, <1>2 DEF CInv, TreeInv
<1>4. IndexInv' /\ WriteInv' /\ GoneInv'
  BY <1>1 DEF CInv, IndexInv, WriteInv, GoneInv
<1>5. ASSUME NEW d \in 1..Len(tree), tree[d].kind = "del", d \notin orphans
      PROVE  KeptOf(tree[d].state, tree[d].id)' \/ GoneOf(tree[d].state, tree[d].id)'
  <2>1. KeptOf(tree[d].state, tree[d].id) \/ GoneOf(tree[d].state, tree[d].id)
    BY <1>5 DEF CInv, DelInv
  <2> QED
    BY <1>1, <2>1 DEF KeptOf, GoneOf
<1>6. ASSUME NEW s \in States, NEW c \in DOMAIN ridx[s], ridx[s][c].del # 0,
             ridx[s][c].del \notin orphans
      PROVE  KeptOf(s, c)' \/ \A v \in DOMAIN ridx[s][c].adds : ridx[s][c].adds[v] \in gone'
  <2>1. KeptOf(s, c) => KeptOf(s, c)'
    BY <1>1 DEF KeptOf
  <2>2. CASE \A v \in DOMAIN ridx[s][c].adds : ridx[s][c].adds[v] \in gone
    BY <1>1, <2>2
  <2>3. ASSUME NEW v \in DOMAIN ridx[s][c].adds, ridx[s][c].adds[v] \in deleting \ gone
        PROVE  KeptOf(s, c)'
    <3>1. tree[ridx[s][c].adds[v]].id = c /\ tree[ridx[s][c].adds[v]].state = s
      BY DEF CInv, IndexInv, EntryOk, Is
    <3> QED
      BY <1>1, <2>3, <3>1 DEF KeptOf
  <2> QED
    BY <1>6, <2>1, <2>2, <2>3 DEF CInv, DelInv
<1> QED
  BY <1>1, <1>3, <1>4, <1>5, <1>6 DEF CInv, DelInv

LEMMA IntegrateKeeps ==
  ASSUME CInv, Integrate
  PROVE  CInv'
<1> DEFINE l == late[1]
<1>1. /\ IsLog(late) /\ IsLog(late') /\ Len(late) \in Nat /\ Len(late) # 0
      /\ Len(late') = Len(late) - 1 /\ tree' = Append(tree, l)
      /\ \A i \in 1..Len(late') : late'[i] = late[i + 1]
  <2>1. PICK S : late \in Seq(S)
    BY DEF CInv, TreeInv, IsLog
  <2>2. late # << >> /\ late' = Tail(late) /\ tree' = Append(tree, Head(late))
    BY DEF Integrate
  <2>3. /\ Tail(late) \in Seq(S) /\ Len(late) \in Nat /\ Len(late) # 0
        /\ Len(Tail(late)) = Len(late) - 1 /\ Head(late) = late[1]
        /\ \A i \in 1..Len(Tail(late)) : Tail(late)[i] = late[i + 1]
    BY <2>1, <2>2
  <2> QED
    BY <2>1, <2>2, <2>3 DEF IsLog
<1>2. /\ orphans' = orphans \cup {Len(tree) + 1}
      /\ UNCHANGED <<state, gone, ridx, deleting, kept>>
  BY DEF Integrate, digest, record, index
<1>3. /\ Len(tree) \in Nat /\ Len(tree') = Len(tree) + 1
      /\ \A n \in 1..Len(tree) : n \in 1..Len(tree') /\ tree'[n] = tree[n]
  BY <1>1, Appended DEF CInv, TreeInv, Grows
<1> HIDE DEF l
<1>4. TreeInv' /\ Grows(tree, tree')
  <2>1. LeafOk(l, Len(tree) + 1) /\ Grounded(l, tree)
    BY <1>1 DEF CInv, TreeInv, l
  <2>2. Len(tree) + 1 + Len(late') <= MaxLeaves
    BY <1>1, <1>3, ConstantsAssumption DEF CInv, TreeInv
  <2>3. \A i \in 1..Len(late') : \E j \in 1..Len(late) : j <= i + 1 /\ late'[i] = late[j]
    <3> TAKE i \in 1..Len(late')
    <3>1. i + 1 \in 1..Len(late) /\ i + 1 <= i + 1
      BY <1>1
    <3> QED
      BY <1>1, <3>1
  <2> QED
    BY <1>1, <1>2, <2>1, <2>2, <2>3, TreeGrows DEF CInv
<1>5. IndexInv'
  <2>1. ASSUME NEW s \in States, NEW c \in DOMAIN ridx[s]
        PROVE  EntryOk(ridx[s][c], s, c, tree')
    <3>1. EntryOk(ridx[s][c], s, c, tree)
      BY DEF CInv, IndexInv
    <3> QED
      BY <1>4, <3>1, EntryGrows
  <2> QED
    BY <1>2, <2>1 DEF CInv, IndexInv
<1>6. GoneInv'
  BY <1>2, <1>3 DEF CInv, GoneInv
<1>7. WriteInv'
  <2> SUFFICES ASSUME NEW n \in 1..Len(tree'), n \notin orphans'
               PROVE  InIndex(ridx'[tree'[n].state], n) \/ Superseded(tree', n)
    BY DEF WriteInv
  <2>1. n \in 1..Len(tree) /\ n \notin orphans
    BY <1>2, <1>3
  <2>2. InIndex(ridx[tree[n].state], n) \/ Superseded(tree, n)
    BY <2>1 DEF CInv, WriteInv
  <2> QED
    BY <1>2, <1>3, <1>4, <2>1, <2>2, SupersededGrows
<1>8. DelInv'
  <2>1. \A n \in kept \cup gone \cup deleting : n \in 1..Len(tree)
    BY DEF CInv, TreeInv, GoneInv
  <2>2. \A s, c : KeptOf(s, c) => \E n \in kept' : tree'[n].id = c /\ tree'[n].state = s
    BY <1>2, <1>3, <2>1 DEF KeptOf
  <2>3. \A s, c : GoneOf(s, c) => \E n \in gone' \cup deleting' : tree'[n].id = c /\ tree'[n].state = s
    BY <1>2, <1>3, <2>1 DEF GoneOf
  <2>4. ASSUME NEW d \in 1..Len(tree'), tree'[d].kind = "del", d \notin orphans'
        PROVE  KeptOf(tree[d].state, tree[d].id)' \/ GoneOf(tree[d].state, tree[d].id)'
    <3>1. d \in 1..Len(tree) /\ d \notin orphans /\ tree'[d] = tree[d]
      BY <1>2, <1>3, <2>4
    <3>2. KeptOf(tree[d].state, tree[d].id) \/ GoneOf(tree[d].state, tree[d].id)
      BY <2>4, <3>1 DEF CInv, DelInv
    <3> QED
      BY <2>2, <2>3, <3>1, <3>2 DEF KeptOf, GoneOf
  <2>5. ASSUME NEW s \in States, NEW c \in DOMAIN ridx'[s],
               ridx'[s][c].del # 0, ridx'[s][c].del \notin orphans'
        PROVE  \/ KeptOf(s, c)'
               \/ \A v \in DOMAIN ridx'[s][c].adds : ridx'[s][c].adds[v] \in gone' \cup deleting'
    <3>1. c \in DOMAIN ridx[s] /\ ridx[s][c].del # 0 /\ ridx[s][c].del \notin orphans
      BY <1>2, <2>5
    <3>2. KeptOf(s, c) \/ \A v \in DOMAIN ridx[s][c].adds : ridx[s][c].adds[v] \in gone \cup deleting
      BY <3>1 DEF CInv, DelInv
    <3>3. KeptOf(s, c) => KeptOf(s, c)'
      BY <2>2 DEF KeptOf
    <3> QED
      BY <1>2, <3>2, <3>3
  <2> QED
    BY <2>4, <2>5 DEF DelInv
<1> QED
  BY <1>4, <1>5, <1>6, <1>7, <1>8 DEF CInv

\* A finite set of comment IDs without a gap.
LEMMA InitialSegment ==
  ASSUME NEW S, IsFiniteSet(S), \A n \in S : n \in Nat \ {0} /\ 1..n \subseteq S
  PROVE  \E k \in Nat : S = 1..k
<1>1. PICK z \in Nat : z = Cardinality(S)
  BY FS_CardinalityType
<1>2. PICK j \in 1..(z + 1) : j \notin S
  <2>1. IsFiniteSet(1..(z + 1)) /\ Cardinality(1..(z + 1)) = z + 1
    <3>1. IsFiniteSet(1..(z + 1))
          /\ Cardinality(1..(z + 1)) = IF 1 > z + 1 THEN 0 ELSE (z + 1) - 1 + 1
      BY FS_Interval
    <3> QED
      BY <3>1
  <2>2. 1..(z + 1) \subseteq S => z + 1 <= z
    BY <1>1, <2>1, FS_Subset
  <2> QED
    BY <2>2
<1>3. S \subseteq 0..z
  <2> SUFFICES ASSUME NEW n \in S PROVE n \in 0..z
    OBVIOUS
  <2>1. n \in Nat /\ j \notin 1..n
    BY <1>2
  <2> QED
    BY <1>2, <2>1
<1>4. CASE S = {}
  BY <1>4
<1>5. CASE S # {}
  <2>1. PICK k \in S : \A m \in S : m <= k
    BY <1>3, <1>5, Greatest
  <2>2. k \in Nat /\ 1..k \subseteq S
    OBVIOUS
  <2>3. \A m \in S : m \in Nat \ {0}
    OBVIOUS
  <2>4. S \subseteq 1..k
    BY <2>1, <2>2, <2>3
  <2> QED
    BY <2>2, <2>4
<1> QED
  BY <1>4, <1>5

\* The index that the file system check makes of a comment in the tree.
LEMMA RebuiltIs ==
  ASSUME TreeInv, NEW c \in Nat \ {0}, Written(tree, state, c)
  PROVE  LET e == Rebuilt(c)
         IN  /\ EntryOk(e, state, c, tree)
             /\ \A n \in 1..Len(tree) :
                  tree[n].state = state /\ tree[n].id = c => HasDigest(e, n) \/ Superseded(tree, n)
<1> DEFINE N == Len(tree)
           adds(v) == {n \in Current("add") : Leaf(n).id = c /\ Leaf(n).ver = v}
           votes(u) == {n \in Current("vote") : Leaf(n).id = c /\ Leaf(n).user = u}
           dels == {n \in Current("del") : Leaf(n).id = c}
           vers == {v \in 1..MaxLeaves : adds(v) # {}}
           voters == {u \in Users : votes(u) # {}}
           a == [v \in vers |-> LastLeaf(adds(v))]
           d == LastLeaf(dels)
           b == [u \in voters |-> InTreeOrder(votes(u))]
           e == [adds |-> a, del |-> d, votes |-> b]
<1>1. Rebuilt(c) = e
  BY DEF Rebuilt
<1>2. N \in Nat /\ DOMAIN tree = 1..N /\ MaxLeaves \in Nat /\ N <= MaxLeaves
  <2>1. IsLog(tree) /\ IsLog(late) /\ Len(tree) + Len(late) <= MaxLeaves
    BY DEF TreeInv
  <2>2. Len(tree) \in Nat /\ Len(late) \in Nat /\ DOMAIN tree = 1..Len(tree)
    BY <2>1, LogDomain
  <2> QED
    BY <2>1, <2>2, ConstantsAssumption
<1>3. \A n \in 1..N : LeafOk(tree[n], n)
  BY DEF TreeInv
<1>4. \A kind, n : n \in Current(kind) <=> n \in 1..N /\ tree[n].kind = kind /\ tree[n].state = state
  BY <1>2 DEF Current, Leaf
<1> HIDE DEF N
<1>5. \A v, n : n \in adds(v) <=> Is(tree, n, "add", state, c) /\ tree[n].ver = v
  BY <1>4 DEF Is, Leaf, N
<1>6. \A n : n \in dels <=> Is(tree, n, "del", state, c)
  BY <1>4 DEF Is, Leaf, N
<1>7. \A u, n : n \in votes(u) <=> Is(tree, n, "vote", state, c) /\ tree[n].user = u
  BY <1>4 DEF Is, Leaf, N
<1>8. ASSUME NEW n \in 1..N, Is(tree, n, "add", state, c)
      PROVE  tree[n].ver \in vers /\ n \in adds(tree[n].ver)
  <2>1. tree[n].ver \in 1..n
    BY <1>3, <1>8 DEF LeafOk, Is
  <2>2. tree[n].ver \in 1..MaxLeaves
    BY <1>2, <2>1
  <2> QED
    BY <1>5, <1>8, <2>2
<1>9. ASSUME NEW v \in vers
      PROVE  /\ a[v] \in adds(v) /\ \A n \in adds(v) : n <= a[v]
  <2>0. adds(v) # {}
    OBVIOUS
  <2>1. adds(v) \subseteq 0..N /\ adds(v) # {}
    <3> HIDE DEF a, adds, vers
    <3> QED
      BY <1>2, <1>5, <2>0 DEF Is, N
  <2>2. a[v] = Max0(adds(v))
    BY DEF LastLeaf
  <2> HIDE DEF a, adds, vers
  <2> QED
    BY <1>2, <2>1, <2>2, Max0Is
<1>10. /\ d = 0 \/ d \in dels
       /\ \A n \in dels : n <= d
  <2>1. dels \subseteq 0..N
    BY <1>2, <1>6 DEF Is, N
  <2>2. d = Max0(dels)
    BY DEF LastLeaf
  <2> HIDE DEF d, dels
  <2> QED
    BY <1>2, <2>1, <2>2, Max0Is
<1>11. ASSUME NEW u \in voters
       PROVE  /\ IsLog(b[u])
              /\ \A n \in votes(u) : \E i \in 1..Len(b[u]) : b[u][i] = n
  <2>1. votes(u) \subseteq 1..N
    BY <1>7 DEF Is, N
  <2>2. b[u] = InTreeOrder(votes(u))
    OBVIOUS
  <2> HIDE DEF b, votes, voters
  <2> QED
    BY <1>2, <2>1, <2>2, InTreeOrderIs
<1>12. DOMAIN a = vers /\ DOMAIN b = voters /\ e.adds = a /\ e.del = d /\ e.votes = b
       /\ e = [adds |-> e.adds, del |-> e.del, votes |-> e.votes]
  OBVIOUS
<1>13. voters = {u \in Users : votes(u) # {}}
  OBVIOUS
<1> HIDE DEF e, a, b, d, adds, votes, dels, vers, voters
<1>14. EntryOk(e, state, c, tree)
  <2>1. 1 \in vers
    <3>1. PICK n \in 1..N : Is(tree, n, "add", state, c) /\ tree[n].ver = 1
      BY DEF Written, Is, N
    <3> QED
      BY <1>8, <3>1
  <2>2. \A v \in vers : Is(tree, a[v], "add", state, c) /\ tree[a[v]].ver = v
    BY <1>5, <1>9
  <2>3. d = 0 \/ Is(tree, d, "del", state, c)
    BY <1>6, <1>10
  <2> QED
    BY <1>11, <1>12, <2>1, <2>2, <2>3 DEF EntryOk
<1>15. ASSUME NEW n \in 1..N, tree[n].state = state, tree[n].id = c
       PROVE  HasDigest(e, n) \/ Superseded(tree, n)
  <2>1. tree[n].kind \in {"add", "del", "vote"}
    BY <1>3 DEF LeafOk
  <2>2. CASE tree[n].kind = "add"
    <3>1. tree[n].ver \in vers /\ n \in adds(tree[n].ver)
      BY <1>8, <1>15, <2>2 DEF Is, N
    <3>2. PICK m : m = a[tree[n].ver]
      OBVIOUS
    <3>3. m \in adds(tree[n].ver) /\ n <= m
      BY <1>9, <3>1, <3>2
    <3>4. Is(tree, m, "add", state, c) /\ tree[m].ver = tree[n].ver
      BY <1>5, <3>3
    <3>5. CASE m = n
      BY <1>12, <3>1, <3>2, <3>5 DEF HasDigest
    <3>6. CASE m # n
      BY <1>2, <1>15, <2>2, <3>3, <3>4, <3>6 DEF Superseded, Is, N
    <3> QED
      BY <3>5, <3>6
  <2>3. CASE tree[n].kind = "del"
    <3>1. n \in dels
      BY <1>6, <1>15, <2>3 DEF Is, N
    <3>2. CASE d = n
      BY <1>12, <3>2 DEF HasDigest
    <3>3. CASE d # n
      <4>1. d \in dels /\ n <= d
        BY <1>2, <1>10, <3>1
      <4>2. Is(tree, d, "del", state, c)
        BY <1>6, <4>1
      <4>3. tree[d].ver = 0 /\ tree[n].ver = 0
        BY <1>3, <2>3, <4>2 DEF LeafOk, Is, N
      <4> QED
        BY <1>2, <1>15, <2>3, <3>3, <4>1, <4>2, <4>3 DEF Superseded, Is, N
    <3> QED
      BY <3>2, <3>3
  <2>4. CASE tree[n].kind = "vote"
    <3>1. tree[n].user \in Users
      BY <1>3, <2>4 DEF LeafOk
    <3>2. n \in votes(tree[n].user)
      BY <1>7, <1>15, <2>4 DEF Is, N
    <3>3. tree[n].user \in voters
      BY <1>13, <3>1, <3>2
    <3> QED
      BY <1>11, <1>12, <3>2, <3>3 DEF HasDigest
  <2> QED
    BY <2>1, <2>2, <2>3, <2>4
<1> QED
  BY <1>1, <1>14, <1>15 DEF N

\* The file system check rebuilds the index.
fsckSaved ==
  /\ Idle /\ CanRebuild
  /\ ridx' = [ridx EXCEPT ![state] =
       [c \in {Leaf(n).id : n \in Current("add") \cup Current("del")} |-> Rebuilt(c)]]
  /\ UNCHANGED <<record, leaves, deleting, orphans, kept>>

LEMMA FsckIs ==
  fsckRecordIndex => fsckSaved \/ UNCHANGED <<record, leaves, ridx, deleting, orphans, kept>>
BY DEF fsckRecordIndex, fsckSaved, history

LEMMA FsckKeeps ==
  ASSUME CInv, fsckSaved
  PROVE  CInv'
<1> DEFINE ids == {Leaf(n).id : n \in Current("add") \cup Current("del")}
           x == [c \in ids |-> Rebuilt(c)]
<1>1. /\ ridx' = [ridx EXCEPT ![state] = x] /\ deleting = {} /\ CanRebuild
      /\ UNCHANGED <<state, tree, late, gone, deleting, orphans, kept>>
  BY DEF fsckSaved, Idle, record, leaves
<1>2. TreeInv /\ TreeInv' /\ state \in States
  BY <1>1 DEF CInv, TreeInv
<1>3. IsLog(tree) /\ Len(tree) \in Nat /\ DOMAIN tree = 1..Len(tree)
  BY <1>2, LogDomain DEF TreeInv
<1>4. \A kind, n : n \in Current(kind) <=>
        n \in 1..Len(tree) /\ tree[n].kind = kind /\ tree[n].state = state
  BY <1>3 DEF Current, Leaf
<1>5. \A n \in 1..Len(tree) : LeafOk(tree[n], n) /\ Grounded(tree[n], tree)
  BY <1>2 DEF TreeInv
<1>6. \A c : c \in ids <=>
        \E n \in 1..Len(tree) : tree[n].kind \in {"add", "del"} /\ tree[n].state = state /\ tree[n].id = c
  BY <1>4 DEF Leaf
<1>7. DOMAIN x = ids /\ \A c \in ids : x[c] = Rebuilt(c)
  OBVIOUS
<1>8. IsFiniteSet(ids)
  <2>1. IsFiniteSet(1..Len(tree))
    BY <1>3, FS_Interval
  <2>2. Current("add") \cup Current("del") \subseteq 1..Len(tree)
    BY <1>4
  <2>3. PICK T : T = Current("add") \cup Current("del") /\ IsFiniteSet(T)
    BY <2>1, <2>2, FS_Subset
  <2>4. PICK f : f = [n \in T |-> Leaf(n).id]
    OBVIOUS
  <2>5. f \in Surjection(T, ids)
    BY <2>3, <2>4 DEF Surjection
  <2> QED
    BY <2>3, <2>5, FS_Surjection DEF ExistsSurjection
<1> HIDE DEF ids, x
<1>9. ASSUME NEW c \in ids
      PROVE  c \in Nat \ {0} /\ Written(tree, state, c) /\ 1..c \subseteq ids
  <2>1. PICK n \in 1..Len(tree) :
          tree[n].kind \in {"add", "del"} /\ tree[n].state = state /\ tree[n].id = c
    BY <1>6
  <2>2. c \in Nat \ {0}
    BY <1>5, <2>1 DEF LeafOk
  <2>3. Written(tree, state, c)
    BY <1>5, <2>1 DEF Grounded, Written
  <2>4. \A d \in 1..c : Written(tree, state, d)
    BY <1>5, <2>1, <2>2, <2>3 DEF Grounded
  <2>5. \A d \in 1..c : d \in ids
    BY <1>6, <2>4 DEF Written
  <2> QED
    BY <2>2, <2>3, <2>5
<1>10. \E k \in Nat : ids = 1..k
  BY <1>8, <1>9, InitialSegment
<1>11. \A c \in ids : EntryOk(x[c], state, c, tree)
  BY <1>2, <1>7, <1>9, RebuiltIs
<1>12. ASSUME NEW c \in ids, NEW n \in 1..Len(tree), tree[n].state = state, tree[n].id = c
       PROVE  HasDigest(x[c], n) \/ Superseded(tree, n)
  BY <1>2, <1>7, <1>9, <1>12, RebuiltIs
\* Nothing of the current state is gone.
<1>13. \A n \in gone : n \in 1..Len(tree) /\ tree[n].state # state
  <2>1. \A n \in gone : n \in 1..Len(tree)
    BY DEF CInv, GoneInv
  <2> QED
    BY <1>1, <1>3, <2>1 DEF CanRebuild, Stored, Leaf
<1>14. /\ ridx' = [s \in States |-> ridx'[s]] /\ ridx'[state] = x
       /\ \A s \in States : s # state => ridx'[s] = ridx[s]
  BY <1>1, <1>2 DEF CInv, IndexInv
<1>15. IndexInv'
  <2>1. ASSUME NEW s \in States
        PROVE  /\ \E k \in Nat : DOMAIN ridx'[s] = 1..k
               /\ \A c \in DOMAIN ridx'[s] : EntryOk(ridx'[s][c], s, c, tree')
    <3>1. CASE s = state
      BY <1>1, <1>7, <1>10, <1>11, <1>14, <3>1
    <3>2. CASE s # state
      BY <1>1, <1>14, <3>2 DEF CInv, IndexInv
    <3> QED
      BY <3>1, <3>2
  <2> QED
    BY <1>14, <2>1 DEF IndexInv
<1>16. GoneInv'
  <2>1. ASSUME NEW n \in gone
        PROVE  /\ n \in 1..Len(tree) /\ tree[n].kind = "add"
               /\ tree[n].id \in DOMAIN ridx'[tree[n].state]
               /\ ridx'[tree[n].state][tree[n].id].del # 0
    <3>1. tree[n].state \in States /\ tree[n].state # state
      BY <1>5, <1>13 DEF LeafOk
    <3> QED
      BY <1>14, <3>1 DEF CInv, GoneInv
  <2> QED
    BY <1>1, <2>1 DEF GoneInv
<1>17. WriteInv'
  <2> SUFFICES ASSUME NEW n \in 1..Len(tree), n \notin orphans
               PROVE  InIndex(ridx'[tree[n].state], n) \/ Superseded(tree, n)
    BY <1>1 DEF WriteInv
  <2>1. CASE tree[n].state # state
    <3>1. tree[n].state \in States
      BY <1>5 DEF LeafOk
    <3> QED
      BY <1>14, <2>1, <3>1 DEF CInv, WriteInv
  <2>2. CASE tree[n].state = state
    <3>1. tree[n].id \in ids
      <4>1. CASE tree[n].kind = "vote"
        <5>1. n \in Current("vote")
          BY <1>4, <2>2, <4>1
        <5>2. PICK m \in Current("add") \cup Current("del") : Leaf(m).id = Leaf(n).id
          BY <1>1, <5>1 DEF CanRebuild
        <5> QED
          BY <1>4, <1>6, <5>2 DEF Leaf
      <4>2. CASE tree[n].kind # "vote"
        BY <1>5, <1>6, <2>2, <4>2 DEF LeafOk
      <4> QED
        BY <4>1, <4>2
    <3>2. HasDigest(x[tree[n].id], n) \/ Superseded(tree, n)
      BY <1>12, <2>2, <3>1
    <3> QED
      BY <1>7, <1>14, <2>2, <3>1, <3>2 DEF InIndex
  <2> QED
    BY <2>1, <2>2
<1>18. DelInv'
  <2>1. ASSUME NEW d \in 1..Len(tree), tree[d].kind = "del", d \notin orphans
        PROVE  KeptOf(tree[d].state, tree[d].id)' \/ GoneOf(tree[d].state, tree[d].id)'
    BY <1>1, <2>1 DEF CInv, DelInv, KeptOf, GoneOf
  <2>2. ASSUME NEW s \in States, NEW c \in DOMAIN ridx'[s],
               ridx'[s][c].del # 0, ridx'[s][c].del \notin orphans
        PROVE  \/ KeptOf(s, c)'
               \/ \A v \in DOMAIN ridx'[s][c].adds : ridx'[s][c].adds[v] \in gone' \cup deleting'
    <3>1. KeptOf(s, c) => KeptOf(s, c)'
      BY <1>1 DEF KeptOf
    <3>2. CASE s # state
      <4>1. KeptOf(s, c) \/ \A v \in DOMAIN ridx[s][c].adds : ridx[s][c].adds[v] \in gone \cup deleting
        BY <1>14, <2>2, <3>2 DEF CInv, DelInv
      <4> QED
        BY <1>1, <1>14, <3>1, <3>2, <4>1
    <3>3. CASE s = state
      <4>1. PICK d : d = x[c].del
        OBVIOUS
      <4>2. d # 0 /\ d \notin orphans /\ EntryOk(x[c], state, c, tree)
        BY <1>7, <1>11, <1>14, <2>2, <3>3, <4>1
      <4>3. d \in 1..Len(tree) /\ tree[d].kind = "del" /\ tree[d].state = state /\ tree[d].id = c
        BY <4>1, <4>2 DEF EntryOk, Is
      <4>4. KeptOf(state, c) \/ GoneOf(state, c)
        BY <4>2, <4>3 DEF CInv, DelInv
      <4>5. ~GoneOf(state, c)
        BY <1>1, <1>13 DEF GoneOf
      <4> QED
        BY <3>1, <3>3, <4>4, <4>5
    <3> QED
      BY <3>2, <3>3
  <2> QED
    BY <1>1, <2>1, <2>2 DEF DelInv
<1> QED
  BY <1>2, <1>15, <1>16, <1>17, <1>18 DEF CInv

-----------------------------------------------------------------------------
(* Theorems. *)

LEMMA InitHolds == Init => CInv
<1> SUFFICES ASSUME Init PROVE CInv
  OBVIOUS
<1>1. IsLog(tree) /\ IsLog(late) /\ Len(tree) = 0 /\ Len(late) = 0
  <2>1. << >> \in Seq({1}) /\ Len(<< >>) = 0
    OBVIOUS
  <2> QED
    BY <2>1 DEF Init, IsLog
<1>2. TreeInv
  BY <1>1, ConstantsAssumption DEF Init, TreeInv, States
<1>3. \A s \in States : ridx[s] = NoIndex /\ DOMAIN ridx[s] = {}
  BY DEF Init, NoIndex
<1>4. IndexInv
  <2>1. {} = 1..0
    OBVIOUS
  <2> QED
    BY <1>3, <2>1 DEF Init, IndexInv
<1>5. GoneInv /\ WriteInv /\ DelInv
  BY <1>1, <1>3 DEF Init, GoneInv, WriteInv, DelInv
<1> QED
  BY <1>2, <1>4, <1>5 DEF CInv

LEMMA NextKeeps == CInv /\ [Next]_vars => CInv'
<1> SUFFICES ASSUME CInv, [Next]_vars PROVE CInv'
  OBVIOUS
<1>1. ASSUME NEW u \in Users, NEW in \in NewInputs, cmdNew(u, in[1], in[2]) PROVE CInv'
  BY <1>1, NewKeeps
<1>2. ASSUME NEW c \in CommentIDs, cmdEdit(c) PROVE CInv'
  BY <1>2, EditKeeps
<1>3. ASSUME NEW c \in CommentIDs, cmdDel(c) PROVE CInv'
  BY <1>3, DelKeeps
<1>4. ASSUME NEW c \in CommentIDs, NEW u \in Users, NEW v \in {1, -1}, cmdVote(c, u, v) PROVE CInv'
  BY <1>4, VoteKeeps
<1>5. CASE BlobsDel \/ BlobsDelError \/ Integrate
  BY <1>5, BlobsDelKeeps, BlobsDelErrorKeeps, IntegrateKeeps
<1>6. CASE /\ UNCHANGED <<tree, late, gone, ridx, deleting, orphans, kept>>
           /\ state' \in States
  <2>1. TreeInv'
    BY <1>6 DEF CInv, TreeInv
  <2> QED
    BY <1>6, <2>1, RestKept
<1>7. state \in States
  BY DEF CInv, TreeInv
<1>8. ASSUME NEW c \in CommentIDs, NEW b \in BOOLEAN, cmdTimestamps(c, b) PROVE CInv'
  BY <1>6, <1>7, <1>8 DEF cmdTimestamps, record, leaves, index, history
<1>9. CASE AnchorTree
  BY <1>6, <1>7, <1>9 DEF AnchorTree, record, leaves, index, history
<1>10. CASE MakePublic \/ VoteEnds
  BY <1>6, <1>7, <1>10 DEF MakePublic, VoteEnds, RestUnchanged, leaves, index, history, States
<1>11. ASSUME NEW s \in BillingStatuses, cmdSetBillingStatus(s) PROVE CInv'
  BY <1>6, <1>7, <1>11 DEF cmdSetBillingStatus, RestUnchanged, leaves, index, history
<1>12. CASE UNCHANGED vars
  BY <1>6, <1>7, <1>12 DEF vars, record, leaves, index, history
<1>13. CASE fsckRecordIndex
  BY <1>6, <1>7, <1>13, FsckIs, FsckKeeps DEF record, leaves
<1> QED
  BY <1>1, <1>2, <1>3, <1>4, <1>5, <1>8, <1>9, <1>10, <1>11, <1>12, <1>13 DEF Next

\* The tree, the index of each state and the store agree with each other,
\* whichever saves fail or are integrated late, wherever politeiad stops and
\* whenever it checks the file system (cmdNew, cmdEdit, cmdDel, cmdVote,
\* fsckRecordIndex); of a file that a stop has cut off (_recordIndexSave) it is
\* the contents before that which agree.
THEOREM CommentsAreSound == Spec => []CInv
<1>1. Init => CInv
  BY InitHolds
<1>2. CInv /\ [Next]_vars => CInv'
  BY NextKeeps
<1> QED
  BY <1>1, <1>2, PTL DEF Spec

LEMMA WritesIndexed == CInv => WritesAreIndexed
<1> SUFFICES ASSUME CInv, NEW n \in DOMAIN tree, tree[n].state = state, n \notin orphans,
                    IndexDecodes
             PROVE  \/ n \in Indexed
                    \/ Superseded(tree, n)
  <2>1. DOMAIN tree = 1..Len(tree)
    BY LogDomain DEF CInv, TreeInv
  <2> QED
    BY <2>1 DEF WritesAreIndexed, Leaf, Superseded
<1>1. n \in 1..Len(tree)
  BY LogDomain DEF CInv, TreeInv
<1>2. CASE Superseded(tree, n)
  BY <1>2
<1>3. ASSUME NEW c \in DOMAIN ridx[state], HasDigest(ridx[state][c], n)
      PROVE  n \in Indexed
  <2>1. n \in Digests(c, TRUE)
    <3>1. CASE \E v \in DOMAIN ridx[state][c].adds : ridx[state][c].adds[v] = n
      BY <3>1 DEF Digests, Deletes, recordIndex
    <3>2. CASE ridx[state][c].del = n
      <4>1. n # 0
        BY <1>1
      <4> QED
        BY <3>2, <4>1 DEF Digests, recordIndex
    <3>3. ASSUME NEW u \in DOMAIN ridx[state][c].votes,
                 NEW i \in 1..Len(ridx[state][c].votes[u]), ridx[state][c].votes[u][i] = n
          PROVE  n \in Digests(c, TRUE)
      <4>1. state \in States /\ IsLog(ridx[state][c].votes[u])
        BY DEF CInv, TreeInv, IndexInv, EntryOk
      <4>2. DOMAIN ridx[state][c].votes[u] = 1..Len(ridx[state][c].votes[u])
        BY <4>1, LogDomain
      <4>3. n \in Range(ridx[state][c].votes[u])
        BY <3>3, <4>2 DEF Range
      <4> QED
        BY <4>3 DEF Digests, recordIndex
    <3> QED
      BY <1>3, <3>1, <3>2, <3>3 DEF HasDigest
  <2> QED
    BY <2>1 DEF Indexed, recordIndex
<1> QED
  BY <1>1, <1>2, <1>3 DEF CInv, WriteInv, InIndex

\* An acknowledged write stays in the record index of its state, whatever fails
\* later and whenever the index is rebuilt (rebuildRecordIndex), unless a later
\* leaf took the place of the leaf or the file of the index was cut off by a
\* stop (_recordIndexSave).
THEOREM WritesStayIndexed == Spec => []WritesAreIndexed
BY CommentsAreSound, WritesIndexed, PTL

LEMMA NoGaps ==
  ASSUME CInv
  PROVE  DOMAIN recordIndex = 1..Cardinality(DOMAIN recordIndex)
<1>1. state \in States
  BY DEF CInv, TreeInv
<1>2. PICK k \in Nat : DOMAIN recordIndex = 1..k
  BY <1>1 DEF CInv, IndexInv, recordIndex
<1>3. Cardinality(1..k) = IF 1 > k THEN 0 ELSE k - 1 + 1
  BY FS_Interval
<1>4. Cardinality(1..k) = k
  BY <1>3
<1> QED
  BY <1>2, <1>4

LEMMA Readable == CInv => CommentsAreReadable
<1> SUFFICES ASSUME CInv PROVE CommentsAreReadable
  OBVIOUS
<1>1. state \in States /\ DOMAIN tree = 1..Len(tree)
  BY LogDomain DEF CInv, TreeInv
<1>2. ASSUME NEW c \in DOMAIN ridx[state]
      PROVE  CanRead(c)
  <2> DEFINE e == ridx[state][c]
  <2>1. EntryOk(e, state, c, tree)
    BY <1>1 DEF CInv, IndexInv
  <2>2. CASE e.del # 0
    <3>1. e.del \in 1..Len(tree) /\ tree[e.del].kind = "del"
      BY <2>1, <2>2 DEF EntryOk, Is
    <3>2. e.del \notin gone
      BY <3>1 DEF CInv, GoneInv
    <3> QED
      BY <1>1, <2>2, <3>1, <3>2 DEF CanRead, Needed, Stored, Deleted, recordIndex
  <2>3. CASE e.del = 0
    <3>1. \A v \in DOMAIN e.adds : Stored(e.adds[v])
      <4> TAKE v \in DOMAIN e.adds
      <4>1. e.adds[v] \in 1..Len(tree) /\ tree[e.adds[v]].state = state /\ tree[e.adds[v]].id = c
        BY <2>1 DEF EntryOk, Is
      <4>2. e.adds[v] \notin gone
        BY <2>3, <4>1 DEF CInv, GoneInv
      <4> QED
        BY <1>1, <4>1, <4>2 DEF Stored
    <3>2. commentVersionLatest(e) \in DOMAIN e.adds /\ 1 \in DOMAIN e.adds
      BY <2>1, LatestIs DEF EntryOk, CInv
    <3>3. Needed(c) = {e.adds[commentVersionLatest(e)], e.adds[1]}
      BY <2>3 DEF Needed, Deleted, recordIndex
    <3> QED
      BY <3>1, <3>2, <3>3 DEF CanRead
  <2> QED
    BY <2>2, <2>3
<1> QED
  BY <1>2, NoGaps DEF CommentsAreReadable, cmdGetAllSucceeds, recordIndex

\* As long as no stop has cut off the file of the index (_recordIndexSave), every
\* comment can be read, and so cmdGetAll succeeds, between the steps of a
\* deletion and after an edit of a deleted comment too; and the comment IDs have
\* no gap (collectVoteDigestsPage).
THEOREM CommentsCanBeRead == Spec => []CommentsAreReadable
BY CommentsAreSound, Readable, PTL

\* A timestamp that is cached with its data was final, so its leaf was anchored
\* before the data was deleted.
StampInv ==
  /\ anchored \in 0..Len(tree)
  /\ \A c \in CommentIDs : \A t \in stamps[c] :
       (t.digest \in Int => t.digest <= anchored) /\ (t.digest \in bare => ~t.data)
  /\ bare \subseteq gone

LEMMA StampsStay ==
  ASSUME StampInv, UNCHANGED <<anchored, stamps, bare>>, gone \subseteq gone',
         Len(tree') \in Nat, Len(tree) \in Nat, Len(tree) <= Len(tree')
  PROVE  StampInv'
BY DEF StampInv

\* What is cached of a comment is final.
LEMMA StampsCached ==
  ASSUME CInv, StampInv, NEW c \in CommentIDs, NEW b, cmdTimestamps(c, b)
  PROVE  StampInv'
<1>1. UNCHANGED <<tree, anchored, gone, bare>>
  BY DEF cmdTimestamps, leaves, history
<1>2. ASSUME NEW t \in finalCommentTimestamps(c, b)
      PROVE  (t.digest \in Int => t.digest <= anchored) /\ (t.digest \in bare => ~t.data)
  <2>1. t.final
    BY DEF finalCommentTimestamps
  <2>2. PICK n : t = timestamp(c, n)
    BY DEF finalCommentTimestamps, commentTimestamps
  <2>3. CASE \E x \in stamps[c] : x.digest = n
    <3>1. t \in stamps[c]
      BY <2>2, <2>3 DEF timestamp
    <3> QED
      BY <3>1 DEF StampInv
  <2>4. CASE ~ \E x \in stamps[c] : x.digest = n
    <3>1. t = [digest |-> n, data |-> Stored(n), final |-> n <= anchored]
      BY <2>2, <2>4 DEF timestamp
    <3>2. t.digest = n /\ t.data = Stored(n) /\ t.final = (n <= anchored)
      BY <3>1
    <3>3. t.digest \in bare => ~t.data
      BY <3>2 DEF StampInv, Stored
    <3> QED
      BY <2>1, <3>2, <3>3
  <2> QED
    BY <2>3, <2>4
<1>3. PICK final : /\ final = finalCommentTimestamps(c, b)
                   /\ stamps' = [stamps EXCEPT ![c] = final]
  BY DEF cmdTimestamps
<1>4. ASSUME NEW d \in CommentIDs, NEW t \in stamps'[d]
      PROVE  (t.digest \in Int => t.digest <= anchored) /\ (t.digest \in bare => ~t.data)
  <2>1. CASE d = c /\ c \in DOMAIN stamps
    BY <1>2, <1>3, <2>1
  <2>2. CASE d # c \/ c \notin DOMAIN stamps
    <3>1. stamps'[d] = stamps[d]
      BY <1>3, <2>2
    <3> QED
      BY <3>1 DEF StampInv
  <2> QED
    BY <2>1, <2>2
<1> QED
  BY <1>1, <1>4 DEF StampInv

LEMMA NextStamps == CInv /\ CInv' /\ StampInv /\ [Next]_vars => StampInv'
<1> SUFFICES ASSUME CInv, CInv', StampInv, [Next]_vars PROVE StampInv'
  OBVIOUS
<1>1. Len(tree) \in Nat /\ Len(tree') \in Nat
  <2>1. IsLog(tree) /\ IsLog(tree)'
    BY DEF CInv, TreeInv
  <2>2. Len(tree) \in Nat
    BY <2>1, LogDomain
  <2>3. Len(tree') \in Nat
    BY <2>1 DEF IsLog
  <2> QED
    BY <2>2, <2>3
<1>2. \A l : tree' = Append(tree, l) => Len(tree) <= Len(tree')
  <2>1. IsLog(tree)
    BY DEF CInv, TreeInv
  <2> QED
    BY <2>1, Appended DEF Grows
<1>3. \A l, c, e : Save(l, c, e) /\ Other => StampInv'
  <2>1. ASSUME NEW l, NEW c, NEW e, Save(l, c, e), Other PROVE StampInv'
    <3>1. UNCHANGED <<anchored, stamps, bare, gone>> /\ (tree' = Append(tree, l) \/ tree' = tree)
      BY <2>1 DEF Save, Other, BlobSave, CommandLost
    <3> QED
      BY <1>1, <1>2, <3>1, StampsStay
  <2> QED
    BY <2>1
<1>4. ASSUME NEW u \in Users, NEW in \in NewInputs, cmdNew(u, in[1], in[2]) PROVE StampInv'
  BY <1>3, <1>4 DEF cmdNew
<1>5. ASSUME NEW c \in CommentIDs, cmdEdit(c) PROVE StampInv'
  BY <1>3, <1>5 DEF cmdEdit
<1>6. ASSUME NEW c \in CommentIDs, cmdDel(c) PROVE StampInv'
  <2>1. /\ UNCHANGED <<anchored, stamps, bare, gone>>
        /\ tree' = Append(tree, DelLeaf(c)) \/ tree' = tree
    BY <1>6 DEF cmdDel, Other, BlobSave, CommandLost
  <2> QED
    BY <1>1, <1>2, <2>1, StampsStay
<1>7. ASSUME NEW c \in CommentIDs, NEW u \in Users, NEW v \in {1, -1}, cmdVote(c, u, v)
      PROVE  StampInv'
  BY <1>3, <1>7 DEF cmdVote
<1>8. ASSUME NEW c \in CommentIDs, NEW b \in BOOLEAN, cmdTimestamps(c, b) PROVE StampInv'
  BY <1>8, StampsCached
<1>9. CASE BlobsDel
  <2>1. /\ gone' = gone \cup deleting /\ bare' = bare \cup {n \in deleting \ gone : n > anchored}
        /\ UNCHANGED <<tree, anchored, stamps>>
    BY <1>9 DEF BlobsDel
  <2>2. \A n \in deleting : n \in 1..Len(tree)
    BY DEF CInv, GoneInv
  <2>3. ASSUME NEW c \in CommentIDs, NEW t \in stamps[c], t.digest \in bare'
        PROVE  ~t.data
    <3>1. (t.digest \in Int => t.digest <= anchored) /\ (t.digest \in bare => ~t.data) /\ anchored \in Nat
      BY <1>1 DEF StampInv
    <3>2. t.digest \in deleting => t.digest \in Nat /\ ~(t.digest > anchored)
      BY <1>1, <2>2, <3>1
    <3> QED
      BY <2>1, <2>3, <3>1, <3>2
  <2> QED
    BY <2>1, <2>3 DEF StampInv
<1>10. CASE BlobsDelError
  BY <1>1, <1>10, StampsStay DEF BlobsDelError, leaves
<1>11. CASE Integrate
  BY <1>1, <1>2, <1>11, StampsStay DEF Integrate
<1>12. CASE AnchorTree
  <2>1. anchored' = Len(tree) /\ UNCHANGED <<tree, gone, stamps, bare>>
    BY <1>12 DEF AnchorTree, leaves, history
  <2>2. ASSUME NEW c \in CommentIDs, NEW t \in stamps[c] PROVE t.digest \in Int => t.digest <= Len(tree)
    <3>1. (t.digest \in Int => t.digest <= anchored) /\ anchored \in 0..Len(tree)
      BY DEF StampInv
    <3> QED
      BY <1>1, <3>1
  <2> QED
    BY <1>1, <2>1, <2>2 DEF StampInv
<1>13. CASE fsckRecordIndex
  BY <1>1, <1>13, StampsStay DEF fsckRecordIndex, leaves, history
<1>14. CASE MakePublic \/ VoteEnds
  BY <1>1, <1>14, StampsStay DEF MakePublic, VoteEnds, RestUnchanged, leaves, history
<1>15. ASSUME NEW s \in BillingStatuses, cmdSetBillingStatus(s) PROVE StampInv'
  BY <1>1, <1>15, StampsStay DEF cmdSetBillingStatus, RestUnchanged, leaves, history
<1>16. CASE UNCHANGED vars
  BY <1>1, <1>16, StampsStay DEF vars, leaves, history
<1> QED
  BY <1>4, <1>5, <1>6, <1>7, <1>8, <1>9, <1>10, <1>11, <1>12, <1>13, <1>14, <1>15, <1>16 DEF Next

\* The text of a deleted comment is gone from the store once the delete command
\* has ended, and does not come back with an edit or a rebuilt index (cmdDel),
\* unless the deletion of the blobs failed or politeiad stopped before it; and no
\* cached timestamp has it unless it was anchored before it was deleted
\* (finalCommentTimestamps).
THEOREM DeletedTextGone == Spec => []DeletedTextIsGone
<1>1. CInv /\ StampInv => DeletedTextIsGone
  BY DEF CInv, DelInv, StampInv, DeletedTextIsGone, Idle, KeptOf, Leaf
<1>2. Init => StampInv
  <2> SUFFICES ASSUME Init PROVE StampInv
    OBVIOUS
  <2>1. Len(tree) = 0 /\ anchored = 0 /\ bare = {} /\ \A c \in CommentIDs : stamps[c] = {}
    BY DEF Init
  <2> QED
    BY <2>1 DEF StampInv
<1> QED
  BY <1>1, <1>2, InitHolds, NextKeeps, NextStamps, PTL DEF Spec

-----------------------------------------------------------------------------
(* Threads.  A reply has a smaller parent, so the recursive function that       *)
(* Thread is defined by exists.                                                 *)

LinkOk(l) ==
  /\ l.id \in CommentIDs
  /\ l.kind # "vote" => l.parent \in 0..(l.id - 1)

LinksInv ==
  /\ \A n \in 1..Len(tree) : LinkOk(tree[n])
  /\ \A i \in 1..Len(late) : LinkOk(late[i])
  /\ \A s \in States : DOMAIN ridx[s] \subseteq CommentIDs

Up(D, P, g, d) == IF d = 0 \/ d \notin D THEN {d} ELSE {d} \cup g[P[d]]

LEMMA Least ==
  ASSUME NEW S, S \subseteq Nat, S # {}
  PROVE  \E n \in S : \A m \in S : n <= m
<1>1. PICK n \in S : \A m \in S : ~ (<<m, n>> \in OpToRel(<, Nat))
  BY NatLessThanWellFounded, WFMin
<1>2. ASSUME NEW m \in S PROVE n <= m
  <2>1. m \in Nat /\ n \in Nat
    OBVIOUS
  <2>2. m < n => <<m, n>> \in OpToRel(<, Nat)
    BY <2>1, Zenon DEF OpToRel
  <2>3. <<m, n>> \notin OpToRel(<, Nat)
    BY <1>1
  <2>4. ~(m < n)
    BY <2>2, <2>3
  <2> QED
    BY <2>1, <2>4
<1> QED
  BY <1>2

LEMMA UpExists ==
  ASSUME NEW M \in Nat, NEW D, NEW P, \A d \in 1..M : d \in D => P[d] \in 0..(d - 1)
  PROVE  \E f : f = [d \in 0..M |-> Up(D, P, f, d)]
<1> DEFINE Ok(g, k) == g = [d \in 0..k |-> Up(D, P, g, d)]
           B == {k \in 0..M : ~ \E g : Ok(g, k)}
<1>1. B = {}
  <2> SUFFICES ASSUME B # {} PROVE FALSE
    OBVIOUS
  <2>1. PICK k \in B : \A m \in B : k <= m
    <3>1. B \subseteq Nat
      OBVIOUS
    <3> HIDE DEF B
    <3> QED
      BY <3>1, Least
  <2>2. k \in 0..M /\ ~ \E g : Ok(g, k)
    OBVIOUS
  <2>3. CASE k = 0
    <3>1. PICK g : g = [d \in 0..0 |-> {d}]
      OBVIOUS
    <3>2. \A d \in 0..0 : Up(D, P, g, d) = {d}
      BY DEF Up
    <3>3. Ok(g, 0)
      BY <3>1, <3>2
    <3> QED
      BY <2>2, <2>3, <3>3
  <2>4. CASE k # 0
    <3>1. k \in Nat /\ k - 1 \in 0..M /\ ~(k <= k - 1)
      BY <2>2, <2>4
    <3>2. k - 1 \notin B
      BY <2>1, <3>1
    <3>3. PICK g : Ok(g, k - 1)
      BY <3>1, <3>2
    <3>4. PICK h : h = [d \in 0..k |-> IF d = k THEN Up(D, P, g, k) ELSE g[d]]
      OBVIOUS
    <3>5. \A d \in 0..(k - 1) : g[d] = Up(D, P, g, d)
      BY <3>3
    <3>6. \A d \in 0..(k - 1) : h[d] = g[d]
      BY <3>1, <3>4
    <3>7. ASSUME NEW d \in 0..k PROVE Up(D, P, h, d) = Up(D, P, g, d)
      <4>1. CASE d = 0 \/ d \notin D
        BY <4>1 DEF Up
      <4>2. CASE d # 0 /\ d \in D
        <5>1. d \in 1..M
          BY <2>2, <4>2
        <5>2. PICK p : p = P[d]
          OBVIOUS
        <5>3. p \in 0..(d - 1)
          BY <4>2, <5>1, <5>2
        <5>4. p \in 0..(k - 1)
          BY <3>1, <5>3
        <5> QED
          BY <3>6, <5>2, <5>4 DEF Up
      <4> QED
        BY <4>1, <4>2
    <3>8. ASSUME NEW d \in 0..k PROVE h[d] = Up(D, P, h, d)
      <4>1. CASE d = k
        BY <3>4, <3>7, <4>1
      <4>2. CASE d # k
        <5>1. d \in 0..(k - 1)
          BY <3>1, <4>2
        <5> QED
          BY <3>5, <3>6, <3>7, <5>1
      <4> QED
        BY <4>1, <4>2
    <3>9. Ok(h, k)
      BY <3>4, <3>8
    <3> QED
      BY <2>2, <3>9
  <2> QED
    BY <2>3, <2>4
<1>2. M \in 0..M
  OBVIOUS
<1> QED
  BY <1>1, <1>2

\* The comment that is read is a leaf of the tree, or a leaf without its text.
LEMMA CommentLeaf ==
  ASSUME CInv, NEW c \in DOMAIN recordIndex
  PROVE  \E n \in 1..Len(tree) :
           /\ tree[n].kind \in {"add", "del"} /\ tree[n].state = state /\ tree[n].id = c
           /\ comment(c).parent = tree[n].parent
<1>1. EntryOk(ridx[state][c], state, c, tree)
  BY IndexSays DEF CInv, recordIndex
<1>2. CASE Deleted(c)
  <2>1. PICK n : n = ridx[state][c].del
    OBVIOUS
  <2>2. Is(tree, n, "del", state, c)
    BY <1>1, <1>2, <2>1 DEF Deleted, recordIndex, EntryOk
  <2>3. PICK l : l = tree[n]
    OBVIOUS
  <2>4. IsLeaf(l)
    BY <2>2, <2>3 DEF Is, CInv, TreeInv, LeafOk
  <2>5. comment(c) = [l EXCEPT !.ver = 0, !.hint = "none"]
    BY <1>2, <2>1, <2>3 DEF comment, recordIndex, Leaf
  <2>6. comment(c).parent = l.parent
    BY <2>4, <2>5 DEF IsLeaf
  <2> QED
    BY <2>2, <2>3, <2>6 DEF Is
<1>3. CASE ~Deleted(c)
  <2>1. PICK v : v = commentVersionLatest(ridx[state][c])
    OBVIOUS
  <2>2. v \in DOMAIN ridx[state][c].adds
    BY <1>1, <2>1, LatestIs DEF CInv
  <2>3. PICK n : n = ridx[state][c].adds[v]
    OBVIOUS
  <2>4. Is(tree, n, "add", state, c)
    BY <1>1, <2>2, <2>3 DEF EntryOk
  <2>5. comment(c) = tree[n]
    BY <1>3, <2>1, <2>3 DEF comment, recordIndex, Leaf
  <2> QED
    BY <2>4, <2>5 DEF Is
<1> QED
  BY <1>2, <1>3

LEMMA ParentsAreSmaller ==
  ASSUME CInv, LinksInv
  PROVE  /\ MaxComments \in Nat
         /\ DOMAIN recordIndex \subseteq 1..MaxComments
         /\ \A c \in DOMAIN recordIndex : comment(c).parent \in 0..(c - 1)
<1>1. MaxComments \in Nat
  BY ConstantsAssumption
<1>2. DOMAIN recordIndex \subseteq 1..MaxComments
  BY DEF CInv, TreeInv, LinksInv, recordIndex, CommentIDs
<1>3. ASSUME NEW c \in DOMAIN recordIndex PROVE comment(c).parent \in 0..(c - 1)
  <2>1. PICK n \in 1..Len(tree) :
           /\ tree[n].kind \in {"add", "del"} /\ tree[n].state = state /\ tree[n].id = c
           /\ comment(c).parent = tree[n].parent
    BY CommentLeaf
  <2> QED
    BY <2>1 DEF LinksInv, LinkOk
<1> QED
  BY <1>1, <1>2, <1>3

\* The thread of a comment is the comment and the thread of its parent.
LEMMA ThreadIs ==
  ASSUME CInv, LinksInv
  PROVE  \A c \in 0..MaxComments :
           Thread(c) = IF c = 0 \/ c \notin DOMAIN recordIndex THEN {c}
                       ELSE {c} \cup Thread(comment(c).parent)
<1> DEFINE rec(g) == [d \in 0..MaxComments |->
                        IF d = 0 \/ d \notin DOMAIN recordIndex THEN {d}
                        ELSE {d} \cup g[comment(d).parent]]
<1>1. PICK D, P : D = DOMAIN recordIndex /\ P = [d \in D |-> comment(d).parent]
  OBVIOUS
<1>2. /\ MaxComments \in Nat
      /\ \A d \in 1..MaxComments : d \in D => P[d] \in 0..(d - 1)
  BY <1>1, ParentsAreSmaller
<1>3. PICK f : f = [d \in 0..MaxComments |-> Up(D, P, f, d)]
  BY <1>2, UpExists
<1>4. f = rec(f)
  <2>1. \A d \in 0..MaxComments :
          Up(D, P, f, d) = IF d = 0 \/ d \notin DOMAIN recordIndex THEN {d}
                           ELSE {d} \cup f[comment(d).parent]
    BY <1>1 DEF Up
  <2> QED
    BY <1>3, <2>1
<1>5. PICK h : h = CHOOSE g : g = rec(g)
  OBVIOUS
<1>6. h = rec(h)
  BY <1>4, <1>5
<1>7. \A c : Thread(c) = h[c]
  BY <1>5 DEF Thread
<1>8. ASSUME NEW c \in 0..MaxComments
      PROVE  h[c] = IF c = 0 \/ c \notin DOMAIN recordIndex THEN {c}
                    ELSE {c} \cup h[comment(c).parent]
  <2>1. rec(h)[c] = IF c = 0 \/ c \notin DOMAIN recordIndex THEN {c}
                    ELSE {c} \cup h[comment(c).parent]
    OBVIOUS
  <2>2. h[c] = rec(h)[c]
    <3> HIDE DEF rec
    <3> QED
      BY <1>6
  <2> QED
    BY <2>1, <2>2
<1> HIDE DEF rec
<1> QED
  BY <1>7, <1>8

-----------------------------------------------------------------------------
(* Steps that keep or extend the threads. *)

SameParents(t) ==
  \A n, m \in 1..Len(t) :
    t[n].kind # "vote" /\ t[m].kind # "vote" /\ t[n].state = t[m].state /\ t[n].id = t[m].id
      => t[n].parent = t[m].parent

ThreadFacts ==
  \A c \in 0..MaxComments : \A p :
    /\ c = 0 \/ c \notin DOMAIN recordIndex => Thread(c) = {c}
    /\ c # 0 /\ c \in DOMAIN recordIndex /\ p = comment(c).parent =>
         p \in 0..(c - 1) /\ Thread(c) = {c} \cup Thread(p)

CommentFacts ==
  \A c \in DOMAIN recordIndex : \E n \in 1..Len(tree) :
    /\ tree[n].kind \in {"add", "del"} /\ tree[n].state = state /\ tree[n].id = c
    /\ comment(c).parent = tree[n].parent

LEMMA ThreadFactsHold == CInv /\ LinksInv => ThreadFacts /\ CommentFacts
<1> SUFFICES ASSUME CInv, LinksInv PROVE ThreadFacts /\ CommentFacts
  OBVIOUS
<1>1. CommentFacts
  BY CommentLeaf DEF CommentFacts
<1>2. ASSUME NEW c \in 0..MaxComments, NEW p
      PROVE  /\ c = 0 \/ c \notin DOMAIN recordIndex => Thread(c) = {c}
             /\ c # 0 /\ c \in DOMAIN recordIndex /\ p = comment(c).parent =>
                  p \in 0..(c - 1) /\ Thread(c) = {c} \cup Thread(p)
  <2>1. Thread(c) = IF c = 0 \/ c \notin DOMAIN recordIndex THEN {c}
                    ELSE {c} \cup Thread(comment(c).parent)
    BY ThreadIs
  <2>2. c \in DOMAIN recordIndex => comment(c).parent \in 0..(c - 1)
    BY ParentsAreSmaller
  <2> QED
    BY <2>1, <2>2
<1> QED
  BY <1>1, <1>2 DEF ThreadFacts

LEMMA ThreadFactsNext == CInv' /\ LinksInv' => ThreadFacts' /\ CommentFacts'
BY ThreadFactsHold, PTL

\* A comment is in its thread.
LEMMA InOwnThread == ASSUME CInv, LinksInv, NEW c \in 0..MaxComments PROVE c \in Thread(c)
<1>1. ThreadFacts
  BY ThreadFactsHold
<1>2. PICK p : p = comment(c).parent
  OBVIOUS
<1> QED
  BY <1>1, <1>2 DEF ThreadFacts

\* Threads are not cut when the tree and the index grow and parents agree.
LEMMA ThreadsGrow ==
  ASSUME CInv, CInv', LinksInv, LinksInv', state' = state, Grows(tree, tree'),
         DOMAIN recordIndex \subseteq DOMAIN recordIndex', SameParents(tree')
  PROVE  \A c \in 0..MaxComments : Thread(c) \subseteq Thread(c)'
<1> DEFINE B == {c \in 0..MaxComments : ~(Thread(c) \subseteq Thread(c)')}
<1>1. ThreadFacts /\ CommentFacts /\ ThreadFacts' /\ CommentFacts'
  BY ThreadFactsHold, ThreadFactsNext
<1>2. SUFFICES ASSUME B # {} PROVE FALSE
  OBVIOUS
<1>3. PICK c \in B : \A m \in B : c <= m
  <2>1. B \subseteq Nat
    OBVIOUS
  <2> HIDE DEF B
  <2> QED
    BY <1>2, <2>1, Least
<1>4. c \in 0..MaxComments /\ ~(Thread(c) \subseteq Thread(c)')
  OBVIOUS
<1>5. PICK p : p = comment(c).parent
  OBVIOUS
<1>6. PICK q : q = comment(c)'.parent
  OBVIOUS
<1>7. c \in Thread(c)'
  BY <1>1, <1>4, <1>6 DEF ThreadFacts
<1>8. CASE c = 0 \/ c \notin DOMAIN recordIndex
  <2>1. Thread(c) = {c}
    BY <1>1, <1>4, <1>8 DEF ThreadFacts
  <2> QED
    BY <1>4, <1>7, <2>1
<1>9. CASE c # 0 /\ c \in DOMAIN recordIndex
  <2>1. c \in DOMAIN recordIndex'
    BY <1>9
  <2>2. PICK n \in 1..Len(tree) :
          /\ tree[n].kind \in {"add", "del"} /\ tree[n].state = state /\ tree[n].id = c
          /\ p = tree[n].parent
    BY <1>1, <1>5, <1>9 DEF CommentFacts
  <2>3. PICK m \in 1..Len(tree') :
          /\ tree'[m].kind \in {"add", "del"} /\ tree'[m].state = state' /\ tree'[m].id = c
          /\ q = tree'[m].parent
    BY <1>1, <1>6, <2>1 DEF CommentFacts
  <2>4. n \in 1..Len(tree') /\ tree'[n] = tree[n]
    BY DEF Grows
  <2>5. p = q
    BY <2>2, <2>3, <2>4 DEF SameParents
  <2>6. p \in 0..(c - 1) /\ Thread(c) = {c} \cup Thread(p)
    BY <1>1, <1>4, <1>5, <1>9 DEF ThreadFacts
  <2>7. Thread(c)' = {c} \cup Thread(p)'
    BY <1>1, <1>4, <1>6, <1>9, <2>1, <2>5 DEF ThreadFacts
  <2>8. p \in 0..MaxComments /\ ~(c <= p)
    <3>1. MaxComments \in Nat
      BY ConstantsAssumption
    <3>2. c \in 0..MaxComments /\ p \in 0..(c - 1)
      BY <1>4, <2>6
    <3> HIDE DEF B
    <3> QED
      BY <3>1, <3>2
  <2>9. p \notin B
    BY <1>3, <2>8
  <2>10. Thread(p) \subseteq Thread(p)'
    BY <2>8, <2>9
  <2> QED
    BY <1>4, <2>6, <2>7, <2>10
<1> QED
  BY <1>8, <1>9

Threaded(l) ==
  \/ l.kind = "add" /\ l.parent = 0 /\ l.user = Author
  \/ /\ l.kind = "add" /\ l.ver = 1
     /\ \E p \in CommentIDs : p = l.parent /\ l.thread \in Thread(p)
  \/ l.kind = "vote" /\ \E p \in CommentIDs : p = l.id /\ l.thread \in Thread(p)

Tagged == \A n \in 1..Len(tree) : \A l :
            l = tree[n] /\ l.thread # -1 => state = "vetted" /\ Threaded(l)

\* As long as no leaf was integrated late: the comment of every leaf is in the index,
\* the leaves of a comment agree on its parent, and what was written on the approved
\* proposal is in the thread that it was written in.
ThreadInv ==
  orphans = {} =>
    /\ \A n \in 1..Len(tree) : tree[n].id \in DOMAIN ridx[tree[n].state]
    /\ SameParents(tree)
    /\ Tagged

LEMMA ThreadedGrows ==
  ASSUME \A c \in 0..MaxComments : Thread(c) \subseteq Thread(c)', NEW l, Threaded(l)
  PROVE  Threaded(l)'
<1>1. \A p \in CommentIDs : p \in 0..MaxComments
  BY DEF CommentIDs
<1> QED
  BY <1>1 DEF Threaded

\* The tree stays as it is.
LEMMA ThreadsStay ==
  ASSUME CInv, CInv', LinksInv, LinksInv', ThreadInv, tree' = tree, orphans' = orphans,
         \A s \in States : DOMAIN ridx[s] \subseteq DOMAIN ridx'[s],
         state' = state \/ state = "unvetted"
  PROVE  ThreadInv'
<1> SUFFICES ASSUME orphans' = {} PROVE ThreadInv'
  BY DEF ThreadInv
<1>1. /\ \A n \in 1..Len(tree) : tree[n].id \in DOMAIN ridx[tree[n].state]
      /\ SameParents(tree) /\ Tagged
  BY DEF ThreadInv
<1>2. \A n \in 1..Len(tree') : tree'[n].id \in DOMAIN ridx'[tree'[n].state]
  <2>1. \A n \in 1..Len(tree) : tree[n].state \in States
    BY DEF CInv, TreeInv, LeafOk
  <2> QED
    BY <1>1, <2>1
<1>3. SameParents(tree')
  BY <1>1
<1>4. Tagged'
  <2> SUFFICES ASSUME NEW n \in 1..Len(tree'), NEW l, l = tree'[n], l.thread # -1
               PROVE  state' = "vetted" /\ Threaded(l)'
    BY DEF Tagged
  <2>1. state = "vetted" /\ Threaded(l)
    BY <1>1 DEF Tagged
  <2>2. state' = state /\ state \in States
    BY <2>1 DEF States
  <2>3. DOMAIN recordIndex \subseteq DOMAIN recordIndex'
    BY <2>2 DEF recordIndex
  <2>4. Grows(tree, tree')
    BY LogDomain DEF Grows, CInv, TreeInv
  <2>5. \A c \in 0..MaxComments : Thread(c) \subseteq Thread(c)'
    BY <1>3, <2>2, <2>3, <2>4, ThreadsGrow
  <2> QED
    BY <2>1, <2>2, <2>5, ThreadedGrows
<1>5. SameParents(tree)'
  BY <1>3 DEF SameParents
<1> QED
  BY <1>2, <1>4, <1>5 DEF ThreadInv

\* A leaf is saved and indexed.
LEMMA ThreadsSaved ==
  ASSUME CInv, CInv', LinksInv, LinksInv', ThreadInv, NEW l, NEW c, NEW e, Saved(l, c, e),
         l.state = state, l.id = c,
         orphans = {} /\ l.kind # "vote" =>
           \A n \in 1..Len(tree) :
             tree[n].kind # "vote" /\ tree[n].state = state /\ tree[n].id = c =>
               tree[n].parent = l.parent,
         l.thread # -1 => state = "vetted" /\ Threaded(l)
  PROVE  ThreadInv'
<1>1. /\ tree' = Append(tree, l) /\ orphans' = orphans /\ state' = state
  BY DEF Saved
<1> SUFFICES ASSUME orphans = {} PROVE ThreadInv'
  BY <1>1 DEF ThreadInv
<1>2. /\ \A n \in 1..Len(tree) : tree[n].id \in DOMAIN ridx[tree[n].state]
      /\ SameParents(tree) /\ Tagged
  BY DEF ThreadInv
<1>3. /\ Len(tree) \in Nat /\ Len(tree') = Len(tree) + 1 /\ tree'[Len(tree) + 1] = l
      /\ Grows(tree, tree')
  BY <1>1, Appended DEF CInv, TreeInv
<1>4. ASSUME NEW n \in 1..Len(tree')
      PROVE  (n \in 1..Len(tree) /\ tree'[n] = tree[n]) \/ tree'[n] = l
  <2>1. n \in 1..Len(tree) \/ n = Len(tree) + 1
    BY <1>3
  <2> QED
    BY <1>3, <2>1 DEF Grows
<1>5. /\ \A s \in States : s # state => ridx'[s] = ridx[s]
      /\ DOMAIN ridx'[state] = DOMAIN ridx[state] \cup {c}
  BY SavedIndexIs DEF CInv
<1>6. \A n \in 1..Len(tree') : tree'[n].id \in DOMAIN ridx'[tree'[n].state]
  <2>1. \A n \in 1..Len(tree) : tree[n].state \in States
    BY DEF CInv, TreeInv, LeafOk
  <2> QED
    BY <1>2, <1>4, <1>5, <2>1
<1>7. SameParents(tree')
  <2> SUFFICES ASSUME NEW n \in 1..Len(tree'), NEW m \in 1..Len(tree'),
                      tree'[n].kind # "vote", tree'[m].kind # "vote",
                      tree'[n].state = tree'[m].state, tree'[n].id = tree'[m].id
               PROVE  tree'[n].parent = tree'[m].parent
    BY DEF SameParents
  <2>1. CASE tree'[n] = l /\ tree'[m] = l
    BY <2>1
  <2>2. CASE tree'[n] = l /\ m \in 1..Len(tree) /\ tree'[m] = tree[m]
    BY <2>2
  <2>3. CASE tree'[m] = l /\ n \in 1..Len(tree) /\ tree'[n] = tree[n]
    BY <2>3
  <2>4. CASE n \in 1..Len(tree) /\ tree'[n] = tree[n] /\ m \in 1..Len(tree) /\ tree'[m] = tree[m]
    BY <1>2, <2>4 DEF SameParents
  <2> QED
    BY <1>4, <2>1, <2>2, <2>3, <2>4
<1>8. \A d \in 0..MaxComments : Thread(d) \subseteq Thread(d)'
  <2>1. DOMAIN recordIndex \subseteq DOMAIN recordIndex'
    BY <1>1, <1>5 DEF recordIndex
  <2> QED
    BY <1>1, <1>3, <1>7, <2>1, ThreadsGrow
<1>9. Tagged'
  <2> SUFFICES ASSUME NEW n \in 1..Len(tree'), NEW x, x = tree'[n], x.thread # -1
               PROVE  state' = "vetted" /\ Threaded(x)'
    BY DEF Tagged
  <2>1. state = "vetted" /\ Threaded(x)
    BY <1>2, <1>4 DEF Tagged
  <2> QED
    BY <1>1, <1>8, <2>1, ThreadedGrows
<1>10. SameParents(tree)'
  BY <1>7 DEF SameParents
<1> QED
  BY <1>6, <1>9, <1>10 DEF ThreadInv

-----------------------------------------------------------------------------
(* The steps that write leaves. *)

\* The fields of a new leaf.
LEMMA NewLeafHas ==
  ASSUME NEW kind, NEW c, NEW ver, NEW u, NEW parent, NEW hint, NEW v, NEW l,
         l = NewLeaf(kind, c, ver, u, parent, hint, v)
  PROVE  /\ l.kind = kind /\ l.id = c /\ l.ver = ver /\ l.user = u /\ l.parent = parent
         /\ l.state = state
         /\ l.thread # -1 =>
              state = "vetted" /\ vote = "approved" /\ l.thread = latestAuthorUpdate
BY DEF NewLeaf

\* The tree, or the queue of late leaves, gets a leaf.
LEMMA LinksGrow ==
  ASSUME NEW s, NEW u, NEW l, IsLog(s), u = Append(s, l), LinkOk(l),
         \A n \in 1..Len(s) : LinkOk(s[n])
  PROVE  \A n \in 1..Len(u) : LinkOk(u[n])
<1>1. /\ Len(s) \in Nat /\ Len(u) = Len(s) + 1 /\ u[Len(s) + 1] = l
      /\ \A n \in 1..Len(s) : u[n] = s[n]
  BY Appended DEF Grows
<1>2. ASSUME NEW n \in 1..Len(u) PROVE LinkOk(u[n])
  <2>1. n \in 1..Len(s) \/ n = Len(s) + 1
    BY <1>1
  <2> QED
    BY <1>1, <2>1
<1> QED
  BY <1>2

\* A write, whether its index is saved or not.
LEMMA WriteStep ==
  ASSUME CInv, CInv', LinksInv, ThreadInv, NEW l, NEW c \in CommentIDs, NEW e,
         Saved(l, c, e) \/ (CommandLost(l) /\ state' = state),
         LinkOk(l), l.state = state, l.id = c,
         orphans = {} /\ l.kind # "vote" =>
           \A n \in 1..Len(tree) :
             tree[n].kind # "vote" /\ tree[n].state = state /\ tree[n].id = c =>
               tree[n].parent = l.parent,
         l.thread # -1 => state = "vetted" /\ Threaded(l)
  PROVE  LinksInv' /\ ThreadInv'
<1>1. IsLog(tree) /\ IsLog(late)
  BY DEF CInv, TreeInv
<1>2. CASE Saved(l, c, e)
  <2>1. tree' = Append(tree, l) /\ late' = late
    BY <1>2 DEF Saved
  <2>2. \A n \in 1..Len(tree') : LinkOk(tree'[n])
    BY <1>1, <2>1, LinksGrow DEF LinksInv
  <2>3. \A s \in States : DOMAIN ridx'[s] \subseteq CommentIDs
    <3>1. /\ \A s \in States : s # state => ridx'[s] = ridx[s]
          /\ DOMAIN ridx'[state] = DOMAIN ridx[state] \cup {c}
      BY <1>2, SavedIndexIs DEF CInv
    <3> QED
      BY <3>1 DEF LinksInv
  <2>4. LinksInv'
    BY <2>1, <2>2, <2>3 DEF LinksInv, LinkOk, CommentIDs
  <2> QED
    BY <1>2, <2>4, ThreadsSaved
<1>3. CASE CommandLost(l) /\ state' = state
  <2>1. tree' = tree /\ late' = Append(late, l) /\ ridx' = ridx /\ orphans' = orphans
    BY <1>3 DEF CommandLost
  <2>2. \A n \in 1..Len(late') : LinkOk(late'[n])
    BY <1>1, <2>1, LinksGrow DEF LinksInv
  <2>3. LinksInv'
    BY <2>1, <2>2 DEF LinksInv, LinkOk, CommentIDs
  <2>4. \A s \in States : DOMAIN ridx[s] \subseteq DOMAIN ridx'[s]
    BY <2>1
  <2> QED
    BY <1>3, <2>1, <2>3, <2>4, ThreadsStay
<1> QED
  BY <1>2, <1>3

\* A command that saves a leaf or loses it.
LEMMA SaveIs ==
  ASSUME NEW l, NEW c, NEW e, Save(l, c, e), Other
  PROVE  Saved(l, c, e) \/ (CommandLost(l) /\ state' = state)
BY DEF Save, Saved, Other, BlobSave, recordIndexSave, recordIndex, record

\* The comment with the next ID is new, and a reply to one that is there.
LEMMA NextID ==
  ASSUME CInv
  PROVE  NewCommentID \notin DOMAIN recordIndex
         /\ \A d \in DOMAIN recordIndex : d \in 0..(NewCommentID - 1)
<1>1. PICK k \in Nat : DOMAIN recordIndex = 1..k
  BY IndexSays DEF CInv, recordIndex
<1>2. PICK D : D = DOMAIN recordIndex
  OBVIOUS
<1>3. PICK m : m = Max0(D)
  OBVIOUS
<1>4. /\ D # {} => m \in D
      /\ \A d \in D : d <= m
      /\ D = {} => m = 0
  BY <1>1, <1>2, <1>3, Max0Is
<1>5. PICK c : c = m + 1
  OBVIOUS
<1>6. NewCommentID = c
  BY <1>2, <1>3, <1>5 DEF NewCommentID, commentIDLatest
<1>7. m \in Nat /\ \A d \in D : d \in Nat /\ d <= m
  <2>1. CASE D = {}
    BY <1>4, <2>1
  <2>2. CASE D # {}
    <3>1. m \in 1..k /\ D = 1..k
      BY <1>1, <1>2, <1>4, <2>2
    <3> QED
      BY <1>4, <3>1
  <2> QED
    BY <2>1, <2>2
<1>8. c \notin D /\ \A d \in D : d \in 0..(c - 1)
  BY <1>5, <1>7
<1> QED
  BY <1>2, <1>6, <1>8

LEMMA NewThreads ==
  ASSUME CInv, CInv', LinksInv, ThreadInv, NEW u, NEW parent \in {0} \cup CommentIDs, NEW hint,
         cmdNew(u, parent, hint)
  PROVE  LinksInv' /\ ThreadInv'
<1>1. PICK c : c = NewCommentID
  OBVIOUS
<1>2. PICK l : l = NewLeaf("add", c, 1, u, parent, hint, 0)
  OBVIOUS
<1>3. PICK e : e = [adds |-> [v \in {1} |-> digest], del |-> 0, votes |-> NoVotes]
  OBVIOUS
<1>4. /\ Save(l, c, e) /\ Other /\ c \in CommentIDs
      /\ parent > 0 => parent \in DOMAIN recordIndex
      /\ WritesAllowed(NewAllowedOnApproved(u, parent, hint))
  BY <1>1, <1>2, <1>3 DEF cmdNew, commentExists
<1>5. Saved(l, c, e) \/ (CommandLost(l) /\ state' = state)
  BY <1>4, SaveIs
<1>6. /\ l.kind = "add" /\ l.id = c /\ l.ver = 1 /\ l.user = u /\ l.parent = parent
      /\ l.state = state
      /\ l.thread # -1 =>
           state = "vetted" /\ vote = "approved" /\ l.thread = latestAuthorUpdate
  BY <1>2, NewLeafHas
<1>7. /\ c \notin DOMAIN recordIndex
      /\ \A d \in DOMAIN recordIndex : d \in 0..(c - 1)
  BY <1>1, NextID
<1>8. MaxComments \in Nat /\ c \in 1..MaxComments /\ parent \in 0..MaxComments
  BY <1>4, ConstantsAssumption DEF CommentIDs
<1>9. LinkOk(l)
  <2>1. parent \in 0..(c - 1)
    BY <1>4, <1>7, <1>8
  <2> QED
    BY <1>4, <1>6, <2>1 DEF LinkOk
<1>10. ASSUME orphans = {}, NEW n \in 1..Len(tree), tree[n].state = state, tree[n].id = c
       PROVE  FALSE
  BY <1>7, <1>10 DEF ThreadInv, recordIndex
<1>11. ASSUME l.thread # -1 PROVE state = "vetted" /\ Threaded(l)
  <2>1. state = "vetted" /\ vote = "approved" /\ l.thread = latestAuthorUpdate
    BY <1>6, <1>11
  <2>2. NewAllowedOnApproved(u, parent, hint)
    BY <1>4, <2>1 DEF WritesAllowed
  <2>3. CASE parent = 0
    BY <1>6, <2>1, <2>2, <2>3 DEF NewAllowedOnApproved, Threaded
  <2>4. CASE parent # 0
    <3>1. parent = latestAuthorUpdate \/ latestAuthorUpdate \in Thread(parent)
      BY <2>2, <2>4 DEF NewAllowedOnApproved, isInCommentTree
    <3>2. parent \in Thread(parent)
      BY <1>8, InOwnThread
    <3>3. l.thread \in Thread(parent) /\ parent \in CommentIDs
      BY <2>1, <2>4, <3>1, <3>2
    <3> QED
      BY <1>6, <2>1, <3>3 DEF Threaded
  <2> QED
    BY <2>3, <2>4
<1> QED
  BY <1>4, <1>5, <1>6, <1>9, <1>10, <1>11, WriteStep
\* The parent that is read of a comment is the one of all its leaves.
LEMMA ParentIs ==
  ASSUME CInv, LinksInv, ThreadInv, NEW c \in DOMAIN recordIndex, NEW p, p = comment(c).parent
  PROVE  /\ p \in 0..(c - 1)
         /\ orphans = {} =>
              \A n \in 1..Len(tree) :
                tree[n].kind # "vote" /\ tree[n].state = state /\ tree[n].id = c =>
                  tree[n].parent = p
<1>1. p \in 0..(c - 1)
  BY ParentsAreSmaller
<1>2. PICK m \in 1..Len(tree) :
        /\ tree[m].kind \in {"add", "del"} /\ tree[m].state = state /\ tree[m].id = c
        /\ p = tree[m].parent
  BY CommentLeaf
<1>3. ASSUME orphans = {}, NEW n \in 1..Len(tree), tree[n].kind # "vote",
             tree[n].state = state, tree[n].id = c
      PROVE  tree[n].parent = p
  <2>1. SameParents(tree)
    BY <1>3 DEF ThreadInv
  <2> QED
    BY <1>2, <1>3, <2>1 DEF SameParents
<1> QED
  BY <1>1, <1>3

LEMMA EditThreads ==
  ASSUME CInv, CInv', LinksInv, ThreadInv, NEW c \in CommentIDs, cmdEdit(c)
  PROVE  LinksInv' /\ ThreadInv'
<1>1. PICK old : old = comment(c)
  OBVIOUS
<1>2. PICK ver : ver = old.ver + 1
  OBVIOUS
<1>3. PICK k : k = NewLeaf("add", c, ver, old.user, old.parent, old.hint, 0)
  OBVIOUS
<1>4. PICK l : l = [k EXCEPT !.thread = -1]
  OBVIOUS
<1>5. PICK e : e = [recordIndex[c] EXCEPT !.adds = Put(@, ver, digest)]
  OBVIOUS
<1>6. Save(l, c, e) /\ Other /\ c \in DOMAIN recordIndex
  BY <1>1, <1>2, <1>3, <1>4, <1>5 DEF cmdEdit, commentExists
<1>7. Saved(l, c, e) \/ (CommandLost(l) /\ state' = state)
  BY <1>6, SaveIs
<1>8. l.kind = "add" /\ l.id = c /\ l.parent = old.parent /\ l.state = state /\ l.thread = -1
  <2>1. k.kind = "add" /\ k.id = c /\ k.parent = old.parent /\ k.state = state
    BY <1>3, NewLeafHas
  <2>2. IsLeaf(k)
    BY <1>3, NewLeafIs DEF CInv
  <2>3. l = [kind |-> k.kind, id |-> k.id, ver |-> k.ver, user |-> k.user, parent |-> k.parent,
             hint |-> k.hint, vote |-> k.vote, state |-> k.state, ts |-> k.ts, thread |-> -1]
    BY <1>4, <2>2 DEF IsLeaf
  <2> QED
    BY <2>1, <2>3
<1>9. /\ l.parent \in 0..(c - 1)
      /\ orphans = {} =>
           \A n \in 1..Len(tree) :
             tree[n].kind # "vote" /\ tree[n].state = state /\ tree[n].id = c =>
               tree[n].parent = l.parent
  BY <1>1, <1>6, <1>8, ParentIs
<1>10. LinkOk(l)
  BY <1>8, <1>9 DEF LinkOk
<1> QED
  BY <1>7, <1>8, <1>9, <1>10, WriteStep

LEMMA DelThreads ==
  ASSUME CInv, CInv', LinksInv, ThreadInv, NEW c \in CommentIDs, cmdDel(c)
  PROVE  LinksInv' /\ ThreadInv'
<1>1. PICK l : l = DelLeaf(c)
  OBVIOUS
<1>2. PICK e : e = [recordIndex[c] EXCEPT !.del = digest]
  OBVIOUS
<1>3. c \in DOMAIN recordIndex /\ (Saved(l, c, e) \/ (CommandLost(l) /\ state' = state))
  BY <1>1, <1>2 DEF cmdDel, commentExists, Saved, Other, BlobSave, recordIndexSave, recordIndex,
                    record
<1>4. l.kind = "del" /\ l.id = c /\ l.parent = comment(c).parent /\ l.state = state
  BY <1>1, NewLeafHas DEF DelLeaf
<1>5. l.thread = -1
  BY <1>1 DEF DelLeaf, NewLeaf
<1>6. /\ l.parent \in 0..(c - 1)
      /\ orphans = {} =>
           \A n \in 1..Len(tree) :
             tree[n].kind # "vote" /\ tree[n].state = state /\ tree[n].id = c =>
               tree[n].parent = l.parent
  BY <1>3, <1>4, ParentIs
<1>7. LinkOk(l)
  BY <1>4, <1>6 DEF LinkOk
<1> QED
  BY <1>3, <1>4, <1>5, <1>6, <1>7, WriteStep

LEMMA VoteThreads ==
  ASSUME CInv, CInv', LinksInv, ThreadInv, NEW c \in CommentIDs, NEW u, NEW v, cmdVote(c, u, v)
  PROVE  LinksInv' /\ ThreadInv'
<1>1. PICK l : l = NewLeaf("vote", c, 0, u, 0, "none", v)
  OBVIOUS
<1>2. PICK e : Save(l, c, e)
  BY <1>1 DEF cmdVote
<1>3. Other /\ WritesAllowed(isInCommentTree(latestAuthorUpdate, c))
  BY DEF cmdVote
<1>4. Saved(l, c, e) \/ (CommandLost(l) /\ state' = state)
  BY <1>2, <1>3, SaveIs
<1>5. /\ l.kind = "vote" /\ l.id = c /\ l.state = state
      /\ l.thread # -1 =>
           state = "vetted" /\ vote = "approved" /\ l.thread = latestAuthorUpdate
  BY <1>1, NewLeafHas
<1>6. LinkOk(l)
  BY <1>5 DEF LinkOk
<1>7. ASSUME l.thread # -1 PROVE state = "vetted" /\ Threaded(l)
  <2>1. state = "vetted" /\ vote = "approved" /\ l.thread = latestAuthorUpdate
    BY <1>5, <1>7
  <2>2. c = latestAuthorUpdate \/ latestAuthorUpdate \in Thread(c)
    BY <1>3, <2>1 DEF WritesAllowed, isInCommentTree
  <2>3. c \in Thread(c)
    <3>1. c \in 0..MaxComments
      BY DEF CommentIDs
    <3> QED
      BY <3>1, InOwnThread
  <2>4. l.thread \in Thread(c)
    BY <2>1, <2>2, <2>3
  <2> QED
    BY <1>5, <2>1, <2>4 DEF Threaded
<1> QED
  BY <1>4, <1>5, <1>6, <1>7, WriteStep
-----------------------------------------------------------------------------
(* The other steps, and the theorem. *)

\* A late leaf is integrated: nothing is promised of the threads from then on.
LEMMA IntegrateThreads ==
  ASSUME CInv, LinksInv, Integrate
  PROVE  LinksInv' /\ ThreadInv'
<1>1. PICK S : late \in Seq(S)
  BY DEF CInv, TreeInv, IsLog
<1>2. /\ late # << >> /\ late' = Tail(late) /\ tree' = Append(tree, Head(late)) /\ ridx' = ridx
      /\ orphans' = orphans \cup {digest}
  BY DEF Integrate, index
<1>3. /\ Len(late) \in Nat /\ Len(late) # 0 /\ Head(late) = late[1]
      /\ Len(Tail(late)) = Len(late) - 1
      /\ \A i \in 1..Len(Tail(late)) : Tail(late)[i] = late[i + 1]
  BY <1>1, <1>2
<1>4. \A i \in 1..Len(late) : LinkOk(late[i])
  BY DEF LinksInv
<1>5. \A i \in 1..Len(late') : LinkOk(late'[i])
  <2> TAKE i \in 1..Len(late')
  <2>1. i + 1 \in 1..Len(late) /\ late'[i] = late[i + 1]
    BY <1>2, <1>3
  <2> QED
    BY <1>4, <2>1
<1>6. \A n \in 1..Len(tree') : LinkOk(tree'[n])
  <2>1. PICK l : l = Head(late)
    OBVIOUS
  <2>2. LinkOk(l)
    BY <1>3, <1>4, <2>1
  <2>3. IsLog(tree) /\ \A n \in 1..Len(tree) : LinkOk(tree[n])
    BY DEF CInv, TreeInv, LinksInv
  <2> QED
    BY <1>2, <2>1, <2>2, <2>3, LinksGrow
<1>7. LinksInv'
  BY <1>2, <1>5, <1>6 DEF LinksInv, LinkOk, CommentIDs
<1>8. ThreadInv'
  BY <1>2 DEF ThreadInv
<1> QED
  BY <1>7, <1>8

\* The rebuilt index has every comment of the old one.
LEMMA FsckThreads ==
  ASSUME CInv, CInv', LinksInv, ThreadInv, fsckSaved
  PROVE  LinksInv' /\ ThreadInv'
<1>1. PICK ids : ids = {Leaf(n).id : n \in Current("add") \cup Current("del")}
  OBVIOUS
<1>2. PICK x : x = [c \in ids |-> Rebuilt(c)]
  OBVIOUS
<1>3. /\ ridx' = [ridx EXCEPT ![state] = x]
      /\ UNCHANGED <<state, tree, late, orphans>>
  BY <1>1, <1>2 DEF fsckSaved, record, leaves
<1>4. state \in States /\ DOMAIN tree = 1..Len(tree)
  BY LogDomain DEF CInv, TreeInv
<1>5. \A c : c \in ids <=>
        \E n \in 1..Len(tree) : tree[n].kind \in {"add", "del"} /\ tree[n].state = state /\ tree[n].id = c
  BY <1>1, <1>4 DEF Leaf, Current
<1>6. ids \subseteq CommentIDs
  BY <1>5 DEF LinksInv, LinkOk
<1>7. DOMAIN ridx[state] \subseteq ids
  <2> SUFFICES ASSUME NEW c \in DOMAIN ridx[state] PROVE c \in ids
    OBVIOUS
  <2>1. Written(tree, state, c)
    BY IndexSays DEF CInv
  <2> QED
    BY <1>5, <2>1 DEF Written
<1>8. DOMAIN x = ids
  BY <1>2
<1>9. ridx'[state] = x /\ \A s \in States : s # state => ridx'[s] = ridx[s]
  BY <1>3, <1>4 DEF CInv, IndexInv
<1>10. \A s \in States : DOMAIN ridx[s] \subseteq DOMAIN ridx'[s] /\ DOMAIN ridx'[s] \subseteq CommentIDs
  BY <1>6, <1>7, <1>8, <1>9 DEF LinksInv
<1>11. LinksInv'
  BY <1>3, <1>10 DEF LinksInv, LinkOk, CommentIDs
<1> QED
  BY <1>3, <1>10, <1>11, ThreadsStay

\* The steps that leave the tree and the index alone.
LEMMA RestThreads ==
  ASSUME CInv, CInv', LinksInv, ThreadInv, UNCHANGED <<tree, late, ridx, orphans>>,
         state' = state \/ state = "unvetted"
  PROVE  LinksInv' /\ ThreadInv'
<1>1. LinksInv'
  BY DEF LinksInv, LinkOk, CommentIDs
<1>2. \A s \in States : DOMAIN ridx[s] \subseteq DOMAIN ridx'[s]
  OBVIOUS
<1> QED
  BY <1>1, <1>2, ThreadsStay

LEMMA NextThreads == CInv /\ CInv' /\ LinksInv /\ ThreadInv /\ [Next]_vars => LinksInv' /\ ThreadInv'
<1> SUFFICES ASSUME CInv, CInv', LinksInv, ThreadInv, [Next]_vars PROVE LinksInv' /\ ThreadInv'
  OBVIOUS
<1>1. ASSUME NEW u \in Users, NEW in \in NewInputs, cmdNew(u, in[1], in[2])
      PROVE  LinksInv' /\ ThreadInv'
  <2>1. in[1] \in {0} \cup CommentIDs
    BY DEF NewInputs
  <2> QED
    BY <1>1, <2>1, NewThreads
<1>2. ASSUME NEW c \in CommentIDs, cmdEdit(c) PROVE LinksInv' /\ ThreadInv'
  BY <1>2, EditThreads
<1>3. ASSUME NEW c \in CommentIDs, cmdDel(c) PROVE LinksInv' /\ ThreadInv'
  BY <1>3, DelThreads
<1>4. ASSUME NEW c \in CommentIDs, NEW u \in Users, NEW v \in {1, -1}, cmdVote(c, u, v)
      PROVE  LinksInv' /\ ThreadInv'
  BY <1>4, VoteThreads
<1>5. CASE Integrate
  BY <1>5, IntegrateThreads
<1>6. CASE fsckRecordIndex
  <2>1. CASE fsckSaved
    BY <2>1, FsckThreads
  <2>2. CASE UNCHANGED <<record, leaves, ridx, deleting, orphans, kept>>
    BY <2>2, RestThreads DEF record, leaves
  <2> QED
    BY <1>6, <2>1, <2>2, FsckIs
<1>7. CASE BlobsDel \/ BlobsDelError \/ AnchorTree
  BY <1>7, RestThreads DEF BlobsDel, BlobsDelError, AnchorTree, record, leaves, index, history
<1>8. ASSUME NEW c \in CommentIDs, NEW b \in BOOLEAN, cmdTimestamps(c, b)
      PROVE  LinksInv' /\ ThreadInv'
  BY <1>8, RestThreads DEF cmdTimestamps, record, leaves, index, history
<1>9. CASE MakePublic \/ VoteEnds
  BY <1>9, RestThreads DEF MakePublic, VoteEnds, RestUnchanged, leaves, index, history
<1>10. ASSUME NEW s \in BillingStatuses, cmdSetBillingStatus(s) PROVE LinksInv' /\ ThreadInv'
  BY <1>10, RestThreads DEF cmdSetBillingStatus, RestUnchanged, leaves, index, history
<1>11. CASE UNCHANGED vars
  BY <1>11, RestThreads DEF vars, record, leaves, index, history
<1> QED
  BY <1>1, <1>2, <1>3, <1>4, <1>5, <1>6, <1>7, <1>8, <1>9, <1>10, <1>11 DEF Next

LEMMA InitThreads == Init => LinksInv /\ ThreadInv
<1> SUFFICES ASSUME Init PROVE LinksInv /\ ThreadInv
  OBVIOUS
<1>1. Len(tree) = 0 /\ Len(late) = 0
  BY DEF Init
<1>2. \A s \in States : DOMAIN ridx[s] = {}
  BY DEF Init, NoIndex
<1>3. LinksInv
  BY <1>1, <1>2 DEF LinksInv
<1>4. ThreadInv
  BY <1>1 DEF ThreadInv, SameParents, Tagged
<1> QED
  BY <1>3, <1>4

-----------------------------------------------------------------------------
(* The update that a write on the approved proposal was made under. *)

Hinted(t, n) ==
  t[n].kind = "add" /\ t[n].ver = 1 /\ t[n].state = "vetted" /\ t[n].hint = "update"

\* A deletion of comment c, in a tree or up to a position.
DeletedIn(t, k, s, c) == \E d \in 1..k : t[d].kind = "del" /\ t[d].state = s /\ t[d].id = c

\* Leaf m is the last update among the first k leaves that was not deleted there.
LastUpdate(t, m, k) ==
  Hinted(t, m) /\ \A j \in (m + 1)..k : Hinted(t, j) => DeletedIn(t, k, "vetted", t[j].id)

BaseUpdate(l) ==
  /\ l.kind = "add" /\ l.ver = 1 /\ l.hint = "update" /\ l.parent = 0 /\ l.user = Author
  /\ l.state = "vetted"

\* A write l after the first k leaves.
Under(l, t, k) ==
  \/ BaseUpdate(l)
  \/ /\ l.kind = "vote" \/ l.parent # 0
     /\ \E m \in 1..k : t[m].id = l.thread /\ LastUpdate(t, m, k)

\* The times of the writes increase with their positions.
TimesInv ==
  \A n \in 1..Len(tree) :
    /\ tree[n].ts \in 0..(Len(tree) + Len(late) - 1)
    /\ \A m \in 1..Len(tree) : n < m => tree[n].ts < tree[m].ts

\* The versions of a comment that is not deleted carry the same hint, and the first
\* one is there once.
HintsInv ==
  \A n, m \in 1..Len(tree) :
    tree[n].kind = "add" /\ tree[m].kind = "add" /\ tree[n].state = tree[m].state
    /\ tree[n].id = tree[m].id
      => \/ tree[n].hint = tree[m].hint /\ (tree[n].ver = 1 /\ tree[m].ver = 1 => n = m)
         \/ DeletedIn(tree, Len(tree), tree[n].state, tree[n].id)

\* The index knows the comments that are deleted.
ShownInv ==
  \A d \in 1..Len(tree) : tree[d].kind = "del" => ridx[tree[d].state][tree[d].id].del # 0

UnderInv ==
  \A n \in 1..Len(tree) : tree[n].thread # -1 => Under(tree[n], tree, n - 1)

UpdatesInv == orphans = {} => TimesInv /\ HintsInv /\ ShownInv /\ UnderInv

\* What is among the first leaves of a tree is there when the tree has grown.
LEMMA DeletedGrows ==
  ASSUME NEW t, NEW u, Grows(t, u), NEW k \in Nat, NEW i \in Nat, k <= Len(t), k <= i,
         NEW s, NEW c, DeletedIn(t, k, s, c)
  PROVE  DeletedIn(u, i, s, c)
BY DEF DeletedIn, Grows

LEMMA UnderGrows ==
  ASSUME NEW t, NEW u, Grows(t, u), NEW k \in Nat, k <= Len(t), NEW l, Under(l, t, k)
  PROVE  Under(l, u, k)
<1>1. \A n \in 1..k : u[n] = t[n]
  BY DEF Grows
<1>2. CASE BaseUpdate(l)
  BY <1>2 DEF Under
<1>3. ASSUME NEW m \in 1..k, t[m].id = l.thread, LastUpdate(t, m, k)
      PROVE  u[m].id = l.thread /\ LastUpdate(u, m, k)
  <2>1. u[m] = t[m] /\ Hinted(u, m)
    BY <1>1, <1>3 DEF LastUpdate, Hinted
  <2>2. ASSUME NEW j \in (m + 1)..k, Hinted(u, j) PROVE DeletedIn(u, k, "vetted", u[j].id)
    <3>1. j \in 1..k
      OBVIOUS
    <3>2. u[j] = t[j] /\ Hinted(t, j)
      BY <1>1, <2>2, <3>1 DEF Hinted
    <3>3. DeletedIn(t, k, "vetted", t[j].id)
      BY <1>3, <3>2 DEF LastUpdate
    <3> QED
      BY <3>2, <3>3, DeletedGrows
  <2> QED
    BY <1>3, <2>1, <2>2 DEF LastUpdate
<1> QED
  BY <1>2, <1>3 DEF Under

\* A step that adds no leaf, and after which the index knows the deletions.
LEMMA UpdatesStay ==
  ASSUME CInv, UpdatesInv, tree' = tree, orphans' = orphans, Len(late') \in Nat,
         Len(late) <= Len(late'), orphans = {} => ShownInv'
  PROVE  UpdatesInv'
<1> SUFFICES ASSUME orphans = {} PROVE TimesInv' /\ HintsInv' /\ ShownInv' /\ UnderInv'
  BY DEF UpdatesInv
<1>1. TimesInv /\ HintsInv /\ UnderInv /\ ShownInv'
  BY DEF UpdatesInv
<1>2. Len(tree) \in Nat /\ Len(late) \in Nat
  BY LogDomain DEF CInv, TreeInv
<1>3. TimesInv'
  <2> SUFFICES ASSUME NEW n \in 1..Len(tree)
               PROVE  /\ tree[n].ts \in 0..(Len(tree) + Len(late') - 1)
                      /\ \A m \in 1..Len(tree) : n < m => tree[n].ts < tree[m].ts
    BY DEF TimesInv
  <2>1. /\ tree[n].ts \in 0..(Len(tree) + Len(late) - 1)
        /\ \A m \in 1..Len(tree) : n < m => tree[n].ts < tree[m].ts
    BY <1>1 DEF TimesInv
  <2> QED
    BY <1>2, <2>1
<1>4. HintsInv' /\ UnderInv'
  BY <1>1 DEF HintsInv, UnderInv, DeletedIn
<1> QED
  BY <1>1, <1>3, <1>4

\* What a write sees to.
FitsUpdates(l, c, e) ==
  /\ l.ts = Len(tree) + Len(late)
  /\ l.thread # -1 => Under(l, tree, Len(tree))
  /\ l.kind = "add" =>
       \/ DeletedIn(tree, Len(tree), state, c)
       \/ \A n \in 1..Len(tree) :
            tree[n].kind = "add" /\ tree[n].state = state /\ tree[n].id = c =>
              tree[n].hint = l.hint /\ l.ver # 1
  /\ e.del = 0 => l.kind # "del" /\ ~DeletedIn(tree, Len(tree), state, c)

LEMMA UpdatesSaved ==
  ASSUME CInv, ThreadInv, UpdatesInv, NEW l, NEW c, NEW e, Saved(l, c, e),
         l.state = state, l.id = c, orphans = {} => FitsUpdates(l, c, e)
  PROVE  UpdatesInv'
<1>1. /\ tree' = Append(tree, l) /\ orphans' = orphans /\ late' = late
  BY DEF Saved
<1> SUFFICES ASSUME orphans = {} PROVE TimesInv' /\ HintsInv' /\ ShownInv' /\ UnderInv'
  BY <1>1 DEF UpdatesInv
<1>2. /\ TimesInv /\ HintsInv /\ ShownInv /\ UnderInv /\ FitsUpdates(l, c, e)
      /\ \A n \in 1..Len(tree) : tree[n].id \in DOMAIN ridx[tree[n].state]
  BY DEF UpdatesInv, ThreadInv
<1>3. /\ Len(tree) \in Nat /\ Len(tree') = Len(tree) + 1 /\ tree'[Len(tree) + 1] = l
      /\ Grows(tree, tree') /\ Len(late) \in Nat
  BY <1>1, Appended, LogDomain DEF CInv, TreeInv
<1>4. ASSUME NEW n \in 1..Len(tree')
      PROVE  (n \in 1..Len(tree) /\ tree'[n] = tree[n]) \/ (n = Len(tree) + 1 /\ tree'[n] = l)
  <2>1. n \in 1..Len(tree) \/ n = Len(tree) + 1
    BY <1>3
  <2> QED
    BY <1>3, <2>1 DEF Grows
<1>5. TimesInv'
  <2>1. \A n \in 1..Len(tree) : tree[n].ts \in Nat /\ tree[n].ts < Len(tree) + Len(late)
    <3> TAKE n \in 1..Len(tree)
    <3>1. tree[n].ts \in 0..(Len(tree) + Len(late) - 1)
      BY <1>2 DEF TimesInv
    <3> QED
      BY <1>3, <3>1
  <2>2. l.ts = Len(tree) + Len(late)
    BY <1>2 DEF FitsUpdates
  <2>3. ASSUME NEW n \in 1..Len(tree')
        PROVE  tree'[n].ts \in 0..(Len(tree') + Len(late') - 1)
    BY <1>1, <1>3, <1>4, <2>1, <2>2
  <2>4. ASSUME NEW n \in 1..Len(tree'), NEW m \in 1..Len(tree'), n < m
        PROVE  tree'[n].ts < tree'[m].ts
    <3>1. n \in 1..Len(tree) /\ tree'[n] = tree[n]
      BY <1>3, <1>4, <2>4
    <3>2. CASE m \in 1..Len(tree) /\ tree'[m] = tree[m]
      BY <1>2, <2>4, <3>1, <3>2 DEF TimesInv
    <3>3. CASE tree'[m] = l
      BY <2>1, <2>2, <3>1, <3>3
    <3> QED
      BY <1>4, <3>2, <3>3
  <2> QED
    BY <2>3, <2>4 DEF TimesInv
<1>6. \A s, d : DeletedIn(tree, Len(tree), s, d) => DeletedIn(tree', Len(tree'), s, d)
  BY <1>3, DeletedGrows
<1>7. HintsInv'
  <2> SUFFICES ASSUME NEW n \in 1..Len(tree'), NEW m \in 1..Len(tree'),
                      tree'[n].kind = "add", tree'[m].kind = "add",
                      tree'[n].state = tree'[m].state, tree'[n].id = tree'[m].id,
                      ~DeletedIn(tree', Len(tree'), tree'[n].state, tree'[n].id)
               PROVE  tree'[n].hint = tree'[m].hint
                      /\ (tree'[n].ver = 1 /\ tree'[m].ver = 1 => n = m)
    BY DEF HintsInv
  <2>1. ~DeletedIn(tree, Len(tree), tree'[n].state, tree'[n].id)
    BY <1>6
  <2>2. CASE n \in 1..Len(tree) /\ tree'[n] = tree[n] /\ m \in 1..Len(tree) /\ tree'[m] = tree[m]
    BY <1>2, <2>1, <2>2 DEF HintsInv
  <2>3. ASSUME l.kind = "add", ~DeletedIn(tree, Len(tree), state, c), NEW k \in 1..Len(tree),
               tree[k].kind = "add", tree[k].state = state, tree[k].id = c
        PROVE  tree[k].hint = l.hint /\ l.ver # 1
    BY <1>2, <2>3 DEF FitsUpdates
  <2>4. CASE tree'[n] = l /\ m \in 1..Len(tree) /\ tree'[m] = tree[m]
    BY <2>1, <2>3, <2>4
  <2>5. CASE tree'[m] = l /\ n \in 1..Len(tree) /\ tree'[n] = tree[n]
    BY <2>1, <2>3, <2>5
  <2>6. CASE tree'[n] = l /\ n = Len(tree) + 1 /\ tree'[m] = l /\ m = Len(tree) + 1
    BY <2>6
  <2> QED
    BY <1>4, <2>2, <2>4, <2>5, <2>6
<1>8. ShownInv'
  <2>1. /\ \A s \in States : s # state => ridx'[s] = ridx[s]
        /\ ridx'[state][c] = e
        /\ \A d \in DOMAIN ridx[state] : d # c => ridx'[state][d] = ridx[state][d]
    BY SavedIndexIs DEF CInv
  <2> SUFFICES ASSUME NEW d \in 1..Len(tree'), tree'[d].kind = "del"
               PROVE  ridx'[tree'[d].state][tree'[d].id].del # 0
    BY DEF ShownInv
  <2>2. CASE tree'[d] = l
    BY <1>2, <2>1, <2>2 DEF FitsUpdates
  <2>3. CASE d \in 1..Len(tree) /\ tree'[d] = tree[d]
    <3>1. /\ tree[d].state \in States /\ tree[d].id \in DOMAIN ridx[tree[d].state]
          /\ ridx[tree[d].state][tree[d].id].del # 0
      BY <1>2, <2>3 DEF ShownInv, CInv, TreeInv, LeafOk
    <3>2. CASE tree[d].state = state /\ tree[d].id = c
      <4>1. DeletedIn(tree, Len(tree), state, c)
        BY <2>3, <3>2 DEF DeletedIn
      <4> QED
        BY <1>2, <2>1, <2>3, <3>2, <4>1 DEF FitsUpdates
    <3>3. CASE tree[d].state # state \/ tree[d].id # c
      BY <2>1, <2>3, <3>1, <3>3
    <3> QED
      BY <3>2, <3>3
  <2> QED
    BY <1>4, <2>2, <2>3
<1>9. UnderInv'
  <2> SUFFICES ASSUME NEW n \in 1..Len(tree'), NEW x, x = tree'[n], x.thread # -1
               PROVE  Under(x, tree', n - 1)
    BY DEF UnderInv
  <2>1. CASE n \in 1..Len(tree) /\ x = tree[n]
    <3>1. Under(x, tree, n - 1)
      BY <1>2, <2>1 DEF UnderInv
    <3>2. n - 1 \in Nat /\ n - 1 <= Len(tree)
      BY <1>3, <2>1
    <3> QED
      BY <1>3, <3>1, <3>2, UnderGrows
  <2>2. CASE n = Len(tree) + 1 /\ x = l
    <3>1. Under(x, tree, Len(tree))
      BY <1>2, <2>2 DEF FitsUpdates
    <3>2. n - 1 = Len(tree)
      BY <1>3, <2>2
    <3> QED
      BY <1>3, <3>1, <3>2, UnderGrows
  <2> QED
    BY <1>4, <2>1, <2>2
<1> QED
  BY <1>5, <1>7, <1>8, <1>9

\* A comment that is read as not deleted: no leaf deletes it, and its versions are
\* leaves with the hint that is read.
LEMMA UndeletedIs ==
  ASSUME CInv, ThreadInv, UpdatesInv, orphans = {}, NEW c \in DOMAIN recordIndex, ~Deleted(c)
  PROVE  \E n \in 1..Len(tree) :
           /\ ~DeletedIn(tree, Len(tree), state, c)
           /\ n = recordIndex[c].adds[1]
           /\ tree[n].kind = "add" /\ tree[n].state = state /\ tree[n].id = c /\ tree[n].ver = 1
           /\ tree[n].hint = comment(c).hint
           /\ \A m \in 1..Len(tree) :
                tree[m].kind = "add" /\ tree[m].state = state /\ tree[m].id = c =>
                  tree[m].hint = comment(c).hint /\ (tree[m].ver = 1 => m = n)
<1>1. EntryOk(ridx[state][c], state, c, tree)
  BY IndexSays DEF CInv, recordIndex
<1>2. ridx[state][c].del = 0
  BY DEF Deleted, recordIndex
<1>3. HintsInv /\ ShownInv
  BY DEF UpdatesInv
<1>4. ~DeletedIn(tree, Len(tree), state, c)
  BY <1>2, <1>3 DEF DeletedIn, ShownInv
<1>5. PICK n : n = ridx[state][c].adds[1]
  OBVIOUS
<1>6. Is(tree, n, "add", state, c) /\ tree[n].ver = 1
  BY <1>1, <1>5 DEF EntryOk
<1>7. PICK v : v = commentVersionLatest(ridx[state][c])
  OBVIOUS
<1>8. v \in DOMAIN ridx[state][c].adds
  BY <1>1, <1>7, LatestIs DEF CInv
<1>9. PICK k : k = ridx[state][c].adds[v]
  OBVIOUS
<1>10. Is(tree, k, "add", state, c)
  BY <1>1, <1>8, <1>9 DEF EntryOk
<1>11. comment(c) = tree[k]
  BY <1>7, <1>9 DEF comment, recordIndex, Leaf
<1>12. \A m, j \in 1..Len(tree) :
         Is(tree, m, "add", state, c) /\ Is(tree, j, "add", state, c) =>
           tree[m].hint = tree[j].hint /\ (tree[m].ver = 1 /\ tree[j].ver = 1 => m = j)
  BY <1>3, <1>4 DEF HintsInv, Is
<1>13. n \in 1..Len(tree) /\ k \in 1..Len(tree)
  BY <1>6, <1>10 DEF Is
<1>14. ASSUME NEW m \in 1..Len(tree), Is(tree, m, "add", state, c)
       PROVE  tree[m].hint = comment(c).hint /\ (tree[m].ver = 1 => m = n)
  BY <1>6, <1>10, <1>11, <1>12, <1>13, <1>14
<1> QED
  BY <1>4, <1>5, <1>6, <1>13, <1>14 DEF Is, recordIndex

\* The latest update is the last leaf with the hint of a comment that is not deleted.
LEMMA LatestIsLast ==
  ASSUME CInv, LinksInv, ThreadInv, UpdatesInv, orphans = {}, state = "vetted",
         latestAuthorUpdate # 0
  PROVE  \E m \in 1..Len(tree) :
           tree[m].id = latestAuthorUpdate /\ LastUpdate(tree, m, Len(tree))
<1> DEFINE updates == {c \in DOMAIN recordIndex : comment(c).hint = "update"}
           newer(c, d) == CreatedAt(c) > CreatedAt(d) \/ (CreatedAt(c) = CreatedAt(d) /\ c >= d)
<1>1. /\ Len(tree) \in Nat /\ Len(late) \in Nat /\ TimesInv
      /\ \A n \in 1..Len(tree) : tree[n].id \in DOMAIN ridx[tree[n].state]
  BY LogDomain DEF UpdatesInv, CInv, TreeInv, ThreadInv
\* The first version of an update is a leaf with the hint.
<1>2. ASSUME NEW c \in updates
      PROVE  \E n \in 1..Len(tree) :
               /\ tree[n].id = c /\ Hinted(tree, n) /\ CreatedAt(c) = tree[n].ts
  <2>1. ~Deleted(c)
    <3>1. SUFFICES ASSUME Deleted(c) PROVE FALSE
      OBVIOUS
    <3>2. EntryOk(ridx[state][c], state, c, tree)
      BY IndexSays DEF CInv, recordIndex
    <3>3. PICK n : n = ridx[state][c].del
      OBVIOUS
    <3>4. Is(tree, n, "del", state, c)
      BY <3>1, <3>2, <3>3 DEF Deleted, recordIndex, EntryOk
    <3>5. PICK l : l = tree[n]
      OBVIOUS
    <3>6. IsLeaf(l)
      BY <3>4, <3>5 DEF Is, CInv, TreeInv, LeafOk
    <3>7. comment(c) = [l EXCEPT !.ver = 0, !.hint = "none"]
      BY <3>1, <3>3, <3>5 DEF comment, recordIndex, Leaf
    <3>8. comment(c).hint = "none"
      BY <3>6, <3>7 DEF IsLeaf
    <3> QED
      BY <3>8
  <2> QED
    BY <2>1, UndeletedIs DEF Hinted, CreatedAt, Leaf
\* And a leaf with the hint is the first version of an update, or it is deleted.
<1>3. ASSUME NEW j \in 1..Len(tree), Hinted(tree, j),
             ~DeletedIn(tree, Len(tree), "vetted", tree[j].id)
      PROVE  tree[j].id \in updates /\ CreatedAt(tree[j].id) = tree[j].ts
  <2>1. PICK c : c = tree[j].id
    OBVIOUS
  <2>2. c \in DOMAIN recordIndex
    BY <1>1, <1>3, <2>1 DEF recordIndex, Hinted
  <2>3. ~Deleted(c)
    <3>1. EntryOk(ridx[state][c], state, c, tree)
      BY <2>2, IndexSays DEF CInv, recordIndex
    <3> QED
      BY <1>3, <2>1, <3>1 DEF EntryOk, Is, DeletedIn, Deleted, recordIndex
  <2>4. tree[j].hint = comment(c).hint /\ j = recordIndex[c].adds[1]
    BY <1>3, <2>1, <2>2, <2>3, UndeletedIs DEF Hinted
  <2> QED
    BY <1>3, <2>1, <2>2, <2>4 DEF Hinted, CreatedAt, Leaf
<1>4. updates \subseteq 0..MaxComments /\ MaxComments \in Nat
  BY ParentsAreSmaller
<1>5. latestAuthorUpdate = IF updates = {} THEN 0
                           ELSE CHOOSE c \in updates : \A d \in updates : newer(c, d)
  BY DEF latestAuthorUpdate
<1> HIDE DEF updates
<1>6. updates # {}
  BY <1>5
<1>7. PICK B \in Nat : \A c \in updates : CreatedAt(c) \in 0..B
  <2>1. PICK B \in Nat : B = Len(tree) + Len(late)
    BY <1>1
  <2>2. ASSUME NEW c \in updates PROVE CreatedAt(c) \in 0..B
    <3>1. PICK n \in 1..Len(tree) : CreatedAt(c) = tree[n].ts
      BY <1>2
    <3>2. tree[n].ts \in 0..(Len(tree) + Len(late) - 1)
      BY <1>1 DEF TimesInv
    <3> QED
      BY <1>1, <2>1, <3>1, <3>2
  <2> QED
    BY <2>2
<1>8. \E c \in updates : \A d \in updates : newer(c, d)
  <2>1. PICK T : T = {CreatedAt(c) : c \in updates}
    OBVIOUS
  <2>2. T \subseteq 0..B /\ T # {}
    BY <1>6, <1>7, <2>1
  <2>3. PICK x \in T : \A y \in T : y <= x
    BY <2>2, Greatest
  <2>4. PICK S : S = {c \in updates : CreatedAt(c) = x}
    OBVIOUS
  <2>5. S \subseteq 0..MaxComments /\ S # {}
    BY <1>4, <2>1, <2>3, <2>4
  <2>6. PICK c \in S : \A d \in S : d <= c
    BY <1>4, <2>5, Greatest
  <2>7. ASSUME NEW d \in updates PROVE newer(c, d)
    <3>1. c \in updates /\ CreatedAt(c) = x /\ CreatedAt(d) <= x
      BY <2>1, <2>3, <2>4
    <3>2. CreatedAt(c) \in Nat /\ CreatedAt(d) \in Nat /\ c \in Nat /\ d \in Nat
      BY <1>4, <1>7, <3>1
    <3>3. CASE CreatedAt(d) = x
      <4>1. d <= c
        BY <2>4, <2>6, <3>3
      <4> QED
        BY <3>1, <3>2, <3>3, <4>1
    <3>4. CASE CreatedAt(d) # x
      BY <3>1, <3>2, <3>4
    <3> QED
      BY <3>3, <3>4
  <2> QED
    BY <2>4, <2>7
<1>9. PICK c : c = latestAuthorUpdate
  OBVIOUS
<1>10. c \in updates /\ \A d \in updates : newer(c, d)
  <2> HIDE DEF newer
  <2> QED
    BY <1>5, <1>6, <1>8, <1>9
<1>11. PICK m \in 1..Len(tree) : tree[m].id = c /\ Hinted(tree, m) /\ CreatedAt(c) = tree[m].ts
  BY <1>2, <1>10
<1>12. ASSUME NEW j \in (m + 1)..Len(tree), Hinted(tree, j),
              ~DeletedIn(tree, Len(tree), "vetted", tree[j].id)
       PROVE  FALSE
  <2>1. j \in 1..Len(tree) /\ m < j
    BY <1>1, <1>11
  <2>2. PICK d : d = tree[j].id
    OBVIOUS
  <2>3. d \in updates /\ CreatedAt(d) = tree[j].ts
    BY <1>3, <1>12, <2>1, <2>2
  <2>4. tree[m].ts < tree[j].ts
    BY <1>1, <2>1 DEF TimesInv
  <2>5. CreatedAt(c) \in Nat /\ CreatedAt(d) \in Nat /\ CreatedAt(c) < CreatedAt(d)
    BY <1>7, <1>10, <1>11, <2>3, <2>4
  <2>6. newer(c, d)
    BY <1>10, <2>3
  <2> QED
    BY <2>5, <2>6
<1> QED
  BY <1>9, <1>11, <1>12 DEF LastUpdate

\* A write, whether its index is saved or not.
LEMMA UpdatesWritten ==
  ASSUME CInv, CInv', ThreadInv, UpdatesInv, NEW l, NEW c, NEW e,
         Saved(l, c, e) \/ (CommandLost(l) /\ state' = state),
         l.state = state, l.id = c, orphans = {} => FitsUpdates(l, c, e)
  PROVE  UpdatesInv'
<1>1. CASE Saved(l, c, e)
  BY <1>1, UpdatesSaved
<1>2. CASE CommandLost(l)
  <2>1. tree' = tree /\ late' = Append(late, l) /\ ridx' = ridx /\ orphans' = orphans
    BY <1>2 DEF CommandLost
  <2>2. Len(late) \in Nat /\ Len(late') = Len(late) + 1
    BY <2>1, Appended DEF CInv, TreeInv
  <2>3. orphans = {} => ShownInv'
    BY <2>1 DEF UpdatesInv, ShownInv
  <2> QED
    BY <2>1, <2>2, <2>3, UpdatesStay
<1> QED
  BY <1>1, <1>2

LEMMA NewUpdates ==
  ASSUME CInv, CInv', LinksInv, ThreadInv, UpdatesInv, NEW u, NEW parent \in {0} \cup CommentIDs,
         NEW hint, cmdNew(u, parent, hint)
  PROVE  UpdatesInv'
<1>1. PICK c : c = NewCommentID
  OBVIOUS
<1>2. PICK l : l = NewLeaf("add", c, 1, u, parent, hint, 0)
  OBVIOUS
<1>3. PICK e : e = [adds |-> [v \in {1} |-> digest], del |-> 0, votes |-> NoVotes]
  OBVIOUS
<1>4. /\ Save(l, c, e) /\ Other /\ c \in CommentIDs
      /\ WritesAllowed(NewAllowedOnApproved(u, parent, hint))
  BY <1>1, <1>2, <1>3 DEF cmdNew, commentExists
<1>5. Saved(l, c, e) \/ (CommandLost(l) /\ state' = state)
  BY <1>4, SaveIs
<1>6. /\ l.kind = "add" /\ l.id = c /\ l.ver = 1 /\ l.user = u /\ l.parent = parent
      /\ l.state = state /\ l.hint = hint /\ l.ts = Len(tree) + Len(late)
      /\ l.thread # -1 =>
           state = "vetted" /\ vote = "approved" /\ l.thread = latestAuthorUpdate
  BY <1>2 DEF NewLeaf
<1>7. c \notin DOMAIN recordIndex
  BY <1>1, NextID
<1>8. ASSUME orphans = {} PROVE FitsUpdates(l, c, e)
  <2>1. \A n \in 1..Len(tree) : ~(tree[n].state = state /\ tree[n].id = c)
    BY <1>7, <1>8 DEF ThreadInv, recordIndex
  <2>2. ~DeletedIn(tree, Len(tree), state, c)
    BY <2>1 DEF DeletedIn
  <2>3. ASSUME l.thread # -1 PROVE Under(l, tree, Len(tree))
    <3>1. state = "vetted" /\ vote = "approved" /\ l.thread = latestAuthorUpdate
      BY <1>6, <2>3
    <3>2. NewAllowedOnApproved(u, parent, hint)
      BY <1>4, <3>1 DEF WritesAllowed
    <3>3. CASE parent = 0
      BY <1>6, <3>1, <3>2, <3>3 DEF NewAllowedOnApproved, Under, BaseUpdate
    <3>4. CASE parent # 0
      <4>1. latestAuthorUpdate # 0
        BY <3>2, <3>4 DEF NewAllowedOnApproved, isInCommentTree
      <4> QED
        BY <1>6, <1>8, <3>1, <3>4, <4>1, LatestIsLast DEF Under
    <3> QED
      BY <3>3, <3>4
  <2> QED
    BY <1>6, <2>1, <2>2, <2>3 DEF FitsUpdates
<1> QED
  BY <1>5, <1>6, <1>8, UpdatesWritten

LEMMA EditUpdates ==
  ASSUME CInv, CInv', LinksInv, ThreadInv, UpdatesInv, NEW c \in CommentIDs, cmdEdit(c)
  PROVE  UpdatesInv'
<1>1. PICK old : old = comment(c)
  OBVIOUS
<1>2. PICK ver : ver = old.ver + 1
  OBVIOUS
<1>3. PICK k : k = NewLeaf("add", c, ver, old.user, old.parent, old.hint, 0)
  OBVIOUS
<1>4. PICK l : l = [k EXCEPT !.thread = -1]
  OBVIOUS
<1>5. PICK e : e = [recordIndex[c] EXCEPT !.adds = Put(@, ver, digest)]
  OBVIOUS
<1>6. Save(l, c, e) /\ Other /\ c \in DOMAIN recordIndex
  BY <1>1, <1>2, <1>3, <1>4, <1>5 DEF cmdEdit, commentExists
<1>7. Saved(l, c, e) \/ (CommandLost(l) /\ state' = state)
  BY <1>6, SaveIs
<1>8. /\ l.kind = "add" /\ l.id = c /\ l.ver = ver /\ l.hint = old.hint /\ l.state = state
      /\ l.thread = -1 /\ l.ts = Len(tree) + Len(late)
  <2>1. /\ k.kind = "add" /\ k.id = c /\ k.ver = ver /\ k.hint = old.hint /\ k.state = state
        /\ k.ts = Len(tree) + Len(late)
    BY <1>3 DEF NewLeaf
  <2>2. IsLeaf(k)
    BY <1>3, NewLeafIs DEF CInv
  <2>3. l = [kind |-> k.kind, id |-> k.id, ver |-> k.ver, user |-> k.user, parent |-> k.parent,
             hint |-> k.hint, vote |-> k.vote, state |-> k.state, ts |-> k.ts, thread |-> -1]
    BY <1>4, <2>2 DEF IsLeaf
  <2> QED
    BY <2>1, <2>3
<1>9. EntryOk(ridx[state][c], state, c, tree)
  BY <1>6, IndexSays DEF CInv, recordIndex
<1>10. e.del = ridx[state][c].del
  <2>1. PICK i : i = ridx[state][c]
    OBVIOUS
  <2>2. i = [adds |-> i.adds, del |-> i.del, votes |-> i.votes]
    BY <1>9, <2>1 DEF EntryOk
  <2>3. PICK p : p = Put(i.adds, ver, digest)
    OBVIOUS
  <2>4. e = [i EXCEPT !.adds = p]
    BY <1>5, <2>1, <2>3 DEF recordIndex
  <2>5. e = [adds |-> p, del |-> i.del, votes |-> i.votes]
    BY <2>2, <2>4
  <2> QED
    BY <2>1, <2>5
<1>11. ASSUME orphans = {} PROVE FitsUpdates(l, c, e)
  <2>1. CASE Deleted(c)
    <3>1. e.del # 0
      BY <1>10, <2>1 DEF Deleted, recordIndex
    <3>2. DeletedIn(tree, Len(tree), state, c)
      BY <1>9, <2>1 DEF Deleted, recordIndex, EntryOk, Is, DeletedIn
    <3> QED
      BY <1>8, <3>1, <3>2 DEF FitsUpdates
  <2>2. CASE ~Deleted(c)
    <3>1. ~DeletedIn(tree, Len(tree), state, c)
      BY <1>6, <1>11, <2>2, UndeletedIs
    <3>2. \A m \in 1..Len(tree) :
            tree[m].kind = "add" /\ tree[m].state = state /\ tree[m].id = c =>
              tree[m].hint = old.hint
      BY <1>1, <1>6, <1>11, <2>2, UndeletedIs
    <3>3. ver # 1
      <4>1. old.ver = commentVersionLatest(ridx[state][c])
            /\ commentVersionLatest(ridx[state][c]) \in DOMAIN ridx[state][c].adds
        <5>1. PICK v : v = commentVersionLatest(ridx[state][c])
          OBVIOUS
        <5>2. v \in DOMAIN ridx[state][c].adds
          BY <1>9, <5>1, LatestIs DEF CInv
        <5>3. tree[ridx[state][c].adds[v]].ver = v
          BY <1>9, <5>2 DEF EntryOk
        <5>4. old = tree[ridx[state][c].adds[v]]
          BY <1>1, <2>2, <5>1 DEF comment, recordIndex, Leaf
        <5> QED
          BY <5>1, <5>2, <5>3, <5>4
      <4>2. old.ver \in 1..Len(tree)
        BY <1>9, <4>1, LatestIs DEF CInv
      <4> QED
        BY <1>2, <4>2
    <3> QED
      BY <1>8, <3>1, <3>2, <3>3 DEF FitsUpdates
  <2> QED
    BY <2>1, <2>2
<1> QED
  BY <1>7, <1>8, <1>11, UpdatesWritten

LEMMA DelUpdates ==
  ASSUME CInv, CInv', LinksInv, ThreadInv, UpdatesInv, NEW c \in CommentIDs, cmdDel(c)
  PROVE  UpdatesInv'
<1>1. PICK l : l = DelLeaf(c)
  OBVIOUS
<1>2. PICK e : e = [recordIndex[c] EXCEPT !.del = digest]
  OBVIOUS
<1>3. c \in DOMAIN recordIndex /\ (Saved(l, c, e) \/ (CommandLost(l) /\ state' = state))
  BY <1>1, <1>2 DEF cmdDel, commentExists, Saved, Other, BlobSave, recordIndexSave, recordIndex,
                    record
<1>4. /\ l.kind = "del" /\ l.id = c /\ l.state = state /\ l.thread = -1
      /\ l.ts = Len(tree) + Len(late)
  BY <1>1 DEF DelLeaf, NewLeaf
<1>5. e.del = digest
  <2>1. PICK i : i = ridx[state][c]
    OBVIOUS
  <2>2. i = [adds |-> i.adds, del |-> i.del, votes |-> i.votes]
    BY <1>3, <2>1, IndexSays DEF EntryOk, CInv, recordIndex
  <2>3. e = [adds |-> i.adds, del |-> digest, votes |-> i.votes]
    BY <1>2, <2>1, <2>2 DEF recordIndex
  <2> QED
    BY <2>3
<1>6. e.del # 0
  BY <1>5, LogDomain DEF digest, CInv, TreeInv
<1>7. FitsUpdates(l, c, e)
  BY <1>4, <1>6 DEF FitsUpdates
<1> QED
  BY <1>3, <1>4, <1>7, UpdatesWritten

LEMMA VoteUpdates ==
  ASSUME CInv, CInv', LinksInv, ThreadInv, UpdatesInv, NEW c \in CommentIDs, NEW u, NEW v,
         cmdVote(c, u, v)
  PROVE  UpdatesInv'
<1>1. PICK l : l = NewLeaf("vote", c, 0, u, 0, "none", v)
  OBVIOUS
<1>2. PICK p : p = LET old == recordIndex[c].votes
                       mine == IF u \in DOMAIN old THEN old[u] ELSE << >>
                   IN  Put(old, u, Append(mine, digest))
  OBVIOUS
<1>3. PICK e : e = [recordIndex[c] EXCEPT !.votes = p]
  OBVIOUS
<1>4. Save(l, c, e) /\ Other /\ c \in DOMAIN recordIndex
      /\ WritesAllowed(isInCommentTree(latestAuthorUpdate, c))
  BY <1>1, <1>2, <1>3 DEF cmdVote, commentExists
<1>5. Saved(l, c, e) \/ (CommandLost(l) /\ state' = state)
  BY <1>4, SaveIs
<1>6. /\ l.kind = "vote" /\ l.id = c /\ l.state = state /\ l.ts = Len(tree) + Len(late)
      /\ l.thread # -1 =>
           state = "vetted" /\ vote = "approved" /\ l.thread = latestAuthorUpdate
  BY <1>1 DEF NewLeaf
<1>7. e.del = ridx[state][c].del
  <2>1. PICK i : i = ridx[state][c]
    OBVIOUS
  <2>2. i = [adds |-> i.adds, del |-> i.del, votes |-> i.votes]
    BY <1>4, <2>1, IndexSays DEF EntryOk, CInv, recordIndex
  <2>3. e = [adds |-> i.adds, del |-> i.del, votes |-> p]
    BY <1>3, <2>1, <2>2 DEF recordIndex
  <2> QED
    BY <2>1, <2>3
<1>8. ASSUME orphans = {} PROVE FitsUpdates(l, c, e)
  <2>1. e.del = 0 => ~DeletedIn(tree, Len(tree), state, c)
    BY <1>4, <1>7, <1>8, UndeletedIs DEF Deleted, recordIndex
  <2>2. ASSUME l.thread # -1 PROVE Under(l, tree, Len(tree))
    <3>1. state = "vetted" /\ vote = "approved" /\ l.thread = latestAuthorUpdate
      BY <1>6, <2>2
    <3>2. c = latestAuthorUpdate \/ latestAuthorUpdate # 0
      BY <1>4, <3>1 DEF WritesAllowed, isInCommentTree
    <3>3. latestAuthorUpdate # 0
      BY <3>2 DEF CommentIDs
    <3> QED
      BY <1>6, <1>8, <3>1, <3>3, LatestIsLast DEF Under
  <2> QED
    BY <1>6, <2>1, <2>2 DEF FitsUpdates
<1> QED
  BY <1>5, <1>6, <1>8, UpdatesWritten

\* The rebuilt index has the deletions of the tree.
LEMMA FsckUpdates ==
  ASSUME CInv, ThreadInv, UpdatesInv, fsckSaved
  PROVE  UpdatesInv'
<1>1. PICK ids : ids = {Leaf(n).id : n \in Current("add") \cup Current("del")}
  OBVIOUS
<1>2. PICK x : x = [c \in ids |-> Rebuilt(c)]
  OBVIOUS
<1>3. /\ ridx' = [ridx EXCEPT ![state] = x]
      /\ UNCHANGED <<state, tree, late, orphans>>
  BY <1>1, <1>2 DEF fsckSaved, record, leaves
<1>4. state \in States /\ DOMAIN tree = 1..Len(tree) /\ Len(tree) \in Nat /\ Len(late) \in Nat
  BY LogDomain DEF CInv, TreeInv
<1>5. ridx'[state] = x /\ \A s \in States : s # state => ridx'[s] = ridx[s]
  BY <1>3, <1>4 DEF CInv, IndexInv
<1>6. ASSUME orphans = {}, NEW d \in 1..Len(tree), tree[d].kind = "del"
      PROVE  ridx'[tree[d].state][tree[d].id].del # 0
  <2>1. CASE tree[d].state # state
    <3>1. tree[d].state \in States
      BY DEF CInv, TreeInv, LeafOk
    <3> QED
      BY <1>5, <1>6, <2>1, <3>1 DEF UpdatesInv, ShownInv
  <2>2. CASE tree[d].state = state
    <3>1. PICK c : c = tree[d].id
      OBVIOUS
    <3>2. d \in Current("del")
      BY <1>4, <1>6, <2>2 DEF Current, Leaf
    <3>3. c \in ids
      BY <1>1, <3>1, <3>2 DEF Leaf
    <3>4. PICK D : D = {n \in Current("del") : Leaf(n).id = c}
      OBVIOUS
    <3>5. d \in D /\ D \subseteq 0..Len(tree)
      BY <1>4, <3>1, <3>2, <3>4 DEF Leaf, Current
    <3>6. d <= Max0(D) /\ Max0(D) \in D
      BY <1>4, <3>5, Max0Is
    <3>7. Max0(D) # 0
      BY <1>4, <3>5, <3>6
    <3>8. Rebuilt(c).del = Max0(D)
      BY <3>4 DEF Rebuilt, LastLeaf
    <3> QED
      BY <1>2, <1>5, <2>2, <3>1, <3>3, <3>7, <3>8
  <2> QED
    BY <2>1, <2>2
<1>7. orphans = {} => ShownInv'
  BY <1>3, <1>6 DEF ShownInv
<1> QED
  BY <1>3, <1>4, <1>7, UpdatesStay

LEMMA RestUpdates ==
  ASSUME CInv, UpdatesInv, UNCHANGED <<tree, late, ridx, orphans>>
  PROVE  UpdatesInv'
<1>1. Len(late) \in Nat
  BY LogDomain DEF CInv, TreeInv
<1>2. orphans = {} => ShownInv'
  BY DEF UpdatesInv, ShownInv
<1> QED
  BY <1>1, <1>2, UpdatesStay

LEMMA NextUpdates ==
  CInv /\ CInv' /\ LinksInv /\ ThreadInv /\ UpdatesInv /\ [Next]_vars => UpdatesInv'
<1> SUFFICES ASSUME CInv, CInv', LinksInv, ThreadInv, UpdatesInv, [Next]_vars PROVE UpdatesInv'
  OBVIOUS
<1>1. ASSUME NEW u \in Users, NEW in \in NewInputs, cmdNew(u, in[1], in[2])
      PROVE  UpdatesInv'
  <2>1. in[1] \in {0} \cup CommentIDs
    BY DEF NewInputs
  <2> QED
    BY <1>1, <2>1, NewUpdates
<1>2. ASSUME NEW c \in CommentIDs, cmdEdit(c) PROVE UpdatesInv'
  BY <1>2, EditUpdates
<1>3. ASSUME NEW c \in CommentIDs, cmdDel(c) PROVE UpdatesInv'
  BY <1>3, DelUpdates
<1>4. ASSUME NEW c \in CommentIDs, NEW u \in Users, NEW v \in {1, -1}, cmdVote(c, u, v)
      PROVE  UpdatesInv'
  BY <1>4, VoteUpdates
\* From a late leaf on nothing is promised.
<1>5. CASE Integrate
  BY <1>5 DEF Integrate, UpdatesInv
<1>6. CASE fsckRecordIndex
  <2>1. CASE fsckSaved
    BY <2>1, FsckUpdates
  <2>2. CASE UNCHANGED <<record, leaves, ridx, deleting, orphans, kept>>
    BY <2>2, RestUpdates DEF leaves
  <2> QED
    BY <1>6, <2>1, <2>2, FsckIs
<1>7. CASE BlobsDel \/ BlobsDelError \/ AnchorTree
  BY <1>7, RestUpdates DEF BlobsDel, BlobsDelError, AnchorTree, leaves, index, history
<1>8. ASSUME NEW c \in CommentIDs, NEW b \in BOOLEAN, cmdTimestamps(c, b) PROVE UpdatesInv'
  BY <1>8, RestUpdates DEF cmdTimestamps, leaves, index, history
<1>9. CASE MakePublic \/ VoteEnds
  BY <1>9, RestUpdates DEF MakePublic, VoteEnds, RestUnchanged, leaves, index, history
<1>10. ASSUME NEW s \in BillingStatuses, cmdSetBillingStatus(s) PROVE UpdatesInv'
  BY <1>10, RestUpdates DEF cmdSetBillingStatus, RestUnchanged, leaves, index, history
<1>11. CASE UNCHANGED vars
  BY <1>11, RestUpdates DEF vars, leaves, index, history
<1> QED
  BY <1>1, <1>2, <1>3, <1>4, <1>5, <1>6, <1>7, <1>8, <1>9, <1>10, <1>11 DEF Next

LEMMA InitUpdates == Init => UpdatesInv
<1> SUFFICES ASSUME Init PROVE UpdatesInv
  OBVIOUS
<1>1. Len(tree) = 0
  BY DEF Init
<1> QED
  BY <1>1 DEF UpdatesInv, TimesInv, HintsInv, ShownInv, UnderInv

LEMMA ThreadsImply ==
  CInv /\ LinksInv /\ ThreadInv /\ UpdatesInv => ApprovedWritesAreInUpdateThreads
<1> SUFFICES ASSUME CInv, LinksInv, ThreadInv, UpdatesInv, orphans = {},
                    \A n \in DOMAIN tree : IsHinted(n) => tree[n].parent = 0 /\ tree[n].thread # -1,
                    NEW n \in DOMAIN tree, tree[n].thread # -1,
                    ~(IsHinted(n) /\ tree[n].parent = 0 /\ tree[n].user = Author)
             PROVE  \E m \in 1..(n - 1), c \in CommentIDs :
                      /\ IsUpdateOf(m, n)
                      /\ c = IF tree[n].kind = "vote" THEN tree[n].id ELSE tree[n].parent
                      /\ tree[n].thread \in Thread(c)
  BY DEF ApprovedWritesAreInUpdateThreads, Leaf
<1>1. DOMAIN tree = 1..Len(tree) /\ Len(tree) \in Nat
  BY LogDomain DEF CInv, TreeInv
<1>2. \A k : IsHinted(k) <=> Hinted(tree, k)
  BY DEF IsHinted, Hinted, Leaf
<1>3. PICK l : l = tree[n]
  OBVIOUS
<1>4. /\ Threaded(l) /\ Under(l, tree, n - 1)
      /\ \A k \in 1..Len(tree) : \A x : x = tree[k] /\ x.thread # -1 => Threaded(x)
  BY <1>1, <1>3 DEF ThreadInv, Tagged, UpdatesInv, UnderInv
<1>5. ~BaseUpdate(l)
  BY <1>2, <1>3 DEF BaseUpdate, Hinted
<1>6. PICK m \in 1..(n - 1) : tree[m].id = l.thread /\ LastUpdate(tree, m, n - 1)
  BY <1>4, <1>5 DEF Under
<1>7. l.kind = "vote" \/ l.parent # 0
  BY <1>4, <1>5 DEF Under
<1>8. m \in 1..Len(tree) /\ IsHinted(m)
  BY <1>1, <1>2, <1>6 DEF LastUpdate
\* The update was made on the approved proposal, so by the author.
<1>9. tree[m].user = Author
  <2>1. PICK x : x = tree[m]
    OBVIOUS
  <2>2. x.parent = 0 /\ x.kind = "add" /\ Threaded(x)
    BY <1>1, <1>4, <1>8, <2>1 DEF IsHinted, Leaf
  <2> QED
    BY <2>1, <2>2 DEF Threaded, CommentIDs
<1>10. IsUpdateOf(m, n)
  BY <1>2, <1>3, <1>6, <1>8, <1>9 DEF IsUpdateOf, LastUpdate, DeletedIn, Leaf
<1>11. PICK c \in CommentIDs : /\ c = IF l.kind = "vote" THEN l.id ELSE l.parent
                               /\ l.thread \in Thread(c)
  BY <1>4, <1>7 DEF Threaded
<1> QED
  BY <1>3, <1>10, <1>11

\* As long as no leaf was integrated behind the back of its command, and if nobody
\* put the hint of an update on a comment before the vote ended or on a reply: the
\* author alone has started threads on the approved proposal, and every other
\* comment and vote was made in the thread of the author's latest update of that
\* time, and still is in it after edits, deletions and rebuilt indexes
\* (writesAllowedOnApprovedProposal, latestAuthorUpdate, isInCommentTree).
THEOREM ThreadsAreKept == Spec => []ApprovedWritesAreInUpdateThreads
<1>1. Init => CInv /\ LinksInv /\ ThreadInv /\ UpdatesInv
  BY InitHolds, InitThreads, InitUpdates
<1>2. CInv /\ LinksInv /\ ThreadInv /\ UpdatesInv /\ [Next]_vars =>
        CInv' /\ LinksInv' /\ ThreadInv' /\ UpdatesInv'
  BY NextKeeps, NextThreads, NextUpdates
<1> QED
  BY <1>1, <1>2, ThreadsImply, PTL DEF Spec

-----------------------------------------------------------------------------
(* Pages.  FlattenSeq is defined by a recursive function, which exists. *)

Flat(q, g, i) == IF i = 1 THEN q[i] ELSE g[i - 1] \o q[i]

LEMMA FlatExists ==
  ASSUME NEW n \in Nat, NEW q
  PROVE  \E f : f = [i \in 1..n |-> Flat(q, f, i)]
<1> DEFINE Ok(g, k) == g = [i \in 1..k |-> Flat(q, g, i)]
           B == {k \in 0..n : ~ \E g : Ok(g, k)}
<1>1. B = {}
  <2> SUFFICES ASSUME B # {} PROVE FALSE
    OBVIOUS
  <2>1. PICK k \in B : \A m \in B : k <= m
    <3>1. B \subseteq Nat
      OBVIOUS
    <3> HIDE DEF B
    <3> QED
      BY <3>1, Least
  <2>2. k \in 0..n /\ ~ \E g : Ok(g, k)
    OBVIOUS
  <2>3. CASE k = 0
    <3>1. PICK g : g = [i \in 1..0 |-> 0]
      OBVIOUS
    <3>2. 1..0 = {}
      OBVIOUS
    <3>3. Ok(g, 0)
      BY <3>1, <3>2
    <3> QED
      BY <2>2, <2>3, <3>3
  <2>4. CASE k # 0
    <3>1. k \in Nat /\ k - 1 \in 0..n /\ ~(k <= k - 1)
      BY <2>2, <2>4
    <3>2. k - 1 \notin B
      BY <2>1, <3>1
    <3>3. PICK g : Ok(g, k - 1)
      BY <3>1, <3>2
    <3>4. PICK h : h = [i \in 1..k |-> IF i = k THEN Flat(q, g, k) ELSE g[i]]
      OBVIOUS
    <3>5. \A i \in 1..(k - 1) : g[i] = Flat(q, g, i)
      BY <3>3
    <3>6. \A i \in 1..(k - 1) : h[i] = g[i]
      BY <3>1, <3>4
    <3>7. ASSUME NEW i \in 1..k PROVE Flat(q, h, i) = Flat(q, g, i)
      <4>1. CASE i = 1
        BY <4>1 DEF Flat
      <4>2. CASE i # 1
        <5>1. i - 1 \in 1..(k - 1)
          BY <3>1, <4>2
        <5> QED
          BY <3>6, <4>2, <5>1 DEF Flat
      <4> QED
        BY <4>1, <4>2
    <3>8. ASSUME NEW i \in 1..k PROVE h[i] = Flat(q, h, i)
      <4>1. CASE i = k
        BY <3>4, <3>7, <4>1
      <4>2. CASE i # k
        <5>1. i \in 1..(k - 1)
          BY <3>1, <4>2
        <5> QED
          BY <3>5, <3>6, <3>7, <5>1
      <4> QED
        BY <4>1, <4>2
    <3>9. Ok(h, k)
      BY <3>4, <3>8
    <3> QED
      BY <2>2, <3>9
  <2> QED
    BY <2>3, <2>4
<1>2. n \in 0..n
  OBVIOUS
<1> QED
  BY <1>1, <1>2

\* f has the concatenations of the first elements of q.
Flattens(f, q, n) == f[1] = q[1] /\ \A i \in 2..n : f[i] = f[i - 1] \o q[i]

LEMMA FlatIs ==
  ASSUME NEW n \in Nat \ {0}, NEW q, Len(q) = n
  PROVE  \E f : FlattenSeq(q) = f[n] /\ Flattens(f, q, n)
<1> DEFINE rec(g) == [i \in 1..n |-> IF i = 1 THEN q[i] ELSE g[i - 1] \o q[i]]
<1>1. PICK f : f = [i \in 1..n |-> Flat(q, f, i)]
  BY FlatExists
<1>2. f = rec(f)
  BY <1>1 DEF Flat
<1>3. PICK h : h = CHOOSE g : g = rec(g)
  OBVIOUS
<1>4. h = rec(h)
  BY <1>2, <1>3
<1>5. FlattenSeq(q) = h[n]
  BY <1>3 DEF FlattenSeq
<1>6. ASSUME NEW i \in 1..n PROVE h[i] = IF i = 1 THEN q[i] ELSE h[i - 1] \o q[i]
  <2>1. rec(h)[i] = IF i = 1 THEN q[i] ELSE h[i - 1] \o q[i]
    OBVIOUS
  <2>2. h[i] = rec(h)[i]
    <3> HIDE DEF rec
    <3> QED
      BY <1>4
  <2> QED
    BY <2>1, <2>2
<1> HIDE DEF rec
<1>7. h[1] = q[1]
  BY <1>6
<1>8. ASSUME NEW i \in 2..n PROVE h[i] = h[i - 1] \o q[i]
  <2>1. i \in 1..n /\ i # 1
    OBVIOUS
  <2> QED
    BY <1>6, <2>1
<1>9. Flattens(h, q, n)
  BY <1>7, <1>8 DEF Flattens
<1> QED
  BY <1>5, <1>9

\* A property of the prefixes that holds of the first one and goes from each to
\* the next one holds of the last one.
LEMMA Upward ==
  ASSUME NEW n \in Nat \ {0}, NEW G, 1 \in G, \A i \in 2..n : i - 1 \in G => i \in G
  PROVE  n \in G
<1> DEFINE B == {i \in 1..n : i \notin G}
<1>1. SUFFICES ASSUME n \notin G PROVE FALSE
  OBVIOUS
<1>2. PICK k \in B : \A m \in B : k <= m
  <2>1. B \subseteq Nat /\ B # {}
    BY <1>1
  <2> HIDE DEF B
  <2> QED
    BY <2>1, Least
<1>3. k \in 1..n /\ k \notin G /\ k \in Nat
  OBVIOUS
<1>4. k \in 2..n /\ k - 1 \in 1..n /\ ~(k <= k - 1)
  BY <1>3
<1>5. k - 1 \notin B
  BY <1>2, <1>4
<1>6. k - 1 \in G
  BY <1>4, <1>5
<1> QED
  BY <1>3, <1>4, <1>6

LEMMA FlatIsLog ==
  ASSUME NEW q, IsLog(q), \A i \in 1..Len(q) : IsLog(q[i])
  PROVE  IsLog(FlattenSeq(q))
<1>1. Len(q) \in Nat
  BY LogDomain
<1>2. CASE Len(q) = 0
  BY <1>2 DEF FlattenSeq
<1>3. CASE Len(q) # 0
  <2>1. PICK n \in Nat \ {0} : n = Len(q)
    BY <1>1, <1>3
  <2>2. PICK f : FlattenSeq(q) = f[n] /\ Flattens(f, q, n)
    BY <2>1, FlatIs
  <2> DEFINE G == {i \in 1..n : IsLog(f[i])}
  <2>3. 1 \in G
    BY <2>1, <2>2 DEF Flattens
  <2>4. ASSUME NEW i \in 2..n, i - 1 \in G PROVE i \in G
    <3>1. PICK A : f[i - 1] \in Seq(A)
      BY <2>4 DEF IsLog
    <3>2. PICK C : q[i] \in Seq(C)
      BY <2>1 DEF IsLog
    <3>3. f[i - 1] \in Seq(A \cup C) /\ q[i] \in Seq(A \cup C)
      BY <3>1, <3>2
    <3>4. f[i - 1] \o q[i] \in Seq(A \cup C)
      BY <3>3
    <3>5. f[i] = f[i - 1] \o q[i]
      BY <2>2 DEF Flattens
    <3>6. IsLog(f[i])
      BY <3>4, <3>5 DEF IsLog
    <3> QED
      BY <3>6
  <2>5. n \in G
    <3> HIDE DEF G
    <3> QED
      BY <2>3, <2>4, Upward
  <2> QED
    BY <2>2, <2>5
<1> QED
  BY <1>2, <1>3

\* Consecutive pieces of a sequence make up the sequence.
LEMMA Pieces ==
  ASSUME NEW S, NEW s \in Seq(S), NEW m \in Nat \ {0}, NEW q, Len(q) = m,
         NEW c, \A i \in 0..m : c[i] \in 0..Len(s), c[0] = 0, c[m] = Len(s),
         \A i \in 1..m : c[i - 1] <= c[i] /\ q[i] = SubSeq(s, c[i - 1] + 1, c[i])
  PROVE  FlattenSeq(q) = s
<1>1. PICK f : FlattenSeq(q) = f[m] /\ Flattens(f, q, m)
  BY FlatIs
<1>2. PICK z \in Nat : z = Len(s)
  OBVIOUS
<1> DEFINE G == {i \in 1..m : f[i] = SubSeq(s, 1, c[i])}
<1>3. 1 \in G
  <2>1. 1 \in 1..m /\ 1 - 1 = 0 /\ 0 + 1 = 1
    OBVIOUS
  <2>2. q[1] = SubSeq(s, c[0] + 1, c[1])
    BY <2>1
  <2>3. f[1] = SubSeq(s, 1, c[1])
    BY <1>1, <2>2 DEF Flattens
  <2> QED
    BY <2>1, <2>3
<1>4. ASSUME NEW i \in 2..m, i - 1 \in G PROVE i \in G
  <2>1. i - 1 \in 0..m /\ i \in 1..m /\ i \in 0..m
    OBVIOUS
  <2>2. PICK k : k = c[i - 1]
    OBVIOUS
  <2>3. PICK n : n = c[i]
    OBVIOUS
  <2>4. k \in 0..z /\ n \in 0..z /\ k <= n /\ q[i] = SubSeq(s, k + 1, n)
    BY <1>2, <2>1, <2>2, <2>3
  <2>5. 1 \in 1..(Len(s) + 1) /\ k \in 0..Len(s) /\ n \in k..Len(s) /\ 1 - 1 = 0
    BY <1>2, <2>4
  <2>6. SubSeq(s, 1, k) \o SubSeq(s, k + 1, n) = SubSeq(s, 1, n)
    BY <2>5, ConcatAdjacentSubSeq
  <2>7. f[i - 1] = SubSeq(s, 1, k) /\ f[i] = f[i - 1] \o q[i]
    BY <1>1, <1>4, <2>2 DEF Flattens
  <2>8. f[i] = SubSeq(s, 1, n)
    BY <2>4, <2>6, <2>7
  <2> QED
    BY <2>1, <2>3, <2>8
<1>5. m \in G
  <2> HIDE DEF G
  <2> QED
    BY <1>3, <1>4, Upward
<1>6. SubSeq(s, 1, Len(s)) = s
  BY SubSeqFull
<1> QED
  BY <1>1, <1>5, <1>6
Lower(m, n) == IF m < n THEN m ELSE n
PageRange(s, p) ==
  SubSeq(Upto(s, p * VotesPageSize + 1), (p - 1) * VotesPageSize + 1,
         Len(Upto(s, p * VotesPageSize + 1)))

LEMMA UptoIs ==
  ASSUME NEW S, NEW s \in Seq(S), NEW n \in Nat, NEW u, u = Upto(s, n),
         NEW m, m = Lower(n, Len(s))
  PROVE  m \in 0..Len(s) /\ u = SubSeq(s, 1, m) /\ u \in Seq(S) /\ Len(u) = m
<1>1. PICK z \in Nat : z = Len(s)
  OBVIOUS
<1>2. m \in 0..z
  BY <1>1 DEF Lower
<1>3. \A i \in 1..m : s[i] \in S
  BY <1>1, <1>2
<1>4. SubSeq(s, 1, m) \in Seq(S) /\ Len(SubSeq(s, 1, m)) = IF 1 <= m THEN m - 1 + 1 ELSE 0
  BY <1>2, <1>3, SubSeqProperties
<1>5. Len(SubSeq(s, 1, m)) = m
  BY <1>2, <1>4
<1>6. u = SubSeq(s, 1, m)
  BY <1>1 DEF Upto, Lower
<1> QED
  BY <1>1, <1>2, <1>4, <1>5, <1>6

\* What a page is worked out from: a is the number of votes before it.
PageArgs(s, a, K, u, m, i, r, b, e, j) ==
  /\ m = Lower(a + K + 1, Len(s)) /\ u = SubSeq(s, 1, m) /\ Len(u) = m
  /\ i = a + 1 /\ r = SubSeq(u, i, m)
  /\ b = Lower(a, Len(s)) /\ e = Lower(a + K, Len(s)) /\ j = b + 1

\* A page is the piece of the sequence from the end of the page before it.
LEMMA PageIs ==
  ASSUME NEW S, NEW s \in Seq(S), NEW a \in Nat, NEW K \in Nat \ {0},
         NEW u, NEW m, NEW i, NEW r, NEW b, NEW e, NEW j, PageArgs(s, a, K, u, m, i, r, b, e, j)
  PROVE  Upto(r, K) = SubSeq(s, j, e)
<1>1. PICK z \in Nat : z = Len(s)
  OBVIOUS
<1>2. r = SubSeq(u, i, m) /\ u = SubSeq(s, 1, m)
  BY DEF PageArgs
<1>3. CASE z <= a
  <2>1. m = z /\ e = z /\ i = a + 1 /\ j = z + 1
    BY <1>1, <1>3 DEF PageArgs, Lower
  <2>2. r = << >>
    <3>1. m \in Int /\ i \in Int /\ m < i
      BY <1>3, <2>1
    <3>2. SubSeq(u, i, m) = << >>
      BY <3>1, SubSeqEmpty
    <3> QED
      BY <1>2, <3>2
  <2>3. Upto(r, K) = << >>
    <3>1. Len(r) = 0
      <4>1. Len(<< >>) = 0
        OBVIOUS
      <4> QED
        BY <2>2, <4>1
    <3>2. Upto(r, K) = SubSeq(r, 1, 0)
      BY <3>1 DEF Upto
    <3> QED
      BY <3>2, SubSeqEmpty
  <2>4. SubSeq(s, j, e) = << >>
    <3>1. e \in Int /\ j \in Int /\ e < j
      BY <2>1
    <3> QED
      BY <3>1, SubSeqEmpty
  <2> QED
    BY <2>3, <2>4
<1>4. CASE a < z
  <2>1. i = a + 1 /\ j = i /\ m \in i..z /\ e \in i..m /\ i \in 1..z /\ m \in 1..z
    BY <1>1, <1>4 DEF PageArgs, Lower
  <2>2. PICK x : x = m - a
    OBVIOUS
  <2>3. PICK y : y = e - a
    OBVIOUS
  <2>4. x \in Nat /\ y = Lower(K, x) /\ y \in 1..x
    BY <1>1, <1>4, <2>1, <2>2, <2>3 DEF PageArgs, Lower
  <2>5. i \in 1..Len(s) /\ m \in 1..Len(s) /\ 1 \in 1..Len(s)
    BY <1>1, <2>1
  <2>6. r = SubSeq(s, i, m)
    <3>1. i \in 1..(m - 1 + 1) /\ m \in 1..(m - 1 + 1)
      BY <2>1
    <3>2. SubSeq(SubSeq(s, 1, m), i, m) = SubSeq(s, 1 + i - 1, 1 + m - 1)
      BY <2>5, <3>1, SubSeqOfSubSeq
    <3>3. 1 + i - 1 = i /\ 1 + m - 1 = m
      BY <2>1
    <3> QED
      BY <1>2, <3>2, <3>3
  <2>7. r \in Seq(S) /\ Len(r) = x
    <3>1. \A l \in i..m : s[l] \in S
      BY <1>1, <2>1
    <3>2. i \in Int /\ m \in Int
      BY <2>1
    <3>3. SubSeq(s, i, m) \in Seq(S) /\ Len(SubSeq(s, i, m)) = IF i <= m THEN m - i + 1 ELSE 0
      BY <3>1, <3>2, SubSeqProperties
    <3>4. i <= m /\ m - i + 1 = x
      BY <2>1, <2>2
    <3>5. Len(SubSeq(s, i, m)) = x
      BY <3>3, <3>4
    <3> QED
      BY <2>6, <3>3, <3>5
  <2>8. Upto(r, K) = SubSeq(r, 1, y)
    BY <2>4, <2>7 DEF Upto, Lower
  <2>9. SubSeq(SubSeq(s, i, m), 1, y) = SubSeq(s, i + 1 - 1, i + y - 1)
    <3>1. 1 \in 1..(m - i + 1) /\ y \in 1..(m - i + 1)
      BY <2>1, <2>2, <2>4
    <3> QED
      BY <2>5, <3>1, SubSeqOfSubSeq
  <2>10. i + 1 - 1 = j /\ i + y - 1 = e
    BY <2>1, <2>3
  <2> QED
    BY <2>6, <2>8, <2>9, <2>10
<1>5. z <= a \/ a < z
  OBVIOUS
<1> QED
  BY <1>3, <1>4, <1>5

\* q has the pages of s.
PagesOf(q, s) ==
  /\ Len(q) = Len(s) + 1
  /\ \A p \in 1..(Len(s) + 1) : q[p] = Upto(PageRange(s, p), VotesPageSize)

\* The pages of a sequence, one after the other, are the sequence.
LEMMA PagesAre ==
  ASSUME NEW s, IsLog(s), NEW q, PagesOf(q, s)
  PROVE  FlattenSeq(q) = s
<1>1. PICK S : s \in Seq(S)
  BY DEF IsLog
<1>2. PICK z \in Nat : z = Len(s)
  BY <1>1
<1>3. PICK K \in Nat \ {0} : K = VotesPageSize
  BY ConstantsAssumption
<1>4. PICK c : c = [p \in 0..(z + 1) |-> Lower(p * K, z)]
  OBVIOUS
<1>5. \A p \in 0..(z + 1) : p * K \in Nat
  OBVIOUS
<1>6. \A p \in 0..(z + 1) : c[p] \in 0..z
  BY <1>4, <1>5 DEF Lower
<1>7. c[0] = 0
  <2>1. 0 * K = 0 /\ 0 \in 0..(z + 1)
    OBVIOUS
  <2> QED
    BY <1>4, <2>1 DEF Lower
<1>8. c[z + 1] = z
  <2>1. z * K \in Nat /\ (z + 1) * K = z * K + K
    OBVIOUS
  <2>2. z <= z * K
    OBVIOUS
  <2>3. ~((z + 1) * K < z) /\ z + 1 \in 0..(z + 1)
    BY <2>1, <2>2
  <2> QED
    BY <1>4, <2>3 DEF Lower
<1>9. ASSUME NEW p \in 1..(z + 1)
      PROVE  c[p - 1] <= c[p] /\ q[p] = SubSeq(s, c[p - 1] + 1, c[p])
  <2>1. PICK a : a = (p - 1) * K
    OBVIOUS
  <2>2. a \in Nat /\ p * K = a + K
    BY <2>1
  <2>3. p - 1 \in 0..(z + 1) /\ p \in 0..(z + 1)
    OBVIOUS
  <2>4. PICK b : b = c[p - 1]
    OBVIOUS
  <2>5. PICK e : e = c[p]
    OBVIOUS
  <2>6. b = Lower(a, z) /\ e = Lower(a + K, z)
    BY <1>4, <2>1, <2>2, <2>3, <2>4, <2>5
  <2>7. b <= e
    BY <2>2, <2>6 DEF Lower
  <2>8. PICK n, i, j : n = a + K + 1 /\ i = a + 1 /\ j = b + 1
    OBVIOUS
  <2>9. PICK u, m, r : u = Upto(s, n) /\ m = Lower(n, Len(s)) /\ r = SubSeq(u, i, Len(u))
    OBVIOUS
  <2>10. Upto(r, K) = SubSeq(s, j, e)
    <3>1. n \in Nat
      BY <2>2, <2>8
    <3>2. m \in 0..Len(s) /\ u = SubSeq(s, 1, m) /\ Len(u) = m
      BY <1>1, <2>9, <3>1, UptoIs
    <3>3. PageArgs(s, a, K, u, m, i, r, b, e, j)
      BY <1>2, <2>6, <2>8, <2>9, <3>2 DEF PageArgs
    <3> QED
      BY <1>1, <2>2, <3>3, PageIs
  <2>11. PageRange(s, p) = r
    BY <1>3, <2>1, <2>2, <2>8, <2>9 DEF PageRange
  <2>12. q[p] = Upto(r, K)
    BY <1>2, <1>3, <2>11 DEF PagesOf
  <2> QED
    BY <2>4, <2>5, <2>7, <2>8, <2>10, <2>12
<1>10. PICK m \in Nat \ {0} : m = z + 1
  OBVIOUS
<1>11. /\ \A i \in 0..m : c[i] \in 0..Len(s)
       /\ c[m] = Len(s) /\ Len(q) = m
       /\ \A i \in 1..m : c[i - 1] <= c[i] /\ q[i] = SubSeq(s, c[i - 1] + 1, c[i])
  BY <1>2, <1>6, <1>8, <1>9, <1>10 DEF PagesOf
<1> QED
  BY <1>1, <1>7, <1>11, Pieces

\* A function on 1..n is a sequence.
LEMMA FunctionIsLog ==
  ASSUME NEW n \in Nat, NEW q, q = [i \in 1..n |-> q[i]]
  PROVE  IsLog(q) /\ Len(q) = n
<1>1. PICK S : S = {q[i] : i \in 1..n}
  OBVIOUS
<1>2. q \in [1..n -> S]
  BY <1>1
<1>3. q \in Seq(S)
  BY <1>2
<1> QED
  BY <1>3 DEF IsLog

LEMMA UsersAreLog ==
  ASSUME IsFiniteSet(Users)
  PROVE  IsLog(UserSeq)
<1>1. PICK n \in Nat : n = Cardinality(Users)
  BY FS_CardinalityType
<1>2. PICK f \in [1..n -> Users] : IsInjective(f)
  BY <1>1, FS_CardinalityType DEF ExistsBijection, Bijection, Injection
<1>3. UserSeq \in [1..n -> Users]
  BY <1>1, <1>2 DEF UserSeq, SetToSeq
<1>4. UserSeq \in Seq(Users)
  BY <1>3
<1> QED
  BY <1>4 DEF IsLog

\* The votes of one comment, and of all comments.
CommentVotes(users, c) ==
  FlattenSeq([i \in DOMAIN users |->
    IF users[i] \in DOMAIN recordIndex[c].votes
    THEN recordIndex[c].votes[users[i]] ELSE << >>])

LEMMA VotesAreLog ==
  ASSUME CInv, NEW users, IsLog(users), NEW c \in DOMAIN recordIndex
  PROVE  IsLog(CommentVotes(users, c))
<1>1. PICK v : v = recordIndex[c].votes
  OBVIOUS
<1>2. \A u \in DOMAIN v : IsLog(v[u])
  <2>1. state \in States
    BY DEF CInv, TreeInv
  <2>2. EntryOk(recordIndex[c], state, c, tree)
    BY <2>1 DEF CInv, IndexInv, recordIndex
  <2> QED
    BY <1>1, <2>2 DEF EntryOk
<1>3. PICK n \in Nat : n = Len(users) /\ DOMAIN users = 1..n
  BY LogDomain
<1>4. PICK q : q = [i \in 1..n |-> IF users[i] \in DOMAIN v THEN v[users[i]] ELSE << >>]
  OBVIOUS
<1>5. q = [i \in 1..n |-> q[i]]
  BY <1>4
<1>6. IsLog(q) /\ Len(q) = n
  BY <1>5, FunctionIsLog
<1>7. IsLog(<< >>)
  <2>1. << >> \in Seq({})
    OBVIOUS
  <2> QED
    BY <2>1 DEF IsLog
<1>8. \A i \in 1..n : IsLog(q[i])
  BY <1>2, <1>4, <1>7
<1>9. IsLog(FlattenSeq(q))
  BY <1>6, <1>8, FlatIsLog
<1> QED
  BY <1>1, <1>3, <1>4, <1>9 DEF CommentVotes

LEMMA AllVotesAreLog ==
  ASSUME CInv, NEW users, IsLog(users)
  PROVE  IsLog(AllVotes(users))
<1>1. DOMAIN recordIndex = 1..Cardinality(DOMAIN recordIndex)
  BY NoGaps
<1>2. PICK n \in Nat : n = Cardinality(DOMAIN recordIndex)
  <2>1. state \in States
    BY DEF CInv, TreeInv
  <2>2. PICK k \in Nat : DOMAIN recordIndex = 1..k
    BY <2>1 DEF CInv, IndexInv, recordIndex
  <2>3. IsFiniteSet(DOMAIN recordIndex)
    BY <2>2, FS_Interval
  <2> QED
    BY <2>3, FS_CardinalityType
<1>3. PICK q : q = [c \in 1..n |-> CommentVotes(users, c)]
  OBVIOUS
<1>4. q = [c \in 1..n |-> q[c]]
  BY <1>3
<1>5. IsLog(q) /\ Len(q) = n
  BY <1>4, FunctionIsLog
<1>6. \A c \in 1..n : IsLog(q[c])
  BY <1>1, <1>2, <1>3, VotesAreLog
<1>7. IsLog(FlattenSeq(q))
  BY <1>5, <1>6, FlatIsLog
<1> QED
  BY <1>2, <1>3, <1>7 DEF AllVotes, CommentVotes

LEMMA PagesPartition == CInv /\ IsFiniteSet(Users) => PagesPartitionVotes
<1> SUFFICES ASSUME CInv, IsFiniteSet(Users),
                    NEW users \in {UserSeq} \cup {<<u>> : u \in Users}
             PROVE  LET all == AllVotes(users)
                    IN  FlattenSeq([p \in 1..(Len(all) + 1) |->
                                      collectVoteDigestsPage(users, p)]) = all
  BY DEF PagesPartitionVotes
<1>1. IsLog(users)
  <2>1. ASSUME NEW u \in Users PROVE IsLog(<<u>>)
    <3>1. <<u>> \in Seq(Users)
      OBVIOUS
    <3> QED
      BY <3>1 DEF IsLog
  <2> QED
    BY <2>1, UsersAreLog
<1>2. PICK s : s = AllVotes(users)
  OBVIOUS
<1>3. IsLog(s)
  BY <1>1, <1>2, AllVotesAreLog
<1>4. PICK n \in Nat : n = Len(s) + 1
  BY <1>3, LogDomain
<1>5. PICK q : q = [p \in 1..n |-> collectVoteDigestsPage(users, p)]
  OBVIOUS
<1>6. q = [p \in 1..n |-> q[p]]
  BY <1>5
<1>7. Len(q) = n
  BY <1>6, FunctionIsLog
<1>8. \A p \in 1..n : q[p] = Upto(PageRange(s, p), VotesPageSize)
  BY <1>2, <1>5 DEF collectVoteDigestsPage, InPageRange, PageRange
<1>9. PagesOf(q, s)
  BY <1>4, <1>7, <1>8 DEF PagesOf
<1>10. FlattenSeq(q) = s
  BY <1>3, <1>9, PagesAre
<1> QED
  BY <1>2, <1>4, <1>5, <1>10

(***************************************************************************)
(* The pages of cmdVotes (collectVoteDigestsPage), one after the other,    *)
(* are the votes: none is left out or listed twice at the end of a page,   *)
(* whatever the page size, for all users and for one.                      *)
(***************************************************************************)
THEOREM PagesArePartition ==
  ASSUME IsFiniteSet(Users)
  PROVE  Spec => []PagesPartitionVotes
<1>1. CInv => PagesPartitionVotes
  BY PagesPartition
<1> QED
  BY <1>1, CommentsAreSound, PTL

=============================================================================
