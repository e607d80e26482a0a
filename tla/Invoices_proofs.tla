---------------------------- MODULE Invoices_proofs ----------------------------
(***************************************************************************)
(* Proofs about Invoices, when requests and checks of payments do not      *)
(* overlap (serial), for any finite set of invoices, any addresses,        *)
(* payments and requests, and any failures and restarts, as long as the    *)
(* numerals of the versions have one digit.                                *)
(***************************************************************************)
EXTENDS Invoices, FiniteSetTheorems, WellFoundedInduction, TLAPS

-----------------------------------------------------------------------------
(* The records of politeiad and the rows of the database. *)

Statuses == {"new", "updated", "disputed", "approved", "rejected", "paid"}

IsLog(s) == \E S : s \in Seq(S)
IsPay(p) == p = [status |-> p.status, started |-> p.started, received |-> p.received]
IsRow(x) ==
  /\ x = [status |-> x.status, address |-> x.address, pay |-> x.pay]
  /\ x.status \in Statuses /\ IsPay(x.pay)

IsMd(s) == IsLog(s) /\ Len(s) # 0 /\ Last(s).status \in Statuses
IsRecord(p) ==
  /\ p = [version |-> p.version, md |-> p.md, address |-> p.address, received |-> p.received,
          old |-> p.old]
  /\ p.version \in 0..MaxVersion /\ p.version < Radix /\ IsLog(p.md) /\ IsLog(p.old)
  /\ p.version # 0 => /\ IsMd(p.md) /\ Len(p.old) = p.version - 1
                      /\ \A i \in 1..Len(p.old) : IsMd(p.old[i].md)

\* The address of some version.
HasAddress(p, a) == p.address = a \/ \E i \in 1..Len(p.old) : p.old[i].address = a

\* The rows are of versions that politeiad has, with addresses that it knows.
RecordsInv ==
  /\ pd = [t \in Tokens |-> pd[t]] /\ rows = [t \in Tokens |-> rows[t]]
  /\ \A t \in Tokens :
       /\ IsRecord(pd[t]) /\ rows[t] = [v \in Versions |-> rows[t][v]]
       /\ \A v \in Versions :
            \/ rows[t][v] = NoRow
            \/ IsRow(rows[t][v]) /\ v <= pd[t].version /\ HasAddress(pd[t], rows[t][v].address)

LatestRow(t) == rows[t][InvoiceByToken(t)]
LastChange(t) == Last(pd[t].md).status

\* politeiad has the payment of what is paid.
PaidInv == \A t \in Tokens :
  Stored(t) # {} /\ LatestRow(t).status = "paid" => LastChange(t) = "paid"

-----------------------------------------------------------------------------
(* The request in progress. *)

Editable(t) == Stored(t) # {} /\ LatestRow(t).status \in {"new", "updated", "disputed"}

Creating(q) ==
  /\ q.status = "new" /\ q.version = 1 /\ q.todo = {} /\ Stored(q.t) = {} /\ q.row.status = "new"
  /\ \/ q.pc = "create" /\ pd[q.t].version = 0
     \/ /\ q.pc = "insert" /\ pd[q.t].version = 1 /\ LastChange(q.t) = "new"
        /\ HasAddress(pd[q.t], q.row.address)

Editing(q) ==
  /\ q.status = "updated" /\ q.todo = {} /\ q.row.status = "updated"
  /\ Editable(q.t) /\ q.version = InvoiceByToken(q.t) + 1
  /\ \/ q.pc = "edit"
     \/ /\ q.pc \in {"append", "insert"} /\ q.version <= pd[q.t].version
        /\ HasAddress(pd[q.t], q.row.address)
        /\ q.pc = "insert" => LastChange(q.t) = "updated"

Setting(q) ==
  /\ q.pc \in {"append", "update"} /\ q.status \in {"approved", "rejected", "disputed"}
  /\ q.todo = {} /\ Stored(q.t) # {} /\ q.version = InvoiceByToken(q.t)
  /\ rows[q.t][q.version] = q.row /\ q.row.status \in {"new", "updated"}
  /\ q.pc = "update" => LastChange(q.t) = q.status

IsTodo(n) ==
  /\ n = [key |-> n.key, row |-> n.row] /\ n.key \in AllRows
  /\ Row(n.key) = n.row /\ n.row.status = "approved"

Paying(q) ==
  /\ q.pc \in {"append", "update"} /\ q.status = "paid"
  /\ q.version \in Stored(q.t) /\ rows[q.t][q.version] = q.row /\ q.row.status = "approved"
  /\ \A n \in q.todo : IsTodo(n) /\ n.key # <<q.t, q.version>>
  /\ q.pc = "update" => LastChange(q.t) = "paid"

Watching(q) ==
  /\ q.pc \in {"watch", "mark", "pend"} /\ q.status = "approved" /\ q.todo = {}
  /\ Stored(q.t) # {} /\ q.version = InvoiceByToken(q.t)
  /\ LatestRow(q.t).status = "approved" /\ LatestRow(q.t).address = q.row.address

RequestOk(q) ==
  /\ q = [pc |-> q.pc, t |-> q.t, version |-> q.version, status |-> q.status, row |-> q.row,
          todo |-> q.todo]
  /\ q.t \in Tokens /\ IsRow(q.row)
  /\ Creating(q) \/ Editing(q) \/ Setting(q) \/ Paying(q) \/ Watching(q)

RequestInv ==
  /\ req = [r \in Requests |-> req[r]]
  /\ \A r \in Requests : req[r] # Idle => RequestOk(req[r])
  /\ \A r, s \in Requests : req[r] # Idle /\ req[s] # Idle => r = s
  /\ (\E r \in Requests : req[r] # Idle) => watcher = Idle /\ boot = {}

-----------------------------------------------------------------------------
(* The check of a payment in progress, and those of the start. *)

WatcherOk(w) ==
  /\ w = [pc |-> w.pc, key |-> w.key, pay |-> w.pay, boot |-> w.boot, row |-> w.row]
  /\ w.pc \in {"save", "store", "mark", "finish"} /\ w.key \in AllRows /\ IsPay(w.pay)
  /\ w.pc = "finish" => w.row = Row(w.key) /\ LastChange(w.key[1]) = "paid"

CheckInv ==
  /\ watcher = Idle \/ WatcherOk(watcher)
  /\ \A b \in boot : /\ b = [key |-> b.key, pay |-> b.pay]
                     /\ b.key \in AllRows /\ b.pay = Row(b.key).pay
                     /\ watcher = Idle \/ watcher.key # b.key
  /\ IsLog(queue) /\ IsLog(chain)
  /\ \A i \in 1..Len(queue) : /\ queue[i] \in 1..Len(chain)
                              /\ \E tv \in AllRows : Row(tv).address = chain[queue[i]].address

IsClient(w) ==
  w = [status |-> w.status, dead |-> w.dead, subs |-> w.subs, live |-> w.live, work |-> w.work,
       prev |-> w.prev, pending |-> w.pending, replay |-> w.replay, lost |-> w.lost]

\* What is marked as subscribed to is subscribed to, or was lost.  Between
\* two connections nothing is checked.
ClientInv ==
  /\ IsClient(ws)
  /\ ws.status = "open" /\ ws.work = "none" => ws.prev = {}
  /\ watcher # Idle \/ boot # {} => ws.status = "open" /\ ws.work = "none"
  /\ ws.work = "replay" => ws.prev \subseteq ws.subs
  /\ ws.subs \subseteq ws.live \cup ws.lost

-----------------------------------------------------------------------------
(* The invariants of the properties. *)

\* The address of the latest row is watched, or will be.
Known == ws.subs \cup ws.prev \cup ws.pending \cup missed \cup ws.lost
Watched(t) ==
  \/ LatestRow(t).address \in Known
  \/ \E b \in boot : b.key = <<t, InvoiceByToken(t)>>
  \/ watcher # Idle /\ watcher.boot /\ watcher.key = <<t, InvoiceByToken(t)>>
  \/ \E r \in Requests : req[r].pc \in {"watch", "mark", "pend"} /\ req[r].t = t

WatchedInv == \A t \in Tokens :
  Stored(t) # {} /\ LatestRow(t).status = "approved" /\ LatestRow(t).pay.status = "watching"
  => Watched(t)

\* A payment that the monitor checks is booked on the latest row with that address.
BookedInv == watcher # Idle /\ ~watcher.boot =>
  /\ watcher.pay.status \in {Row(watcher.key).pay.status, "paid"}
  /\ \A tv \in AllRows : Row(tv).address = Row(watcher.key).address =>
       tv[1] = watcher.key[1] /\ tv[2] <= watcher.key[2]

\* What is subscribed to without failures.
Payable(a) == \E t \in Tokens :
  /\ Stored(t) # {} /\ LatestRow(t).address = a /\ LatestRow(t).status \in {"approved", "paid"}

PayableInv ==
  /\ boot = {} /\ ws.status = "open" /\ ws.work = "none" /\ ~ws.dead
  /\ \A a \in ws.live : Payable(a)
  /\ \A i \in 1..Len(queue) : Payable(chain[queue[i]].address)

LatestChecked == watcher # Idle =>
  /\ watcher.key[2] = InvoiceByToken(watcher.key[1])
  /\ Row(watcher.key).status \in {"approved", "paid"}

OldRows == \A t \in Tokens : \A v \in Stored(t) :
  v # InvoiceByToken(t) => rows[t][v].status \in {"new", "updated", "disputed"}

\* Row and record agree, or the request or the check in progress will see to it.
Coming(t) == \E r \in Requests :
  /\ req[r].pc \in {"append", "insert"} /\ req[r].t = t
  /\ pd[t].version = req[r].version /\ req[r].status \in {"new", "updated"}
Behind(t) ==
  \/ Coming(t)
  \/ \E r \in Requests : req[r].pc = "update" /\ req[r].t = t
  \/ watcher.pc = "finish" /\ watcher.key[1] = t
Follows(t) ==
  /\ (Stored(t) # {} /\ InvoiceByToken(t) = pd[t].version) \/ Coming(t)
  /\ Behind(t) \/ LatestRow(t).status = LastChange(t)
FollowsInv == \A t \in Tokens : pd[t].version # 0 => Follows(t)

FaultlessInv == PayableInv /\ LatestChecked /\ OldRows /\ FollowsInv

SerialInv ==
  /\ RecordsInv /\ PaidInv /\ RequestInv /\ CheckInv /\ ClientInv
  /\ AddressesApart => WatchedInv /\ BookedInv
  /\ faults \in Nat
  /\ faults = 0 /\ AddressesApart => FaultlessInv

\* The records, in any behaviour: versions only grow.
RecordIs(p) ==
  /\ p = [version |-> p.version, md |-> p.md, address |-> p.address, received |-> p.received,
          old |-> p.old]
  /\ p.version \in Nat
VersionsInv == pd = [t \in Tokens |-> pd[t]] /\ \A t \in Tokens : RecordIs(pd[t])

SInv == VersionsInv /\ (serial /\ SingleDigits => SerialInv)

-----------------------------------------------------------------------------
(* Greatest elements. *)

\* A set of numbers has a least element.
LEMMA Least ==
  ASSUME NEW S, S \subseteq Nat, S # {}
  PROVE  \E n \in S : \A m \in S : n <= m
<1>1. PICK x \in S : \A y \in S : ~ (<<y, x>> \in OpToRel(<, Nat))
  BY NatLessThanWellFounded, WFMin
<1>2. \A y \in S : x <= y
  <2> TAKE y \in S
  <2>1. y \in Nat /\ x \in Nat
    OBVIOUS
  <2>2. y < x => <<y, x>> \in OpToRel(<, Nat)
    BY <2>1, Zenon DEF OpToRel
  <2>3. <<y, x>> \notin OpToRel(<, Nat)
    BY <1>1
  <2>4. ~(y < x)
    BY <2>2, <2>3
  <2> QED
    BY <2>1, <2>4
<1> QED
  BY <1>2

\* A set of naturals with a bound has a greatest element.
LEMMA Greatest ==
  ASSUME NEW k \in Nat, NEW S, S \subseteq 0..k, S # {}
  PROVE  \E n \in S : \A m \in S : m <= n
<1> DEFINE T == {k - n : n \in S}
<1>1. T \subseteq Nat /\ T # {}
  <2>1. \A n \in S : k - n \in Nat
    OBVIOUS
  <2> QED
    BY <2>1
<1>2. PICK x \in T : \A y \in T : ~ (<<y, x>> \in OpToRel(<, Nat))
  BY <1>1, NatLessThanWellFounded, WFMin
<1>3. \A y \in T : x <= y
  <2> TAKE y \in T
  <2>1. y \in Nat /\ x \in Nat
    BY <1>1
  <2>2. y < x => <<y, x>> \in OpToRel(<, Nat)
    BY <2>1, Zenon DEF OpToRel
  <2>3. <<y, x>> \notin OpToRel(<, Nat)
    BY <1>2
  <2>4. ~(y < x)
    BY <2>2, <2>3
  <2> QED
    BY <2>1, <2>4
<1>4. PICK n \in S : x = k - n
  OBVIOUS
<1>5. \A m \in S : k - m \in T
  OBVIOUS
<1> HIDE DEF T
<1>6. \A m \in S : m <= n
  BY <1>3, <1>4, <1>5
<1> QED
  BY <1>6

\* A finite set of numbers has a greatest element: of the first k of them, for
\* every k, some is the greatest.
LEMMA FiniteGreatest ==
  ASSUME NEW S, S \subseteq Nat, IsFiniteSet(S), S # {}
  PROVE  \E n \in S : \A m \in S : m <= n
<1> DEFINE n == Cardinality(S)
<1>1. n \in Nat /\ ExistsBijection(1..n, S)
  BY FS_CardinalityType
<1> HIDE DEF n
<1>2. PICK f : /\ f \in [1..n -> S] /\ \A s \in S : \E i \in 1..n : f[i] = s
  BY <1>1 DEF ExistsBijection, Bijection, Surjection
<1> DEFINE Tops(k) == {j \in 1..k : \A i \in 1..k : f[i] <= f[j]}
           Fail == {k \in 1..n : Tops(k) = {}}
<1>3. Fail = {}
  <2> SUFFICES ASSUME Fail # {} PROVE FALSE
    OBVIOUS
  <2>1. PICK k \in Fail : \A l \in Fail : k <= l
    <3>1. Fail \subseteq Nat
      BY <1>1
    <3> HIDE DEF Fail
    <3> QED
      BY <3>1, Least
  <2>2. k \in 1..n /\ k \in Nat /\ \A i \in 1..k : f[i] \in Nat
    <3>1. k \in 1..n
      OBVIOUS
    <3>2. k \in Nat /\ \A i \in 1..k : i \in 1..n
      BY <1>1, <3>1
    <3> QED
      BY <1>2, <3>1, <3>2
  <2>3. CASE k = 1
    BY <2>1, <2>2, <2>3
  <2>4. CASE k # 1
    <3>1. k - 1 \in 1..n /\ k - 1 \in Nat
      BY <1>1, <2>2, <2>4
    <3>2. k - 1 \notin Fail
      BY <2>1, <2>2, <3>1
    <3>3. PICK j \in 1..(k - 1) : \A i \in 1..(k - 1) : f[i] <= f[j]
      BY <3>1, <3>2
    <3>4. \A i \in 1..k : i \in 1..(k - 1) \/ i = k
      BY <2>2
    <3>5. CASE f[k] <= f[j]
      <4>1. \A i \in 1..k : f[i] <= f[j]
        BY <3>3, <3>4, <3>5
      <4>2. j \in 1..k
        BY <2>2, <3>3
      <4>3. j \in Tops(k)
        BY <4>1, <4>2
      <4> QED
        BY <2>1, <4>3
    <3>6. CASE f[j] <= f[k]
      <4>1. \A i \in 1..k : f[i] <= f[k]
        <5> TAKE i \in 1..k
        <5>1. f[i] <= f[j] \/ i = k
          BY <3>3, <3>4
        <5>2. j \in 1..k /\ k \in 1..k
          BY <2>2, <3>3
        <5>3. PICK x : x = f[i]
          OBVIOUS
        <5>4. PICK y : y = f[j]
          OBVIOUS
        <5>5. PICK z : z = f[k]
          OBVIOUS
        <5>6. x \in Nat /\ y \in Nat /\ z \in Nat
          BY <2>2, <5>2, <5>3, <5>4, <5>5
        <5>7. x <= y \/ x = z
          BY <5>1, <5>3, <5>4, <5>5
        <5>8. x <= z
          BY <3>6, <5>4, <5>5, <5>6, <5>7
        <5> QED
          BY <5>3, <5>5, <5>8
      <4>2. k \in Tops(k)
        BY <2>2, <4>1
      <4> QED
        BY <2>1, <4>2
    <3> QED
      BY <2>2, <3>3, <3>5, <3>6
  <2> QED
    BY <2>3, <2>4
<1>4. n \in 1..n
  <2>1. PICK s \in S : TRUE
    OBVIOUS
  <2>2. PICK i \in 1..n : f[i] = s
    BY <1>2
  <2> QED
    BY <1>1, <2>2
<1>5. PICK j \in 1..n : \A i \in 1..n : f[i] <= f[j]
  BY <1>3, <1>4
<1>6. f[j] \in S
  BY <1>2
<1>7. \A m \in S : m <= f[j]
  BY <1>2, <1>5
<1> QED
  BY <1>6, <1>7

LEMMA VersionsAre ==
  Versions \subseteq Nat /\ Versions \subseteq 0..MaxVersion /\ MaxVersion \in Nat /\ 1 \in Versions
BY InvoicesAssumption DEF Versions

\* Numerals of one digit are in the order of their numbers.
LEMMA BeforeIs ==
  ASSUME NEW v \in Versions, NEW w \in Versions, v < Radix, w < Radix
  PROVE  Before(v, w) <=> v < w
<1>1. FirstDigit(v) = v /\ FirstDigit(w) = w
  BY DEF FirstDigit
<1>2. v \in Nat /\ w \in Nat
  BY VersionsAre
<1> QED
  BY <1>1, <1>2 DEF Before

LEMMA LastIs ==
  ASSUME NEW S, S \subseteq Versions, \A v \in S : v < Radix, NEW m \in S, \A v \in S : v <= m
  PROVE  LastInText(S) = m
<1>1. \A v \in S, w \in S : Before(v, w) <=> v < w
  BY BeforeIs
<1>2. S \subseteq Nat
  BY VersionsAre
<1>3. \A w \in S : w = m \/ Before(w, m)
  BY <1>1, <1>2
<1>4. ASSUME NEW x \in S, \A w \in S : w = x \/ Before(w, x) PROVE x = m
  <2>1. m = x \/ m < x
    BY <1>1, <1>4
  <2>2. x <= m /\ x \in Nat /\ m \in Nat
    BY <1>2
  <2> QED
    BY <2>1, <2>2
<1> QED
  BY <1>3, <1>4 DEF LastInText

LEMMA LastOf ==
  ASSUME NEW S, S \subseteq Versions, \A v \in S : v < Radix, S # {}
  PROVE  LastInText(S) \in S /\ \A v \in S : v <= LastInText(S)
<1>1. S \subseteq 0..MaxVersion /\ MaxVersion \in Nat
  BY VersionsAre
<1>2. PICK n \in S : \A m \in S : m <= n
  BY <1>1, Greatest
<1>3. LastInText(S) = n
  BY <1>2, LastIs
<1> QED
  BY <1>2, <1>3

-----------------------------------------------------------------------------
(* The rows of the database. *)

\* The record and the row of every key are there.
LEMMA Keys ==
  ASSUME NEW tv \in AllRows
  PROVE  /\ tv[1] \in Tokens /\ tv[2] \in Versions /\ tv[2] \in Stored(tv[1])
         /\ Stored(tv[1]) # {} /\ tv = <<tv[1], tv[2]>> /\ Row(tv) = rows[tv[1]][tv[2]]
BY DEF AllRows, Stored, Row

LEMMA StoredRows ==
  ASSUME NEW t \in Tokens, NEW v \in Stored(t)
  PROVE  /\ <<t, v>> \in AllRows /\ Row(<<t, v>>) = rows[t][v]
         /\ v \in Versions /\ rows[t][v] # NoRow
BY DEF AllRows, Stored, Row

\* The versions that have a row have one digit.
LEMMA StoredDigits ==
  ASSUME RecordsInv, NEW t \in Tokens, NEW v \in Stored(t)
  PROVE  v \in Versions /\ v < Radix
<1>1. v \in Versions /\ rows[t][v] # NoRow
  BY DEF Stored
<1>2. v <= pd[t].version /\ pd[t].version < Radix /\ pd[t].version \in 0..MaxVersion
  BY <1>1 DEF RecordsInv, IsRecord
<1>3. v \in Nat /\ pd[t].version \in Nat /\ Radix \in Nat
  BY <1>1, <1>2, VersionsAre, InvoicesAssumption
<1> QED
  BY <1>1, <1>2, <1>3

LEMMA Latest ==
  ASSUME RecordsInv, NEW t \in Tokens, Stored(t) # {}
  PROVE  /\ InvoiceByToken(t) \in Stored(t) /\ InvoiceByToken(t) \in Versions
         /\ \A v \in Stored(t) : v <= InvoiceByToken(t)
<1>1. PICK S : S = Stored(t)
  OBVIOUS
<1>2. S \subseteq Versions /\ \A v \in S : v < Radix
  BY <1>1, StoredDigits
<1>3. LastInText(S) \in S /\ \A v \in S : v <= LastInText(S)
  BY <1>1, <1>2, LastOf
<1> QED
  BY <1>1, <1>2, <1>3 DEF InvoiceByToken

\* The same after a step.
LEMMA LatestAfter ==
  ASSUME RecordsInv', NEW t \in Tokens, Stored(t)' # {}
  PROVE  InvoiceByToken(t)' \in Stored(t)' /\ InvoiceByToken(t)' \in Versions
<1>1. PICK S : S = Stored(t)'
  OBVIOUS
<1>2. S \subseteq Versions
  BY <1>1 DEF Stored
<1>3. ASSUME NEW v \in S PROVE v < Radix
  <2>1. v \in Versions /\ rows'[t][v] # NoRow
    BY <1>1, <1>3 DEF Stored
  <2>2. v <= pd'[t].version /\ pd'[t].version < Radix /\ pd'[t].version \in 0..MaxVersion
    BY <2>1 DEF RecordsInv, IsRecord
  <2>3. v \in Nat /\ pd'[t].version \in Nat /\ Radix \in Nat
    BY <2>1, <2>2, VersionsAre, InvoicesAssumption
  <2> QED
    BY <2>2, <2>3
<1>4. LastInText(S) \in S
  BY <1>1, <1>2, <1>3, LastOf
<1> QED
  BY <1>1, <1>2, <1>4 DEF InvoiceByToken

\* The row of version v of invoice t is written.
Write(t, v, x) == rows' = [rows EXCEPT ![t][v] = x]

LEMMA RowWritten ==
  ASSUME RecordsInv, NEW t \in Tokens, NEW v \in Versions, NEW x, x # NoRow, Write(t, v, x)
  PROVE  /\ rows' = [s \in Tokens |-> rows'[s]]
         /\ \A s \in Tokens : rows'[s] = [w \in Versions |-> rows'[s][w]]
         /\ rows'[t][v] = x
         /\ \A s \in Tokens : s # t => rows'[s] = rows[s]
         /\ \A w \in Versions : w # v => rows'[t][w] = rows[t][w]
         /\ Stored(t)' = Stored(t) \cup {v}
         /\ \A s \in Tokens : s # t => /\ Stored(s)' = Stored(s)
                                       /\ InvoiceByToken(s)' = InvoiceByToken(s)
                                       /\ LatestRow(s)' = LatestRow(s)
<1>1. rows = [s \in Tokens |-> rows[s]] /\ \A s \in Tokens : rows[s] = [w \in Versions |-> rows[s][w]]
  BY DEF RecordsInv
<1>2. rows' = [s \in Tokens |-> IF s = t THEN [rows[t] EXCEPT ![v] = x] ELSE rows[s]]
  BY <1>1 DEF Write
<1>3. /\ rows'[t] = [rows[t] EXCEPT ![v] = x]
      /\ \A s \in Tokens : s # t => rows'[s] = rows[s]
  BY <1>2
<1>4. rows'[t] = [w \in Versions |-> IF w = v THEN x ELSE rows[t][w]]
  BY <1>1, <1>3
<1>5. rows' = [s \in Tokens |-> rows'[s]]
  BY <1>2
<1>6. \A s \in Tokens : rows'[s] = [w \in Versions |-> rows'[s][w]]
  <2> TAKE s \in Tokens
  <2>1. CASE s = t
    BY <1>4, <2>1
  <2>2. CASE s # t
    BY <1>1, <1>3, <2>2
  <2> QED
    BY <2>1, <2>2
<1>7. rows'[t][v] = x /\ \A w \in Versions : w # v => rows'[t][w] = rows[t][w]
  BY <1>4
<1>8. Stored(t)' = Stored(t) \cup {v}
  BY <1>7 DEF Stored
<1>9. \A s \in Tokens : s # t => Stored(s)' = Stored(s)
  BY <1>3 DEF Stored
<1>10. \A s \in Tokens : s # t => InvoiceByToken(s)' = InvoiceByToken(s)
  BY <1>9 DEF InvoiceByToken
<1>11. \A s \in Tokens : s # t => LatestRow(s)' = LatestRow(s)
  BY <1>3, <1>10 DEF LatestRow
<1> QED
  BY <1>3, <1>5, <1>6, <1>7, <1>8, <1>9, <1>10, <1>11

LEMMA LatestWritten ==
  ASSUME RecordsInv, NEW t \in Tokens, NEW v \in Versions, NEW x, x # NoRow, Write(t, v, x)
  PROVE  /\ v \in Stored(t) => InvoiceByToken(t)' = InvoiceByToken(t)
         /\ v < Radix /\ (\A w \in Stored(t) : w <= v) => InvoiceByToken(t)' = v
<1>1. Stored(t)' = Stored(t) \cup {v}
  BY RowWritten
<1>2. v \in Stored(t) => InvoiceByToken(t)' = InvoiceByToken(t)
  BY <1>1 DEF InvoiceByToken
<1>3. ASSUME v < Radix, \A w \in Stored(t) : w <= v PROVE InvoiceByToken(t)' = v
  <2>1. PICK S : S = Stored(t)'
    OBVIOUS
  <2>2. S \subseteq Versions /\ v \in S /\ v <= v
    BY <1>1, <2>1, VersionsAre DEF Stored
  <2>3. \A w \in S : w < Radix
    BY <1>1, <1>3, <2>1, StoredDigits
  <2>4. \A w \in S : w <= v
    BY <1>1, <1>3, <2>1, <2>2
  <2>5. LastInText(S) = v
    BY <2>2, <2>3, <2>4, LastIs
  <2> QED
    BY <2>1, <2>5 DEF InvoiceByToken
<1> QED
  BY <1>2, <1>3

\* What is written has the address of the row before.
Rewrite(t, v, x) ==
  /\ Write(t, v, x) /\ t \in Tokens /\ v \in Versions /\ IsRow(x)
  /\ rows[t][v] = NoRow \/ rows[t][v].address = x.address

LEMMA RowsAreRows == \A x : IsRow(x) => x # NoRow
BY DEF IsRow, NoRow, Statuses

LEMMA AllRowsWritten ==
  ASSUME RecordsInv, NEW t, NEW v, NEW x, Rewrite(t, v, x)
  PROVE  /\ AllRows' = AllRows \cup {<<t, v>>}
         /\ \A tv \in AllRows : Row(tv)'.address = Row(tv).address
         /\ \A tv \in AllRows : tv # <<t, v>> => Row(tv)' = Row(tv)
         /\ Row(<<t, v>>)' = x
         /\ AddressesApart' => AddressesApart
<1>1. /\ t \in Tokens /\ v \in Versions /\ x # NoRow /\ Write(t, v, x)
      /\ rows[t][v] = NoRow \/ rows[t][v].address = x.address
  BY RowsAreRows DEF Rewrite
<1>2. /\ rows'[t][v] = x
      /\ \A s \in Tokens : s # t => rows'[s] = rows[s]
      /\ \A w \in Versions : w # v => rows'[t][w] = rows[t][w]
  BY <1>1, RowWritten
<1>3. \A tv \in Tokens \X Versions : tv # <<t, v>> => rows'[tv[1]][tv[2]] = rows[tv[1]][tv[2]]
  <2> TAKE tv \in Tokens \X Versions
  <2>1. tv[1] \in Tokens /\ tv[2] \in Versions /\ tv = <<tv[1], tv[2]>>
    OBVIOUS
  <2> QED
    BY <1>2, <2>1
<1>4. AllRows' = AllRows \cup {<<t, v>>}
  <2>1. <<t, v>> \in Tokens \X Versions /\ <<t, v>>[1] = t /\ <<t, v>>[2] = v
    BY <1>1
  <2> QED
    BY <1>1, <1>2, <1>3, <2>1 DEF AllRows
<1>5. \A tv \in AllRows : tv # <<t, v>> => Row(tv)' = Row(tv)
  BY <1>3 DEF AllRows, Row
<1>6. Row(<<t, v>>)' = x
  BY <1>2 DEF Row
<1>7. \A tv \in AllRows : Row(tv)'.address = Row(tv).address
  <2> TAKE tv \in AllRows
  <2>1. CASE tv = <<t, v>>
    <3>1. Row(tv) = rows[t][v] /\ rows[t][v] # NoRow
      BY <2>1 DEF AllRows, Row
    <3> QED
      BY <1>1, <1>6, <2>1, <3>1
  <2> QED
    BY <1>5, <2>1
<1>8. AddressesApart' => AddressesApart
  <2>1. SUFFICES ASSUME AddressesApart', NEW o \in AllRows, NEW tv \in AllRows,
                        Row(o).address = Row(tv).address
                 PROVE  o[1] = tv[1]
    BY DEF AddressesApart
  <2>2. o \in AllRows' /\ tv \in AllRows' /\ Row(o)'.address = Row(tv)'.address
    BY <1>4, <1>7, <2>1
  <2> QED
    BY <2>1, <2>2 DEF AddressesApart
<1> QED
  BY <1>4, <1>5, <1>6, <1>7, <1>8

-----------------------------------------------------------------------------
(* The records of politeiad. *)

\* The record of invoice t becomes p.
Save(t, p) == pd' = [pd EXCEPT ![t] = p]

LEMMA RecordsFrame == ASSUME RecordsInv, UNCHANGED <<pd, rows>> PROVE RecordsInv'
BY DEF RecordsInv

LEMMA PaidFrame == ASSUME PaidInv, UNCHANGED <<pd, rows>> PROVE PaidInv'
BY DEF PaidInv, Stored, LatestRow, InvoiceByToken, LastChange

LEMMA RecordSaved ==
  ASSUME RecordsInv, NEW t \in Tokens, NEW p, Save(t, p)
  PROVE  /\ pd' = [s \in Tokens |-> pd'[s]] /\ pd'[t] = p
         /\ \A s \in Tokens : s # t => pd'[s] = pd[s] /\ LastChange(s)' = LastChange(s)
<1>1. pd = [s \in Tokens |-> pd[s]]
  BY DEF RecordsInv
<1>2. pd' = [s \in Tokens |-> IF s = t THEN p ELSE pd[s]]
  BY <1>1 DEF Save
<1>3. pd' = [s \in Tokens |-> pd'[s]] /\ pd'[t] = p /\ \A s \in Tokens : s # t => pd'[s] = pd[s]
  BY <1>2
<1> QED
  BY <1>3 DEF LastChange

LEMMA RecordsSaved ==
  ASSUME RecordsInv, NEW t \in Tokens, NEW p, Save(t, p), rows' = rows,
         IsRecord(p), pd[t].version <= p.version,
         \A a : HasAddress(pd[t], a) => HasAddress(p, a)
  PROVE  RecordsInv'
<1>1. /\ pd' = [s \in Tokens |-> pd'[s]] /\ pd'[t] = p
      /\ \A s \in Tokens : s # t => pd'[s] = pd[s]
  BY RecordSaved
<1>2. rows' = [s \in Tokens |-> rows'[s]]
  BY DEF RecordsInv
<1>3. ASSUME NEW s \in Tokens
      PROVE  /\ IsRecord(pd'[s]) /\ rows'[s] = [v \in Versions |-> rows'[s][v]]
             /\ \A v \in Versions :
                  \/ rows'[s][v] = NoRow
                  \/ IsRow(rows'[s][v]) /\ v <= pd'[s].version /\ HasAddress(pd'[s], rows'[s][v].address)
  <2>1. /\ IsRecord(pd[s]) /\ rows[s] = [v \in Versions |-> rows[s][v]]
        /\ \A v \in Versions :
             \/ rows[s][v] = NoRow
             \/ IsRow(rows[s][v]) /\ v <= pd[s].version /\ HasAddress(pd[s], rows[s][v].address)
    BY DEF RecordsInv
  <2>2. CASE s # t
    BY <1>1, <2>1, <2>2
  <2>3. CASE s = t
    <3>1. pd[t].version \in Nat /\ p.version \in Nat
      BY <2>1, <2>3, VersionsAre DEF IsRecord
    <3>2. \A v \in Versions : v <= pd[t].version => v <= p.version
      BY <3>1, VersionsAre
    <3> QED
      BY <1>1, <2>1, <2>3, <3>2
  <2> QED
    BY <2>2, <2>3
<1> QED
  BY <1>1, <1>2, <1>3 DEF RecordsInv

LEMMA RecordsWritten ==
  ASSUME RecordsInv, NEW t, NEW v, NEW x, Rewrite(t, v, x), pd' = pd,
         rows[t][v] # NoRow \/ (v <= pd[t].version /\ HasAddress(pd[t], x.address))
  PROVE  RecordsInv'
<1>1. /\ t \in Tokens /\ v \in Versions /\ x # NoRow /\ IsRow(x) /\ Write(t, v, x)
      /\ rows[t][v] = NoRow \/ rows[t][v].address = x.address
  BY RowsAreRows DEF Rewrite
<1>2. /\ rows' = [s \in Tokens |-> rows'[s]]
      /\ \A s \in Tokens : rows'[s] = [w \in Versions |-> rows'[s][w]]
      /\ rows'[t][v] = x
      /\ \A s \in Tokens : s # t => rows'[s] = rows[s]
      /\ \A w \in Versions : w # v => rows'[t][w] = rows[t][w]
  BY <1>1, RowWritten
<1>3. v <= pd[t].version /\ HasAddress(pd[t], x.address)
  BY <1>1 DEF RecordsInv
<1>4. ASSUME NEW s \in Tokens, NEW w \in Versions
      PROVE  \/ rows'[s][w] = NoRow
             \/ IsRow(rows'[s][w]) /\ w <= pd'[s].version /\ HasAddress(pd'[s], rows'[s][w].address)
  <2>1. \/ rows[s][w] = NoRow
        \/ IsRow(rows[s][w]) /\ w <= pd[s].version /\ HasAddress(pd[s], rows[s][w].address)
    BY DEF RecordsInv
  <2>2. CASE s = t /\ w = v
    BY <1>1, <1>2, <1>3, <2>2
  <2>3. CASE ~(s = t /\ w = v)
    BY <1>2, <2>1, <2>3
  <2> QED
    BY <2>2, <2>3
<1>5. pd' = [s \in Tokens |-> pd'[s]] /\ \A s \in Tokens : IsRecord(pd'[s])
  BY DEF RecordsInv
<1> QED
  BY <1>2, <1>4, <1>5 DEF RecordsInv

LEMMA LogsGrow ==
  ASSUME NEW s, IsLog(s), NEW x
  PROVE  /\ IsLog(Append(s, x)) /\ Len(s) \in Nat /\ Len(Append(s, x)) = Len(s) + 1
         /\ Append(s, x)[Len(s) + 1] = x /\ Last(Append(s, x)) = x
         /\ \A i \in 1..Len(s) : Append(s, x)[i] = s[i]
<1>1. PICK S : s \in Seq(S)
  BY DEF IsLog
<1>2. PICK Q : Q = S \cup {x}
  OBVIOUS
<1>3. s \in Seq(Q) /\ x \in Q
  BY <1>1, <1>2
<1>4. PICK a : a = Append(s, x)
  OBVIOUS
<1>5. /\ a \in Seq(Q) /\ Len(s) \in Nat /\ Len(a) = Len(s) + 1
      /\ a[Len(s) + 1] = x /\ \A i \in 1..Len(s) : a[i] = s[i]
  BY <1>3, <1>4
<1>6. Last(a) = x
  BY <1>5 DEF Last
<1>7. IsLog(a)
  BY <1>5 DEF IsLog
<1> QED
  BY <1>4, <1>5, <1>6, <1>7

\* A record of politeiad gets another status change.
LEMMA ChangeAppended ==
  ASSUME RecordsInv, NEW t \in Tokens, NEW s \in Statuses, AppendChange(t, s), rows' = rows
  PROVE  /\ RecordsInv' /\ LastChange(t)' = s
         /\ \A u \in Tokens : /\ pd'[u].version = pd[u].version
                              /\ \A a : HasAddress(pd[u], a) => HasAddress(pd'[u], a)
                              /\ u # t => pd'[u] = pd[u] /\ LastChange(u)' = LastChange(u)
<1> DEFINE c == [status |-> s, at |-> Len(chain)]
<1>1. PICK o : o = pd[t]
  OBVIOUS
<1>2. PICK m : m = Append(o.md, c)
  OBVIOUS
<1>3. PICK p : p = [version |-> o.version, md |-> m, address |-> o.address,
                    received |-> o.received, old |-> o.old]
  OBVIOUS
<1>4. IsRecord(o)
  BY <1>1 DEF RecordsInv
<1>5. [o EXCEPT !.md = m] = p
  BY <1>3, <1>4 DEF IsRecord
<1>6. Save(t, p)
  BY <1>1, <1>2, <1>5 DEF Save, AppendChange
<1>7. IsLog(m) /\ Len(m) # 0 /\ Last(m) = c
  BY <1>2, <1>4, LogsGrow DEF IsRecord
<1>8. p.version = o.version /\ p.md = m /\ p.address = o.address /\ p.old = o.old
  BY <1>3
<1>9. IsMd(m)
  BY <1>7 DEF IsMd
<1>10. IsRecord(p)
  BY <1>3, <1>4, <1>7, <1>8, <1>9 DEF IsRecord
<1>11. \A a : HasAddress(o, a) => HasAddress(p, a)
  BY <1>8 DEF HasAddress
<1>12. o.version <= p.version
  BY <1>4, <1>8, VersionsAre DEF IsRecord
<1>13. RecordsInv'
  BY <1>1, <1>6, <1>10, <1>11, <1>12, RecordsSaved
<1>14. pd'[t] = p /\ \A u \in Tokens : u # t => pd'[u] = pd[u] /\ LastChange(u)' = LastChange(u)
  BY <1>6, RecordSaved
<1>15. LastChange(t)' = s
  BY <1>7, <1>8, <1>14 DEF LastChange
<1> HIDE DEF c
<1> QED
  BY <1>1, <1>8, <1>11, <1>13, <1>14, <1>15

\* The payment that a record has got.
LEMMA ReceivedSaved ==
  ASSUME RecordsInv, NEW t \in Tokens, NEW x, pd' = [pd EXCEPT ![t].received = x], rows' = rows
  PROVE  /\ RecordsInv'
         /\ \A u \in Tokens : /\ pd'[u].version = pd[u].version
                              /\ LastChange(u)' = LastChange(u)
                              /\ \A a : HasAddress(pd[u], a) => HasAddress(pd'[u], a)
<1>1. PICK o : o = pd[t]
  OBVIOUS
<1>2. PICK p : p = [version |-> o.version, md |-> o.md, address |-> o.address,
                    received |-> x, old |-> o.old]
  OBVIOUS
<1>3. IsRecord(o)
  BY <1>1 DEF RecordsInv
<1>4. [o EXCEPT !.received = x] = p
  BY <1>2, <1>3 DEF IsRecord
<1>5. Save(t, p)
  BY <1>1, <1>4 DEF Save
<1>6. p.version = o.version /\ p.md = o.md /\ p.address = o.address /\ p.old = o.old
  BY <1>2
<1>7. IsRecord(p)
  BY <1>2, <1>3, <1>6 DEF IsRecord
<1>8. \A a : HasAddress(o, a) => HasAddress(p, a)
  BY <1>6 DEF HasAddress
<1>9. o.version <= p.version
  BY <1>3, <1>6, VersionsAre DEF IsRecord
<1>10. RecordsInv'
  BY <1>1, <1>5, <1>7, <1>8, <1>9, RecordsSaved
<1>11. pd'[t] = p /\ \A u \in Tokens : u # t => pd'[u] = pd[u] /\ LastChange(u)' = LastChange(u)
  BY <1>5, RecordSaved
<1>12. LastChange(t)' = LastChange(t)
  BY <1>1, <1>6, <1>11 DEF LastChange
<1> QED
  BY <1>1, <1>6, <1>8, <1>10, <1>11, <1>12

\* A new record, or a new version of one.
LEMMA VersionSaved ==
  ASSUME RecordsInv, NEW r, SaveRecord(r), NEW q, q = req[r], q.t \in Tokens,
         q.pc = "create" => pd[q.t].version = 0, q.pc = "edit" => pd[q.t].version # 0,
         SingleDigits'
  PROVE  /\ RecordsInv'
         /\ pd[q.t].version \in Nat /\ pd'[q.t].version = pd[q.t].version + 1
         /\ pd'[q.t].version \in Versions
         /\ HasAddress(pd'[q.t], q.row.address)
         /\ LastChange(q.t)' = IF q.pc = "create" THEN "new" ELSE LastChange(q.t)
         /\ \A u \in Tokens : u # q.t => pd'[u] = pd[u] /\ LastChange(u)' = LastChange(u)
<1>1. PICK o : o = pd[q.t]
  OBVIOUS
<1>2. PICK c : c = [status |-> "new", at |-> Len(chain)]
  OBVIOUS
<1>3. PICK m : m = IF q.pc = "create" THEN <<c>> ELSE o.md
  OBVIOUS
<1>4. PICK k : k = [md |-> o.md, address |-> o.address, received |-> o.received]
  OBVIOUS
<1>5. PICK b : b = IF q.pc = "create" THEN <<>> ELSE Append(o.old, k)
  OBVIOUS
<1>6. PICK p : p = [version |-> o.version + 1, md |-> m, address |-> q.row.address,
                    received |-> o.received, old |-> b]
  OBVIOUS
<1>7. IsRecord(o)
  BY <1>1 DEF RecordsInv
<1>8. [[[[o EXCEPT !.version = o.version + 1] EXCEPT !.address = q.row.address] EXCEPT !.old = b]
        EXCEPT !.md = m] = p
  <2>1. PICK x : x = [version |-> o.version + 1, md |-> o.md, address |-> o.address,
                      received |-> o.received, old |-> o.old]
    OBVIOUS
  <2>2. PICK y : y = [version |-> o.version + 1, md |-> o.md, address |-> q.row.address,
                      received |-> o.received, old |-> o.old]
    OBVIOUS
  <2>3. PICK z : z = [version |-> o.version + 1, md |-> o.md, address |-> q.row.address,
                      received |-> o.received, old |-> b]
    OBVIOUS
  <2>4. [o EXCEPT !.version = o.version + 1] = x
    BY <1>7, <2>1 DEF IsRecord
  <2>5. [x EXCEPT !.address = q.row.address] = y
    BY <2>1, <2>2
  <2>6. [y EXCEPT !.old = b] = z
    BY <2>2, <2>3
  <2>7. [z EXCEPT !.md = m] = p
    BY <1>6, <2>3
  <2> QED
    BY <2>4, <2>5, <2>6, <2>7
<1>9. Save(q.t, p)
  <2>1. pd' = [pd EXCEPT ![q.t].version = @ + 1, ![q.t].address = q.row.address,
                         ![q.t].old = b, ![q.t].md = m]
    BY <1>1, <1>2, <1>3, <1>4, <1>5 DEF SaveRecord
  <2>2. pd = [s \in Tokens |-> pd[s]]
    BY DEF RecordsInv
  <2>3. pd' = [pd EXCEPT ![q.t] =
                 [[[[pd[q.t] EXCEPT !.version = pd[q.t].version + 1] EXCEPT !.address = q.row.address]
                     EXCEPT !.old = b] EXCEPT !.md = m]]
    BY <2>1, <2>2
  <2> QED
    BY <1>1, <1>8, <2>3 DEF Save
<1>10. p.version = o.version + 1 /\ p.md = m /\ p.address = q.row.address /\ p.old = b
  BY <1>6
<1>11. o.version \in Nat /\ p.version \in Versions /\ (q.pc = "create" => o.version = 0)
       /\ (q.pc # "create" => q.pc = "edit" /\ o.version # 0)
  <2>1. o.version \in 0..MaxVersion /\ q.pc \in {"create", "edit"}
        /\ (q.pc = "edit" => o.version < MaxVersion)
    BY <1>1, <1>7 DEF SaveRecord, IsRecord
  <2> QED
    BY <1>1, <1>10, <2>1, InvoicesAssumption DEF Versions
<1>12. IsMd(m) /\ Last(m).status = IF q.pc = "create" THEN "new" ELSE Last(o.md).status
  <2>1. CASE q.pc = "create"
    <3>1. m \in Seq({c}) /\ Len(m) = 1 /\ m[1] = c
      BY <1>3, <2>1
    <3>2. IsLog(m)
      BY <3>1 DEF IsLog
    <3>3. Last(m) = c /\ c.status = "new"
      BY <1>2, <3>1 DEF Last
    <3> QED
      BY <2>1, <3>1, <3>2, <3>3 DEF IsMd, Statuses
  <2>2. CASE q.pc # "create"
    BY <1>3, <1>7, <1>11, <2>2 DEF IsRecord
  <2> QED
    BY <2>1, <2>2
<1>13. IsLog(b) /\ Len(b) = o.version /\ \A i \in 1..Len(b) : IsMd(b[i].md)
  <2>1. CASE q.pc = "create"
    <3>1. b \in Seq({c}) /\ Len(b) = 0
      BY <1>5, <2>1
    <3> QED
      BY <1>11, <2>1, <3>1 DEF IsLog
  <2>2. CASE q.pc # "create"
    <3>1. /\ IsLog(o.old) /\ IsMd(o.md) /\ Len(o.old) = o.version - 1
          /\ \A i \in 1..Len(o.old) : IsMd(o.old[i].md)
      BY <1>7, <1>11, <2>2 DEF IsRecord
    <3>2. /\ IsLog(b) /\ Len(o.old) \in Nat /\ Len(b) = Len(o.old) + 1 /\ b[Len(o.old) + 1] = k
          /\ \A i \in 1..Len(o.old) : b[i] = o.old[i]
      BY <1>5, <2>2, <3>1, LogsGrow
    <3>3. k.md = o.md
      BY <1>4
    <3>4. \A i \in 1..Len(b) : i \in 1..Len(o.old) \/ i = Len(o.old) + 1
      BY <3>2
    <3>5. \A i \in 1..Len(b) : IsMd(b[i].md)
      BY <3>1, <3>2, <3>3, <3>4
    <3>6. Len(b) = o.version
      BY <1>11, <3>1, <3>2
    <3> QED
      BY <3>2, <3>5, <3>6
  <2> QED
    BY <2>1, <2>2
<1>14. IsRecord(p)
  <2>1. p.version \in 0..MaxVersion /\ Len(b) = p.version - 1
    BY <1>10, <1>11, <1>13, VersionsAre
  <2>3. p.version < Radix
    <3>1. pd'[q.t] = p
      BY <1>9, RecordSaved
    <3>2. pd'[q.t].version < Radix
      BY DEF SingleDigits
    <3> QED
      BY <3>1, <3>2
  <2>2. p = [version |-> p.version, md |-> p.md, address |-> p.address, received |-> p.received,
             old |-> p.old]
    BY <1>6
  <2> QED
    BY <1>10, <1>12, <1>13, <2>1, <2>2, <2>3 DEF IsRecord, IsMd
<1>15. \A a : HasAddress(o, a) => q.pc = "create" \/ HasAddress(p, a)
  <2> SUFFICES ASSUME NEW a, HasAddress(o, a), q.pc # "create" PROVE HasAddress(p, a)
    OBVIOUS
  <2>1. /\ IsLog(o.old) /\ b = Append(o.old, k)
    BY <1>5, <1>7 DEF IsRecord
  <2>2. /\ Len(o.old) \in Nat /\ Len(b) = Len(o.old) + 1 /\ b[Len(o.old) + 1] = k
        /\ \A i \in 1..Len(o.old) : b[i] = o.old[i]
    BY <2>1, LogsGrow
  <2>3. CASE o.address = a
    <3>1. k.address = a /\ Len(o.old) + 1 \in 1..Len(b)
      BY <1>4, <2>2, <2>3
    <3> QED
      BY <1>10, <2>2, <3>1 DEF HasAddress
  <2>4. CASE \E i \in 1..Len(o.old) : o.old[i].address = a
    <3>1. PICK i \in 1..Len(o.old) : o.old[i].address = a
      BY <2>4
    <3>2. i \in 1..Len(b)
      BY <2>2
    <3> QED
      BY <1>10, <2>2, <3>1, <3>2 DEF HasAddress
  <2> QED
    BY <2>3, <2>4 DEF HasAddress
<1>16. rows' = rows
  BY DEF SaveRecord
<1>17. o.version <= p.version
  BY <1>10, <1>11
<1>18. RecordsInv'
  <2>1. CASE q.pc # "create"
    BY <1>1, <1>9, <1>14, <1>15, <1>16, <1>17, <2>1, RecordsSaved
  <2>2. CASE q.pc = "create"
    <3>1. /\ pd' = [s \in Tokens |-> pd'[s]] /\ pd'[q.t] = p
          /\ \A s \in Tokens : s # q.t => pd'[s] = pd[s]
      BY <1>9, RecordSaved
    <3>2. \A v \in Versions : rows[q.t][v] = NoRow
      <4> TAKE v \in Versions
      <4>1. rows[q.t][v] = NoRow \/ v <= pd[q.t].version
        BY DEF RecordsInv
      <4>2. v \in Nat /\ v # 0
        BY InvoicesAssumption DEF Versions
      <4>3. ~(v <= pd[q.t].version)
        BY <1>1, <1>11, <2>2, <4>2
      <4> QED
        BY <4>1, <4>3
    <3> QED
      BY <1>14, <1>16, <3>1, <3>2 DEF RecordsInv
  <2> QED
    BY <2>1, <2>2
<1>19. pd'[q.t] = p /\ \A u \in Tokens : u # q.t => pd'[u] = pd[u] /\ LastChange(u)' = LastChange(u)
  BY <1>9, RecordSaved
<1>20. LastChange(q.t)' = IF q.pc = "create" THEN "new" ELSE LastChange(q.t)
  BY <1>1, <1>10, <1>12, <1>19 DEF LastChange
<1>21. HasAddress(p, q.row.address)
  BY <1>10 DEF HasAddress
<1> QED
  BY <1>1, <1>10, <1>11, <1>18, <1>19, <1>20, <1>21

-----------------------------------------------------------------------------
(* Nothing is written to the database. *)

LEMMA RowsFrame ==
  ASSUME rows' = rows
  PROVE  /\ AllRows' = AllRows /\ (AddressesApart' <=> AddressesApart) /\ (OldRows' <=> OldRows)
         /\ \A tv : Row(tv)' = Row(tv)
         /\ \A a : Payable(a)' <=> Payable(a)
         /\ \A t : /\ Stored(t)' = Stored(t) /\ InvoiceByToken(t)' = InvoiceByToken(t)
                   /\ LatestRow(t)' = LatestRow(t)
<1>1. \A tv : Row(tv)' = Row(tv)
  BY DEF Row
<1>2. AllRows' = AllRows
  BY DEF AllRows
<1>3. \A t : /\ Stored(t)' = Stored(t) /\ InvoiceByToken(t)' = InvoiceByToken(t)
             /\ LatestRow(t)' = LatestRow(t)
  BY DEF Stored, InvoiceByToken, LatestRow
<1>4. AddressesApart' <=> AddressesApart
  BY <1>1, <1>2 DEF AddressesApart
<1>5. OldRows' <=> OldRows
  BY <1>3 DEF OldRows
<1>6. \A a : Payable(a)' <=> Payable(a)
  BY <1>3 DEF Payable
<1> QED
  BY <1>1, <1>2, <1>3, <1>4, <1>5, <1>6

-----------------------------------------------------------------------------
(* Requests, one at a time. *)

LEMMA RequestOkFrame ==
  ASSUME UNCHANGED <<pd, rows>>, NEW q
  PROVE  RequestOk(q)' <=> RequestOk(q)
<1>1. /\ \A tv : Row(tv)' = Row(tv)
      /\ AllRows' = AllRows
      /\ \A t : /\ Stored(t)' = Stored(t) /\ InvoiceByToken(t)' = InvoiceByToken(t)
                /\ LatestRow(t)' = LatestRow(t)
  BY RowsFrame
<1>2. \A t : LastChange(t)' = LastChange(t) /\ (Editable(t)' <=> Editable(t))
  BY <1>1 DEF LastChange, Editable
<1>3. Creating(q)' <=> Creating(q)
  BY <1>1, <1>2 DEF Creating
<1>4. Editing(q)' <=> Editing(q)
  BY <1>1, <1>2 DEF Editing
<1>5. Setting(q)' <=> Setting(q)
  BY <1>1, <1>2 DEF Setting
<1>6. Paying(q)' <=> Paying(q)
  <2>1. \A n : IsTodo(n)' <=> IsTodo(n)
    BY <1>1 DEF IsTodo
  <2> QED
    BY <1>1, <1>2, <2>1 DEF Paying
<1>7. Watching(q)' <=> Watching(q)
  BY <1>1 DEF Watching
<1> QED
  BY <1>3, <1>4, <1>5, <1>6, <1>7 DEF RequestOk

LEMMA RequestFrame ==
  ASSUME RequestInv, UNCHANGED <<pd, rows, req, watcher, boot>>
  PROVE  RequestInv'
<1>1. \A q : RequestOk(q)' <=> RequestOk(q)
  BY RequestOkFrame
<1>2. \A r \in Requests : req[r] # Idle => RequestOk(req[r])
  BY DEF RequestInv
<1>3. \A r \in Requests : req'[r] # Idle => RequestOk(req[r])'
  <2> TAKE r \in Requests
  <2>1. PICK q : q = req[r]
    OBVIOUS
  <2>2. q # Idle => RequestOk(q)'
    BY <1>1, <1>2, <2>1
  <2> QED
    BY <2>1, <2>2 DEF RequestOk, Creating, Editing, Setting, Paying, Watching
<1> QED
  BY <1>3 DEF RequestInv

LEMMA NoRequests ==
  ASSUME RequestInv, req' = req, \A r \in Requests : req[r] = Idle
  PROVE  RequestInv'
BY DEF RequestInv

\* What request r does is all that is going on.
LEMMA Alone ==
  ASSUME RequestInv, NEW r \in Requests, req[r] # Idle
  PROVE  /\ RequestOk(req[r]) /\ watcher = Idle /\ boot = {}
         /\ \A s \in Requests : s # r => req[s] = Idle
BY DEF RequestInv

\* Request r goes on to x.
Goes(r, x) ==
  /\ r \in Requests /\ req' = [req EXCEPT ![r] = x]
  /\ \A s \in Requests : s # r => req[s] = Idle
  /\ watcher = Idle /\ boot = {} /\ UNCHANGED <<watcher, boot>>

LEMMA RequestGoes ==
  ASSUME RequestInv, NEW r, NEW x, Goes(r, x)
  PROVE  /\ req'[r] = x /\ \A s \in Requests : s # r => req'[s] = Idle
         /\ RequestOk(x)' => RequestInv'
         /\ x = Idle => RequestInv'
<1>1. /\ r \in Requests /\ req' = [s \in Requests |-> IF s = r THEN x ELSE req[s]]
      /\ \A s \in Requests : s # r => req[s] = Idle
      /\ watcher' = Idle /\ boot' = {}
  BY DEF RequestInv, Goes
<1>2. req'[r] = x /\ \A s \in Requests : s # r => req'[s] = Idle
  BY <1>1
<1>3. req' = [s \in Requests |-> req'[s]]
  BY <1>1
<1>4. \A s, u \in Requests : req'[s] # Idle /\ req'[u] # Idle => s = u
  BY <1>2
<1>5. x = Idle => RequestInv'
  BY <1>1, <1>2, <1>3 DEF RequestInv
<1>6. ASSUME RequestOk(x)' PROVE RequestInv'
  <2>1. \A s \in Requests : req'[s] # Idle => RequestOk(req[s])'
    <3> TAKE s \in Requests
    <3>1. CASE s = r
      BY <1>2, <1>6, <3>1 DEF RequestOk, Creating, Editing, Setting, Paying, Watching
    <3>2. CASE s # r
      BY <1>2, <3>2
    <3> QED
      BY <3>1, <3>2
  <2> QED
    BY <1>1, <1>3, <1>4, <2>1 DEF RequestInv
<1> QED
  BY <1>2, <1>5, <1>6

\* What a request goes on to.
LEMMA Moved ==
  ASSUME NEW q, RequestOk(q), NEW pc
  PROVE  [q EXCEPT !.pc = pc] = [pc |-> pc, t |-> q.t, version |-> q.version, status |-> q.status,
                                 row |-> q.row, todo |-> q.todo]
<1>1. q = [pc |-> q.pc, t |-> q.t, version |-> q.version, status |-> q.status, row |-> q.row,
           todo |-> q.todo]
  BY DEF RequestOk
<1> QED
  BY <1>1

-----------------------------------------------------------------------------
(* Steps that write neither a record nor a row. *)

\* What is paid stays paid.
StaysPaid == \A t \in Tokens :
  Stored(t) # {} /\ LatestRow(t).status = "paid" => (Stored(t) # {} /\ LatestRow(t).status = "paid")'

\* Row and record of an invoice agree.
Even(t) ==
  /\ Stored(t) # {} /\ InvoiceByToken(t) = pd[t].version /\ LatestRow(t).status = LastChange(t)

LEMMA NothingSaved ==
  ASSUME SerialInv, UNCHANGED <<pd, rows>>
  PROVE  RecordsInv' /\ PaidInv' /\ StaysPaid
<1>1. RecordsInv' /\ PaidInv'
  BY RecordsFrame, PaidFrame DEF SerialInv
<1>2. StaysPaid
  BY RowsFrame DEF StaysPaid
<1> QED
  BY <1>1, <1>2

LEMMA CheckFrame ==
  ASSUME CheckInv, UNCHANGED <<pd, rows, watcher, boot, queue, chain>>
  PROVE  CheckInv'
BY DEF CheckInv, WatcherOk, AllRows, Row, LastChange

LEMMA Evens ==
  ASSUME NEW t, Follows(t), watcher = Idle,
         \A r \in Requests : req[r].pc \in {"append", "insert", "update"} => req[r].t # t
  PROVE  Even(t)
<1>1. ~Coming(t)
  BY DEF Coming
<1>2. ~Behind(t)
  BY <1>1 DEF Behind, Idle
<1> QED
  BY <1>1, <1>2 DEF Follows, Even

LEMMA EvenFollows ==
  ASSUME NEW t, Even(t)' PROVE Follows(t)'
BY DEF Even, Follows

LEMMA EvenFrame ==
  ASSUME UNCHANGED <<pd, rows>>, NEW t, Even(t) PROVE Even(t)'
BY RowsFrame DEF Even, LastChange

LEMMA WatchedFrame ==
  ASSUME WatchedInv, rows' = rows, UNCHANGED <<ws, missed, boot, watcher>>,
         \A r \in Requests : req[r].pc \in {"watch", "mark", "pend"} => req'[r] = req[r]
  PROVE  WatchedInv'
<1>1. \A t : /\ Stored(t)' = Stored(t) /\ InvoiceByToken(t)' = InvoiceByToken(t)
             /\ LatestRow(t)' = LatestRow(t)
  BY RowsFrame
<1>2. \A t : Watched(t) => Watched(t)'
  BY <1>1 DEF Watched, Known
<1> QED
  BY <1>1, <1>2 DEF WatchedInv

LEMMA PayableFrame ==
  ASSUME PayableInv, UNCHANGED <<rows, boot, queue, chain>>, ws'.status = "open" /\ ws'.work = "none", ~ws'.dead,
         \A a \in ws'.live : a \in ws.live \/ Payable(a)
  PROVE  PayableInv'
<1>1. \A a : Payable(a)' <=> Payable(a)
  BY RowsFrame
<1>2. boot' = {}
  BY DEF PayableInv
<1>3. \A a \in ws'.live : Payable(a)'
  BY <1>1 DEF PayableInv
<1>4. \A i \in 1..Len(queue) : Payable(chain[queue[i]].address)
  BY DEF PayableInv
<1>5. \A i \in 1..Len(queue') : Payable(chain[queue[i]].address)'
  <2> TAKE i \in 1..Len(queue')
  <2>1. PICK a : a = chain[queue[i]].address
    OBVIOUS
  <2>2. Payable(a)'
    BY <1>1, <1>4, <2>1
  <2> QED
    BY <2>1, <2>2 DEF Payable
<1>6. /\ \A a \in ws.live' : Payable(a)'
      /\ ws.status' = "open" /\ ws.work' = "none" /\ ~ws.dead'
  BY <1>3
<1> QED
  BY <1>2, <1>5, <1>6 DEF PayableInv

\* A request starts, is over, or waits for the connection.
LEMMA RequestWaits ==
  ASSUME SerialInv, NEW r, NEW x, Goes(r, x), x = Idle \/ RequestOk(x),
         UNCHANGED <<pd, rows, chain, queue>>, faults' \in Nat, ClientInv',
         AddressesApart => WatchedInv',
         faults' = 0 => /\ faults = 0
                        /\ req[r] = Idle \/ req[r].pc \in {"watch", "mark", "pend"}
                        /\ AddressesApart => PayableInv'
  PROVE  SerialInv' /\ StaysPaid
<1>1. RecordsInv' /\ PaidInv' /\ StaysPaid
  BY NothingSaved
<1>2. watcher = Idle /\ watcher' = Idle /\ boot' = boot /\ r \in Requests
      /\ \A s \in Requests : s # r => req[s] = Idle
  BY DEF Goes
<1>3. RequestInv /\ CheckInv
  BY DEF SerialInv
<1>4. RequestOk(x)' <=> RequestOk(x)
  BY RequestOkFrame
<1>5. RequestInv'
  BY <1>3, <1>4, RequestGoes
<1>6. CheckInv'
  BY <1>2, <1>3, CheckFrame
<1>7. BookedInv'
  BY <1>2 DEF BookedInv
<1>8. AddressesApart' => AddressesApart
  BY RowsFrame
<1>9. ASSUME faults' = 0, AddressesApart' PROVE FaultlessInv'
  <2>1. FaultlessInv /\ PayableInv'
    BY <1>8, <1>9 DEF SerialInv
  <2>2. LatestChecked'
    BY <1>2 DEF LatestChecked
  <2>3. OldRows'
    BY <2>1, RowsFrame DEF FaultlessInv
  <2>4. \A s \in Requests : req[s].pc \notin {"append", "insert", "update"}
    BY <1>2, <1>9 DEF Idle
  <2>5. ASSUME NEW t \in Tokens, pd'[t].version # 0 PROVE Follows(t)'
    <3>1. Follows(t)
      BY <2>1, <2>5 DEF FaultlessInv, FollowsInv
    <3>2. Even(t)
      BY <1>2, <2>4, <3>1, Evens
    <3> QED
      BY <3>2, EvenFrame, EvenFollows
  <2>6. FollowsInv'
    BY <2>5 DEF FollowsInv
  <2> QED
    BY <2>1, <2>2, <2>3, <2>6 DEF FaultlessInv
<1> QED
  BY <1>1, <1>5, <1>6, <1>7, <1>8, <1>9 DEF SerialInv

LEMMA StartStep ==
  ASSUME SerialInv, serial, NEW r \in Requests, NEW x, RequestOk(x), Start(r, x)
  PROVE  SerialInv' /\ StaysPaid
<1>1. /\ req[r] = Idle /\ req' = [req EXCEPT ![r] = x]
      /\ UNCHANGED <<pd, rows, chain, ws, queue, watcher, boot, missed, serial, faults>>
      /\ watcher = Idle /\ boot = {} /\ \A s \in Requests : req[s] = Idle
  BY DEF Start, Quiet
<1>2. Goes(r, x)
  BY <1>1 DEF Goes
<1>3. ClientInv' /\ faults' \in Nat
  BY <1>1 DEF SerialInv, ClientInv
<1>4. ASSUME AddressesApart PROVE WatchedInv'
  <2>1. \A s \in Requests : req[s].pc \notin {"watch", "mark", "pend"}
    BY <1>1 DEF Idle
  <2> QED
    BY <1>1, <1>4, <2>1, WatchedFrame DEF SerialInv
<1>5. ASSUME AddressesApart, faults' = 0 PROVE PayableInv'
  <2>1. PayableInv /\ ws' = ws /\ ws.status = "open" /\ ws.work = "none" /\ ~ws.dead
    BY <1>1, <1>5 DEF SerialInv, FaultlessInv, PayableInv
  <2> QED
    BY <1>1, <2>1, PayableFrame
<1> QED
  BY <1>1, <1>2, <1>3, <1>4, <1>5, RequestWaits

\* The latest row.
LEMMA LatestIsRow ==
  ASSUME RecordsInv, NEW t \in Tokens, Stored(t) # {}
  PROVE  /\ InvoiceByToken(t) \in Stored(t) /\ InvoiceByToken(t) \in Versions
         /\ IsRow(LatestRow(t)) /\ LatestRow(t) = rows[t][InvoiceByToken(t)]
         /\ InvoiceByToken(t) <= pd[t].version /\ pd[t].version \in Nat /\ pd[t].version # 0
         /\ HasAddress(pd[t], LatestRow(t).address)
         /\ \A v \in Stored(t) : v <= InvoiceByToken(t)
<1>1. PICK v : v = InvoiceByToken(t)
  OBVIOUS
<1>2. v \in Stored(t) /\ v \in Versions /\ \A w \in Stored(t) : w <= v
  BY <1>1, Latest
<1>3. LatestRow(t) = rows[t][v] /\ rows[t][v] # NoRow
  BY <1>1, <1>2 DEF LatestRow, Stored
<1>4. IsRow(rows[t][v]) /\ v <= pd[t].version /\ HasAddress(pd[t], rows[t][v].address)
  BY <1>2, <1>3 DEF RecordsInv
<1>5. pd[t].version \in Nat
  BY VersionsAre DEF RecordsInv, IsRecord
<1>6. v \in Nat /\ v # 0
  BY <1>2, InvoicesAssumption DEF Versions
<1>7. pd[t].version # 0
  BY <1>4, <1>5, <1>6
<1>8. IsRow(LatestRow(t)) /\ HasAddress(pd[t], LatestRow(t).address)
  BY <1>3, <1>4
<1> QED
  BY <1>1, <1>2, <1>3, <1>4, <1>5, <1>7, <1>8

LEMMA NewRowIsRow ==
  ASSUME NEW s \in Statuses, NEW a
  PROVE  IsRow(NewRow(s, a)) /\ NewRow(s, a).status = s /\ NewRow(s, a).address = a
BY DEF NewRow, NoPay, IsRow, IsPay

LEMMA RequestStep ==
  ASSUME SerialInv, serial, NEW r \in Requests, Request(r)
  PROVE  SerialInv' /\ StaysPaid
<1>1. CASE processNewInvoice(r)
  <2>1. PICK t \in Tokens, a \in Addresses :
          /\ pd[t].version = 0
          /\ Start(r, [pc |-> "create", t |-> t, version |-> 1, status |-> "new",
                       row |-> NewRow("new", a), todo |-> {}])
    BY <1>1 DEF processNewInvoice
  <2>2. PICK x : x = [pc |-> "create", t |-> t, version |-> 1, status |-> "new",
                      row |-> NewRow("new", a), todo |-> {}]
    OBVIOUS
  <2>3. x = [pc |-> x.pc, t |-> x.t, version |-> x.version, status |-> x.status, row |-> x.row,
             todo |-> x.todo]
        /\ x.pc = "create" /\ x.t = t /\ x.version = 1 /\ x.status = "new" /\ x.todo = {}
        /\ x.row = NewRow("new", a)
    BY <2>2
  <2>4. Stored(t) = {}
    BY <2>1, LatestIsRow DEF SerialInv
  <2>5. IsRow(x.row) /\ x.row.status = "new"
    BY <2>3, NewRowIsRow DEF Statuses
  <2>6. RequestOk(x)
    BY <2>1, <2>3, <2>4, <2>5 DEF RequestOk, Creating
  <2> QED
    BY <2>1, <2>2, <2>6, StartStep
<1>2. CASE processSetInvoiceStatus(r)
  <2>1. PICK t \in Tokens, s \in {"approved", "rejected", "disputed"} :
          /\ Stored(t) # {} /\ rows[t][InvoiceByToken(t)].status \in {"new", "updated"}
          /\ Start(r, [pc |-> "append", t |-> t, version |-> InvoiceByToken(t), status |-> s,
                       row |-> rows[t][InvoiceByToken(t)], todo |-> {}])
    BY <1>2 DEF processSetInvoiceStatus, validateStatusTransition
  <2>2. PICK x : x = [pc |-> "append", t |-> t, version |-> InvoiceByToken(t), status |-> s,
                      row |-> rows[t][InvoiceByToken(t)], todo |-> {}]
    OBVIOUS
  <2>3. x = [pc |-> x.pc, t |-> x.t, version |-> x.version, status |-> x.status, row |-> x.row,
             todo |-> x.todo]
        /\ x.pc = "append" /\ x.t = t /\ x.version = InvoiceByToken(t) /\ x.status = s
        /\ x.todo = {} /\ x.row = rows[t][InvoiceByToken(t)]
    BY <2>2
  <2>4. IsRow(x.row) /\ x.row.status \in {"new", "updated"}
    BY <2>1, <2>3, LatestIsRow DEF SerialInv
  <2>5. RequestOk(x)
    BY <2>1, <2>3, <2>4 DEF RequestOk, Setting
  <2> QED
    BY <2>1, <2>2, <2>5, StartStep
<1>3. CASE processEditInvoice(r)
  <2>1. PICK t \in Tokens, a \in Addresses :
          /\ Stored(t) # {}
          /\ rows[t][InvoiceByToken(t)].status \notin {"paid", "approved", "rejected"}
          /\ Start(r, [pc |-> "edit", t |-> t, version |-> InvoiceByToken(t) + 1,
                       status |-> "updated", row |-> NewRow("updated", a), todo |-> {}])
    BY <1>3 DEF processEditInvoice
  <2>2. PICK x : x = [pc |-> "edit", t |-> t, version |-> InvoiceByToken(t) + 1,
                      status |-> "updated", row |-> NewRow("updated", a), todo |-> {}]
    OBVIOUS
  <2>3. x = [pc |-> x.pc, t |-> x.t, version |-> x.version, status |-> x.status, row |-> x.row,
             todo |-> x.todo]
        /\ x.pc = "edit" /\ x.t = t /\ x.version = InvoiceByToken(t) + 1 /\ x.status = "updated"
        /\ x.todo = {} /\ x.row = NewRow("updated", a)
    BY <2>2
  <2>4. IsRow(x.row) /\ x.row.status = "updated"
    BY <2>3, NewRowIsRow DEF Statuses
  <2>5. Editable(t)
    <3>1. IsRow(LatestRow(t)) /\ LatestRow(t) = rows[t][InvoiceByToken(t)]
      BY <2>1, LatestIsRow DEF SerialInv
    <3> QED
      BY <2>1, <3>1 DEF Editable, IsRow, Statuses
  <2>6. RequestOk(x)
    BY <2>3, <2>4, <2>5 DEF RequestOk, Editing
  <2> QED
    BY <2>1, <2>2, <2>6, StartStep
<1>4. CASE processPayInvoices(r)
  <2>1. PICK k \in InvoicesByStatus("approved") :
          Start(r, [pc |-> "append", t |-> k[1], version |-> k[2], status |-> "paid",
                    row |-> Row(k),
                    todo |-> {[key |-> o, row |-> Row(o)] :
                                 o \in InvoicesByStatus("approved") \ {k}}])
    BY <1>4 DEF processPayInvoices
  <2>2. PICK T : T = {[key |-> o, row |-> Row(o)] : o \in InvoicesByStatus("approved") \ {k}}
    OBVIOUS
  <2>3. PICK x : x = [pc |-> "append", t |-> k[1], version |-> k[2], status |-> "paid",
                      row |-> Row(k), todo |-> T]
    OBVIOUS
  <2>4. x = [pc |-> x.pc, t |-> x.t, version |-> x.version, status |-> x.status, row |-> x.row,
             todo |-> x.todo]
        /\ x.pc = "append" /\ x.t = k[1] /\ x.version = k[2] /\ x.status = "paid"
        /\ x.todo = T /\ x.row = Row(k)
    BY <2>3
  <2>5. \A o \in InvoicesByStatus("approved") : o \in AllRows /\ Row(o).status = "approved"
    BY DEF InvoicesByStatus
  <2>6. /\ k[1] \in Tokens /\ k[2] \in Stored(k[1]) /\ k = <<k[1], k[2]>>
        /\ Row(k) = rows[k[1]][k[2]]
    BY <2>5, Keys
  <2>7. IsRow(Row(k)) /\ Row(k).status = "approved"
    BY <2>5, <2>6 DEF SerialInv, RecordsInv, Stored
  <2>8. \A n \in T : IsTodo(n) /\ n.key # k
    <3> SUFFICES ASSUME NEW n \in T PROVE IsTodo(n) /\ n.key # k
      OBVIOUS
    <3>1. PICK o \in InvoicesByStatus("approved") \ {k} : n = [key |-> o, row |-> Row(o)]
      BY <2>2
    <3>2. n.key = o /\ n.row = Row(o) /\ n = [key |-> n.key, row |-> n.row]
      BY <3>1
    <3> QED
      BY <2>5, <3>1, <3>2 DEF IsTodo
  <2>9. RequestOk(x)
    BY <2>4, <2>6, <2>7, <2>8 DEF RequestOk, Paying
  <2> QED
    BY <2>1, <2>2, <2>3, <2>9, StartStep
<1> QED
  BY <1>1, <1>2, <1>3, <1>4 DEF Request

LEMMA ClientFields ==
  ASSUME NEW w, NEW s, NEW d, NEW u, NEW l, NEW k, NEW v, NEW p, NEW y, NEW z,
         w = [status |-> s, dead |-> d, subs |-> u, live |-> l, work |-> k, prev |-> v,
              pending |-> p, replay |-> y, lost |-> z]
  PROVE  /\ IsClient(w) /\ w.status = s /\ w.dead = d /\ w.subs = u /\ w.live = l /\ w.work = k
         /\ w.prev = v /\ w.pending = p /\ w.replay = y /\ w.lost = z
<1>1. w.dead = d
  BY Zenon
<1>2. /\ w.status = s /\ w.subs = u /\ w.live = l /\ w.work = k
      /\ w.prev = v /\ w.pending = p /\ w.replay = y /\ w.lost = z
  OBVIOUS
<1>3. IsClient(w)
  BY <1>1, <1>2 DEF IsClient
<1> QED
  BY <1>1, <1>2, <1>3, Zenon

\* An address is subscribed to and marked.
LEMMA AddressMarked ==
  ASSUME IsClient(ws), NEW a, ws' = AddSub(a)
  PROVE  /\ IsClient(ws') /\ ws'.status = ws.status /\ ws'.dead = ws.dead /\ ws'.work = ws.work
         /\ ws'.subs = ws.subs \cup {a} /\ ws'.live = ws.live \cup {a} /\ ws'.prev = ws.prev
         /\ ws'.pending = ws.pending /\ ws'.replay = ws.replay /\ ws'.lost = ws.lost
<1>1. PICK v : v = [status |-> ws.status, dead |-> ws.dead, subs |-> ws.subs \cup {a},
                    live |-> ws.live, work |-> ws.work, prev |-> ws.prev,
                    pending |-> ws.pending, replay |-> ws.replay, lost |-> ws.lost]
  OBVIOUS
<1>2. v = [ws EXCEPT !.subs = ws.subs \cup {a}]
  BY <1>1 DEF IsClient
<1>3. ws' = [v EXCEPT !.live = ws.live \cup {a}]
  BY <1>1, <1>2 DEF AddSub
<1>4. ws' = [status |-> ws.status, dead |-> ws.dead, subs |-> ws.subs \cup {a},
             live |-> ws.live \cup {a}, work |-> ws.work, prev |-> ws.prev,
             pending |-> ws.pending, replay |-> ws.replay, lost |-> ws.lost]
  BY <1>1, <1>3
<1> QED
  BY <1>4, ClientFields

LEMMA Subscribed ==
  ASSUME ClientInv, ws.status = "open" /\ ws.work = "none", NEW a, Subscribe(a)
  PROVE  /\ ClientInv' /\ ws'.status = "open" /\ ws'.work = "none" /\ (~ws.dead => ~ws'.dead)
         /\ Known \subseteq Known' /\ a \in Known'
         /\ \A b \in ws'.live : b \in ws.live \/ b = a
<1>1. IsClient(ws) /\ ws.prev = {} /\ ws.subs \subseteq ws.live \cup ws.lost
  BY DEF ClientInv
<1>2. CASE ws.dead \/ a \in ws.subs
  <2>1. ws' = ws /\ missed \subseteq missed' /\ (a \in ws.subs \/ a \in missed')
    BY <1>2 DEF Subscribe
  <2> QED
    BY <1>1, <2>1 DEF ClientInv, Known
<1>3. CASE ~(ws.dead \/ a \in ws.subs)
  <2>1. ws' = AddSub(a) /\ missed' = missed
    BY <1>3 DEF Subscribe
  <2>2. /\ IsClient(ws') /\ ws'.status = ws.status /\ ws'.dead = ws.dead /\ ws'.work = ws.work
        /\ ws'.subs = ws.subs \cup {a} /\ ws'.live = ws.live \cup {a} /\ ws'.prev = ws.prev
        /\ ws'.pending = ws.pending /\ ws'.replay = ws.replay /\ ws'.lost = ws.lost
    BY <1>1, <2>1, AddressMarked
  <2>3. ~ws.dead => ~ws'.dead
    BY <2>2, Zenon
  <2>4. /\ IsClient(ws') /\ ws'.status = "open" /\ ws'.work = "none" /\ ws'.prev = {}
        /\ ws'.subs \subseteq ws'.live \cup ws'.lost
    BY <1>1, <2>2
  <2>5. ClientInv'
    BY <2>4 DEF ClientInv, IsClient
  <2>6. Known \subseteq Known' /\ a \in Known'
    BY <2>1, <2>2 DEF Known
  <2> QED
    BY <2>2, <2>3, <2>4, <2>5, <2>6
<1> QED
  BY <1>2, <1>3

LEMMA Handled ==
  ASSUME RequestInv, NEW r \in Requests, req[r] # Idle, NEW x,
         req' = [req EXCEPT ![r] = x], UNCHANGED <<watcher, boot>>
  PROVE  Goes(r, x)
BY Alone DEF Goes

LEMMA RequestFailsStep ==
  ASSUME SerialInv, NEW r \in Requests, RequestFails(r)
  PROVE  SerialInv' /\ StaysPaid
<1>1. /\ req[r].pc \in {"create", "edit", "append"} /\ req' = [req EXCEPT ![r] = Idle]
      /\ faults' = faults + 1
      /\ UNCHANGED <<pd, rows, chain, ws, queue, watcher, boot, missed, serial>>
  BY DEF RequestFails, Done
<1>2. req[r] # Idle /\ RequestInv
  BY <1>1 DEF Idle, SerialInv
<1>3. Goes(r, Idle) /\ \A s \in Requests : s # r => req[s] = Idle
  BY <1>1, <1>2, Handled, Alone
<1>4. ClientInv' /\ faults' \in Nat /\ faults' # 0
  BY <1>1 DEF SerialInv, ClientInv
<1>5. ASSUME AddressesApart PROVE WatchedInv'
  <2>1. \A s \in Requests : req[s].pc \notin {"watch", "mark", "pend"}
    BY <1>1, <1>3 DEF Idle
  <2> QED
    BY <1>1, <1>5, <2>1, WatchedFrame DEF SerialInv
<1> QED
  BY <1>1, <1>3, <1>4, <1>5, RequestWaits

\* A request that waits for the connection.
LEMMA WatchingNow ==
  ASSUME RequestInv, NEW r \in Requests, req[r].pc \in {"watch", "mark", "pend"}
  PROVE  /\ req[r] # Idle /\ RequestOk(req[r]) /\ Watching(req[r])
         /\ watcher = Idle /\ boot = {} /\ \A s \in Requests : s # r => req[s] = Idle
<1>1. req[r] # Idle
  BY DEF Idle
<1>2. PICK q : q = req[r]
  OBVIOUS
<1>3. RequestOk(q) /\ q.pc \in {"watch", "mark", "pend"}
  BY <1>1, <1>2, Alone
<1>4. Watching(q)
  BY <1>3 DEF RequestOk, Creating, Editing, Setting, Paying
<1> QED
  BY <1>1, <1>2, <1>4, Alone

\* The wait ends with the address known.
LEMMA WatchEnds ==
  ASSUME SerialInv, NEW r \in Requests, req[r].pc \in {"watch", "mark", "pend"}, AddressesApart,
         rows' = rows, UNCHANGED <<boot, watcher>>, Known \subseteq Known', req[r].row.address \in Known'
  PROVE  WatchedInv'
<1>1. /\ Watching(req[r]) /\ watcher = Idle /\ boot = {}
      /\ \A s \in Requests : s # r => req[s] = Idle
  BY WatchingNow DEF SerialInv
<1>2. \A t : /\ Stored(t)' = Stored(t) /\ InvoiceByToken(t)' = InvoiceByToken(t)
             /\ LatestRow(t)' = LatestRow(t)
  BY RowsFrame
<1>3. ASSUME NEW t \in Tokens, Watched(t) PROVE Watched(t)'
  <2>1. LatestRow(t).address \in Known \/ req[r].t = t
    BY <1>1, <1>3 DEF Watched, Idle
  <2>2. req[r].t = t => LatestRow(t).address = req[r].row.address
    BY <1>1 DEF Watching
  <2>3. LatestRow(t)'.address \in Known'
    BY <1>2, <2>1, <2>2
  <2> QED
    BY <2>3 DEF Watched
<1>4. WatchedInv
  BY DEF SerialInv
<1> QED
  BY <1>2, <1>3, <1>4 DEF WatchedInv

LEMMA StillWatching ==
  ASSUME SerialInv, NEW r \in Requests, req[r].pc \in {"watch", "mark", "pend"}, AddressesApart,
         rows' = rows, UNCHANGED <<boot, watcher>>, Known \subseteq Known',
         req'[r].pc \in {"watch", "mark", "pend"}, req'[r].t = req[r].t
  PROVE  WatchedInv'
<1>1. /\ watcher = Idle /\ boot = {} /\ \A s \in Requests : s # r => req[s] = Idle
  BY WatchingNow DEF SerialInv
<1>2. \A t : /\ Stored(t)' = Stored(t) /\ InvoiceByToken(t)' = InvoiceByToken(t)
             /\ LatestRow(t)' = LatestRow(t)
  BY RowsFrame
<1>3. ASSUME NEW t \in Tokens, Watched(t) PROVE Watched(t)'
  <2>1. LatestRow(t).address \in Known \/ req[r].t = t
    BY <1>1, <1>3 DEF Watched, Idle
  <2>2. CASE LatestRow(t).address \in Known
    BY <1>2, <2>2 DEF Watched
  <2>3. CASE req[r].t = t
    BY <2>3 DEF Watched
  <2> QED
    BY <2>1, <2>2, <2>3
<1>4. WatchedInv
  BY DEF SerialInv
<1> QED
  BY <1>2, <1>3, <1>4 DEF WatchedInv

\* The address of an approved invoice is one that may be paid.
LEMMA WatchedIsPayable ==
  ASSUME NEW q, RequestOk(q), Watching(q)
  PROVE  Payable(q.row.address)
BY DEF RequestOk, Watching, Payable

\* The request goes on to wait, or to mark what it subscribed to.
LEMMA WatchGoesOn ==
  ASSUME SerialInv, NEW r \in Requests, req[r].pc = "watch", NEW pc \in {"mark", "pend"},
         Go(r, pc), UNCHANGED <<watcher, boot>>
  PROVE  \E x : /\ RequestOk(x) /\ Goes(r, x) /\ req'[r].pc = pc /\ req'[r].t = req[r].t
<1>1. PICK q : q = req[r]
  OBVIOUS
<1>2. /\ req[r] # Idle /\ RequestOk(q) /\ Watching(q) /\ RequestInv
  BY <1>1, WatchingNow DEF SerialInv
<1>3. PICK x : x = [pc |-> pc, t |-> q.t, version |-> q.version, status |-> q.status,
                    row |-> q.row, todo |-> q.todo]
  OBVIOUS
<1>4. /\ x = [pc |-> x.pc, t |-> x.t, version |-> x.version, status |-> x.status,
              row |-> x.row, todo |-> x.todo]
      /\ x.pc = pc /\ x.t = q.t /\ x.version = q.version /\ x.status = q.status
      /\ x.row = q.row /\ x.todo = q.todo
  BY <1>3
<1>5. RequestOk(x)
  BY <1>2, <1>4 DEF RequestOk, Watching
<1>6. [q EXCEPT !.pc = pc] = x
  BY <1>2, <1>3, Moved
<1>7. req' = [req EXCEPT ![r] = x]
  BY <1>1, <1>6 DEF Go
<1>8. Goes(r, x) /\ req'[r] = x
  BY <1>2, <1>7, Handled, RequestGoes
<1> QED
  BY <1>1, <1>4, <1>5, <1>8

LEMMA addWatchAddressStep ==
  ASSUME SerialInv, NEW r \in Requests, addWatchAddress(r)
  PROVE  SerialInv' /\ StaysPaid
<1>1. /\ req[r].pc = "watch" /\ UNCHANGED <<pd, rows, chain, queue, watcher, boot, serial, faults>>
  BY DEF addWatchAddress, KeepRest
<1>2. PICK q : q = req[r]
  OBVIOUS
<1>3. /\ req[r] # Idle /\ RequestOk(q) /\ Watching(q) /\ watcher = Idle /\ boot = {}
      /\ RequestInv /\ ClientInv /\ faults \in Nat
  BY <1>1, <1>2, WatchingNow DEF SerialInv
<1>4. PICK a : a = q.row.address
  OBVIOUS
<1>5. CASE ws' = ws /\ missed \subseteq missed' /\ a \in Known' /\ Done(r)
  <2>1. Goes(r, Idle)
    BY <1>1, <1>3, <1>5, Handled DEF Done
  <2>2. ClientInv' /\ Known \subseteq Known'
    BY <1>1, <1>3, <1>5 DEF ClientInv, Known
  <2>3. AddressesApart => WatchedInv'
    BY <1>1, <1>2, <1>4, <1>5, <2>2, WatchEnds
  <2>4. ASSUME AddressesApart, faults = 0 PROVE PayableInv'
    <3>1. PayableInv /\ ws.status = "open" /\ ws.work = "none" /\ ~ws.dead
      BY <2>4 DEF SerialInv, FaultlessInv, PayableInv
    <3> QED
      BY <1>1, <1>5, <3>1, PayableFrame
  <2> QED
    BY <1>1, <1>3, <2>1, <2>2, <2>3, <2>4, RequestWaits
<1>6. CASE ws.status = "reconnecting" /\ Go(r, "pend") /\ UNCHANGED <<ws, missed>>
  <2>1. PICK x : /\ RequestOk(x) /\ Goes(r, x) /\ req'[r].pc = "pend" /\ req'[r].t = req[r].t
    BY <1>1, <1>6, WatchGoesOn
  <2>2. ClientInv' /\ Known' = Known
    BY <1>1, <1>3, <1>6 DEF ClientInv, Known
  <2>3. AddressesApart => WatchedInv'
    BY <1>1, <2>1, <2>2, StillWatching
  <2>4. ~(AddressesApart /\ faults = 0)
    BY <1>6 DEF SerialInv, FaultlessInv, PayableInv
  <2> QED
    BY <1>1, <1>3, <2>1, <2>2, <2>3, <2>4, RequestWaits
<1>7. CASE /\ ws.status = "open" /\ ws' = [ws EXCEPT !.live = ws.live \cup {a}]
           /\ Go(r, "mark") /\ missed' = missed
  <2>1. PICK x : /\ RequestOk(x) /\ Goes(r, x) /\ req'[r].pc = "mark" /\ req'[r].t = req[r].t
    BY <1>1, <1>7, WatchGoesOn
  <2>2. ws' = [status |-> ws.status, dead |-> ws.dead, subs |-> ws.subs,
               live |-> ws.live \cup {a}, work |-> ws.work, prev |-> ws.prev,
               pending |-> ws.pending, replay |-> ws.replay, lost |-> ws.lost]
    BY <1>3, <1>7 DEF ClientInv, IsClient
  <2>3. /\ IsClient(ws') /\ ws'.status = ws.status /\ ws'.dead = ws.dead /\ ws'.work = ws.work
        /\ ws'.subs = ws.subs /\ ws'.live = ws.live \cup {a} /\ ws'.prev = ws.prev
        /\ ws'.pending = ws.pending /\ ws'.replay = ws.replay /\ ws'.lost = ws.lost
    BY <2>2, ClientFields
  <2>4. ~ws.dead => ~ws'.dead
    BY <2>3, Zenon
  <2>5. ClientInv'
    BY <1>1, <1>3, <2>3 DEF ClientInv, IsClient
  <2>6. Known \subseteq Known'
    BY <1>7, <2>3 DEF Known
  <2>7. AddressesApart => WatchedInv'
    BY <1>1, <2>1, <2>6, StillWatching
  <2>8. ASSUME AddressesApart, faults = 0 PROVE PayableInv'
    <3>1. PayableInv /\ ws.status = "open" /\ ws.work = "none" /\ ~ws.dead
      BY <2>8 DEF SerialInv, FaultlessInv, PayableInv
    <3>2. \A b \in ws'.live : b \in ws.live \/ Payable(b)
      BY <1>3, <1>4, <2>3, WatchedIsPayable
    <3>3. ws'.status = "open" /\ ws'.work = "none" /\ ~ws'.dead
      BY <2>3, <2>4, <3>1
    <3> QED
      BY <1>1, <3>1, <3>2, <3>3, PayableFrame
  <2> QED
    BY <1>1, <1>3, <2>1, <2>5, <2>7, <2>8, RequestWaits
<1>8. CASE ws.status = "open" /\ (ws.dead \/ a \in ws.subs) /\ Subscribe(a) /\ Done(r)
  <2>1. ws' = ws /\ missed \subseteq missed' /\ (a \in ws.subs \/ a \in missed')
    BY <1>8 DEF Subscribe
  <2>2. a \in Known'
    BY <2>1 DEF Known
  <2> QED
    BY <1>5, <1>8, <2>1, <2>2
<1> QED
  BY <1>2, <1>4, <1>6, <1>7, <1>8 DEF addWatchAddress

LEMMA subAddStep ==
  ASSUME SerialInv, NEW r \in Requests, subAdd(r)
  PROVE  SerialInv' /\ StaysPaid
<1>1. PICK q : q = req[r]
  OBVIOUS
<1>2. PICK a : a = q.row.address
  OBVIOUS
<1>3. PICK z : z = IF a \in ws.live THEN ws.lost ELSE ws.lost \cup {a}
  OBVIOUS
<1>4. /\ req[r].pc = "mark" /\ ws' = [ws EXCEPT !.subs = ws.subs \cup {a}, !.lost = z]
      /\ req' = [req EXCEPT ![r] = Idle]
      /\ UNCHANGED <<pd, rows, missed, chain, queue, watcher, boot, serial, faults>>
  BY <1>1, <1>2, <1>3 DEF subAdd, KeepRest, Done
<1>5. req[r] # Idle /\ RequestInv /\ ClientInv /\ faults \in Nat
  BY <1>4, WatchingNow DEF SerialInv
<1>6. PICK v : v = [status |-> ws.status, dead |-> ws.dead, subs |-> ws.subs \cup {a},
                    live |-> ws.live, work |-> ws.work, prev |-> ws.prev,
                    pending |-> ws.pending, replay |-> ws.replay, lost |-> ws.lost]
  OBVIOUS
<1>7. v = [ws EXCEPT !.subs = ws.subs \cup {a}]
  BY <1>5, <1>6 DEF ClientInv, IsClient
<1>8. ws' = [v EXCEPT !.lost = z]
  BY <1>4, <1>6, <1>7
<1>9. ws' = [status |-> ws.status, dead |-> ws.dead, subs |-> ws.subs \cup {a},
             live |-> ws.live, work |-> ws.work, prev |-> ws.prev,
             pending |-> ws.pending, replay |-> ws.replay, lost |-> z]
  BY <1>6, <1>8
<1>10. /\ IsClient(ws') /\ ws'.status = ws.status /\ ws'.dead = ws.dead /\ ws'.work = ws.work
       /\ ws'.subs = ws.subs \cup {a} /\ ws'.live = ws.live /\ ws'.prev = ws.prev
       /\ ws'.pending = ws.pending /\ ws'.replay = ws.replay /\ ws'.lost = z
  BY <1>9, ClientFields
<1>11. ws.lost \subseteq z /\ (a \in ws.live \/ a \in z)
  BY <1>3
<1>12. ClientInv'
  BY <1>4, <1>5, <1>10, <1>11 DEF ClientInv, IsClient
<1>13. Goes(r, Idle)
  BY <1>4, <1>5, Handled
<1>14. Known \subseteq Known' /\ a \in Known'
  BY <1>4, <1>10, <1>11 DEF Known
<1>15. AddressesApart => WatchedInv'
  BY <1>1, <1>2, <1>4, <1>14, WatchEnds
<1>16. ~ws.dead => ~ws'.dead
  BY <1>10, Zenon
<1>17. ASSUME AddressesApart, faults = 0 PROVE PayableInv'
  <2>1. PayableInv /\ ~ws.dead /\ ws.status = "open" /\ ws.work = "none"
    BY <1>17 DEF SerialInv, FaultlessInv, PayableInv
  <2>2. ws'.status = "open" /\ ws'.work = "none" /\ ~ws'.dead /\ ws'.live = ws.live
    BY <1>10, <1>16, <2>1
  <2> QED
    BY <1>4, <2>1, <2>2, PayableFrame
<1> QED
  BY <1>4, <1>5, <1>12, <1>13, <1>15, <1>17, RequestWaits

LEMMA pendingAddStep ==
  ASSUME SerialInv, NEW r \in Requests, pendingAdd(r)
  PROVE  SerialInv' /\ StaysPaid
<1>1. PICK a : a = req[r].row.address
  OBVIOUS
<1>2. /\ req[r].pc = "pend" /\ ws' = [ws EXCEPT !.pending = ws.pending \cup {a}]
      /\ req' = [req EXCEPT ![r] = Idle]
      /\ UNCHANGED <<pd, rows, missed, chain, queue, watcher, boot, serial, faults>>
  BY <1>1 DEF pendingAdd, KeepRest, Done
<1>3. req[r] # Idle /\ RequestInv /\ ClientInv /\ faults \in Nat
  BY <1>2, WatchingNow DEF SerialInv
<1>4. ws' = [status |-> ws.status, dead |-> ws.dead, subs |-> ws.subs, live |-> ws.live,
             work |-> ws.work, prev |-> ws.prev, pending |-> ws.pending \cup {a},
             replay |-> ws.replay, lost |-> ws.lost]
  BY <1>2, <1>3 DEF ClientInv, IsClient
<1>5. /\ IsClient(ws') /\ ws'.status = ws.status /\ ws'.dead = ws.dead /\ ws'.work = ws.work
      /\ ws'.subs = ws.subs /\ ws'.live = ws.live /\ ws'.prev = ws.prev
      /\ ws'.pending = ws.pending \cup {a} /\ ws'.replay = ws.replay /\ ws'.lost = ws.lost
  BY <1>4, ClientFields
<1>6. ~ws.dead => ~ws'.dead
  BY <1>5, Zenon
<1>7. ClientInv'
  BY <1>2, <1>3, <1>5 DEF ClientInv, IsClient
<1>8. Goes(r, Idle)
  BY <1>2, <1>3, Handled
<1>9. Known \subseteq Known' /\ a \in Known'
  BY <1>2, <1>5 DEF Known
<1>10. AddressesApart => WatchedInv'
  BY <1>1, <1>2, <1>9, WatchEnds
<1>11. ASSUME AddressesApart, faults = 0 PROVE PayableInv'
  <2>1. PayableInv /\ ~ws.dead /\ ws.status = "open" /\ ws.work = "none"
    BY <1>11 DEF SerialInv, FaultlessInv, PayableInv
  <2>2. ws'.status = "open" /\ ws'.work = "none" /\ ~ws'.dead /\ ws'.live = ws.live
    BY <1>5, <1>6, <2>1
  <2> QED
    BY <1>2, <2>1, <2>2, PayableFrame
<1> QED
  BY <1>2, <1>3, <1>7, <1>8, <1>10, <1>11, RequestWaits

-----------------------------------------------------------------------------
(* Steps of a request that write. *)

LEMMA CheckIdle ==
  ASSUME CheckInv, watcher' = Idle, boot' = {}, UNCHANGED <<queue, chain>>,
         \A tv \in AllRows : tv \in AllRows' /\ Row(tv)'.address = Row(tv).address
  PROVE  CheckInv'
<1>1. \A i \in 1..Len(queue) : /\ queue[i] \in 1..Len(chain)
                               /\ \E tv \in AllRows : Row(tv).address = chain[queue[i]].address
  BY DEF CheckInv
<1>2. ASSUME NEW i \in 1..Len(queue)
      PROVE  \E tv \in AllRows' : Row(tv)'.address = chain[queue[i]].address
  <2>1. PICK tv \in AllRows : Row(tv).address = chain[queue[i]].address
    BY <1>1
  <2> QED
    BY <2>1
<1> QED
  BY <1>1, <1>2 DEF CheckInv

LEMMA RequestSaves ==
  ASSUME SerialInv, NEW r \in Requests, req[r].pc \notin {"idle", "watch", "mark", "pend"},
         NEW x, Goes(r, x), x = Idle \/ RequestOk(x)', NEW t \in Tokens, t = req[r].t,
         UNCHANGED <<rows, chain, queue, ws, missed, faults>>, RecordsInv', PaidInv',
         \A u \in Tokens : u # t => pd'[u] = pd[u] /\ LastChange(u)' = LastChange(u),
         faults = 0 /\ AddressesApart => Follows(t)'
  PROVE  SerialInv' /\ StaysPaid
<1>1. /\ watcher = Idle /\ watcher' = Idle /\ boot = {} /\ boot' = {}
      /\ \A s \in Requests : s # r => req[s] = Idle
  BY DEF Goes
<1>2. RequestInv /\ CheckInv /\ ClientInv /\ faults \in Nat
  BY DEF SerialInv
<1>3. RequestInv'
  BY <1>2, RequestGoes
<1>4. CheckInv'
  BY <1>1, <1>2, CheckIdle, RowsFrame
<1>5. ClientInv'
  BY <1>1, <1>2 DEF ClientInv
<1>6. StaysPaid
  BY RowsFrame DEF StaysPaid
<1>7. BookedInv'
  BY <1>1 DEF BookedInv
<1>8. AddressesApart' => AddressesApart
  BY RowsFrame
<1>9. ASSUME AddressesApart PROVE WatchedInv'
  <2>1. \A s \in Requests : req[s].pc \notin {"watch", "mark", "pend"}
    BY <1>1 DEF Idle
  <2> QED
    BY <1>1, <1>9, <2>1, WatchedFrame DEF SerialInv
<1>10. ASSUME faults = 0, AddressesApart PROVE FaultlessInv'
  <2>1. FaultlessInv
    BY <1>10 DEF SerialInv
  <2>2. PayableInv /\ ws'.status = "open" /\ ws'.work = "none" /\ ~ws'.dead
    BY <2>1 DEF FaultlessInv, PayableInv
  <2>3. PayableInv'
    BY <1>1, <2>2, PayableFrame
  <2>4. LatestChecked'
    BY <1>1 DEF LatestChecked
  <2>5. OldRows'
    BY <2>1, RowsFrame DEF FaultlessInv
  <2>6. ASSUME NEW u \in Tokens, u # t, pd'[u].version # 0 PROVE Follows(u)'
    <3>1. pd'[u] = pd[u] /\ LastChange(u)' = LastChange(u)
      BY <2>6
    <3>2. Follows(u)
      BY <2>1, <2>6, <3>1 DEF FaultlessInv, FollowsInv
    <3>3. \A s \in Requests : req[s].pc \in {"append", "insert", "update"} => req[s].t # u
      BY <1>1, <2>6 DEF Idle
    <3>4. Even(u)
      BY <1>1, <3>2, <3>3, Evens
    <3>5. Even(u)'
      BY <3>1, <3>4, RowsFrame DEF Even
    <3> QED
      BY <3>5, EvenFollows
  <2>7. FollowsInv'
    BY <1>10, <2>6 DEF FollowsInv
  <2> QED
    BY <2>3, <2>4, <2>5, <2>7 DEF FaultlessInv
<1> QED
  BY <1>2, <1>3, <1>4, <1>5, <1>6, <1>7, <1>8, <1>9, <1>10 DEF SerialInv

\* A request that saves a record is new or an edit.
LEMMA Saving ==
  ASSUME RequestInv, RecordsInv, NEW r \in Requests, req[r].pc \in {"create", "edit"}
  PROVE  /\ req[r] # Idle /\ RequestOk(req[r])
         /\ req[r].pc = "create" => Creating(req[r]) /\ pd[req[r].t].version = 0
         /\ req[r].pc = "edit" => Editing(req[r]) /\ pd[req[r].t].version # 0
<1>1. PICK q : q = req[r]
  OBVIOUS
<1>2. q # Idle /\ RequestOk(q)
  BY <1>1, Alone DEF Idle
<1>3. q.pc = "create" => Creating(q) /\ pd[q.t].version = 0
  BY <1>2 DEF RequestOk, Creating, Editing, Setting, Paying, Watching
<1>4. q.pc = "edit" => Editing(q)
  BY <1>1, <1>2 DEF RequestOk, Creating, Editing, Setting, Paying, Watching
<1>5. q.pc = "edit" => q.t \in Tokens /\ Stored(q.t) # {}
  BY <1>2, <1>4 DEF RequestOk, Editing, Editable
<1>6. q.pc = "edit" => pd[q.t].version # 0
  BY <1>5, LatestIsRow
<1> QED
  BY <1>1, <1>2, <1>3, <1>4, <1>6

LEMMA SaveRecordStep ==
  ASSUME SerialInv, NEW r \in Requests, SaveRecord(r), SingleDigits'
  PROVE  SerialInv' /\ StaysPaid
<1>1. PICK q : q = req[r]
  OBVIOUS
<1>2. PICK t : t = q.t
  OBVIOUS
<1>3. PICK pc : pc = IF q.pc = "create" THEN "insert" ELSE "append"
  OBVIOUS
<1>4. /\ q.pc \in {"create", "edit"} /\ Go(r, pc)
      /\ UNCHANGED <<rows, ws, missed, chain, queue, watcher, boot, serial, begun, faults>>
  BY <1>1, <1>3 DEF SaveRecord, KeepRest
<1>5. RequestInv /\ RecordsInv /\ PaidInv
  BY DEF SerialInv
<1>6. /\ req[r] # Idle /\ RequestOk(q) /\ t \in Tokens
      /\ q.pc = "create" => Creating(q) /\ pd[t].version = 0
      /\ q.pc = "edit" => Editing(q) /\ pd[t].version # 0
  BY <1>1, <1>2, <1>4, <1>5, Saving DEF RequestOk
<1>7. /\ RecordsInv'
      /\ pd[t].version \in Nat /\ pd'[t].version = pd[t].version + 1
      /\ pd'[t].version \in Versions
      /\ HasAddress(pd'[t], q.row.address)
      /\ LastChange(t)' = IF q.pc = "create" THEN "new" ELSE LastChange(t)
      /\ \A u \in Tokens : u # t => pd'[u] = pd[u] /\ LastChange(u)' = LastChange(u)
  BY <1>1, <1>2, <1>5, <1>6, VersionSaved
<1>8. PICK x : x = [pc |-> pc, t |-> q.t, version |-> q.version, status |-> q.status,
                    row |-> q.row, todo |-> q.todo]
  OBVIOUS
<1>9. /\ x = [pc |-> x.pc, t |-> x.t, version |-> x.version, status |-> x.status,
              row |-> x.row, todo |-> x.todo]
      /\ x.pc = pc /\ x.t = t /\ x.version = q.version /\ x.status = q.status
      /\ x.row = q.row /\ x.todo = q.todo
  BY <1>2, <1>8
<1>10. [q EXCEPT !.pc = pc] = x
  BY <1>6, <1>8, Moved
<1>11. Goes(r, x) /\ req'[r] = x
  <2>1. req' = [req EXCEPT ![r] = x]
    BY <1>1, <1>4, <1>10 DEF Go
  <2> QED
    BY <1>4, <1>5, <1>6, <2>1, Handled, RequestGoes
<1>12. Stored(t)' = Stored(t) /\ InvoiceByToken(t)' = InvoiceByToken(t) /\ LatestRow(t)' = LatestRow(t)
  BY <1>4, RowsFrame
<1>13. RequestOk(x)'
  <2>1. CASE q.pc = "create"
    <3>1. /\ q.status = "new" /\ q.version = 1 /\ q.todo = {} /\ Stored(t) = {}
          /\ q.row.status = "new"
      BY <1>2, <1>6, <2>1 DEF Creating
    <3>2. pd'[t].version = 1 /\ LastChange(t)' = "new" /\ pc = "insert"
      BY <1>3, <1>6, <1>7, <2>1
    <3>3. Creating(x)'
      BY <1>7, <1>9, <1>12, <3>1, <3>2 DEF Creating
    <3> QED
      BY <1>6, <1>9, <3>3 DEF RequestOk
  <2>2. CASE q.pc = "edit"
    <3>1. /\ q.status = "updated" /\ q.todo = {} /\ q.row.status = "updated"
          /\ Editable(t) /\ q.version = InvoiceByToken(t) + 1
      BY <1>2, <1>6, <2>2 DEF Editing
    <3>2. Editable(t)' /\ pc = "append"
      BY <1>3, <1>12, <2>2, <3>1 DEF Editable
    <3>3. q.version <= pd'[t].version
      <4>1. InvoiceByToken(t) <= pd[t].version /\ InvoiceByToken(t) \in Versions
        BY <1>5, <1>6, <3>1, LatestIsRow DEF Editable
      <4>2. PICK v : v = InvoiceByToken(t)
        OBVIOUS
      <4>3. v \in Nat
        BY <4>1, <4>2, VersionsAre
      <4> QED
        BY <1>7, <3>1, <4>1, <4>2, <4>3
    <3>4. Editing(x)'
      BY <1>7, <1>9, <1>12, <3>1, <3>2, <3>3 DEF Editing
    <3> QED
      BY <1>6, <1>9, <3>4 DEF RequestOk
  <2> QED
    BY <1>4, <2>1, <2>2
<1>14. PaidInv'
  <2>1. ASSUME NEW u \in Tokens, Stored(u)' # {}, LatestRow(u)'.status = "paid"
        PROVE  LastChange(u)' = "paid"
    <3>1. Stored(u) # {} /\ LatestRow(u).status = "paid"
      BY <1>4, <2>1, RowsFrame
    <3>2. LastChange(u) = "paid"
      BY <1>5, <3>1 DEF PaidInv
    <3>3. q.pc = "create" => u # t
      BY <1>2, <1>6, <3>1 DEF Creating
    <3> QED
      BY <1>7, <3>2, <3>3
  <2> QED
    BY <2>1 DEF PaidInv
<1>15. ASSUME faults = 0, AddressesApart PROVE Follows(t)'
  <2>1. x.version = pd'[t].version /\ x.pc \in {"append", "insert"} /\ x.status \in {"new", "updated"}
    <3>1. CASE q.pc = "create"
      BY <1>3, <1>6, <1>7, <1>9, <3>1 DEF Creating
    <3>2. CASE q.pc = "edit"
      <4>1. Follows(t) /\ watcher = Idle
        BY <1>5, <1>6, <1>15, <3>2, Alone DEF SerialInv, FaultlessInv, FollowsInv
      <4>2. \A s \in Requests : req[s].pc \notin {"append", "insert", "update"}
        BY <1>1, <1>4, <1>5, <1>6, Alone DEF Idle
      <4>3. Even(t)
        BY <4>1, <4>2, Evens
      <4>4. InvoiceByToken(t) = pd[t].version
        BY <4>3 DEF Even
      <4> QED
        BY <1>2, <1>3, <1>6, <1>7, <1>9, <3>2, <4>4 DEF Editing
    <3> QED
      BY <1>4, <3>1, <3>2
  <2>2. Coming(t)'
    BY <1>9, <1>11, <2>1 DEF Coming
  <2> QED
    BY <2>2 DEF Follows, Behind
<1>16. req[r].pc \notin {"idle", "watch", "mark", "pend"}
  BY <1>1, <1>4
<1> QED
  BY <1>1, <1>2, <1>4, <1>6, <1>7, <1>11, <1>13, <1>14, <1>15, <1>16, RequestSaves

\* A request that appends a status change.
LEMMA Appending ==
  ASSUME RequestInv, NEW r \in Requests, req[r].pc = "append"
  PROVE  /\ req[r] # Idle /\ RequestOk(req[r])
         /\ Editing(req[r]) \/ Setting(req[r]) \/ Paying(req[r])
<1>1. PICK q : q = req[r]
  OBVIOUS
<1>2. q # Idle /\ RequestOk(q)
  BY <1>1, Alone DEF Idle
<1>3. Editing(q) \/ Setting(q) \/ Paying(q)
  BY <1>1, <1>2 DEF RequestOk, Creating, Watching
<1> QED
  BY <1>1, <1>2, <1>3

LEMMA AppendStatusStep ==
  ASSUME SerialInv, NEW r \in Requests, AppendStatus(r)
  PROVE  SerialInv' /\ StaysPaid
<1>1. PICK q : q = req[r]
  OBVIOUS
<1>2. PICK t : t = q.t
  OBVIOUS
<1>3. PICK pc : pc = IF q.status = "updated" THEN "insert" ELSE "update"
  OBVIOUS
<1>4. /\ q.pc = "append" /\ Go(r, pc) /\ AppendChange(t, q.status)
      /\ UNCHANGED <<rows, ws, missed, chain, queue, watcher, boot, serial, begun, faults>>
  BY <1>1, <1>2, <1>3 DEF AppendStatus, KeepRest
<1>5. RequestInv /\ RecordsInv /\ PaidInv
  BY DEF SerialInv
<1>6. /\ req[r] # Idle /\ RequestOk(q) /\ t \in Tokens
      /\ Editing(q) \/ Setting(q) \/ Paying(q)
  BY <1>1, <1>2, <1>4, <1>5, Appending DEF RequestOk
<1>7. q.status \in Statuses
  BY <1>6 DEF Editing, Setting, Paying, Statuses
<1>8. /\ RecordsInv' /\ LastChange(t)' = q.status
      /\ pd'[t].version = pd[t].version
      /\ \A a : HasAddress(pd[t], a) => HasAddress(pd'[t], a)
      /\ \A u \in Tokens : u # t => pd'[u] = pd[u] /\ LastChange(u)' = LastChange(u)
  BY <1>4, <1>5, <1>6, <1>7, ChangeAppended
<1>9. PICK x : x = [pc |-> pc, t |-> q.t, version |-> q.version, status |-> q.status,
                    row |-> q.row, todo |-> q.todo]
  OBVIOUS
<1>10. /\ x = [pc |-> x.pc, t |-> x.t, version |-> x.version, status |-> x.status,
               row |-> x.row, todo |-> x.todo]
       /\ x.pc = pc /\ x.t = t /\ x.version = q.version /\ x.status = q.status
       /\ x.row = q.row /\ x.todo = q.todo
  BY <1>2, <1>9
<1>11. [q EXCEPT !.pc = pc] = x
  BY <1>6, <1>9, Moved
<1>12. Goes(r, x) /\ req'[r] = x
  <2>1. req' = [req EXCEPT ![r] = x]
    BY <1>1, <1>4, <1>11 DEF Go
  <2> QED
    BY <1>4, <1>5, <1>6, <2>1, Handled, RequestGoes
<1>13. Stored(t)' = Stored(t) /\ InvoiceByToken(t)' = InvoiceByToken(t) /\ LatestRow(t)' = LatestRow(t)
  BY <1>4, RowsFrame
<1>14. RequestOk(x)'
  <2>1. CASE Editing(q)
    <3>1. /\ q.status = "updated" /\ q.todo = {} /\ q.row.status = "updated"
          /\ Editable(t) /\ q.version = InvoiceByToken(t) + 1
          /\ q.version <= pd[t].version /\ HasAddress(pd[t], q.row.address)
      BY <1>2, <1>4, <2>1 DEF Editing
    <3>2. Editable(t)' /\ pc = "insert"
      BY <1>3, <1>13, <3>1 DEF Editable
    <3>3. Editing(x)'
      BY <1>8, <1>10, <1>13, <3>1, <3>2 DEF Editing
    <3> QED
      BY <1>6, <1>10, <3>3 DEF RequestOk
  <2>2. CASE Setting(q)
    <3>1. /\ q.status \in {"approved", "rejected", "disputed"} /\ q.todo = {} /\ Stored(t) # {}
          /\ q.version = InvoiceByToken(t) /\ rows[t][q.version] = q.row
          /\ q.row.status \in {"new", "updated"}
      BY <1>2, <2>2 DEF Setting
    <3>2. pc = "update" /\ rows'[t][q.version] = q.row
      BY <1>3, <1>4, <3>1
    <3>3. Setting(x)'
      BY <1>8, <1>10, <1>13, <3>1, <3>2 DEF Setting
    <3> QED
      BY <1>6, <1>10, <3>3 DEF RequestOk
  <2>3. CASE Paying(q)
    <3>1. /\ q.status = "paid" /\ q.version \in Stored(t) /\ rows[t][q.version] = q.row
          /\ q.row.status = "approved"
          /\ \A n \in q.todo : IsTodo(n) /\ n.key # <<t, q.version>>
      BY <1>2, <2>3 DEF Paying
    <3>2. pc = "update" /\ rows'[t][q.version] = q.row
      BY <1>3, <1>4, <3>1
    <3>3. \A n : IsTodo(n)' <=> IsTodo(n)
      BY <1>4, RowsFrame DEF IsTodo
    <3>4. Paying(x)'
      BY <1>8, <1>10, <1>13, <3>1, <3>2, <3>3 DEF Paying
    <3> QED
      BY <1>6, <1>10, <3>4 DEF RequestOk
  <2> QED
    BY <1>6, <2>1, <2>2, <2>3
<1>15. PaidInv'
  <2>1. ASSUME NEW u \in Tokens, Stored(u)' # {}, LatestRow(u)'.status = "paid"
        PROVE  LastChange(u)' = "paid"
    <3>1. Stored(u) # {} /\ LatestRow(u).status = "paid"
      BY <1>4, <2>1, RowsFrame
    <3>2. LastChange(u) = "paid"
      BY <1>5, <3>1 DEF PaidInv
    <3>3. u = t => q.status = "paid"
      <4> SUFFICES ASSUME u = t PROVE Paying(q)
        BY DEF Paying
      <4>1. ~Editing(q)
        BY <1>2, <3>1 DEF Editing, Editable
      <4>2. ~Setting(q)
        BY <1>2, <3>1 DEF Setting, LatestRow
      <4> QED
        BY <1>6, <4>1, <4>2
    <3> QED
      BY <1>8, <3>2, <3>3
  <2> QED
    BY <2>1 DEF PaidInv
<1>16. ASSUME faults = 0, AddressesApart PROVE Follows(t)'
  <2>1. pd[t].version # 0
    <3>1. Stored(t) # {}
      BY <1>2, <1>6 DEF Editing, Setting, Paying, Editable
    <3> QED
      BY <1>5, <1>6, <3>1, LatestIsRow
  <2>2. Follows(t) /\ watcher = Idle
    BY <1>5, <1>6, <1>16, <2>1, Alone DEF SerialInv, FaultlessInv, FollowsInv
  <2>3. \A s \in Requests : s # r => req[s] = Idle
    BY <1>5, <1>6, Alone
  <2>4. CASE Editing(q)
    <3>1. pc = "insert" /\ q.status = "updated"
      BY <1>3, <2>4 DEF Editing
    <3>2. q.version = pd[t].version
      <4>1. CASE Coming(t)
        BY <1>1, <2>3, <4>1 DEF Coming, Idle
      <4>2. CASE Stored(t) # {} /\ InvoiceByToken(t) = pd[t].version
        <5>1. q.version = pd[t].version + 1 /\ q.version <= pd[t].version
          BY <1>2, <1>4, <2>4, <4>2 DEF Editing
        <5>2. pd[t].version \in Nat
          BY <1>5, <1>6, <4>2, LatestIsRow
        <5> QED
          BY <5>1, <5>2
      <4> QED
        BY <2>2, <4>1, <4>2 DEF Follows
    <3>3. Coming(t)'
      BY <1>8, <1>10, <1>12, <3>1, <3>2 DEF Coming
    <3> QED
      BY <3>3 DEF Follows, Behind
  <2>5. CASE Setting(q) \/ Paying(q)
    <3>1. pc = "update" /\ q.status \notin {"new", "updated"}
      BY <1>3, <2>5 DEF Setting, Paying
    <3>2. ~Coming(t)
      BY <1>1, <2>3, <3>1 DEF Coming, Idle
    <3>3. Stored(t)' # {} /\ InvoiceByToken(t)' = pd'[t].version
      BY <1>8, <1>13, <2>2, <3>2 DEF Follows
    <3>4. Behind(t)'
      BY <1>10, <1>12, <3>1 DEF Behind
    <3> QED
      BY <3>3, <3>4 DEF Follows
  <2> QED
    BY <1>6, <2>4, <2>5
<1>17. req[r].pc \notin {"idle", "watch", "mark", "pend"}
  BY <1>1, <1>4
<1> QED
  BY <1>1, <1>2, <1>4, <1>6, <1>8, <1>12, <1>14, <1>15, <1>16, <1>17, RequestSaves

LEMMA RequestWrites ==
  ASSUME SerialInv, NEW r \in Requests, req[r].pc \in {"insert", "update"},
         NEW x, Goes(r, x), x = Idle \/ RequestOk(x)', NEW t \in Tokens, t = req[r].t,
         NEW v, NEW y, Rewrite(t, v, y),
         rows[t][v] # NoRow \/ (v <= pd[t].version /\ HasAddress(pd[t], y.address)),
         UNCHANGED <<pd, chain, queue, ws, missed, faults>>,
         LatestRow(t)'.status = "paid" => LastChange(t) = "paid",
         Stored(t) # {} /\ LatestRow(t).status = "paid" => LatestRow(t)'.status = "paid",
         AddressesApart /\ LatestRow(t)'.status = "approved" /\ LatestRow(t)'.pay.status = "watching"
           => Watched(t)',
         faults = 0 /\ AddressesApart =>
           /\ Even(t)'
           /\ \A w \in Stored(t)' :
                w # InvoiceByToken(t)' => rows'[t][w].status \in {"new", "updated", "disputed"}
           /\ Stored(t) # {} /\ LatestRow(t).status \in {"approved", "paid"} =>
                /\ LatestRow(t)'.status \in {"approved", "paid"}
                /\ LatestRow(t)'.address = LatestRow(t).address
  PROVE  SerialInv' /\ StaysPaid
<1>1. /\ watcher = Idle /\ watcher' = Idle /\ boot = {} /\ boot' = {}
      /\ \A s \in Requests : s # r => req[s] = Idle
  BY DEF Goes
<1>2. RequestInv /\ CheckInv /\ ClientInv /\ RecordsInv /\ PaidInv /\ faults \in Nat
  BY DEF SerialInv
<1>3. RequestInv'
  BY <1>2, RequestGoes
<1>4. /\ v \in Versions /\ y # NoRow /\ Write(t, v, y)
  BY RowsAreRows DEF Rewrite
<1>5. /\ Stored(t)' = Stored(t) \cup {v}
      /\ \A s \in Tokens : s # t => /\ rows'[s] = rows[s] /\ Stored(s)' = Stored(s)
                                    /\ InvoiceByToken(s)' = InvoiceByToken(s)
                                    /\ LatestRow(s)' = LatestRow(s)
  BY <1>2, <1>4, RowWritten
<1>6. /\ AllRows' = AllRows \cup {<<t, v>>}
      /\ \A tv \in AllRows : Row(tv)'.address = Row(tv).address
      /\ AddressesApart' => AddressesApart
  BY <1>2, AllRowsWritten
<1>7. CheckInv'
  BY <1>1, <1>2, <1>6, CheckIdle
<1>8. RecordsInv'
  BY <1>2, RecordsWritten
<1>9. ClientInv'
  BY <1>1, <1>2 DEF ClientInv
<1>10. PaidInv'
  <2>1. ASSUME NEW u \in Tokens, Stored(u)' # {}, LatestRow(u)'.status = "paid"
        PROVE  LastChange(u)' = "paid"
    <3>1. LastChange(u)' = LastChange(u)
      BY DEF LastChange
    <3> QED
      BY <1>2, <1>5, <2>1, <3>1 DEF PaidInv
  <2> QED
    BY <2>1 DEF PaidInv
<1>11. StaysPaid
  BY <1>5 DEF StaysPaid
<1>12. BookedInv'
  BY <1>1 DEF BookedInv
<1>13. ASSUME AddressesApart PROVE WatchedInv'
  <2>1. ASSUME NEW u \in Tokens, Stored(u)' # {}, LatestRow(u)'.status = "approved",
               LatestRow(u)'.pay.status = "watching"
        PROVE  Watched(u)'
    <3>1. CASE u = t
      BY <1>13, <2>1, <3>1
    <3>2. CASE u # t
      <4>1. Watched(u)
        BY <1>5, <1>13, <2>1, <3>2 DEF SerialInv, WatchedInv
      <4>2. LatestRow(u).address \in Known
        BY <1>1, <4>1 DEF Watched, Idle
      <4>3. LatestRow(u)'.address \in Known'
        BY <1>5, <3>2, <4>2 DEF Known
      <4> QED
        BY <4>3 DEF Watched
    <3> QED
      BY <3>1, <3>2
  <2> QED
    BY <2>1 DEF WatchedInv
<1>14. ASSUME faults = 0, AddressesApart PROVE FaultlessInv'
  <2>1. FaultlessInv
    BY <1>14 DEF SerialInv
  <2>2. ASSUME NEW a, Payable(a) PROVE Payable(a)'
    <3>1. PICK u \in Tokens : /\ Stored(u) # {} /\ LatestRow(u).address = a
                              /\ LatestRow(u).status \in {"approved", "paid"}
      BY <2>2 DEF Payable
    <3>2. /\ Stored(u)' # {} /\ LatestRow(u)'.address = a
          /\ LatestRow(u)'.status \in {"approved", "paid"}
      BY <1>5, <1>14, <3>1
    <3> QED
      BY <3>2 DEF Payable
  <2>3. PayableInv'
    <3>1. \A a \in ws'.live : Payable(a)'
      BY <2>1, <2>2 DEF FaultlessInv, PayableInv
    <3>2. \A i \in 1..Len(queue) : Payable(chain[queue[i]].address)'
      <4> TAKE i \in 1..Len(queue)
      <4>1. PICK a : a = chain[queue[i]].address
        OBVIOUS
      <4>2. Payable(a)'
        BY <2>1, <2>2, <4>1 DEF FaultlessInv, PayableInv
      <4> QED
        BY <4>1, <4>2 DEF Payable
    <3> QED
      BY <1>1, <2>1, <3>1, <3>2 DEF FaultlessInv, PayableInv
  <2>4. LatestChecked'
    BY <1>1 DEF LatestChecked
  <2>5. OldRows'
    BY <1>5, <1>14, <2>1 DEF FaultlessInv, OldRows
  <2>6. ASSUME NEW u \in Tokens, pd'[u].version # 0 PROVE Follows(u)'
    <3>1. CASE u = t
      BY <1>14, <3>1, EvenFollows
    <3>2. CASE u # t
      <4>1. Follows(u)
        BY <2>1, <2>6 DEF FaultlessInv, FollowsInv
      <4>2. \A s \in Requests : req[s].pc \in {"append", "insert", "update"} => req[s].t # u
        BY <1>1, <3>2 DEF Idle
      <4>3. Even(u)
        BY <1>1, <4>1, <4>2, Evens
      <4>4. LastChange(u)' = LastChange(u)
        BY DEF LastChange
      <4>5. Even(u)'
        BY <1>5, <3>2, <4>3, <4>4 DEF Even
      <4> QED
        BY <4>5, EvenFollows
    <3> QED
      BY <3>1, <3>2
  <2>7. FollowsInv'
    BY <2>6 DEF FollowsInv
  <2> QED
    BY <2>3, <2>4, <2>5, <2>7 DEF FaultlessInv
<1> QED
  BY <1>2, <1>3, <1>6, <1>7, <1>8, <1>9, <1>10, <1>11, <1>12, <1>13, <1>14 DEF SerialInv

LEMMA InsertRowStep ==
  ASSUME SerialInv, NEW r \in Requests, InsertRow(r)
  PROVE  SerialInv' /\ StaysPaid
<1>1. PICK q : q = req[r]
  OBVIOUS
<1>2. PICK t : t = q.t
  OBVIOUS
<1>3. PICK v : v = q.version
  OBVIOUS
<1>4. /\ q.pc = "insert" /\ req' = [req EXCEPT ![r] = Idle]
      /\ rows[t][v] = NoRow => Write(t, v, q.row)
      /\ UNCHANGED <<pd, ws, missed, chain, queue, watcher, boot, serial, begun, faults>>
  BY <1>1, <1>2, <1>3 DEF InsertRow, KeepRest, Done, Write
<1>5. RequestInv /\ RecordsInv
  BY DEF SerialInv
<1>6. req[r] # Idle /\ RequestOk(q) /\ watcher = Idle /\ \A s \in Requests : s # r => req[s] = Idle
  BY <1>1, <1>4, <1>5, Alone DEF Idle
<1>7. t \in Tokens /\ IsRow(q.row) /\ (Creating(q) \/ Editing(q))
  BY <1>2, <1>4, <1>6 DEF RequestOk, Setting, Paying, Watching
<1>8. CASE Stored(t) # {} /\ ~Editing(q)
  BY <1>2, <1>7, <1>8 DEF Creating
<1>9. ASSUME Stored(t) = {} \/ Editing(q) PROVE SerialInv' /\ StaysPaid
  <2>1. /\ \A w \in Stored(t) : w <= v /\ w # v
        /\ v \in Versions /\ v <= pd[t].version /\ pd[t].version \in Nat
        /\ HasAddress(pd[t], q.row.address) /\ q.row.status \in {"new", "updated"}
        /\ LastChange(t) = q.row.status /\ q.status \in {"new", "updated"}
        /\ Stored(t) # {} => Editing(q) /\ InvoiceByToken(t) < pd[t].version
                             /\ LatestRow(t).status \in {"new", "updated", "disputed"}
    <3>1. CASE Creating(q)
      <4>1. /\ Stored(t) = {} /\ v = 1 /\ pd[t].version = 1 /\ LastChange(t) = "new"
            /\ HasAddress(pd[t], q.row.address) /\ q.row.status = "new" /\ q.status = "new"
        BY <1>2, <1>3, <1>4, <3>1 DEF Creating
      <4> QED
        BY <4>1, VersionsAre
    <3>2. CASE Editing(q)
      <4>1. /\ Stored(t) # {} /\ LatestRow(t).status \in {"new", "updated", "disputed"}
            /\ v = InvoiceByToken(t) + 1 /\ v <= pd[t].version
            /\ HasAddress(pd[t], q.row.address) /\ q.row.status = "updated"
            /\ LastChange(t) = "updated" /\ q.status = "updated"
        BY <1>2, <1>3, <1>4, <3>2 DEF Editing, Editable
      <4>2. PICK l : l = InvoiceByToken(t)
        OBVIOUS
      <4>3. /\ l \in Versions /\ pd[t].version \in Nat /\ pd[t].version <= MaxVersion
            /\ \A w \in Stored(t) : w <= l
        <5>1. l \in Versions /\ \A w \in Stored(t) : w <= l
          BY <1>5, <1>7, <4>1, <4>2, Latest
        <5>2. pd[t].version \in 0..MaxVersion
          BY <1>5, <1>7 DEF RecordsInv, IsRecord
        <5> QED
          BY <5>1, <5>2, VersionsAre
      <4>4. l \in Nat /\ v = l + 1 /\ \A w \in Stored(t) : w \in Nat
        BY <4>1, <4>2, <4>3, VersionsAre DEF Stored
      <4>5. v \in Versions
        BY <4>1, <4>3, <4>4, InvoicesAssumption DEF Versions
      <4>6. \A w \in Stored(t) : w <= v /\ w # v
        BY <4>3, <4>4
      <4>7. InvoiceByToken(t) < pd[t].version
        BY <4>1, <4>2, <4>3, <4>4
      <4> QED
        BY <3>2, <4>1, <4>3, <4>5, <4>6, <4>7
    <3> QED
      BY <1>7, <3>1, <3>2
  <2>2. rows[t][v] = NoRow
    BY <1>7, <2>1 DEF Stored
  <2>3. Rewrite(t, v, q.row) /\ Write(t, v, q.row) /\ q.row # NoRow
    BY <1>4, <1>7, <2>1, <2>2, RowsAreRows DEF Rewrite
  <2>4. /\ Stored(t)' = Stored(t) \cup {v} /\ rows'[t][v] = q.row
        /\ \A w \in Versions : w # v => rows'[t][w] = rows[t][w]
        /\ InvoiceByToken(t)' = v
    <3>1. v \in Nat /\ v <= pd[t].version /\ pd[t].version < Radix /\ pd[t].version \in Nat
      BY <1>5, <1>7, <2>1, VersionsAre DEF RecordsInv, IsRecord
    <3>2. v < Radix
      BY <3>1, InvoicesAssumption
    <3> QED
      BY <1>5, <1>7, <2>1, <2>3, <3>2, RowWritten, LatestWritten
  <2>5. LatestRow(t)' = q.row
    BY <2>4 DEF LatestRow
  <2>6. ASSUME faults = 0, AddressesApart
        PROVE  /\ Even(t)'
               /\ \A w \in Stored(t)' :
                    w # InvoiceByToken(t)' => rows'[t][w].status \in {"new", "updated", "disputed"}
    <3>1. pd[t].version # 0
      BY <2>1, InvoicesAssumption DEF Versions
    <3>2. Follows(t) /\ OldRows
      BY <1>7, <2>6, <3>1 DEF SerialInv, FaultlessInv, FollowsInv
    <3>3. Coming(t)
      BY <1>5, <1>7, <2>1, <3>2, LatestIsRow DEF Follows
    <3>4. pd[t].version = v
      BY <1>1, <1>3, <1>6, <3>3 DEF Coming, Idle
    <3>5. LastChange(t)' = LastChange(t) /\ pd' = pd
      BY <1>4 DEF LastChange
    <3>6. Even(t)'
      BY <2>1, <2>4, <2>5, <3>4, <3>5 DEF Even
    <3>7. ASSUME NEW w \in Stored(t)', w # v
          PROVE  rows'[t][w].status \in {"new", "updated", "disputed"}
      <4>1. w \in Stored(t) /\ w \in Versions /\ rows'[t][w] = rows[t][w]
        BY <2>4, <3>7 DEF Stored
      <4>2. CASE w = InvoiceByToken(t)
        BY <2>1, <4>1, <4>2 DEF LatestRow
      <4>3. CASE w # InvoiceByToken(t)
        BY <1>7, <3>2, <4>1, <4>3 DEF OldRows
      <4> QED
        BY <4>2, <4>3
    <3> QED
      BY <2>4, <3>6, <3>7
  <2>7. Goes(r, Idle)
    BY <1>4, <1>5, <1>6, Handled
  <2> QED
    BY <1>1, <1>2, <1>4, <1>7, <2>1, <2>3, <2>5, <2>6, <2>7, RequestWrites
<1> QED
  BY <1>8, <1>9

\* A request that has told politeiad and writes the row back.
LEMMA Updating ==
  ASSUME RequestInv, NEW r \in Requests, req[r].pc = "update"
  PROVE  req[r] # Idle /\ RequestOk(req[r]) /\ (Setting(req[r]) \/ Paying(req[r]))
<1>1. PICK q : q = req[r]
  OBVIOUS
<1>2. q # Idle /\ RequestOk(q)
  BY <1>1, Alone DEF Idle
<1>3. Setting(q) \/ Paying(q)
  BY <1>1, <1>2 DEF RequestOk, Creating, Editing, Watching
<1> QED
  BY <1>1, <1>2, <1>3

LEMMA RowUpdated ==
  ASSUME NEW q, IsRow(q.row), q.status \in Statuses
  PROVE  /\ IsRow(UpdatedRow(q)) /\ UpdatedRow(q).status = q.status
         /\ UpdatedRow(q).address = q.row.address
<1>1. PICK o : o = q.row
  OBVIOUS
<1>2. o = [status |-> o.status, address |-> o.address, pay |-> o.pay] /\ IsPay(o.pay)
  BY <1>1 DEF IsRow
<1>3. CASE q.status = "approved"
  <2>1. PICK p : p = [status |-> "watching", started |-> Len(chain), received |-> 0]
    OBVIOUS
  <2>2. UpdatedRow(q) = [[o EXCEPT !.status = "approved"] EXCEPT !.pay = p]
    BY <1>1, <1>3, <2>1 DEF UpdatedRow
  <2>3. UpdatedRow(q) = [status |-> "approved", address |-> o.address, pay |-> p]
    BY <1>2, <2>2
  <2>4. IsPay(p)
    BY <2>1 DEF IsPay
  <2> QED
    BY <1>1, <1>3, <2>3, <2>4 DEF IsRow
<1>4. CASE q.status # "approved"
  <2>1. UpdatedRow(q) = [o EXCEPT !.status = q.status]
    BY <1>1, <1>4 DEF UpdatedRow
  <2>2. UpdatedRow(q) = [status |-> q.status, address |-> o.address, pay |-> o.pay]
    BY <1>2, <2>1
  <2> QED
    BY <1>1, <1>2, <2>2 DEF IsRow
<1> QED
  BY <1>3, <1>4

\* processPayInvoices goes on with the next invoice.
LEMMA NextPaid ==
  ASSUME NEW q, RequestOk(q), Paying(q), q.todo # {}
  PROVE  \E n \in q.todo : AfterUpdate(q) =
           [pc |-> "append", t |-> n.key[1], version |-> n.key[2], status |-> "paid",
            row |-> n.row, todo |-> q.todo \ {n}]
<1>1. PICK n : n = CHOOSE m \in q.todo : TRUE
  OBVIOUS
<1>2. n \in q.todo /\ q.status = "paid"
  BY <1>1 DEF Paying
<1>3. PICK a, b, c, d : a = n.key[1] /\ b = n.key[2] /\ c = n.row /\ d = q.todo \ {n}
  OBVIOUS
<1>4. AfterUpdate(q) = [q EXCEPT !.pc = "append", !.t = a, !.version = b, !.row = c, !.todo = d]
  BY <1>1, <1>2, <1>3 DEF AfterUpdate
<1> DEFINE R(pc, t, v, w, o) ==
             [pc |-> pc, t |-> t, version |-> v, status |-> q.status, row |-> w, todo |-> o]
<1>5. q = R(q.pc, q.t, q.version, q.row, q.todo)
  BY DEF RequestOk
<1>6. PICK x1 : x1 = R("append", q.t, q.version, q.row, q.todo)
  OBVIOUS
<1>7. PICK x2 : x2 = R("append", a, q.version, q.row, q.todo)
  OBVIOUS
<1>8. PICK x3 : x3 = R("append", a, b, q.row, q.todo)
  OBVIOUS
<1>9. PICK x4 : x4 = R("append", a, b, c, q.todo)
  OBVIOUS
<1>10. [q EXCEPT !.pc = "append"] = x1
  BY <1>5, <1>6
<1>11. [x1 EXCEPT !.t = a] = x2
  BY <1>6, <1>7
<1>12. [x2 EXCEPT !.version = b] = x3
  BY <1>7, <1>8
<1>13. [x3 EXCEPT !.row = c] = x4
  BY <1>8, <1>9
<1>14. [x4 EXCEPT !.todo = d] = R("append", a, b, c, d)
  BY <1>9
<1>15. AfterUpdate(q) = R("append", a, b, c, d)
  BY <1>4, <1>10, <1>11, <1>12, <1>13, <1>14
<1> QED
  BY <1>2, <1>3, <1>15

LEMMA UpdateRowStep ==
  ASSUME SerialInv, NEW r \in Requests, UpdateRow(r)
  PROVE  SerialInv' /\ StaysPaid
<1>1. PICK q : q = req[r]
  OBVIOUS
<1>2. PICK t : t = q.t
  OBVIOUS
<1>3. PICK v : v = q.version
  OBVIOUS
<1>4. PICK y : y = UpdatedRow(q)
  OBVIOUS
<1>5. PICK x : x = AfterUpdate(q)
  OBVIOUS
<1>6. /\ q.pc = "update" /\ Write(t, v, y) /\ req' = [req EXCEPT ![r] = x]
      /\ UNCHANGED <<pd, ws, missed, chain, queue, watcher, boot, serial, begun, faults>>
  BY <1>1, <1>2, <1>3, <1>4, <1>5 DEF UpdateRow, KeepRest, Write
<1>7. RequestInv /\ RecordsInv
  BY DEF SerialInv
<1>8. /\ req[r] # Idle /\ RequestOk(q) /\ watcher = Idle /\ boot = {}
      /\ \A s \in Requests : s # r => req[s] = Idle
      /\ t \in Tokens /\ IsRow(q.row) /\ (Setting(q) \/ Paying(q))
  BY <1>1, <1>2, <1>6, <1>7, Updating, Alone DEF RequestOk
<1>9. /\ Setting(q) =>
           /\ q.status \in {"approved", "rejected", "disputed"} /\ q.todo = {} /\ Stored(t) # {}
           /\ v = InvoiceByToken(t) /\ rows[t][v] = q.row /\ q.row.status \in {"new", "updated"}
           /\ LastChange(t) = q.status
      /\ Paying(q) =>
           /\ q.status = "paid" /\ v \in Stored(t) /\ rows[t][v] = q.row
           /\ q.row.status = "approved" /\ LastChange(t) = "paid"
           /\ \A n \in q.todo : IsTodo(n) /\ n.key # <<t, v>>
  BY <1>2, <1>3, <1>6 DEF Setting, Paying
<1>10. v \in Stored(t) /\ v \in Versions /\ rows[t][v] = q.row /\ rows[t][v] # NoRow
  <2>1. v \in Stored(t)
    BY <1>7, <1>8, <1>9, Latest
  <2> QED
    BY <1>8, <1>9, <2>1 DEF Stored
<1>11. /\ IsRow(y) /\ y.status = q.status /\ y.address = q.row.address /\ y # NoRow
       /\ Rewrite(t, v, y)
  <2>1. q.status \in Statuses
    BY <1>8, <1>9 DEF Statuses
  <2>2. IsRow(y) /\ y.status = q.status /\ y.address = q.row.address
    BY <1>4, <1>8, <2>1, RowUpdated
  <2> QED
    BY <1>6, <1>8, <1>10, <2>2, RowsAreRows DEF Rewrite
<1>12. /\ Stored(t)' = Stored(t) /\ rows'[t][v] = y /\ InvoiceByToken(t)' = InvoiceByToken(t)
       /\ \A w \in Versions : w # v => rows'[t][w] = rows[t][w]
       /\ \A s \in Tokens : s # t => Stored(s)' = Stored(s)
       /\ InvoiceByToken(t) \in Versions
  <2>1. Stored(t)' = Stored(t) \cup {v}
    BY <1>6, <1>7, <1>8, <1>10, <1>11, RowWritten
  <2> QED
    BY <1>6, <1>7, <1>8, <1>10, <1>11, <2>1, RowWritten, LatestWritten, Latest
<1>13. /\ v = InvoiceByToken(t) => LatestRow(t)' = y /\ LatestRow(t) = q.row
       /\ v # InvoiceByToken(t) => LatestRow(t)' = LatestRow(t)
  BY <1>10, <1>12 DEF LatestRow
<1>14. Goes(r, x) /\ req'[r] = x
  BY <1>6, <1>7, <1>8, Handled, RequestGoes
<1>15. CASE Setting(q) /\ q.status = "approved"
  <2>1. x = [pc |-> "watch", t |-> q.t, version |-> q.version, status |-> q.status,
             row |-> q.row, todo |-> q.todo]
    BY <1>5, <1>8, <1>15, Moved DEF AfterUpdate
  <2>2. /\ x = [pc |-> x.pc, t |-> x.t, version |-> x.version, status |-> x.status,
                row |-> x.row, todo |-> x.todo]
        /\ x.pc = "watch" /\ x.t = t /\ x.version = v /\ x.status = "approved"
        /\ x.row = q.row /\ x.todo = {}
    BY <1>2, <1>3, <1>9, <1>15, <2>1
  <2>3. Watching(x)'
    BY <1>9, <1>11, <1>12, <1>13, <1>15, <2>2 DEF Watching
  <2>4. RequestOk(x)'
    BY <1>8, <2>2, <2>3 DEF RequestOk
  <2>5. Watched(t)'
    BY <1>14, <2>2 DEF Watched
  <2>6. ASSUME faults = 0, AddressesApart
        PROVE  /\ Even(t)'
               /\ \A w \in Stored(t)' :
                    w # InvoiceByToken(t)' => rows'[t][w].status \in {"new", "updated", "disputed"}
    <3>1. pd[t].version # 0
      BY <1>7, <1>8, <1>9, <1>15, LatestIsRow
    <3>2. Follows(t) /\ OldRows
      BY <1>8, <2>6, <3>1 DEF SerialInv, FaultlessInv, FollowsInv
    <3>3. ~Coming(t)
      BY <1>1, <1>8, <1>15 DEF Coming, Idle
    <3>4. LastChange(t)' = LastChange(t) /\ pd' = pd
      BY <1>6 DEF LastChange
    <3>5. Even(t)'
      BY <1>9, <1>11, <1>12, <1>13, <1>15, <3>2, <3>3, <3>4 DEF Even, Follows
    <3> QED
      BY <1>8, <1>9, <1>12, <1>15, <3>2, <3>5 DEF OldRows, Stored
  <2> QED
    BY <1>1, <1>2, <1>6, <1>8, <1>9, <1>10, <1>11, <1>13, <1>14, <1>15, <2>4, <2>5, <2>6, RequestWrites
<1>16. CASE Setting(q) /\ q.status # "approved"
  <2>1. x = Idle
    BY <1>5, <1>9, <1>16 DEF AfterUpdate
  <2>2. ASSUME faults = 0, AddressesApart
        PROVE  /\ Even(t)'
               /\ \A w \in Stored(t)' :
                    w # InvoiceByToken(t)' => rows'[t][w].status \in {"new", "updated", "disputed"}
    <3>1. pd[t].version # 0
      BY <1>7, <1>8, <1>9, <1>16, LatestIsRow
    <3>2. Follows(t) /\ OldRows
      BY <1>8, <2>2, <3>1 DEF SerialInv, FaultlessInv, FollowsInv
    <3>3. ~Coming(t)
      BY <1>1, <1>8, <1>9, <1>16 DEF Coming, Idle
    <3>4. LastChange(t)' = LastChange(t) /\ pd' = pd
      BY <1>6 DEF LastChange
    <3>5. Even(t)'
      BY <1>9, <1>11, <1>12, <1>13, <1>16, <3>2, <3>3, <3>4 DEF Even, Follows
    <3> QED
      BY <1>8, <1>9, <1>12, <1>16, <3>2, <3>5 DEF OldRows, Stored
  <2> QED
    BY <1>1, <1>2, <1>6, <1>8, <1>9, <1>10, <1>11, <1>13, <1>14, <1>16, <2>1, <2>2, RequestWrites
<1>17. CASE Paying(q)
  <2>1. x = Idle \/ RequestOk(x)'
    <3>1. CASE q.todo = {}
      BY <1>5, <1>9, <1>17, <3>1 DEF AfterUpdate
    <3>2. CASE q.todo # {}
      <4>1. PICK n \in q.todo :
              x = [pc |-> "append", t |-> n.key[1], version |-> n.key[2], status |-> "paid",
                   row |-> n.row, todo |-> q.todo \ {n}]
        BY <1>5, <1>8, <1>17, <3>2, NextPaid
      <4>2. /\ x = [pc |-> x.pc, t |-> x.t, version |-> x.version, status |-> x.status,
                    row |-> x.row, todo |-> x.todo]
            /\ x.pc = "append" /\ x.t = n.key[1] /\ x.version = n.key[2] /\ x.status = "paid"
            /\ x.row = n.row /\ x.todo = q.todo \ {n}
        BY <4>1
      <4>3. \A m \in q.todo : /\ m = [key |-> m.key, row |-> m.row] /\ m.key \in AllRows
                              /\ Row(m.key) = m.row /\ m.row.status = "approved"
                              /\ m.key # <<t, v>>
        BY <1>9, <1>17 DEF IsTodo
      <4>4. \A k \in AllRows : k # <<t, v>> => k \in AllRows' /\ Row(k)' = Row(k)
        BY <1>7, <1>11, AllRowsWritten
      <4>5. \A m \in q.todo : IsTodo(m)'
        BY <4>3, <4>4 DEF IsTodo
      <4>6. /\ n.key[1] \in Tokens /\ n.key[2] \in Stored(n.key[1])
            /\ n.key = <<n.key[1], n.key[2]>>
        BY <4>3, Keys
      <4>7. \A m \in q.todo \ {n} : m.key # n.key
        BY <4>3
      <4>8. n.key[2] \in Stored(n.key[1])'
        BY <1>12, <4>6
      <4>9. rows'[n.key[1]][n.key[2]] = n.row
        BY <4>3, <4>4 DEF Row
      <4>10. Paying(x)'
        BY <4>2, <4>3, <4>5, <4>6, <4>7, <4>8, <4>9 DEF Paying
      <4>11. IsRow(n.row)
        <5>1. rows[n.key[1]][n.key[2]] = n.row
          BY <4>3 DEF Row
        <5> QED
          BY <1>7, <4>6, <5>1 DEF RecordsInv, Stored
      <4> QED
        BY <4>2, <4>6, <4>10, <4>11 DEF RequestOk
    <3> QED
      BY <3>1, <3>2
  <2>2. ASSUME faults = 0, AddressesApart
        PROVE  /\ v = InvoiceByToken(t)
               /\ Even(t)'
               /\ \A w \in Stored(t)' :
                    w # InvoiceByToken(t)' => rows'[t][w].status \in {"new", "updated", "disputed"}
    <3>1. pd[t].version # 0
      BY <1>7, <1>8, <1>10, LatestIsRow
    <3>2. Follows(t) /\ OldRows
      BY <1>8, <2>2, <3>1 DEF SerialInv, FaultlessInv, FollowsInv
    <3>3. ~Coming(t)
      BY <1>1, <1>8, <1>9, <1>17 DEF Coming, Idle
    <3>4. LastChange(t)' = LastChange(t) /\ pd' = pd
      BY <1>6 DEF LastChange
    <3>5. v = InvoiceByToken(t)
      BY <1>8, <1>9, <1>10, <1>17, <3>2 DEF OldRows
    <3>6. Even(t)'
      BY <1>9, <1>10, <1>11, <1>12, <1>13, <1>17, <3>2, <3>3, <3>4, <3>5 DEF Even, Follows
    <3> QED
      BY <1>8, <1>12, <3>2, <3>5, <3>6 DEF OldRows, Stored
  <2>3. ASSUME AddressesApart, LatestRow(t)'.status = "approved",
               LatestRow(t)'.pay.status = "watching"
        PROVE  Watched(t)'
    <3>1. LatestRow(t)' = LatestRow(t)
      BY <1>9, <1>11, <1>13, <1>17, <2>3
    <3>2. Watched(t)
      BY <1>8, <1>10, <2>3, <3>1 DEF SerialInv, WatchedInv
    <3>3. LatestRow(t).address \in Known
      BY <1>1, <1>6, <1>8, <3>2 DEF Watched, Idle
    <3>4. LatestRow(t)'.address \in Known'
      BY <1>6, <3>1, <3>3 DEF Known
    <3> QED
      BY <3>4 DEF Watched
  <2>4. /\ LatestRow(t).status = "paid" => LatestRow(t)'.status = "paid"
        /\ LatestRow(t)'.status = "paid" => LastChange(t) = "paid"
    BY <1>9, <1>13, <1>17
  <2>5. faults = 0 /\ AddressesApart =>
          LatestRow(t)'.status \in {"approved", "paid"} /\ LatestRow(t)'.address = LatestRow(t).address
    BY <1>9, <1>11, <1>13, <1>17, <2>2
  <2> QED
    BY <1>1, <1>2, <1>6, <1>8, <1>10, <1>11, <1>14, <2>1, <2>2, <2>3, <2>4, <2>5, RequestWrites
<1> QED
  BY <1>8, <1>15, <1>16, <1>17

LEMMA HandleStep ==
  ASSUME SerialInv, NEW r \in Requests, Handle(r), SingleDigits'
  PROVE  SerialInv' /\ StaysPaid
BY SaveRecordStep, AppendStatusStep, InsertRowStep, UpdateRowStep, addWatchAddressStep,
   subAddStep, pendingAddStep DEF Handle

-----------------------------------------------------------------------------
(* Checks of payments. *)

LEMMA EvenInCheck ==
  ASSUME NEW t, Follows(t), \A r \in Requests : req[r] = Idle,
         watcher.pc = "finish" => watcher.key[1] # t
  PROVE  Even(t)
<1>1. ~Coming(t)
  BY DEF Coming, Idle
<1>2. ~Behind(t)
  BY <1>1 DEF Behind, Idle
<1> QED
  BY <1>1, <1>2 DEF Follows, Even

\* There are no requests during a check.
LEMMA OnlyCheck ==
  ASSUME RequestInv, watcher # Idle \/ boot # {}
  PROVE  \A r \in Requests : req[r] = Idle
BY DEF RequestInv

LEMMA SettledIs ==
  ASSUME NEW p, IsPay(p), NEW n
  PROVE  IsPay(Settled(p, n)) /\ Settled(p, n).status \in {p.status, "paid"}
<1>1. PICK s : s = IF n >= Needed THEN "paid" ELSE p.status
  OBVIOUS
<1>2. p = [status |-> p.status, started |-> p.started, received |-> p.received]
  BY DEF IsPay
<1>3. PICK o : o = [status |-> p.status, started |-> p.started, received |-> n]
  OBVIOUS
<1>4. [p EXCEPT !.received = n] = o
  BY <1>2, <1>3
<1>5. Settled(p, n) = [o EXCEPT !.status = s]
  BY <1>1, <1>3, <1>4 DEF Settled
<1>6. Settled(p, n) = [status |-> s, started |-> p.started, received |-> n]
  BY <1>3, <1>5
<1> QED
  BY <1>1, <1>6 DEF IsPay

LEMMA PaymentsByAddressIs ==
  ASSUME RecordsInv, NEW a, \E tv \in AllRows : Row(tv).address = a
  PROVE  /\ PaymentsByAddress(a) \in AllRows /\ Row(PaymentsByAddress(a)).address = a
         /\ \A o \in AllRows : Row(o).address = a =>
              \/ o[1] < PaymentsByAddress(a)[1]
              \/ o[1] = PaymentsByAddress(a)[1] /\ o[2] <= PaymentsByAddress(a)[2]
<1>1. PICK M : M = {tv \in AllRows : Row(tv).address = a}
  OBVIOUS
<1> DEFINE Top(k) == \A o \in M : \/ o[1] < k[1] \/ o = k
                                  \/ o[1] = k[1] /\ Before(o[2], k[2])
<1>2. M # {} /\ \A o \in M : /\ o[1] \in Tokens /\ o[2] \in Versions /\ o = <<o[1], o[2]>>
                             /\ o[2] < Radix
  <2> SUFFICES ASSUME NEW o \in M
               PROVE  o[1] \in Tokens /\ o[2] \in Versions /\ o = <<o[1], o[2]>> /\ o[2] < Radix
    BY <1>1
  <2>1. o[1] \in Tokens /\ o[2] \in Versions /\ o = <<o[1], o[2]>> /\ o[2] \in Stored(o[1])
    BY <1>1, Keys
  <2> QED
    BY <2>1, StoredDigits
<1>3. \E k \in M : Top(k)
  <2>1. PICK T : T = {o[1] : o \in M}
    OBVIOUS
  <2>2. T \in SUBSET Tokens /\ T # {}
    BY <1>2, <2>1
  <2>3. IsFiniteSet(T)
    BY <2>2, InvoicesAssumption, FS_Subset
  <2>4. PICK t \in T : \A u \in T : u <= t
    BY <2>2, <2>3, InvoicesAssumption, FiniteGreatest
  <2>5. PICK V : V = {v \in Versions : <<t, v>> \in M}
    OBVIOUS
  <2>6. V # {} /\ \A v \in V : v < Radix
    <3>1. PICK o \in M : o[1] = t
      BY <2>1
    <3>2. o[2] \in V
      BY <1>2, <2>5, <3>1
    <3>3. ASSUME NEW v \in V PROVE v < Radix
      <4>1. PICK k : k = <<t, v>>
        OBVIOUS
      <4>2. k \in M /\ k[2] = v
        BY <2>5, <4>1
      <4> QED
        BY <1>2, <4>2
    <3> QED
      BY <3>2, <3>3
  <2>7. PICK v \in V : \A w \in V : w <= v
    <3>1. V \subseteq 0..MaxVersion /\ MaxVersion \in Nat
      BY <2>5, VersionsAre
    <3> QED
      BY <2>6, <3>1, Greatest
  <2>8. <<t, v>> \in M
    BY <2>5
  <2>9. ASSUME NEW o \in M PROVE o[1] < t \/ o = <<t, v>> \/ (o[1] = t /\ Before(o[2], v))
    <3>1. o[1] \in T
      BY <2>1
    <3>2. o[1] <= t
      BY <2>4, <3>1
    <3>3. PICK i : i = o[1]
      OBVIOUS
    <3>4. i \in Nat /\ t \in Nat
      BY <2>2, <3>1, <3>3, InvoicesAssumption
    <3>5. CASE i = t
      <4>1. PICK w : w = o[2]
        OBVIOUS
      <4>2. w \in V /\ o = <<t, w>>
        BY <1>2, <2>5, <3>3, <3>5, <4>1
      <4>3. w <= v /\ w \in Versions /\ v \in Versions /\ w < Radix /\ v < Radix
        BY <2>5, <2>6, <2>7, <4>2
      <4>4. w = v \/ w < v
        BY <4>3, VersionsAre
      <4>5. w = v \/ Before(w, v)
        BY <4>3, <4>4, BeforeIs
      <4> QED
        BY <3>3, <3>5, <4>1, <4>2, <4>5
    <3>6. CASE i # t
      BY <3>2, <3>3, <3>4, <3>6
    <3> QED
      BY <3>5, <3>6
  <2>10. PICK k : k = <<t, v>>
    OBVIOUS
  <2>11. k[1] = t /\ k[2] = v /\ k \in M
    BY <2>8, <2>10
  <2>12. Top(k)
    BY <2>9, <2>10, <2>11
  <2> QED
    BY <2>11, <2>12
<1>4. PaymentsByAddress(a) = CHOOSE k \in M : Top(k)
  BY <1>1 DEF PaymentsByAddress
<1>5. PICK k : k = PaymentsByAddress(a)
  OBVIOUS
<1>6. k \in M /\ Top(k)
  <2> HIDE DEF Top
  <2> QED
    BY <1>3, <1>4, <1>5
<1>7. ASSUME NEW o \in M PROVE o[1] < k[1] \/ (o[1] = k[1] /\ o[2] <= k[2])
  <2>1. o[1] < k[1] \/ o = k \/ (o[1] = k[1] /\ Before(o[2], k[2]))
    BY <1>6
  <2>2. PICK v, w : v = o[2] /\ w = k[2]
    OBVIOUS
  <2>3. v \in Versions /\ w \in Versions /\ v < Radix /\ w < Radix /\ v \in Nat /\ w \in Nat
    BY <1>2, <1>6, <2>2, VersionsAre
  <2>4. Before(v, w) => v <= w
    BY <2>3, BeforeIs
  <2>5. o = k => v <= w
    BY <2>2, <2>3
  <2> QED
    BY <2>1, <2>2, <2>4, <2>5
<1> QED
  BY <1>1, <1>5, <1>6, <1>7

\* Steps of a check that write neither a record nor a row.
LEMMA CheckWaits ==
  ASSUME SerialInv, \A r \in Requests : req[r] = Idle, UNCHANGED <<pd, rows, req>>,
         CheckInv', ClientInv', faults' \in Nat,
         AddressesApart => WatchedInv' /\ BookedInv',
         faults' = 0 /\ AddressesApart =>
           faults = 0 /\ watcher.pc # "finish" /\ PayableInv' /\ LatestChecked'
  PROVE  SerialInv' /\ StaysPaid
<1>1. RecordsInv' /\ PaidInv' /\ StaysPaid
  BY NothingSaved
<1>2. RequestInv'
  BY NoRequests DEF SerialInv
<1>3. AddressesApart' => AddressesApart
  BY RowsFrame
<1>4. ASSUME faults' = 0, AddressesApart PROVE FaultlessInv'
  <2>1. /\ faults = 0 /\ watcher.pc # "finish" /\ PayableInv' /\ LatestChecked'
        /\ FaultlessInv
    BY <1>4 DEF SerialInv
  <2>2. OldRows'
    BY <2>1, RowsFrame DEF FaultlessInv
  <2>3. ASSUME NEW t \in Tokens, pd'[t].version # 0 PROVE Follows(t)'
    <3>1. Follows(t)
      BY <2>1, <2>3 DEF FaultlessInv, FollowsInv
    <3>2. Even(t)
      BY <2>1, <3>1, EvenInCheck
    <3> QED
      BY <3>2, EvenFrame, EvenFollows
  <2>4. FollowsInv'
    BY <2>3 DEF FollowsInv
  <2> QED
    BY <2>1, <2>2, <2>4 DEF FaultlessInv
<1> QED
  BY <1>1, <1>2, <1>3, <1>4 DEF SerialInv

LEMMA NewCheck ==
  ASSUME NEW k, NEW p, NEW b, Check(k, p, b)
  PROVE  /\ watcher' = [pc |-> watcher'.pc, key |-> watcher'.key, pay |-> watcher'.pay,
                        boot |-> watcher'.boot, row |-> watcher'.row]
         /\ watcher'.pc = "save" /\ watcher'.key = k /\ watcher'.pay = p /\ watcher'.row = NoRow
         /\ watcher' # Idle
         /\ b => watcher'.boot
         /\ ~b => ~watcher'.boot
<1>1. PICK w : w = [pc |-> "save", key |-> k, pay |-> p, boot |-> b, row |-> NoRow]
  OBVIOUS
<1>2. watcher' = w
  BY <1>1 DEF Check
<1>3. /\ w = [pc |-> w.pc, key |-> w.key, pay |-> w.pay, boot |-> w.boot, row |-> w.row]
      /\ w.pc = "save" /\ w.key = k /\ w.pay = p /\ w.row = NoRow
  BY <1>1
<1>4. w.boot = b
  BY <1>1, Zenon
<1>5. w # Idle
  BY <1>3 DEF Idle
<1>6. (b => w.boot) /\ (~b => ~w.boot)
  BY <1>4, Zenon
<1> QED
  BY <1>2, <1>3, <1>5, <1>6

LEMMA Tails ==
  ASSUME NEW s, IsLog(s), s # <<>>
  PROVE  /\ IsLog(Tail(s)) /\ Head(s) = s[1] /\ 1 \in 1..Len(s)
         /\ \A i \in 1..Len(Tail(s)) : i + 1 \in 1..Len(s) /\ Tail(s)[i] = s[i + 1]
<1>1. PICK S : s \in Seq(S)
  BY DEF IsLog
<1>2. PICK u : u = Tail(s)
  OBVIOUS
<1>3. /\ u \in Seq(S) /\ Len(s) \in Nat \ {0} /\ Len(u) = Len(s) - 1 /\ Head(s) = s[1]
      /\ \A i \in 1..Len(u) : u[i] = s[i + 1]
  BY <1>1, <1>2
<1>4. \A i \in 1..Len(u) : i + 1 \in 1..Len(s)
  BY <1>3
<1>5. IsLog(u) /\ 1 \in 1..Len(s)
  BY <1>3 DEF IsLog
<1> QED
  BY <1>2, <1>3, <1>4, <1>5

LEMMA checkPaymentsStep ==
  ASSUME SerialInv, serial, checkPayments
  PROVE  SerialInv' /\ StaysPaid
<1>1. PICK m : m = chain[Head(queue)]
  OBVIOUS
<1>2. PICK k : k = PaymentsByAddress(m.address)
  OBVIOUS
<1>3. /\ queue # <<>> /\ watcher = Idle /\ boot = {} /\ ws.status = "open" /\ ws.work = "none"
      /\ \A r \in Requests : req[r] = Idle
      /\ queue' = Tail(queue)
      /\ UNCHANGED <<pd, rows, ws, boot, missed, chain, req, serial, begun>>
      /\ \/ Check(k, Settled(Row(k).pay, m.amount), FALSE) /\ faults' = faults
         \/ faults' = faults + 1 /\ watcher' = watcher
  BY <1>1, <1>2 DEF checkPayments, Monitoring, Quiet, KeepWatch
<1>4. RecordsInv /\ CheckInv /\ ClientInv /\ faults \in Nat
  BY DEF SerialInv
<1>5. /\ IsLog(queue) /\ IsLog(chain)
      /\ \A i \in 1..Len(queue) : /\ queue[i] \in 1..Len(chain)
                                  /\ \E tv \in AllRows : Row(tv).address = chain[queue[i]].address
  BY <1>4 DEF CheckInv
<1>6. /\ IsLog(queue') /\ Head(queue) = queue[1] /\ 1 \in 1..Len(queue)
      /\ \A i \in 1..Len(queue') : i + 1 \in 1..Len(queue) /\ queue'[i] = queue[i + 1]
  BY <1>3, <1>5, Tails
<1>7. \E tv \in AllRows : Row(tv).address = m.address
  BY <1>1, <1>5, <1>6
<1>8. /\ k \in AllRows /\ Row(k).address = m.address
      /\ \A o \in AllRows : Row(o).address = m.address => o[1] < k[1] \/ (o[1] = k[1] /\ o[2] <= k[2])
  BY <1>2, <1>4, <1>7, PaymentsByAddressIs
<1>9. AllRows' = AllRows /\ \A tv : Row(tv)' = Row(tv)
  BY <1>3, RowsFrame
<1>10. \A i \in 1..Len(queue') :
         /\ queue'[i] \in 1..Len(chain)
         /\ \E tv \in AllRows' : Row(tv)'.address = chain[queue'[i]].address
  <2> TAKE i \in 1..Len(queue')
  <2>1. i + 1 \in 1..Len(queue) /\ queue'[i] = queue[i + 1]
    BY <1>6
  <2>2. PICK tv \in AllRows : Row(tv).address = chain[queue[i + 1]].address
    BY <1>5, <2>1
  <2>3. tv \in AllRows' /\ Row(tv)'.address = chain[queue'[i]].address
    BY <1>9, <2>1, <2>2
  <2> QED
    BY <1>5, <2>1, <2>3
<1>11. ClientInv'
  BY <1>3, <1>4 DEF ClientInv
<1>12. ASSUME faults = 0, AddressesApart PROVE PayableInv'
  <2>1. PayableInv
    BY <1>12 DEF SerialInv, FaultlessInv
  <2>2. \A a : Payable(a)' <=> Payable(a)
    BY <1>3, RowsFrame
  <2>3. \A i \in 1..Len(queue') : Payable(chain[queue[i]].address)'
    <3> TAKE i \in 1..Len(queue')
    <3>1. PICK a : a = chain[queue'[i]].address
      OBVIOUS
    <3>2. Payable(a)
      BY <1>6, <2>1, <3>1 DEF PayableInv
    <3>3. Payable(a)'
      BY <2>2, <3>2
    <3> QED
      BY <1>3, <3>1, <3>3 DEF Payable
  <2>4. \A a \in ws'.live : Payable(a)'
    BY <1>3, <2>1, <2>2 DEF PayableInv
  <2>5. boot' = {} /\ ws.status' = "open" /\ ws.work' = "none" /\ ~ws.dead'
    BY <1>3, <2>1 DEF PayableInv
  <2>6. \A a \in ws.live' : Payable(a)'
    BY <2>4
  <2> QED
    BY <2>3, <2>5, <2>6 DEF PayableInv
<1>13. ASSUME AddressesApart PROVE WatchedInv'
  <2>1. \A t : /\ Stored(t)' = Stored(t) /\ InvoiceByToken(t)' = InvoiceByToken(t)
               /\ LatestRow(t)' = LatestRow(t)
    BY <1>3, RowsFrame
  <2>2. \A t : Watched(t) => Watched(t)'
    BY <1>3, <2>1 DEF Watched, Known, Idle
  <2> QED
    BY <1>13, <2>1, <2>2 DEF SerialInv, WatchedInv
<1>14. CASE Check(k, Settled(Row(k).pay, m.amount), FALSE) /\ faults' = faults
  <2>1. PICK p : p = Settled(Row(k).pay, m.amount)
    OBVIOUS
  <2>2. /\ watcher' = [pc |-> watcher'.pc, key |-> watcher'.key, pay |-> watcher'.pay,
                       boot |-> watcher'.boot, row |-> watcher'.row]
        /\ watcher'.pc = "save" /\ watcher'.key = k /\ watcher'.pay = p
        /\ watcher' # Idle /\ ~watcher'.boot
    BY <1>14, <2>1, NewCheck
  <2>3. IsPay(p) /\ p.status \in {Row(k).pay.status, "paid"}
    <3>1. IsPay(Row(k).pay)
      <4>1. k[1] \in Tokens /\ k[2] \in Versions /\ Row(k) = rows[k[1]][k[2]] /\ Row(k) # NoRow
        BY <1>8, Keys DEF AllRows, Row
      <4> QED
        BY <1>4, <4>1 DEF RecordsInv, IsRow
    <3> QED
      BY <2>1, <3>1, SettledIs
  <2>4. WatcherOk(watcher)'
    BY <1>8, <1>9, <2>2, <2>3 DEF WatcherOk
  <2>5. CheckInv'
    BY <1>3, <1>5, <1>6, <1>10, <2>4 DEF CheckInv
  <2>6. ASSUME AddressesApart
        PROVE  \A o \in AllRows : Row(o).address = Row(k).address => o[1] = k[1] /\ o[2] <= k[2]
    <3> SUFFICES ASSUME NEW o \in AllRows, Row(o).address = Row(k).address
                 PROVE  o[1] = k[1] /\ o[2] <= k[2]
      OBVIOUS
    <3>1. o[1] = k[1]
      BY <1>8, <2>6 DEF AddressesApart
    <3>2. k[1] \in Nat
      BY <1>8, Keys, InvoicesAssumption
    <3> QED
      BY <1>8, <3>1, <3>2
  <2>7. AddressesApart => BookedInv'
    BY <1>9, <2>2, <2>3, <2>6 DEF BookedInv
  <2>8. ASSUME faults = 0, AddressesApart PROVE LatestChecked'
    <3>1. Payable(m.address)
      BY <1>1, <1>6, <2>8 DEF SerialInv, FaultlessInv, PayableInv
    <3>2. PICK t \in Tokens : /\ Stored(t) # {} /\ LatestRow(t).address = m.address
                              /\ LatestRow(t).status \in {"approved", "paid"}
      BY <3>1 DEF Payable
    <3>3. PICK l : l = InvoiceByToken(t)
      OBVIOUS
    <3>4. l \in Stored(t) /\ LatestRow(t) = rows[t][l] /\ \A v \in Stored(t) : v <= l
      BY <1>4, <3>2, <3>3, LatestIsRow
    <3>5. PICK o : o = <<t, l>>
      OBVIOUS
    <3>6. o \in AllRows /\ Row(o) = LatestRow(t) /\ o[1] = t /\ o[2] = l
      BY <3>4, <3>5, StoredRows
    <3>7. t = k[1] /\ l <= k[2]
      BY <1>8, <2>6, <2>8, <3>2, <3>6
    <3>8. k[2] \in Stored(t) /\ k = <<k[1], k[2]>>
      BY <1>8, <3>7, Keys
    <3>9. k[2] = l
      <4>1. PICK v : v = k[2]
        OBVIOUS
      <4>2. v \in Nat /\ l \in Nat
        BY <3>4, <3>8, <4>1, VersionsAre DEF Stored
      <4> QED
        BY <3>4, <3>7, <3>8, <4>1, <4>2
    <3>10. k = o
      BY <3>5, <3>7, <3>8, <3>9
    <3>11. InvoiceByToken(t)' = l
      BY <1>3, <3>3, RowsFrame
    <3> QED
      BY <1>9, <2>2, <3>2, <3>6, <3>7, <3>9, <3>10, <3>11 DEF LatestChecked
  <2>9. watcher.pc # "finish"
    BY <1>3 DEF Idle
  <2> QED
    BY <1>3, <1>4, <1>11, <1>12, <1>13, <1>14, <2>5, <2>7, <2>8, <2>9, CheckWaits
<1>15. CASE faults' = faults + 1 /\ watcher' = watcher
  <2>1. CheckInv'
    BY <1>3, <1>5, <1>6, <1>10, <1>15 DEF CheckInv
  <2>2. BookedInv' /\ faults' \in Nat /\ faults' # 0
    BY <1>3, <1>4, <1>15 DEF BookedInv
  <2> QED
    BY <1>3, <1>4, <1>11, <1>13, <2>1, <2>2, CheckWaits
<1> QED
  BY <1>3, <1>14, <1>15

LEMMA checkHistoricalPaymentsStep ==
  ASSUME SerialInv, serial, checkHistoricalPayments
  PROVE  SerialInv' /\ StaysPaid
<1>0. PICK b \in boot : \E got :
        /\ watcher = Idle /\ ws.status = "open" /\ ws.work = "none" /\ \A r \in Requests : req[r] = Idle
        /\ faults' \in {faults, faults + 1} /\ boot' = boot \ {b}
        /\ \/ Check(b.key, Settled(b.pay, got), TRUE) /\ UNCHANGED <<ws, missed>>
           \/ /\ IF b.pay.status = "watching" THEN Subscribe(Row(b.key).address)
                 ELSE UNCHANGED <<ws, missed>>
              /\ watcher' = watcher
        /\ UNCHANGED <<pd, rows, queue, chain, req, serial, begun>>
  <2>1. PICK b \in boot, fails \in BOOLEAN :
          LET got == IF fails THEN 0 ELSE Received(Row(b.key).address, b.pay.started) IN
          /\ watcher = Idle /\ ws.status = "open" /\ ws.work = "none"
          /\ serial => \A r \in Requests : req[r] = Idle
          /\ fails => faults < MaxFaults
          /\ faults' = IF fails THEN faults + 1 ELSE faults
          /\ boot' = boot \ {b}
          /\ \/ /\ got # b.pay.received
                /\ Check(b.key, Settled(b.pay, got), TRUE)
                /\ UNCHANGED <<ws, missed>>
             \/ /\ got = b.pay.received
                /\ IF b.pay.status = "watching" THEN Subscribe(Row(b.key).address)
                   ELSE UNCHANGED <<ws, missed>>
                /\ UNCHANGED watcher
          /\ UNCHANGED <<pd, rows, queue>> /\ KeepWatch
    BY DEF checkHistoricalPayments, Monitoring
  <2>2. PICK got : got = IF fails THEN 0 ELSE Received(Row(b.key).address, b.pay.started)
    OBVIOUS
  <2>3. faults' \in {faults, faults + 1}
    BY <2>1
  <2>4. \/ Check(b.key, Settled(b.pay, got), TRUE) /\ UNCHANGED <<ws, missed>>
        \/ /\ IF b.pay.status = "watching" THEN Subscribe(Row(b.key).address)
              ELSE UNCHANGED <<ws, missed>>
           /\ watcher' = watcher
    BY <2>1, <2>2
  <2>5. /\ watcher = Idle /\ ws.status = "open" /\ ws.work = "none" /\ \A r \in Requests : req[r] = Idle
        /\ boot' = boot \ {b}
        /\ UNCHANGED <<pd, rows, queue, chain, req, serial, begun>>
    BY <2>1 DEF KeepWatch
  <2> QED
    BY <2>3, <2>4, <2>5
<1>1. PICK got :
        /\ watcher = Idle /\ ws.status = "open" /\ ws.work = "none" /\ \A r \in Requests : req[r] = Idle
        /\ faults' \in {faults, faults + 1} /\ boot' = boot \ {b}
        /\ \/ Check(b.key, Settled(b.pay, got), TRUE) /\ UNCHANGED <<ws, missed>>
           \/ /\ IF b.pay.status = "watching" THEN Subscribe(Row(b.key).address)
                 ELSE UNCHANGED <<ws, missed>>
              /\ watcher' = watcher
        /\ UNCHANGED <<pd, rows, queue, chain, req, serial, begun>>
  BY <1>0
<1>2. PICK k : k = b.key
  OBVIOUS
<1>3. RecordsInv /\ CheckInv /\ ClientInv /\ faults \in Nat
  BY DEF SerialInv
<1>4. /\ \A c \in boot : /\ c = [key |-> c.key, pay |-> c.pay]
                         /\ c.key \in AllRows /\ c.pay = Row(c.key).pay
      /\ IsLog(queue) /\ IsLog(chain)
      /\ \A i \in 1..Len(queue) : /\ queue[i] \in 1..Len(chain)
                                  /\ \E tv \in AllRows : Row(tv).address = chain[queue[i]].address
  BY <1>3 DEF CheckInv
<1>5. \A c \in boot' : c \in boot /\ c.key # k
  BY <1>1, <1>2, <1>4
<1>6. /\ k \in AllRows /\ k[1] \in Tokens /\ k[2] \in Versions /\ k = <<k[1], k[2]>>
      /\ Row(k) = rows[k[1]][k[2]] /\ IsPay(b.pay) /\ b.pay = Row(k).pay
  <2>1. k \in AllRows /\ b.pay = Row(k).pay
    BY <1>2, <1>4
  <2>2. k[1] \in Tokens /\ k[2] \in Versions /\ k = <<k[1], k[2]>> /\ Row(k) = rows[k[1]][k[2]]
        /\ Row(k) # NoRow
    BY <2>1, Keys DEF AllRows, Row
  <2>3. IsRow(Row(k))
    BY <1>3, <2>2 DEF RecordsInv
  <2>4. IsPay(Row(k).pay)
    BY <2>3 DEF IsRow
  <2> QED
    BY <2>1, <2>2, <2>4
<1>7. /\ AllRows' = AllRows /\ \A tv : Row(tv)' = Row(tv)
      /\ \A t : /\ Stored(t)' = Stored(t) /\ InvoiceByToken(t)' = InvoiceByToken(t)
                /\ LatestRow(t)' = LatestRow(t)
  BY <1>1, RowsFrame
<1>8. ~(faults' = 0 /\ AddressesApart)
  <2>1. faults' = 0 => faults = 0
    BY <1>1, <1>3
  <2> QED
    BY <1>1, <2>1 DEF SerialInv, FaultlessInv, PayableInv
<1>9. faults' \in Nat
  BY <1>1, <1>3
<1>10. CASE Check(k, Settled(b.pay, got), TRUE) /\ UNCHANGED <<ws, missed>>
  <2>1. PICK p : p = Settled(b.pay, got)
    OBVIOUS
  <2>2. /\ watcher' = [pc |-> watcher'.pc, key |-> watcher'.key, pay |-> watcher'.pay,
                       boot |-> watcher'.boot, row |-> watcher'.row]
        /\ watcher'.pc = "save" /\ watcher'.key = k /\ watcher'.pay = p
        /\ watcher' # Idle /\ watcher'.boot
    BY <1>10, <2>1, NewCheck
  <2>3. IsPay(p)
    BY <1>6, <2>1, SettledIs
  <2>4. WatcherOk(watcher)'
    BY <1>6, <1>7, <2>2, <2>3 DEF WatcherOk
  <2>5. CheckInv'
    BY <1>1, <1>4, <1>5, <1>7, <2>2, <2>4 DEF CheckInv
  <2>6. ClientInv'
    BY <1>1, <1>3, <1>10 DEF ClientInv
  <2>7. BookedInv'
    BY <2>2 DEF BookedInv
  <2>8. ASSUME AddressesApart PROVE WatchedInv'
    <3>1. Known' = Known
      BY <1>10 DEF Known
    <3>2. ASSUME NEW t, Watched(t) PROVE Watched(t)'
      <4>1. \/ LatestRow(t).address \in Known
            \/ \E c \in boot : c.key = <<t, InvoiceByToken(t)>>
        BY <1>1, <3>2 DEF Watched, Idle
      <4>2. ASSUME NEW c \in boot, c.key = <<t, InvoiceByToken(t)>>
            PROVE  Watched(t)'
        <5>1. CASE c = b
          BY <1>2, <1>7, <2>2, <4>2, <5>1 DEF Watched
        <5>2. CASE c # b
          <6>1. c \in boot' /\ c.key = <<t, InvoiceByToken(t)'>>
            BY <1>1, <1>7, <4>2, <5>2
          <6> QED
            BY <6>1 DEF Watched
        <5> QED
          BY <5>1, <5>2
      <4>3. LatestRow(t).address \in Known => Watched(t)'
        BY <1>7, <3>1 DEF Watched
      <4> QED
        BY <4>1, <4>2, <4>3
    <3> QED
      BY <1>7, <2>8, <3>2 DEF SerialInv, WatchedInv
  <2> QED
    BY <1>1, <1>8, <1>9, <2>5, <2>6, <2>7, <2>8, CheckWaits
<1>11. CASE /\ IF b.pay.status = "watching" THEN Subscribe(Row(k).address)
               ELSE UNCHANGED <<ws, missed>>
            /\ watcher' = watcher
  <2>1. CheckInv'
    BY <1>1, <1>3, <1>4, <1>5, <1>7, <1>11 DEF CheckInv
  <2>2. BookedInv'
    BY <1>1, <1>11 DEF BookedInv
  <2>3. /\ ClientInv' /\ Known \subseteq Known'
        /\ b.pay.status = "watching" => Row(k).address \in Known'
    <3>1. CASE b.pay.status = "watching"
      BY <1>1, <1>3, <1>11, <3>1, Subscribed
    <3>2. CASE b.pay.status # "watching"
      BY <1>1, <1>3, <1>11, <3>2 DEF ClientInv, Known
    <3> QED
      BY <3>1, <3>2
  <2>4. ASSUME AddressesApart PROVE WatchedInv'
    <3>1. ASSUME NEW t \in Tokens, Stored(t) # {}, LatestRow(t).status = "approved",
                 LatestRow(t).pay.status = "watching"
          PROVE  Watched(t)'
      <4>1. Watched(t)
        BY <2>4, <3>1 DEF SerialInv, WatchedInv
      <4>2. \/ LatestRow(t).address \in Known
            \/ \E c \in boot : c.key = <<t, InvoiceByToken(t)>>
        BY <1>1, <4>1 DEF Watched, Idle
      <4>3. ASSUME NEW c \in boot, c.key = <<t, InvoiceByToken(t)>>
            PROVE  Watched(t)'
        <5>1. CASE c = b
          <6>1. k[1] = t /\ k[2] = InvoiceByToken(t)
            BY <1>2, <4>3, <5>1
          <6>2. Row(k) = LatestRow(t)
            BY <1>6, <6>1 DEF LatestRow
          <6>3. LatestRow(t)'.address \in Known'
            BY <1>6, <1>7, <2>3, <3>1, <6>2
          <6> QED
            BY <6>3 DEF Watched
        <5>2. CASE c # b
          <6>1. c \in boot' /\ c.key = <<t, InvoiceByToken(t)'>>
            BY <1>1, <1>7, <4>3, <5>2
          <6> QED
            BY <6>1 DEF Watched
        <5> QED
          BY <5>1, <5>2
      <4>4. LatestRow(t).address \in Known => Watched(t)'
        BY <1>7, <2>3 DEF Watched
      <4> QED
        BY <4>2, <4>3, <4>4
    <3> QED
      BY <1>7, <3>1 DEF WatchedInv
  <2> QED
    BY <1>1, <1>8, <1>9, <2>1, <2>2, <2>3, <2>4, CheckWaits
<1> QED
  BY <1>1, <1>2, <1>10, <1>11

\* The check goes on.
LEMMA CheckMoves ==
  ASSUME WatcherOk(watcher), NEW p, NEW x,
         watcher' = [pc |-> p, key |-> watcher.key, pay |-> watcher.pay, boot |-> watcher.boot,
                     row |-> x],
         p # "idle"
  PROVE  /\ watcher' = [pc |-> watcher'.pc, key |-> watcher'.key, pay |-> watcher'.pay,
                        boot |-> watcher'.boot, row |-> watcher'.row]
         /\ watcher'.pc = p /\ watcher'.key = watcher.key /\ watcher'.pay = watcher.pay
         /\ watcher'.row = x /\ watcher' # Idle
         /\ (watcher.boot => watcher'.boot) /\ (~watcher.boot => ~watcher'.boot)
<1>1. PICK o : o = watcher.boot
  OBVIOUS
<1>2. PICK w : w = [pc |-> p, key |-> watcher.key, pay |-> watcher.pay, boot |-> o, row |-> x]
  OBVIOUS
<1>3. watcher' = w
  BY <1>1, <1>2
<1>4. /\ w = [pc |-> w.pc, key |-> w.key, pay |-> w.pay, boot |-> w.boot, row |-> w.row]
      /\ w.pc = p /\ w.key = watcher.key /\ w.pay = watcher.pay /\ w.row = x
  BY <1>2
<1>5. w.boot = o
  BY <1>2, Zenon
<1>6. w # Idle
  BY <1>4 DEF Idle
<1>7. (o => w.boot) /\ (~o => ~w.boot)
  BY <1>5, Zenon
<1>8. (watcher.boot => w.boot) /\ (~watcher.boot => ~w.boot)
  BY <1>1, <1>7, Zenon
<1>9. (watcher.boot => watcher'.boot) /\ (~watcher.boot => ~watcher'.boot)
  BY <1>3, <1>8, Zenon
<1> QED
  BY <1>3, <1>4, <1>6, <1>9

\* A check in progress.
LEMMA Checking ==
  ASSUME SerialInv, watcher.pc # "idle"
  PROVE  /\ watcher # Idle /\ WatcherOk(watcher) /\ ws.status = "open" /\ ws.work = "none"
         /\ \A r \in Requests : req[r] = Idle
         /\ watcher.key \in AllRows /\ watcher.key[1] \in Tokens /\ watcher.key[2] \in Versions
         /\ watcher.key[2] \in Stored(watcher.key[1]) /\ Stored(watcher.key[1]) # {}
         /\ watcher.key = <<watcher.key[1], watcher.key[2]>> /\ IsRow(Row(watcher.key))
         /\ Row(watcher.key) = rows[watcher.key[1]][watcher.key[2]]
         /\ IsPay(watcher.pay)
<1>1. watcher # Idle
  BY DEF Idle
<1>2. WatcherOk(watcher) /\ ws.status = "open" /\ ws.work = "none"
  BY <1>1 DEF SerialInv, CheckInv, ClientInv
<1>3. \A r \in Requests : req[r] = Idle
  BY <1>1, OnlyCheck DEF SerialInv
<1>4. PICK k : k = watcher.key
  OBVIOUS
<1>5. k \in AllRows /\ IsPay(watcher.pay)
  BY <1>2, <1>4 DEF WatcherOk
<1>6. /\ k[1] \in Tokens /\ k[2] \in Versions /\ k[2] \in Stored(k[1]) /\ Stored(k[1]) # {}
      /\ k = <<k[1], k[2]>> /\ Row(k) = rows[k[1]][k[2]] /\ Row(k) # NoRow
  BY <1>5, Keys DEF AllRows, Row
<1>7. IsRow(Row(k))
  BY <1>6 DEF SerialInv, RecordsInv
<1> QED
  BY <1>1, <1>2, <1>3, <1>4, <1>5, <1>6, <1>7

\* Steps of a check that write the record.
LEMMA CheckSaves ==
  ASSUME SerialInv, watcher.pc \in {"save", "mark"}, NEW p \in {"store", "finish"}, NEW x,
         watcher' = [pc |-> p, key |-> watcher.key, pay |-> watcher.pay, boot |-> watcher.boot,
                     row |-> x],
         UNCHANGED <<rows, chain, ws, queue, boot, missed, faults, req>>, RecordsInv',
         \A u \in Tokens :
           /\ pd'[u].version = pd[u].version
           /\ \/ LastChange(u)' = LastChange(u)
              \/ u = watcher.key[1] /\ LastChange(u)' = "paid" /\ p = "finish",
         p = "finish" => x = Row(watcher.key) /\ LastChange(watcher.key[1])' = "paid"
  PROVE  SerialInv' /\ StaysPaid
<1>1. /\ watcher # Idle /\ WatcherOk(watcher) /\ ws.status = "open" /\ ws.work = "none"
      /\ \A r \in Requests : req[r] = Idle
      /\ watcher.key \in AllRows /\ watcher.key[1] \in Tokens /\ IsPay(watcher.pay)
  BY Checking
<1>2. /\ watcher' = [pc |-> watcher'.pc, key |-> watcher'.key, pay |-> watcher'.pay,
                     boot |-> watcher'.boot, row |-> watcher'.row]
      /\ watcher'.pc = p /\ watcher'.key = watcher.key /\ watcher'.pay = watcher.pay
      /\ watcher'.row = x /\ watcher' # Idle
      /\ (watcher.boot => watcher'.boot) /\ (~watcher.boot => ~watcher'.boot)
  BY <1>1, CheckMoves
<1>3. RequestInv /\ CheckInv /\ ClientInv /\ PaidInv /\ faults \in Nat
  BY DEF SerialInv
<1>4. /\ AllRows' = AllRows /\ \A tv : Row(tv)' = Row(tv)
      /\ \A t : /\ Stored(t)' = Stored(t) /\ InvoiceByToken(t)' = InvoiceByToken(t)
                /\ LatestRow(t)' = LatestRow(t)
      /\ AddressesApart' <=> AddressesApart
      /\ OldRows' <=> OldRows
  BY RowsFrame
<1>5. PaidInv' /\ StaysPaid
  BY <1>3, <1>4 DEF PaidInv, StaysPaid
<1>6. RequestInv'
  BY <1>1, <1>3, NoRequests
<1>7. WatcherOk(watcher)'
  <2>1. watcher'.pc \in {"save", "store", "mark", "finish"} /\ watcher'.key \in AllRows'
        /\ IsPay(watcher'.pay)
    BY <1>1, <1>2, <1>4
  <2>2. watcher'.pc = "finish" =>
          watcher'.row = Row(watcher.key)' /\ LastChange(watcher.key[1])' = "paid"
    BY <1>2, <1>4
  <2> QED
    BY <1>2, <2>1, <2>2 DEF WatcherOk, LastChange, Row
<1>8. CheckInv'
  <2>1. \A b \in boot : /\ b = [key |-> b.key, pay |-> b.pay]
                        /\ b.key \in AllRows' /\ b.pay = Row(b.key)'.pay
                        /\ watcher'.key # b.key
    BY <1>1, <1>2, <1>3, <1>4 DEF CheckInv
  <2>2. \A i \in 1..Len(queue) : /\ queue[i] \in 1..Len(chain)
                                 /\ \E tv \in AllRows' : Row(tv)'.address = chain[queue[i]].address
    BY <1>3, <1>4 DEF CheckInv
  <2> QED
    BY <1>3, <1>7, <2>1, <2>2 DEF CheckInv, Row
<1>9. ClientInv'
  BY <1>1, <1>3 DEF ClientInv
<1>10. ASSUME AddressesApart PROVE WatchedInv' /\ BookedInv'
  <2>1. \A t : Watched(t) => Watched(t)'
    BY <1>1, <1>2, <1>4 DEF Watched, Known, Idle
  <2>2. WatchedInv'
    BY <1>4, <1>10, <2>1 DEF SerialInv, WatchedInv
  <2>3. ASSUME ~watcher'.boot
        PROVE  /\ watcher'.pay.status \in {Row(watcher'.key).pay.status, "paid"}
               /\ \A tv \in AllRows : Row(tv).address = Row(watcher'.key).address =>
                    tv[1] = watcher'.key[1] /\ tv[2] <= watcher'.key[2]
    BY <1>1, <1>2, <1>10, <2>3 DEF SerialInv, BookedInv
  <2>4. BookedInv'
    BY <1>4, <2>3 DEF BookedInv, Row
  <2> QED
    BY <2>2, <2>4
<1>11. ASSUME faults = 0, AddressesApart PROVE FaultlessInv'
  <2>1. PayableInv /\ LatestChecked /\ OldRows /\ FollowsInv
    BY <1>11 DEF SerialInv, FaultlessInv
  <2>2. PayableInv'
    <3>1. ws'.status = "open" /\ ws'.work = "none" /\ ~ws'.dead /\ \A a \in ws'.live : a \in ws.live
      BY <2>1 DEF PayableInv
    <3> QED
      BY <2>1, <3>1, PayableFrame
  <2>3. LatestChecked'
    <3>1. /\ watcher.key[2] = InvoiceByToken(watcher.key[1])
          /\ Row(watcher.key).status \in {"approved", "paid"}
      BY <1>1, <2>1 DEF LatestChecked
    <3> QED
      BY <1>2, <1>4, <3>1 DEF LatestChecked, InvoiceByToken, Stored, Row
  <2>4. ASSUME NEW u \in Tokens, pd'[u].version # 0 PROVE Follows(u)'
    <3>1. Follows(u)
      BY <2>1, <2>4 DEF FollowsInv
    <3>2. Even(u)
      BY <1>1, <3>1, EvenInCheck
    <3>3. CASE LastChange(u)' = LastChange(u)
      BY <1>4, <3>2, <3>3, EvenFollows DEF Even
    <3>4. CASE u = watcher.key[1] /\ p = "finish"
      <4>1. Behind(u)'
        BY <1>2, <3>4 DEF Behind
      <4>2. Stored(u)' # {} /\ InvoiceByToken(u)' = pd'[u].version
        BY <1>4, <3>2 DEF Even
      <4> QED
        BY <4>1, <4>2 DEF Follows
    <3> QED
      BY <3>3, <3>4
  <2>5. FollowsInv'
    BY <2>4 DEF FollowsInv
  <2> QED
    BY <1>4, <2>1, <2>2, <2>3, <2>5 DEF FaultlessInv
<1> QED
  BY <1>3, <1>4, <1>5, <1>6, <1>8, <1>9, <1>10, <1>11 DEF SerialInv

LEMMA SavePaymentStep ==
  ASSUME SerialInv, SavePayment
  PROVE  SerialInv' /\ StaysPaid
<1>1. /\ watcher.pc = "save"
      /\ pd' = [pd EXCEPT ![watcher.key[1]].received = watcher.pay.received]
      /\ watcher' = [watcher EXCEPT !.pc = "store"]
      /\ UNCHANGED <<rows, chain, ws, queue, boot, missed, faults, req>>
  BY DEF SavePayment, KeepWatch
<1>2. WatcherOk(watcher) /\ watcher.key[1] \in Tokens
  BY <1>1, Checking
<1>3. watcher' = [pc |-> "store", key |-> watcher.key, pay |-> watcher.pay, boot |-> watcher.boot,
                  row |-> watcher.row]
  BY <1>1, <1>2 DEF WatcherOk
<1>4. PICK t : t = watcher.key[1]
  OBVIOUS
<1>5. PICK n : n = watcher.pay.received
  OBVIOUS
<1>6. RecordsInv' /\ \A u \in Tokens : pd'[u].version = pd[u].version /\ LastChange(u)' = LastChange(u)
  <2>1. RecordsInv /\ t \in Tokens /\ pd' = [pd EXCEPT ![t].received = n]
    BY <1>1, <1>2, <1>4, <1>5 DEF SerialInv
  <2> QED
    BY <1>1, <2>1, ReceivedSaved
<1> QED
  BY <1>1, <1>3, <1>6, CheckSaves

LEMMA MarkPaidStep ==
  ASSUME SerialInv, MarkPaid
  PROVE  SerialInv' /\ StaysPaid
<1>1. /\ watcher.pc = "mark" /\ AppendChange(watcher.key[1], "paid")
      /\ watcher' = [watcher EXCEPT !.pc = "finish", !.row = Row(watcher.key)]
      /\ UNCHANGED <<rows, chain, ws, queue, boot, missed, faults, req>>
  BY DEF MarkPaid, KeepWatch
<1>2. WatcherOk(watcher) /\ watcher.key[1] \in Tokens
  BY <1>1, Checking
<1>3. PICK x : x = Row(watcher.key)
  OBVIOUS
<1>4. watcher' = [pc |-> "finish", key |-> watcher.key, pay |-> watcher.pay, boot |-> watcher.boot,
                  row |-> x]
  <2>1. PICK w : w = [pc |-> "finish", key |-> watcher.key, pay |-> watcher.pay,
                      boot |-> watcher.boot, row |-> watcher.row]
    OBVIOUS
  <2>2. [watcher EXCEPT !.pc = "finish"] = w
    BY <1>2, <2>1 DEF WatcherOk
  <2>3. watcher' = [w EXCEPT !.row = x]
    BY <1>1, <1>3, <2>2
  <2> QED
    BY <2>1, <2>3
<1>5. PICK t : t = watcher.key[1]
  OBVIOUS
<1>6. /\ RecordsInv' /\ LastChange(t)' = "paid"
      /\ \A u \in Tokens : pd'[u].version = pd[u].version
                           /\ (u # t => LastChange(u)' = LastChange(u))
  <2>1. RecordsInv /\ t \in Tokens /\ AppendChange(t, "paid") /\ "paid" \in Statuses
    BY <1>1, <1>2, <1>5 DEF SerialInv, Statuses
  <2> QED
    BY <1>1, <2>1, ChangeAppended
<1>7. LastChange(watcher.key[1])' = "paid"
  BY <1>1, <1>4, <1>5, <1>6 DEF LastChange
<1>8. \A u \in Tokens : /\ pd'[u].version = pd[u].version
                        /\ \/ LastChange(u)' = LastChange(u)
                           \/ u = watcher.key[1] /\ LastChange(u)' = "paid"
  BY <1>5, <1>6
<1> QED
  BY <1>1, <1>3, <1>4, <1>6, <1>7, <1>8, CheckSaves

LEMMA Unsubscribed ==
  ASSUME ClientInv, ws.status = "open" /\ ws.work = "none", missed \subseteq missed', NEW a, Unsubscribe(a)
  PROVE  /\ ClientInv' /\ ws'.status = "open" /\ ws'.work = "none" /\ (~ws.dead => ~ws'.dead)
         /\ ws'.live \subseteq ws.live /\ \A b \in Known : b # a => b \in Known'
<1>1. IsClient(ws) /\ ws.prev = {} /\ ws.subs \subseteq ws.live \cup ws.lost
  BY DEF ClientInv
<1>2. CASE ws.dead
  <2>1. ws' = ws
    BY <1>2 DEF Unsubscribe
  <2> QED
    BY <1>1, <1>2, <2>1 DEF ClientInv, Known
<1>3. CASE ~ws.dead
  <2>1. ws' = [ws EXCEPT !.subs = ws.subs \ {a}, !.live = ws.live \ {a}]
    BY <1>3 DEF Unsubscribe
  <2>2. PICK v : v = [status |-> ws.status, dead |-> ws.dead, subs |-> ws.subs \ {a},
                      live |-> ws.live, work |-> ws.work, prev |-> ws.prev,
                      pending |-> ws.pending, replay |-> ws.replay, lost |-> ws.lost]
    OBVIOUS
  <2>3. v = [ws EXCEPT !.subs = ws.subs \ {a}]
    BY <1>1, <2>2 DEF IsClient
  <2>4. ws' = [v EXCEPT !.live = ws.live \ {a}]
    BY <2>1, <2>2, <2>3
  <2>5. ws' = [status |-> ws.status, dead |-> ws.dead, subs |-> ws.subs \ {a},
               live |-> ws.live \ {a}, work |-> ws.work, prev |-> ws.prev,
               pending |-> ws.pending, replay |-> ws.replay, lost |-> ws.lost]
    BY <2>2, <2>4
  <2>6. /\ IsClient(ws') /\ ws'.status = ws.status /\ ws'.dead = ws.dead /\ ws'.work = ws.work
        /\ ws'.subs = ws.subs \ {a} /\ ws'.live = ws.live \ {a} /\ ws'.prev = ws.prev
        /\ ws'.pending = ws.pending /\ ws'.replay = ws.replay /\ ws'.lost = ws.lost
    BY <2>5, ClientFields
  <2>7. ~ws.dead => ~ws'.dead
    BY <2>6, Zenon
  <2>8. /\ IsClient(ws') /\ ws'.status = "open" /\ ws'.work = "none" /\ ws'.prev = {}
        /\ ws'.subs \subseteq ws'.live \cup ws'.lost
    BY <1>1, <2>6
  <2>9. ClientInv'
    BY <2>8 DEF ClientInv, IsClient
  <2>10. \A b \in Known : b # a => b \in Known'
    BY <2>6 DEF Known
  <2> QED
    BY <2>6, <2>7, <2>8, <2>9, <2>10
<1> QED
  BY <1>2, <1>3

\* Steps of a check that write the row.
LEMMA CheckWrites ==
  ASSUME SerialInv, watcher.pc \in {"store", "finish"}, NEW k, k = watcher.key,
         NEW y, Rewrite(k[1], k[2], y), UNCHANGED <<pd, chain, queue, boot, faults, req>>,
         watcher' = Idle \/ (WatcherOk(watcher)' /\ watcher'.pc = "mark" /\ watcher'.key = k),
         ClientInv', ws'.status = "open" /\ ws'.work = "none", ~ws.dead => ~ws'.dead,
         \A a \in ws'.live : a \in ws.live \/ a = Row(k).address,
         \/ watcher.pc = "store" /\ y.status = Row(k).status
         \/ watcher.pc = "finish" /\ y.status = "paid" /\ LastChange(k[1]) = "paid",
         AddressesApart => WatchedInv' /\ BookedInv'
  PROVE  SerialInv' /\ StaysPaid
<1>1. /\ watcher # Idle /\ WatcherOk(watcher) /\ \A r \in Requests : req[r] = Idle
      /\ k \in AllRows /\ k[1] \in Tokens /\ k[2] \in Versions /\ k[2] \in Stored(k[1])
      /\ k = <<k[1], k[2]>> /\ IsRow(Row(k)) /\ Row(k) = rows[k[1]][k[2]]
  BY Checking
<1>2. RecordsInv /\ RequestInv /\ CheckInv /\ PaidInv /\ faults \in Nat
  BY DEF SerialInv
<1>3. Row(k) # NoRow /\ y # NoRow /\ Write(k[1], k[2], y) /\ y.address = Row(k).address
  BY <1>1, RowsAreRows DEF Rewrite
<1>4. /\ rows'[k[1]][k[2]] = y
      /\ \A u \in Tokens : u # k[1] => rows'[u] = rows[u]
      /\ \A w \in Versions : w # k[2] => rows'[k[1]][w] = rows[k[1]][w]
      /\ \A u \in Tokens : Stored(u)' = Stored(u) /\ InvoiceByToken(u)' = InvoiceByToken(u)
  <2>1. /\ rows'[k[1]][k[2]] = y
        /\ \A u \in Tokens : u # k[1] => rows'[u] = rows[u]
        /\ \A w \in Versions : w # k[2] => rows'[k[1]][w] = rows[k[1]][w]
        /\ Stored(k[1])' = Stored(k[1]) \cup {k[2]}
        /\ \A u \in Tokens : u # k[1] => /\ Stored(u)' = Stored(u)
                                         /\ InvoiceByToken(u)' = InvoiceByToken(u)
    BY <1>1, <1>2, <1>3, RowWritten
  <2>2. Stored(k[1])' = Stored(k[1])
    BY <1>1, <2>1
  <2>3. InvoiceByToken(k[1])' = InvoiceByToken(k[1])
    BY <1>1, <1>2, <1>3, LatestWritten
  <2> QED
    BY <2>1, <2>2, <2>3
<1>5. /\ AllRows' = AllRows /\ \A tv \in AllRows : Row(tv)'.address = Row(tv).address
      /\ \A tv \in AllRows : tv # k => Row(tv)' = Row(tv)
      /\ Row(k)' = y
      /\ AddressesApart' => AddressesApart
  <2>1. /\ AllRows' = AllRows \cup {<<k[1], k[2]>>}
        /\ \A tv \in AllRows : Row(tv)'.address = Row(tv).address
        /\ \A tv \in AllRows : tv # <<k[1], k[2]>> => Row(tv)' = Row(tv)
        /\ AddressesApart' => AddressesApart
    BY <1>2, AllRowsWritten
  <2>2. Row(k)' = y
    BY <1>4 DEF Row
  <2> QED
    BY <1>1, <2>1, <2>2
<1>6. RecordsInv'
  BY <1>1, <1>2, <1>3, RecordsWritten
<1>7. ASSUME NEW u \in Tokens, NEW v \in Stored(u)
      PROVE  /\ rows'[u][v].address = rows[u][v].address
             /\ \/ rows'[u][v].status = rows[u][v].status
                \/ /\ u = k[1] /\ v = k[2] /\ rows'[u][v].status = "paid"
                   /\ LastChange(u) = "paid" /\ watcher.pc = "finish"
  <2>1. v \in Versions
    BY DEF Stored
  <2>2. CASE u = k[1] /\ v = k[2]
    BY <1>1, <1>3, <1>4, <2>2
  <2>3. CASE ~(u = k[1] /\ v = k[2])
    BY <1>4, <2>1, <2>3
  <2> QED
    BY <2>2, <2>3
<1>8. ASSUME NEW u \in Tokens, Stored(u) # {}
      PROVE  /\ LatestRow(u)'.address = LatestRow(u).address
             /\ \/ LatestRow(u)'.status = LatestRow(u).status
                \/ u = k[1] /\ LatestRow(u)'.status = "paid" /\ LastChange(u) = "paid"
  <2>1. PICK v : v = InvoiceByToken(u)
    OBVIOUS
  <2>2. v \in Stored(u) /\ LatestRow(u) = rows[u][v]
    BY <1>2, <1>8, <2>1, LatestIsRow
  <2>3. LatestRow(u)' = rows'[u][v]
    BY <1>4, <2>1 DEF LatestRow
  <2> QED
    BY <1>7, <2>2, <2>3
<1>9. PaidInv'
  <2>1. ASSUME NEW u \in Tokens, Stored(u)' # {}, LatestRow(u)'.status = "paid"
        PROVE  LastChange(u)' = "paid"
    <3>1. Stored(u) # {} /\ LastChange(u)' = LastChange(u)
      BY <1>4, <2>1 DEF LastChange
    <3> QED
      BY <1>2, <1>8, <2>1, <3>1 DEF PaidInv
  <2> QED
    BY <2>1 DEF PaidInv
<1>10. StaysPaid
  BY <1>4, <1>8 DEF StaysPaid
<1>11. RequestInv'
  BY <1>1, <1>2, NoRequests
<1>12. CheckInv'
  <2>1. \A b \in boot : /\ b = [key |-> b.key, pay |-> b.pay] /\ b.key # k
                        /\ b.key \in AllRows' /\ b.pay = Row(b.key)'.pay
    BY <1>1, <1>2, <1>5 DEF CheckInv
  <2>2. \A i \in 1..Len(queue) : /\ queue[i] \in 1..Len(chain)
                                 /\ \E tv \in AllRows' : Row(tv)'.address = chain[queue[i]].address
    BY <1>2, <1>5 DEF CheckInv
  <2> QED
    BY <1>2, <2>1, <2>2 DEF CheckInv, Row
<1>13. ASSUME faults = 0, AddressesApart PROVE FaultlessInv'
  <2>1. PayableInv /\ LatestChecked /\ OldRows /\ FollowsInv
    BY <1>13 DEF SerialInv, FaultlessInv
  <2>2. k[2] = InvoiceByToken(k[1]) /\ Row(k).status \in {"approved", "paid"}
    BY <1>1, <2>1 DEF LatestChecked
  <2>3. ASSUME NEW a, Payable(a) PROVE Payable(a)'
    <3>1. PICK u \in Tokens : /\ Stored(u) # {} /\ LatestRow(u).address = a
                              /\ LatestRow(u).status \in {"approved", "paid"}
      BY <2>3 DEF Payable
    <3>2. /\ Stored(u)' # {} /\ LatestRow(u)'.address = a
          /\ LatestRow(u)'.status \in {"approved", "paid"}
      BY <1>4, <1>8, <3>1
    <3> QED
      BY <3>2 DEF Payable
  <2>4. PayableInv'
    <3>1. Payable(Row(k).address)
      BY <1>1, <2>2 DEF Payable, LatestRow
    <3>2. \A a \in ws'.live : Payable(a)'
      BY <2>1, <2>3, <3>1 DEF PayableInv
    <3>3. \A i \in 1..Len(queue) : Payable(chain[queue[i]].address)'
      <4> TAKE i \in 1..Len(queue)
      <4>1. PICK a : a = chain[queue[i]].address
        OBVIOUS
      <4>2. Payable(a)'
        BY <2>1, <2>3, <4>1 DEF PayableInv
      <4> QED
        BY <4>1, <4>2 DEF Payable
    <3>4. boot = {} /\ ws'.status = "open" /\ ws'.work = "none" /\ ~ws'.dead
      BY <2>1 DEF PayableInv
    <3> QED
      BY <3>2, <3>3, <3>4 DEF PayableInv
  <2>5. LatestChecked'
    <3>1. y.status \in {"approved", "paid"}
      BY <2>2
    <3>2. watcher' # Idle => watcher'.key = k
      OBVIOUS
    <3>3. k[2] = InvoiceByToken(k[1])'
      BY <1>1, <1>4, <2>2
    <3>4. Row(k)'.status \in {"approved", "paid"}
      BY <1>5, <3>1
    <3> QED
      BY <3>2, <3>3, <3>4 DEF LatestChecked, InvoiceByToken, Stored, Row
  <2>6. OldRows'
    <3>1. ASSUME NEW u \in Tokens, NEW v \in Stored(u)', v # InvoiceByToken(u)'
          PROVE  rows'[u][v].status \in {"new", "updated", "disputed"}
      <4>1. v \in Stored(u) /\ v # InvoiceByToken(u)
        BY <1>4, <3>1
      <4>2. rows[u][v].status \in {"new", "updated", "disputed"}
        BY <2>1, <4>1 DEF OldRows
      <4>3. ~(u = k[1] /\ v = k[2])
        BY <2>2, <4>1
      <4> QED
        BY <1>7, <4>1, <4>2, <4>3
    <3> QED
      BY <3>1 DEF OldRows
  <2>7. ASSUME NEW u \in Tokens, pd'[u].version # 0 PROVE Follows(u)'
    <3>1. Follows(u) /\ LastChange(u)' = LastChange(u) /\ pd'[u] = pd[u]
      BY <2>1, <2>7 DEF FollowsInv, LastChange
    <3>2. CASE watcher.pc = "finish" /\ u = k[1]
      <4>1. ~Coming(u)
        BY <1>1 DEF Coming, Idle
      <4>2. Stored(u) # {} /\ InvoiceByToken(u) = pd[u].version
        BY <3>1, <4>1 DEF Follows
      <4>3. LatestRow(u)' = y
        BY <1>4, <2>2, <3>2 DEF LatestRow
      <4>4. y.status = LastChange(u)
        BY <3>2
      <4>5. Even(u)'
        BY <1>4, <3>1, <4>2, <4>3, <4>4 DEF Even
      <4> QED
        BY <4>5, EvenFollows
    <3>3. CASE ~(watcher.pc = "finish" /\ u = k[1])
      <4>1. Even(u)
        BY <1>1, <3>1, <3>3, EvenInCheck
      <4>2. LatestRow(u)'.status = LatestRow(u).status
        <5>1. PICK v : v = InvoiceByToken(u)
          OBVIOUS
        <5>2. v \in Stored(u) /\ LatestRow(u) = rows[u][v]
          BY <1>2, <4>1, <5>1, LatestIsRow DEF Even
        <5>3. LatestRow(u)' = rows'[u][v]
          BY <1>4, <5>1 DEF LatestRow
        <5> QED
          BY <1>7, <3>3, <5>2, <5>3
      <4>3. Even(u)'
        BY <1>4, <3>1, <4>1, <4>2 DEF Even
      <4> QED
        BY <4>3, EvenFollows
    <3> QED
      BY <3>2, <3>3
  <2>8. FollowsInv'
    BY <2>7 DEF FollowsInv
  <2> QED
    BY <2>4, <2>5, <2>6, <2>8 DEF FaultlessInv
<1>14. AddressesApart' => WatchedInv' /\ BookedInv'
  BY <1>5
<1>15. faults' \in Nat /\ (faults' = 0 /\ AddressesApart' => FaultlessInv')
  BY <1>2, <1>5, <1>13
<1> QED
  BY <1>6, <1>9, <1>10, <1>11, <1>12, <1>14, <1>15 DEF SerialInv

\* Nothing but the row of the check changes.
LEMMA OthersStay ==
  ASSUME SerialInv, watcher.pc # "idle", NEW k, k = watcher.key,
         NEW y, Rewrite(k[1], k[2], y),
         NEW t \in Tokens, ~(t = k[1] /\ InvoiceByToken(t) = k[2]), Stored(t)' # {}
  PROVE  /\ Stored(t) # {} /\ LatestRow(t)' = LatestRow(t)
         /\ InvoiceByToken(t)' = InvoiceByToken(t)
<1>1. PICK u : u = k[1]
  OBVIOUS
<1>2. PICK v : v = k[2]
  OBVIOUS
<1>3. RecordsInv /\ u \in Tokens /\ v \in Versions /\ v \in Stored(u)
  BY <1>1, <1>2, Checking DEF SerialInv
<1>4. y # NoRow /\ Write(u, v, y)
  BY <1>1, <1>2, RowsAreRows DEF Rewrite
<1>5. /\ \A s \in Tokens : s # u => rows'[s] = rows[s] /\ Stored(s)' = Stored(s)
                                   /\ InvoiceByToken(s)' = InvoiceByToken(s)
      /\ \A w \in Versions : w # v => rows'[u][w] = rows[u][w]
      /\ Stored(u)' = Stored(u) \cup {v}
  BY <1>3, <1>4, RowWritten
<1>6. InvoiceByToken(u)' = InvoiceByToken(u)
  BY <1>3, <1>4, LatestWritten
<1>7. Stored(u)' = Stored(u)
  BY <1>3, <1>5
<1>8. InvoiceByToken(t)' = InvoiceByToken(t) /\ Stored(t) # {}
  BY <1>5, <1>6, <1>7
<1>9. LatestRow(t)' = LatestRow(t)
  <2>1. InvoiceByToken(t) \in Versions
    BY <1>3, <1>8, Latest
  <2>2. CASE t = u
    BY <1>1, <1>2, <1>5, <1>8, <2>1, <2>2 DEF LatestRow
  <2>3. CASE t # u
    BY <1>5, <1>8, <2>3 DEF LatestRow
  <2> QED
    BY <2>2, <2>3
<1> QED
  BY <1>8, <1>9

\* The other latest rows are watched as before.
LEMMA OthersWatched ==
  ASSUME SerialInv, watcher.pc # "idle", NEW k, k = watcher.key, boot' = boot,
         NEW y, Rewrite(k[1], k[2], y),
         NEW t \in Tokens, ~(t = k[1] /\ InvoiceByToken(t) = k[2]), Stored(t)' # {},
         Watched(t), LatestRow(t).address \in Known => LatestRow(t).address \in Known'
  PROVE  Watched(t)'
<1>1. /\ watcher # Idle /\ \A r \in Requests : req[r] = Idle /\ watcher.key = <<k[1], k[2]>>
  BY Checking
<1>2. InvoiceByToken(t)' = InvoiceByToken(t) /\ LatestRow(t)' = LatestRow(t)
  BY OthersStay
<1>3. \/ LatestRow(t).address \in Known
      \/ \E b \in boot : b.key = <<t, InvoiceByToken(t)>>
  BY <1>1 DEF Watched, Idle
<1>4. CASE LatestRow(t).address \in Known
  BY <1>2, <1>4 DEF Watched
<1>5. CASE \E b \in boot : b.key = <<t, InvoiceByToken(t)>>
  BY <1>2, <1>5 DEF Watched
<1> QED
  BY <1>3, <1>4, <1>5

LEMMA UpdatePaymentsStep ==
  ASSUME SerialInv, UpdatePayments
  PROVE  SerialInv' /\ StaysPaid
<1>1. PICK k : k = watcher.key
  OBVIOUS
<1>2. PICK p : p = watcher.pay
  OBVIOUS
<1>3. /\ watcher.pc = "store" /\ rows' = [rows EXCEPT ![k[1]][k[2]].pay = p]
      /\ \/ /\ p.status = "paid" /\ watcher' = [watcher EXCEPT !.pc = "mark"]
            /\ UNCHANGED <<ws, missed>>
         \/ /\ p.status # "paid" /\ watcher' = Idle
            /\ IF watcher.boot THEN Subscribe(Row(k).address) ELSE UNCHANGED <<ws, missed>>
      /\ UNCHANGED <<pd, queue, boot, faults, chain, req>>
  BY <1>1, <1>2 DEF UpdatePayments, KeepWatch
<1>4. /\ watcher # Idle /\ WatcherOk(watcher) /\ \A r \in Requests : req[r] = Idle
      /\ k \in AllRows /\ k[1] \in Tokens /\ k[2] \in Versions /\ k[2] \in Stored(k[1])
      /\ k = <<k[1], k[2]>> /\ IsRow(Row(k)) /\ Row(k) = rows[k[1]][k[2]] /\ IsPay(p)
      /\ ws.status = "open" /\ ws.work = "none"
  BY <1>1, <1>2, <1>3, Checking
<1>5. RecordsInv /\ ClientInv /\ CheckInv
  BY DEF SerialInv
<1>6. PICK o : o = rows[k[1]][k[2]]
  OBVIOUS
<1>7. PICK y : y = [status |-> o.status, address |-> o.address, pay |-> p]
  OBVIOUS
<1>8. Rewrite(k[1], k[2], y)
  <2>1. o = [status |-> o.status, address |-> o.address, pay |-> o.pay] /\ o.status \in Statuses
    BY <1>4, <1>6 DEF IsRow
  <2>2. [o EXCEPT !.pay = p] = y
    BY <1>7, <2>1
  <2>3. IsRow(y)
    BY <1>4, <1>7, <2>1 DEF IsRow
  <2>4. Write(k[1], k[2], y)
    BY <1>3, <1>6, <2>2 DEF Write
  <2>5. y.address = o.address
    BY <1>7
  <2> QED
    BY <1>4, <1>6, <2>3, <2>4, <2>5 DEF Rewrite
<1>9. y.status = Row(k).status /\ y.pay = p /\ y.address = Row(k).address
  BY <1>4, <1>6, <1>7
<1>10. /\ AllRows' = AllRows \cup {k} /\ \A tv \in AllRows : Row(tv)'.address = Row(tv).address
       /\ rows'[k[1]][k[2]] = y /\ Row(k)' = y
       /\ InvoiceByToken(k[1])' = InvoiceByToken(k[1])
  <2>1. y # NoRow /\ Write(k[1], k[2], y)
    BY <1>8, RowsAreRows DEF Rewrite
  <2>2. InvoiceByToken(k[1])' = InvoiceByToken(k[1]) /\ rows'[k[1]][k[2]] = y
    BY <1>4, <1>5, <2>1, RowWritten, LatestWritten
  <2>3. /\ AllRows' = AllRows \cup {<<k[1], k[2]>>}
        /\ \A tv \in AllRows : Row(tv)'.address = Row(tv).address
    BY <1>5, <1>8, AllRowsWritten
  <2> QED
    BY <1>4, <2>2, <2>3 DEF Row
<1>11. CASE /\ p.status = "paid" /\ watcher' = [watcher EXCEPT !.pc = "mark"]
            /\ UNCHANGED <<ws, missed>>
  <2>1. watcher' = [pc |-> "mark", key |-> watcher.key, pay |-> watcher.pay,
                    boot |-> watcher.boot, row |-> watcher.row]
    BY <1>4, <1>11 DEF WatcherOk
  <2>2. /\ watcher' = [pc |-> watcher'.pc, key |-> watcher'.key, pay |-> watcher'.pay,
                       boot |-> watcher'.boot, row |-> watcher'.row]
        /\ watcher'.pc = "mark" /\ watcher'.key = k /\ watcher'.pay = p /\ watcher' # Idle
        /\ (watcher.boot => watcher'.boot) /\ (~watcher.boot => ~watcher'.boot)
    BY <1>1, <1>2, <1>4, <2>1, CheckMoves
  <2>3. WatcherOk(watcher)'
    BY <1>4, <1>10, <2>2 DEF WatcherOk
  <2>4. ClientInv' /\ Known' = Known /\ ws'.status = "open" /\ ws'.work = "none" /\ (~ws.dead => ~ws'.dead)
    BY <1>4, <1>5, <1>11 DEF ClientInv, Known
  <2>5. \A a \in ws'.live : a \in ws.live \/ a = Row(k).address
    BY <1>11
  <2>6. ASSUME AddressesApart PROVE WatchedInv' /\ BookedInv'
    <3>1. ASSUME NEW t \in Tokens, Stored(t)' # {}, LatestRow(t)'.status = "approved",
                 LatestRow(t)'.pay.status = "watching"
          PROVE  Watched(t)'
      <4>1. ~(t = k[1] /\ InvoiceByToken(t) = k[2])
        BY <1>9, <1>10, <1>11, <3>1 DEF LatestRow
      <4>2. Stored(t) # {} /\ LatestRow(t)' = LatestRow(t)
        BY <1>1, <1>3, <1>8, <3>1, <4>1, OthersStay
      <4>3. Watched(t)
        BY <2>6, <3>1, <4>2 DEF SerialInv, WatchedInv
      <4> QED
        BY <1>1, <1>3, <1>8, <2>4, <3>1, <4>1, <4>3, OthersWatched
    <3>2. WatchedInv'
      BY <3>1 DEF WatchedInv
    <3>3. ASSUME ~watcher'.boot
          PROVE  \A tv \in AllRows' : Row(tv)'.address = Row(k)'.address =>
                   tv[1] = k[1] /\ tv[2] <= k[2]
      <4>1. \A tv \in AllRows : Row(tv).address = Row(k).address =>
              tv[1] = k[1] /\ tv[2] <= k[2]
        BY <1>1, <1>4, <2>2, <2>6, <3>3 DEF SerialInv, BookedInv
      <4> QED
        BY <1>4, <1>10, <4>1
    <3>4. BookedInv'
      BY <1>11, <2>2, <3>3 DEF BookedInv, Row
    <3> QED
      BY <3>2, <3>4
  <2> QED
    BY <1>1, <1>3, <1>8, <1>9, <2>2, <2>3, <2>4, <2>5, <2>6, CheckWrites
<1>12. CASE /\ p.status # "paid" /\ watcher' = Idle
            /\ IF watcher.boot THEN Subscribe(Row(k).address) ELSE UNCHANGED <<ws, missed>>
  <2>1. /\ ClientInv' /\ Known \subseteq Known' /\ ws'.status = "open" /\ ws'.work = "none" /\ (~ws.dead => ~ws'.dead)
        /\ \A a \in ws'.live : a \in ws.live \/ a = Row(k).address
        /\ watcher.boot => Row(k).address \in Known'
    <3>1. CASE watcher.boot
      BY <1>4, <1>5, <1>12, <3>1, Subscribed
    <3>2. CASE ~watcher.boot
      BY <1>4, <1>5, <1>12, <3>2 DEF ClientInv, Known
    <3> QED
      BY <3>1, <3>2
  <2>2. BookedInv'
    BY <1>12 DEF BookedInv
  <2>3. ASSUME AddressesApart PROVE WatchedInv'
    <3>1. ASSUME NEW t \in Tokens, Stored(t)' # {}, LatestRow(t)'.status = "approved",
                 LatestRow(t)'.pay.status = "watching"
          PROVE  Watched(t)'
      <4>1. CASE ~(t = k[1] /\ InvoiceByToken(t) = k[2])
        <5>1. Stored(t) # {} /\ LatestRow(t)' = LatestRow(t)
          BY <1>1, <1>3, <1>8, <3>1, <4>1, OthersStay
        <5>2. Watched(t)
          BY <2>3, <3>1, <5>1 DEF SerialInv, WatchedInv
        <5> QED
          BY <1>1, <1>3, <1>8, <2>1, <3>1, <4>1, <5>2, OthersWatched
      <4>2. CASE t = k[1] /\ InvoiceByToken(t) = k[2]
        <5>1. LatestRow(t) = Row(k) /\ LatestRow(t)' = y
          BY <1>4, <1>10, <4>2 DEF LatestRow
        <5>2. CASE watcher.boot
          BY <1>9, <2>1, <5>1, <5>2 DEF Watched
        <5>3. CASE ~watcher.boot
          <6>1. p.status = Row(k).pay.status
            BY <1>1, <1>2, <1>4, <1>12, <2>3, <5>3 DEF SerialInv, BookedInv
          <6>2. Watched(t)
            BY <1>4, <1>9, <2>3, <3>1, <4>2, <5>1, <6>1 DEF SerialInv, WatchedInv
          <6>3. \/ LatestRow(t).address \in Known
                \/ \E b \in boot : b.key = k
            BY <1>4, <4>2, <5>3, <6>2 DEF Watched, Idle
          <6>4. LatestRow(t)'.address \in Known'
            BY <1>1, <1>4, <1>5, <1>9, <2>1, <5>1, <6>3 DEF CheckInv
          <6> QED
            BY <6>4 DEF Watched
        <5> QED
          BY <5>2, <5>3
      <4> QED
        BY <4>1, <4>2
    <3> QED
      BY <3>1 DEF WatchedInv
  <2> QED
    BY <1>1, <1>3, <1>8, <1>9, <1>12, <2>1, <2>2, <2>3, CheckWrites
<1> QED
  BY <1>3, <1>11, <1>12

\* The monitor gives up the address of no other latest row.
LEMMA OthersApart ==
  ASSUME SerialInv, watcher.pc # "idle", NEW k, k = watcher.key, BookedInv, ~watcher.boot,
         NEW t \in Tokens, Stored(t) # {}, LatestRow(t).address = Row(k).address
  PROVE  t = k[1] /\ InvoiceByToken(t) = k[2]
<1>1. watcher # Idle /\ RecordsInv /\ k[1] \in Tokens /\ k[2] \in Stored(k[1])
  BY Checking DEF SerialInv
<1>2. PICK v : v = InvoiceByToken(t)
  OBVIOUS
<1>3. v \in Stored(t) /\ LatestRow(t) = rows[t][v] /\ \A w \in Stored(t) : w <= v
  BY <1>1, <1>2, LatestIsRow
<1>4. PICK o : o = <<t, v>>
  OBVIOUS
<1>5. o \in AllRows /\ Row(o) = LatestRow(t) /\ o[1] = t /\ o[2] = v
  BY <1>3, <1>4, StoredRows
<1>6. t = k[1] /\ v <= k[2]
  BY <1>1, <1>5 DEF BookedInv
<1>7. k[2] <= v
  BY <1>1, <1>3, <1>6
<1>8. v = k[2]
  <2>1. PICK w : w = k[2]
    OBVIOUS
  <2>2. w \in Nat /\ v \in Nat
    BY <1>1, <1>3, <2>1, VersionsAre DEF Stored
  <2> QED
    BY <1>6, <1>7, <2>1, <2>2
<1> QED
  BY <1>2, <1>6, <1>8

LEMMA invoiceStatusPaidStep ==
  ASSUME SerialInv, invoiceStatusPaid
  PROVE  SerialInv' /\ StaysPaid
<1>1. PICK k : k = watcher.key
  OBVIOUS
<1>2. PICK x : x = watcher.row
  OBVIOUS
<1>3. /\ watcher.pc = "finish" /\ rows' = [rows EXCEPT ![k[1]][k[2]] = [x EXCEPT !.status = "paid"]]
      /\ watcher' = Idle
      /\ IF watcher.boot THEN UNCHANGED ws ELSE Unsubscribe(Row(k).address)
      /\ UNCHANGED <<pd, queue, boot, missed, faults, chain, req>>
  BY <1>1, <1>2 DEF invoiceStatusPaid, KeepWatch
<1>4. /\ watcher # Idle /\ WatcherOk(watcher) /\ \A r \in Requests : req[r] = Idle
      /\ k \in AllRows /\ k[1] \in Tokens /\ k[2] \in Versions /\ k[2] \in Stored(k[1])
      /\ k = <<k[1], k[2]>> /\ IsRow(Row(k)) /\ Row(k) = rows[k[1]][k[2]]
      /\ ws.status = "open" /\ ws.work = "none"
  BY <1>1, <1>3, Checking
<1>5. RecordsInv /\ ClientInv
  BY DEF SerialInv
<1>6. x = Row(k) /\ LastChange(k[1]) = "paid"
  BY <1>1, <1>2, <1>3, <1>4 DEF WatcherOk
<1>7. PICK y : y = [status |-> "paid", address |-> x.address, pay |-> x.pay]
  OBVIOUS
<1>8. Rewrite(k[1], k[2], y) /\ y.status = "paid"
  <2>1. x = [status |-> x.status, address |-> x.address, pay |-> x.pay] /\ IsPay(x.pay)
    BY <1>4, <1>6 DEF IsRow
  <2>2. [x EXCEPT !.status = "paid"] = y
    BY <1>7, <2>1
  <2>3. IsRow(y)
    BY <1>7, <2>1 DEF IsRow, Statuses
  <2>4. Write(k[1], k[2], y)
    BY <1>3, <2>2 DEF Write
  <2>5. y.address = x.address /\ y.status = "paid"
    BY <1>7
  <2> QED
    BY <1>4, <1>6, <2>3, <2>4, <2>5 DEF Rewrite
<1>9. /\ ClientInv' /\ ws'.status = "open" /\ ws'.work = "none" /\ (~ws.dead => ~ws'.dead) /\ ws'.live \subseteq ws.live
      /\ \A b \in Known : watcher.boot \/ b # Row(k).address => b \in Known'
  <2>1. CASE watcher.boot
    BY <1>3, <1>4, <1>5, <2>1 DEF ClientInv, Known
  <2>2. CASE ~watcher.boot
    BY <1>3, <1>4, <1>5, <2>2, Unsubscribed
  <2> QED
    BY <2>1, <2>2
<1>10. BookedInv'
  BY <1>3 DEF BookedInv
<1>11. ASSUME AddressesApart PROVE WatchedInv'
  <2>1. ASSUME NEW t \in Tokens, Stored(t)' # {}, LatestRow(t)'.status = "approved",
               LatestRow(t)'.pay.status = "watching"
        PROVE  Watched(t)'
    <3>1. ~(t = k[1] /\ InvoiceByToken(t) = k[2])
      <4>1. y # NoRow /\ Write(k[1], k[2], y)
        BY <1>8, RowsAreRows DEF Rewrite
      <4>2. InvoiceByToken(k[1])' = InvoiceByToken(k[1]) /\ rows'[k[1]][k[2]] = y
        BY <1>4, <1>5, <4>1, RowWritten, LatestWritten
      <4> QED
        BY <1>8, <2>1, <4>2 DEF LatestRow
    <3>2. Stored(t) # {} /\ LatestRow(t)' = LatestRow(t)
      BY <1>1, <1>3, <1>8, <2>1, <3>1, OthersStay
    <3>3. Watched(t) /\ BookedInv
      BY <1>11, <2>1, <3>2 DEF SerialInv, WatchedInv
    <3>4. watcher.boot \/ LatestRow(t).address # Row(k).address
      BY <1>1, <1>3, <3>1, <3>2, <3>3, OthersApart
    <3>5. LatestRow(t).address \in Known => LatestRow(t).address \in Known'
      BY <1>9, <3>4
    <3> QED
      BY <1>1, <1>3, <1>8, <2>1, <3>1, <3>3, <3>5, OthersWatched
  <2> QED
    BY <2>1 DEF WatchedInv
<1> QED
  BY <1>1, <1>3, <1>6, <1>8, <1>9, <1>10, <1>11, CheckWrites

LEMMA WatcherFailsStep ==
  ASSUME SerialInv, WatcherFails
  PROVE  SerialInv' /\ StaysPaid
<1>1. PICK k : k = watcher.key
  OBVIOUS
<1>2. PICK a : a = Row(k).address
  OBVIOUS
<1>3. /\ watcher.pc \in {"save", "mark"} /\ faults' = faults + 1
      /\ \/ /\ watcher.boot /\ watcher' = [watcher EXCEPT !.pc = "mark"] /\ UNCHANGED <<ws, missed>>
         \/ watcher.boot /\ watcher' = Idle /\ Subscribe(a)
         \/ watcher.pc = "save" /\ ~watcher.boot /\ watcher' = Idle /\ UNCHANGED <<ws, missed>>
         \/ /\ watcher' = Idle /\ missed' = missed \cup {a}
            /\ IF watcher.boot THEN UNCHANGED ws ELSE Unsubscribe(a)
      /\ UNCHANGED <<pd, rows, queue, boot, chain, req>>
  BY <1>1, <1>2 DEF WatcherFails, KeepWatch
<1>4. /\ watcher # Idle /\ WatcherOk(watcher) /\ \A r \in Requests : req[r] = Idle
      /\ k \in AllRows /\ k[1] \in Tokens /\ k = <<k[1], k[2]>>
      /\ Row(k) = rows[k[1]][k[2]] /\ ws.status = "open" /\ ws.work = "none" /\ IsPay(watcher.pay)
  BY <1>1, <1>3, Checking
<1>5. ClientInv /\ CheckInv /\ faults \in Nat
  BY DEF SerialInv
<1>6. /\ AllRows' = AllRows /\ \A tv : Row(tv)' = Row(tv)
      /\ \A t : /\ Stored(t)' = Stored(t) /\ InvoiceByToken(t)' = InvoiceByToken(t)
                /\ LatestRow(t)' = LatestRow(t)
  BY <1>3, RowsFrame
<1>7. faults' \in Nat /\ faults' # 0
  BY <1>3, <1>5
<1>8. CASE watcher.boot /\ watcher' = [watcher EXCEPT !.pc = "mark"] /\ UNCHANGED <<ws, missed>>
  <2>1. watcher' = [pc |-> "mark", key |-> watcher.key, pay |-> watcher.pay,
                    boot |-> watcher.boot, row |-> watcher.row]
    BY <1>4, <1>8 DEF WatcherOk
  <2>2. /\ watcher' = [pc |-> watcher'.pc, key |-> watcher'.key, pay |-> watcher'.pay,
                       boot |-> watcher'.boot, row |-> watcher'.row]
        /\ watcher'.pc = "mark" /\ watcher'.key = k /\ watcher'.pay = watcher.pay
        /\ watcher' # Idle /\ watcher'.boot
    BY <1>1, <1>4, <1>8, <2>1, CheckMoves
  <2>3. WatcherOk(watcher)'
    BY <1>4, <1>6, <2>2 DEF WatcherOk
  <2>4. CheckInv'
    BY <1>1, <1>3, <1>4, <1>5, <1>6, <2>2, <2>3 DEF CheckInv
  <2>5. ClientInv' /\ Known' = Known
    BY <1>4, <1>5, <1>8 DEF ClientInv, Known
  <2>6. BookedInv'
    BY <2>2 DEF BookedInv
  <2>7. ASSUME AddressesApart PROVE WatchedInv'
    <3>1. \A t : Watched(t) => Watched(t)'
      BY <1>1, <1>3, <1>6, <2>2, <2>5 DEF Watched
    <3> QED
      BY <1>6, <2>7, <3>1 DEF SerialInv, WatchedInv
  <2> QED
    BY <1>3, <1>4, <1>7, <2>4, <2>5, <2>6, <2>7, CheckWaits
<1>9. CASE /\ watcher' = Idle /\ ClientInv'
           /\ \A b \in Known : b \in Known'
           /\ watcher.boot => a \in Known'
  <2>1. CheckInv'
    BY <1>3, <1>5, <1>6, <1>9 DEF CheckInv
  <2>2. BookedInv'
    BY <1>9 DEF BookedInv
  <2>3. ASSUME AddressesApart PROVE WatchedInv'
    <3>1. ASSUME NEW t \in Tokens, Watched(t) PROVE Watched(t)'
      <4>1. \/ LatestRow(t).address \in Known
            \/ \E b \in boot : b.key = <<t, InvoiceByToken(t)>>
            \/ watcher.boot /\ k = <<t, InvoiceByToken(t)>>
        BY <1>1, <1>4, <3>1 DEF Watched, Idle
      <4>2. CASE LatestRow(t).address \in Known
        BY <1>6, <1>9, <4>2 DEF Watched
      <4>3. CASE \E b \in boot : b.key = <<t, InvoiceByToken(t)>>
        BY <1>3, <1>6, <4>3 DEF Watched
      <4>4. CASE watcher.boot /\ k = <<t, InvoiceByToken(t)>>
        <5>1. LatestRow(t).address = a
          BY <1>2, <1>4, <4>4 DEF LatestRow
        <5> QED
          BY <1>6, <1>9, <4>4, <5>1 DEF Watched
      <4> QED
        BY <4>1, <4>2, <4>3, <4>4
    <3> QED
      BY <1>6, <2>3, <3>1 DEF SerialInv, WatchedInv
  <2> QED
    BY <1>3, <1>4, <1>7, <1>9, <2>1, <2>2, <2>3, CheckWaits
<1>10. CASE watcher.boot /\ watcher' = Idle /\ Subscribe(a)
  <2>1. ClientInv' /\ Known \subseteq Known' /\ a \in Known'
    BY <1>4, <1>5, <1>10, Subscribed
  <2> QED
    BY <1>9, <1>10, <2>1
<1>11. CASE watcher.pc = "save" /\ ~watcher.boot /\ watcher' = Idle /\ UNCHANGED <<ws, missed>>
  <2>1. ClientInv' /\ Known' = Known
    BY <1>4, <1>5, <1>11 DEF ClientInv, Known
  <2> QED
    BY <1>9, <1>11, <2>1
<1>12. CASE /\ watcher' = Idle /\ missed' = missed \cup {a}
            /\ IF watcher.boot THEN UNCHANGED ws ELSE Unsubscribe(a)
  <2>1. a \in Known'
    BY <1>12 DEF Known
  <2>2. ClientInv' /\ \A b \in Known : b # a => b \in Known'
    <3>1. CASE watcher.boot
      BY <1>4, <1>5, <1>12, <3>1 DEF ClientInv, Known
    <3>2. CASE ~watcher.boot
      BY <1>4, <1>5, <1>12, <3>2, Unsubscribed
    <3> QED
      BY <3>1, <3>2
  <2> QED
    BY <1>9, <1>12, <2>1, <2>2
<1> QED
  BY <1>3, <1>8, <1>10, <1>11, <1>12

-----------------------------------------------------------------------------
(* The connection, payments and restarts. *)

\* Steps of the connection and of the chain.
LEMMA LinkMoves ==
  ASSUME SerialInv, UNCHANGED <<pd, rows, req, watcher, boot>>, CheckInv', ClientInv',
         Known \subseteq Known', faults' \in Nat,
         faults' = 0 /\ AddressesApart => faults = 0 /\ PayableInv'
  PROVE  SerialInv' /\ StaysPaid
<1>1. RecordsInv' /\ PaidInv' /\ StaysPaid
  BY NothingSaved
<1>2. RequestInv'
  BY RequestFrame DEF SerialInv
<1>3. /\ AllRows' = AllRows /\ \A tv : Row(tv)' = Row(tv)
      /\ \A t : /\ Stored(t)' = Stored(t) /\ InvoiceByToken(t)' = InvoiceByToken(t)
                /\ LatestRow(t)' = LatestRow(t)
      /\ AddressesApart' <=> AddressesApart
      /\ OldRows' <=> OldRows
  BY RowsFrame
<1>4. ASSUME AddressesApart PROVE WatchedInv' /\ BookedInv'
  <2>1. \A t : Watched(t) => Watched(t)'
    BY <1>3 DEF Watched
  <2>2. WatchedInv'
    BY <1>3, <1>4, <2>1 DEF SerialInv, WatchedInv
  <2>3. BookedInv'
    BY <1>4 DEF SerialInv, BookedInv, AllRows, Row
  <2> QED
    BY <2>2, <2>3
<1>5. ASSUME faults' = 0, AddressesApart PROVE FaultlessInv'
  <2>1. LatestChecked /\ OldRows /\ FollowsInv /\ PayableInv'
    BY <1>5 DEF SerialInv, FaultlessInv
  <2>2. LatestChecked'
    BY <2>1 DEF LatestChecked, InvoiceByToken, Stored, Row
  <2>3. FollowsInv'
    <3>1. \A t : Coming(t)' <=> Coming(t)
      BY DEF Coming
    <3>2. \A t : Behind(t)' <=> Behind(t)
      BY <3>1 DEF Behind
    <3>3. \A t : Follows(t) => Follows(t)'
      BY <1>3, <3>1, <3>2 DEF Follows, LastChange
    <3> QED
      BY <2>1, <3>3 DEF FollowsInv
  <2> QED
    BY <1>3, <2>1, <2>2, <2>3 DEF FaultlessInv
<1> QED
  BY <1>1, <1>2, <1>3, <1>4, <1>5 DEF SerialInv

LEMMA PayStep ==
  ASSUME SerialInv, Pay
  PROVE  SerialInv' /\ StaysPaid
<1>1. PICK tv \in AllRows : \E n \in 1..Needed :
        /\ chain' = Append(chain, [address |-> Row(tv).address, amount |-> n])
        /\ queue' = IF Row(tv).address \in ws.live /\ ws.status = "open" /\ ~ws.dead
                      THEN Append(queue, Len(chain')) ELSE queue
        /\ UNCHANGED <<ws, req, watcher, boot, missed, faults, pd, rows>>
  BY DEF Pay, KeepAll
<1>2. PICK a : a = Row(tv).address
  OBVIOUS
<1>3. PICK m : m.address = a /\ chain' = Append(chain, m)
  <2>1. PICK n \in 1..Needed : chain' = Append(chain, [address |-> a, amount |-> n])
    BY <1>1, <1>2
  <2> QED
    BY <2>1
<1>4. /\ queue' = queue \/ (a \in ws.live /\ queue' = Append(queue, Len(chain')))
      /\ UNCHANGED <<ws, req, watcher, boot, missed, faults, pd, rows>>
  BY <1>1, <1>2
<1>5. CheckInv /\ ClientInv /\ faults \in Nat
  BY DEF SerialInv
<1>6. IsLog(queue) /\ IsLog(chain)
  BY <1>5 DEF CheckInv
<1>7. PICK l : l = Len(chain)
  OBVIOUS
<1>8. /\ IsLog(chain') /\ l \in Nat /\ Len(chain') = l + 1 /\ chain'[l + 1] = m
      /\ \A i \in 1..l : chain'[i] = chain[i]
  BY <1>3, <1>6, <1>7, LogsGrow
<1>9. AllRows' = AllRows /\ \A o : Row(o)' = Row(o)
  BY <1>4, RowsFrame
<1>10. \A i \in 1..Len(queue) :
         /\ queue[i] \in 1..Len(chain') /\ chain'[queue[i]] = chain[queue[i]]
         /\ \E o \in AllRows : Row(o).address = chain'[queue[i]].address
  <2> TAKE i \in 1..Len(queue)
  <2>1. PICK j : j = queue[i]
    OBVIOUS
  <2>2. j \in 1..l /\ \E o \in AllRows : Row(o).address = chain[j].address
    BY <1>5, <1>7, <2>1 DEF CheckInv
  <2>3. j \in 1..(l + 1) /\ chain'[j] = chain[j]
    BY <1>8, <2>2
  <2> QED
    BY <1>8, <2>1, <2>2, <2>3
<1>11. /\ IsLog(queue')
       /\ \A i \in 1..Len(queue') :
            \/ i \in 1..Len(queue) /\ queue'[i] = queue[i]
            \/ queue'[i] = l + 1 /\ a \in ws.live
  <2>1. CASE queue' = queue
    BY <1>6, <2>1
  <2>2. CASE a \in ws.live /\ queue' = Append(queue, Len(chain'))
    <3>1. PICK x : x = Len(chain')
      OBVIOUS
    <3>2. /\ IsLog(queue') /\ Len(queue) \in Nat /\ Len(queue') = Len(queue) + 1
          /\ queue'[Len(queue) + 1] = x /\ \A i \in 1..Len(queue) : queue'[i] = queue[i]
      BY <1>6, <2>2, <3>1, LogsGrow
    <3>3. PICK n : n = Len(queue)
      OBVIOUS
    <3>4. \A i \in 1..(n + 1) : i \in 1..n \/ i = n + 1
      BY <3>2, <3>3
    <3>5. x = l + 1
      BY <1>8, <3>1
    <3> QED
      BY <2>2, <3>2, <3>3, <3>4, <3>5
  <2> QED
    BY <1>4, <2>1, <2>2
<1>12. \A i \in 1..Len(queue') : /\ queue'[i] \in 1..Len(chain')
                                 /\ \E o \in AllRows : Row(o).address = chain'[queue'[i]].address
  <2> TAKE i \in 1..Len(queue')
  <2>1. CASE i \in 1..Len(queue) /\ queue'[i] = queue[i]
    BY <1>10, <2>1
  <2>2. CASE queue'[i] = l + 1
    <3>1. l + 1 \in 1..Len(chain') /\ chain'[l + 1].address = a
      BY <1>3, <1>8
    <3> QED
      BY <1>1, <1>2, <2>2, <3>1
  <2> QED
    BY <1>11, <2>1, <2>2
<1>13. CheckInv'
  <2>1. watcher' = Idle \/ WatcherOk(watcher)'
    BY <1>4, <1>5, <1>9 DEF CheckInv, WatcherOk, LastChange, Row
  <2>2. \A b \in boot' : /\ b = [key |-> b.key, pay |-> b.pay]
                         /\ b.key \in AllRows' /\ b.pay = Row(b.key)'.pay
                         /\ watcher' = Idle \/ watcher'.key # b.key
    BY <1>4, <1>5, <1>9 DEF CheckInv
  <2>3. \A i \in 1..Len(queue') :
          /\ queue'[i] \in 1..Len(chain')
          /\ \E o \in AllRows' : Row(o)'.address = chain'[queue'[i]].address
    BY <1>9, <1>12
  <2> QED
    BY <1>8, <1>11, <2>1, <2>2, <2>3 DEF CheckInv, Row
<1>14. ClientInv' /\ Known' = Known
  BY <1>4, <1>5 DEF ClientInv, Known
<1>15. ASSUME faults = 0, AddressesApart PROVE PayableInv'
  <2>1. PayableInv
    BY <1>15 DEF SerialInv, FaultlessInv
  <2>2. \A x : Payable(x)' <=> Payable(x)
    BY <1>4, RowsFrame
  <2>3. \A i \in 1..Len(queue') : Payable(chain'[queue'[i]].address)
    <3> TAKE i \in 1..Len(queue')
    <3>1. CASE i \in 1..Len(queue) /\ queue'[i] = queue[i]
      BY <1>10, <2>1, <3>1 DEF PayableInv
    <3>2. CASE queue'[i] = l + 1 /\ a \in ws.live
      BY <1>3, <1>8, <2>1, <3>2 DEF PayableInv
    <3> QED
      BY <1>11, <3>1, <3>2
  <2>4. \A i \in 1..Len(queue') : Payable(chain[queue[i]].address)'
    <3> TAKE i \in 1..Len(queue')
    <3>1. PICK x : x = chain'[queue'[i]].address
      OBVIOUS
    <3>2. Payable(x)'
      BY <2>2, <2>3, <3>1
    <3> QED
      BY <3>1, <3>2 DEF Payable
  <2>5. \A x \in ws'.live : Payable(x)'
    BY <1>4, <2>1, <2>2 DEF PayableInv
  <2>6. boot' = {} /\ ws.status' = "open" /\ ws.work' = "none" /\ ~ws.dead'
    BY <1>4, <2>1 DEF PayableInv
  <2> QED
    BY <2>4, <2>5, <2>6 DEF PayableInv
<1> QED
  BY <1>4, <1>5, <1>13, <1>14, <1>15, LinkMoves

\* Steps of the connection: every address that was known still is.
LEMMA LinkWorks ==
  ASSUME SerialInv, UNCHANGED <<pd, rows, chain, req, watcher, boot, missed>>,
         queue' = queue \/ queue' = <<>>,
         IsClient(ws'), faults' \in Nat,
         faults' # 0 \/ (faults' = faults /\ (ws.status # "open" \/ (ws.work # "none" \/ ws.dead))),
         ws'.status = "open" /\ ws'.work = "none" => ws'.prev = {},
         watcher # Idle \/ boot # {} => ws'.status = "open" /\ ws'.work = "none",
         ws'.work = "replay" => ws'.prev \subseteq ws'.subs,
         ws'.subs \subseteq ws'.live \cup ws'.lost,
         ws.subs \cup ws.prev \cup ws.pending \cup ws.lost
           \subseteq ws'.subs \cup ws'.prev \cup ws'.pending \cup ws'.lost
  PROVE  SerialInv' /\ StaysPaid
<1>1. CheckInv
  BY DEF SerialInv
<1>2. CheckInv'
  <2>1. CASE queue' = queue
    BY <1>1, <2>1, CheckFrame
  <2>2. CASE queue' = <<>>
    <3>1. IsLog(queue') /\ \A i : i \notin 1..Len(queue')
      BY <2>2 DEF IsLog
    <3>2. IsLog(chain') /\ (watcher' = Idle \/ WatcherOk(watcher)')
      BY <1>1 DEF CheckInv, WatcherOk, AllRows, Row, LastChange
    <3>3. \A b \in boot' : /\ b = [key |-> b.key, pay |-> b.pay]
                           /\ b.key \in AllRows' /\ b.pay = Row(b.key)'.pay
                           /\ watcher' = Idle \/ watcher'.key # b.key
      BY <1>1 DEF CheckInv, AllRows, Row
    <3> QED
      BY <3>1, <3>2, <3>3 DEF CheckInv
  <2> QED
    BY <2>1, <2>2
<1>3. ClientInv'
  BY DEF ClientInv, IsClient
<1>4. Known \subseteq Known'
  BY DEF Known
<1>5. ~(faults' = 0 /\ AddressesApart)
  BY DEF SerialInv, FaultlessInv, PayableInv
<1> QED
  BY <1>2, <1>3, <1>4, <1>5, LinkMoves

LEMMA DropStep ==
  ASSUME SerialInv, Drop
  PROVE  SerialInv' /\ StaysPaid
<1>1. /\ ws' = [ws EXCEPT !.dead = TRUE] /\ faults' = faults + 1 /\ ws.status = "open"
      /\ UNCHANGED <<chain, queue, req, watcher, boot, missed, pd, rows>>
  BY DEF Drop, KeepAll
<1>2. ClientInv /\ IsClient(ws) /\ faults \in Nat
  BY DEF SerialInv, ClientInv
<1>3. ws' = [status |-> ws.status, dead |-> TRUE, subs |-> ws.subs, live |-> ws.live,
              work |-> ws.work, prev |-> ws.prev, pending |-> ws.pending,
              replay |-> ws.replay, lost |-> ws.lost]
  BY <1>1, <1>2 DEF IsClient
<1>4. /\ IsClient(ws') /\ ws'.status = ws.status /\ ws'.dead = TRUE /\ ws'.subs = ws.subs
      /\ ws'.live = ws.live /\ ws'.work = ws.work /\ ws'.prev = ws.prev
      /\ ws'.pending = ws.pending /\ ws'.replay = ws.replay /\ ws'.lost = ws.lost
  BY <1>3, ClientFields
<1>5. faults' \in Nat /\ faults' # 0
  BY <1>1, <1>2
<1> QED
  BY <1>1, <1>2, <1>4, <1>5, LinkWorks DEF ClientInv

LEMMA StartReconnectStep ==
  ASSUME SerialInv, StartReconnect
  PROVE  SerialInv' /\ StaysPaid
<1>1. /\ ws' = [ws EXCEPT !.status = "reconnecting", !.prev = ws.subs, !.subs = {}, !.live = {},
                        !.lost = ws.lost \ ws.subs]
      /\ ws.dead /\ ws.status = "open" /\ ws.work = "none" /\ watcher = Idle /\ boot = {}
      /\ UNCHANGED <<chain, queue, req, watcher, boot, missed, faults, pd, rows>>
  BY DEF StartReconnect, Monitoring, KeepAll
<1>2. ClientInv /\ IsClient(ws) /\ faults \in Nat
  BY DEF SerialInv, ClientInv
<1>3. PICK u1 : u1 = [status |-> "reconnecting", dead |-> ws.dead, subs |-> ws.subs,
                      live |-> ws.live, work |-> ws.work, prev |-> ws.prev,
                      pending |-> ws.pending, replay |-> ws.replay, lost |-> ws.lost]
  OBVIOUS
<1>4. PICK u2 : u2 = [status |-> "reconnecting", dead |-> ws.dead, subs |-> ws.subs,
                      live |-> ws.live, work |-> ws.work, prev |-> ws.subs,
                      pending |-> ws.pending, replay |-> ws.replay, lost |-> ws.lost]
  OBVIOUS
<1>5. PICK u3 : u3 = [status |-> "reconnecting", dead |-> ws.dead, subs |-> {},
                      live |-> ws.live, work |-> ws.work, prev |-> ws.subs,
                      pending |-> ws.pending, replay |-> ws.replay, lost |-> ws.lost]
  OBVIOUS
<1>6. PICK u4 : u4 = [status |-> "reconnecting", dead |-> ws.dead, subs |-> {}, live |-> {},
                      work |-> ws.work, prev |-> ws.subs, pending |-> ws.pending,
                      replay |-> ws.replay, lost |-> ws.lost]
  OBVIOUS
<1>7. u1 = [ws EXCEPT !.status = "reconnecting"]
  BY <1>2, <1>3 DEF IsClient
<1>8. u2 = [u1 EXCEPT !.prev = ws.subs]
  BY <1>3, <1>4
<1>9. u3 = [u2 EXCEPT !.subs = {}]
  BY <1>4, <1>5
<1>10. u4 = [u3 EXCEPT !.live = {}]
  BY <1>5, <1>6
<1>11. ws' = [u4 EXCEPT !.lost = ws.lost \ ws.subs]
  BY <1>1, <1>7, <1>8, <1>9, <1>10
<1>12. ws' = [status |-> "reconnecting", dead |-> ws.dead, subs |-> {}, live |-> {},
              work |-> ws.work, prev |-> ws.subs, pending |-> ws.pending,
              replay |-> ws.replay, lost |-> ws.lost \ ws.subs]
  BY <1>6, <1>11
<1>13. /\ IsClient(ws') /\ ws'.status = "reconnecting" /\ ws'.dead = ws.dead /\ ws'.subs = {}
      /\ ws'.live = {} /\ ws'.work = ws.work /\ ws'.prev = ws.subs
      /\ ws'.pending = ws.pending /\ ws'.replay = ws.replay /\ ws'.lost = ws.lost \ ws.subs
  BY <1>12, ClientFields
<1>14. ws.prev = {}
  BY <1>1, <1>2 DEF ClientInv
<1>15. ws'.status # "open" /\ ws'.work # "replay"
  BY <1>1, <1>13
<1> QED
  BY <1>1, <1>2, <1>13, <1>14, <1>15, LinkWorks

LEMMA ConnectStep ==
  ASSUME SerialInv, Connect
  PROVE  SerialInv' /\ StaysPaid
<1>0. PICK d : d = FALSE
  OBVIOUS
<1>1. /\ ws' = [ws EXCEPT !.status = "open", !.dead = d, !.live = {}, !.work = "resubscribe",
                        !.lost = ws.lost \cup ws.subs]
      /\ ws.status = "reconnecting" /\ queue' = <<>>
      /\ UNCHANGED <<chain, req, watcher, boot, missed, faults, pd, rows>>
  BY <1>0 DEF Connect, KeepAll
<1>2. ClientInv /\ IsClient(ws) /\ faults \in Nat
  BY DEF SerialInv, ClientInv
<1>3. PICK u1 : u1 = [status |-> "open", dead |-> ws.dead, subs |-> ws.subs,
                      live |-> ws.live, work |-> ws.work, prev |-> ws.prev,
                      pending |-> ws.pending, replay |-> ws.replay, lost |-> ws.lost]
  OBVIOUS
<1>4. PICK u2 : u2 = [status |-> "open", dead |-> d, subs |-> ws.subs, live |-> ws.live,
                      work |-> ws.work, prev |-> ws.prev, pending |-> ws.pending,
                      replay |-> ws.replay, lost |-> ws.lost]
  OBVIOUS
<1>5. PICK u3 : u3 = [status |-> "open", dead |-> d, subs |-> ws.subs, live |-> {},
                      work |-> ws.work, prev |-> ws.prev, pending |-> ws.pending,
                      replay |-> ws.replay, lost |-> ws.lost]
  OBVIOUS
<1>6. PICK u4 : u4 = [status |-> "open", dead |-> d, subs |-> ws.subs, live |-> {},
                      work |-> "resubscribe", prev |-> ws.prev, pending |-> ws.pending,
                      replay |-> ws.replay, lost |-> ws.lost]
  OBVIOUS
<1>7. u1 = [ws EXCEPT !.status = "open"]
  BY <1>2, <1>3 DEF IsClient
<1>8. u2 = [u1 EXCEPT !.dead = d]
  BY <1>3, <1>4
<1>9. u3 = [u2 EXCEPT !.live = {}]
  BY <1>4, <1>5
<1>10. u4 = [u3 EXCEPT !.work = "resubscribe"]
  BY <1>5, <1>6
<1>11. ws' = [u4 EXCEPT !.lost = ws.lost \cup ws.subs]
  BY <1>1, <1>7, <1>8, <1>9, <1>10
<1>12. ws' = [status |-> "open", dead |-> d, subs |-> ws.subs, live |-> {},
              work |-> "resubscribe", prev |-> ws.prev, pending |-> ws.pending,
              replay |-> ws.replay, lost |-> ws.lost \cup ws.subs]
  BY <1>6, <1>11
<1>13. /\ IsClient(ws') /\ ws'.status = "open" /\ ws'.dead = d /\ ws'.subs = ws.subs
      /\ ws'.live = {} /\ ws'.work = "resubscribe" /\ ws'.prev = ws.prev
      /\ ws'.pending = ws.pending /\ ws'.replay = ws.replay /\ ws'.lost = ws.lost \cup ws.subs
  BY <1>12, ClientFields
<1>14. watcher = Idle /\ boot = {}
  BY <1>1, <1>2 DEF ClientInv
<1>15. ws'.work # "none" /\ ws'.work # "replay" /\ ws.status # "open"
  BY <1>1, <1>13
<1> QED
  BY <1>1, <1>2, <1>13, <1>14, <1>15, LinkWorks

\* Reconnect subscribes to an address again.
LEMMA SubscribeAgain ==
  ASSUME SerialInv, NEW a, ws' = AddSub(a), ws.work # "none",
         UNCHANGED <<chain, queue, req, watcher, boot, missed, faults, pd, rows>>
  PROVE  SerialInv' /\ StaysPaid
<1>1. ClientInv /\ IsClient(ws) /\ faults \in Nat
  BY DEF SerialInv, ClientInv
<1>2. /\ IsClient(ws') /\ ws'.status = ws.status /\ ws'.work = ws.work
      /\ ws'.subs = ws.subs \cup {a} /\ ws'.live = ws.live \cup {a} /\ ws'.prev = ws.prev
      /\ ws'.pending = ws.pending /\ ws'.lost = ws.lost
  BY <1>1, AddressMarked
<1>3. /\ watcher = Idle /\ boot = {} /\ ws.subs \subseteq ws.live \cup ws.lost
      /\ ws.work = "replay" => ws.prev \subseteq ws.subs
  BY <1>1 DEF ClientInv
<1> QED
  BY <1>1, <1>2, <1>3, LinkWorks

LEMMA ResubscribeStep ==
  ASSUME SerialInv, Resubscribe
  PROVE  SerialInv' /\ StaysPaid
<1>1. /\ ws.work = "resubscribe"
      /\ UNCHANGED <<chain, queue, req, watcher, boot, missed, faults, pd, rows>>
      /\ \/ \E a : ws' = AddSub(a)
         \/ /\ ws.prev \subseteq ws.subs
            /\ ws' = [ws EXCEPT !.work = "replay", !.replay = ws.pending]
  BY DEF Resubscribe, KeepAll
<1>2. CASE \E a : ws' = AddSub(a)
  BY <1>1, <1>2, SubscribeAgain
<1>3. CASE /\ ws.prev \subseteq ws.subs
           /\ ws' = [ws EXCEPT !.work = "replay", !.replay = ws.pending]
  <2>1. ClientInv /\ IsClient(ws) /\ faults \in Nat
    BY DEF SerialInv, ClientInv
  <2>2. PICK u1 : u1 = [status |-> ws.status, dead |-> ws.dead, subs |-> ws.subs,
                        live |-> ws.live, work |-> "replay", prev |-> ws.prev,
                        pending |-> ws.pending, replay |-> ws.replay, lost |-> ws.lost]
    OBVIOUS
  <2>3. u1 = [ws EXCEPT !.work = "replay"]
    BY <2>1, <2>2 DEF IsClient
  <2>4. ws' = [u1 EXCEPT !.replay = ws.pending]
    BY <1>3, <2>3
  <2>5. ws' = [status |-> ws.status, dead |-> ws.dead, subs |-> ws.subs, live |-> ws.live,
                work |-> "replay", prev |-> ws.prev, pending |-> ws.pending,
                replay |-> ws.pending, lost |-> ws.lost]
    BY <2>2, <2>4
  <2>6. /\ IsClient(ws') /\ ws'.status = ws.status /\ ws'.dead = ws.dead /\ ws'.subs = ws.subs
        /\ ws'.live = ws.live /\ ws'.work = "replay" /\ ws'.prev = ws.prev
        /\ ws'.pending = ws.pending /\ ws'.replay = ws.pending /\ ws'.lost = ws.lost
    BY <2>5, ClientFields
  <2>7. watcher = Idle /\ boot = {} /\ ws.subs \subseteq ws.live \cup ws.lost
    BY <1>1, <2>1 DEF ClientInv
  <2> QED
    BY <1>1, <1>3, <2>1, <2>6, <2>7, LinkWorks
<1> QED
  BY <1>1, <1>2, <1>3

LEMMA ReplayStep ==
  ASSUME SerialInv, Replay
  PROVE  SerialInv' /\ StaysPaid
<1>1. /\ ws.work = "replay"
      /\ UNCHANGED <<chain, queue, req, watcher, boot, missed, faults, pd, rows>>
      /\ \/ \E a : ws' = AddSub(a)
         \/ /\ ws.replay \subseteq ws.subs
            /\ ws' = [ws EXCEPT !.work = "none", !.prev = {}, !.pending = {}, !.replay = {},
                                !.lost = ws.lost \cup (ws.pending \ ws.replay)]
  BY DEF Replay, KeepAll
<1>2. CASE \E a : ws' = AddSub(a)
  BY <1>1, <1>2, SubscribeAgain
<1>3. CASE /\ ws.replay \subseteq ws.subs
           /\ ws' = [ws EXCEPT !.work = "none", !.prev = {}, !.pending = {}, !.replay = {},
                               !.lost = ws.lost \cup (ws.pending \ ws.replay)]
  <2>1. ClientInv /\ IsClient(ws) /\ faults \in Nat
    BY DEF SerialInv, ClientInv
  <2>2. PICK u1 : u1 = [status |-> ws.status, dead |-> ws.dead, subs |-> ws.subs,
                        live |-> ws.live, work |-> "none", prev |-> ws.prev,
                        pending |-> ws.pending, replay |-> ws.replay, lost |-> ws.lost]
    OBVIOUS
  <2>3. PICK u2 : u2 = [status |-> ws.status, dead |-> ws.dead, subs |-> ws.subs,
                        live |-> ws.live, work |-> "none", prev |-> {}, pending |-> ws.pending,
                        replay |-> ws.replay, lost |-> ws.lost]
    OBVIOUS
  <2>4. PICK u3 : u3 = [status |-> ws.status, dead |-> ws.dead, subs |-> ws.subs,
                        live |-> ws.live, work |-> "none", prev |-> {}, pending |-> {},
                        replay |-> ws.replay, lost |-> ws.lost]
    OBVIOUS
  <2>5. PICK u4 : u4 = [status |-> ws.status, dead |-> ws.dead, subs |-> ws.subs,
                        live |-> ws.live, work |-> "none", prev |-> {}, pending |-> {},
                        replay |-> {}, lost |-> ws.lost]
    OBVIOUS
  <2>6. u1 = [ws EXCEPT !.work = "none"]
    BY <2>1, <2>2 DEF IsClient
  <2>7. u2 = [u1 EXCEPT !.prev = {}]
    BY <2>2, <2>3
  <2>8. u3 = [u2 EXCEPT !.pending = {}]
    BY <2>3, <2>4
  <2>9. u4 = [u3 EXCEPT !.replay = {}]
    BY <2>4, <2>5
  <2>10. ws' = [u4 EXCEPT !.lost = ws.lost \cup (ws.pending \ ws.replay)]
    BY <1>3, <2>6, <2>7, <2>8, <2>9
  <2>11. ws' = [status |-> ws.status, dead |-> ws.dead, subs |-> ws.subs, live |-> ws.live,
                work |-> "none", prev |-> {}, pending |-> {}, replay |-> {},
                lost |-> ws.lost \cup (ws.pending \ ws.replay)]
    BY <2>5, <2>10
  <2>12. /\ IsClient(ws') /\ ws'.status = ws.status /\ ws'.dead = ws.dead /\ ws'.subs = ws.subs
        /\ ws'.live = ws.live /\ ws'.work = "none" /\ ws'.prev = {}
        /\ ws'.pending = {} /\ ws'.replay = {} /\ ws'.lost = ws.lost \cup (ws.pending \ ws.replay)
    BY <2>11, ClientFields
  <2>13. /\ watcher = Idle /\ boot = {} /\ ws.subs \subseteq ws.live \cup ws.lost
        /\ ws.prev \subseteq ws.subs
    BY <1>1, <2>1 DEF ClientInv
  <2>14. ws.subs \cup ws.prev \cup ws.pending \cup ws.lost
          \subseteq ws'.subs \cup ws'.prev \cup ws'.pending \cup ws'.lost
    BY <1>3, <2>12, <2>13
  <2> QED
    BY <1>1, <2>1, <2>12, <2>13, <2>14, LinkWorks
<1> QED
  BY <1>1, <1>2, <1>3

LEMMA ReconnectFailsStep ==
  ASSUME SerialInv, ReconnectFails
  PROVE  SerialInv' /\ StaysPaid
<1>1. /\ ws' = [ws EXCEPT !.status = "reconnecting", !.work = "none", !.replay = {}]
      /\ ws.work # "none" /\ faults' = faults + 1
      /\ UNCHANGED <<chain, queue, req, watcher, boot, missed, pd, rows>>
  BY DEF ReconnectFails, KeepAll
<1>2. ClientInv /\ IsClient(ws) /\ faults \in Nat
  BY DEF SerialInv, ClientInv
<1>3. PICK u1 : u1 = [status |-> "reconnecting", dead |-> ws.dead, subs |-> ws.subs,
                      live |-> ws.live, work |-> ws.work, prev |-> ws.prev,
                      pending |-> ws.pending, replay |-> ws.replay, lost |-> ws.lost]
  OBVIOUS
<1>4. PICK u2 : u2 = [status |-> "reconnecting", dead |-> ws.dead, subs |-> ws.subs,
                      live |-> ws.live, work |-> "none", prev |-> ws.prev,
                      pending |-> ws.pending, replay |-> ws.replay, lost |-> ws.lost]
  OBVIOUS
<1>5. u1 = [ws EXCEPT !.status = "reconnecting"]
  BY <1>2, <1>3 DEF IsClient
<1>6. u2 = [u1 EXCEPT !.work = "none"]
  BY <1>3, <1>4
<1>7. ws' = [u2 EXCEPT !.replay = {}]
  BY <1>1, <1>5, <1>6
<1>8. ws' = [status |-> "reconnecting", dead |-> ws.dead, subs |-> ws.subs,
              live |-> ws.live, work |-> "none", prev |-> ws.prev, pending |-> ws.pending,
              replay |-> {}, lost |-> ws.lost]
  BY <1>4, <1>7
<1>9. /\ IsClient(ws') /\ ws'.status = "reconnecting" /\ ws'.dead = ws.dead /\ ws'.subs = ws.subs
      /\ ws'.live = ws.live /\ ws'.work = "none" /\ ws'.prev = ws.prev
      /\ ws'.pending = ws.pending /\ ws'.replay = {} /\ ws'.lost = ws.lost
  BY <1>8, ClientFields
<1>10. watcher = Idle /\ boot = {} /\ ws.subs \subseteq ws.live \cup ws.lost
  BY <1>1, <1>2 DEF ClientInv
<1>11. faults' \in Nat /\ faults' # 0
  BY <1>1, <1>2
<1> QED
  BY <1>1, <1>2, <1>9, <1>10, <1>11, LinkWorks

\* The version of a record that a row is rebuilt from.
VersionOf(p, v) == IF v = p.version THEN p ELSE p.old[v]

LEMMA RebuiltRowIs ==
  ASSUME RecordsInv, NEW t \in Tokens, NEW v \in Versions, v <= pd[t].version
  PROVE  LET x == RebuiltRow(VersionOf(pd[t], v))
         IN  /\ IsRow(x) /\ HasAddress(pd[t], x.address)
             /\ v = pd[t].version => x.status = LastChange(t)
<1>1. PICK p : p = pd[t]
  OBVIOUS
<1>2. IsRecord(p) /\ p.version \in Nat /\ v \in Nat /\ v # 0 /\ v <= p.version
  BY <1>1, InvoicesAssumption DEF RecordsInv, IsRecord, Versions
<1>3. p.version # 0
  BY <1>2
<1>4. /\ IsMd(p.md) /\ Len(p.old) = p.version - 1
      /\ \A i \in 1..Len(p.old) : IsMd(p.old[i].md)
  BY <1>2, <1>3 DEF IsRecord
<1>5. PICK r : r = VersionOf(p, v)
  OBVIOUS
<1>6. IsMd(r.md) /\ HasAddress(p, r.address)
  <2>1. CASE v = p.version
    BY <1>4, <1>5, <2>1 DEF VersionOf, HasAddress
  <2>2. CASE v # p.version
    <3>1. v \in 1..Len(p.old)
      BY <1>2, <1>4, <2>2
    <3> QED
      BY <1>4, <1>5, <2>2, <3>1 DEF VersionOf, HasAddress
  <2> QED
    BY <2>1, <2>2
<1>7. PICK y : y = RebuiltPay(r)
  OBVIOUS
<1>8. IsPay(y)
  BY <1>7 DEF RebuiltPay, IsPay
<1>9. PICK x : x = RebuiltRow(r)
  OBVIOUS
<1>10. x = [status |-> Last(r.md).status, address |-> r.address, pay |-> y]
  BY <1>7, <1>9 DEF RebuiltRow
<1>11. /\ x = [status |-> x.status, address |-> x.address, pay |-> x.pay]
       /\ x.status = Last(r.md).status /\ x.address = r.address /\ x.pay = y
  BY <1>10
<1>12. IsRow(x)
  BY <1>6, <1>8, <1>11 DEF IsRow, IsMd
<1>13. v = p.version => x.status = LastChange(t)
  BY <1>1, <1>5, <1>11 DEF VersionOf, LastChange
<1> QED
  BY <1>1, <1>5, <1>6, <1>9, <1>11, <1>12, <1>13

\* A rebuilt database has every version of every record, and agrees with it.
LEMMA RebuiltRowsAre ==
  ASSUME RecordsInv, rows' = [t \in Tokens |-> RebuiltRows(t)], pd' = pd
  PROVE  /\ RecordsInv'
         /\ \A t \in Tokens : pd[t].version # 0 => Stored(t)' # {}
         /\ \A t \in Tokens : Stored(t)' # {} => LatestRow(t)'.status = LastChange(t)
<1>1. \A t \in Tokens : rows'[t] = [v \in Versions |-> rows'[t][v]]
  BY DEF RebuiltRows
<1>2. ASSUME NEW t \in Tokens, NEW v \in Versions
      PROVE  /\ v > pd[t].version => rows'[t][v] = NoRow
             /\ ~(v > pd[t].version) => rows'[t][v] = RebuiltRow(VersionOf(pd[t], v))
  BY DEF RebuiltRows, VersionOf
<1>3. ASSUME NEW t \in Tokens, NEW v \in Versions
      PROVE  /\ pd[t].version \in 0..MaxVersion /\ v \in Nat /\ v # 0
             /\ v > pd[t].version \/ v <= pd[t].version
  BY InvoicesAssumption DEF RecordsInv, IsRecord, Versions
<1>4. ASSUME NEW t \in Tokens, NEW v \in Versions, v <= pd[t].version
      PROVE  /\ IsRow(rows'[t][v]) /\ HasAddress(pd[t], rows'[t][v].address)
             /\ v = pd[t].version => rows'[t][v].status = LastChange(t)
  <2>1. rows'[t][v] = RebuiltRow(VersionOf(pd[t], v))
    BY <1>2, <1>3, <1>4
  <2> QED
    BY <1>4, <2>1, RebuiltRowIs
<1>5. RecordsInv'
  <2>1. pd' = [t \in Tokens |-> pd'[t]] /\ \A t \in Tokens : IsRecord(pd'[t])
    BY DEF RecordsInv
  <2>2. rows' = [t \in Tokens |-> rows'[t]]
    OBVIOUS
  <2>3. ASSUME NEW t \in Tokens, NEW v \in Versions
        PROVE  \/ rows'[t][v] = NoRow
               \/ /\ IsRow(rows'[t][v]) /\ v <= pd'[t].version
                  /\ HasAddress(pd'[t], rows'[t][v].address)
    <3>1. CASE v > pd[t].version
      BY <1>2, <3>1
    <3>2. CASE v <= pd[t].version
      BY <1>4, <3>2
    <3> QED
      BY <1>3, <3>1, <3>2
  <2> QED
    BY <1>1, <2>1, <2>2, <2>3 DEF RecordsInv
<1>6. ASSUME NEW t \in Tokens, NEW v \in Versions
      PROVE  v \in Stored(t)' <=> v <= pd[t].version
  <2>1. v <= pd[t].version => rows'[t][v] # NoRow
    BY <1>4, RowsAreRows
  <2>2. v > pd[t].version => rows'[t][v] = NoRow
    BY <1>2
  <2>3. ~(v > pd[t].version /\ v <= pd[t].version)
    BY <1>3
  <2> QED
    BY <1>3, <2>1, <2>2, <2>3 DEF Stored
<1>7. ASSUME NEW t \in Tokens, pd[t].version # 0 PROVE pd[t].version \in Stored(t)'
  <2>1. pd[t].version \in 0..MaxVersion
    BY DEF RecordsInv, IsRecord
  <2>2. pd[t].version \in Versions /\ pd[t].version <= pd[t].version
    BY <1>7, <2>1, InvoicesAssumption DEF Versions
  <2> QED
    BY <1>6, <2>2
<1>8. ASSUME NEW t \in Tokens, Stored(t)' # {} PROVE LatestRow(t)'.status = LastChange(t)
  <2>1. PICK w \in Versions : w <= pd[t].version
    BY <1>6, <1>8 DEF Stored
  <2>2. pd[t].version # 0
    BY <1>3, <2>1
  <2>3. PICK n : n = pd[t].version
    OBVIOUS
  <2>4. n \in Stored(t)'
    BY <1>7, <2>2, <2>3
  <2>5. PICK S : S = Stored(t)'
    OBVIOUS
  <2>6. S \subseteq Versions /\ n \in S /\ \A v \in S : v <= n
    BY <1>6, <2>3, <2>4, <2>5 DEF Stored
  <2>10. \A v \in S : v < Radix
    <3>1. n < Radix /\ n \in Nat /\ Radix \in Nat
      BY <2>3, VersionsAre, InvoicesAssumption DEF RecordsInv, IsRecord
    <3>2. \A v \in S : v \in Nat
      BY <2>6, VersionsAre
    <3> QED
      BY <2>6, <3>1, <3>2
  <2>7. InvoiceByToken(t)' = n
    BY <2>5, <2>6, <2>10, LastIs DEF InvoiceByToken
  <2>8. n \in Versions /\ n <= n
    BY <2>6, VersionsAre
  <2>9. rows'[t][n].status = LastChange(t)
    BY <1>4, <2>3, <2>8
  <2> QED
    BY <2>7, <2>9 DEF LatestRow
<1> QED
  BY <1>5, <1>7, <1>8

LEMMA RestartStep ==
  ASSUME SerialInv, Restart
  PROVE  SerialInv' /\ StaysPaid
<1>1. /\ faults' = faults + 1 /\ boot' = restartCMSAddressesWatching(rows')
      /\ rows' = [t \in Tokens |-> RebuiltRows(t)] \/ rows' = rows
      /\ ws' = NewClient /\ queue' = <<>> /\ req' = [r \in Requests |-> Idle] /\ watcher' = Idle
      /\ pd' = pd /\ chain' = chain
  BY DEF Restart
<1>2. RecordsInv /\ PaidInv /\ CheckInv /\ faults \in Nat
  BY DEF SerialInv
<1>3. RecordsInv' /\ PaidInv' /\ StaysPaid
  <2>1. CASE rows' = rows
    BY <1>1, <2>1, NothingSaved
  <2>2. CASE rows' = [t \in Tokens |-> RebuiltRows(t)]
    <3>1. /\ RecordsInv'
          /\ \A t \in Tokens : pd[t].version # 0 => Stored(t)' # {}
          /\ \A t \in Tokens : Stored(t)' # {} => LatestRow(t)'.status = LastChange(t)
      BY <1>1, <1>2, <2>2, RebuiltRowsAre
    <3>2. \A t \in Tokens : LastChange(t)' = LastChange(t)
      BY <1>1 DEF LastChange
    <3>3. PaidInv'
      BY <3>1, <3>2 DEF PaidInv
    <3>4. ASSUME NEW t \in Tokens, Stored(t) # {}, LatestRow(t).status = "paid"
          PROVE  (Stored(t) # {} /\ LatestRow(t).status = "paid")'
      <4>1. LastChange(t) = "paid"
        BY <1>2, <3>4 DEF PaidInv
      <4>2. pd[t].version # 0
        BY <1>2, <3>4, LatestIsRow
      <4> QED
        BY <3>1, <4>1, <4>2
    <3> QED
      BY <3>1, <3>3, <3>4 DEF StaysPaid
  <2> QED
    BY <1>1, <2>1, <2>2
<1>4. RequestInv'
  <2>1. \A r \in Requests : req'[r] = Idle
    BY <1>1
  <2> QED
    BY <1>1, <2>1 DEF RequestInv
<1>5. \A b \in boot' : /\ b = [key |-> b.key, pay |-> b.pay]
                       /\ b.key \in AllRows' /\ b.pay = Row(b.key)'.pay
  <2> TAKE b \in boot'
  <2>1. PICK tv \in Tokens \X Versions : /\ rows'[tv[1]][tv[2]] # NoRow
                                         /\ b = [key |-> tv, pay |-> rows'[tv[1]][tv[2]].pay]
    BY <1>1 DEF restartCMSAddressesWatching
  <2>2. b.key = tv /\ b.pay = rows'[tv[1]][tv[2]].pay /\ b = [key |-> b.key, pay |-> b.pay]
    BY <2>1
  <2> QED
    BY <2>1, <2>2 DEF AllRows, Row
<1>6. CheckInv'
  <2>1. IsLog(queue') /\ \A i : i \notin 1..Len(queue')
    BY <1>1 DEF IsLog
  <2>2. IsLog(chain')
    BY <1>1, <1>2 DEF CheckInv
  <2> QED
    BY <1>1, <1>5, <2>1, <2>2 DEF CheckInv
<1>7. ClientInv'
  <2>1. /\ IsClient(ws') /\ ws'.status = "open" /\ ws'.work = "none" /\ ws'.prev = {}
        /\ ws'.subs = {}
    BY <1>1, ClientFields DEF NewClient
  <2> QED
    BY <2>1 DEF ClientInv, IsClient
<1>8. WatchedInv'
  <2>1. ASSUME NEW t \in Tokens, Stored(t)' # {}, LatestRow(t)'.pay.status = "watching"
        PROVE  Watched(t)'
    <3>1. PICK v : v = InvoiceByToken(t)'
      OBVIOUS
    <3>2. v \in Stored(t)' /\ v \in Versions
      BY <1>3, <2>1, <3>1, LatestAfter
    <3>3. rows'[t][v] # NoRow /\ rows'[t][v].pay.status = "watching"
      BY <2>1, <3>1, <3>2 DEF Stored, LatestRow
    <3>4. PICK k : k = <<t, v>>
      OBVIOUS
    <3>5. k \in Tokens \X Versions /\ k[1] = t /\ k[2] = v
      BY <3>2, <3>4
    <3>6. PICK b : b = [key |-> k, pay |-> rows'[k[1]][k[2]].pay]
      OBVIOUS
    <3>7. b \in boot'
      BY <1>1, <3>3, <3>5, <3>6 DEF restartCMSAddressesWatching
    <3>8. b.key = <<t, InvoiceByToken(t)'>>
      BY <3>1, <3>4, <3>6
    <3> QED
      BY <3>7, <3>8 DEF Watched
  <2> QED
    BY <2>1 DEF WatchedInv
<1>9. BookedInv'
  BY <1>1 DEF BookedInv
<1>10. faults' \in Nat /\ faults' # 0
  BY <1>1, <1>2
<1> QED
  BY <1>3, <1>4, <1>6, <1>7, <1>8, <1>9, <1>10 DEF SerialInv

-----------------------------------------------------------------------------
(* The invariant, and the properties. *)

LEMMA InitInv == ASSUME Init PROVE SerialInv
<1>1. /\ pd = [t \in Tokens |-> [version |-> 0, md |-> <<>>, address |-> "", received |-> 0,
                                 old |-> <<>>]]
      /\ rows = [t \in Tokens |-> [v \in Versions |-> NoRow]]
      /\ chain = <<>> /\ ws = NewClient /\ queue = <<>> /\ req = [r \in Requests |-> Idle]
      /\ watcher = Idle /\ boot = {} /\ faults = 0
  BY DEF Init
<1>2. IsLog(<<>>) /\ \A i : i \notin 1..Len(<<>>)
  BY DEF IsLog
<1>3. ASSUME NEW t \in Tokens
      PROVE  /\ pd[t] = [version |-> 0, md |-> <<>>, address |-> "", received |-> 0, old |-> <<>>]
             /\ rows[t] = [v \in Versions |-> NoRow] /\ \A v \in Versions : rows[t][v] = NoRow
  BY <1>1
<1>4. ASSUME NEW t \in Tokens
      PROVE  /\ Stored(t) = {} /\ pd[t].version = 0
             /\ pd[t] = [version |-> pd[t].version, md |-> pd[t].md, address |-> pd[t].address,
                         received |-> pd[t].received, old |-> pd[t].old]
             /\ pd[t].md = <<>> /\ pd[t].old = <<>>
  <2>1. Stored(t) = {}
    BY <1>3 DEF Stored
  <2>2. PICK a : a = ""
    OBVIOUS
  <2>3. pd[t] = [version |-> 0, md |-> <<>>, address |-> a, received |-> 0, old |-> <<>>]
    BY <1>3, <2>2
  <2>4. pd[t].version = 0 /\ pd[t].md = <<>> /\ pd[t].old = <<>>
    BY <2>3
  <2>5. pd[t] = [version |-> pd[t].version, md |-> pd[t].md, address |-> pd[t].address,
                 received |-> pd[t].received, old |-> pd[t].old]
    BY <2>3
  <2> QED
    BY <2>1, <2>4, <2>5
<1>5. RecordsInv
  <2>1. ASSUME NEW t \in Tokens
        PROVE  /\ IsRecord(pd[t]) /\ rows[t] = [v \in Versions |-> rows[t][v]]
               /\ \A v \in Versions : rows[t][v] = NoRow
    <3>1. 0 \in 0..MaxVersion /\ 0 < Radix
      BY VersionsAre, InvoicesAssumption
    <3>2. IsRecord(pd[t])
      BY <1>2, <1>4, <3>1 DEF IsRecord
    <3> QED
      BY <1>3, <3>2
  <2>2. pd = [t \in Tokens |-> pd[t]] /\ rows = [t \in Tokens |-> rows[t]]
    BY <1>1
  <2> QED
    BY <2>1, <2>2 DEF RecordsInv
<1>6. PaidInv
  BY <1>4 DEF PaidInv
<1>7. RequestInv
  <2>1. \A r \in Requests : req[r] = Idle
    BY <1>1
  <2> QED
    BY <1>1, <2>1 DEF RequestInv
<1>8. CheckInv
  BY <1>1, <1>2 DEF CheckInv
<1>9. ClientInv /\ ws.live = {} /\ ~ws.dead /\ ws.status = "open" /\ ws.work = "none"
  <2>1. ClientInv /\ ws.live = {} /\ ws.status = "open" /\ ws.work = "none"
    <3>1. /\ IsClient(ws) /\ ws.status = "open" /\ ws.work = "none" /\ ws.prev = {}
          /\ ws.subs = {} /\ ws.live = {}
      BY <1>1, ClientFields DEF NewClient
    <3> QED
      BY <3>1 DEF ClientInv
  <2>2. ws.dead = FALSE
    BY <1>1, Zenon DEF NewClient
  <2> QED
    BY <2>1, <2>2
<1>10. WatchedInv /\ BookedInv
  BY <1>1, <1>4 DEF WatchedInv, BookedInv
<1>11. PayableInv
  <2>1. boot = {} /\ \A i : i \notin 1..Len(queue)
    BY <1>1, <1>2
  <2> QED
    BY <1>9, <2>1 DEF PayableInv
<1>12. LatestChecked /\ OldRows /\ FollowsInv
  BY <1>1, <1>4 DEF LatestChecked, OldRows, FollowsInv
<1> QED
  BY <1>1, <1>5, <1>6, <1>7, <1>8, <1>9, <1>10, <1>11, <1>12 DEF SerialInv, FaultlessInv

LEMMA SameRecords ==
  ASSUME VersionsInv, pd' = pd
  PROVE  VersionsInv' /\ \A t \in Tokens : pd[t].version <= pd'[t].version
BY DEF VersionsInv, RecordIs

LEMMA OneRecord ==
  ASSUME VersionsInv, NEW u \in Tokens, NEW p, RecordIs(p), pd' = [pd EXCEPT ![u] = p],
         pd[u].version <= p.version
  PROVE  VersionsInv' /\ \A t \in Tokens : pd[t].version <= pd'[t].version
<1>1. pd = [t \in Tokens |-> pd[t]] /\ \A t \in Tokens : RecordIs(pd[t])
  BY DEF VersionsInv
<1>2. pd' = [t \in Tokens |-> IF t = u THEN p ELSE pd[t]]
  BY <1>1
<1>3. pd' = [t \in Tokens |-> pd'[t]] /\ \A t \in Tokens : RecordIs(pd'[t])
  BY <1>1, <1>2
<1>4. VersionsInv'
  BY <1>3 DEF VersionsInv, RecordIs
<1>5. \A t \in Tokens : pd[t].version <= pd[t].version
  BY <1>1 DEF RecordIs
<1> QED
  BY <1>2, <1>4, <1>5

LEMMA ChangeKeepsVersion ==
  ASSUME VersionsInv, NEW u, NEW s, AppendChange(u, s)
  PROVE  VersionsInv' /\ \A t \in Tokens : pd[t].version <= pd'[t].version
<1>1. pd = [t \in Tokens |-> pd[t]] /\ \A t \in Tokens : RecordIs(pd[t])
  BY DEF VersionsInv
<1>2. PICK m : m = Append(pd[u].md, [status |-> s, at |-> Len(chain)])
  OBVIOUS
<1>3. pd' = [pd EXCEPT ![u].md = m]
  BY <1>2 DEF AppendChange
<1>4. CASE u \in Tokens
  <2>1. PICK o : o = pd[u]
    OBVIOUS
  <2>2. PICK p : p = [version |-> o.version, md |-> m, address |-> o.address,
                      received |-> o.received, old |-> o.old]
    OBVIOUS
  <2>3. RecordIs(o)
    BY <1>1, <1>4, <2>1
  <2>4. [o EXCEPT !.md = m] = p
    BY <2>2, <2>3 DEF RecordIs
  <2>5. pd' = [pd EXCEPT ![u] = p]
    BY <1>3, <2>1, <2>4
  <2>6. p = [version |-> p.version, md |-> p.md, address |-> p.address, received |-> p.received,
             old |-> p.old] /\ p.version = o.version
    BY <2>2
  <2>7. RecordIs(p) /\ o.version <= p.version
    BY <2>3, <2>6 DEF RecordIs
  <2> QED
    BY <1>4, <2>1, <2>5, <2>7, OneRecord
<1>5. CASE u \notin Tokens
  <2>1. pd' = pd
    BY <1>1, <1>3, <1>5
  <2> QED
    BY <2>1, SameRecords
<1> QED
  BY <1>4, <1>5

LEMMA ReceivedKeepsVersion ==
  ASSUME VersionsInv, NEW u, NEW x, pd' = [pd EXCEPT ![u].received = x]
  PROVE  VersionsInv' /\ \A t \in Tokens : pd[t].version <= pd'[t].version
<1>1. pd = [t \in Tokens |-> pd[t]] /\ \A t \in Tokens : RecordIs(pd[t])
  BY DEF VersionsInv
<1>2. CASE u \in Tokens
  <2>1. PICK o : o = pd[u]
    OBVIOUS
  <2>2. PICK p : p = [version |-> o.version, md |-> o.md, address |-> o.address,
                      received |-> x, old |-> o.old]
    OBVIOUS
  <2>3. RecordIs(o)
    BY <1>1, <1>2, <2>1
  <2>4. [o EXCEPT !.received = x] = p
    BY <2>2, <2>3 DEF RecordIs
  <2>5. pd' = [pd EXCEPT ![u] = p]
    BY <2>1, <2>4
  <2>6. p = [version |-> p.version, md |-> p.md, address |-> p.address, received |-> p.received,
             old |-> p.old] /\ p.version = o.version
    BY <2>2
  <2>7. RecordIs(p) /\ o.version <= p.version
    BY <2>3, <2>6 DEF RecordIs
  <2> QED
    BY <1>2, <2>1, <2>5, <2>7, OneRecord
<1>3. CASE u \notin Tokens
  <2>1. pd' = pd
    BY <1>1, <1>3
  <2> QED
    BY <2>1, SameRecords
<1> QED
  BY <1>2, <1>3

\* Saving a record adds a version to it.
LEMMA RecordGrows ==
  ASSUME VersionsInv, NEW r, SaveRecord(r)
  PROVE  VersionsInv' /\ \A t \in Tokens : pd[t].version <= pd'[t].version
<1>1. PICK q : q = req[r]
  OBVIOUS
<1>2. PICK b : b = IF q.pc = "create" THEN <<>>
                   ELSE Append(pd[q.t].old, [md |-> pd[q.t].md, address |-> pd[q.t].address,
                                             received |-> pd[q.t].received])
  OBVIOUS
<1>3. PICK m : m = IF q.pc = "create" THEN <<[status |-> "new", at |-> Len(chain)]>>
                   ELSE pd[q.t].md
  OBVIOUS
<1>4. pd' = [pd EXCEPT ![q.t].version = @ + 1, ![q.t].address = q.row.address,
                       ![q.t].old = b, ![q.t].md = m]
  BY <1>1, <1>2, <1>3 DEF SaveRecord
<1>5. pd = [t \in Tokens |-> pd[t]] /\ \A t \in Tokens : RecordIs(pd[t])
  BY DEF VersionsInv
<1>6. CASE q.t \in Tokens
  <2>1. PICK o : o = pd[q.t]
    OBVIOUS
  <2>2. RecordIs(o)
    BY <1>5, <1>6, <2>1
  <2>3. PICK n : n = o.version + 1
    OBVIOUS
  <2>4. PICK x : x = [version |-> n, md |-> o.md, address |-> o.address,
                      received |-> o.received, old |-> o.old]
    OBVIOUS
  <2>5. PICK y : y = [version |-> n, md |-> o.md, address |-> q.row.address,
                      received |-> o.received, old |-> o.old]
    OBVIOUS
  <2>6. PICK z : z = [version |-> n, md |-> o.md, address |-> q.row.address,
                      received |-> o.received, old |-> b]
    OBVIOUS
  <2>7. PICK p : p = [version |-> n, md |-> m, address |-> q.row.address,
                      received |-> o.received, old |-> b]
    OBVIOUS
  <2>8. [o EXCEPT !.version = n] = x
    BY <2>2, <2>4 DEF RecordIs
  <2>9. [x EXCEPT !.address = q.row.address] = y
    BY <2>4, <2>5
  <2>10. [y EXCEPT !.old = b] = z
    BY <2>5, <2>6
  <2>11. [z EXCEPT !.md = m] = p
    BY <2>6, <2>7
  <2>12. pd' = [pd EXCEPT ![q.t] =
                  [[[[pd[q.t] EXCEPT !.version = pd[q.t].version + 1] EXCEPT !.address = q.row.address]
                      EXCEPT !.old = b] EXCEPT !.md = m]]
    BY <1>4, <1>5
  <2>13. pd' = [pd EXCEPT ![q.t] = p]
    BY <2>1, <2>3, <2>8, <2>9, <2>10, <2>11, <2>12
  <2>14. p = [version |-> p.version, md |-> p.md, address |-> p.address, received |-> p.received,
              old |-> p.old] /\ p.version = n
    BY <2>7
  <2>15. o.version \in Nat /\ n \in Nat /\ o.version <= n
    BY <2>2, <2>3 DEF RecordIs
  <2>16. RecordIs(p)
    BY <2>14, <2>15 DEF RecordIs
  <2> QED
    BY <1>5, <1>6, <2>1, <2>13, <2>14, <2>15, <2>16, OneRecord
<1>7. CASE q.t \notin Tokens
  <2>1. pd' = pd
    BY <1>4, <1>5, <1>7
  <2> QED
    BY <2>1, SameRecords
<1> QED
  BY <1>6, <1>7

\* No step takes back a version.
LEMMA VersionsGrow ==
  ASSUME VersionsInv, [Next]_vars
  PROVE  VersionsInv' /\ \A t \in Tokens : pd[t].version <= pd'[t].version
<1>1. CASE UNCHANGED vars
  BY <1>1, SameRecords DEF vars
<1>2. ASSUME NEW r \in Requests, Request(r) PROVE pd' = pd
  BY <1>2 DEF Request, processNewInvoice, processSetInvoiceStatus, processEditInvoice,
              processPayInvoices, Start
<1>3. ASSUME NEW r \in Requests, RequestFails(r) PROVE pd' = pd
  BY <1>3 DEF RequestFails
<1>4. ASSUME NEW r \in Requests, Handle(r), ~SaveRecord(r), ~AppendStatus(r) PROVE pd' = pd
  BY <1>4 DEF Handle, InsertRow, UpdateRow, addWatchAddress, subAdd, pendingAdd
<1>5. ASSUME NEW r \in Requests, AppendStatus(r)
      PROVE  VersionsInv' /\ \A t \in Tokens : pd[t].version <= pd'[t].version
  BY <1>5, ChangeKeepsVersion DEF AppendStatus
<1>6. checkPayments \/ checkHistoricalPayments \/ UpdatePayments \/ invoiceStatusPaid \/ WatcherFails
      => pd' = pd
  BY DEF checkPayments, checkHistoricalPayments, UpdatePayments, invoiceStatusPaid, WatcherFails
<1>7. CASE MarkPaid
  BY <1>7, ChangeKeepsVersion DEF MarkPaid
<1>8. CASE SavePayment
  BY <1>8, ReceivedKeepsVersion DEF SavePayment
<1>9. Pay \/ Drop \/ Restart \/ StartReconnect \/ Connect \/ Resubscribe \/ Replay \/ ReconnectFails
      => pd' = pd
  BY DEF Pay, Drop, Restart, StartReconnect, Connect, Resubscribe, Replay, ReconnectFails, KeepAll
<1> QED
  BY <1>1, <1>2, <1>3, <1>4, <1>5, <1>6, <1>7, <1>8, <1>9, RecordGrows, SameRecords DEF Next, Watch

\* So numerals of one digit had one digit before.
LEMMA DigitsBefore ==
  ASSUME VersionsInv, [Next]_vars, SingleDigits'
  PROVE  SingleDigits
<1>1. ASSUME NEW t \in Tokens PROVE pd[t].version < Radix
  <2>1. pd[t].version <= pd'[t].version
    BY VersionsGrow
  <2>2. pd[t].version \in Nat
    BY DEF VersionsInv, RecordIs
  <2>3. pd'[t].version \in Nat
    BY VersionsGrow DEF VersionsInv, RecordIs
  <2>4. pd'[t].version < Radix
    BY DEF SingleDigits
  <2> QED
    BY <2>1, <2>2, <2>3, <2>4, InvoicesAssumption
<1> QED
  BY <1>1 DEF SingleDigits

\* No step decides anew whether requests and checks overlap.
LEMMA SerialStays == ASSUME [Next]_vars PROVE serial' = serial
<1>1. CASE Next
  <2>1. ASSUME NEW r \in Requests, Request(r) PROVE serial' = serial
    BY <2>1 DEF Request, processNewInvoice, processSetInvoiceStatus, processEditInvoice,
                processPayInvoices, Start
  <2>2. ASSUME NEW r \in Requests, Handle(r) PROVE serial' = serial
    BY <2>2 DEF Handle, SaveRecord, AppendStatus, InsertRow, UpdateRow, addWatchAddress,
                subAdd, pendingAdd, KeepRest
  <2>3. ASSUME NEW r \in Requests, RequestFails(r) PROVE serial' = serial
    BY <2>3 DEF RequestFails
  <2>4. Watch => serial' = serial
    BY DEF Watch, checkPayments, checkHistoricalPayments, SavePayment, UpdatePayments, MarkPaid,
           invoiceStatusPaid, KeepWatch
  <2>5. WatcherFails => serial' = serial
    BY DEF WatcherFails, KeepWatch
  <2>6. Pay \/ Drop \/ Restart \/ StartReconnect \/ Connect \/ Resubscribe \/ Replay
        \/ ReconnectFails => serial' = serial
    BY DEF Pay, Drop, Restart, StartReconnect, Connect, Resubscribe, Replay, ReconnectFails, KeepAll
  <2> QED
    BY <1>1, <2>1, <2>2, <2>3, <2>4, <2>5, <2>6 DEF Next
<1> QED
  BY <1>1 DEF vars

LEMMA NextStep ==
  ASSUME SerialInv, serial, [Next]_vars, SingleDigits'
  PROVE  SerialInv' /\ StaysPaid
<1>1. CASE UNCHANGED vars
  <2>1. UNCHANGED <<pd, rows, chain, ws, queue, req, watcher, boot, missed, faults>>
    BY <1>1 DEF vars
  <2>2. CheckInv' /\ ClientInv' /\ Known' = Known /\ faults' \in Nat /\ faults' = faults
    BY <2>1, CheckFrame DEF SerialInv, ClientInv, Known
  <2>3. ASSUME faults = 0, AddressesApart PROVE PayableInv'
    <3>1. PayableInv /\ ws' = ws /\ ws.status = "open" /\ ws.work = "none" /\ ~ws.dead
      BY <2>1, <2>3 DEF SerialInv, FaultlessInv, PayableInv
    <3> QED
      BY <2>1, <3>1, PayableFrame
  <2> QED
    BY <2>1, <2>2, <2>3, LinkMoves
<1>2. ASSUME NEW r \in Requests, Request(r) \/ Handle(r) \/ RequestFails(r)
      PROVE  SerialInv' /\ StaysPaid
  BY <1>2, RequestStep, HandleStep, RequestFailsStep
<1>3. CASE Watch
  BY <1>3, checkPaymentsStep, checkHistoricalPaymentsStep, SavePaymentStep, UpdatePaymentsStep,
     MarkPaidStep, invoiceStatusPaidStep DEF Watch
<1>4. CASE WatcherFails
  BY <1>4, WatcherFailsStep
<1>5. CASE Pay \/ Drop \/ Restart \/ StartReconnect \/ Connect \/ Resubscribe \/ Replay
           \/ ReconnectFails
  BY <1>5, PayStep, DropStep, RestartStep, StartReconnectStep, ConnectStep, ResubscribeStep,
     ReplayStep, ReconnectFailsStep
<1> QED
  BY <1>1, <1>2, <1>3, <1>4, <1>5 DEF Next

\* In any behaviour.
LEMMA InitVersions == ASSUME Init PROVE VersionsInv
<1>1. pd = [t \in Tokens |-> [version |-> 0, md |-> <<>>, address |-> "", received |-> 0,
                              old |-> <<>>]]
  BY DEF Init
<1>2. PICK a : a = ""
  OBVIOUS
<1>3. ASSUME NEW t \in Tokens PROVE RecordIs(pd[t])
  <2>1. pd[t] = [version |-> 0, md |-> <<>>, address |-> a, received |-> 0, old |-> <<>>]
    BY <1>1, <1>2
  <2> QED
    BY <2>1 DEF RecordIs
<1> QED
  BY <1>1, <1>3 DEF VersionsInv

LEMMA SInvStep ==
  ASSUME SInv, [Next]_vars
  PROVE  SInv' /\ (serial /\ SingleDigits' => StaysPaid)
<1>1. VersionsInv' /\ serial' = serial
  BY VersionsGrow, SerialStays DEF SInv
<1>2. ASSUME serial, SingleDigits' PROVE SerialInv' /\ StaysPaid
  <2>1. SerialInv
    BY <1>2, DigitsBefore DEF SInv
  <2> QED
    BY <1>2, <2>1, NextStep
<1> QED
  BY <1>1, <1>2 DEF SInv

\* The invariant of the behaviours in which requests and checks of payments do
\* not overlap, while the numerals of the versions have one digit: the rows are
\* of versions and addresses that politeiad has, what a request read is still
\* what the database has when it writes it back, and what is paid is paid in
\* politeiad.
THEOREM InvoicesSerialInv == Spec => []SInv
<1>1. Init => SInv
  BY InitInv, InitVersions DEF SInv
<1>2. SInv /\ [Next]_vars => SInv'
  BY SInvStep
<1> QED
  BY <1>1, <1>2, PTL DEF Spec

\* When requests do not overlap, nothing failed, no address was used again and
\* no invoice has a version of two digits, the latest row of an invoice is the
\* version that politeiad has, with the status of its last change
\* (processSetInvoiceStatus, processEditInvoice, processPayInvoices and the
\* watcher write politeiad and then the row).
THEOREM InvoiceRowsFollowRecords == Spec => []RowsFollowRecords
<1>1. SInv => RowsFollowRecords
  <2> SUFFICES ASSUME SInv, serial, faults = 0, AddressesApart, SingleDigits, Quiet,
                      NEW t \in Tokens, pd[t].version # 0
               PROVE  /\ InvoiceByToken(t) = pd[t].version
                      /\ rows[t][pd[t].version].status = Last(pd[t].md).status
    BY DEF RowsFollowRecords
  <2>1. Follows(t)
    BY DEF SInv, SerialInv, FaultlessInv, FollowsInv
  <2>2. watcher = Idle /\ \A r \in Requests : req[r].pc \notin {"append", "insert", "update"}
    BY DEF Quiet, Idle
  <2>3. Even(t)
    BY <2>1, <2>2, Evens
  <2> QED
    BY <2>3 DEF Even, LatestRow, LastChange
<1> QED
  BY <1>1, InvoicesSerialInv, PTL

\* When requests do not overlap, no address was used again and no invoice has a
\* version of two digits, the present connection has the address of an approved
\* invoice that awaits its payment, or the address waits for the next one, was
\* logged, or was lost by Reconnect, through every drop, attempt to reconnect
\* and restart (restartCMSAddressesWatching, checkHistoricalPayments,
\* addWatchAddress, Reconnect).
THEOREM InvoiceApprovedIsWatched == Spec => []ApprovedIsWatched
<1>1. SInv => ApprovedIsWatched
  <2> SUFFICES ASSUME SInv, serial, AddressesApart, SingleDigits, Quiet,
                      NEW t \in Tokens, Stored(t) # {},
                      LatestRow(t).status = "approved", LatestRow(t).pay.status = "watching"
               PROVE  LatestRow(t).address
                        \in ws.live \cup ws.prev \cup ws.pending \cup missed \cup ws.lost
    BY DEF ApprovedIsWatched, LatestRow
  <2>1. Watched(t) /\ ws.subs \subseteq ws.live \cup ws.lost
    BY DEF SInv, SerialInv, WatchedInv, ClientInv
  <2>2. LatestRow(t).address \in Known
    BY <2>1 DEF Watched, Quiet, Idle
  <2> QED
    BY <2>1, <2>2 DEF Known
<1> QED
  BY <1>1, InvoicesSerialInv, PTL

\* When requests do not overlap and no invoice has a version of two digits, an
\* invoice whose latest row is paid stays so: through edits and status changes
\* (validateStatusTransition), late payments, failures, and restarts that
\* rebuild the rows from politeiad.
THEOREM InvoicePaidIsFinal == Spec => PaidIsFinal
<1>1. SInv /\ [Next]_vars =>
        [serial /\ SingleDigits' => \A t \in Tokens :
           Stored(t) # {} /\ rows[t][InvoiceByToken(t)].status = "paid" =>
             (Stored(t) # {} /\ rows[t][InvoiceByToken(t)].status = "paid")']_vars
  <2> SUFFICES ASSUME SInv, [Next]_vars, serial, SingleDigits'
               PROVE  \A t \in Tokens :
                        Stored(t) # {} /\ rows[t][InvoiceByToken(t)].status = "paid" =>
                          (Stored(t) # {} /\ rows[t][InvoiceByToken(t)].status = "paid")'
    OBVIOUS
  <2>1. StaysPaid
    BY SInvStep
  <2> QED
    BY <2>1 DEF StaysPaid, LatestRow
<1> QED
  BY <1>1, InvoicesSerialInv, PTL DEF Spec, PaidIsFinal

=============================================================================
