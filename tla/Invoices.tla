------------------------------ MODULE Invoices ------------------------------
(***************************************************************************)
(* Contractor invoices of cmswww and the watcher that looks for their      *)
(* payment (politeiawww/legacy: invoices.go, cmsaddresswatcher.go, the     *)
(* invoice tables of cmsdatabase/cockroachdb; politeiawww/wsdcrdata).      *)
(*                                                                         *)
(* An invoice lives twice: as a record of politeiad, whose metadata gets   *)
(* every status change appended, and as one row per version of the cms     *)
(* database, each with its payments row.  A request reads the latest row,  *)
(* changes politeiad, and writes back the row it read; the watcher does    *)
(* the same with the payments row and then with the row of the invoice.    *)
(* Nothing serialises them: the variable serial says whether, in this      *)
(* behaviour, requests and checks of payments happen not to overlap.       *)
(*                                                                         *)
(* Every invoice asks for the same amount, Needed.  Every transaction      *)
(* comes from the treasury.  The clock is the length of the chain.         *)
(***************************************************************************)
EXTENDS Integers, Sequences, SequencesExt, FiniteSetsExt

CONSTANTS Tokens,      \* tokens of the invoices, ordered as their keys are
          Addresses,   \* payment addresses
          Requests,    \* the requests that can be in flight at a time
          Needed,      \* AmountNeeded
          Radix,       \* of the numerals that versions are written in
          MaxVersion, MaxTxs, MaxRequests, MaxFaults  \* bounds

ASSUME InvoicesAssumption ==
    /\ Tokens \subseteq Nat /\ IsFiniteSet(Tokens)
    /\ Needed \in Nat \ {0}
    /\ Radix \in Nat \ {0, 1} /\ MaxVersion < Radix * Radix
    /\ MaxVersion \in Nat \ {0}
    /\ {MaxTxs, MaxRequests, MaxFaults} \subseteq Nat

NoRow == [status |-> "none"]
Versions == 1..MaxVersion
Idle == [pc |-> "idle"]

VARIABLES
    pd,       \* token -> the record of politeiad
    rows,     \* token -> version -> row of the cms database
    chain,    \* transactions, oldest first
    ws,       \* wsdcrdata.Client
    queue,    \* address messages that the monitor has not received
    req,      \* request -> what it is doing and the row it read
    watcher,  \* the check of a payment under way
    boot,     \* payments that restartCMSAddressesWatching has still to check
    missed,   \* addresses of failures that are only logged
    serial,   \* requests and checks do not overlap
    begun, faults

vars == <<pd, rows, chain, ws, queue, req, watcher, boot, missed, serial, begun, faults>>

(***************************************************************************)
(* The database.                                                           *)
(***************************************************************************)
Stored(t) == {v \in Versions : rows[t][v] # NoRow}
AllRows == {tv \in Tokens \X Versions : rows[tv[1]][tv[2]] # NoRow}
Row(tv) == rows[tv[1]][tv[2]]

\* A version is a column of text, and a numeral of one digit or two comes
\* before another when its first digit is less, whatever follows.
FirstDigit(v) == IF v < Radix THEN v ELSE v \div Radix
Before(v, w) ==
    \/ FirstDigit(v) < FirstDigit(w)
    \/ FirstDigit(v) = FirstDigit(w) /\ v < w

LastInText(S) == CHOOSE v \in S : \A w \in S : w = v \/ Before(w, v)

\* InvoiceByToken orders by version.
InvoiceByToken(t) == LastInText(Stored(t))

\* InvoicesByAddress looks at the latest versions only.
InvoicesByAddress(a) ==
    {t \in Tokens : Stored(t) # {} /\ rows[t][InvoiceByToken(t)].address = a}

\* InvoicesByStatus does not.
InvoicesByStatus(s) == {tv \in AllRows : Row(tv).status = s}

\* PaymentsByAddress scans every match into one struct: the row with the
\* greatest key is what remains.
PaymentsByAddress(a) ==
    LET match == {tv \in AllRows : Row(tv).address = a}
    IN  CHOOSE tv \in match :
            \A o \in match : o[1] < tv[1] \/ o = tv \/ (o[1] = tv[1] /\ Before(o[2], tv[2]))

NoPay == [status |-> "none", started |-> 0, received |-> 0]
NewRow(s, a) == [status |-> s, address |-> a, pay |-> NoPay]

\* A status change appended to the metadata of politeiad.
AppendChange(t, s) == pd' = [pd EXCEPT ![t].md = Append(@, [status |-> s, at |-> Len(chain)])]

(***************************************************************************)
(* convertRecordToDatabaseInvoice on a version of a record of politeiad:   *)
(* the row that a rebuild of the database stores for it.  The metadata of  *)
(* an older version is what it was when the next one was saved.            *)
(***************************************************************************)
RebuiltPay(r) ==
    LET of(s) == {i \in 1..Len(r.md) : r.md[i].status = s}
        pays == of("approved") \cup of("paid")
    IN  [status   |-> IF pays = {} THEN "none"
                      ELSE IF r.md[Max(pays)].status = "paid" THEN "paid" ELSE "watching",
         started  |-> IF of("approved") = {} THEN 0 ELSE r.md[Max(of("approved"))].at,
         received |-> r.received]

RebuiltRow(r) ==
    [status |-> Last(r.md).status, address |-> r.address, pay |-> RebuiltPay(r)]

RebuiltRows(t) ==
    [v \in Versions |->
        IF v > pd[t].version THEN NoRow
        ELSE RebuiltRow(IF v = pd[t].version THEN pd[t] ELSE pd[t].old[v])]

(***************************************************************************)
(* wsdcrdata.  subs are the addresses marked as subscribed to, live those  *)
(* that the present connection has; prev and replay are what Reconnect has *)
(* to subscribe to again.  lost remembers the addresses that it loses      *)
(* without a word.                                                         *)
(***************************************************************************)
NewClient == [status |-> "open", dead |-> FALSE, subs |-> {}, live |-> {}, work |-> "none",
              prev |-> {}, pending |-> {}, replay |-> {}, lost |-> {}]

Monitoring == ws.status = "open" /\ ws.work = "none"
AddSub(a) == [ws EXCEPT !.subs = @ \cup {a}, !.live = @ \cup {a}]

\* subscribe on an open connection; the caller only logs the error.
Subscribe(a) ==
    /\ ws' = IF ws.dead \/ a \in ws.subs THEN ws ELSE AddSub(a)
    /\ missed' = IF ws.dead /\ a \notin ws.subs THEN missed \cup {a} ELSE missed

\* unsubscribe, likewise.
Unsubscribe(a) ==
    ws' = IF ws.dead \/ ws.status # "open" THEN ws
          ELSE [ws EXCEPT !.subs = @ \ {a}, !.live = @ \ {a}]

-----------------------------------------------------------------------------
Init ==
    /\ pd = [t \in Tokens |-> [version |-> 0, md |-> <<>>, address |-> "", received |-> 0,
                               old |-> <<>>]]
    /\ rows = [t \in Tokens |-> [v \in Versions |-> NoRow]]
    /\ chain = <<>>
    /\ ws = NewClient
    /\ queue = <<>>
    /\ req = [r \in Requests |-> Idle]
    /\ watcher = Idle
    /\ boot = {}
    /\ missed = {}
    /\ serial \in BOOLEAN
    /\ begun = 0 /\ faults = 0

Quiet == watcher = Idle /\ boot = {} /\ \A r \in Requests : req[r] = Idle

(***************************************************************************)
(* Requests.  A request starts by reading and validating; what it read is  *)
(* what it later writes back.                                              *)
(***************************************************************************)
Start(r, next) ==
    /\ req[r] = Idle /\ begun < MaxRequests
    /\ serial => Quiet
    /\ req' = [req EXCEPT ![r] = next]
    /\ begun' = begun + 1
    /\ UNCHANGED <<pd, rows, chain, ws, queue, watcher, boot, missed, serial, faults>>

Go(r, pc) == req' = [req EXCEPT ![r].pc = pc]
Done(r) == req' = [req EXCEPT ![r] = Idle]
KeepRest == UNCHANGED <<chain, queue, watcher, boot, serial, begun, faults>>

processNewInvoice(r) == \E t \in Tokens, a \in Addresses :
    /\ pd[t].version = 0
    /\ \A q \in Requests : req[q] # Idle => req[q].t # t
    /\ InvoicesByAddress(a) = {}
    /\ Start(r, [pc |-> "create", t |-> t, version |-> 1, status |-> "new",
                 row |-> NewRow("new", a), todo |-> {}])

\* Mutant: any status may be changed.
validateStatusTransitionAny(old, new) == new \in {"approved", "rejected", "disputed"}

validateStatusTransition(old, new) ==
    /\ old \in {"new", "updated"}
    /\ new \in {"approved", "rejected", "disputed"}

processSetInvoiceStatus(r) == \E t \in Tokens, s \in {"approved", "rejected", "disputed"} :
    /\ Stored(t) # {}
    /\ validateStatusTransition(rows[t][InvoiceByToken(t)].status, s)
    /\ Start(r, [pc |-> "append", t |-> t, version |-> InvoiceByToken(t), status |-> s,
                 row |-> rows[t][InvoiceByToken(t)], todo |-> {}])

\* Mutant: the new row keeps the version of the one that was edited.
processEditInvoiceSameVersion(r) == \E t \in Tokens, a \in Addresses :
    /\ Stored(t) # {} /\ pd[t].version < MaxVersion
    /\ rows[t][InvoiceByToken(t)].status \notin {"paid", "approved", "rejected"}
    /\ InvoicesByAddress(a) \subseteq {t}
    /\ Start(r, [pc |-> "edit", t |-> t, version |-> InvoiceByToken(t),
                 status |-> "updated", row |-> NewRow("updated", a), todo |-> {}])

processEditInvoice(r) == \E t \in Tokens, a \in Addresses :
    /\ Stored(t) # {} /\ pd[t].version < MaxVersion
    /\ rows[t][InvoiceByToken(t)].status \notin {"paid", "approved", "rejected"}
    /\ InvoicesByAddress(a) \subseteq {t}
    /\ Start(r, [pc |-> "edit", t |-> t, version |-> InvoiceByToken(t) + 1,
                 status |-> "updated", row |-> NewRow("updated", a), todo |-> {}])

processPayInvoices(r) ==
    /\ InvoicesByStatus("approved") # {}
    /\ \E tv \in InvoicesByStatus("approved") :
        Start(r, [pc |-> "append", t |-> tv[1], version |-> tv[2], status |-> "paid",
                  row |-> Row(tv),
                  todo |-> {[key |-> o, row |-> Row(o)] :
                               o \in InvoicesByStatus("approved") \ {tv}}])

\* The record of politeiad is created, or gets a new version.
SaveRecord(r) ==
    LET q == req[r] IN
    /\ q.pc \in {"create", "edit"}
    /\ q.pc = "edit" => pd[q.t].version < MaxVersion
    /\ pd' = [pd EXCEPT ![q.t].version = @ + 1, ![q.t].address = q.row.address,
                        ![q.t].old = IF q.pc = "create" THEN <<>>
                                     ELSE Append(@, [md |-> pd[q.t].md,
                                                     address |-> pd[q.t].address,
                                                     received |-> pd[q.t].received]),
                        ![q.t].md = IF q.pc = "create"
                                      THEN <<[status |-> "new", at |-> Len(chain)]>> ELSE @]
    /\ Go(r, IF q.pc = "create" THEN "insert" ELSE "append")
    /\ UNCHANGED <<rows, ws, missed>> /\ KeepRest

AppendStatus(r) ==
    /\ req[r].pc = "append"
    /\ AppendChange(req[r].t, req[r].status)
    /\ Go(r, IF req[r].status = "updated" THEN "insert" ELSE "update")
    /\ UNCHANGED <<rows, ws, missed>> /\ KeepRest

\* NewInvoice; the insertion fails when there is a row with that key.
InsertRow(r) ==
    LET q == req[r] IN
    /\ q.pc = "insert"
    /\ rows' = IF rows[q.t][q.version] = NoRow
                 THEN [rows EXCEPT ![q.t][q.version] = q.row] ELSE rows
    /\ Done(r)
    /\ UNCHANGED <<pd, ws, missed>> /\ KeepRest

\* The row as the request writes it: approval starts the payment.
UpdatedRow(q) ==
    IF q.status = "approved"
      THEN [q.row EXCEPT !.status = "approved",
                         !.pay = [status |-> "watching", started |-> Len(chain), received |-> 0]]
      ELSE [q.row EXCEPT !.status = q.status]

\* What the request does next: an approval subscribes to the address, and
\* processPayInvoices goes on with its list.
AfterUpdate(q) ==
    IF q.status = "approved" THEN [q EXCEPT !.pc = "watch"]
    ELSE IF q.todo = {} THEN Idle
    ELSE LET n == CHOOSE n \in q.todo : TRUE
         IN  [q EXCEPT !.pc = "append", !.t = n.key[1], !.version = n.key[2],
                       !.row = n.row, !.todo = @ \ {n}]

UpdateRow(r) ==
    LET q == req[r] IN
    /\ q.pc = "update"
    /\ rows' = [rows EXCEPT ![q.t][q.version] = UpdatedRow(q)]
    /\ req' = [req EXCEPT ![r] = AfterUpdate(q)]
    /\ UNCHANGED <<pd, ws, missed>> /\ KeepRest

\* addWatchAddress.  The status of the client is looked up before the event
\* is added to the pending ones; on an open connection the address is
\* subscribed to, and then marked.
addWatchAddress(r) ==
    LET a == req[r].row.address IN
    /\ req[r].pc = "watch"
    /\ \/ /\ ws.status = "reconnecting"
          /\ Go(r, "pend") /\ UNCHANGED <<ws, missed>>
       \/ /\ ws.status = "open" /\ (ws.dead \/ a \in ws.subs)
          /\ Subscribe(a) /\ Done(r)
       \/ /\ ws.status = "open" /\ ~ws.dead /\ a \notin ws.subs
          /\ ws' = [ws EXCEPT !.live = @ \cup {a}]
          /\ Go(r, "mark") /\ UNCHANGED missed
    /\ UNCHANGED <<pd, rows>> /\ KeepRest

\* The connection may have been given up by now.
subAdd(r) ==
    LET a == req[r].row.address IN
    /\ req[r].pc = "mark"
    /\ ws' = [ws EXCEPT !.subs = @ \cup {a},
                        !.lost = IF a \in ws.live THEN @ ELSE @ \cup {a}]
    /\ Done(r)
    /\ UNCHANGED <<pd, rows, missed>> /\ KeepRest

pendingAdd(r) ==
    /\ req[r].pc = "pend"
    /\ ws' = [ws EXCEPT !.pending = @ \cup {req[r].row.address}]
    /\ Done(r)
    /\ UNCHANGED <<pd, rows, missed>> /\ KeepRest

\* A request ends with an error of politeiad.
RequestFails(r) ==
    /\ req[r].pc \in {"create", "edit", "append"} /\ faults < MaxFaults
    /\ Done(r)
    /\ faults' = faults + 1
    /\ UNCHANGED <<pd, rows, chain, ws, queue, watcher, boot, missed, serial, begun>>

(***************************************************************************)
(* The check of a payment: by the monitor when a message arrives, or at    *)
(* start-up when cmswww looks at the history of the address.               *)
(***************************************************************************)
KeepWatch == UNCHANGED <<chain, req, serial, begun>>

Check(key, pay, atBoot) ==
    watcher' = [pc |-> "save", key |-> key, pay |-> pay, boot |-> atBoot, row |-> NoRow]

Settled(pay, amount) ==
    [pay EXCEPT !.received = amount, !.status = IF amount >= Needed THEN "paid" ELSE @]

\* monitorCMSAddressWatcher receives an address message and checkPayments
\* looks at that transaction alone; when it cannot be fetched the message is
\* gone.
checkPayments ==
    /\ queue # <<>> /\ watcher = Idle /\ boot = {} /\ Monitoring
    /\ serial => Quiet
    /\ LET key == PaymentsByAddress(chain[Head(queue)].address) IN
       \/ /\ Check(key, Settled(Row(key).pay, chain[Head(queue)].amount), FALSE)
          /\ UNCHANGED faults
       \/ /\ faults < MaxFaults /\ faults' = faults + 1
          /\ UNCHANGED watcher
    /\ queue' = Tail(queue)
    /\ UNCHANGED <<pd, rows, ws, boot, missed>> /\ KeepWatch

Received(a, from) ==
    FoldFunction(+, 0, [i \in {j \in 1..Len(chain) : j > from /\ chain[j].address = a} |->
                        chain[i].amount])

\* checkHistoricalPayments adds up what the address received since the
\* approval: nothing, when the explorer cannot be asked.  Nothing happens
\* when that is what the payments row has.
checkHistoricalPayments == \E b \in boot, fails \in BOOLEAN :
    LET got == IF fails THEN 0 ELSE Received(Row(b.key).address, b.pay.started) IN
    /\ watcher = Idle /\ Monitoring
    /\ serial => \A r \in Requests : req[r] = Idle
    /\ fails => faults < MaxFaults
    /\ faults' = IF fails THEN faults + 1 ELSE faults
    /\ boot' = boot \ {b}
    /\ \/ /\ got # b.pay.received
          /\ Check(b.key, Settled(b.pay, got), TRUE)
          /\ UNCHANGED <<ws, missed>>
       \/ /\ got = b.pay.received
          /\ IF b.pay.status = "watching" THEN Subscribe(Row(b.key).address)
             ELSE UNCHANGED <<ws, missed>>
          /\ UNCHANGED watcher
    /\ UNCHANGED <<pd, rows, queue>> /\ KeepWatch

\* updateInvoicePayment: first politeiad, ...
SavePayment ==
    /\ watcher.pc = "save"
    /\ pd' = [pd EXCEPT ![watcher.key[1]].received = watcher.pay.received]
    /\ watcher' = [watcher EXCEPT !.pc = "store"]
    /\ UNCHANGED <<rows, ws, queue, boot, missed, faults>> /\ KeepWatch

\* ... then UpdatePayments.
UpdatePayments ==
    LET k == watcher.key IN
    /\ watcher.pc = "store"
    /\ rows' = [rows EXCEPT ![k[1]][k[2]].pay = watcher.pay]
    /\ \/ /\ watcher.pay.status = "paid"
          /\ watcher' = [watcher EXCEPT !.pc = "mark"]
          /\ UNCHANGED <<ws, missed>>
       \/ /\ watcher.pay.status # "paid"
          /\ watcher' = Idle
          /\ IF watcher.boot THEN Subscribe(Row(k).address) ELSE UNCHANGED <<ws, missed>>
    /\ UNCHANGED <<pd, queue, boot, faults>> /\ KeepWatch

\* invoiceStatusPaid reads the row, tells politeiad, ...
MarkPaid ==
    LET k == watcher.key IN
    /\ watcher.pc = "mark"
    /\ AppendChange(k[1], "paid")
    /\ watcher' = [watcher EXCEPT !.pc = "finish", !.row = Row(k)]
    /\ UNCHANGED <<rows, ws, queue, boot, missed, faults>> /\ KeepWatch

\* ... and writes the row back; the monitor then gives up the address.
invoiceStatusPaid ==
    LET k == watcher.key IN
    /\ watcher.pc = "finish"
    /\ rows' = [rows EXCEPT ![k[1]][k[2]] = [watcher.row EXCEPT !.status = "paid"]]
    /\ watcher' = Idle
    /\ IF watcher.boot THEN UNCHANGED ws ELSE Unsubscribe(Row(k).address)
    /\ UNCHANGED <<pd, queue, boot, missed, faults>> /\ KeepWatch

\* politeiad fails.  checkHistoricalPayments logs that and goes on, and an
\* invoice that could not be marked as paid counts as paid all the same.
WatcherFails ==
    LET a == Row(watcher.key).address IN
    /\ watcher.pc \in {"save", "mark"} /\ faults < MaxFaults
    /\ faults' = faults + 1
    /\ \/ /\ watcher.pc = "save" /\ watcher.boot /\ watcher.pay.status = "paid"
          /\ watcher' = [watcher EXCEPT !.pc = "mark"]
          /\ UNCHANGED <<ws, missed>>
       \/ /\ watcher.pc = "save" /\ watcher.boot /\ watcher.pay.status # "paid"
          /\ watcher' = Idle
          /\ Subscribe(a)
       \/ /\ watcher.pc = "save" /\ ~watcher.boot
          /\ watcher' = Idle
          /\ UNCHANGED <<ws, missed>>
       \/ /\ watcher.pc = "mark"
          /\ watcher' = Idle
          /\ IF watcher.boot THEN UNCHANGED ws ELSE Unsubscribe(a)
          /\ missed' = missed \cup {a}
    /\ UNCHANGED <<pd, rows, queue, boot>> /\ KeepWatch

(***************************************************************************)
(* The connection to dcrdata, and restarts of cmswww.                      *)
(***************************************************************************)
KeepAll == UNCHANGED <<pd, rows, serial, begun>>

\* The treasury pays what an invoice names, in one transaction or in parts.
\* Only an address that the connection subscribed to is announced.
Pay == \E a \in {Row(tv).address : tv \in AllRows}, n \in 1..Needed :
    /\ Len(chain) < MaxTxs
    /\ chain' = Append(chain, [address |-> a, amount |-> n])
    /\ queue' = IF a \in ws.live /\ ws.status = "open" /\ ~ws.dead
                  THEN Append(queue, Len(chain')) ELSE queue
    /\ UNCHANGED <<ws, req, watcher, boot, missed, faults>> /\ KeepAll

Drop ==
    /\ ws.status = "open" /\ ~ws.dead /\ faults < MaxFaults
    /\ ws' = [ws EXCEPT !.dead = TRUE]
    /\ faults' = faults + 1
    /\ UNCHANGED <<chain, queue, req, watcher, boot, missed>> /\ KeepAll

\* The monitor finds the channel closed once it has emptied it, and calls
\* Reconnect.
StartReconnect ==
    /\ ws.dead /\ Monitoring /\ queue = <<>> /\ watcher = Idle /\ boot = {}
    /\ ws' = [ws EXCEPT !.status = "reconnecting", !.prev = ws.subs, !.subs = {}, !.live = {},
                        !.lost = @ \ ws.subs]
    /\ UNCHANGED <<chain, queue, req, watcher, boot, missed, faults>> /\ KeepAll

\* There is a new connection.  What an attempt before this one marked stays
\* marked: it will be skipped, though this connection does not have it.
Connect ==
    /\ ws.status = "reconnecting"
    /\ ws' = [ws EXCEPT !.status = "open", !.dead = FALSE, !.live = {}, !.work = "resubscribe",
                        !.lost = @ \cup ws.subs]
    /\ queue' = <<>>
    /\ UNCHANGED <<chain, req, watcher, boot, missed, faults>> /\ KeepAll

Resubscribe ==
    /\ ws.work = "resubscribe"
    /\ \/ ~ws.dead /\ \E a \in ws.prev \ ws.subs : ws' = AddSub(a)
       \/ /\ ws.prev \subseteq ws.subs
          /\ ws' = [ws EXCEPT !.work = "replay", !.replay = ws.pending]
    /\ UNCHANGED <<chain, queue, req, watcher, boot, missed, faults>> /\ KeepAll

\* Mutant: the pending events are deleted rather than replayed.
ReplayNothing ==
    /\ ws.work = "replay"
    /\ ws' = [ws EXCEPT !.work = "none", !.prev = {}, !.pending = {}, !.replay = {}]
    /\ UNCHANGED <<chain, queue, req, watcher, boot, missed, faults>> /\ KeepAll

\* pendingDel takes with it what was added after pendingGet.
Replay ==
    /\ ws.work = "replay"
    /\ \/ ~ws.dead /\ \E a \in ws.replay \ ws.subs : ws' = AddSub(a)
       \/ /\ ws.replay \subseteq ws.subs
          /\ ws' = [ws EXCEPT !.work = "none", !.prev = {}, !.pending = {}, !.replay = {},
                              !.lost = @ \cup (ws.pending \ ws.replay)]
    /\ UNCHANGED <<chain, queue, req, watcher, boot, missed, faults>> /\ KeepAll

\* One of these subscriptions fails, and Reconnect starts over.
ReconnectFails ==
    /\ ws.work # "none" /\ ~(ws.prev \cup ws.replay \subseteq ws.subs)
    /\ faults < MaxFaults /\ faults' = faults + 1
    /\ ws' = [ws EXCEPT !.status = "reconnecting", !.work = "none", !.replay = {}]
    /\ UNCHANGED <<chain, queue, req, watcher, boot, missed>> /\ KeepAll

\* Payments to look at again at start-up.
restartCMSAddressesWatching(rs) ==
    {[key |-> tv, pay |-> rs[tv[1]][tv[2]].pay] :
        tv \in {x \in Tokens \X Versions :
                   /\ rs[x[1]][x[2]] # NoRow
                   /\ LET p == rs[x[1]][x[2]].pay
                      IN  p.status = "watching" \/ (p.status = "paid" /\ p.received = 0)}}

Restart == \E rebuild \in BOOLEAN :
    /\ faults < MaxFaults
    /\ faults' = faults + 1
    /\ rows' = IF rebuild THEN [t \in Tokens |-> RebuiltRows(t)] ELSE rows
    /\ boot' = restartCMSAddressesWatching(rows')
    /\ ws' = NewClient /\ queue' = <<>> /\ missed' = {}
    /\ req' = [r \in Requests |-> Idle] /\ watcher' = Idle
    /\ UNCHANGED <<pd, chain, serial, begun>>

Request(r) ==
    \/ processNewInvoice(r) \/ processSetInvoiceStatus(r)
    \/ processEditInvoice(r) \/ processPayInvoices(r)

Handle(r) ==
    \/ SaveRecord(r) \/ AppendStatus(r) \/ InsertRow(r) \/ UpdateRow(r)
    \/ addWatchAddress(r) \/ subAdd(r) \/ pendingAdd(r)

Watch ==
    \/ checkPayments \/ checkHistoricalPayments \/ SavePayment
    \/ UpdatePayments \/ MarkPaid \/ invoiceStatusPaid

Next ==
    \/ \E r \in Requests : Request(r) \/ Handle(r) \/ RequestFails(r)
    \/ Watch \/ WatcherFails
    \/ Pay \/ Drop \/ Restart
    \/ StartReconnect \/ Connect \/ Resubscribe \/ Replay \/ ReconnectFails

Spec == Init /\ [][Next]_vars

-----------------------------------------------------------------------------
\* No two invoices had the same address.  Only the latest versions are looked
\* at when an address is checked for duplicates, and PaymentsByAddress takes
\* the payment of one invoice for one of the other.
AddressesApart ==
    \A o, tv \in AllRows : Row(o).address = Row(tv).address => o[1] = tv[1]

\* No invoice has had as many versions as there are digits: text and numbers
\* are in the same order.
SingleDigits == \A t \in Tokens : pd[t].version < Radix

\* When requests do not overlap and nothing fails, the latest row of an
\* invoice and the last status change that politeiad has agree: there is no
\* order of requests and payments that updates one without the other, or a
\* version that is not the latest, unless an address was used again or the
\* numerals of the versions got a second digit.
RowsFollowRecords ==
    serial /\ faults = 0 /\ AddressesApart /\ SingleDigits /\ Quiet =>
        \A t \in Tokens : pd[t].version # 0 =>
            /\ InvoiceByToken(t) = pd[t].version
            /\ rows[t][pd[t].version].status = Last(pd[t].md).status

\* The present connection has the address of an approved invoice whose
\* payment is awaited, or the address waits for the next one, whatever was
\* dropped, reconnected or restarted since.  There are two exceptions: a
\* subscription whose failure was logged, and what Reconnect loses, having
\* marked it on a connection that it gave up or deleted it from the pending
\* events.  The watcher never gives up the address of the latest version
\* otherwise (requests that do not overlap, no address used again, versions
\* of one digit).
ApprovedIsWatched ==
    serial /\ AddressesApart /\ SingleDigits /\ Quiet =>
        \A t \in {x \in Tokens : Stored(x) # {}} :
            LET row == rows[t][InvoiceByToken(t)]
            IN  row.status = "approved" /\ row.pay.status = "watching" =>
                    row.address \in ws.live \cup ws.prev \cup ws.pending \cup missed \cup ws.lost

\* What is paid stays paid: neither an edit, a status change, a payment that
\* arrives late nor a restart takes an invoice out of that status (requests
\* that do not overlap, versions of one digit).
PaidIsFinal ==
    [][serial /\ SingleDigits' => \A t \in Tokens :
          Stored(t) # {} /\ rows[t][InvoiceByToken(t)].status = "paid" =>
              (Stored(t) # {} /\ rows[t][InvoiceByToken(t)].status = "paid")']_vars
=============================================================================
