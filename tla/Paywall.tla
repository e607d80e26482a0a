------------------------------- MODULE Paywall -------------------------------
(***************************************************************************)
(* The registration paywall and the proposal credits of one politeiawww    *)
(* user (politeiawww/legacy: paywall.go, piuser.go, the paywall parts of   *)
(* user.go, records/pi.go and records/process.go).                         *)
(*                                                                         *)
(* The user is one record of the user database, read and written whole.    *)
(* Every request reads it when the session is looked up and writes back    *)
(* the copy it changed, and so does the goroutine that polls the paywall   *)
(* addresses: nothing serialises them.  The in-memory pool of polled       *)
(* paywalls is a third piece of state, guarded by a mutex of its own.      *)
(*                                                                         *)
(* A behaviour is either serial, when the requests and the polls of the    *)
(* user happen not to overlap, or not; the variable serial says which, so  *)
(* that one instance checks what holds always and what needs that.         *)
(*                                                                         *)
(* Amounts are in units of the credit price, which does not change.  The   *)
(* user has verified his email; the paywall is enabled.                    *)
(***************************************************************************)
EXTENDS Integers, Sequences, FiniteSets, SequencesExt

CONSTANTS Requests,        \* the requests that can be in flight at a time
          PollDuration,    \* paywallExpiryDuration
          PageSize,        \* txs of the only page a rescan looks at
          MaxTime, MaxTxs, MaxRequests, MaxRestarts \* bounds

ASSUME PaywallAssumption ==
    /\ IsFiniteSet(Requests)
    /\ PollDuration \in Nat \ {0} /\ PageSize \in Nat \ {0}
    /\ {MaxTime, MaxTxs, MaxRequests, MaxRestarts} \subseteq Nat

NoTx == 0           \* the empty tx ID
Cleared == -1       \* "cleared_by_admin"
Unmined == 0        \* timestamp of a tx that is in no block

VARIABLES
    now,        \* the wall clock
    chain,      \* txs sent to the user's address, oldest first; ID = index
    db,         \* the user record
    pool,       \* the user's entry of userPaywallPool: its type, or "none"
    req,        \* request -> what it is doing and its copy of the user
    poll,       \* the polling goroutine, likewise
    proposals,  \* records that politeiad accepted from the user
    unpaid,     \* how many of them are of requests that failed before they paid
    overwritten,\* whether the record was replaced by a copy without its spent credits
    serial,     \* requests and polls of the user do not overlap
    begun,      \* requests so far
    restarts    \* restarts of politeiawww so far

user == <<db, overwritten>>
submitted == <<proposals, unpaid>>
vars == <<now, chain, user, pool, req, poll, submitted, serial, begun, restarts>>

(***************************************************************************)
(* The user record.                                                        *)
(***************************************************************************)
Has(tx, seq) == \E i \in 1..Len(seq) : seq[i].tx = tx

userHasPaid(u) == u.regTx # NoTx
userHasProposalCredits(u) == u.unspent # <<>>
paywallHasExpired(exp) == now > exp
mostRecentProposalPaywall(u) == Last(u.paywalls)

\* Mutant: a paywall is taken for valid once it has expired.
userHasValidProposalPaywallLate(u) ==
    /\ u.paywalls # <<>>
    /\ mostRecentProposalPaywall(u).tx = NoTx
    /\ paywallHasExpired(mostRecentProposalPaywall(u).exp)

userHasValidProposalPaywall(u) ==
    /\ u.paywalls # <<>>
    /\ mostRecentProposalPaywall(u).tx = NoTx
    /\ ~paywallHasExpired(mostRecentProposalPaywall(u).exp)

\* The credits a payment buys, all of them alike.
NewCredits(id, tx) == [i \in 1..chain[tx].amount |-> [paywall |-> id, tx |-> tx]]

\* The first of these txs that the block explorer lists, newest first.
NewestTx(txs) == IF txs = {} THEN NoTx ELSE Max(txs)

\* fetchTxWithBlockExplorers with the registration paywall of u.
RegistrationTx(u) ==
    NewestTx({t \in 1..Len(chain) : /\ chain[t].ts >= u.notBefore
                                    /\ chain[t].confirmed
                                    /\ chain[t].amount >= u.amount})

\* The tx that verifyProposalPayment stops at; it may be unconfirmed still.
ProposalTx(pp) ==
    NewestTx({t \in 1..Len(chain) : /\ chain[t].ts = Unmined \/ chain[t].ts >= pp.notBefore
                                    /\ chain[t].amount >= 1})

verifyProposalPayment(u) ==
    LET n == Len(u.paywalls)
        t == ProposalTx(u.paywalls[n])
    IN  IF u.paywalls[n].tx # NoTx \/ t = NoTx \/ ~chain[t].confirmed THEN u
        ELSE [u EXCEPT !.paywalls[n].tx = t,
                       !.unspent = @ \o NewCredits(n, t)]

(***************************************************************************)
(* processUserPaymentsRescan: the credits of payments that have none.  The *)
(* explorer is asked for one page only, since the page is converted into a *)
(* slice that already holds as many empty txs, and an empty tx ends the    *)
(* loop.  Paywalls are searched from the oldest.                           *)
(***************************************************************************)
PaymentsNotBefore(u) ==
    {t \in 1..Len(chain) : t > Len(chain) - PageSize /\ chain[t].ts > u.notBefore}

CorrespondingPaywall(u, t) ==
    SelectInSeq(u.paywalls, LAMBDA pp : chain[t].ts > pp.notBefore)

IsPolled(u, i) ==
    i # 0 /\ u.paywalls[i].tx = NoTx /\ ~paywallHasExpired(u.paywalls[i].exp)

MissedPayments(u) ==
    {t \in PaymentsNotBefore(u) :
        /\ t # u.regTx /\ ~Has(t, u.spent) /\ ~Has(t, u.unspent)
        /\ ~IsPolled(u, CorrespondingPaywall(u, t))
        /\ chain[t].confirmed}

RescanCredits(u) ==
    FoldLeft(LAMBDA acc, t : acc \o NewCredits(CorrespondingPaywall(u, t), t), <<>>,
             SetToSortSeq(MissedPayments(u),
                          LAMBDA a, b :
                             \/ chain[a].ts < chain[b].ts
                             \/ chain[a].ts = chain[b].ts /\ a < b))

(***************************************************************************)
(* Requests.                                                               *)
(***************************************************************************)
Idle == [at |-> "idle"]
InFlight == {r \in Requests : req[r] # Idle}
UserIsBusy == InFlight # {} \/ poll # Idle

Step(r, at, u) == req' = [req EXCEPT ![r] = [at |-> at, u |-> u]]
Done(r) == req' = [req EXCEPT ![r] = Idle]
Kept == UNCHANGED <<now, chain, serial, begun, restarts>>

Kinds == {"login", "registration", "paywall", "submit", "rescan", "clear"}

\* GetSessionUser, or the look up of the user an admin names, with the checks
\* of the handler that use nothing else.
Begin(r, kind) ==
    /\ req[r] = Idle
    /\ serial => ~UserIsBusy
    /\ kind = "registration" => ~userHasPaid(db)
    /\ kind = "paywall" => /\ userHasPaid(db)
                           /\ ~userHasValidProposalPaywall(db)
    /\ kind = "submit" => userHasPaid(db) /\ userHasProposalCredits(db)
    /\ begun < MaxRequests /\ begun' = begun + 1
    /\ Step(r, kind, db)
    /\ UNCHANGED <<now, chain, user, pool, poll, submitted, serial, restarts>>

\* The record is replaced by what has become of a copy that was read before.
UserUpdate(read, u) ==
    /\ db' = u
    /\ overwritten' = (overwritten \/ read.spent # db.spent)

\* generateNewUserPaywall for a user that already has an address.
generateNewUserPaywall(u) == [u EXCEPT !.regExp = now + PollDuration]

\* login and createLoginReply.
Login(r) ==
    /\ req[r].at = "login"
    /\ LET u == req[r].u
           renew == ~userHasPaid(u) /\ paywallHasExpired(u.regExp)
       IN  /\ UserUpdate(u, IF renew THEN generateNewUserPaywall(u) ELSE u)
           /\ pool' = IF renew THEN "user" ELSE pool
    /\ Done(r)
    /\ UNCHANGED <<poll, submitted>> /\ Kept

processUserRegistrationPayment(r) ==
    /\ req[r].at = "registration"
    /\ LET u == req[r].u
           t == RegistrationTx(u)
       IN  \/ /\ paywallHasExpired(u.regExp)
              /\ UserUpdate(u, generateNewUserPaywall(u))
              /\ pool' = "user"
           \/ /\ ~paywallHasExpired(u.regExp)
              /\ IF t = NoTx THEN UNCHANGED user
                 ELSE UserUpdate(u, [u EXCEPT !.regTx = t, !.regExp = 0])
              /\ UNCHANGED pool
    /\ Done(r)
    /\ UNCHANGED <<poll, submitted>> /\ Kept

\* processManageUser with UserManageClearUserPaywall.
clearUserPaywall(u) == [u EXCEPT !.regTx = Cleared, !.regExp = 0, !.amount = 0]

ClearUserPaywall(r) ==
    /\ req[r].at = "clear"
    /\ pool' = IF pool = "user" THEN "none" ELSE pool
    /\ UserUpdate(req[r].u, clearUserPaywall(req[r].u))
    /\ Done(r)
    /\ UNCHANGED <<poll, submitted>> /\ Kept

\* processUserProposalPaywall: the new paywall is saved, then polled.
generateProposalPaywall(r) ==
    /\ req[r].at = "paywall"
    /\ UserUpdate(req[r].u, [req[r].u EXCEPT !.paywalls =
           Append(@, [notBefore |-> now, exp |-> now + PollDuration, tx |-> NoTx])])
    /\ Step(r, "pool", db')
    /\ UNCHANGED <<pool, poll, submitted>> /\ Kept

addUserToPaywallPool(r) ==
    /\ req[r].at = "pool"
    /\ pool' = "proposal"
    /\ Done(r)
    /\ UNCHANGED <<user, poll, submitted>> /\ Kept

\* processNew: politeiad accepts the record, then the credit is spent.
RecordNew(r) ==
    /\ req[r].at = "submit"
    /\ proposals' = proposals + 1 /\ UNCHANGED unpaid
    /\ Step(r, "spend", req[r].u)
    /\ UNCHANGED <<user, pool, poll>> /\ Kept

\* Mutant: the user is changed and not saved.
spendProposalCreditUnsaved(r) ==
    /\ req[r].at = "spend"
    /\ Done(r)
    /\ UNCHANGED <<user, pool, poll, submitted>> /\ Kept

spendProposalCredit(r) ==
    /\ req[r].at = "spend"
    /\ LET u == req[r].u
       IN  UserUpdate(u, [u EXCEPT !.spent = Append(@, Head(u.unspent)),
                                   !.unspent = Tail(@)])
    /\ Done(r)
    /\ UNCHANGED <<pool, poll, submitted>> /\ Kept

\* politeiad has the record, and the request fails: the reply is lost or cannot be
\* converted, or the update of the user fails.
processNewError(r) ==
    /\ req[r].at = "spend"
    /\ unpaid' = unpaid + 1 /\ UNCHANGED proposals
    /\ Done(r)
    /\ UNCHANGED <<user, pool, poll>> /\ Kept

\* The rescan fetches the txs, looks the user up again and adds the credits.
RescanFetch(r) ==
    /\ req[r].at = "rescan"
    /\ LET c == RescanCredits(req[r].u)
       IN  Step(r, "credit", [db EXCEPT !.unspent = @ \o c])
    /\ UNCHANGED <<user, pool, poll, submitted>> /\ Kept

RescanUpdate(r) ==
    /\ req[r].at = "credit"
    /\ UserUpdate(req[r].u, req[r].u)
    /\ Done(r)
    /\ UNCHANGED <<pool, poll, submitted>> /\ Kept

(***************************************************************************)
(* checkForPayments.  One round copies the pool, checks the user under the *)
(* type that his entry had then, and removes the entry if it is done.      *)
(***************************************************************************)
PollStep(type, at, u) == poll' = [type |-> type, at |-> at, u |-> u]

\* createUserPaywallPoolCopy.
PoolCopy ==
    /\ poll = Idle /\ pool # "none"
    /\ serial => InFlight = {}
    /\ PollStep(pool, "get", db)
    /\ UNCHANGED <<user, pool, req, submitted>> /\ Kept

Polling(type, at) == poll # Idle /\ poll.type = type /\ poll.at = at

\* checkForUserPayments: look up, then the explorer and the update.
UserPaymentsGet ==
    /\ Polling("user", "get")
    /\ PollStep("user",
                IF userHasPaid(db) \/ paywallHasExpired(db.regExp) THEN "remove" ELSE "fetch",
                db)
    /\ UNCHANGED <<user, pool, req, submitted>> /\ Kept

UserPaymentsFetch ==
    /\ Polling("user", "fetch")
    /\ LET t == RegistrationTx(poll.u)
       IN  IF t = NoTx THEN poll' = Idle /\ UNCHANGED user
           ELSE /\ UserUpdate(poll.u, [poll.u EXCEPT !.regTx = t, !.regExp = 0])
                /\ PollStep("user", "remove", db')
    /\ UNCHANGED <<pool, req, submitted>> /\ Kept

\* checkForProposalPayments, likewise.
ProposalPaymentsGet ==
    /\ Polling("proposal", "get")
    /\ IF db.paywalls = <<>> THEN poll' = Idle
       ELSE PollStep("proposal",
                     IF paywallHasExpired(mostRecentProposalPaywall(db).exp)
                     THEN "remove" ELSE "fetch", db)
    /\ UNCHANGED <<user, pool, req, submitted>> /\ Kept

ProposalPaymentsFetch ==
    /\ Polling("proposal", "fetch")
    /\ LET u == verifyProposalPayment(poll.u)
           pending == /\ u = poll.u
                      /\ mostRecentProposalPaywall(u).tx = NoTx
                      /\ ProposalTx(mostRecentProposalPaywall(u)) # NoTx
       IN  /\ IF u = poll.u THEN UNCHANGED user ELSE UserUpdate(poll.u, u)
           /\ IF ~userHasValidProposalPaywall(u)
              THEN PollStep("proposal", "remove", u) /\ UNCHANGED pool
              ELSE poll' = Idle /\ pool' = IF pending THEN "proposal" ELSE pool
    /\ UNCHANGED <<req, submitted>> /\ Kept

\* Mutant: the type of the registration paywall whatever was polled.
removeUsersFromPoolUser ==
    /\ poll # Idle /\ poll.at = "remove"
    /\ pool' = IF pool = "user" THEN "none" ELSE pool
    /\ poll' = Idle
    /\ UNCHANGED <<user, req, submitted>> /\ Kept

\* removeUsersFromPool, with the type that was polled.
removeUsersFromPool ==
    /\ poll # Idle /\ poll.at = "remove"
    /\ pool' = IF pool = poll.type THEN "none" ELSE pool
    /\ poll' = Idle
    /\ UNCHANGED <<user, req, submitted>> /\ Kept

\* Mutant: users that have paid their registration are skipped first.
InitialPoolPaidFirst(u) ==
    IF userHasPaid(u) \/ paywallHasExpired(u.regExp) THEN "none"
    ELSE IF userHasValidProposalPaywall(u) THEN "proposal"
    ELSE "user"

\* addUsersToPaywallPool, when politeiawww starts.
InitialPool(u) ==
    IF userHasValidProposalPaywall(u) THEN "proposal"
    ELSE IF userHasPaid(u) \/ paywallHasExpired(u.regExp) THEN "none"
    ELSE "user"

\* The requests whose record politeiad has, and whose credit is still to be spent.
Spending == {r \in Requests : req[r].at = "spend"}

\* politeiawww dies, whatever it is doing, and is started again.
Restart ==
    /\ restarts < MaxRestarts /\ restarts' = restarts + 1
    /\ req' = [r \in Requests |-> Idle] /\ poll' = Idle
    /\ pool' = InitialPool(db)
    /\ unpaid' = unpaid + Cardinality(Spending)
    /\ UNCHANGED <<now, chain, user, proposals, serial, begun>>

(***************************************************************************)
(* The world: time and the block chain.                                    *)
(***************************************************************************)
World == UNCHANGED <<user, pool, req, poll, submitted, serial, begun, restarts>>

Tick == now < MaxTime /\ now' = now + 1 /\ UNCHANGED chain /\ World

SendTx ==
    /\ Len(chain) < MaxTxs
    /\ chain' = Append(chain, [ts |-> Unmined, amount |-> 1, confirmed |-> FALSE])
    /\ UNCHANGED now /\ World

MineTx(t) ==
    /\ chain[t].ts = Unmined
    /\ chain' = [chain EXCEPT ![t].ts = now]
    /\ UNCHANGED now /\ World

\* The tx gets MinConfirmationsRequired confirmations.
ConfirmTx(t) ==
    /\ chain[t].ts # Unmined /\ ~chain[t].confirmed /\ chain[t].ts < now
    /\ chain' = [chain EXCEPT ![t].confirmed = TRUE]
    /\ UNCHANGED now /\ World

NewUser == [regTx |-> NoTx, amount |-> 1, notBefore |-> 1, regExp |-> 1 + PollDuration,
            paywalls |-> <<>>, unspent |-> <<>>, spent |-> <<>>]

\* The user has just verified his email, or an admin has cleared his paywall.
Init ==
    /\ now = 1 /\ chain = <<>> /\ begun = 0 /\ restarts = 0
    /\ proposals = 0 /\ unpaid = 0 /\ overwritten = FALSE
    /\ \/ db = NewUser /\ pool = "user"
       \/ db = clearUserPaywall(NewUser) /\ pool = "none"
    /\ req = [r \in Requests |-> Idle] /\ poll = Idle
    /\ serial \in BOOLEAN

Handle(r) ==
    \/ Login(r) \/ processUserRegistrationPayment(r) \/ ClearUserPaywall(r)
    \/ generateProposalPaywall(r) \/ addUserToPaywallPool(r)
    \/ RecordNew(r) \/ spendProposalCredit(r) \/ processNewError(r)
    \/ RescanFetch(r) \/ RescanUpdate(r)

checkForPayments ==
    \/ PoolCopy \/ UserPaymentsGet \/ UserPaymentsFetch
    \/ ProposalPaymentsGet \/ ProposalPaymentsFetch \/ removeUsersFromPool

Next ==
    \/ \E r \in Requests, kind \in Kinds : Begin(r, kind)
    \/ \E r \in Requests : Handle(r)
    \/ checkForPayments
    \/ Restart
    \/ Tick \/ SendTx \/ \E t \in 1..Len(chain) : MineTx(t) \/ ConfirmTx(t)

Fairness == WF_vars(checkForPayments) /\ \A r \in Requests : WF_vars(Handle(r))

Spec == Init /\ [][Next]_vars /\ Fairness

(***************************************************************************)
(* Properties.                                                             *)
(***************************************************************************)

\* "Only one paywall per user can be valid at a time" (paywall.go, the comment
\* of userHasValidProposalPaywall), and it is the most recent one: an older
\* paywall is paid or has expired, whatever requests and polls overlap and
\* overwrite each other's copy of the user.
OnlyLastPaywallIsValid ==
    \A i \in 1..(Len(db.paywalls) - 1) :
        db.paywalls[i].tx # NoTx \/ paywallHasExpired(db.paywalls[i].exp)

\* A proposal costs a credit (processNew "spends" one for every record that politeiad
\* accepts).  A record without a spent credit is one whose request is about to spend it,
\* or failed or was killed before it did, whatever requests and polls overlap, until one
\* of them writes back a copy of the user that lacks a spent credit.  No overlap makes
\* a user pay more credits than he has proposals.
ProposalsCostACredit ==
    /\ Len(db.spent) <= proposals
    /\ ~overwritten => proposals = Len(db.spent) + unpaid + Cardinality(Spending)

\* A paywall that the user may still pay is in the pool, after restarts too,
\* when requests and polls of the user do not overlap.
ValidPaywallIsPolled ==
    serial /\ ~UserIsBusy /\ userHasValidProposalPaywall(db) => pool = "proposal"

\* The poll lets go of a paywall that has been paid or has expired, unless the
\* record of the user has lost it altogether.
PollingStops ==
    ~serial /\ pool = "proposal" /\ db.paywalls # <<>> /\ ~userHasValidProposalPaywall(db)
    ~> pool # "proposal" \/ db.paywalls = <<>> \/ userHasValidProposalPaywall(db)

==============================================================================
