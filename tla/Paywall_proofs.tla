--------------------------- MODULE Paywall_proofs ---------------------------
(***************************************************************************)
(* Proofs about Paywall, for any number of concurrent requests, payments    *)
(* and restarts.                                                            *)
(***************************************************************************)
EXTENDS Paywall, FiniteSetTheorems, TLAPS

USE DEF user, submitted

-----------------------------------------------------------------------------
(* The inductive invariant. *)

\* What can be the tx of a paywall.
TxIDs == {NoTx} \cup {NewestTx(T) : T \in SUBSET Int}
ProposalPaywall == [notBefore : Nat, exp : Nat, tx : TxIDs]
ProposalPaywalls == Seq(ProposalPaywall)

\* A user record, of which the proposal paywalls are looked at.
UserLike(u) ==
    [regTx |-> u.regTx, amount |-> u.amount, notBefore |-> u.notBefore,
     regExp |-> u.regExp, paywalls |-> u.paywalls, unspent |-> u.unspent,
     spent |-> u.spent]
IsUser(u) == u = UserLike(u) /\ u.paywalls \in ProposalPaywalls

\* Whether a paywall can no longer be paid at a time, and OnlyLastPaywallIsValid of
\* any copy of the user record.
NotValid(pp, t) == pp.tx # NoTx \/ t > pp.exp
UserOk(u, t) ==
    IsUser(u) /\ \A i \in 1..(Len(u.paywalls) - 1) : NotValid(u.paywalls[i], t)

\* A request for a new paywall is let through when its copy of the user has none
\* that is valid.
NeedsPaywall(u, t) == u.paywalls # <<>> => NotValid(u.paywalls[Len(u.paywalls)], t)

\* A request or a poll writes its copy back, so all copies are alike.
RequestOk(q, t) ==
    q # Idle => UserOk(q.u, t) /\ (q.at = "paywall" => NeedsPaywall(q.u, t))
PollOk(p, t) == p # Idle => UserOk(p.u, t)

PInv ==
    /\ now \in Nat
    /\ UserOk(db, now)
    /\ req = [r \in Requests |-> req[r]]
    /\ \A r \in Requests : RequestOk(req[r], now)
    /\ PollOk(poll, now)

-----------------------------------------------------------------------------
(* User records. *)

LEMMA PaywallTypes ==
  ASSUME NEW u, IsUser(u)
  PROVE  /\ Len(u.paywalls) \in Nat /\ DOMAIN u.paywalls = 1..Len(u.paywalls)
         /\ \A i \in 1..Len(u.paywalls) : u.paywalls[i].exp \in Nat
<1>1. \A i \in 1..Len(u.paywalls) : u.paywalls[i] \in ProposalPaywall
  BY DEF IsUser, ProposalPaywalls
<1> QED
  BY <1>1 DEF IsUser, ProposalPaywalls, ProposalPaywall

\* Time does not make a paywall valid.
LEMMA TimePasses ==
  ASSUME NEW t \in Nat, NEW s \in Nat, t <= s
  PROVE  /\ \A u : UserOk(u, t) => UserOk(u, s)
         /\ \A q : RequestOk(q, t) => RequestOk(q, s)
         /\ \A p : PollOk(p, t) => PollOk(p, s)
<1>1. ASSUME NEW u, IsUser(u), NEW i \in 1..Len(u.paywalls), NotValid(u.paywalls[i], t)
      PROVE  NotValid(u.paywalls[i], s)
  BY <1>1, PaywallTypes DEF NotValid
<1>2. ASSUME NEW u, UserOk(u, t)
      PROVE  UserOk(u, s)
  <2>1. \A i \in 1..(Len(u.paywalls) - 1) : i \in 1..Len(u.paywalls)
    BY <1>2, PaywallTypes DEF UserOk
  <2> QED
    BY <1>1, <1>2, <2>1 DEF UserOk
<1>3. ASSUME NEW u, IsUser(u), NeedsPaywall(u, t)
      PROVE  NeedsPaywall(u, s)
  <2>1. u.paywalls # <<>> => Len(u.paywalls) \in 1..Len(u.paywalls)
    BY <1>3 DEF IsUser, ProposalPaywalls
  <2> QED
    BY <1>1, <1>3, <2>1 DEF NeedsPaywall
<1> QED
  BY <1>2, <1>3 DEF UserOk, RequestOk, PollOk

\* Changes of the other fields.
LEMMA OtherFields ==
  ASSUME NEW u, NEW t, UserOk(u, t), NEW v, NEW x, NEW y, NEW z,
         \/ v = [u EXCEPT !.regExp = x]
         \/ v = [u EXCEPT !.regTx = x, !.regExp = y]
         \/ v = [u EXCEPT !.regTx = x, !.regExp = y, !.amount = z]
         \/ v = [u EXCEPT !.unspent = x]
         \/ v = [u EXCEPT !.spent = x, !.unspent = y]
  PROVE  UserOk(v, t)
<1>1. u = UserLike(u)
  BY DEF UserOk, IsUser
<1>2. v.paywalls = u.paywalls /\ v = UserLike(v)
  <2>1. CASE v = [u EXCEPT !.regExp = x]
    BY <2>1, <1>1 DEF UserLike
  <2>2. CASE v = [u EXCEPT !.regTx = x, !.regExp = y]
    BY <2>2, <1>1 DEF UserLike
  <2>3. CASE v = [u EXCEPT !.regTx = x, !.regExp = y, !.amount = z]
    BY <2>3, <1>1 DEF UserLike
  <2>4. CASE v = [u EXCEPT !.unspent = x]
    BY <2>4, <1>1 DEF UserLike
  <2>5. CASE v = [u EXCEPT !.spent = x, !.unspent = y]
    BY <2>5, <1>1 DEF UserLike
  <2> QED
    BY <2>1, <2>2, <2>3, <2>4, <2>5
<1> QED
  BY <1>2 DEF UserOk, IsUser

\* verifyProposalPayment pays the last paywall.
LEMMA VerifyKeeps ==
  ASSUME NEW u, NEW s, UserOk(u, s)
  PROVE  UserOk(verifyProposalPayment(u), s)
<1> DEFINE n == Len(u.paywalls)
           t == ProposalTx(u.paywalls[n])
           v == verifyProposalPayment(u)
<1> SUFFICES UserOk(v, s)
  OBVIOUS
<1>1. CASE v = u
  BY <1>1
<1>2. CASE v # u
  <2>1. v = [u EXCEPT !.paywalls[n].tx = t, !.unspent = @ \o NewCredits(n, t)]
    BY <1>2 DEF verifyProposalPayment
  <2>2. v.paywalls = [u.paywalls EXCEPT ![n].tx = t]
    BY <2>1 DEF UserOk, IsUser, UserLike
  <2>3. t \in TxIDs
    <3> DEFINE T == {i \in 1..Len(chain) :
                       /\ chain[i].ts = Unmined \/ chain[i].ts >= u.paywalls[n].notBefore
                       /\ chain[i].amount >= 1}
    <3>1. T \in SUBSET Int
      OBVIOUS
    <3>2. t = NewestTx(T)
      BY DEF ProposalTx
    <3> HIDE DEF T, t
    <3> QED
      BY <3>1, <3>2 DEF TxIDs
  <2>4. u.paywalls \in ProposalPaywalls
    BY DEF UserOk, IsUser, UserLike
  <2>5. v = UserLike(v)
    BY <2>1 DEF UserOk, IsUser, UserLike
  <2> HIDE DEF v, t
  <2>6. v.paywalls \in ProposalPaywalls /\ Len(v.paywalls) = n
    <3>1. \A i \in 1..n : u.paywalls[i] \in ProposalPaywall
      BY <2>4 DEF ProposalPaywalls
    <3>2. \A i \in 1..n : [u.paywalls[i] EXCEPT !.tx = t] \in ProposalPaywall
      BY <2>3, <3>1 DEF ProposalPaywall
    <3>3. n \in Nat /\ DOMAIN u.paywalls = 1..n
      BY <2>4 DEF ProposalPaywalls
    <3> HIDE DEF n
    <3>4. v.paywalls = [i \in 1..n |-> IF i = n THEN [u.paywalls[i] EXCEPT !.tx = t]
                                               ELSE u.paywalls[i]]
      BY <2>2, <3>3
    <3>5. v.paywalls \in [1..n -> ProposalPaywall]
      BY <3>1, <3>2, <3>4
    <3> QED
      BY <3>3, <3>5 DEF ProposalPaywalls
  <2>7. \A i \in 1..(n - 1) : v.paywalls[i] = u.paywalls[i]
    BY <2>2, <2>4 DEF ProposalPaywalls
  <2> QED
    BY <2>5, <2>6, <2>7 DEF UserOk, IsUser
<1> QED
  BY <1>1, <1>2

\* A new paywall follows one that is not valid.
LEMMA NewPaywallKeeps ==
  ASSUME NEW u, NEW t \in Nat, UserOk(u, t), NeedsPaywall(u, t),
         NEW v, v = [u EXCEPT !.paywalls =
                Append(@, [notBefore |-> t, exp |-> t + PollDuration, tx |-> NoTx])]
  PROVE  UserOk(v, t)
<1> DEFINE n == Len(u.paywalls)
           pp == [notBefore |-> t, exp |-> t + PollDuration, tx |-> NoTx]
<1>1. v.paywalls = Append(u.paywalls, pp) /\ v = UserLike(v)
  BY DEF UserOk, IsUser, UserLike
<1>2. u.paywalls \in ProposalPaywalls
  BY DEF UserOk, IsUser
<1>3. pp \in ProposalPaywall
  BY PaywallAssumption DEF TxIDs, ProposalPaywall
<1> HIDE DEF pp
<1>4. /\ v.paywalls \in ProposalPaywalls /\ Len(v.paywalls) = n + 1 /\ n \in Nat
      /\ \A i \in 1..n : v.paywalls[i] = u.paywalls[i]
  BY <1>1, <1>2, <1>3 DEF ProposalPaywalls
<1>5. n # 0 => NotValid(u.paywalls[n], t)
  BY <1>2 DEF NeedsPaywall, ProposalPaywalls
<1>6. \A i \in 1..(Len(v.paywalls) - 1) : NotValid(v.paywalls[i], t)
  BY <1>4, <1>5 DEF UserOk
<1> QED
  BY <1>1, <1>4, <1>6 DEF UserOk, IsUser

-----------------------------------------------------------------------------
(* Steps. *)

\* A step of a request at a time.
LEMMA RequestSteps ==
  ASSUME PInv, NEW r \in Requests, NEW q, req' = [req EXCEPT ![r] = q],
         RequestOk(q, now), now' = now, UserOk(db', now), poll' = poll
  PROVE  PInv'
<1>1. req' = [x \in Requests |-> req'[x]]
  BY DEF PInv
<1>2. \A x \in Requests : RequestOk(req'[x], now)
  BY DEF PInv
<1> QED
  BY <1>1, <1>2 DEF PInv

\* A step of the poll at a time.
LEMMA PollSteps ==
  ASSUME PInv, req' = req, now' = now, UserOk(db', now), PollOk(poll', now)
  PROVE  PInv'
BY DEF PInv

LEMMA NotValidPaywall ==
  ASSUME NEW u, UserOk(u, now), ~userHasValidProposalPaywall(u)
  PROVE  NeedsPaywall(u, now)
BY DEF UserOk, IsUser, ProposalPaywalls, NeedsPaywall, NotValid, paywallHasExpired,
       userHasValidProposalPaywall, mostRecentProposalPaywall, Last

LEMMA BeginStep ==
  ASSUME PInv, NEW r \in Requests, NEW kind, Begin(r, kind)
  PROVE  PInv'
<1> DEFINE q == [at |-> kind, u |-> db]
<1>1. UserOk(db, now)
  BY DEF PInv
<1>2. kind = "paywall" => NeedsPaywall(db, now)
  BY <1>1, NotValidPaywall DEF Begin
<1>3. RequestOk(q, now)
  BY <1>1, <1>2 DEF RequestOk
<1>4. req' = [req EXCEPT ![r] = q] /\ now' = now /\ db' = db /\ poll' = poll
  BY DEF Begin, Step
<1> HIDE DEF q
<1> QED
  BY <1>1, <1>3, <1>4, RequestSteps

\* The copy that a request holds.
LEMMA CopyOk ==
  ASSUME PInv, NEW r \in Requests, req[r].at # "idle"
  PROVE  /\ UserOk(req[r].u, now) /\ UserOk(db, now) /\ now \in Nat
         /\ req[r].at = "paywall" => NeedsPaywall(req[r].u, now)
BY DEF PInv, RequestOk, Idle

\* A request that ends: it has written a user record, or none.
LEMMA RequestEnds ==
  ASSUME PInv, NEW r \in Requests, Done(r), now' = now, poll' = poll, UserOk(db', now)
  PROVE  PInv'
<1>1. RequestOk(Idle, now)
  BY DEF RequestOk
<1> QED
  BY <1>1, RequestSteps DEF Done

LEMMA LoginSteps ==
  ASSUME PInv, NEW r \in Requests,
         \/ Login(r) \/ processUserRegistrationPayment(r) \/ ClearUserPaywall(r)
  PROVE  PInv'
<1>1. req[r].at # "idle" /\ Done(r) /\ poll' = poll /\ now' = now
  BY DEF Login, processUserRegistrationPayment, ClearUserPaywall, Kept
<1> DEFINE u == req[r].u
<1>2. UserOk(u, now) /\ UserOk(db, now)
  BY <1>1, CopyOk
<1>3. UserOk(generateNewUserPaywall(u), now)
  BY <1>2, OtherFields DEF generateNewUserPaywall
<1>4. UserOk(clearUserPaywall(u), now)
  BY <1>2, OtherFields DEF clearUserPaywall
<1>5. ASSUME NEW t
      PROVE  UserOk([u EXCEPT !.regTx = t, !.regExp = 0], now)
  BY <1>2, OtherFields
<1>6. UserOk(db', now)
  <2>1. CASE Login(r)
    BY <2>1, <1>2, <1>3 DEF Login, UserUpdate
  <2>2. CASE processUserRegistrationPayment(r)
    BY <2>2, <1>2, <1>3, <1>5 DEF processUserRegistrationPayment, UserUpdate
  <2>3. CASE ClearUserPaywall(r)
    BY <2>3, <1>4 DEF ClearUserPaywall, UserUpdate
  <2> QED
    BY <2>1, <2>2, <2>3
<1> QED
  BY <1>1, <1>6, RequestEnds

LEMMA PaywallSteps ==
  ASSUME PInv, NEW r \in Requests, generateProposalPaywall(r) \/ addUserToPaywallPool(r)
  PROVE  PInv'
<1>1. CASE generateProposalPaywall(r)
  <2> DEFINE v == [req[r].u EXCEPT !.paywalls =
                Append(@, [notBefore |-> now, exp |-> now + PollDuration, tx |-> NoTx])]
             q == [at |-> "pool", u |-> v]
  <2>1. /\ req[r].at = "paywall" /\ db' = v
        /\ req' = [req EXCEPT ![r] = q] /\ poll' = poll /\ now' = now
    BY <1>1 DEF generateProposalPaywall, UserUpdate, Step, Kept
  <2>2. UserOk(req[r].u, now) /\ NeedsPaywall(req[r].u, now) /\ now \in Nat
    BY <2>1, CopyOk
  <2>3. UserOk(v, now)
    BY <2>2, NewPaywallKeeps
  <2> HIDE DEF v
  <2>4. RequestOk(q, now)
    BY <2>3 DEF RequestOk
  <2> HIDE DEF q
  <2> QED
    BY <2>1, <2>3, <2>4, RequestSteps
<1>2. CASE addUserToPaywallPool(r)
  <2>1. req[r].at # "idle" /\ Done(r) /\ db' = db /\ poll' = poll /\ now' = now
    BY <1>2 DEF addUserToPaywallPool, Kept
  <2> QED
    BY <2>1, CopyOk, RequestEnds
<1> QED
  BY <1>1, <1>2

LEMMA SubmitSteps ==
  ASSUME PInv, NEW r \in Requests, RecordNew(r) \/ spendProposalCredit(r) \/ processNewError(r)
  PROVE  PInv'
<1>1. CASE RecordNew(r)
  <2> DEFINE q == [at |-> "spend", u |-> req[r].u]
  <2>1. /\ req[r].at # "idle" /\ db' = db
        /\ req' = [req EXCEPT ![r] = q] /\ poll' = poll /\ now' = now
    BY <1>1 DEF RecordNew, Step, Kept
  <2>2. RequestOk(q, now) /\ UserOk(db, now)
    BY <2>1, CopyOk DEF RequestOk
  <2> HIDE DEF q
  <2> QED
    BY <2>1, <2>2, RequestSteps
<1>2. CASE spendProposalCredit(r)
  <2> DEFINE u == req[r].u
  <2>1. /\ req[r].at # "idle" /\ Done(r) /\ poll' = poll /\ now' = now
        /\ db' = [u EXCEPT !.spent = Append(@, Head(u.unspent)), !.unspent = Tail(@)]
    BY <1>2 DEF spendProposalCredit, UserUpdate, Kept
  <2>2. UserOk(u, now)
    BY <2>1, CopyOk
  <2> HIDE DEF u
  <2>3. db' = [u EXCEPT !.spent = Append(u.spent, Head(u.unspent)), !.unspent = Tail(u.unspent)]
    BY <2>1
  <2>4. UserOk(db', now)
    BY <2>2, <2>3, OtherFields
  <2> QED
    BY <2>1, <2>4, RequestEnds
<1>3. CASE processNewError(r)
  <2>1. req[r].at # "idle" /\ Done(r) /\ db' = db /\ poll' = poll /\ now' = now
    BY <1>3 DEF processNewError, Kept
  <2> QED
    BY <2>1, CopyOk, RequestEnds
<1> QED
  BY <1>1, <1>2, <1>3

LEMMA RescanSteps ==
  ASSUME PInv, NEW r \in Requests, RescanFetch(r) \/ RescanUpdate(r)
  PROVE  PInv'
<1>1. CASE RescanFetch(r)
  <2> DEFINE c == RescanCredits(req[r].u)
             v == [db EXCEPT !.unspent = @ \o c]
             q == [at |-> "credit", u |-> v]
  <2>1. /\ req[r].at # "idle" /\ db' = db
        /\ req' = [req EXCEPT ![r] = q] /\ poll' = poll /\ now' = now
    BY <1>1 DEF RescanFetch, Step, Kept
  <2>2. UserOk(db, now)
    BY <2>1, CopyOk
  <2> HIDE DEF c
  <2>3. v = [db EXCEPT !.unspent = db.unspent \o c]
    OBVIOUS
  <2> HIDE DEF v
  <2>4. UserOk(v, now)
    BY <2>2, <2>3, OtherFields
  <2>5. RequestOk(q, now)
    BY <2>4 DEF RequestOk
  <2> HIDE DEF q
  <2> QED
    BY <2>1, <2>2, <2>5, RequestSteps
<1>2. CASE RescanUpdate(r)
  <2>1. req[r].at # "idle" /\ Done(r) /\ db' = req[r].u /\ poll' = poll /\ now' = now
    BY <1>2 DEF RescanUpdate, UserUpdate, Kept
  <2>2. UserOk(db', now)
    BY <2>1, CopyOk
  <2> QED
    BY <2>1, <2>2, RequestEnds
<1> QED
  BY <1>1, <1>2

LEMMA PollingSteps ==
  ASSUME PInv, checkForPayments
  PROVE  PInv'
<1>1. UserOk(db, now)
  BY DEF PInv
<1>2. poll # Idle => UserOk(poll.u, now)
  BY DEF PInv, PollOk
<1>3. ASSUME NEW type, NEW at, NEW u, UserOk(u, now), PollStep(type, at, u)
      PROVE  PollOk(poll', now)
  BY <1>3 DEF PollStep, PollOk
<1>4. PollOk(Idle, now)
  BY DEF PollOk
<1>5. CASE PoolCopy \/ UserPaymentsGet \/ ProposalPaymentsGet \/ removeUsersFromPool
  <2>1. db' = db /\ req' = req /\ now' = now
    BY <1>5 DEF PoolCopy, UserPaymentsGet, ProposalPaymentsGet, removeUsersFromPool, Kept
  <2>2. poll' = Idle \/ \E type, at : PollStep(type, at, db)
    BY <1>5, Zenon DEF PoolCopy, UserPaymentsGet, ProposalPaymentsGet, removeUsersFromPool
  <2>3. PollOk(poll', now)
    BY <1>1, <1>3, <1>4, <2>2
  <2> QED
    BY <1>1, <2>1, <2>3, PollSteps
<1>6. CASE UserPaymentsFetch
  <2> DEFINE t == RegistrationTx(poll.u)
             u == poll.u
  <2>1. UserOk(u, now)
    BY <1>2, <1>6 DEF UserPaymentsFetch, Polling
  <2>2. /\ db' = IF t = NoTx THEN db ELSE [u EXCEPT !.regTx = t, !.regExp = 0]
        /\ IF t = NoTx THEN poll' = Idle ELSE PollStep("user", "remove", db')
        /\ req' = req /\ now' = now
    BY <1>6 DEF UserPaymentsFetch, UserUpdate, Kept
  <2> HIDE DEF t, u
  <2>3. UserOk(db', now)
    BY <1>1, <2>1, <2>2, OtherFields
  <2>4. PollOk(poll', now)
    BY <1>4, <2>2, <2>3 DEF PollStep, PollOk
  <2> QED
    BY <2>2, <2>3, <2>4, PollSteps
<1>7. CASE ProposalPaymentsFetch
  <2> DEFINE u == verifyProposalPayment(poll.u)
  <2>1. UserOk(u, now)
    BY <1>2, <1>7, VerifyKeeps DEF ProposalPaymentsFetch, Polling
  <2>2. /\ db' = u \/ db' = db
        /\ PollStep("proposal", "remove", u) \/ poll' = Idle
        /\ req' = req /\ now' = now
    BY <1>7 DEF ProposalPaymentsFetch, UserUpdate, Kept
  <2> HIDE DEF u
  <2>3. UserOk(db', now) /\ PollOk(poll', now)
    BY <1>1, <1>3, <1>4, <2>1, <2>2
  <2> QED
    BY <2>2, <2>3, PollSteps
<1> QED
  BY <1>5, <1>6, <1>7 DEF checkForPayments

LEMMA OtherSteps ==
  ASSUME PInv, \/ Restart \/ Tick \/ SendTx
               \/ \E t \in 1..Len(chain) : MineTx(t) \/ ConfirmTx(t)
               \/ UNCHANGED vars
  PROVE  PInv'
<1>1. CASE Restart
  <2>1. /\ req' = [r \in Requests |-> Idle] /\ poll' = Idle /\ db' = db /\ now' = now
    BY <1>1 DEF Restart
  <2> QED
    BY <2>1 DEF PInv, RequestOk, PollOk
<1>2. CASE Tick
  <2>1. db' = db /\ req' = req /\ poll' = poll /\ now' = now + 1
    BY <1>2 DEF Tick, World
  <2>2. now \in Nat /\ now' \in Nat /\ now <= now'
    BY <2>1 DEF PInv
  <2>3. /\ \A u : UserOk(u, now) => UserOk(u, now')
        /\ \A q : RequestOk(q, now) => RequestOk(q, now')
        /\ \A p : PollOk(p, now) => PollOk(p, now')
    BY <2>2, TimePasses
  <2> QED
    BY <2>1, <2>2, <2>3 DEF PInv
<1>3. CASE SendTx \/ (\E t \in 1..Len(chain) : MineTx(t) \/ ConfirmTx(t)) \/ UNCHANGED vars
  <2>1. db' = db /\ req' = req /\ poll' = poll /\ now' = now
    BY <1>3 DEF SendTx, MineTx, ConfirmTx, World, vars
  <2> QED
    BY <2>1 DEF PInv
<1> QED
  BY <1>1, <1>2, <1>3

\* The invariant is inductive.
LEMMA InitInv == Init => PInv
<1> SUFFICES ASSUME Init PROVE PInv
  OBVIOUS
<1>1. /\ now = 1 /\ req = [r \in Requests |-> Idle] /\ poll = Idle
      /\ db = NewUser \/ db = clearUserPaywall(NewUser)
  BY DEF Init
<1>2. UserOk(NewUser, 1)
  BY DEF NewUser, UserOk, IsUser, UserLike, ProposalPaywalls
<1>3. UserOk(clearUserPaywall(NewUser), 1)
  BY <1>2, OtherFields DEF clearUserPaywall
<1> QED
  BY <1>1, <1>2, <1>3 DEF PInv, RequestOk, PollOk

LEMMA NextStep == PInv /\ [Next]_vars => PInv'
<1> SUFFICES ASSUME PInv, [Next]_vars PROVE PInv'
  OBVIOUS
<1>1. ASSUME NEW r \in Requests, Handle(r)
      PROVE  PInv'
  BY <1>1, LoginSteps, PaywallSteps, SubmitSteps, RescanSteps DEF Handle
<1> QED
  BY <1>1, BeginStep, PollingSteps, OtherSteps DEF Next

\* A paywall that is not the most recent one is paid or has expired: in the user
\* database and in every copy of the user, however requests and polls overlap.
THEOREM CopiesAreSound == Spec => []PInv
<1> QED
  BY InitInv, NextStep, PTL DEF Spec

\* userHasValidProposalPaywall only looks at the most recent paywall, and misses none
\* that is valid.
THEOREM OnlyLastPaywallValid == Spec => []OnlyLastPaywallIsValid
<1>1. PInv => OnlyLastPaywallIsValid
  BY DEF PInv, UserOk, NotValid, OnlyLastPaywallIsValid, paywallHasExpired
<1> QED
  BY <1>1, CopiesAreSound, PTL

-----------------------------------------------------------------------------
(* Behaviours in which the requests and polls of the user do not overlap.   *)

\* Whether the last paywall of a user can be paid at a time.
PayableAt(u, t) == u.paywalls # <<>> /\ ~NotValid(u.paywalls[Len(u.paywalls)], t)

\* A copy of the user record that is not out of date.
SameUser(u, d) == u.paywalls = d.paywalls /\ u.regTx = d.regTx

\* Proposal paywalls are sold to users that have paid their registration.
Registered(d) == d.paywalls # <<>> => d.regTx # NoTx

\* The state when q is the only request, or Idle: the user d and the pool p, at time t.
RequestState(q, d, p, t) ==
    /\ Registered(d)
    /\ q # Idle => SameUser(q.u, d)
    /\ q.at = "registration" => d.regTx = NoTx
    /\ q.at = "paywall" => d.regTx # NoTx
    /\ PayableAt(d, t) /\ q.at # "pool" => p = "proposal"

\* The state when there is no request and the poll is at l.
PollState(l, d, p, t) ==
    /\ Registered(d)
    /\ l # Idle => /\ SameUser(l.u, d) /\ l.type = p
                   /\ l.at = "remove" => ~PayableAt(d, t)
    /\ PayableAt(d, t) => p = "proposal"

Only(r, q) == [x \in Requests |-> IF x = r THEN q ELSE Idle]
Nobody == [x \in Requests |-> Idle]

SInv ==
    serial =>
      \/ \E r \in Requests :
           /\ req = Only(r, req[r]) /\ poll = Idle
           /\ RequestState(req[r], db, pool, now)
      \/ req = Nobody /\ PollState(poll, db, pool, now)

LEMMA SerialRequest ==
  ASSUME SInv, serial, NEW r \in Requests, req[r].at # "idle"
  PROVE  /\ req = Only(r, req[r]) /\ poll = Idle
         /\ RequestState(req[r], db, pool, now)
<1>1. ~(req = Nobody)
  BY DEF Nobody, Idle
<1>2. PICK s \in Requests : /\ req = Only(s, req[s]) /\ poll = Idle
                            /\ RequestState(req[s], db, pool, now)
  BY <1>1 DEF SInv
<1>3. s = r
  BY <1>2 DEF Only, Idle
<1> QED
  BY <1>2, <1>3

\* What a step of the only request has to keep.
LEMMA RequestConcludes ==
  ASSUME SInv, serial, serial' = serial, NEW r \in Requests, NEW q,
         req' = Only(r, q), poll' = Idle,
         RequestState(q, db', pool', now')
  PROVE  SInv'
<1>1. req'[r] = q
  BY DEF Only
<1>2. req' = Only(r, req'[r])
  BY <1>1
<1> QED
  BY <1>1, <1>2 DEF SInv

LEMMA SerialEnds ==
  ASSUME SInv, serial, Kept, NEW r \in Requests, req[r].at # "idle", Done(r), poll' = poll,
         RequestState(Idle, db', pool', now)
  PROVE  SInv'
<1>1. req = Only(r, req[r]) /\ poll = Idle
  BY SerialRequest
<1>2. req' = Only(r, Idle)
  BY <1>1 DEF Done, Only
<1>3. serial' = serial /\ now' = now
  BY DEF Kept
<1> QED
  BY <1>1, <1>2, <1>3, RequestConcludes

LEMMA SerialGoesOn ==
  ASSUME SInv, serial, Kept, NEW r \in Requests, req[r].at # "idle", poll' = poll,
         NEW at, NEW u, Step(r, at, u),
         RequestState([at |-> at, u |-> u], db', pool', now)
  PROVE  SInv'
<1> DEFINE q == [at |-> at, u |-> u]
<1>1. req = Only(r, req[r]) /\ poll = Idle
  BY SerialRequest
<1>2. req' = [req EXCEPT ![r] = q]
  BY DEF Step
<1>3. serial' = serial /\ now' = now
  BY DEF Kept
<1>4. RequestState(q, db', pool', now')
  BY <1>3
<1> HIDE DEF q
<1>5. req' = Only(r, q)
  BY <1>1, <1>2 DEF Only
<1> QED
  BY <1>1, <1>3, <1>4, <1>5, RequestConcludes

LEMMA ValidIsPayable ==
  ASSUME NEW u, UserOk(u, now)
  PROVE  userHasValidProposalPaywall(u) <=> PayableAt(u, now)
BY DEF UserOk, IsUser, ProposalPaywalls, PayableAt, NotValid, paywallHasExpired,
       userHasValidProposalPaywall, mostRecentProposalPaywall, Last

LEMMA SerialBegin ==
  ASSUME PInv, SInv, serial, NEW r \in Requests, NEW kind \in Kinds, Begin(r, kind)
  PROVE  SInv'
<1> DEFINE q == [at |-> kind, u |-> db]
<1>1. /\ ~UserIsBusy /\ req' = [req EXCEPT ![r] = q] /\ poll' = Idle
      /\ now' = now /\ db' = db /\ pool' = pool
      /\ serial' = serial
  BY DEF Begin, Step, UserIsBusy
<1>2. poll = Idle /\ \A x \in Requests : req[x] = Idle
  BY <1>1 DEF UserIsBusy, InFlight
<1>3. RequestState(Idle, db, pool, now)
  <2>1. CASE req = Nobody /\ PollState(poll, db, pool, now)
    <3>1. Registered(db) /\ (PayableAt(db, now) => pool = "proposal")
      BY <2>1 DEF PollState, Registered
    <3> QED
      BY <3>1 DEF RequestState, Idle
  <2> QED
    BY <1>2, <2>1 DEF SInv
<1>4. RequestState(q, db, pool, now)
  <2>1. /\ kind = "registration" => db.regTx = NoTx
        /\ kind = "paywall" => db.regTx # NoTx
    BY DEF Begin, userHasPaid
  <2> QED
    BY <1>3, <2>1 DEF RequestState, SameUser, Idle, Kinds
<1>5. RequestState(q, db', pool', now')
  BY <1>1, <1>4
<1> HIDE DEF q
<1>6. req' = Only(r, q)
  BY <1>1, <1>2 DEF Only, PInv
<1> QED
  BY <1>1, <1>5, <1>6, RequestConcludes

\* The copy that the only request holds is the user record.
LEMMA SerialCopy ==
  ASSUME PInv, SInv, serial, NEW r \in Requests, req[r].at # "idle"
  PROVE  /\ SameUser(req[r].u, db) /\ Registered(db)
         /\ UserOk(req[r].u, now) /\ UserOk(db, now)
         /\ req[r].at = "registration" => db.regTx = NoTx
         /\ req[r].at = "paywall" => db.regTx # NoTx
         /\ PayableAt(db, now) /\ req[r].at # "pool" => pool = "proposal"
<1>1. req[r] # Idle
  BY DEF Idle
<1>2. RequestState(req[r], db, pool, now)
  BY SerialRequest
<1>3. UserOk(req[r].u, now) /\ UserOk(db, now)
  BY CopyOk
<1> QED
  BY <1>1, <1>2, <1>3 DEF RequestState

LEMMA SerialLogin ==
  ASSUME PInv, SInv, serial, NEW r \in Requests,
         \/ Login(r) \/ processUserRegistrationPayment(r) \/ ClearUserPaywall(r)
  PROVE  SInv'
<1>1. /\ req[r].at \in {"login", "registration", "clear"} /\ Done(r) /\ poll' = poll
      /\ Kept
  BY DEF Login, processUserRegistrationPayment, ClearUserPaywall
<1> DEFINE u == req[r].u
<1>2. /\ SameUser(u, db) /\ Registered(db) /\ UserOk(u, now)
      /\ req[r].at = "registration" => db.regTx = NoTx
      /\ PayableAt(db, now) => pool = "proposal"
  BY <1>1, SerialCopy
<1>3. u = UserLike(u)
  BY <1>2 DEF UserOk, IsUser
\* What becomes of the user.
<1>4. /\ db'.paywalls = db.paywalls
      /\ db'.regTx = NoTx => db.regTx = NoTx
  <2>1. CASE Login(r)
    <3>1. db' = u \/ db' = generateNewUserPaywall(u)
      BY <2>1 DEF Login, UserUpdate
    <3> QED
      BY <3>1, <1>2, <1>3 DEF generateNewUserPaywall, UserLike, SameUser
  <2>2. CASE processUserRegistrationPayment(r)
    <3> DEFINE t == RegistrationTx(u)
    <3>1. db' = db \/ db' = generateNewUserPaywall(u) \/ db' = [u EXCEPT !.regTx = t, !.regExp = 0]
      BY <2>2 DEF processUserRegistrationPayment, UserUpdate
    <3>2. db' = [u EXCEPT !.regTx = t, !.regExp = 0] => /\ db'.regTx = t
                                                         /\ db'.paywalls = u.paywalls
      BY <1>3 DEF UserLike
    <3>3. db.regTx = NoTx
      BY <2>2, <1>2 DEF processUserRegistrationPayment
    <3> QED
      BY <3>1, <3>2, <3>3, <1>2, <1>3 DEF generateNewUserPaywall, UserLike, SameUser
  <2>3. CASE ClearUserPaywall(r)
    BY <2>3, <1>2, <1>3 DEF ClearUserPaywall, UserUpdate, clearUserPaywall, UserLike, SameUser, Cleared, NoTx
  <2> QED
    BY <2>1, <2>2, <2>3
\* The user keeps his place in the pool, or has no paywalls yet.
<1>5. pool' = pool \/ pool = "user" \/ db.regTx = NoTx
  <2>1. CASE Login(r)
    BY <2>1, <1>2 DEF Login, userHasPaid, SameUser
  <2>2. CASE processUserRegistrationPayment(r) \/ ClearUserPaywall(r)
    BY <2>2, <1>2 DEF processUserRegistrationPayment, ClearUserPaywall
  <2> QED
    BY <2>1, <2>2
<1>6. PayableAt(db', now) => PayableAt(db, now) /\ pool' = "proposal"
  BY <1>2, <1>4, <1>5 DEF PayableAt, Registered
<1>7. Registered(db')
  BY <1>2, <1>4 DEF Registered
<1>8. RequestState(Idle, db', pool', now)
  BY <1>1, <1>2, <1>4, <1>6, <1>7 DEF RequestState, Idle
<1> QED
  BY <1>1, <1>8, SerialEnds

LEMMA SerialPaywall ==
  ASSUME PInv, SInv, serial, NEW r \in Requests, generateProposalPaywall(r) \/ addUserToPaywallPool(r)
  PROVE  SInv'
<1>1. CASE generateProposalPaywall(r)
  <2> DEFINE pp == [notBefore |-> now, exp |-> now + PollDuration, tx |-> NoTx]
             u == req[r].u
  <2>1. /\ req[r].at = "paywall" /\ db' = [u EXCEPT !.paywalls = Append(@, pp)]
        /\ Step(r, "pool", db') /\ poll' = poll /\ pool' = pool /\ Kept
    BY <1>1 DEF generateProposalPaywall, UserUpdate
  <2>2. /\ SameUser(u, db) /\ Registered(db) /\ UserOk(u, now) /\ db.regTx # NoTx
    BY <2>1, SerialCopy
  <2> HIDE DEF pp, u
  <2>3. db'.regTx = db.regTx
    BY <2>1, <2>2 DEF UserOk, IsUser, UserLike, SameUser
  <2>4. Registered(db') /\ SameUser(db', db')
    BY <2>2, <2>3 DEF Registered, SameUser
  <2>5. RequestState([at |-> "pool", u |-> db'], db', pool', now)
    BY <2>1, <2>2, <2>3, <2>4 DEF RequestState
  <2> QED
    BY <2>1, <2>5, SerialGoesOn
<1>2. CASE addUserToPaywallPool(r)
  <2>1. /\ req[r].at = "pool" /\ Done(r) /\ db' = db /\ poll' = poll /\ pool' = "proposal"
        /\ Kept
    BY <1>2 DEF addUserToPaywallPool
  <2>2. Registered(db)
    BY <2>1, SerialCopy
  <2>3. RequestState(Idle, db', pool', now)
    BY <2>1, <2>2 DEF RequestState, Idle
  <2> QED
    BY <2>1, <2>3, SerialEnds
<1> QED
  BY <1>1, <1>2

LEMMA SerialSubmit ==
  ASSUME PInv, SInv, serial, NEW r \in Requests,
         RecordNew(r) \/ spendProposalCredit(r) \/ processNewError(r)
  PROVE  SInv'
<1>1. CASE RecordNew(r)
  <2> DEFINE u == req[r].u
             q == [at |-> "spend", u |-> u]
  <2>1. /\ req[r].at = "submit" /\ Step(r, "spend", u)
        /\ db' = db /\ pool' = pool /\ poll' = poll /\ Kept
    BY <1>1 DEF RecordNew
  <2>2. /\ SameUser(u, db) /\ Registered(db)
        /\ PayableAt(db, now) => pool = "proposal"
    BY <2>1, SerialCopy
  <2> HIDE DEF u
  <2>3. RequestState(q, db', pool', now)
    BY <2>1, <2>2 DEF RequestState
  <2> QED
    BY <2>1, <2>3, SerialGoesOn
<1>2. CASE spendProposalCredit(r)
  <2> DEFINE u == req[r].u
             e == Head(u.unspent)
  <2>1. /\ req[r].at = "spend" /\ Done(r) /\ poll' = poll /\ pool' = pool /\ Kept
        /\ db' = [u EXCEPT !.spent = Append(@, e), !.unspent = Tail(@)]
    BY <1>2 DEF spendProposalCredit, UserUpdate
  <2>2. /\ SameUser(u, db) /\ Registered(db) /\ UserOk(u, now)
        /\ PayableAt(db, now) => pool = "proposal"
    BY <2>1, SerialCopy
  <2> HIDE DEF u, e
  <2>3. db'.paywalls = db.paywalls /\ db'.regTx = db.regTx
    BY <2>1, <2>2 DEF UserOk, IsUser, UserLike, SameUser
  <2>4. RequestState(Idle, db', pool', now)
    BY <2>1, <2>2, <2>3 DEF RequestState, Registered, PayableAt, Idle
  <2> QED
    BY <2>1, <2>4, SerialEnds
<1>3. CASE processNewError(r)
  <2>1. /\ req[r].at = "spend" /\ Done(r) /\ poll' = poll /\ pool' = pool /\ db' = db /\ Kept
    BY <1>3 DEF processNewError
  <2>2. Registered(db) /\ (PayableAt(db, now) => pool = "proposal")
    BY <2>1, SerialCopy
  <2>3. RequestState(Idle, db', pool', now)
    BY <2>1, <2>2 DEF RequestState, Idle
  <2> QED
    BY <2>1, <2>3, SerialEnds
<1> QED
  BY <1>1, <1>2, <1>3

LEMMA SerialRescan ==
  ASSUME PInv, SInv, serial, NEW r \in Requests, RescanFetch(r) \/ RescanUpdate(r)
  PROVE  SInv'
<1>1. CASE RescanFetch(r)
  <2> DEFINE c == RescanCredits(req[r].u)
             v == [db EXCEPT !.unspent = @ \o c]
             q == [at |-> "credit", u |-> v]
  <2>1. /\ req[r].at = "rescan" /\ Step(r, "credit", v)
        /\ db' = db /\ pool' = pool /\ poll' = poll /\ Kept
    BY <1>1 DEF RescanFetch
  <2>2. /\ Registered(db) /\ UserOk(db, now)
        /\ PayableAt(db, now) => pool = "proposal"
    BY <2>1, SerialCopy
  <2> HIDE DEF c
  <2>3. SameUser(v, db)
    BY <2>2 DEF UserOk, IsUser, UserLike, SameUser
  <2> HIDE DEF v
  <2>4. RequestState(q, db', pool', now)
    BY <2>1, <2>2, <2>3 DEF RequestState
  <2> QED
    BY <2>1, <2>4, SerialGoesOn
<1>2. CASE RescanUpdate(r)
  <2>1. /\ req[r].at = "credit" /\ Done(r) /\ db' = req[r].u /\ poll' = poll
        /\ pool' = pool /\ Kept
    BY <1>2 DEF RescanUpdate, UserUpdate
  <2>2. /\ SameUser(db', db) /\ Registered(db)
        /\ PayableAt(db, now) => pool = "proposal"
    BY <2>1, SerialCopy
  <2>3. RequestState(Idle, db', pool', now)
    BY <2>1, <2>2 DEF RequestState, Registered, SameUser, PayableAt, Idle
  <2> QED
    BY <2>1, <2>3, SerialEnds
<1> QED
  BY <1>1, <1>2

\* What a step of the poll has to keep.
LEMMA PollConcludes ==
  ASSUME SInv, serial, serial' = serial, req = Nobody, req' = req,
         PollState(poll', db', pool', now')
  PROVE  SInv'
BY DEF SInv

\* No request is in progress while the poll is.
LEMMA SerialPoll ==
  ASSUME PInv, SInv, serial, poll # Idle \/ InFlight = {}
  PROVE  /\ req = Nobody /\ PollState(poll, db, pool, now)
         /\ UserOk(db, now) /\ (poll # Idle => UserOk(poll.u, now))
<1>1. UserOk(db, now) /\ (poll # Idle => UserOk(poll.u, now))
  BY DEF PInv, PollOk
<1>2. ASSUME NEW r \in Requests, req = Only(r, req[r]), poll = Idle,
             RequestState(req[r], db, pool, now)
      PROVE  req = Nobody /\ PollState(poll, db, pool, now)
  <2>1. req[r] = Idle
    BY <1>2 DEF InFlight
  <2>2. RequestState(Idle, db, pool, now)
    BY <1>2, <2>1
  <2> QED
    BY <1>2, <2>1, <2>2 DEF RequestState, PollState, Only, Nobody, Idle
<1> QED
  BY <1>1, <1>2 DEF SInv

LEMMA VerifyFields ==
  ASSUME NEW u, NEW s, UserOk(u, s)
  PROVE  /\ verifyProposalPayment(u).regTx = u.regTx
         /\ verifyProposalPayment(u).spent = u.spent
         /\ verifyProposalPayment(u).paywalls # <<>> => u.paywalls # <<>>
<1> DEFINE n == Len(u.paywalls)
           t == ProposalTx(u.paywalls[n])
           c == NewCredits(n, t)
           v == verifyProposalPayment(u)
<1>1. v = u \/ v = [u EXCEPT !.paywalls[n].tx = t, !.unspent = @ \o c]
  BY DEF verifyProposalPayment
<1>2. u = UserLike(u) /\ u.paywalls \in ProposalPaywalls
  BY DEF UserOk, IsUser
<1> HIDE DEF t, c, v
<1>3. CASE v = [u EXCEPT !.paywalls[n].tx = t, !.unspent = @ \o c]
  <2>1. /\ v.regTx = u.regTx /\ v.spent = u.spent
        /\ v.paywalls = [u.paywalls EXCEPT ![n].tx = t]
    BY <1>2, <1>3 DEF UserLike
  <2>2. u.paywalls = <<>> => [u.paywalls EXCEPT ![n].tx = t] = <<>>
    BY <1>2 DEF ProposalPaywalls
  <2> QED
    BY <2>1, <2>2 DEF v
<1> QED
  BY <1>1, <1>3 DEF v

LEMMA SerialPolling ==
  ASSUME PInv, SInv, serial, checkForPayments
  PROVE  SInv'
<1>1. /\ poll # Idle \/ InFlight = {}
      /\ req' = req /\ Kept
  BY DEF checkForPayments, PoolCopy, UserPaymentsGet, UserPaymentsFetch, ProposalPaymentsGet,
         ProposalPaymentsFetch, removeUsersFromPool, Polling
<1>2. /\ req = Nobody /\ PollState(poll, db, pool, now)
      /\ UserOk(db, now) /\ (poll # Idle => UserOk(poll.u, now))
  BY <1>1, SerialPoll
<1>3. now' = now /\ serial' = serial
  BY <1>1 DEF Kept
<1>4. SUFFICES PollState(poll', db', pool', now)
  BY <1>1, <1>2, <1>3, PollConcludes
<1>5. PollState(Idle, db, pool, now)
  BY <1>2 DEF PollState
<1>6. ASSUME NEW type, NEW at, NEW u, PollStep(type, at, u),
             SameUser(u, db), type = pool, at = "remove" => ~PayableAt(db, now)
      PROVE  PollState(poll', db, pool, now)
  BY <1>2, <1>6 DEF PollStep, PollState
<1>7. SameUser(db, db)
  BY DEF SameUser
<1>8. userHasValidProposalPaywall(db) <=> PayableAt(db, now)
  BY <1>2, ValidIsPayable
<1>9. CASE PoolCopy
  <2>1. PollStep(pool, "get", db) /\ db' = db /\ pool' = pool
    BY <1>9 DEF PoolCopy
  <2> QED
    BY <1>6, <1>7, <2>1
<1>10. CASE UserPaymentsGet
  <2>1. /\ poll # Idle /\ poll.type = "user" /\ db' = db /\ pool' = pool
        /\ \E at : PollStep("user", at, db)
    BY <1>10, Zenon DEF UserPaymentsGet, Polling
  <2>2. pool = "user" /\ ~PayableAt(db, now)
    BY <1>2, <2>1 DEF PollState
  <2> QED
    BY <1>6, <1>7, <2>1, <2>2
<1>11. CASE UserPaymentsFetch
  <2> DEFINE t == RegistrationTx(poll.u)
             u == poll.u
  <2>1. /\ poll # Idle /\ poll.type = "user" /\ pool' = pool
        /\ \/ poll' = Idle /\ db' = db
           \/ t # NoTx /\ db' = [u EXCEPT !.regTx = t, !.regExp = 0] /\ PollStep("user", "remove", db')
    BY <1>11 DEF UserPaymentsFetch, UserUpdate, Polling
  <2>2. pool = "user" /\ ~PayableAt(db, now) /\ SameUser(u, db) /\ UserOk(u, now)
    BY <1>2, <2>1 DEF PollState
  <2> HIDE DEF t, u
  <2>3. CASE poll' = Idle /\ db' = db
    BY <1>5, <2>1, <2>3
  <2>4. CASE t # NoTx /\ db' = [u EXCEPT !.regTx = t, !.regExp = 0] /\ PollStep("user", "remove", db')
    <3>1. db'.regTx = t /\ db'.paywalls = db.paywalls
      BY <2>2, <2>4 DEF UserOk, IsUser, UserLike, SameUser
    <3>2. Registered(db') /\ ~PayableAt(db', now) /\ SameUser(db', db')
      BY <1>2, <2>2, <2>4, <3>1 DEF PollState, Registered, PayableAt, SameUser
    <3> QED
      BY <1>2, <2>1, <2>2, <2>4, <3>1, <3>2 DEF PollState, PollStep
  <2> QED
    BY <2>1, <2>3, <2>4
<1>12. CASE ProposalPaymentsGet
  <2> DEFINE at == IF paywallHasExpired(mostRecentProposalPaywall(db).exp) THEN "remove" ELSE "fetch"
  <2>1. /\ poll # Idle /\ poll.type = "proposal" /\ db' = db /\ pool' = pool
        /\ poll' = Idle \/ PollStep("proposal", at, db)
    BY <1>12 DEF ProposalPaymentsGet, Polling
  <2>2. pool = "proposal"
    BY <1>2, <2>1 DEF PollState
  <2>3. at = "remove" => ~userHasValidProposalPaywall(db)
    BY DEF userHasValidProposalPaywall
  <2> HIDE DEF at
  <2> QED
    BY <1>5, <1>6, <1>7, <1>8, <2>1, <2>2, <2>3
<1>13. CASE ProposalPaymentsFetch
  <2> DEFINE u == verifyProposalPayment(poll.u)
  <2>1. /\ poll # Idle /\ poll.type = "proposal"
        /\ db' = IF u # poll.u THEN u ELSE db
        /\ \/ ~userHasValidProposalPaywall(u) /\ PollStep("proposal", "remove", u) /\ pool' = pool
           \/ poll' = Idle /\ pool' \in {"proposal", pool}
    BY <1>13 DEF ProposalPaymentsFetch, UserUpdate, Polling
  <2>2. pool = "proposal" /\ SameUser(poll.u, db) /\ UserOk(poll.u, now) /\ UserOk(u, now)
    BY <1>2, <2>1, VerifyKeeps DEF PollState
  <2>3. /\ u.regTx = poll.u.regTx
        /\ u.paywalls # <<>> => poll.u.paywalls # <<>>
    BY <2>2, VerifyFields
  <2>4. userHasValidProposalPaywall(u) <=> PayableAt(u, now)
    BY <2>2, ValidIsPayable
  <2> HIDE DEF u
  <2>5. /\ SameUser(u, db') /\ db'.regTx = db.regTx
        /\ db'.paywalls # <<>> => db.paywalls # <<>>
        /\ PayableAt(u, now) <=> PayableAt(db', now)
    BY <2>1, <2>2, <2>3 DEF SameUser, PayableAt
  <2>6. Registered(db') /\ pool' = "proposal"
    BY <1>2, <2>1, <2>2, <2>5 DEF Registered, PollState
  <2>7. CASE poll' = Idle
    BY <2>6, <2>7 DEF PollState
  <2>8. CASE ~userHasValidProposalPaywall(u) /\ PollStep("proposal", "remove", u)
    BY <2>4, <2>5, <2>6, <2>8 DEF PollState, PollStep
  <2> QED
    BY <2>1, <2>7, <2>8
<1>14. CASE removeUsersFromPool
  <2>1. /\ poll # Idle /\ poll.at = "remove" /\ poll' = Idle /\ db' = db
    BY <1>14 DEF removeUsersFromPool
  <2>2. ~PayableAt(db, now)
    BY <1>2, <2>1 DEF PollState
  <2> QED
    BY <1>2, <2>1, <2>2 DEF PollState
<1> QED
  BY <1>9, <1>10, <1>11, <1>12, <1>13, <1>14 DEF checkForPayments

LEMMA SerialOthers ==
  ASSUME PInv, SInv, \/ Restart \/ Tick \/ SendTx
                     \/ \E t \in 1..Len(chain) : MineTx(t) \/ ConfirmTx(t)
                     \/ UNCHANGED vars
  PROVE  SInv'
<1>1. CASE Restart
  <2>1. /\ req' = Nobody /\ poll' = Idle /\ pool' = InitialPool(db)
        /\ db' = db /\ now' = now /\ serial' = serial
    BY <1>1 DEF Restart, Nobody
  <2>2. UserOk(db, now)
    BY DEF PInv
  <2>3. PayableAt(db, now) => pool' = "proposal"
    BY <2>1, <2>2, ValidIsPayable DEF InitialPool
  <2>4. serial => Registered(db)
    BY DEF SInv, RequestState, PollState
  <2>5. serial => PollState(poll', db', pool', now')
    BY <2>1, <2>2, <2>3, <2>4 DEF PollState
  <2> QED
    BY <2>1, <2>2, <2>5 DEF SInv
<1>2. CASE Tick
  <2>1. /\ req' = req /\ poll' = poll /\ pool' = pool /\ db' = db
        /\ serial' = serial /\ now' = now + 1
    BY <1>2 DEF Tick, World
  <2>2. PayableAt(db, now') => PayableAt(db, now)
    <3>1. UserOk(db, now) /\ now \in Nat
      BY DEF PInv
    <3>2. db.paywalls # <<>> => Len(db.paywalls) \in 1..Len(db.paywalls)
      BY <3>1 DEF UserOk, IsUser, ProposalPaywalls
    <3>3. db.paywalls # <<>> => db.paywalls[Len(db.paywalls)].exp \in Nat
      BY <3>1, <3>2, PaywallTypes DEF UserOk
    <3> QED
      BY <2>1, <3>1, <3>3 DEF PayableAt, NotValid
  <2>3. \A q : RequestState(q, db, pool, now)
                 => RequestState(q, db', pool', now')
    BY <2>1, <2>2 DEF RequestState
  <2>4. \A l : PollState(l, db, pool, now)
                 => PollState(l, db', pool', now')
    BY <2>1, <2>2 DEF PollState
  <2> QED
    BY <2>1, <2>3, <2>4 DEF SInv
<1>3. CASE SendTx \/ (\E t \in 1..Len(chain) : MineTx(t) \/ ConfirmTx(t)) \/ UNCHANGED vars
  <2>1. /\ req' = req /\ poll' = poll /\ pool' = pool /\ db' = db
        /\ serial' = serial /\ now' = now
    BY <1>3 DEF SendTx, MineTx, ConfirmTx, World, vars
  <2> QED
    BY <2>1 DEF SInv
<1> QED
  BY <1>1, <1>2, <1>3

LEMMA SerialInit == Init => SInv
<1> SUFFICES ASSUME Init PROVE SInv
  OBVIOUS
<1>1. /\ req = Nobody /\ poll = Idle
      /\ db = NewUser \/ db = clearUserPaywall(NewUser)
  BY DEF Init, Nobody
<1>2. db.paywalls = <<>>
  <2>1. NewUser.paywalls = <<>>
    BY DEF NewUser
  <2>2. clearUserPaywall(NewUser).paywalls = NewUser.paywalls
    BY DEF NewUser, clearUserPaywall
  <2> QED
    BY <1>1, <2>1, <2>2
<1>3. Registered(db) /\ ~PayableAt(db, now)
  BY <1>2 DEF Registered, PayableAt
<1> QED
  BY <1>1, <1>3 DEF SInv, PollState

LEMMA SerialStep == PInv /\ SInv /\ [Next]_vars => SInv'
<1> SUFFICES ASSUME PInv, SInv, [Next]_vars PROVE SInv'
  OBVIOUS
<1>1. CASE serial
  <2>1. ASSUME NEW r \in Requests, Handle(r)
        PROVE  SInv'
    BY <1>1, <2>1, SerialLogin, SerialPaywall, SerialSubmit, SerialRescan DEF Handle
  <2> QED
    BY <1>1, <2>1, SerialBegin, SerialPolling, SerialOthers DEF Next
<1>2. CASE ~serial
  <2>1. serial' = serial
    BY DEF Next, vars, Begin, Handle, Login, processUserRegistrationPayment, ClearUserPaywall,
           generateProposalPaywall, addUserToPaywallPool, RecordNew, spendProposalCredit,
           processNewError,
           RescanFetch, RescanUpdate, checkForPayments, PoolCopy, UserPaymentsGet,
           UserPaymentsFetch, ProposalPaymentsGet, ProposalPaymentsFetch, removeUsersFromPool,
           Restart, Tick, SendTx, MineTx, ConfirmTx, Kept, World
  <2> QED
    BY <1>2, <2>1 DEF SInv
<1> QED
  BY <1>1, <1>2

\* When the requests and polls of a user do not overlap, every copy of the user is the
\* user record when it is written back, for any number of payments and restarts.
THEOREM SerialUserIsSound == Spec => [](PInv /\ SInv)
<1> QED
  BY InitInv, NextStep, SerialInit, SerialStep, PTL DEF Spec

\* The pool of polled paywalls has the user as long as he can pay his last proposal
\* paywall, when requests and polls do not overlap, after restarts too.
THEOREM ValidPaywallPolled == Spec => []ValidPaywallIsPolled
<1>1. PInv /\ SInv => ValidPaywallIsPolled
  <2> SUFFICES ASSUME PInv, SInv, serial, ~UserIsBusy, userHasValidProposalPaywall(db)
               PROVE  pool = "proposal"
    BY DEF ValidPaywallIsPolled
  <2>1. PayableAt(db, now)
    BY ValidIsPayable DEF PInv
  <2>2. \A r \in Requests : req[r] = Idle
    BY DEF UserIsBusy, InFlight
  <2>3. CASE PollState(poll, db, pool, now)
    BY <2>1, <2>3 DEF PollState
  <2>4. CASE RequestState(Idle, db, pool, now)
    BY <2>1, <2>4 DEF RequestState, Idle
  <2> QED
    BY <2>2, <2>3, <2>4 DEF SInv
<1> QED
  BY <1>1, SerialUserIsSound, PTL

-----------------------------------------------------------------------------
(* Credits, whatever overlaps, fails or is killed. *)

\* A copy of the user in which at most n credits are spent.
SpentUpTo(u, n) == (\E S : u.spent \in Seq(S)) /\ Len(u.spent) <= n

\* A request that still has to spend the credit of a proposal.
CopyPaid(q, n) == q # Idle => SpentUpTo(q.u, IF q.at = "spend" THEN n - 1 ELSE n)

CInv ==
    /\ proposals \in Nat /\ unpaid \in Nat /\ overwritten \in BOOLEAN
    /\ SpentUpTo(db, proposals)
    /\ \A r \in Requests : CopyPaid(req[r], proposals)
    /\ poll # Idle => SpentUpTo(poll.u, proposals)
    /\ ~overwritten => proposals = Len(db.spent) + unpaid + Cardinality(Spending)

\* What can become of the user record in a step that spends no credit.
Replaced ==
    \/ UNCHANGED user
    \/ \E u : /\ SpentUpTo(u, proposals) /\ db'.spent = u.spent
              /\ overwritten' = (overwritten \/ u.spent # db.spent)

LEMMA SpendingIsFinite == IsFiniteSet(Spending) /\ Cardinality(Spending) \in Nat
<1>1. Spending \subseteq Requests
  BY DEF Spending
<1> QED
  BY <1>1, PaywallAssumption, FS_Subset, FS_CardinalityType

LEMMA SpendingChanges ==
  ASSUME PInv, NEW r \in Requests, NEW q, req' = [req EXCEPT ![r] = q]
  PROVE  /\ q.at # "spend" /\ req[r].at # "spend" => Spending' = Spending
         /\ q.at = "spend" /\ req[r].at # "spend" =>
              Cardinality(Spending') = Cardinality(Spending) + 1
         /\ q.at # "spend" /\ req[r].at = "spend" =>
              Cardinality(Spending) = Cardinality(Spending') + 1
<1>1. req'[r] = q /\ \A x \in Requests \ {r} : req'[x] = req[x]
  BY DEF PInv
<1>2. q.at # "spend" /\ req[r].at # "spend" => Spending' = Spending
  BY <1>1 DEF Spending
<1>3. ASSUME q.at = "spend", req[r].at # "spend"
      PROVE  Cardinality(Spending') = Cardinality(Spending) + 1
  <2>1. Spending' = Spending \cup {r} /\ r \notin Spending
    BY <1>1, <1>3 DEF Spending
  <2> QED
    BY <2>1, SpendingIsFinite, FS_AddElement
<1>4. ASSUME q.at # "spend", req[r].at = "spend"
      PROVE  Cardinality(Spending) = Cardinality(Spending') + 1
  <2>1. Spending' = Spending \ {r} /\ r \in Spending
    BY <1>1, <1>4 DEF Spending
  <2>2. Cardinality(Spending \ {r}) = Cardinality(Spending) - 1
    BY <2>1, SpendingIsFinite, FS_RemoveElement
  <2> QED
    BY <2>1, <2>2, SpendingIsFinite
<1> QED
  BY <1>2, <1>3, <1>4

LEMMA UserReplaced ==
  ASSUME CInv, Replaced
  PROVE  /\ SpentUpTo(db', proposals) /\ overwritten' \in BOOLEAN
         /\ ~overwritten' => ~overwritten /\ db'.spent = db.spent
<1>1. CASE UNCHANGED user
  BY <1>1 DEF CInv
<1>2. CASE ~UNCHANGED user
  <2>1. PICK u : /\ SpentUpTo(u, proposals) /\ db'.spent = u.spent
                 /\ overwritten' = (overwritten \/ u.spent # db.spent)
    BY <1>2 DEF Replaced
  <2>2. SpentUpTo(db', proposals)
    BY <2>1 DEF SpentUpTo
  <2>3. overwritten' \in BOOLEAN
    BY <2>1, Zenon DEF CInv
  <2>4. ~overwritten' => ~overwritten /\ db'.spent = db.spent
    BY <2>1
  <2> QED
    BY <2>2, <2>3, <2>4
<1> QED
  BY <1>1, <1>2

\* A step of a request before or without its spending a credit.
LEMMA RequestCredits ==
  ASSUME PInv, CInv, NEW r \in Requests, NEW q, req' = [req EXCEPT ![r] = q],
         req[r].at # "spend", q.at # "spend", CopyPaid(q, proposals),
         UNCHANGED submitted, poll' = poll, Replaced
  PROVE  CInv'
<1>1. /\ SpentUpTo(db', proposals) /\ overwritten' \in BOOLEAN
      /\ ~overwritten' => ~overwritten /\ db'.spent = db.spent
  BY UserReplaced
<1>2. Spending' = Spending
  BY SpendingChanges
<1>3. \A x \in Requests : CopyPaid(req'[x], proposals)
  <2>1. req'[r] = q /\ \A x \in Requests \ {r} : req'[x] = req[x]
    BY DEF PInv
  <2> QED
    BY <2>1 DEF CInv
<1> QED
  BY <1>1, <1>2, <1>3 DEF CInv

LEMMA RequestEndsCredits ==
  ASSUME PInv, CInv, NEW r \in Requests, Done(r), req[r].at # "spend",
         UNCHANGED submitted, poll' = poll, Replaced
  PROVE  CInv'
<1>1. CopyPaid(Idle, proposals) /\ Idle.at # "spend"
  BY DEF CopyPaid, Idle
<1> QED
  BY <1>1, RequestCredits DEF Done

\* A step of the poll.
LEMMA PollCredits ==
  ASSUME CInv, req' = req, UNCHANGED submitted, Replaced,
         poll' # Idle => SpentUpTo(poll'.u, proposals)
  PROVE  CInv'
<1>1. /\ SpentUpTo(db', proposals) /\ overwritten' \in BOOLEAN
      /\ ~overwritten' => ~overwritten /\ db'.spent = db.spent
  BY UserReplaced
<1>2. Spending' = Spending
  BY DEF Spending
<1> QED
  BY <1>1, <1>2 DEF CInv

LEMMA SpentKept ==
  ASSUME NEW u, NEW s, UserOk(u, s)
  PROVE  /\ generateNewUserPaywall(u).spent = u.spent
         /\ clearUserPaywall(u).spent = u.spent
         /\ \A t : [u EXCEPT !.regTx = t, !.regExp = 0].spent = u.spent
         /\ \A x : [u EXCEPT !.paywalls = x].spent = u.spent
         /\ \A x : [u EXCEPT !.unspent = x].spent = u.spent
BY DEF UserOk, IsUser, UserLike, generateNewUserPaywall, clearUserPaywall

LEMMA SpentGrows ==
  ASSUME NEW s, \E S : s \in Seq(S), NEW e
  PROVE  /\ \E S : Append(s, e) \in Seq(S)
         /\ Len(Append(s, e)) = Len(s) + 1 /\ Len(s) \in Nat
<1>1. PICK S : s \in Seq(S)
  OBVIOUS
<1>2. s \in Seq(S \cup {e})
  BY <1>1
<1>3. Append(s, e) \in Seq(S \cup {e}) /\ Len(Append(s, e)) = Len(s) + 1 /\ Len(s) \in Nat
  BY <1>2
<1> QED
  BY <1>3

\* The copy of a request that is not about to spend a credit.
LEMMA CopySpent ==
  ASSUME PInv, CInv, NEW r \in Requests, req[r].at # "idle"
  PROVE  /\ UserOk(req[r].u, now) /\ UserOk(db, now) /\ SpentUpTo(db, proposals)
         /\ req[r].at # "spend" => SpentUpTo(req[r].u, proposals)
         /\ req[r].at = "spend" => SpentUpTo(req[r].u, proposals - 1)
BY CopyOk DEF CInv, CopyPaid, Idle

LEMMA BeginCredits ==
  ASSUME PInv, CInv, NEW r \in Requests, NEW kind \in Kinds, Begin(r, kind)
  PROVE  CInv'
<1> DEFINE q == [at |-> kind, u |-> db]
<1>1. /\ req[r] = Idle /\ req' = [req EXCEPT ![r] = q] /\ poll' = poll
      /\ UNCHANGED submitted /\ UNCHANGED user
  BY DEF Begin, Step
<1>2. CopyPaid(q, proposals) /\ q.at # "spend"
  BY DEF CopyPaid, CInv, Kinds
<1>3. req[r].at # "spend" /\ Replaced
  BY <1>1 DEF Idle, Replaced
<1> HIDE DEF q
<1> QED
  BY <1>1, <1>2, <1>3, RequestCredits

\* The requests that write the user record back and end.
LEMMA LoginCredits ==
  ASSUME PInv, CInv, NEW r \in Requests,
         \/ Login(r) \/ processUserRegistrationPayment(r) \/ ClearUserPaywall(r)
         \/ RescanUpdate(r) \/ addUserToPaywallPool(r)
  PROVE  CInv'
<1>1. /\ req[r].at # "idle" /\ req[r].at # "spend" /\ Done(r) /\ poll' = poll
      /\ UNCHANGED submitted
  BY DEF Login, processUserRegistrationPayment, ClearUserPaywall, RescanUpdate,
         addUserToPaywallPool
<1> DEFINE u == req[r].u
<1>2. UserOk(u, now) /\ SpentUpTo(u, proposals)
  BY <1>1, CopySpent
<1>3. ASSUME NEW v, UserUpdate(u, v), v.spent = u.spent
      PROVE  Replaced
  BY <1>2, <1>3 DEF UserUpdate, Replaced
<1>4. Replaced
  <2>1. CASE Login(r)
    BY <2>1, <1>2, <1>3, SpentKept DEF Login
  <2>2. CASE processUserRegistrationPayment(r)
    <3> DEFINE t == RegistrationTx(u)
    <3>1. \/ UNCHANGED user \/ UserUpdate(u, generateNewUserPaywall(u))
          \/ UserUpdate(u, [u EXCEPT !.regTx = t, !.regExp = 0])
      BY <2>2 DEF processUserRegistrationPayment
    <3> HIDE DEF t, u
    <3> QED
      BY <3>1, <1>2, <1>3, SpentKept DEF Replaced
  <2>3. CASE ClearUserPaywall(r)
    BY <2>3, <1>2, <1>3, SpentKept DEF ClearUserPaywall
  <2>4. CASE RescanUpdate(r)
    BY <2>4, <1>3 DEF RescanUpdate
  <2>5. CASE addUserToPaywallPool(r)
    BY <2>5 DEF addUserToPaywallPool, Replaced
  <2> QED
    BY <2>1, <2>2, <2>3, <2>4, <2>5
<1> QED
  BY <1>1, <1>4, RequestEndsCredits

\* The requests that go on with a copy of the user.
LEMMA CopyCredits ==
  ASSUME PInv, CInv, NEW r \in Requests, generateProposalPaywall(r) \/ RescanFetch(r)
  PROVE  CInv'
<1>1. CASE generateProposalPaywall(r)
  <2> DEFINE x == Append(req[r].u.paywalls,
                         [notBefore |-> now, exp |-> now + PollDuration, tx |-> NoTx])
             u == req[r].u
             v == [u EXCEPT !.paywalls = x]
             q == [at |-> "pool", u |-> v]
  <2>1. /\ req[r].at = "paywall" /\ UserUpdate(u, v) /\ db' = v
        /\ req' = [req EXCEPT ![r] = q] /\ poll' = poll /\ UNCHANGED submitted
    BY <1>1 DEF generateProposalPaywall, UserUpdate, Step
  <2>2. UserOk(u, now) /\ SpentUpTo(u, proposals)
    BY <2>1, CopySpent
  <2> HIDE DEF x
  <2>3. v.spent = u.spent
    BY <2>2, SpentKept
  <2> HIDE DEF v
  <2>4. CopyPaid(q, proposals) /\ q.at # "spend"
    BY <2>2, <2>3 DEF CopyPaid, SpentUpTo
  <2>5. Replaced
    BY <2>1, <2>2, <2>3 DEF UserUpdate, Replaced
  <2> HIDE DEF q, u
  <2> QED
    BY <2>1, <2>4, <2>5, RequestCredits
<1>2. CASE RescanFetch(r)
  <2> DEFINE x == db.unspent \o RescanCredits(req[r].u)
             v == [db EXCEPT !.unspent = x]
             q == [at |-> "credit", u |-> v]
  <2>1. /\ req[r].at = "rescan" /\ UNCHANGED user
        /\ req' = [req EXCEPT ![r] = q] /\ poll' = poll /\ UNCHANGED submitted
    BY <1>2 DEF RescanFetch, Step
  <2>2. UserOk(db, now) /\ SpentUpTo(db, proposals)
    BY <2>1, CopySpent
  <2> HIDE DEF x
  <2>3. v.spent = db.spent
    BY <2>2, SpentKept
  <2> HIDE DEF v
  <2>4. CopyPaid(q, proposals) /\ q.at # "spend"
    BY <2>2, <2>3 DEF CopyPaid, SpentUpTo
  <2>5. Replaced
    BY <2>1 DEF Replaced
  <2> HIDE DEF q
  <2> QED
    BY <2>1, <2>4, <2>5, RequestCredits
<1> QED
  BY <1>1, <1>2

\* A proposal that politeiad accepted is followed by its credit, or its request fails.
LEMMA SubmitCredits ==
  ASSUME PInv, CInv, NEW r \in Requests,
         RecordNew(r) \/ spendProposalCredit(r) \/ processNewError(r)
  PROVE  CInv'
<1>1. CASE RecordNew(r)
  <2> DEFINE u == req[r].u
             q == [at |-> "spend", u |-> u]
  <2>1. /\ req[r].at = "submit" /\ proposals' = proposals + 1 /\ unpaid' = unpaid
        /\ UNCHANGED user /\ req' = [req EXCEPT ![r] = q] /\ poll' = poll
    BY <1>1 DEF RecordNew, Step
  <2>2. SpentUpTo(u, proposals)
    BY <2>1, CopySpent
  <2>3. CopyPaid(q, proposals + 1) /\ q.at = "spend"
    BY <2>2 DEF CopyPaid, SpentUpTo, CInv
  <2> HIDE DEF q, u
  <2>4. Cardinality(Spending') = Cardinality(Spending) + 1
    BY <2>1, <2>3, SpendingChanges
  <2>5. \A x : SpentUpTo(x, proposals) => SpentUpTo(x, proposals')
    BY <2>1 DEF CInv, SpentUpTo
  <2>6. \A x \in Requests : CopyPaid(req'[x], proposals')
    <3>1. req'[r] = q /\ \A x \in Requests \ {r} : req'[x] = req[x]
      BY <2>1 DEF PInv
    <3>2. \A c : CopyPaid(c, proposals) => CopyPaid(c, proposals')
      BY <2>1 DEF CInv, CopyPaid, SpentUpTo
    <3> QED
      BY <2>1, <2>3, <3>1, <3>2 DEF CInv
  <2>7. ~overwritten' => proposals' = Len(db'.spent) + unpaid' + Cardinality(Spending')
    BY <2>1, <2>4, SpendingIsFinite DEF CInv, SpentUpTo
  <2> QED
    BY <2>1, <2>5, <2>6, <2>7 DEF CInv
<1>2. CASE spendProposalCredit(r)
  <2> DEFINE u == req[r].u
             e == Head(u.unspent)
             v == [u EXCEPT !.spent = Append(u.spent, e), !.unspent = Tail(u.unspent)]
  <2>1. /\ req[r].at = "spend" /\ req' = [req EXCEPT ![r] = Idle] /\ poll' = poll
        /\ UNCHANGED submitted /\ UserUpdate(u, v)
    BY <1>2 DEF spendProposalCredit, Done
  <2>2. UserOk(u, now) /\ SpentUpTo(u, proposals - 1)
    BY <2>1, CopySpent
  <2> HIDE DEF e
  <2>3. v.spent = Append(u.spent, e)
    BY <2>2 DEF UserOk, IsUser, UserLike
  <2> HIDE DEF v
  <2>4. /\ \E S : v.spent \in Seq(S)
        /\ Len(v.spent) = Len(u.spent) + 1 /\ Len(u.spent) \in Nat
    BY <2>2, <2>3, SpentGrows DEF SpentUpTo
  <2>5. db' = v /\ overwritten' = (overwritten \/ u.spent # db.spent)
    BY <2>1 DEF UserUpdate
  <2>6. SpentUpTo(db', proposals')
    <3>1. Len(u.spent) <= proposals - 1 /\ proposals \in Nat /\ proposals' = proposals
      BY <2>1, <2>2 DEF SpentUpTo, CInv
    <3>2. Len(v.spent) <= proposals
      BY <2>4, <3>1
    <3> QED
      BY <2>4, <2>5, <3>1, <3>2 DEF SpentUpTo
  <2>7. Cardinality(Spending) = Cardinality(Spending') + 1
    <3>1. Idle.at # "spend"
      BY DEF Idle
    <3> QED
      BY <2>1, <3>1, SpendingChanges
  <2>8. \A x \in Requests : CopyPaid(req'[x], proposals')
    <3>1. req'[r] = Idle /\ \A x \in Requests \ {r} : req'[x] = req[x]
      BY <2>1 DEF PInv
    <3> QED
      BY <2>1, <3>1 DEF CInv, CopyPaid
  <2>9. overwritten' \in BOOLEAN
    BY <2>5, Zenon DEF CInv
  <2>10. ASSUME ~overwritten'
         PROVE  proposals' = Len(db'.spent) + unpaid' + Cardinality(Spending')
    <3>1. ~overwritten /\ u.spent = db.spent
      BY <2>5, <2>10
    <3>2. Cardinality(Spending') \in Nat
      <4>1. Spending' \subseteq Requests
        BY DEF Spending
      <4> QED
        BY <4>1, PaywallAssumption, FS_Subset, FS_CardinalityType
    <3>3. Len(db'.spent) = Len(db.spent) + 1 /\ Len(db.spent) \in Nat
      BY <2>4, <2>5, <3>1
    <3> QED
      BY <2>1, <2>7, <3>1, <3>2, <3>3 DEF CInv
  <2> QED
    BY <2>1, <2>6, <2>8, <2>9, <2>10 DEF CInv
<1>3. CASE processNewError(r)
  <2>1. /\ req[r].at = "spend" /\ req' = [req EXCEPT ![r] = Idle] /\ poll' = poll
        /\ unpaid' = unpaid + 1 /\ proposals' = proposals /\ UNCHANGED user
    BY <1>3 DEF processNewError, Done
  <2>2. Cardinality(Spending) = Cardinality(Spending') + 1
    <3>1. Idle.at # "spend"
      BY DEF Idle
    <3> QED
      BY <2>1, <3>1, SpendingChanges
  <2>3. \A x \in Requests : CopyPaid(req'[x], proposals')
    <3>1. req'[r] = Idle /\ \A x \in Requests \ {r} : req'[x] = req[x]
      BY <2>1 DEF PInv
    <3> QED
      BY <2>1, <3>1 DEF CInv, CopyPaid
  <2>4. Cardinality(Spending') \in Nat
    <3>1. Spending' \subseteq Requests
      BY DEF Spending
    <3> QED
      BY <3>1, PaywallAssumption, FS_Subset, FS_CardinalityType
  <2>5. Len(db.spent) \in Nat /\ unpaid \in Nat
    BY DEF CInv, SpentUpTo
  <2>6. db' = db /\ overwritten' = overwritten
    BY <2>1
  <2>7. Len(db.spent) + unpaid + Cardinality(Spending)
          = Len(db'.spent) + unpaid' + Cardinality(Spending')
    <3>1. unpaid' = unpaid + 1 /\ db'.spent = db.spent
      BY <2>1, <2>6
    <3>2. PICK n \in Nat, k \in Nat, d \in Nat :
            n = Len(db.spent) /\ k = unpaid /\ d = Cardinality(Spending')
      BY <2>4, <2>5
    <3>3. n + k + (d + 1) = n + (k + 1) + d
      OBVIOUS
    <3> QED
      BY <2>2, <3>1, <3>2, <3>3, Zenon
  <2>8. ~overwritten' => proposals' = Len(db'.spent) + unpaid' + Cardinality(Spending')
    <3>1. proposals' = proposals /\ (~overwritten' => ~overwritten)
      BY <2>1, <2>6
    <3> QED
      BY <2>7, <3>1, Zenon DEF CInv
  <2>9. proposals' \in Nat /\ unpaid' \in Nat /\ overwritten' \in BOOLEAN
    BY <2>1, <2>6 DEF CInv
  <2>10. SpentUpTo(db', proposals') /\ (poll' # Idle => SpentUpTo(poll'.u, proposals'))
    BY <2>1, <2>6 DEF CInv
  <2> QED
    BY <2>3, <2>8, <2>9, <2>10, Zenon DEF CInv
<1> QED
  BY <1>1, <1>2, <1>3

LEMMA PollingCredits ==
  ASSUME PInv, CInv, checkForPayments
  PROVE  CInv'
<1>1. /\ UserOk(db, now) /\ SpentUpTo(db, proposals)
      /\ poll # Idle => UserOk(poll.u, now) /\ SpentUpTo(poll.u, proposals)
  BY DEF PInv, PollOk, CInv
<1>2. req' = req /\ UNCHANGED submitted
  BY DEF checkForPayments, PoolCopy, UserPaymentsGet, UserPaymentsFetch, ProposalPaymentsGet,
         ProposalPaymentsFetch, removeUsersFromPool
<1>3. ASSUME NEW type, NEW at, NEW u, SpentUpTo(u, proposals), PollStep(type, at, u)
      PROVE  SpentUpTo(poll'.u, proposals)
  BY <1>3 DEF PollStep
<1>4. CASE PoolCopy \/ UserPaymentsGet \/ ProposalPaymentsGet \/ removeUsersFromPool
  <2>1. UNCHANGED user
    BY <1>4 DEF PoolCopy, UserPaymentsGet, ProposalPaymentsGet, removeUsersFromPool
  <2>2. poll' = Idle \/ \E type, at : PollStep(type, at, db)
    BY <1>4, Zenon DEF PoolCopy, UserPaymentsGet, ProposalPaymentsGet, removeUsersFromPool
  <2> QED
    BY <1>1, <1>2, <1>3, <2>1, <2>2, PollCredits DEF Replaced
<1>5. CASE UserPaymentsFetch
  <2> DEFINE u == poll.u
             t == RegistrationTx(u)
             v == [u EXCEPT !.regTx = t, !.regExp = 0]
  <2>1. /\ poll # Idle
        /\ \/ poll' = Idle /\ UNCHANGED user
           \/ UserUpdate(u, v) /\ PollStep("user", "remove", v)
    BY <1>5 DEF UserPaymentsFetch, Polling, UserUpdate
  <2>2. UserOk(u, now) /\ SpentUpTo(u, proposals)
    BY <1>1, <2>1
  <2> HIDE DEF t
  <2>3. v.spent = u.spent
    BY <2>2, SpentKept
  <2> HIDE DEF v, u
  <2>4. SpentUpTo(v, proposals)
    BY <2>2, <2>3 DEF SpentUpTo
  <2>5. Replaced /\ (poll' # Idle => SpentUpTo(poll'.u, proposals))
    BY <1>3, <2>1, <2>2, <2>3, <2>4 DEF Replaced, UserUpdate
  <2> QED
    BY <1>2, <2>5, PollCredits
<1>6. CASE ProposalPaymentsFetch
  <2> DEFINE v == verifyProposalPayment(poll.u)
             u == poll.u
  <2>1. /\ poll # Idle
        /\ UNCHANGED user \/ UserUpdate(u, v)
        /\ PollStep("proposal", "remove", v) \/ poll' = Idle
    BY <1>6 DEF ProposalPaymentsFetch, Polling
  <2>2. SpentUpTo(u, proposals) /\ v.spent = u.spent
    BY <1>1, <2>1, VerifyFields
  <2> HIDE DEF v, u
  <2>3. SpentUpTo(v, proposals)
    BY <2>2 DEF SpentUpTo
  <2>4. Replaced /\ (poll' # Idle => SpentUpTo(poll'.u, proposals))
    BY <1>3, <2>1, <2>2, <2>3 DEF Replaced, UserUpdate
  <2> QED
    BY <1>2, <2>4, PollCredits
<1> QED
  BY <1>4, <1>5, <1>6 DEF checkForPayments

LEMMA OtherCredits ==
  ASSUME PInv, CInv, \/ Restart \/ Tick \/ SendTx
                     \/ \E t \in 1..Len(chain) : MineTx(t) \/ ConfirmTx(t)
                     \/ UNCHANGED vars
  PROVE  CInv'
<1>1. CASE Restart
  <2>1. /\ req' = [r \in Requests |-> Idle] /\ poll' = Idle
        /\ unpaid' = unpaid + Cardinality(Spending) /\ proposals' = proposals
        /\ UNCHANGED user
    BY <1>1 DEF Restart
  <2>2. Spending' = {}
    BY <2>1 DEF Spending, Idle
  <2>3. Cardinality(Spending') = 0
    BY <2>2, FS_EmptySet
  <2>4. \A r \in Requests : CopyPaid(req'[r], proposals')
    BY <2>1 DEF CopyPaid
  <2> QED
    BY <2>1, <2>3, <2>4, SpendingIsFinite DEF CInv, SpentUpTo
<1>2. CASE Tick \/ SendTx \/ (\E t \in 1..Len(chain) : MineTx(t) \/ ConfirmTx(t)) \/ UNCHANGED vars
  <2>1. req' = req /\ poll' = poll /\ UNCHANGED submitted /\ UNCHANGED user
    BY <1>2 DEF Tick, SendTx, MineTx, ConfirmTx, World, vars
  <2> QED
    BY <2>1, PollCredits DEF CInv, Replaced
<1> QED
  BY <1>1, <1>2

LEMMA CreditsInit == Init => CInv
<1> SUFFICES ASSUME Init PROVE CInv
  OBVIOUS
<1>1. /\ req = [r \in Requests |-> Idle] /\ poll = Idle
      /\ proposals = 0 /\ unpaid = 0 /\ overwritten = FALSE
      /\ db = NewUser \/ db = clearUserPaywall(NewUser)
  BY DEF Init
<1>2. NewUser.spent = <<>> /\ clearUserPaywall(NewUser).spent = <<>>
  BY DEF NewUser, clearUserPaywall
<1>3. <<>> \in Seq({}) /\ Len(<<>>) = 0
  OBVIOUS
<1>4. db.spent = <<>>
  BY <1>1, <1>2
<1>5. SpentUpTo(db, 0) /\ Len(db.spent) = 0
  BY <1>3, <1>4 DEF SpentUpTo
<1>6. Spending = {}
  BY <1>1 DEF Spending, Idle
<1>7. Cardinality(Spending) = 0
  BY <1>6, FS_EmptySet
<1>8. \A r \in Requests : CopyPaid(req[r], proposals)
  BY <1>1 DEF CopyPaid
<1>9. SpentUpTo(db, proposals) /\ (poll # Idle => SpentUpTo(poll.u, proposals))
  BY <1>1, <1>5
<1>10. proposals = Len(db.spent) + unpaid + Cardinality(Spending)
  BY <1>1, <1>5, <1>7
<1>11. proposals \in Nat /\ unpaid \in Nat /\ overwritten \in BOOLEAN
  BY <1>1
<1> QED
  BY <1>8, <1>9, <1>10, <1>11, Zenon DEF CInv

LEMMA CreditsStep == PInv /\ CInv /\ [Next]_vars => CInv'
<1> SUFFICES ASSUME PInv, CInv, [Next]_vars PROVE CInv'
  OBVIOUS
<1>1. ASSUME NEW r \in Requests, Handle(r)
      PROVE  CInv'
  BY <1>1, LoginCredits, CopyCredits, SubmitCredits DEF Handle
<1> QED
  BY <1>1, BeginCredits, PollingCredits, OtherCredits DEF Next

\* Every record that politeiad accepts costs a credit, which processNew spends after it,
\* except that of a request that fails or is killed in between: for any number of
\* requests, polls and restarts, overlapping in any way, until one of them writes back a
\* copy of the user that lacks a spent credit.  Even then no more credits are spent than
\* there are proposals.
THEOREM ProposalsArePaidFor == Spec => []ProposalsCostACredit
<1>1. CInv => ProposalsCostACredit
  BY DEF CInv, SpentUpTo, ProposalsCostACredit
<1> QED
  BY <1>1, InitInv, NextStep, CreditsInit, CreditsStep, PTL DEF Spec

=============================================================================
