------------------------------ MODULE Credits -------------------------------
(***************************************************************************)
(* The credits service: balances, reservations and the ledger, as the     *)
(* MySQL transactions of credits.service.ts leave them.                   *)
(*                                                                        *)
(* reserveCredits and addCredits begin with an UPSERT of the balance row,  *)
(* whose exclusive lock is held to the commit and precedes every read, so  *)
(* those two are single steps.  releaseReservation and                    *)
(* convertReservationToDebit begin with a plain SELECT, which locks        *)
(* nothing: they are a step that takes the snapshot and a later one that   *)
(* writes and commits, and any other transaction may commit in between.   *)
(* A transaction that fails (a duplicate key, an amount the column cannot *)
(* hold, a deadlock victim, a lost connection) is rolled back whole.      *)
(*                                                                        *)
(* Amounts are integer cents, as the DECIMAL(12,2) columns hold them.     *)
(***************************************************************************)
EXTENDS Integers, FiniteSets

CONSTANTS
    Users,
    Reservations,  \* ids of reservation rows, used or not yet
    Keys,          \* payment-intent ids and Idempotency-Key values
    Null,          \* SQL NULL
    Requests,      \* settling requests that may be in flight together
    Amounts,       \* cents a caller may name
    Gate,          \* 7.00: lifetime_earned must exceed it before spending
    MaxDecimal     \* the largest value the balance columns hold

ASSUME NullAssumption == Null \notin Keys /\ Null \notin Users /\ Null \notin Reservations
ASSUME AmountsAssumption == Amounts \subseteq Nat \ {0}
ASSUME RequestsAssumption == IsFiniteSet(Requests)
ASSUME LimitsAssumption == Gate \in Nat /\ MaxDecimal \in Nat

VARIABLES
    balance,       \* user_credits_balances.balance
    earned,        \* user_credits_balances.lifetime_earned
    reservation,   \* user_credits_reservations
    posted,        \* SUM(amount) of user_credits_ledger by user and type
    index,         \* the unique (stripe_payment_intent_id, type) of the ledger
    request,       \* local state of the settling requests
    settled,       \* history: ledger rows written for a reservation, by type
    told           \* history: what callers were told of a reservation

vars == <<balance, earned, reservation, posted, index, request, settled, told>>

EntryTypes == {"CREDIT", "REFUND", "RESERVATION", "RELEASE", "DEBIT"}
SettlingTypes == {"RELEASE", "DEBIT"}
Statuses == {"none", "ACTIVE", "RELEASED", "CONVERTED"}
AnyKey == Keys \cup {Null}

\* A row not yet inserted.  bornKey is history: the key at the insert.
NoReservation ==
    [status |-> "none", user |-> Null, amount |-> 0, key |-> Null,
     bornKey |-> Null]

\* A request: where it is, what it does to which row, the key it carries, and
\* the key of the row in its transaction's snapshot.
Local(at, doing, r, key, seenKey) ==
    [at |-> at, doing |-> doing, id |-> r, key |-> key, seenKey |-> seenKey]

Idle == Local("idle", "RELEASE", Null, Null, Null)

Init ==
    /\ balance = [u \in Users |-> 0]
    /\ earned = [u \in Users |-> 0]
    /\ reservation = [r \in Reservations |-> NoReservation]
    /\ posted = [u \in Users |-> [t \in EntryTypes |-> 0]]
    /\ index = {}
    /\ request = [q \in Requests |-> Idle]
    /\ settled = [r \in Reservations |-> [t \in SettlingTypes |-> 0]]
    /\ told = [r \in Reservations |-> {}]
-----------------------------------------------------------------------------
(* The ledger and its unique index.  NULL keys never collide.              *)

Collides(key, type) == key # Null /\ <<key, type>> \in index

\* Mutant of Post: a duplicate row is ignored instead of failing the transaction.
PostIgnoringDuplicates(u, type, a, key) ==
    IF Collides(key, type)
      THEN UNCHANGED <<posted, index>>
      ELSE /\ posted' = [posted EXCEPT ![u][type] = @ + a]
           /\ index' = index \cup (IF key = Null THEN {} ELSE {<<key, type>>})

\* One ledger row: the sum it adds to and the index entry it claims.
Post(u, type, a, key) ==
    /\ ~Collides(key, type)
    /\ posted' = [posted EXCEPT ![u][type] = @ + a]
    /\ index' = index \cup (IF key = Null THEN {} ELSE {<<key, type>>})

\* The unique (stripe_payment_intent_id, status) of the reservations: r can
\* become a row with this key and status.
RowIsUnique(r, key, status) ==
    key # Null =>
        \A s \in Reservations \ {r} :
            ~(reservation[s].key = key /\ reservation[s].status = status)
-----------------------------------------------------------------------------
(* addCredits: cashback and referral rewards under a key, admin credits    *)
(* without one, refunds (refundCreditsWithIdempotency) under a key.  A key *)
(* that already has a CREDIT row is skipped whatever the type asked for.   *)

Raise(u, a) ==
    /\ balance[u] + a <= MaxDecimal
    /\ balance' = [balance EXCEPT ![u] = @ + a]

AddCredits(u, a, type, key) ==
    /\ ~Collides(key, "CREDIT")
    /\ Post(u, type, a, key)
    /\ Raise(u, a)
    /\ IF type = "CREDIT"
         THEN /\ earned[u] + a <= MaxDecimal
              /\ earned' = [earned EXCEPT ![u] = @ + a]
         ELSE UNCHANGED earned
    /\ UNCHANGED <<reservation, request, settled, told>>

RefundCreditsWithIdempotency(u, a, key) == AddCredits(u, a, "REFUND", key)

\* Mutants of the two guards of reserveCredits.
MaySpendFromTheGate(u) == earned[u] >= Gate
CoveredByLifetime(u, a) == a <= earned[u]

MaySpend(u) == earned[u] > Gate
Covered(u, a) == a <= balance[u]

\* reserveCredits.  A request whose key has an ACTIVE reservation is answered
\* with that one and writes nothing.
ReserveCredits(u, r, a, key) ==
    /\ reservation[r].status = "none"
    /\ MaySpend(u)
    /\ Covered(u, a)
    /\ RowIsUnique(r, key, "ACTIVE")
    /\ reservation' = [reservation EXCEPT ![r] =
          [status |-> "ACTIVE", user |-> u, amount |-> a, key |-> key,
           bornKey |-> key]]
    /\ Post(u, "RESERVATION", a, key)
    /\ balance' = [balance EXCEPT ![u] = @ - a]
    /\ UNCHANGED <<earned, request, settled, told>>
-----------------------------------------------------------------------------
(* Settling a reservation.                                                 *)

Answer(r, what) == told' = [told EXCEPT ![r] = @ \cup {what}]

AsTold(doing) == IF doing = "RELEASE" THEN "released" ELSE "captured"
SettledStatus(doing) == IF doing = "RELEASE" THEN "RELEASED" ELSE "CONVERTED"

\* confirmReservationWithIdempotency and cancelReservationWithIdempotency
\* read the row first: settled the way that is asked, the caller is told so;
\* settled the other way, it is refused; ACTIVE, the request goes on.
PreCheck(q, doing, r, key) ==
    /\ request[q].at = "idle"
    /\ reservation[r].status # "none"
    /\ \/ /\ reservation[r].status = SettledStatus(doing)
          /\ Answer(r, AsTold(doing))
          /\ UNCHANGED request
       \/ /\ reservation[r].status = "ACTIVE"
          /\ request' = [request EXCEPT
                            ![q] = Local("checked", doing, r, key, Null)]
          /\ UNCHANGED told
    /\ UNCHANGED <<balance, earned, reservation, posted, index, settled>>

ConfirmReservation(q, r, key) == PreCheck(q, "DEBIT", r, key)
CancelReservation(q, r) == PreCheck(q, "RELEASE", r, Null)

\* Mutant of the SELECT's condition on the status.
InSnapshotWhateverStatus(r) == reservation[r].status # "none"

InSnapshot(r) == reservation[r].status = "ACTIVE"

\* The transaction's first SELECT: no ACTIVE row in the snapshot ends it with
\* nothing written and no error, otherwise the row (and, for a conversion, the
\* presence of a DEBIT row of this key) is what the snapshot shows.
Begin(q, doing, r, key) ==
    /\ IF InSnapshot(r)
         THEN /\ request' = [request EXCEPT ![q] =
                    Local(IF doing = "DEBIT" /\ Collides(key, "DEBIT")
                            THEN "known" ELSE "open",
                          doing, r, key, reservation[r].key)]
              /\ UNCHANGED told
         ELSE /\ request' = [request EXCEPT ![q] = Idle]
              /\ Answer(r, AsTold(doing))
    /\ UNCHANGED <<balance, earned, reservation, posted, index, settled>>

\* The orders service calls the two functions directly.
ReleaseReservation(q, r) ==
    /\ request[q].at = "idle"
    /\ reservation[r].status # "none"
    /\ Begin(q, "RELEASE", r, Null)

ConvertReservationToDebit(q, r, key) ==
    /\ request[q].at = "idle"
    /\ reservation[r].status # "none"
    /\ Begin(q, "DEBIT", r, key)

BeginChecked(q) ==
    /\ request[q].at = "checked"
    /\ Begin(q, request[q].doing, request[q].id, request[q].key)

\* The UPDATE of the reservation row.
Mark(r, status, key) ==
    /\ RowIsUnique(r, key, status)
    /\ reservation' = [reservation EXCEPT
          ![r] = [@ EXCEPT !.status = status, !.key = key]]

Done(q) ==
    /\ request' = [request EXCEPT ![q] = Idle]
    /\ Answer(request[q].id, AsTold(request[q].doing))

\* Mutants of the settling transactions: a RELEASE row without the key of the
\* reservation; a known DEBIT that leaves the reservation as it is.
ReleaseRowKeyOmitted(q) == Null

KnownDebitNotMarked(q) ==
    /\ request[q].at = "known"
    /\ Done(q)
    /\ UNCHANGED <<balance, earned, reservation, posted, index, settled>>

\* The RELEASE row carries the key the snapshot showed.
ReleaseRowKey(q) == request[q].seenKey

\* releaseReservation's writes and commit.
CommitRelease(q) ==
    LET r == request[q].id
        u == reservation[r].user
        a == reservation[r].amount
    IN  /\ request[q].at = "open"
        /\ request[q].doing = "RELEASE"
        /\ Mark(r, "RELEASED", reservation[r].key)
        /\ Post(u, "RELEASE", a, ReleaseRowKey(q))
        /\ Raise(u, a)
        /\ settled' = [settled EXCEPT ![r]["RELEASE"] = @ + 1]
        /\ Done(q)
        /\ UNCHANGED earned

\* convertReservationToDebit's writes and commit: the balance was lowered when
\* the credits were reserved.
CommitConvert(q) ==
    LET r == request[q].id
        k == IF request[q].seenKey = Null THEN request[q].key
                                           ELSE reservation[r].key
    IN  /\ request[q].at = "open"
        /\ request[q].doing = "DEBIT"
        /\ Mark(r, "CONVERTED", k)
        /\ Post(reservation[r].user, "DEBIT", reservation[r].amount,
                request[q].key)
        /\ settled' = [settled EXCEPT ![r]["DEBIT"] = @ + 1]
        /\ Done(q)
        /\ UNCHANGED <<balance, earned>>

\* The key already has a DEBIT row in the snapshot: the status alone is set.
CommitKnownDebit(q) ==
    LET r == request[q].id
    IN  /\ request[q].at = "known"
        /\ Mark(r, "CONVERTED", reservation[r].key)
        /\ Done(q)
        /\ UNCHANGED <<balance, earned, posted, index, settled>>

\* Rollback, or the process dying before the commit: nothing was written.
Rollback(q) ==
    /\ request[q].at # "idle"
    /\ request' = [request EXCEPT ![q] = Idle]
    /\ UNCHANGED <<balance, earned, reservation, posted, index, settled, told>>
-----------------------------------------------------------------------------
Settle(q) ==
    \/ \E r \in Reservations, k \in Keys :
          \/ ConfirmReservation(q, r, k)
          \/ ConvertReservationToDebit(q, r, k)
    \/ \E r \in Reservations : CancelReservation(q, r) \/ ReleaseReservation(q, r)
    \/ BeginChecked(q)
    \/ CommitRelease(q)
    \/ CommitConvert(q)
    \/ CommitKnownDebit(q)
    \/ Rollback(q)

Next ==
    \/ \E u \in Users, a \in Amounts, k \in AnyKey : AddCredits(u, a, "CREDIT", k)
    \/ \E u \in Users, a \in Amounts, k \in Keys :
          RefundCreditsWithIdempotency(u, a, k)
    \/ \E u \in Users, r \in Reservations, a \in Amounts, k \in AnyKey :
          ReserveCredits(u, r, a, k)
    \/ \E q \in Requests : Settle(q)

Spec == Init /\ [][Next]_vars
-----------------------------------------------------------------------------
Row == [status : Statuses, user : Users \cup {Null}, amount : Amounts \cup {0},
        key : AnyKey, bornKey : AnyKey]
Locals == [at : {"idle", "checked", "open", "known"},
           doing : SettlingTypes, id : Reservations \cup {Null},
           key : AnyKey, seenKey : AnyKey]

\* Every variable has its type; in particular a balance and a lifetime total
\* stay within 0 and what their columns hold, whatever runs at the same time.
TypeOK ==
    /\ balance \in [Users -> 0..MaxDecimal]
    /\ earned \in [Users -> 0..MaxDecimal]
    /\ reservation \in [Reservations -> Row]
    /\ \A r \in Reservations :
          reservation[r].status # "none" =>
              reservation[r].user \in Users /\ reservation[r].amount \in Amounts
    /\ posted \in [Users -> [EntryTypes -> Nat]]
    /\ index \subseteq Keys \X EntryTypes
    /\ request \in [Requests -> Locals]
    /\ \A q \in Requests :
          request[q].at # "idle" =>
              /\ request[q].id \in Reservations
              /\ reservation[request[q].id].status # "none"
    /\ settled \in [Reservations -> [SettlingTypes -> Nat]]
    /\ told \in [Reservations -> SUBSET {"released", "captured"}]

\* The balance table never drifts from the ledger: what a user may spend is what
\* the ledger credited, refunded and released, less what it reserved; lifetime
\* earnings are the CREDIT rows.  (reserveCredits, addCredits and
\* releaseReservation write the two tables in one transaction.)
LedgerBalances ==
    \A u \in Users :
        /\ balance[u] = posted[u]["CREDIT"] + posted[u]["REFUND"]
                          + posted[u]["RELEASE"] - posted[u]["RESERVATION"]
        /\ earned[u] = posted[u]["CREDIT"]

\* Nobody's ledger shows a reservation before more than Gate was earned.
SpendingGate ==
    \A u \in Users : posted[u]["RESERVATION"] > 0 => earned[u] > Gate

\* An ACTIVE reservation is untouched: no ledger row settles it, and nobody was
\* told that it is released or captured; so a settled one never comes back.
ActiveIsUnsettled ==
    \A r \in Reservations :
        reservation[r].status \in {"none", "ACTIVE"} =>
            settled[r]["RELEASE"] = 0 /\ settled[r]["DEBIT"] = 0 /\ told[r] = {}

\* Credits reserved under a key are given back at most once, however many
\* cancellations race: the unique (key, RELEASE) of the ledger fails the second
\* transaction although its snapshot showed the reservation ACTIVE.
KeyedReleaseOnce ==
    \A r \in Reservations :
        reservation[r].bornKey # Null => settled[r]["RELEASE"] <= 1

\* A reservation is settled at most as often as requests run at once, since only
\* requests whose snapshot precedes the first settlement can settle it again.
SettledWithinRace ==
    \A r \in Reservations :
        settled[r]["RELEASE"] + settled[r]["DEBIT"] <= Cardinality(Requests)

\* The table implements the abstract wallet: credits move by earning, handing
\* back, or spending what is covered, one user at a time.
W == INSTANCE Wallet
ImplementsWallet == W!Spec

\* What credits.service.ts says of both functions ("idempotent", lines 243 and
\* 300): settling a reservation again changes nothing.
SettledOnce ==
    \A r \in Reservations : settled[r]["RELEASE"] + settled[r]["DEBIT"] <= 1

\* A caller told that the credits were captured has a DEBIT row to show for it.
CapturedIsDebited ==
    \A r \in Reservations : "captured" \in told[r] => settled[r]["DEBIT"] > 0
=============================================================================
