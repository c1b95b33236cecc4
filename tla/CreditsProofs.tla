---------------------------- MODULE CreditsProofs ---------------------------
(***************************************************************************)
(* Theorems about Credits, for any number of users, reservations, keys and *)
(* concurrent requests.                                                    *)
(***************************************************************************)
EXTENDS Credits, FiniteSetTheorems, TLAPS

Assumptions ==
    /\ Null \notin Keys /\ Null \notin Users /\ Null \notin Reservations
    /\ Amounts \subseteq Nat \ {0}
    /\ IsFiniteSet(Requests)
    /\ Gate \in Nat /\ MaxDecimal \in Nat

LEMMA Assumed == Assumptions
  BY NullAssumption, AmountsAssumption, RequestsAssumption, LimitsAssumption
     DEF Assumptions

-----------------------------------------------------------------------------
(* What one ledger row changes.                                            *)

\* The sums after a row of amount a and type t is added to u's ledger.
SumsAfter(u, t, a) ==
    \A v \in Users, s \in EntryTypes :
        posted'[v][s] = IF v = u /\ s = t THEN posted[v][s] + a ELSE posted[v][s]

LEMMA PostEffect ==
  ASSUME TypeOK, NEW u \in Users, NEW t \in EntryTypes, NEW a \in Nat,
         NEW k \in AnyKey, Post(u, t, a, k)
  PROVE  /\ posted' \in [Users -> [EntryTypes -> Nat]]
         /\ SumsAfter(u, t, a)
         /\ index' \subseteq Keys \X EntryTypes
         /\ index \subseteq index'
         /\ k # Null => <<k, t>> \notin index /\ <<k, t>> \in index'
  BY Assumed DEF Assumptions, TypeOK, Post, Collides, AnyKey, SumsAfter

LEMMA MarkEffect ==
  ASSUME TypeOK, NEW r \in Reservations, reservation[r].status # "none",
         NEW st \in Statuses \ {"none"}, NEW k \in AnyKey, Mark(r, st, k)
  PROVE  /\ reservation' \in [Reservations -> Row]
         /\ reservation'[r].status = st
         /\ reservation'[r].key = k
         /\ reservation'[r].bornKey = reservation[r].bornKey
         /\ \A s \in Reservations :
               /\ s # r => reservation'[s] = reservation[s]
               /\ reservation'[s].user = reservation[s].user
               /\ reservation'[s].amount = reservation[s].amount
               /\ reservation[s].status # "none" => reservation'[s].status # "none"
               /\ reservation'[s].status # "none" => reservation[s].status # "none"
<1>1. reservation[r] \in Row
  BY DEF TypeOK
<1>2. [reservation[r] EXCEPT !.status = st, !.key = k] \in Row
  BY <1>1 DEF Row
<1>3. reservation' = [reservation EXCEPT
                        ![r] = [reservation[r] EXCEPT !.status = st, !.key = k]]
  BY DEF Mark
<1>4. reservation' \in [Reservations -> Row]
  BY <1>2, <1>3 DEF TypeOK
<1>5. reservation'[r] = [reservation[r] EXCEPT !.status = st, !.key = k]
  BY <1>3 DEF TypeOK
<1>6. \A s \in Reservations : s # r => reservation'[s] = reservation[s]
  BY <1>3 DEF TypeOK
<1>7. QED
  BY <1>1, <1>4, <1>5, <1>6 DEF Row

LEMMA RaiseEffect ==
  ASSUME TypeOK, NEW u \in Users, NEW a \in Nat, Raise(u, a)
  PROVE  /\ balance' \in [Users -> 0..MaxDecimal]
         /\ \A v \in Users :
               balance'[v] = IF v = u THEN balance[v] + a ELSE balance[v]
  BY Assumed DEF Assumptions, TypeOK, Raise

-----------------------------------------------------------------------------
(* Type correctness.                                                       *)

LEMMA TypeAdd ==
  ASSUME TypeOK, NEW u \in Users, NEW a \in Amounts,
         NEW t \in {"CREDIT", "REFUND"}, NEW k \in AnyKey, AddCredits(u, a, t, k)
  PROVE  TypeOK'
<1>1. a \in Nat /\ t \in EntryTypes
  BY Assumed DEF Assumptions, EntryTypes
<1>2. /\ posted' \in [Users -> [EntryTypes -> Nat]]
      /\ index' \subseteq Keys \X EntryTypes
  BY <1>1, PostEffect DEF AddCredits
<1>3. balance' \in [Users -> 0..MaxDecimal]
  BY <1>1, RaiseEffect DEF AddCredits
<1>4. earned' \in [Users -> 0..MaxDecimal]
  BY <1>1, Assumed DEF AddCredits, TypeOK, Assumptions
<1>5. QED
  BY <1>2, <1>3, <1>4 DEF AddCredits, TypeOK

LEMMA TypeReserve ==
  ASSUME TypeOK, NEW u \in Users, NEW r \in Reservations, NEW a \in Amounts,
         NEW k \in AnyKey, ReserveCredits(u, r, a, k)
  PROVE  TypeOK'
<1>1. a \in Nat /\ "RESERVATION" \in EntryTypes
  BY Assumed DEF Assumptions, EntryTypes
<1>2. /\ posted' \in [Users -> [EntryTypes -> Nat]]
      /\ index' \subseteq Keys \X EntryTypes
  BY <1>1, PostEffect DEF ReserveCredits
<1>3. balance' \in [Users -> 0..MaxDecimal]
  BY <1>1, Assumed DEF ReserveCredits, Covered, TypeOK, Assumptions
<1>4. /\ reservation' \in [Reservations -> Row]
      /\ \A s \in Reservations :
            reservation'[s].status # "none" =>
                reservation'[s].user \in Users /\ reservation'[s].amount \in Amounts
      /\ \A s \in Reservations :
            reservation[s].status # "none" => reservation'[s].status # "none"
  BY DEF ReserveCredits, TypeOK, Row, Statuses, AnyKey
<1>5. QED
  BY <1>2, <1>3, <1>4 DEF ReserveCredits, TypeOK

LEMMA TypePreCheck ==
  ASSUME TypeOK, NEW q \in Requests, NEW d \in SettlingTypes,
         NEW r \in Reservations, NEW k \in AnyKey, PreCheck(q, d, r, k)
  PROVE  TypeOK'
<1>1. told' \in [Reservations -> SUBSET {"released", "captured"}]
  BY DEF PreCheck, TypeOK, Answer, AsTold, SettlingTypes
<1>2. /\ request' \in [Requests -> Locals]
      /\ \A p \in Requests : request'[p].at # "idle" =>
              /\ request'[p].id \in Reservations
              /\ reservation[request'[p].id].status # "none"
  <2>1. CASE UNCHANGED request
    BY <2>1 DEF TypeOK
  <2>2. CASE request' = [request EXCEPT ![q] = Local("checked", d, r, k, Null)]
    BY <2>2 DEF TypeOK, PreCheck, Locals, Local, SettlingTypes, Idle, AnyKey
  <2>3. QED
    BY <2>1, <2>2 DEF PreCheck
<1>3. QED
  BY <1>1, <1>2 DEF PreCheck, TypeOK

LEMMA TypeBegin ==
  ASSUME TypeOK, NEW q \in Requests, NEW d \in SettlingTypes,
         NEW r \in Reservations, NEW k \in AnyKey, Begin(q, d, r, k)
  PROVE  TypeOK'
<1>1. told' \in [Reservations -> SUBSET {"released", "captured"}]
  BY DEF Begin, TypeOK, Answer, AsTold, SettlingTypes
<1>2. /\ request' \in [Requests -> Locals]
      /\ \A p \in Requests : request'[p].at # "idle" =>
              /\ request'[p].id \in Reservations
              /\ reservation[request'[p].id].status # "none"
  <2>1. CASE InSnapshot(r)
    <3> DEFINE at == IF d = "DEBIT" /\ Collides(k, "DEBIT") THEN "known" ELSE "open"
               l == Local(at, d, r, k, reservation[r].key)
    <3>1. at \in {"open", "known"}
      OBVIOUS
    <3>2. l \in Locals /\ l.id = r
      BY <3>1 DEF TypeOK, Locals, Local, Row
    <3>3. request' = [request EXCEPT ![q] = l]
      BY <2>1 DEF Begin
    <3>4. reservation[r].status # "none"
      BY <2>1 DEF InSnapshot
    <3> HIDE DEF l
    <3>5. QED
      BY <3>2, <3>3, <3>4 DEF TypeOK
  <2>2. CASE ~InSnapshot(r)
    <3>1. request' = [request EXCEPT ![q] = Idle]
      BY <2>2 DEF Begin
    <3>2. Idle \in Locals /\ Idle.at = "idle"
      BY DEF Idle, Local, Locals, SettlingTypes, AnyKey
    <3>3. QED
      BY <3>1, <3>2 DEF TypeOK
  <2>3. QED
    BY <2>1, <2>2
<1>3. QED
  BY <1>1, <1>2 DEF Begin, TypeOK

\* The request is over and its reservation row, which exists, still does.
LEMMA TypeDone ==
  ASSUME TypeOK, NEW q \in Requests, request[q].at # "idle", Done(q),
         \A s \in Reservations :
            reservation[s].status # "none" => reservation'[s].status # "none"
  PROVE  /\ told' \in [Reservations -> SUBSET {"released", "captured"}]
         /\ request' \in [Requests -> Locals]
         /\ \A p \in Requests : request'[p].at # "idle" =>
              /\ request'[p].id \in Reservations
              /\ reservation'[request'[p].id].status # "none"
<1>1. request[q].id \in Reservations
  BY DEF TypeOK
<1>2. told' \in [Reservations -> SUBSET {"released", "captured"}]
  BY <1>1 DEF TypeOK, Done, Answer, AsTold, SettlingTypes
<1>3. request' \in [Requests -> Locals]
  BY DEF TypeOK, Done, Locals, Local, SettlingTypes, Idle, AnyKey
<1>4. \A p \in Requests : request'[p].at # "idle" => request'[p] = request[p]
  BY DEF TypeOK, Done, Idle, Local
<1>5. QED
  BY <1>2, <1>3, <1>4 DEF TypeOK

LEMMA TypeCommitRelease ==
  ASSUME TypeOK, NEW q \in Requests, CommitRelease(q)
  PROVE  TypeOK'
<1> DEFINE r == request[q].id
           u == reservation[r].user
           a == reservation[r].amount
<1>1. /\ r \in Reservations /\ u \in Users /\ a \in Nat
      /\ ReleaseRowKey(q) \in AnyKey /\ "RELEASE" \in EntryTypes
  BY Assumed DEF CommitRelease, TypeOK, Locals, Local, SettlingTypes, Assumptions, ReleaseRowKey, EntryTypes
<1>2. Post(u, "RELEASE", a, ReleaseRowKey(q)) /\ Raise(u, a)
  BY DEF CommitRelease
<1>3. /\ posted' \in [Users -> [EntryTypes -> Nat]]
      /\ index' \subseteq Keys \X EntryTypes
  BY <1>1, <1>2, PostEffect
<1>4. balance' \in [Users -> 0..MaxDecimal]
  BY <1>1, <1>2, RaiseEffect
<1>5. /\ reservation' \in [Reservations -> Row]
      /\ \A s \in Reservations :
            reservation'[s].status # "none" =>
                reservation'[s].user \in Users /\ reservation'[s].amount \in Amounts
      /\ \A s \in Reservations :
            reservation[s].status # "none" => reservation'[s].status # "none"
  BY <1>1, MarkEffect DEF CommitRelease, TypeOK, Row, Statuses
<1>6. settled' \in [Reservations -> [SettlingTypes -> Nat]]
  BY <1>1 DEF CommitRelease, TypeOK, SettlingTypes
<1>7. QED
  BY <1>3, <1>4, <1>5, <1>6, TypeDone DEF CommitRelease, TypeOK

LEMMA TypeCommitConvert ==
  ASSUME TypeOK, NEW q \in Requests, CommitConvert(q)
  PROVE  TypeOK'
<1> DEFINE r == request[q].id
           u == reservation[r].user
           a == reservation[r].amount
<1>1. /\ r \in Reservations /\ u \in Users /\ a \in Nat
      /\ request[q].key \in AnyKey /\ "DEBIT" \in EntryTypes
  BY Assumed DEF CommitConvert, TypeOK, Locals, Local, SettlingTypes, Assumptions, EntryTypes
<1>2. Post(u, "DEBIT", a, request[q].key)
  BY DEF CommitConvert
<1>3. /\ posted' \in [Users -> [EntryTypes -> Nat]]
      /\ index' \subseteq Keys \X EntryTypes
  BY <1>1, <1>2, PostEffect
<1>4. /\ reservation' \in [Reservations -> Row]
      /\ \A s \in Reservations :
            reservation'[s].status # "none" =>
                reservation'[s].user \in Users /\ reservation'[s].amount \in Amounts
      /\ \A s \in Reservations :
            reservation[s].status # "none" => reservation'[s].status # "none"
  BY <1>1, MarkEffect DEF CommitConvert, TypeOK, Row, Statuses, Locals
<1>5. settled' \in [Reservations -> [SettlingTypes -> Nat]]
  BY <1>1 DEF CommitConvert, TypeOK, SettlingTypes
<1>6. QED
  BY <1>3, <1>4, <1>5, TypeDone DEF CommitConvert, TypeOK

LEMMA TypeCommitKnownDebit ==
  ASSUME TypeOK, NEW q \in Requests, CommitKnownDebit(q)
  PROVE  TypeOK'
<1>1. request[q].id \in Reservations
  BY DEF CommitKnownDebit, TypeOK
<1>2. /\ reservation' \in [Reservations -> Row]
      /\ \A s \in Reservations :
            reservation'[s].status # "none" =>
                reservation'[s].user \in Users /\ reservation'[s].amount \in Amounts
      /\ \A s \in Reservations :
            reservation[s].status # "none" => reservation'[s].status # "none"
  BY <1>1, MarkEffect DEF CommitKnownDebit, TypeOK, Row, Statuses
<1>3. QED
  BY <1>2, TypeDone DEF CommitKnownDebit, TypeOK

LEMMA TypeRollback ==
  ASSUME TypeOK, NEW q \in Requests, Rollback(q)
  PROVE  TypeOK'
<1>1. request' \in [Requests -> Locals]
  BY DEF TypeOK, Rollback, Locals, Local, SettlingTypes, Idle, AnyKey
<1>2. \A p \in Requests : request'[p].at # "idle" => request'[p] = request[p]
  BY DEF TypeOK, Rollback, Idle, Local
<1>3. QED
  BY <1>1, <1>2 DEF TypeOK, Rollback

\* A step read as the transaction, or part of one, that takes it.
LEMMA StepCases ==
  ASSUME TypeOK, [Next]_vars
  PROVE  \/ \E u \in Users, a \in Amounts, k \in AnyKey, t \in {"CREDIT", "REFUND"} :
               AddCredits(u, a, t, k)
         \/ \E u \in Users, r \in Reservations, a \in Amounts, k \in AnyKey :
               ReserveCredits(u, r, a, k)
         \/ \E q \in Requests, d \in SettlingTypes, r \in Reservations, k \in AnyKey :
               \/ PreCheck(q, d, r, k)
               \/ /\ request[q].at \in {"idle", "checked"}
                  /\ reservation[r].status # "none"
                  /\ Begin(q, d, r, k)
         \/ \E q \in Requests : \/ CommitRelease(q)
                               \/ CommitConvert(q)
                               \/ CommitKnownDebit(q)
                               \/ Rollback(q)
         \/ UNCHANGED vars
<1>1. CASE \E u \in Users, a \in Amounts, k \in AnyKey : AddCredits(u, a, "CREDIT", k)
  BY <1>1
<1>2. CASE \E u \in Users, a \in Amounts, k \in Keys :
             RefundCreditsWithIdempotency(u, a, k)
  BY <1>2 DEF RefundCreditsWithIdempotency, AnyKey
<1>3. CASE \E u \in Users, r \in Reservations, a \in Amounts, k \in AnyKey :
             ReserveCredits(u, r, a, k)
  BY <1>3
<1>4. ASSUME NEW q \in Requests, Settle(q)
      PROVE  \/ \E d \in SettlingTypes, r \in Reservations, k \in AnyKey :
                  \/ PreCheck(q, d, r, k)
                  \/ /\ request[q].at \in {"idle", "checked"}
                     /\ reservation[r].status # "none"
                     /\ Begin(q, d, r, k)
             \/ CommitRelease(q) \/ CommitConvert(q)
             \/ CommitKnownDebit(q) \/ Rollback(q)
  <2>1. CASE \E r \in Reservations, k \in Keys :
               \/ ConfirmReservation(q, r, k)
               \/ ConvertReservationToDebit(q, r, k)
    BY <2>1 DEF ConfirmReservation, ConvertReservationToDebit, AnyKey, SettlingTypes
  <2>2. CASE \E r \in Reservations : CancelReservation(q, r) \/ ReleaseReservation(q, r)
    BY <2>2 DEF CancelReservation, ReleaseReservation, AnyKey, SettlingTypes
  <2>3. CASE BeginChecked(q)
    <3>1. /\ request[q].at = "checked"
          /\ Begin(q, request[q].doing, request[q].id, request[q].key)
      BY <2>3 DEF BeginChecked
    <3>2. /\ request[q].doing \in SettlingTypes /\ request[q].key \in AnyKey
          /\ request[q].id \in Reservations
          /\ reservation[request[q].id].status # "none"
      BY <3>1 DEF TypeOK, Locals
    <3>3. QED
      BY <3>1, <3>2
  <2>4. QED
    BY <1>4, <2>1, <2>2, <2>3 DEF Settle
<1>5. QED
  BY <1>1, <1>2, <1>3, <1>4 DEF Next

LEMMA TypeNext == TypeOK /\ [Next]_vars => TypeOK'
<1> SUFFICES ASSUME TypeOK, [Next]_vars PROVE TypeOK'
  OBVIOUS
<1>1. CASE UNCHANGED vars
  BY <1>1 DEF vars, TypeOK
<1>2. QED
  BY <1>1, StepCases, TypeAdd, TypeReserve, TypePreCheck, TypeBegin,
     TypeCommitRelease, TypeCommitConvert, TypeCommitKnownDebit, TypeRollback

LEMMA TypeInit == Init => TypeOK
  BY Assumed DEF Init, TypeOK, Assumptions, NoReservation, Idle, Local, Locals, Row,
     Statuses, AnyKey, SettlingTypes, EntryTypes

\* Balances and lifetime totals never leave what their columns hold, and every
\* other variable keeps its type (reserveCredits, addCredits, releaseReservation,
\* convertReservationToDebit in any interleaving).
THEOREM TypeCorrect == Spec => []TypeOK
<1>1. QED
  BY TypeInit, TypeNext, PTL DEF Spec
-----------------------------------------------------------------------------
(* The ledger audit.                                                       *)

LEMMA LedgerNext ==
  ASSUME TypeOK, LedgerBalances, [Next]_vars
  PROVE  LedgerBalances'
<1> USE DEF LedgerBalances
<1>1. ASSUME NEW u \in Users, NEW a \in Amounts, NEW k \in AnyKey,
             NEW t \in {"CREDIT", "REFUND"}, AddCredits(u, a, t, k)
      PROVE  LedgerBalances'
  <2>1. a \in Nat /\ t \in EntryTypes
    BY Assumed DEF Assumptions, EntryTypes
  <2>p. Post(u, t, a, k)
    BY <1>1 DEF AddCredits
  <2>2. SumsAfter(u, t, a)
    BY <2>1, <2>p, PostEffect
  <2>3. \A v \in Users :
          balance'[v] = IF v = u THEN balance[v] + a ELSE balance[v]
    BY <1>1, <2>1, RaiseEffect DEF AddCredits
  <2>4. \A v \in Users :
          earned'[v] = IF v = u /\ t = "CREDIT" THEN earned[v] + a ELSE earned[v]
    BY <1>1 DEF AddCredits, TypeOK
  <2>5. QED
    BY <2>1, <2>2, <2>3, <2>4 DEF TypeOK, EntryTypes, SumsAfter
<1>2. ASSUME NEW u \in Users, NEW r \in Reservations, NEW a \in Amounts,
             NEW k \in AnyKey, ReserveCredits(u, r, a, k)
      PROVE  LedgerBalances'
  <2>1. a \in Nat /\ "RESERVATION" \in EntryTypes
    BY Assumed DEF Assumptions, EntryTypes
  <2>p. Post(u, "RESERVATION", a, k)
    BY <1>2 DEF ReserveCredits
  <2>2. SumsAfter(u, "RESERVATION", a)
    BY <2>1, <2>p, PostEffect
  <2>3. \A v \in Users :
          balance'[v] = IF v = u THEN balance[v] - a ELSE balance[v]
    BY <1>2 DEF ReserveCredits, TypeOK
  <2>4. QED
    BY <1>2, <2>1, <2>2, <2>3 DEF TypeOK, EntryTypes, ReserveCredits, SumsAfter
<1>3. ASSUME NEW q \in Requests, CommitRelease(q)
      PROVE  LedgerBalances'
  <2> DEFINE u == reservation[request[q].id].user
             a == reservation[request[q].id].amount
  <2>1. /\ u \in Users /\ a \in Nat
        /\ ReleaseRowKey(q) \in AnyKey /\ "RELEASE" \in EntryTypes
    BY <1>3, Assumed
       DEF CommitRelease, TypeOK, Locals, Assumptions, ReleaseRowKey, EntryTypes
  <2>p. Post(u, "RELEASE", a, ReleaseRowKey(q))
    BY <1>3 DEF CommitRelease
  <2>2. SumsAfter(u, "RELEASE", a)
    BY <2>1, <2>p, PostEffect
  <2>3. \A v \in Users :
          balance'[v] = IF v = u THEN balance[v] + a ELSE balance[v]
    BY <1>3, <2>1, RaiseEffect DEF CommitRelease
  <2>4. earned' = earned
    BY <1>3 DEF CommitRelease
  <2> HIDE DEF u, a
  <2>5. QED
    BY <2>1, <2>2, <2>3, <2>4 DEF TypeOK, EntryTypes, SumsAfter
<1>4. ASSUME NEW q \in Requests, CommitConvert(q)
      PROVE  LedgerBalances'
  <2> DEFINE u == reservation[request[q].id].user
             a == reservation[request[q].id].amount
  <2>1. /\ u \in Users /\ a \in Nat
        /\ request[q].key \in AnyKey /\ "DEBIT" \in EntryTypes
    BY <1>4, Assumed DEF CommitConvert, TypeOK, Locals, Assumptions, EntryTypes
  <2>p. Post(u, "DEBIT", a, request[q].key)
    BY <1>4 DEF CommitConvert
  <2>2. SumsAfter(u, "DEBIT", a)
    BY <2>1, <2>p, PostEffect
  <2>3. balance' = balance /\ earned' = earned
    BY <1>4 DEF CommitConvert
  <2> HIDE DEF u, a
  <2>4. QED
    BY <2>1, <2>2, <2>3 DEF TypeOK, EntryTypes, SumsAfter
<1>5. CASE UNCHANGED <<balance, earned, posted>>
  BY <1>5
<1>6. QED
  <2>1. ASSUME NEW q \in Requests, NEW d \in SettlingTypes, NEW r \in Reservations,
               NEW k \in AnyKey, PreCheck(q, d, r, k) \/ Begin(q, d, r, k)
        PROVE  UNCHANGED <<balance, earned, posted>>
    BY <2>1 DEF PreCheck, Begin
  <2>2. ASSUME NEW q \in Requests, CommitKnownDebit(q) \/ Rollback(q)
        PROVE  UNCHANGED <<balance, earned, posted>>
    BY <2>2 DEF CommitKnownDebit, Rollback
  <2>3. CASE UNCHANGED vars
    BY <2>3, <1>5 DEF vars
  <2>4. QED
    BY <1>1, <1>2, <1>3, <1>4, <1>5, <2>1, <2>2, <2>3, StepCases

\* The balance table agrees with the ledger in every reachable state, for any
\* number of concurrent requests.
THEOREM LedgerAudit == Spec => []LedgerBalances
<1>1. Init => LedgerBalances
  BY DEF Init, LedgerBalances, EntryTypes
<1>2. TypeOK /\ LedgerBalances /\ [Next]_vars => LedgerBalances'
  BY LedgerNext
<1>3. QED
  BY <1>1, <1>2, TypeCorrect, PTL DEF Spec
-----------------------------------------------------------------------------
(* The gate on spending, and the refinement of Wallet.                     *)

\* How a step moves the money, and under which guard.
LEMMA MoneyMoves ==
  ASSUME TypeOK, [Next]_vars
  PROVE  \/ UNCHANGED <<balance, earned>> /\ \A v \in Users :
               posted'[v]["RESERVATION"] = posted[v]["RESERVATION"]
         \/ \E u \in Users, a \in Nat \ {0} :
               /\ balance' = [balance EXCEPT ![u] = @ + a]
               /\ earned' = [earned EXCEPT ![u] = @ + a] \/ UNCHANGED earned
               /\ \A v \in Users :
                     posted'[v]["RESERVATION"] = posted[v]["RESERVATION"]
         \/ \E u \in Users, a \in Nat \ {0} :
               /\ earned[u] > Gate
               /\ a <= balance[u]
               /\ balance' = [balance EXCEPT ![u] = @ - a]
               /\ UNCHANGED earned
               /\ \A v \in Users : v # u =>
                     posted'[v]["RESERVATION"] = posted[v]["RESERVATION"]
<1> DEFINE Kept == \A v \in Users :
                     posted'[v]["RESERVATION"] = posted[v]["RESERVATION"]
<1>1. ASSUME NEW u \in Users, NEW a \in Amounts, NEW k \in AnyKey,
             NEW t \in {"CREDIT", "REFUND"}, AddCredits(u, a, t, k)
      PROVE  /\ a \in Nat \ {0}
             /\ balance' = [balance EXCEPT ![u] = @ + a]
             /\ earned' = [earned EXCEPT ![u] = @ + a] \/ UNCHANGED earned
             /\ Kept
  <2>1. a \in Nat \ {0} /\ t \in EntryTypes
    BY Assumed DEF Assumptions, EntryTypes
  <2>2. Post(u, t, a, k)
    BY <1>1 DEF AddCredits
  <2>3. SumsAfter(u, t, a)
    BY <2>1, <2>2, PostEffect
  <2>4. QED
    BY <1>1, <2>1, <2>3 DEF AddCredits, Raise, SumsAfter, EntryTypes
<1>2. ASSUME NEW u \in Users, NEW r \in Reservations, NEW a \in Amounts,
             NEW k \in AnyKey, ReserveCredits(u, r, a, k)
      PROVE  /\ a \in Nat \ {0}
             /\ earned[u] > Gate
             /\ a <= balance[u]
             /\ balance' = [balance EXCEPT ![u] = @ - a]
             /\ UNCHANGED earned
             /\ \A v \in Users : v # u =>
                   posted'[v]["RESERVATION"] = posted[v]["RESERVATION"]
  <2>1. a \in Nat \ {0} /\ "RESERVATION" \in EntryTypes
    BY Assumed DEF Assumptions, EntryTypes
  <2>2. Post(u, "RESERVATION", a, k)
    BY <1>2 DEF ReserveCredits
  <2>3. SumsAfter(u, "RESERVATION", a)
    BY <2>1, <2>2, PostEffect
  <2>4. QED
    BY <1>2, <2>1, <2>3 DEF ReserveCredits, MaySpend, Covered, SumsAfter
<1>3. ASSUME NEW q \in Requests, CommitRelease(q)
      PROVE  \E u \in Users, a \in Nat \ {0} :
               /\ balance' = [balance EXCEPT ![u] = @ + a]
               /\ UNCHANGED earned
               /\ Kept
  <2> DEFINE u == reservation[request[q].id].user
             a == reservation[request[q].id].amount
  <2>1. /\ u \in Users /\ a \in Nat \ {0}
        /\ ReleaseRowKey(q) \in AnyKey /\ "RELEASE" \in EntryTypes
    BY <1>3, Assumed
       DEF CommitRelease, TypeOK, Locals, Assumptions, ReleaseRowKey, EntryTypes
  <2>2. Post(u, "RELEASE", a, ReleaseRowKey(q)) /\ Raise(u, a) /\ UNCHANGED earned
    BY <1>3 DEF CommitRelease
  <2>3. SumsAfter(u, "RELEASE", a)
    BY <2>1, <2>2, PostEffect
  <2> HIDE DEF u, a
  <2>4. Kept
    BY <2>1, <2>3 DEF SumsAfter, EntryTypes
  <2>5. QED
    BY <2>1, <2>2, <2>4 DEF Raise
<1>4. ASSUME NEW q \in Requests, CommitConvert(q)
      PROVE  UNCHANGED <<balance, earned>> /\ Kept
  <2> DEFINE u == reservation[request[q].id].user
             a == reservation[request[q].id].amount
  <2>1. /\ u \in Users /\ a \in Nat
        /\ request[q].key \in AnyKey /\ "DEBIT" \in EntryTypes
    BY <1>4, Assumed DEF CommitConvert, TypeOK, Locals, Assumptions, EntryTypes
  <2>2. Post(u, "DEBIT", a, request[q].key) /\ UNCHANGED <<balance, earned>>
    BY <1>4 DEF CommitConvert
  <2>3. SumsAfter(u, "DEBIT", a)
    BY <2>1, <2>2, PostEffect
  <2> HIDE DEF u, a
  <2>4. QED
    BY <2>1, <2>2, <2>3 DEF SumsAfter, EntryTypes
<1>5. CASE UNCHANGED <<balance, earned, posted>>
  BY <1>5
<1>6. QED
  <2>1. ASSUME NEW q \in Requests, NEW d \in SettlingTypes, NEW r \in Reservations,
               NEW k \in AnyKey, PreCheck(q, d, r, k) \/ Begin(q, d, r, k)
        PROVE  UNCHANGED <<balance, earned, posted>>
    BY <2>1 DEF PreCheck, Begin
  <2>2. ASSUME NEW q \in Requests, CommitKnownDebit(q) \/ Rollback(q)
        PROVE  UNCHANGED <<balance, earned, posted>>
    BY <2>2 DEF CommitKnownDebit, Rollback
  <2>3. CASE UNCHANGED vars
    BY <2>3, <1>5 DEF vars
  <2>4. QED
    BY <1>1, <1>2, <1>3, <1>4, <1>5, <2>1, <2>2, <2>3, StepCases

\* Whoever has ever reserved credits had earned more than the gate by then.
THEOREM GateHolds == Spec => []SpendingGate
<1>1. Init => SpendingGate
  BY DEF Init, SpendingGate, EntryTypes
<1>2. TypeOK /\ SpendingGate /\ [Next]_vars => SpendingGate'
  <2> SUFFICES ASSUME TypeOK, SpendingGate, [Next]_vars, NEW v \in Users,
                      posted'[v]["RESERVATION"] > 0
               PROVE  earned'[v] > Gate
    BY DEF SpendingGate
  <2>1. earned[v] \in Nat /\ Gate \in Nat
    BY Assumed DEF TypeOK, Assumptions
  <2>2. CASE \E u \in Users, a \in Nat \ {0} :
               /\ earned' = [earned EXCEPT ![u] = @ + a] \/ UNCHANGED earned
               /\ posted'[v]["RESERVATION"] = posted[v]["RESERVATION"]
    <3>1. earned[v] > Gate
      BY <2>2 DEF SpendingGate
    <3>2. earned'[v] >= earned[v]
      BY <2>1, <2>2 DEF TypeOK
    <3>3. earned'[v] \in Nat
      BY <2>1, <2>2 DEF TypeOK
    <3>4. QED
      BY <2>1, <3>1, <3>2, <3>3
  <2>3. CASE \E u \in Users :
               /\ earned[u] > Gate /\ UNCHANGED earned
               /\ v # u => posted'[v]["RESERVATION"] = posted[v]["RESERVATION"]
    BY <2>3 DEF SpendingGate
  <2>4. CASE UNCHANGED earned /\ posted'[v]["RESERVATION"] = posted[v]["RESERVATION"]
    BY <2>4 DEF SpendingGate
  <2>5. QED
    BY <2>2, <2>3, <2>4, MoneyMoves
<1>3. QED
  BY <1>1, <1>2, TypeCorrect, PTL DEF Spec

\* Every step of the tables is a step of the abstract wallet, or none: credits
\* move by earning, handing back, or spending what is covered.
THEOREM CreditsImplementWallet == Spec => ImplementsWallet
<1>1. Init => W!Init
  BY DEF Init, W!Init
<1>2. TypeOK /\ [Next]_vars => [W!Next]_(W!vars)
  <2> SUFFICES ASSUME TypeOK, [Next]_vars PROVE [W!Next]_(W!vars)
    OBVIOUS
  <2>1. ASSUME NEW u \in Users, NEW a \in Nat \ {0},
               balance' = [balance EXCEPT ![u] = @ + a],
               earned' = [earned EXCEPT ![u] = @ + a] \/ UNCHANGED earned
        PROVE  W!Next
    <3>1. balance[u] \in Nat /\ balance'[u] = balance[u] + a
      BY <2>1 DEF TypeOK
    <3>2. W!Delta(u) = a
      BY <3>1 DEF W!Delta
    <3>3. W!Move(u, a)
      BY <2>1 DEF W!Move, W!Earn, W!HandBack
    <3>4. QED
      BY <3>2, <3>3 DEF W!Next
  <2>2. ASSUME NEW u \in Users, NEW a \in Nat \ {0}, earned[u] > Gate,
               a <= balance[u], balance' = [balance EXCEPT ![u] = @ - a],
               UNCHANGED earned
        PROVE  W!Next
    <3>1. balance[u] \in Nat /\ balance'[u] = balance[u] - a
      BY <2>2 DEF TypeOK
    <3>2. W!Delta(u) = a
      BY <3>1 DEF W!Delta
    <3>3. W!Move(u, a)
      BY <2>2 DEF W!Move, W!Spend
    <3>4. QED
      BY <3>2, <3>3 DEF W!Next
  <2>3. CASE UNCHANGED <<balance, earned>>
    BY <2>3 DEF W!vars
  <2>4. QED
    BY <2>1, <2>2, <2>3, MoneyMoves
<1>3. QED
  BY <1>1, <1>2, TypeCorrect, PTL DEF Spec, ImplementsWallet, W!Spec
-----------------------------------------------------------------------------
(* Settlement.  Nothing in the code makes a second settlement of the same  *)
(* reservation impossible; what bounds it is that a request must have      *)
(* taken its snapshot before the first one.  Racing(r) are the requests    *)
(* that still can: each settlement uses one of them up, and once r is no   *)
(* longer ACTIVE no new one joins.                                         *)

Racing(r) == {q \in Requests : request[q].at \in {"open", "known"} /\ request[q].id = r}

Open(r) == reservation[r].status \in {"none", "ACTIVE"}
Total(r) == settled[r]["RELEASE"] + settled[r]["DEBIT"]

RaceInv ==
    \A r \in Reservations :
        /\ Open(r) => Total(r) = 0 /\ told[r] = {}
        /\ ~Open(r) => Total(r) + Cardinality(Racing(r)) <= Cardinality(Requests)

LEMMA RacingCard ==
  ASSUME NEW r
  PROVE  /\ IsFiniteSet(Racing(r)) /\ IsFiniteSet(Racing(r)')
         /\ Cardinality(Racing(r)) \in Nat /\ Cardinality(Racing(r)') \in Nat
         /\ Cardinality(Requests) \in Nat
         /\ Cardinality(Racing(r)) <= Cardinality(Requests)
         /\ Racing(r)' \subseteq Racing(r) =>
               Cardinality(Racing(r)') <= Cardinality(Racing(r))
<1>1. IsFiniteSet(Requests)
  BY RequestsAssumption
<1>2. Racing(r) \subseteq Requests /\ Racing(r)' \subseteq Requests
  BY DEF Racing
<1>3. /\ IsFiniteSet(Racing(r)) /\ Cardinality(Racing(r)) <= Cardinality(Requests)
      /\ IsFiniteSet(Racing(r)')
  BY <1>1, <1>2, FS_Subset
<1>4. /\ Cardinality(Racing(r)) \in Nat /\ Cardinality(Racing(r)') \in Nat
      /\ Cardinality(Requests) \in Nat
  BY <1>1, <1>3, FS_CardinalityType
<1>5. Racing(r)' \subseteq Racing(r) =>
        Cardinality(Racing(r)') <= Cardinality(Racing(r))
  BY <1>3, FS_Subset
<1>6. QED
  BY <1>1, <1>3, <1>4, <1>5

\* Nothing is settled and no request joins the race for a row that is not ACTIVE.
LEMMA RaceKept ==
  ASSUME TypeOK, RaceInv, NEW r \in Reservations,
         settled'[r] = settled[r],
         Open(r)' <=> Open(r),
         Open(r) => told'[r] = told[r],
         ~Open(r) => Racing(r)' \subseteq Racing(r)
  PROVE  /\ Open(r)' => Total(r)' = 0 /\ told'[r] = {}
         /\ ~Open(r)' => Total(r)' + Cardinality(Racing(r)') <= Cardinality(Requests)
<1>1. Total(r)' = Total(r) /\ Total(r) \in Nat
  BY DEF Total, TypeOK, SettlingTypes
<1>2. QED
  BY <1>1, RacingCard DEF RaceInv

\* A request leaves the race by a settlement, or without one (n = 0).
LEMMA RaceCommit ==
  ASSUME TypeOK, RaceInv, NEW q \in Requests, NEW n \in {0, 1},
         NEW r \in Reservations, request[q].id = r,
         request[q].at \in {"open", "known"}, Done(q),
         ~Open(r)', Total(r)' = Total(r) + n,
         \A s \in Reservations : s # r =>
            reservation'[s] = reservation[s] /\ settled'[s] = settled[s]
  PROVE  RaceInv'
<1>1. r \in Reservations
  OBVIOUS
<1>2. request' = [request EXCEPT ![q] = Idle] /\ Idle.at = "idle"
  BY DEF Done, Idle, Local
<1>3. \A s \in Reservations : Racing(s)' = Racing(s) \ {q}
  BY <1>2 DEF Racing, TypeOK
<1>4. \A s \in Reservations : s # r => told'[s] = told[s]
  BY DEF Done, Answer, TypeOK
<1>5. ASSUME NEW s \in Reservations, s # r
      PROVE  /\ Open(s)' => Total(s)' = 0 /\ told'[s] = {}
             /\ ~Open(s)' => Total(s)' + Cardinality(Racing(s)') <= Cardinality(Requests)
  <2>1. settled'[s] = settled[s] /\ (Open(s)' <=> Open(s)) /\ told'[s] = told[s]
    BY <1>4, <1>5 DEF Open
  <2>2. Racing(s)' \subseteq Racing(s)
    BY <1>3
  <2>3. QED
    BY <2>1, <2>2, RaceKept
<1>6. Total(r)' + Cardinality(Racing(r)') <= Cardinality(Requests)
  <2>1. q \in Racing(r)
    BY DEF Racing
  <2>2. IsFiniteSet(Racing(r)) /\ Cardinality(Racing(r)) \in Nat
    BY RacingCard
  <2>3. Cardinality(Racing(r)') = Cardinality(Racing(r)) - 1
    BY <1>1, <1>3, <2>1, <2>2, FS_RemoveElement
  <2>4. Total(r) \in Nat /\ Total(r)' = Total(r) + n
    BY <1>1 DEF Total, TypeOK, SettlingTypes
  <2>5. Open(r) => Total(r) = 0
    BY <1>1 DEF RaceInv
  <2>6. ~Open(r) => Total(r) + Cardinality(Racing(r)) <= Cardinality(Requests)
    BY <1>1 DEF RaceInv
  <2>7. /\ Cardinality(Racing(r)) <= Cardinality(Requests)
        /\ Cardinality(Requests) \in Nat
    BY RacingCard
  <2>8. QED
    BY <2>2, <2>3, <2>4, <2>5, <2>6, <2>7
<1>7. QED
  BY <1>5, <1>6 DEF RaceInv

LEMMA RaceNext ==
  ASSUME TypeOK, RaceInv, [Next]_vars
  PROVE  RaceInv'
<1>1. ASSUME UNCHANGED <<reservation, request, settled, told>>
      PROVE  RaceInv'
  BY <1>1 DEF RaceInv, Open, Total, Racing
<1>2. ASSUME NEW u \in Users, NEW r \in Reservations, NEW a \in Amounts,
             NEW k \in AnyKey, ReserveCredits(u, r, a, k)
      PROVE  RaceInv'
  <2>1. /\ \A s \in Reservations : Open(s)' <=> Open(s)
        /\ UNCHANGED <<request, settled, told>>
    BY <1>2 DEF ReserveCredits, Open, TypeOK
  <2>2. \A s \in Reservations : Racing(s)' = Racing(s)
    BY <2>1 DEF Racing
  <2>3. ASSUME NEW s \in Reservations
        PROVE  /\ Open(s)' => Total(s)' = 0 /\ told'[s] = {}
               /\ ~Open(s)' =>
                     Total(s)' + Cardinality(Racing(s)') <= Cardinality(Requests)
    BY <2>1, <2>2, RaceKept
  <2>4. QED
    BY <2>3 DEF RaceInv
<1>3. ASSUME NEW q \in Requests, NEW d \in SettlingTypes, NEW r \in Reservations,
             NEW k \in AnyKey, PreCheck(q, d, r, k)
      PROVE  RaceInv'
  <2>1. UNCHANGED <<reservation, settled>>
    BY <1>3 DEF PreCheck
  <2>2. \A s \in Reservations : Open(s) => told'[s] = told[s]
    BY <1>3 DEF PreCheck, Open, Answer, TypeOK, SettledStatus
  <2>3. \A s \in Reservations : Racing(s)' \subseteq Racing(s)
    BY <1>3 DEF PreCheck, Racing, TypeOK, Local
  <2>4. ASSUME NEW s \in Reservations
        PROVE  /\ Open(s)' => Total(s)' = 0 /\ told'[s] = {}
               /\ ~Open(s)' =>
                     Total(s)' + Cardinality(Racing(s)') <= Cardinality(Requests)
    <3>1. settled'[s] = settled[s] /\ (Open(s)' <=> Open(s))
      BY <2>1 DEF Open
    <3>2. QED
      BY <2>2, <2>3, <3>1, RaceKept
  <2>5. QED
    BY <2>4 DEF RaceInv
<1>4. ASSUME NEW q \in Requests, NEW d \in SettlingTypes, NEW r \in Reservations,
             NEW k \in AnyKey, request[q].at \in {"idle", "checked"},
             reservation[r].status # "none", Begin(q, d, r, k)
      PROVE  RaceInv'
  <2>1. UNCHANGED <<reservation, settled>>
    BY <1>4 DEF Begin
  <2>2. \A s \in Reservations : Open(s) => told'[s] = told[s]
    BY <1>4 DEF Begin, Open, Answer, TypeOK, InSnapshot
  <2>3. \A s \in Reservations : ~Open(s) => Racing(s)' \subseteq Racing(s)
    <3>1. CASE InSnapshot(r)
      BY <1>4, <3>1 DEF Begin, Racing, TypeOK, Local, Open, InSnapshot
    <3>2. CASE ~InSnapshot(r)
      BY <1>4, <3>2 DEF Begin, Racing, TypeOK, Idle, Local
    <3>3. QED
      BY <3>1, <3>2
  <2>4. ASSUME NEW s \in Reservations
        PROVE  /\ Open(s)' => Total(s)' = 0 /\ told'[s] = {}
               /\ ~Open(s)' =>
                     Total(s)' + Cardinality(Racing(s)') <= Cardinality(Requests)
    <3>1. settled'[s] = settled[s] /\ (Open(s)' <=> Open(s))
      BY <2>1 DEF Open
    <3>2. QED
      BY <2>2, <2>3, <3>1, RaceKept
  <2>5. QED
    BY <2>4 DEF RaceInv
<1>5. ASSUME NEW q \in Requests, CommitRelease(q)
      PROVE  RaceInv'
  <2>0. PICK r \in Reservations : request[q].id = r /\ reservation[r].status # "none"
    BY <1>5 DEF CommitRelease, TypeOK
  <2>2. Mark(r, "RELEASED", reservation[r].key) /\ reservation[r].key \in AnyKey
    BY <1>5, <2>0 DEF CommitRelease, TypeOK, Row
  <2>3. ~Open(r)' /\ \A s \in Reservations : s # r => reservation'[s] = reservation[s]
    BY <2>0, <2>2, MarkEffect DEF Open, Statuses
  <2>4. /\ \A s \in Reservations : s # r => settled'[s] = settled[s]
        /\ Total(r)' = Total(r) + 1
    BY <1>5, <2>0 DEF CommitRelease, Total, TypeOK, SettlingTypes
  <2>5. request[q].at \in {"open", "known"} /\ Done(q)
    BY <1>5 DEF CommitRelease
  <2>6. QED
    BY <2>0, <2>3, <2>4, <2>5, RaceCommit
<1>6. ASSUME NEW q \in Requests, CommitConvert(q)
      PROVE  RaceInv'
  <2>0. PICK r \in Reservations : request[q].id = r /\ reservation[r].status # "none"
    BY <1>6 DEF CommitConvert, TypeOK
  <2> DEFINE k == IF request[q].seenKey = Null THEN request[q].key
                                               ELSE reservation[r].key
  <2>2. Mark(r, "CONVERTED", k) /\ k \in AnyKey
    BY <1>6, <2>0 DEF CommitConvert, TypeOK, Row, Locals
  <2>3. ~Open(r)' /\ \A s \in Reservations : s # r => reservation'[s] = reservation[s]
    BY <2>0, <2>2, MarkEffect DEF Open, Statuses
  <2>4. /\ \A s \in Reservations : s # r => settled'[s] = settled[s]
        /\ Total(r)' = Total(r) + 1
    BY <1>6, <2>0 DEF CommitConvert, Total, TypeOK, SettlingTypes
  <2>5. request[q].at \in {"open", "known"} /\ Done(q)
    BY <1>6 DEF CommitConvert
  <2>6. QED
    BY <2>0, <2>3, <2>4, <2>5, RaceCommit
<1>7. ASSUME NEW q \in Requests, CommitKnownDebit(q)
      PROVE  RaceInv'
  <2>0. PICK r \in Reservations : request[q].id = r /\ reservation[r].status # "none"
    BY <1>7 DEF CommitKnownDebit, TypeOK
  <2>2. Mark(r, "CONVERTED", reservation[r].key) /\ reservation[r].key \in AnyKey
    BY <1>7, <2>0 DEF CommitKnownDebit, TypeOK, Row
  <2>3. ~Open(r)' /\ \A s \in Reservations : s # r => reservation'[s] = reservation[s]
    BY <2>0, <2>2, MarkEffect DEF Open, Statuses
  <2>4. settled' = settled /\ Total(r)' = Total(r) + 0
    BY <1>7, <2>0 DEF CommitKnownDebit, Total, TypeOK, SettlingTypes
  <2>5. request[q].at \in {"open", "known"} /\ Done(q)
    BY <1>7 DEF CommitKnownDebit
  <2>6. QED
    BY <2>0, <2>3, <2>4, <2>5, RaceCommit
<1>8. ASSUME NEW q \in Requests, Rollback(q)
      PROVE  RaceInv'
  <2>1. UNCHANGED <<reservation, settled, told>>
    BY <1>8 DEF Rollback
  <2>2. \A s \in Reservations : Racing(s)' \subseteq Racing(s)
    BY <1>8 DEF Rollback, Racing, TypeOK, Idle, Local
  <2>3. ASSUME NEW s \in Reservations
        PROVE  /\ Open(s)' => Total(s)' = 0 /\ told'[s] = {}
               /\ ~Open(s)' =>
                     Total(s)' + Cardinality(Racing(s)') <= Cardinality(Requests)
    <3>1. settled'[s] = settled[s] /\ (Open(s)' <=> Open(s)) /\ told'[s] = told[s]
      BY <2>1 DEF Open
    <3>2. QED
      BY <2>2, <3>1, RaceKept
  <2>4. QED
    BY <2>3 DEF RaceInv
<1>9. QED
  <2>1. ASSUME NEW u \in Users, NEW a \in Amounts, NEW k \in AnyKey,
               NEW t \in {"CREDIT", "REFUND"}, AddCredits(u, a, t, k)
        PROVE  RaceInv'
    BY <1>1, <2>1 DEF AddCredits
  <2>2. CASE UNCHANGED vars
    BY <1>1, <2>2 DEF vars
  <2>3. QED
    BY <1>2, <1>3, <1>4, <1>5, <1>6, <1>7, <1>8, <2>1, <2>2, StepCases

LEMMA RaceInvHolds == Spec => []RaceInv
<1>1. Init => RaceInv
  BY DEF Init, RaceInv, Open, Total, NoReservation, SettlingTypes
<1>2. TypeOK /\ RaceInv /\ [Next]_vars => RaceInv'
  BY RaceNext
<1>3. QED
  BY <1>1, <1>2, TypeCorrect, PTL DEF Spec

\* A reservation is settled no more often than there are concurrent requests; one
\* settling request at a time therefore settles it once.
THEOREM RaceBound == Spec => []SettledWithinRace
<1>1. TypeOK /\ RaceInv => SettledWithinRace
  <2> SUFFICES ASSUME TypeOK, RaceInv, NEW r \in Reservations
               PROVE  Total(r) <= Cardinality(Requests)
    BY DEF SettledWithinRace, Total
  <2>1. Total(r) \in Nat
    BY DEF Total, TypeOK, SettlingTypes
  <2>2. QED
    BY <2>1, RacingCard DEF RaceInv
<1>2. QED
  BY <1>1, RaceInvHolds, TypeCorrect, PTL

\* An ACTIVE reservation has no settling row and no answer; a settled one never
\* becomes ACTIVE again.
THEOREM ActiveUntouched == Spec => []ActiveIsUnsettled
<1>1. TypeOK /\ RaceInv => ActiveIsUnsettled
  BY DEF TypeOK, RaceInv, ActiveIsUnsettled, Open, Total, SettlingTypes
<1>2. QED
  BY <1>1, RaceInvHolds, TypeCorrect, PTL
-----------------------------------------------------------------------------
(* A reservation made under a key.  Its RELEASE row carries that key, so   *)
(* the unique index of the ledger admits one: the index, not the status    *)
(* check, is what stops a double release.                                  *)

KeyedRow(r) ==
    /\ reservation[r].bornKey # Null => reservation[r].key = reservation[r].bornKey
    /\ settled[r]["RELEASE"] > 0 /\ reservation[r].bornKey # Null =>
          <<reservation[r].bornKey, "RELEASE">> \in index
    /\ reservation[r].bornKey # Null => settled[r]["RELEASE"] <= 1

KeyedRequest(q) ==
    request[q].at \in {"open", "known"} =>
        LET born == reservation[request[q].id].bornKey
        IN  born # Null => request[q].seenKey = born

KeyedInv ==
    /\ \A r \in Reservations : KeyedRow(r)
    /\ \A q \in Requests : KeyedRequest(q)

\* A request that did not just begin is as keyed as before.
LEMMA KeyedRequestsKept ==
  ASSUME TypeOK, KeyedInv,
         \A p \in Requests : request'[p].at \in {"open", "known"} =>
            request'[p] = request[p],
         \A r \in Reservations : reservation[r].status # "none" =>
            reservation'[r].bornKey = reservation[r].bornKey
  PROVE  \A q \in Requests : KeyedRequest(q)'
<1> SUFFICES ASSUME NEW q \in Requests, request'[q].at \in {"open", "known"}
             PROVE  KeyedRequest(q)'
  BY DEF KeyedRequest
<1>1. request'[q] = request[q]
  OBVIOUS
<1>2. /\ request[q].at \in {"open", "known"} /\ request[q].id \in Reservations
      /\ reservation[request[q].id].status # "none"
  BY <1>1 DEF TypeOK
<1>3. reservation'[request'[q].id].bornKey = reservation[request[q].id].bornKey
  BY <1>1, <1>2
<1>4. QED
  BY <1>1, <1>2, <1>3 DEF KeyedInv, KeyedRequest

LEMMA DoneRequests ==
  ASSUME TypeOK, NEW q \in Requests, request' = [request EXCEPT ![q] = Idle]
  PROVE  \A p \in Requests : request'[p].at \in {"open", "known"} =>
            request'[p] = request[p]
  BY DEF TypeOK, Idle, Local

LEMMA KeyedNext ==
  ASSUME TypeOK, RaceInv, KeyedInv, [Next]_vars
  PROVE  KeyedInv'
<1>1. ASSUME UNCHANGED <<reservation, settled>>, index \subseteq index',
             UNCHANGED request \/ \E q \in Requests : request' = [request EXCEPT ![q] = Idle]
      PROVE  KeyedInv'
  <2>1. \A r \in Reservations : KeyedRow(r)'
    BY <1>1 DEF KeyedInv, KeyedRow
  <2>2. \A p \in Requests : request'[p].at \in {"open", "known"} =>
            request'[p] = request[p]
    BY <1>1, DoneRequests
  <2>3. \A q \in Requests : KeyedRequest(q)'
    BY <1>1, <2>2, KeyedRequestsKept
  <2>4. QED
    BY <2>1, <2>3 DEF KeyedInv
<1>2. ASSUME NEW u \in Users, NEW a \in Amounts, NEW k \in AnyKey,
             NEW t \in {"CREDIT", "REFUND"}, AddCredits(u, a, t, k)
      PROVE  KeyedInv'
  <2>1. index \subseteq index'
    BY <1>2 DEF AddCredits, Post
  <2>2. QED
    BY <1>1, <1>2, <2>1 DEF AddCredits
<1>3. ASSUME NEW u \in Users, NEW r \in Reservations, NEW a \in Amounts,
             NEW k \in AnyKey, ReserveCredits(u, r, a, k)
      PROVE  KeyedInv'
  <2>1. /\ reservation[r].status = "none" /\ UNCHANGED <<request, settled>>
        /\ index \subseteq index'
    BY <1>3 DEF ReserveCredits, Post
  <2>2. \A s \in Reservations : s # r => reservation'[s] = reservation[s]
    BY <1>3 DEF ReserveCredits, TypeOK
  <2>3. reservation'[r].key = k /\ reservation'[r].bornKey = k
    BY <1>3 DEF ReserveCredits, TypeOK
  <2>4. settled[r]["RELEASE"] = 0
    BY <2>1 DEF RaceInv, Open, Total, TypeOK, SettlingTypes
  <2>5. \A s \in Reservations : KeyedRow(s)'
    BY <2>1, <2>2, <2>3, <2>4 DEF KeyedInv, KeyedRow
  <2>6. \A q \in Requests : KeyedRequest(q)'
    BY <2>1, <2>2, KeyedRequestsKept
  <2>7. QED
    BY <2>5, <2>6 DEF KeyedInv
<1>4. ASSUME NEW q \in Requests, NEW d \in SettlingTypes, NEW r \in Reservations,
             NEW k \in AnyKey, PreCheck(q, d, r, k)
      PROVE  KeyedInv'
  <2>1. UNCHANGED <<reservation, settled, index>>
    BY <1>4 DEF PreCheck
  <2>2. \A p \in Requests : request'[p].at \in {"open", "known"} =>
            request'[p] = request[p]
    BY <1>4 DEF PreCheck, TypeOK, Local
  <2>3. \A s \in Reservations : KeyedRow(s)'
    BY <2>1 DEF KeyedInv, KeyedRow
  <2>4. \A p \in Requests : KeyedRequest(p)'
    BY <2>1, <2>2, KeyedRequestsKept
  <2>5. QED
    BY <2>3, <2>4 DEF KeyedInv
<1>5. ASSUME NEW q \in Requests, NEW d \in SettlingTypes, NEW r \in Reservations,
             NEW k \in AnyKey, request[q].at \in {"idle", "checked"},
             reservation[r].status # "none", Begin(q, d, r, k)
      PROVE  KeyedInv'
  <2>1. UNCHANGED <<reservation, settled, index>>
    BY <1>5 DEF Begin
  <2>2. \A s \in Reservations : KeyedRow(s)'
    BY <2>1 DEF KeyedInv, KeyedRow
  <2>3. CASE InSnapshot(r)
    <3>1. /\ request'[q].id = r /\ request'[q].seenKey = reservation[r].key
          /\ \A p \in Requests : p # q => request'[p] = request[p]
      BY <1>5, <2>3 DEF Begin, Local, TypeOK
    <3>2. KeyedRequest(q)'
      BY <2>1, <3>1 DEF KeyedRequest, KeyedInv, KeyedRow
    <3>3. \A p \in Requests : p # q => KeyedRequest(p)'
      BY <2>1, <3>1 DEF KeyedRequest, KeyedInv
    <3>4. QED
      BY <2>2, <3>2, <3>3 DEF KeyedInv
  <2>4. CASE ~InSnapshot(r)
    <3>1. request' = [request EXCEPT ![q] = Idle]
      BY <1>5, <2>4 DEF Begin
    <3>2. QED
      BY <1>1, <2>1, <3>1
  <2>5. QED
    BY <2>3, <2>4
<1>6. ASSUME NEW q \in Requests, CommitRelease(q)
      PROVE  KeyedInv'
  <2>1. PICK r \in Reservations : request[q].id = r /\ reservation[r].status # "none"
    BY <1>6 DEF CommitRelease, TypeOK
  <2>2. Mark(r, "RELEASED", reservation[r].key) /\ reservation[r].key \in AnyKey
    BY <1>6, <2>1 DEF CommitRelease, TypeOK, Row
  <2>3. /\ reservation'[r].key = reservation[r].key
        /\ reservation'[r].bornKey = reservation[r].bornKey
        /\ \A s \in Reservations : s # r => reservation'[s] = reservation[s]
    BY <2>1, <2>2, MarkEffect DEF Statuses
  <2>4. /\ settled'[r]["RELEASE"] = settled[r]["RELEASE"] + 1
        /\ settled[r]["RELEASE"] \in Nat
        /\ \A s \in Reservations : s # r => settled'[s] = settled[s]
    BY <1>6, <2>1 DEF CommitRelease, TypeOK, SettlingTypes
  <2>5. /\ index \subseteq index'
        /\ request[q].seenKey # Null =>
              /\ <<request[q].seenKey, "RELEASE">> \notin index
              /\ <<request[q].seenKey, "RELEASE">> \in index'
    BY <1>6 DEF CommitRelease, Post, Collides, ReleaseRowKey
  <2>6. reservation[r].bornKey # Null => request[q].seenKey = reservation[r].bornKey
    BY <1>6, <2>1 DEF CommitRelease, KeyedInv, KeyedRequest
  <2>7. KeyedRow(r)'
    BY <2>3, <2>4, <2>5, <2>6 DEF KeyedInv, KeyedRow
  <2>8. \A s \in Reservations : s # r => KeyedRow(s)'
    BY <2>3, <2>4, <2>5 DEF KeyedInv, KeyedRow
  <2>9. \A p \in Requests : KeyedRequest(p)'
    BY <1>6, <2>3, DoneRequests, KeyedRequestsKept DEF CommitRelease, Done
  <2>10. QED
    BY <2>7, <2>8, <2>9 DEF KeyedInv
<1>7. ASSUME NEW q \in Requests, CommitConvert(q)
      PROVE  KeyedInv'
  <2>1. PICK r \in Reservations : request[q].id = r /\ reservation[r].status # "none"
    BY <1>7 DEF CommitConvert, TypeOK
  <2> DEFINE k == IF request[q].seenKey = Null THEN request[q].key
                                               ELSE reservation[r].key
  <2>2. Mark(r, "CONVERTED", k) /\ k \in AnyKey
    BY <1>7, <2>1 DEF CommitConvert, TypeOK, Row, Locals
  <2>3. /\ reservation'[r].key = k
        /\ reservation'[r].bornKey = reservation[r].bornKey
        /\ \A s \in Reservations : s # r => reservation'[s] = reservation[s]
    BY <2>1, <2>2, MarkEffect DEF Statuses
  <2>4. /\ settled'[r]["RELEASE"] = settled[r]["RELEASE"]
        /\ \A s \in Reservations : s # r => settled'[s] = settled[s]
    BY <1>7, <2>1 DEF CommitConvert, TypeOK, SettlingTypes
  <2>5. index \subseteq index'
    BY <1>7 DEF CommitConvert, Post
  <2>6. reservation[r].bornKey # Null => request[q].seenKey = reservation[r].bornKey
    BY <1>7, <2>1 DEF CommitConvert, KeyedInv, KeyedRequest
  <2>7. KeyedRow(r)'
    BY <2>3, <2>4, <2>5, <2>6 DEF KeyedInv, KeyedRow
  <2>8. \A s \in Reservations : s # r => KeyedRow(s)'
    BY <2>3, <2>4, <2>5 DEF KeyedInv, KeyedRow
  <2>9. \A p \in Requests : KeyedRequest(p)'
    BY <1>7, <2>3, DoneRequests, KeyedRequestsKept DEF CommitConvert, Done
  <2>10. QED
    BY <2>7, <2>8, <2>9 DEF KeyedInv
<1>8. ASSUME NEW q \in Requests, CommitKnownDebit(q)
      PROVE  KeyedInv'
  <2>1. PICK r \in Reservations : request[q].id = r /\ reservation[r].status # "none"
    BY <1>8 DEF CommitKnownDebit, TypeOK
  <2>2. Mark(r, "CONVERTED", reservation[r].key) /\ reservation[r].key \in AnyKey
    BY <1>8, <2>1 DEF CommitKnownDebit, TypeOK, Row
  <2>3. /\ reservation'[r].key = reservation[r].key
        /\ reservation'[r].bornKey = reservation[r].bornKey
        /\ \A s \in Reservations : s # r => reservation'[s] = reservation[s]
    BY <2>1, <2>2, MarkEffect DEF Statuses
  <2>4. UNCHANGED <<settled, index>>
    BY <1>8 DEF CommitKnownDebit
  <2>5. \A s \in Reservations : KeyedRow(s)'
    BY <2>3, <2>4 DEF KeyedInv, KeyedRow
  <2>6. \A p \in Requests : KeyedRequest(p)'
    BY <1>8, <2>3, DoneRequests, KeyedRequestsKept DEF CommitKnownDebit, Done
  <2>7. QED
    BY <2>5, <2>6 DEF KeyedInv
<1>9. QED
  <2>1. ASSUME NEW q \in Requests, Rollback(q)
        PROVE  KeyedInv'
    BY <1>1, <2>1 DEF Rollback
  <2>2. CASE UNCHANGED vars
    BY <1>1, <2>2 DEF vars
  <2>3. QED
    BY <1>2, <1>3, <1>4, <1>5, <1>6, <1>7, <1>8, <2>1, <2>2, StepCases

\* Credits reserved under a key are never given back twice, however many
\* cancellations and late failures race (releaseReservation).
THEOREM KeyedReleaseHolds == Spec => []KeyedReleaseOnce
<1>1. Init => KeyedInv
  BY DEF Init, KeyedInv, KeyedRow, KeyedRequest, NoReservation, Idle, Local, SettlingTypes
<1>2. TypeOK /\ RaceInv /\ KeyedInv /\ [Next]_vars => KeyedInv'
  BY KeyedNext
<1>3. KeyedInv => KeyedReleaseOnce
  BY DEF KeyedInv, KeyedRow, KeyedReleaseOnce
<1>4. QED
  BY <1>1, <1>2, <1>3, TypeCorrect, RaceInvHolds, PTL DEF Spec
=============================================================================
