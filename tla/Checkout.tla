------------------------------ MODULE Checkout ------------------------------
(***************************************************************************)
(* The life of an order: creation, the two ways of paying (Stripe, or      *)
(* credits alone), activation of the package at the OCS, cancellation.     *)
(*                                                                         *)
(* A handler is a sequence of awaited calls, and between two of them every *)
(* other handler may run.  Each step below is one database statement, one  *)
(* credits transaction or one OCS call.  A handler keeps the order as it   *)
(* read it ("row"); orderRepository.save(order) writes every column that   *)
(* differs from the table at that moment, so it puts the whole row back,   *)
(* status included, whereas orderRepository.update writes what it names.   *)
(*                                                                         *)
(* Of the money only this is kept: whether a reservation covers the price, *)
(* and whether the reward chosen is a cashback.  The races inside the      *)
(* credits transactions are the subject of module Credits.                 *)
(***************************************************************************)
EXTENDS Integers, FiniteSets

CONSTANTS
    Orders,
    Kinds,          \* order types that are placed
    Reservations,   \* ids of credit reservations, used or not yet
    Intents,        \* Stripe payment-intent ids, used or not yet
    Keys,           \* Idempotency-Key values of complete-with-credits
    Null,
    Requests,       \* handler runs; each id is used once
    MaxInFlight,    \* bound: handlers that overlap
    MaxFaults,      \* bound: statements or credits calls that fail
    MaxCrashes      \* bound: restarts of the process

ASSUME NullAssumption ==
    Null \notin Orders /\ Null \notin Reservations /\ Null \notin Intents /\ Null \notin Keys
ASSUME KindsAssumption == Kinds \subseteq {"one_time", "recurring", "topup"}
ASSUME RequestsAssumption == IsFiniteSet(Requests)
ASSUME BoundsAssumption == {MaxInFlight, MaxFaults, MaxCrashes} \subseteq Nat

VARIABLES
    order,        \* the orders table
    reservation,  \* the reservations, as the credits service keeps them
    credited,     \* intents whose cashback is in the ledger
    intent,       \* Stripe's payment intents
    activations,  \* packages the OCS activated for an order
    request,      \* the handlers
    operated,     \* history: orders an administrator had processed
    faults,
    crashes

vars == <<order, reservation, credited, intent, activations, request, operated,
          faults, crashes>>

Statuses == {"none", "pending", "processing", "completed", "failed", "cancelled"}
Payments == {"unpaid", "succeeded", "failed"}
Handlers == {"success", "failed", "cancel", "complete", "apply", "price",
             "process", "topup"}
Points == {"new", "done", "convert", "cashback", "save", "process", "begin",
           "activate", "finish", "fail", "close", "release", "cancel",
           "reserve", "confirm", "capture", "giveUp", "reread"}

\* res is credits_reservation_id, key is paymentIntentId, cashback says that
\* reward_type is CASHBACK_10 with something to accrue.
NoOrder == [status |-> "none", kind |-> "one_time", payment |-> "unpaid",
            res |-> Null, cashback |-> FALSE, key |-> Null]

NoReservation == [status |-> "none", order |-> Null, covers |-> FALSE, by |-> "create"]
NoIntent == [order |-> Null, charged |-> FALSE, declined |-> FALSE]

\* A handler: the call it makes next, what it is, the order, the intent or
\* key it was called with, the reservation it deals with, its copy of the row.
Local(at, doing, o, arg, r, row) ==
    [at |-> at, doing |-> doing, order |-> o, arg |-> arg, res |-> r, row |-> row]

Unused == Local("new", "success", Null, Null, Null, NoOrder)
Ended == [Unused EXCEPT !.at = "done"]

Init ==
    /\ order = [o \in Orders |-> NoOrder]
    /\ reservation = [r \in Reservations |-> NoReservation]
    /\ credited = {}
    /\ intent = [p \in Intents |-> NoIntent]
    /\ activations = [o \in Orders |-> 0]
    /\ request = [q \in Requests |-> Unused]
    /\ operated = {}
    /\ faults = 0
    /\ crashes = 0
-----------------------------------------------------------------------------
(* Moving a handler along.                                                 *)

InFlight == {q \in Requests : request[q].at \notin {"new", "done"}}

CanStart(q, o) ==
    /\ request[q].at = "new"
    /\ Cardinality(InFlight) < MaxInFlight
    /\ order[o].status # "none"

Enter(q, at, doing, o, arg, r, row) ==
    request' = [request EXCEPT ![q] = Local(at, doing, o, arg, r, row)]

Go(q, at) == request' = [request EXCEPT ![q].at = at]
Finish(q) == request' = [request EXCEPT ![q] = Ended]

\* The four points inside processOrder, where the caller may catch an error.
Processing == {"process", "begin", "activate", "finish", "fail"}

\* Where an exception goes that is thrown at a point of handler q.
Raise(q) ==
    CASE request[q].doing = "success" /\ request[q].at \in Processing -> Go(q, "close")
      [] request[q].doing = "complete"
           /\ request[q].at \notin {"reserve", "giveUp"}               -> Go(q, "giveUp")
      [] request[q].doing = "cancel" /\ request[q].at = "release"      -> Go(q, "cancel")
      [] OTHER                                                         -> Finish(q)
-----------------------------------------------------------------------------
(* Placing an order.  The response, and with it the id the other calls     *)
(* need, is sent when create has ended, so create is a single step.  Its   *)
(* credits errors are logged and swallowed.                                *)

Place(o, kind, cash, r) ==
    order' = [order EXCEPT ![o] =
        [NoOrder EXCEPT !.status = "pending", !.kind = kind, !.cashback = cash,
                        !.res = r]]

Hold(r, o, covers, by) ==
    /\ reservation[r].status = "none"
    /\ reservation' = [reservation EXCEPT ![r] =
          [status |-> "ACTIVE", order |-> o, covers |-> covers, by |-> by]]

Create(o, kind, cash) ==
    /\ order[o].status = "none"
    /\ \/ Place(o, kind, cash, Null) /\ UNCHANGED <<reservation, faults>>
       \/ \E r \in Reservations, covers \in BOOLEAN :
             /\ Hold(r, o, covers, "create")
             /\ \/ Place(o, kind, cash, r) /\ UNCHANGED faults
                \/ /\ faults < MaxFaults
                   /\ faults' = faults + 1
                   /\ Place(o, kind, cash, Null)
    /\ UNCHANGED <<credited, intent, activations, request, operated, crashes>>

\* Stripe: an intent is created for an order, cards may be declined for it, and
\* one of them is charged in the end.
CreatePaymentIntent(p, o) ==
    /\ intent[p].order = Null
    /\ order[o].status # "none"
    /\ intent' = [intent EXCEPT ![p].order = o]
    /\ UNCHANGED <<order, reservation, credited, activations, request, operated,
                   faults, crashes>>

Decline(p) ==
    /\ intent[p].order # Null
    /\ ~intent[p].charged /\ ~intent[p].declined
    /\ intent' = [intent EXCEPT ![p].declined = TRUE]
    /\ UNCHANGED <<order, reservation, credited, activations, request, operated,
                   faults, crashes>>

Charge(p) ==
    /\ intent[p].order # Null
    /\ ~intent[p].charged
    /\ intent' = [intent EXCEPT ![p].charged = TRUE]
    /\ UNCHANGED <<order, reservation, credited, activations, request, operated,
                   faults, crashes>>
-----------------------------------------------------------------------------
(* The first statement of each handler: read the order, check, go on.      *)

NothingElse ==
    UNCHANGED <<order, reservation, credited, intent, activations, operated,
                faults, crashes>>

\* What handlePaymentSuccess does once the reservation is converted.
AfterConvert(row) == IF row.cashback THEN "cashback" ELSE "save"

\* The two webhooks and POST /payments/confirm.  Events come late, in any order
\* and more than once, but never of what did not happen.
HandlePaymentSuccess(q, p) ==
    LET o == intent[p].order
        row == order[o]
    IN  /\ intent[p].charged
        /\ CanStart(q, o)
        /\ IF row.status = "completed"
             THEN Finish(q)
             ELSE Enter(q, IF row.res # Null THEN "convert" ELSE AfterConvert(row),
                        "success", o, p, row.res,
                        [row EXCEPT !.payment = "succeeded"])
        /\ NothingElse

HandlePaymentFailed(q, p) ==
    LET o == intent[p].order
        row == order[o]
    IN  /\ intent[p].declined
        /\ CanStart(q, o)
        /\ Enter(q, IF row.res # Null THEN "release" ELSE "save", "failed", o, p,
                 row.res, [row EXCEPT !.payment = "failed", !.res = Null])
        /\ NothingElse

Cancel(q, o) ==
    LET row == order[o]
    IN  /\ CanStart(q, o)
        /\ row.status # "completed"
        /\ Enter(q, IF row.res # Null THEN "release" ELSE "cancel", "cancel", o,
                 Null, row.res, row)
        /\ NothingElse

ApplyCredits(q, o) ==
    LET row == order[o]
    IN  /\ CanStart(q, o)
        /\ row.status = "pending"
        /\ Enter(q, IF row.res # Null THEN "release" ELSE "save", "apply", o,
                 Null, row.res, [row EXCEPT !.res = Null])
        /\ NothingElse

\* setReward, and removePromoCode which changes prices only.
SetReward(q, o, cash) ==
    /\ CanStart(q, o)
    /\ order[o].status = "pending"
    /\ Enter(q, "save", "price", o, Null, Null, [order[o] EXCEPT !.cashback = cash])
    /\ NothingElse

RemovePromoCode(q, o) == SetReward(q, o, order[o].cashback)

\* applyPromoCode validates against one read of the order and saves another.
ApplyPromoCode(q, o) ==
    /\ CanStart(q, o)
    /\ order[o].status = "pending"
    /\ Enter(q, "reread", "price", o, Null, Null, NoOrder)
    /\ NothingElse

Reread(q) ==
    /\ request[q].at = "reread"
    /\ request' = [request EXCEPT ![q].at = "save", ![q].row = order[request[q].order]]
    /\ NothingElse

\* The administrator's POST /orders/:id/process and /orders/:id/topup-process.
ProcessOrder(q, o) ==
    /\ CanStart(q, o)
    /\ Enter(q, "process", "process", o, Null, Null, NoOrder)
    /\ operated' = operated \cup {o}
    /\ UNCHANGED <<order, reservation, credited, intent, activations, faults, crashes>>

ProcessTopup(q, o) ==
    /\ CanStart(q, o)
    /\ order[o].kind = "topup"
    /\ Enter(q, "begin", "topup", o, Null, Null, NoOrder)
    /\ operated' = operated \cup {o}
    /\ UNCHANGED <<order, reservation, credited, intent, activations, faults, crashes>>

\* complete-with-credits; an Idempotency-Key seen on the completed order ends
\* it, and so does a balance below the price (neither changes anything).
CompleteWithCredits(q, o, key) ==
    LET row == order[o]
    IN  /\ CanStart(q, o)
        /\ ~(key # Null /\ row.key = key /\ row.status = "completed")
        /\ Enter(q, IF row.res = Null THEN "reserve" ELSE "confirm", "complete", o,
                 key, row.res, row)
        /\ NothingElse
-----------------------------------------------------------------------------
(* Credits calls.  Releasing and converting act on an ACTIVE reservation   *)
(* and do nothing, without an error, to any other.                         *)

SettleAs(r, status) ==
    reservation' =
        IF r # Null /\ reservation[r].status = "ACTIVE"
          THEN [reservation EXCEPT ![r].status = status]
          ELSE reservation

\* Mutant of Convert: an error of the conversion is logged and swallowed.
ConvertOrNot(q) ==
    /\ request[q].at = "convert"
    /\ SettleAs(request[q].res, "CONVERTED") \/ UNCHANGED reservation
    /\ Go(q, AfterConvert(request[q].row))
    /\ UNCHANGED <<order, credited, intent, activations, operated, faults, crashes>>

Convert(q) ==
    /\ request[q].at = "convert"
    /\ SettleAs(request[q].res, "CONVERTED")
    /\ Go(q, AfterConvert(request[q].row))
    /\ UNCHANGED <<order, credited, intent, activations, operated, faults, crashes>>

\* The CREDIT row has the intent as its key: a second one is skipped.
Cashback(q) ==
    /\ request[q].at = "cashback"
    /\ credited' = credited \cup {request[q].arg}
    /\ Go(q, "save")
    /\ UNCHANGED <<order, reservation, intent, activations, operated, faults, crashes>>

Release(q) ==
    /\ request[q].at = "release"
    /\ SettleAs(request[q].res, "RELEASED")
    /\ Go(q, IF request[q].doing = "cancel" THEN "cancel" ELSE "save")
    /\ UNCHANGED <<order, credited, intent, activations, operated, faults, crashes>>

\* The reservation of the order, or else a new one for the whole price, which
\* the credits service may refuse.
Reserve(q) ==
    /\ request[q].at = "reserve"
    /\ \/ \E r \in Reservations :
             /\ Hold(r, request[q].order, TRUE, "complete")
             /\ request' = [request EXCEPT ![q].at = "confirm", ![q].res = r]
       \/ Finish(q) /\ UNCHANGED reservation
    /\ UNCHANGED <<order, credited, intent, activations, operated, faults, crashes>>

\* Mutant of Confirm: any reservation counts as confirmed.
ConfirmAnything(q) ==
    /\ request[q].at = "confirm"
    /\ Go(q, "capture")
    /\ NothingElse

\* confirmReservationWithIdempotency: reads the reservation, then converts it.
Confirm(q) ==
    /\ request[q].at = "confirm"
    /\ IF reservation[request[q].res].status = "RELEASED" THEN Raise(q)
                                                          ELSE Go(q, "capture")
    /\ NothingElse

Capture(q) ==
    /\ request[q].at = "capture"
    /\ SettleAs(request[q].res, "CONVERTED")
    /\ request' = [request EXCEPT
          ![q].at = "save",
          ![q].row = [@ EXCEPT !.status = "pending", !.payment = "succeeded",
                               !.res = request[q].res,
                               !.key = IF request[q].arg = Null
                                         THEN request[q].row.key ELSE request[q].arg]]
    /\ UNCHANGED <<order, credited, intent, activations, operated, faults, crashes>>

\* Mutant of GiveUp: the error is passed on with nothing cancelled.
GiveUpSilently(q) ==
    /\ request[q].at = "giveUp"
    /\ Finish(q)
    /\ NothingElse

\* The catch of completeWithCredits: the reservation is cancelled, which fails,
\* and is only logged, when it is converted.
GiveUp(q) ==
    /\ request[q].at = "giveUp"
    /\ SettleAs(request[q].res, "RELEASED")
    /\ Finish(q)
    /\ UNCHANGED <<order, credited, intent, activations, operated, faults, crashes>>
-----------------------------------------------------------------------------
(* Writes to the order.                                                    *)

\* orderRepository.save(order) with the row the handler read.
SaveRow(q) ==
    /\ request[q].at = "save"
    /\ order' = [order EXCEPT ![request[q].order] = request[q].row]
    /\ IF request[q].doing \in {"success", "complete"} THEN Go(q, "process")
                                                       ELSE Finish(q)
    /\ UNCHANGED <<reservation, credited, intent, activations, operated, faults, crashes>>

\* orderRepository.update(id, { status }).
SetStatus(q, status) ==
    /\ order' = [order EXCEPT ![request[q].order].status = status]
    /\ UNCHANGED <<reservation, credited, intent, activations, operated, faults, crashes>>

\* Mutant of CancelOrder: the spelling of the payment status.
CancelOrderMisspelt(q) ==
    /\ request[q].at = "cancel"
    /\ SetStatus(q, "canceled")
    /\ Finish(q)

CancelOrder(q) ==
    /\ request[q].at = "cancel"
    /\ SetStatus(q, "cancelled")
    /\ Finish(q)

\* processOrder: read, and return, throw or go on.
Load(q) ==
    LET status == order[request[q].order].status
    IN  /\ request[q].at = "process"
        /\ CASE status = "pending"                      -> Go(q, "begin")
             [] status \in {"completed", "processing"} -> Finish(q)
             [] OTHER                                   -> Raise(q)
        /\ NothingElse

Begin(q) ==
    /\ request[q].at = "begin"
    /\ SetStatus(q, "processing")
    /\ Go(q, "activate")

\* Mutant of InsistsOnPackage.
InsistsOnNothing(o) == FALSE

\* Only a one-time order insists on an answer that has the package in it.
InsistsOnPackage(o) == order[o].kind = "one_time"

\* The OCS activates a package and answers; or its answer is lost, or comes after
\* the time-out; or it refuses; or it answers with nothing in it.
Activate(q) ==
    LET o == request[q].order
    IN  /\ request[q].at = "activate"
        /\ \/ /\ activations' = [activations EXCEPT ![o] = @ + 1]
              /\ Go(q, "finish") \/ Go(q, "fail")
           \/ /\ UNCHANGED activations
              /\ Go(q, "fail") \/ (~InsistsOnPackage(o) /\ Go(q, "finish"))
        /\ UNCHANGED <<order, reservation, credited, intent, operated, faults, crashes>>

\* Referral rewards, the usage record and the e-mail follow; their errors are
\* swallowed and they leave the order as it is.
FinishOrder(q) ==
    /\ request[q].at = "finish"
    /\ SetStatus(q, "completed")
    /\ Finish(q)

\* Mutant of FailOrder: the error is passed on without a status.
FailOrderUnrecorded(q) ==
    /\ request[q].at = "fail"
    /\ Raise(q)
    /\ NothingElse

FailOrder(q) ==
    /\ request[q].at = "fail"
    /\ SetStatus(q, "failed")
    /\ Raise(q)

\* Mutant of Close: the failure of processOrder is only logged.
CloseWithLog(q) ==
    /\ request[q].at = "close"
    /\ Finish(q)
    /\ NothingElse

\* handlePaymentSuccess marks the paid order completed although it failed.
Close(q) ==
    /\ request[q].at = "close"
    /\ SetStatus(q, "completed")
    /\ Finish(q)
-----------------------------------------------------------------------------
\* A statement or a credits transaction fails instead of having its effect.  What
\* fails inside processOrder after PROCESSING is written is caught there first.
Fault(q) ==
    /\ request[q].at \notin {"new", "done", "activate"}
    /\ faults < MaxFaults
    /\ faults' = faults + 1
    /\ IF request[q].at = "finish" \/ (request[q].at = "begin" /\ request[q].doing = "topup")
         THEN Go(q, "fail")
         ELSE Raise(q)
    /\ UNCHANGED <<order, reservation, credited, intent, activations, operated, crashes>>

\* The process restarts: whatever was in flight is gone.
Crash ==
    /\ InFlight # {}
    /\ crashes < MaxCrashes
    /\ crashes' = crashes + 1
    /\ request' = [q \in Requests |-> IF q \in InFlight THEN Ended ELSE request[q]]
    /\ UNCHANGED <<order, reservation, credited, intent, activations, operated, faults>>

Start(q) ==
    \/ \E p \in Intents : HandlePaymentSuccess(q, p) \/ HandlePaymentFailed(q, p)
    \/ \E o \in Orders :
          \/ Cancel(q, o)
          \/ ApplyCredits(q, o)
          \/ \E cash \in BOOLEAN : SetReward(q, o, cash)
          \/ RemovePromoCode(q, o)
          \/ ApplyPromoCode(q, o)
          \/ ProcessOrder(q, o)
          \/ ProcessTopup(q, o)
          \/ \E key \in Keys \cup {Null} : CompleteWithCredits(q, o, key)

Continue(q) ==
    \/ Convert(q) \/ Cashback(q) \/ Release(q) \/ Reread(q)
    \/ Reserve(q) \/ Confirm(q) \/ Capture(q) \/ GiveUp(q)
    \/ SaveRow(q) \/ CancelOrder(q)
    \/ Load(q) \/ Begin(q) \/ Activate(q) \/ FinishOrder(q) \/ FailOrder(q) \/ Close(q)

Next ==
    \/ \E o \in Orders, kind \in Kinds, cash \in BOOLEAN : Create(o, kind, cash)
    \/ \E p \in Intents :
          \/ \E o \in Orders : CreatePaymentIntent(p, o)
          \/ Decline(p)
          \/ Charge(p)
    \/ \E q \in Requests : Start(q) \/ Continue(q) \/ Fault(q)
    \/ Crash

Spec == Init /\ [][Next]_vars

\* A handler that has begun goes on: the event loop runs every continuation, and
\* the database and the OCS client (15 s time-out) answer or throw.
FairSpec == Spec /\ \A q \in Requests : WF_vars(Continue(q))
-----------------------------------------------------------------------------
Rows == [status : Statuses, kind : {"one_time"} \cup Kinds, payment : Payments,
         res : Reservations \cup {Null}, cashback : BOOLEAN, key : Keys \cup {Null}]
Holds == [status : {"none", "ACTIVE", "RELEASED", "CONVERTED"},
          order : Orders \cup {Null}, covers : BOOLEAN, by : {"create", "complete"}]
Locals == [at : Points, doing : Handlers, order : Orders \cup {Null},
           arg : Intents \cup Keys \cup {Null}, res : Reservations \cup {Null},
           row : Rows]

TypeOK ==
    /\ order \in [Orders -> Rows]
    /\ reservation \in [Reservations -> Holds]
    /\ credited \subseteq Intents
    /\ intent \in [Intents -> [order : Orders \cup {Null}, charged : BOOLEAN,
                               declined : BOOLEAN]]
    /\ activations \in [Orders -> Nat]
    /\ request \in [Requests -> Locals]
    /\ \A q \in InFlight : request[q].order \in Orders
    /\ operated \subseteq Orders
    /\ faults \in 0..MaxFaults
    /\ crashes \in 0..MaxCrashes

Charged(o) == \E p \in Intents : intent[p].order = o /\ intent[p].charged
Captured(o) == \E r \in Reservations :
                  reservation[r].order = o /\ reservation[r].status = "CONVERTED"

\* An order on which a payment is recorded as succeeded names no reservation that
\* still holds credits: whichever handlers write back old rows, a crash between
\* the conversion and the save included.
PaidHoldsNothing ==
    \A o \in Orders :
        order[o].payment = "succeeded" /\ order[o].res # Null =>
            reservation[order[o].res].status # "ACTIVE"

\* No one-time order is completed for nothing: the OCS activated a package for
\* it, or Stripe charged for it (handlePaymentSuccess completes it regardless).
CompletedForSomething ==
    \A o \in Orders :
        order[o].status = "completed" /\ order[o].kind = "one_time" =>
            activations[o] > 0 \/ Charged(o)

\* Credits that complete-with-credits reserved are captured or handed back when
\* it ends, unless the process died or both a step and its clean-up failed.
CompleteLeavesNoHold ==
    crashes = 0 /\ faults <= 1 =>
        \A r \in Reservations :
            reservation[r].by = "complete" /\ reservation[r].status = "ACTIVE" =>
                \E q \in InFlight : request[q].doing = "complete" /\ request[q].res = r

\* Nothing is activated unpaid, when handlers do not overlap: Stripe charged for
\* the order, or credits were captured, or an administrator asked for it.
ActivatedIsPaid ==
    \A o \in Orders :
        activations[o] > 0 => Charged(o) \/ Captured(o) \/ o \in operated

\* An order is processing only while a handler is at work on it, as the early return
\* "Already being processed" (orders.service.ts:195) supposes, provided that handlers
\* do not overlap.
ProcessingIsOwned ==
    \A o \in Orders :
        order[o].status = "processing" =>
            \E q \in InFlight : request[q].order = o /\ request[q].at \in Processing

\* A recorded Stripe payment leads to a completed order, whatever the OCS does
\* (orders.service.ts:1963 and 1972), provided that handlers do not overlap.
PaymentIsAnswered ==
    \A o \in Orders :
        (\E q \in InFlight : /\ request[q].order = o
                             /\ request[q].doing = "success"
                             /\ request[q].at = "process")
            ~> order[o].status = "completed"

\* orders.service.ts:1602: an order completed with credits is paid fully with
\* them, that is, the reservation captured covers its price.
PaidInFull ==
    \A o \in Orders :
        order[o].payment = "succeeded" /\ ~Charged(o) =>
            \E r \in Reservations :
                /\ reservation[r].order = o
                /\ reservation[r].status = "CONVERTED"
                /\ reservation[r].covers

\* orders.service.ts:1752: an order that completing with credits failed for has
\* its reservation released.
FailedGivesBack ==
    \A o \in Orders :
        order[o].status = "failed" /\ InFlight = {} /\ ~Charged(o) => ~Captured(o)
=============================================================================
