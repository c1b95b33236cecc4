------------------------ MODULE CheckoutSerialProofs ------------------------
(***************************************************************************)
(* Theorems about Checkout when handlers do not overlap: every call is     *)
(* answered before the next one comes, as a test would make them.  Orders, *)
(* reservations, intents and requests are as many as one likes.            *)
(***************************************************************************)
EXTENDS CheckoutProofs, FiniteSetTheorems

OneAtATime == \A p, q \in Requests :
    request[p].at \notin Paused /\ request[q].at \notin Paused => p = q

\* A reservation that an order, or a handler of it, names was made for that order.
MadeFor(r, o) == r # Null => reservation[r].order = o

NamesItsOwn == \A o \in Orders : MadeFor(order[o].res, o)

\* What a handler knows of its reservations, and why it may activate a package.
Knows(q) ==
    LET h == request[q]
    IN  h.at \notin Paused =>
          /\ MadeFor(h.res, h.order)
          /\ h.at \in RowPoints => MadeFor(h.row.res, h.order)
          /\ h.at \in {"confirm", "capture"} => h.res # Null
          /\ h.at = "capture" => reservation[h.res].status \in {"ACTIVE", "CONVERTED"}
          /\ h.at \in Processing => h.doing \in {"success", "complete", "process", "topup"}
          /\ h.doing = "complete" /\ h.at \in {"save"} \cup Processing => Captured(h.order)
          /\ h.doing \in {"process", "topup"} => h.order \in operated
          /\ h.at \in {"release", "reread"} => h.doing # "complete"

Serial ==
    /\ OneAtATime
    /\ NamesItsOwn
    /\ \A q \in Requests : Knows(q)
    /\ ActivatedIsPaid

\* With nothing that fails, an order is processing only while its handler is between
\* the two writes, and the row of no handler says that the order is processing.
Working == {"activate", "finish", "fail"}

Attended ==
    /\ \A o \in Orders :
          order[o].status = "processing" =>
              \E q \in Requests : request[q].order = o /\ request[q].at \in Working
    /\ \A q \in Requests :
          request[q].at \in RowPoints => request[q].row.status # "processing"

-----------------------------------------------------------------------------
(* What lasts: who a reservation was made for, its conversion, a charge,   *)
(* and that an administrator asked.                                        *)

KeepsReservations ==
    \A r \in Reservations : Used(r) =>
        /\ Used(r)' /\ reservation'[r].order = reservation[r].order
        /\ reservation[r].status = "CONVERTED" => reservation'[r].status = "CONVERTED"

Lasts ==
    /\ KeepsReservations
    /\ \A p \in Intents :
          intent[p].charged => intent'[p].charged /\ intent'[p].order = intent[p].order
    /\ operated \subseteq operated'

LEMMA SettleKeeps ==
  ASSUME Inv, NEW r \in Reservations \cup {Null}, NEW status \in {"RELEASED", "CONVERTED"},
         SettleAs(r, status)
  PROVE  /\ KeepsReservations
         /\ (r # Null /\ reservation[r].status = "ACTIVE") => reservation'[r].status = status
         /\ (r # Null /\ reservation[r].status # "ACTIVE") => reservation' = reservation
<1>1. CASE r # Null /\ reservation[r].status = "ACTIVE"
  <2> DEFINE new == [reservation[r] EXCEPT !.status = status]
  <2>1. /\ r \in Reservations /\ reservation' = [reservation EXCEPT ![r] = new]
        /\ new.status = status /\ new.order = reservation[r].order
    BY <1>1 DEF SettleAs, Inv, Types, Holds
  <2> HIDE DEF new
  <2>2. QED
    BY <1>1, <2>1 DEF Inv, Types, KeepsReservations, Used
<1>2. CASE ~(r # Null /\ reservation[r].status = "ACTIVE")
  BY <1>2 DEF SettleAs, KeepsReservations, Used
<1>3. QED
  BY <1>1, <1>2

LEMMA HoldKeeps ==
  ASSUME Inv, NEW r \in Reservations, NEW o \in Orders, NEW covers, NEW by,
         Hold(r, o, covers, by)
  PROVE  /\ KeepsReservations
         /\ \A x \in Reservations : Used(x) => x # r /\ reservation'[x] = reservation[x]
         /\ reservation'[r].order = o /\ reservation'[r].status = "ACTIVE"
  BY DEF Hold, Inv, Types, KeepsReservations, Used

LEMMA CapturedLasts ==
  ASSUME Lasts, NEW o \in Orders, Captured(o)
  PROVE  Captured(o)'
<1>1. PICK r \in Reservations : reservation[r].order = o /\ reservation[r].status = "CONVERTED"
  BY DEF Captured
<1>2. reservation'[r].order = o /\ reservation'[r].status = "CONVERTED"
  BY <1>1 DEF Lasts, KeepsReservations, Used
<1>3. QED
  BY <1>2 DEF Captured

LEMMA PaidLasts ==
  ASSUME Lasts, NEW o \in Orders, Charged(o) \/ Captured(o) \/ o \in operated
  PROVE  Charged(o)' \/ Captured(o)' \/ o \in operated'
<1>1. Charged(o) => Charged(o)'
  BY DEF Charged, Lasts
<1>2. QED
  BY <1>1, CapturedLasts DEF Lasts

\* The reservations that anyone names are used, so their orders do not change.
LEMMA MadeForLasts ==
  ASSUME Inv, Lasts
  PROVE  /\ \A o \in Orders : MadeFor(order[o].res, o) => (order[o].res # Null =>
                reservation'[order[o].res].order = o)
         /\ \A q \in Requests :
              LET h == request[q]
              IN  h.at \notin Paused =>
                    /\ MadeFor(h.res, h.order) =>
                          (h.res # Null => reservation'[h.res].order = h.order)
                    /\ (h.at \in RowPoints /\ MadeFor(h.row.res, h.order)) =>
                          (h.row.res # Null => reservation'[h.row.res].order = h.order)
<1>1. \A o \in Orders : order[o].res \in Reservations \cup {Null}
                        /\ (order[o].res # Null => Used(order[o].res))
  BY RowRead
<1>2. ASSUME NEW q \in Requests, request[q].at \notin Paused
      PROVE  /\ request[q].res \in Reservations \cup {Null}
             /\ request[q].row.res \in Reservations \cup {Null}
             /\ request[q].res # Null => Used(request[q].res)
             /\ (request[q].at \in RowPoints /\ request[q].row.res # Null) =>
                   Used(request[q].row.res)
  BY <1>2 DEF Inv, Types, Locals, Rows, Sound, RightEnd, RightRow
<1>3. QED
  BY <1>1, <1>2 DEF Lasts, KeepsReservations, MadeFor

LEMMA StartReads ==
  ASSUME Inv, NEW q \in Requests, Start(q)
  PROVE  /\ request[q].at = "new" /\ Others(q) /\ Cardinality(InFlight) < MaxInFlight
         /\ UNCHANGED <<order, reservation, credited, intent, activations, faults, crashes>>
         /\ operated \subseteq operated'
<1>1. ASSUME NEW p \in Intents, HandlePaymentSuccess(q, p) \/ HandlePaymentFailed(q, p)
      PROVE  /\ request[q].at = "new" /\ Others(q) /\ Cardinality(InFlight) < MaxInFlight
             /\ NothingElse
  BY <1>1, MovesOne DEF HandlePaymentSuccess, HandlePaymentFailed, CanStart
<1>2. ASSUME NEW o \in Orders,
             \/ Cancel(q, o) \/ ApplyCredits(q, o) \/ ApplyPromoCode(q, o)
             \/ \E key \in Keys \cup {Null} : CompleteWithCredits(q, o, key)
             \/ \E cash : SetReward(q, o, cash)
      PROVE  /\ request[q].at = "new" /\ Others(q) /\ Cardinality(InFlight) < MaxInFlight
             /\ NothingElse
  BY <1>2, MovesOne DEF Cancel, ApplyCredits, ApplyPromoCode, CompleteWithCredits, SetReward,
                        CanStart
<1>3. ASSUME NEW o \in Orders, ProcessOrder(q, o) \/ ProcessTopup(q, o)
      PROVE  /\ request[q].at = "new" /\ Others(q) /\ Cardinality(InFlight) < MaxInFlight
             /\ UNCHANGED <<order, reservation, credited, intent, activations, faults, crashes>>
             /\ operated' = operated \cup {o}
  BY <1>3, MovesOne DEF ProcessOrder, ProcessTopup, CanStart
<1>4. QED
  BY <1>1, <1>2, <1>3 DEF Start, RemovePromoCode, NothingElse

LEMMA ContinueMoves ==
  ASSUME Inv, NEW q \in Requests, Continue(q)
  PROVE  /\ request[q].at \notin Paused /\ Others(q)
         /\ UNCHANGED <<intent, operated, faults, crashes>>
         /\ KeepsReservations
<1>1. CASE \/ Cashback(q) \/ SaveRow(q) \/ CancelOrder(q) \/ Load(q) \/ Begin(q)
           \/ Activate(q) \/ FinishOrder(q) \/ FailOrder(q) \/ Close(q) \/ Confirm(q)
  <2>1. /\ request[q].at \notin Paused /\ Others(q)
        /\ UNCHANGED <<reservation, intent, operated, faults, crashes>>
    <3>1. CASE Cashback(q) \/ SaveRow(q) \/ Load(q) \/ Close(q) \/ CancelOrder(q)
      BY <3>1, MovesOne DEF Cashback, SaveRow, Load, Close, CancelOrder, SetStatus, NothingElse,
                            Paused
    <3>2. CASE Begin(q) \/ Activate(q) \/ FinishOrder(q) \/ FailOrder(q) \/ Confirm(q)
      BY <3>2, MovesOne DEF Begin, Activate, FinishOrder, FailOrder, SetStatus, Confirm,
                            NothingElse, Paused
    <3>3. QED
      BY <1>1, <3>1, <3>2
  <2>2. KeepsReservations
    BY <2>1 DEF KeepsReservations, Used
  <2>3. QED
    BY <2>1, <2>2
<1>2. CASE Reread(q)
  BY <1>2 DEF Reread, NothingElse, Others, Paused, KeepsReservations, Used, Inv, Types
<1>3. CASE Convert(q) \/ Release(q) \/ GiveUp(q) \/ Capture(q)
  <2>1. PICK r \in Reservations \cup {Null} : r = request[q].res
    BY DEF Inv, Types, Locals
  <2>2. \E status \in {"RELEASED", "CONVERTED"} : SettleAs(r, status)
    BY <1>3, <2>1 DEF Convert, Release, GiveUp, Capture
  <2>3. KeepsReservations
    BY <2>2, SettleKeeps
  <2>4. CASE Convert(q) \/ Release(q) \/ GiveUp(q)
    BY <2>3, <2>4, MovesOne DEF Convert, Release, GiveUp, Paused
  <2>5. CASE Capture(q)
    BY <2>3, <2>5 DEF Capture, Others, Paused, Inv, Types
  <2>6. QED
    BY <1>3, <2>4, <2>5
<1>4. CASE Reserve(q)
  <2>1. request[q].order \in Orders
    BY <1>4 DEF Reserve, Inv, Sound, RightKind, Paused
  <2>2. CASE \E r \in Reservations :
               /\ Hold(r, request[q].order, TRUE, "complete")
               /\ request' = [request EXCEPT ![q].at = "confirm", ![q].res = r]
    BY <1>4, <2>1, <2>2, HoldKeeps DEF Reserve, Others, Paused, Inv, Types
  <2>3. CASE Finish(q) /\ UNCHANGED reservation
    BY <1>4, <2>3, MovesOne DEF Reserve, Paused, KeepsReservations, Used
  <2>4. QED
    BY <1>4, <2>2, <2>3 DEF Reserve
<1>5. QED
  BY <1>1, <1>2, <1>3, <1>4 DEF Continue

-----------------------------------------------------------------------------
(* The one handler at work.                                                *)

LEMMA NooneAtWork ==
  ASSUME MaxInFlight = 1, Cardinality(InFlight) < MaxInFlight
  PROVE  \A p \in Requests : request[p].at \in Paused
<1>1. IsFiniteSet(InFlight)
  BY RequestsAssumption, FS_Subset DEF InFlight
<1>2. Cardinality(InFlight) = 0
  BY <1>1, FS_CardinalityType
<1>3. InFlight = {}
  BY <1>1, <1>2, FS_EmptySet
<1>4. QED
  BY <1>3 DEF InFlight, Paused

LEMMA OneMoves ==
  ASSUME Serial, NEW q \in Requests, Others(q),
         \/ request[q].at \notin Paused
         \/ \A p \in Requests : request[p].at \in Paused,
         NamesItsOwn', Knows(q)', ActivatedIsPaid'
  PROVE  Serial'
<1>1. \A p \in Requests \ {q} : request[p].at \in Paused /\ request'[p] = request[p]
  BY DEF Serial, OneAtATime, Others
<1>2. OneAtATime'
  BY <1>1 DEF OneAtATime
<1>3. ASSUME NEW p \in Requests
      PROVE  Knows(p)'
  BY <1>1, <1>3 DEF Knows
<1>4. QED
  BY <1>2, <1>3 DEF Serial

LEMMA NamesLast ==
  ASSUME Inv, Lasts, NamesItsOwn, \A o \in Orders : order'[o].res = order[o].res
  PROVE  NamesItsOwn'
  BY MadeForLasts DEF NamesItsOwn, MadeFor

LEMMA PaidStays ==
  ASSUME Lasts, ActivatedIsPaid, UNCHANGED activations
  PROVE  ActivatedIsPaid'
  BY PaidLasts DEF ActivatedIsPaid

LEMMA FinishKnows ==
  ASSUME Inv, NEW q \in Requests, Finish(q)
  PROVE  Knows(q)'
<1>1. request'[q] = Ended
  BY DEF Finish, Inv, Types
<1>2. QED
  BY <1>1, EndedIsLocal DEF Knows, Paused

\* A handler that has begun names the reservation of its order, if any.
LEMMA EnterKnows ==
  ASSUME Inv, Serial, UNCHANGED reservation,
         NEW q \in Requests, NEW at, NEW doing, NEW o \in Orders, NEW arg, NEW r, NEW row,
         Enter(q, at, doing, o, arg, r, row),
         r \in {order[o].res, Null}, row.res \in {order[o].res, Null},
         at # "capture", at = "confirm" => r # Null,
         at \in Processing => doing \in {"process", "topup"},
         doing = "complete" => at \notin {"save", "release", "reread"} \cup Processing,
         doing \in {"process", "topup"} => o \in operated'
  PROVE  Knows(q)'
<1> DEFINE h == Local(at, doing, o, arg, r, row)
<1>1. request'[q] = h
  BY DEF Enter, Inv, Types
<1>2. h.at = at /\ h.doing = doing /\ h.order = o /\ h.res = r /\ h.row = row
  BY DEF Local
<1> HIDE DEF h
<1>3. order[o].res # Null => reservation[order[o].res].order = o
  BY DEF Serial, NamesItsOwn, MadeFor
<1>4. QED
  BY <1>1, <1>2, <1>3 DEF Knows, MadeFor

\* A handler that goes on still knows what it knew.
LEMMA GoKnows ==
  ASSUME Inv, Serial, Lasts, NEW q \in Requests, request[q].at \notin Paused,
         NEW at \in Points \ {"release", "reread"}, Go(q, at),
         at \in RowPoints => request[q].at \in RowPoints,
         at \in {"confirm", "capture"} => request[q].res # Null,
         at = "capture" => reservation'[request[q].res].status \in {"ACTIVE", "CONVERTED"},
         at \in Processing => request[q].doing \in {"success", "complete", "process", "topup"},
         \A o \in Orders :
             o = request[q].order /\ request[q].doing = "complete"
               /\ at \in {"save"} \cup Processing => Captured(o)'
  PROVE  Knows(q)'
<1> DEFINE h == request[q]
<1>1. /\ request'[q].at = at /\ request'[q].doing = h.doing /\ request'[q].order = h.order
      /\ request'[q].res = h.res /\ request'[q].row = h.row
  BY GoMoves
<1>2. /\ h.res # Null => reservation'[h.res].order = h.order
      /\ (h.at \in RowPoints /\ h.row.res # Null) => reservation'[h.row.res].order = h.order
  BY MadeForLasts DEF Serial, Knows
<1>3. /\ h.doing \in {"process", "topup"} => h.order \in operated'
      /\ h.order \in Orders
  BY DEF Serial, Knows, Lasts, Inv, Sound, RightKind
<1>4. PICK o \in Orders : o = h.order
  BY <1>3
<1>5. request'[q].doing = "complete" /\ request'[q].at \in {"save"} \cup Processing =>
          Captured(o)'
  BY <1>1, <1>4
<1>6. request'[q].order = o
  BY <1>1, <1>4
<1>7. QED
  BY <1>1, <1>2, <1>3, <1>5, <1>6 DEF Knows, MadeFor, Captured

LEMMA RaiseKnows ==
  ASSUME Inv, Serial, Lasts, NEW q \in Requests, request[q].at \notin Paused, Raise(q)
  PROVE  Knows(q)'
<1>1. ASSUME NEW at \in {"close", "giveUp", "cancel"}, Go(q, at)
      PROVE  Knows(q)'
  BY <1>1, GoKnows DEF Points, RowPoints, Processing
<1>2. Finish(q) \/ \E at \in {"close", "giveUp", "cancel"} : Go(q, at)
  BY DEF Raise
<1>3. QED
  BY <1>1, <1>2, FinishKnows

LEMMA StartIsSerial ==
  ASSUME Inv, Serial, MaxInFlight = 1, NEW q \in Requests, Start(q)
  PROVE  Serial'
<1>1. /\ Others(q) /\ \A p \in Requests : request[p].at \in Paused
      /\ UNCHANGED <<order, reservation, intent, activations>> /\ operated \subseteq operated'
  BY StartReads, NooneAtWork
<1>2. Lasts
  BY <1>1 DEF Lasts, KeepsReservations, Used
<1>3. NamesItsOwn' /\ ActivatedIsPaid'
  BY <1>1, <1>2, NamesLast, PaidStays DEF Serial
<1>4. ASSUME NEW p \in Intents, HandlePaymentSuccess(q, p)
      PROVE  Knows(q)'
  <2>1. PICK o \in Orders : o = intent[p].order
    BY <1>4 DEF HandlePaymentSuccess, Inv, RightTables
  <2>2. CASE Finish(q)
    BY <2>2, FinishKnows
  <2>3. CASE Enter(q, IF order[o].res # Null THEN "convert" ELSE AfterConvert(order[o]),
                   "success", o, p, order[o].res, [order[o] EXCEPT !.payment = "succeeded"])
    <3> DEFINE at == IF order[o].res # Null THEN "convert" ELSE AfterConvert(order[o])
               row == [order[o] EXCEPT !.payment = "succeeded"]
    <3>1. at \in {"convert", "cashback", "save"} /\ row.res = order[o].res
      BY RowRead DEF AfterConvert, Rows
    <3> HIDE DEF at, row
    <3>2. Enter(q, at, "success", o, p, order[o].res, row)
      BY <2>3 DEF at, row
    <3>3. QED
      BY <1>1, <3>1, <3>2, EnterKnows DEF Processing
  <2>4. QED
    BY <1>4, <2>1, <2>2, <2>3 DEF HandlePaymentSuccess
<1>5. ASSUME NEW p \in Intents, HandlePaymentFailed(q, p)
      PROVE  Knows(q)'
  <2>1. PICK o \in Orders : o = intent[p].order
    BY <1>5 DEF HandlePaymentFailed, Inv, RightTables
  <2> DEFINE at == IF order[o].res # Null THEN "release" ELSE "save"
             row == [order[o] EXCEPT !.payment = "failed", !.res = Null]
  <2>2. at \in {"release", "save"} /\ row.res = Null
    BY RowRead DEF Rows
  <2>3. Enter(q, at, "failed", o, p, order[o].res, row)
    BY <1>5, <2>1 DEF HandlePaymentFailed
  <2> HIDE DEF at, row
  <2>4. QED
    BY <1>1, <2>2, <2>3, EnterKnows DEF Processing
<1>6. ASSUME NEW o \in Orders, Cancel(q, o) \/ ApplyCredits(q, o) \/ ApplyPromoCode(q, o)
      PROVE  Knows(q)'
  <2>1. CASE Cancel(q, o)
    BY <1>1, <2>1, EnterKnows DEF Cancel, Processing
  <2>2. CASE ApplyCredits(q, o)
    <3> DEFINE at == IF order[o].res # Null THEN "release" ELSE "save"
               row == [order[o] EXCEPT !.res = Null]
    <3>1. at \in {"release", "save"} /\ row.res = Null
      BY RowRead DEF Rows
    <3>2. Enter(q, at, "apply", o, Null, order[o].res, row)
      BY <2>2 DEF ApplyCredits
    <3> HIDE DEF at, row
    <3>3. QED
      BY <1>1, <3>1, <3>2, EnterKnows DEF Processing
  <2>3. CASE ApplyPromoCode(q, o)
    <3>1. NoOrder.res = Null
      BY DEF NoOrder
    <3>2. QED
      BY <1>1, <2>3, <3>1, EnterKnows DEF ApplyPromoCode, Processing
  <2>4. QED
    BY <1>6, <2>1, <2>2, <2>3
<1>7. ASSUME NEW o \in Orders, NEW cash, SetReward(q, o, cash)
      PROVE  Knows(q)'
  <2> DEFINE row == [order[o] EXCEPT !.cashback = cash]
  <2>1. row.res = order[o].res
    BY RowRead DEF Rows
  <2>2. Enter(q, "save", "price", o, Null, Null, row)
    BY <1>7 DEF SetReward
  <2> HIDE DEF row
  <2>3. QED
    BY <1>1, <2>1, <2>2, EnterKnows DEF Processing
<1>8. ASSUME NEW o \in Orders, ProcessOrder(q, o) \/ ProcessTopup(q, o)
      PROVE  Knows(q)'
  <2>1. NoOrder.res = Null
    BY DEF NoOrder
  <2>2. o \in operated'
    BY <1>8 DEF ProcessOrder, ProcessTopup
  <2>3. QED
    BY <1>1, <1>8, <2>1, <2>2, EnterKnows DEF ProcessOrder, ProcessTopup
<1>9. ASSUME NEW o \in Orders, NEW key \in Keys \cup {Null}, CompleteWithCredits(q, o, key)
      PROVE  Knows(q)'
  <2> DEFINE at == IF order[o].res = Null THEN "reserve" ELSE "confirm"
  <2>1. Enter(q, at, "complete", o, key, order[o].res, order[o])
    BY <1>9 DEF CompleteWithCredits
  <2>2. at \in {"reserve", "confirm"} /\ (at = "confirm" => order[o].res # Null)
    OBVIOUS
  <2> HIDE DEF at
  <2>3. QED
    BY <1>1, <2>1, <2>2, EnterKnows DEF Processing
<1>10. Knows(q)'
  BY <1>4, <1>5, <1>6, <1>7, <1>8, <1>9 DEF Start, RemovePromoCode
<1>11. QED
  BY <1>1, <1>3, <1>10, OneMoves

\* What a step of the handler at work leaves to be shown.
LEMMA ContinueIsSerial ==
  ASSUME Inv, Serial, NEW q \in Requests, Continue(q),
         \A o \in Orders : order'[o].res = order[o].res, UNCHANGED activations, Knows(q)'
  PROVE  Serial'
<1>1. Others(q) /\ request[q].at \notin Paused /\ Lasts
  BY ContinueMoves DEF Lasts
<1>2. NamesItsOwn' /\ ActivatedIsPaid'
  BY <1>1, NamesLast, PaidStays DEF Serial
<1>3. QED
  BY <1>1, <1>2, OneMoves

LEMMA CreditsSteps ==
  ASSUME Inv, Serial, NEW q \in Requests,
         Convert(q) \/ Cashback(q) \/ Release(q) \/ Confirm(q) \/ GiveUp(q)
  PROVE  Serial'
<1>1. /\ Continue(q) /\ UNCHANGED <<order, activations>>
      /\ request[q].at \notin Paused /\ Lasts /\ request[q].doing \in Handlers
  <2>1. Continue(q)
    BY DEF Continue
  <2>2. QED
    BY <2>1, ContinueMoves
       DEF Convert, Cashback, Release, Confirm, GiveUp, NothingElse, Lasts, Inv, Types, Locals
<1>2. CASE Convert(q) \/ Cashback(q)
  <2>1. request[q].doing = "success"
    BY <1>2 DEF Convert, Cashback, Inv, Sound, RightKind
  <2>2. PICK at \in {"cashback", "save"} : Go(q, at)
    BY <1>2 DEF Convert, Cashback, AfterConvert
  <2>3. request[q].at \in RowPoints
    BY <1>2 DEF Convert, Cashback, RowPoints
  <2>4. Knows(q)'
    BY <1>1, <2>1, <2>2, <2>3, GoKnows DEF Points, Processing
  <2>5. QED
    BY <1>1, <2>4, ContinueIsSerial
<1>3. CASE Release(q)
  <2>1. request[q].at = "release"
    BY <1>3 DEF Release
  <2>2. Knows(q)'
    <3>1. CASE Go(q, "cancel")
      BY <1>1, <3>1, GoKnows DEF Points, RowPoints, Processing
    <3>2. CASE Go(q, "save") /\ request[q].doing # "complete"
      BY <1>1, <2>1, <3>2, GoKnows DEF Points, RowPoints, Processing
    <3>3. CASE request[q].doing = "complete"
      BY <2>1, <3>3 DEF Serial, Knows, Paused
    <3>4. QED
      BY <1>3, <3>1, <3>2, <3>3 DEF Release
  <2>3. QED
    BY <1>1, <2>2, ContinueIsSerial
<1>4. CASE Confirm(q)
  <2>1. request[q].at = "confirm" /\ request[q].res # Null
    BY <1>4 DEF Confirm, Serial, Knows, Paused
  <2>2. /\ request[q].res \in Reservations
        /\ reservation[request[q].res].status \in {"ACTIVE", "RELEASED", "CONVERTED"}
    BY <2>1 DEF Inv, Types, Locals, Holds, Sound, RightEnd, Used
  <2>3. CASE Raise(q)
    BY <1>1, <2>3, RaiseKnows, ContinueIsSerial
  <2>4. CASE Go(q, "capture") /\ reservation[request[q].res].status # "RELEASED"
    <3>1. reservation' = reservation
      BY <1>4 DEF Confirm, NothingElse
    <3>2. Knows(q)'
      BY <1>1, <2>1, <2>2, <2>4, <3>1, GoKnows DEF Points, RowPoints, Processing
    <3>3. QED
      BY <1>1, <3>2, ContinueIsSerial
  <2>5. QED
    BY <1>4, <2>3, <2>4 DEF Confirm
<1>5. CASE GiveUp(q)
  BY <1>1, <1>5, FinishKnows, ContinueIsSerial DEF GiveUp
<1>6. QED
  BY <1>2, <1>3, <1>4, <1>5

LEMMA RereadIsSerial ==
  ASSUME Inv, Serial, NEW q \in Requests, Reread(q)
  PROVE  Serial'
<1> DEFINE o == request[q].order
<1>1. /\ request[q].at = "reread" /\ request[q] \in Locals /\ o \in Orders
      /\ UNCHANGED <<order, reservation, activations, operated>>
  BY DEF Reread, NothingElse, Inv, Types, Sound, RightKind, Paused
<1>2. order[o] \in Rows /\ (order[o].res # Null => reservation[order[o].res].order = o)
  BY <1>1, RowRead DEF Serial, NamesItsOwn, MadeFor
<1>3. /\ request'[q].at = "save" /\ request'[q].order = o /\ request'[q].row = order[o]
      /\ request'[q].res = request[q].res /\ request'[q].doing = request[q].doing
  BY <1>1 DEF Reread, Inv, Types, Locals
<1>4. request[q].doing # "complete"
  BY <1>1 DEF Serial, Knows, Paused
<1>5. /\ request[q].res # Null => reservation[request[q].res].order = o
      /\ request[q].doing \in {"process", "topup"} => o \in operated
  BY <1>1 DEF Serial, Knows, MadeFor, Paused
<1>6. Knows(q)'
  BY <1>1, <1>2, <1>3, <1>4, <1>5 DEF Knows, MadeFor, Processing
<1>7. Continue(q)
  BY DEF Continue
<1>8. QED
  BY <1>1, <1>6, <1>7, ContinueIsSerial

LEMMA ReserveIsSerial ==
  ASSUME Inv, Serial, NEW q \in Requests, Reserve(q)
  PROVE  Serial'
<1> DEFINE h == request[q]
<1>1. /\ h.at = "reserve" /\ h \in Locals /\ h.order \in Orders /\ h.doing = "complete"
      /\ UNCHANGED <<order, activations, operated>> /\ Continue(q)
  BY DEF Reserve, Inv, Types, Sound, RightKind, Paused, Continue
<1>2. CASE Finish(q)
  BY <1>1, <1>2, FinishKnows, ContinueIsSerial
<1>3. ASSUME NEW r \in Reservations, Hold(r, h.order, TRUE, "complete"),
             request' = [request EXCEPT ![q].at = "confirm", ![q].res = r]
      PROVE  Serial'
  <2>1. /\ request'[q].at = "confirm" /\ request'[q].res = r /\ request'[q].order = h.order
        /\ request'[q].doing = h.doing /\ request'[q].row = h.row
    BY <1>1, <1>3 DEF Inv, Types, Locals
  <2>2. reservation'[r].order = h.order
    BY <1>1, <1>3, HoldKeeps
  <2>3. KeepsReservations
    BY <1>1, <1>3, HoldKeeps
  <2>4. h.row.res # Null => reservation'[h.row.res].order = h.order
    <3>1. h.row.res \in Reservations \cup {Null} /\ (h.row.res # Null => Used(h.row.res))
      BY <1>1 DEF Locals, Rows, Inv, Sound, RightRow, RowPoints
    <3>2. h.row.res # Null => reservation[h.row.res].order = h.order
      BY <1>1 DEF Serial, Knows, MadeFor, RowPoints, Paused
    <3>3. QED
      BY <2>3, <3>1, <3>2 DEF KeepsReservations
  <2>5. r # Null
    BY Assumed
  <2>6. Knows(q)'
    BY <1>1, <2>1, <2>2, <2>4, <2>5 DEF Knows, MadeFor, Processing
  <2>7. QED
    BY <1>1, <2>6, ContinueIsSerial
<1>4. QED
  BY <1>2, <1>3 DEF Reserve

\* The credits of complete-with-credits are captured: nobody released them since they
\* were confirmed.
LEMMA CaptureIsSerial ==
  ASSUME Inv, Serial, NEW q \in Requests, Capture(q)
  PROVE  Serial'
<1> DEFINE h == request[q]
           key == IF h.arg = Null THEN h.row.key ELSE h.arg
           row == [h.row EXCEPT !.status = "pending", !.payment = "succeeded",
                                !.res = h.res, !.key = key]
           new == [h EXCEPT !.at = "save", !.row = row]
<1>1. /\ h.at = "capture" /\ h \in Locals /\ h.order \in Orders /\ h.doing = "complete"
      /\ UNCHANGED <<order, activations, operated>> /\ Continue(q)
  BY DEF Capture, Inv, Types, Sound, RightKind, Paused, Continue
<1>2. /\ h.res # Null /\ h.res \in Reservations
      /\ reservation[h.res].status \in {"ACTIVE", "CONVERTED"}
      /\ reservation[h.res].order = h.order
  BY <1>1 DEF Serial, Knows, MadeFor, Paused, Locals
<1>3. SettleAs(h.res, "CONVERTED")
  BY DEF Capture
<1>4. reservation'[h.res].order = h.order /\ reservation'[h.res].status = "CONVERTED"
  <2>1. /\ KeepsReservations
        /\ reservation[h.res].status = "ACTIVE" => reservation'[h.res].status = "CONVERTED"
    BY <1>2, <1>3, SettleKeeps
  <2>2. QED
    BY <1>2, <2>1 DEF KeepsReservations, Used
<1>5. PICK o \in Orders, r \in Reservations : o = h.order /\ r = h.res
  BY <1>1, <1>2
<1>6. request' = [request EXCEPT ![q].at = "save", ![q].row = row]
  BY DEF Capture
<1>7. row.res = h.res
  BY <1>1 DEF Locals, Rows
<1> HIDE DEF row
<1>8. /\ request'[q].at = "save" /\ request'[q].row = row /\ request'[q].res = h.res
      /\ request'[q].order = h.order /\ request'[q].doing = h.doing
  BY <1>1, <1>6 DEF Inv, Types, Locals
<1>9. Captured(o)'
  BY <1>4, <1>5 DEF Captured
<1>10. Knows(q)'
  BY <1>1, <1>4, <1>5, <1>7, <1>8, <1>9 DEF Knows, MadeFor, Processing, Captured
<1>11. QED
  BY <1>1, <1>10, ContinueIsSerial

LEMMA SaveIsSerial ==
  ASSUME Inv, Serial, NEW q \in Requests, SaveRow(q)
  PROVE  Serial'
<1> DEFINE h == request[q]
<1>1. /\ h.at = "save" /\ h \in Locals /\ h.order \in Orders
      /\ UNCHANGED <<reservation, activations>> /\ Continue(q)
      /\ order' = [order EXCEPT ![h.order] = h.row]
  BY DEF SaveRow, Inv, Types, Sound, RightKind, Paused, Continue
<1>2. Others(q) /\ h.at \notin Paused /\ Lasts
  BY <1>1, ContinueMoves DEF Lasts
<1>3. NamesItsOwn'
  <2>1. MadeFor(h.row.res, h.order)
    BY <1>1 DEF Serial, Knows, RowPoints, Paused
  <2>2. ASSUME NEW o \in Orders
        PROVE  order'[o].res # Null => reservation[order'[o].res].order = o
    <3>1. CASE o = h.order
      BY <1>1, <2>1, <3>1 DEF Inv, Types, MadeFor
    <3>2. CASE o # h.order
      BY <1>1, <3>2 DEF Inv, Types, Serial, NamesItsOwn, MadeFor
    <3>3. QED
      BY <3>1, <3>2
  <2>3. QED
    BY <1>1, <2>2 DEF NamesItsOwn, MadeFor
<1>4. Knows(q)'
  <2>1. CASE Finish(q)
    BY <2>1, FinishKnows
  <2>2. CASE Go(q, "process") /\ h.doing \in {"success", "complete"}
    <3>1. h.doing = "complete" => Captured(h.order)
      BY <1>1 DEF Serial, Knows, Paused
    <3>2. \A o \in Orders : o = h.order /\ h.doing = "complete" => Captured(o)'
      BY <1>1, <1>2, <3>1, CapturedLasts
    <3>3. QED
      BY <1>2, <2>2, <3>2, GoKnows DEF Points, RowPoints, Processing
  <2>3. QED
    BY <2>1, <2>2 DEF SaveRow
<1>5. ActivatedIsPaid'
  BY <1>1, <1>2, PaidStays DEF Serial
<1>6. QED
  BY <1>2, <1>3, <1>4, <1>5, OneMoves

LEMMA StatusKeepsNames ==
  ASSUME Inv, NEW q \in Requests, request[q].at \notin Paused, NEW status,
         SetStatus(q, status)
  PROVE  /\ \A o \in Orders : order'[o].res = order[o].res
         /\ UNCHANGED activations
         /\ order'[request[q].order].status = status
         /\ \A o \in Orders \ {request[q].order} : order'[o] = order[o]
<1> DEFINE new == [order[request[q].order] EXCEPT !.status = status]
<1>1. /\ request[q].order \in Orders /\ order \in [Orders -> Rows]
      /\ order' = [order EXCEPT ![request[q].order] = new]
  BY DEF SetStatus, Inv, Types, Sound, RightKind
<1>2. new.res = order[request[q].order].res /\ new.status = status
  BY <1>1 DEF Rows
<1> HIDE DEF new
<1>3. QED
  BY <1>1, <1>2 DEF SetStatus

\* Inside processOrder, and after it.
LEMMA ProcessingGoes ==
  ASSUME Inv, Serial, NEW q \in Requests, request[q].at \in Processing, Lasts,
         NEW at \in {"begin", "activate", "finish", "fail"}, Go(q, at)
  PROVE  Knows(q)'
<1>1. /\ request[q].at \notin Paused /\ request[q].order \in Orders
      /\ request[q].doing \in {"success", "complete", "process", "topup"}
      /\ request[q].doing = "complete" => Captured(request[q].order)
  BY DEF Serial, Knows, Processing, Paused, Inv, Sound, RightKind
<1>2. \A o \in Orders : o = request[q].order /\ request[q].doing = "complete" =>
          Captured(o)'
  BY <1>1, CapturedLasts
<1>3. QED
  BY <1>1, <1>2, GoKnows DEF Points, RowPoints

LEMMA StatusSteps ==
  ASSUME Inv, Serial, NEW q \in Requests,
         \/ CancelOrder(q) \/ Load(q) \/ Begin(q) \/ FinishOrder(q) \/ FailOrder(q) \/ Close(q)
  PROVE  Serial'
<1>1. Continue(q)
  BY DEF Continue
<1>2. request[q].at \notin Paused /\ Lasts
  BY <1>1, ContinueMoves
     DEF Lasts, CancelOrder, Load, Begin, FinishOrder, FailOrder, Close
<1>3. UNCHANGED order \/ \E status : SetStatus(q, status)
  BY DEF CancelOrder, Load, Begin, FinishOrder, FailOrder, Close, NothingElse
<1>4. (\A o \in Orders : order'[o].res = order[o].res) /\ UNCHANGED activations
  BY <1>2, <1>3, StatusKeepsNames DEF Load, NothingElse, CancelOrder, Begin, FinishOrder,
                                      FailOrder, Close
<1>5. Knows(q)'
  <2>1. CASE Finish(q) \/ Raise(q)
    BY <1>2, <2>1, FinishKnows, RaiseKnows
  <2>2. CASE request[q].at \in Processing /\ (Go(q, "begin") \/ Go(q, "activate"))
    BY <1>2, <2>2, ProcessingGoes
  <2>3. QED
    BY <2>1, <2>2
       DEF CancelOrder, Load, Begin, FinishOrder, FailOrder, Close, Processing
<1>6. QED
  BY <1>1, <1>4, <1>5, ContinueIsSerial

LEMMA ActivateIsSerial ==
  ASSUME Inv, Serial, NEW q \in Requests, Activate(q)
  PROVE  Serial'
<1> DEFINE o == request[q].order
<1>1. /\ request[q].at = "activate" /\ o \in Orders /\ Continue(q)
      /\ UNCHANGED <<order, reservation, operated>>
      /\ Go(q, "finish") \/ Go(q, "fail")
  BY DEF Activate, Inv, Sound, RightKind, Paused, Continue
<1>2. Others(q) /\ request[q].at \notin Paused /\ Lasts
  BY <1>1, ContinueMoves DEF Lasts
<1>3. Knows(q)'
  BY <1>1, <1>2, ProcessingGoes DEF Processing
<1>4. NamesItsOwn'
  BY <1>1, <1>2, NamesLast DEF Serial
<1>5. Charged(o) \/ Captured(o) \/ o \in operated
  <2>1. /\ request[q].doing \in {"success", "complete", "process", "topup"}
        /\ request[q].doing = "complete" => Captured(o)
        /\ request[q].doing \in {"process", "topup"} => o \in operated
    BY <1>1, <1>2 DEF Serial, Knows, Processing
  <2>2. request[q].doing = "success" => Charged(o)
    BY <1>2, SuccessIsCharged
  <2>3. QED
    BY <2>1, <2>2
<1>6. \A x \in Orders \ {o} : activations'[x] = activations[x]
  BY <1>1 DEF Activate, Inv, Types
<1>7. ActivatedIsPaid'
  <2> SUFFICES ASSUME NEW x \in Orders, activations'[x] > 0
               PROVE  Charged(x)' \/ Captured(x)' \/ x \in operated'
    BY DEF ActivatedIsPaid
  <2>1. Charged(x) \/ Captured(x) \/ x \in operated
    BY <1>5, <1>6 DEF Serial, ActivatedIsPaid
  <2>2. QED
    BY <1>2, <2>1, PaidLasts
<1>8. QED
  BY <1>2, <1>3, <1>4, <1>7, OneMoves


LEMMA ContinueSteps ==
  ASSUME Inv, Serial, NEW q \in Requests, Continue(q)
  PROVE  Serial'
  BY CreditsSteps, RereadIsSerial, ReserveIsSerial, CaptureIsSerial, SaveIsSerial, StatusSteps,
     ActivateIsSerial
     DEF Continue

-----------------------------------------------------------------------------
(* What happens outside the handlers.                                      *)

LEMMA OutsideIsSerial ==
  ASSUME Inv, Serial, Lasts, UNCHANGED <<request, activations>>,
         \A r \in Reservations : Used(r) => reservation'[r] = reservation[r],
         NamesItsOwn'
  PROVE  Serial'
<1>1. OneAtATime' /\ ActivatedIsPaid'
  BY PaidStays DEF Serial, OneAtATime
<1>2. ASSUME NEW q \in Requests, request[q].at \notin Paused
      PROVE  Knows(q)'
  <2> DEFINE h == request[q]
  <2>1. h \in Locals /\ h.order \in Orders /\ Knows(q) /\ request' = request
    BY <1>2 DEF Inv, Types, Sound, RightKind, Serial
  <2>2. /\ h.res # Null => reservation'[h.res].order = h.order
        /\ (h.at \in RowPoints /\ h.row.res # Null) => reservation'[h.row.res].order = h.order
    BY <1>2, <2>1, MadeForLasts DEF Knows
  <2>3. h.res # Null => h.res \in Reservations /\ Used(h.res)
    BY <2>1 DEF Locals, Inv, Sound, RightEnd
  <2>4. h.at = "capture" => reservation'[h.res].status \in {"ACTIVE", "CONVERTED"}
    BY <1>2, <2>1, <2>3 DEF Knows
  <2>5. PICK o \in Orders : o = h.order
    BY <2>1
  <2>6. Captured(o) => Captured(o)'
    BY CapturedLasts
  <2>7. h.doing = "complete" /\ h.at \in {"save"} \cup Processing => Captured(o)'
    BY <1>2, <2>1, <2>5, <2>6 DEF Knows, Captured
  <2>8. h.doing \in {"process", "topup"} => h.order \in operated'
    BY <1>2, <2>1 DEF Knows, Lasts
  <2> HIDE DEF h
  <2>9. request'[q] = h
    BY <2>1 DEF h
  <2>10. Knows(q)
    BY <2>1
  <2>11. QED
    BY <1>2, <2>2, <2>4, <2>5, <2>7, <2>8, <2>9, <2>10 DEF Knows, MadeFor, Captured, h
<1>3. \A q \in Requests : Knows(q)'
  BY <1>2 DEF Knows
<1>4. QED
  BY <1>1, <1>3 DEF Serial

LEMMA CreateIsSerial ==
  ASSUME Inv, Serial, NEW o \in Orders, NEW kind \in Kinds, NEW cash \in BOOLEAN,
         Create(o, kind, cash)
  PROVE  Serial'
<1>1. ~Placed(o) /\ UNCHANGED <<intent, activations, request, operated>>
  BY DEF Create, Placed
<1>2. PICK r \in Reservations \cup {Null} :
         /\ Place(o, kind, cash, r)
         /\ \/ UNCHANGED reservation /\ r = Null
            \/ \E x \in Reservations, covers \in BOOLEAN :
                  Hold(x, o, covers, "create") /\ r \in {x, Null}
  BY DEF Create
<1>3. (\A x \in Orders \ {o} : order'[x] = order[x]) /\ order'[o].res = r
  BY <1>1, <1>2, PlaceEffect
<1>4. /\ KeepsReservations
      /\ \A x \in Reservations : Used(x) => reservation'[x] = reservation[x]
      /\ r # Null => reservation'[r].order = o
  <2>1. CASE UNCHANGED reservation /\ r = Null
    BY <2>1 DEF KeepsReservations, Used
  <2>2. ASSUME NEW x \in Reservations, NEW covers \in BOOLEAN,
               Hold(x, o, covers, "create"), r \in {x, Null}
        PROVE  /\ KeepsReservations
               /\ \A y \in Reservations : Used(y) => reservation'[y] = reservation[y]
               /\ r # Null => reservation'[r].order = o
    BY <2>2, HoldKeeps
  <2>3. QED
    BY <1>2, <2>1, <2>2
<1>5. Lasts
  BY <1>1, <1>4 DEF Lasts
<1>6. NamesItsOwn'
  <2>1. \A x \in Orders : order[x].res # Null => reservation'[order[x].res].order = x
    BY <1>5, MadeForLasts DEF Serial, NamesItsOwn
  <2>2. QED
    BY <1>3, <1>4, <2>1 DEF NamesItsOwn, MadeFor
<1>7. QED
  BY <1>1, <1>4, <1>5, <1>6, OutsideIsSerial

LEMMA StripeIsSerial ==
  ASSUME Inv, Serial, NEW p \in Intents, NEW o \in Orders,
         CreatePaymentIntent(p, o) \/ Decline(p) \/ Charge(p)
  PROVE  Serial'
<1>1. UNCHANGED <<order, reservation, activations, request, operated>>
  BY DEF CreatePaymentIntent, Decline, Charge
<1>2. \A x \in Intents :
         intent[x].charged => intent'[x].charged /\ intent'[x].order = intent[x].order
  <2>1. CASE CreatePaymentIntent(p, o)
    BY <2>1, Assumed DEF CreatePaymentIntent, Inv, Types, RightTables
  <2>2. CASE Decline(p) \/ Charge(p)
    BY <2>2 DEF Decline, Charge, Inv, Types
  <2>3. QED
    BY <2>1, <2>2
<1>3. Lasts
  BY <1>1, <1>2 DEF Lasts, KeepsReservations, Used
<1>4. NamesItsOwn'
  BY <1>1, <1>3, NamesLast DEF Serial
<1>5. QED
  BY <1>1, <1>3, <1>4, OutsideIsSerial

LEMMA FaultIsSerial ==
  ASSUME Inv, Serial, NEW q \in Requests, Fault(q)
  PROVE  Serial'
<1>1. /\ request[q].at \notin Paused
      /\ UNCHANGED <<order, reservation, intent, activations, operated>>
      /\ \/ Raise(q)
         \/ request[q].at \in Processing /\ Go(q, "fail")
  BY DEF Fault, Paused, Processing
<1>2. Lasts /\ NamesItsOwn' /\ ActivatedIsPaid'
  <2>1. Lasts
    BY <1>1 DEF Lasts, KeepsReservations, Used
  <2>2. QED
    BY <1>1, <2>1, NamesLast, PaidStays DEF Serial
<1>3. Knows(q)'
  BY <1>1, <1>2, RaiseKnows, ProcessingGoes
<1>4. Others(q)
  BY <1>1, MovesOne DEF Raise
<1>5. QED
  BY <1>1, <1>2, <1>3, <1>4, OneMoves

LEMMA CrashIsSerial ==
  ASSUME Inv, Serial, Crash
  PROVE  Serial'
<1>1. UNCHANGED <<order, reservation, intent, activations, operated>>
  BY DEF Crash
<1>2. \A q \in Requests : request'[q].at \in Paused
  BY EndedIsLocal DEF Crash, InFlight, Paused
<1>3. Lasts
  BY <1>1 DEF Lasts, KeepsReservations, Used
<1>4. NamesItsOwn' /\ ActivatedIsPaid'
  BY <1>1, <1>3, NamesLast, PaidStays DEF Serial
<1>5. QED
  BY <1>2, <1>4 DEF Serial, OneAtATime, Knows

LEMMA InitIsSerial ==
  ASSUME Init
  PROVE  Serial
<1>1. /\ \A q \in Requests : request[q].at \in Paused
      /\ \A o \in Orders : order[o].res = Null /\ activations[o] = 0
  BY EndedIsLocal DEF Init, Paused, NoOrder
<1>2. QED
  BY <1>1 DEF Serial, OneAtATime, NamesItsOwn, MadeFor, Knows, ActivatedIsPaid

LEMMA NextIsSerial ==
  ASSUME MaxInFlight = 1, Inv, Serial, [Next]_vars
  PROVE  Serial'
<1>1. CASE Next
  <2>1. CASE \E o \in Orders, kind \in Kinds, cash \in BOOLEAN : Create(o, kind, cash)
    BY <2>1, CreateIsSerial
  <2>2. CASE \E p \in Intents : \E o \in Orders : CreatePaymentIntent(p, o)
    BY <2>2, StripeIsSerial
  <2>3. ASSUME NEW p \in Intents, Decline(p) \/ Charge(p)
        PROVE  Serial'
    <3>1. PICK o \in Orders : o = intent[p].order
      BY <2>3 DEF Decline, Charge, Inv, Types
    <3>2. QED
      BY <2>3, <3>1, StripeIsSerial
  <2>4. CASE \E q \in Requests : Start(q) \/ Continue(q) \/ Fault(q)
    BY <2>4, StartIsSerial, ContinueSteps, FaultIsSerial
  <2>5. QED
    BY <1>1, <2>1, <2>2, <2>3, <2>4, CrashIsSerial DEF Next
<1>2. CASE UNCHANGED vars
  <2>1. UNCHANGED <<order, reservation, activations, request, operated, intent>>
    BY <1>2 DEF vars
  <2>2. Lasts
    BY <2>1 DEF Lasts, KeepsReservations, Used
  <2>3. NamesItsOwn'
    BY <2>1, <2>2, NamesLast DEF Serial
  <2>4. QED
    BY <2>1, <2>2, <2>3, OutsideIsSerial
<1>3. QED
  BY <1>1, <1>2

LEMMA SerialAlways ==
  ASSUME MaxInFlight = 1
  PROVE  Spec => []Serial
<1>1. Init => Serial
  BY InitIsSerial
<1>2. Inv /\ Serial /\ [Next]_vars => Serial'
  BY NextIsSerial
<1>3. Spec => []Inv
  BY InvAlways
<1>4. QED
  BY <1>1, <1>2, <1>3, PTL DEF Spec

\* When handlers do not overlap, a package is activated only for an order that Stripe
\* charged for, whose credits were captured, or that an administrator had processed:
\* processOrder and its callers (orders.service.ts:184, 1440 and 1596), with any number
\* of orders and requests, of statements that fail and of restarts.
THEOREM ActivationsArePaid ==
  ASSUME MaxInFlight = 1
  PROVE  Spec => []ActivatedIsPaid
<1>1. Serial => ActivatedIsPaid
  BY DEF Serial
<1>2. QED
  BY <1>1, SerialAlways, PTL


-----------------------------------------------------------------------------
(* When nothing fails, what is being processed has a handler at work on it. *)

\* Only the handler at work can have left an order processing.
LEMMA OnlyItsOwn ==
  ASSUME Serial, Attended, NEW q \in Requests,
         \/ request[q].at \notin Paused
         \/ \A p \in Requests : request[p].at \in Paused,
         NEW o \in Orders, order[o].status = "processing"
  PROVE  request[q].order = o /\ request[q].at \in Working
<1>1. PICK p \in Requests : request[p].order = o /\ request[p].at \in Working
  BY DEF Attended
<1>2. p = q
  BY <1>1 DEF Serial, OneAtATime, Working, Paused
<1>3. QED
  BY <1>1, <1>2

LEMMA OneAttends ==
  ASSUME Inv, Serial, Attended, NEW q \in Requests, Others(q),
         \/ request[q].at \notin Paused
         \/ \A p \in Requests : request[p].at \in Paused,
         \A o \in Orders : order'[o].status = "processing" =>
             request'[q].order = o /\ request'[q].at \in Working,
         request'[q].at \in RowPoints => request'[q].row.status # "processing"
  PROVE  Attended'
<1>1. \A p \in Requests \ {q} : request'[p] = request[p]
  BY DEF Others
<1>2. \A p \in Requests \ {q} :
         request'[p].at \in RowPoints => request'[p].row.status # "processing"
  BY <1>1 DEF Attended
<1>3. QED
  BY <1>2 DEF Attended

LEMMA FinishLeaves ==
  ASSUME Inv, NEW q \in Requests, Finish(q)
  PROVE  request'[q].at = "done"
  BY EndedIsLocal DEF Finish, Inv, Types

\* A handler that goes on with the row it has, or without one.
LEMMA GoAttends ==
  ASSUME Inv, Attended, NEW q \in Requests, NEW at \in Points, Go(q, at),
         at \in RowPoints => request[q].at \in RowPoints
  PROVE  request'[q].at \in RowPoints => request'[q].row.status # "processing"
  BY GoMoves DEF Attended

LEMMA RaiseAttends ==
  ASSUME Inv, NEW q \in Requests, Raise(q)
  PROVE  request'[q].at \notin RowPoints
<1>1. Finish(q) \/ \E at \in {"close", "giveUp", "cancel"} : Go(q, at)
  BY DEF Raise
<1>2. ASSUME NEW at \in {"close", "giveUp", "cancel"}, Go(q, at)
      PROVE  request'[q].at = at
  BY <1>2, GoMoves DEF Points
<1>3. QED
  BY <1>1, <1>2, FinishLeaves DEF RowPoints

\* A handler begins with a row as it finds it, and finds none processing.
LEMMA EnterAttends ==
  ASSUME Inv, NEW q \in Requests, NEW at, NEW doing, NEW o, NEW arg, NEW r, NEW row,
         Enter(q, at, doing, o, arg, r, row), row.status # "processing"
  PROVE  request'[q].at \in RowPoints => request'[q].row.status # "processing"
<1>1. request'[q] = Local(at, doing, o, arg, r, row)
  BY DEF Enter, Inv, Types
<1>2. QED
  BY <1>1 DEF Local

LEMMA StartAttends ==
  ASSUME Inv, Serial, Attended, MaxInFlight = 1, NEW q \in Requests, Start(q)
  PROVE  Attended'
<1>1. /\ Others(q) /\ (\A p \in Requests : request[p].at \in Paused)
      /\ UNCHANGED order
  BY StartReads, NooneAtWork
<1>2. \A o \in Orders : order[o].status # "processing"
  BY <1>1, OnlyItsOwn DEF Working, Paused
<1>3. NoOrder.status # "processing"
  BY DEF NoOrder
<1>4. ASSUME NEW p \in Intents, HandlePaymentSuccess(q, p)
      PROVE  request'[q].at \in RowPoints => request'[q].row.status # "processing"
  <2>1. PICK o \in Orders : o = intent[p].order
    BY <1>4 DEF HandlePaymentSuccess, Inv, RightTables
  <2>2. CASE Finish(q)
    BY <2>2, FinishLeaves DEF RowPoints
  <2> DEFINE row == [order[o] EXCEPT !.payment = "succeeded"]
  <2>3. CASE Enter(q, IF order[o].res # Null THEN "convert" ELSE AfterConvert(order[o]),
                   "success", o, p, order[o].res, row)
    <3>1. row.status # "processing"
      BY <1>2, RowRead DEF Rows
    <3> HIDE DEF row
    <3>2. QED
      BY <2>3, <3>1, EnterAttends
  <2>4. QED
    BY <1>4, <2>1, <2>2, <2>3 DEF HandlePaymentSuccess
<1>5. ASSUME NEW p \in Intents, HandlePaymentFailed(q, p)
      PROVE  request'[q].at \in RowPoints => request'[q].row.status # "processing"
  <2>1. PICK o \in Orders : o = intent[p].order
    BY <1>5 DEF HandlePaymentFailed, Inv, RightTables
  <2> DEFINE row == [order[o] EXCEPT !.payment = "failed", !.res = Null]
             at == IF order[o].res # Null THEN "release" ELSE "save"
  <2>2. row.status # "processing"
    BY <1>2, RowRead DEF Rows
  <2>3. Enter(q, at, "failed", o, p, order[o].res, row)
    BY <1>5, <2>1 DEF HandlePaymentFailed
  <2> HIDE DEF row, at
  <2>4. QED
    BY <2>2, <2>3, EnterAttends
<1>6. ASSUME NEW o \in Orders, ApplyCredits(q, o)
      PROVE  request'[q].at \in RowPoints => request'[q].row.status # "processing"
  <2> DEFINE row == [order[o] EXCEPT !.res = Null]
             at == IF order[o].res # Null THEN "release" ELSE "save"
  <2>1. row.status # "processing"
    BY <1>2, RowRead DEF Rows
  <2>2. Enter(q, at, "apply", o, Null, order[o].res, row)
    BY <1>6 DEF ApplyCredits
  <2> HIDE DEF row, at
  <2>3. QED
    BY <2>1, <2>2, EnterAttends
<1>7. ASSUME NEW o \in Orders, NEW cash, SetReward(q, o, cash)
      PROVE  request'[q].at \in RowPoints => request'[q].row.status # "processing"
  <2> DEFINE row == [order[o] EXCEPT !.cashback = cash]
  <2>1. row.status # "processing"
    BY <1>2, RowRead DEF Rows
  <2>2. Enter(q, "save", "price", o, Null, Null, row)
    BY <1>7 DEF SetReward
  <2> HIDE DEF row
  <2>3. QED
    BY <2>1, <2>2, EnterAttends
<1>8. ASSUME NEW o \in Orders,
             Cancel(q, o) \/ \E key \in Keys \cup {Null} : CompleteWithCredits(q, o, key)
      PROVE  request'[q].at \in RowPoints => request'[q].row.status # "processing"
  <2>1. PICK at, doing, arg, r : Enter(q, at, doing, o, arg, r, order[o])
    BY <1>8 DEF Cancel, CompleteWithCredits
  <2>2. QED
    BY <1>2, <2>1, EnterAttends
<1>9. ASSUME NEW o \in Orders, ApplyPromoCode(q, o) \/ ProcessOrder(q, o) \/ ProcessTopup(q, o)
      PROVE  request'[q].at \in RowPoints => request'[q].row.status # "processing"
  <2>1. PICK at, doing : Enter(q, at, doing, o, Null, Null, NoOrder)
    BY <1>9 DEF ApplyPromoCode, ProcessOrder, ProcessTopup
  <2>2. QED
    BY <1>3, <2>1, EnterAttends
<1>10. request'[q].at \in RowPoints => request'[q].row.status # "processing"
  BY <1>4, <1>5, <1>6, <1>7, <1>8, <1>9 DEF Start, RemovePromoCode
<1>11. QED
  BY <1>1, <1>2, <1>10, OneAttends

\* The steps that leave the order alone: none is processing before "activate".
LEMMA QuietAttends ==
  ASSUME Inv, Serial, Attended, NEW q \in Requests,
         \/ Convert(q) \/ Cashback(q) \/ Release(q) \/ Reread(q) \/ Reserve(q)
         \/ Confirm(q) \/ Capture(q) \/ GiveUp(q) \/ Load(q)
  PROVE  Attended'
<1>1. /\ UNCHANGED order /\ request[q].at \notin Paused \cup Working /\ Continue(q)
      /\ request[q] \in Locals /\ request[q].order \in Orders
  <2>1. request[q].at \notin Paused \cup Working /\ Continue(q)
    BY DEF Convert, Cashback, Release, Reread, Reserve, Confirm, Capture, GiveUp, Load,
           Paused, Working, Continue
  <2>2. UNCHANGED order
    BY DEF Convert, Cashback, Release, Reread, Reserve, Confirm, Capture, GiveUp, Load,
           NothingElse
  <2>3. QED
    BY <2>1, <2>2 DEF Inv, Types, Sound, RightKind
<1>2. Others(q)
  BY <1>1, ContinueMoves
<1>3. \A o \in Orders : order[o].status # "processing"
  BY <1>1, OnlyItsOwn
<1>4. request'[q].at \in RowPoints => request'[q].row.status # "processing"
  <2>1. CASE Convert(q) \/ Cashback(q) \/ Release(q)
    <3>1. PICK at \in {"cashback", "save", "cancel"} : Go(q, at)
      BY <2>1 DEF Convert, Cashback, Release, AfterConvert
    <3>2. request[q].at \in RowPoints
      BY <2>1 DEF Convert, Cashback, Release, RowPoints
    <3>3. QED
      BY <3>1, <3>2, GoAttends DEF Points
  <2>2. CASE Reread(q)
    <3>1. request'[q].row = order[request[q].order]
      BY <1>1, <2>2 DEF Reread, Inv, Types, Locals
    <3>2. QED
      BY <1>1, <1>3, <3>1
  <2>3. CASE Reserve(q)
    <3>1. request[q].at \in RowPoints
      BY <2>3 DEF Reserve, RowPoints
    <3>2. ASSUME NEW r \in Reservations,
                 request' = [request EXCEPT ![q].at = "confirm", ![q].res = r]
          PROVE  request'[q].row = request[q].row
      BY <1>1, <3>2 DEF Inv, Types, Locals
    <3>3. QED
      BY <2>3, <3>1, <3>2, FinishLeaves DEF Reserve, Attended, RowPoints
  <2>4. CASE Confirm(q)
    <3>1. CASE Raise(q)
      BY <3>1, RaiseAttends
    <3>2. CASE Go(q, "capture")
      <4>1. request[q].at \in RowPoints
        BY <2>4 DEF Confirm, RowPoints
      <4>2. QED
        BY <3>2, <4>1, GoAttends DEF Points
    <3>3. QED
      BY <2>4, <3>1, <3>2 DEF Confirm
  <2>5. CASE Capture(q)
    <3> DEFINE key == IF request[q].arg = Null THEN request[q].row.key ELSE request[q].arg
               row == [request[q].row EXCEPT !.status = "pending", !.payment = "succeeded",
                                             !.res = request[q].res, !.key = key]
    <3>1. request' = [request EXCEPT ![q].at = "save", ![q].row = row]
      BY <2>5 DEF Capture
    <3>2. row.status = "pending"
      BY <1>1 DEF Locals, Rows
    <3> HIDE DEF row
    <3>3. request'[q].row = row
      BY <1>1, <3>1 DEF Inv, Types, Locals
    <3>4. QED
      BY <3>2, <3>3
  <2>6. CASE GiveUp(q)
    BY <2>6, FinishLeaves DEF GiveUp, RowPoints
  <2>7. CASE Load(q)
    <3>1. CASE Go(q, "begin")
      BY <3>1, GoAttends DEF Points, RowPoints
    <3>2. CASE Finish(q) \/ Raise(q)
      BY <3>2, FinishLeaves, RaiseAttends DEF RowPoints
    <3>3. QED
      BY <2>7, <3>1, <3>2 DEF Load
  <2>8. QED
    BY <2>1, <2>2, <2>3, <2>4, <2>5, <2>6, <2>7
<1>5. QED
  BY <1>1, <1>2, <1>3, <1>4, OneAttends

\* The steps that write the order.
LEMMA WritesAttend ==
  ASSUME Inv, Serial, Attended, NEW q \in Requests,
         \/ SaveRow(q) \/ CancelOrder(q) \/ Begin(q) \/ FinishOrder(q) \/ FailOrder(q)
         \/ Close(q)
  PROVE  Attended'
<1>1. /\ request[q].at \notin Paused /\ Continue(q)
      /\ request[q] \in Locals /\ request[q].order \in Orders
  <2>1. request[q].at \notin Paused /\ Continue(q)
    BY DEF SaveRow, CancelOrder, Begin, FinishOrder, FailOrder, Close, Paused, Continue
  <2>2. QED
    BY <2>1 DEF Inv, Types, Sound, RightKind
<1>2. Others(q)
  BY <1>1, ContinueMoves
<1>3. \A o \in Orders \ {request[q].order} : order[o].status # "processing"
  BY <1>1, OnlyItsOwn
<1>4. CASE SaveRow(q)
  <2>1. request[q].row.status # "processing"
    BY <1>4 DEF SaveRow, Attended, RowPoints
  <2>2. \A o \in Orders : order'[o].status # "processing"
    BY <1>1, <1>3, <1>4, <2>1 DEF SaveRow, Inv, Types
  <2>3. request'[q].at \notin RowPoints
    <3>1. Go(q, "process") => request'[q].at = "process"
      BY GoMoves DEF Points
    <3>2. QED
      BY <1>4, <3>1, FinishLeaves DEF SaveRow, RowPoints
  <2>4. QED
    BY <1>1, <1>2, <2>2, <2>3, OneAttends
<1>5. CASE Begin(q)
  <2>1. request'[q].at = "activate" /\ request'[q].order = request[q].order
    BY <1>5, GoMoves DEF Begin, Points
  <2>2. \A o \in Orders \ {request[q].order} : order'[o] = order[o]
    BY <1>1, <1>5, StatusKeepsNames DEF Begin
  <2>3. QED
    BY <1>1, <1>2, <1>3, <2>1, <2>2, OneAttends DEF Working, RowPoints
<1>6. CASE CancelOrder(q) \/ FinishOrder(q) \/ FailOrder(q) \/ Close(q)
  <2>1. PICK status \in {"cancelled", "completed", "failed"} : SetStatus(q, status)
    BY <1>6 DEF CancelOrder, FinishOrder, FailOrder, Close
  <2>2. \A o \in Orders : order'[o].status # "processing"
    BY <1>1, <1>3, <2>1, StatusKeepsNames
  <2>3. request'[q].at \notin RowPoints
    BY <1>6, FinishLeaves, RaiseAttends
       DEF CancelOrder, FinishOrder, FailOrder, Close, RowPoints
  <2>4. QED
    BY <1>1, <1>2, <2>2, <2>3, OneAttends
<1>7. QED
  BY <1>4, <1>5, <1>6

LEMMA ActivateAttends ==
  ASSUME Inv, Serial, Attended, NEW q \in Requests, Activate(q)
  PROVE  Attended'
<1>1. /\ request[q].at \notin Paused /\ UNCHANGED order /\ Continue(q)
      /\ Go(q, "finish") \/ Go(q, "fail")
  BY DEF Activate, Paused, Continue
<1>2. Others(q)
  BY <1>1, ContinueMoves
<1>3. request'[q].at \in {"finish", "fail"} /\ request'[q].order = request[q].order
  BY <1>1, GoMoves DEF Points
<1>4. \A o \in Orders : order[o].status = "processing" => request[q].order = o
  BY <1>1, OnlyItsOwn
<1>5. QED
  BY <1>1, <1>2, <1>3, <1>4, OneAttends DEF Working, RowPoints

LEMMA OutsideAttends ==
  ASSUME Inv, Attended,
         \/ \E o \in Orders, kind \in Kinds, cash \in BOOLEAN : Create(o, kind, cash)
         \/ \E p \in Intents :
               (\E o \in Orders : CreatePaymentIntent(p, o)) \/ Decline(p) \/ Charge(p)
         \/ UNCHANGED vars
  PROVE  Attended'
<1>1. ASSUME NEW o \in Orders, NEW kind \in Kinds, NEW cash \in BOOLEAN, Create(o, kind, cash)
      PROVE  Attended'
  <2>1. PICK r \in Reservations \cup {Null} : Place(o, kind, cash, r)
    BY <1>1 DEF Create
  <2>2. ~Placed(o) /\ UNCHANGED request
    BY <1>1 DEF Create, Placed
  <2>3. (\A x \in Orders \ {o} : order'[x] = order[x]) /\ order'[o].status = "pending"
    BY <2>1, <2>2, PlaceEffect DEF Place, NoOrder, Inv, Types
  <2>4. QED
    BY <2>2, <2>3 DEF Attended
<1>2. ASSUME NEW p \in Intents,
             (\E o \in Orders : CreatePaymentIntent(p, o)) \/ Decline(p) \/ Charge(p)
      PROVE  Attended'
  BY <1>2 DEF CreatePaymentIntent, Decline, Charge, Attended
<1>3. CASE UNCHANGED vars
  BY <1>3 DEF vars, Attended
<1>4. QED
  BY <1>1, <1>2, <1>3

LEMMA NextAttends ==
  ASSUME MaxInFlight = 1, MaxFaults = 0, MaxCrashes = 0,
         Inv, Serial, Attended, [Next]_vars
  PROVE  Attended'
<1>1. ~Crash /\ \A q \in Requests : ~Fault(q)
  BY DEF Crash, Fault, Inv, Types
<1>2. ASSUME NEW q \in Requests, Continue(q)
      PROVE  Attended'
  BY <1>2, QuietAttends, WritesAttend, ActivateAttends DEF Continue
<1>3. QED
  BY <1>1, <1>2, StartAttends, OutsideAttends DEF Next

\* When handlers do not overlap and nothing fails, an order is PROCESSING only while a
\* handler is between the two writes of processOrder for it: what the early return
\* "Already being processed" (orders.service.ts:195) relies on.  With overlapping
\* handlers, a failure or a restart it is false (CheckoutOrphaned.cfg).
THEOREM ProcessingHasAnOwner ==
  ASSUME MaxInFlight = 1, MaxFaults = 0, MaxCrashes = 0
  PROVE  Spec => []ProcessingIsOwned
<1>1. Init => Attended
  <2>1. ASSUME Init
        PROVE  /\ \A q \in Requests : request[q].at = "new"
               /\ \A o \in Orders : order[o].status = "none"
    BY <2>1, EndedIsLocal DEF Init, NoOrder
  <2>2. QED
    BY <2>1 DEF Attended, RowPoints
<1>2. Inv /\ Serial /\ Attended /\ [Next]_vars => Attended'
  BY NextAttends
<1>3. Attended => ProcessingIsOwned
  BY DEF Attended, ProcessingIsOwned, InFlight, Working, Processing
<1>4. QED
  BY <1>1, <1>2, <1>3, InvAlways, SerialAlways, PTL DEF Spec
=============================================================================
