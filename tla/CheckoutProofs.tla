--------------------------- MODULE CheckoutProofs ---------------------------
(***************************************************************************)
(* Theorems about Checkout, for any number of orders, reservations,        *)
(* intents, requests, failures and restarts, overlapping as they like.     *)
(***************************************************************************)
EXTENDS Checkout, TLAPS

LEMMA Assumed ==
  /\ Null \notin Orders /\ Null \notin Reservations /\ Null \notin Intents /\ Null \notin Keys
  /\ MaxFaults \in Nat /\ MaxCrashes \in Nat
  BY NullAssumption, BoundsAssumption

-----------------------------------------------------------------------------
(* What a handler is, and what the row it carries may say.                 *)

Placed(o) == order[o].status # "none"
Used(r) == reservation[r].status # "none"
Active(r) == reservation[r].status = "ACTIVE"
Something(o) == activations[o] > 0 \/ Charged(o)

\* Points at which a handler has a row that it may still save.
RowPoints == {"convert", "cashback", "save", "release", "reserve", "confirm", "capture"}
Paused == {"new", "done"}

RightKind(q) ==
    LET h == request[q]
    IN  /\ h.at \in {"convert", "cashback", "close"} => h.doing = "success"
        /\ h.at \in {"reserve", "confirm", "capture", "giveUp"} => h.doing = "complete"
        /\ h.at \notin Paused =>
              /\ h.order \in Orders /\ Placed(h.order)
              /\ h.doing = "complete" => h.arg \in Keys \cup {Null}
              /\ h.doing = "success" =>
                    /\ h.arg \in Intents
                    /\ intent[h.arg].order = h.order /\ intent[h.arg].charged

RightRow(q) ==
    LET h == request[q]
    IN  h.at \in RowPoints =>
          /\ h.row.status # "none" /\ h.row.kind = order[h.order].kind
          /\ h.row.res # Null => Used(h.row.res)
          /\ (h.row.status = "completed" /\ h.row.kind = "one_time") => Something(h.order)
          /\ (h.at \in {"cashback", "save"} /\ h.row.payment = "succeeded" /\ h.row.res # Null)
                => ~Active(h.row.res)
          /\ h.at = "convert" => h.row.res = h.res
          /\ (h.at = "release" /\ h.doing # "cancel") => h.row.res = Null

RightEnd(q) ==
    LET h == request[q]
    IN  /\ h.res # Null => Used(h.res)
        /\ (h.at = "finish" /\ order[h.order].kind = "one_time") => activations[h.order] > 0

Sound(q) == RightKind(q) /\ RightRow(q) /\ RightEnd(q)

Types ==
    /\ order \in [Orders -> Rows]
    /\ reservation \in [Reservations -> Holds]
    /\ credited \subseteq Intents
    /\ intent \in [Intents -> [order : Orders \cup {Null}, charged : BOOLEAN,
                               declined : BOOLEAN]]
    /\ activations \in [Orders -> Nat]
    /\ request \in [Requests -> Locals]
    /\ operated \subseteq Orders
    /\ faults \in 0..MaxFaults
    /\ crashes \in 0..MaxCrashes

NamedAreUsed == \A o \in Orders : order[o].res # Null => Used(order[o].res)

RightTables ==
    /\ NamedAreUsed
    /\ \A p \in Intents : intent[p].charged \/ intent[p].declined => intent[p].order \in Orders
    /\ PaidHoldsNothing
    /\ CompletedForSomething

Inv == Types /\ RightTables /\ \A q \in Requests : Sound(q)

LEMMA InvIsTyped ==
  ASSUME Inv
  PROVE  TypeOK
<1>1. \A q \in InFlight : request[q].order \in Orders
  BY DEF Inv, Sound, RightKind, InFlight, Paused
<1>2. QED
  BY <1>1 DEF Inv, Types, TypeOK

-----------------------------------------------------------------------------
(* What no step takes back.                                                *)

Grows ==
    /\ \A r \in Reservations : Used(r) => Used(r)' /\ (Active(r)' => Active(r))
    /\ \A o \in Orders :
          /\ Placed(o) => Placed(o)' /\ order'[o].kind = order[o].kind
          /\ activations[o] > 0 => activations'[o] > 0
          /\ Something(o) => Something(o)'
    /\ \A p \in Intents :
          intent[p].charged => intent'[p].charged /\ intent'[p].order = intent[p].order

LEMMA SoundStays ==
  ASSUME Inv, Grows, NEW q \in Requests, request'[q] = request[q]
  PROVE  Sound(q)'
<1> DEFINE h == request[q]
<1>1. /\ Sound(q) /\ h \in Locals /\ Grows
  BY DEF Inv, Types
<1>2. /\ h.row.res # Null => h.row.res \in Reservations
      /\ h.res # Null => h.res \in Reservations
      /\ h.at \notin Paused => h.order \in Orders /\ Placed(h.order)
  BY <1>1 DEF Locals, Rows, Sound, RightKind
<1>3. RightKind(q)'
  BY <1>1, <1>2 DEF Sound, RightKind, Grows
<1>4. RightRow(q)'
  BY <1>1, <1>2 DEF Sound, RightRow, Grows, RowPoints, Paused
<1>5. RightEnd(q)'
  BY <1>1, <1>2 DEF Sound, RightEnd, Grows, Paused
<1>6. QED
  BY <1>3, <1>4, <1>5 DEF Sound

LEMMA ChargedStays ==
  ASSUME Inv, NEW o \in Orders,
         \A p \in Intents :
            intent[p].charged => intent'[p].charged /\ intent'[p].order = intent[p].order
  PROVE  Charged(o) => Charged(o)'
  BY DEF Charged

\* A step that leaves the tables alone.
Quiet == UNCHANGED <<order, reservation, intent, activations>>

LEMMA QuietGrows ==
  ASSUME Inv, Quiet
  PROVE  Grows /\ RightTables'
<1>1. \A o \in Orders : Something(o)' <=> Something(o)
  BY DEF Quiet, Something, Charged
<1>2. Grows
  BY <1>1 DEF Quiet, Grows, Used, Active, Placed
<1>3. RightTables'
  BY <1>1
     DEF Inv, RightTables, NamedAreUsed, Quiet, Used, PaidHoldsNothing, CompletedForSomething,
         Something
<1>4. QED
  BY <1>2, <1>3

\* Only handler q moves.
Alone(q) ==
    /\ request' \in [Requests -> Locals]
    /\ \A p \in Requests \ {q} : request'[p] = request[p]

LEMMA HandlerStep ==
  ASSUME Inv, NEW q \in Requests, Types', Alone(q), Grows, RightTables', Sound(q)'
  PROVE  Inv'
  BY SoundStays DEF Inv, Alone

LEMMA Becomes ==
  ASSUME Inv, NEW q \in Requests, NEW h \in Locals, request' = [request EXCEPT ![q] = h]
  PROVE  Alone(q) /\ request'[q] = h
  BY DEF Inv, Types, Alone

LEMMA EndedIsLocal ==
  /\ Ended \in Locals /\ Unused \in Locals /\ NoOrder \in Rows
  /\ Ended.at = "done" /\ Ended.res = Null /\ Unused.at = "new" /\ Unused.res = Null
<1>1. NoOrder \in Rows
  BY DEF NoOrder, Rows, Statuses, Payments
<1>2. Unused \in Locals
  BY <1>1 DEF Unused, Local, Locals, Points, Handlers
<1>3. Ended \in Locals
  BY <1>2 DEF Ended, Locals, Points
<1>4. /\ Ended.at = "done" /\ Ended.res = Null
      /\ Unused.at = "new" /\ Unused.res = Null
  BY DEF Ended, Unused, Local
<1>5. QED
  BY <1>1, <1>2, <1>3, <1>4

LEMMA FinishEnds ==
  ASSUME Inv, NEW q \in Requests, Finish(q)
  PROVE  Alone(q) /\ Sound(q)'
<1>1. Alone(q) /\ request'[q] = Ended
  BY Becomes, EndedIsLocal DEF Finish
<1>2. QED
  BY <1>1, EndedIsLocal
     DEF Sound, RightKind, RightRow, RightEnd, RowPoints, Paused

LEMMA GoMoves ==
  ASSUME Inv, NEW q \in Requests, NEW at \in Points, Go(q, at)
  PROVE  /\ Alone(q)
         /\ request'[q].at = at /\ request'[q].doing = request[q].doing
         /\ request'[q].order = request[q].order /\ request'[q].arg = request[q].arg
         /\ request'[q].res = request[q].res /\ request'[q].row = request[q].row
<1> DEFINE h == [request[q] EXCEPT !.at = at]
<1>1. request[q] \in Locals
  BY DEF Inv, Types
<1>2. /\ h \in Locals /\ h.at = at /\ h.doing = request[q].doing
      /\ h.order = request[q].order /\ h.arg = request[q].arg
      /\ h.res = request[q].res /\ h.row = request[q].row
  BY <1>1 DEF Locals
<1>3. request' = [request EXCEPT ![q] = h]
  BY DEF Go
<1> HIDE DEF h
<1>4. QED
  BY <1>2, <1>3, Becomes

\* Points a handler may go to from any other without more to show.
LEMMA GoIsSound ==
  ASSUME Inv, Grows, NEW q \in Requests, request[q].at \notin Paused,
         NEW at \in {"process", "begin", "activate", "fail", "cancel"}, Go(q, at)
  PROVE  Alone(q) /\ Sound(q)'
<1> DEFINE h == request[q]
<1>1. /\ Sound(q) /\ h \in Locals
      /\ Alone(q) /\ request'[q].at = at /\ request'[q].doing = h.doing
      /\ request'[q].order = h.order /\ request'[q].arg = h.arg /\ request'[q].res = h.res
  BY GoMoves DEF Inv, Types, Points
<1>2. RightKind(q)'
  BY <1>1 DEF Sound, RightKind, Grows, Paused
<1>3. RightRow(q)' /\ RightEnd(q)'
  BY <1>1 DEF Sound, RightRow, RightEnd, Grows, RowPoints, Locals
<1>4. QED
  BY <1>1, <1>2, <1>3 DEF Sound

\* Where an exception takes a handler.
LEMMA RaiseIsSound ==
  ASSUME Inv, Grows, NEW q \in Requests, request[q].at \notin Paused, Raise(q)
  PROVE  Alone(q) /\ Sound(q)'
<1> DEFINE h == request[q]
<1>0. Sound(q) /\ h \in Locals
  BY DEF Inv, Types
<1>1. ASSUME NEW at \in {"close", "giveUp"}, Go(q, at),
             at = "close" => h.doing = "success", at = "giveUp" => h.doing = "complete"
      PROVE  Alone(q) /\ Sound(q)'
  <2>1. /\ Alone(q) /\ request'[q].at = at /\ request'[q].doing = h.doing
        /\ request'[q].order = h.order /\ request'[q].arg = h.arg /\ request'[q].res = h.res
    BY <1>1, GoMoves DEF Points
  <2>2. RightKind(q)'
    BY <1>0, <1>1, <2>1 DEF Sound, RightKind, Grows, Paused
  <2>3. RightRow(q)' /\ RightEnd(q)'
    BY <1>0, <2>1 DEF Sound, RightRow, RightEnd, Grows, RowPoints, Locals
  <2>4. QED
    BY <2>1, <2>2, <2>3 DEF Sound
<1>2. CASE Go(q, "cancel")
  BY <1>2, GoIsSound
<1>3. CASE Finish(q)
  BY <1>3, FinishEnds
<1>4. \/ Go(q, "close") /\ h.doing = "success"
      \/ Go(q, "giveUp") /\ h.doing = "complete"
      \/ Go(q, "cancel")
      \/ Finish(q)
  BY DEF Raise
<1>5. QED
  BY <1>1, <1>2, <1>3, <1>4

-----------------------------------------------------------------------------
(* Each action keeps the invariant.                                        *)

LEMMA InitInv ==
  ASSUME Init
  PROVE  Inv
<1>1. order \in [Orders -> Rows] /\ request \in [Requests -> Locals]
  BY EndedIsLocal DEF Init
<1>2. /\ reservation \in [Reservations -> Holds]
      /\ intent \in [Intents -> [order : Orders \cup {Null}, charged : BOOLEAN,
                                 declined : BOOLEAN]]
  BY DEF Init, NoReservation, NoIntent, Holds
<1>3. Types
  BY <1>1, <1>2, Assumed DEF Init, Types
<1>4. RightTables
  BY DEF Init, RightTables, NamedAreUsed, NoOrder, NoIntent, PaidHoldsNothing, CompletedForSomething
<1>5. ASSUME NEW q \in Requests PROVE Sound(q)
  BY EndedIsLocal
     DEF Init, Sound, RightKind, RightRow, RightEnd, RowPoints, Paused
<1>6. QED
  BY <1>3, <1>4, <1>5 DEF Inv

\* No handler moves.
LEMMA OutsideStep ==
  ASSUME Inv, UNCHANGED request, Types', Grows, RightTables'
  PROVE  Inv'
  BY SoundStays DEF Inv

LEMMA PlaceEffect ==
  ASSUME Inv, NEW o \in Orders, ~Placed(o), NEW kind \in Kinds, NEW cash \in BOOLEAN,
         NEW r \in Reservations \cup {Null}, Place(o, kind, cash, r)
  PROVE  /\ order' \in [Orders -> Rows]
         /\ \A x \in Orders \ {o} : order'[x] = order[x]
         /\ order'[o].status = "pending" /\ order'[o].res = r /\ order'[o].payment = "unpaid"
<1> DEFINE new == [NoOrder EXCEPT !.status = "pending", !.kind = kind, !.cashback = cash,
                                  !.res = r]
<1>1. /\ new \in Rows /\ new.status = "pending" /\ new.res = r /\ new.payment = "unpaid"
  BY DEF NoOrder, Rows, Statuses, Payments
<1>2. order' = [order EXCEPT ![o] = new]
  BY DEF Place
<1> HIDE DEF new
<1>3. QED
  BY <1>1, <1>2 DEF Inv, Types

\* A new reservation takes an id that nothing names yet.
LEMMA HoldEffect ==
  ASSUME Inv, NEW r \in Reservations, NEW o \in Orders, NEW covers \in BOOLEAN,
         NEW by \in {"create", "complete"}, Hold(r, o, covers, by)
  PROVE  /\ reservation' \in [Reservations -> Holds]
         /\ ~Used(r) /\ Used(r)'
         /\ \A x \in Reservations \ {r} : reservation'[x] = reservation[x]
         /\ \A x \in Reservations : Used(x) => Used(x)' /\ (Active(x)' => Active(x))
         /\ \A x \in Orders : order[x].res # r
<1> DEFINE new == [status |-> "ACTIVE", order |-> o, covers |-> covers, by |-> by]
<1>1. new \in Holds /\ new.status = "ACTIVE"
  BY DEF Holds
<1>2. reservation' = [reservation EXCEPT ![r] = new] /\ ~Used(r)
  BY DEF Hold, Used
<1> HIDE DEF new
<1>3. QED
  BY <1>1, <1>2, Assumed DEF Inv, Types, RightTables, NamedAreUsed, Used, Active

LEMMA CreateInv ==
  ASSUME Inv, NEW o \in Orders, NEW kind \in Kinds, NEW cash \in BOOLEAN,
         Create(o, kind, cash)
  PROVE  Inv'
<1>1. /\ ~Placed(o)
      /\ UNCHANGED <<credited, intent, activations, request, operated, crashes>>
  BY DEF Create, Placed
<1>2. faults' \in 0..MaxFaults
  BY Assumed DEF Create, Inv, Types
<1>3. PICK r \in Reservations \cup {Null} : Place(o, kind, cash, r)
  BY DEF Create
<1>4. /\ order' \in [Orders -> Rows]
      /\ \A x \in Orders \ {o} : order'[x] = order[x]
      /\ order'[o].status = "pending" /\ order'[o].res = r /\ order'[o].payment = "unpaid"
  BY <1>1, <1>3, PlaceEffect
<1>5. /\ reservation' \in [Reservations -> Holds]
      /\ \A x \in Reservations : Used(x) => Used(x)' /\ (Active(x)' => Active(x))
      /\ r # Null => Used(r)'
  <2>1. CASE UNCHANGED reservation /\ Place(o, kind, cash, Null)
    <3>1. r = Null
      BY <1>4, <2>1, <1>1, PlaceEffect
    <3>2. QED
      BY <2>1, <3>1 DEF Inv, Types, Used, Active
  <2>2. ASSUME NEW s \in Reservations, NEW covers \in BOOLEAN, Hold(s, o, covers, "create"),
               Place(o, kind, cash, s) \/ Place(o, kind, cash, Null)
        PROVE  /\ reservation' \in [Reservations -> Holds]
               /\ \A x \in Reservations : Used(x) => Used(x)' /\ (Active(x)' => Active(x))
               /\ r # Null => Used(r)'
    <3>1. r = s \/ r = Null
      BY <1>1, <1>4, <2>2, PlaceEffect
    <3>2. QED
      BY <2>2, <3>1, HoldEffect
  <2>3. QED
    BY <2>1, <2>2 DEF Create
<1>6. Types'
  BY <1>1, <1>2, <1>4, <1>5 DEF Inv, Types
<1>7. \A x \in Orders : Something(x)' <=> Something(x)
  BY <1>1 DEF Something, Charged
<1>8. Grows
  BY <1>1, <1>4, <1>5, <1>7 DEF Grows, Placed
<1>9. RightTables'
  <2>0. \A x \in Orders : /\ order[x].res \in Reservations \cup {Null}
                          /\ order[x].res # Null => Used(order[x].res)
    BY DEF Inv, RightTables, NamedAreUsed, Types, Rows
  <2>1. NamedAreUsed'
    BY <1>4, <1>5, <2>0 DEF NamedAreUsed, Used
  <2>2. PaidHoldsNothing'
    BY <1>4, <1>5, <2>0 DEF Inv, RightTables, PaidHoldsNothing, Used, Active
  <2>3. CompletedForSomething'
    BY <1>1, <1>4, <1>7 DEF Inv, RightTables, CompletedForSomething, Something
  <2>4. QED
    BY <1>1, <2>1, <2>2, <2>3 DEF Inv, RightTables
<1>10. QED
  BY <1>1, <1>6, <1>8, <1>9, OutsideStep

\* A step of Stripe, which concerns one intent.
LEMMA StripeInv ==
  ASSUME Inv, NEW p \in Intents, NEW o \in Orders,
         CreatePaymentIntent(p, o) \/ Decline(p) \/ Charge(p)
  PROVE  Inv'
<1>1. UNCHANGED <<order, reservation, credited, activations, request, operated, faults, crashes>>
  BY DEF CreatePaymentIntent, Decline, Charge
<1>2. /\ intent' \in [Intents -> [order : Orders \cup {Null}, charged : BOOLEAN,
                                  declined : BOOLEAN]]
      /\ \A x \in Intents :
           /\ intent[x].charged => intent'[x].charged /\ intent'[x].order = intent[x].order
           /\ intent'[x].charged \/ intent'[x].declined => intent'[x].order \in Orders
  <2>1. CASE CreatePaymentIntent(p, o)
    BY <2>1, Assumed DEF CreatePaymentIntent, Inv, Types, RightTables
  <2>2. CASE Decline(p)
    BY <2>2, Assumed DEF Decline, Inv, Types, RightTables
  <2>3. CASE Charge(p)
    BY <2>3, Assumed DEF Charge, Inv, Types, RightTables
  <2>4. QED
    BY <2>1, <2>2, <2>3
<1>3. Types'
  BY <1>1, <1>2 DEF Inv, Types
<1>4. \A x \in Orders : Something(x) => Something(x)'
  BY <1>1, <1>2, ChargedStays DEF Something
<1>5. Grows
  BY <1>1, <1>2, <1>4 DEF Grows, Used, Active, Placed
<1>6. RightTables'
  <2>1. PaidHoldsNothing' /\ NamedAreUsed'
    BY <1>1 DEF Inv, RightTables, NamedAreUsed, PaidHoldsNothing, Used
  <2>2. CompletedForSomething'
    BY <1>1, <1>4 DEF Inv, RightTables, CompletedForSomething, Something
  <2>3. QED
    BY <1>2, <2>1, <2>2 DEF RightTables
<1>7. QED
  BY <1>1, <1>3, <1>5, <1>6, OutsideStep

LEMMA QuietStep ==
  ASSUME Inv, NEW q \in Requests, Quiet, Types', Alone(q), Sound(q)'
  PROVE  Inv'
  BY QuietGrows, HandlerStep

\* What a handler that starts makes of itself.
LEMMA EnterStep ==
  ASSUME Inv, NEW q \in Requests, NEW at \in Points, NEW doing \in Handlers, NEW o \in Orders,
         NEW arg \in Intents \cup Keys \cup {Null}, NEW r \in Reservations \cup {Null},
         NEW row \in Rows,
         Enter(q, at, doing, o, arg, r, row), Quiet,
         UNCHANGED <<credited, faults, crashes>>, operated' \in {operated, operated \cup {o}},
         Placed(o), r # Null => Used(r),
         at \notin {"cashback", "convert", "close"} \/ doing = "success",
         at \notin {"reserve", "confirm", "capture", "giveUp"} \/ doing = "complete",
         at # "finish",
         doing = "complete" => arg \in Keys \cup {Null},
         doing = "success" => arg \in Intents /\ intent[arg].order = o /\ intent[arg].charged,
         at \in RowPoints =>
            /\ row.status # "none" /\ row.kind = order[o].kind
            /\ row.res # Null => Used(row.res)
            /\ (row.status = "completed" /\ row.kind = "one_time") => Something(o)
            /\ (at \in {"cashback", "save"} /\ row.payment = "succeeded" /\ row.res # Null)
                  => ~Active(row.res)
            /\ at = "convert" => row.res = r
            /\ (at = "release" /\ doing # "cancel") => row.res = Null
  PROVE  Inv'
<1> DEFINE h == Local(at, doing, o, arg, r, row)
<1>1. /\ h \in Locals /\ h.at = at /\ h.doing = doing /\ h.order = o /\ h.arg = arg
      /\ h.res = r /\ h.row = row
  BY DEF Local, Locals
<1>2. request' = [request EXCEPT ![q] = h]
  BY DEF Enter
<1> HIDE DEF h
<1>3. Alone(q) /\ request'[q] = h
  BY <1>1, <1>2, Becomes
<1>4. Types'
  BY <1>3 DEF Inv, Types, Quiet, Alone
<1>5. RightKind(q)'
  BY <1>1, <1>3 DEF RightKind, Quiet, Placed
<1>6. RightRow(q)'
  BY <1>1, <1>3 DEF RightRow, Quiet, Used, Active, Something, Charged
<1>7. RightEnd(q)'
  BY <1>1, <1>3 DEF RightEnd, Quiet, Used
<1>8. QED
  BY <1>3, <1>4, <1>5, <1>6, <1>7, QuietStep DEF Sound

\* What a row says that is read from the table.
LEMMA RowRead ==
  ASSUME Inv, NEW o \in Orders
  PROVE  /\ order[o] \in Rows
         /\ order[o].res \in Reservations \cup {Null}
         /\ order[o].res # Null => Used(order[o].res)
         /\ (order[o].payment = "succeeded" /\ order[o].res # Null) => ~Active(order[o].res)
         /\ (order[o].status = "completed" /\ order[o].kind = "one_time") => Something(o)
  BY DEF Inv, Types, RightTables, NamedAreUsed, PaidHoldsNothing, CompletedForSomething, Rows,
         Active, Something

LEMMA HandlePaymentSuccessInv ==
  ASSUME Inv, NEW q \in Requests, NEW p \in Intents, HandlePaymentSuccess(q, p)
  PROVE  Inv'
<1>0. PICK o \in Orders : o = intent[p].order
  BY DEF HandlePaymentSuccess, Inv, RightTables
<1>1. /\ o = intent[p].order /\ intent[p].charged /\ Placed(o)
      /\ Quiet /\ UNCHANGED <<credited, faults, crashes, operated>>
  BY <1>0 DEF HandlePaymentSuccess, CanStart, Placed, NothingElse, Quiet
<1>2. CASE Finish(q)
  <2>1. Alone(q) /\ Sound(q)'
    BY <1>2, FinishEnds
  <2>2. Types'
    BY <1>1, <2>1 DEF Inv, Types, Quiet, Alone
  <2>3. QED
    BY <1>1, <2>1, <2>2, QuietStep
<1>3. CASE order[o].status # "completed"
  <2> DEFINE row == [order[o] EXCEPT !.payment = "succeeded"]
             at == IF order[o].res # Null THEN "convert" ELSE AfterConvert(order[o])
  <2>1. /\ row \in Rows /\ row.status = order[o].status /\ row.kind = order[o].kind
        /\ row.res = order[o].res
    BY <1>0, RowRead DEF Rows, Payments
  <2>2. at \in {"convert", "cashback", "save"} /\ (at # "convert" => row.res = Null)
        /\ at \in Points
    BY <2>1 DEF AfterConvert, Points
  <2>3. Enter(q, at, "success", o, p, order[o].res, row)
    BY <1>1, <1>3 DEF HandlePaymentSuccess
  <2> HIDE DEF row, at
  <2>4. QED
    BY <1>1, <1>3, <2>1, <2>2, <2>3, RowRead, EnterStep DEF Handlers, Placed
<1>4. QED
  BY <1>1, <1>2, <1>3 DEF HandlePaymentSuccess

LEMMA HandlePaymentFailedInv ==
  ASSUME Inv, NEW q \in Requests, NEW p \in Intents, HandlePaymentFailed(q, p)
  PROVE  Inv'
<1>0. PICK o \in Orders : o = intent[p].order
  BY DEF HandlePaymentFailed, Inv, RightTables
<1>1. /\ o = intent[p].order /\ Placed(o)
      /\ Quiet /\ UNCHANGED <<credited, faults, crashes, operated>>
  BY <1>0 DEF HandlePaymentFailed, CanStart, Placed, NothingElse, Quiet
<1> DEFINE row == [order[o] EXCEPT !.payment = "failed", !.res = Null]
           at == IF order[o].res # Null THEN "release" ELSE "save"
<1>2. /\ row \in Rows /\ row.status = order[o].status /\ row.kind = order[o].kind
      /\ row.res = Null
  BY <1>0, RowRead DEF Rows, Payments
<1>3. at \in {"release", "save"} /\ at \in Points
  BY DEF Points
<1>4. Enter(q, at, "failed", o, p, order[o].res, row)
  BY <1>1 DEF HandlePaymentFailed
<1> HIDE DEF row, at
<1>5. QED
  BY <1>1, <1>2, <1>3, <1>4, RowRead, EnterStep DEF Handlers, Placed

LEMMA CancelInv ==
  ASSUME Inv, NEW q \in Requests, NEW o \in Orders, Cancel(q, o)
  PROVE  Inv'
<1>1. /\ Placed(o) /\ Quiet /\ UNCHANGED <<credited, faults, crashes, operated>>
  BY DEF Cancel, CanStart, Placed, NothingElse, Quiet
<1> DEFINE at == IF order[o].res # Null THEN "release" ELSE "cancel"
<1>2. at \in {"release", "cancel"} /\ at \in Points
  BY DEF Points
<1>3. Enter(q, at, "cancel", o, Null, order[o].res, order[o])
  BY DEF Cancel
<1> HIDE DEF at
<1>4. QED
  BY <1>1, <1>2, <1>3, RowRead, EnterStep DEF Handlers, Placed

LEMMA ApplyCreditsInv ==
  ASSUME Inv, NEW q \in Requests, NEW o \in Orders, ApplyCredits(q, o)
  PROVE  Inv'
<1>1. /\ Placed(o) /\ Quiet /\ UNCHANGED <<credited, faults, crashes, operated>>
  BY DEF ApplyCredits, CanStart, Placed, NothingElse, Quiet
<1> DEFINE row == [order[o] EXCEPT !.res = Null]
           at == IF order[o].res # Null THEN "release" ELSE "save"
<1>2. /\ row \in Rows /\ row.status = order[o].status /\ row.kind = order[o].kind
      /\ row.res = Null
  BY RowRead DEF Rows
<1>3. at \in {"release", "save"} /\ at \in Points
  BY DEF Points
<1>4. Enter(q, at, "apply", o, Null, order[o].res, row)
  BY DEF ApplyCredits
<1> HIDE DEF row, at
<1>5. QED
  BY <1>1, <1>2, <1>3, <1>4, RowRead, EnterStep, SMTT(30) DEF Handlers, Placed

LEMMA SetRewardInv ==
  ASSUME Inv, NEW q \in Requests, NEW o \in Orders, NEW cash \in BOOLEAN, SetReward(q, o, cash)
  PROVE  Inv'
<1>1. /\ Placed(o) /\ Quiet /\ UNCHANGED <<credited, faults, crashes, operated>>
  BY DEF SetReward, CanStart, Placed, NothingElse, Quiet
<1> DEFINE row == [order[o] EXCEPT !.cashback = cash]
<1>2. /\ row \in Rows /\ row.status = order[o].status /\ row.kind = order[o].kind
      /\ row.res = order[o].res /\ row.payment = order[o].payment
  BY RowRead DEF Rows
<1>3. Enter(q, "save", "price", o, Null, Null, row)
  BY DEF SetReward
<1> HIDE DEF row
<1>4. /\ row.status # "none"
      /\ row.res # Null => Used(row.res)
      /\ (row.status = "completed" /\ row.kind = "one_time") => Something(o)
      /\ (row.payment = "succeeded" /\ row.res # Null) => ~Active(row.res)
  BY <1>1, <1>2, RowRead DEF Placed
<1>5. "save" \in Points /\ "price" \in Handlers
  BY DEF Points, Handlers
<1>6. QED
  BY <1>1, <1>2, <1>3, <1>4, <1>5, EnterStep

LEMMA RemovePromoCodeInv ==
  ASSUME Inv, NEW q \in Requests, NEW o \in Orders, RemovePromoCode(q, o)
  PROVE  Inv'
<1>1. order[o].cashback \in BOOLEAN
  BY RowRead DEF Rows
<1>2. QED
  BY <1>1, SetRewardInv DEF RemovePromoCode

\* The handlers that begin without a row.
LEMMA RowlessInv ==
  ASSUME Inv, NEW q \in Requests, NEW o \in Orders,
         ApplyPromoCode(q, o) \/ ProcessOrder(q, o) \/ ProcessTopup(q, o)
  PROVE  Inv'
<1>1. /\ Placed(o) /\ Quiet /\ UNCHANGED <<credited, faults, crashes>>
      /\ operated' \in {operated, operated \cup {o}}
  BY DEF ApplyPromoCode, ProcessOrder, ProcessTopup, CanStart, Placed, NothingElse, Quiet
<1>2. ASSUME NEW at \in {"reread", "process", "begin"},
             NEW doing \in {"price", "process", "topup"},
             Enter(q, at, doing, o, Null, Null, NoOrder)
      PROVE  Inv'
  <2>1. at \in Points /\ doing \in Handlers /\ at \notin RowPoints
    BY DEF Points, Handlers, RowPoints
  <2>2. QED
    BY <1>1, <1>2, <2>1, EndedIsLocal, EnterStep
<1>3. QED
  BY <1>2 DEF ApplyPromoCode, ProcessOrder, ProcessTopup

LEMMA CompleteWithCreditsInv ==
  ASSUME Inv, NEW q \in Requests, NEW o \in Orders, NEW key \in Keys \cup {Null},
         CompleteWithCredits(q, o, key)
  PROVE  Inv'
<1>1. /\ Placed(o) /\ Quiet /\ UNCHANGED <<credited, faults, crashes, operated>>
  BY DEF CompleteWithCredits, CanStart, Placed, NothingElse, Quiet
<1> DEFINE at == IF order[o].res = Null THEN "reserve" ELSE "confirm"
<1>2. at \in {"reserve", "confirm"} /\ at \in Points
  BY DEF Points
<1>3. Enter(q, at, "complete", o, key, order[o].res, order[o])
  BY DEF CompleteWithCredits
<1> HIDE DEF at
<1>4. QED
  BY <1>1, <1>2, <1>3, RowRead, EnterStep DEF Handlers, Placed

\* A settled reservation is not active, and stays so.
LEMMA SettleEffect ==
  ASSUME Inv, NEW r \in Reservations \cup {Null}, NEW st \in {"RELEASED", "CONVERTED"},
         SettleAs(r, st), UNCHANGED <<order, intent, activations>>
  PROVE  /\ reservation' \in [Reservations -> Holds]
         /\ r # Null => ~Active(r)'
         /\ Grows /\ RightTables'
<1>1. /\ reservation' \in [Reservations -> Holds]
      /\ r # Null => ~Active(r)'
      /\ \A x \in Reservations : (Used(x) <=> Used(x)') /\ (Active(x)' => Active(x))
  <2>1. CASE r # Null /\ reservation[r].status = "ACTIVE"
    <3>1. /\ reservation' = [reservation EXCEPT ![r].status = st] /\ r \in Reservations
      BY <2>1 DEF SettleAs
    <3>2. /\ reservation' \in [Reservations -> Holds] /\ reservation'[r].status = st
          /\ \A x \in Reservations \ {r} : reservation'[x] = reservation[x]
      BY <3>1 DEF Inv, Types, Holds
    <3>3. QED
      BY <2>1, <3>1, <3>2 DEF Used, Active
  <2>2. CASE ~(r # Null /\ reservation[r].status = "ACTIVE")
    BY <2>2 DEF SettleAs, Inv, Types, Used, Active
  <2>3. QED
    BY <2>1, <2>2
<1>2. \A o \in Orders : Something(o)' <=> Something(o)
  BY DEF Something, Charged
<1>3. Grows
  BY <1>1, <1>2 DEF Grows, Placed
<1>4. RightTables'
  <2>1. \A o \in Orders : order[o].res \in Reservations \cup {Null}
    BY RowRead
  <2>2. NamedAreUsed' /\ PaidHoldsNothing'
    BY <1>1, <2>1 DEF Inv, RightTables, NamedAreUsed, PaidHoldsNothing, Used, Active
  <2>3. CompletedForSomething'
    BY <1>2 DEF Inv, RightTables, CompletedForSomething, Something
  <2>4. QED
    BY <2>2, <2>3 DEF Inv, RightTables
<1>5. QED
  BY <1>1, <1>3, <1>4

\* A handler goes on towards the save of its row.
LEMMA TowardsSave ==
  ASSUME Inv, Grows, NEW q \in Requests, NEW at \in {"cashback", "save"}, Go(q, at),
         request[q].at \in RowPoints, at = "cashback" => request[q].doing = "success",
         NEW r \in Reservations \cup {Null}, r = request[q].row.res,
         (request[q].row.payment = "succeeded" /\ r # Null) => ~Active(r)'
  PROVE  Alone(q) /\ Sound(q)'
<1> DEFINE h == request[q]
<1>1. /\ Sound(q) /\ h \in Locals
      /\ Alone(q) /\ request'[q].at = at /\ request'[q].doing = h.doing
      /\ request'[q].order = h.order /\ request'[q].arg = h.arg /\ request'[q].res = h.res
      /\ request'[q].row = h.row
  BY GoMoves DEF Inv, Types, Points
<1>2. h.order \in Orders /\ h.row.res \in Reservations \cup {Null}
      /\ h.res \in Reservations \cup {Null} /\ h.at \notin Paused
  BY <1>1 DEF Sound, RightKind, RowPoints, Paused, Locals, Rows
<1>3. RightKind(q)'
  BY <1>1, <1>2 DEF Sound, RightKind, Grows, Paused
<1>4. RightRow(q)'
  BY <1>1, <1>2 DEF Sound, RightKind, RightRow, Grows, RowPoints, Active
<1>5. RightEnd(q)'
  BY <1>1, <1>2 DEF Sound, RightEnd, Grows
<1>6. QED
  BY <1>1, <1>3, <1>4, <1>5 DEF Sound

LEMMA ConvertInv ==
  ASSUME Inv, NEW q \in Requests, Convert(q)
  PROVE  Inv'
<1>0. PICK r \in Reservations \cup {Null} : r = request[q].res
  BY DEF Inv, Types, Locals
<1>1. /\ request[q].at = "convert" /\ SettleAs(r, "CONVERTED")
      /\ UNCHANGED <<order, credited, intent, activations, operated, faults, crashes>>
      /\ r = request[q].row.res /\ request[q].doing = "success"
  BY <1>0 DEF Convert, Inv, Sound, RightKind, RightRow, RowPoints
<1>2. /\ reservation' \in [Reservations -> Holds] /\ Grows /\ RightTables'
      /\ r # Null => ~Active(r)'
  BY <1>1, SettleEffect
<1>3. Alone(q) /\ Sound(q)'
  <2>1. Go(q, "cashback") \/ Go(q, "save")
    BY DEF Convert, AfterConvert
  <2>2. QED
    BY <1>1, <1>2, <2>1, TowardsSave DEF RowPoints
<1>4. Types'
  BY <1>1, <1>2, <1>3 DEF Inv, Types, Alone
<1>5. QED
  BY <1>2, <1>3, <1>4, HandlerStep

LEMMA CashbackInv ==
  ASSUME Inv, NEW q \in Requests, Cashback(q)
  PROVE  Inv'
<1>0. PICK r \in Reservations \cup {Null} : r = request[q].row.res
  BY DEF Inv, Types, Locals, Rows
<1>1. /\ request[q].at = "cashback" /\ Quiet /\ Go(q, "save")
      /\ UNCHANGED <<operated, faults, crashes>>
      /\ credited' = credited \cup {request[q].arg} /\ request[q].arg \in Intents
  BY DEF Cashback, Quiet, Inv, Sound, RightKind, Paused
<1>2. (request[q].row.payment = "succeeded" /\ r # Null) => ~Active(r)'
  BY <1>0, <1>1 DEF Inv, Sound, RightRow, RowPoints, Quiet, Active
<1>3. Alone(q) /\ Sound(q)'
  BY <1>0, <1>1, <1>2, QuietGrows, TowardsSave DEF RowPoints
<1>4. Types'
  BY <1>1, <1>3 DEF Inv, Types, Alone, Quiet
<1>5. QED
  BY <1>1, <1>3, <1>4, QuietStep

LEMMA ReleaseInv ==
  ASSUME Inv, NEW q \in Requests, Release(q)
  PROVE  Inv'
<1>0. PICK r \in Reservations \cup {Null} : r = request[q].res
  BY DEF Inv, Types, Locals
<1>1. /\ request[q].at = "release" /\ SettleAs(r, "RELEASED")
      /\ UNCHANGED <<order, credited, intent, activations, operated, faults, crashes>>
  BY <1>0 DEF Release
<1>2. /\ reservation' \in [Reservations -> Holds] /\ Grows /\ RightTables'
  BY <1>1, SettleEffect
<1>3. Alone(q) /\ Sound(q)'
  <2>1. CASE Go(q, "cancel")
    BY <1>1, <1>2, <2>1, GoIsSound DEF Paused
  <2>2. CASE Go(q, "save") /\ request[q].doing # "cancel"
    <3>1. request[q].row.res = Null
      BY <1>1, <2>2 DEF Inv, Sound, RightRow, RowPoints
    <3>2. QED
      BY <1>1, <1>2, <2>2, <3>1, TowardsSave DEF RowPoints
  <2>3. QED
    BY <2>1, <2>2 DEF Release
<1>4. Types'
  BY <1>1, <1>2, <1>3 DEF Inv, Types, Alone
<1>5. QED
  BY <1>2, <1>3, <1>4, HandlerStep

LEMMA RereadInv ==
  ASSUME Inv, NEW q \in Requests, Reread(q)
  PROVE  Inv'
<1> DEFINE o == request[q].order
           h == [request[q] EXCEPT !.at = "save", !.row = order[o]]
<1>1. /\ request[q].at = "reread" /\ Quiet /\ UNCHANGED <<credited, operated, faults, crashes>>
      /\ request' = [request EXCEPT ![q] = h]
      /\ Sound(q) /\ request[q] \in Locals
  BY DEF Reread, NothingElse, Quiet, Inv, Types
<1>2. o \in Orders /\ Placed(o)
  BY <1>1 DEF Sound, RightKind, Paused
<1>3. order[o] \in Rows
  BY <1>2, RowRead
<1>4. /\ h \in Locals /\ h.at = "save" /\ h.order = o /\ h.doing = request[q].doing
      /\ h.arg = request[q].arg /\ h.res = request[q].res /\ h.row = order[o]
  BY <1>1, <1>3 DEF Locals, Points
<1> HIDE DEF h
<1>5. Alone(q) /\ request'[q] = h
  BY <1>1, <1>4, Becomes
<1>6. RightKind(q)'
  BY <1>1, <1>4, <1>5 DEF Sound, RightKind, Quiet, Placed, Paused
<1>7. RightRow(q)'
  <2>1. /\ order[o].res # Null => Used(order[o].res)
        /\ (order[o].payment = "succeeded" /\ order[o].res # Null) => ~Active(order[o].res)
        /\ (order[o].status = "completed" /\ order[o].kind = "one_time") => Something(o)
    BY <1>2, RowRead
  <2>2. QED
    BY <1>1, <1>2, <1>4, <1>5, <2>1
       DEF RightRow, Quiet, Used, Active, Something, Charged, Placed
<1>8. RightEnd(q)'
  BY <1>1, <1>4, <1>5 DEF Sound, RightEnd, Quiet, Used
<1>9. Types'
  BY <1>1, <1>5 DEF Inv, Types, Alone, Quiet
<1>10. QED
  BY <1>1, <1>5, <1>6, <1>7, <1>8, <1>9, QuietStep DEF Sound

LEMMA ReserveInv ==
  ASSUME Inv, NEW q \in Requests, Reserve(q)
  PROVE  Inv'
<1> DEFINE o == request[q].order
<1>1. /\ request[q].at = "reserve" /\ Sound(q) /\ request[q] \in Locals
      /\ UNCHANGED <<order, credited, intent, activations, operated, faults, crashes>>
  BY DEF Reserve, Inv, Types
<1>2. o \in Orders /\ Placed(o)
  BY <1>1 DEF Sound, RightKind, Paused
<1>3. ASSUME NEW r \in Reservations, Hold(r, o, TRUE, "complete"),
             request' = [request EXCEPT ![q].at = "confirm", ![q].res = r]
      PROVE  Inv'
  <2> DEFINE h == [request[q] EXCEPT !.at = "confirm", !.res = r]
  <2>1. /\ h \in Locals /\ h.at = "confirm" /\ h.order = o /\ h.doing = request[q].doing
        /\ h.arg = request[q].arg /\ h.res = r /\ h.row = request[q].row
    BY <1>1 DEF Locals, Points
  <2>2. request' = [request EXCEPT ![q] = h]
    BY <1>3
  <2> HIDE DEF h
  <2>3. Alone(q) /\ request'[q] = h
    BY <2>1, <2>2, Becomes
  <2>4. /\ reservation' \in [Reservations -> Holds] /\ Used(r)'
        /\ \A x \in Reservations : Used(x) => Used(x)' /\ (Active(x)' => Active(x))
    <3> HIDE DEF o
    <3>1. QED
      BY <1>2, <1>3, HoldEffect
  <2>5. \A x \in Orders : Something(x)' <=> Something(x)
    BY <1>1 DEF Something, Charged
  <2>6. Grows
    BY <1>1, <2>4, <2>5 DEF Grows, Placed
  <2>7. RightTables'
    <3>1. \A x \in Orders : /\ order[x].res \in Reservations \cup {Null}
                            /\ order[x].res # Null => Used(order[x].res)
      BY RowRead
    <3>2. NamedAreUsed' /\ PaidHoldsNothing'
      BY <1>1, <2>4, <3>1
         DEF Inv, RightTables, NamedAreUsed, PaidHoldsNothing, Used, Active
    <3>3. CompletedForSomething'
      BY <1>1, <2>5 DEF Inv, RightTables, CompletedForSomething, Something
    <3>4. QED
      BY <1>1, <3>2, <3>3 DEF Inv, RightTables
  <2>8. RightKind(q)'
    BY <1>1, <2>1, <2>3 DEF Sound, RightKind, Placed, Paused
  <2>9. RightRow(q)'
    <3>1. request[q].row.res # Null => request[q].row.res \in Reservations
      BY <1>1 DEF Locals, Rows
    <3>2. QED
      BY <1>1, <1>2, <2>1, <2>3, <2>4, <2>5, <3>1 DEF Sound, RightRow, RowPoints
  <2>10. RightEnd(q)'
    BY <2>1, <2>3, <2>4 DEF RightEnd
  <2>11. Types'
    BY <1>1, <2>3, <2>4 DEF Inv, Types, Alone
  <2>12. QED
    BY <2>3, <2>6, <2>7, <2>8, <2>9, <2>10, <2>11, HandlerStep DEF Sound
<1>4. CASE Finish(q) /\ UNCHANGED reservation
  <2>1. Alone(q) /\ Sound(q)' /\ Quiet
    BY <1>1, <1>4, FinishEnds DEF Quiet
  <2>2. Types'
    BY <1>1, <2>1 DEF Inv, Types, Alone, Quiet
  <2>3. QED
    BY <2>1, <2>2, QuietStep
<1>5. QED
  BY <1>3, <1>4 DEF Reserve

LEMMA ConfirmInv ==
  ASSUME Inv, NEW q \in Requests, Confirm(q)
  PROVE  Inv'
<1>1. /\ request[q].at = "confirm" /\ Sound(q) /\ request[q] \in Locals
      /\ Quiet /\ UNCHANGED <<credited, operated, faults, crashes>>
  BY DEF Confirm, NothingElse, Quiet, Inv, Types
<1>2. CASE Raise(q)
  <2>1. Alone(q) /\ Sound(q)'
    BY <1>1, <1>2, QuietGrows, RaiseIsSound DEF Paused
  <2>2. Types'
    BY <1>1, <2>1 DEF Inv, Types, Alone, Quiet
  <2>3. QED
    BY <1>1, <2>1, <2>2, QuietStep
<1>3. CASE Go(q, "capture")
  <2>1. /\ Alone(q) /\ request'[q].at = "capture" /\ request'[q].doing = request[q].doing
        /\ request'[q].order = request[q].order /\ request'[q].arg = request[q].arg
        /\ request'[q].res = request[q].res /\ request'[q].row = request[q].row
    BY <1>3, GoMoves DEF Points
  <2>2. RightKind(q)'
    BY <1>1, <2>1 DEF Sound, RightKind, Quiet, Placed, Paused
  <2>3. RightRow(q)'
    BY <1>1, <2>1 DEF Sound, RightRow, RowPoints, Quiet, Used, Something, Charged
  <2>4. RightEnd(q)'
    BY <1>1, <2>1 DEF Sound, RightEnd, Quiet, Used
  <2>5. Types'
    BY <1>1, <2>1 DEF Inv, Types, Alone, Quiet
  <2>6. QED
    BY <1>1, <2>1, <2>2, <2>3, <2>4, <2>5, QuietStep DEF Sound
<1>4. QED
  BY <1>2, <1>3 DEF Confirm

LEMMA CaptureInv ==
  ASSUME Inv, NEW q \in Requests, Capture(q)
  PROVE  Inv'
<1>0. PICK r \in Reservations \cup {Null} : r = request[q].res
  BY DEF Inv, Types, Locals
<1>1. /\ request[q].at = "capture" /\ SettleAs(r, "CONVERTED")
      /\ Sound(q) /\ request[q] \in Locals
      /\ UNCHANGED <<order, credited, intent, activations, operated, faults, crashes>>
  BY <1>0 DEF Capture, Inv, Types
<1>2. /\ reservation' \in [Reservations -> Holds] /\ Grows /\ RightTables'
      /\ r # Null => ~Active(r)'
  BY <1>1, SettleEffect
<1> DEFINE old == request[q]
           key == IF old.arg = Null THEN old.row.key ELSE old.arg
           row == [old.row EXCEPT !.status = "pending", !.payment = "succeeded",
                                  !.res = r, !.key = key]
           h == [old EXCEPT !.at = "save", !.row = row]
<1>3. old.arg \in Keys \cup {Null} /\ old.doing = "complete"
  BY <1>1 DEF Sound, RightKind, Paused
<1>4. /\ row \in Rows /\ row.status = "pending" /\ row.kind = old.row.kind /\ row.res = r
  BY <1>1, <1>3 DEF Locals, Rows, Statuses, Payments
<1>5. request' = [request EXCEPT ![q] = h]
  BY <1>0 DEF Capture
<1> HIDE DEF row
<1>6. /\ h \in Locals /\ h.at = "save" /\ h.order = old.order /\ h.doing = old.doing
      /\ h.arg = old.arg /\ h.res = r /\ h.row = row
  BY <1>0, <1>1, <1>4 DEF Locals, Points
<1> HIDE DEF h
<1>7. Alone(q) /\ request'[q] = h
  BY <1>5, <1>6, Becomes
<1>8. RightKind(q)'
  BY <1>1, <1>6, <1>7 DEF Sound, RightKind, Placed, Paused
<1>9. r # Null => Used(r)'
  BY <1>0, <1>1, <1>2 DEF Sound, RightEnd, Grows
<1>10. RightRow(q)'
  BY <1>1, <1>2, <1>4, <1>6, <1>7, <1>9 DEF Sound, RightRow, RowPoints
<1>11. RightEnd(q)'
  BY <1>6, <1>7, <1>9 DEF RightEnd
<1>12. Types'
  BY <1>1, <1>2, <1>7 DEF Inv, Types, Alone
<1>13. QED
  BY <1>2, <1>7, <1>8, <1>10, <1>11, <1>12, HandlerStep DEF Sound

LEMMA GiveUpInv ==
  ASSUME Inv, NEW q \in Requests, GiveUp(q)
  PROVE  Inv'
<1>0. PICK r \in Reservations \cup {Null} : r = request[q].res
  BY DEF Inv, Types, Locals
<1>1. /\ SettleAs(r, "RELEASED") /\ Finish(q)
      /\ UNCHANGED <<order, credited, intent, activations, operated, faults, crashes>>
  BY <1>0 DEF GiveUp
<1>2. /\ reservation' \in [Reservations -> Holds] /\ Grows /\ RightTables'
  BY <1>1, SettleEffect
<1>3. Alone(q) /\ Sound(q)'
  BY <1>1, FinishEnds
<1>4. Types'
  BY <1>1, <1>2, <1>3 DEF Inv, Types, Alone
<1>5. QED
  BY <1>2, <1>3, <1>4, HandlerStep

\* A write to one row of the orders table.
LEMMA OrderWritten ==
  ASSUME Inv, NEW o \in Orders, NEW row \in Rows, Placed(o),
         order' = [order EXCEPT ![o] = row],
         UNCHANGED <<reservation, intent, activations>>,
         row.status # "none", row.kind = order[o].kind,
         row.res # Null => Used(row.res),
         (row.payment = "succeeded" /\ row.res # Null) => ~Active(row.res),
         (row.status = "completed" /\ row.kind = "one_time") => Something(o)
  PROVE  Grows /\ RightTables' /\ order' \in [Orders -> Rows]
<1>1. /\ order' \in [Orders -> Rows] /\ order'[o] = row
      /\ \A x \in Orders \ {o} : order'[x] = order[x]
  BY DEF Inv, Types
<1>2. \A x \in Orders : Something(x)' <=> Something(x)
  BY DEF Something, Charged
<1>3. Grows
  BY <1>1, <1>2 DEF Grows, Placed, Used, Active
<1>4. RightTables'
  <2>1. NamedAreUsed' /\ PaidHoldsNothing'
    BY <1>1 DEF Inv, RightTables, NamedAreUsed, PaidHoldsNothing, Used, Active
  <2>2. CompletedForSomething'
    BY <1>1, <1>2 DEF Inv, RightTables, CompletedForSomething, Something
  <2>3. QED
    BY <2>1, <2>2 DEF Inv, RightTables
<1>5. QED
  BY <1>1, <1>3, <1>4

LEMMA StatusWritten ==
  ASSUME Inv, NEW q \in Requests, NEW st \in Statuses \ {"none"}, SetStatus(q, st),
         request[q].at \notin Paused,
         (st = "completed" /\ order[request[q].order].kind = "one_time")
            => Something(request[q].order)
  PROVE  Grows /\ RightTables' /\ order' \in [Orders -> Rows]
<1>0. PICK o \in Orders : o = request[q].order
  BY DEF Inv, Sound, RightKind
<1>1. /\ Placed(o) /\ order[o] \in Rows
      /\ UNCHANGED <<reservation, intent, activations>>
  BY <1>0, RowRead DEF SetStatus, Inv, Sound, RightKind
<1> DEFINE row == [order[o] EXCEPT !.status = st]
<1>2. /\ row \in Rows /\ row.status = st /\ row.kind = order[o].kind
      /\ row.res = order[o].res /\ row.payment = order[o].payment
  BY <1>1 DEF Rows
<1>3. order' = [order EXCEPT ![o] = row]
  BY <1>0 DEF SetStatus
<1> HIDE DEF row
<1>4. QED
  BY <1>0, <1>1, <1>2, <1>3, RowRead, OrderWritten

LEMMA SaveRowInv ==
  ASSUME Inv, NEW q \in Requests, SaveRow(q)
  PROVE  Inv'
<1>0. PICK o \in Orders : o = request[q].order
  BY DEF SaveRow, Inv, Sound, RightKind, Paused
<1>1. /\ request[q].at = "save" /\ Sound(q) /\ Placed(o) /\ request[q].row \in Rows
      /\ order' = [order EXCEPT ![o] = request[q].row]
      /\ UNCHANGED <<reservation, credited, intent, activations, operated, faults, crashes>>
  BY <1>0 DEF SaveRow, Inv, Types, Locals, Sound, RightKind, Paused
<1> DEFINE row == request[q].row
<1>2. /\ row.status # "none"
      /\ row.kind = order[o].kind
      /\ row.res # Null => Used(row.res)
      /\ (row.payment = "succeeded" /\ row.res # Null) => ~Active(row.res)
      /\ (row.status = "completed" /\ row.kind = "one_time") => Something(o)
  BY <1>0, <1>1 DEF Sound, RightRow, RowPoints
<1> HIDE DEF row
<1>3. Grows /\ RightTables' /\ order' \in [Orders -> Rows]
  BY <1>1, <1>2, OrderWritten DEF row
<1>4. Alone(q) /\ Sound(q)'
  BY <1>1, <1>3, GoIsSound, FinishEnds DEF SaveRow, Paused
<1>5. Types'
  BY <1>1, <1>3, <1>4 DEF Inv, Types, Alone
<1>6. QED
  BY <1>3, <1>4, <1>5, HandlerStep

\* The steps that write a status, and where they lead.
LEMMA StatusStep ==
  ASSUME Inv, NEW q \in Requests, NEW st \in Statuses \ {"none"}, SetStatus(q, st),
         request[q].at \notin Paused,
         (st = "completed" /\ order[request[q].order].kind = "one_time")
            => Something(request[q].order),
         Finish(q) \/ Raise(q) \/ Go(q, "activate")
  PROVE  Inv'
<1>1. Grows /\ RightTables' /\ order' \in [Orders -> Rows]
  BY StatusWritten
<1>2. Alone(q) /\ Sound(q)'
  BY <1>1, FinishEnds, RaiseIsSound, GoIsSound
<1>3. Types'
  BY <1>1, <1>2 DEF SetStatus, Inv, Types, Alone
<1>4. QED
  BY <1>1, <1>2, <1>3, HandlerStep

\* A handler of a payment that Stripe took: its order was charged for.
LEMMA SuccessIsCharged ==
  ASSUME Inv, NEW q \in Requests, request[q].at \notin Paused, request[q].doing = "success"
  PROVE  Charged(request[q].order)
  BY DEF Inv, Sound, RightKind, Charged

LEMMA StatusesInv ==
  ASSUME Inv, NEW q \in Requests,
         CancelOrder(q) \/ Begin(q) \/ FinishOrder(q) \/ FailOrder(q) \/ Close(q)
  PROVE  Inv'
<1>1. CASE CancelOrder(q)
  BY <1>1, StatusStep DEF CancelOrder, Statuses, Paused
<1>2. CASE Begin(q)
  BY <1>2, StatusStep DEF Begin, Statuses, Paused
<1>3. CASE FinishOrder(q)
  <2>1. order[request[q].order].kind = "one_time" => Something(request[q].order)
    BY <1>3 DEF FinishOrder, Inv, Sound, RightEnd, Something
  <2>2. QED
    BY <1>3, <2>1, StatusStep DEF FinishOrder, Statuses, Paused
<1>4. CASE FailOrder(q)
  BY <1>4, StatusStep DEF FailOrder, Statuses, Paused
<1>5. CASE Close(q)
  <2>1. request[q].at = "close" /\ request[q].doing = "success"
    BY <1>5 DEF Close, Inv, Sound, RightKind
  <2>2. Something(request[q].order)
    BY <2>1, SuccessIsCharged DEF Something, Paused
  <2>3. QED
    BY <1>5, <2>1, <2>2, StatusStep DEF Close, Statuses, Paused
<1>6. QED
  BY <1>1, <1>2, <1>3, <1>4, <1>5

LEMMA LoadInv ==
  ASSUME Inv, NEW q \in Requests, Load(q)
  PROVE  Inv'
<1>1. /\ request[q].at = "process" /\ Quiet
      /\ UNCHANGED <<credited, operated, faults, crashes>>
      /\ Go(q, "begin") \/ Finish(q) \/ Raise(q)
  BY DEF Load, NothingElse, Quiet
<1>2. Alone(q) /\ Sound(q)'
  BY <1>1, QuietGrows, GoIsSound, FinishEnds, RaiseIsSound DEF Paused
<1>3. Types'
  BY <1>1, <1>2 DEF Inv, Types, Alone, Quiet
<1>4. QED
  BY <1>1, <1>2, <1>3, QuietStep

LEMMA ActivateInv ==
  ASSUME Inv, NEW q \in Requests, Activate(q)
  PROVE  Inv'
<1>0. PICK o \in Orders : o = request[q].order
  BY DEF Activate, Inv, Sound, RightKind, Paused
<1>1. /\ request[q].at = "activate" /\ Sound(q) /\ request[q] \in Locals
      /\ UNCHANGED <<order, reservation, credited, intent, operated, faults, crashes>>
      /\ activations' = [activations EXCEPT ![o] = @ + 1] \/ UNCHANGED activations
  BY <1>0 DEF Activate, Inv, Types
<1>2. /\ activations' \in [Orders -> Nat]
      /\ \A x \in Orders : activations[x] > 0 => activations'[x] > 0
  BY <1>1 DEF Inv, Types
<1>3. \A x \in Orders : Something(x) => Something(x)'
  BY <1>1, <1>2 DEF Something, Charged
<1>4. Grows
  BY <1>1, <1>2, <1>3 DEF Grows, Used, Active, Placed
<1>5. RightTables'
  <2>1. NamedAreUsed' /\ PaidHoldsNothing'
    BY <1>1 DEF Inv, RightTables, NamedAreUsed, PaidHoldsNothing, Used
  <2>2. CompletedForSomething'
    BY <1>1, <1>3 DEF Inv, RightTables, CompletedForSomething, Something
  <2>3. QED
    BY <1>1, <2>1, <2>2 DEF Inv, RightTables
<1>6. Alone(q) /\ Sound(q)'
  <2>1. CASE Go(q, "fail")
    BY <1>1, <1>4, <2>1, GoIsSound DEF Paused
  <2>2. CASE Go(q, "finish") /\ (order[o].kind = "one_time" => activations'[o] > 0)
    <3>1. /\ Alone(q) /\ request'[q].at = "finish" /\ request'[q].doing = request[q].doing
          /\ request'[q].order = o /\ request'[q].arg = request[q].arg
          /\ request'[q].res = request[q].res
      BY <1>0, <2>2, GoMoves DEF Points
    <3>2. RightKind(q)'
      BY <1>0, <1>1, <3>1 DEF Sound, RightKind, Placed, Paused
    <3>3. RightRow(q)'
      BY <3>1 DEF RightRow, RowPoints
    <3>4. RightEnd(q)'
      BY <1>1, <2>2, <3>1 DEF Sound, RightEnd, Used
    <3>5. QED
      BY <3>1, <3>2, <3>3, <3>4 DEF Sound
  <2>3. QED
    <3>1. activations' = [activations EXCEPT ![o] = @ + 1] => activations'[o] > 0
      BY DEF Inv, Types
    <3>2. QED
      BY <1>0, <2>1, <2>2, <3>1 DEF Activate, InsistsOnPackage
<1>7. Types'
  BY <1>1, <1>2, <1>6 DEF Inv, Types, Alone
<1>8. QED
  BY <1>4, <1>5, <1>6, <1>7, HandlerStep

LEMMA FaultInv ==
  ASSUME Inv, NEW q \in Requests, Fault(q)
  PROVE  Inv'
<1>1. /\ request[q].at \notin Paused /\ Quiet /\ UNCHANGED <<credited, operated, crashes>>
      /\ Go(q, "fail") \/ Raise(q)
  BY DEF Fault, Quiet, Paused
<1>2. Alone(q) /\ Sound(q)'
  BY <1>1, QuietGrows, GoIsSound, RaiseIsSound
<1>3. faults' \in 0..MaxFaults
  BY Assumed DEF Fault, Inv, Types
<1>4. Types'
  BY <1>1, <1>2, <1>3 DEF Inv, Types, Alone, Quiet
<1>5. QED
  BY <1>1, <1>2, <1>4, QuietStep

LEMMA CrashInv ==
  ASSUME Inv, Crash
  PROVE  Inv'
<1>1. /\ Quiet /\ UNCHANGED <<credited, operated, faults>>
      /\ request' \in [Requests -> Locals]
      /\ \A q \in Requests : request'[q] = Ended \/ request'[q] = request[q]
  BY EndedIsLocal DEF Crash, Quiet, Inv, Types
<1>2. Grows /\ RightTables'
  BY <1>1, QuietGrows
<1>3. crashes' \in 0..MaxCrashes
  BY Assumed DEF Crash, Inv, Types
<1>4. Types'
  BY <1>1, <1>3 DEF Inv, Types, Quiet
<1>5. ASSUME NEW q \in Requests PROVE Sound(q)'
  <2>1. CASE request'[q] = Ended
    BY <2>1, EndedIsLocal DEF Sound, RightKind, RightRow, RightEnd, RowPoints, Paused
  <2>2. CASE request'[q] = request[q]
    BY <1>2, <2>2, SoundStays
  <2>3. QED
    BY <1>1, <2>1, <2>2
<1>6. QED
  BY <1>2, <1>4, <1>5 DEF Inv

LEMMA NextInv ==
  ASSUME Inv, [Next]_vars
  PROVE  Inv'
<1>1. CASE UNCHANGED vars
  <2>1. Quiet /\ Types' /\ UNCHANGED request
    BY <1>1 DEF vars, Quiet, Inv, Types
  <2>2. QED
    BY <2>1, QuietGrows, OutsideStep
<1>2. ASSUME NEW o \in Orders, NEW kind \in Kinds, NEW cash \in BOOLEAN, Create(o, kind, cash)
      PROVE  Inv'
  BY <1>2, CreateInv
<1>3. ASSUME NEW p \in Intents, (\E o \in Orders : CreatePaymentIntent(p, o)) \/ Decline(p) \/ Charge(p)
      PROVE  Inv'
  <2>1. CASE Decline(p) \/ Charge(p)
    <3>1. PICK o \in Orders : intent[p].order = o
      BY <2>1 DEF Decline, Charge, Inv, Types
    <3>2. QED
      BY <2>1, <3>1, StripeInv
  <2>2. QED
    BY <1>3, <2>1, StripeInv
<1>4. ASSUME NEW q \in Requests, Start(q) PROVE Inv'
  BY <1>4, HandlePaymentSuccessInv, HandlePaymentFailedInv, CancelInv, ApplyCreditsInv,
     SetRewardInv, RemovePromoCodeInv, RowlessInv, CompleteWithCreditsInv DEF Start
<1>5. ASSUME NEW q \in Requests, Continue(q) PROVE Inv'
  BY <1>5, ConvertInv, CashbackInv, ReleaseInv, RereadInv, ReserveInv, ConfirmInv, CaptureInv,
     GiveUpInv, SaveRowInv, StatusesInv, LoadInv, ActivateInv DEF Continue
<1>6. ASSUME NEW q \in Requests, Fault(q) PROVE Inv'
  BY <1>6, FaultInv
<1>7. CASE Crash
  BY <1>7, CrashInv
<1>8. QED
  BY <1>1, <1>2, <1>3, <1>4, <1>5, <1>6, <1>7 DEF Next

LEMMA InvAlways ==
  Spec => []Inv
<1>1. Init => Inv
  BY InitInv
<1>2. Inv /\ [Next]_vars => Inv'
  BY NextInv
<1>3. QED
  BY <1>1, <1>2, PTL DEF Spec

-----------------------------------------------------------------------------
(* Who holds the credits that complete-with-credits reserved.              *)

Holder(q, r) ==
    /\ request[q].doing = "complete" /\ request[q].res = r
    /\ \/ request[q].at \in {"confirm", "capture"}
       \/ request[q].at = "giveUp" /\ faults = 1

Lent(r) == reservation[r].by = "complete" /\ Active(r)

Kept ==
    crashes = 0 /\ faults <= 1 =>
        \A r \in Reservations : Lent(r) => \E q \in Requests : Holder(q, r)

LEMMA KeptIsHeld ==
  ASSUME Kept
  PROVE  CompleteLeavesNoHold
<1> SUFFICES ASSUME crashes = 0, faults <= 1, NEW r \in Reservations, Lent(r)
             PROVE  \E q \in InFlight : request[q].doing = "complete" /\ request[q].res = r
  BY DEF CompleteLeavesNoHold, Lent, Active
<1>1. PICK q \in Requests : Holder(q, r)
  BY DEF Kept
<1>2. QED
  BY <1>1 DEF Holder, InFlight

\* All the handlers but q stay where they are.
Others(q) == \A p \in Requests \ {q} : request'[p] = request[p]

\* No credits are reserved.
NoneLent == \A r \in Reservations : Lent(r)' => Lent(r)

LEMMA MovesOne ==
  ASSUME Inv, NEW q \in Requests
  PROVE  /\ \A at : Go(q, at) => Others(q)
         /\ Finish(q) => Others(q)
         /\ Raise(q) => Others(q)
         /\ \A at, doing, o, arg, r, row : Enter(q, at, doing, o, arg, r, row) => Others(q)
<1>1. \A at : Go(q, at) => Others(q)
  BY DEF Go, Others, Inv, Types
<1>2. Finish(q) => Others(q)
  BY DEF Finish, Others, Inv, Types
<1>3. Raise(q) => Others(q)
  BY <1>1, <1>2 DEF Raise
<1>4. \A at, doing, o, arg, r, row : Enter(q, at, doing, o, arg, r, row) => Others(q)
  BY DEF Enter, Others, Inv, Types
<1>5. QED
  BY <1>1, <1>2, <1>3, <1>4

LEMMA SettleLends ==
  ASSUME Inv, NEW r \in Reservations \cup {Null}, NEW status \in {"RELEASED", "CONVERTED"},
         SettleAs(r, status)
  PROVE  NoneLent /\ (r # Null => ~Lent(r)')
<1>1. CASE r # Null /\ reservation[r].status = "ACTIVE"
  <2> DEFINE new == [reservation[r] EXCEPT !.status = status]
  <2>1. /\ r \in Reservations /\ reservation' = [reservation EXCEPT ![r] = new]
        /\ new.status = status
    BY <1>1 DEF SettleAs, Inv, Types, Holds
  <2> HIDE DEF new
  <2>2. QED
    BY <2>1 DEF Inv, Types, NoneLent, Lent, Active
<1>2. CASE ~(r # Null /\ reservation[r].status = "ACTIVE")
  BY <1>2 DEF SettleAs, NoneLent, Lent, Active
<1>3. QED
  BY <1>1, <1>2

\* A step of a handler that does not hold credits of that kind, or keeps its hold.
LEMMA KeptByOthers ==
  ASSUME Inv, Kept, NEW q \in Requests, Others(q), NoneLent, UNCHANGED crashes,
         faults' = faults \/ faults' = faults + 1,
         \A r \in Reservations :
            crashes = 0 /\ faults <= 1 /\ faults' <= 1 /\ Lent(r)' /\ Holder(q, r) => Holder(q, r)'
  PROVE  Kept'
<1>1. faults \in Nat
  BY Assumed DEF Inv, Types
<1> SUFFICES ASSUME crashes' = 0, faults' <= 1, NEW r \in Reservations, Lent(r)'
             PROVE  \E p \in Requests : Holder(p, r)'
  BY DEF Kept
<1>2. Lent(r) /\ faults <= 1 /\ crashes = 0
  BY <1>1 DEF NoneLent
<1>3. PICK p \in Requests : Holder(p, r)
  BY <1>2 DEF Kept
<1>4. CASE p = q
  BY <1>2, <1>3, <1>4
<1>5. CASE p # q
  <2>1. request'[p] = request[p]
    BY <1>5 DEF Others
  <2>2. faults' = 1 \/ request[p].at \in {"confirm", "capture"}
    BY <1>1, <1>3 DEF Holder
  <2>3. QED
    BY <1>3, <2>1, <2>2 DEF Holder
<1>6. QED
  BY <1>4, <1>5

LEMMA CreateKeeps ==
  ASSUME Inv, Kept, NEW o \in Orders, NEW kind \in Kinds, NEW cash \in BOOLEAN,
         Create(o, kind, cash)
  PROVE  Kept'
<1>1. UNCHANGED <<request, crashes>> /\ (faults' = faults \/ faults' = faults + 1)
  BY DEF Create
<1>2. NoneLent
  <2>1. CASE UNCHANGED reservation
    BY <2>1 DEF NoneLent, Lent, Active
  <2>2. ASSUME NEW r \in Reservations, NEW covers \in BOOLEAN, Hold(r, o, covers, "create")
        PROVE  NoneLent
    BY <2>2 DEF Hold, Inv, Types, NoneLent, Lent, Active
  <2>3. QED
    BY <2>1, <2>2 DEF Create
<1>3. faults \in Nat
  BY Assumed DEF Inv, Types
<1> SUFFICES ASSUME crashes' = 0, faults' <= 1, NEW r \in Reservations, Lent(r)'
             PROVE  \E p \in Requests : Holder(p, r)'
  BY DEF Kept
<1>4. PICK p \in Requests : Holder(p, r)
  BY <1>1, <1>2, <1>3 DEF Kept, NoneLent
<1>5. QED
  BY <1>1, <1>3, <1>4 DEF Holder

LEMMA ReserveKeeps ==
  ASSUME Inv, Kept, NEW q \in Requests, Reserve(q)
  PROVE  Kept'
<1>1. /\ request[q].at = "reserve" /\ UNCHANGED <<faults, crashes>>
      /\ request[q].doing = "complete"
  BY DEF Reserve, Inv, Sound, RightKind
<1>2. \A s \in Reservations : ~Holder(q, s)
  BY <1>1 DEF Holder
<1>3. CASE Finish(q) /\ UNCHANGED reservation
  <2>1. Others(q) /\ NoneLent
    BY <1>3, MovesOne DEF NoneLent, Lent, Active
  <2>2. QED
    BY <1>1, <1>2, <2>1, KeptByOthers
<1>4. ASSUME NEW r \in Reservations, Hold(r, request[q].order, TRUE, "complete"),
             request' = [request EXCEPT ![q].at = "confirm", ![q].res = r]
      PROVE  Kept'
  <2>1. /\ Others(q)
        /\ request'[q].at = "confirm" /\ request'[q].res = r
        /\ request'[q].doing = "complete"
    BY <1>1, <1>4 DEF Inv, Types, Locals, Others
  <2>2. \A x \in Reservations \ {r} : reservation'[x] = reservation[x]
    BY <1>4 DEF Hold, Inv, Types
  <2> SUFFICES ASSUME crashes' = 0, faults' <= 1, NEW x \in Reservations, Lent(x)'
               PROVE  \E p \in Requests : Holder(p, x)'
    BY DEF Kept
  <2>3. CASE x = r
    BY <2>1, <2>3 DEF Holder
  <2>4. CASE x # r
    <3>1. Lent(x)
      BY <2>2, <2>4 DEF Lent, Active
    <3>2. PICK p \in Requests : Holder(p, x)
      BY <1>1, <3>1 DEF Kept
    <3>3. QED
      BY <1>1, <1>2, <2>1, <3>2 DEF Others, Holder
  <2>5. QED
    BY <2>3, <2>4
<1>5. QED
  BY <1>3, <1>4 DEF Reserve

LEMMA ConfirmKeeps ==
  ASSUME Inv, Kept, NEW q \in Requests, Confirm(q)
  PROVE  Kept'
<1>1. /\ request[q].at = "confirm" /\ UNCHANGED <<reservation, faults, crashes>>
      /\ Others(q) /\ NoneLent
  BY MovesOne DEF Confirm, NothingElse, NoneLent, Lent, Active
<1>2. ASSUME NEW r \in Reservations, Lent(r), Holder(q, r)
      PROVE  Holder(q, r)'
  <2>1. Go(q, "capture")
    BY <1>2 DEF Confirm, Holder, Lent, Active
  <2>2. QED
    BY <1>2, <2>1, GoMoves DEF Points, Holder
<1>3. QED
  BY <1>1, <1>2, KeptByOthers DEF NoneLent

\* Capture and GiveUp settle the reservation that the handler holds.
LEMMA SettlingKeeps ==
  ASSUME Inv, Kept, NEW q \in Requests, Capture(q) \/ GiveUp(q)
  PROVE  Kept'
<1>1. PICK r \in Reservations \cup {Null} : r = request[q].res
  BY DEF Inv, Types, Locals
<1>2. Others(q) /\ UNCHANGED <<faults, crashes>>
  BY MovesOne DEF Capture, GiveUp, Others, Inv, Types
<1>3. \E status \in {"RELEASED", "CONVERTED"} : SettleAs(r, status)
  BY <1>1 DEF Capture, GiveUp
<1>4. NoneLent /\ (r # Null => ~Lent(r)')
  BY <1>3, SettleLends
<1>5. \A x \in Reservations : Lent(x)' => ~Holder(q, x)
  BY <1>1, <1>4, Assumed DEF Holder
<1>6. QED
  BY <1>2, <1>4, <1>5, KeptByOthers

\* The first failure of a holder takes it to giveUp.
LEMMA FaultKeeps ==
  ASSUME Inv, Kept, NEW q \in Requests, Fault(q)
  PROVE  Kept'
<1>1. /\ faults' = faults + 1 /\ UNCHANGED <<reservation, crashes>>
      /\ Others(q) /\ NoneLent /\ faults \in Nat
  BY MovesOne, Assumed DEF Fault, NoneLent, Lent, Active, Inv, Types
<1>2. ASSUME NEW r \in Reservations, faults' <= 1, Holder(q, r)
      PROVE  Holder(q, r)'
  <2>1. faults = 0 /\ request[q].at \in {"confirm", "capture"}
    BY <1>1, <1>2 DEF Holder
  <2>2. Go(q, "giveUp")
    BY <1>2, <2>1 DEF Fault, Raise, Holder, Processing
  <2>3. QED
    BY <1>1, <1>2, <2>1, <2>2, GoMoves DEF Points, Holder
<1>3. QED
  BY <1>1, <1>2, KeptByOthers

\* The handlers that have no credits of that kind.
LEMMA StartKeeps ==
  ASSUME Inv, Kept, NEW q \in Requests, Start(q)
  PROVE  Kept'
<1>1. /\ request[q].at = "new" /\ UNCHANGED <<reservation, faults, crashes>>
      /\ Others(q)
  <2>1. ASSUME NEW p \in Intents, HandlePaymentSuccess(q, p) \/ HandlePaymentFailed(q, p)
        PROVE  /\ request[q].at = "new" /\ UNCHANGED <<reservation, faults, crashes>>
               /\ Others(q)
    BY <2>1, MovesOne DEF HandlePaymentSuccess, HandlePaymentFailed, CanStart, NothingElse
  <2>2. ASSUME NEW o \in Orders,
               \/ Cancel(q, o) \/ ApplyCredits(q, o) \/ ApplyPromoCode(q, o)
               \/ ProcessOrder(q, o) \/ ProcessTopup(q, o)
               \/ \E key \in Keys \cup {Null} : CompleteWithCredits(q, o, key)
        PROVE  /\ request[q].at = "new" /\ UNCHANGED <<reservation, faults, crashes>>
               /\ Others(q)
    BY <2>2, MovesOne
       DEF Cancel, ApplyCredits, ApplyPromoCode, ProcessOrder, ProcessTopup,
           CompleteWithCredits, CanStart, NothingElse
  <2>3. ASSUME NEW o \in Orders, NEW cash, SetReward(q, o, cash)
        PROVE  /\ request[q].at = "new" /\ UNCHANGED <<reservation, faults, crashes>>
               /\ Others(q)
    BY <2>3, MovesOne DEF SetReward, CanStart, NothingElse
  <2>4. QED
    BY <2>1, <2>2, <2>3 DEF Start, RemovePromoCode
<1>2. NoneLent
  BY <1>1 DEF NoneLent, Lent, Active
<1>3. QED
  BY <1>1, <1>2, KeptByOthers DEF Holder

LEMMA ContinueKeeps ==
  ASSUME Inv, Kept, NEW q \in Requests, Continue(q)
  PROVE  Kept'
<1>1. CASE \/ Cashback(q) \/ Reread(q) \/ SaveRow(q) \/ CancelOrder(q) \/ Load(q) \/ Begin(q)
           \/ Activate(q) \/ FinishOrder(q) \/ FailOrder(q) \/ Close(q)
  <2>1. /\ request[q].at \notin {"confirm", "capture", "giveUp"}
        /\ UNCHANGED <<reservation, faults, crashes>> /\ Others(q)
    <3>1. CASE Cashback(q) \/ SaveRow(q) \/ Load(q) \/ Close(q) \/ CancelOrder(q)
      BY <3>1, MovesOne DEF Cashback, SaveRow, Load, Close, CancelOrder, SetStatus, NothingElse
    <3>2. CASE Begin(q) \/ Activate(q) \/ FinishOrder(q) \/ FailOrder(q)
      BY <3>2, MovesOne DEF Begin, Activate, FinishOrder, FailOrder, SetStatus
    <3>3. CASE Reread(q)
      BY <3>3 DEF Reread, NothingElse, Others, Inv, Types
    <3>4. QED
      BY <1>1, <3>1, <3>2, <3>3
  <2>2. NoneLent
    BY <2>1 DEF NoneLent, Lent, Active
  <2>3. QED
    BY <2>1, <2>2, KeptByOthers DEF Holder
<1>2. CASE Convert(q) \/ Release(q)
  <2>1. /\ request[q].at \notin {"confirm", "capture", "giveUp"}
        /\ UNCHANGED <<faults, crashes>> /\ Others(q)
    BY <1>2, MovesOne DEF Convert, Release
  <2>2. PICK r \in Reservations \cup {Null} : r = request[q].res
    BY DEF Inv, Types, Locals
  <2>3. \E status \in {"RELEASED", "CONVERTED"} : SettleAs(r, status)
    BY <1>2, <2>2 DEF Convert, Release
  <2>4. NoneLent
    BY <2>3, SettleLends
  <2>5. QED
    BY <2>1, <2>4, KeptByOthers DEF Holder
<1>3. QED
  BY <1>1, <1>2, ReserveKeeps, ConfirmKeeps, SettlingKeeps DEF Continue

\* A step in which no handler moves and no credits are reserved.
LEMMA IdleKeeps ==
  ASSUME Inv, Kept, UNCHANGED <<request, reservation, faults, crashes>>
  PROVE  Kept'
  BY DEF Kept, Lent, Active, Holder

LEMMA NextKeeps ==
  ASSUME Inv, Kept, [Next]_vars
  PROVE  Kept'
<1>1. CASE UNCHANGED vars
  BY <1>1, IdleKeeps DEF vars
<1>2. ASSUME NEW o \in Orders, NEW kind \in Kinds, NEW cash \in BOOLEAN, Create(o, kind, cash)
      PROVE  Kept'
  BY <1>2, CreateKeeps
<1>3. ASSUME NEW p \in Intents, (\E o \in Orders : CreatePaymentIntent(p, o)) \/ Decline(p) \/ Charge(p)
      PROVE  Kept'
  BY <1>3, IdleKeeps DEF CreatePaymentIntent, Decline, Charge
<1>4. ASSUME NEW q \in Requests, Start(q) \/ Continue(q) \/ Fault(q)
      PROVE  Kept'
  BY <1>4, StartKeeps, ContinueKeeps, FaultKeeps
<1>5. CASE Crash
  BY <1>5, Assumed DEF Crash, Kept, Inv, Types
<1>6. QED
  BY <1>1, <1>2, <1>3, <1>4, <1>5 DEF Next

LEMMA KeptAlways ==
  Spec => []Kept
<1>1. Init => Kept
  BY DEF Init, Kept, Lent, Active, NoReservation
<1>2. Inv /\ Kept /\ [Next]_vars => Kept'
  BY NextKeeps
<1>3. QED
  BY <1>1, <1>2, InvAlways, PTL DEF Spec

-----------------------------------------------------------------------------
(* The theorems.                                                           *)

\* The tables and the handlers' local variables stay of their types, a handler at
\* work has an order, and failures and restarts stay within their bounds.
THEOREM CheckoutTyped == Spec => []TypeOK
<1>1. Inv => TypeOK
  BY InvIsTyped
<1>2. QED
  BY <1>1, InvAlways, PTL

\* Webhooks, confirmations, cancellations, price changes and complete-with-credits
\* may overlap and write back rows they read long before, statements may fail and the
\* process may restart: an order recorded as paid never names a reservation that
\* still holds the customer's credits.
THEOREM PaidOrdersHoldNothing == Spec => []PaidHoldsNothing
<1>1. Inv => PaidHoldsNothing
  BY DEF Inv, RightTables
<1>2. QED
  BY <1>1, InvAlways, PTL

\* However they overlap and fail, no handler completes a one-time order (processOrder,
\* or handlePaymentSuccess in its catch) for which the OCS activated nothing and
\* Stripe charged nothing.
THEOREM NothingForNothing == Spec => []CompletedForSomething
<1>1. Inv => CompletedForSomething
  BY DEF Inv, RightTables
<1>2. QED
  BY <1>1, InvAlways, PTL

\* The credits that completeWithCredits reserved for itself do not outlive it, unless
\* the process restarted or two statements failed: whatever else touches the
\* reservation meanwhile, it is captured, or the catch hands it back.
THEOREM CompleteSettlesItsCredits == Spec => []CompleteLeavesNoHold
<1>1. Kept => CompleteLeavesNoHold
  BY KeptIsHeld
<1>2. QED
  BY <1>1, KeptAlways, PTL
=============================================================================
