------------------------------- MODULE Pricing -------------------------------
(***************************************************************************)
(* What an order costs: the price of the cart, the pricing columns of the  *)
(* order as creating it, promo codes, rewards and credits leave them, the  *)
(* administration of a promo code, and what the two ways of paying take.   *)
(*                                                                         *)
(* One customer, one order, one code.  Amounts are integers, in cents, and *)
(* percentages in hundredths of a percent.  A handler reads the order,     *)
(* prices it from what the code and the wallet are then, and saves the row *)
(* it read with the columns it changed: every other column goes back to    *)
(* what it was.                                                            *)
(***************************************************************************)
EXTENDS Integers, FiniteSets

CONSTANTS
    Subtotals,     \* prices of packages, in cents
    Percents,      \* what a code may take off
    Amounts,       \* credits a customer asks to use
    Wallet,        \* credits the customer has, more than 7 of them ever earned
    Starts, Ends,  \* validity windows given to the code
    MaxTime,       \* bound: the clock
    Requests,      \* handler runs, numbered as they start
    MaxInFlight    \* bound: handlers that overlap

ASSUME AmountsAssumption == Subtotals \subseteq Nat /\ Amounts \subseteq Nat /\ Wallet \in Nat
ASSUME PercentsAssumption == \A p \in Percents : p \in Nat /\ 0 < p /\ p <= 10000
ASSUME TimesAssumption == Starts \cup Ends \subseteq Nat /\ {MaxTime, MaxInFlight} \subseteq Nat
ASSUME RequestsAssumption == Requests \subseteq Nat

VARIABLES
    code,       \* the promo_codes row
    now,
    order,      \* the pricing columns of the order
    hold,       \* the reservation made for the order
    paid,       \* what the customer paid, and for what row
    request,    \* the handlers
    offered,    \* history: percentages the code had while it was valid
    contended   \* history: two updates of the code overlapped

vars == <<code, now, order, hold, paid, request, offered, contended>>

Rewards == {"NONE", "DISCOUNT_3", "CASHBACK_10"}
Doing == {"create", "reward", "credits", "promo", "newCode", "update"}
Points == {"new", "done", "price", "save", "reserve", "note", "release",
           "reread", "write"}
NoPercent == 0

NoCode == [exists |-> FALSE, active |-> TRUE, percent |-> NoPercent, start |-> 0, end |-> 0]

\* code and id say that promo_code_code and promo_code_id name the code; percent
\* is the percentage the promo discount was computed with.  The last four are no
\* columns: whether a quote the columns come from used another percentage than the
\* promo discount, whether a promo code was applied or removed since the last quote
\* for the total, whether the last quote was for a reward while the order used
\* credits, and whether the code was updated while it was being applied.
NoOrder == [placed |-> FALSE, subtotal |-> 0, code |-> FALSE, id |-> FALSE,
            percent |-> NoPercent, promo |-> 0, kind |-> "NONE", reward |-> 0,
            cashback |-> 0, total |-> 0, due |-> 0, applied |-> 0, res |-> FALSE,
            mixed |-> FALSE, stale |-> FALSE, requoted |-> FALSE, slipped |-> FALSE]

NoHold == [amount |-> 0, status |-> "none"]
NotPaid == [by |-> "nobody", charged |-> 0, captured |-> 0, row |-> NoOrder]

\* A handler: its next call, what it is, its copy of the order or of the code, the
\* arguments of its call, and whether another update was saved meanwhile.
NoArgs == [kind |-> "NONE", want |-> 0, code |-> FALSE, field |-> "active", value |-> 0]
Local(at, doing, row, args) ==
    [at |-> at, doing |-> doing, row |-> row, copy |-> NoCode, args |-> args,
     overtaken |-> FALSE]
Unused == Local("new", "create", NoOrder, NoArgs)
Ended == [Unused EXCEPT !.at = "done"]

Init ==
    /\ code \in {NoCode} \cup {[exists |-> TRUE, active |-> TRUE, percent |-> p, start |-> 0,
                               end |-> e] : p \in Percents, e \in Ends \ {0}}
    /\ now = 0
    /\ order = NoOrder
    /\ hold = NoHold
    /\ paid = NotPaid
    /\ request = [q \in Requests |-> Unused]
    /\ offered = IF code.exists THEN {code.percent} ELSE {}
    /\ contended = FALSE

InFlight == {q \in Requests : request[q].at \notin {"new", "done"}}

Start(q, local) ==
    /\ request[q].at = "new"
    /\ \A p \in Requests : p < q => request[p].at # "new"
    /\ Cardinality(InFlight) < MaxInFlight
    /\ request' = [request EXCEPT ![q] = local]

Go(q, at) == request' = [request EXCEPT ![q].at = at]
Finish(q) == request' = [request EXCEPT ![q] = Ended]
-----------------------------------------------------------------------------
(* The arithmetic of cart.service and of completeWithCredits.              *)

Smaller(a, b) == IF a < b THEN a ELSE b
AtLeast0(n) == IF n > 0 THEN n ELSE 0

\* Math.round of n / d, in cents.
Round(n, d) == (2 * n + d) \div (2 * d)

\* Mutant of Valid: the window is not looked at.
ValidWhenever == code.exists /\ code.active

Valid == code.exists /\ code.active /\ code.start <= now /\ now <= code.end

Balance == Wallet - (IF hold.status = "CONVERTED" THEN hold.amount ELSE 0)
                  - (IF paid.by = "credits" /\ ~paid.row.res THEN paid.captured ELSE 0)
Available == Balance - (IF hold.status = "ACTIVE" THEN hold.amount ELSE 0)

\* Mutant of Due: the reward is not taken off.
DueBeforeReward(after, reward, applied) == AtLeast0(after - applied)

Due(after, reward, applied) == AtLeast0(after - reward - applied)

\* calculatePricePreview.  A code that is not valid now takes nothing off.
Quote(subtotal, named, kind, want) ==
    LET percent == IF named /\ Valid THEN code.percent ELSE NoPercent
        promo == Round(subtotal * percent, 10000)
        after == subtotal - promo
        reward == IF kind = "DISCOUNT_3" THEN Round(after * 300, 10000) ELSE 0
        applied == Smaller(want, Smaller(Available, after - reward))
    IN  [percent |-> percent, promo |-> promo, reward |-> reward,
         cashback |-> IF kind = "CASHBACK_10" THEN Round(after * 1000, 10000) ELSE 0,
         applied |-> applied, due |-> Due(after, reward, applied),
         total |-> subtotal - (promo + reward)]

\* The grandTotal of completeWithCredits.
\* Mutant: the reward is left out.
GrandTotalBeforeReward(row) == AtLeast0(row.subtotal - row.promo)

GrandTotal(row) == AtLeast0(row.subtotal - row.promo - row.reward)
-----------------------------------------------------------------------------
(* The promo code and its administration.                                  *)

\* create looks the code up and inserts it; the index on the code is unique.
CreateCode(q, percent, start, end) ==
    /\ ~code.exists
    /\ start < end
    /\ Start(q, [Local("write", "newCode", NoOrder, NoArgs) EXCEPT
                    !.copy = [exists |-> TRUE, active |-> TRUE, percent |-> percent,
                              start |-> start, end |-> end]])
    /\ UNCHANGED <<code, now, order, hold, paid, offered, contended>>

\* update reads the row, checks the window against the new or the old dates, ...
Fields == {<<"active", v>> : v \in {0, 1}} \cup {<<"percent", v>> : v \in Percents}
            \cup {<<"start", v>> : v \in Starts} \cup {<<"end", v>> : v \in Ends}

\* Mutant of WindowOk: only dates that are given together are compared.
WindowAlwaysOk(copy, field, value) == TRUE

WindowOk(copy, field, value) ==
    /\ field = "start" => value < copy.end
    /\ field = "end" => copy.start < value

UpdateCode(q, field, value) ==
    /\ code.exists
    /\ WindowOk(code, field, value)
    /\ Start(q, [Local("write", "update", NoOrder,
                       [NoArgs EXCEPT !.field = field, !.value = value]) EXCEPT !.copy = code])
    /\ UNCHANGED <<code, now, order, hold, paid, offered, contended>>

\* Mutant of Updated: a field that is not given takes its default.
UpdatedWithDefaults(copy, field, value) ==
    [copy EXCEPT !.active = IF field = "active" THEN value = 1 ELSE TRUE,
                 !.percent = IF field = "percent" THEN value ELSE @,
                 !.start = IF field = "start" THEN value ELSE code.start,
                 !.end = IF field = "end" THEN value ELSE code.end]

\* ... and saves it: percentage and status go back to what was read, the dates that
\* were not given are left out of the statement.
Updated(copy, field, value) ==
    [copy EXCEPT !.active = IF field = "active" THEN value = 1 ELSE @,
                 !.percent = IF field = "percent" THEN value ELSE @,
                 !.start = IF field = "start" THEN value ELSE code.start,
                 !.end = IF field = "end" THEN value ELSE code.end]

\* The percentages the code is good for at some moment.
Offering(c, time) ==
    IF c.exists /\ c.active /\ time \in c.start..c.end THEN {c.percent} ELSE {}

WriteCode(q) ==
    LET local == request[q]
        insert == local.doing = "newCode"
    IN  /\ local.at = "write"
        /\ code' = CASE insert /\ code.exists  -> code
                     [] insert /\ ~code.exists -> local.copy
                     [] OTHER -> Updated(local.copy, local.args.field, local.args.value)
        /\ request' = [p \in Requests |->
              CASE p = q -> Ended
                [] p # q /\ request[p].at \in {"write", "reread"} ->
                      [request[p] EXCEPT !.overtaken = TRUE]
                [] OTHER -> request[p]]
        /\ contended' = (contended \/ local.overtaken)
        /\ offered' = offered \cup Offering(code', now)
        /\ UNCHANGED <<now, order, hold, paid>>

Tick ==
    /\ now < MaxTime
    /\ now' = now + 1
    /\ offered' = offered \cup Offering(code, now')
    /\ UNCHANGED <<code, order, hold, paid, request, contended>>
-----------------------------------------------------------------------------
(* The order.                                                              *)

Rest == <<code, now, paid, offered, contended>>

\* The customer has the number of the order when creating it has answered.
Open ==
    /\ order.placed /\ paid.by = "nobody"
    /\ \A q \in InFlight : request[q].doing # "create"

CreateOrder(q, subtotal, named, kind, want) ==
    /\ ~order.placed
    /\ \A p \in InFlight : request[p].doing # "create"
    /\ Start(q, Local("price", "create", [NoOrder EXCEPT !.subtotal = subtotal],
                      [NoArgs EXCEPT !.kind = kind, !.want = want, !.code = named]))
    /\ UNCHANGED <<order, hold, Rest>>

SetReward(q, kind) ==
    /\ Open
    /\ Start(q, Local("price", "reward", order,
                      [NoArgs EXCEPT !.kind = kind, !.want = order.applied,
                                     !.code = order.code]))
    /\ UNCHANGED <<order, hold, Rest>>

ApplyCredits(q, want) ==
    /\ Open
    /\ Start(q, Local(IF order.res THEN "release" ELSE "price", "credits", order,
                      [NoArgs EXCEPT !.kind = order.kind, !.want = want,
                                     !.code = order.code]))
    /\ UNCHANGED <<order, hold, Rest>>

\* applyPromoCode validates the code, then reads order and code again.
ApplyPromoCode(q) ==
    /\ Open /\ Valid
    /\ Start(q, Local("reread", "promo", NoOrder, NoArgs))
    /\ UNCHANGED <<order, hold, Rest>>

RemovePromoCode(q) ==
    /\ Open
    /\ Start(q, Local("save", "promo",
                      [order EXCEPT !.code = FALSE, !.id = FALSE, !.percent = NoPercent,
                                    !.promo = 0, !.total = order.subtotal, !.stale = TRUE],
                      NoArgs))
    /\ UNCHANGED <<order, hold, Rest>>

Release(q) ==
    /\ request[q].at = "release"
    /\ hold' = IF hold.status = "ACTIVE" THEN [hold EXCEPT !.status = "RELEASED"] ELSE hold
    /\ Go(q, "price")
    /\ UNCHANGED <<order, Rest>>

\* Which columns a quote is written to depends on who asked for it.
Priced(doing, row, kind, quote) ==
    CASE doing = "create" ->
            [row EXCEPT !.placed = TRUE, !.code = quote.percent # NoPercent,
                        !.percent = quote.percent, !.promo = quote.promo,
                        !.kind = kind, !.reward = quote.reward,
                        !.cashback = quote.cashback, !.total = quote.total,
                        !.due = quote.due, !.applied = quote.applied]
      [] doing = "reward" ->
            [row EXCEPT !.kind = kind, !.reward = quote.reward,
                        !.cashback = quote.cashback, !.total = quote.total,
                        !.due = quote.due, !.mixed = quote.percent # row.percent,
                        !.stale = FALSE, !.requoted = row.applied > 0]
      [] doing = "credits" ->
            [row EXCEPT !.applied = quote.applied, !.due = quote.due, !.res = FALSE,
                        !.mixed = row.mixed \/ quote.percent # row.percent, !.requoted = FALSE]

Price(q) ==
    LET local == request[q]
        quote == Quote(local.row.subtotal, local.args.code, local.args.kind,
                       local.args.want)
    IN  /\ local.at = "price"
        /\ request' = [request EXCEPT
              ![q].at = "save",
              ![q].row = Priced(local.doing, local.row, local.args.kind, quote)]
        /\ UNCHANGED <<order, hold, Rest>>

\* A code that is named already is not applied again.
Reread(q) ==
    LET promo == Round(order.subtotal * code.percent, 10000)
    IN  /\ request[q].at = "reread"
        /\ IF order.id /\ order.code
             THEN Finish(q)
             ELSE request' = [request EXCEPT
                    ![q].at = "save",
                    ![q].row = [order EXCEPT
                        !.code = TRUE, !.id = TRUE, !.percent = code.percent,
                        !.promo = promo, !.total = AtLeast0(order.subtotal - promo),
                        !.stale = TRUE, !.slipped = request[q].overtaken]]
        /\ UNCHANGED <<order, hold, Rest>>

Save(q) ==
    /\ request[q].at = "save"
    /\ order' = request[q].row
    /\ IF request[q].doing = "create" /\ request[q].row.applied > 0 THEN Go(q, "reserve")
                                                                   ELSE Finish(q)
    /\ UNCHANGED <<hold, Rest>>

\* Creating reserves the credits and notes the reservation; an error is swallowed.
Reserve(q) ==
    /\ request[q].at = "reserve"
    /\ \/ /\ request[q].row.applied <= Available
          /\ hold' = [amount |-> request[q].row.applied, status |-> "ACTIVE"]
          /\ Go(q, "note")
       \/ Finish(q) /\ UNCHANGED hold
    /\ UNCHANGED <<order, Rest>>

Note(q) ==
    /\ request[q].at = "note"
    /\ order' = [order EXCEPT !.res = TRUE] \/ UNCHANGED order
    /\ Finish(q)
    /\ UNCHANGED <<hold, Rest>>
-----------------------------------------------------------------------------
(* Paying.  The steps of the two handlers are the subject of Checkout.     *)

Pay(by, charged, captured) ==
    /\ paid' = [by |-> by, charged |-> charged, captured |-> captured, row |-> order]
    /\ UNCHANGED <<code, now, order, request, offered, contended>>

\* The client has the card charged with amount_due_after_credits.

\* Mutant: the total, credits or not.
ChargedInFull(row) == row.total

Charged(row) == row.due

\* The success of the payment converts the reservation of the order, if still active.
PayByCard ==
    LET active == order.res /\ hold.status = "ACTIVE"
    IN  /\ Open
        /\ Pay("card", Charged(order), IF active THEN hold.amount ELSE 0)
        /\ hold' = IF active THEN [hold EXCEPT !.status = "CONVERTED"] ELSE hold

\* completeWithCredits converts the order's reservation, or reserves the price.

\* Mutant: the price is not compared with what other reservations leave.
CompleteFromBalance ==
    /\ Open
    /\ GrandTotal(order) <= Balance
    /\ Pay("credits", 0, GrandTotal(order))
    /\ UNCHANGED hold

CompleteWithCredits ==
    /\ Open
    /\ GrandTotal(order) <= Balance
    /\ \/ /\ order.res /\ hold.status = "ACTIVE"
          /\ Pay("credits", 0, hold.amount)
          /\ hold' = [hold EXCEPT !.status = "CONVERTED"]
       \/ /\ ~order.res
          /\ GrandTotal(order) <= Available
          /\ Pay("credits", 0, GrandTotal(order))
          /\ UNCHANGED hold
-----------------------------------------------------------------------------
Next ==
    \/ \E q \in Requests :
          \/ \E p \in Percents, s \in Starts, e \in Ends : CreateCode(q, p, s, e)
          \/ \E f \in Fields : UpdateCode(q, f[1], f[2])
          \/ \E n \in Subtotals, named \in BOOLEAN, k \in Rewards, w \in Amounts :
                CreateOrder(q, n, named, k, w)
          \/ \E k \in Rewards : SetReward(q, k)
          \/ \E w \in Amounts : ApplyCredits(q, w)
          \/ ApplyPromoCode(q) \/ RemovePromoCode(q)
          \/ WriteCode(q) \/ Release(q) \/ Price(q) \/ Reread(q) \/ Save(q)
          \/ Reserve(q) \/ Note(q)
    \/ Tick \/ PayByCard \/ CompleteWithCredits

Spec == Init /\ [][Next]_vars
-----------------------------------------------------------------------------
Row == [placed : BOOLEAN, subtotal : Nat, code : BOOLEAN, id : BOOLEAN,
        percent : Nat, promo : Nat, kind : Rewards, reward : Nat, cashback : Nat,
        total : Nat, due : Nat, applied : Nat, res : BOOLEAN,
        mixed : BOOLEAN, stale : BOOLEAN, requoted : BOOLEAN, slipped : BOOLEAN]

\* No column of the order is negative or more than its price.
TypeOK ==
    /\ code \in [exists : BOOLEAN, active : BOOLEAN, percent : Percents \cup {NoPercent},
                 start : Starts \cup {0}, end : Ends \cup {0}]
    /\ now \in 0..MaxTime
    /\ order \in Row
    /\ \A n \in {order.promo, order.reward, order.cashback, order.total, order.due,
                 order.applied} : n <= order.subtotal
    /\ hold \in [amount : 0..Wallet, status : {"none", "ACTIVE", "RELEASED", "CONVERTED"}]
    /\ paid.by \in {"nobody", "card", "credits"} /\ paid.row \in Row
    /\ \A q \in Requests :
          request[q].at \in Points /\ request[q].doing \in Doing /\ request[q].row \in Row
    /\ Available >= 0
    /\ offered \subseteq Percents
    /\ contended \in BOOLEAN

\* The columns of a row are those of one quote.
OneQuote(row) == ~row.stale /\ ~row.requoted /\ ~row.mixed

\* The pricing columns agree to the cent: what complete-with-credits computes from
\* the discounts is the total, and what is due by card is the total less the credits
\* (orders.service.ts:1632, cart.service.ts:75).  Not so after a promo code was
\* applied or removed without a new quote, a reward was set on an order that uses
\* credits, or a quote the columns come from used another percentage than the promo
\* discount.
ColumnsAgree ==
    (order.placed /\ OneQuote(order))
        => /\ order.total = GrandTotal(order)
           /\ order.due = order.total - order.applied

\* A card payment with its converted credits comes to the price exactly, under the
\* conditions of ColumnsAgree and when the credits taken off were reserved and the
\* reservation was still held.
PaidIsThePrice ==
    (paid.by = "card" /\ OneQuote(paid.row) /\ paid.captured = paid.row.applied)
        => paid.charged + paid.captured = GrandTotal(paid.row)

\* Nobody pays more than the undiscounted price, cards and credits together, unless
\* a reward was set on an order that uses credits: its quote does not find the
\* credits the order itself reserved, and the card is charged for them again.
NeverPaysMore ==
    paid.by # "nobody" =>
        paid.charged + paid.captured <= paid.row.subtotal \/ paid.row.requoted

\* The percentage on an order was on offer, in its window and active, at some time;
\* an update between the validation of a code and its second reading may slip in.
DiscountWasOffered ==
    order.placed => order.percent \in offered \cup {NoPercent} \/ order.slipped

\* A validity window ends after it begins, unless two updates overlapped: each checks
\* its own date against the other one as it was read (promo-codes.service.ts:97).
WindowIsOrdered == code.exists => code.start < code.end \/ contended

\* A code that was switched off comes back only by an update that says so, or by one
\* that read the row before it was switched off and puts the old status back.
DeactivationHolds ==
    [][(code.exists /\ ~code.active /\ code'.active) =>
          \E q \in Requests :
             /\ request[q].at = "write" /\ request'[q].at = "done"
             /\ \/ request[q].args.field = "active" /\ request[q].args.value = 1
                \/ request[q].overtaken]_vars
=============================================================================
