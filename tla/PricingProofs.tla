---------------------------- MODULE PricingProofs ----------------------------
(***************************************************************************)
(* Theorems about Pricing, for any prices, percentages, credits, validity  *)
(* windows, handlers and overlaps of them.                                 *)
(***************************************************************************)
EXTENDS Pricing, TLAPS

(* What the tables say, and what a handler knows at each of its points.    *)

Codes == [exists : BOOLEAN, active : BOOLEAN, percent : Percents \cup {NoPercent},
          start : Starts \cup {0}, end : Ends \cup {0}]
Holds == [amount : 0..Wallet, status : {"none", "ACTIVE", "RELEASED", "CONVERTED"}]
Payments == [by : {"nobody", "card", "credits"}, charged : Nat, captured : Nat, row : Row]
Arguments == [kind : Rewards, want : Nat, code : BOOLEAN,
              field : {"active", "percent", "start", "end"}, value : Nat]
Handlers == [at : Points, doing : Doing, row : Row, copy : Codes, args : Arguments,
             overtaken : BOOLEAN]

Types ==
    /\ code \in Codes
    /\ now \in 0..MaxTime
    /\ order \in Row
    /\ hold \in Holds
    /\ paid \in Payments
    /\ request \in [Requests -> Handlers]
    /\ offered \subseteq Percents
    /\ contended \in BOOLEAN

PromoOf(subtotal, percent) == Round(subtotal * percent, 10000)
RewardOf(kind, after) == IF kind = "DISCOUNT_3" THEN Round(after * 300, 10000) ELSE 0

\* The columns of a row: each is a part of the price, and the total and the amount
\* due are what the discounts leave, as far as they come from the same quotes.
WithinPrice(row) ==
    /\ row.promo <= row.subtotal /\ row.reward <= row.subtotal
    /\ row.cashback <= row.subtotal /\ row.total <= row.subtotal
    /\ row.due <= row.subtotal /\ row.applied <= row.subtotal
    /\ row.due + row.applied <= row.subtotal \/ row.requoted

Summed(row) ==
    (row.placed /\ ~row.stale /\ ~row.mixed) =>
        /\ row.reward = RewardOf(row.kind, row.subtotal - row.promo)
        /\ row.total = row.subtotal - row.promo - row.reward
        /\ ~row.requoted => row.due = row.total - row.applied

RightRow(row) ==
    /\ row.percent \in Percents \cup {NoPercent}
    /\ row.promo = PromoOf(row.subtotal, row.percent)
    /\ WithinPrice(row)
    /\ Summed(row)

Offered(row, offers) ==
    row.placed => row.percent \in offers \cup {NoPercent} \/ row.slipped

\* The credits a row takes off are those that are reserved.
Backed(row, held) == (held.status = "ACTIVE" /\ row.res) => row.applied = held.amount

Fits(row, offers, held) == RightRow(row) /\ Offered(row, offers) /\ Backed(row, held)

RightRows ==
    /\ \A q \in Requests : Fits(request[q].row, offered, hold)
    /\ Fits(order, offered, hold)
    /\ RightRow(paid.row)

\* The code, and what its updates know of it.
Writes(h, c) ==
    h.at = "write" =>
        /\ h.doing \in {"newCode", "update"}
        /\ h.copy.exists /\ h.copy.percent \in Percents
        /\ h.doing = "newCode" => h.copy.start < h.copy.end
        /\ h.doing = "update" =>
              /\ c.exists
              /\ <<h.args.field, h.args.value>> \in Fields
              /\ WindowOk(h.copy, h.args.field, h.args.value)
              /\ ~h.overtaken => h.copy = c

Rereads(h, c, offers) ==
    h.at = "reread" => c.exists /\ (~h.overtaken => c.percent \in offers)

RightCode ==
    /\ code.exists => code.percent \in Percents
    /\ WindowIsOrdered
    /\ Valid => code.percent \in offered
    /\ \A q \in Requests : Writes(request[q], code) /\ Rereads(request[q], code, offered)

\* What a handler of the order does at each of its points.
Prices(h) ==
    \/ /\ h.doing = "create"
       /\ h.row = [NoOrder EXCEPT !.subtotal = h.row.subtotal]
    \/ h.doing = "reward" /\ h.row.placed /\ h.args.want = h.row.applied
    \/ h.doing = "credits" /\ h.row.placed /\ h.args.kind = h.row.kind

Idle == {"new", "done", "write"}

Shaped(h) ==
    /\ h.at \in Idle \cup {"reread"} => h.row = NoOrder
    /\ h.at = "price" => Prices(h)
    /\ h.at = "release" => Prices(h) /\ h.doing = "credits"
    /\ h.at = "reread" => h.doing = "promo"
    /\ h.at \in {"save", "reserve", "note"} => h.row.placed
    /\ h.at = "save" => h.doing \in {"create", "reward", "credits", "promo"}
    /\ h.at \in {"reserve", "note"} => h.doing = "create"

\* Creating the order has it, the wallet and the reservation for itself.
Creating(q) == request[q].at \notin Idle /\ request[q].doing = "create"

Alone(q) ==
    LET h == request[q]
    IN  Creating(q) =>
          /\ ~h.row.res /\ paid = NotPaid
          /\ \A p \in Requests \ {q} : request[p].at \in Idle
          /\ h.at \in {"price", "save"} => ~order.placed
          /\ h.at \in {"reserve", "note"} => order = h.row
          /\ h.at # "note" => hold = NoHold
          /\ h.at = "note" => hold = [amount |-> h.row.applied, status |-> "ACTIVE"]

Ordered ==
    ~order.placed =>
        /\ order = NoOrder /\ hold = NoHold /\ paid = NotPaid
        /\ \A q \in Requests : request[q].at \in Idle \/ request[q].doing = "create"

RightSteps == Ordered /\ \A q \in Requests : Shaped(request[q]) /\ Alone(q)

\* The wallet, and what was paid.
RightMoney ==
    /\ Available >= 0
    /\ paid.by = "nobody" => paid = NotPaid /\ hold.status # "CONVERTED"
    /\ paid.by = "card" => paid.charged = paid.row.due
    /\ paid.by # "nobody" => paid.row.placed
    /\ NeverPaysMore

Inv == Types /\ RightRows /\ RightCode /\ RightSteps /\ RightMoney

-----------------------------------------------------------------------------
(* The arithmetic.                                                         *)

LEMMA AmountsAreNat ==
  /\ \A n \in Subtotals : n \in Nat
  /\ \A n \in Amounts : n \in Nat
  /\ Wallet \in Nat
  BY AmountsAssumption, Zenon

LEMMA Assumed ==
  /\ Wallet \in Nat /\ MaxTime \in Nat
  /\ \A t \in Starts \cup Ends : t \in Nat
<1>1. Wallet \in Nat
  BY AmountsAreNat
<1>2. MaxTime \in Nat /\ \A t \in Starts \cup Ends : t \in Nat
  BY TimesAssumption
<1>3. QED
  BY <1>1, <1>2

\* Rounding a part of n, given in hundredths of a percent, to the cent gives a part of n.
LEMMA RoundIsPart ==
  ASSUME NEW n \in Nat, NEW m \in Nat, m <= n * 10000
  PROVE  Round(m, 10000) \in 0..n
<1>1. Round(m, 10000) = (2 * m + 10000) \div 20000
  BY DEF Round
<1>2. 0 <= 2 * m + 10000 /\ 2 * m + 10000 < 20000 * (n + 1)
  OBVIOUS
<1>3. (2 * m + 10000) \div 20000 \in 0..n
  BY <1>2
<1>4. QED
  BY <1>1, <1>3

LEMMA PromoIsPart ==
  ASSUME NEW n \in Nat, NEW p \in Percents \cup {NoPercent}
  PROVE  PromoOf(n, p) \in 0..n
<1>1. p \in Nat /\ p <= 10000
  BY PercentsAssumption DEF NoPercent
<1>2. n * p \in Nat /\ n * p <= n * 10000
  BY <1>1
<1>3. QED
  BY <1>2, RoundIsPart DEF PromoOf

LEMMA NoPromo ==
  ASSUME NEW n \in Nat
  PROVE  PromoOf(n, NoPercent) = 0
<1>1. n * 0 = 0
  OBVIOUS
<1>2. Round(0, 10000) = 0
  BY DEF Round
<1>3. QED
  BY <1>1, <1>2 DEF PromoOf, NoPercent

LEMMA RewardIsPart ==
  ASSUME NEW n \in Nat, NEW kind
  PROVE  /\ RewardOf(kind, n) \in 0..n
         /\ Round(n * 1000, 10000) \in 0..n
<1>1. n * 300 \in Nat /\ n * 300 <= n * 10000 /\ n * 1000 \in Nat /\ n * 1000 <= n * 10000
  OBVIOUS
<1>2. Round(n * 300, 10000) \in 0..n /\ Round(n * 1000, 10000) \in 0..n
  BY <1>1, RoundIsPart
<1>3. QED
  BY <1>2 DEF RewardOf

LEMMA AvailableIsNat ==
  ASSUME Inv
  PROVE  Available \in Nat
<1>1. hold.amount \in Nat /\ paid.captured \in Nat /\ Wallet \in Nat
  BY Assumed DEF Inv, Types, Holds, Payments
<1>2. Balance \in Int
  BY <1>1 DEF Balance
<1>3. Available \in Int
  BY <1>1, <1>2 DEF Available
<1>4. QED
  BY <1>3 DEF Inv, RightMoney

\* What calculatePricePreview answers, whoever asks: parts of the price that add up.
QuoteAdds(quote, subtotal, kind, want) ==
    /\ quote.percent \in Percents \cup {NoPercent}
    /\ quote.promo = PromoOf(subtotal, quote.percent) /\ quote.promo \in 0..subtotal
    /\ quote.reward = RewardOf(kind, subtotal - quote.promo)
    /\ quote.reward \in 0..(subtotal - quote.promo)
    /\ quote.cashback \in 0..subtotal
    /\ quote.total = subtotal - quote.promo - quote.reward
    /\ quote.applied \in 0..quote.total /\ quote.applied <= want
    /\ quote.due = quote.total - quote.applied

LEMMA QuoteIsRight ==
  ASSUME Inv, NEW n \in Nat, NEW named \in BOOLEAN, NEW kind \in Rewards, NEW want \in Nat
  PROVE  /\ QuoteAdds(Quote(n, named, kind, want), n, kind, want)
         /\ Quote(n, named, kind, want).percent \in offered \cup {NoPercent}
<1> DEFINE percent == IF named /\ Valid THEN code.percent ELSE NoPercent
           promo == PromoOf(n, percent)
           after == n - promo
           reward == RewardOf(kind, after)
           applied == Smaller(want, Smaller(Available, after - reward))
           quote == Quote(n, named, kind, want)
<1>1. percent \in Percents \cup {NoPercent} /\ percent \in offered \cup {NoPercent}
  BY DEF Inv, Types, RightCode, Valid
<1>2. promo \in 0..n /\ after \in Nat /\ after <= n
  BY <1>1, PromoIsPart
<1>3. reward \in 0..after /\ Round(after * 1000, 10000) \in 0..after
  <2> HIDE DEF after
  <2> QED
    BY <1>2, RewardIsPart
<1>4. Available \in Nat
  BY AvailableIsNat
<1>5. applied \in 0..(after - reward) /\ applied <= want
  BY <1>2, <1>3, <1>4 DEF Smaller
<1>6. /\ quote.percent = percent /\ quote.promo = promo /\ quote.reward = reward
      /\ quote.cashback = IF kind = "CASHBACK_10" THEN Round(after * 1000, 10000) ELSE 0
      /\ quote.applied = applied /\ quote.due = AtLeast0(after - reward - applied)
      /\ quote.total = n - (promo + reward)
  BY DEF Quote, PromoOf, RewardOf, Due
<1>7. AtLeast0(after - reward - applied) = after - reward - applied
  BY <1>2, <1>3, <1>5 DEF AtLeast0
<1> HIDE DEF percent, promo, reward, applied, quote
<1>8. quote.cashback \in 0..n
  BY <1>2, <1>3, <1>6
<1>9. quote.total = after - reward /\ quote.due = quote.total - quote.applied
  BY <1>2, <1>3, <1>5, <1>6, <1>7
<1>10. QED
  BY <1>1, <1>2, <1>3, <1>5, <1>6, <1>8, <1>9 DEF QuoteAdds, promo, reward, quote

-----------------------------------------------------------------------------
(* Pricing a row.                                                          *)

LEMMA QuoteIsTyped ==
  ASSUME NEW quote, NEW n \in Nat, NEW kind, NEW want \in Nat, QuoteAdds(quote, n, kind, want)
  PROVE  /\ quote.percent \in Nat /\ quote.promo \in Nat /\ quote.reward \in Nat
         /\ quote.cashback \in Nat /\ quote.total \in Nat /\ quote.applied \in Nat
         /\ quote.due \in Nat
         /\ quote.promo <= n /\ quote.reward <= n /\ quote.cashback <= n /\ quote.total <= n
         /\ quote.due + quote.applied <= n
<1>1. quote.percent \in Nat
  BY PercentsAssumption DEF QuoteAdds, NoPercent
<1>2. QED
  BY <1>1 DEF QuoteAdds

LEMMA RowFields ==
  ASSUME NEW row \in Row
  PROVE  /\ row.placed \in BOOLEAN /\ row.subtotal \in Nat /\ row.code \in BOOLEAN
         /\ row.id \in BOOLEAN /\ row.percent \in Nat /\ row.promo \in Nat
         /\ row.kind \in Rewards /\ row.reward \in Nat /\ row.cashback \in Nat
         /\ row.total \in Nat /\ row.due \in Nat /\ row.applied \in Nat
         /\ row.res \in BOOLEAN /\ row.mixed \in BOOLEAN /\ row.stale \in BOOLEAN
         /\ row.requoted \in BOOLEAN /\ row.slipped \in BOOLEAN
  BY DEF Row

LEMMA CreatedRowIsRight ==
  ASSUME NEW row \in Row, row = [NoOrder EXCEPT !.subtotal = row.subtotal],
         NEW kind \in Rewards, NEW want \in Nat, NEW quote,
         QuoteAdds(quote, row.subtotal, kind, want)
  PROVE  /\ Priced("create", row, kind, quote) \in Row
         /\ RightRow(Priced("create", row, kind, quote))
<1> DEFINE new == Priced("create", row, kind, quote)
<1>1. row.subtotal \in Nat /\ ~row.stale /\ ~row.mixed /\ ~row.requoted
  BY DEF Row, NoOrder
<1>2. /\ new = [row EXCEPT !.placed = TRUE, !.code = quote.percent # NoPercent,
                        !.percent = quote.percent, !.promo = quote.promo,
                        !.kind = kind, !.reward = quote.reward,
                        !.cashback = quote.cashback, !.total = quote.total,
                        !.due = quote.due, !.applied = quote.applied]
  BY DEF Priced
<1> HIDE DEF new
<1>3. /\ new.subtotal = row.subtotal /\ new.percent = quote.percent /\ new.kind = kind
      /\ new.promo = quote.promo /\ new.reward = quote.reward /\ new.total = quote.total
      /\ new.cashback = quote.cashback /\ new.due = quote.due /\ new.applied = quote.applied
      /\ new.placed /\ ~new.stale /\ ~new.mixed /\ ~new.requoted
  BY <1>1, <1>2 DEF Row
<1>4. new \in Row
  BY <1>2, <1>1, QuoteIsTyped, ZenonT(60) DEF Row
<1>5. WithinPrice(new)
  BY <1>1, <1>3, QuoteIsTyped DEF WithinPrice
<1>6. Summed(new)
  BY <1>3 DEF Summed, QuoteAdds
<1>7. new.percent \in Percents \cup {NoPercent} /\ new.promo = PromoOf(new.subtotal, new.percent)
  BY <1>3 DEF QuoteAdds
<1>8. QED
  BY <1>4, <1>5, <1>6, <1>7 DEF RightRow, new

LEMMA RewardedRowIsRight ==
  ASSUME NEW row \in Row, RightRow(row), NEW kind \in Rewards, NEW quote,
         QuoteAdds(quote, row.subtotal, kind, row.applied)
  PROVE  /\ Priced("reward", row, kind, quote) \in Row
         /\ RightRow(Priced("reward", row, kind, quote))
<1> DEFINE new == Priced("reward", row, kind, quote)
           mixed == quote.percent # row.percent
           requoted == row.applied > 0
<1>1. row.subtotal \in Nat /\ row.applied \in Nat
  BY RowFields
<1>2. new = [row EXCEPT !.kind = kind, !.reward = quote.reward,
                        !.cashback = quote.cashback, !.total = quote.total,
                        !.due = quote.due, !.mixed = mixed,
                        !.stale = FALSE, !.requoted = requoted]
  BY DEF Priced
<1>8. /\ mixed \in BOOLEAN /\ (~mixed <=> quote.percent = row.percent)
      /\ requoted \in BOOLEAN /\ (~requoted <=> row.applied = 0)
  BY <1>1
<1> HIDE DEF new, mixed, requoted
<1>3. /\ new.subtotal = row.subtotal /\ new.percent = row.percent /\ new.kind = kind
      /\ new.promo = row.promo /\ new.reward = quote.reward /\ new.total = quote.total
      /\ new.cashback = quote.cashback /\ new.due = quote.due /\ new.applied = row.applied
      /\ new.mixed = mixed /\ new.requoted = requoted
  BY <1>1, <1>2, <1>8 DEF Row
<1>4. new \in Row
  BY <1>1, <1>2, <1>8, QuoteIsTyped, ZenonT(60) DEF Row
<1>5. WithinPrice(new)
  <2>1. /\ quote.reward <= row.subtotal /\ quote.cashback <= row.subtotal
        /\ quote.total <= row.subtotal /\ quote.due + quote.applied <= row.subtotal
        /\ quote.due \in Nat /\ quote.applied \in Nat
    BY <1>1, QuoteIsTyped
  <2>2. row.promo <= row.subtotal /\ row.applied <= row.subtotal
    BY DEF RightRow, WithinPrice
  <2>3. QED
    BY <1>1, <1>3, <1>8, <2>1, <2>2 DEF WithinPrice
<1>6. Summed(new)
  <2> SUFFICES ASSUME ~new.mixed
               PROVE  /\ new.reward = RewardOf(new.kind, new.subtotal - new.promo)
                      /\ new.total = new.subtotal - new.promo - new.reward
                      /\ ~new.requoted => new.due = new.total - new.applied
    BY DEF Summed
  <2>1. quote.promo = row.promo
    BY <1>3, <1>8 DEF QuoteAdds, RightRow
  <2>2. ~new.requoted => quote.applied = 0
    BY <1>1, <1>3, <1>8, QuoteIsTyped DEF QuoteAdds
  <2>3. QED
    BY <1>1, <1>3, <1>8, <2>1, <2>2 DEF QuoteAdds
<1>7. QED
  BY <1>3, <1>4, <1>5, <1>6 DEF RightRow, new

LEMMA CreditedRowIsRight ==
  ASSUME NEW row \in Row, RightRow(row), NEW want \in Nat, NEW quote,
         QuoteAdds(quote, row.subtotal, row.kind, want)
  PROVE  /\ Priced("credits", row, row.kind, quote) \in Row
         /\ RightRow(Priced("credits", row, row.kind, quote))
<1> DEFINE new == Priced("credits", row, row.kind, quote)
           mixed == row.mixed \/ quote.percent # row.percent
<1>1. row.subtotal \in Nat /\ row.kind \in Rewards /\ row.mixed \in BOOLEAN
  BY RowFields
<1>2. new = [row EXCEPT !.applied = quote.applied, !.due = quote.due, !.res = FALSE,
                        !.mixed = mixed, !.requoted = FALSE]
  BY DEF Priced
<1>9. mixed \in BOOLEAN /\ (~mixed <=> (~row.mixed /\ quote.percent = row.percent))
  BY <1>1
<1> HIDE DEF new, mixed
<1>3. /\ new.subtotal = row.subtotal /\ new.percent = row.percent /\ new.kind = row.kind
      /\ new.promo = row.promo /\ new.reward = row.reward /\ new.total = row.total
      /\ new.cashback = row.cashback /\ new.due = quote.due /\ new.applied = quote.applied
      /\ new.mixed = mixed
      /\ new.stale = row.stale /\ new.placed = row.placed
  BY <1>1, <1>2, <1>9 DEF Row
<1>4. new \in Row
  BY <1>1, <1>2, <1>9, QuoteIsTyped DEF Row
<1>5. WithinPrice(new)
  <2>1. /\ quote.due + quote.applied <= row.subtotal
        /\ quote.due \in Nat /\ quote.applied \in Nat
    BY <1>1, QuoteIsTyped
  <2>2. /\ row.promo <= row.subtotal /\ row.reward <= row.subtotal
        /\ row.cashback <= row.subtotal /\ row.total <= row.subtotal
    BY DEF RightRow, WithinPrice
  <2>3. QED
    BY <1>1, <1>3, <2>1, <2>2 DEF WithinPrice
<1>6. Summed(new)
  <2> SUFFICES ASSUME new.placed, ~new.stale, ~new.mixed
               PROVE  /\ new.reward = RewardOf(new.kind, new.subtotal - new.promo)
                      /\ new.total = new.subtotal - new.promo - new.reward
                      /\ new.due = new.total - new.applied
    BY DEF Summed
  <2>1. ~row.mixed /\ quote.promo = row.promo
    BY <1>3, <1>9 DEF QuoteAdds, RightRow
  <2>2. /\ row.reward = RewardOf(row.kind, row.subtotal - row.promo)
        /\ row.total = row.subtotal - row.promo - row.reward
    BY <1>3, <2>1 DEF RightRow, Summed
  <2>3. quote.reward = row.reward /\ quote.total = row.total
    BY <2>1, <2>2 DEF QuoteAdds
  <2>4. QED
    BY <1>3, <2>2, <2>3 DEF QuoteAdds
<1>7. QED
  BY <1>3, <1>4, <1>5, <1>6 DEF RightRow, new

-----------------------------------------------------------------------------
(* What a step leaves alone.                                               *)

LEMMA Becomes ==
  ASSUME Inv, NEW q \in Requests, NEW h \in Handlers, request' = [request EXCEPT ![q] = h]
  PROVE  /\ request' \in [Requests -> Handlers]
         /\ request'[q] = h
         /\ \A p \in Requests \ {q} : request'[p] = request[p]
  BY DEF Inv, Types

LEMMA HandlerFields ==
  ASSUME Inv, NEW q \in Requests
  PROVE  /\ request[q] \in Handlers /\ request[q].row \in Row
         /\ request[q].args \in Arguments /\ request[q].copy \in Codes
         /\ request[q].at \in Points /\ request[q].doing \in Doing
         /\ request[q].overtaken \in BOOLEAN
         /\ Fits(request[q].row, offered, hold)
         /\ Writes(request[q], code) /\ Rereads(request[q], code, offered)
         /\ Shaped(request[q]) /\ Alone(q)
  BY DEF Inv, Types, Handlers, RightRows, RightCode, RightSteps

\* The first row of an order, and that of a handler without one.
LEMMA EmptyRow ==
  /\ NoOrder \in Row
  /\ \A offers, held : Fits(NoOrder, offers, held)
  /\ \A n \in Nat : [NoOrder EXCEPT !.subtotal = n] \in Row
  /\ \A n \in Nat : \A offers, held : Fits([NoOrder EXCEPT !.subtotal = n], offers, held)
<1>1. NoOrder \in Row
  BY DEF NoOrder, Row, Rewards, NoPercent
<1>5. /\ NoOrder.percent = NoPercent /\ NoOrder.promo = 0 /\ NoOrder.reward = 0
      /\ NoOrder.cashback = 0 /\ NoOrder.total = 0 /\ NoOrder.due = 0
      /\ NoOrder.applied = 0 /\ NoOrder.placed = FALSE /\ NoOrder.res = FALSE
  BY DEF NoOrder
<1>2. ASSUME NEW row, NEW offers, NEW held, row.subtotal \in Nat, row.percent = NoPercent,
             row.promo = 0, row.reward = 0, row.cashback = 0, row.total = 0, row.due = 0,
             row.applied = 0, row.placed = FALSE, row.res = FALSE
      PROVE  Fits(row, offers, held)
  <2>1. RightRow(row)
    BY <1>2, NoPromo DEF RightRow, WithinPrice, Summed
  <2>2. QED
    BY <1>2, <2>1 DEF Fits, Offered, Backed
<1>3. ASSUME NEW n \in Nat, NEW offers, NEW held
      PROVE  LET row == [NoOrder EXCEPT !.subtotal = n]
             IN  row \in Row /\ Fits(row, offers, held)
  <2> DEFINE row == [NoOrder EXCEPT !.subtotal = n]
  <2>1. row \in Row
    BY <1>1 DEF Row
  <2>2. /\ row.subtotal = n /\ row.percent = NoPercent /\ row.promo = 0 /\ row.reward = 0
        /\ row.cashback = 0 /\ row.total = 0 /\ row.due = 0 /\ row.applied = 0
        /\ row.placed = FALSE /\ row.res = FALSE
    BY <1>1, <1>5 DEF Row
  <2> HIDE DEF row
  <2>3. QED
    BY <1>2, <2>1, <2>2 DEF row
<1>4. ASSUME NEW offers, NEW held
      PROVE  Fits(NoOrder, offers, held)
  <2>1. NoOrder.subtotal \in Nat
    BY <1>1 DEF Row
  <2>2. QED
    BY <1>2, <1>5, <2>1
<1>6. QED
  BY <1>1, <1>3, <1>4

LEMMA NoArgsAreTyped ==
  /\ NoArgs \in Arguments /\ NoCode \in Codes
  /\ NoArgs.kind = "NONE" /\ NoArgs.want = 0
  BY DEF NoArgs, NoCode, Arguments, Codes, Rewards, NoPercent

LEMMA EndedIsRight ==
  /\ Ended \in Handlers /\ Ended.at = "done" /\ Ended.row = NoOrder
  /\ Unused \in Handlers /\ Unused.at = "new" /\ Unused.row = NoOrder
  /\ Shaped(Ended) /\ Shaped(Unused)
<1>1. /\ Unused \in Handlers /\ Unused.at = "new" /\ Unused.row = NoOrder
  <2>1. "new" \in Points /\ "create" \in Doing
    BY DEF Points, Doing
  <2>2. QED
    BY <2>1, EmptyRow, NoArgsAreTyped DEF Unused, Local, Handlers
<1>2. Ended \in Handlers /\ Ended.at = "done" /\ Ended.row = NoOrder
  BY <1>1 DEF Ended, Handlers, Points
<1>3. Shaped(Ended) /\ Shaped(Unused)
  BY <1>1, <1>2 DEF Shaped, Idle
<1>4. QED
  BY <1>1, <1>2, <1>3

LEMMA RowsStay ==
  ASSUME Inv, offered \subseteq offered', hold' = hold \/ hold'.status # "ACTIVE",
         \A p \in Requests : \/ request'[p].row = request[p].row
                             \/ Fits(request'[p].row, offered', hold'),
         \/ order' = order
         \/ \E q \in Requests : order' = request[q].row,
         paid' = paid \/ paid'.row = order
  PROVE  RightRows'
<1>1. ASSUME NEW row, Fits(row, offered, hold)
      PROVE  Fits(row, offered', hold')
  BY <1>1 DEF Fits, Offered, Backed
<1>2. \A p \in Requests : Fits(request'[p].row, offered', hold')
  BY <1>1, HandlerFields
<1>3. Fits(order', offered', hold')
  BY <1>1, HandlerFields DEF Inv, RightRows
<1>4. RightRow(paid'.row)
  BY DEF Inv, RightRows, Fits
<1>5. QED
  BY <1>2, <1>3, <1>4 DEF RightRows

\* A handler of the order does not concern the code.
LEMMA CodeStays ==
  ASSUME Inv, UNCHANGED <<code, now, offered, contended>>,
         \A p \in Requests : \/ request'[p] = request[p]
                             \/ /\ Writes(request'[p], code)
                                /\ Rereads(request'[p], code, offered)
  PROVE  RightCode'
<1>1. /\ WindowIsOrdered' /\ (Valid' => code'.percent \in offered')
      /\ code'.exists => code'.percent \in Percents
  BY DEF Inv, RightCode, WindowIsOrdered, Valid
<1>2. \A p \in Requests : Writes(request'[p], code') /\ Rereads(request'[p], code', offered')
  BY HandlerFields
<1>3. QED
  BY <1>1, <1>2 DEF RightCode

LEMMA MoneyStays ==
  ASSUME Inv, UNCHANGED <<hold, paid>>
  PROVE  RightMoney'
  BY DEF Inv, RightMoney, Available, Balance, NeverPaysMore

\* While nobody creates the order, it is there, and any of its handlers may move.
LEMMA NobodyCreates ==
  ASSUME Inv, NEW q \in Requests, request[q].at \notin Idle, request[q].doing # "create"
  PROVE  order.placed /\ \A p \in Requests : ~Creating(p)
<1>1. order.placed
  BY DEF Inv, RightSteps, Ordered
<1>2. ASSUME NEW p \in Requests, Creating(p)
      PROVE  FALSE
  BY <1>2, HandlerFields DEF Alone, Creating
<1>3. QED
  BY <1>1, <1>2

LEMMA OpenToAll ==
  ASSUME Inv, Open
  PROVE  /\ order.placed /\ paid = NotPaid /\ hold.status # "CONVERTED"
         /\ \A p \in Requests : ~Creating(p)
  BY DEF Open, Inv, RightMoney, Creating, InFlight, Idle

LEMMA StepsStay ==
  ASSUME Inv, NEW q \in Requests, order'.placed, \A p \in Requests : ~Creating(p),
         \A p \in Requests \ {q} : request'[p] = request[p],
         Shaped(request'[q]), request'[q].doing # "create" \/ request'[q].at \in Idle
  PROVE  RightSteps'
<1>1. Ordered'
  BY DEF Ordered
<1>2. ASSUME NEW p \in Requests
      PROVE  Shaped(request'[p])
  BY <1>2, HandlerFields
<1>3. ASSUME NEW p \in Requests
      PROVE  Alone(p)'
  BY <1>3 DEF Alone, Creating
<1>4. QED
  BY <1>1, <1>2, <1>3 DEF RightSteps

LEMMA HandlerMoves ==
  ASSUME Inv, NEW q \in Requests, NEW h \in Handlers, request' = [request EXCEPT ![q] = h],
         \A p \in Requests : ~Creating(p),
         Fits(h.row, offered, hold), Writes(h, code), Rereads(h, code, offered),
         Shaped(h), h.doing # "create" \/ h.at \in Idle,
         order.placed, order' = order \/ (order' = request[q].row /\ request[q].row.placed),
         hold' \in Holds, hold' = hold \/ hold'.status # "ACTIVE",
         RightMoney', UNCHANGED Rest
  PROVE  Inv'
<1>1. /\ request' \in [Requests -> Handlers] /\ request'[q] = h
      /\ \A p \in Requests \ {q} : request'[p] = request[p]
  BY Becomes
<1>2. UNCHANGED <<code, now, paid, offered, contended>>
  BY DEF Rest
<1>3. order'.placed /\ order' \in Row
  BY HandlerFields DEF Inv, Types
<1>4. Types'
  BY <1>1, <1>2, <1>3 DEF Inv, Types
<1>5. RightRows'
  <2>1. Fits(h.row, offered', hold')
    BY <1>2 DEF Fits, Backed
  <2>2. QED
    BY <1>1, <1>2, <2>1, RowsStay
<1>6. RightCode'
  BY <1>1, <1>2, CodeStays
<1>7. RightSteps'
  BY <1>1, <1>3, StepsStay
<1>8. QED
  BY <1>4, <1>5, <1>6, <1>7 DEF Inv

-----------------------------------------------------------------------------
(* The steps of the handlers of the order, but for creating it.            *)

LEMMA StartReward ==
  ASSUME Inv, NEW q \in Requests, NEW kind \in Rewards, SetReward(q, kind)
  PROVE  Inv'
<1> DEFINE args == [NoArgs EXCEPT !.kind = kind, !.want = order.applied, !.code = order.code]
           h == Local("price", "reward", order, args)
<1>1. order \in Row /\ Fits(order, offered, hold)
  BY DEF Inv, Types, RightRows
<1>2. args \in Arguments /\ args.want = order.applied
  BY <1>1, RowFields, NoArgsAreTyped DEF Arguments
<1> HIDE DEF args
<1>3. h \in Handlers /\ h.at = "price" /\ h.doing = "reward" /\ h.row = order /\ h.args = args
  BY <1>1, <1>2 DEF Local, Handlers, Points, Doing, NoCode, Codes, NoPercent
<1>4. request' = [request EXCEPT ![q] = h]
  BY DEF SetReward, Start, args
<1> HIDE DEF h
<1>5. order.placed /\ \A p \in Requests : ~Creating(p)
  BY OpenToAll DEF SetReward
<1>6. Shaped(h) /\ Writes(h, code) /\ Rereads(h, code, offered)
  BY <1>2, <1>3, <1>5 DEF Shaped, Prices, Writes, Rereads, Idle
<1>7. UNCHANGED <<order, hold, Rest>> /\ RightMoney' /\ hold \in Holds
  BY MoneyStays DEF SetReward, Rest, Inv, Types
<1>8. QED
  BY <1>1, <1>3, <1>4, <1>5, <1>6, <1>7, HandlerMoves

LEMMA StartCredits ==
  ASSUME Inv, NEW q \in Requests, NEW want \in Amounts, ApplyCredits(q, want)
  PROVE  Inv'
<1> DEFINE args == [NoArgs EXCEPT !.kind = order.kind, !.want = want, !.code = order.code]
           at == IF order.res THEN "release" ELSE "price"
           h == Local(at, "credits", order, args)
<1>1. order \in Row /\ Fits(order, offered, hold)
  BY DEF Inv, Types, RightRows
<1>2. args \in Arguments /\ args.kind = order.kind /\ at \in {"release", "price"}
  <2>1. want \in Nat
    BY AmountsAreNat
  <2>2. order.kind \in Rewards /\ order.code \in BOOLEAN
    BY <1>1, RowFields
  <2>3. QED
    BY <2>1, <2>2, NoArgsAreTyped DEF Arguments
<1> HIDE DEF args
<1>3. h \in Handlers /\ h.at = at /\ h.doing = "credits" /\ h.row = order /\ h.args = args
  BY <1>1, <1>2 DEF Local, Handlers, Points, Doing, NoCode, Codes, NoPercent
<1>4. request' = [request EXCEPT ![q] = h]
  BY DEF ApplyCredits, Start, args
<1> HIDE DEF h
<1>5. order.placed /\ \A p \in Requests : ~Creating(p)
  BY OpenToAll DEF ApplyCredits
<1>6. Shaped(h) /\ Writes(h, code) /\ Rereads(h, code, offered)
  BY <1>2, <1>3, <1>5 DEF Shaped, Prices, Writes, Rereads, Idle
<1>7. UNCHANGED <<order, hold, Rest>> /\ RightMoney' /\ hold \in Holds
  BY MoneyStays DEF ApplyCredits, Rest, Inv, Types
<1>8. QED
  BY <1>1, <1>3, <1>4, <1>5, <1>6, <1>7, HandlerMoves

LEMMA StartPromo ==
  ASSUME Inv, NEW q \in Requests, ApplyPromoCode(q)
  PROVE  Inv'
<1> DEFINE h == Local("reread", "promo", NoOrder, NoArgs)
<1>1. h \in Handlers /\ h.at = "reread" /\ h.doing = "promo" /\ h.row = NoOrder
  BY EmptyRow, NoArgsAreTyped DEF Local, Handlers, Points, Doing
<1>2. request' = [request EXCEPT ![q] = h]
  BY DEF ApplyPromoCode, Start
<1> HIDE DEF h
<1>3. order.placed /\ \A p \in Requests : ~Creating(p)
  BY OpenToAll DEF ApplyPromoCode
<1>4. Shaped(h) /\ Writes(h, code) /\ Fits(h.row, offered, hold)
  BY <1>1, EmptyRow DEF Shaped, Writes, Idle
<1>5. Rereads(h, code, offered)
  BY DEF ApplyPromoCode, Rereads, Valid, Inv, RightCode
<1>6. UNCHANGED <<order, hold, Rest>> /\ RightMoney' /\ hold \in Holds
  BY MoneyStays DEF ApplyPromoCode, Rest, Inv, Types
<1>7. QED
  BY <1>1, <1>2, <1>3, <1>4, <1>5, <1>6, HandlerMoves

\* Removing a code leaves no discount, and the total is the whole price.
LEMMA StartRemoval ==
  ASSUME Inv, NEW q \in Requests, RemovePromoCode(q)
  PROVE  Inv'
<1> DEFINE row == [order EXCEPT !.code = FALSE, !.id = FALSE, !.percent = NoPercent,
                                !.promo = 0, !.total = order.subtotal, !.stale = TRUE]
           h == Local("save", "promo", row, NoArgs)
<1>1. order \in Row /\ Fits(order, offered, hold) /\ order.subtotal \in Nat
  BY RowFields DEF Inv, Types, RightRows
<1>2. /\ row \in Row /\ row.subtotal = order.subtotal /\ row.percent = NoPercent
      /\ row.promo = 0 /\ row.reward = order.reward /\ row.cashback = order.cashback
      /\ row.total = order.subtotal /\ row.due = order.due /\ row.applied = order.applied
      /\ row.res = order.res /\ row.stale = TRUE /\ row.requoted = order.requoted
      /\ row.placed = order.placed
  BY <1>1 DEF Row, NoPercent
<1> HIDE DEF row
<1>3. RightRow(row)
  BY <1>1, <1>2, NoPromo DEF Fits, RightRow, WithinPrice, Summed
<1>4. Fits(row, offered, hold)
  BY <1>1, <1>2, <1>3 DEF Fits, Offered, Backed
<1>5. h \in Handlers /\ h.at = "save" /\ h.doing = "promo" /\ h.row = row
  BY <1>2, NoArgsAreTyped DEF Local, Handlers, Points, Doing
<1>6. request' = [request EXCEPT ![q] = h]
  BY DEF RemovePromoCode, Start, row
<1> HIDE DEF h
<1>7. order.placed /\ \A p \in Requests : ~Creating(p)
  BY OpenToAll DEF RemovePromoCode
<1>8. Shaped(h) /\ Writes(h, code) /\ Rereads(h, code, offered)
  BY <1>2, <1>5, <1>7 DEF Shaped, Writes, Rereads, Idle
<1>9. UNCHANGED <<order, hold, Rest>> /\ RightMoney' /\ hold \in Holds
  BY MoneyStays DEF RemovePromoCode, Rest, Inv, Types
<1>10. QED
  BY <1>4, <1>5, <1>6, <1>7, <1>8, <1>9, HandlerMoves

LEMMA ReleaseStep ==
  ASSUME Inv, NEW q \in Requests, Release(q)
  PROVE  Inv'
<1> DEFINE h == [request[q] EXCEPT !.at = "price"]
<1>1. request[q].at = "release" /\ request[q].doing = "credits" /\ Prices(request[q])
  BY HandlerFields DEF Release, Shaped
<1>2. /\ h \in Handlers /\ h.at = "price" /\ h.doing = "credits" /\ h.row = request[q].row
      /\ h.args = request[q].args
  BY <1>1, HandlerFields DEF Handlers, Points
<1>3. request' = [request EXCEPT ![q] = h]
  BY HandlerFields DEF Release, Go, Inv, Types
<1> HIDE DEF h
<1>4. order.placed /\ \A p \in Requests : ~Creating(p)
  BY <1>1, NobodyCreates DEF Idle
<1>5. /\ Fits(h.row, offered, hold) /\ Writes(h, code) /\ Rereads(h, code, offered)
      /\ Shaped(h)
  BY <1>1, <1>2, HandlerFields DEF Shaped, Prices, Writes, Rereads, Idle
<1>6. hold \in Holds /\ Wallet \in Nat
  BY Assumed DEF Inv, Types
<1>7. hold' \in Holds /\ (hold' = hold \/ hold'.status = "RELEASED") /\ hold'.amount = hold.amount
  BY <1>6 DEF Release, Holds
<1>8. RightMoney'
  <2>1. CASE hold' = hold
    BY <2>1, MoneyStays DEF Release, Rest
  <2>2. CASE hold.status = "ACTIVE" /\ hold'.status = "RELEASED"
    <3>1. paid' = paid
      BY DEF Release, Rest
    <3>2. hold.amount \in Nat /\ paid.captured \in Nat
      BY <1>6 DEF Inv, Types, Holds, Payments
    <3>3. Balance' = Balance /\ Balance \in Int
      BY <1>6, <2>2, <3>1, <3>2 DEF Balance
    <3>4. Available' >= 0
      BY <2>2, <3>2, <3>3, AvailableIsNat DEF Available
    <3>5. QED
      BY <2>2, <3>1, <3>4 DEF Inv, RightMoney, NeverPaysMore
  <2>3. QED
    BY <2>1, <2>2 DEF Release
<1>9. order' = order /\ UNCHANGED Rest
  BY DEF Release
<1>10. QED
  BY <1>2, <1>3, <1>4, <1>5, <1>7, <1>8, <1>9, HandlerMoves

\* Pricing the row: what the row becomes, whoever asks.
LEMMA PricedRow ==
  ASSUME Inv, NEW q \in Requests, request[q].at = "price", NEW new,
         new = Priced(request[q].doing, request[q].row, request[q].args.kind,
                      Quote(request[q].row.subtotal, request[q].args.code,
                            request[q].args.kind, request[q].args.want))
  PROVE  /\ new \in Row /\ new.placed /\ Fits(new, offered, hold)
         /\ request[q].doing \in {"create", "reward", "credits"}
         /\ request[q].doing = "create" => ~new.res
<1> DEFINE h == request[q]
           row == h.row
           quote == Quote(row.subtotal, h.args.code, h.args.kind, h.args.want)
<1>1. /\ row \in Row /\ row.subtotal \in Nat /\ h.args.code \in BOOLEAN
      /\ h.args.kind \in Rewards /\ h.args.want \in Nat
      /\ Fits(row, offered, hold) /\ Prices(h) /\ RightRow(row)
  BY HandlerFields DEF Arguments, Shaped, Fits, Row
<1>2. /\ QuoteAdds(quote, row.subtotal, h.args.kind, h.args.want)
      /\ quote.percent \in offered \cup {NoPercent}
  BY <1>1, QuoteIsRight
<1> HIDE DEF quote
<1>3. CASE h.doing = "create"
  <2>1. row = [NoOrder EXCEPT !.subtotal = row.subtotal]
    BY <1>1, <1>3 DEF Prices
  <2>2. new \in Row /\ RightRow(new)
    BY <1>1, <1>2, <1>3, <2>1, CreatedRowIsRight DEF quote
  <2>3. ~row.res
    BY <2>1 DEF NoOrder
  <2>4. new.percent = quote.percent /\ new.res = row.res /\ new.placed = TRUE
    BY <1>1, <1>3 DEF Priced, Row, quote
  <2>5. Fits(new, offered, hold)
    BY <1>2, <2>2, <2>3, <2>4 DEF Fits, Offered, Backed
  <2>6. QED
    BY <1>3, <2>2, <2>3, <2>4, <2>5
<1>4. CASE h.doing = "reward"
  <2>1. h.args.want = row.applied /\ row.placed
    BY <1>1, <1>4 DEF Prices
  <2>2. new \in Row /\ RightRow(new)
    BY <1>1, <1>2, <1>4, <2>1, RewardedRowIsRight DEF quote
  <2>3. /\ new.percent = row.percent /\ new.res = row.res /\ new.placed = row.placed
        /\ new.applied = row.applied /\ new.slipped = row.slipped
    BY <1>1, <1>4 DEF Priced, Row, quote
  <2>4. Fits(new, offered, hold)
    BY <1>1, <2>2, <2>3 DEF Fits, Offered, Backed
  <2>5. QED
    BY <1>4, <2>1, <2>2, <2>3, <2>4
<1>5. CASE h.doing = "credits"
  <2>1. h.args.kind = row.kind /\ row.placed
    BY <1>1, <1>5 DEF Prices
  <2>2. new \in Row /\ RightRow(new)
    BY <1>1, <1>2, <1>5, <2>1, CreditedRowIsRight DEF quote
  <2>3. /\ new.percent = row.percent /\ new.res = FALSE /\ new.placed = row.placed
        /\ new.slipped = row.slipped
    BY <1>1, <1>5 DEF Priced, Row, quote
  <2>4. Fits(new, offered, hold)
    BY <1>1, <2>2, <2>3 DEF Fits, Offered, Backed
  <2>5. QED
    BY <1>5, <2>1, <2>2, <2>3, <2>4
<1>6. QED
  BY <1>1, <1>3, <1>4, <1>5 DEF Prices

LEMMA PriceStep ==
  ASSUME Inv, NEW q \in Requests, Price(q), request[q].doing # "create"
  PROVE  Inv'
<1> DEFINE row == Priced(request[q].doing, request[q].row, request[q].args.kind,
                         Quote(request[q].row.subtotal, request[q].args.code,
                               request[q].args.kind, request[q].args.want))
           h == [request[q] EXCEPT !.at = "save", !.row = row]
<1>1. request[q].at = "price"
  BY DEF Price
<1>2. /\ row \in Row /\ row.placed /\ Fits(row, offered, hold)
      /\ request[q].doing \in {"reward", "credits"}
  BY <1>1, PricedRow
<1>3. request' = [request EXCEPT ![q].at = "save", ![q].row = row]
  BY DEF Price
<1> HIDE DEF row
<1>4. h \in Handlers /\ h.at = "save" /\ h.doing = request[q].doing /\ h.row = row
  BY <1>2, HandlerFields DEF Handlers, Points
<1>5. request' = [request EXCEPT ![q] = h]
  BY <1>3, HandlerFields DEF Inv, Types, Handlers
<1> HIDE DEF h
<1>6. order.placed /\ \A p \in Requests : ~Creating(p)
  BY <1>1, NobodyCreates DEF Idle
<1>7. Shaped(h) /\ Writes(h, code) /\ Rereads(h, code, offered)
  BY <1>2, <1>4 DEF Shaped, Writes, Rereads, Idle
<1>8. UNCHANGED <<order, hold, Rest>> /\ RightMoney' /\ hold \in Holds
  BY MoneyStays DEF Price, Rest, Inv, Types
<1>9. QED
  BY <1>2, <1>4, <1>5, <1>6, <1>7, <1>8, HandlerMoves

\* A handler that ends without having changed anything, or after saving its row.
LEMMA FinishEnds ==
  ASSUME Inv, NEW q \in Requests, Finish(q), \A p \in Requests : ~Creating(p), order.placed,
         order' = order \/ (order' = request[q].row /\ request[q].row.placed),
         UNCHANGED <<hold, Rest>>
  PROVE  Inv'
<1>1. request' = [request EXCEPT ![q] = Ended]
  BY DEF Finish
<1>2. /\ Fits(Ended.row, offered, hold) /\ Writes(Ended, code) /\ Rereads(Ended, code, offered)
      /\ Ended.at \in Idle /\ Ended \in Handlers /\ Shaped(Ended)
  BY EndedIsRight, EmptyRow DEF Writes, Rereads, Idle
<1>3. RightMoney' /\ hold \in Holds /\ UNCHANGED Rest /\ hold' = hold
  BY MoneyStays DEF Rest, Inv, Types
<1>4. QED
  BY <1>1, <1>2, <1>3, HandlerMoves

LEMMA RereadStep ==
  ASSUME Inv, NEW q \in Requests, Reread(q)
  PROVE  Inv'
<1>1. /\ request[q].at = "reread" /\ request[q].doing = "promo" /\ code.exists
      /\ ~request[q].overtaken => code.percent \in offered
      /\ request[q].overtaken \in BOOLEAN
  BY HandlerFields DEF Reread, Shaped, Rereads
<1>2. order.placed /\ \A p \in Requests : ~Creating(p)
  BY <1>1, NobodyCreates DEF Idle
<1>3. CASE order.id /\ order.code
  <2>1. Finish(q) /\ UNCHANGED <<order, hold, Rest>>
    BY <1>3 DEF Reread
  <2>2. QED
    BY <1>2, <2>1, FinishEnds
<1>4. CASE ~(order.id /\ order.code)
  <2> DEFINE promo == PromoOf(order.subtotal, code.percent)
             total == AtLeast0(order.subtotal - promo)
             slipped == request[q].overtaken
             row == [order EXCEPT !.code = TRUE, !.id = TRUE, !.percent = code.percent,
                                  !.promo = promo, !.total = total, !.stale = TRUE,
                                  !.slipped = slipped]
             h == [request[q] EXCEPT !.at = "save", !.row = row]
  <2>1. /\ order \in Row /\ Fits(order, offered, hold) /\ order.subtotal \in Nat
        /\ code.percent \in Percents
    BY <1>1, RowFields DEF Inv, Types, RightRows, RightCode
  <2>2. promo \in 0..order.subtotal /\ code.percent \in Nat
    BY <2>1, PromoIsPart, PercentsAssumption
  <2>3. total \in Nat /\ total <= order.subtotal
    BY <2>1, <2>2 DEF AtLeast0
  <2>4. request' = [request EXCEPT ![q].at = "save", ![q].row = row]
    BY <1>4 DEF Reread, PromoOf, slipped
  <2>13. slipped \in BOOLEAN /\ (~slipped => code.percent \in offered)
    BY <1>1
  <2> HIDE DEF promo, total, slipped
  <2>5. /\ row \in Row /\ row.subtotal = order.subtotal /\ row.percent = code.percent
        /\ row.promo = promo /\ row.reward = order.reward /\ row.cashback = order.cashback
        /\ row.total = total /\ row.due = order.due /\ row.applied = order.applied
        /\ row.res = order.res /\ row.stale = TRUE /\ row.requoted = order.requoted
        /\ row.placed = order.placed /\ row.slipped = slipped
    <3>1. promo \in Nat /\ code.percent \in Nat /\ total \in Nat /\ slipped \in BOOLEAN
      BY <2>1, <2>2, <2>3, <2>13
    <3>2. row \in Row
      BY <2>1, <3>1 DEF Row
    <3>3. QED
      BY <2>1, <3>1, <3>2 DEF Row
  <2> HIDE DEF row
  <2>6. RightRow(row)
    BY <2>1, <2>2, <2>3, <2>5 DEF Fits, RightRow, WithinPrice, Summed, promo
  <2>7. Fits(row, offered, hold)
    BY <2>1, <2>5, <2>6, <2>13 DEF Fits, Offered, Backed
  <2>8. h \in Handlers /\ h.at = "save" /\ h.doing = "promo" /\ h.row = row
    BY <1>1, <2>5, HandlerFields DEF Handlers, Points
  <2>9. request' = [request EXCEPT ![q] = h]
    BY <2>4, HandlerFields DEF Inv, Types, Handlers, slipped
  <2> HIDE DEF h
  <2>10. Shaped(h) /\ Writes(h, code) /\ Rereads(h, code, offered)
    BY <1>2, <2>5, <2>8 DEF Shaped, Writes, Rereads, Idle
  <2>11. UNCHANGED <<order, hold, Rest>> /\ RightMoney' /\ hold \in Holds
    BY MoneyStays DEF Reread, Rest, Inv, Types
  <2>12. QED
    BY <1>2, <2>7, <2>8, <2>9, <2>10, <2>11, HandlerMoves
<1>5. QED
  BY <1>3, <1>4

LEMMA SaveStep ==
  ASSUME Inv, NEW q \in Requests, Save(q), request[q].doing # "create"
  PROVE  Inv'
<1>1. request[q].at = "save" /\ request[q].row.placed
  BY HandlerFields DEF Save, Shaped
<1>2. order.placed /\ \A p \in Requests : ~Creating(p)
  BY <1>1, NobodyCreates DEF Idle
<1>3. Finish(q) /\ order' = request[q].row /\ UNCHANGED <<hold, Rest>>
  BY DEF Save
<1>4. QED
  BY <1>1, <1>2, <1>3, FinishEnds

-----------------------------------------------------------------------------
(* Creating the order.                                                     *)

\* A step of the one handler that creates the order, while the others wait.
LEMMA CreatorMoves ==
  ASSUME Inv, NEW q \in Requests, NEW h \in Handlers, request' = [request EXCEPT ![q] = h],
         \A p \in Requests \ {q} : request[p].at \in Idle,
         UNCHANGED Rest, paid = NotPaid,
         Fits(h.row, offered, hold'), Writes(h, code), Rereads(h, code, offered), Shaped(h),
         order' \in Row, Fits(order', offered, hold'), hold' \in Holds,
         hold'.status # "CONVERTED", Available' >= 0,
         ~order'.placed => order' = NoOrder /\ hold' = NoHold,
         h.at \in Idle \/ h.doing = "create",
         (h.at \notin Idle /\ h.doing = "create") =>
              /\ ~h.row.res
              /\ h.at \in {"price", "save"} => ~order'.placed
              /\ h.at \in {"reserve", "note"} => order' = h.row
              /\ h.at # "note" => hold' = NoHold
              /\ h.at = "note" => hold' = [amount |-> h.row.applied, status |-> "ACTIVE"]
  PROVE  Inv'
<1>1. /\ request' \in [Requests -> Handlers] /\ request'[q] = h
      /\ \A p \in Requests \ {q} : request'[p] = request[p]
  BY Becomes
<1>2. UNCHANGED <<code, now, paid, offered, contended>>
  BY DEF Rest
<1>3. Types'
  BY <1>1, <1>2 DEF Inv, Types
<1>4. \A p \in Requests \ {q} : request'[p].row = NoOrder
  BY <1>1, HandlerFields DEF Shaped
<1>5. RightRows'
  BY <1>1, <1>2, <1>4, EmptyRow DEF RightRows, Inv
<1>6. RightCode'
  BY <1>1, <1>2, CodeStays
<1>7. \A p \in Requests : Shaped(request'[p])
  BY <1>1, HandlerFields
<1>8. ASSUME NEW p \in Requests
      PROVE  Alone(p)'
  <2>1. CASE p = q
    BY <1>1, <1>2, <2>1 DEF Alone, Creating
  <2>2. CASE p # q
    BY <1>1, <2>2 DEF Alone, Creating
  <2>3. QED
    BY <2>1, <2>2
<1>9. Ordered'
  BY <1>1, <1>2 DEF Ordered
<1>10. RightMoney'
  BY <1>2 DEF RightMoney, NeverPaysMore, NotPaid
<1>11. QED
  BY <1>3, <1>5, <1>6, <1>7, <1>8, <1>9, <1>10 DEF Inv, RightSteps

\* With nothing paid or reserved, the whole wallet is available.
LEMMA WalletIsAvailable ==
  ASSUME Inv, paid = NotPaid, hold = NoHold
  PROVE  Available = Wallet /\ Wallet \in Nat
  BY Assumed DEF Available, Balance, NotPaid, NoHold

LEMMA StartCreate ==
  ASSUME Inv, NEW q \in Requests, NEW subtotal \in Subtotals, NEW named \in BOOLEAN,
         NEW kind \in Rewards, NEW want \in Amounts,
         CreateOrder(q, subtotal, named, kind, want)
  PROVE  Inv'
<1>1. subtotal \in Nat /\ want \in Nat
  BY AmountsAreNat
<1> DEFINE args == [NoArgs EXCEPT !.kind = kind, !.want = want, !.code = named]
           row == [NoOrder EXCEPT !.subtotal = subtotal]
           h == Local("price", "create", row, args)
<1>2. args \in Arguments
  BY <1>1, NoArgsAreTyped DEF Arguments
<1> HIDE DEF args
<1>3. /\ row \in Row /\ Fits(row, offered, hold) /\ row.subtotal = subtotal
      /\ ~row.placed /\ ~row.res
  BY <1>1, EmptyRow DEF NoOrder
<1>4. h \in Handlers /\ h.at = "price" /\ h.doing = "create" /\ h.row = row /\ h.args = args
  BY <1>2, <1>3, NoArgsAreTyped DEF Local, Handlers, Points, Doing
<1>5. request' = [request EXCEPT ![q] = h]
  BY DEF CreateOrder, Start, args
<1>6. row = [NoOrder EXCEPT !.subtotal = row.subtotal]
  BY <1>3
<1> HIDE DEF h, row
<1>7. Shaped(h) /\ Writes(h, code) /\ Rereads(h, code, offered)
  BY <1>4, <1>6 DEF Shaped, Prices, Writes, Rereads, Idle
<1>8. /\ order = NoOrder /\ hold = NoHold /\ paid = NotPaid
      /\ \A p \in Requests : request[p].at \in Idle
  BY DEF CreateOrder, Inv, RightSteps, Ordered, InFlight, Idle
<1>9. UNCHANGED <<order, hold, Rest>> /\ ~order.placed
  BY DEF CreateOrder
<1>10. /\ order' \in Row /\ Fits(order', offered, hold') /\ hold' \in Holds
       /\ hold'.status # "CONVERTED" /\ Available' >= 0
  <2>1. /\ order \in Row /\ Fits(order, offered, hold) /\ hold \in Holds
        /\ hold.status # "CONVERTED" /\ RightMoney'
    BY <1>8, <1>9, MoneyStays DEF Inv, Types, RightRows, Rest, NoHold
  <2>2. QED
    BY <1>9, <2>1 DEF RightMoney
<1>11. QED
  BY <1>3, <1>4, <1>5, <1>7, <1>8, <1>9, <1>10, CreatorMoves

LEMMA CreatorIsAlone ==
  ASSUME Inv, NEW q \in Requests, request[q].doing = "create", request[q].at \notin Idle
  PROVE  /\ paid = NotPaid /\ ~request[q].row.res
         /\ \A p \in Requests \ {q} : request[p].at \in Idle
         /\ request[q].at \in {"price", "save"} => order = NoOrder
         /\ request[q].at \in {"reserve", "note"} => order = request[q].row
         /\ request[q].at # "note" => hold = NoHold
         /\ request[q].at = "note" =>
               hold = [amount |-> request[q].row.applied, status |-> "ACTIVE"]
         /\ order \in Row /\ hold \in Holds
         /\ Fits(order, offered, hold) /\ Fits(request[q].row, offered, hold)
<1>1. Creating(q)
  BY DEF Creating
<1>2. request[q].at \in {"price", "save"} => ~order.placed
  BY <1>1, HandlerFields DEF Alone
<1>3. QED
  BY <1>1, <1>2, HandlerFields DEF Alone, Inv, Types, RightRows, RightSteps, Ordered

LEMMA CreatorPrices ==
  ASSUME Inv, NEW q \in Requests, Price(q), request[q].doing = "create"
  PROVE  Inv'
<1> DEFINE row == Priced(request[q].doing, request[q].row, request[q].args.kind,
                         Quote(request[q].row.subtotal, request[q].args.code,
                               request[q].args.kind, request[q].args.want))
           h == [request[q] EXCEPT !.at = "save", !.row = row]
<1>1. request[q].at = "price"
  BY DEF Price
<1>2. row \in Row /\ row.placed /\ ~row.res /\ Fits(row, offered, hold)
  BY <1>1, PricedRow
<1>3. request' = [request EXCEPT ![q].at = "save", ![q].row = row]
  BY DEF Price
<1> HIDE DEF row
<1>4. h \in Handlers /\ h.at = "save" /\ h.doing = "create" /\ h.row = row
  BY <1>2, HandlerFields DEF Handlers, Points
<1>5. request' = [request EXCEPT ![q] = h]
  BY <1>3, HandlerFields DEF Inv, Types, Handlers
<1> HIDE DEF h
<1>6. /\ paid = NotPaid /\ hold = NoHold /\ order = NoOrder
      /\ order \in Row /\ hold \in Holds /\ Fits(order, offered, hold)
      /\ \A p \in Requests \ {q} : request[p].at \in Idle
  BY <1>1, CreatorIsAlone DEF Idle
<1>7. Shaped(h) /\ Writes(h, code) /\ Rereads(h, code, offered)
  BY <1>2, <1>4 DEF Shaped, Writes, Rereads, Idle
<1>8. UNCHANGED <<order, hold, Rest>> /\ RightMoney'
  BY MoneyStays DEF Price, Rest
<1>9. ~order.placed /\ hold.status # "CONVERTED" /\ Available' >= 0
  BY <1>6, <1>8 DEF NoOrder, NoHold, RightMoney
<1>10. QED
  BY <1>2, <1>4, <1>5, <1>6, <1>7, <1>8, <1>9, CreatorMoves DEF Idle

LEMMA CreatorSaves ==
  ASSUME Inv, NEW q \in Requests, Save(q), request[q].doing = "create"
  PROVE  Inv'
<1> DEFINE h == IF request[q].row.applied > 0 THEN [request[q] EXCEPT !.at = "reserve"]
                                              ELSE Ended
<1>1. request[q].at = "save" /\ request[q].row.placed /\ request[q].row \in Row
  BY HandlerFields DEF Save, Shaped
<1>2. /\ paid = NotPaid /\ hold = NoHold /\ hold \in Holds /\ ~request[q].row.res
      /\ Fits(request[q].row, offered, hold)
      /\ \A p \in Requests \ {q} : request[p].at \in Idle
  BY <1>1, CreatorIsAlone DEF Idle
<1>3. /\ h \in Handlers
      /\ \/ h.at = "done" /\ h.row = NoOrder
         \/ h.at = "reserve" /\ h.doing = "create" /\ h.row = request[q].row
  BY HandlerFields, EndedIsRight DEF Handlers, Points
<1>4. request' = [request EXCEPT ![q] = h]
  BY HandlerFields DEF Save, Go, Finish, Inv, Types
<1> HIDE DEF h
<1>5. /\ Shaped(h) /\ Writes(h, code) /\ Rereads(h, code, offered)
      /\ Fits(h.row, offered, hold)
  BY <1>1, <1>2, <1>3, EmptyRow DEF Shaped, Writes, Rereads, Idle
<1>6. order' = request[q].row /\ UNCHANGED <<hold, Rest>> /\ RightMoney'
  BY MoneyStays DEF Save, Rest
<1>7. hold.status # "CONVERTED" /\ Available' >= 0
  BY <1>2, <1>6 DEF NoHold, RightMoney
<1>8. QED
  BY <1>1, <1>2, <1>3, <1>4, <1>5, <1>6, <1>7, CreatorMoves DEF Idle

LEMMA ReserveStep ==
  ASSUME Inv, NEW q \in Requests, Reserve(q)
  PROVE  Inv'
<1>1. /\ request[q].at = "reserve" /\ request[q].doing = "create" /\ request[q].row.placed
      /\ request[q].row \in Row /\ request[q].row.applied \in Nat
  BY HandlerFields, RowFields DEF Reserve, Shaped
<1>2. /\ paid = NotPaid /\ hold = NoHold /\ hold \in Holds /\ ~request[q].row.res
      /\ order = request[q].row /\ order \in Row
      /\ Fits(order, offered, hold)
      /\ \A p \in Requests \ {q} : request[p].at \in Idle
  BY <1>1, CreatorIsAlone DEF Idle
<1>3. Available = Wallet /\ Wallet \in Nat
  BY <1>2, WalletIsAvailable
<1>4. UNCHANGED <<order, Rest>>
  BY DEF Reserve
<1>5. CASE /\ request[q].row.applied <= Available
           /\ hold' = [amount |-> request[q].row.applied, status |-> "ACTIVE"]
           /\ Go(q, "note")
  <2> DEFINE h == [request[q] EXCEPT !.at = "note"]
  <2>1. h \in Handlers /\ h.at = "note" /\ h.doing = "create" /\ h.row = request[q].row
    BY <1>1, HandlerFields DEF Handlers, Points
  <2>2. request' = [request EXCEPT ![q] = h]
    BY <1>5, HandlerFields DEF Go, Inv, Types
  <2> HIDE DEF h
  <2>3. Fits(h.row, offered, hold')
    BY <1>2, <2>1 DEF Fits, Backed
  <2>4. Shaped(h) /\ Writes(h, code) /\ Rereads(h, code, offered)
    BY <1>1, <2>1 DEF Shaped, Writes, Rereads, Idle
  <2>5. hold' \in Holds /\ hold'.status = "ACTIVE" /\ hold'.amount = request[q].row.applied
    BY <1>1, <1>3, <1>5 DEF Holds
  <2>6. Available' >= 0
    <3>1. paid' = NotPaid
      BY <1>2, <1>4 DEF Rest
    <3>2. Balance' = Wallet
      BY <1>3, <2>5, <3>1 DEF Balance, NotPaid
    <3>3. QED
      BY <1>1, <1>3, <1>5, <2>5, <3>2 DEF Available
  <2>7. QED
    BY <1>1, <1>2, <1>4, <1>5, <2>1, <2>2, <2>3, <2>4, <2>5, <2>6, CreatorMoves DEF Idle
<1>6. CASE Finish(q) /\ UNCHANGED hold
  <2>1. \A p \in Requests : p # q => ~Creating(p)
    BY <1>2 DEF Creating
  <2>2. request' = [request EXCEPT ![q] = Ended]
    BY <1>6 DEF Finish
  <2>3. /\ Fits(Ended.row, offered, hold) /\ Writes(Ended, code)
        /\ Rereads(Ended, code, offered) /\ Shaped(Ended) /\ Ended.at \in Idle
        /\ Ended \in Handlers
    BY EndedIsRight, EmptyRow DEF Writes, Rereads, Idle
  <2>4. RightMoney'
    BY <1>4, <1>6, MoneyStays DEF Rest
  <2>5. hold.status # "CONVERTED" /\ Available' >= 0
    BY <1>2, <2>4 DEF NoHold, RightMoney
  <2>6. QED
    BY <1>1, <1>2, <1>4, <1>6, <2>2, <2>3, <2>5, CreatorMoves
<1>7. QED
  BY <1>5, <1>6 DEF Reserve

LEMMA NoteStep ==
  ASSUME Inv, NEW q \in Requests, Note(q)
  PROVE  Inv'
<1>1. request[q].at = "note" /\ request[q].doing = "create" /\ request[q].row.placed
  BY HandlerFields DEF Note, Shaped
<1>2. /\ paid = NotPaid /\ hold \in Holds
      /\ hold.status = "ACTIVE" /\ hold.amount = order.applied
      /\ order = request[q].row /\ order \in Row /\ Fits(order, offered, hold)
      /\ \A p \in Requests \ {q} : request[p].at \in Idle
  BY <1>1, CreatorIsAlone DEF Idle
<1>3. request' = [request EXCEPT ![q] = Ended] /\ UNCHANGED <<hold, Rest>>
  BY DEF Note, Finish
<1>4. /\ Fits(Ended.row, offered, hold) /\ Writes(Ended, code)
      /\ Rereads(Ended, code, offered) /\ Shaped(Ended) /\ Ended.at \in Idle
      /\ Ended \in Handlers
  BY EndedIsRight, EmptyRow DEF Writes, Rereads, Idle
<1>5. order' \in Row /\ order'.placed /\ Fits(order', offered, hold)
  <2>1. CASE order' = order
    BY <1>1, <1>2, <2>1
  <2>2. CASE order' = [order EXCEPT !.res = TRUE]
    <3>1. /\ order' \in Row /\ order'.placed = order.placed
          /\ order'.subtotal = order.subtotal /\ order'.percent = order.percent
          /\ order'.promo = order.promo /\ order'.kind = order.kind
          /\ order'.reward = order.reward /\ order'.cashback = order.cashback
          /\ order'.total = order.total /\ order'.due = order.due
          /\ order'.applied = order.applied /\ order'.mixed = order.mixed
          /\ order'.stale = order.stale /\ order'.requoted = order.requoted
          /\ order'.slipped = order.slipped
      BY <1>2, <2>2 DEF Row
    <3>2. RightRow(order')
      BY <1>2, <3>1 DEF Fits, RightRow, WithinPrice, Summed
    <3>3. Offered(order', offered) /\ Backed(order', hold)
      BY <1>2, <3>1 DEF Fits, Offered, Backed
    <3>4. QED
      BY <1>1, <1>2, <3>1, <3>2, <3>3 DEF Fits
  <2>3. QED
    BY <2>1, <2>2 DEF Note
<1>6. RightMoney'
  BY <1>3, MoneyStays DEF Rest
<1>7. hold.status # "CONVERTED" /\ Available' >= 0
  BY <1>2, <1>6 DEF RightMoney
<1>8. QED
  BY <1>2, <1>3, <1>4, <1>5, <1>7, CreatorMoves

-----------------------------------------------------------------------------
(* Paying.                                                                 *)

LEMMA PayKeepsInv ==
  ASSUME Inv, Open, NEW by \in {"card", "credits"}, NEW charged \in Nat, NEW captured \in Nat,
         Pay(by, charged, captured), hold' \in Holds,
         hold' = hold \/ hold'.status = "CONVERTED",
         by = "card" => charged = order.due,
         charged + captured <= order.subtotal \/ order.requoted,
         Available' >= 0
  PROVE  Inv'
<1>1. /\ order.placed /\ paid = NotPaid /\ hold.status # "CONVERTED"
      /\ \A p \in Requests : ~Creating(p)
  BY OpenToAll
<1>2. order \in Row /\ RightRow(order)
  BY DEF Inv, Types, RightRows, Fits
<1>3. /\ paid' \in Payments /\ paid'.by = by /\ paid'.charged = charged
      /\ paid'.captured = captured /\ paid'.row = order
  BY <1>2 DEF Pay, Payments
<1>4. UNCHANGED <<code, now, order, request, offered, contended>>
  BY DEF Pay
<1>5. Types'
  BY <1>3, <1>4 DEF Inv, Types
<1>6. RightRows'
  BY <1>3, <1>4, RowsStay
<1>7. RightCode'
  BY <1>4, CodeStays
<1>8. Ordered' /\ \A p \in Requests : Shaped(request'[p]) /\ ~Creating(p)'
  BY <1>1, <1>4, HandlerFields DEF Ordered, Creating
<1>9. RightSteps'
  BY <1>8 DEF RightSteps, Alone
<1>10. RightMoney'
  BY <1>1, <1>3, <1>4 DEF RightMoney, NeverPaysMore
<1>11. QED
  BY <1>5, <1>6, <1>7, <1>9, <1>10 DEF Inv

\* Before anything is paid, and after the reservation was converted, the wallet is
\* what the reservation leaves.
LEMMA OpenWallet ==
  ASSUME Inv, Open
  PROVE  /\ Wallet \in Nat /\ hold \in Holds /\ hold.amount \in Nat /\ Available \in Nat
         /\ Available = IF hold.status = "ACTIVE" THEN Wallet - hold.amount ELSE Wallet
         /\ order \in Row /\ RightRow(order) /\ Backed(order, hold)
<1>1. paid = NotPaid /\ hold.status # "CONVERTED"
  BY OpenToAll
<1>2. /\ Wallet \in Nat /\ hold \in Holds /\ hold.amount \in Nat
      /\ order \in Row /\ RightRow(order) /\ Backed(order, hold)
  BY Assumed DEF Inv, Types, Holds, RightRows, Fits
<1>3. Balance = Wallet
  BY <1>1, <1>2 DEF Balance, NotPaid
<1>4. QED
  BY <1>2, <1>3, AvailableIsNat DEF Available

LEMMA ConvertedWallet ==
  ASSUME Inv, Open, hold.status = "ACTIVE", hold' = [hold EXCEPT !.status = "CONVERTED"],
         paid'.by = "card" \/ paid'.row.res
  PROVE  /\ hold' \in Holds /\ hold'.status = "CONVERTED" /\ hold'.amount = hold.amount
         /\ Available' >= 0
<1>1. hold' \in Holds /\ hold'.status = "CONVERTED" /\ hold'.amount = hold.amount
  BY OpenWallet DEF Holds
<1>2. Balance' = Wallet - hold.amount
  BY <1>1, OpenWallet DEF Balance
<1>3. QED
  BY <1>1, <1>2, OpenWallet DEF Available

LEMMA CardStep ==
  ASSUME Inv, PayByCard
  PROVE  Inv'
<1> DEFINE active == order.res /\ hold.status = "ACTIVE"
           captured == IF active THEN hold.amount ELSE 0
<1>1. Open /\ Pay("card", order.due, captured)
      /\ hold' = IF active THEN [hold EXCEPT !.status = "CONVERTED"] ELSE hold
  BY DEF PayByCard, Charged
<1>2. order.due \in Nat /\ order.applied \in Nat /\ order.subtotal \in Nat
  BY <1>1, OpenWallet, RowFields
<1>3. order.due <= order.subtotal
  BY <1>1, OpenWallet DEF RightRow, WithinPrice
<1>4. paid'.by = "card" /\ paid'.row = order
  BY <1>1 DEF Pay
<1>5. CASE active
  <2>1. captured = hold.amount /\ order.applied = hold.amount /\ captured \in Nat
    BY <1>1, <1>5, OpenWallet DEF Backed
  <2>2. order.due + captured <= order.subtotal \/ order.requoted
    BY <1>1, <2>1, OpenWallet DEF RightRow, WithinPrice
  <2>3. hold' \in Holds /\ hold'.status = "CONVERTED" /\ Available' >= 0
    BY <1>1, <1>4, <1>5, ConvertedWallet
  <2>4. QED
    BY <1>1, <1>2, <2>1, <2>2, <2>3, PayKeepsInv
<1>6. CASE ~active
  <2>1. captured = 0 /\ hold' = hold
    BY <1>1, <1>6
  <2>2. Available' = Available
    <3>1. paid.by = "nobody"
      BY <1>1 DEF Open
    <3>2. Balance' = Balance
      BY <1>4, <2>1, <3>1 DEF Balance
    <3>3. QED
      BY <2>1, <3>2 DEF Available
  <2>3. hold \in Holds /\ Available' >= 0 /\ order.due + 0 <= order.subtotal
    BY <1>1, <1>2, <1>3, <2>2, OpenWallet
  <2>4. QED
    BY <1>1, <1>2, <2>1, <2>3, PayKeepsInv
<1>7. QED
  BY <1>5, <1>6

LEMMA CreditsStep ==
  ASSUME Inv, CompleteWithCredits
  PROVE  Inv'
<1>1. Open
  BY DEF CompleteWithCredits
<1>2. GrandTotal(order) \in Nat /\ GrandTotal(order) <= order.subtotal
  <2>1. order.subtotal \in Nat /\ order.promo \in Nat /\ order.reward \in Nat
    BY <1>1, OpenWallet, RowFields
  <2>2. QED
    BY <2>1 DEF GrandTotal, AtLeast0
<1>3. order.applied \in Nat /\ order.applied <= order.subtotal
  BY <1>1, OpenWallet, RowFields DEF RightRow, WithinPrice
<1>4. CASE /\ order.res /\ hold.status = "ACTIVE"
           /\ Pay("credits", 0, hold.amount)
           /\ hold' = [hold EXCEPT !.status = "CONVERTED"]
  <2>1. hold.amount = order.applied
    BY <1>1, <1>4, OpenWallet DEF Backed
  <2>2. paid'.row = order
    BY <1>4 DEF Pay
  <2>3. hold' \in Holds /\ hold'.status = "CONVERTED" /\ Available' >= 0
    BY <1>1, <1>4, <2>2, ConvertedWallet
  <2>4. QED
    BY <1>1, <1>3, <1>4, <2>1, <2>3, PayKeepsInv
<1>5. CASE /\ ~order.res
           /\ GrandTotal(order) <= Available
           /\ Pay("credits", 0, GrandTotal(order))
           /\ UNCHANGED hold
  <2>1. paid'.by = "credits" /\ paid'.row = order /\ paid'.captured = GrandTotal(order)
    BY <1>5 DEF Pay
  <2>2. paid = NotPaid /\ hold.status # "CONVERTED"
    BY <1>1, OpenToAll
  <2>3. Balance' = Wallet - GrandTotal(order)
    BY <1>1, <1>2, <1>5, <2>1, <2>2, OpenWallet DEF Balance
  <2>4. Available' >= 0
    BY <1>1, <1>2, <1>5, <2>3, OpenWallet DEF Available
  <2>5. hold' \in Holds /\ hold' = hold
    BY <1>1, <1>5, OpenWallet
  <2>6. QED
    BY <1>1, <1>2, <1>5, <2>4, <2>5, PayKeepsInv
<1>6. QED
  BY <1>4, <1>5 DEF CompleteWithCredits

-----------------------------------------------------------------------------
(* The administration of the code, and the clock.                          *)

\* A step of a handler of the code: nothing of the order, of the wallet or of what a
\* handler of the order knows is touched.
LEMMA CodeMoves ==
  ASSUME Inv, UNCHANGED <<order, hold, paid>>, Types', offered \subseteq offered', RightCode',
         \A p \in Requests :
            /\ Shaped(request'[p])
            /\ \/ request[p].at \in Idle /\ request'[p].at \in Idle
               \/ /\ request'[p].at = request[p].at /\ request'[p].doing = request[p].doing
                  /\ request'[p].row = request[p].row
  PROVE  Inv'
<1>1. \A p \in Requests : request'[p].row = request[p].row
  BY HandlerFields DEF Shaped
<1>2. RightRows'
  BY <1>1, RowsStay
<1>3. Ordered'
  BY DEF Inv, RightSteps, Ordered
<1>4. ASSUME NEW p \in Requests
      PROVE  Alone(p)'
  BY <1>1, HandlerFields DEF Alone, Creating
<1>5. RightMoney'
  BY MoneyStays
<1>6. QED
  BY <1>2, <1>3, <1>4, <1>5 DEF Inv, RightSteps

LEMMA CodeStarts ==
  ASSUME Inv, NEW q \in Requests, NEW h \in Handlers, Start(q, h),
         h.at = "write", h.row = NoOrder, Writes(h, code),
         UNCHANGED <<code, now, order, hold, paid, offered, contended>>
  PROVE  Inv'
<1>1. request' = [request EXCEPT ![q] = h] /\ request[q].at = "new"
  BY DEF Start
<1>2. /\ request' \in [Requests -> Handlers] /\ request'[q] = h
      /\ \A p \in Requests \ {q} : request'[p] = request[p]
  BY <1>1, Becomes
<1>3. Shaped(h) /\ Rereads(h, code, offered)
  BY DEF Shaped, Rereads, Idle
<1>4. Types'
  BY <1>2 DEF Inv, Types
<1>5. RightCode'
  BY <1>2, <1>3, CodeStays
<1>6. \A p \in Requests :
         /\ Shaped(request'[p])
         /\ \/ request[p].at \in Idle /\ request'[p].at \in Idle
            \/ /\ request'[p].at = request[p].at /\ request'[p].doing = request[p].doing
               /\ request'[p].row = request[p].row
  BY <1>1, <1>2, <1>3, HandlerFields DEF Idle
<1>7. QED
  BY <1>4, <1>5, <1>6, CodeMoves

LEMMA StartNewCode ==
  ASSUME Inv, NEW q \in Requests, NEW percent \in Percents, NEW start \in Starts,
         NEW end \in Ends, CreateCode(q, percent, start, end)
  PROVE  Inv'
<1> DEFINE copy == [exists |-> TRUE, active |-> TRUE, percent |-> percent,
                    start |-> start, end |-> end]
           h == [Local("write", "newCode", NoOrder, NoArgs) EXCEPT !.copy = copy]
<1>1. copy \in Codes /\ copy.exists /\ copy.percent \in Percents /\ copy.start < copy.end
  BY DEF CreateCode, Codes
<1> HIDE DEF copy
<1>2. Local("write", "newCode", NoOrder, NoArgs) \in Handlers
  BY EmptyRow, NoArgsAreTyped DEF Local, Handlers, Points, Doing
<1>3. /\ h \in Handlers /\ h.at = "write" /\ h.doing = "newCode" /\ h.row = NoOrder
      /\ h.copy = copy
  BY <1>1, <1>2 DEF Local, Handlers
<1>4. Start(q, h) /\ UNCHANGED <<code, now, order, hold, paid, offered, contended>>
  BY DEF CreateCode, copy
<1> HIDE DEF h
<1>5. Writes(h, code)
  BY <1>1, <1>3 DEF Writes
<1>6. QED
  BY <1>3, <1>4, <1>5, CodeStarts

LEMMA FieldValues ==
  ASSUME NEW field, NEW value, <<field, value>> \in Fields
  PROVE  /\ field \in {"active", "percent", "start", "end"} /\ value \in Nat
         /\ field = "percent" => value \in Percents
         /\ field = "start" => value \in Starts
         /\ field = "end" => value \in Ends
<1>1. \/ field = "active" /\ value \in {0, 1}
      \/ field = "percent" /\ value \in Percents
      \/ field = "start" /\ value \in Starts
      \/ field = "end" /\ value \in Ends
  BY DEF Fields
<1>2. \A p \in Percents : p \in Nat
  BY PercentsAssumption
<1>3. \A t \in Starts \cup Ends : t \in Nat
  BY Assumed
<1>4. QED
  BY <1>1, <1>2, <1>3

LEMMA StartUpdate ==
  ASSUME Inv, NEW q \in Requests, NEW field, NEW value, <<field, value>> \in Fields,
         UpdateCode(q, field, value)
  PROVE  Inv'
<1> DEFINE args == [NoArgs EXCEPT !.field = field, !.value = value]
           h == [Local("write", "update", NoOrder, args) EXCEPT !.copy = code]
<1>1. args \in Arguments /\ args.field = field /\ args.value = value
  BY FieldValues, NoArgsAreTyped DEF Arguments
<1> HIDE DEF args
<1>2. code \in Codes /\ code.exists /\ code.percent \in Percents /\ WindowOk(code, field, value)
  BY DEF UpdateCode, Inv, Types, RightCode
<1>3. Local("write", "update", NoOrder, args) \in Handlers
  BY <1>1, EmptyRow, NoArgsAreTyped DEF Local, Handlers, Points, Doing
<1>4. /\ h \in Handlers /\ h.at = "write" /\ h.doing = "update" /\ h.row = NoOrder
      /\ h.copy = code /\ h.args = args
  BY <1>2, <1>3 DEF Local, Handlers
<1>5. Start(q, h) /\ UNCHANGED <<code, now, order, hold, paid, offered, contended>>
  BY DEF UpdateCode, args
<1> HIDE DEF h
<1>6. Writes(h, code)
  BY <1>1, <1>2, <1>4 DEF Writes
<1>7. QED
  BY <1>4, <1>5, <1>6, CodeStarts

\* The saved row: the window of an update that nobody overtook is in order.
LEMMA UpdatedIsRight ==
  ASSUME Inv, code.exists, NEW copy \in Codes, copy.exists, copy.percent \in Percents,
         NEW field, NEW value, <<field, value>> \in Fields
  PROVE  LET new == Updated(copy, field, value)
         IN  /\ new \in Codes /\ new.exists /\ new.percent \in Percents
             /\ (copy = code /\ WindowOk(copy, field, value) /\ ~contended) =>
                   new.start < new.end
             /\ (new.active /\ ~copy.active) => field = "active" /\ value = 1
<1> DEFINE new == Updated(copy, field, value)
           active == IF field = "active" THEN value = 1 ELSE copy.active
           percent == IF field = "percent" THEN value ELSE copy.percent
           start == IF field = "start" THEN value ELSE code.start
           end == IF field = "end" THEN value ELSE code.end
<1>1. code \in Codes
  BY DEF Inv, Types
<1>2. /\ active \in BOOLEAN /\ percent \in Percents
      /\ start \in Starts \cup {0} /\ end \in Ends \cup {0}
  BY <1>1, FieldValues DEF Codes
<1>3. new = [copy EXCEPT !.active = active, !.percent = percent, !.start = start, !.end = end]
  BY DEF Updated, Codes
<1>4. (active /\ ~copy.active) => field = "active" /\ value = 1
  OBVIOUS
<1>5. (copy = code /\ WindowOk(copy, field, value) /\ ~contended) => start < end
  <2>1. ~contended => code.start < code.end
    BY DEF Inv, RightCode, WindowIsOrdered
  <2>2. QED
    BY <2>1 DEF WindowOk
<1> HIDE DEF new, active, percent, start, end
<1>6. /\ new \in Codes /\ new.exists /\ new.active = active /\ new.percent = percent
      /\ new.start = start /\ new.end = end
  BY <1>2, <1>3 DEF Codes
<1>7. QED
  BY <1>2, <1>4, <1>5, <1>6 DEF new

\* What is on offer of a code that exists is one of the percentages, and a code that
\* is valid is on offer.
LEMMA OfferingIsRight ==
  ASSUME NEW c \in Codes, NEW time \in Nat, c.exists => c.percent \in Percents
  PROVE  /\ Offering(c, time) \subseteq Percents
         /\ (c.exists /\ c.active /\ c.start <= time /\ time <= c.end) =>
               c.percent \in Offering(c, time)
<1>1. c.start \in Nat /\ c.end \in Nat
  BY Assumed DEF Codes
<1>2. (c.start <= time /\ time <= c.end) => time \in c.start..c.end
  BY <1>1
<1>3. QED
  BY <1>2 DEF Offering

LEMMA WriteStep ==
  ASSUME Inv, NEW q \in Requests, WriteCode(q)
  PROVE  Inv'
<1> DEFINE h == request[q]
           late == {p \in Requests \ {q} : request[p].at \in {"write", "reread"}}
<1>1. /\ h.at = "write" /\ h \in Handlers /\ h.copy \in Codes /\ h.overtaken \in BOOLEAN
      /\ Writes(h, code)
      /\ h.doing \in {"newCode", "update"} /\ h.copy.exists /\ h.copy.percent \in Percents
  BY HandlerFields DEF WriteCode, Writes
<1>2. request' \in [Requests -> Handlers] /\ request'[q] = Ended
  <2>1. \A p \in Requests : [request[p] EXCEPT !.overtaken = TRUE] \in Handlers
    BY HandlerFields DEF Handlers
  <2>2. QED
    BY <2>1, HandlerFields, EndedIsRight DEF WriteCode
<1>3. \A p \in late :
         /\ request'[p].at = request[p].at /\ request'[p].doing = request[p].doing
         /\ request'[p].row = request[p].row /\ request'[p].copy = request[p].copy
         /\ request'[p].args = request[p].args /\ request'[p].overtaken = TRUE
  <2> SUFFICES ASSUME NEW p \in late
               PROVE  /\ request'[p] = [request[p] EXCEPT !.overtaken = TRUE]
                      /\ request[p] \in Handlers
    BY DEF Handlers
  <2> QED
    BY HandlerFields DEF WriteCode
<1>4. \A p \in Requests \ {q} : p \notin late => request'[p] = request[p]
  BY DEF WriteCode
<1>5. /\ code' \in Codes /\ code'.percent \in Percents /\ code'.exists
      /\ code'.start < code'.end \/ contended \/ h.overtaken
  <2>1. CASE h.doing = "newCode" /\ code.exists
    <3>1. code' = code
      BY <2>1 DEF WriteCode
    <3>2. QED
      BY <2>1, <3>1 DEF Inv, Types, RightCode, WindowIsOrdered
  <2>2. CASE h.doing = "newCode" /\ ~code.exists
    <3>1. code' = h.copy
      BY <2>2 DEF WriteCode
    <3>2. QED
      BY <1>1, <2>2, <3>1 DEF Writes
  <2>3. CASE h.doing = "update"
    <3>1. /\ code.exists /\ <<h.args.field, h.args.value>> \in Fields
          /\ WindowOk(h.copy, h.args.field, h.args.value) /\ (~h.overtaken => h.copy = code)
      BY <1>1, <2>3 DEF Writes
    <3>2. code' = Updated(h.copy, h.args.field, h.args.value)
      BY <2>3 DEF WriteCode
    <3>3. QED
      BY <1>1, <3>1, <3>2, UpdatedIsRight
  <2>4. QED
    BY <1>1, <2>1, <2>2, <2>3
<1>6. /\ UNCHANGED <<now, order, hold, paid>> /\ contended' = (contended \/ h.overtaken)
      /\ offered' = offered \cup Offering(code', now) /\ now \in Nat
  BY Assumed DEF WriteCode, Inv, Types
<1>7. Offering(code', now) \subseteq Percents /\ (Valid' => code'.percent \in offered')
  BY <1>5, <1>6, OfferingIsRight DEF Valid
<1>8. Types'
  <2>1. contended' \in BOOLEAN /\ offered' \subseteq Percents
    BY <1>6, <1>7 DEF Inv, Types
  <2>2. QED
    BY <1>2, <1>5, <1>6, <2>1 DEF Inv, Types
<1>9. RightCode'
  <2>1. ASSUME NEW p \in Requests
        PROVE  Writes(request'[p], code') /\ Rereads(request'[p], code', offered')
    <3>1. CASE p = q
      BY <1>2, <3>1, EndedIsRight DEF Writes, Rereads
    <3>2. CASE p \in late
      BY <1>3, <1>5, <3>2, HandlerFields DEF Writes, Rereads
    <3>3. CASE p # q /\ p \notin late
      BY <1>4, <3>3 DEF Writes, Rereads
    <3>4. QED
      BY <3>1, <3>2, <3>3
  <2>2. WindowIsOrdered'
    BY <1>5, <1>6 DEF WindowIsOrdered
  <2>3. QED
    BY <1>5, <1>7, <2>1, <2>2 DEF RightCode
<1>10. ASSUME NEW p \in Requests
       PROVE  /\ Shaped(request'[p])
              /\ \/ request[p].at \in Idle /\ request'[p].at \in Idle
                 \/ /\ request'[p].at = request[p].at /\ request'[p].doing = request[p].doing
                    /\ request'[p].row = request[p].row
  <2>1. CASE p = q
    BY <1>1, <1>2, <2>1, EndedIsRight DEF Idle
  <2>2. CASE p \in late
    BY <1>3, <2>2, HandlerFields DEF Shaped, Prices, Idle
  <2>3. CASE p # q /\ p \notin late
    BY <1>4, <2>3, HandlerFields
  <2>4. QED
    BY <2>1, <2>2, <2>3
<1>11. QED
  BY <1>6, <1>8, <1>9, <1>10, CodeMoves

LEMMA TickStep ==
  ASSUME Inv, Tick
  PROVE  Inv'
<1>1. /\ now \in Nat /\ now' = now + 1 /\ now' \in 0..MaxTime /\ code \in Codes
      /\ UNCHANGED <<code, order, hold, paid, request, contended>>
      /\ offered' = offered \cup Offering(code, now')
  BY Assumed DEF Tick, Inv, Types
<1>2. code.exists => code.percent \in Percents
  BY DEF Inv, RightCode
<1>3. Offering(code, now') \subseteq Percents /\ (Valid' => code.percent \in offered')
  BY <1>1, <1>2, OfferingIsRight DEF Valid
<1>4. Types'
  BY <1>1, <1>3 DEF Inv, Types
<1>5. \A p \in Requests : Writes(request'[p], code') /\ Rereads(request'[p], code', offered')
  <2>1. offered \subseteq offered'
    BY <1>1
  <2>2. QED
    BY <1>1, <2>1, HandlerFields DEF Rereads
<1>6. RightCode'
  BY <1>1, <1>2, <1>3, <1>5 DEF RightCode, Inv, WindowIsOrdered
<1>7. \A p \in Requests : Shaped(request'[p]) /\ request'[p] = request[p]
  BY <1>1, HandlerFields
<1>8. QED
  BY <1>1, <1>4, <1>6, <1>7, CodeMoves

-----------------------------------------------------------------------------
(* The theorems.                                                           *)

LEMMA InitIsRight ==
  ASSUME Init
  PROVE  Inv
<1>1. code \in Codes /\ (code.exists => code.percent \in Percents /\ code.start < code.end)
  <2>1. CASE code = NoCode
    BY <2>1, NoArgsAreTyped DEF NoCode
  <2>2. CASE code # NoCode
    <3>1. PICK p \in Percents, e \in Ends \ {0} :
             code = [exists |-> TRUE, active |-> TRUE, percent |-> p, start |-> 0, end |-> e]
      BY <2>2 DEF Init
    <3>2. e \in Nat /\ 0 < e
      BY Assumed
    <3>3. QED
      BY <3>1, <3>2 DEF Codes
  <2>3. QED
    BY <2>1, <2>2
<1>2. /\ now = 0 /\ order = NoOrder /\ hold = NoHold /\ paid = NotPaid /\ contended = FALSE
      /\ offered = IF code.exists THEN {code.percent} ELSE {}
      /\ request \in [Requests -> Handlers]
      /\ \A q \in Requests : request[q] = Unused
  BY EndedIsRight DEF Init
<1>3. Wallet \in Nat /\ 0 \in 0..MaxTime
  BY Assumed
<1>4. hold \in Holds /\ hold.status = "none" /\ hold.amount = 0
  BY <1>2, <1>3 DEF NoHold, Holds
<1>5. paid \in Payments /\ paid.by = "nobody" /\ paid.row = NoOrder
  BY <1>2, EmptyRow DEF NotPaid, Payments
<1>6. Types
  BY <1>1, <1>2, <1>3, <1>4, <1>5, EmptyRow DEF Types
<1>7. RightRows
  BY <1>2, <1>5, EmptyRow, EndedIsRight DEF RightRows, Fits
<1>8. RightCode
  <2>1. \A q \in Requests : Writes(request[q], code) /\ Rereads(request[q], code, offered)
    BY <1>2, EndedIsRight DEF Writes, Rereads
  <2>2. QED
    BY <1>1, <1>2, <2>1 DEF RightCode, WindowIsOrdered, Valid
<1>9. RightSteps
  <2>1. \A q \in Requests : request[q].at \in Idle /\ Shaped(request[q])
    BY <1>2, EndedIsRight DEF Idle
  <2>2. QED
    BY <1>2, <2>1 DEF RightSteps, Ordered, Alone, Creating
<1>10. RightMoney
  <2>1. Balance = Wallet
    BY <1>3, <1>4, <1>5 DEF Balance
  <2>2. Available >= 0
    BY <1>3, <1>4, <2>1 DEF Available
  <2>3. QED
    BY <1>2, <1>4, <1>5, <2>2 DEF RightMoney, NeverPaysMore
<1>11. QED
  BY <1>6, <1>7, <1>8, <1>9, <1>10 DEF Inv

LEMMA StepIsRight ==
  ASSUME Inv, [Next]_vars
  PROVE  Inv'
<1>1. CASE UNCHANGED vars
  <2>1. UNCHANGED <<code, now, order, hold, paid, request, offered, contended>>
    BY <1>1 DEF vars
  <2>2. RightRows' /\ RightCode' /\ RightMoney'
    BY <2>1, RowsStay, CodeStays, MoneyStays
  <2>3. RightSteps'
    BY <2>1 DEF Inv, RightSteps, Ordered, Alone, Creating
  <2>4. Types'
    BY <2>1 DEF Inv, Types
  <2>5. QED
    BY <2>2, <2>3, <2>4 DEF Inv
<1>2. ASSUME NEW q \in Requests, NEW p \in Percents, NEW s \in Starts, NEW e \in Ends,
             CreateCode(q, p, s, e)
      PROVE  Inv'
  BY <1>2, StartNewCode
<1>3. ASSUME NEW q \in Requests, NEW f \in Fields, UpdateCode(q, f[1], f[2])
      PROVE  Inv'
  <2>1. f = <<f[1], f[2]>>
    BY DEF Fields
  <2>2. QED
    BY <1>3, <2>1, StartUpdate
<1>4. ASSUME NEW q \in Requests, NEW n \in Subtotals, NEW named \in BOOLEAN,
             NEW k \in Rewards, NEW w \in Amounts, CreateOrder(q, n, named, k, w)
      PROVE  Inv'
  BY <1>4, StartCreate
<1>5. ASSUME NEW q \in Requests, NEW k \in Rewards, SetReward(q, k)
      PROVE  Inv'
  BY <1>5, StartReward
<1>6. ASSUME NEW q \in Requests, NEW w \in Amounts, ApplyCredits(q, w)
      PROVE  Inv'
  BY <1>6, StartCredits
<1>7. ASSUME NEW q \in Requests, ApplyPromoCode(q) \/ RemovePromoCode(q)
      PROVE  Inv'
  BY <1>7, StartPromo, StartRemoval
<1>8. ASSUME NEW q \in Requests,
             WriteCode(q) \/ Release(q) \/ Reread(q) \/ Reserve(q) \/ Note(q)
      PROVE  Inv'
  BY <1>8, WriteStep, ReleaseStep, RereadStep, ReserveStep, NoteStep
<1>9. ASSUME NEW q \in Requests, Price(q) \/ Save(q)
      PROVE  Inv'
  BY <1>9, PriceStep, CreatorPrices, SaveStep, CreatorSaves
<1>10. CASE Tick \/ PayByCard \/ CompleteWithCredits
  BY <1>10, TickStep, CardStep, CreditsStep
<1>11. QED
  BY <1>1, <1>2, <1>3, <1>4, <1>5, <1>6, <1>7, <1>8, <1>9, <1>10 DEF Next

LEMMA Invariant == Spec => []Inv
  BY InitIsRight, StepIsRight, PTL DEF Spec

LEMMA TypesHold ==
  ASSUME Inv
  PROVE  TypeOK
<1>1. \A n \in {order.promo, order.reward, order.cashback, order.total, order.due,
                order.applied} : n <= order.subtotal
  BY DEF Inv, RightRows, Fits, RightRow, WithinPrice
<1>2. \A q \in Requests :
         request[q].at \in Points /\ request[q].doing \in Doing /\ request[q].row \in Row
  BY HandlerFields
<1>3. paid.by \in {"nobody", "card", "credits"} /\ paid.row \in Row
  BY DEF Inv, Types, Payments
<1>4. QED
  BY <1>1, <1>2, <1>3 DEF Inv, Types, RightMoney, TypeOK, Codes, Holds

\* The columns of a row that come from one quote add up to the grand total.
LEMMA SumsAgree ==
  ASSUME NEW row \in Row, RightRow(row), row.placed, OneQuote(row)
  PROVE  row.total = GrandTotal(row) /\ row.due = row.total - row.applied
<1>1. row.subtotal \in Nat /\ row.promo \in Nat /\ row.promo <= row.subtotal
  BY RowFields DEF RightRow, WithinPrice
<1>2. /\ row.reward = RewardOf(row.kind, row.subtotal - row.promo)
      /\ row.total = row.subtotal - row.promo - row.reward
      /\ row.due = row.total - row.applied
  BY DEF RightRow, Summed, OneQuote
<1>3. PICK after \in Nat : after = row.subtotal - row.promo
  BY <1>1
<1>4. row.reward \in 0..after
  BY <1>2, <1>3, RewardIsPart
<1>5. GrandTotal(row) = row.total
  BY <1>1, <1>2, <1>3, <1>4 DEF GrandTotal, AtLeast0
<1>6. QED
  BY <1>2, <1>5

\* The tables and the handlers hold what the code puts there, no pricing column of the
\* order is negative or more than its price, and the wallet never promises credits it
\* does not have (calculatePricePreview in cart.service.ts, reserveCredits).
THEOREM TypesAreRight == Spec => []TypeOK
<1>1. Inv => TypeOK
  BY TypesHold
<1>2. QED
  BY <1>1, Invariant, PTL

\* The columns of one quote agree to the cent, whatever was rounded: the total that
\* completeWithCredits computes again from the discounts is the total of the order, and
\* the amount due by card is the total less the credits.
THEOREM ColumnsAgreeAlways == Spec => []ColumnsAgree
<1>1. Inv => ColumnsAgree
  BY SumsAgree DEF Inv, Types, RightRows, Fits, ColumnsAgree
<1>2. QED
  BY <1>1, Invariant, PTL

\* A card payment and the credits it converts come to the grand total exactly, when the
\* columns come from one quote and the credits were still reserved.
THEOREM ThePriceIsPaid == Spec => []PaidIsThePrice
<1>1. ASSUME Inv, paid.by = "card", OneQuote(paid.row), paid.captured = paid.row.applied
      PROVE  paid.charged + paid.captured = GrandTotal(paid.row)
  <2>1. /\ paid.charged = paid.row.due /\ paid.row.placed /\ paid.row \in Row
        /\ RightRow(paid.row)
    BY <1>1 DEF Inv, RightMoney, Types, Payments, RightRows
  <2>2. paid.row.total \in Nat /\ paid.row.applied \in Nat
    BY <2>1, RowFields
  <2>3. QED
    BY <1>1, <2>1, <2>2, SumsAgree
<1>2. Inv => PaidIsThePrice
  BY <1>1 DEF PaidIsThePrice
<1>3. QED
  BY <1>2, Invariant, PTL

\* Card and credits together never take more than the undiscounted price, unless a
\* reward was set on an order that uses credits and none were applied since.
THEOREM NobodyPaysMore == Spec => []NeverPaysMore
<1>1. Inv => NeverPaysMore
  BY DEF Inv, RightMoney
<1>2. QED
  BY <1>1, Invariant, PTL

\* The percentage an order was given is one the code had while it was active and in its
\* window, unless an update was saved between the two readings of applyPromoCode.
THEOREM DiscountsWereOffered == Spec => []DiscountWasOffered
<1>1. Inv => DiscountWasOffered
  BY DEF Inv, RightRows, Fits, Offered, DiscountWasOffered
<1>2. QED
  BY <1>1, Invariant, PTL

\* The window of the code ends after it begins as long as no update of the code was
\* saved between the reading and the saving of another one.
THEOREM WindowsAreOrdered == Spec => []WindowIsOrdered
<1>1. Inv => WindowIsOrdered
  BY DEF Inv, RightCode
<1>2. QED
  BY <1>1, Invariant, PTL

\* A code that was switched off comes back only by an update that says so or by one that
\* another update overtook (PromoCodesService.update saves the status it read).
THEOREM DeactivationsHold == Spec => DeactivationHolds
<1> DEFINE Returns == code.exists /\ ~code.active /\ code'.active
           Said(q) == /\ request[q].at = "write" /\ request'[q].at = "done"
                      /\ \/ request[q].args.field = "active" /\ request[q].args.value = 1
                         \/ request[q].overtaken
<1>1. ASSUME Inv, Returns, NEW q \in Requests, WriteCode(q)
      PROVE  Said(q)
  <2>1. /\ request[q].at = "write" /\ request'[q] = Ended
        /\ request[q].doing \in {"newCode", "update"} /\ request[q].copy \in Codes
        /\ request[q].copy.exists /\ request[q].copy.percent \in Percents
    BY <1>1, HandlerFields DEF WriteCode, Writes
  <2>2. request[q].doing = "update"
    BY <1>1, <2>1 DEF WriteCode
  <2>3. /\ <<request[q].args.field, request[q].args.value>> \in Fields
        /\ ~request[q].overtaken => request[q].copy = code
    BY <1>1, <2>1, <2>2, HandlerFields DEF Writes
  <2>4. code' = Updated(request[q].copy, request[q].args.field, request[q].args.value)
    BY <1>1, <2>2 DEF WriteCode
  <2>5. ~request[q].copy.active =>
           request[q].args.field = "active" /\ request[q].args.value = 1
    BY <1>1, <2>1, <2>3, <2>4, UpdatedIsRight
  <2>6. QED
    BY <1>1, <2>1, <2>3, <2>5, EndedIsRight
<1>2. ASSUME Returns, [Next]_vars
      PROVE  \E q \in Requests : WriteCode(q)
  <2>1. code' # code
    BY <1>2
  <2>2. ASSUME NEW q \in Requests
        PROVE  /\ \A p \in Percents, s \in Starts, e \in Ends : ~CreateCode(q, p, s, e)
               /\ \A f \in Fields : ~UpdateCode(q, f[1], f[2])
               /\ \A n \in Subtotals, named \in BOOLEAN, k \in Rewards, w \in Amounts :
                     ~CreateOrder(q, n, named, k, w)
               /\ \A k \in Rewards : ~SetReward(q, k)
               /\ \A w \in Amounts : ~ApplyCredits(q, w)
    BY <2>1 DEF CreateCode, UpdateCode, CreateOrder, SetReward, ApplyCredits, Rest
  <2>3. ASSUME NEW q \in Requests
        PROVE  /\ ~ApplyPromoCode(q) /\ ~RemovePromoCode(q) /\ ~Release(q) /\ ~Price(q)
               /\ ~Reread(q) /\ ~Save(q) /\ ~Reserve(q) /\ ~Note(q)
    BY <2>1 DEF ApplyPromoCode, RemovePromoCode, Release, Price, Reread, Save, Reserve, Note,
                Rest
  <2>4. ~Tick /\ ~PayByCard /\ ~CompleteWithCredits /\ ~UNCHANGED vars
    BY <2>1 DEF Tick, PayByCard, CompleteWithCredits, Pay, vars
  <2>5. QED
    BY <1>2, <2>2, <2>3, <2>4 DEF Next
<1>3. Inv /\ [Next]_vars => [Returns => \E q \in Requests : Said(q)]_vars
  BY <1>1, <1>2
<1>4. QED
  BY <1>3, Invariant, PTL DEF Spec, DeactivationHolds
=============================================================================
