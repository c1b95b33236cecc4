----------------------------- MODULE UsageProofs -----------------------------
(***************************************************************************)
(* Theorems about Usage, for any orders, handlers, runs of the cron,       *)
(* failures and restarts, and packages of any volume.                      *)
(***************************************************************************)
EXTENDS Usage, TLAPS

LEMMA Assumed ==
  /\ Main \in Orders /\ Limit \in Nat /\ Limit > 0 /\ NoMatch \in Nat /\ NoMatch = Limit + 1
  /\ MaxTroubles \in Nat /\ Crons \cap Requests = {}
  BY MainAssumption, LimitAssumption, BoundsAssumption, RequestsAssumption DEF NoMatch

-----------------------------------------------------------------------------
(* What the tables say, and what a handler knows at each of its points.    *)

Runs == Requests \cup Crons
Completed(o) == order[o].status = "completed"

Handlers == [at : Points, order : Orders, row : Nat, reading : 0..NoMatch,
             todo : SUBSET Nat, overtaken : BOOLEAN]

Types ==
    /\ order \in [Orders -> Order]
    /\ meter \in [Orders -> 0..Limit]
    /\ usage \in Seq(Row)
    /\ request \in [Runs -> Handlers]
    /\ raced \subseteq Orders /\ again \subseteq Orders
    /\ troubles \in 0..MaxTroubles

\* No row says more is used than the OCS counted.
UsedIsCounted ==
    \A i \in DOMAIN usage :
        Certain(usage[i].order) => usage[i].used <= meter[usage[i].order]

RowsAreOfCompleted == \A i \in DOMAIN usage : Completed(usage[i].order)

RightTables ==
    /\ RowsAreOfCompleted
    /\ OneRecord
    /\ InactiveIsExhausted
    /\ UsedIsCounted

\* The rows a handler deals with.
RightRows(q) ==
    LET h == request[q]
    IN  /\ h.todo \subseteq DOMAIN usage
        /\ h.at \in {"ask", "write"} => h.row \in DOMAIN usage

\* Completing an order, and the look-up before an insert.
RightOrder(q) ==
    LET h == request[q]
    IN  /\ h.at \in {"complete", "find", "insert"} => q \in Requests
        /\ h.at \in {"find", "insert"} => Completed(h.order)
        /\ (h.at = "insert" /\ RowsOf(h.order) # {}) => h.order \in raced

\* What the OCS said is not above what it counts now, nor below what the row says
\* unless the row was written meanwhile.
RightReading(q) ==
    LET h == request[q]
        o == usage[h.row].order
    IN  /\ h.at # "write" => h.reading = NoMatch
        /\ (h.at = "write" /\ h.reading # NoMatch /\ Certain(o)) =>
              /\ h.reading <= meter[o]
              /\ ~h.overtaken => usage[h.row].used <= h.reading

Sound(q) == RightRows(q) /\ RightOrder(q) /\ RightReading(q)

Inv == Types /\ RightTables /\ \A q \in Runs : Sound(q)

LEMMA InvIsTyped ==
  ASSUME Inv
  PROVE  TypeOK
<1>1. \A i \in DOMAIN usage : usage[i] \in Row
  BY DEF Inv, Types
<1>2. \A q \in Runs :
         /\ request[q].at \in Points
         /\ request[q].order \in Orders
         /\ request[q].todo \cup (IF request[q].at \in {"ask", "write"}
                                    THEN {request[q].row} ELSE {}) \subseteq DOMAIN usage
         /\ request[q].reading \in 0..NoMatch
  BY DEF Inv, Types, Handlers, Sound, RightRows
<1>3. QED
  BY <1>1, <1>2 DEF Inv, Types, TypeOK, Runs

-----------------------------------------------------------------------------
(* What no step takes back, and what a step leaves the other handlers.     *)

Grows ==
    /\ raced \subseteq raced'
    /\ \A o \in Orders : Completed(o) =>
          Completed(o)' /\ (Certain(o)' => Certain(o) /\ meter[o] <= meter'[o])
    /\ \A i \in DOMAIN usage : i \in DOMAIN usage' /\ usage'[i].order = usage[i].order

\* A handler that did not move: at most another one wrote the row it asked about.
Waits(p) ==
    /\ request'[p].at = request[p].at /\ request'[p].order = request[p].order
    /\ request'[p].row = request[p].row /\ request'[p].reading = request[p].reading
    /\ request'[p].todo = request[p].todo
    /\ (request[p].at = "insert" /\ RowsOf(request[p].order)' # {}) =>
          RowsOf(request[p].order) # {} \/ request[p].order \in raced'
    /\ request[p].at = "write" =>
          \/ request'[p].overtaken
          \/ /\ request'[p].overtaken = request[p].overtaken
             /\ usage'[request[p].row].used = usage[request[p].row].used

LEMMA RowTypes ==
  ASSUME Inv
  PROVE  /\ \A i \in DOMAIN usage :
              /\ usage[i] \in Row /\ usage[i].order \in Orders /\ usage[i].used \in Nat
              /\ meter[usage[i].order] \in Nat
         /\ \A q \in Runs : request[q] \in Handlers /\ Sound(q)
         /\ \A o \in Orders : meter[o] \in Nat /\ meter[o] <= Limit
<1>1. \A i \in DOMAIN usage : usage[i] \in Row
  BY DEF Inv, Types
<1>2. \A o \in Orders : meter[o] \in Nat /\ meter[o] <= Limit
  BY Assumed DEF Inv, Types
<1>3. QED
  BY <1>1, <1>2, Assumed DEF Inv, Types, Row

LEMMA WaitingIsSound ==
  ASSUME Inv, Types', Grows, NEW p \in Runs, Waits(p)
  PROVE  Sound(p)'
<1> DEFINE h == request[p]
<1>1. /\ h \in Handlers /\ Sound(p) /\ Grows
      /\ h.at \in {"ask", "write"} => h.row \in DOMAIN usage /\ usage[h.row].order \in Orders
  BY RowTypes DEF Sound, RightRows
<1>2. RightRows(p)'
  BY <1>1 DEF Sound, RightRows, Waits, Grows, Handlers
<1>3. RightOrder(p)'
  BY <1>1 DEF Sound, RightOrder, Waits, Grows, Handlers
<1>4. RightReading(p)'
  <2>1. CASE h.at # "write"
    BY <1>1, <2>1 DEF Sound, RightReading, Waits
  <2>2. CASE h.at = "write"
    <3>1. PICK i \in DOMAIN usage : i = h.row
      BY <1>1, <2>2
    <3>2. PICK o \in Orders : o = usage[i].order
      BY <1>1, <2>2, <3>1
    <3>3. Completed(o)
      BY <3>2 DEF Inv, RightTables, RowsAreOfCompleted
    <3>4. usage'[i].order = o /\ (Certain(o)' => Certain(o) /\ meter[o] <= meter'[o])
      BY <1>1, <3>2, <3>3 DEF Grows
    <3>5. meter[o] \in Nat /\ meter'[o] \in Int /\ h.reading \in Int
      BY <1>1, Assumed DEF Handlers, Inv, Types
    <3>6. /\ request'[p].row = i /\ request'[p].reading = h.reading
          /\ request'[p].overtaken \/ (request'[p].overtaken = h.overtaken
                                         /\ usage'[i].used = usage[i].used)
      BY <2>2, <3>1 DEF Waits
    <3>7. (h.reading # NoMatch /\ Certain(o)) =>
             h.reading <= meter[o] /\ (~h.overtaken => usage[i].used <= h.reading)
      BY <1>1, <2>2, <3>1, <3>2 DEF Sound, RightReading
    <3>8. request'[p].at = "write"
      BY <2>2 DEF Waits
    <3>9. QED
      BY <3>4, <3>5, <3>6, <3>7, <3>8 DEF RightReading
  <2>3. QED
    BY <2>1, <2>2
<1>5. QED
  BY <1>2, <1>3, <1>4 DEF Sound

LEMMA StepIsSound ==
  ASSUME Inv, NEW q \in Runs, Types', Grows, RightTables',
         \A p \in Runs \ {q} : Waits(p), Sound(q)'
  PROVE  Inv'
  BY WaitingIsSound DEF Inv

-----------------------------------------------------------------------------
(* Moving a handler along.                                                 *)

Quiet == UNCHANGED <<order, meter, usage, raced, again>>

Others(q) == \A p \in Runs \ {q} : request'[p] = request[p]

LEMMA QuietGrows ==
  ASSUME Inv, Quiet
  PROVE  Grows /\ RightTables'
<1>1. Grows
  BY RowTypes DEF Quiet, Grows, Completed, Certain
<1>2. RightTables'
  BY DEF Inv, RightTables, RowsAreOfCompleted, Quiet, Completed, OneRecord, InactiveIsExhausted,
         UsedIsCounted, Certain
<1>3. QED
  BY <1>1, <1>2

LEMMA QuietStep ==
  ASSUME Inv, NEW q \in Runs, Quiet, Others(q), request' \in [Runs -> Handlers],
         troubles' \in 0..MaxTroubles, Sound(q)'
  PROVE  Inv'
<1>1. Types'
  BY DEF Inv, Types, Quiet
<1>2. \A p \in Runs \ {q} : Waits(p)
  BY DEF Others, Quiet, Waits, RowsOf
<1>3. QED
  BY <1>1, <1>2, QuietGrows, StepIsSound

LEMMA Becomes ==
  ASSUME Inv, NEW q \in Runs, NEW h \in Handlers, request' = [request EXCEPT ![q] = h]
  PROVE  Others(q) /\ request' \in [Runs -> Handlers] /\ request'[q] = h
  BY DEF Inv, Types, Others

LEMMA LocalIsHandler ==
  ASSUME NEW at \in Points, NEW o \in Orders, NEW i \in Nat, NEW todo \in SUBSET Nat
  PROVE  Local(at, o, i, todo) \in Handlers
  BY Assumed DEF Local, Handlers

\* The end of the work on a row or an order.
LEMMA NextIsSound ==
  ASSUME Inv, NEW q \in Runs, NEW local \in NextLocals(q)
  PROVE  /\ local \in Handlers /\ local.reading = NoMatch /\ local.at \in {"ask", "new", "done"}
         /\ local.todo \subseteq DOMAIN usage
         /\ local.at = "ask" => local.row \in DOMAIN usage
<1>1. request[q].todo \in SUBSET Nat /\ request[q].todo \subseteq DOMAIN usage
  BY DEF Inv, Types, Handlers, Sound, RightRows
<1>2. CASE request[q].todo # {}
  <2>1. PICK i \in request[q].todo : local = Local("ask", Main, i, request[q].todo \ {i})
    BY <1>2 DEF NextLocals
  <2>2. QED
    BY <1>1, <2>1, LocalIsHandler, Assumed DEF Local, Points
<1>3. CASE request[q].todo = {}
  <2>1. local = Unused \/ local = Ended
    BY <1>3 DEF NextLocals
  <2>2. Unused \in Handlers /\ Unused.at = "new" /\ Unused.reading = NoMatch /\ Unused.todo = {}
    BY LocalIsHandler, Assumed DEF Unused, Local, Points
  <2>3. Ended \in Handlers /\ Ended.at = "done" /\ Ended.reading = NoMatch /\ Ended.todo = {}
    BY <2>2 DEF Ended, Handlers, Points
  <2>4. QED
    BY <2>1, <2>2, <2>3
<1>4. QED
  BY <1>2, <1>3

LEMMA FinishInv ==
  ASSUME Inv, NEW q \in Runs, Quiet, Finish(q), troubles' \in 0..MaxTroubles
  PROVE  Inv'
<1>1. PICK local \in NextLocals(q) : request' = [request EXCEPT ![q] = local]
  BY DEF Finish
<1>2. /\ local \in Handlers /\ local.reading = NoMatch /\ local.at \in {"ask", "new", "done"}
      /\ local.todo \subseteq DOMAIN usage
      /\ local.at = "ask" => local.row \in DOMAIN usage
  BY NextIsSound
<1>3. Others(q) /\ request' \in [Runs -> Handlers] /\ request'[q] = local
  BY <1>1, <1>2, Becomes
<1>4. Sound(q)'
  BY <1>2, <1>3 DEF Sound, RightRows, RightOrder, RightReading, Quiet
<1>5. QED
  BY <1>3, <1>4, QuietStep

-----------------------------------------------------------------------------
(* Each action keeps the invariant.                                        *)

LEMMA UnusedIsSound ==
  /\ Unused \in Handlers /\ Unused.at = "new" /\ Unused.reading = NoMatch /\ Unused.todo = {}
  /\ Ended \in Handlers /\ Ended.at = "done" /\ Ended.reading = NoMatch /\ Ended.todo = {}
<1>1. Unused \in Handlers /\ Unused.at = "new" /\ Unused.reading = NoMatch /\ Unused.todo = {}
  BY LocalIsHandler, Assumed DEF Unused, Local, Points
<1>2. QED
  BY <1>1 DEF Ended, Handlers, Points

LEMMA InitInv ==
  ASSUME Init
  PROVE  Inv
<1>1. Types
  BY UnusedIsSound, Assumed DEF Init, Types, Order, Runs
<1>2. DOMAIN usage = {}
  BY DEF Init
<1>3. RightTables
  BY <1>2 DEF RightTables, RowsAreOfCompleted, OneRecord, InactiveIsExhausted, UsedIsCounted
<1>4. ASSUME NEW q \in Runs PROVE Sound(q)
  BY UnusedIsSound DEF Init, Runs, Sound, RightRows, RightOrder, RightReading
<1>5. QED
  BY <1>1, <1>3, <1>4 DEF Inv

\* A handler begins: an order to complete or to make a record for, or a row to ask about.
LEMMA BeginsInv ==
  ASSUME Inv, NEW q \in Runs, Quiet, UNCHANGED troubles,
         NEW at \in {"complete", "find", "ask"}, NEW o \in Orders, NEW i \in Nat,
         NEW todo \in SUBSET Nat,
         request' = [request EXCEPT ![q] = Local(at, o, i, todo)],
         at \in {"complete", "find"} => q \in Requests,
         at = "find" => Completed(o),
         at = "ask" => i \in DOMAIN usage,
         todo \subseteq DOMAIN usage
  PROVE  Inv'
<1> DEFINE h == Local(at, o, i, todo)
<1>1. /\ h \in Handlers /\ h.at = at /\ h.order = o /\ h.row = i /\ h.todo = todo
      /\ h.reading = NoMatch /\ request' = [request EXCEPT ![q] = h]
  BY LocalIsHandler DEF Points, Local
<1> HIDE DEF h
<1>2. Others(q) /\ request' \in [Runs -> Handlers] /\ request'[q] = h
  BY <1>1, Becomes
<1>3. Sound(q)'
  BY <1>1, <1>2 DEF Sound, RightRows, RightOrder, RightReading, Quiet, Completed
<1>4. QED
  BY <1>2, <1>3, QuietStep DEF Inv, Types

LEMMA StartingInv ==
  ASSUME Inv,
         \/ \E q \in Requests, o \in Orders : ProcessOrder(q, o) \/ CreateUsageRecord(q, o)
         \/ \E q \in Requests, i \in DOMAIN usage : SyncUsage(q, i)
  PROVE  Inv'
<1>1. ASSUME NEW q \in Requests, NEW o \in Orders, ProcessOrder(q, o) PROVE Inv'
  <2>1. /\ Quiet /\ UNCHANGED troubles
        /\ request' = [request EXCEPT ![q] = Local("complete", o, 0, {})]
    BY <1>1 DEF ProcessOrder, Start, NothingElse, Quiet
  <2>2. q \in Runs /\ 0 \in Nat /\ {} \in SUBSET Nat /\ {} \subseteq DOMAIN usage
    BY DEF Runs
  <2>3. QED
    BY <2>1, <2>2, BeginsInv
<1>2. ASSUME NEW q \in Requests, NEW o \in Orders, CreateUsageRecord(q, o) PROVE Inv'
  <2>1. /\ Quiet /\ UNCHANGED troubles /\ Completed(o)
        /\ request' = [request EXCEPT ![q] = Local("find", o, 0, {})]
    BY <1>2 DEF CreateUsageRecord, Start, NothingElse, Quiet, Completed
  <2>2. q \in Runs /\ 0 \in Nat /\ {} \in SUBSET Nat /\ {} \subseteq DOMAIN usage
    BY DEF Runs
  <2>3. QED
    BY <2>1, <2>2, BeginsInv
<1>3. ASSUME NEW q \in Requests, NEW i \in DOMAIN usage, SyncUsage(q, i) PROVE Inv'
  <2>1. /\ Quiet /\ UNCHANGED troubles /\ i \in Nat
        /\ request' = [request EXCEPT ![q] = Local("ask", Main, i, {})]
    BY <1>3 DEF SyncUsage, Start, NothingElse, Quiet, Inv, Types
  <2>2. QED
    BY <2>1, BeginsInv, Assumed DEF Runs
<1>4. QED
  BY <1>1, <1>2, <1>3

LEMMA SyncAllInv ==
  ASSUME Inv, NEW c \in Crons, SyncAllActiveUsage(c)
  PROVE  Inv'
<1> DEFINE rows == {i \in DOMAIN usage : usage[i].active}
<1>1. Quiet /\ UNCHANGED troubles
  BY DEF SyncAllActiveUsage, NothingElse, Quiet
<1>2. PICK i \in rows : request' = [request EXCEPT ![c] = Local("ask", Main, i, rows \ {i})]
  BY DEF SyncAllActiveUsage
<1>3. i \in Nat /\ rows \ {i} \in SUBSET Nat /\ rows \ {i} \subseteq DOMAIN usage
      /\ i \in DOMAIN usage /\ c \in Runs
  BY DEF Inv, Types, Runs
<1>4. QED
  BY <1>1, <1>2, <1>3, BeginsInv, Assumed

\* Only the point of the handler changes.
LEMMA GoMoves ==
  ASSUME Inv, NEW q \in Runs, NEW at \in Points, Go(q, at)
  PROVE  /\ Others(q) /\ request' \in [Runs -> Handlers]
         /\ request'[q].at = at /\ request'[q].order = request[q].order
         /\ request'[q].row = request[q].row /\ request'[q].reading = request[q].reading
         /\ request'[q].todo = request[q].todo
<1> DEFINE h == [request[q] EXCEPT !.at = at]
<1>1. /\ h \in Handlers /\ h.at = at /\ h.order = request[q].order /\ h.row = request[q].row
      /\ h.reading = request[q].reading /\ h.todo = request[q].todo
  BY DEF Inv, Types, Handlers
<1>2. request' = [request EXCEPT ![q] = h]
  BY DEF Go
<1> HIDE DEF h
<1>3. QED
  BY <1>1, <1>2, Becomes

LEMMA FindInv ==
  ASSUME Inv, NEW q \in Runs, FindUsage(q)
  PROVE  Inv'
<1>1. Quiet /\ UNCHANGED troubles /\ request[q].at = "find"
  BY DEF FindUsage, NothingElse, Quiet
<1>2. CASE Finish(q)
  BY <1>1, <1>2, FinishInv DEF Inv, Types
<1>3. CASE Go(q, "insert") /\ RowsOf(request[q].order) = {}
  <2>1. /\ Others(q) /\ request' \in [Runs -> Handlers]
        /\ request'[q].at = "insert" /\ request'[q].order = request[q].order
        /\ request'[q].reading = request[q].reading /\ request'[q].todo = request[q].todo
    BY <1>3, GoMoves DEF Points
  <2>2. Sound(q) /\ RowsOf(request[q].order)' = {}
    BY <1>1, <1>3, <2>1 DEF Inv, Quiet, RowsOf
  <2>3. Sound(q)'
    BY <1>1, <2>1, <2>2
       DEF Sound, RightRows, RightOrder, RightReading, Quiet, Completed
  <2>4. QED
    BY <1>1, <2>1, <2>3, QuietStep DEF Inv, Types
<1>4. QED
  BY <1>2, <1>3 DEF FindUsage

LEMMA AnswersInv ==
  ASSUME Inv, NEW q \in Runs,
         NoAnswer(q) \/ AnswerWithoutIt(q) \/ \E i \in DOMAIN usage : Answer(q, i)
  PROVE  Inv'
<1>1. Quiet /\ UNCHANGED troubles /\ request[q].at = "ask" /\ Sound(q)
  BY DEF NoAnswer, AnswerWithoutIt, Answer, NothingElse, Quiet, Inv
<1>2. CASE NoAnswer(q)
  BY <1>1, <1>2, FinishInv DEF NoAnswer, Inv, Types
<1>3. CASE AnswerWithoutIt(q)
  <2>1. /\ Others(q) /\ request' \in [Runs -> Handlers]
        /\ request'[q].at = "write" /\ request'[q].order = request[q].order
        /\ request'[q].row = request[q].row
        /\ request'[q].reading = request[q].reading /\ request'[q].todo = request[q].todo
    BY <1>3, GoMoves DEF Points, AnswerWithoutIt
  <2>2. Sound(q)'
    BY <1>1, <2>1 DEF Sound, RightRows, RightOrder, RightReading, Quiet
  <2>3. QED
    BY <1>1, <2>1, <2>2, QuietStep DEF Inv, Types
<1>4. ASSUME NEW i \in DOMAIN usage, Answer(q, i) PROVE Inv'
  <2>1. PICK p \in Match(usage[i].order) :
           request' = [request EXCEPT ![q].at = "write", ![q].reading = meter[p]]
    BY <1>4 DEF Answer
  <2>2. PICK o \in Orders : o = usage[i].order
    BY RowTypes
  <2>3. p \in Orders /\ (Certain(o) => p = o)
    BY <2>1, <2>2 DEF Match, Certain
  <2> DEFINE h == [request[q] EXCEPT !.at = "write", !.reading = meter[p]]
  <2>4. /\ h \in Handlers /\ h.at = "write" /\ h.reading = meter[p] /\ h.row = i
        /\ h.todo = request[q].todo
    <3>1. meter[p] \in 0..NoMatch
      BY <2>3, RowTypes, Assumed
    <3>2. request[q] \in Handlers /\ request[q].row = i
      BY <1>4, RowTypes DEF Answer
    <3>3. QED
      BY <3>1, <3>2 DEF Handlers, Points
  <2>5. request' = [request EXCEPT ![q] = h]
    BY <2>1
  <2> HIDE DEF h
  <2>6. Others(q) /\ request' \in [Runs -> Handlers] /\ request'[q] = h
    BY <2>4, <2>5, Becomes
  <2>7. Certain(o) => usage[i].used <= meter[o]
    BY <2>2 DEF Inv, RightTables, UsedIsCounted
  <2>8. RightReading(q)'
    BY <1>1, <2>2, <2>3, <2>4, <2>6, <2>7, RowTypes DEF RightReading, Quiet, Certain
  <2>9. RightRows(q)' /\ RightOrder(q)'
    BY <1>1, <2>4, <2>6 DEF Sound, RightRows, RightOrder, Quiet
  <2>10. QED
    BY <1>1, <2>6, <2>8, <2>9, QuietStep DEF Inv, Types, Sound
<1>5. QED
  BY <1>2, <1>3, <1>4

\* A step in which no handler moves.
LEMMA OutsideStep ==
  ASSUME Inv, Types', Grows, RightTables', \A p \in Runs : Waits(p)
  PROVE  Inv'
  BY WaitingIsSound DEF Inv

LEMMA UseInv ==
  ASSUME Inv, NEW o \in Orders, Use(o)
  PROVE  Inv'
<1>1. /\ meter[o] < Limit /\ meter' = [meter EXCEPT ![o] = meter[o] + 1]
      /\ UNCHANGED <<order, usage, request, raced, again, troubles>>
  BY DEF Use
<1>2. /\ meter' \in [Orders -> 0..Limit] /\ meter'[o] = meter[o] + 1
      /\ \A x \in Orders \ {o} : meter'[x] = meter[x]
      /\ meter[o] \in Nat /\ \A x \in Orders : meter[x] \in Nat /\ meter[x] <= meter'[x]
  BY <1>1, Assumed DEF Inv, Types
<1>3. Types'
  BY <1>1, <1>2 DEF Inv, Types
<1>4. \A x \in Orders : (Certain(x)' <=> Certain(x)) /\ (Completed(x)' <=> Completed(x))
  BY <1>1 DEF Certain, Completed
<1>5. Grows
  BY <1>1, <1>2, <1>4 DEF Grows
<1>6. RightTables'
  <2>1. OneRecord' /\ RowsAreOfCompleted'
    BY <1>1 DEF Inv, RightTables, RowsAreOfCompleted, OneRecord, Completed
  <2>2. ASSUME NEW i \in DOMAIN usage, Certain(usage[i].order)
        PROVE  /\ ~usage[i].active => meter'[usage[i].order] = Limit
               /\ usage[i].used <= meter'[usage[i].order]
    <3>1. PICK x \in Orders : x = usage[i].order
      BY RowTypes
    <3>2. /\ ~usage[i].active => meter[x] = Limit
          /\ usage[i].used <= meter[x] /\ usage[i].used \in Nat
      BY <2>2, <3>1, RowTypes
         DEF Inv, RightTables, RowsAreOfCompleted, InactiveIsExhausted, UsedIsCounted
    <3>3. meter[x] \in Nat /\ meter'[x] \in Nat /\ meter[x] <= meter'[x]
      BY <1>2, Assumed
    <3>4. ~usage[i].active => meter'[x] = Limit
      BY <1>1, <1>2, <3>2
    <3>5. QED
      BY <3>1, <3>2, <3>3, <3>4
  <2>3. InactiveIsExhausted' /\ UsedIsCounted'
    BY <1>1, <2>2 DEF InactiveIsExhausted, UsedIsCounted, Certain
  <2>4. QED
    BY <2>1, <2>3 DEF RightTables
<1>7. \A p \in Runs : Waits(p)
  BY <1>1 DEF Waits, RowsOf
<1>8. QED
  BY <1>3, <1>5, <1>6, <1>7, OutsideStep

\* An order completed for the first time has no rows; one completed again is not
\* Certain any more.
LEMMA CompleteInv ==
  ASSUME Inv, NEW q \in Runs, Complete(q)
  PROVE  Inv'
<1>1. PICK o \in Orders : o = request[q].order
  BY RowTypes DEF Handlers
<1>2. PICK named \in BOOLEAN :
         order' = [order EXCEPT ![o] = [status |-> "completed", named |-> named]]
  BY <1>1 DEF Complete
<1>3. /\ request[q].at = "complete" /\ Go(q, "find") /\ Sound(q)
      /\ meter' = [meter EXCEPT ![o] = 0]
      /\ again' = IF Completed(o) THEN again \cup {o} ELSE again
      /\ UNCHANGED <<usage, raced, troubles>>
  BY <1>1 DEF Complete, Inv, Completed
<1>4. /\ order' \in [Orders -> Order] /\ Completed(o)'
      /\ \A x \in Orders \ {o} : order'[x] = order[x]
  BY <1>2 DEF Inv, Types, Order, Completed
<1>5. /\ meter' \in [Orders -> 0..Limit]
      /\ \A x \in Orders \ {o} : meter'[x] = meter[x] /\ meter[x] \in Nat
  BY <1>3, Assumed DEF Inv, Types
<1>6. \A x \in Orders : Completed(x) =>
         /\ Completed(x)'
         /\ Certain(x)' => x # o /\ Certain(x) /\ meter'[x] = meter[x] /\ meter[x] \in Nat
  BY <1>3, <1>4, <1>5 DEF Completed, Certain
<1>7. /\ Others(q) /\ request' \in [Runs -> Handlers]
      /\ request'[q].at = "find" /\ request'[q].order = o
      /\ request'[q].reading = request[q].reading /\ request'[q].todo = request[q].todo
  BY <1>1, <1>3, GoMoves DEF Points
<1>8. Types'
  BY <1>3, <1>4, <1>5, <1>7 DEF Inv, Types
<1>9. Grows
  BY <1>3, <1>6 DEF Grows
<1>10. RightTables'
  <2>1. OneRecord'
    BY <1>3 DEF Inv, RightTables, OneRecord
  <2>2. ASSUME NEW i \in DOMAIN usage
        PROVE  \E x \in Orders :
                  /\ x = usage[i].order /\ Completed(x)'
                  /\ Certain(x)' => /\ ~usage[i].active => meter'[x] = Limit
                                    /\ usage[i].used <= meter'[x]
    <3>1. PICK x \in Orders : x = usage[i].order
      BY RowTypes
    <3>2. Completed(x) /\ (Certain(x) => /\ ~usage[i].active => meter[x] = Limit
                                         /\ usage[i].used <= meter[x])
      BY <3>1 DEF Inv, RightTables, RowsAreOfCompleted, InactiveIsExhausted, UsedIsCounted
    <3>3. QED
      BY <1>6, <3>1, <3>2
  <2>3. InactiveIsExhausted' /\ UsedIsCounted' /\ RowsAreOfCompleted'
    BY <1>3, <2>2 DEF RowsAreOfCompleted, InactiveIsExhausted, UsedIsCounted, Certain, Completed
  <2>4. QED
    BY <2>1, <2>3 DEF RightTables
<1>11. \A p \in Runs \ {q} : Waits(p)
  BY <1>3, <1>7 DEF Waits, Others, RowsOf
<1>12. Sound(q)'
  BY <1>3, <1>4, <1>7 DEF Sound, RightRows, RightOrder, RightReading, Completed
<1>13. QED
  BY <1>8, <1>9, <1>10, <1>11, <1>12, StepIsSound

\* The row inserted is a second one only if another handler was at its insert too.
LEMMA InsertInv ==
  ASSUME Inv, NEW q \in Runs, InsertUsage(q)
  PROVE  Inv'
<1>1. PICK o \in Orders : o = request[q].order
  BY RowTypes DEF Handlers
<1> DEFINE id == Len(usage) + 1
           h == Local("ask", Main, id, {})
<1>2. /\ request[q].at = "insert" /\ Sound(q)
      /\ usage' = Append(usage, NewRow(o))
      /\ request' = [request EXCEPT ![q] = h]
      /\ UNCHANGED <<order, meter, again, troubles>>
      /\ raced' = IF \E p \in Requests \ {q} : request[p].at = "insert" /\ request[p].order = o
                    THEN raced \cup {o} ELSE raced
  BY <1>1 DEF InsertUsage, Inv
<1>3. NewRow(o) \in Row /\ NewRow(o).order = o /\ NewRow(o).used = 0 /\ NewRow(o).active
  BY Assumed DEF NewRow, Row
<1>4. /\ usage \in Seq(Row) /\ DOMAIN usage = 1..Len(usage) /\ Len(usage) \in Nat
  BY DEF Inv, Types
<1>5. /\ usage' \in Seq(Row) /\ DOMAIN usage' = 1..id /\ usage'[id] = NewRow(o)
      /\ \A i \in DOMAIN usage : i # id /\ i \in DOMAIN usage' /\ usage'[i] = usage[i]
      /\ \A i \in DOMAIN usage' : i = id \/ i \in DOMAIN usage
  BY <1>2, <1>3, <1>4
<1>6. /\ h \in Handlers /\ h.at = "ask" /\ h.row = id /\ h.todo = {} /\ h.reading = NoMatch
  BY <1>4, LocalIsHandler, Assumed DEF Local, Points
<1> HIDE DEF h
<1>7. Others(q) /\ request' \in [Runs -> Handlers] /\ request'[q] = h
  BY <1>2, <1>6, Becomes
<1>8. raced \subseteq raced' /\ raced' \subseteq Orders
  BY <1>2 DEF Inv, Types
<1>9. Types'
  BY <1>2, <1>5, <1>7, <1>8 DEF Inv, Types
<1>10. Completed(o)
  BY <1>1, <1>2 DEF Sound, RightOrder
<1>11. Grows
  BY <1>2, <1>5, <1>8, RowTypes DEF Grows, Completed, Certain
<1>12. OneRecord'
  <2>1. \A i \in DOMAIN usage : usage[i].order = o => o \in raced
    BY <1>1, <1>2 DEF Sound, RightOrder, RowsOf
  <2>2. ASSUME NEW i \in DOMAIN usage', NEW j \in DOMAIN usage', i # j,
               usage'[i].order = usage'[j].order
        PROVE  usage'[i].order \in raced'
    <3>1. CASE i \in DOMAIN usage /\ j \in DOMAIN usage
      BY <1>5, <1>8, <2>2, <3>1 DEF Inv, RightTables, OneRecord
    <3>2. CASE i = id /\ j \in DOMAIN usage
      BY <1>3, <1>5, <1>8, <2>1, <2>2, <3>2
    <3>3. CASE j = id /\ i \in DOMAIN usage
      BY <1>3, <1>5, <1>8, <2>1, <2>2, <3>3
    <3>4. QED
      BY <1>5, <2>2, <3>1, <3>2, <3>3
  <2>3. QED
    BY <2>2 DEF OneRecord
<1>13. RightTables'
  <2>1. ASSUME NEW i \in DOMAIN usage'
        PROVE  LET x == usage'[i].order
               IN  /\ Completed(x)
                   /\ Certain(x) => /\ ~usage'[i].active => meter[x] = Limit
                                    /\ usage'[i].used <= meter[x]
    <3>1. CASE i = id
      BY <1>3, <1>5, <1>10, <3>1, RowTypes
    <3>2. CASE i \in DOMAIN usage
      BY <1>5, <3>2 DEF Inv, RightTables, RowsAreOfCompleted, InactiveIsExhausted, UsedIsCounted
    <3>3. QED
      BY <1>5, <2>1, <3>1, <3>2
  <2>2. InactiveIsExhausted' /\ UsedIsCounted' /\ RowsAreOfCompleted'
    BY <1>2, <2>1 DEF RowsAreOfCompleted, InactiveIsExhausted, UsedIsCounted, Certain, Completed
  <2>3. QED
    BY <1>12, <2>2 DEF RightTables
<1>14. ASSUME NEW p \in Runs \ {q} PROVE Waits(p)
  <2>1. request'[p] = request[p] /\ Sound(p) /\ request[p] \in Handlers
    BY <1>7, RowTypes DEF Others
  <2>2. ASSUME request[p].at = "insert", RowsOf(request[p].order)' # {}
        PROVE  RowsOf(request[p].order) # {} \/ request[p].order \in raced'
    <3>1. PICK i \in DOMAIN usage' : usage'[i].order = request[p].order
      BY <2>1, <2>2 DEF RowsOf
    <3>2. CASE i \in DOMAIN usage
      BY <1>5, <3>1, <3>2 DEF RowsOf
    <3>3. CASE i = id
      <4>1. request[p].order = o /\ p \in Requests \ {q}
        BY <1>3, <1>5, <2>1, <2>2, <3>1, <3>3 DEF Sound, RightOrder
      <4>2. QED
        BY <1>2, <2>2, <4>1
    <3>4. QED
      BY <1>5, <3>2, <3>3
  <2>3. request[p].at = "write" => usage'[request[p].row].used = usage[request[p].row].used
    BY <1>5, <2>1 DEF Sound, RightRows
  <2>4. QED
    BY <2>1, <2>2, <2>3 DEF Waits
<1>15. Sound(q)'
  BY <1>4, <1>5, <1>6, <1>7 DEF Sound, RightRows, RightOrder, RightReading
<1>16. QED
  BY <1>9, <1>11, <1>13, <1>14, <1>15, StepIsSound

\* What the update makes of a row.
LEMMA WriteEffect ==
  ASSUME Inv, NEW q \in Runs, WriteUsage(q)
  PROVE  \E i \in DOMAIN usage, new \in Row :
           /\ i = request[q].row
           /\ usage' = [usage EXCEPT ![i] = new]
           /\ new.order = usage[i].order
           /\ Certain(new.order) =>
                 /\ ~new.active => meter[new.order] = Limit
                 /\ new.used <= meter[new.order]
           /\ (Certain(new.order) /\ ~request[q].overtaken) => usage[i].used <= new.used
<1> DEFINE reading == request[q].reading
<1>1. request[q].at = "write" /\ Sound(q) /\ request[q] \in Handlers
  BY RowTypes DEF WriteUsage
<1>2. PICK i \in DOMAIN usage : i = request[q].row
  BY <1>1 DEF Sound, RightRows
<1>3. PICK o \in Orders : o = usage[i].order
  BY RowTypes
<1>4. /\ usage[i] \in Row /\ usage[i].used \in Nat /\ meter[o] \in Nat /\ meter[o] <= Limit
  BY <1>3, RowTypes
<1>5. Certain(o) => /\ ~usage[i].active => meter[o] = Limit
                    /\ usage[i].used <= meter[o]
  BY <1>3 DEF Inv, RightTables, InactiveIsExhausted, UsedIsCounted
<1>6. (reading # NoMatch /\ Certain(o)) =>
         reading <= meter[o] /\ (~request[q].overtaken => usage[i].used <= reading)
  BY <1>1, <1>2, <1>3 DEF Sound, RightReading
<1> DEFINE new == Synced(usage[i], reading)
<1>7. usage' = [usage EXCEPT ![i] = new]
  BY <1>2 DEF WriteUsage
<1>8. /\ new \in Row /\ new.order = o
      /\ Certain(o) => /\ ~new.active => meter[o] = Limit
                       /\ new.used <= meter[o]
      /\ (Certain(o) /\ ~request[q].overtaken) => usage[i].used <= new.used
  <2>1. CASE reading = NoMatch
    <3>1. /\ new \in Row /\ new.order = o /\ new.used = usage[i].used
          /\ new.active = usage[i].active
      BY <1>3, <1>4, <2>1 DEF Synced, Row
    <3>2. QED
      BY <1>4, <1>5, <3>1
  <2>2. CASE reading # NoMatch
    <3>1. PICK n \in 0..Limit : n = reading
      BY <1>1, <2>2, Assumed DEF Handlers
    <3>2. PICK active \in BOOLEAN : active = (n < Limit) /\ (active <=> n < Limit)
      <4>1. CASE n < Limit
        <5>1. TRUE = (n < Limit) /\ (TRUE <=> n < Limit)
          BY <4>1, Zenon
        <5>2. QED
          BY <5>1, Zenon
      <4>2. CASE ~(n < Limit)
        <5>1. (n < Limit) = FALSE
          BY <4>2, Assumed, SMT
        <5>2. QED
          BY <4>2, <5>1, Zenon
      <4>3. QED
        BY <4>1, <4>2
    <3>3. new = [usage[i] EXCEPT !.synced = TRUE, !.used = n, !.allowed = Limit,
                                 !.active = active]
      <4>1. new = [usage[i] EXCEPT !.synced = TRUE, !.used = n, !.allowed = Limit,
                                   !.active = (n < Limit)]
        BY <2>2, <3>1 DEF Synced
      <4> HIDE DEF new
      <4>2. QED
        BY <3>2, <4>1, Zenon
    <3> HIDE DEF new
    <3>4. new \in Row /\ new.order = o /\ new.used = n /\ new.active = active
      <4>1. PICK row \in Row : row = usage[i]
        BY <1>4
      <4>2. Limit \in 0..Limit /\ TRUE \in BOOLEAN
        BY Assumed
      <4>3. new = [row EXCEPT !.synced = TRUE, !.used = n, !.allowed = Limit, !.active = active]
        BY <3>3, <4>1
      <4>4. QED
        BY <1>3, <4>1, <4>2, <4>3 DEF Row
    <3>5. (~active /\ n <= meter[o]) => meter[o] = Limit
      BY <1>4, <3>2, Assumed
    <3>6. Certain(o) => n <= meter[o] /\ (~request[q].overtaken => usage[i].used <= n)
      BY <1>6, <2>2, <3>1
    <3>7. QED
      BY <3>4, <3>5, <3>6
  <2>3. QED
    BY <2>1, <2>2
<1> HIDE DEF new
<1>9. QED
  BY <1>2, <1>3, <1>7, <1>8

LEMMA WriteInv ==
  ASSUME Inv, NEW q \in Runs, WriteUsage(q)
  PROVE  Inv'
<1>1. PICK i \in DOMAIN usage, new \in Row :
         /\ i = request[q].row
         /\ usage' = [usage EXCEPT ![i] = new]
         /\ new.order = usage[i].order
         /\ Certain(new.order) => /\ ~new.active => meter[new.order] = Limit
                                  /\ new.used <= meter[new.order]
  BY WriteEffect
<1> DEFINE overtaking == [p \in DOMAIN request |->
              IF request[p].row = i /\ request[p].at = "write"
                THEN [request[p] EXCEPT !.overtaken = TRUE] ELSE request[p]]
<1>2. PICK local \in NextLocals(q) : request' = [overtaking EXCEPT ![q] = local]
  BY <1>1 DEF WriteUsage
<1>3. UNCHANGED <<order, meter, raced, again, troubles>> /\ request[q].at = "write"
  BY DEF WriteUsage
<1>4. /\ local \in Handlers /\ local.reading = NoMatch /\ local.at \in {"ask", "new", "done"}
      /\ local.todo \subseteq DOMAIN usage
      /\ local.at = "ask" => local.row \in DOMAIN usage
  BY NextIsSound
<1>5. /\ usage' \in Seq(Row) /\ DOMAIN usage' = DOMAIN usage /\ usage'[i] = new
      /\ \A j \in DOMAIN usage \ {i} : usage'[j] = usage[j]
      /\ \A j \in DOMAIN usage : usage'[j].order = usage[j].order
  BY <1>1 DEF Inv, Types
<1>6. overtaking \in [Runs -> Handlers]
  <2>1. ASSUME NEW p \in Runs PROVE [request[p] EXCEPT !.overtaken = TRUE] \in Handlers
    BY DEF Inv, Types, Handlers
  <2>2. QED
    BY <2>1 DEF Inv, Types
<1>7. /\ request' \in [Runs -> Handlers] /\ request'[q] = local
      /\ \A p \in Runs \ {q} : request'[p] = overtaking[p]
  <2> HIDE DEF overtaking
  <2>1. QED
    BY <1>2, <1>4, <1>6
<1>8. Types'
  BY <1>3, <1>5, <1>7 DEF Inv, Types
<1>9. Grows
  BY <1>3, <1>5, RowTypes DEF Grows, Completed, Certain
<1>10. RightTables'
  <2>1. RowsAreOfCompleted' /\ OneRecord'
    BY <1>3, <1>5 DEF Inv, RightTables, RowsAreOfCompleted, OneRecord, Completed
  <2>2. ASSUME NEW j \in DOMAIN usage, Certain(usage[j].order)
        PROVE  /\ ~usage'[j].active => meter[usage[j].order] = Limit
               /\ usage'[j].used <= meter[usage[j].order]
    <3>1. CASE j = i
      BY <1>1, <1>5, <2>2, <3>1
    <3>2. CASE j # i
      BY <1>5, <2>2, <3>2 DEF Inv, RightTables, InactiveIsExhausted, UsedIsCounted
    <3>3. QED
      BY <3>1, <3>2
  <2>3. InactiveIsExhausted' /\ UsedIsCounted'
    BY <1>3, <1>5, <2>2 DEF InactiveIsExhausted, UsedIsCounted, Certain
  <2>4. QED
    BY <2>1, <2>3 DEF RightTables
<1>11. ASSUME NEW p \in Runs \ {q} PROVE Waits(p)
  <2>1. request'[p].order = request[p].order =>
           RowsOf(request[p].order)' = RowsOf(request[p].order)
    BY <1>5 DEF RowsOf
  <2>2. request[p] \in Handlers /\ Sound(p) /\ p \in DOMAIN request
    BY RowTypes DEF Inv, Types
  <2>3. CASE request[p].row = i /\ request[p].at = "write"
    BY <1>7, <2>2, <2>3 DEF Waits, Handlers
  <2>4. CASE ~(request[p].row = i /\ request[p].at = "write")
    <3>1. request'[p] = request[p]
      BY <1>7, <2>2, <2>4
    <3>2. request[p].at = "write" => request[p].row \in DOMAIN usage \ {i}
      BY <2>2, <2>4 DEF Sound, RightRows
    <3>3. QED
      BY <1>5, <2>1, <3>1, <3>2 DEF Waits
  <2>5. QED
    BY <2>3, <2>4
<1>12. Sound(q)'
  BY <1>4, <1>5, <1>7 DEF Sound, RightRows, RightOrder, RightReading
<1>13. QED
  BY <1>8, <1>9, <1>10, <1>11, <1>12, StepIsSound

LEMMA FaultInv ==
  ASSUME Inv, NEW q \in Runs, Fault(q)
  PROVE  Inv'
<1>1. Quiet /\ Finish(q) /\ troubles' \in 0..MaxTroubles
  BY Assumed DEF Fault, Quiet, Inv, Types
<1>2. QED
  BY <1>1, FinishInv

LEMMA CrashInv ==
  ASSUME Inv, Crash
  PROVE  Inv'
<1>1. /\ Quiet /\ troubles' \in 0..MaxTroubles
      /\ request' \in [Runs -> Handlers]
      /\ \A q \in Runs : request'[q] \in {Unused, Ended, request[q]}
  BY UnusedIsSound, Assumed DEF Crash, Quiet, Inv, Types, Runs
<1>2. Types'
  BY <1>1 DEF Inv, Types, Quiet
<1>3. Grows /\ RightTables'
  BY <1>1, QuietGrows
<1>4. ASSUME NEW q \in Runs PROVE Sound(q)'
  <2>1. CASE request'[q] \in {Unused, Ended}
    BY <2>1, UnusedIsSound DEF Sound, RightRows, RightOrder, RightReading
  <2>2. CASE request'[q] = request[q]
    <3>1. Waits(q)
      BY <1>1, <2>2 DEF Waits, Quiet, RowsOf
    <3>2. QED
      BY <1>2, <1>3, <3>1, WaitingIsSound
  <2>3. QED
    BY <1>1, <2>1, <2>2
<1>5. QED
  BY <1>2, <1>3, <1>4 DEF Inv

LEMMA NextInv ==
  ASSUME Inv, [Next]_vars
  PROVE  Inv'
<1>1. CASE UNCHANGED vars
  <2>1. Quiet /\ Types' /\ \A p \in Runs : Waits(p)
    BY <1>1 DEF vars, Quiet, Inv, Types, Waits, RowsOf
  <2>2. QED
    BY <2>1, QuietGrows, OutsideStep
<1>2. CASE \E o \in Orders : Use(o)
  BY <1>2, UseInv
<1>3. CASE \E q \in Requests : \/ \E o \in Orders : ProcessOrder(q, o) \/ CreateUsageRecord(q, o)
                               \/ \E i \in DOMAIN usage : SyncUsage(q, i)
  BY <1>3, StartingInv
<1>4. CASE \E c \in Crons : SyncAllActiveUsage(c)
  BY <1>4, SyncAllInv
<1>5. ASSUME NEW q \in Runs, Step(q) \/ Fault(q) PROVE Inv'
  BY <1>5, CompleteInv, FindInv, InsertInv, WriteInv, AnswersInv, FaultInv DEF Step
<1>6. CASE Crash
  BY <1>6, CrashInv
<1>7. QED
  BY <1>1, <1>2, <1>3, <1>4, <1>5, <1>6 DEF Next, Runs

LEMMA InvAlways ==
  Spec => []Inv
<1>1. Init => Inv
  BY InitInv
<1>2. Inv /\ [Next]_vars => Inv'
  BY NextInv
<1>3. QED
  BY <1>1, <1>2, PTL DEF Spec

-----------------------------------------------------------------------------
(* The theorems.                                                           *)

\* Rows, handlers and the cron's lists stay of their types: no handler deals with a
\* row that is not there.
THEOREM UsageTyped == Spec => []TypeOK
<1>1. Inv => TypeOK
  BY InvIsTyped
<1>2. QED
  BY <1>1, InvAlways, PTL

\* An order gets a second usage record only if two handlers were between the look-up
\* and the insert of createUsageRecord, since no index keeps it out.
THEOREM SecondRecordIsRaced == Spec => []OneRecord
<1>1. Inv => OneRecord
  BY DEF Inv, RightTables
<1>2. QED
  BY <1>1, InvAlways, PTL

\* In whatever order the answers of the OCS are written, by hand, after an insert or by
\* the cron, a record is switched off only when its package is used up.
THEOREM InactiveForGood == Spec => []InactiveIsExhausted
<1>1. Inv => InactiveIsExhausted
  BY DEF Inv, RightTables
<1>2. QED
  BY <1>1, InvAlways, PTL

\* The usage shown to a customer falls only by an update that another one overtook
\* between the OCS's answer and the database.
THEOREM OnlyTheLateGoBack == Spec => NeverBackwards
<1> DEFINE Forward ==
      \A i \in DOMAIN usage :
          (usage'[i].used < usage[i].used /\ Certain(usage[i].order))
            => \E q \in DOMAIN request : request[q].row = i /\ request[q].overtaken
<1>1. Inv /\ [Next]_vars => [Forward]_vars
  <2> SUFFICES ASSUME Inv, [Next]_vars, ~UNCHANGED vars,
                      NEW i \in DOMAIN usage, usage'[i].used < usage[i].used,
                      Certain(usage[i].order)
               PROVE  \E q \in DOMAIN request : request[q].row = i /\ request[q].overtaken
    OBVIOUS
  <2>1. usage[i].used \in Nat
    BY RowTypes
  <2>2. usage'[i] # usage[i]
    BY <2>1
  <2>3. \A q \in Runs : ~InsertUsage(q)
    <3>1. ASSUME NEW q \in Runs, InsertUsage(q) PROVE usage'[i] = usage[i]
      BY <3>1 DEF InsertUsage, Inv, Types
    <3>2. QED
      BY <2>2, <3>1
  <2>4. PICK q \in Runs : WriteUsage(q)
    BY <2>2, <2>3
       DEF Next, Use, ProcessOrder, CreateUsageRecord, SyncUsage, SyncAllActiveUsage, Step,
           Complete, FindUsage, NoAnswer, AnswerWithoutIt, Answer, Fault, Crash, NothingElse, Runs
  <2>5. PICK j \in DOMAIN usage, new \in Row :
           /\ j = request[q].row
           /\ usage' = [usage EXCEPT ![j] = new]
           /\ new.order = usage[j].order
           /\ (Certain(new.order) /\ ~request[q].overtaken) => usage[j].used <= new.used
    BY <2>4, WriteEffect
  <2>6. i = j /\ usage'[i] = new
    BY <2>2, <2>5 DEF Inv, Types
  <2>7. new.used \in Nat
    BY Assumed DEF Row
  <2>8. request[q].overtaken
    BY <2>1, <2>5, <2>6, <2>7
  <2>9. QED
    BY <2>5, <2>6, <2>8 DEF Inv, Types
<1>2. QED
  BY <1>1, InvAlways, PTL DEF Spec, NeverBackwards
=============================================================================
