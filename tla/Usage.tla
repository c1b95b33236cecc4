-------------------------------- MODULE Usage --------------------------------
(***************************************************************************)
(* Usage records: made when an order is completed, synchronised with the   *)
(* OCS then, by hand and by a cron every five minutes, and added up in the *)
(* two views of a subscriber's data.                                       *)
(*                                                                         *)
(* All orders here are of one customer and one subscriber: Main is the     *)
(* one-time order, the others are top-ups.  A step is one statement or one *)
(* OCS call.                                                               *)
(***************************************************************************)
EXTENDS Integers, Sequences, FiniteSetsExt

CONSTANTS
    Orders,
    Main,          \* the one-time order among them
    SamePackage,   \* the orders with the package template of Main
    Limit,         \* volume of a package, in units of data
    Requests,      \* handler runs, numbered as they start
    Crons,         \* runs of the cron that may overlap
    MaxInFlight,   \* bound: handlers that overlap
    MaxTroubles    \* bound: failed statements and restarts

ASSUME MainAssumption == Main \in SamePackage /\ SamePackage \subseteq Orders
ASSUME RequestsAssumption == Requests \subseteq Nat /\ Crons \cap Requests = {}
ASSUME LimitAssumption == Limit \in Nat \ {0}
ASSUME BoundsAssumption == {MaxInFlight, MaxTroubles} \subseteq Nat

VARIABLES
    order,      \* the orders table
    meter,      \* at the OCS: data used of the package of an order
    usage,      \* the usage table, oldest row first
    request,    \* the handlers
    raced,      \* history: orders that two handlers found without a record
    again,      \* history: orders that two handlers completed
    troubles

vars == <<order, meter, usage, request, raced, again, troubles>>

\* named says that the order names its package (subsPackageId).
Order == [status : {"open", "completed"}, named : BOOLEAN]

\* remaining and status of a row are functions of these columns.
Row == [order : Orders, used : 0..Limit, allowed : 0..Limit, active : BOOLEAN,
        synced : BOOLEAN]
Remaining(row) == IF row.allowed > row.used THEN row.allowed - row.used ELSE 0

Points == {"new", "done", "complete", "find", "insert", "ask", "write"}
NoMatch == Limit + 1

\* A handler: its next call, its order, or else the usage row it deals with, what
\* the OCS told it, the rows the cron has still to do, and whether another handler
\* has written the row since it asked.
Local(at, o, row, todo) ==
    [at |-> at, order |-> o, row |-> row, reading |-> NoMatch, todo |-> todo,
     overtaken |-> FALSE]
Unused == Local("new", Main, 0, {})
Ended == [Unused EXCEPT !.at = "done"]

Init ==
    /\ order = [o \in Orders |-> [status |-> "open", named |-> FALSE]]
    /\ meter = [o \in Orders |-> 0]
    /\ usage = <<>>
    /\ request = [q \in Requests \cup Crons |-> Unused]
    /\ raced = {} /\ again = {}
    /\ troubles = 0

InFlight == {q \in Requests : request[q].at \notin {"new", "done"}}

Start(q, local) ==
    /\ request[q].at = "new"
    /\ \A p \in Requests : p < q => request[p].at # "new"
    /\ Cardinality(InFlight) < MaxInFlight
    /\ request' = [request EXCEPT ![q] = local]

Go(q, at) == request' = [request EXCEPT ![q].at = at]


\* What a handler is when its work on a row or an order has ended; the cron goes on
\* with another row of its list.
NextLocals(q) ==
    IF request[q].todo # {}
      THEN {Local("ask", Main, i, request[q].todo \ {i}) : i \in request[q].todo}
      ELSE {IF q \in Crons THEN Unused ELSE Ended}

Finish(q) == \E local \in NextLocals(q) : request' = [request EXCEPT ![q] = local]

NothingElse ==
    UNCHANGED <<order, meter, usage, raced, again, troubles>>
-----------------------------------------------------------------------------
(* Completion, and the use of what was bought.                             *)

\* The end of processOrder or processTopup.  The OCS has added a package; only the
\* answer to a top-up may lack its name.  The status was checked earlier, so two
\* handlers may be here with one order.
ProcessOrder(q, o) ==
    /\ order[o].status = "open"
    /\ Start(q, Local("complete", o, 0, {}))
    /\ NothingElse

Complete(q) ==
    LET o == request[q].order
    IN  /\ request[q].at = "complete"
        /\ \E named \in (IF o = Main THEN {TRUE} ELSE BOOLEAN) :
              order' = [order EXCEPT ![o] = [status |-> "completed", named |-> named]]
        /\ meter' = [meter EXCEPT ![o] = 0]
        /\ Go(q, "find")
        /\ again' = IF order[o].status = "completed" THEN again \cup {o} ELSE again
        /\ UNCHANGED <<usage, raced, troubles>>

Use(o) ==
    /\ order[o].status = "completed"
    /\ meter[o] < Limit
    /\ meter' = [meter EXCEPT ![o] = @ + 1]
    /\ UNCHANGED <<order, usage, request, raced, again, troubles>>
-----------------------------------------------------------------------------
(* The usage record.                                                       *)

\* POST usage/order/:id/create, the same function by hand.
CreateUsageRecord(q, o) ==
    /\ order[o].status = "completed"
    /\ Start(q, Local("find", o, 0, {}))
    /\ NothingElse

RowsOf(o) == {i \in DOMAIN usage : usage[i].order = o}

\* Mutant of FindUsage: the look-up goes by another column and finds nothing.
FindNothing(q) ==
    /\ request[q].at = "find"
    /\ Go(q, "insert")
    /\ NothingElse

FindUsage(q) ==
    /\ request[q].at = "find"
    /\ IF RowsOf(request[q].order) # {} THEN Finish(q) ELSE Go(q, "insert")
    /\ NothingElse

\* Mutant of NewRow: the volume parsed in another unit than the OCS's.
NewRowUnbounded(o) ==
    [order |-> o, used |-> 0, allowed |-> 1024 * Limit, active |-> TRUE, synced |-> FALSE]

\* The allowance is the volume of the template until the first synchronisation.
NewRow(o) ==
    [order |-> o, used |-> 0, allowed |-> Limit, active |-> TRUE, synced |-> FALSE]

InsertUsage(q) ==
    LET o == request[q].order
    IN  /\ request[q].at = "insert"
        /\ usage' = Append(usage, NewRow(o))
        /\ request' = [request EXCEPT ![q] = Local("ask", Main, Len(usage) + 1, {})]
        /\ raced' = IF \E p \in Requests \ {q} :
                          request[p].at = "insert" /\ request[p].order = o
                      THEN raced \cup {o} ELSE raced
        /\ UNCHANGED <<order, meter, again, troubles>>
-----------------------------------------------------------------------------
(* syncUsageWithOcs, by hand, after an insert, or from the cron.           *)

SyncUsage(q, i) ==
    /\ Start(q, Local("ask", Main, i, {}))
    /\ NothingElse

\* Every five minutes, whether or not the last run is over.
SyncAllActiveUsage(c) ==
    LET rows == {i \in DOMAIN usage : usage[i].active}
    IN  /\ request[c].at = "new"
        /\ \E i \in rows :
              request' = [request EXCEPT ![c] = Local("ask", Main, i, rows \ {i})]
        /\ NothingElse

\* The package of the OCS's listing that an order is taken to mean: the one it
\* names, else one of its template assigned at about the time of the order.
Match(o) ==
    IF order[o].named THEN {o}
    ELSE {p \in Orders : order[p].status = "completed" /\ (p = o \/ {p, o} \subseteq SamePackage)}

\* getUsageFromOcs lists the packages of the subscriber.
Answer(q, i) ==
    /\ request[q].at = "ask" /\ request[q].row = i
    /\ \E p \in Match(usage[i].order) :
          request' = [request EXCEPT ![q].at = "write", ![q].reading = meter[p]]
    /\ NothingElse

AnswerWithoutIt(q) ==
    /\ request[q].at = "ask"
    /\ Go(q, "write")
    /\ NothingElse

NoAnswer(q) ==
    /\ request[q].at = "ask"
    /\ Finish(q)
    /\ NothingElse

\* Mutant of Synced: what is missing in the listing counts as nothing used.
SyncedOrZero(row, reading) ==
    IF reading = NoMatch
      THEN [row EXCEPT !.synced = TRUE, !.used = 0]
      ELSE [row EXCEPT !.synced = TRUE, !.used = reading, !.active = reading < Limit]

\* Mutant of Synced: a package is active when it is in use.
SyncedInUse(row, reading) ==
    IF reading = NoMatch
      THEN [row EXCEPT !.synced = TRUE]
      ELSE [row EXCEPT !.synced = TRUE, !.used = reading, !.active = reading > 0]

\* Mutant of Synced: isActive is left as it is.
SyncedAlwaysActive(row, reading) ==
    IF reading = NoMatch
      THEN [row EXCEPT !.synced = TRUE]
      ELSE [row EXCEPT !.synced = TRUE, !.used = reading]

\* updateUsageFromOcsData, one update of the columns it knows.
Synced(row, reading) ==
    IF reading = NoMatch
      THEN [row EXCEPT !.synced = TRUE]
      ELSE [row EXCEPT !.synced = TRUE, !.used = reading, !.allowed = Limit,
                       !.active = reading < Limit]

WriteUsage(q) ==
    LET i == request[q].row
        overtaking == [p \in DOMAIN request |->
            IF request[p].row = i /\ request[p].at = "write"
              THEN [request[p] EXCEPT !.overtaken = TRUE] ELSE request[p]]
    IN  /\ request[q].at = "write"
        /\ usage' = [usage EXCEPT ![i] = Synced(@, request[q].reading)]
        /\ \E local \in NextLocals(q) : request' = [overtaking EXCEPT ![q] = local]
        /\ UNCHANGED <<order, meter, raced, again, troubles>>
-----------------------------------------------------------------------------
\* A statement fails: the handler logs it and is done, the cron takes its next row.
Fault(q) ==
    /\ request[q].at \in {"find", "insert", "write"}
    /\ troubles < MaxTroubles
    /\ troubles' = troubles + 1
    /\ Finish(q)
    /\ UNCHANGED <<order, meter, usage, raced, again>>

\* A restart ends the handlers and the runs of the cron.
Crash ==
    /\ troubles < MaxTroubles
    /\ troubles' = troubles + 1
    /\ request' = [q \in Requests \cup Crons |->
          IF q \in Crons THEN Unused ELSE IF q \in InFlight THEN Ended ELSE request[q]]
    /\ UNCHANGED <<order, meter, usage, raced, again>>

\* What a handler does next, whatever the OCS answers.
Step(q) ==
    \/ Complete(q) \/ FindUsage(q) \/ InsertUsage(q) \/ WriteUsage(q)
    \/ NoAnswer(q) \/ AnswerWithoutIt(q) \/ \E i \in DOMAIN usage : Answer(q, i)

Next ==
    \/ \E o \in Orders : Use(o)
    \/ \E q \in Requests :
          \/ \E o \in Orders : ProcessOrder(q, o) \/ CreateUsageRecord(q, o)
          \/ \E i \in DOMAIN usage : SyncUsage(q, i)
    \/ \E c \in Crons : SyncAllActiveUsage(c)
    \/ \E q \in Requests \cup Crons : Step(q) \/ Fault(q)
    \/ Crash

Spec == Init /\ [][Next]_vars

\* Handlers go on, the cron keeps coming, and an OCS that is asked again and again
\* about a row answers with its package some time.
Rows == 1..(Cardinality(Orders) + Cardinality(Requests))
Fairness ==
    /\ \A q \in Requests \cup Crons : WF_vars(Step(q))
    /\ \A c \in Crons : WF_vars(SyncAllActiveUsage(c))
    /\ \A c \in Crons, i \in Rows : SF_vars(i \in DOMAIN usage /\ Answer(c, i))
FairSpec == Spec /\ Fairness
-----------------------------------------------------------------------------
(* The two views of a subscriber's data.                                   *)

Used(i) == usage[i].used
Allowed(i) == usage[i].allowed

\* getConsolidatedUsageBySubscriber: what all packages allow, less what the first
\* record that was ever synchronised says is used.
Latest ==
    LET synced == {i \in DOMAIN usage : usage[i].synced}
    IN  IF synced = {} THEN 1 ELSE Min(synced)

ConsolidatedRemaining ==
    LET left == MapThenSumSet(Allowed, DOMAIN usage) - usage[Latest].used
    IN  IF left > 0 THEN left ELSE 0

\* Mutant of GroupRows: a record that was never synchronised does not count.
GroupRowsSynced ==
    {i \in DOMAIN usage : usage[i].order \in SamePackage /\ usage[i].synced
                             /\ Remaining(usage[i]) > 0}

\* consolidateUsageDataForGroup, for Main and its top-ups: the template's volume,
\* the only record, or the active records of Main's template.
GroupRows ==
    {i \in DOMAIN usage : usage[i].order \in SamePackage /\ usage[i].active
                             /\ Remaining(usage[i]) > 0}

GroupRemaining ==
    LET rows == GroupRows
    IN  CASE usage = <<>>   -> Limit
          [] Len(usage) = 1 -> Remaining(usage[1])
          [] OTHER          -> MapThenSumSet(Allowed, rows) - MapThenSumSet(Used, rows)
-----------------------------------------------------------------------------
TypeOK ==
    /\ order \in [Orders -> Order]
    /\ meter \in [Orders -> 0..Limit]
    /\ \A i \in DOMAIN usage : usage[i] \in Row
    /\ \A q \in Requests \cup Crons :
          /\ request[q].at \in Points
          /\ request[q].order \in Orders
          /\ request[q].todo \cup (IF request[q].at \in {"ask", "write"}
                                     THEN {request[q].row} ELSE {}) \subseteq DOMAIN usage
          /\ request[q].reading \in 0..NoMatch
    /\ raced \cup again \subseteq Orders
    /\ troubles \in 0..MaxTroubles

\* An order has one usage record, unless two handlers looked for it before either
\* had inserted one (usage.service.ts:41): nothing else keeps a second one out.
OneRecord ==
    \A i, j \in DOMAIN usage :
        (i # j /\ usage[i].order = usage[j].order) => usage[i].order \in raced

Certain(o) == order[o].named /\ o \notin again

\* A record is inactive, which the cron never looks at again, only when the package
\* is used up, however late and in whatever order the OCS's answers are written.
InactiveIsExhausted ==
    \A i \in DOMAIN usage :
        LET o == usage[i].order
        IN  ~usage[i].active /\ Certain(o) => meter[o] = Limit

\* Neither view says that less is left than the OCS would still let through, as long
\* as every order names its package.
NeverUnderstates ==
    LET recorded == {usage[i].order : i \in DOMAIN usage}
        Left(o) == Limit - meter[o]
    IN  (usage # <<>> /\ \A o \in recorded : Certain(o))
            => /\ ConsolidatedRemaining >= MapThenSumSet(Left, recorded)
               /\ GroupRemaining >= MapThenSumSet(Left, recorded \cap SamePackage)

\* What a record says is used goes down only by a synchronisation that another one
\* overtook between the OCS's answer and the update.
NeverBackwards ==
    [][\A i \in DOMAIN usage :
          (usage'[i].used < usage[i].used /\ Certain(usage[i].order))
            => \E q \in DOMAIN request : request[q].row = i /\ request[q].overtaken]_vars

\* Once a package is used up, all records of its order become inactive and stay so.
ExhaustionIsSeen ==
    \A o \in Orders :
        <>[](meter[o] = Limit /\ Certain(o) =>
                \A i \in RowsOf(o) : ~usage[i].active)
=============================================================================
