---------------------------- MODULE EsimsProofs -----------------------------
(***************************************************************************)
(* Theorems about Esims, for any number of eSIMs, requests, failures and   *)
(* restarts.                                                               *)
(***************************************************************************)
EXTENDS Esims, FiniteSetTheorems, TLAPS

Handlers ==
    [at : Points, doing : Doing, order : Requests \cup {Null},
     sim : Sims \cup {Null}, list : SUBSET Sims]

LEMMA Assumed ==
  /\ Null \notin Sims /\ Null \notin Requests /\ ToppedUp \subseteq Sims
  /\ IsFiniteSet(Sims) /\ IsFiniteSet(Requests)
  /\ MaxTroubles \in Nat
  BY NullAssumption, ToppedUpAssumption, FiniteAssumption, BoundsAssumption

-----------------------------------------------------------------------------
(* What a handler is at each of its points.                                *)

Placed(o) == order[o].status # "none"

\* Points at which a handler deals with an order that is in the table.
AtOrder == {"load", "begin", "activate", "finish", "fail", "final", "save", "cancel"}
Processing == {"begin", "activate", "finish", "fail"}

\* Which handler is where.
RightPlace(q) ==
    LET r == request[q]
    IN  /\ r.at \in {"find", "mark", "reload", "release", "final"} => r.doing = "simple"
        /\ r.at = "import" => r.doing = "sync"
        /\ r.at = "save" => r.doing = "complete"
        /\ r.at = "cancel" => r.doing = "cancel"
        /\ r.at = "insert" => r.doing \in {"simple", "topup"}
        /\ r.at = "load" => r.doing \in {"simple", "complete"}
        /\ r.at \in Processing => r.doing \in {"simple", "topup", "complete"}

\* The eSIM and the order a handler works with.
RightOrder(q) ==
    LET r == request[q]
    IN  /\ (r.at = "mark" \/ Holding(q)) => r.sim \in Known
        /\ r.at = "insert" => r.sim \in Sims
        /\ r.at \in AtOrder => r.order \in Requests /\ Placed(r.order)
        /\ (r.doing = "simple" /\ r.at \in AtOrder) =>
              r.order = q /\ order[q].kind = "one_time" /\ order[q].sim = r.sim
        /\ (r.doing = "topup" /\ r.at \in AtOrder) =>
              r.order = q /\ order[q].kind = "topup"
        /\ (r.doing = "complete" /\ r.at \in Processing \cup {"load"}) => r.order \in retried
        /\ r.at \in {"new", "find", "mark", "reload", "insert"} => ~Placed(q)
        /\ r.at = "release" => r.order = q \/ ~Placed(q)

\* What became of the order so far.
RightOutcome(q) ==
    LET r == request[q]
    IN  /\ (r.at = "finish" /\ order[r.order].kind = "one_time") =>
              <<order[r.order].sim, r.order>> \in packages
        /\ r.at = "final" => <<r.sim, q>> \in packages \/ q \in retried
        /\ (r.doing = "simple" /\ r.at = "load" /\ q \notin retried) =>
              order[q].status \in {"pending", "cancelled"}

Sound(q) == RightPlace(q) /\ RightOrder(q) /\ RightOutcome(q)

RightTables ==
    /\ \A o \in Requests : Placed(o) => order[o].sim \in Sims
    /\ \A e \in packages : Placed(e[2]) /\ order[e[2]].sim = e[1]
    /\ CompletedCarries

Inv == TypeOK /\ RightTables /\ \A q \in Requests : Sound(q)

-----------------------------------------------------------------------------
(* What a step of one handler leaves the others.                           *)

Frame(q) ==
    /\ request' \in [Requests -> Handlers]
    /\ \A p \in Requests \ {q} : request'[p] = request[p]
    /\ Known \subseteq Known'
    /\ packages \subseteq packages'
    /\ retried \subseteq retried'
    /\ \A o \in Requests : Placed(o) =>
          Placed(o)' /\ order'[o].sim = order[o].sim /\ order'[o].kind = order[o].kind
    /\ \A p \in Requests \ {q} :
          /\ Placed(p)' => Placed(p)
          /\ p \notin retried' =>
                order'[p].status = order[p].status \/ order'[p].status = "cancelled"

LEMMA OthersSound ==
  ASSUME Inv, NEW q \in Requests, Frame(q), Sound(q)'
  PROVE  \A p \in Requests : Sound(p)'
<1> SUFFICES ASSUME NEW p \in Requests, p # q PROVE Sound(p)'
  OBVIOUS
<1>1. /\ request'[p] = request[p] /\ Sound(p) /\ Frame(q)
      /\ request[p] \in Handlers
  BY DEF Inv, Frame, TypeOK, Handlers
<1>2. RightPlace(p)'
  BY <1>1 DEF RightPlace, Sound
<1>3. RightOrder(p)'
  <2>1. Holding(p)' <=> Holding(p)
    BY <1>1 DEF Holding
  <2>2. QED
    BY <1>1, <2>1 DEF RightOrder, Sound, Frame, Placed, AtOrder
<1>4. RightOutcome(p)'
  <2>1. (request[p].at = "finish" /\ order[request[p].order].kind = "one_time") =>
           /\ request[p].order \in Requests /\ Placed(request[p].order)
           /\ <<order[request[p].order].sim, request[p].order>> \in packages
    BY <1>1 DEF Sound, RightOrder, RightOutcome, AtOrder
  <2>2. request[p].at = "finish" => request[p].order \in Requests /\ Placed(request[p].order)
    BY <1>1 DEF Sound, RightOrder, AtOrder
  <2>3. (request'[p].at = "finish" /\ order'[request'[p].order].kind = "one_time") =>
              <<order'[request'[p].order].sim, request'[p].order>> \in packages'
    BY <1>1, <2>1, <2>2 DEF Frame
  <2>4. request'[p].at = "final" => <<request'[p].sim, p>> \in packages' \/ p \in retried'
    BY <1>1 DEF Sound, RightOutcome, Frame
  <2>5. (request'[p].doing = "simple" /\ request'[p].at = "load" /\ p \notin retried') =>
              order'[p].status \in {"pending", "cancelled"}
    BY <1>1 DEF Sound, RightOutcome, Frame
  <2>6. QED
    BY <2>3, <2>4, <2>5 DEF RightOutcome
<1>5. QED
  BY <1>2, <1>3, <1>4 DEF Sound

LEMMA Becomes ==
  ASSUME TypeOK, NEW q \in Requests, NEW r \in Handlers,
         request' = [request EXCEPT ![q] = r]
  PROVE  /\ request' \in [Requests -> Handlers]
         /\ request'[q] = r
         /\ \A p \in Requests \ {q} : request'[p] = request[p]
  BY DEF TypeOK, Handlers

\* A handler goes to another point of the same call.
Moved(q, at) ==
    /\ request' \in [Requests -> Handlers]
    /\ \A p \in Requests \ {q} : request'[p] = request[p]
    /\ request'[q] = [request[q] EXCEPT !.at = at]

\* A handler is done.
Left(q) ==
    /\ request' \in [Requests -> Handlers]
    /\ \A p \in Requests \ {q} : request'[p] = request[p]
    /\ request'[q] = Ended

LEMMA GoMoves ==
  ASSUME TypeOK, NEW q \in Requests, NEW at \in Points, Go(q, at)
  PROVE  Moved(q, at)
  BY DEF TypeOK, Handlers, Go, Moved

LEMMA EndedIsSound ==
  /\ Ended \in Handlers
  /\ Ended.at = "done" /\ Ended.doing = "simple" /\ Unused \in Handlers
  /\ Ended.order = Null /\ Ended.sim = Null
  BY DEF Ended, Unused, Local, Handlers, Points, Doing

LEMMA FinishLeaves ==
  ASSUME TypeOK, NEW q \in Requests, Finish(q)
  PROVE  Left(q)
  BY Becomes, EndedIsSound DEF Finish, Left

LEMMA LeftIsSound ==
  ASSUME NEW q \in Requests, Left(q)
  PROVE  Sound(q)'
<1>1. request'[q].at = "done"
  BY EndedIsSound DEF Left
<1>2. RightPlace(q)' /\ RightOrder(q)' /\ RightOutcome(q)'
  BY <1>1 DEF RightPlace, RightOrder, RightOutcome, Holding, Processing, AtOrder
<1>3. QED
  BY <1>2 DEF Sound

Stable == UNCHANGED <<stock, order, packages, retried>>

LEMMA KnownStays ==
  ASSUME Inv, UNCHANGED stock
  PROVE  Known' = Known
  BY DEF Known

\* A step that leaves orders and packages alone.
LEMMA TablesStay ==
  ASSUME Inv, UNCHANGED <<order, packages>>
  PROVE  RightTables'
  BY DEF Inv, RightTables, Placed, CompletedCarries, SimpleOrders

LEMMA FrameStays ==
  ASSUME Inv, NEW q \in Requests, UNCHANGED <<order, packages, retried>>,
         Known \subseteq Known',
         request' \in [Requests -> Handlers],
         \A p \in Requests \ {q} : request'[p] = request[p]
  PROVE  Frame(q)
  BY DEF Frame, Placed

\* A step of q that moves it elsewhere and leaves the tables alone.
LEMMA QuietStep ==
  ASSUME Inv, TypeOK', NEW q \in Requests, Moved(q, request'[q].at) \/ Left(q), Stable, Sound(q)'
  PROVE  Inv'
<1>1. Frame(q)
  BY FrameStays, KnownStays DEF Stable, Moved, Left
<1>2. QED
  BY <1>1, TablesStay, OthersSound DEF Stable, Inv

LEMMA LeavingStep ==
  ASSUME Inv, TypeOK', NEW q \in Requests, Left(q), Stable
  PROVE  Inv'
  BY QuietStep, LeftIsSound

\* A new status of an order that is in the table.
LEMMA OrderWritten ==
  ASSUME Inv, NEW q \in Requests, NEW o \in Requests, Placed(o),
         NEW st \in Statuses \ {"none"},
         order' = [order EXCEPT ![o].status = st],
         UNCHANGED <<stock, packages>>, retried \subseteq retried',
         o = q \/ o \in retried' \/ st = "cancelled",
         (st = "completed" /\ order[o].kind = "one_time") => <<order[o].sim, o>> \in packages,
         request' \in [Requests -> Handlers],
         \A p \in Requests \ {q} : request'[p] = request[p]
  PROVE  /\ Frame(q) /\ RightTables'
         /\ order' \in [Requests -> [status : Statuses, kind : Kinds, sim : Sims \cup {Null}]]
         /\ order'[o] = [order[o] EXCEPT !.status = st]
         /\ \A p \in Requests : p # o => order'[p] = order[p]
<1>1. /\ order'[o] = [order[o] EXCEPT !.status = st]
      /\ \A p \in Requests : p # o => order'[p] = order[p]
      /\ order' \in [Requests -> [status : Statuses, kind : Kinds, sim : Sims \cup {Null}]]
  BY DEF Inv, TypeOK
<1>2. /\ order'[o].status = st /\ order'[o].sim = order[o].sim
      /\ order'[o].kind = order[o].kind
  BY <1>1 DEF Inv, TypeOK
<1>3. \A p \in Requests : Placed(p)' <=> Placed(p)
  BY <1>1, <1>2 DEF Placed, Statuses
<1>4. Known' = Known
  BY KnownStays
<1>5. Frame(q)
  BY <1>1, <1>2, <1>3, <1>4 DEF Frame
<1>6. RightTables'
  <2>1. \A p \in Requests : Placed(p)' => order'[p].sim \in Sims
    BY <1>1, <1>2, <1>3 DEF Inv, RightTables
  <2>2. \A e \in packages' : Placed(e[2])' /\ order'[e[2]].sim = e[1]
    BY <1>1, <1>2, <1>3 DEF Inv, RightTables, TypeOK
  <2>3. CompletedCarries'
    BY <1>1, <1>2, <1>3 DEF Inv, RightTables, CompletedCarries, SimpleOrders, Placed
  <2>4. QED
    BY <2>1, <2>2, <2>3 DEF RightTables
<1>7. QED
  BY <1>1, <1>5, <1>6

-----------------------------------------------------------------------------
(* Each action keeps the invariant.                                        *)

LEMMA InitInv ==
  ASSUME Init
  PROVE  Inv
<1>1. TypeOK
  <2>1. stock \in [Sims -> [status : RowStatuses, batch : Nat]]
    BY DEF Init, RowStatuses, NoRow
  <2>2. order \in [Requests -> [status : Statuses, kind : Kinds, sim : Sims \cup {Null}]]
    BY DEF Init, NoOrder, Statuses, Kinds
  <2>3. request \in [Requests -> Handlers]
    BY EndedIsSound DEF Init
  <2>4. QED
    BY <2>1, <2>2, <2>3, Assumed DEF Init, TypeOK, Handlers
<1>2. RightTables
  BY DEF Init, RightTables, Placed, NoOrder, CompletedCarries, SimpleOrders
<1>3. ASSUME NEW q \in Requests PROVE Sound(q)
  <2>1. request[q].at = "new" /\ request[q].doing = "simple" /\ ~Placed(q)
    BY DEF Init, Unused, Local, Placed, NoOrder
  <2>2. QED
    BY <2>1 DEF Sound, RightPlace, RightOrder, RightOutcome, Holding, AtOrder, Processing
<1>4. QED
  BY <1>1, <1>2, <1>3 DEF Inv

LEMMA BatchIsNat ==
  NextBatch \in Nat
<1> DEFINE Made == {stock[s].batch : s \in Known}
           f == [s \in Known |-> stock[s].batch]
<1>1. IsFiniteSet(Known)
  BY Assumed, FS_Subset DEF Known
<1>2. f \in Surjection(Known, Made)
  BY DEF Surjection
<1>3. IsFiniteSet(Made)
  BY <1>1, <1>2, FS_Surjection
<1>4. Cardinality(Made) \in Nat
  BY <1>3, FS_CardinalityType
<1>5. QED
  BY <1>4 DEF NextBatch

LEMMA SyncInv ==
  ASSUME Inv, NEW q \in Requests, Sync(q)
  PROVE  Inv'
<1>1. PICK list \in SUBSET Sims : Start(q, Local("import", "sync", Null, Null, list))
  BY DEF Sync
<1> DEFINE r == Local("import", "sync", Null, Null, list)
<1>2. r \in Handlers /\ r.at = "import" /\ r.doing = "sync"
  BY DEF Local, Handlers, Points, Doing
<1>3. /\ request' \in [Requests -> Handlers] /\ request'[q] = r
      /\ \A p \in Requests \ {q} : request'[p] = request[p]
  BY <1>1, <1>2, Becomes DEF Inv, Start
<1>4. TypeOK'
  BY <1>3 DEF Inv, TypeOK, Handlers, Sync, Others
<1>5. Sound(q)'
  BY <1>2, <1>3 DEF Sound, RightPlace, RightOrder, RightOutcome, Holding, AtOrder, Processing
<1>6. Frame(q) /\ RightTables'
  BY <1>3, FrameStays, TablesStay, KnownStays DEF Sync, Others
<1>7. QED
  BY <1>4, <1>5, <1>6, OthersSound DEF Inv

LEMMA CreateSimpleOrderInv ==
  ASSUME Inv, NEW q \in Requests, CreateSimpleOrder(q)
  PROVE  Inv'
<1> DEFINE r == Local("find", "simple", Null, Null, {})
<1>1. r \in Handlers /\ r.at = "find" /\ r.doing = "simple"
  BY DEF Local, Handlers, Points, Doing
<1>2. /\ request' \in [Requests -> Handlers] /\ request'[q] = r
      /\ \A p \in Requests \ {q} : request'[p] = request[p]
      /\ request[q].at = "new"
  BY <1>1, Becomes DEF Inv, Start, CreateSimpleOrder
<1>3. TypeOK'
  BY <1>2 DEF Inv, TypeOK, Handlers, CreateSimpleOrder, Others
<1>4. ~Placed(q)'
  BY <1>2 DEF Inv, Sound, RightOrder, CreateSimpleOrder, Placed
<1>5. Sound(q)'
  BY <1>1, <1>2, <1>4 DEF Sound, RightPlace, RightOrder, RightOutcome, Holding, AtOrder, Processing
<1>6. Frame(q) /\ RightTables'
  BY <1>2, FrameStays, TablesStay, KnownStays DEF CreateSimpleOrder, Others
<1>7. QED
  BY <1>3, <1>5, <1>6, OthersSound DEF Inv

LEMMA CreateTopupInv ==
  ASSUME Inv, NEW q \in Requests, NEW s \in ToppedUp, CreateTopup(q, s)
  PROVE  Inv'
<1> DEFINE r == Local("insert", "topup", Null, s, {})
<1>1. r \in Handlers /\ r.at = "insert" /\ r.doing = "topup" /\ r.sim = s /\ s \in Sims
  BY Assumed DEF Local, Handlers, Points, Doing
<1>2. /\ request' \in [Requests -> Handlers] /\ request'[q] = r
      /\ \A p \in Requests \ {q} : request'[p] = request[p]
      /\ request[q].at = "new"
  BY <1>1, Becomes DEF Inv, Start, CreateTopup
<1>3. TypeOK'
  BY <1>2 DEF Inv, TypeOK, Handlers, CreateTopup, Others
<1>4. ~Placed(q)'
  BY <1>2 DEF Inv, Sound, RightOrder, CreateTopup, Placed
<1>5. Sound(q)'
  BY <1>1, <1>2, <1>4 DEF Sound, RightPlace, RightOrder, RightOutcome, Holding, AtOrder, Processing
<1>6. Frame(q) /\ RightTables'
  BY <1>2, FrameStays, TablesStay, KnownStays DEF CreateTopup, Others
<1>7. QED
  BY <1>3, <1>5, <1>6, OthersSound DEF Inv

LEMMA CancelInv ==
  ASSUME Inv, NEW q \in Requests, NEW o \in Requests, Cancel(q, o)
  PROVE  Inv'
<1> DEFINE r == Local("cancel", "cancel", o, Null, {})
<1>1. r \in Handlers /\ r.at = "cancel" /\ r.doing = "cancel" /\ r.order = o
  BY DEF Local, Handlers, Points, Doing
<1>2. /\ request' \in [Requests -> Handlers] /\ request'[q] = r
      /\ \A p \in Requests \ {q} : request'[p] = request[p]
  BY <1>1, Becomes DEF Inv, Start, Cancel
<1>3. TypeOK'
  BY <1>2 DEF Inv, TypeOK, Handlers, Cancel, Others
<1>4. Placed(o)'
  BY DEF Cancel, Placed, Others
<1>5. Sound(q)'
  BY <1>1, <1>2, <1>4 DEF Sound, RightPlace, RightOrder, RightOutcome, Holding, AtOrder, Processing
<1>6. Frame(q) /\ RightTables'
  BY <1>2, FrameStays, TablesStay, KnownStays DEF Cancel, Others
<1>7. QED
  BY <1>3, <1>5, <1>6, OthersSound DEF Inv

LEMMA CompleteWithCreditsInv ==
  ASSUME Inv, NEW q \in Requests, NEW o \in Requests, CompleteWithCredits(q, o)
  PROVE  Inv'
<1> DEFINE r == Local("save", "complete", o, Null, {})
<1>1. r \in Handlers /\ r.at = "save" /\ r.doing = "complete" /\ r.order = o
  BY DEF Local, Handlers, Points, Doing
<1>2. /\ request' \in [Requests -> Handlers] /\ request'[q] = r
      /\ \A p \in Requests \ {q} : request'[p] = request[p]
  BY <1>1, Becomes DEF Inv, Start, CompleteWithCredits
<1>3. TypeOK'
  BY <1>2 DEF Inv, TypeOK, Handlers, CompleteWithCredits, Others
<1>4. Placed(o)'
  BY DEF CompleteWithCredits, Placed, Others
<1>5. Sound(q)'
  BY <1>1, <1>2, <1>4 DEF Sound, RightPlace, RightOrder, RightOutcome, Holding, AtOrder, Processing
<1>6. Frame(q) /\ RightTables'
  BY <1>2, FrameStays, TablesStay, KnownStays DEF CompleteWithCredits, Others
<1>7. QED
  BY <1>3, <1>5, <1>6, OthersSound DEF Inv

\* A step that changes the stock, not the orders.
LEMMA StockStep ==
  ASSUME Inv, TypeOK', NEW q \in Requests, UNCHANGED <<order, packages, retried>>,
         Known \subseteq Known', Moved(q, request'[q].at) \/ Left(q), Sound(q)'
  PROVE  Inv'
<1>1. Frame(q)
  BY FrameStays DEF Moved, Left
<1>2. QED
  BY <1>1, TablesStay, OthersSound DEF Inv

LEMMA ImportInv ==
  ASSUME Inv, NEW q \in Requests, Import(q)
  PROVE  Inv'
<1>1. Left(q)
  BY FinishLeaves DEF Inv, Import
<1>2. stock' \in [Sims -> [status : RowStatuses, batch : Nat]] /\ Known \subseteq Known'
  <2>1. CASE request[q].list \cap Known = {}
    <3>1. PICK good \in SUBSET request[q].list :
             stock' = [s \in Sims |->
                     IF s \in request[q].list
                       THEN [status |-> IF s \in good THEN "Inactive" ELSE "Other",
                             batch |-> NextBatch]
                       ELSE stock[s]]
      BY <2>1 DEF Import
    <3>2. QED
      BY <2>1, <3>1, BatchIsNat DEF Inv, TypeOK, Known, RowStatuses
  <2>2. CASE request[q].list \cap Known # {}
    BY <2>2 DEF Import, Inv, TypeOK, Known
  <2>3. QED
    BY <2>1, <2>2
<1>3. TypeOK'
  BY <1>1, <1>2 DEF Inv, TypeOK, Import, Others, Left, Handlers
<1>4. QED
  BY <1>1, <1>2, <1>3, StockStep, LeftIsSound DEF Import, Others

LEMMA FindInv ==
  ASSUME Inv, NEW q \in Requests, Find(q)
  PROVE  Inv'
<1>1. CASE Finish(q)
  <2>1. Left(q)
    BY <1>1, FinishLeaves DEF Inv
  <2>2. TypeOK'
    BY <2>1 DEF Inv, TypeOK, Find, Others, Left, Handlers
  <2>3. QED
    BY <2>1, <2>2, LeavingStep DEF Find, Others, Stable
<1>2. ASSUME NEW s \in Oldest(Available),
             request' = [request EXCEPT ![q].at = "mark", ![q].sim = s]
      PROVE  Inv'
  <2>1. s \in Sims /\ s \in Known /\ stock[s].status = "Inactive"
    BY DEF Oldest, Available, Known
  <2> DEFINE r == [request[q] EXCEPT !.at = "mark", !.sim = s]
  <2>a. request[q] \in Handlers
    BY DEF Inv, TypeOK, Handlers
  <2>b. /\ r \in Handlers /\ r.at = "mark" /\ r.sim = s
        /\ r.doing = request[q].doing
    BY <2>1, <2>a DEF Handlers, Points
  <2>c. request' = [request EXCEPT ![q] = r]
    BY <1>2
  <2>2. /\ request' \in [Requests -> Handlers]
        /\ \A p \in Requests \ {q} : request'[p] = request[p]
        /\ request'[q].at = "mark" /\ request'[q].sim = s
        /\ request'[q].doing = request[q].doing
    <3> HIDE DEF r
    <3>1. QED
      BY <2>b, <2>c, Becomes DEF Inv
  <2>3. request[q].at = "find" /\ request[q].doing = "simple" /\ ~Placed(q)
    BY DEF Inv, Sound, RightPlace, RightOrder, Find
  <2>4. Sound(q)'
    BY <2>1, <2>2, <2>3
       DEF Sound, RightPlace, RightOrder, RightOutcome, Holding, AtOrder, Processing,
           Find, Others, Placed, Known
  <2>5. TypeOK'
    BY <2>2 DEF Inv, TypeOK, Find, Others, Handlers
  <2>6. Frame(q) /\ RightTables'
    BY <2>2, FrameStays, TablesStay, KnownStays DEF Find, Others
  <2>7. QED
    BY <2>4, <2>5, <2>6, OthersSound DEF Inv
<1>3. QED
  BY <1>1, <1>2 DEF Find

LEMMA MarkEffect ==
  ASSUME Inv, NEW q \in Requests, Mark(q)
  PROVE  /\ request[q].sim \in Known /\ request[q].sim \in Sims
         /\ request[q].doing = "simple" /\ ~Placed(q)
         /\ stock' \in [Sims -> [status : RowStatuses, batch : Nat]]
         /\ stock'[request[q].sim].status = "Allocated"
         /\ \A s \in Sims : s # request[q].sim => stock'[s] = stock[s]
         /\ Known' = Known
         /\ Moved(q, "reload")
<1>1. /\ request[q].sim \in Known /\ request[q].sim \in Sims
      /\ request[q].doing = "simple" /\ ~Placed(q)
  BY DEF Inv, Sound, RightPlace, RightOrder, Mark, Known
<1>2. /\ stock' \in [Sims -> [status : RowStatuses, batch : Nat]]
      /\ stock'[request[q].sim].status = "Allocated"
      /\ \A s \in Sims : s # request[q].sim => stock'[s] = stock[s]
  BY <1>1 DEF Inv, TypeOK, Mark, RowStatuses
<1>3. Known' = Known
  BY <1>1, <1>2 DEF Known
<1>4. Moved(q, "reload")
  BY GoMoves DEF Inv, Mark, Points
<1>5. QED
  BY <1>1, <1>2, <1>3, <1>4

LEMMA MarkInv ==
  ASSUME Inv, NEW q \in Requests, Mark(q)
  PROVE  Inv'
<1>1. raced' \subseteq Sims
  BY MarkEffect DEF Inv, TypeOK, Mark
<1>2. TypeOK'
  BY <1>1, MarkEffect DEF Inv, TypeOK, Mark, Moved, Handlers
<1>3. Sound(q)'
  <2>1. /\ request'[q].at = "reload" /\ request'[q].doing = "simple"
        /\ request'[q].sim = request[q].sim
    <3>1. Moved(q, "reload") /\ request[q].doing = "simple"
      BY MarkEffect
    <3>2. QED
      BY <3>1 DEF Moved, Inv, TypeOK
  <2>2. ~Placed(q)'
    BY MarkEffect DEF Mark, Placed
  <2>3. QED
    BY <2>1, <2>2, MarkEffect
       DEF Sound, RightPlace, RightOrder, RightOutcome, Holding, AtOrder, Processing
<1>4. Moved(q, request'[q].at)
  <2>1. Moved(q, "reload")
    BY MarkEffect
  <2>2. QED
    BY <2>1 DEF Moved, Inv, TypeOK
<1>5. QED
  BY <1>2, <1>3, <1>4, MarkEffect, StockStep DEF Mark

LEMMA ReloadInv ==
  ASSUME Inv, NEW q \in Requests, Reload(q)
  PROVE  Inv'
<1>1. Moved(q, "insert")
  BY GoMoves DEF Inv, Reload, Points
<1>2. /\ request'[q].at = "insert" /\ request'[q].doing = request[q].doing
      /\ request'[q].sim = request[q].sim
  BY <1>1 DEF Moved, Inv, TypeOK
<1>3. request[q].doing = "simple" /\ request[q].sim \in Known /\ ~Placed(q)
  BY DEF Inv, Sound, RightPlace, RightOrder, Holding, Reload
<1>4. Known' = Known /\ ~Placed(q)' /\ Known \subseteq Sims
  BY <1>3, KnownStays DEF Reload, Others, Placed, Known
<1>5. Sound(q)'
  BY <1>2, <1>3, <1>4
     DEF Sound, RightPlace, RightOrder, RightOutcome, Holding, AtOrder, Processing
<1>6. TypeOK'
  BY <1>1 DEF Inv, TypeOK, Reload, Others, Moved, Handlers
<1>7. QED
  BY <1>1, <1>2, <1>5, <1>6, QuietStep DEF Reload, Others, Stable

LEMMA InsertAsMoves ==
  ASSUME Inv, NEW q \in Requests, NEW kind, NEW next \in {"load", "begin"},
         InsertAs(q, kind, next)
  PROVE  /\ request' \in [Requests -> Handlers] /\ request[q].at = "insert"
         /\ \A p \in Requests \ {q} : request'[p] = request[p]
         /\ request'[q].at = next /\ request'[q].order = q
         /\ request'[q].doing = request[q].doing /\ request'[q].sim = request[q].sim
<1> DEFINE r == [request[q] EXCEPT !.at = next, !.order = q]
<1>1. request[q] \in Handlers /\ request[q].at = "insert"
  BY DEF Inv, TypeOK, Handlers, InsertAs
<1>2. /\ r \in Handlers /\ r.at = next /\ r.order = q
      /\ r.doing = request[q].doing /\ r.sim = request[q].sim
  BY <1>1 DEF Handlers, Points
<1>3. request' = [request EXCEPT ![q] = r]
  BY DEF InsertAs
<1> HIDE DEF r
<1>4. QED
  BY <1>1, <1>2, <1>3, Becomes DEF Inv

LEMMA InsertAsInv ==
  ASSUME Inv, NEW q \in Requests, NEW kind \in Kinds, NEW next \in {"load", "begin"},
         InsertAs(q, kind, next),
         \/ request[q].doing = "simple" /\ kind = "one_time" /\ next = "load"
         \/ request[q].doing = "topup" /\ kind = "topup" /\ next = "begin"
  PROVE  Inv'
<1>1. /\ InsertAs(q, kind, next)
      /\ \/ request[q].doing = "simple" /\ kind = "one_time" /\ next = "load"
         \/ request[q].doing = "topup" /\ kind = "topup" /\ next = "begin"
  OBVIOUS
<1>2. ~Placed(q) /\ request[q].sim \in Sims /\ request[q].at = "insert"
  BY <1>1 DEF Inv, Sound, RightOrder, InsertAs
<1>3. /\ order'[q] = [status |-> "pending", kind |-> kind, sim |-> request[q].sim]
      /\ \A o \in Requests \ {q} : order'[o] = order[o]
      /\ order' \in [Requests -> [status : Statuses, kind : Kinds, sim : Sims \cup {Null}]]
  BY <1>1, <1>2 DEF Inv, TypeOK, InsertAs, Statuses
<1>4. /\ request' \in [Requests -> Handlers]
      /\ \A p \in Requests \ {q} : request'[p] = request[p]
      /\ request'[q].at = next /\ request'[q].order = q
      /\ request'[q].doing = request[q].doing /\ request'[q].sim = request[q].sim
  BY <1>1, InsertAsMoves
<1>5. TypeOK'
  BY <1>1, <1>3, <1>4 DEF Inv, TypeOK, InsertAs, Others, Handlers
<1>6. Known' = Known
  BY <1>1, KnownStays DEF InsertAs, Others
<1>7. Frame(q)
  BY <1>1, <1>2, <1>3, <1>4, <1>6 DEF Frame, Placed, InsertAs, Others
<1>8. RightTables'
  <2>1. \A o \in Requests : Placed(o)' => order'[o].sim \in Sims
    BY <1>2, <1>3 DEF Inv, RightTables, Placed
  <2>2. \A e \in packages' : Placed(e[2])' /\ order'[e[2]].sim = e[1]
    BY <1>1, <1>2, <1>3 DEF Inv, RightTables, TypeOK, Placed, InsertAs, Others
  <2>3. CompletedCarries'
    BY <1>1, <1>3 DEF Inv, RightTables, CompletedCarries, SimpleOrders, InsertAs, Others
  <2>4. QED
    BY <2>1, <2>2, <2>3 DEF RightTables
<1>9. Sound(q)'
  <2>1. request[q].doing = "simple" => request[q].sim \in Known
    BY <1>2 DEF Inv, Sound, RightOrder, Holding
  <2>2. Placed(q)' /\ order'[q].status = "pending"
    BY <1>3 DEF Placed
  <2>3. RightPlace(q)'
    BY <1>1, <1>4 DEF RightPlace, Processing
  <2>4. RightOrder(q)'
    BY <1>1, <1>3, <1>4, <1>6, <2>1, <2>2 DEF RightOrder, Holding, AtOrder, Processing
  <2>5. RightOutcome(q)'
    BY <1>1, <1>3, <1>4, <2>2 DEF RightOutcome
  <2>6. QED
    BY <2>3, <2>4, <2>5 DEF Sound
<1>10. QED
  BY <1>5, <1>7, <1>8, <1>9, OthersSound DEF Inv

LEMMA InsertInv ==
  ASSUME Inv, NEW q \in Requests, Insert(q)
  PROVE  Inv'
<1>1. CASE request[q].doing = "simple" /\ InsertAs(q, "one_time", "load")
  BY <1>1, InsertAsInv DEF Kinds
<1>2. CASE request[q].doing = "topup" /\ InsertAs(q, "topup", "begin")
  BY <1>2, InsertAsInv DEF Kinds
<1>3. QED
  BY <1>1, <1>2 DEF Insert

LEMMA ReleaseEffect ==
  ASSUME Inv, NEW q \in Requests, Release(q)
  PROVE  /\ request[q].sim \in Known /\ request[q].sim \in Sims
         /\ request[q].doing = "simple"
         /\ stock' \in [Sims -> [status : RowStatuses, batch : Nat]]
         /\ stock'[request[q].sim].status = "Inactive"
         /\ \A s \in Sims : s # request[q].sim => stock'[s] = stock[s]
         /\ Known' = Known
         /\ Left(q)
<1>1. /\ request[q].sim \in Known /\ request[q].sim \in Sims
      /\ request[q].doing = "simple"
  BY DEF Inv, Sound, RightPlace, RightOrder, Holding, Release, Known
<1>2. /\ stock' \in [Sims -> [status : RowStatuses, batch : Nat]]
      /\ stock'[request[q].sim].status = "Inactive"
      /\ \A s \in Sims : s # request[q].sim => stock'[s] = stock[s]
  BY <1>1 DEF Inv, TypeOK, Release, RowStatuses
<1>3. Known' = Known
  BY <1>1, <1>2 DEF Known
<1>4. Left(q)
  BY FinishLeaves DEF Inv, Release
<1>5. QED
  BY <1>1, <1>2, <1>3, <1>4

LEMMA ReleaseInv ==
  ASSUME Inv, NEW q \in Requests, Release(q)
  PROVE  Inv'
<1>1. loose' \subseteq Sims
  BY ReleaseEffect DEF Inv, TypeOK, Release
<1>2. TypeOK'
  BY <1>1, ReleaseEffect DEF Inv, TypeOK, Release, Left, Handlers
<1>3. QED
  BY <1>2, ReleaseEffect, LeftIsSound, StockStep DEF Release


\* Where an exception takes a handler.
LEMMA RaiseEffect ==
  ASSUME Inv, NEW q \in Requests, Raise(q)
  PROVE  \/ /\ Moved(q, "fail") /\ request[q].at \in Processing
         \/ /\ Moved(q, "release") /\ request[q].doing = "simple"
            /\ request[q].at \in {"insert", "load", "begin", "fail", "final"}
         \/ Left(q)
<1>1. Go(q, "fail") => Moved(q, "fail")
  BY GoMoves DEF Inv, Points
<1>2. Go(q, "release") => Moved(q, "release")
  BY GoMoves DEF Inv, Points
<1>3. Finish(q) => Left(q)
  BY FinishLeaves DEF Inv
<1>4. \/ Go(q, "fail") /\ request[q].at \in Processing
      \/ /\ Go(q, "release") /\ request[q].doing = "simple"
         /\ request[q].at \in {"insert", "load", "begin", "fail", "final"}
      \/ Finish(q)
  BY DEF Raise, Processing
<1>5. QED
  BY <1>1, <1>2, <1>3, <1>4

LEMMA MovedFields ==
  ASSUME Inv, NEW q \in Requests, NEW at \in Points, Moved(q, at)
  PROVE  /\ request'[q].at = at /\ request'[q].doing = request[q].doing
         /\ request'[q].order = request[q].order /\ request'[q].sim = request[q].sim
         /\ request'[q].list = request[q].list
         /\ Moved(q, request'[q].at)
  BY DEF Moved, Inv, TypeOK

LEMMA RaiseSound ==
  ASSUME Inv, NEW q \in Requests, Raise(q), Frame(q), Placed(q)' => Placed(q)
  PROVE  Sound(q)' /\ (Moved(q, request'[q].at) \/ Left(q))
<1>1. Sound(q) /\ Frame(q) /\ (Placed(q)' => Placed(q))
  BY DEF Inv
<1>2. CASE Moved(q, "fail") /\ request[q].at \in Processing
  <2>1. /\ request'[q].at = "fail" /\ request'[q].doing = request[q].doing
        /\ request'[q].order = request[q].order /\ request'[q].sim = request[q].sim
        /\ Moved(q, request'[q].at)
    BY <1>2, MovedFields DEF Points
  <2>2. RightPlace(q)'
    BY <1>1, <1>2, <2>1 DEF Sound, RightPlace, Processing
  <2>3. RightOrder(q)'
    BY <1>1, <1>2, <2>1 DEF Sound, RightOrder, RightPlace, Processing, AtOrder, Holding, Frame
  <2>4. RightOutcome(q)'
    BY <2>1 DEF RightOutcome
  <2>5. QED
    BY <2>1, <2>2, <2>3, <2>4 DEF Sound
<1>3. CASE /\ Moved(q, "release") /\ request[q].doing = "simple"
           /\ request[q].at \in {"insert", "load", "begin", "fail", "final"}
  <2>1. /\ request'[q].at = "release" /\ request'[q].doing = "simple"
        /\ request'[q].order = request[q].order /\ request'[q].sim = request[q].sim
        /\ Moved(q, request'[q].at)
    BY <1>3, MovedFields DEF Points
  <2>2. RightPlace(q)'
    BY <2>1 DEF RightPlace, Processing
  <2>3. RightOrder(q)'
    BY <1>1, <1>3, <2>1 DEF Sound, RightOrder, Processing, AtOrder, Holding, Frame
  <2>4. RightOutcome(q)'
    BY <2>1 DEF RightOutcome
  <2>5. QED
    BY <2>1, <2>2, <2>3, <2>4 DEF Sound
<1>4. CASE Left(q)
  BY <1>4, LeftIsSound
<1>5. QED
  BY <1>2, <1>3, <1>4, RaiseEffect

\* An exception in a step that writes nothing.
LEMMA RaiseInv ==
  ASSUME Inv, NEW q \in Requests, Raise(q), Stable, TypeOK'
  PROVE  Inv'
<1>1. request' \in [Requests -> Handlers] /\ \A p \in Requests \ {q} : request'[p] = request[p]
  BY RaiseEffect DEF Moved, Left
<1>2. Frame(q)
  BY <1>1, FrameStays, KnownStays DEF Stable
<1>3. Placed(q)' => Placed(q)
  BY DEF Stable, Placed
<1>4. QED
  BY <1>2, <1>3, RaiseSound, QuietStep

LEMMA LoadInv ==
  ASSUME Inv, NEW q \in Requests, Load(q)
  PROVE  Inv'
<1>0. /\ request[q].at = "load" /\ Sound(q) /\ Stable
      /\ UNCHANGED <<stock, order, Others>>
  BY DEF Load, Inv, Others, Stable
<1>1. request' \in [Requests -> Handlers] => TypeOK'
  BY <1>0 DEF Inv, TypeOK, Others, Handlers
<1>2. CASE Go(q, "begin")
  <2>1. Moved(q, "begin")
    BY <1>2, GoMoves DEF Inv, Points
  <2>2. /\ request'[q].at = "begin" /\ request'[q].doing = request[q].doing
        /\ request'[q].order = request[q].order /\ request'[q].sim = request[q].sim
        /\ Moved(q, request'[q].at)
    BY <2>1, MovedFields DEF Points
  <2>3. Known' = Known
    BY <1>0, KnownStays
  <2>4. RightPlace(q)'
    BY <1>0, <2>2 DEF Sound, RightPlace, Processing
  <2>5. RightOrder(q)'
    BY <1>0, <2>2, <2>3
       DEF Sound, RightOrder, RightPlace, Processing, AtOrder, Holding, Placed, Stable
  <2>6. RightOutcome(q)'
    BY <2>2 DEF RightOutcome
  <2>7. QED
    BY <1>0, <1>1, <2>1, <2>2, <2>4, <2>5, <2>6, QuietStep DEF Sound, Moved
<1>3. CASE Return(q) /\ order[request[q].order].status \in {"completed", "processing"}
  <2>1. CASE request[q].doing = "simple"
    <3>1. Moved(q, "final")
      BY <1>3, <2>1, GoMoves DEF Inv, Points, Return
    <3>2. /\ request'[q].at = "final" /\ request'[q].doing = request[q].doing
          /\ request'[q].order = request[q].order /\ request'[q].sim = request[q].sim
          /\ Moved(q, request'[q].at)
      BY <3>1, MovedFields DEF Points
    <3>3. Known' = Known
      BY <1>0, KnownStays
    <3>4. request[q].order = q /\ q \in retried
      BY <1>0, <1>3, <2>1 DEF Sound, RightOrder, RightOutcome, AtOrder
    <3>5. RightPlace(q)'
      BY <2>1, <3>2 DEF RightPlace, Processing
    <3>6. RightOrder(q)'
      BY <1>0, <3>2, <3>3 DEF Sound, RightOrder, Processing, AtOrder, Holding, Placed, Stable
    <3>7. RightOutcome(q)'
      BY <1>0, <3>2, <3>4 DEF RightOutcome, Stable
    <3>8. QED
      BY <1>0, <1>1, <3>1, <3>2, <3>5, <3>6, <3>7, QuietStep DEF Sound, Moved
  <2>2. CASE request[q].doing # "simple"
    <3>1. Left(q)
      BY <1>3, <2>2, FinishLeaves DEF Inv, Return
    <3>2. QED
      BY <1>0, <1>1, <3>1, LeavingStep DEF Left
  <2>3. QED
    BY <2>1, <2>2
<1>4. CASE Raise(q)
  <2>1. request' \in [Requests -> Handlers]
    BY <1>4, RaiseEffect DEF Moved, Left
  <2>2. QED
    BY <1>0, <1>1, <1>4, <2>1, RaiseInv
<1>5. QED
  <2>1. Go(q, "begin") \/ Raise(q)
        \/ (Return(q) /\ order[request[q].order].status \in {"completed", "processing"})
    BY DEF Load
  <2>2. QED
    BY <1>2, <1>3, <1>4, <2>1

LEMMA BeginInv ==
  ASSUME Inv, NEW q \in Requests, Begin(q)
  PROVE  Inv'
<1> DEFINE o == request[q].order
<1>1. /\ request[q].at = "begin" /\ Sound(q)
      /\ order' = [order EXCEPT ![o].status = "processing"]
      /\ UNCHANGED <<stock, Others>> /\ Go(q, "activate")
  BY DEF Begin, SetStatus, Inv
<1>2. Moved(q, "activate")
  BY <1>1, GoMoves DEF Inv, Points
<1>3. /\ request'[q].at = "activate" /\ request'[q].doing = request[q].doing
      /\ request'[q].order = o /\ request'[q].sim = request[q].sim
  BY <1>2, MovedFields DEF Points
<1>4. o \in Requests /\ Placed(o) /\ (o = q \/ o \in retried)
  BY <1>1 DEF Sound, RightPlace, RightOrder, AtOrder, Processing
<1>5. /\ Frame(q) /\ RightTables'
      /\ order' \in [Requests -> [status : Statuses, kind : Kinds, sim : Sims \cup {Null}]]
  <2> HIDE DEF o
  <2>1. QED
    BY <1>1, <1>2, <1>4, OrderWritten DEF Moved, Others, Statuses
<1>6. TypeOK'
  BY <1>1, <1>2, <1>5 DEF Inv, TypeOK, Others, Moved, Handlers
<1>7. RightPlace(q)' /\ RightOutcome(q)'
  BY <1>1, <1>3 DEF Sound, RightPlace, RightOutcome, Processing
<1>8. RightOrder(q)'
  BY <1>1, <1>3, <1>4, <1>5 DEF Sound, RightOrder, RightPlace, Processing, AtOrder, Holding, Frame
<1>9. QED
  BY <1>5, <1>6, <1>7, <1>8, OthersSound DEF Inv, Sound

\* A package at the OCS is one of an order in the table, on the eSIM it names.
LEMMA PackageAdded ==
  ASSUME Inv, NEW o \in Requests, Placed(o),
         packages' \in {packages, packages \cup {<<order[o].sim, o>>}},
         UNCHANGED order
  PROVE  RightTables' /\ packages' \subseteq Sims \X Requests /\ packages \subseteq packages'
<1>1. order[o].sim \in Sims
  BY DEF Inv, RightTables
<1>2. packages' \subseteq Sims \X Requests /\ packages \subseteq packages'
  BY <1>1 DEF Inv, TypeOK
<1>3. \A e \in packages' : Placed(e[2])' /\ order'[e[2]].sim = e[1]
  BY <1>2 DEF Inv, RightTables, TypeOK, Placed
<1>4. CompletedCarries'
  BY <1>2 DEF Inv, RightTables, CompletedCarries, SimpleOrders
<1>5. QED
  BY <1>2, <1>3, <1>4 DEF Inv, RightTables, Placed

LEMMA ActivateInv ==
  ASSUME Inv, NEW q \in Requests, Activate(q)
  PROVE  Inv'
<1> DEFINE o == request[q].order
<1>1. /\ request[q].at = "activate" /\ Sound(q)
      /\ UNCHANGED <<stock, order, History>>
      /\ packages' \in {packages, packages \cup {<<order[o].sim, o>>}}
  BY DEF Activate, Inv
<1>2. o \in Requests /\ Placed(o)
  BY <1>1 DEF Sound, RightOrder, AtOrder
<1>3. RightTables' /\ packages' \subseteq Sims \X Requests /\ packages \subseteq packages'
  <2> HIDE DEF o
  <2>1. QED
    BY <1>1, <1>2, PackageAdded
<1>4. Known' = Known
  BY <1>1, KnownStays
<1>5. \/ Go(q, "fail")
      \/ Go(q, "finish") /\ (order[o].kind = "one_time" => <<order[o].sim, o>> \in packages')
  BY DEF Activate, InsistsOnPackage
<1>6. ASSUME NEW at \in {"fail", "finish"}, Go(q, at),
             at = "finish" =>
               (order[o].kind = "one_time" => <<order[o].sim, o>> \in packages')
      PROVE  Inv'
  <2>1. Moved(q, at)
    BY <1>6, GoMoves DEF Inv, Points
  <2>2. /\ request'[q].at = at /\ request'[q].doing = request[q].doing
        /\ request'[q].order = o /\ request'[q].sim = request[q].sim
    BY <2>1, MovedFields DEF Points
  <2>3. Frame(q)
    BY <1>1, <1>3, <1>4, <2>1 DEF Frame, Moved, History, Placed
  <2>4. TypeOK'
    BY <1>1, <1>3, <2>1 DEF Inv, TypeOK, History, Moved, Handlers
  <2>5. RightPlace(q)'
    BY <1>1, <2>2 DEF Sound, RightPlace, Processing
  <2>6. RightOrder(q)'
    BY <1>1, <1>2, <2>2, <2>3 DEF Sound, RightOrder, RightPlace, Processing, AtOrder, Holding, Frame
  <2>7. RightOutcome(q)'
    BY <1>1, <1>6, <2>2 DEF RightOutcome
  <2>8. QED
    BY <1>3, <2>3, <2>4, <2>5, <2>6, <2>7, OthersSound DEF Inv, Sound
<1>7. QED
  BY <1>5, <1>6

LEMMA FinishOrderInv ==
  ASSUME Inv, NEW q \in Requests, FinishOrder(q)
  PROVE  Inv'
<1> DEFINE o == request[q].order
<1>1. /\ request[q].at = "finish" /\ Sound(q)
      /\ order' = [order EXCEPT ![o].status = "completed"]
      /\ UNCHANGED <<stock, Others>> /\ Return(q)
  BY DEF FinishOrder, SetStatus, Inv
<1>2. o \in Requests /\ Placed(o) /\ (o = q \/ o \in retried)
  BY <1>1 DEF Sound, RightPlace, RightOrder, AtOrder, Processing
<1>3. order[o].kind = "one_time" => <<order[o].sim, o>> \in packages
  BY <1>1 DEF Sound, RightOutcome
<1>4. \/ request[q].doing = "simple" /\ Moved(q, "final")
      \/ Left(q)
  BY <1>1, GoMoves, FinishLeaves DEF Return, Points, Inv
<1>5. /\ Frame(q) /\ RightTables'
      /\ order' \in [Requests -> [status : Statuses, kind : Kinds, sim : Sims \cup {Null}]]
  <2> HIDE DEF o
  <2>1. QED
    BY <1>1, <1>2, <1>3, <1>4, OrderWritten DEF Moved, Left, Others, Statuses
<1>6. TypeOK'
  BY <1>1, <1>4, <1>5 DEF Inv, TypeOK, Others, Moved, Left, Handlers
<1>7. Sound(q)'
  <2>1. CASE request[q].doing = "simple" /\ Moved(q, "final")
    <3>1. /\ request'[q].at = "final" /\ request'[q].doing = "simple"
          /\ request'[q].order = o /\ request'[q].sim = request[q].sim
      BY <2>1, MovedFields DEF Points
    <3>2. /\ o = q /\ order[q].kind = "one_time" /\ order[q].sim = request[q].sim
          /\ request[q].sim \in Known
      BY <1>1, <2>1 DEF Sound, RightOrder, AtOrder, Holding
    <3>3. RightPlace(q)'
      BY <3>1 DEF RightPlace, Processing
    <3>4. RightOrder(q)'
      BY <1>2, <1>5, <3>1, <3>2 DEF RightOrder, Processing, AtOrder, Holding, Frame
    <3>5. RightOutcome(q)'
      BY <1>3, <1>5, <3>1, <3>2 DEF RightOutcome, Frame
    <3>6. QED
      BY <3>3, <3>4, <3>5 DEF Sound
  <2>2. QED
    BY <1>4, <2>1, LeftIsSound
<1>8. QED
  BY <1>5, <1>6, <1>7, OthersSound DEF Inv

LEMMA FailOrderInv ==
  ASSUME Inv, NEW q \in Requests, FailOrder(q)
  PROVE  Inv'
<1> DEFINE o == request[q].order
<1>1. /\ request[q].at = "fail" /\ Sound(q)
      /\ order' = [order EXCEPT ![o].status = "failed"]
      /\ UNCHANGED <<stock, Others>> /\ Raise(q)
  BY DEF FailOrder, SetStatus, Inv
<1>2. o \in Requests /\ Placed(o) /\ (o = q \/ o \in retried)
  BY <1>1 DEF Sound, RightPlace, RightOrder, AtOrder, Processing
<1>3. /\ request' \in [Requests -> Handlers]
      /\ \A p \in Requests \ {q} : request'[p] = request[p]
  BY <1>1, RaiseEffect DEF Moved, Left
<1>4. /\ Frame(q) /\ RightTables'
      /\ order' \in [Requests -> [status : Statuses, kind : Kinds, sim : Sims \cup {Null}]]
      /\ order'[o] = [order[o] EXCEPT !.status = "failed"]
      /\ \A p \in Requests : p # o => order'[p] = order[p]
  <2> HIDE DEF o
  <2>1. QED
    BY <1>1, <1>2, <1>3, OrderWritten DEF Others, Statuses
<1>5. Placed(q)' => Placed(q)
  BY <1>2, <1>4 DEF Placed
<1>6. TypeOK'
  BY <1>1, <1>3, <1>4 DEF Inv, TypeOK, Others, Handlers
<1>7. QED
  BY <1>1, <1>4, <1>5, <1>6, RaiseSound, OthersSound DEF Inv

LEMMA FinalInv ==
  ASSUME Inv, NEW q \in Requests, Final(q)
  PROVE  Inv'
<1>1. Left(q)
  BY FinishLeaves DEF Final, Inv
<1>2. TypeOK'
  BY <1>1 DEF Inv, TypeOK, Final, Others, Left, Handlers
<1>3. QED
  BY <1>1, <1>2, LeavingStep DEF Final, Others, Stable

LEMMA CancelOrderInv ==
  ASSUME Inv, NEW q \in Requests, CancelOrder(q)
  PROVE  Inv'
<1> DEFINE o == request[q].order
<1>1. /\ request[q].at = "cancel" /\ Sound(q)
      /\ order' = [order EXCEPT ![o].status = "cancelled"]
      /\ UNCHANGED <<stock, Others>> /\ Finish(q)
  BY DEF CancelOrder, SetStatus, Inv
<1>2. o \in Requests /\ Placed(o)
  BY <1>1 DEF Sound, RightOrder, AtOrder
<1>3. Left(q)
  BY <1>1, FinishLeaves DEF Inv
<1>4. /\ Frame(q) /\ RightTables'
      /\ order' \in [Requests -> [status : Statuses, kind : Kinds, sim : Sims \cup {Null}]]
  <2> HIDE DEF o
  <2>1. QED
    BY <1>1, <1>2, <1>3, OrderWritten DEF Left, Others, Statuses
<1>5. TypeOK'
  BY <1>1, <1>3, <1>4 DEF Inv, TypeOK, Others, Left, Handlers
<1>6. QED
  BY <1>3, <1>4, <1>5, LeftIsSound, OthersSound DEF Inv

LEMMA SavePendingInv ==
  ASSUME Inv, NEW q \in Requests, SavePending(q)
  PROVE  Inv'
<1> DEFINE o == request[q].order
<1>1. /\ request[q].at = "save" /\ Sound(q)
      /\ order' = [order EXCEPT ![o].status = "pending"]
      /\ retried' = retried \cup {o}
      /\ Go(q, "load")
      /\ UNCHANGED <<stock, packages, raced, loose, cut, faults, crashes>>
  BY DEF SavePending, Inv
<1>2. o \in Requests /\ Placed(o) /\ o \in retried' /\ request[q].doing = "complete"
  BY <1>1 DEF Sound, RightPlace, RightOrder, AtOrder
<1>3. Moved(q, "load")
  BY <1>1, GoMoves DEF Inv, Points
<1>4. /\ request'[q].at = "load" /\ request'[q].doing = "complete"
      /\ request'[q].order = o
  BY <1>2, <1>3, MovedFields DEF Points
<1>5. /\ Frame(q) /\ RightTables'
      /\ order' \in [Requests -> [status : Statuses, kind : Kinds, sim : Sims \cup {Null}]]
  <2> HIDE DEF o
  <2>1. QED
    BY <1>1, <1>2, <1>3, OrderWritten DEF Moved, Statuses
<1>6. TypeOK'
  BY <1>1, <1>2, <1>3, <1>5 DEF Inv, TypeOK, Moved, Handlers
<1>7. RightPlace(q)' /\ RightOutcome(q)'
  BY <1>4 DEF RightPlace, RightOutcome, Processing
<1>8. RightOrder(q)'
  BY <1>2, <1>4, <1>5 DEF RightOrder, Processing, AtOrder, Holding, Frame
<1>9. QED
  BY <1>5, <1>6, <1>7, <1>8, OthersSound DEF Inv, Sound

LEMMA FaultInv ==
  ASSUME Inv, NEW q \in Requests, Fault(q)
  PROVE  Inv'
<1>1. Raise(q) /\ Stable
  BY DEF Fault, Stable
<1>2. request' \in [Requests -> Handlers]
  BY <1>1, RaiseEffect DEF Moved, Left
<1>3. faults' \in 0..MaxTroubles
  BY Assumed DEF Fault, Inv, TypeOK
<1>4. TypeOK'
  BY <1>2, <1>3 DEF Inv, TypeOK, Fault, Handlers
<1>5. QED
  BY <1>1, <1>4, RaiseInv

LEMMA CrashInv ==
  ASSUME Inv, Crash
  PROVE  Inv'
<1>1. /\ request' \in [Requests -> Handlers]
      /\ \A q \in Requests : request'[q] = Ended \/ request'[q] = request[q]
      /\ \A q \in InFlight : request'[q] = Ended
  BY EndedIsSound DEF Crash, Inv, TypeOK, Handlers, InFlight
<1>2. cut' \subseteq Sims
  <2>1. ASSUME NEW p \in Requests, Holding(p) PROVE request[p].sim \in Sims
    BY <2>1 DEF Inv, Sound, RightOrder, Known
  <2>2. QED
    BY <2>1 DEF Crash, Inv, TypeOK
<1>3. crashes' \in 0..MaxTroubles
  BY Assumed DEF Crash, Inv, TypeOK
<1>4. TypeOK'
  BY <1>1, <1>2, <1>3 DEF Inv, TypeOK, Crash, Handlers
<1>5. ASSUME NEW q \in Requests PROVE Sound(q)'
  <2>1. CASE request'[q] = Ended
    <3>1. request'[q].at = "done"
      BY <2>1, EndedIsSound
    <3>2. RightPlace(q)' /\ RightOrder(q)' /\ RightOutcome(q)'
      BY <3>1 DEF RightPlace, RightOrder, RightOutcome, Holding, Processing, AtOrder
    <3>3. QED
      BY <3>2 DEF Sound
  <2>2. CASE request'[q] = request[q] /\ request[q].at \in {"new", "done"}
    <3>1. request'[q].at \in {"new", "done"} /\ Sound(q)
      BY <2>2 DEF Inv
    <3>2. ~Placed(q)' \/ request'[q].at = "done"
      BY <2>2, <3>1 DEF Sound, RightOrder, Crash, Placed
    <3>3. RightPlace(q)' /\ RightOrder(q)' /\ RightOutcome(q)'
      BY <3>1, <3>2 DEF RightPlace, RightOrder, RightOutcome, Holding, Processing, AtOrder
    <3>4. QED
      BY <3>3 DEF Sound
  <2>3. QED
    BY <1>1, <2>1, <2>2 DEF InFlight
<1>6. QED
  BY <1>4, <1>5, TablesStay DEF Inv, Crash

LEMMA NextInv ==
  ASSUME Inv, [Next]_vars
  PROVE  Inv'
<1>1. CASE UNCHANGED vars
  BY <1>1
     DEF vars, Inv, TypeOK, RightTables, CompletedCarries, SimpleOrders, Placed, Sound,
         RightPlace, RightOrder, RightOutcome, Holding, Known
<1>2. ASSUME NEW q \in Requests, NEW s \in ToppedUp, CreateTopup(q, s) PROVE Inv'
  BY <1>2, CreateTopupInv
<1>3. ASSUME NEW q \in Requests, NEW o \in Requests, Cancel(q, o) \/ CompleteWithCredits(q, o)
      PROVE  Inv'
  BY <1>3, CancelInv, CompleteWithCreditsInv
<1>4. ASSUME NEW q \in Requests, Step(q) PROVE Inv'
  BY <1>4, ImportInv, FindInv, MarkInv, ReloadInv, InsertInv, ReleaseInv, LoadInv, BeginInv,
     ActivateInv, FinishOrderInv, FailOrderInv, FinalInv, CancelOrderInv, SavePendingInv
     DEF Step
<1>5. ASSUME NEW q \in Requests, Sync(q) \/ CreateSimpleOrder(q) \/ Fault(q) PROVE Inv'
  BY <1>5, SyncInv, CreateSimpleOrderInv, FaultInv
<1>6. CASE Crash
  BY <1>6, CrashInv
<1>7. QED
  BY <1>1, <1>2, <1>3, <1>4, <1>5, <1>6 DEF Next

LEMMA InvAlways ==
  Spec => []Inv
<1>1. Init => Inv
  BY InitInv
<1>2. Inv /\ [Next]_vars => Inv'
  BY NextInv
<1>3. QED
  BY <1>1, <1>2, PTL DEF Spec

\* Every row, order, handler and counter stays what the code can make of it.
THEOREM Typed ==
  Spec => []TypeOK
<1>1. Inv => TypeOK
  BY DEF Inv
<1>2. QED
  BY <1>1, InvAlways, PTL

\* A simple order is never completed without its package on the eSIM it names,
\* whatever overlaps, fails or restarts: processOrder completes an order only on an
\* answer that has a package in it (orders.service.ts).
THEOREM CompletedHaveTheirPackage ==
  Spec => []CompletedCarries
<1>1. Inv => CompletedCarries
  BY DEF Inv, RightTables
<1>2. QED
  BY <1>1, InvAlways, PTL

-----------------------------------------------------------------------------
(* Esims implements Stock.                                                 *)

Eyed == {e \in Sims \X Requests : request[e[2]].at = "mark" /\ request[e[2]].sim = e[1]}
Lent == {e \in Sims \X Requests : Holding(e[2]) /\ request[e[2]].sim = e[1]}

StockStutters == UNCHANGED <<Known, Available, Eyed, Lent>>
StockSteps == StockStutters \/ Library!Next

LEMMA StockStands ==
  ASSUME UNCHANGED stock
  PROVE  Known' = Known /\ Available' = Available
  BY DEF Known, Available

\* Who leaves no longer looks at an eSIM and no longer has one.
LEMMA LeavingIsLeave ==
  ASSUME Inv, NEW q \in Requests, Left(q), UNCHANGED stock
  PROVE  StockSteps
<1>1. request'[q].at = "done" /\ \A p \in Requests \ {q} : request'[p] = request[p]
  BY EndedIsSound DEF Left
<1>2. ~Holding(q)' /\ \A p \in Requests \ {q} : Holding(p)' <=> Holding(p)
  BY <1>1 DEF Holding
<1>3. Eyed' = {e \in Eyed : e[2] \notin {q}}
  BY <1>1 DEF Eyed
<1>4. Lent' = {e \in Lent : e[2] \notin {q}}
  BY <1>1, <1>2 DEF Lent
<1>5. Library!Leave({q})
  BY <1>3, <1>4, StockStands DEF Library!Leave, Eyed, Lent
<1>6. QED
  BY <1>5 DEF StockSteps, Library!Next

\* Other steps of a handler that do not touch the stock are none of its business.
LEMMA GoingOnIsStutter ==
  ASSUME Inv, NEW q \in Requests, UNCHANGED stock,
         \A p \in Requests \ {q} : request'[p] = request[p],
         request[q].at # "mark", request'[q].at # "mark",
         Holding(q)' <=> Holding(q),
         Holding(q) => request'[q].sim = request[q].sim
  PROVE  StockSteps
<1>1. \A p \in Requests : Holding(p)' <=> Holding(p)
  BY DEF Holding
<1>2. Eyed' = Eyed
  BY DEF Eyed
<1>3. Lent' = Lent
  BY <1>1 DEF Lent
<1>4. QED
  BY <1>2, <1>3, StockStands DEF StockSteps, StockStutters

LEMMA MovingOnIsStutter ==
  ASSUME Inv, NEW q \in Requests, NEW at \in Points \ {"new", "done", "find", "mark"},
         Moved(q, at), UNCHANGED stock,
         request[q].at \notin {"new", "done", "find", "mark"}
  PROVE  StockSteps
<1>1. request'[q].at = at /\ request'[q].doing = request[q].doing
      /\ request'[q].sim = request[q].sim
  BY MovedFields
<1>2. Holding(q)' <=> Holding(q)
  BY <1>1 DEF Holding
<1>3. QED
  BY <1>1, <1>2, GoingOnIsStutter DEF Moved

LEMMA StartingIsStutter ==
  ASSUME Inv, NEW q \in Requests, NEW r \in Handlers, Start(q, r), UNCHANGED stock,
         r.at # "mark", r.doing # "simple" \/ r.at = "find"
  PROVE  StockSteps
<1>1. /\ request[q].at = "new" /\ request'[q] = r
      /\ \A p \in Requests \ {q} : request'[p] = request[p]
  BY Becomes DEF Start, Inv
<1>2. ~Holding(q) /\ ~Holding(q)'
  BY <1>1 DEF Holding
<1>3. QED
  BY <1>1, <1>2, GoingOnIsStutter

LEMMA StartsStep ==
  ASSUME Inv, NEW q \in Requests,
         \/ Sync(q) \/ CreateSimpleOrder(q)
         \/ \E s \in ToppedUp : CreateTopup(q, s)
         \/ \E o \in Requests : Cancel(q, o) \/ CompleteWithCredits(q, o)
  PROVE  StockSteps
<1>1. ASSUME NEW list \in SUBSET Sims, Start(q, Local("import", "sync", Null, Null, list)),
             UNCHANGED stock
      PROVE  StockSteps
  <2> DEFINE r == Local("import", "sync", Null, Null, list)
  <2>1. r \in Handlers /\ r.at = "import" /\ r.doing = "sync"
    BY DEF Local, Handlers, Points, Doing
  <2> HIDE DEF r
  <2>2. QED
    BY <1>1, <2>1, StartingIsStutter DEF r
<1>2. ASSUME CreateSimpleOrder(q) PROVE StockSteps
  <2> DEFINE r == Local("find", "simple", Null, Null, {})
  <2>1. r \in Handlers /\ r.at = "find"
    BY DEF Local, Handlers, Points, Doing
  <2>2. Start(q, r) /\ UNCHANGED stock
    BY <1>2 DEF CreateSimpleOrder
  <2> HIDE DEF r
  <2>3. QED
    BY <2>1, <2>2, StartingIsStutter
<1>3. ASSUME NEW s \in ToppedUp, CreateTopup(q, s) PROVE StockSteps
  <2> DEFINE r == Local("insert", "topup", Null, s, {})
  <2>1. r \in Handlers /\ r.at = "insert" /\ r.doing = "topup"
    BY Assumed DEF Local, Handlers, Points, Doing
  <2>2. Start(q, r) /\ UNCHANGED stock
    BY <1>3 DEF CreateTopup
  <2> HIDE DEF r
  <2>3. QED
    BY <2>1, <2>2, StartingIsStutter
<1>4. ASSUME NEW o \in Requests, Cancel(q, o) PROVE StockSteps
  <2> DEFINE r == Local("cancel", "cancel", o, Null, {})
  <2>1. r \in Handlers /\ r.at = "cancel" /\ r.doing = "cancel"
    BY DEF Local, Handlers, Points, Doing
  <2>2. Start(q, r) /\ UNCHANGED stock
    BY <1>4 DEF Cancel
  <2> HIDE DEF r
  <2>3. QED
    BY <2>1, <2>2, StartingIsStutter
<1>5. ASSUME NEW o \in Requests, CompleteWithCredits(q, o) PROVE StockSteps
  <2> DEFINE r == Local("save", "complete", o, Null, {})
  <2>1. r \in Handlers /\ r.at = "save" /\ r.doing = "complete"
    BY DEF Local, Handlers, Points, Doing
  <2>2. Start(q, r) /\ UNCHANGED stock
    BY <1>5 DEF CompleteWithCredits
  <2> HIDE DEF r
  <2>3. QED
    BY <2>1, <2>2, StartingIsStutter
<1>6. QED
  BY <1>1, <1>2, <1>3, <1>4, <1>5 DEF Sync

\* An import that goes through delivers a listing no eSIM of which was there before;
\* one that does not delivers nothing.
LEMMA ImportStep ==
  ASSUME Inv, NEW q \in Requests, Import(q)
  PROVE  StockSteps
<1>1. Left(q) /\ request[q].at = "import" /\ request[q].doing = "sync"
  BY FinishLeaves DEF Inv, Import, Sound, RightPlace
<1>2. CASE request[q].list \cap Known = {}
  <2>1. ASSUME NEW good \in SUBSET request[q].list,
               stock' = [s \in Sims |->
                     IF s \in request[q].list
                       THEN [status |-> IF s \in good THEN "Inactive" ELSE "Other",
                             batch |-> NextBatch]
                       ELSE stock[s]]
        PROVE  StockSteps
    <3>1. request[q].list \subseteq Sims /\ good \in SUBSET request[q].list
      BY DEF Inv, TypeOK
    <3>2. /\ Known' = Known \cup request[q].list
          /\ Available' = Available \cup good
      BY <1>2, <2>1, <3>1 DEF Inv, TypeOK, Known, Available
    <3>3. request'[q].at = "done" /\ \A p \in Requests \ {q} : request'[p] = request[p]
      BY <1>1, EndedIsSound DEF Left
    <3>4. \A p \in Requests : Holding(p)' <=> Holding(p)
      BY <1>1, <3>3 DEF Holding
    <3>5. Eyed' = Eyed
      BY <1>1, <3>3 DEF Eyed
    <3>6. Lent' = Lent
      <4>1. ~Holding(q)
        BY <1>1 DEF Holding
      <4>2. QED
        BY <3>3, <3>4, <4>1 DEF Lent
    <3>7. Library!Deliver(request[q].list, good)
      BY <1>2, <3>2, <3>5, <3>6 DEF Library!Deliver, Eyed, Lent
    <3>8. QED
      BY <3>1, <3>7 DEF StockSteps, Library!Next
  <2>2. QED
    BY <1>2, <2>1 DEF Import
<1>3. CASE request[q].list \cap Known # {}
  <2>1. UNCHANGED stock
    BY <1>3 DEF Import
  <2>2. QED
    BY <1>1, <2>1, LeavingIsLeave
<1>4. QED
  BY <1>2, <1>3

LEMMA FindStep ==
  ASSUME Inv, NEW q \in Requests, Find(q)
  PROVE  StockSteps
<1>1. request[q].at = "find" /\ UNCHANGED stock /\ request[q] \in Handlers
  BY DEF Find, Inv, TypeOK, Handlers
<1>2. ASSUME NEW s \in Oldest(Available),
             request' = [request EXCEPT ![q].at = "mark", ![q].sim = s]
      PROVE  StockSteps
  <2>1. s \in Available /\ s \in Sims
    BY DEF Oldest, Available
  <2>2. /\ request'[q].at = "mark" /\ request'[q].sim = s
        /\ \A p \in Requests \ {q} : request'[p] = request[p]
    BY <1>1, <1>2 DEF Inv, TypeOK, Handlers
  <2>3. ~Holding(q) /\ \A p \in Requests : Holding(p)' <=> Holding(p)
    BY <1>1, <2>2 DEF Holding
  <2>4. Eyed' = Eyed \cup {<<s, q>>}
    BY <1>1, <2>1, <2>2 DEF Eyed
  <2>5. Lent' = Lent
    BY <2>2, <2>3 DEF Lent
  <2>6. Library!Look(s, q)
    BY <1>1, <2>1, <2>4, <2>5, StockStands DEF Library!Look, Eyed, Lent
  <2>7. QED
    BY <2>1, <2>6 DEF StockSteps, Library!Next
<1>3. CASE Finish(q)
  BY <1>1, <1>3, FinishLeaves, LeavingIsLeave DEF Inv
<1>4. QED
  BY <1>2, <1>3 DEF Find

LEMMA MarkStep ==
  ASSUME Inv, NEW q \in Requests, Mark(q)
  PROVE  StockSteps
<1> DEFINE s == request[q].sim
<1>1. /\ s \in Sims /\ request[q].doing = "simple" /\ request[q].at = "mark"
      /\ stock'[s].status = "Allocated" /\ Known' = Known
      /\ \A t \in Sims : t # s => stock'[t] = stock[t]
      /\ Moved(q, "reload")
  BY MarkEffect DEF Mark
<1>2. /\ request'[q].at = "reload" /\ request'[q].doing = "simple" /\ request'[q].sim = s
      /\ \A p \in Requests \ {q} : request'[p] = request[p]
  BY <1>1, MovedFields DEF Points, Moved
<1>3. /\ Holding(q)' /\ ~Holding(q)
      /\ \A p \in Requests \ {q} : Holding(p)' <=> Holding(p)
  BY <1>1, <1>2 DEF Holding
<1>4. Available' = Available \ {s}
  BY <1>1 DEF Available
<1>5. Eyed' = Eyed \ {<<s, q>>} /\ <<s, q>> \in Eyed
  BY <1>1, <1>2 DEF Eyed
<1>6. Lent' = Lent \cup {<<s, q>>}
  <2> HIDE DEF s
  <2>1. QED
    BY <1>1, <1>2, <1>3 DEF Lent
<1>7. Library!Lend(s, q)
  BY <1>1, <1>4, <1>5, <1>6 DEF Library!Lend, Eyed, Lent
<1>8. QED
  BY <1>1, <1>7 DEF StockSteps, Library!Next

LEMMA ReleaseStep ==
  ASSUME Inv, NEW q \in Requests, Release(q)
  PROVE  StockSteps
<1> DEFINE s == request[q].sim
<1>1. /\ s \in Sims /\ request[q].doing = "simple" /\ request[q].at = "release"
      /\ stock'[s].status = "Inactive" /\ Known' = Known
      /\ \A t \in Sims : t # s => stock'[t] = stock[t]
      /\ Left(q)
  BY ReleaseEffect DEF Release
<1>2. /\ request'[q].at = "done"
      /\ \A p \in Requests \ {q} : request'[p] = request[p]
  BY <1>1, EndedIsSound DEF Left
<1>3. /\ Holding(q) /\ ~Holding(q)'
      /\ \A p \in Requests \ {q} : Holding(p)' <=> Holding(p)
  BY <1>1, <1>2 DEF Holding
<1>4. Available' = Available \cup {s}
  BY <1>1 DEF Available
<1>5. Eyed' = Eyed
  BY <1>1, <1>2 DEF Eyed
<1>6. Lent' = Lent \ {<<s, q>>} /\ <<s, q>> \in Lent
  <2> HIDE DEF s
  <2>1. QED
    BY <1>1, <1>2, <1>3 DEF Lent, s
<1>7. Library!GiveBack(s, q)
  BY <1>1, <1>4, <1>5, <1>6 DEF Library!GiveBack, Eyed, Lent
<1>8. QED
  BY <1>1, <1>7 DEF StockSteps, Library!Next

LEMMA RaiseStep ==
  ASSUME Inv, NEW q \in Requests, Raise(q), UNCHANGED stock
  PROVE  StockSteps
<1>1. CASE Moved(q, "fail") /\ request[q].at \in Processing
  BY <1>1, MovingOnIsStutter DEF Processing, Points
<1>2. CASE /\ Moved(q, "release")
           /\ request[q].at \in {"insert", "load", "begin", "fail", "final"}
  BY <1>2, MovingOnIsStutter DEF Points
<1>3. CASE Left(q)
  BY <1>3, LeavingIsLeave
<1>4. QED
  BY <1>1, <1>2, <1>3, RaiseEffect

\* A step of a handler that is no business of the stock.
LEMMA ProcessingStep ==
  ASSUME Inv, NEW q \in Requests,
         \/ Reload(q) \/ Insert(q) \/ Load(q) \/ Begin(q) \/ Activate(q)
         \/ FinishOrder(q) \/ FailOrder(q) \/ Final(q) \/ CancelOrder(q) \/ SavePending(q)
  PROVE  StockSteps
<1>1. UNCHANGED stock
  BY DEF Reload, Insert, InsertAs, Load, Begin, Activate, FinishOrder, FailOrder, Final,
         CancelOrder, SavePending, SetStatus
<1>2. CASE Insert(q)
  <2>1. ASSUME NEW kind, NEW next \in {"load", "begin"}, InsertAs(q, kind, next)
        PROVE  StockSteps
    <3>1. /\ request[q].at = "insert" /\ request'[q].at = next
          /\ request'[q].doing = request[q].doing /\ request'[q].sim = request[q].sim
          /\ \A p \in Requests \ {q} : request'[p] = request[p]
      BY <2>1, InsertAsMoves
    <3>2. Holding(q)' <=> Holding(q)
      BY <3>1 DEF Holding
    <3>3. QED
      BY <1>1, <3>1, <3>2, GoingOnIsStutter
  <2>2. QED
    BY <1>2, <2>1 DEF Insert
<1>3. CASE Raise(q)
  BY <1>1, <1>3, RaiseStep
<1>4. CASE Finish(q)
  BY <1>1, <1>4, FinishLeaves, LeavingIsLeave DEF Inv
<1>5. ASSUME NEW at \in Points \ {"new", "done", "find", "mark"}, Go(q, at),
             request[q].at \notin {"new", "done", "find", "mark"}
      PROVE  StockSteps
  BY <1>1, <1>5, GoMoves, MovingOnIsStutter DEF Inv
<1>6. \/ Insert(q) \/ Raise(q) \/ Finish(q)
      \/ /\ request[q].at \notin {"new", "done", "find", "mark"}
         /\ \E at \in Points \ {"new", "done", "find", "mark"} : Go(q, at)
  BY DEF Reload, Load, Begin, Activate, FinishOrder, FailOrder, Final,
         CancelOrder, SavePending, Return, Points
<1>7. QED
  BY <1>2, <1>3, <1>4, <1>5, <1>6

LEMMA CrashStep ==
  ASSUME Inv, Crash
  PROVE  StockSteps
<1>1. /\ UNCHANGED stock
      /\ \A q \in InFlight : request'[q].at = "done"
      /\ \A q \in Requests \ InFlight : request'[q] = request[q]
  BY EndedIsSound DEF Crash, InFlight
<1>2. \A q \in Requests : Holding(q)' <=> (Holding(q) /\ q \notin InFlight)
  BY <1>1 DEF Holding, InFlight
<1>3. Eyed' = {e \in Eyed : e[2] \notin InFlight}
  BY <1>1 DEF Eyed
<1>4. Lent' = {e \in Lent : e[2] \notin InFlight}
  BY <1>1, <1>2 DEF Lent
<1>5. PICK gone \in SUBSET Requests : gone = InFlight
  BY DEF InFlight
<1>6. Library!Leave(gone)
  BY <1>1, <1>3, <1>4, <1>5, StockStands DEF Library!Leave, Eyed, Lent
<1>7. QED
  BY <1>6 DEF StockSteps, Library!Next

LEMMA EveryStep ==
  ASSUME Inv, [Next]_vars
  PROVE  StockSteps
<1>1. CASE UNCHANGED vars
  BY <1>1 DEF vars, StockSteps, StockStutters, Known, Available, Eyed, Lent, Holding
<1>2. ASSUME NEW q \in Requests, Step(q) PROVE StockSteps
  BY <1>2, ImportStep, FindStep, MarkStep, ReleaseStep, ProcessingStep DEF Step
<1>3. ASSUME NEW q \in Requests, Fault(q) PROVE StockSteps
  BY <1>3, RaiseStep DEF Fault
<1>4. ASSUME NEW q \in Requests,
         \/ Sync(q) \/ CreateSimpleOrder(q)
         \/ \E s \in ToppedUp : CreateTopup(q, s)
         \/ \E o \in Requests : Cancel(q, o) \/ CompleteWithCredits(q, o)
      PROVE  StockSteps
  BY <1>4, StartsStep
<1>5. CASE Crash
  BY <1>5, CrashStep
<1>6. QED
  BY <1>1, <1>2, <1>3, <1>4, <1>5 DEF Next

\* The handlers of the shop, however they overlap, fail and restart, treat the
\* stock of eSIMs as Stock promises (esim-allocation.service.ts, esims.service.ts).
THEOREM StockImplemented ==
  Spec => ImplementsStock
<1>1. Init => Library!Init
  BY DEF Init, Library!Init, Known, Available, NoRow, Holding, Unused, Local
<1>2. Inv /\ [Next]_vars => [Library!Next]_(Library!vars)
  BY EveryStep DEF StockSteps, StockStutters, Library!vars, Eyed, Lent
<1>3. QED
  BY <1>1, <1>2, InvAlways, PTL DEF Spec, ImplementsStock, Library!Spec

-----------------------------------------------------------------------------
(* Who shares an eSIM.                                                     *)

Eyes(q, s) == request[q].at = "mark" /\ request[q].sim = s
Has(q, s) == Holding(q) /\ request[q].sim = s
Out(s) == stock[s].status = "Allocated"
Sold(s, o) == <<s, o>> \in packages /\ o \in SimpleOrders /\ o \notin retried

\* An eSIM that was not raced for nor released with a package on it is in the hands
\* of one handler, or is sold to one order, and then nobody is about to mark it.
ApartAt(s) ==
    /\ \A q \in Requests : Has(q, s) =>
          /\ Out(s)
          /\ \A p \in Requests : ~Eyes(p, s) /\ (Has(p, s) => p = q)
    /\ \A o \in Requests : Sold(s, o) =>
          /\ Out(s)
          /\ \A p \in Requests : ~Eyes(p, s) /\ (Has(p, s) => p = o)
                                 /\ (Sold(s, p) => p = o)

Apart == \A s \in Sims : s \notin raced \cup loose => ApartAt(s)

\* A step by which an eSIM is looked at, held or sold by nobody new.
Shrinks(s) ==
    /\ Out(s) => Out(s)'
    /\ \A q \in Requests :
          /\ Eyes(q, s)' => Eyes(q, s)
          /\ Has(q, s)' => Has(q, s)
          /\ Sold(s, q)' => Sold(s, q)

LEMMA ShrunkIsApart ==
  ASSUME NEW s \in Sims, ApartAt(s), Shrinks(s)
  PROVE  ApartAt(s)'
  BY DEF ApartAt, Shrinks

LEMMA AllShrink ==
  ASSUME Apart, \A s \in Sims : Shrinks(s), raced \subseteq raced', loose \subseteq loose'
  PROVE  Apart'
<1> SUFFICES ASSUME NEW s \in Sims, s \notin raced' \cup loose' PROVE ApartAt(s)'
  BY DEF Apart
<1>1. ApartAt(s) /\ Shrinks(s)
  BY DEF Apart
<1>2. QED
  BY <1>1, ShrunkIsApart

\* What remains sold: orders keep their kind, and a new one has no package yet.
LEMMA SoldStays ==
  ASSUME Inv, UNCHANGED packages, retried \subseteq retried',
         \A o \in Requests : Placed(o) => order'[o].kind = order[o].kind,
         NEW s \in Sims, NEW o \in Requests, Sold(s, o)'
  PROVE  Sold(s, o)
<1>1. <<s, o>> \in packages /\ o \notin retried /\ order'[o].kind = "one_time"
  BY DEF Sold, SimpleOrders
<1>2. Placed(o)
  BY <1>1 DEF Inv, RightTables
<1>3. QED
  BY <1>1, <1>2 DEF Sold, SimpleOrders, Placed

\* What a handler looks at or holds when it goes on, or leaves.
LEMMA MovedShrinks ==
  ASSUME Inv, NEW q \in Requests, NEW at \in Points \ {"mark"}, Moved(q, at),
         request[q].at \notin {"new", "done", "find", "mark"},
         NEW s \in Sims, NEW p \in Requests
  PROVE  (Eyes(p, s)' => Eyes(p, s)) /\ (Has(p, s)' => Has(p, s))
<1>1. CASE p = q
  <2>1. request'[p].at = at /\ request'[p].doing = request[p].doing
        /\ request'[p].sim = request[p].sim
    BY <1>1, MovedFields
  <2>2. QED
    BY <1>1, <2>1 DEF Eyes, Has, Holding
<1>2. CASE p # q
  BY <1>2 DEF Moved, Eyes, Has, Holding
<1>3. QED
  BY <1>1, <1>2

LEMMA LeftShrinks ==
  ASSUME NEW q \in Requests, Left(q), NEW s \in Sims, NEW p \in Requests
  PROVE  (Eyes(p, s)' => Eyes(p, s)) /\ (Has(p, s)' => Has(p, s))
  BY EndedIsSound DEF Left, Eyes, Has, Holding

\* A handler that starts looks at nothing and holds nothing.
LEMMA StartShrinks ==
  ASSUME Inv, NEW q \in Requests, NEW r \in Handlers, Start(q, r),
         r.at # "mark", r.doing # "simple" \/ r.at = "find",
         NEW s \in Sims, NEW p \in Requests
  PROVE  (Eyes(p, s)' => Eyes(p, s)) /\ (Has(p, s)' => Has(p, s))
<1>1. /\ request[q].at = "new" /\ request'[q] = r
      /\ \A t \in Requests \ {q} : request'[t] = request[t]
  BY Becomes DEF Start, Inv
<1>2. QED
  BY <1>1 DEF Eyes, Has, Holding

LEMMA RaiseShrinks ==
  ASSUME Inv, NEW q \in Requests, Raise(q), NEW s \in Sims, NEW p \in Requests
  PROVE  (Eyes(p, s)' => Eyes(p, s)) /\ (Has(p, s)' => Has(p, s))
<1>1. CASE Moved(q, "fail") /\ request[q].at \in Processing
  BY <1>1, MovedShrinks DEF Processing, Points
<1>2. CASE /\ Moved(q, "release")
           /\ request[q].at \in {"insert", "load", "begin", "fail", "final"}
  BY <1>2, MovedShrinks DEF Points
<1>3. CASE Left(q)
  BY <1>3, LeftShrinks
<1>4. QED
  BY <1>1, <1>2, <1>3, RaiseEffect

\* Nobody looks at an eSIM or holds one who did not before.
Calm ==
    \A s \in Sims, p \in Requests : (Eyes(p, s)' => Eyes(p, s)) /\ (Has(p, s)' => Has(p, s))

LEMMA StartsAreCalm ==
  ASSUME Inv, NEW q \in Requests,
         \/ Sync(q) \/ CreateSimpleOrder(q)
         \/ \E s \in ToppedUp : CreateTopup(q, s)
         \/ \E o \in Requests : Cancel(q, o) \/ CompleteWithCredits(q, o)
  PROVE  Calm
<1>1. ASSUME NEW at \in {"import", "insert", "cancel", "save", "find"}, NEW doing \in Doing,
             NEW o \in Requests \cup {Null}, NEW s \in Sims \cup {Null},
             NEW list \in SUBSET Sims, Start(q, Local(at, doing, o, s, list)),
             doing # "simple" \/ at = "find"
      PROVE  Calm
  <2> DEFINE r == Local(at, doing, o, s, list)
  <2>1. r \in Handlers /\ r.at = at /\ r.doing = doing
    BY DEF Local, Handlers, Points
  <2> HIDE DEF r
  <2>2. Start(q, r)
    BY <1>1 DEF r
  <2>3. QED
    BY <1>1, <2>1, <2>2, StartShrinks DEF Calm
<1>2. CASE Sync(q)
  <2>1. PICK list \in SUBSET Sims : Start(q, Local("import", "sync", Null, Null, list))
    BY <1>2 DEF Sync
  <2>2. QED
    BY <1>1, <2>1 DEF Doing
<1>3. CASE CreateSimpleOrder(q)
  <2>1. Start(q, Local("find", "simple", Null, Null, {}))
    BY <1>3 DEF CreateSimpleOrder
  <2>2. QED
    BY <1>1, <2>1 DEF Doing
<1>4. ASSUME NEW s \in ToppedUp, CreateTopup(q, s) PROVE Calm
  <2>1. Start(q, Local("insert", "topup", Null, s, {}))
    BY <1>4 DEF CreateTopup
  <2>2. QED
    BY <1>1, <2>1, Assumed DEF Doing
<1>5. ASSUME NEW o \in Requests, Cancel(q, o) PROVE Calm
  <2>1. Start(q, Local("cancel", "cancel", o, Null, {}))
    BY <1>5 DEF Cancel
  <2>2. QED
    BY <1>1, <2>1 DEF Doing
<1>6. ASSUME NEW o \in Requests, CompleteWithCredits(q, o) PROVE Calm
  <2>1. Start(q, Local("save", "complete", o, Null, {}))
    BY <1>6 DEF CompleteWithCredits
  <2>2. QED
    BY <1>1, <2>1 DEF Doing
<1>7. QED
  BY <1>2, <1>3, <1>4, <1>5, <1>6

LEMMA InsertIsCalm ==
  ASSUME Inv, NEW q \in Requests, NEW kind \in Kinds, NEW next \in {"load", "begin"},
         InsertAs(q, kind, next)
  PROVE  Calm
<1>1. /\ request[q].at = "insert" /\ request'[q].at = next
      /\ request'[q].doing = request[q].doing /\ request'[q].sim = request[q].sim
      /\ \A p \in Requests \ {q} : request'[p] = request[p]
  BY InsertAsMoves
<1>2. QED
  BY <1>1 DEF Calm, Eyes, Has, Holding

LEMMA ProcessingIsCalm ==
  ASSUME Inv, NEW q \in Requests,
         \/ Reload(q) \/ Insert(q) \/ Load(q) \/ Begin(q) \/ Activate(q) \/ Release(q)
         \/ FinishOrder(q) \/ FailOrder(q) \/ Final(q) \/ CancelOrder(q) \/ SavePending(q)
         \/ Import(q) \/ Fault(q)
  PROVE  Calm
<1>1. CASE Insert(q)
  BY <1>1, InsertIsCalm DEF Insert, Kinds
<1>2. CASE Raise(q)
  BY <1>2, RaiseShrinks DEF Calm
<1>3. CASE Finish(q)
  BY <1>3, FinishLeaves, LeftShrinks DEF Inv, Calm
<1>4. ASSUME NEW at \in Points \ {"mark"}, Go(q, at),
             request[q].at \notin {"new", "done", "find", "mark"}
      PROVE  Calm
  BY <1>4, GoMoves, MovedShrinks DEF Inv, Calm
<1>5. \/ Insert(q) \/ Raise(q) \/ Finish(q)
      \/ /\ request[q].at \notin {"new", "done", "find", "mark"}
         /\ \E at \in Points \ {"mark"} : Go(q, at)
  BY DEF Reload, Load, Begin, Activate, FinishOrder, FailOrder, Final, Release, Import,
         CancelOrder, SavePending, Fault, Return, Points
<1>6. QED
  BY <1>1, <1>2, <1>3, <1>4, <1>5

\* The steps after which every eSIM is as apart as it was.
LEMMA CalmIsApart ==
  ASSUME Inv, Inv', Apart, Calm, UNCHANGED packages, retried \subseteq retried',
         raced \subseteq raced', loose \subseteq loose',
         \A o \in Requests : Placed(o) => order'[o].kind = order[o].kind,
         \A s \in Sims : Out(s) => Out(s)'
  PROVE  Apart'
<1>1. \A s \in Sims : Shrinks(s)
  <2>1. \A s \in Sims, o \in Requests : Sold(s, o)' => Sold(s, o)
    BY SoldStays
  <2>2. QED
    BY <2>1 DEF Shrinks, Calm
<1>2. QED
  BY <1>1, AllShrink

LEMMA KindsStay ==
  ASSUME Inv, NEW q \in Requests, Insert(q) \/ SavePending(q) \/ UNCHANGED order
              \/ (\E st \in Statuses : SetStatus(q, st))
  PROVE  \A o \in Requests : Placed(o) => order'[o].kind = order[o].kind
<1>1. CASE Insert(q)
  <2>1. ~Placed(q)
    BY <1>1 DEF Insert, InsertAs, Inv, Sound, RightOrder
  <2>2. QED
    BY <1>1, <2>1 DEF Insert, InsertAs, Inv, TypeOK, Placed
<1>2. CASE SavePending(q)
  BY <1>2 DEF SavePending, Inv, TypeOK
<1>3. ASSUME NEW st \in Statuses, SetStatus(q, st)
      PROVE  \A o \in Requests : order'[o].kind = order[o].kind
  BY <1>3 DEF SetStatus, Inv, TypeOK
<1>4. QED
  BY <1>1, <1>2, <1>3

LEMMA StandsApart ==
  ASSUME Inv, Inv', Apart, Calm, UNCHANGED <<stock, packages, raced, loose>>,
         retried \subseteq retried',
         \A o \in Requests : Placed(o) => order'[o].kind = order[o].kind
  PROVE  Apart'
<1>1. \A s \in Sims : Out(s) => Out(s)'
  BY DEF Out
<1>2. QED
  BY <1>1, CalmIsApart

LEMMA HandlerApart ==
  ASSUME Inv, Inv', Apart, NEW q \in Requests,
         \/ Sync(q) \/ CreateSimpleOrder(q)
         \/ \E s \in ToppedUp : CreateTopup(q, s)
         \/ \E o \in Requests : Cancel(q, o) \/ CompleteWithCredits(q, o)
         \/ Reload(q) \/ Insert(q) \/ Load(q) \/ Begin(q)
         \/ FinishOrder(q) \/ FailOrder(q) \/ Final(q) \/ CancelOrder(q) \/ SavePending(q)
         \/ Fault(q)
  PROVE  Apart'
<1>1. Calm
  BY StartsAreCalm, ProcessingIsCalm
<1>2. Insert(q) \/ SavePending(q) \/ UNCHANGED order \/ \E st \in Statuses : SetStatus(q, st)
  BY DEF Sync, CreateSimpleOrder, CreateTopup, Cancel, CompleteWithCredits, Reload, Load, Begin,
         FinishOrder, FailOrder, Final, CancelOrder, Fault, Statuses
<1>3. UNCHANGED <<stock, packages, raced, loose>> /\ retried \subseteq retried'
  BY DEF Sync, CreateSimpleOrder, CreateTopup, Cancel, CompleteWithCredits, Reload, Insert,
         InsertAs, Load, Begin, FinishOrder, FailOrder, Final, CancelOrder, SavePending, Fault,
         SetStatus, Others
<1>4. QED
  BY <1>1, <1>2, <1>3, KindsStay, StandsApart

\* The import writes no row that is there.
LEMMA ImportKeeps ==
  ASSUME Inv, NEW q \in Requests, Import(q), NEW s \in Known
  PROVE  stock'[s] = stock[s]
<1>1. s \in Sims
  BY DEF Known
<1>2. CASE s \in request[q].list
  <2>1. UNCHANGED stock
    BY <1>2 DEF Import
  <2>2. QED
    BY <2>1
<1>3. CASE s \notin request[q].list
  BY <1>1, <1>3 DEF Import
<1>4. QED
  BY <1>2, <1>3

LEMMA ImportApart ==
  ASSUME Inv, Inv', Apart, NEW q \in Requests, Import(q)
  PROVE  Apart'
<1>1. Calm
  BY ProcessingIsCalm
<1>2. \A s \in Sims : Out(s) => Out(s)'
  BY ImportKeeps DEF Out, Known
<1>3. QED
  BY <1>1, <1>2, CalmIsApart DEF Import, Others

LEMMA FindApart ==
  ASSUME Inv, Inv', Apart, NEW q \in Requests, Find(q)
  PROVE  Apart'
<1>1. request[q].at = "find" /\ UNCHANGED <<stock, order, Others>> /\ request[q] \in Handlers
  BY DEF Find, Inv, TypeOK, Handlers
<1>2. CASE Finish(q)
  <2>1. Calm
    BY <1>2, FinishLeaves, LeftShrinks DEF Inv, Calm
  <2>2. QED
    BY <1>1, <2>1, StandsApart DEF Others
<1>3. ASSUME NEW s \in Oldest(Available),
             request' = [request EXCEPT ![q].at = "mark", ![q].sim = s]
      PROVE  Apart'
  <2>1. /\ request'[q].at = "mark" /\ request'[q].sim = s
        /\ \A p \in Requests \ {q} : request'[p] = request[p]
    BY <1>1, <1>3 DEF Inv, TypeOK, Handlers
  <2>2. s \in Sims /\ ~Out(s)
    BY DEF Oldest, Available, Out
  <2>3. \A t \in Sims, p \in Requests : Has(p, t)' => Has(p, t)
    BY <1>1, <2>1 DEF Has, Holding
  <2>4. \A t \in Sims, p \in Requests : t # s => (Eyes(p, t)' => Eyes(p, t))
    BY <2>1 DEF Eyes
  <2>5. \A t \in Sims, o \in Requests : /\ Sold(t, o)' <=> Sold(t, o)
                                        /\ Out(t)' <=> Out(t)
    BY <1>1 DEF Sold, SimpleOrders, Out, Others
  <2>6. ASSUME NEW t \in Sims, t \notin raced' \cup loose' PROVE ApartAt(t)'
    <3>1. ApartAt(t)
      BY <1>1, <2>6 DEF Apart, Others
    <3>2. CASE t = s
      BY <2>2, <2>3, <2>5, <3>1, <3>2 DEF ApartAt
    <3>3. CASE t # s
      BY <2>3, <2>4, <2>5, <3>1, <3>3, ShrunkIsApart DEF Shrinks
    <3>4. QED
      BY <3>2, <3>3
  <2>7. QED
    BY <2>6 DEF Apart
<1>4. QED
  BY <1>2, <1>3 DEF Find

LEMMA MarkApart ==
  ASSUME Inv, Inv', Apart, NEW q \in Requests, Mark(q)
  PROVE  Apart'
<1>0. PICK s \in Sims : s = request[q].sim
  BY MarkEffect
<1>1. /\ s = request[q].sim /\ request[q].at = "mark"
      /\ stock'[s].status = "Allocated"
      /\ \A t \in Sims : t # s => stock'[t] = stock[t]
      /\ Moved(q, "reload")
      /\ UNCHANGED <<order, packages, loose, retried>>
      /\ raced' = IF \E p \in Requests \ {q} : request[p].at = "mark" /\ request[p].sim = s
                      THEN raced \cup {s} ELSE raced
  BY <1>0, MarkEffect DEF Mark
<1>2. /\ request'[q].at = "reload" /\ request'[q].sim = s
      /\ \A p \in Requests \ {q} : request'[p] = request[p]
  BY <1>1, MovedFields DEF Points, Moved
<1>3. \A t \in Sims, o \in Requests : /\ Sold(t, o)' <=> Sold(t, o)
                                      /\ Eyes(o, t)' => Eyes(o, t)
  BY <1>1, <1>2 DEF Sold, SimpleOrders, Eyes
<1>4. \A t \in Sims, p \in Requests : (t # s \/ p # q) => (Has(p, t)' => Has(p, t))
  BY <1>2 DEF Has, Holding
<1>5. ~Eyes(q, s)' /\ Eyes(q, s)
  BY <1>1, <1>2 DEF Eyes
<1>6. Out(s)' /\ \A t \in Sims : Out(t) => Out(t)'
  BY <1>1 DEF Out
<1>7. ASSUME NEW t \in Sims, t \notin raced' \cup loose' PROVE ApartAt(t)'
  <2>1. ApartAt(t)
    BY <1>1, <1>7 DEF Apart
  <2>2. CASE t # s
    <3>1. Shrinks(t)
      BY <1>3, <1>4, <1>6, <2>2 DEF Shrinks
    <3>2. QED
      BY <2>1, <3>1, ShrunkIsApart
  <2>3. CASE t = s
    <3>1. \A p \in Requests \ {q} : ~Eyes(p, s)
      BY <1>1, <1>7, <2>3 DEF Eyes
    <3>2. \A p \in Requests : ~Eyes(p, s)'
      BY <1>3, <1>5, <3>1, <1>1
    <3>3. \A p \in Requests : ~Has(p, s) /\ ~Sold(s, p)
      BY <1>5, <2>1, <2>3 DEF ApartAt
    <3>4. \A p \in Requests : /\ Has(p, s)' => p = q
                              /\ ~Sold(s, p)'
      BY <1>1, <1>3, <1>4, <3>3
    <3>5. QED
      BY <1>6, <2>3, <3>2, <3>4 DEF ApartAt
  <2>4. QED
    BY <2>2, <2>3
<1>8. QED
  BY <1>7 DEF Apart

LEMMA ReleaseApart ==
  ASSUME Inv, Inv', Apart, NEW q \in Requests, Release(q)
  PROVE  Apart'
<1>0. PICK s \in Sims : s = request[q].sim
  BY ReleaseEffect
<1>1. /\ s = request[q].sim /\ request[q].at = "release" /\ request[q].doing = "simple"
      /\ \A t \in Sims : t # s => stock'[t] = stock[t]
      /\ Left(q) /\ Calm
      /\ UNCHANGED <<order, packages, raced, retried>>
      /\ loose' = IF <<s, request[q].order>> \in packages THEN loose \cup {s} ELSE loose
  BY <1>0, ReleaseEffect, ProcessingIsCalm DEF Release
<1>2. Has(q, s) /\ ~Has(q, s)'
  BY <1>1, EndedIsSound DEF Has, Holding, Left
<1>3. \A t \in Sims, o \in Requests : Sold(t, o)' <=> Sold(t, o)
  BY <1>1 DEF Sold, SimpleOrders
<1>4. request[q].order = q \/ ~Placed(q)
  BY <1>1 DEF Inv, Sound, RightOrder
<1>5. ASSUME NEW t \in Sims, t \notin raced' \cup loose' PROVE ApartAt(t)'
  <2>1. ApartAt(t)
    BY <1>1, <1>5 DEF Apart
  <2>2. CASE t # s
    <3>1. Shrinks(t)
      BY <1>1, <1>3, <2>2 DEF Shrinks, Calm, Out
    <3>2. QED
      BY <2>1, <3>1, ShrunkIsApart
  <2>3. CASE t = s
    <3>1. \A p \in Requests : ~Has(p, s)'
      BY <1>1, <1>2, <2>1, <2>3 DEF ApartAt, Calm
    <3>2. \A o \in Requests : Sold(s, o) => o = q
      BY <1>2, <2>1, <2>3 DEF ApartAt
    <3>3. ~Sold(s, q)
      <4>1. CASE ~Placed(q)
        BY <4>1 DEF Sold, SimpleOrders, Placed
      <4>2. CASE request[q].order = q
        BY <1>1, <1>5, <2>3, <4>2 DEF Sold
      <4>3. QED
        BY <1>4, <4>1, <4>2
    <3>4. \A o \in Requests : ~Sold(s, o)'
      BY <1>1, <1>3, <3>2, <3>3
    <3>5. QED
      BY <2>3, <3>1, <3>4 DEF ApartAt
  <2>4. QED
    BY <2>2, <2>3
<1>6. QED
  BY <1>5 DEF Apart

LEMMA ActivateApart ==
  ASSUME Inv, Inv', Apart, NEW q \in Requests, Activate(q)
  PROVE  Apart'
<1> DEFINE o == request[q].order
           s == order[o].sim
<1>1. /\ request[q].at = "activate" /\ Sound(q) /\ Calm
      /\ UNCHANGED <<stock, order, History>>
      /\ packages' \in {packages, packages \cup {<<s, o>>}}
  BY ProcessingIsCalm DEF Activate, Inv
<1>2. o \in Requests
  BY <1>1 DEF Sound, RightOrder, AtOrder
<1>3. (o \in SimpleOrders /\ o \notin retried) => o = q /\ Has(q, s)
  <2>1. request[q].doing = "complete" => o \in retried
    BY <1>1 DEF Sound, RightOrder, Processing
  <2>2. request[q].doing = "topup" => o \notin SimpleOrders
    BY <1>1 DEF Sound, RightOrder, AtOrder, SimpleOrders
  <2>3. request[q].doing = "simple" => o = q /\ Has(q, s)
    BY <1>1 DEF Sound, RightOrder, AtOrder, Has, Holding
  <2>4. QED
    BY <1>1, <2>1, <2>2, <2>3 DEF Sound, RightPlace, Processing
<1>4. \A t \in Sims : Out(t)' <=> Out(t)
  BY <1>1 DEF Out
<1>5. ASSUME NEW t \in Sims, t \notin raced' \cup loose' PROVE ApartAt(t)'
  <2>1. ApartAt(t)
    BY <1>1, <1>5 DEF Apart, History
  <2>2. ASSUME NEW p \in Requests, Sold(t, p)', ~Sold(t, p)
        PROVE  p = o /\ t = s /\ o = q /\ Has(q, t)
    <3>1. p \in SimpleOrders /\ p \notin retried /\ <<t, p>> \in packages' \ packages
      BY <1>1, <2>2 DEF Sold, SimpleOrders, History
    <3>2. p = o /\ t = s
      BY <1>1, <3>1
    <3>3. QED
      BY <1>3, <3>1, <3>2
  <2>3. CASE \A p \in Requests : Sold(t, p)' => Sold(t, p)
    <3>1. Shrinks(t)
      BY <1>1, <1>4, <2>3 DEF Shrinks, Calm
    <3>2. QED
      BY <2>1, <3>1, ShrunkIsApart
  <2>4. CASE \E p \in Requests : Sold(t, p)' /\ ~Sold(t, p)
    <3>1. Has(q, t) /\ \A p \in Requests : Sold(t, p)' => (p = q \/ Sold(t, p))
      BY <2>2, <2>4
    <3>2. \A p \in Requests : Sold(t, p) => p = q
      BY <2>1, <3>1 DEF ApartAt
    <3>3. Out(t)' /\ \A p \in Requests : ~Eyes(p, t)' /\ (Has(p, t)' => p = q)
      BY <1>1, <1>4, <2>1, <3>1 DEF ApartAt, Calm
    <3>4. QED
      BY <3>1, <3>2, <3>3 DEF ApartAt
  <2>5. QED
    BY <2>3, <2>4
<1>6. QED
  BY <1>5 DEF Apart

LEMMA CrashApart ==
  ASSUME Inv, Inv', Apart, Crash
  PROVE  Apart'
<1>1. \A q \in Requests : request'[q] = Ended \/ request'[q] = request[q]
  BY DEF Crash, Inv, TypeOK
<1>2. Calm
  BY <1>1, EndedIsSound DEF Calm, Eyes, Has, Holding
<1>3. QED
  BY <1>2, StandsApart DEF Crash

LEMMA NextApart ==
  ASSUME Inv, Inv', Apart, [Next]_vars
  PROVE  Apart'
<1>1. CASE UNCHANGED vars
  BY <1>1 DEF vars, Apart, ApartAt, Has, Eyes, Out, Sold, SimpleOrders, Holding
<1>2. ASSUME NEW q \in Requests, Step(q) PROVE Apart'
  BY <1>2, HandlerApart, ImportApart, FindApart, MarkApart, ReleaseApart, ActivateApart DEF Step
<1>3. ASSUME NEW q \in Requests,
         \/ Sync(q) \/ CreateSimpleOrder(q)
         \/ \E s \in ToppedUp : CreateTopup(q, s)
         \/ \E o \in Requests : Cancel(q, o) \/ CompleteWithCredits(q, o)
         \/ Fault(q)
      PROVE  Apart'
  BY <1>3, HandlerApart
<1>4. CASE Crash
  BY <1>4, CrashApart
<1>5. QED
  BY <1>1, <1>2, <1>3, <1>4 DEF Next

\* Two simple orders have packages on one eSIM only if both handlers had found it
\* before either marked it, or it was released with a package on it, or one of
\* them was processed again (esim-allocation.service.ts, orders.service.ts).
THEOREM SharedNoOtherWay ==
  Spec => []SharedOnlyByRace
<1>1. Init => Apart
  BY DEF Init, Apart, ApartAt, Has, Holding, Sold, Unused, Local
<1>2. Apart => SharedOnlyByRace
  BY DEF Apart, ApartAt, Sold, SharedOnlyByRace, SimpleOrders
<1>3. Inv /\ Inv' /\ Apart /\ [Next]_vars => Apart'
  BY NextApart
<1>4. QED
  BY <1>1, <1>2, <1>3, InvAlways, PTL DEF Spec

-----------------------------------------------------------------------------
(* What becomes of the eSIMs that are allocated.                           *)

\* An eSIM of which it is known where it is, or why nobody knows.
Accounted(s) ==
    \/ ~Out(s)
    \/ s \in Carried
    \/ \E q \in Requests : Has(q, s)
    \/ \E o \in retried : order[o].sim = s
    \/ s \in cut

Leaks == {s \in Sims : ~Accounted(s)}

RetriedArePlaced == \A o \in retried : Placed(o)

\* The orders in the table stay there and keep their eSIM.
OrdersStay == \A o \in Requests : Placed(o) => Placed(o)' /\ order'[o].sim = order[o].sim

LEMMA AccountedStays ==
  ASSUME Inv, RetriedArePlaced, OrdersStay, NEW s \in Sims,
         cut \subseteq cut', packages \subseteq packages', retried \subseteq retried',
         Out(s)' => Out(s) \/ Accounted(s)',
         \A q \in Requests : Has(q, s) => Has(q, s)' \/ Accounted(s)',
         Accounted(s)
  PROVE  Accounted(s)'
<1>1. CASE ~Out(s)
  BY <1>1 DEF Accounted
<1>2. CASE s \in Carried
  BY <1>2 DEF Accounted, Carried
<1>3. CASE \E q \in Requests : Has(q, s)
  BY <1>3 DEF Accounted
<1>4. CASE \E o \in retried : order[o].sim = s
  <2>1. PICK o \in retried : order[o].sim = s
    BY <1>4
  <2>2. o \in retried' /\ order'[o].sim = s
    BY <2>1 DEF RetriedArePlaced, OrdersStay, Inv, TypeOK
  <2>3. QED
    BY <2>2 DEF Accounted
<1>5. CASE s \in cut
  BY <1>5 DEF Accounted
<1>6. QED
  BY <1>1, <1>2, <1>3, <1>4, <1>5 DEF Accounted

LEMMA OrdersStayPut ==
  ASSUME Inv, NEW q \in Requests,
         Insert(q) \/ SavePending(q) \/ UNCHANGED order
              \/ (\E st \in Statuses \ {"none"} : SetStatus(q, st))
  PROVE  OrdersStay
<1>1. CASE Insert(q)
  <2>1. ~Placed(q)
    BY <1>1 DEF Insert, InsertAs, Inv, Sound, RightOrder
  <2>2. QED
    BY <1>1, <2>1 DEF Insert, InsertAs, Inv, TypeOK, Placed, OrdersStay
<1>2. CASE SavePending(q)
  BY <1>2 DEF SavePending, Inv, TypeOK, Placed, OrdersStay
<1>3. ASSUME NEW st \in Statuses \ {"none"}, SetStatus(q, st)
      PROVE  OrdersStay
  BY <1>3 DEF SetStatus, Inv, TypeOK, Placed, OrdersStay
<1>4. CASE UNCHANGED order
  BY <1>4 DEF Placed, OrdersStay
<1>5. QED
  BY <1>1, <1>2, <1>3, <1>4

\* Nobody lets an eSIM go.
NoneLetsGo == \A s \in Sims, p \in Requests : Has(p, s) => Has(p, s)'

LEMMA OthersKeep ==
  ASSUME NEW q \in Requests, ~Holding(q), \A p \in Requests \ {q} : request'[p] = request[p]
  PROVE  NoneLetsGo
  BY DEF NoneLetsGo, Has, Holding

LEMMA MovedKeeps ==
  ASSUME Inv, NEW q \in Requests, NEW at \in Points \ {"new", "done", "find", "mark"},
         Moved(q, at)
  PROVE  NoneLetsGo
<1>1. /\ request'[q].at = at /\ request'[q].doing = request[q].doing
      /\ request'[q].sim = request[q].sim
  BY MovedFields
<1>2. QED
  BY <1>1 DEF NoneLetsGo, Has, Holding, Moved

LEMMA RaiseKeeps ==
  ASSUME Inv, NEW q \in Requests, Raise(q), request[q].at \notin {"reload", "release"}
  PROVE  NoneLetsGo
<1>1. \/ Go(q, "fail") \/ Go(q, "release")
      \/ Finish(q) /\ ~Holding(q)
  <2>1. Sound(q) /\ request[q].at \in Points
    BY DEF Inv, TypeOK
  <2>2. QED
    BY <2>1 DEF Raise, Holding, Sound, RightPlace, Points
<1>2. QED
  BY <1>1, GoMoves, MovedKeeps, FinishLeaves, OthersKeep DEF Inv, Points, Left

\* A handler that returns lets go of an eSIM only when the order has its package.
LEMMA ReturnKeeps ==
  ASSUME Inv, NEW q \in Requests, Return(q)
  PROVE  NoneLetsGo
<1>1. Go(q, "final") \/ (Finish(q) /\ ~Holding(q))
  BY DEF Return, Holding
<1>2. QED
  BY <1>1, GoMoves, MovedKeeps, FinishLeaves, OthersKeep DEF Inv, Points, Left

LEMMA StartKeeps ==
  ASSUME Inv, NEW q \in Requests,
         \/ Sync(q) \/ CreateSimpleOrder(q)
         \/ \E s \in ToppedUp : CreateTopup(q, s)
         \/ \E o \in Requests : Cancel(q, o) \/ CompleteWithCredits(q, o)
  PROVE  NoneLetsGo
<1>1. /\ request[q].at = "new" /\ \A p \in Requests \ {q} : request'[p] = request[p]
  BY DEF Sync, CreateSimpleOrder, CreateTopup, Cancel, CompleteWithCredits, Start, Inv, TypeOK
<1>2. ~Holding(q)
  BY <1>1 DEF Holding
<1>3. QED
  BY <1>1, <1>2, OthersKeep

LEMMA InsertKeeps ==
  ASSUME Inv, NEW q \in Requests, Insert(q)
  PROVE  NoneLetsGo
<1>1. ASSUME NEW kind, NEW next \in {"load", "begin"}, InsertAs(q, kind, next)
      PROVE  NoneLetsGo
  <2>1. /\ request'[q].at = next
        /\ request'[q].doing = request[q].doing /\ request'[q].sim = request[q].sim
        /\ \A p \in Requests \ {q} : request'[p] = request[p]
    BY <1>1, InsertAsMoves
  <2>2. QED
    BY <2>1 DEF NoneLetsGo, Has, Holding
<1>2. QED
  BY <1>1 DEF Insert

LEMMA HandlerKeeps ==
  ASSUME Inv, NEW q \in Requests,
         \/ Reload(q) \/ Insert(q) \/ Load(q) \/ Begin(q) \/ Activate(q)
         \/ FinishOrder(q) \/ FailOrder(q) \/ CancelOrder(q) \/ SavePending(q)
         \/ Import(q)
  PROVE  NoneLetsGo
<1>1. CASE Insert(q)
  BY <1>1, InsertKeeps
<1>2. CASE Raise(q) /\ request[q].at \notin {"reload", "release"}
  BY <1>2, RaiseKeeps
<1>3. CASE Return(q)
  BY <1>3, ReturnKeeps
<1>4. CASE CancelOrder(q) \/ Import(q)
  <2>1. ~Holding(q)
    BY <1>4 DEF CancelOrder, Import, Holding, Inv, Sound, RightPlace
  <2>2. QED
    BY <1>4, <2>1, FinishLeaves, OthersKeep DEF CancelOrder, Import, Left, Inv
<1>5. ASSUME NEW at \in Points \ {"new", "done", "find", "mark"}, Go(q, at)
      PROVE  NoneLetsGo
  BY <1>5, GoMoves, MovedKeeps DEF Inv
<1>6. QED
  <2>1. \/ Insert(q) \/ (Raise(q) /\ request[q].at \notin {"reload", "release"})
        \/ Return(q) \/ CancelOrder(q) \/ Import(q)
        \/ \E at \in Points \ {"new", "done", "find", "mark"} : Go(q, at)
    BY DEF Reload, Load, Begin, Activate, FinishOrder, FailOrder, SavePending, Points
  <2>2. QED
    BY <1>1, <1>2, <1>3, <1>4, <1>5, <2>1

AllStayAccounted == \A s \in Sims : Accounted(s) => Accounted(s)'

\* A step that marks no eSIM and lets none go.
LEMMA KeepingAccounts ==
  ASSUME Inv, RetriedArePlaced, OrdersStay, NoneLetsGo,
         cut \subseteq cut', packages \subseteq packages', retried \subseteq retried',
         \A s \in Sims : Out(s)' => Out(s)
  PROVE  AllStayAccounted
<1> SUFFICES ASSUME NEW s \in Sims, Accounted(s) PROVE Accounted(s)'
  BY DEF AllStayAccounted
<1>1. (Out(s)' => Out(s)) /\ \A q \in Requests : Has(q, s) => Has(q, s)'
  BY DEF NoneLetsGo
<1>2. QED
  BY <1>1, AccountedStays

LEMMA HandlerAccounts ==
  ASSUME Inv, RetriedArePlaced, NEW q \in Requests,
         \/ Sync(q) \/ CreateSimpleOrder(q)
         \/ \E s \in ToppedUp : CreateTopup(q, s)
         \/ \E o \in Requests : Cancel(q, o) \/ CompleteWithCredits(q, o)
         \/ Reload(q) \/ Insert(q) \/ Load(q) \/ Begin(q) \/ Activate(q)
         \/ FinishOrder(q) \/ FailOrder(q) \/ CancelOrder(q) \/ SavePending(q)
  PROVE  AllStayAccounted /\ OrdersStay /\ faults' = faults
<1>1. NoneLetsGo
  BY StartKeeps, HandlerKeeps
<1>2. Insert(q) \/ SavePending(q) \/ UNCHANGED order
      \/ \E st \in Statuses \ {"none"} : SetStatus(q, st)
  BY DEF Sync, CreateSimpleOrder, CreateTopup, Cancel, CompleteWithCredits, Reload, Load, Begin,
         Activate, FinishOrder, FailOrder, CancelOrder, Statuses
<1>3. /\ UNCHANGED <<stock, cut, faults>>
      /\ retried \subseteq retried' /\ packages \subseteq packages'
  BY DEF Sync, CreateSimpleOrder, CreateTopup, Cancel, CompleteWithCredits, Reload, Insert,
         InsertAs, Load, Begin, Activate, FinishOrder, FailOrder, CancelOrder, SavePending,
         SetStatus, Others, History
<1>4. \A s \in Sims : Out(s)' => Out(s)
  BY <1>3 DEF Out
<1>5. OrdersStay
  BY <1>2, OrdersStayPut
<1>6. QED
  BY <1>1, <1>3, <1>4, <1>5, KeepingAccounts

LEMMA ImportAccounts ==
  ASSUME Inv, RetriedArePlaced, NEW q \in Requests, Import(q)
  PROVE  AllStayAccounted /\ OrdersStay /\ faults' = faults
<1>1. NoneLetsGo /\ OrdersStay
  BY HandlerKeeps, OrdersStayPut DEF Import
<1>2. \A s \in Sims : Out(s)' => Out(s)
  BY DEF Import, Out, Inv, TypeOK
<1>3. QED
  BY <1>1, <1>2, KeepingAccounts DEF Import, Others

LEMMA FindAccounts ==
  ASSUME Inv, RetriedArePlaced, NEW q \in Requests, Find(q)
  PROVE  AllStayAccounted /\ OrdersStay /\ faults' = faults
<1>1. \A p \in Requests \ {q} : request'[p] = request[p]
  BY DEF Find, Finish, Inv, TypeOK
<1>2. ~Holding(q)
  BY DEF Find, Holding
<1>3. NoneLetsGo /\ OrdersStay
  BY <1>1, <1>2, OthersKeep, OrdersStayPut DEF Find
<1>4. QED
  BY <1>3, KeepingAccounts DEF Find, Others, Out

LEMMA MarkAccounts ==
  ASSUME Inv, RetriedArePlaced, NEW q \in Requests, Mark(q)
  PROVE  AllStayAccounted /\ OrdersStay /\ faults' = faults
<1>1. /\ request[q].at = "mark" /\ Moved(q, "reload") /\ request[q].doing = "simple"
      /\ \A s \in Sims : s # request[q].sim => stock'[s] = stock[s]
      /\ UNCHANGED <<order, packages, cut, retried, faults>>
  BY MarkEffect DEF Mark
<1>2. /\ request'[q].at = "reload" /\ request'[q].sim = request[q].sim
      /\ request'[q].doing = "simple"
  BY <1>1, MovedFields DEF Points
<1>3. NoneLetsGo /\ OrdersStay
  BY <1>1, MovedKeeps, OrdersStayPut DEF Points
<1>4. ASSUME NEW s \in Sims, Accounted(s) PROVE Accounted(s)'
  <2>1. CASE s = request[q].sim
    <3>1. Has(q, s)'
      BY <1>2, <2>1 DEF Has, Holding
    <3>2. QED
      BY <3>1 DEF Accounted
  <2>2. CASE s # request[q].sim
    <3>1. Out(s)' => Out(s)
      BY <1>1, <2>2 DEF Out
    <3>2. QED
      BY <1>1, <1>3, <1>4, <3>1, AccountedStays DEF NoneLetsGo
  <2>3. QED
    BY <2>1, <2>2
<1>5. QED
  BY <1>1, <1>3, <1>4 DEF AllStayAccounted

LEMMA ReleaseAccounts ==
  ASSUME Inv, RetriedArePlaced, NEW q \in Requests, Release(q)
  PROVE  AllStayAccounted /\ OrdersStay /\ faults' = faults
<1>1. /\ \A s \in Sims : s # request[q].sim => stock'[s] = stock[s]
      /\ stock'[request[q].sim].status = "Inactive"
      /\ \A p \in Requests \ {q} : request'[p] = request[p]
      /\ UNCHANGED <<order, packages, cut, retried, faults>>
  BY ReleaseEffect DEF Release, Left
<1>2. OrdersStay
  BY <1>1, OrdersStayPut
<1>3. ASSUME NEW s \in Sims, Accounted(s) PROVE Accounted(s)'
  <2>1. CASE s = request[q].sim
    BY <1>1, <2>1 DEF Accounted, Out
  <2>2. CASE s # request[q].sim
    <3>1. \A p \in Requests : Has(p, s) => Has(p, s)'
      BY <1>1, <2>2 DEF Has, Holding
    <3>2. Out(s)' => Out(s)
      BY <1>1, <2>2 DEF Out
    <3>3. QED
      BY <1>1, <1>2, <1>3, <3>1, <3>2, AccountedStays
  <2>3. QED
    BY <2>1, <2>2
<1>4. QED
  BY <1>1, <1>2, <1>3 DEF AllStayAccounted

\* createSimpleOrder answers with an order that has its package, or with one that
\* complete-with-credits has taken over.
LEMMA FinalAccounts ==
  ASSUME Inv, RetriedArePlaced, NEW q \in Requests, Final(q)
  PROVE  AllStayAccounted /\ OrdersStay /\ faults' = faults
<1>1. /\ request[q].at = "final" /\ Sound(q) /\ Left(q)
      /\ UNCHANGED <<stock, order, packages, cut, retried, faults>>
  BY FinishLeaves DEF Final, Others, Inv
<1>2. OrdersStay
  BY <1>1, OrdersStayPut
<1>3. order[q].sim = request[q].sim /\ (<<request[q].sim, q>> \in packages \/ q \in retried)
  BY <1>1 DEF Sound, RightPlace, RightOrder, RightOutcome, AtOrder
<1>4. ASSUME NEW s \in Sims, Accounted(s) PROVE Accounted(s)'
  <2>1. CASE s = request[q].sim
    <3>1. s \in Carried' \/ \E o \in retried' : order'[o].sim = s
      BY <1>1, <1>3, <2>1 DEF Carried
    <3>2. QED
      BY <3>1 DEF Accounted
  <2>2. CASE s # request[q].sim
    <3>1. \A p \in Requests : Has(p, s) => Has(p, s)'
      BY <1>1, <2>2 DEF Has, Holding, Left
    <3>2. Out(s)' => Out(s)
      BY <1>1 DEF Out
    <3>3. QED
      BY <1>1, <1>2, <1>4, <3>1, <3>2, AccountedStays
  <2>3. QED
    BY <2>1, <2>2
<1>5. QED
  BY <1>1, <1>2, <1>4 DEF AllStayAccounted

LEMMA CrashAccounts ==
  ASSUME Inv, RetriedArePlaced, Crash
  PROVE  AllStayAccounted /\ OrdersStay /\ faults' = faults
<1>1. /\ UNCHANGED <<stock, order, packages, retried, faults>> /\ cut \subseteq cut'
      /\ \A p \in Requests : Holding(p) => request[p].sim \in cut'
  BY DEF Crash
<1>2. OrdersStay
  BY <1>1 DEF OrdersStay, Placed
<1>3. ASSUME NEW s \in Sims, Accounted(s) PROVE Accounted(s)'
  <2>1. \A p \in Requests : Has(p, s) => Accounted(s)'
    BY <1>1 DEF Has, Accounted
  <2>2. Out(s)' => Out(s)
    BY <1>1 DEF Out
  <2>3. QED
    BY <1>1, <1>2, <1>3, <2>1, <2>2, AccountedStays
<1>4. QED
  BY <1>1, <1>2, <1>3 DEF AllStayAccounted

\* A failed statement costs at most the eSIM of its handler.
LEMMA FaultAccounts ==
  ASSUME Inv, RetriedArePlaced, NEW q \in Requests, Fault(q),
         NEW s \in Sims, s # request[q].sim, Accounted(s)
  PROVE  Accounted(s)'
<1>1. /\ UNCHANGED <<stock, order, packages, cut, retried>> /\ Raise(q)
      /\ \A p \in Requests \ {q} : request'[p] = request[p]
  BY RaiseEffect DEF Fault, Moved, Left
<1>2. OrdersStay
  BY <1>1, OrdersStayPut
<1>3. \A p \in Requests : Has(p, s) => Has(p, s)'
  BY <1>1 DEF Has, Holding
<1>4. Out(s)' => Out(s)
  BY <1>1 DEF Out
<1>5. QED
  BY <1>1, <1>2, <1>3, <1>4, AccountedStays

\* What the property counts.
LEMMA LeaksAreLost ==
  {s \in Sims \ cut : Lost(s)} = Leaks
  BY DEF Lost, Leaks, Accounted, Out, Has

Counted == RetriedArePlaced /\ Cardinality(Leaks) <= faults

LEMMA RetriedStayPlaced ==
  ASSUME Inv, RetriedArePlaced, OrdersStay,
         UNCHANGED retried \/ \E q \in Requests : SavePending(q)
  PROVE  RetriedArePlaced'
<1>1. CASE UNCHANGED retried
  BY <1>1 DEF RetriedArePlaced, OrdersStay, Inv, TypeOK
<1>2. ASSUME NEW q \in Requests, SavePending(q) PROVE RetriedArePlaced'
  <2>1. request[q].order \in Requests /\ Placed(request[q].order)
    BY <1>2 DEF SavePending, Inv, Sound, RightOrder, AtOrder
  <2>2. QED
    BY <1>2, <2>1 DEF SavePending, RetriedArePlaced, OrdersStay, Inv, TypeOK
<1>3. QED
  BY <1>1, <1>2

LEMMA LeaksFinite ==
  IsFiniteSet(Leaks) /\ Cardinality(Leaks) \in Nat
  BY Assumed, FS_Subset, FS_CardinalityType DEF Leaks

LEMMA CalmCounts ==
  ASSUME Inv, Inv', Counted, AllStayAccounted, faults' = faults
  PROVE  (Cardinality(Leaks) <= faults)'
<1>1. Leaks' \in SUBSET Leaks
  BY DEF Leaks, AllStayAccounted
<1>2. Cardinality(Leaks') <= Cardinality(Leaks) /\ Cardinality(Leaks') \in Nat
  BY <1>1, LeaksFinite, FS_Subset, FS_CardinalityType
<1>3. QED
  BY <1>2, LeaksFinite DEF Counted, Inv, TypeOK

LEMMA FaultCounts ==
  ASSUME Inv, Inv', Counted, NEW q \in Requests, Fault(q)
  PROVE  Counted'
<1> DEFINE More == Leaks \cup {request[q].sim}
<1>1. Leaks' \in SUBSET More
  BY FaultAccounts DEF Leaks, Counted
<1>2. IsFiniteSet(More) /\ Cardinality(More) <= Cardinality(Leaks) + 1
  BY LeaksFinite, FS_AddElement, SMTT(30)
<1>3. Cardinality(Leaks') <= Cardinality(More) /\ Cardinality(Leaks') \in Nat
      /\ Cardinality(More) \in Nat
  BY <1>1, <1>2, FS_Subset, FS_CardinalityType
<1>4. Cardinality(Leaks') <= faults'
  <2> HIDE DEF More
  <2>1. QED
    BY <1>2, <1>3, LeaksFinite DEF Fault, Counted, Inv, TypeOK
<1>5. RetriedArePlaced'
  BY OrdersStayPut, RetriedStayPlaced DEF Fault, Counted
<1>6. QED
  BY <1>4, <1>5 DEF Counted

LEMMA NextCounts ==
  ASSUME Inv, Inv', Counted, [Next]_vars
  PROVE  Counted'
<1>1. CASE UNCHANGED vars
  BY <1>1 DEF vars, Counted, RetriedArePlaced, Placed, Leaks, Accounted, Out, Carried, Has, Holding
<1>2. ASSUME NEW q \in Requests, Fault(q) PROVE Counted'
  BY <1>2, FaultCounts
<1>3. ASSUME AllStayAccounted, OrdersStay, faults' = faults,
             UNCHANGED retried \/ \E q \in Requests : SavePending(q)
      PROVE  Counted'
  <2>1. (Cardinality(Leaks) <= faults)'
    BY <1>3, CalmCounts
  <2>2. RetriedArePlaced'
    BY <1>3, RetriedStayPlaced DEF Counted
  <2>3. QED
    BY <2>1, <2>2 DEF Counted
<1>4. ASSUME NEW q \in Requests,
         \/ Sync(q) \/ CreateSimpleOrder(q)
         \/ \E s \in ToppedUp : CreateTopup(q, s)
         \/ \E o \in Requests : Cancel(q, o) \/ CompleteWithCredits(q, o)
         \/ Step(q)
      PROVE  Counted'
  <2>1. AllStayAccounted /\ OrdersStay /\ faults' = faults
    BY <1>4, HandlerAccounts, ImportAccounts, FindAccounts, MarkAccounts, ReleaseAccounts,
       FinalAccounts DEF Step, Counted
  <2>2. UNCHANGED retried \/ SavePending(q)
    BY <1>4 DEF Sync, CreateSimpleOrder, CreateTopup, Cancel, CompleteWithCredits, Step, Import,
         Find, Mark, Reload, Insert, InsertAs, Release, Load, Begin, Activate, FinishOrder,
         FailOrder, Final, CancelOrder, SetStatus, Others, History
  <2>3. QED
    BY <1>3, <2>1, <2>2
<1>5. CASE Crash
  BY <1>3, <1>5, CrashAccounts DEF Crash, Counted
<1>6. QED
  BY <1>1, <1>2, <1>4, <1>5 DEF Next

\* Of the eSIMs that are allocated, in nobody's hands and without a package, those
\* whose order was not processed again and that no restart took are at most as
\* many as database statements that failed (esim-allocation.service.ts).
THEOREM LeaksOnlyByFaults ==
  Spec => []LeaksAreFaults
<1>1. Init => Counted
  <2> SUFFICES ASSUME Init PROVE Counted
    OBVIOUS
  <2>1. \A s \in Sims : ~Out(s)
    BY DEF Init, Out, NoRow
  <2>2. Leaks = {}
    BY <2>1 DEF Leaks, Accounted
  <2>3. QED
    BY <2>2, FS_EmptySet DEF Init, Counted, RetriedArePlaced
<1>2. Inv /\ Inv' /\ Counted /\ [Next]_vars => Counted'
  BY NextCounts
<1>3. Counted => LeaksAreFaults
  BY LeaksAreLost DEF Counted, LeaksAreFaults
<1>4. QED
  BY <1>1, <1>2, <1>3, InvAlways, PTL DEF Spec
=============================================================================
