-------------------------------- MODULE Esims --------------------------------
(***************************************************************************)
(* The stock of eSIMs and the orders that carry packages: the import of    *)
(* free eSIMs from the OCS, the customer's simple order (which takes an    *)
(* eSIM and is processed at once), the top-up of a subscriber, the         *)
(* cancellation of an order, and complete-with-credits, which processes an *)
(* order again whatever became of it.                                      *)
(*                                                                         *)
(* A step is one database statement or one OCS call.  An order has the id  *)
(* of the request that places it.  Money is left out (module Checkout).    *)
(***************************************************************************)
EXTENDS Integers, FiniteSets

CONSTANTS
    Sims,         \* subscribers of the reseller's account at the OCS
    ToppedUp,     \* those that top-ups are ordered for
    Requests,     \* handler runs, numbered as they start
    Null,
    MaxInFlight,  \* bound: handlers that overlap
    MaxTroubles   \* bound: failed database statements and restarts, together

ASSUME NullAssumption == Null \notin Sims /\ Null \notin Requests
ASSUME FiniteAssumption == IsFiniteSet(Sims) /\ IsFiniteSet(Requests)
ASSUME ToppedUpAssumption == ToppedUp \subseteq Sims
ASSUME RequestsAssumption == Requests \subseteq Nat
ASSUME BoundsAssumption == {MaxInFlight, MaxTroubles} \subseteq Nat

VARIABLES
    stock,     \* the esims table, by subscriber
    order,     \* the orders table, by the request that placed the order
    packages,  \* at the OCS: pairs (subscriber, order) a package was added for
    request,   \* the handlers
    raced,     \* history: eSIMs that two handlers had found before one marked it
    loose,     \* history: eSIMs released with a package of the order on them
    cut,       \* history: eSIMs in the hands of a handler that a restart ended
    retried,   \* history: orders that complete-with-credits processed again
    faults,
    crashes

vars == <<stock, order, packages, request, raced, loose, cut, retried, faults,
          crashes>>

\* status stands for the columns status and simStatus: "Inactive" when either is
\* 'Inactive' or NULL, "Other" when the OCS reports something else.  batch says
\* which import made the row (createdAt).
RowStatuses == {"unknown", "Inactive", "Other", "Allocated"}
NoRow == [status |-> "unknown", batch |-> 0]

Statuses == {"none", "pending", "processing", "completed", "failed", "cancelled"}
Kinds == {"one_time", "topup"}
NoOrder == [status |-> "none", kind |-> "one_time", sim |-> Null]

Doing == {"simple", "topup", "complete", "cancel", "sync"}
Points == {"new", "done", "find", "mark", "reload", "insert", "load", "begin",
           "activate", "finish", "fail", "final", "release", "save", "cancel",
           "import"}

\* A handler: its next call, what it is, its order, its eSIM, its listing.
Local(at, doing, o, s, list) ==
    [at |-> at, doing |-> doing, order |-> o, sim |-> s, list |-> list]
Unused == Local("new", "simple", Null, Null, {})
Ended == [Unused EXCEPT !.at = "done"]

Init ==
    /\ \E first \in SUBSET Sims :
          stock = [s \in Sims |->
              IF s \in first THEN [status |-> "Inactive", batch |-> 1] ELSE NoRow]
    /\ order = [q \in Requests |-> NoOrder]
    /\ packages = {}
    /\ request = [q \in Requests |-> Unused]
    /\ raced = {} /\ loose = {} /\ cut = {} /\ retried = {}
    /\ faults = 0
    /\ crashes = 0

Known == {s \in Sims : stock[s].status # "unknown"}
Available == {s \in Sims : stock[s].status = "Inactive"}
InFlight == {q \in Requests : request[q].at \notin {"new", "done"}}

\* A handler of a simple order between marking its eSIM and its end.
Holding(q) ==
    request[q].doing = "simple" /\ request[q].at \notin {"new", "done", "find", "mark"}

Go(q, at) == request' = [request EXCEPT ![q].at = at]
Finish(q) == request' = [request EXCEPT ![q] = Ended]

\* An order is processed: createSimpleOrder reads it once more, inside its try; the
\* others have nothing to do that matters here.
Return(q) == IF request[q].doing = "simple" THEN Go(q, "final") ELSE Finish(q)

Start(q, local) ==
    /\ request[q].at = "new"
    /\ \A p \in Requests : p < q => request[p].at # "new"
    /\ Cardinality(InFlight) < MaxInFlight
    /\ request' = [request EXCEPT ![q] = local]

History == <<raced, loose, cut, retried, faults, crashes>>
Others == <<packages, raced, loose, cut, retried, faults, crashes>>

\* Where an exception thrown at a point of handler q goes: the catch of the
\* processing function (which marks the order failed), the catch of
\* createSimpleOrder (which releases the eSIM), or out.
Raise(q) ==
    LET at == request[q].at
        inProcessing == {"activate", "finish"}
                          \cup (IF request[q].doing = "topup" THEN {"begin"} ELSE {})
    IN  CASE at \in inProcessing -> Go(q, "fail")
          [] request[q].doing = "simple"
               /\ at \in {"insert", "load", "begin", "fail", "final"} -> Go(q, "release")
          [] OTHER -> Finish(q)
-----------------------------------------------------------------------------
(* GET esims/sync.                                                         *)

\* Any set of subscribers may be listed as FREE at some moment.
Sync(q) ==
    /\ \E list \in SUBSET Sims :
          list # {} /\ Start(q, Local("import", "sync", Null, Null, list))
    /\ UNCHANGED <<stock, order, Others>>

NextBatch == 1 + Cardinality({stock[s].batch : s \in Known})

\* Mutant of Import: a row that is there already is written over.
Upsert(q) ==
    /\ request[q].at = "import"
    /\ \E good \in SUBSET request[q].list :
          stock' = [s \in Sims |->
              IF s \in request[q].list
                THEN [status |-> IF s \in good THEN "Inactive" ELSE "Other",
                      batch |-> NextBatch]
                ELSE stock[s]]
    /\ Finish(q)
    /\ UNCHANGED <<order, Others>>

\* save(create(...)) inserts every row in one transaction; subscriberId is unique,
\* so one known subscriber in the listing undoes the import of all the others.
Import(q) ==
    /\ request[q].at = "import"
    /\ IF request[q].list \cap Known = {}
         THEN \E good \in SUBSET request[q].list :
                 stock' = [s \in Sims |->
                     IF s \in request[q].list
                       THEN [status |-> IF s \in good THEN "Inactive" ELSE "Other",
                             batch |-> NextBatch]
                       ELSE stock[s]]
         ELSE UNCHANGED stock
    /\ Finish(q)
    /\ UNCHANGED <<order, Others>>
-----------------------------------------------------------------------------
(* createSimpleOrder and the allocation it calls.                          *)

CreateSimpleOrder(q) ==
    /\ Start(q, Local("find", "simple", Null, Null, {}))
    /\ UNCHANGED <<stock, order, Others>>

Oldest(among) == {s \in among : \A t \in among : stock[s].batch <= stock[t].batch}

\* Mutant of Find: the status of the row is not looked at.
FindAny(q) ==
    /\ request[q].at = "find"
    /\ \E s \in Oldest(Known) :
          request' = [request EXCEPT ![q].at = "mark", ![q].sim = s]
    /\ UNCHANGED <<stock, order, Others>>

\* checkAvailability and the findOne of allocateEsimForPackage.
Find(q) ==
    /\ request[q].at = "find"
    /\ \/ \E s \in Oldest(Available) :
             request' = [request EXCEPT ![q].at = "mark", ![q].sim = s]
       \/ Available = {} /\ Finish(q)
    /\ UNCHANGED <<stock, order, Others>>

\* Mutant of Mark: another spelling of the status.
MarkMisspelt(q) ==
    /\ request[q].at = "mark"
    /\ stock' = [stock EXCEPT ![request[q].sim].status = "allocated"]
    /\ Go(q, "reload")
    /\ UNCHANGED <<order, Others>>

\* The update names the row and nothing else.
Mark(q) ==
    LET s == request[q].sim
    IN  /\ request[q].at = "mark"
        /\ stock' = [stock EXCEPT ![s].status = "Allocated"]
        /\ Go(q, "reload")
        /\ raced' = IF \E p \in Requests \ {q} : request[p].at = "mark" /\ request[p].sim = s
                      THEN raced \cup {s} ELSE raced
        /\ UNCHANGED <<order, packages, loose, cut, retried, faults, crashes>>

\* findOneOrFail, and the order number; neither is inside the try.
Reload(q) ==
    /\ request[q].at = "reload"
    /\ Go(q, "insert")
    /\ UNCHANGED <<stock, order, Others>>

InsertAs(q, kind, next) ==
    /\ request[q].at = "insert"
    /\ order' = [order EXCEPT ![q] =
          [status |-> "pending", kind |-> kind, sim |-> request[q].sim]]
    /\ request' = [request EXCEPT ![q].at = next, ![q].order = q]
    /\ UNCHANGED <<stock, Others>>

\* The order of a simple order is read again by processOrder, a top-up by
\* processTopup, which looks at its type and not at its status.
Insert(q) ==
    \/ request[q].doing = "simple" /\ InsertAs(q, "one_time", "load")
    \/ request[q].doing = "topup" /\ InsertAs(q, "topup", "begin")

\* Mutant of Release: only an eSIM whose order failed is given back.
ReleaseFailed(q) ==
    LET s == request[q].sim
    IN  /\ request[q].at = "release"
        /\ IF request[q].order # Null /\ order[request[q].order].status = "failed"
             THEN stock' = [stock EXCEPT ![s].status = "Inactive"]
             ELSE UNCHANGED stock
        /\ Finish(q)
        /\ UNCHANGED <<order, Others>>

\* The catch of createSimpleOrder gives the eSIM back whatever went wrong.
Release(q) ==
    LET s == request[q].sim
    IN  /\ request[q].at = "release"
        /\ stock' = [stock EXCEPT ![s].status = "Inactive"]
        /\ loose' = IF <<s, request[q].order>> \in packages THEN loose \cup {s} ELSE loose
        /\ Finish(q)
        /\ UNCHANGED <<order, packages, raced, cut, retried, faults, crashes>>
-----------------------------------------------------------------------------
(* Processing an order.                                                    *)

\* POST orders/topup: placed and processed at once for any subscriber.
CreateTopup(q, s) ==
    /\ Start(q, Local("insert", "topup", Null, s, {}))
    /\ UNCHANGED <<stock, order, Others>>

\* processOrder: read, and return, throw or go on.
Load(q) ==
    LET status == order[request[q].order].status
    IN  /\ request[q].at = "load"
        /\ CASE status = "pending"                      -> Go(q, "begin")
             [] status \in {"completed", "processing"} -> Return(q)
             [] OTHER                                   -> Raise(q)
        /\ UNCHANGED <<stock, order, Others>>

SetStatus(q, status) ==
    /\ order' = [order EXCEPT ![request[q].order].status = status]
    /\ UNCHANGED <<stock, Others>>

Begin(q) ==
    /\ request[q].at = "begin"
    /\ SetStatus(q, "processing")
    /\ Go(q, "activate")

\* Mutant of InsistsOnPackage: an answer without a package will do.
InsistsOnNothing(q) == FALSE

InsistsOnPackage(q) == order[request[q].order].kind = "one_time"

\* The OCS adds a package and answers; adds it and the answer is lost; refuses;
\* or answers with nothing in it, which only a one-time order takes for an error.
Activate(q) ==
    LET o == request[q].order
    IN  /\ request[q].at = "activate"
        /\ \/ /\ packages' = packages \cup {<<order[o].sim, o>>}
              /\ Go(q, "finish") \/ Go(q, "fail")
           \/ /\ UNCHANGED packages
              /\ Go(q, "fail") \/ (~InsistsOnPackage(q) /\ Go(q, "finish"))
        /\ UNCHANGED <<stock, order, History>>

\* The answer is written to the order and the order is completed; what follows is
\* the subject of modules Usage (the usage record) and Referrals (the rewards).
FinishOrder(q) ==
    /\ request[q].at = "finish"
    /\ SetStatus(q, "completed")
    /\ Return(q)

FailOrder(q) ==
    /\ request[q].at = "fail"
    /\ SetStatus(q, "failed")
    /\ Raise(q)

Final(q) ==
    /\ request[q].at = "final"
    /\ Finish(q)
    /\ UNCHANGED <<stock, order, Others>>
-----------------------------------------------------------------------------
(* What else happens to an order afterwards.                               *)

\* cancel reads the order, then writes its status; the eSIM is left alone.
Cancel(q, o) ==
    /\ order[o].status \notin {"none", "completed"}
    /\ Start(q, Local("cancel", "cancel", o, Null, {}))
    /\ UNCHANGED <<stock, order, Others>>

CancelOrder(q) ==
    /\ request[q].at = "cancel"
    /\ SetStatus(q, "cancelled")
    /\ Finish(q)

\* completeWithCredits of an order whose price the credits cover: no status is
\* refused, the order is made pending again and processed.
CompleteWithCredits(q, o) ==
    /\ order[o].status # "none"
    /\ Start(q, Local("save", "complete", o, Null, {}))
    /\ UNCHANGED <<stock, order, Others>>

SavePending(q) ==
    LET o == request[q].order
    IN  /\ request[q].at = "save"
        /\ order' = [order EXCEPT ![o].status = "pending"]
        /\ retried' = retried \cup {o}
        /\ Go(q, "load")
        /\ UNCHANGED <<stock, packages, raced, loose, cut, faults, crashes>>
-----------------------------------------------------------------------------
\* A database statement fails; nothing is written.
Fault(q) ==
    /\ request[q].at \in Points \ {"new", "done", "activate"}
    /\ faults + crashes < MaxTroubles
    /\ faults' = faults + 1
    /\ Raise(q)
    /\ UNCHANGED <<stock, order, packages, raced, loose, cut, retried, crashes>>

\* The process restarts: its handlers are gone.
Crash ==
    /\ faults + crashes < MaxTroubles
    /\ InFlight # {}
    /\ crashes' = crashes + 1
    /\ request' = [q \in Requests |-> IF q \in InFlight THEN Ended ELSE request[q]]
    /\ cut' = cut \cup {request[q].sim : q \in {p \in Requests : Holding(p)}}
    /\ UNCHANGED <<stock, order, packages, raced, loose, retried, faults>>

Step(q) ==
    \/ Import(q) \/ Find(q) \/ Mark(q) \/ Reload(q) \/ Insert(q) \/ Release(q)
    \/ Load(q) \/ Begin(q) \/ Activate(q) \/ FinishOrder(q) \/ FailOrder(q)
    \/ Final(q) \/ CancelOrder(q) \/ SavePending(q)

Next ==
    \/ \E q \in Requests :
          \/ Sync(q) \/ CreateSimpleOrder(q)
          \/ \E s \in ToppedUp : CreateTopup(q, s)
          \/ \E o \in Requests : Cancel(q, o) \/ CompleteWithCredits(q, o)
          \/ Step(q) \/ Fault(q)
    \/ Crash

Spec == Init /\ [][Next]_vars

\* A handler that has begun goes on: node runs whatever is ready, and every
\* database and HTTP call is answered or times out.
Fairness == \A q \in Requests : WF_vars(Step(q))
FairSpec == Spec /\ Fairness
-----------------------------------------------------------------------------
TypeOK ==
    /\ stock \in [Sims -> [status : RowStatuses, batch : Nat]]
    /\ order \in [Requests -> [status : Statuses, kind : Kinds, sim : Sims \cup {Null}]]
    /\ packages \subseteq Sims \X Requests
    /\ request \in [Requests ->
          [at : Points, doing : Doing, order : Requests \cup {Null},
           sim : Sims \cup {Null}, list : SUBSET Sims]]
    /\ raced \subseteq Sims /\ loose \subseteq Sims /\ cut \subseteq Sims /\ retried \subseteq Requests
    /\ {faults, crashes} \subseteq 0..MaxTroubles

Library == INSTANCE Stock WITH
    Borrowers <- Requests,
    known <- Known,
    shelf <- Available,
    eyed <- {e \in Sims \X Requests : request[e[2]].at = "mark" /\ request[e[2]].sim = e[1]},
    lent <- {e \in Sims \X Requests : Holding(e[2]) /\ request[e[2]].sim = e[1]}

\* The stock keeps its promise (esim-allocation.service.ts, esims.service.ts): the
\* import of a listing, however late it is saved, never brings back an eSIM that
\* is out, and only a handler that took an eSIM puts it back on the shelf.
ImplementsStock == Library!Spec

SimpleOrders == {o \in Requests : order[o].status # "none" /\ order[o].kind = "one_time"}

\* Two customers get packages on one eSIM only in the ways the code leaves open:
\* both found it before either marked it, it was released although the OCS had
\* added a package, or complete-with-credits processed an order again after its
\* eSIM had gone back to the shelf.
SharedOnlyByRace ==
    \A s \in Sims : \A o, p \in SimpleOrders :
        (o # p /\ {<<s, o>>, <<s, p>>} \subseteq packages)
            => s \in raced \cup loose \/ {o, p} \cap retried # {}

Carried == {e[1] : e \in packages}
Lost(s) ==
    /\ stock[s].status = "Allocated"
    /\ s \notin Carried
    /\ \A q \in Requests : ~(Holding(q) /\ request[q].sim = s)
    /\ \A o \in retried : order[o].sim # s

\* An eSIM that is allocated is in the hands of a handler or carries a package,
\* except for those of orders processed again while their first handler was still
\* there, those a handler held when the process was restarted, and at most one per
\* failed statement: nothing brings those back.
LeaksAreFaults == Cardinality({s \in Sims \ cut : Lost(s)}) <= faults

\* A simple order that is completed has its package on the eSIM it names.
CompletedCarries ==
    \A o \in SimpleOrders : order[o].status = "completed" => <<order[o].sim, o>> \in packages

\* An eSIM that was taken is sold or back on the shelf in the end, unless a
\* statement failed, the process was restarted, or its order was processed again.
TakenIsSettled ==
    \A s \in Sims :
        stock[s].status = "Allocated"
            ~> \/ s \in Available \cup Carried
               \/ faults > 0 \/ crashes > 0 \/ \E o \in retried : order[o].sim = s
=============================================================================
