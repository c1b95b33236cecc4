------------------------------ MODULE Referrals ------------------------------
(***************************************************************************)
(* The referral rewards, on top of the accounts: when the first order of a *)
(* customer who registered with somebody's code is completed, both of them *)
(* are credited.  The handlers that complete orders run among those of the *)
(* accounts.  All orders are of one customer, the second user.             *)
(***************************************************************************)
EXTENDS Accounts

CONSTANTS
    Orders,
    Free       \* the orders with a total of zero

ASSUME OrdersAssumption == Free \subseteq Orders

VARIABLES
    completed,   \* the orders whose status is completed
    ledger,      \* who was credited, under a key made of the order and the role
    crowded,     \* history: an order was completed before another was counted
    reopened     \* history: orders set back from completed

rewards == <<completed, ledger, crowded, reopened>>
vars == <<accounts, request, troubles, rewards>>

Customer == 2
Inviter == users[Customer].by

Init ==
    /\ AccountsInit
    /\ completed = {} /\ ledger = {}
    /\ crowded = FALSE /\ reopened = {}
-----------------------------------------------------------------------------
\* The end of processOrder.  The status was checked earlier, so two handlers may be
\* here with one order.
ProcessOrder(q, o) ==
    /\ Customer \in DOMAIN users
    /\ o \notin completed
    /\ Start(q, Local("complete", "order", o, NoUser))
    /\ UNCHANGED <<accounts, troubles, rewards>>

\* A top-up, and a paid order whose activation failed, are completed without rewards.
ProcessTopup(q, o) ==
    /\ Customer \in DOMAIN users
    /\ o \notin completed
    /\ Start(q, Local("complete", "topup", o, NoUser))
    /\ UNCHANGED <<accounts, troubles, rewards>>

\* The rewards are counted in a later step: another order may come between.
Complete(q) ==
    LET o == request[q].subject
        counted == request[q].doing = "order"
    IN  /\ request[q].at = "complete"
        /\ completed' = completed \cup {o}
        /\ crowded' = (crowded \/ ~counted \/ \E p \in Requests :
                          request[p].at = "count" /\ request[p].subject # o)
        /\ IF counted THEN Go(q, "count") ELSE Finish(q)
        /\ UNCHANGED <<accounts, troubles, ledger, reopened>>

\* The late save of a handler of module Checkout puts an earlier status back.
Reopen(q, o) ==
    /\ o \in completed
    /\ Start(q, Local("reopen", "save", o, NoUser))
    /\ UNCHANGED <<accounts, troubles, rewards>>

SaveOldStatus(q) ==
    /\ request[q].at = "reopen"
    /\ completed' = completed \ {request[q].subject}
    /\ reopened' = reopened \cup {request[q].subject}
    /\ Finish(q)
    /\ UNCHANGED <<accounts, troubles, ledger, crowded>>

\* Mutant of IsFirst: any completed order will do.
IsFirstOrLater == completed # {}

\* Mutant of IsFirst: the order at hand is taken to be completed after the count.
IsFirstToBe == completed = {}

IsFirst == Cardinality(completed) = 1

\* handleReferralRewards: reads the customer, counts, reads the total, then pays.
Count(q) ==
    /\ request[q].at = "count"
    /\ IF Inviter # 0 /\ IsFirst /\ request[q].subject \notin Free
         THEN Go(q, "payInvited")
         ELSE Finish(q)
    /\ UNCHANGED <<accounts, troubles, rewards>>

Credited(role, user, q) ==
    /\ ledger' = ledger \cup {[role |-> role, user |-> user, order |-> request[q].subject]}
    /\ UNCHANGED <<accounts, troubles, completed, crowded, reopened>>

\* Mutant of PayInvited: an early return after the first of the two rewards.
PayInvitedOnly(q) ==
    /\ request[q].at = "payInvited"
    /\ Credited("invited", Customer, q)
    /\ Finish(q)

\* addCredits under a key of the order and the role: a second one is skipped.
PayInvited(q) ==
    /\ request[q].at = "payInvited"
    /\ Credited("invited", Customer, q)
    /\ Go(q, "payInviter")

PayInviter(q) ==
    /\ request[q].at = "payInviter"
    /\ Credited("inviter", Inviter, q)
    /\ Finish(q)

Next ==
    \/ AccountsNext /\ UNCHANGED rewards
    \/ \E q \in Requests :
          \/ \E o \in Orders : ProcessOrder(q, o) \/ ProcessTopup(q, o) \/ Reopen(q, o)
          \/ Complete(q) \/ SaveOldStatus(q) \/ Count(q) \/ PayInvited(q) \/ PayInviter(q)

Spec == Init /\ [][Next]_vars
-----------------------------------------------------------------------------
TypeOK ==
    /\ \A u \in DOMAIN users : users[u] \in User
    /\ DOMAIN codes = DOMAIN users
    /\ \A u \in DOMAIN codes : codes[u] \in {"none", "valid", "expired"}
    /\ unchecked \subseteq DOMAIN users
    /\ \A q \in Requests :
          /\ request[q].at \in {"new", "done", "insert", "mail", "store", "write", "login",
                                "complete", "count", "payInvited", "payInviter", "reopen"}
          /\ request[q].row \in User
          /\ request[q].at \in {"mail", "store", "write"} => request[q].subject \in DOMAIN users
          /\ request[q].at \in {"complete", "count", "payInvited", "payInviter", "reopen"} =>
                request[q].subject \in Orders
    /\ completed \cup reopened \subseteq Orders
    /\ crowded \in BOOLEAN
    /\ troubles \in 0..MaxTroubles

Rewarded(role) == {e.order : e \in {x \in ledger : x.role = role}}

\* One order of the customer at most is rewarded as the first, unless a completed
\* order was set back and stopped counting; both are paid for it, each their own
\* reward and nobody else, unless the second transfer is under way, or something
\* failed before it: it is not tried again.
RewardsAreRight ==
    /\ Cardinality(Rewarded("invited")) <= 1 \/ reopened # {}
    /\ \A o \in Rewarded("invited") \ Rewarded("inviter") :
          \/ troubles > 0
          \/ \E q \in Requests : request[q].at = "payInviter" /\ request[q].subject = o
    /\ Rewarded("inviter") \subseteq Rewarded("invited")
    /\ \A e \in ledger : e.user = (IF e.role = "invited" THEN Customer ELSE Inviter)

\* A referred customer with a completed order has been rewarded once the handlers
\* are done, unless two first orders were completed together, one was completed by a
\* way that gives no rewards, was free or was set back, or something failed.
RewardsAreMissedOnlyByOverlap ==
    \/ completed = {} \/ Inviter = 0 \/ Rewarded("invited") # {}
    \/ crowded \/ reopened # {} \/ troubles > 0 \/ completed \cap Free # {}
    \/ \E q \in Requests : request[q].at \in {"count", "payInvited"}
=============================================================================
