--------------------------- MODULE ReferralsProofs ---------------------------
(***************************************************************************)
(* Theorems about Accounts and Referrals, for any addresses, codes,        *)
(* orders, handlers, failures and restarts.                                *)
(***************************************************************************)
EXTENDS Referrals, FiniteSetTheorems, TLAPS

LEMMA Assumed ==
  /\ FirstEmail \in Emails /\ FirstCode \in ReferralCodes
  /\ Requests \subseteq Nat /\ 0 \notin Requests /\ MaxTroubles \in Nat
  /\ Free \subseteq Orders
  BY FirstAssumption, RequestsAssumption, BoundsAssumption, OrdersAssumption

-----------------------------------------------------------------------------
(* What the tables say, and what a handler knows at each of its points.    *)

Origins == {"sign-up", "post", "google", "apple"}
Person == [email : Emails, verified : BOOLEAN, active : BOOLEAN,
           password : Requests \cup {0}, code : ReferralCodes, by : Nat,
           from : Origins \cup {"earlier"}]
Points == {"new", "done", "insert", "mail", "store", "write", "login",
           "complete", "count", "payInvited", "payInviter", "reopen"}
AtOrder == {"complete", "count", "payInvited", "payInviter", "reopen"}
Doings == Origins \cup {"resend", "forgot", "verify", "password", "update", "status",
                       "order", "topup", "save"}
Handlers == [at : Points, doing : Doings, subject : Nat \cup Orders, row : Person,
             overtaken : BOOLEAN]

Types ==
    /\ users \in Seq(Person)
    /\ codes \in Seq({"none", "valid", "expired"}) /\ Len(codes) = Len(users)
    /\ request \in [Requests -> Handlers]
    /\ unchecked \subseteq DOMAIN users
    /\ completed \subseteq Orders /\ reopened \subseteq Orders
    /\ crowded \in BOOLEAN
    /\ troubles \in 0..MaxTroubles

Invited == Rewarded("invited")

ReferrersExist == \A u \in DOMAIN users : users[u].by \in DOMAIN users \cup {0}

RightTables ==
    /\ ReferrersExist
    /\ AccountsDiffer
    /\ completed # {} => Customer \in DOMAIN users
    /\ IsFiniteSet(completed)

\* The user or order a handler deals with.
RightSubject(q) ==
    LET h == request[q]
    IN  /\ h.row.by \in DOMAIN users \cup {0}
        /\ h.at \in {"mail", "store", "write"} => h.subject \in DOMAIN users
        /\ h.at \in AtOrder => h.subject \in Orders /\ Customer \in DOMAIN users

\* Who has the address of a user about to be inserted was never checked either.
RightInsert(q) ==
    LET h == request[q]
    IN  h.at = "insert" =>
          /\ h.doing \in Origins /\ h.row.from = h.doing
          /\ (h.doing # "post" /\ ~h.overtaken) =>
                \A u \in DOMAIN users : users[u].email = h.row.email => u \in unchecked

\* The copy that is about to be written, against the row.
RightWrite(q) ==
    LET h == request[q]
        old == users[h.subject]
    IN  h.at = "write" =>
          /\ h.doing = "password" => h.row.password = q
          /\ h.doing # "update" => old.email = h.row.email \/ h.subject \in unchecked
          /\ ~h.overtaken =>
                /\ h.row.email # old.email => h.doing = "update"
                /\ h.row.active # old.active => h.doing = "status"
                /\ h.row.verified # old.verified => h.doing = "verify" /\ h.row.verified

\* The order a reward is for.
RightReward(q) ==
    LET h == request[q]
    IN  /\ (h.at \in {"count", "payInvited"} /\ reopened = {}) => h.subject \in completed
        /\ h.at = "payInviter" => h.subject \in Invited

Sound(q) == RightSubject(q) /\ RightInsert(q) /\ RightWrite(q) /\ RightReward(q)

Inv == Types /\ RightTables /\ \A q \in Requests : Sound(q)

LEMMA RowTypes ==
  ASSUME Inv
  PROVE  /\ \A u \in DOMAIN users : users[u] \in Person
         /\ \A q \in Requests : request[q] \in Handlers /\ Sound(q)
         /\ DOMAIN users = 1..Len(users) /\ Len(users) \in Nat
         /\ DOMAIN codes = DOMAIN users
  BY DEF Inv, Types

LEMMA InvIsTyped ==
  ASSUME Inv
  PROVE  TypeOK
<1>1. ASSUME NEW row \in Person, row.by \in DOMAIN users \cup {0} PROVE row \in User
  BY <1>1 DEF Person, User, Origins
<1>2. \A u \in DOMAIN users : users[u] \in User
  BY <1>1, RowTypes DEF Inv, RightTables, ReferrersExist
<1>3. \A q \in Requests : request[q].row \in User
  BY <1>1, RowTypes DEF Sound, RightSubject, Handlers
<1>4. \A u \in DOMAIN codes : codes[u] \in {"none", "valid", "expired"}
  BY DEF Inv, Types
<1>5. \A q \in Requests :
         /\ request[q].at \in Points
         /\ request[q].at \in {"mail", "store", "write"} => request[q].subject \in DOMAIN users
         /\ request[q].at \in AtOrder => request[q].subject \in Orders
  BY RowTypes DEF Handlers, Sound, RightSubject
<1>6. QED
  BY <1>2, <1>3, <1>4, <1>5, RowTypes DEF Inv, Types, TypeOK, Points, AtOrder

-----------------------------------------------------------------------------
(* What no step takes back, and what a step leaves the other handlers.     *)

Grows ==
    /\ DOMAIN users \subseteq DOMAIN users'
    /\ unchecked \subseteq unchecked'
    /\ reopened \subseteq reopened' /\ (reopened' = {} => completed \subseteq completed')
    /\ Invited \subseteq Invited'

\* A handler that did not move: another one may have registered its address, or
\* written the row that it has a copy of.
Waits(p) ==
    LET h == request[p]
        g == request'[p]
        s == request[p].subject
    IN  /\ g.at = h.at /\ g.doing = h.doing /\ g.subject = h.subject /\ g.row = h.row
        /\ (h.at = "insert" /\ ~g.overtaken) =>
              /\ ~h.overtaken
              /\ \A u \in DOMAIN users' : users'[u].email = h.row.email =>
                    u \in unchecked' \/ (u \in DOMAIN users /\ users[u].email = h.row.email)
        /\ h.at = "write" =>
              /\ users'[s].email = users[s].email \/ s \in unchecked'
              /\ ~g.overtaken =>
                    /\ ~h.overtaken
                    /\ users'[s].email = users[s].email /\ users'[s].active = users[s].active
                    /\ users'[s].verified = users[s].verified

LEMMA WaitingIsSound ==
  ASSUME Inv, Grows, NEW p \in Requests, Waits(p)
  PROVE  Sound(p)'
<1> DEFINE h == request[p]
<1>1. Sound(p) /\ h \in Handlers /\ Grows /\ Waits(p)
  BY RowTypes
<1>2. /\ request'[p].at = h.at /\ request'[p].doing = h.doing
      /\ request'[p].subject = h.subject /\ request'[p].row = h.row
  BY DEF Waits
<1>3. RightSubject(p)'
  BY <1>1, <1>2 DEF Sound, RightSubject, Grows
<1>4. RightInsert(p)'
  <2>1. CASE h.at # "insert"
    BY <1>2, <2>1 DEF RightInsert
  <2>2. CASE h.at = "insert"
    <3>1. h.doing \in Origins /\ h.row.from = h.doing
      BY <1>1, <2>2 DEF Sound, RightInsert
    <3>2. ASSUME h.doing # "post", ~request'[p].overtaken, NEW u \in DOMAIN users',
                 users'[u].email = h.row.email
          PROVE  u \in unchecked'
      BY <1>1, <2>2, <3>2 DEF Sound, RightInsert, Grows, Waits
    <3>3. QED
      BY <1>2, <3>1, <3>2 DEF RightInsert
  <2>3. QED
    BY <2>1, <2>2
<1>5. RightWrite(p)'
  <2>1. CASE h.at # "write"
    BY <1>2, <2>1 DEF RightWrite
  <2>2. CASE h.at = "write"
    BY <1>1, <1>2, <2>2 DEF Sound, RightWrite, Grows, Waits
  <2>3. QED
    BY <2>1, <2>2
<1>6. RightReward(p)'
  BY <1>1, <1>2 DEF Sound, RightReward, Grows
<1>7. QED
  BY <1>3, <1>4, <1>5, <1>6 DEF Sound

LEMMA StepIsSound ==
  ASSUME Inv, NEW q \in Requests, Types', Grows, RightTables',
         \A p \in Requests \ {q} : Waits(p), Sound(q)'
  PROVE  Inv'
  BY WaitingIsSound DEF Inv

LEMMA OutsideStep ==
  ASSUME Inv, Types', Grows, RightTables', \A p \in Requests : Waits(p)
  PROVE  Inv'
  BY WaitingIsSound DEF Inv

Quiet == UNCHANGED <<users, unchecked, completed, reopened, ledger>>
Others(q) == \A p \in Requests \ {q} : request'[p] = request[p]

LEMMA QuietGrows ==
  ASSUME Inv, Quiet
  PROVE  Grows /\ RightTables'
<1>1. Grows
  BY DEF Quiet, Grows, Invited, Rewarded
<1>2. RightTables'
  BY DEF Inv, RightTables, Quiet, ReferrersExist, AccountsDiffer
<1>3. QED
  BY <1>1, <1>2

LEMMA QuietStep ==
  ASSUME Inv, NEW q \in Requests, Quiet, UNCHANGED crowded, troubles' \in 0..MaxTroubles,
         codes' \in Seq({"none", "valid", "expired"}), Len(codes') = Len(codes),
         Others(q), request' \in [Requests -> Handlers], Sound(q)'
  PROVE  Inv'
<1>1. Types'
  BY DEF Inv, Types, Quiet
<1>2. \A p \in Requests \ {q} : Waits(p)
  BY DEF Others, Quiet, Waits
<1>3. QED
  BY <1>1, <1>2, QuietGrows, StepIsSound

-----------------------------------------------------------------------------
(* Moving a handler along.                                                 *)

LEMMA Becomes ==
  ASSUME Inv, NEW q \in Requests, NEW h \in Handlers, request' = [request EXCEPT ![q] = h]
  PROVE  Others(q) /\ request' \in [Requests -> Handlers] /\ request'[q] = h
  BY DEF Inv, Types, Others

LEMMA Unmoved ==
  /\ NoUser \in Person /\ NoUser.by = 0
  /\ Unused \in Handlers /\ Unused.at = "new" /\ Unused.row = NoUser
  /\ Ended \in Handlers /\ Ended.at = "done" /\ Ended.row = NoUser
<1>1. NoUser \in Person /\ NoUser.by = 0
  BY Assumed DEF NoUser, Person
<1>2. Unused \in Handlers /\ Unused.at = "new" /\ Unused.row = NoUser
  BY <1>1 DEF Unused, Local, Handlers, Points, Doings, Origins
<1>3. Ended \in Handlers /\ Ended.at = "done" /\ Ended.row = NoUser
  BY <1>2 DEF Ended, Handlers, Points
<1>4. QED
  BY <1>1, <1>2, <1>3

\* Points at which nothing but its subject is asked of a handler.
Plain == {"new", "done", "mail", "store", "login", "complete", "reopen"}

LEMMA PlainIsSound ==
  ASSUME Inv, NEW q \in Requests, request'[q].at \in Plain, RightSubject(q)'
  PROVE  Sound(q)'
  BY DEF Plain, Sound, RightInsert, RightWrite, RightReward

LEMMA EndsSound ==
  ASSUME NEW q \in Requests, request'[q] \in {Unused, Ended}
  PROVE  Sound(q)'
  BY Unmoved DEF Sound, RightSubject, RightInsert, RightWrite, RightReward, AtOrder

LEMMA FinishEnds ==
  ASSUME Inv, NEW q \in Requests, Finish(q)
  PROVE  Others(q) /\ request' \in [Requests -> Handlers] /\ request'[q] = Ended /\ Sound(q)'
<1>1. Others(q) /\ request' \in [Requests -> Handlers] /\ request'[q] = Ended
  BY Becomes, Unmoved DEF Finish
<1>2. QED
  BY <1>1, EndsSound

LEMMA GoMoves ==
  ASSUME Inv, NEW q \in Requests, NEW at \in Points, Go(q, at)
  PROVE  /\ Others(q) /\ request' \in [Requests -> Handlers]
         /\ request'[q].at = at /\ request'[q].doing = request[q].doing
         /\ request'[q].subject = request[q].subject /\ request'[q].row = request[q].row
<1> DEFINE h == [request[q] EXCEPT !.at = at]
<1>1. /\ h \in Handlers /\ h.at = at /\ h.doing = request[q].doing
      /\ h.subject = request[q].subject /\ h.row = request[q].row
  BY RowTypes DEF Handlers
<1>2. request' = [request EXCEPT ![q] = h]
  BY DEF Go
<1> HIDE DEF h
<1>3. QED
  BY <1>1, <1>2, Becomes

\* A handler begins, or goes on, at a point where only its subject matters.
LEMMA PlainEntry ==
  ASSUME Inv, NEW q \in Requests, Quiet, UNCHANGED <<crowded, codes, troubles>>,
         NEW h \in Handlers, h.at \in Plain, h.row.by = 0,
         h.at \in {"mail", "store"} => h.subject \in DOMAIN users,
         h.at \in AtOrder => h.subject \in Orders /\ Customer \in DOMAIN users,
         request' = [request EXCEPT ![q] = h]
  PROVE  Inv'
<1>1. Others(q) /\ request' \in [Requests -> Handlers] /\ request'[q] = h
  BY Becomes
<1>2. RightSubject(q)'
  BY <1>1 DEF RightSubject, Quiet, Plain
<1>3. QED
  BY <1>1, <1>2, PlainIsSound, QuietStep DEF Inv, Types

-----------------------------------------------------------------------------
(* Each action of Accounts keeps the invariant.                            *)

LEMMA InitInv ==
  ASSUME Init
  PROVE  Inv
<1>1. /\ unchecked = {} /\ completed = {} /\ reopened = {} /\ ledger = {} /\ crowded = FALSE
      /\ troubles = 0 /\ request = [q \in Requests |-> Unused]
      /\ codes = [u \in DOMAIN users |-> "none"]
  BY DEF Init, AccountsInit
<1>2. /\ users \in Seq(Person) /\ ReferrersExist /\ AccountsDiffer
      /\ codes \in Seq({"none", "valid", "expired"}) /\ Len(codes) = Len(users)
  <2>1. CASE users = <<NoUser>>
    <3>1. DOMAIN users = {1} /\ users[1] = NoUser /\ users \in Seq(Person) /\ Len(users) = 1
      BY <2>1, Unmoved
    <3>2. codes = <<"none">>
      BY <1>1, <3>1
    <3>3. QED
      BY <3>1, <3>2, Unmoved DEF ReferrersExist, AccountsDiffer
  <2>2. ASSUME NEW m \in Emails \ {FirstEmail}, NEW r \in ReferralCodes \ {FirstCode},
               users = <<NoUser, [NoUser EXCEPT !.email = m, !.code = r, !.by = 1]>>
        PROVE  /\ users \in Seq(Person) /\ ReferrersExist /\ AccountsDiffer
               /\ codes \in Seq({"none", "valid", "expired"}) /\ Len(codes) = Len(users)
    <3> DEFINE two == [NoUser EXCEPT !.email = m, !.code = r, !.by = 1]
    <3>1. /\ two \in Person /\ two.email = m /\ two.code = r /\ two.by = 1
          /\ NoUser.email = FirstEmail /\ NoUser.code = FirstCode
      BY Unmoved DEF Person, NoUser
    <3> HIDE DEF two
    <3>2. /\ DOMAIN users = {1, 2} /\ users[1] = NoUser /\ users[2] = two
          /\ users \in Seq(Person) /\ Len(users) = 2
      BY <2>2, <3>1, Unmoved DEF two
    <3>3. codes = <<"none", "none">>
      BY <1>1, <3>2
    <3>4. QED
      BY <3>1, <3>2, <3>3, Unmoved DEF ReferrersExist, AccountsDiffer
  <2>3. QED
    BY <2>1, <2>2, Zenon DEF Init, AccountsInit
<1>3. Types
  <2>1. request \in [Requests -> Handlers] /\ troubles \in 0..MaxTroubles
    BY <1>1, Unmoved, Assumed
  <2>2. QED
    BY <1>1, <1>2, <2>1 DEF Types
<1>4. RightTables
  BY <1>1, <1>2, FS_EmptySet DEF RightTables
<1>5. ASSUME NEW q \in Requests PROVE Sound(q)
  BY <1>1, Unmoved DEF Sound, RightSubject, RightInsert, RightWrite, RightReward, AtOrder
<1>6. QED
  BY <1>3, <1>4, <1>5 DEF Inv

\* register, after a look-up of the address or, for POST users, without one.
LEMMA RegisterInv ==
  ASSUME Inv, NEW q \in Requests, NEW doing \in Origins, NEW email \in Emails,
         NEW verified \in BOOLEAN, NEW named, Register(q, doing, email, verified, named),
         ~Taken(email) \/ doing = "post", UNCHANGED <<accounts, troubles, rewards>>
  PROVE  Inv'
<1>0. PICK code \in ReferralCodes : \E made \in NewUser(email, verified, code, named) :
         request' = [request EXCEPT ![q] =
                        Local("insert", doing, 0, [made EXCEPT !.password = q, !.from = doing])]
  BY DEF Register, Start
<1>1. PICK made \in NewUser(email, verified, code, named) :
         request' = [request EXCEPT ![q] =
                        Local("insert", doing, 0, [made EXCEPT !.password = q, !.from = doing])]
  BY <1>0
<1>2. PICK by \in DOMAIN users \cup {0} :
         made = [email |-> email, verified |-> verified, active |-> TRUE, password |-> 0,
                 code |-> code, by |-> by, from |-> "earlier"]
  BY <1>1 DEF NewUser
<1> DEFINE row == [made EXCEPT !.password = q, !.from = doing]
<1>3. made \in Person /\ made.by = by /\ made.email = email
  BY <1>2, RowTypes DEF Person
<1>4. /\ row \in Person /\ row.email = email /\ row.from = doing /\ row.by = by
      /\ request' = [request EXCEPT ![q] = Local("insert", doing, 0, row)]
  BY <1>1, <1>3 DEF Person
<1> HIDE DEF row
<1>5. doing \in Doings
  BY DEF Doings
<1>6. /\ Others(q) /\ request' \in [Requests -> Handlers]
      /\ request'[q].at = "insert" /\ request'[q].doing = doing
      /\ request'[q].row = row
  <2> DEFINE h == Local("insert", doing, 0, row)
  <2>1. /\ h \in Handlers /\ h.at = "insert" /\ h.doing = doing /\ h.row = row
        /\ request' = [request EXCEPT ![q] = h]
    BY <1>4, <1>5 DEF Local, Handlers, Points
  <2> HIDE DEF h
  <2>2. QED
    BY <2>1, Becomes
<1>7. Quiet /\ UNCHANGED <<crowded, codes, troubles>>
  BY DEF accounts, rewards, Quiet
<1>8. doing # "post" => \A u \in DOMAIN users : users[u].email # email
  BY DEF Taken, With
<1>9. Sound(q)'
  BY <1>4, <1>6, <1>7, <1>8
     DEF Quiet, Sound, RightSubject, RightInsert, RightWrite, RightReward, AtOrder
<1>10. QED
  BY <1>6, <1>7, <1>9, QuietStep DEF Inv, Types

\* An update begins with the row as it is, but for what it is to change.
LEMMA UpdateInv ==
  ASSUME Inv, NEW q \in Requests, NEW u \in DOMAIN users,
         NEW doing \in {"verify", "password", "update", "status"}, NEW row \in Person,
         request' = [request EXCEPT ![q] = Local("write", doing, u, row)],
         UNCHANGED <<accounts, troubles, rewards>>,
         row.by = users[u].by,
         doing = "password" => row.password = q,
         row.email # users[u].email => doing = "update",
         row.active # users[u].active => doing = "status",
         row.verified # users[u].verified => doing = "verify" /\ row.verified
  PROVE  Inv'
<1>1. u \in Nat \cup Orders /\ doing \in Doings
  BY RowTypes DEF Doings
<1>2. /\ Others(q) /\ request' \in [Requests -> Handlers]
      /\ request'[q].at = "write" /\ request'[q].doing = doing
      /\ request'[q].subject = u /\ request'[q].row = row
  <2> DEFINE h == Local("write", doing, u, row)
  <2>1. /\ h \in Handlers /\ h.at = "write" /\ h.doing = doing /\ h.subject = u /\ h.row = row
        /\ request' = [request EXCEPT ![q] = h]
    BY <1>1 DEF Local, Handlers, Points
  <2> HIDE DEF h
  <2>2. QED
    BY <2>1, Becomes
<1>3. Quiet /\ UNCHANGED <<crowded, codes, troubles>>
  BY DEF accounts, rewards, Quiet
<1>4. row.by \in DOMAIN users \cup {0}
  BY DEF Inv, RightTables, ReferrersExist
<1>5. Sound(q)'
  BY <1>2, <1>3, <1>4
     DEF Quiet, Sound, RightSubject, RightInsert, RightWrite, RightReward, AtOrder
<1>6. QED
  BY <1>2, <1>3, <1>5, QuietStep DEF Inv, Types

LEMMA VerifyUpdates ==
  ASSUME Inv, NEW q \in Requests, NEW u \in DOMAIN users,
         request' = [request EXCEPT ![q] =
                       Local("write", "verify", u, [users[u] EXCEPT !.verified = TRUE])],
         UNCHANGED <<accounts, troubles, rewards>>
  PROVE  Inv'
<1> DEFINE row == [users[u] EXCEPT !.verified = TRUE]
<1>1. /\ row \in Person /\ row.email = users[u].email /\ row.active = users[u].active
      /\ row.verified = TRUE /\ row.by = users[u].by
  BY RowTypes DEF Person
<1>2. request' = [request EXCEPT ![q] = Local("write", "verify", u, row)]
  OBVIOUS
<1> HIDE DEF row
<1>3. QED
  BY <1>1, <1>2, UpdateInv

LEMMA UpdatesInv ==
  ASSUME Inv, NEW q \in Requests, NEW u \in DOMAIN users, UNCHANGED rewards,
         \/ VerifyUser(q, u) \/ ResetPassword(q, u) \/ ChangePassword(q, u)
         \/ ChangeAccountStatus(q, u) \/ \E m \in Emails : UpdateUser(q, u, m)
  PROVE  Inv'
<1>0. UNCHANGED <<accounts, troubles, rewards>> /\ users[u] \in Person
  BY RowTypes
     DEF VerifyUser, ResetPassword, ChangePassword, ChangeAccountStatus, UpdateUser
<1>1. CASE VerifyUser(q, u)
  BY <1>0, <1>1, VerifyUpdates DEF VerifyUser, Update, Start
<1>2. CASE ResetPassword(q, u) \/ ChangePassword(q, u)
  <2> DEFINE row == [users[u] EXCEPT !.password = q]
  <2>1. /\ row \in Person /\ row.email = users[u].email /\ row.active = users[u].active
        /\ row.verified = users[u].verified /\ row.by = users[u].by /\ row.password = q
    BY <1>0 DEF Person
  <2>2. request' = [request EXCEPT ![q] = Local("write", "password", u, row)]
    BY <1>2 DEF ResetPassword, ChangePassword, Update, Start
  <2> HIDE DEF row
  <2>3. QED
    BY <1>0, <2>1, <2>2, UpdateInv
<1>3. CASE ChangeAccountStatus(q, u)
  <2> DEFINE row == [users[u] EXCEPT !.active = ~users[u].active]
  <2>1. /\ row \in Person /\ row.email = users[u].email
        /\ row.verified = users[u].verified /\ row.by = users[u].by
    BY <1>0 DEF Person
  <2>2. request' = [request EXCEPT ![q] = Local("write", "status", u, row)]
    BY <1>3 DEF ChangeAccountStatus, Update, Start
  <2> HIDE DEF row
  <2>3. QED
    BY <1>0, <2>1, <2>2, UpdateInv
<1>4. ASSUME NEW m \in Emails, UpdateUser(q, u, m) PROVE Inv'
  <2> DEFINE row == [users[u] EXCEPT !.email = m]
  <2>1. /\ row \in Person /\ row.active = users[u].active
        /\ row.verified = users[u].verified /\ row.by = users[u].by
    BY <1>0 DEF Person
  <2>2. request' = [request EXCEPT ![q] = Local("write", "update", u, row)]
    BY <1>4 DEF UpdateUser, Update, Start
  <2> HIDE DEF row
  <2>3. QED
    BY <1>0, <2>1, <2>2, UpdateInv
<1>5. QED
  BY <1>1, <1>2, <1>3, <1>4

LEMMA SendCodeInv ==
  ASSUME Inv, NEW q \in Requests, NEW doing \in Doings, NEW email,
         SendCode(q, doing, email), UNCHANGED rewards
  PROVE  Inv'
<1>1. PICK u \in DOMAIN users : request' = [request EXCEPT ![q] = Local("mail", doing, u, NoUser)]
  BY DEF SendCode, With, Start
<1>2. Quiet /\ UNCHANGED <<crowded, codes, troubles>>
  BY DEF SendCode, accounts, rewards, Quiet
<1> DEFINE h == Local("mail", doing, u, NoUser)
<1>3. /\ h \in Handlers /\ h.at = "mail" /\ h.subject = u /\ h.row = NoUser
      /\ request' = [request EXCEPT ![q] = h]
  BY <1>1, Unmoved, RowTypes DEF Local, Handlers, Points
<1> HIDE DEF h
<1>4. QED
  BY <1>2, <1>3, Unmoved, PlainEntry DEF Plain, AtOrder

LEMMA LoginGoogleInv ==
  ASSUME Inv, NEW q \in Requests, NEW email \in Emails, LoginGoogle(q, email), UNCHANGED rewards
  PROVE  Inv'
<1>1. UNCHANGED <<accounts, troubles, rewards>> /\ Quiet /\ UNCHANGED <<crowded, codes, troubles>>
  BY DEF LoginGoogle, accounts, rewards, Quiet
<1>2. CASE ~Taken(email) /\ Register(q, "google", email, TRUE, Nobody)
  BY <1>1, <1>2, RegisterInv DEF Origins
<1>3. ASSUME NEW u \in DOMAIN users,
             request' = [request EXCEPT ![q] = Local("login", "google", u, Known(email))]
      PROVE  Inv'
  <2> DEFINE h == Local("login", "google", u, Known(email))
  <2>1. Known(email) \in Person /\ Known(email).by = 0
    BY Unmoved DEF Known, Person
  <2>2. /\ h \in Handlers /\ h.at = "login" /\ h.row = Known(email)
        /\ request' = [request EXCEPT ![q] = h]
    BY <1>3, <2>1, RowTypes DEF Local, Handlers, Points, Doings, Origins
  <2> HIDE DEF h
  <2>3. QED
    BY <1>1, <2>1, <2>2, PlainEntry DEF Plain, AtOrder
<1>4. QED
  BY <1>2, <1>3 DEF LoginGoogle, With, Start

LEMMA LoginAppleInv ==
  ASSUME Inv, NEW q \in Requests, NEW email \in Emails, LoginApple(q, email), UNCHANGED rewards
  PROVE  Inv'
<1>1. UNCHANGED <<accounts, troubles, rewards>>
  BY DEF LoginApple
<1>2. CASE ~Taken(email) /\ Register(q, "apple", email, TRUE, Nobody)
  BY <1>1, <1>2, RegisterInv DEF Origins
<1>3. ASSUME NEW u \in DOMAIN users,
             Update(q, "verify", u, [users[u] EXCEPT !.verified = TRUE])
      PROVE  Inv'
  BY <1>1, <1>3, VerifyUpdates DEF Update, Start
<1>4. QED
  BY <1>2, <1>3 DEF LoginApple, With

LEMMA LoginInv ==
  ASSUME Inv, NEW q \in Requests, Login(q), UNCHANGED rewards
  PROVE  Inv'
<1>1. UNCHANGED <<accounts, troubles, rewards>> /\ Quiet /\ UNCHANGED <<crowded, codes, troubles>>
  BY DEF Login, accounts, rewards, Quiet
<1>2. CASE Finish(q)
  BY <1>1, <1>2, FinishEnds, QuietStep DEF Inv, Types
<1>3. ASSUME NEW u \in DOMAIN users,
             request' = [request EXCEPT ![q] =
                Local("write", "verify", u, [users[u] EXCEPT !.verified = TRUE])]
      PROVE  Inv'
  BY <1>1, <1>3, VerifyUpdates
<1>4. QED
  BY <1>2, <1>3 DEF Login, With

\* Mail, whose message goes out before the code is stored.
LEMMA MailInv ==
  ASSUME Inv, NEW q \in Requests, Mail(q), UNCHANGED rewards
  PROVE  Inv'
<1>1. request[q].at = "mail" /\ Quiet /\ UNCHANGED <<crowded, codes, troubles>> /\ Sound(q)
  BY DEF Mail, accounts, rewards, Quiet, Inv
<1>2. /\ Others(q) /\ request' \in [Requests -> Handlers]
      /\ request'[q].at = "store" /\ request'[q].subject = request[q].subject
      /\ request'[q].row = request[q].row
  BY GoMoves DEF Mail, Points
<1>3. Sound(q)'
  BY <1>1, <1>2
     DEF Sound, RightSubject, RightInsert, RightWrite, RightReward, AtOrder, Quiet
<1>4. QED
  BY <1>1, <1>2, <1>3, QuietStep DEF Inv, Types

LEMMA StoreInv ==
  ASSUME Inv, NEW q \in Requests, Store(q), UNCHANGED rewards
  PROVE  Inv'
<1>1. /\ codes' = [codes EXCEPT ![request[q].subject] = "valid"] /\ Finish(q)
      /\ Quiet /\ UNCHANGED <<crowded, troubles>>
  BY DEF Store, rewards, Quiet
<1>2. codes' \in Seq({"none", "valid", "expired"}) /\ Len(codes') = Len(codes)
  <2>1. PICK u \in DOMAIN codes : u = request[q].subject
    BY RowTypes DEF Store, Sound, RightSubject
  <2>2. codes' = [codes EXCEPT ![u] = "valid"]
    BY <1>1, <2>1
  <2>3. QED
    BY <2>2 DEF Inv, Types
<1>3. QED
  BY <1>1, <1>2, FinishEnds, QuietStep DEF Inv, Types

LEMMA ExpireInv ==
  ASSUME Inv, NEW u \in DOMAIN users, Expire(u), UNCHANGED rewards
  PROVE  Inv'
<1>1. codes' \in Seq({"none", "valid", "expired"}) /\ Len(codes') = Len(codes)
  BY DEF Expire, Inv, Types
<1>2. Quiet /\ UNCHANGED <<request, crowded, troubles>>
  BY DEF Expire, rewards, Quiet
<1>3. Types' /\ \A p \in Requests : Waits(p)
  BY <1>1, <1>2 DEF Inv, Types, Quiet, Waits
<1>4. QED
  BY <1>2, <1>3, QuietGrows, OutsideStep

LEMMA TroubleInv ==
  ASSUME Inv, Restart \/ (\E q \in Requests : Fault(q)), UNCHANGED rewards
  PROVE  Inv'
<1>1. Quiet /\ UNCHANGED <<crowded, codes>> /\ troubles' \in 0..MaxTroubles
  BY Assumed DEF Restart, Fault, accounts, rewards, Quiet, Inv, Types
<1>2. ASSUME NEW q \in Requests, Fault(q) PROVE Inv'
  BY <1>1, <1>2, FinishEnds, QuietStep DEF Fault, Inv, Types
<1>3. CASE Restart
  <2>1. /\ request' \in [Requests -> Handlers]
        /\ \A q \in Requests : request'[q] = Ended \/ request'[q] = request[q]
    BY <1>3, Unmoved DEF Restart, Inv, Types
  <2>2. Types'
    BY <1>1, <2>1 DEF Inv, Types, Quiet
  <2>3. Grows /\ RightTables'
    BY <1>1, QuietGrows
  <2>4. ASSUME NEW q \in Requests PROVE Sound(q)'
    <3>1. CASE request'[q] = Ended
      BY <3>1, EndsSound
    <3>2. CASE request'[q] = request[q]
      <4>1. Waits(q)
        BY <1>1, <3>2 DEF Waits, Quiet
      <4>2. QED
        BY <2>3, <4>1, WaitingIsSound
    <3>3. QED
      BY <2>1, <3>1, <3>2
  <2>5. QED
    BY <2>2, <2>3, <2>4 DEF Inv
<1>4. QED
  BY <1>2, <1>3

\* A registration overtakes those of the same address; none needs the code again.
LEMMA InsertInv ==
  ASSUME Inv, NEW q \in Requests, Insert(q), UNCHANGED rewards
  PROVE  Inv'
<1> DEFINE row == request[q].row
           id == Len(users) + 1
           ahead == [p \in Requests |->
             IF request[p].at = "insert" /\ request[p].row.email = row.email
               THEN [request[p] EXCEPT !.overtaken = TRUE] ELSE request[p]]
<1>1. /\ request[q].at = "insert" /\ Sound(q) /\ row \in Person
      /\ UNCHANGED <<troubles, crowded, completed, reopened, ledger>>
  BY RowTypes DEF Insert, rewards, Handlers
<1>2. CASE Finish(q) /\ UNCHANGED accounts
  <2>1. Quiet /\ UNCHANGED <<crowded, codes, troubles>>
    BY <1>1, <1>2 DEF Quiet, accounts
  <2>2. QED
    BY <1>2, <2>1, FinishEnds, QuietStep DEF Inv, Types
<1>3. ASSUME CodeIsFree(row.code), users' = Append(users, row), codes' = Append(codes, "none"),
             NEW h \in {Ended, Local("mail", request[q].doing, id, Known(row.email)),
                        Local("login", request[q].doing, id, Known(row.email))},
             request' = [ahead EXCEPT ![q] = h],
             unchecked' = IF request[q].doing = "post" \/ request[q].overtaken
                            THEN unchecked \cup {id} ELSE unchecked
      PROVE  Inv'
  <2>1. /\ DOMAIN users = 1..Len(users) /\ Len(users) \in Nat /\ users \in Seq(Person)
        /\ \A u \in DOMAIN users : users[u] \in Person
    BY RowTypes DEF Inv, Types
  <2>2. /\ users' \in Seq(Person) /\ DOMAIN users' = 1..id /\ users'[id] = row
        /\ \A u \in DOMAIN users : u # id /\ u \in DOMAIN users' /\ users'[u] = users[u]
        /\ \A u \in DOMAIN users' : u = id \/ u \in DOMAIN users
        /\ Len(users') = id
    BY <1>1, <1>3, <2>1
  <2>3. codes' \in Seq({"none", "valid", "expired"}) /\ Len(codes') = id
    BY <1>3, <2>1 DEF Inv, Types
  <2>4. unchecked \subseteq unchecked' /\ unchecked' \subseteq DOMAIN users'
    BY <1>3, <2>2 DEF Inv, Types
  <2>5. Known(row.email) \in Person /\ Known(row.email).by = 0
    BY <1>1, Unmoved DEF Known, Person
  <2>6. /\ h \in Handlers /\ h.at \in {"done", "mail", "login"} /\ h.row.by = 0
        /\ h.at = "mail" => h.subject = id
    <3>1. CASE h = Ended
      BY <3>1, Unmoved
    <3>2. ASSUME NEW to \in {"mail", "login"},
                 h = Local(to, request[q].doing, id, Known(row.email))
          PROVE  h \in Handlers /\ h.at = to /\ h.row.by = 0 /\ h.subject = id
      <4>1. request[q].doing \in Doings /\ id \in Nat \cup Orders /\ to \in Points
        BY <2>1, RowTypes DEF Handlers, Points
      <4>2. h = [at |-> to, doing |-> request[q].doing, subject |-> id,
                 row |-> Known(row.email), overtaken |-> FALSE]
        BY <3>2 DEF Local
      <4> HIDE DEF id, row
      <4>3. QED
        BY <2>5, <4>1, <4>2 DEF Handlers
    <3>3. QED
      BY <1>3, <3>1, <3>2
  <2> HIDE DEF row
  <2>7. ahead \in [Requests -> Handlers]
    <3>1. ASSUME NEW p \in Requests PROVE [request[p] EXCEPT !.overtaken = TRUE] \in Handlers
      BY RowTypes DEF Handlers
    <3>2. QED
      BY <3>1, RowTypes
  <2>8. /\ request' \in [Requests -> Handlers] /\ request'[q] = h
        /\ \A p \in Requests \ {q} : request'[p] = ahead[p]
    <3> HIDE DEF ahead
    <3>1. QED
      BY <1>3, <2>6, <2>7
  <2>9. Types'
    BY <1>1, <2>2, <2>3, <2>4, <2>8 DEF Inv, Types
  <2>10. Grows
    BY <1>1, <2>2, <2>4 DEF Grows, Invited, Rewarded
  <2>11. RightTables'
    <3>1. ReferrersExist'
      BY <1>1, <2>1, <2>2 DEF Sound, RightSubject, Inv, RightTables, ReferrersExist, row
    <3>2. ASSUME NEW u \in DOMAIN users
          PROVE  /\ users[u].email = row.email => {u, id} \cap unchecked' # {}
                 /\ users[u].code # row.code
      <4>1. users[u].code # row.code
        BY <1>3 DEF CodeIsFree, Used
      <4>2. CASE request[q].doing = "post" \/ request[q].overtaken
        BY <1>3, <4>1, <4>2
      <4>3. CASE request[q].doing # "post" /\ ~request[q].overtaken
        BY <1>1, <2>4, <4>1, <4>3 DEF Sound, RightInsert, row
      <4>4. QED
        BY <4>2, <4>3
    <3>3. ASSUME NEW u \in DOMAIN users', NEW v \in DOMAIN users', u # v
          PROVE  /\ users'[u].email = users'[v].email => {u, v} \cap unchecked' # {}
                 /\ users'[u].code # users'[v].code
      <4>1. CASE u \in DOMAIN users /\ v \in DOMAIN users
        BY <2>2, <2>4, <3>3, <4>1 DEF Inv, RightTables, AccountsDiffer
      <4>2. CASE u \in DOMAIN users /\ v = id
        BY <2>2, <3>2, <4>2
      <4>3. CASE v \in DOMAIN users /\ u = id
        BY <2>2, <3>2, <4>3
      <4>4. QED
        BY <2>2, <3>3, <4>1, <4>2, <4>3
    <3>4. AccountsDiffer'
      BY <3>3 DEF AccountsDiffer
    <3>5. QED
      BY <1>1, <2>2, <3>1, <3>4 DEF Inv, RightTables
  <2>12. ASSUME NEW p \in Requests \ {q} PROVE Waits(p)
    <3>1. request[p] \in Handlers /\ Sound(p)
      BY RowTypes
    <3>2. CASE request[p].at = "insert" /\ request[p].row.email = row.email
      BY <2>8, <3>1, <3>2 DEF Waits, Handlers
    <3>3. CASE ~(request[p].at = "insert" /\ request[p].row.email = row.email)
      <4>1. request'[p] = request[p]
        BY <2>8, <3>3
      <4>2. request[p].at = "write" => users'[request[p].subject] = users[request[p].subject]
        BY <2>2, <3>1 DEF Sound, RightSubject
      <4>3. \A u \in DOMAIN users' :
               (request[p].at = "insert" /\ users'[u].email = request[p].row.email) =>
                  u \in DOMAIN users /\ users[u].email = request[p].row.email
        BY <2>2, <3>3
      <4>4. QED
        BY <4>1, <4>2, <4>3 DEF Waits
    <3>4. QED
      BY <3>2, <3>3
  <2>13. RightSubject(q)'
    BY <2>2, <2>6, <2>8 DEF RightSubject, AtOrder
  <2>14. Sound(q)'
    BY <2>6, <2>8, <2>13, PlainIsSound DEF Plain
  <2>15. QED
    BY <2>9, <2>10, <2>11, <2>12, <2>14, StepIsSound
<1>4. QED
  BY <1>2, <1>3 DEF Insert

\* What an update makes of a row.
LEMMA WriteEffect ==
  ASSUME Inv, NEW q \in Requests, Write(q)
  PROVE  \E u \in DOMAIN users, new \in Person :
           /\ u = request[q].subject
           /\ users' = [users EXCEPT ![u] = new]
           /\ new.by = users[u].by /\ new.code = users[u].code /\ new.from = users[u].from
           /\ new.email = request[q].row.email /\ new.active = request[q].row.active
           /\ new.verified = request[q].row.verified
           /\ new.password = IF request[q].doing = "password" THEN q ELSE users[u].password
<1>1. /\ request[q].at = "write" /\ Sound(q) /\ request[q].row \in Person
  BY RowTypes DEF Write, Handlers
<1>2. PICK u \in DOMAIN users : u = request[q].subject
  BY <1>1 DEF Sound, RightSubject
<1>3. PICK old \in Person : old = users[u]
  BY RowTypes
<1> DEFINE new == Written(old, request[q].row, request[q].doing)
<1>4. users' = [users EXCEPT ![u] = new]
  BY <1>2, <1>3 DEF Write
<1>5. /\ new \in Person
      /\ new.by = old.by /\ new.code = old.code /\ new.from = old.from
      /\ new.email = request[q].row.email /\ new.active = request[q].row.active
      /\ new.verified = request[q].row.verified
      /\ new.password = IF request[q].doing = "password" THEN q ELSE old.password
  <2>1. CASE request[q].doing = "password"
    BY <1>1, <2>1 DEF Written, Person, Sound, RightWrite
  <2>2. CASE request[q].doing # "password"
    BY <1>1, <2>2 DEF Written, Person
  <2>3. QED
    BY <2>1, <2>2
<1> HIDE DEF new
<1>6. QED
  BY <1>2, <1>3, <1>4, <1>5

LEMMA WriteInv ==
  ASSUME Inv, NEW q \in Requests, Write(q), UNCHANGED rewards
  PROVE  Inv'
<1>1. PICK u \in DOMAIN users, new \in Person :
         /\ u = request[q].subject
         /\ users' = [users EXCEPT ![u] = new]
         /\ new.by = users[u].by /\ new.code = users[u].code
         /\ new.email = request[q].row.email
  BY WriteEffect
<1> DEFINE ahead == [p \in Requests |->
             IF request[p].at = "write" /\ request[p].subject = u
               THEN [request[p] EXCEPT !.overtaken = TRUE] ELSE request[p]]
<1>2. /\ request[q].at = "write" /\ Sound(q)
      /\ request' = [ahead EXCEPT ![q] = Ended]
      /\ unchecked' = IF request[q].doing = "update" THEN unchecked \cup {u} ELSE unchecked
      /\ UNCHANGED <<codes, troubles, crowded, completed, reopened, ledger>>
  BY <1>1, RowTypes DEF Write, rewards
<1>3. /\ users' \in Seq(Person) /\ DOMAIN users' = DOMAIN users /\ Len(users') = Len(users)
      /\ users'[u] = new /\ \A v \in DOMAIN users \ {u} : users'[v] = users[v]
  BY <1>1 DEF Inv, Types
<1>4. unchecked \subseteq unchecked' /\ unchecked' \subseteq DOMAIN users
  BY <1>2 DEF Inv, Types
<1>5. new.email = users[u].email \/ u \in unchecked'
  BY <1>1, <1>2 DEF Sound, RightWrite
<1>6. ahead \in [Requests -> Handlers]
  <2>1. ASSUME NEW p \in Requests PROVE [request[p] EXCEPT !.overtaken = TRUE] \in Handlers
    BY RowTypes DEF Handlers
  <2>2. QED
    BY <2>1, RowTypes
<1>7. /\ request' \in [Requests -> Handlers] /\ request'[q] = Ended
      /\ \A p \in Requests \ {q} : request'[p] = ahead[p]
  <2> HIDE DEF ahead
  <2>1. QED
    BY <1>2, <1>6, Unmoved
<1>8. Types'
  BY <1>2, <1>3, <1>4, <1>7 DEF Inv, Types
<1>9. Grows
  BY <1>2, <1>3, <1>4 DEF Grows, Invited, Rewarded
<1>10. RightTables'
  <2>1. ReferrersExist'
    BY <1>1, <1>3 DEF Inv, RightTables, ReferrersExist
  <2>2. ASSUME NEW v \in DOMAIN users, NEW w \in DOMAIN users, v # w
        PROVE  /\ users'[v].email = users'[w].email => {v, w} \cap unchecked' # {}
               /\ users'[v].code # users'[w].code
    <3>1. \A x \in DOMAIN users :
             /\ users'[x].code = users[x].code
             /\ users'[x].email = users[x].email \/ x \in unchecked'
      BY <1>1, <1>3, <1>5
    <3>2. /\ users[v].email = users[w].email => {v, w} \cap unchecked # {}
          /\ users[v].code # users[w].code
      BY <2>2 DEF Inv, RightTables, AccountsDiffer
    <3>3. QED
      BY <1>4, <3>1, <3>2
  <2>3. AccountsDiffer'
    BY <1>3, <2>2 DEF AccountsDiffer
  <2>4. QED
    BY <1>2, <1>3, <2>1, <2>3 DEF Inv, RightTables
<1>11. ASSUME NEW p \in Requests \ {q} PROVE Waits(p)
  <2>1. request[p] \in Handlers /\ Sound(p)
    BY RowTypes
  <2>2. \A v \in DOMAIN users : users'[v].email = users[v].email \/ v \in unchecked'
    BY <1>3, <1>5
  <2>3. CASE request[p].at = "write" /\ request[p].subject = u
    <3>1. request'[p] = [request[p] EXCEPT !.overtaken = TRUE]
      BY <1>7, <2>3
    <3>2. QED
      BY <2>1, <2>2, <2>3, <3>1 DEF Waits, Handlers
  <2>4. CASE ~(request[p].at = "write" /\ request[p].subject = u)
    <3>1. request'[p] = request[p]
      BY <1>7, <2>4
    <3>2. request[p].at = "write" => users'[request[p].subject] = users[request[p].subject]
      BY <1>3, <2>1, <2>4 DEF Sound, RightSubject
    <3>3. QED
      BY <1>3, <2>2, <3>1, <3>2 DEF Waits
  <2>5. QED
    BY <2>3, <2>4
<1>12. Sound(q)'
  BY <1>7, EndsSound
<1>13. QED
  BY <1>8, <1>9, <1>10, <1>11, <1>12, StepIsSound

-----------------------------------------------------------------------------
(* Each action of Referrals keeps the invariant.                           *)

\* A handler begins with an order of the customer.
LEMMA BeginOrderInv ==
  ASSUME Inv, NEW q \in Requests, NEW o \in Orders, Customer \in DOMAIN users,
         ProcessOrder(q, o) \/ ProcessTopup(q, o) \/ Reopen(q, o)
  PROVE  Inv'
<1>1. Quiet /\ UNCHANGED <<crowded, codes, troubles>>
  BY DEF ProcessOrder, ProcessTopup, Reopen, accounts, rewards, Quiet
<1>2. \E at \in {"complete", "reopen"}, doing \in Doings :
         request' = [request EXCEPT ![q] = Local(at, doing, o, NoUser)]
  BY DEF ProcessOrder, ProcessTopup, Reopen, Start, Doings
<1>3. PICK at \in {"complete", "reopen"}, doing \in Doings :
         request' = [request EXCEPT ![q] = Local(at, doing, o, NoUser)]
  BY <1>2
<1> DEFINE h == Local(at, doing, o, NoUser)
<1>4. /\ h \in Handlers /\ h.at = at /\ h.subject = o /\ h.row = NoUser
      /\ request' = [request EXCEPT ![q] = h]
  BY <1>3, Unmoved DEF Local, Handlers, Points
<1> HIDE DEF h
<1>5. h.at \in Plain /\ h.row.by = 0 /\ h.at \notin {"mail", "store"}
  BY <1>3, <1>4, Unmoved DEF Plain
<1>6. QED
  BY <1>1, <1>4, <1>5, PlainEntry

\* The steps that leave the users and their verification as they are.
SameUsers == UNCHANGED <<users, codes, unchecked, troubles>>

\* A handler that did not move still has what it knew, if the tables of the users
\* did not change and no order stopped being complete.
LEMMA OrderStep ==
  ASSUME Inv, NEW q \in Requests, SameUsers, Others(q), request' \in [Requests -> Handlers],
         Sound(q)', completed' \subseteq Orders, reopened' \subseteq Orders,
         IsFiniteSet(completed'),
         completed' # {} => Customer \in DOMAIN users, crowded' \in BOOLEAN,
         reopened \subseteq reopened', reopened' = {} => completed \subseteq completed',
         ledger \subseteq ledger'
  PROVE  Inv'
<1>1. Types'
  BY DEF Inv, Types, SameUsers
<1>2. Grows
  BY DEF Grows, SameUsers, Invited, Rewarded
<1>3. RightTables'
  BY DEF Inv, RightTables, SameUsers, ReferrersExist, AccountsDiffer
<1>4. \A p \in Requests \ {q} : Waits(p)
  BY DEF Others, SameUsers, Waits
<1>5. QED
  BY <1>1, <1>2, <1>3, <1>4, StepIsSound

LEMMA CompleteInv ==
  ASSUME Inv, NEW q \in Requests, Complete(q)
  PROVE  Inv'
<1> DEFINE o == request[q].subject
<1>1. /\ request[q].at = "complete" /\ o \in Orders /\ Customer \in DOMAIN users /\ Sound(q)
      /\ completed' = completed \cup {o} /\ SameUsers /\ UNCHANGED <<ledger, reopened>>
      /\ completed \subseteq Orders /\ reopened \subseteq Orders /\ crowded \in BOOLEAN
  BY RowTypes DEF Complete, Sound, RightSubject, AtOrder, accounts, SameUsers, Inv, Types
<1>2. crowded' \in BOOLEAN
  BY <1>1 DEF Complete
<1>3. IsFiniteSet(completed')
  BY <1>1, FS_AddElement DEF Inv, RightTables
<1>4. Others(q) /\ request' \in [Requests -> Handlers] /\ Sound(q)'
  <2>1. CASE Go(q, "count")
    <3>1. /\ Others(q) /\ request' \in [Requests -> Handlers]
          /\ request'[q].at = "count" /\ request'[q].subject = o
          /\ request'[q].row = request[q].row
      BY <2>1, GoMoves DEF Points
    <3>2. Sound(q)'
      BY <1>1, <3>1
         DEF Sound, RightSubject, RightInsert, RightWrite, RightReward, AtOrder, SameUsers
    <3>3. QED
      BY <3>1, <3>2
  <2>2. CASE Finish(q)
    BY <2>2, FinishEnds
  <2>3. QED
    BY <2>1, <2>2 DEF Complete
<1>5. QED
  BY <1>1, <1>2, <1>3, <1>4, OrderStep

LEMMA SaveInv ==
  ASSUME Inv, NEW q \in Requests, SaveOldStatus(q)
  PROVE  Inv'
<1> DEFINE o == request[q].subject
<1>1. /\ o \in Orders /\ Finish(q) /\ SameUsers /\ UNCHANGED <<ledger, crowded>>
      /\ completed' = completed \ {o} /\ reopened' = reopened \cup {o}
      /\ completed \subseteq Orders /\ reopened \subseteq Orders /\ crowded \in BOOLEAN
      /\ completed # {} => Customer \in DOMAIN users
  BY RowTypes DEF SaveOldStatus, Sound, RightSubject, AtOrder, accounts, SameUsers, Inv, Types,
                  RightTables
<1>2. IsFiniteSet(completed')
  BY <1>1, FS_RemoveElement DEF Inv, RightTables
<1>3. QED
  BY <1>1, <1>2, FinishEnds, OrderStep

LEMMA CountInv ==
  ASSUME Inv, NEW q \in Requests, Count(q)
  PROVE  Inv'
<1>1. /\ request[q].at = "count" /\ Sound(q) /\ Quiet /\ UNCHANGED <<crowded, codes, troubles>>
  BY RowTypes DEF Count, accounts, rewards, Quiet
<1>2. CASE Go(q, "payInvited")
  <2>1. /\ Others(q) /\ request' \in [Requests -> Handlers]
        /\ request'[q].at = "payInvited" /\ request'[q].subject = request[q].subject
        /\ request'[q].row = request[q].row
    BY <1>2, GoMoves DEF Points
  <2>2. Sound(q)'
    BY <1>1, <2>1 DEF Sound, RightSubject, RightInsert, RightWrite, RightReward, AtOrder, Quiet
  <2>3. QED
    BY <1>1, <2>1, <2>2, QuietStep DEF Inv, Types
<1>3. CASE Finish(q)
  BY <1>1, <1>3, FinishEnds, QuietStep DEF Inv, Types
<1>4. QED
  BY <1>2, <1>3 DEF Count

LEMMA PayInvitedInv ==
  ASSUME Inv, NEW q \in Requests, PayInvited(q)
  PROVE  Inv'
<1> DEFINE e == [role |-> "invited", user |-> Customer, order |-> request[q].subject]
<1>1. /\ request[q].at = "payInvited" /\ Sound(q) /\ SameUsers
      /\ UNCHANGED <<completed, crowded, reopened>> /\ ledger' = ledger \cup {e}
      /\ completed \subseteq Orders /\ reopened \subseteq Orders /\ crowded \in BOOLEAN
      /\ completed # {} => Customer \in DOMAIN users
      /\ IsFiniteSet(completed)
  BY RowTypes DEF PayInvited, Credited, accounts, SameUsers, Inv, Types, RightTables
<1>2. /\ Others(q) /\ request' \in [Requests -> Handlers]
      /\ request'[q].at = "payInviter" /\ request'[q].subject = request[q].subject
      /\ request'[q].row = request[q].row
  BY GoMoves DEF PayInvited, Points
<1>3. request[q].subject \in Invited'
  <2>1. e \in ledger' /\ e.role = "invited" /\ e.order = request[q].subject
    BY <1>1
  <2> HIDE DEF e
  <2>2. QED
    BY <2>1 DEF Invited, Rewarded
<1>4. Sound(q)'
  BY <1>1, <1>2, <1>3
     DEF Sound, RightSubject, RightInsert, RightWrite, RightReward, AtOrder, SameUsers
<1>5. QED
  BY <1>1, <1>2, <1>4, OrderStep

LEMMA PayInviterInv ==
  ASSUME Inv, NEW q \in Requests, PayInviter(q)
  PROVE  Inv'
<1>1. /\ SameUsers /\ Finish(q)
      /\ UNCHANGED <<completed, crowded, reopened>> /\ ledger \subseteq ledger'
      /\ completed \subseteq Orders /\ reopened \subseteq Orders /\ crowded \in BOOLEAN
      /\ completed # {} => Customer \in DOMAIN users
      /\ IsFiniteSet(completed)
  BY DEF PayInviter, Credited, accounts, SameUsers, Inv, Types, RightTables
<1>2. QED
  BY <1>1, FinishEnds, OrderStep

-----------------------------------------------------------------------------
(* Together.                                                               *)

LEMMA AccountsNextInv ==
  ASSUME Inv, AccountsNext, UNCHANGED rewards
  PROVE  Inv'
<1>1. ASSUME NEW q \in Requests, NEW m \in Emails, NEW v \in BOOLEAN, NEW r,
             SignUp(q, m, v, r) \/ PostUser(q, m, v, r)
      PROVE  Inv'
  <2>1. CASE SignUp(q, m, v, r)
    BY <2>1, RegisterInv DEF SignUp, Origins
  <2>2. CASE PostUser(q, m, v, r)
    BY <2>2, RegisterInv DEF PostUser, Origins
  <2>3. QED
    BY <1>1, <2>1, <2>2
<1>2. ASSUME NEW q \in Requests, NEW m \in Emails, ResendUserCode(q, m) \/ ForgotPassword(q, m)
      PROVE  Inv'
  BY <1>2, SendCodeInv DEF ResendUserCode, ForgotPassword, Doings
<1>3. ASSUME NEW q \in Requests, NEW m \in Emails, LoginApple(q, m) \/ LoginGoogle(q, m)
      PROVE  Inv'
  BY <1>3, LoginAppleInv, LoginGoogleInv
<1>4. ASSUME NEW q \in Requests, NEW u \in DOMAIN users,
             \/ VerifyUser(q, u) \/ ResetPassword(q, u) \/ ChangePassword(q, u)
             \/ ChangeAccountStatus(q, u) \/ \E m \in Emails : UpdateUser(q, u, m)
      PROVE  Inv'
  BY <1>4, UpdatesInv
<1>5. ASSUME NEW q \in Requests, Insert(q) \/ Mail(q) \/ Store(q) \/ Write(q) \/ Login(q)
      PROVE  Inv'
  BY <1>5, InsertInv, MailInv, StoreInv, WriteInv, LoginInv
<1>6. ASSUME NEW q \in Requests, Fault(q) PROVE Inv'
  BY <1>6, TroubleInv
<1>7. ASSUME NEW u \in DOMAIN users, Expire(u) PROVE Inv'
  BY <1>7, ExpireInv
<1>8. CASE Restart
  BY <1>8, TroubleInv
<1>9. QED
  BY <1>1, <1>2, <1>3, <1>4, <1>5, <1>6, <1>7, <1>8 DEF AccountsNext

LEMMA NextInv ==
  ASSUME Inv, [Next]_vars
  PROVE  Inv'
<1>1. CASE UNCHANGED vars
  <2>1. Quiet /\ UNCHANGED <<request, codes, troubles, crowded>>
    BY <1>1 DEF vars, accounts, rewards, Quiet
  <2>2. Types' /\ \A p \in Requests : Waits(p)
    BY <2>1 DEF Inv, Types, Quiet, Waits
  <2>3. QED
    BY <2>1, <2>2, QuietGrows, OutsideStep
<1>2. CASE AccountsNext /\ UNCHANGED rewards
  BY <1>2, AccountsNextInv
<1>3. ASSUME NEW q \in Requests, NEW o \in Orders,
             ProcessOrder(q, o) \/ ProcessTopup(q, o) \/ Reopen(q, o)
      PROVE  Inv'
  <2>1. Customer \in DOMAIN users
    BY <1>3 DEF ProcessOrder, ProcessTopup, Reopen, Inv, RightTables
  <2>2. QED
    BY <1>3, <2>1, BeginOrderInv
<1>4. ASSUME NEW q \in Requests,
             Complete(q) \/ SaveOldStatus(q) \/ Count(q) \/ PayInvited(q) \/ PayInviter(q)
      PROVE  Inv'
  BY <1>4, CompleteInv, SaveInv, CountInv, PayInvitedInv, PayInviterInv
<1>5. QED
  BY <1>1, <1>2, <1>3, <1>4 DEF Next

LEMMA InvAlways == Spec => []Inv
  BY InitInv, NextInv, PTL DEF Spec

-----------------------------------------------------------------------------
(* The kinds of steps, for what is about several handlers.                 *)

Hold(p) == request'[p].at = request[p].at /\ request'[p].subject = request[p].subject

\* Points of the rewards.
Paying == {"count", "payInvited", "payInviter"}

Trouble ==
    /\ troubles' > 0 /\ UNCHANGED <<users, codes, rewards>>
    /\ \A p \in Requests : Hold(p) \/ request'[p].at = "done"

Outside ==
    /\ UNCHANGED <<users, rewards, troubles>> /\ \A p \in Requests : Hold(p)
    /\ \A u \in DOMAIN users : codes'[u] = "none" => codes[u] = "none"

Entered(q) ==
    /\ request[q].at = "new" /\ request'[q].at \notin Paying
    /\ UNCHANGED <<users, codes, rewards>>

OnAccounts(q) == Insert(q) \/ Mail(q) \/ Store(q) \/ Write(q) \/ Login(q)
OnRewards(q) == Complete(q) \/ SaveOldStatus(q) \/ Count(q) \/ PayInvited(q) \/ PayInviter(q)

Moved(q) ==
    /\ \A p \in Requests \ {q} : Hold(p)
    /\ troubles' = troubles
    /\ Entered(q) \/ (OnAccounts(q) /\ UNCHANGED rewards) \/ OnRewards(q)

LEMMA StartEnters ==
  ASSUME Inv, NEW q \in Requests, NEW h, Start(q, h), h.at \notin Paying,
         UNCHANGED <<users, codes, troubles, rewards>>
  PROVE  Moved(q)
<1>1. /\ request[q].at = "new" /\ request'[q] = h
      /\ \A p \in Requests \ {q} : request'[p] = request[p]
  BY DEF Start, Inv, Types
<1>2. QED
  BY <1>1 DEF Moved, Entered, Hold

LEMMA RegisterEnters ==
  ASSUME Inv, NEW q \in Requests, NEW doing, NEW email, NEW verified, NEW named,
         Register(q, doing, email, verified, named), UNCHANGED <<accounts, troubles, rewards>>
  PROVE  Moved(q)
<1>1. PICK code \in ReferralCodes : \E made \in NewUser(email, verified, code, named) :
         Start(q, Local("insert", doing, 0, [made EXCEPT !.password = q, !.from = doing]))
  BY DEF Register
<1>2. PICK made \in NewUser(email, verified, code, named) :
         Start(q, Local("insert", doing, 0, [made EXCEPT !.password = q, !.from = doing]))
  BY <1>1
<1> DEFINE h == Local("insert", doing, 0, [made EXCEPT !.password = q, !.from = doing])
<1>3. Start(q, h) /\ h.at \notin Paying
  BY <1>2 DEF Local, Paying
<1> HIDE DEF h
<1>4. QED
  BY <1>3, StartEnters DEF accounts

\* A handler of which nothing is known but the point where it begins.
LEMMA LocalEnters ==
  ASSUME Inv, NEW q \in Requests, NEW at, NEW doing, NEW subject, NEW row,
         Start(q, Local(at, doing, subject, row)), at \notin Paying,
         UNCHANGED <<users, codes, troubles, rewards>>
  PROVE  Moved(q)
<1> DEFINE h == Local(at, doing, subject, row)
<1>1. Start(q, h) /\ h.at \notin Paying
  BY DEF Local
<1> HIDE DEF h
<1>2. QED
  BY <1>1, StartEnters

LEMMA StepHolds ==
  ASSUME Inv, NEW q \in Requests, OnAccounts(q) \/ OnRewards(q)
  PROVE  \A p \in Requests \ {q} : Hold(p)
<1> SUFFICES ASSUME NEW p \in Requests \ {q} PROVE Hold(p)
  OBVIOUS
<1>0. request[p] \in Handlers /\ request \in [Requests -> Handlers]
  BY RowTypes DEF Inv, Types
<1>1. CASE Insert(q) \/ Write(q)
  <2>1. request'[p] \in {request[p], [request[p] EXCEPT !.overtaken = TRUE]}
    BY <1>0, <1>1 DEF Insert, Finish, Write
  <2>2. QED
    BY <1>0, <2>1 DEF Hold, Handlers
<1>2. CASE Mail(q) \/ Store(q) \/ Login(q) \/ OnRewards(q)
  <2>1. request'[p] = request[p]
    BY <1>0, <1>2 DEF Mail, Store, Login, OnRewards, Complete, SaveOldStatus, Count, PayInvited,
                      PayInviter, Go, Finish
  <2>2. QED
    BY <2>1 DEF Hold
<1>3. QED
  BY <1>1, <1>2 DEF OnAccounts

LEMMA AccountsSteps ==
  ASSUME Inv, AccountsNext, UNCHANGED rewards
  PROVE  Trouble \/ Outside \/ \E q \in Requests : Moved(q)
<1>1. ASSUME NEW q \in Requests, NEW m \in Emails, NEW v \in BOOLEAN, NEW r,
             SignUp(q, m, v, r) \/ PostUser(q, m, v, r)
      PROVE  Moved(q)
  BY <1>1, RegisterEnters DEF SignUp, PostUser
<1>2. ASSUME NEW q \in Requests, NEW m \in Emails, ResendUserCode(q, m) \/ ForgotPassword(q, m)
      PROVE  Moved(q)
  <2>1. PICK doing : SendCode(q, doing, m)
    BY <1>2 DEF ResendUserCode, ForgotPassword
  <2>2. PICK u : Start(q, Local("mail", doing, u, NoUser))
    BY <2>1 DEF SendCode
  <2>3. QED
    BY <2>1, <2>2, LocalEnters DEF SendCode, accounts, Paying
<1>3. ASSUME NEW q \in Requests, NEW m \in Emails, LoginApple(q, m) \/ LoginGoogle(q, m)
      PROVE  Moved(q)
  <2>1. UNCHANGED <<accounts, troubles>>
    BY <1>3 DEF LoginApple, LoginGoogle
  <2>2. CASE \E doing : Register(q, doing, m, TRUE, Nobody)
    BY <2>1, <2>2, RegisterEnters
  <2>3. ASSUME NEW at \in {"write", "login"}, NEW doing, NEW u, NEW row,
               Start(q, Local(at, doing, u, row))
        PROVE  Moved(q)
    BY <2>1, <2>3, LocalEnters DEF accounts, Paying
  <2>4. QED
    BY <1>3, <2>2, <2>3 DEF LoginApple, LoginGoogle, Update
<1>4. ASSUME NEW q \in Requests, NEW u \in DOMAIN users,
             \/ VerifyUser(q, u) \/ ResetPassword(q, u) \/ ChangePassword(q, u)
             \/ ChangeAccountStatus(q, u) \/ \E m \in Emails : UpdateUser(q, u, m)
      PROVE  Moved(q)
  <2>1. UNCHANGED <<accounts, troubles>>
    BY <1>4 DEF VerifyUser, ResetPassword, ChangePassword, ChangeAccountStatus, UpdateUser
  <2>2. PICK doing, row : Start(q, Local("write", doing, u, row))
    BY <1>4 DEF VerifyUser, ResetPassword, ChangePassword, ChangeAccountStatus, UpdateUser, Update
  <2>3. QED
    BY <2>1, <2>2, LocalEnters DEF accounts, Paying
<1>5. ASSUME NEW q \in Requests, Insert(q) \/ Mail(q) \/ Store(q) \/ Write(q) \/ Login(q)
      PROVE  Moved(q)
  BY <1>5, StepHolds DEF Moved, OnAccounts, Insert, Mail, Store, Write, Login
<1>6. ASSUME NEW q \in Requests, Fault(q) PROVE Trouble
  <2>1. troubles' > 0 /\ UNCHANGED <<users, codes, rewards>>
    BY <1>6 DEF Fault, accounts, Inv, Types
  <2>2. \A p \in Requests : request'[p] \in {request[p], Ended}
    BY <1>6 DEF Fault, Finish, Inv, Types
  <2>3. QED
    BY <2>1, <2>2, Unmoved DEF Trouble, Hold
<1>7. ASSUME NEW u \in DOMAIN users, Expire(u) PROVE Outside
  <2>1. UNCHANGED <<users, rewards, request, troubles>> /\ codes' = [codes EXCEPT ![u] = "expired"]
    BY <1>7 DEF Expire
  <2>2. \A v \in DOMAIN users : codes'[v] = "none" => codes[v] = "none"
    BY <2>1, RowTypes
  <2>3. QED
    BY <2>1, <2>2 DEF Outside, Hold
<1>8. CASE Restart
  <2>1. troubles' > 0 /\ UNCHANGED <<users, codes, rewards>>
    BY <1>8 DEF Restart, accounts, Inv, Types
  <2>2. \A p \in Requests : request'[p] \in {request[p], Ended}
    BY <1>8 DEF Restart
  <2>3. QED
    BY <2>1, <2>2, Unmoved DEF Trouble, Hold
<1>9. QED
  BY <1>1, <1>2, <1>3, <1>4, <1>5, <1>6, <1>7, <1>8 DEF AccountsNext

LEMMA Steps ==
  ASSUME Inv, [Next]_vars
  PROVE  Trouble \/ Outside \/ \E q \in Requests : Moved(q)
<1>1. CASE UNCHANGED vars
  BY <1>1 DEF vars, accounts, Outside, Hold
<1>2. CASE AccountsNext /\ UNCHANGED rewards
  BY <1>2, AccountsSteps
<1>3. ASSUME NEW q \in Requests, NEW o \in Orders,
             ProcessOrder(q, o) \/ ProcessTopup(q, o) \/ Reopen(q, o)
      PROVE  Moved(q)
  <2>1. PICK at \in {"complete", "reopen"}, doing \in Doings :
           Start(q, Local(at, doing, o, NoUser))
    BY <1>3 DEF ProcessOrder, ProcessTopup, Reopen, Doings
  <2>2. UNCHANGED <<accounts, troubles, rewards>>
    BY <1>3 DEF ProcessOrder, ProcessTopup, Reopen
  <2>3. QED
    BY <2>1, <2>2, LocalEnters DEF accounts, Paying
<1>4. ASSUME NEW q \in Requests, OnRewards(q) PROVE Moved(q)
  BY <1>4, StepHolds
     DEF Moved, OnRewards, Complete, SaveOldStatus, Count, PayInvited, PayInviter, Credited
<1>5. QED
  BY <1>1, <1>2, <1>3, <1>4 DEF Next, OnRewards

\* Rows change in updates only, and are added in registrations.
LEMMA RowsKept ==
  ASSUME Inv, [Next]_vars, NEW u \in DOMAIN users
  PROVE  /\ u \in DOMAIN users'
         /\ users'[u] = users[u] \/ \E q \in Requests : Write(q) /\ request[q].subject = u
         /\ users'[u].by = users[u].by /\ users'[u].from = users[u].from
<1>1. CASE UNCHANGED users
  BY <1>1
<1>2. ASSUME NEW q \in Requests, Insert(q) PROVE u \in DOMAIN users' /\ users'[u] = users[u]
  BY <1>2, RowTypes DEF Insert, accounts, Inv, Types
<1>3. ASSUME NEW q \in Requests, Write(q)
      PROVE  /\ u \in DOMAIN users'
             /\ users'[u] = users[u] \/ request[q].subject = u
             /\ users'[u].by = users[u].by /\ users'[u].from = users[u].from
  BY <1>3, WriteEffect DEF Inv, Types
<1>4. UNCHANGED users \/ \E q \in Requests : Insert(q) \/ Write(q)
  BY Steps DEF Trouble, Outside, Moved, Entered, OnAccounts, OnRewards, Mail, Store, Login,
               Complete, SaveOldStatus, Count, PayInvited, PayInviter, Credited, accounts
<1>5. QED
  BY <1>1, <1>2, <1>3, <1>4

-----------------------------------------------------------------------------
(* The accounts.                                                           *)

\* The tables and the handlers keep their shape, whatever the handlers do.
THEOREM ReferralsTyped == Spec => []TypeOK
<1>1. Inv => TypeOK
  BY InvIsTyped
<1>2. QED
  BY <1>1, InvAlways, PTL

\* No two accounts share a referral code; two that share an address differ in that
\* one of them took it without a look-up, or while another registration was running.
THEOREM AddressesDoubleByOverlap == Spec => []AccountsDiffer
<1>1. Inv => AccountsDiffer
  BY DEF Inv, RightTables
<1>2. QED
  BY <1>1, InvAlways, PTL

\* Whatever updates overlap, a password changes only to one that was asked for.
THEOREM PasswordsAreAskedFor == Spec => PasswordsSurvive
<1> DEFINE AskedFor ==
      \A u \in DOMAIN users :
          users'[u].password # users[u].password =>
              \E q \in Requests :
                  /\ request[q].at = "write" /\ request[q].doing = "password"
                  /\ request[q].subject = u /\ users'[u].password = q
<1>1. Inv /\ [Next]_vars => [AskedFor]_<<users, request>>
  <2> SUFFICES ASSUME Inv, [Next]_vars, NEW u \in DOMAIN users,
                      users'[u].password # users[u].password
               PROVE  \E q \in Requests :
                        /\ request[q].at = "write" /\ request[q].doing = "password"
                        /\ request[q].subject = u /\ users'[u].password = q
    OBVIOUS
  <2>1. PICK q \in Requests : Write(q) /\ request[q].subject = u
    BY RowsKept
  <2>2. users'[u].password = IF request[q].doing = "password" THEN q ELSE users[u].password
    BY <2>1, WriteEffect DEF Inv, Types
  <2>3. QED
    BY <2>1, <2>2 DEF Write
<1>2. QED
  BY <1>1, InvAlways, PTL DEF Spec, PasswordsSurvive

\* A column that no handler was asked to change goes back to an earlier value only
\* where another handler wrote the row between the read and the write of this one.
THEOREM LostUpdatesOverlap == Spec => UpdatesAreLostOnlyByOverlap
<1> DEFINE Explained ==
      \A u \in DOMAIN users :
          LET old == users[u]
              new == users'[u]
          IN  new # old =>
                \E q \in Requests :
                    /\ request[q].at = "write" /\ request[q].subject = u
                    /\ \/ request[q].overtaken
                       \/ /\ new.email # old.email => request[q].doing = "update"
                          /\ new.active # old.active => request[q].doing = "status"
                          /\ new.verified # old.verified =>
                                request[q].doing = "verify" /\ new.verified
<1>1. Inv /\ [Next]_vars => [Explained]_<<users, request>>
  <2> SUFFICES ASSUME Inv, [Next]_vars, NEW u \in DOMAIN users, users'[u] # users[u]
               PROVE  \E q \in Requests :
                    /\ request[q].at = "write" /\ request[q].subject = u
                    /\ \/ request[q].overtaken
                       \/ /\ users'[u].email # users[u].email => request[q].doing = "update"
                          /\ users'[u].active # users[u].active => request[q].doing = "status"
                          /\ users'[u].verified # users[u].verified =>
                                request[q].doing = "verify" /\ users'[u].verified
    OBVIOUS
  <2>1. PICK q \in Requests : Write(q) /\ request[q].subject = u
    BY RowsKept
  <2>2. /\ users'[u].email = request[q].row.email /\ users'[u].active = request[q].row.active
        /\ users'[u].verified = request[q].row.verified
    BY <2>1, WriteEffect DEF Inv, Types
  <2>3. request[q].at = "write" /\ RightWrite(q)
    BY <2>1, RowTypes DEF Write, Sound
  <2>4. QED
    BY <2>1, <2>2, <2>3 DEF RightWrite
<1>2. QED
  BY <1>1, InvAlways, PTL DEF Spec, UpdatesAreLostOnlyByOverlap

\* An account made by a sign-up has a code in the table, or it is still being sent,
\* or a call failed or the server restarted.
THEOREM SignUpsLeaveCodes == Spec => []SignUpLeavesCode
<1>1. ASSUME Init PROVE SignUpLeavesCode
  <2>1. NoUser.from = "earlier"
    BY DEF NoUser
  <2>2. CASE users = <<NoUser>>
    <3>1. \A u \in DOMAIN users : users[u] = NoUser
      BY <2>2
    <3>2. QED
      BY <2>1, <3>1 DEF SignUpLeavesCode
  <2>3. ASSUME NEW m, NEW r,
               users = <<NoUser, [NoUser EXCEPT !.email = m, !.code = r, !.by = 1]>>
        PROVE  SignUpLeavesCode
    <3> DEFINE two == [NoUser EXCEPT !.email = m, !.code = r, !.by = 1]
    <3>1. two.from = "earlier" /\ users = <<NoUser, two>>
      BY <2>3 DEF NoUser
    <3> HIDE DEF two
    <3>2. \A u \in DOMAIN users : users[u] = NoUser \/ users[u] = two
      BY <3>1
    <3>3. QED
      BY <2>1, <3>1, <3>2 DEF SignUpLeavesCode
  <2>4. QED
    BY <1>1, <2>2, <2>3, Zenon DEF Init, AccountsInit
<1>2. ASSUME Inv, SignUpLeavesCode, [Next]_vars PROVE SignUpLeavesCode'
  <2> SUFFICES ASSUME NEW u \in DOMAIN users', users'[u].from = "sign-up",
                      codes'[u] = "none", ~(troubles' > 0)
               PROVE  \E p \in Requests : request'[p].at \in {"mail", "store"}
                                          /\ request'[p].subject = u
    BY DEF SignUpLeavesCode
  <2>0. ~Trouble
    BY DEF Trouble
  <2>1. ASSUME u \in DOMAIN users, codes[u] = "none", ~(troubles > 0)
        PROVE  \E p \in Requests : request[p].at \in {"mail", "store"} /\ request[p].subject = u
    BY <1>2, <2>1, RowsKept DEF SignUpLeavesCode
  <2>2. CASE Outside
    BY <2>1, <2>2 DEF Outside, Hold
  <2>3. ASSUME NEW q \in Requests, Moved(q), u \in DOMAIN users, codes[u] = "none",
               request[q].at \notin {"mail", "store"}
        PROVE  \E p \in Requests : request'[p].at \in {"mail", "store"}
                                   /\ request'[p].subject = u
    BY <2>1, <2>3 DEF Moved, Hold
  <2>4. ASSUME NEW q \in Requests, Insert(q), Moved(q)
        PROVE  \E p \in Requests : request'[p].at \in {"mail", "store"}
                                   /\ request'[p].subject = u
    <3>1. CASE u \in DOMAIN users
      <4>1. codes'[u] = codes[u] /\ request[q].at = "insert"
        BY <1>2, <2>4, <3>1, RowTypes DEF Insert, accounts, Inv, Types
      <4>2. QED
        BY <2>3, <2>4, <3>1, <4>1
    <3>2. CASE u \notin DOMAIN users
      <4> DEFINE h == Local("mail", request[q].doing, Len(users) + 1, Known(request[q].row.email))
      <4>1. u = Len(users) + 1 /\ users'[u] = request[q].row
        BY <1>2, <2>4, <3>2, RowTypes DEF Insert, accounts, Inv, Types, Handlers
      <4>2. request[q].doing = "sign-up"
        BY <1>2, <2>4, <4>1, RowTypes DEF Insert, Sound, RightInsert
      <4>3. request'[q] = h
        BY <1>2, <2>4, <3>2, <4>2 DEF Insert, accounts, Inv, Types
      <4>4. h.at = "mail" /\ h.subject = u
        BY <4>1 DEF Local
      <4> HIDE DEF h
      <4>5. QED
        BY <4>3, <4>4
    <3>3. QED
      BY <3>1, <3>2
  <2>5. ASSUME NEW q \in Requests, Mail(q), Moved(q)
        PROVE  \E p \in Requests : request'[p].at \in {"mail", "store"}
                                   /\ request'[p].subject = u
    <3>1. request'[q].at = "store" /\ request'[q].subject = request[q].subject
      BY <1>2, <2>5, GoMoves DEF Mail, Points
    <3>2. QED
      BY <2>1, <2>5, <3>1 DEF Moved, Hold, Mail, accounts
  <2>6. ASSUME NEW q \in Requests, Store(q), Moved(q)
        PROVE  \E p \in Requests : request'[p].at \in {"mail", "store"}
                                   /\ request'[p].subject = u
    <3>1. u \in DOMAIN users /\ request[q].subject # u /\ codes[u] = "none"
      BY <1>2, <2>6, RowTypes DEF Store
    <3>2. QED
      BY <2>1, <2>6, <3>1 DEF Moved, Hold, Store
  <2>7. ASSUME NEW q \in Requests, Write(q), Moved(q)
        PROVE  \E p \in Requests : request'[p].at \in {"mail", "store"}
                                   /\ request'[p].subject = u
    BY <1>2, <2>3, <2>7, WriteEffect, RowTypes DEF Write, Inv, Types
  <2>8. ASSUME NEW q \in Requests, Entered(q) \/ Login(q) \/ OnRewards(q), Moved(q)
        PROVE  \E p \in Requests : request'[p].at \in {"mail", "store"}
                                   /\ request'[p].subject = u
    BY <2>3, <2>8 DEF Entered, Login, OnRewards, Complete, SaveOldStatus, Count, PayInvited,
                      PayInviter, Credited, accounts
  <2>9. QED
    BY <1>2, <2>0, <2>2, <2>4, <2>5, <2>6, <2>7, <2>8, Steps DEF Moved, OnAccounts
<1>3. QED
  BY <1>1, <1>2, InvAlways, PTL DEF Spec

-----------------------------------------------------------------------------
(* The rewards.                                                            *)

AtPay == {request[q].subject : q \in {p \in Requests : request[p].at = "payInvited"}}

\* Only one order is counted as the first, and its two rewards go to the right users.
OneFirst ==
    /\ reopened = {} =>
          /\ Invited \cup AtPay \subseteq completed
          /\ \A o, p \in Invited \cup AtPay : o = p
    /\ ledger # {} => Customer \in DOMAIN users
    /\ \A o \in Invited \ Rewarded("inviter") :
          \/ troubles > 0
          \/ \E q \in Requests : request[q].at = "payInviter" /\ request[q].subject = o
    /\ Rewarded("inviter") \subseteq Invited
    /\ \A e \in ledger : e.user = (IF e.role = "invited" THEN Customer ELSE Inviter)

\* The customer is yet to be rewarded, or the reward is on its way.
SomebodyPays ==
    \E q \in Requests :
        \/ request[q].at = "payInvited"
        \/ request[q].at = "count" /\ completed = {request[q].subject}

FirstIsPaid ==
    \/ completed = {} \/ Inviter = 0 \/ Invited # {}
    \/ crowded \/ reopened # {} \/ troubles > 0 \/ completed \cap Free # {}
    \/ SomebodyPays

LEMMA SameInviter ==
  ASSUME Inv, [Next]_vars, Customer \in DOMAIN users
  PROVE  Customer \in DOMAIN users' /\ Inviter' = Inviter
  BY RowsKept DEF Customer, Inviter

\* The rewards when no handler moved among them, or one lost its way.
LEMMA StillOneFirst ==
  ASSUME Inv, [Next]_vars, OneFirst, UNCHANGED rewards, troubles > 0 => troubles' > 0,
         \A p \in Requests : request'[p].at = "payInvited" =>
            request[p].at = "payInvited" /\ Hold(p),
         troubles' > 0 \/ \A p \in Requests : request[p].at = "payInviter" => Hold(p)
  PROVE  OneFirst'
<1>1. UNCHANGED <<completed, ledger, reopened>>
  BY DEF rewards
<1>2. Invited' = Invited /\ Rewarded("inviter")' = Rewarded("inviter")
  BY <1>1 DEF Invited, Rewarded
<1>3. AtPay' \subseteq AtPay
  BY DEF AtPay, Hold
<1>4. /\ ledger # {} => Customer \in DOMAIN users'
      /\ \A e \in ledger : e.user = (IF e.role = "invited" THEN Customer ELSE Inviter')
  BY SameInviter DEF OneFirst
<1>5. ASSUME NEW o \in Invited \ Rewarded("inviter"), ~(troubles' > 0)
      PROVE  \E q \in Requests : request'[q].at = "payInviter" /\ request'[q].subject = o
  BY <1>5 DEF OneFirst, Hold
<1>6. QED
  BY <1>1, <1>2, <1>3, <1>4, <1>5 DEF OneFirst, Customer

LEMMA StillPays ==
  ASSUME Inv, [Next]_vars, FirstIsPaid, UNCHANGED rewards, troubles > 0 => troubles' > 0,
         troubles' > 0 \/ \A p \in Requests : request[p].at \in Paying => Hold(p)
  PROVE  FirstIsPaid'
<1>1. UNCHANGED <<completed, ledger, reopened, crowded>>
  BY DEF rewards
<1>2. Invited' = Invited
  BY <1>1 DEF Invited, Rewarded
<1>3. completed = {} \/ Inviter' = Inviter
  BY SameInviter DEF Inv, RightTables
<1>4. SomebodyPays => troubles' > 0 \/ SomebodyPays'
  BY <1>1 DEF SomebodyPays, Hold, Paying
<1>5. QED
  BY <1>1, <1>2, <1>3, <1>4 DEF FirstIsPaid

\* A step of the accounts, or one that begins with an order, is of that kind.
LEMMA AsideSteps ==
  ASSUME Inv, [Next]_vars, ~\E q \in Requests : OnRewards(q)
  PROVE  /\ UNCHANGED rewards
         /\ troubles > 0 => troubles' > 0
         /\ \A p \in Requests : request'[p].at \in Paying => request[p].at \in Paying /\ Hold(p)
         /\ troubles' > 0 \/ \A p \in Requests : request[p].at \in Paying => Hold(p)
<1>1. CASE Trouble
  BY <1>1 DEF Trouble, Hold, Paying
<1>2. CASE Outside
  BY <1>2 DEF Outside, Hold
<1>3. ASSUME NEW q \in Requests, Moved(q)
      PROVE  /\ UNCHANGED rewards /\ troubles' = troubles
             /\ \A p \in Requests \ {q} : Hold(p)
             /\ request[q].at \notin Paying /\ request'[q].at \notin Paying
  <2>1. \A p \in Requests \ {q} : Hold(p) /\ troubles' = troubles
    BY <1>3 DEF Moved
  <2>2. CASE Entered(q)
    BY <1>3, <2>1, <2>2 DEF Entered, Moved, Paying
  <2>3. CASE OnAccounts(q) /\ UNCHANGED rewards
    <3>1. request[q].at \in {"insert", "mail", "store", "write", "login"}
      BY <2>3 DEF OnAccounts, Insert, Mail, Store, Write, Login
    <3>2. request'[q].at \notin Paying
      <4>0. request \in [Requests -> Handlers]
        BY DEF Inv, Types
      <4>1. CASE Insert(q)
        <5> DEFINE id == Len(users) + 1
                   row == Known(request[q].row.email)
                   mail == Local("mail", request[q].doing, id, row)
                   login == Local("login", request[q].doing, id, row)
        <5>1. request'[q] \in {Ended, mail, login}
          BY <4>0, <4>1 DEF Insert, Finish
        <5>2. mail.at = "mail" /\ login.at = "login"
          BY DEF Local
        <5> HIDE DEF mail, login
        <5>3. QED
          BY <5>1, <5>2, Unmoved DEF Paying
      <4>2. CASE Mail(q)
        BY <4>2, GoMoves DEF Mail, Points, Paying
      <4>3. CASE Store(q) \/ Write(q)
        BY <4>0, <4>3, Unmoved DEF Store, Write, Finish, Paying
      <4>4. CASE Login(q)
        <5>1. CASE Finish(q)
          BY <4>0, <5>1, Unmoved DEF Finish, Paying
        <5>2. ASSUME NEW u, NEW row,
                     request' = [request EXCEPT ![q] = Local("write", "verify", u, row)]
              PROVE  request'[q].at \notin Paying
          BY <4>0, <5>2 DEF Local, Paying
        <5>3. QED
          BY <4>4, <5>1, <5>2 DEF Login
      <4>5. QED
        BY <2>3, <4>1, <4>2, <4>3, <4>4 DEF OnAccounts
    <3>3. QED
      BY <2>1, <1>3, <2>3, <3>1, <3>2 DEF Paying, Moved
  <2>4. QED
    BY <1>3, <2>2, <2>3 DEF Moved
<1>4. ASSUME NEW q \in Requests, Moved(q)
      PROVE  /\ \A p \in Requests : request'[p].at \in Paying => request[p].at \in Paying /\ Hold(p)
             /\ \A p \in Requests : request[p].at \in Paying => Hold(p)
  BY <1>3, <1>4 DEF Hold
<1>5. QED
  BY <1>1, <1>2, <1>3, <1>4, Steps

\* Only one handler moves among the rewards.
LEMMA RewardMoves ==
  ASSUME Inv, NEW q \in Requests, OnRewards(q)
  PROVE  /\ UNCHANGED <<users, troubles>> /\ Sound(q) /\ request[q].subject \in Orders
         /\ \A p \in Requests \ {q} : request'[p] = request[p]
         /\ \/ request'[q] = Ended
            \/ /\ request'[q].subject = request[q].subject
               /\ \/ Complete(q) /\ request'[q].at = "count"
                  \/ Count(q) /\ request'[q].at = "payInvited"
                  \/ PayInvited(q) /\ request'[q].at = "payInviter"
<1>1. /\ UNCHANGED <<users, troubles>> /\ Sound(q) /\ request[q].at \in AtOrder
  BY RowTypes DEF OnRewards, Complete, SaveOldStatus, Count, PayInvited, PayInviter, Credited,
                  accounts, AtOrder
<1>2. request[q].subject \in Orders
  BY <1>1 DEF Sound, RightSubject
<1>3. CASE Finish(q)
  BY <1>1, <1>2, <1>3, FinishEnds DEF Others
<1>4. CASE Complete(q) /\ Go(q, "count")
  BY <1>1, <1>2, <1>4, GoMoves DEF Others, Points
<1>5. CASE Count(q) /\ Go(q, "payInvited")
  BY <1>1, <1>2, <1>5, GoMoves DEF Others, Points
<1>6. CASE PayInvited(q)
  BY <1>1, <1>2, <1>6, GoMoves DEF PayInvited, Others, Points
<1>7. QED
  BY <1>3, <1>4, <1>5, <1>6 DEF OnRewards, Complete, SaveOldStatus, Count, PayInviter

LEMMA CompleteKeepsOne ==
  ASSUME Inv, OneFirst, NEW q \in Requests, Complete(q) \/ SaveOldStatus(q)
  PROVE  OneFirst'
<1>1. /\ UNCHANGED <<ledger, users, troubles>> /\ reopened \subseteq reopened'
      /\ reopened' = {} => completed \subseteq completed'
      /\ request[q].at \in {"complete", "reopen"}
  BY DEF Complete, SaveOldStatus, accounts
<1>2. Invited' = Invited /\ Rewarded("inviter")' = Rewarded("inviter")
  BY <1>1 DEF Invited, Rewarded
<1>3. /\ \A p \in Requests \ {q} : request'[p] = request[p]
      /\ request'[q].at \in {"count", "done"}
  BY RewardMoves, Unmoved DEF OnRewards, Count, PayInvited, Complete, SaveOldStatus
<1>4. AtPay' \subseteq AtPay
  BY <1>3 DEF AtPay
<1>5. \A o \in Invited \ Rewarded("inviter") :
         \/ troubles > 0
         \/ \E p \in Requests : request'[p].at = "payInviter" /\ request'[p].subject = o
  BY <1>1, <1>3 DEF OneFirst
<1>6. QED
  BY <1>1, <1>2, <1>4, <1>5 DEF OneFirst, Customer, Inviter

LEMMA CountKeepsOne ==
  ASSUME Inv, OneFirst, NEW q \in Requests, Count(q)
  PROVE  OneFirst'
<1> DEFINE o == request[q].subject
<1>1. /\ UNCHANGED <<ledger, users, troubles, completed, reopened>>
      /\ request[q].at = "count" /\ Sound(q)
  BY RowTypes DEF Count, accounts, rewards
<1>2. Invited' = Invited /\ Rewarded("inviter")' = Rewarded("inviter")
  BY <1>1 DEF Invited, Rewarded
<1>3. /\ \A p \in Requests \ {q} : request'[p] = request[p]
      /\ request'[q] = Ended \/ (request'[q].at = "payInvited" /\ request'[q].subject = o)
  BY <1>1, RewardMoves DEF OnRewards, Complete, PayInvited
<1>4. \A p \in Invited \ Rewarded("inviter") :
         \/ troubles > 0
         \/ \E r \in Requests : request'[r].at = "payInviter" /\ request'[r].subject = p
  BY <1>1, <1>3 DEF OneFirst
<1>5. ASSUME reopened = {}
      PROVE  /\ Invited \cup AtPay' \subseteq completed
             /\ \A a, b \in Invited \cup AtPay' : a = b
  <2>1. CASE request'[q].at = "payInvited"
    <3>1. IsFirst
      BY <1>1, <2>1, FinishEnds, Unmoved DEF Count
    <3>2. PICK x : completed = {x}
      BY <3>1, FS_Singleton DEF IsFirst, Inv, RightTables
    <3>3. o \in completed
      BY <1>1, <1>5 DEF Sound, RightReward
    <3>4. Invited \cup AtPay \subseteq completed
      BY <1>5 DEF OneFirst
    <3>5. AtPay' \subseteq AtPay \cup {o}
      BY <1>3, Unmoved DEF AtPay
    <3>6. QED
      BY <3>2, <3>3, <3>4, <3>5
  <2>2. CASE request'[q].at # "payInvited"
    <3>1. AtPay' \subseteq AtPay
      BY <1>3, <2>2 DEF AtPay
    <3>2. QED
      BY <1>5, <3>1 DEF OneFirst
  <2>3. QED
    BY <2>1, <2>2
<1>6. QED
  BY <1>1, <1>2, <1>4, <1>5 DEF OneFirst, Customer, Inviter

LEMMA PayKeepsOne ==
  ASSUME Inv, OneFirst, NEW q \in Requests, PayInvited(q) \/ PayInviter(q)
  PROVE  OneFirst'
<1> DEFINE o == request[q].subject
           role == IF PayInvited(q) THEN "invited" ELSE "inviter"
           e == [role |-> role, user |-> IF role = "invited" THEN Customer ELSE Inviter,
                 order |-> o]
<1>1. /\ UNCHANGED <<users, troubles, completed, reopened>> /\ ledger' = ledger \cup {e}
      /\ request[q].at = (IF role = "invited" THEN "payInvited" ELSE "payInviter")
      /\ Sound(q) /\ Customer \in DOMAIN users
      /\ \A p \in Requests \ {q} : request'[p] = request[p]
  <2>1. UNCHANGED <<users, troubles, completed, reopened>> /\ ledger' = ledger \cup {e}
    BY DEF PayInvited, PayInviter, Credited, accounts
  <2>2. request[q].at = (IF role = "invited" THEN "payInvited" ELSE "payInviter")
    BY DEF PayInvited, PayInviter
  <2>3. /\ Sound(q) /\ \A p \in Requests \ {q} : request'[p] = request[p]
    BY RewardMoves DEF OnRewards
  <2>4. Customer \in DOMAIN users
    BY <2>2, <2>3 DEF Sound, RightSubject, AtOrder
  <2>5. QED
    BY <2>1, <2>2, <2>3, <2>4
<1>2. e.role = role /\ e.order = o /\ e.user = (IF role = "invited" THEN Customer ELSE Inviter)
      /\ role \in {"invited", "inviter"}
  OBVIOUS
<1> HIDE DEF e
<1>3. CASE role = "invited"
  <2>1. Invited' = Invited \cup {o} /\ Rewarded("inviter")' = Rewarded("inviter")
    BY <1>1, <1>2, <1>3 DEF Invited, Rewarded
  <2>2. PayInvited(q)
    BY <1>3
  <2>3. request'[q].at = "payInviter" /\ request'[q].subject = o
    BY <2>2, GoMoves DEF PayInvited, Points
  <2>4. o \in AtPay /\ AtPay' \subseteq AtPay
    BY <1>1, <1>3, <2>3 DEF AtPay
  <2>5. \A p \in Invited' \ Rewarded("inviter")' :
           \/ troubles > 0
           \/ \E r \in Requests : request'[r].at = "payInviter" /\ request'[r].subject = p
    BY <1>1, <1>3, <2>1, <2>3 DEF OneFirst
  <2>6. reopened = {} => /\ Invited' \cup AtPay' \subseteq completed
                         /\ \A a, b \in Invited' \cup AtPay' : a = b
    BY <2>1, <2>4 DEF OneFirst
  <2>7. \A x \in ledger' : x.user = (IF x.role = "invited" THEN Customer ELSE Inviter)
    BY <1>1, <1>2, <1>3 DEF OneFirst
  <2>8. Inviter' = Inviter /\ DOMAIN users' = DOMAIN users
    BY <1>1 DEF Inviter, Customer
  <2>9. Rewarded("inviter")' \subseteq Invited'
    BY <2>1 DEF OneFirst
  <2>10. QED
    BY <1>1, <2>5, <2>6, <2>7, <2>8, <2>9 DEF OneFirst, Customer
<1>4. CASE role = "inviter"
  <2>1. Invited' = Invited /\ Rewarded("inviter")' = Rewarded("inviter") \cup {o}
    BY <1>1, <1>2, <1>4 DEF Invited, Rewarded
  <2>2. PayInviter(q)
    BY <1>4 DEF OnRewards, PayInvited, PayInviter
  <2>3. request'[q] = Ended
    BY <2>2, FinishEnds DEF PayInviter
  <2>4. AtPay' \subseteq AtPay
    BY <1>1, <2>3, Unmoved DEF AtPay
  <2>5. o \in Invited
    BY <1>1, <1>4 DEF Sound, RightReward
  <2>6. \A p \in Invited' \ Rewarded("inviter")' :
           \/ troubles > 0
           \/ \E r \in Requests : request'[r].at = "payInviter" /\ request'[r].subject = p
    BY <1>1, <2>1, <2>3 DEF OneFirst
  <2>7. \A x \in ledger' : x.user = (IF x.role = "invited" THEN Customer ELSE Inviter)
    BY <1>1, <1>2, <1>4 DEF OneFirst
  <2>8. Inviter' = Inviter /\ DOMAIN users' = DOMAIN users
    BY <1>1 DEF Inviter, Customer
  <2>9. QED
    BY <1>1, <2>1, <2>4, <2>5, <2>6, <2>7, <2>8 DEF OneFirst, Customer
<1>5. QED
  BY <1>2, <1>3, <1>4

LEMMA OneFirstAlways == Spec => []OneFirst
<1>1. Init => OneFirst
  BY InitInv, Unmoved DEF Init, AccountsInit, OneFirst, Invited, Rewarded, AtPay
<1>2. ASSUME Inv, OneFirst, [Next]_vars PROVE OneFirst'
  <2>1. CASE ~\E q \in Requests : OnRewards(q)
    BY <1>2, <2>1, AsideSteps, StillOneFirst DEF Paying, Hold
  <2>2. ASSUME NEW q \in Requests, OnRewards(q) PROVE OneFirst'
    BY <1>2, <2>2, CompleteKeepsOne, CountKeepsOne, PayKeepsOne DEF OnRewards
  <2>3. QED
    BY <2>1, <2>2
<1>3. QED
  BY <1>1, <1>2, InvAlways, PTL DEF Spec

\* A customer is rewarded for one order, with the referrer, unless an order was set back.
THEOREM FirstOrderRewardsBoth == Spec => []RewardsAreRight
<1>1. Inv /\ OneFirst => RewardsAreRight
  <2> SUFFICES ASSUME Inv, OneFirst, reopened = {}
               PROVE  Cardinality(Rewarded("invited")) <= 1
    BY DEF OneFirst, RewardsAreRight, Invited
  <2>1. CASE Invited = {}
    BY <2>1, FS_EmptySet DEF Invited
  <2>2. ASSUME NEW o \in Invited PROVE Cardinality(Invited) <= 1
    <3>1. Invited = {o}
      BY <2>2 DEF OneFirst
    <3>2. QED
      BY <3>1, FS_Singleton
  <2>3. QED
    BY <2>1, <2>2 DEF Invited
<1>2. QED
  BY <1>1, InvAlways, OneFirstAlways, PTL

LEMMA RewardsKeepPaid ==
  ASSUME Inv, FirstIsPaid, NEW q \in Requests, OnRewards(q)
  PROVE  FirstIsPaid'
<1> DEFINE o == request[q].subject
<1>1. /\ UNCHANGED <<users, troubles>> /\ Sound(q)
      /\ \A p \in Requests \ {q} : request'[p] = request[p]
  BY RewardMoves
<1>2. Inviter' = Inviter
  BY <1>1 DEF Inviter, Customer
<1>3. CASE SaveOldStatus(q)
  BY <1>3 DEF SaveOldStatus, FirstIsPaid
<1>4. CASE PayInvited(q)
  <2> DEFINE e == [role |-> "invited", user |-> Customer, order |-> o]
  <2>1. e \in ledger' /\ e.role = "invited"
    BY <1>4 DEF PayInvited, Credited
  <2> HIDE DEF e
  <2>2. Invited' # {}
    BY <2>1 DEF Invited, Rewarded
  <2>3. QED
    BY <2>2 DEF FirstIsPaid
<1>5. CASE Complete(q)
  <2>1. /\ request[q].at = "complete" /\ completed' = completed \cup {o}
        /\ UNCHANGED <<ledger, reopened>>
        /\ crowded' = (crowded \/ request[q].doing # "order" \/ \E p \in Requests :
                          request[p].at = "count" /\ request[p].subject # o)
    BY <1>5 DEF Complete
  <2>2. Invited' = Invited
    BY <2>1 DEF Invited, Rewarded
  <2>3. CASE crowded'
    BY <2>3 DEF FirstIsPaid
  <2>4. CASE ~crowded'
    <3>1. /\ ~crowded /\ Go(q, "count")
          /\ \A p \in Requests : request[p].at = "count" => request[p].subject = o
      BY <1>5, <2>1, <2>4 DEF Complete
    <3>2. request'[q].at = "count" /\ request'[q].subject = o
      BY <3>1, GoMoves DEF Points
    <3>3. CASE completed = {}
      <4>1. completed' = {request'[q].subject}
        BY <2>1, <3>2, <3>3
      <4>2. SomebodyPays'
        BY <3>2, <4>1 DEF SomebodyPays
      <4>3. QED
        BY <4>2 DEF FirstIsPaid
    <3>4. CASE SomebodyPays
      <4>1. PICK p \in Requests : \/ request[p].at = "payInvited"
                                  \/ request[p].at = "count" /\ completed = {request[p].subject}
        BY <3>4 DEF SomebodyPays
      <4>2. request'[p] = request[p]
        BY <1>1, <2>1, <4>1
      <4>3. request[p].at = "count" => completed' = {request[p].subject}
        BY <2>1, <3>1, <4>1
      <4>4. SomebodyPays'
        BY <4>1, <4>2, <4>3 DEF SomebodyPays
      <4>5. QED
        BY <4>4 DEF FirstIsPaid
    <3>5. CASE \/ Inviter = 0 \/ Invited # {} \/ reopened # {} \/ troubles > 0
               \/ completed \cap Free # {}
      BY <1>1, <1>2, <2>1, <2>2, <3>5 DEF FirstIsPaid
    <3>6. QED
      BY <3>1, <3>3, <3>4, <3>5 DEF FirstIsPaid
  <2>5. QED
    BY <2>3, <2>4
<1>6. CASE Count(q) \/ PayInviter(q)
  <2>1. UNCHANGED <<completed, crowded, reopened>> /\ Invited \subseteq Invited'
        /\ request[q].at \in {"count", "payInviter"}
    BY <1>6 DEF Count, PayInviter, Credited, rewards, Invited, Rewarded
  <2>2. ASSUME NEW p \in Requests \ {q},
               \/ request[p].at = "payInvited"
               \/ request[p].at = "count" /\ completed = {request[p].subject}
        PROVE  FirstIsPaid'
    BY <1>1, <2>1, <2>2 DEF FirstIsPaid, SomebodyPays
  <2>3. CASE request[q].at = "count" /\ completed = {o}
    <3>1. IsFirst /\ Count(q)
      BY <1>6, <2>3, FS_Singleton DEF IsFirst, PayInviter
    <3>2. CASE Inviter # 0 /\ o \notin Free
      <4>1. request'[q].at = "payInvited"
        BY <3>1, <3>2, GoMoves DEF Count, Points
      <4>2. QED
        BY <4>1 DEF FirstIsPaid, SomebodyPays
    <3>3. CASE Inviter = 0 \/ o \in Free
      BY <1>2, <2>1, <2>3, <3>3 DEF FirstIsPaid
    <3>4. QED
      BY <3>2, <3>3
  <2>4. CASE \/ completed = {} \/ Inviter = 0 \/ Invited # {} \/ crowded \/ reopened # {}
             \/ troubles > 0 \/ completed \cap Free # {}
    BY <1>1, <1>2, <2>1, <2>4 DEF FirstIsPaid
  <2>5. QED
    BY <2>1, <2>2, <2>3, <2>4 DEF FirstIsPaid, SomebodyPays
<1>7. QED
  BY <1>3, <1>4, <1>5, <1>6 DEF OnRewards

\* A referred customer's first order is rewarded, or still being counted, unless one of
\* the listed things came between.
THEOREM OverlapAloneMissesRewards == Spec => []RewardsAreMissedOnlyByOverlap
<1>1. Init => FirstIsPaid
  BY DEF Init, FirstIsPaid
<1>2. ASSUME Inv, FirstIsPaid, [Next]_vars PROVE FirstIsPaid'
  <2>1. CASE ~\E q \in Requests : OnRewards(q)
    BY <1>2, <2>1, AsideSteps, StillPays
  <2>2. ASSUME NEW q \in Requests, OnRewards(q) PROVE FirstIsPaid'
    BY <1>2, <2>2, RewardsKeepPaid
  <2>3. QED
    BY <2>1, <2>2
<1>3. FirstIsPaid => RewardsAreMissedOnlyByOverlap
  BY DEF FirstIsPaid, SomebodyPays, RewardsAreMissedOnlyByOverlap, Invited
<1>4. QED
  BY <1>1, <1>2, <1>3, InvAlways, PTL DEF Spec
=============================================================================
