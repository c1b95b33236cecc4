------------------------------ MODULE Accounts ------------------------------
(***************************************************************************)
(* The users and verification tables under the handlers of auth and users: *)
(* registration by e-mail, by an OAuth provider or by POST users,          *)
(* verification codes, passwords, and the updates of a user, which write   *)
(* back most of the columns that they read.                                *)
(*                                                                         *)
(* Users are numbered as their rows are inserted.  An e-mail address       *)
(* stands for the names too: they are updated together.  What no handler   *)
(* can undo is checked in the step that reads the row.                     *)
(***************************************************************************)
EXTENDS Integers, Sequences, FiniteSets

CONSTANTS
    Emails, FirstEmail,
    ReferralCodes, FirstCode,
    Requests,      \* handler runs, numbered as they start
    MaxInFlight,   \* bound: handlers that overlap
    MaxTroubles    \* bound: failed statements, mails that fail and restarts

ASSUME FirstAssumption == FirstEmail \in Emails /\ FirstCode \in ReferralCodes
ASSUME RequestsAssumption == Requests \subseteq Nat \ {0}
ASSUME BoundsAssumption == MaxInFlight \in Nat /\ MaxTroubles \in Nat

VARIABLES
    users,
    codes,       \* whether a user has been sent a code, and one is still valid
    request,     \* the handlers
    unchecked,   \* history: users whose address was not looked up, or too early
    troubles

accounts == <<users, codes, unchecked>>

\* A password is the number of the request that set it.
NoUser == [email |-> FirstEmail, verified |-> FALSE, active |-> TRUE,
           password |-> 0, code |-> FirstCode, by |-> 0,
           from |-> "earlier"]

\* A handler: its next call, what it is, the user it deals with or the order, its
\* copy of the row, and whether another handler wrote what it had read.
Local(at, doing, subject, row) ==
    [at |-> at, doing |-> doing, subject |-> subject, row |-> row, overtaken |-> FALSE]
Unused == Local("new", "sign-up", 0, NoUser)
Ended == [Unused EXCEPT !.at = "done"]

\* One user, or also a second one who was referred by the first.
AccountsInit ==
    /\ \/ users = <<NoUser>>
       \/ \E m \in Emails \ {FirstEmail}, r \in ReferralCodes \ {FirstCode} :
             users = <<NoUser, [NoUser EXCEPT !.email = m, !.code = r, !.by = 1]>>
    /\ codes = [u \in DOMAIN users |-> "none"]
    /\ request = [q \in Requests |-> Unused]
    /\ unchecked = {}
    /\ troubles = 0

InFlight == {q \in Requests : request[q].at \notin {"new", "done"}}

Start(q, local) ==
    /\ request[q].at = "new"
    /\ \A p \in Requests : p < q => request[p].at # "new"
    /\ Cardinality(InFlight) < MaxInFlight
    /\ request' = [request EXCEPT ![q] = local]

Go(q, at) == request' = [request EXCEPT ![q].at = at]
Finish(q) == request' = [request EXCEPT ![q] = Ended]
-----------------------------------------------------------------------------
(* Registration.                                                           *)

With(email) == {u \in DOMAIN users : users[u].email = email}

\* Mutant of Taken: the look-up for verified users is used.
TakenByVerified(email) == \E u \in With(email) : users[u].verified

Taken(email) == With(email) # {}

\* What is kept of the user in a session with an OAuth provider.
Known(email) == [NoUser EXCEPT !.email = email]

Nobody == "nobody"
Used == {users[u].code : u \in DOMAIN users}

\* Mutant of NewUser: the row of the referrer is not asked for its id.
NewUserOfCode(email, verified, code, named) ==
    {[email |-> email, verified |-> verified, active |-> TRUE, password |-> 0,
      code |-> code, by |-> named, from |-> "earlier"]}

\* A code that nobody has refers to nobody.
NewUser(email, verified, code, named) ==
    {[email |-> email, verified |-> verified, active |-> TRUE, password |-> 0,
      code |-> code, by |-> by, from |-> "earlier"] :
        by \in IF named \in Used THEN {u \in DOMAIN users : users[u].code = named}
                                 ELSE {0}}

\* register looks for a free referral code and for the referrer, and inserts.
Register(q, doing, email, verified, named) ==
    \E code \in ReferralCodes \ Used :
        \E row \in NewUser(email, verified, code, named) :
            Start(q, Local("insert", doing, 0, [row EXCEPT !.password = q, !.from = doing]))

\* signUp takes the customer's word for is_verified; POST users does not look
\* whether the address is known.
SignUp(q, email, verified, named) ==
    /\ ~Taken(email)
    /\ Register(q, "sign-up", email, verified, named)
    /\ UNCHANGED <<accounts, troubles>>

PostUser(q, email, verified, named) ==
    /\ Register(q, "post", email, verified, named)
    /\ UNCHANGED <<accounts, troubles>>

\* The unique index on referral_code stops the second of two equal codes.
CodeIsFree(code) == code \notin Used

Insert(q) ==
    LET row == request[q].row
        id == Len(users) + 1
        next == CASE request[q].doing = "sign-up" -> "mail"
                  [] request[q].doing = "google"  -> "login"
                  [] OTHER -> "done"
        ahead == [p \in Requests |->
            IF request[p].at = "insert" /\ request[p].row.email = row.email
              THEN [request[p] EXCEPT !.overtaken = TRUE] ELSE request[p]]
    IN  /\ request[q].at = "insert"
        /\ IF CodeIsFree(row.code)
             THEN /\ users' = Append(users, row)
                  /\ codes' = Append(codes, "none")
                  /\ request' = [ahead EXCEPT ![q] =
                        IF next = "done" THEN Ended
                                         ELSE Local(next, request[q].doing, id, Known(row.email))]
                  /\ unchecked' = IF request[q].doing = "post" \/ request[q].overtaken
                                    THEN unchecked \cup {id} ELSE unchecked
             ELSE Finish(q) /\ UNCHANGED accounts
        /\ UNCHANGED troubles
-----------------------------------------------------------------------------
(* Codes by mail: at sign-up, to resend one, and for a lost password.      *)

SendCode(q, doing, email) ==
    /\ \E u \in With(email) : Start(q, Local("mail", doing, u, NoUser))
    /\ UNCHANGED <<accounts, troubles>>

\* Neither looks whether the user is verified, or has a code that is still valid.
ResendUserCode(q, email) == SendCode(q, "resend", email)
ForgotPassword(q, email) == SendCode(q, "forgot", email)

\* Mutant of Mail: the code is not kept.
MailOnly(q) ==
    /\ request[q].at = "mail"
    /\ Finish(q)
    /\ UNCHANGED <<accounts, troubles>>

\* The mail goes out before the code is stored: a mail that fails leaves no code.
Mail(q) ==
    /\ request[q].at = "mail"
    /\ Go(q, "store")
    /\ UNCHANGED <<accounts, troubles>>

Store(q) ==
    /\ request[q].at = "store"
    /\ codes' = [codes EXCEPT ![request[q].subject] = "valid"]
    /\ Finish(q)
    /\ UNCHANGED <<users, unchecked, troubles>>

\* Ten minutes after the last code was sent; codes are never consumed.
Expire(u) ==
    /\ codes[u] = "valid"
    /\ codes' = [codes EXCEPT ![u] = "expired"]
    /\ UNCHANGED <<users, request, unchecked, troubles>>
-----------------------------------------------------------------------------
(* Updates.  Each reads the columns that getUserByForVerifyId selects, and *)
(* writes them all: e-mail and names, is_verified and status.              *)

Update(q, doing, u, change) ==
    Start(q, Local("write", doing, u, change))

VerifyUser(q, u) ==
    /\ codes[u] = "valid"
    /\ Update(q, "verify", u, [users[u] EXCEPT !.verified = TRUE])
    /\ UNCHANGED <<accounts, troubles>>

ResetPassword(q, u) ==
    /\ codes[u] = "valid"
    /\ Update(q, "password", u, [users[u] EXCEPT !.password = q])
    /\ UNCHANGED <<accounts, troubles>>

ChangePassword(q, u) ==
    /\ Update(q, "password", u, [users[u] EXCEPT !.password = q])
    /\ UNCHANGED <<accounts, troubles>>

UpdateUser(q, u, email) ==
    /\ Update(q, "update", u, [users[u] EXCEPT !.email = email])
    /\ UNCHANGED <<accounts, troubles>>

ChangeAccountStatus(q, u) ==
    /\ Update(q, "status", u, [users[u] EXCEPT !.active = ~@])
    /\ UNCHANGED <<accounts, troubles>>

\* Mutant of Written: the password is among the selected columns.
WrittenWhole(row, copy, doing) ==
    [row EXCEPT !.email = copy.email, !.verified = copy.verified,
                !.active = copy.active, !.password = copy.password]

\* Mutant of Written: an update makes the account active.
WrittenActive(row, copy, doing) ==
    [row EXCEPT !.email = copy.email, !.verified = copy.verified,
                !.active = IF doing = "status" THEN copy.active ELSE TRUE,
                !.password = IF doing = "password" THEN copy.password ELSE @]

Written(row, copy, doing) ==
    [row EXCEPT !.email = copy.email, !.verified = copy.verified,
                !.active = copy.active,
                !.password = IF doing = "password" THEN copy.password ELSE @]

Write(q) ==
    LET u == request[q].subject
        ahead == [p \in Requests |->
            IF request[p].at = "write" /\ request[p].subject = u
              THEN [request[p] EXCEPT !.overtaken = TRUE] ELSE request[p]]
    IN  /\ request[q].at = "write"
        /\ users' = [users EXCEPT ![u] = Written(@, request[q].row, request[q].doing)]
        /\ request' = [ahead EXCEPT ![q] = Ended]
        /\ unchecked' = IF request[q].doing = "update" THEN unchecked \cup {u} ELSE unchecked
        /\ UNCHANGED <<codes, troubles>>
-----------------------------------------------------------------------------
(* OAuth.                                                                  *)

\* validateAppleUser registers a user of an unknown address, else verifies the user.
LoginApple(q, email) ==
    /\ \/ /\ ~Taken(email)
          /\ Register(q, "apple", email, TRUE, Nobody)
       \/ \E u \in With(email) :
             /\ ~users[u].verified
             /\ Update(q, "verify", u, [users[u] EXCEPT !.verified = TRUE])
    /\ UNCHANGED <<accounts, troubles>>

\* validateGoogleUser registers a user of an unknown address ...
LoginGoogle(q, email) ==
    /\ \/ /\ ~Taken(email)
          /\ Register(q, "google", email, TRUE, Nobody)
       \/ \E u \in With(email) : Start(q, Local("login", "google", u, Known(email)))
    /\ UNCHANGED <<accounts, troubles>>

\* ... and loginGoogle looks for the address again and verifies the user it finds.
Login(q) ==
    LET found == With(request[q].row.email)
    IN  /\ request[q].at = "login"
        /\ \/ /\ found = {} \/ \E u \in found : users[u].verified
              /\ Finish(q)
           \/ \E u \in found :
                /\ ~users[u].verified
                /\ request' = [request EXCEPT ![q] =
                      Local("write", "verify", u, [users[u] EXCEPT !.verified = TRUE])]
        /\ UNCHANGED <<accounts, troubles>>
-----------------------------------------------------------------------------
(* Failures.                                                               *)

\* A statement or the mail server fails, and so does the handler.
Fault(q) ==
    /\ q \in InFlight
    /\ troubles < MaxTroubles
    /\ troubles' = troubles + 1
    /\ Finish(q)
    /\ UNCHANGED accounts

Restart ==
    /\ InFlight # {}
    /\ troubles < MaxTroubles
    /\ troubles' = troubles + 1
    /\ request' = [q \in Requests |-> IF q \in InFlight THEN Ended ELSE request[q]]
    /\ UNCHANGED accounts

AccountsNext ==
    \/ \E q \in Requests :
          \/ \E m \in Emails, v \in BOOLEAN, r \in Used \cup {Nobody} :
                SignUp(q, m, v, r) \/ PostUser(q, m, v, r)
          \/ \E m \in Emails :
                \/ ResendUserCode(q, m) \/ ForgotPassword(q, m)
                \/ LoginApple(q, m) \/ LoginGoogle(q, m)
          \/ \E u \in DOMAIN users :
                \/ VerifyUser(q, u) \/ ResetPassword(q, u) \/ ChangePassword(q, u)
                \/ ChangeAccountStatus(q, u)
                \/ \E m \in Emails : UpdateUser(q, u, m)
          \/ Insert(q) \/ Mail(q) \/ Store(q) \/ Write(q) \/ Login(q) \/ Fault(q)
    \/ \E u \in DOMAIN users : Expire(u)
    \/ Restart
-----------------------------------------------------------------------------
User == [email : Emails, verified : BOOLEAN, active : BOOLEAN,
         password : Requests \cup {0}, code : ReferralCodes, by : DOMAIN users \cup {0},
         from : {"earlier", "sign-up", "post", "google", "apple"}]

\* A password changes only to what a reset or a change of it asked for: the copies
\* that other updates write back do not hold it (users.service.ts:219, 262).
PasswordsSurvive ==
    [][\A u \in DOMAIN users :
          users'[u].password # users[u].password =>
              \E q \in Requests :
                  /\ request[q].at = "write" /\ request[q].doing = "password"
                  /\ request[q].subject = u /\ users'[u].password = q]_<<users, request>>

\* The other columns are not so safe: one that a handler was not asked to change
\* goes back to what it read, if another handler wrote the row meanwhile, and
\* only then.
UpdatesAreLostOnlyByOverlap ==
    [][\A u \in DOMAIN users :
          LET old == users[u]
              new == users'[u]
          IN  new # old =>
                \E q \in Requests :
                    /\ request[q].at = "write" /\ request[q].subject = u
                    /\ \/ request[q].overtaken
                       \/ /\ new.email # old.email => request[q].doing = "update"
                          /\ new.active # old.active => request[q].doing = "status"
                          /\ new.verified # old.verified =>
                                request[q].doing = "verify" /\ new.verified]_<<users, request>>

\* Two accounts have an address in common only when one of them took it without a
\* look-up, or in a registration that overlapped another: no index keeps it out.
\* Their referral codes differ whatever overlaps.
AccountsDiffer ==
    \A u, v \in DOMAIN users :
        u # v => /\ users[u].email = users[v].email => {u, v} \cap unchecked # {}
                 /\ users[u].code # users[v].code

\* Who signed up has been sent a code that is in the table, unless the sign-up is
\* under way, or its mail or a statement failed: then the account exists, signing up
\* again is refused, and only resend-code and forgot-password can help.
SignUpLeavesCode ==
    \A u \in DOMAIN users :
        (users[u].from = "sign-up" /\ codes[u] = "none") =>
            \/ \E q \in Requests : request[q].at \in {"mail", "store"} /\ request[q].subject = u
            \/ troubles > 0
=============================================================================
