------------------------------ MODULE Accounts ------------------------------
(***************************************************************************)
(* What hangs on an account of the users service: guests and their         *)
(* conversion, the devices that get pushes, the reset of a forgotten       *)
(* password with the notification service, and the terms of use            *)
(* (users.service.ts, password-reset.service.ts, terms.service.ts).        *)
(*                                                                         *)
(* Each operation looks something up and writes later, and few of the      *)
(* look-ups are backed by a key of the database.  Requests overlap; an     *)
(* action is the code between two awaits, where several checks in a row    *)
(* are read in one.  A behaviour is about one focus.                       *)
(***************************************************************************)
EXTENDS Integers, FiniteSets

CONSTANTS
    Requests,     \* concurrent requests
    Users, Phones,
    Rows,         \* ids of device rows
    Links,        \* reset tokens
    Versions,     \* versions of the terms of one city and locale
    MaxRequests,  \* bound: requests in a behaviour
    MaxTokens,    \* bound: push tokens a phone gets, one after the other
    MaxFailures   \* bound: failed calls, crashes and lost events

None == "none"

ASSUME AccountsAssumption ==
    /\ MaxRequests \in Nat /\ MaxTokens \in Nat \ {0} /\ MaxFailures \in Nat
    /\ None \notin Users \cup Phones \cup Rows \cup Links

VARIABLES
    focus,     \* "guests", "devices", "reset" or "terms"
    users,     \* the accounts that exist: [id -> phone, type, deleted]
    token,     \* each phone: the number of its push token
    devices,   \* the device rows that exist: [id -> user, phone, token, active]
    links,     \* the reset tokens that exist: [link -> status, used]
    old,       \* reset tokens that have expired
    asked,     \* PASSWORD_RESET_REQUESTED events on their way
    marks,     \* PASSWORD_RESET_MARK_USED events on their way
    latest,    \* the versions of the terms that exist: [version -> isLatest]
    req,       \* each request: where it is, what it is about, what it found
    raced,     \* history: what two requests were about at once
    refused,   \* history: phones refused a guest, though no two requests were
               \* about the phone at once and its account is a guest's
    unnamed,   \* history: phones that registered without their device id
    last,      \* history: each phone: who registered it last, with what token
    cutOff,    \* history: phones whose last registration the log-out of
               \* another user has switched off
    uses,      \* history: each link: passwords it has changed
    left, failures    \* what remains of the bounds

deviceVars == <<token, devices, unnamed, last, cutOff>>
resetVars  == <<links, old, asked, marks, uses>>
guestVars  == <<users, refused>>
accountsVars ==
    <<focus, guestVars, deviceVars, resetVars, latest, req, raced, left, failures>>

Idle == [at |-> "idle"]
NoLogin == [user |-> None, token |-> <<>>]

-----------------------------------------------------------------------------
AccountsInit ==
    /\ focus \in {"guests", "devices", "reset", "terms"}
    /\ users = IF focus = "guests" THEN <<>>
               ELSE [u \in Users |-> [phone |-> None, type |-> "REGISTERED", deleted |-> FALSE]]
    /\ token = [p \in Phones |-> 1]
    /\ devices = <<>>
    /\ links = <<>>
    /\ old = {}
    /\ asked = 0
    /\ marks = {}
    /\ latest = <<>>
    /\ req = [r \in Requests |-> Idle]
    /\ raced = {}
    /\ refused = {}
    /\ unnamed = {}
    /\ last = [p \in Phones |-> NoLogin]
    /\ cutOff = {}
    /\ uses = [l \in Links |-> 0]
    /\ left = MaxRequests
    /\ failures = MaxFailures

\* A table with a row more.
Plus(table, x, row) ==
    [y \in DOMAIN table \cup {x} |-> IF y = x THEN row ELSE table[y]]

\* Ids are not given twice: none that a request still holds.
Unheld(S) ==
    {x \in S : \A q \in Requests :
        req[q] = Idle \/ (req[q].on # x /\ (req[q].at \in {"transfer", "deactivate"} => req[q].row # x))}

\* Another request is about x.
Busy(r, x) == \E q \in Requests \ {r} : req[q] # Idle /\ req[q].on = x

\* x is remembered if two have met about it.
Race(x, met) == raced' = IF met THEN raced \cup {x} ELSE raced

\* A request about x arrives and goes on with what it has found, or is done.
Begin(r, x, found) ==
    /\ req[r] = Idle
    /\ left > 0
    /\ left' = left - 1
    /\ req' = [req EXCEPT ![r] = found]
    /\ UNCHANGED <<focus, failures>>

At(r, label) == req[r] # Idle /\ req[r].at = label

GoOn(r, found) == req' = [req EXCEPT ![r] = found] /\ UNCHANGED <<focus, left, failures>>

Done(r) == GoOn(r, Idle) /\ UNCHANGED raced

\* A call fails or the service crashes: the request ends where it is.
Fail(r) ==
    /\ req[r] # Idle
    /\ failures > 0
    /\ failures' = failures - 1
    /\ req' = [req EXCEPT ![r] = Idle]
    /\ UNCHANGED <<focus, guestVars, deviceVars, resetVars, latest, raced, left>>

-----------------------------------------------------------------------------
(* Guests                                                                  *)

OnlyUsers == UNCHANGED <<deviceVars, resetVars, latest>>

GuestsOf(p) ==
    {u \in DOMAIN users : users[u].phone = p /\ users[u].type = "GUEST" /\ ~users[u].deleted}

\* A guest that exists is returned.
CreateGuest(r) ==
    /\ focus = "guests"
    /\ \E p \in Phones :
          /\ Begin(r, p, IF GuestsOf(p) # {} THEN Idle ELSE [at |-> "insertGuest", on |-> p])
          /\ Race(p, Busy(r, p))
    /\ UNCHANGED guestVars
    /\ OnlyUsers

\* The database keeps phones unique among all accounts.
InsertGuest(r) ==
    LET p == req[r].on
    IN  /\ At(r, "insertGuest")
        /\ IF \E u \in DOMAIN users : users[u].phone = p
           THEN /\ refused' = refused \cup
                      {x \in {p} \ raced : GuestsOf(x) # {}}
                /\ UNCHANGED users
           ELSE /\ \E u \in Unheld(Users \ DOMAIN users) :
                      users' = Plus(users, u, [phone |-> p, type |-> "GUEST", deleted |-> FALSE])
                /\ UNCHANGED refused
        /\ Done(r)
        /\ OnlyUsers

\* The account is a guest's, e-mail and user name are free.
ConvertGuestToUser(r) ==
    /\ focus = "guests"
    /\ \E u \in {x \in DOMAIN users : users[x].type = "GUEST"} :
          Begin(r, u, [at |-> "convert", on |-> u])
    /\ UNCHANGED <<guestVars, raced>>
    /\ OnlyUsers

\* The phone stays.  The account may be gone, the e-mail taken.
WriteConversion(r) ==
    LET u == req[r].on
    IN  /\ At(r, "convert")
        /\ \/ u \in DOMAIN users /\ users' = [users EXCEPT ![u].type = "REGISTERED"]
           \/ UNCHANGED users
        /\ Done(r)
        /\ UNCHANGED refused
        /\ OnlyUsers

\* Administrators delete softly, and restore.
SoftDelete(r) ==
    /\ focus = "guests"
    /\ \E u \in DOMAIN users :
          /\ Begin(r, u, Idle)
          /\ users' = [users EXCEPT ![u].deleted = TRUE]
    /\ UNCHANGED <<refused, raced>>
    /\ OnlyUsers

Restore(r) ==
    /\ focus = "guests"
    /\ \E u \in {x \in DOMAIN users : users[x].deleted} :
          /\ Begin(r, u, Idle)
          /\ users' = [users EXCEPT ![u].deleted = FALSE]
          /\ Race(users[u].phone, Busy(r, users[u].phone))
    /\ UNCHANGED refused
    /\ OnlyUsers

PermanentDeleteAccount(r) ==
    /\ focus \in {"guests", "devices"}
    /\ \E u \in DOMAIN users : Begin(r, u, [at |-> "erase", on |-> u])
    /\ UNCHANGED <<guestVars, raced>>
    /\ OnlyUsers

\* One transaction: the account and its devices.
Erase(r) ==
    LET u == req[r].on
        kept == {d \in DOMAIN devices : devices[d].user # u}
    IN  /\ At(r, "erase")
        /\ IF u \in DOMAIN users
           THEN /\ users' = [x \in DOMAIN users \ {u} |-> users[x]]
                /\ devices' = [d \in kept |-> devices[d]]
                /\ last' = [p \in Phones |->
                              IF last[p].user = u THEN NoLogin ELSE last[p]]
           ELSE UNCHANGED <<users, devices, last>>
        /\ Done(r)
        /\ UNCHANGED <<refused, token, unnamed, cutOff, resetVars, latest>>

-----------------------------------------------------------------------------
(* Devices                                                                 *)

OnlyDevices == UNCHANGED <<guestVars, resetVars, latest>>

\* External: the messaging service gives a phone a new token for its old one.
RotateToken(p) ==
    /\ focus = "devices"
    /\ token[p] < MaxTokens
    /\ token' = [token EXCEPT ![p] = @ + 1]
    /\ UNCHANGED <<focus, devices, unnamed, last, cutOff, req, raced, left, failures>>
    /\ OnlyDevices

RowsWith(t) == {d \in DOMAIN devices : devices[d].token = t}
RowsOf(p) == {d \in DOMAIN devices : devices[d].phone = p}

\* The key of the database: one row per push token.
FreeToken(t, row) == \A d \in RowsWith(t) : d = row

\* By token first; without a row of the token, by device id if there is one.
RegisterDevice(r) ==
    /\ focus = "devices"
    /\ \E u \in Users, p \in Phones, named \in BOOLEAN :
          LET t == <<p, token[p]>>
              next == IF RowsWith(t) # {} THEN "reuse" ELSE IF named THEN "lookup" ELSE "insert"
          IN  /\ Begin(r, p, [at |-> next, on |-> p, user |-> u, token |-> t, row |-> None,
                              phone |-> IF named THEN p ELSE None])
              /\ unnamed' = IF named THEN unnamed ELSE unnamed \cup {p}
              /\ Race(p, Busy(r, p))
    /\ UNCHANGED <<token, devices, last, cutOff>>
    /\ OnlyDevices

FindByDeviceId(r) ==
    /\ At(r, "lookup")
    /\ IF RowsOf(req[r].on) = {} THEN GoOn(r, [req[r] EXCEPT !.at = "insert"])
       ELSE \E d \in RowsOf(req[r].on) : GoOn(r, [req[r] EXCEPT !.at = "transfer", !.row = d])
    /\ UNCHANGED <<raced, deviceVars>>
    /\ OnlyDevices

Registered(r) ==
    /\ last' = [last EXCEPT ![req[r].on] = [user |-> req[r].user, token |-> req[r].token]]
    /\ cutOff' = cutOff \ {req[r].on}

\* Slip: a device that was logged out stays so.
OwnedButInactive(q, x) == [user |-> q.user, token |-> q.token, active |-> x.active,
                           phone |-> IF q.phone = None THEN x.phone ELSE q.phone]

\* A row goes to the new user and is active again.
Owned(q, x) == [user |-> q.user, token |-> q.token, active |-> TRUE,
                phone |-> IF q.phone = None THEN x.phone ELSE q.phone]

\* The row may be gone.
ReuseRow(r) ==
    /\ At(r, "reuse")
    /\ IF RowsWith(req[r].token) = {} THEN UNCHANGED <<devices, last, cutOff>>
       ELSE /\ \E d \in RowsWith(req[r].token) :
                  devices' = [devices EXCEPT ![d] = Owned(req[r], @)]
            /\ Registered(r)
    /\ Done(r)
    /\ UNCHANGED <<token, unnamed>>
    /\ OnlyDevices

\* The row may be gone, or another have the token.
TransferRow(r) ==
    LET d == req[r].row
    IN  /\ At(r, "transfer")
        /\ IF d \in DOMAIN devices /\ FreeToken(req[r].token, d)
           THEN devices' = [devices EXCEPT ![d] = Owned(req[r], @)] /\ Registered(r)
           ELSE UNCHANGED <<devices, last, cutOff>>
        /\ Done(r)
        /\ UNCHANGED <<token, unnamed>>
        /\ OnlyDevices

InsertRow(r) ==
    /\ At(r, "insert")
    /\ IF ~FreeToken(req[r].token, None) THEN UNCHANGED <<devices, last, cutOff>>
       ELSE /\ \E d \in Unheld(Rows \ DOMAIN devices) :
                  devices' = Plus(devices, d, Owned(req[r], [phone |-> None, active |-> TRUE]))
            /\ Registered(r)
    /\ Done(r)
    /\ UNCHANGED <<token, unnamed>>
    /\ OnlyDevices

\* Slip: anyone's row is found.
DevicesOfAnyone(u) == DOMAIN devices

DevicesOf(u) == {d \in DOMAIN devices : devices[d].user = u}

\* A log-out: by device id or by the id of the row, but a row of the user's.
DeleteDevice(r) ==
    /\ focus = "devices"
    /\ \E u \in Users : \E d \in DevicesOf(u) :
          LET p == devices[d].token[1]
          IN  /\ Begin(r, p, [at |-> "deactivate", on |-> p, user |-> u, row |-> d])
              /\ Race(p, Busy(r, p))
    /\ UNCHANGED deviceVars
    /\ OnlyDevices

\* By its id alone, whoever has the row by now.  Of a log-out and a registration
\* of one user that overlap, the one written later counts.
Deactivate(r) ==
    LET d == req[r].row
        p == req[r].on
        current == last[p].token = devices[d].token
        own == devices[d].user = req[r].user
    IN  /\ At(r, "deactivate")
        /\ IF d \in DOMAIN devices
           THEN /\ devices' = [devices EXCEPT ![d].active = FALSE]
                /\ last' = IF current /\ own THEN [last EXCEPT ![p] = NoLogin] ELSE last
                /\ cutOff' = IF current /\ ~own THEN cutOff \cup {p} ELSE cutOff
           ELSE UNCHANGED <<devices, last, cutOff>>
        /\ Done(r)
        /\ UNCHANGED <<token, unnamed>>
        /\ OnlyDevices

-----------------------------------------------------------------------------
(* The reset of one user's password                                        *)

OnlyReset == UNCHANGED <<guestVars, deviceVars, latest>>

RequestPasswordReset(r) ==
    /\ focus = "reset"
    /\ Begin(r, None, Idle)
    /\ asked' = asked + 1
    /\ UNCHANGED <<links, old, marks, uses, raced>>
    /\ OnlyReset

Open == {l \in DOMAIN links : links[l].status = "PENDING"}

\* The notification service cancels the open links, then makes a new one.
SendPasswordResetEmail(r) ==
    /\ asked > 0
    /\ req[r] = Idle
    /\ asked' = asked - 1
    /\ links' = [l \in DOMAIN links |->
                   IF l \in Open THEN [links[l] EXCEPT !.status = "CANCELLED"] ELSE links[l]]
    /\ GoOn(r, [at |-> "newLink", on |-> "mail"])
    /\ Race("mail", Busy(r, "mail"))
    /\ UNCHANGED <<old, marks, uses>>
    /\ OnlyReset

CreateLink(r) ==
    /\ At(r, "newLink")
    /\ \E l \in Links \ DOMAIN links :
          links' = Plus(links, l, [status |-> "PENDING", used |-> FALSE])
    /\ Done(r)
    /\ UNCHANGED <<old, asked, marks, uses>>
    /\ OnlyReset

\* Slip: only what was cancelled is refused.
NotCancelled(l) == links[l].status # "CANCELLED"

Usable(l) == ~links[l].used /\ links[l].status \notin {"USED", "CANCELLED"}

\* The link is verified by a call to the notification service.
ResetPassword(r) ==
    /\ focus = "reset"
    /\ \E l \in DOMAIN links :
          /\ Begin(r, l, IF ~Usable(l) THEN Idle
                         ELSE [at |-> IF l \in old THEN "expire" ELSE "change", on |-> l])
          /\ Race(l, Busy(r, l) \/ l \in marks)
    /\ UNCHANGED resetVars
    /\ OnlyReset

MarkExpired(r) ==
    /\ At(r, "expire")
    /\ links' = [links EXCEPT ![req[r].on].status = "EXPIRED"]
    /\ Done(r)
    /\ UNCHANGED <<old, asked, marks, uses>>
    /\ OnlyReset

\* The password is written, the event that marks the link is emitted.
ChangePassword(r) ==
    /\ At(r, "change")
    /\ uses' = [uses EXCEPT ![req[r].on] = @ + 1]
    /\ marks' = marks \cup {req[r].on}
    /\ Done(r)
    /\ UNCHANGED <<links, old, asked>>
    /\ OnlyReset

MarkTokenAsUsed(l) ==
    /\ l \in marks
    /\ marks' = marks \ {l}
    /\ links' = [links EXCEPT ![l] = [status |-> "USED", used |-> TRUE]]
    /\ UNCHANGED <<focus, old, asked, uses, req, raced, left, failures>>
    /\ OnlyReset

\* External: an event is lost; or the service died before it was emitted.
LoseMark(l) ==
    /\ l \in marks
    /\ failures > 0
    /\ failures' = failures - 1
    /\ marks' = marks \ {l}
    /\ Race(l, TRUE)
    /\ UNCHANGED <<focus, links, old, asked, uses, req, left>>
    /\ OnlyReset

LoseRequest ==
    /\ asked > 0
    /\ failures > 0
    /\ failures' = failures - 1
    /\ asked' = asked - 1
    /\ UNCHANGED <<focus, links, old, marks, uses, req, raced, left>>
    /\ OnlyReset

\* An hour has passed.
ExpireLink(l) ==
    /\ l \in DOMAIN links \ old
    /\ old' = old \cup {l}
    /\ UNCHANGED <<focus, links, asked, marks, uses, req, raced, left, failures>>
    /\ OnlyReset

-----------------------------------------------------------------------------
(* Terms of use, of one locale and city                                    *)

OnlyTerms == UNCHANGED <<guestVars, deviceVars, resetVars>>

TermsRequest(r, found) == Begin(r, "terms", found) /\ Race("terms", Busy(r, "terms"))

\* A version that exists is refused.
CreateTerms(r) ==
    /\ focus = "terms"
    /\ \E v \in Versions \ DOMAIN latest, isLatest \in BOOLEAN :
          TermsRequest(r, [at |-> IF isLatest THEN "unmark" ELSE "createTerms", on |-> "terms",
                           version |-> v, isLatest |-> isLatest, then |-> "createTerms"])
    /\ UNCHANGED latest
    /\ OnlyTerms

\* isLatest may be left as it is.
UpdateTerms(r) ==
    /\ focus = "terms"
    /\ \E v \in DOMAIN latest, isLatest \in BOOLEAN :
          TermsRequest(r, [at |-> IF isLatest THEN "unmark" ELSE "updateTerms", on |-> "terms",
                           version |-> v, isLatest |-> isLatest, then |-> "updateTerms"])
    /\ UNCHANGED latest
    /\ OnlyTerms

\* Slip: an update leaves the others.
UnmarkForCreation(r) ==
    IF req[r].then = "createTerms" THEN [v \in DOMAIN latest |-> FALSE] ELSE latest

\* All others of the locale and city.
Unmarked(r) == [v \in DOMAIN latest |-> latest[v] /\ v = req[r].version]

Unmark(r) ==
    /\ At(r, "unmark")
    /\ latest' = Unmarked(r)
    /\ GoOn(r, [req[r] EXCEPT !.at = req[r].then])
    /\ UNCHANGED raced
    /\ OnlyTerms

\* The database keeps versions unique.
WriteTerms(r) ==
    LET v == req[r].version
    IN  /\ \/ /\ At(r, "createTerms")
              /\ latest' = IF v \in DOMAIN latest THEN latest ELSE Plus(latest, v, req[r].isLatest)
           \/ /\ At(r, "updateTerms")
              /\ latest' = [latest EXCEPT ![v] = req[r].isLatest]
        /\ Done(r)
        /\ OnlyTerms

-----------------------------------------------------------------------------
Step(r) ==
    \/ Fail(r)
    \/ CreateGuest(r) \/ InsertGuest(r) \/ ConvertGuestToUser(r) \/ WriteConversion(r)
    \/ SoftDelete(r) \/ Restore(r) \/ PermanentDeleteAccount(r) \/ Erase(r)
    \/ RegisterDevice(r) \/ FindByDeviceId(r) \/ ReuseRow(r) \/ TransferRow(r) \/ InsertRow(r)
    \/ DeleteDevice(r) \/ Deactivate(r)
    \/ RequestPasswordReset(r) \/ SendPasswordResetEmail(r) \/ CreateLink(r)
    \/ ResetPassword(r) \/ MarkExpired(r) \/ ChangePassword(r)
    \/ CreateTerms(r) \/ UpdateTerms(r) \/ Unmark(r) \/ WriteTerms(r)

AccountsNext ==
    \/ \E r \in Requests : Step(r)
    \/ \E p \in Phones : RotateToken(p)
    \/ \E l \in Links : MarkTokenAsUsed(l) \/ LoseMark(l) \/ ExpireLink(l)
    \/ LoseRequest

AccountsSpec == AccountsInit /\ [][AccountsNext]_accountsVars

-----------------------------------------------------------------------------
(* Properties                                                              *)

Account   == [phone : Phones \cup {None}, type : {"GUEST", "REGISTERED"}, deleted : BOOLEAN]
PushToken == Phones \X (1..MaxTokens)
Device    == [user : Users, phone : Phones \cup {None}, token : PushToken, active : BOOLEAN]
ResetLink == [status : {"PENDING", "USED", "EXPIRED", "CANCELLED"}, used : BOOLEAN]
LastLogin == [user : Users, token : PushToken] \cup {NoLogin}

Found ==
    {Idle}
    \cup [at : {"insertGuest"}, on : Phones]
    \cup [at : {"convert", "erase"}, on : Users]
    \cup [at : {"reuse", "lookup", "transfer", "insert"}, on : Phones, user : Users,
          token : PushToken, row : Rows \cup {None}, phone : Phones \cup {None}]
    \cup [at : {"deactivate"}, on : Phones, user : Users, row : Rows]
    \cup [at : {"newLink"}, on : {"mail"}]
    \cup [at : {"expire", "change"}, on : Links]
    \cup [at : {"unmark", "createTerms", "updateTerms"}, on : {"terms"}, version : Versions,
          isLatest : BOOLEAN, then : {"createTerms", "updateTerms"}]

\* Types; no two device rows have the same push token, and what is under way
\* is about links that exist.
AccountsTypeOK ==
    /\ focus \in {"guests", "devices", "reset", "terms"}
    /\ DOMAIN users \subseteq Users
    /\ users \in [DOMAIN users -> Account]
    /\ token \in [Phones -> 1..MaxTokens]
    /\ DOMAIN devices \subseteq Rows
    /\ devices \in [DOMAIN devices -> Device]
    /\ \A d, e \in DOMAIN devices : devices[d].token = devices[e].token => d = e
    /\ DOMAIN links \subseteq Links
    /\ links \in [DOMAIN links -> ResetLink]
    /\ old \cup marks \subseteq DOMAIN links
    /\ asked \in 0..MaxRequests
    /\ DOMAIN latest \subseteq Versions
    /\ latest \in [DOMAIN latest -> BOOLEAN]
    /\ req \in [Requests -> Found]
    /\ raced \subseteq Phones \cup Links \cup {"mail", "terms"}
    /\ refused \cup unnamed \cup cutOff \subseteq Phones
    /\ last \in [Phones -> LastLogin]
    /\ uses \in [Links -> Nat]
    /\ left \in 0..MaxRequests
    /\ failures \in 0..MaxFailures

OneRowPerPhone ==
    \A p \in Phones \ (raced \cup unnamed) : Cardinality(RowsOf(p)) <= 1

OneOpenLink == "mail" \in raced \/ Cardinality(Open) <= 1

OneLatest == "terms" \in raced \/ Cardinality({v \in DOMAIN latest : latest[v]}) <= 1

OneGuest == refused = {}

\* The state is well typed, and what should exist once though no key of the
\* database says so does exist once, whatever fails, unless two requests about it
\* overlapped: the device row of a phone that names itself, the open reset link
\* of a user, the latest terms of a locale and city.  And a phone that has a
\* guest gets that one: the key on phones refuses it another only after its
\* guest was converted or deleted.
OneOfEach == AccountsTypeOK /\ OneGuest /\ OneRowPerPhone /\ OneOpenLink /\ OneLatest

\* Pushes reach whoever registered on a phone last, through any changes of
\* users and push tokens, until he logs the device out himself or deletes his
\* account.  There is one way to lose them: the log-out of another user found
\* the row before this one registered, and switched it off after.  It needs
\* requests about the phone that overlap, and lasts until it registers again.
PushFollowsLogin ==
    \A p \in Phones :
        /\ last[p] # NoLogin =>
              \E d \in RowsWith(last[p].token) :
                  /\ devices[d].user = last[p].user
                  /\ devices[d].active \/ p \in cutOff
        /\ p \in cutOff => p \in raced

\* A reset link changes a password once, unless it is used again while the
\* first use is under way or before the event that marks it has arrived.
LinkWorksOnce == \A l \in Links \ raced : uses[l] <= 1
=============================================================================
