---------------------------- MODULE Verification ----------------------------
(***************************************************************************)
(* Verification of one user's e-mail address: the notification service     *)
(* mails links with one-time tokens, the user or somebody else clicks      *)
(* them, the users service learns of it by an event, and a login that is   *)
(* refused has the link sent again                                         *)
(* (apps/notification/src/modules/verification/verification.service.ts).   *)
(*                                                                         *)
(* Requests run concurrently and every action is the code between two      *)
(* awaits: each handler reads a token, decides, and writes what it decided *)
(* without looking again.  Tokens are numbered in the order of their       *)
(* creation.  The code counts an attempt only together with isUsed, so its *)
(* branch for too many attempts on an unused token is never taken and is   *)
(* left out.                                                               *)
(***************************************************************************)
EXTENDS Integers, FiniteSets

CONSTANTS
    Requests,    \* concurrent invocations of the handlers
    MaxTokens,   \* bound: tokens
    MaxSends,    \* bound: registrations and calls of the send endpoint
    MaxExpiries, \* bound: tokens that reach their 24 hours
    MaxCancels,  \* bound: clicks on "It's not me"
    MaxFaults    \* bound: lost mails and events, failed calls and crashes

ASSUME VerificationAssumption ==
    {MaxTokens, MaxSends, MaxExpiries, MaxCancels, MaxFaults} \subseteq Nat

VARIABLES
    status,         \* verification_tokens.status of each token
    used,           \* tokens with isUsed
    expired,        \* tokens whose expiresAt is in the past
    mailed,         \* tokens whose mail has reached the user
    event,          \* VERIFICATION_VERIFIED is on its way
    emailVerified,  \* users.emailVerified
    pc, tok,        \* each request's control, and the token it is about
    missed,         \* history: tokens created since a request's CancelPending
    raced,          \* history: tokens created while their creator missed others
    sends, expiries, cancels, faults    \* what remains of the bounds

tokenVars == <<status, used, expired, mailed>>
userVars  == <<event, emailVerified>>
history   == <<missed, raced>>
boundVars == <<sends, expiries, cancels, faults>>
vars == <<status, used, expired, mailed, event, emailVerified, pc,
          tok, missed, raced, sends, expiries, cancels, faults>>

Tokens == 1..MaxTokens
Pc == {"idle", "cancelPending", "create", "mail", "expire", "verify", "cancel"}

Created == {t \in Tokens : status[t] # "none"}
Valid   == {t \in Tokens : status[t] = "PENDING" /\ t \notin expired}

Init ==
    /\ status = [t \in Tokens |-> "none"]
    /\ used = {} /\ expired = {} /\ mailed = {}
    /\ event = FALSE /\ emailVerified = FALSE
    /\ pc = [r \in Requests |-> "idle"]
    /\ tok = [r \in Requests |-> 0]
    /\ missed = [r \in Requests |-> {}]
    /\ raced = {}
    /\ sends = MaxSends /\ expiries = MaxExpiries
    /\ cancels = MaxCancels /\ faults = MaxFaults

Fault == faults > 0 /\ faults' = faults - 1 /\ UNCHANGED <<sends, expiries, cancels>>

Goto(r, label) == pc' = [pc EXCEPT ![r] = label]

Finish(r) ==
    /\ Goto(r, "idle")
    /\ tok' = [tok EXCEPT ![r] = 0]

SetStatus(t, new) == status' = [status EXCEPT ![t] = new]

-----------------------------------------------------------------------------
(* Sending a link                                                          *)

\* USER_CREATED of a registration, or a call of the send endpoint: whatever
\* links there are, a new one is sent.  USER_CREATED may get lost: nothing
\* requires this action to happen.
Send(r) ==
    /\ pc[r] = "idle"
    /\ sends > 0
    /\ sends' = sends - 1
    /\ Goto(r, "cancelPending")
    /\ UNCHANGED <<tokenVars, userVars, tok, history, expiries, cancels, faults>>

\* The tokens a resend looks at; a verified one is not among them.
Existing == {t \in Tokens : status[t] \in {"PENDING", "EXPIRED", "CANCELLED"}}
Newest(S) == {t \in S : \A s \in S : s <= t}

\* Slip: a pending token counts as valid although it has expired.
NoneIsPending == \A t \in Newest(Existing) : status[t] # "PENDING"

\* When the newest token is still valid, nothing is sent
\* (VERIFICATION_ALREADY_SENT).
MayResend == Newest(Existing) \cap Valid = {}

\* A login of a user who is not verified, or a call of the resend endpoint,
\* which does not look whether he is.
Resend(r) ==
    /\ pc[r] = "idle"
    /\ MayResend
    /\ Goto(r, "cancelPending")
    /\ UNCHANGED <<tokenVars, userVars, tok, history, boundVars>>

\* Slip: only the newest token is cancelled.
CancelNewestOnly(r) ==
    /\ pc[r] = "cancelPending"
    /\ status' = [t \in Tokens |->
                    IF status[t] = "PENDING" /\ t \in Newest(Created)
                    THEN "CANCELLED" ELSE status[t]]
    /\ missed' = [missed EXCEPT ![r] = {}]
    /\ Goto(r, "create")
    /\ UNCHANGED <<used, expired, mailed, userVars, tok, raced, boundVars>>

\* No token is pending now, so that the history can start again.
CancelPending(r) ==
    /\ pc[r] = "cancelPending"
    /\ status' = [t \in Tokens |-> IF status[t] = "PENDING" THEN "CANCELLED"
                                   ELSE status[t]]
    /\ missed' = [q \in Requests |-> {}]
    /\ raced' = {}
    /\ Goto(r, "create")
    /\ UNCHANGED <<used, expired, mailed, userVars, tok, boundVars>>

CreateToken(r) ==
    LET t == Cardinality(Created) + 1
    IN  /\ pc[r] = "create"
        /\ t \in Tokens
        /\ SetStatus(t, "PENDING")
        /\ tok' = [tok EXCEPT ![r] = t]
        /\ missed' = [q \in Requests |-> IF pc[q] = "create" /\ q # r
                                         THEN missed[q] \cup {t} ELSE {}]
        /\ raced' = raced \cup {<<s, t>> : s \in missed[r]}
        /\ Goto(r, "mail")
        /\ UNCHANGED <<used, expired, mailed, userVars, boundVars>>

\* The mail is handed over by an event and may get lost.
SendMail(r) ==
    /\ pc[r] = "mail"
    /\ \/ mailed' = mailed \cup {tok[r]} /\ UNCHANGED boundVars
       \/ Fault /\ UNCHANGED mailed
    /\ Finish(r)
    /\ UNCHANGED <<status, used, expired, userVars, history>>

-----------------------------------------------------------------------------
(* Clicking a link                                                         *)

\* A used or cancelled token is refused.
ClickVerify(r) ==
    /\ pc[r] = "idle"
    /\ \E t \in mailed \ used :
          /\ status[t] \notin {"VERIFIED", "CANCELLED"}
          /\ tok' = [tok EXCEPT ![r] = t]
          /\ Goto(r, IF t \in expired THEN "expire" ELSE "verify")
    /\ UNCHANGED <<tokenVars, userVars, history, boundVars>>

ExpireToken(r) ==
    /\ pc[r] = "expire"
    /\ SetStatus(tok[r], "EXPIRED")
    /\ Finish(r)
    /\ UNCHANGED <<used, expired, mailed, userVars, history, boundVars>>

\* Slip: the event is not emitted.
MarkVerifiedSilently(r) ==
    /\ pc[r] = "verify"
    /\ SetStatus(tok[r], "VERIFIED")
    /\ used' = used \cup {tok[r]}
    /\ Finish(r)
    /\ UNCHANGED <<expired, mailed, userVars, history, boundVars>>

\* The token becomes used, and the users service is told by an event.
MarkVerified(r) ==
    /\ pc[r] = "verify"
    /\ SetStatus(tok[r], "VERIFIED")
    /\ used' = used \cup {tok[r]}
    /\ event' = TRUE
    /\ Finish(r)
    /\ UNCHANGED <<expired, mailed, emailVerified, history, boundVars>>

\* markEmailAsVerified of the users service.
HandleVerified ==
    /\ event
    /\ event' = FALSE
    /\ emailVerified' = TRUE
    /\ UNCHANGED <<tokenVars, pc, tok, history, boundVars>>

\* "It's not me".
ClickCancel(r) ==
    /\ pc[r] = "idle"
    /\ cancels > 0
    /\ cancels' = cancels - 1
    /\ \E t \in mailed :
          /\ status[t] \notin {"VERIFIED", "CANCELLED"}
          /\ tok' = [tok EXCEPT ![r] = t]
    /\ Goto(r, "cancel")
    /\ UNCHANGED <<tokenVars, userVars, history, sends, expiries, faults>>

\* Nobody listens to VERIFICATION_CANCELLED.
MarkCancelled(r) ==
    /\ pc[r] = "cancel"
    /\ SetStatus(tok[r], "CANCELLED")
    /\ Finish(r)
    /\ UNCHANGED <<used, expired, mailed, userVars, history, boundVars>>

-----------------------------------------------------------------------------
(* Time and failures                                                       *)

\* The 24 hours of a token run out; they matter while it is pending.
Expire(t) ==
    /\ t \in Valid
    /\ expiries > 0
    /\ expiries' = expiries - 1
    /\ expired' = expired \cup {t}
    /\ UNCHANGED <<status, used, mailed, userVars, pc, tok, history, sends,
                   cancels, faults>>

\* An event is lost, or its handler fails, which comes to the same.
LoseEvent ==
    /\ Fault
    /\ event
    /\ event' = FALSE
    /\ UNCHANGED <<tokenVars, emailVerified, pc, tok, history>>

\* A request fails at its next call, or the service crashes with it.
Fail(r) ==
    /\ pc[r] # "idle"
    /\ Fault
    /\ Finish(r)
    /\ UNCHANGED <<tokenVars, userVars, history>>

-----------------------------------------------------------------------------
Step(r) ==
    \/ CancelPending(r) \/ CreateToken(r) \/ SendMail(r)
    \/ ExpireToken(r) \/ MarkVerified(r) \/ MarkCancelled(r)

Next ==
    \/ \E r \in Requests : \/ Send(r) \/ Resend(r) \/ ClickVerify(r)
                           \/ ClickCancel(r) \/ Step(r) \/ Fail(r)
    \/ \E t \in Tokens : Expire(t)
    \/ HandleVerified
    \/ LoseEvent

Spec == Init /\ [][Next]_vars

-----------------------------------------------------------------------------
(* Properties                                                              *)

\* Types; a request is about a token exactly while it has one to work on.
TypeOK ==
    /\ status \in [Tokens -> {"none", "PENDING", "VERIFIED", "CANCELLED",
                              "EXPIRED"}]
    /\ used \subseteq Created
    /\ expired \subseteq Created
    /\ mailed \subseteq Created
    /\ {event, emailVerified} \subseteq BOOLEAN
    /\ pc \in [Requests -> Pc]
    /\ tok \in [Requests -> 0..MaxTokens]
    /\ \A r \in Requests : IF pc[r] \in {"idle", "cancelPending", "create"}
                           THEN tok[r] = 0 ELSE tok[r] \in Created
    /\ missed \in [Requests -> SUBSET Created]
    /\ raced \subseteq Created \X Created
    /\ <<sends, expiries, cancels, faults>> \in
           (0..MaxSends) \X (0..MaxExpiries) \X (0..MaxCancels) \X (0..MaxFaults)

\* A new link takes the place of the older ones: two links can be used side
\* by side only when the request for the later one had done its cancelling
\* before the earlier one came into being.
OnlyRacingLinksCoexist ==
    \A s, t \in Tokens :
        /\ s < t
        /\ status[s] = "PENDING"
        /\ status[t] = "PENDING"
        => <<s, t>> \in raced

\* The two services agree: as long as no event was lost, an address is
\* verified in one when a token is used in the other.
ServicesAgree ==
    /\ emailVerified \/ event => used # {}
    /\ faults = MaxFaults /\ used # {} => event \/ emailVerified

\* Nobody is left without a way to get verified: while an address is not
\* verified, no event is on its way and no request is in progress, the user
\* has a link that works, or a login sends him one.  (A mail that was lost
\* does leave him alone until its token expires.)
NeverStuck ==
    /\ faults = MaxFaults
    /\ ~emailVerified
    /\ ~event
    /\ \A r \in Requests : pc[r] = "idle"
    => Valid \cap mailed # {} \/ MayResend
=============================================================================
