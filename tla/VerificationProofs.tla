-------------------------- MODULE VerificationProofs --------------------------
(***************************************************************************)
(* Proofs about the verification of an address, for any number of requests *)
(* and any values of the bounds, and about the client that publishes its   *)
(* events, for any number of events, connections and troubles.             *)
(***************************************************************************)
EXTENDS Verification, EventClient, FiniteSetTheorems, SequenceTheorems, TLAPS

\* Statuses change, but a token that has been created stays.
LEMMA StatusIsKept ==
    ASSUME TypeOK, NEW t \in Tokens, NEW new \in {"PENDING", "VERIFIED", "CANCELLED", "EXPIRED"},
           SetStatus(t, new)
    PROVE  /\ status' \in [Tokens -> {"none", "PENDING", "VERIFIED", "CANCELLED", "EXPIRED"}]
           /\ Created' = Created \cup {t}
           /\ \A s \in Tokens : s # t => status'[s] = status[s]
           /\ status'[t] = new
BY DEF TypeOK, SetStatus, Created

\* Every reachable state of the verification is well typed, and a request is about
\* a token that exists.
THEOREM TypeCorrect == Spec => []TypeOK
<1>1. Init => TypeOK
  <2> SUFFICES ASSUME Init PROVE TypeOK
    OBVIOUS
  <2> USE DEF Init
  <2>1. /\ Created = {} /\ pc \in [Requests -> Pc] /\ tok \in [Requests -> 0..MaxTokens]
        /\ status \in [Tokens -> {"none", "PENDING", "VERIFIED", "CANCELLED", "EXPIRED"}]
    BY VerificationAssumption DEF Created, Pc
  <2>2. <<sends, expiries, cancels, faults>> \in
           (0..MaxSends) \X (0..MaxExpiries) \X (0..MaxCancels) \X (0..MaxFaults)
    BY VerificationAssumption
  <2>3. {event, emailVerified} \subseteq BOOLEAN
    OBVIOUS
  <2> QED
    BY <2>1, <2>2, <2>3 DEF TypeOK
<1>2. TypeOK /\ [Next]_vars => TypeOK'
  <2> SUFFICES ASSUME TypeOK, [Next]_vars
               PROVE  TypeOK'
    OBVIOUS
  <2> USE VerificationAssumption DEF Goto, Finish, Fault, tokenVars, userVars, history,
          boundVars
  <2>1. ASSUME NEW r \in Requests, Send(r) \/ Resend(r) PROVE TypeOK'
    BY <2>1 DEF Send, Resend, TypeOK, Pc, Created
  <2>2. ASSUME NEW r \in Requests, CancelPending(r) PROVE TypeOK'
    <3>1. /\ Created' = Created
          /\ status' \in [Tokens -> {"none", "PENDING", "VERIFIED", "CANCELLED", "EXPIRED"}]
      BY <2>2 DEF CancelPending, Created, TypeOK
    <3> QED
      BY <2>2, <3>1 DEF CancelPending, TypeOK, Pc
  <2>3. ASSUME NEW r \in Requests, CreateToken(r) PROVE TypeOK'
    <3>1. PICK t \in Tokens :
            /\ pc[r] = "create" /\ SetStatus(t, "PENDING")
            /\ tok' = [tok EXCEPT ![r] = t]
            /\ missed' = [q \in Requests |-> IF pc[q] = "create" /\ q # r
                                             THEN missed[q] \cup {t} ELSE {}]
            /\ raced' = raced \cup {<<s, t>> : s \in missed[r]}
            /\ Goto(r, "mail")
            /\ UNCHANGED <<used, expired, mailed, userVars, boundVars>>
      BY <2>3 DEF CreateToken
    <3>2. /\ Created' = Created \cup {t}
          /\ status' \in [Tokens -> {"none", "PENDING", "VERIFIED", "CANCELLED", "EXPIRED"}]
      BY <3>1, StatusIsKept
    <3>3. missed' \in [Requests -> SUBSET Created']
      BY <3>1, <3>2 DEF TypeOK
    <3>4. raced' \subseteq Created' \X Created'
      BY <3>1, <3>2 DEF TypeOK
    <3>5. \A q \in Requests : IF pc'[q] \in {"idle", "cancelPending", "create"}
                              THEN tok'[q] = 0 ELSE tok'[q] \in Created'
      BY <3>1, <3>2 DEF TypeOK
    <3>6. tok' \in [Requests -> 0..MaxTokens] /\ pc' \in [Requests -> Pc]
      BY <3>1 DEF TypeOK, Pc, Tokens
    <3>7. /\ used' \subseteq Created' /\ expired' \subseteq Created' /\ mailed' \subseteq Created'
          /\ {event, emailVerified}' \subseteq BOOLEAN
      BY <3>1, <3>2 DEF TypeOK
    <3>8. <<sends, expiries, cancels, faults>>' \in
             (0..MaxSends) \X (0..MaxExpiries) \X (0..MaxCancels) \X (0..MaxFaults)
      BY <3>1 DEF TypeOK
    <3> QED
      BY <3>2, <3>3, <3>4, <3>5, <3>6, <3>7, <3>8 DEF TypeOK
  <2>4. ASSUME NEW r \in Requests, SendMail(r) PROVE TypeOK'
    <3>1. Created' = Created /\ tok[r] \in Created /\ 0 \in 0..MaxTokens
      BY <2>4 DEF SendMail, TypeOK, Created
    <3>2. <<sends, expiries, cancels, faults>>' \in
             (0..MaxSends) \X (0..MaxExpiries) \X (0..MaxCancels) \X (0..MaxFaults)
      BY <2>4 DEF SendMail, TypeOK
    <3>3. pc' \in [Requests -> Pc] /\ tok' \in [Requests -> 0..MaxTokens]
      BY <2>4, <3>1 DEF SendMail, TypeOK, Pc
    <3>4. \A q \in Requests : IF pc'[q] \in {"idle", "cancelPending", "create"}
                              THEN tok'[q] = 0 ELSE tok'[q] \in Created'
      BY <2>4, <3>1 DEF SendMail, TypeOK
    <3>5. mailed' \subseteq Created'
      BY <2>4, <3>1 DEF SendMail, TypeOK
    <3> QED
      BY <2>4, <3>1, <3>2, <3>3, <3>4, <3>5 DEF SendMail, TypeOK
  <2>5. ASSUME NEW r \in Requests, ClickVerify(r) \/ ClickCancel(r) PROVE TypeOK'
    <3>1. Created' = Created
      BY <2>5 DEF ClickVerify, ClickCancel, Created
    <3>2. PICK t \in mailed, next \in {"expire", "verify", "cancel"} :
             tok' = [tok EXCEPT ![r] = t] /\ Goto(r, next)
      BY <2>5 DEF ClickVerify, ClickCancel
    <3>3. t \in Created /\ t \in 0..MaxTokens
      BY DEF TypeOK, Created, Tokens
    <3>4. <<sends, expiries, cancels, faults>>' \in
             (0..MaxSends) \X (0..MaxExpiries) \X (0..MaxCancels) \X (0..MaxFaults)
      BY <2>5 DEF ClickVerify, ClickCancel, TypeOK
    <3>5. pc' \in [Requests -> Pc] /\ tok' \in [Requests -> 0..MaxTokens]
      BY <3>2, <3>3 DEF TypeOK, Pc
    <3>6. \A q \in Requests : IF pc'[q] \in {"idle", "cancelPending", "create"}
                              THEN tok'[q] = 0 ELSE tok'[q] \in Created'
      BY <3>1, <3>2, <3>3 DEF TypeOK
    <3>7. UNCHANGED <<status, used, expired, mailed, event, emailVerified, missed, raced>>
      BY <2>5 DEF ClickVerify, ClickCancel
    <3> QED
      BY <3>1, <3>4, <3>5, <3>6, <3>7 DEF TypeOK
  <2>6. ASSUME NEW r \in Requests, ExpireToken(r) \/ MarkVerified(r) \/ MarkCancelled(r)
        PROVE  TypeOK'
    <3>1. /\ pc[r] \in {"expire", "verify", "cancel"} /\ tok[r] \in Created
          /\ tok[r] \in Tokens
      BY <2>6 DEF ExpireToken, MarkVerified, MarkCancelled, TypeOK, Created
    <3>2. PICK new \in {"VERIFIED", "CANCELLED", "EXPIRED"} : SetStatus(tok[r], new)
      BY <2>6 DEF ExpireToken, MarkVerified, MarkCancelled
    <3>3. /\ Created' = Created
          /\ status' \in [Tokens -> {"none", "PENDING", "VERIFIED", "CANCELLED", "EXPIRED"}]
      BY <3>1, <3>2, StatusIsKept
    <3>4. /\ used' \in {used, used \cup {tok[r]}} /\ event' \in BOOLEAN
          /\ Finish(r)
          /\ UNCHANGED <<expired, mailed, emailVerified, history, boundVars>>
      BY <2>6 DEF ExpireToken, MarkVerified, MarkCancelled, TypeOK
    <3>5. pc' \in [Requests -> Pc] /\ tok' \in [Requests -> 0..MaxTokens]
      BY <3>4 DEF TypeOK, Pc
    <3>6. \A q \in Requests : IF pc'[q] \in {"idle", "cancelPending", "create"}
                              THEN tok'[q] = 0 ELSE tok'[q] \in Created'
      BY <3>3, <3>4 DEF TypeOK
    <3>7. {event, emailVerified}' \subseteq BOOLEAN /\ used' \subseteq Created'
      BY <3>1, <3>3, <3>4 DEF TypeOK
    <3>8. <<sends, expiries, cancels, faults>>' \in
             (0..MaxSends) \X (0..MaxExpiries) \X (0..MaxCancels) \X (0..MaxFaults)
      BY <3>4 DEF TypeOK
    <3>9. /\ missed' \in [Requests -> SUBSET Created'] /\ raced' \subseteq Created' \X Created'
          /\ expired' \subseteq Created' /\ mailed' \subseteq Created'
      BY <3>3, <3>4 DEF TypeOK
    <3> QED
      BY <3>3, <3>5, <3>6, <3>7, <3>8, <3>9 DEF TypeOK
  <2>7. ASSUME NEW t \in Tokens, Expire(t) PROVE TypeOK'
    BY <2>7 DEF Expire, TypeOK, Valid, Created
  <2>8. ASSUME HandleVerified \/ LoseEvent PROVE TypeOK'
    <3>1. /\ UNCHANGED <<status, used, expired, mailed, pc, tok, missed, raced>>
          /\ Created' = Created
      BY <2>8 DEF HandleVerified, LoseEvent, Created
    <3>2. <<sends, expiries, cancels, faults>>' \in
             (0..MaxSends) \X (0..MaxExpiries) \X (0..MaxCancels) \X (0..MaxFaults)
      BY <2>8 DEF HandleVerified, LoseEvent, TypeOK
    <3>3. {event, emailVerified}' \subseteq BOOLEAN
      BY <2>8 DEF HandleVerified, LoseEvent, TypeOK
    <3> QED
      BY <3>1, <3>2, <3>3 DEF TypeOK
  <2>9. ASSUME NEW r \in Requests, Fail(r) PROVE TypeOK'
    <3>1. Created' = Created
      BY <2>9 DEF Fail, Created
    <3>2. <<sends, expiries, cancels, faults>>' \in
             (0..MaxSends) \X (0..MaxExpiries) \X (0..MaxCancels) \X (0..MaxFaults)
      BY <2>9 DEF Fail, TypeOK
    <3>3. pc' \in [Requests -> Pc] /\ tok' \in [Requests -> 0..MaxTokens]
      BY <2>9 DEF Fail, TypeOK, Pc
    <3>4. \A q \in Requests : IF pc'[q] \in {"idle", "cancelPending", "create"}
                              THEN tok'[q] = 0 ELSE tok'[q] \in Created'
      BY <2>9, <3>1 DEF Fail, TypeOK
    <3> QED
      BY <2>9, <3>1, <3>2, <3>3, <3>4 DEF Fail, TypeOK
  <2>10. ASSUME UNCHANGED vars PROVE TypeOK'
    BY <2>10 DEF vars, TypeOK, Created
  <2> QED
    BY <2>1, <2>2, <2>3, <2>4, <2>5, <2>6, <2>7, <2>8, <2>9, <2>10 DEF Next, Step
<1> QED
  BY <1>1, <1>2, PTL DEF Spec

-----------------------------------------------------------------------------
(* Links that exist side by side.  Tokens are numbered without a gap, so   *)
(* that a new one is newer than all others, and a request about to create  *)
(* one has missed every token that is pending.                             *)

Numbered == \E n \in 0..MaxTokens : Created = 1..n

MissedArePending ==
    \A q \in Requests : pc[q] = "create" =>
        \A s \in Tokens : status[s] = "PENDING" => s \in missed[q]

RaceInv == Numbered /\ MissedArePending /\ OnlyRacingLinksCoexist

\* The next number is beyond those given out.
LEMMA NewToken ==
    ASSUME NEW n \in Nat, Created = 1..n
    PROVE  Cardinality(Created) + 1 = n + 1
<1>1. Cardinality(1..n) = IF 1 > n THEN 0 ELSE n - 1 + 1
  BY FS_Interval, SMT
<1> QED
  BY <1>1

\* A step that creates no token, makes none pending and lets nobody reach the
\* creation leaves the invariant as it is.
LEMMA QuietKeepsRaces ==
    ASSUME TypeOK, RaceInv, Created' = Created, raced' = raced, missed' = missed,
           \A t \in Tokens : status'[t] = "PENDING" => status[t] = "PENDING",
           \A q \in Requests : pc'[q] = "create" => pc[q] = "create"
    PROVE  RaceInv'
BY DEF RaceInv, Numbered, MissedArePending, OnlyRacingLinksCoexist, Tokens

\* Creating a token and sending its mail are not one step: every older link
\* that the new one leaves usable was missed by its creator.
LEMMA CreateKeepsRaces ==
    ASSUME TypeOK, RaceInv, NEW r \in Requests, CreateToken(r)
    PROVE  RaceInv'
<1>1. PICK n \in 0..MaxTokens : Created = 1..n
  BY DEF RaceInv, Numbered
<1>2. Cardinality(Created) + 1 = n + 1
  BY <1>1, NewToken, VerificationAssumption
<1>3. /\ pc[r] = "create" /\ n + 1 \in Tokens /\ SetStatus(n + 1, "PENDING")
      /\ missed' = [q \in Requests |-> IF pc[q] = "create" /\ q # r
                                       THEN missed[q] \cup {n + 1} ELSE {}]
      /\ raced' = raced \cup {<<s, n + 1>> : s \in missed[r]}
      /\ Goto(r, "mail")
  BY <1>2 DEF CreateToken
<1>4. /\ Created' = Created \cup {n + 1}
      /\ \A s \in Tokens : s # n + 1 => status'[s] = status[s]
  BY <1>3, StatusIsKept
<1>5. Numbered'
  <2>1. Created' = 1..(n + 1) /\ n + 1 \in 0..MaxTokens
    BY <1>1, <1>3, <1>4, VerificationAssumption DEF Tokens
  <2> QED
    BY <2>1 DEF Numbered
<1>6. MissedArePending'
  BY <1>3, <1>4 DEF MissedArePending, RaceInv, Goto, TypeOK
<1>7. OnlyRacingLinksCoexist'
  <2> SUFFICES ASSUME NEW s \in Tokens, NEW t \in Tokens, s < t,
                      status'[s] = "PENDING", status'[t] = "PENDING"
               PROVE  <<s, t>> \in raced'
    BY DEF OnlyRacingLinksCoexist
  <2>1. CASE t = n + 1
    <3>1. status[s] = "PENDING"
      BY <2>1, <1>4
    <3>2. s \in missed[r]
      BY <3>1, <1>3 DEF RaceInv, MissedArePending
    <3> QED
      BY <3>2, <2>1, <1>3
  <2>2. CASE t # n + 1
    <3>1. t \in Created' /\ t \in 1..n
      BY <2>2, <1>1, <1>4 DEF Created
    <3>2. s # n + 1
      BY <3>1 DEF Tokens
    <3> QED
      BY <2>2, <3>2, <1>3, <1>4 DEF RaceInv, OnlyRacingLinksCoexist
  <2> QED
    BY <2>1, <2>2
<1> QED
  BY <1>5, <1>6, <1>7 DEF RaceInv

\* A new link takes the place of the older ones, unless requests race: for any
\* number of requests and tokens.
THEOREM NewLinkReplacesOld == Spec => []OnlyRacingLinksCoexist
<1>1. Init => RaceInv
  <2> SUFFICES ASSUME Init PROVE RaceInv
    OBVIOUS
  <2>1. Created = 1..0 /\ 0 \in 0..MaxTokens
    BY VerificationAssumption DEF Init, Created
  <2> QED
    BY <2>1 DEF Init, RaceInv, Numbered, MissedArePending, OnlyRacingLinksCoexist
<1>2. TypeOK /\ RaceInv /\ [Next]_vars => RaceInv'
  <2> SUFFICES ASSUME TypeOK, RaceInv, [Next]_vars
               PROVE  RaceInv'
    OBVIOUS
  <2> USE DEF Goto, Finish, Fault, tokenVars, userVars, history, boundVars
  <2>1. ASSUME NEW r \in Requests,
               Send(r) \/ Resend(r) \/ SendMail(r) \/ ClickVerify(r) \/ ClickCancel(r) \/ Fail(r)
        PROVE  RaceInv'
    <3>1. status' = status /\ UNCHANGED history
      BY <2>1 DEF Send, Resend, SendMail, ClickVerify, ClickCancel, Fail
    <3>2. PICK next \in Pc \ {"create"} : pc' = [pc EXCEPT ![r] = next]
      BY <2>1 DEF Send, Resend, SendMail, ClickVerify, ClickCancel, Fail, Pc
    <3>3. \A q \in Requests : pc'[q] = "create" => pc[q] = "create"
      BY <3>2 DEF TypeOK
    <3> QED
      BY <3>1, <3>3, QuietKeepsRaces DEF Created
  <2>2. ASSUME NEW r \in Requests, CancelPending(r) PROVE RaceInv'
    <3>1. /\ Created' = Created
          /\ \A t \in Tokens : status'[t] # "PENDING"
      BY <2>2 DEF CancelPending, Created, TypeOK
    <3> QED
      BY <3>1 DEF RaceInv, Numbered, MissedArePending, OnlyRacingLinksCoexist
  <2>3. ASSUME NEW r \in Requests, CreateToken(r) PROVE RaceInv'
    BY <2>3, CreateKeepsRaces
  <2>4. ASSUME NEW r \in Requests, ExpireToken(r) \/ MarkVerified(r) \/ MarkCancelled(r)
        PROVE  RaceInv'
    <3>1. /\ pc[r] \in {"expire", "verify", "cancel"} /\ tok[r] \in Created
          /\ tok[r] \in Tokens
      BY <2>4 DEF ExpireToken, MarkVerified, MarkCancelled, TypeOK, Created
    <3>2. PICK new \in {"VERIFIED", "CANCELLED", "EXPIRED"} : SetStatus(tok[r], new)
      BY <2>4 DEF ExpireToken, MarkVerified, MarkCancelled
    <3>3. /\ Created' = Created
          /\ \A t \in Tokens : status'[t] = "PENDING" => status[t] = "PENDING"
      BY <3>1, <3>2, StatusIsKept
    <3>4. /\ UNCHANGED history
          /\ pc' = [pc EXCEPT ![r] = "idle"]
      BY <2>4 DEF ExpireToken, MarkVerified, MarkCancelled
    <3>5. \A q \in Requests : pc'[q] = "create" => pc[q] = "create"
      BY <3>4 DEF TypeOK
    <3> QED
      BY <3>3, <3>4, <3>5, QuietKeepsRaces
  <2>5. ASSUME \/ \E t \in Tokens : Expire(t)
               \/ HandleVerified \/ LoseEvent \/ UNCHANGED vars
        PROVE  RaceInv'
    <3>1. UNCHANGED <<status, pc, missed, raced>>
      BY <2>5 DEF Expire, HandleVerified, LoseEvent, vars
    <3> QED
      BY <3>1, QuietKeepsRaces DEF Created
  <2> QED
    BY <2>1, <2>2, <2>3, <2>4, <2>5 DEF Next, Step
<1>3. RaceInv => OnlyRacingLinksCoexist
  BY DEF RaceInv
<1> QED
  BY <1>1, <1>2, <1>3, TypeCorrect, PTL DEF Spec

\* Unless an event was lost, an address is verified in the users service, or about
\* to be, exactly when a token has been used in the notification service.
THEOREM ServicesDoAgree == Spec => []ServicesAgree
<1>1. Init => ServicesAgree
  BY DEF Init, ServicesAgree
<1>2. TypeOK /\ ServicesAgree /\ [Next]_vars => ServicesAgree'
  <2> SUFFICES ASSUME TypeOK, ServicesAgree, [Next]_vars
               PROVE  ServicesAgree'
    OBVIOUS
  <2> USE DEF tokenVars, userVars, history, boundVars
  <2>1. CASE \E r \in Requests : MarkVerified(r)
    BY <2>1 DEF MarkVerified, ServicesAgree
  <2>2. CASE HandleVerified
    BY <2>2 DEF HandleVerified, ServicesAgree
  <2>3. CASE LoseEvent
    BY <2>3, VerificationAssumption DEF LoseEvent, Fault, ServicesAgree, TypeOK
  <2>4. ASSUME NEW r \in Requests, SendMail(r) \/ Fail(r) PROVE ServicesAgree'
    <3>1. UNCHANGED <<used, event, emailVerified>> /\ (faults' = faults \/ faults' = faults - 1)
      BY <2>4 DEF SendMail, Fail, Fault
    <3>2. faults' = MaxFaults => faults = MaxFaults
      BY <3>1, VerificationAssumption DEF TypeOK
    <3> QED
      BY <3>1, <3>2 DEF ServicesAgree
  <2>5. CASE UNCHANGED <<used, event, emailVerified, faults>>
    BY <2>5 DEF ServicesAgree
  <2>6. ASSUME NEW r \in Requests, \/ Send(r) \/ Resend(r) \/ ClickVerify(r) \/ ClickCancel(r)
                                  \/ CancelPending(r) \/ CreateToken(r)
                                  \/ ExpireToken(r) \/ MarkCancelled(r)
        PROVE  UNCHANGED <<used, event, emailVerified, faults>>
    BY <2>6 DEF Send, Resend, ClickVerify, ClickCancel, CancelPending, CreateToken,
                ExpireToken, MarkCancelled
  <2>7. ASSUME (\E t \in Tokens : Expire(t)) \/ UNCHANGED vars
        PROVE  UNCHANGED <<used, event, emailVerified, faults>>
    BY <2>7 DEF Expire, vars
  <2> QED
    BY <2>1, <2>2, <2>3, <2>4, <2>5, <2>6, <2>7 DEF Next, Step
<1> QED
  BY <1>1, <1>2, TypeCorrect, PTL DEF Spec

-----------------------------------------------------------------------------
(* Links reach the user                                                    *)

\* As long as no mail is lost and nothing fails, a token that is created is in the
\* user's mailbox or with a request that is about to send it.
MailFollows ==
    faults = MaxFaults =>
        \A t \in Created : t \in mailed \/ \E r \in Requests : pc[r] = "mail" /\ tok[r] = t

\* A step that creates no token and stops nobody from sending a mail.
LEMMA QuietKeepsMails ==
    ASSUME TypeOK, MailFollows, Created' = Created, mailed' = mailed,
           faults' = faults \/ faults' = faults - 1,
           \A r \in Requests : pc[r] = "mail" => pc'[r] = "mail" /\ tok'[r] = tok[r]
    PROVE  MailFollows'
<1>1. faults' = MaxFaults => faults = MaxFaults
  BY VerificationAssumption DEF TypeOK
<1> QED
  BY <1>1 DEF MailFollows

\* Every step keeps pending links followed by a mail.
LEMMA MailStep == TypeOK /\ MailFollows /\ [Next]_vars => MailFollows'
<1> SUFFICES ASSUME TypeOK, MailFollows, [Next]_vars
             PROVE  MailFollows'
  OBVIOUS
<1> USE DEF Goto, Finish, Fault, tokenVars, userVars, history, boundVars
<1>1. ASSUME NEW r \in Requests,
             \/ Send(r) \/ Resend(r) \/ ClickVerify(r) \/ ClickCancel(r) \/ CancelPending(r)
             \/ ExpireToken(r) \/ MarkVerified(r) \/ MarkCancelled(r)
      PROVE  MailFollows'
  <2>1. /\ pc[r] # "mail" /\ UNCHANGED <<faults, mailed>>
        /\ \A q \in Requests \ {r} : pc'[q] = pc[q] /\ tok'[q] = tok[q]
    BY <1>1 DEF Send, Resend, ClickVerify, ClickCancel, CancelPending, ExpireToken,
       MarkVerified, MarkCancelled, TypeOK
  <2>2. Created' = Created
    <3>1. CASE ExpireToken(r) \/ MarkVerified(r) \/ MarkCancelled(r)
      <4>1. tok[r] \in Created /\ tok[r] \in Tokens
        BY <3>1 DEF ExpireToken, MarkVerified, MarkCancelled, TypeOK, Created
      <4>2. PICK new \in {"VERIFIED", "CANCELLED", "EXPIRED"} : SetStatus(tok[r], new)
        BY <3>1 DEF ExpireToken, MarkVerified, MarkCancelled
      <4> QED
        BY <4>1, <4>2, StatusIsKept
    <3>2. CASE CancelPending(r)
      BY <3>2 DEF CancelPending, Created, TypeOK
    <3>3. CASE Send(r) \/ Resend(r) \/ ClickVerify(r) \/ ClickCancel(r)
      BY <3>3 DEF Send, Resend, ClickVerify, ClickCancel, Created
    <3> QED
      BY <1>1, <3>1, <3>2, <3>3
  <2> QED
    BY <2>1, <2>2, QuietKeepsMails
<1>2. ASSUME NEW r \in Requests, CreateToken(r) PROVE MailFollows'
  <2>1. PICK t \in Tokens :
          /\ pc[r] = "create" /\ SetStatus(t, "PENDING")
          /\ tok' = [tok EXCEPT ![r] = t] /\ pc' = [pc EXCEPT ![r] = "mail"]
          /\ UNCHANGED <<mailed, faults>>
    BY <1>2 DEF CreateToken
  <2>2. Created' = Created \cup {t}
    BY <2>1, StatusIsKept
  <2>3. pc'[r] = "mail" /\ tok'[r] = t
    BY <2>1 DEF TypeOK
  <2>4. \A q \in Requests : pc[q] = "mail" => pc'[q] = "mail" /\ tok'[q] = tok[q]
    BY <2>1 DEF TypeOK
  <2> QED
    BY <2>1, <2>2, <2>3, <2>4 DEF MailFollows
<1>3. ASSUME NEW r \in Requests, SendMail(r) PROVE MailFollows'
  <2>1. /\ Created' = Created
        /\ \A q \in Requests \ {r} : pc'[q] = pc[q] /\ tok'[q] = tok[q]
    BY <1>3 DEF SendMail, Created, TypeOK
  <2>2. CASE mailed' = mailed \cup {tok[r]} /\ UNCHANGED faults
    BY <2>1, <2>2 DEF MailFollows
  <2>3. CASE Fault
    BY <2>3, VerificationAssumption DEF MailFollows, TypeOK
  <2> QED
    BY <1>3, <2>2, <2>3 DEF SendMail
<1>4. ASSUME LoseEvent \/ \E r \in Requests : Fail(r) PROVE MailFollows'
  BY <1>4, VerificationAssumption DEF LoseEvent, Fail, MailFollows, TypeOK
<1>5. ASSUME \/ \E t \in Tokens : Expire(t)
             \/ HandleVerified \/ UNCHANGED vars
      PROVE  MailFollows'
  <2>1. UNCHANGED <<status, mailed, pc, tok, faults>>
    BY <1>5 DEF Expire, HandleVerified, vars
  <2> QED
    BY <2>1, QuietKeepsMails DEF Created
<1> QED
  BY <1>1, <1>2, <1>3, <1>4, <1>5 DEF Next, Step

\* Nobody who is not verified is left without a way to get verified: for any number
\* of requests, tokens and clicks, a link works or a login sends a new one.
THEOREM NobodyIsStuck == Spec => []NeverStuck
<1>1. Init => MailFollows
  BY DEF Init, MailFollows, Created
<1>2. TypeOK /\ MailFollows => NeverStuck
  <2> SUFFICES ASSUME TypeOK, MailFollows, faults = MaxFaults,
                      \A r \in Requests : pc[r] = "idle", Valid \cap mailed = {}
               PROVE  MayResend
    BY DEF NeverStuck
  <2>1. Created \subseteq mailed
    BY DEF MailFollows
  <2>2. Valid \subseteq Created
    BY DEF Valid, Created
  <2> QED
    BY <2>1, <2>2 DEF MayResend
<1> QED
  BY <1>1, <1>2, MailStep, TypeCorrect, PTL DEF Spec

-----------------------------------------------------------------------------
(* The client that publishes events                                        *)

EventTypeOK ==
    /\ emit \in [Emits -> EmitState]
    /\ connections \in Seq({"open", "closing", "closed"})
    /\ eventConnection \in Opened \cup {NoConnection}
    /\ eventChannel \in Opened \cup {NoConnection}
    /\ \A e \in Emits : emit[e].at \in {"createChannel", "assertExchange", "close"} =>
          emit[e].on \in Opened
    /\ published \in [Emits -> Nat]
    /\ troubles \in Nat

\* Only an event that has met a full buffer is written again.
WrittenOnce ==
    \A e \in Emits :
        /\ emit[e].again => e \in full
        /\ ~emit[e].again => published[e] = IF emit[e].at = "published" THEN 1 ELSE 0
        /\ emit[e].at = "published" => published[e] > 0

\* While an event fails, all that are on their way are disturbed by it.
FailuresDisturb ==
    \A e \in Emits :
        /\ emit[e].at \in {"catch", "close", "lost"} => e \in disturbed
        /\ emit[e].at \in {"catch", "close"} =>
              \A other \in InFlight : other \in disturbed

\* A connection is being closed for an event that waits for it.
ClosingIsAwaited ==
    \A c \in Opened : connections[c] = "closing" =>
        \E e \in Emits : emit[e].at = "close" /\ emit[e].on = c

\* An event that is not disturbed finds what it has set up, or what another event
\* has put in its place.
UsableUnlessDisturbed ==
    \A e \in Emits \ disturbed :
        /\ emit[e].at \in {"createChannel", "assertExchange"} =>
              IsOpen(emit[e].on) /\ eventConnection # NoConnection
        /\ emit[e].at \in {"assertExchange", "publish", "wait"} => IsOpen(eventChannel)

\* A client that is not muddled is set up by one event at a time, has no
\* connection but its own,
SetUpByOne ==
    ~muddled =>
        /\ \A e, other \in Emits : SettingUp(e) /\ SettingUp(other) => e = other
        /\ \A c \in Opened : c # eventConnection => connections[c] = "closed"

\* that of the event which sets it up,
SetUpInOrder ==
    ~muddled => \A e \in Emits :
        /\ emit[e].at = "connect" =>
              eventConnection = NoConnection /\ eventChannel = NoConnection
        /\ emit[e].at = "createChannel" =>
              eventConnection = emit[e].on /\ IsOpen(eventConnection) /\ eventChannel = NoConnection
        /\ emit[e].at = "assertExchange" =>
              /\ eventConnection = emit[e].on /\ IsOpen(eventConnection)
              /\ eventChannel = eventConnection
        /\ emit[e].at = "close" =>
              /\ eventChannel = NoConnection
              /\ eventConnection # NoConnection =>
                    /\ eventConnection = emit[e].on /\ eventConnection \in handled
                    /\ connections[eventConnection] = "closing"

\* and one that listens when none does.
SetUpListens ==
    ~muddled /\ (\A e \in Emits : ~SettingUp(e)) =>
        /\ eventChannel = eventConnection
        /\ eventConnection # NoConnection => eventConnection \in handled /\ IsOpen(eventConnection)

EventInv ==
    /\ EventTypeOK /\ WrittenOnce /\ FailuresDisturb /\ ClosingIsAwaited
    /\ UsableUnlessDisturbed /\ SetUpByOne /\ SetUpInOrder /\ SetUpListens

Labels == {"start", "connect", "createChannel", "assertExchange", "publish",
           "wait", "catch", "close", "published", "lost"}

\* An event that proceeds stays what it is but for its label.
LEMMA Proceeds ==
    ASSUME EventTypeOK, NEW e \in Emits, NEW label \in Labels
    PROVE  /\ Proceed(e, label) \in [Emits -> EmitState]
           /\ Proceed(e, label)[e].at = label
           /\ Proceed(e, label)[e].on = emit[e].on
           /\ Proceed(e, label)[e].again = emit[e].again
           /\ \A other \in Emits \ {e} : Proceed(e, label)[other] = emit[other]
BY DEF EventTypeOK, Proceed, EmitState, Labels

\* What writing an event does to it.
LEMMA WriteTyped ==
    ASSUME EventTypeOK, NEW e \in Emits, Write(e) \/ CannotWrite(e)
    PROVE  /\ emit' \in [Emits -> EmitState]
           /\ \A other \in Emits \ {e} : emit'[other] = emit[other]
           /\ emit'[e].at \in {"published", "wait", "catch"}
           /\ emit'[e].on = emit[e].on
           /\ published' \in [Emits -> Nat]
           /\ troubles' \in Nat
<1>1. CASE Write(e)
  <2>1. published' \in [Emits -> Nat]
    BY <1>1 DEF Write, EventTypeOK
  <2>2. CASE emit' = Proceed(e, "published") /\ NoTrouble
    BY <2>1, <2>2, Proceeds DEF Labels, NoTrouble, EventTypeOK
  <2>3. CASE Trouble /\ Throws(e)
    BY <2>1, <2>3, Proceeds DEF Labels, Trouble, Throws, EventTypeOK
  <2>4. CASE Trouble /\ emit' = [emit EXCEPT ![e].at = "wait", ![e].again = TRUE]
    <3>1. emit'[e] = [emit[e] EXCEPT !.at = "wait", !.again = TRUE]
      BY <2>4 DEF EventTypeOK
    <3>2. emit[e] \in EmitState
      BY DEF EventTypeOK
    <3>3. emit'[e] \in EmitState /\ emit'[e].at = "wait" /\ emit'[e].on = emit[e].on
      BY <3>1, <3>2 DEF EmitState
    <3> QED
      BY <2>1, <2>4, <3>3 DEF Trouble, EventTypeOK
  <2> QED
    BY <1>1, <2>2, <2>3, <2>4 DEF Write
<1>2. CASE CannotWrite(e)
  BY <1>2, Proceeds DEF CannotWrite, Labels, NoTrouble, Throws, EventTypeOK
<1> QED
  BY <1>1, <1>2

\* Every step of EventClient keeps the types.
LEMMA EventStepTyped == EventTypeOK /\ [EventsNext]_eventVars => EventTypeOK'
<1> SUFFICES ASSUME EventTypeOK, [EventsNext]_eventVars
             PROVE  EventTypeOK'
  OBVIOUS
<1> USE DEF NoTrouble, Trouble, IsOpen
<1>1. ASSUME NEW e \in Emits, PublishEvent(e) PROVE EventTypeOK'
  BY <1>1 DEF PublishEvent, EnsureEventChannel, Proceed,
     EventTypeOK, EmitState, Opened, NoConnection
<1>2. ASSUME NEW e \in Emits, Connect(e) PROVE EventTypeOK'
  <2> DEFINE n == Len(connections) + 1
  <2>1. /\ connections' \in Seq({"open", "closing", "closed"}) /\ Len(connections') = n
        /\ Opened' = 1..n /\ Opened = 1..(n - 1) /\ n \in Nat \ {0}
    BY <1>2 DEF Connect, EventTypeOK, Opened
  <2>2. /\ emit' = [emit EXCEPT ![e].at = "createChannel", ![e].on = n]
        /\ UNCHANGED <<eventChannel, published, troubles>> /\ eventConnection' = n
    BY <1>2, <2>1 DEF Connect
  <2>3. emit[e] \in EmitState
    BY DEF EventTypeOK
  <2>4. emit'[e] = [emit[e] EXCEPT !.at = "createChannel", !.on = n]
    BY <2>2 DEF EventTypeOK
  <2>5. emit'[e] \in EmitState /\ emit'[e].on = n
    BY <2>1, <2>3, <2>4 DEF EmitState
  <2>6. \A other \in Emits \ {e} : emit'[other] = emit[other]
    BY <2>2 DEF EventTypeOK
  <2> HIDE DEF n
  <2>7. emit' \in [Emits -> EmitState]
    BY <2>2, <2>5, <2>6 DEF EventTypeOK
  <2> QED
    BY <2>1, <2>2, <2>5, <2>6, <2>7 DEF EventTypeOK
<1>3. ASSUME NEW e \in Emits, CreateChannel(e) PROVE EventTypeOK'
  BY <1>3 DEF CreateChannel, Proceed,
     EventTypeOK, EmitState, Opened, NoConnection
<1>4. ASSUME NEW e \in Emits, AssertExchange(e) PROVE EventTypeOK'
  BY <1>4 DEF AssertExchange, Proceed,
     EventTypeOK, EmitState, Opened, NoConnection
<1>5. ASSUME NEW e \in Emits, EnsureFails(e) PROVE EventTypeOK'
  <2>1. /\ emit' = Proceed(e, "catch")
        /\ UNCHANGED <<connections, published>>
        /\ eventConnection' = NoConnection /\ eventChannel' = NoConnection
        /\ troubles' \in Nat
    BY <1>5 DEF EnsureFails, Throws, EventTypeOK
  <2>2. /\ emit' \in [Emits -> EmitState] /\ emit'[e].at = "catch"
        /\ \A other \in Emits \ {e} : emit'[other] = emit[other]
    BY <2>1, Proceeds DEF Labels
  <2> QED
    BY <2>1, <2>2 DEF EventTypeOK, Opened
<1>6. ASSUME NEW e \in Emits, Publish(e) PROVE EventTypeOK'
  BY <1>6, WriteTyped DEF Publish, EventTypeOK, Opened
<1>7. ASSUME NEW e \in Emits, Retry(e) PROVE EventTypeOK'
  <2>1. CASE Write(e) \/ CannotWrite(e)
    BY <1>7, <2>1, WriteTyped DEF Retry, EventTypeOK, Opened
  <2>2. CASE EnsureEventChannel(e) /\ UNCHANGED <<troubles, published>>
    <3>1. PICK label \in {"publish", "connect"} : emit' = Proceed(e, label)
      BY <2>2 DEF EnsureEventChannel
    <3>2. /\ emit' \in [Emits -> EmitState] /\ emit'[e].at = label
          /\ \A other \in Emits \ {e} : emit'[other] = emit[other]
      BY <3>1, Proceeds DEF Labels
    <3> QED
      BY <1>7, <2>2, <3>2 DEF Retry, EventTypeOK, Opened
  <2> QED
    BY <1>7, <2>1, <2>2 DEF Retry
<1>8. ASSUME NEW e \in Emits, Catch(e) PROVE EventTypeOK'
  <2>1. /\ connections' \in Seq({"open", "closing", "closed"}) /\ Opened' = Opened
        /\ UNCHANGED <<eventConnection, published, troubles>> /\ eventChannel' = NoConnection
    <3>1. eventConnection # NoConnection => eventConnection \in 1..Len(connections)
      BY DEF EventTypeOK, Opened
    <3>2. connections' \in Seq({"open", "closing", "closed"}) /\ Opened' = Opened
      BY <1>8, <3>1, ExceptSeq DEF Catch, EventTypeOK, Opened
    <3> QED
      BY <1>8, <3>2 DEF Catch
  <2>2. CASE emit' = Proceed(e, "lost")
    <3>1. /\ emit' \in [Emits -> EmitState] /\ emit'[e].at = "lost"
          /\ \A other \in Emits \ {e} : emit'[other] = emit[other]
      BY <2>2, Proceeds DEF Labels
    <3> QED
      BY <2>1, <3>1 DEF EventTypeOK
  <2>3. CASE /\ emit' = [emit EXCEPT ![e].at = "close", ![e].on = eventConnection]
             /\ eventConnection # NoConnection
    <3>1. emit[e] \in EmitState /\ eventConnection \in Opened /\ eventConnection \in Nat
      BY <2>3 DEF EventTypeOK, Opened
    <3>2. emit'[e] = [emit[e] EXCEPT !.at = "close", !.on = eventConnection]
      BY <2>3 DEF EventTypeOK
    <3>3. emit'[e] \in EmitState /\ emit'[e].on = eventConnection
      BY <3>1, <3>2 DEF EmitState
    <3>4. \A other \in Emits \ {e} : emit'[other] = emit[other]
      BY <2>3 DEF EventTypeOK
    <3>5. emit' \in [Emits -> EmitState]
      BY <2>3, <3>3, <3>4 DEF EventTypeOK
    <3> QED
      BY <2>1, <3>1, <3>3, <3>4, <3>5 DEF EventTypeOK
  <2> QED
    BY <1>8, <2>2, <2>3 DEF Catch
<1>9. ASSUME NEW e \in Emits, Closed(e) PROVE EventTypeOK'
  BY <1>9 DEF Closed, Proceed,
     EventTypeOK, EmitState, Opened, NoConnection
<1>10. ASSUME NEW c \in Opened, CloseOk(c) PROVE EventTypeOK'
  BY <1>10 DEF CloseOk, OnClose, EventTypeOK, Opened, NoConnection
<1>11. ASSUME NEW S \in SUBSET Opened, Break(S) PROVE EventTypeOK'
  <2> DEFINE n == Len(connections)
             state(c) == IF c \in S THEN "closed" ELSE connections[c]
  <2>1. n \in Nat /\ Opened = 1..n /\ connections' = [c \in 1..n |-> state(c)]
    BY <1>11 DEF Break, Opened, EventTypeOK
  <2>2. \A c \in 1..n : state(c) \in {"open", "closing", "closed"}
    BY <2>1, ElementOfSeq DEF EventTypeOK
  <2>3. connections' \in Seq({"open", "closing", "closed"})
    <3> HIDE DEF n, state
    <3> QED
      BY <2>1, <2>2, IsASeq
  <2>4. Opened' = Opened
    BY <2>1 DEF Opened
  <2> QED
    BY <1>11, <2>3, <2>4 DEF Break, OnClose, EventTypeOK
<1>12. ASSUME UNCHANGED eventVars PROVE EventTypeOK'
  BY <1>12 DEF eventVars, EventTypeOK, Opened
<1> QED
  BY <1>1, <1>2, <1>3, <1>4, <1>5, <1>6, <1>7, <1>8, <1>9, <1>10, <1>11, <1>12
  DEF EventsNext, EventStep

\* A connection that is closed goes on being closed for an event that waits on.
LEMMA QuietClosing ==
    ASSUME ClosingIsAwaited,
           \A c \in Opened' : connections'[c] = "closing" =>
              c \in Opened /\ connections[c] = "closing",
           \A e \in Emits : emit[e].at = "close" => emit'[e] = emit[e]
    PROVE  ClosingIsAwaited'
BY DEF ClosingIsAwaited

\* Writing an event keeps the client as it is; who cannot be written had been
\* disturbed before.
LEMMA WriteKeeps ==
    ASSUME EventInv, EventTypeOK', NEW e \in Emits, emit[e].at \in {"publish", "wait"},
           Write(e) \/ CannotWrite(e),
           UNCHANGED <<connections, handled, eventConnection, eventChannel, muddled>>
    PROVE  EventInv'
<1>1. EventTypeOK /\ EventTypeOK'
  BY DEF EventInv
<1>2. /\ WrittenOnce /\ FailuresDisturb /\ ClosingIsAwaited
      /\ UsableUnlessDisturbed /\ SetUpByOne /\ SetUpInOrder /\ SetUpListens
  BY DEF EventInv
<1> USE <1>1, <1>2 DEF NoConnection, InFlight, SettingUp, IsOpen, Opened, NoTrouble, Trouble,
        EventTypeOK
<1>3. CASE /\ Write(e) /\ emit' = Proceed(e, "published") /\ NoTrouble
           /\ UNCHANGED <<full, disturbed>>
  <2>1. /\ emit'[e].at = "published" /\ emit'[e].on = emit[e].on /\ emit'[e].again = emit[e].again
        /\ \A other \in Emits \ {e} : emit'[other] = emit[other]
    BY <1>3, Proceeds DEF Write, Labels
  <2>3. WrittenOnce'
    BY <1>3, <2>1 DEF Write,
       WrittenOnce
  <2>4. FailuresDisturb'
    BY <1>3, <2>1 DEF Write,
       UsableUnlessDisturbed, FailuresDisturb
  <2>5. ClosingIsAwaited'
    BY <1>3, <2>1, QuietClosing DEF Write
  <2>6. UsableUnlessDisturbed'
    BY <1>3, <2>1 DEF Write,
       FailuresDisturb, SetUpByOne, SetUpInOrder, SetUpListens, UsableUnlessDisturbed
  <2>7. SetUpByOne'
    BY <1>3, <2>1, ZenonT(60) DEF Write,
       SetUpInOrder, SetUpListens, SetUpByOne
  <2>8. SetUpInOrder'
    BY <1>3, <2>1, ZenonT(60) DEF Write,
       SetUpByOne, SetUpListens, SetUpInOrder
  <2>9. SetUpListens'
    BY <1>3, <2>1 DEF Write,
       SetUpByOne, SetUpInOrder, SetUpListens
  <2> QED
    BY <2>3, <2>4, <2>5, <2>6, <2>7, <2>8, <2>9, <1>1 DEF EventInv
<1>4. CASE /\ Write(e) /\ Trouble /\ ~emit[e].again /\ full' = full \cup {e}
           /\ emit' = [emit EXCEPT ![e].at = "wait", ![e].again = TRUE] /\ UNCHANGED disturbed
  <2>1. /\ emit'[e].at = "wait" /\ emit'[e].on = emit[e].on /\ emit'[e].again = TRUE
        /\ \A other \in Emits \ {e} : emit'[other] = emit[other]
    BY <1>4 DEF EmitState
  <2>3. WrittenOnce'
    BY <1>4, <2>1 DEF Write,
       WrittenOnce
  <2>4. FailuresDisturb'
    BY <1>4, <2>1 DEF Write,
       UsableUnlessDisturbed, FailuresDisturb
  <2>5. ClosingIsAwaited'
    BY <1>4, <2>1, QuietClosing DEF Write
  <2>6. UsableUnlessDisturbed'
    BY <1>4, <2>1 DEF Write,
       FailuresDisturb, SetUpByOne, SetUpInOrder, SetUpListens, UsableUnlessDisturbed
  <2>7. SetUpByOne'
    BY <1>4, <2>1 DEF Write,
       SetUpInOrder, SetUpListens, SetUpByOne
  <2>8. SetUpInOrder'
    BY <1>4, <2>1 DEF Write,
       SetUpByOne, SetUpListens, SetUpInOrder
  <2>9. SetUpListens'
    BY <1>4, <2>1 DEF Write,
       SetUpByOne, SetUpInOrder, SetUpListens
  <2> QED
    BY <2>3, <2>4, <2>5, <2>6, <2>7, <2>8, <2>9, <1>1 DEF EventInv
<1>5. CASE \/ Write(e) /\ Trouble /\ emit[e].again /\ full' = full \cup {e} /\ Throws(e)
           \/ CannotWrite(e)
  <2>1. /\ emit'[e].at = "catch" /\ emit'[e].on = emit[e].on /\ emit'[e].again = emit[e].again
        /\ \A other \in Emits \ {e} : emit'[other] = emit[other]
    BY <1>5, Proceeds DEF CannotWrite, Throws, Labels
  <2>2. /\ e \in disturbed' /\ \A other \in InFlight : other \in disturbed'
        /\ \A other \in Emits : other \in disturbed => other \in disturbed'
    <3>1. CASE Trouble /\ Throws(e)
      BY <3>1 DEF Throws
    <3>2. CASE CannotWrite(e)
      BY <3>2 DEF CannotWrite, Throws, UsableUnlessDisturbed
    <3> QED
      BY <1>5, <3>1, <3>2
  <2> QED
    <3>1. \/ emit[e].again /\ e \in full' /\ published' = [published EXCEPT ![e] = @ + 1]
          \/ full' = full /\ published' = published
      BY <1>5 DEF Write, CannotWrite
    <3>2. full \subseteq full'
      BY <1>5 DEF CannotWrite
    <3>3. WrittenOnce'
      BY <2>1, <2>2, <3>1, <3>2 DEF WrittenOnce
    <3>4. FailuresDisturb'
      BY <2>1, <2>2, <3>1, <3>2 DEF UsableUnlessDisturbed, FailuresDisturb
    <3>5. ClosingIsAwaited'
      BY <2>1, <2>2, <3>1, <3>2, QuietClosing
    <3>6. UsableUnlessDisturbed'
      BY <2>1, <2>2, <3>1, <3>2 DEF FailuresDisturb, SetUpByOne, SetUpInOrder, SetUpListens, UsableUnlessDisturbed
    <3>7. SetUpByOne'
      BY <2>1, <2>2, <3>1, <3>2 DEF SetUpInOrder, SetUpListens, SetUpByOne
    <3>8. SetUpInOrder'
      BY <2>1, <2>2, <3>1, <3>2 DEF SetUpByOne, SetUpListens, SetUpInOrder
    <3>9. SetUpListens'
      BY <2>1, <2>2, <3>1, <3>2 DEF SetUpByOne, SetUpInOrder, SetUpListens
    <3> QED
      BY <3>3, <3>4, <3>5, <3>6, <3>7, <3>8, <3>9, <1>1 DEF EventInv
<1> QED
  BY <1>3, <1>4, <1>5 DEF Write

\* Every step of EventClient keeps its invariant.
LEMMA EventInvStep == EventInv /\ [EventsNext]_eventVars => EventInv'
<1> SUFFICES ASSUME EventInv, [EventsNext]_eventVars
             PROVE  EventInv'
  OBVIOUS
<1>1. EventTypeOK /\ EventTypeOK'
  BY EventStepTyped DEF EventInv
<1>2. /\ WrittenOnce /\ FailuresDisturb /\ ClosingIsAwaited
      /\ UsableUnlessDisturbed /\ SetUpByOne /\ SetUpInOrder /\ SetUpListens
  BY DEF EventInv
<1> USE <1>1, <1>2 DEF NoConnection, InFlight, SettingUp, IsOpen, Opened, NoTrouble, Trouble,
        EventTypeOK
<1>3. ASSUME NEW e \in Emits, PublishEvent(e) PROVE EventInv'
  <2>1. /\ emit'[e].at = IF HasChannel THEN "publish" ELSE "connect"
        /\ emit'[e].on = emit[e].on /\ emit'[e].again = emit[e].again
        /\ \A other \in Emits \ {e} : emit'[other] = emit[other]
    BY <1>3, Proceeds DEF PublishEvent, EnsureEventChannel, Labels
  <2>2. ~muddled' =>
           /\ muddled => Fresh
           /\ HasChannel \/ \A other \in Emits \ {e} : ~SettingUp(other)
    BY <1>3 DEF PublishEvent, EnsureEventChannel
  <2>3. WrittenOnce'
    BY <1>3, <2>1 DEF PublishEvent, EnsureEventChannel, HasChannel, Fresh,
       WrittenOnce
  <2>4. FailuresDisturb'
    BY <1>3, <2>1 DEF PublishEvent, EnsureEventChannel, HasChannel, Fresh,
       UsableUnlessDisturbed, FailuresDisturb
  <2>5. ClosingIsAwaited'
    BY <1>3, <2>1, QuietClosing DEF PublishEvent, EnsureEventChannel, HasChannel, Fresh
  <2>6. UsableUnlessDisturbed'
    BY <1>3, <2>1 DEF PublishEvent, EnsureEventChannel, HasChannel, Fresh,
       FailuresDisturb, SetUpByOne, SetUpInOrder, SetUpListens, UsableUnlessDisturbed
  <2>7. SetUpByOne'
    <3>1. CASE muddled /\ ~muddled'
      <4>1. /\ InFlight = {} /\ \A other \in Emits : ~SettingUp(other)
            /\ \A c \in Opened : connections[c] \notin {"open", "closing"}
        <5>1. Fresh
          BY <2>2, <3>1
        <5>2. InFlight = {} /\ \A c \in Opened : connections[c] # "open"
          BY <5>1 DEF Fresh
        <5>3. \A other \in Emits : emit[other].at \in {"start", "published", "lost"}
          BY <5>2
        <5> QED
          BY <5>2, <5>3 DEF ClosingIsAwaited
      <4>2. \A c \in Opened : connections[c] = "closed"
        BY <4>1, ElementOfSeq
      <4> QED
        BY <1>3, <2>1, <4>1, <4>2 DEF PublishEvent, SetUpByOne
    <3>2. CASE ~muddled /\ ~muddled'
      BY <1>3, <2>1, <2>2, <3>2, SMTT(30) DEF PublishEvent, SetUpByOne
    <3> QED
      BY <3>1, <3>2 DEF SetUpByOne
  <2>8. SetUpInOrder'
    BY <1>3, <2>1 DEF PublishEvent, EnsureEventChannel, HasChannel, Fresh,
       SetUpByOne, SetUpListens, SetUpInOrder
  <2>9. SetUpListens'
    BY <1>3, <2>1 DEF PublishEvent, EnsureEventChannel, HasChannel, Fresh,
       SetUpByOne, SetUpInOrder, SetUpListens
  <2> QED
    BY <2>3, <2>4, <2>5, <2>6, <2>7, <2>8, <2>9, <1>1 DEF EventInv
<1>4. ASSUME NEW e \in Emits, Connect(e) PROVE EventInv'
  <2>1. /\ emit'[e].at = "createChannel" /\ emit'[e].on = Len(connections) + 1
        /\ emit'[e].again = emit[e].again
        /\ \A other \in Emits \ {e} : emit'[other] = emit[other]
        /\ Len(connections') = Len(connections) + 1
        /\ connections'[Len(connections) + 1] = "open"
        /\ \A c \in Opened : connections'[c] = connections[c]
        /\ Opened' = Opened \cup {Len(connections) + 1}
    BY <1>4 DEF Connect, EmitState
  <2>3. WrittenOnce'
    BY <1>4, <2>1 DEF Connect,
       WrittenOnce
  <2>4. FailuresDisturb'
    BY <1>4, <2>1 DEF Connect,
       UsableUnlessDisturbed, FailuresDisturb
  <2>5. ClosingIsAwaited'
    BY <1>4, <2>1, QuietClosing DEF Connect
  <2>6. UsableUnlessDisturbed'
    BY <1>4, <2>1 DEF Connect,
       FailuresDisturb, SetUpByOne, SetUpInOrder, SetUpListens, UsableUnlessDisturbed
  <2>7. SetUpByOne'
    BY <1>4, <2>1 DEF Connect,
       SetUpInOrder, SetUpListens, SetUpByOne
  <2>8. SetUpInOrder'
    BY <1>4, <2>1 DEF Connect,
       SetUpByOne, SetUpListens, SetUpInOrder
  <2>9. SetUpListens'
    BY <1>4, <2>1 DEF Connect,
       SetUpByOne, SetUpInOrder, SetUpListens
  <2> QED
    BY <2>3, <2>4, <2>5, <2>6, <2>7, <2>8, <2>9, <1>1 DEF EventInv
<1>5. ASSUME NEW e \in Emits, CreateChannel(e) PROVE EventInv'
  <2>1. /\ emit'[e].at = "assertExchange" /\ emit'[e].on = emit[e].on /\ emit'[e].again = emit[e].again
        /\ \A other \in Emits \ {e} : emit'[other] = emit[other]
    BY <1>5, Proceeds DEF CreateChannel, Labels
  <2>3. WrittenOnce'
    BY <1>5, <2>1 DEF CreateChannel,
       WrittenOnce
  <2>4. FailuresDisturb'
    BY <1>5, <2>1 DEF CreateChannel,
       UsableUnlessDisturbed, FailuresDisturb
  <2>5. ClosingIsAwaited'
    BY <1>5, <2>1, QuietClosing DEF CreateChannel
  <2>6. UsableUnlessDisturbed'
    BY <1>5, <2>1 DEF CreateChannel,
       FailuresDisturb, SetUpByOne, SetUpInOrder, SetUpListens, UsableUnlessDisturbed
  <2>7. SetUpByOne'
    BY <1>5, <2>1 DEF CreateChannel,
       SetUpInOrder, SetUpListens, SetUpByOne
  <2>8. SetUpInOrder'
    BY <1>5, <2>1 DEF CreateChannel,
       SetUpByOne, SetUpListens, SetUpInOrder
  <2>9. SetUpListens'
    BY <1>5, <2>1 DEF CreateChannel,
       SetUpByOne, SetUpInOrder, SetUpListens
  <2> QED
    BY <2>3, <2>4, <2>5, <2>6, <2>7, <2>8, <2>9, <1>1 DEF EventInv
<1>6. ASSUME NEW e \in Emits, AssertExchange(e) PROVE EventInv'
  <2>1. /\ emit'[e].at = "publish" /\ emit'[e].on = emit[e].on /\ emit'[e].again = emit[e].again
        /\ \A other \in Emits \ {e} : emit'[other] = emit[other]
    BY <1>6, Proceeds DEF AssertExchange, Labels
  <2>3. WrittenOnce'
    BY <1>6, <2>1 DEF AssertExchange, Handlers,
       WrittenOnce
  <2>4. FailuresDisturb'
    BY <1>6, <2>1 DEF AssertExchange, Handlers,
       UsableUnlessDisturbed, FailuresDisturb
  <2>5. ClosingIsAwaited'
    BY <1>6, <2>1, QuietClosing DEF AssertExchange, Handlers
  <2>6. UsableUnlessDisturbed'
    BY <1>6, <2>1 DEF AssertExchange, Handlers,
       FailuresDisturb, SetUpByOne, SetUpInOrder, SetUpListens, UsableUnlessDisturbed
  <2>7. SetUpByOne'
    BY <1>6, <2>1 DEF AssertExchange, Handlers,
       SetUpInOrder, SetUpListens, SetUpByOne
  <2>8. SetUpInOrder'
    BY <1>6, <2>1 DEF AssertExchange, Handlers,
       SetUpByOne, SetUpListens, SetUpInOrder
  <2>9. SetUpListens'
    BY <1>6, <2>1 DEF AssertExchange, Handlers,
       SetUpByOne, SetUpInOrder, SetUpListens
  <2> QED
    BY <2>3, <2>4, <2>5, <2>6, <2>7, <2>8, <2>9, <1>1 DEF EventInv
<1>7. ASSUME NEW e \in Emits, EnsureFails(e) PROVE EventInv'
  <2>1. /\ emit'[e].at = "catch" /\ emit'[e].on = emit[e].on /\ emit'[e].again = emit[e].again
        /\ \A other \in Emits \ {e} : emit'[other] = emit[other]
    BY <1>7, Proceeds DEF EnsureFails, Throws, Labels
  <2>3. WrittenOnce'
    BY <1>7, <2>1 DEF EnsureFails, Throws,
       WrittenOnce
  <2>4. FailuresDisturb'
    BY <1>7, <2>1 DEF EnsureFails, Throws,
       UsableUnlessDisturbed, FailuresDisturb
  <2>5. ClosingIsAwaited'
    BY <1>7, <2>1, QuietClosing DEF EnsureFails, Throws
  <2>6. UsableUnlessDisturbed'
    BY <1>7, <2>1 DEF EnsureFails, Throws,
       FailuresDisturb, SetUpByOne, SetUpInOrder, SetUpListens, UsableUnlessDisturbed
  <2>7. SetUpByOne'
    BY <1>7, <2>1 DEF EnsureFails, Throws,
       SetUpInOrder, SetUpListens, SetUpByOne
  <2>8. SetUpInOrder'
    BY <1>7, <2>1 DEF EnsureFails, Throws,
       SetUpByOne, SetUpListens, SetUpInOrder
  <2>9. SetUpListens'
    BY <1>7, <2>1 DEF EnsureFails, Throws,
       SetUpByOne, SetUpInOrder, SetUpListens
  <2> QED
    BY <2>3, <2>4, <2>5, <2>6, <2>7, <2>8, <2>9, <1>1 DEF EventInv
<1>8. ASSUME NEW e \in Emits, Publish(e) PROVE EventInv'
  BY <1>8, WriteKeeps DEF Publish
<1>9. ASSUME NEW e \in Emits, Retry(e) PROVE EventInv'
  <2>1. CASE UNCHANGED muddled /\ (Write(e) \/ CannotWrite(e))
    BY <1>9, <2>1, WriteKeeps DEF Retry
  <2>2. CASE /\ eventChannel = NoConnection /\ EnsureEventChannel(e)
             /\ NoTrouble /\ UNCHANGED <<published, full, disturbed>>
    <3>1. /\ emit'[e].at = "connect" /\ emit'[e].on = emit[e].on /\ emit'[e].again = emit[e].again
          /\ \A other \in Emits \ {e} : emit'[other] = emit[other]
      BY <2>2, Proceeds DEF EnsureEventChannel, HasChannel, Labels
    <3>2. ~muddled' => ~muddled /\ \A other \in Emits \ {e} : ~SettingUp(other)
      BY <1>9, <2>2 DEF Retry, EnsureEventChannel, HasChannel, Fresh
    <3>3. WrittenOnce'
      BY <1>9, <2>2, <3>1, <3>2 DEF Retry,
         WrittenOnce
    <3>4. FailuresDisturb'
      BY <1>9, <2>2, <3>1, <3>2 DEF Retry,
         UsableUnlessDisturbed, FailuresDisturb
    <3>5. ClosingIsAwaited'
      BY <1>9, <2>2, <3>1, <3>2, QuietClosing DEF Retry
    <3>6. UsableUnlessDisturbed'
      BY <1>9, <2>2, <3>1, <3>2 DEF Retry,
         FailuresDisturb, SetUpByOne, SetUpInOrder, SetUpListens, UsableUnlessDisturbed
    <3>7. SetUpByOne'
      BY <1>9, <2>2, <3>1, <3>2 DEF Retry,
         SetUpInOrder, SetUpListens, SetUpByOne
    <3>8. SetUpInOrder'
      BY <1>9, <2>2, <3>1, <3>2 DEF Retry,
         SetUpByOne, SetUpListens, SetUpInOrder
    <3>9. SetUpListens'
      BY <1>9, <2>2, <3>1, <3>2 DEF Retry,
         SetUpByOne, SetUpInOrder, SetUpListens
    <3> QED
      BY <3>3, <3>4, <3>5, <3>6, <3>7, <3>8, <3>9, <1>1 DEF EventInv
  <2> QED
    BY <1>9, <2>1, <2>2 DEF Retry
<1>10. ASSUME NEW e \in Emits, Catch(e) PROVE EventInv'
  <2>1. CASE eventConnection = NoConnection
    <3>1. /\ emit'[e].at = "lost" /\ emit'[e].on = emit[e].on /\ emit'[e].again = emit[e].again
          /\ \A other \in Emits \ {e} : emit'[other] = emit[other]
      BY <1>10, <2>1, Proceeds DEF Catch, Labels
    <3>3. WrittenOnce'
      BY <1>10, <2>1, <3>1 DEF Catch,
         WrittenOnce
    <3>4. FailuresDisturb'
      BY <1>10, <2>1, <3>1 DEF Catch,
         UsableUnlessDisturbed, FailuresDisturb
    <3>5. ClosingIsAwaited'
      BY <1>10, <2>1, <3>1, QuietClosing DEF Catch
    <3>6. UsableUnlessDisturbed'
      BY <1>10, <2>1, <3>1 DEF Catch,
         FailuresDisturb, SetUpByOne, SetUpInOrder, SetUpListens, UsableUnlessDisturbed
    <3>7. SetUpByOne'
      BY <1>10, <2>1, <3>1 DEF Catch,
         SetUpInOrder, SetUpListens, SetUpByOne
    <3>8. SetUpInOrder'
      BY <1>10, <2>1, <3>1 DEF Catch,
         SetUpByOne, SetUpListens, SetUpInOrder
    <3>9. SetUpListens'
      BY <1>10, <2>1, <3>1 DEF Catch,
         SetUpByOne, SetUpInOrder, SetUpListens
    <3> QED
      BY <3>3, <3>4, <3>5, <3>6, <3>7, <3>8, <3>9, <1>1 DEF EventInv
  <2>2. CASE eventConnection # NoConnection
    <3>1. /\ emit'[e].at = "close" /\ emit'[e].on = eventConnection
          /\ emit'[e].again = emit[e].again
          /\ \A other \in Emits \ {e} : emit'[other] = emit[other]
      BY <1>10, <2>2 DEF Catch, EmitState
    <3>2. /\ Opened' = Opened
          /\ connections'[eventConnection] = IF IsOpen(eventConnection) THEN "closing"
                                             ELSE connections[eventConnection]
          /\ \A c \in Opened : c # eventConnection => connections'[c] = connections[c]
      BY <1>10, <2>2 DEF Catch
    <3>10. /\ UNCHANGED <<handled, eventConnection>> /\ eventChannel' = NoConnection
           /\ ~muddled' =>
                 /\ ~muddled /\ \A other \in Emits : ~SettingUp(other)
                 /\ eventConnection \in handled /\ IsOpen(eventConnection)
      BY <1>10, <2>2 DEF Catch, SetUpListens
    <3>3. WrittenOnce'
      BY <1>10, <2>2, <3>1, <3>2 DEF Catch,
         WrittenOnce
    <3>4. FailuresDisturb'
      BY <1>10, <2>2, <3>1, <3>2 DEF Catch,
         UsableUnlessDisturbed, FailuresDisturb
    <3>5. ClosingIsAwaited'
      <4>1. ASSUME NEW c \in Opened, connections[c] = "closing"
            PROVE  \E o \in Emits : emit'[o].at = "close" /\ emit'[o].on = c
        <5>1. PICK o \in Emits : emit[o].at = "close" /\ emit[o].on = c
          BY <4>1 DEF ClosingIsAwaited
        <5> QED
          BY <1>10, <3>1, <5>1 DEF Catch
      <4> QED
        BY <3>1, <3>2, <4>1 DEF ClosingIsAwaited
    <3>6. UsableUnlessDisturbed'
      BY <1>10, <2>2, <3>1, <3>2 DEF Catch,
         FailuresDisturb, SetUpByOne, SetUpInOrder, SetUpListens, UsableUnlessDisturbed
    <3>7. SetUpByOne'
      BY <3>1, <3>2, <3>10, ZenonT(60) DEF SetUpByOne
    <3>8. SetUpInOrder'
      BY <2>2, <3>1, <3>2, <3>10 DEF SetUpInOrder
    <3>9. SetUpListens'
      BY <1>10, <2>2, <3>1, <3>2 DEF Catch,
         SetUpByOne, SetUpInOrder, SetUpListens
    <3> QED
      BY <3>3, <3>4, <3>5, <3>6, <3>7, <3>8, <3>9, <1>1 DEF EventInv
  <2> QED
    BY <2>1, <2>2
<1>11. ASSUME NEW e \in Emits, Closed(e) PROVE EventInv'
  <2>1. /\ emit'[e].at = "lost" /\ emit'[e].on = emit[e].on /\ emit'[e].again = emit[e].again
        /\ \A other \in Emits \ {e} : emit'[other] = emit[other]
    BY <1>11, Proceeds DEF Closed, Labels
  <2>3. WrittenOnce'
    BY <1>11, <2>1 DEF Closed,
       WrittenOnce
  <2>4. FailuresDisturb'
    BY <1>11, <2>1 DEF Closed,
       UsableUnlessDisturbed, FailuresDisturb
  <2>5. ClosingIsAwaited'
    BY <1>11, <2>1 DEF Closed, ClosingIsAwaited
  <2>6. UsableUnlessDisturbed'
    BY <1>11, <2>1 DEF Closed,
       FailuresDisturb, SetUpByOne, SetUpInOrder, SetUpListens, UsableUnlessDisturbed
  <2>7. SetUpByOne'
    BY <1>11, <2>1 DEF Closed,
       SetUpInOrder, SetUpListens, SetUpByOne
  <2>8. SetUpInOrder'
    BY <1>11, <2>1 DEF Closed,
       SetUpByOne, SetUpListens, SetUpInOrder
  <2>9. SetUpListens'
    BY <1>11, <2>1 DEF Closed,
       SetUpByOne, SetUpInOrder, SetUpListens
  <2> QED
    BY <2>3, <2>4, <2>5, <2>6, <2>7, <2>8, <2>9, <1>1 DEF EventInv
<1>12. ASSUME NEW c \in Opened, CloseOk(c) PROVE EventInv'
  <2>1. Opened' = Opened
    BY <1>12 DEF CloseOk
  <2>3. WrittenOnce'
    BY <1>12, <2>1 DEF CloseOk, OnClose, WrittenOnce
  <2>4. FailuresDisturb'
    BY <1>12, <2>1 DEF CloseOk, OnClose, UsableUnlessDisturbed, FailuresDisturb
  <2>5. ClosingIsAwaited'
    BY <1>12, <2>1 DEF CloseOk, OnClose, ClosingIsAwaited
  <2>6. UsableUnlessDisturbed'
    BY <1>12, <2>1, SMTT(60)
    DEF CloseOk, OnClose, FailuresDisturb, SetUpByOne, SetUpInOrder, SetUpListens,
        ClosingIsAwaited, UsableUnlessDisturbed
  <2>7. SetUpByOne'
    BY <1>12, <2>1 DEF CloseOk, OnClose, SetUpInOrder, SetUpListens, ClosingIsAwaited, SetUpByOne
  <2>8. SetUpInOrder'
    BY <1>12, <2>1 DEF CloseOk, OnClose, SetUpByOne, SetUpListens, ClosingIsAwaited, SetUpInOrder
  <2>9. SetUpListens'
    BY <1>12, <2>1 DEF CloseOk, OnClose, SetUpByOne, SetUpInOrder, ClosingIsAwaited, SetUpListens
  <2> QED
    BY <2>3, <2>4, <2>5, <2>6, <2>7, <2>8, <2>9, <1>1 DEF EventInv
<1>13. ASSUME NEW S \in SUBSET Opened, Break(S) PROVE EventInv'
  <2>1. Opened' = Opened
    BY <1>13 DEF Break
  <2>3. WrittenOnce'
    BY <1>13, <2>1 DEF Break, OnClose, WrittenOnce
  <2>4. FailuresDisturb'
    BY <1>13, <2>1 DEF Break, OnClose, UsableUnlessDisturbed, FailuresDisturb
  <2>5. ClosingIsAwaited'
    BY <1>13, <2>1 DEF Break, OnClose, ClosingIsAwaited
  <2>6. UsableUnlessDisturbed'
    BY <1>13, <2>1 DEF Break, OnClose, FailuresDisturb, SetUpByOne, SetUpInOrder, SetUpListens, UsableUnlessDisturbed
  <2>7. SetUpByOne'
    BY <1>13, <2>1 DEF Break, OnClose, SetUpInOrder, SetUpListens, SetUpByOne
  <2>8. SetUpInOrder'
    BY <1>13, <2>1, ZenonT(60) DEF Break, OnClose, SetUpByOne, SetUpListens, SetUpInOrder
  <2>9. SetUpListens'
    BY <1>13, <2>1 DEF Break, OnClose, SetUpByOne, SetUpInOrder, SetUpListens
  <2> QED
    BY <2>3, <2>4, <2>5, <2>6, <2>7, <2>8, <2>9, <1>1 DEF EventInv
<1>14. CASE UNCHANGED eventVars
  BY <1>14 DEF eventVars, EventInv, WrittenOnce, FailuresDisturb, ClosingIsAwaited,
     UsableUnlessDisturbed, SetUpByOne, SetUpInOrder, SetUpListens
<1> QED
  BY <1>3, <1>4, <1>5, <1>6, <1>7, <1>8, <1>9, <1>10, <1>11, <1>12, <1>13, <1>14
  DEF EventsNext, EventStep

\* It holds of every reachable state of EventClient.
LEMMA EventInvariant == EventsSpec => []EventInv
<1>1. EventsInit => EventInv
  <2> SUFFICES ASSUME EventsInit PROVE EventInv
    OBVIOUS
  <2> USE EventClientAssumption DEF EventsInit, Opened, NoConnection
  <2>1. /\ connections \in Seq({"open", "closing", "closed"}) /\ Opened = {1}
        /\ connections[1] = "open"
    OBVIOUS
  <2>2. /\ emit \in [Emits -> EmitState]
        /\ \A e \in Emits : emit[e].at = "start" /\ ~emit[e].again
    BY DEF EmitState
  <2>3. EventTypeOK
    BY <2>1, <2>2 DEF EventTypeOK
  <2> QED
    BY <2>1, <2>2, <2>3 DEF EventInv, WrittenOnce, FailuresDisturb, ClosingIsAwaited,
       UsableUnlessDisturbed, SetUpByOne, SetUpInOrder, SetUpListens, SettingUp, IsOpen
<1> QED
  BY <1>1, EventInvStep, PTL DEF EventsSpec

\* However many events are published at the same time, each reaches the exchange,
\* once, unless something breaks or the buffer is full meanwhile, or two had set the
\* client up at once: for any number of events, connections and troubles.
THEOREM EventsReachTheExchange == EventsSpec => []EventsArePublished
<1>1. EventInv => EventsArePublished
  <2> SUFFICES ASSUME EventInv, NEW e \in Emits
               PROVE  /\ emit[e].at = "lost" => e \in disturbed
                      /\ emit[e].at = "published" => published[e] > 0
                      /\ published[e] > 1 => e \in full
    BY DEF EventsArePublished
  <2>1. emit[e].again \in BOOLEAN /\ published[e] \in Nat
    BY DEF EventInv, EventTypeOK, EmitState
  <2> QED
    BY <2>1 DEF EventInv, WrittenOnce, FailuresDisturb
<1> QED
  BY <1>1, EventInvariant, PTL

\* Between events a service has one connection that it listens to, unless the client
\* was set up twice at once, or half.
THEOREM ConnectionIsOne == EventsSpec => []OneConnection
<1>1. EventInv => OneConnection
  <2> SUFFICES ASSUME EventInv, InFlight = {}, ~muddled
               PROVE  /\ \A c \in Opened : connections[c] = "open" => c = eventConnection
                      /\ eventChannel = eventConnection
                      /\ eventConnection # NoConnection =>
                            eventConnection \in handled /\ IsOpen(eventConnection)
    BY DEF OneConnection
  <2>1. \A e \in Emits : ~SettingUp(e)
    BY DEF InFlight, SettingUp
  <2> QED
    BY <2>1 DEF EventInv, SetUpByOne, SetUpListens
<1> QED
  BY <1>1, EventInvariant, PTL

=============================================================================
