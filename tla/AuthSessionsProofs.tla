-------------------------- MODULE AuthSessionsProofs --------------------------
(***************************************************************************)
(* Proofs about sessions and accounts.  Refresh tokens: for any number of  *)
(* clients and devices, one client to a device.  What hangs on an account: *)
(* for any users, phones, links and versions, and any requests.  Both for  *)
(* any values of the bounds.                                               *)
(***************************************************************************)
EXTENDS AuthSessions, Accounts, FiniteSetTheorems, TLAPS

\* Every reachable state of the tokens and sessions is well typed, and a request
\* has what its next step works on.
THEOREM TypeCorrect == Spec => []TypeOK
<1>1. Init => TypeOK
  BY AuthAssumption DEF Init, TypeOK, Keys, Tokens, Pc, Ops
<1>2. TypeOK /\ [Next]_vars => TypeOK'
  <2> SUFFICES ASSUME TypeOK, [Next]_vars
               PROVE  TypeOK'
    OBVIOUS
  <2> USE AuthAssumption DEF Goto, Fault, reqVars
  <2>1. ASSUME NEW c \in Clients, Login(c) PROVE TypeOK'
    BY <2>1 DEF Login, Issue, TypeOK, Keys, Tokens, Pc, Ops
  <2>2. ASSUME NEW c \in Clients, CreateGuestSession(c) PROVE TypeOK'
    BY <2>2 DEF CreateGuestSession, Issue, TypeOK, Keys, Tokens, Pc, Ops
  <2>3. ASSUME NEW c \in Clients, ConvertGuestToRegistered(c) PROVE TypeOK'
    BY <2>3 DEF ConvertGuestToRegistered, Issue, TypeOK, Keys, Tokens, Pc, Ops
  <2>4. ASSUME NEW c \in Clients, RefreshTokens(c) PROVE TypeOK'
    BY <2>4 DEF RefreshTokens, TypeOK, Keys, Tokens, Pc, Ops
  <2>5. ASSUME NEW c \in Clients, GetDeviceToken(c) \/ GetLegacyToken(c) PROVE TypeOK'
    BY <2>5 DEF GetDeviceToken, GetLegacyToken, Compare, Reject, Finish, TypeOK, Keys, Pc, Ops
  <2>6. ASSUME NEW c \in Clients, LoadUser(c) PROVE TypeOK'
    BY <2>6 DEF LoadUser, Issue, TypeOK, Keys, Tokens, Pc
  <2>7. ASSUME NEW c \in Clients, RefreshFails(c) PROVE TypeOK'
    BY <2>7 DEF RefreshFails, Reject, Finish, TypeOK, Keys, Pc, Ops
  <2>8. ASSUME NEW c \in Clients, StoreToken(c) PROVE TypeOK'
    BY <2>8 DEF StoreToken, TypeOK, Keys, Pc
  <2>9. ASSUME NEW c \in Clients, StoreSession(c) PROVE TypeOK'
    BY <2>9 DEF StoreSession, Finish, TypeOK, Keys, Tokens, Pc, Ops
  <2>10. ASSUME NEW c \in Clients, Logout(c) PROVE TypeOK'
    BY <2>10 DEF Logout, TypeOK, Keys, Tokens, Pc, Ops
  <2>11. ASSUME NEW c \in Clients, ScanKeys(c) PROVE TypeOK'
    BY <2>11 DEF ScanKeys, TypeOK, Keys, Pc
  <2>12. ASSUME NEW c \in Clients, NEW keys, Delete(c, keys)
         PROVE  /\ slots' \in [Keys -> Tokens \cup {NoToken}]
                /\ cut' \subseteq Clients
                /\ dead' \subseteq Tokens
                /\ faults' \in 0..MaxFaults
    BY <2>12 DEF Delete, Targets, TypeOK
  <2>13. ASSUME NEW c \in Clients, DeleteDeviceToken(c) \/ DeleteScanned(c) PROVE TypeOK'
    <3>1. PICK keys : Delete(c, keys)
      BY <2>13 DEF DeleteDeviceToken, DeleteScanned
    <3>2. PICK next \in {"revokeRows", "delLegacy"} : pc' = [pc EXCEPT ![c] = next]
      BY <2>13 DEF DeleteDeviceToken, DeleteScanned
    <3>3. pc[c] \in {"del", "delScanned"}
          /\ UNCHANGED <<clock, userType, sessions, op, dev, scan, new, held>>
      BY <2>13 DEF DeleteDeviceToken, DeleteScanned
    <3>4. /\ slots' \in [Keys -> Tokens \cup {NoToken}] /\ cut' \subseteq Clients
          /\ dead' \subseteq Tokens /\ faults' \in 0..MaxFaults
      BY <2>12, <3>1
    <3>5. pc' \in [Clients -> Pc]
      BY <3>2 DEF TypeOK, Pc
    <3>6. held[c] \in Tokens
      BY <3>3 DEF TypeOK
    <3>7. \A d \in Clients :
             /\ pc'[d] \in {"set", "session"} => new'[d] \in Tokens
             /\ pc'[d] \in {"get", "getLegacy", "user", "del", "scan",
                            "delScanned", "delLegacy", "revokeRows"} => held'[d] \in Tokens
      BY <3>2, <3>3, <3>6 DEF TypeOK
    <3> QED
      BY <3>3, <3>4, <3>5, <3>7 DEF TypeOK
  <2>14. ASSUME NEW c \in Clients, DeleteLegacyToken(c) PROVE TypeOK'
    <3>1. /\ slots' \in [Keys -> Tokens \cup {NoToken}] /\ cut' \subseteq Clients
          /\ dead' \subseteq Tokens /\ faults' \in 0..MaxFaults
      BY <2>12, <2>14 DEF DeleteLegacyToken
    <3>2. UNCHANGED <<clock, userType, sessions, held>>
      BY <2>14 DEF DeleteLegacyToken
    <3>3. CASE op[c] = "logout"
      <4>1. Goto(c, "revokeRows") /\ UNCHANGED <<op, dev, scan, new>>
        BY <2>14, <3>3 DEF DeleteLegacyToken
      <4>2. pc' \in [Clients -> Pc]
        BY <4>1 DEF TypeOK, Pc
      <4>3. held[c] \in Tokens
        BY <2>14 DEF DeleteLegacyToken, TypeOK
      <4>4. \A d \in Clients :
             /\ pc'[d] \in {"set", "session"} => new'[d] \in Tokens
             /\ pc'[d] \in {"get", "getLegacy", "user", "del", "scan",
                            "delScanned", "delLegacy", "revokeRows"} => held'[d] \in Tokens
        BY <3>2, <4>1, <4>3 DEF TypeOK
      <4> QED
        BY <3>1, <3>2, <4>1, <4>2, <4>4 DEF TypeOK
    <3>4. CASE op[c] # "logout"
      <4>1. Finish(c)
        BY <2>14, <3>4 DEF DeleteLegacyToken
      <4> QED
        BY <3>1, <3>2, <4>1 DEF TypeOK, Pc, Ops, Keys, Finish
    <3> QED
      BY <3>3, <3>4
  <2>15. ASSUME NEW c \in Clients, RevokeRows(c) PROVE TypeOK'
    BY <2>15 DEF RevokeRows, Finish, TypeOK, Keys, Pc, Ops
  <2>16. ASSUME NEW c \in Clients, RevokeAllSessions(c) \/ RevokeSession(c) PROVE TypeOK'
    BY <2>16 DEF RevokeAllSessions, RevokeSession, TypeOK, Keys, Pc, Ops
  <2>17. ASSUME NEW k \in Keys, Expire(k) PROVE TypeOK'
    BY <2>17 DEF Expire, TypeOK, Keys
  <2>18. ASSUME Tick \/ UNCHANGED vars PROVE TypeOK'
    BY <2>18 DEF Tick, vars, TypeOK
  <2> QED
    BY <2>1, <2>2, <2>3, <2>4, <2>5, <2>6, <2>7, <2>8, <2>9, <2>10, <2>11, <2>13, <2>14,
       <2>15, <2>16, <2>17, <2>18 DEF Next
<1> QED
  BY <1>1, <1>2, PTL DEF Spec

-----------------------------------------------------------------------------
(* Deleted tokens.  A token lies under the key that it names, and one that *)
(* is about to be stored is not dead: a deletion spares those on their way.*)

KeyedByDevice == \A k \in Keys : slots[k] # NoToken => slots[k].dev = k

NewIsNotDead == \A c \in Clients : pc[c] = "set" => new[c] \notin dead

DeadInv == KeyedByDevice /\ NewIsNotDead /\ DeletedStaysDeleted

\* Issuing a token takes it off the dead ones.
LEMMA IssueKeepsDead ==
    ASSUME TypeOK, DeadInv, NEW c \in Clients, NEW d \in Keys, NEW guest \in BOOLEAN,
           Issue(c, d, guest), UNCHANGED slots
    PROVE  DeadInv'
<1>1. dead' \subseteq dead
  BY DEF Issue
<1>2. NewIsNotDead'
  BY <1>1 DEF Issue, Goto, DeadInv, NewIsNotDead, TypeOK
<1> QED
  BY <1>1, <1>2 DEF DeadInv, KeyedByDevice, DeletedStaysDeleted

\* A deletion kills what it finds under its keys, and what is nowhere.
LEMMA DeleteKeepsDead ==
    ASSUME TypeOK, DeadInv, NEW c \in Clients, NEW keys, Delete(c, keys),
           \A d \in Clients : pc'[d] = "set" => pc[d] = "set" /\ new'[d] = new[d]
    PROVE  DeadInv'
<1>1. CASE UNCHANGED <<slots, dead>>
  BY <1>1 DEF DeadInv, KeyedByDevice, NewIsNotDead, DeletedStaysDeleted
<1>2. CASE /\ slots' = [k \in Keys |-> IF k \in keys THEN NoToken ELSE slots[k]]
           /\ dead' = dead \cup ({t \in Tokens : t.dev \in keys} \ OnTheWay)
  <2>1. NewIsNotDead'
    BY <1>2 DEF DeadInv, NewIsNotDead, OnTheWay
  <2>2. NoToken \notin Tokens
    BY AuthAssumption DEF Tokens, Keys
  <2>3. DeletedStaysDeleted'
    BY <1>2, <2>2 DEF DeadInv, KeyedByDevice, DeletedStaysDeleted, TypeOK
  <2>4. KeyedByDevice'
    BY <1>2 DEF DeadInv, KeyedByDevice
  <2> QED
    BY <2>1, <2>3, <2>4 DEF DeadInv
<1> QED
  BY <1>1, <1>2 DEF Delete

\* A token that a logout has deleted never comes back, whatever requests overlap.
THEOREM DeletedTokensStayDeleted == Spec => []DeletedStaysDeleted
<1>1. Init => DeadInv
  BY DEF Init, DeadInv, KeyedByDevice, NewIsNotDead, DeletedStaysDeleted
<1>2. TypeOK /\ DeadInv /\ [Next]_vars => DeadInv'
  <2> SUFFICES ASSUME TypeOK, DeadInv, [Next]_vars
               PROVE  DeadInv'
    OBVIOUS
  <2> USE DEF reqVars
  <2>1. ASSUME NEW c \in Clients, \/ Login(c) \/ CreateGuestSession(c)
                                  \/ ConvertGuestToRegistered(c) \/ LoadUser(c)
        PROVE  DeadInv'
    <3>1. PICK d \in Keys, guest \in BOOLEAN : Issue(c, d, guest)
      BY <2>1, AuthAssumption DEF Login, CreateGuestSession, ConvertGuestToRegistered,
                                  LoadUser, TypeOK, Keys, Tokens
    <3>2. UNCHANGED slots
      BY <2>1 DEF Login, CreateGuestSession, ConvertGuestToRegistered, LoadUser
    <3> QED
      BY <3>1, <3>2, IssueKeepsDead
  <2>2. ASSUME NEW c \in Clients, StoreToken(c) PROVE DeadInv'
    <3>1. pc[c] = "set" /\ new[c] \in Tokens /\ new[c] \notin dead
          /\ UNCHANGED <<new, dead>> /\ \A d \in Clients : pc'[d] = "set" => pc[d] = "set"
      BY <2>2 DEF StoreToken, Goto, TypeOK, DeadInv, NewIsNotDead
    <3>2. slots' = slots \/ slots' = [slots EXCEPT ![new[c].dev] = new[c]]
      BY <2>2 DEF StoreToken
    <3> QED
      BY <3>1, <3>2 DEF DeadInv, KeyedByDevice, NewIsNotDead, DeletedStaysDeleted, TypeOK
  <2>3. ASSUME NEW c \in Clients,
               DeleteDeviceToken(c) \/ DeleteScanned(c) \/ DeleteLegacyToken(c)
        PROVE  DeadInv'
    <3>1. PICK keys : Delete(c, keys)
      BY <2>3 DEF DeleteDeviceToken, DeleteScanned, DeleteLegacyToken
    <3>2. PICK next \in {"revokeRows", "delLegacy", "idle"} : pc' = [pc EXCEPT ![c] = next]
      BY <2>3 DEF DeleteDeviceToken, DeleteScanned, DeleteLegacyToken, Goto, Finish
    <3>3. \A d \in Clients : pc'[d] = "set" => pc[d] = "set" /\ new'[d] = new[d]
      BY <2>3, <3>2 DEF DeleteDeviceToken, DeleteScanned, DeleteLegacyToken, Finish, TypeOK
    <3> QED
      BY <3>1, <3>3, DeleteKeepsDead
  <2>4. ASSUME NEW k \in Keys, Expire(k) PROVE DeadInv'
    <3>1. NoToken \notin Tokens
      BY AuthAssumption DEF Tokens, Keys
    <3> QED
      BY <2>4, <3>1 DEF Expire, DeadInv, KeyedByDevice, NewIsNotDead, DeletedStaysDeleted, TypeOK
  <2>5. ASSUME UNCHANGED <<slots, dead>>,
               \A d \in Clients : pc'[d] = "set" => pc[d] = "set" /\ new'[d] = new[d]
        PROVE  DeadInv'
    BY <2>5 DEF DeadInv, KeyedByDevice, NewIsNotDead, DeletedStaysDeleted
  <2>6. ASSUME NEW c \in Clients,
               \/ RefreshTokens(c) \/ GetDeviceToken(c) \/ GetLegacyToken(c) \/ RefreshFails(c)
               \/ StoreSession(c) \/ Logout(c) \/ ScanKeys(c) \/ RevokeRows(c)
               \/ RevokeAllSessions(c) \/ RevokeSession(c)
        PROVE  DeadInv'
    <3>1. UNCHANGED <<slots, dead>>
      BY <2>6 DEF RefreshTokens, GetDeviceToken, GetLegacyToken, RefreshFails, StoreSession,
                  Logout, ScanKeys, RevokeRows, RevokeAllSessions, RevokeSession
    <3>2. PICK next \in Pc \ {"set"} : pc' = [pc EXCEPT ![c] = next]
      BY <2>6 DEF RefreshTokens, GetDeviceToken, GetLegacyToken, RefreshFails, StoreSession,
                  Logout, ScanKeys, RevokeRows, RevokeAllSessions, RevokeSession, Compare,
                  Reject, Finish, Goto, Pc
    <3>3. \A d \in Clients \ {c} : new'[d] = new[d]
      BY <2>6 DEF RefreshTokens, GetDeviceToken, GetLegacyToken, RefreshFails, StoreSession,
                  Logout, ScanKeys, RevokeRows, RevokeAllSessions, RevokeSession, Compare,
                  Reject, Finish, TypeOK
    <3> QED
      BY <2>5, <3>1, <3>2, <3>3 DEF TypeOK
  <2>7. ASSUME Tick \/ UNCHANGED vars PROVE DeadInv'
    BY <2>5, <2>7 DEF Tick, vars
  <2> QED
    BY <2>1, <2>2, <2>3, <2>4, <2>6, <2>7 DEF Next
<1>3. DeadInv => DeletedStaysDeleted
  BY DEF DeadInv
<1> QED
  BY <1>1, <1>2, <1>3, TypeCorrect, PTL DEF Spec
-----------------------------------------------------------------------------
(* Access.  A client only ever has tokens of its own device, or, if it is  *)
(* the one that was a guest, without a device.  As devices are not shared, *)
(* nobody else writes under its keys; and whatever deletes under them cuts *)
(* it off.                                                                 *)

KeysOf(c) == {k \in Keys : k = DeviceOf[c] \/ (k = NoDevice /\ DeviceOf[c] = UserDevice)}

\* What the requests carry.
OwnTokens ==
    \A c \in Clients :
        /\ held[c] # NoToken => held[c].dev \in KeysOf(c)
        /\ new[c] # NoToken => new[c].dev \in KeysOf(c)
        /\ userType = "GUEST" /\ (held[c] # NoToken \/ new[c] # NoToken) => DeviceOf[c] = UserDevice
        /\ dev[c] \in {DeviceOf[c], NoDevice}
        /\ pc[c] \in {"get", "getLegacy", "user"} /\ dev[c] = NoDevice => held[c].dev = NoDevice

\* Which steps belong to which operation.
Control ==
    \A c \in Clients :
        /\ op[c] \in {"revokeAll", "revokeOne"} => pc[c] = "delLegacy"
        /\ op[c] = "logout" /\ dev[c] # NoDevice => pc[c] \in {"del", "revokeRows"}
        /\ pc[c] = "delLegacy" => op[c] \in {"logout", "revokeAll", "revokeOne"}
        /\ pc[c] = "del" => op[c] = "logout" /\ dev[c] # NoDevice
        /\ pc[c] = "idle" <=> op[c] = "none"
        /\ pc[c] \in {"scan", "delScanned"} => op[c] = "logout"
        /\ pc[c] \in {"get", "getLegacy", "user"} => op[c] = "refresh"

Access ==
    \A c \in Clients \ cut :
        /\ pc[c] = "session" => slots[new[c].dev] = new[c]
        /\ op[c] \in {"none", "revokeAll", "revokeOne"} /\ held[c] # NoToken
              => slots[held[c].dev] = held[c]

\* The keys of different clients are different.
LEMMA KeysAreOwn ==
    ASSUME NEW c \in Clients, NEW d \in Clients, c # d
    PROVE  KeysOf(c) \cap KeysOf(d) = {}
BY AuthAssumption DEF KeysOf
AccessInv == OwnTokens /\ Control /\ Access

\* A client that gets or keeps a token has one of its own keys.
LEMMA OwnKeys ==
    ASSUME TypeOK, NEW c \in Clients
    PROVE  /\ DeviceOf[c] \in KeysOf(c) /\ DeviceOf[c] # NoDevice
           /\ DeviceOf[c] = UserDevice => NoDevice \in KeysOf(c)
           /\ NoDevice \in KeysOf(c) => DeviceOf[c] = UserDevice
           /\ \A k \in KeysOf(c) : k = DeviceOf[c] \/ k = NoDevice
           /\ NoToken \notin Tokens
BY AuthAssumption DEF KeysOf, Keys, Tokens

\* What a request carries, and where it is, step by step.
LEMMA OwnedStep ==
    ASSUME TypeOK, OwnTokens, Control, [Next]_vars
    PROVE  OwnTokens' /\ Control'
<1> USE AuthAssumption DEF Goto, Fault, reqVars
<1>1. ASSUME NEW c \in Clients, Login(c) PROVE OwnTokens' /\ Control'
  BY <1>1, OwnKeys DEF Login, Issue, TypeOK, OwnTokens, Control
<1>2. ASSUME NEW c \in Clients, CreateGuestSession(c) PROVE OwnTokens' /\ Control'
  BY <1>2, OwnKeys DEF CreateGuestSession, Issue, TypeOK, OwnTokens, Control
<1>3. ASSUME NEW c \in Clients, ConvertGuestToRegistered(c) PROVE OwnTokens' /\ Control'
  BY <1>3, OwnKeys DEF ConvertGuestToRegistered, Issue, TypeOK, OwnTokens, Control
<1>4. ASSUME NEW c \in Clients, RefreshTokens(c) PROVE OwnTokens' /\ Control'
  BY <1>4, OwnKeys DEF RefreshTokens, TypeOK, OwnTokens, Control
<1>5. ASSUME NEW c \in Clients, GetDeviceToken(c) \/ GetLegacyToken(c)
      PROVE  OwnTokens' /\ Control'
  BY <1>5 DEF GetDeviceToken, GetLegacyToken, Compare, Reject, Finish, TypeOK, OwnTokens, Control
<1>6. ASSUME NEW c \in Clients, LoadUser(c) PROVE OwnTokens' /\ Control'
  BY <1>6, OwnKeys DEF LoadUser, Issue, TypeOK, OwnTokens, Control
<1>7. ASSUME NEW c \in Clients, RefreshFails(c) PROVE OwnTokens' /\ Control'
  BY <1>7 DEF RefreshFails, Reject, Finish, TypeOK, OwnTokens, Control
<1>8. ASSUME NEW c \in Clients, StoreToken(c) PROVE OwnTokens' /\ Control'
  BY <1>8 DEF StoreToken, TypeOK, OwnTokens, Control
<1>9. ASSUME NEW c \in Clients, StoreSession(c) PROVE OwnTokens' /\ Control'
  BY <1>9 DEF StoreSession, Finish, TypeOK, OwnTokens, Control
<1>10. ASSUME NEW c \in Clients, Logout(c) PROVE OwnTokens' /\ Control'
  BY <1>10, OwnKeys DEF Logout, TypeOK, OwnTokens, Control
<1>11. ASSUME NEW c \in Clients, ScanKeys(c) PROVE OwnTokens' /\ Control'
  BY <1>11 DEF ScanKeys, TypeOK, OwnTokens, Control
<1>12. ASSUME NEW c \in Clients, DeleteDeviceToken(c) \/ DeleteScanned(c)
       PROVE  OwnTokens' /\ Control'
  BY <1>12 DEF DeleteDeviceToken, DeleteScanned, TypeOK, OwnTokens, Control
<1>13. ASSUME NEW c \in Clients, DeleteLegacyToken(c) PROVE OwnTokens' /\ Control'
  BY <1>13 DEF DeleteLegacyToken, Finish, TypeOK, OwnTokens, Control
<1>14. ASSUME NEW c \in Clients, RevokeRows(c) PROVE OwnTokens' /\ Control'
  BY <1>14 DEF RevokeRows, Finish, TypeOK, OwnTokens, Control
<1>15. ASSUME NEW c \in Clients, RevokeAllSessions(c) \/ RevokeSession(c)
       PROVE  OwnTokens' /\ Control'
  BY <1>15 DEF RevokeAllSessions, RevokeSession, TypeOK, OwnTokens, Control
<1>16. ASSUME (\E k \in Keys : Expire(k)) \/ Tick \/ UNCHANGED vars PROVE OwnTokens' /\ Control'
  BY <1>16 DEF Expire, Tick, vars, OwnTokens, Control
<1> QED
  BY <1>1, <1>2, <1>3, <1>4, <1>5, <1>6, <1>7, <1>8, <1>9, <1>10, <1>11, <1>12, <1>13,
     <1>14, <1>15, <1>16 DEF Next
\* A deletion cuts off everybody whose token it takes.
LEMMA DeleteKeepsAccess ==
    ASSUME TypeOK, OwnTokens, Access, NEW c \in Clients, NEW keys, Delete(c, keys),
           op[c] # "none",
           op[c] = "logout" /\ dev[c] # NoDevice => keys = {dev[c]},
           op[c] = "revokeOne" => keys = {NoDevice}
    PROVE  \A d \in Clients \ cut' :
              /\ d \notin cut
              /\ pc[d] = "session" /\ d # c => slots'[new[d].dev] = new[d]
              /\ op[d] \in {"none", "revokeAll", "revokeOne"} /\ held[d] # NoToken
                    => slots'[held[d].dev] = held[d]
<1>1. CASE UNCHANGED <<slots, cut>>
  BY <1>1 DEF Access
<1>2. CASE /\ slots' = [k \in Keys |-> IF k \in keys THEN NoToken ELSE slots[k]]
           /\ cut' = cut \cup Targets(c)
  <2>1. CASE op[c] = "logout" /\ dev[c] # NoDevice
    <3>1. Targets(c) = {c} /\ keys = {DeviceOf[c]}
      BY <2>1 DEF Targets, OwnTokens
    <3>2. ASSUME NEW d \in Clients \ {c}
          PROVE  DeviceOf[c] \notin KeysOf(d)
      BY OwnKeys, KeysAreOwn
    <3>3. ASSUME NEW d \in Clients \ cut'
          PROVE  /\ d # c /\ d \notin cut
                 /\ \A k \in KeysOf(d) : slots'[k] = slots[k]
                 /\ pc[d] = "session" => new[d].dev \in KeysOf(d)
                 /\ held[d] # NoToken => held[d].dev \in KeysOf(d)
      <4>1. d # c /\ d \notin cut
        BY <1>2, <3>1
      <4>2. \A k \in KeysOf(d) : slots'[k] = slots[k]
        BY <1>2, <3>1, <3>2, <4>1 DEF KeysOf
      <4>3. /\ pc[d] = "session" => new[d].dev \in KeysOf(d)
            /\ held[d] # NoToken => held[d].dev \in KeysOf(d)
        BY OwnKeys DEF OwnTokens, TypeOK
      <4> QED
        BY <4>1, <4>2, <4>3
    <3> QED
      BY <3>3 DEF Access
  <2>2. CASE op[c] = "revokeOne"
    <3>1. ASSUME NEW d \in Clients \ cut'
          PROVE  /\ held[d] # NoToken => held[d].dev # NoDevice
                 /\ new[d] # NoToken => new[d].dev # NoDevice
      BY <1>2, <2>2 DEF Targets
    <3>2. NoToken \notin Tokens
      BY AuthAssumption DEF Tokens, Keys
    <3> QED
      BY <1>2, <2>2, <3>1, <3>2 DEF Access, OwnTokens, TypeOK, KeysOf
  <2>3. CASE ~(op[c] = "logout" /\ dev[c] # NoDevice) /\ op[c] # "revokeOne"
    BY <1>2, <2>3 DEF Targets
  <2> QED
    BY <2>1, <2>2, <2>3
<1> QED
  BY <1>1, <1>2 DEF Delete

\* A client's access, step by step.
LEMMA AccessStep ==
    ASSUME TypeOK, OwnTokens, Control, Access, [Next]_vars
    PROVE  Access'
<1> USE AuthAssumption DEF Goto, Fault, reqVars
<1>1. ASSUME NEW c \in Clients, \/ Login(c) \/ CreateGuestSession(c)
                                \/ ConvertGuestToRegistered(c) \/ LoadUser(c)
      PROVE  Access'
  <2>1. /\ UNCHANGED <<slots, held>> /\ cut \ {c} = cut' \ {c}
        /\ pc' = [pc EXCEPT ![c] = "set"] /\ \A d \in Clients \ {c} : new'[d] = new[d]
    BY <1>1 DEF Login, CreateGuestSession, ConvertGuestToRegistered, LoadUser, Issue, TypeOK
  <2>2. /\ \A d \in Clients \ {c} : op'[d] = op[d]
        /\ op'[c] \notin {"none", "revokeAll", "revokeOne"}
    BY <1>1 DEF Login, CreateGuestSession, ConvertGuestToRegistered, LoadUser, TypeOK, Control
  <2> QED
    BY <2>1, <2>2 DEF Access, TypeOK
<1>2. ASSUME NEW c \in Clients, RefreshTokens(c) \/ Logout(c) \/ ScanKeys(c)
      PROVE  Access'
  <2>1. /\ UNCHANGED <<slots, held, new, cut>>
        /\ \E next \in Pc \ {"session"} : pc' = [pc EXCEPT ![c] = next]
    BY <1>2 DEF RefreshTokens, Logout, ScanKeys, Pc
  <2>2. /\ \A d \in Clients \ {c} : op'[d] = op[d]
        /\ op'[c] \notin {"none", "revokeAll", "revokeOne"}
    BY <1>2 DEF RefreshTokens, Logout, ScanKeys, TypeOK, Control
  <2> QED
    BY <2>1, <2>2 DEF Access, TypeOK
<1>3. ASSUME NEW c \in Clients, \/ GetDeviceToken(c) \/ GetLegacyToken(c) \/ RefreshFails(c)
                                \/ RevokeRows(c)
      PROVE  Access'
  <2>1. UNCHANGED slots /\ cut \subseteq cut'
    BY <1>3 DEF GetDeviceToken, GetLegacyToken, RefreshFails, RevokeRows
  <2>2. \A d \in Clients \ {c} :
           op'[d] = op[d] /\ pc'[d] = pc[d] /\ new'[d] = new[d] /\ held'[d] = held[d]
    BY <1>3 DEF GetDeviceToken, GetLegacyToken, RefreshFails, RevokeRows, Compare, Reject,
                Finish, TypeOK
  <2>3. /\ pc'[c] # "session"
        /\ op'[c] \notin {"none", "revokeAll", "revokeOne"} \/ held'[c] = NoToken
    BY <1>3 DEF GetDeviceToken, GetLegacyToken, RefreshFails, RevokeRows, Compare, Reject,
                Finish, TypeOK, Control
  <2> QED
    BY <2>1, <2>2, <2>3 DEF Access
<1>4. ASSUME NEW c \in Clients, StoreToken(c) PROVE Access'
  <2>1. /\ pc[c] = "set" /\ new[c] \in Tokens /\ new[c].dev \in KeysOf(c)
        /\ op[c] \notin {"none", "revokeAll", "revokeOne"}
    BY <1>4, OwnKeys DEF StoreToken, TypeOK, OwnTokens, Control
  <2>2. UNCHANGED <<new, held, op>> /\ pc' = [pc EXCEPT ![c] = "session"] /\ cut \subseteq cut'
    BY <1>4 DEF StoreToken
  <2>3. /\ c \notin cut' => slots'[new[c].dev] = new[c]
        /\ \A k \in Keys \ KeysOf(c) : slots'[k] = slots[k]
    BY <1>4, <2>1 DEF StoreToken, TypeOK, KeysOf
  <2>4. ASSUME NEW d \in Clients \ {c}, d \notin cut'
        PROVE  /\ pc[d] = "session" => slots'[new[d].dev] = new[d]
               /\ op[d] \in {"none", "revokeAll", "revokeOne"} /\ held[d] # NoToken
                    => slots'[held[d].dev] = held[d]
    <3>1. KeysOf(c) \cap KeysOf(d) = {} /\ KeysOf(d) \subseteq Keys
      BY KeysAreOwn DEF KeysOf
    <3>2. /\ pc[d] = "session" => new[d].dev \in KeysOf(d)
          /\ held[d] # NoToken => held[d].dev \in KeysOf(d)
      BY OwnKeys DEF OwnTokens, TypeOK
    <3>3. \A k \in KeysOf(d) : slots'[k] = slots[k]
      BY <2>3, <3>1
    <3>4. d \in Clients \ cut
      BY <2>2, <2>4
    <3>5. /\ pc[d] = "session" => slots[new[d].dev] = new[d]
          /\ op[d] \in {"none", "revokeAll", "revokeOne"} /\ held[d] # NoToken
               => slots[held[d].dev] = held[d]
      BY <3>4 DEF Access
    <3> QED
      BY <3>2, <3>3, <3>5
  <2> QED
    BY <2>1, <2>2, <2>3, <2>4 DEF Access, TypeOK
<1>5. ASSUME NEW c \in Clients, StoreSession(c) PROVE Access'
  <2>1. /\ UNCHANGED slots /\ cut \subseteq cut'
        /\ c \notin cut' => pc[c] = "session" /\ held'[c] = new[c]
        /\ pc'[c] = "idle"
    BY <1>5 DEF StoreSession, Finish, TypeOK
  <2>2. \A d \in Clients \ {c} :
           op'[d] = op[d] /\ pc'[d] = pc[d] /\ new'[d] = new[d] /\ held'[d] = held[d]
    BY <1>5 DEF StoreSession, Finish, TypeOK
  <2> QED
    BY <2>1, <2>2 DEF Access
<1>6. ASSUME NEW c \in Clients, DeleteDeviceToken(c) \/ DeleteScanned(c) \/ DeleteLegacyToken(c)
      PROVE  Access'
  <2>1. PICK keys : /\ Delete(c, keys)
                    /\ op[c] # "none"
                    /\ op[c] = "logout" /\ dev[c] # NoDevice => keys = {dev[c]}
                    /\ op[c] = "revokeOne" => keys = {NoDevice}
    BY <1>6 DEF DeleteDeviceToken, DeleteScanned, DeleteLegacyToken, Control
  <2>2. \A d \in Clients \ {c} : op'[d] = op[d] /\ pc'[d] = pc[d] /\ new'[d] = new[d]
    BY <1>6 DEF DeleteDeviceToken, DeleteScanned, DeleteLegacyToken, Finish, TypeOK
  <2>3. /\ UNCHANGED held /\ pc'[c] # "session"
        /\ op'[c] \in {"none", "revokeAll", "revokeOne"}
              => op[c] \in {"none", "revokeAll", "revokeOne"}
    BY <1>6 DEF DeleteDeviceToken, DeleteScanned, DeleteLegacyToken, Finish, TypeOK, Control
  <2>4. \A d \in Clients \ cut' :
              /\ d \notin cut
              /\ pc[d] = "session" /\ d # c => slots'[new[d].dev] = new[d]
              /\ op[d] \in {"none", "revokeAll", "revokeOne"} /\ held[d] # NoToken
                    => slots'[held[d].dev] = held[d]
    BY <2>1, DeleteKeepsAccess
  <2> QED
    BY <2>2, <2>3, <2>4 DEF Access
<1>7. ASSUME NEW c \in Clients, RevokeAllSessions(c) \/ RevokeSession(c) PROVE Access'
  <2>1. /\ UNCHANGED <<slots, held, new, cut>> /\ pc' = [pc EXCEPT ![c] = "delLegacy"]
        /\ op[c] = "none" /\ \A d \in Clients \ {c} : op'[d] = op[d]
    BY <1>7 DEF RevokeAllSessions, RevokeSession, Control, TypeOK
  <2> QED
    BY <2>1 DEF Access, TypeOK
<1>8. ASSUME NEW k \in Keys, Expire(k) PROVE Access'
  <2>1. /\ UNCHANGED <<pc, op, held, new>> /\ slots' = [slots EXCEPT ![k] = NoToken]
        /\ cut' = cut \cup {c \in Clients : held[c] = slots[k] \/ new[c] = slots[k]}
    BY <1>8 DEF Expire
  <2>2. NoToken \notin Tokens
    BY AuthAssumption DEF Tokens, Keys
  <2> QED
    BY <2>1, <2>2 DEF Access, TypeOK
<1>9. ASSUME Tick \/ UNCHANGED vars PROVE Access'
  BY <1>9 DEF Tick, vars, Access
<1> QED
  BY <1>1, <1>2, <1>3, <1>4, <1>5, <1>6, <1>7, <1>8, <1>9 DEF Next

\* Multi-device support, for any number of clients with devices of their own: no
\* request of one takes the token of another away, but by logging it out.
THEOREM ClientsKeepAccess == Spec => []KeepsAccess
<1>1. Init => AccessInv
  BY AuthAssumption DEF Init, AccessInv, OwnTokens, Control, Access
<1>2. TypeOK /\ AccessInv /\ [Next]_vars => AccessInv'
  BY OwnedStep, AccessStep DEF AccessInv
<1>3. AccessInv => KeepsAccess
  BY DEF AccessInv, Control, Access, KeepsAccess
<1> QED
  BY <1>1, <1>2, <1>3, TypeCorrect, PTL DEF Spec

-----------------------------------------------------------------------------
(* The accounts                                                            *)

\* A table with a row more keeps its type and its other rows.
LEMMA OneMore ==
    ASSUME NEW f, NEW R, f \in [DOMAIN f -> R], NEW x, x \notin DOMAIN f, NEW y \in R
    PROVE  /\ DOMAIN Plus(f, x, y) = DOMAIN f \cup {x}
           /\ Plus(f, x, y) \in [DOMAIN Plus(f, x, y) -> R]
BY DEF Plus

\* A set whose members are all the same has one at most.
LEMMA AllSame ==
    ASSUME NEW S, \A x, y \in S : x = y
    PROVE  Cardinality(S) <= 1
<1>1. CASE S = {}
  BY <1>1, FS_EmptySet
<1>2. CASE S # {}
  <2>1. PICK x : x \in S
    BY <1>2
  <2>2. S = {x}
    BY <2>1
  <2> QED BY <2>2, FS_Singleton
<1> QED BY <1>1, <1>2

-----------------------------------------------------------------------------
\* The requests about a reset link, about a device.
AboutLink   == {"expire", "change"}
AboutDevice == {"reuse", "lookup", "transfer", "insert"}

\* What the types leave open.
Bound ==
    /\ asked + left <= MaxRequests
    /\ \A q \in Requests : req[q].at \in AboutLink => req[q].on \in DOMAIN links

TypeInv == AccountsTypeOK /\ Bound

\* What a request holds at each of its places.
LEMMA WhatIsFound ==
    ASSUME NEW x \in Found
    PROVE  /\ x.at = "insertGuest" => x.on \in Phones
           /\ x.at \in {"convert", "erase"} => x.on \in Users
           /\ x.at \in AboutDevice =>
                /\ x \in [at : AboutDevice, on : Phones, user : Users, token : PushToken,
                          row : Rows \cup {None}, phone : Phones \cup {None}]
           /\ x.at = "deactivate" => x.on \in Phones /\ x.row \in Rows /\ x.user \in Users
           /\ x.at = "newLink" => x.on = "mail"
           /\ x.at \in AboutLink => x.on \in Links
           /\ x.at \in {"unmark", "createTerms", "updateTerms"} =>
                /\ x \in [at : {"unmark", "createTerms", "updateTerms"}, on : {"terms"},
                          version : Versions, isLatest : BOOLEAN,
                          then : {"createTerms", "updateTerms"}]
           /\ x.at \in {"idle", "insertGuest", "convert", "erase", "deactivate", "newLink"}
                       \cup AboutDevice \cup AboutLink \cup {"unmark", "createTerms", "updateTerms"}
           /\ x.at = "idle" => x = Idle
BY DEF Found, Idle, AboutDevice, AboutLink, PushToken

\* A request takes another state, the others keep theirs.
LEMMA NewRequest ==
    ASSUME req \in [Requests -> Found], NEW r \in Requests, NEW x \in Found,
           req' = [req EXCEPT ![r] = x]
    PROVE  /\ req' \in [Requests -> Found]
           /\ req'[r] = x
           /\ \A q \in Requests \ {r} : req'[q] = req[q]
OBVIOUS

\* What two requests are about at once is recorded; nothing is about None.
LEMMA RaceTyped ==
    ASSUME TypeInv, NEW r \in Requests, NEW y \in Phones \cup {None} \cup Links \cup {"mail", "terms"},
           Race(y, Busy(r, y))
    PROVE  raced' \subseteq Phones \cup Links \cup {"mail", "terms"}
<1>1. ASSUME NEW q \in Requests, req[q] # Idle PROVE req[q].on # None
  <2>1. req[q] \in Found
    BY DEF TypeInv, AccountsTypeOK
  <2> QED BY <1>1, <2>1, AccountsAssumption DEF Found, None
<1> QED BY <1>1 DEF Race, Busy, TypeInv, AccountsTypeOK

\* A table without rows.
LEMMA NoRows ==
    ASSUME NEW R
    PROVE  DOMAIN <<>> = {} /\ <<>> \in [DOMAIN <<>> -> R]
OBVIOUS

\* Accounts begin well typed.
LEMMA AccountsTypeInit == AccountsInit => TypeInv
<1> SUFFICES ASSUME AccountsInit PROVE TypeInv
  OBVIOUS
<1> USE AccountsAssumption DEF AccountsInit
<1>1. DOMAIN users \subseteq Users /\ users \in [DOMAIN users -> Account]
  BY NoRows DEF Account
<1>2. DOMAIN devices = {} /\ devices \in [DOMAIN devices -> Device]
  BY NoRows
<1>3. DOMAIN links = {} /\ links \in [DOMAIN links -> ResetLink]
  BY NoRows
<1>4. DOMAIN latest = {} /\ latest \in [DOMAIN latest -> BOOLEAN]
  BY NoRows
<1>5. Idle \in Found /\ Idle.at = "idle"
  BY DEF Found, Idle
<1>6. Bound
  BY <1>5 DEF Bound, AboutLink
<1>7. /\ \A d, e \in DOMAIN devices : devices[d].token = devices[e].token => d = e
      /\ old \cup marks \subseteq DOMAIN links
      /\ raced \subseteq Phones \cup Links \cup {"mail", "terms"}
      /\ refused \cup unnamed \cup cutOff \subseteq Phones
  BY <1>2
<1>8. /\ token \in [Phones -> 1..MaxTokens]
      /\ req \in [Requests -> Found]
      /\ last \in [Phones -> LastLogin]
      /\ uses \in [Links -> Nat]
  BY <1>5 DEF LastLogin
<1>9. /\ asked \in 0..MaxRequests
      /\ left \in 0..MaxRequests
      /\ failures \in 0..MaxFailures
      /\ focus \in {"guests", "devices", "reset", "terms"}
  OBVIOUS
<1> HIDE DEF AccountsInit
<1> QED
  BY <1>1, <1>2, <1>3, <1>4, <1>6, <1>7, <1>8, <1>9 DEF TypeInv, AccountsTypeOK

\* A request arrives or goes on.
LEMMA RequestMoves ==
    ASSUME TypeInv, NEW r \in Requests, NEW x \in Found, Begin(r, 0, x) \/ GoOn(r, x),
           x.at \in AboutLink => x.on \in DOMAIN links', DOMAIN links \subseteq DOMAIN links',
           asked' = asked
    PROVE  /\ focus' = focus
           /\ req' \in [Requests -> Found]
           /\ req'[r] = x
           /\ \A q \in Requests \ {r} : req'[q] = req[q]
           /\ left' \in 0..MaxRequests
           /\ failures' \in 0..MaxFailures
           /\ Bound'
<1> USE AccountsAssumption DEF TypeInv, AccountsTypeOK
<1>1. req' = [req EXCEPT ![r] = x] /\ focus' = focus /\ failures' = failures
  BY DEF Begin, GoOn
<1>2. left' \in 0..MaxRequests /\ left' <= left
  BY DEF Begin, GoOn
<1>3. /\ req' \in [Requests -> Found]
      /\ req'[r] = x
      /\ \A q \in Requests \ {r} : req'[q] = req[q]
  BY <1>1, NewRequest
<1>4. Bound'
  BY <1>2, <1>3 DEF Bound
<1> QED BY <1>1, <1>2, <1>3, <1>4

\* The kinds of places a request may be found at.
LEMMA PlacesTyped ==
    /\ Idle \in Found /\ Idle.at = "idle" /\ "idle" \notin AboutLink
    /\ \A p \in Phones : [at |-> "insertGuest", on |-> p] \in Found
    /\ \A u \in Users : [at |-> "convert", on |-> u] \in Found /\ [at |-> "erase", on |-> u] \in Found
    /\ \A p \in Phones, u \in Users, d \in Rows :
          [at |-> "deactivate", on |-> p, user |-> u, row |-> d] \in Found
    /\ [at |-> "newLink", on |-> "mail"] \in Found
    /\ \A l \in Links, a \in AboutLink : [at |-> a, on |-> l] \in Found
BY DEF Found, Idle, AboutLink

\* A row is replaced in its table.
LEMMA RowChanged ==
    ASSUME NEW f, NEW R, f \in [DOMAIN f -> R], NEW x, NEW y \in R
    PROVE  LET g == [f EXCEPT ![x] = y] IN DOMAIN g = DOMAIN f /\ g \in [DOMAIN g -> R]
OBVIOUS

\* The steps about accounts.
LEMMA GuestsTyped ==
    ASSUME TypeInv, NEW r \in Requests,
           \/ CreateGuest(r) \/ InsertGuest(r) \/ ConvertGuestToUser(r) \/ WriteConversion(r)
           \/ SoftDelete(r) \/ Restore(r) \/ PermanentDeleteAccount(r)
    PROVE  TypeInv'
<1> DEFINE UsersTyped(f) == DOMAIN f \subseteq Users /\ f \in [DOMAIN f -> Account]
           RestTyped == /\ UsersTyped(users')
                        /\ refused' \subseteq Phones
                        /\ raced' \subseteq Phones \cup Links \cup {"mail", "terms"}
<1>0. ASSUME NEW x \in Found, NEW y, Begin(r, y, x) \/ GoOn(r, x), x.at \notin AboutLink,
             RestTyped, OnlyUsers
      PROVE  TypeInv'
  <2>1. asked' = asked /\ links' = links
    BY <1>0 DEF OnlyUsers, resetVars
  <2>2. Begin(r, 0, x) \/ GoOn(r, x)
    BY <1>0 DEF Begin
  <2>3. /\ focus' = focus
        /\ req' \in [Requests -> Found]
        /\ left' \in 0..MaxRequests
        /\ failures' \in 0..MaxFailures
        /\ Bound'
    BY <1>0, <2>1, <2>2, RequestMoves
  <2> QED BY <1>0, <2>3 DEF TypeInv, AccountsTypeOK, OnlyUsers, deviceVars, resetVars
<1>a. ASSUME NEW u \in DOMAIN users, NEW y \in Account, users' = [users EXCEPT ![u] = y]
      PROVE  UsersTyped(users')
  BY <1>a, RowChanged DEF TypeInv, AccountsTypeOK
<1>b. UsersTyped(users) /\ refused \subseteq Phones
      /\ raced \subseteq Phones \cup Links \cup {"mail", "terms"} /\ req[r] \in Found
  BY DEF TypeInv, AccountsTypeOK
<1>c. \A u \in DOMAIN users :
          /\ u \in Users /\ users[u].phone \in Phones \cup {None}
          /\ [users[u] EXCEPT !.type = "REGISTERED"] \in Account
          /\ [users[u] EXCEPT !.deleted = TRUE] \in Account
          /\ [users[u] EXCEPT !.deleted = FALSE] \in Account
  BY <1>b DEF Account
<1> HIDE DEF UsersTyped
<1>1. CASE CreateGuest(r)
  <2>1. PICK p \in Phones :
            /\ Begin(r, p, IF GuestsOf(p) # {} THEN Idle ELSE [at |-> "insertGuest", on |-> p])
            /\ Race(p, Busy(r, p))
    BY <1>1 DEF CreateGuest
  <2>2. PICK x \in Found : Begin(r, p, x) /\ x.at \notin AboutLink
    BY <2>1, PlacesTyped DEF AboutLink
  <2>3. raced' \subseteq Phones \cup Links \cup {"mail", "terms"}
    BY <2>1, RaceTyped
  <2> QED BY <1>0, <1>1, <1>b, <2>2, <2>3 DEF CreateGuest, guestVars
<1>2. CASE InsertGuest(r)
  <2> DEFINE p == req[r].on
             guest == [phone |-> p, type |-> "GUEST", deleted |-> FALSE]
  <2>1. p \in Phones /\ guest \in Account
    BY <1>2, <1>b, WhatIsFound DEF InsertGuest, At, Account
  <2>2. refused' \subseteq Phones
    BY <1>2, <1>b, <2>1 DEF InsertGuest
  <2>9. p = req[r].on /\ guest = [phone |-> p, type |-> "GUEST", deleted |-> FALSE]
    OBVIOUS
  <2> HIDE DEF p, guest
  <2>3. UsersTyped(users')
    <3>1. CASE \E u \in DOMAIN users : users[u].phone = p
      BY <1>2, <1>b, <2>9, <3>1 DEF InsertGuest
    <3>2. CASE ~ \E u \in DOMAIN users : users[u].phone = p
      <4>1. PICK u \in Users \ DOMAIN users : users' = Plus(users, u, guest)
        BY <1>2, <2>9, <3>2 DEF InsertGuest, Unheld
      <4>2. users \in [DOMAIN users -> Account] /\ u \notin DOMAIN users /\ DOMAIN users \subseteq Users
        BY <1>b DEF UsersTyped
      <4>3. /\ DOMAIN Plus(users, u, guest) = DOMAIN users \cup {u}
            /\ Plus(users, u, guest) \in [DOMAIN Plus(users, u, guest) -> Account]
        BY <2>1, <4>2, OneMore
      <4> QED BY <4>1, <4>2, <4>3 DEF UsersTyped
    <3> QED BY <3>1, <3>2
  <2> QED BY <1>0, <1>2, <1>b, <2>2, <2>3, PlacesTyped DEF InsertGuest, Done
<1>3. CASE ConvertGuestToUser(r)
  <2>1. PICK u \in DOMAIN users : Begin(r, u, [at |-> "convert", on |-> u])
    BY <1>3 DEF ConvertGuestToUser
  <2> QED BY <1>0, <1>3, <1>b, <1>c, <2>1, PlacesTyped DEF ConvertGuestToUser, guestVars, AboutLink
<1>4. CASE WriteConversion(r)
  <2>1. UsersTyped(users')
    BY <1>4, <1>a, <1>b, <1>c DEF WriteConversion
  <2> QED BY <1>0, <1>4, <1>b, <2>1, PlacesTyped DEF WriteConversion, Done
<1>5. CASE SoftDelete(r)
  <2>1. PICK u \in DOMAIN users : Begin(r, u, Idle) /\ users' = [users EXCEPT ![u].deleted = TRUE]
    BY <1>5 DEF SoftDelete
  <2>2. UsersTyped(users')
    BY <2>1, <1>a, <1>c
  <2> QED BY <1>0, <1>5, <1>b, <2>1, <2>2, PlacesTyped DEF SoftDelete
<1>6. CASE Restore(r)
  <2>1. PICK u \in DOMAIN users :
            /\ Begin(r, u, Idle)
            /\ users' = [users EXCEPT ![u].deleted = FALSE]
            /\ Race(users[u].phone, Busy(r, users[u].phone))
    BY <1>6 DEF Restore
  <2>2. raced' \subseteq Phones \cup Links \cup {"mail", "terms"}
    BY <2>1, <1>c, RaceTyped
  <2>3. UsersTyped(users')
    BY <2>1, <1>a, <1>c
  <2> QED BY <1>0, <1>6, <1>b, <2>1, <2>2, <2>3, PlacesTyped DEF Restore
<1>7. CASE PermanentDeleteAccount(r)
  <2>1. PICK u \in DOMAIN users : Begin(r, u, [at |-> "erase", on |-> u])
    BY <1>7 DEF PermanentDeleteAccount
  <2> QED BY <1>0, <1>7, <1>b, <1>c, <2>1, PlacesTyped DEF PermanentDeleteAccount, guestVars, AboutLink
<1> QED BY <1>1, <1>2, <1>3, <1>4, <1>5, <1>6, <1>7

\* What RegisterDevice puts into a row and remembers.
DeviceRequest == [at : AboutDevice, on : Phones, user : Users, token : PushToken,
                  row : Rows \cup {None}, phone : Phones \cup {None}]

\* The row a login or a device registration takes: its token and user, active.
LEMMA RowOfRequest ==
    ASSUME NEW q \in DeviceRequest, NEW x, x.phone \in Phones \cup {None}
    PROVE  /\ Owned(q, x) \in Device
           /\ Owned(q, x).token = q.token
           /\ Owned(q, x).user = q.user
           /\ Owned(q, x).active
           /\ Owned(q, x).phone = IF q.phone = None THEN x.phone ELSE q.phone
           /\ [user |-> q.user, token |-> q.token] \in LastLogin
BY DEF Owned, Device, DeviceRequest, LastLogin

\* The steps about devices.
LEMMA DevicesTyped ==
    ASSUME TypeInv,
           \/ \E p \in Phones : RotateToken(p)
           \/ \E r \in Requests :
                 \/ Erase(r) \/ RegisterDevice(r) \/ FindByDeviceId(r) \/ ReuseRow(r)
                 \/ TransferRow(r) \/ InsertRow(r) \/ DeleteDevice(r) \/ Deactivate(r)
    PROVE  TypeInv'
<1> DEFINE Good(f) == /\ DOMAIN f \subseteq Rows
                      /\ f \in [DOMAIN f -> Device]
                      /\ \A d, e \in DOMAIN f : f[d].token = f[e].token => d = e
           LastGood(f) == f \in [Phones -> LastLogin]
           RestTyped == /\ Good(devices') /\ LastGood(last')
                        /\ unnamed' \subseteq Phones /\ cutOff' \subseteq Phones
                        /\ raced' \subseteq Phones \cup Links \cup {"mail", "terms"}
<1>b. /\ Good(devices) /\ LastGood(last)
      /\ unnamed \subseteq Phones /\ cutOff \subseteq Phones
      /\ raced \subseteq Phones \cup Links \cup {"mail", "terms"}
      /\ \A r \in Requests : req[r] \in Found
  BY DEF TypeInv, AccountsTypeOK
<1>t. /\ token \in [Phones -> 1..MaxTokens]
      /\ \A p \in Phones : <<p, token[p]>> \in PushToken
  BY DEF TypeInv, AccountsTypeOK, PushToken
<1>d. \A d \in DOMAIN devices : /\ d \in Rows
                               /\ devices[d].phone \in Phones \cup {None}
                               /\ devices[d].token \in PushToken
                               /\ devices[d].token[1] \in Phones
  BY <1>b DEF Device, PushToken
<1>0. ASSUME NEW r \in Requests, NEW x \in Found, NEW y, Begin(r, y, x) \/ GoOn(r, x),
             x.at \notin AboutLink, RestTyped, UNCHANGED <<refused, token, resetVars, latest>>,
             DOMAIN users' \subseteq Users, users' \in [DOMAIN users' -> Account]
      PROVE  TypeInv'
  <2>1. asked' = asked /\ links' = links
    BY <1>0 DEF resetVars
  <2>2. Begin(r, 0, x) \/ GoOn(r, x)
    BY <1>0 DEF Begin
  <2>3. /\ focus' = focus
        /\ req' \in [Requests -> Found]
        /\ left' \in 0..MaxRequests
        /\ failures' \in 0..MaxFailures
        /\ Bound'
    BY <1>0, <2>1, <2>2, RequestMoves
  <2> QED BY <1>0, <2>3 DEF TypeInv, AccountsTypeOK, resetVars
<1>9. ASSUME NEW r \in Requests, NEW x \in Found, NEW y, Begin(r, y, x) \/ GoOn(r, x),
             x.at \notin AboutLink, RestTyped, UNCHANGED token, OnlyDevices
      PROVE  TypeInv'
  BY <1>0, <1>9 DEF OnlyDevices, guestVars, TypeInv, AccountsTypeOK
<1>i. Idle \in Found /\ Idle.at \notin AboutLink
  BY PlacesTyped
<1>e. ASSUME NEW d, NEW y \in Device,
             \A e \in DOMAIN devices : devices[e].token = y.token => e = d
      PROVE  Good([devices EXCEPT ![d] = y])
  BY <1>b, <1>e
<1>q. \A r \in Requests : req[r] # Idle /\ req[r].at \in AboutDevice => req[r] \in DeviceRequest
  BY <1>b, WhatIsFound DEF DeviceRequest
<1>l. ASSUME NEW r \in Requests, req[r] \in DeviceRequest, Registered(r)
      PROVE  LastGood(last') /\ cutOff' \subseteq Phones
  <2>1. [user |-> req[r].user, token |-> req[r].token] \in LastLogin
    BY <1>l DEF DeviceRequest, LastLogin
  <2> QED BY <1>b, <1>l, <2>1 DEF Registered
<1> HIDE DEF Good, LastGood
<1>1. ASSUME NEW p \in Phones, RotateToken(p) PROVE TypeInv'
  <2>1. /\ token' \in [Phones -> 1..MaxTokens]
        /\ req' = req /\ links' = links /\ asked' = asked /\ left' = left
    BY <1>1, <1>t, AccountsAssumption DEF RotateToken, OnlyDevices, resetVars
  <2>2. Bound'
    BY <2>1 DEF TypeInv, Bound
  <2> QED BY <1>1, <2>1, <2>2 DEF RotateToken, OnlyDevices, guestVars, resetVars, TypeInv, AccountsTypeOK
<1>2. ASSUME NEW r \in Requests, Erase(r) PROVE TypeInv'
  <2> DEFINE kept == {d \in DOMAIN devices : devices[d].user # req[r].on}
  <2>1. Good([d \in kept |-> devices[d]])
    BY <1>b DEF Good
  <2>2. LastGood([p \in Phones |-> IF last[p].user = req[r].on THEN NoLogin ELSE last[p]])
    BY <1>b DEF LastGood, LastLogin
  <2>3. Good(devices') /\ LastGood(last')
    BY <1>2, <1>b, <2>1, <2>2 DEF Erase
  <2>4. DOMAIN users' \subseteq Users /\ users' \in [DOMAIN users' -> Account]
    BY <1>2 DEF Erase, TypeInv, AccountsTypeOK
  <2> QED BY <1>0, <1>2, <1>b, <1>i, <2>3, <2>4 DEF Erase, Done, resetVars
<1>3. ASSUME NEW r \in Requests, RegisterDevice(r) PROVE TypeInv'
  <2>1. PICK u \in Users, p \in Phones, named \in BOOLEAN, a \in AboutDevice :
            /\ Begin(r, p, [at |-> a, on |-> p, user |-> u, token |-> <<p, token[p]>>, row |-> None,
                            phone |-> IF named THEN p ELSE None])
            /\ unnamed' = IF named THEN unnamed ELSE unnamed \cup {p}
            /\ Race(p, Busy(r, p))
    BY <1>3 DEF RegisterDevice, AboutDevice
  <2>2. raced' \subseteq Phones \cup Links \cup {"mail", "terms"} /\ unnamed' \subseteq Phones
    BY <1>b, <2>1, RaceTyped
  <2>3. PICK x : /\ x = [at |-> a, on |-> p, user |-> u, token |-> <<p, token[p]>>, row |-> None,
                         phone |-> IF named THEN p ELSE None]
                 /\ Begin(r, p, x)
    BY <2>1
  <2>4. x \in Found /\ x.at \notin AboutLink
    BY <1>t, <2>3 DEF Found, AboutDevice, AboutLink
  <2>5. OnlyDevices /\ devices' = devices /\ token' = token /\ last' = last /\ cutOff' = cutOff
    BY <1>3 DEF RegisterDevice
  <2> QED BY <1>9, <1>b, <2>2, <2>3, <2>4, <2>5
<1>4. ASSUME NEW r \in Requests, FindByDeviceId(r) PROVE TypeInv'
  <2>1. req[r] \in DeviceRequest
    BY <1>4, <1>q DEF FindByDeviceId, At, AboutDevice
  <2>2. PICK x \in Found : GoOn(r, x) /\ x.at \notin AboutLink
    <3>1. [req[r] EXCEPT !.at = "insert"] \in Found
      BY <2>1 DEF DeviceRequest, Found
    <3>2. \A d \in DOMAIN devices : [req[r] EXCEPT !.at = "transfer", !.row = d] \in Found
      BY <1>d, <2>1 DEF DeviceRequest, Found
    <3> QED BY <1>4, <2>1, <3>1, <3>2 DEF FindByDeviceId, RowsOf, AboutLink, DeviceRequest
  <2> QED BY <1>9, <1>4, <1>b, <2>2 DEF FindByDeviceId, deviceVars
<1>5. ASSUME NEW r \in Requests, ReuseRow(r) PROVE TypeInv'
  <2>1. req[r] \in DeviceRequest
    BY <1>5, <1>q DEF ReuseRow, At, AboutDevice
  <2>2. Good(devices') /\ LastGood(last') /\ cutOff' \subseteq Phones
    <3>1. CASE RowsWith(req[r].token) = {}
      BY <1>5, <1>b, <3>1 DEF ReuseRow
    <3>2. CASE RowsWith(req[r].token) # {}
      <4>1. PICK d \in RowsWith(req[r].token) : devices' = [devices EXCEPT ![d] = Owned(req[r], devices[d])]
        BY <1>5, <3>2 DEF ReuseRow
      <4>2. d \in DOMAIN devices /\ devices[d].token = req[r].token
        BY DEF RowsWith
      <4>3. Owned(req[r], devices[d]) \in Device /\ Owned(req[r], devices[d]).token = devices[d].token
        BY <1>d, <2>1, <4>2, RowOfRequest
      <4>4. \A e \in DOMAIN devices : devices[e].token = devices[d].token => e = d
        BY <1>b, <4>2 DEF Good
      <4> QED BY <1>5, <1>e, <1>l, <2>1, <3>2, <4>1, <4>3, <4>4 DEF ReuseRow
    <3> QED BY <3>1, <3>2
  <2> QED BY <1>9, <1>5, <1>b, <1>i, <2>2 DEF ReuseRow, Done
<1>6. ASSUME NEW r \in Requests, TransferRow(r) PROVE TypeInv'
  <2>1. req[r] \in DeviceRequest
    BY <1>6, <1>q DEF TransferRow, At, AboutDevice
  <2>2. Good(devices') /\ LastGood(last') /\ cutOff' \subseteq Phones
    <3> DEFINE d == req[r].row
    <3>1. CASE ~(d \in DOMAIN devices /\ FreeToken(req[r].token, d))
      BY <1>6, <1>b, <3>1 DEF TransferRow
    <3>2. CASE d \in DOMAIN devices /\ FreeToken(req[r].token, d)
      <4>1. devices' = [devices EXCEPT ![d] = Owned(req[r], devices[d])] /\ Registered(r)
        BY <1>6, <3>2 DEF TransferRow
      <4>2. Owned(req[r], devices[d]) \in Device /\ Owned(req[r], devices[d]).token = req[r].token
        BY <1>d, <2>1, <3>2, RowOfRequest
      <4>3. \A e \in DOMAIN devices : devices[e].token = req[r].token => e = d
        BY <3>2 DEF FreeToken, RowsWith
      <4> QED BY <1>e, <1>l, <2>1, <4>1, <4>2, <4>3
    <3> QED BY <3>1, <3>2
  <2> QED BY <1>9, <1>6, <1>b, <1>i, <2>2 DEF TransferRow, Done
<1>7. ASSUME NEW r \in Requests, InsertRow(r) PROVE TypeInv'
  <2>1. req[r] \in DeviceRequest
    BY <1>7, <1>q DEF InsertRow, At, AboutDevice
  <2>2. Good(devices') /\ LastGood(last') /\ cutOff' \subseteq Phones
    <3>1. CASE ~FreeToken(req[r].token, None)
      BY <1>7, <1>b, <3>1 DEF InsertRow
    <3>2. CASE FreeToken(req[r].token, None)
      <4>1. PICK d \in Rows \ DOMAIN devices :
                devices' = Plus(devices, d, Owned(req[r], [phone |-> None, active |-> TRUE]))
        BY <1>7, <3>2 DEF InsertRow, Unheld
      <4>2. PICK y : y = Owned(req[r], [phone |-> None, active |-> TRUE])
        OBVIOUS
      <4>3. y \in Device /\ y.token = req[r].token
        BY <2>1, <4>2, RowOfRequest
      <4>4. \A e \in DOMAIN devices : devices[e].token # y.token
        BY <3>2, <4>3, <1>d, AccountsAssumption DEF FreeToken, RowsWith
      <4>5. devices \in [DOMAIN devices -> Device] /\ d \notin DOMAIN devices
        BY <1>b DEF Good
      <4>6. /\ DOMAIN devices' = DOMAIN devices \cup {d}
            /\ devices' \in [DOMAIN devices' -> Device]
            /\ devices'[d] = y
            /\ \A z \in DOMAIN devices : devices'[z] = devices[z]
        <5>0. y \in Device
          BY <4>3
        <5>1. /\ DOMAIN Plus(devices, d, y) = DOMAIN devices \cup {d}
              /\ Plus(devices, d, y) \in [DOMAIN Plus(devices, d, y) -> Device]
          BY <4>5, <5>0, OneMore
        <5>2. /\ Plus(devices, d, y)[d] = y
              /\ \A z \in DOMAIN devices : Plus(devices, d, y)[z] = devices[z]
          BY <4>5 DEF Plus
        <5> QED BY <4>1, <4>2, <5>1, <5>2
      <4>7. Good(devices')
        BY <1>b, <4>4, <4>6 DEF Good
      <4> QED BY <1>7, <1>l, <2>1, <3>2, <4>7 DEF InsertRow
    <3> QED BY <3>1, <3>2
  <2> QED BY <1>9, <1>7, <1>b, <1>i, <2>2 DEF InsertRow, Done
<1>8. ASSUME NEW r \in Requests, DeleteDevice(r) PROVE TypeInv'
  <2>1. PICK u \in Users, d \in DOMAIN devices, p \in Phones :
            /\ Begin(r, p, [at |-> "deactivate", on |-> p, user |-> u, row |-> d])
            /\ Race(p, Busy(r, p))
    BY <1>8, <1>d DEF DeleteDevice, DevicesOf
  <2>2. raced' \subseteq Phones \cup Links \cup {"mail", "terms"}
    BY <2>1, RaceTyped
  <2>3. PICK x \in Found : Begin(r, p, x) /\ x.at \notin AboutLink
    BY <1>d, <2>1, PlacesTyped DEF AboutLink
  <2> QED BY <1>9, <1>8, <1>b, <2>2, <2>3 DEF DeleteDevice, deviceVars
<1>10. ASSUME NEW r \in Requests, Deactivate(r) PROVE TypeInv'
  <2> DEFINE d == req[r].row
  <2>1. Good(devices') /\ LastGood(last') /\ cutOff' \subseteq Phones
    <3>1. CASE d \notin DOMAIN devices
      BY <1>10, <1>b, <3>1 DEF Deactivate
    <3>2. CASE d \in DOMAIN devices
      <4>1. PICK y : y = [devices[d] EXCEPT !.active = FALSE]
        OBVIOUS
      <4>2. y \in Device /\ y.token = devices[d].token
        BY <1>b, <3>2, <4>1 DEF Good, Device
      <4>3. \A e \in DOMAIN devices : devices[e].token = y.token => e = d
        BY <1>b, <3>2, <4>2 DEF Good
      <4>4. devices' = [devices EXCEPT ![d] = y]
        BY <1>10, <3>2, <4>1 DEF Deactivate
      <4>5. NoLogin \in LastLogin
        BY DEF LastLogin
      <4>6. LastGood(last')
        BY <1>10, <1>b, <3>2, <4>5 DEF Deactivate, LastGood
      <4>7. cutOff' \subseteq Phones
        <5>1. req[r].on \in Phones
          BY <1>10, <1>b, WhatIsFound DEF Deactivate, At
        <5> QED BY <1>10, <1>b, <3>2, <5>1 DEF Deactivate
      <4> QED BY <1>e, <4>2, <4>3, <4>4, <4>6, <4>7
    <3> QED BY <3>1, <3>2
  <2> QED BY <1>9, <1>10, <1>b, <1>i, <2>1 DEF Deactivate, Done
<1> QED BY <1>1, <1>2, <1>3, <1>4, <1>5, <1>6, <1>7, <1>8, <1>10

\* The steps about reset links.
LEMMA LinksTyped ==
    ASSUME TypeInv,
           \/ \E l \in Links : MarkTokenAsUsed(l) \/ LoseMark(l) \/ ExpireLink(l)
           \/ LoseRequest
           \/ \E r \in Requests :
                 \/ RequestPasswordReset(r) \/ SendPasswordResetEmail(r) \/ CreateLink(r)
                 \/ ResetPassword(r) \/ MarkExpired(r) \/ ChangePassword(r)
    PROVE  TypeInv'
<1> DEFINE Good(f) == DOMAIN f \subseteq Links /\ f \in [DOMAIN f -> ResetLink]
           RestTyped == /\ Good(links') /\ uses' \in [Links -> Nat]
                        /\ old' \cup marks' \subseteq DOMAIN links'
                        /\ raced' \subseteq Phones \cup Links \cup {"mail", "terms"}
<1>b. /\ Good(links) /\ uses \in [Links -> Nat]
      /\ old \cup marks \subseteq DOMAIN links
      /\ raced \subseteq Phones \cup Links \cup {"mail", "terms"}
      /\ \A r \in Requests : req[r] \in Found
      /\ asked \in 0..MaxRequests /\ left \in 0..MaxRequests /\ asked + left <= MaxRequests
      /\ failures \in 0..MaxFailures
  BY DEF TypeInv, AccountsTypeOK, Bound
<1>i. Idle \in Found /\ Idle.at \notin AboutLink
  BY PlacesTyped
\* A request of which the counts do not change.
<1>0. ASSUME NEW r \in Requests, NEW x \in Found, NEW y, Begin(r, y, x) \/ GoOn(r, x),
             x.at \in AboutLink => x.on \in DOMAIN links', DOMAIN links \subseteq DOMAIN links',
             asked' = asked, RestTyped, OnlyReset
      PROVE  TypeInv'
  <2>2. Begin(r, 0, x) \/ GoOn(r, x)
    BY <1>0 DEF Begin
  <2>3. /\ focus' = focus
        /\ req' \in [Requests -> Found]
        /\ left' \in 0..MaxRequests
        /\ failures' \in 0..MaxFailures
        /\ Bound'
    BY <1>0, <2>2, RequestMoves
  <2> QED BY <1>0, <2>3 DEF TypeInv, AccountsTypeOK, OnlyReset, guestVars, deviceVars
\* No request moves.
<1>9. ASSUME RestTyped, OnlyReset, UNCHANGED <<focus, req, left>>, asked' \in 0..asked,
             failures' \in 0..failures, DOMAIN links \subseteq DOMAIN links'
      PROVE  TypeInv'
  <2>1. Bound'
    BY <1>9, <1>b, AccountsAssumption DEF TypeInv, Bound
  <2>2. asked' \in 0..MaxRequests /\ failures' \in 0..MaxFailures
    BY <1>9, <1>b, AccountsAssumption
  <2> QED BY <1>9, <2>1, <2>2 DEF TypeInv, AccountsTypeOK, OnlyReset, guestVars, deviceVars
<1>c. ASSUME NEW l \in DOMAIN links, NEW y \in ResetLink
      PROVE  LET f == [links EXCEPT ![l] = y] IN Good(f) /\ DOMAIN f = DOMAIN links
  BY <1>b, <1>c
<1>l. \A l \in DOMAIN links : /\ l \in Links
                             /\ [links[l] EXCEPT !.status = "CANCELLED"] \in ResetLink
                             /\ [links[l] EXCEPT !.status = "EXPIRED"] \in ResetLink
  BY <1>b DEF ResetLink
<1>n. /\ [status |-> "PENDING", used |-> FALSE] \in ResetLink
      /\ [status |-> "USED", used |-> TRUE] \in ResetLink
  BY DEF ResetLink
<1>q. \A r \in Requests : req[r].at \in AboutLink => req[r].on \in DOMAIN links /\ req[r].on \in Links
  BY <1>b DEF TypeInv, Bound
<1>g. Good(links) <=> DOMAIN links \subseteq Links /\ links \in [DOMAIN links -> ResetLink]
  OBVIOUS
<1> HIDE DEF Good
<1>1. ASSUME NEW l \in Links, MarkTokenAsUsed(l) PROVE TypeInv'
  <2>1. l \in DOMAIN links
    BY <1>1, <1>b DEF MarkTokenAsUsed
  <2>2. links' = [links EXCEPT ![l] = [status |-> "USED", used |-> TRUE]]
    BY <1>1 DEF MarkTokenAsUsed
  <2>3. Good(links') /\ DOMAIN links' = DOMAIN links
    BY <1>c, <1>n, <2>1, <2>2
  <2> QED BY <1>9, <1>1, <1>b, <2>3 DEF MarkTokenAsUsed
<1>2. ASSUME NEW l \in Links, LoseMark(l) PROVE TypeInv'
  BY <1>9, <1>2, <1>b DEF LoseMark, Race
<1>3. ASSUME NEW l \in Links, ExpireLink(l) PROVE TypeInv'
  BY <1>9, <1>3, <1>b DEF ExpireLink
<1>4. ASSUME LoseRequest PROVE TypeInv'
  BY <1>9, <1>4, <1>b DEF LoseRequest
<1>5. ASSUME NEW r \in Requests, RequestPasswordReset(r) PROVE TypeInv'
  <2>1. /\ req' = [req EXCEPT ![r] = Idle] /\ left' = left - 1 /\ asked' = asked + 1 /\ left > 0
        /\ UNCHANGED <<focus, failures, links, old, marks, uses, raced>>
    BY <1>5 DEF RequestPasswordReset, Begin
  <2>2. asked' \in 0..MaxRequests /\ left' \in 0..MaxRequests /\ asked' + left' <= MaxRequests
    BY <1>b, <2>1, AccountsAssumption
  <2>3. req' \in [Requests -> Found] /\ \A q \in Requests : req'[q] \in {req[q], Idle}
    BY <1>i, <2>1 DEF TypeInv, AccountsTypeOK
  <2>4. Bound'
    BY <1>i, <2>1, <2>2, <2>3 DEF TypeInv, Bound
  <2> QED
    BY <1>5, <2>1, <2>2, <2>3, <2>4
    DEF RequestPasswordReset, TypeInv, AccountsTypeOK, OnlyReset, guestVars, deviceVars
<1>6. ASSUME NEW r \in Requests, SendPasswordResetEmail(r) PROVE TypeInv'
  <2>1. /\ req' = [req EXCEPT ![r] = [at |-> "newLink", on |-> "mail"]]
        /\ left' = left /\ asked' = asked - 1 /\ asked > 0
        /\ UNCHANGED <<focus, failures, old, marks, uses>>
        /\ links' = [l \in DOMAIN links |->
                       IF l \in Open THEN [links[l] EXCEPT !.status = "CANCELLED"] ELSE links[l]]
        /\ Race("mail", Busy(r, "mail"))
    BY <1>6 DEF SendPasswordResetEmail, GoOn
  <2>2. asked' \in 0..MaxRequests /\ left' \in 0..MaxRequests /\ asked' + left' <= MaxRequests
    BY <1>b, <2>1, AccountsAssumption
  <2>3. /\ req' \in [Requests -> Found]
        /\ \A q \in Requests : req'[q].at \in AboutLink => req'[q] = req[q]
    BY <2>1, PlacesTyped DEF TypeInv, AccountsTypeOK, AboutLink
  <2>4. Good(links') /\ DOMAIN links' = DOMAIN links
    <3>1. \A l \in DOMAIN links : links[l] \in ResetLink
      BY <1>b, <1>g
    <3>2. \A l \in DOMAIN links : links'[l] \in ResetLink
      BY <1>l, <2>1, <3>1
    <3> QED BY <1>b, <2>1, <3>2 DEF Good
  <2>5. Bound'
    BY <2>2, <2>3, <2>4 DEF TypeInv, Bound
  <2>6. raced' \subseteq Phones \cup Links \cup {"mail", "terms"}
    BY <2>1, RaceTyped
  <2> QED
    BY <1>6, <1>b, <2>1, <2>2, <2>3, <2>4, <2>5, <2>6
    DEF SendPasswordResetEmail, TypeInv, AccountsTypeOK, OnlyReset, guestVars, deviceVars, Good
<1>7. ASSUME NEW r \in Requests, CreateLink(r) PROVE TypeInv'
  <2>1. PICK l \in Links \ DOMAIN links :
            links' = Plus(links, l, [status |-> "PENDING", used |-> FALSE])
    BY <1>7 DEF CreateLink
  <2>2. PICK y \in ResetLink : links' = Plus(links, l, y)
    BY <1>n, <2>1
  <2>3. /\ DOMAIN Plus(links, l, y) = DOMAIN links \cup {l}
        /\ Plus(links, l, y) \in [DOMAIN Plus(links, l, y) -> ResetLink]
    BY <1>b, <1>g, <2>1, OneMore
  <2>4. Good(links') /\ DOMAIN links \subseteq DOMAIN links'
    BY <1>b, <1>g, <2>1, <2>2, <2>3 DEF Good
  <2> QED BY <1>0, <1>7, <1>b, <1>i, <2>4 DEF CreateLink, Done
<1>8. ASSUME NEW r \in Requests, ResetPassword(r) PROVE TypeInv'
  <2>1. PICK l \in DOMAIN links, a \in AboutLink :
            /\ Begin(r, l, IF ~Usable(l) THEN Idle ELSE [at |-> a, on |-> l])
            /\ Race(l, Busy(r, l) \/ l \in marks)
    BY <1>8 DEF ResetPassword, AboutLink
  <2>2. PICK x \in Found : Begin(r, l, x) /\ (x.at \in AboutLink => x.on \in DOMAIN links)
    BY <1>i, <1>l, <2>1, PlacesTyped
  <2>3. raced' \subseteq Phones \cup Links \cup {"mail", "terms"}
    BY <1>b, <1>l, <2>1 DEF Race
  <2> QED BY <1>0, <1>8, <1>b, <2>2, <2>3 DEF ResetPassword, resetVars
<1>10. ASSUME NEW r \in Requests, MarkExpired(r) PROVE TypeInv'
  <2>1. req[r].on \in DOMAIN links
    BY <1>10, <1>q DEF MarkExpired, At, AboutLink
  <2>2. links' = [links EXCEPT ![req[r].on] = [links[req[r].on] EXCEPT !.status = "EXPIRED"]]
    BY <1>10 DEF MarkExpired
  <2>3. Good(links') /\ DOMAIN links' = DOMAIN links
    BY <1>c, <1>l, <2>1, <2>2
  <2> QED BY <1>0, <1>10, <1>b, <1>i, <2>3 DEF MarkExpired, Done
<1>11. ASSUME NEW r \in Requests, ChangePassword(r) PROVE TypeInv'
  <2>1. req[r].on \in DOMAIN links /\ req[r].on \in Links
    BY <1>11, <1>q DEF ChangePassword, At, AboutLink
  <2>2. uses' \in [Links -> Nat]
    BY <1>11, <1>b, <2>1 DEF ChangePassword
  <2> QED BY <1>0, <1>11, <1>b, <1>i, <2>1, <2>2 DEF ChangePassword, Done
<1> QED BY <1>1, <1>2, <1>3, <1>4, <1>5, <1>6, <1>7, <1>8, <1>10, <1>11

\* The steps about terms, and failures.
LEMMA TermsTyped ==
    ASSUME TypeInv, NEW r \in Requests,
           \/ CreateTerms(r) \/ UpdateTerms(r) \/ Unmark(r) \/ WriteTerms(r)
           \/ Fail(r)
    PROVE  TypeInv'
<1> DEFINE Good(f) == DOMAIN f \subseteq Versions /\ f \in [DOMAIN f -> BOOLEAN]
<1>b. /\ Good(latest) /\ req \in [Requests -> Found] /\ req[r] \in Found
      /\ raced \subseteq Phones \cup Links \cup {"mail", "terms"}
  BY DEF TypeInv, AccountsTypeOK
<1>0. ASSUME NEW x \in Found, NEW y, Begin(r, y, x) \/ GoOn(r, x), x.at \notin AboutLink,
             Good(latest'), OnlyTerms,
             raced' \subseteq Phones \cup Links \cup {"mail", "terms"}
      PROVE  TypeInv'
  <2>1. asked' = asked /\ links' = links
    BY <1>0 DEF OnlyTerms, resetVars
  <2>2. Begin(r, 0, x) \/ GoOn(r, x)
    BY <1>0 DEF Begin
  <2>3. /\ focus' = focus
        /\ req' \in [Requests -> Found]
        /\ left' \in 0..MaxRequests
        /\ failures' \in 0..MaxFailures
        /\ Bound'
    BY <1>0, <2>1, <2>2, RequestMoves
  <2> QED BY <1>0, <2>3 DEF TypeInv, AccountsTypeOK, OnlyTerms, guestVars, deviceVars, resetVars
<1>i. Idle \in Found /\ Idle.at \notin AboutLink
  BY PlacesTyped
<1> DEFINE TermsRequests == [at : {"unmark", "createTerms", "updateTerms"}, on : {"terms"},
                             version : Versions, isLatest : BOOLEAN,
                             then : {"createTerms", "updateTerms"}]
<1>q. req[r] # Idle /\ req[r].at \in {"unmark", "createTerms", "updateTerms"} => req[r] \in TermsRequests
  BY <1>b, WhatIsFound
<1>f. \A x \in TermsRequests : x \in Found /\ x.at \notin AboutLink
  BY DEF Found, AboutLink
<1>t. ASSUME NEW x \in TermsRequests, TermsRequest(r, x), latest' = latest, OnlyTerms PROVE TypeInv'
  <2>1. raced' \subseteq Phones \cup Links \cup {"mail", "terms"}
    BY <1>t, RaceTyped DEF TermsRequest
  <2> QED BY <1>0, <1>b, <1>f, <1>t, <2>1 DEF TermsRequest
<1> HIDE DEF Good
<1>1. CASE CreateTerms(r)
  <2>1. PICK v \in Versions, isLatest \in BOOLEAN, a \in {"unmark", "createTerms"} :
            TermsRequest(r, [at |-> a, on |-> "terms", version |-> v, isLatest |-> isLatest,
                             then |-> "createTerms"])
    BY <1>1 DEF CreateTerms
  <2>2. [at |-> a, on |-> "terms", version |-> v, isLatest |-> isLatest,
         then |-> "createTerms"] \in TermsRequests
    OBVIOUS
  <2>3. latest' = latest /\ OnlyTerms
    BY <1>1 DEF CreateTerms
  <2> HIDE DEF TermsRequests
  <2> QED BY <1>t, <2>1, <2>2, <2>3
<1>2. CASE UpdateTerms(r)
  <2>1. PICK v \in DOMAIN latest, isLatest \in BOOLEAN, a \in {"unmark", "updateTerms"} :
            TermsRequest(r, [at |-> a, on |-> "terms", version |-> v, isLatest |-> isLatest,
                             then |-> "updateTerms"])
    BY <1>2 DEF UpdateTerms
  <2>2. [at |-> a, on |-> "terms", version |-> v, isLatest |-> isLatest,
         then |-> "updateTerms"] \in TermsRequests
    BY <1>b DEF Good
  <2>3. latest' = latest /\ OnlyTerms
    BY <1>2 DEF UpdateTerms
  <2> HIDE DEF TermsRequests
  <2> QED BY <1>t, <2>1, <2>2, <2>3
<1>3. CASE Unmark(r)
  <2>1. req[r] \in TermsRequests
    BY <1>3, <1>q DEF Unmark, At
  <2>2. [req[r] EXCEPT !.at = req[r].then] \in TermsRequests
    BY <2>1
  <2>3. Good(latest')
    BY <1>3, <1>b DEF Unmark, Unmarked, Good
  <2> HIDE DEF TermsRequests
  <2> QED BY <1>0, <1>3, <1>b, <1>f, <2>2, <2>3 DEF Unmark
<1>4. CASE WriteTerms(r)
  <2>1. req[r].version \in Versions /\ req[r].isLatest \in BOOLEAN
    BY <1>4, <1>q DEF WriteTerms, At
  <2> DEFINE v == req[r].version
             b == req[r].isLatest
  <2>2. Good([latest EXCEPT ![v] = b])
    BY <1>b, <2>1 DEF Good
  <2>3. v \notin DOMAIN latest => Good(Plus(latest, v, b))
    BY <1>b, <2>1 DEF Good, Plus
  <2>4. Good(latest')
    BY <1>4, <1>b, <2>2, <2>3 DEF WriteTerms
  <2> QED BY <1>0, <1>4, <1>b, <1>i, <2>4 DEF WriteTerms, Done
<1>5. CASE Fail(r)
  <2>1. /\ req' = [req EXCEPT ![r] = Idle]
        /\ failures > 0 /\ failures' = failures - 1
        /\ UNCHANGED <<focus, guestVars, deviceVars, resetVars, latest, raced, left>>
    BY <1>5 DEF Fail
  <2>2. failures' \in 0..MaxFailures
    BY <2>1, AccountsAssumption DEF TypeInv, AccountsTypeOK
  <2>3. req' \in [Requests -> Found] /\ Bound'
    BY <1>b, <1>i, <2>1 DEF TypeInv, Bound, resetVars
  <2> QED BY <2>1, <2>2, <2>3 DEF TypeInv, AccountsTypeOK, guestVars, deviceVars, resetVars
<1> QED BY <1>1, <1>2, <1>3, <1>4, <1>5

\* Every step of Accounts keeps the types.
LEMMA AccountsStepTyped ==
    ASSUME TypeInv, [AccountsNext]_accountsVars PROVE TypeInv'
<1>1. CASE UNCHANGED accountsVars
  BY <1>1 DEF accountsVars, guestVars, deviceVars, resetVars, TypeInv, AccountsTypeOK, Bound
<1>2. CASE AccountsNext
  BY <1>2, GuestsTyped, DevicesTyped, LinksTyped, TermsTyped DEF AccountsNext, Step
<1> QED BY <1>1, <1>2

-----------------------------------------------------------------------------
AboutTerms == {"unmark", "createTerms", "updateTerms"}

\* The requests about the device of a phone: registrations and log-outs.
AboutPhone == AboutDevice \cup {"deactivate"}

\* The places at which two requests are about the same thing.
Kinds == {{"insertGuest"}, AboutPhone, {"newLink"}, AboutLink, AboutTerms}

\* Two requests about the same thing at once are known to be.
RacesAreKnown ==
    \A L \in Kinds : \A q, s \in Requests :
        req[q].at \in L /\ req[s].at \in L /\ req[q].on = req[s].on /\ req[q].on \notin raced
            => q = s

GuestInv ==
    /\ refused = {}
    /\ \A q \in Requests :
          req[q].at = "insertGuest" /\ req[q].on \notin raced => GuestsOf(req[q].on) = {}

\* A row belongs to the phone of its push token, and is found by the id of that
\* phone if the phone always gave it.
PhoneOf(f, d) == f[d].token[1]

RowFits(f, without, d) ==
    /\ f[d].phone \in {None, PhoneOf(f, d)}
    /\ PhoneOf(f, d) \notin without => f[d].phone = PhoneOf(f, d)

\* So does a request, and the row it has found; a log-out that is alone has the
\* row of its own user; who is to insert a row has found none.
RequestFits(f, without, met, x) ==
    /\ x.at \in AboutDevice =>
          /\ x.token[1] = x.on
          /\ x.phone \in {None, x.on}
          /\ x.on \notin without => x.phone = x.on
    /\ x.at \in {"transfer", "deactivate"} /\ x.row \in DOMAIN f => PhoneOf(f, x.row) = x.on
    /\ x.at = "deactivate" /\ x.row \in DOMAIN f /\ x.on \notin met =>
          f[x.row].user = x.user
    /\ x.at = "insert" /\ x.on \notin met \cup without =>
          \A d \in DOMAIN f : f[d].phone # x.on

RowsArePhones  == \A d \in DOMAIN devices : RowFits(devices, unnamed, d)
RequestsFollow == \A q \in Requests : RequestFits(devices, unnamed, raced, req[q])

OneRow == \A p \in Phones \ (raced \cup unnamed) : \A d, e \in RowsOf(p) : d = e

\* The row a phone was registered by last is that user's, and active unless
\* another one's log-out was late.
LoginsHold ==
    /\ cutOff \subseteq raced
    /\ \A p \in Phones : last[p] # NoLogin =>
          /\ last[p].token[1] = p
          /\ \E d \in RowsWith(last[p].token) : /\ devices[d].user = last[p].user
                                                /\ devices[d].active \/ p \in cutOff

DeviceInv == RowsArePhones /\ RequestsFollow /\ OneRow /\ LoginsHold

LinkInv ==
    /\ \A l \in Links \ raced :
          /\ uses[l] <= 1
          /\ uses[l] # 0 => l \in marks \/ (l \in DOMAIN links /\ links[l].used)
    /\ \A q \in Requests : req[q].at = "change" /\ req[q].on \notin raced => uses[req[q].on] = 0

MailInv == "mail" \notin raced =>
    /\ \A l, m \in Open : l = m
    /\ (\E q \in Requests : req[q].at = "newLink") => Open = {}

TermsInv == "terms" \notin raced =>
    /\ \A v, w \in DOMAIN latest : latest[v] /\ latest[w] => v = w
    /\ \A q \in Requests : req[q].at \in {"createTerms", "updateTerms"} /\ req[q].isLatest =>
          \A v \in DOMAIN latest : latest[v] => v = req[q].version

AccountsInv ==
    TypeInv /\ RacesAreKnown /\ GuestInv /\ DeviceInv /\ LinkInv /\ MailInv /\ TermsInv

\* A step of one request leaves overlapping requests known: it is alone about its
\* thing, or the thing is recorded.
LEMMA RequestApart ==
    ASSUME RacesAreKnown, req \in [Requests -> Found], NEW r \in Requests, NEW x \in Found,
           req' = [req EXCEPT ![r] = x], raced \subseteq raced',
           \A L \in Kinds : x.at \in L =>
               \/ req[r].at \in L /\ req[r].on = x.on
               \/ x.on \in raced'
               \/ \A q \in Requests \ {r} : req[q].at \in L => req[q].on # x.on
    PROVE  RacesAreKnown'
<1>1. req'[r] = x /\ \A q \in Requests \ {r} : req'[q] = req[q]
  BY NewRequest
<1> SUFFICES ASSUME NEW L \in Kinds, NEW q \in Requests, NEW t \in Requests,
                    req'[q].at \in L, req'[t].at \in L, req'[q].on = req'[t].on,
                    req'[q].on \notin raced'
             PROVE  q = t
  BY DEF RacesAreKnown
<1>2. CASE q # r /\ t # r
  BY <1>1, <1>2 DEF RacesAreKnown
<1>3. CASE q = r /\ t # r
  BY <1>1, <1>3 DEF RacesAreKnown
<1>4. CASE q # r /\ t = r
  BY <1>1, <1>4 DEF RacesAreKnown
<1> QED BY <1>2, <1>3, <1>4

\* Whoever comes when another is there is recorded.
LEMMA Recorded ==
    ASSUME NEW r \in Requests, NEW y, raced' = IF Busy(r, y) THEN raced \cup {y} ELSE raced
    PROVE  /\ raced \subseteq raced'
           /\ \/ y \in raced'
              \/ \A q \in Requests \ {r} : \A L \in Kinds : req[q].at \in L => req[q].on # y
<1>2. \A q \in Requests, L \in Kinds : req[q].at \in L => req[q] # Idle
  BY DEF Kinds, AboutPhone, AboutDevice, AboutLink, AboutTerms, Idle
<1> QED BY <1>2 DEF Busy

\* Requests that overlap are recorded, and stay so.
LEMMA RacesStayKnown ==
    ASSUME TypeInv, RacesAreKnown, [AccountsNext]_accountsVars
    PROVE  RacesAreKnown' /\ raced \subseteq raced'
<1>0. req \in [Requests -> Found] /\ \A r \in Requests : req[r] \in Found
  BY DEF TypeInv, AccountsTypeOK
<1>1. ASSUME req' = req, raced \subseteq raced'
      PROVE  RacesAreKnown' /\ raced \subseteq raced'
  BY <1>1 DEF RacesAreKnown
<1>2. ASSUME NEW r \in Requests, NEW x \in Found, req' = [req EXCEPT ![r] = x], raced \subseteq raced',
             \A L \in Kinds : x.at \notin L
      PROVE  RacesAreKnown' /\ raced \subseteq raced'
  BY <1>0, <1>2, RequestApart
<1>3. ASSUME NEW r \in Requests, NEW x \in Found, req' = [req EXCEPT ![r] = x],
             raced' = IF Busy(r, x.on) THEN raced \cup {x.on} ELSE raced
      PROVE  RacesAreKnown' /\ raced \subseteq raced'
  <2>1. /\ raced \subseteq raced'
        /\ \/ x.on \in raced'
           \/ \A q \in Requests \ {r} : \A L \in Kinds : req[q].at \in L => req[q].on # x.on
    BY <1>3, Recorded
  <2> QED BY <1>0, <1>3, <2>1, RequestApart
<1>i. Idle \in Found /\ \A L \in Kinds : Idle.at \notin L
  BY PlacesTyped DEF Kinds, AboutPhone, AboutDevice, AboutLink, AboutTerms, Idle
<1>4. CASE UNCHANGED accountsVars
  BY <1>1, <1>4 DEF accountsVars
<1>5. CASE (\E p \in Phones : RotateToken(p)) \/ LoseRequest
           \/ \E l \in Links : MarkTokenAsUsed(l) \/ LoseMark(l) \/ ExpireLink(l)
  BY <1>1, <1>5 DEF RotateToken, LoseRequest, MarkTokenAsUsed, LoseMark, ExpireLink, Race
<1>6. ASSUME NEW r \in Requests,
             \/ Fail(r) \/ InsertGuest(r) \/ WriteConversion(r) \/ SoftDelete(r) \/ Restore(r)
             \/ Erase(r) \/ ReuseRow(r) \/ TransferRow(r) \/ InsertRow(r) \/ Deactivate(r)
             \/ RequestPasswordReset(r) \/ CreateLink(r) \/ MarkExpired(r) \/ ChangePassword(r)
             \/ WriteTerms(r)
      PROVE  RacesAreKnown' /\ raced \subseteq raced'
  <2>1. req' = [req EXCEPT ![r] = Idle] /\ raced \subseteq raced'
    BY <1>6
    DEF Fail, InsertGuest, WriteConversion, SoftDelete, Restore, Erase, ReuseRow, TransferRow, InsertRow,
        Deactivate, RequestPasswordReset, CreateLink, MarkExpired, ChangePassword, WriteTerms,
        Done, GoOn, Begin, Race
  <2> QED BY <1>2, <1>i, <2>1
<1>7. ASSUME NEW r \in Requests, CreateGuest(r)
      PROVE  RacesAreKnown' /\ raced \subseteq raced'
  <2>1. PICK p \in Phones :
            /\ Begin(r, p, IF GuestsOf(p) # {} THEN Idle ELSE [at |-> "insertGuest", on |-> p])
            /\ raced' = (IF Busy(r, p) THEN raced \cup {p} ELSE raced)
    BY <1>7 DEF CreateGuest, Race
  <2>2. PICK x \in Found : /\ req' = [req EXCEPT ![r] = x]
                           /\ x = Idle \/ x = [at |-> "insertGuest", on |-> p]
    BY <2>1, PlacesTyped DEF Begin
  <2>a. raced' = (IF Busy(r, p) THEN raced \cup {p} ELSE raced)
    BY <2>1
  <2>3. CASE x = Idle
    <3>1. \A L \in Kinds : x.at \notin L
      BY <1>i, <2>3
    <3>2. raced \subseteq raced' /\ req' = [req EXCEPT ![r] = x]
      BY <2>2, <2>a
    <3> QED BY <1>2, <3>1, <3>2
  <2>4. CASE x # Idle
    <3>1. x.on = p
      BY <2>2, <2>4
    <3>2. raced' = (IF Busy(r, x.on) THEN raced \cup {x.on} ELSE raced) /\ req' = [req EXCEPT ![r] = x]
      BY <2>2, <2>a, <3>1
    <3> QED BY <1>3, <3>2
  <2> QED BY <2>3, <2>4
<1>8. ASSUME NEW r \in Requests, ConvertGuestToUser(r) \/ PermanentDeleteAccount(r)
      PROVE  RacesAreKnown' /\ raced \subseteq raced'
  <2>1. PICK u \in DOMAIN users, a \in {"convert", "erase"} :
            req' = [req EXCEPT ![r] = [at |-> a, on |-> u]] /\ raced' = raced
    BY <1>8 DEF ConvertGuestToUser, PermanentDeleteAccount, Begin
  <2>2. u \in Users
    BY DEF TypeInv, AccountsTypeOK
  <2>3. PICK x \in Found : x.at = a /\ req' = [req EXCEPT ![r] = x]
    BY <2>1, <2>2, PlacesTyped
  <2>4. \A L \in Kinds : a \notin L
    BY DEF Kinds, AboutPhone, AboutDevice, AboutLink, AboutTerms
  <2>5. (\A L \in Kinds : x.at \notin L) /\ raced \subseteq raced'
    BY <2>1, <2>3, <2>4
  <2> QED BY <1>2, <2>3, <2>5
<1>9. ASSUME NEW r \in Requests, RegisterDevice(r)
      PROVE  RacesAreKnown' /\ raced \subseteq raced'
  <2>0. PICK u \in Users, p \in Phones, named \in BOOLEAN, a \in AboutDevice :
            /\ req' = [req EXCEPT ![r] = [at |-> a, on |-> p, user |-> u, token |-> <<p, token[p]>>,
                                         row |-> None, phone |-> IF named THEN p ELSE None]]
            /\ raced' = (IF Busy(r, p) THEN raced \cup {p} ELSE raced)
    BY <1>9 DEF RegisterDevice, Begin, Race, AboutDevice
  <2>1. PICK x : /\ req' = [req EXCEPT ![r] = x] /\ x.on = p
                 /\ raced' = (IF Busy(r, x.on) THEN raced \cup {x.on} ELSE raced)
    <3>1. PICK x : x = [at |-> a, on |-> p, user |-> u, token |-> <<p, token[p]>>,
                        row |-> None, phone |-> IF named THEN p ELSE None]
      OBVIOUS
    <3>2. x.on = p
      BY <3>1
    <3> QED BY <2>0, <3>1, <3>2
  <2>2. req' \in [Requests -> Found]
    BY <1>9, AccountsStepTyped DEF TypeInv, AccountsTypeOK
  <2>3. x \in Found
    BY <1>0, <2>1, <2>2
  <2> QED BY <1>3, <2>1, <2>3
<1>10. ASSUME NEW r \in Requests, DeleteDevice(r)
      PROVE  RacesAreKnown' /\ raced \subseteq raced'
  <2>0. PICK u \in Users, d \in DOMAIN devices :
            /\ req' = [req EXCEPT ![r] = [at |-> "deactivate", on |-> devices[d].token[1],
                                          user |-> u, row |-> d]]
            /\ raced' = (IF Busy(r, devices[d].token[1]) THEN raced \cup {devices[d].token[1]} ELSE raced)
    BY <1>10 DEF DeleteDevice, DevicesOf, Begin, Race
  <2>1. PICK p : /\ req' = [req EXCEPT ![r] = [at |-> "deactivate", on |-> p, user |-> u, row |-> d]]
                 /\ raced' = (IF Busy(r, p) THEN raced \cup {p} ELSE raced)
    BY <2>0
  <2>2. PICK x : /\ req' = [req EXCEPT ![r] = x] /\ x.on = p
                 /\ raced' = (IF Busy(r, x.on) THEN raced \cup {x.on} ELSE raced)
    <3>1. PICK x : x = [at |-> "deactivate", on |-> p, user |-> u, row |-> d]
      OBVIOUS
    <3>2. x.on = p
      BY <3>1
    <3> QED BY <2>1, <3>1, <3>2
  <2>3. req' \in [Requests -> Found]
    BY <1>10, AccountsStepTyped DEF TypeInv, AccountsTypeOK
  <2>4. x \in Found
    BY <1>0, <2>2, <2>3
  <2> QED BY <1>3, <2>2, <2>4
<1>11. ASSUME NEW r \in Requests, SendPasswordResetEmail(r)
      PROVE  RacesAreKnown' /\ raced \subseteq raced'
  <2>1. /\ req' = [req EXCEPT ![r] = [at |-> "newLink", on |-> "mail"]]
        /\ raced' = (IF Busy(r, "mail") THEN raced \cup {"mail"} ELSE raced)
    BY <1>11 DEF SendPasswordResetEmail, GoOn, Race
  <2>2. PICK x \in Found : req' = [req EXCEPT ![r] = x] /\ x.on = "mail"
    BY <2>1, PlacesTyped
  <2> QED BY <1>3, <2>1, <2>2
<1>12. ASSUME NEW r \in Requests, ResetPassword(r)
      PROVE  RacesAreKnown' /\ raced \subseteq raced'
  <2>1. PICK l \in DOMAIN links, a \in AboutLink :
            /\ Begin(r, l, IF ~Usable(l) THEN Idle ELSE [at |-> a, on |-> l])
            /\ Race(l, Busy(r, l) \/ l \in marks)
    BY <1>12 DEF ResetPassword, AboutLink
  <2>2. l \in Links
    BY DEF TypeInv, AccountsTypeOK
  <2>3. PICK x \in Found : req' = [req EXCEPT ![r] = x] /\ (x = Idle \/ x = [at |-> a, on |-> l])
    BY <2>1, <2>2, PlacesTyped DEF Begin
  <2>4. raced \subseteq raced' /\ (Busy(r, l) => l \in raced')
    BY <2>1 DEF Race
  <2>5. CASE x = Idle
    BY <1>2, <1>i, <2>3, <2>4, <2>5
  <2>6. CASE x # Idle
    <3>1. x.on = l
      BY <2>3, <2>6
    <3>2. \A q \in Requests, L \in Kinds : req[q].at \in L => req[q] # Idle
      BY <1>i
    <3>3. x.on \in raced' \/ \A q \in Requests \ {r}, L \in Kinds : req[q].at \in L => req[q].on # x.on
      BY <2>4, <3>1, <3>2 DEF Busy
    <3> QED BY <1>0, <2>3, <2>4, <3>3, RequestApart
  <2> QED BY <2>5, <2>6
<1>13. ASSUME NEW r \in Requests, CreateTerms(r) \/ UpdateTerms(r)
      PROVE  RacesAreKnown' /\ raced \subseteq raced'
  <2>1. PICK x : req' = [req EXCEPT ![r] = x] /\ x.on = "terms" /\ raced' = (IF Busy(r, "terms") THEN raced \cup {"terms"} ELSE raced)
    BY <1>13 DEF CreateTerms, UpdateTerms, TermsRequest, Begin, Race
  <2>2. req' \in [Requests -> Found]
    BY <1>13, AccountsStepTyped DEF TypeInv, AccountsTypeOK
  <2>3. x \in Found
    BY <1>0, <2>1, <2>2
  <2> QED BY <1>3, <2>1, <2>3
<1>14. ASSUME NEW r \in Requests, FindByDeviceId(r) \/ Unmark(r)
      PROVE  RacesAreKnown' /\ raced \subseteq raced'
  <2>1. PICK x : /\ req' = [req EXCEPT ![r] = x] /\ raced' = raced
                 /\ x.on = req[r].on
                 /\ \/ req[r].at = "lookup" /\ x.at \in {"insert", "transfer"}
                    \/ req[r].at = "unmark" /\ x.at \in {"createTerms", "updateTerms"}
    <3>1. CASE FindByDeviceId(r)
      <4>1. req[r] \in DeviceRequest /\ req[r].at = "lookup"
        BY <1>0, <3>1, WhatIsFound DEF FindByDeviceId, At, AboutDevice, DeviceRequest
      <4>2. CASE RowsOf(req[r].on) = {}
        <5>1. req' = [req EXCEPT ![r] = [req[r] EXCEPT !.at = "insert"]] /\ raced' = raced
          BY <3>1, <4>2 DEF FindByDeviceId, GoOn
        <5>2. [req[r] EXCEPT !.at = "insert"].on = req[r].on
              /\ [req[r] EXCEPT !.at = "insert"].at = "insert"
          BY <4>1 DEF DeviceRequest
        <5> QED BY <4>1, <5>1, <5>2
      <4>3. CASE RowsOf(req[r].on) # {}
        <5>1. PICK d : req' = [req EXCEPT ![r] = [req[r] EXCEPT !.at = "transfer", !.row = d]]
                       /\ raced' = raced
          BY <3>1, <4>3 DEF FindByDeviceId, GoOn
        <5>2. [req[r] EXCEPT !.at = "transfer", !.row = d].on = req[r].on
              /\ [req[r] EXCEPT !.at = "transfer", !.row = d].at = "transfer"
          BY <4>1 DEF DeviceRequest
        <5> QED BY <4>1, <5>1, <5>2
      <4> QED BY <4>2, <4>3
    <3>2. CASE Unmark(r)
      <4>1. req[r].at = "unmark" /\ req[r].on = "terms"
            /\ req[r] \in [at : {"unmark", "createTerms", "updateTerms"}, on : {"terms"},
                           version : Versions, isLatest : BOOLEAN,
                           then : {"createTerms", "updateTerms"}]
        BY <1>0, <3>2, WhatIsFound DEF Unmark, At
      <4>2. [req[r] EXCEPT !.at = req[r].then].on = req[r].on
            /\ [req[r] EXCEPT !.at = req[r].then].at \in {"createTerms", "updateTerms"}
        BY <4>1
      <4> QED BY <3>2, <4>1, <4>2 DEF Unmark, GoOn
    <3> QED BY <1>14, <3>1, <3>2
  <2>2. req' \in [Requests -> Found]
    BY <1>14, AccountsStepTyped DEF TypeInv, AccountsTypeOK
  <2>3. x \in Found
    BY <1>0, <2>1, <2>2
  <2>4. \A L \in Kinds : x.at \in L => req[r].at \in L
    BY <2>1 DEF Kinds, AboutPhone, AboutDevice, AboutLink, AboutTerms
  <2> QED BY <1>0, <2>1, <2>3, <2>4, RequestApart
<1> QED
  BY <1>4, <1>5, <1>6, <1>7, <1>8, <1>9, <1>10, <1>11, <1>12, <1>13, <1>14 DEF AccountsNext, Step

\* Where a request can get in a step, and by which.
LEMMA WhereTo ==
    ASSUME TypeInv, [AccountsNext]_accountsVars, NEW q \in Requests
    PROVE  \/ req'[q] \in {req[q], Idle}
           \/ CreateGuest(q) /\ req'[q].at = "insertGuest"
           \/ req'[q].at \in {"convert", "erase"}
           \/ RegisterDevice(q) \/ FindByDeviceId(q)
           \/ DeleteDevice(q)
           \/ SendPasswordResetEmail(q) /\ req'[q].at = "newLink"
           \/ ResetPassword(q) /\ req'[q].at \in AboutLink
           \/ CreateTerms(q) \/ UpdateTerms(q) \/ Unmark(q)
<1> DEFINE G == \/ req'[q] \in {req[q], Idle}
                \/ CreateGuest(q) /\ req'[q].at = "insertGuest"
                \/ req'[q].at \in {"convert", "erase"}
                \/ RegisterDevice(q) \/ FindByDeviceId(q)
                \/ DeleteDevice(q)
                \/ SendPasswordResetEmail(q) /\ req'[q].at = "newLink"
                \/ ResetPassword(q) /\ req'[q].at \in AboutLink
                \/ CreateTerms(q) \/ UpdateTerms(q) \/ Unmark(q)
<1>0. req \in [Requests -> Found]
  BY DEF TypeInv, AccountsTypeOK
<1>1. ASSUME NEW r \in Requests, NEW x, req' = [req EXCEPT ![r] = x], r # q PROVE G
  BY <1>0, <1>1
<1>2. ASSUME NEW x, req' = [req EXCEPT ![q] = x] PROVE req'[q] = x
  BY <1>0, <1>2
<1>3. ASSUME req' = req PROVE G
  BY <1>3
<1>4. ASSUME NEW r \in Requests, req' = [req EXCEPT ![r] = Idle] PROVE G
  BY <1>0, <1>4
<1> HIDE DEF G
<1>5. ASSUME UNCHANGED accountsVars PROVE G
  BY <1>3, <1>5 DEF accountsVars
<1>6. ASSUME \/ \E p \in Phones : RotateToken(p)
             \/ \E l \in Links : MarkTokenAsUsed(l) \/ LoseMark(l) \/ ExpireLink(l)
             \/ LoseRequest
      PROVE  G
  BY <1>3, <1>6 DEF RotateToken, LoseRequest, MarkTokenAsUsed, LoseMark, ExpireLink
<1>7. ASSUME NEW r \in Requests,
             \/ Fail(r) \/ InsertGuest(r) \/ WriteConversion(r) \/ SoftDelete(r) \/ Restore(r)
             \/ Erase(r) \/ ReuseRow(r) \/ TransferRow(r) \/ InsertRow(r) \/ Deactivate(r)
             \/ RequestPasswordReset(r) \/ CreateLink(r) \/ MarkExpired(r) \/ ChangePassword(r)
             \/ WriteTerms(r)
      PROVE  G
  <2>1. req' = [req EXCEPT ![r] = Idle]
    BY <1>7
    DEF Fail, InsertGuest, WriteConversion, SoftDelete, Restore, Erase, ReuseRow, TransferRow, InsertRow,
        Deactivate, RequestPasswordReset, CreateLink, MarkExpired, ChangePassword, WriteTerms,
        Done, GoOn, Begin
  <2> QED BY <1>4, <2>1
<1>8. ASSUME NEW r \in Requests, CreateGuest(r) PROVE G
  <2>0. PICK p \in Phones :
            req' = [req EXCEPT ![r] = IF GuestsOf(p) # {} THEN Idle ELSE [at |-> "insertGuest", on |-> p]]
    BY <1>8 DEF CreateGuest, Begin
  <2>1. PICK x : /\ req' = [req EXCEPT ![r] = x]
                 /\ x = IF GuestsOf(p) # {} THEN Idle ELSE [at |-> "insertGuest", on |-> p]
    BY <2>0
  <2>2. x = Idle \/ x.at = "insertGuest"
    BY <2>1
  <2> QED BY <1>1, <1>2, <1>8, <2>1, <2>2 DEF G
<1>9. ASSUME NEW r \in Requests, ConvertGuestToUser(r) \/ PermanentDeleteAccount(r) PROVE G
  <2>1. PICK u \in DOMAIN users, a \in {"convert", "erase"} :
            req' = [req EXCEPT ![r] = [at |-> a, on |-> u]]
    BY <1>9 DEF ConvertGuestToUser, PermanentDeleteAccount, Begin
  <2>2. PICK x : req' = [req EXCEPT ![r] = x] /\ x.at \in {"convert", "erase"}
    <3>1. PICK x : x = [at |-> a, on |-> u]
      OBVIOUS
    <3>2. x.at = a
      BY <3>1
    <3> QED BY <2>1, <3>1, <3>2
  <2> QED BY <1>1, <1>2, <2>2 DEF G
<1>10. ASSUME NEW r \in Requests, RegisterDevice(r) \/ FindByDeviceId(r) \/ DeleteDevice(r)
                                  \/ CreateTerms(r) \/ UpdateTerms(r) \/ Unmark(r)
       PROVE  G
  <2>1. \E x : req' = [req EXCEPT ![r] = x]
    BY <1>10 DEF RegisterDevice, FindByDeviceId, DeleteDevice, CreateTerms, UpdateTerms, Unmark,
                 TermsRequest, Begin, GoOn
  <2> QED BY <1>1, <1>10, <2>1 DEF G
<1>11. ASSUME NEW r \in Requests, SendPasswordResetEmail(r) PROVE G
  <2>1. PICK x : x = [at |-> "newLink", on |-> "mail"]
    OBVIOUS
  <2>2. req' = [req EXCEPT ![r] = x] /\ x.at = "newLink"
    BY <1>11, <2>1 DEF SendPasswordResetEmail, GoOn
  <2> QED BY <1>1, <1>2, <1>11, <2>2 DEF G
<1>12. ASSUME NEW r \in Requests, ResetPassword(r) PROVE G
  <2>0. PICK l \in DOMAIN links, a \in AboutLink :
            req' = [req EXCEPT ![r] = IF ~Usable(l) THEN Idle ELSE [at |-> a, on |-> l]]
    BY <1>12 DEF ResetPassword, Begin, AboutLink
  <2>1. PICK x : /\ req' = [req EXCEPT ![r] = x]
                 /\ x = IF ~Usable(l) THEN Idle ELSE [at |-> a, on |-> l]
    BY <2>0
  <2>2. x = Idle \/ x.at \in AboutLink
    BY <2>1
  <2> QED BY <1>1, <1>2, <1>12, <2>1, <2>2 DEF G
<1>13. ASSUME NEW r \in Requests, Step(r) PROVE G
  BY <1>7, <1>8, <1>9, <1>10, <1>11, <1>12, <1>13 DEF Step
<1>14. ASSUME AccountsNext PROVE G
  BY <1>6, <1>13, <1>14 DEF AccountsNext
<1> QED BY <1>5, <1>14 DEF G

\* What a step can change, and by which action.
LEMMA WhatChanges ==
    ASSUME [AccountsNext]_accountsVars
    PROVE  /\ \/ UNCHANGED guestVars
              \/ \E r \in Requests : \/ InsertGuest(r) \/ WriteConversion(r) \/ SoftDelete(r)
                                     \/ Restore(r) \/ Erase(r)
           /\ \/ UNCHANGED <<devices, last, unnamed, cutOff>>
              \/ \E r \in Requests : \/ Erase(r) \/ RegisterDevice(r) \/ ReuseRow(r)
                                     \/ TransferRow(r) \/ InsertRow(r) \/ Deactivate(r)
           /\ \/ UNCHANGED <<links, marks, uses>>
              \/ \E r \in Requests : \/ SendPasswordResetEmail(r) \/ CreateLink(r)
                                     \/ MarkExpired(r) \/ ChangePassword(r)
              \/ \E l \in Links : MarkTokenAsUsed(l) \/ LoseMark(l)
           /\ \/ UNCHANGED latest
              \/ \E r \in Requests : Unmark(r) \/ WriteTerms(r)
<1> DEFINE U == UNCHANGED guestVars
           D == UNCHANGED <<devices, last, unnamed, cutOff>>
           L == UNCHANGED <<links, marks, uses>>
           T == UNCHANGED latest
<1>1. CASE UNCHANGED accountsVars
  BY <1>1 DEF accountsVars, guestVars, deviceVars, resetVars
<1>2. ASSUME NEW r \in Requests,
             \/ CreateGuest(r) \/ InsertGuest(r) \/ ConvertGuestToUser(r) \/ WriteConversion(r)
             \/ SoftDelete(r) \/ Restore(r) \/ PermanentDeleteAccount(r)
      PROVE  D /\ L /\ T
  BY <1>2 DEF CreateGuest, InsertGuest, ConvertGuestToUser, WriteConversion, SoftDelete, Restore,
              PermanentDeleteAccount, OnlyUsers, deviceVars, resetVars
<1>3. ASSUME NEW r \in Requests, CreateGuest(r) \/ ConvertGuestToUser(r) \/ PermanentDeleteAccount(r)
      PROVE  U
  BY <1>3 DEF CreateGuest, ConvertGuestToUser, PermanentDeleteAccount
<1>4. ASSUME NEW r \in Requests, Erase(r) PROVE L /\ T
  BY <1>4 DEF Erase, resetVars
<1>5. ASSUME \/ \E p \in Phones : RotateToken(p)
             \/ \E r \in Requests :
                   \/ RegisterDevice(r) \/ FindByDeviceId(r) \/ ReuseRow(r)
                   \/ TransferRow(r) \/ InsertRow(r) \/ DeleteDevice(r) \/ Deactivate(r)
      PROVE  U /\ L /\ T
  BY <1>5 DEF RotateToken, RegisterDevice, FindByDeviceId, ReuseRow, TransferRow, InsertRow,
              DeleteDevice, Deactivate, OnlyDevices, resetVars
<1>6. ASSUME \/ \E p \in Phones : RotateToken(p)
             \/ \E r \in Requests : FindByDeviceId(r) \/ DeleteDevice(r)
      PROVE  D
  BY <1>6 DEF RotateToken, FindByDeviceId, DeleteDevice, deviceVars
<1>7. ASSUME \/ \E l \in Links : MarkTokenAsUsed(l) \/ LoseMark(l) \/ ExpireLink(l)
             \/ LoseRequest
             \/ \E r \in Requests :
                   \/ RequestPasswordReset(r) \/ SendPasswordResetEmail(r) \/ CreateLink(r)
                   \/ ResetPassword(r) \/ MarkExpired(r) \/ ChangePassword(r)
      PROVE  U /\ D /\ T
  BY <1>7 DEF MarkTokenAsUsed, LoseMark, ExpireLink, LoseRequest, RequestPasswordReset,
              SendPasswordResetEmail, CreateLink, ResetPassword, MarkExpired, ChangePassword,
              OnlyReset, guestVars, deviceVars
<1>8. ASSUME \/ \E l \in Links : ExpireLink(l)
             \/ LoseRequest
             \/ \E r \in Requests : RequestPasswordReset(r) \/ ResetPassword(r)
      PROVE  L
  BY <1>8 DEF ExpireLink, LoseRequest, RequestPasswordReset, ResetPassword, resetVars
<1>9. ASSUME NEW r \in Requests,
             CreateTerms(r) \/ UpdateTerms(r) \/ Unmark(r) \/ WriteTerms(r) \/ Fail(r)
      PROVE  U /\ D /\ L
  BY <1>9 DEF CreateTerms, UpdateTerms, Unmark, WriteTerms, Fail, OnlyTerms, guestVars,
              deviceVars, resetVars
<1>10. ASSUME NEW r \in Requests, CreateTerms(r) \/ UpdateTerms(r) \/ Fail(r)
       PROVE  T
  BY <1>10 DEF CreateTerms, UpdateTerms, Fail
<1> HIDE DEF U, D, L, T
<1>11. CASE AccountsNext
  <2>1. U \/ \E r \in Requests : \/ InsertGuest(r) \/ WriteConversion(r) \/ SoftDelete(r)
                                 \/ Restore(r) \/ Erase(r)
    BY <1>3, <1>5, <1>7, <1>9, <1>11 DEF AccountsNext, Step
  <2>2. D \/ \E r \in Requests : \/ Erase(r) \/ RegisterDevice(r) \/ ReuseRow(r)
                                 \/ TransferRow(r) \/ InsertRow(r) \/ Deactivate(r)
    BY <1>2, <1>6, <1>7, <1>9, <1>11 DEF AccountsNext, Step
  <2>3. \/ L
        \/ \E r \in Requests : \/ SendPasswordResetEmail(r) \/ CreateLink(r)
                               \/ MarkExpired(r) \/ ChangePassword(r)
        \/ \E l \in Links : MarkTokenAsUsed(l) \/ LoseMark(l)
    BY <1>2, <1>4, <1>5, <1>8, <1>9, <1>11 DEF AccountsNext, Step
  <2>4. T \/ \E r \in Requests : Unmark(r) \/ WriteTerms(r)
    BY <1>2, <1>4, <1>5, <1>7, <1>10, <1>11 DEF AccountsNext, Step
  <2> QED BY <2>1, <2>2, <2>3, <2>4 DEF U, D, L, T
<1> QED BY <1>1, <1>11

-----------------------------------------------------------------------------
\* The steps that give each kind of request its place.
LEMMA WhoArrives ==
    ASSUME TypeInv, [AccountsNext]_accountsVars, NEW q \in Requests, req'[q] # req[q]
    PROVE  /\ req'[q].at = "insertGuest" => CreateGuest(q)
           /\ req'[q].at \in AboutDevice => RegisterDevice(q) \/ FindByDeviceId(q)
           /\ req'[q].at = "deactivate" => DeleteDevice(q)
           /\ req'[q].at = "newLink" => SendPasswordResetEmail(q)
           /\ req'[q].at \in AboutLink => ResetPassword(q)
           /\ req'[q].at \in AboutTerms => CreateTerms(q) \/ UpdateTerms(q) \/ Unmark(q)
<1>0. req' \in [Requests -> Found] /\ req \in [Requests -> Found] /\ req[q] \in Found
  BY AccountsStepTyped DEF TypeInv, AccountsTypeOK
<1>1. Idle.at = "idle"
  BY DEF Idle
<1>2. RegisterDevice(q) => req'[q].at \in AboutDevice
  <2> SUFFICES ASSUME RegisterDevice(q) PROVE req'[q].at \in AboutDevice
    OBVIOUS
  <2>1. PICK u \in Users, p \in Phones, named \in BOOLEAN, a \in AboutDevice :
            req' = [req EXCEPT ![q] = [at |-> a, on |-> p, user |-> u, token |-> <<p, token[p]>>,
                                       row |-> None, phone |-> IF named THEN p ELSE None]]
    BY DEF RegisterDevice, Begin, AboutDevice
  <2>2. PICK x : x = [at |-> a, on |-> p, user |-> u, token |-> <<p, token[p]>>,
                      row |-> None, phone |-> IF named THEN p ELSE None]
    OBVIOUS
  <2>3. x.at = a
    BY <2>2
  <2> QED BY <1>0, <2>1, <2>2, <2>3
<1>3. FindByDeviceId(q) => req'[q].at \in AboutDevice
  <2> SUFFICES ASSUME FindByDeviceId(q) PROVE req'[q].at \in AboutDevice
    OBVIOUS
  <2>1. req[q] \in DeviceRequest
    BY <1>0, WhatIsFound DEF FindByDeviceId, At, AboutDevice, DeviceRequest
  <2>2. [req[q] EXCEPT !.at = "insert"].at = "insert"
    BY <2>1 DEF DeviceRequest
  <2>3. \A d : [req[q] EXCEPT !.at = "transfer", !.row = d].at = "transfer"
    BY <2>1 DEF DeviceRequest
  <2>4. CASE RowsOf(req[q].on) = {}
    BY <1>0, <2>2, <2>4 DEF FindByDeviceId, GoOn, AboutDevice
  <2>5. CASE RowsOf(req[q].on) # {}
    <3>1. PICK d : req' = [req EXCEPT ![q] = [req[q] EXCEPT !.at = "transfer", !.row = d]]
      BY <2>5 DEF FindByDeviceId, GoOn
    <3> QED BY <1>0, <2>3, <3>1 DEF AboutDevice
  <2> QED BY <2>4, <2>5
<1>4. DeleteDevice(q) => req'[q].at = "deactivate"
  <2> SUFFICES ASSUME DeleteDevice(q) PROVE req'[q].at = "deactivate"
    OBVIOUS
  <2>1. PICK u \in Users, d \in DOMAIN devices :
            req' = [req EXCEPT ![q] = [at |-> "deactivate", on |-> devices[d].token[1],
                                       user |-> u, row |-> d]]
    BY DEF DeleteDevice, DevicesOf, Begin
  <2> QED BY <1>0, <2>1
<1>5. CreateTerms(q) \/ UpdateTerms(q) => req'[q].at \in AboutTerms
  <2> SUFFICES ASSUME CreateTerms(q) \/ UpdateTerms(q) PROVE req'[q].at \in AboutTerms
    OBVIOUS
  <2>1. PICK v \in Versions, b \in BOOLEAN, a \in AboutTerms, t \in {"createTerms", "updateTerms"} :
            req' = [req EXCEPT ![q] = [at |-> a, on |-> "terms", version |-> v, isLatest |-> b,
                                       then |-> t]]
    <3>1. DOMAIN latest \subseteq Versions
      BY DEF TypeInv, AccountsTypeOK
    <3>2. CASE CreateTerms(q)
      BY <3>2 DEF CreateTerms, TermsRequest, Begin, AboutTerms
    <3>3. CASE UpdateTerms(q)
      BY <3>1, <3>3 DEF UpdateTerms, TermsRequest, Begin, AboutTerms
    <3> QED BY <3>2, <3>3
  <2>2. PICK x : x = [at |-> a, on |-> "terms", version |-> v, isLatest |-> b, then |-> t]
    OBVIOUS
  <2>3. x.at = a
    BY <2>2
  <2> QED BY <1>0, <2>1, <2>2, <2>3
<1>6. Unmark(q) => req'[q].at \in AboutTerms
  <2> SUFFICES ASSUME Unmark(q) PROVE req'[q].at \in AboutTerms
    OBVIOUS
  <2>1. req[q] \in [at : {"unmark", "createTerms", "updateTerms"}, on : {"terms"},
                    version : Versions, isLatest : BOOLEAN, then : {"createTerms", "updateTerms"}]
    BY <1>0, WhatIsFound DEF Unmark, At
  <2>2. [req[q] EXCEPT !.at = req[q].then].at \in AboutTerms
    BY <2>1 DEF AboutTerms
  <2> QED BY <1>0, <2>2 DEF Unmark, GoOn
<1> QED
  BY <1>1, <1>2, <1>3, <1>4, <1>5, <1>6, WhereTo DEF AboutDevice, AboutLink, AboutTerms

\* Every step keeps what guests rest on.
LEMMA GuestStep ==
    ASSUME TypeInv, RacesAreKnown, GuestInv, [AccountsNext]_accountsVars
    PROVE  GuestInv'
<1> DEFINE Guests(f, p) == {u \in DOMAIN f : f[u].phone = p /\ f[u].type = "GUEST" /\ ~f[u].deleted}
<1>0. /\ raced \subseteq raced' /\ refused = {}
      /\ \A q \in Requests : req[q] \in Found
      /\ req \in [Requests -> Found]
      /\ users \in [DOMAIN users -> Account]
  BY RacesStayKnown DEF GuestInv, TypeInv, AccountsTypeOK
<1>g. /\ \A p : GuestsOf(p) = Guests(users, p)
      /\ \A q \in Requests :
            req[q].at = "insertGuest" /\ req[q].on \notin raced => Guests(users, req[q].on) = {}
  BY DEF GuestsOf, GuestInv
<1>h. ASSUME refused' = {},
             \A q \in Requests : req'[q].at = "insertGuest" /\ req'[q].on \notin raced'
                 => Guests(users', req'[q].on) = {}
      PROVE  GuestInv'
  BY <1>h DEF GuestsOf, GuestInv
<1> HIDE DEF GuestInv, Guests
<1>1. ASSUME NEW q \in Requests, req'[q].at = "insertGuest", req'[q] # req[q]
      PROVE  Guests(users', req'[q].on) = {}
  <2>1. CreateGuest(q)
    BY <1>1, WhoArrives
  <2>2. PICK p \in Phones :
            req' = [req EXCEPT ![q] = IF GuestsOf(p) # {} THEN Idle ELSE [at |-> "insertGuest", on |-> p]]
    BY <2>1 DEF CreateGuest, Begin
  <2>3. GuestsOf(p) = {} /\ req'[q].on = p
    BY <1>0, <1>1, <2>2 DEF Idle
  <2>4. users' = users
    BY <2>1 DEF CreateGuest, guestVars
  <2> QED BY <1>g, <2>3, <2>4
\* Who waits with a phone that has no guest finds none, unless somebody who is
\* about that phone makes one.
<1>2. ASSUME refused' = {},
             \A q \in Requests : req[q].at = "insertGuest" /\ req[q].on \notin raced' /\ req'[q] = req[q]
                 => Guests(users', req[q].on) \subseteq Guests(users, req[q].on)
      PROVE  GuestInv'
  <2>1. ASSUME NEW q \in Requests, req'[q].at = "insertGuest", req'[q].on \notin raced',
               req'[q] = req[q]
        PROVE  Guests(users', req'[q].on) = {}
    <3>1. Guests(users, req[q].on) = {}
      BY <1>0, <1>g, <2>1
    <3>3. Guests(users', req[q].on) \subseteq Guests(users, req[q].on)
      BY <1>2, <2>1
    <3> QED BY <2>1, <3>1, <3>3
  <2> QED BY <1>1, <1>2, <1>h, <2>1
<1>3. ASSUME UNCHANGED guestVars PROVE GuestInv'
  BY <1>0, <1>2, <1>3 DEF guestVars
<1>4. ASSUME NEW r \in Requests, InsertGuest(r) PROVE GuestInv'
  <2>1. req[r].at = "insertGuest" /\ req'[r] = Idle
    BY <1>0, <1>4 DEF InsertGuest, At, Done, GoOn
  <2>2. req[r].on \notin raced => GuestsOf(req[r].on) = {}
    BY <1>g, <2>1
  <2>3. refused' = {}
    BY <1>0, <1>4, <2>2 DEF InsertGuest
  <2>4. ASSUME NEW q \in Requests, req'[q] = req[q], req[q].at = "insertGuest", req[q].on \notin raced'
        PROVE  Guests(users', req[q].on) \subseteq Guests(users, req[q].on)
    <3>1. req[q].on # req[r].on
      <4>1. q # r
        BY <2>1, <2>4 DEF Idle
      <4>2. {"insertGuest"} \in Kinds
        BY DEF Kinds
      <4> QED BY <1>0, <2>1, <2>4, <4>1, <4>2 DEF RacesAreKnown
    <3>2. CASE users' = users
      BY <3>2
    <3>3. CASE users' # users
      <4>1. PICK u \in Users \ DOMAIN users :
                users' = Plus(users, u, [phone |-> req[r].on, type |-> "GUEST", deleted |-> FALSE])
        BY <1>4, <3>3 DEF InsertGuest, Unheld
      <4>2. /\ DOMAIN users' = DOMAIN users \cup {u}
            /\ users'[u].phone = req[r].on
            /\ \A x \in DOMAIN users : users'[x] = users[x]
        BY <4>1 DEF Plus
      <4> QED BY <3>1, <4>2 DEF Guests
    <3> QED BY <3>2, <3>3
  <2> QED BY <1>2, <2>3, <2>4
<1>5. ASSUME NEW r \in Requests, WriteConversion(r) \/ SoftDelete(r) PROVE GuestInv'
  <2>1. refused' = refused
    BY <1>5 DEF WriteConversion, SoftDelete
  <2>2. \/ users' = users
        \/ \E u \in DOMAIN users : \/ users' = [users EXCEPT ![u].type = "REGISTERED"]
                                   \/ users' = [users EXCEPT ![u].deleted = TRUE]
    BY <1>5 DEF WriteConversion, SoftDelete
  <2>3. \A p : Guests(users', p) \subseteq Guests(users, p)
    <3>1. CASE users' = users
      BY <3>1
    <3>2. ASSUME NEW u \in DOMAIN users, NEW y \in Account, users' = [users EXCEPT ![u] = y],
                 y.type = "REGISTERED" \/ y.deleted
          PROVE  \A p : Guests(users', p) \subseteq Guests(users, p)
      BY <1>0, <3>2 DEF Guests
    <3>3. \A u \in DOMAIN users :
              /\ [users[u] EXCEPT !.type = "REGISTERED"] \in Account
              /\ [users[u] EXCEPT !.type = "REGISTERED"].type = "REGISTERED"
              /\ [users[u] EXCEPT !.deleted = TRUE] \in Account
              /\ [users[u] EXCEPT !.deleted = TRUE].deleted
      BY <1>0 DEF Account
    <3> QED BY <2>2, <3>1, <3>2, <3>3
  <2> QED BY <1>0, <1>2, <2>1, <2>3
<1>6. ASSUME NEW r \in Requests, Restore(r) PROVE GuestInv'
  <2>1. PICK u \in DOMAIN users :
            /\ req[r] = Idle /\ refused' = refused
            /\ users' = [users EXCEPT ![u].deleted = FALSE]
            /\ raced' = IF Busy(r, users[u].phone) THEN raced \cup {users[u].phone} ELSE raced
    BY <1>6 DEF Restore, Begin, Race
  <2>2. ASSUME NEW q \in Requests, req'[q] = req[q], req[q].at = "insertGuest", req[q].on \notin raced'
        PROVE  Guests(users', req[q].on) \subseteq Guests(users, req[q].on)
    <3>1. req[q] # Idle /\ q # r
      BY <2>1, <2>2 DEF Idle
    <3>2. users[u].phone # req[q].on
      BY <2>1, <2>2, <3>1 DEF Busy
    <3>3. /\ DOMAIN users' = DOMAIN users
          /\ users'[u].phone = users[u].phone
          /\ \A x \in DOMAIN users \ {u} : users'[x] = users[x]
      BY <1>0, <2>1 DEF Account
    <3> QED BY <3>2, <3>3 DEF Guests
  <2> QED BY <1>0, <1>2, <2>1, <2>2
<1>7. ASSUME NEW r \in Requests, Erase(r) PROVE GuestInv'
  <2>1. refused' = refused
    BY <1>7 DEF Erase
  <2>2. users' = users \/ users' = [x \in DOMAIN users \ {req[r].on} |-> users[x]]
    BY <1>7 DEF Erase
  <2>3. \A p : Guests(users', p) \subseteq Guests(users, p)
    BY <2>2 DEF Guests
  <2> QED BY <1>0, <1>2, <2>1, <2>3
<1> QED BY <1>3, <1>4, <1>5, <1>6, <1>7, WhatChanges

\* Every step keeps what links rest on.
LEMMA LinkStep ==
    ASSUME TypeInv, RacesAreKnown, LinkInv, [AccountsNext]_accountsVars
    PROVE  LinkInv'
<1>0. /\ raced \subseteq raced'
      /\ \A q \in Requests : req[q] \in Found /\ (req[q].at \in AboutLink => req[q].on \in Links)
      /\ req \in [Requests -> Found]
      /\ links \in [DOMAIN links -> ResetLink] /\ marks \subseteq DOMAIN links
      /\ DOMAIN links \subseteq Links
      /\ uses \in [Links -> Nat]
  BY RacesStayKnown, WhatIsFound DEF TypeInv, AccountsTypeOK
\* What is known of a link that is used.
<1> DEFINE Spent(l) == uses[l] # 0 => l \in marks \/ (l \in DOMAIN links /\ links[l].used)
<1>s. \A l \in Links \ raced : uses[l] <= 1 /\ Spent(l)
  BY DEF LinkInv
<1>c. \A q \in Requests : req[q].at = "change" /\ req[q].on \notin raced => uses[req[q].on] = 0
  BY DEF LinkInv
<1>1. ASSUME NEW q \in Requests, req'[q].at = "change", req'[q].on \notin raced', req'[q] # req[q],
             uses' = uses
      PROVE  uses[req'[q].on] = 0
  <2>1. ResetPassword(q)
    BY <1>1, WhoArrives DEF AboutLink
  <2>2. PICK l \in DOMAIN links, a \in AboutLink :
            /\ req' = [req EXCEPT ![q] = IF ~Usable(l) THEN Idle ELSE [at |-> a, on |-> l]]
            /\ raced' = IF Busy(q, l) \/ l \in marks THEN raced \cup {l} ELSE raced
    BY <2>1 DEF ResetPassword, Begin, Race, AboutLink
  <2>3. Usable(l) /\ req'[q].on = l
    BY <1>0, <1>1, <2>2 DEF Idle
  <2>4. l \in Links \ raced /\ l \notin marks /\ ~links[l].used
    BY <1>0, <1>1, <2>2, <2>3 DEF Usable
  <2> QED BY <1>s, <2>3, <2>4
\* Steps in which no password is changed.
<1>2. ASSUME uses' = uses,
             \A l \in Links \ raced' : Spent(l) => Spent(l)'
      PROVE  LinkInv'
  <2>1. \A l \in Links \ raced' : uses'[l] <= 1 /\ Spent(l)'
    BY <1>0, <1>2, <1>s
  <2>2. ASSUME NEW q \in Requests, req'[q].at = "change", req'[q].on \notin raced'
        PROVE  uses'[req'[q].on] = 0
    BY <1>0, <1>1, <1>2, <1>c, <2>2
  <2> HIDE DEF Spent
  <2>3. \A l \in Links \ raced' : Spent(l)'
    BY <2>1
  <2> USE DEF Spent
  <2> QED BY <2>1, <2>2, <2>3 DEF LinkInv
<1>3. ASSUME UNCHANGED <<links, marks, uses>> PROVE LinkInv'
  BY <1>2, <1>3
<1>4. ASSUME NEW r \in Requests, SendPasswordResetEmail(r) PROVE LinkInv'
  <2>1. /\ uses' = uses /\ marks' = marks
        /\ links' = [l \in DOMAIN links |->
                       IF l \in Open THEN [links[l] EXCEPT !.status = "CANCELLED"] ELSE links[l]]
    BY <1>4 DEF SendPasswordResetEmail
  <2>2. \A l \in DOMAIN links : [links[l] EXCEPT !.status = "CANCELLED"].used = links[l].used
    BY <1>0 DEF ResetLink
  <2>3. DOMAIN links' = DOMAIN links /\ \A l \in DOMAIN links : links'[l].used = links[l].used
    BY <2>1, <2>2
  <2> QED BY <1>2, <2>1, <2>3
<1>5. ASSUME NEW r \in Requests, CreateLink(r) PROVE LinkInv'
  <2>1. PICK l \in Links \ DOMAIN links :
            links' = Plus(links, l, [status |-> "PENDING", used |-> FALSE])
    BY <1>5 DEF CreateLink
  <2>2. uses' = uses /\ marks' = marks
    BY <1>5 DEF CreateLink
  <2>3. DOMAIN links \subseteq DOMAIN links' /\ \A k \in DOMAIN links : links'[k] = links[k]
    BY <2>1 DEF Plus
  <2> QED BY <1>2, <2>2, <2>3
<1>6. ASSUME NEW r \in Requests, MarkExpired(r) PROVE LinkInv'
  <2>1. /\ uses' = uses /\ marks' = marks
        /\ links' = [links EXCEPT ![req[r].on].status = "EXPIRED"]
    BY <1>6 DEF MarkExpired
  <2>2. \A l \in DOMAIN links : [links[l] EXCEPT !.status = "EXPIRED"].used = links[l].used
    BY <1>0 DEF ResetLink
  <2>3. DOMAIN links' = DOMAIN links /\ \A l \in DOMAIN links : links'[l].used = links[l].used
    BY <1>0, <2>1, <2>2
  <2> QED BY <1>2, <2>1, <2>3
<1>7. ASSUME NEW r \in Requests, ChangePassword(r) PROVE LinkInv'
  <2> DEFINE k == req[r].on
  <2>1. /\ req[r].at = "change" /\ k \in Links
        /\ uses' = [uses EXCEPT ![k] = @ + 1]
        /\ marks' = marks \cup {k} /\ links' = links
        /\ req' = [req EXCEPT ![r] = Idle]
        /\ raced' = raced
    BY <1>0, <1>7 DEF ChangePassword, At, AboutLink, Done, GoOn
  <2>2. \A l \in Links \ {k} : uses'[l] = uses[l]
    BY <1>0, <2>1
  <2>3. k \notin raced => uses'[k] = 1
    BY <1>0, <1>c, <2>1
  <2>4. \A l \in Links \ raced' :
            /\ uses'[l] <= 1
            /\ uses'[l] # 0 => l \in marks' \/ (l \in DOMAIN links' /\ links'[l].used)
    BY <1>s, <2>1, <2>2, <2>3
  <2>5. ASSUME NEW q \in Requests, req'[q].at = "change", req'[q].on \notin raced'
        PROVE  uses'[req'[q].on] = 0
    <3>1. q # r /\ req'[q] = req[q]
      BY <1>0, <2>1, <2>5 DEF Idle
    <3>2. req[q].on # k
      <4>1. AboutLink \in Kinds /\ "change" \in AboutLink
        BY DEF Kinds, AboutLink
      <4> QED BY <2>1, <2>5, <3>1, <4>1 DEF RacesAreKnown
    <3>3. req[q].on \in Links
      BY <1>0, <2>5, <3>1 DEF AboutLink
    <3> QED BY <1>c, <2>1, <2>2, <2>5, <3>1, <3>2, <3>3
  <2> QED BY <2>4, <2>5 DEF LinkInv
<1>8. ASSUME NEW l \in Links, MarkTokenAsUsed(l) PROVE LinkInv'
  <2>1. /\ uses' = uses /\ marks' = marks \ {l} /\ l \in DOMAIN links
        /\ links' = [links EXCEPT ![l] = [status |-> "USED", used |-> TRUE]]
    BY <1>0, <1>8 DEF MarkTokenAsUsed
  <2>2. /\ DOMAIN links' = DOMAIN links /\ links'[l].used
        /\ \A k \in DOMAIN links \ {l} : links'[k] = links[k]
    BY <1>0, <2>1
  <2> QED BY <1>2, <2>1, <2>2
<1>9. ASSUME NEW l \in Links, LoseMark(l) PROVE LinkInv'
  <2>1. uses' = uses /\ marks' = marks \ {l} /\ links' = links /\ l \in raced'
    BY <1>9 DEF LoseMark, Race
  <2> QED BY <1>2, <2>1
<1> QED BY <1>3, <1>4, <1>5, <1>6, <1>7, <1>8, <1>9, WhatChanges

\* Every step keeps what e-mail addresses rest on.
LEMMA MailStep ==
    ASSUME TypeInv, RacesAreKnown, MailInv, [AccountsNext]_accountsVars
    PROVE  MailInv'
<1> DEFINE Pending(f) == {l \in DOMAIN f : f[l].status = "PENDING"}
           One(f) == \A l, m \in Pending(f) : l = m
<1>0. /\ raced \subseteq raced'
      /\ \A q \in Requests : req[q] \in Found /\ (req[q].at = "newLink" => req[q].on = "mail")
      /\ req \in [Requests -> Found]
      /\ links \in [DOMAIN links -> ResetLink]
  BY RacesStayKnown, WhatIsFound DEF TypeInv, AccountsTypeOK
<1>m. "mail" \notin raced =>
          One(links) /\ ((\E q \in Requests : req[q].at = "newLink") => Pending(links) = {})
  BY DEF MailInv, Open
<1>n. ASSUME "mail" \notin raced' =>
                 One(links') /\ ((\E q \in Requests : req'[q].at = "newLink") => Pending(links') = {})
      PROVE  MailInv'
  BY <1>n DEF MailInv, Open
<1> HIDE DEF Pending
<1>1. ASSUME NEW r \in Requests, SendPasswordResetEmail(r) PROVE MailInv'
  <2>1. links' = [l \in DOMAIN links |->
                    IF l \in Open THEN [links[l] EXCEPT !.status = "CANCELLED"] ELSE links[l]]
    BY <1>1 DEF SendPasswordResetEmail
  <2>2. \A l \in DOMAIN links : [links[l] EXCEPT !.status = "CANCELLED"].status = "CANCELLED"
    BY <1>0 DEF ResetLink
  <2>3. Pending(links') = {}
    BY <2>1, <2>2 DEF Pending, Open
  <2> QED BY <1>n, <2>3
\* No link is made, and nobody is about to make one who was not.
<1>2. ASSUME Pending(links') \subseteq Pending(links),
             ~ \E r \in Requests : SendPasswordResetEmail(r)
      PROVE  MailInv'
  <2>1. \A q \in Requests : req'[q].at = "newLink" => req'[q] = req[q]
    BY <1>2, WhoArrives
  <2> QED BY <1>0, <1>2, <1>m, <1>n, <2>1
<1>3. ASSUME NEW r \in Requests, CreateLink(r) PROVE MailInv'
  <2>1. PICK l \in Links \ DOMAIN links :
            links' = Plus(links, l, [status |-> "PENDING", used |-> FALSE])
    BY <1>3 DEF CreateLink
  <2>2. req[r].at = "newLink" /\ req' = [req EXCEPT ![r] = Idle]
    BY <1>3 DEF CreateLink, At, Done, GoOn
  <2>3. Pending(links') \subseteq Pending(links) \cup {l}
    BY <2>1 DEF Pending, Plus
  <2>4. "mail" \notin raced => Pending(links) = {}
    BY <1>m, <2>2
  <2>5. ASSUME "mail" \notin raced', NEW q \in Requests PROVE req'[q].at # "newLink"
    <3>1. CASE q = r
      BY <1>0, <2>2, <3>1 DEF Idle
    <3>2. CASE q # r
      <4>1. {"newLink"} \in Kinds
        BY DEF Kinds
      <4> QED BY <1>0, <2>2, <2>5, <3>2, <4>1 DEF RacesAreKnown
    <3> QED BY <3>1, <3>2
  <2> QED BY <1>0, <1>n, <2>3, <2>4, <2>5
<1>4. ASSUME NEW r \in Requests, MarkExpired(r) \/ ChangePassword(r)
      PROVE  Pending(links') \subseteq Pending(links)
  <2>1. \A l \in DOMAIN links : [links[l] EXCEPT !.status = "EXPIRED"].status = "EXPIRED"
    BY <1>0 DEF ResetLink
  <2>2. links' = links \/ links' = [links EXCEPT ![req[r].on].status = "EXPIRED"]
    BY <1>4 DEF MarkExpired, ChangePassword
  <2> QED BY <1>0, <2>1, <2>2 DEF Pending
<1>5. ASSUME NEW l \in Links, MarkTokenAsUsed(l) \/ LoseMark(l)
      PROVE  Pending(links') \subseteq Pending(links)
  <2>2. links' = links \/ links' = [links EXCEPT ![l] = [status |-> "USED", used |-> TRUE]]
    BY <1>5 DEF MarkTokenAsUsed, LoseMark
  <2> QED BY <1>0, <2>2 DEF Pending
<1> QED BY <1>1, <1>2, <1>3, <1>4, <1>5, WhatChanges

\* Every step keeps what terms rest on.
LEMMA TermsStep ==
    ASSUME TypeInv, RacesAreKnown, TermsInv, [AccountsNext]_accountsVars
    PROVE  TermsInv'
<1> DEFINE Late == {"createTerms", "updateTerms"}
           Request == [at : {"unmark", "createTerms", "updateTerms"}, on : {"terms"},
                       version : Versions, isLatest : BOOLEAN, then : Late]
           Only(f, x) == \A v \in DOMAIN f : f[v] => v = x.version
           One(f) == \A v, w \in DOMAIN f : f[v] /\ f[w] => v = w
<1>0. /\ raced \subseteq raced'
      /\ \A q \in Requests : req[q] \in Found /\ (req[q].at \in AboutTerms => req[q] \in Request)
      /\ req \in [Requests -> Found]
      /\ latest \in [DOMAIN latest -> BOOLEAN]
  BY RacesStayKnown, WhatIsFound DEF TypeInv, AccountsTypeOK, AboutTerms
<1>m. "terms" \notin raced =>
          /\ One(latest)
          /\ \A q \in Requests : req[q].at \in Late /\ req[q].isLatest => Only(latest, req[q])
  BY DEF TermsInv
<1>n. ASSUME "terms" \notin raced' => One(latest'),
             \A q \in Requests : "terms" \notin raced' /\ req'[q].at \in Late /\ req'[q].isLatest
                 => Only(latest', req'[q])
      PROVE  TermsInv'
  BY <1>n DEF TermsInv
<1>a. ASSUME "terms" \notin raced, NEW q \in Requests, NEW t \in Requests,
             req[q].at \in AboutTerms, req[t].at \in AboutTerms
      PROVE  q = t
  <2>1. req[q].on = "terms" /\ req[t].on = "terms" /\ AboutTerms \in Kinds
    BY <1>0, <1>a DEF Kinds
  <2> QED BY <1>a, <2>1 DEF RacesAreKnown
<1>1. ASSUME NEW r \in Requests, Unmark(r) PROVE TermsInv'
  <2>1. /\ req[r].at = "unmark" /\ raced' = raced
        /\ latest' = [v \in DOMAIN latest |-> latest[v] /\ v = req[r].version]
        /\ req' = [req EXCEPT ![r] = [req[r] EXCEPT !.at = req[r].then]]
    BY <1>1 DEF Unmark, Unmarked, At, GoOn
  <2>2. [req[r] EXCEPT !.at = req[r].then].version = req[r].version
    BY <1>0, <2>1 DEF AboutTerms
  <2>3. One(latest') /\ Only(latest', req[r])
    BY <2>1
  <2>4. ASSUME NEW q \in Requests, "terms" \notin raced', req'[q].at \in Late, req'[q].isLatest
        PROVE  Only(latest', req'[q])
    <3>1. CASE q = r
      BY <1>0, <2>1, <2>2, <2>3, <3>1
    <3>2. CASE q # r
      BY <1>0, <1>a, <2>1, <2>4, <3>2 DEF AboutTerms
    <3> QED BY <3>1, <3>2
  <2> QED BY <1>n, <2>3, <2>4
<1>2. ASSUME NEW r \in Requests, WriteTerms(r) PROVE TermsInv'
  <2> DEFINE v == req[r].version
             b == req[r].isLatest
  <2>1. /\ req[r].at \in Late /\ raced' = raced /\ req' = [req EXCEPT ![r] = Idle]
        /\ \/ latest' = latest
           \/ latest' = Plus(latest, v, b)
           \/ latest' = [latest EXCEPT ![v] = b]
    BY <1>2 DEF WriteTerms, At, Done, GoOn
  <2>2. /\ \A w \in DOMAIN latest' : w # v => w \in DOMAIN latest /\ latest'[w] = latest[w]
        /\ latest' = latest \/ (v \in DOMAIN latest' => latest'[v] = b)
    BY <1>0, <2>1 DEF Plus
  <2>3. "terms" \notin raced => One(latest) /\ (b => Only(latest, req[r]))
    BY <1>m, <2>1
  <2>4. "terms" \notin raced' => One(latest')
    BY <2>1, <2>2, <2>3
  <2>5. ASSUME NEW q \in Requests, "terms" \notin raced' PROVE req'[q].at \notin Late
    BY <1>0, <1>a, <2>1, <2>5 DEF AboutTerms, Idle
  <2> QED BY <1>n, <2>4, <2>5
<1>3. ASSUME latest' = latest, ~ \E r \in Requests : Unmark(r) PROVE TermsInv'
  <2>1. ASSUME NEW q \in Requests, req'[q].at \in Late, req'[q].isLatest
        PROVE  req'[q] = req[q]
    <3> SUFFICES ASSUME req'[q] # req[q] PROVE FALSE
      OBVIOUS
    <3>1. CreateTerms(q) \/ UpdateTerms(q)
      BY <1>3, <2>1, WhoArrives DEF AboutTerms
    <3>2. PICK u \in Versions, b \in BOOLEAN, t \in Late :
              req' = [req EXCEPT ![q] = [at |-> IF b THEN "unmark" ELSE t, on |-> "terms",
                                         version |-> u, isLatest |-> b, then |-> t]]
      <4>1. DOMAIN latest \subseteq Versions
        BY DEF TypeInv, AccountsTypeOK
      <4>2. CASE CreateTerms(q)
        BY <4>2 DEF CreateTerms, TermsRequest, Begin
      <4>3. CASE UpdateTerms(q)
        BY <4>1, <4>3 DEF UpdateTerms, TermsRequest, Begin
      <4> QED BY <3>1, <4>2, <4>3
    <3>5. PICK x : x = [at |-> IF b THEN "unmark" ELSE t, on |-> "terms",
                        version |-> u, isLatest |-> b, then |-> t]
      OBVIOUS
    <3>3. req'[q] = x
      BY <1>0, <3>2, <3>5
    <3>4. x.isLatest = b /\ (b => x.at = "unmark")
      BY <3>5
    <3> QED BY <2>1, <3>3, <3>4
  <2> QED BY <1>0, <1>3, <1>m, <1>n, <2>1
<1>4. ASSUME latest' = latest, NEW r \in Requests, Unmark(r) PROVE TermsInv'
  BY <1>1, <1>4
<1> QED BY <1>1, <1>2, <1>3, WhatChanges

-----------------------------------------------------------------------------
\* The types of devices, of the last logins and of requests about a device.
LEMMA TypesOfDevices ==
    ASSUME TypeInv
    PROVE  /\ req \in [Requests -> Found]
           /\ devices \in [DOMAIN devices -> Device]
           /\ last \in [Phones -> LastLogin]
           /\ \A d \in DOMAIN devices : /\ devices[d] \in Device
                                        /\ devices[d].token \in PushToken
                                        /\ PhoneOf(devices, d) \in Phones
                                        /\ devices[d].phone \in Phones \cup {None}
           /\ \A q \in Requests : req[q].at \in AboutDevice =>
                 /\ req[q] \in DeviceRequest
                 /\ req[q].on \in Phones /\ req[q].phone \in Phones \cup {None}
                 /\ req[q].token \in PushToken
<1>1. /\ req \in [Requests -> Found] /\ \A q \in Requests : req[q] \in Found
      /\ devices \in [DOMAIN devices -> Device]
      /\ last \in [Phones -> LastLogin]
  BY DEF TypeInv, AccountsTypeOK
<1>2. \A q \in Requests : req[q].at \in AboutDevice => req[q] \in DeviceRequest
  BY <1>1, WhatIsFound DEF DeviceRequest
<1>3. \A q \in Requests : req[q].at \in AboutDevice =>
          /\ req[q].on \in Phones /\ req[q].phone \in Phones \cup {None}
          /\ req[q].token \in PushToken
  BY <1>2 DEF DeviceRequest
<1>4. \A d \in DOMAIN devices : devices[d] \in Device
  BY <1>1
<1>5. \A d \in DOMAIN devices : /\ devices[d].token \in PushToken
                               /\ devices[d].phone \in Phones \cup {None}
  BY <1>4 DEF Device
<1>6. \A d \in DOMAIN devices : PhoneOf(devices, d) \in Phones
  BY <1>5 DEF PhoneOf, PushToken
<1> QED BY <1>1, <1>2, <1>3, <1>4, <1>5, <1>6

\* A request that arrives, or goes on, fits what is there.
LEMMA ArrivesFitting ==
    ASSUME TypeInv, DeviceInv, [AccountsNext]_accountsVars, NEW q \in Requests, req'[q] # req[q]
    PROVE  RequestFits(devices', unnamed', raced', req'[q])
<1>0. req \in [Requests -> Found] /\ req' \in [Requests -> Found]
  BY TypesOfDevices, AccountsStepTyped DEF TypeInv, AccountsTypeOK
<1>1. CASE req'[q].at \notin AboutDevice \cup {"deactivate"}
  BY <1>1 DEF RequestFits, AboutDevice
<1>2. CASE RegisterDevice(q)
  <2>1. PICK u \in Users, p \in Phones, named \in BOOLEAN, a \in {"reuse", "lookup", "insert"} :
            /\ req' = [req EXCEPT ![q] = [at |-> a, on |-> p, user |-> u, token |-> <<p, token[p]>>,
                                          row |-> None, phone |-> IF named THEN p ELSE None]]
            /\ a = "insert" => ~named
            /\ unnamed' = IF named THEN unnamed ELSE unnamed \cup {p}
    BY <1>2 DEF RegisterDevice, Begin
  <2>2. PICK x : x = [at |-> a, on |-> p, user |-> u, token |-> <<p, token[p]>>,
                      row |-> None, phone |-> IF named THEN p ELSE None]
    OBVIOUS
  <2>3. /\ x.at = a /\ x.on = p /\ x.token[1] = p
        /\ x.phone = IF named THEN p ELSE None
    BY <2>2
  <2>4. req'[q] = x
    BY <1>0, <2>1, <2>2
  <2> QED BY <2>1, <2>3, <2>4 DEF RequestFits
<1>3. CASE FindByDeviceId(q)
  <2>1. /\ req[q].at = "lookup" /\ UNCHANGED <<devices, unnamed, raced>>
    BY <1>3 DEF FindByDeviceId, At, deviceVars
  <2>2. req[q] \in DeviceRequest /\ req[q].on \in Phones
    BY <2>1, TypesOfDevices DEF AboutDevice
  <2>3. /\ req[q].token[1] = req[q].on
        /\ req[q].phone \in {None, req[q].on}
        /\ req[q].on \notin unnamed => req[q].phone = req[q].on
    BY <2>1 DEF DeviceInv, RequestsFollow, RequestFits, AboutDevice
  <2>4. CASE RowsOf(req[q].on) = {}
    <3>1. req'[q] = [req[q] EXCEPT !.at = "insert"]
      BY <1>0, <1>3, <2>4 DEF FindByDeviceId, GoOn
    <3>2. /\ req'[q].at = "insert" /\ req'[q].on = req[q].on
          /\ req'[q].token = req[q].token /\ req'[q].phone = req[q].phone
      BY <2>2, <3>1 DEF DeviceRequest
    <3>3. \A d \in DOMAIN devices : devices[d].phone # req[q].on
      BY <2>4 DEF RowsOf
    <3> QED BY <2>1, <2>3, <3>2, <3>3 DEF RequestFits
  <2>5. CASE RowsOf(req[q].on) # {}
    <3>1. PICK d \in RowsOf(req[q].on) : req'[q] = [req[q] EXCEPT !.at = "transfer", !.row = d]
      BY <1>0, <1>3, <2>5 DEF FindByDeviceId, GoOn
    <3>2. /\ req'[q].at = "transfer" /\ req'[q].on = req[q].on /\ req'[q].row = d
          /\ req'[q].token = req[q].token /\ req'[q].phone = req[q].phone
      BY <2>2, <3>1 DEF DeviceRequest
    <3>3. d \in DOMAIN devices /\ devices[d].phone = req[q].on
      BY DEF RowsOf
    <3>4. PhoneOf(devices, d) = req[q].on
      BY <2>2, <3>3, AccountsAssumption DEF DeviceInv, RowsArePhones, RowFits
    <3> QED BY <2>1, <2>3, <3>2, <3>4 DEF RequestFits
  <2> QED BY <2>4, <2>5
<1>4. CASE DeleteDevice(q)
  <2>1. PICK u \in Users, d \in DOMAIN devices :
            /\ devices[d].user = u
            /\ req' = [req EXCEPT ![q] = [at |-> "deactivate", on |-> devices[d].token[1],
                                          user |-> u, row |-> d]]
    BY <1>4 DEF DeleteDevice, DevicesOf, Begin
  <2>2. devices' = devices
    BY <1>4 DEF DeleteDevice, deviceVars
  <2>3. /\ req'[q].at = "deactivate" /\ req'[q].on = PhoneOf(devices, d)
        /\ req'[q].row = d /\ req'[q].user = u
    BY <1>0, <2>1 DEF PhoneOf
  <2> QED BY <2>1, <2>2, <2>3 DEF RequestFits, AboutDevice
<1> QED BY <1>1, <1>2, <1>3, <1>4, WhoArrives

\* A row is registered for a user: found by its push token or by the device id.
LEMMA TakenStep ==
    ASSUME TypeInv, RacesAreKnown, DeviceInv, [AccountsNext]_accountsVars,
           NEW r \in Requests, req[r].at \in AboutDevice,
           NEW d \in DOMAIN devices, PhoneOf(devices, d) = req[r].on,
           devices' = [devices EXCEPT ![d] = Owned(req[r], devices[d])], Registered(r),
           unnamed' = unnamed, raced' = raced
    PROVE  DeviceInv'
<1> DEFINE x == req[r]
           p == req[r].on
           y == Owned(req[r], devices[d])
<1>0. /\ x \in DeviceRequest /\ p \in Phones /\ x.token \in PushToken
      /\ devices[d].phone \in Phones \cup {None}
      /\ devices \in [DOMAIN devices -> Device] /\ last \in [Phones -> LastLogin]
      /\ \A e \in DOMAIN devices : PhoneOf(devices, e) \in Phones
  BY TypesOfDevices
<1>1. /\ x.token[1] = p
      /\ x.phone \in {None, p} /\ (p \notin unnamed => x.phone = p)
  BY DEF DeviceInv, RequestsFollow, RequestFits
<1>2. /\ y.token = x.token /\ y.user = x.user /\ y.active
      /\ y.phone = IF x.phone = None THEN devices[d].phone ELSE x.phone
  BY <1>0, RowOfRequest
<1>3. RowFits(devices, unnamed, d)
  BY DEF DeviceInv, RowsArePhones
<1>4. y.token[1] = p /\ y.phone \in {None, p} /\ (p \notin unnamed => y.phone = p)
  BY <1>1, <1>2, <1>3 DEF RowFits
<1> HIDE DEF y
<1>5. /\ DOMAIN devices' = DOMAIN devices
      /\ devices'[d] = y
      /\ \A e \in DOMAIN devices \ {d} : devices'[e] = devices[e]
  BY <1>0 DEF y
<1>6. \A e \in DOMAIN devices : PhoneOf(devices', e) = PhoneOf(devices, e)
  BY <1>4, <1>5 DEF PhoneOf
<1>7. \A e \in DOMAIN devices' : RowFits(devices', unnamed', e)
  <2>1. RowFits(devices', unnamed', d)
    BY <1>4, <1>5, <1>6 DEF RowFits
  <2>2. \A e \in DOMAIN devices \ {d} : RowFits(devices', unnamed', e)
    BY <1>5, <1>6 DEF RowFits, DeviceInv, RowsArePhones
  <2> QED BY <1>5, <2>1, <2>2
\* Only phones that do not always give their id find more rows by it.
<1>8. \A e \in DOMAIN devices, k \in Phones \ unnamed : devices'[e].phone = k => devices[e].phone = k
  BY <1>0, <1>3, <1>4, <1>5, AccountsAssumption DEF RowFits
<1>9. ASSUME NEW q \in Requests, req'[q] = req[q]
      PROVE  RequestFits(devices', unnamed', raced', req'[q])
  <2>1. RequestFits(devices, unnamed, raced, req[q])
    BY DEF DeviceInv, RequestsFollow
  <2>2. req[q].at = "insert" => req[q].on \in Phones
    BY TypesOfDevices DEF AboutDevice
  <2>3. req[q].at = "insert" /\ req[q].on \notin raced \cup unnamed =>
            \A e \in DOMAIN devices : devices'[e].phone # req[q].on
    BY <1>8, <2>1, <2>2 DEF RequestFits
  <2>4. ASSUME req[q].at = "deactivate", req[q].row = d, req[q].on \notin raced PROVE FALSE
    <3>1. req[q].on = p
      BY <2>1, <2>4 DEF RequestFits
    <3>2. AboutPhone \in Kinds /\ req[q].at \in AboutPhone /\ req[r].at \in AboutPhone
      BY <2>4 DEF Kinds, AboutPhone
    <3>3. q = r
      BY <2>4, <3>1, <3>2 DEF RacesAreKnown
    <3> QED BY <2>4, <3>3 DEF AboutDevice
  <2>5. req[q].at = "deactivate" /\ req[q].row \in DOMAIN devices /\ req[q].on \notin raced
            => devices'[req[q].row].user = req[q].user
    BY <1>5, <2>1, <2>4 DEF RequestFits
  <2>6. req[q].at \in {"transfer", "deactivate"} /\ req[q].row \in DOMAIN devices
            => PhoneOf(devices', req[q].row) = req[q].on
    BY <1>6, <2>1 DEF RequestFits
  <2>7. req[q].at \in AboutDevice =>
            /\ req[q].token[1] = req[q].on
            /\ req[q].phone \in {None, req[q].on}
            /\ req[q].on \notin unnamed => req[q].phone = req[q].on
    BY <2>1 DEF RequestFits
  <2>8. DOMAIN devices' = DOMAIN devices
    BY <1>5
  <2>9. RequestFits(devices', unnamed, raced, req[q])
    BY <2>3, <2>5, <2>6, <2>7, <2>8 DEF RequestFits
  <2> QED BY <1>9, <2>9
<1>10. \A q \in Requests : RequestFits(devices', unnamed', raced', req'[q])
  BY <1>9, ArrivesFitting
<1>11. ASSUME NEW k \in Phones \ (raced' \cup unnamed'), NEW c \in DOMAIN devices', NEW e \in DOMAIN devices',
              devices'[c].phone = k, devices'[e].phone = k
       PROVE  c = e
  <2>1. devices[c].phone = k /\ devices[e].phone = k
    BY <1>5, <1>8, <1>11
  <2> QED BY <1>5, <1>11, <2>1 DEF DeviceInv, OneRow, RowsOf
<1>12. ASSUME NEW k \in Phones, last'[k] # NoLogin
       PROVE  /\ last'[k].token[1] = k
              /\ \E e \in DOMAIN devices' : /\ devices'[e].token = last'[k].token
                                            /\ devices'[e].user = last'[k].user
                                            /\ devices'[e].active \/ k \in cutOff'
  <2>1. /\ last' = [last EXCEPT ![p] = [user |-> x.user, token |-> x.token]]
        /\ cutOff' = cutOff \ {p}
    BY DEF Registered
  <2>2. CASE k = p
    BY <1>0, <1>1, <1>2, <1>5, <2>1, <2>2
  <2>3. CASE k # p
    <3>1. last'[k] = last[k]
      BY <1>0, <2>1, <2>3
    <3>2. PICK e \in DOMAIN devices : /\ devices[e].token = last[k].token /\ last[k].token[1] = k
                                      /\ devices[e].user = last[k].user
                                      /\ devices[e].active \/ k \in cutOff
      BY <1>12, <3>1 DEF DeviceInv, LoginsHold, RowsWith
    <3>3. e # d
      BY <2>3, <3>2 DEF PhoneOf
    <3> QED BY <1>5, <2>1, <2>3, <3>1, <3>2, <3>3
  <2> QED BY <2>2, <2>3
<1> QED
  <2>1. RowsArePhones'
    BY <1>7 DEF RowsArePhones
  <2>2. RequestsFollow'
    BY <1>10 DEF RequestsFollow
  <2>3. OneRow'
    BY <1>11 DEF OneRow, RowsOf
  <2>4. cutOff' \subseteq raced'
    BY DEF DeviceInv, LoginsHold, Registered
  <2>5. LoginsHold'
    BY <1>12, <2>4 DEF LoginsHold, RowsWith
  <2> QED BY <2>1, <2>2, <2>3, <2>5 DEF DeviceInv

\* What fits keeps fitting when rows go away or keep user, token and device id.
LEMMA FewerRows ==
    ASSUME TypeInv, DeviceInv, [AccountsNext]_accountsVars, raced \subseteq raced',
           unnamed \subseteq unnamed', DOMAIN devices' \subseteq DOMAIN devices,
           \A d \in DOMAIN devices' : /\ devices'[d].user = devices[d].user
                                      /\ devices'[d].token = devices[d].token
                                      /\ devices'[d].phone = devices[d].phone
    PROVE  RowsArePhones' /\ RequestsFollow' /\ OneRow'
<1>1. \A d \in DOMAIN devices' : PhoneOf(devices', d) = PhoneOf(devices, d)
  BY DEF PhoneOf
<1>2. RowsArePhones'
  BY <1>1 DEF DeviceInv, RowsArePhones, RowFits
<1>3. ASSUME NEW q \in Requests, req'[q] = req[q]
      PROVE  RequestFits(devices', unnamed', raced', req'[q])
  <2>1. RequestFits(devices, unnamed, raced, req[q])
    BY DEF DeviceInv, RequestsFollow
  <2> QED BY <1>1, <1>3, <2>1 DEF RequestFits
<1>4. RequestsFollow'
  BY <1>3, ArrivesFitting DEF RequestsFollow
<1>5. OneRow'
  BY DEF DeviceInv, OneRow, RowsOf
<1> QED BY <1>2, <1>4, <1>5

\* A phone gets a row: no row has its push token.
LEMMA InsertedStep ==
    ASSUME TypeInv, RacesAreKnown, DeviceInv, [AccountsNext]_accountsVars,
           NEW r \in Requests, req[r].at = "insert",
           NEW d, d \notin DOMAIN devices, d \in Unheld(Rows \ DOMAIN devices),
           devices' = Plus(devices, d, Owned(req[r], [phone |-> None, active |-> TRUE])),
           Registered(r), unnamed' = unnamed, raced' = raced, req' = [req EXCEPT ![r] = Idle]
    PROVE  DeviceInv'
<1> DEFINE x == req[r]
           p == req[r].on
           y == Owned(req[r], [phone |-> None, active |-> TRUE])
<1>a. req[r].at \in AboutDevice
  BY DEF AboutDevice
<1>0. /\ x \in DeviceRequest /\ p \in Phones /\ x.token \in PushToken
      /\ x.phone \in Phones \cup {None}
      /\ last \in [Phones -> LastLogin] /\ req \in [Requests -> Found]
  BY <1>a, TypesOfDevices
<1>1. /\ x.token[1] = p
      /\ x.phone \in {None, p} /\ (p \notin unnamed => x.phone = p)
      /\ p \notin raced \cup unnamed => \A e \in DOMAIN devices : devices[e].phone # p
  BY <1>a DEF DeviceInv, RequestsFollow, RequestFits
<1>2. /\ y.token = x.token /\ y.user = x.user /\ y.active
      /\ y.phone = x.phone
  <2>1. PICK z : z = [phone |-> None, active |-> TRUE]
    OBVIOUS
  <2>2. z.phone = None
    BY <2>1
  <2>3. /\ Owned(x, z).token = x.token /\ Owned(x, z).user = x.user /\ Owned(x, z).active
        /\ Owned(x, z).phone = IF x.phone = None THEN z.phone ELSE x.phone
    BY <1>0, <2>2, RowOfRequest
  <2> QED BY <2>1, <2>2, <2>3
<1> HIDE DEF y
<1>3. /\ DOMAIN devices' = DOMAIN devices \cup {d}
      /\ devices'[d] = y
      /\ \A e \in DOMAIN devices : devices'[e] = devices[e]
  BY DEF y, Plus
<1>4. PhoneOf(devices', d) = p /\ \A e \in DOMAIN devices : PhoneOf(devices', e) = PhoneOf(devices, e)
  BY <1>1, <1>2, <1>3 DEF PhoneOf
<1>5. RowsArePhones'
  <2>1. RowFits(devices', unnamed', d)
    BY <1>1, <1>2, <1>3, <1>4 DEF RowFits
  <2>2. \A e \in DOMAIN devices : RowFits(devices', unnamed', e)
    BY <1>3, <1>4 DEF RowFits, DeviceInv, RowsArePhones
  <2> QED BY <1>3, <2>1, <2>2 DEF RowsArePhones
<1>6. ASSUME NEW q \in Requests, req'[q] = req[q]
      PROVE  RequestFits(devices', unnamed', raced', req'[q])
  <2>1. RequestFits(devices, unnamed, raced, req[q])
    BY DEF DeviceInv, RequestsFollow
  <2>2. q # r
    BY <1>0, <1>6 DEF Idle
  <2>3. req[q].at \in {"transfer", "deactivate"} => req[q].row # d
    BY DEF Unheld, Idle
  <2>4. ASSUME req[q].at = "insert", req[q].on \notin raced \cup unnamed
        PROVE  \A e \in DOMAIN devices' : devices'[e].phone # req[q].on
    <3>1. /\ req[q].on \in Phones /\ AboutPhone \in Kinds
          /\ req[q].at \in AboutPhone /\ req[r].at \in AboutPhone
      BY <2>4, TypesOfDevices DEF AboutDevice, AboutPhone, Kinds
    <3>2. req[q].on # p
      BY <2>2, <2>4, <3>1 DEF RacesAreKnown
    <3>3. y.phone # req[q].on
      BY <1>1, <1>2, <3>1, <3>2, AccountsAssumption
    <3> QED BY <1>3, <2>1, <2>4, <3>3 DEF RequestFits
  <2>5. req[q].at \in {"transfer", "deactivate"} /\ req[q].row \in DOMAIN devices'
            => /\ PhoneOf(devices', req[q].row) = req[q].on
               /\ req[q].at = "deactivate" /\ req[q].on \notin raced =>
                     devices'[req[q].row].user = req[q].user
    <3>1. SUFFICES ASSUME req[q].at \in {"transfer", "deactivate"}, req[q].row \in DOMAIN devices'
                   PROVE  /\ PhoneOf(devices', req[q].row) = req[q].on
                          /\ req[q].at = "deactivate" /\ req[q].on \notin raced =>
                                devices'[req[q].row].user = req[q].user
      OBVIOUS
    <3>2. req[q].row \in DOMAIN devices
      BY <1>3, <2>3, <3>1
    <3> QED BY <1>3, <1>4, <2>1, <3>1, <3>2 DEF RequestFits
  <2>6. req[q].at \in AboutDevice =>
            /\ req[q].token[1] = req[q].on
            /\ req[q].phone \in {None, req[q].on}
            /\ req[q].on \notin unnamed => req[q].phone = req[q].on
    BY <2>1 DEF RequestFits
  <2>7. RequestFits(devices', unnamed, raced, req[q])
    BY <2>4, <2>5, <2>6 DEF RequestFits
  <2> QED BY <1>6, <2>7
<1>7. RequestsFollow'
  BY <1>6, ArrivesFitting DEF RequestsFollow
<1>8. OneRow'
  <2> SUFFICES ASSUME NEW k \in Phones \ (raced' \cup unnamed'), NEW c \in DOMAIN devices',
                      NEW e \in DOMAIN devices', devices'[c].phone = k, devices'[e].phone = k
               PROVE  c = e
    BY DEF OneRow, RowsOf
  <2>1. k # None
    BY AccountsAssumption
  <2>2. CASE c = d \/ e = d
    <3>1. k = p
      BY <1>1, <1>2, <1>3, <2>1, <2>2
    <3>2. \A b \in DOMAIN devices : devices[b].phone # k
      BY <1>1, <3>1
    <3> QED BY <1>3, <3>2
  <2>3. CASE c # d /\ e # d
    <3>1. /\ k \in Phones \ (raced \cup unnamed) /\ c \in DOMAIN devices /\ e \in DOMAIN devices
          /\ devices[c].phone = k /\ devices[e].phone = k
      BY <1>3, <2>3
    <3> QED BY <3>1 DEF DeviceInv, OneRow, RowsOf
  <2> QED BY <2>2, <2>3
<1>9. LoginsHold'
  <2> SUFFICES ASSUME NEW k \in Phones, last'[k] # NoLogin
               PROVE  /\ last'[k].token[1] = k
                      /\ \E e \in DOMAIN devices' :
                            /\ devices'[e].token = last'[k].token
                            /\ devices'[e].user = last'[k].user
                            /\ devices'[e].active \/ k \in cutOff'
    <3>1. cutOff' \subseteq raced'
      BY DEF DeviceInv, LoginsHold, Registered
    <3> QED BY <3>1, ZenonT(60) DEF LoginsHold, RowsWith
  <2>1. /\ last' = [last EXCEPT ![p] = [user |-> x.user, token |-> x.token]]
        /\ cutOff' = cutOff \ {p}
    BY DEF Registered
  <2>2. CASE k = p
    BY <1>0, <1>1, <1>2, <1>3, <2>1, <2>2
  <2>3. CASE k # p
    <3>1. last'[k] = last[k]
      BY <1>0, <2>1, <2>3
    <3>a. last[k] # NoLogin /\ LoginsHold
      BY <3>1 DEF DeviceInv
    <3>2. PICK e \in DOMAIN devices : /\ devices[e].token = last[k].token /\ last[k].token[1] = k
                                      /\ devices[e].user = last[k].user
                                      /\ devices[e].active \/ k \in cutOff
      BY <3>a DEF LoginsHold, RowsWith
    <3> QED BY <1>3, <2>1, <2>3, <3>1, <3>2
  <2> QED BY <2>2, <2>3
<1> QED BY <1>5, <1>7, <1>8, <1>9 DEF DeviceInv

\* Every step keeps what push tokens rest on.
LEMMA DeviceStep ==
    ASSUME TypeInv, RacesAreKnown, DeviceInv, [AccountsNext]_accountsVars
    PROVE  DeviceInv'
<1>0. /\ raced \subseteq raced'
      /\ req \in [Requests -> Found] /\ \A q \in Requests : req[q] \in Found
      /\ devices \in [DOMAIN devices -> Device]
      /\ \A d \in DOMAIN devices : devices[d] \in Device
      /\ last \in [Phones -> LastLogin]
  BY RacesStayKnown, TypesOfDevices DEF TypeInv, AccountsTypeOK
<1>1. ASSUME UNCHANGED <<devices, last, cutOff>>, unnamed \subseteq unnamed'
      PROVE  DeviceInv'
  <2>1. RowsArePhones' /\ RequestsFollow' /\ OneRow'
    BY <1>0, <1>1, FewerRows
  <2>2. LoginsHold'
    BY <1>0, <1>1 DEF DeviceInv, LoginsHold, RowsWith
  <2> QED BY <2>1, <2>2 DEF DeviceInv
<1>2. ASSUME NEW r \in Requests, RegisterDevice(r) PROVE DeviceInv'
  <2>1. UNCHANGED <<devices, last, cutOff>> /\ unnamed \subseteq unnamed'
    BY <1>2 DEF RegisterDevice
  <2> QED BY <1>1, <2>1
<1>3. ASSUME NEW r \in Requests, ReuseRow(r) PROVE DeviceInv'
  <2>1. req[r].at = "reuse" /\ raced' = raced /\ unnamed' = unnamed
    BY <1>3 DEF ReuseRow, At, Done
  <2>2. CASE RowsWith(req[r].token) = {}
    BY <1>1, <1>3, <2>1, <2>2 DEF ReuseRow
  <2>3. CASE RowsWith(req[r].token) # {}
    <3>1. PICK d \in DOMAIN devices :
              /\ devices[d].token = req[r].token
              /\ devices' = [devices EXCEPT ![d] = Owned(req[r], devices[d])]
      BY <1>3, <2>3 DEF ReuseRow, RowsWith
    <3>2. req[r].at \in AboutDevice /\ Registered(r)
      BY <1>3, <2>1, <2>3 DEF ReuseRow, AboutDevice
    <3>3. PhoneOf(devices, d) = req[r].on
      BY <3>1, <3>2 DEF PhoneOf, DeviceInv, RequestsFollow, RequestFits
    <3> QED BY <2>1, <3>1, <3>2, <3>3, TakenStep
  <2> QED BY <2>2, <2>3
<1>4. ASSUME NEW r \in Requests, TransferRow(r) PROVE DeviceInv'
  <2>1. req[r].at = "transfer" /\ raced' = raced /\ unnamed' = unnamed
    BY <1>4 DEF TransferRow, At, Done
  <2>2. CASE UNCHANGED <<devices, last, cutOff>>
    BY <1>1, <2>1, <2>2
  <2>3. CASE ~UNCHANGED <<devices, last, cutOff>>
    <3>1. /\ req[r].row \in DOMAIN devices /\ Registered(r)
          /\ devices' = [devices EXCEPT ![req[r].row] = Owned(req[r], devices[req[r].row])]
      BY <1>4, <2>3 DEF TransferRow
    <3>2. PhoneOf(devices, req[r].row) = req[r].on /\ req[r].at \in AboutDevice
      BY <2>1, <3>1 DEF DeviceInv, RequestsFollow, RequestFits, AboutDevice
    <3> QED BY <2>1, <3>1, <3>2, TakenStep
  <2> QED BY <2>2, <2>3
<1>5. ASSUME NEW r \in Requests, InsertRow(r) PROVE DeviceInv'
  <2>1. /\ req[r].at = "insert" /\ raced' = raced /\ unnamed' = unnamed
        /\ req' = [req EXCEPT ![r] = Idle]
    BY <1>5 DEF InsertRow, At, Done, GoOn
  <2>2. CASE ~FreeToken(req[r].token, None)
    BY <1>1, <1>5, <2>1, <2>2 DEF InsertRow
  <2>3. CASE FreeToken(req[r].token, None)
    <3>1. PICK d \in Unheld(Rows \ DOMAIN devices) :
              devices' = Plus(devices, d, Owned(req[r], [phone |-> None, active |-> TRUE]))
      BY <1>5, <2>3 DEF InsertRow
    <3>2. d \notin DOMAIN devices
      BY DEF Unheld
    <3>3. Registered(r)
      BY <1>5, <2>3 DEF InsertRow
    <3> QED BY <2>1, <3>1, <3>2, <3>3, InsertedStep
  <2> QED BY <2>2, <2>3
<1>6. ASSUME NEW r \in Requests, Erase(r) PROVE DeviceInv'
  <2> DEFINE u == req[r].on
             kept == {d \in DOMAIN devices : devices[d].user # u}
  <2>1. unnamed' = unnamed
    BY <1>6 DEF Erase
  <2>2. CASE UNCHANGED <<devices, last, cutOff>>
    BY <1>1, <2>1, <2>2
  <2>3. CASE ~UNCHANGED <<devices, last, cutOff>>
    <3>1. /\ devices' = [d \in kept |-> devices[d]]
          /\ last' = [p \in Phones |-> IF last[p].user = u THEN NoLogin ELSE last[p]]
          /\ cutOff' = cutOff
      BY <1>6, <2>3 DEF Erase
    <3>2. RowsArePhones' /\ RequestsFollow' /\ OneRow'
      BY <1>0, <2>1, <3>1, FewerRows
    <3>3. ASSUME NEW p \in Phones, last'[p] # NoLogin
          PROVE  /\ last'[p].token[1] = p
                 /\ \E d \in DOMAIN devices' :
                       /\ devices'[d].token = last'[p].token
                       /\ devices'[d].user = last'[p].user
                       /\ devices'[d].active \/ p \in cutOff'
      <4>1. last'[p] = last[p] /\ last[p].user # u
        BY <3>1, <3>3
      <4>2. PICK d \in DOMAIN devices : /\ devices[d].token = last[p].token /\ last[p].token[1] = p
                                        /\ devices[d].user = last[p].user
                                        /\ devices[d].active \/ p \in cutOff
        BY <3>3, <4>1 DEF DeviceInv, LoginsHold, RowsWith
      <4> QED BY <3>1, <4>1, <4>2
    <3>4. cutOff' \subseteq raced'
      BY <1>0, <3>1 DEF DeviceInv, LoginsHold
    <3>5. LoginsHold'
      BY <3>3, <3>4 DEF LoginsHold, RowsWith
    <3> QED BY <3>2, <3>5 DEF DeviceInv
  <2> QED BY <2>2, <2>3
<1>7. ASSUME NEW r \in Requests, Deactivate(r) PROVE DeviceInv'
  <2> DEFINE d == req[r].row
             p == req[r].on
             current == last[p].token = devices[d].token
             own == devices[d].user = req[r].user
  <2>1. unnamed' = unnamed /\ req[r].at = "deactivate"
    BY <1>7 DEF Deactivate, At
  <2>2. CASE d \notin DOMAIN devices
    BY <1>1, <1>7, <2>1, <2>2 DEF Deactivate
  <2>3. CASE d \in DOMAIN devices
    <3>1. /\ devices' = [devices EXCEPT ![d] = [devices[d] EXCEPT !.active = FALSE]]
          /\ last' = IF current /\ own THEN [last EXCEPT ![p] = NoLogin] ELSE last
          /\ cutOff' = IF current /\ ~own THEN cutOff \cup {p} ELSE cutOff
      BY <1>7, <2>3 DEF Deactivate
    <3>2. PhoneOf(devices, d) = p /\ p \in Phones /\ (p \notin raced => own)
      <4>1. p \in Phones
        BY <1>0, <2>1, WhatIsFound
      <4> QED BY <2>1, <2>3, <4>1 DEF DeviceInv, RequestsFollow, RequestFits
    <3>3. PICK y : y = [devices[d] EXCEPT !.active = FALSE]
      OBVIOUS
    <3>4. y.token = devices[d].token /\ y.phone = devices[d].phone /\ y.user = devices[d].user
      BY <1>0, <2>3, <3>3 DEF Device
    <3>5. /\ DOMAIN devices' = DOMAIN devices
          /\ devices'[d] = y
          /\ \A e \in DOMAIN devices \ {d} : devices'[e] = devices[e]
      BY <1>0, <2>3, <3>1, <3>3
    <3>6. RowsArePhones' /\ RequestsFollow' /\ OneRow'
      BY <1>0, <2>1, <3>4, <3>5, FewerRows
    <3>7. ASSUME NEW k \in Phones, last'[k] # NoLogin
          PROVE  /\ last'[k].token[1] = k
                 /\ \E e \in DOMAIN devices' :
                       /\ devices'[e].token = last'[k].token
                       /\ devices'[e].user = last'[k].user
                       /\ devices'[e].active \/ k \in cutOff'
      <4>1. last'[k] = last[k] /\ ~(k = p /\ current /\ own)
        BY <1>0, <3>1, <3>7
      <4>2. PICK e \in DOMAIN devices : /\ devices[e].token = last[k].token /\ last[k].token[1] = k
                                        /\ devices[e].user = last[k].user
                                        /\ devices[e].active \/ k \in cutOff
        BY <3>7, <4>1 DEF DeviceInv, LoginsHold, RowsWith
      <4>3. CASE e # d
        BY <3>1, <3>5, <4>1, <4>2, <4>3
      <4>4. CASE e = d
        <5>1. k = p /\ current
          BY <3>2, <4>2, <4>4 DEF PhoneOf
        <5>2. k \in cutOff'
          BY <3>1, <4>1, <5>1
        <5> QED BY <3>4, <3>5, <4>1, <4>2, <4>4, <5>2
      <4> QED BY <4>3, <4>4
    <3>8. cutOff' \subseteq raced'
      BY <1>0, <3>1, <3>2 DEF DeviceInv, LoginsHold
    <3>9. LoginsHold'
      BY <3>7, <3>8 DEF LoginsHold, RowsWith
    <3> QED BY <3>6, <3>9 DEF DeviceInv
  <2> QED BY <2>2, <2>3
<1>8. ASSUME UNCHANGED <<devices, last, unnamed, cutOff>> PROVE DeviceInv'
  BY <1>1, <1>8
<1> QED BY <1>2, <1>3, <1>4, <1>5, <1>6, <1>7, <1>8, WhatChanges

-----------------------------------------------------------------------------
\* Accounts begin with their invariant.
LEMMA AccountsInvInit == AccountsInit => AccountsInv
<1> SUFFICES ASSUME AccountsInit PROVE AccountsInv
  OBVIOUS
<1>1. TypeInv
  BY AccountsTypeInit
<1>2. /\ \A q \in Requests : req[q].at = "idle"
      /\ DOMAIN devices = {} /\ DOMAIN links = {} /\ DOMAIN latest = {}
      /\ refused = {} /\ cutOff = {}
      /\ \A p \in Phones : last[p] = NoLogin
      /\ \A l \in Links : uses[l] = 0
  BY NoRows DEF AccountsInit, Idle
<1>3. RacesAreKnown
  BY <1>2 DEF RacesAreKnown, Kinds, AboutPhone, AboutDevice, AboutLink, AboutTerms
<1>4. GuestInv
  BY <1>2 DEF GuestInv
<1>5. DeviceInv
  BY <1>2 DEF DeviceInv, RowsArePhones, RequestsFollow, RequestFits, AboutDevice, OneRow, RowsOf,
              LoginsHold
<1>6. LinkInv
  BY <1>2 DEF LinkInv
<1>7. MailInv
  BY <1>2 DEF MailInv, Open
<1>8. TermsInv
  BY <1>2 DEF TermsInv
<1> QED BY <1>1, <1>3, <1>4, <1>5, <1>6, <1>7, <1>8 DEF AccountsInv

\* Every step of Accounts keeps it.
LEMMA AccountsInvStep == AccountsInv /\ [AccountsNext]_accountsVars => AccountsInv'
<1> SUFFICES ASSUME AccountsInv, [AccountsNext]_accountsVars PROVE AccountsInv'
  OBVIOUS
<1> USE DEF AccountsInv
<1>1. TypeInv'
  BY AccountsStepTyped
<1>2. RacesAreKnown'
  BY RacesStayKnown
<1>3. GuestInv'
  BY GuestStep
<1>4. DeviceInv'
  BY DeviceStep
<1>5. LinkInv'
  BY LinkStep
<1>6. MailInv'
  BY MailStep
<1>7. TermsInv'
  BY TermsStep
<1> QED BY <1>1, <1>2, <1>3, <1>4, <1>5, <1>6, <1>7

\* It holds of every reachable state of Accounts.
LEMMA AccountsAreKept == AccountsSpec => []AccountsInv
BY AccountsInvInit, AccountsInvStep, PTL DEF AccountsSpec

\* Of what no key of the database keeps single there is one, whatever fails, while
\* no two requests about it are under way at once: the device row of a phone that
\* names itself, the open reset link of a user, the latest terms of a locale and
\* city, the guest of a phone (createGuest, registerDevice,
\* sendPasswordResetEmail, terms create and update).
THEOREM WhatExistsOnce == AccountsSpec => []OneOfEach
<1>1. AccountsInv => OneOfEach
  <2> SUFFICES ASSUME AccountsInv PROVE OneOfEach
    OBVIOUS
  <2>1. AccountsTypeOK /\ OneGuest
    BY DEF AccountsInv, TypeInv, GuestInv, OneGuest
  <2>2. OneRowPerPhone
    BY AllSame DEF AccountsInv, DeviceInv, OneRow, OneRowPerPhone
  <2>3. OneOpenLink
    BY AllSame DEF AccountsInv, MailInv, OneOpenLink
  <2>4. ASSUME "terms" \notin raced PROVE Cardinality({v \in DOMAIN latest : latest[v]}) <= 1
    <3> DEFINE S == {v \in DOMAIN latest : latest[v]}
    <3>1. \A v, w \in S : v = w
      BY <2>4 DEF AccountsInv, TermsInv
    <3> HIDE DEF S
    <3>2. Cardinality(S) <= 1
      BY <3>1, AllSame
    <3> QED BY <3>2 DEF S
  <2> QED BY <2>1, <2>2, <2>3, <2>4 DEF OneOfEach, OneLatest
<1> QED BY <1>1, AccountsAreKept, PTL

\* The device row with the push token of the last registration on a phone
\* belongs to the user who registered, and is active until he logs the device out
\* himself or deletes his account, unless another user's log-out, which had found
\* the row before, switched it off: and that only where requests about the phone
\* overlapped (registerDevice, deleteDevice, permanentDeleteAccount).
THEOREM PushesFollow == AccountsSpec => []PushFollowsLogin
<1>1. AccountsInv => PushFollowsLogin
  BY DEF AccountsInv, DeviceInv, LoginsHold, PushFollowsLogin
<1> QED BY <1>1, AccountsAreKept, PTL

\* A reset link changes a password once, unless it is used again before the event
\* that marks it has arrived (resetPassword, markTokenAsUsed).
THEOREM LinksWorkOnce == AccountsSpec => []LinkWorksOnce
<1>1. AccountsInv => LinkWorksOnce
  BY DEF AccountsInv, LinkInv, LinkWorksOnce
<1> QED BY <1>1, AccountsAreKept, PTL
=============================================================================
