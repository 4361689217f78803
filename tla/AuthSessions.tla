---------------------------- MODULE AuthSessions ----------------------------
(***************************************************************************)
(* The refresh tokens and sessions of one account (auth service): login,   *)
(* guest login, conversion of a guest, refresh, logout and the revocation  *)
(* of sessions (apps/auth/src/modules/auth/auth.service.ts).               *)
(*                                                                         *)
(* Redis holds at most one refresh token per device under                  *)
(* refresh_token:<user>:<device> and one without a device under the legacy *)
(* key refresh_token:<user>; the database holds session rows.  The two are *)
(* written by separate awaits of handlers that run concurrently, so each   *)
(* action below is the code between two awaits.                            *)
(*                                                                         *)
(* A token is a signed function of its payload and of the second it is     *)
(* issued in: two tokens with the same payload and second are the same     *)
(* string.  A client makes one request at a time.                          *)
(***************************************************************************)
EXTENDS Integers

CONSTANTS
    Clients,     \* apps and browsers the user works with
    Devices,     \* device ids
    DeviceOf,    \* the device id each client sends
    UserDevice,  \* users.deviceId: the device of a guest, or NoDevice
    NoDevice,    \* no device id; also stands for the legacy key
    NoToken,
    MaxClock,    \* bound: seconds
    MaxFaults    \* bound: failed calls, lost replies and expired keys

ASSUME AuthAssumption ==
    /\ NoDevice \notin Devices
    /\ DeviceOf \in [Clients -> Devices]
    /\ \A c, d \in Clients : DeviceOf[c] = DeviceOf[d] => c = d
    /\ UserDevice \in Devices \cup {NoDevice}
    /\ MaxClock \in Nat
    /\ MaxFaults \in Nat
    /\ NoToken \notin [dev : Devices \cup {NoDevice}, guest : BOOLEAN,
                       at : 0..MaxClock]

VARIABLES
    clock,
    userType,   \* users.userType
    slots,      \* Redis: the refresh token under each key
    sessions,   \* the deviceId columns of the session rows not revoked
    pc, op, dev, scan, new,  \* the request of each client
    held,       \* the refresh token each client has last received
    cut,        \* history: clients whose access was ended, or may be lost by
                \* a fault
    dead,       \* history: tokens deleted by a logout and not issued since
    faults

reqVars == <<pc, op, dev, scan, new>>
vars == <<clock, userType, slots, sessions, pc, op, dev, scan, new, held, cut,
          dead, faults>>

Keys   == Devices \cup {NoDevice}
Tokens == [dev : Keys, guest : BOOLEAN, at : 0..MaxClock]

Ops == {"none", "login", "guest", "convert", "refresh", "logout", "revokeAll",
        "revokeOne"}
Pc == {"idle", "get", "getLegacy", "user", "set", "session", "del", "scan",
       "delScanned", "delLegacy", "revokeRows"}

Init ==
    /\ clock = 0
    /\ userType \in IF UserDevice = NoDevice THEN {"REGISTERED"}
                    ELSE {"GUEST", "REGISTERED"}
    /\ slots = [k \in Keys |-> NoToken]
    /\ sessions = {}
    /\ pc = [c \in Clients |-> "idle"]
    /\ op = [c \in Clients |-> "none"]
    /\ dev = [c \in Clients |-> NoDevice]
    /\ scan = [c \in Clients |-> {}]
    /\ new = [c \in Clients |-> NoToken]
    /\ held = [c \in Clients |-> NoToken]
    /\ cut = {}
    /\ dead = {}
    /\ faults = MaxFaults

Fault == faults > 0 /\ faults' = faults - 1

Goto(c, label) == pc' = [pc EXCEPT ![c] = label]

\* The request is over, and its variables with it.
Finish(c) ==
    /\ Goto(c, "idle")
    /\ op' = [op EXCEPT ![c] = "none"]
    /\ dev' = [dev EXCEPT ![c] = NoDevice]
    /\ scan' = [scan EXCEPT ![c] = {}]
    /\ new' = [new EXCEPT ![c] = NoToken]

\* generateTokenPair, followed by the write to Redis.
Issue(c, device, guest) ==
    LET token == [dev |-> device, guest |-> guest, at |-> clock]
    IN  /\ new' = [new EXCEPT ![c] = token]
        /\ dead' = dead \ {token}
        /\ Goto(c, "set")

-----------------------------------------------------------------------------
(* Getting in                                                              *)

\* The password was right and the account verified.
Login(c) ==
    /\ pc[c] = "idle"
    /\ userType = "REGISTERED"
    /\ held[c] = NoToken
    /\ op' = [op EXCEPT ![c] = "login"]
    /\ Issue(c, DeviceOf[c], FALSE)
    /\ cut' = cut \ {c}
    /\ UNCHANGED <<clock, userType, slots, sessions, dev, scan, held, faults>>

\* A guest is found by his device.
CreateGuestSession(c) ==
    /\ pc[c] = "idle"
    /\ userType = "GUEST"
    /\ DeviceOf[c] = UserDevice
    /\ held[c] = NoToken
    /\ op' = [op EXCEPT ![c] = "guest"]
    /\ Issue(c, UserDevice, TRUE)
    /\ cut' = cut \ {c}
    /\ UNCHANGED <<clock, userType, slots, sessions, dev, scan, held, faults>>

\* The new token of the converted account names no device.
ConvertGuestToRegistered(c) ==
    /\ pc[c] = "idle"
    /\ userType = "GUEST"
    /\ held[c] # NoToken
    /\ userType' = "REGISTERED"
    /\ op' = [op EXCEPT ![c] = "convert"]
    /\ Issue(c, NoDevice, FALSE)
    /\ UNCHANGED <<clock, slots, sessions, dev, scan, held, cut, faults>>

-----------------------------------------------------------------------------
(* Refreshing                                                              *)

\* The device id of the token counts; a client may send one for a token that
\* has none.
RefreshTokens(c) ==
    /\ pc[c] = "idle"
    /\ held[c] # NoToken
    /\ op' = [op EXCEPT ![c] = "refresh"]
    /\ \E provided \in {NoDevice, DeviceOf[c]} :
          LET device == IF held[c].dev # NoDevice THEN held[c].dev ELSE provided
          IN  /\ dev' = [dev EXCEPT ![c] = device]
              /\ Goto(c, IF device = NoDevice THEN "getLegacy" ELSE "get")
    /\ UNCHANGED <<clock, userType, slots, sessions, scan, new, held, cut,
                   dead, faults>>

\* 401: the client has to log in again.
Reject(c) ==
    /\ Finish(c)
    /\ held' = [held EXCEPT ![c] = NoToken]

Compare(c, stored) ==
    IF stored = held[c]
    THEN Goto(c, "user") /\ UNCHANGED <<op, dev, scan, new, held>>
    ELSE Reject(c)

\* GET of the device's key; only if there is none, GET of the legacy key.
GetDeviceToken(c) ==
    /\ pc[c] = "get"
    /\ IF slots[dev[c]] = NoToken
       THEN Goto(c, "getLegacy") /\ UNCHANGED <<op, dev, scan, new, held>>
       ELSE Compare(c, slots[dev[c]])
    /\ UNCHANGED <<clock, userType, slots, sessions, cut, dead, faults>>

GetLegacyToken(c) ==
    /\ pc[c] = "getLegacy"
    /\ Compare(c, slots[NoDevice])
    /\ UNCHANGED <<clock, userType, slots, sessions, cut, dead, faults>>

\* The user and his assignments are read, then a new pair is generated.
LoadUser(c) ==
    /\ pc[c] = "user"
    /\ Issue(c, IF dev[c] # NoDevice THEN dev[c] ELSE UserDevice,
             held[c].guest \/ userType = "GUEST")
    /\ UNCHANGED <<clock, userType, slots, sessions, op, dev, scan, held, cut,
                   faults>>

\* Any failure on the way is reported as an invalid refresh token.
RefreshFails(c) ==
    /\ pc[c] \in {"get", "getLegacy", "user"}
    /\ Fault
    /\ Reject(c)
    /\ cut' = cut \cup {c}
    /\ UNCHANGED <<clock, userType, slots, sessions, dead>>

-----------------------------------------------------------------------------
(* What login, guest login, conversion and refresh have in common          *)

\* Slip: the key does not depend on the device.
StoreTokenPerUser(c) ==
    /\ pc[c] = "set"
    /\ slots' = [slots EXCEPT ![NoDevice] = new[c]]
    /\ Goto(c, "session")
    /\ UNCHANGED <<clock, userType, sessions, op, dev, scan, new, held, cut,
                   dead, faults>>

\* Slip: a refresh stores the token it was called with.
StoreTokenUnrotated(c) ==
    /\ pc[c] = "set"
    /\ slots' = [slots EXCEPT ![new[c].dev] =
                    IF op[c] = "refresh" THEN held[c] ELSE new[c]]
    /\ Goto(c, "session")
    /\ UNCHANGED <<clock, userType, sessions, op, dev, scan, new, held, cut,
                   dead, faults>>

\* SET of the key the new token belongs to.  An error is swallowed.
StoreToken(c) ==
    /\ pc[c] = "set"
    /\ \/ /\ slots' = [slots EXCEPT ![new[c].dev] = new[c]]
          /\ UNCHANGED <<cut, faults>>
       \/ /\ Fault
          /\ cut' = cut \cup {c}
          /\ UNCHANGED slots
    /\ Goto(c, "session")
    /\ UNCHANGED <<clock, userType, sessions, op, dev, scan, new, held, dead>>

\* storeSession puts the device into the row for a refresh and for a guest,
\* otherwise at most into its metadata; an error is swallowed.  Then the
\* client gets its answer, if that is not lost.
StoreSession(c) ==
    /\ pc[c] = "session"
    /\ \/ /\ sessions' = sessions \cup
                {IF op[c] \in {"refresh", "guest"} THEN new[c].dev
                 ELSE NoDevice}
          /\ held' = [held EXCEPT ![c] = new[c]]
          /\ UNCHANGED <<cut, faults>>
       \/ /\ Fault
          /\ held' \in {held, [held EXCEPT ![c] = new[c]]}
          /\ cut' = cut \cup {c}
          /\ UNCHANGED sessions
    /\ Finish(c)
    /\ UNCHANGED <<clock, userType, slots, dead>>

-----------------------------------------------------------------------------
(* Getting out                                                             *)

\* Tokens that a request has generated and not stored yet.
OnTheWay == {new[c] : c \in {d \in Clients : pc[d] = "set"}}

\* The clients that such a request is meant to log out.  Revoking a session
\* also hits whoever holds a token without a device.
Targets(c) ==
    IF op[c] = "logout" /\ dev[c] # NoDevice THEN {c}
    ELSE IF op[c] # "revokeOne" THEN Clients
    ELSE {d \in Clients : \E t \in {held[d], new[d]} :
                              t # NoToken /\ t.dev = NoDevice}

\* DEL; an error is swallowed.
Delete(c, keys) ==
    \/ /\ slots' = [k \in Keys |-> IF k \in keys THEN NoToken ELSE slots[k]]
       /\ dead' = dead \cup ({t \in Tokens : t.dev \in keys} \ OnTheWay)
       /\ cut' = cut \cup Targets(c)
       /\ UNCHANGED faults
    \/ /\ Fault
       /\ UNCHANGED <<slots, dead, cut>>

\* The device of the access token decides what the logout is about.
Logout(c) ==
    /\ pc[c] = "idle"
    /\ held[c] # NoToken
    /\ op' = [op EXCEPT ![c] = "logout"]
    /\ dev' = [dev EXCEPT ![c] = held[c].dev]
    /\ Goto(c, IF held[c].dev = NoDevice THEN "scan" ELSE "del")
    /\ UNCHANGED <<clock, userType, slots, sessions, scan, new, held, cut,
                   dead, faults>>

\* DEL of the device's key.
DeleteDeviceToken(c) ==
    /\ pc[c] = "del"
    /\ Delete(c, {dev[c]})
    /\ Goto(c, "revokeRows")
    /\ UNCHANGED <<clock, userType, sessions, op, dev, scan, new, held>>

\* delPattern: KEYS, then DEL of what it has found.
ScanKeys(c) ==
    /\ pc[c] = "scan"
    /\ \/ /\ scan' = [scan EXCEPT ![c] = {d \in Devices : slots[d] # NoToken}]
          /\ Goto(c, "delScanned")
          /\ UNCHANGED faults
       \/ /\ Fault
          /\ Goto(c, "delLegacy")
          /\ UNCHANGED scan
    /\ UNCHANGED <<clock, userType, slots, sessions, op, dev, new, held, cut,
                   dead>>

DeleteScanned(c) ==
    /\ pc[c] = "delScanned"
    /\ Delete(c, scan[c])
    /\ Goto(c, "delLegacy")
    /\ UNCHANGED <<clock, userType, sessions, op, dev, scan, new, held>>

\* DEL of the legacy key.  A logout goes on to the session rows, which a
\* revocation has already dealt with.
DeleteLegacyToken(c) ==
    /\ pc[c] = "delLegacy"
    /\ Delete(c, {NoDevice})
    /\ IF op[c] = "logout"
       THEN Goto(c, "revokeRows") /\ UNCHANGED <<op, dev, scan, new>>
       ELSE Finish(c)
    /\ UNCHANGED <<clock, userType, sessions, held>>

\* updateMany: the rows of the device, or all.
RevokeRows(c) ==
    /\ pc[c] = "revokeRows"
    /\ sessions' = IF dev[c] = NoDevice THEN {} ELSE sessions \ {dev[c]}
    /\ held' = [held EXCEPT ![c] = NoToken]
    /\ Finish(c)
    /\ UNCHANGED <<clock, userType, slots, cut, dead, faults>>

RevokeAllSessions(c) ==
    /\ pc[c] = "idle"
    /\ held[c] # NoToken
    /\ sessions' = {}
    /\ op' = [op EXCEPT ![c] = "revokeAll"]
    /\ Goto(c, "delLegacy")
    /\ UNCHANGED <<clock, userType, slots, dev, scan, new, held, cut, dead,
                   faults>>

\* One row, of whatever login; there may be others like it.
RevokeSession(c) ==
    /\ pc[c] = "idle"
    /\ held[c] # NoToken
    /\ \E s \in sessions : sessions' \in {sessions, sessions \ {s}}
    /\ op' = [op EXCEPT ![c] = "revokeOne"]
    /\ Goto(c, "delLegacy")
    /\ UNCHANGED <<clock, userType, slots, dev, scan, new, held, cut, dead,
                   faults>>

-----------------------------------------------------------------------------
\* A second passes.
Tick == /\ clock < MaxClock
        /\ clock' = clock + 1
        /\ UNCHANGED <<userType, slots, sessions, reqVars, held, cut, dead,
                       faults>>

\* A key reaches its TTL of 7 or 30 days.
Expire(k) ==
    /\ slots[k] # NoToken
    /\ Fault
    /\ slots' = [slots EXCEPT ![k] = NoToken]
    /\ cut' = cut \cup {c \in Clients : held[c] = slots[k] \/ new[c] = slots[k]}
    /\ UNCHANGED <<clock, userType, sessions, reqVars, held, dead>>

Next ==
    \/ \E c \in Clients :
          \/ Login(c) \/ CreateGuestSession(c) \/ ConvertGuestToRegistered(c)
          \/ RefreshTokens(c) \/ GetDeviceToken(c) \/ GetLegacyToken(c)
          \/ LoadUser(c) \/ RefreshFails(c)
          \/ StoreToken(c) \/ StoreSession(c)
          \/ Logout(c) \/ DeleteDeviceToken(c) \/ ScanKeys(c)
          \/ DeleteScanned(c) \/ DeleteLegacyToken(c) \/ RevokeRows(c)
          \/ RevokeAllSessions(c) \/ RevokeSession(c)
    \/ \E k \in Keys : Expire(k)
    \/ Tick

Spec == Init /\ [][Next]_vars

-----------------------------------------------------------------------------
(* Properties                                                              *)

\* Types; what a request that is under way has in its variables.
TypeOK ==
    /\ clock \in 0..MaxClock
    /\ userType \in {"GUEST", "REGISTERED"}
    /\ slots \in [Keys -> Tokens \cup {NoToken}]
    /\ sessions \subseteq Keys
    /\ pc \in [Clients -> Pc]
    /\ op \in [Clients -> Ops]
    /\ dev \in [Clients -> Keys]
    /\ scan \in [Clients -> SUBSET Devices]
    /\ new \in [Clients -> Tokens \cup {NoToken}]
    /\ held \in [Clients -> Tokens \cup {NoToken}]
    /\ \A c \in Clients :
          /\ pc[c] \in {"set", "session"} => new[c] \in Tokens
          /\ pc[c] \in {"get", "getLegacy", "user", "del", "scan",
                        "delScanned", "delLegacy", "revokeRows"} => held[c] \in Tokens
    /\ cut \subseteq Clients
    /\ dead \subseteq Tokens
    /\ faults \in 0..MaxFaults

\* Multi-device support: whatever the clients on other devices do, the token
\* a client has last received is the one Redis holds for it, until the user
\* logs that client out or revokes sessions, or the key expires or a call
\* fails.
KeepsAccess ==
    \A c \in Clients :
        /\ pc[c] = "idle"
        /\ held[c] # NoToken
        /\ c \notin cut
        => slots[held[c].dev] = held[c]

\* A token that a logout has deleted never comes back into Redis, unless the
\* same string is issued again, whatever requests were under way: it can not
\* be refreshed any more.
DeletedStaysDeleted == \A k \in Keys : slots[k] \notin dead
=============================================================================
