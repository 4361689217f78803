------------------------------ MODULE RedisLock ------------------------------
(***************************************************************************)
(* What RedisService.acquireLock and releaseLock promise their callers     *)
(* (libs/redis/src/redis.service.ts).                                      *)
(*                                                                         *)
(* The key carries the constant value '1' and a TTL.  It does not say who  *)
(* created it, releaseLock deletes it whoever did, and a holder is not     *)
(* told when the TTL runs out.  So the lock is a lease: the clients that   *)
(* believe they hold it are inside; the one that really does is in lease.  *)
(***************************************************************************)
EXTENDS Naturals

CONSTANTS Clients, TTL

VARIABLES
    key,      \* what remains of the key's TTL, 0: there is no key
    inside,   \* clients that acquired the lock and have not released it
    lease     \* clients whose key has neither expired nor been deleted

lockVars == <<key, inside, lease>>

LockInit == key = 0 /\ inside = {} /\ lease = {}

\* SET key '1' EX ttl NX
Acquire(c) ==
    /\ c \notin inside
    /\ key = 0
    /\ key' = TTL
    /\ inside' = inside \cup {c}
    /\ lease' = lease \cup {c}

\* The reply to SET is lost: the key is there, and the client was told that it
\* has not got the lock.
AcquireLost ==
    /\ key = 0
    /\ key' = TTL
    /\ UNCHANGED <<inside, lease>>

\* DEL key: the key goes, even when it is no longer this client's.
Release(c) ==
    /\ c \in inside
    /\ key' = 0
    /\ inside' = inside \ {c}
    /\ lease' = {}

\* The client leaves without deleting the key: it crashed, or DEL failed.
Abandon(c) ==
    /\ c \in inside
    /\ inside' = inside \ {c}
    /\ lease' = lease \ {c}
    /\ UNCHANGED key

Expire ==
    /\ key > 0
    /\ key' = key - 1
    /\ lease' = IF key = 1 THEN {} ELSE lease
    /\ UNCHANGED inside

LockNext == \/ \E c \in Clients : Acquire(c) \/ Release(c) \/ Abandon(c)
            \/ AcquireLost
            \/ Expire

LockSpec == LockInit /\ [][LockNext]_lockVars

-----------------------------------------------------------------------------
\* Only a client that is inside has a lease, only while the key exists, and
\* only one: clients overlap only when one of them outlived its key.
LeaseSafe ==
    /\ key \in 0..TTL
    /\ inside \subseteq Clients
    /\ lease \subseteq inside
    /\ lease # {} => key > 0
    /\ \A c, d \in lease : c = d
=============================================================================
