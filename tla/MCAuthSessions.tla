--------------------------- MODULE MCAuthSessions ---------------------------
(***************************************************************************)
(* A small instance of the sessions for TLC: each client has a device of   *)
(* its own, and the account may have begun as a guest of the first one.    *)
(***************************************************************************)
EXTENDS AuthSessions, TLC

CONSTANTS c1, c2, d1, d2

MCDeviceOf == (c1 :> d1) @@ (c2 :> d2)
=============================================================================
