--------------------------- MODULE MCUserPresence ---------------------------
(* The instances of UserPresence that TLC checks.                          *)
EXTENDS UserPresence, TLC
=============================================================================
