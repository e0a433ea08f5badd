----------------------------- MODULE MCWatchdog -----------------------------
(* A bounded instance of Watchdog: a drain that ends and one that does not. *)
EXTENDS Watchdog

CONSTANTS g, h

MCGuards == {g, h}
==============================================================================
