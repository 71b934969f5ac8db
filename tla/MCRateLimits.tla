---------------------------- MODULE MCRateLimits ----------------------------
(* A limiter of one minute (command, step-up, API key) beside one of fifteen *)
(* (sign-in, second factor), which three minutes stand for.                 *)
EXTENDS RateLimits
MCMost == [l \in Limiter |-> 1]
CONSTANTS Minute, Quarter
MCWindow == [l \in Limiter |-> IF l = Minute THEN 1 ELSE 3]
=============================================================================
