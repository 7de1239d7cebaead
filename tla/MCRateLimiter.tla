---------------------------- MODULE MCRateLimiter ----------------------------
(***************************************************************************)
(* RateLimiter for TLC: three callers, four ticks to a minute and rates     *)
(* from 1 to 4, so that a token takes one to four ticks and a burst holds   *)
(* one to three.                                                           *)
(***************************************************************************)
EXTENDS RateLimiter
================================================================================
