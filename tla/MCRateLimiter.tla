---------------------------- MODULE MCRateLimiter ----------------------------
(* Instances of RateLimiter for model checking. *)
EXTENDS RateLimiter, TLC
CONSTANTS send, edit

\* message_send has fewer places than message_edit; the delay is the least there is.
MCPlaces == send :> 2 @@ edit :> 3
MCDelay == send :> 1 @@ edit :> 1
=============================================================================
