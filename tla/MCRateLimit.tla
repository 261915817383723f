---------------------------- MODULE MCRateLimit ----------------------------
(* Small instance of RateLimit for TLC: two tokens a second (one at the peak), *)
(* a tick of half a second, units of a quarter token.                          *)
EXTENDS RateLimit

\* as the built-in rate, as its half, a small burst with a fast refill, and the
\* newer, wider limit
MCLimit ==
  {[capacity |-> 8, refill |-> 4], [capacity |-> 4, refill |-> 2],
   [capacity |-> 4, refill |-> 3], [capacity |-> 12, refill |-> 6]}
=============================================================================
