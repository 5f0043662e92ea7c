----------------------------- MODULE MCRedisKeys ------------------------------
(* Instances of the limiter with single calls on keys, for TLC. *)
EXTENDS RedisKeys, MCQuotas

\* Intervals that are not whole milliseconds, and a refund that brings the TAT
\* before now.
SubMsAndBack == SubMs \cup {Throttle(1, 2, -3)}
=============================================================================
