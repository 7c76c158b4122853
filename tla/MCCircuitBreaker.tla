-------------------------- MODULE MCCircuitBreaker --------------------------
(* The circuit breaker with three callers: a probe, a rival, a stale request.*)
EXTENDS CircuitBreaker
=============================================================================
