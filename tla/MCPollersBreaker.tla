-------------------------- MODULE MCPollersBreaker --------------------------
(* The breaker with the durations of the code, in seconds. *)
EXTENDS PollersBreaker

MCBackoff == <<1, 5, 30, 120, 300>>
=============================================================================
