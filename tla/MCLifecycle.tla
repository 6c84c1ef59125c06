---------------------------- MODULE MCLifecycle ----------------------------
(* Lifecycle for TLC: Requests, Delay, Timeout and PollEvery in the cfg.    *)
EXTENDS Lifecycle
=============================================================================
