----------------------------- MODULE MCLifecycle -----------------------------
(* Instance of Lifecycle: two requests may be served at once.               *)
EXTENDS Lifecycle
=============================================================================
