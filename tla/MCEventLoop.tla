---------------------------- MODULE MCEventLoop -----------------------------
(* EventLoop on a small instance: two threads beside the loop thread.      *)
EXTENDS EventLoop
=============================================================================
