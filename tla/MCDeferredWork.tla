--------------------------- MODULE MCDeferredWork --------------------------
(* One timer, two NAPI instances and a workqueue of two slots.              *)
EXTENDS DeferredWork
============================================================================
