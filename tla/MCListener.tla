----------------------------- MODULE MCListener -----------------------------
(* Model-checking instance of the listener boilerplate; the constants are *)
(* given in Listener_order.cfg and Listener_drain.cfg.                                          *)
EXTENDS Listener
=============================================================================
