------------------------------ MODULE MCPoller ------------------------------
(* Values for the constants of Poller: more peers than descriptors, so that*)
(* a descriptor is used again and accept() can find none.                  *)
EXTENDS Poller
=============================================================================
