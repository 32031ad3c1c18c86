-------------------------- MODULE MCEmailDelivery --------------------------
(***************************************************************************)
(* Model checking of EmailDelivery.  One mail: the code relates no two.    *)
(***************************************************************************)
EXTENDS EmailDelivery
=============================================================================
