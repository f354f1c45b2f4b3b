------------------------------ MODULE MCOutbox ------------------------------
(* Outbox on small instances: values for the constants of its runs.        *)
EXTENDS Outbox
=============================================================================
