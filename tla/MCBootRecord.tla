---------------------------- MODULE MCBootRecord -----------------------------
(* The small worlds the boot control block is model-checked in.            *)
EXTENDS BootRecord

AnyImage == {"faulty", "silent", "confirming"}
=============================================================================
