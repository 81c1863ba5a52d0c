------------------------------ MODULE MCReceipt ------------------------------
(* Receipt on small instances. *)
EXTENDS Receipt

\* Either one receipt is uploaded, verified and used by requests, or several are created
\* with one idempotency key.
Used == [receipts |-> {CHOOSE i \in Receipts : TRUE}, uploads |-> Bytes, requests |-> Requests]
Created == [receipts |-> Receipts, uploads |-> {}, requests |-> {}]
UsedOrCreated == {Used, Created}
=============================================================================
