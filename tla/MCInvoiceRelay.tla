--------------------------- MODULE MCInvoiceRelay ---------------------------
(***************************************************************************)
(* A small instance of InvoiceRelay: a page that polls by name and a mock  *)
(* page that does not, a queue of two.                                     *)
(***************************************************************************)
EXTENDS InvoiceRelay

CONSTANTS p1, p2

\* The layouts of queue entries, log events and payments.
ASSUME MCInvoiceRelayAssumption ==
    \A p, q \in Player :
        /\ [id |-> 1, invoice |-> 1, from |-> p, to |-> Anyone, paid |-> FALSE] \in Invoice
        /\ [id |-> 1, invoice |-> 1, from |-> p] \in PaidEvent
        /\ [invoice |-> 1, payer |-> q, from |-> p, to |-> Anyone] \in Payment
=============================================================================
