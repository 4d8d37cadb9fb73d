---------------------------- MODULE MCRailPages ----------------------------
(***************************************************************************)
(* A small instance of RailPages: a page of either kind and its account, a CKB *)
(* of two shannons, so that an invoice can be for a fraction of one.       *)
(***************************************************************************)
EXTENDS RailPages

CONSTANT p1

\* Three payments, two around one of an invoice, or two calls of different kinds.
MCMixes == { [pay |-> 3, payInvoice |-> 0, waitInvoicePaid |-> 0],
             [pay |-> 2, payInvoice |-> 1, waitInvoicePaid |-> 0],
             [pay |-> 1, payInvoice |-> 0, waitInvoicePaid |-> 1],
             [pay |-> 0, payInvoice |-> 1, waitInvoicePaid |-> 1] }

\* The layouts of channels, calls, rails and reports.
ASSUME MCRailPagesAssumption ==
    \A p \in Page :
        /\ [st |-> "ready", local |-> 1, remote |-> 0, amount |-> 1, ins |-> {0}] \in FiberChannel
        /\ [page |-> p, op |-> "pay", channel |-> 1, out |-> 1, status |-> "none", pc |-> "sending"] \in RailCall
        /\ NoRail \in Rail
=============================================================================
