------------------------------- MODULE MCPaging -------------------------------
(***************************************************************************)
(* A small instance of Paging: what a query lists, and what a row costs.    *)
(***************************************************************************)
EXTENDS Paging

RowOrders == {<<1, 2, 3, 4>>, <<4, 2, 1>>}
RowCosts == {[line |-> 1, more |-> 0], [line |-> 1, more |-> 2]}
=============================================================================
