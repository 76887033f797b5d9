-------------------------- MODULE MCWarehouseSync ---------------------------
(* Three payments, pages of two rows, two pods. *)
EXTENDS WarehouseSync

CONSTANTS n1, n2, n3, j1, j2

MCRrns == {n1, n2, n3}
MCJobs == {j1, j2}
=============================================================================
