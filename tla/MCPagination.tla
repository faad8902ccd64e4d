---------------------------- MODULE MCPagination ----------------------------
(* A small instance of Pagination for TLC. *)
EXTENDS Pagination

MCLimits == {-1, 1, 2}

=============================================================================
