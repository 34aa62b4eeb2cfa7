---------------------------- MODULE MCResultCache ----------------------------
(* ResultCache on small instances: two queries of one data source, one of  *)
(* which joins a second table.                                             *)
EXTENDS ResultCache, TLC

CONSTANTS orders, joined, OrdersTable, CustomersTable

QueryKeys == {orders, joined}
QueryTables == {OrdersTable, CustomersTable}
QueryReads == orders :> {OrdersTable} @@ joined :> QueryTables

Symmetric == Permutations(Queries)
=============================================================================
