---------------------------- MODULE MCOrderStore ----------------------------
(* Four slots and five ids, three of them with the last slot as home.      *)
EXTENDS OrderStore
MCHash == [k \in OrderId |-> <<3, 3, 0, 2, 3>>[k]]
=============================================================================
