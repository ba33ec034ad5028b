------------------------------ MODULE OrderMap ------------------------------
(***************************************************************************)
(* What ItchMarketState expects of its OrderStore: a finite map from order *)
(* ids to what is stored with them.  A call is answered as the map was     *)
(* when the call took effect, at one moment between its begin and its end. *)
(***************************************************************************)
EXTENDS Naturals, FiniteSets

CONSTANTS OrderId, Data, Limit, NoCall, NoData

VARIABLES map,       \* the orders stored: a function on a set of order ids
          call,      \* the call that has not taken effect yet, or NoCall
          answer     \* what the last call answered

mapVars == <<map, call, answer>>

MapInit == /\ map = [k \in {} |-> NoData]
           /\ call = NoCall
           /\ answer = [ok |-> FALSE, data |-> NoData]

Answer(ok, data) == call' = NoCall /\ answer' = [ok |-> ok, data |-> data]

Begin == /\ call = NoCall
         /\ call' \in [op : {"add", "find", "amend", "remove"}, id : OrderId,
                       data : Data]
         /\ UNCHANGED <<map, answer>>

(* An order that is there, or for which there is no room, is not added.    *)
Add == /\ call # NoCall /\ call.op = "add"
       /\ LET room == call.id \notin DOMAIN map /\ Cardinality(DOMAIN map) < Limit
          IN  /\ map' = IF room
                          THEN [k \in DOMAIN map \cup {call.id} |->
                                  IF k = call.id THEN call.data ELSE map[k]]
                          ELSE map
              /\ Answer(room, NoData)

Find == /\ call # NoCall /\ call.op = "find"
        /\ IF call.id \in DOMAIN map THEN Answer(TRUE, map[call.id])
                                     ELSE Answer(FALSE, NoData)
        /\ UNCHANGED map

Amend == /\ call # NoCall /\ call.op = "amend"
         /\ map' = [k \in DOMAIN map |-> IF k = call.id THEN call.data ELSE map[k]]
         /\ Answer(call.id \in DOMAIN map, NoData)

Remove == /\ call # NoCall /\ call.op = "remove"
          /\ map' = [k \in DOMAIN map \ {call.id} |-> map[k]]
          /\ Answer(call.id \in DOMAIN map, NoData)

MapSpec == MapInit /\ [][Begin \/ Add \/ Find \/ Amend \/ Remove]_mapVars
=============================================================================
