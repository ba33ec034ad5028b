--------------------------- MODULE MCTradingEngine ---------------------------
(* Quotes that are bought, too wide and crossed, and a trade; a gap that   *)
(* can be filled, filled wrongly, and one that cannot.                     *)
EXTENDS TradingEngine

Quote(s, b, a) == [seq |-> s, type |-> "quote", bid |-> b, ask |-> a]
Trade(s) == [seq |-> s, type |-> "trade", bid |-> 0, ask |-> 0]

MCMessages == {Quote(1, 100, 110), Quote(1, 100, 111), Quote(2, 100, 101), Quote(2, 101, 100),
               Quote(3, 100, 105), Trade(3), Quote(4, 100, 108), Trade(0)}
MCAnswers == {<<Quote(2, 100, 101)>>, <<Quote(2, 100, 101), Quote(3, 100, 105)>>,
              <<Quote(3, 100, 105), Quote(2, 100, 101)>>}
=============================================================================
