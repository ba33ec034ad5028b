---------------------------- MODULE MCFeedAndState ----------------------------
(* The packet handler and the market state it hands its messages to, each  *)
(* by itself: the handler on any network, the state on any messages, for   *)
(* a message the handler accepts may say anything.                         *)
EXTENDS ItchFeedHandler, ItchMarketState

(* Any packet of a short stream, in any order, and any answer to a gap of  *)
(* one or two, the ones with a packet missing, repeated or bad included.   *)
MCPackets == Packet
MCAnswers == UNION {[1 .. n -> Packet] : n \in 0 .. 2}

(* Two instruments, orders that share levels and sides, one of no shares,  *)
(* and an order store that three orders fill.                              *)
MCOrder(k, i, s, p, q) == [id |-> k, instrument |-> i, side |-> s, price |-> p,
                           quantity |-> q]
MCAdds == {MCOrder(1, "A", "Buy", 1, 2), MCOrder(2, "A", "Buy", 1, 2),
           MCOrder(3, "A", "Sell", 2, 1),
           MCOrder(4, "A", "Sell", 2, 0), MCOrder(4, "B", "Buy", 1, 1)}
MCReplacements == {<<2, 1, 1>>, <<4, 1, 0>>, <<4, 2, 2>>}

VARIABLE component      \* which of the two runs
bothVars == <<component, handlerVars, stateVars>>

BothInit == component \in {"handler", "state"} /\ HandlerInit /\ StateInit

HandlerRuns == component = "handler" /\ Next /\ UNCHANGED <<component, stateVars>>
StateRuns == component = "state" /\ StateNext /\ UNCHANGED <<component, handlerVars>>
NoMoreMessages == component = "state" /\ UNCHANGED bothVars

BothNext == HandlerRuns \/ StateRuns \/ NoMoreMessages

BothSpec == BothInit /\ [][BothNext]_bothVars
===============================================================================
