----------------------------- MODULE ItchDecoder -----------------------------
(***************************************************************************)
(* common/market_data/itch/ItchDecoder.cpp and ItchDispatcher.cpp: the     *)
(* fields of an ITCH message and where the decoder reads them.             *)
(*                                                                         *)
(* A payload is a sequence of bytes of which the first is the message      *)
(* type.  A decoded message holds the bytes of every field, most           *)
(* significant first, in the order of the members of its struct in         *)
(* itch/messages; it says nothing of where they were read.                 *)
(***************************************************************************)
EXTENDS Naturals, Sequences, SequencesExt

(* A field of so many bytes behind `data + offset'; the name is that of    *)
(* the member it is read into.                                             *)
Field(name, offset, width) == [first |-> offset + 1, last |-> offset + width]

U16(name, offset) == Field(name, offset, 2)
U32(name, offset) == Field(name, offset, 4)
U48(name, offset) == Field(name, offset, 6)
U64(name, offset) == Field(name, offset, 8)
Char(name, offset) == Field(name, offset, 1)
Stock(offset) == Field("stock", offset, 8)

(* Every message begins with these. *)
Common == <<U16("stockLocate", 1), U16("trackingNumber", 3), U48("timestamp", 5)>>

Layout(type, size, fields) == [type |-> type, size |-> size, fields |-> Common \o fields]
-----------------------------------------------------------------------------
AddOrder == Layout(65, 36,                                           \* 'A'
  <<U64("orderReferenceNumber", 11), Char("buySellIndicator", 19), U32("shares", 20),
    Stock(24), U32("price", 32)>>)

SystemEvent == Layout(83, 12, <<Char("eventCode", 11)>>)             \* 'S'

StockDirectory == Layout(82, 39,                                     \* 'R'
  <<Stock(11), Char("marketCategory", 19), Char("financialStatusIndicator", 20),
    U32("roundLotSize", 21), Char("roundLotsOnly", 25), Char("issueClassification", 26),
    Field("issueSubType", 27, 2), Char("authenticity", 29),
    Char("shortSaleThresholdIndicator", 30), Char("ipoFlag", 31),
    Char("luldReferencePriceTier", 32), Char("etpFlag", 33), U32("etpLeverageFactor", 34),
    Char("inverseIndicator", 38)>>)

OrderExecuted == Layout(69, 31,                                      \* 'E'
  <<U64("orderReferenceNumber", 11), U32("executedShares", 19), U64("matchNumber", 23)>>)

(* What if: the price were read where the flag before it is. *)
OrderExecutedWithPriceEarly == Layout(67, 36,
  <<U64("orderReferenceNumber", 11), U32("executedShares", 19), U64("matchNumber", 23),
    Char("printable", 31), U32("executionPrice", 31)>>)

OrderExecutedWithPrice == Layout(67, 36,                             \* 'C'
  <<U64("orderReferenceNumber", 11), U32("executedShares", 19), U64("matchNumber", 23),
    Char("printable", 31), U32("executionPrice", 32)>>)

OrderCancel == Layout(88, 23,                                        \* 'X'
  <<U64("orderReferenceNumber", 11), U32("cancelledShares", 19)>>)

OrderDelete == Layout(68, 19, <<U64("orderReferenceNumber", 11)>>)   \* 'D'

OrderReplace == Layout(85, 35,                                       \* 'U'
  <<U64("originalOrderReferenceNumber", 11), U64("newOrderReferenceNumber", 19),
    U32("shares", 27), U32("price", 31)>>)

AddOrderWithMpid == Layout(70, 40,                                   \* 'F'
  <<U64("orderReferenceNumber", 11), Char("buySellIndicator", 19), U32("shares", 20),
    Stock(24), U32("price", 32), Field("attribution", 36, 4)>>)

Trade == Layout(80, 44,                                              \* 'P'
  <<U64("orderReferenceNumber", 11), Char("buySellIndicator", 19), U32("shares", 20),
    Stock(24), U32("price", 32), U64("matchNumber", 36)>>)

CrossTrade == Layout(81, 40,                                         \* 'Q'
  <<U64("shares", 11), Stock(19), U32("crossPrice", 27), U64("matchNumber", 31),
    Char("crossType", 39)>>)

BrokenTrade == Layout(66, 19, <<U64("matchNumber", 11)>>)            \* 'B'

StockTradingAction == Layout(72, 25,                                 \* 'H'
  <<Stock(11), Char("tradingState", 19), Char("reserved", 20), Field("reason", 21, 4)>>)

MarketParticipantPosition == Layout(76, 26,                          \* 'L'
  <<Field("mpid", 11, 4), Stock(15), Char("primaryMarketMaker", 23),
    Char("marketMakerMode", 24), Char("marketParticipantState", 25)>>)

RegShoRestriction == Layout(89, 20, <<Stock(11), Char("regShoAction", 19)>>)    \* 'Y'

MwcbDeclineLevel == Layout(86, 35,                                   \* 'V'
  <<U64("level1", 11), U64("level2", 19), U64("level3", 27)>>)

MwcbStatus == Layout(87, 12, <<Char("breachedLevel", 11)>>)          \* 'W'

Noii == Layout(73, 50,                                               \* 'I'
  <<U64("pairedShares", 11), U64("imbalanceShares", 19), Char("imbalanceDirection", 27),
    Stock(28), U32("farPrice", 36), U32("nearPrice", 40), U32("currentReferencePrice", 44),
    Char("crossType", 48), Char("priceVariationIndicator", 49)>>)

LuldAuctionCollar == Layout(74, 35,                                  \* 'J'
  <<Stock(11), U32("auctionCollarReferencePrice", 19), U32("upperAuctionCollarPrice", 23),
    U32("lowerAuctionCollarPrice", 27), U32("auctionCollarExtension", 31)>>)
-----------------------------------------------------------------------------
Layouts == {SystemEvent, StockDirectory, AddOrder, AddOrderWithMpid, OrderExecuted,
            OrderExecutedWithPrice, OrderCancel, OrderDelete, OrderReplace, Trade, CrossTrade,
            BrokenTrade, StockTradingAction, MarketParticipantPosition, RegShoRestriction,
            MwcbDeclineLevel, MwcbStatus, Noii, LuldAuctionCollar}

(* isSupportedMessageType() *)
Supported(type) == \E layout \in Layouts : layout.type = type

(* The checks every decode function begins with. *)
Decodes(layout, data) == Len(data) = layout.size /\ data[1] = layout.type

Decode(layout, data) ==
  [type |-> layout.type,
   fields |-> [i \in DOMAIN layout.fields |->
                 SubSeq(data, layout.fields[i].first, layout.fields[i].last)]]

(* ItchDispatcher::dispatch() *)
Dispatches(data) == data # <<>> /\ \E layout \in Layouts : Decodes(layout, data)
Dispatch(data) == Decode(CHOOSE layout \in Layouts : Decodes(layout, data), data)

(* The exchange puts the members of a struct one behind the other.         *)
Payload(message) == <<message.type>> \o FlattenSeq(message.fields)
=============================================================================
