# Verification of the low-latency market data pipeline

TLA+ modules for the C++ program in `src/`: a market data pipeline that takes
Nasdaq ITCH messages from UDP (plain packets, or MoldUDP64 datagrams), puts them
in sequence, recovers what the network lost, keeps orders and books, and hands
quotes and trades to a consumer thread; with it the older trading engine, and the
programs that replay recorded sessions into the pipeline. TLC checks small
instances; TLAPS proves the safety properties of every part for every value of
the constants.

## The system

| part | code | state it keeps | operations | who uses it |
|---|---|---|---|---|
| SPSC ring buffer | `common/ring_buffer/SpscRingBuffer.h` | slots, read and write index, a cached copy of the other side's index | push, pop, size, destructor | one producer and one consumer thread each |
| Mold receiver thread | `moldudp64/MoldUdpReceiver.cpp` | flag, thread, counters | start, stop, join, receiveLoop | main; pushes to the datagram queue |
| Mold feed handler | `feed_handler/MoldItchFeedHandler.cpp` | expected sequence, lifecycle state, counters | start, run, runQueued, stop | feed thread; calls recovery and market state |
| ITCH packet feed handler | `feed_handler/ItchFeedHandler.cpp` | the same, a packet is one message | start, run, stop | feed thread of `itch_live` |
| Legacy feed handler | `feed_handler/FeedHandler.cpp` | the same, a message is one event | start, run, stop | feed thread of `app/archive/main.cpp`; waits at a full event queue |
| Sequence recovery | `*SequenceRecovery.cpp` | none | recover, and validate what the source found | the feed handlers |
| File recovery sources | `FileMoldItchRecoverySource.cpp`, `FileItchRecoverySource.cpp` | sparse index, its file, the open stream | initialize, buildIndex, saveIndex, loadIndex, recover | sequence recovery |
| Market state | `itch/ItchMarketState.h` | three stores, 15 counters | a handler per message type | feed handlers, replay |
| Order store | `normalized/OrderStore.h` | open-addressing table | add, find, stored, remove, removeAt | market state |
| Books | `book/*.h` | price levels | add, reduce, removeOrder, best, bbo | market state |
| Instrument store | `normalized/InstrumentStore.h` | instruments by locate code | add, find | market state, publishers |
| Publishers | `ItchQuotePublisher.cpp`, `ItchTradePublisher.cpp` | next sequence, counters | onBboChange, onOrderExecution | callbacks of the market state; push to the event queue |
| Strategy engine | `strategy/StrategyEngine.cpp`, `SimpleStrategy.cpp` | flag, state | run, stop, publishOrderIntent | strategy thread; waits at a full intent queue |
| Applications | `app/itch_mold_live.cpp`, `app/itch_live.cpp`, `app/archive/main.cpp` | threads and flags | start, Ctrl+C, shutdown | - |
| Decoder, dispatcher | `itch/ItchDecoder.cpp`, `ItchDispatcher.cpp` | none | decode by type | feed handlers, replay |
| Codecs | `moldudp64/MoldUdp64Codec.cpp`, `itch/ItchUdpCodec.cpp` | none | encode, decode, frame by frame | senders, UDP sources, feed handlers |
| Session reader, replay | `itch/ItchStreamReader.cpp`, `ItchReplay.cpp`, `app/itch_replay.cpp` | a file position, counters, two threads | readNext, run | `itch_replay`, the senders |
| Senders | `app/itch_mold_udp_load_gen.cpp`, `app/itch_udp_replay_gap.cpp` | a file position, the datagram being packed | pack, send, drop on purpose | the live applications, over UDP |
| Logger, benchmarks, older senders | `ConsoleLogger.cpp`, `app/archive/*` | - | print, time | - |

Threads meet only in the ring buffers (datagrams, market events, order intents)
and in atomic flags (`running`, `running_`, `consumerRunning`, `producerDone`).
What is hard here: two threads working on cached, stale indices; a feed that
loses, repeats and reorders datagrams which begin old and end beyond a gap;
failures in the middle of a datagram; a recovery file that is still being written,
with an index left by a run that crashed; the order in which threads are stopped
while others still produce, or wait at a full queue; a hash table that deletes
by moving entries; books that keep iterators and must agree with the orders at
any time; byte layouts that only the other end can check. `PROJECT.json` lists
these as hazards, each at its line with the properties that cover it.

## The modules

| module | what it is |
|---|---|
| `BoundedFifo` | promise of a queue: bounded, first in first out, nothing lost or repeated |
| `SpscRingBuffer` | the ring buffer, one atomic access or object operation per step |
| `SequencedFeed` | promise of a feed handler: consecutive messages, only while Running |
| `MoldItchFeedHandler` | the Mold handler, one step per check, message and recovered message |
| `ItchFeedHandler` | the packet handler, the same way |
| `FeedHandler` | the legacy handler, which waits at a full queue until it is stopped |
| `MoldUdpReceiver` | the receiver thread |
| `ItchMoldLive` | receiver, feed, consumer and main thread of `itch_mold_live.cpp` |
| `ItchLive` | feed, consumer and main thread of `itch_live.cpp`, with its recovery source |
| `StrategyEngine` | the strategy thread between two queues |
| `TradingEngine` | feed, strategy and main thread of `archive/main.cpp` |
| `OrderMap` | promise of the order store: a map whose calls take effect at one moment |
| `OrderStore` | the open-addressing table, one loop iteration per step |
| `ItchMarketState` | market state, books, instrument store and publishers |
| `FileMoldItchRecoverySource` | recovery from a file with an index kept on disk, one step per write or read of the index |
| `FileItchRecoverySource` | the same code for packets, one step per phase, on a file that grows |
| `Bytes` | numbers as bytes, the most significant first |
| `ItchStreamReader` | `readNext` on a recorded session |
| `ItchDecoder` | the layout of every ITCH message and the choice by type |
| `MoldUdp64Codec`, `ItchUdpCodec` | the two datagram formats, byte by byte |
| `ItchReplay` | replay loop, event consumer and the hand-over at the end |
| `ItchMoldUdpLoadGen` | packing a session into datagrams, and sending them |
| `ItchUdpReplayGap` | sending a session with ranges left out to a live handler |
| `RecordedSession` | the three programs that read a recorded session, for one run |
| `SpscRingBufferProofs`, `TradingEngineProofs`, `FileMoldItchRecoverySourceProofs`, `OrderStoreProofs`, `ItchMarketStateProofs` | theorems about the module each is named for |
| `ItchLiveProofs` | theorems about `ItchFeedHandler` and about `ItchLive`, which extends it |
| `ItchMoldLiveProofs` | theorems about `MoldItchFeedHandler` and about `ItchMoldLive`, which extends it |
| `RecordedSessionProofs` | theorems about `RecordedSession` and the three programs it puts together, their codecs and layouts |

How they are composed:

- `ItchMoldLive` extends `MoldItchFeedHandler` and instantiates `MoldUdpReceiver`;
  `ItchLive` extends `ItchFeedHandler` and instantiates `FileItchRecoverySource`;
  `TradingEngine` extends `FeedHandler` and instantiates `StrategyEngine`. Their
  queues are the sequences of `BoundedFifo`, which `SpscRingBuffer` implements.
- All three feed handlers implement `SequencedFeed`.
- `ItchMarketState` uses the order store as the map of `OrderMap`, which
  `OrderStore` implements. In the live models market state and publishers appear
  as `OnMessage`: a message may cause a trade, a quote, or a trade and then a quote
  (an executed order), and a full queue drops events.
- `ItchReplay` and the senders extend `ItchStreamReader`, the codecs they use and
  `ItchDecoder`; `ItchUdpReplayGap` extends `ItchFeedHandler`, the receiver of
  what it sends.

The `MC` modules give the constants their values. Definitions introduced by
"What if" are plausible wrong versions of the definition that follows. No
specification uses them: `PROJECT.json` lists under `mutants` which property each
of them breaks.

### How the models correspond to the code

*SpscRingBuffer.* `writeIndex`, `readIndex` and the two cached indices are the
class's fields. An acquire load of the other side's index may return any value
the other side has stored since the last load (`Visible`). A push is `PushCall`
(the test against the cached index), `RefreshReadIndex` where that fails,
`Construct`, `Publish`; a pop is `PopCall`, `RefreshWriteIndex`, `MoveOut`,
`DestroySlot`, `Release`. The destructor runs when both threads are idle and
destroys what is left.

*MoldItchFeedHandler.* A datagram is its first sequence number, its announced
count and its frames; `WellFramed` is the outcome of the first pass (lines
241-317), `InSequence`, `OldMessage`, `GapRecovered`, `GapNotRecovered` are the
results of `checkSequence` (149-238), `ProcessRecoveredMessage` and
`ProcessMessage` apply one message each and may fail on one that does not
decode. `Succ` wraps as the 64-bit counter does; `MaxSequence` stands for
2^64 - 1. The recovery source may answer with anything; `RecoveryIsExact` is the
validation of `MoldItchSequenceRecovery::recover`. `applied` is a history
variable, what the market state was given in the current lifecycle.

*MoldUdpReceiver, ItchMoldLive, ItchLive.* One step per access of a queue or a
flag. `pc`, `worker`, `consumer`, `feedThread` and `main` say where the threads
are. `owed` is the number of events the last message applied still has to cause:
`PushEvent` and `DropEvent` publish them one at a time, and the consumer may pop in
between. `stopRequested` and `pushedBeforeStop` (the datagrams the receiver had put
in the queue when it was told to stop) are history. In `ItchLive`, main first constructs the
recovery source, and a gap is answered by it (`RecoverGap`) or by a failing file
system call; `appliedBodies` is history, the payloads of `applied`.

*FileItchRecoverySource.* The file is the beginning of `Recording`, whose records
have the numbers the sender gave them; it has some size when it is looked at, may
end within a record, and grows (`Record`). `TakeFileSize`, `LoadIndex`,
`BuildIndex`, `SaveIndex`, `OpenRecoveryFile` are the phases of the constructor;
`Recovers` and `Recovered` are what `recover` returns and reads. Records are of
one size, so that `RecordRead` says which record is read after a seek.

*FeedHandler, StrategyEngine, TradingEngine.* A message that passes
`checkSequence` is put in `toPublish`, behind what was recovered before it, and
`PushEvent` publishes one at a time, for the queue may be full in between.
A push that fails (`FindQueueFull`, `FindIntentQueueFull`) and the look at the
running flag that follows it are two steps, with `feedPc` or `strategyPc` at "full"
between them: the consumer may make room there. `RetryPublishing` and `RetryIntent` are
the yield loops, `GiveUpPublishing` and `GiveUpIntent` what a stop makes of them, be
there room again or not. `checkSequence` moves on between the
last recovered message and the live one. `published` is history. Main's loop
looks at the flags (`check`), takes one intent (`pop`), and at the end stops and
joins one thread after the other and prints the rest.

*OrderStore.* The hash function is any function from ids to slots. `ProbeNext`,
`NotFound`, `Insert`, `Hit` are the body of the probing loop; `MoveBack`,
`LeaveInPlace` and `CloseHole` that of `removeAt`. Locals return to 0 after a
call. A removal takes effect when the order is found; while the table is being
shifted the entry at the hole does not count.

*ItchMarketState.* A handler is one step, but the execution handlers are two:
the trade is published (`Execute`), then the book is changed
(`FinishExecution`), for the consumer may make room in the queue in between. A
level is known by instrument, side and price, which stands for the map iterator
an order keeps; `BooksMatchOrders` says that it is never used after its level
was erased. When the store has no empty slot a removal hangs the feed thread
(`pending.kind = "hung"`), as `OrderStore` shows. Both publishers are attached, as
in both live applications. The second capacity check of `OrderReplace` cannot
fail after its removal and is left out.

*FileMoldItchRecoverySource.* `file`, `index` and `temporary` are what is on
disk, the other variables the fields of an object whose constructor is at `pc`.
A file is its whole records, each with its byte offset, and its size, which may
include an incomplete record at the end; what a writer does to it is `Grow` and,
while no process has it open, `Replace`. `ScanRecord`, `ScanEnds`, `ScanFails`
are `buildIndex`; `CreateTemporary` to `Rename` are `saveIndex`, whose every
write is a step that `Crash` may follow; `PowerFailure` also cuts off the index,
which is never synced. `Usable` is the validation of `loadIndex`. Reading from an
offset where no record begins gives any of `Garbage`. The code recognises its
file by its size: `misled` is history and says that the index in use passed that
test although it was built from another file of the same size, the one case in
which nothing can be said of an answer.

*ItchStreamReader, ItchDecoder, codecs.* These are functions, and modelled as
operators on sequences of bytes. `ByteBase` is what a byte counts to. A decoder
function is a `Layout`: the table of offsets and widths that its reads amount to,
in the order of the members of its struct, so that `Payload` (a message written
out again) is the independent definition a wrong offset disagrees with.

*ItchReplay, ItchMoldUdpLoadGen, ItchUdpReplayGap.* One step per record. The
consumer of the replay reads `producerDone` and the queue one at a time. The load
generator packs everything, then sends (`Send` may fail and is counted). The gap
replayer sends into a socket that loses what it has no room for (`overrun`), and
`ItchFeedHandler` receives; the recovery source behind it is the same file.

## What the runs check

| run | instance | shows |
|---|---|---|
| `ring_buffer` | 4 slots (3 usable), 2 objects | slots are never raced for, overwritten or read empty; nothing leaks; refines `BoundedFifo`; what is pushed is popped, a retrying producer gets in |
| `mold_handler` | sequence numbers to `MaxSequence`, then wrap; datagrams of up to 2 messages, bad framing, undecodable bodies, good, short and wrong recoveries | no loss, repetition or reordering, and counters that account for every message (`IInv`); accepted means covered; fail-stop; refines `SequencedFeed`; `stop()` ends a run |
| `mold_live` | queues of few entries, a handful of datagrams | counters of all threads reconcile at every step; shutdown completes, loses no event, and processes every datagram that was queued when the receiver was told to stop |
| `feed_and_state` | the packet handler: as `mold_handler`, for single packets; the market state: 6 messages, 3 order slots, 2 event slots | the second handler implements `SequencedFeed` too, and accepts exactly the packets asked for; books match orders, no defensive check ever fails, quotes are the best prices of the orders |
| `itch_live` | five records, three of them sent as packets, a file seen empty, with 2.5 and with 4.5 of them, four indexes left by earlier runs, one event slot | every message applied is the one published under its number; a gap recorded in time is filled; every event is in the report; a failed feed, or a stop of a run that has begun, ends the application |
| `order_store` | 4 slots, 5 ids, three with the last slot as home | the table is a map; every call returns, those on a full table too, but for a removal of an order a full table holds |
| `file_recovery` | a file of up to 3 messages that grows and is replaced, checkpoints at every or every second message | after any crash a recovered range is what the file holds; nothing left on disk prevents a start; no range that was there is refused |
| `trading_engine` | both queues one element long, 8 messages of which 4 are received | every order intent follows from the events published, in order; the feed stays gap-free though its queue blocks; at most the intent in hand is lost at a stop; a stop or a failed feed ends the program |
| `recorded_session` | sessions of up to 3 records of 5 kinds, one of each of the 19 message types, one of ten records; 4 endings, a device that fails | the replay delivers every message that decodes, each field in its place, and ends with all events consumed; the datagrams packed are well framed and carry the session; the gaps injected are filled by the handler |
| `itch_live_drain`, `itch_live_stop` | as `itch_live` | findings 1 and 2 |
| `mold_live_drain` | as `mold_live` | finding 3 |

*Bounds.* The ring buffer's instance wraps both ways and lets each cached index
lag by a full turn; nothing in the code depends on the capacity but the wrap, and
the theorems hold for every capacity. `MaxAccepted`, `MaxPackets` and
`MaxReceived` bound how much is received in a run; they allow a gap, its
recovery, a duplicate and a wrap in one behaviour. `EventLimit` and `IntentLimit`
of 1 make queues that are full most of the time; what could only go wrong with
longer ones is the order within a queue, which `BoundedFifo` promises.

In `itch_live` an index may be of the right size, too old, cut off, or of another
interval; one record is too large for a packet and one does not decode.

In `order_store` the homes make clusters that pass the end of the table, so that
entries at home, entries reached through the hole and entries that are not all
meet the shift; four of the five ids fill the table, and the fifth is then added or
looked for in vain. In the market state of `feed_and_state`, which runs beside the
handler and not on its messages (what the handler accepts may say anything), six
messages fill the store, refuse an add and hang a removal, and `MaxRejected` lets
one message per run be only counted. `MaxQuantity` stands for 2^32 - 1, which two
orders exceed together.

The files of `file_recovery` grow past an incomplete record and past the size
the index records; one has the size of another, one an oversized message.
Crashes are not bounded.

In `recorded_session` a byte counts to 8, so that lengths and sequence numbers
take two digits; `MaxDatagramSize` of 80 holds two of the smaller records, which
makes datagrams that close full, and `MaxPayloadSize` of 60 is less than the
largest record. The ten records of one session take more than one digit of
the sequence number. The scripts of the gap replayer are all sets of at most two
ranges that its command line accepts, ranges that touch and ranges at either end
included; `SocketLimit` of 3 lets the socket overrun.

*Fairness.* Weak fairness of each thread as a whole: the operating system
schedules every thread, and none waits for a lock. In the ring buffer also strong
fairness of a load seeing the latest store: the store becomes visible to a thread
that keeps loading, as the standard asks of an implementation. No fairness is
assumed of Ctrl+C, of the network (a receive may always time out), of a recorder
or of callers.

*Deadlock.* It is checked in every run but `ring_buffer`, which stops after the
destructor. The market state of `feed_and_state` may rest at any time
(`NoMoreMessages`), for it stops at the end of the messages or when a removal hangs.

## Findings

1. `itch_live_drain`: the consumer of `itch_live` may leave before the feed
   thread has published its last events, which stay in the queue; a comment says
   that it drains them.
2. `itch_live_stop`: a stop request before `run()` begins is overwritten by
   `startLifecycle()`, and main waits for ever.
3. `mold_live_drain`: `runQueued()` takes the receiver's flag for the end of the
   receiver's thread. It leaves once the flag is down and the queue empty, while the
   receiver may still push the datagram it holds, which then stays in the queue.
   Comments say that it leaves when "every published datagram has been consumed"
   (`MoldItchFeedHandler.cpp:494-495`), that "pending datagrams are drained after the
   receiver stops" (`MoldItchFeedHandler.h:57`) and that it exits once "all queued
   datagrams have been consumed" (`itch_mold_live.cpp:816-817`). What holds is
   `EarlierDatagramsAreProcessed`: only the datagram in the receiver's hands when
   it was told to stop can be left.

Seen while modelling, with no statement of the repository that they contradict
outright, and so not among the findings:

- An add that a full order store refuses leaves a phantom level, and a removal
  from a full order store never returns (2^22 slots, so 4,194,304 active orders).
- The legacy handler and strategy engine lose a `stop()` before `run()` as well.
  `archive/main.cpp:154` starts the strategy first so that "the MarketEventQueue
  already has an active consumer", which the creation of a thread does not ensure.
  If Ctrl+C comes together with a failed feed the exit status is 0.
- A second `start()` of the legacy handler after a recovery that a stop cut short
  would publish the recovered messages again; the application never restarts it.
- The live handlers fail on a message type they do not know; the replay counts it.
- The load generator packs everything before it sends anything, so that one
  record too large for a datagram means that nothing is sent.
- "Expected gaps" of the gap replayer is the number of ranges, which is the number
  of gaps a receiver counts only if no two ranges touch and neither the first nor
  the last record is dropped (`RangesApart`).
- `itch_live` prints an event queue capacity of 4096; the queue has 65536 slots.

## What is proved

A theorem holds for every value of the constants that meets the named
assumptions of its module. Each rests on an inductive invariant; this is what
they say and why the properties alone are not inductive.

*Ring buffer* (`SpscRingBufferProofs`; `Capacity` positive, the marks of empty
slots distinct from values). `IInv` adds to the types that every cached or
remembered index lies between what its owner may rely on and the truth
(`StaleViewsAreSafe`), that a check once passed stays passed (`ChecksStayTrue`),
and that exactly the slots from read to write index hold objects. That a slot is
free is known only from an index that may be old by the time of the
construction. `TypeAndSlots` proves it; `SlotsSafe`, `RaceFree`, `NoLeak` follow;
`RefinesFifo` proves every step to be a step of `BoundedFifo` or a stutter, with
the queue read off the slots by position.

*Mold feed handler* (`ItchMoldLiveProofs`, its first part; every sequence width, every set
of datagrams and of answers of the recovery source). `IInv` adds `Frontier` (what
is left of a recovery continues what was applied and ends right before the live
message) and `Bookkeeping` (where the second pass is in its datagram). From it:
`GapFree`, `ExpectedIsRight`, `AcceptedStaysCovered`,
`FramingFirst`, `FailStop`, and `RefinesFeed`.

*Packet handler* (`ItchLiveProofs`). `HandlerInv` is the same argument with
one message per packet; `QuotaMet` says that `start(n)` accepts n packets, and
`RefinesFeed` that `SequencedFeed` is kept.

*Mold live application* (`ItchMoldLiveProofs`; every queue size, every datagram).
`LiveInv` relates all counters to the queues and to what each thread has in its
hands. `ThreadsFollow` and `FeedLeftLast` make it inductive: main stops the
consumer only when the feed thread has exited, the consumer leaves only an empty
queue, and the feed leaves of its own accord only when the receiver was told to
stop and has at most one datagram left to push. From it `DiagnosticsBalance` and
`ShutdownLosesNoEvent`. `EarlierOnesAreProcessed` needs one thing more,
`StopComesFirst`: when the feed leaves unasked the receiver was told to stop before,
and all it had pushed by then has been taken from the queue.

*ITCH live application* (`ItchLiveProofs`; every recording, record size, interval
and set of sizes at which the file is seen; an index left behind was built from the
same recording). `LiveInv` says that events attempted are those dropped, consumed and
queued, whatever number a message causes. `IInv` is `LiveInv` with `AppliedIsTheFeed`: the packets the
handler has in hand bear what was recorded under their number
(`PendingIsTheFeed`), and the index in memory is true and complete from the
moment the source is ready (`ConstructionIsSound`); `FeedIsTheRecording` then
needs that a seek to a checkpoint and passing over records arrives at the
record asked for (`ReadsTheRecord`). `CoveredGapsAreFilled` proves the action
property that only a gap not recorded in time, or a failing file, fails the feed.

*File recovery source* (`FileMoldItchRecoverySourceProofs`; every set of files
whose records have distinct offsets, every interval and every request). What
`recover` returns depends on what an earlier process left on disk, so `IInv`
speaks of both: every index file, the temporary one too, is true of the file it
was built from (`IndexFilesAreTrue`), memory is true of the file that is there
unless it was misled (`MemoryIsTrue`), and where the constructor is tells what it
may rely on (`BuildIsTrue`, `ReadyToBe`). `IndexIsTrue` proves it inductive;
`RecoveredIsRight` and `StartsReady` follow. `RangesAreAnswered` needs more, that an
index covers every record that was present, and `GrowthAssumption`: a file is
only written at its end, so that two of its states of one size have the same
records.

*Trading engine* (`TradingEngineProofs`; every queue size, network and recovery
source). `FeedInv` says that while a message and what was recovered before it are
being published, the rest of them continues what is already published; a stop
at a full queue breaks this off, which is why `NothingIsSkipped` speaks of a
handler that is still running. `FeedIsSound`, `NoEventIsSkipped`, `RefinesFeed`.
`IntentsInv` carries this through the strategy thread to the printed line. What was
published is what the strategy has taken followed by what is queued (`Splits`), and
the orders printed, queued and in hand are one for each of the events taken that
are wanted, each at the place its event has among them (`Fulfil`). That states what
a filter yields by counting instead of recursion, so that taking one event is one
lemma (`WantedIsFulfilled`, `UnwantedIsFulfilled`). `StrategyIsJoined` says that nobody
fills the queue any more when main drains it. `IntentsAreSound` proves the invariant
inductive, `EngineIsSound` and `TheQueueIsDrained` follow; the latter rests on
`FullQueueWasSeen`: a strategy that looks at its flag has found the queue full, though
there may be room again.

*Market state* (`ItchMarketStateProofs`; every set of instruments, orders and messages,
every size of the order store and of the event queue; prices and quantities are
natural numbers). Three invariants, each inductive given the one before. `StoresInv`: the
levels are `LevelsOf` the active orders and of the refused ones, and a reduction
whose trade is being published still fits its order. That no check fails is a
consequence, but is part of it too: a handler that met an inconsistency would return
without finishing. `EventsInv`: the counters of the publishers balance and the numbers in
the queue rise; one event more is `QuoteStep` or `TradeStep`, whichever handler causes
it. `LevelsQuoted`: the last quote is the best bid and offer of the *levels*, the form in
which the code compares; with `BooksMatchOrders` and the lemma that the best price of
the levels is the best of the orders (`BestIsBest`) it becomes `QuoteIsCurrent`. The
totals are a fold over a set; what is needed of it is that one element more adds
its quantity. `SumExists` to `TotalsAgree` get that from `SetInduction`, an instance of
the least number principle, as the library's induction rules cannot be used.
`BooksMatch`, `DropsLeaveGaps`, `QuotesAreCurrent`.

*Order store* (`OrderStoreProofs`; every capacity, every hash function).
`StoreInv` is inductive: the way from the home of every entry to its slot has no
empty slot on it (`ProbesReach`), ids are unique, a search has missed nothing so
far (`SearchMissed`), and between the hole and `current` no entry is reached by way
of the hole (`ShiftedIsSettled`), which is what lets the loop of `removeAt` end at
the first empty slot. The arithmetic of going round the table is in lemmas
(`Between`, `FollowingDistance`). `TableIsSound` proves it, and `ImplementsTheMap`
that every step is a step of `OrderMap` or a stutter, where the map has what the
entries that count hold; the bound needs that as many ids are stored as there are
entries (`StoredCardinality`).

*Recorded sessions* (`RecordedSessionProofs`; every set of recordings, every ending
of them, every size of a datagram). The assumptions say what a file can be
(`FilesAssumption`: records whose length fits its two bytes, then an ending that
holds no whole record; any bytes at all have this form), that a datagram has some size (`DatagramSizeAssumption`),
that the numbers asked for fit their fields (`LoadGenAssumption`,
`ScriptAssumption`), and that a byte has at least two values
(`ByteBaseAssumption`).

Below everything are lemmas about bytes: a number is read back as it was written
(`ReadsWhatWasWritten`), `readNext` after n records returns record n + 1
(`ReadsTheFile`), a datagram is decoded as it was encoded (`DatagramDecodes` for
MoldUDP64, `DecodesWhatWasEncoded` for packets). Where a definition is a recursive
function they are proved by `SetInduction`: the set of the n for which the
lemma holds contains 0 and every successor, so it is `Nat`.

- `LoadGenCarriesTheFile`. The property only speaks of datagrams that are closed.
  `GeneratorInv` says of the open one that, with those before it, it carries the
  records read so far, and of the time of sending that what is sent followed by
  what is waiting is the session without `sendErrors` datagrams. `Keeps` says this
  as a subsequence, so that one failed send is one lemma.
- `ReplayIsFaithful`. `ReplayingInv` has three parts: where the events are
  (`EventsInv`), that the file was read up to `recordsRead` (`ReadingInv`), that each
  counter is the number of the records read that call for it (`CountingInv`). That
  a message decoded has every field as recorded follows from the table of layouts: the
  fields of each type lie one behind the other from the byte after the type to the
  size that is checked (`LayoutsLay`), so that cutting a message at them and joining
  the pieces gives the message (`CutsJoin`, `DispatchKeeps`).
- `GapsAreFilled`. The property only speaks of a replay that has arrived.
  `FeedInv` says for every moment before it where the sender is, what the handler
  has in hand (`Handled`: nothing yet, between two packets, looking at one,
  recovering, applying) and that the socket holds exactly the numbers that were
  kept and not yet taken (`Waiting`); after a failed send, an overrun of the socket
  or a failure of the feed it promises nothing (`Disturbed`), nor does the
  property. Counters are cardinalities of sets of numbers up to the last one
  taken; one step further counts a gap (`StretchCounted`) and what was left out
  of it (`LeftOutCounted`). That these are the "expected" gaps and drops of the
  report when ranges lie apart is arithmetic over the list of ranges (`ExpectedIs`,
  `ApartIs`, `BeginningsCounted`).

*Only model-checked.* The liveness properties: fairness and ENABLED are out of the
prover's reach. They are `ReplayEnds` of the recorded sessions, that a retrying
producer gets in and what is pushed is popped, that a stop ends a run, that a shutdown
completes, that calls of the order store return, and that the trading engine ends.

## Not modelled

- Sockets beyond a receive that times out, fails or overruns, logging, metrics,
  printed reports and command lines: input and output without state that
  anything depends on.
- Pacing of the senders: when a datagram is sent is nondeterministic anyway.
- `itch_synthetic_sender.cpp`, `itch_udp_load_gen.cpp`, `itch_udp_replay.cpp` and
  the benchmarks under `app/archive`: earlier or synthetic versions of the senders
  that are modelled, and timing harnesses. The first 950 lines of
  `itch_mold_udp_load_gen.cpp` are an older version that is commented out.
- Session changes and heartbeats of MoldUDP64: the handler never reads the
  session, and a heartbeat is a datagram that announces no messages, which it rejects.
- What a consumer should see when a book becomes one-sided: no quote is published
  then, and nothing in the repository says what should be.

## Plan

What is left, the most useful first:

1. A composition of `ItchMarketState` with `OrderStore` itself in place of
   `OrderMap`, now that the refinement is proved, to see the hang of a full table in
   the application.
2. The older senders, should they be used again.
