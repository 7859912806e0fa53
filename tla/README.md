# libtrading in TLA+

A verification project for libtrading: TLA+ modules that model its stateful
parts, TLC configurations that check them on small instances, and theorems
that TLAPS proves for every value of the constants.  `PROJECT.json` relates
every definition to the lines of `src/` it models.

## 1. The system

libtrading is a C library of trading protocols with a few tools around it.
There are no threads: every program is one loop over non-blocking or blocking
sockets.  What makes the code hard is the state kept between two calls, the two
ends of a connection drifting apart, and data that arrives in pieces, late, or
not at all.

| Part | Source | State | Operations |
| --- | --- | --- | --- |
| Matching engine | `tools/sim/engine.c` | per-level order lists, best bid and ask, order slots | `do_limit`, `do_cancel`, `match` |
| Simulator market | `tools/sim/market.c`, `trader.c` | trader slots, receive buffers, event loop | accept, one message per readable event, dispatch to the engine |
| FIX session | `lib/proto/fix_session.c` | numbers in both directions, activity, timestamps | new, send, receive |
| FIX session layer | `tools/fix/fix_common.c` | pending TestRequest, logout grace period | admin, logon, logout, keepalive |
| FIX programs | `fix_client.c`, `fix_server.c`, `cert/micex/forts.c` | their loops | logon, loop, logout |
| FIX framing | `fix_message.c`, `buffer.c` | receive buffer | receive, parse, compact |
| FIX template | `fix_template.c` | prepared buffer with markers | prepare, unparse |
| FAST codec | `fast_message.c`, `fast_session.c` | dictionaries, field states, partial decoding | decode, encode, reset |
| FAST books | `fast_book.c`, `fast_feed.c`, `order_book.c` | feeds, per-book sequence number, levels | subscribe, join, update, recover |
| Soupbin3 | `soupbin3_session.c` | buffer | receive a packet |
| Exchange decoders | `nasdaq_itch*`, `ouch42`, `pitch`, `boe`, `omx`, `mbt`, `nyse`, `lse`, `xdp` | none | type to size lookups |

The parts meet in three places.  The FIX programs drive a session through
`fix_session_recv` and give every message to `fix_session_admin`, which sends
replies and may call `fix_session_logout`, which itself receives and
administers.  The market hands decoded messages to the engine by direct calls
and writes what the engine reports to the traders' sockets.  The FORTS client
runs the FAST books and a FIX session in one loop.

Per part, what makes it correct:

* engine: no crossed book, no lost or doubled order, price-time priority,
  prices within limits, matching ends, although best bid and ask go stale;
* FIX session layer: the numbers of the peers agree as long as no send fails,
  and if one fails no peer forgets a message without saying so, no number goes
  back, waits end;
* FIX keepalive: no live session is given up, heartbeats come, a dead one is
  noticed, although all times are noted from a clock that stands still in recv;
* FIX framing: a message is taken once, whole, whatever pieces it comes in;
* FIX template: what is written over at markers and summed by parts is what a
  message built anew would be;
* FAST books: a book is shown only when it is a prefix of the exchange's
  sequence; a gap is always noticed and recovered from;
* FAST codec: encoder and decoder dictionaries stay equal, a message cut at any
  byte decodes to what the whole message decodes to;
* market: a trader slot belongs to one open connection, every complete message
  is handled.

Everything in the code that is hard to test is listed under `hazards` in
`PROJECT.json`, at its line, with the properties that watch it.

## 2. The plan

Done, in this order:

1. `MatchingEngine` with its abstract specification `PriceTimeBook`, and proofs.
2. `FixSession`: two peers, failing sends, resets.
3. `FastBook`: incremental feeds and a snapshot feed that lose and reorder
   datagrams, against the books of the exchange.
4. `FixFraming` with `FixWire`: FIX messages over a stream that arrives in
   pieces.
5. `FastBytes`, `FastField`, `FastSequence` and `FastSession`: the operators of
   FAST, encoder against decoder, messages that stay partial, resets after
   every message.
6. `Market`: the event loop around the engine: accept, readable events, trader
   slots, closing peers.
7. `FixKeepalive`: the keepalive over a clock, in the loops of `forts.c` and
   `fix_client.c`.
8. `FixTemplate`, on `FixWire`: markers and fields in a prepared buffer.
9. Proofs, beside those of item 1: `FixSession_proofs`, `FixKeepalive_proofs`,
   `Market_proofs`, `FastBook_proofs`, `FixWire_proofs`, `FixFraming_proofs` and
   `FixTemplate_proofs`.  Section 11 says what stays with TLC.

Left:

10. In `FastBook`, several entries in one message, entries of type J, and
   trading sessions; the scripted loop of `fix_client.c`.

## 3. The matching engine

`MatchingEngine` follows `engine.c` one loop iteration at a time.  Its state is
`struct order_book` (the lists per level as sequences of order ids, `best_bid`,
`best_ask`), the order slots, and, while `match` runs, its locals: the taker,
the local `level` and the phase of the loop nest.  Actions:

| Action | Code |
| --- | --- |
| `AcceptLimit`, `RejectLimit` | `do_limit` up to the call of `match` |
| `EnterLevel`, `Fill`, `LeaveLevel` | one iteration of the outer loop's head, of the inner loop's body, and of the outer loop's tail |
| `Rest` | the insertion of the rest and the update of the own best price |
| `Cancel`, `RejectCancel` | `do_cancel` |

The engine is called synchronously, so no request interleaves with a match; the
steps of a match are separate all the same, because the invariants are about
what holds in the middle of one.  Prices are levels, quantities small numbers.

`PriceTimeBook` says what a matching engine promises without lists, levels or
bounds: orders with an arrival number and a quantity; the taker trades with the
best and oldest counterpart, at that one's price.  The refinement mapping
computes arrival and rest from the engine's slots.

| Run | Shows |
| --- | --- |
| `engine` | types and array bounds, uncrossed book, bounds that bound although stale, exact lists, the sweep's local level, trades within limits, conservation of quantity, every match ends, and the engine implements the price-time book |

Bounds: three levels let a taker sweep two and rest at the third; three orders
of sizes up to three leave either party, both or none with a rest, and let a
level queue two orders that a third meets, or meets after a cancel.  The only
fairness is that a running match
goes on (`FairSpec`): the program is inside a function call.

### Proofs

`MatchingEngine_proofs` proves, for any number of levels, orders and any sizes,
`TypeOK`, `Uncrossed`, `BoundsHold`, `ListsExact`, `TradesInLimits` and
`SweepInv`.  None is inductive alone: `Uncrossed` needs the bounds, the bounds
need the lists (a best price moves past a level only when its list is empty),
the lists need that a level holds an order once, in slot order, with a rest,
and all of it must hold in the middle of a sweep, where the local `level` and
the taker's remaining quantity say how far the sweep has come.  `IInv` is their
conjunction; there is one lemma per action, and `UnlinkLemma` states what
removing an order does to a list.  Assumptions: the constants are positive
numbers, nothing else.

`NothingLost` is conservation (`Conserved`).  What an order traded is a sum over
the trades; the module states it as the number of its units, pairs of a trade
and one of the shares it moved, so that a trade adds a disjoint interval to a
finite set and no sum has to be unfolded.  `Kept` adds what makes it inductive:
a slot that was cancelled is in use.

The refinement, `PriceTimePriority`, is proved with `IInv` too: it says that the
mapped resting orders are the listed ones and that the head of the list at
`level` is the best and oldest of its side.  An accepted `do_limit` maps to
`Arrive`, a turn of the inner loop to `TradeWithFirst`, the end of a match to
`Settle`, `do_cancel` to `Withdraw`; every other step changes nothing the
abstract book shows.  That a match ends is liveness and stays with TLC.

## 4. FIX sessions

`FixSession` composes two sessions over a FIFO connection.  The client is the
loop of `forts.c` `do_logic` over `fix_common.c`; the server is
`fix_server_script` of `fix_server.c`, with a script that expects whatever
comes (or, in `Mismatch`, something else).  One action takes one message
through one of the five places that receive: `fix_session_logon`
(`AwaitLogon`), `fix_server_logon` (`AcceptLogon`), the two loops
(`LoopTakes`), the wait in `fix_session_logout` (`GraceTakes`) and
`fix_server_logout` (`ServerLogsOut`).

What a handler decides is computed by pure operators on the number that
`fix_session_recv` has already incremented: `Admin` with `Unexpected`,
`GapFilled`, `Reset`, `Resent` and `TestReply`.  `Take` applies an outcome:
number, reply, phase.  `depth` counts the `fix_session_logout` calls that are
on the stack, because a too low number received during a logout's wait starts
another logout inside it; the waits started earlier end no later, so
`GraceExpires` unwinds all of them.

The connection loses nothing.  `Send` may fail instead (a short write, a full
socket): the number is taken, nothing arrives, and no caller looks.  A user may
also call `fix_session_sequence_reset` without gap fill (`SendReset`).
`PossDupFlag` is left out: no peer in the repository sets it, so a too low
number always logs out.  Fields other than the numbers and the TestReqID are
left out; times are left open (a keepalive or a grace period may end at any
moment); `FixKeepalive` has them.

Two histories split the numbers a SequenceReset moves a peer past
(`in_msg_seq_num` from what it was to what the handler leaves).  `skipped` has
those of a reset that was applied and so announced that nothing more comes for
them (`Announces`): a gap fill whose number is the expected one, or a reset
without gap fill, with a `NewSeqNo` above it.  `unannounced` has those of the
others.  A gap fill with a low `NewSeqNo` is rejected, and a reset whose
`NewSeqNo` is the expected number is ignored, but both stay counted
(`fix_common.c:159-165`, `176-185`), and no one said that the number is void.
`Accounted` forbids a silent loss altogether in a legacy dialect until the user
sends a reset; in a later dialect, where the answer to `EndSeqNo` 0 is such a gap
fill, it allows these numbers and no others.  `DeliveredOrSkipped` says that no
delivered number is ever in either history or lost.

| Run | Shows |
| --- | --- |
| `fix_session` | in a dialect up to FIX 4.1 and in a newer one: until the first failed send the numbers stay in step and tests are answered; with up to two failed sends on either side and a user's reset, no number falls or overtakes the peer's, no order's number is passed silently but by the SequenceResets named above, a stopping client ends; after the legacy dialect's jump to 999999 nothing is delivered |
| `fix_gap_fill` | a violation: the gap fill a session sends is one that a session rejects |

Bounds: the client starts messages up to number 4 (`MaxOwn`), which gives two
between logon and logout, the one that is lost and the one that shows the gap,
with the Logout behind them; replies are bounded by `MaxSeq`.  `FarSeqNo` stands
for 999999 and only needs to be above every number.

Fairness: both programs poll or block on their socket and look at the clock,
so a message that has arrived is taken, a client that left its loop logs out,
and a grace period ends.  No fairness is given to users, scripts and keepalive.
Deadlock is not checked: both programs may end, and a server whose client is
gone polls a dead socket forever.

What the model shows besides its properties, and a reader of the code should
know: with `EndSeqNo` 0 one failed send leaves the receiver behind for good
(each gap fill is rejected, but its number counts); with two messages behind the
gap the second gap fill is already too low and the session is logged out; the
orders behind a gap are dropped and never sent again, because every
ResendRequest is answered by a gap fill; in a later dialect that gap fill is
rejected and counted, so an order that arrived behind a gap and was asked for
again is passed without being delivered or announced; a SequenceReset whose `NewSeqNo`
equals the expected number leaves the receiver expecting one more
(`fix_common.c:176-185`).

### Proofs

`FixSession_proofs` proves every safety property of `fix_session`, for both
dialects and for any bounds on messages, failed sends and resets: `TypeOK`,
`InStep`, `NeverAhead`, `Accounted`, `DeliveredOrSkipped`, `ExpectedNeverFalls`
and `NothingAfterFarJump`.  The only assumption is the module's own, that the
bounds are numbers and `FarSeqNo` is above them.  The invariant ties the
numbers of both ends to what is between them:

* `Numbering` and `Orders`: a number is taken once, by a message that is on the
  wire or was lost, and an order is known by its number;
* `InOrder`: before the first failure or reset the wire holds exactly the
  numbers from the one expected to the one to be given next (for `InStep`);
* `Owed`: in dialects after FIX 4.1 the number a peer expects, the messages on
  their way to it, and one for each of its ResendRequests that is not answered
  yet, stay together below the number its peer will give next; and so with the
  gap fills.  `NeverAhead` alone is not inductive, since a gap fill that is
  rejected counts all the same: the request it answers has to be seen as a
  message already owed;
* `Counted`: what the server delivered and was moved past is not above what it
  has counted, and a counted number that the client has not given is one it was
  moved past (for `AllAccounted`, `Accounted` without the distinction of the two
  histories);
* `Announcing`: in a legacy dialect without a reset by the user, every
  ResendRequest on the wire names a range that is not empty and every gap fill
  leads past its own number, because `EndSeqNo` is 999999 and every number is below
  it; so what the server does not apply it does not count, and `unannounced` stays
  empty until it is closed.  This is an invariant of its own on top of the others.

There is a lemma for what each handler decides (`Judged`, `Sound`) and one for
each place that receives.  That a session ends is liveness and stays with TLC.

## 5. FAST books

`FastBook` has the exchange (`log`, the messages it numbered), and the state of
`struct fast_book_set`: books with their flags and levels, and per feed the
number it delivered last.  The locals of `fast_books_join` are state too, since
its loop takes one increment and one snapshot per round.  Actions:

| Action | Code |
| --- | --- |
| `Exchange` | the exchange sends an increment or a message without one |
| `Subscribe` | `fast_books_subscribe` for the next book, as the loop of `fast_orderbook.c` calls it |
| `JoinRound` | one round of `fast_books_join`: `next_increment`, `apply_increment`, `next_snapshot`, `apply_snapshot`; at its end the next join of `fast_books_subscribe` or `fast_books_recover` |
| `Update` | `fast_books_update`, up to the first join of `fast_books_recover` |

Datagrams may be lost, repeated and reordered without limit: a feed delivers
nothing or any message sent so far, and the snapshot feed the state of any book
after any message.  The levels are those of `order_book.c`, each with its
`seq_num`.  The size of a level is the RptSeq of the entry that set it, so a stale
level never looks like a new one; its `seq_num` is the count of the book that took
the entry, as in `md_increment`, and the two differ once a book miscounts.  A
failed join leaves its book's `join` flag set, as the code does.

| Run | Shows |
| --- | --- |
| `fast_book` | two books of two levels each: increments and snapshots merge into exactly the exchange's books, without left-over deleted levels, also while one book joins or recovers and the other updates; the program fails only while it subscribes |
| `fast_book_feeds` | two feeds of one book of two levels: an active book is one the exchange had, so no entry is applied over a hole that concerns the other level, and no update leaves all feeds unread |

Bounds: four messages are a first increment of a join, one between it and the
snapshot, one after, and one to lose; and of two feeds, one to join, one taken,
one dropped in the same call, and the next that must not be applied without it.
`Counting` bounds the RptSeq a book left joining counts up to.  The two levels are interchangeable (`LevelSymmetry`):
no definition or property compares prices.  Nothing is assumed fair: the properties are safety.
Deadlock is not checked: the program ends in `failed`, and the exchange at its
bound.

What the model shows besides: with two feeds that deliver `n+1` and `n+2` in
the same call, `next_increment` drops the second although `inc_msg_num` counts
it (`fast_book.c:516`), so `UpToDate` and `OnlySubscribingFails` do not hold for
two feeds: the book stays behind and its next entry ends the program.  That is
so when the book has a RptSeq.  Of several books, one that joins while only the
others' entries come has none when it becomes active: `apply_increment` alone
sets it, from the first entry, and a snapshot does not.  If the dropped message
has this book's entry, the next one starts the count behind the hole, and the
book stays wrong without an error.  Four messages are enough for it, so
`PastBook` speaks of one feed or one book.  And a
recovery of several books whose later join failed once retries in vain for as
long as an entry of that later book comes while an earlier one joins
(`fast_book.c:727`): the flag is still set, the RptSeq is not cleared.

### Proofs

`FastBook_proofs` is for any number of books, any set of levels and any length
of the log; the assumptions are those of the module.  For any number of feeds it
proves `TypeOK`, `SomeFeedIsRead` and `NoEmptyLevels`; for one feed or one book,
`PastBook`, and that a snapshot a join may use never meets a level of another
size (`SnapshotsAgree`, which no run checks: it asks about every snapshot and
every delivery at once); for one feed, `UpToDate` and `OnlySubscribingFails`.
The restrictions are those of the paragraph above, not of the proof.

The invariant has two parts.  `FeedsInv` holds always: ranges, which books are
active before, during and after a join (`Order`), that no book has counted an entry that did not come
and an active one has no empty level (`Tallied`), and that some feed is not
ahead (`SomeRead`).  `Exact` holds for one feed or one book.  An active book is
the exchange's after some message `m`, with one feed the last one taken, and its
RptSeq, if it has one, is the exchange's there (`IsAt`, `CountIs`).  The book
that joins is described level by level (`IsFrom`, `LevelFrom`): a level is as of
the last message that touched it since `msg_num_init`, and absent if none did;
a level that was deleted is kept with no size, and that is why.  With this the
merge is one lemma, `JoinIs`: a snapshot from between `msg_num_init` and
`msg_num_cur` gives the level where no increment did, so the book becomes the
exchange's after `msg_num_cur`.

## 6. FIX framing

`FixWire` is how a message looks on the wire and how `fix_message.c` parses it,
as operators on sequences of symbols: `=`, the delimiter, the digits of a tag,
a value.  A checksum is the range of symbols it was summed over, so two
different ranges never have the same one; whatever is delivered although it was
not sent would be a fault of the framing, not of a weak sum.  Every parse
function returns `ok`, `partial` or `garbled` with the place where the buffer
is left, as in the source.

`FixFraming` puts the receive buffer around it: `start` and the unread bytes
of `rx_buffer`, the bytes on the wire, the messages sent and returned.  `Send`
sends a whole message, one with something wrong (checksum, a BodyLength that is
too long or too short, an unknown MsgType, a field without a tag), or the
beginning of one: `fix_message_send` does not go on after a short write.
`Recv` is `fix_session_recv` with `fix_message_parse`: parse what is there,
otherwise compact, receive as many bytes as came and fit, and parse again.

| Run | Shows |
| --- | --- |
| `fix_framing` | what is returned was sent, once and in order; everything before the broken message is returned; the buffer never fills up for good |

Bounds: three messages, one of them broken, are a good one on either side of it;
the cuts are in the BeginString, behind the BodyLength, in the MsgType, in the
number and in the text.  A buffer of 62 symbols for messages of at most 25 is
compacted while a part of a message is in it.  No liveness is claimed: whether
the last message arrives depends on what the program reads next, and at rest
`AllArrived` says it has.

What the model shows besides: a garbled field at the end of the bytes read is
passed over half (`next_tag`), and its other half then hides the BeginString
of the next message.  So how many messages a broken one costs depends on how
the stream was cut.  And although a comment in `fix_message.c` calls an invalid
BeginString garbled, any value is accepted.

### Proofs

`FixWire_proofs` has the lemmas about sequences and about the parser, for any
bytes.  The recursive functions in `Parse`, `RestOfMessage` and `FlattenSeq` are
shown to exist by an induction over a set of places (`SetInduction`,
`DownInduction`, from the library's `WFMin`), and the same induction then shows
that the parser never goes back and never beyond the bytes it was given
(`ParseWithin`), whatever they are.

`FixFraming_proofs` proves `TypeOK` for every size of the buffer, whatever is
sent and however it is cut (`NothingMisplaced`).  The invariant (`Stream`) says
what the bytes are: what the parser left behind, what is unread and what is on
the wire, put together, are the bytes of the messages sent.  A compaction, a
garbled field that is passed over and a read of any size keep it, because each
only moves a border between the three parts.  Assumptions: a message is smaller
than the buffer, and lengths are numbers.

The same module proves `AllArrived` for any number of messages
(`WholeMessagesArrive`).  `Stream` is not enough for it: the invariant must say
between which two messages the parser stands.  `InTurn` says that the first d
messages, and no others, have been returned, and that the unread bytes and those
on the wire are exactly the bytes of the messages after the d-th; `Done`, its
alternative, that everything in front of a broken message has been returned
already, after which nothing more is claimed.  A step keeps this because of what
the parser makes of the front of a whole message, cut at any byte: all of it is
there and the message is returned, with its number and its end (`WholeParsed`),
or a part is there and the parser waits at its first byte (`FrontParsed`), never
taking the front of a message for garbled bytes.  The argument goes field after
field (`RawLaid`, `FrontFields`).  One more assumption,
`FitAssumption`: a whole message has a body that `parse_body_length` accepts.
The sender's body buffer (1024 bytes) is smaller than the limit (1280).

## 7. The FAST codec

Four modules, each on top of the one before.  `FastBytes` puts numbers, strings
and presence maps into bytes and takes them out again (`transfer_*`, `parse_*`,
`pmap_*`).  `FastField` encodes and decodes one field.  `fast_message.c` has a
function per type with a case per operator; the module has the operators once
(`Operate`, `Absent`, `Constant` when decoding, `SendWith`, `Known`, `Sent` when
encoding) and the types as what they read and write (`ReadNumber`, `ReadString`,
`ReadUnicode`, `ReadDecimal`, `EncodeUint`, ...), because the cases of the
different functions do the same; where they do not (a string overwritten by a
partial read, the state of a unicode string, a decimal in two parts), the
module follows the function.  `FastSequence` adds sequences.  The library does
not encode them, so their encoding is an exchange's: a length, and for each
element a presence map if one of its fields takes bits.  Neither does it encode
vectors, deltas of strings, and strings of bytes (`charset="unicode"`), although
it decodes them all; the first two it refuses, but the last it encodes like any
string, and `fast_message_decode` cannot read it.

`FastSession` is `fast_session_send` at one end and `fast_session_recv` at the
other.  `rx` is the part of `struct fast_session` that lives between two calls:
unread bytes, presence map with its bit, whether the id was read, the place in
the template, the fields.  `Send` gives each field a value or none, and a state
as `fast_send_prepare` does; `Recv` decodes what is there, receives any number
of the bytes on their way and decodes again, or finds nothing to receive.

| Run | Shows |
| --- | --- |
| `fast_session` | both integer types with all six operators, strings with deltas, strings of bytes, vectors, decimals, decimals in two parts, and sequences of none, one and two elements, optional or not, with and without a reset value: messages arrive as sent, nothing stays half read, the memories of encoder and decoder agree; and, for the families of `ResetFamilies`, all of that with a reset after every message |
| `fast_lengths` | a violation: a length that takes a bit of the presence map |

In `fast_session` the encoder is an exchange's: it puts a preamble of one byte
in front and leaves the template id out after the first message, which the
library's encoder never does; the other run is without.

Each run checks every template of its family: the field in question and a
plain one behind it, which comes out wrong when a bit or a byte is taken too
many or too few.  A byte has two bits beside its stop bit (`Bits` instead of 7),
so two bytes make a presence map longer than one, and values from -3 to 4 take
one or two bytes, and up to three as deltas with null; the conversions only use
`Bits` as a parameter.  Three messages are what the memory needs: a value, none, and
the value again.  `AllArrived` is what is left of liveness without it: when
nothing is on its way, nothing is half read.

With `session->reset` the programs call `fast_session_reset` when they have
looked at a message (`fast_parser.c`, `docs/quickstart.md`), or before the next
one (`fast_feed_recv`).  The exchange then begins every message with the memory
of a new session (`Remembered`) and leaves out what a field starts with
(`Starts`); `SessionReset` is what the code does.

Three families of `MCFastSession` are in no run, because `AsSent` does not hold
for them.  "counting exponents": the exponent of a decimal in two parts with an
increment or a delta is decoded again, and counted again, each time the message
stays partial between the parts.  "reset states": a reset leaves the states of
fields, so that an optional field that is left out after one has its initial
value or zero instead of none, or none instead of its initial value, and an
increment is counted from the initial value instead of being it.  "reset parts":
a reset does not reach the parts of a decimal or the length of a sequence, so
that their deltas are added to the last message's.

The sender gives a field no state before its first message, as the scripts of
`fast_server.c` do.  `fast_client.c` and the pong of `fast_server.c` set it to
ASSIGNED at once; if the value then is the one the field starts with, it is
left out, and the decoder, which is still UNDEFINED, finds the message garbled
or the field empty.  The sender's buffers have room and its socket takes all.

## 8. The market

`Market` is the simulator around the engine: one libevent loop whose callbacks
are `accept_conn_cb` (`Accept`), `accept_error_cb` (`AcceptFails`) and `ev_cb`
(`Event`), which finds or makes the trader of the socket, receives one message
with `fix_session_recv` and handles it (`DoIncome`).  Peers send the scripts
that `trader.c` sends, may close at any time, and reach the market through a
stream that cuts messages in halves or delivers several at once.

A trader is its descriptor, whether it has logged on, and what its session's
buffer holds.  `events` and `armed` are libevent's: a callback that closes a
socket never deletes the socket's event, so libevent still counts one for that
descriptor, and when the kernel gives the number to the next connection, its
event is only counted and the kernel is not asked again.  Such a connection is
accepted and never served.

| Run | Shows |
| --- | --- |
| `market` | every session belongs to one open connection and holds that one's bytes (`BoundToOpen`); the engine is handed each peer's orders once, in order, under an id of its own (`InOrder`); what came together with another message gets through once the peer has closed (`Drained`) |

Bounds: three connections for two slots, so that one is refused although another
has logged out (`trader_new` only counts up, a slot is never used again), and
one may get the descriptor of another that logged out; scripts of up to four
messages with orders before a Logon, broken ones, and none after a Logout; a
message has two halves.  Fairness is `WF(Event)` for each connection: one round
of the loop serves all that are ready.  Nothing is assumed of peers.

`Drained` claims what the code does and no more.  It speaks of connections the
kernel reports, and of peers that closed: a message that came together with
another waits in the buffer until something else makes the socket readable.  A
peer that closes without a Logout is never closed by the market; its socket
stays readable and the loop spins on it.  A failing `accept` ends the market.

### Proofs

`Market_proofs` proves `BoundToOpen` and `InOrder` for any number of
connections and slots, any scripts and any way the stream cuts them.  The
invariant relates the three places a descriptor is kept.  `Sockets`: no two open
connections have the same one.  `Unserved`: an open connection without a slot
has not been read from.  `OneSlot` and `Open`: no socket has two slots and no
slot outlives its socket, although libevent's events do.  `Slots` says what a
slot knows: the first `k` messages of its connection have been dealt with, the
buffer holds the halves read after them, the trader is active if the first was
a Logon and none a Logout, and the engine was called with the orders among them
and no later one.  `Calls`: no call came from a slot that never was.  `Drained`
is liveness and stays with TLC.

## 9. The keepalive

`FixKeepalive` is `fix_session_keepalive` with `fix_session_test_request` and
the heartbeat, in the loops of `forts.c` (`do_logic`) and `fix_client.c`
(`fix_client_session`).  Time stamps are kept as their ages in seconds, cut off
where no comparison tells them apart (`Horizon`), which makes the states finite
without a bound on time.  `Keep` is the head of the loop (keepalive if a tenth
of the interval has passed, and the update of `session->now`), `Recv` and
`RecvNothing` its end.  In `forts.c` the loop begins with `fast_books_update`
(`Update`).  `Second` is time going by, in the two places where an iteration can
take any: the wait in a blocking `recv` (`Receiving`), and `fast_books_update`
when it has to recover the books (`Recovering`), which looks at the feeds until
the snapshots have come, retries and looks at nothing else meanwhile: no
heartbeat is sent, and what the exchange sends stays unread.  `session->now`
stays what it was in both.

| Run | Shows |
| --- | --- |
| `fix_keepalive` | an exchange that is never silent for 13 s and answers a test within a second is given up only if `fast_books_update` took some of the time while the test was pending (`LiveKept`); a client is never quiet for longer than an interval, a tenth, a wait in recv and one recovery (`HeartbeatsKept`); a closed connection is left (`ClosedLeft`); at most one test is out (`TypeOK`) |
| `fix_client_loop` | a violation: `fix_client_session` handles a message when none was received |

`HeartBtInt` is the 10 s that `forts.c` uses, so that a tenth and a half of it
are whole seconds; 13 s make tests and their answers happen, since one is sent
after 12.  A call of `fast_books_update` takes up to 3 s (`Recovery`), longer
than the second for which the keepalive is skipped, so that a recovery reaches
the next keepalive with an answer unread, and several can follow each other.
`MaxUnread` bounds what the exchange says unasked before the client reads.

What the two properties grant is what the code needs.  A live exchange *is* taken
for dead after a recovery: `tr_timestamp` is taken from the `now` of before the
wait and the recovery, what the code compares with half an interval may be that
old already, and then only the tenth in which the keepalive is skipped is left
for the answer; a recovery takes it while the answer lies unread.  `Held` says
so: the timeout is granted only when the answer's time and the time in
`fast_books_update` since the test are more than a tenth.  Without that clause
`LiveKept` fails, and with a second less in `Quiet` `HeartbeatsKept` fails.

Fairness: the loop goes on (`WF(Loop)`), and the clock does however often the
loop comes round (`SF(Second)`).  That `fast_books_update` returns, within
`Recovery`, is assumed: a recovery may retry for as long as its snapshots do not
come (section 5 has what can keep it), and the loop looks at the session no
sooner.  `ClosedLeft` is claimed for a closed
connection only: in `forts.c` `recv` waits without a limit, so an exchange that
is silent without closing is never noticed, and neither is a signal.

### Proofs

`FixKeepalive_proofs` proves `TypeOK`, `HeartbeatsKept` and `LiveKept` for every
`HeartBtInt`, every silence the exchange may keep, every time it takes to answer
and every `Recovery`, without a hypothesis of their own.  The first two follow
from `Ranges`, `UnderWay` (at most one answer is on its way, to a test that is
pending) and `Beating` (how long ago the last message can have been sent, by
what the keepalive found, by how many rounds skipped it since, and by the time
in the present call of `fast_books_update`).  For `LiveKept`, `AnswerDue`
relates the time since the last keepalive to what the exchange still has to do:
while a test is pending it is no longer than the answer takes and what went by
in `fast_books_update`.  `ClosedLeft` is liveness and stays with TLC.

## 10. The template

`FixTemplate` is a message that is built once (`Prepared`), and then only
written over at its markers (`UpdateTime`, `Marked`), extended by the variable
fields and summed again where it may have changed (`TemplateUnparse`), in any
order with other sessions, numbers, times and fields.  Its bytes are the symbols
of `FixWire`, so that `fix_message_parse` can be asked what they say.  A number
padded to a fixed width is one symbol: one too wide for its pad, which would
write over the delimiter behind it (`fix_template.c:142`), is left out.

| Run | Shows |
| --- | --- |
| `fix_template` | an unparse gives the message that `fix_message_unparse` would build from its fields (`AsBuiltAnew`), and `fix_message_parse` reads it back to its last byte (`ReadBack`) |

`FromFields` is the reference: the same fields put together anew, with the
length counted and the sum taken over all of it.  Two sessions, numbers and
times, and no, short and long constant and variable fields, are what it takes
for a value or a tail of the message before to be left in the buffer.

### Proofs

`FixTemplate_proofs` proves `AsBuiltAnew` for any sessions, numbers and times,
and any constant and variable fields (`TemplateAsBuiltAnew`).  The invariant
(`LaidOut`) says what the buffer holds between two calls: the head field after
field, with the values of some earlier session, number and length but the last
time, then the constant fields, then anything at all, which is what an earlier
message left; the markers are the places in that head, and the prepared sum was
taken over what is before the length and over the constant fields.  From it an
unparse is followed write by write: each marker changes one field of the head
(`PutLength`, `PutSeqNum`, `PutSender`, `PutTime`), the variable fields cover
what they need of the rest (`WrittenIs`), and the summed parts join to the
message before its checksum.  Assumptions: senders, times and lengths of fields
are numbers.

`ReadBack` follows from the same invariant (`TemplateReadBack`), and from what
`FixWire_proofs` says of the parser: a field that stands as a whole somewhere in
the bytes is read there with its tag and its value (`FieldRead`), so the first
three fields are (`FramedHead`), the checksum is the sum of what is before it
(`FramedSum`), and the rest is read from its end on, since what is read of a
field rests on what is read behind it (`ReadEnd`, `ReadOther`, `ReadText`,
`ReadNumber`).  `ReadTexts` goes through any number of text fields by induction.

## 11. Not modelled

In the FAST codec: messages that ask for a reset, several templates in one
session, garbled bytes, sends that fail after the memory has changed, and the
room in its buffers.  A charset of "unicode" is encoded as if it were not there
(`fast_template.c:45`), and a decimal in two parts does not make a presence map
needed (`fast_template.c:316`).

In the FAST books: several entries in a message, entries of type J, trading
sessions.  A snapshot that `apply_snapshot` passes over (no entries, another
session) is held on to for ever (`fast_book.c:643`).  Two prices that differ by
2^32 ticks share a level (`order_book.c:78`), and a symbol that another begins
with takes its entries (`fast_book.h:126`).

In the FIX programs: the scripted loop of `fix_client.c` and its order loop,
each of which waits for one message type, and the benchmark around the
template.  Resends with PossDupFlag, which nobody in the repository sends.

Soupbin3: `soupbin3_session_recv` takes a length from the buffer and compares it
with the buffer's free room, not with the bytes in it.  As long as every read
brings whole packets there is nothing to model but a queue, and a packet that is
cut by the stream is read past the bytes received; no framing property holds.

Tables from message types to sizes, number formatting, XML templates,
command lines and test harnesses have no behaviour worth a state machine; see
`components` in `PROJECT.json`.

### Checked by TLC and not proved

* Liveness under fairness: a match ends, a session ends (`FixSession`),
  `Drained`, `ClosedLeft`.  The proof system has no rule for it.
* `FixFraming.OnlySent`: what the parser makes of the bytes behind a broken
  message.  The lemmas say what it reads in whole messages, as a whole or in
  part; behind a broken one it may begin anywhere, and the proof would need every
  way in which the rest of one message and the front of the next make a third.
* `FixFraming.NeverStuck`: true of the sizes of the run, not of all.  Messages
  that were cut leave bytes without a delimiter, as many as were cut in a row
  (`MaxBroken`), and enough of them fill any buffer.
* The FAST codec: `FastSession` rests on recursive functions over templates,
  values and bytes, with powers of two in them.  An induction over numbers is
  possible with `WFMin`, as in `FixWire_proofs`, and how far each part is read
  is within its reach; that a decoder undoes an encoder for every operator, is
  not.
