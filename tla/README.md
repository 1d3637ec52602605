# TLA+ models of the Minnow networking stack

The repository is a user-space TCP over IP over Ethernet: a `ByteStream`, a `Reassembler`, a
`TCPSender` and a `TCPReceiver` (`src/`), joined by `TCPPeer` and driven by a socket with a thread
and an event loop (`util/`), above a `NetworkInterface` (ARP) and a `Router`, with programs around
it (`apps/`).  This directory holds TLA+ modules of the stack from the streams to the octets on the
wire, TLC configurations that check them, and proofs for the TLA+ proof system.

## 1. Inventory

| Component | State | Operations | Hard behaviour | What makes it correct |
|---|---|---|---|---|
| ByteStream (`src/byte_stream.*`) | queue of strings, three counters, closed, error | push, close, set_error; peek, pop, read | strings cut at both ends, capacity, counters beside the queue | a bounded FIFO: every byte out once, in order |
| Reassembler (`src/reassembler.*`) | sorted list of substrings, byte count, end seen | insert | overlap of any shape, window cuts, when to close | list = set of bytes that arrived in the window; closes exactly at the end |
| Wrap32 (`src/wrapping_integers.*`) | none | wrap, unwrap | distances of 2^31, checkpoints below 2^31 | unwrap returns the closest number |
| TCPReceiver (`src/tcp_receiver.*`) | `isn_` | receive, send | wrapped numbers, repeated SYN, segments outside the window | every payload in its place; window and ackno are promises |
| TCPSender (`src/tcp_sender.*`) | SYN/FIN sent, window, two counters, two queues, timer | push, maybe_send, receive, tick | partial, old and impossible acknowledgments, zero window, FIN that does not fit, backoff | outstanding queue = unacknowledged numbers; window respected; oldest is retransmitted |
| TCPPeer (`util/tcp_peer.hh`) | a sender, a receiver, a reassembler, two streams, `need_send_` | receive, maybe_send, push, tick, active | loss, duplication, reordering, delay; when a peer is done | delivered = sent; acknowledged => delivered; nobody leaves early; everything arrives |
| TCPMinnowSocket (`util/tcp_minnow_socket.*`) | the peer, outgoing segments, shutdown flags, `_abort`, a pair of sockets, a thread | four rules, connect, listen_and_accept, wait_until_closed, destructor | application, network and timer interleave; cancelled rules; the owner's thread and the TCP thread share the pair | the same, for every order of events; both threads come to an end |
| EventLoop (`util/eventloop.*`) | rules | wait_next_event, cancel | rules cancelled while polled, poll results that are out of date, busy waits | every interested ready rule is served; no exception without an error |
| Descriptors (`util/file_descriptor.*`, `socket.*`) | eof, closed, read and write counts | read, write, shutdown, close | a direction shut by the other end, SIGPIPE | no write meets a direction that is shut |
| NetworkInterface (`src/network_interface.*`) | ARP table with ages, waiting datagrams, ready frames | send_datagram, recv_frame, tick, maybe_send | replies race with timeouts and expiry | a frame goes to its next hop, nothing waits for an address that is known, requests are spaced |
| Router (`src/router.*`) | routing table, interfaces | add_route, route | prefix lengths 0 and 32, TTL | longest prefix match; TTL never wraps |
| Adapters (`util/tcp_over_ip.*`, `tuntap_adapter.*`, `fd_adapter.hh`, `lossy_fd_adapter.hh`) | source, destination, listening | read, write, tick | whose segment is taken; a first frame nobody needs | TCP gets what its one peer sent to it |
| Wire formats (`util/parser.hh`, `checksum.hh`, headers) | none | parse, serialize, compute_checksum | odd lengths, buffers of a datagram, damage, lengths that disagree | what is read is what was written, or nothing |
| Applications (`apps/`) | two copy buffers, flags | bidirectional_stream_copy; tcp_ipv4, endtoend | both directions end in any order, outputs that fail | a program that ends well has passed on all bytes and both ends |

How they interact: an event of the socket's loop (a segment, bytes or the end of the application's
stream, a tick) runs one handler to its end, `collect_segments` included; between two handlers of
one peer, the other peer's and the network's steps may come.  `Connection` is about that.  A program
has two such loops in two threads, which share the pair of sockets and `_abort`; a loop sees the
descriptors when it polls and works on them afterwards, and the other thread may step in between.
`Program` is about that.  Frames between interfaces are independent of both: `Network`, and the octets in them:
`Wire`.

`PROJECT.json` lists the hazards of this code with the properties that watch them.

## 2. Modules

State views, which several modules share:

* `StreamState` - a ByteStream as counters and flags; a byte is its index in the stream.
* `AssemblyState` - a Reassembler as the set of bytes it holds.
* `SenderState` - the TCPSender's record and its operations as functions; the `while` loops of `push`
  and `receive` in closed form.
* `ReceiverState` - what a TCPReceiver makes of sequence numbers.
* `PeerState` - a TCPPeer as functions of one record; `collect_segments`.
* `Wrap32` - `wrap` and `unwrap` for any even modulus `M` (2^32 in the code).
* `InterfaceState`, `RouterState` - a NetworkInterface and a routing table with their operations.
* `Descriptors` - the pair of sockets, standard input and output, and what `FileDescriptor` does with
  them; the kernel's side is external.
* `WireFormat` - `Serializer`, `Parser`, the checksum, and the Ethernet, ARP, IPv4 and TCP headers as
  functions from and to sequences of octets.

Specifications:

* `Stream` is the abstract bounded FIFO; **`ByteStream`** has the queue of strings.  Action names are
  those of `Writer`, `Reader` and `read`.  `MCByteStream` runs the loops of `pop` and `read` step by
  step and compares.
* `Assembly` is reassembly over sets; **`Reassembler`** has the list, and `insert` is the whole C++
  function: cut, direct push, placing, trimming pass, flushing pass, close.  `Substrings` says which
  substrings exist.  Both specifications keep a history `overtook`: a last substring was accepted
  while the last byte was missing.  It marks the one case in which the code closes too early
  (section 5), so that everything else can be stated exactly.
* **`TCPReceiver`**: `receive_message` is `TCPReceiver::receive`, with the three outcomes `ignore`, `discard` and
  `insert`.  (Its names differ from those of `TCPSender`, so that one module can prove both.)
* **`TCPSender`**: one action per method, and the RTOTimer.  `MCTCPSender` runs the loops of `push` and
  `receive` statement by statement, one operator per round.
* **`Connection`**: two `PeerState` records and a network.  Actions are the handlers of the socket:
  `connect`; rule 1 `deliver` and `reset`; rule 2 `write`, `shutdown` and its `cancel` callback; rule 3
  `read`; the tick of `_tcp_loop`, with (`tick_expired`) or without (`tick`) an expired timer.  Rule 4
  only hands segments over and is part of the network's delay.
* **`Network`**: hosts with an adapter over a NetworkInterface and routers with several, on Ethernet
  segments.  `write` is an adapter's write, `receive` and `receive_nothing` its read, `forward`, `drop` and
  `hear` what the router's loop does with a frame (`recv_frame` and then `route`), `add_route` its set-up,
  and `tick` the passing of time at one node.  A frame becomes one copy per interface that may hear
  it, each delivered once, at any time, or never.
* **`Program`**: `tcp_ipv4` or `endtoend` around a socket.  `EventLoop` is `wait_next_event`, a walk over the
  rules before the call of `poll` and one after it, with its rules as parameters; `SocketRules` and
  `CopyRules` give it the four rules of the socket and the four of `bidirectional_stream_copy`.  For
  either loop `poll` and `serve` are two actions; set-up of the next turn belongs to `serve`, since
  nothing that matters happens between them.  Around the loops: `connect` and `listen_and_accept` (the
  program runs the socket's loop itself), `wait_until_closed`, `destroy` (after an exception), `join` and
  `tcp_main_ends`.  Of the peer, `SocketRules` keeps only what decides how the loops run.
* **`Wire`**: one message is written by an adapter, crosses a TUN device, a segment or a router, may be
  damaged on the way, and is read by another adapter.  `MCNetwork` and `MCWire` hold the addresses, routes
  and messages of the runs.

Each reusable view is shown to be what the code does at the level where it is detailed: `ByteStream`
implements `Stream`, whose steps are those of `StreamState`; `Reassembler` implements `Assembly`, whose
steps are those of `AssemblyState`; `LoopsMatch` says that the loops do what `SenderState` says.  All
three are proved (section 6).  `WireFormat` is the octets behind the whole frames, datagrams and
segments of `Network` and `Connection`: `ReadsWhatWasWritten`, proved too, is why those may be values.

Operators marked "Mutant" are plausible mistakes in the definition that follows them; nothing uses
them.  Putting one in place of the definition breaks the property that PROJECT.json names beside it.

## 3. Runs

| Run | Shows |
|---|---|
| bytestream | the queue of strings and its counters are a bounded FIFO, loops and all |
| reassembler | the list is sorted, disjoint and counted, loses nothing, closes when complete, and implements reassembly over sets |
| reassembler_close | *violation*: an empty last substring that overtakes the bytes before it closes the stream without them |
| receiver | payloads in place across the wrap, the window is kept open, acknowledgments and right edge never go back |
| sender | queues, counters, timer and stream agree; window respected; the oldest message is retransmitted under any acknowledgments |
| connection | whatever segment arrives, its payload goes to its own place; acknowledged is delivered, but for the one number of an early close; otherwise a close is complete, and a peer leaves when both streams are |
| connection_liveness | everything written arrives, and so does the end |
| connection_window | *violation*: data beyond the receiver's window after an old acknowledgment |
| connection_end | *violation*: a peer retransmits for ever to one that has left |
| network | frames go to their next hop, nothing waits for a known address, requests are spaced, a datagram is in one place at a time and arrives as sent; the router takes the longest prefix that agrees, where no route has bits below its length |
| program | no busy wait, no write to a direction that is shut; nothing pushed after a close; a good end has passed on everything; both threads end |
| wire | what is read is what was written, or nothing |

Bounds, and why they are enough:

* bytestream: capacity 4, strings of up to 3, pushes until 6 bytes: strings that fit, half fit and do
  not fit, pops inside and across strings.
* reassembler: capacity 6, stream of 7: up to three separate held substrings, overlaps of every
  shape, and a window that ends before the stream does.
* reassembler_close: capacity 4, stream of 3: the window holds all of the stream and a FIN, so nothing
  is cut, and what closes early can only be a last substring that comes out of order.
* receiver: modulus 8, stream of 12, zero point 6: the sequence numbers wrap twice.  `Recent` keeps
  segments within half a modulus of the stream, which is what 32-bit numbers need and nothing in the
  code enforces.  The window is capped at 3 (UINT16_MAX), below the capacity 4.
* sender: modulus 16 and ISN 13 (it wraps), payloads of at most 2, 4 bytes, windows 0, 2 and 5 (closed,
  smaller and larger than the payloads), every acknowledgment number at any time, one retransmission
  in a row (`MaxRetx`), `InitialRTO` 2.  `MaxTime`, the initial timeout doubled `MaxRetx` times, stops idle
  time where it makes no difference.
* connection: the client sends two bytes and a FIN, the server a FIN; window 3, so that a byte, its
  successor and the FIN can be in the network together; two segments held for the server and one for
  the client.  A segment stays when it is delivered (duplication, delay, reordering) and is lost when
  others take its place.  Resets arrive at the client.  Both ISNs wrap.
* connection_liveness: one segment held per peer and a window of one byte, which is closed after
  every byte and makes the FIN wait.
* network: two clients and a router's `west` on one segment, a server and its `east` on another,
  4-bit addresses, two datagrams, both ages one unit (so a pending request and a mapping each live
  for the unit in which they were made and one more), and two units of time at the router, which has
  the tables that both segments fill; so a datagram can wait, its request expire, be repeated and be
  answered while a second one overtakes it.  Six routes are added in any order: lengths 0 and
  all bits, equal lengths, and one with a bit below its length.
* program: every stream and the pair of sockets hold one byte (the inbound stream of TCP two), the other
  peer's window is one, one byte is typed and two arrive: every buffer is full at some time and the
  second byte has to wait for the first at every place.  A client reads a pipe and a server a file,
  for which `poll` is always ready.  A reset may arrive, or standard output may fail (no reader, or
  no space), but not both.
* wire: five segments with payloads of odd and even length and numbers at the wrap, two ARP
  messages, three ways; of every octet, each bit is flipped or all are, or the frame is cut
  anywhere, or up to three zeros follow it.  Some segments on the TUN device carry the options of a
  kernel's TCP.

`CHECK_DEADLOCK FALSE` where the system really stops: a connection is over when both peers are
inactive, a program when it has ended, and a network or a wire has nothing to do when all datagrams
of the bound are through.

## 4. Fairness

* `TCPSender`: weak fairness of `maybe_send` and `tick`: `_tcp_loop` wakes up at least every `TCP_TICK_MS`
  and collects the segments.
* `Connection`: weak fairness of `connect`, of `read` (an application that reads; not required once it
  is gone) and of `tick`; strong fairness of a retransmission whose segments the network keeps
  (`tick_kept`), of the delivery of the other peer's oldest outstanding message and of its current
  acknowledgment.  This is the usual assumption about a lossy network: what is repeated again and
  again gets through.  Nothing is assumed about writes, shutdowns, resets or new messages.
* `Program`: weak fairness of each thread, of the other peer (it goes on sending and acknowledging) and of
  the end of standard input.  The threads' fairness is written as "infinitely often it cannot step,
  or infinitely often it steps", with what enables it spelled out (`TcpCanStep`, `MainCanStep`), because
  TLC is slow at ENABLED of the loops' walks.  Nothing is assumed about typing, resets and failures.

## 5. Where the code and what is said about it differ

With a run:

* `reassembler.cc:17` and `:72`: the end mark is kept wherever the substring begins, and the stream is
  closed as soon as the list is empty.  So a last substring without data (a FIN that is sent
  alone) closes the stream when it comes before bytes that are not held yet: reordering is enough, and
  this is what the run shows.  A last substring whose tail `data.resize` cuts (`:14`) does the same
  (with capacity 2 the property fails on that).  The ackno counts the close, so the sender forgets one
  byte that nobody has.  The history `overtook` marks these cases: `ClosedWhenComplete`,
  `ClosedIsComplete`, `CleanEndIsComplete` and `EverythingArrives` except them, and `AckedIsDelivered` allows
  for exactly the one byte.
* `tcp_sender.cc:84`: an old acknowledgment is not ignored: its window is taken over.
* `tcp_minnow_socket.cc:47`, `tcp_peer.hh:34`: retransmissions are counted but never limited, and a peer
  does not linger, so a lost last acknowledgment leaves the other peer retransmitting for ever.

Met while modelling, without a run; where a property would fail on one of these, its premise names
the case:

* `tcp_sender.cc:118`: the timer counts idle time, so the first message after it is sent twice.
* `tcp_minnow_socket.cc:139`: the cancel callback of rule 2 closes the outbound stream without a push.
  If the peer thereby becomes inactive, it never sends its FIN.  (`CleanEndIsComplete` and
  `EverythingArrives` except it.)
* `tcp_minnow_socket.cc:154-162`: after a reset with two strings still buffered, rule 3 shuts the pair and
  then writes the second: SIGPIPE ends the program.  `tcp_minnow_socket.cc:296`: an owner that polled
  before the thread shut the pair writes after it, with the same end.  Both only after a reset
  (`DiesOnlyOfAnError` excepts resets).
* `tcp_minnow_socket.hh:70-71` warns that `wait_until_closed` waits for ever if bytes are left to be read;
  `tcp_ipv4.cc` and `endtoend.cc` call it also when standard output has lost its reader, and then hang if
  more has arrived than the buffers hold (`Terminates` excepts it).
* `tcp_minnow_socket.hh:80`, `:126-127` say that the destructor sends a RST; it ends the thread without one.
* `bidirectional_stream_copy.cc`: after a hang-up the rule that fills the outbound buffer goes on pushing
  to a stream that is closed (`NothingAfterClose` excepts what comes after a disturbance).
* `file_descriptor.cc:91-94`: a read that would block returns with the buffer not resized.  The
  descriptors in these programs are polled first, so it is not reached there.
* The busy-wait detection counts reads and writes in a `FileDescriptor` that both threads use, without a lock.
  A HUP on a rule that only waits makes `poll` return at once, unnoticed.
* `network_interface.cc:94-99`: a pending request counts as an entry when waiting datagrams are flushed,
  so any other frame sends them to the broadcast address, where nobody takes them
  (`FramesGoToTheirNextHop` allows it).  Datagrams for a pending hop are dropped (`:29`),
  where `writeups/check4.md:13` has them wait for the reply to the first request.
* `router.cc:44-48` shifts the destination and compares it with the prefix as given: a route with bits
  below its length never matches.  `router.cc:8-10` says that only the high-order bits have to, and
  `tests/router.cc:200` adds 128.30.76.255/16, which therefore routes nothing.  (`PicksTheLongestPrefix`
  says nothing of an address that agrees with such a route.)
* `endtoend.cc:288-289` ages the router's tables 10 ms per event, however much time has passed.
* `tcp_over_ip.cc`: a listening adapter takes a segment for any destination address.
* IPv4 payloads are not trimmed to the length in the header, so padding of a short frame is
  delivered as payload, and octets cut from the end go unnoticed where no sum sees them; a header
  with options is skipped in parsing but never passes the checksum; the reserved flag bit is lost,
  and a TCP data offset beyond the segment is accepted.  A segment with options that is cut within
  them may be read without them and without its payload, if what is missing adds up to nothing.
  `ReadsWhatWasWritten` compares payloads up to what the sums protect, and says what they do not.

## 6. Proofs

For every value of the constants that satisfies the named assumptions:

* `Wrap32Proofs`: `unwrap` undoes `wrap` within half a modulus of the checkpoint, always returns a number
  that wraps to its argument, and the closest one.  Only `ModulusAssumption`.
* `ByteStreamProofs`: `TypeOK`, `BufferIsUnread`, `OutIsARun`, and the refinement of `Stream`.  The inductive
  invariant is their conjunction: that a pop takes whole strings and a piece of the next needs the
  strings to follow each other without a gap, and their sum to be the counter.  From it,
  `PopAndReadFollowTheLoops`: after each round of `pop`'s loop the queue is the old one behind its
  first strings (`PopLoopPops`); a round of `read` that is not the last calls that loop on a whole string
  (`ReadRoundWhole`), the last on what it cuts (`ReadRoundLast`), and any later one changes nothing.
* `ReassemblerProofs`: the list of substrings is always sorted, apart, ahead of the output and counted
  (`ListIsNormal`), loses nothing (`NothingLost`), holds nothing outside the window (`AlwaysInWindow`: list
  and stream together never exceed the capacity), closes when complete (`ClosedWhenComplete`), and
  implements `Assembly`, whatever the capacity, the stream and the order of the substrings.  The
  inductive invariant says that the entries are apart pair by pair, beyond the gap and inside the
  window, that the count is their number of bytes, and that the stream and the list together are
  what has arrived.  `insert` is two recursive passes over a list, and each has a loop invariant:
  while trimming, the entries behind are apart and hold the same bytes, and only the new substring
  may overlap what is ahead (`Trimmed`); while flushing, what is written grows with what is taken out,
  and whatever is left lies beyond a gap (`Flushed`).
* `TCPProofs`, of the sender: `TypeOK`, `OutstandingIsUnacked`, `MessagesFollowStream`, `ReadyIsAccountedFor` are
  inductive together: an acknowledgment pops the right messages only if their sequence numbers
  unwrap to their places, which needs the messages to follow the stream, the counts to be one SYN,
  the bytes and one FIN, and the window to be less than half the modulus (`SenderAssumption`; in the
  code 2^16 against 2^31).  From it follow `WindowAndAcksRespected` and `LoopsMatch`: from any
  reachable state, after k rounds `push` has sent the first k messages of the closed form (`Midway`) and
  the round after the last leaves the loop; `receive` has popped the first k outstanding messages.
  `BackoffFollowsRetransmissions` has an invariant of its own, `TimerInv`: the timeout is a doubling, and
  no more often doubled than counted.

  Of the receiver: `ReceiverTypeOK` and `EveryByteInPlace` with the bound on what is held; every payload
  lands in its place because its absolute number is less than half a modulus away from the
  checkpoint (`UnwrapWrap`).  From them follow `WindowIsHonoured` and `PromisesAreKept`.
* `ConnectionProofs`: all five invariants of `Connection`, over any network: `TypeOK`, `DeliveredWasSent`,
  `AckedIsDelivered`, `ClosedIsComplete`, `CleanEndIsComplete`.  The invariant `ConnectionOK` says of each peer
  that the sender's numbers follow its stream, that every message it keeps carries the number of its
  bytes, and that the outstanding ones follow each other without a gap up to the last number sent;
  of every segment in the network that it holds such a message and acknowledges no more than its
  sender had received; of each direction that the receiver has no more than the sender has sent,
  and that the sender takes no more for acknowledged than the receiver has, a close counting as one
  number.  That a close is complete needs that no FIN overtook the last byte (`overtook`), and so do
  `ClosedIsComplete` and `CleanEndIsComplete`.  The chain of
  outstanding messages is what makes the count in flight tell the acknowledged number.  Since the
  network may keep a segment for ever, the streams must be shorter than half of the sequence
  numbers (`ShortStreams`); `UnwrapWrap` then puts every payload and every acknowledgment in its place,
  which is what `DeliveredWasSent` says of the payloads (`PutInPlace`).
* `NetworkProofs`: for any hosts, routers, routes and segments (`NetworkAssumption`: no two
  interfaces share an address; `AgesAssumption`).  `StateOK`, the types with what frames owe to their
  senders, gives `TypeOK`; with the one conjunct that no known address is waited for it gives
  `NothingWaitsForAKnownAddress`.  `AsksAreSpaced` needs that every request of the last five seconds is still in
  the table or has been answered; `FramesGoToTheirNextHop` needs that every mapping and every ARP
  message tells the truth, and that a datagram waits under its own next hop, which an unchanging
  routing table keeps (routes are added before any datagram is sent).

  `PicksTheLongestPrefix`: the search of the table is a recursive function whose value after k
  entries is the best of the first k; that shifting two addresses right and comparing them is to
  compare their leading bits goes by the powers of two, position by position.  `OnePlaceAtATime`:
  of a datagram that was sent, waiting, on its way and arrived are sets of at most one element, two
  of them empty (`PlacesOK`), and of one not yet sent all are; the step that takes a frame is the one
  that puts its datagram elsewhere.  `ArrivesAsSent` is about the topology of the run, one router on
  every way (`OneRouterTakesOne`); with any number of routers a datagram still arrives at its
  addressee, from its one peer, altered in nothing but its time to live (`NothingIsAltered`).
* `ProgramProofs`: the four properties of `Program` that are not liveness (`TypeOK`, `DiesOnlyOfAnError`,
  `CleanEnd`, `NothingAfterClose`), for every capacity, window and number of bytes, and every
  interleaving of the two threads.  The inductive invariant has three parts.

  *Accounts* (`WayOut`, `WayIn`): a byte is in one place between standard input and the other peer, and
  each direction of a descriptor is shut only behind the last byte of what feeds it.

  *What poll found is still so* (`TcpFresh`, `CopyFresh`; `TcpAsked`, `CopyAsked` for what made a rule
  interested).  A thread may serve what it polled long after the other has read, written or shut
  the pair.  It is harmless because each thread changes the pair in the other's favour only, until
  both are done: the copy loop can add bytes or the end to what the TCP thread is to read, and
  take bytes from what it is to write (`CopySide`, and `TcpSide` the other way round); `TcpStays` and
  `CopyStays` say that what the other side polled survives that.

  *A loop is left only when its work is done* (`TcpDone`, `CopyDone`): a rule is erased only when the
  stream it serves is finished (`TcpRulesLeft`, `CopyRulesLeft`), and a loop in which no rule is
  interested and no segment is outstanding has nothing left to pass on.  So the shutdown of both
  directions by the thread (`tcp_minnow_socket.cc:296`) and by `wait_until_closed` cuts nothing off, and
  `CleanEnd` follows.

  The accounts, and that the loops are left with their work done, hold while the run is `Undisturbed`
  (no reset, standard output writable); types, capacities (`Base`) and what poll found, always.  A turn of
  a loop is a walk over the rules: what comes of it is some rules cancelled, then at most one served
  that poll found ready (`TcpServes`, `CopyServes`), so that the callbacks can be taken one by one.

* `WireProofs`: `ReadsWhatWasWritten` of `Wire`, for all segments of at most `MAX_PAYLOAD_SIZE` octets of
  payload, all ARP messages, addresses, ports, options and amounts of padding
  (`WireAssumption`: every field has its width).  The octets are never enumerated:

  *Strings.*  A `Parser` over any list of buffers, empty ones and all, stands for one string, and
  taking integers from it is reading them at their offsets (`IntegersAre`); a `Serializer` puts each
  integer where those offsets say (`SerializedIs`).  The sum of `checksum.hh` is the sum of the octets,
  every other one times 256 (`WeightOneOff`, `WeightJoin`); folding it ends, at its rest modulo 65535,
  with 0 only for 0 (`FoldedFacts`).  So a sum sees every change of one octet (`OneOctet`).

  *Formats.*  What each `serialize` writes and what each `parse` makes of any string: `HeaderWritten`,
  `DatagramRead`, `DamagedHeader` for IPv4, `SegmentWritten` and `SegmentRead` for TCP, `ARPWritten` and `ARPHeard`,
  `FrameWritten` and `FrameRead`.

  *Misfortunes.*  `DatagramSuffered` says what an adapter reads of a datagram that was damaged in one octet,
  cut short or padded.  Damage may hit the field that says where the payload begins, but then
  some sum notices; of a datagram cut short only the sum of what is missing decides.

  *The way.*  The property speaks of what was read.  Inductive it is together with what is on the way
  until then (`IInv`): octets that are those of the message that was sent (`Intact`: the frame's
  address and type, the header with a checksum that is right, the segment with its own), after at
  most one misfortune.  `Router::route` changes the time to live and computes the header's checksum again, which
  the pseudo header of TCP does not cover (`CarriesForwarded`), so a message is intact behind it, and
  one that has suffered before it is the same misfortune behind it.

The steps are laid out one per action, and under it one per conjunct that the action disturbs.  A
recursive function over 0 .. n is reasoned about by the set of arguments at which a statement holds
(`Climb`), since the library's induction takes an operator; the same gives its existence.

Only model-checked: liveness (`OldestIsRetransmitted`, `EverythingArrives`, `Terminates`: fairness and
ENABLED are out of the prover's reach).  Every invariant and action property of a passing run is proved.

## 7. Not modelled

* Payload bytes are indices or counts, except in `Wire`; the formatting of headers and addresses,
  logging, and the parsing of arguments are left out.
* System calls that only hand a value over (`Address`, `Socket::bind` and its options, TUN set-up), `random`
  and the exception classes: one call each, no state of their own.
* In `EventLoop`: rules without a descriptor, `RuleHandle::cancel` and rules that recover from an error.  No
  program of the repository has them.
* `webget`, `tcp_native` and `iptest` call one operation after the other on kernel or modelled sockets.
* The queue of `AsyncNetworkInterface` beyond one datagram: `endtoend.cc:235` and `:279` route after every
  frame.  (The unit tests route once for several frames, of which `route` takes one per interface.)
* The time a timeout takes is in `TCPSender` only; in `Connection` a timer may expire at any tick.

## 8. Plan

Done: every component with logic of its own, and theorems for all invariants and action properties.
Worth adding: a Router with several waiting datagrams per interface, if a program comes to use one;
three hosts that speak TCP over `Network` rather than `Connection`'s network; an Ethernet frame or a
datagram that suffers more than once.
