# A verification project for sngrep

sngrep captures SIP traffic, keeps the dialogs it sees, shows them in a curses
interface and, in this fork, serves them over websockets and publishes them to
an AMQP broker. This directory holds TLA+ models of its parts, TLC runs that
check them on small instances, and TLAPS proofs of theorems about all of
them: every safety and action property of a passing run is proved for all values
of the constants, under the assumptions that section 4 names; liveness is only
checked. Paths below are relative to the repository; its code is under `src/`.

`PROJECT.json` lists the components, the runs, the source lines behind every
definition (`map`), one faulty variant per checked property (`mutants`, the
definitions commented "Faulty variant" in the modules), the disagreements found
(`findings`) and what is hard to test in this code (`hazards`).

## 1. The system

Four kinds of threads share its state.

| Thread | Code | Works on | Synchronisation |
|---|---|---|---|
| capture, one per source | `capture.c` `parse_packet` -> `sip.c` `sip_check_packet` | call store, then `on_new_sip_message` / `on_new_rtp_packet` | `capture_lock` around the parse; the limit check is before it |
| interface | `curses/ui_manager.c` `ui_wait_for_input` | call store, groups, panels | `capture_lock` while drawing and while handling a key, not while waiting for one |
| web server | `server.cpp`, one thread with coroutines | sessions, call registry | coroutines interleave where they yield; snapshots come through `sngrep_channel` |
| AMQP | `amqp_publisher.cpp`, one thread with two coroutines | event channel, connection | bounded channel, `running` flags |

The capture thread also reaches into the call registry for every RTP packet
(`state_on_new_rtp_packet`), without any lock.

### Inventory

| Component | State | Operations | Hard behaviour | What makes it correct |
|---|---|---|---|---|
| Call registry (`state.cpp`) | `sip_calls`, `class4_info`, `egress_ingress_map`, three backlogs | snapshot, class4 record, filter, expiry, RTP update | two expiry procedures that hand legs to each other; queries that insert; an unlocked writer | nothing with content leaks, no early eviction, a line received again within ten minutes sends no event |
| Web server (`server.cpp`) | sessions, channel, the multiplexer's iterator | connect, authenticate, subscribe, command, broadcast, periodic update | iteration over sessions that yields; full channel; clients that stop reading | only authenticated clients served, broadcasts reach all, progress |
| AMQP publisher (`amqp_publisher.cpp`) | channel, connection, `running`, `running_flag` | publish, connect, heartbeat, stop | broker failing at any point, stop racing a receive | order, at most once, nothing stays behind, termination |
| Dialog state (`sip_call.c`) | messages, state, CSeq, start and end of the conversation | add a message | lost, repeated, reordered messages | the state shown follows from the messages |
| Call store (`sip.c`) | list, active list, hash table, order, limit | create, rotate, clear, soft clear, sort | limit check outside the lock, locked calls, changing order | hash table and list agree, no dangling pointers |
| Groups (`group.c`) | calls, lock flags, the order of their messages | add, remove, clone; walks over calls, messages, streams | walks that ask for the next item by time | walks end and meet everything |
| Flow panel (`curses/ui_call_flow.c`) | columns, arrows, cursor, first line, marked arrow | draw, move, extend, toggle, select | indices into a vector that the next draw extends; arrows of different heights | arrows keep their order, the cursor is in view |
| Panels (`curses/ui_manager.c`, `ui_*.c`) | stack, data of each panel, dialogs, pause | open, close, pass a key on, select, clear, save, ask | a key that frees calls passes through a stack of panels; dialogs inside handlers | panels hold existing calls, a save does what it reports |
| Display filters (`filter.c`) | expressions, cached verdict per call | set, check, reset | cached verdict, texts that do not compile | the verdict is that of the filters in force on the call as it was checked |
| Vectors, hash table (`vector.c`, `hash.c`) | arrays, buckets | append, insert, remove, clone, copy | sorted insertion | they are sequences and functions |
| Reassembly (`capture.c`, `packet.c`, `sip_validate_packet`) | `ip_reasm`, `tcp_reasm` | reassemble, judge | order, loss and repetition of fragments, segments cut anywhere, sequence wrap | datagrams as sent, streams without loss, whole messages |
| Capture sources (`capture.c`, `main.c`) | sources, threads, lock, pause, output file | start, read, parse, forward, dump, reopen, close | SIGHUP and the end of the program between any two steps of a thread | what is stored is written, the file is never emptied, the end comes |
| HEP (`capture_eep.c`) | sockets | send, receive | lengths in fields of 8 and 16 bits | decoding inverts encoding |
| RTP and media (`rtp.c`, `media.c`, SDP in `sip.c`) | streams of calls | announce, match a packet, report | reused ports, late SDP, formats that change | right stream, counted once and for good |
| Settings, options, keys (`setting.c`, `option.c`, `keybinding.c`, `curses/ui_settings.c`, `ui_column_select.c`) | tables, the user's file | read, bind, edit, save | a save in several steps, two panels that rewrite one file | what is saved is read back, nothing else is lost |
| TLS (`capture_openssl.c`, `capture_gnutls.c`) | connections | handshake, decrypt | interleaved handshakes | not modelled |
| SIP attributes (`sip_msg.c`, `sip_attr.c`), addresses, utilities | none of their own | format, compare | - | not modelled |

## 2. Modules

| Module | Models | Composition |
|---|---|---|
| `ServerState` | `state.cpp` and the handlers of `server.cpp` that call it | - |
| `ServerSessions` | the coroutines of `server.cpp` and the capture thread's sends | the registry appears through its answers |
| `ServerSessions_proofs` | theorems about it | extends `ServerSessions` |
| `AmqpPublisher` | `amqp_publisher.cpp` | implements `LossyFifo` |
| `LossyFifo` | what the publisher promises | abstract specification |
| `Server_proofs` | theorems about `ServerState` and `AmqpPublisher`, and the refinement | extends both |
| `CallStates` | `call_update_state` as operators | used by the next two |
| `CallDialog` | one dialog and its messages | extends `CallStates` |
| `Vectors` | `vector_copy_if`, as an operator | used by `CallStore`, `CallFlow`, `Configuration` and `Panels` |
| `CallStore` | call store, groups, and what the panels do to them | extends `CallStates` and `Vectors` |
| `SequenceLemmas` | lemmas on least elements, recursive functions and sequence operators | extends `Vectors`, used by five of the proof modules |
| `Calls_proofs` | theorems about `CallDialog` and `CallStore` | extends both and `SequenceLemmas` |
| `CallFlow` | the flow panel and the walks over a group | extends `Vectors` |
| `MediaStreams` | SDP, RTP and RTCP: which stream a packet belongs to | - |
| `MediaStreams_proofs` | theorems about `MediaStreams` and `CallFlow` | extends both and `SequenceLemmas` |
| `HepCodec` | HEP versions 2 and 3, as operators | used by the next one |
| `CaptureSources` | the program from its command line to its end: threads, lock, output file | extends `HepCodec` |
| `CaptureSources_proofs` | theorems about it and about the codec | extends `CaptureSources` and `SequenceLemmas` |
| `KeyBindings` | the table of key bindings, as operators | used by the next two |
| `Configuration` | resource files, settings and columns panels | extends `KeyBindings` and `Vectors` |
| `Panels` | the stack of panels, filters, save panel, dialogs | extends `KeyBindings` and `Vectors` |
| `Panels_proofs` | theorems about `Panels` and `Configuration` | extends both and `SequenceLemmas` |
| `SipPayload` | `sip_validate_packet`, as an operator on payloads | used by the next three |
| `IpReassembly` | `capture_packet_reasm_ip` | - |
| `TcpReassembly` | `capture_packet_reasm_tcp` | - |
| `Reassembly` | `parse_packet` down to the payloads it hands on | composes the two |
| `Reassembly_proofs` | theorems about both reassemblies; the composition implements `TcpReassembly` | extends `Reassembly` and `SequenceLemmas` |
| `MC*` | instances for TLC | |

**`ServerState`.** The C++ maps are functions from Call-IDs to a value or
`None`. A handler of the server thread does not yield while it works on the
registry, so it is one action: `UpdateStateFromSngrep`, `DuplicateLine`,
`BadLine`, `CheckFilter`. Each ends with the cleanups that the code ends with
(`CleanupBacklogs`). `time(NULL)` is read twice in a handler, so the clock may
move between (`ReadClockAgain`). A new line of the switch is two actions: after
its cleanups `NewLine` writes to the sessions, which takes as long as they do
(`publishing`), and `PublishLine` sends its events. The server thread does
nothing else between the two (`ServerThreadFree`); clock and capture thread go
on. The capture thread's RTP write is
split at its lookup: `RtpFind`, then `RtpWrite`, or `RtpWriteFreed` if the entry
has gone meanwhile. `IsCallSideFilteredOut` uses `operator[]`, which inserts
(`LookedUp`).

**`ServerSessions`.** `pc[s]` is where `do_session` of websocket `s` stands;
`mux`, `task`, `ws` and `todo` are `do_multiplex`: waiting, working on a
message, or inside an `async_write` with its iterator at `ws`. Every write is a
yield, at which clients connect, authenticate, leave. Erasing the session under
the iterator is undefined behaviour: the loop then goes on to any session, ends
or crashes. A full channel ends the process when the capture thread meets it,
and drops the message of anyone else.

**`AmqpPublisher`.** The thread (`ThreadLoop` ... `WakeUp`), the coroutine that
publishes (`PubCheck`, `PubReceive`, `PublishOk`, `PublishFails`), the heartbeat
(`BeatCheck`, `BeatTimer`), and `stop_amqp` in its two steps (`StopFlag`,
`StopCancel`) followed by the join. A receive cancelled by the stop publishes an
empty message (`Cancelled`), because its error code is not looked at.

**`CallDialog`.** `msgs` is everything captured for a dialog; any message may
come next. `cstart_msg` and `cend_msg` are positions in it.

**`CallStore`.** `call[o]` is the memory of call `o`, `None` once freed; a
pointer is an index, so a dangling pointer is an index whose `call` is `None`.
`Arrive` is the limit check before the lock, `ParseSkipped`, `ParseKnown` and
`ParseNew` are `sip_check_packet` under it. `drawn` is TRUE while the interface
waits for a key. Groups are pairs of memory and calls, as `call_group_add` and
`call_group_del` change both. The flow and the raw panel share one group when
the raw panel is opened over the flow. `options` is what the command line asked
for, chosen once. `managed` becomes FALSE at the first soft
clear, whose new list has neither sorter nor destroyer. `cursor` is a line
number: the list drawn anew may be shorter than that, and then there is no call
under the cursor (`current`) until a key moves it.

**`SipPayload`, `IpReassembly`, `TcpReassembly`, `Reassembly`.** A payload is a
sequence of units of eight bytes, the granularity of IP fragments: the parts of
SIP messages, NUL bytes where a hole was, and bytes read from beyond a frame.
`Validate` is `sip_validate_packet`: a string that ends at the first NUL, the
first line, the first Content-Length, the first empty line. `ReasmIp` keeps
fragments by addresses and identification in the order of their capture, counts
their lengths (`WithFragment`) and, when the count fits, copies them
(`Assemble`), each IPv6 fragment with the eight bytes of its header too many.
`ReasmTcp` joins a segment with what its stream has stored (`Joined`), judges the
result and returns, cuts, drops or keeps it (`Judge`). `ParsePacket` does both in
one step, as `parse_packet` does; a fragmented TCP segment whose first fragment
is missing is read with a header of zeroes (`Segment`). `captured`, `released`
and `last_seq` are history.

**`CallFlow`.** `columns` and `arrows` are the panel's vectors, `cur`, `first`
and `selected` indices into them. `StreamList` has the RTP streams in the order
their SDPs are captured in, and `time` the time of a message's first frame or
of a stream's first packet. `TimesOf` an item are the times it may have, which
need not be later than those of items there already: a message put together
from segments or fragments, cut from a segment, or of another source comes
after later ones. A draw and a key are one action each, as both
hold the lock: `Draw` adds the columns (`DrawColumns`), the missing arrows in
the order of time (`PendingArrows`) and places what fits into the window
(`MessagePlaced`, `StreamPlaced`). A walk that never ends makes `status`
"hung", a column that is followed without being there "crashed". `Receive` is
the capture thread between two of them.

**`MediaStreams`.** `SipMessage` folds `ParseLine` over the lines of an SDP, with
the streams of a medium pending until the next RTP medium or the end;
`RtpPacket` looks for the stream (`rtp_find_stream_format`), completes it or
makes one for another format, and makes the opposite one (`WithReverse`). An
address is a host and a port of 16 bits, and the port of RTCP is the next one
in that width;
`RtcpPacket` reads the reports one after another (`ReadReports`).

**`HepCodec`, `CaptureSources`.** A packet has addresses, a protocol, a type (the
transport it is shown with) and a payload. The type is not sent, and
`ReceiveV2` and `ReceiveV3` set it to UDP, as the receivers do. `via` says how a
packet came to the store. `Main` parses a command line option by option and
starts its sources or ends. A thread then goes `Capture` (or
`CaptureEncapsulated`, `Listen`), `Parse`, `Forward`, `DumpSighup`, `Reopen` or
`NoSighup`, `Write`, `Unlock`; the system calls between are the points at which
it can be cancelled (`Cancel`). `Rotate` renames the output file, `Hangup` is the
signal, `Close`, `CancelNext`, `JoinNext`, `Exit` are `capture_close` in the main
thread.

**`KeyBindings`, `Configuration`.** A panel asks for the actions of a key one after
another (`key_find_action`, `WalkFrom`). `key_unbind_action` removes its
bindings one by one. `Start` reads the files line by line. A column's name may
be written in another case (`OtherCase`): `sip_attr_from_name` finds it, the
columns panel does not.
A save is `Unlink`, `Rename`, `OpenFile` (or `OpenFails`), `WriteFile`, with `Kill`
possible between any two, and after any part of the lines was written.

**`Panels`.** Every key goes to the topmost handler (`PanelKey`), and what it
does not know to the default one. `HandlerStack` is the part of the stack that
survives a key that frees the calls. A dialog is a state in which only its own
actions are enabled, because it runs inside the handler. `seen` and `columns` in
a call record how many messages it had, and which columns the list, when its
verdict was made. `LineText` is the line of a call under given columns, of which
the filter of the list is, and `ColumnsAccept` changes the columns. A packet has
one frame, whose time is its name, or those of `Frames`: several, or some that
it shares with another packet cut from the same segment. A file of `Disk` may be
read-only or not readable.

## 3. Runs

All runs check deadlock except `dialog`, `store` and `reassembly`, where a bounded
number of messages or frames ends the capture and nothing need follow, and
`config` and `panels`, where the program ends.

| Run | Bounds | States | Shows |
|---|---|---|---|
| `serverstate_expiry` | one call, two egress legs, two filters, 4 instants, lifetimes 1 and 2 | 657,551 | only empty entries leak, calls as fresh as their legs, no two published receipts of a line within its lifetime |
| `amqp` | capacity 2, 5 events, 2 failures | 10,363 | refinement of `LossyFifo`, flush across reconnects, termination of a stop that finds the publisher disconnected |
| `sessions` | 2 clients, 1 call, capacity 2, 2 snapshots, with and without authentication | 825,948 | nobody unauthenticated is written to, no lookup throws, broadcasts reach all who stay, every snapshot is worked on or the process has ended |
| `dialog` | every sequence of 5 out of 11 messages | 177,156 | what "call setup", "in call" and "completed" say about the messages |
| `store` | 3 Call-IDs, one related to another and one filtered out, limit 2, 3 calls ever, one source, with and without rotation | 3,416,748 | hash table and list agree; without rotation only existing calls are touched |
| `reassembly` | 5 frames out of three fragmented UDP datagrams, two of one identification, one IPv6, and five TCP segments of one stream with three messages | 49,694 | datagrams put together in any order and never withheld; streams conserved and cut into whole messages |
| `flow` | 2 dialogs, 3 messages, 2 streams, 2 instants, window of 4 lines, one change of settings | 87,442 | arrows keep their order and only earlier messages get in before one, a moved cursor is in view; a draw hangs or follows a missing column only in the two cases of section 5 |
| `media` | 4 messages of 2 dialogs (3 captured), 7 packets (4 captured) | 59,090 | announced media have streams, streams are uniform, flows stay counted, and are shown as two streams in one case only |
| `capture` | 7 command lines, 2 packets per source, 5 datagrams of a peer, one renaming of the output file | 108,028 | relayed packets as captured but for their type, stored packets written, the file never emptied, the close ends |
| `capture_dump` (violation) | as `capture` | - | a thread writes through the dumper that `capture_close` has closed |
| `config` | 3 settings, 3 attributes, 3 user files, 2 edits, 2 saves, 2 starts | 714,906 | lines kept, saved values read back and removed columns as the defaults have them, columns shown as they are, every binding met |
| `panels` | 17 keys, 2 calls, one packet to come, two packets that share a frame, 2 columns, 3 changes by the user, one or two sources | 441,253 | panels hold existing calls, verdicts are those of the filters on the calls as checked, saves are as reported, pause and overwriting of readable files only as asked |

Why the bounds are enough for the cases that matter: lifetimes of 1 and 2 with
a clock to 3 let a leg expire before, with and after its call; capacity 2 with
five events fills the channel, overflows it and drains it across two
reconnects; two clients are one being written to and one coming or going; five
messages contain two complete set-ups; a limit of 2 with three calls rotates
once with and without locks, and the third call can be a leg whose parent has
been rotated; five frames repeat, lose and reorder the fragments of a datagram
of three and mix them with another, and they carry a stream whose messages are
cut in the middle, come two to a segment, and outgrow `MaxSipPayload` (9 units)
and `MaxCaptureLen` (10). Two instants let the first packets of two streams
coincide and a message be earlier than what is drawn already, and four lines hide arrows above and below the window. Four packets
complete a stream, change its format, reverse it and take the reverse over. Two
packets are one written before and one after a reopening, for each source, and
the datagrams have lengths on both sides of 256. Two saves and two starts let
each panel overwrite what the other wrote, and a save begin from the file a
killed one left. Three changes select a call, filter and save, or filter and
change the columns; the frames of one packet lie on both sides of another, which
a file of packets in order cannot show in order of frames.

### Fairness

* `amqp`: weak fairness of the thread's steps, of each coroutine and of the
  heartbeat's timer (asio resumes a coroutine whose operation is complete; the
  timer fires), and of the two remaining steps of `server_thread` once it has
  begun to stop. No fairness for `publish_to_amqp`, `stop_amqp` or failures: the
  broker may always fail or never.
* `sessions`: weak fairness of `do_multiplex` only. It is resumed when its
  write completes or fails; a client that does not read makes the write fail
  after the idle timeout that `timeout::suggested` sets on every websocket. None
  for clients or the capture thread.
* `capture`: once `capture_close` has begun, weak fairness of its steps, of a
  thread that is handling a packet, and of the delivery of a cancellation to a
  thread that waits for packets. None for arrivals, signals or the user.

## 4. Proofs

The theorems hold for all values of the constants that meet the `ASSUME`s of
the module. TLC evaluates every `ASSUME` on the instances it runs.

**`Server_proofs`, the registry.** `TypeCorrect` is inductive as it stands. The others
need that every pairing was reported by a line (`PairsReported`) and assume
`WellFormedLines`: the switch pairs an egress leg with one ingress leg only, and
uses no leg on both sides; section 5 says what happens otherwise. The argument
for `OnlyEmptyEntriesLeak` and `CallsStayFresh` is joint: a leg's unclassified entry may be
dropped only because its call's classified entry is at least as fresh, and that
entry is dropped only together with the data of all the call's legs, in any
order in which expired calls are visited. What the theorem leaves over is exact:
an entry of `class4_info` with nothing in it, of a paired leg, which a filter
inserted. `NoEarlyEviction` and `PublishedOnce` are action properties from the
same invariant; the second one counts from receipt to receipt, and bounds by the
wait for the sessions how much closer two publications can be (section 5).

**`ServerSessions_proofs`.** The invariant `Inv` has one part per reason. A
websocket is in `established_sessions` exactly while its coroutine reads
(`EntryInv`), and with authentication configured everyone in it, and whoever is
being written to, was accepted (`AuthInv`): `AuthorisedOnly`. Whoever queued a
command was reading and can only have ended since (`QueueInv`), so a pointer that
still locks belongs to a session that is still there: `LookupsSucceed`. While a
broadcast is written, everyone it owes a message and has not reached is ahead of
the iterator (`BroadcastInv`), as long as the session under it was not erased:
`BroadcastsReachAll`.

**`Server_proofs`, the publisher.** The inductive invariant is `TypeOK`, `ContextInv`
(which of thread, coroutines and connection can be where together) and
`StopInv` (a cancelled receive exists only after the stop, once). `Refinement`
shows that every step is a step or a stutter of `LossyFifo` under the mapping
pending = the message in hand followed by the channel, delivered = what the
broker confirmed, the empty message left out.

**`Calls_proofs`, the dialog.** The invariant is a chain: a dialog with a state began
with an INVITE (`InviteFirst`); a set-up is pending (`SetupPending`), from which
alone a conversation can begin (`InCallAcknowledged`), from which alone it can
complete (`CompletedSpan`). `States_Step` says once what `call_update_state` can
do to a state; the rest is about positions in a sequence that grows by one.

**`Calls_proofs`, the store.** `HashMatchesList` becomes inductive together with the
types and with `IndexInv`: the list has indices only that were given out, so a
new call is in it once. The lemmas on the operators say that sorting, copying
and joining neither invent nor lose calls (`Sorted`, `CopyIf`, `Joined`), whatever
the order of the list is. `LiveCalls` adds, for a capture without rotation
(`LiveInv`): what the interface holds is in memory (`UiLive`), so are the
relatives of a call (`XcallsLive`), a list that frees its calls has all of them
(`NoStrays`), and a message past the limit check finds room (`RoomLeft`). The last
holds of one capture thread only, which the theorem assumes (`SingleThread`):
with two sources the two limit checks come before either parse, the second parse
rotates, and the property is false.

**`Reassembly_proofs`.** `Conserved` is about every segment there can be. Its
invariant adds to the types and to `StreamConserved` that the sequence number
stored with a packet is the last one captured and not 0, while they rise
(`SeqFollows`): only then does the comparison of `capture_packet_reasm_tcp`
append. `WholeMessages` follows from it and from what `Validate` says of a payload
that is a prefix of a stream. `ImplementsTcp` shows that each step of the
composition is a step or a stutter of `TcpSpec`; for that it needs that a packet
out of IP reassembly, holes and foreign fragments included, is a segment
(`IpTypeCorrect`). `CaptureConserves` and `CaptureWhole` follow.
`NothingIsWithheld` and `AssembledRightly` rest on `CountInv`: while the fragments
kept are of one datagram and none came twice, the captured length is the number
of units they cover, and a packet whose counts agree is too long or has gone. A
datagram all of whose units are counted has every fragment, because fragments
tile it (`TilingAssumption`: side by side, the last one without "more fragments",
as every sender cuts them). `PacketsAssumption` and `UnitsAssumption` say that
`None` and NUL are not packets and parts of messages.

**`CaptureSources_proofs`.** `StoredPacketsWritten` needs that a stored packet
which is not in a file yet belongs to a thread between its parse and its write
(`StoredOnTheWay`), that the listener has written its packet before it is parsed
(`WrittenBefore`), that the dumper is open on a file that exists (`DumperOpen`),
and that there is no file and no packet before the start (`Fresh`). `FilesOnlyGrow` is the action property
from the same invariant: a reopening is of a name that another file has left.
`PacketsRelayed` (`RelayInv`) follows a packet from the datagram to the store,
where it is the one sent but for its type, which is UDP (`AsReceived`); the
lemmas on `HepCodec` are about any packet and password: the chunks written are
found where the reader looks for them (`Sent`, `AllRead`), version 3 inverts
itself (`RoundTrip`), and version 2 does when its total length is a multiple of
256 (`RoundTripV2`). The frame
rebuilt for the output file is claimed for UDP over IPv4, which is what
`BuildFrameData` makes. `PeersAssumption` bounds packets to `MAX_CAPTURE_LEN` and
passwords to 100 octets, and says that peers send what sngrep sends.

**`Panels_proofs`.** `PausedRightly` rests on what a step can do to the stack and
the pause together: keep the stack, open a panel (only the save panel pauses),
close the topmost one (the save panel then gives the pause back to the user), or
keep the part of it that survives a key that frees the calls.
`OverwrittenOnlyWhenAsked` is the action property that a file that can be read
changes only by the answer "Yes" to the question whether to. `LivePanels` (`LiveInv`) needs
more than that the panels hold existing calls: which panel can be under which
(`Nested`: none twice, the flow over the list, the raw panel over flow or list),
because the panels a key clears depend on it; that the data of a panel in the stack
are among the calls and messages there are and that a closed one has none
(`StackLive`); that the lines of the list are calls while it waits for a key
(`ListLive`), since a draw comes between any change and the next key; and that a
dialog is open only over a panel not yet drawn again. It assumes
`ClearKeysAssumption`: a key that frees the calls in the list, the flow or the raw
panel frees them in all three, which is so for every key of the table of
bindings; a binding by which the raw panel alone cleared would leave the
flow under it with freed calls. `VerdictsInForce` (`VerdictInv`) says of a verdict
that it is the one on the messages the call had and the line it showed when it
was made (`Sound`), and
of the list's filter that it is what its text gives (`TextInForce`): the form sets
the filter at every key but resets the verdicts only when the text has changed,
which is enough just because of that.

`SavedRightly` is `SavedAsReported`: the file of a finished save has exactly the
calls or messages the panel said it would, each packet once with all its frames
together, in the order of first frames. The save sorts by inserting each packet
at the time of its first frame (`TimeSorterFacts`, `SortedFacts`), and what it
inserts is a flattening of the vectors of the calls chosen. So the invariant says that a
packet has one place only (`DistinctInv`): the calls, the messages of a call, its
RTP packets and what is still to come are different packets. It is kept because
an arrival is appended to one call, and it needs `PacketsAssumption`, that every
packet has a name of its own. The name of a packet with one frame is its time, so
that of two packets of the very same time one has to be described by `Frames`. `SourceInv` says that the save panel is open only where it
may be (`CanSave`, one source: `SetupsAssumption` has at least one in every set-up)
and that only it asks whether to overwrite. `LiveInv` is used again: a save of the
displayed or the selected calls goes through what the list holds.

**`Panels_proofs`, the configuration.** `ColumnsAsShownHolds` needs that the columns' panel has
an item for each attribute and nothing else (`MenuInv`); the columns it opens on
are those of the list that are spelled as the items are. `LinesKeptHolds` follows the
lines no panel writes through a save (`KeptInv`): up to the renaming they are in
the user's file, from then to the end of the write in the copy, and after one
kill in the copy until the next save unlinks it; nothing is known after a
second. `SavedIsRestoredHolds` says what a file must look like for a value to be read
back from it (`LastSet`: the last line that sets the name has the value), that
the file a panel has written looks so for all it shows and still does for what
the other panel saved before it (`Restores`, `RestoredInv`), that such a file has no
line for another column but one that no save recognises, which was in the user's
file from the start (`Inherited`), and that reading from
the first line to the last ends with that value. `WalkMeetsBindingsHolds` is about
every table that binding and unbinding can make (`TableOK`: each row keeps its
action, with at most five keys, and the last row, whose id is that of the first,
has none). `FilesAssumption`, `SettingsAssumption`,
`ColumnsAssumption` and `ActionsAssumption` say that files are sequences of lines,
that a setting is not named like an option of a column, that there is one
option for each attribute, and that names are given to actions of the table
other than its first and last row.

**`MediaStreams_proofs`, the streams.** `MediaInv` has the types, that only listed calls
have streams, that the streams of a call are good, and that every message of a
dialog that began with an INVITE is served. Streams are good (`GoodStreams`) if
each is uniform, if a later one that counts the flow of an earlier one was made
for the opposite direction, and, which makes this inductive, if of two to one
destination the newer one has packets or was made for the opposite direction:
an SDP announces a destination once. The search goes from the newest stream to
the oldest, so a packet that an older stream could take never starts a new one
that is not so marked. Served means that each RTP medium has a stream to its
address and port unless a line of another protocol took its place; the lines of
an SDP are followed one by one (`Parsed`), and as streams are never removed and
keep their destination, what is served stays so. `CountedForGoodHolds` is the action
property that counts both: a flow counted before is found by the first search,
and the streams that grow are exactly one in one call. `MediaAssumption` gives the
constants their types, `AddressGiven` says that an SDP has a c= line for every
medium, its own or that of the session, and `SourceAssumption` that RTCP does not
come from port 0 (section 5).

**`MediaStreams_proofs`, the flow.** `FlowInv` has the types and, with the properties
`ColumnsFound` and `DrawEnds`, four parts. A message is in the vector of its own
call and has a time (`CaptureInv`). The calls of a group have
messages (`GroupInv`), so that a walk can ask for the first one. The arrows are of
items the panel would draw, in the order of their times (`ArrowsInv`): an arrow
inserted before others is therefore earlier than all of them, and the others
keep their order, which is `ArrowsKeepTheirOrderHolds`. Nothing more can be said of
an index into the vector, since messages come later than their time. A panel that has
been drawn with arrows has a cursor and a first line (`ViewInv`), from which
`CursorInViewHolds` follows by the loop of `call_flow_move` over the shown arrows. The
walks are functions on `0..n` that stop when there is no next item
(`GroupWalkFacts`). A walk to items each strictly later than the one before meets no
item twice, so it cannot be longer than the vector it walks over; a draw that
does not end has therefore met two of the same time (`DrawEndsHolds`). A walk over
the streams that ends has met every stream, because the next one is the
earliest that is not earlier; the walk over the calls takes the first of the
list instead, and `ColumnsFoundHolds` claims only what is left: if it met every
call, the draw made every column it follows, since columns are only added while
one draws. `FlowAssumption` gives the constants their types: no message is a
stream, and the groups are sequences of calls.

**Recursion and induction.** The library's induction theorems cannot be used, so
`SequenceLemmas` proves from well-foundedness that a set of numbers has a least
element (`NatMin`), that what holds at 0 and is kept by every step holds up to n
(`UpTo`, about a set instead of a predicate), and that a function defined by recursion
up to n exists (`RecursiveFunction`), so that the one the model chooses meets its
equation. Folds in the models are written as recursive
functions for that reason.

Proved and not part of a run: the type invariants, `FreshCallsKept` of `ServerState`, `CancelledOnlyWhenStopped` of `AmqpPublisher`
and `ImplementsTcp`.

Only model-checked: liveness (`Flushed`, `StopJoinsWhenDisconnected`,
`EverySnapshotHandled`, `CloseEnds`), which needs fairness and `ENABLED`, out of
the prover's reach. `WrittenWhileOpen` is violated and stays with its run.

## 5. Behaviour worth knowing

The properties state exactly what holds, and some of them name an exception. It
is in each case what the code does:

* An egress leg that is reported again under a second ingress call, after the
  first has expired, keeps its data and is under neither expiry procedure
  (`state.cpp:291`): `OnlyEmptyEntriesLeak` assumes `WellFormedLines`.
* `is_call_side_filtered_out` reads `class4_info[callId]` (`state.cpp:456`), which
  inserts an empty entry for every leg paired with the call. When the call has
  expired and is asked about again, no cleanup removes these entries: they are the
  exception of `DataTracked`.
* A line that keeps being received refreshes its entry in the duplicate filter,
  so its events are not sent again after ten minutes (`server.cpp:542`),
  although the comment beside it says so (`server.cpp:545`). The ten minutes
  are counted from receipt to receipt: the events go out after the writes to the
  sessions (`server.cpp:549-562`), so that two publications can be closer, by what
  the first one waited (`NotPublishedTwice`).
* A snapshot queued before RTP packets were counted overwrites the newer counters
  (`state.cpp:498`), and pairings are never removed from `egress_ingress_map`
  (`state.cpp:774`), so that it only grows.
* A call is appended to `calls.active` only if it is there already
  (`sip.c:431`), so the list stays empty.
* A 400 to an INVITE is not a failure for `call_update_state` (`reqresp > 400`,
  `sip_call.c:221`), and its ACK shows the call as a conversation.
* With rotation, the call under the cursor can be freed between the draw and the
  key that selects it (`ui_call_list.c:698`), and the cursor can be left behind
  the last line, on no call (`ui_call_list.c:360-382`), where the key of the
  extended flow follows a null pointer (`ui_call_list.c:634`): `UiTouchesLiveCalls` is about
  captures without rotation, and `ShowExtended` needs a call under the cursor. With two sources the limit check before the lock
  lets a call be rotated although rotation is off.
* A TCP segment that came in two IP fragments is joined with itself: the frames
  of its packet are walked although its payload is whole already.
* Two streams, or two calls of a group, that began at the very same time are
  each next to the other: the draw of the flow never ends (`group.c:314`). A call
  of a group that is passed by in the walk gives its streams no columns
  (`group.c:173`).
* The time of a message is that of its first frame, so one put together from
  segments or fragments, cut from a segment (`capture.c:847`) or of another source
  is drawn before arrows that are there already (`ui_call_flow.c:1558`). The cursor
  and the mark for a comparison are indices and do not move along, so that they
  then mean other messages.
* The stream made for the opposite direction has no packets, so any sender to
  its destination takes it over, and its own flow is then shown as two streams
  (`rtp.c:371`). A c= line below an m= line of another protocol moves the streams
  of the medium before it (`sip.c:722`). Packets from a new source to an
  announced address that is complete already are not counted. Metrics of an
  extended report are read from its first block.
* Port 0 stands for "any source" in the search for a stream (`rtp.c:422`), so an
  RTCP packet sent from port 0 would be counted in the newest stream to its
  destination, whatever that stream's source: `SourceAssumption` leaves it out.
* HEP version 2 keeps the length of a datagram in one octet in network order, so
  only multiples of 256 survive (`capture_eep.c:344`).
* A packet received by HEP is one of UDP whatever it was (`capture_eep.c:675`,
  `860`): a message of TCP, TLS or WebSocket is stored and shown as one of UDP.
* A capture thread cancelled while it holds the lock leaves it locked, and
  `capture_close` waits for ever for the next one (`capture.c:1029`).
* Saving settings drops "set" lines of settings the panel does not show. A save
  that is killed leaves the old file beside the new one, and the next save
  removes it (`ui_settings.c:494`). In a directory that cannot be changed the
  save does not notice.
* A column that was removed and the layout saved is back at the next start if
  it is one of the defaults or of the system's file: only ticked columns are
  written, and `init_options` sets the others (`option.c:66-73`).
  A column spelled in another case is in the list and not in the panel
  (`sip_attr.c:113`, `ui_column_select.c:104`), so that accepting
  the panel drops it.
* The verdict of the filters on a call is kept until a filter changes, whatever
  messages the call gets and columns the list has since (`filter.c:130`): with a
  filter on the displayed line and other columns accepted, a call is shown whose
  line does not match it.
* A file is asked about before it is overwritten if it can be read
  (`ui_save.c:455`): one that can only be written is emptied
  without a question.
* A saved pcap file has the frames of a packet together (`capture.c:1456`), so it
  is not in the order of time where the frames of two packets interleave (the
  code has a TODO for it, `capture.c:1286`). Packets cut from one segment have
  its frames each (`packet.c:62`), and these are written once for each packet.
* Closing the save panel resumes the capture even if the user had paused it
  before (`ui_save.c:198`).
* From the 23rd row on, an action's id is one ahead of its row, so a search that
  goes on from an id can step over the next row (`keybinding.c:171`).

### What the models leave out

* JSON, formatting, logging, colours, layout; the content of the updates
  (`prepare_sngrep_update`, `gather_leg_fields`, `is_call_active`).
* Parsing of SIP payloads other than SDP: a message is its Call-ID, method or
  response code, CSeq, and whether it matches the expression of the command line.
  A call names the same X-Call-ID in every message and never itself.
* The bytes of concurrent writes to one websocket (`server.cpp:558`), and torn
  reads of a call while the capture thread writes its RTP counters.
* `key_from_str`: a key of a binding is its name.
* Names of options in another case (`set CL.COLUMN0`): an option is one of the
  table or none of them.
* The width of the window, which cuts the line of a call (a resize changes what
  the list's filter matches), and what the other settings change in the panels
  while they run: `rtp` and `exitprompt` are those of the start in `Panels`.
* `capture.storage none`, where the frames of a packet have no data left and a
  saved pcap file has none to write (`capture.c:465`).
* That a save to a pcap file makes its name the one SIGHUP reopens
  (`capture.c:1402`): the output file in `CaptureSources` keeps its own name.
* The display filter is fixed in `CallStore` (`Panels` changes it), autoscroll is
  a move of the cursor, and a key on a freed call that would read through it
  (`ShowExtended`) is not followed further. Reuse of freed memory by a new call
  at the same address.
* Link-layer headers (VLAN, NFLOG), IP-in-IP tunnels, truncated IP headers and
  IPv6 extension headers other than the fragment header, and a fragment header on
  a whole datagram; lengths that are not a multiple of eight bytes; WebSocket
  framing. A message whose first line, Content-Length and empty line are cut
  inside a unit, and bodies that contain an empty line.
* TLS: key derivation and decryption are library code on bytes that a model
  checker cannot enumerate, and the handshake alone decides nothing a property
  could be about.
* SIP attributes, addresses, utilities: pure accessors and formatting.
* The numbers of the statistics panel, the drawing of differences, the focus
  inside a form (any field may have it), the filters on addresses and parties.
* Allocation failure.

## 6. What could follow

1. A composition of capture, channel and registry: a snapshot taken under the
   lock, queued, and applied after the call has been freed.
2. `vector.c` and `hash.c` as arrays and buckets refining the sequences and
   functions used here, and the WebSocket framing of `capture.c`.
3. Saving with `capture.storage none`, and the output file after a save has taken
   its name.
4. `LiveCalls` for more than one source, with the lock taken before the limit
   check, to show that this order is all that is missing.
