# Verification of ubeacon_driver

A TLA+ model of the uBeacon serial driver (the C library in `src/src` and
`src/include`) and of the host programs built on it (`src/app`), checked with
TLC on small instances and proved in part with TLAPS. Paths below are relative
to the repository's `src/` unless a module is named.

- Run a check: `tlc -config X.cfg MCmodule.tla`; `PROJECT.json` lists the runs,
  what each is for, a mutation of the code that each property catches, and the
  source lines that each definition stands for.
- Check a proof: `tlapm FrameBufferProofs.tla`, and so for the other six modules
  named `*Proofs` and for `InductionFacts` (see *Proofs*).

## 1. The system

A device (tag, anchor, gateway) and a host exchange **messages** (an id and a
packed struct), several of which travel in one **frame** (SOF, 16-bit payload
size, payload, checksum) on a serial line. The same C library serves both sides;
the host programs add a serial port run by asio, the monitor a terminal interface
on a second thread and a 3D scene for Foxglove, and the ROS converters a thread
that spins a node's topics.

    app/monitor, app/writer, ROS converters      threads, console, screen
        |  main_common_send_msg      ^ on_frame_begin / _msg / _end
        v                            |
    ub_prepare_msg_to_dev        ub_parser_from_dev_handle_data
        |  tables, to_raw            ^ tables, from_raw
        v                            |
    frame builder                frame buffer -> frame parser
        |                            ^
        v                            |
    serial_try_send_data -> SerialPort (asio loop) <-> line <-> device

### Inventory

| Component | Source | State | Operations | What makes it correct |
|---|---|---|---|---|
| Frame receive | `src/ubeacon_frame.c`, `src/ubeacon_checksum.h` | byte array with a begin and an end index | `ub_frame_buffer_feed` | every frame of the stream is delivered once, in order, whatever the chunks and the noise; no stall longer than a frame |
| Frame build | `src/ubeacon_frame.c`, `src/ubeacon_msg.h`, `src/ubeacon_driver.c:624-722` | the caller's memory; the payload size field is the progress | begin, try_append, end, with a size limit each | the result is receivable, holds exactly the accepted messages and stays in bounds |
| Frame parser | `src/ubeacon_msg.h:33-46`, `src/ubeacon_driver.c:506-596` | callbacks, the frame being walked | `on_frame`, `on_msg`, end, set hook | callbacks paired and ordered; each whole known message once |
| Codec | `src/ubeacon_driver.c:64-502`, `src/ubeacon_driver_data_raw.h` | none (two hooks per direction) | encode and decode, per direction | both ends agree; values survive; lengths and counts are safe |
| Serial host | `app/serial_port.cpp`, `app/main_common.cpp` | port, write queue, posted tasks, signal set, stop flag | open, run, stop, send; the loop's handlers | one write at a time, order, clean end |
| Writer | `app/writer/main.cpp` | sender thread | send, sleep, raise SIGINT | all sent before the end |
| Monitor life cycle | `app/monitor/main.cpp` | two threads (one without console), App pointer, exit request, server and recording | start, quit, signal, stop, join, close | either side ending ends the other; no use of a dead App; the recording is closed |
| Terminal console | `app/monitor/tui_console.cpp` | log lines, frozen copy, scroll, pause, phase | log, pause, scroll, resize, Enter, draw, exit | the screen is current; pauses as asked; no line lost |
| Console commands | `app/monitor/console_commands.cpp` | cache of structs received | read, write, remember | a write changes what was asked and nothing else |
| Foxglove | `app/monitor/foxglove_viz.cpp` | server, recording, anchors seen, anchors of the last signal | start, publish, shutdown | a scene shows what had been reported when its location came |
| Monitor output | `app/monitor/monitor_data_handle.cpp` | header of the frame being shown | formatting; hands four kinds of messages to Foxglove | only the latter is modelled |
| ROS converters | `app/ros1_converter`, `app/ros2_converter` | spin thread, the node | publish, subscribe, shutdown | what is decoded is published whole; a relayed write changes nothing; the node ends with its serial side |
| Messages, launch files, tests, build | `msg`, `launch`, `rviz`, `test`, `CMakeLists.txt` | none | none | not modelled |

The hard behaviour, item by item with its line and the properties that watch it,
is the `hazards` list of `PROJECT.json`. In short: chunking and resynchronisation
of a byte stream, arithmetic at the limits of frames, messages and fields,
formats that two sides keep in step by hand, sends from several threads into one
loop, the start and end of threads that may overtake one another, signals whose
handler changes hands, messages combined in the order they happen to come, and
copies that are out of date when they are used.

## 2. The modules

| Module | Models | Abstract or detailed |
|---|---|---|
| `FrameFormat`, `MsgFormat` | the byte layout of frames and messages, checksum | shared operators |
| `FrameStream` | what the receive side promises | abstract |
| `FrameBuffer` | `ub_frame_buffer_feed`, one action per loop turn | implements `FrameStream` |
| `FrameBuilder` | begin, try_append, end over the caller's memory | detailed |
| `FrameParser` | the walk over a payload and the callbacks | detailed |
| `Link` | builder's bytes, a noisy line, `FrameBuffer` and `FrameParser` | composition |
| `WireFields`, `WireStructs`, `MsgTables`, `Codec` | one field; the 28 layouts; the four tables; one message's journey | detailed |
| `SerialLine` | what a serial port promises a program | abstract |
| `DataStructs` | members and array sizes of the `UBData*` structs | reference for the ROS tables |
| `RosCopies`, `Ros1Handle`, `Ros2Handle` | what each handler of a converter copies, from which topic or id | tables |
| `RosBridge` | `Codec` between the topics of either node | composition |
| `SerialHost` | `SerialPort` and `main_common` | implements `SerialLine` |
| `HostProgram` | `main_common_init` around `SerialHost`, exit codes and kills | detailed |
| `Writer`, `RosConverter` | a second thread beside `HostProgram` | composition |
| `FoxgloveViz` | server, recording and scene | detailed |
| `Monitor` | the monitor's threads around `SerialHost` and `FoxgloveViz` | composition |
| `LogView`, `TuiConsole` | rows on a screen; the interface's state | detailed |
| `ConsoleCommands` | commands, cache, device and the line between | detailed |
| `InductionFacts` | induction and recursive functions, for the other proofs | proofs |
| `FrameBufferProofs` | the frame buffer, and the link built on it | proofs |
| `FrameBuilderProofs`, `FrameParserProofs` | the rest of the frame layer | proofs |
| `CodecProofs` | the codec, alone and behind the converters | proofs |
| `HostProofs` | the serial host and the three programs on it | proofs |
| `MonitorProofs` | the monitor's life cycle and the scene it draws | proofs |
| `ConsoleProofs` | the monitor's interface and commands | proofs |
| `MC*` | constants for TLC | instances |

Conventions: variables have the names of the code's where it has them; what a
mutex makes atomic is one action, and so is one task or handler of the loop;
definitions under a comment `Mutant` are deliberate errors used only to show that
a property notices them, never part of a specification. Where the code leaves
something to a library (asio, FTXUI, the serial line, the device), the definition
is modelled from how the code uses it and marked external in the map.

### How state and actions correspond to the code

**FrameBuffer.** `buffer`, `index_begin`, `index_end` are the fields of
`UBFrameBuffer`. `wire` is all the caller will ever feed, `fed` how far the
current call goes and `copied` how far `memcpy` is, so that a feed of any size at
any position is a step `Feed`. `AppendChunk` is a turn of the outer loop with its
fallback; `SkipByte`, `ExtractFrame` and `Compact` are the turns and the end of
the inner one. A cell nobody has written holds a value that is no byte, so a
read of it would show up. `Position == copied - Size` is the abstract `pos` of
the refinement to `FrameStream`.

**FrameBuilder.** `frame` is the memory that the caller owns; `begun` and
`accepted` are history (the code keeps neither). Every call takes any
`frame_size_max` up to the memory there is, so that limits that shrink, grow or
repeat are all included; a call that fails changes nothing but `call`. The payload
size in the frame is all that one call tells the next, so `TypeOK` bounds it too
(`FrameInBounds`).

**FrameParser.** `calls` is the record of callbacks made for the frame. Which of
them are registered is chosen at the start; the hook may change at any moment.

**Link.** `Transmissions` are frames as `ub_prepare_msg_to_*` builds them, of any
number of messages up to `MsgsSent` that fits, written as sequences; `LineBytes`
puts them on the wire with noise that contains no SOF.
`FrameStep` is the moment a frame is found and its callback starts: the buffer
does not move while callbacks run.

**Codec.** A struct is a sequence of typed fields (`plain`, `flag`, `masked`,
`scaled`, `signed`, `ppm`, `ratio`, `count`, `hidden`) with bit positions, a head
and an array of elements. A scaled value is counted in quarters of its wire step,
which makes rounding visible for every scale. Each time it passes through a
`float`, which has 24 bits of significand, `InFloat` adds an error: any there may
be (the constant `Error`), of up to one part in 2^22, which leaves room for the three
roundings of a conversion. In fields of up to 16 bits that is less than a quarter
and disappears; in the 32-bit ones, `z_cm` of `Z_MEASUREMENT` and `pos_cm` of
`ANCHOR_POS`, it shows from a million wire steps (10 km) on. `masked` keeps the low
bits, as `time_us & 0xFFFFFFFFFFFFFF` does; a cast to a narrower integer does the
same, and one of a float that no `int32_t` can hold gives either end of the range
(`CastSaturates`).
A message is encoded by one table, cut or extended to another length, decoded by
the other table, and, if it is of a kind that can be written back, written back.
Either side may have a hook, which is asked where `Looked` asks it; it may know
nothing, an id of its own, or every id there is.

**SerialHost.** `posted` are tasks of `SerialPort::write` that the loop has not
run; `writes` counts `async_write`s under way (never more than one, which is a
property and not an assumption); `flushed` says that the line has the front of
the queue, while the completion handler has not run. `PortError` is an error of
read or write: close, and the exception leaves the loop. `Cleanup` runs on both
ways out. Sends are numbered, so order and loss can be told.

**RosBridge.** A handler is a set of copies: member, ROS field, and the number of
values its loop takes. `Publish` is `on_frame_msg` with the `dispatch` it calls;
`RosCommand` is a subscriber's callback, whose message may hold more elements than
the struct has room for; `RosWriteBack` is a user who relays what was published
to the topic that writes it. `DataStructs` is read from the header of the structs
and the tables from the two sources, independently, so that a member left out, a
loop too short or a wrong cast would show in `PublishedWhole`.

**HostProgram, RosConverter.** `main_common_init` step by step; `signalled` is a
signal that asio has taken and whose handler has not run. `RosConverter` adds the
spin thread: `Callback` and `CallbackSends` are the two ends of a callback, so that
shutdown, error and signal fall in between. Both converters have the same steps.
Before asio has the signals ROS has them (or the default action), which `Signal`
leaves open.

**Writer.** `sleeps_suffice`, chosen once, decides whether the 200 ms happen to be
longer than what they stand for. When it is FALSE the sleeps order nothing.

**Monitor.** `console` is chosen at the start. `serial_thread` is where `run_serial`
is, on its thread or, without console, on main, which is then at `join`. `ui` is
where `tui_console::run` is. A signal while FTXUI's loop runs
is caught by it and raised again when the loop returns; otherwise it goes to asio
while `g_signals` exists, and else kills. A frame of the device is one step
(`DeviceReports`): its messages are shown one after the other inside one handler of
the loop. `reported` and `scenes` are histories, of the messages and of what was
drawn.

**TuiConsole.** One action per lock of `g_mutex`. `redraw` says that an event is
posted or being handled, after which FTXUI draws. `asked` and `due` are history: how
the user asked for the pause, and from which line on stdout has to show the log,
which is settled when `run()` ends or is skipped. `LogView` computes rows twice, as
the code does (from the newest line backwards until the area is full) and by
definition (all rows, then a window), and `ScreenIsCurrent` compares them.

**ConsoleCommands.** `device` is the device's own state, `known` in a write the
state the base was taken from. A reply may belong to a message whose reply
struct is another one (`encrypt_param_write`). A state of the device is the members
of the `UBData*` struct; the fields that the driver hides, which every write resets
to their defaults (`src/ubeacon_driver_data_raw.h:72-75`), are in `Codec` only.

## 3. The runs

Twelve runs; the ten passing ones check 40 properties, each with a mutant
(`TablesAgree` with two: a table out of step, and a hook asked too early).

| Run | Question | Instance, and why it is enough |
|---|---|---|
| `frame_buffer` | does the buffer implement the stream? | bytes of three values, SOF one of them, frames of 4 to 6 bytes in a buffer of 6, every wire of 8 bytes, every cut: two minimal frames, frames in frames, false starts that reach over a real frame, wrap of the buffer |
| `frame_builder` | is what we build what the other side takes? | four-valued bytes, frames of at most 9 in 10 bytes of memory, so that either limit can bind; message size field of one bit, so that a payload can be too long for it |
| `frame_parser` | callbacks | payloads of 0 to 5 bytes: shorter than the header, one message, two, torn in each place; all 8 sets of callbacks |
| `link` | end to end | two frames (`FramesSent`) of none to two messages (`MsgsSent`), with noise, refused headers and unknown ids between them, every cut into feeds; a payload and a refused header may hold an SOF |
| `writer` | order, single write, end | the four messages the program sends (a write under way, one queued, two posted), error, stop and signal at every point |
| `ros_converter` | does the node end; do commands arrive | three commands from callbacks; error, signal and a kill through ROS at every point, before the port is open and after it is gone too |
| `writer_sleep` | does the sender wait? (violated) | as above |
| `monitor` | who ends whom; recording and scene | with and without console; two commands, all interleavings of two threads, signals and errors; two frames in every order (`MaxReports`: ten messages), in which anchors are listed before and after they are known, move, and lose their mark; server and recording started or failed |
| `console_commands` | what a write contains | two messages with and without a common reply struct, two fields, three commands, one change of the device by itself, losses |
| `console_stale` | only the given fields? (violated) | one message |
| `tui_console` | screen and log | two lines kept of four, of zero to three rows each, two terminal sizes; `Lengths` and `MaxScroll` bound the lines logged and the scrolling |
| `codec` | every message of every table | each field at its boundary values over an empty and a full struct; cut to nothing, in the head, in half, by a byte, and extended by one; each report published by both nodes, each topic of both with each value, and the three that can be relayed relayed; 32-bit fields at sizes where a float's error is less than a quarter of a step, a few steps and thousands, with the largest error up or down (`MCError`); no hook, a hook for an unknown id, a hook for every id |

Deadlock is checked in `frame_builder`, `frame_parser` and `tui_console`. It is
off where the system really stops: a wire at its end (`frame_buffer`, `link`), a
process that has ended (`writer`, `ros_converter`, `monitor`), a message that has arrived (`codec`),
commands used up (`console_commands`).

### What they show

- *Receive.* In every split of every wire the frames delivered are those of a
  single feed (`ChunkingIrrelevant`), genuine (`DeliveredGenuine`), none passed
  over (`NoFrameLost`), none kept back except behind an incomplete candidate
  (`CompleteFramesDelivered`) and then for less than a frame's maximum
  (`StallBounded`); and the buffer implements `FrameStream` with its fairness
  (`StreamSpec`).
- *Build.* `TypeOK`: no call, failed or not, leaves a size outside header, format and
  memory in the frame. `BuiltFrameReceivable`, `MessagesIntact`, `WritesWithinMax`: also after
  failed appends, an `end` in between, and other limits for each call.
- *Parse.* `CallbackOrder`, `EveryMessageOnce`, the latter with a hook that claims a
  built-in id and decodes it to another size: were it asked first, the size would be
  wrong. `TablesAgree` says the same of the struct.
- *End to end.* `EndToEnd` and `EverythingArrives` for noise without SOF. With an
  SOF in the noise, messages may arrive late (`StallBounded` says how late), or be
  swallowed by a false frame whose checksum happens to fit.
- *Codec and ROS.* `TablesAgree`, with hooks that know every id; `RoundTrip`,
  `CountsInBounds`, `ShortReadsZero`; what a node publishes has every value decoded,
  on a topic of its own (`PublishedWhole`). Written back, by the driver or through
  either node, it changes none of the fields that the driver shows
  (`WriteBackExact`): bit for bit, except that a count is brought in range and that
  the 32-bit fields move by up to a millionth, beyond 10 km. The fields it hides are
  reset to the firmware's defaults, whatever the device had there.
- *Host.* `OneWriteUnderWay`, `LineInOrder`, `LineSpec`; the writer ends
  (`Terminates`) and, if its sleeps are long enough, has sent all
  (`AllTransmitted`). A ROS node ends with its serial side (`NodeEnds`), and a
  command taken while there is a port reaches the line unless the loop is stopped
  or fails (`CommandsArrive`).
- *Monitor.* `OneEndsBoth`, `SignalEnds`, `AppAlive`, `ResultIsFinal`, with console
  and without; no signal kills it while a recording is open, except between the end
  of the loop and `foxglove_viz::shutdown` (`RecordingKept`); every scene follows
  the reports before it (`SceneFollowsReports`).
- *Console.* `PauseAsAsked`, `ScreenIsCurrent`, `ExitEnds`; no line is missing on
  stdout once `run()` has ended, and, when it was skipped, none of the lines kept till
  then (`LogKept`); `NothingSilentlyWritten`, `UpToDateWriteExact`.

### Findings

1. `writer_sleep`: the sleep at `app/writer/main.cpp:43`, commented as waiting
   until the port is open, orders nothing. If opening is slower, the first
   messages are dropped (`app/main_common.cpp:76`) and logged as sent.
2. `console_stale`: "only the fields you change need to be given"
   (`readme.en.md:327`) does not hold for two writes in a row: the base of the
   second is the last *reply*, so it puts back what the first had changed.

Seen in the model, without a text that promises otherwise: a ROS node that is
killed through ROS, or that gets SIGINT before the port is open, stops spinning
and goes on holding the port (`NodeEnds` says what does end it); a second Ctrl-C
that meets the monitor after the loop and before the recording is closed leaves
a file without index, although the first was the way out that `readme.en.md:364`
asks for; the scene keeps anchors of every device it has heard of, under one map.

Seen while reading, outside the model: the ROS converters register no
`on_frame_begin`, so they take echoed downlink frames for a device's, which the
monitor drops; `readme.en.md:148-151` documents the
encode hook as returning the size with a limit as its argument, while
`include/ubeacon_driver_common.h:75-77` declares it `void` with an `int *` for
the size; and `history_pos` (`app/monitor/tui_console.cpp:251`) is not reset by
Enter on an empty line.

### Fairness

| Specification | Fairness | Justified by |
|---|---|---|
| `FrameBuffer` | WF of a feed's own steps | a call in progress runs on; nobody has to call it |
| `Link` | WF of the next step | the reader keeps reading what there is |
| `Writer` | WF of both threads, of the loop with the line, and of the signal handler | threads are scheduled, sleeps end, the line takes bytes while the port is open |
| `RosConverter` | WF of main, of the spin thread's own steps, of the loop with the line, and of the signal handler | threads are scheduled, a callback ends; nobody has to publish, signal or kill |
| `Monitor` | WF of the main thread, the serial thread, its exit request, asio's handler and the line | threads are scheduled; nobody has to type, no error has to happen |
| `TuiConsole` | WF of the end of a command and of the loop | a callback returns; a loop told to exit returns |

No strong fairness is used.

## 4. Proofs

TLAPS proves, for every value of the constants that satisfies the named
assumptions:

| Assumption | What it says | Why the code has it |
|---|---|---|
| `FormatAssumption` | at least two byte values, SOF one of them, a maximal frame at least a minimal one and its payload size representable in the size field | `ubeacon_frame.h`: 256 values, 2 size bytes, `UB_FRAME_SIZE_MAX` |
| `WireLenAssumption` | the wire is finite | a bound of any size; nothing else rests on it |
| `MsgAssumption` | a message's size field is a byte without its top bit | `payload_size : 7` and `reserved : 1` of `UBMsg` |
| `BuilderAssumption` | header and ids are bytes, the header fits a frame | `UBFrameHeaderToDev`, `UBFrameHeaderFromDev` |
| `ParserAssumption` | payloads are bytes and no longer than a frame can carry, ids are bytes, sizes of structs are natural numbers | what `ub_frame_buffer_feed` hands on; the tables return `sizeof` or a negative number for "unknown", which a size must not be |
| `MaxSendsAssumption` | a finite number of sends | a bound of any size |
| `LinkAssumption` | headers and messages are bytes, a message fits its size field, decoders return sizes; noise has no SOF, nor are zeros one, with which the line is padded | `UBFrameHeaderToDev`, `UBMsg`; that noise without SOF is the case the property is about |
| `CodecAssumption` | members hold values of their types, a report has no more bits than its fields | the C types of `ubeacon_driver_data.h`, the bit fields of `ubeacon_driver_data_raw.h` |
| `VizAssumption` | a frame is a sequence of messages of the kinds that are published; a finite number of them | `monitor_data_handle.cpp` hands over these; a bound of any size |
| `CommandsAssumption` | rounding to the wire's step is idempotent; zero and misread bytes are told from values | `ubeacon_driver_data_raw.h`; the last is how the model makes a silent write visible |
| `ConsoleAssumption` | `LINES_MAX`, terminal and scroll steps are positive, lengths natural | constants of `tui_console.cpp`; FTXUI draws nothing on an empty terminal |

**InductionFacts.** The library's induction rule takes an operator, which the
provers cannot instantiate. `SetInduction` says it of a set instead, from the least
number outside it (`LeastNat`), and `FiniteRecursion` with `Follows` that a function
defined by recursion up to a number exists and obeys its equation. Every recursive
function below, from the checksum to the scene, is proved about through these.

**FrameBufferProofs.** `TypeOK` is not inductive: that an append stays inside the
array depends on there being room, which depends on the last scan having ended
with less than a maximal frame, which depends on the size that the candidate's
bytes announce, which are the wire's bytes. So the inductive invariant
`BufferInv` is `TypeOK` together with `BufferIsWireTail` (what lies between the
indices is the tail of what was copied), `FallbackUnreachable` (there is room
whenever a turn begins) and `CallComplete` (data are left exactly during a call).
On it rest

- `TypeCorrect`, `FallbackNeverTaken` (the reset at `ubeacon_frame.c:63-69` is
  dead code), `ContentCorrect`;
- `FramesNotLost`, `FramesGenuine`, by the invariant `ScanInv` about the wire
  offset of the scan: skipping a byte refutes the frame that would begin there,
  delivering one covers those that begin inside it;
- `StallIsBounded` and `CompleteFramesAreDelivered`, the latter with `Drained`: a
  call returns with less than a header or with an incomplete candidate;
- `BufferImplementsStream`: under `BufferInv`, `Feed` is `Arrive`, `SkipByte` is
  `Resync`, `ExtractFrame` is `Deliver`, and `AppendChunk` and `Compact` are
  stutters. This is the safety part of `StreamSpec`;
- `ChunksDoNotMatter`: the reference `Parse` is a recursion over the whole stream,
  the code a loop over pieces of it. The invariant that joins them, `ParseInv`,
  speaks of every end the stream may have from here on: the frames delivered,
  followed by what a parse from the scan's offset finds up to that end, are the
  parse up to that end. For the end reached so far alone it would not be
  inductive, as each `Feed` moves it.

The same module proves `MessagesArrive` (`EndToEnd`), for any headers, messages,
noise and numbers of them. The buffer's part of a link step is a step of
`FrameBuffer` (`LinkBuffer`: `LinkSpec => Spec`), so what is above holds in the
composition. `LinkInv` adds three things. `SentOnLine`: the line is noise and frames in
turn, each frame at its place byte for byte, and no SOF outside them; this is where
the recursion of `Flatten` is unfolded, once for the line and once for the
messages in a frame. `ScanOnLine`: the scan stands between the end of the last frame
delivered and the begin of the next, since outside frames there is nothing to stop
at, and a complete frame that begins at an SOF is delivered (its checksum is the
builder's), so the scan never enters one. `ReceiverInv`: in the k-th frame after j
messages, the parser's offset is where the message j + 1 was put, and `received` is
what the frames before and those j messages carried.

**FrameBuilderProofs.** First the arithmetic of the format: a number written as low and
high byte reads back (`SizeFieldBytes`), and the checksum of any number of bytes is a
byte (`ChecksumIsByte`). `BuilderInv` adds to the properties the head of the frame
(`HeadInv`: SOF, a size within format and memory, every accepted message inside the
payload) and `RoomForChecksum`; that the size is in bounds, which `TypeOK` says, is
kept only because an append that fails leaves it alone and one that fits adds no more
than `Space`. From it: `BuilderTypeCorrect`,
`BuiltFramesReceivable`, `MessagesStayIntact`, `ChecksumHasRoom`, and the action
property `WritesStayWithinMax`: no call writes a byte behind its own limit, even
if the calls before it had a larger one.

**FrameParserProofs.** `MessageStarts`, the reference, climbs up the payload level
by level, and the parser is one loop. The lemmas about the climb carry the proof: it
ends (`WalkExists`, `WalkLevels`), every message but the first begins where another
ends (`StartsFacts`), so that none begins inside another (`NothingBetween`). The inductive invariant `ParserInv` adds to both properties
`LoopInv`: inside the loop, a message that lies at `offset` is one of the
payload's, those that begin before it end before it, and exactly these have been
handed over. From it `CallbacksInOrder` and `MessagesOnce`, for any tables, any
hook set at any moment, and any choice of callbacks.

**CodecProofs.** What the 28 layouts have in common is proved of each once
(`Structs`): their fields are well formed, at increasing bit positions, a count
bounds its own array, and the elements are whole bytes. Nothing after it depends on
a particular struct. `MissingReadsZero` follows for any bits, from the positions
alone (`ReadInv`: what was read is `from_raw` of the bytes that arrived). For the other
two, one lemma per direction of a field: `to_raw` of a value fits the bits
(`ToRawFits`), `from_raw` of `to_raw` is as near as step and float allow
(`SeenFaithfully`), `to_raw` of `from_raw` is the same bits, or for 32 bits as near as
float allows (`WrittenBack`), with the arithmetic of rounding, `%` and powers of two.
Nothing is assumed of `Error` and `CastSaturates`: `FloatNear` bounds what one passage
through a float does, `ThereAndBack` and `Across` what two do with the rounding
between them, and `CastSafe` keeps them clear of the cast. The provers evaluate 2^n
only for a given small n; `Power` says that it grows with n, by counting the subsets of
`1 .. n`. Lengths and counts come last: the elements the receiver
reads are those the sender has filled (`EncodedCounts`, `ArrivedWhole`), because a count
survives the way even when it is clamped. `CodecInv` puts this along a message's
journey. From it `SidesAgree`, `CountsStayInBounds`, `ValuesArrive`,
`WritesBackExactly`: for every value of every member, where the run samples
boundaries.

**HostProofs.** The subject is `HostSpec`, the serial host under any program.
`LineInOrder` alone is not inductive: that the next frame on the line is younger
than the last needs the order of all that waits, half of it in `write_queue` and
half in tasks the loop has not run. `Waiting` makes it one sequence (without the
front of the queue once the line has it), and `HostInv` says that it is in order,
younger than the line and made of sends; and which phases of loop and port go
together (`PhaseInv`). From it `OneWriteAtATime`, `FramesInOrder`, and, `Waiting`
being the `waiting` of `SerialLine`, `HostImplementsLine`.

Then its programs. `MonitorIsHost`, `WriterIsHost` and `ConverterIsHost` map the steps
of each, those of its second thread and of signals included, to steps of the host or
to stutters, so that `ProgramsSendInOrder` holds of all three.

The three are separate programs: the module extends the writer and has the other two
as instances. `EverythingTransmitted` needs more of the writer (`TransmitInv`):
undisturbed, nothing stops the loop before the sender's own signal, line and
`Waiting` together are the frames sent, and when the signal comes nothing waits.

**MonitorProofs.** None of the monitor's properties is inductive. `MonitorInv` adds how
the phases of main, serial thread, loop and interface restrict each other: the serial
thread has left exactly when the loop is over and the port released, an App exists
only while main is in the interface, main closes only after the thread is done, and
handlers are installed from before the recording until `Cleanup`. From it
`AppIsAlive`, `ResultFinal`, `RecordingIsKept`. `ScenesFollowReports` compares a
recursion over the messages of a frame, which keeps two small states, with a
definition that looks back over all messages for the last of a kind. `VizInv` says
that the states are what looking back gives, after any number of messages, also in
the middle of a frame (`VizOK`).

**ConsoleProofs.** First the interface, then the commands; they share no state.
`PauseAsAsked` is inductive only with `CommandUnpaused`: a command begins with the
screen going on, so that the pause that it may ask for is never one on top of another. `LogIsKept` is proved through the number of each
line (`LinesAreNewest`, `StdoutHasNoGap`): what is kept is counted from its end, so
that dropping the oldest changes nothing for the rest, and what stdout has is as long
as from the first line due to the last one logged. `ScreenStaysCurrent` is about two
recursions that run in opposite directions: the code picks rows from the newest line
backwards, skipping those scrolled away, and the definition takes a window of all
rows from the oldest on. `PickTakes` follows the inner loop, `RenderedTakes` the
outer: after k lines what has been picked is the end of the last k lines' rows, and
`skip` is what of the scroll position is left. The clamp makes both ends meet at the
oldest row.

`NothingSilentlyWritten` is about a write on the line, but what it contains was
decided when its command took the cache as base, which was filled by a reply, which
had copied the device. So `CommandsInv` says of each
of these copies what a state may be: the device's present one, or an earlier one
with a smaller number (`Agrees`), and never one of another struct. It gives
`NothingIsSilentlyWritten`, and with the idempotence of rounding the action property
`UpToDateWritesAreExact`. The finding `console_stale` is the other half: a write
that is not up to date.

The properties were model-checked on the runs' instances before they were proved.

Only model-checked:

- liveness, with the fairness it rests on: `EverythingArrives`, `Terminates`,
  `OneEndsBoth`, `SignalEnds`, `NodeEnds`, `CommandsArrive`, `ExitEnds`, and the
  fairness part of `StreamSpec`, which TLAPS cannot prove;
- `PublishedWhole`: a comparison of fixed tables, of which TLC goes through every
  entry; a proof would have to compute each of them, and SMT does not evaluate
  `SelectSeq` over fields of a given name;
- for the same reason, `RoundTrip`, `CountsInBounds` and `WriteBackExact` for a message
  that goes through a topic of a ROS node. `ValuesArrive`, `CountsStayInBounds` and
  `WritesBackExactly` are theorems of the codec's own `Spec`; the run checks them
  under `BridgeSpec`, which adds the nodes. `SidesAgree` and `MissingReadsZero` are
  proved of `BridgeSpec`.

## 5. What is left out, and the plan

Left out on purpose: formatting and logging, the parsing of command line values,
the text of the input line with its history and completion, colours, values out of a
field's range (the code casts them and promises nothing), what threads do while
`exit()` runs, channels of Foxglove that could not be created, frame ids and time
stamps of ROS messages. Of IEEE arithmetic only the size of its error is modelled, not
its value; a quantity exactly between two wire steps may be rounded to either in the
code and goes away from zero here; `RoundTrip` and `WriteBackExact` speak of 32-bit
fields up to 2048 steps from the ends of `int32_t` (`CastSafe`), because nearer to them
the error alone may make the cast undefined. `~SerialPort` calls `close()`, which throws
when the operating system reports an error, and an exception out of a destructor is
`std::terminate` (`app/serial_port.cpp:17-25`): `Cleanup` assumes that closing succeeds.
The error path of a read or write is not touched by that, as it throws in any case.

Order of the modules, most important first; all are done:

1. `FrameFormat`, `FrameStream`, `FrameBuffer` and their proofs
2. `MsgFormat`, `FrameBuilder` and its proofs
3. `FrameParser`
4. `Link`
5. `SerialLine`, `SerialHost`, `HostProgram`, `Writer`, `RosConverter`
6. `Monitor`, `FoxgloveViz`
7. `LogView`, `TuiConsole`
8. `ConsoleCommands`
9. `WireFields`, `WireStructs`, `MsgTables`, `Codec`
10. `DataStructs`, `Ros1Handle`, `Ros2Handle`, `RosBridge`
