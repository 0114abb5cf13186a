----------------------------- MODULE SerialHost -----------------------------
(***************************************************************************)
(* The serial port of a host program: app/serial_port.cpp and              *)
(* app/main_common.cpp.  Any thread may send, stop the event loop or die   *)
(* of a signal; one thread opens the port and runs the loop, which alone   *)
(* touches write_queue.  What a mutex makes atomic is one action; a task   *)
(* or handler of the loop is one action.  asio is external: posted tasks   *)
(* run in order, stop() keeps for a run() yet to come, and a stopped loop  *)
(* runs nothing more.                                                      *)
(***************************************************************************)
EXTENDS Naturals, Sequences

CONSTANT MaxSends   \* calls of serial_try_send_data in a behaviour (bound)

ASSUME MaxSendsAssumption == MaxSends \in Nat

VARIABLES
  serial,       \* g_serial: "null", "open", "closed" (an error closed the port)
  signals,      \* g_signals is installed
  stopped,      \* g_ioc.stop() has been called
  loop,         \* main_common_run: "before", "running", "failed", "returned", "over"
  posted,       \* frames in tasks of SerialPort::write the loop has not run
  write_queue,
  writes,       \* async_writes under way
  flushed,      \* the front of write_queue is on the line already
  line,         \* what the device sees: frames, and whether whole
  sends         \* calls of serial_try_send_data so far; the n-th sends frame n

portVars == <<posted, write_queue, writes, flushed, line>>
hostVars == <<serial, signals, stopped, loop, portVars, sends>>

HostInit ==
  /\ serial = "null"
  /\ signals = FALSE
  /\ stopped = FALSE
  /\ loop = "before"
  /\ posted = <<>> /\ write_queue = <<>> /\ writes = 0 /\ flushed = FALSE
  /\ line = <<>>
  /\ sends = 0
-----------------------------------------------------------------------------
\* main_common_open up to the end of the lock: the constructor opens the port.
OpenPort ==
  /\ loop = "before" /\ serial = "null"
  /\ serial' = "open"
  /\ UNCHANGED <<signals, stopped, loop, portVars, sends>>

\* ... and from there: signal_set, async_wait.
InstallSignals ==
  /\ loop = "before" /\ serial = "open" /\ ~signals
  /\ signals' = TRUE
  /\ UNCHANGED <<serial, stopped, loop, portVars, sends>>

Run ==
  /\ loop = "before" /\ signals
  /\ loop' = "running"
  /\ UNCHANGED <<serial, signals, stopped, portVars, sends>>

\* Mutant: with the loop the signals are given up.
StopResetsSignals ==
  /\ stopped' = TRUE
  /\ signals' = FALSE
  /\ UNCHANGED <<serial, loop, portVars, sends>>

\* main_common_stop; also what the signal handler does.
Stop ==
  /\ stopped' = TRUE
  /\ UNCHANGED <<serial, signals, loop, portVars, sends>>

\* serial_try_send_data, under g_serial_mutex: SerialPort::write posts a task,
\* or there is no port and the data is dropped without a word.
Send ==
  /\ sends < MaxSends
  /\ sends' = sends + 1
  /\ posted' = IF serial = "null" THEN posted ELSE Append(posted, sends + 1)
  /\ UNCHANGED <<serial, signals, stopped, loop, write_queue, writes, flushed, line>>

Dispatching == loop = "running" /\ ~stopped

\* Mutant: a task that finds a write under way leaves it at that.
RunWriteTaskIfIdle ==
  /\ Dispatching /\ posted # <<>>
  /\ write_queue' = IF write_queue = <<>> THEN <<Head(posted)>> ELSE write_queue
  /\ posted' = Tail(posted)
  /\ writes' = 1
  /\ UNCHANGED <<serial, signals, stopped, loop, flushed, line, sends>>

\* The task of SerialPort::write: only into an empty queue it starts writing.
RunWriteTask ==
  /\ Dispatching /\ posted # <<>>
  /\ write_queue' = Append(write_queue, Head(posted))
  /\ posted' = Tail(posted)
  /\ writes' = IF Len(write_queue') = 1 THEN writes + 1 ELSE writes
  /\ UNCHANGED <<serial, signals, stopped, loop, flushed, line, sends>>

\* External: the line has taken the last byte of the write under way.
Flush ==
  /\ serial = "open" /\ writes > 0 /\ ~flushed
  /\ line' = Append(line, [frame |-> Head(write_queue), whole |-> TRUE])
  /\ flushed' = TRUE
  /\ UNCHANGED <<serial, signals, stopped, loop, posted, write_queue, writes, sends>>

\* Mutant: what has been written stays at the front.
WriteDoneKeepsFront ==
  /\ Dispatching /\ writes > 0 /\ flushed
  /\ UNCHANGED <<write_queue, writes>>
  /\ flushed' = FALSE
  /\ UNCHANGED <<serial, signals, stopped, loop, posted, line, sends>>

\* Mutant: the queue is not continued after a write.
WriteDoneOnce ==
  /\ Dispatching /\ writes > 0 /\ flushed
  /\ write_queue' = Tail(write_queue)
  /\ writes' = writes - 1
  /\ flushed' = FALSE
  /\ UNCHANGED <<serial, signals, stopped, loop, posted, line, sends>>

\* Completion handler: pop_front, and start_async_write for what is left.
WriteDone ==
  /\ Dispatching /\ writes > 0 /\ flushed
  /\ write_queue' = Tail(write_queue)
  /\ writes' = IF write_queue' = <<>> THEN writes - 1 ELSE writes
  /\ flushed' = FALSE
  /\ UNCHANGED <<serial, signals, stopped, loop, posted, line, sends>>

\* Closing the port cuts the write under way, if the line has not got it all.
CutWrite ==
  IF serial = "open" /\ writes > 0 /\ ~flushed
  THEN \/ UNCHANGED line
       \/ line' = Append(line, [frame |-> Head(write_queue), whole |-> FALSE])
  ELSE UNCHANGED line

\* A handler gets an error, of the read always under way or of the write:
\* close(), and the exception leaves g_ioc.run().
PortError ==
  /\ Dispatching
  /\ serial' = "closed"
  /\ CutWrite
  /\ loop' = "failed"
  /\ UNCHANGED <<signals, stopped, posted, write_queue, writes, flushed, sends>>

\* g_ioc.run() returns, now or at once, when the loop is stopped.
RunReturns ==
  /\ loop = "running" /\ stopped
  /\ loop' = "returned"
  /\ UNCHANGED <<serial, signals, stopped, portVars, sends>>

\* ~Cleanup, under g_serial_mutex, on both ways out: the port is closed and
\* destroyed with its queue.  Tasks still posted keep a pointer to it.  That
\* ~SerialPort closes without an error is assumed: its close() throws on one,
\* which out of a destructor ends the process (serial_port.cpp:17-25).
Cleanup ==
  /\ loop \in {"failed", "returned"}
  /\ serial' = "null"
  /\ CutWrite
  /\ write_queue' = <<>> /\ writes' = 0 /\ flushed' = FALSE
  /\ signals' = FALSE
  /\ loop' = "over"
  /\ UNCHANGED <<stopped, posted, sends>>

LoopStep == RunWriteTask \/ WriteDone \/ RunReturns \/ Cleanup

HostNext ==
  \/ OpenPort \/ InstallSignals \/ Run
  \/ Stop \/ Send
  \/ LoopStep \/ Flush \/ PortError

HostSpec == HostInit /\ [][HostNext]_hostVars
-----------------------------------------------------------------------------
(***************************************************************************)
(* write_queue's front is the one buffer async_write works on: at most one *)
(* write is under way, and one is exactly when the queue has something.    *)
(* Two at once would mix the bytes of two frames on the line.              *)
(***************************************************************************)
OneWriteUnderWay ==
  /\ writes = (IF write_queue = <<>> THEN 0 ELSE 1)
  /\ flushed => writes = 1

(***************************************************************************)
(* Frames reach the line in the order of the calls, whatever threads made  *)
(* them, none twice; a frame cut short is the last the device sees.        *)
(***************************************************************************)
LineInOrder ==
  \A i, j \in DOMAIN line :
    i < j => line[i].whole /\ line[i].frame < line[j].frame

\* What the host promises: frames leave in order or are lost at the end.
Line == INSTANCE SerialLine WITH
          Frames <- 1 .. MaxSends,
          up <- serial = "open",
          waiting <- IF serial # "open" THEN <<>>
                     ELSE (IF flushed THEN Tail(write_queue) ELSE write_queue)
                            \o posted

LineSpec == Line!Spec
==============================================================================
