--------------------------- MODULE ConsoleCommands ---------------------------
(***************************************************************************)
(* The monitor's commands (app/monitor/console_commands.cpp): execute, on  *)
(* the interface's thread, turns a line into one frame to the device; a    *)
(* write command starts from g_cache, the structs the device sent back     *)
(* last, which remember fills on the serial thread.  Reply and write share *)
(* a message id, and mostly a struct.  The device and the line to it are   *)
(* external: the device answers what arrives in order and may change by    *)
(* itself, and frames may be lost either way.                              *)
(***************************************************************************)
EXTENDS Naturals, Sequences

CONSTANTS
  Messages,       \* messages with a struct that can be written
  SameStruct,     \* those whose reply has the struct of the write
  Fields,         \* the members of each struct
  Values,         \* values of a field, as a user may give them
  Zero,           \* what data(msg->size, 0) leaves in a field (tells it from a
                  \* 0 that was given)
  Misread,        \* bytes of another struct, read as this one
  Rounded,        \* what is left of a value after to_raw and from_raw
  MaxCommands,    \* commands sent in a behaviour (bound)
  MaxChanges      \* changes of the device by itself in a behaviour (bound)

ASSUME CommandsAssumption ==
  /\ SameStruct \subseteq Messages
  /\ Zero \notin Values /\ Misread \notin Values /\ Zero # Misread
  /\ Rounded \in [Values -> Values]
  /\ \A v \in Values : Rounded[Rounded[v]] = Rounded[v]
  /\ MaxCommands \in Nat /\ MaxChanges \in Nat

Nothing == [at |-> 0, data |-> [f \in Fields |-> Zero]]

VARIABLES
  device,     \* external: Messages -> the struct, and its how-many-th state
  to_dev,     \* frames on their way
  from_dev,   \* replies on their way
  g_cache,    \* Messages -> reply kept, or Nothing
  received,   \* Messages -> state of the device last received of, 0 for none
  command,    \* write command between taking its base and sending, or <<>>
  commands, changes   \* counters for the bounds

deviceVars == <<device, changes>>
consoleVars == <<g_cache, received, command, commands>>
commandsVars == <<deviceVars, consoleVars, to_dev, from_dev>>

CommandsInit ==
  /\ device \in [Messages -> [at : {1}, data : [Fields -> {Rounded[v] : v \in Values}]]]
  /\ to_dev = <<>> /\ from_dev = <<>>
  /\ g_cache = [m \in Messages |-> Nothing]
  /\ received = [m \in Messages |-> 0]
  /\ command = <<>>
  /\ commands = 0 /\ changes = 0
-----------------------------------------------------------------------------
\* execute for a message without a struct: "takes no fields", or it is sent.
ReadCommand(m) ==
  /\ command = <<>> /\ commands < MaxCommands
  /\ commands' = commands + 1
  /\ to_dev' = Append(to_dev, [kind |-> "read", msg |-> m])
  /\ UNCHANGED <<deviceVars, from_dev, g_cache, received, command>>

\* execute up to the end of the lock: the base is what has been received last.
WriteCommand(m) ==
  /\ command = <<>> /\ commands < MaxCommands
  /\ command' = <<[msg |-> m, base |-> g_cache[m], known |-> received[m]]>>
  /\ UNCHANGED <<deviceVars, to_dev, from_dev, g_cache, received, commands>>

\* Without a base every field has to be given.
Accepts(given) == command[1].base # Nothing \/ DOMAIN given = Fields

Overlaid(given) ==
  [f \in Fields |-> IF f \in DOMAIN given THEN given[f] ELSE command[1].base.data[f]]

\* ... to its end: given are the arguments, all of them well-formed.
WriteSends(given) ==
  /\ command # <<>> /\ Accepts(given)
  /\ commands' = commands + 1
  /\ to_dev' = Append(to_dev, [kind |-> "write", msg |-> command[1].msg,
                               data |-> Overlaid(given), given |-> given,
                               known |-> command[1].known])
  /\ command' = <<>>
  /\ UNCHANGED <<deviceVars, from_dev, g_cache, received>>

\* An unknown field, an invalid value or a missing field: nothing is sent.
WriteRefused ==
  /\ command # <<>>
  /\ command' = <<>>
  /\ UNCHANGED <<deviceVars, to_dev, from_dev, g_cache, received, commands>>

\* Mutant: the first copy is kept (emplace).
RememberFirst ==
  /\ from_dev # <<>>
  /\ from_dev' = Tail(from_dev)
  /\ LET r == Head(from_dev)
     IN  IF r.msg \in SameStruct
         THEN /\ g_cache' = [g_cache EXCEPT ![r.msg] = IF @ = Nothing THEN r.copy ELSE @]
              /\ received' = [received EXCEPT ![r.msg] = r.copy.at]
         ELSE UNCHANGED <<g_cache, received>>
  /\ UNCHANGED <<deviceVars, to_dev, command, commands>>

\* Mutant: the size of the struct is not compared.
RememberAnySize ==
  /\ from_dev # <<>>
  /\ from_dev' = Tail(from_dev)
  /\ LET r == Head(from_dev)
     IN  /\ g_cache' = [g_cache EXCEPT ![r.msg] = r.copy]
         /\ received' = [received EXCEPT ![r.msg] = r.copy.at]
  /\ UNCHANGED <<deviceVars, to_dev, command, commands>>

\* on_frame_msg_with_console: remember takes a struct of the size written.
Remember ==
  /\ from_dev # <<>>
  /\ from_dev' = Tail(from_dev)
  /\ LET r == Head(from_dev)
     IN  IF r.msg \in SameStruct
         THEN /\ g_cache' = [g_cache EXCEPT ![r.msg] = r.copy]
              /\ received' = [received EXCEPT ![r.msg] = r.copy.at]
         ELSE UNCHANGED <<g_cache, received>>
  /\ UNCHANGED <<deviceVars, to_dev, command, commands>>

\* The struct the host decodes: that of the write, or one that only shares its id.
Reply(m, state) ==
  [msg |-> m,
   copy |-> IF m \in SameStruct THEN state
            ELSE [state EXCEPT !.data = [f \in Fields |-> Misread]]]

\* External: the device takes what arrives and answers with what it has now.
\* Fields are members of the UBData* struct: what to_raw puts in those it hides
\* (WireFields' Default), and resets with every write, is not part of the state.
DeviceTakes ==
  /\ to_dev # <<>>
  /\ to_dev' = Tail(to_dev)
  /\ LET frame == Head(to_dev)
         m == frame.msg
         state == IF frame.kind = "read" THEN device[m]
                  ELSE [at |-> device[m].at + 1,
                        data |-> [f \in Fields |->
                                    IF frame.data[f] \in Values
                                    THEN Rounded[frame.data[f]] ELSE frame.data[f]]]
     IN  /\ device' = [device EXCEPT ![m] = state]
         /\ from_dev' = Append(from_dev, Reply(m, state))
  /\ UNCHANGED <<consoleVars, changes>>

\* External: reset_param, a restart, another host; with or without a report.
DeviceChanges(m) ==
  /\ changes < MaxChanges
  /\ changes' = changes + 1
  /\ \E f \in Fields, v \in {Rounded[v] : v \in Values} :
       device' = [device EXCEPT ![m].at = @ + 1, ![m].data[f] = v]
  /\ \/ UNCHANGED from_dev
     \/ from_dev' = Append(from_dev, Reply(m, device'[m]))
  /\ UNCHANGED <<consoleVars, to_dev>>

\* External: nothing is sent twice to make up for a frame lost or damaged.
Lose ==
  /\ \/ to_dev # <<>> /\ to_dev' = Tail(to_dev) /\ UNCHANGED from_dev
     \/ from_dev # <<>> /\ from_dev' = Tail(from_dev) /\ UNCHANGED to_dev
  /\ UNCHANGED <<deviceVars, consoleVars>>

Arguments == UNION {[fs -> Values] : fs \in SUBSET Fields}

CommandsNext ==
  \/ \E m \in Messages : ReadCommand(m) \/ WriteCommand(m) \/ DeviceChanges(m)
  \/ \E given \in Arguments : WriteSends(given)
  \/ WriteRefused \/ Remember \/ DeviceTakes \/ Lose

CommandsSpec == CommandsInit /\ [][CommandsNext]_commandsVars
-----------------------------------------------------------------------------
(***************************************************************************)
(* "Unspecified fields are never silently written as 0" (readme.en.md),    *)
(* nor as bytes of another struct: each field of a write is the argument   *)
(* given for it or a value the device had reported for that very field.    *)
(***************************************************************************)
NothingSilentlyWritten ==
  \A i \in DOMAIN to_dev :
    to_dev[i].kind = "write" =>
      \A f \in Fields :
        IF f \in DOMAIN to_dev[i].given
        THEN to_dev[i].data[f] = to_dev[i].given[f]
        ELSE to_dev[i].data[f] \in {Rounded[v] : v \in Values}

WriteApplied ==
  /\ to_dev # <<>> /\ DeviceTakes /\ Head(to_dev).kind = "write"

\* The write changes the fields it names and no other.
ChangesOnlyGiven ==
  LET frame == Head(to_dev)
  IN  \A f \in Fields \ DOMAIN frame.given :
        device'[frame.msg].data[f] = device[frame.msg].data[f]

(***************************************************************************)
(* If the device has not changed since the last report received when the   *)
(* command took its base, the write changes only what it names: whatever   *)
(* replies arrive meanwhile, are lost or belong to other messages.         *)
(***************************************************************************)
UpToDateWriteExact ==
  [][WriteApplied /\ Head(to_dev).known = device[Head(to_dev).msg].at
       => ChangesOnlyGiven]_commandsVars

(***************************************************************************)
(* "Only the fields you change need to be given" (readme.en.md:327),       *)
(* for any write that gives less than all fields.                          *)
(***************************************************************************)
WritesChangeOnlyGiven == [][WriteApplied => ChangesOnlyGiven]_commandsVars
==============================================================================
