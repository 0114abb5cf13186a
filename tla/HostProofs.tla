----------------------------- MODULE HostProofs -----------------------------
(***************************************************************************)
(* Proofs about the serial host and the programs on it.  First the host,   *)
(* for any number of sends and any program around it: what it has accepted *)
(* and not put on the line is one sequence, half of it in write_queue and  *)
(* half in tasks of the loop; every step keeps it, shifts it by one,       *)
(* extends it by one or drops it all.  Then its programs, each of them an  *)
(* implementation of it: the writer example, which this module extends,    *)
(* and as instances the ROS converters and the monitor.  They are separate *)
(* programs; that the variables of the port, and main, signalled and       *)
(* ended, carry the same names in their modules lets one module speak of   *)
(* all three.                                                              *)
(***************************************************************************)
EXTENDS Writer, SequenceTheorems, TLAPS

CONSTANTS Reports, MaxReports              \* of the monitor's FoxgloveViz
VARIABLES
  main, ros, spin,                         \* of RosConverter
  console, serial_thread, ui, g_app, g_exit_requested, quitting, caught,
  serial_error,                            \* of Monitor, with main
  s_server, s_writer, s_anchors, s_signal_anchors, scenes, reported

RosConverter == INSTANCE RosConverter
Monitor == INSTANCE Monitor

USE MaxSendsAssumption

LineItem == [frame : Nat, whole : BOOLEAN]

HostTypeOK ==
  /\ serial \in {"null", "open", "closed"}
  /\ signals \in BOOLEAN /\ stopped \in BOOLEAN
  /\ loop \in {"before", "running", "failed", "returned", "over"}
  /\ posted \in Seq(Nat) /\ write_queue \in Seq(Nat)
  /\ writes \in Nat /\ flushed \in BOOLEAN
  /\ line \in Seq(LineItem)
  /\ sends \in 0 .. MaxSends

\* The port's life and the loop's go together, and before the loop nothing
\* can have left.
PhaseInv ==
  /\ loop \in {"running", "returned"} => serial = "open"
  /\ loop = "failed" => serial = "closed"
  /\ loop = "over" => serial = "null"
  /\ loop = "before" => serial # "closed" /\ write_queue = <<>> /\ line = <<>>
  /\ loop = "before" /\ serial = "null" => posted = <<>>
  /\ signals => serial # "null"

\* Accepted and not on the line yet: the waiting frames of SerialLine.
Waiting == (IF flushed THEN Tail(write_queue) ELSE write_queue) \o posted

\* While the port is up, what waits is younger than what has left.
OrderInv ==
  /\ LineInOrder
  /\ \A i \in DOMAIN line : line[i].frame <= sends
  /\ serial = "open" =>
       /\ \A i \in DOMAIN line : line[i].whole
       /\ \A i, j \in DOMAIN Waiting : i < j => Waiting[i] < Waiting[j]
       /\ \A i \in DOMAIN line, j \in DOMAIN Waiting : line[i].frame < Waiting[j]
       /\ \A j \in DOMAIN Waiting : Waiting[j] <= sends

HostInv == HostTypeOK /\ PhaseInv /\ OneWriteUnderWay /\ OrderInv
-----------------------------------------------------------------------------
LEMMA WaitingType ==
  ASSUME HostTypeOK, OneWriteUnderWay
  PROVE  /\ Waiting \in Seq(Nat)
         /\ flushed => write_queue # <<>>
         /\ write_queue # <<>> => Head(write_queue) \in Nat /\ Tail(write_queue) \in Seq(Nat)
<1>1. flushed => write_queue # <<>>
  BY DEF OneWriteUnderWay, HostTypeOK
<1>2. write_queue # <<>> =>
        Head(write_queue) \in Nat /\ Tail(write_queue) \in Seq(Nat)
  BY HeadTailProperties DEF HostTypeOK
<1>3. (IF flushed THEN Tail(write_queue) ELSE write_queue) \in Seq(Nat)
  BY <1>1, <1>2 DEF HostTypeOK
<1>4. Waiting \in Seq(Nat)
  BY <1>3, ConcatProperties DEF Waiting, HostTypeOK
<1> QED BY <1>1, <1>2, <1>4

\* Taking the head of one sequence to the end of another changes nothing in
\* the two put together; nor does where the head is taken from.
LEMMA MoveHead ==
  ASSUME NEW S, NEW s \in Seq(S), NEW t \in Seq(S), t # <<>>
  PROVE  Append(s, Head(t)) \o Tail(t) = s \o t
<1>1. Head(t) \in S /\ Tail(t) \in Seq(S) /\ <<Head(t)>> \in Seq(S)
  BY HeadTailProperties
<1>2. Append(s, Head(t)) = s \o <<Head(t)>>
  BY <1>1, AppendIsConcat
<1>3. (s \o <<Head(t)>>) \o Tail(t) = s \o (<<Head(t)>> \o Tail(t))
  BY <1>1, ConcatAssociative
<1>4. <<Head(t)>> \o Tail(t) = t
  BY <1>1
<1> QED BY <1>2, <1>3, <1>4

LEMMA HeadOfConcat ==
  ASSUME NEW S, NEW s \in Seq(S), NEW t \in Seq(S), s # <<>>
  PROVE  s \o t # <<>> /\ Head(s \o t) = Head(s) /\ Tail(s \o t) = Tail(s) \o t
<1>1. /\ Head(s) \in S /\ Tail(s) \in Seq(S) /\ Len(Tail(s)) = Len(s) - 1
      /\ \A i \in 1 .. Len(Tail(s)) : Tail(s)[i] = s[i + 1]
      /\ Len(s) \in Nat /\ Len(t) \in Nat /\ Len(s) > 0
  BY HeadTailProperties, LenProperties, EmptySeq
<1>2. /\ s \o t \in Seq(S) /\ Len(s \o t) = Len(s) + Len(t)
      /\ \A i \in 1 .. Len(s) + Len(t) :
           (s \o t)[i] = IF i <= Len(s) THEN s[i] ELSE t[i - Len(s)]
  BY ConcatProperties
<1>3. s \o t # <<>>
  BY <1>1, <1>2
<1>4. Head(s \o t) = Head(s)
  BY <1>1, <1>2
<1>5. /\ Tail(s \o t) \in Seq(S) /\ Len(Tail(s \o t)) = Len(s) + Len(t) - 1
      /\ \A i \in 1 .. Len(Tail(s \o t)) : Tail(s \o t)[i] = (s \o t)[i + 1]
  BY <1>2, <1>3, HeadTailProperties
<1>6. /\ Tail(s) \o t \in Seq(S) /\ Len(Tail(s) \o t) = Len(s) - 1 + Len(t)
      /\ \A i \in 1 .. Len(s) - 1 + Len(t) :
           (Tail(s) \o t)[i] = IF i <= Len(s) - 1 THEN Tail(s)[i]
                               ELSE t[i - (Len(s) - 1)]
  BY <1>1, ConcatProperties
<1>7. ASSUME NEW i \in 1 .. Len(s) - 1 + Len(t)
      PROVE  Tail(s \o t)[i] = (Tail(s) \o t)[i]
  BY <1>1, <1>2, <1>5, <1>6
<1> QED BY <1>1, <1>3, <1>4, <1>5, <1>6, <1>7, SeqEqual
-----------------------------------------------------------------------------
(* What each step does to the frames that wait. *)

LEMMA WriteTaskKeeps ==
  ASSUME HostInv, RunWriteTask
  PROVE  Waiting' = Waiting /\ line' = line /\ serial' = serial /\ sends' = sends
<1> DEFINE left == IF flushed THEN Tail(write_queue) ELSE write_queue
<1>1. /\ posted # <<>> /\ write_queue' = Append(write_queue, Head(posted))
      /\ posted' = Tail(posted) /\ flushed' = flushed
      /\ line' = line /\ serial' = serial /\ sends' = sends
  BY DEF RunWriteTask
<1>2. /\ posted \in Seq(Nat) /\ write_queue \in Seq(Nat) /\ left \in Seq(Nat)
      /\ Head(posted) \in Nat
      /\ flushed => write_queue # <<>>
  BY <1>1, WaitingType, HeadTailProperties DEF HostInv, HostTypeOK
<1>3. (IF flushed THEN Tail(write_queue) ELSE write_queue)' = Append(left, Head(posted))
  BY <1>1, <1>2, HeadTailAppend
<1>4. Waiting' = Append(left, Head(posted)) \o Tail(posted)
  BY <1>1, <1>3 DEF Waiting
<1>5. Waiting = left \o posted
  BY DEF Waiting
<1> HIDE DEF left
<1> QED BY <1>1, <1>2, <1>4, <1>5, MoveHead

LEMMA WriteDoneKeeps ==
  ASSUME HostInv, WriteDone
  PROVE  Waiting' = Waiting /\ line' = line /\ serial' = serial /\ sends' = sends
BY DEF WriteDone, Waiting

LEMMA FlushShifts ==
  ASSUME HostInv, Flush
  PROVE  /\ Waiting # <<>> /\ Waiting' = Tail(Waiting)
         /\ line' = Append(line, [frame |-> Head(Waiting), whole |-> TRUE])
         /\ serial = "open" /\ serial' = serial /\ sends' = sends
<1>1. /\ ~flushed /\ flushed' = TRUE /\ write_queue # <<>>
      /\ UNCHANGED <<serial, posted, write_queue, sends>> /\ serial = "open"
      /\ line' = Append(line, [frame |-> Head(write_queue), whole |-> TRUE])
  BY DEF Flush, HostInv, OneWriteUnderWay, HostTypeOK
<1>2. Waiting = write_queue \o posted /\ Waiting' = Tail(write_queue) \o posted
  BY <1>1 DEF Waiting
<1> QED BY <1>1, <1>2, HeadOfConcat DEF HostInv, HostTypeOK

LEMMA CutTears ==
  ASSUME HostInv, CutWrite
  PROVE  \/ line' = line
         \/ /\ serial = "open" /\ Waiting # <<>>
            /\ line' = Append(line, [frame |-> Head(Waiting), whole |-> FALSE])
<1> SUFFICES ASSUME line' # line
             PROVE  /\ serial = "open" /\ Waiting # <<>>
                    /\ line' = Append(line, [frame |-> Head(Waiting), whole |-> FALSE])
  OBVIOUS
<1>1. /\ serial = "open" /\ ~flushed /\ write_queue # <<>>
      /\ line' = Append(line, [frame |-> Head(write_queue), whole |-> FALSE])
  BY DEF CutWrite, HostInv, OneWriteUnderWay, HostTypeOK
<1>2. Waiting = write_queue \o posted
  BY <1>1 DEF Waiting
<1> QED BY <1>1, <1>2, HeadOfConcat DEF HostInv, HostTypeOK

LEMMA SendExtends ==
  ASSUME HostInv, Send, serial # "null"
  PROVE  /\ Waiting' = Append(Waiting, sends + 1) /\ line' = line
         /\ serial' = serial /\ sends' = sends + 1
<1> DEFINE left == IF flushed THEN Tail(write_queue) ELSE write_queue
<1>1. /\ posted' = Append(posted, sends + 1) /\ sends' = sends + 1
      /\ UNCHANGED <<serial, write_queue, flushed, line>>
  BY DEF Send
<1>2. left \in Seq(Nat) /\ posted \in Seq(Nat) /\ sends + 1 \in Nat
  BY WaitingType DEF HostInv, HostTypeOK
<1>3. Waiting = left \o posted /\ Waiting' = left \o posted'
  BY <1>1 DEF Waiting
<1> HIDE DEF left
<1>4. left \o (posted \o <<sends + 1>>) = (left \o posted) \o <<sends + 1>>
  BY <1>2, ConcatAssociative
<1>5. left \o posted \in Seq(Nat)
  BY <1>2, ConcatProperties
<1>6. /\ Append(posted, sends + 1) = posted \o <<sends + 1>>
      /\ Append(left \o posted, sends + 1) = (left \o posted) \o <<sends + 1>>
  BY <1>2, <1>5, AppendIsConcat
<1> QED BY <1>1, <1>3, <1>4, <1>6
-----------------------------------------------------------------------------
(* The parts of the invariant, step by step. *)

LEMMA HostInvInit == HostInit => HostInv
<1> SUFFICES ASSUME HostInit PROVE HostInv
  OBVIOUS
<1> USE DEF HostInit
<1>1. HostTypeOK
  <2>1. <<>> \in Seq(Nat) /\ <<>> \in Seq(LineItem)
    BY EmptySeq
  <2>2. signals \in BOOLEAN /\ stopped \in BOOLEAN /\ flushed \in BOOLEAN
    OBVIOUS
  <2>3. posted \in Seq(Nat) /\ write_queue \in Seq(Nat) /\ line \in Seq(LineItem)
    BY <2>1
  <2> QED BY <2>2, <2>3 DEF HostTypeOK
<1>2. PhaseInv /\ OneWriteUnderWay
  BY DEF PhaseInv, OneWriteUnderWay
<1>3. OrderInv
  BY DEF OrderInv, LineInOrder
<1> QED BY <1>1, <1>2, <1>3 DEF HostInv

\* What is put on the line is an item of the line.
LEMMA LineGrows ==
  ASSUME HostInv, NEW whole \in BOOLEAN, Waiting # <<>>
  PROVE  /\ Append(line, [frame |-> Head(Waiting), whole |-> whole]) \in Seq(LineItem)
         /\ Head(Waiting) = Waiting[1] /\ 1 \in DOMAIN Waiting
         /\ Waiting \in Seq(Nat)
<1>1. Waiting \in Seq(Nat)
  BY WaitingType DEF HostInv
<1>2. Head(Waiting) \in Nat /\ Head(Waiting) = Waiting[1] /\ Len(Waiting) \in Nat \ {0}
  BY <1>1, HeadTailProperties, EmptySeq, LenProperties
<1>3. [frame |-> Head(Waiting), whole |-> whole] \in LineItem
  BY <1>2 DEF LineItem
<1> QED BY <1>1, <1>2, <1>3, AppendProperties, LenProperties DEF HostInv, HostTypeOK

LEMMA HostTypeStep == HostInv /\ [HostNext]_hostVars => HostTypeOK'
<1> SUFFICES ASSUME HostInv, [HostNext]_hostVars PROVE HostTypeOK'
  OBVIOUS
<1> USE DEF HostInv, HostTypeOK
<1>1. CASE OpenPort \/ InstallSignals \/ Run \/ Stop \/ RunReturns \/ UNCHANGED hostVars
  BY <1>1 DEF OpenPort, InstallSignals, Run, Stop, RunReturns, hostVars, portVars
<1>2. CASE Send
  BY <1>2, AppendProperties DEF Send
<1>3. CASE RunWriteTask
  <2>1. Head(posted) \in Nat /\ Tail(posted) \in Seq(Nat)
    BY <1>3, HeadTailProperties DEF RunWriteTask
  <2> QED BY <1>3, <2>1, AppendProperties DEF RunWriteTask
<1>4. CASE WriteDone
  <2>1. write_queue # <<>> /\ writes = 1
    BY <1>4 DEF WriteDone, OneWriteUnderWay
  <2>2. Tail(write_queue) \in Seq(Nat)
    BY <2>1, HeadTailProperties
  <2>3. writes' \in Nat
    BY <1>4, <2>1 DEF WriteDone
  <2> QED BY <1>4, <2>2, <2>3 DEF WriteDone
<1>5. CASE Flush
  BY <1>5, FlushShifts, LineGrows DEF Flush
<1>6. CASE PortError
  BY <1>6, CutTears, LineGrows DEF PortError
<1>7. CASE Cleanup
  BY <1>7, CutTears, LineGrows, EmptySeq DEF Cleanup
<1> QED BY <1>1, <1>2, <1>3, <1>4, <1>5, <1>6, <1>7 DEF HostNext, LoopStep

LEMMA PhaseStep == HostInv /\ [HostNext]_hostVars => PhaseInv'
<1> SUFFICES ASSUME HostInv, [HostNext]_hostVars PROVE PhaseInv'
  OBVIOUS
<1> USE DEF HostInv, HostTypeOK, PhaseInv
<1>1. CASE OpenPort \/ InstallSignals \/ Run \/ Stop \/ RunReturns \/ UNCHANGED hostVars
  BY <1>1 DEF OpenPort, InstallSignals, Run, Stop, RunReturns, hostVars, portVars
<1>2. CASE Send
  BY <1>2 DEF Send
<1>3. CASE RunWriteTask \/ WriteDone
  BY <1>3 DEF RunWriteTask, WriteDone, Dispatching
<1>4. CASE Flush
  BY <1>4 DEF Flush, OneWriteUnderWay
<1>5. CASE PortError \/ Cleanup
  BY <1>5 DEF PortError, Cleanup, Dispatching
<1> QED BY <1>1, <1>2, <1>3, <1>4, <1>5 DEF HostNext, LoopStep

LEMMA OneWriteStep == HostInv /\ [HostNext]_hostVars => OneWriteUnderWay'
<1> SUFFICES ASSUME HostInv, [HostNext]_hostVars PROVE OneWriteUnderWay'
  OBVIOUS
<1> USE DEF HostInv, HostTypeOK, OneWriteUnderWay
<1>1. CASE \/ OpenPort \/ InstallSignals \/ Run \/ Stop \/ Send \/ RunReturns
           \/ PortError \/ Cleanup \/ UNCHANGED hostVars
  BY <1>1 DEF OpenPort, InstallSignals, Run, Stop, Send, RunReturns, PortError,
              Cleanup, hostVars, portVars
<1>2. CASE RunWriteTask
  <2>1. Head(posted) \in Nat
    BY <1>2, HeadTailProperties DEF RunWriteTask
  <2>2. /\ write_queue' # <<>> /\ Len(write_queue') = Len(write_queue) + 1
        /\ Len(write_queue) = 0 <=> write_queue = <<>>
    BY SMTT(30), <1>2, <2>1, AppendProperties, EmptySeq DEF RunWriteTask
  <2> QED BY <1>2, <2>2, LenProperties DEF RunWriteTask
<1>3. CASE WriteDone
  BY <1>3 DEF WriteDone
<1>4. CASE Flush
  BY <1>4 DEF Flush
<1> QED BY <1>1, <1>2, <1>3, <1>4 DEF HostNext, LoopStep

LEMMA OrderKept ==
  ASSUME OrderInv, line' = line, sends' = sends,
         (serial' = serial /\ Waiting' = Waiting) \/ serial' # "open"
  PROVE  OrderInv'
BY DEF OrderInv, LineInOrder

LEMMA OrderShifted ==
  ASSUME HostInv, Waiting # <<>>, serial = "open", NEW whole \in BOOLEAN,
         line' = Append(line, [frame |-> Head(Waiting), whole |-> whole]),
         sends' = sends,
         \/ whole = TRUE /\ serial' = serial /\ Waiting' = Tail(Waiting)
         \/ serial' # "open"
  PROVE  OrderInv'
<1> DEFINE last == Len(line) + 1
<1>1. /\ DOMAIN line = 1 .. Len(line) /\ Len(line) \in Nat
      /\ DOMAIN line' = 1 .. last
      /\ \A i \in DOMAIN line : line'[i] = line[i]
      /\ line'[last].frame = Waiting[1] /\ line'[last].whole = whole
      /\ 1 \in DOMAIN Waiting /\ Waiting \in Seq(Nat)
  <2>1. [frame |-> Head(Waiting), whole |-> whole] \in LineItem
    BY LineGrows, HeadTailProperties DEF LineItem
  <2> QED BY <2>1, LineGrows, AppendProperties, LenProperties DEF HostInv, HostTypeOK
<1>2. ASSUME NEW i \in DOMAIN line'
      PROVE  i \in DOMAIN line \/ i = last
  BY <1>1
<1>3. /\ \A i \in DOMAIN line : line[i].whole /\ line[i].frame < Waiting[1]
      /\ Waiting[1] <= sends
  BY <1>1 DEF HostInv, OrderInv
<1>4. LineInOrder'
  <2> SUFFICES ASSUME NEW i \in DOMAIN line', NEW j \in DOMAIN line', i < j
               PROVE  line'[i].whole /\ line'[i].frame < line'[j].frame
    BY DEF LineInOrder
  <2>1. i \in DOMAIN line
    BY <1>1
  <2>2. CASE j \in DOMAIN line
    BY <2>1, <2>2, <1>1, <1>3 DEF HostInv, OrderInv, LineInOrder
  <2>3. CASE j = last
    BY <2>1, <2>3, <1>1, <1>3
  <2> QED BY <1>2, <2>2, <2>3
<1>5. \A i \in DOMAIN line' : line'[i].frame <= sends
  BY <1>1, <1>2, <1>3 DEF HostInv, OrderInv
<1>6. CASE serial' # "open"
  BY <1>4, <1>5, <1>6 DEF OrderInv
<1>7. CASE whole = TRUE /\ serial' = serial /\ Waiting' = Tail(Waiting)
  <2>1. /\ Waiting' \in Seq(Nat) /\ DOMAIN Waiting' = 1 .. Len(Waiting) - 1
        /\ Len(Waiting) \in Nat /\ DOMAIN Waiting = 1 .. Len(Waiting)
        /\ \A i \in DOMAIN Waiting' : Waiting'[i] = Waiting[i + 1]
    BY <1>1, <1>7, HeadTailProperties, LenProperties
  <2>2. \A i \in DOMAIN Waiting' : i + 1 \in DOMAIN Waiting /\ 1 < i + 1
    BY <2>1
  <2>3. \A i \in DOMAIN line' : line'[i].whole
    BY <1>1, <1>2, <1>3, <1>7
  <2>4. \A i, j \in DOMAIN Waiting' : i < j => Waiting'[i] < Waiting'[j]
    BY <2>1, <2>2 DEF HostInv, OrderInv
  <2>5. ASSUME NEW i \in DOMAIN line', NEW j \in DOMAIN Waiting'
        PROVE  line'[i].frame < Waiting'[j]
    <3>1. Waiting'[j] = Waiting[j + 1] /\ Waiting[1] < Waiting[j + 1]
      BY <2>1, <2>2, <1>1 DEF HostInv, OrderInv
    <3>2. i \in DOMAIN line => line[i].frame < Waiting[j + 1]
      BY <2>2 DEF HostInv, OrderInv
    <3> QED BY <3>1, <3>2, <1>1, <1>2
  <2>6. \A j \in DOMAIN Waiting' : Waiting'[j] <= sends'
    BY <2>1, <2>2 DEF HostInv, OrderInv
  <2> QED BY <1>4, <1>5, <2>3, <2>4, <2>5, <2>6 DEF OrderInv
<1> QED BY <1>6, <1>7

LEMMA OrderExtended ==
  ASSUME HostInv, Send, serial # "null"
  PROVE  OrderInv'
<1>1. /\ Waiting' = Append(Waiting, sends + 1) /\ line' = line
      /\ serial' = serial /\ sends' = sends + 1 /\ sends \in Nat
  BY SendExtends DEF HostInv, HostTypeOK
<1>2. /\ Waiting \in Seq(Nat) /\ DOMAIN Waiting = 1 .. Len(Waiting)
      /\ Len(Waiting) \in Nat /\ DOMAIN Waiting' = 1 .. Len(Waiting) + 1
      /\ \A i \in DOMAIN Waiting : Waiting'[i] = Waiting[i] /\ Waiting[i] \in Nat
      /\ Waiting'[Len(Waiting) + 1] = sends + 1
  BY <1>1, WaitingType, AppendProperties, LenProperties, ElementOfSeq DEF HostInv
<1>3. \A i \in DOMAIN Waiting' : i \in DOMAIN Waiting \/ i = Len(Waiting) + 1
  BY <1>2
<1>4. \A i \in DOMAIN line : line[i] \in LineItem
  BY ElementOfSeq, LenProperties DEF HostInv, HostTypeOK
<1>5. \A i \in DOMAIN line : line[i].frame \in Nat /\ line[i].frame <= sends
  BY <1>4 DEF LineItem, HostInv, OrderInv
<1>6. LineInOrder' /\ \A i \in DOMAIN line' : line'[i].frame <= sends'
  BY <1>1, <1>5 DEF HostInv, OrderInv, LineInOrder
<1>7. ASSUME serial = "open"
      PROVE  /\ \A i, j \in DOMAIN Waiting' : i < j => Waiting'[i] < Waiting'[j]
             /\ \A i \in DOMAIN line, j \in DOMAIN Waiting' : line[i].frame < Waiting'[j]
             /\ \A j \in DOMAIN Waiting' : Waiting'[j] <= sends + 1
  <2>1. \A j \in DOMAIN Waiting : Waiting[j] <= sends
    BY <1>7 DEF HostInv, OrderInv
  <2>2. ASSUME NEW i \in DOMAIN Waiting', NEW j \in DOMAIN Waiting', i < j
        PROVE  Waiting'[i] < Waiting'[j]
    <3>1. i \in DOMAIN Waiting
      BY <2>2, <1>2
    <3>2. CASE j \in DOMAIN Waiting
      BY <3>1, <3>2, <2>2, <1>2, <1>7 DEF HostInv, OrderInv
    <3>3. CASE j = Len(Waiting) + 1
      BY <3>1, <3>3, <2>1, <1>1, <1>2
    <3> QED BY <3>2, <3>3, <1>3
  <2>3. ASSUME NEW i \in DOMAIN line, NEW j \in DOMAIN Waiting'
        PROVE  line[i].frame < Waiting'[j]
    <3>1. CASE j \in DOMAIN Waiting
      BY <3>1, <1>2, <1>7 DEF HostInv, OrderInv
    <3>2. CASE j = Len(Waiting) + 1
      BY <3>2, <1>1, <1>2, <1>5
    <3> QED BY <3>1, <3>2, <1>3
  <2>4. \A j \in DOMAIN Waiting' : Waiting'[j] <= sends + 1
    BY <2>1, <1>1, <1>2, <1>3
  <2> QED BY <2>2, <2>3, <2>4
<1> QED BY <1>1, <1>6, <1>7 DEF HostInv, OrderInv

LEMMA OrderStep == HostInv /\ [HostNext]_hostVars => OrderInv'
<1> SUFFICES ASSUME HostInv, [HostNext]_hostVars PROVE OrderInv'
  OBVIOUS
<1>1. CASE OpenPort
  <2>1. line' = line /\ Waiting' = <<>> /\ sends' = sends /\ line = <<>>
    BY <1>1 DEF OpenPort, portVars, HostInv, PhaseInv, OneWriteUnderWay, HostTypeOK,
                Waiting
  <2> QED BY <2>1 DEF OrderInv, LineInOrder
<1>2. CASE InstallSignals \/ Run \/ Stop \/ RunReturns \/ UNCHANGED hostVars
  <2>1. UNCHANGED <<portVars, sends, serial>>
    BY <1>2 DEF InstallSignals, Run, Stop, RunReturns, hostVars
  <2>2. line' = line /\ Waiting' = Waiting
    BY <2>1 DEF portVars, Waiting
  <2> QED BY <2>1, <2>2, OrderKept DEF HostInv
<1>3. CASE Send
  <2>1. CASE serial # "null"
    BY <1>3, <2>1, OrderExtended
  <2>2. CASE serial = "null"
    <3>1. /\ line' = line /\ sends' = sends + 1 /\ serial' # "open" /\ sends \in Nat
      BY <1>3, <2>2 DEF Send, HostInv, HostTypeOK
    <3>2. \A i \in DOMAIN line : line[i] \in LineItem
      BY ElementOfSeq, LenProperties DEF HostInv, HostTypeOK
    <3>3. \A i \in DOMAIN line : line[i].frame \in Nat /\ line[i].frame <= sends
      BY <3>2 DEF LineItem, HostInv, OrderInv
    <3> QED BY <3>1, <3>3 DEF HostInv, OrderInv, LineInOrder
  <2> QED BY <2>1, <2>2
<1>4. CASE RunWriteTask \/ WriteDone
  BY <1>4, WriteTaskKeeps, WriteDoneKeeps, OrderKept DEF HostInv
<1>5. CASE Flush
  BY <1>5, FlushShifts, OrderShifted
<1>6. CASE PortError \/ Cleanup
  <2>1. CutWrite /\ serial' # "open" /\ sends' = sends
    BY <1>6 DEF PortError, Cleanup
  <2>2. CASE line' = line
    BY <2>1, <2>2, OrderKept DEF HostInv
  <2>3. CASE line' # line
    BY <2>1, <2>3, CutTears, OrderShifted
  <2> QED BY <2>2, <2>3
<1> QED BY <1>1, <1>2, <1>3, <1>4, <1>5, <1>6 DEF HostNext, LoopStep

LEMMA HostInvStep == HostInv /\ [HostNext]_hostVars => HostInv'
  BY HostTypeStep, PhaseStep, OneWriteStep, OrderStep DEF HostInv

(***************************************************************************)
(* The inductive invariant of the serial host, in whatever program: the    *)
(* port lives with the loop, and what waits, in write_queue and in posted  *)
(* tasks, follows in order what is on the line.                            *)
(***************************************************************************)
THEOREM HostInvariant == HostSpec => []HostInv
  BY HostInvInit, HostInvStep, PTL DEF HostSpec

(***************************************************************************)
(* At most one async_write is under way (serial_port.cpp): the buffer it   *)
(* works on is the front of write_queue, and no second write overlaps it.  *)
(***************************************************************************)
THEOREM OneWriteAtATime == HostSpec => []OneWriteUnderWay
<1>1. HostInv => OneWriteUnderWay
  BY DEF HostInv
<1> QED BY <1>1, HostInvariant, PTL

(***************************************************************************)
(* The device gets frames in the order of the calls to                     *)
(* serial_try_send_data, none twice, and none after one cut short.         *)
(***************************************************************************)
THEOREM FramesInOrder == HostSpec => []LineInOrder
<1>1. HostInv => LineInOrder
  BY DEF HostInv, OrderInv
<1> QED BY <1>1, HostInvariant, PTL
-----------------------------------------------------------------------------
(* The host implements SerialLine under the mapping of the Line instance. *)

LineWaiting == IF serial # "open" THEN <<>> ELSE Waiting

LEMMA MappedInit == HostInit => Line!Init
  BY DEF HostInit, Line!Init

LEMMA MappedOpen ==
  ASSUME HostInv, OpenPort
  PROVE  Line!GoUp
<1>1. /\ serial # "open" /\ serial' = "open" /\ line = <<>>
      /\ posted = <<>> /\ write_queue = <<>> /\ ~flushed
      /\ UNCHANGED <<posted, write_queue, flushed, line>>
  BY DEF OpenPort, portVars, HostInv, PhaseInv, OneWriteUnderWay, HostTypeOK
<1>2. LineWaiting = <<>> /\ LineWaiting' = <<>>
  BY <1>1 DEF LineWaiting, Waiting
<1> QED BY <1>1, <1>2 DEF Line!GoUp, LineWaiting, Waiting

LEMMA MappedSend ==
  ASSUME HostInv, Send
  PROVE  Line!Accept \/ UNCHANGED Line!lineVars
<1>1. CASE serial = "open"
  <2>1. /\ Waiting' = Append(Waiting, sends + 1) /\ line' = line
        /\ serial' = "open"
    BY <1>1, SendExtends
  <2>2. sends + 1 \in 1 .. MaxSends
    BY DEF Send, HostInv, HostTypeOK
  <2> QED BY <1>1, <2>1, <2>2 DEF Line!Accept, Waiting
<1>2. CASE serial # "open"
  BY <1>2 DEF Send, Line!lineVars
<1> QED BY <1>1, <1>2

LEMMA MappedFlush ==
  ASSUME HostInv, Flush
  PROVE  Line!Leave
BY FlushShifts DEF Line!Leave, Line!Whole, Waiting

LEMMA MappedDown ==
  ASSUME HostInv, PortError \/ Cleanup
  PROVE  Line!GoDown \/ UNCHANGED Line!lineVars
<1>1. CutWrite /\ serial' # "open"
  BY DEF PortError, Cleanup
<1>2. CASE serial = "open"
  BY <1>1, <1>2, CutTears DEF Line!GoDown, Line!Torn, Waiting
<1>3. CASE serial # "open"
  BY <1>1, <1>3 DEF CutWrite, Line!lineVars
<1> QED BY <1>2, <1>3

LEMMA MappedQuiet ==
  ASSUME HostInv,
         \/ InstallSignals \/ Run \/ Stop \/ RunReturns \/ UNCHANGED hostVars
         \/ RunWriteTask \/ WriteDone
  PROVE  UNCHANGED Line!lineVars
<1>1. Waiting' = Waiting /\ line' = line /\ serial' = serial
  <2>1. CASE RunWriteTask \/ WriteDone
    BY <2>1, WriteTaskKeeps, WriteDoneKeeps
  <2>2. CASE InstallSignals \/ Run \/ Stop \/ RunReturns \/ UNCHANGED hostVars
    <3>1. UNCHANGED <<portVars, serial>>
      BY <2>2 DEF InstallSignals, Run, Stop, RunReturns, hostVars
    <3> QED BY <3>1 DEF portVars, Waiting
  <2> QED BY <2>1, <2>2
<1> QED BY <1>1 DEF Line!lineVars, Waiting

(***************************************************************************)
(* What SerialPort and main_common promise: frames leave in the order they *)
(* were accepted, or are lost together when the port goes down.            *)
(***************************************************************************)
THEOREM HostImplementsLine == HostSpec => LineSpec
<1>1. HostInv /\ [HostNext]_hostVars => [Line!Next]_(Line!lineVars)
  <2> SUFFICES ASSUME HostInv, [HostNext]_hostVars
               PROVE  [Line!Next]_(Line!lineVars)
    OBVIOUS
  <2>1. CASE OpenPort
    BY <2>1, MappedOpen DEF Line!Next
  <2>2. CASE Send
    BY <2>2, MappedSend DEF Line!Next
  <2>3. CASE Flush
    BY <2>3, MappedFlush DEF Line!Next
  <2>4. CASE PortError \/ Cleanup
    BY <2>4, MappedDown DEF Line!Next
  <2>5. CASE \/ InstallSignals \/ Run \/ Stop \/ RunReturns \/ UNCHANGED hostVars
             \/ RunWriteTask \/ WriteDone
    BY <2>5, MappedQuiet
  <2> QED BY <2>1, <2>2, <2>3, <2>4, <2>5 DEF HostNext, LoopStep
<1> QED BY <1>1, MappedInit, HostInvariant, PTL DEF HostSpec, LineSpec, Line!Spec
-----------------------------------------------------------------------------
(* The writer. *)

LEMMA WriterStepIsHostStep == [Next]_allVars => [HostNext]_hostVars
<1> SUFFICES ASSUME [Next]_allVars PROVE [HostNext]_hostVars
  OBVIOUS
<1>1. CASE MainStep
  <2>1. CASE MainEnds \/ OpenFails \/ ExitsOnError
    BY <2>1 DEF MainEnds, OpenFails, ExitsOnError
  <2>2. CASE Opens \/ Loops
    BY <2>2 DEF Opens, Loops, HostNext
  <2>3. CASE HandleSignal
    BY <2>3 DEF HandleSignal, HostNext
  <2> QED BY <1>1, <2>1, <2>2, <2>3 DEF MainStep
<1>2. CASE LoopFails
  BY <1>2 DEF LoopFails, HostNext
<1>3. CASE SenderStep
  BY <1>3 DEF SenderStep, SenderSends, SenderRaises, HostNext
<1>4. CASE UserInterrupts
  BY <1>4 DEF UserInterrupts
<1>5. CASE UNCHANGED allVars
  BY <1>5 DEF allVars
<1> QED BY <1>1, <1>2, <1>3, <1>4, <1>5 DEF Next

(***************************************************************************)
(* The writer is a host program: all that is proved of HostSpec holds of   *)
(* it, its unsynchronised second thread included.                          *)
(***************************************************************************)
THEOREM WriterIsHost == Spec => HostSpec
<1>1. Init => HostInit
  BY DEF Init, ProgramInit
<1> QED BY <1>1, WriterStepIsHostStep, PTL DEF Spec, HostSpec
-----------------------------------------------------------------------------
Sent(i) == [frame |-> i, whole |-> TRUE]

\* No sleep is too short, nobody interrupts, and the port holds.
Undisturbed ==
  sleeps_suffice /\ ~interrupted /\ ~error /\ ended \in {"no", "ok"}

\* Line and queue together are the frames sent.
NothingMissing ==
  /\ Len(line) + Len(Waiting) = sends
  /\ \A i \in DOMAIN line : line[i] = Sent(i)
  /\ \A j \in DOMAIN Waiting : Waiting[j] = Len(line) + j

\* Then the signal is the sender's last act: until then nothing stops the
\* loop, and from then on line and queue are settled.
TransmitInv ==
  Undisturbed =>
    /\ sender # "done" => ~signalled /\ ~stopped /\ loop \in {"before", "running"}
    /\ loop = "before" => sender = "sending" /\ sends = 0 /\ posted = <<>>
    /\ sender # "sending" => sends = MaxSends
    /\ loop = "running" => NothingMissing
    /\ sender = "done" =>
         /\ posted = <<>> /\ write_queue = <<>>
         /\ line = [i \in 1 .. MaxSends |-> Sent(i)]
    /\ ended = "ok" => sender = "done"

WriterInv == HostInv /\ (ended = "ok" => ~error) /\ TransmitInv

LEMMA StaysUndisturbed ==
  ASSUME [Next]_allVars, Undisturbed'
  PROVE  Undisturbed
<1> USE DEF Undisturbed
<1>1. CASE MainStep
  <2>1. ended = "no" /\ UNCHANGED <<writerVars, error>>
    BY <1>1 DEF MainStep, MainEnds, InitReturned, OpenFails, ExitsOnError, Opens, Loops,
                HandleSignal, programVars
  <2> QED BY <2>1 DEF writerVars
<1>2. CASE LoopFails /\ UNCHANGED writerVars
  BY <1>2 DEF LoopFails
<1>3. CASE SenderStep
  <2>1. ended = "no" /\ UNCHANGED <<sleeps_suffice, interrupted, error>>
    BY <1>3 DEF SenderStep, SenderSends, SenderRaises
  <2> QED BY <2>1
<1>4. CASE UserInterrupts
  BY <1>4 DEF UserInterrupts
<1>5. CASE UNCHANGED allVars
  BY <1>5 DEF allVars, programVars, writerVars
<1> QED BY <1>1, <1>2, <1>3, <1>4, <1>5 DEF Next

LEMMA MissingNothingKept ==
  ASSUME NothingMissing, line' = line, Waiting' = Waiting, sends' = sends
  PROVE  NothingMissing'
BY DEF NothingMissing

LEMMA MissingNothingFlush ==
  ASSUME HostInv, NothingMissing, Flush
  PROVE  NothingMissing'
<1>1. /\ Waiting # <<>> /\ Waiting' = Tail(Waiting) /\ Waiting \in Seq(Nat)
      /\ line' = Append(line, [frame |-> Waiting[1], whole |-> TRUE])
      /\ sends' = sends /\ 1 \in DOMAIN Waiting /\ Waiting[1] \in Nat
  <2>1. /\ Waiting # <<>> /\ Waiting' = Tail(Waiting)
        /\ line' = Append(line, [frame |-> Head(Waiting), whole |-> TRUE])
        /\ sends' = sends
    BY FlushShifts
  <2>2. /\ Head(Waiting) = Waiting[1] /\ 1 \in DOMAIN Waiting
        /\ Waiting \in Seq(Nat)
    BY <2>1, LineGrows
  <2>3. Head(Waiting) \in Nat
    BY <2>1, <2>2, HeadTailProperties
  <2> QED BY <2>1, <2>2, <2>3
<1>2. Waiting[1] = Len(line) + 1 /\ Len(line) \in Nat
  BY <1>1, LenProperties DEF NothingMissing, HostInv, HostTypeOK
<1>3. line' = Append(line, Sent(Len(line) + 1)) /\ Sent(Len(line) + 1) \in LineItem
  BY <1>1, <1>2 DEF Sent, LineItem
<1>4. /\ Len(line') = Len(line) + 1 /\ DOMAIN line' = 1 .. Len(line) + 1
      /\ DOMAIN line = 1 .. Len(line)
      /\ \A i \in DOMAIN line : line'[i] = line[i]
      /\ line'[Len(line) + 1] = Sent(Len(line) + 1)
  BY <1>3, AppendProperties, LenProperties DEF HostInv, HostTypeOK
<1>5. /\ Len(Waiting') = Len(Waiting) - 1 /\ DOMAIN Waiting' = 1 .. Len(Waiting) - 1
      /\ DOMAIN Waiting = 1 .. Len(Waiting) /\ Len(Waiting) \in Nat
      /\ \A j \in DOMAIN Waiting' : Waiting'[j] = Waiting[j + 1]
  BY <1>1, HeadTailProperties, LenProperties
<1>6. \A i \in DOMAIN line' : line'[i] = Sent(i)
  BY <1>2, <1>4 DEF NothingMissing
<1>7. \A j \in DOMAIN Waiting' : Waiting'[j] = Len(line') + j
  <2> SUFFICES ASSUME NEW j \in DOMAIN Waiting'
               PROVE  Waiting'[j] = Len(line') + j
    OBVIOUS
  <2>1. j + 1 \in DOMAIN Waiting /\ j \in Nat
    BY <1>5
  <2>2. Waiting[j + 1] = Len(line) + (j + 1)
    BY <2>1 DEF NothingMissing
  <2> QED BY <1>2, <1>4, <1>5, <2>1, <2>2
<1> QED BY <1>1, <1>2, <1>4, <1>5, <1>6, <1>7 DEF NothingMissing

LEMMA MissingNothingSend ==
  ASSUME HostInv, NothingMissing, Send, serial # "null"
  PROVE  NothingMissing'
<1>1. /\ Waiting' = Append(Waiting, sends + 1) /\ line' = line
      /\ sends' = sends + 1 /\ sends + 1 \in Nat /\ Waiting \in Seq(Nat)
  BY SendExtends, WaitingType DEF HostInv, HostTypeOK
<1>2. /\ Len(Waiting') = Len(Waiting) + 1 /\ DOMAIN Waiting' = 1 .. Len(Waiting) + 1
      /\ DOMAIN Waiting = 1 .. Len(Waiting) /\ Len(Waiting) \in Nat
      /\ \A j \in DOMAIN Waiting : Waiting'[j] = Waiting[j]
      /\ Waiting'[Len(Waiting) + 1] = sends + 1
  BY <1>1, AppendProperties, LenProperties
<1>3. Len(line) \in Nat
  BY LenProperties DEF HostInv, HostTypeOK
<1>4. \A j \in DOMAIN Waiting' : Waiting'[j] = Len(line) + j
  BY <1>1, <1>2, <1>3 DEF NothingMissing
<1> QED BY <1>1, <1>2, <1>3, <1>4 DEF NothingMissing

LEMMA TransmitOpens ==
  ASSUME WriterInv, Undisturbed, Opens, UNCHANGED writerVars
  PROVE  TransmitInv'
<1> USE DEF WriterInv, TransmitInv, Undisturbed, Opens, programVars, writerVars
<1>1. CASE OpenPort \/ InstallSignals
  BY <1>1 DEF OpenPort, InstallSignals, portVars
<1>2. CASE Run
  <2>1. /\ line = <<>> /\ Waiting = <<>> /\ sends = 0
        /\ UNCHANGED <<posted, write_queue, flushed, line, sends>>
    BY <1>2 DEF Run, portVars, Waiting, HostInv, PhaseInv, OneWriteUnderWay, HostTypeOK
  <2>2. line' = <<>> /\ Waiting' = <<>> /\ sends' = 0
    BY <2>1 DEF Waiting
  <2>3. NothingMissing'
    BY <2>2 DEF NothingMissing
  <2> QED BY <1>2, <2>1, <2>3 DEF Run, portVars
<1> QED BY <1>1, <1>2

LEMMA TransmitLoops ==
  ASSUME WriterInv, Undisturbed, Loops, UNCHANGED writerVars
  PROVE  TransmitInv'
<1> USE DEF WriterInv, TransmitInv, Undisturbed, Loops, programVars, writerVars
<1>1. CASE RunWriteTask \/ WriteDone
  <2>1. sender # "done" /\ loop = "running"
    BY <1>1 DEF RunWriteTask, WriteDone, Dispatching, HostInv, OneWriteUnderWay, HostTypeOK
  <2>2. NothingMissing'
    BY <1>1, <2>1, WriteTaskKeeps, WriteDoneKeeps, MissingNothingKept
  <2> QED BY <1>1, <2>1, <2>2 DEF RunWriteTask, WriteDone, Dispatching
<1>2. CASE Flush
  <2>1. sender # "done" /\ loop = "running"
    BY <1>2 DEF Flush, HostInv, PhaseInv, OneWriteUnderWay, HostTypeOK
  <2>2. NothingMissing'
    BY <1>2, <2>1, MissingNothingFlush
  <2> QED BY <1>2, <2>1, <2>2 DEF Flush
<1>3. CASE RunReturns
  BY <1>3 DEF RunReturns, portVars
<1>4. CASE Cleanup
  <2>1. sender = "done" /\ writes = 0 /\ loop' = "over"
    BY <1>4 DEF Cleanup, HostInv, OneWriteUnderWay
  <2> QED BY <1>4, <2>1 DEF Cleanup, CutWrite
<1> QED BY <1>1, <1>2, <1>3, <1>4 DEF LoopStep

LEMMA TransmitSends ==
  ASSUME WriterInv, Undisturbed, SenderSends
  PROVE  TransmitInv'
<1>1. /\ sender = "sending" /\ loop = "running" /\ NothingMissing /\ Send
      /\ ~signalled /\ ~stopped /\ ended = "no"
  BY DEF SenderSends, Slept, WriterInv, TransmitInv, Undisturbed
<1>2. NothingMissing'
  BY <1>1, MissingNothingSend DEF WriterInv, HostInv, PhaseInv
<1> QED BY <1>1, <1>2 DEF SenderSends, Send, TransmitInv, Undisturbed

LEMMA TransmitRaises ==
  ASSUME WriterInv, Undisturbed, SenderRaises, Undisturbed'
  PROVE  TransmitInv'
<1>1. /\ sender = "raising" /\ ended = "no" /\ sender' = "done" /\ ended' = "no"
      /\ UNCHANGED hostVars
  BY DEF SenderRaises, Interrupt, Undisturbed
<1>2. /\ UNCHANGED <<loop, posted, write_queue, flushed, line, sends>>
      /\ NothingMissing' <=> NothingMissing
  BY <1>1 DEF hostVars, portVars, NothingMissing, Waiting
<1>3. /\ loop = "running" /\ posted = <<>> /\ write_queue = <<>> /\ sends = MaxSends
      /\ NothingMissing
  BY <1>1 DEF SenderRaises, Slept, Dispatching, WriterInv, TransmitInv, Undisturbed
<1>4. Waiting = <<>>
  BY <1>3 DEF Waiting, WriterInv, HostInv, OneWriteUnderWay, HostTypeOK
<1>5. line \in Seq(LineItem) /\ Len(line) = MaxSends /\ \A i \in DOMAIN line : line[i] = Sent(i)
  BY <1>3, <1>4, LenProperties DEF NothingMissing, WriterInv, HostInv, HostTypeOK
<1>6. line = [i \in 1 .. MaxSends |-> Sent(i)]
  <2>1. line = [i \in 1 .. MaxSends |-> line[i]] /\ DOMAIN line = 1 .. MaxSends
    BY <1>5, LenProperties
  <2> QED BY <1>5, <2>1
<1> QED BY <1>1, <1>2, <1>3, <1>6 DEF TransmitInv

LEMMA TransmitStep == WriterInv /\ [Next]_allVars => TransmitInv'
<1> SUFFICES ASSUME WriterInv, [Next]_allVars, Undisturbed'
             PROVE  TransmitInv'
  BY DEF TransmitInv
<1>1. Undisturbed
  BY StaysUndisturbed
<1>2. CASE Opens /\ UNCHANGED writerVars
  BY <1>1, <1>2, TransmitOpens
<1>3. CASE Loops /\ UNCHANGED writerVars
  BY <1>1, <1>3, TransmitLoops
<1>4. CASE HandleSignal /\ UNCHANGED writerVars
  <2>1. sender = "done" /\ UNCHANGED <<loop, portVars, sends, sender, ended>>
    BY <1>1, <1>4 DEF HandleSignal, Stop, WriterInv, TransmitInv, writerVars
  <2>2. NothingMissing' <=> NothingMissing
    BY <2>1 DEF portVars, NothingMissing, Waiting
  <2> QED BY <1>1, <2>1, <2>2 DEF WriterInv, TransmitInv, portVars
<1>5. CASE MainEnds
  <2>1. sender = "done" /\ UNCHANGED <<hostVars, signalled, sender>>
    BY <1>5 DEF MainEnds, writerVars
  <2>2. /\ NothingMissing' <=> NothingMissing
        /\ UNCHANGED <<stopped, loop, posted, write_queue, line, sends>>
    BY <2>1 DEF hostVars, portVars, NothingMissing, Waiting
  <2> QED BY <1>1, <2>1, <2>2 DEF WriterInv, TransmitInv
<1>6. CASE OpenFails \/ ExitsOnError \/ LoopFails \/ UserInterrupts
  BY <1>6 DEF OpenFails, ExitsOnError, LoopFails, UserInterrupts, Undisturbed
<1>7. CASE SenderSends
  BY <1>1, <1>7, TransmitSends
<1>8. CASE SenderRaises
  BY <1>1, <1>8, TransmitRaises
<1>9. CASE UNCHANGED allVars
  <2>1. UNCHANGED <<hostVars, signalled, sender, ended>>
    BY <1>9 DEF allVars, programVars, writerVars
  <2>2. /\ NothingMissing' <=> NothingMissing
        /\ UNCHANGED <<stopped, loop, posted, write_queue, line, sends>>
    BY <2>1 DEF hostVars, portVars, NothingMissing, Waiting
  <2> QED BY <1>1, <2>1, <2>2 DEF WriterInv, TransmitInv
<1> QED BY <1>2, <1>3, <1>4, <1>5, <1>6, <1>7, <1>8, <1>9
        DEF Next, MainStep, SenderStep

LEMMA EndStep == WriterInv /\ [Next]_allVars => (ended = "ok" => ~error)'
<1> SUFFICES ASSUME WriterInv, [Next]_allVars, ended' = "ok"
             PROVE  ~error'
  OBVIOUS
<1>1. CASE MainStep
  BY <1>1 DEF MainStep, MainEnds, InitReturned, OpenFails, ExitsOnError, Opens, Loops,
              HandleSignal, programVars
<1>2. CASE LoopFails
  BY <1>2 DEF LoopFails
<1>3. CASE SenderStep \/ UserInterrupts
  BY <1>3 DEF SenderStep, SenderSends, SenderRaises, UserInterrupts, Interrupt
<1>4. CASE UNCHANGED allVars
  BY <1>4 DEF allVars, programVars, WriterInv
<1> QED BY <1>1, <1>2, <1>3, <1>4 DEF Next

(***************************************************************************)
(* The writer's inductive invariant: the host's, and, as long as nothing   *)
(* disturbs the writer, line and queue together are the frames sent.       *)
(***************************************************************************)
THEOREM WriterInvariant == Spec => []WriterInv
<1>1. Init => WriterInv
  <2> SUFFICES ASSUME Init PROVE WriterInv
    OBVIOUS
  <2>1. HostInit
    BY DEF Init, ProgramInit
  <2>2. TransmitInv /\ (ended = "ok" => ~error)
    BY <2>1 DEF Init, ProgramInit, HostInit, TransmitInv
  <2> QED BY <2>1, <2>2, HostInvInit DEF WriterInv
<1>2. WriterInv /\ [Next]_allVars => WriterInv'
  BY TransmitStep, EndStep, WriterStepIsHostStep, HostInvStep DEF WriterInv
<1> QED BY <1>1, <1>2, PTL DEF Spec

(***************************************************************************)
(* A writer whose sleeps are long enough, that nobody interrupts and that  *)
(* ends with 0 has transmitted everything: its own SIGINT (writer/main.cpp)*)
(* comes after the last byte of the last frame, however many there are.    *)
(***************************************************************************)
THEOREM EverythingTransmitted == Spec => []AllTransmitted
<1>1. WriterInv => AllTransmitted
  BY DEF WriterInv, TransmitInv, Undisturbed, AllTransmitted, Sent
<1> QED BY <1>1, WriterInvariant, PTL
-----------------------------------------------------------------------------
(* The ROS converters. *)

\* What main_common_init and the callbacks of a converter do to the host.
LEMMA ConverterUsesHost ==
  /\ RosConverter!HostInit => HostInit
  /\ RosConverter!Opens \/ RosConverter!Loops \/ RosConverter!HandleSignal
       \/ RosConverter!LoopFails => HostNext
  /\ RosConverter!Send => Send
  /\ UNCHANGED RosConverter!hostVars => UNCHANGED hostVars
<1>1. RosConverter!HostInit => HostInit
  BY DEF RosConverter!HostInit, HostInit
<1>2. /\ UNCHANGED RosConverter!hostVars <=> UNCHANGED hostVars
      /\ UNCHANGED RosConverter!portVars <=> UNCHANGED portVars
  BY DEF RosConverter!hostVars, RosConverter!portVars, hostVars, portVars
<1>3. /\ RosConverter!OpenPort <=> OpenPort
      /\ RosConverter!InstallSignals <=> InstallSignals
      /\ RosConverter!Run <=> Run
  BY DEF RosConverter!OpenPort, RosConverter!InstallSignals, RosConverter!Run,
         RosConverter!portVars, OpenPort, InstallSignals, Run, portVars
<1>4. RosConverter!CutWrite <=> CutWrite
  BY DEF RosConverter!CutWrite, CutWrite
<1>5. RosConverter!Dispatching <=> Dispatching
  BY DEF RosConverter!Dispatching, Dispatching
<1>6. /\ RosConverter!RunWriteTask <=> RunWriteTask
      /\ RosConverter!WriteDone <=> WriteDone
  BY <1>5 DEF RosConverter!RunWriteTask, RosConverter!WriteDone, RunWriteTask, WriteDone
<1>7. RosConverter!RunReturns <=> RunReturns
  BY <1>2 DEF RosConverter!RunReturns, RunReturns
<1>8. /\ RosConverter!Cleanup <=> Cleanup
      /\ RosConverter!PortError <=> PortError
  BY <1>4, <1>5 DEF RosConverter!Cleanup, RosConverter!PortError, Cleanup, PortError
<1>9. RosConverter!Flush <=> Flush
  BY DEF RosConverter!Flush, Flush
<1>10. RosConverter!Stop <=> Stop
  BY <1>2 DEF RosConverter!Stop, Stop
<1>11. RosConverter!Send => Send
  BY DEF RosConverter!Send, Send
<1>12. RosConverter!Opens => HostNext
  BY <1>3 DEF RosConverter!Opens, HostNext
<1>13. RosConverter!Loops => HostNext
  BY <1>6, <1>7, <1>8, <1>9
     DEF RosConverter!Loops, RosConverter!LoopStep, HostNext, LoopStep
<1>14. RosConverter!HandleSignal \/ RosConverter!LoopFails => HostNext
  BY <1>8, <1>10 DEF RosConverter!HandleSignal, RosConverter!LoopFails, HostNext
<1> QED BY <1>1, <1>2, <1>11, <1>12, <1>13, <1>14

LEMMA ConverterStepIsHostStep ==
  [RosConverter!Next]_(RosConverter!allVars) => [HostNext]_hostVars
<1> SUFFICES ASSUME [RosConverter!Next]_(RosConverter!allVars)
             PROVE  [HostNext]_hostVars
  OBVIOUS
<1>1. CASE RosConverter!MainInInit
  <2>1. CASE RosConverter!Opens \/ RosConverter!Loops \/ RosConverter!HandleSignal
    BY <2>1, ConverterUsesHost
  <2>2. CASE RosConverter!ExitsOnError
    BY <2>2, ConverterUsesHost DEF RosConverter!ExitsOnError
  <2> QED BY <1>1, <2>1, <2>2 DEF RosConverter!MainInInit
<1>2. CASE RosConverter!InitFails
  <2>1. CASE RosConverter!OpenFails
    BY <2>1, ConverterUsesHost DEF RosConverter!OpenFails
  <2>2. CASE RosConverter!LoopFails
    BY <2>2, ConverterUsesHost
  <2> QED BY <1>2, <2>1, <2>2 DEF RosConverter!InitFails
<1>3. CASE RosConverter!MainStep
  BY <1>3, ConverterUsesHost
     DEF RosConverter!MainStep, RosConverter!StartSpin, RosConverter!ShutsDown,
         RosConverter!Joins
<1>4. CASE RosConverter!SpinStep
  <2>1. CASE RosConverter!CallbackSends
    BY <2>1, ConverterUsesHost DEF RosConverter!CallbackSends, HostNext
  <2>2. CASE RosConverter!SpinReturns
    BY <2>2, ConverterUsesHost DEF RosConverter!SpinReturns
  <2> QED BY <1>4, <2>1, <2>2 DEF RosConverter!SpinStep
<1>5. CASE RosConverter!Callback \/ RosConverter!RosKilled \/ RosConverter!Signal
  BY <1>5, ConverterUsesHost
     DEF RosConverter!Callback, RosConverter!RosKilled, RosConverter!Signal
<1>6. CASE UNCHANGED RosConverter!allVars
  BY <1>6, ConverterUsesHost DEF RosConverter!allVars
<1> QED BY <1>1, <1>2, <1>3, <1>4, <1>5, <1>6 DEF RosConverter!Next

(***************************************************************************)
(* A ROS converter, with its spinning thread and ROS's own signal handler, *)
(* uses the port only as SerialHost allows: one write at a time, frames in *)
(* the order the callbacks sent them.                                      *)
(***************************************************************************)
THEOREM ConverterIsHost == RosConverter!Spec => HostSpec
<1>1. RosConverter!Init => HostInit
  BY ConverterUsesHost DEF RosConverter!Init, RosConverter!ProgramInit
<1> QED BY <1>1, ConverterStepIsHostStep, PTL DEF RosConverter!Spec, HostSpec

-----------------------------------------------------------------------------
(* The monitor. *)

\* What main, the serial thread and the interface do to the host.
LEMMA MonitorUsesHost ==
  /\ Monitor!HostInit => HostInit
  /\ Monitor!OpenPort \/ Monitor!InstallSignals \/ Monitor!Run => HostNext
  /\ Monitor!LoopStep => HostNext
  /\ Monitor!PortError \/ Monitor!Flush \/ Monitor!Stop \/ Monitor!Send => HostNext
  /\ UNCHANGED Monitor!hostVars => UNCHANGED hostVars
<1>1. Monitor!HostInit => HostInit
  BY DEF Monitor!HostInit, HostInit
<1>2. /\ UNCHANGED Monitor!hostVars <=> UNCHANGED hostVars
      /\ UNCHANGED Monitor!portVars <=> UNCHANGED portVars
  BY DEF Monitor!hostVars, Monitor!portVars, hostVars, portVars
<1>3. Monitor!OpenPort \/ Monitor!InstallSignals \/ Monitor!Run => HostNext
  BY DEF Monitor!OpenPort, Monitor!InstallSignals, Monitor!Run, Monitor!portVars,
         OpenPort, InstallSignals, Run, portVars, HostNext
<1>4. Monitor!CutWrite <=> CutWrite
  BY DEF Monitor!CutWrite, CutWrite
<1>5. Monitor!Dispatching <=> Dispatching
  BY DEF Monitor!Dispatching, Dispatching
<1>6. /\ Monitor!RunWriteTask <=> RunWriteTask
      /\ Monitor!WriteDone <=> WriteDone
  BY <1>5 DEF Monitor!RunWriteTask, Monitor!WriteDone, RunWriteTask, WriteDone
<1>7. Monitor!RunReturns <=> RunReturns
  BY <1>2 DEF Monitor!RunReturns, RunReturns
<1>8. /\ Monitor!Cleanup <=> Cleanup
      /\ Monitor!PortError <=> PortError
  BY <1>4, <1>5 DEF Monitor!Cleanup, Monitor!PortError, Cleanup, PortError
<1>9. Monitor!Flush <=> Flush
  BY DEF Monitor!Flush, Flush
<1>10. Monitor!Stop <=> Stop
  BY <1>2 DEF Monitor!Stop, Stop
<1>11. Monitor!Send <=> Send
  BY DEF Monitor!Send, Send
<1>12. Monitor!LoopStep => HostNext
  BY <1>6, <1>7, <1>8 DEF Monitor!LoopStep, LoopStep, HostNext
<1>13. Monitor!PortError \/ Monitor!Flush \/ Monitor!Stop \/ Monitor!Send => HostNext
  BY <1>8, <1>9, <1>10, <1>11 DEF HostNext
<1> QED BY <1>1, <1>2, <1>3, <1>12, <1>13

LEMMA MonitorStepIsHostStep ==
  [Monitor!Next]_(Monitor!allVars) => [HostNext]_hostVars
<1> SUFFICES ASSUME [Monitor!Next]_(Monitor!allVars) PROVE [HostNext]_hostVars
  OBVIOUS
<1>1. CASE Monitor!MainStep \/ Monitor!OpenFails
  <2>1. CASE Monitor!MainOpens \/ Monitor!MainStops
    BY <2>1, MonitorUsesHost DEF Monitor!MainOpens, Monitor!MainStops
  <2>2. CASE Monitor!OpenFails
    BY <2>2, MonitorUsesHost DEF Monitor!OpenFails
  <2>3. CASE Monitor!MainStarts \/ Monitor!MainReturns
    BY <2>3, MonitorUsesHost DEF Monitor!MainStarts, Monitor!MainReturns
  <2>4. CASE Monitor!UiBegins \/ Monitor!UiLoops
    BY <2>4, MonitorUsesHost DEF Monitor!UiBegins, Monitor!UiLoops
  <2>5. CASE Monitor!LoopReturns \/ Monitor!UiEnds
    BY <2>5, MonitorUsesHost DEF Monitor!LoopReturns, Monitor!UiEnds
  <2>6. CASE Monitor!MainJoins
    BY <2>6, MonitorUsesHost DEF Monitor!MainJoins
  <2> QED BY <1>1, <2>1, <2>2, <2>3, <2>4, <2>5, <2>6 DEF Monitor!MainStep
<1>2. CASE \/ Monitor!SerialRuns \/ Monitor!SerialFails \/ Monitor!LineTakes
           \/ Monitor!HandleSignal \/ Monitor!UserCommands
  <2>1. \/ Monitor!Run \/ Monitor!LoopStep \/ Monitor!PortError \/ Monitor!Flush
        \/ Monitor!Stop \/ Monitor!Send
    BY <1>2
       DEF Monitor!SerialRuns, Monitor!SerialFails, Monitor!LineTakes,
           Monitor!HandleSignal, Monitor!UserCommands
  <2> QED BY <2>1, MonitorUsesHost
<1>3. CASE \/ Monitor!SerialThreadRequestsExit \/ Monitor!DeviceReports
           \/ Monitor!UserQuits \/ Monitor!Signal
  BY <1>3, MonitorUsesHost
     DEF Monitor!SerialThreadRequestsExit, Monitor!DeviceReports,
         Monitor!UserQuits, Monitor!Signal
<1>4. CASE UNCHANGED Monitor!allVars
  BY <1>4, MonitorUsesHost DEF Monitor!allVars
<1> QED BY <1>1, <1>2, <1>3, <1>4 DEF Monitor!Next

(***************************************************************************)
(* Interface, serial thread and signals use the port only as SerialHost    *)
(* allows: what is proved of HostSpec holds of the monitor.                *)
(***************************************************************************)
THEOREM MonitorIsHost == Monitor!Spec => HostSpec
<1>1. Monitor!Init => HostInit
  BY MonitorUsesHost DEF Monitor!Init
<1> QED BY <1>1, MonitorStepIsHostStep, PTL DEF Monitor!Spec, HostSpec

(***************************************************************************)
(* What is proved of the host holds of all its programs: whoever calls     *)
(* send, from whatever thread, one write is under way at a time and the    *)
(* frames are on the line in the order they were sent in, whole but for a  *)
(* last one that the end of the port cut.                                  *)
(***************************************************************************)
COROLLARY ProgramsSendInOrder ==
  /\ Spec => [](OneWriteUnderWay /\ LineInOrder)
  /\ Monitor!Spec => [](OneWriteUnderWay /\ LineInOrder)
  /\ RosConverter!Spec => [](OneWriteUnderWay /\ LineInOrder)
  BY OneWriteAtATime, FramesInOrder, MonitorIsHost, WriterIsHost, ConverterIsHost, PTL
==============================================================================
