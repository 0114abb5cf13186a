------------------------------- MODULE Writer -------------------------------
(***************************************************************************)
(* The writer example (app/writer/main.cpp): a sender thread beside the    *)
(* main thread that opens the port and runs the loop.  The sender sends    *)
(* MaxSends messages between sleeps of 200 ms and then raises SIGINT to    *)
(* end the program; nothing but the sleeps orders the two threads.  A user *)
(* may interrupt the program at any time.                                  *)
(***************************************************************************)
EXTENDS HostProgram

VARIABLES
  sleeps_suffice,  \* in this run 200 ms is longer than opening, or writing a frame
  sender,       \* send_all: "sending", "raising", "done"
  interrupted   \* some SIGINT came from outside

writerVars == <<sleeps_suffice, sender, interrupted>>
allVars == <<hostVars, programVars, writerVars>>

Init ==
  /\ ProgramInit
  /\ sleeps_suffice \in BOOLEAN
  /\ sender = "sending"
  /\ interrupted = FALSE
-----------------------------------------------------------------------------
\* sender.join() and return 0; exit(1) does not wait for the sender.
MainEnds ==
  /\ InitReturned /\ sender = "done"
  /\ ended' = "ok"
  /\ UNCHANGED <<hostVars, signalled, error, writerVars>>

UserInterrupts ==
  /\ ended = "no"
  /\ Interrupt
  /\ interrupted' = TRUE
  /\ UNCHANGED <<hostVars, sleeps_suffice, sender, error>>

\* The sleep is over.  That it was long enough is a matter of luck.
Slept ==
  sleeps_suffice =>
    loop # "before" /\ (Dispatching => posted = <<>> /\ write_queue = <<>>)

\* send_msg, with its log line "bytes=..., data=...", port or no port.
SenderSends ==
  /\ ended = "no" /\ sender = "sending" /\ Slept
  /\ Send
  /\ sender' = IF sends' = MaxSends THEN "raising" ELSE "sending"
  /\ UNCHANGED <<sleeps_suffice, signalled, interrupted, error, ended>>

\* Mutant: no sleep between the last message and the signal.
SenderRaisesAtOnce ==
  /\ ended = "no" /\ sender = "raising"
  /\ Interrupt
  /\ sender' = "done"
  /\ UNCHANGED <<hostVars, sleeps_suffice, interrupted, error>>

\* Mutant: the sender just ends.
SenderReturns ==
  /\ ended = "no" /\ sender = "raising" /\ Slept
  /\ sender' = "done"
  /\ UNCHANGED <<hostVars, sleeps_suffice, signalled, interrupted, error, ended>>

SenderRaises ==
  /\ ended = "no" /\ sender = "raising" /\ Slept
  /\ Interrupt
  /\ sender' = "done"
  /\ UNCHANGED <<hostVars, sleeps_suffice, interrupted, error>>

MainStep ==
  \/ MainEnds
  \/ /\ Opens \/ OpenFails \/ Loops \/ HandleSignal \/ ExitsOnError
     /\ UNCHANGED writerVars

MainLoops == Loops /\ UNCHANGED writerVars

MainHandlesSignal == HandleSignal /\ UNCHANGED writerVars

SenderStep == SenderSends \/ SenderRaises

Next ==
  \/ MainStep
  \/ LoopFails /\ UNCHANGED writerVars
  \/ SenderStep
  \/ UserInterrupts

\* Both threads run; sleeps end; the line takes what is written to it.
Spec ==
  /\ Init /\ [][Next]_allVars
  /\ WF_allVars(MainStep) /\ WF_allVars(SenderStep)
  /\ WF_allVars(MainLoops) /\ WF_allVars(MainHandlesSignal)
-----------------------------------------------------------------------------

(***************************************************************************)
(* If every sleep is long enough and nobody interrupts, a run that ends    *)
(* with 0 has put all its messages on the line, whole and in order: the    *)
(* SIGINT by which the sender ends the program overtakes no frame.         *)
(***************************************************************************)
AllTransmitted ==
  sleeps_suffice /\ ended = "ok" /\ ~interrupted =>
    line = [i \in 1 .. MaxSends |-> [frame |-> i, whole |-> TRUE]]

\* The program ends, whoever is late: open, sender or loop.
Terminates == <>(ended # "no")
==============================================================================
