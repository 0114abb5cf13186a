---------------------------- MODULE RosConverter ----------------------------
(***************************************************************************)
(* The life of a ROS converter (app/ros1_converter/main.cpp and            *)
(* app/ros2_converter/main.cpp, the same steps): a thread spins the node's *)
(* callbacks, which send commands, while main gives itself to              *)
(* main_common_init, shuts ROS down when that returns and joins the        *)
(* thread.  ROS is external: it has a signal handler of its own until      *)
(* asio's replaces it, it may be shut down from outside (rosnode kill),    *)
(* and spin returns after the callback it is in when ROS is down.          *)
(***************************************************************************)
EXTENDS HostProgram

VARIABLES
  main,    \* "begin", "init": in main_common_init, "join", "over"
  ros,     \* "up", "down"
  spin     \* the thread: "none", "spinning", "callback", "over"

converterVars == <<main, ros, spin>>
allVars == <<hostVars, programVars, converterVars>>

Init ==
  /\ ProgramInit
  /\ main = "begin" /\ ros = "up" /\ spin = "none"

Alive == ended = "no"
-----------------------------------------------------------------------------
\* ros::init, the data handle with its topics, then the thread.
StartSpin ==
  /\ Alive /\ main = "begin"
  /\ main' = "init"
  /\ spin' = "spinning"
  /\ UNCHANGED <<hostVars, programVars, ros>>

\* Whatever the port does: open, loop, fail, exit(1).
MainInInit ==
  /\ main = "init"
  /\ Opens \/ Loops \/ HandleSignal \/ ExitsOnError
  /\ UNCHANGED converterVars

InitFails ==
  /\ main = "init"
  /\ OpenFails \/ LoopFails
  /\ UNCHANGED converterVars

\* Mutant: main joins the thread that nobody ends.
JoinsWithoutShutdown ==
  /\ InitReturned /\ main = "init"
  /\ main' = "join"
  /\ UNCHANGED <<hostVars, programVars, ros, spin>>

\* main_common_init has returned: ros::shutdown.
ShutsDown ==
  /\ InitReturned /\ main = "init"
  /\ main' = "join"
  /\ ros' = "down"
  /\ UNCHANGED <<hostVars, programVars, spin>>

\* spin_thread.join(), return 0; the node and the data handle go.
Joins ==
  /\ Alive /\ main = "join" /\ spin = "over"
  /\ main' = "over" /\ ended' = "ok"
  /\ UNCHANGED <<hostVars, signalled, error, ros, spin>>
-----------------------------------------------------------------------------
\* A command a user published: its callback begins (bound: MaxSends).
Callback ==
  /\ Alive /\ spin = "spinning" /\ ros = "up" /\ sends < MaxSends
  /\ spin' = "callback"
  /\ UNCHANGED <<hostVars, programVars, main, ros>>

\* main_common_send_msg, whether there is a port, not yet or no more.
CallbackSends ==
  /\ Alive /\ spin = "callback"
  /\ Send
  /\ spin' = "spinning"
  /\ UNCHANGED <<programVars, main, ros>>

SpinReturns ==
  /\ Alive /\ spin = "spinning" /\ ros = "down"
  /\ spin' = "over"
  /\ UNCHANGED <<hostVars, programVars, main, ros>>

\* rosnode kill, or the context is shut down by other means.
RosKilled ==
  /\ Alive /\ ros = "up"
  /\ ros' = "down"
  /\ UNCHANGED <<hostVars, programVars, main, spin>>

\* Before asio has the signal ROS has it, or nobody (SIGTERM in ROS 1); after
\* Cleanup nobody.
Signal ==
  /\ Alive
  /\ \/ Interrupt /\ UNCHANGED ros
     \/ /\ ~signals /\ loop = "before"
        /\ ros' = "down"
        /\ UNCHANGED <<signalled, ended>>
  /\ UNCHANGED <<hostVars, error, main, spin>>

SpinStep == CallbackSends \/ SpinReturns
MainStep == StartSpin \/ ShutsDown \/ Joins

Next ==
  \/ MainStep \/ MainInInit \/ InitFails
  \/ SpinStep \/ Callback
  \/ RosKilled \/ Signal

MainLoops == main = "init" /\ Loops /\ UNCHANGED converterVars
MainHandlesSignal == main = "init" /\ HandleSignal /\ UNCHANGED converterVars

\* Both threads run and the line takes what is written; nobody has to publish
\* a command, to signal or to kill.
Spec ==
  /\ Init /\ [][Next]_allVars
  /\ WF_allVars(MainStep) /\ WF_allVars(MainInInit) /\ WF_allVars(SpinStep)
  /\ WF_allVars(MainLoops) /\ WF_allVars(MainHandlesSignal)
-----------------------------------------------------------------------------
(***************************************************************************)
(* The node ends when its serial side does, by whatever way, and when asio *)
(* gets a signal, whatever the callbacks are doing then: main reaches the  *)
(* shutdown, spin returns, the join does not hang.  (A kill through ROS,   *)
(* or a signal ROS took before the port was open, ends only the spinning.) *)
(***************************************************************************)
NodeEnds == (loop = "over" \/ signalled) ~> ended # "no"

Arrived(n) == \E i \in DOMAIN line : line[i] = [frame |-> n, whole |-> TRUE]

(***************************************************************************)
(* A command taken while there is a port is on the line whole in the end,  *)
(* however many are queued before it, unless the loop is stopped or fails  *)
(* or the program is killed: no write is forgotten.                        *)
(***************************************************************************)
CommandsArrive ==
  \A n \in 1 .. MaxSends :
    (\E i \in DOMAIN posted : posted[i] = n)
      ~> (Arrived(n) \/ stopped \/ error \/ ended # "no")
==============================================================================
