--------------------------- MODULE ShutdownProofs ---------------------------
(***************************************************************************)
(* The safety of Shutdown for any number of connections.                   *)
(*                                                                         *)
(* ServedWhileUp rests on Admission: what the barrier lets through needs   *)
(* an open gate, which is open only while the lifespan is up and refused   *)
(* for good once the drain began; and the lifespan goes down only after    *)
(* the requests have. ReleasedOrReported rests on Accounted, which says    *)
(* at which steps a resource may already be gone or given up.              *)
(* CancelsAsAsked rests on Heeded, which says from where on the requests   *)
(* still running have been sent their cancellation, and on InTurn: a wait  *)
(* is for the rung it was begun on. The last theorem is what DescentEnds   *)
(* rests on: each step of serve() and each signal brings the end nearer.   *)
(***************************************************************************)
EXTENDS Shutdown, TLAPS

(* The barrier and the lifespan behind it, step by step. *)
Admission ==
  /\ Refusing => gate = "refused"
  /\ gate = "open" => lifespan = "on"
  /\ pc \notin {"starting", "abandonMasters", "failed", "releasing", "done"} => lifespan = "on"
  /\ pc \in {"persisting", "releasing", "done"} => \A c \in Clients : ~Serving(c)
  /\ ServedWhileUp

(* What is held or named from the step on that may have given it up. *)
Accounted ==
  /\ pc = "starting" => lifespan = "off"
  /\ pc \in {"abandonMasters", "failed", "releasing", "done"} =>
       (lifespan # "off" => "lifespan" \in notes)
  /\ pc \in {"failed", "done"} => (masters \/ sockets => "masters" \in notes)

(* What a process that was sent no SIGINT or SIGTERM can have done. *)
Undisturbed ==
  ~stopAsked => stage <= DRAINING /\ pending = {} /\ told = {} /\ cut = {}

(* How the rung that is waited on stands to the one that was asked for.      *)
InTurn ==
  /\ ~Refusing => anchor = RUNNING /\ ~interrupted
  /\ pc = "stopping" => stage # RUNNING
  /\ pc = "descending" => anchor < stage
  /\ pc \in {"waiting", "leaving"} => anchor <= stage /\ anchor \in {DRAINING, INTERRUPTING}
  /\ pc = "leaving" => drained \/ anchor < stage

Unserved == \A c \in Clients : ~Serving(c)

AllTold == \A c \in Clients : Serving(c) => c \in told

(* Who has been sent a cancellation, from the rung on that sends them.       *)
Heeded ==
  /\ interrupted => AllTold
  /\ pc \in {"waiting", "leaving"} /\ anchor = INTERRUPTING => AllTold
  /\ pc = "leaving" /\ drained => Unserved
  /\ pc \in {"finalizing", "cleaning"} => AllTold

IInv ==
  /\ TypeOK /\ Admission /\ Accounted /\ Undisturbed
  /\ InTurn /\ Heeded

-----------------------------------------------------------------------------
(* Lemmas on the operators of the listener.                                  *)

(* What the barrier answers is a state of a connection, and lets a request   *)
(* in only when it is open.                                                  *)
LEMMA AdmittedFacts ==
  ASSUME NEW g \in {"paused", "open", "refused"}
  PROVE  /\ Admitted(g) \in ClientStates
         /\ Admitted(g) = "serving" => g = "open"
  BY DEF Admitted, ClientStates

(* Moving the gate, then hanging up: the types, and who is served after it.  *)
LEMMA WokenFacts ==
  ASSUME client \in [Clients -> ClientStates],
         NEW g \in {"paused", "open", "refused"}
  PROVE  /\ Woken(g) \in [Clients -> ClientStates]
         /\ \A c \in Clients :
              Woken(g)[c] = "serving" => client[c] = "serving" \/ g = "open"
  BY AdmittedFacts DEF Woken

LEMMA HungFacts ==
  ASSUME NEW f \in [Clients -> ClientStates]
  PROVE  /\ Hung(f) \in [Clients -> ClientStates]
         /\ \A c \in Clients : Hung(f)[c] = "serving" <=> f[c] = "serving"
  BY DEF Hung, ClientStates

(* A refusal lets nobody in.                                                 *)
LEMMA RefuseAllFacts ==
  ASSUME client \in [Clients -> ClientStates], RefuseAll
  PROVE  /\ gate' = "refused"
         /\ client' \in [Clients -> ClientStates]
         /\ \A c \in Clients : client'[c] = "serving" => client[c] = "serving"
<1>1. Woken("refused") \in [Clients -> ClientStates]
      /\ \A c \in Clients : Woken("refused")[c] = "serving" => client[c] = "serving"
  BY WokenFacts
<1> QED
  BY <1>1, HungFacts DEF RefuseAll

(* Nor does closing the listener, which at most hangs up.                    *)
LEMMA StopAcceptingFacts ==
  ASSUME TypeOK, StopAccepting
  PROVE  /\ state' \in ListenerStates /\ sockets' \in BOOLEAN /\ listening' \in BOOLEAN
         /\ gate' \in {"paused", gate}
         /\ client' \in [Clients -> ClientStates]
         /\ \A c \in Clients : client'[c] = "serving" => client[c] = "serving"
  BY DEF StopAccepting, TypeOK, listener, ListenerStates, ClientStates

-----------------------------------------------------------------------------
LEMMA InitInvariant == Init => IInv
<1> SUFFICES ASSUME Init PROVE IInv
  OBVIOUS
<1>1. TypeOK
  <2>1. client \in [Clients -> ClientStates]
    BY DEF Init, ClientStates
  <2>2. stage \in RUNNING .. FINALIZING /\ anchor \in RUNNING .. FINALIZING
    BY DEF Init, RUNNING, FINALIZING
  <2> QED
    BY <2>1, <2>2 DEF Init, TypeOK, Steps, ListenerStates
<1>2. Admission
  BY DEF Init, Admission, ServedWhileUp, Serving, Refusing
<1>3. Accounted /\ Undisturbed /\ InTurn /\ Heeded
  BY DEF Init, Accounted, Undisturbed, InTurn, Heeded, Refusing, RUNNING, DRAINING
<1> QED
  BY <1>1, <1>2, <1>3 DEF IInv

LEMMA TypeStep == TypeOK /\ [Next]_vars => TypeOK'
<1> SUFFICES ASSUME TypeOK, [Next]_vars PROVE TypeOK'
  OBVIOUS
<1> USE DEF TypeOK, signalVars, serverVars, listener, resources, connections, cancellations
<1>1. CASE StartUp
  <2>1. ASSUME Arm PROVE TypeOK'
    BY <2>1, WokenFacts DEF Arm, Steps, ListenerStates
  <2>2. ASSUME ArmFails PROVE TypeOK'
    <3>1. Woken("refused") \in [Clients -> ClientStates]
      BY WokenFacts
    <3>2. /\ client' \in [Clients -> ClientStates]
          /\ gate' \in {"paused", "open", "refused"} /\ sockets' \in BOOLEAN
      BY <2>2, <3>1 DEF ArmFails
    <3> QED
      BY <2>2, <3>2 DEF ArmFails, Steps, ListenerStates
  <2>3. ASSUME StartLifespan PROVE TypeOK'
    BY <2>3 DEF StartLifespan, Steps, ListenerStates
  <2>4. ASSUME Register PROVE TypeOK'
    <3>1. pc' \in Steps /\ state' \in ListenerStates
      BY <2>4 DEF Register, Steps, ListenerStates
    <3>2. sockets' \in BOOLEAN
      BY <2>4 DEF Register
    <3> QED
      BY <2>4, <3>1, <3>2 DEF Register
  <2>5. ASSUME StartServing PROVE TypeOK'
    BY <2>5 DEF StartServing
  <2>6. ASSUME Announce PROVE TypeOK'
    BY <2>6 DEF Announce, Steps
  <2> QED
    BY <1>1, <2>1, <2>2, <2>3, <2>4, <2>5, <2>6 DEF StartUp
<1>2. CASE Abandon
  <2>1. ASSUME AbandonStop PROVE TypeOK'
    BY <2>1, StopAcceptingFacts DEF AbandonStop, Steps
  <2>2. ASSUME AbandonLifespan PROVE TypeOK'
    <3>1. gate' = "refused" /\ client' \in [Clients -> ClientStates]
      BY <2>2, RefuseAllFacts DEF AbandonLifespan
    <3>2. closing' \subseteq Clients
      BY <2>2 DEF AbandonLifespan, RefuseAll, Busy
    <3> QED
      BY <2>2, <3>1, <3>2 DEF AbandonLifespan, Steps, ListenerStates
  <2>3. ASSUME AbandonMasters PROVE TypeOK'
    BY <2>3 DEF AbandonMasters, CloseMasters, Steps
  <2> QED
    BY <1>2, <2>1, <2>2, <2>3 DEF Abandon
<1>3. CASE Descent
  <2>1. ASSUME BeginStop PROVE TypeOK'
    BY <2>1, StopAcceptingFacts DEF BeginStop, Steps
  <2>2. ASSUME StopAdmitting PROVE TypeOK'
    <3>1. gate' = "refused" /\ client' \in [Clients -> ClientStates]
      BY <2>2, RefuseAllFacts DEF StopAdmitting
    <3>2. closing' \subseteq Clients
      BY <2>2 DEF StopAdmitting, RefuseAll, Busy
    <3> QED
      BY <2>2, <3>1, <3>2 DEF StopAdmitting, Steps
  <2>3. ASSUME LastRung PROVE TypeOK'
    BY <2>3 DEF LastRung, CancelRequests, Busy, Steps
  <2>4. ASSUME Interrupt PROVE TypeOK'
    <3>1. client' \in [Clients -> ClientStates]
      BY <2>4, HungFacts DEF Interrupt
    <3>2. interrupted' \in BOOLEAN
      BY <2>4, Zenon DEF Interrupt
    <3>3. closing' \subseteq Clients /\ pending' \subseteq Clients /\ told' \subseteq Clients
      BY <2>4 DEF Interrupt, CancelRequests, Busy
    <3> QED
      BY <2>4, <3>1, <3>2, <3>3 DEF Interrupt, CancelRequests, Steps
  <2>5. ASSUME Finalize PROVE TypeOK'
    <3>1. gate' = "refused" /\ client' \in [Clients -> ClientStates]
      BY <2>5, RefuseAllFacts DEF Finalize
    <3>2. closing' \subseteq Clients
      BY <2>5 DEF Finalize, RefuseAll, Busy
    <3>3. state' \in ListenerStates
      BY <2>5 DEF Finalize, ListenerStates
    <3> QED
      BY <2>5, <3>1, <3>2, <3>3 DEF Finalize, Steps
  <2>6. ASSUME Wait PROVE TypeOK'
    BY <2>6 DEF Wait, Steps
  <2>10. ASSUME WaitReturns PROVE TypeOK'
    <3>1. pc' \in Steps /\ drained' \in BOOLEAN
      BY <2>10 DEF WaitReturns, Steps
    <3>2. UNCHANGED <<adapter, signalVars, anchor, interrupted, listener, gate, resources,
                      connections, cancellations>>
      BY <2>10 DEF WaitReturns
    <3> QED
      BY <3>1, <3>2
  <2>11. ASSUME LeaveWait PROVE TypeOK'
    <3>1. pc' \in Steps
      BY <2>11 DEF LeaveWait, Steps
    <3> QED
      BY <2>11, <3>1 DEF LeaveWait
  <2>7. ASSUME CleanupDrained PROVE TypeOK'
    BY <2>7 DEF CleanupDrained, Steps
  <2>8. ASSUME Persist PROVE TypeOK'
    <3>1. pc' \in Steps
      BY <2>8 DEF Persist, Steps
    <3>2. state' \in ListenerStates
      BY <2>8 DEF Persist, ListenerStates
    <3>3. lifespan' \in {"off", "on", "broken"} /\ notes' \subseteq {"lifespan", "masters"}
      BY <2>8 DEF Persist
    <3>4. UNCHANGED <<adapter, signalVars, serverVars, sockets, listening, gate, masters,
                      connections, cancellations>>
      BY <2>8 DEF Persist
    <3> QED
      BY <3>1, <3>2, <3>3, <3>4
  <2>9. ASSUME Release PROVE TypeOK'
    BY <2>9 DEF Release, CloseMasters, Steps
  <2> QED
    BY <1>3, <2>1, <2>2, <2>3, <2>4, <2>5, <2>6, <2>7, <2>8, <2>9, <2>10, <2>11 DEF Descent
<1>4. CASE Escalate \/ Restart
  <2>1. stage' \in RUNNING .. FINALIZING
    BY <1>4 DEF Escalate, Restart, RUNNING, DRAINING, FINALIZING
  <2>2. stopAsked' \in BOOLEAN
    BY <1>4 DEF Escalate, Restart
  <2> QED
    BY <1>4, <2>1, <2>2 DEF Escalate, Restart
<1>5. ASSUME NEW c \in Clients, Connection(c) PROVE TypeOK'
  <2>1. Admitted(gate) \in ClientStates
    BY AdmittedFacts
  <2>2. client' \in [Clients -> ClientStates]
    BY <1>5, <2>1
    DEF Connection, Accept, Join, Send, Respond, Refuse, Unwind, HangUp, Move, ClientStates
  <2>3. pending' \subseteq Clients /\ told' \subseteq Clients /\ cut' \subseteq Clients
    BY <1>5 DEF Connection, Accept, Join, Send, Respond, Refuse, Unwind, HangUp
  <2>4. UNCHANGED <<unmoved, closing>>
    BY <1>5 DEF Connection, Accept, Join, Send, Respond, Refuse, Unwind, HangUp
  <2> QED
    BY <2>2, <2>3, <2>4 DEF unmoved
<1>6. CASE UNCHANGED vars
  BY <1>6 DEF vars
<1> QED
  BY <1>1, <1>2, <1>3, <1>4, <1>5, <1>6 DEF Next, Serve, Terminated

-----------------------------------------------------------------------------
(* Who a step may let into the application, and what a step of the server    *)
(* does to those in it.                                                      *)
LEMMA ServerAdmitsOnlyAtArm ==
  ASSUME TypeOK, Serve \/ Escalate \/ Restart, ~Arm
  PROVE  \A c \in Clients : Serving(c)' => Serving(c)
<1> USE DEF Serving
<1>1. CASE AbandonStop \/ BeginStop
  BY <1>1, StopAcceptingFacts DEF AbandonStop, BeginStop
<1>2. CASE AbandonLifespan \/ StopAdmitting \/ Finalize
  BY <1>2, RefuseAllFacts DEF TypeOK, AbandonLifespan, StopAdmitting, Finalize
<1>3. CASE Interrupt
  BY <1>3, HungFacts DEF TypeOK, Interrupt
<1>4. CASE ArmFails
  BY <1>4, WokenFacts DEF TypeOK, ArmFails
<1>5. CASE UNCHANGED client
  BY <1>5
<1>6. StartLifespan \/ Register \/ StartServing \/ Announce => UNCHANGED client
  BY DEF StartLifespan, Register, StartServing, Announce, connections
<1>7. AbandonMasters \/ LastRung \/ Wait \/ WaitReturns \/ LeaveWait => UNCHANGED client
  BY DEF AbandonMasters, LastRung, Wait, WaitReturns, LeaveWait, connections
<1>8. CleanupDrained \/ Persist \/ Release \/ Escalate \/ Restart => UNCHANGED client
  BY DEF CleanupDrained, Persist, Release, Escalate, Restart, connections
<1> QED
  BY <1>1, <1>2, <1>3, <1>4, <1>5, <1>6, <1>7, <1>8 DEF Serve, StartUp, Abandon, Descent

LEMMA ConnectionAdmitsAtOpenGate ==
  ASSUME TypeOK, NEW c \in Clients, Connection(c)
  PROVE  /\ UNCHANGED <<pc, gate, lifespan, masters, sockets, notes, stage, stopAsked>>
         /\ \A d \in Clients : Serving(d)' => Serving(d) \/ gate = "open"
<1>1. Admitted(gate) = "serving" => gate = "open"
  BY AdmittedFacts DEF TypeOK
<1>2. \A d \in Clients : Serving(d)' => Serving(d) \/ gate = "open"
  BY <1>1 DEF TypeOK, Serving, Connection, Accept, Join, Send, Respond, Refuse, Unwind,
              HangUp, Move
<1>3. UNCHANGED unmoved
  BY DEF Connection, Accept, Join, Send, Respond, Refuse, Unwind, HangUp
<1> QED
  BY <1>2, <1>3 DEF unmoved, signalVars, listener, resources

(* What the server does to the gate, the lifespan and its own place.         *)
LEMMA AdmissionStep == TypeOK /\ Admission /\ Accounted /\ [Next]_vars => Admission'
<1> SUFFICES ASSUME TypeOK, Admission, Accounted, [Next]_vars PROVE Admission'
  OBVIOUS
<1> USE DEF Admission, ServedWhileUp
<1>1. CASE StartUp /\ ~Arm
  <2>1. \A c \in Clients : Serving(c)' => Serving(c)
    BY <1>1, ServerAdmitsOnlyAtArm DEF Serve
  <2>2. CASE StartLifespan
    BY <2>1, <2>2 DEF StartLifespan, Refusing, Accounted, resources
  <2>3. CASE Register
    BY <2>1, <2>3 DEF Register, Refusing, resources
  <2>4. CASE StartServing
    BY <2>1, <2>4 DEF StartServing, Refusing, resources
  <2>5. CASE ArmFails
    BY <2>1, <2>5 DEF ArmFails, Refusing, resources
  <2>6. CASE Announce
    BY <2>1, <2>6 DEF Announce, Refusing, resources
  <2> QED
    BY <1>1, <2>2, <2>3, <2>4, <2>5, <2>6 DEF StartUp
<1>2. CASE Arm
  BY <1>2 DEF Arm, Refusing, Serving, resources
<1>3. CASE Abandon
  <2>1. \A c \in Clients : Serving(c)' => Serving(c)
    BY <1>3, ServerAdmitsOnlyAtArm DEF Serve, Abandon, Arm, AbandonStop, AbandonLifespan,
                                       AbandonMasters
  <2>2. CASE AbandonStop
    BY <2>1, <2>2, StopAcceptingFacts DEF AbandonStop, Refusing, resources
  <2>3. CASE AbandonLifespan
    BY <2>1, <2>3 DEF AbandonLifespan, RefuseAll, Refusing
  <2>4. CASE AbandonMasters
    BY <2>1, <2>4 DEF AbandonMasters, Refusing
  <2> QED
    BY <1>3, <2>2, <2>3, <2>4 DEF Abandon
<1>4. CASE Descent
  <2>1. \A c \in Clients : Serving(c)' => Serving(c)
    <3>1. pc # "arming"
      BY <1>4 DEF Descent, BeginStop, StopAdmitting, LastRung, Interrupt, Wait, WaitReturns,
                  LeaveWait, Finalize, CleanupDrained, Persist, Release
    <3> QED
      BY <1>4, <3>1, ServerAdmitsOnlyAtArm DEF Serve, Arm
  <2>2. CASE BeginStop
    BY <2>1, <2>2, StopAcceptingFacts DEF BeginStop, Refusing, resources
  <2>3. CASE StopAdmitting
    BY <2>1, <2>3 DEF StopAdmitting, RefuseAll, Refusing, resources
  <2>4. CASE LastRung
    BY <2>1, <2>4 DEF LastRung, Refusing, resources
  <2>5. CASE Interrupt
    BY <2>1, <2>5 DEF Interrupt, Refusing, resources
  <2>6. CASE Wait \/ WaitReturns \/ LeaveWait
    BY <2>1, <2>6 DEF Wait, WaitReturns, LeaveWait, Refusing, resources
  <2>7. CASE Finalize
    BY <2>1, <2>7 DEF Finalize, RefuseAll, Refusing, resources
  <2>8. CASE CleanupDrained
    <3>1. \A c \in Clients : ~Serving(c)
      BY <2>8 DEF CleanupDrained, Busy, Serving
    <3> QED
      BY <2>1, <2>8, <3>1 DEF CleanupDrained, Refusing, resources
  <2>9. CASE Persist
    BY <2>1, <2>9 DEF Persist, Refusing
  <2>10. CASE Release
    BY <2>1, <2>10 DEF Release, Refusing
  <2> QED
    BY <1>4, <2>2, <2>3, <2>4, <2>5, <2>6, <2>7, <2>8, <2>9, <2>10 DEF Descent
<1>5. CASE Escalate \/ Restart
  BY <1>5 DEF Escalate, Restart, Refusing, Serving, resources, connections
<1>6. ASSUME NEW c \in Clients, Connection(c) PROVE Admission'
  <2>1. UNCHANGED <<pc, gate, lifespan>>
        /\ \A d \in Clients : Serving(d)' => Serving(d) \/ gate = "open"
    BY <1>6, ConnectionAdmitsAtOpenGate
  <2>2. pc \in {"persisting", "releasing", "done"} => gate # "open"
    BY DEF Refusing
  <2> QED
    BY <2>1, <2>2 DEF Refusing
<1>7. CASE UNCHANGED vars
  BY <1>7 DEF vars, Refusing, Serving, resources, connections
<1> QED
  BY <1>1, <1>2, <1>3, <1>4, <1>5, <1>6, <1>7 DEF Next, Serve, Terminated

(* Every step that gives a resource up, or gives up on it, says so.          *)
LEMMA AccountedStep == TypeOK /\ Accounted /\ [Next]_vars => Accounted'
<1> SUFFICES ASSUME TypeOK, Accounted, [Next]_vars PROVE Accounted'
  OBVIOUS
<1> USE DEF Accounted
<1>1. CASE StartLifespan
  BY <1>1 DEF StartLifespan
<1>2. CASE Register \/ StartServing \/ Arm \/ ArmFails \/ Announce
  BY <1>2 DEF Register, StartServing, Arm, ArmFails, Announce
<1>3. CASE AbandonStop
  BY <1>3 DEF AbandonStop
<1>4. CASE AbandonLifespan
  BY <1>4 DEF AbandonLifespan
<1>5. CASE AbandonMasters
  BY <1>5 DEF AbandonMasters, CloseMasters, listener
<1>6. CASE BeginStop \/ StopAdmitting \/ LastRung \/ Interrupt \/ Wait
  BY <1>6 DEF BeginStop, StopAdmitting, LastRung, Interrupt, Wait
<1>7. CASE WaitReturns \/ LeaveWait \/ Finalize \/ CleanupDrained
  BY <1>7 DEF WaitReturns, LeaveWait, Finalize, CleanupDrained
<1>8. CASE Persist
  BY <1>8 DEF Persist
<1>9. CASE Release
  BY <1>9 DEF Release, CloseMasters, listener
<1>10. CASE Escalate \/ Restart
  BY <1>10 DEF Escalate, Restart, listener, resources
<1>11. ASSUME NEW c \in Clients, Connection(c) PROVE Accounted'
  BY <1>11, ConnectionAdmitsAtOpenGate
<1>12. CASE UNCHANGED vars
  BY <1>12 DEF vars, listener, resources
<1> QED
  BY <1>1, <1>2, <1>3, <1>4, <1>5, <1>6, <1>7, <1>8, <1>9, <1>10, <1>11, <1>12
  DEF Next, Serve, StartUp, Abandon, Descent, Terminated

(* Only the rungs past the first cancel anything.                            *)
LEMMA UndisturbedStep == TypeOK /\ Undisturbed /\ [Next]_vars => Undisturbed'
<1> SUFFICES ASSUME TypeOK, Undisturbed, [Next]_vars PROVE Undisturbed'
  OBVIOUS
<1> USE DEF Undisturbed
<1>1. CASE StartUp \/ Abandon
  BY <1>1
  DEF StartUp, StartLifespan, Register, StartServing, Arm, ArmFails, Announce, Abandon,
      AbandonStop, AbandonLifespan, AbandonMasters, signalVars, cancellations
<1>2. CASE LastRung \/ Interrupt
  BY <1>2 DEF LastRung, Interrupt, signalVars, DRAINING, INTERRUPTING, FINALIZING
<1>3. CASE BeginStop \/ StopAdmitting \/ Wait \/ WaitReturns \/ LeaveWait
  BY <1>3 DEF BeginStop, StopAdmitting, Wait, WaitReturns, LeaveWait, signalVars, cancellations
<1>4. CASE Finalize \/ CleanupDrained \/ Persist \/ Release
  BY <1>4 DEF Finalize, CleanupDrained, Persist, Release, signalVars, cancellations
<1>5. CASE Escalate
  BY <1>5 DEF Escalate
<1>6. CASE Restart
  BY <1>6 DEF Restart, RUNNING, DRAINING, cancellations
<1>7. ASSUME NEW c \in Clients, Connection(c) PROVE Undisturbed'
  <2>1. ~stopAsked => UNCHANGED <<pending, told, cut>>
    BY <1>7 DEF Connection, Accept, Join, Send, Respond, Refuse, Unwind, HangUp, cancellations
  <2> QED
    BY <1>7, <2>1, ConnectionAdmitsAtOpenGate
<1>8. CASE UNCHANGED vars
  BY <1>8 DEF vars, signalVars, cancellations
<1> QED
  BY <1>1, <1>2, <1>3, <1>4, <1>5, <1>6, <1>7, <1>8 DEF Next, Serve, Descent, Terminated

-----------------------------------------------------------------------------
(* Once the drain began nobody comes in, and a cancellation once sent stays. *)
LEMMA StaysClosed ==
  ASSUME TypeOK, Admission, [Next]_vars
  PROVE  /\ Refusing => \A c \in Clients : Serving(c)' => Serving(c)
         /\ told \subseteq told'
<1>1. CASE Serve \/ Escalate \/ Restart
  <2>1. Refusing => ~Arm
    BY DEF Arm, Refusing
  <2>2. told' = told \/ told' = told \cup Busy
    BY <1>1
    DEF Serve, StartUp, StartLifespan, Register, StartServing, Arm, ArmFails, Announce,
        Abandon, AbandonStop, AbandonLifespan, AbandonMasters, Descent, BeginStop,
        StopAdmitting, LastRung, Interrupt, CancelRequests, Wait, WaitReturns, LeaveWait,
        Finalize, CleanupDrained, Persist, Release, Escalate, Restart, cancellations
  <2> QED
    BY <1>1, <2>1, <2>2, ServerAdmitsOnlyAtArm
<1>2. ASSUME NEW c \in Clients, Connection(c)
      PROVE  /\ Refusing => \A d \in Clients : Serving(d)' => Serving(d)
             /\ told' = told
  <2>1. told' = told
    BY <1>2 DEF Connection, Accept, Join, Send, Respond, Refuse, Unwind, HangUp, cancellations
  <2> QED
    BY <1>2, <2>1, ConnectionAdmitsAtOpenGate DEF Admission
<1>3. CASE UNCHANGED vars
  BY <1>3 DEF vars, connections, cancellations, Serving
<1> QED
  BY <1>1, <1>2, <1>3 DEF Next, Terminated

LEMMA ConnectionStands ==
  ASSUME NEW c \in Clients, Connection(c)
  PROVE  UNCHANGED <<pc, stage, anchor, drained, interrupted, listening>>
BY DEF Connection, Accept, Join, Send, Respond, Refuse, Unwind, HangUp, unmoved,
       signalVars, serverVars, listener

LEMMA InTurnStep == TypeOK /\ InTurn /\ [Next]_vars => InTurn'
<1> SUFFICES ASSUME TypeOK, InTurn, [Next]_vars PROVE InTurn'
  OBVIOUS
<1>0. stage \in Nat /\ anchor \in Nat
  BY DEF TypeOK, RUNNING, FINALIZING
<1> USE DEF InTurn, Refusing, signalVars, serverVars, RUNNING, DRAINING, INTERRUPTING, FINALIZING
<1>1. CASE StartUp
  BY <1>1 DEF StartUp, StartLifespan, Register, StartServing, Arm, ArmFails, Announce
<1>2. CASE Abandon
  BY <1>2 DEF Abandon, AbandonStop, AbandonLifespan, AbandonMasters
<1>3. CASE BeginStop \/ StopAdmitting \/ LastRung
  BY <1>0, <1>3 DEF BeginStop, StopAdmitting, LastRung
<1>4. CASE Interrupt
  BY <1>0, <1>4 DEF Interrupt
<1>5. CASE Wait
  BY <1>0, <1>5 DEF Wait
<1>6. CASE WaitReturns
  <2>1. drained' \/ anchor < stage
    BY <1>0, <1>6 DEF WaitReturns
  <2> QED
    BY <1>6, <2>1 DEF WaitReturns
<1>7. CASE LeaveWait
  BY <1>0, <1>7 DEF LeaveWait
<1>8. CASE Finalize \/ CleanupDrained \/ Persist \/ Release
  BY <1>8 DEF Finalize, CleanupDrained, Persist, Release
<1>9. CASE Escalate \/ Restart
  BY <1>0, <1>9 DEF Escalate, Restart
<1>10. ASSUME NEW c \in Clients, Connection(c) PROVE InTurn'
  BY <1>10, ConnectionStands
<1>11. CASE UNCHANGED vars
  BY <1>11 DEF vars
<1> QED
  BY <1>1, <1>2, <1>3, <1>4, <1>5, <1>6, <1>7, <1>8, <1>9, <1>10, <1>11
  DEF Next, Serve, Descent, Terminated

(* Those told stay told and nobody joins them; the rungs that act tell all.  *)
LEMMA HeededStep ==
  ASSUME TypeOK, Admission, InTurn, Heeded, [Next]_vars
  PROVE  Heeded'
<1>1. Refusing /\ AllTold => AllTold'
  BY StaysClosed DEF AllTold, Serving
<1>2. Refusing /\ Unserved => Unserved'
  BY StaysClosed DEF Unserved, Serving
<1>3. Refusing => ~Arm
  BY DEF Refusing, Arm
<1>4. CASE StartUp \/ Abandon \/ BeginStop \/ StopAdmitting
  <2>1. ~interrupted /\ interrupted' = interrupted
    BY <1>4
    DEF StartUp, StartLifespan, Register, StartServing, Arm, ArmFails, Announce, Abandon,
        AbandonStop, AbandonLifespan, AbandonMasters, BeginStop, StopAdmitting, InTurn,
        Refusing, serverVars
  <2>2. pc' \notin {"waiting", "leaving", "finalizing", "cleaning"}
    BY <1>4
    DEF StartUp, StartLifespan, Register, StartServing, Arm, ArmFails, Announce, Abandon,
        AbandonStop, AbandonLifespan, AbandonMasters, BeginStop, StopAdmitting
  <2> QED
    BY <2>1, <2>2 DEF Heeded
<1>5. CASE LastRung \/ Interrupt
  <2>1. pc = "descending" /\ told' = told \cup Busy
    BY <1>5 DEF LastRung, Interrupt, CancelRequests
  <2>2. \A c \in Clients : Serving(c)' => Serving(c)
    BY <2>1, StaysClosed DEF Refusing
  <2>3. AllTold'
    BY <2>1, <2>2 DEF AllTold, Serving, Busy
  <2>4. pc' # "leaving"
    BY <1>5 DEF LastRung, Interrupt
  <2> QED
    BY <2>3, <2>4 DEF Heeded
<1>6. CASE Wait
  <2>1. /\ Refusing /\ pc' = "waiting" /\ interrupted' = interrupted
        /\ anchor' = INTERRUPTING => interrupted
    BY <1>6 DEF Wait, Refusing, DRAINING, INTERRUPTING
  <2> QED
    BY <1>1, <2>1 DEF Heeded
<1>7. CASE WaitReturns
  <2>1. /\ Refusing /\ pc = "waiting" /\ pc' = "leaving"
        /\ UNCHANGED <<anchor, interrupted>>
    BY <1>7 DEF WaitReturns, Refusing
  <2>2. drained' => Unserved
    BY <1>7 DEF WaitReturns, Unserved, Serving, Busy
  <2> QED
    BY <1>1, <1>2, <2>1, <2>2 DEF Heeded
<1>8. CASE LeaveWait
  <2>1. /\ Refusing /\ pc = "leaving" /\ pc' \in {"finalizing", "descending"}
        /\ pc' = "finalizing" => drained
        /\ UNCHANGED <<anchor, interrupted>>
    BY <1>8 DEF LeaveWait, Refusing, serverVars
  <2>2. Unserved => AllTold
    BY DEF Unserved, AllTold
  <2> QED
    BY <1>1, <2>1, <2>2 DEF Heeded
<1>9. CASE Finalize \/ CleanupDrained \/ Persist \/ Release
  <2>1. /\ Refusing /\ pc' \in {"cleaning", "persisting", "releasing", "done"}
        /\ pc' = "cleaning" => pc = "finalizing"
        /\ UNCHANGED <<anchor, interrupted>>
    BY <1>9 DEF Finalize, CleanupDrained, Persist, Release, Refusing, serverVars
  <2> QED
    BY <1>1, <2>1 DEF Heeded
<1>10. CASE UNCHANGED <<pc, anchor, drained, interrupted>>
  <2>1. interrupted => Refusing
    BY DEF InTurn
  <2> QED
    BY <1>1, <1>2, <1>10, <2>1 DEF Heeded, Refusing
<1>11. Escalate \/ Restart \/ UNCHANGED vars => UNCHANGED <<pc, anchor, drained, interrupted>>
  BY DEF Escalate, Restart, vars, serverVars
<1> QED
  BY <1>4, <1>5, <1>6, <1>7, <1>8, <1>9, <1>10, <1>11, ConnectionStands
  DEF Next, Serve, Descent, Terminated

-----------------------------------------------------------------------------
(* The inductive invariant of the process: types, Admission, Accounted,      *)
(* Undisturbed, InTurn and Heeded hold in every state of every execution.    *)
THEOREM ShutdownInvariant == Spec => []IInv
<1>1. IInv /\ [Next]_vars => IInv'
  BY TypeStep, AdmissionStep, AccountedStep, UndisturbedStep, InTurnStep, HeededStep DEF IInv
<1> QED
  BY InitInvariant, <1>1, PTL DEF Spec

(* Every variable keeps its type; the ladder never leaves its four rungs.    *)
THEOREM TypeCorrect == Spec => []TypeOK
<1>1. IInv => TypeOK
  BY DEF IInv
<1> QED
  BY ShutdownInvariant, <1>1, PTL

(* The application serves requests only while its lifespan is up.            *)
THEOREM ServesWhileUp == Spec => []ServedWhileUp
<1>1. IInv => ServedWhileUp
  BY DEF IInv, Admission
<1> QED
  BY ShutdownInvariant, <1>1, PTL

(* What serve() still holds when it ends has been named.                     *)
THEOREM NothingLeaksSilently == Spec => []ReleasedOrReported
<1>1. IInv => ReleasedOrReported
  BY DEF IInv, Accounted, ReleasedOrReported, Alive
<1> QED
  BY ShutdownInvariant, <1>1, PTL

(* A restart signal alone never has a request cancelled; and serve() waits   *)
(* for no request, on the second rung or past the last, that was not told.   *)
THEOREM CancellationsAreAsked == Spec => []CancelsAsAsked
<1>1. ASSUME IInv PROVE CancelsAsAsked
  <2>1. Impatient => AllTold
    <3>1. stage >= INTERRUPTING => stage # DRAINING
      BY <1>1 DEF INTERRUPTING, DRAINING
    <3> QED
      BY <1>1, <3>1 DEF IInv, InTurn, Heeded, Impatient
  <2> QED
    BY <1>1, <2>1 DEF IInv, Undisturbed, CancelsAsAsked, AllTold
<1> QED
  BY ShutdownInvariant, <1>1, PTL

(* Once the drain has begun no request enters the application.               *)
THEOREM AdmissionStaysClosed == Spec => NothingAdmittedLate
<1>1. IInv /\ [Next]_vars =>
        [Refusing => \A c \in Clients : Serving(c)' => Serving(c)]_vars
  BY StaysClosed DEF IInv
<1> QED
  BY ShutdownInvariant, <1>1, PTL DEF Spec, NothingAdmittedLate

-----------------------------------------------------------------------------
(* How far serve() is from its end: the steps that remain on the way down if *)
(* no rung is asked for any more, a turn of the wait for each rung that has  *)
(* not been waited on, and a step for each signal that can still come.       *)

Place(step) ==
  CASE step = "starting" -> 23
    [] step = "registering" -> 22
    [] step = "arming" -> 20
    [] step = "announcing" -> 19
    [] step = "serving" -> 18
    [] step = "stopping" -> 17
    [] step = "waiting" -> 12
    [] step = "leaving" -> 11
    [] step = "descending" -> 10
    [] step = "finalizing" -> 5
    [] step \in {"cleaning", "abandonStop"} -> 4
    [] step \in {"persisting", "abandonLifespan"} -> 3
    [] step \in {"releasing", "abandonMasters"} -> 2
    [] step \in {"done", "failed"} -> 0

Rank ==
  Place(pc) + (FINALIZING - stage) + 3 * (FINALIZING - anchor)
    + (IF pc = "arming" /\ ~listening THEN 1 ELSE 0)

LEMMA PlaceNat == ASSUME NEW s \in Steps PROVE Place(s) \in Nat
BY DEF Steps, Place

LEMMA RankNat == TypeOK => Rank \in Nat
<1> SUFFICES ASSUME TypeOK PROVE Rank \in Nat
  OBVIOUS
<1>1. Place(pc) \in Nat
  BY PlaceNat DEF TypeOK
<1>2. FINALIZING - stage \in Nat /\ 3 * (FINALIZING - anchor) \in Nat
  BY DEF TypeOK, RUNNING, FINALIZING
<1> QED
  BY <1>1, <1>2 DEF Rank

(* A step of serve() goes on to a later place, or waits for a later rung.    *)
LEMMA ServeNears ==
  ASSUME TypeOK, InTurn, Serve
  PROVE  Rank' < Rank
<1>0. stage \in 0 .. 3 /\ anchor \in 0 .. 3
  BY DEF TypeOK, RUNNING, FINALIZING
<1>1. stage' = stage
  BY DEF Serve, StartUp, StartLifespan, Register, StartServing, Arm, ArmFails, Announce,
     Abandon, AbandonStop, AbandonLifespan, AbandonMasters, Descent, BeginStop,
     StopAdmitting, LastRung, Interrupt, Wait, WaitReturns, LeaveWait, Finalize,
     CleanupDrained, Persist, Release, signalVars
<1> USE DEF Rank, Place, FINALIZING
<1>2. CASE StartUp /\ ~StartServing
  <2>1. /\ \/ pc = "starting" /\ pc' \in {"registering", "abandonMasters"}
           \/ pc = "registering" /\ pc' \in {"arming", "abandonLifespan"}
           \/ pc = "arming" /\ pc' \in {"announcing", "abandonStop"}
           \/ pc = "announcing" /\ pc' \in {"serving", "abandonStop"}
        /\ anchor' = anchor
    BY <1>2 DEF StartUp, StartLifespan, Register, Arm, ArmFails, Announce, serverVars
  <2> QED
    BY <1>0, <1>1, <2>1
<1>3. CASE StartServing
  <2>1. pc = "arming" /\ pc' = "arming" /\ ~listening /\ listening' /\ anchor' = anchor
    BY <1>3 DEF StartServing, serverVars
  <2> QED
    BY <1>0, <1>1, <2>1
<1>4. CASE Abandon
  <2>1. /\ \/ pc = "abandonStop" /\ pc' = "abandonLifespan"
           \/ pc = "abandonLifespan" /\ pc' = "abandonMasters"
           \/ pc = "abandonMasters" /\ pc' = "failed"
        /\ anchor' = anchor
    BY <1>4 DEF Abandon, AbandonStop, AbandonLifespan, AbandonMasters, serverVars
  <2> QED
    BY <1>0, <1>1, <2>1
<1>5. CASE Interrupt \/ Wait
  <2>1. pc = "descending" /\ pc' = "waiting" /\ anchor' = stage /\ anchor < stage
    BY <1>5 DEF Interrupt, Wait, InTurn
  <2>2. 3 * (3 - anchor') + 3 <= 3 * (3 - anchor)
    BY <1>0, <2>1
  <2> QED
    BY <1>0, <1>1, <2>1, <2>2
<1>6. CASE Descent /\ ~Interrupt /\ ~Wait
  <2>1. /\ \/ pc = "serving" /\ pc' = "stopping"
           \/ pc = "stopping" /\ pc' = "descending"
           \/ pc = "descending" /\ pc' = "finalizing"
           \/ pc = "waiting" /\ pc' = "leaving"
           \/ pc = "leaving" /\ pc' \in {"finalizing", "descending"}
           \/ pc = "finalizing" /\ pc' = "cleaning"
           \/ pc = "cleaning" /\ pc' = "persisting"
           \/ pc = "persisting" /\ pc' = "releasing"
           \/ pc = "releasing" /\ pc' = "done"
        /\ anchor' = anchor
    BY <1>6
    DEF Descent, BeginStop, StopAdmitting, LastRung, WaitReturns, LeaveWait, Finalize,
        CleanupDrained, Persist, Release, serverVars
  <2> QED
    BY <1>0, <1>1, <2>1
<1> QED
  BY <1>2, <1>3, <1>4, <1>5, <1>6 DEF Serve, Descent

(* Every step of serve() and every signal brings the end nearer, and nothing *)
(* the connections do puts it off: the descent neither comes round to a rung *)
(* it has waited on, nor can signals keep it going.                          *)
EndNears ==
  [][/\ Rank \in Nat /\ Rank' \in Nat
     /\ Rank' <= Rank
     /\ Serve \/ Escalate \/ Restart => Rank' < Rank]_vars

(* What DescentEnds rests on: fairness has serve() taking its steps, and it  *)
(* can take only so many.                                                    *)
THEOREM DescentNearsItsEnd == Spec => EndNears
<1>1. ASSUME IInv, Rank \in Nat, (Rank \in Nat)', [Next]_vars
      PROVE  [/\ Rank \in Nat /\ Rank' \in Nat
              /\ Rank' <= Rank
              /\ Serve \/ Escalate \/ Restart => Rank' < Rank]_vars
  <2>0. SUFFICES ASSUME Next
                 PROVE  /\ Rank' <= Rank
                        /\ Serve \/ Escalate \/ Restart => Rank' < Rank
    BY <1>1
  <2>1. Rank \in Nat /\ Rank' \in Nat
    BY <1>1
  <2>2. Serve => Rank' < Rank
    BY <1>1, ServeNears DEF IInv
  <2>3. Escalate \/ Restart => Rank' < Rank
    <3> SUFFICES ASSUME Escalate \/ Restart PROVE Rank' < Rank
      OBVIOUS
    <3>1. stage' = stage + 1 /\ UNCHANGED <<pc, anchor, listening>>
      BY DEF Escalate, Restart, serverVars, listener, RUNNING, DRAINING
    <3>2. Place(pc) \in Nat /\ stage \in Nat /\ anchor \in Nat
      BY <1>1, PlaceNat DEF IInv, TypeOK, RUNNING, FINALIZING
    <3>3. Place(pc)' = Place(pc)
      BY <3>1
    <3> QED
      BY <3>1, <3>2, <3>3 DEF Rank, FINALIZING
  <2>4. ASSUME NEW c \in Clients, Connection(c) PROVE Rank' = Rank
    BY <2>4, ConnectionStands DEF Rank
  <2>5. Terminated => Rank' = Rank
    BY DEF Terminated, vars, signalVars, serverVars, listener, Rank
  <2>6. CASE Serve \/ Escalate \/ Restart
    BY <2>1, <2>2, <2>3, <2>6
  <2>7. CASE ~(Serve \/ Escalate \/ Restart)
    <3>1. Rank' = Rank
      BY <2>0, <2>4, <2>5, <2>7 DEF Next
    <3> QED
      BY <2>1, <2>7, <3>1
  <2> QED
    BY <2>6, <2>7
<1> QED
  BY ShutdownInvariant, TypeCorrect, RankNat, <1>1, PTL DEF Spec, EndNears
=============================================================================
