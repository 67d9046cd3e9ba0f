------------------------------ MODULE Shutdown ------------------------------
(***************************************************************************)
(* A directly run process from start-up to exit: StandaloneServer driving  *)
(* a listener through serve and down the ladder the signals climb, the     *)
(* admission barrier in front of the application, and the connections and  *)
(* requests that live through it (lifecycle/standalone.py, shutdown.py,    *)
(* adapter.py, listener.py).                                               *)
(*                                                                         *)
(* Two listeners implement the same protocol: Uvicorn's own, and the       *)
(* first-byte router of `both` mode, which owns the accepts and drives the *)
(* barrier of the Uvicorn adapter behind it. `state` and `sockets` are the *)
(* outer one's. Every `await` is a step boundary, also where it happens    *)
(* not to suspend, so the model has every interleaving the loop has.       *)
(*                                                                         *)
(* The counts of the closing report are not modelled, nor is               *)
(* `graceful_cleanup_timeout`: a clean-up over its budget is reported and  *)
(* awaited all the same.                                                   *)
(***************************************************************************)
EXTENDS Naturals

CONSTANTS
  Clients,   (* bound: the connections ever made, one per client *)
  Adapters   (* the listeners under test                         *)

ASSUME ShutdownAssumption == Adapters \subseteq {"uvicorn", "router"}

(* ShutdownStage *)
RUNNING == 0
DRAINING == 1
INTERRUPTING == 2
FINALIZING == 3

ListenerStates ==
  {"new", "dormant", "accepting", "stopped", "stopping", "failed", "closed"}

(* Where serve() stands; the first line is start-up, the second the stand   *)
(* after a failed one, the rest runs with the signal handlers installed.    *)
Steps ==
  {"starting", "registering", "arming", "announcing",
   "abandonStop", "abandonLifespan", "abandonMasters", "failed",
   "serving", "stopping", "descending", "waiting", "leaving",
   "finalizing", "cleaning", "persisting", "releasing", "done"}

(* One connection: not made yet; accepted but not a connection of the       *)
(* server's (a TLS handshake, a first byte awaited); open with no request;  *)
(* with a request held at the barrier, inside the application, or being     *)
(* answered 503; gone.                                                      *)
ClientStates == {"out", "joining", "idle", "parked", "serving", "refusing", "closed"}

VARIABLES
  adapter,                           (* which listener this is               *)
  pc,
  stage, stopAsked,                  (* the ladder; history: SIGINT/SIGTERM  *)
  anchor, drained, interrupted,      (* locals of the descent                *)
  state, sockets, listening, gate,   (* the listener and its barrier         *)
  lifespan, masters, notes,          (* resources, and releases that failed  *)
  client, closing,                   (* connections, those without keep-alive *)
  pending, told, cut                 (* cancellations: undelivered, sent, fatal *)

serverVars == <<anchor, drained, interrupted>>
signalVars == <<stage, stopAsked>>
listener == <<state, sockets, listening>>
resources == <<lifespan, masters, notes>>
connections == <<client, closing>>
cancellations == <<pending, told, cut>>
vars == <<adapter, pc, signalVars, serverVars, listener, gate, resources,
          connections, cancellations>>

TypeOK ==
  /\ adapter \in Adapters
  /\ pc \in Steps
  /\ stage \in RUNNING .. FINALIZING /\ stopAsked \in BOOLEAN
  /\ anchor \in RUNNING .. FINALIZING /\ drained \in BOOLEAN /\ interrupted \in BOOLEAN
  /\ state \in ListenerStates /\ sockets \in BOOLEAN /\ listening \in BOOLEAN
  /\ gate \in {"paused", "open", "refused"}
  /\ lifespan \in {"off", "on", "broken"} /\ masters \in BOOLEAN
  /\ notes \subseteq {"lifespan", "masters"}
  /\ client \in [Clients -> ClientStates]
  /\ closing \subseteq Clients
  /\ pending \subseteq Clients /\ told \subseteq Clients /\ cut \subseteq Clients

Init ==
  /\ adapter \in Adapters
  /\ pc = "starting"
  /\ stage = RUNNING /\ stopAsked = FALSE
  /\ anchor = RUNNING /\ drained = FALSE /\ interrupted = FALSE
  /\ state = "new" /\ sockets = FALSE /\ listening = FALSE /\ gate = "paused"
  /\ lifespan = "off" /\ masters = TRUE /\ notes = {}
  /\ client = [c \in Clients |-> "out"] /\ closing = {}
  /\ pending = {} /\ told = {} /\ cut = {}

(* server_state.tasks and server_state.connections *)
Busy == {c \in Clients : client[c] \in {"parked", "serving", "refusing"}}
Connected == {c \in Clients : client[c] = "idle"} \cup Busy

Serving(c) == client[c] = "serving"

Alive == pc \notin {"done", "failed"}

(* Once the drain has refused admission. *)
Refusing ==
  pc \in {"descending", "waiting", "leaving", "finalizing", "cleaning",
          "persisting", "releasing", "done"}

-----------------------------------------------------------------------------
(* The listener's operations.                                                *)

(* gated_app: what becomes of a request the barrier sees.                    *)
Admitted(g) ==
  CASE g = "paused" -> "parked" [] g = "open" -> "serving" [] g = "refused" -> "refusing"

(* Moving the gate wakes whoever was held at it.                             *)
Woken(g) == [c \in Clients |-> IF client[c] = "parked" THEN Admitted(g) ELSE client[c]]

(* connection.shutdown(): an idle connection goes, a busy one loses its      *)
(* keep-alive and goes when its response ends.                               *)
Hung(f) == [c \in Clients |-> IF f[c] = "idle" THEN "closed" ELSE f[c]]

(* Refuse admission and let the connections go.                              *)
RefuseAll ==
  /\ gate' = "refused"
  /\ client' = Hung(Woken("refused"))
  /\ closing' = closing \cup Busy

(* stop_accepting: close the listener and pause the barrier. The router also *)
(* cancels the sockets it has not routed yet.                                *)
StopAccepting ==
  IF state \in {"stopping", "closed", "failed"}
  THEN UNCHANGED <<listener, gate, client>>
  ELSE /\ state' = "stopped" /\ sockets' = FALSE /\ listening' = FALSE
       /\ gate' = "paused"
       /\ client' = IF adapter = "router"
                    THEN [c \in Clients |->
                            IF client[c] = "joining" THEN "closed" ELSE client[c]]
                    ELSE client

(* cancel_requests *)
CancelRequests ==
  /\ pending' = pending \cup Busy
  /\ told' = told \cup Busy
  /\ UNCHANGED cut

(* close_masters, refused while accept sockets remain; closing may fail.     *)
CloseMasters ==
  \/ ~sockets /\ masters' = FALSE /\ UNCHANGED notes
  \/ notes' = notes \cup {"masters"} /\ UNCHANGED masters

-----------------------------------------------------------------------------
(* Start-up, and the way back out of it: `acquired` is where it failed.      *)

StartLifespan ==
  /\ pc = "starting"
  /\ \/ pc' = "registering" /\ lifespan' = "on" /\ UNCHANGED state
     \/ /\ pc' = "abandonMasters"
        /\ state' = IF adapter = "uvicorn" THEN "failed" ELSE state
        /\ UNCHANGED lifespan
  /\ UNCHANGED <<adapter, signalVars, serverVars, sockets, listening, gate,
                 masters, notes, connections, cancellations>>

(* Mutant: only a failure past registration shuts the lifespan down. *)
RegisterForgetful ==
  /\ pc = "registering"
  /\ \/ pc' = "arming" /\ state' = "dormant" /\ sockets' = TRUE
     \/ /\ pc' = "abandonMasters"
        /\ state' = IF adapter = "uvicorn" THEN "failed" ELSE state
        /\ UNCHANGED sockets
  /\ UNCHANGED <<adapter, signalVars, serverVars, listening, gate,
                 resources, connections, cancellations>>

Register ==
  /\ pc = "registering"
  /\ \/ pc' = "arming" /\ state' = "dormant" /\ sockets' = TRUE
     \/ /\ pc' = "abandonLifespan"
        /\ state' = IF adapter = "uvicorn" THEN "failed" ELSE state
        /\ UNCHANGED sockets
  /\ UNCHANGED <<adapter, signalVars, serverVars, listening, gate,
                 resources, connections, cancellations>>

(* Uvicorn's listener accepts before the barrier opens; the router's does    *)
(* both at once.                                                             *)
StartServing ==
  /\ pc = "arming" /\ adapter = "uvicorn"
  /\ ~listening /\ listening' = TRUE
  /\ UNCHANGED <<adapter, pc, signalVars, serverVars, state, sockets, gate,
                 resources, connections, cancellations>>

Arm ==
  /\ pc = "arming" /\ (adapter = "router" \/ listening)
  /\ pc' = "announcing"
  /\ state' = "accepting" /\ listening' = TRUE
  /\ gate' = "open" /\ client' = Woken("open")
  /\ UNCHANGED <<adapter, signalVars, serverVars, sockets, resources,
                 closing, cancellations>>

(* Uvicorn's listener gives its sockets back, the router's keeps them.       *)
ArmFails ==
  /\ pc = "arming"
  /\ pc' = "abandonStop"
  /\ state' = "failed" /\ listening' = FALSE
  /\ IF adapter = "uvicorn"
     THEN sockets' = FALSE /\ gate' = "refused" /\ client' = Woken("refused")
     ELSE UNCHANGED <<sockets, gate, client>>
  /\ UNCHANGED <<adapter, signalVars, serverVars, resources, closing, cancellations>>

(* on_serving: the pidfile and the predecessor's signal.                     *)
Announce ==
  /\ pc = "announcing"
  /\ pc' \in {"serving", "abandonStop"}
  /\ UNCHANGED <<adapter, signalVars, serverVars, listener, gate,
                 resources, connections, cancellations>>

AbandonStop ==
  /\ pc = "abandonStop"
  /\ pc' = "abandonLifespan"
  /\ StopAccepting
  /\ UNCHANGED <<adapter, signalVars, serverVars, resources, closing, cancellations>>

(* shutdown_lifespan(drain_timeout=0). asyncio.wait_for cancels what it is   *)
(* given before its first step when the timeout is 0, so waiting for the     *)
(* drain times out even with nothing running, and the lifespan stays up.     *)
AbandonLifespan ==
  /\ pc = "abandonLifespan"
  /\ pc' = "abandonMasters"
  /\ RefuseAll
  /\ IF adapter = "uvicorn"
     THEN state' = "stopping" /\ sockets' = FALSE /\ listening' = FALSE
     ELSE IF state = "failed"
          THEN UNCHANGED listener
          ELSE state' = "stopped" /\ sockets' = FALSE /\ listening' = FALSE
  /\ notes' = notes \cup {"lifespan"}
  /\ UNCHANGED <<adapter, signalVars, serverVars, lifespan, masters, cancellations>>

AbandonMasters ==
  /\ pc = "abandonMasters"
  /\ pc' = "failed"
  /\ CloseMasters
  /\ UNCHANGED <<adapter, signalVars, serverVars, listener, gate, lifespan,
                 connections, cancellations>>

-----------------------------------------------------------------------------
(* Signals. Handlers are installed from the announcement until serve()       *)
(* returns; before and after, the default action of the platform applies,    *)
(* which is not modelled.                                                    *)

Installed ==
  pc \in {"serving", "stopping", "descending", "waiting", "leaving",
          "finalizing", "cleaning", "persisting", "releasing"}

(* Mutant: no ceiling on the ladder. *)
EscalateUncapped ==
  /\ Installed
  /\ stage' = stage + 1 /\ stopAsked' = TRUE
  /\ UNCHANGED <<adapter, pc, serverVars, listener, gate, resources,
                 connections, cancellations>>

(* SIGINT or SIGTERM. *)
Escalate ==
  /\ Installed /\ stage < FINALIZING
  /\ stage' = stage + 1 /\ stopAsked' = TRUE
  /\ UNCHANGED <<adapter, pc, serverVars, listener, gate, resources,
                 connections, cancellations>>

(* Mutant: a restart signal climbs like the others. *)
RestartEscalates ==
  /\ Installed /\ stage < FINALIZING
  /\ stage' = stage + 1
  /\ UNCHANGED <<adapter, pc, stopAsked, serverVars, listener, gate, resources,
                 connections, cancellations>>

(* SIGUSR2 starts the descent and never deepens it. *)
Restart ==
  /\ Installed /\ stage = RUNNING
  /\ stage' = DRAINING
  /\ UNCHANGED <<adapter, pc, stopAsked, serverVars, listener, gate, resources,
                 connections, cancellations>>

-----------------------------------------------------------------------------
(* The descent.                                                              *)

BeginStop ==
  /\ pc = "serving" /\ stage # RUNNING
  /\ pc' = "stopping"
  /\ StopAccepting
  /\ UNCHANGED <<adapter, signalVars, serverVars, resources, closing, cancellations>>

StopAdmitting ==
  /\ pc = "stopping"
  /\ pc' = "descending"
  /\ RefuseAll
  /\ UNCHANGED <<adapter, signalVars, serverVars, listener, resources, cancellations>>

LastRung ==
  /\ pc = "descending" /\ stage = FINALIZING
  /\ pc' = "finalizing"
  /\ CancelRequests
  /\ UNCHANGED <<adapter, signalVars, serverVars, listener, gate, resources, connections>>

(* The second rung acts once, then waits like the first. `interrupted` is    *)
(* whether any connection was there to be asked.                             *)
Interrupt ==
  /\ pc = "descending" /\ stage = INTERRUPTING /\ ~interrupted
  /\ pc' = "waiting" /\ anchor' = stage
  /\ interrupted' = (Connected # {})
  /\ client' = Hung(client) /\ closing' = closing \cup Busy
  /\ CancelRequests
  /\ UNCHANGED <<adapter, signalVars, drained, listener, gate, resources>>

Wait ==
  /\ pc = "descending"
  /\ stage = DRAINING \/ (stage = INTERRUPTING /\ interrupted)
  /\ pc' = "waiting" /\ anchor' = stage
  /\ UNCHANGED <<adapter, signalVars, drained, interrupted, listener, gate,
                 resources, connections, cancellations>>

(* Mutant: the rung to wait on is read anew, so an advance already made is   *)
(* never noticed.                                                            *)
WaitReturnsRereading ==
  /\ pc = "waiting"
  /\ pc' = "leaving"
  /\ Busy = {} /\ drained' = TRUE
  /\ UNCHANGED <<adapter, signalVars, anchor, interrupted, listener, gate,
                 resources, connections, cancellations>>

(* Mutant: an open connection holds the drain. *)
WaitReturnsUnconnected ==
  /\ pc = "waiting"
  /\ pc' = "leaving"
  /\ \/ Connected = {} /\ drained' = TRUE
     \/ stage # anchor /\ drained' = FALSE
  /\ UNCHANGED <<adapter, signalVars, anchor, interrupted, listener, gate,
                 resources, connections, cancellations>>

(* _drained_before_advance: the drain or an advance, whichever is seen first; *)
(* the loser is cancelled and awaited, and a signal may arrive meanwhile.    *)
WaitReturns ==
  /\ pc = "waiting"
  /\ pc' = "leaving"
  /\ \/ Busy = {} /\ drained' = TRUE
     \/ stage # anchor /\ drained' = FALSE
  /\ UNCHANGED <<adapter, signalVars, anchor, interrupted, listener, gate,
                 resources, connections, cancellations>>

LeaveWait ==
  /\ pc = "leaving"
  /\ pc' = IF drained /\ stage = anchor THEN "finalizing" ELSE "descending"
  /\ UNCHANGED <<adapter, signalVars, serverVars, listener, gate, resources,
                 connections, cancellations>>

(* _finalize: shutdown_lifespan up to its own wait. The router stops         *)
(* accepting again first, which pauses the barrier and refuses it at once.   *)
Finalize ==
  /\ pc = "finalizing"
  /\ pc' = "cleaning"
  /\ RefuseAll
  /\ state' = IF adapter = "uvicorn" THEN "stopping" ELSE "stopped"
  /\ sockets' = FALSE /\ listening' = FALSE
  /\ UNCHANGED <<adapter, signalVars, serverVars, resources, cancellations>>

(* Mutant: a clean-up over its budget no longer waits for the requests. *)
CleanupOverBudget ==
  /\ pc = "cleaning"
  /\ pc' = "persisting"
  /\ UNCHANGED <<adapter, signalVars, serverVars, listener, gate, resources,
                 connections, cancellations>>

(* wait_drained(None) inside shutdown_lifespan, on every rung. *)
CleanupDrained ==
  /\ pc = "cleaning" /\ Busy = {}
  /\ pc' = "persisting"
  /\ UNCHANGED <<adapter, signalVars, serverVars, listener, gate, resources,
                 connections, cancellations>>

(* The application's own shutdown, which may report a failure. *)
Persist ==
  /\ pc = "persisting"
  /\ pc' = "releasing"
  /\ \/ lifespan' = "off" /\ state' = "closed" /\ UNCHANGED notes
     \/ /\ lifespan' = "broken" /\ notes' = notes \cup {"lifespan"}
        /\ state' = IF adapter = "uvicorn" THEN "failed" ELSE state
  /\ UNCHANGED <<adapter, signalVars, serverVars, sockets, listening, gate, masters,
                 connections, cancellations>>

Release ==
  /\ pc = "releasing"
  /\ pc' = "done"
  /\ CloseMasters
  /\ UNCHANGED <<adapter, signalVars, serverVars, listener, gate, lifespan,
                 connections, cancellations>>

-----------------------------------------------------------------------------
(* Connections and requests.                                                 *)

unmoved == <<adapter, pc, signalVars, serverVars, listener, gate, resources>>

Move(c, to) == client' = [client EXCEPT ![c] = to]

Accept(c) ==
  /\ Alive /\ listening
  /\ client[c] = "out" /\ Move(c, "joining")
  /\ UNCHANGED <<unmoved, closing, cancellations>>

(* The handshake may end long after the listener closed.                     *)
Join(c) ==
  /\ Alive
  /\ client[c] = "joining" /\ Move(c, "idle")
  /\ UNCHANGED <<unmoved, closing, cancellations>>

Send(c) ==
  /\ Alive
  /\ client[c] = "idle" /\ Move(c, Admitted(gate))
  /\ UNCHANGED <<unmoved, closing, cancellations>>

(* A response ends, whatever became of a cancellation it was sent.           *)
Respond(c) ==
  /\ Alive
  /\ client[c] = "serving"
  /\ Move(c, IF c \in closing THEN "closed" ELSE "idle")
  /\ pending' = pending \ {c}
  /\ UNCHANGED <<unmoved, closing, told, cut>>

(* The 503 carries `connection: close`.                                      *)
Refuse(c) ==
  /\ Alive
  /\ client[c] = "refusing" /\ Move(c, "closed")
  /\ pending' = pending \ {c}
  /\ UNCHANGED <<unmoved, closing, told, cut>>

(* A cancellation reaches its task, which unwinds or swallows it.            *)
Unwind(c) ==
  /\ Alive
  /\ c \in pending /\ pending' = pending \ {c}
  /\ \/ Move(c, "closed") /\ cut' = cut \cup {c}
     \/ client[c] = "serving" /\ UNCHANGED <<client, cut>>
  /\ UNCHANGED <<unmoved, closing, told>>

HangUp(c) ==
  /\ Alive
  /\ client[c] = "idle" /\ Move(c, "closed")
  /\ UNCHANGED <<unmoved, closing, cancellations>>

Terminated == ~Alive /\ UNCHANGED vars

-----------------------------------------------------------------------------
StartUp == StartLifespan \/ Register \/ StartServing \/ Arm \/ ArmFails \/ Announce

Abandon == AbandonStop \/ AbandonLifespan \/ AbandonMasters

Descent ==
  \/ BeginStop \/ StopAdmitting
  \/ LastRung \/ Interrupt \/ Wait \/ WaitReturns \/ LeaveWait
  \/ Finalize \/ CleanupDrained \/ Persist \/ Release

Serve == StartUp \/ Abandon \/ Descent

Connection(c) ==
  \/ Accept(c) \/ Join(c) \/ Send(c) \/ Respond(c) \/ Refuse(c)
  \/ Unwind(c) \/ HangUp(c)

Next ==
  \/ Serve
  \/ Escalate \/ Restart
  \/ \E c \in Clients : Connection(c)
  \/ Terminated

Spec == Init /\ [][Next]_vars

(* serve() and the loop run on; a refusal is a few bytes the loop writes; a  *)
(* cancellation is delivered. Nothing is assumed of signals or clients, nor  *)
(* that a request ends.                                                      *)
Fairness ==
  /\ WF_vars(Serve)
  /\ \A c \in Clients : WF_vars(Refuse(c)) /\ WF_vars(Unwind(c))

FairSpec == Spec /\ Fairness

-----------------------------------------------------------------------------
(* Properties.                                                               *)

(* The application serves a request only while its lifespan is up: admission *)
(* is refused and the requests have drained before the lifespan goes down,   *)
(* on every rung and with connections that complete after the listener       *)
(* closed.                                                                   *)
ServedWhileUp == \A c \in Clients : Serving(c) => lifespan = "on"

(* Whatever is still held when serve() ends, returned or raised, is named in *)
(* the report or in a note on the failure.                                   *)
ReleasedOrReported ==
  ~Alive =>
    /\ lifespan # "off" => "lifespan" \in notes
    /\ masters \/ sockets => "masters" \in notes

Impatient ==
  \/ pc = "waiting" /\ stage = anchor /\ stage >= INTERRUPTING
  \/ pc \in {"finalizing", "cleaning"}

(* Requests are cancelled when somebody asked for it, and then all of them:  *)
(* a smooth restart never interrupts what was accepted, while serve() never  *)
(* waits, on the second rung or past the last, for a request that was sent   *)
(* no cancellation, whichever signals came at whatever step of the descent.  *)
CancelsAsAsked ==
  /\ ~stopAsked => told = {} /\ cut = {}
  /\ Impatient => \A c \in Clients : Serving(c) => c \in told

(* Once the drain has begun no request enters the application, through a     *)
(* pooled connection, a late handshake or the router's second stop.          *)
NothingAdmittedLate ==
  [][Refusing => \A c \in Clients : Serving(c)' => Serving(c)]_vars

(* A rung is never lost: a request in the application when the ladder stands *)
(* on the second rung or beyond is sent a cancellation or ends, however fast *)
(* and at whatever step of the descent the signals came.                     *)
EscalationReaches ==
  \A c \in Clients :
    (stage >= INTERRUPTING /\ Serving(c)) ~> (c \in told \/ ~Serving(c))

(* If every request ends, so does the descent; and no request is held at the *)
(* barrier for ever, whether or not the others end.                          *)
DescentEnds ==
  /\ \A c \in Clients : client[c] = "parked" ~> client[c] # "parked"
  /\ (\A c \in Clients : []<>~Serving(c)) => (stage # RUNNING ~> pc = "done")

(* Statements the repository makes that the code does not keep.              *)

(* A failed start-up releases what it acquired (standalone.py:171).          *)
StartupReleases == pc = "failed" => lifespan # "on"

(* The last rung stops waiting for requests (standalone.py:8,                *)
(* test_standalone_lifecycle.py:273).                                        *)
LastRungEnds == stage = FINALIZING ~> pc = "done"
=============================================================================
