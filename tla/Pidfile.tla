-------------------------------- MODULE Pidfile --------------------------------
(***************************************************************************)
(* Processes that serve one port one after the other and find each other   *)
(* through a pidfile: a start with --restart looks its predecessor up,     *)
(* records itself once it serves, and signals the predecessor, which then  *)
(* drains (lifecycle/pidfile.py, lifecycle/entry.py).                      *)
(*                                                                         *)
(* A number is held by one process at a time and handed out again when     *)
(* that is gone, be it to one of ours or to a stranger. The start time the *)
(* record carries beside the number tells one holder of it from another,   *)
(* so that a token here is the process itself. Every read and write of the *)
(* file and of /proc is a step of its own, and a process may be killed     *)
(* between any two.                                                        *)
(***************************************************************************)
EXTENDS Naturals

CONSTANTS
  Processes,   (* the processes started on the port, over time               *)
  Pids,        (* the numbers                                                *)
  Stranger,    (* any process that is not one of them                        *)
  Nobody,      (* the holder of a free number                                *)
  None         (* no record, and no token                                    *)

ASSUME PidfileAssumption ==
  /\ Stranger \notin Processes /\ Nobody \notin Processes /\ None \notin Processes
  /\ Stranger # Nobody /\ None # Stranger /\ None # Nobody
  /\ None \notin [pid : Pids, token : Processes \cup {None}]

(* PidfileEntry; a record written by hand carries no token. *)
Entries == [pid : Pids, token : Processes \cup {None}]

VARIABLES
  holder,      (* who has each number                                        *)
  pid,         (* the number each process was given                          *)
  file,        (* the record                                                 *)
  found,       (* predecessor: the record looked up, None if of no use       *)
  pinned,      (* the process that the descriptor on /proc refers to         *)
  pc,          (* where each process stands                                  *)
  announced,   (* history: who has written its own record                    *)
  told         (* history: who sent SIGUSR2 to whom                          *)

vars == <<holder, pid, file, found, pinned, pc, announced, told>>

Steps == {"unborn", "reading", "verifying", "starting", "pinning", "checking",
          "sending", "arming", "serving", "removing", "unlinking", "restoring", "gone"}

TypeOK ==
  /\ holder \in [Pids -> Processes \cup {Stranger, Nobody}]
  /\ pid \in [Processes -> Pids \cup {None}]
  /\ file \in Entries \cup {None}
  /\ found \in [Processes -> Entries \cup {None}]
  /\ pinned \in [Processes -> Processes \cup {Stranger, Nobody}]
  /\ pc \in [Processes -> Steps]
  /\ announced \subseteq Processes
  /\ told \subseteq Processes \X (Processes \cup {Stranger})

Init ==
  /\ holder = [n \in Pids |-> Nobody]
  /\ pid = [p \in Processes |-> None]
  /\ file \in [pid : Pids, token : {None}] \cup {None}
  /\ found = [p \in Processes |-> None]
  /\ pinned = [p \in Processes |-> Nobody]
  /\ pc = [p \in Processes |-> "unborn"]
  /\ announced = {} /\ told = {}

Own(p) == [pid |-> pid[p], token |-> p]

Goes(p, step) == pc' = [pc EXCEPT ![p] = step]

(* p is no more, with all that it remembered, and its number is free. *)
Gone(p) ==
  /\ holder' = [holder EXCEPT ![pid[p]] = Nobody]
  /\ found' = [found EXCEPT ![p] = None]
  /\ pinned' = [pinned EXCEPT ![p] = Nobody]

Exits(p) == Goes(p, "gone") /\ Gone(p)

-----------------------------------------------------------------------------
(* The look-up, before anything is served                                    *)

Start(p) ==
  /\ pc[p] = "unborn"
  /\ \E n \in Pids : /\ holder[n] = Nobody
                    /\ holder' = [holder EXCEPT ![n] = p]
                    /\ pid' = [pid EXCEPT ![p] = n]
  /\ Goes(p, "reading")
  /\ UNCHANGED <<file, found, pinned, announced, told>>

(* A record that names this process, or carries no token, is of no use. *)
Read(p) ==
  /\ pc[p] = "reading"
  /\ IF file # None /\ file.pid # pid[p] /\ file.token # None
     THEN found' = [found EXCEPT ![p] = file] /\ Goes(p, "verifying")
     ELSE UNCHANGED found /\ Goes(p, "starting")
  /\ UNCHANGED <<holder, pid, file, pinned, announced, told>>

(* Does the record name the process that has the number now? Before a live   *)
(* one a plain start gives up, a restart remembers it, and a forced start    *)
(* goes on as if there were none.                                            *)
Verify(p) ==
  LET live == holder[found[p].pid] = found[p].token IN
  /\ pc[p] = "verifying"
  /\ \/ live /\ Exits(p)
     \/ live /\ Goes(p, "starting") /\ UNCHANGED <<holder, found, pinned>>
     \/ /\ found' = [found EXCEPT ![p] = None]
        /\ Goes(p, "starting")
        /\ UNCHANGED <<holder, pinned>>
  /\ UNCHANGED <<pid, file, announced, told>>

(* Nothing is recorded yet, and nothing is put back. *)
FailStart(p) ==
  /\ pc[p] = "starting"
  /\ Exits(p)
  /\ UNCHANGED <<pid, file, announced, told>>

-----------------------------------------------------------------------------
(* announce: the listener accepts                                            *)

Announce(p) ==
  /\ pc[p] = "starting"
  /\ file' = Own(p)
  /\ announced' = announced \cup {p}
  /\ Goes(p, IF found[p] = None THEN "arming" ELSE "pinning")
  /\ UNCHANGED <<holder, pid, found, pinned, told>>

(* Mutant: the record is read again, after it was overwritten. *)
ReadAgain(p) == file

(* Whom the signal is for: as looked up, however long ago. *)
Predecessor(p) == found[p]

(* A descriptor on /proc/<pid>: on whoever has the number by now. *)
Pin(p) ==
  LET now == holder[Predecessor(p).pid] IN
  /\ pc[p] = "pinning" /\ Predecessor(p) # None
  /\ pinned' = [pinned EXCEPT ![p] = now]
  /\ Goes(p, IF now = Nobody THEN "arming" ELSE "checking")
  /\ UNCHANGED <<holder, pid, file, found, announced, told>>

(* Mutant: the number is enough. *)
MatchesByPid(p) == holder[found[p].pid] = pinned[p]

(* The token of the pinned process; nothing can be read of one that is gone. *)
Matches(p) == holder[found[p].pid] = pinned[p] /\ pinned[p] = found[p].token

Check(p) ==
  /\ pc[p] = "checking"
  /\ Goes(p, IF Matches(p) THEN "sending" ELSE "arming")
  /\ UNCHANGED <<holder, pid, file, found, pinned, announced, told>>

(* The handlers of one of ours are not installed yet, or not any more. *)
Unarmed(q) == q \in Processes /\ pc[q] # "serving"

(* SIGUSR2 to the pinned process, if it is still there. One whose handlers   *)
(* are not installed is ended by it.                                         *)
Send(p) ==
  LET q == pinned[p]
      there == holder[found[p].pid] = q IN
  /\ pc[p] = "sending"
  /\ told' = IF there THEN told \cup {<<p, q>>} ELSE told
  /\ IF there /\ Unarmed(q)
     THEN pc' = [pc EXCEPT ![q] = "gone", ![p] = "arming"] /\ Gone(q)
     ELSE Goes(p, "arming") /\ UNCHANGED <<holder, found, pinned>>
  /\ UNCHANGED <<pid, file, announced>>

(* There is no way to signal, or it is refused. *)
FailSignal(p) ==
  /\ pc[p] \in {"pinning", "checking", "sending"}
  /\ Goes(p, "restoring")
  /\ UNCHANGED <<holder, pid, file, found, pinned, announced, told>>

HandsOver(p) == Pin(p) \/ Check(p) \/ Send(p) \/ FailSignal(p)

-----------------------------------------------------------------------------
(* The end                                                                   *)

(* The signal handlers are installed, after the announcement. *)
Arm(p) ==
  /\ pc[p] = "arming"
  /\ Goes(p, "serving")
  /\ UNCHANGED <<holder, pid, file, found, pinned, announced, told>>

(* serve returns, or raises. *)
End(p) ==
  /\ pc[p] = "serving"
  /\ \/ Goes(p, "removing")
     \/ found[p] # None /\ Goes(p, "restoring")
  /\ UNCHANGED <<holder, pid, file, found, pinned, announced, told>>

(* Mutant: the record is made anew, of whoever has the number by now. *)
Rederived(p) ==
  [pid |-> found[p].pid,
   token |-> IF holder[found[p].pid] = Nobody THEN None ELSE holder[found[p].pid]]

(* What is put back is what was found. *)
Restored(p) == found[p]

(* After a failure the predecessor's record is put back, or cannot be. *)
Restore(p) ==
  /\ pc[p] = "restoring"
  /\ file' \in {Restored(p), file}
  /\ Exits(p)
  /\ UNCHANGED <<pid, announced, told>>

(* remove_pidfile: only a record that carries this process's number *)
ReadOwn(p) ==
  /\ pc[p] = "removing"
  /\ IF file # None /\ file.pid = pid[p]
     THEN Goes(p, "unlinking") /\ UNCHANGED <<holder, found, pinned>>
     ELSE Exits(p)
  /\ UNCHANGED <<pid, file, announced, told>>

(* The file goes, whatever it says by now. *)
Unlink(p) ==
  /\ pc[p] = "unlinking"
  /\ file' \in {None, file}
  /\ Exits(p)
  /\ UNCHANGED <<pid, announced, told>>

Crash(p) ==
  /\ pc[p] \notin {"unborn", "gone"}
  /\ Exits(p)
  /\ UNCHANGED <<pid, file, announced, told>>

(* Other processes come and go. *)
Elsewhere ==
  /\ \E n \in Pids :
       \/ holder[n] = Nobody /\ holder' = [holder EXCEPT ![n] = Stranger]
       \/ holder[n] = Stranger /\ holder' = [holder EXCEPT ![n] = Nobody]
  /\ UNCHANGED <<pid, file, found, pinned, pc, announced, told>>

Next ==
  \/ \E p \in Processes :
       \/ Start(p) \/ Read(p) \/ Verify(p) \/ FailStart(p) \/ Announce(p)
       \/ HandsOver(p) \/ Arm(p) \/ End(p)
       \/ Restore(p) \/ ReadOwn(p) \/ Unlink(p) \/ Crash(p)
  \/ Elsewhere

Spec == Init /\ [][Next]_vars

(* A process that has announced itself gets on with the hand-over. *)
FairSpec == Spec /\ \A p \in Processes : WF_vars(HandsOver(p))

-----------------------------------------------------------------------------
(* SIGUSR2 reaches only a process that has served this port, never a         *)
(* stranger that was given the number since, and only once the sender serves *)
(* the port in its place. And no processes drain one another, however many   *)
(* of them start and fail at once, putting back records that others read:    *)
(* among any of them there is one that has told none of the others.          *)
SignalsHandOver ==
  /\ \A s \in told : s[1] \in announced /\ s[2] \in announced
  /\ \A ring \in (SUBSET Processes) \ {{}} :
       \E p \in ring : \A q \in ring : <<p, q>> \notin told

(* The record names a process by a number that was its own, and none that    *)
(* has not served: also after a failed hand-over has put it back, when that  *)
(* process may be gone and its number another's.                             *)
RecordsServers ==
  file # None /\ file.token # None =>
    file.token \in announced /\ file = Own(file.token)

(* A restart that has announced itself tells the predecessor it found,       *)
(* unless that has gone by itself, or the restart ends first.                *)
PredecessorTold ==
  \A p \in Processes :
    pc[p] = "pinning" ~>
      \/ pc[p] \in {"restoring", "gone"}
      \/ /\ found[p] # None
         /\ <<p, found[p].token>> \in told \/ pc[found[p].token] = "gone"
=============================================================================
