----------------------------- MODULE PidfileProofs -----------------------------
(***************************************************************************)
(* That SIGUSR2 never goes astray, for any processes and numbers, however  *)
(* they are handed out and whoever is killed when.                         *)
(*                                                                         *)
(* A record with a token is that of a process that has announced itself    *)
(* (Named), and stays so wherever it is copied to (Remembered): nothing is *)
(* ever recorded but a process's own identity or a record found before.    *)
(* What has passed the check is the process that was recorded (Pinned).    *)
(* A process looks its predecessor up before it announces itself, so that  *)
(* nobody sees one that is still looking, and it can close no ring         *)
(* (Ringless).                                                             *)
(***************************************************************************)
EXTENDS Pidfile, TLAPS

Named(e) == e # None /\ e.token # None => e.token \in announced /\ e = Own(e.token)

(* A process has a number from its start on, and announces itself once up.   *)
Born ==
  /\ \A p \in Processes : pc[p] # "unborn" => pid[p] \in Pids
  /\ \A p \in announced : pc[p] # "unborn"

(* What is remembered is another's record.                                   *)
Recalls(p) ==
  found[p] # None => Named(found[p]) /\ found[p].token \notin {None, p}

Remembered == \A p \in Processes : Recalls(p)

(* Who hands over has announced itself, and has somebody to hand over from.  *)
Staged ==
  \A p \in Processes :
    /\ pc[p] \in {"pinning", "checking", "sending", "arming", "serving"} => p \in announced
    /\ pc[p] \in {"verifying", "pinning", "checking", "sending", "restoring"} =>
         found[p] # None

Pinned == \A p \in Processes : pc[p] = "sending" => pinned[p] = found[p].token

(* Whom a process has told, or may tell yet.                                 *)
Sees(p, q) == <<p, q>> \in told \/ (found[p] # None /\ found[p].token = q)

Unknown == \A p \in Processes : pc[p] \in {"unborn", "reading"} => p \notin announced

ToldServers == \A s \in told : s[1] \in announced /\ s[2] \in announced

Ringless ==
  \A ring \in (SUBSET Processes) \ {{}} :
    \E p \in ring : \A q \in ring : ~Sees(p, q)

IInv ==
  /\ TypeOK /\ Born /\ Remembered /\ Staged /\ Pinned
  /\ RecordsServers /\ Unknown /\ ToldServers /\ Ringless

-----------------------------------------------------------------------------
LEMMA NamedFile == RecordsServers <=> Named(file)
  BY DEF RecordsServers, Named

LEMMA OwnNamed ==
  ASSUME TypeOK, NEW p \in Processes, pid[p] \in Pids
  PROVE  Own(p) \in Entries /\ Own(p) # None /\ Own(p).token = p
  <1>1. Own(p) \in [pid : Pids, token : Processes \cup {None}]
    BY DEF Own
  <1>2. QED
    BY <1>1, PidfileAssumption DEF Own, Entries

(* A name stays right: numbers are given once, and nobody's announcement is  *)
(* taken back.                                                               *)
LEMMA NamesStay ==
  ASSUME IInv, [Next]_vars, NEW e, Named(e)
  PROVE  Named(e)'
  <1>1. announced \subseteq announced' /\ announced \subseteq Processes
    BY DEF Next, vars, IInv, TypeOK, Start, Read, Verify, FailStart, Announce,
       HandsOver, Pin, Check, Send, FailSignal, Arm, End, Restore, ReadOwn, Unlink,
       Crash, Elsewhere
  <1>2. \A q \in announced : pid'[q] = pid[q]
    <2>1. ASSUME NEW p \in Processes, Start(p), NEW q \in announced
          PROVE  pid'[q] = pid[q]
      BY <2>1 DEF Start, IInv, Born, TypeOK
    <2>2. UNCHANGED pid \/ \E p \in Processes : Start(p)
      BY DEF Next, vars, Read, Verify, FailStart, Announce, HandsOver, Pin, Check,
         Send, FailSignal, Arm, End, Restore, ReadOwn, Unlink, Crash, Elsewhere
    <2>3. QED
      BY <2>1, <2>2
  <1>3. QED
    BY <1>1, <1>2 DEF Named, Own

LEMMA InitInv == Init => IInv
  <1> SUFFICES ASSUME Init PROVE IInv
    OBVIOUS
  <1>1. TypeOK
    BY DEF Init, TypeOK, Entries, Steps
  <1>2. RecordsServers
    BY PidfileAssumption DEF Init, RecordsServers
  <1>3. Born /\ Remembered /\ Staged /\ Pinned /\ Unknown /\ ToldServers
    BY DEF Init, Born, Remembered, Recalls, Staged, Pinned, Unknown, ToldServers
  <1>4. Ringless
    <2>1. ASSUME NEW p \in Processes, NEW q PROVE ~Sees(p, q)
      BY DEF Init, Sees
    <2>2. SUFFICES ASSUME NEW ring \in (SUBSET Processes) \ {{}}
                   PROVE  \E p \in ring : \A q \in ring : ~Sees(p, q)
      BY DEF Ringless
    <2>3. PICK p : p \in ring
      BY <2>2
    <2>4. p \in Processes
      BY <2>2, <2>3
    <2>5. QED
      BY <2>1, <2>3, <2>4
  <1>5. QED
    BY <1>1, <1>2, <1>3, <1>4 DEF IInv

-----------------------------------------------------------------------------
(* The types.                                                                *)

LEMMA ExitsTyped ==
  ASSUME TypeOK, NEW p \in Processes, Gone(p)
  PROVE  /\ holder' \in [Pids -> Processes \cup {Stranger, Nobody}]
         /\ found' \in [Processes -> Entries \cup {None}]
         /\ pinned' \in [Processes -> Processes \cup {Stranger, Nobody}]
  BY DEF TypeOK, Gone

LEMMA TypeStep ==
  ASSUME IInv, [Next]_vars
  PROVE  TypeOK'
  <1>0. TypeOK /\ Born /\ Remembered /\ Staged /\ Pinned
    BY DEF IInv
  <1>1. ASSUME NEW p \in Processes, Start(p) PROVE TypeOK'
    BY <1>0, <1>1 DEF Start, TypeOK, Goes, Steps
  <1>2. ASSUME NEW p \in Processes, Read(p) PROVE TypeOK'
    BY <1>0, <1>2 DEF Read, TypeOK, Goes, Steps
  <1>3. ASSUME NEW p \in Processes,
               Verify(p) \/ FailStart(p) \/ ReadOwn(p) \/ Crash(p)
        PROVE  TypeOK'
    <2>1. Gone(p) \/ UNCHANGED <<holder, pinned>>
      BY <1>3 DEF Verify, FailStart, ReadOwn, Crash, Exits
    <2>2. Gone(p) \/ found' = found \/ found' = [found EXCEPT ![p] = None]
      BY <1>3 DEF Verify, FailStart, ReadOwn, Crash, Exits
    <2>3. pc' \in [Processes -> Steps]
      BY <1>0, <1>3 DEF Verify, FailStart, ReadOwn, Crash, Exits, Goes, TypeOK, Steps
    <2>4. UNCHANGED <<pid, file, announced, told>>
      BY <1>3 DEF Verify, FailStart, ReadOwn, Crash
    <2>5. QED
      BY <1>0, <2>1, <2>2, <2>3, <2>4, ExitsTyped DEF TypeOK
  <1>4. ASSUME NEW p \in Processes, Announce(p) PROVE TypeOK'
    <2>1. pid[p] \in Pids
      BY <1>0, <1>4 DEF Announce, Born
    <2>2. Own(p) \in Entries
      BY <1>0, <2>1, OwnNamed
    <2>3. QED
      BY <1>0, <1>4, <2>2 DEF Announce, TypeOK, Goes, Steps
  <1>5. ASSUME NEW p \in Processes, Pin(p) PROVE TypeOK'
    <2>1. holder[found[p].pid] \in Processes \cup {Stranger, Nobody}
      BY <1>0, <1>5 DEF Pin, Predecessor, TypeOK, Entries
    <2>2. QED
      BY <1>0, <1>5, <2>1 DEF Pin, Predecessor, TypeOK, Goes, Steps
  <1>6. ASSUME NEW p \in Processes, Send(p) PROVE TypeOK'
    <2>1. pinned[p] \in Processes
      BY <1>0, <1>6 DEF Send, TypeOK, Entries, Staged, Pinned, Remembered, Recalls
    <2>2. told' \subseteq Processes \X (Processes \cup {Stranger})
      BY <1>0, <1>6, <2>1 DEF Send, TypeOK
    <2>3. pc' \in [Processes -> Steps]
      BY <1>0, <1>6, <2>1 DEF Send, TypeOK, Goes, Steps
    <2>4. Gone(pinned[p]) \/ UNCHANGED <<holder, found, pinned>>
      BY <1>6 DEF Send
    <2>5. UNCHANGED <<pid, file, announced>>
      BY <1>6 DEF Send
    <2>6. QED
      BY <1>0, <2>1, <2>2, <2>3, <2>4, <2>5, ExitsTyped DEF TypeOK
  <1>7. ASSUME NEW p \in Processes,
               Check(p) \/ FailSignal(p) \/ Arm(p) \/ End(p)
        PROVE  TypeOK'
    BY <1>0, <1>7 DEF Check, FailSignal, Arm, End, TypeOK, Goes, Steps
  <1>8. ASSUME NEW p \in Processes, Restore(p) \/ Unlink(p) PROVE TypeOK'
    <2>1. file' \in Entries \cup {None}
      BY <1>0, <1>8 DEF Restore, Unlink, Restored, TypeOK
    <2>2. Gone(p) /\ pc' \in [Processes -> Steps]
      BY <1>0, <1>8 DEF Restore, Unlink, Exits, Goes, TypeOK, Steps
    <2>3. UNCHANGED <<pid, announced, told>>
      BY <1>8 DEF Restore, Unlink
    <2>4. QED
      BY <1>0, <2>1, <2>2, <2>3, ExitsTyped DEF TypeOK
  <1>9. CASE Elsewhere
    BY <1>0, <1>9 DEF Elsewhere, TypeOK
  <1>10. CASE UNCHANGED vars
    BY <1>0, <1>10 DEF vars, TypeOK
  <1>11. QED
    BY <1>1, <1>2, <1>3, <1>4, <1>5, <1>6, <1>7, <1>8, <1>9, <1>10
       DEF Next, HandsOver

-----------------------------------------------------------------------------
(* What is remembered, and where a process stands with it.                   *)

(* A process takes what the file says, keeps what it has, or forgets it.     *)
LEMMA FoundMoves ==
  ASSUME TypeOK, [Next]_vars, NEW p \in Processes
  PROVE  \/ found'[p] = None \/ found'[p] = found[p]
         \/ /\ Read(p) /\ found'[p] = file /\ file # None
            /\ file.pid # pid[p] /\ file.token # None
  <1>1. ASSUME NEW q \in Processes, Read(q)
        PROVE  \/ found'[p] = found[p]
               \/ /\ p = q /\ found'[p] = file /\ file # None
                  /\ file.pid # pid[p] /\ file.token # None
    BY <1>1 DEF Read, TypeOK
  <1>2. ASSUME NEW q \in Processes, Gone(q)
        PROVE  found'[p] \in {None, found[p]}
    BY <1>2 DEF Gone, TypeOK
  <1>3. ASSUME NEW q \in Processes, Verify(q)
        PROVE  found'[p] \in {None, found[p]}
    BY <1>2, <1>3 DEF Verify, Exits, TypeOK
  <1>4. ASSUME NEW q \in Processes, Send(q)
        PROVE  found'[p] \in {None, found[p]}
    BY <1>2, <1>4 DEF Send, Unarmed
  <1>5. ASSUME NEW q \in Processes,
               FailStart(q) \/ Restore(q) \/ ReadOwn(q) \/ Unlink(q) \/ Crash(q)
        PROVE  found'[p] \in {None, found[p]}
    BY <1>2, <1>5 DEF FailStart, Restore, ReadOwn, Unlink, Crash, Exits
  <1>6. QED
    BY <1>1, <1>3, <1>4, <1>5 DEF Next, vars, Start, Announce, HandsOver, Pin,
       Check, FailSignal, Arm, End, Elsewhere

LEMMA RememberedStep ==
  ASSUME IInv, [Next]_vars
  PROVE  Remembered'
  <1>0. TypeOK /\ Remembered /\ Named(file)
    BY NamedFile DEF IInv
  <1>1. SUFFICES ASSUME NEW p \in Processes PROVE Recalls(p)'
    BY DEF Remembered
  <1>2. CASE found'[p] = found[p] /\ found[p] # None
    <2>1. Named(found[p]) /\ found[p].token \notin {None, p}
      BY <1>0, <1>2 DEF Remembered, Recalls
    <2>2. ASSUME NEW r, Named(r)
          PROVE  r # None /\ r.token # None =>
                   r.token \in announced' /\ r = [pid |-> pid'[r.token], token |-> r.token]
      BY <2>2, NamesStay DEF Named, Own
    <2>3. QED
      BY <1>2, <2>1, <2>2 DEF Recalls, Named, Own
  <1>3. CASE /\ Read(p) /\ found'[p] = file /\ file # None
             /\ file.pid # pid[p] /\ file.token # None
    <2>1. file = [pid |-> pid[file.token], token |-> file.token] /\ file.token \in announced
      BY <1>0, <1>3 DEF Named, Own
    <2>2. file.token # p
      BY <1>3, <2>1
    <2>3. UNCHANGED <<announced, pid>>
      BY <1>3 DEF Read
    <2>4. QED
      BY <1>3, <2>1, <2>2, <2>3 DEF Recalls, Named, Own
  <1>4. CASE found'[p] = None
    BY <1>4 DEF Recalls
  <1>5. QED
    BY <1>0, <1>2, <1>3, <1>4, FoundMoves

LEMMA BornStep ==
  ASSUME IInv, [Next]_vars
  PROVE  Born'
  <1>0. TypeOK /\ Born /\ Staged /\ Pinned /\ Remembered
    BY DEF IInv
  <1>1. ASSUME NEW p \in Processes, Start(p) PROVE Born'
    BY <1>0, <1>1 DEF Start, Goes, Born, TypeOK
  <1>2. ASSUME NEW p \in Processes, Announce(p) PROVE Born'
    BY <1>0, <1>2 DEF Announce, Goes, Born, TypeOK
  <1>3. ASSUME UNCHANGED <<pid, announced>>,
               \A q \in Processes : pc'[q] # "unborn" <=> pc[q] # "unborn"
        PROVE  Born'
    BY <1>0, <1>3 DEF Born, TypeOK
  <1>4. ASSUME NEW p \in Processes, Send(p) PROVE Born'
    <2>1. pinned[p] \in announced
      BY <1>0, <1>4 DEF Send, Staged, Pinned, Remembered, Recalls, Named, TypeOK
    <2>2. \A q \in Processes : pc'[q] # "unborn" <=> pc[q] # "unborn"
      BY <1>0, <1>4, <2>1 DEF Send, Goes, Born, TypeOK
    <2>3. QED
      BY <1>3, <1>4, <2>2 DEF Send
  <1>5. ASSUME NEW p \in Processes,
               \/ Read(p) \/ Verify(p) \/ FailStart(p) \/ Pin(p) \/ Check(p)
               \/ FailSignal(p) \/ Arm(p) \/ End(p) \/ Restore(p) \/ ReadOwn(p)
               \/ Unlink(p) \/ Crash(p)
        PROVE  Born'
    <2>1. /\ pc[p] # "unborn" /\ \E s \in Steps \ {"unborn"} : Goes(p, s)
          /\ UNCHANGED <<pid, announced>>
      BY <1>5 DEF Read, Verify, FailStart, Pin, Check, FailSignal, Arm, End, Restore,
         ReadOwn, Unlink, Crash, Exits, Steps
    <2>2. \A q \in Processes : pc'[q] # "unborn" <=> pc[q] # "unborn"
      BY <1>0, <2>1 DEF Goes, TypeOK
    <2>3. QED
      BY <1>3, <2>1, <2>2
  <1>6. CASE Elsewhere \/ UNCHANGED vars
    BY <1>0, <1>3, <1>6 DEF Elsewhere, vars
  <1>7. QED
    BY <1>1, <1>2, <1>4, <1>5, <1>6 DEF Next, HandsOver

LEMMA StagedStep ==
  ASSUME IInv, [Next]_vars
  PROVE  Staged' /\ Pinned'
  <1>0. TypeOK /\ Born /\ Staged /\ Pinned /\ Remembered
    BY DEF IInv
  <1> USE DEF Staged, Pinned
  <1>1. ASSUME NEW p \in Processes, Gone(p), Goes(p, "gone"), UNCHANGED announced
        PROVE  Staged' /\ Pinned'
    BY <1>0, <1>1 DEF Gone, Goes, TypeOK
  <1>2. ASSUME NEW p \in Processes, Start(p) \/ Read(p) PROVE Staged' /\ Pinned'
    BY <1>0, <1>2 DEF Start, Read, Goes, TypeOK
  <1>3. ASSUME NEW p \in Processes, Verify(p) PROVE Staged' /\ Pinned'
    BY <1>0, <1>1, <1>3 DEF Verify, Exits, Goes, TypeOK
  <1>4. ASSUME NEW p \in Processes, Announce(p) PROVE Staged' /\ Pinned'
    BY <1>0, <1>4 DEF Announce, Goes, TypeOK
  <1>5. ASSUME NEW p \in Processes, Pin(p) PROVE Staged' /\ Pinned'
    BY <1>0, <1>5 DEF Pin, Goes, TypeOK
  <1>6. ASSUME NEW p \in Processes, Check(p) PROVE Staged' /\ Pinned'
    BY <1>0, <1>6 DEF Check, Matches, Goes, TypeOK
  <1>7. ASSUME NEW p \in Processes, FailSignal(p) \/ Arm(p) PROVE Staged' /\ Pinned'
    BY <1>0, <1>7 DEF FailSignal, Arm, Goes, TypeOK
  <1>8. ASSUME NEW p \in Processes, End(p) PROVE Staged' /\ Pinned'
    BY <1>0, <1>8 DEF End, Goes, TypeOK
  <1>9. ASSUME NEW p \in Processes, Send(p) PROVE Staged' /\ Pinned'
    <2>1. pinned[p] \in Processes /\ pinned[p] # p /\ p \in announced
      BY <1>0, <1>9 DEF Send, Remembered, Recalls, Named, TypeOK
    <2>2. CASE Goes(p, "arming") /\ UNCHANGED <<found, pinned>>
      BY <1>0, <1>9, <2>1, <2>2 DEF Send, Goes, TypeOK
    <2>3. CASE pc' = [pc EXCEPT ![pinned[p]] = "gone", ![p] = "arming"] /\ Gone(pinned[p])
      BY <1>0, <1>9, <2>1, <2>3 DEF Send, Gone, TypeOK
    <2>4. QED
      BY <1>9, <2>2, <2>3 DEF Send
  <1>10. ASSUME NEW p \in Processes,
                FailStart(p) \/ Restore(p) \/ Unlink(p) \/ Crash(p)
         PROVE  Staged' /\ Pinned'
    BY <1>1, <1>10 DEF FailStart, Restore, Unlink, Crash, Exits
  <1>11. ASSUME NEW p \in Processes, ReadOwn(p) PROVE Staged' /\ Pinned'
    BY <1>0, <1>1, <1>11 DEF ReadOwn, Exits, Goes, TypeOK
  <1>12. CASE Elsewhere \/ UNCHANGED vars
    BY <1>0, <1>12 DEF Elsewhere, vars
  <1>13. QED
    BY <1>2, <1>3, <1>4, <1>5, <1>6, <1>7, <1>8, <1>9, <1>10, <1>11, <1>12
       DEF Next, HandsOver

-----------------------------------------------------------------------------
(* The record, and the signals.                                              *)

LEMMA RecordsStep ==
  ASSUME IInv, [Next]_vars
  PROVE  RecordsServers'
  <1>0. TypeOK /\ Born /\ Remembered /\ Staged /\ Named(file)
    BY NamedFile DEF IInv
  <1>1. ASSUME NEW p \in Processes, Announce(p) PROVE RecordsServers'
    BY <1>1 DEF Announce, RecordsServers, Own
  <1>2. ASSUME NEW e, Named(e), file' = e PROVE RecordsServers'
    <2>1. e # None /\ e.token # None =>
            e.token \in announced' /\ e = [pid |-> pid'[e.token], token |-> e.token]
      BY <1>2, NamesStay DEF Named, Own
    <2>2. QED
      BY <1>2, <2>1 DEF RecordsServers, Own
  <1>3. ASSUME NEW p \in Processes, Restore(p) PROVE RecordsServers'
    <2>1. found[p] # None /\ Named(found[p])
      BY <1>0, <1>3 DEF Restore, Staged, Remembered, Recalls
    <2>2. QED
      BY <1>0, <1>2, <1>3, <2>1 DEF Restore, Restored
  <1>4. ASSUME NEW p \in Processes, Unlink(p) PROVE RecordsServers'
    <2>1. Named(None)
      BY DEF Named
    <2>2. QED
      BY <1>0, <1>2, <1>4, <2>1 DEF Unlink
  <1>5. CASE UNCHANGED file
    BY <1>0, <1>2, <1>5
  <1>6. QED
    BY <1>1, <1>3, <1>4, <1>5 DEF Next, vars, Start, Read, Verify, FailStart,
       HandsOver, Pin, Check, Send, FailSignal, Arm, End, ReadOwn, Crash, Elsewhere

LEMMA UnknownStep ==
  ASSUME IInv, [Next]_vars
  PROVE  Unknown'
  <1>0. TypeOK /\ Born /\ Unknown
    BY DEF IInv
  <1> USE DEF Unknown
  <1>1. ASSUME NEW p \in Processes, Announce(p) PROVE Unknown'
    BY <1>0, <1>1 DEF Announce, Goes, TypeOK
  <1>2. ASSUME NEW p \in Processes, Start(p) PROVE Unknown'
    BY <1>0, <1>2 DEF Start, Goes, TypeOK
  <1>3. ASSUME NEW p \in Processes, Send(p) PROVE Unknown'
    <2>1. UNCHANGED announced
      BY <1>3 DEF Send
    <2>2. \A q \in Processes : pc'[q] \in {pc[q], "gone", "arming"}
      BY <1>0, <1>3 DEF Send, Goes, TypeOK
    <2>3. QED
      BY <1>0, <2>1, <2>2
  <1>4. ASSUME NEW p \in Processes,
               \/ Read(p) \/ Verify(p) \/ FailStart(p) \/ Pin(p) \/ Check(p)
               \/ FailSignal(p) \/ Arm(p) \/ End(p) \/ Restore(p) \/ ReadOwn(p)
               \/ Unlink(p) \/ Crash(p)
        PROVE  Unknown'
    <2>1. /\ \E s \in Steps \ {"unborn", "reading"} : Goes(p, s)
          /\ UNCHANGED announced
      BY <1>4 DEF Read, Verify, FailStart, Pin, Check, FailSignal, Arm, End, Restore,
         ReadOwn, Unlink, Crash, Exits, Steps
    <2>2. QED
      BY <1>0, <2>1 DEF Goes, TypeOK
  <1>5. CASE Elsewhere \/ UNCHANGED vars
    BY <1>0, <1>5 DEF Elsewhere, vars
  <1>6. QED
    BY <1>1, <1>2, <1>3, <1>4, <1>5 DEF Next, HandsOver

LEMMA ToldStep ==
  ASSUME IInv, [Next]_vars
  PROVE  ToldServers'
  <1>0. TypeOK /\ Remembered /\ Staged /\ Pinned /\ ToldServers
    BY DEF IInv
  <1>1. ASSUME NEW p \in Processes, Send(p) PROVE ToldServers'
    <2>1. p \in announced /\ pinned[p] \in announced
      BY <1>0, <1>1 DEF Send, Staged, Pinned, Remembered, Recalls, Named, TypeOK
    <2>2. QED
      BY <1>0, <1>1, <2>1 DEF Send, ToldServers
  <1>2. ASSUME UNCHANGED told, announced \subseteq announced' PROVE ToldServers'
    BY <1>0, <1>2 DEF ToldServers
  <1>3. QED
    BY <1>1, <1>2 DEF Next, vars, Start, Read, Verify, FailStart, Announce,
       HandsOver, Pin, Check, FailSignal, Arm, End, Restore, ReadOwn, Unlink,
       Crash, Elsewhere

(* Only a look-up lets a process see another; a signal goes to one that its  *)
(* sender saw already.                                                       *)
LEMMA SightStep ==
  ASSUME IInv, [Next]_vars, NEW p \in Processes, NEW q, Sees(p, q)', ~Sees(p, q)
  PROVE  Read(p) /\ q \in announced
  <1>0. TypeOK /\ Staged /\ Pinned /\ Named(file)
    BY NamedFile DEF IInv
  <1>1. <<p, q>> \notin told'
    <2>0. <<p, q>> \notin told
      BY DEF Sees
    <2>1. ASSUME NEW r \in Processes, Send(r), <<p, q>> \in told' PROVE FALSE
      <3>1. p = r /\ q = pinned[r] /\ pc[r] = "sending"
        BY <2>0, <2>1 DEF Send
      <3>2. found[p] # None /\ found[p].token = q
        BY <1>0, <3>1 DEF Staged, Pinned
      <3>3. QED
        BY <3>2 DEF Sees
    <2>2. UNCHANGED told \/ \E r \in Processes : Send(r)
      BY DEF Next, vars, Start, Read, Verify, FailStart, Announce, HandsOver, Pin,
         Check, FailSignal, Arm, End, Restore, ReadOwn, Unlink, Crash, Elsewhere
    <2>3. QED
      BY <2>0, <2>1, <2>2
  <1>2. found'[p] # None /\ found'[p].token = q
    BY <1>1 DEF Sees
  <1>3. Read(p) /\ found'[p] = file /\ file # None /\ file.token # None
    BY <1>0, <1>2, FoundMoves DEF Sees
  <1>4. QED
    BY <1>0, <1>2, <1>3 DEF Named

(* A process that looks its predecessor up is seen by nobody: without it the *)
(* others already have one that sees none of them.                           *)
LEMMA RinglessStep ==
  ASSUME IInv, [Next]_vars
  PROVE  Ringless'
  <1>0. TypeOK /\ Remembered /\ Unknown /\ ToldServers /\ Ringless
    BY DEF IInv
  <1>1. ASSUME NEW p \in Processes, NEW q, Sees(p, q) PROVE q \in announced
    BY <1>0, <1>1 DEF Sees, ToldServers, Remembered, Recalls, Named
  <1>2. SUFFICES ASSUME NEW ring \in (SUBSET Processes) \ {{}}
                 PROVE  \E p \in ring : \A q \in ring : ~Sees(p, q)'
    BY DEF Ringless
  <1>3. CASE \E p \in ring : Read(p)
    <2>1. PICK n \in ring : Read(n)
      BY <1>3
    <2>2. n \in Processes /\ n \notin announced
      BY <1>0, <2>1 DEF Read, Unknown
    <2>3. ASSUME NEW p \in Processes PROVE ~Sees(p, n)'
      BY <1>1, <2>2, SightStep
    <2>4. CASE ring = {n}
      BY <2>2, <2>3, <2>4
    <2>5. CASE ring # {n}
      <3>1. ring \ {n} \in (SUBSET Processes) \ {{}}
        BY <2>5
      <3>2. PICK p \in ring \ {n} : \A q \in ring \ {n} : ~Sees(p, q)
        BY <1>0, <3>1 DEF Ringless
      <3>3. ~Read(p)
        BY <1>0, <2>1, <2>2, <3>2 DEF Read, Goes, TypeOK, Steps
      <3>4. \A q \in ring : ~Sees(p, q)'
        BY <2>3, <3>2, <3>3, SightStep
      <3>5. QED
        BY <3>4
    <2>6. QED
      BY <2>4, <2>5
  <1>4. CASE \A p \in ring : ~Read(p)
    <2>1. PICK p \in ring : \A q \in ring : ~Sees(p, q)
      BY <1>0 DEF Ringless
    <2>2. QED
      BY <1>4, <2>1, SightStep
  <1>5. QED
    BY <1>3, <1>4

-----------------------------------------------------------------------------
(* The invariant that the three below follow from: who is recorded, who      *)
(* remembers whom, and who is pinned, at every step of a hand-over.          *)
THEOREM PidfileInvariant == Spec => []IInv
  <1>1. IInv /\ [Next]_vars => IInv'
    <2> SUFFICES ASSUME IInv, [Next]_vars PROVE IInv'
      OBVIOUS
    <2>1. TypeOK' /\ Born' /\ Remembered' /\ Staged' /\ Pinned'
      BY TypeStep, BornStep, RememberedStep, StagedStep
    <2>2. RecordsServers' /\ Unknown' /\ ToldServers' /\ Ringless'
      BY RecordsStep, UnknownStep, ToldStep, RinglessStep
    <2>3. QED
      BY <2>1, <2>2 DEF IInv
  <1>2. QED
    BY <1>1, InitInv, PTL DEF Spec

(* Every variable stays in its range.                                        *)
THEOREM TypeCorrect == Spec => []TypeOK
  <1>1. IInv => TypeOK
    BY DEF IInv
  <1>2. QED
    BY <1>1, PidfileInvariant, PTL

(* SIGUSR2 goes from one process that serves the port to another that has    *)
(* served it before, whatever becomes of the numbers meanwhile, and never    *)
(* round in a ring.                                                          *)
THEOREM SignalsNeverStray == Spec => []SignalsHandOver
  <1>1. IInv => SignalsHandOver
    BY DEF IInv, ToldServers, Ringless, Sees, SignalsHandOver
  <1>2. QED
    BY <1>1, PidfileInvariant, PTL

(* The record never certifies a stranger, or a process that has not served.  *)
THEOREM RecordsNameServers == Spec => []RecordsServers
  <1>1. IInv => RecordsServers
    BY DEF IInv
  <1>2. QED
    BY <1>1, PidfileInvariant, PTL

=============================================================================
