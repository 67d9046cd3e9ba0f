------------------------- MODULE LearningStoreProofs -------------------------
(***************************************************************************)
(* The safety of LearningStore for any number of calls, commits and        *)
(* cancellations.                                                          *)
(*                                                                         *)
(* Everything rests on Locked, which says at which phase a call is at the  *)
(* head of which queue, and on Staged, which says in which states of the   *)
(* store it can be there. What is fresh about the cache is in Versioned:   *)
(* as long as the version last compared with is the file's, the cache is   *)
(* behind the file by no more than the start has missed.                   *)
(***************************************************************************)
EXTENDS LearningStore, QueueLemmas, TLAPS

Reading == {"version", "read", "publish"}

(* Who holds which lock. *)
Locked ==
  /\ \A w \in Writes : write[w] \in InTransaction => Holds(writer, w)
  /\ \A w \in Writes : write[w] = "writer" => Holds(lifecycle, w)
  /\ \A r \in Reads : read[r] \in Reading => Holds(reader, r)
  /\ \A r \in Reads : read[r] = "reader" => Holds(lifecycle, r)
  /\ start \in {"open", "read"} => Holds(lifecycle, Starter)
  /\ owner \in {"reader", "writer", "connections"} => Holds(lifecycle, Owner)
  /\ owner \in {"writer", "connections"} => Holds(reader, Owner)
  /\ owner = "connections" => Holds(writer, Owner)

(* The states in which a call can have got that far. *)
Staged ==
  /\ \A w \in Writes : write[w] = "writer" => state = "running"
  /\ \A r \in Reads : read[r] = "reader" => state = "running"
  /\ \A w \in Writes : write[w] \in InTransaction => state \in {"running", "closing"}
  /\ \A r \in Reads : read[r] \in Reading => state \in {"running", "closing"}
  /\ state = "starting" <=> start \in {"open", "read"}
  /\ owner \in {"reader", "writer", "connections"} => state = "closing"
  /\ state \in {"starting", "running"} => readerOpen /\ writerOpen
  /\ state = "closing" => owner \in {"reader", "writer", "connections"}
  /\ completion = "none" <=> owner = "none"

(* What a transaction has come to, and what its caller is told of it. *)
Settled ==
  \A w \in Writes :
    /\ write[w] \notin {"rollback", "done"} => told[w] = "none"
    /\ write[w] = "rollback" => told[w] \in {"failed", "cancelled", "atCommit"}
    /\ w \in durable => write[w] \in {"committed", "done"}
    /\ w \in Observed /\ write[w] \in {"commit", "committed"} => effect[w] # "nothing"
    /\ w \in Observed /\ write[w] = "committed" => w \in durable

(* The versions and revisions the readers carry, against the file's. *)
Versioned ==
  /\ readerVersion <= version
  /\ \A r \in Reads :
       /\ asked[r] <= revision
       /\ read[r] \in {"read", "publish"} => found[r] <= version
       /\ read[r] = "publish" =>
            /\ held[r] <= revision
            /\ asked[r] <= held[r]
            /\ found[r] = version => held[r] = revision
  /\ start = "read" => startHeld <= revision /\ revision <= startHeld + missed
  /\ (state = "running" \/ \E r \in Reads : read[r] \in Reading)
     /\ readerVersion = version => revision <= cache + missed

(* What a transaction has read last is not ahead of the file it commits. *)
Carried ==
  \A w \in Writes :
    /\ write[w] = "commit" => final[w] <= After(effect[w])
    /\ write[w] = "committed" => final[w] <= revision

(* Only a snapshot that is over has been answered. *)
Answering == \A r \in Reads : answer[r].fresh => read[r] = "done"

-----------------------------------------------------------------------------
(* Lemmas on the locks' queues.                                              *)

(* Joining a queue takes its place from nobody. *)
LEMMA JoinFacts ==
  ASSUME NEW S, NEW q \in Seq(S), NEW e \in S
  PROVE  /\ Append(q, e) \in Seq(S)
         /\ \A p : Holds(q, p) => Holds(Append(q, e), p)
  BY DEF Holds

(* A queue that somebody holds can be left. *)
LEMMA LeaveFacts ==
  ASSUME NEW S, NEW q \in Seq(S), NEW p, Holds(q, p)
  PROVE  Tail(q) \in Seq(S)
  BY DEF Holds

LEMMA LockersDistinct ==
  /\ \A w \in Writes : w \in Lockers /\ w \notin Reads /\ w # Starter /\ w # Owner
  /\ \A r \in Reads : r \in Lockers /\ r # Starter /\ r # Owner
  /\ Starter \in Lockers /\ Owner \in Lockers /\ Starter # Owner
  BY StoreAssumption DEF Lockers, Disjoint

(* The same of the three queues of a store. *)
LEMMA QueueFacts ==
  ASSUME TypeOK
  PROVE  /\ \A o, p \in Lockers :
              /\ Holds(lifecycle, o) => Holds(Append(lifecycle, p), o)
              /\ Holds(reader, o) => Holds(Append(reader, p), o)
              /\ Holds(writer, o) => Holds(Append(writer, p), o)
         /\ \A o, p \in Lockers :
              /\ Holds(lifecycle, o) /\ Holds(lifecycle, p) => o = p
              /\ Holds(reader, o) /\ Holds(reader, p) => o = p
              /\ Holds(writer, o) /\ Holds(writer, p) => o = p
  <1>1. /\ lifecycle \in Seq(Lockers) /\ reader \in Seq(Lockers)
        /\ writer \in Seq(Lockers)
    BY DEF TypeOK
  <1>2. \A o, p \in Lockers :
          /\ Holds(lifecycle, o) => Holds(Append(lifecycle, p), o)
          /\ Holds(reader, o) => Holds(Append(reader, p), o)
          /\ Holds(writer, o) => Holds(Append(writer, p), o)
    BY <1>1, JoinFacts
  <1>3. \A o, p \in Lockers :
          /\ Holds(lifecycle, o) /\ Holds(lifecycle, p) => o = p
          /\ Holds(reader, o) /\ Holds(reader, p) => o = p
          /\ Holds(writer, o) /\ Holds(writer, p) => o = p
    BY DEF Holds
  <1>4. QED
    BY <1>2, <1>3, Zenon

-----------------------------------------------------------------------------
(* The invariants, part by part. Of the types, the functions that say how    *)
(* far each call has got are what every part needs.                          *)

LEMMA Phased ==
  ASSUME TypeOK
  PROVE  /\ write \in [Writes -> WritePhases] /\ read \in [Reads -> ReadPhases]
         /\ told \in [Writes -> Verdicts]
  BY DEF TypeOK

LEMMA LockedStep ==
  ASSUME TypeOK, Locked, Next
  PROVE  Locked'
  <1> USE QueueFacts, LockersDistinct, Phased DEF InTransaction, Reading, Locked
  <1>1. ASSUME NEW w \in Writes, CallWrite(w) PROVE Locked'
    BY <1>1 DEF CallWrite, connections, caching, file, reads, ends
  <1>2. ASSUME NEW w \in Writes, AskWriter(w) PROVE Locked'
    <2>1. CASE LeaveEarly(w, "cancelled") \/ LeaveEarly(w, "refused")
      BY <1>2, <2>1 DEF AskWriter, LeaveEarly, connections, caching, file, reads, ends
    <2>2. CASE /\ write' = [write EXCEPT ![w] = "writer"]
               /\ writer' = Append(writer, w) /\ UNCHANGED lifecycle
      BY <1>2, <2>2 DEF AskWriter, connections, caching, file, reads, ends
    <2>3. QED
      BY <1>2, <2>1, <2>2 DEF AskWriter
  <1>3. ASSUME NEW w \in Writes, TakeWriter(w) PROVE Locked'
    BY <1>3 DEF TakeWriter, LeaveEarly, GivenUp, connections, caching, file, reads, ends
  <1>4. ASSUME NEW w \in Writes, Begin(w) \/ Work(w) \/ Commit(w) \/ FailCommit(w)
        PROVE  Locked'
    BY <1>4 DEF Begin, Work, Commit, FailCommit, Undo, locks, connections, caching,
       file, reads, ends
  <1>5. ASSUME NEW w \in Writes, FindBusy(w) \/ GiveUp(w) \/ WakeUp(w)
        PROVE  Locked'
    BY <1>5 DEF FindBusy, GiveUp, WakeUp, Leave, connections, caching, file, reads, ends
  <1>6. ASSUME NEW w \in Writes, Rollback(w) \/ CommitReturns(w) PROVE Locked'
    BY <1>6 DEF Rollback, CommitReturns, Leave, connections, caching, file, reads, ends
  <1>7. ASSUME NEW r \in Reads, CallRead(r) PROVE Locked'
    BY <1>7 DEF CallRead, connections, caching, file, writes, ends
  <1>8. ASSUME NEW r \in Reads, AskReader(r) PROVE Locked'
    <2>1. UNCHANGED <<writer, write, start, owner>>
      BY <1>8 DEF AskReader, writes, ends
    <2>2. CASE read' = [read EXCEPT ![r] = "done"] /\ lifecycle' = Tail(lifecycle)
               /\ UNCHANGED reader
      BY <1>8, <2>1, <2>2 DEF AskReader
    <2>3. CASE read' = [read EXCEPT ![r] = "reader"] /\ reader' = Append(reader, r)
               /\ UNCHANGED lifecycle
      BY <1>8, <2>1, <2>3 DEF AskReader
    <2>4. QED
      BY <1>8, <2>2, <2>3 DEF AskReader
  <1>9. ASSUME NEW r \in Reads, TakeReader(r) PROVE Locked'
    BY <1>9 DEF TakeReader, Finish, connections, file, writes, ends
  <1>10. ASSUME NEW r \in Reads,
                FailRead(r) \/ SeeUnchanged(r) \/ Publish(r)
         PROVE  Locked'
    BY <1>10 DEF FailRead, SeeUnchanged, Publish, Finish, connections, file, writes, ends
  <1>11. ASSUME NEW r \in Reads, SeeChanged(r) \/ ReadState(r) PROVE Locked'
    BY <1>11 DEF SeeChanged, ReadState, locks, connections, file, writes, ends
  <1>12. CASE CallStart \/ StartRefused
    BY <1>12 DEF CallStart, StartRefused, connections, file, writes, reads
  <1>13. CASE StartOpens \/ StartReads
    BY <1>13 DEF StartOpens, StartReads, locks, file, writes, reads
  <1>14. CASE StartEnds \/ StartFails
    BY <1>14 DEF StartEnds, StartFails, file, writes, reads
  <1>15. ASSUME NEW c \in Closers, CallClose(c) PROVE Locked'
    BY <1>15 DEF CallClose, locks, writes, reads
  <1>16. ASSUME NEW c \in Closers, CloseReturns(c) PROVE Locked'
    BY <1>16 DEF CloseReturns, locks, writes, reads
  <1>17. CASE OwnerAsks \/ OwnerClosing
    BY <1>17 DEF OwnerAsks, OwnerClosing, writes, reads
  <1>18. CASE OwnerHasReader \/ OwnerClosesReader
    BY <1>18 DEF OwnerHasReader, OwnerClosesReader, WriterReached, locks, writes, reads
  <1>19. CASE OwnerEnds
    BY <1>19 DEF OwnerEnds, writes, reads
  <1>20. CASE CancelCall \/ ForeignBegin \/ ForeignEnd
    BY <1>20 DEF CancelCall, ForeignBegin, ForeignEnd, locks, writes, reads, ends
  <1>21. QED
    BY <1>1, <1>2, <1>3, <1>4, <1>5, <1>6, <1>7, <1>8, <1>9, <1>10, <1>11, <1>12,
       <1>13, <1>14, <1>15, <1>16, <1>17, <1>18, <1>19, <1>20
       DEF Next, WriteStep, ReadStep, StartStep, OwnerStep

LEMMA StagedStep ==
  ASSUME TypeOK, Locked, Staged, Next
  PROVE  Staged'
  <1> USE QueueFacts, LockersDistinct, Phased DEF InTransaction, Reading, Locked, Staged
  <1>1. ASSUME NEW w \in Writes,
               CallWrite(w) \/ AskWriter(w) \/ TakeWriter(w)
        PROVE  Staged'
    BY <1>1 DEF CallWrite, AskWriter, TakeWriter, LeaveEarly, Open, connections, caching,
       file, reads, ends
  <1>2. ASSUME NEW w \in Writes, Begin(w) \/ Work(w) \/ Commit(w) \/ FailCommit(w)
        PROVE  Staged'
    BY <1>2 DEF Begin, Work, Commit, FailCommit, Undo, locks, connections, caching,
       file, reads, ends
  <1>3. ASSUME NEW w \in Writes,
               FindBusy(w) \/ GiveUp(w) \/ WakeUp(w) \/ Rollback(w) \/ CommitReturns(w)
        PROVE  Staged'
    BY <1>3 DEF FindBusy, GiveUp, WakeUp, Rollback, CommitReturns, Leave, connections,
       caching, file, reads, ends
  <1>4. ASSUME NEW r \in Reads, CallRead(r) \/ AskReader(r) \/ TakeReader(r)
        PROVE  Staged'
    BY <1>4 DEF CallRead, AskReader, TakeReader, Finish, Open, connections, caching,
       file, writes, ends
  <1>5. ASSUME NEW r \in Reads,
               FailRead(r) \/ SeeUnchanged(r) \/ SeeChanged(r) \/ ReadState(r) \/ Publish(r)
        PROVE  Staged'
    BY <1>5 DEF FailRead, SeeUnchanged, SeeChanged, ReadState, Publish, Finish,
       connections, caching, file, writes, ends
  <1>6. CASE CallStart \/ StartStep
    BY <1>6 DEF CallStart, StartStep, StartRefused, StartOpens, StartReads, StartEnds,
       StartFails, connections, file, writes, reads
  <1>7. ASSUME NEW c \in Closers, CallClose(c) \/ CloseReturns(c) PROVE Staged'
    BY <1>7 DEF CallClose, CloseReturns, connections, writes, reads
  <1>8. CASE OwnerAsks \/ OwnerClosing \/ OwnerHasReader
    BY <1>8 DEF OwnerAsks, OwnerClosing, OwnerHasReader, connections, writes, reads
  <1>9. CASE OwnerClosesReader \/ OwnerEnds
    BY <1>9 DEF OwnerClosesReader, OwnerEnds, writes, reads
  <1>10. CASE CancelCall \/ ForeignBegin \/ ForeignEnd
    BY <1>10 DEF CancelCall, ForeignBegin, ForeignEnd, connections, writes, reads, ends
  <1>11. QED
    BY <1>1, <1>2, <1>3, <1>4, <1>5, <1>6, <1>7, <1>8, <1>9, <1>10
       DEF Next, WriteStep, ReadStep, OwnerStep

LEMMA SettledStep ==
  ASSUME TypeOK, Settled, Next
  PROVE  Settled'
  <1> USE Phased DEF Settled
  <1>0. Observed \subseteq Writes /\ \A w \in Observed : "nothing" \notin Effects(w)
    BY StoreAssumption DEF Observed, Writes, Effects, Disjoint
  <1>t. effect \in [Writes -> {"adds", "repeats", "nothing"}]
    BY DEF TypeOK
  <1>1. ASSUME NEW w \in Writes,
               CallWrite(w) \/ AskWriter(w) \/ TakeWriter(w) \/ Begin(w)
        PROVE  Settled'
    BY <1>1 DEF CallWrite, AskWriter, TakeWriter, LeaveEarly, Begin, Undo
  <1>2. ASSUME NEW w \in Writes, Work(w) PROVE Settled'
    BY <1>0, <1>t, <1>2 DEF Work, Undo
  <1>3. ASSUME NEW w \in Writes, Commit(w) \/ FailCommit(w) PROVE Settled'
    BY <1>0, <1>t, <1>3 DEF Commit, FailCommit, Undo, writes
  <1>4. ASSUME NEW w \in Writes,
               FindBusy(w) \/ GiveUp(w) \/ WakeUp(w) \/ Rollback(w) \/ CommitReturns(w)
        PROVE  Settled'
    <2>1. /\ UNCHANGED durable
          /\ \A v \in Writes \ {w} : effect'[v] = effect[v]
      BY <1>t, <1>4 DEF FindBusy, GiveUp, WakeUp, Rollback, CommitReturns, Forget
    <2>2. \/ write' = [write EXCEPT ![w] = "asleep"] /\ UNCHANGED told
          \/ write' = [write EXCEPT ![w] = "begin"] /\ UNCHANGED told
          \/ /\ write' = [write EXCEPT ![w] = "done"]
             /\ \A v \in Writes \ {w} : told'[v] = told[v]
      BY <1>4 DEF FindBusy, GiveUp, WakeUp, Rollback, CommitReturns, Leave
    <2>3. write[w] \in {"begin", "asleep", "rollback", "committed"}
      BY <1>4 DEF FindBusy, GiveUp, WakeUp, Rollback, CommitReturns
    <2>4. write'[w] \notin {"rollback", "commit", "committed"}
          /\ \A v \in Writes \ {w} : write'[v] = write[v] /\ told'[v] = told[v]
      BY <2>2
    <2>5. w \in durable => write[w] = "committed" /\ write'[w] = "done"
      BY <1>4, <2>3 DEF Rollback, CommitReturns, Leave, FindBusy, GiveUp, WakeUp
    <2>6. write'[w] # "done" => told'[w] = "none"
      BY <1>4 DEF Rollback, CommitReturns, Leave, FindBusy, GiveUp, WakeUp
    <2>7. QED
      BY <2>1, <2>4, <2>5, <2>6
  <1>5. ASSUME UNCHANGED writes PROVE Settled'
    BY <1>5 DEF writes
  <1>6. QED
    BY <1>1, <1>2, <1>3, <1>4, <1>5
       DEF Next, WriteStep, ReadStep, StartStep, OwnerStep, CallRead, AskReader,
       TakeReader, FailRead, SeeUnchanged, SeeChanged, ReadState, Publish, CallStart,
       StartRefused, StartOpens, StartReads, StartEnds, StartFails, CallClose,
       CloseReturns, OwnerAsks, OwnerClosing, OwnerHasReader, OwnerClosesReader,
       OwnerEnds, CancelCall, ForeignBegin, ForeignEnd

(* The types, by what an action changes together. *)
LocksTyped ==
  /\ lifecycle \in Seq(Lockers) /\ reader \in Seq(Lockers) /\ writer \in Seq(Lockers)
FileTyped ==
  /\ revision \in Nat /\ version \in Nat
  /\ owns \in {"nobody", "us", "them"} /\ foreign \in 0 .. MaxForeign
  /\ missed \in Nat
CachingTyped == cache \in Nat /\ readerVersion \in Nat /\ refreshing \in BOOLEAN
WritesTyped ==
  /\ write \in [Writes -> WritePhases]
  /\ effect \in [Writes -> {"adds", "repeats", "nothing"}]
  /\ final \in [Writes -> Nat]
  /\ told \in [Writes -> Verdicts] /\ durable \subseteq Writes
  /\ \A w \in Writes : write[w] \in {"rollback", "done"} => told[w] # "none"
ReadsTyped ==
  /\ read \in [Reads -> ReadPhases]
  /\ found \in [Reads -> Nat] /\ held \in [Reads -> Nat] /\ asked \in [Reads -> Nat]
AnswersTyped == answer \in [Reads -> [fresh : BOOLEAN, revision : Nat]]
EndsTyped ==
  /\ state \in States /\ completion \in {"none", "pending", "closed", "failed"}
  /\ start \in {"uncalled", "lifecycle", "open", "read", "done"} /\ startHeld \in Nat
  /\ owner \in {"none", "called", "lifecycle", "reader", "writer", "connections", "done"}
  /\ close \in [Closers -> {"idle", "waiting", "closed", "failed", "cancelled"}]
  /\ readerOpen \in BOOLEAN /\ writerOpen \in BOOLEAN

LEMMA TypeParts ==
  TypeOK <=> /\ LocksTyped /\ FileTyped /\ CachingTyped /\ WritesTyped
             /\ ReadsTyped /\ AnswersTyped /\ EndsTyped
             /\ cancelled \subseteq Writes \cup Reads \cup Closers
  BY DEF TypeOK, LocksTyped, FileTyped, CachingTyped, WritesTyped, ReadsTyped,
     AnswersTyped, EndsTyped

(* The queues stay queues of lockers, whoever joins or leaves them. *)
LEMMA QueuesTyped ==
  ASSUME LocksTyped, NEW p
  PROVE  /\ p \in Lockers => /\ Append(lifecycle, p) \in Seq(Lockers)
                             /\ Append(reader, p) \in Seq(Lockers)
                             /\ Append(writer, p) \in Seq(Lockers)
         /\ Holds(lifecycle, p) => Tail(lifecycle) \in Seq(Lockers)
         /\ Holds(reader, p) => Tail(reader) \in Seq(Lockers)
         /\ Holds(writer, p) => Tail(writer) \in Seq(Lockers)
  BY JoinFacts, LeaveFacts DEF LocksTyped

LEMMA LocksTypedStep ==
  ASSUME TypeOK, Locked, Next
  PROVE  LocksTyped'
  <1>t. LocksTyped
    BY TypeParts, Zenon
  <1>q. \A p : /\ p \in Lockers => /\ Append(lifecycle, p) \in Seq(Lockers)
                                   /\ Append(reader, p) \in Seq(Lockers)
                                   /\ Append(writer, p) \in Seq(Lockers)
               /\ Holds(lifecycle, p) => Tail(lifecycle) \in Seq(Lockers)
               /\ Holds(reader, p) => Tail(reader) \in Seq(Lockers)
               /\ Holds(writer, p) => Tail(writer) \in Seq(Lockers)
    BY <1>t, QueuesTyped
  <1> USE LockersDistinct DEF LocksTyped, Locked, InTransaction, Reading
  <1>1. ASSUME UNCHANGED locks PROVE LocksTyped'
    BY <1>t, <1>1 DEF locks
  <1>2. ASSUME NEW w \in Writes, CallWrite(w) \/ AskWriter(w) \/ TakeWriter(w)
        PROVE  LocksTyped'
    BY <1>t, <1>q, <1>2 DEF CallWrite, AskWriter, TakeWriter, LeaveEarly, GivenUp
  <1>3. ASSUME NEW w \in Writes, FindBusy(w) \/ GiveUp(w) \/ WakeUp(w)
        PROVE  LocksTyped'
    BY <1>t, <1>q, <1>3 DEF FindBusy, GiveUp, WakeUp, Leave
  <1>4. ASSUME NEW w \in Writes, Rollback(w) \/ CommitReturns(w) PROVE LocksTyped'
    BY <1>t, <1>q, <1>4 DEF Rollback, CommitReturns, Leave
  <1>5. ASSUME NEW r \in Reads, CallRead(r) \/ AskReader(r) \/ TakeReader(r)
        PROVE  LocksTyped'
    <2>1. ASSUME CallRead(r) PROVE LocksTyped'
      BY <1>t, <1>q, <2>1 DEF CallRead, Finish
    <2>2. ASSUME AskReader(r) PROVE LocksTyped'
      BY <1>t, <1>q, <2>2 DEF AskReader
    <2>3. ASSUME TakeReader(r) PROVE LocksTyped'
      BY <1>t, <1>q, <2>3 DEF TakeReader, Finish
    <2>4. QED
      BY <1>5, <2>1, <2>2, <2>3
  <1>6. ASSUME NEW r \in Reads, FailRead(r) \/ SeeUnchanged(r) \/ Publish(r)
        PROVE  LocksTyped'
    BY <1>t, <1>q, <1>6 DEF FailRead, SeeUnchanged, Publish, Finish
  <1>7. CASE CallStart \/ StartRefused \/ StartEnds \/ StartFails
    BY <1>t, <1>q, <1>7 DEF CallStart, StartRefused, StartEnds, StartFails
  <1>8. CASE OwnerAsks \/ OwnerClosing \/ OwnerHasReader \/ OwnerEnds
    BY <1>t, <1>q, <1>8 DEF OwnerAsks, OwnerClosing, OwnerHasReader, OwnerEnds
  <1>9. QED
    BY <1>1, <1>2, <1>3, <1>4, <1>5, <1>6, <1>7, <1>8
       DEF Next, WriteStep, ReadStep, StartStep, OwnerStep, Begin, Work, Commit,
       FailCommit, SeeChanged, ReadState, StartOpens, StartReads, CallClose,
       CloseReturns, OwnerClosesReader, CancelCall, ForeignBegin, ForeignEnd

LEMMA FileTypedStep ==
  ASSUME FileTyped, Next
  PROVE  FileTyped'
  <1> USE DEF FileTyped
  <1>1. ASSUME UNCHANGED file PROVE FileTyped'
    BY <1>1 DEF file
  <1>2. ASSUME NEW w \in Writes, Begin(w) \/ Commit(w) \/ Rollback(w)
        PROVE  FileTyped'
    BY <1>2 DEF Begin, Commit, Rollback, After
  <1>3. CASE ForeignBegin \/ ForeignEnd
    BY <1>3, StoreAssumption DEF ForeignBegin, ForeignEnd
  <1>4. QED
    BY <1>1, <1>2, <1>3
       DEF Next, WriteStep, ReadStep, StartStep, OwnerStep, CallWrite, AskWriter,
       TakeWriter, FindBusy, GiveUp, WakeUp, Work, FailCommit, CommitReturns,
       CallRead, AskReader, TakeReader, FailRead, SeeUnchanged, SeeChanged, ReadState,
       Publish, CallStart, StartRefused, StartOpens, StartReads, StartEnds, StartFails,
       CallClose, CloseReturns, OwnerAsks, OwnerClosing, OwnerHasReader,
       OwnerClosesReader, OwnerEnds, CancelCall

(* What the cache may become, whoever publishes. *)
LEMMA PublishedFacts ==
  ASSUME cache \in Nat, NEW seen \in Nat
  PROVE  Published(seen) \in Nat /\ Published(seen) >= cache /\ Published(seen) >= seen
  BY DEF Published

LEMMA CachingTypedStep ==
  ASSUME CachingTyped, FileTyped, WritesTyped, ReadsTyped, EndsTyped, Next
  PROVE  CachingTyped'
  <1> USE PublishedFacts DEF CachingTyped, FileTyped, WritesTyped, ReadsTyped, EndsTyped
  <1>1. ASSUME UNCHANGED caching PROVE CachingTyped'
    BY <1>1 DEF caching
  <1>2. ASSUME NEW w \in Writes, CommitReturns(w) PROVE CachingTyped'
    BY <1>2 DEF CommitReturns, AfterCommit
  <1>3. ASSUME NEW r \in Reads,
               AskReader(r) \/ TakeReader(r) \/ FailRead(r) \/ SeeUnchanged(r)
        PROVE  CachingTyped'
    BY <1>3 DEF AskReader, TakeReader, FailRead, SeeUnchanged, Finish
  <1>4. ASSUME NEW r \in Reads, Publish(r) PROVE CachingTyped'
    <2>1. held[r] \in Nat /\ found[r] \in Nat
      OBVIOUS
    <2>2. cache' \in {cache, Published(held[r])} /\ readerVersion' \in {readerVersion, found[r]}
          /\ refreshing' = FALSE
      BY <1>4 DEF Publish, Finish, VersionBefore
    <2>3. QED
      BY <2>1, <2>2
  <1>5. CASE StartEnds
    BY <1>5 DEF StartEnds
  <1>6. CASE OwnerEnds
    BY <1>6 DEF OwnerEnds
  <1>7. QED
    BY <1>1, <1>2, <1>3, <1>4, <1>5, <1>6
       DEF Next, WriteStep, ReadStep, StartStep, OwnerStep, CallWrite, AskWriter,
       TakeWriter, Begin, FindBusy, GiveUp, WakeUp, Work, Commit, FailCommit, Rollback,
       CallRead, SeeChanged, ReadState, CallStart, StartRefused, StartOpens,
       StartReads, StartFails, CallClose, CloseReturns, OwnerAsks, OwnerClosing,
       OwnerHasReader, OwnerClosesReader, CancelCall, ForeignBegin, ForeignEnd

LEMMA WritesTypedStep ==
  ASSUME WritesTyped, FileTyped, Next
  PROVE  WritesTyped'
  <1> USE DEF WritesTyped, WritePhases, Verdicts
  <1>1. ASSUME UNCHANGED writes PROVE WritesTyped'
    BY <1>1 DEF writes
  <1>2. ASSUME NEW w \in Writes, CallWrite(w) \/ AskWriter(w) \/ TakeWriter(w)
        PROVE  WritesTyped'
    BY <1>2 DEF CallWrite, AskWriter, TakeWriter, LeaveEarly
  <1>3. ASSUME NEW w \in Writes, Begin(w) \/ FindBusy(w) \/ GiveUp(w) \/ WakeUp(w)
        PROVE  WritesTyped'
    BY <1>3 DEF Begin, FindBusy, GiveUp, WakeUp, Leave, Undo
  <1>4. ASSUME NEW w \in Writes, Work(w) PROVE WritesTyped'
    <2>1. \A e \in Effects(w) : After(e) \in Nat /\ e \in {"adds", "repeats", "nothing"}
      BY DEF Effects, After, FileTyped
    <2>2. QED
      BY <1>4, <2>1 DEF Work, Undo
  <1>5. ASSUME NEW w \in Writes, Commit(w) \/ FailCommit(w) PROVE WritesTyped'
    BY <1>5 DEF Commit, FailCommit, Undo
  <1>6. ASSUME NEW w \in Writes, Rollback(w) \/ CommitReturns(w) PROVE WritesTyped'
    <2>1. /\ final' = [final EXCEPT ![w] = 0] /\ UNCHANGED durable
          /\ effect' = [effect EXCEPT ![w] = "nothing"]
      BY <1>6 DEF Rollback, CommitReturns, Forget
    <2>2. /\ write' = [write EXCEPT ![w] = "done"]
          /\ \E verdict \in Verdicts \ {"none"} : told' = [told EXCEPT ![w] = verdict]
      BY <1>6 DEF Rollback, CommitReturns, Leave, CommitVerdict
    <2>3. QED
      BY <2>1, <2>2
  <1>7. QED
    BY <1>1, <1>2, <1>3, <1>4, <1>5, <1>6
       DEF Next, WriteStep, ReadStep, StartStep, OwnerStep, CallRead, AskReader,
       TakeReader, FailRead, SeeUnchanged, SeeChanged, ReadState, Publish, CallStart,
       StartRefused, StartOpens, StartReads, StartEnds, StartFails, CallClose,
       CloseReturns, OwnerAsks, OwnerClosing, OwnerHasReader, OwnerClosesReader,
       OwnerEnds, CancelCall, ForeignBegin, ForeignEnd

LEMMA ReadsTypedStep ==
  ASSUME ReadsTyped, FileTyped, Next
  PROVE  ReadsTyped'
  <1> USE DEF ReadsTyped, FileTyped, ReadPhases
  <1>1. ASSUME UNCHANGED <<read, found, held, asked>> PROVE ReadsTyped'
    BY <1>1
  <1>2. ASSUME NEW r \in Reads, CallRead(r) PROVE ReadsTyped'
    BY <1>2 DEF CallRead
  <1>3. ASSUME NEW r \in Reads, AskReader(r) PROVE ReadsTyped'
    BY <1>3 DEF AskReader
  <1>4. ASSUME NEW r \in Reads, Finish(r), UNCHANGED asked PROVE ReadsTyped'
    BY <1>4 DEF Finish
  <1>5. ASSUME NEW r \in Reads, TakeReader(r) PROVE ReadsTyped'
    <2>1. CASE ~Finish(r)
      BY <1>5, <2>1 DEF TakeReader
    <2>2. QED
      BY <1>4, <1>5, <2>1 DEF TakeReader
  <1>6. ASSUME NEW r \in Reads, SeeChanged(r) PROVE ReadsTyped'
    BY <1>6 DEF SeeChanged
  <1>7. ASSUME NEW r \in Reads, ReadState(r) PROVE ReadsTyped'
    BY <1>7 DEF ReadState
  <1>8. QED
    BY <1>1, <1>2, <1>3, <1>4, <1>5, <1>6, <1>7
       DEF Next, WriteStep, ReadStep, StartStep, OwnerStep, reads, CallWrite,
       AskWriter, TakeWriter, Begin, FindBusy, GiveUp, WakeUp, Work, Commit,
       FailCommit, Rollback, CommitReturns, FailRead, SeeUnchanged, Publish, CallStart,
       StartRefused, StartOpens, StartReads, StartEnds, StartFails, CallClose,
       CloseReturns, OwnerAsks, OwnerClosing, OwnerHasReader, OwnerClosesReader,
       OwnerEnds, CancelCall, ForeignBegin, ForeignEnd

LEMMA AnswersTypedStep ==
  ASSUME AnswersTyped, ReadsTyped, CachingTyped, Next
  PROVE  AnswersTyped'
  <1> USE DEF AnswersTyped, ReadsTyped, CachingTyped
  <1>1. ASSUME UNCHANGED answer PROVE AnswersTyped'
    BY <1>1
  <1>2. ASSUME NEW r \in Reads, SeeUnchanged(r) \/ Publish(r) PROVE AnswersTyped'
    <2>1. cache \in Nat /\ Published(held[r]) \in Nat
      BY PublishedFacts
    <2>2. ASSUME NEW seen \in Nat, Answered(r, seen) PROVE AnswersTyped'
      BY <2>2 DEF Answered
    <2>3. QED
      BY <1>1, <1>2, <2>1, <2>2, Zenon DEF SeeUnchanged, Publish
  <1>3. QED
    BY <1>1, <1>2
       DEF Next, WriteStep, ReadStep, StartStep, OwnerStep, reads, CallWrite,
       AskWriter, TakeWriter, Begin, FindBusy, GiveUp, WakeUp, Work, Commit,
       FailCommit, Rollback, CommitReturns, CallRead, AskReader, TakeReader, FailRead,
       SeeChanged, ReadState, CallStart, StartRefused, StartOpens, StartReads,
       StartEnds, StartFails, CallClose, CloseReturns, OwnerAsks, OwnerClosing,
       OwnerHasReader, OwnerClosesReader, OwnerEnds, CancelCall, ForeignBegin,
       ForeignEnd

LEMMA EndsTypedStep ==
  ASSUME EndsTyped, FileTyped, Next
  PROVE  EndsTyped'
  <1> USE DEF EndsTyped, FileTyped, States
  <1>1. ASSUME UNCHANGED <<ends, connections>> PROVE EndsTyped'
    BY <1>1 DEF ends, connections
  <1>2. CASE CallStart \/ StartStep
    <2>1. CASE StartEnds
      BY <2>1 DEF StartEnds, connections
    <2>2. CASE StartOpens \/ StartReads \/ StartFails
      BY <2>2 DEF StartOpens, StartReads, StartFails, connections
    <2>3. QED
      BY <1>2, <2>1, <2>2 DEF CallStart, StartStep, StartRefused, connections
  <1>3. ASSUME NEW c \in Closers, CallClose(c) \/ CloseReturns(c) PROVE EndsTyped'
    BY <1>3 DEF CallClose, CloseReturns, connections
  <1>4. CASE OwnerStep
    BY <1>4 DEF OwnerStep, OwnerAsks, OwnerClosing, OwnerHasReader, OwnerClosesReader,
       OwnerEnds, connections
  <1>5. QED
    BY <1>1, <1>2, <1>3, <1>4
       DEF Next, WriteStep, ReadStep, CallWrite,
       AskWriter, TakeWriter, Begin, FindBusy, GiveUp, WakeUp, Work, Commit,
       FailCommit, Rollback, CommitReturns, CallRead, AskReader, TakeReader, FailRead,
       SeeUnchanged, SeeChanged, ReadState, Publish, CancelCall, ForeignBegin,
       ForeignEnd

LEMMA TypeOKStep ==
  ASSUME TypeOK, Locked, Next
  PROVE  TypeOK'
  <1>1. /\ FileTyped /\ CachingTyped /\ WritesTyped /\ ReadsTyped /\ AnswersTyped
        /\ EndsTyped /\ cancelled \subseteq Writes \cup Reads \cup Closers
    BY TypeParts, Zenon
  <1>2. (cancelled \subseteq Writes \cup Reads \cup Closers)'
    <2>1. CASE CancelCall
      BY <1>1, <2>1 DEF CancelCall
    <2>2. CASE UNCHANGED cancelled
      BY <1>1, <2>2
    <2>3. QED
      BY <2>1, <2>2
         DEF Next, WriteStep, ReadStep, StartStep, OwnerStep, CallWrite,
         AskWriter, TakeWriter, Begin, FindBusy, GiveUp, WakeUp, Work, Commit,
         FailCommit, Rollback, CommitReturns, CallRead, AskReader, TakeReader, FailRead,
         SeeUnchanged, SeeChanged, ReadState, Publish, CallStart, StartRefused,
         StartOpens, StartReads, StartEnds, StartFails, CallClose, CloseReturns,
         OwnerAsks, OwnerClosing, OwnerHasReader, OwnerClosesReader, OwnerEnds,
         ForeignBegin, ForeignEnd
  <1>3. /\ LocksTyped' /\ FileTyped' /\ CachingTyped' /\ WritesTyped' /\ ReadsTyped'
        /\ AnswersTyped' /\ EndsTyped'
    BY <1>1, LocksTypedStep, FileTypedStep, CachingTypedStep, WritesTypedStep,
       ReadsTypedStep, AnswersTypedStep, EndsTypedStep
  <1>4. QED
    BY <1>2, <1>3 DEF TypeOK, LocksTyped, FileTyped, CachingTyped, WritesTyped,
       ReadsTyped, AnswersTyped, EndsTyped

(* To be behind by no more than so many. *)
LEMMA Behind ==
  ASSUME NEW file1 \in Nat, NEW seen1 \in Nat, NEW missed1 \in Nat,
         file1 <= seen1 + missed1
  PROVE  /\ \A seen2 \in Nat : seen2 >= seen1 => file1 <= seen2 + missed1
         /\ \A file2, missed2 \in Nat :
              file2 + missed1 <= file1 + missed2 => file2 <= seen1 + missed2
  OBVIOUS

LEMMA VersionedStep ==
  ASSUME TypeOK, Locked, Staged, Versioned, Next
  PROVE  Versioned'
  <1>n. /\ cache \in Nat /\ readerVersion \in Nat /\ revision \in Nat /\ version \in Nat
        /\ startHeld \in Nat /\ missed \in Nat
        /\ \A r \in Reads : found[r] \in Nat /\ held[r] \in Nat /\ asked[r] \in Nat
        /\ \A seen \in Nat : /\ Published(seen) \in Nat /\ Published(seen) >= seen
                             /\ Published(seen) >= cache
    BY PublishedFacts DEF TypeOK
  <1>t. /\ read \in [Reads -> ReadPhases] /\ found \in [Reads -> Nat]
        /\ held \in [Reads -> Nat] /\ asked \in [Reads -> Nat]
    BY DEF TypeOK
  <1>r. \A r \in Reads : read[r] \in Reading => state \in {"running", "closing"}
    BY DEF Staged
  <1> USE <1>n, <1>t DEF Versioned, Reading
  <1>m. missed' \in Nat
    <2>1. FileTyped
      BY TypeParts
    <2>2. QED
      BY <2>1, FileTypedStep DEF FileTyped
  (* Steps that touch neither the file, the cache, nor a snapshot. *)
  <1>1. ASSUME UNCHANGED <<cache, readerVersion, revision, version, missed, read, found,
                           held, asked, start, startHeld>>,
               state' = "running" => state = "running"
        PROVE  Versioned'
    BY <1>1
  <1>2. ASSUME UNCHANGED <<cache, readerVersion, read, found, held, asked, start,
                           startHeld, state>>,
               version' = version + 1, revision' \in {revision, revision + 1},
               start = "read" => revision' + missed <= revision + missed'
        PROVE  Versioned'
    <2>1. readerVersion' <= version' /\ readerVersion' # version'
      BY <1>2
    <2>2. start' = "read" => startHeld' <= revision' /\ revision' <= startHeld' + missed'
      <3> SUFFICES ASSUME start = "read", missed' \in Nat
                   PROVE  startHeld <= revision' /\ revision' <= startHeld + missed'
        BY <1>2, <1>m
      <3>1. startHeld <= revision /\ revision <= startHeld + missed
            /\ revision' + missed <= revision + missed'
        BY <1>2
      <3>2. startHeld <= revision'
        BY <1>2, <3>1
      <3>3. revision' \in Nat
        BY <1>2
      <3>4. revision' <= startHeld + missed'
        BY <1>n, <3>1, <3>3, Behind
      <3>5. QED
        BY <3>2, <3>4
    <2>3. QED
      BY <1>2, <2>1, <2>2
  <1>3. ASSUME NEW w \in Writes, Commit(w) PROVE Versioned'
    <2>1. start # "read"
      BY <1>3 DEF Commit, Staged, InTransaction
    <2>2. CASE effect[w] = "nothing"
      BY <1>1, <1>3, <2>2 DEF Commit, After, caching, reads, ends
    <2>3. CASE effect[w] # "nothing"
      BY <1>2, <1>3, <2>1, <2>3 DEF Commit, After, caching, reads, ends
    <2>4. QED
      BY <2>2, <2>3
  <1>4. CASE ForeignEnd
    <2>1. CASE UNCHANGED <<revision, version, missed>>
      BY <1>1, <1>4, <2>1 DEF ForeignEnd, caching, reads, ends
    <2>2. CASE /\ revision' = revision + 1 /\ version' = version + 1
               /\ missed' = IF start = "read" THEN missed + 1 ELSE 0
      BY <1>2, <1>4, <2>2 DEF ForeignEnd, caching, reads, ends
    <2>3. QED
      BY <1>4, <2>1, <2>2 DEF ForeignEnd
  <1>5. ASSUME NEW w \in Writes, CommitReturns(w) PROVE Versioned'
    <2>1. cache' >= cache /\ cache' \in Nat
      BY <1>5 DEF CommitReturns, AfterCommit, TypeOK
    <2>2. UNCHANGED <<readerVersion, revision, version, missed, read, found, held, asked,
                      start, startHeld, state>>
      BY <1>5 DEF CommitReturns, file, reads, ends
    <2>3. revision <= cache + missed => revision <= cache' + missed
      BY <1>n, <2>1, Behind
    <2>4. QED
      BY <2>2, <2>3
  <1>6. ASSUME NEW r \in Reads, CallRead(r) PROVE Versioned'
    <2>1. /\ UNCHANGED <<cache, readerVersion, revision, version, missed, found, held,
                         start, startHeld, state>>
          /\ read' = [read EXCEPT ![r] = "lifecycle"]
          /\ asked' = [asked EXCEPT ![r] = revision]
      BY <1>6 DEF CallRead, caching, file, ends
    <2>2. read'[r] = "lifecycle" /\ asked'[r] = revision
      BY <2>1
    <2>3. \A o \in Reads : o # r => read'[o] = read[o] /\ asked'[o] = asked[o]
      BY <2>1
    <2>4. QED
      BY <2>1, <2>2, <2>3
  <1>7. ASSUME NEW r \in Reads, AskReader(r) PROVE Versioned'
    BY <1>7 DEF AskReader, file, ends
  <1>8. ASSUME NEW r \in Reads, Finish(r),
               UNCHANGED <<cache, readerVersion, file, asked, ends>>
        PROVE  Versioned'
    BY <1>8 DEF Finish, file, ends
  <1>9. ASSUME NEW r \in Reads, TakeReader(r) PROVE Versioned'
    <2>1. UNCHANGED <<cache, readerVersion, file, asked, ends>> /\ state = "running"
      BY <1>9 DEF TakeReader, Staged
    <2>2. CASE Finish(r)
      BY <1>8, <2>1, <2>2
    <2>3. CASE read' = [read EXCEPT ![r] = "version"] /\ UNCHANGED <<found, held>>
      BY <2>1, <2>3 DEF file, ends
    <2>4. QED
      BY <1>9, <2>2, <2>3 DEF TakeReader
  <1>10. ASSUME NEW r \in Reads, SeeChanged(r) PROVE Versioned'
    BY <1>10 DEF SeeChanged, caching, file, ends
  <1>11. ASSUME NEW r \in Reads, ReadState(r) PROVE Versioned'
    BY <1>11 DEF ReadState, caching, file, ends
  <1>12. ASSUME NEW r \in Reads, Publish(r) PROVE Versioned'
    <2>1. CASE UNCHANGED <<readerVersion, cache>>
      BY <1>8, <1>12, <2>1 DEF Publish
    <2>2. CASE readerVersion' = found[r] /\ cache' = Published(held[r])
      <3>1. /\ found[r] <= version
            /\ found[r] = version => held[r] = revision
            /\ cache' >= held[r]
        BY <1>12, <2>2 DEF Publish
      <3>2. UNCHANGED <<revision, version, missed, asked, start, startHeld, state>>
        BY <1>12 DEF Publish, file, ends
      <3>3. Finish(r)
        BY <1>12 DEF Publish
      <3>4. /\ readerVersion' <= version'
            /\ start' = "read" => startHeld' <= revision' /\ revision' <= startHeld' + missed'
        BY <2>2, <3>1, <3>2
      <3>5. readerVersion' = version' => revision' <= cache' + missed'
        BY <2>2, <3>1, <3>2
      <3>6. \A o \in Reads : o # r => /\ read'[o] = read[o] /\ found'[o] = found[o]
                                      /\ held'[o] = held[o]
        BY <3>3 DEF Finish
      <3>7. read'[r] = "done"
        BY <3>3 DEF Finish
      <3>8. QED
        BY <3>2, <3>4, <3>5, <3>6, <3>7
    <2>3. QED
      BY <1>12, <2>1, <2>2 DEF Publish, VersionBefore
  <1>13. CASE StartReads
    BY <1>13 DEF StartReads, Staged, caching, file, reads
  <1>14. CASE StartEnds
    BY <1>14 DEF StartEnds, file, reads
  <1>15. CASE OwnerEnds
    <2>1. \A r \in Reads : read[r] \notin Reading
      BY <1>15, QueueFacts, LockersDistinct DEF OwnerEnds, Locked
    <2>2. QED
      BY <1>15, <2>1 DEF OwnerEnds, file, reads
  <1>16. CASE CallStart \/ StartRefused \/ StartOpens \/ StartFails
    BY <1>16 DEF CallStart, StartRefused, StartOpens, StartFails, caching, file, reads
  <1>17. CASE OwnerClosing
    BY <1>1, <1>17 DEF OwnerClosing, caching, file, reads
  <1>18. QED
    BY <1>1, <1>3, <1>4, <1>5, <1>6, <1>7, <1>8, <1>9, <1>10, <1>11, <1>12, <1>13,
       <1>14, <1>15, <1>16, <1>17
       DEF Next, WriteStep, ReadStep, StartStep, OwnerStep, caching, file, reads,
       ends, CallWrite, AskWriter, TakeWriter, Begin, FindBusy, GiveUp, WakeUp,
       Work, FailCommit, Rollback, FailRead, SeeUnchanged, CallClose, CloseReturns,
       OwnerAsks, OwnerHasReader, OwnerClosesReader, CancelCall, ForeignBegin

LEMMA CarriedStep ==
  ASSUME TypeOK, Carried, Next
  PROVE  Carried'
  <1>t. /\ write \in [Writes -> WritePhases] /\ final \in [Writes -> Nat]
        /\ effect \in [Writes -> {"adds", "repeats", "nothing"}] /\ revision \in Nat
    BY DEF TypeOK
  <1> USE <1>t DEF Carried, After
  (* The file only grows; the transactions that go on, go on as they were. *)
  <1>1. ASSUME NEW w \in Writes, NEW phase, write' = [write EXCEPT ![w] = phase],
               phase \notin {"commit", "committed"}, UNCHANGED revision,
               \A v \in Writes \ {w} : effect'[v] = effect[v] /\ final'[v] = final[v]
        PROVE  Carried'
    BY <1>1
  <1>2. ASSUME NEW w \in Writes,
               CallWrite(w) \/ AskWriter(w) \/ TakeWriter(w) \/ Begin(w) \/ FindBusy(w)
               \/ GiveUp(w) \/ WakeUp(w) \/ FailCommit(w)
        PROVE  Carried'
    <2>1. /\ UNCHANGED <<revision, effect, final>>
          /\ \E phase \in {"lifecycle", "writer", "begin", "asleep", "work", "rollback", "done"} :
               write' = [write EXCEPT ![w] = phase]
      BY <1>2 DEF CallWrite, AskWriter, TakeWriter, LeaveEarly, Begin, FindBusy, GiveUp,
         WakeUp, FailCommit, Undo, Leave, file
    <2>2. QED
      BY <1>1, <2>1
  <1>3. ASSUME NEW w \in Writes, Rollback(w) \/ CommitReturns(w) PROVE Carried'
    <2>1. /\ UNCHANGED revision /\ write' = [write EXCEPT ![w] = "done"]
          /\ \A v \in Writes \ {w} : effect'[v] = effect[v] /\ final'[v] = final[v]
      BY <1>3 DEF Rollback, CommitReturns, Leave, Forget, file
    <2>2. QED
      BY <1>1, <2>1
  <1>4. ASSUME NEW w \in Writes, Work(w) PROVE Carried'
    <2>1. UNCHANGED revision
      BY <1>4 DEF Work, file
    <2>2. CASE /\ write' = [write EXCEPT ![w] = "commit"]
               /\ \E e \in Effects(w) : /\ effect' = [effect EXCEPT ![w] = e]
                                         /\ final' = [final EXCEPT ![w] = After(e)]
      <3>1. PICK e \in Effects(w) : /\ effect' = [effect EXCEPT ![w] = e]
                                    /\ final' = [final EXCEPT ![w] = After(e)]
        BY <2>2
      <3>2. /\ write'[w] = "commit" /\ effect'[w] = e /\ final'[w] = After(e)
            /\ After(e) \in Nat
        BY <2>2, <3>1
      <3>3. \A v \in Writes \ {w} : /\ write'[v] = write[v] /\ effect'[v] = effect[v]
                                     /\ final'[v] = final[v]
        BY <2>2, <3>1
      <3>4. QED
        BY <2>1, <3>2, <3>3
    <2>3. CASE write' = [write EXCEPT ![w] = "rollback"] /\ UNCHANGED <<effect, final>>
      BY <1>1, <2>1, <2>3
    <2>4. QED
      BY <1>4, <2>2, <2>3 DEF Work, Undo
  <1>5. ASSUME UNCHANGED writes, revision' \in {revision, revision + 1} PROVE Carried'
    <2>1. UNCHANGED <<write, effect, final>>
      BY <1>5 DEF writes
    <2>2. QED
      BY <1>5, <2>1
  <1>6. ASSUME NEW w \in Writes, Commit(w) PROVE Carried'
    <2>1. /\ write[w] = "commit" /\ write' = [write EXCEPT ![w] = "committed"]
          /\ revision' = After(effect[w]) /\ UNCHANGED <<effect, final>>
      BY <1>6 DEF Commit
    <2>2. revision' \in {revision, revision + 1} /\ final'[w] <= revision'
      BY <2>1
    <2>3. QED
      BY <2>1, <2>2
  <1>7. CASE ForeignEnd
    BY <1>5, <1>7 DEF ForeignEnd
  <1>8. QED
    BY <1>2, <1>3, <1>4, <1>5, <1>6, <1>7
       DEF Next, WriteStep, ReadStep, StartStep, OwnerStep, file, CallRead, AskReader,
       TakeReader, FailRead, SeeUnchanged, SeeChanged, ReadState, Publish, CallStart,
       StartRefused, StartOpens, StartReads, StartEnds, StartFails, CallClose,
       CloseReturns, OwnerAsks, OwnerClosing, OwnerHasReader, OwnerClosesReader,
       OwnerEnds, CancelCall, ForeignBegin

LEMMA OpenStep ==
  ASSUME TypeOK, Locked, Staged, NothingOnClosed, Next
  PROVE  NothingOnClosed'
  <1> USE Phased DEF NothingOnClosed
  <1>1. ASSUME NEW w \in Writes, CallWrite(w) \/ AskWriter(w) \/ TakeWriter(w)
        PROVE  NothingOnClosed'
    BY <1>1 DEF CallWrite, AskWriter, TakeWriter, LeaveEarly, Staged, InTransaction,
       connections, reads
  <1>2. ASSUME NEW w \in Writes,
               Begin(w) \/ Work(w) \/ Commit(w) \/ FailCommit(w) \/ FindBusy(w)
               \/ GiveUp(w) \/ WakeUp(w) \/ Rollback(w) \/ CommitReturns(w)
        PROVE  NothingOnClosed'
    BY <1>2 DEF Begin, Work, Commit, FailCommit, FindBusy, GiveUp, WakeUp, Rollback,
       CommitReturns, Leave, Undo, InTransaction, connections, reads
  <1>3. ASSUME NEW r \in Reads, CallRead(r) \/ AskReader(r) \/ TakeReader(r)
        PROVE  NothingOnClosed'
    BY <1>3 DEF CallRead, AskReader, TakeReader, Finish, Staged, connections, writes
  <1>4. ASSUME NEW r \in Reads,
               FailRead(r) \/ SeeUnchanged(r) \/ SeeChanged(r) \/ ReadState(r) \/ Publish(r)
        PROVE  NothingOnClosed'
    BY <1>4 DEF FailRead, SeeUnchanged, SeeChanged, ReadState, Publish, Finish,
       connections, writes
  <1>5. CASE StartOpens
    BY <1>5 DEF StartOpens, writes, reads
  <1>6. CASE StartFails
    <2>1. state = "starting"
      BY <1>6 DEF StartFails, Staged
    <2>2. QED
      BY <1>6, <2>1 DEF StartFails, Staged, Reading, writes, reads
  <1>7. CASE OwnerClosesReader
    <2>1. \A r \in Reads : read[r] \notin Reading
      BY <1>7, QueueFacts, LockersDistinct DEF OwnerClosesReader, Locked
    <2>2. QED
      BY <1>7, <2>1 DEF OwnerClosesReader, Reading, writes, reads
  <1>8. CASE OwnerEnds
    <2>1. \A w \in Writes : write[w] \notin InTransaction
      BY <1>8, QueueFacts, LockersDistinct DEF OwnerEnds, Locked
    <2>2. QED
      BY <1>8, <2>1 DEF OwnerEnds, writes, reads
  <1>9. ASSUME UNCHANGED <<connections, write, read>> PROVE NothingOnClosed'
    BY <1>9 DEF connections
  <1>10. QED
    BY <1>1, <1>2, <1>3, <1>4, <1>5, <1>6, <1>7, <1>8, <1>9
       DEF Next, WriteStep, ReadStep, StartStep, OwnerStep, writes, reads,
       CallStart, StartRefused, StartReads, StartEnds, CallClose, CloseReturns,
       OwnerAsks, OwnerClosing, OwnerHasReader, CancelCall, ForeignBegin, ForeignEnd

LEMMA OutcomeStep ==
  ASSUME TypeOK, Settled, OutcomeKnown, Next
  PROVE  OutcomeKnown'
  <1> USE Phased DEF OutcomeKnown
  <1>0. Observed \subseteq Writes
    BY DEF Observed, Writes
  <1>s. \A w \in Observed : /\ write[w] \notin {"rollback", "done"} => told[w] = "none"
                            /\ write[w] = "rollback" =>
                                 told[w] \in {"failed", "cancelled", "atCommit"}
                            /\ w \in durable => write[w] \in {"committed", "done"}
                            /\ write[w] = "committed" => w \in durable
    BY <1>0 DEF Settled
  <1>1. ASSUME NEW w \in Writes,
               CallWrite(w) \/ AskWriter(w) \/ TakeWriter(w) \/ Begin(w) \/ Work(w)
        PROVE  OutcomeKnown'
    BY <1>0, <1>s, <1>1 DEF CallWrite, AskWriter, TakeWriter, LeaveEarly, Begin, Work, Undo
  <1>2. ASSUME NEW w \in Writes, FindBusy(w) \/ GiveUp(w) \/ WakeUp(w)
        PROVE  OutcomeKnown'
    BY <1>0, <1>s, <1>2 DEF FindBusy, GiveUp, WakeUp, Leave
  <1>3. ASSUME NEW w \in Writes, Commit(w) \/ FailCommit(w) PROVE OutcomeKnown'
    BY <1>0, <1>s, <1>3 DEF Commit, FailCommit, Undo
  <1>4. ASSUME NEW w \in Writes, Rollback(w) PROVE OutcomeKnown'
    BY <1>0, <1>s, <1>4 DEF Rollback, Leave
  <1>5. ASSUME NEW w \in Writes, CommitReturns(w) PROVE OutcomeKnown'
    BY <1>0, <1>s, <1>5 DEF CommitReturns, CommitVerdict, Leave
  <1>6. ASSUME UNCHANGED writes PROVE OutcomeKnown'
    BY <1>6 DEF writes
  <1>7. QED
    BY <1>1, <1>2, <1>3, <1>4, <1>5, <1>6
       DEF Next, WriteStep, ReadStep, StartStep, OwnerStep, CallRead, AskReader,
       TakeReader, FailRead, SeeUnchanged, SeeChanged, ReadState, Publish,
       CallStart, StartRefused, StartOpens, StartReads, StartEnds, StartFails,
       CallClose, CloseReturns, OwnerAsks, OwnerClosing, OwnerHasReader,
       OwnerClosesReader, OwnerEnds, CancelCall, ForeignBegin, ForeignEnd

LEMMA AnsweringStep ==
  ASSUME TypeOK, Answering, Next
  PROVE  Answering'
  <1>t. /\ read \in [Reads -> ReadPhases]
        /\ answer \in [Reads -> [fresh : BOOLEAN, revision : Nat]]
    BY DEF TypeOK
  <1> USE <1>t DEF Answering
  <1>1. ASSUME UNCHANGED <<read, answer>> PROVE Answering'
    BY <1>1
  <1>2. ASSUME NEW r \in Reads,
               CallRead(r) \/ AskReader(r) \/ TakeReader(r) \/ FailRead(r) \/ SeeChanged(r)
               \/ ReadState(r)
        PROVE  Answering'
    BY <1>2 DEF CallRead, AskReader, TakeReader, FailRead, SeeChanged, ReadState, Finish
  <1>3. ASSUME NEW r \in Reads, SeeUnchanged(r) \/ Publish(r) PROVE Answering'
    BY <1>3 DEF SeeUnchanged, Publish, Answered, Finish
  <1>4. QED
    BY <1>1, <1>2, <1>3
       DEF Next, WriteStep, ReadStep, StartStep, OwnerStep, reads, CallWrite,
       AskWriter, TakeWriter, Begin, FindBusy, GiveUp, WakeUp, Work, Commit,
       FailCommit, Rollback, CommitReturns, CallStart, StartRefused, StartOpens,
       StartReads, StartEnds, StartFails, CallClose, CloseReturns, OwnerAsks,
       OwnerClosing, OwnerHasReader, OwnerClosesReader, OwnerEnds, CancelCall,
       ForeignBegin, ForeignEnd

-----------------------------------------------------------------------------
(* The theorems.                                                             *)

StoreInv ==
  TypeOK /\ Locked /\ Staged /\ Settled /\ OutcomeKnown /\ NothingOnClosed

FreshInv == Versioned /\ Carried /\ Answering

LEMMA StoreInit ==
  ASSUME Init
  PROVE  StoreInv /\ FreshInv
  <1> USE DEF Init
  <1>1. TypeOK
    <2>1. foreign \in 0 .. MaxForeign
      BY StoreAssumption
    <2>2. <<>> \in Seq(Lockers)
      OBVIOUS
    <2>3. answer \in [Reads -> [fresh : BOOLEAN, revision : Nat]]
      BY DEF Unasked
    <2>4. QED
      BY <2>1, <2>2, <2>3 DEF TypeOK, States, WritePhases, ReadPhases, Verdicts
  <1>2. Locked /\ Staged /\ NothingOnClosed
    BY DEF Locked, Staged, NothingOnClosed, InTransaction, Reading
  <1>3. Settled /\ OutcomeKnown
    BY DEF Settled, OutcomeKnown, Observed, Writes
  <1>4. Versioned
    BY DEF Versioned
  <1>5. Carried /\ Answering
    BY DEF Carried, Answering, Unasked
  <1>6. QED
    BY <1>1, <1>2, <1>3, <1>4, <1>5 DEF StoreInv, FreshInv

LEMMA StoreStep ==
  ASSUME StoreInv, [Next]_vars
  PROVE  StoreInv'
  <1>1. CASE Next
    BY <1>1, TypeOKStep, LockedStep, StagedStep, SettledStep, OutcomeStep, OpenStep
       DEF StoreInv
  <1>2. CASE UNCHANGED vars
    <2> USE <1>2 DEF StoreInv, vars, locks, connections, caching, file, writes, reads, ends
    <2>1. TypeOK'
      BY DEF TypeOK
    <2>2. Locked' /\ Staged' /\ NothingOnClosed'
      BY DEF Locked, Staged, NothingOnClosed, Holds
    <2>3. Settled' /\ OutcomeKnown'
      BY DEF Settled, OutcomeKnown
    <2>4. QED
      BY <2>1, <2>2, <2>3
  <1>3. QED
    BY <1>1, <1>2

LEMMA FreshInvStep ==
  ASSUME StoreInv, FreshInv, [Next]_vars
  PROVE  FreshInv'
  <1>1. CASE Next
    BY <1>1, VersionedStep, CarriedStep, AnsweringStep DEF StoreInv, FreshInv
  <1>2. CASE UNCHANGED vars
    <2> USE <1>2 DEF vars, caching, file, writes, reads, ends
    <2>1. Versioned' /\ Answering'
      BY DEF FreshInv, Versioned, Answering
    <2>2. Carried'
      BY DEF FreshInv, Carried, After
    <2>3. QED
      BY <2>1, <2>2 DEF FreshInv
  <1>3. QED
    BY <1>1, <1>2

(* The locks, the store's state, the transactions and the connections stay   *)
(* in step with one another, whatever calls, cancellations and commits come. *)
THEOREM StoreInvariant == Spec => []StoreInv
  <1>1. Init => StoreInv
    BY StoreInit
  <1>2. StoreInv /\ [Next]_vars => StoreInv'
    BY StoreStep
  <1>3. QED
    BY <1>1, <1>2, PTL DEF Spec

(* Every variable stays in its range: no lock is left by one who is not its  *)
(* holder, and no version goes below what it was.                            *)
THEOREM TypeCorrect == Spec => []TypeOK
  <1>1. StoreInv => TypeOK
    BY DEF StoreInv
  <1>2. QED
    BY <1>1, StoreInvariant, PTL

(* The caller of apply_sample or record_event is never told that nothing was *)
(* stored when something was, or the reverse.                                *)
THEOREM OutcomesKnown == Spec => []OutcomeKnown
  <1>1. StoreInv => OutcomeKnown
    BY DEF StoreInv
  <1>2. QED
    BY <1>1, StoreInvariant, PTL

(* No transaction or refresh meets a connection that close, or a failed      *)
(* start, has shut.                                                          *)
THEOREM ConnectionsOpen == Spec => []NothingOnClosed
  <1>1. StoreInv => NothingOnClosed
    BY DEF StoreInv
  <1>2. QED
    BY <1>1, StoreInvariant, PTL

(* Neither a refresh nor a commit puts an older state in the cache than the  *)
(* one it holds, also when another process commits during the start, or      *)
(* between a commit of ours and its return.                                  *)
THEOREM NeverBack == Spec => CacheNeverBack
  <1>1. TypeOK /\ [Next]_vars => [state' # "closed" => cache' >= cache]_vars
    <2> SUFFICES ASSUME TypeOK, Next
                 PROVE  state' # "closed" => cache' >= cache
      OBVIOUS
    <2>n. /\ cache \in Nat /\ startHeld \in Nat
          /\ \A r \in Reads : held[r] \in Nat
          /\ \A w \in Writes : final[w] \in Nat
          /\ \A seen \in Nat : Published(seen) >= cache
      BY PublishedFacts DEF TypeOK
    <2>1. ASSUME NEW w \in Writes, CommitReturns(w) PROVE cache' >= cache
      BY <2>n, <2>1 DEF CommitReturns, AfterCommit
    <2>2. ASSUME NEW r \in Reads, Publish(r) PROVE cache' >= cache
      BY <2>n, <2>2 DEF Publish
    <2>3. CASE StartEnds
      BY <2>n, <2>3 DEF StartEnds
    <2>4. CASE OwnerEnds
      BY <2>4 DEF OwnerEnds
    <2>5. ASSUME UNCHANGED cache PROVE cache' >= cache
      BY <2>n, <2>5
    <2>6. QED
      BY <2>1, <2>2, <2>3, <2>4, <2>5
         DEF Next, WriteStep, ReadStep, StartStep, OwnerStep, caching, CallWrite,
       AskWriter, TakeWriter, Begin, FindBusy, GiveUp, WakeUp, Work, Commit,
       FailCommit, Rollback, CallRead, AskReader, TakeReader, FailRead,
       SeeUnchanged, SeeChanged, ReadState, CallStart, StartRefused, StartOpens,
       StartReads, StartFails, CallClose, CloseReturns, OwnerAsks, OwnerClosing,
       OwnerHasReader, OwnerClosesReader, CancelCall, ForeignBegin, ForeignEnd
  <1>2. QED
    BY <1>1, TypeCorrect, PTL DEF Spec, CacheNeverBack

-----------------------------------------------------------------------------
(* The promise to the callers.                                               *)

(* The cache is of a revision that was stored, and while the store is not    *)
(* closed it is not behind any answer given.                                 *)
Backed ==
  /\ cache <= revision
  /\ state = "closed" => owner = "done"
  /\ state # "closed" => \A q \in Reads : answer[q].fresh => answer[q].revision <= cache

LEMMA PublishedBound ==
  ASSUME cache \in Nat, revision \in Nat, cache <= revision,
         NEW seen \in Nat, seen <= revision
  PROVE  /\ Published(seen) \in Nat /\ cache <= Published(seen)
         /\ Published(seen) <= revision
  BY DEF Published

LEMMA BackedStep ==
  ASSUME TypeOK, Staged, Versioned, Carried, Backed, Next
  PROVE  Backed'
  <1>n. /\ cache \in Nat /\ revision \in Nat /\ startHeld \in Nat
        /\ \A r \in Reads : held[r] \in Nat /\ answer[r].revision \in Nat
    BY DEF TypeOK
  <1>a. answer \in [Reads -> [fresh : BOOLEAN, revision : Nat]]
    BY DEF TypeOK
  <1> USE DEF Backed
  (* The cache is replaced by what is not older, the answers stand. *)
  <1>b. ASSUME cache' \in Nat, cache <= cache', cache' <= revision,
               UNCHANGED <<revision, state, owner, answer>>
        PROVE  Backed'
    BY <1>n, <1>b
  <1>1. ASSUME UNCHANGED <<cache, revision, state, owner, answer>> PROVE Backed'
    BY <1>1
  <1>2. ASSUME UNCHANGED <<cache, state, owner, answer>>, revision' = revision + 1
        PROVE  Backed'
    BY <1>n, <1>2
  <1>3. ASSUME NEW w \in Writes, CommitReturns(w) PROVE Backed'
    <2>0. final[w] \in Nat /\ final[w] <= revision
      BY <1>3 DEF CommitReturns, Carried, TypeOK
    <2>1. cache' \in Nat /\ cache <= cache' /\ cache' <= revision
      BY <1>n, <1>3, <2>0, PublishedBound DEF CommitReturns, AfterCommit
    <2>2. QED
      BY <1>b, <1>3, <2>1 DEF CommitReturns, file, reads, ends
  <1>4. ASSUME NEW w \in Writes, Commit(w) PROVE Backed'
    BY <1>1, <1>2, <1>4 DEF Commit, After, caching, reads, ends
  <1>5. ASSUME NEW r \in Reads, NEW seen \in Nat, Answered(r, seen), cache' = seen,
               cache <= seen, seen <= revision, UNCHANGED <<revision, state, owner>>
        PROVE  Backed'
    <2>1. \A q \in Reads : answer'[q] = IF q = r THEN [fresh |-> TRUE, revision |-> seen]
                                        ELSE answer[q]
      BY <1>a, <1>5 DEF Answered
    <2>2. QED
      BY <1>n, <1>5, <2>1
  <1>6. ASSUME NEW r \in Reads, SeeUnchanged(r) PROVE Backed'
    BY <1>n, <1>5, <1>6 DEF SeeUnchanged, file, ends
  <1>7. ASSUME NEW r \in Reads, Publish(r) PROVE Backed'
    <2>1. held[r] \in Nat /\ held[r] <= revision
      BY <1>n, <1>7 DEF Publish, Versioned
    <2>2. /\ Published(held[r]) \in Nat /\ cache <= Published(held[r])
          /\ Published(held[r]) <= revision
      BY <1>n, <2>1, PublishedBound
    <2>3. UNCHANGED <<revision, state, owner>>
      BY <1>7 DEF Publish, file, ends
    <2>4. CASE Answered(r, Published(held[r])) /\ cache' = Published(held[r])
      BY <1>5, <2>2, <2>3, <2>4
    <2>5. CASE UNCHANGED <<cache, answer>>
      BY <1>1, <2>3, <2>5
    <2>6. QED
      BY <1>7, <2>4, <2>5 DEF Publish
  <1>8. CASE StartEnds
    <2>1. startHeld <= revision /\ state = "starting"
      BY <1>n, <1>8 DEF StartEnds, Versioned, Staged
    <2>2. /\ Published(startHeld) \in Nat /\ cache <= Published(startHeld)
          /\ Published(startHeld) <= revision
      BY <1>n, <2>1, PublishedBound
    <2>3. /\ cache' = Published(startHeld) /\ state' = "running"
          /\ UNCHANGED <<revision, answer>>
      BY <1>8 DEF StartEnds, file, reads
    <2>4. QED
      BY <1>n, <2>1, <2>2, <2>3
  <1>9. CASE StartOpens \/ StartFails \/ OwnerClosing
    <2>1. state # "closed" /\ state' # "closed"
      BY <1>9 DEF StartOpens, StartFails, OwnerClosing, Staged
    <2>2. UNCHANGED <<cache, revision, answer>>
      BY <1>9 DEF StartOpens, StartFails, OwnerClosing, caching, file, reads
    <2>3. QED
      BY <2>1, <2>2
  <1>10. ASSUME NEW c \in Closers, CallClose(c) PROVE Backed'
    <2>1. UNCHANGED <<cache, revision, answer, state>>
      BY <1>10 DEF CallClose, caching, file, reads
    <2>2. state = "closed" => owner' = owner
      BY <1>10 DEF CallClose
    <2>3. QED
      BY <2>1, <2>2
  <1>11. CASE OwnerAsks \/ OwnerHasReader \/ OwnerClosesReader
    <2>1. UNCHANGED <<cache, revision, answer, state>> /\ owner # "done"
      BY <1>11 DEF OwnerAsks, OwnerHasReader, OwnerClosesReader, caching, file, reads
    <2>2. QED
      BY <2>1
  <1>12. CASE OwnerEnds
    BY <1>n, <1>12 DEF OwnerEnds, file
  <1>13. CASE ForeignEnd
    BY <1>1, <1>2, <1>13 DEF ForeignEnd, caching, reads, ends
  <1>14. ASSUME NEW w \in Writes,
                CallWrite(w) \/ AskWriter(w) \/ TakeWriter(w) \/ Begin(w) \/ FindBusy(w)
                \/ GiveUp(w) \/ WakeUp(w) \/ Work(w) \/ FailCommit(w) \/ Rollback(w)
         PROVE  UNCHANGED <<cache, revision, state, owner, answer>>
    BY <1>14 DEF CallWrite, AskWriter, TakeWriter, Begin, FindBusy, GiveUp, WakeUp, Work,
       FailCommit, Rollback, caching, file, reads, ends
  <1>15. ASSUME NEW r \in Reads,
                CallRead(r) \/ AskReader(r) \/ TakeReader(r) \/ FailRead(r) \/ SeeChanged(r)
                \/ ReadState(r)
         PROVE  UNCHANGED <<cache, revision, state, owner, answer>>
    BY <1>15 DEF CallRead, AskReader, TakeReader, FailRead, SeeChanged, ReadState, caching,
       file, ends
  <1>16. ASSUME NEW c \in Closers, CloseReturns(c)
         PROVE  UNCHANGED <<cache, revision, state, owner, answer>>
    BY <1>16 DEF CloseReturns, caching, file, reads
  <1>17. CASE CallStart \/ StartRefused \/ StartReads \/ CancelCall \/ ForeignBegin
    <2>1. UNCHANGED <<cache, revision, state, owner, answer>>
      BY <1>17 DEF CallStart, StartRefused, StartReads, CancelCall, ForeignBegin, caching,
         file, reads, ends
    <2>2. QED
      BY <1>1, <2>1
  <1>18. QED
    BY <1>1, <1>3, <1>4, <1>6, <1>7, <1>8, <1>9, <1>10, <1>11, <1>12, <1>13, <1>14, <1>15,
       <1>16, <1>17
       DEF Next, WriteStep, ReadStep, StartStep, OwnerStep

(* A call that is over: its caller learns, and nobody else does.             *)
LEMMA LearnStep ==
  ASSUME WritesTyped, NEW w \in Writes, write[w] # "done", NEW verdict,
         write' = [write EXCEPT ![w] = "done"], told' = [told EXCEPT ![w] = verdict],
         UNCHANGED <<revision, missed, start, durable, reads>>,
         verdict \in {"refused", "failed", "cancelled"} => w \notin durable,
         verdict = "atCommit" /\ w \in Observed => w \notin durable,
         verdict = "stored" => w \in durable,
         verdict = "done" /\ w \in Observed => w \in durable
  PROVE  Promise!Next
  <1> DEFINE how == Heard(w)'
  <1>1. write'[w] = "done" /\ told'[w] = verdict
    BY DEF WritesTyped
  <1>2. how \in {"stored", "dropped", "unsaid"}
    BY <1>1 DEF Heard
  <1>3. /\ how = "stored" => w \in durable
        /\ how = "dropped" => w \notin durable
    BY <1>1 DEF Heard
  <1>4. \A v \in Writes : v # w => Heard(v)' = Heard(v)
    <2> SUFFICES ASSUME NEW v \in Writes, v # w PROVE Heard(v)' = Heard(v)
      OBVIOUS
    <2>1. write'[v] = write[v] /\ told'[v] = told[v]
      BY DEF WritesTyped
    <2>2. QED
      BY <2>1 DEF Heard
  <1>5. Heard(w) = "none"
    BY DEF Heard
  <1> HIDE DEF how
  <1>6. [v \in Writes |-> Heard(v)]' = [[v \in Writes |-> Heard(v)] EXCEPT ![w] = how]
    BY <1>4 DEF how
  <1>7. Promise!Learn(w, how)
    BY <1>3, <1>5, <1>6 DEF Promise!Learn, reads, Opening
  <1>8. QED
    BY <1>2, <1>7 DEF Promise!Next

(* What a write does before it is over its caller does not hear of.          *)
LEMMA Unheard ==
  ASSUME NEW w \in Writes, write[w] # "done", write'[w] # "done",
         \A v \in Writes \ {w} : write'[v] = write[v] /\ told'[v] = told[v]
  PROVE  [v \in Writes |-> Heard(v)]' = [v \in Writes |-> Heard(v)]
  <1>1. Heard(w) = "none" /\ Heard(w)' = "none"
    BY DEF Heard
  <1>2. ASSUME NEW v \in Writes \ {w} PROVE Heard(v)' = Heard(v)
    BY <1>2 DEF Heard
  <1>3. QED
    BY <1>1, <1>2

(* A snapshot is answered from the cache as it is by then. *)
LEMMA AnswerStep ==
  ASSUME TypeOK, Backed, NEW r \in Reads, read[r] \in Reading, ~answer[r].fresh,
         state # "closed",
         NEW seen \in Nat, asked[r] <= seen \/ revision <= seen + missed,
         cache <= seen, seen <= revision, Answered(r, seen), Finish(r),
         UNCHANGED <<revision, missed, start, asked, writes>>
  PROVE  Promise!Next
  <1>1. /\ seen \in 0 .. revision /\ cache \in Nat
        /\ \A q \in Reads : answer[q].revision \in Nat
    BY DEF TypeOK
  <1>2. \A q \in Reads : answer[q].fresh => answer[q].revision <= seen
    BY <1>1 DEF Backed
  <1>3. r \in {q \in Reads : read[q] # "uncalled"}
    BY DEF Reading
  <1>4. UNCHANGED {q \in Reads : read[q] # "uncalled"}
    BY DEF Finish, Reading, TypeOK
  <1>5. UNCHANGED [w \in Writes |-> Heard(w)]
    BY DEF writes, Heard
  <1>6. Promise!Answer(r)
    BY <1>1, <1>2, <1>3, <1>4, <1>5 DEF Promise!Answer, Answered, Opening, writes
  <1>7. QED
    BY <1>6 DEF Promise!Next

LEMMA PromiseStep ==
  ASSUME StoreInv, FreshInv, Backed, Next
  PROVE  [Promise!Next]_(Promise!promise)
  <1>t. WritesTyped /\ ReadsTyped /\ FileTyped /\ CachingTyped /\ AnswersTyped /\ TypeOK
    BY TypeParts DEF StoreInv
  <1>o. Observed \subseteq Writes
    BY DEF Observed, Writes
  <1>s. \A w \in Writes :
          /\ w \in durable => write[w] \in {"committed", "done"}
          /\ write[w] = "rollback" => told[w] \in {"failed", "cancelled", "atCommit"}
          /\ w \in Observed /\ write[w] = "committed" => w \in durable
    BY DEF StoreInv, Settled
  (* Nothing that a caller could see. *)
  <1>q. ASSUME UNCHANGED <<revision, missed, start, durable, asked, answer>>,
               UNCHANGED [w \in Writes |-> Heard(w)],
               UNCHANGED {r \in Reads : read[r] # "uncalled"}
        PROVE  UNCHANGED Promise!promise
    BY <1>q DEF Promise!promise, Opening
  <1>w. ASSUME UNCHANGED writes PROVE UNCHANGED [w \in Writes |-> Heard(w)]
    BY <1>w DEF writes, Heard
  <1>r. ASSUME UNCHANGED reads
        PROVE  UNCHANGED <<asked, answer>> /\ UNCHANGED {r \in Reads : read[r] # "uncalled"}
    BY <1>r DEF reads
  <1>1. ASSUME UNCHANGED <<revision, missed, start, writes, reads>> PROVE UNCHANGED Promise!promise
    BY <1>1, <1>q, <1>w, <1>r DEF writes
  (* The writes. *)
  <1>2. ASSUME NEW w \in Writes, NEW verdict \in {"refused", "failed", "cancelled"},
               write[w] \in {"lifecycle", "writer", "begin", "asleep"},
               write' = [write EXCEPT ![w] = "done"], told' = [told EXCEPT ![w] = verdict],
               UNCHANGED <<revision, missed, start, durable, reads>>
        PROVE  Promise!Next
    BY <1>t, <1>s, <1>2, LearnStep
  <1>3. ASSUME NEW w \in Writes, write[w] # "done", NEW phase, phase # "done",
               write' = [write EXCEPT ![w] = phase],
               NEW verdict, told' \in {told, [told EXCEPT ![w] = verdict]},
               UNCHANGED <<revision, missed, start, durable, reads>>
        PROVE  UNCHANGED Promise!promise
    <2>0. /\ write'[w] # "done"
          /\ \A v \in Writes \ {w} : write'[v] = write[v] /\ told'[v] = told[v]
      BY <1>t, <1>3 DEF WritesTyped
    <2>1. UNCHANGED [v \in Writes |-> Heard(v)]
      BY <1>3, <2>0, Unheard
    <2>2. UNCHANGED <<revision, missed, start, durable, asked, answer>>
          /\ UNCHANGED {r \in Reads : read[r] # "uncalled"}
      BY <1>3, <1>r
    <2>3. QED
      BY <1>q, <2>1, <2>2
  <1>4. ASSUME NEW w \in Writes, AskWriter(w) PROVE [Promise!Next]_(Promise!promise)
    <2>1. write[w] = "lifecycle" /\ UNCHANGED <<revision, missed, start, durable, reads>>
      BY <1>4 DEF AskWriter, file, ends
    <2>2. \/ LeaveEarly(w, "cancelled") \/ LeaveEarly(w, "refused")
          \/ write' = [write EXCEPT ![w] = "writer"] /\ UNCHANGED told
      BY <1>4 DEF AskWriter
    <2>3. QED
      BY <1>2, <1>3, <2>1, <2>2 DEF LeaveEarly
  <1>5. ASSUME NEW w \in Writes, TakeWriter(w) PROVE [Promise!Next]_(Promise!promise)
    <2>1. write[w] = "writer" /\ UNCHANGED <<revision, missed, start, durable, reads>>
      BY <1>5 DEF TakeWriter, file, ends
    <2>2. \/ LeaveEarly(w, "cancelled")
          \/ write' = [write EXCEPT ![w] = "begin"] /\ UNCHANGED told
      BY <1>5 DEF TakeWriter
    <2>3. QED
      BY <1>2, <1>3, <2>1, <2>2 DEF LeaveEarly
  <1>6. ASSUME NEW w \in Writes, FindBusy(w) \/ GiveUp(w) \/ WakeUp(w)
        PROVE  [Promise!Next]_(Promise!promise)
    <2>1. write[w] \in {"begin", "asleep"} /\ UNCHANGED <<revision, missed, start, durable, reads>>
      BY <1>6 DEF FindBusy, GiveUp, WakeUp, file, ends
    <2>2. \/ Leave(w, "cancelled") \/ Leave(w, "failed")
          \/ write' = [write EXCEPT ![w] = "asleep"] /\ UNCHANGED told
          \/ write' = [write EXCEPT ![w] = "begin"] /\ UNCHANGED told
      BY <1>6 DEF FindBusy, GiveUp, WakeUp
    <2>3. QED
      BY <1>2, <1>3, <2>1, <2>2 DEF Leave
  <1>7. ASSUME NEW w \in Writes, CallWrite(w) \/ Begin(w) \/ Work(w) \/ FailCommit(w)
        PROVE  [Promise!Next]_(Promise!promise)
    <2>1. write[w] \in {"uncalled", "begin", "work", "commit"}
          /\ UNCHANGED <<revision, missed, start, durable, reads>>
      BY <1>7 DEF CallWrite, Begin, Work, FailCommit, Undo, file, ends
    <2>2. \/ \E phase \in {"lifecycle", "work", "commit"} :
               write' = [write EXCEPT ![w] = phase] /\ UNCHANGED told
          \/ \E verdict \in Verdicts : Undo(w, verdict)
      BY <1>7 DEF CallWrite, Begin, Work, FailCommit, Verdicts
    <2>3. QED
      BY <1>3, <2>1, <2>2 DEF Undo
  <1>8. ASSUME NEW w \in Writes, Commit(w) PROVE [Promise!Next]_(Promise!promise)
    <2>1. /\ write[w] = "commit" /\ write' = [write EXCEPT ![w] = "committed"]
          /\ UNCHANGED <<told, reads, start>>
      BY <1>8 DEF Commit, ends
    <2>2. UNCHANGED [v \in Writes |-> Heard(v)]
      <3>1. /\ write[w] # "done" /\ write'[w] # "done"
            /\ \A v \in Writes \ {w} : write'[v] = write[v] /\ told'[v] = told[v]
        BY <1>t, <2>1 DEF WritesTyped
      <3>2. QED
        BY <3>1, Unheard
    <2>3. Heard(w) = "none" /\ w \notin durable
      BY <1>s, <2>1 DEF Heard
    <2>4. CASE effect[w] = "nothing"
      BY <1>8, <1>q, <1>r, <2>1, <2>2, <2>4 DEF Commit, After
    <2>5. CASE effect[w] # "nothing"
      <3>1. /\ durable' = durable \cup {w} /\ revision' \in {revision, revision + 1}
            /\ missed' = 0
        BY <1>8, <2>5 DEF Commit, After
      <3>2. start # "read"
        BY <2>1 DEF StoreInv, Staged, InTransaction
      <3>3. Opening # "now" /\ UNCHANGED Opening
        BY <2>1, <3>2 DEF Opening
      <3>4. Promise!Store(w)
        BY <1>r, <2>1, <2>2, <2>3, <3>1, <3>3 DEF Promise!Store
      <3>5. QED
        BY <3>4 DEF Promise!Next
    <2>6. QED
      BY <2>4, <2>5
  <1>9. ASSUME NEW w \in Writes, Rollback(w) PROVE [Promise!Next]_(Promise!promise)
    <2>1. write[w] = "rollback" /\ UNCHANGED <<revision, missed, start, durable, reads>>
      BY <1>9 DEF Rollback, ends
    <2>2. w \notin durable /\ told[w] \in {"failed", "cancelled", "atCommit"}
      BY <1>s, <2>1
    <2>3. Leave(w, told[w])
      BY <1>9 DEF Rollback
    <2>4. QED
      BY <1>t, <2>1, <2>2, <2>3, LearnStep DEF Leave
  <1>10. ASSUME NEW w \in Writes, CommitReturns(w) PROVE [Promise!Next]_(Promise!promise)
    <2>1. write[w] = "committed" /\ UNCHANGED <<revision, missed, start, durable, reads>>
      BY <1>10 DEF CommitReturns, file, ends
    <2>2. /\ CommitVerdict(w) \in {"done", "stored", "atCommit"}
          /\ CommitVerdict(w) = "stored" => w \in Observed
          /\ CommitVerdict(w) = "atCommit" => w \notin Observed
      BY DEF CommitVerdict
    <2>3. Leave(w, CommitVerdict(w))
      BY <1>10 DEF CommitReturns
    <2>4. QED
      BY <1>t, <1>s, <2>1, <2>2, <2>3, LearnStep DEF Leave
  (* The snapshots. *)
  <1>11. ASSUME NEW r \in Reads, CallRead(r) PROVE [Promise!Next]_(Promise!promise)
    <2>1. /\ read[r] = "uncalled" /\ read' = [read EXCEPT ![r] = "lifecycle"]
          /\ asked' = [asked EXCEPT ![r] = revision]
          /\ UNCHANGED <<revision, missed, start, writes, answer>>
      BY <1>11 DEF CallRead, file, ends
    <2>2. {q \in Reads : read[q] # "uncalled"}' = {q \in Reads : read[q] # "uncalled"} \cup {r}
      BY <1>t, <2>1 DEF ReadsTyped
    <2>3. Promise!Ask(r)
      BY <1>w, <2>1, <2>2 DEF Promise!Ask, Opening, writes
    <2>4. QED
      BY <2>3 DEF Promise!Next
  <1>12. ASSUME NEW r \in Reads, NEW phase, phase # "uncalled", read[r] # "uncalled",
                read' = [read EXCEPT ![r] = phase],
                UNCHANGED <<revision, missed, start, writes, asked, answer>>
         PROVE  UNCHANGED Promise!promise
    <2>1. UNCHANGED {q \in Reads : read[q] # "uncalled"}
      BY <1>t, <1>12 DEF ReadsTyped
    <2>2. QED
      BY <1>12, <1>q, <1>w, <2>1 DEF writes
  <1>13. ASSUME NEW r \in Reads,
                AskReader(r) \/ TakeReader(r) \/ FailRead(r) \/ SeeChanged(r) \/ ReadState(r)
         PROVE  [Promise!Next]_(Promise!promise)
    <2>1. read[r] # "uncalled" /\ UNCHANGED <<revision, missed, start, writes, asked, answer>>
      BY <1>13 DEF AskReader, TakeReader, FailRead, SeeChanged, ReadState, file, ends
    <2>2. \E phase \in {"done", "reader", "version", "read", "publish"} :
            read' = [read EXCEPT ![r] = phase]
      BY <1>13 DEF AskReader, TakeReader, FailRead, SeeChanged, ReadState, Finish
    <2>3. QED
      BY <1>12, <2>1, <2>2
  <1>14. \A r \in Reads : read[r] \in Reading => state # "closed" /\ ~answer[r].fresh
    BY DEF StoreInv, Staged, FreshInv, Answering, Reading
  <1>15. ASSUME NEW r \in Reads, SeeUnchanged(r) PROVE [Promise!Next]_(Promise!promise)
    <2>1. /\ read[r] \in Reading /\ Finish(r) /\ Answered(r, cache)
          /\ UNCHANGED <<revision, missed, start, asked, writes>>
      BY <1>15 DEF SeeUnchanged, Reading, file, ends
    <2>2. revision <= cache + missed
      BY <1>15, <2>1 DEF SeeUnchanged, FreshInv, Versioned
    <2>3. cache \in Nat /\ cache <= cache /\ cache <= revision
      BY <1>t, <2>2 DEF Backed, CachingTyped, ReadsTyped, FileTyped
    <2>4. QED
      BY <1>t, <1>14, <2>1, <2>2, <2>3, AnswerStep
  <1>16. ASSUME NEW r \in Reads, Publish(r) PROVE [Promise!Next]_(Promise!promise)
    <2>1. /\ read[r] \in Reading /\ read[r] = "publish" /\ Finish(r)
          /\ UNCHANGED <<revision, missed, start, asked, writes>>
      BY <1>16 DEF Publish, Reading, file, ends
    <2>2. held[r] \in Nat /\ asked[r] \in Nat /\ asked[r] <= held[r] /\ held[r] <= revision
      BY <1>t, <2>1 DEF FreshInv, Versioned, ReadsTyped
    <2>3. CASE Answered(r, Published(held[r]))
      <3>1. /\ Published(held[r]) \in Nat /\ cache <= Published(held[r])
            /\ Published(held[r]) <= revision
        BY <1>t, <2>2, PublishedBound DEF Backed, CachingTyped, FileTyped
      <3>2. Published(held[r]) >= held[r]
        BY <1>t, <2>2, PublishedFacts DEF CachingTyped
      <3>3. asked[r] <= Published(held[r])
        BY <2>2, <3>1, <3>2
      <3>4. QED
        BY <1>t, <1>14, <2>1, <2>3, <3>1, <3>3, AnswerStep
    <2>4. CASE UNCHANGED answer
      BY <1>12, <2>1, <2>4 DEF Finish
    <2>5. QED
      BY <1>16, <2>3, <2>4 DEF Publish
  (* The rest. *)
  <1>17. CASE ForeignEnd
    <2>1. UNCHANGED <<writes, reads, start>>
      BY <1>17 DEF ForeignEnd, ends
    <2>2. CASE UNCHANGED <<revision, version, missed>>
      BY <1>1, <2>1, <2>2
    <2>3. CASE /\ revision' = revision + 1
               /\ missed' = IF start = "read" THEN missed + 1 ELSE 0
      <3>1. UNCHANGED Opening /\ (start = "read" <=> Opening = "now")
        BY <2>1 DEF Opening
      <3>2. Promise!StoreForeign
        BY <1>w, <1>r, <2>1, <2>3, <3>1 DEF Promise!StoreForeign, writes
      <3>3. QED
        BY <3>2 DEF Promise!Next
    <2>4. QED
      BY <1>17, <2>2, <2>3 DEF ForeignEnd
  <1>18. ASSUME NEW c \in Closers, CallClose(c) \/ CloseReturns(c)
         PROVE  UNCHANGED Promise!promise
    BY <1>1, <1>18 DEF CallClose, CloseReturns, file
  <1>19. CASE CallStart \/ StartStep
    <2>1. UNCHANGED <<revision, missed, writes, reads>>
      BY <1>19 DEF CallStart, StartStep, StartRefused, StartOpens, StartReads, StartEnds,
         StartFails, file
    <2>2. \/ start = "uncalled" /\ start' = "lifecycle"
          \/ start = "lifecycle" /\ start' \in {"open", "done"}
          \/ start = "open" /\ start' \in {"read", "done"}
          \/ start = "read" /\ start' = "done"
      BY <1>19 DEF CallStart, StartStep, StartRefused, StartOpens, StartReads, StartEnds,
         StartFails
    <2>3. CASE UNCHANGED Opening
      BY <1>w, <1>r, <2>1, <2>3 DEF Promise!promise, writes
    <2>4. CASE \/ Opening = "ahead" /\ Opening' \in {"now", "over"}
               \/ Opening = "now" /\ Opening' = "over"
      <3>1. Promise!Open
        BY <1>w, <1>r, <2>1, <2>4 DEF Promise!Open, writes
      <3>2. QED
        BY <3>1 DEF Promise!Next
    <2>5. QED
      BY <2>2, <2>3, <2>4 DEF Opening
  <1>20. CASE OwnerStep \/ CancelCall \/ ForeignBegin
    <2>1. UNCHANGED <<revision, missed, start, writes, reads>>
      BY <1>20 DEF OwnerStep, OwnerAsks, OwnerClosing, OwnerHasReader,
         OwnerClosesReader, OwnerEnds, CancelCall, ForeignBegin, file, ends
    <2>2. QED
      BY <1>1, <2>1
  <1>21. QED
    BY <1>4, <1>5, <1>6, <1>7, <1>8, <1>9, <1>10, <1>11, <1>13, <1>15, <1>16, <1>17, <1>18,
       <1>19, <1>20
       DEF Next, WriteStep, ReadStep

(* The store is a register of revisions: what a caller is told of its write  *)
(* is the truth and stays so, and a fresh snapshot is of a moment after its  *)
(* call and never older than one answered before. Only what another process  *)
(* commits between the two reads of the start may be missing from it, until  *)
(* the next commit of either.                                                *)
THEOREM ImplementsPromise == Spec => PromiseKept
  <1> DEFINE Inv == StoreInv /\ FreshInv /\ Backed
  <1>1. Init => Inv
    <2>1. Init => Backed
      BY DEF Init, Backed, Unasked
    <2>2. QED
      BY <2>1, StoreInit
  <1>2. Inv /\ [Next]_vars => Inv'
    <2>1. ASSUME Inv, UNCHANGED vars PROVE Backed'
      BY <2>1 DEF Backed, vars, caching, file, reads, ends
    <2>2. ASSUME Inv, Next PROVE Backed'
      BY <2>2, BackedStep DEF StoreInv, FreshInv
    <2>3. QED
      BY <2>1, <2>2, StoreStep, FreshInvStep
  <1>3. Init => Promise!Init
    BY DEF Init, Promise!Init, Heard, Unasked, Opening
  <1>4. Inv /\ [Next]_vars => [Promise!Next]_(Promise!promise)
    <2>1. ASSUME Inv, UNCHANGED vars PROVE UNCHANGED Promise!promise
      BY <2>1 DEF vars, file, writes, reads, ends, Promise!promise, Heard, Opening
    <2>2. QED
      BY <2>1, PromiseStep
  <1>5. QED
    BY <1>1, <1>2, <1>3, <1>4, PTL DEF Spec, PromiseKept, Promise!Spec

-----------------------------------------------------------------------------
(* That nobody is stuck: each lock's queue is exactly those who need it.     *)

LifecycleUse == Once(lifecycle) /\ \A p \in Lockers : Queued(lifecycle, p) <=> NeedsLifecycle(p)
ReaderUse == Once(reader) /\ \A p \in Lockers : Queued(reader, p) <=> NeedsReader(p)
WriterUse == Once(writer) /\ \A p \in Lockers : Queued(writer, p) <=> NeedsWriter(p)

(* The file is ours while, and only while, a transaction of ours is open. *)
FileUse == owns = "us" <=> \E w \in Writes : write[w] \in {"work", "commit", "rollback"}

LEMMA LifecycleUseStep ==
  ASSUME TypeOK, Locked, Staged, LifecycleUse, Next
  PROVE  LifecycleUse'
  <1>t. LocksTyped
    BY TypeParts
  (* Three ways to treat the queue. *)
  <1>j. ASSUME NEW e \in Lockers, ~NeedsLifecycle(e), lifecycle' = Append(lifecycle, e),
               \A p \in Lockers : NeedsLifecycle(p)' <=> NeedsLifecycle(p) \/ p = e
        PROVE  LifecycleUse'
    <2>1. ~Queued(lifecycle, e) /\ Once(lifecycle)
      BY <1>j DEF LifecycleUse
    <2>2. /\ Once(lifecycle')
          /\ \A p : Queued(lifecycle', p) <=> Queued(lifecycle, p) \/ p = e
      BY <1>t, <1>j, <2>1, JoinQueue DEF LocksTyped
    <2>3. QED
      BY <1>j, <2>2 DEF LifecycleUse
  <1>l. ASSUME NEW e \in Lockers, Holds(lifecycle, e), lifecycle' = Tail(lifecycle),
               \A p \in Lockers : NeedsLifecycle(p)' <=> NeedsLifecycle(p) /\ p # e
        PROVE  LifecycleUse'
    <2>1. /\ Once(lifecycle')
          /\ \A p : Queued(lifecycle', p) <=> Queued(lifecycle, p) /\ p # e
      BY <1>t, <1>l, LeaveQueue DEF LocksTyped, LifecycleUse, Holds
    <2>2. QED
      BY <1>l, <2>1 DEF LifecycleUse
  <1>u. ASSUME UNCHANGED lifecycle,
               \A p \in Lockers : NeedsLifecycle(p)' <=> NeedsLifecycle(p)
        PROVE  LifecycleUse'
    BY <1>u DEF LifecycleUse
  <1>0. ASSUME UNCHANGED <<lifecycle, write, read, start, owner>> PROVE LifecycleUse'
    BY <1>u, <1>0 DEF NeedsLifecycle
  <1> USE LockersDistinct, Phased
  <1>1. ASSUME NEW w \in Writes, CallWrite(w) PROVE LifecycleUse'
    <2>1. ~NeedsLifecycle(w) /\ \A p \in Lockers : NeedsLifecycle(p)' <=> NeedsLifecycle(p) \/ p = w
      BY <1>1 DEF CallWrite, reads, ends, NeedsLifecycle
    <2>2. QED
      BY <1>1, <1>j, <2>1 DEF CallWrite
  <1>2. ASSUME NEW w \in Writes, AskWriter(w) \/ TakeWriter(w) PROVE LifecycleUse'
    <2>1. Holds(lifecycle, w) /\ UNCHANGED <<read, start, owner>>
          /\ write[w] \in {"lifecycle", "writer"}
      BY <1>2 DEF AskWriter, TakeWriter, reads, ends
    <2>2. CASE write' = [write EXCEPT ![w] = "writer"] /\ UNCHANGED lifecycle
      BY <1>u, <2>1, <2>2 DEF NeedsLifecycle
    <2>3. CASE /\ lifecycle' = Tail(lifecycle)
               /\ write' \in {[write EXCEPT ![w] = "begin"], [write EXCEPT ![w] = "done"]}
      <3>1. \A p \in Lockers : NeedsLifecycle(p)' <=> NeedsLifecycle(p) /\ p # w
        BY <2>1, <2>3 DEF NeedsLifecycle
      <3>2. QED
        BY <1>l, <2>1, <2>3, <3>1
    <2>4. QED
      BY <1>2, <2>2, <2>3 DEF AskWriter, TakeWriter, LeaveEarly
  <1>3. ASSUME NEW w \in Writes,
               Begin(w) \/ FindBusy(w) \/ GiveUp(w) \/ WakeUp(w) \/ Work(w) \/ Commit(w)
               \/ FailCommit(w) \/ Rollback(w) \/ CommitReturns(w)
        PROVE  LifecycleUse'
    <2>1. /\ UNCHANGED <<lifecycle, read, start, owner>>
          /\ write[w] \notin {"lifecycle", "writer"}
          /\ \E phase \in WritePhases \ {"lifecycle", "writer"} :
               write' = [write EXCEPT ![w] = phase]
      BY <1>3 DEF Begin, FindBusy, GiveUp, WakeUp, Work, Commit, FailCommit, Rollback,
         CommitReturns, Leave, Undo, WritePhases, locks, reads, ends
    <2>2. QED
      BY <1>u, <2>1 DEF NeedsLifecycle
  <1>4. ASSUME NEW r \in Reads, CallRead(r) PROVE LifecycleUse'
    <2>1. ~NeedsLifecycle(r) /\ \A p \in Lockers : NeedsLifecycle(p)' <=> NeedsLifecycle(p) \/ p = r
      BY <1>4 DEF CallRead, writes, ends, NeedsLifecycle
    <2>2. QED
      BY <1>4, <1>j, <2>1 DEF CallRead
  <1>5. ASSUME NEW r \in Reads, AskReader(r) \/ TakeReader(r) PROVE LifecycleUse'
    <2>1. Holds(lifecycle, r) /\ UNCHANGED <<write, start, owner>>
          /\ read[r] \in {"lifecycle", "reader"}
      BY <1>5 DEF AskReader, TakeReader, writes, ends
    <2>2. CASE read' = [read EXCEPT ![r] = "reader"] /\ UNCHANGED lifecycle
      BY <1>u, <2>1, <2>2 DEF NeedsLifecycle
    <2>3. CASE /\ lifecycle' = Tail(lifecycle)
               /\ read' \in {[read EXCEPT ![r] = "version"], [read EXCEPT ![r] = "done"]}
      <3>1. \A p \in Lockers : NeedsLifecycle(p)' <=> NeedsLifecycle(p) /\ p # r
        BY <2>1, <2>3 DEF NeedsLifecycle
      <3>2. QED
        BY <1>l, <2>1, <2>3, <3>1
    <2>4. QED
      BY <1>5, <2>2, <2>3 DEF AskReader, TakeReader, Finish
  <1>6. ASSUME NEW r \in Reads,
               FailRead(r) \/ SeeUnchanged(r) \/ SeeChanged(r) \/ ReadState(r) \/ Publish(r)
        PROVE  LifecycleUse'
    <2>1. /\ UNCHANGED <<lifecycle, write, start, owner>>
          /\ read[r] \notin {"lifecycle", "reader"}
          /\ \E phase \in {"read", "publish", "done"} : read' = [read EXCEPT ![r] = phase]
      BY <1>6 DEF FailRead, SeeUnchanged, SeeChanged, ReadState, Publish, Finish, locks,
         writes, ends
    <2>2. QED
      BY <1>u, <2>1 DEF NeedsLifecycle
  <1>7. CASE CallStart
    <2>1. /\ ~NeedsLifecycle(Starter)
          /\ \A p \in Lockers : NeedsLifecycle(p)' <=> NeedsLifecycle(p) \/ p = Starter
      BY <1>7 DEF CallStart, writes, reads, NeedsLifecycle
    <2>2. QED
      BY <1>7, <1>j, <2>1 DEF CallStart
  <1>8. CASE StartRefused \/ StartEnds \/ StartFails
    <2>1. /\ Holds(lifecycle, Starter) /\ lifecycle' = Tail(lifecycle)
          /\ start' = "done" /\ UNCHANGED <<write, read, owner>>
      BY <1>8 DEF StartRefused, StartEnds, StartFails, writes, reads, Locked
    <2>2. \A p \in Lockers : NeedsLifecycle(p)' <=> NeedsLifecycle(p) /\ p # Starter
      BY <2>1 DEF NeedsLifecycle
    <2>3. QED
      BY <1>l, <2>1, <2>2
  <1>9. CASE StartOpens \/ StartReads
    <2>1. /\ UNCHANGED <<lifecycle, write, read, owner>>
          /\ start \in {"lifecycle", "open"} /\ start' \in {"open", "read"}
      BY <1>9 DEF StartOpens, StartReads, locks, writes, reads
    <2>2. QED
      BY <1>u, <2>1 DEF NeedsLifecycle
  <1>10. ASSUME NEW c \in Closers, CallClose(c) PROVE LifecycleUse'
    <2>1. UNCHANGED <<lifecycle, write, read, start>>
      BY <1>10 DEF CallClose, locks, writes, reads
    <2>2. owner' = owner \/ (owner' = "called" /\ owner = "none")
      BY <1>10 DEF CallClose, Staged
    <2>3. QED
      BY <1>u, <2>1, <2>2 DEF NeedsLifecycle
  <1>11. CASE OwnerAsks
    <2>1. /\ ~NeedsLifecycle(Owner)
          /\ \A p \in Lockers : NeedsLifecycle(p)' <=> NeedsLifecycle(p) \/ p = Owner
      BY <1>11 DEF OwnerAsks, writes, reads, NeedsLifecycle
    <2>2. QED
      BY <1>11, <1>j, <2>1 DEF OwnerAsks
  <1>12. CASE OwnerClosing \/ OwnerHasReader \/ OwnerClosesReader
    <2>1. /\ UNCHANGED <<lifecycle, write, read, start>>
          /\ owner \in {"lifecycle", "reader", "writer"}
          /\ owner' \in {"reader", "writer", "connections"}
      BY <1>12 DEF OwnerClosing, OwnerHasReader, OwnerClosesReader, locks, writes, reads
    <2>2. QED
      BY <1>u, <2>1 DEF NeedsLifecycle
  <1>13. CASE OwnerEnds
    <2>1. /\ Holds(lifecycle, Owner) /\ lifecycle' = Tail(lifecycle)
          /\ owner' = "done" /\ UNCHANGED <<write, read, start>>
      BY <1>13 DEF OwnerEnds, writes, reads, Locked
    <2>2. \A p \in Lockers : NeedsLifecycle(p)' <=> NeedsLifecycle(p) /\ p # Owner
      BY <2>1 DEF NeedsLifecycle
    <2>3. QED
      BY <1>l, <2>1, <2>2
  <1>14. ASSUME (\E c \in Closers : CloseReturns(c)) \/ CancelCall \/ ForeignBegin \/ ForeignEnd
         PROVE  LifecycleUse'
    BY <1>0, <1>14 DEF CloseReturns, CancelCall, ForeignBegin, ForeignEnd, locks, writes,
       reads, ends
  <1>15. QED
    BY <1>1, <1>2, <1>3, <1>4, <1>5, <1>6, <1>7, <1>8, <1>9, <1>10, <1>11, <1>12, <1>13, <1>14
       DEF Next, WriteStep, ReadStep, StartStep, OwnerStep

LEMMA ReaderUseStep ==
  ASSUME TypeOK, Locked, Staged, ReaderUse, Next
  PROVE  ReaderUse'
  <1>t. LocksTyped
    BY TypeParts
  <1>j. ASSUME NEW e \in Lockers, ~NeedsReader(e), reader' = Append(reader, e),
               \A p \in Lockers : NeedsReader(p)' <=> NeedsReader(p) \/ p = e
        PROVE  ReaderUse'
    <2>1. ~Queued(reader, e) /\ Once(reader)
      BY <1>j DEF ReaderUse
    <2>2. /\ Once(reader')
          /\ \A p : Queued(reader', p) <=> Queued(reader, p) \/ p = e
      BY <1>t, <1>j, <2>1, JoinQueue DEF LocksTyped
    <2>3. QED
      BY <1>j, <2>2 DEF ReaderUse
  <1>l. ASSUME NEW e \in Lockers, Holds(reader, e), reader' = Tail(reader),
               \A p \in Lockers : NeedsReader(p)' <=> NeedsReader(p) /\ p # e
        PROVE  ReaderUse'
    <2>1. /\ Once(reader')
          /\ \A p : Queued(reader', p) <=> Queued(reader, p) /\ p # e
      BY <1>t, <1>l, LeaveQueue DEF LocksTyped, ReaderUse, Holds
    <2>2. QED
      BY <1>l, <2>1 DEF ReaderUse
  <1>u. ASSUME UNCHANGED reader,
               \A p \in Lockers : NeedsReader(p)' <=> NeedsReader(p)
        PROVE  ReaderUse'
    BY <1>u DEF ReaderUse
  <1>0. ASSUME UNCHANGED <<reader, read, owner>> PROVE ReaderUse'
    BY <1>u, <1>0 DEF NeedsReader
  <1> USE LockersDistinct, Phased
  <1>1. ASSUME NEW w \in Writes, CallWrite(w) \/ WriteStep(w) PROVE ReaderUse'
    <2>1. UNCHANGED <<reader, read, owner>>
      BY <1>1 DEF CallWrite, WriteStep, AskWriter, TakeWriter, Begin, FindBusy, GiveUp,
         WakeUp, Work, Commit, FailCommit, Rollback, CommitReturns, locks, reads, ends
    <2>2. QED
      BY <1>0, <2>1
  <1>2. ASSUME NEW r \in Reads, AskReader(r) PROVE ReaderUse'
    <2>1. read[r] = "lifecycle" /\ UNCHANGED owner
      BY <1>2 DEF AskReader, ends
    <2>2. CASE read' = [read EXCEPT ![r] = "done"] /\ UNCHANGED reader
      BY <1>u, <2>1, <2>2 DEF NeedsReader
    <2>3. CASE read' = [read EXCEPT ![r] = "reader"] /\ reader' = Append(reader, r)
      <3>1. ~NeedsReader(r) /\ \A p \in Lockers : NeedsReader(p)' <=> NeedsReader(p) \/ p = r
        BY <2>1, <2>3 DEF NeedsReader
      <3>2. QED
        BY <1>j, <2>3, <3>1
    <2>4. QED
      BY <1>2, <2>2, <2>3 DEF AskReader
  <1>3. ASSUME NEW r \in Reads, CallRead(r) \/ SeeChanged(r) \/ ReadState(r)
               \/ (TakeReader(r) /\ ~Finish(r))
        PROVE  ReaderUse'
    <2>1. UNCHANGED <<reader, owner>>
      BY <1>3 DEF CallRead, SeeChanged, ReadState, TakeReader, locks, ends
    <2>2. \/ read[r] = "uncalled" /\ read' = [read EXCEPT ![r] = "lifecycle"]
          \/ /\ read[r] \in {"reader", "version", "read"}
             /\ \E phase \in {"version", "read", "publish"} : read' = [read EXCEPT ![r] = phase]
      BY <1>3 DEF CallRead, SeeChanged, ReadState, TakeReader
    <2>3. QED
      BY <1>u, <2>1, <2>2 DEF NeedsReader
  <1>4. ASSUME NEW r \in Reads,
               FailRead(r) \/ SeeUnchanged(r) \/ Publish(r) \/ (TakeReader(r) /\ Finish(r))
        PROVE  ReaderUse'
    <2>1. /\ Holds(reader, r) /\ reader' = Tail(reader) /\ UNCHANGED owner
          /\ read' = [read EXCEPT ![r] = "done"]
      BY <1>4 DEF FailRead, SeeUnchanged, Publish, TakeReader, Finish, Locked, Reading, ends
    <2>2. \A p \in Lockers : NeedsReader(p)' <=> NeedsReader(p) /\ p # r
      BY <2>1 DEF NeedsReader
    <2>3. QED
      BY <1>l, <2>1, <2>2
  <1>5. CASE CallStart \/ StartStep
    <2>1. UNCHANGED <<reader, read, owner>>
      BY <1>5 DEF CallStart, StartStep, StartRefused, StartOpens, StartReads, StartEnds,
         StartFails, locks, reads
    <2>2. QED
      BY <1>0, <2>1
  <1>6. ASSUME NEW c \in Closers, CallClose(c) PROVE ReaderUse'
    <2>1. UNCHANGED <<reader, read>>
      BY <1>6 DEF CallClose, locks, reads
    <2>2. owner' = owner \/ (owner' = "called" /\ owner = "none")
      BY <1>6 DEF CallClose, Staged
    <2>3. QED
      BY <1>u, <2>1, <2>2 DEF NeedsReader
  <1>7. CASE OwnerAsks \/ OwnerHasReader \/ OwnerClosesReader
    <2>1. UNCHANGED <<reader, read>>
      BY <1>7 DEF OwnerAsks, OwnerHasReader, OwnerClosesReader, locks, reads
    <2>2. \/ owner = "called" /\ owner' = "lifecycle"
          \/ owner \in {"reader", "writer"} /\ owner' \in {"writer", "connections"}
      BY <1>7 DEF OwnerAsks, OwnerHasReader, OwnerClosesReader
    <2>3. QED
      BY <1>u, <2>1, <2>2 DEF NeedsReader
  <1>8. CASE OwnerClosing
    <2>1. /\ ~NeedsReader(Owner)
          /\ \A p \in Lockers : NeedsReader(p)' <=> NeedsReader(p) \/ p = Owner
      BY <1>8 DEF OwnerClosing, reads, NeedsReader
    <2>2. QED
      BY <1>8, <1>j, <2>1 DEF OwnerClosing
  <1>9. CASE OwnerEnds
    <2>1. /\ Holds(reader, Owner) /\ reader' = Tail(reader)
          /\ owner' = "done" /\ UNCHANGED read
      BY <1>9 DEF OwnerEnds, reads, Locked
    <2>2. \A p \in Lockers : NeedsReader(p)' <=> NeedsReader(p) /\ p # Owner
      BY <2>1 DEF NeedsReader
    <2>3. QED
      BY <1>l, <2>1, <2>2
  <1>10. ASSUME (\E c \in Closers : CloseReturns(c)) \/ CancelCall \/ ForeignBegin \/ ForeignEnd
         PROVE  ReaderUse'
    BY <1>0, <1>10 DEF CloseReturns, CancelCall, ForeignBegin, ForeignEnd, locks, reads, ends
  <1>11. QED
    BY <1>1, <1>2, <1>3, <1>4, <1>5, <1>6, <1>7, <1>8, <1>9, <1>10
       DEF Next, ReadStep, OwnerStep

LEMMA WriterUseStep ==
  ASSUME TypeOK, Locked, Staged, WriterUse, Next
  PROVE  WriterUse'
  <1>t. LocksTyped
    BY TypeParts
  <1>j. ASSUME NEW e \in Lockers, ~NeedsWriter(e), writer' = Append(writer, e),
               \A p \in Lockers : NeedsWriter(p)' <=> NeedsWriter(p) \/ p = e
        PROVE  WriterUse'
    <2>1. ~Queued(writer, e) /\ Once(writer)
      BY <1>j DEF WriterUse
    <2>2. /\ Once(writer')
          /\ \A p : Queued(writer', p) <=> Queued(writer, p) \/ p = e
      BY <1>t, <1>j, <2>1, JoinQueue DEF LocksTyped
    <2>3. QED
      BY <1>j, <2>2 DEF WriterUse
  <1>l. ASSUME NEW e \in Lockers, Holds(writer, e), writer' = Tail(writer),
               \A p \in Lockers : NeedsWriter(p)' <=> NeedsWriter(p) /\ p # e
        PROVE  WriterUse'
    <2>1. /\ Once(writer')
          /\ \A p : Queued(writer', p) <=> Queued(writer, p) /\ p # e
      BY <1>t, <1>l, LeaveQueue DEF LocksTyped, WriterUse, Holds
    <2>2. QED
      BY <1>l, <2>1 DEF WriterUse
  <1>u. ASSUME UNCHANGED writer,
               \A p \in Lockers : NeedsWriter(p)' <=> NeedsWriter(p)
        PROVE  WriterUse'
    BY <1>u DEF WriterUse
  <1>0. ASSUME UNCHANGED <<writer, write, owner>> PROVE WriterUse'
    BY <1>u, <1>0 DEF NeedsWriter
  <1> USE LockersDistinct, Phased
  <1>m. ASSUME NEW w \in Writes, write[w] \in {"writer"} \cup InTransaction, Holds(writer, w),
               write' = [write EXCEPT ![w] = "done"], writer' = Tail(writer), UNCHANGED owner
        PROVE  WriterUse'
    <2>1. \A p \in Lockers : NeedsWriter(p)' <=> NeedsWriter(p) /\ p # w
      BY <1>m DEF NeedsWriter, InTransaction
    <2>2. QED
      BY <1>l, <1>m, <2>1
  <1>k. ASSUME NEW w \in Writes, write[w] \in {"writer"} \cup InTransaction,
               NEW phase \in InTransaction,
               write' = [write EXCEPT ![w] = phase], UNCHANGED <<writer, owner>>
        PROVE  WriterUse'
    BY <1>u, <1>k DEF NeedsWriter, InTransaction
  <1>1. ASSUME NEW w \in Writes, CallWrite(w) PROVE WriterUse'
    <2>1. /\ write[w] = "uncalled" /\ write' = [write EXCEPT ![w] = "lifecycle"]
          /\ UNCHANGED <<writer, owner>>
      BY <1>1 DEF CallWrite, ends
    <2>2. QED
      BY <1>u, <2>1 DEF NeedsWriter, InTransaction
  <1>2. ASSUME NEW w \in Writes, AskWriter(w) PROVE WriterUse'
    <2>1. write[w] = "lifecycle" /\ UNCHANGED owner
      BY <1>2 DEF AskWriter, ends
    <2>2. CASE write' = [write EXCEPT ![w] = "done"] /\ UNCHANGED writer
      BY <1>u, <2>1, <2>2 DEF NeedsWriter, InTransaction
    <2>3. CASE write' = [write EXCEPT ![w] = "writer"] /\ writer' = Append(writer, w)
      <3>1. ~NeedsWriter(w) /\ \A p \in Lockers : NeedsWriter(p)' <=> NeedsWriter(p) \/ p = w
        BY <2>1, <2>3 DEF NeedsWriter, InTransaction
      <3>2. QED
        BY <1>j, <2>3, <3>1
    <2>4. QED
      BY <1>2, <2>2, <2>3 DEF AskWriter, LeaveEarly
  <1>3. ASSUME NEW w \in Writes, TakeWriter(w) PROVE WriterUse'
    <2>1. write[w] = "writer" /\ Holds(writer, w) /\ UNCHANGED owner
      BY <1>3 DEF TakeWriter, ends
    <2>2. \/ write' = [write EXCEPT ![w] = "done"] /\ writer' = Tail(writer)
          \/ write' = [write EXCEPT ![w] = "begin"] /\ UNCHANGED writer
      BY <1>3 DEF TakeWriter, LeaveEarly, GivenUp
    <2>3. QED
      BY <1>m, <1>k, <2>1, <2>2 DEF InTransaction
  <1>4. ASSUME NEW w \in Writes, FindBusy(w) \/ GiveUp(w) \/ WakeUp(w) PROVE WriterUse'
    <2>1. write[w] \in InTransaction /\ Holds(writer, w) /\ UNCHANGED owner
      BY <1>4 DEF FindBusy, GiveUp, WakeUp, InTransaction, Locked, ends
    <2>2. \/ write' = [write EXCEPT ![w] = "done"] /\ writer' = Tail(writer)
          \/ write' = [write EXCEPT ![w] = "asleep"] /\ UNCHANGED writer
          \/ write' = [write EXCEPT ![w] = "begin"] /\ UNCHANGED writer
      BY <1>4 DEF FindBusy, GiveUp, WakeUp, Leave
    <2>3. QED
      BY <1>m, <1>k, <2>1, <2>2 DEF InTransaction
  <1>5. ASSUME NEW w \in Writes, Begin(w) \/ Work(w) \/ Commit(w) \/ FailCommit(w)
        PROVE  WriterUse'
    <2>1. write[w] \in InTransaction /\ UNCHANGED <<writer, owner>>
      BY <1>5 DEF Begin, Work, Commit, FailCommit, InTransaction, locks, ends
    <2>2. \E phase \in InTransaction : write' = [write EXCEPT ![w] = phase]
      BY <1>5 DEF Begin, Work, Commit, FailCommit, Undo, InTransaction
    <2>3. QED
      BY <1>k, <2>1, <2>2
  <1>6. ASSUME NEW w \in Writes, Rollback(w) \/ CommitReturns(w) PROVE WriterUse'
    <2>1. /\ write[w] \in InTransaction /\ Holds(writer, w) /\ UNCHANGED owner
          /\ write' = [write EXCEPT ![w] = "done"] /\ writer' = Tail(writer)
      BY <1>6 DEF Rollback, CommitReturns, Leave, InTransaction, Locked, ends
    <2>2. QED
      BY <1>m, <2>1
  <1>7. ASSUME NEW r \in Reads, CallRead(r) \/ ReadStep(r) PROVE WriterUse'
    <2>1. UNCHANGED <<writer, write, owner>>
      BY <1>7 DEF CallRead, ReadStep, AskReader, TakeReader, FailRead, SeeUnchanged,
         SeeChanged, ReadState, Publish, locks, writes, ends
    <2>2. QED
      BY <1>0, <2>1
  <1>8. CASE CallStart \/ StartStep
    <2>1. UNCHANGED <<writer, write, owner>>
      BY <1>8 DEF CallStart, StartStep, StartRefused, StartOpens, StartReads, StartEnds,
         StartFails, locks, writes
    <2>2. QED
      BY <1>0, <2>1
  <1>9. ASSUME NEW c \in Closers, CallClose(c) PROVE WriterUse'
    <2>1. UNCHANGED <<writer, write>>
      BY <1>9 DEF CallClose, locks, writes
    <2>2. owner' = owner \/ (owner' = "called" /\ owner = "none")
      BY <1>9 DEF CallClose, Staged
    <2>3. QED
      BY <1>u, <2>1, <2>2 DEF NeedsWriter
  <1>10. CASE OwnerAsks \/ OwnerClosing \/ OwnerClosesReader
    <2>1. UNCHANGED <<writer, write>>
      BY <1>10 DEF OwnerAsks, OwnerClosing, OwnerClosesReader, locks, writes
    <2>2. \/ owner \in {"called", "lifecycle"} /\ owner' \in {"lifecycle", "reader"}
          \/ owner = "writer" /\ owner' = "connections"
      BY <1>10 DEF OwnerAsks, OwnerClosing, OwnerClosesReader
    <2>3. QED
      BY <1>u, <2>1, <2>2 DEF NeedsWriter
  <1>11. CASE OwnerHasReader
    <2>1. /\ ~NeedsWriter(Owner)
          /\ \A p \in Lockers : NeedsWriter(p)' <=> NeedsWriter(p) \/ p = Owner
      BY <1>11 DEF OwnerHasReader, writes, NeedsWriter
    <2>2. QED
      BY <1>11, <1>j, <2>1 DEF OwnerHasReader
  <1>12. CASE OwnerEnds
    <2>1. /\ Holds(writer, Owner) /\ writer' = Tail(writer)
          /\ owner' = "done" /\ UNCHANGED write
      BY <1>12 DEF OwnerEnds, writes, Locked
    <2>2. \A p \in Lockers : NeedsWriter(p)' <=> NeedsWriter(p) /\ p # Owner
      BY <2>1 DEF NeedsWriter
    <2>3. QED
      BY <1>l, <2>1, <2>2
  <1>13. ASSUME (\E c \in Closers : CloseReturns(c)) \/ CancelCall \/ ForeignBegin \/ ForeignEnd
         PROVE  WriterUse'
    BY <1>0, <1>13 DEF CloseReturns, CancelCall, ForeignBegin, ForeignEnd, locks, writes, ends
  <1>14. QED
    BY <1>1, <1>2, <1>3, <1>4, <1>5, <1>6, <1>7, <1>8, <1>9, <1>10, <1>11, <1>12, <1>13
       DEF Next, WriteStep, OwnerStep


LEMMA FileUseStep ==
  ASSUME TypeOK, Locked, FileUse, Next
  PROVE  FileUse'
  <1> DEFINE Phases == {"work", "commit", "rollback"}
  <1> USE Phased
  <1>a. ASSUME NEW v \in Writes, NEW w \in Writes, write[v] \in InTransaction,
               write[w] \in InTransaction
        PROVE  v = w
    BY <1>a, QueueFacts, LockersDistinct DEF Locked
  <1>0. ASSUME UNCHANGED <<write, owns>> PROVE FileUse'
    BY <1>0 DEF FileUse
  <1>1. ASSUME NEW w \in Writes, NEW phase,
               write[w] \notin Phases /\ phase \notin Phases,
               write' = [write EXCEPT ![w] = phase], UNCHANGED owns
        PROVE  FileUse'
    <2>1. \A v \in Writes : write'[v] \in Phases <=> write[v] \in Phases
      BY <1>1
    <2>2. QED
      BY <1>1, <2>1 DEF FileUse
  <1>2. ASSUME NEW w \in Writes, NEW phase \in Phases,
               write' = [write EXCEPT ![w] = phase], owns' = "us"
        PROVE  FileUse'
    <2>1. write'[w] \in Phases
      BY <1>2
    <2>2. QED
      BY <1>2, <2>1 DEF FileUse
  <1>3. ASSUME NEW w \in Writes, write[w] \in Phases, NEW phase, phase \notin Phases,
               write' = [write EXCEPT ![w] = phase], owns' = "nobody"
        PROVE  FileUse'
    <2>1. \A v \in Writes : write'[v] \notin Phases
      BY <1>a, <1>3 DEF InTransaction
    <2>2. QED
      BY <1>3, <2>1 DEF FileUse
  <1>4. ASSUME NEW w \in Writes, CallWrite(w) \/ AskWriter(w) \/ TakeWriter(w) PROVE FileUse'
    <2>1. UNCHANGED owns /\ write[w] \notin Phases
      BY <1>4 DEF CallWrite, AskWriter, TakeWriter, file
    <2>2. \E phase \in {"lifecycle", "writer", "begin", "done"} :
            write' = [write EXCEPT ![w] = phase]
      BY <1>4 DEF CallWrite, AskWriter, TakeWriter, LeaveEarly
    <2>3. QED
      BY <1>1, <2>1, <2>2
  <1>5. ASSUME NEW w \in Writes, FindBusy(w) \/ GiveUp(w) \/ WakeUp(w) \/ CommitReturns(w)
        PROVE  FileUse'
    <2>1. UNCHANGED owns /\ write[w] \notin Phases
      BY <1>5 DEF FindBusy, GiveUp, WakeUp, CommitReturns, file
    <2>2. \E phase \in {"asleep", "begin", "done"} : write' = [write EXCEPT ![w] = phase]
      BY <1>5 DEF FindBusy, GiveUp, WakeUp, CommitReturns, Leave
    <2>3. QED
      BY <1>1, <2>1, <2>2
  <1>6. ASSUME NEW w \in Writes, Begin(w) \/ Work(w) \/ FailCommit(w) PROVE FileUse'
    <2>1. owns' = "us"
      BY <1>6 DEF Begin, Work, FailCommit, file, FileUse
    <2>2. \E phase \in Phases : write' = [write EXCEPT ![w] = phase]
      BY <1>6 DEF Begin, Work, FailCommit, Undo
    <2>3. QED
      BY <1>2, <2>1, <2>2
  <1>7. ASSUME NEW w \in Writes, Commit(w) \/ Rollback(w) PROVE FileUse'
    <2>1. owns' = "nobody" /\ write[w] \in Phases
      BY <1>7 DEF Commit, Rollback
    <2>2. \E phase \in {"committed", "done"} : write' = [write EXCEPT ![w] = phase]
      BY <1>7 DEF Commit, Rollback, Leave
    <2>3. QED
      BY <1>3, <2>1, <2>2
  <1>8. ASSUME NEW r \in Reads, CallRead(r) \/ ReadStep(r) PROVE FileUse'
    <2>1. UNCHANGED <<write, owns>>
      BY <1>8 DEF CallRead, ReadStep, AskReader, TakeReader, FailRead, SeeUnchanged,
         SeeChanged, ReadState, Publish, writes, file
    <2>2. QED
      BY <1>0, <2>1
  <1>9. CASE CallStart \/ StartStep
    BY <1>0, <1>9 DEF CallStart, StartStep, StartRefused, StartOpens, StartReads, StartEnds,
       StartFails, writes, file
  <1>10. ASSUME (\E c \in Closers : CallClose(c) \/ CloseReturns(c)) \/ OwnerStep
         PROVE  FileUse'
    BY <1>0, <1>10 DEF CallClose, CloseReturns, OwnerStep, OwnerAsks, OwnerClosing,
       OwnerHasReader, OwnerClosesReader, OwnerEnds, writes, file
  <1>11. CASE CancelCall \/ ForeignBegin \/ ForeignEnd
    <2>1. UNCHANGED write
      BY <1>11 DEF CancelCall, ForeignBegin, ForeignEnd, writes
    <2>2. owns' = owns \/ {owns, owns'} \subseteq {"nobody", "them"}
      BY <1>11 DEF CancelCall, ForeignBegin, ForeignEnd, file
    <2>3. owns' = "us" <=> owns = "us"
      BY <2>2
    <2>4. QED
      BY <2>1, <2>3 DEF FileUse
  <1>12. QED
    BY <1>4, <1>5, <1>6, <1>7, <1>8, <1>9, <1>10, <1>11 DEF Next, WriteStep

(* Who queues at which lock, and whose the file is. *)
QueueInv == LifecycleUse /\ ReaderUse /\ WriterUse /\ FileUse

LEMMA QueueInit ==
  ASSUME Init
  PROVE  QueueInv
  <1> USE DEF Init, Queued, Once, NeedsLifecycle, NeedsReader, NeedsWriter, InTransaction
  <1>1. LifecycleUse
    BY DEF LifecycleUse
  <1>2. ReaderUse
    BY DEF ReaderUse
  <1>3. WriterUse
    BY DEF WriterUse
  <1>4. FileUse
    BY DEF FileUse
  <1>5. QED
    BY <1>1, <1>2, <1>3, <1>4 DEF QueueInv

LEMMA QueueStep ==
  ASSUME StoreInv, QueueInv, [Next]_vars
  PROVE  QueueInv'
  <1>1. CASE Next
    BY <1>1, LifecycleUseStep, ReaderUseStep, WriterUseStep, FileUseStep
       DEF StoreInv, QueueInv
  <1>2. CASE UNCHANGED vars
    BY <1>2 DEF QueueInv, LifecycleUse, ReaderUse, WriterUse, FileUse, Queued, Once,
       NeedsLifecycle, NeedsReader, NeedsWriter, vars, locks, file, writes, reads, ends
  <1>3. QED
    BY <1>1, <1>2

(* Whoever heads the last lock in the order lifecycle, reader, writer that   *)
(* anybody is queued at can move.                                            *)
LEMMA SomebodyMoves ==
  ASSUME TypeOK, Locked, QueueInv
  PROVE  NobodyStuck
  <1> SUFFICES ASSUME NEW p \in Lockers,
                      NeedsLifecycle(p) \/ NeedsReader(p) \/ NeedsWriter(p)
               PROVE  \E o \in Lockers : Moves(o)
    BY DEF NobodyStuck
  <1>t. LocksTyped
    BY TypeParts
  <1>1. CASE \E o \in Lockers : NeedsWriter(o)
    <2>1. PICK o \in Lockers : Holds(writer, o)
      BY <1>1, <1>t, HeadQueued DEF LocksTyped, Holds, QueueInv, WriterUse
    <2>2. NeedsWriter(o)
      BY <1>t, <2>1, HeadQueued DEF LocksTyped, Holds, QueueInv, WriterUse
    <2>3. ASSUME o \in Writes, write[o] = "begin", owns = "us" PROVE FALSE
      <3>1. PICK w \in Writes : write[w] \in {"work", "commit", "rollback"}
        BY <2>3 DEF QueueInv, FileUse
      <3>2. Holds(writer, w) /\ w \in Lockers
        BY <3>1, LockersDistinct DEF Locked, InTransaction
      <3>3. w = o
        BY <2>1, <3>2, QueueFacts
      <3>4. QED
        BY <2>3, <3>1, <3>3
    <2>4. QED
      BY <2>1, <2>2, <2>3 DEF Moves
  <1>2. CASE (\A o \in Lockers : ~NeedsWriter(o)) /\ \E o \in Lockers : NeedsReader(o)
    <2>1. PICK o \in Lockers : Holds(reader, o)
      BY <1>2, <1>t, HeadQueued DEF LocksTyped, Holds, QueueInv, ReaderUse
    <2>2. NeedsReader(o)
      BY <1>t, <2>1, HeadQueued DEF LocksTyped, Holds, QueueInv, ReaderUse
    <2>3. ~(o \in Writes /\ write[o] = "begin")
      BY <1>2 DEF NeedsWriter, InTransaction
    <2>4. QED
      BY <1>2, <2>1, <2>2, <2>3 DEF Moves
  <1>3. CASE \A o \in Lockers : ~NeedsWriter(o) /\ ~NeedsReader(o)
    <2>1. PICK o \in Lockers : Holds(lifecycle, o)
      BY <1>3, <1>t, HeadQueued DEF LocksTyped, Holds, QueueInv, LifecycleUse
    <2>2. NeedsLifecycle(o)
      BY <1>t, <2>1, HeadQueued DEF LocksTyped, Holds, QueueInv, LifecycleUse
    <2>3. ~(o \in Writes /\ write[o] = "begin")
      BY <1>3 DEF NeedsWriter, InTransaction
    <2>4. QED
      BY <1>3, <2>1, <2>2, <2>3 DEF Moves
  <1>4. QED
    BY <1>1, <1>2, <1>3

(* However the calls, a start and a close overlap, and whoever was cancelled *)
(* on the way, somebody has reached the lock it last asked for: none is left *)
(* taken by a call that is gone, and no holders wait for one another.        *)
THEOREM NobodyIsStuck == Spec => []NobodyStuck
  <1>1. Init => StoreInv /\ QueueInv
    BY StoreInit, QueueInit
  <1>2. StoreInv /\ QueueInv /\ [Next]_vars => (StoreInv /\ QueueInv)'
    BY StoreStep, QueueStep
  <1>3. StoreInv /\ QueueInv => NobodyStuck
    BY SomebodyMoves DEF StoreInv
  <1>4. QED
    BY <1>1, <1>2, <1>3, PTL DEF Spec
=============================================================================
