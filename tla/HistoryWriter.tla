---------------------------- MODULE HistoryWriter ----------------------------
(***************************************************************************)
(* The history of finished requests: a bounded queue whose task appends    *)
(* each entry to a segment of the archive and then indexes it in SQLite,   *)
(* and a second queue whose task confirms what is to be archived           *)
(* (history/writer.py, history/archive.py).                                *)
(*                                                                         *)
(* A frame is one cell of a segment, and so is what a write cut short      *)
(* leaves there; a reference is a segment and an offset in it. All entries *)
(* are of one session and agent, whose segments nothing else touches. Each *)
(* statement on the index is a step of its own: the operations read a row  *)
(* and write it in separate transactions, on threads of their own.         *)
(***************************************************************************)
EXTENDS Naturals, Sequences

CONSTANTS
  Entries,      (* requests that finish: each has an id of its own             *)
  Calls,        (* calls of archive_entry, pin_entry and unpin_entry           *)
  Torn,         (* what a write cut short leaves                               *)
  End,          (* the end marker of a queue, None in the code                 *)
  QueueSize,    (* queue_size                                                  *)
  ShortWrites,  (* whether a write may be cut short and the process live on    *)
  MarksFail,    (* whether noting that an archive failed may fail itself       *)
  MaxRuns       (* bound: processes, one after the other                       *)

ASSUME HistoryAssumption ==
  /\ Torn \notin Entries /\ End \notin Entries
  /\ QueueSize \in Nat \ {0} /\ MaxRuns \in Nat
  /\ ShortWrites \in BOOLEAN /\ MarksFail \in BOOLEAN

References == [segment : Nat, offset : Nat]

NoReference == [segment |-> 0, offset |-> 0]

Rows == [state : {"absent", "active", "archiving", "archived", "archive_failed"},
         archived : BOOLEAN, pinned : BOOLEAN, reference : References]

Absent == [state |-> "absent", archived |-> FALSE, pinned |-> FALSE,
           reference |-> NoReference]

Operations == {"archive", "pin", "unpin"}

Idle == [phase |-> "idle", op |-> "archive", entry |-> End]

VARIABLES
  runs, up,         (* processes so far, and whether one runs                 *)
  closing,          (* how far close has got                                  *)
  jobs, archives,   (* _queue, _archive_queue                                 *)
  writer, job, placed,   (* the task of the first, its job and where that is  *)
  archiver, item,        (* the task of the second, and its entry             *)
  current,          (* _segments: the segment in use, and its size            *)
  file,             (* the segments                                           *)
  row,              (* the index                                              *)
  call,             (* the operations under way                               *)
  fate              (* each entry: what submit, and then its receipt, said    *)

tasks == <<jobs, archives, writer, job, placed, archiver, item>>
stored == <<current, file, row>>
vars == <<runs, up, closing, tasks, stored, call, fate>>

(* No segment is known in this process yet. *)
Unknown == [segment |-> 0, size |-> 0]

(* Mutant: one entry more than the queue is to hold. *)
RoomForOneMore(queue) == Len(queue) <= QueueSize

Room(queue) == Len(queue) < QueueSize

TypeOK ==
  /\ runs \in 0 .. MaxRuns /\ up \in BOOLEAN
  /\ closing \in {"no", "jobs", "writer", "archives", "archiver", "connection",
                  "failed", "done"}
  /\ jobs \in Seq(Entries \cup {End}) /\ Len(jobs) <= QueueSize
  /\ archives \in Seq(Entries \cup {End}) /\ Len(archives) <= QueueSize
  /\ writer \in {"idle", "append", "insert", "durable", "failed", "ended"}
  /\ job \in Entries \cup {End} /\ placed \in References
  /\ archiver \in {"idle", "select", "read", "update", "mark", "ended", "died"}
  /\ item \in Entries \cup {End}
  /\ current \in [segment : Nat, size : Nat]
  /\ file \in Seq(Seq(Entries \cup {Torn}))
  /\ row \in [Entries -> Rows]
  /\ call \in [Calls -> [phase : {"idle", "select", "update", "queue", "full", "done"},
                         op : Operations, entry : Entries \cup {End}]]
  /\ fate \in [Entries -> {"none", "accepted", "durable", "failed", "lost"}]

(* A process that has just started, over what is stored. *)
Fresh ==
  /\ closing' = "no" /\ jobs' = <<>> /\ archives' = <<>>
  /\ writer' = "idle" /\ job' = End /\ placed' = NoReference
  /\ archiver' = "idle" /\ item' = End
  /\ current' = Unknown

Init ==
  /\ runs = 0 /\ up = FALSE
  /\ closing = "no" /\ jobs = <<>> /\ archives = <<>>
  /\ writer = "idle" /\ job = End /\ placed = NoReference
  /\ archiver = "idle" /\ item = End
  /\ current = Unknown
  /\ file = <<>>
  /\ row = [e \in Entries |-> Absent]
  /\ call = [c \in Calls |-> Idle]
  /\ fate = [e \in Entries |-> "none"]

(* start *)
Start ==
  /\ ~up /\ runs < MaxRuns
  /\ up' = TRUE /\ runs' = runs + 1
  /\ Fresh
  /\ UNCHANGED <<file, row, call, fate>>

-----------------------------------------------------------------------------
(* Entries: submit_nowait, and the task that stores them                     *)

(* A writer that closes or whose queue is full rejects an entry, which then   *)
(* leaves nothing.                                                           *)
Submit(e) ==
  /\ up /\ fate[e] = "none" /\ closing = "no" /\ Room(jobs)
  /\ jobs' = Append(jobs, e)
  /\ fate' = [fate EXCEPT ![e] = "accepted"]
  /\ UNCHANGED <<runs, up, closing, archives, writer, job, placed, archiver, item,
                 stored, call>>

TakeJob ==
  /\ up /\ writer = "idle" /\ jobs # <<>>
  /\ jobs' = Tail(jobs)
  /\ \/ /\ Head(jobs) = End
        /\ writer' = "ended"
        /\ UNCHANGED job
     \/ /\ Head(jobs) # End
        /\ writer' = "append" /\ job' = Head(jobs)
  /\ UNCHANGED <<runs, up, closing, archives, placed, archiver, item, stored, call,
                 fate>>

(* _validated_segment_size: every frame of every segment can be read. *)
Restorable == \A n \in DOMAIN file : \A i \in DOMAIN file[n] : file[n][i] # Torn

(* Mutant: a segment found in the directory is taken for a new one. *)
KnownAfresh ==
  IF current # Unknown \/ file = <<>> THEN current
  ELSE [segment |-> Len(file), size |-> 0]

(* The segment in use: remembered, or found in the directory. *)
Known ==
  IF current # Unknown \/ file = <<>> THEN current
  ELSE [segment |-> Len(file), size |-> Len(file[Len(file)])]

(* _segment_for: the segment in use if the frame fits or it is empty, or else *)
(* the next; how long frames are is left open.                               *)
Places ==
  {p \in {Known, [segment |-> Known.segment + 1, size |-> 0]} :
     /\ p = Known => Known.segment # 0
     /\ p # Known => Known.segment = 0 \/ Known.size # 0}

(* The files with one cell more at the end of a place's segment. *)
Extended(p, cell) ==
  IF p.segment = Len(file) + 1 THEN Append(file, <<cell>>)
  ELSE [file EXCEPT ![p.segment] = Append(@, cell)]

Appendable == current # Unknown \/ Restorable

(* HistoryArchiveStore.append *)
AppendFrame ==
  /\ up /\ writer = "append" /\ Appendable
  /\ \E p \in Places :
       /\ placed' = [segment |-> p.segment, offset |-> p.size]
       /\ current' = [p EXCEPT !.size = @ + 1]
       /\ file' = Extended(p, job)
  /\ writer' = "insert"
  /\ UNCHANGED <<runs, up, closing, jobs, archives, job, archiver, item, row, call,
                 fate>>

(* The segments cannot be restored, or nothing could be written. *)
FailAppend ==
  /\ up /\ writer = "append"
  /\ writer' = "failed"
  /\ \/ ~Appendable /\ UNCHANGED current
     \/ Appendable /\ current' \in Places
  /\ UNCHANGED <<runs, up, closing, jobs, archives, job, placed, archiver, item,
                 file, row, call, fate>>

(* Part of the frame was written, and the size of the segment stays as it was. *)
CutShort ==
  /\ up /\ writer = "append" /\ ShortWrites /\ Appendable
  /\ \E p \in Places : current' = p /\ file' = Extended(p, Torn)
  /\ writer' = "failed"
  /\ UNCHANGED <<runs, up, closing, jobs, archives, job, placed, archiver, item,
                 row, call, fate>>

(* The row is inserted and committed. *)
Insert ==
  /\ up /\ writer = "insert"
  /\ row' = [row EXCEPT ![job] = [Absent EXCEPT !.state = "active", !.reference = placed]]
  /\ writer' = "durable"
  /\ UNCHANGED <<runs, up, closing, jobs, archives, job, placed, archiver, item,
                 current, file, call, fate>>

(* A failing statement or commit leaves nothing of the row. *)
FailInsert ==
  /\ up /\ writer = "insert"
  /\ writer' = "failed"
  /\ UNCHANGED <<runs, up, closing, jobs, archives, job, placed, archiver, item,
                 stored, call, fate>>

(* Mutant: a failure ends the task. *)
EndsOnFailure == IF writer = "failed" THEN "ended" ELSE "idle"

(* After its receipt the task goes on, whatever became of the job. *)
GoesOn == "idle"

Receipt ==
  /\ up /\ writer \in {"durable", "failed"}
  /\ fate' = [fate EXCEPT ![job] = writer]
  /\ writer' = GoesOn /\ job' = End /\ placed' = NoReference
  /\ UNCHANGED <<runs, up, closing, jobs, archives, archiver, item, stored, call>>

WriterStep ==
  \/ TakeJob \/ AppendFrame \/ FailAppend \/ CutShort \/ Insert \/ FailInsert
  \/ Receipt

-----------------------------------------------------------------------------
(* archive_entry, pin_entry and unpin_entry                                  *)

Over(c) == call' = [call EXCEPT ![c] = [Idle EXCEPT !.phase = "done"]]

(* A call on a writer that runs; any other raises and changes nothing. *)
Call(c, op, e) ==
  /\ up /\ closing = "no" /\ call[c].phase = "idle"
  /\ call' = [call EXCEPT ![c] = [phase |-> "select", op |-> op, entry |-> e]]
  /\ UNCHANGED <<runs, up, closing, tasks, stored, fate>>

(* The rows an operation has something to do to. *)
Applies(op, r) ==
  /\ r.state # "absent"
  /\ \/ op = "archive" /\ r.state # "archived" /\ ~r.archived /\ ~r.pinned
     \/ op = "pin" /\ ~r.pinned
     \/ op = "unpin" /\ r.pinned

(* What the row says before anything is written. *)
Select(c) ==
  /\ up /\ call[c].phase = "select"
  /\ IF Applies(call[c].op, row[call[c].entry])
     THEN call' = [call EXCEPT ![c].phase = "update"]
     ELSE Over(c)
  /\ UNCHANGED <<runs, up, closing, tasks, stored, fate>>

(* The row is written as the operation wants it, whatever it says by now. *)
Update(c) ==
  LET e == call[c].entry IN
  /\ up /\ call[c].phase = "update"
  /\ \/ /\ call[c].op = "archive"
        /\ row' = [row EXCEPT ![e].state = "archiving"]
        /\ call' = [call EXCEPT ![c].phase = "queue"]
     \/ /\ call[c].op # "archive"
        /\ row' = [row EXCEPT ![e].pinned = (call[c].op = "pin")]
        /\ Over(c)
  /\ UNCHANGED <<runs, up, closing, tasks, current, file, fate>>

(* Back on the loop, the entry is queued, though close may have been called. *)
Queue(c) ==
  /\ up /\ call[c].phase = "queue"
  /\ \/ /\ Room(archives)
        /\ archives' = Append(archives, call[c].entry)
        /\ Over(c)
     \/ /\ ~Room(archives)
        /\ call' = [call EXCEPT ![c].phase = "full"]
        /\ UNCHANGED archives
  /\ UNCHANGED <<runs, up, closing, jobs, writer, job, placed, archiver, item,
                 stored, fate>>

(* _mark_archive_failed: of an entry that is being archived, and no other. *)
Marked(e) ==
  IF row[e].state = "archiving" THEN [row EXCEPT ![e].state = "archive_failed"]
  ELSE row

MarkFull(c) ==
  /\ up /\ call[c].phase = "full"
  /\ row' = Marked(call[c].entry)
  /\ Over(c)
  /\ UNCHANGED <<runs, up, closing, tasks, current, file, fate>>

(* A statement fails, and the call with it. *)
FailCall(c) ==
  /\ up
  /\ \/ call[c].phase \in {"select", "update"}
     \/ call[c].phase = "full" /\ MarksFail
  /\ Over(c)
  /\ UNCHANGED <<runs, up, closing, tasks, stored, fate>>

(* The request is cancelled while its thread works: what that writes stays   *)
(* written, and nothing is queued.                                           *)
CancelCall(c) ==
  /\ up /\ call[c].phase = "queue"
  /\ Over(c)
  /\ UNCHANGED <<runs, up, closing, tasks, stored, fate>>

CallStep(c) ==
  \/ Select(c) \/ Update(c) \/ Queue(c) \/ MarkFull(c) \/ FailCall(c) \/ CancelCall(c)

-----------------------------------------------------------------------------
(* The task that confirms archives                                           *)

TakeItem ==
  /\ up /\ archiver = "idle" /\ archives # <<>>
  /\ archives' = Tail(archives)
  /\ \/ /\ Head(archives) = End
        /\ archiver' = "ended"
        /\ UNCHANGED item
     \/ /\ Head(archives) # End
        /\ archiver' = "select" /\ item' = Head(archives)
  /\ UNCHANGED <<runs, up, closing, jobs, writer, job, placed, stored, call, fate>>

ItemDone == archiver' = "idle" /\ item' = End

(* _complete_archive: only an entry that is still to be archived. *)
SelectItem ==
  /\ up /\ archiver = "select"
  /\ \/ row[item].state = "archiving" /\ archiver' = "read" /\ UNCHANGED item
     \/ row[item].state # "archiving" /\ ItemDone
     \/ archiver' = "mark" /\ UNCHANGED item
  /\ UNCHANGED <<runs, up, closing, jobs, archives, writer, job, placed, stored,
                 call, fate>>

(* The frame is where the reference says. *)
Readable(e) ==
  LET r == row[e].reference IN
  /\ r.segment \in DOMAIN file /\ r.offset + 1 \in DOMAIN file[r.segment]
  /\ file[r.segment][r.offset + 1] = e

(* Mutant: what the reference leads to is not compared with the entry. *)
Unchecked(e) == TRUE

Checked(e) == Readable(e)

(* HistoryArchiveStore.read, which may also fail on the file itself. *)
ReadItem ==
  /\ up /\ archiver = "read"
  /\ \/ Checked(item) /\ archiver' = "update"
     \/ archiver' = "mark"
  /\ UNCHANGED <<runs, up, closing, jobs, archives, writer, job, placed, item,
                 stored, call, fate>>

UpdateItem ==
  /\ up /\ archiver = "update"
  /\ \/ /\ row' = [row EXCEPT ![item].archived = TRUE, ![item].state = "archived"]
        /\ ItemDone
     \/ archiver' = "mark" /\ UNCHANGED <<row, item>>
  /\ UNCHANGED <<runs, up, closing, jobs, archives, writer, job, placed, current,
                 file, call, fate>>

(* Mutant: a failure is logged and not noted in the index. *)
Unmarked(e) == row

MarkedFailed(e) == Marked(e)

MarkItem ==
  /\ up /\ archiver = "mark"
  /\ row' = MarkedFailed(item)
  /\ ItemDone
  /\ UNCHANGED <<runs, up, closing, jobs, archives, writer, job, placed, current,
                 file, call, fate>>

(* The failure cannot be noted: that error ends the task. *)
MarkFails ==
  /\ up /\ archiver = "mark" /\ MarksFail
  /\ archiver' = "died" /\ item' = End
  /\ UNCHANGED <<runs, up, closing, jobs, archives, writer, job, placed, stored,
                 call, fate>>

ArchiverStep ==
  \/ TakeItem \/ SelectItem \/ ReadItem \/ UpdateItem \/ MarkItem \/ MarkFails

-----------------------------------------------------------------------------
(* close, and the end of the process                                         *)

Close ==
  /\ up /\ closing = "no"
  /\ closing' = "jobs"
  /\ UNCHANGED <<runs, up, tasks, stored, call, fate>>

(* The first queue is joined, and its end marker put. *)
JobsJoined ==
  /\ up /\ closing = "jobs" /\ jobs = <<>> /\ job = End
  /\ jobs' = Append(jobs, End)
  /\ closing' = "writer"
  /\ UNCHANGED <<runs, up, archives, writer, job, placed, archiver, item, stored,
                 call, fate>>

WriterEnded ==
  /\ up /\ closing = "writer" /\ writer = "ended"
  /\ closing' = "archives"
  /\ UNCHANGED <<runs, up, tasks, stored, call, fate>>

(* Joined once, the second queue may have new entries before its end marker. *)
ArchivesJoined ==
  /\ up /\ closing = "archives" /\ archives = <<>> /\ item = End
  /\ closing' = "archiver"
  /\ UNCHANGED <<runs, up, tasks, stored, call, fate>>

(* put waits for room. *)
MarkEnd ==
  /\ up /\ closing = "archiver" /\ Room(archives)
  /\ archives' = Append(archives, End)
  /\ closing' = "connection"
  /\ UNCHANGED <<runs, up, jobs, writer, job, placed, archiver, item, stored, call,
                 fate>>

(* The second task's end, or its error, which close raises in its turn. *)
ArchiverEnded ==
  /\ up /\ closing = "connection"
  /\ \/ archiver = "ended" /\ closing' = "done"
     \/ archiver = "died" /\ closing' = "failed"
  /\ UNCHANGED <<runs, up, tasks, stored, call, fate>>

CloseStep ==
  \/ JobsJoined \/ WriterEnded \/ ArchivesJoined \/ MarkEnd \/ ArchiverEnded

(* The process is gone, closed or killed; a kill may cut a write short. *)
Stop ==
  /\ up /\ up' = FALSE
  /\ Fresh
  /\ \/ UNCHANGED file
     \/ /\ writer = "append" /\ Appendable
        /\ file' \in {Extended(p, Torn) : p \in Places}
  /\ fate' = [e \in Entries |-> IF fate[e] = "accepted" THEN "lost" ELSE fate[e]]
  /\ call' = [c \in Calls |-> IF call[c].phase = "idle" THEN Idle
                              ELSE [Idle EXCEPT !.phase = "done"]]
  /\ UNCHANGED <<runs, row>>

-----------------------------------------------------------------------------
Next ==
  \/ Start
  \/ \E e \in Entries : Submit(e)
  \/ WriterStep
  \/ \E c \in Calls :
       (\E op \in Operations, e \in Entries : Call(c, op, e)) \/ CallStep(c)
  \/ ArchiverStep
  \/ Close \/ CloseStep
  \/ Stop

Spec == Init /\ [][Next]_vars

(* The tasks run on, the threads' statements return, and close goes through  *)
(* with what it has begun. Nobody has to submit, call, close or restart.     *)
Fairness ==
  /\ WF_vars(WriterStep) /\ WF_vars(ArchiverStep) /\ WF_vars(CloseStep)
  /\ \A c \in Calls : WF_vars(CallStep(c))

FairSpec == Spec /\ Fairness

-----------------------------------------------------------------------------
(* An entry whose receipt says durable is in the index, and whatever is in   *)
(* the index can be read back from the archive: after any failed write,      *)
(* roll-over, kill or restart, and whatever was appended since.              *)
DurableKept ==
  \A e \in Entries :
    /\ fate[e] = "durable" => row[e].state # "absent"
    /\ row[e].state # "absent" => Readable(e)

(* The segment an entry is in was cut short before the entry or in it.       *)
Damaged(e) ==
  LET r == row[e].reference IN
  /\ r.segment \in DOMAIN file
  /\ \E i \in DOMAIN file[r.segment] :
       i <= r.offset + 1 /\ file[r.segment][i] = Torn

(* A write cut short costs at most what the same process appends after it to *)
(* the same segment: an entry in the index that cannot be read back lies     *)
(* behind the torn frame, and neither what was stored before nor any other   *)
(* segment suffers, whatever fails and restarts since.                       *)
DamageConfined ==
  \A e \in Entries : row[e].state # "absent" => Readable(e) \/ Damaged(e)

(* An entry marked as archived can be read back: its frame was checked in a  *)
(* step before the one that marks it, and neither what is appended, torn or  *)
(* restarted between the two nor anything later takes that frame away.       *)
ArchivedReadable ==
  \A e \in Entries :
    row[e].archived \/ row[e].state = "archived" => Readable(e)

(* A close comes to its end: neither task is waited for in vain, whatever    *)
(* is queued late.                                                           *)
CloseEnds == closing = "jobs" ~> closing \in {"no", "failed", "done"}

(* An entry that was queued to be archived while the writer was open does    *)
(* not stay in that state, whether its frame can be read or not, and though  *)
(* close be called meanwhile.                                                *)
ArchivingSettles ==
  \A e \in Entries :
    closing = "no" /\ (\E i \in DOMAIN archives : archives[i] = e)
      ~> row[e].state # "archiving" \/ ~up

-----------------------------------------------------------------------------
(* What the submitters are promised, see HistoryPromise.                     *)

Promise ==
  INSTANCE HistoryPromise WITH
    said <- fate,
    kept <- {e \in Entries : row[e].state # "absent" /\ Readable(e)}

(* Each entry is kept once or not at all, its receipt comes and says which,  *)
(* and what is kept stays readable, while what failed or was lost never      *)
(* turns up later: through two queues, roll-over, failing writes, kills and  *)
(* restarts. For writes that are whole or nothing.                           *)
PromiseKept == Promise!FairSpec
=============================================================================
