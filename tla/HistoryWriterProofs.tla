------------------------- MODULE HistoryWriterProofs -------------------------
(***************************************************************************)
(* What HistoryWriter calls durable stays readable, for any entries, calls *)
(* and queues, and any number of processes.                                *)
(*                                                                         *)
(* The archive only grows, so a reference that is right once stays right;  *)
(* what has to be shown is that it is right when it is made, and that      *)
(* rests on the size a process remembers of the segment in use being the   *)
(* file's own (Sized). A write cut short breaks just that: the theorem on  *)
(* durability is for writes that are whole or nothing, and another says    *)
(* what is left of it when they are not.                                   *)
(***************************************************************************)
EXTENDS HistoryWriter, QueueLemmas, SequenceTheorems, TLAPS

Cells == Entries \cup {Torn}

Spots == [segment : Nat, size : Nat]

(* The last segment, or a new one after it. *)
InPlace(p) ==
  /\ p \in Spots
  /\ p.segment # 0 /\ p.segment \in {Len(file), Len(file) + 1}
  /\ p.segment = Len(file) + 1 => p.size = 0

Placed == current # Unknown => InPlace(current)

(* A place is where the file of its segment ends. *)
AtEnd(p) == p.segment \in DOMAIN file => p.size = Len(file[p.segment])

Sized == current # Unknown => AtEnd(current)

(* A cell of the archive. *)
At(r, e) ==
  /\ r.segment \in DOMAIN file /\ r.offset + 1 \in DOMAIN file[r.segment]
  /\ file[r.segment][r.offset + 1] = e

(* Whoever works has something to work on. *)
Occupied ==
  /\ writer \in {"append", "insert", "durable", "failed"} => job \in Entries
  /\ archiver \in {"select", "read", "update", "mark"} => item \in Entries
  /\ \A c \in Calls : call[c].phase \in {"select", "update", "queue", "full"} =>
       call[c].entry \in Entries

(* Who found a row in the index, or made one, will find it there again. *)
Indexed ==
  /\ writer = "durable" => row[job].state # "absent"
  /\ archiver \in {"read", "update"} => row[item].state # "absent"
  /\ \A c \in Calls : call[c].phase \in {"update", "queue", "full"} =>
       row[call[c].entry].state # "absent"

TypeInv == TypeOK /\ Placed /\ Occupied

-----------------------------------------------------------------------------
(* The types, by what an action changes together.                            *)

QueuesTyped ==
  /\ jobs \in Seq(Entries \cup {End}) /\ Len(jobs) <= QueueSize
  /\ archives \in Seq(Entries \cup {End}) /\ Len(archives) <= QueueSize

ProcessTyped ==
  /\ runs \in 0 .. MaxRuns /\ up \in BOOLEAN
  /\ closing \in {"no", "jobs", "writer", "archives", "archiver", "connection",
                  "failed", "done"}
  /\ archiver \in {"idle", "select", "read", "update", "mark", "ended", "died"}
  /\ item \in Entries \cup {End}

WriterTyped ==
  /\ writer \in {"idle", "append", "insert", "durable", "failed", "ended"}
  /\ job \in Entries \cup {End} /\ placed \in References
  /\ current \in Spots
  /\ fate \in [Entries -> {"none", "accepted", "durable", "failed", "lost"}]

CallsTyped ==
  call \in [Calls -> [phase : {"idle", "select", "update", "queue", "full", "done"},
                      op : Operations, entry : Entries \cup {End}]]

StoredTyped == file \in Seq(Seq(Cells)) /\ row \in [Entries -> Rows]

LEMMA TypeParts ==
  TypeOK <=> QueuesTyped /\ ProcessTyped /\ WriterTyped /\ CallsTyped /\ StoredTyped
  BY DEF TypeOK, QueuesTyped, ProcessTyped, WriterTyped, CallsTyped, StoredTyped,
         Cells, Spots

-----------------------------------------------------------------------------
(* Lemmas on the archive.                                                    *)

LEMMA KnownFacts ==
  ASSUME TypeOK, Placed
  PROVE  Known = Unknown \/ InPlace(Known)
  <1>1. file \in Seq(Seq(Cells)) /\ current \in Spots
    BY DEF TypeOK, Cells, Spots
  <1>2. CASE current # Unknown \/ file = <<>>
    BY <1>2 DEF Known, Placed
  <1>3. CASE ~(current # Unknown \/ file = <<>>)
    <2>1. Len(file) \in Nat /\ Len(file) # 0 /\ Len(file) \in DOMAIN file
      BY <1>1, <1>3
    <2>2. Known = [segment |-> Len(file), size |-> Len(file[Len(file)])]
      BY <1>3 DEF Known
    <2>3. file[Len(file)] \in Seq(Cells)
      BY <1>1, <2>1
    <2>4. Len(file[Len(file)]) \in Nat
      BY <2>3
    <2>5. QED
      BY <2>1, <2>2, <2>4 DEF InPlace, Spots
  <1>4. QED
    BY <1>2, <1>3

LEMMA KnownEmpty ==
  ASSUME TypeOK, Known = Unknown
  PROVE  file = <<>>
  <1>1. SUFFICES ASSUME file # <<>> PROVE FALSE
    OBVIOUS
  <1>2. file \in Seq(Seq(Cells))
    BY DEF TypeOK, Cells
  <1>3. Len(file) # 0
    BY <1>1, <1>2
  <1>4. Known = [segment |-> Len(file), size |-> Len(file[Len(file)])]
    BY <1>1 DEF Known
  <1>5. QED
    BY <1>3, <1>4 DEF Unknown

(* A frame is placed in the last segment or in a new one after it. *)
LEMMA PlaceFacts ==
  ASSUME TypeOK, Placed, NEW p \in Places
  PROVE  InPlace(p)
  <1>1. Len(file) \in Nat
    BY DEF TypeOK
  <1>2. Known = Unknown \/ InPlace(Known)
    BY KnownFacts
  <1>3. CASE p = Known
    <2>1. Known.segment # 0
      BY <1>3 DEF Places
    <2>2. QED
      BY <1>2, <1>3, <2>1 DEF Unknown
  <1>4. CASE p # Known
    <2>1. /\ p = [segment |-> Known.segment + 1, size |-> 0]
          /\ Known.segment = 0 \/ Known.size # 0
      BY <1>4 DEF Places
    <2>2. CASE Known = Unknown
      <3>1. file = <<>>
        BY <2>2, KnownEmpty DEF TypeOK
      <3>2. QED
        BY <2>1, <2>2, <3>1 DEF Unknown, InPlace, Spots
    <2>3. CASE InPlace(Known)
      <3>1. Known.segment \in Nat /\ Known.segment = Len(file)
        BY <1>1, <2>1, <2>3 DEF InPlace, Spots
      <3>2. QED
        BY <1>1, <2>1, <3>1 DEF InPlace, Spots
    <2>4. QED
      BY <1>2, <2>2, <2>3
  <1>5. QED
    BY <1>3, <1>4

(* It is placed where that segment ends, or where it is remembered to. *)
LEMMA PlaceCases ==
  ASSUME TypeOK, Placed, NEW p \in Places
  PROVE  (current # Unknown /\ p = current) \/ AtEnd(p)
  <1>1. file \in Seq(Seq(Cells)) /\ InPlace(p)
    BY PlaceFacts DEF TypeOK, Cells
  <1>2. CASE p = Known
    BY <1>2 DEF Known, AtEnd, Unknown
  <1>3. CASE p # Known
    <2>1. /\ p = [segment |-> Known.segment + 1, size |-> 0]
          /\ Known.segment = 0 \/ Known.size # 0
      BY <1>3 DEF Places
    <2>2. p.segment = Len(file) + 1
      <3>1. CASE Known = Unknown
        BY <2>1, <3>1, KnownEmpty DEF Unknown
      <3>2. CASE InPlace(Known)
        <4>1. Known.segment \in Nat /\ Known.segment = Len(file)
          BY <1>1, <2>1, <3>2 DEF InPlace, Spots
        <4>2. QED
          BY <2>1, <4>1
      <3>3. QED
        BY <3>1, <3>2, KnownFacts
    <2>3. p.segment \notin DOMAIN file
      BY <1>1, <2>2
    <2>4. QED
      BY <2>3 DEF AtEnd
  <1>4. QED
    BY <1>2, <1>3

LEMMA PlaceSized ==
  ASSUME TypeOK, Placed, Sized, NEW p \in Places
  PROVE  AtEnd(p)
  BY PlaceCases DEF Sized

(* A cell more at a place: the place's segment is then the last. *)
LEMMA ExtendedTyped ==
  ASSUME file \in Seq(Seq(Cells)), NEW p, InPlace(p), NEW cell \in Cells
  PROVE  Extended(p, cell) \in Seq(Seq(Cells)) /\ Len(Extended(p, cell)) = p.segment
  <1>1. p.segment \in Nat /\ Len(file) \in Nat
    BY DEF InPlace, Spots
  <1>2. CASE p.segment = Len(file) + 1
    <2>1. <<cell>> \in Seq(Cells)
      OBVIOUS
    <2>2. QED
      BY <1>1, <1>2, <2>1 DEF Extended
  <1>3. CASE p.segment # Len(file) + 1
    <2>1. p.segment = Len(file) /\ p.segment \in DOMAIN file
      BY <1>1, <1>3 DEF InPlace
    <2>2. file[p.segment] \in Seq(Cells)
      BY <2>1
    <2>3. Append(file[p.segment], cell) \in Seq(Cells)
      BY <2>2
    <2>4. Extended(p, cell) = [file EXCEPT ![p.segment] = Append(file[p.segment], cell)]
      BY <1>3 DEF Extended
    <2>5. QED
      BY <2>1, <2>3, <2>4
  <1>4. QED
    BY <1>2, <1>3

(* Every cell there was is still where it was. *)
LEMMA ExtendedKeeps ==
  ASSUME file \in Seq(Seq(Cells)), NEW p, InPlace(p), NEW cell \in Cells,
         NEW n \in DOMAIN file, NEW i \in DOMAIN file[n]
  PROVE  /\ n \in DOMAIN Extended(p, cell)
         /\ i \in DOMAIN Extended(p, cell)[n]
         /\ Extended(p, cell)[n][i] = file[n][i]
  <1>1. p.segment \in Nat /\ Len(file) \in Nat /\ file[n] \in Seq(Cells)
    BY DEF InPlace, Spots
  <1>2. CASE p.segment = Len(file) + 1
    BY <1>1, <1>2 DEF Extended
  <1>3. CASE p.segment # Len(file) + 1
    <2>1. p.segment = Len(file) /\ p.segment \in DOMAIN file
      BY <1>1, <1>3 DEF InPlace
    <2>2. Extended(p, cell) = [file EXCEPT ![p.segment] = Append(file[p.segment], cell)]
      BY <1>3 DEF Extended
    <2>3. CASE n = p.segment
      <3>1. Extended(p, cell)[n] = Append(file[n], cell)
        BY <2>1, <2>2, <2>3
      <3>2. n \in DOMAIN Extended(p, cell)
        BY <2>2
      <3>3. QED
        BY <1>1, <3>1, <3>2
    <2>4. CASE n # p.segment
      BY <2>2, <2>4
    <2>5. QED
      BY <2>3, <2>4
  <1>4. QED
    BY <1>2, <1>3

(* The new cell is where its place says. *)
LEMMA ExtendedAdds ==
  ASSUME file \in Seq(Seq(Cells)), NEW p, InPlace(p), AtEnd(p), NEW cell \in Cells
  PROVE  /\ p.segment \in DOMAIN Extended(p, cell)
         /\ Len(Extended(p, cell)[p.segment]) = p.size + 1
         /\ Extended(p, cell)[p.segment][p.size + 1] = cell
  <1>1. p.segment \in Nat /\ p.size \in Nat /\ Len(file) \in Nat
    BY DEF InPlace, Spots
  <1>2. CASE p.segment = Len(file) + 1
    <2>1. p.size = 0
      BY <1>2 DEF InPlace
    <2>2. Extended(p, cell) = Append(file, <<cell>>)
      BY <1>2 DEF Extended
    <2>3. Extended(p, cell)[p.segment] = <<cell>> /\ p.segment \in DOMAIN Extended(p, cell)
      BY <1>1, <1>2, <2>2
    <2>4. QED
      BY <2>1, <2>3
  <1>3. CASE p.segment # Len(file) + 1
    <2>1. p.segment = Len(file) /\ p.segment \in DOMAIN file
      BY <1>1, <1>3 DEF InPlace
    <2>2. Extended(p, cell) = [file EXCEPT ![p.segment] = Append(file[p.segment], cell)]
      BY <1>3 DEF Extended
    <2>3. /\ Extended(p, cell)[p.segment] = Append(file[p.segment], cell)
          /\ p.segment \in DOMAIN Extended(p, cell)
      BY <2>1, <2>2
    <2>4. p.size = Len(file[p.segment]) /\ file[p.segment] \in Seq(Cells)
      BY <2>1 DEF AtEnd
    <2>5. QED
      BY <2>3, <2>4
  <1>4. QED
    BY <1>2, <1>3

-----------------------------------------------------------------------------
(* What a step leaves of a growing archive.                                  *)

LEMMA StillAt ==
  ASSUME TypeOK, NEW p, InPlace(p), NEW cell \in Cells, file' = Extended(p, cell),
         NEW r, NEW e, At(r, e)
  PROVE  At(r, e)'
  <1>1. file \in Seq(Seq(Cells))
    BY DEF TypeOK, Cells
  <1>2. QED
    BY <1>1, ExtendedKeeps DEF At

-----------------------------------------------------------------------------
(* The type invariant.                                                       *)

LEMMA QueuesStep ==
  ASSUME TypeOK, Occupied, [Next]_vars
  PROVE  QueuesTyped'
  <1> USE HistoryAssumption DEF QueuesTyped
  <1>0. QueuesTyped /\ CallsTyped
    BY TypeParts
  <1>1. ASSUME NEW e \in Entries, Submit(e) PROVE QueuesTyped'
    BY <1>0, <1>1 DEF Submit, Room
  <1>2. CASE TakeJob
    BY <1>0, <1>2 DEF TakeJob
  <1>3. CASE JobsJoined
    BY <1>0, <1>3 DEF JobsJoined
  <1>4. CASE TakeItem
    BY <1>0, <1>4 DEF TakeItem
  <1>5. CASE MarkEnd
    BY <1>0, <1>5 DEF MarkEnd, Room
  <1>6. ASSUME NEW c \in Calls, Queue(c) PROVE QueuesTyped'
    <2>1. call[c].entry \in Entries
      BY <1>6 DEF Occupied, Queue
    <2>2. UNCHANGED jobs
      BY <1>6 DEF Queue
    <2>3. CASE Room(archives) /\ archives' = Append(archives, call[c].entry)
      <3>1. archives' \in Seq(Entries \cup {End}) /\ Len(archives') = Len(archives) + 1
        BY <1>0, <2>1, <2>3
      <3>2. QED
        BY <1>0, <2>2, <2>3, <3>1 DEF Room
    <2>4. CASE UNCHANGED archives
      BY <1>0, <2>2, <2>4
    <2>5. QED
      BY <1>6, <2>3, <2>4 DEF Queue
  <1>7. CASE Start \/ Stop
    <2>1. jobs' = <<>> /\ archives' = <<>>
      BY <1>7 DEF Start, Stop, Fresh
    <2>2. <<>> \in Seq(Entries \cup {End}) /\ Len(<<>>) <= QueueSize
      OBVIOUS
    <2>3. QED
      BY <2>1, <2>2
  <1>8. ASSUME UNCHANGED <<jobs, archives>> PROVE QueuesTyped'
    BY <1>0, <1>8
  <1>9. QED
    BY <1>1, <1>2, <1>3, <1>4, <1>5, <1>6, <1>7, <1>8
       DEF Next, WriterStep, CallStep, ArchiverStep, CloseStep, vars, tasks, stored,
       AppendFrame, FailAppend, CutShort, Insert, FailInsert, Receipt, Call, Select,
       Update, MarkFull, FailCall, CancelCall, SelectItem, ReadItem, UpdateItem,
       MarkItem, MarkFails, Close, WriterEnded, ArchivesJoined, ArchiverEnded

LEMMA ProcessStep ==
  ASSUME TypeOK, [Next]_vars
  PROVE  ProcessTyped'
  <1> USE HistoryAssumption DEF ProcessTyped
  <1>0. ProcessTyped /\ QueuesTyped
    BY TypeParts
  <1>1. CASE Start \/ Stop
    <2>1. runs' \in 0 .. MaxRuns
      BY <1>0, <1>1 DEF Start, Stop
    <2>2. up' \in BOOLEAN
      BY <1>1 DEF Start, Stop
    <2>3. closing' = "no" /\ archiver' = "idle" /\ item' = End
      BY <1>1 DEF Start, Stop, Fresh
    <2>4. QED
      BY <2>1, <2>2, <2>3
  <1>2. CASE TakeItem
    BY <1>0, <1>2 DEF TakeItem, QueuesTyped
  <1>3. CASE SelectItem \/ ReadItem \/ UpdateItem \/ MarkItem \/ MarkFails
    BY <1>0, <1>3 DEF SelectItem, ReadItem, UpdateItem, MarkItem, MarkFails, ItemDone
  <1>4. CASE Close \/ CloseStep
    BY <1>0, <1>4 DEF Close, CloseStep, JobsJoined, WriterEnded, ArchivesJoined,
       MarkEnd, ArchiverEnded, tasks
  <1>5. ASSUME UNCHANGED <<runs, up, closing, archiver, item>> PROVE ProcessTyped'
    BY <1>0, <1>5
  <1>6. QED
    BY <1>1, <1>2, <1>3, <1>4, <1>5
       DEF Next, WriterStep, CallStep, ArchiverStep, vars, tasks, stored,
       Submit, TakeJob, AppendFrame, FailAppend, CutShort, Insert, FailInsert,
       Receipt, Call, Select, Update, Queue, MarkFull, FailCall, CancelCall

LEMMA WriterStays ==
  ASSUME TypeOK, Placed, [Next]_vars
  PROVE  WriterTyped'
  <1> USE DEF WriterTyped
  <1>0. WriterTyped /\ QueuesTyped
    BY TypeParts
  <1>1. CASE Start \/ Stop
    BY <1>0, <1>1 DEF Start, Stop, Fresh, NoReference, References, Unknown, Spots
  <1>2. CASE TakeJob
    BY <1>0, <1>2 DEF TakeJob, QueuesTyped, stored
  <1>3. CASE AppendFrame
    <2>1. PICK p \in Places :
            /\ placed' = [segment |-> p.segment, offset |-> p.size]
            /\ current' = [p EXCEPT !.size = @ + 1]
      BY <1>3 DEF AppendFrame
    <2>2. p \in Spots
      BY PlaceFacts DEF InPlace
    <2>3. placed' \in References /\ current' \in Spots
      BY <2>1, <2>2 DEF References, Spots
    <2>4. QED
      BY <1>0, <1>3, <2>3 DEF AppendFrame
  <1>4. CASE FailAppend \/ CutShort
    <2>1. current' \in Spots
      BY <1>0, <1>4, PlaceFacts DEF FailAppend, CutShort, InPlace
    <2>2. QED
      BY <1>0, <1>4, <2>1 DEF FailAppend, CutShort
  <1>5. CASE Insert \/ FailInsert
    BY <1>0, <1>5 DEF Insert, FailInsert, stored
  <1>6. CASE Receipt
    BY <1>0, <1>6 DEF Receipt, GoesOn, NoReference, References, stored
  <1>7. ASSUME NEW e \in Entries, Submit(e) PROVE WriterTyped'
    BY <1>0, <1>7 DEF Submit, stored
  <1>8. ASSUME UNCHANGED <<writer, job, placed, current, fate>> PROVE WriterTyped'
    BY <1>0, <1>8
  <1>9. QED
    BY <1>1, <1>2, <1>3, <1>4, <1>5, <1>6, <1>7, <1>8
       DEF Next, WriterStep, CallStep, ArchiverStep, CloseStep, vars, tasks, stored,
       Call, Select, Update, Queue, MarkFull, FailCall, CancelCall, TakeItem,
       SelectItem, ReadItem, UpdateItem, MarkItem, MarkFails, Close, JobsJoined,
       WriterEnded, ArchivesJoined, MarkEnd, ArchiverEnded

LEMMA CallsStep ==
  ASSUME TypeOK, [Next]_vars
  PROVE  CallsTyped'
  <1> USE DEF CallsTyped
  <1>0. CallsTyped
    BY TypeParts
  <1>1. CASE Stop
    BY <1>0, <1>1 DEF Stop, Idle, Operations
  <1>2. ASSUME NEW c \in Calls, NEW op \in Operations, NEW e \in Entries, Call(c, op, e)
        PROVE  CallsTyped'
    BY <1>0, <1>2 DEF Call
  <1>3. ASSUME NEW c \in Calls, CallStep(c) PROVE CallsTyped'
    BY <1>0, <1>3 DEF CallStep, Select, Update, Queue, MarkFull, FailCall, CancelCall,
       Over, Idle, Operations
  <1>4. ASSUME UNCHANGED call PROVE CallsTyped'
    BY <1>0, <1>4
  <1>5. QED
    BY <1>1, <1>2, <1>3, <1>4
       DEF Next, WriterStep, ArchiverStep, CloseStep, vars, tasks, stored,
       Start, Submit, TakeJob, AppendFrame, FailAppend, CutShort, Insert,
       FailInsert, Receipt, TakeItem, SelectItem, ReadItem, UpdateItem, MarkItem,
       MarkFails, Close, JobsJoined, WriterEnded, ArchivesJoined, MarkEnd,
       ArchiverEnded

(* The index, of what may be done to it: a row is made, or a field written.  *)
LEMMA RowsTyped ==
  ASSUME TypeOK, NEW e \in Entries
  PROVE  /\ Marked(e) \in [Entries -> Rows]
         /\ [row EXCEPT ![e].state = "archiving"] \in [Entries -> Rows]
         /\ [row EXCEPT ![e].archived = TRUE, ![e].state = "archived"] \in [Entries -> Rows]
         /\ \A b \in BOOLEAN : [row EXCEPT ![e].pinned = b] \in [Entries -> Rows]
  <1>1. row \in [Entries -> Rows] /\ row[e] \in Rows
    BY DEF TypeOK
  <1>2. QED
    BY <1>1 DEF Marked, Rows

LEMMA StoredStep ==
  ASSUME TypeOK, Placed, Occupied, [Next]_vars
  PROVE  StoredTyped' /\ Placed'
  <1>0. /\ file \in Seq(Seq(Cells)) /\ row \in [Entries -> Rows] /\ Torn \in Cells
        /\ placed \in References
    BY DEF TypeOK, Cells
  <1>1. CASE AppendFrame
    <2>1. PICK p \in Places :
            current' = [p EXCEPT !.size = @ + 1] /\ file' = Extended(p, job)
      BY <1>1 DEF AppendFrame
    <2>2. InPlace(p) /\ p \in Spots /\ job \in Cells
      BY <1>1, PlaceFacts DEF InPlace, AppendFrame, Occupied, Cells
    <2>3. file' \in Seq(Seq(Cells)) /\ Len(file') = p.segment
      BY <1>0, <2>1, <2>2, ExtendedTyped
    <2>4. p.segment \in Nat /\ p.segment # 0 /\ p.size \in Nat
      BY <2>2 DEF InPlace, Spots
    <2>5. current' \in Spots /\ current'.segment = p.segment
      BY <2>1, <2>2 DEF Spots
    <2>6. InPlace(current)'
      BY <2>3, <2>4, <2>5 DEF InPlace
    <2>7. QED
      BY <1>0, <1>1, <2>3, <2>6 DEF AppendFrame, StoredTyped, Placed
  <1>2. CASE CutShort
    <2>1. PICK p \in Places : current' = p /\ file' = Extended(p, Torn)
      BY <1>2 DEF CutShort
    <2>2. InPlace(p) /\ p \in Spots
      BY PlaceFacts DEF InPlace
    <2>3. file' \in Seq(Seq(Cells)) /\ Len(file') = p.segment
      BY <1>0, <2>1, <2>2, ExtendedTyped
    <2>4. p.segment \in Nat /\ p.segment # 0
      BY <2>2 DEF InPlace, Spots
    <2>5. InPlace(current)'
      BY <2>1, <2>2, <2>3, <2>4 DEF InPlace
    <2>6. QED
      BY <1>0, <1>2, <2>3, <2>5 DEF CutShort, StoredTyped, Placed
  <1>3. CASE FailAppend
    <2>1. current' = current \/ InPlace(current')
      BY <1>3, PlaceFacts DEF FailAppend
    <2>2. file' = file /\ row' = row
      BY <1>3 DEF FailAppend
    <2>3. QED
      BY <1>0, <2>1, <2>2 DEF StoredTyped, Placed, InPlace
  <1>4. CASE Start
    BY <1>0, <1>4 DEF Start, Fresh, StoredTyped, Placed
  <1>5. CASE Stop
    <2>1. file' = file \/ \E p \in Places : file' = Extended(p, Torn)
      BY <1>5 DEF Stop
    <2>2. file' \in Seq(Seq(Cells))
      BY <1>0, <2>1, PlaceFacts, ExtendedTyped
    <2>3. QED
      BY <1>0, <1>5, <2>2 DEF Stop, Fresh, StoredTyped, Placed
  <1>6. ASSUME UNCHANGED <<file, current>>, row' \in [Entries -> Rows]
        PROVE  StoredTyped' /\ Placed'
    BY <1>0, <1>6 DEF StoredTyped, Placed, InPlace
  <1>7. CASE Insert
    <2>1. row' \in [Entries -> Rows]
      BY <1>0, <1>7 DEF Insert, Absent, Rows, NoReference
    <2>2. QED
      BY <1>6, <1>7, <2>1 DEF Insert
  <1>8. ASSUME NEW c \in Calls, Update(c) PROVE row' \in [Entries -> Rows]
    <2>1. call[c].entry \in Entries
      BY <1>8 DEF Update, Occupied
    <2>2. row' = [row EXCEPT ![call[c].entry].state = "archiving"]
          \/ \E b \in BOOLEAN : row' = [row EXCEPT ![call[c].entry].pinned = b]
      BY <1>8 DEF Update
    <2>3. CASE row' = [row EXCEPT ![call[c].entry].state = "archiving"]
      BY <2>1, <2>3, RowsTyped
    <2>4. ASSUME NEW b \in BOOLEAN, row' = [row EXCEPT ![call[c].entry].pinned = b]
          PROVE  row' \in [Entries -> Rows]
      <3>1. [row EXCEPT ![call[c].entry].pinned = b] \in [Entries -> Rows]
        BY <2>1, RowsTyped
      <3>2. QED
        BY <2>4, <3>1, Zenon
    <2>5. QED
      BY <2>2, <2>3, <2>4, Zenon
  <1>9. ASSUME NEW c \in Calls, MarkFull(c) PROVE row' \in [Entries -> Rows]
    BY <1>9, RowsTyped DEF MarkFull, Occupied
  <1>10. CASE UpdateItem
    <2>1. item \in Entries
      BY <1>10 DEF UpdateItem, Occupied
    <2>2. \/ row' = row
          \/ row' = [row EXCEPT ![item].archived = TRUE, ![item].state = "archived"]
      BY <1>10 DEF UpdateItem
    <2>3. row' \in [Entries -> Rows]
      BY <1>0, <2>1, <2>2, RowsTyped
    <2>4. QED
      BY <1>6, <1>10, <2>3 DEF UpdateItem
  <1>11. CASE MarkItem
    <2>1. row' \in [Entries -> Rows]
      BY <1>11, RowsTyped DEF MarkItem, MarkedFailed, Occupied
    <2>2. QED
      BY <1>6, <1>11, <2>1 DEF MarkItem
  <1>12. ASSUME NEW c \in Calls, Update(c) \/ MarkFull(c) PROVE StoredTyped' /\ Placed'
    BY <1>6, <1>8, <1>9, <1>12 DEF Update, MarkFull
  <1>13. ASSUME UNCHANGED stored PROVE StoredTyped' /\ Placed'
    BY <1>0, <1>6, <1>13 DEF stored
  <1>14. QED
    BY <1>1, <1>2, <1>3, <1>4, <1>5, <1>7, <1>10, <1>11, <1>12, <1>13
       DEF Next, WriterStep, CallStep, ArchiverStep, CloseStep, vars, tasks, stored,
       Submit, TakeJob, FailInsert, Receipt, Call, Select, Queue, FailCall,
       CancelCall, TakeItem, SelectItem, ReadItem, MarkFails, Close, JobsJoined,
       WriterEnded, ArchivesJoined, MarkEnd, ArchiverEnded

LEMMA OccupiedStep ==
  ASSUME TypeOK, Occupied, [Next]_vars
  PROVE  Occupied'
  <1> USE DEF Occupied
  <1>0. QueuesTyped /\ CallsTyped
    BY TypeParts
  <1>1. CASE Start
    BY <1>1 DEF Start, Fresh
  <1>2. CASE Stop
    BY <1>0, <1>2 DEF Stop, Fresh, Idle, CallsTyped
  <1>3. CASE TakeJob
    BY <1>0, <1>3 DEF TakeJob, QueuesTyped
  <1>4. CASE TakeItem
    BY <1>0, <1>4 DEF TakeItem, QueuesTyped
  <1>5. CASE AppendFrame \/ FailAppend \/ CutShort \/ Insert \/ FailInsert \/ Receipt
    BY <1>5 DEF AppendFrame, FailAppend, CutShort, Insert, FailInsert, Receipt, GoesOn
  <1>6. CASE SelectItem \/ ReadItem \/ UpdateItem \/ MarkItem \/ MarkFails
    BY <1>6 DEF SelectItem, ReadItem, UpdateItem, MarkItem, MarkFails, ItemDone
  <1>7. ASSUME NEW c \in Calls, NEW op \in Operations, NEW e \in Entries, Call(c, op, e)
        PROVE  Occupied'
    BY <1>0, <1>7 DEF Call, CallsTyped, tasks
  <1>8. ASSUME NEW c \in Calls, CallStep(c) PROVE Occupied'
    BY <1>0, <1>8 DEF CallStep, Select, Update, Queue, MarkFull, FailCall, CancelCall,
       Over, Idle, CallsTyped, tasks
  <1>9. ASSUME UNCHANGED <<writer, job, archiver, item, call>> PROVE Occupied'
    BY <1>9
  <1>10. QED
    BY <1>1, <1>2, <1>3, <1>4, <1>5, <1>6, <1>7, <1>8, <1>9
       DEF Next, WriterStep, ArchiverStep, CloseStep, vars, tasks, stored,
       Submit, Close, JobsJoined, WriterEnded, ArchivesJoined, MarkEnd,
       ArchiverEnded

LEMMA TypeInit == Init => TypeInv
  <1>1. ASSUME Init PROVE QueuesTyped /\ StoredTyped /\ CallsTyped
    BY <1>1, HistoryAssumption DEF Init, QueuesTyped, StoredTyped, CallsTyped, Idle,
       Operations, Rows, Absent, NoReference, References
  <1>2. ASSUME Init PROVE ProcessTyped
    <2>1. runs \in 0 .. MaxRuns /\ closing = "no" /\ archiver = "idle" /\ item = End
      BY <1>2, HistoryAssumption DEF Init
    <2>2. up \in BOOLEAN
      BY <1>2 DEF Init
    <2>3. QED
      BY <2>1, <2>2 DEF ProcessTyped
  <1>3. ASSUME Init PROVE WriterTyped /\ Placed /\ Occupied
    BY <1>3 DEF Init, WriterTyped, NoReference, References, Unknown, Spots, Placed,
       Occupied, Idle
  <1>4. QED
    BY <1>1, <1>2, <1>3, TypeParts DEF TypeInv

LEMMA TypeStep == TypeInv /\ [Next]_vars => TypeInv'
  <1> SUFFICES ASSUME TypeInv, [Next]_vars PROVE TypeInv'
    OBVIOUS
  <1>1. TypeOK /\ Placed /\ Occupied
    BY DEF TypeInv
  <1>2. /\ QueuesTyped' /\ ProcessTyped' /\ WriterTyped' /\ CallsTyped' /\ StoredTyped'
        /\ Placed' /\ Occupied'
    BY <1>1, QueuesStep, ProcessStep, WriterStays, CallsStep, StoredStep, OccupiedStep
  <1>3. TypeOK'
    BY <1>2 DEF TypeOK, QueuesTyped, ProcessTyped, WriterTyped, CallsTyped, StoredTyped,
       Cells, Spots
  <1>4. QED
    BY <1>2, <1>3 DEF TypeInv

-----------------------------------------------------------------------------
(* What is indexed stays indexed and readable.                               *)

(* A step leaves the row's reference, and the row in or out of the index.    *)
Steady(e) ==
  /\ row'[e].reference = row[e].reference
  /\ row'[e].state = "absent" <=> row[e].state = "absent"

LEMMA MarkedSteady ==
  ASSUME TypeOK, NEW e \in Entries, NEW marked \in Entries, row' = Marked(marked)
  PROVE  Steady(e)
  <1>1. row \in [Entries -> Rows] /\ row[marked] \in Rows
    BY DEF TypeOK
  <1>2. QED
    BY <1>1 DEF Marked, Rows, Steady

(* Only an insert gives a row a reference, and no statement takes a row out  *)
(* of the index or writes one that it is not in.                             *)
LEMMA IndexStep ==
  ASSUME TypeInv, Indexed, [Next]_vars, NEW e \in Entries
  PROVE  (Insert /\ e = job) \/ Steady(e)
  <1>0. TypeOK /\ Occupied /\ row \in [Entries -> Rows] /\ row[e] \in Rows
    BY DEF TypeInv, TypeOK
  <1>1. CASE Insert
    BY <1>0, <1>1 DEF Insert, Steady
  <1>2. ASSUME NEW c \in Calls, Update(c) PROVE Steady(e)
    <2>1. call[c].entry \in Entries /\ row[call[c].entry].state # "absent"
      BY <1>0, <1>2 DEF Update, Occupied, Indexed
    <2>2. CASE row' = [row EXCEPT ![call[c].entry].state = "archiving"]
      BY <1>0, <2>1, <2>2 DEF Steady, Rows
    <2>3. ASSUME NEW b, row' = [row EXCEPT ![call[c].entry].pinned = b]
          PROVE  Steady(e)
      BY <1>0, <2>1, <2>3 DEF Steady, Rows
    <2>4. QED
      BY <1>2, <2>2, <2>3 DEF Update
  <1>3. ASSUME NEW c \in Calls, MarkFull(c) PROVE Steady(e)
    BY <1>0, <1>3, MarkedSteady DEF MarkFull, Occupied
  <1>4. CASE UpdateItem
    <2>1. item \in Entries /\ row[item].state # "absent"
      BY <1>0, <1>4 DEF UpdateItem, Occupied, Indexed
    <2>2. QED
      BY <1>0, <1>4, <2>1 DEF UpdateItem, Steady, Rows
  <1>5. CASE MarkItem
    BY <1>0, <1>5, MarkedSteady DEF MarkItem, MarkedFailed, Occupied
  <1>6. ASSUME UNCHANGED row PROVE Steady(e)
    BY <1>6 DEF Steady
  <1>7. QED
    BY <1>1, <1>2, <1>3, <1>4, <1>5, <1>6
       DEF Next, WriterStep, CallStep, ArchiverStep, CloseStep, vars, tasks, stored,
       Start, Submit, TakeJob, AppendFrame, FailAppend, CutShort, FailInsert,
       Receipt, Call, Select, Queue, FailCall, CancelCall, TakeItem, SelectItem,
       ReadItem, MarkFails, Close, JobsJoined, WriterEnded, ArchivesJoined, MarkEnd,
       ArchiverEnded, Stop

LEMMA IndexedStep ==
  ASSUME TypeInv, Indexed, [Next]_vars
  PROVE  Indexed'
  <1>0. /\ TypeOK /\ Occupied /\ job \in Entries \cup {End} /\ item \in Entries \cup {End}
        /\ CallsTyped
    BY TypeParts DEF TypeInv, TypeOK
  <1>1. \A e \in Entries : row[e].state # "absent" => row'[e].state # "absent"
    <2> SUFFICES ASSUME NEW e \in Entries, row[e].state # "absent"
                 PROVE  row'[e].state # "absent"
      OBVIOUS
    <2>1. CASE Steady(e)
      BY <2>1 DEF Steady
    <2>2. CASE Insert /\ e = job
      BY <1>0, <2>2 DEF Insert, Absent, TypeOK
    <2>3. QED
      BY <2>1, <2>2, IndexStep
  <1> USE DEF Indexed
  <1>2. CASE Start
    BY <1>2 DEF Start, Fresh
  <1>3. CASE Stop
    BY <1>0, <1>3 DEF Stop, Fresh, Idle, CallsTyped
  <1>4. CASE Insert
    <2>1. job \in Entries /\ row' = [row EXCEPT ![job] =
            [Absent EXCEPT !.state = "active", !.reference = placed]]
      BY <1>0, <1>4 DEF Insert, Occupied
    <2>2. row'[job].state # "absent"
      BY <1>0, <2>1 DEF Absent, TypeOK
    <2>3. QED
      BY <1>0, <1>1, <1>4, <2>2 DEF Insert, Occupied
  <1>5. CASE TakeJob \/ AppendFrame \/ FailAppend \/ CutShort \/ FailInsert \/ Receipt
    BY <1>0, <1>1, <1>5 DEF TakeJob, AppendFrame, FailAppend, CutShort, FailInsert,
       Receipt, GoesOn, Occupied, stored
  <1>6. CASE TakeItem \/ SelectItem \/ ReadItem \/ UpdateItem \/ MarkItem \/ MarkFails
    BY <1>0, <1>1, <1>6 DEF TakeItem, SelectItem, ReadItem, UpdateItem, MarkItem,
       MarkFails, ItemDone, Occupied, stored
  <1>7. ASSUME NEW c \in Calls, NEW op \in Operations, NEW e \in Entries, Call(c, op, e)
        PROVE  Indexed'
    BY <1>0, <1>7 DEF Call, CallsTyped, tasks, stored
  <1>8. ASSUME NEW c \in Calls, CallStep(c) PROVE Indexed'
    <2>1. writer' = writer /\ job' = job /\ archiver' = archiver /\ item' = item
      BY <1>8 DEF CallStep, Select, Update, Queue, MarkFull, FailCall, CancelCall, tasks
    <2>2. \A k \in Calls : call'[k].phase \in {"update", "queue", "full"} =>
            /\ call'[k].entry = call[k].entry /\ call[k].entry \in Entries
            /\ row[call[k].entry].state # "absent"
      BY <1>0, <1>8 DEF CallStep, Select, Update, Queue, MarkFull, FailCall,
         CancelCall, Over, Idle, Applies, Occupied, CallsTyped
    <2>3. QED
      BY <1>0, <1>1, <2>1, <2>2 DEF Occupied
  <1>9. ASSUME UNCHANGED <<writer, job, archiver, item, row, call>> PROVE Indexed'
    BY <1>9
  <1>10. QED
    BY <1>2, <1>3, <1>4, <1>5, <1>6, <1>7, <1>8, <1>9
       DEF Next, WriterStep, ArchiverStep, CloseStep, vars, tasks, stored,
       Submit, Close, JobsJoined, WriterEnded, ArchivesJoined, MarkEnd,
       ArchiverEnded

(* Nothing is ever overwritten in the archive or taken out of it.            *)
LEMMA ArchiveGrows ==
  ASSUME TypeInv, [Next]_vars, NEW r, NEW e, At(r, e)
  PROVE  At(r, e)'
  <1>0. TypeOK /\ Placed /\ Occupied /\ Torn \in Cells
    BY DEF TypeInv, Cells
  <1>1. CASE AppendFrame
    <2>1. PICK p \in Places : file' = Extended(p, job)
      BY <1>1 DEF AppendFrame
    <2>2. job \in Cells
      BY <1>0, <1>1 DEF AppendFrame, Occupied, Cells
    <2>3. QED
      BY <1>0, <2>1, <2>2, PlaceFacts, StillAt
  <1>2. CASE CutShort
    <2>1. PICK p \in Places : file' = Extended(p, Torn)
      BY <1>2 DEF CutShort
    <2>2. QED
      BY <1>0, <2>1, PlaceFacts, StillAt
  <1>3. CASE Stop
    <2>1. file' = file \/ \E p \in Places : file' = Extended(p, Torn)
      BY <1>3 DEF Stop
    <2>2. CASE file' = file
      BY <2>2 DEF At
    <2>3. QED
      BY <1>0, <2>1, <2>2, PlaceFacts, StillAt
  <1>4. ASSUME UNCHANGED file PROVE At(r, e)'
    BY <1>4 DEF At
  <1>5. QED
    BY <1>1, <1>2, <1>3, <1>4
       DEF Next, WriterStep, CallStep, ArchiverStep, CloseStep, vars, tasks, stored,
       Start, Submit, TakeJob, FailAppend, Insert, FailInsert, Receipt, Call,
       Select, Update, Queue, MarkFull, FailCall, CancelCall, TakeItem, SelectItem,
       ReadItem, UpdateItem, MarkItem, MarkFails, Close, JobsJoined, WriterEnded,
       ArchivesJoined, MarkEnd, ArchiverEnded

(* The size remembered is the file's: where a write is whole or nothing.     *)
LEMMA SizedStep ==
  ASSUME ~ShortWrites, TypeInv, Sized, [Next]_vars
  PROVE  Sized' /\ (AppendFrame => At(placed, job)')
  <1>0. TypeOK /\ Placed /\ Occupied /\ file \in Seq(Seq(Cells))
    BY DEF TypeInv, TypeOK, Cells
  <1>1. CASE AppendFrame
    <2>1. PICK p \in Places :
            /\ placed' = [segment |-> p.segment, offset |-> p.size]
            /\ current' = [p EXCEPT !.size = @ + 1]
            /\ file' = Extended(p, job)
      BY <1>1 DEF AppendFrame
    <2>2. InPlace(p) /\ AtEnd(p) /\ job \in Cells /\ job' = job
      BY <1>0, <1>1, PlaceFacts, PlaceSized DEF AppendFrame, Occupied, Cells
    <2>3. /\ p.segment \in DOMAIN file'
          /\ Len(file'[p.segment]) = p.size + 1
          /\ file'[p.segment][p.size + 1] = job
      BY <1>0, <2>1, <2>2, ExtendedAdds
    <2>4. file' \in Seq(Seq(Cells)) /\ p \in Spots
      BY <1>0, <2>1, <2>2, ExtendedTyped DEF InPlace
    <2>5. file'[p.segment] \in Seq(Cells) /\ p.size \in Nat
      BY <2>3, <2>4 DEF Spots
    <2>6. p.size + 1 \in DOMAIN file'[p.segment]
      BY <2>3, <2>5
    <2>7. At(placed, job)'
      BY <2>1, <2>2, <2>3, <2>6 DEF At
    <2>8. current'.segment = p.segment /\ current'.size = p.size + 1
      BY <2>1, <2>4 DEF Spots
    <2>9. Sized'
      BY <2>3, <2>8 DEF Sized, AtEnd
    <2>10. QED
      BY <2>7, <2>9
  <1>2. CASE FailAppend
    BY <1>0, <1>2, PlaceSized DEF FailAppend, AppendFrame, Sized, AtEnd
  <1>3. CASE Start \/ Stop
    BY <1>3 DEF Start, Stop, Fresh, AppendFrame, Sized
  <1>4. ASSUME UNCHANGED <<file, current>>, ~AppendFrame
        PROVE  Sized' /\ (AppendFrame => At(placed, job)')
    BY <1>4 DEF Sized, AtEnd
  <1>5. QED
    BY <1>1, <1>2, <1>3, <1>4
       DEF Next, WriterStep, CallStep, ArchiverStep, CloseStep, vars, tasks, stored,
       Submit, TakeJob, CutShort, Insert, FailInsert, Receipt, Call, Select, Update,
       Queue, MarkFull, FailCall, CancelCall, TakeItem, SelectItem, ReadItem,
       UpdateItem, MarkItem, MarkFails, Close, JobsJoined, WriterEnded,
       ArchivesJoined, MarkEnd, ArchiverEnded

(* A frame waits for its row where it was placed.                            *)
LEMMA InsertWaits ==
  ASSUME [Next]_vars, writer' = "insert", ~AppendFrame
  PROVE  writer = "insert" /\ UNCHANGED <<placed, job>>
  BY DEF Next, WriterStep, CallStep, ArchiverStep, CloseStep, vars, tasks, stored,
     Fresh, GoesOn, Start, Submit, TakeJob, FailAppend, CutShort, Insert,
     FailInsert, Receipt, Call, Select, Update, Queue, MarkFull, FailCall,
     CancelCall, TakeItem, SelectItem, ReadItem, UpdateItem, MarkItem, MarkFails,
     Close, JobsJoined, WriterEnded, ArchivesJoined, MarkEnd, ArchiverEnded, Stop

(* A frame that is to be indexed is where its reference will say.            *)
Written == writer = "insert" => At(placed, job)

LEMMA WrittenStep ==
  ASSUME ~ShortWrites, TypeInv, Sized, Written, [Next]_vars
  PROVE  Written'
  <1>1. CASE AppendFrame
    BY <1>1, SizedStep DEF Written
  <1>2. CASE writer' # "insert"
    BY <1>2 DEF Written
  <1>3. CASE writer' = "insert" /\ ~AppendFrame
    <2>1. writer = "insert" /\ UNCHANGED <<placed, job>>
      BY <1>3, InsertWaits
    <2>2. At(placed, job)'
      BY <2>1, ArchiveGrows DEF Written, At
    <2>3. QED
      BY <2>2 DEF Written
  <1>4. QED
    BY <1>1, <1>2, <1>3

KeptInv == TypeInv /\ Indexed /\ Sized /\ Written /\ DurableKept

LEMMA KeptStep ==
  ASSUME ~ShortWrites, KeptInv, [Next]_vars
  PROVE  DurableKept'
  <1>0. TypeInv /\ TypeOK /\ Occupied /\ Indexed /\ Written /\ DurableKept
    BY DEF KeptInv, TypeInv
  <1> SUFFICES ASSUME NEW e \in Entries
               PROVE  /\ fate'[e] = "durable" => row'[e].state # "absent"
                      /\ row'[e].state # "absent" => Readable(e)'
    BY DEF DurableKept
  <1>1. /\ fate[e] = "durable" => row[e].state # "absent"
        /\ row[e].state # "absent" => At(row[e].reference, e)
    BY <1>0 DEF DurableKept, Readable, At
  <1>2. fate'[e] = "durable" => fate[e] = "durable" \/ row[e].state # "absent"
    <2>1. CASE Receipt
      BY <1>0, <2>1 DEF Receipt, Occupied, Indexed, TypeOK
    <2>2. CASE Stop
      BY <1>0, <2>2 DEF Stop, TypeOK
    <2>3. ASSUME NEW s \in Entries, Submit(s)
          PROVE  fate'[e] = "durable" => fate[e] = "durable"
      BY <1>0, <2>3 DEF Submit, TypeOK
    <2>4. ASSUME UNCHANGED fate PROVE fate'[e] = "durable" => fate[e] = "durable"
      BY <2>4
    <2>5. QED
      BY <2>1, <2>2, <2>3, <2>4
         DEF Next, WriterStep, CallStep, ArchiverStep, CloseStep, vars, tasks, stored,
         Start, TakeJob, AppendFrame, FailAppend, CutShort, Insert, FailInsert, Call,
         Select, Update, Queue, MarkFull, FailCall, CancelCall, TakeItem, SelectItem,
         ReadItem, UpdateItem, MarkItem, MarkFails, Close, JobsJoined, WriterEnded,
         ArchivesJoined, MarkEnd, ArchiverEnded
  <1>3. CASE Steady(e)
    <2>1. row'[e].state # "absent" => At(row[e].reference, e)'
      <3>1. row'[e].state # "absent" => At(row[e].reference, e)
        BY <1>1, <1>3 DEF Steady
      <3>2. ASSUME NEW r, At(r, e)
            PROVE  /\ r.segment \in DOMAIN file' /\ r.offset + 1 \in DOMAIN file'[r.segment]
                   /\ file'[r.segment][r.offset + 1] = e
        BY <1>0, <3>2, ArchiveGrows DEF At
      <3>3. QED
        BY <1>3, <3>1, <3>2 DEF At, Steady
    <2>2. QED
      BY <1>1, <1>2, <1>3, <2>1 DEF Steady, Readable, At
  <1>4. CASE Insert /\ e = job
    <2>1. At(placed, e) /\ file' = file
      BY <1>0, <1>4 DEF Insert, Written
    <2>2. row'[e].reference = placed /\ row'[e].state # "absent"
      BY <1>0, <1>4 DEF Insert, Absent, TypeOK
    <2>3. QED
      BY <2>1, <2>2 DEF Readable, At
  <1>5. QED
    BY <1>0, <1>3, <1>4, IndexStep

-----------------------------------------------------------------------------
(* With writes cut short: what is not where it should be lies behind a torn  *)
(* frame of its segment.                                                     *)

(* A torn frame at a reference or before it, in the same segment. *)
Behind(r) ==
  /\ r.segment \in DOMAIN file
  /\ \E i \in DOMAIN file[r.segment] :
       i <= r.offset + 1 /\ file[r.segment][i] = Torn

Spot(p) == [segment |-> p.segment, offset |-> p.size]

SizedOrTorn == current # Unknown => AtEnd(current) \/ Behind(Spot(current))

WrittenOrTorn == writer = "insert" => At(placed, job) \/ Behind(placed)

(* A torn frame stays where it is. *)
LEMMA BehindStays ==
  ASSUME file \in Seq(Seq(Cells)), NEW p, InPlace(p), NEW cell \in Cells,
         file' = Extended(p, cell), NEW r, Behind(r)
  PROVE  Behind(r)'
  <1>1. PICK i \in DOMAIN file[r.segment] : i <= r.offset + 1 /\ file[r.segment][i] = Torn
    BY DEF Behind
  <1>2. /\ r.segment \in DOMAIN file' /\ i \in DOMAIN file'[r.segment]
        /\ file'[r.segment][i] = Torn
    BY <1>1, ExtendedKeeps DEF Behind
  <1>3. QED
    BY <1>1, <1>2 DEF Behind

(* What is appended is at its place, or behind a torn frame. *)
LEMMA AppendedThere ==
  ASSUME file \in Seq(Seq(Cells)), NEW p, InPlace(p), AtEnd(p) \/ Behind(Spot(p)),
         NEW cell \in Cells, file' = Extended(p, cell)
  PROVE  \/ At(Spot(p), cell)' /\ Len(file'[p.segment]) = p.size + 1
         \/ Behind(Spot(p))'
  <1>1. CASE AtEnd(p)
    <2>1. /\ p.segment \in DOMAIN file' /\ Len(file'[p.segment]) = p.size + 1
          /\ file'[p.segment][p.size + 1] = cell
      BY <1>1, ExtendedAdds
    <2>2. file'[p.segment] \in Seq(Cells) /\ p.size \in Nat
      BY <2>1, ExtendedTyped DEF InPlace, Spots
    <2>3. p.size + 1 \in DOMAIN file'[p.segment]
      BY <2>1, <2>2
    <2>4. QED
      BY <2>1, <2>3 DEF At, Spot
  <1>2. CASE Behind(Spot(p))
    <2>1. ASSUME NEW r, Behind(r) PROVE Behind(r)'
      BY <2>1, BehindStays
    <2>2. /\ p.segment \in DOMAIN file
          /\ \E i \in DOMAIN file[p.segment] :
               i <= p.size + 1 /\ file[p.segment][i] = Torn
      BY <1>2 DEF Behind, Spot
    <2>3. PICK i \in DOMAIN file[p.segment] : i <= p.size + 1 /\ file[p.segment][i] = Torn
      BY <2>2
    <2>4. /\ p.segment \in DOMAIN file' /\ i \in DOMAIN file'[p.segment]
          /\ file'[p.segment][i] = Torn
      BY <2>2, <2>3, ExtendedKeeps
    <2>5. QED
      BY <2>3, <2>4 DEF Behind, Spot
  <1>3. QED
    BY <1>1, <1>2

LEMMA SizedOrTornStep ==
  ASSUME TypeInv, SizedOrTorn, [Next]_vars
  PROVE  SizedOrTorn' /\ (AppendFrame => (At(placed, job) \/ Behind(placed))')
  <1>0. TypeOK /\ Placed /\ Occupied /\ file \in Seq(Seq(Cells)) /\ Torn \in Cells
    BY DEF TypeInv, TypeOK, Cells
  <1>1. ASSUME NEW p \in Places PROVE InPlace(p) /\ (AtEnd(p) \/ Behind(Spot(p)))
    BY <1>0, <1>1, PlaceFacts, PlaceCases DEF SizedOrTorn
  <1>2. CASE AppendFrame
    <2>1. PICK p \in Places : /\ placed' = Spot(p)
                              /\ current' = [p EXCEPT !.size = @ + 1]
                              /\ file' = Extended(p, job)
      BY <1>2 DEF AppendFrame, Spot
    <2>2. job \in Cells /\ job' = job /\ p \in Spots
      BY <1>0, <1>1, <1>2 DEF AppendFrame, Occupied, Cells, InPlace
    <2>3. \/ At(Spot(p), job)' /\ Len(file'[p.segment]) = p.size + 1
          \/ Behind(Spot(p))'
      BY <1>0, <1>1, <2>1, <2>2, AppendedThere
    <2>4. (At(placed, job) \/ Behind(placed))'
      BY <2>1, <2>2, <2>3 DEF At, Behind, Spot
    <2>5. current'.segment = p.segment /\ current'.size = p.size + 1 /\ p.size \in Nat
      BY <2>1, <2>2 DEF Spots
    <2>6. CASE Len(file'[p.segment]) = p.size + 1
      BY <2>4, <2>5, <2>6 DEF SizedOrTorn, AtEnd
    <2>7. CASE Behind(Spot(p))'
      <3>1. PICK i \in DOMAIN file'[p.segment] :
              i <= p.size + 1 /\ file'[p.segment][i] = Torn
        BY <2>2, <2>7 DEF Behind, Spot
      <3>2. p.segment \in DOMAIN file'
        BY <2>7 DEF Behind, Spot
      <3>3. file' \in Seq(Seq(Cells))
        BY <1>0, <1>1, <2>1, <2>2, ExtendedTyped
      <3>4. i \in Nat
        BY <3>1, <3>2, <3>3
      <3>5. i <= current'.size + 1
        BY <2>5, <3>1, <3>4
      <3>6. QED
        BY <2>4, <2>5, <3>1, <3>2, <3>5 DEF SizedOrTorn, Behind, Spot
    <2>8. QED
      BY <2>3, <2>4, <2>6, <2>7
  <1>3. CASE CutShort
    <2>1. PICK p \in Places : current' = p /\ file' = Extended(p, Torn)
      BY <1>3 DEF CutShort
    <2>2. At(Spot(p), Torn)' \/ Behind(Spot(p))'
      BY <1>0, <1>1, <2>1, AppendedThere
    <2>3. p.size + 1 \in Nat
      BY <1>1 DEF InPlace, Spots
    <2>4. Behind(Spot(p))'
      BY <2>2, <2>3 DEF At, Behind, Spot
    <2>5. QED
      BY <1>3, <2>1, <2>4 DEF SizedOrTorn, CutShort, AppendFrame, Behind, Spot
  <1>4. CASE FailAppend
    BY <1>1, <1>4 DEF FailAppend, AppendFrame, SizedOrTorn, AtEnd, Behind, Spot
  <1>5. CASE Start \/ Stop
    BY <1>5 DEF Start, Stop, Fresh, AppendFrame, SizedOrTorn
  <1>6. ASSUME UNCHANGED <<file, current>>, ~AppendFrame
        PROVE  SizedOrTorn' /\ (AppendFrame => (At(placed, job) \/ Behind(placed))')
    BY <1>6 DEF SizedOrTorn, AtEnd, Behind, Spot
  <1>7. QED
    BY <1>2, <1>3, <1>4, <1>5, <1>6
       DEF Next, WriterStep, CallStep, ArchiverStep, CloseStep, vars, tasks, stored,
       Submit, TakeJob, Insert, FailInsert, Receipt, Call, Select, Update,
       Queue, MarkFull, FailCall, CancelCall, TakeItem, SelectItem, ReadItem,
       UpdateItem, MarkItem, MarkFails, Close, JobsJoined, WriterEnded,
       ArchivesJoined, MarkEnd, ArchiverEnded

(* Neither a frame nor the torn one it lies behind ever goes away. *)
LEMMA ThereStays ==
  ASSUME TypeInv, [Next]_vars, NEW r, NEW e, At(r, e) \/ Behind(r)
  PROVE  (At(r, e) \/ Behind(r))'
  <1>1. CASE At(r, e)
    BY <1>1, ArchiveGrows
  <1>2. CASE Behind(r)
    <2>1. file \in Seq(Seq(Cells))
      BY DEF TypeInv, TypeOK, Cells
    <2>2. PICK i \in DOMAIN file[r.segment] :
            i <= r.offset + 1 /\ file[r.segment][i] = Torn
      BY <1>2 DEF Behind
    <2>3. i \in Nat /\ i - 1 + 1 = i
      BY <1>2, <2>1, <2>2 DEF Behind
    <2>4. DEFINE t == [segment |-> r.segment, offset |-> i - 1]
    <2>5. At(t, Torn)
      BY <1>2, <2>2, <2>3 DEF At, Behind
    <2>6. At(t, Torn)'
      BY <2>5, ArchiveGrows
    <2>7. /\ r.segment \in DOMAIN file' /\ i \in DOMAIN file'[r.segment]
          /\ file'[r.segment][i] = Torn
      BY <2>3, <2>6 DEF At
    <2>8. QED
      BY <2>2, <2>7 DEF Behind
  <1>3. QED
    BY <1>1, <1>2

LEMMA WrittenOrTornStep ==
  ASSUME TypeInv, SizedOrTorn, WrittenOrTorn, [Next]_vars
  PROVE  WrittenOrTorn'
  <1>1. CASE AppendFrame
    BY <1>1, SizedOrTornStep DEF WrittenOrTorn
  <1>2. CASE writer' # "insert"
    BY <1>2 DEF WrittenOrTorn
  <1>3. CASE writer' = "insert" /\ ~AppendFrame
    <2>1. writer = "insert" /\ UNCHANGED <<placed, job>>
      BY <1>3, InsertWaits
    <2>2. (At(placed, job) \/ Behind(placed))'
      BY <2>1, ThereStays DEF WrittenOrTorn, At, Behind
    <2>3. QED
      BY <2>2 DEF WrittenOrTorn
  <1>4. QED
    BY <1>1, <1>2, <1>3

TornInv == TypeInv /\ Indexed /\ SizedOrTorn /\ WrittenOrTorn /\ DamageConfined

LEMMA ConfinedStep ==
  ASSUME TornInv, [Next]_vars
  PROVE  DamageConfined'
  <1>0. TypeInv /\ TypeOK /\ Occupied /\ Indexed /\ WrittenOrTorn /\ DamageConfined
    BY DEF TornInv, TypeInv
  <1> SUFFICES ASSUME NEW e \in Entries, row'[e].state # "absent"
               PROVE  (Readable(e) \/ Damaged(e))'
    BY DEF DamageConfined
  <1>1. CASE Steady(e)
    <2>1. At(row[e].reference, e) \/ Behind(row[e].reference)
      BY <1>0, <1>1 DEF DamageConfined, Readable, Damaged, At, Behind, Steady
    <2>2. ASSUME NEW r, At(r, e) \/ Behind(r)
          PROVE  \/ /\ r.segment \in DOMAIN file' /\ r.offset + 1 \in DOMAIN file'[r.segment]
                    /\ file'[r.segment][r.offset + 1] = e
                 \/ /\ r.segment \in DOMAIN file'
                    /\ \E i \in DOMAIN file'[r.segment] :
                         i <= r.offset + 1 /\ file'[r.segment][i] = Torn
      BY <1>0, <2>2, ThereStays DEF At, Behind
    <2>3. row'[e].reference = row[e].reference
      BY <1>1 DEF Steady
    <2>4. QED
      BY <2>1, <2>2, <2>3 DEF Readable, Damaged
  <1>2. CASE Insert /\ e = job
    <2>1. (At(placed, e) \/ Behind(placed)) /\ file' = file
      BY <1>0, <1>2 DEF Insert, WrittenOrTorn
    <2>2. row'[e].reference = placed
      BY <1>0, <1>2 DEF Insert, Absent, TypeOK
    <2>3. QED
      BY <2>1, <2>2 DEF Readable, Damaged, At, Behind
  <1>3. QED
    BY <1>0, <1>1, <1>2, IndexStep

-----------------------------------------------------------------------------
(* Each entry is in one place at a time, and in the index only after it was  *)
(* in the queue and in the task's hand.                                      *)

InHand(e) == writer \in {"append", "insert", "durable", "failed"} /\ job = e

Accounted ==
  /\ Once(jobs)
  /\ \A e \in Entries :
       /\ Queued(jobs, e) =>
            fate[e] = "accepted" /\ row[e].state = "absent" /\ ~InHand(e)
       /\ InHand(e) => fate[e] = "accepted"
       /\ InHand(e) /\ writer # "durable" => row[e].state = "absent"
       /\ fate[e] = "none" => row[e].state = "absent"

LEMMA AccountedStep ==
  ASSUME TypeInv, Indexed, Accounted, [Next]_vars
  PROVE  Accounted'
  <1>0. /\ TypeOK /\ Occupied /\ jobs \in Seq(Entries \cup {End}) /\ End \notin Entries
        /\ fate \in [Entries -> {"none", "accepted", "durable", "failed", "lost"}]
    BY HistoryAssumption DEF TypeInv, TypeOK
  <1>1. ASSUME NEW e \in Entries, ~Insert
        PROVE  row'[e].state = "absent" <=> row[e].state = "absent"
    BY <1>1, IndexStep DEF Steady
  <1>2. CASE Start \/ Stop
    <2>1. jobs' = <<>> /\ writer' = "idle" /\ ~Insert
      BY <1>2 DEF Start, Stop, Fresh, Insert
    <2>2. \A e \in Entries : fate'[e] = "none" => fate[e] = "none"
      BY <1>0, <1>2 DEF Start, Stop
    <2>3. Once(jobs') /\ \A e : ~Queued(jobs', e)
      BY <2>1 DEF Once, Queued
    <2>4. QED
      BY <1>1, <2>1, <2>2, <2>3 DEF Accounted, InHand
  <1>3. ASSUME NEW s \in Entries, Submit(s) PROVE Accounted'
    <2>1. /\ fate[s] = "none" /\ jobs' = Append(jobs, s)
          /\ fate' = [fate EXCEPT ![s] = "accepted"]
          /\ UNCHANGED <<writer, job>> /\ ~Insert
      BY <1>3 DEF Submit, Insert, stored
    <2>2. ~Queued(jobs, s) /\ ~InHand(s) /\ row[s].state = "absent" /\ Once(jobs)
      BY <2>1 DEF Accounted
    <2>3. Once(jobs') /\ \A e : Queued(jobs', e) <=> Queued(jobs, e) \/ e = s
      BY <1>0, <2>1, <2>2, JoinQueue
    <2>4. \A e \in Entries : InHand(e)' <=> InHand(e)
      BY <2>1 DEF InHand
    <2>5. QED
      BY <1>0, <1>1, <2>1, <2>2, <2>3, <2>4 DEF Accounted
  <1>4. CASE TakeJob
    <2>1. /\ jobs # <<>> /\ jobs' = Tail(jobs) /\ writer = "idle"
          /\ UNCHANGED <<fate, row>>
          /\ \/ Head(jobs) = End /\ writer' = "ended"
             \/ Head(jobs) # End /\ writer' = "append" /\ job' = Head(jobs)
      BY <1>4 DEF TakeJob, stored
    <2>2. Once(jobs') /\ \A e : Queued(jobs', e) <=> Queued(jobs, e) /\ e # Head(jobs)
      BY <1>0, <2>1, LeaveQueue DEF Accounted
    <2>3. Queued(jobs, Head(jobs)) /\ Head(jobs) \in Entries \cup {End}
      BY <1>0, <2>1, HeadQueued
    <2>4. \A e \in Entries : InHand(e)' <=> e = Head(jobs)
      BY <1>0, <2>1 DEF InHand
    <2>5. QED
      BY <2>1, <2>2, <2>3, <2>4 DEF Accounted
  <1>5. CASE AppendFrame \/ FailAppend \/ CutShort \/ FailInsert
    <2>1. /\ UNCHANGED <<jobs, job, fate, row>>
          /\ writer \in {"append", "insert"} /\ writer' \in {"insert", "failed"}
      BY <1>5 DEF AppendFrame, FailAppend, CutShort, FailInsert, stored
    <2>2. QED
      BY <2>1 DEF Accounted, InHand
  <1>6. CASE Insert
    <2>1. /\ UNCHANGED <<jobs, job, fate>> /\ writer = "insert" /\ writer' = "durable"
          /\ job \in Entries
      BY <1>0, <1>6 DEF Insert, Occupied
    <2>2. \A e \in Entries : e # job => row'[e].state = row[e].state
      BY <1>0, <1>6 DEF Insert, TypeOK
    <2>3. \A e \in Entries : InHand(e)' <=> InHand(e)
      BY <2>1 DEF InHand
    <2>4. InHand(job) /\ \A e \in Entries : InHand(e) => e = job
      BY <2>1 DEF InHand
    <2>5. fate[job] # "none" /\ ~Queued(jobs, job)
      BY <2>1, <2>4 DEF Accounted
    <2>6. QED
      BY <2>1, <2>2, <2>3, <2>4, <2>5 DEF Accounted
  <1>7. CASE Receipt
    <2>1. /\ UNCHANGED <<jobs, row>> /\ writer \in {"durable", "failed"}
          /\ fate' = [fate EXCEPT ![job] = writer] /\ job \in Entries
          /\ writer' = "idle"
      BY <1>0, <1>7 DEF Receipt, GoesOn, Occupied, stored
    <2>2. ~Queued(jobs, job)
      BY <2>1 DEF Accounted, InHand
    <2>3. \A e \in Entries : ~InHand(e)'
      BY <2>1 DEF InHand
    <2>4. \A e \in Entries :
            IF e = job THEN fate'[e] # "none" ELSE fate'[e] = fate[e]
      BY <1>0, <2>1
    <2>5. QED
      BY <2>1, <2>2, <2>3, <2>4 DEF Accounted
  <1>8. CASE JobsJoined
    <2>1. /\ jobs = <<>> /\ jobs' = Append(jobs, End)
          /\ UNCHANGED <<writer, job, fate, row>>
      BY <1>8 DEF JobsJoined, stored
    <2>2. Once(jobs') /\ \A e : Queued(jobs', e) => Queued(jobs, e) \/ e = End
      <3>1. ~Queued(jobs, End) /\ End \in Entries \cup {End} /\ Once(jobs)
        BY <2>1 DEF Queued, Accounted
      <3>2. /\ Once(Append(jobs, End))
            /\ \A p : Queued(Append(jobs, End), p) <=> Queued(jobs, p) \/ p = End
        BY <1>0, <3>1, JoinQueue
      <3>3. QED
        BY <2>1, <3>2
    <2>3. QED
      BY <1>0, <2>1, <2>2 DEF Accounted, InHand
  <1>9. ASSUME UNCHANGED <<jobs, writer, job, fate>>, ~Insert PROVE Accounted'
    BY <1>1, <1>9 DEF Accounted, InHand
  <1>10. ASSUME NEW c \in Calls,
                (\E op \in Operations, e \in Entries : Call(c, op, e)) \/ CallStep(c)
         PROVE  Accounted'
    <2>1. UNCHANGED <<jobs, writer, job, fate>>
      BY <1>10 DEF Call, CallStep, Select, Update, Queue, MarkFull, FailCall, CancelCall,
         tasks
    <2>2. QED
      BY <1>6, <1>9, <2>1
  <1>11. ASSUME ArchiverStep \/ Close \/ WriterEnded \/ ArchivesJoined \/ MarkEnd
                \/ ArchiverEnded \/ UNCHANGED vars
         PROVE  Accounted'
    <2>1. UNCHANGED <<jobs, writer, job, fate>>
      BY <1>11 DEF ArchiverStep, TakeItem, SelectItem, ReadItem, UpdateItem, MarkItem,
         MarkFails, Close, WriterEnded, ArchivesJoined, MarkEnd, ArchiverEnded, tasks, vars
    <2>2. QED
      BY <1>6, <1>9, <2>1
  <1>12. QED
    BY <1>2, <1>3, <1>4, <1>5, <1>6, <1>7, <1>8, <1>10, <1>11 DEF Next, WriterStep, CloseStep

LEMMA AccountedInit == Init => TypeInv /\ Indexed /\ Accounted
  <1>1. ASSUME Init PROVE Indexed /\ Accounted
    BY <1>1 DEF Init, Indexed, Accounted, InHand, Once, Queued, Absent, Idle
  <1>2. QED
    BY <1>1, TypeInit

-----------------------------------------------------------------------------
(* What is marked as archived can be read, cut short or not.                 *)

ArchivedInv ==
  /\ TypeInv /\ Indexed /\ Accounted /\ ArchivedReadable
  /\ archiver = "update" => Readable(item)
  /\ \A e \in Entries : row[e].archived => row[e].state # "absent"

(* A frame that a row leads to is there for good, while the row stands. *)
LEMMA ReadableStays ==
  ASSUME TypeInv, Indexed, Accounted, [Next]_vars, NEW e \in Entries,
         row[e].state # "absent", Readable(e)
  PROVE  Readable(e)'
  <1>1. ~(Insert /\ e = job)
    BY DEF Accounted, Insert, InHand
  <1>2. row'[e].reference = row[e].reference
    BY <1>1, IndexStep DEF Steady
  <1>3. ASSUME NEW r, At(r, e)
        PROVE  /\ r.segment \in DOMAIN file' /\ r.offset + 1 \in DOMAIN file'[r.segment]
               /\ file'[r.segment][r.offset + 1] = e
    BY <1>3, ArchiveGrows DEF At
  <1>4. QED
    BY <1>2, <1>3 DEF Readable, At

(* A row is marked as archived by the task alone, once it has read the frame. *)
LEMMA MarkedArchived ==
  ASSUME TypeInv, Indexed, [Next]_vars, NEW e \in Entries,
         row'[e].archived \/ row'[e].state = "archived"
  PROVE  \/ row[e].archived \/ row[e].state = "archived"
         \/ UpdateItem /\ e = item
  <1>0. TypeOK /\ Occupied /\ row \in [Entries -> Rows]
    BY DEF TypeInv, TypeOK
  <1>1. CASE Insert
    BY <1>0, <1>1 DEF Insert, Absent, Occupied
  <1>2. ASSUME NEW c \in Calls, Update(c) PROVE row[e].archived \/ row[e].state = "archived"
    BY <1>0, <1>2 DEF Update, Rows, Occupied
  <1>3. ASSUME NEW marked \in Entries, row' = Marked(marked)
        PROVE  row[e].archived \/ row[e].state = "archived"
    BY <1>0, <1>3 DEF Marked, Rows
  <1>4. CASE UpdateItem
    BY <1>0, <1>4 DEF UpdateItem, Rows, Occupied
  <1>5. CASE \E c \in Calls : MarkFull(c)
    BY <1>0, <1>3, <1>5 DEF MarkFull, Occupied
  <1>6. CASE MarkItem
    BY <1>0, <1>3, <1>6 DEF MarkItem, MarkedFailed, Occupied
  <1>7. CASE UNCHANGED row
    BY <1>7
  <1>8. QED
    BY <1>1, <1>2, <1>4, <1>5, <1>6, <1>7
       DEF Next, WriterStep, CallStep, ArchiverStep, CloseStep, vars, tasks, stored,
       Start, Submit, TakeJob, AppendFrame, FailAppend, CutShort, FailInsert,
       Receipt, Call, Select, Queue, FailCall, CancelCall, TakeItem, SelectItem,
       ReadItem, MarkFails, Close, JobsJoined, WriterEnded, ArchivesJoined, MarkEnd,
       ArchiverEnded, Stop

(* The task is about to mark what it has read, or what it marked just now. *)
LEMMA UpdateWaits ==
  ASSUME [Next]_vars, archiver' = "update", ~ReadItem
  PROVE  archiver = "update" /\ UNCHANGED item
  BY DEF Next, WriterStep, CallStep, ArchiverStep, CloseStep, vars, tasks, stored,
     Fresh, ItemDone, Start, Submit, TakeJob, AppendFrame, FailAppend, CutShort,
     Insert, FailInsert, Receipt, Call, Select, Update, Queue, MarkFull, FailCall,
     CancelCall, TakeItem, SelectItem, UpdateItem, MarkItem, MarkFails, Close,
     JobsJoined, WriterEnded, ArchivesJoined, MarkEnd, ArchiverEnded, Stop

LEMMA ArchivedStep ==
  ASSUME ArchivedInv, [Next]_vars
  PROVE  ArchivedInv'
  <1>0. TypeInv /\ Occupied /\ Indexed /\ Accounted
    BY DEF ArchivedInv, TypeInv
  <1>1. TypeInv' /\ Indexed' /\ Accounted'
    BY <1>0, TypeStep, IndexedStep, AccountedStep
  <1>2. ArchivedReadable'
    <2> SUFFICES ASSUME NEW e \in Entries, row'[e].archived \/ row'[e].state = "archived"
                 PROVE  Readable(e)'
      BY DEF ArchivedReadable
    <2>1. CASE row[e].archived \/ row[e].state = "archived"
      <3>1. Readable(e)
        BY <2>1 DEF ArchivedInv, ArchivedReadable
      <3>2. row[e].state # "absent"
        BY <1>0, <2>1 DEF ArchivedInv
      <3>3. QED
        BY <1>0, <3>1, <3>2, ReadableStays
    <2>2. CASE UpdateItem /\ e = item
      <3>1. Readable(e) /\ row[e].state # "absent"
        BY <1>0, <2>2 DEF ArchivedInv, UpdateItem, Indexed
      <3>2. QED
        BY <1>0, <3>1, ReadableStays
    <2>3. QED
      BY <1>0, <2>1, <2>2, MarkedArchived
  <1>3. ASSUME archiver' = "update" PROVE Readable(item)'
    <2>1. CASE ReadItem
      <3>1. Readable(item) /\ UNCHANGED <<item, file, row>>
        BY <1>3, <2>1 DEF ReadItem, Checked, stored
      <3>2. QED
        BY <3>1 DEF Readable
    <2>2. CASE ~ReadItem
      <3>1. archiver = "update" /\ item' = item
        BY <1>3, <2>2, UpdateWaits
      <3>2. item \in Entries /\ row[item].state # "absent" /\ Readable(item)
        BY <1>0, <3>1 DEF ArchivedInv, Occupied, Indexed
      <3>3. ASSUME NEW e \in Entries, row[e].state # "absent", Readable(e)
            PROVE  LET r == row'[e].reference IN
                   /\ r.segment \in DOMAIN file' /\ r.offset + 1 \in DOMAIN file'[r.segment]
                   /\ file'[r.segment][r.offset + 1] = e
        BY <1>0, <3>3, ReadableStays DEF Readable
      <3>4. QED
        BY <3>1, <3>2, <3>3 DEF Readable
    <2>3. QED
      BY <2>1, <2>2
  <1>4. ASSUME NEW e \in Entries, row'[e].archived PROVE row'[e].state # "absent"
    <2>1. row[e].state # "absent"
      BY <1>0, <1>4, MarkedArchived DEF ArchivedInv, UpdateItem, Indexed
    <2>2. ~(Insert /\ e = job)
      BY <1>0, <2>1 DEF Accounted, Insert, InHand
    <2>3. QED
      BY <1>0, <2>1, <2>2, IndexStep DEF Steady
  <1>5. QED
    BY <1>1, <1>2, <1>3, <1>4 DEF ArchivedInv

-----------------------------------------------------------------------------
(* The refinement: the entries in the index are those the promise keeps.     *)

PromiseInv == KeptInv /\ Accounted

(* While everything indexed can be read, what is kept is what is indexed. *)
LEMMA KeptIsIndexed ==
  ASSUME DurableKept
  PROVE  {e \in Entries : row[e].state # "absent" /\ Readable(e)}
           = {e \in Entries : row[e].state # "absent"}
  BY DEF DurableKept

(* Only an insert adds to what is kept, and nothing takes from it. *)
LEMMA KeptStays ==
  ASSUME ~ShortWrites, PromiseInv, [Next]_vars, ~Insert
  PROVE  {e \in Entries : row'[e].state # "absent" /\ Readable(e)'}
           = {e \in Entries : row[e].state # "absent" /\ Readable(e)}
  <1>1. DurableKept'
    BY KeptStep DEF PromiseInv
  <1>2. \A e \in Entries : row'[e].state # "absent" => Readable(e)'
    BY <1>1 DEF DurableKept
  <1>3. \A e \in Entries : row[e].state # "absent" => Readable(e)
    BY DEF PromiseInv, KeptInv, DurableKept
  <1>4. \A e \in Entries : row'[e].state # "absent" <=> row[e].state # "absent"
    BY IndexStep DEF PromiseInv, KeptInv, Steady
  <1>5. QED
    BY <1>2, <1>3, <1>4

LEMMA PromiseStep ==
  ASSUME ~ShortWrites, PromiseInv, [Next]_vars
  PROVE  [Promise!Next]_(Promise!promise)
  <1> DEFINE K == {e \in Entries : row[e].state # "absent" /\ Readable(e)}
  <1>0. /\ TypeOK /\ Occupied /\ Indexed /\ Accounted /\ Written /\ DurableKept
        /\ row \in [Entries -> Rows]
        /\ fate \in [Entries -> {"none", "accepted", "durable", "failed", "lost"}]
    BY DEF PromiseInv, KeptInv, TypeInv, TypeOK
  <1>1. K = {e \in Entries : row[e].state # "absent"}
    BY <1>0, KeptIsIndexed
  <1>2. ~Insert => K' = K
    BY KeptStays
  <1>3. CASE \E e \in Entries : Submit(e)
    <2>1. PICK e \in Entries : Submit(e)
      BY <1>3
    <2>2. K' = K
      BY <1>2, <2>1 DEF Submit, Insert, stored, tasks
    <2>3. Promise!Submit(e)
      BY <2>1, <2>2 DEF Submit, Promise!Submit
    <2>4. QED
      BY <2>3 DEF Promise!Next
  <1>4. CASE Insert
    <2>1. job \in Entries /\ fate[job] = "accepted" /\ row[job].state = "absent"
      BY <1>0, <1>4 DEF Insert, Occupied, Accounted, InHand
    <2>2. DurableKept'
      BY KeptStep DEF PromiseInv
    <2>3. K' = {e \in Entries : row'[e].state # "absent"}
      BY <2>2 DEF DurableKept
    <2>4. \A e \in Entries : row'[e].state # "absent" <=> row[e].state # "absent" \/ e = job
      BY <1>0, <1>4, <2>1 DEF Insert, Absent
    <2>5. K' = K \cup {job} /\ job \notin K
      BY <1>1, <2>1, <2>3, <2>4
    <2>6. ASSUME NEW e \in Entries, e = job PROVE Promise!Keep(e)
      BY <1>4, <2>1, <2>5, <2>6 DEF Insert, Promise!Keep
    <2>7. \E e \in Entries : Promise!Keep(e)
      BY <2>1, <2>6
    <2>8. QED
      BY <2>7 DEF Promise!Next
  <1>5. CASE Receipt
    <2>1. job \in Entries /\ InHand(job) /\ fate[job] = "accepted"
      BY <1>0, <1>5 DEF Receipt, Occupied, Accounted, InHand
    <2>2. K' = K
      BY <1>2, <1>5 DEF Receipt, Insert
    <2>3. writer = "durable" <=> job \in K
      BY <1>0, <1>1, <1>5, <2>1 DEF Receipt, Indexed, Accounted
    <2>4. fate' = [fate EXCEPT ![job] = IF job \in K THEN "durable" ELSE "failed"]
      BY <1>5, <2>3 DEF Receipt
    <2>5. Promise!Tell(job)
      BY <2>1, <2>2, <2>4 DEF Promise!Tell
    <2>6. QED
      BY <2>1, <2>5 DEF Promise!Next
  <1>6. CASE Stop
    <2>1. K' = K
      BY <1>2, <1>6 DEF Stop, Insert
    <2>2. Promise!Lose
      BY <1>6, <2>1 DEF Stop, Promise!Lose
    <2>3. QED
      BY <2>2 DEF Promise!Next
  <1>7. ASSUME UNCHANGED fate, ~Insert PROVE UNCHANGED Promise!promise
    BY <1>2, <1>7 DEF Promise!promise
  <1>8. QED
    BY <1>3, <1>4, <1>5, <1>6, <1>7
       DEF Next, WriterStep, CallStep, ArchiverStep, CloseStep, vars, tasks, stored,
       Start, TakeJob, AppendFrame, FailAppend, CutShort, FailInsert, Call, Select,
       Update, Queue, MarkFull, FailCall, CancelCall, TakeItem, SelectItem, ReadItem,
       UpdateItem, MarkItem, MarkFails, Close, JobsJoined, WriterEnded, ArchivesJoined,
       MarkEnd, ArchiverEnded

-----------------------------------------------------------------------------
(* The theorems.                                                             *)

(* Every variable stays in its range, and the queues within their bound,     *)
(* whether writes are cut short or not.                                      *)
THEOREM TypeCorrect == Spec => []TypeOK
  <1>1. TypeInv => TypeOK
    BY DEF TypeInv
  <1>2. QED
    BY <1>1, TypeInit, TypeStep, PTL DEF Spec

(* The index and the archive agree: the inductive invariant.                 *)
THEOREM HistoryInvariant ==
  ASSUME ~ShortWrites
  PROVE  Spec => []KeptInv
  <1>1. Init => KeptInv
    <2>1. ASSUME Init PROVE Indexed /\ Sized /\ Written /\ DurableKept
      BY <2>1 DEF Init, Indexed, Sized, Written, DurableKept, Absent, Idle, Unknown
    <2>2. QED
      BY <2>1, TypeInit DEF KeptInv
  <1>2. KeptInv /\ [Next]_vars => KeptInv'
    <2> SUFFICES ASSUME KeptInv, [Next]_vars PROVE KeptInv'
      OBVIOUS
    <2>1. TypeInv /\ Indexed /\ Sized /\ Written
      BY DEF KeptInv
    <2>2. TypeInv' /\ Indexed' /\ Sized' /\ Written' /\ DurableKept'
      BY <2>1, TypeStep, IndexedStep, SizedStep, WrittenStep, KeptStep
    <2>3. QED
      BY <2>2 DEF KeptInv
  <1>3. QED
    BY <1>1, <1>2, PTL DEF Spec

(* If no write is cut short in a process that lives on, an entry whose       *)
(* receipt says durable is indexed for good, and what is indexed can be read *)
(* where the index says, after any number of crashes.                        *)
THEOREM DurableStays ==
  ASSUME ~ShortWrites
  PROVE  Spec => []DurableKept
  <1>1. KeptInv => DurableKept
    BY DEF KeptInv
  <1>2. QED
    BY <1>1, HistoryInvariant, PTL

(* A write cut short damages nothing but what the same process appends to    *)
(* the same segment after it.                                                *)
THEOREM DamageStays == Spec => []DamageConfined
  <1>1. Init => TornInv
    <2>1. ASSUME Init
          PROVE  Indexed /\ SizedOrTorn /\ WrittenOrTorn /\ DamageConfined
      BY <2>1 DEF Init, Indexed, SizedOrTorn, WrittenOrTorn, DamageConfined, Absent,
         Idle, Unknown
    <2>2. QED
      BY <2>1, TypeInit DEF TornInv
  <1>2. TornInv /\ [Next]_vars => TornInv'
    <2> SUFFICES ASSUME TornInv, [Next]_vars PROVE TornInv'
      OBVIOUS
    <2>1. TypeInv /\ Indexed /\ SizedOrTorn /\ WrittenOrTorn
      BY DEF TornInv
    <2>2. TypeInv' /\ Indexed' /\ SizedOrTorn' /\ WrittenOrTorn' /\ DamageConfined'
      BY <2>1, TypeStep, IndexedStep, SizedOrTornStep, WrittenOrTornStep, ConfinedStep
    <2>3. QED
      BY <2>2 DEF TornInv
  <1>3. TornInv => DamageConfined
    BY DEF TornInv
  <1>4. QED
    BY <1>1, <1>2, <1>3, PTL DEF Spec

(* An entry marked as archived can be read back, whatever is cut short,      *)
(* restarted or appended between the reading of its frame and the mark, and  *)
(* after it.                                                                 *)
THEOREM ArchivedStays == Spec => []ArchivedReadable
  <1>1. Init => ArchivedInv
    <2>1. ASSUME Init
          PROVE  /\ ArchivedReadable /\ archiver # "update"
                 /\ \A e \in Entries : row[e].archived => row[e].state # "absent"
      BY <2>1 DEF Init, ArchivedReadable, Absent
    <2>2. QED
      BY <2>1, AccountedInit DEF ArchivedInv
  <1>2. ArchivedInv /\ [Next]_vars => ArchivedInv'
    BY ArchivedStep
  <1>3. ArchivedInv => ArchivedReadable
    BY DEF ArchivedInv
  <1>4. QED
    BY <1>1, <1>2, <1>3, PTL DEF Spec

(* If no write is cut short in a process that lives on, the history keeps    *)
(* the safety part of its promise: an entry is kept once or not at all, its  *)
(* receipt says which, and what was kept stays while what failed or was lost *)
(* never turns up.                                                           *)
THEOREM ImplementsPromise ==
  ASSUME ~ShortWrites
  PROVE  Spec => Promise!Spec
  <1>1. Init => PromiseInv /\ Promise!Init
    <2>1. ASSUME Init PROVE Sized /\ Written /\ DurableKept /\ Promise!Init
      BY <2>1 DEF Init, Sized, Written, DurableKept, Absent, Unknown, Promise!Init
    <2>2. QED
      BY <2>1, AccountedInit DEF PromiseInv, KeptInv
  <1>2. PromiseInv /\ [Next]_vars => PromiseInv'
    <2> SUFFICES ASSUME PromiseInv, [Next]_vars PROVE PromiseInv'
      OBVIOUS
    <2>1. TypeInv /\ Indexed /\ Sized /\ Written /\ Accounted /\ KeptInv
      BY DEF PromiseInv, KeptInv
    <2>2. TypeInv' /\ Indexed' /\ Sized' /\ Written' /\ DurableKept' /\ Accounted'
      BY <2>1, TypeStep, IndexedStep, SizedStep, WrittenStep, KeptStep, AccountedStep
    <2>3. QED
      BY <2>2 DEF PromiseInv, KeptInv
  <1>3. PromiseInv /\ [Next]_vars => [Promise!Next]_(Promise!promise)
    BY PromiseStep
  <1>4. QED
    BY <1>1, <1>2, <1>3, PTL DEF Spec, Promise!Spec
=============================================================================
