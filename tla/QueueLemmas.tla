---------------------------- MODULE QueueLemmas ----------------------------
(***************************************************************************)
(* Queues in which nobody stands twice, as those of an asyncio lock or of  *)
(* the history writer: who is in one after somebody joins it at the end or *)
(* leaves it at the head.                                                  *)
(***************************************************************************)
EXTENDS Naturals, Sequences, TLAPS

Queued(q, p) == \E i \in DOMAIN q : q[i] = p

Once(q) == \A i, j \in DOMAIN q : q[i] = q[j] => i = j

(* One who joins stands at the end, and everybody else where he stood. *)
LEMMA JoinQueue ==
  ASSUME NEW S, NEW q \in Seq(S), NEW e \in S, Once(q), ~Queued(q, e)
  PROVE  /\ Once(Append(q, e))
         /\ \A p : Queued(Append(q, e), p) <=> Queued(q, p) \/ p = e
  <1>1. /\ Len(q) \in Nat /\ DOMAIN q = 1 .. Len(q)
        /\ DOMAIN Append(q, e) = 1 .. Len(q) + 1
    OBVIOUS
  <1>2. /\ \A i \in 1 .. Len(q) : Append(q, e)[i] = q[i]
        /\ Append(q, e)[Len(q) + 1] = e
    OBVIOUS
  <1> DEFINE r == Append(q, e)
  <1> HIDE DEF r
  <1>3. \A i \in DOMAIN r : i \in DOMAIN q \/ i = Len(q) + 1
    BY <1>1 DEF r
  <1>4. Once(r)
    BY <1>1, <1>2, <1>3 DEF Once, Queued, r
  <1>5. \A p : Queued(r, p) <=> Queued(q, p) \/ p = e
    BY <1>1, <1>2, <1>3 DEF Queued, r
  <1>6. QED
    BY <1>4, <1>5 DEF r

(* The head leaves, and nobody else. *)
LEMMA LeaveQueue ==
  ASSUME NEW S, NEW q \in Seq(S), Once(q), q # <<>>
  PROVE  /\ Once(Tail(q))
         /\ \A p : Queued(Tail(q), p) <=> Queued(q, p) /\ p # Head(q)
  <1>1. /\ Len(q) \in Nat \ {0} /\ DOMAIN q = 1 .. Len(q)
        /\ DOMAIN Tail(q) = 1 .. Len(q) - 1
        /\ \A i \in 1 .. Len(q) - 1 : Tail(q)[i] = q[i + 1]
    OBVIOUS
  <1> DEFINE r == Tail(q)
             e == q[1]
  <1> HIDE DEF r, e
  <1>2. /\ DOMAIN r = 1 .. Len(q) - 1
        /\ \A i \in 1 .. Len(q) - 1 : r[i] = q[i + 1] /\ i + 1 \in DOMAIN q
    BY <1>1 DEF r
  <1>3. Once(r)
    <2> SUFFICES ASSUME NEW i \in DOMAIN r, NEW j \in DOMAIN r, r[i] = r[j] PROVE i = j
      BY DEF Once
    <2>1. i + 1 = j + 1
      BY <1>2 DEF Once
    <2>2. QED
      BY <1>1, <1>2, <2>1
  <1>4. ASSUME NEW p, Queued(r, p) PROVE Queued(q, p) /\ p # e
    <2>1. PICK i \in DOMAIN r : r[i] = p
      BY <1>4 DEF Queued
    <2>2. i + 1 \in DOMAIN q /\ q[i + 1] = p /\ i + 1 # 1 /\ 1 \in DOMAIN q
      BY <1>1, <1>2, <2>1
    <2>3. QED
      BY <2>2 DEF Queued, Once, e
  <1>5. ASSUME NEW p, Queued(q, p), p # e PROVE Queued(r, p)
    <2>1. PICK i \in DOMAIN q : q[i] = p
      BY <1>5 DEF Queued
    <2>2. i - 1 \in 1 .. Len(q) - 1 /\ (i - 1) + 1 = i
      BY <1>1, <1>5, <2>1 DEF e
    <2>3. r[i - 1] = p /\ i - 1 \in DOMAIN r
      BY <1>2, <2>1, <2>2
    <2>4. QED
      BY <2>3 DEF Queued
  <1>6. Head(q) = e
    BY DEF e
  <1>7. QED
    BY <1>3, <1>4, <1>5, <1>6 DEF r

(* The head is in the queue, and a queue with anybody in it has one. *)
LEMMA HeadQueued ==
  ASSUME NEW S, NEW q \in Seq(S)
  PROVE  /\ q # <<>> => Queued(q, Head(q)) /\ Head(q) \in S
         /\ (\E p : Queued(q, p)) => q # <<>>
  BY DEF Queued
=============================================================================
