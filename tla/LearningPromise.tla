-------------------------- MODULE LearningPromise --------------------------
(***************************************************************************)
(* What a learning store promises its callers, with no locks, connections, *)
(* cache, transactions or life cycle: a register of revisions. A write is  *)
(* stored once or not at all, and who hears that it was, or was not, has   *)
(* heard the truth for good. A snapshot that is not marked as stale is of  *)
(* a moment between its call and its answer, and no older than what was    *)
(* answered before. Only what somebody else stored while the store was     *)
(* opening may be missing from it, and only until anything more is stored. *)
(***************************************************************************)
EXTENDS Naturals

CONSTANTS Writes, Reads

VARIABLES
  revision,        (* of what is stored                                      *)
  stored,          (* the writes that are in it                              *)
  verdict,         (* what the caller of each write was told of that         *)
  called, asked,   (* the snapshots asked for, and the revision at the call  *)
  answer,          (* what each held that was answered as fresh              *)
  opening, missed  (* the store's opening; what it may have missed in it     *)

promise == <<revision, stored, verdict, called, asked, answer, opening, missed>>

Init ==
  /\ revision = 0 /\ stored = {}
  /\ verdict = [w \in Writes |-> "none"]
  /\ called = {} /\ asked = [r \in Reads |-> 0]
  /\ answer = [r \in Reads |-> [fresh |-> FALSE, revision |-> 0]]
  /\ opening = "ahead" /\ missed = 0

Open ==
  /\ \/ opening = "ahead" /\ opening' \in {"now", "over"}
     \/ opening = "now" /\ opening' = "over"
  /\ UNCHANGED <<revision, stored, verdict, called, asked, answer, missed>>

(* A write gets in, before its caller is told anything. *)
Store(w) ==
  /\ w \notin stored /\ verdict[w] = "none" /\ opening # "now"
  /\ stored' = stored \cup {w}
  /\ revision' \in {revision, revision + 1} /\ missed' = 0
  /\ UNCHANGED <<verdict, called, asked, answer, opening>>

(* So may somebody else's. *)
StoreForeign ==
  /\ revision' = revision + 1
  /\ missed' = IF opening = "now" THEN missed + 1 ELSE 0
  /\ UNCHANGED <<stored, verdict, called, asked, answer, opening>>

(* The caller is told, the truth if anything. *)
Learn(w, how) ==
  /\ verdict[w] = "none"
  /\ how = "stored" => w \in stored
  /\ how = "dropped" => w \notin stored
  /\ verdict' = [verdict EXCEPT ![w] = how]
  /\ UNCHANGED <<revision, stored, called, asked, answer, opening, missed>>

Ask(r) ==
  /\ r \notin called
  /\ called' = called \cup {r}
  /\ asked' = [asked EXCEPT ![r] = revision]
  /\ UNCHANGED <<revision, stored, verdict, answer, opening, missed>>

Answer(r) ==
  /\ r \in called /\ ~answer[r].fresh
  /\ \E seen \in 0 .. revision :
       /\ asked[r] <= seen \/ revision <= seen + missed
       /\ \A q \in Reads : answer[q].fresh => answer[q].revision <= seen
       /\ answer' = [answer EXCEPT ![r] = [fresh |-> TRUE, revision |-> seen]]
  /\ UNCHANGED <<revision, stored, verdict, called, asked, opening, missed>>

Next ==
  \/ \E w \in Writes :
       Store(w) \/ \E how \in {"stored", "dropped", "unsaid"} : Learn(w, how)
  \/ StoreForeign \/ Open
  \/ \E r \in Reads : Ask(r) \/ Answer(r)

Spec == Init /\ [][Next]_promise
============================================================================
