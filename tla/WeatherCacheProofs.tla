------------------------- MODULE WeatherCacheProofs -------------------------
(***************************************************************************)
(* What is proved of WeatherCache, for every number of workers and every   *)
(* setting.  TimedInv is inductive by itself; CoverInv, which bounds the   *)
(* age of what a healthy worker leaves, is inductive relative to it under  *)
(* Margin.                                                                 *)
(***************************************************************************)
EXTENDS WeatherCache, TLAPS

LEMMA Constants ==
    /\ RefreshEvery \in Nat /\ RefreshEvery > 0
    /\ MaxAge \in Nat /\ Latency \in Nat /\ Period \in Nat /\ Horizon \in Nat
    /\ None \notin Snapshot
BY WeatherAssumption

LEMMA SnapshotFields ==
    ASSUME NEW s \in Snapshot
    PROVE  s.observed_at \in Nat /\ s.fetched_at \in Nat /\ s # None
BY Constants DEF Snapshot

-----------------------------------------------------------------------------
(* What each action does to the one task it is about *)

Becomes(w, pc, wake, snap, loaded, last) ==
    /\ worker' \in [Worker -> Task]
    /\ \A q \in Worker \ {w} : worker'[q] = worker[q]
    /\ worker'[w].pc = pc
    /\ worker'[w].wake = wake
    /\ worker'[w].snap = snap
    /\ worker'[w].loaded = loaded
    /\ worker'[w].last = last

Sleeps(w, last) == Becomes(w, "asleep", now + RefreshEvery, None, None, last)

LEMMA SleepEffect ==
    ASSUME TypeOK, NEW w \in Worker, NEW last \in {"kept", "saved", "failed"}, Sleep(w, last)
    PROVE  Sleeps(w, last)
BY Constants DEF TypeOK, Sleep, Sleeps, Becomes, Task, PC

LEMMA StartEffect ==
    ASSUME TypeOK, NEW w \in Worker, Start(w)
    PROVE  Becomes(w, "asleep", now, worker[w].snap, worker[w].loaded, worker[w].last)
BY DEF TypeOK, Start, Becomes, Task, PC

LEMMA StopEffect ==
    ASSUME TypeOK, NEW w \in Worker, Stop(w)
    PROVE  Becomes(w, "down", 0, None, None, "none")
BY DEF TypeOK, Stop, Down, Becomes, Task, PC

LEMMA FetchEffect ==
    ASSUME TypeOK, NEW w \in Worker, Fetch(w)
    PROVE  Becomes(w, "fetching", worker[w].wake, worker[w].snap, worker[w].loaded,
                   worker[w].last)
BY DEF TypeOK, Fetch, Becomes, Task, PC

LEMMA RespondEffect ==
    ASSUME TypeOK, NEW w \in Worker, Respond(w)
    PROVE  \E snap \in Snapshot :
             /\ snap.observed_at <= now /\ now <= snap.observed_at + Period
             /\ snap.fetched_at = now
             /\ Becomes(w, "saving", worker[w].wake, snap, worker[w].loaded, worker[w].last)
<1>1. PICK observed \in 0 .. now :
        /\ now <= observed + Period
        /\ worker' = [worker EXCEPT ![w].pc = "saving",
                                    ![w].snap = [observed_at |-> observed,
                                                 fetched_at |-> now]]
  BY Zenon DEF Respond
<1> DEFINE snap == [observed_at |-> observed, fetched_at |-> now]
<1>2. /\ snap \in Snapshot /\ snap.fetched_at = now
      /\ snap.observed_at = observed /\ observed <= now
  BY DEF TypeOK, Snapshot
<1>3. worker' = [worker EXCEPT ![w].pc = "saving", ![w].snap = snap]
  BY <1>1
<1> HIDE DEF snap
<1>4. Becomes(w, "saving", worker[w].wake, snap, worker[w].loaded, worker[w].last)
  BY <1>2, <1>3 DEF TypeOK, Becomes, Task, PC
<1> QED BY <1>1, <1>2, <1>4

LEMMA MergeGetEffect ==
    ASSUME TypeOK, NEW w \in Worker, MergeGet(w)
    PROVE  Becomes(w, "commit", worker[w].wake, worker[w].snap, cache, worker[w].last)
BY DEF TypeOK, MergeGet, Becomes, Task, PC

(* The columns of the row after a commit come from the row or the snapshot. *)
LEMMA MergedColumns ==
    ASSUME NEW row \in Snapshot, NEW snap \in Snapshot, NEW loaded \in Snapshot
    PROVE  /\ Merged(row, snap, loaded) \in Snapshot
           /\ Merged(row, snap, loaded).fetched_at =
                IF snap.fetched_at # loaded.fetched_at THEN snap.fetched_at ELSE row.fetched_at
           /\ Merged(row, snap, loaded).observed_at =
                IF snap.observed_at # loaded.observed_at THEN snap.observed_at
                                                         ELSE row.observed_at
BY DEF Merged, Snapshot

(* A commit inserts the snapshot, fails on another worker's insert, or merges. *)
LEMMA MergeCommitEffect ==
    ASSUME TypeOK, TaskInv, NEW w \in Worker, MergeCommit(w)
    PROVE  /\ worker[w].snap \in Snapshot
           /\ cache' \in Snapshot
           /\ \/ cache = None /\ cache' = worker[w].snap /\ Sleeps(w, "saved")
              \/ cache # None /\ cache' = cache /\ Sleeps(w, "failed")
              \/ /\ worker[w].loaded \in Snapshot
                 /\ cache \in Snapshot
                 /\ cache' = Merged(cache, worker[w].snap, worker[w].loaded)
                 /\ Sleeps(w, "saved")
<1>1. worker[w].snap \in Snapshot /\ worker[w].loaded \in Snapshot \cup {None}
  BY DEF TypeOK, Task, TaskInv, Punctual, MergeCommit
<1>2. worker[w].loaded # None => cache \in Snapshot
  BY DEF TypeOK, TaskInv, Punctual
<1> QED BY <1>1, <1>2, SleepEffect, MergedColumns DEF MergeCommit, TypeOK

(* The steps of a task, each seen through its effect. *)
Moves(w) ==
    \/ /\ worker[w].pc = "down"
       /\ Becomes(w, "asleep", now, worker[w].snap, worker[w].loaded, worker[w].last)
    \/ Becomes(w, "down", 0, None, None, "none")
    \/ cache # None /\ Age < RefreshEvery /\ Sleeps(w, "kept")
    \/ /\ Due(w)
       /\ Becomes(w, "fetching", worker[w].wake, worker[w].snap, worker[w].loaded,
                  worker[w].last)
    \/ /\ worker[w].pc = "fetching"
       /\ \E snap \in Snapshot :
             /\ snap.observed_at <= now /\ now <= snap.observed_at + Period
             /\ snap.fetched_at = now
             /\ Becomes(w, "saving", worker[w].wake, snap, worker[w].loaded, worker[w].last)
    \/ /\ worker[w].pc = "saving"
       /\ Becomes(w, "commit", worker[w].wake, worker[w].snap, cache, worker[w].last)
    \/ Sleeps(w, "failed")

LEMMA StepShape ==
    ASSUME TypeOK, TaskInv, NEW w \in Worker, Step(w)
    PROVE  /\ now' = now
           /\ worker' \in [Worker -> Task]
           /\ \A q \in Worker \ {w} : worker'[q] = worker[q]
           /\ \/ MergeCommit(w)
              \/ cache' = cache /\ Moves(w)
<1>1. CASE MergeCommit(w)
  BY <1>1, MergeCommitEffect DEF MergeCommit, Sleeps, Becomes
<1>2. CASE Keep(w) \/ RefreshFails(w)
  BY <1>2, SleepEffect DEF Keep, RefreshFails, Moves, Sleeps, Becomes
<1>3. CASE Start(w) \/ Stop(w)
  BY <1>3, StartEffect, StopEffect DEF Start, Stop, Moves, Becomes
<1>4. CASE Fetch(w) \/ Respond(w) \/ MergeGet(w)
  BY <1>4, FetchEffect, RespondEffect, MergeGetEffect
     DEF Fetch, Respond, MergeGet, Moves, Becomes
<1> QED BY <1>1, <1>2, <1>3, <1>4 DEF Step

-----------------------------------------------------------------------------
(* The inductive step, one lemma for each part of TimedInv *)

LEMMA TypeStep == TypeOK /\ TaskInv /\ [Next]_vars => TypeOK'
<1> SUFFICES ASSUME TypeOK, TaskInv, [Next]_vars PROVE TypeOK'
  OBVIOUS
<1>1. CASE UNCHANGED vars
  BY <1>1 DEF vars, TypeOK
<1>2. CASE Tick
  BY <1>2 DEF Tick, TypeOK
<1>3. ASSUME NEW w \in Worker, Step(w) PROVE TypeOK'
  BY <1>3, StepShape, MergeCommitEffect DEF TypeOK
<1> QED BY <1>1, <1>2, <1>3 DEF Next

(* Where the columns of a saved row come from: kept, or fetched just now. *)
LEMMA CommitColumns ==
    ASSUME TypeOK, TaskInv, NEW w \in Worker, MergeCommit(w), cache # None
    PROVE  /\ cache \in Snapshot /\ cache' \in Snapshot
           /\ \/ cache'.fetched_at = cache.fetched_at
              \/ cache'.fetched_at = worker[w].snap.fetched_at
           /\ \/ cache'.observed_at = cache.observed_at
              \/ cache'.observed_at = worker[w].snap.observed_at
BY MergeCommitEffect, MergedColumns DEF TypeOK

(* What a worker is about to save was fetched at most Latency ago. *)
LEMMA RecentSnap ==
    ASSUME TypeOK, TaskInv, NEW w \in Worker, worker[w].snap # None
    PROVE  /\ worker[w].snap \in Snapshot
           /\ now <= worker[w].snap.fetched_at + Latency
           /\ worker[w].snap.fetched_at <= now
           /\ worker[w].snap.observed_at <= worker[w].snap.fetched_at
           /\ worker[w].snap.fetched_at <= worker[w].snap.observed_at + Period
<1>1. /\ worker[w].snap \in Snapshot
      /\ worker[w].wake \in Nat /\ now \in Nat
  BY DEF TypeOK, Task
<1>2. /\ worker[w].snap.observed_at \in Nat
      /\ worker[w].snap.fetched_at \in Nat
  BY <1>1, SnapshotFields
<1> QED BY <1>1, <1>2, Constants DEF TaskInv, Punctual

LEMMA TaskStep == TypeOK /\ TaskInv /\ [Next]_vars => TaskInv'
<1> SUFFICES ASSUME TypeOK, TaskInv, [Next]_vars, NEW q \in Worker PROVE Punctual(q)'
  BY DEF TaskInv
<1>0. TypeOK' /\ Punctual(q) /\ worker[q] \in Task /\ now \in Nat
  BY TypeStep DEF TaskInv, TypeOK
<1>1. CASE UNCHANGED vars
  BY <1>0, <1>1 DEF vars, Punctual
<1>2. CASE Tick
  <2>1. now' = now + 1 /\ cache' = cache /\ worker' = worker
    BY <1>2 DEF Tick
  <2>2. worker[q].pc # "down" => now < worker[q].wake + Latency
    BY <1>2 DEF Tick
  <2>3. worker[q].wake \in Nat
    BY <1>0 DEF Task
  <2>4. worker[q].snap # None => worker[q].snap.fetched_at \in Nat
    BY <1>0, SnapshotFields DEF Task
  <2> QED BY <1>0, <2>1, <2>2, <2>3, <2>4, Constants DEF Punctual
<1>3. ASSUME NEW w \in Worker, Step(w) PROVE Punctual(q)'
  <2>1. cache # None => cache' # None
    BY <1>3, StepShape, MergeCommitEffect, Constants
  <2>2. now' = now
    BY <1>3, StepShape
  <2>3. CASE q # w
    BY <1>0, <1>3, <2>1, <2>2, <2>3, StepShape DEF Punctual
  <2>4. CASE q = w /\ MergeCommit(w)
    BY <1>0, <2>2, <2>4, MergeCommitEffect, Constants DEF Sleeps, Becomes, Punctual
  <2>5. CASE q = w /\ Moves(w)
    <3> USE <1>0, <2>1, <2>2, <2>5, Constants
    <3>1. CASE Becomes(w, "down", 0, None, None, "none")
      BY <3>1 DEF Becomes, Punctual
    <3>2. CASE Sleeps(w, "kept") \/ Sleeps(w, "failed")
      BY <3>2 DEF Sleeps, Becomes, Punctual
    <3>3. CASE worker[w].pc = "down"
               /\ Becomes(w, "asleep", now, worker[w].snap, worker[w].loaded, worker[w].last)
      BY <3>3 DEF Becomes, Punctual
    <3>4. CASE Due(w) /\ Becomes(w, "fetching", worker[w].wake, worker[w].snap,
                                 worker[w].loaded, worker[w].last)
      BY <3>4 DEF Becomes, Punctual, Due, Task
    <3>5. ASSUME NEW snap \in Snapshot,
                 worker[w].pc = "fetching",
                 snap.observed_at <= now, now <= snap.observed_at + Period,
                 snap.fetched_at = now,
                 Becomes(w, "saving", worker[w].wake, snap, worker[w].loaded, worker[w].last)
          PROVE  Punctual(q)'
      BY <3>5, SnapshotFields DEF Becomes, Punctual, Task
    <3>6. CASE worker[w].pc = "saving"
               /\ Becomes(w, "commit", worker[w].wake, worker[w].snap, cache, worker[w].last)
      <4>1. cache' = cache \/ cache' # None
        BY <1>3, StepShape, MergeCommitEffect, Constants
      <4> QED BY <3>6, <4>1 DEF Becomes, Punctual
    <3> QED BY <2>5, <3>1, <3>2, <3>3, <3>4, <3>5, <3>6 DEF Moves
  <2> QED BY <1>3, <2>3, <2>4, <2>5, StepShape
<1> QED BY <1>1, <1>2, <1>3 DEF Next

LEMMA CacheStep == TypeOK /\ TaskInv /\ CacheInv /\ [Next]_vars => CacheInv'
<1> SUFFICES ASSUME TypeOK, TaskInv, CacheInv, [Next]_vars PROVE CacheInv'
  OBVIOUS
<1>1. CASE UNCHANGED vars
  BY <1>1 DEF vars, CacheInv
<1>2. CASE Tick
  BY <1>2, SnapshotFields DEF Tick, CacheInv, TypeOK
<1>3. ASSUME NEW w \in Worker, Step(w) PROVE CacheInv'
  <2>1. now' = now /\ (cache' = cache \/ MergeCommit(w))
    BY <1>3, StepShape
  <2>2. CASE cache' = cache
    BY <2>1, <2>2 DEF CacheInv
  <2>3. CASE MergeCommit(w)
    <3>1. /\ worker[w].snap.fetched_at <= now
          /\ worker[w].snap.observed_at <= now
      BY <2>3, MergeCommitEffect, RecentSnap, SnapshotFields, Constants DEF TypeOK
    <3>2. CASE cache = None
      BY <2>1, <2>3, <3>1, <3>2, MergeCommitEffect, Constants DEF CacheInv
    <3>3. CASE cache # None
      BY <2>1, <2>3, <3>1, <3>3, CommitColumns DEF CacheInv
    <3> QED BY <3>2, <3>3
  <2> QED BY <2>1, <2>2, <2>3
<1> QED BY <1>1, <1>2, <1>3 DEF Next

LEMMA OverlapStep == TypeOK /\ TaskInv /\ OverlapInv /\ [Next]_vars => OverlapInv'
<1> SUFFICES ASSUME TypeOK, TaskInv, OverlapInv, [Next]_vars, NEW q \in Worker,
                    worker'[q].loaded # None
             PROVE  Overlap(q)'
  BY DEF OverlapInv, Overlap
<1>1. CASE UNCHANGED vars
  BY <1>1 DEF vars, OverlapInv, Overlap
<1>2. CASE Tick
  BY <1>2 DEF Tick, OverlapInv, Overlap
<1>3. ASSUME NEW w \in Worker, Step(w) PROVE Overlap(q)'
  <2>1. CASE q = w
    <3>1. ~MergeCommit(w)
      BY <2>1, MergeCommitEffect DEF Sleeps, Becomes
    <3>2. cache' = cache /\ Moves(w)
      BY <1>3, <3>1, StepShape
    <3>3. \/ worker'[w].loaded = cache
          \/ worker[w].loaded = worker'[w].loaded /\ worker[w].pc # "commit"
      BY <2>1, <3>2 DEF Moves, Becomes, Sleeps, Due
    <3> QED BY <2>1, <3>2, <3>3 DEF Overlap, TaskInv, Punctual
  <2>2. CASE q # w
    <3>1. worker'[q] = worker[q] /\ worker[q].loaded # None
      BY <1>3, <2>2, StepShape
    <3>2. CASE cache' = cache
      BY <3>1, <3>2 DEF OverlapInv, Overlap
    <3>3. CASE MergeCommit(w)
      <4>1. worker[q].snap # None /\ worker[w].snap # None /\ cache # None
        BY <3>1, <3>3, MergeCommitEffect, Constants DEF TaskInv, Punctual
      <4>2. /\ worker[q].snap.fetched_at \in Nat
            /\ worker[w].snap.fetched_at \in Nat
            /\ worker[w].snap.observed_at \in Nat
            /\ worker[q].snap.fetched_at <= now
            /\ now <= worker[w].snap.fetched_at + Latency
            /\ worker[w].snap.fetched_at <= worker[w].snap.observed_at + Period
        BY <4>1, RecentSnap, SnapshotFields
      <4>3. /\ worker[q].snap.fetched_at <= worker[w].snap.fetched_at + Latency
            /\ worker[q].snap.fetched_at <= worker[w].snap.observed_at + Period + Latency
        BY <4>2, Constants DEF TypeOK
      <4> QED BY <3>1, <3>3, <4>1, <4>3, CommitColumns DEF OverlapInv, Overlap
    <3> QED BY <1>3, <3>2, <3>3, StepShape
  <2> QED BY <2>1, <2>2
<1> QED BY <1>1, <1>2, <1>3 DEF Next

(* The four ways in which a merge can mix the columns of two snapshots. *)
LEMMA HonestStep == TimedInv /\ [Next]_vars => HonestAge'
<1> SUFFICES ASSUME TimedInv, [Next]_vars PROVE HonestAge'
  OBVIOUS
<1> USE DEF TimedInv
<1>1. CASE UNCHANGED vars \/ Tick
  BY <1>1 DEF vars, Tick, HonestAge
<1>2. ASSUME NEW w \in Worker, Step(w) PROVE HonestAge'
  <2>1. CASE cache' = cache
    BY <2>1 DEF HonestAge
  <2>2. CASE MergeCommit(w)
    <3> DEFINE snap == worker[w].snap
               loaded == worker[w].loaded
    <3>1. /\ snap \in Snapshot
          /\ snap.observed_at \in Nat /\ snap.fetched_at \in Nat /\ now \in Nat
          /\ now <= snap.fetched_at + Latency
          /\ snap.fetched_at <= now
          /\ snap.observed_at <= snap.fetched_at
          /\ snap.fetched_at <= snap.observed_at + Period
      BY <2>2, MergeCommitEffect, RecentSnap, SnapshotFields, Constants DEF TypeOK
    <3>2. CASE cache = None /\ cache' = snap
      BY <3>1, <3>2, Constants DEF HonestAge
    <3>3. CASE cache # None /\ cache' = cache
      BY <3>3 DEF HonestAge
    <3>4. CASE /\ loaded \in Snapshot /\ cache \in Snapshot
               /\ cache' = Merged(cache, snap, loaded)
      <4>1. /\ cache.observed_at \in Nat /\ cache.fetched_at \in Nat
            /\ cache.observed_at <= now /\ cache.fetched_at <= now
            /\ cache.observed_at <= cache.fetched_at + Latency
            /\ cache.fetched_at <= cache.observed_at + Period + Latency
        BY <3>4, SnapshotFields DEF CacheInv, HonestAge
      <4>2. /\ cache.fetched_at = loaded.fetched_at
                 \/ snap.fetched_at <= cache.fetched_at + Latency
            /\ cache.observed_at = loaded.observed_at
                 \/ snap.fetched_at <= cache.observed_at + Period + Latency
        BY <3>4, SnapshotFields DEF OverlapInv, Overlap
      <4>3. /\ cache'.fetched_at = IF snap.fetched_at # loaded.fetched_at
                                   THEN snap.fetched_at ELSE cache.fetched_at
            /\ cache'.observed_at = IF snap.observed_at # loaded.observed_at
                                    THEN snap.observed_at ELSE cache.observed_at
        BY <3>1, <3>4, MergedColumns
      <4> HIDE DEF snap, loaded
      <4> QED BY <3>1, <4>1, <4>2, <4>3, Constants DEF HonestAge
    <3> QED BY <2>2, <3>2, <3>3, <3>4, MergeCommitEffect
  <2> QED BY <1>2, <2>1, <2>2, StepShape
<1> QED BY <1>1, <1>2 DEF Next

LEMMA InitTimed == Init => TimedInv
<1> SUFFICES ASSUME Init PROVE TimedInv
  OBVIOUS
<1>1. /\ now = 0 /\ cache = None
      /\ worker = [w \in Worker |-> [pc |-> "down", wake |-> 0, snap |-> None,
                                     loaded |-> None, last |-> "none"]]
  BY DEF Init, Down
<1>2. TypeOK
  BY <1>1, Constants DEF TypeOK, Task, PC
<1>3. TaskInv /\ OverlapInv /\ CacheInv /\ HonestAge
  BY <1>1, Constants DEF TaskInv, Punctual, OverlapInv, Overlap, CacheInv, HonestAge
<1> QED BY <1>2, <1>3 DEF TimedInv

LEMMA TimedStep == TimedInv /\ [Next]_vars => TimedInv'
BY TypeStep, TaskStep, CacheStep, OverlapStep, HonestStep DEF TimedInv

THEOREM Timed == Spec => []TimedInv
BY InitTimed, TimedStep, PTL DEF Spec

(* The types, without a bound on the clock. *)
THEOREM TypeCorrect == Spec => []TypeOK
<1>1. TimedInv => TypeOK
  BY DEF TimedInv
<1> QED BY Timed, <1>1, PTL

(* The age the dashboard computes is that of the observation, up to *)
(* Period + Latency, although commits mix the columns of snapshots. *)
THEOREM AgeIsHonest == Spec => []HonestAge
<1>1. TimedInv => HonestAge
  BY DEF TimedInv
<1> QED BY Timed, <1>1, PTL

(* A late save sets fetched_at back by at most Latency, and the row stays. *)
THEOREM RegressionIsBounded == Spec => LittleRegression
<1>1. TimedInv /\ [Next]_vars =>
        [cache # None => cache' # None /\ cache.fetched_at <= cache'.fetched_at + Latency]_vars
  <2> SUFFICES ASSUME TimedInv, Next, cache # None
               PROVE  cache' # None /\ cache.fetched_at <= cache'.fetched_at + Latency
    OBVIOUS
  <2>1. cache \in Snapshot /\ cache.fetched_at \in Nat
    BY SnapshotFields DEF TimedInv, TypeOK
  <2>2. CASE cache' = cache
    BY <2>1, <2>2, Constants
  <2>3. ASSUME NEW w \in Worker, MergeCommit(w)
        PROVE  cache' # None /\ cache.fetched_at <= cache'.fetched_at + Latency
    <3>1. /\ worker[w].snap.fetched_at \in Nat
          /\ now <= worker[w].snap.fetched_at + Latency
      BY <2>3, MergeCommitEffect, RecentSnap, SnapshotFields, Constants DEF TimedInv
    <3>2. cache' \in Snapshot
          /\ \/ cache'.fetched_at = cache.fetched_at
             \/ cache'.fetched_at = worker[w].snap.fetched_at
      BY <2>3, CommitColumns DEF TimedInv
    <3> QED BY <2>1, <3>1, <3>2, Constants DEF TimedInv, CacheInv, TypeOK
  <2> QED BY <2>2, <2>3, StepShape DEF Next, Tick, TimedInv
<1> QED BY Timed, <1>1, PTL DEF Spec, LittleRegression

-----------------------------------------------------------------------------
(* Freshness *)

(* However columns mix, a row that was just saved is at most 2 * Latency old. *)
LEMMA SavedIsRecent ==
    ASSUME TimedInv, NEW w \in Worker, MergeCommit(w), Sleeps(w, "saved")
    PROVE  cache' \in Snapshot /\ now <= cache'.fetched_at + 2 * Latency
<1> DEFINE snap == worker[w].snap
           loaded == worker[w].loaded
<1>1. /\ snap \in Snapshot /\ snap.fetched_at \in Nat /\ now \in Nat
      /\ cache' \in Snapshot
      /\ now <= snap.fetched_at + Latency
  BY MergeCommitEffect, RecentSnap, SnapshotFields, Constants DEF TimedInv, TypeOK
<1>2. CASE cache = None /\ cache' = snap
  BY <1>1, <1>2, Constants
<1>3. CASE cache # None /\ Sleeps(w, "failed")
  BY <1>3 DEF Sleeps, Becomes
<1>4. CASE /\ loaded \in Snapshot /\ cache \in Snapshot
           /\ cache' = Merged(cache, snap, loaded)
  <2>1. cache.fetched_at \in Nat
        /\ \/ cache.fetched_at = loaded.fetched_at
           \/ snap.fetched_at <= cache.fetched_at + Latency
    BY <1>4, SnapshotFields DEF TimedInv, OverlapInv, Overlap
  <2>2. cache'.fetched_at = IF snap.fetched_at # loaded.fetched_at
                            THEN snap.fetched_at ELSE cache.fetched_at
    BY <1>1, <1>4, MergedColumns
  <2> HIDE DEF snap, loaded
  <2> QED BY <1>1, <2>1, <2>2, Constants
<1> QED BY <1>2, <1>3, <1>4, MergeCommitEffect DEF TimedInv

LEMMA CoverStep == Margin /\ IInv /\ [Next]_vars => CoverInv'
<1> SUFFICES ASSUME Margin, TimedInv, CoverInv, [Next]_vars, NEW q \in Worker, Healthy(q)'
             PROVE  cache' # None /\ worker'[q].wake <= cache'.fetched_at + 2 * RefreshEvery
  BY DEF CoverInv, Covered, IInv
<1>0. now \in Nat /\ worker[q] \in Task /\ worker[q].wake \in Nat /\ Covered(q) /\ Punctual(q)
  BY DEF TimedInv, TypeOK, TaskInv, CoverInv, Task
<1>1. CASE UNCHANGED vars \/ Tick
  BY <1>0, <1>1 DEF vars, Tick, Covered, Healthy
<1>2. ASSUME NEW w \in Worker, Step(w)
      PROVE  cache' # None /\ worker'[q].wake <= cache'.fetched_at + 2 * RefreshEvery
  <2>1. CASE worker'[q].last = worker[q].last /\ worker'[q].wake = worker[q].wake
    <3>1. cache # None /\ worker[q].wake <= cache.fetched_at + 2 * RefreshEvery
      BY <1>0, <2>1 DEF Covered, Healthy
    <3>2. CASE cache' = cache
      BY <2>1, <3>1, <3>2
    <3>3. CASE MergeCommit(w)
      <4>1. /\ worker[w].snap.fetched_at \in Nat
            /\ now <= worker[w].snap.fetched_at + Latency
        BY <3>3, MergeCommitEffect, RecentSnap, SnapshotFields, Constants DEF TimedInv
      <4>2. worker[q].wake <= now + RefreshEvery
        BY <1>0 DEF Punctual
      <4>3. worker[q].wake <= worker[w].snap.fetched_at + 2 * RefreshEvery
        BY <1>0, <4>1, <4>2, Constants DEF Margin
      <4> QED BY <2>1, <3>1, <3>3, <4>3, CommitColumns, Constants DEF TimedInv
    <3> QED BY <1>2, <3>2, <3>3, StepShape DEF TimedInv
  <2>2. CASE q = w /\ MergeCommit(w)
    <3>1. Sleeps(w, "saved")
      BY <2>2, MergeCommitEffect DEF TimedInv, Healthy, Sleeps, Becomes
    <3>2. worker'[q].wake = now + RefreshEvery
      BY <2>2, <3>1 DEF Sleeps, Becomes
    <3> QED BY <1>0, <2>2, <3>1, <3>2, SavedIsRecent, SnapshotFields, Constants DEF Margin
  <2>3. CASE q = w /\ cache' = cache /\ cache # None /\ Age < RefreshEvery /\ Sleeps(w, "kept")
    <3>1. cache.fetched_at \in Nat /\ cache.fetched_at <= now
      BY <2>3, SnapshotFields DEF TimedInv, TypeOK, CacheInv
    <3> QED BY <1>0, <2>3, <3>1, Constants DEF Age, Sleeps, Becomes
  <2>4. \/ worker'[q].last = worker[q].last /\ worker'[q].wake = worker[q].wake
        \/ q = w /\ MergeCommit(w)
        \/ q = w /\ cache' = cache /\ cache # None /\ Age < RefreshEvery /\ Sleeps(w, "kept")
    <3>1. CASE q # w \/ MergeCommit(w)
      BY <1>2, <3>1, StepShape DEF TimedInv
    <3>2. CASE q = w /\ Moves(w) /\ cache' = cache
      BY <1>0, <3>2 DEF Moves, Sleeps, Becomes, Healthy, Punctual
    <3> QED BY <1>2, <3>1, <3>2, StepShape DEF TimedInv
  <2> QED BY <2>1, <2>2, <2>3, <2>4
<1> QED BY <1>1, <1>2 DEF Next

LEMMA CoveredIsFresh == Margin /\ IInv => HealthyIsFresh
<1> SUFFICES ASSUME Margin, TimedInv, CoverInv, NEW w \in Worker, Healthy(w)
             PROVE  cache # None /\ ~IsStale
  BY DEF HealthyIsFresh, IInv
<1>1. cache # None /\ worker[w].wake <= cache.fetched_at + 2 * RefreshEvery
  BY DEF CoverInv, Covered
<1>2. cache.fetched_at \in Nat /\ now \in Nat /\ worker[w].wake \in Nat
  BY <1>1, SnapshotFields DEF TimedInv, TypeOK, Task
<1>3. now <= worker[w].wake + Latency
  BY DEF TimedInv, TaskInv, Punctual, Healthy
<1>4. cache.fetched_at <= now
  BY <1>1 DEF TimedInv, CacheInv
<1> QED BY <1>1, <1>2, <1>3, <1>4, Constants DEF IsStale, Age, Margin

(* A dashboard served while a worker is healthy shows weather that is not stale. *)
THEOREM HealthyWorkersKeepFresh == Margin => (Spec => []HealthyIsFresh)
<1> SUFFICES ASSUME Margin PROVE Spec => []HealthyIsFresh
  OBVIOUS
<1>1. Init => IInv
  <2>1. Init => CoverInv
    BY DEF Init, Down, CoverInv, Covered, Healthy
  <2> QED BY <2>1, InitTimed DEF IInv
<1>2. IInv /\ [Next]_vars => IInv'
  BY CoverStep, TimedStep DEF IInv
<1>3. IInv => HealthyIsFresh
  BY CoveredIsFresh
<1> QED BY <1>1, <1>2, <1>3, PTL DEF Spec
=============================================================================
