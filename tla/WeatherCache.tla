----------------------------- MODULE WeatherCache -----------------------------
(***************************************************************************)
(* The weather cache: every API worker process runs CachedWeatherService.  *)
(* run, which refreshes the one row of the weather_cache table and sleeps; *)
(* a dashboard request reads the row and computes its is_stale.            *)
(*                                                                         *)
(* Time is counted in minutes.  A worker that is due finishes its refresh  *)
(* within Latency minutes, which stands for the 10 s timeouts of the HTTP  *)
(* client and for the event loop being late; a refresh may fail at every   *)
(* step and a worker may stop and start again at any time.                 *)
(***************************************************************************)
EXTENDS Naturals

CONSTANTS
    Worker,         \* API worker processes
    RefreshEvery,   \* refresh_seconds, in minutes
    MaxAge,         \* max_age
    Latency,        \* the longest a refresh takes, counted from when it is due
    Period,         \* the provider renews its observation this often
    Horizon,        \* bound of the clock: no Tick goes past it
    None

VARIABLES
    now,        \* datetime.now(UTC)
    cache,      \* the row of weather_cache, or None
    worker      \* the weather task of each process

vars == <<now, cache, worker>>

(* observed_at stands for all that comes from the provider: two snapshots *)
(* of the same observation differ in fetched_at only.                     *)
Snapshot == [observed_at : Nat, fetched_at : Nat]

ASSUME WeatherAssumption ==
    /\ RefreshEvery \in Nat \ {0}
    /\ {MaxAge, Latency, Period, Horizon} \subseteq Nat
    /\ None \notin Snapshot

PC == {"down", "asleep", "fetching", "saving", "commit"}

(* wake is when the task is due next (or was, while it refreshes), snap what *)
(* fetch returned, loaded the row merge selected, last how the last refresh  *)
(* of this process ended: what its log tells.                                *)
Task == [pc : PC, wake : Nat, snap : Snapshot \cup {None},
         loaded : Snapshot \cup {None}, last : {"none", "kept", "saved", "failed"}]

TypeOK ==
    /\ now \in Nat
    /\ cache \in Snapshot \cup {None}
    /\ worker \in [Worker -> Task]

Down == [pc |-> "down", wake |-> 0, snap |-> None, loaded |-> None, last |-> "none"]

Init ==
    /\ now = 0
    /\ cache = None
    /\ worker = [w \in Worker |-> Down]

-----------------------------------------------------------------------------
(* The lifespan of the application creates the task and cancels it. *)

Start(w) ==
    /\ worker[w].pc = "down"
    /\ worker' = [worker EXCEPT ![w].pc = "asleep", ![w].wake = now]
    /\ UNCHANGED <<now, cache>>

(* Cancelled at an await, or the process dies: CancelledError is not caught. *)
Stop(w) ==
    /\ worker[w].pc # "down"
    /\ worker' = [worker EXCEPT ![w] = Down]
    /\ UNCHANGED <<now, cache>>

-----------------------------------------------------------------------------
(* refresh *)

Age == now - cache.fetched_at

(* The end of refresh, and run's sleep until the next. *)
Sleep(w, last) ==
    worker' = [worker EXCEPT ![w] = [pc |-> "asleep", wake |-> now + RefreshEvery,
                                     snap |-> None, loaded |-> None, last |-> last]]

Due(w) == worker[w].pc = "asleep" /\ now >= worker[w].wake

(* Mutant of Keep: the age that makes a row stale stands for the interval. *)
KeepUntilStale(w) ==
    /\ Due(w)
    /\ cache # None
    /\ Age < MaxAge
    /\ Sleep(w, "kept")
    /\ UNCHANGED <<now, cache>>

Keep(w) ==
    /\ Due(w)
    /\ cache # None
    /\ Age < RefreshEvery
    /\ Sleep(w, "kept")
    /\ UNCHANGED <<now, cache>>

Fetch(w) ==
    /\ Due(w)
    /\ cache # None => Age >= RefreshEvery
    /\ worker' = [worker EXCEPT ![w].pc = "fetching"]
    /\ UNCHANGED <<now, cache>>

(* Mutants of Respond: the provider's time is taken for the fetch's, or none. *)
RespondAsObserved(w) ==
    /\ worker[w].pc = "fetching"
    /\ \E observed \in 0 .. now :
          /\ now <= observed + Period
          /\ worker' = [worker EXCEPT ![w].pc = "saving",
                                      ![w].snap = [observed_at |-> observed,
                                                   fetched_at |-> observed]]
    /\ UNCHANGED <<now, cache>>

RespondUnstamped(w) ==
    /\ worker[w].pc = "fetching"
    /\ worker' = [worker EXCEPT ![w].pc = "saving",
                                ![w].snap = [observed_at |-> now, fetched_at |-> None]]
    /\ UNCHANGED <<now, cache>>

(* The response is there and _snapshot stamps it; the client is yet to be closed. *)
Respond(w) ==
    /\ worker[w].pc = "fetching"
    /\ \E observed \in 0 .. now :
          /\ now <= observed + Period
          /\ worker' = [worker EXCEPT ![w].pc = "saving",
                                      ![w].snap = [observed_at |-> observed,
                                                   fetched_at |-> now]]
    /\ UNCHANGED <<now, cache>>

(* session.merge selects the row ... *)
MergeGet(w) ==
    /\ worker[w].pc = "saving"
    /\ worker' = [worker EXCEPT ![w].pc = "commit", ![w].loaded = cache]
    /\ UNCHANGED <<now, cache>>

(* Mutant of Merged: only the time of the fetch is copied. *)
MergedTimeOnly(row, snap, loaded) == [row EXCEPT !.fetched_at = snap.fetched_at]

Merged(row, snap, loaded) ==
    [observed_at |-> IF snap.observed_at # loaded.observed_at THEN snap.observed_at
                                                              ELSE row.observed_at,
     fetched_at |-> IF snap.fetched_at # loaded.fetched_at THEN snap.fetched_at
                                                           ELSE row.fetched_at]

(* ... and the commit inserts it, or updates the columns that differ from *)
(* what was selected.  An INSERT that finds another worker's row violates *)
(* the primary key: an exception like any other.                          *)
MergeCommit(w) ==
    LET task == worker[w] IN
    /\ task.pc = "commit"
    /\ \/ /\ task.loaded = None /\ cache = None
          /\ cache' = task.snap
          /\ Sleep(w, "saved")
       \/ /\ task.loaded = None /\ cache # None
          /\ Sleep(w, "failed")
          /\ UNCHANGED cache
       \/ /\ task.loaded # None
          /\ cache' = Merged(cache, task.snap, task.loaded)
          /\ Sleep(w, "saved")
    /\ UNCHANGED now

(* Any exception of the database or the provider ends the refresh. *)
RefreshFails(w) ==
    /\ Due(w) \/ worker[w].pc \in {"fetching", "saving", "commit"}
    /\ Sleep(w, "failed")
    /\ UNCHANGED <<now, cache>>

-----------------------------------------------------------------------------

Tick ==
    /\ now < Horizon
    /\ \A w \in Worker : worker[w].pc # "down" => now < worker[w].wake + Latency
    /\ now' = now + 1
    /\ UNCHANGED <<cache, worker>>

Step(w) ==
    \/ Start(w) \/ Stop(w)
    \/ Keep(w) \/ Fetch(w) \/ Respond(w) \/ MergeGet(w) \/ MergeCommit(w)
    \/ RefreshFails(w)

Next == Tick \/ \E w \in Worker : Step(w)

Spec == Init /\ [][Next]_vars

-----------------------------------------------------------------------------
(* CachedWeatherService.get *)

IsStale == cache # None /\ Age > MaxAge

-----------------------------------------------------------------------------
(* Properties *)

(* The margins between the settings: 30 and 90 minutes leave 15 for Latency. *)
Margin == 2 * Latency <= RefreshEvery /\ 2 * RefreshEvery + Latency <= MaxAge

(* While any worker is up whose last refresh did not fail, the dashboard has *)
(* weather and it is not stale, whatever the other workers do: restarts, a   *)
(* refresh skipped just before it was due and the late save of an older      *)
(* snapshot all fit in the margin.                                           *)
Healthy(w) == worker[w].last \in {"kept", "saved"}
HealthyIsFresh ==
    (\E w \in Worker : Healthy(w)) => cache # None /\ ~IsStale

(* A worker that was slow to save may put an older snapshot over a newer one, *)
(* but fetched_at never goes back by more than the time a refresh takes.      *)
LittleRegression ==
    [][cache # None => /\ cache' # None
                       /\ cache.fetched_at <= cache'.fetched_at + Latency]_vars

(* Two workers that save at once may leave the columns of two snapshots in    *)
(* the row.  The age the dashboard computes is still that of the observation, *)
(* up to the provider's period and the time a refresh takes.                  *)
HonestAge ==
    cache # None =>
        /\ cache.observed_at <= cache.fetched_at + Latency
        /\ cache.fetched_at <= cache.observed_at + Period + Latency

-----------------------------------------------------------------------------
(* The inductive invariant *)

(* A task is punctual, and what it fetched it fetched since it was due. *)
Punctual(w) ==
    LET task == worker[w] IN
    /\ task.pc = "down" => task.last = "none"
    /\ task.pc # "down" => now <= task.wake + Latency
    /\ task.wake <= now + RefreshEvery
    /\ task.pc \in {"fetching", "saving", "commit"} => task.wake <= now
    /\ task.pc \in {"saving", "commit"} <=> task.snap # None
    /\ task.snap # None =>
          /\ task.snap.observed_at <= task.snap.fetched_at
          /\ task.snap.fetched_at <= task.snap.observed_at + Period
          /\ task.wake <= task.snap.fetched_at
          /\ task.snap.fetched_at <= now
    /\ task.loaded # None => task.pc = "commit" /\ cache # None
TaskInv == \A w \in Worker : Punctual(w)

(* Columns written since a worker selected the row come from a fetch that is *)
(* at most Latency older than the worker's own.                              *)
Overlap(w) ==
    LET snap == worker[w].snap
        loaded == worker[w].loaded
    IN  loaded # None =>
          /\ \/ cache.fetched_at = loaded.fetched_at
             \/ snap.fetched_at <= cache.fetched_at + Latency
          /\ \/ cache.observed_at = loaded.observed_at
             \/ snap.fetched_at <= cache.observed_at + Period + Latency
OverlapInv == \A w \in Worker : Overlap(w)

CacheInv == cache # None => cache.fetched_at <= now /\ cache.observed_at <= now

(* Two refresh intervals cover a healthy worker until it is due again. *)
Covered(w) ==
    Healthy(w) => cache # None /\ worker[w].wake <= cache.fetched_at + 2 * RefreshEvery
CoverInv == \A w \in Worker : Covered(w)

(* Without CoverInv, which alone needs Margin. *)
TimedInv == TypeOK /\ TaskInv /\ OverlapInv /\ CacheInv /\ HonestAge

IInv == TimedInv /\ CoverInv
=============================================================================
