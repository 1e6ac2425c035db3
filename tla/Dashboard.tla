----------------------------- MODULE Dashboard -----------------------------
(***************************************************************************)
(* What the dashboard and the analytics of one closet compute              *)
(* (closet_service.py, closet_analytics to _ratio), while its items change.*)
(*                                                                         *)
(* The report lists the items once.  The dashboard lists them twice, each  *)
(* time in a transaction of its own: for its summary, and, after it has    *)
(* read the weather, for today's outfit.  How that outfit is composed into *)
(* an image, and may fail at it, is in Outfits.                            *)
(***************************************************************************)
EXTENDS Integers, Sequences, FiniteSetsExt

CONSTANTS
    Item,
    Garment,       \* what the row of each item may show: category, season tags, color, ready
    Temperature,   \* temperatures, in tenths of a degree
    Request,       \* each is made at most once
    MaxChanges,    \* how often items change
    None           \* no item, no weather, no color, no outfit

(* The core, which the dashboard and the report list each for itself. *)
TargetCategories == <<"top", "bottom", "outer", "shoes", "accessory">>
Required == <<"top", "bottom", "outer", "shoes", "accessory">>
CoreCategories == {TargetCategories[k] : k \in DOMAIN TargetCategories}
Season == {"spring", "summer", "fall", "winter"}

ASSUME DashboardAssumption ==
    /\ DOMAIN Garment = Item
    /\ \A i \in Item : \A g \in Garment[i] :
          /\ DOMAIN g = {"category", "seasons", "color", "ready"}
          /\ g.seasons \subseteq Season /\ g.ready \in BOOLEAN
    /\ Temperature \subseteq Int
    /\ MaxChanges \in Nat
    /\ IsFiniteSet(Item)
    /\ None \notin Temperature /\ None \notin Item
    /\ \A i \in Item : None \notin Garment[i]
    /\ \A S \in SUBSET Item : None # S

VARIABLES
    wardrobe,    \* the rows of the closet
    changes,
    req          \* what each request has read

vars == <<wardrobe, changes, req>>

(* What a transaction lists: some items, and what each of them shows. *)
Looks == UNION {Garment[i] : i \in Item}
Listing == UNION {[S -> Looks] : S \in SUBSET Item}

PC == {"idle", "summary", "weather", "outfit", "report", "done"}
Score == {0, 20, 40, 60, 80, 100}

(* proposed is what the engine answered, today the outfit chosen from it;
   touched are the items that changed since the first listing, which the
   code does not know.                                                     *)
Call == [pc : PC, op : {"none", "dashboard", "analytics"}, listed : Listing,
         score : Score, weather : Temperature \cup {None}, relisted : Listing,
         proposed : SUBSET SUBSET Item, today : {None} \cup SUBSET Item,
         touched : SUBSET Item]

NoItems == [i \in {} |-> None]
NoCall == [pc |-> "idle", op |-> "none", listed |-> NoItems, score |-> 0, weather |-> None,
           relisted |-> NoItems, proposed |-> {}, today |-> None, touched |-> {}]

Init ==
    /\ wardrobe \in {w \in [Item -> Looks \cup {None}] :
                        \A i \in Item : w[i] \in Garment[i] \cup {None}}
    /\ changes = 0
    /\ req = [r \in Request |-> NoCall]

(* list_items, and the filter on ItemStatus.READY. *)
ReadyOrNot == [i \in {j \in Item : wardrobe[j] # None} |-> wardrobe[i]]
Ready == [i \in {j \in Item : wardrobe[j] # None /\ wardrobe[j].ready} |-> wardrobe[i]]

-----------------------------------------------------------------------------
(* The summary of a dashboard. *)

Present(items) == {items[i].category : i \in DOMAIN items}
Covered(items) == CoreCategories \cap Present(items)

(* The comprehension over one of the lists: those of the five not in present. *)
Unless(c, present) == IF c \in present THEN <<>> ELSE <<c>>
Lacking(five, present) ==
    Unless(five[1], present) \o Unless(five[2], present) \o Unless(five[3], present)
        \o Unless(five[4], present) \o Unless(five[5], present)

Missing(items) == Lacking(TargetCategories, Present(items))

(* Mutant of Completeness: the share of the items. *)
CompletenessOfItems(items) ==
    IF DOMAIN items = {} THEN 0
    ELSE (100 * Cardinality(Covered(items))) \div Cardinality(DOMAIN items)

Completeness(items) == (100 * Cardinality(Covered(items))) \div Len(TargetCategories)

(* _weather_seasons: the bands of temperature. *)
WeatherSeasons(temperature) ==
    CASE temperature < 100 -> {"winter"}
      [] temperature \in 100 .. 199 -> {"spring", "fall"}
      [] temperature \in 200 .. 279 -> {"spring", "summer", "fall"}
      [] temperature >= 280 -> {"summer"}

(* _candidate_weather_score: of the items that have season tags, the share
   that has a preferred one; as <<numerator, denominator>>.                *)
Tagged(outfit, items) == {i \in outfit : items[i].seasons # {}}
Suited(outfit, items, preferred) == {i \in outfit : items[i].seasons \cap preferred # {}}

(* Mutant of WeatherScore: the sum is not divided. *)
WeatherScoreUndivided(outfit, items, preferred) ==
    <<Cardinality(Suited(outfit, items, preferred)), 1>>

WeatherScore(outfit, items, preferred) ==
    IF Tagged(outfit, items) = {} THEN <<0, 1>>
    ELSE <<Cardinality(Suited(outfit, items, preferred)), Cardinality(Tagged(outfit, items))>>

AtLeast(a, b) == a[1] * b[2] >= b[1] * a[2]

(* The outfit engine of the library, as README.md describes it: a top, a
   bottom, and one of every other category there is.                       *)
Combinations(items) ==
    IF {"top", "bottom"} \subseteq Present(items)
    THEN {o \in SUBSET DOMAIN items :
            /\ {items[i].category : i \in o} = Present(items) \cap CoreCategories
            /\ \A i, j \in o : items[i].category = items[j].category => i = j}
    ELSE {}

(* Its answer: some of the best of them, at most the limit; none if there is
   no combination.  With preferred seasons it is asked for three times the
   limit and the answer is sorted by the weather first.                    *)
Proposals(items, limit) ==
    {P \in UNION {kSubset(n, Combinations(items)) : n \in 0 .. limit} :
        P = {} => Combinations(items) = {}}

Preferred(outfits, items, preferred) ==
    {o \in outfits : \A p \in outfits :
        AtLeast(WeatherScore(o, items, preferred), WeatherScore(p, items, preferred))}

-----------------------------------------------------------------------------
(* The report of closet_analytics. *)

(* _ratio, in units of 1/10000: round() goes to the nearest of them.  In the
   middle between two it may be either, as the quotient is not stored exactly. *)
Ratio(count, total) ==
    LET down == (10000 * count) \div total
    IN CHOOSE n \in {down, down + 1} : 2 * (10000 * count - n * total) \in -total .. total

(* A Counter of what each item counts under: every key, and its items. *)
Counter(keys) ==
    [k \in UNION {keys[i] : i \in DOMAIN keys} |-> {i \in DOMAIN keys : k \in keys[i]}]

Counts(counter) == [k \in DOMAIN counter |-> Cardinality(counter[k])]

(* Mutant of Distribution: the ratios are of the items, not of the occurrences. *)
DistributionOfItems(counter) ==
    LET total == Cardinality(UNION {counter[k] : k \in DOMAIN counter})
    IN [k \in DOMAIN counter |-> [count |-> Counts(counter)[k],
                                  ratio |-> Ratio(Counts(counter)[k], total)]]

(* The entries of a list in the report, by their keys. *)
Distribution(counter) ==
    LET total == SumFunction(Counts(counter))
    IN [k \in DOMAIN counter |-> [count |-> Counts(counter)[k],
                                  ratio |-> Ratio(Counts(counter)[k], total)]]

ColorDistribution(items) ==
    Distribution(Counter([i \in DOMAIN items |-> {items[i].color} \ {None}]))

SeasonBalance(items) == Distribution(Counter([i \in DOMAIN items |-> items[i].seasons]))

CategoryCounter(items) ==
    Counter([i \in DOMAIN items |-> {items[i].category} \ {"unknown"}])

CategoryDistribution(items) == Distribution(CategoryCounter(items))

Shortest(s, n) == SubSeq(s, 1, IF Len(s) < n THEN Len(s) ELSE n)

(* Mutant of EssentialRecommendations: cut to three before the filter. *)
EssentialRecommendationsCut(items) ==
    Lacking(Required, DOMAIN CategoryCounter(items) \cup {Required[4], Required[5]})

EssentialRecommendations(items) ==
    Shortest(Lacking(Required, DOMAIN CategoryCounter(items)), 3)

-----------------------------------------------------------------------------
(* The requests *)

Ask(r) ==
    /\ req[r].pc = "idle"
    /\ \E op \in {"dashboard", "analytics"} :
          req' = [req EXCEPT ![r].op = op,
                             ![r].pc = IF op = "dashboard" THEN "summary" ELSE "report"]
    /\ UNCHANGED <<wardrobe, changes>>

ListForReport(r) ==
    /\ req[r].pc = "report"
    /\ req' = [req EXCEPT ![r].pc = "done", ![r].listed = Ready]
    /\ UNCHANGED <<wardrobe, changes>>

(* Mutant of ListForSummary: items that are not ready are counted. *)
ListForSummaryAll(r) ==
    /\ req[r].pc = "summary"
    /\ req' = [req EXCEPT ![r].pc = "weather", ![r].listed = ReadyOrNot,
                          ![r].score = Completeness(ReadyOrNot)]
    /\ UNCHANGED <<wardrobe, changes>>

ListForSummary(r) ==
    /\ req[r].pc = "summary"
    /\ req' = [req EXCEPT ![r].pc = "weather", ![r].listed = Ready,
                          ![r].score = Completeness(Ready)]
    /\ UNCHANGED <<wardrobe, changes>>

(* weather_cache.get: the row as WeatherCache leaves it, or none. *)
ReadWeather(r) ==
    /\ req[r].pc = "weather"
    /\ \E t \in Temperature \cup {None} :
          req' = [req EXCEPT ![r].pc = "outfit", ![r].weather = t]
    /\ UNCHANGED <<wardrobe, changes>>

(* outfit_recommendations with a limit of one. *)
ListForOutfit(r) ==
    LET t == req[r].weather IN
    /\ req[r].pc = "outfit"
    /\ \E P \in Proposals(Ready, IF t = None THEN 1 ELSE 3) :
       \E today \in IF P = {} THEN {None}
                    ELSE IF t = None THEN P
                    ELSE Preferred(P, Ready, WeatherSeasons(t)) :
          req' = [req EXCEPT ![r].pc = "done", ![r].relisted = Ready,
                             ![r].proposed = P, ![r].today = today]
    /\ UNCHANGED <<wardrobe, changes>>

(* An item is saved, edited, taken back to processing or deleted.  Not while no
   request is under way: what is then changed is another initial wardrobe.    *)
Change(i) ==
    /\ changes < MaxChanges
    /\ \E r \in Request : req[r].pc \notin {"idle", "done"}
    /\ \E g \in (Garment[i] \cup {None}) \ {wardrobe[i]} :
          wardrobe' = [wardrobe EXCEPT ![i] = g]
    /\ changes' = changes + 1
    /\ req' = [r \in Request |->
                 IF req[r].pc \in {"weather", "outfit"}
                 THEN [req[r] EXCEPT !.touched = @ \cup {i}] ELSE req[r]]

Serve(r) ==
    \/ Ask(r) \/ ListForReport(r)
    \/ ListForSummary(r) \/ ReadWeather(r) \/ ListForOutfit(r)

Next == (\E r \in Request : Serve(r)) \/ (\E i \in Item : Change(i))

Spec == Init /\ [][Next]_vars

-----------------------------------------------------------------------------
TypeOK ==
    /\ DOMAIN wardrobe = Item
    /\ \A i \in Item : wardrobe[i] \in Garment[i] \cup {None}
    /\ changes \in 0 .. MaxChanges
    /\ DOMAIN req = Request
    /\ \A r \in Request :
          /\ DOMAIN req[r] = DOMAIN NoCall
          /\ req[r].pc \in PC /\ req[r].op \in {"none", "dashboard", "analytics"}
          /\ \A items \in {req[r].listed, req[r].relisted} :
                DOMAIN items \subseteq Item /\ \A i \in DOMAIN items : items[i] \in Garment[i]
          /\ req[r].score \in Score
          /\ req[r].weather # None => req[r].weather \in Temperature
          /\ req[r].proposed \subseteq SUBSET Item
          /\ req[r].today # None => req[r].today \in SUBSET Item
          /\ req[r].touched \subseteq Item

Answered(op) == {r \in Request : req[r].pc = "done" /\ req[r].op = op}

(* The two listings of a dashboard are two moments, and only an item that
   changed in between tells them apart: every other item of today's outfit
   is among the counted ones and of the category they count it under, and
   when nothing changed there is an outfit exactly if the summary has both a
   top and a bottom.                                                       *)
OnlyChangesTear ==
    \A r \in Answered("dashboard") :
        LET call == req[r] IN
        /\ call.today # None =>
              \A i \in call.today \ call.touched :
                 i \in DOMAIN call.listed /\ call.listed[i] = call.relisted[i]
        /\ call.touched = {} =>
              (call.today = None <=> ~ {"top", "bottom"} \subseteq Present(call.listed))

(* Dashboard and report agree on the same items, though they compute what is
   missing in two ways: the report recommends the first three categories that
   the dashboard calls missing, in its order, none exactly when the dashboard
   gives the full score, and it distributes the covered ones.              *)
ReportsAgree ==
    \A r \in Answered("dashboard") :
        LET items == req[r].listed IN
        /\ EssentialRecommendations(items) = Shortest(Missing(items), 3)
        /\ EssentialRecommendations(items) = <<>> <=> req[r].score = 100
        /\ DOMAIN CategoryDistribution(items) \cap CoreCategories = Covered(items)

(* The ratios of a distribution add up to one, as exactly as rounding each of
   them to four places allows, whatever the closet holds: an item may count
   under several keys or under none.  Of two entries the one with more items
   never shows the smaller ratio, and zero stands for at most one in twenty
   thousand.                                                                 *)
AddsUp(entries) ==
    LET keys == DOMAIN entries
        total == SumFunction([k \in keys |-> entries[k].count])
        sum == SumFunction([k \in keys |-> entries[k].ratio])
    IN /\ keys # {} => 2 * (sum - 10000) \in -Cardinality(keys) .. Cardinality(keys)
       /\ \A j, k \in keys :
             entries[j].count > entries[k].count => entries[j].ratio >= entries[k].ratio
       /\ \A k \in keys : entries[k].ratio = 0 => 20000 * entries[k].count <= total

RatiosAddUp ==
    \A r \in Answered("analytics") :
        LET items == req[r].listed IN
        AddsUp(ColorDistribution(items)) /\ AddsUp(SeasonBalance(items))
            /\ AddsUp(CategoryDistribution(items))

(* When the engine proposes an outfit that suits the weather in all that is
   tagged, the dashboard shows one that does, however many more items of
   another suit and whatever its other scores.                             *)
FullySuited(outfit, items, preferred) ==
    Tagged(outfit, items) # {} /\ Tagged(outfit, items) = Suited(outfit, items, preferred)

SuitedOutfitWins ==
    \A r \in Answered("dashboard") :
        LET call == req[r]
            suits(o) == FullySuited(o, call.relisted, WeatherSeasons(call.weather))
        IN call.weather # None /\ (\E o \in call.proposed : suits(o)) => suits(call.today)
=============================================================================
