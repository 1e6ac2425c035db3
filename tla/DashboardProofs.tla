-------------------------- MODULE DashboardProofs --------------------------
(***************************************************************************)
(* Proofs about Dashboard, for any number of items, requests and changes.  *)
(***************************************************************************)
EXTENDS Dashboard, SumTheorems

Type ==
    /\ wardrobe \in [Item -> Looks \cup {None}]
    /\ \A i \in Item : wardrobe[i] \in Garment[i] \cup {None}
    /\ changes \in 0 .. MaxChanges
    /\ req \in [Request -> Call]
    /\ \A r \in Request :
          /\ \A i \in DOMAIN req[r].listed : req[r].listed[i] \in Garment[i]
          /\ \A i \in DOMAIN req[r].relisted : req[r].relisted[i] \in Garment[i]

Stage(call) ==
    /\ call.pc \in {"summary", "weather", "outfit"} => call.op = "dashboard"
    /\ call.pc = "report" => call.op = "analytics"

(* Until the second listing, the first is true of all that did not change. *)
SameAt(a, b, i) == (i \in DOMAIN a <=> i \in DOMAIN b) /\ (i \in DOMAIN a => a[i] = b[i])

StillListed(call) ==
    call.pc \in {"weather", "outfit"} =>
        \A i \in Item \ call.touched : SameAt(call.listed, Ready, i)

(* The score is that of the items it is shown with. *)
Scored(call) ==
    call.pc \in {"weather", "outfit"} \/ (call.pc = "done" /\ call.op = "dashboard") =>
        call.score = Completeness(call.listed)

(* What two of the invariants say of one dashboard. *)
Torn(call) ==
    /\ call.today # None =>
          \A i \in call.today \ call.touched :
             i \in DOMAIN call.listed /\ call.listed[i] = call.relisted[i]
    /\ call.touched = {} =>
          (call.today = None <=> ~ {"top", "bottom"} \subseteq Present(call.listed))

Suits(call) ==
    call.weather # None
      /\ (\E o \in call.proposed : FullySuited(o, call.relisted, WeatherSeasons(call.weather)))
    => FullySuited(call.today, call.relisted, WeatherSeasons(call.weather))

Final(call) == call.pc = "done" /\ call.op = "dashboard" => Torn(call) /\ Suits(call)

IInv ==
    /\ Type
    /\ \A r \in Request :
          Stage(req[r]) /\ StillListed(req[r]) /\ Scored(req[r]) /\ Final(req[r])

-----------------------------------------------------------------------------
(* The listings *)

LEMMA ListingFacts ==
    ASSUME NEW l \in Listing
    PROVE  DOMAIN l \subseteq Item /\ l \in [DOMAIN l -> Looks]
BY DEF Listing

LEMMA ReadyListed ==
    ASSUME Type
    PROVE  /\ Ready \in Listing
           /\ DOMAIN Ready \subseteq Item
           /\ \A i \in DOMAIN Ready : Ready[i] \in Garment[i] /\ Ready[i] = wardrobe[i]
<1> DEFINE S == {j \in Item : wardrobe[j] # None /\ wardrobe[j].ready}
<1>1. \A i \in S : wardrobe[i] \in Garment[i] /\ wardrobe[i] \in Looks
  BY DEF Type, Looks
<1>2. Ready \in [S -> Looks]
  BY <1>1 DEF Ready
<1>3. S \in SUBSET Item
  OBVIOUS
<1> QED BY <1>1, <1>2, <1>3 DEF Ready, Listing

LEMMA NoItemsListed == NoItems \in Listing /\ DOMAIN NoItems = {}
<1>1. NoItems \in [{} -> Looks]
  BY DEF NoItems
<1>2. {} \in SUBSET Item
  OBVIOUS
<1> QED BY <1>1, <1>2 DEF Listing, NoItems

LEMMA UpTo ==
    ASSUME NEW n \in Nat
    PROVE  IsFiniteSet(1 .. n) /\ Cardinality(1 .. n) = n
BY FS_Interval

LEMMA CoreSize == IsFiniteSet(CoreCategories) /\ Cardinality(CoreCategories) = 5
<1>1. TargetCategories \in [1 .. 5 -> CoreCategories]
  BY DEF TargetCategories, CoreCategories
<1>2. \A i, j \in 1 .. 5 : TargetCategories[i] = TargetCategories[j] => i = j
  BY DEF TargetCategories
<1>3. \A c \in CoreCategories : \E i \in 1 .. 5 : TargetCategories[i] = c
  BY <1>1 DEF TargetCategories, CoreCategories
<1>4. TargetCategories \in Bijection(1 .. 5, CoreCategories)
  BY <1>1, <1>2, <1>3 DEF Bijection, Injection, IsInjective, Surjection
<1>5. ExistsBijection(1 .. 5, CoreCategories)
  BY <1>4 DEF ExistsBijection
<1>6. IsFiniteSet(1 .. 5) /\ Cardinality(1 .. 5) = 5
  <2>1. 5 \in Nat
    OBVIOUS
  <2> QED BY <2>1, UpTo
<1> QED BY <1>5, <1>6, FS_Bijection

(* The completeness is a multiple of twenty, and full when nothing is missing. *)
LEMMA CompletenessScore ==
    ASSUME NEW items
    PROVE  /\ Completeness(items) \in Score
           /\ Completeness(items) = 100 <=> CoreCategories \subseteq Present(items)
<1> DEFINE size == Cardinality(Covered(items))
<1>1. Covered(items) \in SUBSET CoreCategories
  BY DEF Covered
<1>2. size \in 0 .. 5 /\ (size = 5 <=> Covered(items) = CoreCategories)
  <2>1. IsFiniteSet(Covered(items)) /\ size <= 5 /\ (size = 5 => Covered(items) = CoreCategories)
    BY <1>1, CoreSize, FS_Subset
  <2> QED BY <2>1, CoreSize, FS_CardinalityType
<1>3. Completeness(items) = (100 * size) \div 5
  BY DEF Completeness, TargetCategories
<1> HIDE DEF size
<1>4. \A n \in 0 .. 5 : (100 * n) \div 5 \in Score /\ ((100 * n) \div 5 = 100 <=> n = 5)
  BY DEF Score
<1>5. Covered(items) = CoreCategories <=> CoreCategories \subseteq Present(items)
  BY DEF Covered
<1> QED BY <1>2, <1>3, <1>4, <1>5

-----------------------------------------------------------------------------
(* The engine *)

(* With a top and a bottom there is a combination: take any item of each
   category.                                                               *)
LEMMA CombinationsExist ==
    ASSUME NEW items
    PROVE  Combinations(items) # {} <=> {"top", "bottom"} \subseteq Present(items)
<1>1. ASSUME {"top", "bottom"} \subseteq Present(items)
      PROVE  Combinations(items) # {}
  <2> DEFINE K == Present(items) \cap CoreCategories
             Pick(c) == CHOOSE i \in DOMAIN items : items[i].category = c
             o == {Pick(c) : c \in K}
  <2>1. \A c \in K : Pick(c) \in DOMAIN items /\ items[Pick(c)].category = c
    BY DEF Present
  <2> HIDE DEF Pick
  <2>2. o \in SUBSET DOMAIN items
    BY <2>1
  <2>3. {items[i].category : i \in o} = K
    BY <2>1
  <2>4. \A i, j \in o : items[i].category = items[j].category => i = j
    BY <2>1
  <2> HIDE DEF o
  <2> QED BY <1>1, <2>2, <2>3, <2>4 DEF Combinations
<1>2. ASSUME Combinations(items) # {}
      PROVE  {"top", "bottom"} \subseteq Present(items)
  BY <1>2 DEF Combinations
<1> QED BY <1>1, <1>2

LEMMA ProposalFacts ==
    ASSUME NEW items, NEW limit \in Nat, NEW P \in Proposals(items, limit)
    PROVE  /\ P \subseteq SUBSET DOMAIN items
           /\ P = {} <=> ~ {"top", "bottom"} \subseteq Present(items)
<1>1. P \subseteq Combinations(items) /\ (P = {} => Combinations(items) = {})
  BY DEF Proposals, kSubset
<1>2. Combinations(items) \subseteq SUBSET DOMAIN items
  BY DEF Combinations
<1> QED BY <1>1, <1>2, CombinationsExist

(* One that suits in all its tagged items has the best score there is, so a
   preferred one has it too.                                               *)
LEMMA BestSuits ==
    ASSUME NEW outfits, NEW items, NEW preferred, NEW o \in outfits,
           NEW today \in Preferred(outfits, items, preferred),
           IsFiniteSet(o), IsFiniteSet(today),
           FullySuited(o, items, preferred),
           \A i \in today : items[i].seasons \cap preferred # {} => items[i].seasons # {}
    PROVE  FullySuited(today, items, preferred)
<1> DEFINE t == Tagged(today, items)
           s == Suited(today, items, preferred)
           d == Tagged(o, items)
<1>1. AtLeast(WeatherScore(today, items, preferred), WeatherScore(o, items, preferred))
  BY DEF Preferred
<1>2. d # {} /\ Suited(o, items, preferred) = d
  BY DEF FullySuited
<1>3. IsFiniteSet(d) /\ Cardinality(d) \in Nat /\ Cardinality(d) > 0
  <2>1. d \in SUBSET o
    BY DEF Tagged
  <2>2. IsFiniteSet(d)
    BY <2>1, FS_Subset
  <2> HIDE DEF d
  <2> QED BY <1>2, <2>2, FS_CardinalityType, FS_EmptySet
<1>4. WeatherScore(o, items, preferred) = <<Cardinality(d), Cardinality(d)>>
  BY <1>2 DEF WeatherScore
<1>5. t # {}
  <2>1. SUFFICES ASSUME t = {} PROVE FALSE
    OBVIOUS
  <2>2. WeatherScore(today, items, preferred) = <<0, 1>>
    BY <2>1 DEF WeatherScore
  <2>3. 0 * Cardinality(d) >= Cardinality(d) * 1
    BY <1>1, <1>4, <2>2 DEF AtLeast
  <2> HIDE DEF d
  <2> QED BY <1>3, <2>3
<1>6. WeatherScore(today, items, preferred) = <<Cardinality(s), Cardinality(t)>>
  BY <1>5 DEF WeatherScore
<1>7. Cardinality(s) * Cardinality(d) >= Cardinality(d) * Cardinality(t)
  BY <1>1, <1>4, <1>6 DEF AtLeast
<1>8. s \in SUBSET t /\ t \in SUBSET today
  BY DEF Suited, Tagged
<1> HIDE DEF s, t, d
<1>9. IsFiniteSet(t) /\ IsFiniteSet(s) /\ Cardinality(t) \in Nat /\ Cardinality(s) \in Nat
  BY <1>8, FS_Subset, FS_CardinalityType
<1>10. \A a, b, c \in Nat : c > 0 /\ a * c >= c * b => a >= b
  <2> SUFFICES ASSUME NEW a \in Nat, NEW b \in Nat, NEW c \in Nat, c > 0, a < b
               PROVE  ~ (a * c >= c * b)
    OBVIOUS
  <2>1. PICK k \in Nat : b = a + 1 + k
    <3>1. b - a - 1 \in Nat /\ b = a + 1 + (b - a - 1)
      OBVIOUS
    <3> QED BY <3>1
  <2>2. c * b = a * c + c + c * k
    BY <2>1
  <2>3. c * k >= 0 /\ a * c \in Nat /\ c * k \in Nat
    OBVIOUS
  <2> QED BY <2>2, <2>3
<1>11. Cardinality(s) >= Cardinality(t)
  BY <1>3, <1>7, <1>9, <1>10
<1>12. s = t
  BY <1>8, <1>9, <1>11, FS_Subset
<1> QED BY <1>5, <1>12 DEF FullySuited, s, t

-----------------------------------------------------------------------------
(* The steps *)

LEMMA InitIInv == Init => IInv
<1> SUFFICES ASSUME Init PROVE IInv
  OBVIOUS
<1>1. NoCall \in Call
  BY NoItemsListed DEF NoCall, Call, PC, Score
<1>2. Type
  <2>1. /\ wardrobe \in [Item -> Looks \cup {None}]
        /\ \A i \in Item : wardrobe[i] \in Garment[i] \cup {None}
    BY DEF Init
  <2>2. changes \in 0 .. MaxChanges
    BY DashboardAssumption DEF Init
  <2>3. req \in [Request -> Call] /\ \A r \in Request : req[r] = NoCall
    BY <1>1 DEF Init
  <2>4. DOMAIN NoCall.listed = {} /\ DOMAIN NoCall.relisted = {}
    BY NoItemsListed DEF NoCall
  <2> QED BY <2>1, <2>2, <2>3, <2>4 DEF Type
<1>3. \A r \in Request : req[r] = NoCall
  BY DEF Init
<1>4. Stage(NoCall) /\ StillListed(NoCall) /\ Scored(NoCall) /\ Final(NoCall)
  BY DEF Stage, StillListed, Scored, Final, NoCall
<1> QED BY <1>2, <1>3, <1>4 DEF IInv

Listed(call) ==
    /\ \A i \in DOMAIN call.listed : call.listed[i] \in Garment[i]
    /\ \A i \in DOMAIN call.relisted : call.relisted[i] \in Garment[i]

(* A step of one request leaves the others as they are. *)
LEMMA OneCall ==
    ASSUME IInv, NEW r \in Request, NEW call \in Call,
           wardrobe' = wardrobe, changes' = changes, req' = [req EXCEPT ![r] = call],
           Listed(call), Stage(call), StillListed(call), Scored(call), Final(call)
    PROVE  IInv'
<1>1. Ready' = Ready
  BY DEF Ready
<1>2. \A q \in Request : req'[q] = IF q = r THEN call ELSE req[q]
  BY DEF IInv, Type
<1>3. Type'
  BY <1>2 DEF IInv, Type, Listed
<1>4. \A q \in Request : Stage(req[q])'
  BY <1>2 DEF IInv, Stage
<1>5. \A q \in Request : StillListed(req[q])'
  BY <1>1, <1>2 DEF IInv, StillListed, SameAt
<1>6. \A q \in Request : Scored(req[q])'
  BY <1>2 DEF IInv, Scored
<1>7. \A q \in Request : Final(req[q])'
  BY <1>2 DEF IInv, Final, Torn, Suits
<1> QED BY <1>3, <1>4, <1>5, <1>6, <1>7 DEF IInv

LEMMA AskStep ==
    ASSUME IInv, NEW r \in Request, Ask(r)
    PROVE  IInv'
<1>1. PICK op \in {"dashboard", "analytics"} :
          req' = [req EXCEPT ![r].op = op,
                             ![r].pc = IF op = "dashboard" THEN "summary" ELSE "report"]
  BY DEF Ask
<1> DEFINE call == [req[r] EXCEPT !.op = op,
                                  !.pc = IF op = "dashboard" THEN "summary" ELSE "report"]
<1>2. req[r] \in Call /\ Listed(req[r])
  BY DEF IInv, Type, Listed
<1>3. call \in Call /\ Listed(call)
  BY <1>2 DEF Call, PC, Listed
<1>4. Stage(call) /\ StillListed(call) /\ Scored(call) /\ Final(call)
  BY <1>2 DEF Stage, StillListed, Scored, Final, Call
<1>5. req' = [req EXCEPT ![r] = call]
  BY <1>1
<1> HIDE DEF call
<1> QED BY <1>3, <1>4, <1>5, OneCall DEF Ask

LEMMA ListForReportStep ==
    ASSUME IInv, NEW r \in Request, ListForReport(r)
    PROVE  IInv'
<1> DEFINE call == [req[r] EXCEPT !.pc = "done", !.listed = Ready]
<1>1. Type /\ req[r] \in Call /\ Listed(req[r]) /\ Stage(req[r]) /\ req[r].pc = "report"
  BY DEF IInv, Type, Listed, ListForReport
<1>2. call \in Call /\ Listed(call)
  BY <1>1, ReadyListed DEF Call, PC, Listed
<1>3. Stage(call) /\ StillListed(call) /\ Scored(call) /\ Final(call)
  BY <1>1 DEF Stage, StillListed, Scored, Final, Call
<1>4. req' = [req EXCEPT ![r] = call]
  BY DEF ListForReport
<1> HIDE DEF call
<1> QED BY <1>2, <1>3, <1>4, OneCall DEF ListForReport

LEMMA ListForSummaryStep ==
    ASSUME IInv, NEW r \in Request, ListForSummary(r)
    PROVE  IInv'
<1> DEFINE call == [req[r] EXCEPT !.pc = "weather", !.listed = Ready,
                                  !.score = Completeness(Ready)]
<1>1. Type /\ req[r] \in Call /\ Listed(req[r]) /\ Stage(req[r]) /\ req[r].pc = "summary"
  BY DEF IInv, Type, Listed, ListForSummary
<1>2. call \in Call /\ Listed(call)
  BY <1>1, ReadyListed, CompletenessScore DEF Call, PC, Listed
<1>3. Stage(call) /\ StillListed(call) /\ Scored(call) /\ Final(call)
  BY <1>1 DEF Stage, StillListed, SameAt, Scored, Final, Call
<1>4. req' = [req EXCEPT ![r] = call]
  BY DEF ListForSummary
<1> HIDE DEF call
<1> QED BY <1>2, <1>3, <1>4, OneCall DEF ListForSummary

LEMMA ReadWeatherStep ==
    ASSUME IInv, NEW r \in Request, ReadWeather(r)
    PROVE  IInv'
<1>1. PICK t \in Temperature \cup {None} :
          req' = [req EXCEPT ![r].pc = "outfit", ![r].weather = t]
  BY DEF ReadWeather
<1> DEFINE call == [req[r] EXCEPT !.pc = "outfit", !.weather = t]
<1>2. /\ req[r] \in Call /\ Listed(req[r])
      /\ Stage(req[r]) /\ StillListed(req[r]) /\ Scored(req[r]) /\ req[r].pc = "weather"
  BY DEF IInv, Type, Listed, ReadWeather
<1>3. call \in Call /\ Listed(call)
  BY <1>2 DEF Call, PC, Listed
<1>4. Stage(call) /\ StillListed(call) /\ Scored(call) /\ Final(call)
  BY <1>2 DEF Stage, StillListed, Scored, Final, Call
<1>5. req' = [req EXCEPT ![r] = call]
  BY <1>1
<1> HIDE DEF call
<1> QED BY <1>3, <1>4, <1>5, OneCall DEF ReadWeather

LEMMA ListForOutfitStep ==
    ASSUME IInv, NEW r \in Request, ListForOutfit(r)
    PROVE  IInv'
<1> DEFINE t == req[r].weather
           limit == IF t = None THEN 1 ELSE 3
<1>1. PICK P \in Proposals(Ready, limit) :
      \E d \in IF P = {} THEN {None}
               ELSE IF t = None THEN P
               ELSE Preferred(P, Ready, WeatherSeasons(t)) :
          req' = [req EXCEPT ![r].pc = "done", ![r].relisted = Ready,
                             ![r].proposed = P, ![r].today = d]
  BY DEF ListForOutfit
<1>2. PICK d \in IF P = {} THEN {None}
                ELSE IF t = None THEN P
                ELSE Preferred(P, Ready, WeatherSeasons(t)) :
          req' = [req EXCEPT ![r].pc = "done", ![r].relisted = Ready,
                             ![r].proposed = P, ![r].today = d]
  BY <1>1
<1> DEFINE old == req[r]
           call == [old EXCEPT !.pc = "done", !.relisted = Ready,
                               !.proposed = P, !.today = d]
<1>3. /\ Type /\ old \in Call /\ Listed(old) /\ Stage(old) /\ StillListed(old)
      /\ Scored(old) /\ old.pc = "outfit"
  BY DEF IInv, Type, Listed, ListForOutfit
<1>4. /\ P \subseteq SUBSET DOMAIN Ready
      /\ P = {} <=> ~ {"top", "bottom"} \subseteq Present(Ready)
  <2>1. limit \in Nat
    OBVIOUS
  <2> QED BY <2>1, ProposalFacts
<1>5. IF P = {} THEN d = None ELSE d \in P /\ d # None /\ d \subseteq DOMAIN Ready
  <2>1. CASE P = {}
    BY <1>2, <2>1
  <2>2. CASE P # {}
    <3>1. d \in P
      BY <1>2, <2>2 DEF Preferred
    <3>2. d \in SUBSET Item
      BY <1>3, <1>4, <3>1, ReadyListed
    <3> QED BY <1>4, <2>2, <3>1, <3>2, DashboardAssumption
  <2> QED BY <2>1, <2>2
<1>6. call \in Call /\ Listed(call)
  <2>1. P \in SUBSET SUBSET Item /\ d \in {None} \cup SUBSET Item
    BY <1>3, <1>4, <1>5, ReadyListed
  <2> QED BY <1>3, <2>1, ReadyListed DEF Call, PC, Listed
<1>7. /\ call.pc = "done" /\ call.op = old.op /\ call.listed = old.listed
      /\ call.weather = t /\ call.relisted = Ready /\ call.proposed = P
      /\ call.today = d /\ call.touched = old.touched /\ call.score = old.score
  BY <1>3 DEF Call
<1> HIDE DEF call
<1>8. Stage(call) /\ StillListed(call) /\ Scored(call)
  BY <1>3, <1>7 DEF Stage, StillListed, Scored
<1>9. Torn(call)
  <2>1. \A i \in Item \ old.touched : SameAt(old.listed, Ready, i)
    BY <1>3 DEF StillListed
  <2>2. ASSUME d # None, NEW i \in d \ old.touched
        PROVE  i \in DOMAIN old.listed /\ old.listed[i] = Ready[i]
    BY <1>3, <1>5, <2>1, <2>2, ReadyListed DEF SameAt
  <2>3. ASSUME old.touched = {}
        PROVE  d = None <=> ~ {"top", "bottom"} \subseteq Present(old.listed)
    <3>1. DOMAIN old.listed \subseteq Item /\ DOMAIN Ready \subseteq Item
      BY <1>3, ReadyListed, ListingFacts DEF Call
    <3>2. DOMAIN old.listed = DOMAIN Ready /\ \A i \in DOMAIN Ready : old.listed[i] = Ready[i]
      BY <2>1, <2>3, <3>1 DEF SameAt
    <3>3. Present(old.listed) = Present(Ready)
      BY <3>2 DEF Present
    <3> QED BY <1>4, <1>5, <3>3
  <2> QED BY <1>7, <2>2, <2>3 DEF Torn
<1>10. Suits(call)
  <2> SUFFICES ASSUME t # None, NEW o \in P, FullySuited(o, Ready, WeatherSeasons(t))
               PROVE  FullySuited(d, Ready, WeatherSeasons(t))
    BY <1>7 DEF Suits
  <2>1. d \in Preferred(P, Ready, WeatherSeasons(t))
    BY <1>2
  <2>2. d \in SUBSET Item /\ o \in SUBSET Item
    BY <1>3, <1>4, <1>5, ReadyListed
  <2>3. IsFiniteSet(d) /\ IsFiniteSet(o)
    BY <2>2, FS_Subset, DashboardAssumption
  <2>4. \A i \in d : Ready[i].seasons \cap WeatherSeasons(t) # {} => Ready[i].seasons # {}
    OBVIOUS
  <2> QED BY <2>1, <2>3, <2>4, BestSuits
<1>11. Final(call)
  BY <1>9, <1>10 DEF Final
<1>12. req' = [req EXCEPT ![r] = call]
  BY <1>2 DEF call
<1> HIDE DEF old
<1> QED BY <1>6, <1>8, <1>11, <1>12, OneCall DEF ListForOutfit

LEMMA ChangeStep ==
    ASSUME IInv, NEW i \in Item, Change(i)
    PROVE  IInv'
<1>1. PICK g \in Garment[i] \cup {None} : wardrobe' = [wardrobe EXCEPT ![i] = g]
  BY DEF Change
<1> DEFINE Open(q) == req[q].pc \in {"weather", "outfit"}
           Touch(q) == [req[q] EXCEPT !.touched = @ \cup {i}]
<1>2. \A q \in Request : req'[q] = IF Open(q) THEN Touch(q) ELSE req[q]
  BY DEF Change
<1>3. \A q \in Request : req[q] \in Call /\ Touch(q) \in Call
  BY DEF IInv, Type, Call
<1>4. \A q \in Request :
          /\ req'[q] \in Call
          /\ req'[q].pc = req[q].pc /\ req'[q].op = req[q].op
          /\ req'[q].listed = req[q].listed /\ req'[q].relisted = req[q].relisted
          /\ req'[q].score = req[q].score
          /\ req'[q].touched = IF Open(q) THEN req[q].touched \cup {i} ELSE req[q].touched
  BY <1>2, <1>3 DEF Call
<1>5. Type'
  <2>1. /\ wardrobe' \in [Item -> Looks \cup {None}]
        /\ \A j \in Item : wardrobe'[j] \in Garment[j] \cup {None}
    BY <1>1 DEF IInv, Type, Looks
  <2>2. changes' \in 0 .. MaxChanges
    BY DashboardAssumption DEF IInv, Type, Change
  <2>3. DOMAIN req' = Request /\ req' = [q \in Request |-> req'[q]]
    BY DEF Change
  <2>4. req' \in [Request -> Call]
    BY <1>4, <2>3
  <2> QED BY <1>4, <2>1, <2>2, <2>4 DEF IInv, Type
<1>6. \A q \in Request : Stage(req[q])'
  BY <1>4 DEF IInv, Stage
<1>7. \A q \in Request : StillListed(req[q])'
  <2>1. \A j \in Item \ {i} : SameAt(Ready, Ready', j)
    BY <1>1 DEF SameAt, Ready, IInv, Type
  <2>2. SUFFICES ASSUME NEW q \in Request, Open(q), NEW j \in Item \ req'[q].touched
                 PROVE  SameAt(req[q].listed, Ready', j)
    BY <1>4 DEF StillListed
  <2>3. SameAt(req[q].listed, Ready, j) /\ j # i
    BY <1>4, <2>2 DEF IInv, StillListed
  <2> QED BY <2>1, <2>3 DEF SameAt
<1>8. \A q \in Request : Final(req[q])'
  <2> TAKE q \in Request
  <2>1. CASE Open(q)
    BY <1>4, <2>1 DEF Final
  <2>2. CASE ~ Open(q)
    <3>1. req'[q] = req[q]
      BY <1>2, <2>2
    <3> QED BY <3>1 DEF IInv, Final, Torn, Suits
  <2> QED BY <2>1, <2>2
<1>9. \A q \in Request : Scored(req[q])'
  BY <1>4 DEF IInv, Scored
<1> QED BY <1>5, <1>6, <1>7, <1>8, <1>9 DEF IInv

LEMMA Inductive ==
    ASSUME IInv, [Next]_vars
    PROVE  IInv'
<1>1. ASSUME NEW r \in Request, Serve(r)
      PROVE  IInv'
  BY <1>1, AskStep, ListForReportStep, ListForSummaryStep, ReadWeatherStep, ListForOutfitStep
  DEF Serve
<1>2. ASSUME NEW i \in Item, Change(i)
      PROVE  IInv'
  BY <1>2, ChangeStep
<1>3. CASE UNCHANGED vars
  <2>1. wardrobe' = wardrobe /\ changes' = changes /\ req' = req
    BY <1>3 DEF vars
  <2>2. Ready' = Ready
    BY <2>1 DEF Ready
  <2>3. Type'
    BY <2>1 DEF IInv, Type
  <2>4. \A r \in Request : (Stage(req[r]) /\ Scored(req[r]) /\ Final(req[r]))'
    BY <2>1 DEF IInv, Stage, Scored, Final, Torn, Suits
  <2>5. \A r \in Request : StillListed(req[r])'
    BY <2>1, <2>2 DEF IInv, StillListed, SameAt
  <2> QED BY <2>3, <2>4, <2>5 DEF IInv
<1> QED BY <1>1, <1>2, <1>3 DEF Next

LEMMA Invariance == Spec => []IInv
BY InitIInv, Inductive, PTL DEF Spec

-----------------------------------------------------------------------------
(* Wardrobe and requests keep their types, however many items there are. *)
THEOREM TypeCorrect == Spec => []TypeOK
<1>1. ASSUME IInv PROVE TypeOK
  <2>1. DOMAIN wardrobe = Item
    BY <1>1 DEF IInv, Type
  <2>2. DOMAIN req = Request
    BY <1>1 DEF IInv, Type
  <2>3. ASSUME NEW r \in Request
        PROVE  /\ DOMAIN req[r] = DOMAIN NoCall
               /\ req[r].pc \in PC /\ req[r].op \in {"none", "dashboard", "analytics"}
               /\ req[r].score \in Score
               /\ req[r].weather # None => req[r].weather \in Temperature
               /\ req[r].proposed \subseteq SUBSET Item
               /\ req[r].today # None => req[r].today \in SUBSET Item
               /\ req[r].touched \subseteq Item
    <3>1. req[r] \in Call
      BY <1>1 DEF IInv, Type
    <3> QED BY <3>1 DEF Call, NoCall
  <2>4. ASSUME NEW r \in Request, NEW items \in {req[r].listed, req[r].relisted}
        PROVE  DOMAIN items \subseteq Item /\ \A i \in DOMAIN items : items[i] \in Garment[i]
    <3>1. items \in Listing
      BY <1>1 DEF IInv, Type, Call
    <3>2. \A i \in DOMAIN items : items[i] \in Garment[i]
      BY <1>1 DEF IInv, Type
    <3> QED BY <3>1, <3>2, ListingFacts
  <2> QED BY <1>1, <2>1, <2>2, <2>3, <2>4 DEF TypeOK, IInv, Type
<1> QED BY <1>1, Invariance, PTL

(* Only an item that changed between the two listings of a dashboard can make
   its outfit and its summary differ, and without such a change there is an
   outfit exactly when the summary has a top and a bottom.                   *)
THEOREM TearsAreChanges == Spec => []OnlyChangesTear
<1>1. IInv => OnlyChangesTear
  BY DEF IInv, OnlyChangesTear, Answered, Final, Torn
<1> QED BY <1>1, Invariance, PTL

(* A proposed outfit that suits the weather in all that is tagged is beaten only
   by another one that does.                                                    *)
THEOREM SuitedWins == Spec => []SuitedOutfitWins
<1>1. IInv => SuitedOutfitWins
  BY DEF IInv, SuitedOutfitWins, Answered, Final, Suits
<1> QED BY <1>1, Invariance, PTL

-----------------------------------------------------------------------------
(* Dashboard and report on the same items *)

LEMMA CategoriesCounted ==
    ASSUME NEW items
    PROVE  DOMAIN CategoryCounter(items) = Present(items) \ {"unknown"}
BY DEF CategoryCounter, Counter, Present

LEMMA CoreIs == CoreCategories = {"top", "bottom", "outer", "shoes", "accessory"}
BY DEF CoreCategories, TargetCategories

(* The two lists are the same, and only the core decides what is lacking. *)
LEMMA LackingAlike ==
    ASSUME NEW S, NEW T, \A c \in CoreCategories : c \in S <=> c \in T
    PROVE  Lacking(Required, S) = Lacking(TargetCategories, T)
<1>1. \A c \in CoreCategories : Unless(c, S) = Unless(c, T)
  BY DEF Unless
<1> QED BY <1>1, CoreIs DEF Lacking, Required, TargetCategories

LEMMA LackingNothing ==
    ASSUME NEW S
    PROVE  /\ Lacking(Required, S) \in Seq(CoreCategories)
           /\ Lacking(Required, S) = <<>> <=> CoreCategories \subseteq S
<1>1. \A c \in CoreCategories :
         /\ Unless(c, S) \in Seq(CoreCategories)
         /\ Len(Unless(c, S)) = IF c \in S THEN 0 ELSE 1
  BY DEF Unless
<1> DEFINE a == Unless("top", S)
           b == Unless("bottom", S)
           c == Unless("outer", S)
           d == Unless("shoes", S)
           e == Unless("accessory", S)
<1>2. Lacking(Required, S) = a \o b \o c \o d \o e
  BY DEF Lacking, Required
<1>3. /\ a \in Seq(CoreCategories) /\ b \in Seq(CoreCategories) /\ c \in Seq(CoreCategories)
      /\ d \in Seq(CoreCategories) /\ e \in Seq(CoreCategories)
      /\ Len(a) + Len(b) + Len(c) + Len(d) + Len(e) = 0 <=> CoreCategories \subseteq S
  BY <1>1, CoreIs
<1> HIDE DEF a, b, c, d, e
<1>4. /\ a \o b \o c \o d \o e \in Seq(CoreCategories)
      /\ Len(a \o b \o c \o d \o e) = Len(a) + Len(b) + Len(c) + Len(d) + Len(e)
  BY <1>3
<1>5. \A s \in Seq(CoreCategories) : s = <<>> <=> Len(s) = 0
  OBVIOUS
<1> QED BY <1>2, <1>3, <1>4, <1>5

LEMMA ShortestEmpty ==
    ASSUME NEW S, NEW s \in Seq(S)
    PROVE  Shortest(s, 3) = <<>> <=> s = <<>>
<1>1. s = <<>> <=> Len(s) = 0
  OBVIOUS
<1>2. ASSUME NEW n \in 1 .. Len(s)
      PROVE  SubSeq(s, 1, n) # <<>>
  <2>1. Len(SubSeq(s, 1, n)) = n
    OBVIOUS
  <2> QED BY <2>1
<1>3. CASE s = <<>>
  BY <1>3 DEF Shortest
<1>4. CASE s # <<>>
  <2> DEFINE n == IF Len(s) < 3 THEN Len(s) ELSE 3
  <2>1. n \in 1 .. Len(s)
    BY <1>1, <1>4
  <2>2. Shortest(s, 3) = SubSeq(s, 1, n)
    BY DEF Shortest
  <2> HIDE DEF n
  <2> QED BY <1>2, <1>4, <2>1, <2>2
<1> QED BY <1>3, <1>4

(* The report recommends the first of what the dashboard calls missing, and
   nothing exactly when the dashboard's score is full.                      *)
THEOREM ReportAgrees == Spec => []ReportsAgree
<1>1. IInv => ReportsAgree
  <2> SUFFICES ASSUME IInv, NEW r \in Answered("dashboard"), NEW items, items = req[r].listed
               PROVE  /\ EssentialRecommendations(items) = Shortest(Missing(items), 3)
                      /\ EssentialRecommendations(items) = <<>> <=> req[r].score = 100
                      /\ DOMAIN CategoryDistribution(items) \cap CoreCategories = Covered(items)
    BY DEF ReportsAgree
  <2>1. \A c \in CoreCategories : c \in DOMAIN CategoryCounter(items) <=> c \in Present(items)
    BY CategoriesCounted, CoreIs
  <2>2. Lacking(Required, DOMAIN CategoryCounter(items)) = Missing(items)
    BY <2>1, LackingAlike DEF Missing
  <2>3. req[r].score = Completeness(items)
    BY DEF IInv, Scored, Answered
  <2>4. EssentialRecommendations(items) = <<>> <=> CoreCategories \subseteq Present(items)
    BY <2>1, LackingNothing, ShortestEmpty DEF EssentialRecommendations
  <2>5. DOMAIN CategoryDistribution(items) = DOMAIN CategoryCounter(items)
    BY DEF CategoryDistribution, Distribution
  <2> QED BY <2>1, <2>2, <2>3, <2>4, <2>5, CompletenessScore DEF EssentialRecommendations, Covered
<1> QED BY <1>1, Invariance, PTL

-----------------------------------------------------------------------------
(* The ratios *)

LEMMA Nearest ==
    ASSUME NEW count \in Nat, NEW total \in Nat, total > 0
    PROVE  /\ Ratio(count, total) \in Nat
           /\ -total <= 20000 * count - (2 * total) * Ratio(count, total)
           /\ 20000 * count - (2 * total) * Ratio(count, total) <= total
<1> DEFINE x == 10000 * count
           down == x \div total
           rest == x % total
           Near(n) == 2 * (x - n * total) \in -total .. total
<1>1. x \in Nat
  OBVIOUS
<1> HIDE DEF x
<1>2. down \in Nat /\ rest \in 0 .. total - 1 /\ x = down * total + rest
  BY <1>1
<1> HIDE DEF down, rest
<1>3. \E n \in {down, down + 1} : Near(n)
  <2>1. down * total \in Nat /\ (down + 1) * total = down * total + total
    BY <1>2
  <2>2. CASE 2 * rest <= total
    <3>1. 2 * (x - down * total) = 2 * rest
      BY <1>2, <2>1
    <3> QED BY <1>2, <2>2, <3>1
  <2>3. CASE 2 * rest > total
    <3>1. 2 * (x - (down + 1) * total) = 2 * rest - 2 * total
      BY <1>2, <2>1
    <3> QED BY <1>2, <2>3, <3>1
  <2> QED BY <1>2, <2>2, <2>3
<1>4. Ratio(count, total) = CHOOSE n \in {down, down + 1} : Near(n)
  BY DEF Ratio, down, x
<1> DEFINE n == Ratio(count, total)
<1>5. n \in {down, down + 1} /\ Near(n)
  BY <1>3, <1>4
<1> HIDE DEF n
<1>6. n \in Nat /\ n * total \in Nat /\ (2 * total) * n = 2 * (n * total)
  BY <1>2, <1>5
<1>7. 2 * (x - n * total) = 20000 * count - (2 * total) * n
  BY <1>6 DEF x
<1> QED BY <1>5, <1>6, <1>7 DEF n

LEMMA Cancel ==
    ASSUME NEW t \in Nat, t > 0, NEW x \in Int, NEW y \in Int, t * x <= t * y
    PROVE  x <= y
<1> SUFFICES ASSUME x > y PROVE FALSE
  OBVIOUS
<1>1. PICK k \in Nat : x = y + 1 + k
  <2>1. x - y - 1 \in Nat /\ x = y + 1 + (x - y - 1)
    OBVIOUS
  <2> QED BY <2>1
<1>2. t * x = t * y + t + t * k
  BY <1>1
<1>3. t * k \in Nat /\ t * y \in Int
  OBVIOUS
<1> QED BY <1>2, <1>3

(* The ratios of a counter: none is off by more than a half, so all of them
   together by no more than a half each.                                    *)
LEMMA DistributionAddsUp ==
    ASSUME NEW counter, IsFiniteSet(DOMAIN counter),
           \A k \in DOMAIN counter : IsFiniteSet(counter[k]) /\ counter[k] # {}
    PROVE  AddsUp(Distribution(counter))
<1> DEFINE keys == DOMAIN counter
           counts == Counts(counter)
           total == SumFunction(counts)
           ratios == [k \in keys |-> Ratio(counts[k], total)]
           sum == SumFunction(ratios)
           size == Cardinality(keys)
           d == Distribution(counter)
<1>1. counts \in [keys -> Nat \ {0}] /\ DOMAIN counts = keys
  <2>1. \A k \in keys : Cardinality(counter[k]) \in Nat \ {0}
    BY FS_CardinalityType, FS_EmptySet
  <2> QED BY <2>1 DEF Counts
<1>2. /\ DOMAIN d = keys
      /\ [k \in keys |-> d[k].count] = counts /\ [k \in keys |-> d[k].ratio] = ratios
      /\ \A k \in keys : d[k].count = counts[k] /\ d[k].ratio = ratios[k]
  BY DEF Distribution, Counts
<1> HIDE DEF counts, d
<1>3. ASSUME keys # {}
      PROVE  total \in Nat /\ total > 0
  BY <1>1, <1>3, SumPositive
<1> HIDE DEF total
<1>4. ASSUME NEW k \in keys
      PROVE  /\ counts[k] \in Nat \ {0} /\ ratios[k] \in Nat
             /\ -total <= 20000 * counts[k] - (2 * total) * ratios[k]
             /\ 20000 * counts[k] - (2 * total) * ratios[k] <= total
  <2> DEFINE c == counts[k]
             n == Ratio(c, total)
  <2>1. c \in Nat \ {0} /\ total \in Nat /\ total > 0
    BY <1>1, <1>3
  <2>2. ratios[k] = n
    OBVIOUS
  <2> HIDE DEF c
  <2>3. /\ n \in Nat
        /\ -total <= 20000 * c - (2 * total) * n /\ 20000 * c - (2 * total) * n <= total
    BY <2>1, Nearest
  <2> HIDE DEF n, ratios
  <2> QED BY <2>1, <2>2, <2>3 DEF c
<1>5. ratios \in [keys -> Int]
  BY <1>4
<1> HIDE DEF ratios
<1>6. ASSUME keys # {}
      PROVE  2 * (sum - 10000) \in -size .. size
  <2>1. sum \in Int /\ size \in Nat /\ total \in Nat /\ total > 0
    BY <1>3, <1>5, <1>6, SumType, FS_CardinalityType
  <2>2. /\ -(total * size) <= 20000 * total - (2 * total) * sum
        /\ 20000 * total - (2 * total) * sum <= total * size
    <3> DEFINE a == 20000
               b == 2 * total
    <3>1. counts \in [keys -> Int] /\ a \in Int /\ b \in Int
      BY <1>1, <2>1
    <3>2. \A k \in keys : /\ -total <= a * counts[k] - b * ratios[k]
                          /\ a * counts[k] - b * ratios[k] <= total
      BY <1>4
    <3> HIDE DEF a, b
    <3>3. /\ -(total * Cardinality(keys)) <= a * SumFunction(counts) - b * SumFunction(ratios)
          /\ a * SumFunction(counts) - b * SumFunction(ratios) <= total * Cardinality(keys)
      BY <1>5, <2>1, <3>1, <3>2, SumsWithin
    <3>4. SumFunction(counts) = total
      BY DEF total
    <3> QED BY <3>3, <3>4 DEF a, b
  <2> HIDE DEF sum, size
  <2>3. /\ total * (2 * (10000 - sum)) = 20000 * total - (2 * total) * sum
        /\ total * (2 * (sum - 10000)) = (2 * total) * sum - 20000 * total
        /\ total * sum \in Int /\ total * size \in Nat /\ (2 * total) * sum \in Int
    BY <2>1
  <2>4. 2 * (10000 - sum) <= size
    BY <2>1, <2>2, <2>3, Cancel
  <2>5. 2 * (sum - 10000) <= size
    BY <2>1, <2>2, <2>3, Cancel
  <2> QED BY <2>1, <2>4, <2>5
<1>7. ASSUME NEW j \in keys, NEW k \in keys, counts[j] > counts[k]
      PROVE  ratios[j] >= ratios[k]
  <2> DEFINE a == ratios[j]
             b == ratios[k]
  <2>1. total \in Nat /\ total > 0 /\ a \in Nat /\ b \in Nat
    BY <1>3, <1>4
  <2>2. /\ 20000 * counts[j] - (2 * total) * a <= total
        /\ -total <= 20000 * counts[k] - (2 * total) * b
        /\ counts[j] \in Nat /\ counts[k] \in Nat
    BY <1>4
  <2> HIDE DEF a, b
  <2>3. /\ (2 * total) * a = total * (2 * a) /\ (2 * total) * b = total * (2 * b)
        /\ total * (2 * a + 2) = total * (2 * a) + 2 * total
        /\ total * (2 * a) \in Nat /\ total * (2 * b) \in Nat
        /\ total * (2 * b + 1) = total * (2 * b) + total
    BY <2>1
  <2>4. total * (2 * b + 1) <= total * (2 * a + 2)
    BY <1>7, <2>1, <2>2, <2>3
  <2>5. 2 * b + 1 <= 2 * a + 2
    BY <2>1, <2>4, Cancel
  <2> QED BY <2>1, <2>5 DEF a, b
<1>8. ASSUME NEW k \in keys, ratios[k] = 0
      PROVE  20000 * counts[k] <= total
  <2>1. (2 * total) * 0 = 0 /\ total \in Nat
    BY <1>3
  <2> QED BY <1>4, <1>8, <2>1
<1> HIDE DEF sum, size
<1>9. SumFunction([k \in keys |-> d[k].count]) = total
  BY <1>2 DEF total
<1>10. SumFunction([k \in keys |-> d[k].ratio]) = sum
  BY <1>2 DEF sum
<1>11. AddsUp(d)
  BY <1>2, <1>6, <1>7, <1>8, <1>9, <1>10 DEF AddsUp, size
<1> QED BY <1>11 DEF d

(* A counter of finitely many keys of finitely many items counts none of them
   for nothing.                                                              *)
LEMMA CounterFacts ==
    ASSUME NEW keys, IsFiniteSet(DOMAIN keys), keys = [i \in DOMAIN keys |-> keys[i]],
           \A i \in DOMAIN keys : IsFiniteSet(keys[i])
    PROVE  /\ IsFiniteSet(DOMAIN Counter(keys))
           /\ \A k \in DOMAIN Counter(keys) :
                 IsFiniteSet(Counter(keys)[k]) /\ Counter(keys)[k] # {}
<1> DEFINE R == {keys[i] : i \in DOMAIN keys}
<1>1. keys \in Surjection(DOMAIN keys, R)
  BY DEF Surjection
<1>2. IsFiniteSet(R)
  BY <1>1, FS_Surjection
<1>3. \A T \in R : IsFiniteSet(T)
  OBVIOUS
<1>4. DOMAIN Counter(keys) = UNION R
  BY DEF Counter
<1> HIDE DEF R
<1>5. IsFiniteSet(UNION R)
  BY <1>2, <1>3, FS_UNION
<1>6. ASSUME NEW k \in DOMAIN Counter(keys)
      PROVE  IsFiniteSet(Counter(keys)[k]) /\ Counter(keys)[k] # {}
  <2>1. Counter(keys)[k] = {i \in DOMAIN keys : k \in keys[i]} /\ Counter(keys)[k] # {}
    BY <1>6 DEF Counter
  <2>2. Counter(keys)[k] \in SUBSET DOMAIN keys
    BY <2>1
  <2> QED BY <2>1, <2>2, FS_Subset
<1> QED BY <1>4, <1>5, <1>6

LEMMA CounterAddsUp ==
    ASSUME NEW keys, IsFiniteSet(DOMAIN keys), keys = [i \in DOMAIN keys |-> keys[i]],
           \A i \in DOMAIN keys : IsFiniteSet(keys[i])
    PROVE  AddsUp(Distribution(Counter(keys)))
BY CounterFacts, DistributionAddsUp

LEMMA SeasonsFinite == IsFiniteSet(Season)
<1>1. Season = {"spring"} \cup {"summer"} \cup {"fall"} \cup {"winter"}
  BY DEF Season
<1> QED BY <1>1, FS_Singleton, FS_Union

(* The ratios of every distribution in a report add up to one, within half a
   unit of the last place for each of its entries, and follow the counts.   *)
THEOREM RatiosDoAddUp == Spec => []RatiosAddUp
<1>1. IInv => RatiosAddUp
  <2> SUFFICES ASSUME IInv, NEW r \in Answered("analytics"), NEW items, items = req[r].listed
               PROVE  /\ AddsUp(ColorDistribution(items)) /\ AddsUp(SeasonBalance(items))
                      /\ AddsUp(CategoryDistribution(items))
    BY DEF RatiosAddUp
  <2>1. DOMAIN items \subseteq Item /\ \A i \in DOMAIN items : items[i] \in Garment[i]
    BY ListingFacts DEF IInv, Type, Call, Answered
  <2>2. IsFiniteSet(DOMAIN items)
    BY <2>1, FS_Subset, DashboardAssumption
  <2>3. \A x, y : IsFiniteSet({x} \ y)
    <3> TAKE x, y
    <3>1. {x} \ y \in SUBSET {x}
      OBVIOUS
    <3> QED BY <3>1, FS_Singleton, FS_Subset
  <2>4. AddsUp(ColorDistribution(items))
    BY <2>2, <2>3, CounterAddsUp DEF ColorDistribution
  <2>5. AddsUp(CategoryDistribution(items))
    BY <2>2, <2>3, CounterAddsUp DEF CategoryDistribution, CategoryCounter
  <2>6. AddsUp(SeasonBalance(items))
    <3>1. \A i \in DOMAIN items : items[i].seasons \in SUBSET Season
      BY <2>1, DashboardAssumption
    <3>2. \A i \in DOMAIN items : IsFiniteSet(items[i].seasons)
      BY <3>1, SeasonsFinite, FS_Subset
    <3> QED BY <2>2, <3>2, CounterAddsUp DEF SeasonBalance
  <2> QED BY <2>4, <2>5, <2>6
<1> QED BY <1>1, Invariance, PTL
=============================================================================
