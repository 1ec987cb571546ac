----------------------------- MODULE SignIns_proofs -----------------------------
(***************************************************************************)
(* Scores for any sign-ins, any batches and any model. What there is to    *)
(* know of the state is that any sign-ins have a last one (StoreInv): the  *)
(* rest is about build_history_from_signins, of which thirty days give the *)
(* same counts and, where a sign-in falls within them, the same last time. *)
(***************************************************************************)
EXTENDS SignIns, TLAPS

LatestOf(S, i) == i \in S /\ \A j \in S : signins[j].at <= signins[i].at

StoreInv ==
  /\ signins \in [Ids -> Samples \cup {None}]
  /\ \A S \in SUBSET Stored : S # {} => \E i \in S : LatestOf(S, i)

LEMMA StoreInit == Init => StoreInv
BY DEF Init, StoreInv, Stored

LEMMA StoreStep == StoreInv /\ [Next]_vars => StoreInv'
<1> SUFFICES ASSUME StoreInv, [Next]_vars PROVE StoreInv'
  OBVIOUS
<1>1. CASE UNCHANGED vars
  BY <1>1 DEF vars, StoreInv, Stored, LatestOf
<1>2. ASSUME NEW i \in Ids, NEW s \in Samples, Arrive(i, s) PROVE StoreInv'
  <2>1. /\ signins' \in [Ids -> Samples \cup {None}] /\ signins'[i] = s
        /\ \A j \in Ids \ {i} : signins'[j] = signins[j]
    BY <1>2 DEF Arrive, StoreInv
  <2>2. ASSUME NEW S \in SUBSET Stored', S # {} PROVE \E m \in S : LatestOf(S, m)'
    <3> DEFINE T == S \ {i}
    <3>1. T \subseteq Stored /\ \A j \in T : signins'[j] = signins[j]
      BY <2>1 DEF Stored
    <3>2. \A j \in S : signins'[j].at \in Int
      BY <2>1, SampleAssumption DEF Stored
    <3>3. CASE T = {}
      <4>1. S = {i}
        BY <2>2, <3>3
      <4>2. LatestOf(S, i)'
        BY <3>2, <4>1 DEF LatestOf
      <4>3. QED
        BY <4>1, <4>2
    <3>4. CASE T # {}
      <4>1. PICK m \in T : LatestOf(T, m)
        BY <3>1, <3>4 DEF StoreInv
      <4>2. \A j \in T : signins'[j].at <= signins'[m].at
        BY <3>1, <4>1 DEF LatestOf
      <4>3. CASE i \in S /\ signins'[m].at <= signins'[i].at
        <5>1. LatestOf(S, i)'
          BY <3>2, <4>2, <4>3 DEF LatestOf
        <5>2. QED
          BY <4>3, <5>1
      <4>4. CASE i \notin S \/ signins'[i].at <= signins'[m].at
        <5>1. LatestOf(S, m)'
          BY <4>2, <4>4 DEF LatestOf
        <5>2. QED
          BY <5>1
      <4>5. QED
        BY <3>2, <4>3, <4>4
    <3>5. QED
      BY <3>3, <3>4
  <2>3. QED
    BY <2>1, <2>2 DEF StoreInv
<1>3. QED
  BY <1>1, <1>2 DEF Next

LEMMA StoreAlways == Spec => []StoreInv
BY StoreInit, StoreStep, PTL DEF Spec

LEMMA StoredType ==
  ASSUME StoreInv, NEW i \in Stored
  PROVE  /\ signins[i] \in Samples /\ signins[i].at \in Nat
         /\ signins[i].geo \in Places \cup {None}
BY SampleAssumption DEF StoreInv, Stored

-----------------------------------------------------------------------------
(* Two batches with the same earlier sign-ins of the user give the same     *)
(* features, and everything else follows from them.                         *)

LEMMA SamePastSameFeatures ==
  ASSUME NEW i, NEW batch, NEW other,
         Before(Own(i, batch), signins[i].at) = Before(Own(i, other), signins[i].at)
  PROVE  FeaturesIn(i, batch) = FeaturesIn(i, other)
<1>1. History(Own(i, batch), signins[i].at) = History(Own(i, other), signins[i].at)
  BY DEF History
<1>2. QED
  BY <1>1 DEF FeaturesIn

LEMMA SameFeaturesSameScore ==
  ASSUME NEW i, NEW batch, NEW other, FeaturesIn(i, batch) = FeaturesIn(i, other)
  PROVE  Score(i, batch) = Score(i, other) /\ (Flagged(i, batch) <=> Flagged(i, other))
<1>1. Boost(i, batch) = Boost(i, other)
  BY DEF Boost
<1>2. Normalised(i, batch) = Normalised(i, other)
  BY DEF Normalised
<1>3. Score(i, batch) = Score(i, other)
  BY <1>1, <1>2 DEF Score
<1>4. QED
  BY <1>2, <1>3 DEF Flagged

(* Whatever batch it is scored in, a sign-in scores as it does alone with   *)
(* its user's earlier ones.                                                 *)
THEOREM OwnPastOnly == Spec => []OnlyOwnPastMatters
<1>1. StoreInv => OnlyOwnPastMatters
  <2> SUFFICES ASSUME StoreInv, NEW batch \in SUBSET Stored, NEW i \in batch
               PROVE  LET alone == {i} \cup Earlier(i, batch) IN
                      /\ Score(i, batch) = Score(i, alone)
                      /\ Flagged(i, batch) <=> Flagged(i, alone)
    BY DEF OnlyOwnPastMatters
  <2> DEFINE alone == {i} \cup Earlier(i, batch)
  <2>1. signins[i].at \in Nat
    BY StoredType
  <2>2. Before(Own(i, batch), signins[i].at) = Earlier(i, batch)
    BY DEF Before, Own, Earlier
  <2>3. Before(Own(i, alone), signins[i].at) = Earlier(i, batch)
    BY <2>1 DEF Before, Own, Earlier
  <2>4. FeaturesIn(i, batch) = FeaturesIn(i, alone)
    BY <2>2, <2>3, SamePastSameFeatures
  <2>5. QED
    BY <2>4, SameFeaturesSameScore
<1>2. QED
  BY StoreAlways, <1>1, PTL

-----------------------------------------------------------------------------
(* What thirty days give. *)

LEMMA MaxIs ==
  ASSUME NEW S \in SUBSET Int, NEW m \in S, \A x \in S : x <= m
  PROVE  Max(S) = m
<1>1. \A y \in S : (\A x \in S : y >= x) => y = m
  OBVIOUS
<1>2. \A x \in S : m >= x
  OBVIOUS
<1>3. QED
  BY <1>1, <1>2 DEF Max

LEMMA SmallerOf ==
  ASSUME NEW a \in Int, NEW b \in Int
  PROVE  Min({a, b}) = IF a <= b THEN a ELSE b
BY DEF Min

LEMMA GreaterOf ==
  ASSUME NEW a \in Int, NEW b \in Int
  PROVE  Max({a, b}) = IF a >= b THEN a ELSE b
BY DEF Max

(* The last of some stored sign-ins is the last of the recent ones among    *)
(* them, if there are any.                                                  *)
LEMMA LastAtIs ==
  ASSUME StoreInv, NEW S \in SUBSET Stored, NEW i, LatestOf(S, i)
  PROVE  LastAt(S) = signins[i].at
<1>1. \A j \in S : signins[j].at \in Int
  BY StoredType
<1>2. Max({signins[j].at : j \in S}) = signins[i].at
  <2>1. /\ {signins[j].at : j \in S} \in SUBSET Int
        /\ signins[i].at \in {signins[j].at : j \in S}
        /\ \A x \in {signins[j].at : j \in S} : x <= signins[i].at
    BY <1>1 DEF LatestOf
  <2>2. QED
    BY <2>1, MaxIs
<1>3. QED
  BY <1>2 DEF LastAt, LatestOf

LEMMA RecentHasLast ==
  ASSUME StoreInv, NEW S \in SUBSET Stored, NEW asOf \in Int, Recent(S, asOf) # {}
  PROVE  \E i \in Recent(S, asOf) : /\ LatestOf(S, i)
                                    /\ LastAt(S) = signins[i].at
                                    /\ LastAt(Recent(S, asOf)) = signins[i].at
<1>1. Recent(S, asOf) \subseteq S /\ S # {}
  BY DEF Recent
<1>2. PICK i \in S : LatestOf(S, i)
  BY <1>1 DEF StoreInv
<1>3. /\ Minutes(WindowDays) \in Int
      /\ \A j \in S : signins[j].at \in Int
  BY StoredType, SMT DEF Minutes, WindowDays
<1>4. i \in Recent(S, asOf)
  BY <1>2, <1>3 DEF Recent, LatestOf
<1>5. LatestOf(Recent(S, asOf), i)
  BY <1>1, <1>2, <1>4 DEF LatestOf
<1>6. QED
  BY <1>1, <1>2, <1>4, <1>5, LastAtIs

LEMMA RecentPlace ==
  ASSUME StoreInv, NEW S \in SUBSET Stored, NEW asOf \in Int
  PROVE  \/ LastPlace(Recent(S, asOf)) = None
         \/ LastPlace(Recent(S, asOf)) = LastPlace(S)
<1> DEFINE located == {j \in S : signins[j].geo # None}
           near == {j \in Recent(S, asOf) : signins[j].geo # None}
<1>1. near = Recent(located, asOf) /\ located \subseteq Stored
  BY DEF Recent
<1>2. CASE near = {}
  BY <1>2 DEF LastPlace
<1>3. CASE near # {}
  <2> HIDE DEF located, near
  <2>1. PICK i \in near : LatestOf(located, i) /\ LastAt(located) = signins[i].at
                          /\ LastAt(near) = signins[i].at
    BY <1>1, <1>3, RecentHasLast
  <2>2. {j \in near : signins[j].at = LastAt(near)}
          = {j \in located : signins[j].at = LastAt(located)}
    BY <1>1, <2>1 DEF Recent
  <2>3. located # {}
    BY <1>1, <1>3 DEF Recent
  <2> DEFINE latest == {j \in located : signins[j].at = LastAt(located)}
             nearest == {j \in near : signins[j].at = LastAt(near)}
  <2>4. LastPlace(S) = signins[CHOOSE j \in latest : TRUE].geo
    BY <2>3 DEF LastPlace, located
  <2>5. LastPlace(Recent(S, asOf)) = signins[CHOOSE j \in nearest : TRUE].geo
    BY <1>3 DEF LastPlace, near
  <2>6. nearest = latest
    BY <2>2
  <2> HIDE DEF latest, nearest
  <2>7. QED
    BY <2>4, <2>5, <2>6, Zenon
<1>4. QED
  BY <1>2, <1>3

LEMMA PlaceType ==
  ASSUME StoreInv, NEW S \in SUBSET Stored
  PROVE  LastPlace(S) \in Places \cup {None}
<1> DEFINE located == {j \in S : signins[j].geo # None}
           latest == {j \in located : signins[j].at = LastAt(located)}
<1>1. CASE located = {}
  BY <1>1 DEF LastPlace
<1>2. CASE located # {}
  <2>1. PICK i \in located : LatestOf(located, i)
    BY <1>2 DEF StoreInv
  <2>2. LastAt(located) = signins[i].at
    BY <2>1, LastAtIs
  <2>3. (CHOOSE j \in latest : TRUE) \in Stored
    BY <2>1, <2>2
  <2>4. LastPlace(S) = signins[CHOOSE j \in latest : TRUE].geo
    BY <1>2 DEF LastPlace
  <2>5. QED
    BY <2>3, <2>4, StoredType
<1>3. QED
  BY <1>1, <1>2

-----------------------------------------------------------------------------
(* The features of a sign-in over all there is and over what reaches back   *)
(* thirty days: only the last time, the last place and with them the speed  *)
(* can differ, and the devices.                                             *)

Past(i) == Before(Own(i, Stored), signins[i].at)
Lately(i) == Recent(Past(i), signins[i].at)

AllOf(i) == FeaturesIn(i, Stored)
LatelyOf(i) == FeaturesIn(i, Reaching(i))

LEMMA PastReaching ==
  ASSUME StoreInv, NEW i \in Stored
  PROVE  /\ Past(i) \in SUBSET Stored /\ signins[i].at \in Nat
         /\ Before(Own(i, Reaching(i)), signins[i].at) = Lately(i)
         /\ Recent(Lately(i), signins[i].at) = Lately(i)
<1>1. signins[i].at \in Nat
  BY StoredType
<1>2. QED
  BY <1>1 DEF Past, Lately, Before, Own, Reaching, Recent

LEMMA SameButSpeed ==
  ASSUME StoreInv, NEW i \in Stored
  PROVE  /\ AllOf(i).newCountry = LatelyOf(i).newCountry
         /\ AllOf(i).newAsn = LatelyOf(i).newAsn
         /\ AllOf(i).failed = LatelyOf(i).failed /\ AllOf(i).mfa = LatelyOf(i).mfa
         /\ AllOf(i).legacy = LatelyOf(i).legacy
         /\ AllOf(i).hour = LatelyOf(i).hour /\ AllOf(i).weekday = LatelyOf(i).weekday
         /\ AllOf(i).business = LatelyOf(i).business
<1> DEFINE h == History(Own(i, Stored), signins[i].at)
           near == History(Own(i, Reaching(i)), signins[i].at)
<1>1. h.countries = [c \in Places |-> TimesIn(c, Lately(i))]
      /\ h.asns = [a \in Asns |-> TimesFrom(a, Lately(i))]
  BY DEF History, Lately, Past
<1>2. near.countries = [c \in Places |-> TimesIn(c, Recent(Lately(i), signins[i].at))]
      /\ near.asns = [a \in Asns |-> TimesFrom(a, Recent(Lately(i), signins[i].at))]
  BY PastReaching DEF History
<1>3. h.countries = near.countries /\ h.asns = near.asns
  BY <1>1, <1>2, PastReaching
<1> HIDE DEF h, near
<1>4. AllOf(i) = Features(signins[i], h) /\ LatelyOf(i) = Features(signins[i], near)
  BY DEF AllOf, LatelyOf, FeaturesIn, h, near
<1>5. QED
  BY <1>3, <1>4 DEF Features

LEMMA SpeedsOf ==
  ASSUME StoreInv, NEW i \in Stored
  PROVE  LET h == History(Own(i, Stored), signins[i].at)
             near == History(Own(i, Reaching(i)), signins[i].at) IN
         /\ AllOf(i).speed = Speed(signins[i], h)
         /\ LatelyOf(i).speed = Speed(signins[i], near)
         /\ h.lastAt = LastAt(Past(i)) /\ h.lastPlace = LastPlace(Past(i))
         /\ near.lastAt = LastAt(Lately(i)) /\ near.lastPlace = LastPlace(Lately(i))
<1>1. Before(Own(i, Reaching(i)), signins[i].at) = Lately(i)
  BY PastReaching
<1>2. QED
  BY <1>1 DEF History, AllOf, LatelyOf, FeaturesIn, Features, Past

LEMMA DistanceType ==
  ASSUME StoreInv, NEW i \in Stored, NEW S \in SUBSET Stored, NEW h,
         h.lastPlace = LastPlace(S)
  PROVE  Distance(signins[i], h) \in 0..Furthest
<1>1. signins[i].geo \in Places \cup {None} /\ h.lastPlace \in Places \cup {None}
  BY StoredType, PlaceType
<1>2. (\A p, q \in Places : Km(p, q) \in 0..Furthest) /\ 0 \in 0..Furthest
  BY DistanceAssumption
<1>3. QED
  BY <1>1, <1>2 DEF Distance

(* With the last sign-in earlier, the divisor is the gap.                   *)
LEMMA SpeedIs ==
  ASSUME NEW s, NEW h, s.at \in Int, h.lastAt \in Int, h.lastAt < s.at,
         Distance(s, h) \in 0..Furthest
  PROVE  Speed(s, h) = LET kmh == (Distance(s, h) * 60) \div (s.at - h.lastAt) IN
                       IF TopSpeed <= kmh THEN TopSpeed ELSE kmh
<1>1. Max({s.at - h.lastAt, 1}) = s.at - h.lastAt
  BY GreaterOf
<1>2. h.lastAt # None
  BY SampleAssumption
<1>3. Speed(s, h) = Min({TopSpeed, (Distance(s, h) * 60) \div (s.at - h.lastAt)})
  BY <1>1, <1>2 DEF Speed
<1>4. (Distance(s, h) * 60) \div (s.at - h.lastAt) \in Int /\ TopSpeed \in Int
  BY SMT DEF TopSpeed
<1>5. QED
  BY <1>3, <1>4, SmallerOf

LEMMA FarButSlow ==
  ASSUME NEW km \in 0..Furthest, NEW gap \in Int, gap > Minutes(WindowDays)
  PROVE  (km * 60) \div gap <= SpeedFloorKmh
<1>1. gap > 43200 /\ km \in Int /\ km >= 0 /\ km * 60 \in Int /\ km * 60 <= 1206000
  BY DistanceAssumption, SMT DEF Minutes, WindowDays
<1>2. (km * 60) \div gap <= 1500
  BY <1>1, SMT
<1>3. QED
  BY <1>2, SMT DEF SpeedFloorKmh

Fast(f) == f.speed > SpeedFloorKmh

(* Thirty days never make a speed that is not there, and lose only one      *)
(* measured from coordinates older than themselves.                         *)
LEMMA FastLately ==
  ASSUME StoreInv, NEW i \in Stored
  PROVE  /\ Fast(LatelyOf(i)) => Fast(AllOf(i))
         /\ (\A j \in Stored : signins[j].geo # None) /\ Fast(AllOf(i)) => Fast(LatelyOf(i))
<1> DEFINE s == signins[i]
           h == History(Own(i, Stored), s.at)
           near == History(Own(i, Reaching(i)), s.at)
<1>1. /\ Past(i) \in SUBSET Stored /\ Lately(i) \in SUBSET Stored /\ Lately(i) \subseteq Past(i)
      /\ s.at \in Nat
  BY PastReaching DEF Lately, Recent
<1>2. /\ AllOf(i).speed = Speed(s, h) /\ LatelyOf(i).speed = Speed(s, near)
      /\ h.lastAt = LastAt(Past(i)) /\ h.lastPlace = LastPlace(Past(i))
      /\ near.lastAt = LastAt(Lately(i)) /\ near.lastPlace = LastPlace(Lately(i))
  BY SpeedsOf
<1> HIDE DEF h, near
<1>3. Distance(s, h) \in 0..Furthest /\ Distance(s, near) \in 0..Furthest
  BY <1>1, <1>2, DistanceType
<1>4. \A j \in Past(i) : signins[j].at \in Int /\ signins[j].at < s.at
  BY <1>1, StoredType DEF Past, Before
<1>5. CASE Lately(i) = {}
  <2>1. near.lastAt = None
    BY <1>2, <1>5 DEF LastAt
  <2>2. Speed(s, near) = 0
    BY <2>1 DEF Speed
  <2>3. Speed(s, h) \in Int /\ Speed(s, h) <= SpeedFloorKmh
    <3>1. CASE Past(i) = {}
      <4>1. h.lastAt = None
        BY <1>2, <3>1 DEF LastAt
      <4>2. QED
        BY <4>1 DEF Speed, SpeedFloorKmh
    <3>2. CASE Past(i) # {}
      <4>1. PICK j \in Past(i) : LatestOf(Past(i), j)
        BY <1>1, <3>2 DEF StoreInv
      <4>2. h.lastAt = signins[j].at
        BY <1>1, <1>2, <4>1, LastAtIs
      <4>3. s.at - h.lastAt > Minutes(WindowDays)
        <5>1. j \notin Recent(Past(i), s.at)
          BY <1>5 DEF Lately
        <5>2. ~(h.lastAt >= s.at - Minutes(WindowDays))
          BY <4>2, <5>1 DEF Recent
        <5>3. QED
          BY <1>1, <1>4, <4>2, <5>2, SMT DEF Minutes, WindowDays
      <4>4. /\ (Distance(s, h) * 60) \div (s.at - h.lastAt) <= SpeedFloorKmh
            /\ (Distance(s, h) * 60) \div (s.at - h.lastAt) \in Int
        <5>1. s.at - h.lastAt \in Int /\ s.at - h.lastAt > 0 /\ Distance(s, h) * 60 \in Int
          BY <1>1, <1>3, <1>4, <4>2
        <5>2. QED
          BY <1>3, <4>3, <5>1, FarButSlow
      <4>5. h.lastAt \in Int /\ h.lastAt < s.at
        BY <1>4, <4>2
      <4>6. Speed(s, h) = LET kmh == (Distance(s, h) * 60) \div (s.at - h.lastAt) IN
                          IF TopSpeed <= kmh THEN TopSpeed ELSE kmh
        BY <1>1, <1>3, <4>5, SpeedIs
      <4>7. QED
        BY <4>4, <4>6, SMT DEF TopSpeed, SpeedFloorKmh
    <3>3. QED
      BY <3>1, <3>2
  <2>4. ~Fast(LatelyOf(i)) /\ ~Fast(AllOf(i))
    BY <1>2, <2>2, <2>3 DEF Fast, SpeedFloorKmh
  <2>5. QED
    BY <2>4
<1>6. CASE Lately(i) # {}
  <2>1. PICK j \in Lately(i) : /\ LastAt(Past(i)) = signins[j].at
                               /\ LastAt(Lately(i)) = signins[j].at
    BY <1>1, <1>6, RecentHasLast DEF Lately
  <2>2. near.lastAt = h.lastAt /\ h.lastAt \in Int /\ h.lastAt < s.at
    BY <1>1, <1>2, <1>4, <2>1
  <2>3. CASE near.lastPlace = h.lastPlace
    <3>1. Distance(s, near) = Distance(s, h)
      BY <2>3 DEF Distance
    <3>2. Speed(s, near) = Speed(s, h)
      BY <2>2, <3>1 DEF Speed
    <3>3. QED
      BY <1>2, <3>2 DEF Fast
  <2>4. CASE near.lastPlace = None
    <3>1. Distance(s, near) = 0
      BY <2>4 DEF Distance
    <3>2. Speed(s, near) = 0
      <4>1. (0 * 60) \div (s.at - h.lastAt) = 0
        BY <1>1, <2>2
      <4>2. Speed(s, near) = LET kmh == (Distance(s, near) * 60) \div (s.at - near.lastAt) IN
                             IF TopSpeed <= kmh THEN TopSpeed ELSE kmh
        BY <1>1, <1>3, <2>2, SpeedIs
      <4>3. QED
        BY <2>2, <3>1, <4>1, <4>2, SMT DEF TopSpeed
    <3>3. ~Fast(LatelyOf(i))
      BY <1>2, <3>2 DEF Fast, SpeedFloorKmh
    <3>4. CASE \E k \in Stored : signins[k].geo = None
      BY <3>3, <3>4
    <3>5. CASE \A k \in Stored : signins[k].geo # None
      <4>1. {k \in Lately(i) : signins[k].geo # None} = Lately(i)
        BY <1>1, <3>5
      <4>2. {k \in Past(i) : signins[k].geo # None} = Past(i)
        BY <1>1, <3>5
      <4>3. LastPlace(Lately(i)) # None
        <5> DEFINE latest == {k \in Lately(i) : signins[k].at = LastAt(Lately(i))}
        <5>1. (CHOOSE k \in latest : TRUE) \in Stored
          BY <1>1, <2>1
        <5>2. LastPlace(Lately(i)) = signins[CHOOSE k \in latest : TRUE].geo
          BY <1>6, <4>1 DEF LastPlace
        <5>3. QED
          BY <3>5, <5>1, <5>2
      <4>4. QED
        BY <1>2, <2>4, <4>3
    <3>6. QED
      BY <3>4, <3>5
  <2>5. QED
    BY <1>1, <1>2, <2>3, <2>4, RecentPlace DEF Lately
<1>7. QED
  BY <1>5, <1>6

-----------------------------------------------------------------------------
(* The greatest of the floors. *)

LEMMA GreatestFloor ==
  ASSUME NEW S \in SUBSET {0, 80, 85, 95}, 0 \in S
  PROVE  Max(S) \in S /\ \A x \in S : x <= Max(S)
<1>1. \E m \in S : \A x \in S : x <= m
  <2>1. CASE 95 \in S
    BY <2>1
  <2>2. CASE 95 \notin S /\ 85 \in S
    BY <2>2
  <2>3. CASE 95 \notin S /\ 85 \notin S /\ 80 \in S
    BY <2>3
  <2>4. CASE 95 \notin S /\ 85 \notin S /\ 80 \notin S
    BY <2>4
  <2>5. QED
    BY <2>1, <2>2, <2>3, <2>4
<1>2. PICK m \in S : \A x \in S : x <= m
  BY <1>1
<1>3. Max(S) = m
  <2>1. S \in SUBSET Int
    OBVIOUS
  <2>2. QED
    BY <1>2, <2>1, MaxIs
<1>4. QED
  BY <1>2, <1>3

FloorsOf(i, f) == {0} \cup Floors(f) \cup AdminFloors(signins[i].user, f)

LEMMA BoostType ==
  ASSUME NEW i, NEW f
  PROVE  0 \in FloorsOf(i, f) /\ FloorsOf(i, f) \in SUBSET {0, 80, 85, 95}
BY DEF FloorsOf, Floors, AdminFloors

LEMMA BoostsAre ==
  ASSUME NEW i
  PROVE  /\ Boost(i, Stored) = Max(FloorsOf(i, AllOf(i)))
         /\ Boost(i, Reaching(i)) = Max(FloorsOf(i, LatelyOf(i)))
BY DEF Boost, FloorsOf, AllOf, LatelyOf

LEMMA FloorsCompare ==
  ASSUME StoreInv, NEW i \in Stored
  PROVE  /\ (Fast(LatelyOf(i)) => Fast(AllOf(i)))
               => FloorsOf(i, LatelyOf(i)) \subseteq FloorsOf(i, AllOf(i))
         /\ (Fast(AllOf(i)) => Fast(LatelyOf(i)))
               => FloorsOf(i, AllOf(i)) \subseteq FloorsOf(i, LatelyOf(i))
<1>1. TimeColumns(AllOf(i)) = TimeColumns(LatelyOf(i))
  BY SameButSpeed DEF TimeColumns
<1>2. AdminFloors(signins[i].user, AllOf(i)) = AdminFloors(signins[i].user, LatelyOf(i))
  BY <1>1, SameButSpeed DEF AdminFloors
<1>3. /\ (Fast(LatelyOf(i)) => Fast(AllOf(i))) => Floors(LatelyOf(i)) \subseteq Floors(AllOf(i))
      /\ (Fast(AllOf(i)) => Fast(LatelyOf(i))) => Floors(AllOf(i)) \subseteq Floors(LatelyOf(i))
  BY SameButSpeed DEF Floors, Fast
<1>4. QED
  BY <1>2, <1>3 DEF FloorsOf

(* A batch that reaches back thirty days from a sign-in never makes the     *)
(* rules harsher on it, and when no coordinates are missing makes no        *)
(* difference to them.                                                      *)
THEOREM ThirtyDaysDo == Spec => []ThirtyDaysSuffice
<1>1. StoreInv => ThirtyDaysSuffice
  <2> SUFFICES ASSUME StoreInv, NEW i \in Stored
               PROVE  /\ Boost(i, Reaching(i)) <= Boost(i, Stored)
                      /\ (\A j \in Stored : signins[j].geo # None)
                           => Boost(i, Reaching(i)) = Boost(i, Stored)
    BY DEF ThirtyDaysSuffice
  <2>1. FloorsOf(i, LatelyOf(i)) \subseteq FloorsOf(i, AllOf(i))
    BY FastLately, FloorsCompare
  <2>2. Boost(i, Reaching(i)) <= Boost(i, Stored)
    BY <2>1, BoostsAre, BoostType, GreatestFloor
  <2>3. ASSUME \A j \in Stored : signins[j].geo # None
        PROVE  Boost(i, Reaching(i)) = Boost(i, Stored)
    <3>1. FloorsOf(i, AllOf(i)) \subseteq FloorsOf(i, LatelyOf(i))
      BY <2>3, FastLately, FloorsCompare
    <3>2. FloorsOf(i, AllOf(i)) = FloorsOf(i, LatelyOf(i))
      BY <2>1, <3>1
    <3>3. QED
      BY <3>2, BoostsAre
  <2>4. QED
    BY <2>2, <2>3
<1>2. QED
  BY StoreAlways, <1>1, PTL
====
