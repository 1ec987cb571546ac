-------------------------------- MODULE SignIns --------------------------------
(***************************************************************************)
(* What score_batch makes of the sign-ins it is given: the history of each, *)
(* built from the same batch, its features, the model's score and the      *)
(* floors the rules put under it. Sign-ins arrive in any order, and one    *)
(* exported again replaces the row it had. Times are minutes, scores        *)
(* hundredths.                                                             *)
(***************************************************************************)
EXTENDS Integers, FiniteSets, FiniteSetsExt

CONSTANTS
  Ids,              \* sign-in ids
  Samples,          \* what a sign-in can be: its user, when and where it was, ...
  Places, Asns, Devices,
  Km(_, _),         \* the distance between two places
  Dedicated,        \* users with a model of their own
  Pooled,           \* whether there is a pooled model for the others
  Model(_, _),      \* normalise_score of the model's answer for a user's features
  AdminRule,        \* CSTACK_ML_OFF_HOURS_ADMIN_ENABLED
  Privileged,       \* users in a tier-0 role
  Unusual(_, _),    \* a user's time model finds the time in its top decile
  Furthest,         \* half the earth's circumference, in km
  None

ASSUME SampleAssumption ==
  /\ \A s \in Samples : s.at \in Nat /\ s.geo \in Places \cup {None}
  /\ None \notin Samples /\ None \notin Int
ASSUME DistanceAssumption ==
  /\ Furthest \in Nat /\ Furthest <= 20100
  /\ \A p, q \in Places : Km(p, q) \in 0..Furthest

VARIABLE signins    \* signins[i]: the sign-in stored under i, or None
vars == <<signins>>

Stored == {i \in Ids : signins[i] # None}

Init == signins = [i \in Ids |-> None]

(* upsert_signins. A sign-in exported again has the user and the time it    *)
(* had; no other has both, so their order in a batch is their times'.       *)
SameMoment(s, t) == s.user = t.user /\ s.at = t.at
Arrive(i, s) ==
  /\ \A j \in Stored : SameMoment(signins[j], s) <=> j = i
  /\ signins' = [signins EXCEPT ![i] = s]

Next == \E i \in Ids, s \in Samples : Arrive(i, s)

Spec == Init /\ [][Next]_vars

-----------------------------------------------------------------------------
(* build_history_from_signins, of the sign-ins of one user. *)

WindowDays == 30
Minutes(days) == days * 24 * 60

Own(i, batch) == {j \in batch : signins[j].user = signins[i].user}

OfAnyTime(batch, asOf) == batch
Before(batch, asOf) == {j \in batch : signins[j].at < asOf}

OfAnyAge(past, asOf) == past
Recent(past, asOf) == {j \in past : signins[j].at >= asOf - Minutes(WindowDays)}

TimesIn(country, recent) == Cardinality({j \in recent : signins[j].country = country})
TimesFrom(asn, recent) == Cardinality({j \in recent : signins[j].asn = asn})     \* lookup_asn

(* The coordinates kept are those of the last sign-in that had any, which   *)
(* need not be the last one.                                                *)
LastAt(past) == IF past = {} THEN None ELSE Max({signins[j].at : j \in past})
LastPlace(past) ==
  LET located == {j \in past : signins[j].geo # None} IN
  IF located = {} THEN None
  ELSE LET latest == {j \in located : signins[j].at = LastAt(located)} IN
       signins[CHOOSE j \in latest : TRUE].geo

History(batch, asOf) ==
  LET past == Before(batch, asOf)
      recent == Recent(past, asOf) IN
  [countries |-> [c \in Places |-> TimesIn(c, recent)],
   asns      |-> [a \in Asns |-> TimesFrom(a, recent)],
   devices   |-> {signins[j].device : j \in past} \ {None},
   lastAt    |-> LastAt(past),
   lastPlace |-> LastPlace(past)]

-----------------------------------------------------------------------------
(* extract_features. What is missing is never new and nowhere far.          *)

LongestGap == Minutes(30)
TopSpeed == 100000

SinceLast(s, h) == IF h.lastAt = None THEN LongestGap ELSE Min({LongestGap, s.at - h.lastAt})
Distance(s, h) == IF s.geo = None \/ h.lastPlace = None THEN 0 ELSE Km(h.lastPlace, s.geo)
Speed(s, h) ==
  IF h.lastAt = None THEN 0
  ELSE Min({TopSpeed, (Distance(s, h) * 60) \div Max({s.at - h.lastAt, 1})})

NewIn(value, known) == value # None /\ known[value] = 0

Hour(s) == (s.at \div 60) % 24
Weekday(s) == (s.at \div Minutes(1)) % 7
InBusinessHours(s) == Hour(s) \in 8..18

Features(s, h) ==
  [newCountry |-> NewIn(s.country, h.countries),
   newAsn     |-> NewIn(s.asn, h.asns),
   newDevice  |-> s.device # None /\ s.device \notin h.devices,
   countries  |-> h.countries, asns |-> h.asns,     \* their entropies
   sinceLast  |-> SinceLast(s, h),
   distance   |-> Distance(s, h), speed |-> Speed(s, h),
   hour       |-> Hour(s), weekday |-> Weekday(s), business |-> InBusinessHours(s),
   failed     |-> s.failed, mfa |-> s.mfa, legacy |-> s.legacy]

FeaturesIn(i, batch) == Features(signins[i], History(Own(i, batch), signins[i].at))

-----------------------------------------------------------------------------
(* rule_score_boosts, and score_batch. *)

SpeedFloorKmh == 1500

Floors(f) ==
  (IF f.speed > SpeedFloorKmh THEN {95} ELSE {})
  \cup (IF f.newCountry /\ f.newAsn THEN {85} ELSE {})
  \cup (IF f.failed /\ f.newAsn THEN {85} ELSE {})
  \cup (IF ~f.mfa /\ f.legacy THEN {80} ELSE {})

NightHours == {22, 23} \cup 0..5

(* All that a time model is trained on.                                     *)
TimeColumns(f) == [hour |-> f.hour, weekday |-> f.weekday, business |-> f.business]

AdminFloors(user, f) ==
  IF /\ AdminRule /\ user \in Privileged
     /\ IF user \in Dedicated THEN Unusual(user, TimeColumns(f)) ELSE f.hour \in NightHours
  THEN {85} ELSE {}

Boost(i, batch) ==
  LET f == FeaturesIn(i, batch) IN
  Max({0} \cup Floors(f) \cup AdminFloors(signins[i].user, f))

Tier(user) == IF user \in Dedicated THEN "per_user"
              ELSE IF Pooled THEN "cold_start_pooled" ELSE "rule_only"

Normalised(i, batch) ==
  IF Tier(signins[i].user) = "rule_only" THEN 0
  ELSE Model(signins[i].user, FeaturesIn(i, batch))

Score(i, batch) == Max({Normalised(i, batch), Boost(i, batch)})

(* The forest calls it an outlier just when its normalised score is above a *)
(* half, so the threshold only matters to what the rules raised.            *)
Threshold == 70
Flagged(i, batch) == Normalised(i, batch) > 50 \/ Score(i, batch) >= Threshold

-----------------------------------------------------------------------------
(* Whatever batch it is scored in, a sign-in scores as it does alone with   *)
(* its user's earlier ones: nothing leaks into its history from another     *)
(* user's sign-ins or from later ones.                                      *)
Earlier(i, batch) == {j \in batch : signins[j].user = signins[i].user /\ signins[j].at < signins[i].at}
OnlyOwnPastMatters ==
  \A batch \in SUBSET Stored : \A i \in batch :
    LET alone == {i} \cup Earlier(i, batch) IN
    Score(i, batch) = Score(i, alone) /\ (Flagged(i, batch) <=> Flagged(i, alone))

(* `anomaly score --since` builds the history from its own batch. One that  *)
(* reaches back thirty days from a sign-in never makes the rules harsher on *)
(* it, and when no coordinates are missing makes no difference to them.     *)
Reaching(i) == {j \in Stored : signins[j].at >= signins[i].at - Minutes(WindowDays)}
ThirtyDaysSuffice ==
  \A i \in Stored :
    /\ Boost(i, Reaching(i)) <= Boost(i, Stored)
    /\ (\A j \in Stored : signins[j].geo # None) => Boost(i, Reaching(i)) = Boost(i, Stored)

(* travel_speed_kmh: "Returns 0 when either coordinate or the prior         *)
(* timestamp is missing so absence of data does not look anomalous."        *)
Loses(i) == signins[i].geo # None /\ signins'[i] = [signins[i] EXCEPT !.geo = None]
MissingNeverAlarms ==
  [][\A i \in Stored : Loses(i) =>
       \A j \in Stored : Flagged(j, Stored)' => Flagged(j, Stored)]_vars
=============================================================================
