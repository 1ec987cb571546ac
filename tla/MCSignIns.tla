------------------------------- MODULE MCSignIns -------------------------------
(***************************************************************************)
(* Two users between two cities, over thirty days and an hour: the first   *)
(* has a model of her own, the second is an administrator without one.     *)
(***************************************************************************)
EXTENDS SignIns, TLC

CONSTANTS akl, syd, ana, bo, laptop

Apart2200(p, q) == IF p = q THEN 0 ELSE 2200

At(user, at, place, geo) ==
  [user |-> user, at |-> at, country |-> place, asn |-> place, geo |-> geo,
   device |-> laptop, failed |-> FALSE, mfa |-> TRUE, legacy |-> FALSE]

(* Hours 0, 10, 11 and 731.                                                 *)
Times == {0, 600, 660, 43860}

Travels == {At(ana, t, p, g) : t \in Times, p \in {akl, syd}, g \in {akl, syd, None}}
Sensible == {s \in Travels : s.geo \in {s.country, None}}
Fails == {[At(ana, 660, syd, syd) EXCEPT !.failed = TRUE, !.country = None, !.device = None],
          [At(ana, 600, akl, None) EXCEPT !.asn = None, !.mfa = FALSE, !.legacy = TRUE]}
Bos == {At(bo, t, syd, syd) : t \in {0, 660}}

SomeSamples == Sensible \cup Fails \cup Bos

(* A stand-in for the forests.                                              *)
Forest(user, f) == IF f.newDevice /\ f.sinceLast > 600 THEN 60 ELSE 40
Late(user, time) == time.hour < 6

IdsAlike == Permutations(Ids)
=============================================================================
