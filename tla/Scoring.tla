------------------------------ MODULE Scoring ------------------------------
(***************************************************************************)
(* The heuristic tier of app/inference: the scoring rules of rules.py, the *)
(* geography of geo_utils.py and what engine.py makes of them.             *)
(*                                                                         *)
(* An event is its category and its geometry, a sequence of tracked        *)
(* positions: points with whole-degree coordinates, or other shapes, which *)
(* count as tracking data and have no coordinates the code can read.       *)
(* Percentages stand for the floats of confidence.                         *)
(***************************************************************************)
EXTENDS Integers, Sequences, FiniteSets, FiniteSetsExt, Functions

Positions == [kind : {"point", "other"}, lat : Int, lon : Int]
Events == [category : STRING, geometry : Seq(Positions)]

Risks == {"LOW", "MEDIUM", "HIGH", "CRITICAL"}
Trends == {"STABLE", "ESCALATING", "DECLINING"}

BaseSeverity ==
    [wildfires |-> 55, severeStorms |-> 65, volcanoes |-> 70, floods |-> 60,
     seaLakeIce |-> 35, dustHaze |-> 40, landslides |-> 55, drought |-> 50,
     waterColor |-> 25, manmade |-> 50, snow |-> 30, earthquakes |-> 65]

Base(category) ==
    IF category \in DOMAIN BaseSeverity THEN BaseSeverity[category] ELSE 45

\* GEOMETRY_THRESHOLDS; geometry_bonus takes the first entry that is reached.
GeometryThresholds_Swapped ==
    << <<100, 25>>, <<50, 20>>, <<20, 10>>, <<10, 15>>, <<5, 5>>, <<1, 0>> >>
GeometryThresholds ==
    << <<100, 25>>, <<50, 20>>, <<20, 15>>, <<10, 10>>, <<5, 5>>, <<1, 0>> >>

GeometryBonus(count) ==
    LET reached == {i \in DOMAIN GeometryThresholds : count >= GeometryThresholds[i][1]}
    IN  IF reached = {} THEN 0 ELSE GeometryThresholds[Min(reached)][2]

-----------------------------------------------------------------------------
(* Geography.                                                              *)

Points(geometry) == {i \in DOMAIN geometry : geometry[i].kind = "point"}

Lats(geometry) == [i \in Points(geometry) |-> geometry[i].lat]
Lons(geometry) == [i \in Points(geometry) |-> geometry[i].lon]
Spread(f) == Max(Range(f)) - Min(Range(f))

\* compute_area_proxy
Area(geometry) ==
    IF Cardinality(Points(geometry)) < 2 THEN 0
    ELSE Spread(Lats(geometry)) * Spread(Lons(geometry))

\* extract_centroid, the latitude of which is total / count.  The rounding to
\* four decimals moves no average of less than 10000 points across a band.
Centroid(geometry) ==
    [count |-> Cardinality(Points(geometry)), total |-> SumFunction(Lats(geometry))]

Located(centroid) == centroid.count > 0

\* "lat or 30.0": the default stands for an unknown latitude and for 0.0.
Latitude(centroid) ==
    IF centroid.total = 0 THEN [count |-> 1, total |-> 30] ELSE centroid

\* get_population_zone: the band lo <= |lat| < hi of the latitude.
Bands == << <<0, 15, "tropical_dense">>, <<15, 35, "subtropical_high">>,
            <<35, 55, "temperate_high">>, <<55, 70, "northern_moderate">>,
            <<70, 90, "polar_low">> >>

Magnitude_Signed(n) == n
Magnitude(n) == IF n < 0 THEN -n ELSE n

PopulationZone(lat) ==
    LET size == Magnitude(lat.total)
        within == {i \in DOMAIN Bands : /\ Bands[i][1] * lat.count <= size
                                        /\ size < Bands[i][2] * lat.count}
    IN  IF within = {} THEN "polar_low" ELSE Bands[Min(within)][3]

Dense(lat) == PopulationZone(lat) \in {"tropical_dense", "subtropical_high", "temperate_high"}

\* estimate_impact_description, by the reach it names.
Impact(lat, risk) ==
    CASE risk = "CRITICAL" -> IF Dense(lat) THEN "national" ELSE "regional"
      [] risk = "HIGH"     -> IF Dense(lat) THEN "regional" ELSE "local"
      [] risk = "MEDIUM"   -> "local"
      [] risk = "LOW"      -> "localized"

-----------------------------------------------------------------------------
(* Severity, risk, trend, confidence.                                      *)

Capped_NoCap(score) == score
Capped(score) == IF score > 100 THEN 100 ELSE score

Severity(event) ==
    LET score == Capped(Base(event.category) + GeometryBonus(Len(event.geometry)))
    IN  IF Area(event.geometry) > 10 THEN Capped(score + 10) ELSE score

RiskOf(score) ==
    CASE score >= 80 -> "CRITICAL"
      [] score >= 60 /\ score < 80 -> "HIGH"
      [] score >= 40 /\ score < 60 -> "MEDIUM"
      [] score < 40 -> "LOW"

TrendOf(score, count) ==
    CASE count > 20 /\ score > 70 -> "ESCALATING"
      [] count <= 50 /\ score < 40 -> "DECLINING"
      [] OTHER -> "STABLE"

Confidence(event) ==
    65 + (IF Located(Centroid(event.geometry)) THEN 8 ELSE 0)
       + (IF Len(event.geometry) > 5 THEN 7 ELSE 0)
       + (IF Len(event.geometry) > 20 THEN 5 ELSE 0)

\* RECOMMENDATIONS, by how many lines each of its lists has.
EveryRisk(n) == [CRITICAL |-> n, HIGH |-> n, MEDIUM |-> n, LOW |-> n]
Recommendations ==
    [wildfires |-> EveryRisk(3), severeStorms |-> EveryRisk(3), volcanoes |-> EveryRisk(3),
     floods |-> EveryRisk(3), default |-> EveryRisk(3)]

\* get_recommendations: the list of the category's table, or of the default's.
Advice(category, risk) ==
    LET table == IF category \in DOMAIN Recommendations THEN category ELSE "default"
    IN  [i \in 1..Recommendations[table][risk] |-> <<table, risk, i>>]

\* _build_heuristic_state
HeuristicState(event) ==
    LET score == Severity(event)
        risk == RiskOf(score)
    IN  [severity |-> score, risk |-> risk,
         trend |-> TrendOf(score, Len(event.geometry)),
         impact |-> Impact(Latitude(Centroid(event.geometry)), risk),
         narrative |-> "rules", recs |-> Advice(event.category, risk),
         mode |-> "heuristic", path |-> "TIER_1_HEURISTIC",
         confidence |-> Confidence(event)]

=============================================================================
