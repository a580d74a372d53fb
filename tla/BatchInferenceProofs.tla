------------------------ MODULE BatchInferenceProofs ------------------------
(***************************************************************************)
(* The inference of a batch, proved for any batch, replies, number of      *)
(* threads and timeouts: first what the scoring rules compute for any      *)
(* event, then the state machine.                                          *)
(***************************************************************************)
EXTENDS BatchInference, FiniteLemmas, SequenceTheorems, TLAPS

-----------------------------------------------------------------------------
(* The geometry bonus grows with the tracking data.                        *)

Bonus(count) ==
    IF count >= 100 THEN 25 ELSE IF count >= 50 THEN 20 ELSE IF count >= 20 THEN 15
    ELSE IF count >= 10 THEN 10 ELSE IF count >= 5 THEN 5 ELSE 0

\* The least of a set of indices, one that it holds and that bounds the others.
LEMMA LeastIs ==
  ASSUME NEW S, NEW n \in Nat, S \subseteq 1..n, NEW m \in S, \A y \in S : m <= y
  PROVE  Min(S) = m
<1>1. IsFiniteSet(1..n)
  BY FS_Interval
<1>2. IsFiniteSet(S) /\ S \subseteq Int /\ S # {}
  <2>1. IsFiniteSet(S)
    BY <1>1, FS_Subset
  <2> QED
    BY <2>1
<1>3. Min(S) \in S /\ \A y \in S : Min(S) <= y
  BY <1>2, MinProperties
<1>4. Min(S) <= m /\ m <= Min(S) /\ Min(S) \in Int /\ m \in Int
  BY <1>2, <1>3
<1> QED
  BY <1>4

LEMMA BonusIs == ASSUME NEW count \in Nat PROVE GeometryBonus(count) = Bonus(count)
<1> DEFINE T == GeometryThresholds
           S == {i \in DOMAIN T : count >= T[i][1]}
<1>1. /\ DOMAIN T = 1..6
      /\ T[1] = <<100, 25>> /\ T[2] = <<50, 20>> /\ T[3] = <<20, 15>>
      /\ T[4] = <<10, 10>> /\ T[5] = <<5, 5>> /\ T[6] = <<1, 0>>
  BY DEF GeometryThresholds
<1>2. GeometryBonus(count) = IF S = {} THEN 0 ELSE T[Min(S)][2]
  BY DEF GeometryBonus
<1>3. \A i \in 1..6 : i \in S <=> count >= T[i][1]
  BY <1>1
<1>4. S \subseteq 1..6 /\ 6 \in Nat
  BY <1>1
<1> HIDE DEF T, S
<1>5. /\ 1 \in S <=> count >= 100
      /\ 2 \in S <=> count >= 50
      /\ 3 \in S <=> count >= 20
      /\ 4 \in S <=> count >= 10
      /\ 5 \in S <=> count >= 5
      /\ 6 \in S <=> count >= 1
  BY <1>1, <1>3
<1>6. ASSUME NEW m \in 1..6, m \in S, \A k \in 1..6 : k < m => k \notin S
      PROVE  GeometryBonus(count) = T[m][2]
  <2>1. \A y \in S : m <= y
    BY <1>4, <1>6
  <2>2. Min(S) = m
    BY <1>4, <1>6, <2>1, LeastIs
  <2> QED
    BY <1>2, <1>6, <2>2
<1>7. CASE count >= 100
  <2>1. GeometryBonus(count) = T[1][2]
    BY <1>5, <1>6, <1>7
  <2> QED
    BY <1>1, <1>7, <2>1 DEF Bonus
<1>8. CASE count < 100 /\ count >= 50
  <2>1. GeometryBonus(count) = T[2][2]
    BY <1>5, <1>6, <1>8
  <2> QED
    BY <1>1, <1>8, <2>1 DEF Bonus
<1>9. CASE count < 50 /\ count >= 20
  <2>1. GeometryBonus(count) = T[3][2]
    BY <1>5, <1>6, <1>9
  <2> QED
    BY <1>1, <1>9, <2>1 DEF Bonus
<1>10. CASE count < 20 /\ count >= 10
  <2>1. GeometryBonus(count) = T[4][2]
    BY <1>5, <1>6, <1>10
  <2> QED
    BY <1>1, <1>10, <2>1 DEF Bonus
<1>11. CASE count < 10 /\ count >= 5
  <2>1. GeometryBonus(count) = T[5][2]
    BY <1>5, <1>6, <1>11
  <2> QED
    BY <1>1, <1>11, <2>1 DEF Bonus
<1>12. CASE count < 5 /\ count >= 1
  <2>1. GeometryBonus(count) = T[6][2]
    BY <1>5, <1>6, <1>12
  <2> QED
    BY <1>1, <1>12, <2>1 DEF Bonus
<1>13. CASE count < 1
  <2>1. S = {}
    <3>1. \A m \in 1..6 : m \notin S
      BY <1>5, <1>13
    <3> QED
      BY <1>4, <3>1
  <2> QED
    BY <1>2, <1>13, <2>1 DEF Bonus
<1> QED
  BY <1>7, <1>8, <1>9, <1>10, <1>11, <1>12, <1>13

LEMMA BaseType ==
  ASSUME NEW category
  PROVE  Base(category) \in 25..70
BY DEF Base, BaseSeverity

-----------------------------------------------------------------------------
(* Geography: the area is an integer, the centroid a count and a total.    *)

LEMMA PointsFinite ==
  ASSUME NEW geometry \in Seq(Positions)
  PROVE  /\ IsFiniteSet(Points(geometry)) /\ Cardinality(Points(geometry)) \in Nat
         /\ \A i \in Points(geometry) : geometry[i].lat \in Int /\ geometry[i].lon \in Int
<1>1. DOMAIN geometry = 1..Len(geometry) /\ Len(geometry) \in Nat
  OBVIOUS
<1>2. IsFiniteSet(1..Len(geometry))
  BY <1>1, FS_Interval
<1>3. Points(geometry) \subseteq 1..Len(geometry)
  BY <1>1 DEF Points
<1>4. \A i \in 1..Len(geometry) : geometry[i] \in Positions
  OBVIOUS
<1> QED
  BY <1>2, <1>3, <1>4, FS_Subset, FS_CardinalityType DEF Positions

LEMMA SpreadType ==
  ASSUME NEW S, IsFiniteSet(S), S # {}, NEW f \in [S -> Int]
  PROVE  Spread(f) \in Int
<1>1. f \in Surjection(S, Range(f))
  BY DEF Surjection, Range
<1>2. IsFiniteSet(Range(f))
  BY <1>1, FS_Surjection
<1>3. Range(f) \subseteq Int /\ Range(f) # {}
  BY DEF Range
<1>4. Max(Range(f)) \in Int /\ Min(Range(f)) \in Int
  BY <1>2, <1>3, MaxProperties, MinProperties
<1> QED
  BY <1>4 DEF Spread

LEMMA AreaType ==
  ASSUME NEW geometry \in Seq(Positions)
  PROVE  Area(geometry) \in Int
<1> DEFINE S == Points(geometry)
<1>1. CASE Cardinality(S) < 2
  BY <1>1 DEF Area
<1>2. CASE ~(Cardinality(S) < 2)
  <2>1. S # {}
    <3>1. Cardinality({}) = 0
      BY FS_EmptySet
    <3> HIDE DEF S
    <3>2. S = {} => Cardinality(S) = 0
      BY ONLY <3>1, Zenon
    <3>3. Cardinality(S) # 0
      BY <1>2
    <3> QED
      BY ONLY <3>2, <3>3, Zenon
  <2>2. Lats(geometry) \in [S -> Int] /\ Lons(geometry) \in [S -> Int]
    BY PointsFinite DEF Lats, Lons
  <2>3. Spread(Lats(geometry)) \in Int /\ Spread(Lons(geometry)) \in Int
    <3> HIDE DEF S
    <3> QED
      BY <2>1, <2>2, PointsFinite, SpreadType DEF S
  <2> QED
    BY <1>2, <2>3 DEF Area
<1> QED
  BY <1>1, <1>2

LEMMA CentroidType ==
  ASSUME NEW geometry \in Seq(Positions)
  PROVE  /\ Centroid(geometry).count \in Nat /\ Centroid(geometry).total \in Int
         /\ Centroid(geometry) = [count |-> Centroid(geometry).count,
                                  total |-> Centroid(geometry).total]
<1>1. /\ DOMAIN Lats(geometry) = Points(geometry)
      /\ \A i \in Points(geometry) : Lats(geometry)[i] \in Int
  BY PointsFinite DEF Lats
<1>2. SumFunction(Lats(geometry)) \in Int
  BY <1>1, PointsFinite, SumType DEF SumFunction
<1> QED
  BY <1>2, PointsFinite DEF Centroid

-----------------------------------------------------------------------------
(* The heuristic state of an event.                                        *)

LEMMA EventType ==
  ASSUME NEW event \in Events
  PROVE  /\ event.geometry \in Seq(Positions) /\ Len(event.geometry) \in Nat
         /\ Area(event.geometry) \in Int
<1>1. event.geometry \in Seq(Positions)
  BY DEF Events
<1> QED
  BY <1>1, AreaType

SeverityOf(base, bonus, wide) ==
    LET score == Capped(base + bonus)
    IN  IF wide THEN Capped(score + 10) ELSE score

LEMMA SeverityIs ==
  ASSUME NEW event \in Events
  PROVE  Severity(event) = SeverityOf(Base(event.category), Bonus(Len(event.geometry)),
                                      Area(event.geometry) > 10)
BY EventType, BonusIs DEF Severity, SeverityOf

LEMMA BonusType ==
  ASSUME NEW count
  PROVE  Bonus(count) \in 0..25
BY DEF Bonus

LEMMA SeverityType ==
  ASSUME NEW event \in Events
  PROVE  Severity(event) \in 0..100
<1> DEFINE b == Base(event.category)
           c == Bonus(Len(event.geometry))
<1>1. b \in 25..70 /\ c \in 0..25
  BY BaseType, BonusType
<1> HIDE DEF b, c
<1>2. SeverityOf(b, c, TRUE) \in 0..100 /\ SeverityOf(b, c, FALSE) \in 0..100
  BY <1>1 DEF SeverityOf, Capped
<1>3. \A wide : SeverityOf(b, c, wide) \in {SeverityOf(b, c, TRUE), SeverityOf(b, c, FALSE)}
  BY DEF SeverityOf
<1> QED
  BY <1>2, <1>3, SeverityIs DEF b, c

LEMMA RiskType ==
  ASSUME NEW score \in Nat
  PROVE  RiskOf(score) = IF score >= 80 THEN "CRITICAL" ELSE IF score >= 60 THEN "HIGH"
                         ELSE IF score >= 40 THEN "MEDIUM" ELSE "LOW"
BY DEF RiskOf

LEMMA HeuristicType ==
  ASSUME NEW event \in Events
  PROVE  LET h == HeuristicState(event)
         IN  /\ h.severity = Severity(event) /\ h.severity \in 0..100
             /\ h.risk = RiskOf(Severity(event)) /\ h.risk \in Risks
             /\ h.trend \in Trends /\ h.confidence \in 0..100
<1> DEFINE h == HeuristicState(event)
<1>1. /\ h.severity = Severity(event) /\ h.risk = RiskOf(Severity(event))
      /\ h.trend = TrendOf(Severity(event), Len(event.geometry))
      /\ h.confidence = Confidence(event)
  BY DEF HeuristicState
<1> HIDE DEF h
<1>2. RiskOf(Severity(event)) \in Risks
  <2>1. Severity(event) \in Nat
    BY SeverityType
  <2> QED
    BY <2>1, RiskType DEF Risks
<1>3. TrendOf(Severity(event), Len(event.geometry)) \in Trends
  BY DEF TrendOf, Trends
<1>4. Confidence(event) \in 0..100
  BY DEF Confidence
<1> QED
  BY <1>1, <1>2, <1>3, <1>4, SeverityType DEF h

\* Of two events of one category the one tracked at least as long and spread
\* at least as wide has at least the other's risk.
LEMMA RiskMonotone ==
  ASSUME NEW a \in Events, NEW b \in Events, a.category = b.category,
         Len(a.geometry) <= Len(b.geometry), Area(a.geometry) <= Area(b.geometry)
  PROVE  Rank[RiskOf(Severity(a))] <= Rank[RiskOf(Severity(b))]
<1> DEFINE base == Base(a.category)
           ba == Bonus(Len(a.geometry))
           bb == Bonus(Len(b.geometry))
           wa == Area(a.geometry) > 10
           wb == Area(b.geometry) > 10
<1>1. base \in 25..70 /\ ba \in 0..25 /\ bb \in 0..25
  BY BaseType, BonusType
<1>2. ba <= bb
  BY EventType DEF Bonus
<1>3. wa => wb
  BY EventType
<1>4. Severity(a) = SeverityOf(base, ba, wa) /\ Severity(b) = SeverityOf(base, bb, wb)
  BY SeverityIs
<1> HIDE DEF base, ba, bb, wa, wb
<1>5. Severity(a) <= Severity(b)
  <2>1. CASE wa
    BY <1>1, <1>2, <1>3, <1>4, <2>1 DEF SeverityOf, Capped
  <2>2. CASE ~wa
    BY <1>1, <1>2, <1>4, <2>2 DEF SeverityOf, Capped
  <2> QED
    BY <2>1, <2>2
<1>6. Severity(a) \in Nat /\ Severity(b) \in Nat
  <2>1. Severity(a) \in 0..100 /\ Severity(b) \in 0..100
    BY SeverityType
  <2> QED
    BY ONLY <2>1
<1>7. Rank["LOW"] = 1 /\ Rank["MEDIUM"] = 2 /\ Rank["HIGH"] = 3 /\ Rank["CRITICAL"] = 4
  BY DEF Rank
<1> QED
  BY <1>5, <1>6, <1>7, RiskType

\* The population zone of a latitude total / count: dense within 55 degrees of
\* the equator.
LEMMA DenseIs ==
  ASSUME NEW lat, lat.total \in Int, lat.count \in Nat \ {0}
  PROVE  Dense(lat) <=> -55 * lat.count < lat.total /\ lat.total < 55 * lat.count
<1> DEFINE c == lat.count
           size == Magnitude(lat.total)
           S == {i \in DOMAIN Bands : Bands[i][1] * lat.count <= size
                                      /\ size < Bands[i][2] * lat.count}
<1>1. /\ DOMAIN Bands = 1..5
      /\ Bands[1] = <<0, 15, "tropical_dense">> /\ Bands[2] = <<15, 35, "subtropical_high">>
      /\ Bands[3] = <<35, 55, "temperate_high">> /\ Bands[4] = <<55, 70, "northern_moderate">>
      /\ Bands[5] = <<70, 90, "polar_low">>
  BY DEF Bands
<1>2. PopulationZone(lat) = IF S = {} THEN "polar_low" ELSE Bands[Min(S)][3]
  BY DEF PopulationZone
<1>3. size \in Nat /\ c \in Nat /\ c > 0
  BY DEF Magnitude
<1>4. size < 55 * c <=> -55 * c < lat.total /\ lat.total < 55 * c
  BY DEF Magnitude
<1>5. /\ S \subseteq 1..5
      /\ 1 \in S <=> size < 15 * c
      /\ 2 \in S <=> 15 * c <= size /\ size < 35 * c
      /\ 3 \in S <=> 35 * c <= size /\ size < 55 * c
      /\ 4 \in S <=> 55 * c <= size /\ size < 70 * c
      /\ 5 \in S <=> 70 * c <= size /\ size < 90 * c
  BY <1>1, <1>3
<1> HIDE DEF c, size, S
<1>6. ASSUME NEW m \in 1..5, m \in S, \A k \in 1..5 : k < m => k \notin S
      PROVE  PopulationZone(lat) = Bands[m][3]
  <2>1. \A y \in S : m <= y
    BY <1>5, <1>6
  <2>2. Min(S) = m
    BY <1>5, <1>6, <2>1, LeastIs
  <2> QED
    BY <1>2, <1>6, <2>2
<1>7. CASE size < 15 * c
  BY <1>1, <1>3, <1>4, <1>5, <1>6, <1>7 DEF Dense, c
<1>8. CASE 15 * c <= size /\ size < 35 * c
  BY <1>1, <1>3, <1>4, <1>5, <1>6, <1>8 DEF Dense, c
<1>9. CASE 35 * c <= size /\ size < 55 * c
  BY <1>1, <1>3, <1>4, <1>5, <1>6, <1>9 DEF Dense, c
<1>10. CASE 55 * c <= size /\ size < 70 * c
  BY <1>1, <1>3, <1>4, <1>5, <1>6, <1>10 DEF Dense, c
<1>11. CASE 70 * c <= size
  <2>1. PopulationZone(lat) = "polar_low"
    <3>1. CASE size < 90 * c
      BY <1>1, <1>3, <1>5, <1>6, <1>11, <3>1
    <3>2. CASE ~(size < 90 * c)
      <4>1. S = {}
        <5>1. \A k \in 1..5 : k \notin S
          BY <1>3, <1>5, <1>11, <3>2
        <5> QED
          BY <1>5, <5>1
      <4> QED
        BY <1>2, <4>1
    <3> QED
      BY <3>1, <3>2
  <2> QED
    BY <1>3, <1>4, <1>11, <2>1 DEF Dense, c
<1> QED
  BY <1>3, <1>7, <1>8, <1>9, <1>10, <1>11

Populated(c) == -55 * c.count < c.total /\ c.total < 55 * c.count

\* A located event's population zone is judged from its mean latitude; on the
\* equator, where the code takes 30 degrees, both are dense.
LEMMA DenseFollowsLatitude ==
  ASSUME NEW geometry \in Seq(Positions), Located(Centroid(geometry))
  PROVE  Dense(Latitude(Centroid(geometry))) <=> Populated(Centroid(geometry))
<1> DEFINE c == Centroid(geometry)
<1>1. c.count \in Nat \ {0} /\ c.total \in Int
  BY CentroidType DEF Located
<1>2. CASE c.total = 0
  <2> DEFINE d == [count |-> 1, total |-> 30]
  <2>1. Latitude(c) = d /\ d.count = 1 /\ d.total = 30
    BY <1>2 DEF Latitude
  <2> HIDE DEF c, d
  <2>2. d.total \in Int /\ d.count \in Nat \ {0}
    BY <2>1
  <2>3. Dense(d) <=> -55 * d.count < d.total /\ d.total < 55 * d.count
    BY ONLY <2>2, DenseIs
  <2>4. Dense(d)
    BY <2>1, <2>3
  <2>5. Populated(c)
    BY <1>1, <1>2 DEF Populated
  <2> QED
    BY <2>1, <2>4, <2>5 DEF c
<1>3. CASE c.total # 0
  <2>1. Latitude(c) = c
    BY <1>3 DEF Latitude
  <2> HIDE DEF c
  <2>2. Dense(c) <=> Populated(c)
    BY ONLY <1>1, DenseIs DEF Populated
  <2> QED
    BY <2>1, <2>2 DEF c
<1> QED
  BY <1>2, <1>3

-----------------------------------------------------------------------------
(* The recommendations of an answer: its lines that are not blank, cut or  *)
(* padded to three.                                                        *)

\* The lists that Cleaned builds: each depends on the one before.
IsCleanedTo(h, recs, n) ==
    h = [k \in 0..n |-> IF k = 0 THEN <<>>
                        ELSE IF recs[k] = Blank THEN h[k - 1] ELSE Append(h[k - 1], recs[k])]

LEMMA CleanedExists ==
  ASSUME NEW recs, Len(recs) \in Nat
  PROVE  \E h : IsCleanedTo(h, recs, Len(recs))
<1> DEFINE A == {n \in Nat : \E h : IsCleanedTo(h, recs, n)}
<1>1. 0 \in A
  <2>1. IsCleanedTo([k \in 0..0 |-> <<>>], recs, 0)
    BY DEF IsCleanedTo
  <2> QED
    BY <2>1
<1>2. ASSUME NEW n \in Nat, n \in A PROVE n + 1 \in A
  <2>1. PICK h : IsCleanedTo(h, recs, n)
    BY <1>2
  <2> DEFINE g == [k \in 0..(n + 1) |->
                     IF k <= n THEN h[k]
                     ELSE IF recs[k] = Blank THEN h[k - 1] ELSE Append(h[k - 1], recs[k])]
  <2>2. ASSUME NEW k \in 0..(n + 1)
        PROVE  g[k] = IF k = 0 THEN <<>>
                      ELSE IF recs[k] = Blank THEN g[k - 1] ELSE Append(g[k - 1], recs[k])
    <3>1. CASE k <= n
      <4>1. k \in 0..n /\ g[k] = h[k] /\ (k # 0 => g[k - 1] = h[k - 1])
        BY <3>1
      <4>2. h[k] = IF k = 0 THEN <<>>
                   ELSE IF recs[k] = Blank THEN h[k - 1] ELSE Append(h[k - 1], recs[k])
        BY <2>1, <4>1 DEF IsCleanedTo
      <4> QED
        BY <4>1, <4>2
    <3>2. CASE ~(k <= n)
      BY <3>2
    <3> QED
      BY <3>1, <3>2
  <2>3. IsCleanedTo(g, recs, n + 1)
    BY <2>2 DEF IsCleanedTo
  <2> QED
    BY <2>3
<1> HIDE DEF A
<1>3. Nat \subseteq A
  BY <1>1, <1>2, NatSetInduction
<1> QED
  BY <1>3 DEF A

LEMMA CleanedType ==
  ASSUME NEW S, NEW recs \in Seq(S)
  PROVE  Cleaned(recs) \in Seq(Range(recs) \ {Blank})
<1> SUFFICES ASSUME NEW T, T = Range(recs) \ {Blank} PROVE Cleaned(recs) \in Seq(T)
  OBVIOUS
<1> DEFINE IsIt(f) == f = [n \in 0..Len(recs) |->
                             IF n = 0 THEN <<>>
                             ELSE IF recs[n] = Blank THEN f[n - 1] ELSE Append(f[n - 1], recs[n])]
           h == CHOOSE f : IsIt(f)
           A == {n \in Nat : n <= Len(recs) => h[n] \in Seq(T)}
<1>1. Len(recs) \in Nat /\ DOMAIN recs = 1..Len(recs)
  OBVIOUS
<1>2. Cleaned(recs) = h[Len(recs)]
  BY DEF Cleaned
<1>3. \E f : IsIt(f)
  BY <1>1, CleanedExists DEF IsCleanedTo
<1>4. IsIt(h)
  BY <1>3
<1> HIDE DEF h
<1>5. \A n \in 0..Len(recs) :
        h[n] = IF n = 0 THEN <<>>
               ELSE IF recs[n] = Blank THEN h[n - 1] ELSE Append(h[n - 1], recs[n])
  BY <1>4
<1> HIDE DEF IsIt
<1>6. 0 \in A
  <2>1. 0 \in 0..Len(recs)
    BY <1>1
  <2>2. h[0] = <<>>
    BY <1>5, <2>1
  <2>3. h[0] \in Seq(T)
    BY <2>2, EmptySeq
  <2> QED
    BY <2>3
<1>7. ASSUME NEW n \in Nat, n \in A PROVE n + 1 \in A
  <2>1. SUFFICES ASSUME n + 1 <= Len(recs) PROVE h[n + 1] \in Seq(T)
    OBVIOUS
  <2>2. n + 1 \in 0..Len(recs) /\ n + 1 # 0 /\ (n + 1) - 1 = n /\ n + 1 \in DOMAIN recs
    BY <1>1, <2>1
  <2>3. h[n + 1] = IF recs[n + 1] = Blank THEN h[n] ELSE Append(h[n], recs[n + 1])
    BY <1>5, <2>2
  <2>4. h[n] \in Seq(T)
    BY <1>1, <1>7, <2>1
  <2>5. recs[n + 1] # Blank => recs[n + 1] \in T
    BY <2>2 DEF Range
  <2> QED
    BY <2>3, <2>4, <2>5
<1> HIDE DEF A
<1>8. Nat \subseteq A
  BY <1>6, <1>7, NatSetInduction
<1>9. h[Len(recs)] \in Seq(T)
  BY <1>1, <1>8 DEF A
<1> QED
  BY <1>2, <1>9

LEMMA SanitizedType ==
  ASSUME NEW S, NEW reply, reply.recs \in Seq(S)
  PROVE  /\ Sanitized(reply) \in Seq(Range(reply.recs) \ {Blank})
         /\ Len(Sanitized(reply)) <= 3
<1> DEFINE T == Range(reply.recs) \ {Blank}
           lines == Cleaned(reply.recs)
           n == Min({3, Len(lines)})
<1>1. lines \in Seq(T)
  BY CleanedType
<1> HIDE DEF lines, T
<1>2. Len(lines) \in Nat
  BY <1>1
<1>3. n \in 0..3 /\ n <= Len(lines)
  <2>1. IsFiniteSet({3, Len(lines)}) /\ {3, Len(lines)} \subseteq Int
    <3>1. {3, Len(lines)} \subseteq 0..(Len(lines) + 3)
      BY <1>2
    <3>2. IsFiniteSet(0..(Len(lines) + 3))
      BY <1>2, FS_Interval
    <3>3. IsFiniteSet({3, Len(lines)})
      BY <3>1, <3>2, FS_Subset
    <3> QED
      BY <1>2, <3>3
  <2>2. n \in {3, Len(lines)} /\ n <= 3 /\ n <= Len(lines)
    BY <2>1, MinProperties
  <2> QED
    BY <1>2, <2>2
<1>4. Sanitized(reply) = SubSeq(lines, 1, n)
  BY DEF Sanitized, lines
<1> HIDE DEF n
<1> QED
  BY <1>1, <1>2, <1>3, <1>4 DEF T

LEMMA PaddedToThree ==
  ASSUME NEW T, NEW s \in Seq(T), s # <<>>, Len(s) <= 3
  PROVE  LET r == s \o [i \in 1..(3 - Len(s)) |-> s[Len(s)]]
         IN  Len(r) = 3 /\ Range(r) \subseteq T
<1> DEFINE pad == [i \in 1..(3 - Len(s)) |-> s[Len(s)]]
           r == s \o pad
<1>1. Len(s) \in 1..3
  <2>1. Len(s) \in Nat /\ Len(s) # 0 /\ Len(s) <= 3
    BY EmptySeq
  <2>2. \A n \in Nat : n # 0 /\ n <= 3 => n \in 1..3
    OBVIOUS
  <2> QED
    BY <2>1, <2>2, Zenon
<1>2. s[Len(s)] \in T
  BY <1>1
<1>3. pad \in Seq(T) /\ Len(pad) = 3 - Len(s)
  BY <1>1, <1>2
<1> HIDE DEF pad
<1>4. r \in Seq(T) /\ Len(r) = 3
  BY <1>1, <1>3
<1> HIDE DEF r
<1>5. Range(r) \subseteq T
  <2>1. \A i \in DOMAIN r : r[i] \in T
    BY <1>4
  <2> QED
    BY <2>1 DEF Range
<1> QED
  BY <1>4, <1>5 DEF r, pad

LEMMA RecsAreThree ==
  ASSUME NEW S, NEW reply, reply.recs \in Seq(S), Usable(reply)
  PROVE  Len(Recs(reply)) = 3 /\ Range(Recs(reply)) \subseteq Range(reply.recs) \ {Blank}
<1> DEFINE T == Range(reply.recs) \ {Blank}
           recs == Sanitized(reply)
<1>1. recs \in Seq(T) /\ Len(recs) <= 3 /\ recs # <<>>
  BY SanitizedType DEF Usable
<1>2. Recs(reply) = recs \o [i \in 1..(3 - Len(recs)) |-> recs[Len(recs)]]
  BY DEF Recs
<1> HIDE DEF T, recs
<1>3. Len(Recs(reply)) = 3 /\ Range(Recs(reply)) \subseteq T
  BY <1>1, <1>2, PaddedToThree
<1> QED
  BY <1>3 DEF T

LEMMA NoReplyUnusable == ~Usable(NoReply)
<1>1. NoReply.recs = <<>> /\ <<>> \in Seq({})
  BY DEF NoReply
<1>2. Sanitized(NoReply) \in Seq(Range(NoReply.recs) \ {Blank})
  BY <1>1, SanitizedType
<1>3. Range(NoReply.recs) = {}
  BY <1>1 DEF Range
<1>4. Sanitized(NoReply) = <<>>
  BY <1>2, <1>3
<1> QED
  BY <1>4 DEF Usable

LEMMA AdviceIsThree ==
  ASSUME NEW event \in Events
  PROVE  Len(HeuristicState(event).recs) = 3
<1> DEFINE risk == RiskOf(Severity(event))
           table == IF event.category \in DOMAIN Recommendations THEN event.category
                    ELSE "default"
<1>1. HeuristicState(event).recs = [i \in 1..Recommendations[table][risk] |-> <<table, risk, i>>]
  BY DEF HeuristicState, Advice
<1>2. risk \in Risks
  BY HeuristicType
<1>3. Recommendations[table][risk] = 3
  <2>1. table \in DOMAIN Recommendations
    BY DEF Recommendations
  <2> HIDE DEF table, risk
  <2>2. Recommendations[table] = EveryRisk(3)
    BY <2>1 DEF Recommendations
  <2> QED
    BY <1>2, <2>2 DEF EveryRisk, Risks
<1> QED
  BY <1>1, <1>3

-----------------------------------------------------------------------------
(* An event's state goes from the heuristic one to Gemini's field by field *)
(* in the order of Fields: k of them have been assigned.                   *)

Applied(i, k) ==
    LET h == Heuristic(i)
        g == FromGemini(i)
    IN  [severity |-> h.severity, risk |-> h.risk,
         trend |-> IF k >= 3 THEN g.trend ELSE h.trend,
         impact |-> h.impact,
         narrative |-> IF k >= 1 THEN g.narrative ELSE h.narrative,
         recs |-> IF k >= 2 THEN g.recs ELSE h.recs,
         mode |-> IF k >= 4 THEN g.mode ELSE h.mode,
         path |-> IF k >= 5 THEN g.path ELSE h.path,
         confidence |-> IF k >= 6 THEN g.confidence ELSE h.confidence]

\* What Gemini's answer leaves alone, and what it sets.
LEMMA GeminiIs ==
  ASSUME NEW i
  PROVE  LET h == Heuristic(i)
             g == FromGemini(i)
         IN  /\ g.severity = h.severity /\ g.risk = h.risk /\ g.impact = h.impact
             /\ g.narrative = answers[i].narrative /\ g.recs = Recs(answers[i])
             /\ g.trend = Trend(answers[i]) /\ g.mode = "gemini"
             /\ g.path = "TIER_2_GEMINI" /\ g.confidence = Raised(h.confidence)
             /\ h.narrative = "rules" /\ h.path = "TIER_1_HEURISTIC"
BY DEF Heuristic, FromGemini, Enriched, HeuristicState

LEMMA EnrichedIs ==
  ASSUME NEW sev, NEW risk, NEW trend, NEW imp, NEW text, NEW recs, NEW mode, NEW path,
         NEW conf, NEW reply
  PROVE  Enriched([severity |-> sev, risk |-> risk, trend |-> trend, impact |-> imp,
                   narrative |-> text, recs |-> recs, mode |-> mode, path |-> path,
                   confidence |-> conf], reply) =
           [severity |-> sev, risk |-> risk, trend |-> Trend(reply), impact |-> imp,
            narrative |-> reply.narrative, recs |-> Recs(reply), mode |-> "gemini",
            path |-> "TIER_2_GEMINI", confidence |-> Raised(conf)]
<1> DEFINE e == Enriched([severity |-> sev, risk |-> risk, trend |-> trend, impact |-> imp,
                          narrative |-> text, recs |-> recs, mode |-> mode, path |-> path,
                          confidence |-> conf], reply)
<1>1. /\ DOMAIN e = {"severity", "risk", "trend", "impact", "narrative", "recs", "mode",
                     "path", "confidence"}
      /\ e = [f \in DOMAIN e |-> e[f]]
  BY DEF Enriched
<1>2. /\ e.severity = sev /\ e.risk = risk /\ e.trend = Trend(reply) /\ e.impact = imp
      /\ e.narrative = reply.narrative /\ e.recs = Recs(reply) /\ e.mode = "gemini"
      /\ e.path = "TIER_2_GEMINI" /\ e.confidence = Raised(conf)
  BY DEF Enriched
<1> HIDE DEF e
<1>3. e = [severity |-> sev, risk |-> risk, trend |-> Trend(reply), impact |-> imp,
           narrative |-> reply.narrative, recs |-> Recs(reply), mode |-> "gemini",
           path |-> "TIER_2_GEMINI", confidence |-> Raised(conf)]
  BY ONLY <1>1, <1>2
<1> QED
  BY <1>3 DEF e

LEMMA HeuristicIs ==
  ASSUME NEW i
  PROVE  LET h == Heuristic(i)
         IN  h = [severity |-> h.severity, risk |-> h.risk, trend |-> h.trend,
                  impact |-> h.impact, narrative |-> h.narrative, recs |-> h.recs,
                  mode |-> h.mode, path |-> h.path, confidence |-> h.confidence]
BY DEF Heuristic, HeuristicState

LEMMA AppliedEnds ==
  ASSUME NEW i
  PROVE  Applied(i, 0) = Heuristic(i) /\ Applied(i, 6) = FromGemini(i)
<1>1. Applied(i, 0) = Heuristic(i)
  BY HeuristicIs DEF Applied
<1>2. Applied(i, 6) = FromGemini(i)
  <2>1. FromGemini(i) =
          [severity |-> Heuristic(i).severity, risk |-> Heuristic(i).risk,
           trend |-> Trend(answers[i]), impact |-> Heuristic(i).impact,
           narrative |-> answers[i].narrative, recs |-> Recs(answers[i]),
           mode |-> "gemini", path |-> "TIER_2_GEMINI",
           confidence |-> Raised(Heuristic(i).confidence)]
    BY HeuristicIs, EnrichedIs DEF FromGemini
  <2> QED
    BY <2>1 DEF Applied
<1> QED
  BY <1>1, <1>2

\* The next assignment applies the next field.
LEMMA AssignedNext ==
  ASSUME NEW i, NEW k \in 0..5
  PROVE  [Applied(i, k) EXCEPT ![Fields[k + 1]] =
             Enriched(Applied(i, k), answers[i])[Fields[k + 1]]] = Applied(i, k + 1)
<1> DEFINE r == Applied(i, k)
           g == FromGemini(i)
<1>1. k <= 5 => r.confidence = Heuristic(i).confidence
  BY DEF Applied
<1>2. Enriched(r, answers[i]) =
        [severity |-> r.severity, risk |-> r.risk, trend |-> Trend(answers[i]),
         impact |-> r.impact, narrative |-> answers[i].narrative,
         recs |-> Recs(answers[i]), mode |-> "gemini", path |-> "TIER_2_GEMINI",
         confidence |-> Raised(r.confidence)]
  BY EnrichedIs DEF Applied
<1>3. CASE k = 0
  <2>1. Fields[k + 1] = "narrative"
    BY <1>3 DEF Fields
  <2>2. Enriched(r, answers[i])["narrative"] = g.narrative
    BY <1>2, GeminiIs
  <2>3. [r EXCEPT !["narrative"] = g.narrative] = Applied(i, 1)
    BY <1>3 DEF Applied
  <2> QED
    BY <1>3, <2>1, <2>2, <2>3
<1>4. CASE k = 1
  <2>1. Fields[k + 1] = "recs"
    BY <1>4 DEF Fields
  <2>2. Enriched(r, answers[i])["recs"] = g.recs
    BY <1>2, GeminiIs
  <2>3. [r EXCEPT !["recs"] = g.recs] = Applied(i, 2)
    BY <1>4 DEF Applied
  <2> QED
    BY <1>4, <2>1, <2>2, <2>3
<1>5. CASE k = 2
  <2>1. Fields[k + 1] = "trend"
    BY <1>5 DEF Fields
  <2>2. Enriched(r, answers[i])["trend"] = g.trend
    BY <1>2, GeminiIs
  <2>3. [r EXCEPT !["trend"] = g.trend] = Applied(i, 3)
    BY <1>5 DEF Applied
  <2> QED
    BY <1>5, <2>1, <2>2, <2>3
<1>6. CASE k = 3
  <2>1. Fields[k + 1] = "mode"
    BY <1>6 DEF Fields
  <2>2. Enriched(r, answers[i])["mode"] = g.mode
    BY <1>2, GeminiIs
  <2>3. [r EXCEPT !["mode"] = g.mode] = Applied(i, 4)
    BY <1>6 DEF Applied
  <2> QED
    BY <1>6, <2>1, <2>2, <2>3
<1>7. CASE k = 4
  <2>1. Fields[k + 1] = "path"
    BY <1>7 DEF Fields
  <2>2. Enriched(r, answers[i])["path"] = g.path
    BY <1>2, GeminiIs
  <2>3. [r EXCEPT !["path"] = g.path] = Applied(i, 5)
    BY <1>7 DEF Applied
  <2> QED
    BY <1>7, <2>1, <2>2, <2>3
<1>8. CASE k = 5
  <2>1. Fields[k + 1] = "confidence"
    BY <1>8 DEF Fields
  <2>2. Enriched(r, answers[i])["confidence"] = g.confidence
    BY <1>2, <1>1, <1>8, GeminiIs DEF Applied
  <2>3. [r EXCEPT !["confidence"] = g.confidence] = Applied(i, 6)
    BY <1>8 DEF Applied
  <2> QED
    BY <1>8, <2>1, <2>2, <2>3
<1> QED
  BY <1>3, <1>4, <1>5, <1>6, <1>7, <1>8

\* The fields left once k are assigned.
Rest(k) == SubSeq(Fields, k + 1, 6)

LEMMA RestIs ==
  ASSUME NEW k \in 0..5
  PROVE  /\ Rest(k) # <<>> /\ Head(Rest(k)) = Fields[k + 1]
         /\ Len(Rest(k)) = 6 - k /\ Tail(Rest(k)) = Rest(k + 1)
BY DEF Rest, Fields

LEMMA NothingLeft == Rest(6) = <<>> /\ Rest(0) = Fields
<1>1. Len(Fields) = 6 /\ Fields \in Seq(Content)
  BY DEF Fields, Content
<1>2. SubSeq(Fields, 1, 6) = Fields
  BY <1>1, SubSeqFull
<1>3. SubSeq(Fields, 7, 6) = <<>>
  BY SubSeqEmpty
<1> QED
  BY <1>2, <1>3 DEF Rest

-----------------------------------------------------------------------------
(* The inductive invariant.                                                *)

PCs == {"collect", "assign", "drain", "convert", "returned", "raised"}

FlowInv ==
    /\ work \in Workloads
    /\ state = [i \in Idx |-> state[i]]
    /\ calls \in [Idx -> CallStates] /\ answers \in [Idx -> Replies \cup {NoReply}]
    /\ collected \subseteq {i \in Idx : calls[i] = "done"}
    /\ current \in 0..N /\ struck \in BOOLEAN /\ pc \in PCs
    /\ IF pc = "assign" THEN current \in collected /\ \E k \in 0..5 : left = Rest(k)
       ELSE left = <<>>

\* k fields of an event's state are Gemini's: none before its answer is
\* applied, all of them after, unless the timeout struck in between.
ProgressIs(i, k) ==
    /\ state[i] = Applied(i, k)
    /\ k > 0 => i \in collected /\ Usable(answers[i])
    /\ pc = "assign" /\ i = current => Usable(answers[i]) /\ k < 6 /\ left = Rest(k)
    /\ ~struck /\ i \in collected /\ Usable(answers[i]) /\ ~(pc = "assign" /\ i = current)
         => k = 6

StateInv == \A i \in Idx : \E k \in 0..6 : ProgressIs(i, k)

EndInv ==
    /\ pc \in {"convert", "returned", "raised"} => Finished
    /\ work.gemini /\ pc \in {"convert", "returned"} => collected = Idx
    /\ ~work.gemini => \A i \in Idx : answers[i] = NoReply /\ calls[i] = "done"
    /\ results = IF pc = "returned" THEN state ELSE <<>>

IInv == FlowInv /\ StateInv /\ EndInv

LEMMA WorkType ==
  ASSUME work \in Workloads
  PROVE  /\ N \in Nat \ {0} /\ work.gemini \in BOOLEAN /\ work.single \in BOOLEAN
         /\ work.single => N = 1
         /\ \A i \in Idx : work.batch[i] \in Events
<1>1. /\ work \in [batch : Seq(Events), gemini : BOOLEAN, single : BOOLEAN]
      /\ work.batch # <<>>
      /\ work.single => Len(work.batch) = 1
  BY WorkloadsAssumption
<1>2. work.batch \in Seq(Events)
  BY <1>1
<1>3. Len(work.batch) \in Nat \ {0}
  BY <1>1, <1>2, EmptySeq
<1>4. \A i \in 1..Len(work.batch) : work.batch[i] \in Events
  BY <1>2
<1> QED
  BY <1>1, <1>3, <1>4 DEF N, Idx

LEMMA InitIInv == Init => IInv
<1> SUFFICES ASSUME Init PROVE IInv
  OBVIOUS
<1>0. work \in Workloads /\ N \in Nat \ {0}
  BY WorkType DEF Init
<1>1. FlowInv
  <2>1. /\ calls \in [Idx -> CallStates] /\ answers \in [Idx -> Replies \cup {NoReply}]
        /\ state = [i \in Idx |-> state[i]]
    BY DEF Init, CallStates
  <2>2. /\ collected \subseteq {i \in Idx : calls[i] = "done"} /\ current \in 0..N
        /\ struck \in BOOLEAN /\ pc \in PCs /\ pc # "assign" /\ left = <<>>
    <3>1. pc \in {"collect", "convert"}
      BY DEF Init
    <3>2. collected = {} /\ current = 0 /\ struck = FALSE /\ left = <<>>
      BY DEF Init
    <3>3. 0 \in 0..N
      BY <1>0
    <3> QED
      BY <3>1, <3>2, <3>3 DEF PCs
  <2> QED
    BY <1>0, <2>1, <2>2 DEF FlowInv
<1>2. StateInv
  <2> SUFFICES ASSUME NEW i \in Idx PROVE ProgressIs(i, 0)
    BY DEF StateInv
  <2>1. state[i] = Applied(i, 0)
    BY AppliedEnds DEF Init, Heuristic
  <2>2. collected = {} /\ pc # "assign"
    BY DEF Init
  <2> QED
    BY <2>1, <2>2 DEF ProgressIs
<1>3. EndInv
  BY WorkType DEF Init, EndInv, Finished
<1> QED
  BY <1>1, <1>2, <1>3 DEF IInv

\* Steps of the threads and of the timeout leave the states, and what is to
\* become of them, alone.
LEMMA StateKept ==
  ASSUME FlowInv, StateInv, UNCHANGED <<work, state, collected, current>>,
         \A i \in Idx : i \in collected => answers'[i] = answers[i],
         \/ UNCHANGED <<left, pc>> /\ (struck => struck')
         \/ struck' /\ pc' # "assign"
  PROVE  StateInv'
<1> SUFFICES ASSUME NEW i \in Idx PROVE \E k \in 0..6 : ProgressIs(i, k)'
  BY DEF StateInv, Idx, N
<1>1. PICK k \in 0..6 : ProgressIs(i, k)
  BY DEF StateInv
<1>2. CASE i \in collected
  <2>1. answers'[i] = answers[i]
    BY <1>2
  <2>2. Applied(i, k)' = Applied(i, k)
    BY <2>1 DEF Applied, FromGemini, Heuristic
  <2> QED
    BY <1>1, <1>2, <2>1, <2>2 DEF ProgressIs
<1>3. CASE i \notin collected
  <2>1. k = 0
    BY <1>1, <1>3 DEF ProgressIs
  <2>2. Applied(i, 0)' = Applied(i, 0)
    <3>1. Heuristic(i)' = Heuristic(i)
      BY DEF Heuristic
    <3> QED
      BY <3>1 DEF Applied
  <2>3. ~(pc = "assign" /\ i = current)
    BY <1>3 DEF FlowInv
  <2>4. ~(pc' = "assign" /\ i = current')
    BY <2>3
  <2>5. ProgressIs(i, 0)'
    BY <1>1, <1>3, <2>1, <2>2, <2>4 DEF ProgressIs
  <2> QED
    BY <2>5
<1> QED
  BY <1>2, <1>3

LEMMA StepIInv == IInv /\ [Next]_vars => IInv'
<1> SUFFICES ASSUME IInv, [Next]_vars PROVE IInv'
  OBVIOUS
<1>0. /\ FlowInv /\ StateInv /\ EndInv
      /\ work \in Workloads /\ N \in Nat \ {0} /\ Idx = 1..N
      /\ state = [i \in Idx |-> state[i]]
      /\ calls \in [Idx -> CallStates] /\ answers \in [Idx -> Replies \cup {NoReply}]
      /\ \A i \in collected : i \in Idx /\ calls[i] = "done"
      /\ current \in 0..N /\ struck \in BOOLEAN /\ pc \in PCs
      /\ pc = "assign" => current \in collected /\ \E k \in 0..5 : left = Rest(k)
      /\ pc # "assign" => left = <<>>
  BY WorkType DEF IInv, FlowInv, Idx
<1>1. ASSUME UNCHANGED vars PROVE IInv'
  <2>1. FlowInv'
    BY <1>0, <1>1 DEF vars, FlowInv, Idx, N
  <2>2. StateInv'
    BY <1>0, <1>1, StateKept DEF vars
  <2>3. EndInv'
    BY <1>0, <1>1 DEF vars, EndInv, Finished, Idx, N
  <2> QED
    BY <2>1, <2>2, <2>3 DEF IInv
<1>2. ASSUME NEW i \in Idx, StartCall(i) PROVE IInv'
  <2>1. /\ calls[i] = "queued" /\ pc \in {"collect", "assign", "drain"}
        /\ calls' = [calls EXCEPT ![i] = "running"]
        /\ UNCHANGED <<work, state, answers, collected, current, left, results, struck, pc>>
    BY <1>2 DEF StartCall
  <2>2. calls' \in [Idx -> CallStates] /\ \A j \in collected : calls'[j] = "done"
    BY <1>0, <2>1 DEF CallStates
  <2>3. FlowInv'
    BY <1>0, <2>1, <2>2 DEF FlowInv, Idx, N
  <2>4. StateInv'
    BY <1>0, <2>1, StateKept
  <2>5. work.gemini
    BY <1>0, <2>1 DEF EndInv
  <2>6. EndInv'
    BY <1>0, <2>1, <2>5 DEF EndInv, Idx, N
  <2> QED
    BY <2>3, <2>4, <2>6 DEF IInv
<1>3. ASSUME NEW i \in Idx, Answer(i) PROVE IInv'
  <2>1. /\ calls[i] = "running" /\ calls' = [calls EXCEPT ![i] = "done"]
        /\ UNCHANGED <<work, state, collected, current, left, results, struck, pc>>
    BY <1>3 DEF Answer
  <2>2. PICK reply \in Replies \cup {NoReply} : answers' = [answers EXCEPT ![i] = reply]
    BY <1>3 DEF Answer
  <2>3. calls' \in [Idx -> CallStates] /\ answers' \in [Idx -> Replies \cup {NoReply}]
        /\ \A j \in collected : calls'[j] = "done" /\ answers'[j] = answers[j]
    BY <1>0, <2>1, <2>2 DEF CallStates
  <2>4. FlowInv'
    BY <1>0, <2>1, <2>3 DEF FlowInv, Idx, N
  <2>5. StateInv'
    BY <1>0, <2>1, <2>3, StateKept
  <2>6. ~Finished /\ work.gemini
    BY <1>0, <2>1 DEF EndInv, Finished
  <2>7. EndInv'
    BY <1>0, <2>1, <2>6 DEF EndInv, Idx, N
  <2> QED
    BY <2>4, <2>5, <2>7 DEF IInv
<1>4. ASSUME NEW i \in Idx, Collect(i) PROVE IInv'
  <2>1. /\ pc = "collect" /\ calls[i] = "done" /\ i \notin collected
        /\ collected' = collected \cup {i}
        /\ IF Usable(answers[i]) THEN pc' = "assign" /\ current' = i /\ left' = Fields
           ELSE UNCHANGED <<pc, current, left>>
        /\ UNCHANGED <<work, state, calls, answers, results, struck>>
    BY <1>4 DEF Collect
  <2>2. FlowInv'
    <3>1. \A j \in collected' : j \in Idx /\ calls'[j] = "done"
      BY <1>0, <2>1
    <3>2. pc' \in PCs /\ current' \in 0..N
      BY <1>0, <2>1 DEF PCs
    <3>3. IF pc' = "assign" THEN current' \in collected' /\ \E k \in 0..5 : left' = Rest(k)
          ELSE left' = <<>>
      <4>1. left' = Fields => left' = Rest(0)
        BY NothingLeft
      <4> QED
        BY <1>0, <2>1, <4>1
    <3> QED
      BY <1>0, <2>1, <3>1, <3>2, <3>3 DEF FlowInv, Idx, N
  <2>3. StateInv'
    <3> SUFFICES ASSUME NEW j \in Idx PROVE \E k \in 0..6 : ProgressIs(j, k)'
      BY <2>1 DEF StateInv, Idx, N
    <3>1. PICK k \in 0..6 : ProgressIs(j, k)
      BY <1>0 DEF StateInv
    <3>2. Applied(j, k)' = Applied(j, k) /\ state'[j] = Applied(j, k)
      BY <2>1, <3>1 DEF ProgressIs, Applied, FromGemini, Heuristic
    <3>3. CASE j = i
      <4>1. k = 0
        BY <2>1, <3>1, <3>3 DEF ProgressIs
      <4>2. left' = Fields => left' = Rest(0)
        BY NothingLeft
      <4>3. ProgressIs(j, 0)'
        BY <2>1, <3>2, <3>3, <4>1, <4>2 DEF ProgressIs
      <4> QED
        BY <4>3
    <3>4. CASE j # i
      <4>1. j \in collected' <=> j \in collected
        BY <2>1, <3>4
      <4>2. ~(pc' = "assign" /\ j = current') /\ pc # "assign"
        BY <2>1, <3>4
      <4>3. ProgressIs(j, k)'
        BY <2>1, <3>1, <3>2, <4>1, <4>2 DEF ProgressIs
      <4> QED
        BY <4>3
    <3> QED
      BY <3>3, <3>4
  <2>4. EndInv'
    <3>1. pc' \notin {"convert", "returned", "raised"} /\ results = <<>>
      BY <1>0, <2>1 DEF EndInv
    <3> QED
      BY <1>0, <2>1, <3>1 DEF EndInv, Idx, N
  <2> QED
    BY <2>2, <2>3, <2>4 DEF IInv
<1>5. ASSUME Assign PROVE IInv'
  <2>1. /\ pc = "assign" /\ left' = Tail(left)
        /\ state' = [state EXCEPT ![current][Head(left)] =
                       Enriched(state[current], answers[current])[Head(left)]]
        /\ pc' = IF Len(left) = 1 THEN "collect" ELSE "assign"
        /\ UNCHANGED <<work, calls, answers, collected, current, results, struck>>
    BY <1>5 DEF Assign
  <2>2. current \in collected /\ current \in Idx
    BY <1>0, <2>1
  <2>3. PICK k \in 0..6 : ProgressIs(current, k)
    BY <1>0, <2>2 DEF StateInv
  <2>4. /\ state[current] = Applied(current, k) /\ k \in 0..5 /\ left = Rest(k)
        /\ Usable(answers[current])
    BY <2>1, <2>3 DEF ProgressIs
  <2>5. /\ Head(left) = Fields[k + 1] /\ left' = Rest(k + 1)
        /\ pc' = IF k = 5 THEN "collect" ELSE "assign"
    <3>1. /\ Head(left) = Fields[k + 1] /\ Tail(left) = Rest(k + 1) /\ Len(left) = 6 - k
      BY <2>4, RestIs
    <3>2. Len(left) = 1 <=> k = 5
      BY <2>4, <3>1
    <3> QED
      BY <2>1, <3>1, <3>2
  <2>6. state' = [state EXCEPT ![current] = Applied(current, k + 1)]
    <3>1. state' = [state EXCEPT ![current] = [state[current] EXCEPT ![Head(left)] =
                       Enriched(state[current], answers[current])[Head(left)]]]
      BY <2>1
    <3> QED
      BY <2>4, <2>5, <3>1, AssignedNext
  <2>7. /\ state' = [j \in Idx |-> state'[j]]
        /\ \A j \in Idx : state'[j] = IF j = current THEN Applied(current, k + 1) ELSE state[j]
    BY <1>0, <2>2, <2>6
  <2>8. FlowInv'
    <3>1. IF pc' = "assign" THEN \E n \in 0..5 : left' = Rest(n) ELSE left' = <<>>
      <4>1. CASE k = 5
        BY <2>5, <4>1, NothingLeft
      <4>2. CASE k # 5
        <5>1. k + 1 \in 0..5
          BY <2>4, <4>2
        <5> QED
          BY <2>5, <4>2, <5>1
      <4> QED
        BY <4>1, <4>2
    <3>2. pc' \in PCs
      BY <2>1 DEF PCs
    <3> QED
      BY <1>0, <2>1, <2>2, <2>7, <3>1, <3>2 DEF FlowInv, Idx, N
  <2>9. StateInv'
    <3> SUFFICES ASSUME NEW j \in Idx PROVE \E n \in 0..6 : ProgressIs(j, n)'
      BY <2>1 DEF StateInv, Idx, N
    <3>1. \A n : Applied(j, n)' = Applied(j, n)
      BY <2>1 DEF Applied, FromGemini, Heuristic
    <3>2. CASE j = current
      <4>1. state'[j] = Applied(j, k + 1) /\ k + 1 \in 0..6
        BY <2>4, <2>7, <3>2
      <4>2. pc' = "assign" => k + 1 < 6
        BY <2>4, <2>5
      <4>3. pc' # "assign" => k + 1 = 6
        BY <2>5
      <4>4. ProgressIs(j, k + 1)'
        BY <2>1, <2>2, <2>4, <2>5, <3>1, <3>2, <4>1, <4>2, <4>3 DEF ProgressIs
      <4> QED
        BY <4>1, <4>4
    <3>3. CASE j # current
      <4>1. PICK n \in 0..6 : ProgressIs(j, n)
        BY <1>0 DEF StateInv
      <4>2. ProgressIs(j, n)'
        BY <2>1, <2>7, <3>1, <3>3, <4>1 DEF ProgressIs
      <4> QED
        BY <4>2
    <3> QED
      BY <3>2, <3>3
  <2>10. EndInv'
    <3>1. pc' \notin {"convert", "returned", "raised"} /\ results = <<>>
      BY <1>0, <2>1 DEF EndInv
    <3> QED
      BY <1>0, <2>1, <3>1 DEF EndInv, Idx, N
  <2> QED
    BY <2>8, <2>9, <2>10 DEF IInv
<1>6. ASSUME EndCollect \/ Convert \/ Drain PROVE IInv'
  <2>1. /\ UNCHANGED <<work, state, calls, answers, collected, current, left, struck>>
        /\ pc \in {"collect", "convert", "drain"} /\ pc' \in {"convert", "returned", "raised"}
    BY <1>6 DEF EndCollect, Convert, Drain
  <2>2. FlowInv'
    BY <1>0, <2>1 DEF FlowInv, Idx, N, PCs
  <2>3. StateInv'
    <3> SUFFICES ASSUME NEW j \in Idx PROVE \E k \in 0..6 : ProgressIs(j, k)'
      BY <2>1 DEF StateInv, Idx, N
    <3>1. PICK k \in 0..6 : ProgressIs(j, k)
      BY <1>0 DEF StateInv
    <3>2. Applied(j, k)' = Applied(j, k)
      BY <2>1 DEF Applied, FromGemini, Heuristic
    <3>3. ProgressIs(j, k)'
      BY <2>1, <3>1, <3>2 DEF ProgressIs
    <3> QED
      BY <3>3
  <2>4. Finished'
    <3>1. EndCollect => Finished
      BY <1>0 DEF EndCollect, Finished
    <3>2. Convert \/ Drain => Finished
      BY <1>0 DEF Convert, Drain, EndInv
    <3> QED
      BY <1>6, <2>1, <3>1, <3>2 DEF Finished, Idx, N
  <2>5. work.gemini /\ pc' \in {"convert", "returned"} => collected = Idx
    BY <1>0, <1>6 DEF EndCollect, Convert, Drain, EndInv
  <2>6. results' = IF pc' = "returned" THEN state ELSE <<>>
    BY <1>0, <1>6 DEF EndCollect, Convert, Drain, EndInv
  <2> QED
    <3>1. EndInv'
      BY <1>0, <2>1, <2>4, <2>5, <2>6 DEF EndInv, Idx, N
    <3> QED
      BY <2>2, <2>3, <3>1 DEF IInv
<1>7. ASSUME TimeoutInBatch PROVE IInv'
  <2>1. /\ UNCHANGED <<work, state, calls, answers, collected, current, results>>
        /\ struck' = TRUE /\ left' = <<>>
        /\ \/ pc = "collect" /\ pc' = "drain"
           \/ pc = "assign" /\ pc' = "collect"
           \/ pc = "convert" /\ pc' = "raised"
    BY <1>7 DEF TimeoutInBatch, Strike
  <2>2. FlowInv'
    BY <1>0, <2>1 DEF FlowInv, Idx, N, PCs
  <2>3. StateInv'
    BY <1>0, <2>1, StateKept
  <2>4. EndInv'
    BY <1>0, <2>1 DEF EndInv, Finished, Idx, N
  <2> QED
    BY <2>2, <2>3, <2>4 DEF IInv
<1>8. ASSUME TimeoutInSingle PROVE IInv'
  <2>1. /\ work.single /\ struck' = TRUE /\ calls' = [calls EXCEPT ![1] = "done"]
        /\ UNCHANGED <<work, state, collected, current, results, answers>>
        /\ \/ calls[1] = "running" /\ UNCHANGED <<left, pc>>
           \/ /\ pc \in {"collect", "assign", "convert"}
              /\ pc' = "raised" /\ left' = <<>>
    BY <1>8 DEF TimeoutInSingle, Strike, Running
  <2>2. Idx = {1}
    BY <1>0, <2>1, WorkType
  <2>3. calls' \in [Idx -> CallStates] /\ calls'[1] = "done"
    BY <1>0, <2>1, <2>2 DEF CallStates
  <2>4. FlowInv'
    BY <1>0, <2>1, <2>2, <2>3 DEF FlowInv, Idx, N, PCs
  <2>5. StateInv'
    BY <1>0, <2>1, StateKept
  <2>6. EndInv'
    <3>1. Finished'
      BY <2>1, <2>2, <2>3 DEF Finished, Idx, N
    <3>2. CASE calls[1] = "running" /\ UNCHANGED <<left, pc>>
      BY <1>0, <2>1, <2>2, <3>1, <3>2 DEF EndInv, Finished, Idx, N
    <3>3. CASE pc \in {"collect", "assign", "convert"} /\ pc' = "raised"
      BY <1>0, <2>1, <2>2, <2>3, <3>1, <3>3 DEF EndInv, Idx, N
    <3> QED
      BY <2>1, <3>2, <3>3
  <2> QED
    BY <2>4, <2>5, <2>6 DEF IInv
<1> QED
  BY <1>1, <1>2, <1>3, <1>4, <1>5, <1>6, <1>7, <1>8 DEF Next

LEMMA AlwaysIInv == Spec => []IInv
BY InitIInv, StepIInv, PTL DEF Spec

-----------------------------------------------------------------------------
(* The theorems.                                                           *)

\* A result is its event's state with some number of fields from Gemini.
LEMMA ResultIs ==
  ASSUME IInv, NEW i \in DOMAIN results
  PROVE  /\ i \in Idx /\ work.batch[i] \in Events /\ pc = "returned"
         /\ \E k \in 0..6 : ProgressIs(i, k) /\ results[i] = Applied(i, k)
<1>1. results = state /\ pc = "returned"
  BY DEF IInv, EndInv
<1>2. i \in Idx
  BY <1>1 DEF IInv, FlowInv
<1>3. \E k \in 0..6 : ProgressIs(i, k)
  BY <1>2 DEF IInv, StateInv
<1> QED
  BY <1>1, <1>2, <1>3, WorkType DEF IInv, FlowInv, ProgressIs

\* What no answer changes.
LEMMA Untouched ==
  ASSUME NEW i, NEW k
  PROVE  /\ Applied(i, k).severity = Heuristic(i).severity
         /\ Applied(i, k).risk = Heuristic(i).risk
         /\ Applied(i, k).impact = Heuristic(i).impact
BY DEF Applied

\* Severities, risks, trends and confidences are in range, whatever Gemini
\* answers and wherever the timeout strikes.
THEOREM TypeCorrect == Spec => []TypeOK
<1>1. IInv => TypeOK
  <2> SUFFICES ASSUME IInv PROVE TypeOK
    OBVIOUS
  <2>0. FlowInv /\ StateInv /\ EndInv /\ work \in Workloads /\ N \in Nat \ {0}
    BY WorkType DEF IInv, FlowInv
  <2>1. ASSUME NEW i \in Idx
        PROVE  /\ state[i].severity \in 0..100 /\ state[i].confidence \in 0..100
               /\ state[i].risk \in Risks /\ state[i].trend \in Trends
    <3>1. PICK k \in 0..6 : state[i] = Applied(i, k)
      BY <2>0 DEF StateInv, ProgressIs
    <3>2. work.batch[i] \in Events
      BY <2>0, WorkType
    <3>3. /\ Heuristic(i).severity \in 0..100 /\ Heuristic(i).risk \in Risks
          /\ Heuristic(i).trend \in Trends /\ Heuristic(i).confidence \in 0..100
      BY <3>2, HeuristicType DEF Heuristic
    <3>4. FromGemini(i).trend \in Trends
      BY GeminiIs DEF Trend, Trends
    <3>5. FromGemini(i).confidence \in 0..100
      <4>1. FromGemini(i).confidence = Raised(Heuristic(i).confidence)
        BY GeminiIs
      <4> QED
        BY <3>3, <4>1 DEF Raised
    <3> QED
      BY <3>1, <3>3, <3>4, <3>5 DEF Applied
  <2>2. \A i \in Idx : calls[i] \in CallStates /\ answers[i] \in Replies \cup {NoReply}
    BY <2>0 DEF FlowInv
  <2>3. /\ collected \subseteq Idx /\ current \in 0..N /\ struck \in BOOLEAN
        /\ pc \in {"collect", "assign", "drain", "convert", "returned", "raised"}
    BY <2>0 DEF FlowInv, PCs
  <2>4. /\ left \in {<<>>} \cup {SubSeq(Fields, k, 6) : k \in 1..6}
        /\ pc = "assign" => current \in Idx /\ left # <<>>
    <3>1. CASE pc = "assign"
      <4>1. PICK k \in 0..5 : left = Rest(k)
        BY <2>0, <3>1 DEF FlowInv
      <4>2. left = SubSeq(Fields, k + 1, 6) /\ k + 1 \in 1..6 /\ left # <<>>
        BY <4>1, RestIs DEF Rest
      <4> QED
        BY <2>0, <3>1, <4>2 DEF FlowInv
    <3>2. CASE pc # "assign"
      BY <2>0, <3>2 DEF FlowInv
    <3> QED
      BY <3>1, <3>2
  <2>5. Len(results) \in {0, N}
    <3>1. CASE pc = "returned"
      <4>1. DOMAIN results = 1..N
        BY <2>0, <3>1 DEF EndInv, FlowInv, Idx
      <4>2. results = [i \in 1..N |-> results[i]]
        BY <2>0, <3>1 DEF EndInv, FlowInv, Idx
      <4>3. Len(results) = N
        BY <2>0, <4>1, <4>2
      <4> QED
        BY <4>3
    <3>2. CASE pc # "returned"
      BY <2>0, <3>2 DEF EndInv
    <3> QED
      BY <3>1, <3>2
  <2> QED
    BY <2>0, <2>1, <2>2, <2>3, <2>4, <2>5 DEF TypeOK
<1> QED
  BY <1>1, AlwaysIInv, PTL

\* The result at an event's place is about that event, in whatever order the
\* threads finish and wherever the timeout strikes.
THEOREM ResultsAreTheirOwn == Spec => []OwnAnswer
<1>1. IInv => OwnAnswer
  <2> SUFFICES ASSUME IInv, NEW i \in DOMAIN results
               PROVE  /\ \A f \in {"severity", "risk", "impact"} :
                           results[i][f] = Heuristic(i)[f]
                      /\ \A f \in Content :
                           \/ results[i][f] = Heuristic(i)[f]
                           \/ Usable(answers[i]) /\ results[i][f] = FromGemini(i)[f]
    BY DEF OwnAnswer
  <2>1. PICK k \in 0..6 : ProgressIs(i, k) /\ results[i] = Applied(i, k)
    BY ResultIs
  <2>2. k > 0 => Usable(answers[i])
    BY <2>1 DEF ProgressIs
  <2>3. \A f \in Content :
           \/ Applied(i, k)[f] = Heuristic(i)[f]
           \/ k > 0 /\ Applied(i, k)[f] = FromGemini(i)[f]
    BY DEF Applied, Content
  <2>4. \A f \in {"severity", "risk", "impact"} : Applied(i, k)[f] = Heuristic(i)[f]
    BY DEF Applied
  <2> QED
    BY <2>1, <2>2, <2>3, <2>4
<1> QED
  BY <1>1, AlwaysIInv, PTL

\* A result that says TIER_2_GEMINI has all of its text from Gemini: the
\* engine assigns the path last of them.
THEOREM TierTwoResultsAreWhole == Spec => []TierTwoIsWhole
<1>1. IInv => TierTwoIsWhole
  <2> SUFFICES ASSUME IInv, NEW i \in DOMAIN results, results[i].path = "TIER_2_GEMINI"
               PROVE  /\ Usable(answers[i])
                      /\ \A f \in Content \ {"confidence"} :
                           results[i][f] = FromGemini(i)[f]
    BY DEF TierTwoIsWhole
  <2>1. PICK k \in 0..6 : ProgressIs(i, k) /\ results[i] = Applied(i, k)
    BY ResultIs
  <2>2. k >= 5
    <3>1. Applied(i, k).path = IF k >= 5 THEN FromGemini(i).path ELSE Heuristic(i).path
      BY DEF Applied
    <3>2. Heuristic(i).path = "TIER_1_HEURISTIC"
      BY GeminiIs
    <3> QED
      BY <2>1, <3>1, <3>2
  <2>3. \A f \in Content \ {"confidence"} : Applied(i, k)[f] = FromGemini(i)[f]
    BY <2>2 DEF Applied, Content
  <2> QED
    BY <2>1, <2>2, <2>3 DEF ProgressIs
<1> QED
  BY <1>1, AlwaysIInv, PTL

\* Unless the timeout struck, a result is Gemini's in every field for a usable
\* answer and the fallback in every field for any other.
THEOREM FallbacksAreWhole == Spec => []FallbackIsWhole
<1>1. IInv => FallbackIsWhole
  <2> SUFFICES ASSUME IInv, ~struck, NEW i \in DOMAIN results
               PROVE  results[i] = IF Usable(answers[i]) THEN FromGemini(i) ELSE Heuristic(i)
    BY DEF FallbackIsWhole
  <2>1. PICK k \in 0..6 : ProgressIs(i, k) /\ results[i] = Applied(i, k)
    BY ResultIs
  <2>2. i \in Idx /\ pc = "returned"
    BY ResultIs
  <2>3. ~Usable(NoReply)
    BY NoReplyUnusable
  <2>4. Usable(answers[i]) => i \in collected
    <3>1. work.gemini \in BOOLEAN
      BY WorkType DEF IInv, FlowInv
    <3> QED
      BY <2>2, <2>3, <3>1 DEF IInv, EndInv
  <2>5. CASE Usable(answers[i])
    <3>1. k = 6
      BY <2>1, <2>2, <2>4, <2>5 DEF ProgressIs
    <3> QED
      BY <2>1, <2>5, <3>1, AppliedEnds
  <2>6. CASE ~Usable(answers[i])
    <3>1. k = 0
      BY <2>1, <2>6 DEF ProgressIs
    <3> QED
      BY <2>1, <2>6, <3>1, AppliedEnds
  <2> QED
    BY <2>5, <2>6
<1> QED
  BY <1>1, AlwaysIInv, PTL

\* Every result has exactly three recommendations, however many lines an answer
\* had: the event's own rules', or lines of its own answer, none of them blank.
THEOREM AlwaysThreeRecommendations == Spec => []ThreeRecommendations
<1>1. IInv => ThreeRecommendations
  <2> SUFFICES ASSUME IInv, NEW i \in DOMAIN results
               PROVE  /\ Len(results[i].recs) = 3
                      /\ \/ results[i].recs = Heuristic(i).recs
                         \/ Range(results[i].recs) \subseteq Range(answers[i].recs) \ {Blank}
    BY DEF ThreeRecommendations
  <2>1. PICK k \in 0..6 : ProgressIs(i, k) /\ results[i] = Applied(i, k)
    BY ResultIs
  <2>2. i \in Idx /\ work.batch[i] \in Events
    BY ResultIs
  <2>3. results[i].recs = IF k >= 2 THEN Recs(answers[i]) ELSE Heuristic(i).recs
    BY <2>1, GeminiIs DEF Applied
  <2>4. CASE k >= 2
    <3>1. Usable(answers[i])
      BY <2>1, <2>4 DEF ProgressIs
    <3>2. answers[i] \in Replies \cup {NoReply}
      BY <2>2 DEF IInv, FlowInv
    <3> DEFINE Some == {Line(t) : t \in {"", "a", "b", "c", "d"}}
    <3>3. answers[i].recs \in Seq(Some)
      <4>1. CASE answers[i] = NoReply
        <5>1. answers[i].recs = <<>>
          BY <4>1 DEF NoReply
        <5> HIDE DEF Some
        <5> QED
          BY <5>1
      <4>2. CASE answers[i] \in Replies
        <5>1. answers[i] \in [narrative : Texts, recs : Seq(Some), trend : Trends \cup {"other"}]
          BY <4>2, RepliesAssumption
        <5> HIDE DEF Some
        <5> QED
          BY <5>1
      <4> QED
        BY <3>2, <4>1, <4>2
    <3> HIDE DEF Some
    <3> QED
      BY <2>3, <2>4, <3>1, <3>3, RecsAreThree
  <2>5. CASE ~(k >= 2)
    BY <2>2, <2>3, <2>5, AdviceIsThree DEF Heuristic
  <2> QED
    BY <2>4, <2>5
<1> QED
  BY <1>1, AlwaysIInv, PTL

\* Of two events of one category the one that is tracked at least as long and
\* spread at least as wide has at least the other's risk.
THEOREM RiskIsMonotone == Spec => []RiskGrowsWithTracking
<1>1. IInv => RiskGrowsWithTracking
  <2> SUFFICES ASSUME IInv, NEW i \in DOMAIN results, NEW j \in DOMAIN results,
                      work.batch[i].category = work.batch[j].category,
                      Len(work.batch[i].geometry) <= Len(work.batch[j].geometry),
                      Area(work.batch[i].geometry) <= Area(work.batch[j].geometry)
               PROVE  Rank[results[i].risk] <= Rank[results[j].risk]
    BY DEF RiskGrowsWithTracking
  <2>1. ASSUME NEW n \in DOMAIN results
        PROVE  /\ work.batch[n] \in Events
               /\ results[n].risk = RiskOf(Severity(work.batch[n]))
    <3>1. work.batch[n] \in Events /\ results[n].risk = Heuristic(n).risk
      BY ResultIs, Untouched
    <3> QED
      BY <3>1, HeuristicType DEF Heuristic
  <2> QED
    BY <2>1, RiskMonotone
<1> QED
  BY <1>1, AlwaysIInv, PTL

\* A located event's impact is judged by whether its mean latitude lies within
\* 55 degrees of the equator, the equator included.
THEOREM ImpactIsByLatitude == Spec => []ImpactFollowsLatitude
<1>1. IInv => ImpactFollowsLatitude
  <2> SUFFICES ASSUME IInv, NEW i \in DOMAIN results,
                      Located(Centroid(work.batch[i].geometry))
               PROVE  results[i].impact =
                        CASE results[i].risk = "CRITICAL" ->
                               IF Populated(Centroid(work.batch[i].geometry))
                               THEN "national" ELSE "regional"
                          [] results[i].risk = "HIGH" ->
                               IF Populated(Centroid(work.batch[i].geometry))
                               THEN "regional" ELSE "local"
                          [] results[i].risk = "MEDIUM" -> "local"
                          [] results[i].risk = "LOW" -> "localized"
    BY DEF ImpactFollowsLatitude, Populated
  <2> DEFINE event == work.batch[i]
             c == Centroid(event.geometry)
  <2>1. event \in Events /\ results[i].risk = Heuristic(i).risk
        /\ results[i].impact = Heuristic(i).impact
    BY ResultIs, Untouched
  <2>2. Heuristic(i).impact = Impact(Latitude(c), Heuristic(i).risk)
    BY DEF Heuristic, HeuristicState
  <2>3. Dense(Latitude(c)) <=> Populated(c)
    BY <2>1, EventType, DenseFollowsLatitude
  <2> HIDE DEF c
  <2> QED
    BY <2>1, <2>2, <2>3 DEF Impact, c
<1> QED
  BY <1>1, AlwaysIInv, PTL

\* When an inference has returned or raised, none of its Gemini calls is
\* waiting or running, however many threads there are and wherever the timeout
\* struck.
THEOREM NoCallOutlives == Spec => []NothingOutlivesTheCall
<1>1. IInv => NothingOutlivesTheCall
  BY DEF IInv, EndInv, NothingOutlivesTheCall
<1> QED
  BY <1>1, AlwaysIInv, PTL

=============================================================================
