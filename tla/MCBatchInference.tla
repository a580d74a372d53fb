-------------------------- MODULE MCBatchInference --------------------------
(* Instances of BatchInference for TLC. *)
EXTENDS BatchInference

Track(n, lat, step) ==
    [i \in 1..n |-> [kind |-> "point", lat |-> IF i = 1 THEN lat + step ELSE lat,
                     lon |-> IF i = 1 THEN 10 + step ELSE 10]]
Shape == [kind |-> "other", lat |-> 0, lon |-> 0]

\* At both sides of every threshold of the tracking count.
Counts == {0, 1, 4, 5, 6, 9, 10, 19, 20, 21, 49, 50, 51, 99, 100}

Sites == {0, -20, -54, -55, 60}

Scored ==
    {[gemini |-> FALSE, single |-> FALSE,
      batch |-> <<[category |-> c, geometry |-> Track(n, lat, s)],
                  [category |-> c, geometry |-> Track(m, lat, t)]>>] :
        c \in {"volcanoes", "snow", "unheardOf"}, n \in Counts, m \in Counts,
        s \in {0, 4}, t \in {0, 4}, lat \in {0}}
    \cup
    {[gemini |-> FALSE, single |-> FALSE,
      batch |-> <<[category |-> c, geometry |-> Track(n, lat, 0)]>>] :
        c \in DOMAIN BaseSeverity, n \in {1, 10, 100}, lat \in Sites}

E1 == [category |-> "volcanoes", geometry |-> Track(6, -20, 4)]
E2 == [category |-> "snow", geometry |-> Track(1, 0, 0) \o <<Shape>>]
E3 == [category |-> "floods", geometry |-> <<Shape, Shape>>]

Asked ==
    {[gemini |-> TRUE, single |-> FALSE, batch |-> <<E1, E2, E3>>],
     [gemini |-> TRUE, single |-> FALSE, batch |-> <<E2>>],
     [gemini |-> TRUE, single |-> TRUE, batch |-> <<E1>>]}

AllWorkloads == Scored \cup Asked

SomeReplies ==
    {[narrative |-> "text1", recs |-> <<Line("a"), Blank, Line("b")>>, trend |-> "other"],
     [narrative |-> "text2", recs |-> <<Line("a"), Line("b"), Line("c"), Line("d")>>, trend |-> "ESCALATING"],
     [narrative |-> "number", recs |-> <<Line("a")>>, trend |-> "STABLE"]}

=============================================================================
