----------------------------- MODULE MCArangeTable ----------------------------
(* Small sections for ArangeTable: the set of unit k at place k, up to two
   ranges in a set and MaxRanges in all, and sets whose header is refused. *)
EXTENDS ArangeTable

CONSTANTS MaxSets, MaxRanges, MaxLength

Tuples == {t \in Address \X (0 .. MaxLength) : t[1] + t[2] > 0}
Good == [cu : 1 .. MaxSets, good : {TRUE},
         tuples : UNION {[1 .. n -> Tuples] : n \in 0 .. 2}]
Refused == [cu : 1 .. MaxSets, good : {FALSE}, tuples : {<<>>}]

Total[s \in Seq(Good \cup Refused), n \in Nat] ==
    IF n = 0 THEN 0 ELSE Total[s, n - 1] + Len(s[n].tuples)

SmallSections ==
    {s \in [1 .. MaxSets -> Good \cup Refused] :
        (\A k \in 1 .. MaxSets : s[k].cu = k) /\ Total[s, MaxSets] <= MaxRanges}
===============================================================================
