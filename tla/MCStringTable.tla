---------------------------- MODULE MCStringTable ---------------------------
(* Four strings: three of one byte and one of three.  16-bit ids tell      *)
(* three strings apart and 24-bit ones four, and they may have four bytes: *)
(* every limit is met exactly, and passed, without the others.  Records    *)
(* fill at most two fields, or all of them with one string.                *)
EXTENDS StringTable

CONSTANTS s1, s2, s3, large

Sizes == [s \in AnyString |-> IF s = Empty THEN 0 ELSE IF s = large THEN 3 ELSE 1]

Fields(r) == {f \in DOMAIN r : r[f] # Empty}
SmallRecords ==
  {r \in [country : AnyString, city : AnyString, tz : AnyString, alt : AnyString] :
     \/ Cardinality(Fields(r)) <= 2
     \/ Cardinality({r[f] : f \in DOMAIN r}) = 1}

SmallMetas == {<<>>, <<s1, Empty>>, <<s2, s3>>}
=============================================================================
