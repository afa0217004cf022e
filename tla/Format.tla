------------------------------- MODULE Format -------------------------------
(***************************************************************************)
(* The numbers of the GEO2 format that its writer and its reader share     *)
(* (internal/format/format.go): section ids, record widths, field sets and *)
(* the layout of an extension entry.  A field set is its bit number.       *)
(***************************************************************************)
EXTENDS Integers, Sequences, FiniteSetsExt, SequencesExt

HeaderSize   == 32
DirEntrySize == 24
MetaSize     == 64
XFieldsSize  == 8

Profiles == 0..3
Country == 0
Region == 1
City == 2
ASN == 3

SecMeta     == 1
SecStrIdx   == 2
SecStrBlob == 3
SecRecords  == 4
SecV4Idx    == 5
SecV4Starts == 6
SecV4IDs    == 7
SecV6Starts == 8
SecV6IDs   == 9
SecV6ExcIdx == 10
SecV6ExcLo  == 11
SecXFields  == 12
SecXRecords == 13
SecLangs == 14

KnownIDs    == SecMeta..SecLangs
RequiredIDs == SecMeta..SecV6IDs

RecordWidth(p) == <<10, 14, 33, 7>>[p + 1]

(* The smallest width that holds every id below nRecords. *)
IDWidth(nRecords) ==
  IF nRecords <= 256 THEN 1
  ELSE IF nRecords <= 65536 THEN 2
  ELSE IF nRecords <= 16777216 THEN 3 ELSE 4

Align8(x) == ((x + 7) \div 8) * 8

-----------------------------------------------------------------------------
FieldEU == 0
FieldContinent == 1
FieldRegistered == 2
FieldSubdivisions == 3
FieldPostal == 4
FieldMetro == 5
FieldTraits == 6
FieldLocation == 7
NumFields == 8
KnownFields == 0..(NumFields - 1)
FieldsAll == KnownFields

BlockWidth(b) == <<1, 7, 24, 14, 3, 2, 1, 1>>[b + 1]

CheckFields(p, F) ==
  /\ F \subseteq KnownFields
  /\ p = ASN => F = {}
  /\ p < Region => FieldSubdivisions \notin F
  /\ p < City => F \cap {FieldPostal, FieldMetro, FieldLocation} = {}

(* Where the values of the larger blocks are inside them. *)
XContinent  == [name |-> 0, geo |-> 3]
XRegistered == [iso |-> 0, name |-> 3, geo |-> 6, repISO |-> 10, repName |-> 13,
                repGeo |-> 16, repType |-> 20, flags |-> 23]
XRegions    == [geo |-> 0, iso2 |-> 4, name2 |-> 7, geo2 |-> 10]

(* Where the u24 string ids are inside a block. *)
StringsIn(b) ==
  CASE b = FieldContinent    -> {XContinent.name}
    [] b = FieldRegistered   -> {XRegistered[c] : c \in {"iso", "name", "repISO", "repName", "repType"}}
    [] b = FieldSubdivisions -> {XRegions.iso2, XRegions.name2}
    [] b = FieldPostal       -> {0}
    [] OTHER                 -> {}

(* FlagByte: where a block's byte of flags is, for the sets that have one. *)
FlagByteIn(b) ==
  CASE b \in {FieldEU, FieldTraits, FieldLocation} -> {0}
    [] b = FieldRegistered -> {XRegistered.flags}
    [] OTHER -> {}

(* The localized names a profile and its field sets have, in entry order. *)
NameKinds ==
  <<"country", "region", "city", "continent", "region2", "registered", "represented">>

HasKind(p, F, k) ==
  CASE k = "country" -> TRUE
    [] k = "region"  -> p >= Region
    [] k = "city"    -> p >= City
    [] k = "continent" -> FieldContinent \in F
    [] k = "region2"   -> FieldSubdivisions \in F
    [] OTHER           -> FieldRegistered \in F

Kinds(p, F) ==
  LET Kind(k) == IF HasKind(p, F, k) THEN <<k>> ELSE <<>> IN
  IF p = ASN THEN <<>>
  ELSE Kind("country") \o Kind("region") \o Kind("city") \o Kind("continent")
         \o Kind("region2") \o Kind("registered") \o Kind("represented")

(* The layout of an entry for n languages (NewXLayout): its blocks follow  *)
(* one another in bit order, then one name per kind and extra language.    *)
FieldOff(F, b) ==
  LET Off[c \in 0..NumFields] ==
        IF c = 0 THEN 0
        ELSE Off[c - 1] + IF c - 1 \in F THEN BlockWidth(c - 1) ELSE 0
  IN  Off[b]
LangOff(F)     == FieldOff(F, NumFields)
Width(p, F, n) == LangOff(F) + (n - 1) * 3 * Len(Kinds(p, F))

(* Where name kind k of extra language j is, j counted from 1; -1 if the   *)
(* entry has no such name.                                                 *)
NameOff(p, F, j, k) ==
  LET K == Kinds(p, F) IN
  IF \E i \in DOMAIN K : K[i] = k
  THEN LangOff(F) + (j - 1) * 3 * Len(K) + 3 * ((CHOOSE i \in DOMAIN K : K[i] = k) - 1)
  ELSE -1
=============================================================================
