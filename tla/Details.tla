------------------------------ MODULE Details -------------------------------
(***************************************************************************)
(* One record from the source to an answer: xTable.add and recKey          *)
(* (internal/build) pack what a build keeps of it, decode, details and     *)
(* decodeAlt (reader.go, details.go) unpack it for a language.  An entry   *)
(* is its bytes; a value is a number, 0 for a missing or empty one, and    *)
(* byte k of a value v is <<v, k>>, so that a value reads back only from   *)
(* the place and with the width it was written with.                       *)
(*                                                                         *)
(* A build record r has r.v, its values by the names of Details' fields,   *)
(* and r.names, those of each name kind by language, the primary first.    *)
(***************************************************************************)
EXTENDS Format

BaseOf(p) ==
  CASE p = ASN -> {"asn", "org"}
    [] OTHER ->
         {"countryISO", "continent", "countryGeo"}
           \union (IF p >= Region THEN {"regionISO"} ELSE {})
           \union (IF p >= City THEN {"cityGeo", "lat", "lon", "acc", "timeZone"} ELSE {})

(* The names of the base record, by the kind that localizes them. *)
BaseNames == [country |-> "countryName", region |-> "regionName", city |-> "city"]
BaseKinds(p) ==
  {k \in DOMAIN BaseNames : p # ASN /\ HasKind(p, {}, k)}

ExtraFields ==
  {"eu", "continentName", "continentGeo", "regISO", "regName", "regGeo", "regEU",
   "repISO", "repName", "repGeo", "repEU", "repType", "regionGeo", "region2ISO",
   "region2Name", "region2Geo", "postal", "metro", "anycast", "proxy", "satellite",
   "hasCoordinates", "hasAccuracy"}
RecordFields == BaseOf(City) \union Range(BaseNames)
Fields == RecordFields \union ExtraFields \union BaseOf(ASN)

-----------------------------------------------------------------------------
(* recKey and packRecord: the base record as the fields the profile keeps. *)
Base(p, r) ==
  [f \in BaseOf(p) \union {BaseNames[k] : k \in BaseKinds(p)} |->
     IF f \in BaseOf(p) THEN r.v[f]
     ELSE r.names[CHOOSE k \in BaseKinds(p) : BaseNames[k] = f][1]]

(* xTable.add. *)
Byte(v, k)        == IF v = 0 THEN <<0, 0>> ELSE <<v, k>>
Put(e, o, w, v)   == [b \in DOMAIN e |-> IF b \in o..(o + w - 1) THEN Byte(v, b - o) ELSE e[b]]
Value(o, w, v)    == [off |-> o, width |-> w, value |-> v]
Bits(s)           == s[1] + 2 * s[2] + 4 * s[3]

BlockValues(b, r) ==
  LET v == r.v
      n == [k \in DOMAIN r.names |-> r.names[k][1]]
  IN CASE b = FieldEU -> <<Value(0, 1, v.eu)>>
       [] b = FieldContinent ->
            <<Value(XContinent.name, 3, n.continent), Value(XContinent.geo, 4, v.continentGeo)>>
       [] b = FieldRegistered ->
            <<Value(XRegistered.iso, 3, v.regISO), Value(XRegistered.name, 3, n.registered),
              Value(XRegistered.geo, 4, v.regGeo), Value(XRegistered.repISO, 3, v.repISO),
              Value(XRegistered.repName, 3, n.represented), Value(XRegistered.repGeo, 4, v.repGeo),
              Value(XRegistered.repType, 3, v.repType),
              Value(XRegistered.flags, 1, Bits(<<v.regEU, v.repEU, 0>>))>>
       [] b = FieldSubdivisions ->
            <<Value(XRegions.geo, 4, v.regionGeo), Value(XRegions.iso2, 3, v.region2ISO),
              Value(XRegions.name2, 3, n.region2), Value(XRegions.geo2, 4, v.region2Geo)>>
       [] b = FieldPostal   -> <<Value(0, 3, v.postal)>>
       [] b = FieldMetro    -> <<Value(0, 2, v.metro)>>
       [] b = FieldTraits   -> <<Value(0, 1, Bits(<<v.anycast, v.proxy, v.satellite>>))>>
       [] b = FieldLocation -> <<Value(0, 1, Bits(<<v.hasCoordinates, v.hasAccuracy, 0>>))>>

PutAll(e, at, values) ==
  FoldLeft(LAMBDA acc, x : Put(acc, at + x.off, x.width, x.value), e, values)

ZeroBytes(w) == [b \in 0..(w - 1) |-> <<0, 0>>]

HasEntries(p, F, nLangs) == p # ASN /\ (F # {} \/ nLangs >= 2)

Entry(p, F, nLangs, r) ==
  LET K == Kinds(p, F)
      AddBlock(b, e) == PutAll(e, FieldOff(F, b), BlockValues(b, r))
      AddName(x, e)  == Put(e, NameOff(p, F, x[1], K[x[2]]), 3, r.names[K[x[2]]][x[1] + 1])
      blocks == FoldSet(AddBlock, ZeroBytes(Width(p, F, nLangs)), F)
  IN FoldSet(AddName, blocks, (1..(nLangs - 1)) \X (DOMAIN K))

-----------------------------------------------------------------------------
SetLanguageStale(p, F, view, j) ==
  IF j = 0 THEN [view EXCEPT !.lang = 0, !.alt = p = ASN \/ view.alt]
  ELSE [view EXCEPT !.lang = j, !.alt = TRUE,
                    !.nameOff = [k \in Range(NameKinds) |-> NameOff(p, F, j, k)]]

(* A Reader's view of a language: setLanguage makes language j that of a   *)
(* copy of view.  Language 0 is the primary one; nameOff is where an entry *)
(* has a name in another, or -1.                                           *)
SetLanguage(p, F, view, j) ==
  [view EXCEPT !.lang = j, !.alt = p = ASN \/ j > 0,
               !.nameOff = [k \in Range(NameKinds) |-> IF j > 0 THEN NameOff(p, F, j, k) ELSE -1]]

Get(e, o, w) ==
  LET v == e[o][1] IN IF \A k \in 0..(w - 1) : e[o + k] = Byte(v, k) THEN v ELSE -1
Bit(v, k) == (v \div 2^k) % 2

(* decode and asn: a field the profile does not have is left zero. *)
Decode(base) == [f \in Fields |-> IF f \in DOMAIN base THEN base[f] ELSE 0]

BlockFields(F, e, b) ==
  LET At24(o) == Get(e, FieldOff(F, b) + o, 3)
      At32(o) == Get(e, FieldOff(F, b) + o, 4)
      flags   == Get(e, FieldOff(F, b), 1)
      rflags  == Get(e, FieldOff(F, b) + XRegistered.flags, 1)
  IN CASE b = FieldEU -> [eu |-> Bit(flags, 0)]
       [] b = FieldContinent ->
            [continentName |-> At24(XContinent.name), continentGeo |-> At32(XContinent.geo)]
       [] b = FieldRegistered ->
            [regISO |-> At24(XRegistered.iso), regName |-> At24(XRegistered.name),
             regGeo |-> At32(XRegistered.geo), regEU |-> Bit(rflags, 0),
             repISO |-> At24(XRegistered.repISO), repName |-> At24(XRegistered.repName),
             repGeo |-> At32(XRegistered.repGeo), repEU |-> Bit(rflags, 1),
             repType |-> At24(XRegistered.repType)]
       [] b = FieldSubdivisions ->
            [regionGeo |-> At32(XRegions.geo), region2ISO |-> At24(XRegions.iso2),
             region2Name |-> At24(XRegions.name2), region2Geo |-> At32(XRegions.geo2)]
       [] b = FieldPostal   -> [postal |-> At24(0)]
       [] b = FieldMetro    -> [metro |-> Get(e, FieldOff(F, b), 2)]
       [] b = FieldTraits   -> [anycast |-> Bit(flags, 0), proxy |-> Bit(flags, 1), satellite |-> Bit(flags, 2)]
       [] b = FieldLocation -> [hasCoordinates |-> Bit(flags, 0), hasAccuracy |-> Bit(flags, 1)]

(* localize: the entry's name in the view's language, unless it has none. *)
FieldOfKind == BaseNames @@ [continent |-> "continentName", region2 |-> "region2Name",
                             registered |-> "regName", represented |-> "repName"]

LocalName(view, e, k) == IF view.nameOff[k] >= 0 THEN Get(e, view.nameOff[k], 3) ELSE 0

Localize(d, view, e, K) ==
  LET changed == {k \in K : LocalName(view, e, k) # 0} IN
  [f \in {FieldOfKind[k] : k \in changed} |->
     LocalName(view, e, CHOOSE k \in changed : FieldOfKind[k] = f)] @@ d

(* details and decodeAlt of a record [base, entry]. *)
DetailsOf(p, F, view, rec) ==
  IF p = ASN \/ rec.entry = <<>> THEN Decode(rec.base)
  ELSE LET d == FoldSet(LAMBDA b, acc : BlockFields(F, rec.entry, b) @@ acc, Decode(rec.base), F)
       IN IF view.lang = 0 THEN d ELSE Localize(d, view, rec.entry, DOMAIN FieldOfKind)

RecordOf(p, view, rec) ==
  LET all == IF ~view.alt THEN Decode(rec.base)
             ELSE IF p = ASN THEN Decode(<<>>)
             ELSE Localize(Decode(rec.base), view, rec.entry, DOMAIN BaseNames)
  IN [f \in RecordFields |-> all[f]]
=============================================================================
