----------------------------- MODULE MmdbSource -----------------------------
(***************************************************************************)
(* The MMDB source (mmdb): the options are completed and checked, the      *)
(* source database is checked against them, and its networks are read in   *)
(* order, each data record decoded once into buffers that every decode     *)
(* reuses.                                                                 *)
(*                                                                         *)
(* A source record s is what its map holds: s.v, its values by the names   *)
(* of Details' fields, s.n, its names by <<kind, language>>, each with the *)
(* keys it has, and s.badV and s.badN, the keys whose value has the wrong  *)
(* type.  A value that is present may be 0.                                *)
(***************************************************************************)
EXTENDS Build

CONSTANTS
  OptionSets,   \* the options a caller may pass: [profile, fields, lang, langs]
  Databases     \* the sources: [kind, type, langs, nets, data]

ASSUME MmdbAssumption ==
  \A d \in Databases :
    /\ d.kind = "mmdb"
    /\ \A i \in DOMAIN d.nets : d.nets[i] \in DOMAIN d.data \union {0}

VARIABLE names   \* srcDecoder.names: one slot per kind and language

InitMmdb == opts \in OptionSets /\ db \in Databases /\ names = <<>>

Mmdb == db.kind = "mmdb"

-----------------------------------------------------------------------------
(* coreOptions: Lang is the old form of Languages. *)
LangsOf(o) ==
  IF o.langs # <<>> THEN o.langs ELSE IF o.lang # "" THEN <<o.lang>> ELSE <<"en">>

CoreOptions ==
  LET o == [opts EXCEPT !.langs = LangsOf(opts)] IN
  /\ pc = "options" /\ Mmdb
  /\ IF (opts.lang = "" \/ opts.langs = <<>>) /\ Valid(o)
     THEN pc' = "source" /\ co' = Normal(o) /\ UNCHANGED outcome
     ELSE Fail("ErrOptions") /\ UNCHANGED co
  /\ UNCHANGED <<opts, db, next, known, names, built, view>>

(* checkSource, in its order. *)
TypeFits(p, type) ==
  /\ p = ASN <=> "ASN" \in type
  /\ \/ p = ASN
     \/ type \cap {"City", "Enterprise"} # {}
     \/ "Country" \in type /\ p = Country

LanguagesFit == db.langs # {} => Range(co.langs) \subseteq db.langs

CheckSource ==
  /\ pc = "source" /\ Mmdb
  /\ IF ~TypeFits(co.profile, db.type) THEN
       Fail("ErrDatabaseType") /\ UNCHANGED <<names, recs>>
     ELSE IF ~LanguagesFit THEN
       Fail("ErrLanguage") /\ UNCHANGED <<names, recs>>
     ELSE /\ pc' = "read" /\ UNCHANGED outcome
          /\ New(co) /\ names' = ZeroNames(Len(co.langs))
  /\ UNCHANGED <<opts, db, co, next, known, distinct, ids, view>>

-----------------------------------------------------------------------------
(* srcDecoder.decode: the base record, its names by DecodePath. *)
SrcCountry == {"continent", "countryISO", "countryGeo"}

BaseReads(p) ==
  IF p = ASN THEN {"asn", "org"}
  ELSE SrcCountry
         \union (IF p >= Region THEN {"regionISO"} ELSE {})
         \union (IF p >= City THEN {"cityGeo", "lat", "lon", "acc", "timeZone"} ELSE {})

BaseNameReads(p) ==
  IF p = ASN THEN {}
  ELSE {<<"country", 1>>}
         \union (IF p >= Region THEN {<<"region", 1>>} ELSE {})
         \union (IF p >= City THEN {<<"city", 1>>} ELSE {})

(* extDecoder: the keys it enters and what it reads of each. *)
HasExt(p, F, n) == p # ASN /\ (F # {} \/ n > 1)

ExtReadsMetro(p, F) ==
  UNION {
    IF FieldContinent \in F THEN {"continentGeo"} ELSE {},
    IF FieldEU \in F THEN {"eu"} ELSE {},
    IF FieldRegistered \in F
      THEN {"regISO", "regGeo", "regEU", "repISO", "repGeo", "repEU", "repType"} ELSE {},
    IF p >= Region /\ FieldSubdivisions \in F
      THEN {"regionGeo", "region2ISO", "region2Geo"} ELSE {},
    IF p >= City /\ F \cap {FieldLocation, FieldMetro} # {} THEN {"metro"} ELSE {},
    IF FieldPostal \in F THEN {"postal"} ELSE {},
    IF FieldTraits \in F THEN {"anycast", "proxy", "satellite"} ELSE {}}

ExtReads(p, F) ==
  UNION {
    IF FieldContinent \in F THEN {"continentGeo"} ELSE {},
    IF FieldEU \in F THEN {"eu"} ELSE {},
    IF FieldRegistered \in F
      THEN {"regISO", "regGeo", "regEU", "repISO", "repGeo", "repEU", "repType"} ELSE {},
    IF p >= Region /\ FieldSubdivisions \in F
      THEN {"regionGeo", "region2ISO", "region2Geo"} ELSE {},
    IF p >= City /\ FieldMetro \in F THEN {"metro"} ELSE {},
    IF FieldPostal \in F THEN {"postal"} ELSE {},
    IF FieldTraits \in F THEN {"anycast", "proxy", "satellite"} ELSE {}}

(* readNames(slots, from): the primary name is read where the base record  *)
(* does not have it.                                                       *)
ExtNameReads(p, F, n) ==
  UNION {
    IF FieldContinent \in F THEN {"continent"} \X (1..n) ELSE {},
    {"country"} \X (2..n),
    IF FieldRegistered \in F THEN {"registered", "represented"} \X (1..n) ELSE {},
    IF p >= Region THEN {"region"} \X (2..n) ELSE {},
    IF p >= Region /\ FieldSubdivisions \in F THEN {"region2"} \X (1..n) ELSE {},
    IF p >= City THEN {"city"} \X (2..n) ELSE {}}

Reads(p, F, n) == BaseReads(p) \union (IF HasExt(p, F, n) THEN ExtReads(p, F) ELSE {})
NameReads(p, F, n) ==
  BaseNameReads(p) \union (IF HasExt(p, F, n) THEN ExtNameReads(p, F, n) ELSE {})

(* The flags of the location, which decode no value. *)
Flag(b) == IF b THEN 1 ELSE 0
Present(p, F, s) ==
  IF p >= City /\ FieldLocation \in F
  THEN [hasCoordinates |-> Flag({"lat", "lon"} \subseteq DOMAIN s.v),
        hasAccuracy    |-> Flag("acc" \in DOMAIN s.v)]
  ELSE [hasCoordinates |-> 0, hasAccuracy |-> 0]

Decodable(p, F, langs, s) ==
  /\ Reads(p, F, Len(langs)) \cap s.badV = {}
  /\ \A x \in NameReads(p, F, Len(langs)) : <<x[1], langs[x[2]]>> \notin s.badN

DecodedValues(p, F, n, s) ==
  LET has == Reads(p, F, n) \cap DOMAIN s.v IN
  Present(p, F, s) @@ [f \in Fields |-> IF f \in has THEN s.v[f] ELSE 0]

KeepSlots(p, buffer) == buffer

(* The slots are cleared, except for an ASN record, which has no names. *)
ClearSlots(p, buffer) ==
  IF p = ASN THEN buffer ELSE [k \in DOMAIN buffer |-> Zeros(DOMAIN buffer[k])]

DecodedNames(p, F, langs, s, buffer) ==
  LET has == {x \in NameReads(p, F, Len(langs)) : <<x[1], langs[x[2]]>> \in DOMAIN s.n}
  IN [k \in DOMAIN buffer |-> [j \in DOMAIN buffer[k] |->
        IF <<k, j>> \in has THEN s.n[<<k, langs[j]>>] ELSE ClearSlots(p, buffer)[k][j]]]

-----------------------------------------------------------------------------
(* readSource: one network.  A failed result has no offset: 0. *)
Network == db.nets[next + 1]
Reading == pc = "read" /\ Mmdb /\ next < Len(db.nets)
NetworkDecodes == Network # 0 /\ Decodable(co.profile, co.fields, co.langs, db.data[Network])

ReadKnown ==
  /\ Reading /\ Network \in DOMAIN known
  /\ AddKnown(Network)
  /\ UNCHANGED <<pc, outcome, opts, db, co, names, view>>

ReadNew ==
  LET s == db.data[Network] IN
  /\ Reading /\ Network \notin DOMAIN known /\ NetworkDecodes
  /\ names' = DecodedNames(co.profile, co.fields, co.langs, s, names)
  /\ AddNew(Network, [v     |-> DecodedValues(co.profile, co.fields, Len(co.langs), s),
                      names |-> names'])
  /\ UNCHANGED <<pc, outcome, opts, db, co, view>>

ReadFails ==
  /\ Reading /\ Network \notin DOMAIN known /\ ~NetworkDecodes
  /\ Fail("decode")
  /\ UNCHANGED <<opts, db, co, next, known, names, built, view>>

Finish ==
  /\ pc = "read" /\ Mmdb /\ next = Len(db.nets)
  /\ OpenBuilt /\ UNCHANGED names
=============================================================================
