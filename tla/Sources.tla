------------------------------ MODULE Sources -------------------------------
(***************************************************************************)
(* A build from either source, from the caller's options to what a lookup  *)
(* in any view of the result gives: MmdbSource and CsvRecords over the one *)
(* build core, with what the documentation promises of it.                 *)
(***************************************************************************)
EXTENDS MmdbSource, CsvRecords

vars == <<pc, outcome, opts, db, co, next, known, names, layout, built, view>>

Init ==
  /\ InitBuild
  /\ \/ InitMmdb /\ layout = DBIPCity
     \/ InitCsv /\ names = <<>> /\ layout = DBIPCity

FromMmdb == CoreOptions \/ CheckSource \/ ReadKnown \/ ReadNew \/ ReadFails \/ Finish
FromCsv  == CsvOptions \/ CsvOpen \/ RefuseRow \/ PassRow \/ RowKnown \/ RowNew \/ CsvFinish

Ended == pc = "failed" /\ UNCHANGED vars

Next ==
  \/ FromMmdb /\ UNCHANGED layout
  \/ FromCsv /\ UNCHANGED names
  \/ \E lang \in Asked : WithLanguage(lang) /\ UNCHANGED <<names, layout>>
  \/ Ended

Spec == Init /\ [][Next]_vars

-----------------------------------------------------------------------------
(* What a profile and its field sets keep of a source record, as the       *)
(* comments of Profile and FieldSet (format.go) list it.                   *)
SetValues(b) ==
  CASE b = FieldEU -> {"eu"}
    [] b = FieldContinent -> {"continentGeo"}
    [] b = FieldRegistered ->
         {"regISO", "regGeo", "regEU", "repISO", "repGeo", "repEU", "repType"}
    [] b = FieldSubdivisions -> {"regionGeo", "region2ISO", "region2Geo"}
    [] b = FieldPostal -> {"postal"}
    [] b = FieldMetro -> {"metro"}
    [] b = FieldTraits -> {"anycast", "proxy", "satellite"}
    [] OTHER -> {}

KeptValues == BaseOf(co.profile) \union UNION {SetValues(b) : b \in co.fields}
KeptKinds  == Range(Kinds(co.profile, co.fields))

(* The columns of the file, as the comments of Format (csvdb/layout.go)    *)
(* list them after the two addresses.                                      *)
IP2LColumns ==
  <<"country_code", "country_name", "region_name", "city_name", "latitude",
    "longitude", "zip_code", "time_zone">>
Columns(f, r) ==
  CASE f = "DBIPCity"    -> <<"continent", "country", "stateprov", "city", "latitude", "longitude">>
    [] f = "DBIPCountry" -> <<"country">>
    [] f = "DBIPASN"     -> <<"as_number", "as_organization">>
    [] f = "IP2Location" -> SubSeq(IP2LColumns, 1, Len(r.cells))
    [] OTHER             -> <<"cidr", "asn", "as">>

FirstRow == db.rows[Skipped + 1]
HasColumn(c) == c \in Range(Columns(opts.format, FirstRow))
IsIP2L == opts.format \in {"IP2Location", "IP2LocationASN"}

(* The text of a named column; "-" is a missing value to IP2Location only. *)
RawCell(r, C) ==
  LET K == Columns(opts.format, r)
  IN IF \E k \in DOMAIN K : K[k] \in C
     THEN r.cells[CHOOSE k \in DOMAIN K : K[k] \in C] ELSE Empty
Cell(r, C) == IF IsIP2L /\ RawCell(r, C) = Dash THEN Empty ELSE RawCell(r, C)

CountryOf(r) == Cell(r, {"country", "country_code"})
AsNumber(r)  == Cell(r, {"as_number", "asn"})
Lat(r)       == Cell(r, {"latitude"})
Lon(r)       == Cell(r, {"longitude"})

(* A row in the terms of an MMDB record, every name of it in English. *)
NumberOr0(t) == IF t \in DOMAIN Number THEN Number[t] ELSE 0
HasBoth(r)   == 0 \notin {Lat(r), Lon(r)}
RowValues(r) ==
  [countryISO |-> CountryOf(r), continent |-> Cell(r, {"continent"}),
   postal |-> Cell(r, {"zip_code"}), asn |-> NumberOr0(AsNumber(r)),
   org |-> Cell(r, {"as_organization", "as"})]
    @@ (IF HasBoth(r) THEN [lat |-> NumberOr0(Lat(r)), lon |-> NumberOr0(Lon(r))] ELSE <<>>)
RowNames(r) ==
  [x \in {<<"country", "en">>, <<"region", "en">>, <<"city", "en">>} |->
     CASE x[1] = "country" -> Cell(r, {"country_name"})
       [] x[1] = "region"  -> Cell(r, {"stateprov", "region_name"})
       [] OTHER            -> Cell(r, {"city", "city_name"})]
RowRecord(r) == [v |-> RowValues(r), n |-> RowNames(r)]

(* DB-IP's "ZZ" and IP2Location's "-" mark the rows without data. *)
HasData(r) ==
  CASE opts.format = "DBIPASN" -> TRUE
    [] opts.format = "IP2LocationASN" -> r.cells[2] # Dash
    [] opts.format = "IP2Location" -> r.cells[1] # Dash
    [] OTHER -> CountryOf(r) # ZZ

SourceOf(i) == IF Mmdb THEN db.data[db.nets[i]] ELSE RowRecord(db.rows[i])
DataRead ==
  IF Mmdb THEN 1..next ELSE {i \in (Skipped + 1)..next : HasData(db.rows[i])}

ValueOf(s, f) ==
  IF f = "hasCoordinates" THEN Flag(FieldLocation \in co.fields /\ {"lat", "lon"} \subseteq DOMAIN s.v)
  ELSE IF f = "hasAccuracy" THEN Flag(FieldLocation \in co.fields /\ "acc" \in DOMAIN s.v)
  ELSE IF f \in KeptValues \cap DOMAIN s.v THEN s.v[f] ELSE 0
NameIn(s, k, lang) == IF <<k, lang>> \in DOMAIN s.n THEN s.n[<<k, lang>>] ELSE 0

Kept(s) == [v |-> [f \in Fields |-> ValueOf(s, f)],
            n |-> [x \in KeptKinds \X Range(co.langs) |-> NameIn(s, x[1], x[2])]]

(* The name of kind k in a view: "a name missing in it is in the primary   *)
(* language" (Language, format.go).                                        *)
NameFor(s, k) ==
  LET local == NameIn(s, k, co.langs[view.lang + 1]) IN
  IF k \notin KeptKinds THEN 0
  ELSE IF local # 0 THEN local ELSE NameIn(s, k, co.langs[1])

Promised(s) ==
  [f \in Fields |->
     IF \E k \in DOMAIN FieldOfKind : FieldOfKind[k] = f
     THEN NameFor(s, CHOOSE k \in DOMAIN FieldOfKind : FieldOfKind[k] = f)
     ELSE ValueOf(s, f)]

Stored(i) == recs[ids[i] + 1]
Detailed(i) == DetailsOf(co.profile, co.fields, view, Stored(i))

(* LookupDetails in every view gives each network the values its source    *)
(* record has and the build keeps, and its names in the view's language,   *)
(* or else the primary one: nothing of another record shows through the    *)
(* reused buffers, the shared records or the packed entry, and no column   *)
(* is taken for another (readSource, srcDecoder, extDecoder, fill,         *)
(* xTable.add, details).                                                   *)
DetailsRight ==
  /\ pc \in {"read", "open"} => DOMAIN ids = DataRead
  /\ pc = "open" => \A i \in DOMAIN ids : Detailed(i) = Promised(SourceOf(i))

(* "LookupDetails is Lookup with every optional field" (details.go:65): in *)
(* every view, however it was reached, the two agree on the Record; Lookup *)
(* of an ASN database gives an empty one (decodeAlt, setLanguage).         *)
LookupAgrees ==
  pc = "open" =>
    \A i \in DOMAIN ids :
      LET rec == RecordOf(co.profile, view, Stored(i)) IN
      \A f \in RecordFields : rec[f] = IF co.profile = ASN THEN 0 ELSE Detailed(i)[f]

(* What a build counts as one source record: a data offset of the MMDB, or *)
(* the texts of the columns it reads (Stats, csvdb.go:153).                *)
SourceText(i) ==
  IF Mmdb THEN db.nets[i]
  ELSE LET r == db.rows[i] IN
       IF co.profile = ASN
       THEN [c \in {"as_number", "asn", "as_organization", "as"} |-> RawCell(r, {c})]
       ELSE [c \in {"continent", "country", "country_code", "country_name"}
                     \union (IF co.profile >= Region THEN {"stateprov", "region_name"} ELSE {})
                     \union (IF co.profile >= City THEN {"city", "city_name", "latitude", "longitude"} ELSE {})
                     \union (IF FieldPostal \in co.fields THEN {"zip_code"} ELSE {}) |-> RawCell(r, {c})]

(* Two networks share a record id exactly when their source records agree  *)
(* in all the build keeps, whether they share a data offset or a text or   *)
(* not; no network gets record 0, not even one with nothing to keep, and   *)
(* each offset or text is decoded once (known, Builder.Record).            *)
SharesRecords ==
  /\ \A i, j \in DOMAIN ids :
       (ids[i] = ids[j]) <=> (Kept(SourceOf(i)) = Kept(SourceOf(j)))
  /\ 0 \notin Range(ids)
  /\ distinct = Cardinality({SourceText(i) : i \in DOMAIN ids})

(* A malformed value fails the build exactly when the build keeps it: one  *)
(* that neither the profile, nor a field set, nor a language asks for is   *)
(* stepped over, and no other is (extDecoder.top and its maps, fill).      *)
UnfitNetwork(i) ==
  \/ db.nets[i] = 0
  \/ KeptValues \cap SourceOf(i).badV # {}
  \/ (KeptKinds \X Range(co.langs)) \cap SourceOf(i).badN # {}
UnfitRow(i) ==
  LET r == db.rows[i] IN
  \/ r.header \/ Len(r.cells) # Len(Columns(opts.format, FirstRow))
  \/ /\ HasData(r)
     /\ IF co.profile = ASN THEN AsNumber(r) \notin DOMAIN Number
        ELSE co.profile = City /\ {Lat(r), Lon(r)} # {0} /\ ~({Lat(r), Lon(r)} \subseteq DOMAIN Number)
Unfit(i) == IF Mmdb THEN UnfitNetwork(i) ELSE UnfitRow(i)

FailsOnKept ==
  /\ outcome = "decode" \/ (outcome = "ErrSyntax" /\ recs # <<>>) => Unfit(next + 1)
  /\ pc \in {"read", "open"} => \A i \in DOMAIN ids : ~Unfit(i)

(* "Region and city need a layout with region and city names ..., ASN an   *)
(* ASN layout"; an explicit set of Fields "must be allowed by the profile  *)
(* and filled by the layout", and FieldsAll "stores every set that both    *)
(* allow" (csvdb.Options): however late the layout of the file is known,   *)
(* a CSV build is refused with an error that the options and this file     *)
(* deserve, or keeps exactly these sets.                                   *)
FileFields ==
  {b \in KnownFields : (b = FieldLocation /\ HasColumn("latitude")) \/ (b = FieldPostal /\ HasColumn("zip_code"))}
FileIsASN == HasColumn("as_number") \/ HasColumn("asn")
FileProfiles ==
  IF FileIsASN THEN {ASN} ELSE IF HasColumn("city") \/ HasColumn("city_name") THEN {Country, Region, City} ELSE {Country}
BothAllow == {b \in FileFields : CheckFields(opts.profile, {b})}

Deserved ==
  (IF opts.format \notin Formats \/ opts.profile \notin Profiles
      \/ (~All /\ ~(opts.fields \subseteq BothAllow)) THEN {"ErrOptions"} ELSE {})
    \union (IF opts.format \in Formats /\ opts.profile \notin FileProfiles THEN {"ErrDatabaseType"} ELSE {})

OptionsHonoured ==
  Csv /\ Len(db.rows) > Skipped =>
    /\ outcome \in {"ErrOptions", "ErrDatabaseType"} => outcome \in Deserved
    /\ pc \in {"read", "open"} =>
         Deserved = {} /\ co.fields = IF All THEN BothAllow ELSE opts.fields
=============================================================================
