----------------------------- MODULE MCSources ------------------------------
(***************************************************************************)
(* Small builds from both sources.  MMDB: every profile with none, some    *)
(* and all of its field sets and with one, two and three languages, and up *)
(* to three networks over five data records: a full one, one that differs  *)
(* from it in the extension entry alone, one with gaps, an empty one and a *)
(* broken one.  CSV: every format, profile and choice of field sets, on    *)
(* files of every layout, or of none, or of another format's.              *)
(***************************************************************************)
EXTENDS Sources

MCAsked == {"", "en", "de", "fr"}

Options(p, F, lang, langs) == [profile |-> p, fields |-> F, lang |-> lang, langs |-> langs]

FieldChoices ==
  {{}, FieldsAll, {FieldEU, FieldTraits}, {FieldContinent, FieldLocation},
   {FieldMetro}, {FieldSubdivisions}, {FieldRegistered}, {FieldPostal, FieldEU}}
LangChoices == {<<"", <<>>>>, <<"de", <<>>>>, <<"", <<"en", "de">>>>, <<"", <<"de", "zh", "en">>>>}
BadLangs == {<<"de", <<"en">>>>, <<"", <<"en", "">>>>, <<"", <<"en", "de", "en">>>>}

MCMmdbOptions ==
  {Options(p, F, l[1], l[2]) : p \in Profiles, F \in FieldChoices, l \in LangChoices}
    \union {Options(City, {}, l[1], l[2]) : l \in BadLangs}
    \union {Options(4, {}, "", <<>>)}

(* Every value and every name different, flags apart. *)
Flags == {"eu", "regEU", "repEU", "anycast", "proxy", "satellite"}
ValueSeq ==
  <<"asn", "org", "countryISO", "continent", "countryGeo", "regionISO", "cityGeo", "lat", "lon",
    "acc", "timeZone", "eu", "continentGeo", "regISO", "regGeo", "regEU", "repISO", "repGeo",
    "repEU", "repType", "regionGeo", "region2ISO", "region2Geo", "postal", "metro", "anycast",
    "proxy", "satellite">>
Values == Range(ValueSeq)
NumberOf(f) == 10 + CHOOSE i \in DOMAIN ValueSeq : ValueSeq[i] = f
LangSeq == <<"en", "de", "zh">>
Names == Range(NameKinds) \X Range(LangSeq)
NameNumber(x) == 100 + 10 * (CHOOSE i \in DOMAIN NameKinds : NameKinds[i] = x[1])
                     + (CHOOSE i \in DOMAIN LangSeq : LangSeq[i] = x[2])

Full == [v |-> [f \in Values |-> IF f \in Flags THEN 1 ELSE NumberOf(f)],
         n |-> [x \in Names |-> NameNumber(x)], badV |-> {}, badN |-> {}]
(* Differs from Full in values and names of the extension entry alone. *)
Twin == [Full EXCEPT !.v["proxy"] = 0, !.v["regEU"] = 0, !.v["continentGeo"] = 200,
                     !.v["region2Geo"] = 201, !.v["metro"] = 202,
                     !.n[<<"city", "de">>] = 203, !.n[<<"region2", "zh">>] = 204]
(* No English names but one, no longitude, a latitude and a radius of 0.   *)
Gaps == [v |-> [f \in Values \ {"lon", "regISO", "region2ISO", "postal", "timeZone"} |->
                  IF f \in {"lat", "acc"} THEN 0 ELSE Full.v[f]],
         n |-> [x \in {y \in Names : y[2] # "en"} \union {<<"city", "en">>} |-> NameNumber(x)],
         badV |-> {}, badN |-> {}]
Blank == [v |-> <<>>, n |-> <<>>, badV |-> {}, badN |-> {}]
Broken == [Gaps EXCEPT !.badV = {"metro"}, !.badN = {<<"city", "zh">>}]

Data == <<Full, Twin, Gaps, Blank, Broken>>
Nets == {<<1, 4, 1>>, <<1, 2, 3>>, <<1, 3, 2>>, <<4, 1, 3>>, <<3, 5, 1>>, <<2, 0>>, <<>>}
Database(type, langs, nets) == [kind |-> "mmdb", type |-> type, langs |-> langs, nets |-> nets, data |-> Data]

MCDatabases ==
  {Database(type, {}, nets) : type \in {{"City"}, {"ASN"}}, nets \in Nets}
    \union {Database({"Country"}, {"en", "de"}, <<1, 3>>), Database({"Domain"}, {}, <<1>>)}

-----------------------------------------------------------------------------
(* CSV: the texts 50 to 53 are numbers, two of them the same one.          *)
MCNumber == [t \in 50..53 |-> CASE t = 50 -> 0 [] t = 51 -> 61 [] OTHER -> 62]

CsvOption(f, p, F) == [format |-> f, profile |-> p, fields |-> F]
MCCsvOptions ==
  {CsvOption(f, p, F) : f \in Formats, p \in Profiles,
     F \in {{}, FieldsAll, {FieldLocation}, {FieldPostal}, {FieldLocation, FieldPostal}, {FieldTraits}}}
    \union {CsvOption("none", Country, {}), CsvOption("IP2Location", 4, {})}

Line(cells)   == [cells |-> cells, header |-> FALSE]
Header(cells) == [cells |-> cells, header |-> TRUE]
File(rows)    == [kind |-> "csv", rows |-> rows]

(* Rows of DB11, and the rows they are in the layouts with fewer columns:  *)
(* one that differs in each column, one without data, one with values that *)
(* are missing, and two that cannot be decoded.                            *)
Row1 == <<20, 21, 22, 23, 51, 52, 24, 25>>
Wide == {Row1, [Row1 EXCEPT ![6] = 53], [Row1 EXCEPT ![2] = 26], [Row1 EXCEPT ![4] = 26],
         [Row1 EXCEPT ![7] = 26], [Row1 EXCEPT ![3] = Dash, ![7] = Empty, ![4] = Empty],
         [Row1 EXCEPT ![3] = Empty], [Row1 EXCEPT ![1] = Dash], [Row1 EXCEPT ![1] = ZZ],
         [Row1 EXCEPT ![5] = 50, ![6] = 50],
         [Row1 EXCEPT ![5] = Dash, ![6] = Dash], [Row1 EXCEPT ![5] = Empty], [Row1 EXCEPT ![6] = 29]}
Cut(cells, n) == Line(SubSeq(cells, 1, n))
Small == {<<51, 20>>, <<52, 20>>, <<53, 20>>, <<Dash, 20>>, <<51, Dash>>, <<51, Empty>>, <<20, 20>>, <<Empty, 20>>}

(* Files of as many columns as each layout has, and of one that none has. *)
Lines(n) == {Cut(c, n) : c \in Wide}
AsnLines == {Line(<<70, s[1], s[2]>>) : s \in Small} \union {Line(s) : s \in Small}
CountryLines == {Line(<<c>>) : c \in {20, 21, Dash, ZZ, Empty}}

MCFiles ==
  UNION {{File(<<Cut(Row1, n), r, Cut(Row1, n)>>) : r \in Lines(n) \union Lines(2) \union {Header(Row1)}}
           : n \in {2, 4, 6, 7, 8, 5}}
    \union {File(<<r, q>>) : r, q \in AsnLines}
    \union {File(<<r, q>>) : r, q \in CountryLines}
    \union {File(<<Header(Row1), Cut(Row1, n)>>) : n \in {1, 2, 4, 6}}
    \union {File(<<>>), File(<<Header(Row1)>>)}
=============================================================================
