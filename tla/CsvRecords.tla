----------------------------- MODULE CsvRecords -----------------------------
(***************************************************************************)
(* The CSV source (csvdb), what becomes of a row's columns: the options    *)
(* are checked before the file is opened against all that its format may   *)
(* have, and again against what it has; each row whose text was not met    *)
(* before is decoded into a record.  CsvSource has the addresses of the    *)
(* rows and their order.                                                   *)
(*                                                                         *)
(* A row r has r.cells, the texts of its columns after the two addresses,  *)
(* and r.header, whether it is a header line.  A text is a number: Empty,  *)
(* Dash and ZZ are "", "-" and "ZZ", and Number has the texts that parse   *)
(* as a number in range, which several may do as the same one.             *)
(***************************************************************************)
EXTENDS Build

CONSTANTS
  CsvOptionSets,  \* the options a caller may pass: [format, profile, fields]
  Files,          \* the sources: [kind, rows]
  Number          \* text -> number

Empty == 0
Dash  == 1
ZZ    == 2

ASSUME CsvAssumption ==
  /\ \A f \in Files : f.kind = "csv"
  /\ DOMAIN Number \cap {Empty, Dash, ZZ} = {}

VARIABLE layout   \* the layout of the file

InitCsv == opts \in CsvOptionSets /\ db \in Files

Csv == db.kind = "csv"

-----------------------------------------------------------------------------
(* The layouts: a column that one does not have is not in at. *)
NoMark == -1

DBIPCity ==
  [cols |-> 8, asn |-> FALSE, maxProfile |-> City, fields |-> {FieldLocation},
   none |-> ZZ, dash |-> FALSE,
   at |-> [continent |-> 2, country |-> 3, region |-> 4, city |-> 5, lat |-> 6, lon |-> 7]]
DBIPCountry ==
  [cols |-> 3, asn |-> FALSE, maxProfile |-> Country, fields |-> {},
   none |-> ZZ, dash |-> FALSE, at |-> [country |-> 2]]
DBIPASN ==
  [cols |-> 4, asn |-> TRUE, maxProfile |-> Country, fields |-> {},
   none |-> NoMark, dash |-> FALSE, at |-> [asNum |-> 2, asOrg |-> 3]]

DB1 ==
  [cols |-> 4, asn |-> FALSE, maxProfile |-> Country, fields |-> {},
   none |-> Dash, dash |-> TRUE, at |-> [country |-> 2, countryName |-> 3]]
DB3 == [DB1 EXCEPT !.cols = 6, !.maxProfile = City, !.at = @ @@ [region |-> 4, city |-> 5]]
DB5 == [DB3 EXCEPT !.cols = 8, !.fields = {FieldLocation}, !.at = @ @@ [lat |-> 6, lon |-> 7]]
DB9 == [DB5 EXCEPT !.cols = 9, !.fields = @ \union {FieldPostal}, !.at = @ @@ [postal |-> 8]]
DB11 == [DB9 EXCEPT !.cols = 10]
IP2LASN ==
  [cols |-> 5, asn |-> TRUE, maxProfile |-> Country, fields |-> {},
   none |-> Dash, dash |-> TRUE, at |-> [asNum |-> 3, asOrg |-> 4]]

IP2LLayouts == {DB1, DB3, DB5, DB9, DB11}

Formats == {"DBIPCity", "DBIPCountry", "DBIPASN", "IP2Location", "IP2LocationASN"}

(* Before the file is known, an IP2Location one may have all of DB11. *)
LayoutOf(f) ==
  CASE f = "DBIPCity" -> DBIPCity
    [] f = "DBIPCountry" -> DBIPCountry
    [] f = "DBIPASN" -> DBIPASN
    [] f = "IP2Location" -> DB11
    [] OTHER -> IP2LASN

-----------------------------------------------------------------------------
(* checkLayout: the error, or "", and with all the field sets it keeps. *)
All == opts.fields = FieldsAll

LayoutError(l, c) ==
  IF (c.profile = ASN) # l.asn \/ (~l.asn /\ c.profile > l.maxProfile) THEN "ErrDatabaseType"
  ELSE IF ~All /\ ~(c.fields \subseteq l.fields) THEN "ErrOptions" ELSE ""

(* A mutant: the file's own layout does not narrow what DB11 allowed. *)
NarrowedOnce(l, c) ==
  IF All /\ pc = "options" THEN [c EXCEPT !.fields = @ \cap l.fields] ELSE c

Narrowed(l, c) == IF All THEN [c EXCEPT !.fields = @ \cap l.fields] ELSE c

(* coreOptions *)
CsvOptions ==
  LET o   == [profile |-> opts.profile, fields |-> opts.fields, langs |-> <<"en">>]
      l   == LayoutOf(opts.format)
      err == IF opts.format \notin Formats \/ ~Valid(o) THEN "ErrOptions"
             ELSE LayoutError(l, Normal(o))
  IN /\ pc = "options" /\ Csv
     /\ IF err = "" THEN pc' = "source" /\ co' = Narrowed(l, Normal(o)) /\ UNCHANGED outcome
                    ELSE Fail(err) /\ UNCHANGED co
     /\ UNCHANGED <<opts, db, next, known, built, view, layout>>

-----------------------------------------------------------------------------
(* readSource, before its loop: a header line is passed over, and the      *)
(* first row tells which of the IP2Location layouts the file has.          *)
Cols(r) == Len(r.cells) + 2
Skipped == IF db.rows # <<>> /\ db.rows[1].header THEN 1 ELSE 0

IP2LLayout(r) == {l \in IP2LLayouts : l.cols = Cols(r)}

CsvStart(l) ==
  IF LayoutError(l, co) # "" THEN Fail(LayoutError(l, co)) /\ UNCHANGED <<co, recs, next, layout>>
  ELSE /\ pc' = "read" /\ UNCHANGED outcome
       /\ layout' = l /\ co' = Narrowed(l, co) /\ New(co')
       /\ next' = Skipped

CsvOpen ==
  /\ pc = "source" /\ Csv
  /\ IF Len(db.rows) = Skipped THEN Fail("ErrSyntax") /\ UNCHANGED <<co, recs, next, layout>>
     ELSE IF opts.format # "IP2Location" THEN CsvStart(LayoutOf(opts.format))
     ELSE LET found == IP2LLayout(db.rows[Skipped + 1]) IN
          IF found = {} THEN Fail("ErrSyntax") /\ UNCHANGED <<co, recs, next, layout>>
          ELSE CsvStart(CHOOSE l \in found : TRUE)
  /\ UNCHANGED <<opts, db, known, distinct, ids, view>>

-----------------------------------------------------------------------------
(* row: what is checked of it but for its addresses, which a header line   *)
(* has none of.                                                            *)
Row     == db.rows[next + 1]
AtRow   == pc = "read" /\ Csv /\ next < Len(db.rows)
BadRow  == Cols(Row) # layout.cols \/ Row.header

Text(c)  == Row.cells[layout.at[c] - 1]
NoData   == Text(IF layout.asn THEN "asNum" ELSE "country") = layout.none

(* newReader: the columns the build reads. *)
KeyColumns ==
  DOMAIN layout.at \cap
    (IF co.profile = ASN THEN {"asNum", "asOrg"}
     ELSE {"continent", "country", "countryName"}
            \union (IF co.profile >= Region THEN {"region"} ELSE {})
            \union (IF co.profile >= City THEN {"city", "lat", "lon"} ELSE {})
            \union (IF co.profile >= City /\ FieldPostal \in co.fields THEN {"postal"} ELSE {}))

RowKey == [c \in KeyColumns |-> Text(c)]

(* value: empty for a missing column or value. *)
CellOf(c) ==
  IF c \notin DOMAIN layout.at \/ (layout.dash /\ Text(c) = Dash) THEN Empty ELSE Text(c)

(* fill *)
HasLocation == co.profile = City /\ {CellOf("lat"), CellOf("lon")} # {Empty}

Fillable ==
  IF co.profile = ASN THEN CellOf("asNum") \in DOMAIN Number
  ELSE HasLocation => {CellOf("lat"), CellOf("lon")} \subseteq DOMAIN Number

FillValues ==
  LET blank == Zeros(Fields) IN
  IF co.profile = ASN
  THEN [blank EXCEPT !.asn = Number[CellOf("asNum")], !.org = CellOf("asOrg")]
  ELSE [blank EXCEPT
          !.continent  = CellOf("continent"),
          !.countryISO = CellOf("country"),
          !.postal     = IF co.profile = City /\ FieldPostal \in co.fields THEN CellOf("postal") ELSE 0,
          !.lat        = IF HasLocation THEN Number[CellOf("lat")] ELSE 0,
          !.lon        = IF HasLocation THEN Number[CellOf("lon")] ELSE 0,
          !.hasCoordinates = IF HasLocation THEN 1 ELSE 0]

FillNames ==
  [ZeroNames(1) EXCEPT
     !["country"] = <<IF co.profile = ASN THEN 0 ELSE CellOf("countryName")>>,
     !["region"]  = <<IF co.profile \in {Region, City} THEN CellOf("region") ELSE 0>>,
     !["city"]    = <<IF co.profile = City THEN CellOf("city") ELSE 0>>]

RowsKept == UNCHANGED <<pc, outcome, opts, db, co, view, layout>>

Acceptable == ~BadRow /\ (NoData \/ RowKey \in DOMAIN known \/ Fillable)

RefuseRow ==
  /\ AtRow /\ ~Acceptable
  /\ Fail("ErrSyntax")
  /\ UNCHANGED <<opts, db, co, next, known, built, view, layout>>

PassRow ==
  /\ AtRow /\ ~BadRow /\ NoData
  /\ next' = next + 1
  /\ RowsKept /\ UNCHANGED <<known, built>>

RowKnown ==
  /\ AtRow /\ ~BadRow /\ ~NoData /\ RowKey \in DOMAIN known
  /\ AddKnown(RowKey) /\ RowsKept

RowNew ==
  /\ AtRow /\ ~BadRow /\ ~NoData /\ RowKey \notin DOMAIN known /\ Fillable
  /\ AddNew(RowKey, [v |-> FillValues, names |-> FillNames]) /\ RowsKept

CsvFinish ==
  /\ pc = "read" /\ Csv /\ next = Len(db.rows)
  /\ OpenBuilt /\ UNCHANGED layout
=============================================================================
