----------------------------- MODULE OpenInput ------------------------------
(***************************************************************************)
(* Open and OpenBytes (open.go) on an arbitrary input of either format,    *)
(* the GEO2 checks and the GEO1 conversion composed.  Open also checks the *)
(* header of a regular file before it reads or maps the rest; that the     *)
(* file stays the same meanwhile is part of the contract of both.          *)
(***************************************************************************)
EXTENDS Geo2Validate, Geo1Transcode, Geo2Encode

CONSTANTS
  Databases,   \* the builds whose files are opened as written
  Others       \* the inputs to open that no build wrote

IsInput(f) ==
  /\ f.size \in Nat
  /\ f.magic = "GEO2" => IsGEO2(f)
  /\ f.magic = "GEO1" => IsGEO1(f)

ASSUME InputsAssumption ==
  /\ \A d \in Databases : IsInput(Encode(d)) /\ Encode(d).size <= MaxFileSize
  /\ \A f \in Others : IsInput(f)

openVars == <<file, skipCRC, source, stage, outcome, off>>

OpenInit ==
  /\ \/ \E d \in Databases : source = <<d>> /\ file = Encode(d)
     \/ source = <<>> /\ file \in Others
  /\ skipCRC \in BOOLEAN
  /\ stage \in {"Open", "OpenBytes"}
  /\ outcome = "none" /\ off = 0

(* openBuffer and openMapped: the magic selects the format. *)
Known == file.size >= 4 /\ file.magic \in {"GEO1", "GEO2"}

OpenBytes ==
  /\ stage = "OpenBytes" /\ UNCHANGED off
  /\ IF file.size > MaxFileSize THEN Refuse("ErrTooLarge")
     ELSE IF ~Known THEN Refuse("ErrBadMagic")
     ELSE PassTo("header")

(* checkAnyHeader *)
HeaderFits ==
  IF file.magic = "GEO2" THEN file.size >= HeaderSize /\ HeaderOK /\ DirectoryEnd <= file.size
  ELSE file.size >= HeaderLen /\ Header1OK

RightVersion == file.hdr.version = IF file.magic = "GEO2" THEN 2 ELSE 1
HasVersion   == file.size >= IF file.magic = "GEO2" THEN HeaderSize ELSE HeaderLen

Open ==
  /\ stage = "Open" /\ UNCHANGED off
  /\ IF file.size > MaxFileSize THEN Refuse("ErrTooLarge")
     ELSE IF ~Known THEN Refuse("ErrBadMagic")
     ELSE IF HasVersion /\ ~RightVersion THEN Refuse("ErrUnsupportedVersion")
     ELSE Check(HeaderFits, "header")

OpenNext == OpenBytes \/ Open \/ Parse \/ Convert

OpenSpec == OpenInit /\ [][OpenNext]_openVars

-----------------------------------------------------------------------------
(* What the next GEO2 check reads before it returns: bytes lo to hi of the *)
(* input (section 0) or of a section.                                      *)
Piece(id, lo, hi)  == [sec |-> id, lo |-> lo, hi |-> hi]
Words(id, w, K)    == {Piece(id, k * w, k * w + w) : k \in K}
Length(id)         == IF id = 0 THEN file.size ELSE N(id)
EntryBytes(k)      == Piece(0, Dir(k).off, (Dir(k).off + Dir(k).len) % Word64)
SectionsRead       == {EntryBytes(k) : k \in {e \in Entries : Dir(e).id \in KnownIDs}}

(* The starts of a bucket are read once its bounds, and the buckets before *)
(* it, have been found right.                                              *)
StartsRead ==
  UNION {Words(SecV4Starts, 2, V4Idx(g)..(V4Idx(g + 1) - 1)) :
           g \in {b \in 0..(Buckets - 1) :
                    EndsOK /\ BoundsOK(b) /\ \A a \in 0..(b - 1) : BucketOK(a)}}

StringRead(id) ==
  Words(SecStrIdx, 4, {id, id + 1}) \union {Piece(SecStrBlob, StrIdx(id), StrIdx(id + 1))}
LangsRead ==
  (UNION {StringRead(Lang(j)) : j \in {l \in 0..(nLangs - 1) :
            Lang(l) < nStrings /\ \A k \in 0..(l - 1) : LangOK(k)}})
    \union StringRead(file.meta.language)

IdWords(id, n) == Words(id, hdr.idWidth, 0..(n - 1))

Reads ==
  CASE stage = "directory" -> IF DirectoryEnd <= file.size THEN {Piece(0, HeaderSize, DirectoryEnd)} ELSE {}
    [] stage = "crc"     -> IF skipCRC THEN {} ELSE {EntryBytes(k) : k \in Entries}
    [] stage = "meta"    -> SectionsRead
    [] stage = "strings" -> Words(SecStrIdx, 4, 0..nStrings)
    [] stage = "records" -> Words(SecRecords, RecordWidth(hdr.profile), 0..(nRecords - 1))
                           \union IdWords(SecV4IDs, nV4) \union IdWords(SecV6IDs, nV6)
    [] stage = "ipv4"    -> Words(SecV4Idx, 4, 0..Buckets) \union StartsRead
    [] stage = "ipv6"    -> Words(SecV6ExcIdx, 4, 0..(nExc - 1)) \union Words(SecV6ExcLo, 8, 0..(nExc - 1))
                           \union Words(SecV6Starts, 8, 0..(nV6 - 1))
    [] stage = "langs"   -> Words(SecLangs, 4, 0..(nLangs - 1)) \union LangsRead
    [] stage = "xrecords" ->
         Words(SecXRecords, entryWidth, IF entryWidth = 0 THEN {} ELSE 0..(nRecords - 1))
           \union {Piece(SecXRecords, o, o + 3) : o \in {i \in IdOffsets : nRecords > 0}}
           \union {Piece(SecXRecords, o, o + 1) : o \in {i \in FlagOffsets : nRecords > 0}}
    [] stage = "reader"  ->
         (UNION {StringRead(i) : i \in 0..(nStrings - 1)})
           \union Words(SecV6Starts, 8, {ExcIdx(j) : j \in 0..(nExc - 1)})
           \union (UNION {Words(SecV4Starts, 2, V4Idx(g)..(V4Idx(g + 1) - 1)) : g \in 0..(Buckets - 1)})
    [] OTHER -> {}

(* parseGEO2 works "without reading past b" (geo2.go): whatever the values *)
(* in an input, no check reads outside the input or the section it checks, *)
(* however the offsets and lengths it is given add up, and neither does    *)
(* the binding of the sections; the GEO1 cursor stays in its input.        *)
ReadsInBounds ==
  IF file.magic = "GEO2"
  THEN \A r \in Reads : r.lo <= r.hi /\ r.hi <= Length(r.sec)
  ELSE off <= file.size

(* "Any input that opens is safe to look up in" (format.go): once open,    *)
(* the tables of either format are as the searches and decode take for     *)
(* granted: starts strictly ascending and split by V4IDX, exceptions that  *)
(* are starts, every record id and string id in its table.                 *)
TablesOpened == IF file.magic = "GEO2" THEN GEO2Tables ELSE GEO1Tables

OpenedIsSafe ==
  stage = "open" => SearchableV4(TablesOpened) /\ SearchableV6(TablesOpened) /\ Decodable(TablesOpened)

(* The texts and the rest of each record, and of its extension entry.      *)
Named(d, id) == d.strs[id + 1]

KeepsRecords(d) ==
  /\ nRecords = Len(d.recs)
  /\ \A i \in 0..(nRecords - 1) :
       LET r == d.recs[i + 1] IN
       /\ \A f \in 0..(NarrowCount(d.profile) - 1) :
            Bytes(At(Rec(i).narrow, f) % (MaxUint16 + 1)) = Named(d, At(r.narrow, f))
       /\ HasWide(d.profile) => Bytes(Rec(i).wide) = Named(d, r.wide)
       /\ Rec(i).rest = r.rest

KeepsEntries(d) ==
  /\ hasF <=> d.x # <<>>
  /\ hasF =>
       /\ fields = d.x[1].fields
       /\ \A i \in 0..(nRecords - 1) :
            LET e == Elt(d.x[1].entries, i, ZeroEntry) IN
            /\ DOMAIN e.ids \subseteq IdOffsets
            /\ \A o \in IdOffsets : Bytes(IdAt(XEntry(i), o)) = Named(d, IdAt(e, o))
            /\ XEntry(i).undefined = e.undefined /\ XEntry(i).rest = e.rest

KeepsLanguages(d) ==
  /\ Bytes(file.meta.language) = Named(d, d.language)
  /\ IF d.langs = <<>> THEN ~Has(SecLangs)
     ELSE /\ nLangs = Len(d.langs)
          /\ \A j \in 1..nLangs : Bytes(Lang(j - 1)) = Named(d, d.langs[j])

(* The start and the record of each boundary. *)
KeepsBoundaries(t, d) ==
  /\ nV4 = Len(d.v4)
  /\ \A i \in 1..nV4 :
       Start4(t, i - 1) = d.v4[i].start /\ At(t.v4ids, i - 1) = d.v4[i].rec
  /\ nV6 = Len(d.v6)
  /\ \A i \in 1..nV6 :
       /\ Start6(t, i - 1) = <<d.v6[i].hi, d.v6[i].lo>>
       /\ At(t.v6ids, i - 1) = d.v6[i].rec

(* What encode writes opens, for either option and either way in, and the  *)
(* Reader finds what the build had: the start and the record of each       *)
(* boundary, each record's texts and values, its extension entry, the      *)
(* strings and the languages.                                              *)
WrittenOpens ==
  source # <<>> =>
    /\ stage # "refused"
    /\ stage = "open" =>
         LET d == source[1] IN
         /\ nStrings = Len(d.strs) /\ \A s \in DOMAIN d.strs : Bytes(s - 1) = d.strs[s]
         /\ KeepsBoundaries(TablesOpened, d)
         /\ KeepsRecords(d) /\ KeepsEntries(d) /\ KeepsLanguages(d)

(* A GEO1 input keeps its texts and boundaries in the new layout: each     *)
(* string field of each record reads as the input's string, as "" for id 0 *)
(* or one past the table, and each boundary has its start and its record   *)
(* id.  It is refused as too large only for strings that 16 bits, or 24    *)
(* for cities, cannot tell apart.                                          *)
Meant(o) == IF o = 0 \/ o >= ns THEN "" ELSE Str(o).text
Needed(F) == {Field(i, f) : i \in 1..(rc - 1), f \in F} \cap (1..(ns - 1))

GEO1Kept ==
  file.magic = "GEO1" =>
    /\ stage = "open" =>
         /\ \A i \in 1..(rc - 1), f \in StringFields(Profile1) :
              Str1(Packed1(i, f)) = Meant(Field(i, f))
         /\ \A i \in 0..(n4 - 1) :
              /\ Start4(GEO1Tables, i) = At(file.starts4, i)
              /\ At(GEO1Tables.v4ids, i) = At(file.ids4, i)
         /\ \A i \in 0..(n6 - 1) :
              /\ Start6(GEO1Tables, i) = Start1(i)
              /\ At(GEO1Tables.v6ids, i) = At(file.ids6, i)
    /\ outcome = "ErrTooLarge" /\ file.size <= MaxFileSize =>
         \/ Cardinality(Needed(Range(U16Fields(Profile1)))) > MaxUint16
         \/ Cardinality(Needed(StringFields(Profile1))) > MaxUint24
=============================================================================
