---------------------------- MODULE StringTable -----------------------------
(***************************************************************************)
(* The records of a build and the strings they share: New, Record and      *)
(* Finish of the Builder (internal/build/build.go), the interner           *)
(* (strings.go), the record keys (record.go) and the extension entries     *)
(* (xrec.go).                                                              *)
(*                                                                         *)
(* A record's fields hold ids of strings, of 16 bits in some fields and of *)
(* 24 in others.  Ids are provisional until Finish renumbers them so that  *)
(* the strings of 16-bit fields come first; until then they are kept in    *)
(* the records, the extension entries, META and LANGS, each of which has   *)
(* to be renumbered.                                                       *)
(*                                                                         *)
(* One field stands for those alike: country and tz for the 16-bit ones,   *)
(* on either side of the 24-bit city in the order they are interned, and   *)
(* alt for the strings of an extension entry.  A string is identified by   *)
(* its content; only its size in bytes matters.                            *)
(***************************************************************************)
EXTENDS Integers, Sequences, FiniteSets

CONSTANTS
  Empty, Strings,    \* the empty string and the others
  Size,              \* bytes of each
  Max16, Max24,      \* maxU16Strings, maxStrings: what an id field can hold
  MaxSize, MaxBlob,  \* the sizes a string and all of them can have
  SourceRecords,     \* what a source may ask to intern
  Metas,             \* the META and LANGS strings a build may have
  MaxRecords         \* bound: calls of Record

ASSUME LimitsAssumption ==
  /\ Empty \notin Strings
  /\ Size \in [Strings \union {Empty} -> Nat] /\ Size[Empty] = 0
  /\ {Max16, Max24, MaxSize, MaxBlob, MaxRecords} \subseteq Nat
  /\ 0 < Max16 /\ Max16 <= Max24

AnyString == Strings \union {Empty}

ASSUME SourceAssumption ==
  /\ SourceRecords \subseteq [country : AnyString, city : AnyString,
                              tz : AnyString, alt : AnyString]
  /\ Metas \subseteq Seq(AnyString)

VARIABLES
  profile, hasX,  \* the build's profile, and whether it has extension entries
  pc,             \* "building", "finished" or "failed"
  table,          \* the interner: its list, and the ids 16-bit fields use
  recs,           \* the record keys, record 0 first
  entries,        \* the extension entries, entry 0 first
  meta,           \* the ids of the META and LANGS strings
  file,           \* what Finish encoded
  given,          \* history: the records interned, and the ids returned
  metaGiven       \* history: the META and LANGS strings

options    == <<profile, hasX>>
stringVars == <<options, pc, table, recs, entries, meta, file, given, metaGiven>>

-----------------------------------------------------------------------------
(* The interner.  Ids count from 0, the empty string's.                    *)
NewInterner == [list |-> <<Empty>>, u16 |-> {0}]

IdOf(t, s) == (CHOOSE k \in DOMAIN t.list : t.list[k] = s) - 1

(* id: the table with s in it. *)
Intern(t, s) ==
  IF \E k \in DOMAIN t.list : t.list[k] = s THEN t
  ELSE [t EXCEPT !.list = Append(@, s)]

(* id16 *)
Intern16(t, s) ==
  LET with == Intern(t, s) IN [with EXCEPT !.u16 = @ \union {IdOf(with, s)}]

(* Strings interned one after the other. *)
Interned(strings) ==
  LET T[k \in 0..Len(strings)] ==
        IF k = 0 THEN NewInterner ELSE Intern(T[k - 1], strings[k])
  IN  T[Len(strings)]

(* What a build keeps of a record; the city stands for the organization of *)
(* an ASN record.                                                          *)
Kept(r) ==
  [country |-> IF profile = "asn" THEN Empty ELSE r.country,
   city    |-> IF profile = "country" THEN Empty ELSE r.city,
   tz      |-> IF profile = "city" THEN r.tz ELSE Empty,
   alt     |-> IF hasX THEN r.alt ELSE Empty]

-----------------------------------------------------------------------------
(* newXTable: no entries at all for ASN records; entry 0 is the empty one. *)
MayHaveX    == IF profile = "asn" THEN {FALSE} ELSE BOOLEAN
EmptyXTable == <<0>>

(* New: the META and LANGS strings are interned first. *)
StringsInit ==
  /\ profile \in {"asn", "country", "city"}
  /\ hasX \in MayHaveX
  /\ metaGiven \in Metas
  /\ table = Interned(metaGiven)
  /\ meta = [k \in DOMAIN metaGiven |-> IdOf(table, metaGiven[k])]
  /\ pc = "building"
  /\ recs = <<[country |-> 0, city |-> 0, tz |-> 0, ext |-> 0]>>
  /\ entries = EmptyXTable
  /\ file = [strings |-> <<>>, records |-> <<>>, xrecords |-> <<>>,
             meta |-> <<>>]
  /\ given = <<>>

(* The place of x in a table of distinct things, last if it is new. *)
PlaceIn(seq, x) ==
  IF \E k \in DOMAIN seq : seq[k] = x
  THEN CHOOSE k \in DOMAIN seq : seq[k] = x ELSE Len(seq) + 1
Added(seq, x) ==
  IF \E k \in DOMAIN seq : seq[k] = x THEN seq ELSE Append(seq, x)

(* Record.key: the strings of the base fields, in this order. *)
Keyed(k) == Intern16(Intern(Intern16(table, k.country), k.city), k.tz)

(* xTable.add: the table after it, the entries, and the entry's index.     *)
(* Without extension entries k.alt is empty, and nothing is added.         *)
AddEntry(t, k) ==
  LET with  == Intern(t, k.alt)
      entry == IdOf(with, k.alt)
  IN  [table |-> with, entries |-> Added(entries, entry),
       index |-> PlaceIn(entries, entry) - 1]

(* Builder.Record, with Record.key and xTable.add.  Record 0, of the gaps,  *)
(* is none of those that equal ones are looked for in.                     *)
Record(r) ==
  LET k   == Kept(r)
      x   == AddEntry(Keyed(k), k)
      key == [country |-> IdOf(x.table, k.country),
              city |-> IdOf(x.table, k.city), tz |-> IdOf(x.table, k.tz),
              ext |-> x.index]
  IN
  /\ pc = "building" /\ Len(given) < MaxRecords
  /\ table' = x.table
  /\ entries' = x.entries
  /\ recs' = <<recs[1]>> \o Added(Tail(recs), key)
  /\ given' = Append(given, [rec |-> r, id |-> PlaceIn(Tail(recs), key)])
  /\ UNCHANGED <<options, pc, meta, file, metaGiven>>

-----------------------------------------------------------------------------
(* interner.finish: those of 16-bit fields first, each group in order. *)
NU16     == Cardinality(table.u16)
NStrings == Len(table.list)
Ids      == 0..(NStrings - 1)

Remap(p) ==
  IF p \in table.u16
  THEN Cardinality({q \in table.u16 : q < p})
  ELSE NU16 + Cardinality({q \in Ids \ table.u16 : q < p})

Strs == [k \in 1..NStrings |->
           table.list[(CHOOSE p \in Ids : Remap(p) = k - 1) + 1]]

(* checkStrings, checkStringCounts *)
Blob ==
  LET Bytes[k \in 0..NStrings] ==
        IF k = 0 THEN 0 ELSE Bytes[k - 1] + Size[table.list[k]]
  IN  Bytes[NStrings]

TooLong == \E k \in DOMAIN table.list : Size[table.list[k]] > MaxSize

(* Mutant: the empty string is not counted. *)
TooManyNonEmpty == NU16 - 1 > Max16 \/ NStrings - 1 > Max24 \/ Blob > MaxBlob

TooMany == NU16 > Max16 \/ NStrings > Max24 \/ Blob > MaxBlob

FinishFails ==
  /\ pc = "building"
  /\ TooLong \/ TooMany
  /\ pc' = "failed"
  /\ UNCHANGED <<options, table, recs, entries, meta, file, given, metaGiven>>

(* packRecord keeps the bits a field has. *)
Packed(k) ==
  [country |-> Remap(k.country) % Max16, city |-> Remap(k.city) % Max24,
   tz |-> Remap(k.tz) % Max16]

(* Mutant: the entry's ids are left as they are. *)
AppendEntryRaw(k) == entries[k.ext + 1] % Max24

(* xTable.appendEntry *)
AppendEntry(k) == Remap(entries[k.ext + 1]) % Max24

(* encode: the strings in order, a record and an extension entry per key,  *)
(* META and LANGS.                                                         *)
Encoded ==
  [strings  |-> Strs,
   records  |-> [k \in DOMAIN recs |-> Packed(recs[k])],
   xrecords |-> [k \in DOMAIN recs |->
                   IF hasX THEN AppendEntry(recs[k]) ELSE 0],
   meta     |-> [k \in DOMAIN meta |-> Remap(meta[k])]]

Finish ==
  /\ pc = "building"
  /\ ~TooLong /\ ~TooMany
  /\ pc' = "finished"
  /\ file' = Encoded
  /\ UNCHANGED <<options, table, recs, entries, meta, given, metaGiven>>

StringsNext == (\E r \in SourceRecords : Record(r)) \/ FinishFails \/ Finish

StringsSpec == StringsInit /\ [][StringsNext]_stringVars

-----------------------------------------------------------------------------
(* Properties *)

(* Every id is that of a string, of a record or of an entry; in the file,  *)
(* those of 16-bit fields are "below maxU16Strings" (encode.go:171), among *)
(* the strings put first.                                                  *)
StringsTypeOK ==
  /\ pc \in {"building", "finished", "failed"}
  /\ table.list \in Seq(AnyString) /\ table.u16 \subseteq Ids
  /\ \A k \in DOMAIN recs :
       /\ {recs[k].country, recs[k].tz} \subseteq table.u16 /\ recs[k].city \in Ids
       /\ recs[k].ext + 1 \in DOMAIN entries
  /\ \A k \in DOMAIN entries : entries[k] \in Ids
  /\ \A k \in DOMAIN given : given[k].id \in 1..(Len(recs) - 1)
  /\ \A k \in DOMAIN file.records :
       {file.records[k].country, file.records[k].tz} \subseteq 0..(NU16 - 1)

(* What the Reader decodes of record id. *)
Decoded(id) ==
  LET String(n) == file.strings[n + 1]
      r         == file.records[id + 1]
  IN  [country |-> String(r.country), city |-> String(r.city),
       tz |-> String(r.tz), alt |-> String(file.xrecords[id + 1])]

(* "Interns r and returns its record id, which is never 0.  Records that   *)
(* are equal in every field the build keeps get the same id" (build.go:     *)
(* 275), others get another, and what the file holds under an id is what   *)
(* the build keeps of the record; META and LANGS are what they were.       *)
RecordsKept ==
  /\ \A c, d \in DOMAIN given :
       given[c].id = given[d].id <=> Kept(given[c].rec) = Kept(given[d].rec)
  /\ \A c \in DOMAIN given : given[c].id # 0
  /\ pc = "finished" =>
       /\ \A c \in DOMAIN given : Decoded(given[c].id) = Kept(given[c].rec)
       /\ \A k \in DOMAIN meta : file.strings[file.meta[k] + 1] = metaGiven[k]

(* A build fails exactly when its strings do not fit: more of them in      *)
(* 16-bit fields than a field can tell apart, more in all ("every string   *)
(* the builder stores is used by a record or by META", strings.go:14), or  *)
(* too many bytes.                                                         *)
RefusesOnlyTooMany ==
  LET K      == {Kept(given[c].rec) : c \in DOMAIN given}
      narrow == {Empty} \union (UNION {{k.country, k.tz} : k \in K})
      all    == narrow \union (UNION {{k.city, k.alt} : k \in K})
                \union {metaGiven[k] : k \in DOMAIN metaGiven}
      bytes  == Cardinality(UNION {{s} \X (1..Size[s]) : s \in all})
      fits   == /\ Cardinality(narrow) <= Max16 /\ Cardinality(all) <= Max24
                /\ bytes <= MaxBlob /\ \A s \in all : Size[s] <= MaxSize
  IN  pc # "building" => (pc = "finished" <=> fits)
=============================================================================
