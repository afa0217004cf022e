---------------------------- MODULE Geo2Validate ----------------------------
(***************************************************************************)
(* parseGEO2 (geo2.go): the checks an arbitrary GEO2 input goes through,   *)
(* one action per check and in their order, and reader, which binds what   *)
(* passed to a Reader.  A check reads only what those before it made safe  *)
(* to read: Reads is what each of them reads before it returns, and the    *)
(* last of it what any later lookup may.                                   *)
(***************************************************************************)
EXTENDS Input

-----------------------------------------------------------------------------
(* Sections.  checkDirectory records where the known ones are.             *)

hdr    == file.hdr
Dir(k) == Elt(file.dir, k - 1, [id |-> 0, off |-> 0, len |-> 0, crcOK |-> FALSE])
Entries == 1..hdr.count

Has(id)  == \E k \in DOMAIN file.dir : k <= hdr.count /\ file.dir[k].id = id
Span(id) ==
  IF Has(id) THEN LET k == CHOOSE k \in DOMAIN file.dir : k <= hdr.count /\ file.dir[k].id = id
                  IN [off |-> file.dir[k].off, n |-> file.dir[k].len]
             ELSE [off |-> 0, n |-> 0]
N(id) == Span(id).n

nStrings == (N(SecStrIdx) \div 4) - 1
nRecords == N(SecRecords) \div RecordWidth(hdr.profile)
nV4      == N(SecV4Starts) \div 2
nV6      == N(SecV6Starts) \div 8
nExc     == N(SecV6ExcIdx) \div 4

StrIdx(i)   == At(file.stridx, i)
V4Idx(g)    == At(file.v4idx, g)
V4Start(i)  == At(file.v4starts, i)
ExcIdx(j)   == At(file.v6excIdx, j)
ExcLo(j)    == At(file.v6excLo, j)
Lang(j)     == At(file.langs, j)
Bytes(i)    == [k \in 1..(StrIdx(i + 1) - StrIdx(i)) |-> At(file.blob, StrIdx(i) + k - 1)]

(* A record: its 16-bit string ids, its 24-bit one, and the rest of it. *)
ZeroRecord  == [narrow |-> <<>>, wide |-> 0, rest |-> 0]
Rec(i)      == Elt(file.recs, i, ZeroRecord)
NarrowCount(p) == <<3, 5, 6, 0>>[p + 1]
HasWide(p)  == p \in {City, ASN}
NarrowIds(i) == {At(Rec(i).narrow, f) % (MaxUint16 + 1) : f \in 0..(NarrowCount(hdr.profile) - 1)}
WideIds(i)   == IF HasWide(hdr.profile) THEN {Rec(i).wide} ELSE {}
AllZero(r)  == Range(r.narrow) \subseteq {0} /\ r.wide = 0 /\ r.rest = 0

(* An extension entry: the u24 string ids by their offsets, the field sets *)
(* whose flags have an undefined bit, and the rest of it.                  *)
ZeroEntry   == [ids |-> <<>>, undefined |-> {}, rest |-> 0]
XEntry(i)   == Elt(file.xrecs, i, ZeroEntry)
IdAt(e, o)  == IF o \in DOMAIN e.ids THEN e.ids[o] ELSE 0

(* What the bytes of a GEO2 input can hold. *)
Words64 == 0..(Word64 - 1)
IsGEO2(f) ==
  /\ f.hdr \in [version : Nat, profile : Nat, scale : Nat, idWidth : Nat, count : Nat, reserved : Nat]
  /\ f.dir \in Seq([id : Nat, off : Words64, len : Words64, crcOK : BOOLEAN])
  /\ f.meta.ids \subseteq Nat /\ f.meta.language \in f.meta.ids
  /\ f.recs \in Seq([narrow : Seq(Nat), wide : Nat, rest : Nat])
  /\ \A e \in Range(f.xrecs) : Range(e.ids) \subseteq Nat
  /\ f.v4starts \in Seq(0..(BucketSize - 1))
  /\ {f.stridx, f.v4idx, f.v4ids, f.v6starts, f.v6ids, f.v6excIdx, f.v6excLo, f.langs} \subseteq Seq(Nat)

(* The GEO2 check a step makes. *)
GEO2At(step) == file.magic = "GEO2" /\ stage = step /\ UNCHANGED off

-----------------------------------------------------------------------------
(* parseGEO2: the header. *)
HeaderOK ==
  /\ hdr.profile \in Profiles /\ hdr.scale <= 7
  /\ hdr.idWidth \in 1..4 /\ hdr.reserved = 0

ParseHeader ==
  /\ GEO2At("header")
  /\ IF file.size < HeaderSize THEN Refuse("ErrCorrupt")
     ELSE IF hdr.version # 2 THEN Refuse("ErrUnsupportedVersion")
     ELSE Check(HeaderOK, "directory")

(* checkDirectory: an entry starts at or after the end of the one before   *)
(* it, and the sum that ends it is formed once it is known to fit.         *)
DirectoryEnd == HeaderSize + hdr.count * DirEntrySize

EndBefore(k) ==
  IF k = 1 THEN DirectoryEnd ELSE (Dir(k - 1).off + Dir(k - 1).len) % Word64

(* A mutant: the sum is compared, wrapped or not. *)
FitsSum(e) == (e.off + e.len) % Word64 <= file.size
Fits(e) == e.len <= file.size /\ e.off <= file.size - e.len

EntryOK(k) ==
  /\ Dir(k).off % 8 = 0
  /\ Dir(k).off >= EndBefore(k)
  /\ Fits(Dir(k))
  /\ Dir(k).id \in KnownIDs => \A j \in 1..(k - 1) : Dir(j).id # Dir(k).id

DirectoryOK ==
  /\ DirectoryEnd <= file.size
  /\ \A k \in Entries : EntryOK(k)
  /\ \A id \in RequiredIDs : Has(id)

CheckDirectory == GEO2At("directory") /\ Check(DirectoryOK, "lengths")

LengthsOK ==
  /\ N(SecMeta) = MetaSize
  /\ N(SecStrIdx) >= 4 /\ N(SecStrIdx) % 4 = 0
  /\ N(SecRecords) % RecordWidth(hdr.profile) = 0
  /\ N(SecV4Idx) = (Buckets + 1) * 4
  /\ N(SecV4Starts) % 2 = 0 /\ N(SecV4IDs) = nV4 * hdr.idWidth
  /\ N(SecV6Starts) % 8 = 0 /\ N(SecV6IDs) = nV6 * hdr.idWidth
  /\ N(SecV6ExcIdx) % 4 = 0 /\ N(SecV6ExcLo) = nExc * 8

CheckLengths == GEO2At("lengths") /\ Check(LengthsOK, "crc")

CheckCRC ==
  /\ GEO2At("crc")
  /\ Check(skipCRC \/ \A k \in Entries : Dir(k).crcOK, "meta")

ParseMeta == GEO2At("meta") /\ Check(file.meta.reserved = 0, "strings")

-----------------------------------------------------------------------------
StringsOK ==
  /\ StrIdx(0) = 0
  /\ \A i \in 1..nStrings : StrIdx(i - 1) <= StrIdx(i)
  /\ StrIdx(nStrings) = N(SecStrBlob)
  /\ nStrings > 0 => StrIdx(1) = 0
  /\ \A m \in file.meta.ids : m < nStrings

CheckStrings == GEO2At("strings") /\ Check(StringsOK, "records")

(* checkRecords: 16-bit ids need no check once every one of them is an id. *)
(* A mutant: an off-by-one at the last 16-bit id. *)
EveryUint16Early == nStrings >= MaxUint16
EveryUint16 == nStrings > MaxUint16

IdsInRecord(i) ==
  /\ EveryUint16 \/ \A id \in NarrowIds(i) : id < nStrings
  /\ \A id \in WideIds(i) : id < nStrings

RecordsOK ==
  /\ nRecords > 0
  /\ AllZero(Rec(0))
  /\ \A i \in 1..(nRecords - 1) : IdsInRecord(i)
  /\ hdr.idWidth = IDWidth(nRecords)
  /\ \A i \in 0..(nV4 - 1) : At(file.v4ids, i) < nRecords
  /\ \A i \in 0..(nV6 - 1) : At(file.v6ids, i) < nRecords

CheckRecords == GEO2At("records") /\ Check(RecordsOK, "ipv4")

(* checkIPv4: a bucket's bounds are compared before its starts are read. *)
BoundsOK(g) == V4Idx(g) <= V4Idx(g + 1) /\ V4Idx(g + 1) <= nV4

BucketOK(g) ==
  /\ BoundsOK(g)
  /\ \A i \in (V4Idx(g) + 1)..(V4Idx(g + 1) - 1) : V4Start(i - 1) < V4Start(i)

EndsOK == V4Idx(Buckets) = nV4 /\ V4Idx(0) = 0
IPv4OK == EndsOK /\ \A g \in 0..(Buckets - 1) : BucketOK(g)

CheckIPv4 == GEO2At("ipv4") /\ Check(IPv4OK, "ipv6")

(* checkIPv6: the exceptions first, so that the walk over the starts meets *)
(* each in turn.                                                           *)
ExceptionOK(j) ==
  /\ ExcIdx(j) < nV6
  /\ j > 0 => ExcIdx(j - 1) < ExcIdx(j)
  /\ ExcLo(j) # 0

Start128(i) ==
  <<At(file.v6starts, i),
    IF \E j \in 0..(nExc - 1) : ExcIdx(j) = i
    THEN ExcLo(CHOOSE j \in 0..(nExc - 1) : ExcIdx(j) = i) ELSE 0>>

IPv6OK ==
  /\ \A j \in 0..(nExc - 1) : ExceptionOK(j)
  /\ \A i \in 1..(nV6 - 1) : Less128(Start128(i - 1), Start128(i))

CheckIPv6 == GEO2At("ipv6") /\ Check(IPv6OK, "extensions")

-----------------------------------------------------------------------------
(* checkExtensions: rules 10 and 9, then each count before it is used. *)
hasF == Has(SecXFields)

PresenceOK ==
  /\ hdr.profile = ASN => ~(hasF \/ Has(SecXRecords) \/ Has(SecLangs))
  /\ hasF = Has(SecXRecords)
  /\ Has(SecLangs) => hasF

fields == IF hasF THEN file.xfields.bits ELSE {}
nLangs == IF Has(SecLangs) THEN N(SecLangs) \div 4 ELSE 1

XFieldsOK == N(SecXFields) = XFieldsSize /\ file.xfields.reserved = 0

XRecordsWidth ==
  (Width(hdr.profile, fields, 1)
     + (nLangs - 1) * 3 * Len(Kinds(hdr.profile, fields))) % Word64

CountsOK ==
  /\ CheckFields(hdr.profile, fields)
  /\ Has(SecLangs) => N(SecLangs) % 4 = 0 /\ nLangs >= 2
  /\ N(SecXRecords) = (XRecordsWidth * nRecords) % Word64

CheckExtensions ==
  /\ GEO2At("extensions")
  /\ IF ~PresenceOK THEN Refuse("ErrCorrupt")
     ELSE IF ~hasF THEN PassTo("reader")
     ELSE IF ~XFieldsOK THEN Refuse("ErrCorrupt")
     ELSE IF ~(fields \subseteq KnownFields) THEN Refuse("ErrUnsupportedVersion")
     ELSE Check(CountsOK, IF Has(SecLangs) THEN "langs" ELSE "xrecords")

(* checkLangs: languages are told apart by their strings, not their ids. *)
LangOK(j) ==
  /\ Lang(j) < nStrings
  /\ Bytes(Lang(j)) # <<>>
  /\ \A k \in 0..(j - 1) : Bytes(Lang(k)) # Bytes(Lang(j))

LangsOK ==
  /\ \A j \in 0..(nLangs - 1) : LangOK(j)
  /\ Bytes(Lang(0)) = Bytes(file.meta.language)

CheckLangs == GEO2At("langs") /\ Check(LangsOK, "xrecords")

(* checkXRecords: where an entry holds string ids, and the entries. *)
entryWidth == Width(hdr.profile, fields, nLangs)

IdOffsets ==
  (UNION {{FieldOff(fields, b) + o : o \in StringsIn(b)} : b \in fields})
    \union {o \in LangOff(fields)..(entryWidth - 1) : (o - LangOff(fields)) % 3 = 0}
FlagOffsets == UNION {{FieldOff(fields, b) + o : o \in FlagByteIn(b)} : b \in fields}
XIds(i)     == {IdAt(XEntry(i), o) : o \in IdOffsets}

EntryIsZero(e) == Range(e.ids) \subseteq {0} /\ e.undefined = {} /\ e.rest = 0

XRecordsOK ==
  entryWidth > 0 =>
    /\ EntryIsZero(XEntry(0))
    /\ \A i \in 1..(nRecords - 1) :
         /\ \A id \in XIds(i) : id < nStrings
         /\ XEntry(i).undefined \cap fields = {}

CheckXRecords == GEO2At("xrecords") /\ Check(XRecordsOK, "reader")

(* reader: bind the sections, copy the strings and build the indexes. *)
Bind == GEO2At("reader") /\ PassTo("open")

Parse ==
  \/ ParseHeader \/ CheckDirectory \/ CheckLengths \/ CheckCRC \/ ParseMeta
  \/ CheckStrings \/ CheckRecords \/ CheckIPv4 \/ CheckIPv6
  \/ CheckExtensions \/ CheckLangs \/ CheckXRecords \/ Bind

GEO2Tables ==
  [v4idx |-> file.v4idx, v4starts |-> file.v4starts, v4ids |-> file.v4ids,
   v6starts |-> file.v6starts, v6ids |-> file.v6ids,
   v6excIdx |-> file.v6excIdx, v6excLo |-> file.v6excLo,
   nStrings |-> nStrings, nRecords |-> nRecords, nV4 |-> nV4, nV6 |-> nV6, nExc |-> nExc,
   stringsOf |-> [i \in 0..(nRecords - 1) |->
                    NarrowIds(i) \union WideIds(i) \union (IF hasF THEN XIds(i) ELSE {})]]
=============================================================================
