--------------------------- MODULE Geo1Transcode ----------------------------
(***************************************************************************)
(* openGEO1 (geo1.go): the checks a GEO1 input goes through, a section at  *)
(* a time, and transcode, which rewrites what passed in the layout of a    *)
(* GEO2 Reader: strings renumbered so that those of 16-bit fields come     *)
(* first, IPv4 starts split over V4IDX, IPv6 low halves as exceptions.     *)
(* A GEO1 record is a sequence of u32 fields, an IPv6 start a pair.        *)
(***************************************************************************)
EXTENDS Input, Tables

CONSTANT MaxUint24   \* the greatest id in a 24-bit field

ASSUME Uint24Assumption == MaxUint24 \in Nat

HeaderLen   == 8
FieldCount(p) == <<4, 6, 12>>[p + 1]
RecWidth(p) == 4 * FieldCount(p)
CityField   == 6
U16Fields(p) ==
  <<0, 1, 2>> \o (IF p >= Region THEN <<4, 5>> ELSE <<>>)
              \o (IF p >= City THEN <<11>> ELSE <<>>)

Profile1 == file.hdr.profile
ns == file.ns
rc == file.rc
n4 == file.n4
n6 == file.n6

(* What the bytes of a GEO1 input can hold. *)
IsGEO1(f) ==
  /\ {f.hdr.profile, f.ns, f.rc, f.rw, f.n4, f.n6} \subseteq Nat
  /\ f.strs \in Seq([n : Nat, text : STRING]) /\ f.recs \in Seq(Seq(Nat))
  /\ f.starts4 \in Seq(0..(Buckets * BucketSize - 1)) /\ f.starts6 \in Seq(Nat \X Nat)
  /\ f.ids4 \in Seq(Nat) /\ f.ids6 \in Seq(Nat)

-----------------------------------------------------------------------------
(* The cursor: take gives the next count*width bytes, if they are left.    *)
Left(o)               == file.size - o
Taken(count, width)   == (count * width) % Word64
Takes(o, count, width) == Taken(count, width) <= Left(o)

Str(o)          == Elt(file.strs, o, [n |-> 0, text |-> ""])
StringEnd(o, i) ==
  LET End[j \in 0..i] == IF j = 0 THEN o ELSE End[j - 1] + 2 + Str(j - 1).n IN End[i]

Advance(ok, next, end) ==
  /\ Check(ok, next)
  /\ off' = IF ok THEN end ELSE off

GEO1At(step) == file.magic = "GEO1" /\ stage = step

Header1OK ==
  /\ file.hdr.profile \in Country..City /\ file.hdr.scale <= 7
  /\ file.hdr.reserved = 0

CheckHeader1 ==
  /\ GEO1At("header")
  /\ IF file.size < HeaderLen THEN Refuse("ErrCorrupt") /\ UNCHANGED off
     ELSE IF file.hdr.version # 1 THEN Refuse("ErrUnsupportedVersion") /\ UNCHANGED off
     ELSE Advance(Header1OK, "strings", HeaderLen)

(* Each string takes at least its length, which bounds their count. *)
StringCountOK == Takes(off, 1, 4) /\ ns <= Left(off + 4) \div 2

Strings1OK == StringCountOK /\ StringEnd(off + 4, ns) <= file.size

ParseStrings1 == GEO1At("strings") /\ Advance(Strings1OK, "records", StringEnd(off + 4, ns))

Records1OK ==
  /\ Takes(off, 1, 6)
  /\ rc > 0 /\ file.rw = RecWidth(Profile1)
  /\ Takes(off + 6, rc, file.rw)

ParseRecords1 ==
  GEO1At("records") /\ Advance(Records1OK, "ipv4", off + 6 + Taken(rc, file.rw))

(* A table of n starts of a width and as many ids. *)
TableFits(n, width) ==
  /\ Takes(off, 1, 4) /\ Takes(off + 4, n, width)
  /\ Takes(off + 4 + Taken(n, width), n, 4)
TableEnd(n, width) == off + 4 + Taken(n, width) + Taken(n, 4)

IdsBelow(ids, n) == \A i \in 0..(n - 1) : At(ids, i) < rc

Start1(i)  == Elt(file.starts6, i, <<0, 0>>)
Ascending4 == \A i \in 1..(n4 - 1) : At(file.starts4, i - 1) < At(file.starts4, i)
Ascending6 == \A i \in 1..(n6 - 1) : Less128(Start1(i - 1), Start1(i))

ParseIPv4 ==
  GEO1At("ipv4") /\ Advance(TableFits(n4, 4) /\ Ascending4 /\ IdsBelow(file.ids4, n4),
                         "ipv6", TableEnd(n4, 4))

ParseIPv6 ==
  GEO1At("ipv6") /\ Advance(TableFits(n6, 16) /\ Ascending6 /\ IdsBelow(file.ids6, n6),
                         "trailing", TableEnd(n6, 16))

CheckTrailing == GEO1At("trailing") /\ Advance(Left(off) = 0, "transcode", off)

-----------------------------------------------------------------------------
(* transcode: strings get ids in the order their first use is met, column  *)
(* by column; of 0, and of an id past the table, there is no string.       *)
Field(i, f) == At(Elt(file.recs, i, <<>>), f)

(* A mutant: a string gets an id at every use. *)
AssignAgain(used, o) == IF o = 0 \/ o >= ns THEN used ELSE Append(used, o)

Assign(used, o) ==
  IF o = 0 \/ o >= ns \/ Contains(used, o) THEN used ELSE Append(used, o)

AssignColumn(used, f) ==
  LET Col[i \in 0..(rc - 1)] == IF i = 0 THEN used ELSE Assign(Col[i - 1], Field(i, f))
  IN  Col[rc - 1]

Used16 ==
  LET F == U16Fields(Profile1)
      Cols[c \in 0..Len(F)] == IF c = 0 THEN <<>> ELSE AssignColumn(Cols[c - 1], F[c])
  IN  Cols[Len(F)]
UsedStrings == IF Profile1 >= City THEN AssignColumn(Used16, CityField) ELSE Used16

TooManyStrings ==
  \/ Len(Used16) + 1 > MaxUint16 + 1
  \/ Profile1 >= City /\ Len(UsedStrings) + 1 > MaxUint24 + 1

MapStr(o) ==
  IF o < ns /\ \E id \in DOMAIN UsedStrings : UsedStrings[id] = o
  THEN CHOOSE id \in DOMAIN UsedStrings : UsedStrings[id] = o ELSE 0

Str1(id) == IF id = 0 THEN "" ELSE Str(UsedStrings[id]).text

(* What a field of the new record holds: 16 or 24 bits of the new id. *)
Packed1(i, f) ==
  MapStr(Field(i, f)) % (IF f = CityField THEN MaxUint24 + 1 ELSE MaxUint16 + 1)

StringFields(p) == Range(U16Fields(p)) \union (IF p >= City THEN {CityField} ELSE {})

(* V4IDX[b] is the first start at or above bucket b. *)
FirstAtOrAbove(b) ==
  Min({i \in 0..(n4 - 1) : At(file.starts4, i) \div BucketSize >= b} \union {n4})

Low6(i)    == Start1(i)[2]
WithLow    == ExceptionsOf([i \in 1..n6 |-> Low6(i - 1)])

GEO1Tables ==
  [v4idx |-> [b \in 1..(Buckets + 1) |-> FirstAtOrAbove(b - 1)],
   v4starts |-> [i \in 1..n4 |-> At(file.starts4, i - 1) % BucketSize],
   v4ids |-> [i \in 1..n4 |-> At(file.ids4, i - 1)],
   v6starts |-> [i \in 1..n6 |-> Start1(i - 1)[1]],
   v6ids |-> [i \in 1..n6 |-> At(file.ids6, i - 1)],
   v6excIdx |-> WithLow, v6excLo |-> [e \in DOMAIN WithLow |-> Low6(WithLow[e])],
   nStrings |-> Len(UsedStrings) + 1, nRecords |-> rc, nV4 |-> n4, nV6 |-> n6, nExc |-> Len(WithLow),
   stringsOf |-> [i \in 0..(rc - 1) |->
                    IF i = 0 THEN {0} ELSE {Packed1(i, f) : f \in StringFields(Profile1)}]]

Transcode ==
  /\ GEO1At("transcode") /\ UNCHANGED off
  /\ IF TooManyStrings THEN Refuse("ErrTooLarge") ELSE PassTo("open")

Convert ==
  \/ CheckHeader1 \/ ParseStrings1 \/ ParseRecords1 \/ ParseIPv4
  \/ ParseIPv6 \/ CheckTrailing \/ Transcode
=============================================================================
