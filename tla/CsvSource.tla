----------------------------- MODULE CsvSource ------------------------------
(***************************************************************************)
(* How csvdb turns the rows of a CSV file into the ranges it adds to a     *)
(* build: readSource (csvdb/csvdb.go) and the reader of csvdb/reader.go.   *)
(*                                                                         *)
(* Rows must ascend and not overlap.  A row of a text file may be of       *)
(* either family; the numbers of a decimal file (an IP2Location one, with  *)
(* geo or ASN data) are all IPv4 or all IPv6.                              *)
(* IPv4-mapped rows become IPv4 ranges, so that two kinds of rows meet in  *)
(* the IPv4 table, and the other IPv6 blocks the Reader answers from that  *)
(* table (the alias blocks) are left out of the IPv6 one.                  *)
(*                                                                         *)
(* The text of a row's columns is a key, an element of Keys: the record it *)
(* decodes to is its own, and NoData marks a row without data.             *)
(***************************************************************************)
EXTENDS Integers, Sequences, FiniteSets

CONSTANTS
  Top4, Top6,     \* the last address of each family
  Blocks,         \* aliasBlocks: [first, last, v4], in address order
  Keys, BadKeys,  \* the texts of the key columns; those fill refuses
  NoData,         \* the key of a row without data (layout.none)
  OneField,       \* the key of a line that is a single field
  MaxRows         \* bound: rows of a file

ASSUME TopAssumption == Top4 \in Nat /\ Top6 \in Nat /\ Top4 <= Top6

ASSUME KeysAssumption ==
  BadKeys \subseteq Keys /\ NoData \notin Keys
  /\ OneField \notin Keys \union {NoData}

(* The blocks ascend and do not reach the last address; one at most is the *)
(* mapped one, and has an address for each IPv4 address.                   *)
ASSUME BlocksAssumption ==
  /\ Blocks \in Seq([first : 0..Top6, last : 0..(Top6 - 1), v4 : BOOLEAN])
  /\ \A b \in DOMAIN Blocks :
       /\ Blocks[b].first <= Blocks[b].last
       /\ Blocks[b].v4 => Blocks[b].last - Blocks[b].first = Top4
       /\ \A c \in DOMAIN Blocks :
            /\ b < c => Blocks[b].last < Blocks[c].first
            /\ Blocks[b].v4 /\ Blocks[c].v4 => b = c

ASSUME MaxRowsAssumption == MaxRows \in Nat

Families  == {4, 6}
Addresses == [fam : {4}, a : 0..Top4] \union [fam : {6}, a : 0..Top6]
None      == -1   \* an invalid netip.Addr, below every address

VARIABLES
  layout, v6,   \* "text", "ip2l" or "ip2lASN"; reader.v6
  pc,           \* open, row, add, next, done, failed with err, or panicked
  err,          \* why a build failed: "syntax", "order"
  row,          \* the current row
  prev,         \* reader.prev: the last address of each family's last row
  end,          \* reader.end4, end6: the last address added to each family
  ids,          \* reader.ids: the keys decoded, in the order of their ids
  cur, blk,     \* add's variables
  added,        \* the ranges added to the build, per family
  rows          \* history: the rows read before the current one

source == <<layout, v6, row>>
vars   == <<source, pc, err, prev, end, ids, cur, blk, added, rows>>

Decimal == layout # "text"

(* The rows a file may hold: well-formed or not. *)
Short == LET x == [fam |-> 6, a |-> 0]
         IN  [first |-> x, last |-> x, key |-> OneField]
RowsOf(lay) ==
  LET A == IF lay = "text" THEN Addresses ELSE [fam : {6}, a : 0..Top6]
  IN  [first : A, last : A, key : Keys \union {NoData}] \union {Short}

Init ==
  /\ layout \in {"text", "ip2l", "ip2lASN"}
  /\ v6 = FALSE
  /\ pc = "open" /\ err = "none"
  /\ row \in RowsOf(layout)
  /\ prev = [f \in Families |-> None] /\ end = [f \in Families |-> None]
  /\ ids = <<>>
  /\ cur = 0 /\ blk = 1
  /\ added = [f \in Families |-> {}]
  /\ rows = {}

Fail(why) ==
  /\ pc' = "failed" /\ err' = why
  /\ UNCHANGED <<source, prev, end, ids, cur, blk, added, rows>>

-----------------------------------------------------------------------------
(* readSource: the number of fields of the first row tells which of the    *)
(* IP2Location geo layouts a file has; a decimal file is IPv6 by its name  *)
(* or by the second field of its first row, which an ASN file's is not     *)
(* known to have.                                                          *)
RefuseFirstRow ==
  /\ pc = "open" /\ layout = "ip2l" /\ row = Short
  /\ Fail("syntax")

Panic ==
  /\ pc = "open" /\ layout = "ip2lASN" /\ row = Short
  /\ pc' = "panicked"
  /\ UNCHANGED <<source, err, prev, end, ids, cur, blk, added, rows>>

EndsAboveV4 == row # Short /\ row.last.a > Top4

Open ==
  /\ pc = "open"
  /\ \E named6 \in BOOLEAN :
       /\ row = Short => layout = "text" \/ (layout = "ip2lASN" /\ named6)
       /\ v6' = (Decimal /\ (named6 \/ EndsAboveV4))
  /\ pc' = "row"
  /\ UNCHANGED <<layout, row, err, prev, end, ids, cur, blk, added, rows>>

(* addr *)
BadAddress(x) == Decimal /\ ~v6 /\ x.a > Top4
Addr(x)       == IF Decimal /\ ~v6 THEN [fam |-> 4, a |-> x.a] ELSE x

First == Addr(row.first)
Last  == Addr(row.last)
Fam   == First.fam

(* bounds and the field count *)
BadBounds ==
  \/ row = Short
  \/ BadAddress(row.first) \/ BadAddress(row.last)
  \/ First.fam # Last.fam
  \/ Last.a < First.a

Above == prev[Fam] < First.a

InBlock(b, f, a) == Blocks[b].first <= f /\ a <= Blocks[b].last

(* unread: the row lies in one alias block whose data is not stored. *)
Unread ==
  Fam = 6 /\ \E b \in DOMAIN Blocks :
                ~Blocks[b].v4 /\ InBlock(b, First.a, Last.a)

RefuseBounds == pc = "row" /\ BadBounds /\ Fail("syntax")
RefuseOrder  == pc = "row" /\ ~BadBounds /\ ~Above /\ Fail("order")

Checked ==
  /\ pc = "row" /\ ~BadBounds /\ Above
  /\ prev' = [prev EXCEPT ![Fam] = Last.a]

SkipRow ==
  /\ Checked
  /\ row.key = NoData \/ Unread
  /\ pc' = "next"
  /\ UNCHANGED <<source, err, end, ids, cur, blk, added, rows>>

Known == \E k \in DOMAIN ids : ids[k] = row.key

(* fill fails, on a key not seen before *)
RefuseFill ==
  /\ pc = "row" /\ ~BadBounds /\ Above
  /\ row.key # NoData /\ ~Unread
  /\ ~Known /\ row.key \in BadKeys
  /\ Fail("syntax")

(* The id of the row's record, and the start of add. *)
StartAdd ==
  /\ Checked
  /\ row.key # NoData /\ ~Unread
  /\ Known \/ row.key \notin BadKeys
  /\ ids' = IF Known THEN ids ELSE Append(ids, row.key)
  /\ pc' = "add" /\ cur' = First.a /\ blk' = 1
  /\ UNCHANGED <<source, err, end, added, rows>>

-----------------------------------------------------------------------------
(* add splits an IPv6 range at the alias blocks. *)
Id    == CHOOSE k \in DOMAIN ids : ids[k] = row.key
Block == Blocks[blk]

(* Mutant: the last address added to either family bounds both. *)
FitsBoth(f, lo) == \A g \in Families : end[g] < lo

(* Mutant: an IPv4 range is only compared with the rows of its family. *)
FitsAlways(f, lo) == f = 4 \/ end[f] < lo

(* addRange: the range starts above the last one of its family. *)
Fits(f, lo) == end[f] < lo

(* addRange and Builder.AddRange *)
AddRange(f, lo, hi) ==
  /\ Fits(f, lo)
  /\ end' = [end EXCEPT ![f] = hi]
  /\ added' = [added EXCEPT ![f] =
                 @ \union {[first |-> lo, last |-> hi, rec |-> Id]}]

MoreBlocks == Fam = 6 /\ blk <= Len(Blocks) /\ Block.first <= Last.a

AddV4 ==
  /\ pc = "add" /\ Fam = 4
  /\ AddRange(4, First.a, Last.a)
  /\ pc' = "next"
  /\ UNCHANGED <<source, err, prev, ids, cur, blk, rows>>

PassBlock ==
  /\ pc = "add" /\ MoreBlocks
  /\ Block.last < cur
  /\ blk' = blk + 1
  /\ UNCHANGED <<source, pc, err, prev, end, ids, cur, added, rows>>

AddBeforeBlock ==
  /\ pc = "add" /\ MoreBlocks
  /\ cur < Block.first
  /\ AddRange(6, cur, Block.first - 1)
  /\ cur' = Block.first
  /\ UNCHANGED <<source, pc, err, prev, ids, blk, rows>>

AtBlock == MoreBlocks /\ Block.first <= cur /\ cur <= Block.last

(* netip.Addr.Unmap *)
Mapped(x) == x - Block.first

(* The part of the row in the mapped block, as IPv4. *)
BlockPart == <<Mapped(cur),
               Mapped(IF Last.a < Block.last THEN Last.a ELSE Block.last)>>

(* Mutant: what follows the block is dropped. *)
LeaveBlockForGood ==
  /\ cur' = Block.last + 1
  /\ blk' = blk + 1
  /\ pc' = "next"

LeaveBlock ==
  /\ cur' = IF Last.a <= Block.last THEN cur ELSE Block.last + 1
  /\ blk' = IF Last.a <= Block.last THEN blk ELSE blk + 1
  /\ pc' = IF Last.a <= Block.last THEN "next" ELSE "add"

AddMapped ==
  /\ pc = "add" /\ AtBlock /\ Block.v4
  /\ AddRange(4, BlockPart[1], BlockPart[2])
  /\ LeaveBlock
  /\ UNCHANGED <<source, err, prev, ids, rows>>

LeaveOut ==
  /\ pc = "add" /\ AtBlock /\ ~Block.v4
  /\ LeaveBlock
  /\ UNCHANGED <<source, err, prev, end, ids, added, rows>>

AddRest ==
  /\ pc = "add" /\ Fam = 6 /\ ~MoreBlocks
  /\ AddRange(6, cur, Last.a)
  /\ pc' = "next"
  /\ UNCHANGED <<source, err, prev, ids, cur, blk, rows>>

(* The range the next step of add would add does not fit. *)
RefuseRange ==
  /\ pc = "add"
  /\ \/ Fam = 4 /\ ~Fits(4, First.a)
     \/ MoreBlocks /\ cur < Block.first /\ ~Fits(6, cur)
     \/ AtBlock /\ Block.v4 /\ ~Fits(4, BlockPart[1])
     \/ Fam = 6 /\ ~MoreBlocks /\ ~Fits(6, cur)
  /\ Fail("order")

-----------------------------------------------------------------------------
(* readSource: the next row, the end of the file, or a line that cannot be *)
(* read or split.                                                          *)
AsRead == [first |-> First, last |-> Last, key |-> row.key]
ReadRow(r) ==
  /\ pc = "next"
  /\ Cardinality(rows) + 1 < MaxRows
  /\ rows' = rows \union {AsRead}
  /\ row' = r
  /\ pc' = "row"
  /\ UNCHANGED <<layout, v6, err, prev, end, ids, cur, blk, added>>

EndOfFile ==
  /\ pc = "next"
  /\ rows' = rows \union {AsRead}
  /\ pc' = "done"
  /\ UNCHANGED <<source, err, prev, end, ids, cur, blk, added>>

ReadFails == pc = "next" /\ Fail("syntax")

Next ==
  \/ RefuseFirstRow \/ Panic \/ Open
  \/ RefuseBounds \/ RefuseOrder \/ SkipRow \/ RefuseFill \/ StartAdd
  \/ AddV4 \/ PassBlock \/ AddBeforeBlock \/ AddMapped \/ LeaveOut \/ AddRest
  \/ RefuseRange
  \/ \E r \in RowsOf(layout) : ReadRow(r)
  \/ EndOfFile \/ ReadFails

Spec == Init /\ [][Next]_vars

-----------------------------------------------------------------------------
(* Properties *)

(* What is added are addresses of its family, and records that exist. *)
TypeOK ==
  /\ layout \in {"text", "ip2l", "ip2lASN"} /\ v6 \in BOOLEAN
  /\ pc \in {"open", "row", "add", "next", "done", "failed",
             "panicked"}
  /\ err \in {"none", "syntax", "order"}
  /\ row \in RowsOf(layout)
  /\ \A f \in Families :
       LET A == 0..(IF f = 4 THEN Top4 ELSE Top6) IN
       /\ prev[f] \in A \union {None} /\ end[f] \in A \union {None}
       /\ \A s \in added[f] : s.first \in A /\ s.last \in A
                            /\ s.first <= s.last /\ s.rec \in DOMAIN ids
  /\ ids \in Seq(Keys \ BadKeys)
  /\ cur \in 0..Top6 /\ blk \in 1..(Len(Blocks) + 1)

(* The addresses of family f whose lookups a row is about: IPv4-mapped     *)
(* addresses are IPv4 ones, and the other alias blocks are never looked up *)
(* in the IPv6 table.                                                      *)
Image(f, r) ==
  LET own == {x \in r.first.a..r.last.a : r.first.fam = f} IN
  IF f = 6
  THEN {x \in own : \A b \in DOMAIN Blocks : ~InBlock(b, x, x)}
  ELSE own \union
       {x \in 0..Top4 : r.first.fam = 6 /\
          \E b \in DOMAIN Blocks :
            /\ Blocks[b].v4
            /\ Blocks[b].first + x \in r.first.a..r.last.a}

(* At the end of every row, the ranges added answer each address of each   *)
(* family with the rows read so far that hold it, and there is nothing for *)
(* the alias blocks ("not stored", csvdb.go:49).                           *)
RowsAnswered ==
  pc \in {"next", "done"} =>
    \A f \in Families : \A x \in 0..Top6 :
      {ids[s.rec] : s \in {t \in added[f] : t.first <= x /\ x <= t.last}}
      = {r.key : r \in {t \in rows \union {AsRead} :
                         t.key # NoData /\ x \in Image(f, t)}}

(* Each range is added above the ones of its family, IPv4-mapped or not:   *)
(* the mergers' networks must not overlap (merge.go:58), and those that    *)
(* ascend are merged in a single pass.                                     *)
AddedAbove ==
  [][\A f \in Families : \A s \in added'[f] \ added[f] :
       \A t \in added[f] : t.last < s.first]_vars

(* A build fails for the order of its rows only when an earlier row of the *)
(* family, or one with data for IPv4 addresses, does not end below: that   *)
(* the two families share a file refuses none.                             *)
RefusesOnlyDisorder ==
  err = "order" =>
    \E r \in rows :
      \/ r.first.fam = Fam /\ r.last.a >= First.a
      \/ /\ r.key # NoData
         /\ \E x \in Image(4, r), y \in Image(4, AsRead) : x >= y

(* Rows must be in order, "a file that breaks this, or any other malformed *)
(* row, fails with ErrSyntax and the file and line" (csvdb.go:18).  Not so *)
(* for an ASN file that starts with a line of one field.                   *)
MalformedRefused == pc # "panicked"
=============================================================================
