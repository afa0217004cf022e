----------------------------- MODULE Geo2Encode -----------------------------
(***************************************************************************)
(* encode (internal/build/encode.go): the GEO2 file a finished build d is  *)
(* written as, in the form Input gives an input.  d has a profile, strings *)
(* (sequences of bytes), records and their extension entries with final    *)
(* string ids, the boundaries of both families and the META string ids.    *)
(***************************************************************************)
EXTENDS Input

LowNotZero(b) == b.lo # 0
nExceptions(d) == Len(SelectSeq(d.v6, LowNotZero))
BlobLen(d)     == MapThenSumSet(LAMBDA i : Len(d.strs[i]), DOMAIN d.strs)

Section(id, length) == [id |-> id, len |-> length]

Sections(d) ==
  LET idW == IDWidth(Len(d.recs)) IN
  << Section(SecMeta, MetaSize),
     Section(SecStrIdx, 4 * (Len(d.strs) + 1)),
     Section(SecStrBlob, BlobLen(d)),
     Section(SecRecords, Len(d.recs) * RecordWidth(d.profile)),
     Section(SecV4Idx, 4 * (Buckets + 1)),
     Section(SecV4Starts, 2 * Len(d.v4)), Section(SecV4IDs, idW * Len(d.v4)),
     Section(SecV6Starts, 8 * Len(d.v6)), Section(SecV6IDs, idW * Len(d.v6)) >>
  \o (IF nExceptions(d) = 0 THEN <<>> ELSE
        << Section(SecV6ExcIdx, 4 * nExceptions(d)), Section(SecV6ExcLo, 8 * nExceptions(d)) >>)
  \o (IF d.x = <<>> THEN <<>> ELSE
        << Section(SecXFields, XFieldsSize),
           Section(SecXRecords, Len(d.recs) * Width(d.profile, d.x[1].fields, Max({1, Len(d.langs)}))) >>)
  \o (IF d.langs = <<>> THEN <<>> ELSE << Section(SecLangs, 4 * Len(d.langs)) >>)

(* The sections in id order after the directory, each at the next multiple *)
(* of 8; the file ends with the last.                                      *)
Placed(d) ==
  LET S   == Sections(d)
      Place[k \in 1..Len(S)] ==
        Align8(IF k = 1 THEN HeaderSize + Len(S) * DirEntrySize ELSE Place[k - 1] + S[k - 1].len)
  IN  [k \in 1..Len(S) |-> [id |-> S[k].id, off |-> Place[k], len |-> S[k].len, crcOK |-> TRUE]]

(* The sections' contents. *)
StrIdxOf(d) ==
  [i \in 1..(Len(d.strs) + 1) |-> MapThenSumSet(LAMBDA j : Len(d.strs[j]), 1..(i - 1))]
(* A mutant: entry g counts the boundaries of bucket g too. *)
V4IdxOfNext(d) == [g \in 1..(Buckets + 1) |-> Len(SelectSeq(d.v4, LAMBDA b : b.start \div BucketSize <= g - 1))]
V4IdxOf(d) == [g \in 1..(Buckets + 1) |-> Len(SelectSeq(d.v4, LAMBDA b : b.start \div BucketSize < g - 1))]
ExcIdxOf(d) == SelectSeq([i \in DOMAIN d.v6 |-> i - 1], LAMBDA i : d.v6[i + 1].lo # 0)

Encode(d) ==
  LET dir  == Placed(d)
      last == dir[Len(dir)]
      exc  == ExcIdxOf(d)
  IN [magic |-> "GEO2", size |-> last.off + last.len,
      hdr |-> [version |-> 2, profile |-> d.profile, scale |-> 0,
               idWidth |-> IDWidth(Len(d.recs)), count |-> Len(dir), reserved |-> 0],
      dir |-> dir,
      meta |-> [reserved |-> 0, ids |-> d.metaIds \union {d.language}, language |-> d.language],
      stridx |-> StrIdxOf(d), blob |-> FlattenSeq(d.strs),
      recs |-> d.recs,
      v4idx |-> V4IdxOf(d),
      v4starts |-> [i \in DOMAIN d.v4 |-> d.v4[i].start % BucketSize],
      v4ids |-> [i \in DOMAIN d.v4 |-> d.v4[i].rec],
      v6starts |-> [i \in DOMAIN d.v6 |-> d.v6[i].hi],
      v6ids |-> [i \in DOMAIN d.v6 |-> d.v6[i].rec],
      v6excIdx |-> exc, v6excLo |-> [e \in DOMAIN exc |-> d.v6[exc[e] + 1].lo],
      xfields |-> [bits |-> IF d.x = <<>> THEN {} ELSE d.x[1].fields, reserved |-> 0],
      xrecs |-> IF d.x = <<>> THEN <<>> ELSE d.x[1].entries,
      langs |-> d.langs]
=============================================================================
