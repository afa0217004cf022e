---------------------------- MODULE MCOpenInput -----------------------------
(* Files of every profile as encode writes them, with and without field    *)
(* sets, languages, exceptions and more strings than 16-bit ids can name;  *)
(* the same files with one value of the header, the directory or a section *)
(* changed, or all of an index section; and GEO1 files with one value      *)
(* changed.  Two buckets of four addresses, ids up to 3 in 16-bit fields.  *)
EXTENDS OpenInput

Empty == <<>>
R(n, w) == [narrow |-> n, wide |-> w, rest |-> 0]

V4 == <<[start |-> 1, rec |-> 1], [start |-> 2, rec |-> 0], [start |-> 6, rec |-> 1]>>
V6 == <<[hi |-> 1, lo |-> 0, rec |-> 1], [hi |-> 1, lo |-> 2, rec |-> 0], [hi |-> 3, lo |-> 1, rec |-> 1]>>

CountryDb ==
  [profile |-> Country, strs |-> <<Empty, <<1>>, <<2>> >>, recs |-> <<R(<<0, 0, 0>>, 0), R(<<1, 2, 0>>, 0)>>,
   v4 |-> V4, v6 |-> V6, x |-> Empty, langs |-> Empty, metaIds |-> {0}, language |-> 1]

RegionDb == [CountryDb EXCEPT !.profile = Region, !.recs = <<R(<<0, 0, 0, 0, 0>>, 0), R(<<1, 2, 0, 2, 1>>, 0)>>]

(* Ids 0 to 3 fit 16 bits: with four strings or more, every one of them is *)
(* an id; with three, 3 is not.                                            *)
ManyStrings ==
  [CountryDb EXCEPT !.strs = <<Empty, <<1>>, <<2>>, <<3>> >>, !.recs = <<R(<<0, 0, 0>>, 0), R(<<3, 2, 1>>, 0)>>]

(* An entry of field sets F in n languages, with ids that differ from one  *)
(* place to the next.                                                      *)
XEntryOf(p, F, n) ==
  [ids |-> [o \in (UNION {{FieldOff(F, b) + s : s \in StringsIn(b)} : b \in F})
                    \union {LangOff(F) + 3 * j : j \in 0..((n - 1) * Len(Kinds(p, F)) - 1)} |-> (o \div 3 + o) % 3],
   undefined |-> {}, rest |-> 1]
CityX == {FieldEU, FieldContinent, FieldSubdivisions, FieldPostal}
CityDb ==
  [CountryDb EXCEPT !.profile = City, !.recs = <<R(<<0, 0, 0, 0, 0, 0>>, 0), R(<<1, 2, 0, 1, 2, 1>>, 2)>>,
     !.x = <<[fields |-> CityX, entries |-> <<ZeroEntry, XEntryOf(City, CityX, 2)>>]>>,
     !.langs = <<1, 2>>, !.v6 = SubSeq(V6, 1, 1)]

EuDb == [CountryDb EXCEPT !.x = <<[fields |-> {FieldEU, FieldRegistered},
                                   entries |-> <<ZeroEntry, XEntryOf(Country, {FieldEU, FieldRegistered}, 1)>>]>>]

(* 256 records take 1-byte ids, 257 2-byte ones. *)
AsnDb(n) ==
  [CountryDb EXCEPT !.profile = ASN, !.v6 = Empty,
     !.recs = [i \in 1..n |-> IF i = 1 THEN R(Empty, 0) ELSE R(Empty, 1)]]

MCDatabases ==
  {CountryDb, RegionDb, ManyStrings, CityDb, EuDb, AsnDb(2), AsnDb(256), AsnDb(257),
   [CountryDb EXCEPT !.v4 = Empty, !.v6 = Empty, !.recs = <<R(<<0, 0, 0>>, 0)>>]}
    \union {[CountryDb EXCEPT !.v4 = <<[start |-> a, rec |-> 1], [start |-> b, rec |-> 0]>>] :
              <<a, b>> \in {<<p, q>> \in (0..7) \X (0..7) : p < q}}

-----------------------------------------------------------------------------
(* One value changed. *)
Bumped(v) == {v - 1, v + 1, v + 2, 0} \cap Nat
Bump(s)   == UNION {{[s EXCEPT ![k] = v] : v \in Bumped(s[k])} : k \in DOMAIN s}

HeaderChanges(f) ==
  {[f EXCEPT !.size = v] : v \in {3, 20, 40, f.size - 1, MaxFileSize + 1}}
    \union {[f EXCEPT !.magic = "GEO3"]}
    \union {[f EXCEPT !.hdr.version = 1], [f EXCEPT !.hdr.profile = 4], [f EXCEPT !.hdr.scale = 8],
            [f EXCEPT !.hdr.reserved = 1], [f EXCEPT !.meta.reserved = 1]}
    \union {[f EXCEPT !.hdr.profile = p] : p \in Profiles}
    \union {[f EXCEPT !.hdr.idWidth = w] : w \in 0..5}
    \union {[f EXCEPT !.hdr.count = c] : c \in {0, 8, Len(f.dir) - 1, Len(f.dir) + 1, 500}}

(* Offsets and lengths moved, and pairs of them whose sum wraps to a place *)
(* inside the file.                                                        *)
DirectoryChanges(f) ==
  UNION {{[f EXCEPT !.dir[k].off = v] : v \in {0, 4, Word64 - 8} \union {f.dir[k].off + d : d \in {-8, 4, 8}}}
           \union {[f EXCEPT !.dir[k].len = v] : v \in ({f.dir[k].len + d : d \in {-8, -4, -1, 1, 4, 8}} \union {Word64 - 8}) \cap Nat}
           \union {[f EXCEPT !.dir[k].off = Word64 - v, !.dir[k].len = v + g] : v \in {8, 64}, g \in {0, 64}}
           \union {[f EXCEPT !.dir[k].id = v] : v \in {0, 1, 9, 12, 14, 15}}
           \union {[f EXCEPT !.dir[k].crcOK = FALSE]} : k \in DOMAIN f.dir}
    \union {[f EXCEPT !.dir = Append(@, [id |-> i, off |-> o, len |-> n, crcOK |-> TRUE]),
                      !.hdr.count = @ + 1,
                      !.size = f.size + 32] : i \in {9, 12, 15}, o \in {Align8(f.size), Align8(f.size) + 24, Word64 - 8}, n \in {0, 8, 16}}

ContentChanges(f) ==
  {[f EXCEPT !.stridx = s] : s \in Bump(f.stridx)}
    \union {[f EXCEPT !.meta.language = v, !.meta.ids = @ \union {v}] : v \in 0..3}
    \union UNION {{[f EXCEPT !.recs[k].narrow = s] : s \in Bump(f.recs[k].narrow)} : k \in DOMAIN f.recs}
    \union UNION {{[f EXCEPT !.recs[k].wide = v] : v \in 1..4} : k \in DOMAIN f.recs}
    \union {[f EXCEPT !.recs[1].rest = 1]}
    \union {[f EXCEPT !.v4ids = s] : s \in Bump(f.v4ids)}
    \union {[f EXCEPT !.v6ids = s] : s \in Bump(f.v6ids)}
    \union {[f EXCEPT !.xfields.bits = F] : F \in {{}, {0, 1}, {FieldEU, FieldRegistered}, {FieldEU, 8}, CityX, CityX \ {FieldPostal}}}
    \union {[f EXCEPT !.xfields.reserved = 1]}
    \union UNION {{[f EXCEPT !.xrecs[k].undefined = {FieldEU}], [f EXCEPT !.xrecs[k].rest = 1]} : k \in DOMAIN f.xrecs}
    \union UNION {UNION {{[f EXCEPT !.xrecs[k].ids[o] = v] : v \in {0, 1, 3}} : o \in DOMAIN f.xrecs[k].ids} : k \in DOMAIN f.xrecs}
    \union {[f EXCEPT !.langs = s] : s \in Bump(f.langs)}
    \union {[f EXCEPT !.blob = s] : s \in Bump(f.blob)}

(* Every content of the index sections over small values. *)
IndexChanges(f) ==
  {[f EXCEPT !.v4idx = <<a, b, c>>, !.v4starts = s] :
      a \in 0..1, b \in 0..5, c \in 2..4, s \in [1..Len(f.v4starts) -> 0..2]}
    \union {[f EXCEPT !.v6excIdx = <<i, j>>, !.v6excLo = <<m, n>>, !.v6starts = <<g, 1, h>>] :
              i \in 0..3, j \in 0..3, m \in 0..2, n \in 0..2, g \in 0..2, h \in 0..2}

-----------------------------------------------------------------------------
(* GEO1. *)
S(n, text) == [n |-> n, text |-> text]
SizeOf(f) ==
  8 + 4 + MapThenSumSet(LAMBDA j : 2 + f.strs[j].n, DOMAIN f.strs)
    + 6 + f.rc * f.rw + 4 + 8 * f.n4 + 4 + 20 * f.n6
Sized(f) == [f EXCEPT !.size = SizeOf(f)]

OldCountry ==
  Sized([magic |-> "GEO1", size |-> 0, hdr |-> [version |-> 1, profile |-> Country, scale |-> 0, reserved |-> 0],
   ns |-> 3, strs |-> <<S(0, ""), S(2, "a"), S(1, "b")>>,
   rc |-> 2, rw |-> 16, recs |-> << <<0, 0, 0, 0>>, <<2, 1, 0, 9>> >>,
   n4 |-> 3, starts4 |-> <<1, 2, 6>>, ids4 |-> <<1, 0, 1>>,
   n6 |-> 2, starts6 |-> << <<1, 0>>, <<1, 2>> >>, ids6 |-> <<1, 0>>])

OldCity(a, b, city) ==
  Sized([OldCountry EXCEPT !.hdr.profile = City, !.rw = 48, !.rc = 3, !.ns = 7,
     !.strs = <<S(1, "z"), S(2, "a"), S(1, "b"), S(1, "c"), S(0, ""), S(1, "d"), S(1, "e")>>,
     !.recs = << <<9, 9, 9, 9, 9, 9, 9, 9, 9, 9, 9, 9>>,
                 <<a, 1, 0, 7, 2, 2, city, 7, 7, 7, 7, 1>>,
                 <<b, a, 1, 7, 8, 2, a, 7, 7, 7, 7, b>> >>])

OldChanges(f) ==
  {[f EXCEPT !.size = v] : v \in {3, 6, 11, 15, 30, f.size - 1, f.size - 20, f.size + 1, MaxFileSize + 1}}
    \union {[f EXCEPT !.hdr.version = 2], [f EXCEPT !.hdr.profile = 3], [f EXCEPT !.hdr.scale = 8],
            [f EXCEPT !.hdr.reserved = 1], [f EXCEPT !.magic = "GEO0"]}
    \union {[f EXCEPT !.ns = v] : v \in Bumped(f.ns) \union {1000}}
    \union {[f EXCEPT !.rc = v] : v \in Bumped(f.rc) \union {1000}}
    \union {[f EXCEPT !.rw = v] : v \in {0, 24, 48}}
    \union {[f EXCEPT !.n4 = v] : v \in Bumped(f.n4) \union {1000}}
    \union {[f EXCEPT !.n6 = v] : v \in Bumped(f.n6) \union {1000}}
    \union {[f EXCEPT !.starts4 = s] : s \in [1..3 -> {0, 3, 4, 7}]}
    \union {[f EXCEPT !.starts6 = s] : s \in [1..2 -> (0..1) \X (0..1)]}
    \union {[f EXCEPT !.ids4 = s] : s \in Bump(f.ids4)}
    \union {[f EXCEPT !.ids6 = s] : s \in Bump(f.ids6)}
    \union {Sized([f EXCEPT !.ns = @ - 1, !.strs = SubSeq(@, 1, Len(@) - 1)])}

MCOthers ==
  LET F == {Encode(CountryDb), Encode(ManyStrings), Encode(CityDb), Encode(EuDb), Encode(AsnDb(2))} IN
  UNION {HeaderChanges(f) \union DirectoryChanges(f) \union ContentChanges(f) : f \in F}
    \union IndexChanges(Encode(CountryDb))
    \union OldChanges(OldCountry)
    \union {OldCity(a, b, c) : a \in {0, 2, 3, 5, 7}, b \in 0..8, c \in {0, 1, 3, 6, 7}}
=============================================================================
